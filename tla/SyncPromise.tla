---------------------------- MODULE SyncPromise ----------------------------
(***************************************************************************)
(* What `sync` promises about the paths it is given.  Once the source has  *)
(* been read without an error, what to do with each path is planned, for   *)
(* good.  The planned paths are taken up in order, each of them once, so   *)
(* many at a time, and none once the run has been told to stop.  A path    *)
(* changes only while it is in hand, and at most once; it is done only if  *)
(* it changed, and in a preview it is done without a change.  The report   *)
(* waits for every path in hand and tells of every path taken up, and it   *)
(* is a success exactly when nothing went wrong.                           *)
(*                                                                         *)
(* Sync.tla is shown to implement this module.                             *)
(***************************************************************************)
EXTENDS Integers, FiniteSets

CONSTANT Path     \* a set of numbers: the order in which paths are taken up

VARIABLES
  limit,        \* so many paths may be in hand together
  preview,      \* a dry run
  unread,       \* something at the source could not be read
  plan,         \* what is to be done with each path
  fate,         \* what became of it
  changed,      \* paths this run changed at the destination
  stopped,      \* the run has been told to stop
  told,         \* paths the report tells of
  published,    \* the report is out
  outcome       \* "running", "success" or "failure"

inputs == <<limit, preview>>
report == <<told, published, outcome>>
vars == <<inputs, unread, plan, fate, changed, stopped, report>>

Plans == {"none", "skip", "transfer", "remove"}

InHand == {p \in Path : fate[p] = "running"}
Ended  == {p \in Path : fate[p] \in {"done", "failed", "skipped"}}
Failed == {p \in Path : fate[p] = "failed"}
Ahead  == {p \in Path : plan[p] # "none" /\ fate[p] = "pending"}

NoPlan == plan = [p \in Path |-> "none"]

Init ==
  /\ limit \in Nat \ {0} /\ preview \in BOOLEAN
  /\ unread = FALSE /\ NoPlan
  /\ fate = [p \in Path |-> "pending"] /\ changed = {}
  /\ stopped = FALSE
  /\ told = {} /\ published = FALSE /\ outcome = "running"

Stop ==
  /\ outcome = "running" /\ ~stopped
  /\ stopped' = TRUE
  /\ UNCHANGED <<inputs, unread, plan, fate, changed, report>>

ReadFails ==
  /\ outcome = "running" /\ NoPlan
  /\ unread' = TRUE
  /\ UNCHANGED <<inputs, plan, fate, changed, stopped, report>>

MakePlan ==
  /\ outcome = "running" /\ ~stopped /\ ~unread /\ NoPlan
  /\ plan' \in [Path -> Plans]
  /\ UNCHANGED <<inputs, unread, fate, changed, stopped, report>>

\* Before there is a plan the run may be given up, and reports nothing.
Abandon ==
  /\ outcome = "running" /\ NoPlan
  /\ outcome' = "failure"
  /\ UNCHANGED <<inputs, unread, plan, fate, changed, stopped, told, published>>

\* The first path ahead is taken up; there is nothing to wait for in a preview or a skip.
Begin(p) ==
  /\ outcome = "running" /\ ~stopped
  /\ p \in Ahead /\ \A q \in Ahead : p <= q
  /\ Cardinality(InHand) < limit
  /\ fate' = [fate EXCEPT ![p] = IF plan[p] = "skip" THEN "skipped"
                                 ELSE IF preview THEN "done" ELSE "running"]
  /\ UNCHANGED <<inputs, unread, plan, changed, stopped, report>>

Change(p) ==
  /\ fate[p] = "running" /\ p \notin changed
  /\ changed' = changed \cup {p}
  /\ UNCHANGED <<inputs, unread, plan, fate, stopped, report>>

\* What was begun ends: done if it changed something, failed whether it did or not.
Settle(p) ==
  /\ fate[p] = "running"
  /\ \E end \in {"done", "failed"} :
       /\ end = "done" => p \in changed
       /\ fate' = [fate EXCEPT ![p] = end]
  /\ UNCHANGED <<inputs, unread, plan, changed, stopped, report>>

Conclude ==
  /\ outcome = "running" /\ InHand = {}
  /\ stopped \/ Ahead = {}
  /\ told' = Ended /\ published' = TRUE
  /\ outcome' = IF unread \/ Failed # {} THEN "failure" ELSE "success"
  /\ UNCHANGED <<inputs, unread, plan, fate, changed, stopped>>

Next ==
  \/ Stop \/ ReadFails \/ MakePlan \/ Abandon
  \/ \E p \in Path : Begin(p) \/ Change(p) \/ Settle(p)
  \/ Conclude

Spec == Init /\ [][Next]_vars
=============================================================================

--------------------------- MODULE UploadPromise ---------------------------
(***************************************************************************)
(* What the `upload` command promises about a set of files, whatever order *)
(* its workers run in.  Files are begun a few at a time, never more than   *)
(* `limit` are under way together, none is begun once one has failed and   *)
(* none is sent once the run is cancelled, the command concludes only when *)
(* nothing is under way, it succeeds only with every file done, and the    *)
(* cause it reports is the first failure.                                  *)
(*                                                                         *)
(* Upload.tla is shown to implement this module.                           *)
(***************************************************************************)
EXTENDS Integers, FiniteSets

CONSTANTS NoFile      \* the cause while nothing has failed

VARIABLES
  total,      \* how many files were matched
  limit,      \* the `concurrency` input
  begun,      \* files some worker has taken
  active,     \* files taken and not settled
  sending,    \* those of them whose bytes may be on their way to B2
  done,       \* files whose result was recorded
  cause,      \* the first file that failed, or NoFile
  stopped,    \* a signal has arrived
  outcome     \* "open", then "resolved" or "rejected"

vars == <<total, limit, begun, active, sending, done, cause, stopped, outcome>>

Files == 0 .. total - 1

Init ==
  /\ total \in Nat
  /\ limit \in Nat \ {0}
  /\ begun = {} /\ active = {} /\ sending = {} /\ done = {}
  /\ cause = NoFile
  /\ stopped = FALSE
  /\ outcome = "open"

\* The run is cancelled.
Stop ==
  /\ outcome = "open" /\ ~stopped
  /\ stopped' = TRUE
  /\ UNCHANGED <<total, limit, begun, active, sending, done, cause, outcome>>

\* The files are refused as a whole before any of them is begun.
Refuse ==
  /\ outcome = "open" /\ begun = {}
  /\ outcome' = "rejected"
  /\ UNCHANGED <<total, limit, begun, active, sending, done, cause, stopped>>

Begin(S) ==
  /\ outcome = "open" /\ begun = {} /\ ~stopped
  /\ S \subseteq Files /\ Cardinality(S) <= limit
  /\ begun' = S /\ active' = S /\ sending' = S
  /\ UNCHANGED <<total, limit, done, cause, stopped, outcome>>

\* File i is done, and the worker it frees may begin others; they are not sent any more
\* when the run is cancelled.
Acknowledge(i, S) ==
  /\ outcome = "open" /\ i \in active \cap sending
  /\ S \subseteq Files \ begun
  /\ S # {} => cause = NoFile
  /\ done' = done \cup {i}
  /\ begun' = begun \cup S
  /\ active' = (active \ {i}) \cup S
  /\ Cardinality(active') <= limit
  /\ sending' = (sending \ {i}) \cup (IF stopped THEN {} ELSE S)
  /\ UNCHANGED <<total, limit, cause, stopped, outcome>>

Fail(i) ==
  /\ outcome = "open" /\ i \in active
  /\ active' = active \ {i} /\ sending' = sending \ {i}
  /\ cause' = IF cause = NoFile THEN i ELSE cause
  /\ UNCHANGED <<total, limit, begun, done, stopped, outcome>>

Conclude ==
  /\ outcome = "open" /\ active = {}
  /\ \/ cause = NoFile /\ done = Files /\ outcome' = "resolved"
     \/ cause # NoFile /\ outcome' = "rejected"
  /\ UNCHANGED <<total, limit, begun, active, sending, done, cause, stopped>>

Next ==
  \/ Stop
  \/ Refuse
  \/ \E S \in SUBSET Files : Begin(S)
  \/ \E i \in active, S \in SUBSET Files : Acknowledge(i, S)
  \/ \E i \in active : Fail(i)
  \/ Conclude

Spec == Init /\ [][Next]_vars
=============================================================================

-------------------------- MODULE DeletionPromise --------------------------
(***************************************************************************)
(* What `delete` and `purge` promise about the versions of a bucket that   *)
(* others change as well.  Versions are taken up one by one, none of them  *)
(* twice and none once the run has been told to stop.  Only what was asked *)
(* for is ever requested, nothing is in a preview, and what the server     *)
(* guards stays.  Each version taken up is reported as what became of it,  *)
(* and success means that nothing asked for was left behind.               *)
(*                                                                         *)
(* Deletion.tla is shown to implement this module.                         *)
(***************************************************************************)
CONSTANTS
  Versions,
  NoVersion     \* stands for "no version"

VARIABLES
  asked,        \* the versions the inputs ask for
  guarded,      \* those of all versions the server does not remove for this run
  preview,      \* a dry run
  whole,        \* all the versions asked for are wanted, not one of them
  there,        \* versions present
  since,        \* those that have been present since the run began
  open,         \* the version a request is under way for, or NoVersion
  removed,      \* versions removed by this run's requests
  deleted,      \* versions reported as deleted
  previewed,    \* versions reported as what a real run would delete
  refused,      \* versions counted as errors
  stopped,      \* the run has been told to stop
  published,    \* the report is out
  outcome       \* "running", "success" or "failure"

inputs == <<asked, guarded, preview, whole>>
store  == <<there, since, removed>>
report == <<deleted, previewed, refused>>
vars == <<inputs, store, open, report, stopped, published, outcome>>

Taken == deleted \cup previewed \cup refused

Init ==
  /\ asked \in SUBSET Versions /\ guarded \in SUBSET Versions
  /\ preview \in BOOLEAN /\ whole \in BOOLEAN
  /\ there \in SUBSET Versions /\ since = there /\ removed = {}
  /\ open = NoVersion
  /\ deleted = {} /\ previewed = {} /\ refused = {}
  /\ stopped = FALSE /\ published = FALSE /\ outcome = "running"

\* Version v may be taken up now, as the first or, when all are wanted, as the next.
Free(v) ==
  /\ outcome = "running" /\ ~stopped /\ open = NoVersion
  /\ v \notin Taken
  /\ whole \/ Taken = {}

Request(v) ==
  /\ Free(v) /\ v \in asked /\ ~preview
  /\ open' = v
  /\ UNCHANGED <<inputs, store, report, stopped, published, outcome>>

Preview(v) ==
  /\ Free(v) /\ v \in asked /\ preview
  /\ previewed' = previewed \cup {v}
  /\ UNCHANGED <<inputs, store, open, deleted, refused, stopped, published, outcome>>

\* A version that was not asked for is an error, and is not requested.
Reject(v) ==
  /\ Free(v) /\ v \notin asked
  /\ refused' = refused \cup {v}
  /\ UNCHANGED <<inputs, store, open, deleted, previewed, stopped, published, outcome>>

\* The request under way takes effect.
Remove ==
  /\ outcome = "running" /\ open \in there \ guarded
  /\ there' = there \ {open} /\ since' = since \ {open}
  /\ removed' = removed \cup {open}
  /\ UNCHANGED <<inputs, open, report, stopped, published, outcome>>

\* It is answered; without an answer it is an error, whether it took effect or not.
Acknowledge ==
  /\ outcome = "running" /\ open \in removed
  /\ deleted' = deleted \cup {open} /\ open' = NoVersion
  /\ UNCHANGED <<inputs, store, previewed, refused, stopped, published, outcome>>

Lose ==
  /\ outcome = "running" /\ open # NoVersion
  /\ refused' = refused \cup {open} /\ open' = NoVersion
  /\ UNCHANGED <<inputs, store, deleted, previewed, stopped, published, outcome>>

\* The report is complete, and so is the work when it has no errors.
Conclude ==
  /\ outcome = "running" /\ open = NoVersion
  /\ published' = TRUE
  /\ \/ refused # {} /\ outcome' = "failure"
     \/ /\ refused = {} /\ outcome' = "success"
        /\ IF whole THEN asked \cap since \subseteq (IF preview THEN previewed ELSE {})
                    ELSE deleted \cup previewed # {}
  /\ UNCHANGED <<inputs, store, open, report, stopped>>

\* The run is given up, and reports nothing.
Abandon ==
  /\ outcome = "running"
  /\ outcome' = "failure" /\ open' = NoVersion
  /\ UNCHANGED <<inputs, store, report, stopped, published>>

Stop ==
  /\ outcome = "running" /\ ~stopped
  /\ stopped' = TRUE
  /\ UNCHANGED <<inputs, store, open, report, published, outcome>>

\* Others upload and delete versions.
OthersChange ==
  /\ outcome = "running"
  /\ there' \in SUBSET Versions /\ since' = since \cap there'
  /\ UNCHANGED <<inputs, removed, open, report, stopped, published, outcome>>

Next ==
  \/ \E v \in Versions : Request(v) \/ Preview(v) \/ Reject(v)
  \/ Remove \/ Acknowledge \/ Lose
  \/ Conclude \/ Abandon \/ Stop
  \/ OthersChange

Spec == Init /\ [][Next]_vars
=============================================================================

-------------------------------- MODULE Sync --------------------------------
(***************************************************************************)
(* The `sync` command: syncCommand and its event counters (sync.ts), the   *)
(* SDK's synchronize() generator it consumes (bundled in dist/index.js),   *)
(* and the part of run() that publishes the counters (main.ts).            *)
(*                                                                         *)
(* A sync scans both sides, pairs the paths, and carries out one action    *)
(* per pair, at most `concurrency` together, while other clients keep      *)
(* writing to the destination.  What the scan saw of a path is its `kind`; *)
(* every decision rests on it, and it may be stale when the action runs.   *)
(*                                                                         *)
(* As the engine's steps between two waits cannot be interrupted, planning *)
(* a pair, reporting the events queued so far, looking at the signal and   *)
(* starting the pair's action are one step.                                *)
(***************************************************************************)
EXTENDS Integers, FiniteSets

CONSTANTS
  MaxPath,         \* bound: relative paths, in scan order
  MaxConcurrency,  \* bound: the `concurrency` input
  MaxScanErrors,   \* bound: unreadable entries of a local scan
  KindsAt,         \* bound: the kinds the scan may find at a path
  Volatile         \* bound: the paths others write to during the run

ASSUME SyncAssumption ==
  /\ MaxPath \in Nat /\ MaxConcurrency \in Nat \ {0} /\ MaxScanErrors \in Nat
  /\ Volatile \subseteq 1 .. MaxPath

VARIABLES
  \* The inputs, and the bucket's file-lock setting.
  direction,    \* "unresolved", then "up" or "down"
  keepMode, dryRun, concurrency, locked,
  \* What the scan found.
  kind,         \* of each path; see Kinds
  inventory,    \* "complete", or "incomplete" when the source scan skipped names
  scanErrors,   \* error events of the local scan
  \* The engine.
  pc,
  aborted,      \* signal.aborted
  todo,         \* pairs not taken up yet
  fate,         \* what became of each pair's action
  aggregate,    \* the closing error event was yielded
  \* The destination.
  dst,          \* what is visible at each path
  touched,      \* paths whose destination this run changed
  \* syncCommand and run().
  counted,      \* pairs whose event reached the counters
  published,    \* the outputs are set
  outcome       \* "running", "success" or "failure"

inputs == <<keepMode, dryRun, concurrency, locked>>
scanned == <<kind, inventory, scanErrors>>
vars == <<direction, inputs, scanned, pc, aborted, todo, fate, aggregate, dst, touched,
          counted, published, outcome>>

Path == 1 .. MaxPath

\* "same" and "changed" are what the compare mode says of a path that is on both sides.  An
\* orphan is on the destination alone: old enough to go, or younger than `keep-days`, or
\* with an older version of the same name beneath it.
Orphans == {"orphan", "youngOrphan", "buriedOrphan"}
Kinds   == {"absent", "sourceOnly", "changed", "same"} \cup Orphans
Fates   == {"pending", "running", "checked", "applied", "done", "failed", "skipped"}
Sights  == {"nothing", "scanned", "older", "ours", "foreign", "hidden"}

Init ==
  /\ direction = "unresolved"
  /\ keepMode \in {"no-delete", "delete", "keep-days"}
  /\ dryRun \in BOOLEAN /\ concurrency \in 1 .. MaxConcurrency /\ locked \in BOOLEAN
  /\ kind = [p \in Path |-> "absent"] /\ inventory = "complete" /\ scanErrors = 0
  /\ pc = "start" /\ aborted = FALSE
  /\ todo = {} /\ fate = [p \in Path |-> "pending"] /\ aggregate = FALSE
  /\ dst = [p \in Path |-> "nothing"] /\ touched = {}
  /\ counted = {} /\ published = FALSE /\ outcome = "running"

Pairs   == {p \in Path : kind[p] # "absent"}
Running == {p \in Path : fate[p] \in {"running", "checked", "applied"}}
Settled == {p \in Path : fate[p] \in {"done", "failed", "skipped"}}
Failed  == {p \in Path : fate[p] = "failed"}

Fail == pc' = "done" /\ outcome' = "failure"

---------------------------------------------------------------------------
(* Before the engine runs. *)

\* resolveDirection and buildConfig: where the sync goes, or "refused".  An explicit `up`
\* needs a local directory; `auto` takes a directory for one unless it is written with a
\* tilde, which could name a B2 prefix as well.
Resolved(requested, isDirectory, tilde) ==
  CASE requested = "down" -> "down"
    [] requested = "up"   -> IF isDirectory THEN "up" ELSE "refused"
    [] OTHER              -> IF ~isDirectory THEN "down" ELSE IF tilde THEN "refused" ELSE "up"

Start ==
  /\ pc = "start"
  /\ \E requested \in {"up", "down", "auto"}, isDirectory, tilde \in BOOLEAN :
       LET d == Resolved(requested, isDirectory, tilde) IN
       \/ d = "refused" /\ Fail /\ UNCHANGED direction
       \/ d # "refused" /\ direction' = d /\ pc' = "scanning" /\ UNCHANGED outcome
  /\ UNCHANGED <<inputs, scanned, aborted, todo, fate, aggregate, dst, touched, counted,
                 published>>

\* Both sides are listed and paired.  Only a B2 destination has older versions.
Scan ==
  /\ pc = "scanning" /\ ~aborted /\ scanErrors = 0
  /\ kind' \in {f \in [Path -> Kinds] : \A p \in Path :
        f[p] \in KindsAt[p] /\ (direction = "up" \/ f[p] # "buriedOrphan")}
  /\ inventory' \in {"complete", "incomplete"}
  /\ dst' = [p \in Path |-> IF kind'[p] \in {"absent", "sourceOnly"} THEN "nothing" ELSE "scanned"]
  /\ todo' = {p \in Path : kind'[p] # "absent"}
  /\ pc' = "acting"
  /\ UNCHANGED <<direction, inputs, scanErrors, aborted, fate, aggregate, touched, counted,
                 published, outcome>>

\* BUG: a scan error is recorded by the scanner and again by the engine's onError.
ScanErrorTwice ==
  /\ pc = "scanning" /\ scanErrors < MaxScanErrors
  /\ scanErrors' = scanErrors + 2
  /\ UNCHANGED <<direction, inputs, kind, inventory, pc, aborted, todo, fate, aggregate, dst,
                 touched, counted, published, outcome>>

\* A local entry cannot be read: the engine's onError queues an event, the scan goes on.
ScanError ==
  /\ pc = "scanning" /\ scanErrors < MaxScanErrors
  /\ scanErrors' = scanErrors + 1
  /\ UNCHANGED <<direction, inputs, kind, inventory, pc, aborted, todo, fate, aggregate, dst,
                 touched, counted, published, outcome>>

\* After a scan with errors no action is planned: their events, then the closing one.
ScanGivesUp ==
  /\ pc = "scanning" /\ ~aborted /\ scanErrors > 0
  /\ aggregate' = TRUE
  /\ pc' = "publish"
  /\ UNCHANGED <<direction, inputs, scanned, aborted, todo, fate, dst, touched, counted,
                 published, outcome>>

\* A failed listing, an unsafe B2 name or a scan over its limit makes the engine throw.
ScanThrows ==
  /\ pc = "scanning"
  /\ Fail
  /\ UNCHANGED <<direction, inputs, scanned, aborted, todo, fate, aggregate, dst, touched,
                 counted, published>>

\* A cancelled scan ends the generator normally.
ScanCancelled ==
  /\ pc = "scanning" /\ aborted
  /\ pc' = "publish"
  /\ UNCHANGED <<direction, inputs, scanned, aborted, todo, fate, aggregate, dst, touched,
                 counted, published, outcome>>

---------------------------------------------------------------------------
(* The actions. *)

\* BUG: orphans are removed although the source scan skipped names.
ActionTrustingScan(p) ==
  CASE kind[p] \in {"sourceOnly", "changed"} -> "transfer"
    [] kind[p] \in Orphans /\ (\/ keepMode = "delete"
                               \/ keepMode = "keep-days" /\ kind[p] # "youngOrphan") -> "remove"
    [] OTHER -> "skip"

\* planPreparedPair and generateActions.
Action(p) ==
  CASE kind[p] \in {"sourceOnly", "changed"} -> "transfer"
    [] kind[p] \in Orphans /\ inventory = "complete"
         /\ (\/ keepMode = "delete"
             \/ keepMode = "keep-days" /\ kind[p] # "youngOrphan") -> "remove"
    [] OTHER -> "skip"

First(S) == CHOOSE p \in S : \A q \in S : p <= q

\* What starting an action amounts to: a skip and a dry run are settled at once.
Started(p) ==
  IF Action(p) = "skip" THEN "skipped" ELSE IF dryRun THEN "done" ELSE "running"

\* BUG: an action is started while `concurrency` others are running.
TakePairTooMany ==
  /\ pc = "acting" /\ ~aborted /\ todo # {}
  /\ Cardinality(Running) <= concurrency
  /\ todo' = todo \ {First(todo)}
  /\ fate' = [fate EXCEPT ![First(todo)] = Started(First(todo))]
  /\ counted' = Settled
  /\ UNCHANGED <<direction, inputs, scanned, pc, aborted, aggregate, dst, touched, published,
                 outcome>>

\* emitPreparedItems and scheduleAction: once fewer than `concurrency` actions run, the
\* events queued so far are yielded and the next pair's action starts.
TakePair ==
  /\ pc = "acting" /\ ~aborted /\ todo # {}
  /\ Cardinality(Running) < concurrency
  /\ todo' = todo \ {First(todo)}
  /\ fate' = [fate EXCEPT ![First(todo)] = Started(First(todo))]
  /\ counted' = Settled
  /\ UNCHANGED <<direction, inputs, scanned, pc, aborted, aggregate, dst, touched, published,
                 outcome>>

\* What is visible at p after its action.  A transfer puts the source's file there; a local
\* removal unlinks; a remote removal deletes the scanned version, uncovering what lies
\* beneath, or hides the name where the bucket has file lock.
After(p) ==
  CASE Action(p) = "transfer"         -> "ours"
    [] direction = "down"             -> "nothing"
    [] direction = "up" /\ locked     -> "hidden"
    [] OTHER -> IF dst[p] # "scanned" THEN dst[p]
                ELSE IF kind[p] = "buriedOrphan" THEN "older" ELSE "nothing"

\* BUG: the local file is no longer compared with what the scan saw.
StillAsScannedNever(p) == TRUE

\* Local files are replaced and removed only while they are as the scan saw them.
StillAsScanned(p) ==
  dst[p] = IF kind[p] = "sourceOnly" THEN "nothing" ELSE "scanned"

LocalRemoval(p) == direction = "down" /\ Action(p) = "remove"

\* A local removal looks at the file a last time before it unlinks it: two system calls.
Check(p) ==
  /\ fate[p] = "running" /\ LocalRemoval(p) /\ StillAsScanned(p)
  /\ fate' = [fate EXCEPT ![p] = "checked"]
  /\ UNCHANGED <<direction, inputs, scanned, pc, aborted, todo, aggregate, dst, touched,
                 counted, published, outcome>>

\* An action takes effect at the destination.  A download moves the old file aside, looks at
\* it, and puts the new one in a place that must be free: nothing comes between.
Apply(p) ==
  /\ fate[p] = IF LocalRemoval(p) THEN "checked" ELSE "running"
  /\ direction = "down" /\ ~LocalRemoval(p) => StillAsScanned(p)
  /\ dst' = [dst EXCEPT ![p] = After(p)]
  /\ touched' = touched \cup {p}
  /\ fate' = [fate EXCEPT ![p] = "applied"]
  /\ UNCHANGED <<direction, inputs, scanned, pc, aborted, todo, aggregate, counted,
                 published, outcome>>

\* The action's promise resolves: its done event is queued.
ActionSucceeds(p) ==
  /\ fate[p] = "applied"
  /\ fate' = [fate EXCEPT ![p] = "done"]
  /\ UNCHANGED <<direction, inputs, scanned, pc, aborted, todo, aggregate, dst, touched,
                 counted, published, outcome>>

\* It rejects, cancelled or not, with or without effect: an error event is queued.
ActionFails(p) ==
  /\ fate[p] \in {"running", "checked", "applied"}
  /\ fate' = [fate EXCEPT ![p] = "failed"]
  /\ UNCHANGED <<direction, inputs, scanned, pc, aborted, todo, aggregate, dst, touched,
                 counted, published, outcome>>

\* BUG: the events queued since the last pair are dropped.
FinishUnflushed ==
  /\ pc = "acting" /\ Running = {}
  /\ todo = {} \/ aborted
  /\ aggregate' = (todo = {} /\ Failed # {})
  /\ pc' = "publish"
  /\ UNCHANGED <<direction, inputs, scanned, aborted, todo, fate, dst, touched, counted,
                 published, outcome>>

\* BUG: a cancelled engine waits for the pairs it will never start.
FinishWaitsForAll ==
  /\ pc = "acting" /\ Running = {} /\ todo = {}
  /\ counted' = Settled
  /\ aggregate' = (Failed # {})
  /\ pc' = "publish"
  /\ UNCHANGED <<direction, inputs, scanned, aborted, todo, fate, dst, touched, published,
                 outcome>>

\* Every pair was taken up, or the run was cancelled before that: running actions are waited
\* for and the last events yielded.  The closing error event is left out after a
\* cancellation, and pairs not taken up are not mentioned.
Finish ==
  /\ pc = "acting" /\ Running = {}
  /\ todo = {} \/ aborted
  /\ counted' = Settled
  /\ aggregate' = (todo = {} /\ Failed # {})
  /\ pc' = "publish"
  /\ UNCHANGED <<direction, inputs, scanned, aborted, todo, fate, dst, touched, published,
                 outcome>>

---------------------------------------------------------------------------
(* The counters, as processSyncEvent leaves them. *)
Transfers == {p \in counted : fate[p] = "done" /\ Action(p) = "transfer"}
Removals  == {p \in counted : fate[p] = "done" /\ Action(p) = "remove"}
Skips     == {p \in counted : fate[p] = "skipped"}
errors    == Cardinality(counted \cap Failed) + scanErrors + (IF aggregate THEN 1 ELSE 0)

\* BUG: the outputs are published and the error count is forgotten.
PublishAnyway ==
  /\ pc = "publish"
  /\ published' = TRUE
  /\ pc' = "done" /\ outcome' = "success"
  /\ UNCHANGED <<direction, inputs, scanned, aborted, todo, fate, aggregate, dst, touched, counted>>

\* run() sets the outputs from the counters and then throws when there are errors.
Publish ==
  /\ pc = "publish"
  /\ published' = TRUE
  /\ pc' = "done" /\ outcome' = IF errors > 0 THEN "failure" ELSE "success"
  /\ UNCHANGED <<direction, inputs, scanned, aborted, todo, fate, aggregate, dst, touched, counted>>

---------------------------------------------------------------------------
(* The environment. *)

\* SIGTERM or SIGINT.
Abort ==
  /\ pc \in {"start", "scanning", "acting"} /\ ~aborted
  /\ aborted' = TRUE
  /\ UNCHANGED <<direction, inputs, scanned, pc, todo, fate, aggregate, dst, touched, counted,
                 published, outcome>>

\* Another client uploads a version, or another process writes a local file.
OtherWrites(p) ==
  /\ pc = "acting" /\ dst[p] # "foreign"
  /\ dst' = [dst EXCEPT ![p] = "foreign"]
  /\ UNCHANGED <<direction, inputs, scanned, pc, aborted, todo, fate, aggregate, touched,
                 counted, published, outcome>>

Finished == pc = "done" /\ UNCHANGED vars

Step ==
  \/ Start \/ Scan \/ ScanGivesUp \/ ScanThrows \/ ScanCancelled
  \/ TakePair \/ Finish \/ Publish

Next ==
  \/ Step
  \/ \E p \in Path : Check(p) \/ Apply(p) \/ ActionSucceeds(p) \/ ActionFails(p)
  \/ \E p \in Volatile : OtherWrites(p)
  \/ ScanError
  \/ Abort
  \/ Finished

\* The engine keeps going, and each action it started settles: the SDK bounds its requests.
Fairness ==
  /\ WF_vars(Step)
  /\ \A p \in Path : WF_vars(ActionSucceeds(p) \/ ActionFails(p))

Spec == Init /\ [][Next]_vars /\ Fairness

---------------------------------------------------------------------------
\* The type of every variable.
TypeOK ==
  /\ direction \in {"unresolved", "up", "down"}
  /\ keepMode \in {"no-delete", "delete", "keep-days"}
  /\ dryRun \in BOOLEAN /\ concurrency \in 1 .. MaxConcurrency /\ locked \in BOOLEAN
  /\ kind \in [Path -> Kinds] /\ inventory \in {"complete", "incomplete"}
  /\ scanErrors \in 0 .. MaxScanErrors
  /\ pc \in {"start", "scanning", "acting", "publish", "done"}
  /\ aborted \in BOOLEAN
  /\ todo \in SUBSET Path /\ fate \in [Path -> Fates] /\ aggregate \in BOOLEAN
  /\ dst \in [Path -> Sights] /\ touched \in SUBSET Path
  /\ counted \in SUBSET Path /\ published \in BOOLEAN
  /\ outcome \in {"running", "success", "failure"}

\* Nothing changes in a dry run or after a scan error.  A path that is not copied changes only
\* if the scan saw it on the destination and not at the source, the source scan skipped
\* nothing, and the keep mode lets it go.
ChangesOnlyWhatWasAsked ==
  \A p \in touched :
    /\ ~dryRun /\ scanErrors = 0
    /\ \/ kind[p] \in {"sourceOnly", "changed"}
       \/ /\ kind[p] \in Orphans /\ inventory = "complete"
          /\ keepMode = "delete" \/ (keepMode = "keep-days" /\ kind[p] # "youngOrphan")

\* The counters are published when no action is running any more, and tell of everything this
\* run changed: each changed path is counted,
\* as done or as an error, and outside a dry run each path counted as done was changed.
CountersAreTrue ==
  published =>
    /\ Running = {}
    /\ touched \subseteq Transfers \cup Removals \cup (counted \cap Failed)
    /\ ~dryRun => Transfers \cup Removals \subseteq touched

\* A sync that succeeds and was not cancelled has dealt with every pair: each file to copy
\* was copied, each orphan to go was removed, and every other pair is counted as skipped.
SuccessIsComplete ==
  outcome = "success" /\ ~aborted =>
    /\ Pairs = Transfers \cup Removals \cup Skips
    /\ ~dryRun => \A p \in Pairs : Action(p) # "skip" => p \in touched

\* The code guards the destination of a download against writes it has not seen, except
\* between a removal's last look at a file and its unlink, and that of the removal of a
\* remote orphan, unless the bucket has file lock: there a removal hides whatever is latest.
Guarded(p) ==
  /\ fate[p] # "checked"
  /\ direction = "down" \/ (Action(p) = "remove" /\ ~locked)

\* What somebody else wrote after the scan is not replaced, removed or hidden from view where
\* the code guards it.
ForeignSurvives ==
  [][\A p \in Path : dst[p] = "foreign" /\ Guarded(p) => dst'[p] = "foreign"]_vars

\* An action starts only while the sync is not cancelled, and never as one more than
\* `concurrency` actions that run together.
StartsInBounds ==
  [][(\E p \in Path : fate[p] = "pending" /\ fate'[p] # "pending") =>
       ~aborted /\ Cardinality(Running') <= concurrency]_vars

Promise == INSTANCE SyncPromise WITH
  limit   <- concurrency,
  preview <- dryRun,
  unread  <- scanErrors > 0,
  plan    <- [p \in Path |-> IF kind[p] = "absent" THEN "none" ELSE Action(p)],
  fate    <- [p \in Path |-> IF fate[p] \in {"checked", "applied"} THEN "running" ELSE fate[p]],
  changed <- touched,
  stopped <- aborted,
  told    <- IF published THEN counted ELSE {}

\* The command keeps the promise of SyncPromise, step by step: pairs are taken up in order, each
\* once, no more than `concurrency` together and none after a cancellation; nothing is done
\* twice, and the report waits for every action and is a success exactly when none failed.
ImplementsPromise == Promise!Spec

\* The command ends.
Terminates == <>(pc = "done")

---------------------------------------------------------------------------
(* What the documentation says and the code does not do. *)

\* README.md:190: "keep-mode: delete   # up sync: removes REMOTE files not present locally".
OrphansGone ==
  outcome = "success" /\ ~aborted /\ ~dryRun /\ direction = "up" /\ keepMode = "delete"
      /\ inventory = "complete" =>
    \A p \in Path : kind[p] \in Orphans => dst[p] \notin {"scanned", "older"}

\* sync.ts:32: "Count of per-file errors".
ErrorsArePerFile == published => errors <= Cardinality(Failed) + scanErrors

\* README.md:422: bytes-transferred is the "Total bytes moved", and counts each file below.
BytesWereMoved == published => Transfers \subseteq touched

\* main.test.ts:208: "reports a SIGTERM-triggered command abort through setFailed".
CancellationIsReported == outcome = "success" => todo = {}
=============================================================================

------------------------------- MODULE Upload -------------------------------
(***************************************************************************)
(* The `upload` command: uploadCommand and its worker pool                 *)
(* mapWithConcurrency (src/commands/upload.ts), from the moment the local  *)
(* files are resolved until the command returns or throws.                 *)
(*                                                                         *)
(* JavaScript runs a continuation to its next real await without           *)
(* interruption, and delivers SIGTERM/SIGINT only between such runs.  So   *)
(* the planning pass, which never waits for anything outside the process,  *)
(* is one step together with the first claim of every worker, and so is    *)
(* "my mapper settled, record it, look at `failed`, take the next index".  *)
(***************************************************************************)
EXTENDS Integers, FiniteSets

CONSTANTS
  MaxFiles,         \* bound: files one command resolves
  MaxConcurrency,   \* bound: the `concurrency` input
  Keys              \* B2 file names the files may be mapped to

ASSUME UploadAssumption ==
  /\ MaxFiles \in Nat
  /\ MaxConcurrency \in Nat \ {0}

VARIABLES
  \* What resolveFiles and the inputs give; never changed afterwards.
  n,            \* files.length
  single,       \* isSingleExplicitFile
  concurrency,  \* inputs.concurrency
  failOnEmpty,  \* inputs.failOnEmpty
  keyOf,        \* the B2 name remapFileName gives each file
  invalid,      \* files whose plan validateFileInfo rejects
  \* The command and its pool.
  phase,        \* "planning", "uploading", "returned" or "thrown"
  aborted,      \* signal.aborted
  next,         \* the pool's shared cursor
  failed,       \* the pool's shared flag
  firstError,   \* the file whose error the pool will rethrow, or None
  slot,         \* the index each worker holds; None before it starts and after it returns
  results,      \* the pool's results array; None is a hole
  \* The uploads.
  fstate,       \* what became of each file's mapper call
  writers       \* B2: the local files whose bytes were stored under each name

inputs == <<n, single, concurrency, failOnEmpty, keyOf, invalid>>
vars == <<inputs, phase, aborted, next, failed, firstError, slot, results,
          fstate, writers>>

Index   == 0 .. MaxFiles - 1
Workers == 0 .. MaxConcurrency - 1
None    == -1

\* "refused": the mapper threw at its abort check; "kept": B2 stored the file and the
\* answer is on its way.
FileStates == {"unclaimed", "refused", "sending", "kept", "settled"}
Begun    == {i \in Index : fstate[i] # "unclaimed"}
Active   == {i \in Index : fstate[i] \in {"refused", "sending", "kept"}}
InFlight == {i \in Index : fstate[i] \in {"sending", "kept"}}
Done     == {i \in Index : results[i] # None}

Init ==
  /\ n \in 0 .. MaxFiles
  /\ single \in BOOLEAN /\ (single => n = 1)
  /\ concurrency \in 1 .. MaxConcurrency
  /\ failOnEmpty \in BOOLEAN
  /\ keyOf \in [Index -> Keys]
  /\ invalid \in SUBSET {i \in Index : i < n}
  /\ phase = "planning"
  /\ aborted = FALSE
  /\ next = 0 /\ failed = FALSE /\ firstError = None
  /\ slot = [w \in Workers |-> None]
  /\ results = [i \in Index |-> None]
  /\ fstate = [i \in Index |-> "unclaimed"]
  /\ writers = [k \in Keys |-> {}]

FileConcurrency == IF single THEN 1 ELSE concurrency
\* BUG: the whole budget to every file, on top of the pool's own parallelism.
PartConcurrencyUnsplit == concurrency
PartConcurrency == IF single \/ n = 1 THEN concurrency ELSE 1
WorkerCount == IF FileConcurrency < n THEN FileConcurrency ELSE n

\* BUG: only neighbours are compared, as if the list were sorted by B2 name.
NeighboursDiffer == \A i \in Index : i + 1 < n => keyOf[i] # keyOf[i + 1]
UniqueNames ==
  \A i, j \in Index : i < n /\ j < n /\ i # j => keyOf[i] # keyOf[j]

---------------------------------------------------------------------------
\* No file matched: an error with fail-on-empty, else an empty result.
NothingMatched ==
  /\ phase = "planning" /\ n = 0
  /\ phase' = IF failOnEmpty THEN "thrown" ELSE "returned"
  /\ UNCHANGED <<inputs, aborted, next, failed, firstError, slot, results,
                 fstate, writers>>

\* The planning pass throws: cancelled, a plan is invalid, or two plans share a name.
PlanRejected ==
  /\ phase = "planning" /\ n > 0
  /\ aborted \/ invalid # {} \/ ~UniqueNames
  /\ phase' = "thrown"
  /\ UNCHANGED <<inputs, aborted, next, failed, firstError, slot, results,
                 fstate, writers>>

\* Every plan stands: the pool creates its workers and each takes its first file.
StartUploads ==
  /\ phase = "planning" /\ n > 0
  /\ ~aborted /\ invalid = {} /\ UniqueNames
  /\ phase' = "uploading"
  /\ next' = WorkerCount
  /\ slot' = [w \in Workers |-> IF w < WorkerCount THEN w ELSE None]
  /\ fstate' = [i \in Index |-> IF i < WorkerCount THEN "sending" ELSE "unclaimed"]
  /\ UNCHANGED <<inputs, aborted, failed, firstError, results, writers>>

\* B2 stores the bytes of a file that is being sent (once or, after a lost answer and an
\* SDK retry, again: the set of writers is the same).
Store(i) ==
  /\ fstate[i] = "sending"
  /\ fstate' = [fstate EXCEPT ![i] = "kept"]
  /\ writers' = [writers EXCEPT ![keyOf[i]] = @ \cup {i}]
  /\ UNCHANGED <<inputs, phase, aborted, next, failed, firstError, slot, results>>

\* Top of the worker loop with nothing left to do: a failure was seen, or the cursor is
\* past the end (it is advanced all the same).
WorkerReturns(w) ==
  /\ failed \/ next >= n
  /\ slot' = [slot EXCEPT ![w] = None]
  /\ next' = IF failed THEN next ELSE next + 1
  /\ fstate' = [fstate EXCEPT ![slot[w]] = "settled"]

\* BUG: the mapper lost its signal?.throwIfAborted().
WorkerClaimsUnchecked(w) ==
  /\ ~failed /\ next < n
  /\ slot' = [slot EXCEPT ![w] = next]
  /\ next' = next + 1
  /\ fstate' = [fstate EXCEPT ![slot[w]] = "settled", ![next] = "sending"]

\* BUG: `index >= items.length` is not looked at.
WorkerClaimsPastEnd(w) ==
  /\ ~failed
  /\ slot' = [slot EXCEPT ![w] = next]
  /\ next' = next + 1
  /\ fstate' = [fstate EXCEPT ![slot[w]] = "settled",
                              ![next] = IF aborted THEN "refused" ELSE "sending"]

\* Otherwise the worker takes index next++ and calls the mapper, whose first statement
\* is the abort check.
WorkerClaims(w) ==
  /\ ~failed /\ next < n
  /\ slot' = [slot EXCEPT ![w] = next]
  /\ next' = next + 1
  /\ fstate' = [fstate EXCEPT ![slot[w]] = "settled",
                              ![next] = IF aborted THEN "refused" ELSE "sending"]

\* uploadOne resolved: record the result in its own slot and go round the loop.
UploadSucceeds(w) ==
  /\ slot[w] # None /\ fstate[slot[w]] = "kept"
  /\ results' = [results EXCEPT ![slot[w]] = slot[w]]
  /\ WorkerReturns(w) \/ WorkerClaims(w)
  /\ UNCHANGED <<inputs, phase, aborted, failed, firstError, writers>>

\* The mapper rejected: cancelled before or during the transfer, a local read error, a B2
\* error, or an answer lost after B2 had stored the file.
UploadFails(w) ==
  /\ slot[w] # None
  /\ failed' = TRUE
  /\ firstError' = IF failed THEN firstError ELSE slot[w]
  /\ slot' = [slot EXCEPT ![w] = None]
  /\ fstate' = [fstate EXCEPT ![slot[w]] = "settled"]
  /\ UNCHANGED <<inputs, phase, aborted, next, results, writers>>

\* BUG: the pool resolves whether or not a worker failed.
AwaitAllIgnoringFailure ==
  /\ phase = "uploading" /\ \A w \in Workers : slot[w] = None
  /\ phase' = "returned"
  /\ UNCHANGED <<inputs, aborted, next, failed, firstError, slot, results,
                 fstate, writers>>

\* BUG: the pool waits for every item instead of for every worker.
AwaitItems ==
  /\ phase = "uploading" /\ \A i \in Index : i < n => fstate[i] = "settled"
  /\ phase' = IF failed THEN "thrown" ELSE "returned"
  /\ UNCHANGED <<inputs, aborted, next, failed, firstError, slot, results,
                 fstate, writers>>

\* Promise.all over the workers, then `if (failed) throw firstError`.
AwaitAll ==
  /\ phase = "uploading" /\ \A w \in Workers : slot[w] = None
  /\ phase' = IF failed THEN "thrown" ELSE "returned"
  /\ UNCHANGED <<inputs, aborted, next, failed, firstError, slot, results,
                 fstate, writers>>

\* SIGTERM or SIGINT, between any two steps of the command.
Abort ==
  /\ phase \in {"planning", "uploading"} /\ ~aborted
  /\ aborted' = TRUE
  /\ UNCHANGED <<inputs, phase, next, failed, firstError, slot, results, fstate,
                 writers>>

Finished == phase \in {"returned", "thrown"} /\ UNCHANGED vars

Plan == NothingMatched \/ PlanRejected \/ StartUploads

Next ==
  \/ Plan
  \/ \E i \in Index : Store(i)
  \/ \E w \in Workers : UploadSucceeds(w) \/ UploadFails(w)
  \/ AwaitAll
  \/ Abort
  \/ Finished

\* The event loop runs every continuation that is ready, and the SDK bounds each request
\* with timeouts and a retry limit, so a mapper call settles.  No signal has to arrive and
\* B2 has to store nothing.
Fairness ==
  /\ WF_vars(Plan)
  /\ \A w \in Workers : WF_vars(UploadSucceeds(w) \/ UploadFails(w))
  /\ WF_vars(AwaitAll)

Spec == Init /\ [][Next]_vars /\ Fairness

---------------------------------------------------------------------------
TypeOK ==
  /\ n \in 0 .. MaxFiles
  /\ single \in BOOLEAN
  /\ concurrency \in 1 .. MaxConcurrency
  /\ failOnEmpty \in BOOLEAN
  /\ keyOf \in [Index -> Keys]
  /\ invalid \in SUBSET Index
  /\ phase \in {"planning", "uploading", "returned", "thrown"}
  /\ aborted \in BOOLEAN
  /\ next \in Nat
  /\ failed \in BOOLEAN
  /\ firstError \in Index \cup {None}
  /\ slot \in [Workers -> Index \cup {None}]
  /\ results \in [Index -> Index \cup {None}]
  /\ fstate \in [Index -> FileStates]
  /\ writers \in [Keys -> SUBSET Index]

\* The requests the uploads may have open together, files times parts per file, never
\* exceed the user's `concurrency` (the budget of uploadCommand's comment).
BudgetBounded ==
  phase = "uploading" => Cardinality(InFlight) * PartConcurrency <= concurrency

\* No B2 name ever receives the bytes of two local files, even when the command is
\* cancelled or fails half-way.
OneWriterPerName ==
  \A k \in Keys : \A i, j \in writers[k] : i = j

\* When the command has returned or thrown, no upload of it is still running.  The promise
\* below says so too.
NothingLeftRunning ==
  phase \in {"returned", "thrown"} => InFlight = {} /\ \A w \in Workers : slot[w] = None

\* A command that returns has stored every matched file under its own name and reports
\* it at its own position, whatever order the workers finished in.
SuccessIsComplete ==
  phase = "returned" =>
    \A i \in Index : i < n => results[i] = i /\ i \in writers[keyOf[i]]

\* Once one upload has failed, or the run is cancelled, no further upload starts.  The
\* promise below says so too.
NoStartAfterStop ==
  [][failed \/ aborted =>
       \A i \in Index : fstate'[i] = "sending" => fstate[i] = "sending"]_vars

\* The command ends, whatever fails and whenever it is cancelled.
Terminates == <>(phase \in {"returned", "thrown"})

Promise == INSTANCE UploadPromise WITH
  NoFile  <- None,
  total   <- n,
  limit   <- concurrency,
  begun   <- Begun,
  active  <- Active,
  sending <- InFlight,
  done    <- Done,
  cause   <- firstError,
  stopped <- aborted,
  outcome <- CASE phase = "returned" -> "resolved"
               [] phase = "thrown"   -> "rejected"
               [] OTHER              -> "open"

\* The command keeps the promise of UploadPromise, step by step: among others, no upload
\* starts after a failure or a cancellation and none is running when the command ends.
ImplementsPromise == Promise!Spec
=============================================================================

---------------------------- MODULE UploadProofs ----------------------------
(***************************************************************************)
(* Proofs about Upload.tla, for every number of files, every concurrency   *)
(* and every set of B2 names: the inductive invariant, the safety          *)
(* properties that follow from it, and the refinement of UploadPromise.    *)
(***************************************************************************)
EXTENDS Upload, FiniteSetTheorems, TLAPS

LiveStates == {"refused", "sending", "kept"}

\* The inputs stay what they were resolved to.
InputsInv ==
  /\ single => n = 1
  /\ invalid \subseteq {i \in Index : i < n}

\* The cursor separates the files that were claimed from those that were not, and the
\* command has claimed files only with unique names.
CursorInv ==
  /\ \A i \in Index : fstate[i] # "unclaimed" <=> (i < next /\ i < n)
  /\ next > 0 => UniqueNames
  /\ phase = "planning" => next = 0

\* A worker holds a live file, and a live file has exactly one worker.
WorkerInv ==
  /\ \A w \in Workers : slot[w] # None =>
       /\ fstate[slot[w]] \in LiveStates
       /\ phase = "uploading"
       /\ w < WorkerCount
  /\ \A v, w \in Workers : slot[v] # None /\ slot[v] = slot[w] => v = w
  /\ \A i \in Index : fstate[i] \in LiveStates => \E w \in Workers : slot[w] = i

\* Recorded results and stored bytes belong to the file they name.
ResultInv ==
  /\ \A i \in Index : results[i] \in {None, i}
  /\ \A i \in Index : results[i] # None => fstate[i] = "settled" /\ i \in writers[keyOf[i]]
  /\ \A i \in Index : fstate[i] = "settled" /\ ~failed => results[i] = i
  /\ \A i \in Index : fstate[i] = "kept" => i \in writers[keyOf[i]]
  /\ \A k \in Keys : \A i \in writers[k] : keyOf[i] = k /\ fstate[i] # "unclaimed"

\* The pool stops for one of two reasons only: a failure, or no file left.
PoolInv ==
  /\ firstError # None <=> failed
  /\ phase = "planning" => ~failed
  /\ phase = "uploading" => n > 0 /\ next >= WorkerCount
  /\ phase = "uploading" =>
       \A w \in Workers : w < WorkerCount /\ slot[w] = None => failed \/ next >= n
  /\ phase = "returned" => ~failed /\ (n = 0 \/ next >= n)

Inv == TypeOK /\ InputsInv /\ CursorInv /\ WorkerInv /\ ResultInv /\ PoolInv

USE UploadAssumption

---------------------------------------------------------------------------
(* The invariant holds at first and is kept by every step. *)

\* Every state the command can begin in satisfies the invariant.
LEMMA InitInv == Init => Inv
  <1> SUFFICES ASSUME Init PROVE Inv
    OBVIOUS
  <1> USE DEF Init, Index, Workers, None
  <1>1. TypeOK
    BY DEF TypeOK, FileStates
  <1>2. InputsInv /\ CursorInv
    BY DEF InputsInv, CursorInv
  <1>3. WorkerInv /\ ResultInv /\ PoolInv
    BY DEF WorkerInv, LiveStates, ResultInv, PoolInv
  <1> QED
    BY <1>1, <1>2, <1>3 DEF Inv

\* What the worker counts are: at least one worker for a non-empty list, never more than
\* the concurrency or than the files.
LEMMA WorkerCountBounds ==
  ASSUME TypeOK, InputsInv
  PROVE  /\ WorkerCount \in 0 .. concurrency
         /\ WorkerCount <= n
         /\ n > 0 => WorkerCount > 0
  BY DEF TypeOK, InputsInv, WorkerCount, FileConcurrency

\* StartUploads: the planning pass succeeds and each worker claims its first file.
LEMMA StartInv ==
  ASSUME Inv, StartUploads
  PROVE  Inv'
  <1> USE DEF Inv, StartUploads, inputs
  <1>0. /\ WorkerCount \in 0 .. concurrency
        /\ WorkerCount <= n
        /\ WorkerCount > 0
        /\ WorkerCount' = WorkerCount
    BY WorkerCountBounds DEF WorkerCount, FileConcurrency
  <1>1. TypeOK'
    BY <1>0 DEF TypeOK, FileStates, Index, Workers, None
  <1>2. InputsInv'
    BY DEF InputsInv, Index
  <1>3. CursorInv'
    BY <1>0 DEF CursorInv, UniqueNames, TypeOK, Index
  <1>4. WorkerInv'
    <2>1. \A w \in Workers : slot'[w] = IF w < WorkerCount THEN w ELSE None
      OBVIOUS
    <2>2. \A i \in Index : fstate'[i] \in LiveStates => i \in Workers /\ i < WorkerCount
      BY <1>0 DEF LiveStates, TypeOK, Index, Workers
    <2>3. \A w \in Workers : w < WorkerCount => w \in Index /\ fstate'[w] \in LiveStates
      BY <1>0 DEF LiveStates, TypeOK, Index, Workers
    <2> QED
      BY <1>0, <2>1, <2>2, <2>3 DEF WorkerInv, Workers, None
  <1>5. ResultInv'
    <2>1. \A i \in Index : fstate[i] = "unclaimed"
      BY DEF CursorInv, TypeOK, Index
    <2>2. /\ \A i \in Index : results[i] = None
          /\ \A k \in Keys : writers[k] = {}
      BY <2>1 DEF ResultInv, TypeOK
    <2>3. \A i \in Index : fstate'[i] \in {"sending", "unclaimed"}
      OBVIOUS
    <2> QED
      BY <2>2, <2>3 DEF ResultInv
  <1>6. PoolInv'
    BY <1>0 DEF PoolInv, TypeOK, Workers, None
  <1> QED
    BY <1>1, <1>2, <1>3, <1>4, <1>5, <1>6

\* Store: B2 keeps the bytes of a file that is being sent.
LEMMA StoreInv ==
  ASSUME Inv, NEW i \in Index, Store(i)
  PROVE  Inv'
  <1> USE DEF Inv, Store, inputs
  <1>0. WorkerCount' = WorkerCount
    BY DEF WorkerCount, FileConcurrency
  <1>1. TypeOK'
    BY DEF TypeOK, FileStates
  <1>2. InputsInv' /\ CursorInv'
    BY DEF InputsInv, CursorInv, UniqueNames, TypeOK, Index
  <1>3. WorkerInv'
    BY <1>0 DEF WorkerInv, LiveStates, TypeOK
  <1>4. ResultInv'
    BY DEF ResultInv, TypeOK
  <1>5. PoolInv'
    BY <1>0 DEF PoolInv
  <1> QED
    BY <1>1, <1>2, <1>3, <1>4, <1>5

\* UploadSucceeds, when the worker finds nothing more to claim.
LEMMA SuccessReturnsInv ==
  ASSUME Inv, NEW w \in Workers, UploadSucceeds(w), WorkerReturns(w)
  PROVE  Inv'
  <1> DEFINE i == slot[w]
  <1> USE DEF Inv, UploadSucceeds, WorkerReturns, inputs
  <1>0. /\ WorkerCount' = WorkerCount
        /\ i \in Index /\ fstate[i] = "kept"
    BY DEF WorkerCount, FileConcurrency, TypeOK
  <1>1. TypeOK'
    BY <1>0 DEF TypeOK, FileStates
  <1>2. InputsInv'
    BY DEF InputsInv, Index
  <1>3. CursorInv'
    BY <1>0 DEF CursorInv, UniqueNames, TypeOK, Index, WorkerInv, PoolInv
  <1>4. WorkerInv'
    BY <1>0 DEF WorkerInv, LiveStates, TypeOK, Index, None
  <1>5. ResultInv'
    BY <1>0 DEF ResultInv, TypeOK, Index, None
  <1>6. PoolInv'
    BY <1>0, WorkerCountBounds DEF PoolInv, WorkerInv, TypeOK
  <1> QED
    BY <1>1, <1>2, <1>3, <1>4, <1>5, <1>6

\* UploadSucceeds, when the worker claims the next file.
LEMMA SuccessClaimsInv ==
  ASSUME Inv, NEW w \in Workers, UploadSucceeds(w), WorkerClaims(w)
  PROVE  Inv'
  <1> DEFINE i == slot[w]
  <1> USE DEF Inv, UploadSucceeds, WorkerClaims, inputs
  <1>0. /\ WorkerCount' = WorkerCount
        /\ i \in Index /\ fstate[i] = "kept"
        /\ next \in Index /\ fstate[next] = "unclaimed" /\ next # i
    BY DEF WorkerCount, FileConcurrency, TypeOK, CursorInv, Index
  <1>1. TypeOK'
    BY <1>0 DEF TypeOK, FileStates
  <1>2. InputsInv'
    BY DEF InputsInv, Index
  <1>3. CursorInv'
    BY <1>0 DEF CursorInv, UniqueNames, TypeOK, Index, WorkerInv, PoolInv
  <1>4. WorkerInv'
    <2>1. \A v \in Workers : slot'[v] = IF v = w THEN next ELSE slot[v]
      BY DEF TypeOK
    <2>2. \A j \in Index : fstate'[j] =
            IF j = next THEN (IF aborted THEN "refused" ELSE "sending")
            ELSE IF j = i THEN "settled" ELSE fstate[j]
      BY <1>0 DEF TypeOK
    <2>3. \A v \in Workers : slot[v] # None => slot[v] \in Index /\ slot[v] # next
      BY <1>0 DEF WorkerInv, LiveStates, TypeOK
    <2>4. \A v \in Workers : v # w => slot[v] # i
      BY <1>0 DEF WorkerInv, Index, None
    <2>0. /\ phase' = phase /\ slot[w] = i /\ next # None /\ WorkerInv
          /\ phase = "uploading" /\ w < WorkerCount
      BY <1>0 DEF WorkerInv, Index, None
    <2> HIDE DEF Inv, UploadSucceeds, WorkerClaims, i
    <2>5. \A v \in Workers : slot'[v] # None =>
             /\ fstate'[slot'[v]] \in LiveStates
             /\ phase' = "uploading"
             /\ v < WorkerCount'
      <3> SUFFICES ASSUME NEW v \in Workers, slot'[v] # None
                   PROVE  /\ fstate'[slot'[v]] \in LiveStates
                          /\ phase' = "uploading"
                          /\ v < WorkerCount'
        OBVIOUS
      <3>1. CASE v = w
        BY <1>0, <2>0, <2>1, <2>2, <3>1 DEF LiveStates
      <3>2. CASE v # w
        BY <1>0, <2>0, <2>1, <2>2, <2>3, <2>4, <3>2 DEF WorkerInv
      <3> QED
        BY <3>1, <3>2
    <2>6. \A u, v \in Workers : slot'[u] # None /\ slot'[u] = slot'[v] => u = v
      BY <2>0, <2>1, <2>3 DEF WorkerInv
    <2>7. \A j \in Index : fstate'[j] \in LiveStates => \E v \in Workers : slot'[v] = j
      <3> SUFFICES ASSUME NEW j \in Index, fstate'[j] \in LiveStates
                   PROVE  \E v \in Workers : slot'[v] = j
        OBVIOUS
      <3>1. CASE j = next
        BY <2>1, <3>1
      <3>2. CASE j # next
        <4>1. j # i /\ fstate[j] \in LiveStates
          BY <2>2, <3>2 DEF LiveStates
        <4>2. PICK v \in Workers : slot[v] = j
          BY <2>0, <4>1 DEF WorkerInv
        <4> QED
          BY <2>0, <2>1, <4>1, <4>2
      <3> QED
        BY <3>1, <3>2
    <2> QED
      BY <2>5, <2>6, <2>7 DEF WorkerInv
  <1>5. ResultInv'
    BY <1>0 DEF ResultInv, TypeOK, Index, None
  <1>6. PoolInv'
    BY <1>0, WorkerCountBounds DEF PoolInv, WorkerInv, TypeOK, Index, None
  <1> QED
    BY <1>1, <1>2, <1>3, <1>4, <1>5, <1>6

\* UploadFails: the worker records the first error and stops.
LEMMA FailInv ==
  ASSUME Inv, NEW w \in Workers, UploadFails(w)
  PROVE  Inv'
  <1> DEFINE i == slot[w]
  <1> USE DEF Inv, UploadFails, inputs
  <1>0. /\ WorkerCount' = WorkerCount
        /\ i \in Index /\ fstate[i] \in LiveStates
        /\ phase = "uploading"
    BY DEF WorkerCount, FileConcurrency, TypeOK, WorkerInv
  <1>1. TypeOK'
    BY <1>0 DEF TypeOK, FileStates
  <1>2. InputsInv'
    BY DEF InputsInv, Index
  <1>3. CursorInv'
    BY <1>0 DEF CursorInv, UniqueNames, TypeOK, Index, LiveStates
  <1>4. WorkerInv'
    BY <1>0 DEF WorkerInv, LiveStates, TypeOK, Index, None
  <1>5. ResultInv'
    BY <1>0 DEF ResultInv, TypeOK, Index, None, LiveStates
  <1>6. PoolInv'
    BY <1>0 DEF PoolInv, WorkerInv, TypeOK, Index, None
  <1> QED
    BY <1>1, <1>2, <1>3, <1>4, <1>5, <1>6

\* The steps that change neither a worker nor a file.
LEMMA PhaseInv ==
  ASSUME Inv, NothingMatched \/ PlanRejected \/ AwaitAll \/ Abort
  PROVE  Inv'
  <1> USE DEF Inv, inputs
  <1>0. /\ UNCHANGED <<inputs, next, failed, firstError, slot, results, fstate, writers>>
        /\ WorkerCount' = WorkerCount
    BY DEF NothingMatched, PlanRejected, AwaitAll, Abort, WorkerCount, FileConcurrency
  <1>1. TypeOK'
    BY <1>0 DEF TypeOK, NothingMatched, PlanRejected, AwaitAll, Abort
  <1>2. InputsInv' /\ ResultInv'
    BY <1>0 DEF InputsInv, ResultInv
  <1>3. CursorInv'
    BY <1>0 DEF CursorInv, UniqueNames, NothingMatched, PlanRejected, AwaitAll, Abort
  <1>4. WorkerInv'
    BY <1>0 DEF WorkerInv, CursorInv, TypeOK, Workers,
                NothingMatched, PlanRejected, AwaitAll, Abort
  <1>5. PoolInv'
    <2>1. AwaitAll => \E w \in Workers : w < WorkerCount /\ slot[w] = None
      BY WorkerCountBounds DEF AwaitAll, PoolInv, Workers, TypeOK
    <2> QED
      BY <1>0, <2>1 DEF PoolInv, TypeOK, NothingMatched, PlanRejected, AwaitAll, Abort
  <1> QED
    BY <1>1, <1>2, <1>3, <1>4, <1>5

\* Every step of the command keeps the invariant.
LEMMA StepInv == Inv /\ [Next]_vars => Inv'
  <1> SUFFICES ASSUME Inv, [Next]_vars PROVE Inv'
    OBVIOUS
  <1>1. CASE StartUploads
    BY <1>1, StartInv
  <1>2. CASE \E i \in Index : Store(i)
    BY <1>2, StoreInv
  <1>3. CASE \E w \in Workers : UploadSucceeds(w)
    BY <1>3, SuccessReturnsInv, SuccessClaimsInv DEF UploadSucceeds
  <1>4. CASE \E w \in Workers : UploadFails(w)
    BY <1>4, FailInv
  <1>5. CASE NothingMatched \/ PlanRejected \/ AwaitAll \/ Abort
    BY <1>5, PhaseInv
  <1>6. CASE UNCHANGED vars
    BY <1>6 DEF vars, inputs, Inv, TypeOK, InputsInv, CursorInv, UniqueNames, WorkerInv,
                WorkerCount, FileConcurrency, ResultInv, PoolInv
  <1> QED
    BY <1>1, <1>2, <1>3, <1>4, <1>5, <1>6 DEF Next, Plan, Finished

\* The invariant holds in every reachable state.
LEMMA Invariance == Spec => []Inv
  BY InitInv, StepInv, PTL DEF Spec

---------------------------------------------------------------------------
(* What follows from the invariant. *)

\* The state always has its type, for every bound and every set of names.
THEOREM TypeCorrect == Spec => []TypeOK
  BY Invariance, PTL DEF Inv

\* No B2 name receives the bytes of two local files, at any moment of any run.
THEOREM NoSharedName == Spec => []OneWriterPerName
  <1>1. Inv => OneWriterPerName
    BY DEF Inv, TypeOK, CursorInv, ResultInv, UniqueNames, OneWriterPerName, Index
  <1> QED
    BY <1>1, Invariance, PTL

\* The command never ends while one of its uploads is under way.
THEOREM Quiescence == Spec => []NothingLeftRunning
  <1>1. Inv => NothingLeftRunning
    BY DEF Inv, TypeOK, WorkerInv, LiveStates, NothingLeftRunning, InFlight,
           Index, None
  <1> QED
    BY <1>1, Invariance, PTL

\* A command that returns has stored every file under its own name and reports
\* each at its own position.
THEOREM CompleteSuccess == Spec => []SuccessIsComplete
  <1>1. Inv => SuccessIsComplete
    BY DEF Inv, TypeOK, CursorInv, WorkerInv, LiveStates, ResultInv, PoolInv,
           SuccessIsComplete, Index, FileStates, None
  <1> QED
    BY <1>1, Invariance, PTL

\* After the first failure, or a cancellation, no upload starts.
THEOREM StopIsFinal == Spec => NoStartAfterStop
  <1>1. Inv /\ [Next]_vars =>
          (failed \/ aborted =>
             \A i \in Index : fstate'[i] = "sending" => fstate[i] = "sending") \/ UNCHANGED vars
    BY DEF Inv, TypeOK, PoolInv, vars, Next, Plan, NothingMatched, PlanRejected, StartUploads,
           Store, UploadSucceeds, WorkerReturns, WorkerClaims, UploadFails, AwaitAll, Abort,
           Finished, FileStates
  <1> QED
    BY <1>1, Invariance, PTL DEF Spec, NoStartAfterStop

---------------------------------------------------------------------------
(* Counting: the live files are no more than the workers, since each has its own. *)

\* A set whose members are each held at one of `count` places has at most `count` members.
LEMMA HolderCount ==
  ASSUME NEW A, NEW count \in Nat, NEW holds,
         \A i \in A : \E w \in 0 .. count - 1 : holds[w] = i
  PROVE  IsFiniteSet(A) /\ Cardinality(A) \in Nat /\ Cardinality(A) <= count
  <1> DEFINE W == 0 .. count - 1
             holder == [i \in A |-> CHOOSE w \in W : holds[w] = i]
  <1>1. IsFiniteSet(W) /\ Cardinality(W) = count
    BY FS_Interval
  <1>2. \A i \in A : holder[i] \in W /\ holds[holder[i]] = i
    OBVIOUS
  <1>3. holder \in Injection(A, W)
    BY <1>2 DEF Injection, IsInjective
  <1> HIDE DEF holder, W
  <1>4. IsFiniteSet(A) /\ Cardinality(A) <= Cardinality(W)
    BY <1>1, <1>3, FS_Injection
  <1> QED
    BY <1>1, <1>4, FS_CardinalityType

\* While the pool runs there are no more live files than workers.
LEMMA LiveFilesBounded ==
  ASSUME Inv, phase = "uploading"
  PROVE  /\ IsFiniteSet(Active) /\ Cardinality(Active) \in Nat
         /\ Cardinality(Active) <= WorkerCount
  <1>1. WorkerCount \in Nat
    BY WorkerCountBounds DEF Inv, TypeOK
  <1>2. \A i \in Active : \E w \in 0 .. WorkerCount - 1 : slot[w] = i
    BY <1>1 DEF Inv, TypeOK, WorkerInv, LiveStates, Active, Index, Workers, None
  <1> QED
    BY <1>1, <1>2, HolderCount

\* Files in flight times parts per file stay within the `concurrency` input.
THEOREM Budget == Spec => []BudgetBounded
  <1>1. Inv => BudgetBounded
    <2> SUFFICES ASSUME Inv, phase = "uploading"
                 PROVE  Cardinality(InFlight) * PartConcurrency <= concurrency
      BY DEF BudgetBounded
    <2>1. /\ IsFiniteSet(Active) /\ Cardinality(Active) \in Nat
          /\ Cardinality(Active) <= WorkerCount
      BY LiveFilesBounded
    <2>2. Cardinality(InFlight) \in Nat /\ Cardinality(InFlight) <= WorkerCount
      <3>1. InFlight \in SUBSET Active
        BY DEF InFlight, Active
      <3>2. IsFiniteSet(InFlight) /\ Cardinality(InFlight) <= Cardinality(Active)
        BY <2>1, <3>1, FS_Subset
      <3> QED
        BY <2>1, <3>2, FS_CardinalityType, WorkerCountBounds DEF Inv, TypeOK
    <2>3. CASE single \/ n = 1
      BY <2>2, <2>3, WorkerCountBounds
      DEF PartConcurrency, Inv, TypeOK, InputsInv
    <2>4. CASE ~(single \/ n = 1)
      BY <2>2, <2>4, WorkerCountBounds DEF PartConcurrency, Inv, TypeOK
    <2> QED
      BY <2>3, <2>4
  <1> QED
    BY <1>1, Invariance, PTL

---------------------------------------------------------------------------
(* Refinement: every step of the command is a step of UploadPromise, or none. *)

\* The command begins where the promise does.
LEMMA PromiseInit == Init => Promise!Init
  BY DEF Init, Promise!Init, Begun, Active, InFlight, Done, None, Index

\* The live files after a step fit the concurrency as they did before it.
LEMMA LiveFilesBoundedNext ==
  ASSUME Inv', phase' = "uploading", UNCHANGED inputs
  PROVE  Cardinality(Active') <= concurrency
  <1>1. /\ WorkerCount \in Nat /\ WorkerCount <= concurrency /\ concurrency \in Nat
        /\ WorkerCount' = WorkerCount
    BY DEF WorkerCount, FileConcurrency, inputs, Inv, TypeOK, InputsInv
  <1>2. \A i \in Active' : \E w \in 0 .. WorkerCount - 1 : slot'[w] = i
    <2> SUFFICES ASSUME NEW i \in Active'
                 PROVE  \E w \in 0 .. WorkerCount - 1 : slot'[w] = i
      OBVIOUS
    <2>1. i \in Index /\ i # None /\ fstate'[i] \in LiveStates
      BY DEF Active, LiveStates, Index, None
    <2>2. PICK w \in Workers : slot'[w] = i
      BY <2>1 DEF Inv, WorkerInv
    <2>3. w < WorkerCount
      BY <1>1, <2>1, <2>2 DEF Inv, WorkerInv
    <2> QED
      BY <1>1, <2>2, <2>3 DEF Workers
  <1>3. Cardinality(Active') \in Nat /\ Cardinality(Active') <= WorkerCount
    BY <1>1, <1>2, HolderCount
  <1> QED
    BY <1>1, <1>3

\* UploadPromise counts with its own instance of FiniteSets.
LEMMA SameCardinality == \A S : Promise!Cardinality(S) = Cardinality(S)
  BY DEF Promise!Cardinality, Cardinality

\* Starting the pool is the promise's Begin.
LEMMA PromiseStart ==
  ASSUME Inv, Inv', StartUploads
  PROVE  Promise!Next
  <1> DEFINE S == 0 .. WorkerCount - 1
  <1>1. WorkerCount \in Nat /\ WorkerCount <= n /\ WorkerCount <= MaxFiles
    BY WorkerCountBounds DEF Inv, TypeOK
  <1>2. Begun = {} /\ Active = {}
    BY DEF StartUploads, Inv, CursorInv, Begun, Active, Index, TypeOK
  <1>3. Begun' = S /\ Active' = S /\ InFlight' = S /\ Done' = Done
    BY <1>1 DEF StartUploads, Begun, Active, InFlight, Done, Index
  <1>4. Cardinality(S) <= concurrency
    BY <1>3, LiveFilesBoundedNext DEF StartUploads
  <1>5. S \in SUBSET Promise!Files
    BY <1>1 DEF Promise!Files, Inv, TypeOK
  <1>6. Promise!Begin(S)
    BY <1>2, <1>3, <1>4, <1>5, SameCardinality DEF Promise!Begin, StartUploads, inputs
  <1> QED
    BY <1>5, <1>6 DEF Promise!Next

\* A finished upload is the promise's Acknowledge, with the file the worker claims next.
LEMMA PromiseSuccess ==
  ASSUME Inv, Inv', NEW w \in Workers, UploadSucceeds(w)
  PROVE  Promise!Next
  <1> DEFINE i == slot[w]
             S == IF failed \/ next >= n THEN {} ELSE {next}
  <1>1. /\ phase = "uploading" /\ phase' = "uploading"
        /\ i \in Index /\ i \in Active /\ i \in InFlight /\ i # None
    BY DEF UploadSucceeds, Inv, TypeOK, WorkerInv, Active, InFlight
  <1>2. S \in SUBSET Promise!Files /\ S \subseteq Promise!Files \ Begun
    BY DEF Promise!Files, Inv, TypeOK, CursorInv, Begun, Index
  <1>3. Done' = Done \cup {i}
    BY <1>1 DEF UploadSucceeds, Done, Inv, TypeOK, Index, None
  <1>4. /\ Begun' = Begun \cup S /\ Active' = (Active \ {i}) \cup S
        /\ InFlight' = (InFlight \ {i}) \cup (IF aborted THEN {} ELSE S)
    <2>1. CASE WorkerReturns(w)
      <3>1. S = {}
        BY <2>1 DEF WorkerReturns
      <3>2. \A j \in Index : fstate'[j] = IF j = i THEN "settled" ELSE fstate[j]
        BY <1>1, <2>1 DEF WorkerReturns, Inv, TypeOK
      <3> QED
        BY <1>1, <3>1, <3>2 DEF Begun, Active, InFlight
    <2>2. CASE WorkerClaims(w)
      <3>1. next \in Index /\ fstate[next] = "unclaimed"
        BY <2>2 DEF WorkerClaims, Inv, TypeOK, CursorInv, Index
      <3>2. S = {next}
        BY <2>2 DEF WorkerClaims, Inv, TypeOK
      <3>3. \A j \in Index : fstate'[j] =
              IF j = next THEN (IF aborted THEN "refused" ELSE "sending")
              ELSE IF j = i THEN "settled" ELSE fstate[j]
        BY <1>1, <2>2, <3>1 DEF WorkerClaims, Inv, TypeOK
      <3> QED
        BY <1>1, <3>1, <3>2, <3>3 DEF Begun, Active, InFlight
    <2> QED
      BY <2>1, <2>2 DEF UploadSucceeds
  <1>5. Cardinality(Active') <= concurrency
    BY <1>1, LiveFilesBoundedNext DEF UploadSucceeds
  <1>6. S # {} => firstError = None
    BY DEF Inv, PoolInv
  <1>7. Promise!Acknowledge(i, S)
    BY <1>1, <1>2, <1>3, <1>4, <1>5, <1>6, SameCardinality
    DEF Promise!Acknowledge, UploadSucceeds, inputs
  <1> QED
    BY <1>1, <1>2, <1>7 DEF Promise!Next

\* A failed upload is the promise's Fail.
LEMMA PromiseFailure ==
  ASSUME Inv, Inv', NEW w \in Workers, UploadFails(w)
  PROVE  Promise!Next
  <1> DEFINE i == slot[w]
  <1>1. /\ phase = "uploading" /\ phase' = "uploading"
        /\ i \in Index /\ i \in Active
    BY DEF UploadFails, Inv, TypeOK, WorkerInv, LiveStates, Active
  <1>2. /\ Active' = Active \ {i} /\ InFlight' = InFlight \ {i}
        /\ Begun' = Begun /\ Done' = Done
    BY <1>1 DEF UploadFails, Active, InFlight, Begun, Done, Inv, TypeOK
  <1>3. firstError' = IF firstError = None THEN i ELSE firstError
    BY DEF UploadFails, Inv, PoolInv
  <1>4. Promise!Fail(i)
    BY <1>1, <1>2, <1>3 DEF Promise!Fail, UploadFails, inputs
  <1> QED
    BY <1>1, <1>4 DEF Promise!Next

\* Refusing the plan, and the end of the pool, are the promise's Refuse and Conclude.
LEMMA PromiseEnd ==
  ASSUME Inv, NothingMatched \/ PlanRejected \/ AwaitAll
  PROVE  Promise!Next
  <1>0. /\ UNCHANGED <<inputs, firstError, fstate, results>>
        /\ aborted' = aborted /\ InFlight' = InFlight
        /\ Begun' = Begun /\ Active' = Active /\ Done' = Done
    BY DEF NothingMatched, PlanRejected, AwaitAll, Begun, Active, InFlight, Done
  <1>1. phase = "planning" => Begun = {} /\ Active = {} /\ Done = {} /\ firstError = None
    BY DEF Inv, TypeOK, CursorInv, ResultInv, PoolInv, Begun, Active, Done, Index
  <1>2. CASE PlanRejected \/ (NothingMatched /\ failOnEmpty)
    <2>1. Promise!Refuse
      BY <1>0, <1>1, <1>2 DEF Promise!Refuse, PlanRejected, NothingMatched, inputs
    <2> QED
      BY <2>1 DEF Promise!Next
  <1>3. CASE NothingMatched /\ ~failOnEmpty
    <2>1. Promise!Files = {}
      BY <1>3 DEF NothingMatched, Promise!Files
    <2>2. Promise!Conclude
      BY <1>0, <1>1, <1>3, <2>1 DEF Promise!Conclude, NothingMatched, inputs
    <2> QED
      BY <2>2 DEF Promise!Next
  <1>4. CASE AwaitAll
    <2>1. Active = {}
      BY <1>4 DEF AwaitAll, Inv, TypeOK, WorkerInv, LiveStates, Active, Index, None
    <2>2. ~failed => Done = Promise!Files
      <3> SUFFICES ASSUME ~failed PROVE Done = Promise!Files
        OBVIOUS
      <3>1. \E w \in Workers : w < WorkerCount /\ slot[w] = None
        BY <1>4, WorkerCountBounds DEF AwaitAll, Inv, PoolInv, Workers, TypeOK
      <3>2. next >= n
        BY <1>4, <3>1 DEF AwaitAll, Inv, PoolInv
      <3>3. \A i \in Index : i < n => results[i] = i
        BY <2>1, <3>2 DEF Inv, TypeOK, CursorInv, ResultInv, Active, FileStates, Index
      <3>4. \A i \in Index : results[i] # None => i < n
        BY DEF Inv, CursorInv, ResultInv
      <3> QED
        BY <3>3, <3>4 DEF Done, Promise!Files, Index, None, Inv, TypeOK
    <2>3. Promise!Conclude
      BY <1>0, <1>4, <2>1, <2>2 DEF Promise!Conclude, AwaitAll, inputs, Inv, PoolInv
    <2> QED
      BY <2>3 DEF Promise!Next
  <1> QED
    BY <1>2, <1>3, <1>4 DEF NothingMatched

\* Every step of the command is a step of the promise or leaves its variables alone.
LEMMA PromiseStep == Inv /\ Inv' /\ [Next]_vars => [Promise!Next]_(Promise!vars)
  <1> SUFFICES ASSUME Inv, Inv', [Next]_vars PROVE Promise!Next \/ UNCHANGED Promise!vars
    OBVIOUS
  <1>1. CASE StartUploads
    BY <1>1, PromiseStart
  <1>2. CASE \E w \in Workers : UploadSucceeds(w) \/ UploadFails(w)
    BY <1>2, PromiseSuccess, PromiseFailure
  <1>3. CASE NothingMatched \/ PlanRejected \/ AwaitAll
    BY <1>3, PromiseEnd
  <1>4. CASE Abort
    <2>1. /\ UNCHANGED <<inputs, firstError, phase>>
          /\ Begun' = Begun /\ Active' = Active /\ InFlight' = InFlight /\ Done' = Done
      BY <1>4 DEF Abort, Begun, Active, InFlight, Done
    <2>2. Promise!Stop
      BY <1>4, <2>1 DEF Promise!Stop, Abort, inputs
    <2> QED
      BY <2>2 DEF Promise!Next
  <1>5. CASE (\E i \in Index : Store(i)) \/ UNCHANGED vars
    <2>1. /\ UNCHANGED <<inputs, firstError, results, aborted>>
          /\ phase' = phase
      BY <1>5 DEF Store, vars
    <2>2. Begun' = Begun /\ Active' = Active /\ InFlight' = InFlight /\ Done' = Done
      BY <1>5 DEF Store, vars, Begun, Active, InFlight, Done, Inv, TypeOK
    <2> QED
      BY <2>1, <2>2 DEF Promise!vars, inputs
  <1> QED
    BY <1>1, <1>2, <1>3, <1>4, <1>5 DEF Next, Plan, Finished

\* The command implements UploadPromise.
THEOREM Refinement == Spec => ImplementsPromise
  <1>1. Spec => []Inv
    BY Invariance
  <1> QED
    BY <1>1, PromiseInit, PromiseStep, PTL DEF Spec, ImplementsPromise, Promise!Spec

---------------------------------------------------------------------------
(* The work ahead of an upload. *)

\* Phases the command has to go through, and stations ahead of each file.
Phases == [planning |-> 2, uploading |-> 1, returned |-> 0, thrown |-> 0]
Ahead  == [unclaimed |-> 3, sending |-> 2, refused |-> 1, kept |-> 1, settled |-> 0]
AtLeast(k) == {i \in Index : Ahead[fstate[i]] >= k}
Stations == Cardinality(AtLeast(1)) + Cardinality(AtLeast(2)) + Cardinality(AtLeast(3))
Work == Phases[phase] + Stations

\* What becomes of the uploads of the pool.
Uploading ==
  \/ \E i \in Index : Store(i)
  \/ \E w \in Workers : UploadSucceeds(w) \/ UploadFails(w)

WorkBounded  == Work \in 0 .. 3 * MaxFiles + 2
WorkConsumed == [][Work' <= Work /\ (Plan \/ Uploading \/ AwaitAll => Work' < Work)]_vars

\* Part of a set of files is no more than the set, and less if it is not all of it.
LEMMA FewerFiles ==
  ASSUME NEW S \in SUBSET Index, NEW T \in SUBSET S
  PROVE  /\ Cardinality(S) \in 0 .. MaxFiles /\ Cardinality(T) \in 0 .. MaxFiles
         /\ Cardinality(T) <= Cardinality(S)
         /\ T # S => Cardinality(T) < Cardinality(S)
  <1>1. IsFiniteSet(Index) /\ Cardinality(Index) = MaxFiles
    <2>1. MaxFiles - 1 \in Int /\ (IF 0 <= MaxFiles - 1 THEN (MaxFiles - 1) - 0 + 1 ELSE 0) = MaxFiles
      OBVIOUS
    <2> QED
      BY <2>1, FS_Interval DEF Index
  <1>2. /\ IsFiniteSet(S) /\ Cardinality(S) <= Cardinality(Index)
        /\ Cardinality(S) \in Nat
    BY <1>1, FS_Subset, FS_CardinalityType
  <1>3. /\ Cardinality(T) <= Cardinality(S) /\ Cardinality(T) \in Nat
        /\ Cardinality(T) = Cardinality(S) => T = S
    BY <1>2, FS_Subset, FS_CardinalityType
  <1> QED
    BY <1>1, <1>2, <1>3

\* The work is a number, at most that of an upload that begins.
LEMMA WorkIsNumber ==
  ASSUME TypeOK
  PROVE  Stations \in Nat /\ Work \in 0 .. 3 * MaxFiles + 2
  <1>1. Phases[phase] \in 0 .. 2
    BY DEF TypeOK, Phases
  <1>2. \A k \in 1 .. 3 : Cardinality(AtLeast(k)) \in 0 .. MaxFiles
    <2> TAKE k \in 1 .. 3
    <2>1. AtLeast(k) \in SUBSET Index
      BY DEF AtLeast
    <2> QED
      BY <2>1, FewerFiles
  <1>3. Stations \in 0 .. 3 * MaxFiles
    BY <1>2 DEF Stations
  <1> QED
    BY <1>1, <1>3 DEF Work

\* Where no file goes back and one moves on, there are fewer stations.
LEMMA MovingOn ==
  ASSUME TypeOK, TypeOK',
         \A i \in Index : Ahead[fstate'[i]] <= Ahead[fstate[i]],
         NEW j \in Index, Ahead[fstate'[j]] < Ahead[fstate[j]]
  PROVE  Stations \in Nat /\ Stations' \in Nat /\ Stations' < Stations
  <1>1. \A i \in Index : Ahead[fstate[i]] \in 0 .. 3 /\ Ahead[fstate'[i]] \in 0 .. 3
    BY DEF TypeOK, Ahead, FileStates
  <1> DEFINE Later(k) == {i \in Index : Ahead[fstate'[i]] >= k}
  <1>2. \A k \in 1 .. 3 : Later(k) \subseteq AtLeast(k)
    BY <1>1 DEF AtLeast
  <1>3. \A k \in 1 .. 3 :
          /\ Cardinality(AtLeast(k)) \in 0 .. MaxFiles /\ Cardinality(Later(k)) \in 0 .. MaxFiles
          /\ Cardinality(Later(k)) <= Cardinality(AtLeast(k))
          /\ Later(k) # AtLeast(k) => Cardinality(Later(k)) < Cardinality(AtLeast(k))
    <2> TAKE k \in 1 .. 3
    <2>1. AtLeast(k) \in SUBSET Index /\ Later(k) \in SUBSET AtLeast(k)
      BY <1>2 DEF AtLeast
    <2> QED
      BY <2>1, FewerFiles
  <1>4. Stations' = Cardinality(Later(1)) + Cardinality(Later(2)) + Cardinality(Later(3))
    BY DEF Stations, AtLeast
  <1>5. \E k \in 1 .. 3 : Later(k) # AtLeast(k)
    <2>1. Ahead[fstate[j]] \in 1 .. 3 /\ j \in AtLeast(Ahead[fstate[j]])
      BY <1>1 DEF AtLeast
    <2>2. j \notin Later(Ahead[fstate[j]])
      BY <1>1
    <2> QED
      BY <2>1, <2>2
  <1> HIDE DEF Later
  <1>6. Later(1) # AtLeast(1) \/ Later(2) # AtLeast(2) \/ Later(3) # AtLeast(3)
          => Stations' < Stations
    BY <1>3, <1>4 DEF Stations
  <1>7. Stations \in Nat /\ Stations' \in Nat
    BY <1>3, <1>4 DEF Stations
  <1> QED
    BY <1>5, <1>6, <1>7

\* An upload that is stored, succeeds or fails moves its file on, and with it the file its
\* worker takes next.
LEMMA UploadMovesOn ==
  ASSUME Inv, Uploading
  PROVE  /\ \A i \in Index : Ahead[fstate'[i]] <= Ahead[fstate[i]]
         /\ \E i \in Index : Ahead[fstate'[i]] < Ahead[fstate[i]]
  <1>1. TypeOK
    BY DEF Inv
  <1>2. ASSUME NEW i \in Index, Store(i)
        PROVE  /\ fstate'[i] = "kept" /\ fstate[i] = "sending"
               /\ \A j \in Index : j # i => fstate'[j] = fstate[j]
    BY <1>1, <1>2 DEF Store, TypeOK
  <1>3. ASSUME NEW w \in Workers, UploadSucceeds(w) \/ UploadFails(w)
        PROVE  /\ slot[w] \in Index /\ fstate[slot[w]] \in LiveStates
               /\ fstate'[slot[w]] = "settled"
               /\ \A j \in Index : \/ fstate'[j] = fstate[j]
                                   \/ j = slot[w]
                                   \/ fstate[j] = "unclaimed" /\ fstate'[j] \in {"refused", "sending"}
    <2>1. slot[w] \in Index /\ fstate[slot[w]] \in LiveStates
      BY <1>1, <1>3 DEF UploadSucceeds, UploadFails, TypeOK, Inv, WorkerInv
    <2>2. CASE UploadFails(w)
      BY <1>1, <2>1, <2>2 DEF UploadFails, TypeOK
    <2>3. CASE UploadSucceeds(w) /\ WorkerReturns(w)
      BY <1>1, <2>1, <2>3 DEF WorkerReturns, TypeOK
    <2>4. CASE UploadSucceeds(w) /\ WorkerClaims(w)
      <3>1. next \in Index /\ fstate[next] = "unclaimed" /\ next # slot[w]
        BY <1>1, <2>1, <2>4 DEF WorkerClaims, TypeOK, Inv, CursorInv, Index, LiveStates
      <3>2. \A j \in Index : fstate'[j] =
              IF j = next THEN (IF aborted THEN "refused" ELSE "sending")
              ELSE IF j = slot[w] THEN "settled" ELSE fstate[j]
        BY <1>1, <2>1, <2>4, <3>1 DEF WorkerClaims, TypeOK
      <3> QED
        BY <2>1, <3>1, <3>2
    <2> QED
      BY <1>3, <2>2, <2>3, <2>4 DEF UploadSucceeds
  <1>4. \A i \in Index : Ahead[fstate[i]] \in Int
    BY <1>1 DEF TypeOK, Ahead, FileStates
  <1>5. /\ Ahead["unclaimed"] = 3 /\ Ahead["sending"] = 2 /\ Ahead["refused"] = 1
        /\ Ahead["kept"] = 1 /\ Ahead["settled"] = 0
    BY DEF Ahead
  <1>6. CASE \E i \in Index : Store(i)
    <2>1. PICK i \in Index : Store(i)
      BY <1>6
    <2> QED
      BY <1>2, <1>4, <1>5, <2>1
  <1>7. CASE \E w \in Workers : UploadSucceeds(w) \/ UploadFails(w)
    <2>1. PICK w \in Workers : UploadSucceeds(w) \/ UploadFails(w)
      BY <1>7
    <2>2. Ahead[fstate'[slot[w]]] < Ahead[fstate[slot[w]]]
      BY <1>3, <1>5, <2>1 DEF LiveStates
    <2>3. ASSUME NEW j \in Index PROVE Ahead[fstate'[j]] <= Ahead[fstate[j]]
      <3>1. CASE j = slot[w]
        BY <2>2, <1>3, <1>4, <1>5, <2>1, <3>1
      <3>2. CASE j # slot[w]
        BY <1>3, <1>4, <1>5, <2>1, <3>2
      <3> QED
        BY <3>1, <3>2
    <2> QED
      BY <1>3, <2>1, <2>2, <2>3
  <1> QED
    BY <1>6, <1>7 DEF Uploading

\* Every step of the command takes from the work; a signal adds nothing to it.
LEMMA StepWork ==
  ASSUME Inv, Inv', [Next]_vars
  PROVE  Work' <= Work /\ (Plan \/ Uploading \/ AwaitAll => Work' < Work)
  <1> DEFINE Less == Work \in Nat /\ Work' \in Nat /\ Work' < Work
  <1>1. TypeOK /\ TypeOK'
    BY DEF Inv
  <1>2. Phases[phase] \in 0 .. 2 /\ Phases[phase'] \in 0 .. 2 /\ Stations \in Nat
    BY <1>1, WorkIsNumber DEF TypeOK, Phases
  <1>3. Work = Phases[phase] + Stations /\ Work' = Phases[phase'] + Stations'
    BY DEF Work, Phases
  <1>4. ASSUME Uploading PROVE Less
    <2>1. phase' = phase
      BY <1>4 DEF Uploading, Store, UploadSucceeds, UploadFails
    <2>2. Stations \in Nat /\ Stations' \in Nat /\ Stations' < Stations
      BY <1>1, <1>4, UploadMovesOn, MovingOn
    <2> QED
      BY <1>2, <1>3, <2>1, <2>2
  <1>5. ASSUME fstate' = fstate PROVE Stations' = Stations
    BY <1>5 DEF Stations, AtLeast, Ahead
  <1>6. ASSUME NothingMatched \/ PlanRejected \/ AwaitAll PROVE Less
    <2>1. fstate' = fstate /\ Phases[phase'] < Phases[phase]
      BY <1>6 DEF NothingMatched, PlanRejected, AwaitAll, Phases
    <2> QED
      BY <1>2, <1>3, <1>5, <2>1
  <1>7. ASSUME StartUploads PROVE Less
    <2>1. Phases[phase'] < Phases[phase]
      BY <1>7 DEF StartUploads, Phases
    <2>2. /\ 0 < WorkerCount /\ WorkerCount <= n /\ n <= MaxFiles
      BY <1>1, <1>7 DEF StartUploads, WorkerCount, FileConcurrency, TypeOK
    <2>3. \A i \in Index : fstate[i] = "unclaimed" /\ fstate'[i] \in {"sending", "unclaimed"}
      BY <1>7 DEF StartUploads, Inv, CursorInv, Index
    <2>4. 0 \in Index /\ fstate'[0] = "sending"
      BY <1>1, <1>7, <2>2 DEF StartUploads, Index, TypeOK
    <2>5. /\ \A i \in Index : Ahead[fstate'[i]] <= Ahead[fstate[i]]
          /\ Ahead[fstate'[0]] < Ahead[fstate[0]]
      BY <2>3, <2>4 DEF Ahead
    <2>6. Stations \in Nat /\ Stations' \in Nat /\ Stations' < Stations
      BY <1>1, <2>4, <2>5, MovingOn
    <2> QED
      BY <1>2, <1>3, <2>1, <2>6
  <1>8. Plan \/ Uploading \/ AwaitAll => Less
    BY <1>4, <1>6, <1>7 DEF Plan
  <1>9. CASE Abort \/ UNCHANGED vars
    <2>1. fstate' = fstate /\ phase' = phase
      BY <1>9 DEF Abort, vars
    <2> QED
      BY <1>2, <1>3, <1>5, <1>8, <2>1
  <1> QED
    BY <1>8, <1>9 DEF Next, Uploading, Finished

\* No upload takes more than 3 * MaxFiles + 2 steps, whichever file B2 keeps, refuses or
\* never answers for: each takes from the work there is at first.
THEOREM FiniteWork == Spec => []WorkBounded /\ WorkConsumed
  <1> DEFINE Consumed == Work' <= Work /\ (Plan \/ Uploading \/ AwaitAll => Work' < Work)
  <1>1. Inv => WorkBounded
    BY WorkIsNumber DEF Inv, WorkBounded
  <1>2. Inv /\ Inv' /\ [Next]_vars => Consumed
    BY StepWork
  <1> HIDE DEF Consumed
  <1>3. Spec => []WorkBounded
    BY <1>1, Invariance, PTL
  <1>4. Spec => [][Consumed]_vars
    BY <1>2, Invariance, PTL DEF Spec
  <1> QED
    BY <1>3, <1>4 DEF Consumed, WorkConsumed
=============================================================================

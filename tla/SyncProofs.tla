----------------------------- MODULE SyncProofs -----------------------------
(***************************************************************************)
(* Proofs about Sync.tla, for any number of paths, any concurrency, any    *)
(* scan and any behaviour of the other clients: the inductive invariant    *)
(* and the safety properties that follow from it.                          *)
(***************************************************************************)
EXTENDS Sync, FiniteSetTheorems, WellFoundedInduction, TLAPS

USE SyncAssumption

\* Before the engine acts nothing has happened; afterwards only a finished run has an
\* outcome, outputs are those of a finished run, and no action outlives the acting phase.
PhaseInv ==
  /\ pc \in {"start", "scanning"} =>
       /\ todo = {} /\ touched = {} /\ counted = {} /\ ~aggregate
       /\ \A p \in Path : kind[p] = "absent" /\ fate[p] = "pending" /\ dst[p] = "nothing"
  /\ outcome = "running" <=> pc # "done"
  /\ published => pc = "done"
  /\ outcome = "success" => published
  /\ pc # "acting" => Running = {}

\* A path is taken up once, an action settles as what it was, and only an action that ran
\* changes the destination.
FateInv ==
  \A p \in Path :
    /\ fate[p] # "pending" <=> kind[p] # "absent" /\ p \notin todo
    /\ p \in todo => kind[p] # "absent"
    /\ fate[p] \in {"running", "checked", "applied", "done"} => Action(p) # "skip"
    /\ fate[p] \in {"running", "checked", "applied"} => ~dryRun
    /\ fate[p] = "skipped" => Action(p) = "skip"
    /\ fate[p] \in {"applied", "done"} => dryRun \/ p \in touched
    /\ p \in touched => /\ ~dryRun /\ Action(p) # "skip"
                        /\ fate[p] \in {"applied", "done", "failed"}

\* An engine that ends has reported every settled action, and left pairs out only when it
\* was cancelled; after a scan error there were none.  The closing error event is never the
\* only one.
ReportInv ==
  /\ counted \subseteq Settled
  /\ pc = "publish" \/ published => counted = Settled /\ (todo = {} \/ aborted)
  /\ scanErrors # 0 => pc # "acting" /\ \A p \in Path : fate[p] = "pending"
  /\ outcome = "success" => Failed = {}
  /\ aggregate => pc \in {"publish", "done"} /\ (Failed # {} \/ scanErrors # 0)

Inv == TypeOK /\ PhaseInv /\ FateInv /\ ReportInv

---------------------------------------------------------------------------
(* Helpers. *)

\* A non-empty set of paths has a first one, which First names.
LEMMA FirstIsMember ==
  ASSUME NEW S \in SUBSET Path, S # {}
  PROVE  First(S) \in S /\ \A q \in S : First(S) <= q
  <1> DEFINE R == OpToRel(<, Nat)
  <1>1. IsWellFoundedOn(R, Nat)
    BY NatLessThanWellFounded
  <1>2. S \subseteq Nat
    BY DEF Path
  <1>3. PICK x \in S : \A y \in S : ~ (<<y, x>> \in R)
    BY <1>1, <1>2, WFMin
  <1>4. \A y \in S : ~ (y < x)
    BY <1>2, <1>3 DEF OpToRel
  <1>5. \A y \in S : x <= y
    BY <1>2, <1>4
  <1> QED
    BY <1>5 DEF First

\* A set of paths is finite, and is empty when it has no member to count.
LEMMA CountPaths ==
  ASSUME NEW S \in SUBSET Path
  PROVE  /\ IsFiniteSet(S) /\ Cardinality(S) \in Nat
         /\ Cardinality(S) = 0 => S = {}
  <1>1. IsFiniteSet(Path)
    BY FS_Interval DEF Path
  <1>2. IsFiniteSet(S)
    BY <1>1, FS_Subset
  <1> QED
    BY <1>2, FS_CardinalityType, FS_EmptySet

---------------------------------------------------------------------------
(* The invariant holds at first and is kept by every step. *)

\* Every state the command can begin in satisfies the invariant.
LEMMA InitInv == Init => Inv
  <1> SUFFICES ASSUME Init PROVE Inv
    OBVIOUS
  <1> USE DEF Init
  <1>1. TypeOK
    <2>1. kind \in [Path -> Kinds] /\ fate \in [Path -> Fates] /\ dst \in [Path -> Sights]
      BY DEF Kinds, Fates, Sights
    <2>2. scanErrors \in 0 .. MaxScanErrors
      OBVIOUS
    <2> QED
      BY <2>1, <2>2, Zenon DEF TypeOK
  <1>2. PhaseInv
    BY DEF PhaseInv, Running
  <1>3. FateInv
    BY DEF FateInv
  <1>4. ReportInv
    BY DEF ReportInv, Settled, Failed
  <1> QED
    BY <1>1, <1>2, <1>3, <1>4 DEF Inv

\* No step changes an input.
LEMMA InputsFixed == [Next]_vars => UNCHANGED inputs
  BY DEF Next, Step, Start, Scan, ScanError, ScanGivesUp, ScanThrows, ScanCancelled, TakePair, Finish,
         Publish, Check, Apply, ActionSucceeds, ActionFails, Abort, OtherWrites, Finished, vars

\* What the engine decides for a path rests on the inputs and the scan alone.
LEMMA ActionFixed ==
  ASSUME UNCHANGED <<inputs, kind, inventory>>
  PROVE  \A p : Action(p)' = Action(p)
  BY DEF inputs, Action

\* The steps before the engine acts.
LEMMA EarlyInv ==
  ASSUME Inv, Start \/ Scan \/ ScanError \/ ScanGivesUp \/ ScanThrows \/ ScanCancelled
  PROVE  Inv'
  <1> USE DEF Inv, Start, Scan, ScanError, ScanGivesUp, ScanThrows, ScanCancelled, Fail
  <1>1. TypeOK'
    <2>1. CASE Start
      BY <2>1 DEF TypeOK, inputs, scanned, Resolved
    <2>2. CASE Scan
      <3>1. kind' \in [Path -> Kinds] /\ todo' \in SUBSET Path /\ inventory' \in {"complete", "incomplete"}
        BY <2>2
      <3>2. dst' \in [Path -> Sights]
        BY <2>2 DEF Sights
      <3> QED
        BY <2>2, <3>1, <3>2 DEF TypeOK, inputs
    <2>3. CASE ScanError \/ ScanGivesUp
      <3>0. scanErrors \in 0 .. MaxScanErrors /\ aggregate \in BOOLEAN
        BY DEF TypeOK
      <3>1. scanErrors' \in 0 .. MaxScanErrors
        BY <2>3, <3>0 DEF scanned
      <3>4. aggregate' \in BOOLEAN
        BY <2>3, <3>0
      <3>2. pc' \in {"start", "scanning", "acting", "publish", "done"}
        BY <2>3 DEF TypeOK
      <3>3. UNCHANGED <<direction, inputs, kind, inventory, aborted, todo, fate, dst, touched,
                        counted, published, outcome>>
        BY <2>3 DEF scanned
      <3> QED
        BY <3>1, <3>2, <3>3, <3>4 DEF TypeOK, inputs
    <2>4. CASE ScanThrows \/ ScanCancelled
      BY <2>4 DEF TypeOK, inputs, scanned
    <2> QED
      BY <2>1, <2>2, <2>3, <2>4
  <1>2. /\ pc \in {"start", "scanning"} /\ touched' = {} /\ counted' = {} /\ fate' = fate
        /\ \A p \in Path : fate[p] = "pending"
    BY DEF PhaseInv
  <1>3. Running' = {} /\ Settled' = {} /\ Failed' = {}
    BY <1>2 DEF Running, Settled, Failed
  <1>4. PhaseInv'
    BY <1>2, <1>3 DEF PhaseInv, scanned
  <1>5. \A p \in Path : kind'[p] # "absent" <=> p \in todo'
    BY DEF PhaseInv, scanned
  <1>6. FateInv'
    BY <1>2, <1>5 DEF FateInv
  <1>7. aggregate' => pc' = "publish" /\ scanErrors' # 0
    <2>1. ~aggregate
      BY DEF PhaseInv
    <2>2. CASE ScanGivesUp
      BY <2>2 DEF TypeOK, scanned
    <2> QED
      BY <2>1, <2>2
  <1>8. ReportInv'
    BY <1>2, <1>3, <1>7 DEF ReportInv, PhaseInv
  <1> QED
    BY <1>1, <1>4, <1>6, <1>8

\* TakePair: the pair taken up is the only path whose fate changes.
LEMMA TakePairInv ==
  ASSUME Inv, TakePair
  PROVE  Inv'
  <1> DEFINE q == First(todo)
  <1> USE DEF Inv, TakePair
  <1>0. \A p : Action(p)' = Action(p)
    BY ActionFixed DEF scanned
  <1>1. q \in todo /\ q \in Path
    BY FirstIsMember DEF TypeOK
  <1> HIDE DEF q
  <1>2. /\ todo' = todo \ {q}
        /\ fate' = [fate EXCEPT ![q] = Started(q)]
    BY DEF q
  <1>3. /\ Started(q) \in {"skipped", "done", "running"}
        /\ Started(q) = "skipped" <=> Action(q) = "skip"
        /\ Started(q) = "running" => ~dryRun
        /\ Started(q) = "done" => dryRun
    BY DEF Started
  <1>4. fate[q] = "pending" /\ fate'[q] = Started(q)
    BY <1>1, <1>2 DEF FateInv, TypeOK
  <1>5. \A p \in Path : p # q => fate'[p] = fate[p]
    BY <1>2 DEF TypeOK
  <1>6. TypeOK'
    <2>1. Started(q) \in Fates
      BY <1>3 DEF Fates
    <2>2. fate' \in [Path -> Fates] /\ todo' \in SUBSET Path
      BY <1>2, <2>1 DEF TypeOK
    <2>3. counted' \in SUBSET Path
      BY DEF Settled
    <2> QED
      BY <2>2, <2>3 DEF TypeOK, inputs, scanned
  <1>7. PhaseInv'
    BY DEF PhaseInv, scanned
  <1>8. q \notin touched
    BY <1>1, <1>4 DEF FateInv
  <1>9. kind[q] # "absent"
    BY <1>1 DEF FateInv
  <1>10. FateInv'
    BY <1>0, <1>1, <1>2, <1>3, <1>4, <1>5, <1>8, <1>9 DEF FateInv, scanned, inputs
  <1>11. ReportInv'
    BY <1>4, <1>5 DEF ReportInv, Settled, PhaseInv, scanned
  <1> QED
    BY <1>6, <1>7, <1>10, <1>11

\* The steps of an action that was started: only that path's fate changes.
LEMMA ActionStepInv ==
  ASSUME Inv, NEW q \in Path, Check(q) \/ Apply(q) \/ ActionSucceeds(q) \/ ActionFails(q)
  PROVE  Inv'
  <1> USE DEF Inv, Check, Apply, ActionSucceeds, ActionFails
  <1>0. /\ \A p : Action(p)' = Action(p)
        /\ UNCHANGED <<direction, inputs, scanned, pc, aborted, todo, aggregate, counted,
                       published, outcome>>
    BY ActionFixed DEF scanned
  <1>1. /\ fate[q] \in {"running", "checked", "applied"}
        /\ fate'[q] \in {"checked", "applied", "done", "failed"}
        /\ fate'[q] = "applied" => q \in touched'
        /\ fate'[q] = "done" => fate[q] = "applied"
        /\ fate'[q] = "checked" => fate[q] = "running"
        /\ \A p \in Path : p # q => fate'[p] = fate[p]
        /\ \A p \in Path : p # q => (p \in touched' <=> p \in touched)
    BY DEF TypeOK
  <1>2. pc = "acting"
    BY <1>1 DEF PhaseInv, Running
  <1>3. TypeOK'
    <2>1. fate' \in [Path -> Fates] /\ touched' \in SUBSET Path
      BY DEF TypeOK, Fates
    <2>2. dst' \in [Path -> Sights]
      BY DEF TypeOK, Sights, After
    <2> QED
      BY <1>0, <2>1, <2>2 DEF TypeOK, inputs, scanned
  <1>4. PhaseInv'
    BY <1>0, <1>2 DEF PhaseInv
  <1>5. q \in touched' => fate'[q] = "applied" \/ q \in touched
    BY DEF TypeOK
  <1>6. touched \subseteq touched'
    OBVIOUS
  <1>7. FateInv'
    BY <1>0, <1>1, <1>5, <1>6 DEF FateInv, inputs, scanned
  <1>8. ReportInv'
    <2>1. Settled \subseteq Settled'
      BY <1>1 DEF Settled
    <2>2. scanErrors = 0 /\ outcome = "running" /\ ~published
      BY <1>2 DEF ReportInv, PhaseInv
    <2> QED
      BY <1>0, <1>2, <2>1, <2>2 DEF ReportInv, scanned
  <1> QED
    BY <1>3, <1>4, <1>7, <1>8

\* Finish: the last events are counted.
LEMMA FinishInv ==
  ASSUME Inv, Finish
  PROVE  Inv'
  <1> USE DEF Inv, Finish
  <1>0. /\ \A p : Action(p)' = Action(p)
        /\ Running' = Running /\ Settled' = Settled /\ Failed' = Failed
    BY ActionFixed DEF scanned, Running, Settled, Failed
  <1>1. TypeOK'
    <2>1. counted' \in SUBSET Path /\ aggregate' \in BOOLEAN
      BY DEF Settled
    <2> QED
      BY <2>1 DEF TypeOK, inputs, scanned
  <1>2. PhaseInv'
    BY <1>0 DEF PhaseInv, scanned
  <1>3. FateInv'
    BY <1>0 DEF FateInv, inputs, scanned
  <1>4. ReportInv'
    BY <1>0 DEF ReportInv, PhaseInv, scanned
  <1> QED
    BY <1>1, <1>2, <1>3, <1>4

\* Publish: a success means that no counted action failed, and all were counted.
LEMMA PublishInv ==
  ASSUME Inv, Publish
  PROVE  Inv'
  <1> USE DEF Inv, Publish
  <1>0. /\ \A p : Action(p)' = Action(p)
        /\ Running' = Running /\ Settled' = Settled /\ Failed' = Failed
    BY ActionFixed DEF scanned, Running, Settled, Failed
  <1>1. TypeOK'
    BY DEF TypeOK, inputs, scanned
  <1>2. PhaseInv'
    BY <1>0 DEF PhaseInv, scanned
  <1>3. FateInv'
    BY <1>0 DEF FateInv, inputs, scanned
  <1>4. outcome' = "success" => Failed = {}
    <2>1. counted \cap Failed = Failed
      BY DEF ReportInv, Settled, Failed
    <2>2. Cardinality(Failed) \in Nat /\ (Cardinality(Failed) = 0 => Failed = {})
      BY CountPaths DEF Failed
    <2>3. scanErrors \in Nat
      BY DEF TypeOK
    <2>4. errors \in Nat /\ errors >= Cardinality(Failed)
      <3> DEFINE closing == IF aggregate THEN 1 ELSE 0
      <3>1. closing \in Nat
        OBVIOUS
      <3>2. errors = Cardinality(Failed) + scanErrors + closing
        BY <2>1, Zenon DEF errors
      <3> HIDE DEF closing
      <3> QED
        BY <2>2, <2>3, <3>1, <3>2
    <2> QED
      BY <2>2, <2>4
  <1>5. ReportInv'
    BY <1>0, <1>4 DEF ReportInv, PhaseInv, scanned
  <1> QED
    BY <1>1, <1>2, <1>3, <1>5

\* Abort and the other writers.
LEMMA EnvironmentInv ==
  ASSUME Inv, Abort \/ \E p \in Volatile : OtherWrites(p)
  PROVE  Inv'
  <1> USE DEF Inv, Abort, OtherWrites
  <1>0. /\ \A p : Action(p)' = Action(p)
        /\ Running' = Running /\ Settled' = Settled /\ Failed' = Failed
    BY ActionFixed DEF scanned, Running, Settled, Failed
  <1>1. TypeOK'
    <2>1. dst' \in [Path -> Sights] /\ aborted' \in BOOLEAN
      BY DEF TypeOK, Sights
    <2> QED
      BY <2>1 DEF TypeOK, inputs, scanned
  <1>2. PhaseInv'
    BY <1>0 DEF PhaseInv, scanned
  <1>3. FateInv'
    BY <1>0 DEF FateInv, inputs, scanned
  <1>4. ReportInv'
    BY <1>0 DEF ReportInv, scanned
  <1> QED
    BY <1>1, <1>2, <1>3, <1>4

\* Every step keeps the invariant.
LEMMA StepInv == Inv /\ [Next]_vars => Inv'
  <1> SUFFICES ASSUME Inv, [Next]_vars PROVE Inv'
    OBVIOUS
  <1>1. CASE Start \/ Scan \/ ScanError \/ ScanGivesUp \/ ScanThrows \/ ScanCancelled
    BY <1>1, EarlyInv
  <1>2. CASE TakePair
    BY <1>2, TakePairInv
  <1>3. CASE Finish
    BY <1>3, FinishInv
  <1>4. CASE Publish
    BY <1>4, PublishInv
  <1>5. CASE \E p \in Path : Check(p) \/ Apply(p) \/ ActionSucceeds(p) \/ ActionFails(p)
    BY <1>5, ActionStepInv
  <1>6. CASE Abort \/ \E p \in Volatile : OtherWrites(p)
    BY <1>6, EnvironmentInv
  <1>7. CASE UNCHANGED vars
    <2>1. /\ \A p : Action(p)' = Action(p)
          /\ Running' = Running /\ Settled' = Settled /\ Failed' = Failed
      BY <1>7, ActionFixed DEF vars, scanned, Running, Settled, Failed
    <2> QED
      BY <1>7, <2>1 DEF vars, inputs, scanned, Inv, TypeOK, PhaseInv, FateInv, ReportInv
  <1> QED
    BY <1>1, <1>2, <1>3, <1>4, <1>5, <1>6, <1>7 DEF Next, Step, Finished

\* The invariant holds in every reachable state.
LEMMA Invariance == Spec => []Inv
  BY InitInv, StepInv, PTL DEF Spec

---------------------------------------------------------------------------
(* What follows from the invariant. *)

\* The state always has its type.
THEOREM TypeCorrect == Spec => []TypeOK
  BY Invariance, PTL DEF Inv

\* Nothing changes that the inputs and a complete scan do not ask to change.
THEOREM OnlyWhatWasAsked == Spec => []ChangesOnlyWhatWasAsked
  <1>1. Inv => ChangesOnlyWhatWasAsked
    <2> SUFFICES ASSUME Inv, NEW p \in touched
                 PROVE  /\ ~dryRun /\ scanErrors = 0
                        /\ Action(p) # "skip"
      BY DEF ChangesOnlyWhatWasAsked, Action
    <2> QED
      BY DEF Inv, TypeOK, FateInv, ReportInv
  <1> QED
    BY <1>1, Invariance, PTL

\* The published counters tell of everything the run changed, and of nothing else.
THEOREM TrueCounters == Spec => []CountersAreTrue
  <1>1. Inv => CountersAreTrue
    <2> SUFFICES ASSUME Inv, published
                 PROVE  /\ Running = {}
                        /\ touched \subseteq Transfers \cup Removals \cup (counted \cap Failed)
                        /\ ~dryRun => Transfers \cup Removals \subseteq touched
      BY DEF CountersAreTrue
    <2>1. counted = Settled /\ Running = {}
      BY DEF Inv, ReportInv, PhaseInv
    <2>2. \A p \in Path : Action(p) # "skip" => Action(p) \in {"transfer", "remove"}
      BY DEF Action
    <2>3. \A p \in touched : p \in counted /\ fate[p] \in {"done", "failed"}
      BY <2>1 DEF Inv, TypeOK, FateInv, Running, Settled
    <2>4. touched \subseteq Transfers \cup Removals \cup (counted \cap Failed)
      BY <2>2, <2>3 DEF Inv, TypeOK, FateInv, Transfers, Removals, Failed
    <2>5. ~dryRun => Transfers \cup Removals \subseteq touched
      BY DEF Inv, TypeOK, FateInv, Transfers, Removals
    <2> QED
      BY <2>1, <2>4, <2>5
  <1> QED
    BY <1>1, Invariance, PTL

\* A sync that succeeds, and was not cancelled, dealt with every pair of the scan.
THEOREM CompleteSuccess == Spec => []SuccessIsComplete
  <1>1. Inv => SuccessIsComplete
    <2> SUFFICES ASSUME Inv, outcome = "success", ~aborted
                 PROVE  /\ Pairs = Transfers \cup Removals \cup Skips
                        /\ ~dryRun => \A p \in Pairs : Action(p) # "skip" => p \in touched
      BY DEF SuccessIsComplete
    <2>1. counted = Settled /\ Running = {} /\ Failed = {} /\ todo = {}
      BY DEF Inv, ReportInv, PhaseInv
    <2>2. \A p \in Pairs : p \in counted /\ fate[p] \in {"done", "skipped"}
      BY <2>1 DEF Inv, TypeOK, FateInv, Pairs, Running, Settled, Failed, Fates
    <2>3. \A p \in counted : p \in Pairs
      BY <2>1 DEF Inv, TypeOK, FateInv, Pairs, Settled
    <2>4. \A p \in Path : Action(p) # "skip" => Action(p) \in {"transfer", "remove"}
      BY DEF Action
    <2>5. Pairs \subseteq Transfers \cup Removals \cup Skips
      BY <2>2, <2>4 DEF Inv, FateInv, Pairs, Transfers, Removals, Skips
    <2>6. Transfers \cup Removals \cup Skips \subseteq Pairs
      BY <2>3 DEF Transfers, Removals, Skips
    <2>7. ~dryRun => \A p \in Pairs : Action(p) # "skip" => p \in touched
      BY <2>2 DEF Inv, FateInv, Pairs
    <2> QED
      BY <2>5, <2>6, <2>7
  <1> QED
    BY <1>1, Invariance, PTL

\* What somebody else wrote after the scan survives a download sync and the removal of a
\* remote orphan.
THEOREM ForeignIsSafe == Spec => ForeignSurvives
  <1> DEFINE Keeps == \A p \in Path : dst[p] = "foreign" /\ Guarded(p) => dst'[p] = "foreign"
  <1>1. ASSUME Inv, [Next]_vars PROVE Keeps
    <2>1. CASE Scan
      BY <1>1, <2>1 DEF Inv, PhaseInv, Scan
    <2>2. CASE \E q \in Path : Apply(q)
      <3>1. PICK q \in Path : Apply(q)
        BY <2>2
      <3>2. \A p \in Path : p # q => dst'[p] = dst[p]
        BY <1>1, <3>1 DEF Apply, Inv, TypeOK
      <3>3. dst'[q] = After(q)
        BY <1>1, <3>1 DEF Apply, Inv, TypeOK
      <3>4. direction = "down" /\ fate[q] # "checked" => dst[q] # "foreign"
        BY <3>1 DEF Apply, StillAsScanned
      <3>5. Action(q) = "remove" /\ ~locked /\ direction # "down" /\ dst[q] = "foreign"
              => After(q) = "foreign"
        BY DEF After
      <3> QED
        BY <3>2, <3>3, <3>4, <3>5 DEF Guarded
    <2>3. CASE \E q \in Volatile : OtherWrites(q)
      BY <1>1, <2>3 DEF OtherWrites, Inv, TypeOK
    <2>4. CASE UNCHANGED dst
      BY <2>4
    <2> QED
      BY <1>1, <2>1, <2>2, <2>3, <2>4 DEF Next, Step, Start, ScanError, ScanGivesUp, ScanThrows,
         ScanCancelled, TakePair, Finish, Publish, Check, ActionSucceeds, ActionFails, Abort, Finished,
         vars
  <1> HIDE DEF Keeps
  <1>2. Spec => [][Keeps]_vars
    BY <1>1, Invariance, PTL DEF Spec
  <1> QED
    BY <1>2 DEF Keeps, ForeignSurvives

\* No action starts after a cancellation, or beside `concurrency` others.
THEOREM Starts == Spec => StartsInBounds
  <1> DEFINE Bounded == Cardinality(Running) <= concurrency
             InBounds == (\E p \in Path : fate[p] = "pending" /\ fate'[p] # "pending") =>
                           ~aborted /\ Cardinality(Running') <= concurrency
  <1>1. Init => Bounded
    <2> SUFFICES ASSUME Init PROVE Bounded
      OBVIOUS
    <2>1. Running = {} /\ concurrency \in 1 .. MaxConcurrency
      BY DEF Init, Running
    <2> QED
      BY <2>1, FS_EmptySet
  <1>2. ASSUME Inv, Bounded, [Next]_vars PROVE Bounded'
    <2>1. concurrency' = concurrency /\ concurrency \in Nat
      BY <1>2, InputsFixed DEF Inv, TypeOK, inputs
    <2>2. Cardinality(Running) \in Nat /\ Cardinality(Running') \in Nat
      BY CountPaths DEF Running
    <2>3. CASE Running' \subseteq Running
      <3>1. IsFiniteSet(Running)
        BY CountPaths DEF Running
      <3>2. Cardinality(Running') <= Cardinality(Running)
        BY <2>3, <3>1, FS_Subset
      <3> QED
        BY <1>2, <2>1, <2>2, <3>2
    <2>4. CASE TakePair
      <3> DEFINE q == First(todo)
      <3>1. q \in Path
        BY <1>2, <2>4, FirstIsMember DEF TakePair, Inv, TypeOK
      <3>2. Running' \subseteq Running \cup {q}
        BY <1>2, <2>4 DEF TakePair, Running, Inv, TypeOK
      <3>3. /\ IsFiniteSet(Running) /\ IsFiniteSet(Running \cup {q})
            /\ Cardinality(Running \cup {q}) \in Nat
        BY <3>1, CountPaths DEF Running
      <3>4. Cardinality(Running \cup {q}) <= Cardinality(Running) + 1
        BY <3>3, <2>2, FS_AddElement
      <3>5. Cardinality(Running') <= Cardinality(Running \cup {q})
        BY <3>2, <3>3, FS_Subset
      <3>6. Cardinality(Running) < concurrency
        BY <2>4 DEF TakePair
      <3> QED
        BY <2>1, <2>2, <3>3, <3>4, <3>5, <3>6
    <2>5. CASE \E p \in Path : Check(p) \/ Apply(p) \/ ActionSucceeds(p) \/ ActionFails(p)
      <3>1. Running' \subseteq Running
        BY <1>2, <2>5 DEF Check, Apply, ActionSucceeds, ActionFails, Running, Inv, TypeOK
      <3> QED
        BY <2>3, <3>1
    <2>6. CASE UNCHANGED fate
      <3>1. Running' \subseteq Running
        BY <2>6 DEF Running
      <3> QED
        BY <2>3, <3>1
    <2> QED
      BY <1>2, <2>4, <2>5, <2>6 DEF Next, Step, Start, Scan, ScanError, ScanGivesUp, ScanThrows,
         ScanCancelled, Finish, Publish, Abort, OtherWrites, Finished, vars
  <1>3. ASSUME Inv, Bounded', [Next]_vars PROVE InBounds
    <2> SUFFICES ASSUME NEW p \in Path, fate[p] = "pending", fate'[p] # "pending"
                 PROVE  ~aborted /\ Cardinality(Running') <= concurrency
      OBVIOUS
    <2>1. concurrency' = concurrency
      BY <1>3, InputsFixed DEF inputs
    <2>2. CASE \E q \in Path : Check(q) \/ Apply(q) \/ ActionSucceeds(q) \/ ActionFails(q)
      BY <1>3, <2>2 DEF Check, Apply, ActionSucceeds, ActionFails, Inv, TypeOK
    <2>3. CASE UNCHANGED fate
      BY <2>3
    <2>4. CASE TakePair
      BY <1>3, <2>1, <2>4 DEF TakePair
    <2> QED
      BY <1>3, <2>2, <2>3, <2>4 DEF Next, Step, Start, Scan, ScanError, ScanGivesUp, ScanThrows,
         ScanCancelled, Finish, Publish, Abort, OtherWrites, Finished, vars
  <1> HIDE DEF Bounded, InBounds
  <1>4. Spec => []Bounded
    BY <1>1, <1>2, Invariance, PTL DEF Spec
  <1>5. Spec => [][InBounds]_vars
    BY <1>3, <1>4, Invariance, PTL DEF Spec
  <1> QED
    BY <1>5 DEF InBounds, StartsInBounds

---------------------------------------------------------------------------
(* Sync implements SyncPromise. *)

\* SyncPromise counts with its own instance of FiniteSets.
LEMMA SameCardinality == \A S : Promise!Cardinality(S) = Cardinality(S)
  BY DEF Promise!Cardinality, Cardinality

\* What the promise calls the plan and the fate of each path.
PlanNow == [p \in Path |-> IF kind[p] = "absent" THEN "none" ELSE Action(p)]
FateNow == [p \in Path |-> IF fate[p] \in {"checked", "applied"} THEN "running" ELSE fate[p]]

\* Its sets of paths are those of the command.
LEMMA PromiseSets ==
  ASSUME Inv
  PROVE  /\ Promise!InHand = Running /\ Promise!Ended = Settled /\ Promise!Failed = Failed
         /\ Promise!Ahead = todo
  <1>1. \A p \in Path : Action(p) \in {"transfer", "remove", "skip"}
    BY DEF Action
  <1>2. Promise!InHand = Running /\ Promise!Ended = Settled /\ Promise!Failed = Failed
    BY DEF Promise!InHand, Running, Promise!Ended, Settled, Promise!Failed, Failed
  <1>3. todo \in SUBSET Path
    BY DEF Inv, TypeOK
  <1>4. \A p \in Path : p \in todo <=> kind[p] # "absent" /\ fate[p] = "pending"
    BY DEF Inv, FateInv
  <1>5. Promise!Ahead = {p \in Path : kind[p] # "absent" /\ fate[p] = "pending"}
    BY <1>1 DEF Promise!Ahead
  <1> QED
    BY <1>2, <1>3, <1>4, <1>5

\* The plan rests on the inputs and the scan alone.
LEMMA PlanFixed ==
  ASSUME UNCHANGED <<inputs, scanned>>
  PROVE  PlanNow' = PlanNow /\ UNCHANGED Promise!inputs
  <1>1. \A p : Action(p)' = Action(p)
    BY ActionFixed DEF scanned
  <1> QED
    BY <1>1 DEF PlanNow, scanned, inputs, Promise!inputs

\* Before the engine acts there is no plan.
LEMMA NoPlanYet ==
  ASSUME Inv, pc \in {"start", "scanning"}
  PROVE  Promise!NoPlan
  BY DEF Inv, PhaseInv, Promise!NoPlan

\* Initial states map to initial states.
LEMMA PromiseInit == Init => Promise!Init
  <1> SUFFICES ASSUME Init PROVE Promise!Init
    OBVIOUS
  <1>1. concurrency \in Nat \ {0} /\ ~(scanErrors > 0)
    BY DEF Init
  <1>2. Promise!NoPlan
    BY DEF Init, Promise!NoPlan
  <1>3. FateNow = [p \in Path |-> "pending"]
    BY DEF Init, FateNow
  <1> QED
    BY <1>1, <1>2, <1>3 DEF Init, Promise!Init, FateNow

\* Before the engine acts the run is given up, a source proves unreadable, or a plan is made.
LEMMA PromiseEarly ==
  ASSUME Inv, Start \/ Scan \/ ScanError \/ ScanGivesUp \/ ScanThrows \/ ScanCancelled
  PROVE  Promise!Next \/ UNCHANGED Promise!vars
  <1>1. /\ pc \in {"start", "scanning"} /\ outcome = "running"
        /\ UNCHANGED <<inputs, fate, touched, aborted, counted, published>>
    BY DEF Inv, PhaseInv, Start, Scan, ScanError, ScanGivesUp, ScanThrows, ScanCancelled
  <1>2. Promise!NoPlan /\ UNCHANGED Promise!inputs /\ FateNow' = FateNow
    BY <1>1, NoPlanYet DEF inputs, Promise!inputs, FateNow
  <1>3. scanErrors \in Nat
    BY DEF Inv, TypeOK
  <1>4. CASE Scan
    <2>1. \A p \in Path : Action(p)' \in {"transfer", "remove", "skip"}
      BY DEF Action
    <2>2. PlanNow' \in [Path -> Promise!Plans]
      BY <2>1 DEF PlanNow, Promise!Plans
    <2>3. ~aborted /\ ~(scanErrors > 0) /\ ~(scanErrors' > 0) /\ outcome' = outcome
      BY <1>4 DEF Scan
    <2>4. Promise!MakePlan
      BY <1>1, <1>2, <2>2, <2>3 DEF Promise!MakePlan, Promise!report, PlanNow, FateNow
    <2> QED
      BY <2>4 DEF Promise!Next
  <1>5. CASE ScanError
    <2>1. scanErrors' > 0 /\ outcome' = outcome /\ UNCHANGED <<kind, inventory>>
      BY <1>3, <1>5 DEF ScanError
    <2>2. PlanNow' = PlanNow
      BY <1>1, <2>1, ActionFixed DEF PlanNow
    <2>3. Promise!ReadFails
      BY <1>1, <1>2, <2>1, <2>2 DEF Promise!ReadFails, Promise!report, PlanNow, FateNow
    <2> QED
      BY <2>3 DEF Promise!Next
  <1>6. CASE Start \/ ScanGivesUp \/ ScanThrows \/ ScanCancelled
    <2>1. UNCHANGED scanned /\ outcome' \in {outcome, "failure"}
      BY <1>6 DEF Start, ScanGivesUp, ScanThrows, ScanCancelled, Fail
    <2>2. PlanNow' = PlanNow /\ scanErrors' = scanErrors
      BY <1>1, <2>1, PlanFixed DEF scanned
    <2>3. CASE outcome' = outcome
      BY <1>1, <1>2, <2>2, <2>3 DEF Promise!vars, Promise!report, PlanNow, FateNow
    <2>4. CASE outcome' = "failure"
      <3>1. Promise!Abandon
        BY <1>1, <1>2, <2>2, <2>4 DEF Promise!Abandon, PlanNow, FateNow
      <3> QED
        BY <3>1 DEF Promise!Next
    <2> QED
      BY <2>1, <2>3, <2>4
  <1> QED
    BY <1>4, <1>5, <1>6

\* TakePair takes up the first path ahead.
LEMMA PromiseTakePair ==
  ASSUME Inv, TakePair
  PROVE  Promise!Next
  <1>1. /\ todo # {} /\ todo \in SUBSET Path /\ pc = "acting" /\ ~aborted
        /\ outcome = "running" /\ ~published
        /\ UNCHANGED <<inputs, scanned, aborted, touched, published, outcome>>
        /\ Cardinality(Running) < concurrency
        /\ fate \in [Path -> Fates]
        /\ fate' = [fate EXCEPT ![First(todo)] = Started(First(todo))]
    BY DEF TakePair, Inv, TypeOK, PhaseInv
  <1>2. PICK q \in Path : q = First(todo) /\ q \in todo /\ \A p \in todo : q <= p
    BY <1>1, FirstIsMember
  <1>3. PlanNow' = PlanNow /\ UNCHANGED Promise!inputs /\ scanErrors' = scanErrors
    BY <1>1, PlanFixed DEF scanned
  <1>4. kind[q] # "absent" /\ PlanNow[q] = Action(q)
    BY <1>2 DEF Inv, FateInv, PlanNow
  <1>5. FateNow' = [FateNow EXCEPT ![q] = Started(q)]
    <2>1. Started(q) \notin {"checked", "applied"}
      BY DEF Started
    <2>2. fate'[q] = Started(q) /\ \A p \in Path : p # q => fate'[p] = fate[p]
      BY <1>1, <1>2
    <2> QED
      BY <1>2, <2>1, <2>2 DEF FateNow
  <1>6. Started(q) = IF PlanNow[q] = "skip" THEN "skipped" ELSE IF dryRun THEN "done" ELSE "running"
    BY <1>4 DEF Started
  <1>7. Promise!Cardinality(Promise!InHand) < concurrency
    BY <1>1, PromiseSets, SameCardinality
  <1>8. q \in Promise!Ahead /\ \A p \in Promise!Ahead : q <= p
    BY <1>2, PromiseSets
  <1>9. Promise!Begin(q)
    BY <1>1, <1>3, <1>5, <1>6, <1>7, <1>8 DEF Promise!Begin, Promise!report, PlanNow, FateNow
  <1> QED
    BY <1>9 DEF Promise!Next

\* A look at a file is not seen; an effect is a change, made once; an end is an end.
LEMMA PromiseAct ==
  ASSUME Inv, NEW q \in Path, Check(q) \/ Apply(q) \/ ActionSucceeds(q) \/ ActionFails(q)
  PROVE  Promise!Next \/ UNCHANGED Promise!vars
  <1>1. /\ UNCHANGED <<inputs, scanned, aborted, counted, published, outcome>>
        /\ fate \in [Path -> Fates]
    BY DEF Check, Apply, ActionSucceeds, ActionFails, Inv, TypeOK
  <1>2. PlanNow' = PlanNow /\ UNCHANGED Promise!inputs /\ scanErrors' = scanErrors
    BY <1>1, PlanFixed DEF scanned
  <1>3. fate[q] \in {"running", "checked", "applied"} /\ FateNow[q] = "running"
    BY DEF Check, Apply, ActionSucceeds, ActionFails, FateNow
  <1>4. CASE Check(q) \/ Apply(q)
    <2>1. /\ fate'[q] \in {"checked", "applied"}
          /\ \A p \in Path : p # q => fate'[p] = fate[p]
      BY <1>1, <1>4 DEF Check, Apply
    <2>2. FateNow' = FateNow
      BY <1>3, <2>1 DEF FateNow
    <2>3. CASE Check(q)
      <3>1. touched' = touched
        BY <2>3 DEF Check
      <3> QED
        BY <1>1, <1>2, <2>2, <3>1 DEF Promise!vars, Promise!report, PlanNow, FateNow
    <2>4. CASE Apply(q)
      <3>1. touched' = touched \cup {q} /\ fate[q] \in {"running", "checked"}
        BY <2>4 DEF Apply
      <3>2. q \notin touched
        BY <3>1 DEF Inv, FateInv
      <3>3. Promise!Change(q)
        BY <1>1, <1>2, <1>3, <2>2, <3>1, <3>2
           DEF Promise!Change, Promise!report, PlanNow, FateNow
      <3> QED
        BY <3>3 DEF Promise!Next
    <2> QED
      BY <1>4, <2>3, <2>4
  <1>5. CASE ActionSucceeds(q) \/ ActionFails(q)
    <2>1. /\ fate'[q] \in {"done", "failed"} /\ touched' = touched
          /\ \A p \in Path : p # q => fate'[p] = fate[p]
          /\ fate'[q] = "done" => fate[q] = "applied"
      BY <1>1, <1>5 DEF ActionSucceeds, ActionFails
    <2>2. FateNow' = [FateNow EXCEPT ![q] = fate'[q]]
      BY <2>1 DEF FateNow
    <2>3. fate[q] = "applied" => q \in touched
      BY <1>3 DEF Inv, FateInv, ActionSucceeds, ActionFails
    <2>4. Promise!Settle(q)
      <3>1. \E end \in {"done", "failed"} :
              (end = "done" => q \in touched) /\ FateNow' = [FateNow EXCEPT ![q] = end]
        BY <2>1, <2>2, <2>3
      <3> QED
        BY <1>1, <1>2, <1>3, <2>1, <3>1 DEF Promise!Settle, Promise!report, PlanNow, FateNow
    <2> QED
      BY <2>4 DEF Promise!Next
  <1> QED
    BY <1>4, <1>5

\* Publish concludes: every action has settled, and there is an error exactly when something
\* could not be read or failed.
LEMMA PromisePublish ==
  ASSUME Inv, Publish
  PROVE  Promise!Next
  <1>1. /\ pc = "publish" /\ outcome = "running" /\ Running = {} /\ counted = Settled
        /\ todo = {} \/ aborted
        /\ published' = TRUE /\ counted' = counted
        /\ outcome' = IF errors > 0 THEN "failure" ELSE "success"
        /\ UNCHANGED <<inputs, scanned, aborted, touched, fate>>
    BY DEF Publish, Inv, PhaseInv, ReportInv
  <1>2. PlanNow' = PlanNow /\ UNCHANGED Promise!inputs /\ scanErrors' = scanErrors
    BY <1>1, PlanFixed DEF scanned
  <1>3. FateNow' = FateNow
    BY <1>1 DEF FateNow
  <1>4. errors > 0 <=> scanErrors > 0 \/ Failed # {}
    <2> DEFINE closing == IF aggregate THEN 1 ELSE 0
    <2>1. closing \in Nat /\ (closing > 0 => Failed # {} \/ scanErrors # 0)
      BY DEF Inv, TypeOK, ReportInv
    <2>2. counted \cap Failed = Failed
      BY <1>1 DEF Settled, Failed
    <2>3. Cardinality(Failed) \in Nat /\ (Cardinality(Failed) = 0 => Failed = {})
      BY CountPaths DEF Failed
    <2>4. Failed = {} => Cardinality(Failed) = 0
      BY FS_EmptySet
    <2>5. scanErrors \in Nat
      BY DEF Inv, TypeOK
    <2>6. errors = Cardinality(Failed) + scanErrors + closing
      BY <2>2, Zenon DEF errors
    <2> HIDE DEF closing
    <2> QED
      BY <2>1, <2>3, <2>4, <2>5, <2>6
  <1>5. Promise!Conclude
    BY <1>1, <1>2, <1>3, <1>4, PromiseSets DEF Promise!Conclude, PlanNow, FateNow
  <1> QED
    BY <1>5 DEF Promise!Next

\* Every step is one of the promise's, or is not seen.
LEMMA PromiseStep == Inv /\ [Next]_vars => [Promise!Next]_(Promise!vars)
  <1> SUFFICES ASSUME Inv, [Next]_vars PROVE [Promise!Next]_(Promise!vars)
    OBVIOUS
  <1>1. CASE Start \/ Scan \/ ScanError \/ ScanGivesUp \/ ScanThrows \/ ScanCancelled
    BY <1>1, PromiseEarly
  <1>2. CASE TakePair
    BY <1>2, PromiseTakePair
  <1>3. CASE \E p \in Path : Check(p) \/ Apply(p) \/ ActionSucceeds(p) \/ ActionFails(p)
    BY <1>3, PromiseAct
  <1>4. CASE Publish
    BY <1>4, PromisePublish
  <1>5. CASE Abort
    <2>1. /\ ~aborted /\ aborted' = TRUE /\ outcome = "running"
          /\ UNCHANGED <<inputs, scanned, fate, touched, counted, published, outcome>>
      BY <1>5 DEF Abort, Inv, PhaseInv
    <2>2. PlanNow' = PlanNow /\ UNCHANGED Promise!inputs /\ scanErrors' = scanErrors
      BY <2>1, PlanFixed DEF scanned
    <2>3. Promise!Stop
      BY <2>1, <2>2 DEF Promise!Stop, Promise!report, PlanNow
    <2> QED
      BY <2>3 DEF Promise!Next
  <1>6. CASE Finish \/ (\E p \in Volatile : OtherWrites(p)) \/ UNCHANGED vars
    <2>1. /\ UNCHANGED <<inputs, scanned, aborted, touched, fate, published, outcome>>
          /\ published => counted' = counted
      BY <1>6 DEF Finish, OtherWrites, vars, Inv, PhaseInv
    <2>2. PlanNow' = PlanNow /\ UNCHANGED Promise!inputs /\ scanErrors' = scanErrors
      BY <2>1, PlanFixed DEF scanned
    <2> QED
      BY <2>1, <2>2 DEF Promise!vars, Promise!report, PlanNow
  <1> QED
    BY <1>1, <1>2, <1>3, <1>4, <1>5, <1>6 DEF Next, Step, Finished

\* sync implements SyncPromise, for any number of paths, any concurrency, any scan and any
\* behaviour of others at the destination.
THEOREM Refinement == Spec => ImplementsPromise
  <1> QED
    BY Invariance, PromiseInit, PromiseStep, PTL DEF Spec, ImplementsPromise, Promise!Spec

---------------------------------------------------------------------------
(* The work ahead of a sync. *)

\* Stages the engine has to go through, and stations ahead of each path's action.
Stages == [start |-> 4, scanning |-> 3, acting |-> 2, publish |-> 1, done |-> 0]
Ahead  == [pending |-> 4, running |-> 3, checked |-> 2, applied |-> 1, done |-> 0,
           failed |-> 0, skipped |-> 0]
AtLeast(k) == {p \in Path : Ahead[fate[p]] >= k}
Stations ==
  Cardinality(AtLeast(1)) + Cardinality(AtLeast(2)) + Cardinality(AtLeast(3))
    + Cardinality(AtLeast(4))
Work == Stages[pc] + Stations

\* What an action in flight does by itself.
Acting == \E p \in Path : Check(p) \/ Apply(p) \/ ActionSucceeds(p) \/ ActionFails(p)

WorkBounded  == Work \in 0 .. 4 * MaxPath + 4
WorkConsumed == [][Work' <= Work /\ (Step \/ Acting => Work' < Work)]_vars

\* Part of a set of paths is no more than the set, and less if it is not all of it.
LEMMA FewerPaths ==
  ASSUME NEW S \in SUBSET Path, NEW T \in SUBSET S
  PROVE  /\ Cardinality(S) \in 0 .. MaxPath /\ Cardinality(T) \in 0 .. MaxPath
         /\ Cardinality(T) <= Cardinality(S)
         /\ T # S => Cardinality(T) < Cardinality(S)
  <1>1. IsFiniteSet(Path) /\ Cardinality(Path) = MaxPath
    BY FS_Interval DEF Path
  <1>2. /\ IsFiniteSet(S) /\ Cardinality(S) <= Cardinality(Path)
        /\ Cardinality(S) \in Nat
    BY <1>1, FS_Subset, FS_CardinalityType
  <1>3. /\ Cardinality(T) <= Cardinality(S) /\ Cardinality(T) \in Nat
        /\ Cardinality(T) = Cardinality(S) => T = S
    BY <1>2, FS_Subset, FS_CardinalityType
  <1> QED
    BY <1>1, <1>2, <1>3

\* Where no path goes back there are no more stations, and fewer when one moves on.
LEMMA MovingOn ==
  ASSUME TypeOK, TypeOK',
         \A p \in Path : Ahead[fate'[p]] <= Ahead[fate[p]]
  PROVE  /\ Stations \in Nat /\ Stations' \in Nat /\ Stations' <= Stations
         /\ (\E p \in Path : Ahead[fate'[p]] < Ahead[fate[p]]) => Stations' < Stations
  <1>1. \A p \in Path : Ahead[fate[p]] \in 0 .. 4 /\ Ahead[fate'[p]] \in 0 .. 4
    BY DEF TypeOK, Ahead, Fates
  <1> DEFINE Next1(k) == {p \in Path : Ahead[fate'[p]] >= k}
  <1>2. \A k \in 1 .. 4 : Next1(k) \subseteq AtLeast(k)
    BY <1>1 DEF AtLeast
  <1>3. \A k \in 1 .. 4 :
          /\ Cardinality(AtLeast(k)) \in 0 .. MaxPath /\ Cardinality(Next1(k)) \in 0 .. MaxPath
          /\ Cardinality(Next1(k)) <= Cardinality(AtLeast(k))
          /\ Next1(k) # AtLeast(k) => Cardinality(Next1(k)) < Cardinality(AtLeast(k))
    <2> TAKE k \in 1 .. 4
    <2>1. AtLeast(k) \in SUBSET Path /\ Next1(k) \in SUBSET AtLeast(k)
      BY <1>2 DEF AtLeast
    <2> QED
      BY <2>1, FewerPaths
  <1>4. Stations' = Cardinality(Next1(1)) + Cardinality(Next1(2)) + Cardinality(Next1(3))
                      + Cardinality(Next1(4))
    BY DEF Stations, AtLeast
  <1>5. ASSUME NEW p \in Path, Ahead[fate'[p]] < Ahead[fate[p]]
        PROVE  \E k \in 1 .. 4 : Next1(k) # AtLeast(k)
    <2>1. Ahead[fate[p]] \in 1 .. 4 /\ p \in AtLeast(Ahead[fate[p]])
      BY <1>1, <1>5 DEF AtLeast
    <2>2. p \notin Next1(Ahead[fate[p]])
      BY <1>1, <1>5
    <2> QED
      BY <2>1, <2>2
  <1> HIDE DEF Next1
  <1>6. Next1(1) # AtLeast(1) \/ Next1(2) # AtLeast(2) \/ Next1(3) # AtLeast(3)
          \/ Next1(4) # AtLeast(4) => Stations' < Stations
    BY <1>3, <1>4 DEF Stations
  <1>7. Stations \in Nat /\ Stations' \in Nat /\ Stations' <= Stations
    BY <1>3, <1>4 DEF Stations
  <1>8. (\E k \in 1 .. 4 : Next1(k) # AtLeast(k)) => Stations' < Stations
    BY <1>6
  <1> QED
    BY <1>5, <1>7, <1>8

\* The work is a number, at most that of a sync that begins.
LEMMA WorkIsNumber ==
  ASSUME TypeOK
  PROVE  Work \in 0 .. 4 * MaxPath + 4
  <1>1. Stages[pc] \in 0 .. 4
    BY DEF TypeOK, Stages
  <1>2. \A k \in 1 .. 4 : Cardinality(AtLeast(k)) \in 0 .. MaxPath
    <2> TAKE k \in 1 .. 4
    <2>1. AtLeast(k) \in SUBSET Path
      BY DEF AtLeast
    <2> QED
      BY <2>1, FewerPaths
  <1>3. Stations \in 0 .. 4 * MaxPath
    BY <1>2 DEF Stations
  <1> QED
    BY <1>1, <1>3 DEF Work

\* An action that is taken up, looks, takes effect or settles moves its own path on, and no
\* other.
LEMMA ActionMovesOn ==
  ASSUME Inv, TakePair \/ Acting
  PROVE  /\ \A p \in Path : Ahead[fate'[p]] <= Ahead[fate[p]]
         /\ \E p \in Path : Ahead[fate'[p]] < Ahead[fate[p]]
  <1>1. fate \in [Path -> Fates] /\ todo \in SUBSET Path
    BY DEF Inv, TypeOK
  <1>2. CASE TakePair
    <2>1. First(todo) \in todo /\ First(todo) \in Path
      BY <1>1, <1>2, FirstIsMember DEF TakePair
    <2>2. fate[First(todo)] = "pending"
      BY <2>1 DEF Inv, FateInv
    <2>3. Started(First(todo)) \in {"skipped", "done", "running"}
      BY DEF Started
    <2>4. fate' = [fate EXCEPT ![First(todo)] = Started(First(todo))]
      BY <1>2 DEF TakePair
    <2> HIDE DEF First, Started
    <2> QED
      BY <1>1, <2>1, <2>2, <2>3, <2>4 DEF Ahead, Fates
  <1>3. CASE Acting
    <2>1. PICK p \in Path : Check(p) \/ Apply(p) \/ ActionSucceeds(p) \/ ActionFails(p)
      BY <1>3 DEF Acting
    <2>2. PICK a \in Fates : fate' = [fate EXCEPT ![p] = a] /\ Ahead[a] < Ahead[fate[p]]
      <3>1. CASE Check(p)
        BY <3>1 DEF Check, Ahead, Fates
      <3>2. CASE Apply(p)
        <4>1. fate[p] \in {"checked", "running"} /\ fate' = [fate EXCEPT ![p] = "applied"]
          BY <3>2 DEF Apply
        <4> QED
          BY <4>1 DEF Ahead, Fates
      <3>3. CASE ActionSucceeds(p)
        BY <3>3 DEF ActionSucceeds, Ahead, Fates
      <3>4. CASE ActionFails(p)
        BY <3>4 DEF ActionFails, Ahead, Fates
      <3> QED
        BY <2>1, <3>1, <3>2, <3>3, <3>4
    <2>3. \A q \in Path : Ahead[fate[q]] \in Int
      BY <1>1 DEF Ahead, Fates
    <2>4. fate'[p] = a /\ \A q \in Path : q # p => fate'[q] = fate[q]
      BY <1>1, <2>2
    <2>5. Ahead[fate'[p]] < Ahead[fate[p]]
      BY <2>2, <2>4
    <2>6. Ahead[a] \in Int
      BY DEF Ahead, Fates
    <2>7. ASSUME NEW q \in Path PROVE Ahead[fate'[q]] <= Ahead[fate[q]]
      <3>1. CASE q = p
        BY <2>2, <2>3, <2>4, <2>6, <3>1
      <3>2. CASE q # p
        BY <2>3, <2>4, <3>2
      <3> QED
        BY <3>1, <3>2
    <2> QED
      BY <2>5, <2>7
  <1> QED
    BY <1>2, <1>3

\* Every step of the engine and of its actions takes from the work; nobody adds to it.
LEMMA StepWork ==
  ASSUME Inv, Inv', [Next]_vars
  PROVE  Work' <= Work /\ (Step \/ Acting => Work' < Work)
  <1>1. TypeOK /\ TypeOK'
    BY DEF Inv
  <1>2. Stages[pc] \in 0 .. 4 /\ Stages[pc'] \in 0 .. 4
    BY <1>1 DEF TypeOK, Stages
  <1>3. Work' = Stages[pc'] + Stations'
    BY DEF Work, Stages
  <1> DEFINE Less == Work \in Nat /\ Work' \in Nat /\ Work' < Work
  <1>4. ASSUME TakePair \/ Acting PROVE Less
    <2>1. pc' = pc
      BY <1>4 DEF TakePair, Acting, Check, Apply, ActionSucceeds, ActionFails
    <2>2. Stations \in Nat /\ Stations' \in Nat /\ Stations' < Stations
      BY <1>1, <1>4, ActionMovesOn, MovingOn
    <2> QED
      BY <1>2, <1>3, <2>1, <2>2 DEF Work
  <1>5. ASSUME fate' = fate
        PROVE  Stations \in Nat /\ Stations' = Stations
    <2>1. \A p \in Path : Ahead[fate'[p]] <= Ahead[fate[p]]
      BY <1>1, <1>5 DEF TypeOK, Ahead, Fates
    <2>2. Stations \in Nat
      BY <1>1, <2>1, MovingOn
    <2> QED
      BY <1>5, <2>2 DEF Stations, AtLeast, Ahead
  <1>6. ASSUME \/ Start \/ Scan \/ ScanGivesUp \/ ScanThrows \/ ScanCancelled \/ Finish
               \/ Publish
        PROVE  Less
    <2>1. fate' = fate /\ Stages[pc'] < Stages[pc]
      BY <1>6 DEF Start, Scan, ScanGivesUp, ScanThrows, ScanCancelled, Finish, Publish, Fail,
                  Stages
    <2> QED
      BY <1>2, <1>3, <1>5, <2>1 DEF Work
  <1>7. Step \/ Acting => Less
    BY <1>4, <1>6 DEF Step
  <1>8. CASE Step \/ Acting
    BY <1>7, <1>8
  <1>9. CASE ScanError \/ Abort \/ (\E p \in Volatile : OtherWrites(p)) \/ UNCHANGED vars
    <2>1. fate' = fate /\ pc' = pc
      BY <1>9 DEF ScanError, Abort, OtherWrites, vars
    <2> QED
      BY <1>2, <1>3, <1>5, <1>7, <2>1 DEF Work
  <1> QED
    BY <1>8, <1>9 DEF Next, Acting, Finished

\* No sync takes more than 4 * MaxPath + 4 steps, whatever the scan finds, whichever actions
\* fail and whatever others do at the destination: each takes from the work there is at first.
THEOREM FiniteWork == Spec => []WorkBounded /\ WorkConsumed
  <1> DEFINE Consumed == Work' <= Work /\ (Step \/ Acting => Work' < Work)
  <1>1. Inv => WorkBounded
    BY WorkIsNumber DEF Inv, WorkBounded
  <1>2. Inv /\ Inv' /\ [Next]_vars => Consumed
    BY StepWork
  <1> HIDE DEF Consumed
  <1>3. Spec => []WorkBounded
    BY <1>1, Invariance, PTL
  <1>4. Spec => [][Consumed]_vars
    BY <1>2, Invariance, PTL DEF Spec
  <1> QED
    BY <1>3, <1>4 DEF Consumed, WorkConsumed
=============================================================================

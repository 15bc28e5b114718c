--------------------------- MODULE DeletionProofs ---------------------------
(***************************************************************************)
(* Proofs about Deletion.tla, for every set of versions, every order of    *)
(* them, every page size and every behaviour of the other clients: the     *)
(* inductive invariant and the safety properties that follow from it.      *)
(***************************************************************************)
EXTENDS Deletion, FiniteSetTheorems, WellFoundedInduction, TLAPS

USE DeletionAssumption

\* Past its first step the command is one the guards let through, a loop is never that of
\* a single-file delete, a lookup always is, and only a finished run has an outcome.
ControlInv ==
  /\ pc \notin {"start", "done"} => ~MustRefuse
  /\ pc = "lookup" => SingleFile
  /\ pc = "loop" => ~SingleFile
  /\ outcome = "running" <=> pc # "done"
  /\ published => pc = "done"
  /\ outcome = "success" => published
  /\ (pc = "publish" \/ outcome = "success") /\ ~SingleFile => page = {} /\ cursor = End

\* An open request is about a version the inputs ask for.
RequestInv ==
  /\ pc \notin {"sent", "applied", "done"} => current = NoVersion
  /\ published => current = NoVersion
  /\ pc \in {"sent", "applied"} =>
       /\ current \in Versions /\ ~dryRun
       /\ IF SingleFile THEN PlaceOf[current] = "exact" ELSE current \in InPrefix
  /\ pc = "applied" => current \in removed

\* The tally covers what was removed, and a removed version of the start is gone for good.
TallyInv ==
  /\ ~dryRun => skipped = {}
  /\ outcome = "success" => refused = {}
  /\ removed \cap initial \cap bucket = {}

\* What was there at the start and still is has not been overlooked: it is still to be
\* listed, waits on the page, was turned into an event, or is about to be.
Unseen(v) == v \in page \/ Position[v] >= cursor
CoverageInv ==
  outcome # "failure" /\ ~SingleFile =>
    \A v \in initial \cap InPrefix \cap bucket :
      Unseen(v) \/ v \in skipped \cup refused \/ v = current

Inv ==
  /\ TypeOK /\ ControlInv /\ RequestInv /\ TallyInv /\ CoverageInv
  /\ RemovesOnlyWhatWasAsked /\ RemovalsAccountedFor

---------------------------------------------------------------------------
(* The head of a page. *)

\* A non-empty set of versions has a first one in listing order, which First names.
LEMMA FirstIsLeast ==
  ASSUME NEW S \in SUBSET Versions, S # {}
  PROVE  First(S) \in S /\ \A u \in S : Position[First(S)] <= Position[u]
  <1> DEFINE R == OpToRel(<, Nat)
             T == {Position[v] : v \in S}
  <1>1. IsWellFoundedOn(R, Nat)
    BY NatLessThanWellFounded
  <1>2. T \subseteq Nat /\ T # {}
    OBVIOUS
  <1> HIDE DEF T
  <1>3. PICK x \in T : \A y \in T : ~ (<<y, x>> \in R)
    BY <1>1, <1>2, WFMin
  <1>4. \A y \in T : ~ (y < x)
    BY <1>2, <1>3 DEF OpToRel
  <1>5. PICK v \in S : Position[v] = x
    BY DEF T
  <1>6. \A u \in S : Position[u] \in T /\ Position[u] \in Nat
    BY DEF T
  <1>7. \A u \in S : Position[v] <= Position[u]
    BY <1>2, <1>4, <1>5, <1>6
  <1> QED
    BY <1>7 DEF First

\* Versions that lie between two positions are finite in number, and no more than these are
\* apart.
LEMMA CountVersions ==
  ASSUME NEW S \in SUBSET Versions, NEW a \in 1 .. End, NEW b \in 1 .. End, a <= b,
         \A v \in S : a <= Position[v] /\ Position[v] < b
  PROVE  IsFiniteSet(S) /\ Cardinality(S) \in Nat /\ Cardinality(S) <= b - a
  <1> DEFINE f == [v \in S |-> Position[v]]
             T == a .. (b - 1)
  <1>1. a \in Int /\ b - 1 \in Int /\ a - 1 <= b - 1
    BY DEF End
  <1>2. f \in Injection(S, T)
    <2>1. \A v \in S : Position[v] \in T
      BY <1>1 DEF End
    <2>2. \A u, v \in S : f[u] = f[v] => u = v
      OBVIOUS
    <2> QED
      BY <2>1, <2>2 DEF Injection, IsInjective
  <1>3. IsFiniteSet(T) /\ Cardinality(T) = b - a
    <2>1. IsFiniteSet(T) /\ Cardinality(T) = IF a > b - 1 THEN 0 ELSE (b - 1) - a + 1
      BY <1>1, FS_Interval
    <2> QED
      BY <1>1, <2>1 DEF End
  <1>4. IsFiniteSet(S) /\ Cardinality(S) <= Cardinality(T)
    <2> HIDE DEF f, T
    <2> QED
      BY <1>2, <1>3, FS_Injection
  <1> QED
    BY <1>3, <1>4, FS_CardinalityType

\* A page is what comes next in the listing: its versions lie between the old cursor and the
\* new one, which always moves on, and the rest of the listing lies behind.
LEMMA PageBounds ==
  ASSUME TypeOK, ListPage
  PROVE  /\ Fetched \in SUBSET Versions
         /\ cursor' \in 1 .. End /\ cursor < cursor'
         /\ \A v \in Fetched : cursor <= Position[v] /\ Position[v] < cursor'
         /\ \A v \in Rest \ Fetched : Position[v] >= cursor'
  <1> DEFINE Before(v) == {u \in Rest : Position[u] < Position[v]}
  <1>1. /\ Fetched \subseteq Rest /\ Rest \in SUBSET Versions
        /\ \A v \in Rest : cursor <= Position[v] /\ Position[v] \in 1 .. LastPosition
    BY DEF Fetched, Rest, Listed, TypeOK
  <1>2. cursor \in 1 .. End /\ cursor # End
    BY DEF TypeOK, ListPage
  <1>3. /\ IsFiniteSet(Rest)
        /\ \A v \in Rest : IsFiniteSet(Before(v)) /\ Cardinality(Before(v)) \in Nat
    <2>1. 1 \in 1 .. End /\ End \in 1 .. End /\ 1 <= End
      BY DEF End
    <2>2. \A v \in Rest : 1 <= Position[v] /\ Position[v] < End
      BY <1>1 DEF End
    <2>3. IsFiniteSet(Rest)
      BY <1>1, <2>1, <2>2, CountVersions
    <2> QED
      BY <2>3, FS_Subset, FS_CardinalityType
  <1>4. Fetched = {v \in Rest : Cardinality(Before(v)) < PageSize}
    BY DEF Fetched
  <1>5. ASSUME NEW v \in Fetched, NEW u \in Rest \ Fetched PROVE Position[v] < Position[u]
    <2> SUFFICES ASSUME Position[u] <= Position[v] PROVE FALSE
      BY <1>1
    <2>1. Before(u) \in SUBSET Before(v)
      BY <1>1
    <2>2. v \in Rest /\ IsFiniteSet(Before(v)) /\ Cardinality(Before(v)) \in Nat
          /\ Cardinality(Before(u)) \in Nat
      BY <1>1, <1>3
    <2>3. Cardinality(Before(u)) <= Cardinality(Before(v))
      <3> HIDE DEF Before
      <3> QED
        BY <2>1, <2>2, FS_Subset
    <2>4. Cardinality(Before(v)) < PageSize /\ ~(Cardinality(Before(u)) < PageSize)
      BY <1>4
    <2> HIDE DEF Before
    <2> QED
      BY <2>2, <2>3, <2>4
  <1> HIDE DEF Before
  <1>6. CASE Fetched = Rest
    <2>1. cursor' = End
      BY <1>6 DEF ListPage
    <2> QED
      BY <1>1, <1>2, <1>6, <2>1 DEF End
  <1>7. CASE Fetched # Rest
    <2> DEFINE f == First(Rest \ Fetched)
    <2>1. Rest \ Fetched \in SUBSET Versions /\ Rest \ Fetched # {}
      BY <1>1, <1>7
    <2>2. f \in Rest \ Fetched /\ \A v \in Rest \ Fetched : Position[f] <= Position[v]
      BY <2>1, FirstIsLeast
    <2>3. cursor' = Position[f]
      BY <1>7 DEF ListPage
    <2> HIDE DEF f
    <2>4. cursor <= Position[f] /\ Position[f] \in 1 .. LastPosition
      BY <1>1, <2>2
    <2>5. cursor # Position[f]
      <3> SUFFICES ASSUME cursor = Position[f] PROVE FALSE
        OBVIOUS
      <3>1. Before(f) = {}
        BY <1>1, <1>2, <2>4 DEF Before, End
      <3>2. Cardinality(Before(f)) < PageSize
        BY <3>1, FS_EmptySet
      <3> QED
        BY <1>4, <2>2, <3>2
    <2>6. cursor < Position[f]
      BY <1>2, <2>4, <2>5 DEF End
    <2>7. \A v \in Fetched : cursor <= Position[v] /\ Position[v] < Position[f]
      BY <1>1, <1>5, <2>2
    <2>8. Position[f] \in 1 .. End
      BY <2>4 DEF End
    <2>9. \A v \in Rest \ Fetched : Position[v] >= Position[f]
      BY <1>1, <2>2, <2>4
    <2> QED
      BY <1>1, <2>3, <2>6, <2>7, <2>8, <2>9
  <1> QED
    BY <1>6, <1>7

\* What FoundByName yields is a version of exactly the given name.
LEMMA FoundIsExact ==
  ASSUME TypeOK, NEW v \in FoundByName
  PROVE  v \in Versions /\ PlaceOf[v] = "exact"
  BY DEF FoundByName, TypeOK

---------------------------------------------------------------------------
(* The invariant holds at first and is kept by every step. *)

\* Every state the command can begin in satisfies the invariant.
LEMMA InitInv == Init => Inv
  <1> SUFFICES ASSUME Init PROVE Inv
    OBVIOUS
  <1> USE DEF Init
  <1>1. TypeOK
    <2>1. cursor \in 1 .. End
      BY DEF End
    <2> QED
      BY <2>1, Zenon DEF TypeOK
  <1>2. ControlInv /\ RequestInv /\ TallyInv
    BY DEF ControlInv, RequestInv, TallyInv
  <1>3. CoverageInv
    BY DEF CoverageInv, Unseen, InPrefix
  <1>4. RemovesOnlyWhatWasAsked /\ RemovalsAccountedFor
    BY DEF RemovesOnlyWhatWasAsked, RemovalsAccountedFor
  <1> QED
    BY <1>1, <1>2, <1>3, <1>4 DEF Inv

\* The inputs never change, nor does anything defined from them alone.
LEMMA InputsFixed ==
  ASSUME UNCHANGED inputs
  PROVE  /\ MustRefuse' = MustRefuse /\ SingleFile' = SingleFile
         /\ InPrefix' = InPrefix /\ \A v : Allowed(v)' = Allowed(v)
  BY DEF inputs, MustRefuse, SingleFile, BucketWide, InPrefix, Allowed

\* What a permitted request may be about is what the inputs allow.
LEMMA RequestAllowed ==
  ASSUME TypeOK, ~MustRefuse, ~dryRun, NEW v \in Versions,
         IF SingleFile THEN PlaceOf[v] = "exact" ELSE v \in InPrefix,
         v \in Locked => bypassGovernance
  PROVE  Allowed(v)
  BY DEF TypeOK, MustRefuse, SingleFile, BucketWide, InPrefix, Allowed

\* A step that ends the command in failure, publishing nothing.
FailStep ==
  /\ pc # "done" /\ Fail
  /\ UNCHANGED <<inputs, bucket, initial, removed, aborted, listing, tally, published>>
  /\ current' \in {current, NoVersion}

\* Every way of failing keeps the invariant.
LEMMA FailInv ==
  ASSUME Inv, FailStep
  PROVE  Inv'
  <1> USE DEF Inv, FailStep, Fail, listing, tally
  <1>0. /\ MustRefuse' = MustRefuse /\ SingleFile' = SingleFile /\ InPrefix' = InPrefix
        /\ \A v : Allowed(v)' = Allowed(v)
    BY InputsFixed
  <1>1. TypeOK'
    BY DEF TypeOK, inputs
  <1>2. ControlInv' /\ RequestInv' /\ TallyInv'
    BY <1>0 DEF ControlInv, RequestInv, TallyInv, inputs
  <1>3. CoverageInv' /\ RemovalsAccountedFor'
    BY <1>0 DEF CoverageInv, RemovalsAccountedFor, ControlInv
  <1>4. RemovesOnlyWhatWasAsked'
    BY <1>0 DEF RemovesOnlyWhatWasAsked
  <1> QED
    BY <1>1, <1>2, <1>3, <1>4

\* Begin, Lookup, LoopEnds and Publish: the control moves on.
LEMMA ControlStepInv ==
  ASSUME Inv, Begin \/ Lookup \/ LoopEnds \/ Publish
  PROVE  Inv'
  <1> USE DEF Inv, listing, tally
  <1>0. /\ UNCHANGED inputs
        /\ MustRefuse' = MustRefuse /\ SingleFile' = SingleFile /\ InPrefix' = InPrefix
        /\ \A v : Allowed(v)' = Allowed(v)
    BY InputsFixed DEF Begin, Lookup, LoopEnds, Publish
  <1>1. TypeOK'
    <2>1. CASE Lookup
      BY <2>1, FoundIsExact DEF TypeOK, inputs, Lookup
    <2>2. CASE Begin
      BY <2>2 DEF TypeOK, inputs, Begin
    <2>3. CASE LoopEnds
      BY <2>3 DEF TypeOK, inputs, LoopEnds
    <2>4. CASE Publish
      BY <2>4 DEF TypeOK, inputs, Publish
    <2> QED
      BY <2>1, <2>2, <2>3, <2>4
  <1>2. ControlInv'
    BY <1>0 DEF ControlInv, Begin, Lookup, LoopEnds, Publish
  <1>3. RequestInv'
    BY <1>0, FoundIsExact DEF RequestInv, ControlInv, inputs, Begin, Lookup, LoopEnds, Publish
  <1>4. TallyInv'
    BY <1>0 DEF TallyInv, inputs, Begin, Lookup, LoopEnds, Publish, ControlInv
  <1>5. CoverageInv'
    BY <1>0 DEF CoverageInv, Unseen, ControlInv, Begin, Lookup, LoopEnds, Publish
  <1>6. RemovesOnlyWhatWasAsked'
    BY <1>0 DEF RemovesOnlyWhatWasAsked, Begin, Lookup, LoopEnds, Publish
  <1>7. RemovalsAccountedFor'
    BY DEF RemovalsAccountedFor, TypeOK, RequestInv, ControlInv, Begin, Lookup, LoopEnds, Publish
  <1> QED
    BY <1>1, <1>2, <1>3, <1>4, <1>5, <1>6, <1>7

\* ListPage: what is listed and not on this page lies at or after the new cursor.
LEMMA ListPageInv ==
  ASSUME Inv, ListPage
  PROVE  Inv'
  <1> USE DEF Inv, ListPage, tally
  <1>0. /\ MustRefuse' = MustRefuse /\ SingleFile' = SingleFile /\ InPrefix' = InPrefix
        /\ \A v : Allowed(v)' = Allowed(v)
    BY InputsFixed
  <1>1. Fetched \in SUBSET Versions
    BY PageBounds
  <1>2. /\ cursor' \in 1 .. End
        /\ \A v \in Rest \ Fetched : Position[v] >= cursor'
    BY PageBounds
  <1>3. TypeOK'
    BY <1>1, <1>2 DEF TypeOK, inputs
  <1>4. ControlInv' /\ RequestInv' /\ TallyInv'
    BY <1>0 DEF ControlInv, RequestInv, TallyInv, inputs
  <1>5. CoverageInv'
    <2> SUFFICES ASSUME ~SingleFile, NEW v \in initial \cap InPrefix \cap bucket,
                        v \notin skipped \cup refused, v # current, v \notin page'
                 PROVE  Position[v] >= cursor'
      BY <1>0 DEF CoverageInv, Unseen
    <2>1. Position[v] >= cursor
      BY DEF CoverageInv, Unseen, ControlInv
    <2>2. v \in Rest \ Fetched
      BY <2>1 DEF Rest, Listed
    <2> QED
      BY <1>2, <2>2
  <1>6. RemovesOnlyWhatWasAsked' /\ RemovalsAccountedFor'
    BY <1>0 DEF RemovesOnlyWhatWasAsked, RemovalsAccountedFor
  <1> QED
    BY <1>3, <1>4, <1>5, <1>6

\* Take: the head of the page becomes an event or an open request.
LEMMA TakeInv ==
  ASSUME Inv, Take
  PROVE  Inv'
  <1> DEFINE v == First(page)
  <1> USE DEF Inv, Take
  <1>0. /\ MustRefuse' = MustRefuse /\ SingleFile' = SingleFile /\ InPrefix' = InPrefix
        /\ \A u : Allowed(u)' = Allowed(u)
    BY InputsFixed
  <1>1. v \in page /\ v \in Versions
    BY FirstIsLeast DEF TypeOK
  <1> HIDE DEF v
  <1>2. /\ page' = page \ {v}
        /\ Reject(v) \/ Preview(v) \/ Send(v)
    BY DEF v
  <1> USE DEF Reject, Preview, Send
  <1>3. TypeOK'
    BY <1>1, <1>2 DEF TypeOK, inputs
  <1>4. ControlInv'
    BY <1>0, <1>2 DEF ControlInv
  <1>5. RequestInv'
    BY <1>0, <1>1, <1>2 DEF RequestInv, ControlInv, inputs
  <1>6. TallyInv'
    BY <1>2 DEF TallyInv, ControlInv, inputs
  <1>7. CoverageInv'
    <2>1. current = NoVersion /\ ~SingleFile
      BY DEF RequestInv, ControlInv
    <2>2. \A u \in page : u \in page' \/ u = v
      BY <1>2
    <2>3. v \in InPrefix => v \in skipped' \/ v = current'
      BY <1>2
    <2>4. skipped \subseteq skipped' /\ refused \subseteq refused'
      BY <1>2
    <2> SUFFICES ASSUME outcome # "failure", NEW u \in initial \cap InPrefix \cap bucket
                 PROVE  u \in page' \/ Position[u] >= cursor \/ u \in skipped' \cup refused'
                          \/ u = current'
      BY <1>0 DEF CoverageInv, Unseen
    <2>5. u # current
      BY <2>1 DEF TypeOK
    <2> QED
      BY <2>1, <2>2, <2>3, <2>4, <2>5 DEF CoverageInv, Unseen
  <1>8. RemovesOnlyWhatWasAsked'
    BY <1>0 DEF RemovesOnlyWhatWasAsked
  <1>9. RemovalsAccountedFor'
    BY <1>2 DEF RemovalsAccountedFor, TypeOK, RequestInv, ControlInv
  <1> QED
    BY <1>3, <1>4, <1>5, <1>6, <1>7, <1>8, <1>9

\* B2Removes: the version goes, and the inputs allow it.
LEMMA RemoveInv ==
  ASSUME Inv, B2Removes
  PROVE  Inv'
  <1> USE DEF Inv, B2Removes, listing, tally
  <1>0. /\ MustRefuse' = MustRefuse /\ SingleFile' = SingleFile /\ InPrefix' = InPrefix
        /\ \A v : Allowed(v)' = Allowed(v)
    BY InputsFixed
  <1>1. TypeOK'
    BY DEF TypeOK, inputs
  <1>2. ControlInv' /\ RequestInv' /\ TallyInv'
    BY <1>0 DEF ControlInv, RequestInv, TallyInv, inputs
  <1>3. CoverageInv'
    BY <1>0 DEF CoverageInv, Unseen
  <1>4. RemovesOnlyWhatWasAsked'
    <2>1. Allowed(current)
      BY RequestAllowed DEF RequestInv, ControlInv
    <2> QED
      BY <1>0, <2>1 DEF RemovesOnlyWhatWasAsked
  <1>5. RemovalsAccountedFor'
    BY DEF RemovalsAccountedFor, ControlInv
  <1> QED
    BY <1>1, <1>2, <1>3, <1>4, <1>5

\* DeleteSucceeds and DeleteFails (when the loop goes on): the open request becomes an entry
\* or an error, never nothing.
LEMMA AnswerInv ==
  ASSUME Inv, DeleteSucceeds \/ (DeleteFails /\ pc' = "loop")
  PROVE  Inv'
  <1> USE DEF Inv, DeleteSucceeds, DeleteFails, Fail, listing
  <1>0. /\ UNCHANGED inputs
        /\ MustRefuse' = MustRefuse /\ SingleFile' = SingleFile /\ InPrefix' = InPrefix
        /\ \A v : Allowed(v)' = Allowed(v)
    BY InputsFixed
  <1>1. current \in Versions /\ pc \in {"sent", "applied"} /\ outcome = "running" /\ ~published
    BY DEF RequestInv, ControlInv
  <1>2. TypeOK'
    BY <1>1 DEF TypeOK, inputs
  <1>3. ControlInv'
    BY <1>0, <1>1 DEF ControlInv
  <1>4. RequestInv' /\ TallyInv'
    BY <1>0, <1>1 DEF RequestInv, TallyInv, inputs, ControlInv
  <1>5. CoverageInv'
    BY <1>0, <1>1 DEF CoverageInv, Unseen, TallyInv, RequestInv
  <1>6. RemovesOnlyWhatWasAsked'
    BY <1>0 DEF RemovesOnlyWhatWasAsked
  <1>7. RemovalsAccountedFor'
    BY <1>1 DEF RemovalsAccountedFor, RequestInv
  <1> QED
    BY <1>2, <1>3, <1>4, <1>5, <1>6, <1>7

\* Abort, and the other clients: the versions of the start only ever become fewer.
LEMMA EnvironmentInv ==
  ASSUME Inv, Abort \/ \E v \in Volatile : OtherUploads(v) \/ OtherDeletes(v)
  PROVE  Inv'
  <1> USE DEF Inv, Abort, OtherUploads, OtherDeletes, listing, tally
  <1>0. /\ UNCHANGED inputs
        /\ MustRefuse' = MustRefuse /\ SingleFile' = SingleFile /\ InPrefix' = InPrefix
        /\ \A v : Allowed(v)' = Allowed(v)
    BY InputsFixed
  <1>1. /\ UNCHANGED <<initial, removed, pc, listing, current, tally, published, outcome>>
        /\ initial \cap bucket' \subseteq initial \cap bucket
        /\ bucket' \in SUBSET Versions
    BY DEF TypeOK
  <1>2. TypeOK'
    <2>1. aborted' \in BOOLEAN
      BY DEF TypeOK
    <2> HIDE DEF Abort, OtherUploads, OtherDeletes
    <2> QED
      BY <1>0, <1>1, <2>1 DEF TypeOK, inputs
  <1>3. ControlInv' /\ RequestInv' /\ TallyInv'
    BY <1>0, <1>1 DEF ControlInv, RequestInv, TallyInv, inputs
  <1>4. CoverageInv'
    BY <1>0, <1>1 DEF CoverageInv, Unseen
  <1>5. RemovesOnlyWhatWasAsked' /\ RemovalsAccountedFor'
    BY <1>0, <1>1 DEF RemovesOnlyWhatWasAsked, RemovalsAccountedFor
  <1> QED
    BY <1>2, <1>3, <1>4, <1>5

\* Every step keeps the invariant.
LEMMA StepInv == Inv /\ [Next]_vars => Inv'
  <1> SUFFICES ASSUME Inv, [Next]_vars PROVE Inv'
    OBVIOUS
  <1>1. CASE Refuse \/ LookupFails \/ Cancelled \/ ListFails
    <2>1. FailStep
      BY <1>1 DEF FailStep, Refuse, LookupFails, Cancelled, ListFails
    <2> QED
      BY <2>1, FailInv
  <1>2. CASE Begin \/ Lookup \/ LoopEnds \/ Publish
    BY <1>2, ControlStepInv
  <1>3. CASE ListPage
    BY <1>3, ListPageInv
  <1>4. CASE Take
    BY <1>4, TakeInv
  <1>5. CASE B2Removes
    BY <1>5, RemoveInv
  <1>6. CASE DeleteSucceeds
    BY <1>6, AnswerInv
  <1>7. CASE DeleteFails
    <2>1. CASE pc' = "loop"
      BY <1>7, <2>1, AnswerInv
    <2>2. CASE pc' # "loop"
      <3>1. FailStep
        BY <1>7, <2>2 DEF FailStep, DeleteFails, tally
      <3> QED
        BY <3>1, FailInv
    <2> QED
      BY <2>1, <2>2
  <1>8. CASE Abort \/ \E v \in Volatile : OtherUploads(v) \/ OtherDeletes(v)
    BY <1>8, EnvironmentInv
  <1>9. CASE UNCHANGED vars
    BY <1>9, InputsFixed DEF vars, inputs, listing, tally, Inv, TypeOK, ControlInv, RequestInv,
       TallyInv, CoverageInv, Unseen, RemovesOnlyWhatWasAsked, RemovalsAccountedFor
  <1> QED
    BY <1>1, <1>2, <1>3, <1>4, <1>5, <1>6, <1>7, <1>8, <1>9 DEF Next, Step, Finished

\* The invariant holds in every reachable state.
LEMMA Invariance == Spec => []Inv
  BY InitInv, StepInv, PTL DEF Spec

---------------------------------------------------------------------------
(* What follows from the invariant. *)

\* The state always has its type.
THEOREM TypeCorrect == Spec => []TypeOK
  BY Invariance, PTL DEF Inv

\* A run removes nothing that its inputs do not ask for.
THEOREM OnlyWhatWasAsked == Spec => []RemovesOnlyWhatWasAsked
  BY Invariance, PTL DEF Inv

\* No removal is left out of the published counts, and nothing is listed that was not removed.
THEOREM Accounting == Spec => []RemovalsAccountedFor
  BY Invariance, PTL DEF Inv

\* Success of a prefix run leaves none of the versions that were there throughout it, and
\* that of a dry run previews all of them.
THEOREM CompleteSuccess == Spec => []SuccessIsComplete
  <1>1. Inv => SuccessIsComplete
    BY DEF Inv, TypeOK, ControlInv, RequestInv, TallyInv, CoverageInv, Unseen,
           SuccessIsComplete, End
  <1> QED
    BY <1>1, Invariance, PTL

\* After a cancellation a prefix run sends no further delete request.
THEOREM AbortIsFinal == Spec => NoRequestAfterAbort
  <1>1. Inv /\ [Next]_vars =>
          (aborted /\ ~SingleFile /\ pc # "sent" => pc' # "sent") \/ UNCHANGED vars
    BY DEF Inv, ControlInv, vars, Next, Step, Refuse, Begin, LookupFails, Lookup, Cancelled,
           ListPage, ListFails, Take, B2Removes, DeleteSucceeds, DeleteFails, LoopEnds, Publish,
           Fail, Abort, OtherUploads, OtherDeletes, Finished
  <1> QED
    BY <1>1, Invariance, PTL DEF Spec, NoRequestAfterAbort

---------------------------------------------------------------------------
(* No version is taken up twice. *)

\* A version is taken up once: what was taken up lies before the cursor and is on no page any
\* more.  A single-file run takes up one version, and publishes only after that.
OnceInv ==
  /\ pc \in {"start", "lookup"} \/ (SingleFile /\ pc \in {"sent", "applied"}) =>
       deleted = {} /\ skipped = {} /\ refused = {}
  /\ pc \in {"start", "lookup"} => page = {}
  /\ SingleFile /\ pc = "publish" => deleted \cup skipped # {}
  /\ \A v \in page : Position[v] < cursor
  /\ ~SingleFile =>
       \A v \in Versions :
         v \in deleted \cup skipped \cup refused \/ v = current =>
           Position[v] < cursor /\ v \notin page

LEMMA InitOnce == Init => OnceInv
  BY DEF Init, OnceInv

\* Every step keeps it: a page begins where the versions taken up end.
LEMMA StepOnce == Inv /\ OnceInv /\ [Next]_vars => OnceInv'
  <1> SUFFICES ASSUME Inv, OnceInv, [Next]_vars PROVE OnceInv'
    OBVIOUS
  <1>0. /\ TypeOK /\ ControlInv /\ RequestInv
        /\ page \subseteq Versions /\ current \in Versions \cup {NoVersion}
    BY DEF Inv, TypeOK
  <1>1. SingleFile' = SingleFile
    <2>1. UNCHANGED inputs
      BY DEF Next, Step, Refuse, Begin, LookupFails, Lookup, Cancelled, ListPage, ListFails, Take,
             B2Removes, DeleteSucceeds, DeleteFails, LoopEnds, Publish, Abort, OtherUploads,
             OtherDeletes, Finished, vars
    <2> QED
      BY <2>1, InputsFixed
  <1>2. CASE Refuse \/ LookupFails \/ Cancelled \/ ListFails
    <2>1. UNCHANGED <<page, cursor, current, deleted, skipped, refused>> /\ pc' = "done"
      BY <1>2 DEF Refuse, LookupFails, Cancelled, ListFails, Fail, listing, tally
    <2> QED
      BY <1>1, <2>1 DEF OnceInv
  <1>3. CASE Begin
    <2>1. UNCHANGED <<page, cursor, current, deleted, skipped, refused>>
      BY <1>3 DEF Begin, listing, tally
    <2>2. pc = "start" /\ pc' \in {"lookup", "loop"}
      BY <1>3 DEF Begin
    <2> QED
      BY <1>1, <2>1, <2>2 DEF OnceInv
  <1>4. CASE Lookup
    <2>1. /\ SingleFile /\ pc = "lookup" /\ UNCHANGED <<page, cursor, deleted, refused>>
          /\ \/ pc' = "publish" /\ skipped' # {}
             \/ pc' = "sent" /\ skipped' = skipped
      BY <1>0, <1>4 DEF Lookup, ControlInv, listing
    <2> QED
      BY <1>1, <2>1 DEF OnceInv
  <1>5. CASE ListPage
    <2>1. /\ pc = "loop" /\ UNCHANGED <<pc, current, deleted, skipped, refused>> /\ page' = Fetched
          /\ ~SingleFile
      BY <1>0, <1>5 DEF ListPage, tally, ControlInv
    <2>2. /\ cursor \in Nat /\ cursor' \in Nat /\ cursor < cursor' /\ Fetched \in SUBSET Versions
          /\ \A v \in Fetched : cursor <= Position[v] /\ Position[v] < cursor'
      BY <1>0, <1>5, PageBounds DEF TypeOK, End
    <2>3. \A v \in Versions : Position[v] \in Nat
      OBVIOUS
    <2>4. \A v \in Versions : Position[v] < cursor => Position[v] < cursor' /\ v \notin Fetched
      BY <2>2, <2>3
    <2> QED
      BY <1>1, <2>1, <2>2, <2>4 DEF OnceInv
  <1>6. CASE Take
    <2>1. First(page) \in page
      BY <1>0, <1>6, FirstIsLeast DEF Take
    <2>2. /\ pc = "loop" /\ pc' \in {"loop", "sent"} /\ ~SingleFile /\ current = NoVersion
          /\ page' = page \ {First(page)} /\ UNCHANGED <<cursor, deleted>>
          /\ skipped' \subseteq skipped \cup {First(page)}
          /\ refused' \subseteq refused \cup {First(page)}
          /\ current' \in {current, First(page)}
      BY <1>0, <1>6 DEF Take, Reject, Preview, Send, ControlInv, RequestInv
    <2>3. Position[First(page)] < cursor
      BY <2>1 DEF OnceInv
    <2> QED
      BY <1>0, <1>1, <2>1, <2>2, <2>3 DEF OnceInv
  <1>7. CASE B2Removes
    <2>1. UNCHANGED <<page, cursor, current, deleted, skipped, refused>>
      BY <1>7 DEF B2Removes, listing, tally
    <2>2. pc = "sent" /\ pc' = "applied"
      BY <1>7 DEF B2Removes
    <2> QED
      BY <1>1, <2>1, <2>2 DEF OnceInv
  <1>8. CASE DeleteSucceeds
    <2>1. /\ pc = "applied" /\ UNCHANGED <<page, cursor, skipped, refused>>
          /\ pc' = (IF SingleFile THEN "publish" ELSE "loop")
          /\ deleted' = deleted \cup {current} /\ current' = NoVersion
      BY <1>8 DEF DeleteSucceeds, listing
    <2>2. NoVersion \notin Versions
      OBVIOUS
    <2> QED
      BY <1>1, <2>1, <2>2 DEF OnceInv
  <1>9. CASE DeleteFails
    <2>1. /\ UNCHANGED <<page, cursor, deleted, skipped>> /\ current' = NoVersion
          /\ \/ pc' = "done" /\ refused' = refused
             \/ pc' = "loop" /\ ~SingleFile /\ refused' = refused \cup {current}
      BY <1>9 DEF DeleteFails, Fail, listing
    <2>2. NoVersion \notin Versions
      OBVIOUS
    <2> QED
      BY <1>1, <2>1, <2>2 DEF OnceInv
  <1>10. CASE LoopEnds \/ Publish
    <2>1. UNCHANGED <<page, cursor, current, deleted, skipped, refused>>
      BY <1>10 DEF LoopEnds, Publish, listing, tally
    <2>2. pc' \in {"publish", "done"} /\ (pc' = "publish" => ~SingleFile)
      BY <1>0, <1>10 DEF LoopEnds, Publish, ControlInv
    <2> QED
      BY <1>1, <2>1, <2>2 DEF OnceInv
  <1>11. CASE Abort \/ (\E v \in Volatile : OtherUploads(v) \/ OtherDeletes(v)) \/ UNCHANGED vars
    <2>1. UNCHANGED <<pc, page, cursor, current, deleted, skipped, refused>>
      BY <1>11 DEF Abort, OtherUploads, OtherDeletes, listing, tally, vars
    <2> QED
      BY <1>1, <2>1 DEF OnceInv
  <1> QED
    BY <1>2, <1>3, <1>4, <1>5, <1>6, <1>7, <1>8, <1>9, <1>10, <1>11 DEF Next, Step, Finished

LEMMA OnceInvariance == Spec => []OnceInv
  BY InitOnce, StepOnce, Invariance, PTL DEF Spec

---------------------------------------------------------------------------
(* Refinement: every step is a step of DeletionPromise, or none. *)

LEMMA PromiseInit == Init => Promise!Init
  <1> SUFFICES ASSUME Init PROVE Promise!Init
    OBVIOUS
  <1>1. Asked \in SUBSET Versions /\ (IF bypassGovernance THEN {} ELSE Locked) \in SUBSET Versions
    BY DEF Asked, InPrefix
  <1>2. (~SingleFile) \in BOOLEAN
    BY DEF SingleFile
  <1> QED
    BY <1>1, <1>2 DEF Init, Promise!Init

\* Steps that leave the inputs alone leave what was asked for alone.
LEMMA AskedFixed ==
  ASSUME UNCHANGED inputs
  PROVE  UNCHANGED Promise!inputs /\ UNCHANGED <<SingleFile, Asked>>
  <1>1. Asked' = Asked /\ SingleFile' = SingleFile
    BY InputsFixed DEF Asked
  <1> QED
    BY <1>1 DEF Promise!inputs, inputs

\* What a run past its guards takes up has been asked for exactly when it is in the prefix.
LEMMA AskedIs ==
  ASSUME ~MustRefuse
  PROVE  /\ ~SingleFile => Asked = InPrefix
         /\ SingleFile => Asked = {v \in Versions : PlaceOf[v] = "exact"}
  BY DEF Asked

\* The ways to fail, and a lost answer.
LEMMA PromiseFail ==
  ASSUME Inv, Refuse \/ LookupFails \/ Cancelled \/ ListFails \/ DeleteFails
  PROVE  Promise!Next
  <1> USE DEF Inv
  <1>1. UNCHANGED inputs /\ aborted' = aborted /\ UNCHANGED <<bucket, initial, removed, published>>
    BY DEF Refuse, LookupFails, Cancelled, ListFails, DeleteFails
  <1>2. UNCHANGED Promise!inputs /\ UNCHANGED SingleFile
    BY <1>1, AskedFixed
  <1>3. outcome = "running" /\ UNCHANGED Promise!store
    BY <1>1 DEF ControlInv, Refuse, LookupFails, Cancelled, ListFails, DeleteFails, Promise!store
  <1>4. CASE DeleteFails /\ pc' = "loop"
    <2>1. /\ refused' = refused \cup {current} /\ current' = NoVersion /\ current \in Versions
          /\ UNCHANGED <<deleted, skipped, outcome>>
      BY <1>4 DEF DeleteFails, Fail, RequestInv
    <2>2. Promise!Lose
      BY <1>1, <1>2, <1>3, <2>1 DEF Promise!Lose
    <2> QED
      BY <2>2 DEF Promise!Next
  <1>5. CASE ~(DeleteFails /\ pc' = "loop")
    <2>1. outcome' = "failure" /\ current' = NoVersion /\ UNCHANGED <<deleted, skipped, refused>>
      BY <1>5 DEF Refuse, LookupFails, Cancelled, ListFails, DeleteFails, Fail, RequestInv, tally
    <2>2. Promise!Abandon
      BY <1>1, <1>2, <1>3, <2>1 DEF Promise!Abandon, Promise!report
    <2> QED
      BY <2>2 DEF Promise!Next
  <1> QED
    BY <1>4, <1>5

\* Lookup and Take: a version is taken up that was not before.
LEMMA PromiseTake ==
  ASSUME Inv, OnceInv, Lookup \/ Take
  PROVE  Promise!Next
  <1> USE DEF Inv
  <1>1. /\ UNCHANGED inputs /\ aborted' = aborted
        /\ UNCHANGED <<bucket, initial, removed, deleted, published, outcome>>
    BY DEF Lookup, Take
  <1>2. UNCHANGED Promise!inputs /\ UNCHANGED SingleFile
    BY <1>1, AskedFixed
  <1>3. UNCHANGED Promise!store /\ outcome = "running" /\ current = NoVersion /\ ~MustRefuse
    BY <1>1 DEF Promise!store, ControlInv, RequestInv, Lookup, Take
  <1>4. \E v \in Versions :
          /\ v \notin deleted \cup skipped \cup refused
          /\ ~SingleFile \/ (deleted \cup skipped \cup refused = {})
          /\ ~(aborted /\ ~SingleFile)
          /\ \/ v \in Asked /\ ~dryRun /\ current' = v /\ UNCHANGED <<skipped, refused>>
             \/ v \in Asked /\ dryRun /\ skipped' = skipped \cup {v} /\ UNCHANGED <<current, refused>>
             \/ v \notin Asked /\ refused' = refused \cup {v} /\ UNCHANGED <<current, skipped>>
    <2>1. CASE Lookup
      <3>1. /\ SingleFile /\ deleted = {} /\ skipped = {} /\ refused = {} /\ refused' = refused
            /\ \E v \in FoundByName :
                  \/ dryRun /\ skipped' = {v} /\ UNCHANGED current
                  \/ ~dryRun /\ current' = v /\ UNCHANGED skipped
        BY <2>1 DEF Lookup, ControlInv, OnceInv
      <3>2. \A v \in FoundByName : v \in Versions /\ v \in Asked
        BY <1>3, <3>1, FoundIsExact, AskedIs
      <3> QED
        BY <3>1, <3>2
    <2>2. CASE Take
      <3>1. page # {} /\ page \in SUBSET Versions /\ ~SingleFile /\ ~aborted
        BY <2>2 DEF Take, TypeOK, ControlInv
      <3>2. First(page) \in page /\ First(page) \in Versions
        BY <3>1, FirstIsLeast
      <3>3. First(page) \notin deleted \cup skipped \cup refused
        BY <3>1, <3>2 DEF OnceInv
      <3>4. Asked = InPrefix
        BY <1>3, <3>1, AskedIs
      <3>5. Reject(First(page)) \/ Preview(First(page)) \/ Send(First(page))
        BY <2>2 DEF Take
      <3> QED
        BY <3>1, <3>2, <3>3, <3>4, <3>5 DEF Reject, Preview, Send
    <2> QED
      BY <2>1, <2>2
  <1>5. PICK v \in Versions :
          /\ v \notin deleted \cup skipped \cup refused
          /\ ~SingleFile \/ (deleted \cup skipped \cup refused = {})
          /\ ~(aborted /\ ~SingleFile)
          /\ \/ v \in Asked /\ ~dryRun /\ current' = v /\ UNCHANGED <<skipped, refused>>
             \/ v \in Asked /\ dryRun /\ skipped' = skipped \cup {v} /\ UNCHANGED <<current, refused>>
             \/ v \notin Asked /\ refused' = refused \cup {v} /\ UNCHANGED <<current, skipped>>
    BY <1>4
  <1>6. Promise!Free(v)
    BY <1>3, <1>5 DEF Promise!Free, Promise!Taken
  <1>7. Promise!Request(v) \/ Promise!Preview(v) \/ Promise!Reject(v)
    BY <1>1, <1>2, <1>3, <1>5, <1>6
       DEF Promise!Request, Promise!Preview, Promise!Reject, Promise!report
  <1> QED
    BY <1>7 DEF Promise!Next

\* B2Removes and DeleteSucceeds: the request under way takes effect and is answered.
LEMMA PromiseAnswer ==
  ASSUME Inv, B2Removes \/ DeleteSucceeds
  PROVE  Promise!Next
  <1> USE DEF Inv
  <1>1. UNCHANGED inputs /\ UNCHANGED <<initial, aborted, skipped, refused, published, outcome>>
    BY DEF B2Removes, DeleteSucceeds, tally
  <1>2. UNCHANGED Promise!inputs /\ UNCHANGED SingleFile
    BY <1>1, AskedFixed
  <1>3. outcome = "running"
    BY DEF ControlInv, B2Removes, DeleteSucceeds
  <1>4. CASE B2Removes
    <2>1. /\ current \in bucket /\ (current \in Locked => bypassGovernance)
          /\ bucket' = bucket \ {current} /\ removed' = removed \cup {current}
          /\ UNCHANGED <<current, deleted>>
      BY <1>4 DEF B2Removes, tally
    <2>2. Promise!Remove
      BY <1>1, <1>2, <1>3, <2>1 DEF Promise!Remove, Promise!report
    <2> QED
      BY <2>2 DEF Promise!Next
  <1>5. CASE DeleteSucceeds
    <2>1. /\ current \in removed /\ deleted' = deleted \cup {current} /\ current' = NoVersion
          /\ UNCHANGED <<bucket, removed>>
      BY <1>5 DEF DeleteSucceeds, RequestInv
    <2>2. Promise!Acknowledge
      BY <1>1, <1>2, <1>3, <2>1 DEF Promise!Acknowledge, Promise!store
    <2> QED
      BY <2>2 DEF Promise!Next
  <1> QED
    BY <1>4, <1>5

\* Publish: a success has dealt with everything.
LEMMA PromisePublish ==
  ASSUME Inv, OnceInv, Publish
  PROVE  Promise!Next
  <1> USE DEF Inv
  <1>1. /\ UNCHANGED inputs /\ UNCHANGED <<bucket, initial, removed, aborted, current, tally>>
        /\ published' = TRUE /\ outcome' = (IF refused # {} THEN "failure" ELSE "success")
        /\ pc = "publish"
    BY DEF Publish
  <1>2. UNCHANGED Promise!inputs /\ UNCHANGED SingleFile
    BY <1>1, AskedFixed
  <1>3. outcome = "running" /\ current = NoVersion /\ ~MustRefuse
    BY <1>1 DEF ControlInv, RequestInv
  <1>4. refused = {} =>
          IF ~SingleFile
          THEN Asked \cap (initial \cap bucket) \subseteq (IF dryRun THEN skipped ELSE {})
          ELSE deleted \cup skipped # {}
    <2>1. CASE ~SingleFile
      <3> SUFFICES ASSUME refused = {}, NEW v \in initial \cap InPrefix \cap bucket
                   PROVE  v \in skipped /\ dryRun
        BY <1>3, <2>1, AskedIs
      <3>1. page = {} /\ cursor = End
        BY <1>1, <2>1 DEF ControlInv
      <3>2. v \in Versions /\ ~(Position[v] >= End)
        BY DEF TypeOK, End
      <3>3. v \in skipped
        BY <1>3, <2>1, <3>1, <3>2 DEF CoverageInv, Unseen, TypeOK
      <3> QED
        BY <3>3 DEF TallyInv, TypeOK
    <2>2. CASE SingleFile
      BY <1>1, <2>2 DEF OnceInv
    <2> QED
      BY <2>1, <2>2
  <1>5. Promise!Conclude
    BY <1>1, <1>2, <1>3, <1>4 DEF Promise!Conclude, Promise!store, Promise!report, tally
  <1> QED
    BY <1>5 DEF Promise!Next

\* Abort and the other clients: a single-file run does not notice the signal.
LEMMA PromiseEnvironment ==
  ASSUME Inv, Abort \/ \E v \in Volatile : OtherUploads(v) \/ OtherDeletes(v)
  PROVE  [Promise!Next]_(Promise!vars)
  <1> USE DEF Inv
  <1>1. UNCHANGED inputs /\ UNCHANGED <<initial, removed, current, tally, published, outcome>>
    BY DEF Abort, OtherUploads, OtherDeletes
  <1>2. UNCHANGED Promise!inputs /\ UNCHANGED SingleFile
    BY <1>1, AskedFixed
  <1>3. outcome = "running" /\ UNCHANGED Promise!report
    BY <1>1 DEF ControlInv, Abort, OtherUploads, OtherDeletes, Promise!report, tally
  <1>4. CASE Abort
    <2>1. ~aborted /\ aborted' = TRUE /\ UNCHANGED bucket /\ UNCHANGED Promise!store
      BY <1>1, <1>4 DEF Abort, Promise!store
    <2>2. CASE SingleFile
      BY <1>1, <1>2, <1>3, <2>1, <2>2 DEF Promise!vars
    <2>3. CASE ~SingleFile
      <3>1. Promise!Stop
        BY <1>1, <1>2, <1>3, <2>1, <2>3 DEF Promise!Stop
      <3> QED
        BY <3>1 DEF Promise!Next
    <2> QED
      BY <2>2, <2>3
  <1>5. CASE \E v \in Volatile : OtherUploads(v) \/ OtherDeletes(v)
    <2>1. /\ bucket' \in SUBSET Versions /\ UNCHANGED aborted
          /\ initial \cap bucket' = (initial \cap bucket) \cap bucket'
      BY <1>5 DEF OtherUploads, OtherDeletes, TypeOK
    <2>2. Promise!OthersChange
      BY <1>1, <1>2, <1>3, <2>1 DEF Promise!OthersChange
    <2> QED
      BY <2>2 DEF Promise!Next
  <1> QED
    BY <1>4, <1>5

\* Every step of the commands is a step of the promise or leaves its variables alone.
LEMMA PromiseStep == Inv /\ OnceInv /\ [Next]_vars => [Promise!Next]_(Promise!vars)
  <1> SUFFICES ASSUME Inv, OnceInv, [Next]_vars PROVE [Promise!Next]_(Promise!vars)
    OBVIOUS
  <1>1. CASE Refuse \/ LookupFails \/ Cancelled \/ ListFails \/ DeleteFails
    BY <1>1, PromiseFail
  <1>2. CASE Lookup \/ Take
    BY <1>2, PromiseTake
  <1>3. CASE B2Removes \/ DeleteSucceeds
    BY <1>3, PromiseAnswer
  <1>4. CASE Publish
    BY <1>4, PromisePublish
  <1>5. CASE Abort \/ \E v \in Volatile : OtherUploads(v) \/ OtherDeletes(v)
    BY <1>5, PromiseEnvironment
  <1>6. CASE Begin \/ ListPage \/ LoopEnds \/ UNCHANGED vars
    <2>1. UNCHANGED inputs /\ UNCHANGED <<bucket, initial, removed, aborted, current, tally,
                                         published, outcome>>
      BY <1>6 DEF Begin, ListPage, LoopEnds, vars
    <2>2. UNCHANGED Promise!inputs /\ UNCHANGED SingleFile
      BY <2>1, AskedFixed
    <2> QED
      BY <2>1, <2>2 DEF Promise!vars, Promise!store, Promise!report, tally
  <1> QED
    BY <1>1, <1>2, <1>3, <1>4, <1>5, <1>6 DEF Next, Step, Finished

\* delete and purge implement DeletionPromise, for every set of versions, every listing order,
\* every page size and every other client.
THEOREM Refinement == Spec => ImplementsPromise
  <1> QED
    BY Invariance, OnceInvariance, PromiseInit, PromiseStep, PTL
       DEF Spec, ImplementsPromise, Promise!Spec

---------------------------------------------------------------------------
(* The work ahead of a run. *)

\* What is left of the listing, of the page and of the version in hand, as a number that each
\* step of the command consumes.
Phases == [start |-> 6, lookup |-> 5, sent |-> 4, applied |-> 3, loop |-> 2, publish |-> 1,
           done |-> 0]
Ahead(c, S) == 2 * (End - c) + Cardinality(S)
Work == 4 * Ahead(cursor, page) + Phases[pc]

WorkBounded  == Work \in 0 .. 8 * LastPosition + 6
WorkConsumed == [][Work' <= Work /\ (Step \/ B2Removes => Work' < Work)]_vars

\* The versions of a page can be counted, so what is ahead is a number.
LEMMA AheadIsNumber ==
  ASSUME NEW c \in 1 .. End, NEW S \in SUBSET Versions
  PROVE  IsFiniteSet(S) /\ Cardinality(S) \in Nat /\ Ahead(c, S) \in Nat
  <1>1. End \in Nat /\ 1 \in 1 .. End /\ End \in 1 .. End /\ 1 <= End
    BY DEF End
  <1>2. \A v \in S : 1 <= Position[v] /\ Position[v] < End
    BY DEF End
  <1>3. IsFiniteSet(S) /\ Cardinality(S) \in Nat
    BY <1>1, <1>2, CountVersions
  <1>4. End - c \in Nat
    BY <1>1
  <1> QED
    BY <1>3, <1>4 DEF Ahead

\* A page costs less than the positions it moves the cursor over.
LEMMA FewerAhead ==
  ASSUME NEW e \in Int, NEW c \in Int, NEW d \in Int, NEW m \in Nat, NEW n \in Nat,
         c < d, n <= d - c
  PROVE  2 * (e - d) + n < 2 * (e - c) + m
  OBVIOUS

\* Every step of the command, and every removal, is paid for; nothing adds to the work.
LEMMA StepWork ==
  ASSUME TypeOK, TypeOK', [Next]_vars
  PROVE  /\ Work \in Nat /\ Work' \in Nat /\ Work' <= Work
         /\ Step \/ B2Removes => Work' < Work
  <1> DEFINE Spent == Work' < Work
  <1>1. /\ cursor \in 1 .. End /\ cursor' \in 1 .. End /\ End \in Nat
        /\ page \in SUBSET Versions /\ page' \in SUBSET Versions
        /\ Phases[pc] \in 0 .. 6 /\ Phases[pc'] \in 0 .. 6
    BY DEF TypeOK, End, Phases
  <1>2. /\ Ahead(cursor, page) \in Nat /\ Ahead(cursor', page') \in Nat
        /\ Cardinality(page) \in Nat /\ Cardinality(page') \in Nat /\ IsFiniteSet(page)
    BY <1>1, AheadIsNumber
  <1>3. /\ Work = 4 * Ahead(cursor, page) + Phases[pc]
        /\ Work' = 4 * Ahead(cursor', page') + Phases[pc']
    BY DEF Work, Ahead, Phases, End
  <1>4. Work \in Nat /\ Work' \in Nat
    BY <1>1, <1>2, <1>3
  <1>5. ASSUME Ahead(cursor', page') < Ahead(cursor, page), Phases[pc'] <= Phases[pc] + 2
        PROVE  Spent
    BY <1>1, <1>2, <1>3, <1>5
  <1>6. ASSUME UNCHANGED <<page, cursor>>, Phases[pc'] < Phases[pc]
        PROVE  Spent
    BY <1>1, <1>2, <1>3, <1>6
  <1>7. ASSUME ListPage PROVE Spent
    <2>1. page = {} /\ page' = Fetched /\ pc' = pc
      BY <1>7 DEF ListPage
    <2>2. Cardinality(page) = 0
      BY <2>1, FS_EmptySet
    <2>3. cursor < cursor'
      BY <1>7, PageBounds
    <2>4. Cardinality(page') <= cursor' - cursor
      BY <1>1, <1>7, <2>1, <2>3, PageBounds, CountVersions
    <2>5. Ahead(cursor', page') < Ahead(cursor, page)
      <3>1. cursor \in Int /\ cursor' \in Int /\ End \in Int
        BY <1>1
      <3>2. 2 * (End - cursor') + Cardinality(page') < 2 * (End - cursor) + Cardinality(page)
        BY <1>2, <2>2, <2>3, <2>4, <3>1, FewerAhead
      <3> QED
        BY <3>2 DEF Ahead
    <2> QED
      BY <1>1, <1>5, <2>1, <2>5
  <1>8. ASSUME Take PROVE Spent
    <2>1. page # {} /\ page' = page \ {First(page)} /\ cursor' = cursor
          /\ pc = "loop" /\ pc' \in {"loop", "sent"}
      BY <1>8 DEF Take, Reject, Preview, Send
    <2>2. First(page) \in page
      BY <1>1, <2>1, FirstIsLeast
    <2>3. Cardinality(page') = Cardinality(page) - 1
      BY <1>2, <2>1, <2>2, FS_RemoveElement
    <2>4. Ahead(cursor', page') < Ahead(cursor, page)
      <3>1. End - cursor \in Nat
        BY <1>1
      <3> QED
        BY <1>2, <2>1, <2>3, <3>1 DEF Ahead
    <2>5. Phases[pc'] <= Phases[pc] + 2
      BY <2>1 DEF Phases
    <2> QED
      BY <1>5, <2>4, <2>5
  <1>9. ASSUME \/ Refuse \/ Begin \/ LookupFails \/ Lookup \/ Cancelled \/ ListFails \/ B2Removes
               \/ DeleteSucceeds \/ DeleteFails \/ LoopEnds \/ Publish
        PROVE  Spent
    <2>1. UNCHANGED <<page, cursor>>
      BY <1>9 DEF Refuse, Begin, LookupFails, Lookup, Cancelled, ListFails, B2Removes,
                  DeleteSucceeds, DeleteFails, LoopEnds, Publish, listing
    <2>2. Phases[pc'] < Phases[pc]
      BY <1>9 DEF Refuse, Begin, LookupFails, Lookup, Cancelled, ListFails, B2Removes,
                  DeleteSucceeds, DeleteFails, LoopEnds, Publish, Fail, Phases
    <2> QED
      BY <1>6, <2>1, <2>2
  <1>10. Step \/ B2Removes => Spent
    BY <1>7, <1>8, <1>9 DEF Step
  <1>11. CASE Abort \/ (\E v \in Volatile : OtherUploads(v) \/ OtherDeletes(v)) \/ UNCHANGED vars
    <2>1. UNCHANGED <<page, cursor, pc>>
      BY <1>11 DEF Abort, OtherUploads, OtherDeletes, vars, listing
    <2>2. Work' = Work
      BY <1>3, <2>1
    <2> QED
      BY <1>4, <1>10, <2>2
  <1>12. CASE Step \/ B2Removes
    BY <1>4, <1>10, <1>12
  <1> QED
    BY <1>4, <1>11, <1>12 DEF Next, Finished

\* No run of either command takes more than 8 * LastPosition + 6 steps, a request's effect
\* included, whatever other clients upload and delete meanwhile and wherever pages end: each
\* takes a piece of the work that is there at first, and nothing ever adds to it.
THEOREM FiniteWork == Spec => []WorkBounded /\ WorkConsumed
  <1> DEFINE Consumed == Work' <= Work /\ (Step \/ B2Removes => Work' < Work)
  <1>1. ASSUME Init PROVE WorkBounded
    <2>1. cursor = 1 /\ page = {} /\ pc = "start"
      BY <1>1 DEF Init
    <2>2. Cardinality(page) = 0
      BY <2>1, FS_EmptySet
    <2>3. Phases[pc] = 6 /\ End - cursor = LastPosition
      BY <2>1 DEF Phases, End
    <2> QED
      BY <2>2, <2>3 DEF Work, Ahead, WorkBounded
  <1>2. TypeOK /\ TypeOK' /\ [Next]_vars => Consumed
    BY StepWork
  <1>3. ASSUME WorkBounded, TypeOK, TypeOK', [Next]_vars PROVE WorkBounded'
    BY <1>3, StepWork DEF WorkBounded
  <1> HIDE DEF Consumed
  <1>4. Spec => []WorkBounded
    BY <1>1, <1>3, TypeCorrect, PTL DEF Spec
  <1>5. Spec => [][Consumed]_vars
    BY <1>2, TypeCorrect, PTL DEF Spec
  <1> QED
    BY <1>4, <1>5 DEF Consumed, WorkConsumed
=============================================================================

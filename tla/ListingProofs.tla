---------------------------- MODULE ListingProofs ----------------------------
(***************************************************************************)
(* Proofs about Listing: its types, and that the answer is true of the     *)
(* names, for any number of them, any pages and any changes meanwhile.     *)
(*                                                                         *)
(* The cursor splits the names: whatever was visible all the time and lies *)
(* before it is in the result, and nothing in the result lies behind it    *)
(* (PagesInv).  Only the look-ahead moves the cursor past a name it does   *)
(* not take, and then the result says that it is truncated (AnswerInv).    *)
(*                                                                         *)
(* The bytes counted while summary-json is serialized are those of the     *)
(* text so far (TextInv); what a set of entries adds up to grows by each   *)
(* entry's own size, by induction over the names (EntriesGrow).            *)
(***************************************************************************)
EXTENDS Listing, FiniteSetTheorems, WellFoundedInduction, TLAPS

Read == {"report", "serializing", "preview"}

---------------------------------------------------------------------------
(* The inductive invariant. *)

PagesInv ==
  /\ always \subseteq visible /\ visible \subseteq ever
  /\ mode # "presignOne" =>
       /\ files \subseteq ever /\ count = Cardinality(files)
       /\ \A g \in files : g < cursor
       /\ \A f \in always : f < cursor => f \in files \/ truncated
       /\ \A f \in always \ files, g \in files : g < f

AnswerInv ==
  /\ pc = "start" => files = {} /\ count = 0 /\ cursor = 1
  /\ pc \in {"start", "paging"} => count < maxResults
  /\ pc \in {"paging", "lookahead"} => mode # "presignOne" /\ cursor # End
  /\ pc \in {"start", "paging", "lookahead"} => ~truncated /\ outcome = "running"
  /\ pc = "lookahead" => mode = "list" /\ count = maxResults
  /\ Answered /\ mode # "presignOne" /\ ~truncated =>
       cursor = End \/ (mode = "presign" /\ count = maxResults)
  /\ truncated => /\ mode = "list" /\ count = maxResults
                  /\ \E f \in ever \ files : \A g \in files : g < f

Inv == TypeOK /\ PagesInv /\ AnswerInv

\* The text under way, and the one that was published: the first entries of the result, in
\* order, and their length.  A preview is only begun when the whole text is too long, and
\* only ends at one of its limits.
TextInv ==
  /\ outcome = "running" <=> pc # "done"
  /\ summary # "unset" <=> outcome = "success"
  /\ pc \in {"serializing", "preview"} \/ outcome = "success" =>
       /\ part \subseteq files /\ todo = files \ part
       /\ \A f \in part, g \in todo : f < g
       /\ bytes = TextBytes(part)
  /\ pc = "preview" \/ summary = "empty" =>
       TextBytes(files) > MaxBytes /\ Cardinality(part) <= MaxPreview
  /\ summary = "complete" => todo = {}
  /\ summary = "empty" =>
       todo = {} \/ Cardinality(part) = MaxPreview \/ ~Fits(First(todo))

---------------------------------------------------------------------------
(* Pages. *)

\* A set of names is finite and can be counted.
LEMMA CountNames ==
  ASSUME NEW S \in SUBSET Name
  PROVE  IsFiniteSet(S) /\ Cardinality(S) \in Nat
  <1>1. IsFiniteSet(Name)
    BY ListingAssumption, FS_Interval DEF Name
  <1> QED
    BY <1>1, FS_Subset, FS_CardinalityType

\* The names of a page are behind those of the pages before it: the counts add up.
LEMMA CountPage ==
  ASSUME NEW S \in SUBSET Name, NEW T \in SUBSET Name, S \cap T = {}
  PROVE  Cardinality(S \cup T) = Cardinality(S) + Cardinality(T)
  <1>1. IsFiniteSet(S) /\ IsFiniteSet(T)
    BY CountNames
  <1>2. Cardinality(S \cap T) = 0
    BY FS_EmptySet
  <1>3. Cardinality(S) \in Nat /\ Cardinality(T) \in Nat
    BY CountNames
  <1>4. Cardinality(S \cup T) = Cardinality(S) + Cardinality(T) - Cardinality(S \cap T)
    BY <1>1, FS_Union
  <1> QED
    BY <1>2, <1>3, <1>4

\* A non-empty set of numbers has a least one.
LEMMA LeastNumber ==
  ASSUME NEW S, S \subseteq Nat, S # {}
  PROVE  \E x \in S : \A y \in S : x <= y
  <1>1. IsWellFoundedOn(OpToRel(<, Nat), Nat)
    BY NatLessThanWellFounded
  <1>2. PICK x \in S : \A y \in S : ~ (<<y, x>> \in OpToRel(<, Nat))
    BY <1>1, WFMin
  <1>3. \A y \in S : ~ (y < x)
    BY <1>2 DEF OpToRel
  <1> QED
    BY <1>3

\* A non-empty set of names has a first one, which First names.
LEMMA FirstIsMember ==
  ASSUME NEW S \in SUBSET Name, S # {}
  PROVE  First(S) \in S /\ \A g \in S : First(S) <= g
  <1>1. S \subseteq Nat
    BY ListingAssumption DEF Name
  <1>2. \E x \in S : \A y \in S : x <= y
    BY <1>1, LeastNumber
  <1> QED
    BY <1>2 DEF First

---------------------------------------------------------------------------
(* The invariant holds at first and is kept by every step. *)

LEMMA InitInv == Init => Inv
  <1> SUFFICES ASSUME Init PROVE Inv
    OBVIOUS
  <1>1. Cardinality({}) = 0
    BY FS_EmptySet
  <1>2. maxResults \in Nat /\ maxResults > 0 /\ 1 \in 1 .. End /\ 0 \in 0 .. maxResults
    BY ListingAssumption DEF Init, End
  <1>3. 0 \in 0 .. MaxBytes
    BY ListingAssumption
  <1>4. TypeOK
    BY <1>2, <1>3 DEF Init, TypeOK, Reading
  <1>5. PagesInv
    <2>1. files = {} /\ count = 0 /\ cursor = 1 /\ always = visible /\ ever = visible
      BY DEF Init
    <2>2. \A f \in always : ~(f < 1)
      BY <1>4, ListingAssumption DEF TypeOK, Name
    <2> QED
      BY <1>1, <2>1, <2>2 DEF PagesInv
  <1>6. AnswerInv
    BY <1>2 DEF Init, AnswerInv, Answered
  <1> QED
    BY <1>4, <1>5, <1>6 DEF Inv

\* A page read keeps the invariant: its names lie between the old cursor and the new one.
LEMMA PageStep ==
  ASSUME Inv, ReadPage
  PROVE  Inv'
  <1> USE DEF Inv
  <1>1. PICK stop \in Stops(PageSizeLeft) :
          /\ files' = files \cup PageTo(stop)
          /\ count' = count + Cardinality(PageTo(stop))
          /\ cursor' = stop
          /\ pc' = AfterPage(stop, count')
    BY DEF ReadPage
  <1> DEFINE page == PageTo(stop)
  <1>2. /\ pc = "paging" /\ mode # "presignOne" /\ ~truncated /\ count < maxResults
        /\ outcome = "running"
        /\ UNCHANGED <<mode, maxResults, visible, always, ever, truncated, todo, part, bytes,
                       summary, outcome>>
    BY DEF ReadPage, inputs, bucket, text, AnswerInv
  <1>3. /\ MaxName \in Nat /\ End \in Nat /\ PageSize \in Nat /\ cursor \in Nat
        /\ maxResults \in Nat /\ count \in Nat
    BY ListingAssumption DEF TypeOK, End
  <1>4. stop \in Nat /\ cursor < stop /\ stop <= End /\ Cardinality(page) <= PageSizeLeft
    BY <1>3 DEF Stops
  <1>5. page \in SUBSET Name /\ page \subseteq visible /\ \A f \in page : cursor <= f /\ f < stop
    BY DEF PageTo, TypeOK
  <1>6. Cardinality(page) \in Nat
    BY <1>5, CountNames
  <1>7. count' \in Nat /\ count' <= maxResults
    BY <1>1, <1>2, <1>3, <1>4, <1>6 DEF PageSizeLeft, Least
  <1>8. pc' \in {"report", "paging", "lookahead"}
    BY <1>1 DEF AfterPage
  <1>9. \A f \in Name : f \in Nat
    BY ListingAssumption DEF Name
  <1>10. TypeOK'
    <2>1. cursor' \in 1 .. End
      BY <1>1, <1>3, <1>4
    <2>2. files' \in SUBSET Name /\ count' \in 0 .. maxResults
      BY <1>1, <1>3, <1>5, <1>7 DEF TypeOK
    <2> QED
      BY <1>2, <1>8, <2>1, <2>2 DEF TypeOK, Reading
  <1>11. PagesInv'
    <2>1. files' \subseteq ever'
      BY <1>1, <1>2, <1>5 DEF PagesInv
    <2>2. count' = Cardinality(files')
      <3>1. files \cap page = {} /\ files \in SUBSET Name
        BY <1>2, <1>3, <1>5, <1>9 DEF PagesInv, TypeOK
      <3> QED
        BY <1>1, <1>2, <1>5, <3>1, CountPage DEF PagesInv
    <2>3. \A g \in files' : g < cursor'
      BY <1>1, <1>2, <1>3, <1>4, <1>5, <1>9 DEF PagesInv, TypeOK
    <2>4. \A f \in always' : f < cursor' => f \in files'
      <3> SUFFICES ASSUME NEW f \in always, f < stop PROVE f \in files \cup page
        BY <1>1, <1>2
      <3>1. f \in Name /\ f \in Nat /\ f \in visible
        BY <1>9 DEF TypeOK, PagesInv
      <3>2. CASE f < cursor
        BY <1>2, <3>2 DEF PagesInv
      <3>3. CASE cursor <= f
        BY <3>1, <3>3 DEF PageTo
      <3> QED
        BY <1>3, <3>1, <3>2, <3>3
    <2>5. \A f \in always' \ files', g \in files' : g < f
      <3> SUFFICES ASSUME NEW f \in always', f \notin files', NEW g \in files' PROVE g < f
        OBVIOUS
      <3>1. f \in Nat /\ g \in Nat
        BY <1>2, <1>9, <1>10 DEF TypeOK
      <3>2. cursor' <= f /\ g < cursor'
        BY <1>1, <1>3, <1>4, <2>3, <2>4, <3>1
      <3> QED
        BY <1>1, <1>4, <3>1, <3>2
    <2> QED
      BY <1>2, <2>1, <2>2, <2>3, <2>4, <2>5 DEF PagesInv
  <1>12. AnswerInv'
    <2>1. pc' = "paging" => count' < maxResults /\ cursor' # End
      BY <1>1 DEF AfterPage
    <2>2. pc' = "lookahead" => mode = "list" /\ count' = maxResults /\ cursor' # End
      BY <1>1, <1>3, <1>7 DEF AfterPage
    <2>3. pc' = "report" => cursor' = End \/ (mode = "presign" /\ count' = maxResults)
      <3> SUFFICES ASSUME pc' = "report", stop # End PROVE mode = "presign" /\ count' = maxResults
        BY <1>1
      <3>1. ~(count' < maxResults) /\ mode # "list"
        BY <1>1 DEF AfterPage
      <3> QED
        BY <1>2, <1>3, <1>7, <3>1 DEF TypeOK
    <2> QED
      BY <1>2, <1>8, <2>1, <2>2, <2>3 DEF AnswerInv, Answered
  <1> QED
    BY <1>10, <1>11, <1>12

\* The look-ahead passes over pages without visible names; with any, the list is truncated.
LEMMA LookAheadStep ==
  ASSUME Inv, LookAhead
  PROVE  Inv'
  <1> USE DEF Inv
  <1>1. PICK stop \in Stops(PageSize) :
          /\ cursor' = stop
          /\ truncated' = (PageTo(stop) # {})
          /\ pc' = IF PageTo(stop) # {} \/ stop = End THEN "report" ELSE "lookahead"
    BY DEF LookAhead
  <1>2. /\ pc = "lookahead" /\ mode = "list" /\ ~truncated /\ count = maxResults
        /\ outcome = "running"
        /\ UNCHANGED <<mode, maxResults, visible, always, ever, files, count, todo, part, bytes,
                       summary, outcome>>
    BY DEF LookAhead, inputs, bucket, text, AnswerInv
  <1>3. End \in Nat /\ cursor \in Nat /\ stop \in Nat /\ cursor < stop /\ stop <= End
    BY ListingAssumption DEF TypeOK, End, Stops
  <1>4. \A f \in Name : f \in Nat
    BY ListingAssumption DEF Name
  <1>5. TypeOK'
    BY <1>1, <1>2, <1>3 DEF TypeOK, Reading
  <1>6. PagesInv'
    <2>1. \A g \in files : g < stop
      BY <1>2, <1>3, <1>4 DEF PagesInv, TypeOK
    <2>2. \A f \in always : f < stop => f \in files \/ PageTo(stop) # {}
      <3> SUFFICES ASSUME NEW f \in always, f < stop, f \notin files PROVE PageTo(stop) # {}
        OBVIOUS
      <3>1. f \in Nat /\ f \in visible /\ ~(f < cursor)
        BY <1>2, <1>4 DEF PagesInv, TypeOK
      <3>2. cursor <= f
        BY <1>3, <3>1
      <3> QED
        BY <3>1, <3>2 DEF PageTo
    <2> QED
      BY <1>1, <1>2, <2>1, <2>2 DEF PagesInv
  <1>7. AnswerInv'
    <2>1. truncated' => \E f \in ever \ files : \A g \in files : g < f
      <3> SUFFICES ASSUME PageTo(stop) # {} PROVE \E f \in ever \ files : \A g \in files : g < f
        BY <1>1
      <3>1. PICK f \in PageTo(stop) : TRUE
        OBVIOUS
      <3>2. f \in ever /\ f \in Nat /\ cursor <= f
        BY <1>4 DEF PageTo, PagesInv, TypeOK
      <3>3. \A g \in files : g \in Nat /\ g < cursor
        BY <1>2, <1>4 DEF PagesInv, TypeOK
      <3>4. \A g \in files : g < f
        BY <1>3, <3>2, <3>3
      <3> QED
        BY <3>2, <3>3, <3>4, <1>3
    <2>2. pc' = "report" => truncated' \/ cursor' = End
      BY <1>1
    <2>3. pc' = "lookahead" => ~truncated' /\ cursor' # End
      BY <1>1
    <2>4. pc' \in {"report", "lookahead"}
      BY <1>1
    <2> QED
      BY <1>2, <2>1, <2>2, <2>3, <2>4 DEF AnswerInv, Answered
  <1> QED
    BY <1>5, <1>6, <1>7

\* The steps that build the JSON text leave the answer alone.
LEMMA TextStep ==
  ASSUME Inv, Report \/ Serialize \/ Complete \/ TooLong \/ PreviewEnds
  PROVE  Inv'
  <1> USE DEF Inv
  <1>1. UNCHANGED <<inputs, bucket, answer>> /\ pc \in Read
    BY DEF Report, Serialize, Complete, TooLong, PreviewEnds, Read
  <1>2. UNCHANGED <<mode, maxResults, visible, always, ever, cursor, files, count, truncated>>
    BY <1>1 DEF inputs, bucket, answer
  <1>3. TypeOK'
    <2>1. MaxBytes \in Nat /\ 2 \in 0 .. MaxBytes
      BY ListingAssumption
    <2>2. CASE Report
      BY <1>2, <2>1, <2>2 DEF Report, TypeOK, Reading
    <2>3. CASE Serialize
      <3>1. First(todo) \in Name
        BY <2>3, FirstIsMember DEF Serialize, TypeOK
      <3>2. EntryBytes(First(todo)) \in Nat
        BY <3>1, ListingAssumption DEF EntryBytes
      <3>3. bytes' \in 0 .. MaxBytes
        BY <2>1, <2>3, <3>2 DEF Serialize, Fits, TypeOK
      <3> QED
        BY <1>2, <2>3, <3>1, <3>3 DEF Serialize, TypeOK, Reading
    <2>4. CASE Complete
      BY <1>2, <2>4 DEF Complete, TypeOK, Reading
    <2>5. CASE TooLong
      BY <1>2, <2>1, <2>5 DEF TooLong, TypeOK, Reading
    <2>6. CASE PreviewEnds
      BY <1>2, <2>6 DEF PreviewEnds, TypeOK, Reading
    <2> QED
      BY <2>2, <2>3, <2>4, <2>5, <2>6
  <1>4. PagesInv'
    BY <1>2 DEF PagesInv
  <1>5. AnswerInv'
    <2>1. Answered /\ pc' \in Read \cup {"done"}
      BY <1>1 DEF Answered, Report, Serialize, Complete, TooLong, PreviewEnds, Read
    <2> QED
      BY <1>2, <2>1 DEF AnswerInv, Read
  <1> QED
    BY <1>3, <1>4, <1>5

\* Every step keeps the invariant.
LEMMA StepInv == Inv /\ [Next]_vars => Inv'
  <1> SUFFICES ASSUME Inv, [Next]_vars PROVE Inv'
    OBVIOUS
  <1> USE DEF Inv
  <1>1. CASE Begin
    <2>1. 1 # End
      BY ListingAssumption DEF End
    <2>2. /\ UNCHANGED <<mode, maxResults, visible, always, ever, cursor, files, count, truncated,
                        todo, part, bytes, summary, outcome>>
          /\ pc = "start" /\ pc' = "paging" /\ mode # "presignOne"
      BY <1>1 DEF Begin, inputs, bucket, answer, text
    <2> QED
      BY <2>1, <2>2 DEF TypeOK, PagesInv, AnswerInv, Answered, Reading
  <1>2. CASE PresignOne
    <2>1. /\ UNCHANGED <<mode, maxResults, visible, always, ever, cursor, truncated, todo, part,
                        bytes, summary, outcome>>
          /\ files' \in SUBSET Name /\ count' = 1 /\ pc' = "report" /\ mode = "presignOne"
          /\ ~truncated /\ outcome = "running"
      BY <1>2 DEF PresignOne, inputs, bucket, text, AnswerInv
    <2>2. 1 \in 0 .. maxResults
      BY ListingAssumption DEF TypeOK
    <2> QED
      BY <2>1, <2>2 DEF TypeOK, PagesInv, AnswerInv, Answered, Reading
  <1>3. CASE RequestFails
    <2>1. /\ UNCHANGED <<mode, maxResults, visible, always, ever, cursor, files, count, truncated,
                        todo, part, bytes, summary>>
          /\ pc' = "done" /\ outcome' = "failure" /\ ~truncated
      BY <1>3 DEF RequestFails, inputs, bucket, answer, text, AnswerInv, Reading
    <2> QED
      BY <2>1 DEF TypeOK, PagesInv, AnswerInv, Answered, Reading
  <1>4. CASE \E f \in Name : OtherChanges(f)
    <2>1. /\ UNCHANGED <<mode, maxResults, pc, cursor, files, count, truncated, todo, part, bytes,
                        summary, outcome>>
          /\ visible' \in SUBSET Name
          /\ always' = always \cap visible' /\ ever' = ever \cup visible'
          /\ pc \in Reading
      BY <1>4 DEF OtherChanges, inputs, answer, text, TypeOK
    <2>2. ~truncated
      BY <2>1 DEF AnswerInv, Reading
    <2> QED
      BY <2>1, <2>2 DEF TypeOK, PagesInv, AnswerInv, Answered
  <1>5. CASE UNCHANGED vars
    BY <1>5 DEF vars, inputs, bucket, answer, text, TypeOK, PagesInv, AnswerInv, Answered
  <1> QED
    BY <1>1, <1>2, <1>3, <1>4, <1>5, PageStep, LookAheadStep, TextStep DEF Next, Step, Finished

\* The invariant holds in every reachable state.
THEOREM Invariant == Spec => []Inv
  <1> QED
    BY InitInv, StepInv, PTL DEF Spec

\* The variables keep to their types, and a result to max-results.
THEOREM TypeCorrect == Spec => []TypeOK
  <1>1. Inv => TypeOK
    BY DEF Inv
  <1> QED
    BY <1>1, Invariant, PTL

\* The answer is true of the names, for any number of them, any pages and any changes by
\* other clients.
THEOREM TrueAnswer == Spec => []AnswerIsTrue
  <1>1. Inv => AnswerIsTrue
    <2> SUFFICES ASSUME Inv, Answered, mode # "presignOne"
                 PROVE  /\ files \subseteq ever /\ count = Cardinality(files)
                        /\ \A f \in always \ files, g \in files : g < f
                        /\ count < maxResults \/ (mode = "list" /\ ~truncated)
                             => always \subseteq files
                        /\ truncated => /\ mode = "list" /\ count = maxResults
                                        /\ \E f \in ever \ files : \A g \in files : g < f
      BY DEF AnswerIsTrue
    <2>1. \A f \in always : f < End
      BY ListingAssumption DEF Inv, TypeOK, Name, End
    <2>2. ASSUME count < maxResults \/ (mode = "list" /\ ~truncated) PROVE always \subseteq files
      <3>1. ~truncated /\ cursor = End
        BY <2>2 DEF Inv, TypeOK, AnswerInv
      <3> QED
        BY <2>1, <3>1 DEF Inv, PagesInv
    <2> QED
      BY <2>2 DEF Inv, PagesInv, AnswerInv
  <1> QED
    BY <1>1, Invariant, PTL

---------------------------------------------------------------------------
(* The length of a text. *)

\* The bytes of a set of entries obey their equations: nothing at 0, and each name of the
\* set adds its own.
LEMMA EntriesEquations ==
  ASSUME NEW S \in SUBSET Name
  PROVE  /\ EntriesUpTo(S) \in [0 .. MaxName -> Nat]
         /\ EntriesUpTo(S)[0] = 0
         /\ \A k \in Name :
              EntriesUpTo(S)[k] = EntriesUpTo(S)[k - 1] + (IF k \in S THEN Size[k] ELSE 0)
  <1> DEFINE Adds(k) == IF k \in S THEN Size[k] ELSE 0
             Is(g, n) == g = [k \in 0 .. n |-> IF k = 0 THEN 0 ELSE g[k - 1] + Adds(k)]
             Good(g, n) == /\ g \in [0 .. n -> Nat] /\ g[0] = 0
                           /\ \A k \in 1 .. n : g[k] = g[k - 1] + Adds(k)
             Bad == {n \in 0 .. MaxName : ~ \E g : Good(g, n)}
  <1>1. MaxName \in Nat /\ \A k \in 1 .. MaxName : Adds(k) \in Nat
    BY ListingAssumption DEF Name
  <1> HIDE DEF Adds
  <1>2. Bad = {}
    <2> SUFFICES ASSUME Bad # {} PROVE FALSE
      OBVIOUS
    <2>0. Bad \subseteq Nat
      BY <1>1
    <2>1. PICK n \in Bad : \A y \in Bad : n <= y
      <3> HIDE DEF Bad
      <3> QED
        BY <2>0, LeastNumber
    <2>2. n \in Nat /\ n <= MaxName
      BY <1>1, <2>1
    <2>3. n # 0
      <3>1. Good([k \in 0 .. 0 |-> 0], 0)
        OBVIOUS
      <3> QED
        BY <3>1
    <2>4. n - 1 \in 0 .. MaxName /\ n - 1 < n /\ n - 1 \notin Bad
      <3>1. n - 1 \in 0 .. MaxName /\ n - 1 < n /\ ~(n <= n - 1)
        BY <1>1, <2>2, <2>3
      <3> HIDE DEF Bad
      <3> QED
        BY <2>1, <3>1
    <2>5. PICK g : Good(g, n - 1)
      BY <2>4
    <2> DEFINE h == [k \in 0 .. n |-> IF k = n THEN g[n - 1] + Adds(n) ELSE g[k]]
    <2>6. g[n - 1] \in Nat /\ Adds(n) \in Nat
      BY <1>1, <2>2, <2>3, <2>4, <2>5
    <2>7. h \in [0 .. n -> Nat]
      BY <2>2, <2>5, <2>6
    <2>8. h[0] = 0
      BY <2>2, <2>3, <2>5
    <2>9. ASSUME NEW k \in 1 .. n PROVE h[k] = h[k - 1] + Adds(k)
      <3>1. CASE k = n
        BY <2>2, <2>3, <3>1
      <3>2. CASE k # n
        <4>1. k \in 1 .. (n - 1) /\ k - 1 # n /\ k - 1 \in 0 .. n /\ k \in 0 .. n
          BY <2>2, <3>2
        <4>2. g[k] = g[k - 1] + Adds(k)
          BY <2>5, <4>1
        <4> QED
          BY <3>2, <4>1, <4>2
      <3> QED
        BY <3>1, <3>2
    <2>10. Good(h, n)
      BY <2>7, <2>8, <2>9
    <2> QED
      BY <2>1, <2>10
  <1>3. PICK g : Good(g, MaxName)
    <2>1. MaxName \in 0 .. MaxName /\ MaxName \notin Bad
      <3> HIDE DEF Bad
      <3> QED
        BY <1>1, <1>2
    <2> HIDE DEF Good
    <2> QED
      BY <2>1
  <1>4. Is(g, MaxName)
    <2>1. \A k \in 0 .. MaxName : g[k] = IF k = 0 THEN 0 ELSE g[k - 1] + Adds(k)
      BY <1>1, <1>3
    <2> QED
      BY <1>3, <2>1
  <1>5. EntriesUpTo(S) = CHOOSE f : Is(f, MaxName)
    BY DEF EntriesUpTo, Adds
  <1> DEFINE f == EntriesUpTo(S)
  <1>6. Is(f, MaxName)
    BY <1>4, <1>5
  <1> HIDE DEF f
  <1>7. f[0] = 0 /\ \A k \in 1 .. MaxName : f[k] = f[k - 1] + Adds(k)
    <2>1. 0 \in 0 .. MaxName /\ \A k \in 1 .. MaxName : k \in 0 .. MaxName /\ k # 0
      BY <1>1
    <2> QED
      BY <1>6, <2>1
  <1>8. f \in [0 .. MaxName -> Nat]
    <2> DEFINE Wrong == {k \in 0 .. MaxName : f[k] \notin Nat}
    <2>1. Wrong = {}
      <3> SUFFICES ASSUME Wrong # {} PROVE FALSE
        OBVIOUS
      <3>1. PICK k \in Wrong : \A y \in Wrong : k <= y
        <4>1. Wrong \subseteq Nat
          OBVIOUS
        <4> HIDE DEF Wrong
        <4> QED
          BY <4>1, LeastNumber
      <3>2. k \in 1 .. MaxName
        BY <1>1, <1>7, <3>1
      <3>3. k - 1 \in 0 .. MaxName /\ ~(k <= k - 1)
        BY <1>1, <3>2
      <3>4. k - 1 \notin Wrong
        <4> HIDE DEF Wrong
        <4> QED
          BY <3>1, <3>3
      <3>5. f[k - 1] \in Nat /\ Adds(k) \in Nat
        BY <1>1, <3>2, <3>3, <3>4
      <3> QED
        BY <1>7, <3>1, <3>2, <3>5
    <2>2. \A k \in 0 .. MaxName : f[k] \in Nat
      BY <2>1
    <2>3. f = [k \in 0 .. MaxName |-> f[k]]
      BY <1>6
    <2> QED
      BY <2>2, <2>3
  <1> QED
    BY <1>7, <1>8 DEF Name, f, Adds

\* A claim about the numbers up to MaxName that goes from each to the next holds of all.
LEMMA NamesInduction ==
  ASSUME NEW T, 0 \in T, \A k \in Name : k - 1 \in T => k \in T
  PROVE  0 .. MaxName \subseteq T
  <1> DEFINE Bad == (0 .. MaxName) \ T
  <1> SUFFICES ASSUME Bad # {} PROVE FALSE
    OBVIOUS
  <1>1. PICK k \in Bad : \A y \in Bad : k <= y
    <2>1. Bad \subseteq Nat
      BY ListingAssumption
    <2> HIDE DEF Bad
    <2> QED
      BY <2>1, LeastNumber
  <1>2. k \in Name /\ k - 1 \in 0 .. MaxName /\ ~(k <= k - 1)
    BY <1>1, ListingAssumption DEF Name
  <1>3. k - 1 \in T
    BY <1>1, <1>2
  <1> QED
    BY <1>1, <1>2, <1>3

\* A name more adds its own bytes, wherever it stands.
LEMMA AddEntry ==
  ASSUME NEW S \in SUBSET Name, NEW x \in Name \ S
  PROVE  EntriesUpTo(S \cup {x})[MaxName] = EntriesUpTo(S)[MaxName] + Size[x]
  <1> DEFINE f == EntriesUpTo(S)
             g == EntriesUpTo(S \cup {x})
             T == {k \in 0 .. MaxName : g[k] = f[k] + (IF x <= k THEN Size[x] ELSE 0)}
  <1>1. MaxName \in Nat /\ x \in 1 .. MaxName /\ \A k \in Name : Size[k] \in Nat
    BY ListingAssumption DEF Name
  <1>2. /\ f \in [0 .. MaxName -> Nat] /\ f[0] = 0
        /\ \A k \in Name : f[k] = f[k - 1] + (IF k \in S THEN Size[k] ELSE 0)
    BY EntriesEquations
  <1>3. /\ g \in [0 .. MaxName -> Nat] /\ g[0] = 0
        /\ \A k \in Name : g[k] = g[k - 1] + (IF k \in S \cup {x} THEN Size[k] ELSE 0)
    <2>1. S \cup {x} \in SUBSET Name
      OBVIOUS
    <2> HIDE DEF f
    <2> QED
      BY <2>1, EntriesEquations
  <1> HIDE DEF f, g
  <1>4. 0 \in T
    BY <1>1, <1>2, <1>3
  <1>5. ASSUME NEW k \in Name, k - 1 \in T PROVE k \in T
    <2>1. /\ k \in 0 .. MaxName /\ k - 1 \in 0 .. MaxName /\ k \in Nat
          /\ f[k - 1] \in Nat /\ Size[k] \in Nat /\ Size[x] \in Nat
      BY <1>1, <1>2 DEF Name
    <2>2. g[k - 1] = f[k - 1] + (IF x <= k - 1 THEN Size[x] ELSE 0)
      BY <1>5
    <2>3. g[k] = f[k] + (IF x <= k THEN Size[x] ELSE 0)
      <3>1. CASE k = x
        <4>1. ~(x <= k - 1) /\ x <= k
          BY <1>1, <3>1
        <4>2. f[k] = f[k - 1] /\ g[k] = g[k - 1] + Size[x]
          BY <1>2, <1>3, <2>1, <3>1
        <4> QED
          BY <2>1, <2>2, <4>1, <4>2
      <3>2. CASE k # x
        <4>1. (x <= k - 1) <=> (x <= k)
          BY <1>1, <2>1, <3>2
        <4>2. g[k] - g[k - 1] = f[k] - f[k - 1]
          BY <1>2, <1>3, <2>1, <3>2
        <4>3. g[k - 1] \in Nat /\ g[k] \in Nat /\ f[k] \in Nat
          BY <1>2, <1>3, <2>1
        <4> QED
          BY <2>1, <2>2, <4>1, <4>2, <4>3
      <3> QED
        BY <3>1, <3>2
    <2> QED
      BY <2>1, <2>3
  <1>6. MaxName \in T
    <2> HIDE DEF T
    <2> QED
      BY <1>1, <1>4, <1>5, NamesInduction
  <1> QED
    BY <1>1, <1>6 DEF f, g

\* More entries are no fewer bytes.
LEMMA EntriesGrow ==
  ASSUME NEW S \in SUBSET Name, NEW R \in SUBSET Name, S \subseteq R
  PROVE  EntriesUpTo(S)[MaxName] <= EntriesUpTo(R)[MaxName]
  <1> DEFINE f == EntriesUpTo(S)
             g == EntriesUpTo(R)
             T == {k \in 0 .. MaxName : f[k] <= g[k]}
  <1>1. MaxName \in Nat /\ \A k \in Name : Size[k] \in Nat
    BY ListingAssumption DEF Name
  <1>2. /\ f \in [0 .. MaxName -> Nat] /\ f[0] = 0
        /\ \A k \in Name : f[k] = f[k - 1] + (IF k \in S THEN Size[k] ELSE 0)
    BY EntriesEquations
  <1>3. /\ g \in [0 .. MaxName -> Nat] /\ g[0] = 0
        /\ \A k \in Name : g[k] = g[k - 1] + (IF k \in R THEN Size[k] ELSE 0)
    BY EntriesEquations
  <1> HIDE DEF f, g
  <1>4. 0 \in T
    BY <1>1, <1>2, <1>3
  <1>5. ASSUME NEW k \in Name, k - 1 \in T PROVE k \in T
    <2>1. /\ k \in 0 .. MaxName /\ Size[k] \in Nat
          /\ f[k - 1] \in Nat /\ g[k - 1] \in Nat /\ f[k - 1] <= g[k - 1]
      BY <1>1, <1>2, <1>3, <1>5 DEF Name
    <2>2. CASE k \in S
      <3>1. f[k] = f[k - 1] + Size[k] /\ g[k] = g[k - 1] + Size[k]
        BY <1>2, <1>3, <2>2
      <3> QED
        BY <2>1, <3>1
    <2>3. CASE k \notin S
      <3>1. f[k] = f[k - 1] /\ g[k - 1] <= g[k]
        BY <1>2, <1>3, <2>1, <2>3
      <3>2. g[k] \in Nat
        BY <1>3, <2>1
      <3> QED
        BY <2>1, <3>1, <3>2
    <2> QED
      BY <2>2, <2>3
  <1>6. MaxName \in T
    <2> HIDE DEF T
    <2> QED
      BY <1>1, <1>4, <1>5, NamesInduction
  <1> QED
    BY <1>6 DEF f, g

\* An entry more makes the text longer by the entry and, if it is not the first, a comma;
\* a longer result never has a shorter text.
LEMMA TextGrows ==
  ASSUME NEW S \in SUBSET Name
  PROVE  /\ TextBytes(S) \in Nat
         /\ \A x \in Name \ S :
              TextBytes(S \cup {x}) = TextBytes(S) + Size[x] + (IF S = {} THEN 0 ELSE 1)
         /\ \A R \in SUBSET Name : S \subseteq R => TextBytes(S) <= TextBytes(R)
  <1> DEFINE Commas(P) == IF P = {} THEN 0 ELSE Cardinality(P) - 1
             Entries(P) == EntriesUpTo(P)[MaxName]
  <1>1. \A P \in SUBSET Name : Entries(P) \in Nat
    BY EntriesEquations, ListingAssumption
  <1>2. \A P \in SUBSET Name : P # {} => Cardinality(P) \in Nat \ {0}
    BY CountNames, FS_EmptySet
  <1>3. \A P \in SUBSET Name : Commas(P) \in Nat
    BY <1>2
  <1>4. \A P \in SUBSET Name : TextBytes(P) = 2 + Entries(P) + Commas(P)
    BY DEF TextBytes
  <1>5. ASSUME NEW x \in Name \ S
        PROVE  TextBytes(S \cup {x}) = TextBytes(S) + Size[x] + (IF S = {} THEN 0 ELSE 1)
    <2>1. Entries(S \cup {x}) = Entries(S) + Size[x]
      BY AddEntry
    <2>2. Cardinality(S \cup {x}) = Cardinality(S) + 1
      BY CountNames, FS_AddElement
    <2>3. Commas(S \cup {x}) = Commas(S) + (IF S = {} THEN 0 ELSE 1)
      BY <1>2, <2>2, FS_EmptySet
    <2>4. Size[x] \in Nat /\ S \cup {x} \in SUBSET Name
      BY ListingAssumption
    <2> HIDE DEF Commas, Entries
    <2> QED
      BY <1>1, <1>3, <1>4, <2>1, <2>3, <2>4
  <1>6. ASSUME NEW R \in SUBSET Name, S \subseteq R
        PROVE  TextBytes(S) <= TextBytes(R)
    <2>1. Entries(S) <= Entries(R)
      BY <1>6, EntriesGrow
    <2>2. Cardinality(S) <= Cardinality(R) /\ Cardinality(S) \in Nat /\ Cardinality(R) \in Nat
      BY <1>6, CountNames, FS_Subset
    <2>3. Commas(S) <= Commas(R)
      BY <1>2, <1>6, <2>2
    <2> HIDE DEF Commas, Entries
    <2> QED
      BY <1>1, <1>3, <1>4, <2>1, <2>3
  <1>7. TextBytes(S) \in Nat
    <2> HIDE DEF Commas, Entries
    <2> QED
      BY <1>1, <1>3, <1>4
  <1> QED
    BY <1>5, <1>6, <1>7

\* The empty array is two brackets.
LEMMA EmptyText == TextBytes({}) = 2
  <1> DEFINE f == EntriesUpTo({})
             T == {k \in 0 .. MaxName : f[k] = 0}
  <1>1. MaxName \in Nat /\ f[0] = 0 /\ \A k \in Name : f[k] = f[k - 1] + 0
    BY EntriesEquations, ListingAssumption
  <1>2. 0 \in T /\ \A k \in Name : k - 1 \in T => k \in T
    BY <1>1 DEF Name
  <1>3. MaxName \in T
    <2> HIDE DEF T
    <2> QED
      BY <1>1, <1>2, NamesInduction
  <1> QED
    BY <1>3 DEF TextBytes

---------------------------------------------------------------------------
(* The summary-json. *)

LEMMA InitText == Init => TextInv
  BY DEF Init, TextInv

\* Before the answer is reported there is no text.
LEMMA AnswerStepText ==
  ASSUME Inv, TextInv,
         \/ Begin \/ PresignOne \/ ReadPage \/ LookAhead \/ RequestFails
         \/ \E f \in Name : OtherChanges(f)
  PROVE  TextInv'
  <1>1. pc \in Reading /\ UNCHANGED text
    BY DEF Begin, PresignOne, ReadPage, LookAhead, RequestFails, OtherChanges, Reading
  <1>2. \/ UNCHANGED outcome /\ pc' \in Reading \cup {"report"}
        \/ outcome' = "failure" /\ pc' = "done"
    BY <1>1 DEF Begin, PresignOne, ReadPage, AfterPage, LookAhead, RequestFails, OtherChanges,
                Reading
  <1>3. outcome = "running" /\ summary = "unset" /\ summary' = "unset"
    BY <1>1 DEF TextInv, Reading, text
  <1> QED
    BY <1>2, <1>3 DEF TextInv, Reading

\* The text begins anew: as an empty array, with every entry to come.
LEMMA BeginText ==
  ASSUME files \in SUBSET Name, UNCHANGED <<files, summary, outcome>>, outcome = "running",
         summary = "unset", todo' = files, part' = {}, bytes' = 2,
         \/ pc' = "serializing"
         \/ pc' = "preview" /\ TextBytes(files) > MaxBytes
  PROVE  TextInv'
  <1>1. Cardinality({}) <= MaxPreview
    BY FS_EmptySet, ListingAssumption
  <1>2. TextBytes(files') = TextBytes(files) /\ TextBytes(part') = 2
    BY EmptyText
  <1> QED
    BY <1>1, <1>2 DEF TextInv

\* What is still to come begins behind the text, and taking its first entry makes the text
\* longer by that entry.
LEMMA NextEntry ==
  ASSUME TypeOK, TextInv, pc \in {"serializing", "preview"} \/ outcome = "success", todo # {}
  PROVE  /\ First(todo) \in todo /\ \A g \in todo : First(todo) <= g
         /\ First(todo) \in Name \ part
         /\ part \cup {First(todo)} \in SUBSET files
         /\ TextBytes(part \cup {First(todo)}) = bytes + EntryBytes(First(todo))
         /\ EntryBytes(First(todo)) \in Nat /\ bytes \in Nat
         /\ Cardinality(part \cup {First(todo)}) = Cardinality(part) + 1
  <1> DEFINE f == First(todo)
  <1>1. todo \in SUBSET Name /\ part \in SUBSET Name /\ bytes \in Nat
    BY ListingAssumption DEF TypeOK
  <1>2. f \in todo /\ \A g \in todo : f <= g
    BY <1>1, FirstIsMember
  <1>3. part \subseteq files /\ todo = files \ part /\ bytes = TextBytes(part)
    BY DEF TextInv
  <1>4. f \in Name \ part /\ part \cup {f} \in SUBSET files /\ Size[f] \in Nat
    BY <1>1, <1>2, <1>3, ListingAssumption
  <1> HIDE DEF f
  <1>5. EntryBytes(f) \in Nat /\ EntryBytes(f) = Size[f] + (IF part = {} THEN 0 ELSE 1)
    BY <1>4 DEF EntryBytes
  <1>6. TextBytes(part \cup {f}) = TextBytes(part) + Size[f] + (IF part = {} THEN 0 ELSE 1)
    BY <1>1, <1>4, TextGrows
  <1>7. TextBytes(part \cup {f}) = bytes + EntryBytes(f)
    BY <1>1, <1>3, <1>4, <1>5, <1>6
  <1>8. Cardinality(part \cup {f}) = Cardinality(part) + 1
    BY <1>1, <1>4, CountNames, FS_AddElement
  <1> QED
    BY <1>1, <1>2, <1>4, <1>5, <1>7, <1>8 DEF f

\* The steps that build the text: an entry is added if its text fits, the preview is begun
\* only when the whole text cannot fit, and each is published where it ends.
LEMMA TextStepText ==
  ASSUME Inv, TextInv, Report \/ Serialize \/ Complete \/ TooLong \/ PreviewEnds
  PROVE  TextInv'
  <1>1. TypeOK /\ files \in SUBSET Name /\ MaxBytes \in Nat /\ MaxPreview \in Nat
    BY ListingAssumption DEF Inv, TypeOK
  <1>2. UNCHANGED files /\ outcome = "running" /\ summary = "unset"
    BY DEF Report, Serialize, Complete, TooLong, PreviewEnds, answer, TextInv
  <1>3. CASE Report
    BY <1>1, <1>2, <1>3, BeginText DEF Report
  <1>4. CASE Serialize
    <2>1. /\ pc \in {"serializing", "preview"} /\ pc' = pc /\ todo # {}
          /\ pc = "preview" => Cardinality(part) < MaxPreview
          /\ part' = part \cup {First(todo)} /\ todo' = todo \ {First(todo)}
          /\ bytes' = bytes + EntryBytes(First(todo))
          /\ UNCHANGED <<summary, outcome>>
      BY <1>4 DEF Serialize
    <2>2. /\ First(todo) \in todo /\ \A g \in todo : First(todo) <= g
          /\ part' \in SUBSET files
          /\ bytes' = TextBytes(part')
          /\ Cardinality(part') = Cardinality(part) + 1
      BY <1>1, <2>1, NextEntry
    <2>3. /\ todo = files \ part /\ \A f \in part, g \in todo : f < g
          /\ pc = "preview" => TextBytes(files) > MaxBytes
      BY <2>1 DEF TextInv
    <2>4. todo' = files' \ part'
      BY <1>2, <2>1, <2>3
    <2>5. \A f \in part', g \in todo' : f < g
      <3>1. \A g \in todo : g \in Nat
        BY <1>1, ListingAssumption DEF TypeOK, Name
      <3>2. \A g \in todo' : g \in todo /\ First(todo) < g
        BY <2>1, <2>2, <3>1
      <3> QED
        BY <2>1, <2>3, <3>2
    <2>6. pc = "preview" => Cardinality(part') <= MaxPreview
      BY <1>1, <2>1, <2>2, CountNames DEF TypeOK
    <2>7. TextBytes(files') = TextBytes(files)
      BY <1>2
    <2> QED
      BY <1>2, <2>1, <2>2, <2>3, <2>4, <2>5, <2>6, <2>7 DEF TextInv
  <1>5. CASE Complete
    <2>1. /\ pc = "serializing" /\ pc' = "done" /\ todo = {} /\ summary' = "complete"
          /\ outcome' = "success" /\ UNCHANGED <<files, todo, part, bytes>>
      BY <1>2, <1>5 DEF Complete
    <2>2. TextBytes(part') = TextBytes(part)
      BY <2>1
    <2> QED
      BY <2>1, <2>2 DEF TextInv
  <1>6. CASE TooLong
    <2>1. /\ pc = "serializing" /\ todo # {} /\ ~Fits(First(todo)) /\ pc' = "preview"
          /\ todo' = files /\ part' = {} /\ bytes' = 2 /\ UNCHANGED <<files, summary, outcome>>
      BY <1>2, <1>6 DEF TooLong
    <2>2. /\ part \cup {First(todo)} \in SUBSET files
          /\ TextBytes(part \cup {First(todo)}) = bytes + EntryBytes(First(todo))
          /\ EntryBytes(First(todo)) \in Nat /\ bytes \in Nat
      BY <1>1, <2>1, NextEntry
    <2>3. TextBytes(part \cup {First(todo)}) > MaxBytes
      BY <1>1, <2>1, <2>2 DEF Fits
    <2>4. /\ TextBytes(part \cup {First(todo)}) <= TextBytes(files)
          /\ TextBytes(files) \in Nat /\ TextBytes(part \cup {First(todo)}) \in Nat
      BY <1>1, <2>2, TextGrows
    <2>5. TextBytes(files) > MaxBytes
      BY <1>1, <2>3, <2>4
    <2> QED
      BY <1>1, <1>2, <2>1, <2>5, BeginText
  <1>7. CASE PreviewEnds
    <2>1. /\ pc = "preview" /\ pc' = "done" /\ summary' = "empty" /\ outcome' = "success"
          /\ todo = {} \/ Cardinality(part) = MaxPreview \/ ~Fits(First(todo))
          /\ UNCHANGED <<files, todo, part, bytes>>
      BY <1>2, <1>7 DEF PreviewEnds
    <2>2. TextBytes(part') = TextBytes(part) /\ TextBytes(files') = TextBytes(files)
      BY <2>1
    <2>3. Fits(First(todo))' <=> Fits(First(todo))
      BY <2>1 DEF Fits, EntryBytes, First
    <2>4. Cardinality(part') = Cardinality(part)
      BY <2>1
    <2> QED
      BY <2>1, <2>2, <2>3, <2>4 DEF TextInv
  <1> QED
    BY <1>3, <1>4, <1>5, <1>6, <1>7

LEMMA StepText == Inv /\ TextInv /\ [Next]_vars => TextInv'
  <1> SUFFICES ASSUME Inv, TextInv, [Next]_vars PROVE TextInv'
    OBVIOUS
  <1>1. CASE UNCHANGED vars
    <2>1. UNCHANGED <<files, todo, part, bytes, summary, pc, outcome>>
      BY <1>1 DEF vars, answer, text
    <2> QED
      BY <2>1 DEF TextInv, TextBytes, Fits, EntryBytes, First
  <1> QED
    BY <1>1, AnswerStepText, TextStepText DEF Next, Step, Finished

\* The published summary-json is the whole result or an empty array, by the length of the
\* whole text alone, and the preview is the longest within both limits: for any entries of
\* any sizes, and any limits.
THEOREM WholeOrEmpty == Spec => []SummaryIsWholeOrEmpty
  <1>1. Inv /\ TextInv => SummaryIsWholeOrEmpty
    <2> SUFFICES ASSUME Inv, TextInv PROVE SummaryIsWholeOrEmpty
      OBVIOUS
    <2>1. /\ TypeOK /\ files \in SUBSET Name /\ MaxBytes \in Nat /\ MaxPreview \in Nat
          /\ part \in SUBSET Name /\ bytes <= MaxBytes
          /\ summary \in {"unset", "complete", "empty"} /\ TextBytes(files) \in Nat
      BY ListingAssumption, TextGrows DEF Inv, TypeOK
    <2>2. summary = "complete" => part = files /\ bytes = TextBytes(files)
      BY DEF TextInv
    <2>3. outcome = "success" => (summary = "complete" <=> TextBytes(files) <= MaxBytes)
      BY <2>1, <2>2 DEF TextInv
    <2>4. ASSUME summary = "empty"
          PROVE  /\ part \in Prefixes(files)
                 /\ TextBytes(part) <= MaxBytes /\ Cardinality(part) <= MaxPreview
      <3>1. /\ part \subseteq files /\ todo = files \ part
            /\ \A f \in part, g \in todo : f < g
            /\ bytes = TextBytes(part) /\ Cardinality(part) <= MaxPreview
        BY <2>4 DEF TextInv
      <3>2. \A f \in files : f \in 1 .. MaxName /\ f < End
        BY <2>1, ListingAssumption DEF Name, End
      <3>3. \E k \in 1 .. End : part = {f \in files : f < k}
        <4>1. CASE todo = {}
          <5>1. End \in 1 .. End /\ part = {f \in files : f < End}
            BY <3>1, <3>2, <4>1, ListingAssumption DEF End
          <5> QED
            BY <5>1
        <4>2. CASE todo # {}
          <5>1. First(todo) \in todo /\ \A g \in todo : First(todo) <= g
            BY <2>1, <3>1, <4>2, FirstIsMember
          <5>2. First(todo) \in 1 .. End /\ First(todo) \in 1 .. MaxName
            BY <3>1, <3>2, <5>1, ListingAssumption DEF End
          <5>3. \A f \in files : f \in part <=> f < First(todo)
            BY <3>1, <3>2, <5>1, <5>2, ListingAssumption
          <5>4. part = {f \in files : f < First(todo)}
            BY <3>1, <5>3
          <5> QED
            BY <5>2, <5>4
        <4> QED
          BY <4>1, <4>2
      <3> QED
        BY <2>1, <3>1, <3>3 DEF Prefixes
    <2>5. ASSUME summary = "empty", NEW k \in 1 .. End, NEW S, S = {f \in files : f < k},
                 TextBytes(S) <= MaxBytes, Cardinality(S) <= MaxPreview
          PROVE  S \subseteq part
      <3> SUFFICES ASSUME ~(S \subseteq part) PROVE FALSE
        OBVIOUS
      <3>1. /\ outcome = "success" /\ part \subseteq files /\ todo = files \ part
            /\ \A f \in part, g \in todo : f < g
            /\ todo = {} \/ Cardinality(part) = MaxPreview \/ ~Fits(First(todo))
        BY <2>5 DEF TextInv
      <3>2. PICK s \in S : s \in todo
        BY <2>5, <3>1
      <3> DEFINE f == First(todo)
      <3>3. /\ f \in todo /\ \A g \in todo : f <= g
            /\ f \in Name \ part
            /\ TextBytes(part \cup {f}) = bytes + EntryBytes(f)
            /\ EntryBytes(f) \in Nat /\ bytes \in Nat
            /\ Cardinality(part \cup {f}) = Cardinality(part) + 1
        BY <2>1, <3>1, <3>2, NextEntry
      <3> HIDE DEF f
      <3>4. \A g \in files : g \in Nat
        BY <2>1, ListingAssumption DEF Name
      <3>5. part \cup {f} \subseteq S
        <4>1. k \in Nat /\ s < k /\ f <= s /\ f \in Nat /\ s \in Nat
          BY <2>5, <3>1, <3>2, <3>3, <3>4, ListingAssumption DEF End
        <4>2. f < k /\ \A g \in part : g < k
          BY <3>1, <3>3, <3>4, <4>1
        <4> QED
          BY <2>5, <3>1, <3>3, <4>2
      <3>6. S \in SUBSET Name
        BY <2>1, <2>5
      <3>7. /\ TextBytes(part \cup {f}) <= TextBytes(S)
            /\ TextBytes(S) \in Nat /\ TextBytes(part \cup {f}) \in Nat
        BY <3>5, <3>6, TextGrows
      <3>8. /\ Cardinality(part \cup {f}) <= Cardinality(S)
            /\ Cardinality(S) \in Nat /\ Cardinality(part) \in Nat
        BY <2>1, <3>5, <3>6, CountNames, FS_Subset
      <3>9. Cardinality(part) # MaxPreview
        BY <2>1, <2>5, <3>3, <3>8
      <3>10. Fits(f)
        BY <2>1, <2>5, <3>3, <3>7 DEF Fits
      <3> QED
        BY <3>1, <3>2, <3>9, <3>10 DEF f
    <2>6. summary = "empty" =>
            \A S \in Prefixes(files) :
              TextBytes(S) <= MaxBytes /\ Cardinality(S) <= MaxPreview => S \subseteq part
      BY <2>5 DEF Prefixes
    <2> QED
      BY <2>2, <2>3, <2>4, <2>6 DEF SummaryIsWholeOrEmpty
  <1> QED
    BY <1>1, Invariant, InitText, StepText, PTL DEF Spec


---------------------------------------------------------------------------
(* The work ahead of a run. *)

\* Names to page over, then at most the whole text and a preview, entry by entry.
Work ==
  CASE pc = "start"       -> (End - cursor) + 2 * MaxName + 6
    [] pc = "paging"      -> (End - cursor) + 2 * MaxName + 5
    [] pc = "lookahead"   -> (End - cursor) + 2 * MaxName + 4
    [] pc = "report"      -> 2 * MaxName + 3
    [] pc = "serializing" -> MaxName + 2 + Cardinality(todo)
    [] pc = "preview"     -> 1 + Cardinality(todo)
    [] pc = "done"        -> 0

WorkBounded  == Work \in 0 .. 3 * MaxName + 6
WorkConsumed == [][Work' <= Work /\ (Step => Work' < Work)]_vars

\* What is left, phase by phase.
LEMMA WorkIs ==
  /\ pc = "start" => Work = (End - cursor) + 2 * MaxName + 6
  /\ pc = "paging" => Work = (End - cursor) + 2 * MaxName + 5
  /\ pc = "lookahead" => Work = (End - cursor) + 2 * MaxName + 4
  /\ pc = "report" => Work = 2 * MaxName + 3
  /\ pc = "serializing" => Work = MaxName + 2 + Cardinality(todo)
  /\ pc = "preview" => Work = 1 + Cardinality(todo)
  /\ pc = "done" => Work = 0
  BY DEF Work

LEMMA WorkWillBe ==
  /\ pc' = "start" => Work' = (End - cursor') + 2 * MaxName + 6
  /\ pc' = "paging" => Work' = (End - cursor') + 2 * MaxName + 5
  /\ pc' = "lookahead" => Work' = (End - cursor') + 2 * MaxName + 4
  /\ pc' = "report" => Work' = 2 * MaxName + 3
  /\ pc' = "serializing" => Work' = MaxName + 2 + Cardinality(todo')
  /\ pc' = "preview" => Work' = 1 + Cardinality(todo')
  /\ pc' = "done" => Work' = 0
  BY DEF Work, End

\* No set of names has more members than there are names.
LEMMA FewNames ==
  ASSUME NEW S \in SUBSET Name
  PROVE  Cardinality(S) \in 0 .. MaxName
  <1>1. IsFiniteSet(Name) /\ Cardinality(Name) = MaxName
    BY ListingAssumption, FS_Interval DEF Name
  <1>2. Cardinality(S) <= Cardinality(Name)
    BY <1>1, FS_Subset
  <1> QED
    BY <1>1, <1>2, CountNames, ListingAssumption

\* The work is a number within its bound, in every state that is typed.
LEMMA WorkIsNumber ==
  ASSUME TypeOK
  PROVE  WorkBounded
  <1>1. /\ MaxName \in Nat /\ cursor \in 1 .. MaxName + 1 /\ End - cursor \in 0 .. MaxName
        /\ Cardinality(todo) \in 0 .. MaxName
    BY ListingAssumption, FewNames DEF TypeOK, End
  <1>2. pc \in {"start", "paging", "lookahead", "report", "serializing", "preview", "done"}
    BY DEF TypeOK, Reading
  <1> QED
    BY <1>1, <1>2, WorkIs DEF WorkBounded

\* Every step of the command takes from the work; other clients add nothing to it.
LEMMA StepWork ==
  ASSUME TypeOK, TypeOK', WorkBounded, WorkBounded', [Next]_vars
  PROVE  Work' <= Work /\ (Step => Work' < Work)
  <1> DEFINE Spent == Work' < Work
  <1>1. /\ MaxName \in Nat /\ End = MaxName + 1
        /\ cursor \in 1 .. End /\ cursor' \in 1 .. End
        /\ files \in SUBSET Name /\ todo \in SUBSET Name
        /\ pc \in {"start", "paging", "lookahead", "report", "serializing", "preview", "done"}
    BY ListingAssumption DEF TypeOK, End, Reading
  <1>2. Work \in Nat /\ Work' \in Nat
    BY <1>1 DEF WorkBounded
  <1>3. Cardinality(files) \in 0 .. MaxName /\ Cardinality(todo) \in 0 .. MaxName
    BY <1>1, FewNames
  <1>4. ASSUME Begin \/ PresignOne PROVE Spent
    BY <1>1, <1>4, WorkIs, WorkWillBe DEF Begin, PresignOne, answer
  <1>5. ASSUME ReadPage PROVE Spent
    <2>1. cursor' \in (cursor + 1) .. End /\ pc = "paging"
          /\ pc' \in {"report", "paging", "lookahead"}
      BY <1>5 DEF ReadPage, Stops, AfterPage
    <2> QED
      BY <1>1, <2>1, WorkIs, WorkWillBe
  <1>6. ASSUME LookAhead PROVE Spent
    <2>1. cursor' \in (cursor + 1) .. End /\ pc = "lookahead" /\ pc' \in {"report", "lookahead"}
      BY <1>6 DEF LookAhead, Stops
    <2> QED
      BY <1>1, <2>1, WorkIs, WorkWillBe
  <1>7. ASSUME Report \/ TooLong PROVE Spent
    BY <1>1, <1>3, <1>7, WorkIs, WorkWillBe DEF Report, TooLong
  <1>8. ASSUME Serialize PROVE Spent
    <2>1. todo # {} /\ todo' = todo \ {First(todo)} /\ pc' = pc /\ pc \in {"serializing", "preview"}
      BY <1>8 DEF Serialize
    <2>2. First(todo) \in todo /\ IsFiniteSet(todo)
      BY <1>1, <2>1, FirstIsMember, CountNames
    <2>3. Cardinality(todo') = Cardinality(todo) - 1
      BY <2>1, <2>2, FS_RemoveElement
    <2> QED
      BY <1>1, <1>3, <2>1, <2>3, WorkIs, WorkWillBe
  <1>9. ASSUME RequestFails \/ Complete \/ PreviewEnds PROVE Spent
    <2>1. pc' = "done" /\ pc \in {"start", "paging", "lookahead", "serializing", "preview"}
      BY <1>9 DEF RequestFails, Complete, PreviewEnds, Reading
    <2>2. Work' = 0
      BY <2>1, WorkWillBe
    <2>3. Work > 0
      BY <1>1, <1>3, <2>1, WorkIs
    <2> QED
      BY <2>2, <2>3
  <1>10. Step => Spent
    BY <1>4, <1>5, <1>6, <1>7, <1>8, <1>9 DEF Step
  <1>11. CASE Step
    BY <1>2, <1>10, <1>11
  <1>12. CASE (\E f \in Name : OtherChanges(f)) \/ UNCHANGED vars
    <2>1. UNCHANGED <<pc, cursor, todo>>
      BY <1>12 DEF OtherChanges, vars, answer, text
    <2>2. Work' = Work
      BY <2>1 DEF Work, End
    <2> QED
      BY <1>2, <1>10, <2>2
  <1> QED
    BY <1>11, <1>12 DEF Next, Finished

\* list and presign take no more than 3 * MaxName + 6 steps, however the pages end and
\* whatever other clients add and hide meanwhile: each takes from the work there is at first.
THEOREM FiniteWork == Spec => []WorkBounded /\ WorkConsumed
  <1> DEFINE Consumed == Work' <= Work /\ (Step => Work' < Work)
  <1>1. TypeOK => WorkBounded
    BY WorkIsNumber
  <1>2. TypeOK /\ TypeOK' /\ WorkBounded /\ WorkBounded' /\ [Next]_vars => Consumed
    BY StepWork
  <1> HIDE DEF Consumed
  <1>3. Spec => []WorkBounded
    BY <1>1, TypeCorrect, PTL
  <1>4. Spec => [][Consumed]_vars
    BY <1>2, <1>3, TypeCorrect, PTL DEF Spec
  <1> QED
    BY <1>3, <1>4 DEF Consumed, WorkConsumed
=============================================================================

--------------------------- MODULE FileInfoProofs ---------------------------
(***************************************************************************)
(* Proofs about FileInfo: for every list of entries, whatever the keys and *)
(* the limits, a plan carries exactly the metadata asked for, or is        *)
(* refused, and then for a reason.                                         *)
(*                                                                         *)
(* What the loops compute follows by induction over their turns: their     *)
(* equations have a solution (LoopExists) and a claim that every turn      *)
(* keeps holds at the end (LoopInduction).  The result of n entries is     *)
(* told by the set of them alone: it is good if each entry meets its       *)
(* conditions and the set has n keys (StandsFor).  A further entry, and a  *)
(* further look at the limits, keep that; so where and how often the       *)
(* limits are checked makes no difference in the end.                      *)
(***************************************************************************)
EXTENDS FileInfo, FiniteSetTheorems, WellFoundedInduction, TLAPS

Entries == [key : InfoKeys, bytes : Nat]
Results == [ok : BOOLEAN, info : Seq(Entries)]

---------------------------------------------------------------------------
(* Loops. *)

\* A non-empty set of numbers has a least one.
LEMMA LeastNumber ==
  ASSUME NEW S, S \subseteq Nat, S # {}
  PROVE  \E x \in S : \A y \in S : x <= y
  <1>1. IsWellFoundedOn(OpToRel(<, Nat), Nat)
    BY NatLessThanWellFounded
  <1>2. PICK x \in S : \A y \in S : ~ (<<y, x>> \in OpToRel(<, Nat))
    BY <1>1, WFMin
  <1>3. \A y \in S : ~ (y < x)
    BY <1>2 DEF OpToRel
  <1> QED
    BY <1>3

\* What holds before a loop, and after each turn if before it, holds after all its turns.
LEMMA LoopInduction ==
  ASSUME NEW n \in Nat, NEW T, 0 \in T, \A k \in 1 .. n : k - 1 \in T => k \in T
  PROVE  0 .. n \subseteq T
  <1> DEFINE Bad == (0 .. n) \ T
  <1> SUFFICES ASSUME Bad # {} PROVE FALSE
    OBVIOUS
  <1>1. PICK k \in Bad : \A y \in Bad : k <= y
    <2>1. Bad \subseteq Nat
      OBVIOUS
    <2> HIDE DEF Bad
    <2> QED
      BY <2>1, LeastNumber
  <1>2. k \in 1 .. n /\ k - 1 \in 0 .. n /\ ~(k <= k - 1)
    BY <1>1
  <1>3. k - 1 \in T
    BY <1>1, <1>2
  <1> QED
    BY <1>1, <1>2, <1>3

\* The turns of a loop over A, as functions, and the states it goes through from a.
Turns(F, n, A) == F \in [1 .. n -> [A -> A]]
Outcome(g, F, n, A, a) ==
  g \in [0 .. n -> A] /\ g[0] = a /\ \A k \in 1 .. n : g[k] = F[k][g[k - 1]]

\* A loop of n turns, each of them a function of the state before it, has an outcome.
LEMMA LoopExists ==
  ASSUME NEW n \in Nat, NEW A, NEW a \in A, NEW F, Turns(F, n, A)
  PROVE  \E g : Outcome(g, F, n, A, a)
  <1> DEFINE Good(g, m) == /\ g \in [0 .. m -> A] /\ g[0] = a
                           /\ \A k \in 1 .. m : g[k] = F[k][g[k - 1]]
             Done == {m \in 0 .. n : \E g : Good(g, m)}
  <1>1. 0 \in Done
    <2>1. Good([k \in 0 .. 0 |-> a], 0)
      OBVIOUS
    <2>2. 0 \in 0 .. n
      OBVIOUS
    <2> HIDE DEF Good
    <2> QED
      BY <2>1, <2>2
  <1>2. ASSUME NEW m \in 1 .. n, m - 1 \in Done PROVE m \in Done
    <2>1. PICK g : Good(g, m - 1)
      BY <1>2
    <2> DEFINE h == [k \in 0 .. m |-> IF k = m THEN F[m][g[m - 1]] ELSE g[k]]
    <2>2. m - 1 \in 0 .. m - 1 /\ m - 1 # m /\ m \in Nat /\ m # 0
      OBVIOUS
    <2>3. g[m - 1] \in A
      BY <2>1, <2>2
    <2>4. F[m][g[m - 1]] \in A
      BY <2>3 DEF Turns
    <2>5. h \in [0 .. m -> A]
      BY <2>1, <2>4
    <2>6. h[0] = a
      BY <2>1, <2>2
    <2>7. ASSUME NEW k \in 1 .. m PROVE h[k] = F[k][h[k - 1]]
      <3>1. k - 1 \in 0 .. m /\ k - 1 # m /\ k \in 0 .. m
        OBVIOUS
      <3>2. h[k - 1] = g[k - 1]
        BY <3>1
      <3>3. CASE k = m
        BY <3>1, <3>2, <3>3
      <3>4. CASE k # m
        <4>1. k \in 1 .. m - 1
          BY <3>4
        <4>2. g[k] = F[k][g[k - 1]]
          BY <2>1, <4>1
        <4> QED
          BY <3>1, <3>2, <3>4, <4>2
      <3> QED
        BY <3>3, <3>4
    <2>8. Good(h, m)
      BY <2>5, <2>6, <2>7
    <2>9. m \in 0 .. n
      OBVIOUS
    <2> HIDE DEF Good
    <2> QED
      BY <2>8, <2>9
  <1>3. n \in Done
    <2> HIDE DEF Done
    <2>1. 0 .. n \subseteq Done
      BY <1>1, <1>2, LoopInduction
    <2> QED
      BY <2>1
  <1>4. PICK g : Good(g, n)
    BY <1>3
  <1> QED
    BY <1>4 DEF Outcome

---------------------------------------------------------------------------
(* Adding entries. *)

KeysOf(asked) == {e.key : e \in asked}

Lowered(e) == Entry(Lower[e.key], e.bytes)

Fine(e, allowReserved) ==
  "key" \in DOMAIN e /\ (allowReserved \/ Lower[e.key] \notin ReservedKeys)

\* r is what becomes of n entries, `asked` together, each of which has to meet some
\* condition: it is a fileInfo of them if they do and their keys differ, or else an error.
StandsFor(r, asked, n, met) ==
  /\ r \in Results /\ n \in Nat /\ met \in BOOLEAN
  /\ IsFiniteSet(asked) /\ IsFiniteSet(KeysOf(asked))
  /\ Cardinality(KeysOf(asked)) <= Cardinality(asked) /\ Cardinality(asked) <= n
  /\ r.ok <=> met /\ Cardinality(KeysOf(asked)) = n
  /\ r.ok => /\ Len(r.info) = n /\ ToSet(r.info) = asked
             /\ \A i, j \in 1 .. n : r.info[i].key = r.info[j].key => i = j

\* One entry more, over the sets: the keys number no more than the entries.
LEMMA OneMoreKey ==
  ASSUME NEW A, NEW x, IsFiniteSet(A), IsFiniteSet(KeysOf(A)), NEW n \in Nat,
         Cardinality(KeysOf(A)) <= Cardinality(A), Cardinality(A) <= n
  PROVE  /\ IsFiniteSet(A \cup {x}) /\ IsFiniteSet(KeysOf(A \cup {x}))
         /\ Cardinality(KeysOf(A \cup {x})) <= Cardinality(A \cup {x})
         /\ Cardinality(A \cup {x}) <= n + 1
         /\ Cardinality(KeysOf(A \cup {x})) = n + 1 <=>
              x.key \notin KeysOf(A) /\ Cardinality(KeysOf(A)) = n
  <1>1. KeysOf(A \cup {x}) = KeysOf(A) \cup {x.key}
    BY DEF KeysOf
  <1>2. x \in A => x.key \in KeysOf(A)
    BY DEF KeysOf
  <1> DEFINE K == KeysOf(A)  key == x.key
  <1>3. Cardinality(A) \in Nat /\ Cardinality(K) \in Nat
    BY FS_CardinalityType
  <1> HIDE DEF K, key
  <1>4. /\ IsFiniteSet(A \cup {x})
        /\ Cardinality(A \cup {x}) = IF x \in A THEN Cardinality(A) ELSE Cardinality(A) + 1
    BY FS_AddElement
  <1>5. /\ IsFiniteSet(K \cup {key})
        /\ Cardinality(K \cup {key}) = IF key \in K THEN Cardinality(K) ELSE Cardinality(K) + 1
    BY FS_AddElement DEF K
  <1>6. KeysOf(A \cup {x}) = K \cup {key} /\ (x \in A => key \in K)
    BY <1>1, <1>2 DEF K, key
  <1>7. Cardinality(K) <= Cardinality(A)
    BY DEF K
  <1>8. /\ Cardinality(K \cup {key}) <= Cardinality(A \cup {x})
        /\ Cardinality(A \cup {x}) <= n + 1
        /\ Cardinality(K \cup {key}) = n + 1 <=> key \notin K /\ Cardinality(K) = n
    BY <1>3, <1>4, <1>5, <1>6, <1>7
  <1> QED
    BY <1>4, <1>5, <1>6, <1>8 DEF K, key

\* addFileInfo on one more entry.
LEMMA AddOne ==
  ASSUME FileInfoAssumption,
         NEW r, NEW A, NEW n, NEW met, StandsFor(r, A, n, met), NEW allow \in BOOLEAN,
         NEW e, "key" \in DOMAIN e => e.key \in InfoKeys /\ e.bytes \in Nat,
         NEW both, both = (met /\ Fine(e, allow))
  PROVE  StandsFor(AddEntry(r, e, allow), A \cup {Lowered(e)}, n + 1, both)
  <1> DEFINE x == Lowered(e)  B == A \cup {x}  s == AddEntry(r, e, allow)
  <1>1. x.key = Lower[e.key]
    BY DEF Lowered, Entry
  <1>2. n \in Nat /\ n + 1 \in Nat /\ (met /\ Fine(e, allow)) \in BOOLEAN
    BY DEF StandsFor, Fine
  <1>3. /\ IsFiniteSet(B) /\ IsFiniteSet(KeysOf(B))
        /\ Cardinality(KeysOf(B)) <= Cardinality(B) /\ Cardinality(B) <= n + 1
        /\ Cardinality(KeysOf(B)) = n + 1 <=> x.key \notin KeysOf(A) /\ Cardinality(KeysOf(A)) = n
    <2> HIDE DEF x
    <2> QED
      BY OneMoreKey DEF StandsFor
  <1>4. r.ok => (HasOwn(r.info, Lower[e.key]) <=> x.key \in KeysOf(A))
    BY <1>1 DEF StandsFor, HasOwn, KeysOf
  <1>5. Rejected \in Results /\ ~Rejected.ok
    BY DEF Rejected, Results
  <1>6. CASE r.ok /\ Fine(e, allow) /\ x.key \notin KeysOf(A)
    <2>1. s = Of(Append(r.info, x))
      BY <1>1, <1>4, <1>6 DEF AddEntry, AddFileInfo, Fine, Lowered
    <2>2. x \in Entries
      BY <1>6 DEF Fine, Lowered, Entry, Entries, FileInfoAssumption
    <2>3. r.info \in Seq(Entries) /\ Len(r.info) = n /\ ToSet(r.info) = A
      BY <1>6 DEF StandsFor, Results
    <2> HIDE DEF x
    <2> DEFINE new == Append(r.info, x)
    <2>4. /\ new \in Seq(Entries) /\ Len(new) = n + 1
          /\ new[n + 1] = x /\ \A i \in 1 .. n : new[i] = r.info[i]
      BY <2>2, <2>3
    <2>5. ToSet(new) = B
      <3>1. DOMAIN new = 1 .. n + 1 /\ DOMAIN r.info = 1 .. n
        BY <2>3, <2>4
      <3>2. 1 .. n + 1 = (1 .. n) \cup {n + 1}
        BY <1>2
      <3> HIDE DEF new
      <3>3. ToSet(new) = {new[i] : i \in 1 .. n} \cup {new[n + 1]}
        BY <3>1, <3>2 DEF ToSet
      <3>4. {new[i] : i \in 1 .. n} = A
        BY <2>3, <2>4, <3>1 DEF ToSet
      <3> QED
        BY <2>4, <3>3, <3>4
    <2>6. \A i \in 1 .. n : r.info[i].key \in KeysOf(A)
      BY <2>3 DEF KeysOf, ToSet
    <2>7. ASSUME NEW i \in 1 .. n + 1, NEW j \in 1 .. n + 1, new[i].key = new[j].key
          PROVE  i = j
      <3>1. \A k \in 1 .. n + 1 : k = n + 1 \/ k \in 1 .. n
        BY <1>2
      <3>2. \A k \in 1 .. n : new[k].key # new[n + 1].key
        BY <1>6, <2>4, <2>6
      <3>3. i \in 1 .. n /\ j \in 1 .. n => i = j
        BY <1>6, <2>4, <2>7 DEF StandsFor
      <3> HIDE DEF new
      <3> QED
        BY <2>7, <3>1, <3>2, <3>3
    <2>8. s \in Results /\ s.ok /\ s.info = new
      BY <2>1, <2>4 DEF Of, Results
    <2>9. met /\ Cardinality(KeysOf(B)) = n + 1
      BY <1>3, <1>6 DEF StandsFor
    <2> HIDE DEF new, s, B
    <2> QED
      BY <1>2, <1>3, <1>6, <2>4, <2>5, <2>7, <2>8, <2>9 DEF StandsFor, x, s, B
  <1>7. CASE ~(r.ok /\ Fine(e, allow) /\ x.key \notin KeysOf(A))
    <2>1. s = Rejected
      BY <1>1, <1>4, <1>7 DEF AddEntry, AddFileInfo, Fine
    <2>2. ~(met /\ Fine(e, allow) /\ Cardinality(KeysOf(B)) = n + 1)
      BY <1>3, <1>7 DEF StandsFor
    <2> HIDE DEF s, B
    <2> QED
      BY <1>2, <1>3, <1>5, <2>1, <2>2 DEF StandsFor, x, s, B
  <1> QED
    BY <1>6, <1>7

\* The loop over entries is what its equations say.
LEMMA AddedEquations ==
  ASSUME FileInfoAssumption,
         NEW Line, \A e \in Line : "key" \in DOMAIN e => e.key \in InfoKeys /\ e.bytes \in Nat,
         NEW entries \in Seq(Line), NEW allow \in BOOLEAN, NEW r \in Results
  PROVE  /\ Added(r, entries, allow)[0] = r
         /\ \A k \in 1 .. Len(entries) :
              Added(r, entries, allow)[k] =
                AddEntry(Added(r, entries, allow)[k - 1], entries[k], allow)
  <1> DEFINE n == Len(entries)
             F == [k \in 1 .. n |-> [x \in Results |-> AddEntry(x, entries[k], allow)]]
             Is(g) == g = [k \in 0 .. n |->
                             IF k = 0 THEN r ELSE AddEntry(g[k - 1], entries[k], allow)]
  <1>1. n \in Nat /\ \A k \in 1 .. n : entries[k] \in Line
    OBVIOUS
  <1>2. ASSUME NEW k \in 1 .. n, NEW x \in Results
        PROVE  AddEntry(x, entries[k], allow) \in Results
    <2> DEFINE e == entries[k]
    <2>1. "key" \in DOMAIN e => e.key \in InfoKeys /\ e.bytes \in Nat
      BY <1>1
    <2> HIDE DEF e
    <2>2. Rejected \in Results
      BY DEF Rejected, Results
    <2>3. "key" \in DOMAIN e => Entry(Lower[e.key], e.bytes) \in Entries
      BY <2>1 DEF Entry, Entries, FileInfoAssumption
    <2>4. x.info \in Seq(Entries)
      BY DEF Results
    <2>5. "key" \in DOMAIN e => Of(Append(x.info, Entry(Lower[e.key], e.bytes))) \in Results
      BY <2>3, <2>4 DEF Of, Results
    <2>6. AddEntry(x, e, allow) \in Results
      BY <2>2, <2>5 DEF AddEntry, AddFileInfo
    <2> QED
      BY <2>6 DEF e
  <1> HIDE DEF n
  <1>3. F \in [1 .. n -> [Results -> Results]]
    BY <1>2
  <1>4. PICK g \in [0 .. n -> Results] :
          g[0] = r /\ \A k \in 1 .. n : g[k] = F[k][g[k - 1]]
    <2>1. n \in Nat /\ r \in Results
      BY <1>1
    <2> HIDE DEF F
    <2>2. Turns(F, n, Results)
      BY <1>3 DEF Turns
    <2>3. \E g : Outcome(g, F, n, Results, r)
      BY <2>1, <2>2, LoopExists
    <2> QED
      BY <2>3 DEF Outcome
  <1>5. \A k \in 1 .. n : F[k][g[k - 1]] = AddEntry(g[k - 1], entries[k], allow)
    <2> SUFFICES ASSUME NEW k \in 1 .. n PROVE F[k][g[k - 1]] = AddEntry(g[k - 1], entries[k], allow)
      OBVIOUS
    <2>1. k - 1 \in 0 .. n
      BY <1>1
    <2>2. g[k - 1] \in Results
      BY <1>4, <2>1
    <2> QED
      BY <2>2
  <1>6. \A k \in 0 .. n : g[k] = IF k = 0 THEN r ELSE AddEntry(g[k - 1], entries[k], allow)
    <2> HIDE DEF F
    <2>1. \A k \in 0 .. n : g[k] = IF k = 0 THEN r ELSE F[k][g[k - 1]]
      BY <1>4
    <2>2. \A k \in 0 .. n : k # 0 => k \in 1 .. n
      BY <1>1
    <2> QED
      BY <1>5, <2>1, <2>2
  <1>7. Is(g)
    <2>1. g = [k \in 0 .. n |-> g[k]]
      BY <1>4
    <2> QED
      BY <1>6, <2>1
  <1>8. Added(r, entries, allow) = CHOOSE f : Is(f)
    BY DEF Added, n
  <1> DEFINE f == Added(r, entries, allow)
  <1>9. Is(f)
    BY <1>7, <1>8
  <1> HIDE DEF f
  <1>10. f[0] = r /\ \A k \in 1 .. n : f[k] = AddEntry(f[k - 1], entries[k], allow)
    <2>1. 0 \in 0 .. n /\ \A k \in 1 .. n : k \in 0 .. n /\ k # 0
      BY <1>1
    <2> QED
      BY <1>9, <2>1
  <1> QED
    BY <1>10 DEF f, n

LowerCased(entries) == {Lowered(e) : e \in ToSet(entries)}

\* addFileInfo on all of a list of entries.
LEMMA AddMany ==
  ASSUME FileInfoAssumption,
         NEW r, NEW A, NEW n, NEW met, StandsFor(r, A, n, met), NEW allow \in BOOLEAN,
         NEW Line, \A e \in Line : "key" \in DOMAIN e => e.key \in InfoKeys /\ e.bytes \in Nat,
         NEW entries \in Seq(Line)
  PROVE  StandsFor(AddAll(r, entries, allow), A \cup LowerCased(entries), n + Len(entries),
                   met /\ \A e \in ToSet(entries) : Fine(e, allow))
  <1> DEFINE f == Added(r, entries, allow)
             l == Len(entries)
             Set(k) == A \cup {Lowered(entries[j]) : j \in 1 .. k}
             Met(k) == met /\ \A j \in 1 .. k : Fine(entries[j], allow)
             Right == {k \in 0 .. l : StandsFor(f[k], Set(k), n + k, Met(k))}
  <1>1. /\ l \in Nat /\ n \in Nat /\ DOMAIN entries = 1 .. l
        /\ \A k \in 1 .. l : entries[k] \in Line
    BY DEF StandsFor
  <1>2. f[0] = r /\ \A k \in 1 .. l : f[k] = AddEntry(f[k - 1], entries[k], allow)
    BY AddedEquations DEF StandsFor
  <1> HIDE DEF f, l
  <1>3. 0 \in Right
    <2>1. Set(0) = A
      OBVIOUS
    <2>2. Met(0) = met
      BY DEF StandsFor
    <2>3. n + 0 = n /\ 0 \in 0 .. l
      BY <1>1
    <2> HIDE DEF Set, Met
    <2> QED
      BY <1>2, <2>1, <2>2, <2>3
  <1>4. ASSUME NEW k \in 1 .. l, k - 1 \in Right PROVE k \in Right
    <2>1. k - 1 \in 0 .. l /\ k \in 0 .. l /\ n + k = (n + (k - 1)) + 1 /\ 1 .. k = (1 .. k - 1) \cup {k}
      BY <1>1
    <2> DEFINE e == entries[k]
    <2>2. Set(k) = Set(k - 1) \cup {Lowered(e)}
      BY <2>1
    <2>3. Met(k) = (Met(k - 1) /\ Fine(e, allow))
      <3>1. Met(k) <=> Met(k - 1) /\ Fine(e, allow)
        BY <2>1
      <3>2. Met(k) \in BOOLEAN
        BY DEF StandsFor
      <3> QED
        BY <3>1, <3>2
    <2>4. StandsFor(f[k - 1], Set(k - 1), n + (k - 1), Met(k - 1))
      BY <1>4
    <2>5. "key" \in DOMAIN e => e.key \in InfoKeys /\ e.bytes \in Nat
      BY <1>1
    <2> HIDE DEF Set, Met, e
    <2>6. StandsFor(AddEntry(f[k - 1], e, allow), Set(k - 1) \cup {Lowered(e)},
                    (n + (k - 1)) + 1, Met(k - 1) /\ Fine(e, allow))
      BY <2>4, <2>5, AddOne
    <2>7. f[k] = AddEntry(f[k - 1], e, allow)
      BY <1>2 DEF e
    <2> QED
      BY <2>1, <2>2, <2>3, <2>6, <2>7
  <1>5. StandsFor(f[l], Set(l), n + l, Met(l))
    <2> HIDE DEF Right
    <2>1. 0 .. l \subseteq Right
      BY <1>1, <1>3, <1>4, LoopInduction
    <2>2. l \in Right
      BY <1>1, <2>1
    <2> QED
      BY <2>2 DEF Right
  <1>6. Set(l) = A \cup LowerCased(entries)
    BY <1>1 DEF LowerCased, ToSet
  <1>7. Met(l) = (met /\ \A e \in ToSet(entries) : Fine(e, allow))
    <2>1. Met(l) <=> (met /\ \A e \in ToSet(entries) : Fine(e, allow))
      BY <1>1 DEF ToSet
    <2>2. met \in BOOLEAN
      BY DEF StandsFor
    <2> QED
      BY <2>1, <2>2
  <1>8. f[l] = AddAll(r, entries, allow)
    BY DEF f, l, AddAll
  <1> HIDE DEF Set, Met
  <1> QED
    BY <1>5, <1>6, <1>7, <1>8 DEF l

---------------------------------------------------------------------------
(* The limits. *)

Legal(e) == e.key \in LegalKeys /\ KeyBytes[e.key] <= MaxKeyBytes

\* An entry more is its own bytes more.
LEMMA BytesGrow ==
  ASSUME NEW A, IsFiniteSet(BytesOf(A)), NEW e, e \notin A, Size(e) \in Nat
  PROVE  /\ IsFiniteSet(BytesOf(A \cup {e}))
         /\ Cardinality(BytesOf(A \cup {e})) = Cardinality(BytesOf(A)) + Size(e)
  <1> DEFINE S == Size(e)  Own == {e} \X (1 .. S)  B == BytesOf(A)
  <1>1. BytesOf(A \cup {e}) = B \cup Own
    BY DEF BytesOf
  <1>2. B \cap Own = {}
    BY DEF BytesOf
  <1>3. IsFiniteSet(Own) /\ Cardinality(Own) = S
    <2>1. IsFiniteSet({e}) /\ Cardinality({e}) = 1
      BY FS_Singleton
    <2> HIDE DEF S
    <2>2. S \in Nat
      BY DEF S
    <2>3. IsFiniteSet(1 .. S) /\ Cardinality(1 .. S) = S
      BY <2>2, FS_Interval
    <2>4. IsFiniteSet(Own) /\ Cardinality(Own) = Cardinality({e}) * Cardinality(1 .. S)
      BY <2>1, <2>3, FS_Product
    <2> QED
      BY <2>1, <2>2, <2>3, <2>4
  <1> HIDE DEF S, Own, B
  <1>4. IsFiniteSet(B)
    BY DEF B
  <1>5. /\ IsFiniteSet(B \cup Own)
        /\ Cardinality(B \cup Own) = Cardinality(B) + Cardinality(Own) - Cardinality(B \cap Own)
    BY <1>3, <1>4, FS_Union
  <1>6. Cardinality(B \cap Own) = 0
    BY <1>2, FS_EmptySet
  <1>7. Cardinality(B) \in Nat /\ S \in Nat
    BY <1>4, FS_CardinalityType DEF S
  <1>8. Cardinality(B \cup Own) = Cardinality(B) + S
    BY <1>3, <1>5, <1>6, <1>7
  <1> QED
    BY <1>1, <1>5, <1>8 DEF S, B

\* The count of the bytes is what its equations say.
LEMMA CountedEquations ==
  ASSUME FileInfoAssumption, NEW info \in Seq(Entries), NEW max \in Nat
  PROVE  /\ Counted(info, max)[0] = 0
         /\ \A k \in 1 .. Len(info) :
              Counted(info, max)[k] = CountEntry(Counted(info, max)[k - 1], info[k], max)
  <1> DEFINE n == Len(info)
             F == [k \in 1 .. n |-> [x \in Int |-> CountEntry(x, info[k], max)]]
             Is(g) == g = [k \in 0 .. n |->
                             IF k = 0 THEN 0 ELSE CountEntry(g[k - 1], info[k], max)]
  <1>1. n \in Nat /\ \A k \in 1 .. n : info[k] \in Entries
    OBVIOUS
  <1>2. ASSUME NEW k \in 1 .. n, NEW x \in Int PROVE CountEntry(x, info[k], max) \in Int
    <2>1. Size(info[k]) \in Nat
      BY <1>1 DEF Size, Entries, FileInfoAssumption
    <2> QED
      BY <2>1 DEF CountEntry
  <1> HIDE DEF n
  <1>3. Turns(F, n, Int)
    BY <1>2 DEF Turns
  <1>4. PICK g : Outcome(g, F, n, Int, 0)
    <2> DEFINE Totals == Int
    <2>1. 0 \in Totals /\ Turns(F, n, Totals)
      BY <1>3
    <2> HIDE DEF F, Totals
    <2>2. \E g : Outcome(g, F, n, Totals, 0)
      BY <1>1, <2>1, LoopExists
    <2> QED
      BY <2>2 DEF Totals
  <1>5. \A k \in 1 .. n : F[k][g[k - 1]] = CountEntry(g[k - 1], info[k], max)
    <2> SUFFICES ASSUME NEW k \in 1 .. n PROVE F[k][g[k - 1]] = CountEntry(g[k - 1], info[k], max)
      OBVIOUS
    <2>1. k - 1 \in 0 .. n
      BY <1>1
    <2>2. g[k - 1] \in Int
      BY <1>4, <2>1 DEF Outcome
    <2> QED
      BY <2>2
  <1>6. \A k \in 0 .. n : g[k] = IF k = 0 THEN 0 ELSE CountEntry(g[k - 1], info[k], max)
    <2> HIDE DEF F
    <2>1. g[0] = 0 /\ \A k \in 1 .. n : g[k] = F[k][g[k - 1]]
      BY <1>4 DEF Outcome
    <2>2. \A k \in 0 .. n : k # 0 => k \in 1 .. n
      BY <1>1
    <2> QED
      BY <1>5, <2>1, <2>2
  <1>7. Is(g)
    <2>1. g = [k \in 0 .. n |-> g[k]]
      BY <1>4 DEF Outcome
    <2> QED
      BY <1>6, <2>1
  <1>8. Counted(info, max) = CHOOSE f : Is(f)
    BY DEF Counted, n
  <1> DEFINE f == Counted(info, max)
  <1>9. Is(f)
    BY <1>7, <1>8
  <1> HIDE DEF f
  <1>10. f[0] = 0 /\ \A k \in 1 .. n : f[k] = CountEntry(f[k - 1], info[k], max)
    <2>1. 0 \in 0 .. n /\ \A k \in 1 .. n : k \in 0 .. n /\ k # 0
      BY <1>1
    <2> QED
      BY <1>9, <2>1
  <1> QED
    BY <1>10 DEF f, n

\* The limits on keys and bytes, counted entry by entry, are those of all the entries.
LEMMA CountIsBytes ==
  ASSUME FileInfoAssumption, NEW info \in Seq(Entries), NEW max \in Nat,
         \A i, j \in 1 .. Len(info) : info[i].key = info[j].key => i = j
  PROVE  Counted(info, max)[Len(info)] # -1 <=>
           /\ \A e \in ToSet(info) : Legal(e)
           /\ Cardinality(BytesOf(ToSet(info))) <= max
  <1> DEFINE f == Counted(info, max)
             n == Len(info)
             Set(k) == {info[j] : j \in 1 .. k}
             Bytes(k) == Cardinality(BytesOf(Set(k)))
             Within(k) == (\A e \in Set(k) : Legal(e)) /\ Bytes(k) <= max
             Right == {k \in 0 .. n : /\ IsFiniteSet(BytesOf(Set(k)))
                                      /\ f[k] = IF Within(k) THEN Bytes(k) ELSE -1}
  <1>1. n \in Nat /\ DOMAIN info = 1 .. n /\ \A k \in 1 .. n : info[k] \in Entries
    OBVIOUS
  <1>2. f[0] = 0 /\ \A k \in 1 .. n : f[k] = CountEntry(f[k - 1], info[k], max)
    BY CountedEquations
  <1>3. \A i, j \in 1 .. n : info[i].key = info[j].key => i = j
    OBVIOUS
  <1> HIDE DEF f, n
  <1>4. 0 \in Right
    <2>1. Set(0) = {}
      OBVIOUS
    <2>2. BytesOf({}) = {}
      BY DEF BytesOf
    <2>3. IsFiniteSet(BytesOf(Set(0))) /\ Bytes(0) = 0
      BY <2>1, <2>2, FS_EmptySet
    <2>4. Within(0)
      BY <2>1, <2>3
    <2>5. 0 \in 0 .. n
      BY <1>1
    <2> HIDE DEF Set, Bytes, Within
    <2> QED
      BY <1>2, <2>3, <2>4, <2>5
  <1>5. ASSUME NEW k \in 1 .. n, k - 1 \in Right PROVE k \in Right
    <2> DEFINE e == info[k]
    <2>1. k - 1 \in 0 .. n /\ k \in 0 .. n /\ 1 .. k = (1 .. k - 1) \cup {k}
      BY <1>1
    <2>2. Set(k) = Set(k - 1) \cup {e}
      BY <2>1
    <2>3. e \notin Set(k - 1)
      <3>1. \A j \in 1 .. k - 1 : j \in 1 .. n /\ j # k
        BY <1>1
      <3> QED
        BY <1>3, <3>1
    <2>4. Size(e) \in Nat
      BY <1>1 DEF Size, Entries, FileInfoAssumption
    <2>5. KeyBytes[e.key] \in Nat /\ MaxKeyBytes \in Nat
      BY <1>1 DEF Entries, FileInfoAssumption
    <2>6. IsFiniteSet(BytesOf(Set(k - 1))) /\ f[k - 1] = IF Within(k - 1) THEN Bytes(k - 1) ELSE -1
      BY <1>5
    <2>7. f[k] = CountEntry(f[k - 1], e, max)
      BY <1>2
    <2> HIDE DEF Set, e
    <2>8. IsFiniteSet(BytesOf(Set(k))) /\ Bytes(k) = Bytes(k - 1) + Size(e)
      BY <2>2, <2>3, <2>4, <2>6, BytesGrow
    <2>9. Bytes(k - 1) \in Nat
      BY <2>6, FS_CardinalityType
    <2>10. (\A x \in Set(k) : Legal(x)) <=> (\A x \in Set(k - 1) : Legal(x)) /\ Legal(e)
      BY <2>2
    <2> HIDE DEF Bytes
    <2>11. CASE Within(k - 1) /\ Legal(e) /\ Size(e) <= max - Bytes(k - 1)
      <3>1. Within(k) /\ f[k - 1] = Bytes(k - 1) /\ Bytes(k - 1) <= max
        BY <2>4, <2>6, <2>8, <2>9, <2>10, <2>11
      <3>2. f[k] = Bytes(k)
        <4> HIDE DEF Within
        <4> QED
          BY <2>4, <2>7, <2>8, <2>9, <2>11, <2>5, <3>1 DEF CountEntry, Legal
      <3> HIDE DEF Within
      <3> QED
        BY <2>1, <2>8, <3>1, <3>2
    <2>12. CASE ~(Within(k - 1) /\ Legal(e) /\ Size(e) <= max - Bytes(k - 1))
      <3>1. ~Within(k)
        BY <2>4, <2>8, <2>9, <2>10, <2>12
      <3>2. CASE Within(k - 1)
        <4>1. f[k - 1] = Bytes(k - 1) /\ Bytes(k - 1) <= max
          BY <2>6, <3>2
        <4>2. ~Legal(e) \/ Size(e) > max - Bytes(k - 1)
          <5> HIDE DEF Within
          <5> QED
            BY <2>4, <2>9, <2>12, <3>2
        <4>3. e.key \notin LegalKeys \/ KeyBytes[e.key] > MaxKeyBytes \/ Size(e) > max - Bytes(k - 1)
          BY <2>5, <4>2 DEF Legal
        <4>4. f[k] = -1
          <5> HIDE DEF Within
          <5> QED
            BY <2>4, <2>7, <2>9, <4>1, <4>3 DEF CountEntry
        <4> HIDE DEF Within
        <4> QED
          BY <2>1, <2>8, <3>1, <4>4
      <3>3. CASE ~Within(k - 1)
        <4> HIDE DEF Within
        <4>1. f[k] = -1
          BY <2>6, <2>7, <3>3 DEF CountEntry
        <4> QED
          BY <2>1, <2>8, <3>1, <4>1
      <3> QED
        BY <3>2, <3>3
    <2> QED
      BY <2>11, <2>12
  <1>6. f[n] = IF Within(n) THEN Bytes(n) ELSE -1
    <2> HIDE DEF Right
    <2>1. 0 .. n \subseteq Right
      BY <1>1, <1>4, <1>5, LoopInduction
    <2>2. n \in Right
      BY <1>1, <2>1
    <2> QED
      BY <2>2 DEF Right
  <1>7. Set(n) = ToSet(info)
    BY <1>1 DEF ToSet
  <1>8. IsFiniteSet(BytesOf(Set(n)))
    <2> HIDE DEF Right
    <2>1. 0 .. n \subseteq Right
      BY <1>1, <1>4, <1>5, LoopInduction
    <2>2. n \in Right
      BY <1>1, <2>1
    <2> QED
      BY <2>2 DEF Right
  <1>9. Bytes(n) \in Nat
    BY <1>8, FS_CardinalityType
  <1>10. f[n] # -1 <=> Within(n)
    <2> HIDE DEF Within, Bytes
    <2> QED
      BY <1>6, <1>9
  <1> QED
    BY <1>7, <1>10 DEF f, n

Within(asked, max) ==
  /\ Cardinality(asked) <= MaxEntries
  /\ \A e \in asked : Legal(e)
  /\ Cardinality(BytesOf(asked)) <= max

\* validateFileInfo asks for the limits as well, and changes nothing else.
LEMMA Validated ==
  ASSUME FileInfoAssumption, NEW max \in Nat,
         NEW r, NEW A, NEW n, NEW met, StandsFor(r, A, n, met),
         NEW both, both = (met /\ Within(A, max))
  PROVE  StandsFor(ValidateFileInfo(r, max), A, n, both)
  <1> DEFINE s == ValidateFileInfo(r, max)
  <1>1. Rejected \in Results /\ ~Rejected.ok
    BY DEF Rejected, Results
  <1>2. n \in Nat /\ both \in BOOLEAN
    BY DEF StandsFor
  <1>3. CASE r.ok
    <2>1. /\ r.info \in Seq(Entries) /\ Len(r.info) = n /\ ToSet(r.info) = A
          /\ \A i, j \in 1 .. n : r.info[i].key = r.info[j].key => i = j
      BY <1>3 DEF StandsFor, Results
    <2>2. Counted(r.info, max)[n] # -1 <=>
            (\A e \in A : Legal(e)) /\ Cardinality(BytesOf(A)) <= max
      <3>1. \A i, j \in 1 .. Len(r.info) : r.info[i].key = r.info[j].key => i = j
        BY <2>1
      <3> QED
        BY <2>1, <3>1, CountIsBytes
    <2>3. Cardinality(A) = n
      <3>1. Cardinality(KeysOf(A)) = n /\ Cardinality(A) \in Nat
        BY <1>3, FS_CardinalityType DEF StandsFor
      <3> QED
        BY <3>1 DEF StandsFor
    <2>4. CASE Within(A, max)
      <3>1. s = r
        BY <1>3, <2>1, <2>2, <2>3, <2>4 DEF ValidateFileInfo, Within
      <3>2. both <=> met
        BY <2>4
      <3> HIDE DEF s
      <3> QED
        BY <1>2, <3>1, <3>2 DEF StandsFor, s
    <2>5. CASE ~Within(A, max)
      <3>1. s = Rejected
        BY <1>3, <2>1, <2>2, <2>3, <2>5 DEF ValidateFileInfo, Within
      <3>2. ~both
        BY <2>5
      <3> HIDE DEF s
      <3> QED
        BY <1>1, <1>2, <3>1, <3>2 DEF StandsFor, s
    <2> QED
      BY <2>4, <2>5
  <1>4. CASE ~r.ok
    <2>1. s = Rejected
      BY <1>4 DEF ValidateFileInfo
    <2>2. ~(both /\ Cardinality(KeysOf(A)) = n)
      BY <1>4 DEF StandsFor
    <2> HIDE DEF s
    <2> QED
      BY <1>1, <1>2, <2>1, <2>2 DEF StandsFor, s
  <1> QED
    BY <1>3, <1>4

\* Finitely many entries have finitely many bytes.
LEMMA BytesFinite ==
  ASSUME NEW A, IsFiniteSet(A), \A e \in A : Size(e) \in Nat
  PROVE  IsFiniteSet(BytesOf(A))
  <1> DEFINE T == {{e} \X (1 .. Size(e)) : e \in A}
             f == [e \in A |-> {e} \X (1 .. Size(e))]
  <1>1. f \in Surjection(A, T)
    BY DEF Surjection
  <1>2. IsFiniteSet(T)
    <2> HIDE DEF T, f
    <2> QED
      BY <1>1, FS_Surjection
  <1>3. ASSUME NEW e \in A PROVE IsFiniteSet({e} \X (1 .. Size(e)))
    <2>1. IsFiniteSet({e})
      BY FS_Singleton
    <2>2. Size(e) \in Int
      OBVIOUS
    <2>3. IsFiniteSet(1 .. Size(e))
      BY <2>2, FS_Interval
    <2> QED
      BY <2>1, <2>3, FS_Product
  <1>4. \A S \in T : IsFiniteSet(S)
    BY <1>3
  <1>5. IsFiniteSet(UNION T)
    <2> HIDE DEF T
    <2> QED
      BY <1>2, <1>4, FS_UNION
  <1> QED
    BY <1>5 DEF BytesOf

\* What is within the limits with one entry more is so without it.
LEMMA WithinFewer ==
  ASSUME FileInfoAssumption, NEW max \in Nat,
         NEW A \in SUBSET Entries, IsFiniteSet(A), NEW x \in Entries, Within(A \cup {x}, max)
  PROVE  Within(A, max)
  <1> DEFINE B == A \cup {x}
  <1>1. IsFiniteSet(B) /\ A \in SUBSET B
    BY FS_AddElement
  <1>2. \A e \in B : Size(e) \in Nat
    BY DEF Entries, Size, FileInfoAssumption
  <1>3. Within(B, max)
    OBVIOUS
  <1> HIDE DEF B
  <1>4. IsFiniteSet(BytesOf(B)) /\ BytesOf(A) \in SUBSET BytesOf(B)
    BY <1>1, <1>2, BytesFinite DEF BytesOf
  <1>5. /\ Cardinality(A) <= Cardinality(B) /\ Cardinality(A) \in Nat /\ Cardinality(B) \in Nat
    BY <1>1, FS_Subset, FS_CardinalityType
  <1>6. /\ Cardinality(BytesOf(A)) <= Cardinality(BytesOf(B))
        /\ Cardinality(BytesOf(A)) \in Nat /\ Cardinality(BytesOf(B)) \in Nat
    BY <1>4, FS_Subset, FS_CardinalityType
  <1>7. MaxEntries \in Nat
    BY DEF FileInfoAssumption
  <1>8. \A e \in A : Legal(e)
    BY <1>1, <1>3 DEF Within
  <1> QED
    BY <1>3, <1>5, <1>6, <1>7, <1>8 DEF Within

---------------------------------------------------------------------------
(* The plan. *)

\* The metadata of an upload: for any list of `file-info` lines, any header inputs, any limits,
\* a plan carries exactly what is asked for, and is refused only if the entries, all
\* together, cannot be granted.  parseFileInfo, parseInputs and prepareUploadPlan, entry by
\* entry and check by check, decide what one look at the whole would.
THEOREM ExactPlans ==
  ASSUME FileInfoAssumption,
         NEW Line, \A e \in Line : "key" \in DOMAIN e => e.key \in InfoKeys /\ e.bytes \in Nat,
         NEW entries \in Seq(Line), NEW headers \in Seq(Entries),
         NEW preserveMtime \in BOOLEAN, NEW encrypted \in BOOLEAN
  PROVE  PlanIsExact(entries, headers, preserveMtime, encrypted)
  <1> DEFINE max    == TotalMaxBytes(encrypted)
             r1     == ParseFileInfo(entries)
             r2     == AddAll(r1, headers, TRUE)
             r3     == ValidateFileInfo(r2, max)
             plan   == Plan(entries, headers, preserveMtime, encrypted)
             mtime  == Entry(MtimeKey, MtimeBytes)
             A      == LowerCased(entries) \cup LowerCased(headers)
             n      == Len(entries) + Len(headers)
             Formed == \A e \in ToSet(entries) : Fine(e, FALSE)
             asked  == Asked(entries, headers, preserveMtime)
             number == n + (IF preserveMtime THEN 1 ELSE 0)
  <1>1. max \in Nat
    BY DEF TotalMaxBytes, FileInfoAssumption
  <1>2. n \in Nat /\ Len(entries) \in Nat /\ Len(headers) \in Nat
    OBVIOUS
  <1>3. StandsFor(Of(<<>>), {}, 0, TRUE)
    <2>1. KeysOf({}) = {}
      BY DEF KeysOf
    <2>2. IsFiniteSet({}) /\ Cardinality({}) = 0
      BY FS_EmptySet
    <2>3. Of(<<>>) \in Results /\ Of(<<>>).ok /\ Of(<<>>).info = <<>>
      BY DEF Of, Results
    <2>4. Len(<<>>) = 0 /\ ToSet(<<>>) = {}
      BY DEF ToSet
    <2>5. \A i \in 1 .. 0 : FALSE
      OBVIOUS
    <2> DEFINE r == Of(<<>>)
    <2>6. r \in Results /\ r.ok /\ Len(r.info) = 0 /\ ToSet(r.info) = {}
      BY <2>3, <2>4
    <2> HIDE DEF r
    <2>7. IsFiniteSet(KeysOf({})) /\ Cardinality(KeysOf({})) = 0
      BY <2>1, <2>2
    <2>8. StandsFor(r, {}, 0, TRUE)
      <3>1. 0 <= 0 /\ 0 \in Nat /\ TRUE \in BOOLEAN
        OBVIOUS
      <3>2. r.ok <=> TRUE /\ Cardinality(KeysOf({})) = 0
        BY <2>6, <2>7
      <3>3. \A i, j \in 1 .. 0 : r.info[i].key = r.info[j].key => i = j
        BY <2>5
      <3>4. Cardinality(KeysOf({})) <= Cardinality({}) /\ Cardinality({}) <= 0
        BY <2>2, <2>7, <3>1
      <3> QED
        BY <2>2, <2>6, <2>7, <3>1, <3>2, <3>3, <3>4, Zenon DEF StandsFor
    <2> QED
      BY <2>8 DEF r
  <1>4. StandsFor(r1, LowerCased(entries), Len(entries), Formed)
    <2>1. StandsFor(r1, {} \cup LowerCased(entries), 0 + Len(entries),
                    TRUE /\ \A e \in ToSet(entries) : Fine(e, FALSE))
      BY <1>3, AddMany DEF ParseFileInfo
    <2>2. {} \cup LowerCased(entries) = LowerCased(entries) /\ 0 + Len(entries) = Len(entries)
      BY <1>2
    <2>3. Formed = (TRUE /\ \A e \in ToSet(entries) : Fine(e, FALSE))
      OBVIOUS
    <2> HIDE DEF Formed, r1
    <2> QED
      BY <2>1, <2>2, <2>3
  <1> HIDE DEF Formed, r1
  <1>5. StandsFor(r2, A, n, Formed)
    <2>1. \A e \in Entries : "key" \in DOMAIN e /\ e.key \in InfoKeys /\ e.bytes \in Nat
      BY DEF Entries
    <2>2. StandsFor(r2, LowerCased(entries) \cup LowerCased(headers), Len(entries) + Len(headers),
                    Formed /\ \A e \in ToSet(headers) : Fine(e, TRUE))
      BY <1>4, <2>1, AddMany
    <2>3. \A e \in ToSet(headers) : Fine(e, TRUE)
      BY <2>1 DEF ToSet, Fine
    <2>4. Formed = (Formed /\ \A e \in ToSet(headers) : Fine(e, TRUE))
      <3>1. Formed \in BOOLEAN
        BY DEF Formed
      <3> QED
        BY <2>3, <3>1
    <2> HIDE DEF r2
    <2> QED
      BY <2>2, <2>4
  <1>6. StandsFor(r3, A, n, Formed /\ Within(A, max))
    <2> HIDE DEF r2, A, n, max
    <2> QED
      BY <1>1, <1>5, Validated
  <1> DEFINE m3 == Formed /\ Within(A, max)
  <1>7. mtime \in Entries /\ "key" \in DOMAIN mtime /\ Lowered(mtime) = mtime /\ Fine(mtime, TRUE)
    BY DEF Entries, Entry, Lowered, Fine, FileInfoAssumption
  <1>8. asked = IF preserveMtime THEN A \cup {mtime} ELSE A
    BY DEF Asked, LowerCased, Lowered
  <1>9. number = IF preserveMtime THEN n + 1 ELSE n
    BY <1>2
  <1>10. Formed /\ preserveMtime /\ Within(asked, max) => Within(A, max)
    <2> SUFFICES ASSUME Formed, preserveMtime, Within(asked, max) PROVE Within(A, max)
      OBVIOUS
    <2>1. ASSUME NEW e \in ToSet(entries) PROVE Lowered(e) \in Entries
      <3>1. e \in Line /\ "key" \in DOMAIN e
        BY DEF ToSet, Formed, Fine
      <3> QED
        BY <3>1 DEF Lowered, Entry, Entries, FileInfoAssumption
    <2>2. ASSUME NEW e \in ToSet(headers) PROVE Lowered(e) \in Entries
      <3>1. e \in Entries
        BY DEF ToSet
      <3> QED
        BY <3>1 DEF Lowered, Entry, Entries, FileInfoAssumption
    <2>3. A \in SUBSET Entries
      BY <2>1, <2>2 DEF LowerCased
    <2>4. IsFiniteSet(A)
      BY <1>5 DEF StandsFor
    <2>5. Within(A \cup {mtime}, max)
      BY <1>8
    <2> HIDE DEF A, mtime, max
    <2> QED
      BY <1>1, <1>7, <2>3, <2>4, <2>5, WithinFewer
  <1>11. /\ plan.ok <=> /\ Formed /\ Within(asked, max)
                        /\ Cardinality(KeysOf(asked)) = number
         /\ plan.ok => ToSet(plan.info) = asked
    <2>1. CASE ~preserveMtime
      <3>1. plan = ValidateFileInfo(r3, max)
        BY <2>1 DEF Plan, BuildUploadFileInfo, ParseInputs, r1
      <3> HIDE DEF r3, A, n, max, plan
      <3>2. StandsFor(plan, A, n, m3 /\ Within(A, max))
        <4> HIDE DEF m3
        <4>1. StandsFor(r3, A, n, m3)
          BY <1>6 DEF m3
        <4> QED
          BY <1>1, <3>1, <4>1, Validated
      <3> QED
        BY <1>8, <1>9, <2>1, <3>2 DEF StandsFor
    <2>2. CASE preserveMtime
      <3> DEFINE r5 == AddEntry(r3, mtime, TRUE)
                 m5 == m3 /\ Fine(mtime, TRUE)
      <3>1. HasOwn(r3.info, MtimeKey) => r5 = Rejected
        BY DEF AddEntry, AddFileInfo, Entry, FileInfoAssumption
      <3>2. AddFileInfo(Rejected, MtimeKey, MtimeBytes, TRUE) = Rejected
        BY DEF AddFileInfo, Rejected
      <3>3. r5 = AddFileInfo(r3, MtimeKey, MtimeBytes, TRUE)
        BY DEF AddEntry, Entry
      <3>4. plan = ValidateFileInfo(r5, max)
        <4> HIDE DEF r5, r3, max
        <4>1. ParseInputs(entries, headers, preserveMtime, encrypted) =
                IF HasOwn(r3.info, MtimeKey) THEN Rejected ELSE r3
          BY <2>2 DEF ParseInputs, r1, r3, max
        <4>2. BuildUploadFileInfo(ParseInputs(entries, headers, preserveMtime, encrypted), preserveMtime)
                = r5
          BY <2>2, <3>1, <3>2, <3>3, <4>1 DEF BuildUploadFileInfo
        <4> QED
          BY <4>2 DEF Plan, max
      <3>5. StandsFor(r5, A \cup {mtime}, n + 1, m5)
        <4> HIDE DEF r3, A, n, mtime, m3
        <4>1. StandsFor(r3, A, n, m3)
          BY <1>6 DEF m3
        <4>2. mtime.key \in InfoKeys /\ mtime.bytes \in Nat
          BY <1>7 DEF Entries
        <4>3. StandsFor(r5, A \cup {Lowered(mtime)}, n + 1, m5)
          BY <4>1, <4>2, AddOne
        <4> QED
          BY <1>7, <4>3
      <3> DEFINE B == A \cup {mtime}
      <3>6. StandsFor(plan, B, n + 1, m5 /\ Within(B, max))
        <4> HIDE DEF r5, m5, B, n, max, plan
        <4>1. StandsFor(r5, B, n + 1, m5)
          BY <3>5 DEF B
        <4> QED
          BY <1>1, <3>4, <4>1, Validated
      <3>7. asked = B /\ number = n + 1
        BY <1>8, <1>9, <2>2
      <3> HIDE DEF A, n, max, plan, asked, number, mtime, B
      <3>8. m5 /\ Within(B, max) <=> Formed /\ Within(asked, max)
        BY <1>7, <1>10, <2>2, <3>7
      <3> HIDE DEF m5
      <3>9. /\ plan.ok <=> (m5 /\ Within(B, max)) /\ Cardinality(KeysOf(B)) = n + 1
            /\ plan.ok => ToSet(plan.info) = B
        BY <3>6 DEF StandsFor
      <3> QED
        BY <3>7, <3>8, <3>9
    <2> QED
      BY <2>1, <2>2
  <1>12. Grantable(entries, headers, preserveMtime, encrypted) <=>
           Formed /\ Within(asked, max) /\ Cardinality(KeysOf(asked)) = number
    BY DEF Grantable, Formed, Fine, Within, Legal, KeysOf
  <1> HIDE DEF plan, asked
  <1> QED
    BY <1>11, <1>12 DEF PlanIsExact, plan, asked
=============================================================================

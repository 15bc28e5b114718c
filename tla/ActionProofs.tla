---------------------------- MODULE ActionProofs ----------------------------
(***************************************************************************)
(* Proofs about Action.tla, for any number of versions, any limit of the   *)
(* SDK's retries and any uploads whose checked digests are right: the      *)
(* inductive invariant and the safety properties that follow from it.      *)
(***************************************************************************)
EXTENDS Action, TLAPS

USE ActionAssumption

\* Which command waits for which request, and what it has found by then.
RequestInv ==
  /\ outcome = "running" <=> pc # "done"
  /\ pc # "done" => retryable = "unset" /\ verified = "unset"
  /\ pc \in {"start", "find", "history", "head"} => found = None /\ effects = {}
  /\ pc \in {"copy", "retain", "hold", "remove"} => found \in Ids
  /\ pc = "start" => answer = None
  /\ pc = "find" => command \in {"copy", "retention"}
  /\ pc = "copy" => command = "copy"
  /\ pc \in {"retain", "hold"} => command = "retention"
  /\ pc \in {"history", "remove"} => command = "unhide"
  /\ pc = "head" => command \in {"head", "verify"}
  /\ pc = "hide" => command = "hide"
  /\ pc = "work" => command \notin {"copy", "retention", "unhide", "head", "verify", "hide"}

\* Versions are used up in order, and every upload is one of the objects.
HistoryInv ==
  /\ \A v \in Ids : v >= next => versions[v].is = "unused"
  /\ \A v \in Ids : versions[v].is = "upload" => versions[v].object \in Objects
  /\ answer < next /\ found < next /\ \A v \in effects : v < next
  /\ pc = "head" /\ answer # None => versions[answer].object \in Objects
  /\ Shown => seen

\* An answer names what was done.
AnswerInv ==
  /\ reply = "ok" /\ pc \in {"copy", "hide", "remove"} => answer \in effects
  /\ reply = "ok" /\ pc \in {"retain", "hold"} => found \in effects
  /\ reply = "ok" /\ pc = "head" => answer \in Ids

\* A retry is offered to commands that change nothing.
HarmlessInv ==
  /\ SafeToRetry => effects = {}
  /\ retryable = "true" => SafeToRetry

\* A copy has found what it copies.
CopyInv == command = "copy" /\ effects # {} => found \in Ids

\* What was never shown is never answered.
HiddenInv ==
  command \in {"copy", "retention", "head"} /\ ~seen => answer = None /\ found = None

Inv ==
  /\ TypeOK /\ RequestInv /\ HistoryInv /\ AnswerInv /\ HarmlessInv /\ CopyInv /\ HiddenInv
  /\ ChangesAreReported /\ HiddenStaysOutOfReach /\ VerdictIsTrue

---------------------------------------------------------------------------
(* Helpers. *)

\* What Put and Remove leave behind.
LEMMA PutKeeps ==
  ASSUME TypeOK, HistoryInv, NEW n \in Names, NEW kind \in {"upload", "hide"},
         NEW o \in Objects \cup {NoObject}, kind = "upload" => o \in Objects, Put(kind, n, o)
  PROVE  /\ next \in Ids /\ next' = next + 1 /\ next' \in 1 .. MaxId + 1
         /\ versions' \in [Ids -> Version]
         /\ versions'[next].object = o
         /\ \A v \in Ids : v < next => versions'[v] = versions[v]
         /\ \A v \in Ids : v >= next' => versions'[v].is = "unused"
         /\ \A v \in Ids : versions'[v].is = "upload" => versions'[v].object \in Objects
  <1> DEFINE new == New(kind, n, o)
  <1>1. next \in Ids /\ next' = next + 1 /\ next' \in 1 .. MaxId + 1
    BY DEF Put, TypeOK, Ids
  <1>2. new \in Version /\ new.is = kind /\ new.object = o
    BY DEF New, Version
  <1>3. versions' = [versions EXCEPT ![next] = new]
    BY DEF Put
  <1> HIDE DEF new
  <1>4. versions' \in [Ids -> Version] /\ versions'[next] = new
    BY <1>1, <1>2, <1>3 DEF TypeOK
  <1>5. \A v \in Ids : v # next => versions'[v] = versions[v]
    BY <1>3 DEF TypeOK
  <1>6. \A v \in Ids : v >= next' => v # next /\ v >= next
    BY <1>1 DEF Ids
  <1>7. \A v \in Ids : v < next => v # next
    BY <1>1 DEF Ids
  <1>8. \A v \in Ids : versions'[v].is = "upload" => versions'[v].object \in Objects
    BY <1>1, <1>2, <1>4, <1>5 DEF HistoryInv
  <1> QED
    BY <1>1, <1>2, <1>4, <1>5, <1>6, <1>7, <1>8 DEF HistoryInv

LEMMA RemoveKeeps ==
  ASSUME TypeOK, HistoryInv, NEW v \in Ids, Remove(v)
  PROVE  /\ next' = next /\ v < next
         /\ versions' \in [Ids -> Version]
         /\ \A w \in Ids : versions'[w].object = versions[w].object
         /\ \A w \in Ids : w >= next' => versions'[w].is = "unused"
         /\ \A w \in Ids : versions'[w].is = "upload" => versions'[w].object \in Objects
  <1>1. next' = next /\ versions' = [versions EXCEPT ![v].is = "gone"]
        /\ versions[v].is \in {"upload", "hide"}
    BY DEF Remove
  <1>2. v < next
    BY <1>1 DEF HistoryInv, TypeOK, Ids
  <1>3. versions[v] \in Version /\ versions \in [Ids -> Version]
    BY DEF TypeOK
  <1>4. [versions[v] EXCEPT !.is = "gone"] \in Version
        /\ [versions[v] EXCEPT !.is = "gone"].object = versions[v].object
        /\ [versions[v] EXCEPT !.is = "gone"].is = "gone"
    BY <1>3 DEF Version
  <1>5. versions'[v] = [versions[v] EXCEPT !.is = "gone"]
        /\ \A w \in Ids : w # v => versions'[w] = versions[w]
    BY <1>1, <1>3
  <1>6. versions' \in [Ids -> Version]
    BY <1>1, <1>3, <1>4
  <1>7. \A w \in Ids : w >= next' => w # v
    BY <1>1, <1>2 DEF Ids, TypeOK
  <1> QED
    BY <1>1, <1>2, <1>4, <1>5, <1>6, <1>7 DEF HistoryInv

\* What a change of a version's lock leaves behind.
LEMMA LockKeeps ==
  ASSUME TypeOK, HistoryInv, NEW v \in Ids, versions[v].is = "upload", NEW b \in BOOLEAN,
         \/ versions' = [versions EXCEPT ![v].retained = b]
         \/ versions' = [versions EXCEPT ![v].held = b]
  PROVE  /\ v < next
         /\ versions' \in [Ids -> Version]
         /\ \A w \in Ids : versions'[w].is = versions[w].is
                           /\ versions'[w].object = versions[w].object
  <1>1. v < next
    BY DEF HistoryInv, TypeOK, Ids
  <1>2. versions[v] \in Version /\ versions \in [Ids -> Version]
    BY DEF TypeOK
  <1>3. \A r \in {[versions[v] EXCEPT !.retained = b], [versions[v] EXCEPT !.held = b]} :
          r \in Version /\ r.is = versions[v].is /\ r.object = versions[v].object
    BY <1>2 DEF Version
  <1>4. PICK r \in {[versions[v] EXCEPT !.retained = b], [versions[v] EXCEPT !.held = b]} :
          versions' = [versions EXCEPT ![v] = r]
    OBVIOUS
  <1>5. versions'[v] = r /\ \A w \in Ids : w # v => versions'[w] = versions[w]
    BY <1>2, <1>4
  <1> QED
    BY <1>1, <1>2, <1>3, <1>4, <1>5

---------------------------------------------------------------------------
(* The invariant holds at first and is kept by every step. *)

\* Every state a step begins in satisfies the invariant.
LEMMA InitInv == Init => Inv
  <1> SUFFICES ASSUME Init PROVE Inv
    OBVIOUS
  <1>1. /\ Blank \in Version /\ Blank.is = "unused"
        /\ \A o \in Objects : /\ New("upload", "source", o) \in Version
                              /\ New("upload", "source", o).object = o
        /\ New("hide", "source", NoObject) \in Version
        /\ New("hide", "source", NoObject).is = "hide"
    BY DEF Blank, New, Version, Names
  <1> DEFINE Old == {Blank, New("hide", "source", NoObject)}
                      \cup {New("upload", "source", o) : o \in Objects}
  <1>2. /\ versions \in [Ids -> Version]
        /\ \A v \in Ids : v >= next => versions[v].is = "unused"
        /\ \A v \in Ids : versions[v].is = "upload" => versions[v].object \in Objects
    <2>1. versions \in [Ids -> Old] /\ \A v \in Ids : versions[v] = Blank <=> v >= next
      BY DEF Init
    <2>2. \A x \in Old : x \in Version /\ (x.is = "upload" => x.object \in Objects)
      BY <1>1
    <2> HIDE DEF Old
    <2> QED
      BY <1>1, <2>1, <2>2
  <1>3. TypeOK
    <2>1. /\ command \in Commands /\ dryRun \in BOOLEAN /\ target \in Names
          /\ mode \in {"unset", "on", "off"} /\ hold \in {"unset", "on", "off"}
          /\ expected \in Bytes \cup {NoSum}
      BY DEF Init, Names
    <2>2. next \in 1 .. MaxId + 1 /\ tries \in 0 .. MaxTries
      <3>1. next \in 1 .. Before + 1 /\ tries = 0
        BY DEF Init
      <3> QED
        BY <3>1
    <2>3. Shown \in BOOLEAN
      BY DEF Shown
    <2> QED
      BY <1>2, <2>1, <2>2, <2>3 DEF Init, TypeOK
  <1>4. answer < next /\ found < next
    <2>1. answer = None /\ found = None
      BY DEF Init
    <2> QED
      BY <1>3, <2>1 DEF TypeOK, None
  <1>5. RequestInv /\ AnswerInv /\ HarmlessInv /\ CopyInv /\ HiddenInv
    BY DEF Init, RequestInv, AnswerInv, HarmlessInv, CopyInv, HiddenInv
  <1>6. HistoryInv
    BY <1>2, <1>4 DEF Init, HistoryInv
  <1> QED
    BY <1>3, <1>5, <1>6
    DEF Init, Inv, ChangesAreReported, HiddenStaysOutOfReach, VerdictIsTrue

\* A step that opens a request.
LEMMA AskKeepsInv == Inv /\ (Start \/ Found \/ Hidden \/ Retained) => Inv'
  <1> SUFFICES ASSUME Inv, Start \/ Found \/ Hidden \/ Retained PROVE Inv'
    OBVIOUS
  <1> USE DEF Inv, Ask, None, inputs, bucket, outputs
  <1>1. 1 \in 0 .. MaxTries
    OBVIOUS
  <1>2. FirstRequest \in {"find", "history", "head", "hide", "work"}
    BY DEF FirstRequest
  <1>3. TypeOK'
    BY <1>1, <1>2 DEF TypeOK, Start, Found, Hidden, Retained
  <1>4. RequestInv'
    <2>1. CASE Start
      BY <2>1 DEF Start, RequestInv, FirstRequest
    <2>2. CASE Found \/ Hidden
      BY <2>2 DEF Found, Hidden, RequestInv, TypeOK
    <2>3. CASE Retained
      BY <2>3 DEF Retained, RequestInv
    <2> QED
      BY <2>1, <2>2, <2>3
  <1>5. HistoryInv'
    <2>1. Shown' = Shown
      BY DEF Start, Found, Hidden, Retained, Shown, Visible, IsLatest
    <2>2. 0 < next
      BY DEF TypeOK
    <2> QED
      BY <2>1, <2>2 DEF Start, Found, Hidden, Retained, HistoryInv
  <1>6. AnswerInv'
    BY DEF Start, Found, Hidden, Retained, AnswerInv
  <1>7. HarmlessInv'
    BY DEF Start, Found, Hidden, Retained, HarmlessInv, SafeToRetry
  <1>8. CopyInv' /\ HiddenInv' /\ HiddenStaysOutOfReach'
    BY DEF Start, Found, Hidden, Retained, CopyInv, HiddenInv, HiddenStaysOutOfReach, RequestInv
  <1>9. ChangesAreReported' /\ VerdictIsTrue'
    BY DEF Start, Found, Hidden, Retained, ChangesAreReported, VerdictIsTrue, RequestInv
  <1> QED
    BY <1>3, <1>4, <1>5, <1>6, <1>7, <1>8, <1>9

\* A step that ends the run as a failure.
LEMMA FailKeepsInv ==
  ASSUME Inv, pc # "done", NEW kind \in {"own", "refused", "transient"}, Fail(kind),
         UNCHANGED <<inputs, bucket, tries, reply, answer, found, fileId, verified>>
  PROVE  Inv'
  <1> USE DEF Inv, Fail, inputs, bucket
  <1>1. retryable' \in {"unset", "true", "false"} /\ (retryable' = "true" => SafeToRetry)
    BY DEF RequestInv
  <1>2. TypeOK'
    BY <1>1 DEF TypeOK
  <1>3. RequestInv' /\ AnswerInv' /\ CopyInv' /\ HiddenInv' /\ HiddenStaysOutOfReach'
    BY DEF RequestInv, AnswerInv, CopyInv, HiddenInv, HiddenStaysOutOfReach
  <1>4. Shown' = Shown
    BY DEF Shown, Visible, IsLatest
  <1>5. HistoryInv'
    BY <1>4 DEF HistoryInv
  <1>6. HarmlessInv'
    BY <1>1 DEF HarmlessInv, SafeToRetry
  <1>7. ChangesAreReported' /\ VerdictIsTrue'
    BY DEF ChangesAreReported, VerdictIsTrue, RequestInv
  <1> QED
    BY <1>2, <1>3, <1>5, <1>6, <1>7

\* Every way to fail.
LEMMA FailuresKeepInv ==
  Inv /\ (StartFails \/ NotFound \/ NothingToCompare \/ Cancelled \/ Refused \/ GiveUp) => Inv'
  <1> SUFFICES ASSUME Inv, StartFails \/ NotFound \/ NothingToCompare \/ Cancelled \/ Refused
                           \/ GiveUp
               PROVE  Inv'
    OBVIOUS
  <1>1. \E kind \in {"own", "refused", "transient"} :
          /\ pc # "done" /\ Fail(kind)
          /\ UNCHANGED <<inputs, bucket, tries, reply, answer, found, fileId, verified>>
    BY DEF StartFails, NotFound, NothingToCompare, Cancelled, Refused, GiveUp
  <1> QED
    BY <1>1, FailKeepsInv

\* A step that ends the run as a success, or by comparing.
LEMMA EndKeepsInv == Inv /\ (NotHidden \/ Finish \/ Compare \/ WorkEnds) => Inv'
  <1> SUFFICES ASSUME Inv, NotHidden \/ Finish \/ Compare \/ WorkEnds PROVE Inv'
    OBVIOUS
  <1> USE DEF Inv, Succeed, None, inputs, bucket
  <1>1. CASE NotHidden
    <2>1. Shown' = Shown
      BY <1>1 DEF NotHidden, Shown, Visible, IsLatest
    <2>2. TypeOK' /\ RequestInv' /\ AnswerInv' /\ CopyInv' /\ HiddenInv'
      BY <1>1 DEF NotHidden, TypeOK, RequestInv, AnswerInv, CopyInv, HiddenInv
    <2>3. HistoryInv' /\ HarmlessInv'
      BY <1>1, <2>1 DEF NotHidden, HistoryInv, HarmlessInv, SafeToRetry
    <2>4. ChangesAreReported' /\ HiddenStaysOutOfReach' /\ VerdictIsTrue'
      BY <1>1 DEF NotHidden, ChangesAreReported, HiddenStaysOutOfReach, VerdictIsTrue, RequestInv
    <2> QED
      BY <2>2, <2>3, <2>4
  <1>2. CASE Finish
    <2>1. Shown' = Shown
      BY <1>2 DEF Finish, Shown, Visible, IsLatest
    <2>2. TypeOK' /\ RequestInv' /\ AnswerInv' /\ CopyInv' /\ HiddenInv'
      BY <1>2 DEF Finish, TypeOK, RequestInv, AnswerInv, CopyInv, HiddenInv
    <2>3. HistoryInv' /\ HarmlessInv'
      BY <1>2, <2>1 DEF Finish, HistoryInv, HarmlessInv, SafeToRetry
    <2>4. ChangesAreReported'
      BY <1>2 DEF Finish, ChangesAreReported, RequestInv, AnswerInv
    <2>5. HiddenStaysOutOfReach'
      BY <1>2 DEF Finish, HiddenStaysOutOfReach, HiddenInv, RequestInv, AnswerInv, Ids
    <2>6. VerdictIsTrue'
      BY <1>2 DEF Finish, VerdictIsTrue, RequestInv
    <2> QED
      BY <2>2, <2>3, <2>4, <2>5, <2>6
  <1>3. CASE Compare
    <2> DEFINE o == versions[answer].object
    <2>1. pc = "head" /\ command = "verify" /\ answer \in Ids /\ o \in Objects /\ effects = {}
      BY <1>3 DEF Compare, AnswerInv, RequestInv, HistoryInv, Ids
    <2>2. PICK b \in BOOLEAN : b = (Comparable(o) /\ o.sum = expected)
      BY DEF Comparable
    <2>3. /\ verified' = IF b THEN "true" ELSE "false"
          /\ IF b THEN Succeed ELSE Fail("own")
          /\ found' = answer
          /\ UNCHANGED <<inputs, bucket, tries, reply, answer, fileId>>
      BY <1>3, <2>2 DEF Compare
    <2>4. retryable' = "unset" /\ pc' = "done"
          /\ outcome' = IF b THEN "succeeded" ELSE "failed"
      BY <2>1, <2>3 DEF Fail, RequestInv
    <2>5. b => o.bytes = expected
      BY <2>1, <2>2 DEF Comparable
    <2>6. Shown' = Shown
      BY <2>3 DEF Shown, Visible, IsLatest
    <2>7. TypeOK' /\ RequestInv' /\ AnswerInv' /\ CopyInv' /\ HiddenInv'
      BY <2>1, <2>3, <2>4 DEF TypeOK, RequestInv, AnswerInv, CopyInv, HiddenInv
    <2>8. HistoryInv' /\ HarmlessInv'
      BY <2>1, <2>3, <2>4, <2>6 DEF HistoryInv, HarmlessInv, SafeToRetry
    <2>9. ChangesAreReported' /\ HiddenStaysOutOfReach' /\ VerdictIsTrue'
      BY <2>1, <2>3, <2>4, <2>5 DEF ChangesAreReported, HiddenStaysOutOfReach, VerdictIsTrue
    <2> QED
      BY <2>7, <2>8, <2>9
  <1>4. CASE WorkEnds
    <2>1. CASE Succeed
      <3>1. Shown' = Shown
        BY <1>4 DEF WorkEnds, Shown, Visible, IsLatest
      <3>2. TypeOK' /\ RequestInv' /\ AnswerInv' /\ CopyInv' /\ HiddenInv'
        BY <1>4, <2>1 DEF WorkEnds, TypeOK, RequestInv, AnswerInv, CopyInv, HiddenInv
      <3>3. HistoryInv' /\ HarmlessInv'
        BY <1>4, <2>1, <3>1 DEF WorkEnds, HistoryInv, HarmlessInv, SafeToRetry
      <3>4. ChangesAreReported' /\ HiddenStaysOutOfReach' /\ VerdictIsTrue'
        BY <1>4, <2>1
        DEF WorkEnds, ChangesAreReported, HiddenStaysOutOfReach, VerdictIsTrue, RequestInv
      <3> QED
        BY <3>2, <3>3, <3>4
    <2>2. CASE \E kind \in {"own", "refused", "transient"} : Fail(kind)
      BY <1>4, <2>2, FailKeepsInv DEF WorkEnds
    <2> QED
      BY <1>4, <2>1, <2>2 DEF WorkEnds
  <1> QED
    BY <1>1, <1>2, <1>3, <1>4

\* A request that is read, refused, lost or sent again changes nothing in the bucket.
LEMMA ExchangeKeepsInv ==
  Inv /\ (LookUp \/ ReadHistory \/ Head \/ Refuse \/ Lose \/ Resend) => Inv'
  <1> SUFFICES ASSUME Inv, LookUp \/ ReadHistory \/ Head \/ Refuse \/ Lose \/ Resend
               PROVE  Inv'
    OBVIOUS
  <1> USE DEF Inv, Open, Reply, None, inputs, bucket, outputs
  <1>1. /\ UNCHANGED <<inputs, bucket, pc, found, outputs>>
        /\ tries' \in 0 .. MaxTries
        /\ reply' \in {"open", "ok", "refused", "lost"}
    BY DEF LookUp, ReadHistory, Head, Refuse, Lose, Resend, TypeOK
  <1>2. \/ answer' = answer /\ reply' # "ok"
        \/ pc = "find" /\ answer' = 0
        \/ pc = "history" /\ answer' \in {0} \cup {v \in Ids : IsLatest(v, "source")}
        \/ pc \in {"find", "head"} /\ answer' \in {v \in Ids : Visible(v, "source")}
    BY DEF LookUp, ReadHistory, Head, Refuse, Lose, Resend, ByName
  <1>3. Shown' = Shown
    BY <1>1 DEF Shown, Visible, IsLatest
  <1>4. \A v \in Ids : IsLatest(v, "source") => v < next
    BY DEF IsLatest, HistoryInv, TypeOK, Ids
  <1>5. \A v \in Ids : Visible(v, "source") =>
          v < next /\ versions[v].object \in Objects /\ seen
    BY <1>4 DEF Visible, Shown, HistoryInv
  <1>6. answer' \in Ids \cup {0} /\ answer' < next
    BY <1>2, <1>4, <1>5 DEF TypeOK, HistoryInv
  <1>7. TypeOK'
    BY <1>1, <1>6 DEF TypeOK
  <1>8. RequestInv' /\ HarmlessInv' /\ CopyInv' /\ ChangesAreReported' /\ VerdictIsTrue'
    <2>1. RequestInv'
      BY <1>1, <1>2 DEF RequestInv, LookUp, ReadHistory, Head, Refuse, Lose, Resend
    <2>2. HarmlessInv' /\ CopyInv'
      BY <1>1 DEF HarmlessInv, SafeToRetry, CopyInv
    <2>3. ChangesAreReported' /\ VerdictIsTrue'
      BY <1>1 DEF ChangesAreReported, VerdictIsTrue
    <2> QED
      BY <2>1, <2>2, <2>3
  <1>9. HistoryInv'
    <2>1. pc = "head" /\ answer' # None => versions[answer'].object \in Objects
      BY <1>2, <1>5 DEF HistoryInv
    <2> QED
      BY <1>1, <1>3, <1>6, <2>1 DEF HistoryInv
  <1>10. AnswerInv'
    BY <1>1, <1>2 DEF AnswerInv
  <1>11. HiddenInv' /\ HiddenStaysOutOfReach'
    BY <1>1, <1>2, <1>5 DEF HiddenInv, HiddenStaysOutOfReach, RequestInv
  <1> QED
    BY <1>7, <1>8, <1>9, <1>10, <1>11

\* What a change this run makes does to version v and to the rest of the bucket.
ChangeOf(v) ==
  /\ v < next' /\ next' \in 1 .. MaxId + 1 /\ next <= next'
  /\ versions' \in [Ids -> Version]
  /\ \A w \in Ids : w < next => versions'[w].object = versions[w].object
  /\ \A w \in Ids : w >= next' => versions'[w].is = "unused"
  /\ \A w \in Ids : versions'[w].is = "upload" => versions'[w].object \in Objects
  /\ effects' = effects \cup {v} /\ seen' = (seen \/ Shown')
  /\ UNCHANGED <<inputs, pc, tries, found, outputs>>
  /\ reply' \in {"open", "ok", "refused", "lost"}
  /\ \/ /\ pc = "work" /\ command \in {"upload", "sync", "delete", "purge"}
        /\ command = "upload" \/ ~dryRun
        /\ UNCHANGED <<answer, reply>>
     \/ pc = "hide" /\ seen /\ answer' = v
     \/ pc = "copy" /\ answer' = v /\ versions'[v].object = versions[found].object
     \/ pc \in {"remove", "retain", "hold"} /\ v = found /\ answer' = found

LEMMA ChangesOneVersion ==
  Inv /\ (Hide \/ RemoveMarker \/ Copy \/ Retain \/ Hold \/ Work) => \E v \in Ids : ChangeOf(v)
  <1> SUFFICES ASSUME Inv, Hide \/ RemoveMarker \/ Copy \/ Retain \/ Hold \/ Work
               PROVE  \E v \in Ids : ChangeOf(v)
    OBVIOUS
  <1> USE DEF Inv
  <1>1. ASSUME NEW n \in Names, NEW kind \in {"upload", "hide"},
               NEW o \in Objects \cup {NoObject}, kind = "upload" => o \in Objects,
               Put(kind, n, o)
        PROVE  /\ next \in Ids /\ next < next' /\ next' \in 1 .. MaxId + 1 /\ next <= next'
               /\ versions' \in [Ids -> Version] /\ versions'[next].object = o
               /\ \A w \in Ids : w < next => versions'[w].object = versions[w].object
               /\ \A w \in Ids : w >= next' => versions'[w].is = "unused"
               /\ \A w \in Ids : versions'[w].is = "upload" => versions'[w].object \in Objects
    BY <1>1, PutKeeps DEF Ids
  <1>2. ASSUME NEW v \in Ids, Remove(v)
        PROVE  /\ v < next' /\ next' \in 1 .. MaxId + 1 /\ next <= next'
               /\ versions' \in [Ids -> Version]
               /\ \A w \in Ids : w < next => versions'[w].object = versions[w].object
               /\ \A w \in Ids : w >= next' => versions'[w].is = "unused"
               /\ \A w \in Ids : versions'[w].is = "upload" => versions'[w].object \in Objects
    BY <1>2, RemoveKeeps DEF TypeOK
  <1>3. CASE Hide
    <2>1. Put("hide", "source", NoObject)
      BY <1>3 DEF Hide
    <2>2. seen
      BY <1>3 DEF Hide, HistoryInv
    <2>3. next \in Ids
      BY <1>1, <2>1 DEF Names
    <2>4. ChangeOf(next)
      BY <1>1, <1>3, <2>1, <2>2 DEF Hide, ChangeOf, Changed, Reply, Open, Names
    <2> QED
      BY <2>3, <2>4
  <1>4. CASE Copy
    <2>1. versions[found].object \in Objects /\ target \in Names
      BY <1>4 DEF Copy, RequestInv, HistoryInv, TypeOK
    <2>2. Put("upload", target, versions[found].object)
      BY <1>4 DEF Copy
    <2>3. next \in Ids
      BY <1>1, <2>1, <2>2
    <2>4. ChangeOf(next)
      BY <1>1, <1>4, <2>1, <2>2 DEF Copy, ChangeOf, Changed, Reply, Open
    <2> QED
      BY <2>3, <2>4
  <1>5. CASE RemoveMarker
    <2>1. found \in Ids /\ Remove(found)
      BY <1>5 DEF RemoveMarker, RequestInv
    <2>2. ChangeOf(found)
      BY <1>2, <1>5, <2>1 DEF RemoveMarker, ChangeOf, Changed, Reply, Open
    <2> QED
      BY <2>1, <2>2
  <1>6. CASE Retain \/ Hold
    <2>1. found \in Ids /\ versions[found].is = "upload" /\ UNCHANGED next
      BY <1>6 DEF Retain, Hold, RequestInv
    <2>2. \E b \in BOOLEAN : \/ versions' = [versions EXCEPT ![found].retained = b]
                             \/ versions' = [versions EXCEPT ![found].held = b]
      BY <1>6 DEF Retain, Hold
    <2>3. /\ found < next /\ versions' \in [Ids -> Version]
          /\ \A w \in Ids : versions'[w].is = versions[w].is
                            /\ versions'[w].object = versions[w].object
      BY <2>1, <2>2, LockKeeps
    <2>4. ChangeOf(found)
      BY <1>6, <2>1, <2>3 DEF Retain, Hold, ChangeOf, Changed, Reply, Open, TypeOK, HistoryInv
    <2> QED
      BY <2>1, <2>4
  <1>7. CASE Work
    <2>1. CASE \E o \in Objects : Put("upload", "destination", o) /\ Changed(next)
      <3>1. PICK o \in Objects : Put("upload", "destination", o) /\ Changed(next)
        BY <2>1
      <3>2. next \in Ids
        BY <1>1, <3>1 DEF Names
      <3>3. ChangeOf(next)
        BY <1>1, <1>7, <3>1 DEF Work, ChangeOf, Changed, Names, TypeOK
      <3> QED
        BY <3>2, <3>3
    <2>2. CASE \E v \in Ids : Remove(v) /\ Changed(v)
      <3>1. PICK v \in Ids : Remove(v) /\ Changed(v)
        BY <2>2
      <3>2. ChangeOf(v)
        BY <1>2, <1>7, <3>1 DEF Work, ChangeOf, Changed, TypeOK
      <3> QED
        BY <3>2
    <2> QED
      BY <1>7, <2>1, <2>2 DEF Work
  <1> QED
    BY <1>3, <1>4, <1>5, <1>6, <1>7

\* A change this run makes.
LEMMA ChangeKeepsInv ==
  Inv /\ (Hide \/ RemoveMarker \/ Copy \/ Retain \/ Hold \/ Work) => Inv'
  <1> SUFFICES ASSUME Inv, Hide \/ RemoveMarker \/ Copy \/ Retain \/ Hold \/ Work PROVE Inv'
    OBVIOUS
  <1>1. PICK v \in Ids : ChangeOf(v)
    BY ChangesOneVersion
  <1> USE <1>1 DEF Inv, ChangeOf, None, inputs, outputs
  <1>2. pc \in {"hide", "copy", "remove", "retain", "hold", "work"}
    OBVIOUS
  <1>3. answer' \in Ids \cup {0} /\ answer' < next' /\ found < next'
    BY DEF TypeOK, RequestInv, HistoryInv, Ids
  <1>4. Shown' \in BOOLEAN
    BY DEF Shown
  <1>5. TypeOK'
    BY <1>3, <1>4 DEF TypeOK
  <1>6. RequestInv'
    BY <1>2 DEF RequestInv
  <1>7. HistoryInv'
    <2>1. \A w \in effects' : w < next'
      <3>1. \A w \in effects : w < next /\ w \in Int
        BY DEF HistoryInv, TypeOK, Ids
      <3>2. next \in Int /\ next' \in Int /\ next <= next' /\ v < next'
        BY DEF TypeOK
      <3> QED
        BY <3>1, <3>2
    <2> QED
      BY <1>2, <1>3, <1>4, <2>1 DEF HistoryInv
  <1>8. AnswerInv'
    BY <1>2 DEF AnswerInv, RequestInv
  <1>9. HarmlessInv'
    <2>1. ~SafeToRetry
      BY DEF SafeToRetry, Reads, HonorsDryRun, RequestInv
    <2>2. SafeToRetry' = SafeToRetry /\ retryable' = retryable
      BY DEF SafeToRetry
    <2> QED
      BY <2>1, <2>2 DEF HarmlessInv
  <1>10. CopyInv'
    BY DEF CopyInv, RequestInv
  <1>11. HiddenInv' /\ HiddenStaysOutOfReach'
    <2>1. CASE pc \in {"copy", "retain", "hold"}
      <3>1. seen
        BY <2>1 DEF HiddenInv, RequestInv, Ids
      <3> QED
        BY <3>1 DEF HiddenInv, HiddenStaysOutOfReach
    <2>2. CASE pc \in {"work", "hide", "remove"}
      <3>1. command \notin {"copy", "retention", "head"}
        BY <2>2 DEF RequestInv
      <3> QED
        BY <3>1 DEF HiddenInv, HiddenStaysOutOfReach
    <2> QED
      BY <1>2, <2>1, <2>2
  <1>12. ChangesAreReported'
    <2>1. outcome' = "running"
      BY <1>2 DEF RequestInv
    <2>2. command \in {"retention", "unhide"} => effects' \subseteq {found}
      BY DEF ChangesAreReported, RequestInv
    <2>3. ASSUME command = "copy", NEW w \in effects'
          PROVE  versions'[w].object = versions'[found].object
      <3>1. found \in Ids /\ found < next /\ pc = "copy"
        BY <2>3 DEF RequestInv, HistoryInv
      <3>2. versions'[found].object = versions[found].object
        BY <3>1
      <3>3. CASE w = v
        BY <3>1, <3>2, <3>3
      <3>4. CASE w # v
        BY <2>3, <3>2, <3>4 DEF ChangesAreReported, HistoryInv, TypeOK
      <3> QED
        BY <3>3, <3>4
    <2> QED
      BY <2>1, <2>2, <2>3 DEF ChangesAreReported
  <1>13. VerdictIsTrue'
    BY <1>2 DEF VerdictIsTrue, RequestInv
  <1> QED
    BY <1>5, <1>6, <1>7, <1>8, <1>9, <1>10, <1>11, <1>12, <1>13

\* A change other clients make.
LEMMA OthersKeepInv == Inv /\ Others => Inv'
  <1> SUFFICES ASSUME Inv, Others PROVE Inv'
    OBVIOUS
  <1>1. /\ next' \in 1 .. MaxId + 1 /\ next <= next'
        /\ versions' \in [Ids -> Version]
        /\ \A w \in Ids : w < next => versions'[w].object = versions[w].object
        /\ \A w \in Ids : w >= next' => versions'[w].is = "unused"
        /\ \A w \in Ids : versions'[w].is = "upload" => versions'[w].object \in Objects
    <2>1. CASE \E o \in Objects : Put("upload", "source", o)
      BY <2>1, PutKeeps DEF Inv, Names, Ids
    <2>2. CASE Put("hide", "source", NoObject)
      BY <2>2, PutKeeps DEF Inv, Names, Ids
    <2>3. CASE \E v \in Ids : Remove(v)
      BY <2>3, RemoveKeeps DEF Inv, TypeOK
    <2> QED
      BY <2>1, <2>2, <2>3 DEF Others
  <1>2. /\ seen' = (seen \/ Shown') /\ pc \notin {"start", "done"}
        /\ UNCHANGED <<inputs, effects, pc, tries, reply, answer, found, outputs>>
    BY DEF Others
  <1>3. Shown' \in BOOLEAN
    BY DEF Shown
  <1> USE <1>1, <1>2 DEF Inv, None, inputs, outputs
  <1>4. TypeOK'
    BY <1>3 DEF TypeOK
  <1>5. RequestInv' /\ AnswerInv' /\ CopyInv' /\ HiddenInv' /\ HiddenStaysOutOfReach'
    BY DEF RequestInv, AnswerInv, CopyInv, HiddenInv, HiddenStaysOutOfReach
  <1>6. HarmlessInv'
    BY DEF HarmlessInv, SafeToRetry
  <1>7. HistoryInv'
    BY <1>3 DEF HistoryInv, TypeOK, Ids
  <1>8. ChangesAreReported'
    <2>1. command = "copy" => \A w \in effects : versions'[w].object = versions[w].object
      BY DEF HistoryInv, TypeOK
    <2>2. command = "copy" /\ effects # {} => versions'[found].object = versions[found].object
      BY DEF HistoryInv, CopyInv
    <2> QED
      BY <2>1, <2>2 DEF ChangesAreReported
  <1>9. VerdictIsTrue'
    BY DEF VerdictIsTrue, RequestInv
  <1> QED
    BY <1>4, <1>5, <1>6, <1>7, <1>8, <1>9

\* A step that changes nothing.
LEMMA StutterKeepsInv == Inv /\ UNCHANGED vars => Inv'
  BY DEF vars, inputs, bucket, outputs, Inv, TypeOK, RequestInv, HistoryInv, AnswerInv,
         HarmlessInv, SafeToRetry, CopyInv, HiddenInv, ChangesAreReported,
         HiddenStaysOutOfReach, VerdictIsTrue, Shown, Visible, IsLatest

\* Every step of the specification keeps the invariant.
LEMMA NextKeepsInv == Inv /\ [Next]_vars => Inv'
  <1> SUFFICES ASSUME Inv, [Next]_vars PROVE Inv'
    OBVIOUS
  <1>1. CASE Client
    BY <1>1, AskKeepsInv, FailuresKeepInv, EndKeepsInv, ExchangeKeepsInv DEF Client
  <1>2. CASE Answers
    BY <1>2, ExchangeKeepsInv, ChangeKeepsInv DEF Answers
  <1>3. CASE Work
    BY <1>3, ChangeKeepsInv
  <1>4. CASE Others
    BY <1>4, OthersKeepInv
  <1>5. CASE Terminated \/ UNCHANGED vars
    BY <1>5, StutterKeepsInv DEF Terminated
  <1> QED
    BY <1>1, <1>2, <1>3, <1>4, <1>5 DEF Next

\* Every reachable state satisfies the invariant.
LEMMA Invariant == Spec => []Inv
  BY InitInv, NextKeepsInv, PTL DEF Spec

---------------------------------------------------------------------------
(* What follows. *)

\* Every variable keeps its type; a request is never sent more often than the SDK's limit.
THEOREM TypeCorrect == Spec => []TypeOK
  <1>1. Inv => TypeOK
    BY DEF Inv
  <1> QED
    BY <1>1, Invariant, PTL

\* A step that publishes retryable=true has changed nothing, whichever answers were lost.
THEOREM RetriesAreHarmless == Spec => []RetryableIsHarmless
  <1>1. Inv => RetryableIsHarmless
    BY DEF Inv, HarmlessInv, RetryableIsHarmless
  <1> QED
    BY <1>1, Invariant, PTL

\* What copy, hide, unhide and retention change is what they found and what they report.
THEOREM ReportsAreTrue == Spec => []ChangesAreReported
  <1>1. Inv => ChangesAreReported
    BY DEF Inv
  <1> QED
    BY <1>1, Invariant, PTL

\* A name that was hidden or absent all the time is neither copied, retained nor reported.
THEOREM HiddenIsOutOfReach == Spec => []HiddenStaysOutOfReach
  <1>1. Inv => HiddenStaysOutOfReach
    BY DEF Inv
  <1> QED
    BY <1>1, Invariant, PTL

\* verified=true is only said of a version with the expected bytes.
THEOREM VerdictsAreTrue == Spec => []VerdictIsTrue
  <1>1. Inv => VerdictIsTrue
    BY DEF Inv
  <1> QED
    BY <1>1, Invariant, PTL

---------------------------------------------------------------------------
(* The work ahead of a step. *)

\* Requests a command has still to go through at most, each sent and answered up to MaxTries
\* times.
Requests == [start |-> 4, find |-> 3, history |-> 3, retain |-> 2, copy |-> 1, hold |-> 1,
             remove |-> 1, head |-> 1, hide |-> 1, work |-> 1, done |-> 0]
Exchange == 2 * (MaxTries - tries) + (IF reply = "open" THEN 1 ELSE 0)
Ahead    == IF pc = "done" THEN 0 ELSE Requests[pc] * (2 * MaxTries + 2) + Exchange

WorkBounded  == Ahead \in 0 .. 10 * MaxTries + 9
WorkConsumed == [][Ahead' <= Ahead /\ (Client \/ Answers => Ahead' < Ahead)]_vars

\* Requests count for more than any exchange.
LEMMA RequestsCount ==
  ASSUME TypeOK
  PROVE  /\ Exchange \in 0 .. 2 * MaxTries + 1
         /\ pc = "start" => Ahead = 8 * MaxTries + 8 + Exchange
         /\ pc \in {"find", "history"} => Ahead = 6 * MaxTries + 6 + Exchange
         /\ pc = "retain" => Ahead = 4 * MaxTries + 4 + Exchange
         /\ pc \in {"copy", "hold", "remove", "head", "hide", "work"} =>
              Ahead = 2 * MaxTries + 2 + Exchange
         /\ pc = "done" => Ahead = 0
  <1>1. tries \in 0 .. MaxTries /\ MaxTries \in Nat
    BY DEF TypeOK
  <1>2. Exchange \in 0 .. 2 * MaxTries + 1
    BY <1>1 DEF Exchange
  <1>3. pc \in DOMAIN Requests /\ (pc # "done" => Ahead = Requests[pc] * (2 * MaxTries + 2) + Exchange)
    BY DEF TypeOK, Requests, Ahead
  <1>4. \A k \in Nat : /\ 4 * (2 * k + 2) = 8 * k + 8 /\ 3 * (2 * k + 2) = 6 * k + 6
                       /\ 2 * (2 * k + 2) = 4 * k + 4 /\ 1 * (2 * k + 2) = 2 * k + 2
    OBVIOUS
  <1>5. /\ pc = "start" => Requests[pc] = 4
        /\ pc \in {"find", "history"} => Requests[pc] = 3
        /\ pc = "retain" => Requests[pc] = 2
        /\ pc \in {"copy", "hold", "remove", "head", "hide", "work"} => Requests[pc] = 1
    BY DEF Requests
  <1>6. pc = "done" => Ahead = 0
    BY DEF Ahead
  <1> QED
    BY <1>1, <1>2, <1>3, <1>4, <1>5, <1>6

\* The work is a number, at most that of a step that begins.
LEMMA AheadIsNumber ==
  ASSUME TypeOK
  PROVE  Ahead \in 0 .. 10 * MaxTries + 9 /\ (pc # "done" => Ahead > 0)
  <1>1. MaxTries \in Nat
    OBVIOUS
  <1>2. pc \in {"start", "find", "history", "head", "hide", "remove", "copy", "retain", "hold",
                "work", "done"}
    BY DEF TypeOK
  <1> QED
    BY <1>1, <1>2, RequestsCount

\* Each answer and each move of the command takes from the work.
LEMMA StepWork ==
  ASSUME TypeOK, TypeOK', Ahead' \in Nat, [Next]_vars
  PROVE  Ahead' <= Ahead /\ (Client \/ Answers => Ahead' < Ahead)
  <1>1. MaxTries \in Nat /\ Ahead \in Nat /\ tries \in 0 .. MaxTries /\ tries' \in 0 .. MaxTries
    BY AheadIsNumber DEF TypeOK
  <1>2. Exchange \in 0 .. 2 * MaxTries + 1
    BY RequestsCount
  <1>3. /\ pc' = "done" => Ahead' = 0
        /\ pc' # "done" =>
             Ahead' = Requests[pc'] * (2 * MaxTries + 2) + 2 * (MaxTries - tries')
                        + (IF reply' = "open" THEN 1 ELSE 0)
    <2>1. Ahead' = IF pc' = "done" THEN 0 ELSE Requests[pc'] * (2 * MaxTries + 2) + Exchange'
      BY DEF Ahead, Requests
    <2>2. Exchange' = 2 * (MaxTries - tries') + (IF reply' = "open" THEN 1 ELSE 0)
      BY DEF Exchange
    <2>3. ASSUME pc' # "done" PROVE Requests[pc'] * (2 * MaxTries + 2) \in Int
      <3>1. Requests[pc'] \in 0 .. 4
        BY DEF TypeOK, Requests
      <3> QED
        BY <1>1, <3>1
    <2> QED
      BY <1>1, <2>1, <2>2, <2>3
  <1>4. ASSUME \/ StartFails \/ NotFound \/ NotHidden \/ Finish \/ Compare \/ NothingToCompare
               \/ WorkEnds \/ Cancelled \/ Refused \/ GiveUp
        PROVE  Ahead' < Ahead
    <2>1. pc # "done" /\ pc' = "done"
      BY <1>4 DEF StartFails, NotFound, NotHidden, Finish, Compare, NothingToCompare, WorkEnds,
                  Cancelled, Refused, GiveUp, Fail, Succeed
    <2> QED
      BY <1>1, <1>3, <2>1, AheadIsNumber
  <1>5. ASSUME Start \/ Found \/ Hidden \/ Retained PROVE Ahead' < Ahead
    <2>1. /\ tries' = 1 /\ reply' = "open"
          /\ \/ pc = "start" /\ pc' \in {"find", "history", "head", "hide", "work"}
             \/ pc \in {"find", "history"} /\ pc' \in {"copy", "retain", "hold", "remove"}
             \/ pc = "retain" /\ pc' = "hold"
      BY <1>5 DEF Start, Found, Hidden, Retained, Ask, FirstRequest
    <2>2. /\ pc' \in {"find", "history"} => Requests[pc'] = 3
          /\ pc' = "retain" => Requests[pc'] = 2
          /\ pc' \in {"copy", "hold", "remove", "head", "hide", "work"} => Requests[pc'] = 1
      BY DEF Requests
    <2>3. /\ pc' \in {"find", "history"} => Ahead' = 3 * (2 * MaxTries + 2) + 2 * (MaxTries - 1) + 1
          /\ pc' = "retain" => Ahead' = 2 * (2 * MaxTries + 2) + 2 * (MaxTries - 1) + 1
          /\ pc' \in {"copy", "hold", "remove", "head", "hide", "work"} =>
               Ahead' = 1 * (2 * MaxTries + 2) + 2 * (MaxTries - 1) + 1
      BY <1>3, <2>1, <2>2
    <2> QED
      BY <1>1, <1>2, <2>1, <2>3, RequestsCount
  <1>6. ASSUME Resend \/ Answers PROVE Ahead' < Ahead
    <2>1. /\ pc # "done" /\ pc' = pc
          /\ \/ reply # "open" /\ reply' = "open" /\ tries' = tries + 1
             \/ reply = "open" /\ reply' # "open" /\ tries' = tries
      BY <1>6 DEF Resend, Answers, LookUp, ReadHistory, Head, Hide, RemoveMarker, Copy, Retain,
                  Hold, Refuse, Lose, Open, Reply
    <2>2. Requests[pc] \in 0 .. 4
      BY DEF TypeOK, Requests
    <2>3. PICK w \in Int : w = Requests[pc] * (2 * MaxTries + 2)
      BY <1>1, <2>2
    <2>4. Ahead = w + 2 * (MaxTries - tries) + (IF reply = "open" THEN 1 ELSE 0)
      BY <1>1, <2>1, <2>3 DEF Ahead, Exchange
    <2>5. Ahead' = w + 2 * (MaxTries - tries') + (IF reply' = "open" THEN 1 ELSE 0)
      BY <1>3, <2>1, <2>3
    <2> QED
      BY <1>1, <2>1, <2>3, <2>4, <2>5
  <1>7. Client \/ Answers => Ahead' < Ahead
    BY <1>4, <1>5, <1>6 DEF Client
  <1>8. CASE Client \/ Answers
    BY <1>1, <1>7, <1>8
  <1>9. CASE Work \/ Others \/ UNCHANGED vars
    <2>1. pc' = pc /\ tries' = tries /\ reply' = reply
      BY <1>9 DEF Work, Others, vars
    <2>2. Ahead' = Ahead
      BY <2>1 DEF Ahead, Exchange, Requests
    <2> QED
      BY <1>1, <1>7, <2>2
  <1> QED
    BY <1>8, <1>9 DEF Next, Terminated

\* No step takes the command and B2 more than 10 * MaxTries + 9 steps, whichever requests and
\* answers are lost and whatever others do to the name: each takes from the work ahead.
THEOREM FiniteWork == Spec => []WorkBounded /\ WorkConsumed
  <1> DEFINE Consumed == Ahead' <= Ahead /\ (Client \/ Answers => Ahead' < Ahead)
             IsNumber == Ahead \in Nat
  <1>1. TypeOK => WorkBounded
    BY AheadIsNumber DEF WorkBounded
  <1>2. WorkBounded => IsNumber
    BY DEF WorkBounded
  <1>3. TypeOK /\ TypeOK' /\ IsNumber' /\ [Next]_vars => Consumed
    BY StepWork
  <1> HIDE DEF Consumed, IsNumber
  <1>4. Spec => []WorkBounded
    BY <1>1, TypeCorrect, PTL
  <1>5. Spec => []IsNumber
    BY <1>2, <1>4, PTL
  <1>6. Spec => [][Consumed]_vars
    BY <1>3, <1>5, TypeCorrect, PTL DEF Spec
  <1> QED
    BY <1>4, <1>6 DEF Consumed, WorkConsumed
=============================================================================

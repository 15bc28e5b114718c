------------------------------- MODULE Action -------------------------------
(***************************************************************************)
(* One step of a workflow: run() (src/main.ts) with the commands that act  *)
(* on one B2 name - copy, hide, unhide, retention, head and verify - and   *)
(* the verdict classifyActionError (src/errors.ts) gives on a failure.     *)
(*                                                                         *)
(* A name has a history of versions, and other clients write to it between *)
(* any two requests.  A command looks a version up by name and acts on it  *)
(* by id.  Requests and answers get lost and are sent again by the SDK.    *)
(* The commands with a module of their own (upload, sync, delete, purge,   *)
(* download) and the listings appear only as what may be done to the       *)
(* bucket while they run.                                                  *)
(***************************************************************************)
EXTENDS Integers, FiniteSets

CONSTANTS
  MaxId,     \* bound: versions the two names ever have, numbered as they come
  Before,    \* bound: versions of the source name when the run begins
  MaxTries,  \* bound: times one request is sent (6 in the SDK)
  Bytes,     \* contents of files
  NoSum,     \* no SHA-1 is known
  Objects    \* bound: what is uploaded: its bytes, its SHA-1 header, and whether B2 checked it

Commands == {"upload", "download", "sync", "copy", "delete", "presign", "list", "hide",
             "unhide", "verify", "retention", "head", "purge"}
Names    == {"source", "destination"}
Ids      == 1 .. MaxId
None     == 0
NoObject == [bytes |-> NoSum, sum |-> NoSum, checked |-> FALSE]
New(kind, n, o) == [is |-> kind, name |-> n, object |-> o, retained |-> FALSE, held |-> FALSE]
Blank    == New("unused", "source", NoObject)
Version  == [is : {"unused", "upload", "hide", "gone"}, name : Names,
             object : Objects \cup {NoObject}, retained : BOOLEAN, held : BOOLEAN]

ASSUME ActionAssumption ==
  /\ MaxId \in Nat /\ Before \in 0 .. MaxId /\ MaxTries \in Nat \ {0}
  /\ NoSum \notin Bytes
  /\ Objects \subseteq [bytes : Bytes, sum : Bytes \cup {NoSum}, checked : BOOLEAN]
  /\ \A o \in Objects : o.checked => o.sum = o.bytes

VARIABLES
  \* The inputs; never changed.
  command, dryRun,
  target,      \* copy: the name of the destination input
  mode,        \* retention-mode: "unset", "on" (compliance, governance) or "off" (none)
  hold,        \* legal-hold: "unset", "on" or "off"
  expected,    \* verify: the content compared with, or NoSum
  \* The bucket.
  versions,
  next,        \* the next version
  \* The command.
  pc,          \* "start", the open request, or "done"
  tries,       \* times the open request was sent
  reply,       \* "open", "ok", "refused" or "lost"
  answer,      \* the version the reply names
  found,       \* the version the command works on
  \* The outputs.
  fileId, verified,
  outcome,     \* "running", "succeeded" or "failed"
  retryable,   \* "unset", "true" or "false"
  \* History.
  effects,     \* versions this run added, changed or removed
  seen         \* the source name was visible at some time of the run

inputs  == <<command, dryRun, target, mode, hold, expected>>
bucket  == <<versions, next, effects, seen>>
outputs == <<fileId, verified, outcome, retryable>>
vars == <<inputs, bucket, pc, tries, reply, answer, found, outputs>>

---------------------------------------------------------------------------
(* The history of a name. *)

IsLatest(v, n) ==
  /\ v \in Ids /\ versions[v].is \in {"upload", "hide"} /\ versions[v].name = n
  /\ \A w \in Ids : versions[w].is \in {"upload", "hide"} /\ versions[w].name = n => w <= v

Visible(v, n) == IsLatest(v, n) /\ versions[v].is = "upload"

\* The SOURCE name shows a file.
Shown == \E v \in Ids : Visible(v, "source")

Put(kind, n, o) ==
  /\ next <= MaxId
  /\ versions' = [versions EXCEPT ![next] = New(kind, n, o)]
  /\ next' = next + 1

Remove(v) ==
  /\ versions[v].is \in {"upload", "hide"} /\ ~versions[v].retained /\ ~versions[v].held
  /\ versions' = [versions EXCEPT ![v].is = "gone"]
  /\ UNCHANGED next

Init ==
  /\ command \in Commands /\ dryRun \in BOOLEAN
  /\ target \in IF command = "copy" THEN Names ELSE {"destination"}
  /\ mode \in IF command = "retention" THEN {"unset", "on", "off"} ELSE {"unset"}
  /\ hold \in IF command = "retention" THEN {"unset", "on", "off"} ELSE {"unset"}
  /\ expected \in IF command = "verify" THEN Bytes \cup {NoSum} ELSE {NoSum}
  /\ next \in 1 .. Before + 1
  /\ versions \in [Ids -> {Blank, New("hide", "source", NoObject)}
                           \cup {New("upload", "source", o) : o \in Objects}]
  /\ \A v \in Ids : versions[v] = Blank <=> v >= next
  /\ effects = {} /\ seen = Shown
  /\ pc = "start" /\ tries = 0 /\ reply = "open"
  /\ answer = None /\ found = None
  /\ fileId = None /\ verified = "unset" /\ outcome = "running" /\ retryable = "unset"

---------------------------------------------------------------------------
(* The end of run(). *)

\* ACTION_EFFECTS.
Reads        == {"download", "presign", "list", "verify", "head"}
HonorsDryRun == {"sync", "delete", "purge"}

\* BUG: a dry-run input makes every verb safe to repeat.
SafeIfDry == dryRun \/ command \in Reads

\* retryPolicy.
SafeToRetry == (dryRun /\ command \in HonorsDryRun) \/ command \in Reads

\* The catch block: errors of the action itself say nothing of a retry, refusals by B2 rule it
\* out, and transient errors allow it where repeating is harmless.
Fail(kind) ==
  /\ pc' = "done" /\ outcome' = "failed"
  /\ retryable' = CASE kind = "own" -> "unset"
                    [] kind = "refused" -> "false"
                    [] kind = "transient" -> IF SafeToRetry THEN "true" ELSE "false"

Succeed == pc' = "done" /\ outcome' = "succeeded" /\ UNCHANGED retryable

Ask(request) == pc' = request /\ reply' = "open" /\ tries' = 1 /\ answer' = None

---------------------------------------------------------------------------
(* The commands. *)

FirstRequest ==
  CASE command \in {"copy", "retention"} -> "find"
    [] command = "unhide"                -> "history"
    [] command \in {"head", "verify"}    -> "head"
    [] command = "hide"                  -> "hide"
    [] OTHER                             -> "work"

Start ==
  /\ pc = "start"
  /\ command = "retention" => mode # "unset" \/ hold # "unset"
  /\ Ask(FirstRequest)
  /\ UNCHANGED <<inputs, bucket, found, outputs>>

\* Unusable inputs, an authorisation that fails, a bucket that is not there.
StartFails ==
  /\ pc = "start"
  /\ \E kind \in {"own", "refused", "transient"} : Fail(kind)
  /\ UNCHANGED <<inputs, bucket, tries, reply, answer, found, fileId, verified>>

\* copy and retention: findFileByName has answered.
Found ==
  /\ pc = "find" /\ reply = "ok" /\ answer # None
  /\ found' = answer
  /\ Ask(IF command = "copy" THEN "copy" ELSE IF mode # "unset" THEN "retain" ELSE "hold")
  /\ UNCHANGED <<inputs, bucket, outputs>>

NotFound ==
  /\ pc = "find" /\ reply = "ok" /\ answer = None
  /\ Fail("own")
  /\ UNCHANGED <<inputs, bucket, tries, reply, answer, found, fileId, verified>>

\* unhide: the history has been read; a marker on top of it is removed.
Hidden ==
  /\ pc = "history" /\ reply = "ok" /\ answer # None
  /\ found' = answer
  /\ Ask("remove")
  /\ UNCHANGED <<inputs, bucket, outputs>>

NotHidden ==
  /\ pc = "history" /\ reply = "ok" /\ answer = None
  /\ Succeed
  /\ UNCHANGED <<inputs, bucket, tries, reply, answer, found, fileId, verified>>

\* BUG: the hold goes to the version that is on top by now.
RetainedLooksAgain ==
  /\ pc = "retain" /\ reply = "ok" /\ hold # "unset"
  /\ found' \in {v \in Ids : v = found \/ Visible(v, "source")}
  /\ Ask("hold")
  /\ UNCHANGED <<inputs, bucket, outputs>>

\* retention: the first of two updates is done.
Retained ==
  /\ pc = "retain" /\ reply = "ok" /\ hold # "unset"
  /\ Ask("hold")
  /\ UNCHANGED <<inputs, bucket, found, outputs>>

\* The last request is answered and the outputs are set.
Finish ==
  /\ reply = "ok"
  /\ \/ pc \in {"copy", "hide", "remove", "hold"}
     \/ pc = "retain" /\ hold = "unset"
     \/ pc = "head" /\ command = "head"
  /\ fileId' = IF command = "retention" THEN found ELSE answer
  /\ Succeed
  /\ UNCHANGED <<inputs, bucket, tries, reply, answer, found, verified>>

\* BUG: the digest an uploader claims is taken for one B2 has checked.
ComparableIfPresent(o) == o.sum # NoSum

\* normalizeRemoteSha1: only a plain digest compares, not "none" and not "unverified:...".
Comparable(o) == o.sum # NoSum /\ o.checked

\* verify: the HEAD answer is compared, the outputs are set, and a mismatch fails the step.
Compare ==
  /\ pc = "head" /\ command = "verify" /\ reply = "ok" /\ expected # NoSum
  /\ found' = answer
  /\ LET o == versions[answer].object
         matches == Comparable(o) /\ o.sum = expected
     IN /\ verified' = IF matches THEN "true" ELSE "false"
        /\ IF matches THEN Succeed ELSE Fail("own")
  /\ UNCHANGED <<inputs, bucket, tries, reply, answer, fileId>>

NothingToCompare ==
  /\ pc = "head" /\ command = "verify" /\ reply = "ok"
  /\ Fail("own")
  /\ UNCHANGED <<inputs, bucket, tries, reply, answer, found, fileId, verified>>

WorkEnds ==
  /\ pc = "work"
  /\ Succeed \/ \E kind \in {"own", "refused", "transient"} : Fail(kind)
  /\ UNCHANGED <<inputs, bucket, tries, reply, answer, found, fileId, verified>>

\* SIGTERM or SIGINT cancels the request of a command that is given the signal.
Cancelled ==
  /\ pc \in {"copy", "work"}
  /\ Fail("own")
  /\ UNCHANGED <<inputs, bucket, tries, reply, answer, found, fileId, verified>>

\* B2 said no.
Refused ==
  /\ pc # "done" /\ reply = "refused"
  /\ Fail("refused")
  /\ UNCHANGED <<inputs, bucket, tries, reply, answer, found, fileId, verified>>

\* BUG: the transport does not look at its limit.
ResendPastLimit ==
  /\ pc # "done" /\ reply = "lost"
  /\ tries' = tries + 1 /\ reply' = "open"
  /\ UNCHANGED <<inputs, bucket, pc, answer, found, outputs>>

\* BUG: the transport does not count.
ResendUncounted ==
  /\ pc # "done" /\ reply = "lost" /\ tries < MaxTries
  /\ reply' = "open"
  /\ UNCHANGED <<inputs, bucket, pc, tries, answer, found, outputs>>

\* The SDK's transport sends a request again that has no answer.
Resend ==
  /\ pc # "done" /\ reply = "lost" /\ tries < MaxTries
  /\ tries' = tries + 1 /\ reply' = "open"
  /\ UNCHANGED <<inputs, bucket, pc, answer, found, outputs>>

GiveUp ==
  /\ pc # "done" /\ reply = "lost" /\ tries = MaxTries
  /\ Fail("transient")
  /\ UNCHANGED <<inputs, bucket, tries, reply, answer, found, fileId, verified>>

---------------------------------------------------------------------------
(* B2. *)

Open == pc \notin {"start", "work", "done"} /\ reply = "open"

\* What was done is answered, and the answer may be lost.
Reply(v) == answer' = v /\ reply' \in {"ok", "lost"}

\* BUG: the name is looked for in its history.
InHistory(v) == versions[v].is = "upload" /\ versions[v].name = "source"

\* What findFileByName picks from the listing.
ByName(v) == Visible(v, "source")

LookUp ==
  /\ Open /\ pc = "find"
  /\ \/ \E v \in Ids : ByName(v) /\ Reply(v)
     \/ (\A v \in Ids : ~ByName(v)) /\ Reply(None)
  /\ UNCHANGED <<inputs, bucket, pc, tries, found, outputs>>

ReadHistory ==
  /\ Open /\ pc = "history"
  /\ \/ \E v \in Ids : IsLatest(v, "source") /\ ~Visible(v, "source") /\ Reply(v)
     \/ (\A v \in Ids : IsLatest(v, "source") => Visible(v, "source")) /\ Reply(None)
  /\ UNCHANGED <<inputs, bucket, pc, tries, found, outputs>>

Head ==
  /\ Open /\ pc = "head"
  /\ \E v \in Ids : Visible(v, "source") /\ Reply(v)
  /\ UNCHANGED <<inputs, bucket, pc, tries, found, outputs>>

\* The change this run makes to version v.
Changed(v) == effects' = effects \cup {v} /\ seen' = (seen \/ Shown')

Hide ==
  /\ Open /\ pc = "hide" /\ Shown
  /\ Put("hide", "source", NoObject) /\ Changed(next) /\ Reply(next)
  /\ UNCHANGED <<inputs, pc, tries, found, outputs>>

RemoveMarker ==
  /\ Open /\ pc = "remove"
  /\ Remove(found) /\ Changed(found) /\ Reply(found)
  /\ UNCHANGED <<inputs, pc, tries, found, outputs>>

Copy ==
  /\ Open /\ pc = "copy" /\ versions[found].is = "upload"
  /\ Put("upload", target, versions[found].object) /\ Changed(next) /\ Reply(next)
  /\ UNCHANGED <<inputs, pc, tries, found, outputs>>

Retain ==
  /\ Open /\ pc = "retain" /\ versions[found].is = "upload"
  /\ versions' = [versions EXCEPT ![found].retained = (mode = "on")]
  /\ Changed(found) /\ Reply(found)
  /\ UNCHANGED <<inputs, next, pc, tries, found, outputs>>

Hold ==
  /\ Open /\ pc = "hold" /\ versions[found].is = "upload"
  /\ versions' = [versions EXCEPT ![found].held = (hold = "on")]
  /\ Changed(found) /\ Reply(found)
  /\ UNCHANGED <<inputs, next, pc, tries, found, outputs>>

\* A key without the capability, a lock, a cap, a version or a name that is not there.
Refuse ==
  /\ Open
  /\ reply' = "refused"
  /\ UNCHANGED <<inputs, bucket, pc, tries, answer, found, outputs>>

\* The request never arrives, or B2 is busy.
Lose ==
  /\ Open
  /\ reply' = "lost"
  /\ UNCHANGED <<inputs, bucket, pc, tries, answer, found, outputs>>

\* What the writing commands do outside a dry run.
Work ==
  /\ pc = "work" /\ command \in {"upload", "sync", "delete", "purge"}
  /\ command = "upload" \/ ~dryRun
  /\ \/ \E o \in Objects : Put("upload", "destination", o) /\ Changed(next)
     \/ \E v \in Ids : Remove(v) /\ Changed(v)
  /\ UNCHANGED <<inputs, pc, tries, reply, answer, found, outputs>>

---------------------------------------------------------------------------
(* The environment. *)

\* Other clients upload to the source name, hide it, or remove a version.
Others ==
  /\ pc \notin {"start", "done"}
  /\ \/ \E o \in Objects : Put("upload", "source", o)
     \/ Shown /\ Put("hide", "source", NoObject)
     \/ \E v \in Ids : Remove(v)
  /\ seen' = (seen \/ Shown')
  /\ UNCHANGED <<inputs, effects, pc, tries, reply, answer, found, outputs>>

Terminated == pc = "done" /\ UNCHANGED vars

Client ==
  \/ Start \/ StartFails \/ Found \/ NotFound \/ Hidden \/ NotHidden \/ Retained \/ Finish
  \/ Compare \/ NothingToCompare \/ WorkEnds \/ Cancelled \/ Refused \/ Resend \/ GiveUp
Answers == LookUp \/ ReadHistory \/ Head \/ Hide \/ RemoveMarker \/ Copy \/ Retain \/ Hold
           \/ Refuse \/ Lose

Next == Client \/ Answers \/ Work \/ Others \/ Terminated

\* The command goes on when it can, and the SDK's timeouts make every request answered or lost.
Spec == Init /\ [][Next]_vars /\ WF_vars(Client \/ Answers)

---------------------------------------------------------------------------
\* The type of every variable.
TypeOK ==
  /\ command \in Commands /\ dryRun \in BOOLEAN /\ target \in Names
  /\ mode \in {"unset", "on", "off"} /\ hold \in {"unset", "on", "off"}
  /\ expected \in Bytes \cup {NoSum}
  /\ versions \in [Ids -> Version] /\ next \in 1 .. MaxId + 1
  /\ pc \in {"start", "find", "history", "head", "hide", "remove", "copy", "retain", "hold",
             "work", "done"}
  /\ tries \in 0 .. MaxTries
  /\ reply \in {"open", "ok", "refused", "lost"}
  /\ answer \in Ids \cup {None} /\ found \in Ids \cup {None}
  /\ fileId \in Ids \cup {None} /\ verified \in {"unset", "true", "false"}
  /\ outcome \in {"running", "succeeded", "failed"}
  /\ retryable \in {"unset", "true", "false"}
  /\ effects \in SUBSET Ids /\ seen \in BOOLEAN

\* A step that publishes retryable=true has changed nothing in the bucket, whichever of its
\* requests or answers was lost, so the retry the README shows cannot do anything twice.
RetryableIsHarmless == retryable = "true" => effects = {}

\* retention and unhide change one version only, the one they found, in all their requests;
\* a step that succeeds after changing the bucket names in file-id a version it changed, and a
\* copy has the bytes of the version found.
ChangesAreReported ==
  /\ command \in {"retention", "unhide"} => effects \subseteq {found}
  /\ command \in {"copy", "hide", "unhide", "retention"} /\ outcome = "succeeded" =>
       (effects # {} => fileId \in effects)
  /\ command = "copy" =>
       \A v \in effects : versions[v].object = versions[found].object

\* A source name that was hidden or absent during the whole run is out of reach: copy,
\* retention and head do not succeed, and copy and retention change nothing.
HiddenStaysOutOfReach ==
  command \in {"copy", "retention", "head"} /\ ~seen =>
    effects = {} /\ outcome # "succeeded"

\* verified=true is said of a version whose bytes are the expected ones, and only then does
\* verify succeed.
VerdictIsTrue ==
  command = "verify" =>
    /\ verified = "true" => versions[found].object.bytes = expected
    /\ outcome = "succeeded" => verified = "true"

\* The step ends.
Terminates == <>(pc = "done")
=============================================================================

------------------------------ MODULE Listing ------------------------------
(***************************************************************************)
(* The `list` and `presign` commands: listCommand and its look-ahead       *)
(* (src/commands/list.ts), presignPrefix and presignOne                    *)
(* (src/commands/presign.ts), the arms of run() that publish their answers *)
(* (src/main.ts), and the byte-bounded summary-json (src/outputs.ts).      *)
(*                                                                         *)
(* Names are read a page at a time while other clients add and hide them,  *)
(* so an answer is true of no single moment; what it does promise is said  *)
(* over the names that were visible all the time, or at some time.  Names  *)
(* are numbered in the order B2 lists them.  Neither command looks at the  *)
(* cancellation signal.                                                    *)
(***************************************************************************)
EXTENDS Integers, FiniteSets

CONSTANTS
  MaxName,     \* bound: B2 names under the prefix
  MaxResults,  \* bound: the `max-results` input
  Volatile,    \* bound: the names other clients add or hide during the run
  PageSize,    \* names per page (1000 in the code)
  Size,        \* UTF-8 bytes of each name's entry in the JSON text
  MaxBytes,    \* SUMMARY_JSON_MAX_UTF8_BYTES
  MaxPreview   \* SUMMARY_JSON_PREVIEW_MAX_ENTRIES

Name == 1 .. MaxName
End  == MaxName + 1

ASSUME ListingAssumption ==
  /\ MaxName \in Nat \ {0} /\ MaxResults \in Nat \ {0} /\ PageSize \in Nat \ {0}
  /\ Volatile \subseteq Name
  /\ Size \in [Name -> Nat] /\ MaxBytes \in Nat /\ MaxPreview \in Nat
  /\ MaxBytes >= 2

VARIABLES
  \* The inputs; never changed.
  mode,        \* "list", "presign" of a prefix or "presignOne" of a single name
  maxResults,
  \* B2, and what was true of it since the run began.
  visible,     \* names visible now
  always,      \* names visible all the time
  ever,        \* names visible at some time
  \* The command.
  pc,
  cursor,      \* startFileName of the next page; End after the last
  files,       \* the names in the result
  count,       \* files.length
  truncated,   \* the result's `truncated`
  \* The summary-json being built.
  todo,        \* entries not serialized yet
  part,        \* entries in the text so far
  bytes,       \* its length
  summary,     \* "unset", "complete" or, for an empty array and a notice, "empty"
  outcome      \* "running", "success" or "failure"

inputs == <<mode, maxResults>>
bucket == <<visible, always, ever>>
answer == <<cursor, files, count, truncated>>
text   == <<todo, part, bytes, summary>>
vars == <<inputs, bucket, pc, answer, text, outcome>>

Reading == {"start", "paging", "lookahead"}

Init ==
  /\ mode \in {"list", "presign", "presignOne"} /\ maxResults \in 1 .. MaxResults
  /\ visible \in SUBSET Name /\ always = visible /\ ever = visible
  /\ pc = "start"
  /\ cursor = 1 /\ files = {} /\ count = 0 /\ truncated = FALSE
  /\ todo = {} /\ part = {} /\ bytes = 0 /\ summary = "unset"
  /\ outcome = "running"

First(S) == CHOOSE f \in S : \A g \in S : f <= g
Least(a, b) == IF a <= b THEN a ELSE b

---------------------------------------------------------------------------
(* Reading the names. *)

\* A page holds the visible names from the cursor up to where the server stopped, which may
\* be short of the size asked for.  The next page begins there; a server that has nothing
\* more to look at says so.
PageTo(stop)  == {f \in visible : cursor <= f /\ f < stop}
Stops(size)   == {stop \in (cursor + 1) .. End : Cardinality(PageTo(stop)) <= size}

\* A prefix is authorised as a whole before its names are read.
Begin ==
  /\ pc = "start" /\ mode # "presignOne"
  /\ pc' = "paging"
  /\ UNCHANGED <<inputs, bucket, answer, text, outcome>>

\* presignOne: a link to one name, whether it exists or not.
PresignOne ==
  /\ pc = "start" /\ mode = "presignOne"
  /\ \E f \in Name : files' = {f}
  /\ count' = 1
  /\ pc' = "report"
  /\ UNCHANGED <<inputs, bucket, cursor, truncated, text, outcome>>

\* BUG: a page is asked for in full however few results are left.
PageSizeLeftAlways == PageSize

\* What is asked for: no more than a page, and no more than is still wanted.
PageSizeLeft == Least(PageSize, maxResults - count)

\* BUG: a full list is taken for the whole one.
AfterPageNoLookAhead(stop, n) ==
  IF stop = End \/ n >= maxResults THEN "report" ELSE "paging"

\* Where a page that ends at `stop` and makes the result n long leads to: `list` looks ahead
\* when the result is full and names may follow; `presign` is content.
AfterPage(stop, n) ==
  IF stop = End THEN "report"
  ELSE IF n < maxResults THEN "paging"
  ELSE IF mode = "list" THEN "lookahead" ELSE "report"

\* BUG: without a next name the listing starts from the first one again.
ReadPageWraps ==
  /\ pc = "paging"
  /\ \E stop \in Stops(PageSizeLeft) :
       /\ files' = files \cup PageTo(stop)
       /\ count' = count + Cardinality(PageTo(stop))
       /\ cursor' = IF stop = End THEN 1 ELSE stop
       /\ pc' = AfterPage(1, count')
  /\ UNCHANGED <<inputs, bucket, truncated, text, outcome>>

\* The visible names of the next page join the result.
ReadPage ==
  /\ pc = "paging"
  /\ \E stop \in Stops(PageSizeLeft) :
       /\ files' = files \cup PageTo(stop)
       /\ count' = count + Cardinality(PageTo(stop))
       /\ cursor' = stop
       /\ pc' = AfterPage(stop, count')
  /\ UNCHANGED <<inputs, bucket, truncated, text, outcome>>

\* hasVisibleUploadAfter: is there a name behind a full result?  Pages without any are
\* passed over.
LookAhead ==
  /\ pc = "lookahead"
  /\ \E stop \in Stops(PageSize) :
       /\ cursor' = stop
       /\ truncated' = (PageTo(stop) # {})
       /\ pc' = IF PageTo(stop) # {} \/ stop = End THEN "report" ELSE "lookahead"
  /\ UNCHANGED <<inputs, bucket, files, count, text, outcome>>

\* An authorisation or a page that fails ends the step; nothing is published.
RequestFails ==
  /\ pc \in Reading
  /\ pc' = "done" /\ outcome' = "failure"
  /\ UNCHANGED <<inputs, bucket, answer, text>>

---------------------------------------------------------------------------
(* Publishing the answer. *)

\* run() sets the counts and warns of a truncated list; setSummaryJsonOutput begins.
Report ==
  /\ pc = "report"
  /\ pc' = "serializing"
  /\ todo' = files /\ part' = {} /\ bytes' = 2
  /\ UNCHANGED <<inputs, bucket, answer, summary, outcome>>

\* BUG: the commas between the entries are not counted.
EntryBytesNoComma(f) == Size[f]

\* additionalBytes of the next entry, its comma included.
EntryBytes(f) == Size[f] + (IF part = {} THEN 0 ELSE 1)

Fits(f) == bytes + EntryBytes(f) <= MaxBytes

\* serializeJsonArrayPrefix: one entry more, in the whole text or in the preview.
Serialize ==
  /\ pc \in {"serializing", "preview"} /\ todo # {}
  /\ pc = "preview" => Cardinality(part) < MaxPreview
  /\ LET f == First(todo) IN
       /\ Fits(f)
       /\ part' = part \cup {f} /\ todo' = todo \ {f}
       /\ bytes' = bytes + EntryBytes(f)
  /\ UNCHANGED <<inputs, bucket, pc, answer, summary, outcome>>

\* The whole text fits: it is the output.
Complete ==
  /\ pc = "serializing" /\ todo = {}
  /\ summary' = "complete"
  /\ pc' = "done" /\ outcome' = "success"
  /\ UNCHANGED <<inputs, bucket, answer, todo, part, bytes>>

\* It does not: the output will be an empty array, and a preview is built from the start.
TooLong ==
  /\ pc = "serializing" /\ todo # {} /\ ~Fits(First(todo))
  /\ pc' = "preview"
  /\ todo' = files /\ part' = {} /\ bytes' = 2
  /\ UNCHANGED <<inputs, bucket, answer, summary, outcome>>

PreviewEnds ==
  /\ pc = "preview"
  /\ todo = {} \/ Cardinality(part) = MaxPreview \/ ~Fits(First(todo))
  /\ summary' = "empty"
  /\ pc' = "done" /\ outcome' = "success"
  /\ UNCHANGED <<inputs, bucket, answer, todo, part, bytes>>

---------------------------------------------------------------------------
(* Other clients upload, hide or delete a name between two requests. *)
OtherChanges(f) ==
  /\ pc \in Reading /\ f \in Volatile
  /\ visible' = IF f \in visible THEN visible \ {f} ELSE visible \cup {f}
  /\ always' = always \cap visible' /\ ever' = ever \cup visible'
  /\ UNCHANGED <<inputs, pc, answer, text, outcome>>

Finished == pc = "done" /\ UNCHANGED vars

Step ==
  \/ Begin \/ PresignOne \/ ReadPage \/ LookAhead \/ RequestFails
  \/ Report \/ Serialize \/ Complete \/ TooLong \/ PreviewEnds

Next == Step \/ (\E f \in Name : OtherChanges(f)) \/ Finished

\* B2 answers in the end.  Other clients owe nothing.
Spec == Init /\ [][Next]_vars /\ WF_vars(Step)

---------------------------------------------------------------------------
(* Properties. *)

\* All variables keep to their types and bounds; a result is never longer than max-results.
TypeOK ==
  /\ mode \in {"list", "presign", "presignOne"} /\ maxResults \in 1 .. MaxResults
  /\ visible \in SUBSET Name /\ always \in SUBSET Name /\ ever \in SUBSET Name
  /\ pc \in Reading \cup {"report", "serializing", "preview", "done"}
  /\ cursor \in 1 .. End /\ files \in SUBSET Name /\ count \in 0 .. maxResults
  /\ truncated \in BOOLEAN
  /\ todo \in SUBSET Name /\ part \in SUBSET Name /\ bytes \in 0 .. MaxBytes
  /\ summary \in {"unset", "complete", "empty"}
  /\ outcome \in {"running", "success", "failure"}

Answered == pc \in {"report", "serializing", "preview"} \/ outcome = "success"

\* However pages and other clients' changes interleave, the names listed or presigned were
\* all visible, none is counted twice, and none that was visible throughout is passed over.
\* A result that is not full, and a list that does not call itself truncated, has every name
\* visible throughout; one that does is full, and a name behind it was visible.
AnswerIsTrue ==
  Answered /\ mode # "presignOne" =>
    /\ files \subseteq ever /\ count = Cardinality(files)
    /\ \A f \in always \ files, g \in files : g < f
    /\ count < maxResults \/ (mode = "list" /\ ~truncated) => always \subseteq files
    /\ truncated => /\ mode = "list" /\ count = maxResults
                    /\ \E f \in ever \ files : \A g \in files : g < f

\* The bytes of the entries of a set, name by name.
EntriesUpTo(S) ==
  LET upTo[k \in 0 .. MaxName] ==
        IF k = 0 THEN 0 ELSE upTo[k - 1] + (IF k \in S THEN Size[k] ELSE 0)
  IN  upTo

\* The JSON text of a set of entries: brackets, entries and the commas between them.
TextBytes(S) ==
  2 + EntriesUpTo(S)[MaxName] + (IF S = {} THEN 0 ELSE Cardinality(S) - 1)

Prefixes(S) == {{f \in S : f < k} : k \in 1 .. End}

\* summary-json is the whole result or nothing: whole exactly when its text, commas and
\* brackets included, is no longer than the limit.  When it is not, the preview is the
\* longest beginning of the result that is within both of its limits.
SummaryIsWholeOrEmpty ==
  /\ outcome = "success" => (summary = "complete" <=> TextBytes(files) <= MaxBytes)
  /\ summary = "complete" => part = files /\ bytes = TextBytes(files)
  /\ summary = "empty" =>
       LET InLimits(S) == TextBytes(S) <= MaxBytes /\ Cardinality(S) <= MaxPreview IN
       /\ part \in Prefixes(files) /\ InLimits(part)
       /\ \A S \in Prefixes(files) : InLimits(S) => S \subseteq part

\* Every run ends, although names come and go while they are paged through and pages may
\* hold nothing.
Terminates == <>(outcome # "running")
=============================================================================

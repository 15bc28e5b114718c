------------------------------ MODULE Deletion ------------------------------
(***************************************************************************)
(* The `delete` and `purge` commands: deleteCommand (delete.ts),           *)
(* purgeCommand (purge.ts), the generator deleteAllVersions that both      *)
(* consume (delete-all.ts), findFileByName (client.ts), the SDK's listing  *)
(* iterator (dist/index.js) and emitDeletionSummary (main.ts).             *)
(*                                                                         *)
(* The bucket is shared: other clients upload and delete versions between  *)
(* any two steps.  A delete request's effect and its answer are separate   *)
(* steps, so an answer can be lost after the version is gone.              *)
(*                                                                         *)
(* The `source` input is abstracted to what decides its meaning: absent    *)
(* (or empty), "/", "foo" or "foo/".  A version's name is foo itself, a    *)
(* name under foo/, a name such as foobar that only starts with foo, or    *)
(* another one.                                                            *)
(***************************************************************************)
EXTENDS Integers, FiniteSets

CONSTANTS
  Versions,      \* every version that is in the bucket at some time
  NoVersion,     \* stands for "no version"
  PlaceOf,       \* Versions -> {"exact", "under", "sibling", "other"}
  Position,      \* Versions -> 1..LastPosition: a listing's order (by name, newest first)
  LastPosition,  \* bound: positions
  HideMarkers,   \* versions that are hide markers
  Locked,        \* versions under governance retention
  Stray,         \* versions a misbehaving server lists though they are out of the prefix
  Volatile,      \* bound: the versions other clients upload or delete during the run
  PageSize       \* versions per listing page (1000 in the SDK)

ASSUME DeletionAssumption ==
  /\ NoVersion \notin Versions
  /\ PlaceOf \in [Versions -> {"exact", "under", "sibling", "other"}]
  /\ LastPosition \in Nat
  /\ Position \in [Versions -> 1 .. LastPosition]
  /\ \A u, v \in Versions : Position[u] = Position[v] => u = v
  /\ HideMarkers \subseteq Versions /\ Locked \subseteq Versions /\ Stray \subseteq Versions
  /\ Volatile \subseteq Versions
  /\ PageSize \in Nat \ {0}

VARIABLES
  \* The inputs; never changed.
  command, source, allowBucketPurge, dryRun, bypassGovernance,
  \* B2.
  bucket,       \* versions present
  initial,      \* versions present when the run began
  removed,      \* versions this run's requests removed
  \* The command.
  aborted,      \* signal.aborted
  pc,           \* where the command is
  page,         \* listed versions the loop has not taken yet
  cursor,       \* position the next page starts at; End when there is none
  current,      \* the version the open delete request is about, or NoVersion
  deleted,      \* entries of `files` with skipped: false
  skipped,      \* entries of `files` with skipped: true
  refused,      \* versions counted in `errors`
  \* run().
  published,    \* the files-deleted, file-count and summary-json outputs are set
  outcome       \* "running", "success" or "failure"

inputs  == <<command, source, allowBucketPurge, dryRun, bypassGovernance>>
listing == <<page, cursor>>
tally   == <<deleted, skipped, refused>>
vars == <<inputs, bucket, initial, removed, aborted, pc, listing, current, tally,
          published, outcome>>

End == LastPosition + 1

Init ==
  /\ command \in {"delete", "purge"}
  /\ source \in {"absent", "/", "foo", "foo/"}
  /\ allowBucketPurge \in BOOLEAN /\ dryRun \in BOOLEAN /\ bypassGovernance \in BOOLEAN
  /\ bucket \in SUBSET Versions
  /\ initial = bucket
  /\ removed = {}
  /\ aborted = FALSE
  /\ pc = "start"
  /\ page = {} /\ cursor = 1 /\ current = NoVersion
  /\ deleted = {} /\ skipped = {} /\ refused = {}
  /\ published = FALSE
  /\ outcome = "running"

BucketWide == command = "purge" /\ source \in {"absent", "/"}
SingleFile == command = "delete" /\ source = "foo"

\* BUG: normalizePrefix forgets the trailing slash.
PrefixUnslashed ==
  {v \in Versions : \/ BucketWide
                    \/ source # "/" /\ PlaceOf[v] \in {"exact", "under", "sibling"}}

\* The versions whose name starts with the prefix deleteAllVersions is given: all of them,
\* or those under foo/.  No name starts with "/", which is what `delete` makes of that.
InPrefix ==
  {v \in Versions : \/ BucketWide
                    \/ source # "/" /\ PlaceOf[v] = "under"}

First(S) == CHOOSE v \in S : \A u \in S : Position[v] <= Position[u]

Fail == pc' = "done" /\ outcome' = "failure"

---------------------------------------------------------------------------
\* requireSource of `delete`, and purge's guard against wiping the bucket by omission.
MustRefuse ==
  \/ command = "delete" /\ source = "absent"
  \/ BucketWide /\ ~allowBucketPurge

Refuse ==
  /\ pc = "start" /\ MustRefuse
  /\ Fail
  /\ UNCHANGED <<inputs, bucket, initial, removed, aborted, listing, current, tally, published>>

Begin ==
  /\ pc = "start" /\ ~MustRefuse
  /\ pc' = IF SingleFile THEN "lookup" ELSE "loop"
  /\ UNCHANGED <<inputs, bucket, initial, removed, aborted, listing, current, tally,
                 published, outcome>>

---------------------------------------------------------------------------
(* deleteOne, which looks at no signal. *)

\* findFileByName: the latest version of exactly that name, if there is one and it is not a
\* hide marker.
FoundByName == LET S == {v \in bucket : PlaceOf[v] = "exact"}
               IN  {v \in S \ HideMarkers : v = First(S)}

LookupFails ==
  /\ pc = "lookup"
  /\ Fail
  /\ UNCHANGED <<inputs, bucket, initial, removed, aborted, listing, current, tally, published>>

\* The file is found: reported in a dry run, otherwise the request to delete it goes out.
Lookup ==
  /\ pc = "lookup"
  /\ \E hit \in FoundByName :
       \/ /\ dryRun
          /\ pc' = "publish" /\ skipped' = {hit}
          /\ UNCHANGED current
       \/ /\ ~dryRun
          /\ pc' = "sent" /\ current' = hit
          /\ UNCHANGED skipped
  /\ UNCHANGED <<inputs, bucket, initial, removed, aborted, listing, deleted, refused,
                 published, outcome>>

---------------------------------------------------------------------------
(* deleteAllVersions and the loop that consumes it. *)

\* throwIfAborted, before and after each listing request and around each delete.
Cancelled ==
  /\ pc = "loop" /\ aborted
  /\ Fail
  /\ UNCHANGED <<inputs, bucket, initial, removed, aborted, listing, current, tally, published>>

Listed == bucket \cap (InPrefix \cup Stray)
Rest   == {v \in Listed : Position[v] >= cursor}
Fetched ==
  {v \in Rest : Cardinality({u \in Rest : Position[u] < Position[v]}) < PageSize}

\* BUG: the next page starts after the version the cursor names, not at it.
ListPageSkips ==
  /\ pc = "loop" /\ ~aborted /\ page = {} /\ cursor # End
  /\ page' = Fetched
  /\ cursor' = IF Fetched = Rest THEN End ELSE Position[First(Rest \ Fetched)] + 1
  /\ UNCHANGED <<inputs, bucket, initial, removed, aborted, pc, current, tally, published,
                 outcome>>

\* BUG: the listing is asked for again from the same place.
ListPageAgain ==
  /\ pc = "loop" /\ ~aborted /\ page = {} /\ cursor # End
  /\ page' = Fetched
  /\ cursor' = IF Fetched = Rest THEN End ELSE cursor
  /\ UNCHANGED <<inputs, bucket, initial, removed, aborted, pc, current, tally, published,
                 outcome>>

\* One b2_list_file_versions request: a page from the cursor on, as the bucket stands, and
\* the name and version the next page starts at.
ListPage ==
  /\ pc = "loop" /\ ~aborted /\ page = {} /\ cursor # End
  /\ page' = Fetched
  /\ cursor' = IF Fetched = Rest THEN End ELSE Position[First(Rest \ Fetched)]
  /\ UNCHANGED <<inputs, bucket, initial, removed, aborted, pc, current, tally, published,
                 outcome>>

ListFails ==
  /\ pc = "loop" /\ ~aborted /\ page = {} /\ cursor # End
  /\ Fail
  /\ UNCHANGED <<inputs, bucket, initial, removed, aborted, listing, current, tally, published>>

\* What becomes of the next listed version: an error event when it is out of the prefix, a
\* skip event in a dry run, otherwise a delete request.
Reject(v) ==
  /\ v \notin InPrefix
  /\ refused' = refused \cup {v}
  /\ UNCHANGED <<pc, current, skipped>>

Preview(v) ==
  /\ v \in InPrefix /\ dryRun
  /\ skipped' = skipped \cup {v}
  /\ UNCHANGED <<pc, current, refused>>

Send(v) ==
  /\ v \in InPrefix /\ ~dryRun
  /\ pc' = "sent" /\ current' = v
  /\ UNCHANGED <<skipped, refused>>

\* BUG: no abort check between two versions.
TakeUnchecked ==
  /\ pc = "loop" /\ page # {}
  /\ page' = page \ {First(page)}
  /\ Reject(First(page)) \/ Preview(First(page)) \/ Send(First(page))
  /\ UNCHANGED <<inputs, bucket, initial, removed, aborted, cursor, deleted, published,
                 outcome>>

Take ==
  /\ pc = "loop" /\ ~aborted /\ page # {}
  /\ page' = page \ {First(page)}
  /\ Reject(First(page)) \/ Preview(First(page)) \/ Send(First(page))
  /\ UNCHANGED <<inputs, bucket, initial, removed, aborted, cursor, deleted, published,
                 outcome>>

\* B2 removes the version: it is still there, and it is not locked or the request bypasses
\* governance.
B2Removes ==
  /\ pc = "sent" /\ current \in bucket
  /\ current \in Locked => bypassGovernance
  /\ bucket' = bucket \ {current}
  /\ removed' = removed \cup {current}
  /\ pc' = "applied"
  /\ UNCHANGED <<inputs, initial, aborted, listing, current, tally, published, outcome>>

\* The request succeeded: a delete event, or deleteOne's one entry.
DeleteSucceeds ==
  /\ pc = "applied"
  /\ pc' = IF SingleFile THEN "publish" ELSE "loop"
  /\ deleted' = deleted \cup {current}
  /\ current' = NoVersion
  /\ UNCHANGED <<inputs, bucket, initial, removed, aborted, listing, skipped, refused,
                 published, outcome>>

\* BUG: the catch block goes on without an error event.
DeleteFailsQuietly ==
  /\ pc \in {"sent", "applied"}
  /\ current' = NoVersion
  /\ \/ (SingleFile \/ aborted) /\ Fail
     \/ ~SingleFile /\ ~aborted /\ pc' = "loop" /\ UNCHANGED outcome
  /\ UNCHANGED <<inputs, bucket, initial, removed, aborted, listing, tally, published>>

\* BUG: the error event is built after the version was let go.
DeleteFailsUnnamed ==
  /\ pc \in {"sent", "applied"}
  /\ current' = NoVersion
  /\ \/ (SingleFile \/ aborted) /\ Fail /\ UNCHANGED refused
     \/ ~SingleFile /\ ~aborted /\ pc' = "loop" /\ refused' = refused \cup {current'}
        /\ UNCHANGED outcome
  /\ UNCHANGED <<inputs, bucket, initial, removed, aborted, listing, deleted, skipped,
                 published>>

\* The request failed: refused by B2, the version gone already, or the answer to an applied
\* request lost (the SDK's retry then finds no version).  deleteOne lets the error out; the
\* generator does so after a cancellation, and otherwise yields an error event and goes on.
DeleteFails ==
  /\ pc \in {"sent", "applied"}
  /\ current' = NoVersion
  /\ \/ (SingleFile \/ aborted) /\ Fail /\ UNCHANGED refused
     \/ ~SingleFile /\ ~aborted /\ pc' = "loop" /\ refused' = refused \cup {current}
        /\ UNCHANGED outcome
  /\ UNCHANGED <<inputs, bucket, initial, removed, aborted, listing, deleted, skipped,
                 published>>

LoopEnds ==
  /\ pc = "loop" /\ ~aborted /\ page = {} /\ cursor = End
  /\ pc' = "publish"
  /\ UNCHANGED <<inputs, bucket, initial, removed, aborted, listing, current, tally,
                 published, outcome>>

\* emitDeletionSummary: the outputs first, then the failure the error count stands for.
Publish ==
  /\ pc = "publish"
  /\ published' = TRUE
  /\ pc' = "done"
  /\ outcome' = IF refused # {} THEN "failure" ELSE "success"
  /\ UNCHANGED <<inputs, bucket, initial, removed, aborted, listing, current, tally>>

---------------------------------------------------------------------------
(* The environment. *)

\* SIGTERM or SIGINT.
Abort ==
  /\ pc # "done" /\ ~aborted
  /\ aborted' = TRUE
  /\ UNCHANGED <<inputs, bucket, initial, removed, pc, listing, current, tally, published,
                 outcome>>

\* Another client uploads a version that no step of this run has met yet.
OtherUploads(v) ==
  /\ pc # "done"
  /\ v \notin initial \cup bucket \cup page \cup {current}
  /\ v \notin deleted \cup skipped \cup refused
  /\ bucket' = bucket \cup {v}
  /\ UNCHANGED <<inputs, initial, removed, aborted, pc, listing, current, tally, published,
                 outcome>>

\* Another client deletes a version.
OtherDeletes(v) ==
  /\ pc # "done" /\ v \in bucket
  /\ bucket' = bucket \ {v}
  /\ UNCHANGED <<inputs, initial, removed, aborted, pc, listing, current, tally, published,
                 outcome>>

Finished == pc = "done" /\ UNCHANGED vars

\* The command's own steps.
Step ==
  \/ Refuse \/ Begin
  \/ LookupFails \/ Lookup
  \/ Cancelled \/ ListPage \/ ListFails \/ Take
  \/ DeleteSucceeds \/ DeleteFails
  \/ LoopEnds \/ Publish

Next ==
  \/ Step
  \/ B2Removes
  \/ Abort
  \/ \E v \in Volatile : OtherUploads(v) \/ OtherDeletes(v)
  \/ Finished

\* Every awaited request settles (the SDK bounds it), so the command keeps taking steps.
\* Nobody else has to do anything.
Spec == Init /\ [][Next]_vars /\ WF_vars(Step)

---------------------------------------------------------------------------
\* The type of every variable.
TypeOK ==
  /\ command \in {"delete", "purge"}
  /\ source \in {"absent", "/", "foo", "foo/"}
  /\ allowBucketPurge \in BOOLEAN /\ dryRun \in BOOLEAN /\ bypassGovernance \in BOOLEAN
  /\ bucket \in SUBSET Versions /\ initial \in SUBSET Versions /\ removed \in SUBSET Versions
  /\ aborted \in BOOLEAN
  /\ pc \in {"start", "lookup", "loop", "sent", "applied", "publish", "done"}
  /\ page \in SUBSET Versions /\ cursor \in 1 .. End
  /\ current \in Versions \cup {NoVersion}
  /\ deleted \in SUBSET Versions /\ skipped \in SUBSET Versions /\ refused \in SUBSET Versions
  /\ published \in BOOLEAN
  /\ outcome \in {"running", "success", "failure"}

\* What the inputs allow a run to remove.
Allowed(v) ==
  /\ ~dryRun
  /\ \/ command = "purge" /\ source \in {"absent", "/"} /\ allowBucketPurge
     \/ source \in {"foo", "foo/"} /\ PlaceOf[v] = "under"
     \/ command = "delete" /\ source = "foo" /\ PlaceOf[v] = "exact"
  /\ v \in Locked => bypassGovernance

\* A run removes nothing its inputs do not ask for: nothing in a dry run, nothing outside
\* the prefix or name (foobar is not under foo), nothing of a whole bucket without the
\* explicit permission, no governance-locked version without the bypass.
RemovesOnlyWhatWasAsked == \A v \in removed : Allowed(v)

\* Until a run is cut short, each version it removed is listed as deleted, counted as an
\* error (the answer was lost), or its request is still open.  So the counts that are
\* published leave no removal out, and nothing is listed that was not removed.
RemovalsAccountedFor ==
  outcome = "running" \/ published =>
    /\ deleted \subseteq removed
    /\ removed \subseteq deleted \cup refused \cup {current}

\* A prefix run that succeeds has dealt with every version that was there throughout it: none
\* of them is left, or, in a dry run, each of them is previewed.
SuccessIsComplete ==
  outcome = "success" /\ ~SingleFile =>
    initial \cap InPrefix \cap bucket \subseteq IF dryRun THEN skipped ELSE {}

\* After a cancellation a prefix run sends no further delete request.
NoRequestAfterAbort ==
  [][aborted /\ ~SingleFile /\ pc # "sent" => pc' # "sent"]_vars

\* The versions the inputs ask for, all of them or, for a single name, one of them.
Asked == IF MustRefuse THEN {}
         ELSE IF SingleFile THEN {v \in Versions : PlaceOf[v] = "exact"} ELSE InPrefix

Promise == INSTANCE DeletionPromise WITH
  asked     <- Asked,
  guarded   <- IF bypassGovernance THEN {} ELSE Locked,
  preview   <- dryRun,
  whole     <- ~SingleFile,
  there     <- bucket,
  since     <- initial \cap bucket,
  open      <- current,
  previewed <- skipped,
  stopped   <- aborted /\ ~SingleFile

\* Both commands keep the promise of DeletionPromise, step by step: no version is taken up
\* twice, none that was not asked for is requested, none at all after a cancellation (which
\* deleteOne does not look at), and a run concludes only with every request answered.
ImplementsPromise == Promise!Spec

\* The run ends, whatever other clients, B2 and the runner do.
Terminates == <>(pc = "done")
=============================================================================

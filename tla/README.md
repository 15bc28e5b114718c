# Verification of the Backblaze B2 GitHub Action

TLA+ specifications of the action in this repository (`src/`, bundled to `dist/index.js`),
TLC configurations that check them on small instances, and TLAPS proofs that hold for
every instance. Paths below are relative to the repository.

| | |
| --- | --- |
| `UploadPromise` | what `upload` promises, abstractly |
| `Upload`, `MCUpload`, `UploadProofs` | the `upload` command and its worker pool |
| `FileInfo`, `FileInfoProofs` | the metadata of an upload and its limits, as pure operators |
| `DeletionPromise` | what `delete` and `purge` promise, abstractly |
| `Deletion`, `MCDeletion`, `DeletionProofs` | `delete`, `purge` and the generator they share |
| `SyncPromise` | what `sync` promises, abstractly |
| `Sync`, `MCSync`, `SyncProofs` | the `sync` command and the SDK engine under it |
| `Download`, `MCDownload`, `DownloadProofs` | the `download` command, to the rename of each file |
| `Action`, `MCAction`, `ActionProofs` | `run()` with the commands on one name (`copy`, `hide`, `unhide`, `retention`, `head`, `verify`), and what it says of retries |
| `Listing`, `MCListing`, `ListingProofs` | `list` and `presign`, and the `summary-json` output |
| `LycheeInstall`, `MCLychee`, `LycheeProofs` | the link checker's installer, several processes over one cache |

Each module opens with its abstractions. Run one with
`tlc -config MCUpload.cfg MCUpload`, prove one with `tlapm UploadProofs.tla`.
Operators whose comment starts with `BUG:` are not part of the models: they are the wrong
code each property was tried against, one per property (`mutants` in `PROJECT.json`).

## 1. Inventory

The action is one Node.js process per workflow step. `run()` (`src/main.ts`) parses the
inputs, authorises a client, looks the bucket up, dispatches to one command, sets the
outputs, and turns any error into a failed step. Nothing is kept between steps except what
is in the bucket and on the runner's disk, and both are shared: other jobs use the same
bucket, other processes the same workspace.

| Component | State | Operations | Hard part | Correct when |
| --- | --- | --- | --- | --- |
| `run()`, `outputs.ts`, `summary.ts` | abort controller, outputs, outcome | signals, dispatch, publish, classify, clean up | a signal between any two steps; outputs are set before a late failure | outputs are true of what was done, also when the step fails; errors never lost |
| `upload.ts` | file list, plans, pool cursor, failure flag, results | resolve, plan, refuse, upload, settle | several workers, failure of one, cancellation | one file per B2 name, bounded requests, nothing running afterwards, results in order |
| `delete.ts`, `purge.ts`, `delete-all.ts` | page, cursor, tally | guard, list, preview, delete, summarise | listing while deleting, other writers, lost replies | only what was asked is removed; every removal is accounted for; success leaves nothing |
| `sync.ts` and the SDK's `synchronize()` | pairs, running actions, queued events, counters | resolve direction, scan, plan, act, drain, count | decisions on a stale scan, parallel actions, cancellation | nothing unasked changes, others' writes survive, counters are true |
| `download.ts`, `fs.ts` | planned paths and their owners, temporary file | plan, refuse collisions, write, rename | failure between steps, Windows replacement, changing directories | old or new file in place, never a partial one; no two remote files on one path |
| `list.ts`, `presign.ts` | page cursor | list, probe for more, sign | pagination under change | at most `max-results`, `truncated` tells the truth |
| `hide`, `unhide`, `copy`, `retention`, `verify`, `head` | a version looked up by name | look up, act by id | the name gets another version in between; two-step updates | the version acted on is the one reported |
| `errors.ts` | - | classify | which failure may be retried | `retryable` only for reads and dry runs |
| `client.ts`, `inputs.ts`, `sse.ts` | secrets, parsed inputs | parse, validate, authorise | size limits | limits as B2 has them |
| `progress.ts`, `format.ts` | last log time | log | - | wording only |
| `scripts/run-lychee-lib.mjs` | install lock, cached binary | lock, download, retry, replace | processes racing for the lock | one installer at a time; a waiter outlasts the holder |
| other `scripts/`, workflows | - | text checks, release steps | - | not modelled |

The commands share no state with each other: a step runs one. They share `findFileByName`
(`client.ts`), `emitDeletionSummary` and the signal handlers (`main.ts`), and the bucket.

Hazards, each with its line and the properties that watch it, are listed in `PROJECT.json`.

## 2. Plan

Modelled first: the commands that write to or delete from the shared bucket with more than
one thing going on. In order:

1. `Upload` refining `UploadPromise` (done)
2. `Deletion` refining `DeletionPromise` (done)
3. `Sync` refining `SyncPromise` (done)
4. `Download` (done)
5. `Action`: `run()` with the commands on one name over its history, lost requests, failure
   classification and the `retryable` output (done)
6. `Listing`: `list` and `presign`, pagination to `max-results`, the look-ahead, and the
   byte limit of `summary-json` (done)
7. `FileInfo`: the limits of the metadata, against a reference definition, checked and proved (done)
8. `LycheeInstall`: the install lock between processes, and its timeout (done)

9. Proofs: the type invariants, the safety invariants and the action properties; then the
   three refinements; then a measure of the work ahead for every command (done)

Still worth stating: a promise for `Download` (the names visible throughout end up on the
disk, each in one version), and the reading of `inputs.ts` as a component of its own.

## 3. The models and the code

### Upload

`Init` picks what `resolveFiles` and the inputs can yield: how many files, whether the
source named a single file, the B2 name `remapFileName` gives each, and which plans
`validateFileInfo` rejects.

| Code (`src/commands/upload.ts`) | Model |
| --- | --- |
| the empty result, 69-75 | `NothingMatched` |
| planning pass and `assertUniqueUploadFileNames`, 83-87 | `PlanRejected` or `StartUploads` |
| `next`, `failed`, `firstError`, `results`, 114-117 | the variables of these names |
| one turn of a worker's loop, 120-132 | `UploadSucceeds` or `UploadFails`, then `WorkerReturns` or `WorkerClaims` |
| `Promise.all`, `throw firstError`, 137-139 | `AwaitAll` |
| `bucket.upload`, 384-395 | `sending`, `Store` (B2 keeps the bytes), then the answer |

JavaScript runs to its next real wait without interruption, and a signal is delivered
between such runs. The planning pass waits for nothing, so with the first claims of the
workers it is one step; recording a result, looking at `failed` and claiming the next file
is one step. `fstate` says what each mapper call is at; `writers` is the bucket's side and
no code sees it. An upload can fail after B2 kept the file.

`UploadPromise` forgets the workers: files are begun, done or failed; none is begun after a
failure and none is sent after a cancellation; the answer comes when nothing is under way.

`FileInfo` is how a plan gets its metadata, or is one of the `invalid` ones: `parseFileInfo`,
`addFileInfo` and `validateFileInfo` (`inputs.ts` 461-566) with their loops as recursive functions of
the number of turns, `parseInputs` and `prepareUploadPlan` as their compositions. The limits are checked twice, the second time
with the modification time in. `PlanIsExact` compares the result with what was asked for.

### Deletion

A version's place relative to the `source` input decides everything, so names are
abstracted to *exact* (`foo`), *under* (`foo/...`), *sibling* (`foobar`) and *other*, and
the order in which B2 lists versions to `Position`.

| Code | Model |
| --- | --- |
| `requireSource`; purge's guard, `purge.ts` 43-48 | `Refuse`, `Begin` |
| `findFileByName`, `client.ts` 129-140 | `FoundByName`, `Lookup`, `LookupFails` |
| the abort checks of `delete-all.ts` 39, 41, 60, 76, 86 | `~aborted` guards, `Cancelled` |
| `versions.next()`, paginator of the SDK | `ListPage`, `ListFails`, and `page` for what it has fetched |
| out of prefix 45-53, dry run 55-58, request 60-68 | `Take` with `Reject`, `Preview`, `Send` |
| delete event, error event | `DeleteSucceeds`, `DeleteFails` |
| `emitDeletionSummary`, `main.ts` 375-403 | `Publish` |

Removal and answer are separate steps (`B2Removes`), so a reply can be lost. `deleteOne`
looks at no signal; neither does the model. Versions in `Volatile` come and go at any time.
`Stray` versions are listed although they are out of the prefix, as the code's own check
provides for.

`DeletionPromise` forgets the listing, its pages and the lookup: versions are taken up one at
a time, none twice and none after a cancellation; only what the inputs ask for is requested,
and nothing in a dry run; a request may take effect and still be counted as an error; and a
report that is a success has no errors, and nothing that was asked for and there all the time
is left. The mapping hides `aborted` from a single-file delete, which does not look at it.

### Sync

The scan gives each path a *kind* (absent, at the source only, changed, same, three kinds
of orphan). Every decision of the engine is a function of the kinds and inputs (`Action`);
`dst` is what is really visible at the destination, and others may change it.

| Code | Model |
| --- | --- |
| `resolveDirection`, `buildConfig`, `sync.ts` 199-300 | `Resolved`, `Start` |
| `collectPairs`, `zipFolders`, local and B2 scanners | `Scan`, `ScanError`, `ScanGivesUp`, `ScanThrows`, `ScanCancelled` |
| `planPreparedPair`, `generateActions` | `Action` |
| `emitPreparedItems`, `scheduleAction` | `TakePair` |
| `executeAction` and the action classes | `Check`, `Apply`, `ActionSucceeds`, `ActionFails` |
| `drainActions`, `aggregateErrorEvent`, `finishAfterAbort` | `Finish` |
| `processSyncEvent`, `sync.ts` 50-88 | `Transfers`, `Removals`, `Skips`, `errors` |
| the sync arm of `run()`, `main.ts` 126-163 | `Publish` |

Compare mode `sha1` and b2-to-b2 syncs exist in the SDK but no input selects them. A
download puts the old file aside, compares it with the scan and links the new one into a
free name, restoring the old one when they differ; the model takes that exchange as one
step. A local removal is two, because another process can write between the last `lstat`
and the `unlink`. Skip events of the scanners are not counted here.

`SyncPromise` has a plan and the fate of each path, and neither phases nor events: paths are
taken up in their order, each once, no more than `concurrency` together and none after a
cancellation; nothing is changed but by a running action, and nothing in a dry run; and the
report comes when no action runs, tells of all that settled, and is a success exactly when
nothing failed. `checked` and `applied` are `running` there, the counters count as told once
they are published, and a path the scan did not find has the plan "none".

### Download

Names are numbered in listing order. What matters of a local path is the directories above
it (`Above`) and what it becomes in lower case (`Fold`); `Leaf` is the path of each name,
`UnsafeOn` the names no path can stand for. `disk` tells what is at each path, who put it
there and in which version.

| Code (`src/commands/download.ts`) | Model |
| --- | --- |
| `resolveLocalPath`, 299-329 | `StartSingle`, `PlanningFails` |
| `isCaseInsensitiveDirectory`, 401-430 | `StartPrefix`; `keyed` is its answer, `folding` the truth |
| the listing loop, 118-151 | `ListPage`, `Refuse`, `Cancelled` |
| `recordPlannedLocalPath`, `findLocalPathFileAncestor`, `rememberLocalPathAncestors`, 436-507 | `SamePath`, `OneBeneathTheOther`, `KeysAbove` |
| `validateRemotePathSegment`, 532-564 | `UnsafeOn` in `Acceptable` |
| `mkdir` of the parents, 186-199 | `Prepare`, `FetchFails` |
| `bucket.download`, 201-204 | `Respond`, `FetchFails` |
| temporary file and pipeline, 231-238 | `Open`, `StreamEnds`, `StreamBreaks` |
| `replaceDownloadedFile`, 262-292 | `Rename`, `RenameFails`, `UnlinkLeaf`, `UnlinkFails` |
| the catch block, 240-250 | `Clean` |

A name of a later page is compared with every name planned before it, in both directions,
by maps of owners in the code and by `Collide` in the model. The owner maps hold exactly
the keys of the planned leaves and of the directories above them, so they need no
variables. `Kill` may end the process at any point. The empty marker of the case probe, and
other processes writing to the destination, are outside the model: a directory found to
lead elsewhere is a failed step.

### Action

Two names have versions, numbered as they come; the one on top decides what a listing
shows. A command sends one request at a time: `pc` names it, `reply` and `answer` are what
came back. `effects` and `seen` are history: what this run changed, and whether the source
name ever showed a file while it ran.

| Code | Model |
| --- | --- |
| `ACTION_EFFECTS`, `inputs.ts` 53-67; `retryPolicy`, `errors.ts` 144-153 | `Reads`, `HonorsDryRun`, `SafeToRetry` |
| `buildClient`, `getBucket`, input checks | `Start`, `StartFails` |
| `findFileByName`, `client.ts` 129-140 | `LookUp` by `ByName`; `Found`, `NotFound` |
| `copyCommand` | `Copy`, `Finish`, `Cancelled` |
| `retentionCommand`: two updates, either optional | `Retain`, `Retained`, `Hold`, `Finish` |
| `unhideFile` of the SDK | `ReadHistory`, `Hidden`, `NotHidden`, `RemoveMarker`, `Finish` |
| `hideCommand`, `headCommand` | `Hide`, `Head`, `Finish` |
| `verifyCommand`, `normalizeRemoteSha1` | `Head`, `Compare`, `NothingToCompare`, `Comparable` |
| `RetryTransport.send` of the SDK | `Resend`, `GiveUp` |
| the catch block, `classifyActionError`, `errors.ts` 39-97 | `Fail`: an error of the action's own (no verdict), a refusal (`false`), a transient one |

A change and its answer are one step of B2, but the answer may be `lost`; then the SDK sends
the request again, so a copy may be made twice (only the last is reported) and an unhide
may be refused because it succeeded. The SDK does not repeat uploads and the start and
finish of large files in place; these are not among the requests of this module. The other
commands are a request `work` during which whatever they may do to the bucket happens
(`Work`). A failed write of the step summary is swallowed, so setting the outputs succeeds.
Other clients write to the source name. A copy from another bucket, whose lookup is
additional, and a large copy, whose parts are the SDK's, look the same here.

### Listing

Names are numbered in B2's order and become visible or hidden while a command reads them.
`always` and `ever` are history: the names visible all the time, or at some time.

| Code | Model |
| --- | --- |
| one turn of the loop, `list.ts` 51-84, `presign.ts` 68-90 | `ReadPage`, with `PageSizeLeft` and `AfterPage` |
| `hasVisibleUploadAfter`, `list.ts` 93-111 | `LookAhead` |
| the authorisation of a prefix, or of one name | `Begin`, `PresignOne` |
| a request that fails | `RequestFails` |
| the two arms of `run()`, `main.ts` 189-233 | `Report` |
| `serializeJsonArrayPrefix`, `outputs.ts` 142-191 | `Serialize`, with `EntryBytes` and `Fits` |
| `buildSummaryJsonPayload`, the preview, 63-140 | `Complete`, `TooLong`, `PreviewEnds` |

A page ends where B2 stops, with fewer names than asked for or none at all. The last line of
the loop in `list.ts` (86) is not reached: a full result has returned inside it. The
commands take no signal. An entry is its size in the JSON text; `run()` hands over plain
records, so that serialising one does not throw. `presign` stops at `max-results`
(`README.md:427`) without a warning, and `AnswerIsTrue` promises no more.

### LycheeInstall

| Code (`scripts/run-lychee-lib.mjs`) | Model |
| --- | --- |
| `assetForPlatform`, the first look at the hash, 153-186 | `StartFails`, `Start` |
| `withInstallLock`, 400-423 | `Lock`, `LockFails`, `GiveUp`, `Release` |
| the two later looks, 187-196 | `Check`, `Verify` |
| `downloadWithRetries`, `downloadOnce` | `Fetch`, `FetchFails`, `Retry` |
| `installDownloadedAsset`, 224-235 | `Accept`, `InstallFails` |
| `rmSync`, `renameSync`, the `finally`, 216-220 | `Remove`, `Rename`, `Cleanup` |
| `installLockTimeoutMs`, 335-338, and the constants above it | `InstallTime`, `LockTimeout` |
| `spawnSync` and the exit, 120-130 | `Spawn`, `Exit` |

`binary` tells whether the cached file has the pinned hash; `owner` and `overtaken` are
history, for the lock directory does not know who made it. Time is explicit: `Tick` lets a
unit pass for everybody, but not past the timeout of a download, the end of a delay, or
`LockGrace` of other work under the lock (`MayWait`). That last bound is what the 30 seconds
of grace are for; the code cannot enforce it. A waiter may be as late as it likes: it has no
deadline to look at the lock. Removing the temporary directory is taken to succeed, and a
user to follow the message: a lock is removed by hand only while no `docs:links` process
runs. Any download may have other bytes than the pinned ones.

A lock that keeps changing hands can outlast a waiter, since its clock starts when it first
asks: `GivesUpForCause` allows it to give up then.

## 4. What the runs check

| Run | Shows | Size |
| --- | --- | --- |
| `upload` | `BudgetBounded`, `OneWriterPerName`, `SuccessIsComplete`, `Terminates`, `ImplementsPromise`; `MetadataIsExact` of `FileInfo` | 648 240 states |
| `deletion` | `RemovesOnlyWhatWasAsked`, `RemovalsAccountedFor`, `SuccessIsComplete`, `ImplementsPromise`, `Terminates` | 502 132 states |
| `sync` | `ChangesOnlyWhatWasAsked`, `CountersAreTrue`, `SuccessIsComplete`, `ForeignSurvives`, `ImplementsPromise`, `Terminates` | 897 904 states |
| `download` | `NoPartialFileLeft`, `ReportIsTrue`, `OwnFilesNeverInTheWay`, `SuccessIsComplete`, `PosixKeepsFiles`, `Terminates` | 236 242 states |
| `action` | `RetryableIsHarmless`, `ChangesAreReported`, `HiddenStaysOutOfReach`, `VerdictIsTrue`, `Terminates` | 1 217 573 states |
| `listing` | `AnswerIsTrue`, `SummaryIsWholeOrEmpty`, `Terminates` | 124 246 states |
| `lychee` | `RunsPinned`, `GivesUpForCause`, `Terminates` | 111 765 states |
| `sync_orphans`, `sync_errors`, `sync_bytes`, `sync_cancel`, `download_atomic` | a statement of the documentation that the code does not meet (section 7) | - |

Each of the first seven also checks the module's type invariant. Every property is worded
above its definition. `ImplementsPromise` includes, for `Upload`, that no upload starts after
a failure or a cancellation and that none is running when the command ends
(`NoStartAfterStop`, `NothingLeftRunning`); for `Deletion`, that no request follows a
cancellation (`NoRequestAfterAbort`); for `Sync`, that an action starts only where there is a
place for it (`StartsInBounds`). These four are proved separately. `MetadataIsExact` is an
assumption of `MCUpload` that TLC evaluates: `PlanIsExact` of every plan over up to three
file-info entries, one header input, with and without modification time and encryption.

**Bounds.** `upload`: up to four files, three workers, four names. That has fewer workers
than files, so a freed worker claims again while others fail; as many; more; one; and none.
All maps from files to names and all sets of invalid plans occur. `deletion`: five
versions - a hide marker on the exact name above the file itself, two under the prefix, one
locked, and a stray sibling - two per page, so a page is stale before its second version is
taken, and with two versions other clients add and remove. Any subset may be in the bucket
at first, which puts a page boundary between any two versions.
`sync`: three paths and a concurrency of one or two, so a place is waited for; every
combination of kinds at two paths, a further one to copy or not; one path others write to;
one unreadable entry. `download`: four names, `A`, `A/b`, `a` and one Windows refuses, two
per page, so that a name collides with one of its own page, of an earlier page, as the
same path, as a directory above, and only where case is ignored; every subset of them may
be visible, older files and directories may lie at `A` and `a`, and another client replaces
or removes `a` (two versions). `action`: three versions, at most two at first, so a lookup
finds an upload, a marker above an upload or nothing, and others or the run itself put one
more on top; each request is sent at most twice, so an answer is lost once and for good;
three uploads, of which two claim the same digest and one of these lies. `listing`: six names
on pages of two, three of which come and go, and up to three results, so that a result is
full at the end of a page, in the middle, or never, and the look-ahead passes over empty
pages; entries of 3 to 6 bytes of which two fit the limit of 12 exactly, or miss it by one.
`lychee`: three processes, so that two wait for one; two attempts with a delay between them;
one kill, which leaves a stale lock or not. Timeout, grace and half a delay are a tick each.
In the models of commands that take a signal it comes at any moment.

**Fairness.** The event loop runs each continuation that is ready, so a command that can
take a step does (`WF` of the command's own steps). A request settles, one way or the
other: the SDK bounds each with timeouts and a limited number of retries. Nothing obliges
B2 to store or remove anything, another client to act, or a signal to arrive; those steps
have no fairness. In `LycheeInstall` each process is scheduled and time passes (`WF` of each
process's steps and of `Tick`); nobody has to remove a stale lock or be killed.

**Deadlock** is checked everywhere; a finished command stutters explicitly.

## 5. What is proved

The assumptions are the `ASSUME`s of the modules (`UploadAssumption`,
`DeletionAssumption`, `SyncAssumption`, `DownloadAssumption`, `ActionAssumption`,
`ListingAssumption`, `LycheeAssumption`): bounds are numbers, different versions have different places in a listing, no directory lies above
itself, and a digest B2 has checked is that of the bytes.
Nothing is assumed of how many there are.

Every proof module of a command proves the type invariant, every safety invariant its run checks, and its
action property, all from one inductive invariant. None of the safety properties is inductive
alone.

Each of these modules also proves `FiniteWork`, with a measure of the work ahead of the command:
it is a bounded number, every step the command or its requests can take makes it smaller, and
no step of the environment makes it larger. `Terminates` rests on it: a run that does not end
would have to stand still for ever where a step is possible, which the fairness excludes. That
last inference needs `ENABLED` and stays with TLC. (In `LycheeInstall` it also needs time to
pass: a waiter's sleep is no step.) The measures are the argument for why the
loops end although others keep changing the bucket: the cursor only moves on, a retry uses an
attempt up, a path is taken up once.

* **`UploadProofs`.** The invariant ties a worker's `slot` to what it does: exactly the
  files in slots are under way, no two workers hold one file, the files below `next` are
  exactly those that were claimed, and a settled file has its result or the flag is up.
  `Budget` counts: the files under way inject into the workers. `Refinement` takes each
  action to one of `UploadPromise` or a stutter.
* **`FileInfoProofs`.** `ExactPlans` is `PlanIsExact` for lists of any length, any keys and any
  limits. Its hypotheses say what the inputs are, and `FileInfoAssumption`, that limits and
  lengths are numbers; `MCUpload` has TLC evaluate it. `StandsFor` says what a result has
  to do with the set of the entries it is made of, and each step of the code keeps it: one
  entry (`AddOne`), all of a list (`AddMany`), the limits (`Validated`). The bytes counted entry
  by entry are the cardinality of a disjoint union (`CountIsBytes`), and what is within the
  limits is so with an entry less (`WithinFewer`), so the first look at them refuses nothing
  the second would grant. What the loops compute is an induction over their turns, by the least
  counterexample, for functions in place of operators (`LoopExists`, `LoopInduction`).
* **`DeletionProofs`.** `CoverageInv` carries `CompleteSuccess`: whatever
  was there at first and still is lies on the page, at or past the cursor, is in the tally,
  or is the open request. `ListPage` keeps it because the next cursor is the least position
  not fetched (`FirstIsLeast`, by well-foundedness). `RequestInv` says that an open request
  is for something the inputs ask for, also when the listing contains something else.
  `OnceInv` is what `Refinement` adds: what was asked for lies before everything still to be
  taken from the page or listed, so a page fetched after others added and removed versions
  cannot bring a version back that was asked for already.
* **`SyncProofs`.** `FateInv`: a path leaves `todo` once, settles as what `Action` said, and
  whatever was touched ran. `ReportInv`: an engine that ended counted every settled action,
  and left pairs out only when cancelled. `Starts` counts: a start finds a place free, and
  nothing else adds to the running actions. `Refinement` takes `Scan` to the plan of
  `SyncPromise`, `TakePair`, `Apply` and the answers to its steps on one path, `Publish` to
  its report, and everything else to a stutter; the error count is that of the failed actions
  (`ReportInv`), since the closing error event is never the only one.
* **`DownloadProofs`.** `PlanInv`: a planned file is waiting, current or reported, and no
  two planned files collide. `Apart` turns that into distance on the disk when the probe
  was right. `DiskInv`: whatever this run wrote belongs to a file it has taken up and lies
  at that file's place or above it. Together they keep what was reported from being
  overwritten later, which none of the properties says alone. `CoverageInv` is the paging
  argument of `Deletion` again, with `PageComesFirst` for a page cut by a cardinality.

* **`ActionProofs`.** `RequestInv` ties each request to its commands: what may change the
  bucket is asked only by commands that are never safe to retry (`HarmlessInv`).
  `AnswerInv`: an answer that arrived names a change that was made, also after a lost one.
  `HistoryInv`: versions are used up in order and what lies below `next` keeps its bytes, so
  what was found stays what it was. `HiddenInv`: nothing is answered that was never shown.
* **`ListingProofs`.** What was visible throughout and lies below the cursor is in the
  result, whatever came and went; a result that became full did so at its cursor, and the
  look-ahead starts there. `WholeOrEmpty`: the bytes counted while the text is written are
  those of its entries (`TextInv`), with `EntriesUpTo` as the sum of the first n of them. It
  is a recursive function; that it grows with every entry (`EntriesGrow`) is shown by the
  least counterexample.
* **`LycheeProofs`.** `OwnerInv`: one process is under the lock, or the one that made it was
  killed. `BinaryInv`: whoever is about to remove the cached binary saw it bad, and nobody
  else can have made it good since, which is why nobody can have found it good.
  `TimeInv` carries `Patience`: a waiter that was not overtaken has waited no longer than
  the holder has used (`Used`: attempts and delays behind it, the one under way, other
  work), and `UsedBounds` keeps that within `installLockTimeoutMs`, by the lemmas on the sum
  of the delays.

## 6. What is only model-checked, and what is not modelled

Termination (`Terminates`) is liveness under fairness, which the prover does not reach: it
is checked on the instances above; what is proved of it is `FiniteWork`.

Not modelled: parts of one large file (the action's stream source is not sliceable, so the
SDK sends them one at a time), transport and retries of the SDK (outside `Action` they appear as
requests that fail before or after their effect; back-off and `retry-after` seconds
nowhere), masking of secrets and sanitising of messages,
step summaries, formatting, workflows and release scripts (sequential checks of texts). Only `Download` and `LycheeInstall` have a step that kills the process: these are the ones
that leave something behind on the runner. In the others a crash is a process that takes no
further step, and the safety properties on the bucket hold at every state.

## 7. Where documents and code disagree

* `README.md:190` says `keep-mode: delete` in an up sync "removes REMOTE files not present
  locally". Only the version the scan saw is deleted; an older one of the same name
  becomes visible (`sync_orphans`).
* `sync.ts:32` documents a "Count of per-file errors". The SDK's closing aggregate event
  is counted as well, so one failed file is reported as 2 errors (`sync_errors`).
* `README.md:422` documents `bytes-transferred` as "Total bytes moved". A dry run reports
  the bytes it would have moved (`sync_bytes`).
* `__tests__/main.test.ts:208` states that a SIGTERM abort is reported through `setFailed`.
  The SDK's generator ends normally on an abort and `syncCommand` does not look at the
  signal, so a cancelled sync succeeds with pairs it never took up (`sync_cancel`).
* `download.ts:258` calls the replacement of a file atomic. On Windows, after a refused
  rename, the old file is unlinked first, and a second refusal leaves neither the old nor
  the new one (`download_atomic`). `PosixKeepsFiles` is what holds elsewhere.

Some things seen while reading that no run is about: the comment above `uploadCommand` says
the SDK parallelises the parts of one file, which the stream source prevents; and an up
sync with the default compare mode compares a local modification time with B2's upload
time, so unchanged files are uploaded again. And `unhide` logs that a name "is now visible" when
it removed one marker, although a second one may lie below it (after the upload between the two was deleted).
The comment at `presign.ts:12` gives `expiresAt` in milliseconds; the code computes seconds.
A `file-info` entry with the key `__proto__` is dropped without an error, as a plain object
does not keep it. The temporary directory of a
`docs:links` process that is killed during an install stays in the cache.

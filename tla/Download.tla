------------------------------ MODULE Download ------------------------------
(***************************************************************************)
(* The `download` command: downloadCommand, downloadPrefix, downloadOne    *)
(* and replaceDownloadedFile (src/commands/download.ts), over the runner's *)
(* file system and a bucket that other clients write to.                   *)
(*                                                                         *)
(* A prefix download first plans a local path for every listed name and    *)
(* refuses the whole run when two names cannot both have theirs; then it   *)
(* fetches one file after the other through a temporary file beside the    *)
(* final one.  The process may be killed between any two steps.            *)
(*                                                                         *)
(* Files are numbered in the order B2 lists them.  Paths are abstract: what*)
(* matters is which path a file has, which directories lie above it, and   *)
(* what a path becomes where upper and lower case are the same.            *)
(***************************************************************************)
EXTENDS Integers, FiniteSets

CONSTANTS
  MaxFile,      \* bound: B2 names under the prefix
  MaxVersion,   \* bound: versions other clients give a name
  Volatile,     \* bound: the names other clients write to during the run
  PageSize,     \* names per listing page (1000 in the code)
  Path,         \* local paths under the destination
  Preexisting,  \* bound: the paths that may exist when the run begins
  Leaf,         \* the path each file maps to
  Above,        \* the directories above each path, below the destination
  Fold,         \* each path in lower case
  UnsafeOn      \* the names no path can stand for, per platform

Files     == 1 .. MaxFile
Platforms == {"posix", "win32"}
NoFile    == 0

ASSUME DownloadAssumption ==
  /\ MaxFile \in Nat /\ MaxVersion \in Nat \ {0} /\ PageSize \in Nat \ {0}
  /\ Volatile \subseteq Files /\ Preexisting \subseteq Path
  /\ Leaf \in [Files -> Path]
  /\ Above \in [Path -> SUBSET Path]
  /\ Fold \in [Path -> Path]
  /\ \A p \in Path : p \notin Above[p]
  /\ UnsafeOn \in [Platforms -> SUBSET Files]

VARIABLES
  \* The input and the runner; never changed.
  mode,        \* "prefix" or "single"
  platform,    \* process.platform
  folding,     \* the file system takes "A" and "a" for one name
  \* B2.
  remote,      \* the visible version of each name: 0 not yet, Gone when hidden or deleted
  initial,     \* names visible when the run began
  \* The command.
  pc,
  aborted,     \* signal.aborted
  keyed,       \* caseInsensitivePaths, as probed
  cursor,      \* startFileName; End after the last page
  planned,     \* names with a local path
  waiting,     \* planned names not taken up yet
  current,     \* the name being downloaded, or NoFile
  body,        \* the version B2 answered with
  reported,    \* the version in each name's DownloadedFile; 0 when there is none
  outcome,     \* "running", "returned", "thrown" or "killed"
  \* The disk.
  temp,        \* the temporary file: "none", "partial", "whole", or "stuck" if it cannot go
  disk         \* what is at each place

runner == <<mode, platform, folding>>
bucket == <<remote, initial>>
plan   == <<keyed, cursor, planned>>
vars == <<runner, bucket, pc, aborted, plan, waiting, current, body, reported, outcome,
          temp, disk>>

End  == MaxFile + 1
Gone == MaxVersion + 1

Nothing         == [is |-> "nothing", of |-> NoFile, version |-> 0]
Older           == [is |-> "file", of |-> NoFile, version |-> 0]
Directory(f)    == [is |-> "directory", of |-> f, version |-> 0]
Written(f, v)   == [is |-> "file", of |-> f, version |-> v]
Fragment(f, v)  == [is |-> "fragment", of |-> f, version |-> v]
Contents == [is : {"nothing", "file", "directory", "fragment"}, of : Files \cup {NoFile},
             version : 0 .. MaxVersion]

Visible == {f \in Files : remote[f] \in 1 .. MaxVersion}

\* Where a path is on this disk.
Place(p) == IF folding THEN Fold[p] ELSE p
Spot(f)  == Place(Leaf[f])
Parents(f) == {Place(d) : d \in Above[Leaf[f]]}

Init ==
  /\ mode \in {"prefix", "single"} /\ platform \in Platforms /\ folding \in BOOLEAN
  /\ remote \in [Files -> {0, 1}]
  /\ initial = Visible
  /\ pc = "start" /\ aborted = FALSE
  /\ keyed = FALSE /\ cursor = 1 /\ planned = {} /\ waiting = {}
  /\ current = NoFile /\ body = 0
  /\ reported = [f \in Files |-> 0]
  /\ outcome = "running"
  /\ temp = "none"
  /\ disk \in [Path -> {Nothing, Older, Directory(NoFile)}]
  /\ \A p \in Path : disk[p] # Nothing =>
       /\ p \in Preexisting /\ Place(p) = p
       /\ \A d \in Above[p] : disk[Place(d)] = Directory(NoFile)

Throw == pc' = "done" /\ outcome' = "thrown"
First(S) == CHOOSE f \in S : \A g \in S : f <= g

---------------------------------------------------------------------------
(* Planning. *)

\* localPathCollisionKey.
Key(p) == IF keyed THEN Fold[p] ELSE p
KeysAbove(f) == {Key(d) : d \in Above[Leaf[f]]}

\* BUG: paths are compared as they are spelt.
SamePathAsSpelt(f, g) == Leaf[f] = Leaf[g]

\* recordPlannedLocalPath: why file g cannot be planned after file f.
SamePath(f, g) == Key(Leaf[f]) = Key(Leaf[g])

\* BUG: a file planned where an earlier file needs a directory is not noticed.
BeneathEarlierOnly(f, g) == Key(Leaf[f]) \in KeysAbove(g)
OneBeneathTheOther(f, g) ==
  Key(Leaf[f]) \in KeysAbove(g) \/ Key(Leaf[g]) \in KeysAbove(f)

Collide(f, g) == SamePath(f, g) \/ OneBeneathTheOther(f, g)

\* A single file: its path is resolved from the destination input.
StartSingle ==
  /\ pc = "start" /\ mode = "single"
  /\ \E f \in Files : planned' = {f} /\ waiting' = {f}
  /\ pc' = "ready"
  /\ UNCHANGED <<runner, bucket, aborted, keyed, cursor, current, body, reported, outcome,
                 temp, disk>>

\* The destination directory is made and its case behaviour probed; a probe that cannot
\* write its marker takes it for case-sensitive.
StartPrefix ==
  /\ pc = "start" /\ mode = "prefix"
  /\ keyed' \in {folding, FALSE}
  /\ pc' = "listing"
  /\ UNCHANGED <<runner, bucket, aborted, cursor, planned, waiting, current, body, reported,
                 outcome, temp, disk>>

\* An unusable destination, a failed listing, or a directory that leads out of the destination.
PlanningFails ==
  /\ pc \in {"start", "listing"}
  /\ Throw
  /\ UNCHANGED <<runner, bucket, aborted, plan, waiting, current, body, reported, temp, disk>>

Rest == {f \in Visible : f >= cursor}
Page == {f \in Rest : Cardinality({g \in Rest : g < f}) < PageSize}
Acceptable ==
  /\ Page \cap UnsafeOn[platform] = {}
  /\ \A g \in Page, f \in planned \cup Page : f < g => ~Collide(f, g)

\* BUG: the next page starts behind the name the answer names.
ListPageSkips ==
  /\ pc = "listing" /\ ~aborted /\ Acceptable
  /\ planned' = planned \cup Page /\ waiting' = planned'
  /\ cursor' = IF Page = Rest THEN End ELSE First(Rest \ Page) + 1
  /\ pc' = IF cursor' = End THEN "ready" ELSE "listing"
  /\ UNCHANGED <<runner, bucket, aborted, keyed, current, body, reported, outcome, temp, disk>>

\* A page of visible names arrives and each of them is planned.
ListPage ==
  /\ pc = "listing" /\ ~aborted /\ Acceptable
  /\ planned' = planned \cup Page /\ waiting' = planned'
  /\ cursor' = IF Page = Rest THEN End ELSE First(Rest \ Page)
  /\ pc' = IF cursor' = End THEN "ready" ELSE "listing"
  /\ UNCHANGED <<runner, bucket, aborted, keyed, current, body, reported, outcome, temp, disk>>

\* A name that has no safe path, or that collides with an earlier one, ends the run.
Refuse ==
  /\ pc = "listing" /\ ~aborted /\ ~Acceptable
  /\ Throw
  /\ UNCHANGED <<runner, bucket, aborted, plan, waiting, current, body, reported, temp, disk>>

\* throwIfAborted, before each page and each file of a prefix.
Cancelled ==
  /\ pc = "listing" \/ (pc = "ready" /\ mode = "prefix" /\ waiting # {})
  /\ aborted
  /\ Throw
  /\ UNCHANGED <<runner, bucket, aborted, plan, waiting, current, body, reported, temp, disk>>

---------------------------------------------------------------------------
(* downloadOne. *)

\* The next file is taken up and the directories it needs are made; a file among them
\* makes mkdir fail.
Prepare ==
  /\ pc = "ready" /\ waiting # {} /\ (mode = "prefix" => ~aborted)
  /\ LET f == First(waiting) IN
       /\ \A d \in Parents(f) : disk[d].is \in {"nothing", "directory"}
       /\ current' = f /\ waiting' = waiting \ {f}
       /\ disk' = [p \in Path |-> IF p \in Parents(f) /\ disk[p] = Nothing
                                  THEN Directory(f) ELSE disk[p]]
  /\ pc' = "prepared"
  /\ UNCHANGED <<runner, bucket, aborted, plan, body, reported, outcome, temp>>

\* What stops downloadOne before it has a temporary file: a directory that cannot be made
\* or now leads out of the destination (a prefix's directories are looked at again after
\* the answer), a cancelled or failed request, a name that is gone.
FetchFails ==
  /\ \/ pc = "ready" /\ waiting # {}
     \/ pc = "prepared"
     \/ pc = "responded" /\ mode = "prefix"
  /\ Throw
  /\ UNCHANGED <<runner, bucket, aborted, plan, waiting, current, body, reported, temp, disk>>

\* B2 answers the request with the version visible now.
Respond ==
  /\ pc = "prepared" /\ current \in Visible
  /\ body' = remote[current]
  /\ pc' = "responded"
  /\ UNCHANGED <<runner, bucket, aborted, plan, waiting, current, reported, outcome, temp,
                 disk>>

\* BUG: what is reported of the file is asked of B2 a second time.
OpenAskingAgain ==
  /\ pc = "responded"
  /\ temp' = "partial"
  /\ body' = remote[current]
  /\ pc' = "writing"
  /\ UNCHANGED <<runner, bucket, aborted, plan, waiting, current, reported, outcome, disk>>

\* The temporary file is created and the body streams into it.
Open ==
  /\ pc = "responded"
  /\ temp' = "partial"
  /\ pc' = "writing"
  /\ UNCHANGED <<runner, bucket, aborted, plan, waiting, current, body, reported, outcome,
                 disk>>

StreamEnds ==
  /\ pc = "writing"
  /\ temp' = "whole"
  /\ pc' = "renaming"
  /\ UNCHANGED <<runner, bucket, aborted, plan, waiting, current, body, reported, outcome,
                 disk>>

\* The connection, the disk or a cancellation breaks the stream.
StreamBreaks ==
  /\ pc = "writing"
  /\ pc' = "cleaning"
  /\ UNCHANGED <<runner, bucket, aborted, plan, waiting, current, body, reported, outcome,
                 temp, disk>>

\* The rename puts the temporary file in place of whatever file was there.
Rename ==
  /\ pc \in {"renaming", "retrying"} /\ disk[Spot(current)].is # "directory"
  /\ disk' = [disk EXCEPT ![Spot(current)] = IF temp = "whole" THEN Written(current, body)
                                             ELSE Fragment(current, body)]
  /\ temp' = "none"
  /\ reported' = [reported EXCEPT ![current] = body]
  /\ current' = NoFile /\ body' = 0
  /\ pc' = "ready"
  /\ UNCHANGED <<runner, bucket, aborted, plan, waiting, outcome>>

\* BUG: the leaf is removed for any refused rename, on any platform.
RenameFailsAnywhere ==
  /\ pc \in {"renaming", "retrying"}
  /\ pc' = IF pc = "renaming" THEN "unlinking" ELSE "cleaning"
  /\ UNCHANGED <<runner, bucket, aborted, plan, waiting, current, body, reported, outcome,
                 temp, disk>>

\* BUG: the second rename is retried like the first.
RenameFailsForever ==
  /\ pc \in {"renaming", "retrying"}
  /\ \/ platform = "win32" /\ pc' = "unlinking"
     \/ pc' = "cleaning"
  /\ UNCHANGED <<runner, bucket, aborted, plan, waiting, current, body, reported, outcome,
                 temp, disk>>

\* BUG: a failed rename is outside the try block.
RenameFailsUncaught ==
  /\ pc \in {"renaming", "retrying"}
  /\ \/ platform = "win32" /\ pc = "renaming" /\ pc' = "unlinking" /\ UNCHANGED outcome
     \/ Throw
  /\ UNCHANGED <<runner, bucket, aborted, plan, waiting, current, body, reported, temp, disk>>

\* The rename is refused.  On Windows, EEXIST and EPERM lead to a second attempt.
RenameFails ==
  /\ pc \in {"renaming", "retrying"}
  /\ \/ platform = "win32" /\ pc = "renaming" /\ pc' = "unlinking"
     \/ pc' = "cleaning"
  /\ UNCHANGED <<runner, bucket, aborted, plan, waiting, current, body, reported, outcome,
                 temp, disk>>

\* The second attempt first removes the leaf, unless there is none.
UnlinkLeaf ==
  /\ pc = "unlinking" /\ disk[Spot(current)].is # "directory"
  /\ disk' = [disk EXCEPT ![Spot(current)] = Nothing]
  /\ pc' = "retrying"
  /\ UNCHANGED <<runner, bucket, aborted, plan, waiting, current, body, reported, outcome, temp>>

UnlinkFails ==
  /\ pc = "unlinking"
  /\ pc' = "cleaning"
  /\ UNCHANGED <<runner, bucket, aborted, plan, waiting, current, body, reported, outcome,
                 temp, disk>>

\* The catch block: the temporary file is removed, or cannot be, and the error goes on.
Clean ==
  /\ pc = "cleaning"
  /\ temp' \in {"none", "stuck"}
  /\ Throw
  /\ UNCHANGED <<runner, bucket, aborted, plan, waiting, current, body, reported, disk>>

Return ==
  /\ pc = "ready" /\ waiting = {}
  /\ pc' = "done" /\ outcome' = "returned"
  /\ UNCHANGED <<runner, bucket, aborted, plan, waiting, current, body, reported, temp, disk>>

---------------------------------------------------------------------------
(* The environment. *)

\* SIGTERM or SIGINT.
Abort ==
  /\ pc # "done" /\ ~aborted
  /\ aborted' = TRUE
  /\ UNCHANGED <<runner, bucket, pc, plan, waiting, current, body, reported, outcome, temp,
                 disk>>

\* The process is killed, or its machine stops.
Kill ==
  /\ pc # "done"
  /\ pc' = "done" /\ outcome' = "killed"
  /\ UNCHANGED <<runner, bucket, aborted, plan, waiting, current, body, reported, temp, disk>>

\* Another client uploads a version of a name.
OtherUploads(f) ==
  /\ pc # "done" /\ remote[f] < MaxVersion
  /\ remote' = [remote EXCEPT ![f] = @ + 1]
  /\ UNCHANGED <<runner, initial, pc, aborted, plan, waiting, current, body, reported,
                 outcome, temp, disk>>

\* Another client hides or deletes a name, for good.
OtherHides(f) ==
  /\ pc # "done" /\ f \in Visible
  /\ remote' = [remote EXCEPT ![f] = Gone]
  /\ UNCHANGED <<runner, initial, pc, aborted, plan, waiting, current, body, reported,
                 outcome, temp, disk>>

Finished == pc = "done" /\ UNCHANGED vars

Planning == StartSingle \/ StartPrefix \/ PlanningFails \/ ListPage \/ Refuse \/ Cancelled
Fetching == Prepare \/ FetchFails \/ Respond \/ Open \/ StreamEnds \/ StreamBreaks
Replacing == Rename \/ RenameFails \/ UnlinkLeaf \/ UnlinkFails \/ Clean \/ Return
Step == Planning \/ Fetching \/ Replacing

Next ==
  \/ Step
  \/ Abort \/ Kill
  \/ \E f \in Volatile : OtherUploads(f) \/ OtherHides(f)
  \/ Finished

\* The command keeps going: the system calls return and the SDK bounds its requests.
Spec == Init /\ [][Next]_vars /\ WF_vars(Step)

---------------------------------------------------------------------------
\* The type of every variable.
TypeOK ==
  /\ mode \in {"prefix", "single"} /\ platform \in Platforms /\ folding \in BOOLEAN
  /\ remote \in [Files -> 0 .. Gone] /\ initial \in SUBSET Files
  /\ pc \in {"start", "listing", "ready", "prepared", "responded", "writing", "renaming",
             "unlinking", "retrying", "cleaning", "done"}
  /\ aborted \in BOOLEAN
  /\ keyed \in BOOLEAN /\ cursor \in 1 .. End /\ planned \in SUBSET Files
  /\ waiting \in SUBSET Files /\ current \in Files \cup {NoFile}
  /\ body \in 0 .. MaxVersion /\ reported \in [Files -> 0 .. MaxVersion]
  /\ outcome \in {"running", "returned", "thrown", "killed"}
  /\ temp \in {"none", "partial", "whole", "stuck"}
  /\ disk \in [Path -> Contents]

\* A file's own name never shows a part of its body, even after a kill, and a command that
\* ends by itself leaves no temporary file that it was able to remove.
NoPartialFileLeft ==
  /\ \A p \in Path : disk[p].is # "fragment"
  /\ outcome \in {"returned", "thrown"} => temp \in {"none", "stuck"}

\* Each file that is reported lies on the disk in the version that is reported, whatever was
\* downloaded after it, unless case behaviour could not be probed.
ReportIsTrue ==
  keyed = folding =>
    \A f \in Files : reported[f] # 0 => disk[Spot(f)] = Written(f, reported[f])

\* What this run has written is never in the way of what it has still to write: no file of
\* its own where it needs a directory, and nothing of its own where it will put a file.
OwnFilesNeverInTheWay ==
  keyed = folding =>
    \A f \in waiting :
      /\ disk[Spot(f)].of = NoFile
      /\ \A d \in Parents(f) : disk[d].is = "file" => disk[d].of = NoFile

\* A prefix download that returns reports every name that was visible all the time.
SuccessIsComplete ==
  outcome = "returned" /\ mode = "prefix" => \A f \in initial \cap Visible : reported[f] # 0

\* A local file stays one: each step leaves the old or puts a new one in its place.
ReplacementIsAtomic ==
  [][\A p \in Path : disk[p].is = "file" => disk'[p].is = "file"]_vars

\* So it is where rename overwrites.
PosixKeepsFiles ==
  [][platform = "posix" => \A p \in Path : disk[p].is = "file" => disk'[p].is = "file"]_vars

\* The command ends.
Terminates == <>(pc = "done")
=============================================================================

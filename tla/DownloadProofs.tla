--------------------------- MODULE DownloadProofs ---------------------------
(***************************************************************************)
(* Proofs about Download.tla, for any names, any tree of local paths, any  *)
(* page size, both platforms and both kinds of file system: the inductive  *)
(* invariant and the safety properties that follow from it.                *)
(***************************************************************************)
EXTENDS Download, FiniteSetTheorems, WellFoundedInduction, TLAPS

USE DownloadAssumption

\* What each phase may rely on.
PhaseInv ==
  /\ outcome = "running" <=> pc # "done"
  /\ pc = "start" => planned = {} /\ cursor = 1
  /\ pc \in {"start", "listing"} => waiting = planned /\ \A f \in Files : reported[f] = 0
  /\ pc \in {"start", "listing", "ready"} => current = NoFile
  /\ pc \notin {"start", "listing", "ready", "done"} => current \in Files
  /\ pc \in {"responded", "writing", "renaming", "unlinking", "retrying"} => body # 0
  /\ pc \in {"renaming", "unlinking", "retrying"} => temp = "whole"
  /\ pc \in {"start", "listing", "ready", "prepared", "responded"} => temp = "none"
  /\ outcome \in {"returned", "thrown"} => temp \in {"none", "stuck"}
  /\ outcome = "returned" => waiting = {} /\ current = NoFile
  /\ platform = "posix" => pc \notin {"unlinking", "retrying"}

\* A planned file is waiting, being downloaded or reported, no two planned files collide, and
\* while names are listed those planned lie before the cursor.
PlanInv ==
  /\ \A f \in Files : f \in planned <=> f \in waiting \/ f = current \/ reported[f] # 0
  /\ \A f \in waiting : f # current /\ reported[f] = 0
  /\ current # NoFile => reported[current] = 0
  /\ \A f, g \in planned : f < g => ~Collide(f, g)
  /\ pc = "listing" => \A f \in planned : f < cursor

\* The cursor leaves behind no name that was visible all the time and is not planned.
CoverageInv ==
  /\ \A f \in initial : remote[f] # 0
  /\ pc = "listing" => \A f \in initial \cap Visible : f \in planned \/ f >= cursor
  /\ mode = "prefix" /\ (pc \notin {"start", "listing", "done"} \/ outcome = "returned") =>
       initial \cap Visible \subseteq planned

\* What this run wrote belongs to a file it has taken up, at that file's place or above it.
DiskInv ==
  /\ \A p \in Path : disk[p].is # "fragment"
  /\ \A p \in Path, g \in Files : disk[p].of = g =>
       /\ g \in planned \ waiting
       /\ disk[p].is = "file" => p = Spot(g)
       /\ disk[p].is # "file" => p \in Parents(g)
  /\ keyed = folding =>
       \A f \in Files : reported[f] # 0 => disk[Spot(f)] = Written(f, reported[f])

Inv == TypeOK /\ PhaseInv /\ PlanInv /\ CoverageInv /\ DiskInv

---------------------------------------------------------------------------
(* Helpers. *)

\* First names the least of a non-empty set of files.
LEMMA FirstIsLeast ==
  ASSUME NEW S \in SUBSET Files, S # {}
  PROVE  First(S) \in S /\ \A g \in S : First(S) <= g
  <1> DEFINE R == OpToRel(<, Nat)
  <1>1. IsWellFoundedOn(R, Nat)
    BY NatLessThanWellFounded
  <1>2. S \subseteq Nat
    BY DEF Files
  <1>3. PICK x \in S : \A y \in S : ~ (<<y, x>> \in R)
    BY <1>1, <1>2, WFMin
  <1>4. \A y \in S : ~ (y < x)
    BY <1>2, <1>3 DEF OpToRel
  <1>5. \A y \in S : x <= y
    BY <1>2, <1>4
  <1> QED
    BY <1>5 DEF First

\* A page takes the first of the names that are left.
LEMMA PageComesFirst ==
  ASSUME NEW f \in Page, NEW g \in Rest \ Page
  PROVE  f < g
  <1> DEFINE Before(x) == {h \in Rest : h < x}
  <1>1. Rest \subseteq Files /\ f \in Rest /\ IsFiniteSet(Files)
    BY FS_Interval DEF Page, Rest, Visible, Files
  <1>2. IsFiniteSet(Before(f)) /\ IsFiniteSet(Before(g))
    BY <1>1, FS_Subset
  <1>3. Cardinality(Before(f)) < PageSize /\ ~(Cardinality(Before(g)) < PageSize)
    BY DEF Page
  <1>4. ~(g <= f)
    <2> SUFFICES ASSUME g <= f PROVE FALSE
      OBVIOUS
    <2>1. Before(g) \subseteq Before(f)
      <3>1. \A h \in Files : h \in Int
        BY DEF Files
      <3>2. f \in Int /\ g \in Int
        BY <1>1, <3>1
      <3>3. \A h \in Rest : h < g => h < f
        BY <1>1, <3>1, <3>2
      <3> QED
        BY <3>3
    <2>2. Cardinality(Before(g)) <= Cardinality(Before(f))
      BY <1>2, <2>1, FS_Subset
    <2>3. Cardinality(Before(g)) \in Nat /\ Cardinality(Before(f)) \in Nat
      BY <1>2, FS_CardinalityType
    <2> HIDE DEF Before
    <2> QED
      BY <1>3, <2>2, <2>3
  <1> QED
    BY <1>1, <1>4 DEF Files

\* Every place is a path.
LEMMA PlacesArePaths ==
  ASSUME TypeOK, NEW f \in Files
  PROVE  Spot(f) \in Path /\ Parents(f) \subseteq Path
  BY DEF TypeOK, Spot, Parents, Place

\* Where case behaviour is known, two planned files are apart on the disk.
LEMMA Apart ==
  ASSUME TypeOK, PlanInv, keyed = folding, NEW f \in planned, NEW g \in planned, f # g
  PROVE  /\ Spot(f) # Spot(g)
         /\ Spot(f) \notin Parents(g) /\ Spot(g) \notin Parents(f)
  <1>1. \A p : Key(p) = Place(p)
    BY DEF Key, Place
  <1>2. f < g \/ g < f
    BY DEF TypeOK, Files
  <1>3. ~Collide(f, g) \/ ~Collide(g, f)
    BY <1>2 DEF PlanInv
  <1> QED
    BY <1>1, <1>3 DEF Collide, SamePath, OneBeneathTheOther, KeysAbove, Spot, Parents

\* The contents a step may write have the right type.
LEMMA ContentsTyped ==
  /\ Nothing \in Contents /\ Older \in Contents
  /\ \A f \in Files \cup {NoFile} : Directory(f) \in Contents
  /\ \A f \in Files, v \in 0 .. MaxVersion :
       Written(f, v) \in Contents /\ Fragment(f, v) \in Contents
  BY DEF Nothing, Older, Directory, Written, Fragment, Contents

---------------------------------------------------------------------------
(* The invariant holds at first and is kept by every step. *)

\* Every state the command can begin in satisfies the invariant.
LEMMA InitInv == Init => Inv
  <1> SUFFICES ASSUME Init PROVE Inv
    OBVIOUS
  <1>1. TypeOK
    <2>1. disk \in [Path -> Contents]
      BY ContentsTyped DEF Init, NoFile
    <2>2. remote \in [Files -> 0 .. Gone]
      BY DEF Init, Gone
    <2>3. cursor \in 1 .. End
      BY DEF Init, End
    <2>4. body \in 0 .. MaxVersion /\ reported \in [Files -> 0 .. MaxVersion]
      BY DEF Init
    <2> QED
      BY <2>1, <2>2, <2>3, <2>4 DEF Init, TypeOK, Visible
  <1>2. PhaseInv /\ PlanInv /\ CoverageInv
    BY DEF Init, PhaseInv, PlanInv, CoverageInv, Visible, Files, NoFile
  <1>3. DiskInv
    <2>1. \A p \in Path : disk[p] \in {Nothing, Older, Directory(NoFile)}
      BY DEF Init
    <2>2. \A p \in Path : disk[p].of = NoFile /\ disk[p].is # "fragment"
      BY <2>1 DEF Nothing, Older, Directory
    <2>3. NoFile \notin Files
      BY DEF Files, NoFile
    <2>4. \A f \in Files : reported[f] = 0
      BY DEF Init
    <2> QED
      BY <2>2, <2>3, <2>4 DEF DiskInv
  <1> QED
    BY <1>1, <1>2, <1>3 DEF Inv

\* Steps that only end the command.
EndStep ==
  /\ pc # "done" /\ pc' = "done"
  /\ \/ outcome' = "thrown" /\ pc \in {"start", "listing", "ready", "prepared", "responded"}
     \/ outcome' = "killed"
     \/ outcome' = "returned" /\ pc = "ready" /\ waiting = {}
  /\ UNCHANGED <<runner, bucket, aborted, plan, waiting, current, body, reported, temp, disk>>

LEMMA EndInv == Inv /\ EndStep => Inv'
  <1> SUFFICES ASSUME Inv, EndStep PROVE Inv'
    OBVIOUS
  <1> USE DEF EndStep, runner, bucket, plan
  <1>1. TypeOK'
    BY DEF Inv, TypeOK, Spot, Place
  <1>2. PhaseInv'
    BY DEF Inv, PhaseInv
  <1>3. PlanInv'
    BY DEF Inv, PlanInv, Collide, SamePath, OneBeneathTheOther, KeysAbove, Key
  <1>4. CoverageInv'
    BY DEF Inv, CoverageInv, Visible
  <1>5. DiskInv'
    BY DEF Inv, DiskInv, Spot, Parents, Place
  <1> QED
    BY <1>1, <1>2, <1>3, <1>4, <1>5 DEF Inv

\* Choosing the file of a single download, or probing the destination of a prefix.
LEMMA StartInv == Inv /\ (StartSingle \/ StartPrefix) => Inv'
  <1> SUFFICES ASSUME Inv, StartSingle \/ StartPrefix PROVE Inv'
    OBVIOUS
  <1> USE DEF StartSingle, StartPrefix, runner, bucket
  <1>1. TypeOK'
    BY DEF Inv, TypeOK
  <1>2. PhaseInv'
    BY DEF Inv, PhaseInv
  <1>3. PlanInv'
    <2>1. planned' = {} \/ \E f \in Files : planned' = {f}
      BY DEF Inv, PhaseInv
    <2>2. \A f, g \in planned' : ~ (f < g)
      <3>1. \A f \in Files : ~ (f < f)
        BY DEF Files
      <3> QED
        BY <2>1, <3>1
    <2>3. \A f \in Files : reported'[f] = 0
      BY DEF Inv, PhaseInv
    <2>4. waiting' = planned' /\ current' = NoFile
      BY DEF Inv, PhaseInv
    <2>5. pc' = "listing" => planned' = {}
      BY DEF Inv, PhaseInv
    <2>6. waiting' \subseteq Files /\ NoFile \notin Files
      BY <2>1, <2>4 DEF Files, NoFile
    <2> QED
      BY <2>2, <2>3, <2>4, <2>5, <2>6 DEF PlanInv
  <1>4. CoverageInv'
    <2>1. pc' = "listing" => cursor' = 1
      BY DEF Inv, PhaseInv
    <2>2. mode' = "prefix" => pc' = "listing"
      OBVIOUS
    <2>3. \A f \in Files : f >= 1
      BY DEF Files
    <2>4. \A f \in initial' : f \in Files /\ remote'[f] # 0
      BY DEF Inv, TypeOK, CoverageInv
    <2> QED
      BY <2>1, <2>2, <2>3, <2>4 DEF Inv, PhaseInv, CoverageInv
  <1>5. DiskInv'
    BY DEF Inv, PhaseInv, PlanInv, DiskInv, Spot, Parents, Place
  <1> QED
    BY <1>1, <1>2, <1>3, <1>4, <1>5 DEF Inv

\* Planning a page.
LEMMA ListPageInv == Inv /\ ListPage => Inv'
  <1> SUFFICES ASSUME Inv, ListPage PROVE Inv'
    OBVIOUS
  <1> USE DEF ListPage, runner, bucket
  <1>1. Page \subseteq Rest /\ Rest \subseteq Files /\ Page \subseteq Files
    BY DEF Page, Rest, Visible
  <1>2. /\ cursor' \in 1 .. End
        /\ cursor' = End \/ cursor' \in Files
        /\ \A f \in Rest : f \in Page \/ f >= cursor'
        /\ \A f \in Page \cup planned : f < cursor'
    <2>1. CASE Page = Rest
      BY <1>1, <2>1 DEF End, Files, Inv, TypeOK
    <2>2. CASE Page # Rest
      <3>1. Rest \ Page \in SUBSET Files /\ Rest \ Page # {}
        BY <1>1, <2>2
      <3>2. First(Rest \ Page) \in Rest \ Page /\ \A g \in Rest \ Page : First(Rest \ Page) <= g
        BY <3>1, FirstIsLeast
      <3>3. cursor' = First(Rest \ Page)
        BY <2>2
      <3>4. \A f \in Page : f < cursor'
        BY <3>2, <3>3, PageComesFirst
      <3>5. First(Rest \ Page) >= cursor /\ First(Rest \ Page) \in Files
        BY <1>1, <3>2 DEF Rest
      <3>6. \A f \in planned : f < cursor /\ f \in Files
        BY DEF Inv, PlanInv, TypeOK
      <3>7. \A f \in planned : f < cursor'
        BY <3>3, <3>5, <3>6 DEF Inv, TypeOK, Files, End
      <3>8. cursor' \in 1 .. End
        BY <3>3, <3>5 DEF Files, End
      <3>9. \A f \in Rest : f \in Page \/ f >= cursor'
        BY <1>1, <3>2, <3>3, <3>5 DEF Files
      <3> QED
        BY <3>3, <3>4, <3>5, <3>7, <3>8, <3>9
    <2> QED
      BY <2>1, <2>2
  <1>3. cursor' = End => Page = Rest
    <2> SUFFICES ASSUME cursor' = End, Page # Rest PROVE FALSE
      OBVIOUS
    <2>1. Rest \ Page \in SUBSET Files /\ Rest \ Page # {}
      BY <1>1
    <2>2. cursor' \in Files
      BY <2>1, FirstIsLeast
    <2> QED
      BY <2>2 DEF Files, End
  <1>4. TypeOK'
    BY <1>1, <1>2 DEF Inv, TypeOK
  <1>5. PhaseInv'
    BY DEF Inv, PhaseInv
  <1>6. PlanInv'
    <2>1. \A f \in Files : reported[f] = 0
      BY DEF Inv, PhaseInv
    <2>2. \A f, g \in planned' : f < g => ~Collide(f, g)
      <3> SUFFICES ASSUME NEW f \in planned', NEW g \in planned', f < g
                   PROVE  ~Collide(f, g)
        OBVIOUS
      <3>1. CASE g \in Page
        BY <3>1 DEF Acceptable
      <3>2. CASE g \notin Page /\ f \in planned
        BY <3>2 DEF Inv, PlanInv
      <3>3. CASE g \notin Page /\ f \in Page /\ f \notin planned
        <4>1. g \in planned /\ g < cursor
          BY <3>3 DEF Inv, PlanInv
        <4>2. f >= cursor /\ f \in Files /\ g \in Files
          BY <1>1, <3>3, <4>1 DEF Rest, Inv, TypeOK
        <4> QED
          BY <4>1, <4>2 DEF Inv, TypeOK, Files
      <3> QED
        BY <3>1, <3>2, <3>3
    <2>3. \A f, g : Collide(f, g)' <=> Collide(f, g)
      BY DEF Collide, SamePath, OneBeneathTheOther, KeysAbove, Key
    <2> QED
      BY <1>1, <1>2, <2>1, <2>2, <2>3 DEF PlanInv, Inv, PhaseInv, TypeOK, Files, NoFile
  <1>7. CoverageInv'
    <2>1. \A f \in initial \cap Visible : f \in planned' \/ f >= cursor'
      BY <1>2 DEF Inv, CoverageInv, Rest
    <2>2. cursor' = End => initial \cap Visible \subseteq planned'
      BY <1>3 DEF Inv, CoverageInv, Rest
    <2> QED
      BY <2>1, <2>2 DEF Inv, CoverageInv, Visible, PhaseInv
  <1>8. DiskInv'
    <2>1. \A f \in Files : reported'[f] = 0
      BY DEF Inv, PhaseInv
    <2>2. \A p \in Path : disk'[p].of \notin Files /\ disk'[p].is # "fragment"
      BY DEF Inv, DiskInv, PhaseInv
    <2> QED
      BY <2>1, <2>2 DEF DiskInv
  <1> QED
    BY <1>4, <1>5, <1>6, <1>7, <1>8 DEF Inv

\* Taking up the next file and making its directories.
LEMMA PrepareInv == Inv /\ Prepare => Inv'
  <1> SUFFICES ASSUME Inv, Prepare PROVE Inv'
    OBVIOUS
  <1> DEFINE f == First(waiting)
  <1>1. /\ pc = "ready" /\ pc' = "prepared"
        /\ \A d \in Parents(f) : disk[d].is \in {"nothing", "directory"}
        /\ current' = f /\ waiting' = waiting \ {f}
        /\ disk' = [p \in Path |-> IF p \in Parents(f) /\ disk[p] = Nothing
                                   THEN Directory(f) ELSE disk[p]]
        /\ UNCHANGED <<runner, bucket, aborted, plan, body, reported, outcome, temp>>
    BY DEF Prepare
  <1>2. f \in waiting /\ f \in Files /\ f \in planned /\ f # NoFile
    <2>1. waiting \in SUBSET Files /\ waiting # {}
      BY DEF Prepare, Inv, TypeOK
    <2>2. f \in waiting
      BY <2>1, FirstIsLeast
    <2>3. f \in Files /\ f \in planned
      BY <2>1, <2>2 DEF Inv, PlanInv
    <2>4. NoFile \notin Files
      BY DEF Files, NoFile
    <2> HIDE DEF f
    <2> QED
      BY <2>2, <2>3, <2>4
  <1> HIDE DEF f
  <1> USE DEF runner, bucket, plan
  <1>3. TypeOK'
    BY <1>1, <1>2, ContentsTyped DEF Inv, TypeOK
  <1>4. PhaseInv'
    BY <1>1, <1>2 DEF Inv, PhaseInv
  <1>5. PlanInv'
    <2>1. \A g, h : Collide(g, h)' <=> Collide(g, h)
      BY <1>1 DEF Collide, SamePath, OneBeneathTheOther, KeysAbove, Key
    <2>2. current = NoFile
      BY <1>1 DEF Inv, PhaseInv
    <2>3. NoFile \notin Files
      BY DEF Files, NoFile
    <2> QED
      BY <1>1, <1>2, <2>1, <2>2, <2>3 DEF Inv, TypeOK, PlanInv
  <1>6. CoverageInv'
    BY <1>1 DEF Inv, PhaseInv, CoverageInv, Visible
  <1>7. DiskInv'
    <2>1. \A g \in Files : Spot(g)' = Spot(g) /\ Parents(g)' = Parents(g)
      BY <1>1 DEF Spot, Parents, Place
    <2>2. ASSUME NEW p \in Path
          PROVE  /\ disk'[p].is # "fragment"
                 /\ \A g \in Files : disk'[p].of = g =>
                      /\ g \in planned' \ waiting'
                      /\ disk'[p].is = "file" => p = Spot(g)
                      /\ disk'[p].is # "file" => p \in Parents(g)
      <3>1. CASE p \in Parents(f) /\ disk[p] = Nothing
        <4>1. disk'[p] = Directory(f)
          BY <1>1, <3>1
        <4> QED
          BY <1>1, <1>2, <2>1, <3>1, <4>1 DEF Directory
      <3>2. CASE ~(p \in Parents(f) /\ disk[p] = Nothing)
        <4>1. disk'[p] = disk[p]
          BY <1>1, <3>2
        <4> QED
          BY <1>1, <2>1, <4>1 DEF Inv, DiskInv, TypeOK
      <3> QED
        BY <3>1, <3>2
    <2>3. ASSUME keyed = folding, NEW g \in Files, reported[g] # 0
          PROVE  disk'[Spot(g)] = Written(g, reported[g])
      <3>1. disk[Spot(g)] = Written(g, reported[g]) /\ Spot(g) \in Path
        BY <2>3, PlacesArePaths DEF Inv, DiskInv
      <3>2. Written(g, reported[g]) # Nothing
        BY DEF Written, Nothing
      <3> QED
        BY <1>1, <3>1, <3>2
    <2>4. UNCHANGED <<keyed, folding, reported>>
      BY <1>1
    <2>5. \A p \in Path, g \in Files : disk'[p].of = g =>
            /\ g \in planned' \ waiting'
            /\ disk'[p].is = "file" => p = Spot(g)'
            /\ disk'[p].is # "file" => p \in Parents(g)'
      BY <2>1, <2>2
    <2>6. keyed' = folding' =>
            \A g \in Files : reported'[g] # 0 => disk'[Spot(g)'] = Written(g, reported'[g])
      BY <2>1, <2>3, <2>4
    <2>7. \A p \in Path : disk'[p].is # "fragment"
      BY <2>2
    <2> QED
      BY <2>5, <2>6, <2>7 DEF DiskInv, Written
  <1> QED
    BY <1>3, <1>4, <1>5, <1>6, <1>7 DEF Inv

\* Steps between taking a file up and putting it in place that leave the plan and the disk.
QuietStep ==
  Respond \/ Open \/ StreamEnds \/ StreamBreaks \/ RenameFails \/ UnlinkFails \/ Clean

LEMMA QuietInv == Inv /\ QuietStep => Inv'
  <1> SUFFICES ASSUME Inv, QuietStep PROVE Inv'
    OBVIOUS
  <1>1. /\ UNCHANGED <<runner, bucket, aborted, plan, waiting, current, reported, disk>>
        /\ pc \notin {"start", "listing", "ready", "done"}
        /\ pc' \notin {"start", "listing", "ready"}
        /\ outcome' # "returned"
    BY DEF QuietStep, Respond, Open, StreamEnds, StreamBreaks, RenameFails, UnlinkFails, Clean,
           Throw, Inv, PhaseInv
  <1> USE DEF runner, bucket, plan
  <1>2. TypeOK'
    <2>1. body' \in 0 .. MaxVersion
      BY DEF QuietStep, Respond, Open, StreamEnds, StreamBreaks, RenameFails, UnlinkFails, Clean,
             Inv, TypeOK, Visible
    <2>2. /\ temp' \in {"none", "partial", "whole", "stuck"}
          /\ outcome' \in {"running", "returned", "thrown", "killed"}
          /\ pc' \in {"responded", "writing", "renaming", "unlinking", "retrying", "cleaning",
                      "done"}
      BY DEF QuietStep, Respond, Open, StreamEnds, StreamBreaks, RenameFails, UnlinkFails, Clean,
             Throw, Inv, TypeOK
    <2> QED
      BY <1>1, <2>1, <2>2 DEF Inv, TypeOK
  <1>3. PhaseInv'
    <2>1. current \in Files /\ current' = current
      BY <1>1 DEF Inv, PhaseInv
    <2>2. CASE Respond
      BY <1>1, <2>1, <2>2 DEF Respond, Inv, TypeOK, PhaseInv, Visible
    <2>3. CASE Open \/ StreamEnds \/ StreamBreaks \/ RenameFails \/ UnlinkFails \/ Clean
      BY <1>1, <2>1, <2>3 DEF Open, StreamEnds, StreamBreaks, RenameFails, UnlinkFails, Clean,
             Throw, Inv, PhaseInv
    <2> QED
      BY <2>2, <2>3 DEF QuietStep
  <1>4. PlanInv'
    BY <1>1 DEF Inv, PlanInv, Collide, SamePath, OneBeneathTheOther, KeysAbove, Key
  <1>5. CoverageInv'
    BY <1>1 DEF Inv, CoverageInv, Visible
  <1>6. DiskInv'
    BY <1>1 DEF Inv, DiskInv, Spot, Parents, Place
  <1> QED
    BY <1>2, <1>3, <1>4, <1>5, <1>6 DEF Inv

\* Putting the file in place.
LEMMA RenameInv == Inv /\ Rename => Inv'
  <1> SUFFICES ASSUME Inv, Rename PROVE Inv'
    OBVIOUS
  <1> DEFINE f == current
             s == Spot(current)
  <1>1. /\ f \in Files /\ f \in planned /\ f \notin waiting /\ f # NoFile
        /\ reported[f] = 0 /\ body \in 0 .. MaxVersion /\ body # 0 /\ temp = "whole"
    BY DEF Rename, Inv, TypeOK, PhaseInv, PlanInv, Files, NoFile
  <1>2. s \in Path
    BY <1>1, PlacesArePaths DEF Inv
  <1>3. /\ pc \notin {"start", "listing", "ready", "done"} /\ pc' = "ready"
        /\ disk' = [disk EXCEPT ![s] = Written(f, body)]
        /\ reported' = [reported EXCEPT ![f] = body]
        /\ temp' = "none" /\ current' = NoFile /\ body' = 0
        /\ UNCHANGED <<runner, bucket, aborted, plan, waiting, outcome>>
    BY <1>1 DEF Rename
  <1>4. Spot(f) = s
    OBVIOUS
  <1>5. \A g \in Files : Spot(g)' = Spot(g) /\ Parents(g)' = Parents(g)
    BY <1>3 DEF Spot, Parents, Place, runner
  <1> HIDE DEF f, s
  <1> USE DEF runner, bucket, plan
  <1>6. TypeOK'
    BY <1>1, <1>2, <1>3, ContentsTyped DEF Inv, TypeOK
  <1>7. PhaseInv'
    BY <1>3 DEF Inv, PhaseInv
  <1>8. PlanInv'
    <2>1. \A g, h : Collide(g, h)' <=> Collide(g, h)
      BY <1>3 DEF Collide, SamePath, OneBeneathTheOther, KeysAbove, Key
    <2>2. \A g \in Files : reported'[g] = IF g = f THEN body ELSE reported[g]
      BY <1>3 DEF Inv, TypeOK
    <2>3. NoFile \notin Files /\ f = current
      BY DEF Files, NoFile, f
    <2> QED
      BY <1>1, <1>3, <2>1, <2>2, <2>3 DEF Inv, TypeOK, PlanInv
  <1>9. CoverageInv'
    BY <1>3 DEF Inv, PhaseInv, CoverageInv, Visible
  <1>10. DiskInv'
    <2>1. \A p \in Path : disk'[p] = IF p = s THEN Written(f, body) ELSE disk[p]
      BY <1>2, <1>3 DEF Inv, TypeOK
    <2>2. ASSUME NEW p \in Path
          PROVE  /\ disk'[p].is # "fragment"
                 /\ \A g \in Files : disk'[p].of = g =>
                      /\ g \in planned' \ waiting'
                      /\ disk'[p].is = "file" => p = Spot(g)
                      /\ disk'[p].is # "file" => p \in Parents(g)
      <3>1. CASE p = s
        BY <1>1, <1>3, <1>4, <1>5, <2>1, <3>1 DEF Written
      <3>2. CASE p # s
        BY <1>3, <1>5, <2>1, <3>2 DEF Inv, TypeOK, DiskInv
      <3> QED
        BY <3>1, <3>2
    <2>3. ASSUME keyed = folding, NEW g \in Files, reported'[g] # 0
          PROVE  disk'[Spot(g)] = Written(g, reported'[g])
      <3>1. CASE g = f
        BY <1>1, <1>2, <1>3, <1>4, <2>1, <3>1 DEF Inv, TypeOK
      <3>2. CASE g # f
        <4>1. reported'[g] = reported[g]
          BY <1>3, <3>2 DEF Inv, TypeOK
        <4>2. g \in planned
          BY <2>3, <4>1 DEF Inv, PlanInv
        <4>3. Spot(g) # s
          BY <1>1, <1>4, <2>3, <3>2, <4>2, Apart DEF Inv
        <4>4. Spot(g) \in Path
          BY PlacesArePaths DEF Inv
        <4> QED
          BY <2>1, <2>3, <4>1, <4>3, <4>4 DEF Inv, DiskInv
      <3> QED
        BY <3>1, <3>2
    <2> QED
      BY <1>3, <1>5, <2>2, <2>3 DEF DiskInv
  <1> QED
    BY <1>6, <1>7, <1>8, <1>9, <1>10 DEF Inv

\* Removing the leaf before the second rename.
LEMMA UnlinkInv == Inv /\ UnlinkLeaf => Inv'
  <1> SUFFICES ASSUME Inv, UnlinkLeaf PROVE Inv'
    OBVIOUS
  <1> DEFINE f == current
             s == Spot(current)
  <1>1. f \in Files /\ f \in planned /\ reported[f] = 0
    BY DEF UnlinkLeaf, Inv, TypeOK, PhaseInv, PlanInv, Files, NoFile
  <1>2. s \in Path
    BY <1>1, PlacesArePaths DEF Inv
  <1>3. /\ pc = "unlinking" /\ pc' = "retrying"
        /\ disk' = [disk EXCEPT ![s] = Nothing]
        /\ UNCHANGED <<runner, bucket, aborted, plan, waiting, current, body, reported, outcome,
                       temp>>
    BY DEF UnlinkLeaf
  <1>4. Spot(f) = s
    OBVIOUS
  <1>5. \A g \in Files : Spot(g)' = Spot(g) /\ Parents(g)' = Parents(g)
    BY <1>3 DEF Spot, Parents, Place, runner
  <1> HIDE DEF f, s
  <1> USE DEF runner, bucket, plan
  <1>6. TypeOK'
    BY <1>2, <1>3, ContentsTyped DEF Inv, TypeOK
  <1>7. PhaseInv'
    BY <1>3 DEF Inv, PhaseInv
  <1>8. PlanInv'
    BY <1>3 DEF Inv, PlanInv, Collide, SamePath, OneBeneathTheOther, KeysAbove, Key
  <1>9. CoverageInv'
    BY <1>3 DEF Inv, CoverageInv, Visible
  <1>10. DiskInv'
    <2>1. \A p \in Path : disk'[p] = IF p = s THEN Nothing ELSE disk[p]
      BY <1>2, <1>3 DEF Inv, TypeOK
    <2>2. ASSUME keyed = folding, NEW g \in Files, reported[g] # 0
          PROVE  disk'[Spot(g)] = Written(g, reported[g])
      <3>1. g # f /\ g \in planned
        BY <1>1, <2>2 DEF Inv, PlanInv
      <3>2. Spot(g) # s /\ Spot(g) \in Path
        BY <1>1, <1>4, <2>2, <3>1, Apart, PlacesArePaths DEF Inv
      <3> QED
        BY <2>1, <2>2, <3>2 DEF Inv, DiskInv
    <2>3. Nothing.of \notin Files /\ Nothing.is = "nothing"
      BY DEF Nothing, NoFile, Files
    <2>4. \A p \in Path :
            /\ disk'[p].is # "fragment"
            /\ disk'[p].of \in Files => disk'[p] = disk[p]
      BY <2>1, <2>3 DEF Inv, DiskInv
    <2> QED
      BY <1>3, <1>5, <2>2, <2>4 DEF Inv, DiskInv
  <1> QED
    BY <1>6, <1>7, <1>8, <1>9, <1>10 DEF Inv

\* The signal, and other clients.
EnvStep == Abort \/ \E f \in Volatile : OtherUploads(f) \/ OtherHides(f)

LEMMA EnvInv == Inv /\ EnvStep => Inv'
  <1> SUFFICES ASSUME Inv, EnvStep PROVE Inv'
    OBVIOUS
  <1>1. /\ UNCHANGED <<runner, initial, pc, plan, waiting, current, body, reported, outcome,
                       temp, disk>>
        /\ pc # "done"
    BY DEF EnvStep, Abort, OtherUploads, OtherHides, bucket
  <1> USE DEF runner, plan
  <1>2. /\ remote' \in [Files -> 0 .. Gone] /\ aborted' \in BOOLEAN
        /\ \A f \in Files : remote[f] # 0 => remote'[f] # 0
        /\ initial \cap Visible' \subseteq initial \cap Visible
    <2>1. CASE Abort
      BY <2>1 DEF Abort, Inv, TypeOK, Visible, bucket
    <2>2. ASSUME NEW f \in Volatile, OtherUploads(f) \/ OtherHides(f)
          PROVE  /\ remote' \in [Files -> 0 .. Gone] /\ aborted' \in BOOLEAN
                 /\ \A g \in Files : remote[g] # 0 => remote'[g] # 0
                 /\ initial \cap Visible' \subseteq initial \cap Visible
      <3>1. f \in Files /\ remote[f] \in 0 .. Gone /\ aborted' = aborted
        BY <2>2 DEF Inv, TypeOK, OtherUploads, OtherHides
      <3>2. \E v \in 1 .. Gone :
              /\ remote' = [remote EXCEPT ![f] = v]
              /\ v \in 1 .. MaxVersion => remote[f] < MaxVersion
        BY <2>2, <3>1 DEF OtherUploads, OtherHides, Gone
      <3>3. PICK v \in 1 .. Gone : /\ remote' = [remote EXCEPT ![f] = v]
                                   /\ v \in 1 .. MaxVersion => remote[f] < MaxVersion
        BY <3>2
      <3>4. \A g \in Files : remote'[g] = IF g = f THEN v ELSE remote[g]
        BY <3>1, <3>3 DEF Inv, TypeOK
      <3>5. remote' \in [Files -> 0 .. Gone]
        BY <3>1, <3>3 DEF Inv, TypeOK, Gone
      <3>6. f \in initial /\ v \in 1 .. MaxVersion => remote[f] \in 1 .. MaxVersion
        BY <3>1, <3>3 DEF Inv, CoverageInv, Gone
      <3> QED
        BY <3>1, <3>3, <3>4, <3>5, <3>6 DEF Inv, TypeOK, Visible
    <2> QED
      BY <2>1, <2>2 DEF EnvStep
  <1>3. TypeOK'
    BY <1>1, <1>2 DEF Inv, TypeOK
  <1>4. PhaseInv'
    BY <1>1 DEF Inv, PhaseInv
  <1>5. PlanInv'
    BY <1>1 DEF Inv, PlanInv, Collide, SamePath, OneBeneathTheOther, KeysAbove, Key
  <1>6. CoverageInv'
    BY <1>1, <1>2 DEF Inv, TypeOK, CoverageInv
  <1>7. DiskInv'
    BY <1>1 DEF Inv, DiskInv, Spot, Parents, Place
  <1> QED
    BY <1>3, <1>4, <1>5, <1>6, <1>7 DEF Inv

\* Every step of the command and its environment keeps the invariant.
LEMMA StepInv == Inv /\ [Next]_vars => Inv'
  <1> SUFFICES ASSUME Inv, [Next]_vars PROVE Inv'
    OBVIOUS
  <1>1. CASE StartSingle \/ StartPrefix
    BY <1>1, StartInv
  <1>2. CASE PlanningFails \/ Refuse \/ Cancelled \/ FetchFails \/ Return \/ Kill
    <2>1. EndStep
      BY <1>2 DEF EndStep, PlanningFails, Refuse, Cancelled, FetchFails, Return, Kill, Throw
    <2> QED
      BY <2>1, EndInv
  <1>3. CASE ListPage
    BY <1>3, ListPageInv
  <1>4. CASE Prepare
    BY <1>4, PrepareInv
  <1>5. CASE QuietStep
    BY <1>5, QuietInv
  <1>6. CASE Rename
    BY <1>6, RenameInv
  <1>7. CASE UnlinkLeaf
    BY <1>7, UnlinkInv
  <1>8. CASE EnvStep
    BY <1>8, EnvInv
  <1>9. CASE UNCHANGED vars
    BY <1>9 DEF vars, runner, bucket, plan, Inv, TypeOK, PhaseInv, PlanInv, CoverageInv, DiskInv,
       Collide, SamePath, OneBeneathTheOther, KeysAbove, Key, Visible, Spot, Parents, Place
  <1> QED
    BY <1>1, <1>2, <1>3, <1>4, <1>5, <1>6, <1>7, <1>8, <1>9
    DEF Next, Step, Planning, Fetching, Replacing, Finished, QuietStep, EnvStep

\* The invariant holds in every reachable state.
LEMMA Invariance == Spec => []Inv
  BY InitInv, StepInv, PTL DEF Spec

---------------------------------------------------------------------------
(* What follows from the invariant. *)

\* The state always has its type.
THEOREM TypeCorrect == Spec => []TypeOK
  BY Invariance, PTL DEF Inv

\* No part of a body is ever seen under a file's own name, and no temporary file is left over.
THEOREM PartialsStayHidden == Spec => []NoPartialFileLeft
  <1>1. Inv => NoPartialFileLeft
    BY DEF Inv, PhaseInv, DiskInv, NoPartialFileLeft
  <1> QED
    BY <1>1, Invariance, PTL

\* What is reported is what lies on the disk.
THEOREM TrueReport == Spec => []ReportIsTrue
  <1>1. Inv => ReportIsTrue
    BY DEF Inv, DiskInv, ReportIsTrue
  <1> QED
    BY <1>1, Invariance, PTL

\* The files of one run do not get in each other's way.
THEOREM NoSelfObstruction == Spec => []OwnFilesNeverInTheWay
  <1>1. Inv => OwnFilesNeverInTheWay
    <2> SUFFICES ASSUME Inv, keyed = folding, NEW f \in waiting
                 PROVE  /\ disk[Spot(f)].of = NoFile
                        /\ \A d \in Parents(f) : disk[d].is = "file" => disk[d].of = NoFile
      BY DEF OwnFilesNeverInTheWay
    <2>1. f \in Files /\ f \in planned
      BY DEF Inv, TypeOK, PlanInv
    <2>2. Spot(f) \in Path /\ Parents(f) \subseteq Path
      BY <2>1, PlacesArePaths DEF Inv
    <2>3. \A g \in planned \ waiting :
            Spot(f) # Spot(g) /\ Spot(f) \notin Parents(g) /\ Spot(g) \notin Parents(f)
      BY <2>1, Apart DEF Inv
    <2>4. \A p \in Path : disk[p].of \in Files \cup {NoFile}
      BY DEF Inv, TypeOK, Contents
    <2>5. ASSUME NEW p \in Path, disk[p].of \in Files, p = Spot(f) \/ p \in Parents(f)
          PROVE  disk[p].is # "file" /\ p # Spot(f)
      <3>1. PICK g \in Files : disk[p].of = g
        BY <2>5
      <3>2. /\ g \in planned \ waiting
            /\ disk[p].is = "file" => p = Spot(g)
            /\ disk[p].is # "file" => p \in Parents(g)
        BY <3>1 DEF Inv, DiskInv
      <3> QED
        BY <2>3, <2>5, <3>2
    <2> QED
      BY <2>2, <2>4, <2>5
  <1> QED
    BY <1>1, Invariance, PTL

\* A prefix download that returns reports every name that was visible all the time.
THEOREM CompleteSuccess == Spec => []SuccessIsComplete
  <1>1. Inv => SuccessIsComplete
    BY DEF Inv, TypeOK, PhaseInv, PlanInv, CoverageInv, SuccessIsComplete, Visible, Files, NoFile
  <1> QED
    BY <1>1, Invariance, PTL

\* On a platform whose rename overwrites, no step takes a local file away.
THEOREM PosixReplacement == Spec => PosixKeepsFiles
  <1>1. Inv /\ [Next]_vars =>
          (platform = "posix" => \A p \in Path : disk[p].is = "file" => disk'[p].is = "file")
    <2> SUFFICES ASSUME Inv, [Next]_vars, platform = "posix",
                        NEW p \in Path, disk[p].is = "file"
                 PROVE  disk'[p].is = "file"
      OBVIOUS
    <2>1. pc # "unlinking"
      BY DEF Inv, PhaseInv
    <2>2. CASE Prepare
      <3>1. disk[p] # Nothing
        BY DEF Nothing
      <3> QED
        BY <2>2, <3>1 DEF Prepare
    <2>3. CASE Rename
      <3>1. temp = "whole" /\ disk \in [Path -> Contents]
        BY <2>3 DEF Rename, Inv, PhaseInv, TypeOK
      <3> QED
        BY <2>3, <3>1 DEF Rename, Written
    <2>4. CASE disk' = disk
      BY <2>4
    <2> QED
      BY <2>1, <2>2, <2>3, <2>4
      DEF Next, Step, Planning, Fetching, Replacing, Finished, vars, StartSingle, StartPrefix,
          PlanningFails, ListPage, Refuse, Cancelled, FetchFails, Respond, Open, StreamEnds,
          StreamBreaks, RenameFails, UnlinkLeaf, UnlinkFails, Clean, Return, Abort, Kill,
          OtherUploads, OtherHides
  <1> QED
    BY <1>1, Invariance, PTL DEF Spec, PosixKeepsFiles

---------------------------------------------------------------------------
(* The work ahead of a run. *)

\* Names to list; then for each file that waits up to eight steps, and those left of the file
\* in hand.
Phases == [prepared |-> 8, responded |-> 7, writing |-> 6, renaming |-> 5, unlinking |-> 4,
           retrying |-> 3, cleaning |-> 2, ready |-> 1]
Work ==
  IF pc = "done" THEN 0
  ELSE IF pc = "start" THEN (End - cursor) + 8 * MaxFile + 3
  ELSE IF pc = "listing" THEN (End - cursor) + 8 * MaxFile + 2
  ELSE 8 * Cardinality(waiting) + Phases[pc]

WorkBounded  == Work \in 0 .. 9 * MaxFile + 3
WorkConsumed == [][Work' <= Work /\ (Step \/ Kill => Work' < Work)]_vars

\* No more files wait than there are names.
LEMMA FewFiles ==
  ASSUME NEW S \in SUBSET Files
  PROVE  IsFiniteSet(S) /\ Cardinality(S) \in 0 .. MaxFile
  <1>1. IsFiniteSet(Files) /\ Cardinality(Files) = MaxFile
    BY FS_Interval DEF Files
  <1>2. IsFiniteSet(S) /\ Cardinality(S) <= Cardinality(Files) /\ Cardinality(S) \in Nat
    BY <1>1, FS_Subset, FS_CardinalityType
  <1> QED
    BY <1>1, <1>2

\* A page that is not the last moves the cursor on.
LEMMA PageMoves ==
  ASSUME TypeOK, ListPage, cursor' # End
  PROVE  cursor < cursor'
  <1>1. Rest \in SUBSET Files /\ Page \subseteq Rest /\ \A f \in Rest : cursor <= f
    BY DEF Rest, Visible, Page
  <1>2. Rest \ Page # {} /\ cursor' = First(Rest \ Page)
    <2>1. Page # Rest /\ cursor' = First(Rest \ Page)
      BY DEF ListPage
    <2> QED
      BY <1>1, <2>1
  <1>3. First(Rest \ Page) \in Rest \ Page
    BY <1>1, <1>2, FirstIsLeast
  <1>4. First(Rest) \in Rest /\ \A g \in Rest : First(Rest) <= g
    BY <1>1, <1>2, FirstIsLeast
  <1>5. First(Rest) \in Page
    <2>1. {g \in Rest : g < First(Rest)} = {}
      <3>1. \A g \in Rest : g \in Int
        BY <1>1 DEF Files
      <3>2. First(Rest) \in Int
        BY <1>4, <3>1
      <3>3. \A g \in Rest : ~ (g < First(Rest))
        BY <1>4, <3>1, <3>2
      <3> QED
        BY <3>3
    <2>2. Cardinality({g \in Rest : g < First(Rest)}) = 0
      BY <2>1, FS_EmptySet
    <2> QED
      BY <1>4, <2>2 DEF Page
  <1>6. First(Rest) < First(Rest \ Page)
    BY <1>3, <1>5, PageComesFirst
  <1>7. First(Rest) \in Int /\ First(Rest \ Page) \in Int /\ cursor \in Int /\ cursor <= First(Rest)
    <2>1. \A g \in Rest : g \in Int
      BY <1>1 DEF Files
    <2>2. cursor \in Int
      BY DEF TypeOK, End
    <2> QED
      BY <1>1, <1>3, <1>4, <2>1, <2>2
  <1> QED
    BY <1>2, <1>6, <1>7

\* The work is a number.
LEMMA WorkIsNumber ==
  ASSUME TypeOK
  PROVE  Work \in Nat
  <1>1. /\ MaxFile \in Nat /\ End - cursor \in 0 .. MaxFile /\ Cardinality(waiting) \in 0 .. MaxFile
    BY FewFiles DEF TypeOK, End
  <1>2. CASE pc \in {"start", "listing", "done"}
    BY <1>1, <1>2 DEF Work
  <1>3. CASE pc \notin {"start", "listing", "done"}
    <2>1. Phases[pc] \in 1 .. 8
      BY <1>3 DEF TypeOK, Phases
    <2>2. Work = 8 * Cardinality(waiting) + Phases[pc]
      BY <1>3 DEF Work
    <2> QED
      BY <1>1, <2>1, <2>2
  <1> QED
    BY <1>2, <1>3

\* What waits when planning is over is less than what planning reckoned with.
LEMMA ReadyIsLess ==
  ASSUME TypeOK', pc' = "ready", NEW c \in 1 .. End
  PROVE  Work' < (End - c) + 8 * MaxFile + 2
  <1>1. MaxFile \in Nat /\ End = MaxFile + 1 /\ waiting' \in SUBSET Files
    BY DEF TypeOK, End
  <1>2. Cardinality(waiting') \in 0 .. MaxFile
    BY <1>1, FewFiles
  <1>3. Work' = 8 * Cardinality(waiting') + 1
    BY DEF Work, Phases
  <1>4. 8 * Cardinality(waiting') <= 8 * MaxFile
    BY <1>1, <1>2
  <1> QED
    BY <1>1, <1>2, <1>3, <1>4

\* The further on the cursor is, the less is left.
LEMMA LessIsLeft ==
  ASSUME NEW a \in Int, NEW b \in Int, NEW c \in Int, NEW d \in Int, a < b
  PROVE  (c - b) + 8 * d + 2 < (c - a) + 8 * d + 2
  OBVIOUS

\* Every step of the command takes from the work; nobody adds to it.
LEMMA StepWork ==
  ASSUME TypeOK, TypeOK', Work \in Nat, Work' \in Nat, [Next]_vars
  PROVE  Work' <= Work /\ (Step \/ Kill => Work' < Work)
  <1> DEFINE Spent == Work' < Work
  <1>1. /\ MaxFile \in Nat /\ End = MaxFile + 1 /\ cursor \in 1 .. End /\ cursor' \in 1 .. End
        /\ waiting \in SUBSET Files /\ waiting' \in SUBSET Files
    BY DEF TypeOK, End
  <1>2. /\ Cardinality(waiting) \in 0 .. MaxFile /\ Cardinality(waiting') \in 0 .. MaxFile
        /\ IsFiniteSet(waiting)
    BY <1>1, FewFiles
  <1>3. /\ pc = "start" => Work = (End - cursor) + 8 * MaxFile + 3
        /\ pc = "listing" => Work = (End - cursor) + 8 * MaxFile + 2
        /\ pc \notin {"start", "listing", "done"} => Work = 8 * Cardinality(waiting) + Phases[pc]
    BY DEF Work
  <1>4. /\ pc' = "listing" => Work' = (End - cursor') + 8 * MaxFile + 2
        /\ pc' \notin {"start", "listing", "done"} =>
             Work' = 8 * Cardinality(waiting') + Phases[pc']
        /\ pc' = "done" => Work' = 0
    BY DEF Work, End, Phases
  <1>5. /\ pc \notin {"start", "listing", "done"} => Phases[pc] \in 1 .. 8
        /\ pc' \notin {"start", "listing", "done"} => Phases[pc'] \in 1 .. 8
    BY DEF TypeOK, Phases
  <1>6. ASSUME StartSingle \/ StartPrefix PROVE Spent
    <2>1. pc = "start" /\ pc' \in {"ready", "listing"} /\ (pc' = "listing" => cursor' = cursor)
      BY <1>6 DEF StartSingle, StartPrefix
    <2>2. pc' = "listing" => Work' = (End - cursor) + 8 * MaxFile + 2
      BY <1>4, <2>1
    <2>3. Work = (End - cursor) + 8 * MaxFile + 3
      BY <1>3, <2>1
    <2>4. CASE pc' = "ready"
      BY <1>1, <2>3, <2>4, ReadyIsLess
    <2>5. CASE pc' = "listing"
      BY <1>1, <2>2, <2>3, <2>5
    <2> QED
      BY <2>1, <2>4, <2>5
  <1>7. ASSUME ListPage PROVE Spent
    <2>1. pc = "listing" /\ pc' = IF cursor' = End THEN "ready" ELSE "listing"
      BY <1>7 DEF ListPage
    <2>2. cursor' # End => cursor < cursor'
      BY <1>7, PageMoves
    <2>3. Work = (End - cursor) + 8 * MaxFile + 2
      BY <1>3, <2>1
    <2>4. CASE cursor' = End
      BY <1>1, <2>1, <2>3, <2>4, ReadyIsLess
    <2>5. CASE cursor' # End
      <3>1. Work' = (End - cursor') + 8 * MaxFile + 2
        BY <1>4, <2>1, <2>5
      <3>2. MaxFile \in Int /\ End \in Int /\ cursor \in Int /\ cursor' \in Int /\ cursor < cursor'
        BY <1>1, <2>2, <2>5
      <3> QED
        BY <2>3, <3>1, <3>2, LessIsLeft
    <2> QED
      BY <2>4, <2>5
  <1>8. ASSUME Prepare PROVE Spent
    <2>1. pc = "ready" /\ pc' = "prepared" /\ waiting # {} /\ waiting' = waiting \ {First(waiting)}
      BY <1>8 DEF Prepare
    <2>2. First(waiting) \in waiting
      BY <1>1, <2>1, FirstIsLeast
    <2>3. Cardinality(waiting') = Cardinality(waiting) - 1
      BY <1>2, <2>1, <2>2, FS_RemoveElement
    <2>4. Phases["ready"] = 1 /\ Phases["prepared"] = 8
      BY DEF Phases
    <2> QED
      BY <1>2, <1>3, <1>4, <2>1, <2>3, <2>4
  <1>9. ASSUME \/ Respond \/ Open \/ StreamEnds \/ StreamBreaks
               \/ Rename \/ RenameFails \/ UnlinkLeaf \/ UnlinkFails
        PROVE  Spent
    <2>1. /\ waiting' = waiting /\ Phases[pc'] < Phases[pc]
          /\ pc \notin {"start", "listing", "done"} /\ pc' \notin {"start", "listing", "done"}
      BY <1>9 DEF Respond, Open, StreamEnds, StreamBreaks, Rename, RenameFails, UnlinkLeaf,
                  UnlinkFails, Phases
    <2> QED
      BY <1>2, <1>3, <1>4, <1>5, <2>1
  <1>10. ASSUME PlanningFails \/ Refuse \/ Cancelled \/ FetchFails \/ Clean \/ Return \/ Kill
         PROVE  Spent
    <2>1. pc # "done" /\ pc' = "done"
      BY <1>10 DEF PlanningFails, Refuse, Cancelled, FetchFails, Clean, Return, Kill, Throw
    <2>2. Work' = 0
      BY <1>4, <2>1
    <2>3. 0 < Work
      BY <1>1, <1>2, <1>3, <1>5, <2>1
    <2> QED
      BY <2>2, <2>3
  <1>11. Step \/ Kill => Spent
    BY <1>6, <1>7, <1>8, <1>9, <1>10 DEF Step, Planning, Fetching, Replacing
  <1>12. CASE Step \/ Kill
    BY <1>11, <1>12
  <1>13. CASE Abort \/ (\E f \in Volatile : OtherUploads(f) \/ OtherHides(f)) \/ UNCHANGED vars
    <2>1. UNCHANGED <<pc, cursor, waiting>>
      BY <1>13 DEF Abort, OtherUploads, OtherHides, vars, plan
    <2>2. Work' = Work
      BY <2>1 DEF Work, End, Phases
    <2> QED
      BY <1>11, <2>2
  <1> QED
    BY <1>12, <1>13 DEF Next, Finished

\* No download takes more than 9 * MaxFile + 3 steps, wherever pages end, renames fail and
\* others upload and hide meanwhile: each takes from the work there is at first.
THEOREM FiniteWork == Spec => []WorkBounded /\ WorkConsumed
  <1> DEFINE IsNumber == Work \in Nat
             Consumed == Work' <= Work /\ (Step \/ Kill => Work' < Work)
  <1>1. TypeOK => IsNumber
    BY WorkIsNumber
  <1>2. TypeOK /\ TypeOK' /\ IsNumber /\ IsNumber' /\ [Next]_vars => Consumed
    BY StepWork
  <1>3. Init => WorkBounded
    BY DEF Init, WorkBounded, Work, End
  <1>4. ASSUME IsNumber', Consumed, WorkBounded PROVE WorkBounded'
    BY <1>4 DEF WorkBounded
  <1> HIDE DEF IsNumber, Consumed
  <1>5. Spec => []IsNumber
    BY <1>1, TypeCorrect, PTL
  <1>6. Spec => [][Consumed]_vars
    BY <1>2, <1>5, TypeCorrect, PTL DEF Spec
  <1>7. UNCHANGED vars /\ WorkBounded => WorkBounded'
    BY DEF vars, plan, WorkBounded, Work, End, Phases
  <1>8. Spec => []WorkBounded
    BY <1>3, <1>4, <1>5, <1>6, <1>7, PTL DEF Spec
  <1> QED
    BY <1>6, <1>8 DEF Consumed, WorkConsumed
=============================================================================

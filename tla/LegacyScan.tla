---------------------------- MODULE LegacyScan ----------------------------
(***************************************************************************)
(* The console program for old systems (src/legacy/main.cpp): it chooses   *)
(* its roots, scans them one after the other under one limit of folders,   *)
(* sorts the files it found and prints them with two counters.             *)
(*                                                                         *)
(* A path is a pair of a spelling and a place on the disk: the roots may   *)
(* name one folder in several ways (a short name, a redirected folder),    *)
(* and every path below a root keeps the spelling of that root.            *)
(* equals_ignore_case holds of two paths when the pairs are equal.         *)
(***************************************************************************)
EXTENDS FiniteSets, Functions, Naturals, Sequences

CONSTANTS Folder, File,    \* places on the disk
          Contents,        \* Contents[d]: what a listing of d yields
          Junction,        \* folders with FILE_ATTRIBUTE_REPARSE_POINT
          Container,       \* files that has_container_extension accepts
          Length,          \* Length[p]: characters of the path p of a folder
          Depth,           \* Depth[d]: folders above d; a junction has that of
                           \* the folder it leads to, whose listing it gives
          Offers,          \* the sequences of folders default_roots or
                           \* --scan-root may offer: records of dir and spelling
          Rank,            \* the order of names, for std::sort
          MaxPath,         \* MAX_PATH
          MaxDirectories   \* max_directories: 100000 in the code

ASSUME DiskAssumption ==
    /\ Folder \cap File = {} /\ Junction \subseteq Folder /\ Container \subseteq File
    /\ Contents \in [Folder -> SUBSET (Folder \cup File)]
    /\ MaxPath \in Nat /\ MaxDirectories \in Nat \ {0}

\* The folders in d that are no junctions.
Sub(d) == (Contents[d] \cap Folder) \ Junction

\* The disk is a tree but for the junctions: no folder lies in two others, and
\* none below itself.
ASSUME TreeAssumption ==
    /\ Depth \in [Folder -> Nat]
    /\ \A d \in Folder : \A c \in Sub(d) : Depth[c] = Depth[d] + 1
    /\ \A d, e \in Folder \ Junction : d # e => Sub(d) \cap Sub(e) = {}

Spelling == UNION {{r.spelling : r \in Range(o)} : o \in Offers}

\* The roots are folders, a path is as long as the spelling of its root makes
\* it, and different names have different ranks.
ASSUME NamesAssumption ==
    /\ Offers \subseteq Seq([dir : Folder, spelling : Spelling])
    /\ Length \in [Spelling \X Folder -> Nat]
    /\ Rank \in Injection(Spelling \cup File, Nat)

VARIABLES legacyPc,
          offer,           \* the folders still to be offered as roots
          roots,           \* the roots, and those left to scan
          left,
          pending,         \* scan_root: the queue of folders
          spelling,        \* of the root being scanned
          listing,         \* the entries of a folder not yet examined
          candidates, visited, inaccessible,
          cut,             \* history: a listing broke off
          dropped,         \* history: a folder was not queued for its length
          entered          \* history: the folders counted, each with the
                           \* number of roots that were left

rootVars  == <<offer, roots>>
scanVars  == <<left, pending, spelling, listing>>
countVars == <<candidates, visited, inaccessible>>
legacyHistory == <<cut, dropped, entered>>
legacyVars == <<legacyPc, rootVars, scanVars, countVars, legacyHistory>>

LegacyInit ==
    /\ legacyPc = "roots"
    /\ offer \in Offers
    /\ roots = <<>> /\ left = <<>>
    /\ pending = <<>> /\ spelling = "" /\ listing = {}
    /\ candidates = <<>> /\ visited = 0 /\ inaccessible = 0
    /\ cut = FALSE /\ dropped = FALSE /\ entered = {}

-----------------------------------------------------------------------------
(* The roots. *)

\* append_unique_directory, when the folder is there and not yet a root.
TakeRoot ==
    /\ legacyPc = "roots" /\ offer # <<>>
    /\ Head(offer) \notin Range(roots)
    /\ roots' = Append(roots, Head(offer))
    /\ offer' = Tail(offer)
    /\ UNCHANGED <<legacyPc, scanVars, countVars, legacyHistory>>

\* Windows does not know the folder, it is not there, or it is a root already.
PassRoot ==
    /\ legacyPc = "roots" /\ offer # <<>>
    /\ offer' = Tail(offer)
    /\ UNCHANGED <<legacyPc, roots, scanVars, countVars, legacyHistory>>

\* Without a root main returns 1.
BeginScans ==
    /\ legacyPc = "roots" /\ offer = <<>>
    /\ legacyPc' = IF roots = <<>> THEN "done" ELSE "next"
    /\ left' = roots
    /\ UNCHANGED <<rootVars, pending, spelling, listing, countVars, legacyHistory>>

-----------------------------------------------------------------------------
(* scan_root *)

EnterRoot ==
    /\ legacyPc = "next" /\ left # <<>>
    /\ legacyPc' = "head"
    /\ spelling' = Head(left).spelling /\ left' = Tail(left)
    /\ pending' = <<Head(left).dir>>
    /\ UNCHANGED <<rootVars, listing, countVars, legacyHistory>>

\* Mutant of RootIsGone: a root that is gone is not counted.
RootIsGoneUncounted ==
    /\ legacyPc = "next" /\ left # <<>>
    /\ left' = Tail(left)
    /\ UNCHANGED <<legacyPc, rootVars, pending, spelling, listing, countVars, legacyHistory>>

\* The root was there when it was chosen and is not any more.
RootIsGone ==
    /\ legacyPc = "next" /\ left # <<>>
    /\ left' = Tail(left)
    /\ inaccessible' = inaccessible + 1
    /\ UNCHANGED <<legacyPc, rootVars, pending, spelling, listing, candidates, visited, legacyHistory>>

\* Mutant of MayVisit: one folder more than the limit.
MayVisitOneMore == legacyPc = "head" /\ pending # <<>> /\ visited <= MaxDirectories

\* The condition of the loop.
MayVisit == legacyPc = "head" /\ pending # <<>> /\ visited < MaxDirectories

PathOf(e) == <<spelling, e>>

\* A path to which FindFirstFileA cannot be applied.
TooLong(d) == Length[PathOf(d)] + 3 >= MaxPath

OpenFolder ==
    /\ MayVisit
    /\ ~TooLong(Head(pending))
    /\ legacyPc' = "list"
    /\ visited' = visited + 1
    /\ listing' = Contents[Head(pending)]
    /\ pending' = Tail(pending)
    /\ entered' = entered \cup {<<Len(left), Head(pending)>>}
    /\ UNCHANGED <<rootVars, left, spelling, candidates, inaccessible, cut, dropped>>

\* The path is too long, or FindFirstFileA fails, as it may for any folder.
OpenFails ==
    /\ MayVisit
    /\ visited' = visited + 1
    /\ inaccessible' = inaccessible + 1
    /\ pending' = Tail(pending)
    /\ entered' = entered \cup {<<Len(left), Head(pending)>>}
    /\ UNCHANGED <<legacyPc, rootVars, left, spelling, listing, candidates, cut, dropped>>

\* Mutant of GoesInto: junctions are followed.
GoesIntoJunctions(e) == e \in Folder /\ Length[PathOf(e)] < MaxPath

\* The entries that are put in the queue.
GoesInto(e) == e \in Folder \ Junction /\ Length[PathOf(e)] < MaxPath

\* A folder with a path of MAX_PATH and more: no counter tells.
IsDropped(e) == e \in Folder \ Junction /\ ~GoesInto(e)

\* Mutant of IsNew: contains_path is not asked.
IsNewAlways(e) == e \in Container

\* The entries that are added to the candidates.
IsNew(e) == e \in Container /\ PathOf(e) \notin Range(candidates)

\* One turn of the inner loop; the order is that of the file system.
ExamineEntry ==
    /\ legacyPc = "list"
    /\ \E e \in listing :
          /\ listing' = listing \ {e}
          /\ pending' = IF GoesInto(e) THEN Append(pending, e) ELSE pending
          /\ dropped' = (dropped \/ IsDropped(e))
          /\ candidates' = IF IsNew(e) THEN Append(candidates, PathOf(e)) ELSE candidates
    /\ UNCHANGED <<legacyPc, rootVars, left, spelling, visited, inaccessible, cut, entered>>

EndListing ==
    /\ legacyPc = "list" /\ listing = {}
    /\ legacyPc' = "head"
    /\ UNCHANGED <<rootVars, scanVars, countVars, legacyHistory>>

\* FindNextFileA fails before the end, which ends the loop like the end does.
ListingBreaksOff ==
    /\ legacyPc = "list" /\ listing # {}
    /\ legacyPc' = "head" /\ listing' = {}
    /\ cut' = TRUE
    /\ UNCHANGED <<rootVars, left, pending, spelling, countVars, dropped, entered>>

\* Mutant of LeaveRoot: the limit does not end the loop, only the work in it.
LeaveRootWhenEmpty ==
    /\ legacyPc = "head" /\ pending = <<>>
    /\ legacyPc' = "next" /\ pending' = <<>>
    /\ UNCHANGED <<rootVars, left, spelling, listing, countVars, legacyHistory>>

\* The queue is empty or the limit is reached, which no counter tells.
LeaveRoot ==
    /\ legacyPc = "head"
    /\ pending = <<>> \/ visited >= MaxDirectories
    /\ legacyPc' = "next" /\ pending' = <<>>
    /\ UNCHANGED <<rootVars, left, spelling, listing, countVars, legacyHistory>>

-----------------------------------------------------------------------------
\* The order of two paths.
Before(p, q) ==
    \/ Rank[p[1]] < Rank[q[1]]
    \/ p[1] = q[1] /\ Rank[p[2]] < Rank[q[2]]

\* std::sort: the place of a path is the number of those up to it.
Sorted(s) ==
    LET UpTo(i)  == {j \in DOMAIN s : Before(s[j], s[i]) \/ (s[j] = s[i] /\ j <= i)}
        place    == [i \in DOMAIN s |-> Cardinality(UpTo(i))]
    IN [k \in DOMAIN s |-> s[CHOOSE i \in DOMAIN s : place[i] = k]]

\* The end of main: what was found is sorted and printed.
PrintResult ==
    /\ legacyPc = "next" /\ left = <<>>
    /\ legacyPc' = "done"
    /\ candidates' = Sorted(candidates)
    /\ UNCHANGED <<rootVars, scanVars, visited, inaccessible, legacyHistory>>

LegacyNext ==
    \/ TakeRoot \/ PassRoot \/ BeginScans
    \/ EnterRoot \/ RootIsGone \/ LeaveRoot
    \/ OpenFolder \/ OpenFails
    \/ ExamineEntry \/ EndListing \/ ListingBreaksOff
    \/ PrintResult

\* The program takes its next step: nothing else runs in it.
LegacySpec == LegacyInit /\ [][LegacyNext]_legacyVars /\ WF_legacyVars(LegacyNext)

-----------------------------------------------------------------------------
(* Properties. *)

\* The folders below d, those of skip and what is only below them left out
\* (docs/15_MODO_LEGADO_XP.md:18-19).
ClosedUnder(D, d, skip) == d \in D /\ \A e \in D : Sub(e) \ skip \subseteq D

\* The folders whose path is MAX_PATH and more when it begins with s.
Long(s) == {d \in Folder : Length[<<s, d>>] >= MaxPath}
Skips   == {{}} \cup {Long(s) : s \in Spelling}

Reached == [d \in Folder |-> [skip \in Skips |->
               {e \in Folder : \A D \in SUBSET Folder : ClosedUnder(D, d, skip) => e \in D}]]
Found   == [d \in Folder |-> [skip \in Skips |->
               Container \cap UNION {Contents[e] : e \in Reached[d][skip]}]]

\* The paths of the containers below root r.
Due(r, skip) == {r.spelling} \X Found[r.dir][skip]

AllDue == UNION {Due(r, {}) : r \in Range(roots)}

\* What the length of a path has cost the scans, once it has cost anything.
Skipped(r) == IF dropped THEN Long(r.spelling) ELSE {}

\* The variables keep their types and the folders their limit over all roots
\* (docs/15_MODO_LEGADO_XP.md:19).
LegacyTypeOK ==
    /\ legacyPc \in {"roots", "next", "head", "list", "done"}
    /\ Range(roots) \cup Range(left) \cup Range(offer) \subseteq UNION {Range(o) : o \in Offers}
    /\ Range(pending) \subseteq Folder /\ listing \subseteq Folder \cup File
    /\ Range(candidates) \subseteq {r.spelling : r \in Range(roots)} \X Container
    /\ visited \in 0..MaxDirectories /\ inaccessible \in Nat
    /\ cut \in BOOLEAN /\ dropped \in BOOLEAN

\* The roots overlap, yet no path is a candidate twice, and none is one that
\* does not lie below a root.
SoundResult ==
    /\ IsInjective(candidates)
    /\ Range(candidates) \subseteq AllDue

\* When both counters tell the user that nothing was missed, the program has
\* printed every container below its roots, in an order that depends neither on
\* the file system nor on the order of the scan, but for two gaps that no
\* counter tells: a listing that broke off (src/legacy/main.cpp:122), and the
\* folders whose path is MAX_PATH and more (src/legacy/main.cpp:116), which
\* cost what is below them and nothing else.
CompleteResult ==
    legacyPc = "done" /\ roots # <<>> /\ inaccessible = 0 /\ visited < MaxDirectories /\ ~cut
        => /\ \A r \in Range(roots) : Due(r, Skipped(r)) \subseteq Range(candidates)
           /\ ~dropped => Range(candidates) = AllDue
           /\ \A i, j \in DOMAIN candidates : i < j => Before(candidates[i], candidates[j])

\* No folder is visited twice under one root: the folders counted are all
\* different, although a junction leads back up.
NoFolderTwice == visited = Cardinality(entered)

\* The program ends, also when the limit stops a scan.
Ends == <>(legacyPc = "done")

=============================================================================

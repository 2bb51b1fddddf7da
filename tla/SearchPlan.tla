---------------------------- MODULE SearchPlan ----------------------------
(***************************************************************************)
(* build_default_search_plan (src/search_plan.cpp, src/known_folders.cpp): *)
(* the roots of a search and their order, from what Windows answers about  *)
(* the known folders, the folders next to the profile and the drives.      *)
(*                                                                         *)
(* One call to Windows is one step; drives come and go between two.  The   *)
(* three arguments of compose_search_plan are evaluated in any order, as   *)
(* C++ leaves it to the compiler.                                          *)
(***************************************************************************)
EXTENDS FiniteSets, Functions, Naturals, Sequences

CONSTANTS Letters,         \* the drive letters, in their order
          Kind,            \* Kind[d]: what GetDriveTypeW says while d is there
          CurrentProfile,  \* the path of the current profile
          Beside,          \* the paths of the entries of the folder it lies in
          Profile          \* those that are folders and no junctions

Drive == Range(Letters)

ASSUME PlanAssumption ==
    /\ Letters \in Seq(Drive) /\ IsInjective(Letters)
    /\ Kind \in [Drive -> {"fixed", "removable", "remote", "cdrom"}]
    /\ Profile \subseteq Beside

VARIABLES planPc,
          arguments,       \* those of compose_search_plan still to be evaluated
          folders,         \* the known folders resolved so far
          entries,         \* sibling_profiles: entries not yet looked at
          others,          \* profiles, its result
          required,        \* characters: the room GetLogicalDriveStringsW asked for
          cursor,          \* the drives of the buffer whose kind is not yet asked
          drives,          \* the result of windows_drives
          plan,
          present,         \* the drives of the computer
          stayed,          \* history: those present since the call
          missed,          \* history: entries that could not be looked at
          lost             \* history: why there is no list of drives

folderVars == <<arguments, folders, entries, others>>
driveVars  == <<required, cursor, drives>>
diskVars   == <<present, stayed>>
planHistory == <<missed, lost>>
planVars == <<planPc, folderVars, driveVars, plan, diskVars, planHistory>>

KnownFolders == <<"downloads", "desktop", "documents">>

PlanInit ==
    /\ planPc = "profile"
    /\ arguments = {"folders", "siblings", "drives"}
    /\ folders = <<>> /\ entries = {} /\ others = <<>>
    /\ required = 0 /\ cursor = <<>> /\ drives = <<>>
    /\ plan = <<>>
    /\ present \in SUBSET Drive
    /\ stayed = present
    /\ missed = {} /\ lost = "not"

\* The elements of s at the places P, in the order of the places.
Nth(P, k)    == CHOOSE i \in P : Cardinality(P \cap 1..i) = k
Picked(s, P) == [k \in 1..Cardinality(P) |-> s[Nth(P, k)]]

Ascending(S) == Picked(Letters, {i \in DOMAIN Letters : Letters[i] \in S})

-----------------------------------------------------------------------------
(* The computer. *)

DriveComes ==
    /\ \E d \in Drive \ present : present' = present \cup {d}
    /\ UNCHANGED <<planPc, folderVars, driveVars, plan, stayed, planHistory>>

DriveGoes ==
    /\ \E d \in present : present' = present \ {d} /\ stayed' = stayed \ {d}
    /\ UNCHANGED <<planPc, folderVars, driveVars, plan, planHistory>>

-----------------------------------------------------------------------------
(* The known folders. *)

\* current_profile_path
FindProfile ==
    /\ planPc = "profile"
    /\ planPc' = "arguments"
    /\ UNCHANGED <<folderVars, driveVars, plan, diskVars, planHistory>>

\* A known folder is unavailable, or the listing of the profiles breaks off:
\* the exception leaves the caller without a plan.
Throw ==
    /\ planPc \in {"profile", "folders", "siblings"}
    /\ planPc' = "thrown"
    /\ UNCHANGED <<folderVars, driveVars, plan, diskVars, planHistory>>

\* The next argument, whichever the compiler chose.
BeginArgument ==
    /\ planPc = "arguments"
    /\ \E a \in arguments : planPc' = a /\ arguments' = arguments \ {a}
    /\ UNCHANGED <<folders, entries, others, driveVars, plan, diskVars, planHistory>>

\* resolve_folder, once for each of the three.
ResolveFolder ==
    /\ planPc = "folders"
    /\ folders' = Append(folders, KnownFolders[Len(folders) + 1])
    /\ planPc' = IF Len(folders') = Len(KnownFolders) THEN "arguments" ELSE planPc
    /\ UNCHANGED <<arguments, entries, others, driveVars, plan, diskVars, planHistory>>

-----------------------------------------------------------------------------
(* sibling_profiles *)

OpenProfiles ==
    /\ planPc = "siblings"
    /\ planPc' = "entries"
    /\ entries' = Beside
    /\ UNCHANGED <<arguments, folders, others, driveVars, plan, diskVars, planHistory>>

\* The folder of the profiles cannot be opened: there are no others.
OpenProfilesFails ==
    /\ planPc = "siblings"
    /\ planPc' = "arguments"
    /\ missed' = Profile
    /\ UNCHANGED <<folderVars, driveVars, plan, diskVars, lost>>

\* Mutant of LookAtEntry: the first entry that is passed over ends the loop.
LookAtEntryOrStop ==
    /\ planPc = "entries"
    /\ \E e \in entries :
          \/ /\ e \in Profile \ {CurrentProfile}
             /\ others' = Append(others, e)
             /\ entries' = entries \ {e}
             /\ UNCHANGED missed
          \/ /\ missed' = missed \cup {e}
             /\ entries' = {}
             /\ UNCHANGED others
    /\ UNCHANGED <<planPc, arguments, folders, driveVars, plan, diskVars, lost>>

\* Mutant of IsOther: the entry of the current profile is not told apart.
IsOtherOrCurrent(e) == e \in Profile

\* A folder, no junction, and not the current profile itself, whose entry is
\* there like those of the others.
IsOther(e) == e \in Profile /\ e # CurrentProfile

\* An entry is kept if it is another profile; one whose kind or attributes
\* cannot be read is passed over.
LookAtEntry ==
    /\ planPc = "entries"
    /\ \E e \in entries :
          /\ entries' = entries \ {e}
          /\ \/ IsOther(e) /\ others' = Append(others, e) /\ UNCHANGED missed
             \/ ~IsOther(e) /\ UNCHANGED <<others, missed>>
             \/ missed' = missed \cup {e} /\ UNCHANGED others
    /\ UNCHANGED <<planPc, arguments, folders, driveVars, plan, diskVars, lost>>

\* The increment of the iterator, which throws where the opening did not.
NextEntryThrows ==
    /\ planPc = "entries"
    /\ planPc' = "thrown"
    /\ UNCHANGED <<folderVars, driveVars, plan, diskVars, planHistory>>

EndProfiles ==
    /\ planPc = "entries" /\ entries = {}
    /\ planPc' = "arguments"
    /\ UNCHANGED <<folderVars, driveVars, plan, diskVars, planHistory>>

-----------------------------------------------------------------------------
(* windows_drives *)

\* The first GetLogicalDriveStringsW: the room that the names of now need.
SizeDrives ==
    /\ planPc = "drives"
    /\ planPc' = "fill"
    /\ required' = Cardinality(present)
    /\ UNCHANGED <<folderVars, cursor, drives, plan, diskVars, planHistory>>

\* Either call answers 0: there are no drives.
DrivesRefused ==
    /\ planPc \in {"drives", "fill"}
    /\ planPc' = "arguments"
    /\ lost' = "refused"
    /\ UNCHANGED <<folderVars, driveVars, plan, diskVars, missed>>

\* Mutant of FillDrives: the names of now are taken for the room of before.
FillDrivesUnsized ==
    /\ planPc = "fill"
    /\ planPc' = "kinds"
    /\ cursor' = Ascending(present)
    /\ UNCHANGED <<folderVars, required, drives, plan, diskVars, planHistory>>

\* The second one fills the buffer if the names of now fit.  If they do not it
\* answers how much room they need, which is not 0, and leaves the buffer as it
\* is: full of zeros, which reads as an empty list.
FillDrives ==
    /\ planPc = "fill"
    /\ planPc' = "kinds"
    /\ IF Cardinality(present) <= required
       THEN cursor' = Ascending(present) /\ UNCHANGED lost
       ELSE lost' = "outgrown" /\ UNCHANGED cursor
    /\ UNCHANGED <<folderVars, required, drives, plan, diskVars, missed>>

\* Mutant of AskKind: a drive that is gone ends the list.
AskKindOrStop ==
    /\ planPc = "kinds" /\ cursor # <<>>
    /\ IF Head(cursor) \in present
       THEN /\ cursor' = Tail(cursor)
            /\ drives' = Append(drives, [root |-> Head(cursor), type |-> Kind[Head(cursor)]])
       ELSE cursor' = <<>> /\ UNCHANGED drives
    /\ UNCHANGED <<planPc, folderVars, required, plan, diskVars, planHistory>>

\* GetDriveTypeW for the next name.
AskKind ==
    /\ planPc = "kinds" /\ cursor # <<>>
    /\ cursor' = Tail(cursor)
    /\ drives' = Append(drives, [root |-> Head(cursor),
                                 type |-> IF Head(cursor) \in present THEN Kind[Head(cursor)]
                                                                      ELSE "no_root_dir"])
    /\ UNCHANGED <<planPc, folderVars, required, plan, diskVars, planHistory>>

EndDrives ==
    /\ planPc = "kinds" /\ cursor = <<>>
    /\ planPc' = "arguments"
    /\ UNCHANGED <<folderVars, driveVars, plan, diskVars, planHistory>>

-----------------------------------------------------------------------------
Phases == <<"priority", "current_profile", "other_profiles", "fixed_drives", "removable_drives">>

InPhase(paths, phase) == [i \in DOMAIN paths |-> [path |-> paths[i], phase |-> phase]]

OfType(type) ==
    LET those == Picked(drives, {i \in DOMAIN drives : drives[i].type = type})
    IN [i \in DOMAIN those |-> those[i].root]

\* Mutant of Composed: one pass over the drives, in the order of their letters.
ComposedInOnePass ==
    InPhase(folders, "priority") \o InPhase(<<CurrentProfile>>, "current_profile")
        \o InPhase(others, "other_profiles")
        \o [i \in DOMAIN drives |-> [path |-> drives[i].root, phase |->
               IF drives[i].type = "fixed" THEN "fixed_drives" ELSE "removable_drives"]]

\* compose_search_plan: remote and optical drives are left out.
Composed ==
    InPhase(folders, "priority") \o InPhase(<<CurrentProfile>>, "current_profile")
        \o InPhase(others, "other_profiles")
        \o InPhase(OfType("fixed"), "fixed_drives")
        \o InPhase(OfType("removable"), "removable_drives")

Compose ==
    /\ planPc = "arguments" /\ arguments = {}
    /\ planPc' = "done"
    /\ plan' = Composed
    /\ UNCHANGED <<folderVars, driveVars, diskVars, planHistory>>

Build ==
    \/ FindProfile \/ Throw \/ BeginArgument \/ ResolveFolder
    \/ OpenProfiles \/ OpenProfilesFails \/ LookAtEntry \/ NextEntryThrows \/ EndProfiles
    \/ SizeDrives \/ DrivesRefused \/ FillDrives \/ AskKind \/ EndDrives
    \/ Compose

PlanNext == Build \/ DriveComes \/ DriveGoes

PlanSpec == PlanInit /\ [][PlanNext]_planVars

-----------------------------------------------------------------------------
(* Properties. *)

Planned(phase) == {plan[i].path : i \in {j \in DOMAIN plan : plan[j].phase = phase}}

\* The locals keep their types, and no list of drives is longer than its buffer.
PlanTypeOK ==
    /\ planPc \in {"profile", "arguments", "folders", "siblings", "entries",
                   "drives", "fill", "kinds", "done", "thrown"}
    /\ arguments \subseteq {"folders", "siblings", "drives"}
    /\ folders \in {SubSeq(KnownFolders, 1, n) : n \in 0..Len(KnownFolders)}
    /\ entries \subseteq Beside /\ Range(others) \subseteq Beside
    /\ required \in 0..Cardinality(Drive)
    /\ Len(cursor) + Len(drives) <= required
    /\ Range(cursor) \subseteq Drive /\ {d.root : d \in Range(drives)} \subseteq Drive

\* The plan lists its roots phase by phase, in the order of SearchPhase: no
\* removable drive before a fixed one, whatever the order of the letters.  No
\* phase has a root twice, and the current profile, whose entry is among those
\* of the other profiles, is not planned again with them
\* (src/search_plan.cpp:30).  A known folder that was moved to another root is
\* planned in both phases, and search_files tells the folders apart.
PhaseOrder ==
    /\ \A i, j \in DOMAIN plan : i <= j =>
          \E p, q \in DOMAIN Phases : p <= q /\ plan[i].phase = Phases[p] /\ plan[j].phase = Phases[q]
    /\ IsInjective(plan)
    /\ CurrentProfile \notin Planned("other_profiles")

\* One entry that cannot be read, or that is no profile, costs that entry
\* only: every other profile is in the plan, under any order of evaluation.
ProfilesPlanned ==
    planPc = "done" => Planned("other_profiles") = Profile \ (missed \cup {CurrentProfile})

\* A drive that comes, goes or changes place in the list while the kinds are
\* asked one by one costs no other drive its place: every fixed or removable
\* drive that was there all the time is planned, once there is a list.
DrivesPlanned ==
    planPc = "done" /\ lost = "not" =>
        \A d \in stayed :
            /\ Kind[d] = "fixed" => d \in Planned("fixed_drives")
            /\ Kind[d] = "removable" => d \in Planned("removable_drives")

\* Every fixed drive that was there all the time is searched, if Windows lists
\* the drives at all (docs/06_BUSCA_DE_CERTIFICADOS.md:36).
FixedDrivesPlanned ==
    planPc = "done" /\ lost # "refused" =>
        {d \in stayed : Kind[d] = "fixed"} \subseteq Planned("fixed_drives")

=============================================================================

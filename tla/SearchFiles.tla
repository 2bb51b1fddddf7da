---------------------------- MODULE SearchFiles ----------------------------
(***************************************************************************)
(* certradar::search_files (src/search.cpp:109-189): a breadth-first scan  *)
(* of the folders under the roots, which a user may pause, resume and      *)
(* cancel through the SearchControl it is given.                           *)
(*                                                                         *)
(* wait_if_paused is the gate of PauseGate, which SearchControl            *)
(* implements, with its wait: a scan that finds the gate closed blocks, and *)
(* no step of the gate promises that it is ever woken.  One step of the scan is the code between two points where  *)
(* the user's requests matter: a gate, a test of is_cancelled, a progress  *)
(* callback, a use of the file system.                                     *)
(***************************************************************************)
EXTENDS FolderTree

CONSTANTS Rank,            \* Rank[p]: the place of p in the order of path strings
          Validate,        \* SearchOptions::validate_containers
          Absent           \* no folder

\* std::sort compares path strings, and different paths are different strings.
ASSUME RankAssumption ==
    /\ Rank \in [Path -> Nat]
    /\ \A p, q \in Path : Rank[p] = Rank[q] => p = q

VARIABLES pc,              \* where search_files is
          pending,         \* the queue of folders
          current,         \* root: the folder being examined
          remaining,       \* entries: those of current not yet examined
          visitedDirectories, visitedFiles,
          opened,          \* the folders opened; directories_visited is its length
          candidates, accessDeniedCount, errors, status,   \* result
          paused, cancelled,   \* the SearchControl
          blocked,             \* the scan waits in its condition_
          late             \* history: work begun while the user wanted none

resultVars  == <<opened, candidates, accessDeniedCount, errors, status>>
controlVars == <<paused, cancelled, blocked>>
scanVars    == <<pc, pending, current, remaining, visitedDirectories, visitedFiles>>
vars        == <<scanVars, resultVars, controlVars, late>>

Pcs == {"head",        \* at the gate of the outer loop
        "headCheck",   \* through it
        "open",        \* about to open current
        "opened",      \* after the progress callback
        "list",        \* about to list current
        "entry",       \* at the gate of the inner loop
        "entryCheck",  \* through it
        "examine",     \* about to examine the next entry
        "done"}

States == {"extension_match", "recognized", "invalid", "too_large", "inaccessible"}

\* What inspect_pkcs12_container may answer about a file.
Inspections == IF Validate THEN States \ {"extension_match"} ELSE {"extension_match"}

Init ==
    /\ pc = "head"
    /\ pending = Roots
    /\ current = Absent
    /\ remaining = {}
    /\ visitedDirectories = {} /\ visitedFiles = {}
    /\ opened = <<>> /\ candidates = <<>>
    /\ accessDeniedCount = 0 /\ errors = 0
    /\ status = "running"
    /\ paused = FALSE /\ cancelled = FALSE /\ blocked = FALSE
    /\ late = 0

GateOpen == ~paused \/ cancelled

\* One unit of work begins: a folder is opened or an entry is examined.
Work == late' = IF paused \/ cancelled THEN late + 1 ELSE late

\* An error that the result counts, by its kind.
CountError ==
    \/ errors' = errors + 1 /\ UNCHANGED accessDeniedCount
    \/ accessDeniedCount' = accessDeniedCount + 1 /\ UNCHANGED errors

-----------------------------------------------------------------------------
(* The user, through SearchControl. *)

RequestPause ==
    /\ paused' = TRUE
    /\ UNCHANGED <<scanVars, resultVars, cancelled, blocked, late>>

Resume ==
    /\ paused' = FALSE
    /\ late' = IF cancelled THEN late ELSE 0
    /\ UNCHANGED <<scanVars, resultVars, cancelled, blocked>>

Cancel ==
    /\ cancelled' = TRUE
    /\ UNCHANGED <<scanVars, resultVars, paused, blocked, late>>

-----------------------------------------------------------------------------
(* The outer loop: one folder of the queue per turn. *)

\* The queue is empty: the loop ends without asking the control again.
Finish ==
    /\ pc = "head" /\ pending = <<>>
    /\ pc' = "done" /\ status' = "completed"
    /\ UNCHANGED <<pending, current, remaining, visitedDirectories, visitedFiles,
                   opened, candidates, accessDeniedCount, errors, controlVars, late>>

\* The scan is at the gate of one of its loops, with work to do beyond it.
AtGate ==
    \/ pc = "head" /\ pending # <<>>
    \/ pc = "entry" /\ remaining # {}

\* wait_if_paused returns, in either loop.
LeaveGate ==
    /\ AtGate
    /\ pc' = IF pc = "head" THEN "headCheck" ELSE "entryCheck"
    /\ UNCHANGED <<pending, current, remaining, visitedDirectories, visitedFiles,
                   resultVars, paused, cancelled, late>>

\* The first look at the predicate finds the gate open: no wait.
PassGate ==
    /\ ~blocked /\ GateOpen
    /\ LeaveGate
    /\ UNCHANGED blocked

\* It finds the gate closed: the scan is to sleep until it is notified.
Block ==
    /\ ~blocked /\ ~GateOpen
    /\ AtGate
    /\ blocked' = TRUE
    /\ UNCHANGED <<scanVars, resultVars, paused, cancelled, late>>

\* A notification, or no reason at all, wakes the scan, and the predicate holds
\* now.  A notification may also come just before the scan sleeps, and then
\* nothing need ever wake it (SearchControl).
WakeUp ==
    /\ blocked /\ GateOpen
    /\ LeaveGate
    /\ blocked' = FALSE

\* is_cancelled() after a gate or after a progress callback: the result so far
\* is returned as cancelled.
StopWhenCancelled ==
    /\ pc \in {"headCheck", "opened", "entryCheck"}
    /\ cancelled
    /\ pc' = "done" /\ status' = "cancelled"
    /\ UNCHANGED <<pending, current, remaining, visitedDirectories, visitedFiles,
                   opened, candidates, accessDeniedCount, errors, controlVars, late>>

\* Mutant of TakeFolder: the test for a visited folder comes before the pop.
TakeFolderTestFirst ==
    /\ pc = "headCheck" /\ ~cancelled
    /\ LET root == Head(pending)
       IN IF Identity[root] \in visitedDirectories
          THEN pc' = "head" /\ UNCHANGED <<pending, current, visitedDirectories>>
          ELSE /\ pc' = "open"
               /\ pending' = Tail(pending)
               /\ current' = root
               /\ visitedDirectories' = visitedDirectories \cup {Identity[root]}
    /\ UNCHANGED <<remaining, visitedFiles, resultVars, controlVars, late>>

\* The folder at the head of the queue is taken, and dropped when its identity
\* was visited under this or another path.
TakeFolder ==
    /\ pc = "headCheck" /\ ~cancelled
    /\ pending' = Tail(pending)
    /\ LET root == Head(pending)
       IN IF Identity[root] \in visitedDirectories
          THEN pc' = "head" /\ UNCHANGED <<current, visitedDirectories>>
          ELSE /\ pc' = "open"
               /\ current' = root
               /\ visitedDirectories' = visitedDirectories \cup {Identity[root]}
    /\ UNCHANGED <<remaining, visitedFiles, resultVars, controlVars, late>>

\* directory_iterator opens the folder.  With skip_permission_denied a folder
\* the user may not list opens without an error, as one with no entries.
OpenFolder ==
    /\ pc = "open"
    /\ pc' = "opened"
    /\ opened' = Append(opened, current)
    /\ Work
    /\ UNCHANGED <<pending, current, remaining, visitedDirectories, visitedFiles,
                   candidates, accessDeniedCount, errors, status, controlVars>>

\* The constructor fails: the folder is gone, or its volume does not answer.
OpenFails ==
    /\ pc = "open" /\ current \in Failing \cup Flaky
    /\ pc' = "head"
    /\ CountError
    /\ Work
    /\ UNCHANGED <<pending, current, remaining, visitedDirectories, visitedFiles,
                   opened, candidates, status, controlVars>>

\* No cancellation seen after the progress callback: go on to the listing.
BeginListing ==
    /\ pc = "opened" /\ ~cancelled
    /\ pc' = "list"
    /\ UNCHANGED <<pending, current, remaining, visitedDirectories, visitedFiles,
                   resultVars, controlVars, late>>

\* Every entry is read before any is examined.
ListFolder ==
    /\ pc = "list"
    /\ pc' = "entry"
    /\ remaining' = IF current \in Denied THEN {} ELSE Contents[current]
    /\ UNCHANGED <<pending, current, visitedDirectories, visitedFiles,
                   resultVars, controlVars, late>>

\* Mutant of ListingBreaksOff: the error is cleared before it is counted.
ListingBreaksOffUncounted ==
    /\ pc = "list" /\ current \in (Failing \cup Flaky) \ Denied
    /\ pc' = "entry"
    /\ \E read \in SUBSET Contents[current] : read # {} /\ remaining' = read
    /\ UNCHANGED <<pending, current, visitedDirectories, visitedFiles,
                   resultVars, controlVars, late>>

\* increment fails after some entry: the entries read so far are kept.
ListingBreaksOff ==
    /\ pc = "list" /\ current \in (Failing \cup Flaky) \ Denied
    /\ pc' = "entry"
    /\ \E read \in SUBSET Contents[current] : read # {} /\ remaining' = read
    /\ CountError
    /\ UNCHANGED <<pending, current, visitedDirectories, visitedFiles,
                   opened, candidates, status, controlVars, late>>

-----------------------------------------------------------------------------
(* The inner loop: one entry of the sorted listing per turn. *)

EndFolder ==
    /\ pc = "entry" /\ remaining = {}
    /\ pc' = "head"
    /\ UNCHANGED <<pending, current, remaining, visitedDirectories, visitedFiles,
                   resultVars, controlVars, late>>

\* Mutant of BeginEntry: the inner loop does not ask is_cancelled.
BeginEntryUnchecked ==
    /\ pc = "entryCheck"
    /\ pc' = "examine"
    /\ UNCHANGED <<pending, current, remaining, visitedDirectories, visitedFiles,
                   resultVars, controlVars, late>>

BeginEntry ==
    /\ pc = "entryCheck" /\ ~cancelled
    /\ pc' = "examine"
    /\ UNCHANGED <<pending, current, remaining, visitedDirectories, visitedFiles,
                   resultVars, controlVars, late>>

\* Mutant of IsNext: the entries come in the order the listing gives them.
IsNextUnsorted(p) == p \in remaining

\* p is the entry that the sort puts next.
IsNext(p) == p \in remaining /\ \A q \in remaining : Rank[p] <= Rank[q]

\* Mutant of EnqueueFolder: whatever is no reparse point joins the queue.
EnqueueAnything(p) ==
    /\ p \in Contents[current] \ Reparse
    /\ pending' = Append(pending, p)
    /\ UNCHANGED <<visitedFiles, candidates>>

\* A folder that is not a reparse point joins the end of the queue.
EnqueueFolder(p) ==
    /\ p \in Subfolders(current)
    /\ pending' = Append(pending, p)
    /\ UNCHANGED <<visitedFiles, candidates>>

\* A file with an A1 extension and a new identity becomes a candidate.
AddCandidate(p) ==
    /\ p \in Matches(current)
    /\ Identity[p] \notin visitedFiles
    /\ visitedFiles' = visitedFiles \cup {Identity[p]}
    /\ \E state \in Inspections :
          candidates' = Append(candidates, [path |-> p, state |-> state])
    /\ UNCHANGED pending

\* Everything else is passed over in silence: a reparse point, a file of
\* another kind, one already seen, and whatever is gone by now.
PassOver(p) ==
    /\ \/ p \notin Subfolders(current) \cup Matches(current)
       \/ p \in Matches(current) /\ Identity[p] \in visitedFiles
       \/ p \in Flaky
    /\ UNCHANGED <<pending, visitedFiles, candidates>>

ExamineEntry ==
    /\ pc = "examine"
    /\ pc' = "entry"
    /\ \E p \in remaining :
          /\ IsNext(p)
          /\ remaining' = remaining \ {p}
          /\ EnqueueFolder(p) \/ AddCandidate(p) \/ PassOver(p)
    /\ Work
    /\ UNCHANGED <<current, visitedDirectories, opened, accessDeniedCount,
                   errors, status, controlVars>>

-----------------------------------------------------------------------------
ScanStep ==
    \/ Finish \/ PassGate \/ StopWhenCancelled
    \/ TakeFolder \/ OpenFolder \/ OpenFails
    \/ BeginListing \/ ListFolder \/ ListingBreaksOff
    \/ EndFolder \/ BeginEntry \/ ExamineEntry

\* The control outlives the call; nothing looks at it once the call returned.
UserStep == pc # "done" /\ (RequestPause \/ Resume \/ Cancel)

Returned == pc = "done" /\ UNCHANGED vars

Next == ScanStep \/ Block \/ WakeUp \/ UserStep \/ Returned

Spec == Init /\ [][Next]_vars

\* The scanning thread keeps running until it sleeps.  The user need not do
\* anything, and nothing is assumed of the wake-up: resume and cancel notify
\* without mutex_, so the scan may sleep on with the gate open.
FairSpec == Spec /\ WF_vars(ScanStep \/ Block)

-----------------------------------------------------------------------------
(* Properties. *)

Candidate == [path : File, state : States]

ScanTypeOK ==
    /\ pc \in Pcs
    /\ pending \in Seq(Dir)
    /\ pc = "headCheck" => pending # <<>>
    /\ current \in Dir \cup {Absent}
    /\ pc \in {"open", "opened", "list", "entry", "entryCheck", "examine"} => current \in Dir
    /\ remaining \subseteq Path
    /\ visitedDirectories \subseteq {Identity[d] : d \in Dir}
    /\ visitedFiles \subseteq {Identity[f] : f \in File}

ResultTypeOK ==
    /\ opened \in Seq(Dir)
    /\ candidates \in Seq(Candidate)
    /\ accessDeniedCount \in Nat /\ errors \in Nat
    /\ status \in {"running", "completed", "cancelled"}
    /\ status = "running" <=> pc # "done"

\* The variables of search_files, of its result and of the control it is given
\* keep the types of their declarations (include/certradar/search.hpp:17-56).
TypeOK ==
    /\ ScanTypeOK
    /\ ResultTypeOK
    /\ paused \in BOOLEAN /\ cancelled \in BOOLEAN /\ blocked \in BOOLEAN
    /\ late \in Nat

\* The abstract search: what was reported, whether the result counts a gap.
ReportedPaths == [i \in DOMAIN candidates |-> candidates[i].path]
Counted == accessDeniedCount + errors > 0

\* A folder that may not be listed and what was gone may be missed in silence.
Findable == Targets({})
Due      == Targets(Denied \cup Flaky)

Search == INSTANCE TreeSearch WITH report <- ReportedPaths, gaps <- Counted

\* The scan reports only files under the roots that no reparse point leads to,
\* each file once however many paths and roots lead to it, through any pauses;
\* and it completes without a counted gap only when it missed nothing but
\* folders that Windows refuses to list and entries that were gone when it
\* came to them (src/search.cpp:109-189).
ImplementsTreeSearch == Search!SearchSpec

\* After a pause or a cancellation at most one more folder is opened or entry
\* examined: whatever the moment at which the user asks, a gate or a check
\* stands before the next one.
StopsPromptly == late <= 1

\* What the code does with its one queue: the roots are opened in plan order,
\* and every root is taken before any folder found on the way.  So Downloads
\* comes before any other folder (docs/05_ESTRATEGIA_DE_TESTES.md:72), but the
\* rest of the profile comes after the drives, which is not the order of
\* docs/06_BUSCA_DE_CERTIFICADOS.md:16-40 (PhasesInTurn in MCSearchFiles).
IsRoot(d) == d \in RootSet
RootPlace(d) == CHOOSE i \in DOMAIN Roots :
                    Roots[i] = d /\ \A j \in 1..(i - 1) : Roots[j] # d
PlanOrder ==
    \A i, j \in DOMAIN opened :
        i < j /\ IsRoot(opened[j]) =>
            IsRoot(opened[i]) /\ RootPlace(opened[i]) < RootPlace(opened[j])

\* y comes after x: found in a folder opened later, or later in the same one.
Follows(y, x) ==
    \E k, l \in DOMAIN opened :
        /\ x \in Contents[opened[k]] /\ y \in Contents[opened[l]]
        /\ k < l \/ (k = l /\ Rank[x] < Rank[y])

\* The order of the result is fixed by the roots and by the names, whatever
\* pauses, fails or vanishes meanwhile (docs/02_ESCOPO_E_REQUISITOS.md:105 asks
\* for deterministic results): candidates follow each other as the folders do
\* in which they lie, and by name in one folder; so do the folders found on the
\* way, each of which lies in one opened before it.
Deterministic ==
    /\ \A i, j \in DOMAIN candidates :
          i < j => Follows(candidates[j].path, candidates[i].path)
    /\ \A i, j \in DOMAIN opened :
          i < j /\ ~IsRoot(opened[i]) /\ ~IsRoot(opened[j]) => Follows(opened[j], opened[i])
    /\ \A j \in DOMAIN opened :
          IsRoot(opened[j]) \/ \E i \in 1..(j - 1) : opened[j] \in Contents[opened[i]]

\* The scan does not run for good, cycles and repeated roots notwithstanding:
\* it returns, or it sleeps at a gate and is not woken any more.  And a
\* cancellation that finds it awake ends it, whatever the user does afterwards
\* (src/search.cpp:120-188); one that finds it asleep, or about to sleep, need
\* not, for its notification may be lost.
Ends ==
    /\ <>(pc = "done") \/ <>[]blocked
    /\ (cancelled /\ ~blocked) ~> (pc = "done")

\* The search as it would be if a folder that cannot be listed were a gap.
StrictlyDue  == Targets(Flaky)
StrictSearch == INSTANCE TreeSearch WITH
                    report <- ReportedPaths, gaps <- Counted, Due <- StrictlyDue

\* A folder that could not be read is counted: docs/06_BUSCA_DE_CERTIFICADOS.md:36
\* says access denied is counted and the search goes on.  Not so for a folder
\* that directory_options::skip_permission_denied turns into an empty one: the
\* search completes with access_denied_count at 0 and the files missing.
DeniedIsCounted == StrictSearch!SearchSpec

=============================================================================

------------------------- MODULE SearchFilesProofs -------------------------
(* Proofs about SearchFiles, for every file system and every plan. *)
EXTENDS SearchFiles, FiniteSetTheorems, SequenceTheorems, TLAPS

-----------------------------------------------------------------------------
(* Types. *)

\* What is next in the queue is a folder.
LEMMA QueueTypes ==
    ASSUME NEW q \in Seq(Dir), q # <<>>
    PROVE  Head(q) \in Dir /\ Tail(q) \in Seq(Dir)
OBVIOUS

\* The kinds of the children of a folder.
LEMMA ChildTypes ==
    ASSUME NEW d \in Dir
    PROVE  /\ Subfolders(d) \subseteq Dir
           /\ Matches(d) \subseteq File
           /\ Contents[d] \subseteq Path
BY TreeAssumption DEF Subfolders, Matches

\* One more candidate keeps the type of the list.
LEMMA AddCandidateType ==
    ASSUME TypeOK, current \in Dir, NEW p, AddCandidate(p)
    PROVE  candidates' \in Seq(Candidate)
<1>1. PICK state \in Inspections : candidates' = Append(candidates, [path |-> p, state |-> state])
  BY DEF AddCandidate
<1>2. state \in States
  BY DEF Inspections, States
<1>3. [path |-> p, state |-> state] \in Candidate
  BY <1>2, ChildTypes DEF AddCandidate, Candidate
<1> QED
  BY <1>1, <1>3 DEF TypeOK, ResultTypeOK

LEMMA TypeInit == Init => TypeOK
<1> SUFFICES ASSUME Init PROVE TypeOK
  OBVIOUS
<1>1. ScanTypeOK
  BY TreeAssumption DEF Init, ScanTypeOK, Pcs
<1>2. ResultTypeOK
  BY DEF Init, ResultTypeOK
<1> QED
  BY <1>1, <1>2 DEF Init, TypeOK

\* A step of the user keeps the types, and so does falling asleep.
LEMMA TypeUser ==
    ASSUME TypeOK, UserStep \/ Block
    PROVE  TypeOK'
<1> USE DEF UserStep, RequestPause, Resume, Cancel, Block, scanVars, resultVars, TypeOK
<1>1. ScanTypeOK'
  BY DEF ScanTypeOK
<1>2. ResultTypeOK'
  BY DEF ResultTypeOK, scanVars
<1>3. paused' \in BOOLEAN /\ cancelled' \in BOOLEAN /\ blocked' \in BOOLEAN
  BY Zenon
<1>4. late' \in Nat
  OBVIOUS
<1> QED
  BY <1>1, <1>2, <1>3, <1>4, Zenon

\* A step of the scan keeps the types.
LEMMA TypeScan ==
    ASSUME TypeOK, ScanStep \/ WakeUp
    PROVE  TypeOK'
<1> USE DEF TypeOK, ScanTypeOK, ResultTypeOK, Pcs, resultVars, controlVars
<1>1. CASE Finish
  BY <1>1 DEF Finish
<1>2. CASE PassGate \/ WakeUp
  BY <1>2 DEF PassGate, WakeUp, LeaveGate, AtGate
<1>3. CASE StopWhenCancelled
  BY <1>3 DEF StopWhenCancelled
<1>4. CASE TakeFolder
  BY <1>4, QueueTypes DEF TakeFolder
<1>5. CASE OpenFolder
  BY <1>5 DEF OpenFolder, Work
<1>6. CASE OpenFails
  BY <1>6 DEF OpenFails, CountError, Work
<1>7. CASE BeginListing
  BY <1>7 DEF BeginListing
<1>8. CASE ListFolder
  BY <1>8, ChildTypes DEF ListFolder
<1>9. CASE ListingBreaksOff
  BY <1>9, ChildTypes DEF ListingBreaksOff, CountError
<1>10. CASE EndFolder
  BY <1>10 DEF EndFolder
<1>11. CASE BeginEntry
  BY <1>11 DEF BeginEntry
<1>12. CASE ExamineEntry
  <2> USE <1>12 DEF ExamineEntry
  <2>1. PICK p \in remaining : /\ remaining' = remaining \ {p}
                               /\ EnqueueFolder(p) \/ AddCandidate(p) \/ PassOver(p)
    OBVIOUS
  <2>2. pending' \in Seq(Dir)
    <3>1. p \in Subfolders(current) => p \in Dir
      BY ChildTypes
    <3> QED
      BY <2>1, <3>1 DEF EnqueueFolder, AddCandidate, PassOver
  <2>3. visitedFiles' \subseteq {Identity[f] : f \in File}
    BY <2>1, ChildTypes DEF EnqueueFolder, AddCandidate, PassOver
  <2>4. candidates' \in Seq(Candidate)
    BY <2>1, AddCandidateType DEF EnqueueFolder, PassOver
  <2>5. late' \in Nat
    BY DEF Work
  <2> QED
    BY <2>1, <2>2, <2>3, <2>4, <2>5
<1> QED
  BY <1>1, <1>2, <1>3, <1>4, <1>5, <1>6, <1>7, <1>8, <1>9, <1>10, <1>11, <1>12
  DEF ScanStep

\* The variables of search_files and of its result keep their types on every
\* file system, whatever fails and whatever the user asks.
THEOREM TypeCorrect == Spec => []TypeOK
<1>1. TypeOK /\ [Next]_vars => TypeOK'
  <2> SUFFICES ASSUME TypeOK, [Next]_vars
               PROVE  TypeOK'
    OBVIOUS
  <2>1. CASE UNCHANGED vars
    <3>1. ScanTypeOK'
      BY <2>1 DEF TypeOK, ScanTypeOK, vars, scanVars
    <3>2. ResultTypeOK'
      BY <2>1 DEF TypeOK, ResultTypeOK, vars, scanVars, resultVars
    <3> QED
      BY <2>1, <3>1, <3>2 DEF TypeOK, vars, controlVars
  <2> QED
    BY <2>1, TypeUser, TypeScan DEF Next, Returned
<1> QED
  BY <1>1, TypeInit, PTL DEF Spec

-----------------------------------------------------------------------------
(* Promptness.  StopsPromptly is not inductive: it needs that work which is  *)
(* about to begin was let through with no late work before it, and that late *)
(* work is behind a gate that only a cancellation opens.                     *)

Behind ==
    /\ late > 0 => paused \/ cancelled
    /\ late > 0 /\ pc \in {"headCheck", "entryCheck"} => cancelled
    /\ pc \in {"open", "examine"} => late = 0

Prompt == StopsPromptly /\ Behind

\* One step keeps late work behind a gate.
LEMMA PromptStep ==
    ASSUME TypeOK, Prompt, [Next]_vars
    PROVE  Prompt'
<1> USE DEF TypeOK, ScanTypeOK, Prompt, StopsPromptly, Behind, resultVars, controlVars, scanVars
<1>1. CASE Finish \/ StopWhenCancelled
  BY <1>1 DEF Finish, StopWhenCancelled
<1>2. CASE PassGate \/ WakeUp
  BY <1>2 DEF PassGate, WakeUp, LeaveGate, AtGate, GateOpen
<1>3. CASE TakeFolder
  BY <1>3 DEF TakeFolder
<1>4. CASE OpenFolder \/ OpenFails \/ ExamineEntry
  BY <1>4 DEF OpenFolder, OpenFails, ExamineEntry, Work
<1>5. CASE BeginListing \/ ListFolder \/ ListingBreaksOff \/ EndFolder
  BY <1>5 DEF BeginListing, ListFolder, ListingBreaksOff, EndFolder
<1>6. CASE BeginEntry
  BY <1>6 DEF BeginEntry
<1>7. CASE UserStep \/ Block
  BY <1>7 DEF UserStep, RequestPause, Resume, Cancel, Block
<1>8. CASE UNCHANGED vars
  BY <1>8 DEF vars
<1> QED
  BY <1>1, <1>2, <1>3, <1>4, <1>5, <1>6, <1>7, <1>8 DEF Next, ScanStep, Returned

\* However long the scan, at most one more folder is opened or entry examined
\* after the user pauses or cancels it (the gates and checks of
\* src/search.cpp:121-125, :140-143 and :161-165).
THEOREM Promptness == Spec => []StopsPromptly
<1>1. Init => Prompt
  BY DEF Init, Prompt, StopsPromptly, Behind
<1>2. TypeOK /\ Prompt /\ [Next]_vars => Prompt'
  BY PromptStep
<1>3. Prompt => StopsPromptly
  BY DEF Prompt
<1> QED
  BY <1>1, <1>2, <1>3, TypeCorrect, PTL DEF Spec

-----------------------------------------------------------------------------
(* Plan order.  PlanOrder needs that the roots not yet taken stand at the    *)
(* head of the queue, in their order, and that those taken are visited, so   *)
(* that no path found on the way is taken for a root again.                  *)

\* k roots have been taken.
TakenRoots(k) ==
    /\ \A i \in 1..(Len(Roots) - k) : i <= Len(pending) /\ pending[i] = Roots[k + i]
    /\ \A i \in 1..k : Identity[Roots[i]] \in visitedDirectories
    /\ \A i \in DOMAIN opened : IsRoot(opened[i]) => RootPlace(opened[i]) \in 1..k
    /\ k < Len(Roots) => \A i \in DOMAIN opened : IsRoot(opened[i])
    /\ pc = "open" =>
          /\ k < Len(Roots) => IsRoot(current)
          /\ IsRoot(current) =>
                /\ RootPlace(current) \in 1..k
                /\ \A i \in DOMAIN opened :
                      IsRoot(opened[i]) /\ RootPlace(opened[i]) < RootPlace(current)

RootsFirst == \E k \in 0..Len(Roots) : TakenRoots(k)

\* The place of a root that was not met before is where it is met.
LEMMA PlaceOfRoot ==
    ASSUME NEW i \in DOMAIN Roots, \A j \in 1..(i - 1) : Roots[j] # Roots[i]
    PROVE  RootPlace(Roots[i]) = i
<1>1. Roots \in Seq(Dir)
  BY TreeAssumption
<1>2. ASSUME NEW m \in DOMAIN Roots, Roots[m] = Roots[i], \A j \in 1..(m - 1) : Roots[j] # Roots[i]
      PROVE  m = i
  <2>1. m \in Nat \ {0} /\ i \in Nat \ {0}
    BY <1>1
  <2>2. ~(m < i) /\ ~(i < m)
    BY <1>2, <2>1
  <2> QED
    BY <2>1, <2>2
<1> QED
  BY <1>2 DEF RootPlace

\* The place in the queue of a root, before and after one is taken.
LEMMA ShiftedIndex ==
    ASSUME NEW n \in Nat, NEW k \in 0..n, NEW i \in 1..(n - (k + 1))
    PROVE  i + 1 \in 1..(n - k) /\ k + (i + 1) = (k + 1) + i
OBVIOUS

LEMMA RootsFirstInit == Init => RootsFirst /\ PlanOrder
<1> SUFFICES ASSUME Init PROVE RootsFirst /\ PlanOrder
  OBVIOUS
<1>1. Roots \in Seq(Dir)
  BY TreeAssumption
<1>2. TakenRoots(0)
  BY <1>1 DEF Init, TakenRoots
<1> QED
  BY <1>1, <1>2 DEF RootsFirst, PlanOrder, Init

\* The folder at the head of the queue: the next root as long as there is one,
\* and no root that was not visited afterwards.
LEMMA TakeFolderOrder ==
    ASSUME TypeOK, NEW k \in 0..Len(Roots), TakenRoots(k), TakeFolder
    PROVE  RootsFirst'
<1> USE DEF TypeOK, ScanTypeOK, ResultTypeOK
<1> DEFINE root == Head(pending)
<1>1. /\ Roots \in Seq(Dir) /\ pending \in Seq(Dir) /\ pending # <<>>
      /\ pending' = Tail(pending) /\ opened' = opened /\ pc = "headCheck"
      /\ root = pending[1] /\ Len(pending) \in Nat \ {0}
  BY TreeAssumption DEF TakeFolder, resultVars
<1>2. \/ /\ Identity[root] \in visitedDirectories
         /\ pc' = "head" /\ visitedDirectories' = visitedDirectories
      \/ /\ Identity[root] \notin visitedDirectories
         /\ pc' = "open" /\ current' = root
         /\ visitedDirectories' = visitedDirectories \cup {Identity[root]}
  BY DEF TakeFolder
<1>3. \A i \in 1..(Len(pending) - 1) : pending'[i] = pending[i + 1]
  BY <1>1
<1>4. Len(pending') = Len(pending) - 1
  BY <1>1
<1>5. CASE k < Len(Roots)
  <2>1. root = Roots[k + 1] /\ k + 1 \in DOMAIN Roots /\ k + 1 \in 0..Len(Roots)
    <3>1. Len(Roots) \in Nat /\ DOMAIN Roots = 1..Len(Roots)
      BY <1>1
    <3>2. 1 \in 1..(Len(Roots) - k) /\ k + 1 \in 1..Len(Roots)
      BY <1>5, <3>1
    <3>3. pending[1] = Roots[k + 1]
      BY <3>2 DEF TakenRoots
    <3> QED
      BY <1>1, <3>1, <3>2, <3>3
  <2>2. \A i \in 1..(Len(Roots) - (k + 1)) : i <= Len(pending') /\ pending'[i] = Roots[(k + 1) + i]
    <3> SUFFICES ASSUME NEW i \in 1..(Len(Roots) - (k + 1))
                 PROVE  i <= Len(pending') /\ pending'[i] = Roots[(k + 1) + i]
      OBVIOUS
    <3>1. i + 1 \in 1..(Len(Roots) - k) /\ k + (i + 1) = (k + 1) + i
      <4>1. Len(Roots) \in Nat
        BY <1>1
      <4> QED
        BY <4>1, ShiftedIndex
    <3>2. i + 1 <= Len(pending) /\ pending[i + 1] = Roots[(k + 1) + i]
      BY <3>1 DEF TakenRoots
    <3> QED
      BY <1>1, <1>3, <1>4, <3>2
  <2>3. \A i \in 1..(k + 1) : Identity[Roots[i]] \in visitedDirectories'
    BY <1>2, <2>1 DEF TakenRoots
  <2>4. \A i \in DOMAIN opened : IsRoot(opened[i]) /\ RootPlace(opened[i]) \in 1..k
    BY <1>5 DEF TakenRoots
  <2>5. pc' = "open" => IsRoot(current') /\ RootPlace(current') = k + 1
    <3> SUFFICES ASSUME pc' = "open" PROVE IsRoot(root) /\ RootPlace(root) = k + 1
      BY <1>2
    <3>1. Identity[root] \notin visitedDirectories
      BY <1>2
    <3>2. \A j \in 1..((k + 1) - 1) : Roots[j] # Roots[k + 1]
      BY <2>1, <3>1 DEF TakenRoots
    <3> QED
      BY <2>1, <3>2, PlaceOfRoot DEF IsRoot, RootSet
  <2>6. TakenRoots(k + 1)'
    <3>1. \A i \in DOMAIN opened' : IsRoot(opened'[i]) /\ RootPlace(opened'[i]) \in 1..(k + 1)
      BY <1>1, <2>4
    <3>2. pc' = "open" =>
             \A i \in DOMAIN opened' : RootPlace(opened'[i]) < RootPlace(current')
      BY <1>1, <2>4, <2>5
    <3> QED
      BY <2>1, <2>2, <2>3, <2>5, <3>1, <3>2 DEF TakenRoots
  <2> QED
    BY <2>1, <2>6 DEF RootsFirst
<1>6. CASE k = Len(Roots)
  <2>1. \A d : IsRoot(d) => Identity[d] \in visitedDirectories
    BY <1>1, <1>6 DEF IsRoot, RootSet, TakenRoots
  <2>2. pc' = "open" => ~IsRoot(current')
    BY <1>2, <2>1
  <2>3. visitedDirectories \subseteq visitedDirectories'
    BY <1>2
  <2>4. TakenRoots(k)'
    BY <1>1, <1>6, <2>2, <2>3 DEF TakenRoots
  <2> QED
    BY <1>1, <1>6, <2>4 DEF RootsFirst
<1> QED
  BY <1>1, <1>5, <1>6

\* One more folder opened: a root behind all roots opened so far, or no root
\* once all roots were taken.
LEMMA OpenFolderOrder ==
    ASSUME TypeOK, PlanOrder, NEW k \in 0..Len(Roots), TakenRoots(k), OpenFolder
    PROVE  PlanOrder' /\ RootsFirst'
<1> USE DEF TypeOK, ScanTypeOK, ResultTypeOK
<1>1. /\ opened \in Seq(Dir) /\ opened' = Append(opened, current) /\ current \in Dir
      /\ pc = "open" /\ pc' = "opened"
      /\ UNCHANGED <<pending, current, visitedDirectories>>
  BY DEF OpenFolder, Pcs
<1>2. /\ DOMAIN opened' = 1..(Len(opened) + 1) /\ DOMAIN opened = 1..Len(opened) /\ Len(opened) \in Nat
      /\ opened'[Len(opened) + 1] = current
      /\ \A i \in 1..Len(opened) : opened'[i] = opened[i]
  BY <1>1
<1>3. PlanOrder'
  <2> SUFFICES ASSUME NEW i \in DOMAIN opened', NEW j \in DOMAIN opened', i < j, IsRoot(opened'[j])
               PROVE  IsRoot(opened'[i]) /\ RootPlace(opened'[i]) < RootPlace(opened'[j])
    BY DEF PlanOrder
  <2>1. CASE j \in 1..Len(opened)
    <3>1. i \in 1..Len(opened)
      BY <1>2, <2>1
    <3> QED
      BY <1>2, <2>1, <3>1 DEF PlanOrder
  <2>2. CASE j = Len(opened) + 1
    <3>1. i \in 1..Len(opened) /\ opened'[j] = current
      BY <1>2, <2>2
    <3> QED
      BY <1>1, <1>2, <3>1 DEF TakenRoots
  <2> QED
    BY <1>2, <2>1, <2>2
<1>4. TakenRoots(k)'
  <2>1. \A i \in DOMAIN opened' : opened'[i] = current \/ \E j \in DOMAIN opened : opened'[i] = opened[j]
    BY <1>2
  <2> QED
    BY <1>1, <2>1 DEF TakenRoots
<1> QED
  BY <1>3, <1>4 DEF RootsFirst

\* The other steps at most add to the end of the queue.
LEMMA OtherStepsOrder ==
    ASSUME TypeOK, PlanOrder, NEW k \in 0..Len(Roots), TakenRoots(k),
           UNCHANGED <<visitedDirectories, opened, current>>, pc' # "open",
           \/ pending' = pending
           \/ \E p \in Dir : pending' = Append(pending, p)
    PROVE  PlanOrder' /\ RootsFirst'
<1>1. Len(pending) <= Len(pending') /\ \A i \in 1..Len(pending) : pending'[i] = pending[i]
  BY DEF TypeOK, ScanTypeOK
<1>2. \A i \in 1..(Len(Roots) - k) : i <= Len(pending') /\ pending'[i] = Roots[k + i]
  <2> SUFFICES ASSUME NEW i \in 1..(Len(Roots) - k)
               PROVE  i <= Len(pending') /\ pending'[i] = Roots[k + i]
    OBVIOUS
  <2>1. i <= Len(pending) /\ pending[i] = Roots[k + i] /\ i \in Nat \ {0}
    BY TreeAssumption DEF TakenRoots
  <2>2. Len(pending) \in Nat /\ Len(pending') \in Nat
    BY DEF TypeOK, ScanTypeOK
  <2> QED
    BY <1>1, <2>1, <2>2
<1>3. TakenRoots(k)'
  BY <1>2 DEF TakenRoots
<1>4. PlanOrder'
  BY DEF PlanOrder
<1> QED
  BY <1>3, <1>4 DEF RootsFirst

LEMMA OrderStep ==
    ASSUME TypeOK, RootsFirst, PlanOrder, [Next]_vars
    PROVE  RootsFirst' /\ PlanOrder'
<1>1. PICK k \in 0..Len(Roots) : TakenRoots(k)
  BY DEF RootsFirst
<1>2. CASE TakeFolder
  <2>1. opened' = opened
    BY <1>2 DEF TakeFolder, resultVars
  <2> QED
    BY <1>1, <1>2, <2>1, TakeFolderOrder DEF PlanOrder
<1>3. CASE OpenFolder
  BY <1>1, <1>3, OpenFolderOrder
<1>4. CASE Finish \/ PassGate \/ WakeUp \/ StopWhenCancelled \/ OpenFails \/ BeginListing
           \/ ListFolder \/ ListingBreaksOff \/ EndFolder \/ BeginEntry
  <2>1. UNCHANGED <<visitedDirectories, opened, current, pending>> /\ pc' # "open"
    BY <1>4 DEF Finish, PassGate, WakeUp, LeaveGate, AtGate,
                StopWhenCancelled, OpenFails, BeginListing, ListFolder,
                ListingBreaksOff, EndFolder, BeginEntry, resultVars
  <2> QED
    BY <1>1, <2>1, OtherStepsOrder
<1>5. CASE ExamineEntry
  <2>1. UNCHANGED <<visitedDirectories, opened, current>> /\ pc' # "open" /\ current \in Dir
    BY <1>5 DEF ExamineEntry, TypeOK, ScanTypeOK
  <2>2. PICK p \in remaining : EnqueueFolder(p) \/ AddCandidate(p) \/ PassOver(p)
    BY <1>5 DEF ExamineEntry
  <2>3. pending' = pending \/ \E q \in Dir : pending' = Append(pending, q)
    BY <2>1, <2>2, ChildTypes DEF EnqueueFolder, AddCandidate, PassOver
  <2> QED
    BY <1>1, <2>1, <2>3, OtherStepsOrder
<1>6. CASE UserStep \/ Block \/ UNCHANGED vars
  <2>1. UNCHANGED <<visitedDirectories, opened, current, pending, pc>>
    BY <1>6 DEF UserStep, RequestPause, Resume, Cancel, Block, vars, scanVars, resultVars
  <2> QED
    BY <2>1 DEF RootsFirst, TakenRoots, PlanOrder
<1> QED
  BY <1>2, <1>3, <1>4, <1>5, <1>6 DEF Next, ScanStep, Returned

\* The roots are opened in plan order and before every folder found on the way,
\* whatever contains whatever, on every file system and for every plan.
THEOREM RootsInOrder == Spec => []PlanOrder
<1>1. TypeOK /\ RootsFirst /\ PlanOrder /\ [Next]_vars => RootsFirst' /\ PlanOrder'
  BY OrderStep
<1> QED
  BY <1>1, RootsFirstInit, TypeCorrect, PTL DEF Spec

-----------------------------------------------------------------------------
(* The order of the result.  Two folders found on the way come in their      *)
(* order whether they are opened, in hand or still queued, and what was      *)
(* found in the folder in hand comes before what is left of it.              *)

Listing == {"entry", "entryCheck", "examine"}

\* x was found in a folder that is finished, or before all that is left.
Placed(x) ==
    \E k \in DOMAIN opened :
        /\ x \in Contents[opened[k]]
        /\ \/ k < Len(opened)
           \/ pc \notin {"opened", "list"} /\ \A p \in remaining : Rank[x] < Rank[p]

\* What is said of folders is not said of roots, whose order is PlanOrder.
Comes(x, y) == IsRoot(x) \/ IsRoot(y) \/ Follows(y, x)
Met(x)      == IsRoot(x) \/ Placed(x)

\* What is left to examine lies in the folder opened last.
Handed ==
    /\ pc \in {"opened", "list"} \cup Listing => opened # <<>> /\ current = opened[Len(opened)]
    /\ remaining # {} => pc \in Listing \cup {"done"}
    /\ pc \in Listing => remaining \subseteq Contents[current]

FoldersOrdered ==
    /\ \A i, j \in DOMAIN opened : i < j => Comes(opened[i], opened[j])
    /\ \A i, j \in DOMAIN pending : i < j => Comes(pending[i], pending[j])
    /\ \A i \in DOMAIN opened, j \in DOMAIN pending : Comes(opened[i], pending[j])
    /\ pc = "open" => /\ \A i \in DOMAIN opened : Comes(opened[i], current)
                      /\ \A j \in DOMAIN pending : Comes(current, pending[j])

FoldersMet ==
    /\ \A i \in DOMAIN pending : Met(pending[i])
    /\ pc = "open" => Met(current)
    /\ \A j \in DOMAIN opened :
          IsRoot(opened[j]) \/ \E i \in 1..(j - 1) : opened[j] \in Contents[opened[i]]

FilesOrdered ==
    /\ \A i, j \in DOMAIN candidates : i < j => Follows(candidates[j].path, candidates[i].path)
    /\ \A i \in DOMAIN candidates : Placed(candidates[i].path)

InOrder == Handed /\ FoldersOrdered /\ FoldersMet /\ FilesOrdered

\* More folders opened change nothing in the order of what follows what.
LEMMA FollowsKept ==
    ASSUME TypeOK,
           \/ opened' = opened
           \/ current \in Dir /\ opened' = Append(opened, current)
    PROVE  \A x, y : (Follows(y, x) => Follows(y, x)') /\ (Comes(x, y) => Comes(x, y)')
<1>1. /\ DOMAIN opened \subseteq DOMAIN opened'
      /\ \A k \in DOMAIN opened : opened'[k] = opened[k]
  <2>1. opened \in Seq(Dir)
    BY DEF TypeOK, ResultTypeOK
  <2>2. CASE opened' = Append(opened, current) /\ current \in Dir
    BY <2>1, <2>2
  <2> QED
    BY <2>2
<1> QED
  BY <1>1 DEF Follows, Comes

\* A step that leaves the queues, the folder in hand and the lists alone.
LEMMA QuietOrder ==
    ASSUME TypeOK, InOrder, UNCHANGED <<opened, pending, current, remaining, candidates>>,
           pc' # "open",
           pc' \in {"opened", "list"} => pc \in {"opened", "list"},
           pc' \in Listing => pc \in Listing,
           pc' \in Listing \cup {"done"} \/ remaining = {}
    PROVE  InOrder'
<1>1. \A x, y : (Follows(y, x) => Follows(y, x)') /\ (Comes(x, y) => Comes(x, y)')
  BY FollowsKept
<1>2. \A x : (Placed(x) => Placed(x)') /\ (Met(x) => Met(x)')
  BY DEF Placed, Met
<1>3. Handed'
  BY DEF InOrder, Handed, Listing
<1>4. FoldersOrdered'
  BY <1>1 DEF InOrder, FoldersOrdered
<1>5. FoldersMet'
  BY <1>2 DEF InOrder, FoldersMet
<1>6. FilesOrdered'
  BY <1>1, <1>2 DEF InOrder, FilesOrdered
<1> QED
  BY <1>3, <1>4, <1>5, <1>6 DEF InOrder

\* The entries of the folder in hand come after all that was found before.
LEMMA ListingOrder ==
    ASSUME TypeOK, InOrder, ListFolder \/ ListingBreaksOff
    PROVE  InOrder'
<1>0. /\ UNCHANGED <<opened, pending, current, candidates>>
      /\ pc = "list" /\ pc' = "entry" /\ remaining' \subseteq Contents[current]
  BY DEF ListFolder, ListingBreaksOff, resultVars
<1>1. \A x, y : (Follows(y, x) => Follows(y, x)') /\ (Comes(x, y) => Comes(x, y)')
  BY <1>0, FollowsKept
<1>2. \A x : (Placed(x) => Placed(x)') /\ (Met(x) => Met(x)')
  BY <1>0 DEF Placed, Met
<1>3. Handed'
  BY <1>0 DEF InOrder, Handed, Listing
<1>4. FoldersOrdered'
  BY <1>0, <1>1 DEF InOrder, FoldersOrdered
<1>5. FoldersMet'
  BY <1>0, <1>2 DEF InOrder, FoldersMet
<1>6. FilesOrdered'
  BY <1>0, <1>1, <1>2 DEF InOrder, FilesOrdered
<1> QED
  BY <1>3, <1>4, <1>5, <1>6 DEF InOrder

\* The folder taken stands between those opened and those still queued.
LEMMA TakenInOrder ==
    ASSUME TypeOK, InOrder, TakeFolder
    PROVE  InOrder'
<1> DEFINE root == Head(pending)
<1>0. /\ UNCHANGED <<opened, remaining, candidates>>
      /\ pc = "headCheck" /\ pending' = Tail(pending)
      /\ \/ pc' = "head" /\ current' = current
         \/ pc' = "open" /\ current' = root
  BY DEF TakeFolder, resultVars
<1>1. pending \in Seq(Dir) /\ pending # <<>>
  BY <1>0 DEF TypeOK, ScanTypeOK
<1>2. /\ 1 \in DOMAIN pending /\ root = pending[1] /\ Len(pending) \in Nat
      /\ DOMAIN pending = 1..Len(pending) /\ DOMAIN pending' = 1..(Len(pending) - 1)
      /\ \A i \in DOMAIN pending' : pending'[i] = pending[i + 1]
  BY <1>0, <1>1, HeadTailProperties
<1>3. \A x, y : (Follows(y, x) => Follows(y, x)') /\ (Comes(x, y) => Comes(x, y)')
  BY <1>0, FollowsKept
<1>4. \A x : (Placed(x) => Placed(x)') /\ (Met(x) => Met(x)')
  BY <1>0 DEF Placed, Met
<1>5. Handed'
  BY <1>0 DEF InOrder, Handed, Listing
<1>6. \A i \in DOMAIN pending' : i \in Int /\ i + 1 \in DOMAIN pending /\ 1 < i + 1
  BY <1>2
<1>7. \A i, j \in DOMAIN pending' : i < j => i + 1 < j + 1
  BY <1>6
<1>8. \A i, j \in DOMAIN pending' : i < j => Comes(pending'[i], pending'[j])
  BY <1>2, <1>6, <1>7 DEF InOrder, FoldersOrdered
<1>9. \A i \in DOMAIN opened, j \in DOMAIN pending' : Comes(opened[i], pending'[j])
  BY <1>2, <1>6 DEF InOrder, FoldersOrdered
<1>10. \A i \in DOMAIN opened : Comes(opened[i], root)
  BY <1>2 DEF InOrder, FoldersOrdered
<1>11. \A j \in DOMAIN pending' : Comes(root, pending'[j])
  BY <1>2, <1>6 DEF InOrder, FoldersOrdered
<1>12. FoldersOrdered'
  BY <1>0, <1>3, <1>8, <1>9, <1>10, <1>11 DEF InOrder, FoldersOrdered
<1>13. Met(root) /\ \A i \in DOMAIN pending' : Met(pending'[i])
  BY <1>2, <1>6 DEF InOrder, FoldersMet
<1>14. FoldersMet'
  BY <1>0, <1>4, <1>13 DEF InOrder, FoldersMet
<1>15. FilesOrdered'
  BY <1>0, <1>3, <1>4 DEF InOrder, FilesOrdered
<1> QED
  BY <1>5, <1>12, <1>14, <1>15 DEF InOrder

\* The folder opened is the last one now, and was found in one before it.
LEMMA OpenedInOrder ==
    ASSUME TypeOK, InOrder, OpenFolder
    PROVE  InOrder'
<1>0. /\ UNCHANGED <<pending, current, remaining, candidates>>
      /\ pc = "open" /\ pc' = "opened" /\ opened' = Append(opened, current)
      /\ opened \in Seq(Dir) /\ current \in Dir
  BY DEF OpenFolder, TypeOK, ScanTypeOK, ResultTypeOK
<1>1. /\ Len(opened) \in Nat /\ DOMAIN opened = 1..Len(opened)
      /\ DOMAIN opened' = 1..(Len(opened) + 1) /\ Len(opened') = Len(opened) + 1
      /\ opened'[Len(opened) + 1] = current
      /\ \A i \in DOMAIN opened : opened'[i] = opened[i]
  BY <1>0
<1>2. \A x, y : (Follows(y, x) => Follows(y, x)') /\ (Comes(x, y) => Comes(x, y)')
  BY <1>0, FollowsKept
<1>3. \A x : Placed(x) => Placed(x)'
  BY <1>1 DEF Placed
<1>4. \A x : Met(x) => Met(x)'
  BY <1>3 DEF Met
<1>5. remaining = {}
  BY <1>0 DEF InOrder, Handed, Listing
<1>6. Handed'
  BY <1>0, <1>1, <1>5 DEF Handed, Listing
<1>7. \A j \in DOMAIN opened' : j \in DOMAIN opened \/ j = Len(opened) + 1
  BY <1>1
<1>8. ASSUME NEW i \in DOMAIN opened', NEW j \in DOMAIN opened', i < j
      PROVE  Comes(opened'[i], opened'[j])
  <2>1. i \in DOMAIN opened
    BY <1>1, <1>8
  <2>2. CASE j \in DOMAIN opened
    BY <1>1, <1>8, <2>1, <2>2 DEF InOrder, FoldersOrdered
  <2>3. CASE j = Len(opened) + 1
    BY <1>0, <1>1, <2>1, <2>3 DEF InOrder, FoldersOrdered
  <2> QED
    BY <1>7, <2>2, <2>3
<1>9. \A i \in DOMAIN opened', j \in DOMAIN pending : Comes(opened'[i], pending[j])
  BY <1>0, <1>1, <1>7 DEF InOrder, FoldersOrdered
<1>10. FoldersOrdered'
  BY <1>0, <1>2, <1>8, <1>9 DEF InOrder, FoldersOrdered
<1>11. ASSUME NEW j \in DOMAIN opened', ~IsRoot(opened'[j])
       PROVE  \E i \in 1..(j - 1) : opened'[j] \in Contents[opened'[i]]
  <2>1. CASE j \in DOMAIN opened
    <3>1. PICK i \in 1..(j - 1) : opened[j] \in Contents[opened[i]]
      BY <1>1, <1>11, <2>1 DEF InOrder, FoldersMet
    <3>2. i \in DOMAIN opened
      BY <1>1, <2>1, <3>1
    <3> QED
      BY <1>1, <2>1, <3>1, <3>2
  <2>2. CASE j = Len(opened) + 1
    <3>1. Placed(current)
      BY <1>0, <1>1, <1>11, <2>2 DEF InOrder, FoldersMet, Met
    <3>2. PICK k \in DOMAIN opened : current \in Contents[opened[k]]
      BY <3>1 DEF Placed
    <3>3. k \in 1..(j - 1)
      BY <1>1, <2>2
    <3> QED
      BY <1>1, <2>2, <3>2, <3>3
  <2> QED
    BY <1>7, <2>1, <2>2
<1>12. FoldersMet'
  BY <1>0, <1>4, <1>11 DEF InOrder, FoldersMet
<1>13. FilesOrdered'
  BY <1>0, <1>2, <1>3 DEF InOrder, FilesOrdered
<1> QED
  BY <1>6, <1>10, <1>12, <1>13 DEF InOrder

\* What is examined next comes after all that was found before, and before all
\* that is left.
LEMMA ExaminedNext ==
    ASSUME TypeOK, InOrder, pc = "examine", NEW p, IsNext(p),
           UNCHANGED opened, pc' = "entry", remaining' = remaining \ {p}
    PROVE  /\ \A x : Placed(x) => Follows(p, x) /\ Placed(x)'
           /\ Placed(p)'
<1>0. opened \in Seq(Dir) /\ opened # <<>> /\ current = opened[Len(opened)] /\ p \in remaining
  BY DEF InOrder, Handed, Listing, IsNext, TypeOK, ResultTypeOK
<1>1. Len(opened) \in DOMAIN opened /\ Len(opened) \in Nat /\ DOMAIN opened = 1..Len(opened)
  BY <1>0, LenProperties, EmptySeq
<1>2. p \in Contents[opened[Len(opened)]]
  BY <1>0 DEF InOrder, Handed, Listing
<1>3. ASSUME NEW x, Placed(x)
      PROVE  Follows(p, x) /\ Placed(x)'
  <2>1. PICK k \in DOMAIN opened :
           /\ x \in Contents[opened[k]]
           /\ k < Len(opened) \/ \A q \in remaining : Rank[x] < Rank[q]
    BY <1>3 DEF Placed
  <2>2. k < Len(opened) \/ (k = Len(opened) /\ Rank[x] < Rank[p])
    BY <1>0, <1>1, <2>1
  <2>3. Follows(p, x)
    BY <1>1, <1>2, <2>1, <2>2 DEF Follows
  <2>4. Placed(x)'
    BY <2>1 DEF Placed
  <2> QED
    BY <2>3, <2>4
<1>4. \A q \in remaining \ {p} : Rank[p] < Rank[q]
  <2> SUFFICES ASSUME NEW q \in remaining, q # p PROVE Rank[p] < Rank[q]
    OBVIOUS
  <2>1. p \in Path /\ q \in Path
    BY <1>0 DEF TypeOK, ScanTypeOK
  <2>2. Rank[p] \in Nat /\ Rank[q] \in Nat /\ Rank[p] # Rank[q] /\ Rank[p] <= Rank[q]
    BY <2>1, RankAssumption DEF IsNext
  <2> QED
    BY <2>2
<1>5. Placed(p)'
  BY <1>1, <1>2, <1>4 DEF Placed
<1> QED
  BY <1>3, <1>5

\* An entry examined joins the end of the queue, of the result, or neither.
LEMMA ExaminedInOrder ==
    ASSUME TypeOK, InOrder, ExamineEntry
    PROVE  InOrder'
<1>0. PICK p \in remaining :
         /\ IsNext(p) /\ remaining' = remaining \ {p}
         /\ EnqueueFolder(p) \/ AddCandidate(p) \/ PassOver(p)
  BY DEF ExamineEntry
<1>1. UNCHANGED <<opened, current>> /\ pc = "examine" /\ pc' = "entry" /\ current \in Dir
  BY DEF ExamineEntry, TypeOK, ScanTypeOK
<1>2. \A x, y : (Follows(y, x) => Follows(y, x)') /\ (Comes(x, y) => Comes(x, y)')
  BY <1>1, FollowsKept
<1>3. /\ \A x : Placed(x) => Follows(p, x) /\ Placed(x)'
      /\ Placed(p)'
  BY <1>0, <1>1, ExaminedNext
<1>4. \A x : Met(x) => Comes(x, p) /\ Met(x)'
  BY <1>3 DEF Met, Comes
<1>5. Handed'
  BY <1>0, <1>1 DEF InOrder, Handed, Listing
<1>6. \A i \in DOMAIN opened : Comes(opened[i], p)
  <2> SUFFICES ASSUME NEW i \in DOMAIN opened, ~IsRoot(opened[i]) PROVE Follows(p, opened[i])
    BY DEF Comes
  <2>1. opened \in Seq(Dir) /\ Len(opened) \in Nat /\ DOMAIN opened = 1..Len(opened)
    BY DEF TypeOK, ResultTypeOK
  <2>2. PICK k \in 1..(i - 1) : opened[i] \in Contents[opened[k]]
    BY DEF InOrder, FoldersMet
  <2>3. k \in DOMAIN opened /\ k < Len(opened)
    BY <2>1, <2>2
  <2>4. Placed(opened[i])
    BY <2>2, <2>3 DEF Placed
  <2> QED
    BY <1>3, <2>4
<1>7. pending \in Seq(Dir) /\ candidates \in Seq(Candidate)
  BY DEF TypeOK, ScanTypeOK, ResultTypeOK
<1>8. CASE pending' = pending /\ candidates' = candidates
  <2>1. FoldersOrdered'
    BY <1>1, <1>2, <1>8 DEF InOrder, FoldersOrdered
  <2>2. FoldersMet'
    BY <1>1, <1>4, <1>8 DEF InOrder, FoldersMet
  <2>3. FilesOrdered'
    BY <1>2, <1>3, <1>8 DEF InOrder, FilesOrdered
  <2> QED
    BY <1>5, <2>1, <2>2, <2>3 DEF InOrder
<1>9. CASE p \in Dir /\ pending' = Append(pending, p) /\ candidates' = candidates
  <2>1. /\ Len(pending) \in Nat /\ DOMAIN pending = 1..Len(pending)
        /\ DOMAIN pending' = 1..(Len(pending) + 1) /\ pending'[Len(pending) + 1] = p
        /\ \A i \in DOMAIN pending : pending'[i] = pending[i]
    BY <1>7, <1>9
  <2>2. \A i \in DOMAIN pending' : i \in DOMAIN pending \/ i = Len(pending) + 1
    BY <2>1
  <2>3. ASSUME NEW i \in DOMAIN pending', NEW j \in DOMAIN pending', i < j
        PROVE  Comes(pending'[i], pending'[j])
    <3>1. i \in DOMAIN pending
      BY <2>1, <2>3
    <3>2. Comes(pending[i], p)
      BY <1>4, <3>1 DEF InOrder, FoldersMet
    <3> QED
      BY <2>1, <2>2, <2>3, <3>1, <3>2 DEF InOrder, FoldersOrdered
  <2>4. \A i \in DOMAIN opened, j \in DOMAIN pending' : Comes(opened[i], pending'[j])
    BY <1>6, <2>1, <2>2 DEF InOrder, FoldersOrdered
  <2>5. FoldersOrdered'
    BY <1>1, <1>2, <2>3, <2>4 DEF InOrder, FoldersOrdered
  <2>6. ASSUME NEW x, x = p \/ \E i \in DOMAIN pending : x = pending[i]
        PROVE  Met(x)'
    <3>1. CASE x = p
      BY <1>3, <3>1 DEF Met
    <3>2. CASE \E i \in DOMAIN pending : x = pending[i]
      BY <1>4, <3>2 DEF InOrder, FoldersMet
    <3> QED
      BY <2>6, <3>1, <3>2
  <2>7. FoldersMet'
    <3>1. \A i \in DOMAIN pending' : pending'[i] = p \/ \E m \in DOMAIN pending : pending'[i] = pending[m]
      BY <2>1, <2>2
    <3> QED
      BY <1>1, <2>6, <3>1 DEF InOrder, FoldersMet
  <2>8. FilesOrdered'
    BY <1>2, <1>3, <1>9 DEF InOrder, FilesOrdered
  <2> QED
    BY <1>5, <2>5, <2>7, <2>8 DEF InOrder
<1>10. CASE pending' = pending /\ \E state : candidates' = Append(candidates, [path |-> p, state |-> state])
  <2>1. /\ Len(candidates) \in Nat /\ DOMAIN candidates = 1..Len(candidates)
        /\ DOMAIN candidates' = 1..(Len(candidates) + 1)
        /\ candidates'[Len(candidates) + 1].path = p
        /\ \A i \in DOMAIN candidates : candidates'[i] = candidates[i]
    BY <1>7, <1>10
  <2>2. \A i \in DOMAIN candidates' : i \in DOMAIN candidates \/ i = Len(candidates) + 1
    BY <2>1
  <2>3. \A i \in DOMAIN candidates : Follows(p, candidates[i].path)
    BY <1>3 DEF InOrder, FilesOrdered
  <2>4. ASSUME NEW i \in DOMAIN candidates', NEW j \in DOMAIN candidates', i < j
        PROVE  Follows(candidates'[j].path, candidates'[i].path)
    <3>1. i \in DOMAIN candidates
      BY <2>1, <2>4
    <3> QED
      BY <2>1, <2>2, <2>3, <2>4, <3>1 DEF InOrder, FilesOrdered
  <2>5. ASSUME NEW x, x = p \/ \E i \in DOMAIN candidates : x = candidates[i].path
        PROVE  Placed(x)'
    BY <1>3, <2>5 DEF InOrder, FilesOrdered
  <2>6. FilesOrdered'
    <3>1. \A i \in DOMAIN candidates' :
             \/ candidates'[i].path = p
             \/ \E m \in DOMAIN candidates : candidates'[i].path = candidates[m].path
      BY <2>1, <2>2
    <3>2. \A i, j \in DOMAIN candidates' :
             i < j => Follows(candidates'[j].path, candidates'[i].path)
      BY <2>4
    <3> QED
      BY <1>2, <2>5, <3>1, <3>2 DEF FilesOrdered
  <2>7. FoldersOrdered'
    BY <1>1, <1>2, <1>10 DEF InOrder, FoldersOrdered
  <2>8. FoldersMet'
    BY <1>1, <1>4, <1>10 DEF InOrder, FoldersMet
  <2> QED
    BY <1>5, <2>6, <2>7, <2>8 DEF InOrder
<1>11. \/ pending' = pending /\ candidates' = candidates
       \/ p \in Dir /\ pending' = Append(pending, p) /\ candidates' = candidates
       \/ pending' = pending /\ \E state : candidates' = Append(candidates, [path |-> p, state |-> state])
  BY <1>0, <1>1, ChildTypes DEF EnqueueFolder, AddCandidate, PassOver
<1> QED
  BY <1>8, <1>9, <1>10, <1>11

\* Every step keeps the order.
LEMMA InOrderStep ==
    ASSUME TypeOK, InOrder, [Next]_vars
    PROVE  InOrder'
<1>1. CASE Finish \/ PassGate \/ WakeUp \/ StopWhenCancelled \/ OpenFails \/ BeginListing
           \/ EndFolder \/ BeginEntry
  <2>1. UNCHANGED <<opened, pending, current, remaining, candidates>>
    BY <1>1 DEF Finish, PassGate, WakeUp, LeaveGate, AtGate,
                StopWhenCancelled, OpenFails, BeginListing,
                EndFolder, BeginEntry, resultVars
  <2>2. /\ pc' # "open"
        /\ pc' \in {"opened", "list"} => pc \in {"opened", "list"}
        /\ pc' \in Listing => pc \in Listing
        /\ pc' \in Listing \cup {"done"} \/ remaining = {}
    BY <1>1 DEF Finish, PassGate, WakeUp, LeaveGate, AtGate,
                StopWhenCancelled, OpenFails, BeginListing,
                EndFolder, BeginEntry, Listing, InOrder, Handed
  <2> QED
    BY <2>1, <2>2, QuietOrder
<1>2. CASE UserStep \/ Block \/ UNCHANGED vars
  <2>1. UNCHANGED <<opened, pending, current, remaining, candidates, pc>>
    BY <1>2 DEF UserStep, RequestPause, Resume, Cancel, Block, vars, scanVars, resultVars
  <2> QED
    BY <2>1 DEF InOrder, Handed, FoldersOrdered, FoldersMet, FilesOrdered, Comes, Met, Placed,
                Follows
<1>3. CASE ListFolder \/ ListingBreaksOff
  BY <1>3, ListingOrder
<1> QED
  BY <1>1, <1>2, <1>3, TakenInOrder, OpenedInOrder, ExaminedInOrder DEF Next, ScanStep, Returned

\* On every disk, whatever fails or vanishes and whatever the user asks, the
\* candidates come in the order that the roots and the names fix.
THEOREM OneOrder == Spec => []Deterministic
<1>1. Init => InOrder
  <2> SUFFICES ASSUME Init PROVE InOrder
    OBVIOUS
  <2>1. pending = Roots /\ opened = <<>> /\ candidates = <<>> /\ remaining = {} /\ pc = "head"
    BY DEF Init
  <2>2. \A i \in DOMAIN pending : IsRoot(pending[i])
    BY <2>1 DEF IsRoot, RootSet
  <2> QED
    BY <2>1, <2>2 DEF InOrder, Handed, FoldersOrdered, FoldersMet, FilesOrdered, Comes, Met, Listing
<1>2. TypeOK /\ InOrder /\ [Next]_vars => InOrder'
  BY InOrderStep
<1>3. InOrder => Deterministic
  BY DEF InOrder, FoldersOrdered, FoldersMet, FilesOrdered, Deterministic, Comes
<1> QED
  BY <1>1, <1>2, <1>3, TypeCorrect, PTL DEF Spec

-----------------------------------------------------------------------------
(* Facts about the folder tree. *)

\* What the search may go into is a set of folders that has the roots and is
\* closed under sub-folders.
LEMMA RootsReachable == RootSet \subseteq Reachable({})
BY TreeAssumption DEF RootSet, Reachable, ClosedUnder

LEMMA SubfoldersReachable ==
    ASSUME NEW d \in Reachable({})
    PROVE  Subfolders(d) \subseteq Reachable({})
<1> SUFFICES ASSUME NEW c \in Subfolders(d), NEW D \in SUBSET Dir, ClosedUnder(D, {})
             PROVE  c \in D
  BY ChildTypes DEF Reachable
<1>1. d \in D
  BY DEF Reachable
<1> QED
  BY <1>1 DEF ClosedUnder

LEMMA MatchesAreTargets ==
    ASSUME NEW d \in Reachable({})
    PROVE  Matches(d) \subseteq Targets({})
BY DEF Targets, Matches

-----------------------------------------------------------------------------
(* Soundness: what is queued, in hand or reported was reached.               *)

Queued == {pending[i] : i \in DOMAIN pending}

Sound ==
    /\ Queued \subseteq Reachable({})
    /\ current \in Reachable({}) \cup {Absent}
    /\ pc \in {"open", "opened", "list", "entry", "entryCheck", "examine"}
          => current \in Reachable({})
    /\ visitedFiles = {Identity[ReportedPaths[i]] : i \in DOMAIN ReportedPaths}

\* Taking from and adding to the queue.
LEMMA QueueTake ==
    ASSUME NEW q \in Seq(Dir), q # <<>>
    PROVE  /\ Head(q) \in {q[i] : i \in DOMAIN q}
           /\ {Tail(q)[i] : i \in DOMAIN Tail(q)} \subseteq {q[i] : i \in DOMAIN q}
           /\ {q[i] : i \in DOMAIN q} = {Head(q)} \cup {Tail(q)[i] : i \in DOMAIN Tail(q)}
<1>1. /\ Len(q) \in Nat /\ DOMAIN q = 1..Len(q) /\ 1 \in DOMAIN q
      /\ DOMAIN Tail(q) = 1..(Len(q) - 1)
      /\ \A j \in 1..(Len(q) - 1) : Tail(q)[j] = q[j + 1]
  BY HeadTailProperties, LenProperties, EmptySeq
<1>2. Head(q) = q[1]
  OBVIOUS
<1>3. ASSUME NEW j \in DOMAIN Tail(q)
      PROVE  Tail(q)[j] \in {q[i] : i \in DOMAIN q}
  <2>1. j + 1 \in DOMAIN q /\ Tail(q)[j] = q[j + 1]
    BY <1>1
  <2> QED
    BY <2>1
<1>4. ASSUME NEW i \in DOMAIN q, i # 1
      PROVE  q[i] \in {Tail(q)[j] : j \in DOMAIN Tail(q)}
  <2>0. i \in 1..Len(q) /\ i \in Int /\ Len(q) \in Nat
    BY <1>1
  <2>1. i - 1 \in 1..(Len(q) - 1) /\ (i - 1) + 1 = i
    BY <1>4, <2>0
  <2>2. q[i] = Tail(q)[i - 1]
    BY <1>1, <2>1
  <2> QED
    BY <1>1, <2>1, <2>2
<1> QED
  BY <1>1, <1>2, <1>3, <1>4

LEMMA QueueAdd ==
    ASSUME NEW S, NEW q \in Seq(S), NEW e \in S
    PROVE  {Append(q, e)[i] : i \in DOMAIN Append(q, e)} = {q[i] : i \in DOMAIN q} \cup {e}
<1>1. \A i \in DOMAIN q : i \in DOMAIN Append(q, e) /\ Append(q, e)[i] = q[i]
  OBVIOUS
<1>2. Len(q) + 1 \in DOMAIN Append(q, e) /\ Append(q, e)[Len(q) + 1] = e
  OBVIOUS
<1>3. \A i \in DOMAIN Append(q, e) : i \in DOMAIN q \/ i = Len(q) + 1
  OBVIOUS
<1> QED
  BY <1>1, <1>2, <1>3

\* A new candidate is one more reported path.
LEMMA ReportGrows ==
    ASSUME TypeOK, NEW p \in File, AddCandidate(p)
    PROVE  /\ ReportedPaths \in Seq(File)
           /\ ReportedPaths' = Append(ReportedPaths, p)
<1>1. PICK state \in Inspections : candidates' = Append(candidates, [path |-> p, state |-> state])
  BY DEF AddCandidate
<1> DEFINE c == [path |-> p, state |-> state]
<1>2. candidates \in Seq(Candidate) /\ c \in Candidate
  BY DEF TypeOK, ResultTypeOK, Candidate, Inspections, States
<1> HIDE DEF c
<1>3. ASSUME NEW i \in DOMAIN candidates
      PROVE  candidates[i].path \in File
  <2>1. candidates[i] \in Candidate
    BY <1>2
  <2> QED
    BY <2>1 DEF Candidate
<1>4. /\ ReportedPaths = [i \in 1..Len(candidates) |-> candidates[i].path]
      /\ Len(candidates) \in Nat
  BY <1>2 DEF ReportedPaths
<1>5. ReportedPaths \in Seq(File) /\ Len(ReportedPaths) = Len(candidates)
  BY <1>2, <1>3, <1>4
<1>6. /\ DOMAIN candidates' = 1..(Len(candidates) + 1)
      /\ \A i \in 1..Len(candidates) : candidates'[i] = candidates[i]
      /\ candidates'[Len(candidates) + 1] = c
  BY <1>1, <1>2 DEF c
<1>7. ReportedPaths' = [i \in 1..(Len(candidates) + 1) |-> candidates'[i].path]
  BY <1>6 DEF ReportedPaths
<1>8. ReportedPaths' = Append(ReportedPaths, c.path)
  BY <1>4, <1>5, <1>6, <1>7
<1> QED
  BY <1>5, <1>8 DEF c

\* Taking a folder of the queue or adding one changes Queued by that folder.
LEMMA QueuedTake ==
    ASSUME TypeOK, pending # <<>>, pending' = Tail(pending)
    PROVE  /\ Head(pending) \in Queued
           /\ Queued' \subseteq Queued
           /\ Queued = Queued' \cup {Head(pending)}
BY QueueTake DEF TypeOK, ScanTypeOK, Queued

LEMMA QueuedAdd ==
    ASSUME TypeOK, NEW d \in Dir, pending' = Append(pending, d)
    PROVE  Queued' = Queued \cup {d}
BY QueueAdd DEF TypeOK, ScanTypeOK, Queued

\* A step that leaves the queue and the list of candidates alone.
LEMMA Unmoved ==
    /\ pending' = pending => Queued' = Queued
    /\ candidates' = candidates => ReportedPaths' = ReportedPaths
BY DEF Queued, ReportedPaths

\* One step keeps the search to what it may reach.
LEMMA SoundStep ==
    ASSUME TypeOK, Sound, [Next]_vars
    PROVE  Sound'
<1> USE Unmoved DEF Sound, controlVars, resultVars
<1>1. CASE Finish \/ StopWhenCancelled
  BY <1>1 DEF Finish, StopWhenCancelled
<1>2. CASE PassGate \/ WakeUp
  BY <1>2 DEF PassGate, WakeUp, LeaveGate, AtGate
<1>3. CASE TakeFolder
  <2>1. Head(pending) \in Reachable({}) /\ Queued' \subseteq Reachable({})
    BY <1>3, QueuedTake DEF TakeFolder, TypeOK, ScanTypeOK
  <2> QED
    BY <1>3, <2>1 DEF TakeFolder
<1>4. CASE OpenFolder \/ OpenFails
  BY <1>4 DEF OpenFolder, OpenFails
<1>5. CASE BeginListing \/ ListFolder \/ ListingBreaksOff
  BY <1>5 DEF BeginListing, ListFolder, ListingBreaksOff
<1>6. CASE EndFolder \/ BeginEntry
  BY <1>6 DEF EndFolder, BeginEntry
<1>7. CASE ExamineEntry
  <2>1. current \in Reachable({}) /\ current \in Dir
    BY <1>7 DEF ExamineEntry, TypeOK, ScanTypeOK
  <2>2. PICK p \in remaining : EnqueueFolder(p) \/ AddCandidate(p) \/ PassOver(p)
    BY <1>7 DEF ExamineEntry
  <2>3. Queued' \subseteq Reachable({})
    <3>1. CASE EnqueueFolder(p)
      BY <2>1, <3>1, QueuedAdd, ChildTypes, SubfoldersReachable DEF EnqueueFolder
    <3>2. CASE AddCandidate(p) \/ PassOver(p)
      BY <3>2 DEF AddCandidate, PassOver
    <3> QED
      BY <2>2, <3>1, <3>2
  <2>4. visitedFiles' = {Identity[ReportedPaths'[i]] : i \in DOMAIN ReportedPaths'}
    <3>1. CASE AddCandidate(p)
      <4>1. p \in File
        BY <2>1, <3>1, ChildTypes DEF AddCandidate
      <4>2. ReportedPaths \in Seq(File) /\ ReportedPaths' = Append(ReportedPaths, p)
        BY <3>1, <4>1, ReportGrows
      <4>3. /\ DOMAIN ReportedPaths' = DOMAIN ReportedPaths \cup {Len(ReportedPaths) + 1}
            /\ \A i \in DOMAIN ReportedPaths : ReportedPaths'[i] = ReportedPaths[i]
            /\ ReportedPaths'[Len(ReportedPaths) + 1] = p
        BY <4>1, <4>2, AppendProperties, LenProperties
      <4>4. visitedFiles' = visitedFiles \cup {Identity[p]}
        BY <3>1 DEF AddCandidate
      <4> QED
        BY <4>3, <4>4
    <3>2. CASE EnqueueFolder(p) \/ PassOver(p)
      BY <3>2 DEF EnqueueFolder, PassOver
    <3> QED
      BY <2>2, <3>1, <3>2
  <2> QED
    BY <1>7, <2>1, <2>3, <2>4 DEF ExamineEntry
<1>8. CASE UserStep \/ Block
  BY <1>8 DEF UserStep, RequestPause, Resume, Cancel, Block, scanVars
<1>9. CASE UNCHANGED vars
  BY <1>9 DEF vars, scanVars
<1> QED
  BY <1>1, <1>2, <1>3, <1>4, <1>5, <1>6, <1>7, <1>8, <1>9 DEF Next, ScanStep, Returned

LEMMA SoundInit == Init => Sound
<1> SUFFICES ASSUME Init PROVE Sound
  OBVIOUS
<1>1. Queued \subseteq Reachable({})
  BY RootsReachable DEF Init, Queued, RootSet
<1>2. DOMAIN ReportedPaths = {}
  BY DEF Init, ReportedPaths
<1> QED
  BY <1>1, <1>2 DEF Init, Sound

-----------------------------------------------------------------------------
(* Coverage: what the search may go into is queued, or was visited; and      *)
(* under each visited identity some folder was examined, is being examined,  *)
(* or could not be listed, unless the result counts a gap.                   *)

InHand == pc \in {"open", "opened", "list", "entry", "entryCheck", "examine"}

\* The entries of current that the scan has yet to examine.
Left == IF pc \in {"open", "opened", "list"} THEN Contents[current] ELSE remaining

Seen(d) == d \in Queued \/ Identity[d] \in visitedDirectories

\* What is to be done with entry c of folder d was done.
Handled(d, c) ==
    /\ c \in Subfolders(d) => Seen(c)
    /\ c \in Matches(d) => Identity[c] \in visitedFiles

Examined(d) ==
    \/ d \in Denied
    \/ \A c \in Contents[d] \ Flaky :
          Handled(d, c) \/ (InHand /\ d = current /\ c \in Left)

Covered ==
    \/ status = "cancelled"
    \/ /\ \A d \in RootSet : Seen(d)
       /\ \/ Counted
          \/ \A id \in visitedDirectories :
                \E d \in Dir : Identity[d] = id /\ Examined(d)

\* Nothing that was seen or handled ever becomes unseen.
LEMMA SeenGrows ==
    ASSUME \A d \in Queued : d \in Queued' \/ Identity[d] \in visitedDirectories',
           visitedDirectories \subseteq visitedDirectories',
           visitedFiles \subseteq visitedFiles'
    PROVE  /\ \A d : Seen(d) => Seen(d)'
           /\ \A d, c : Handled(d, c) => Handled(d, c)'
BY DEF Seen, Handled

\* A step that visits no new folder keeps the search covered when it leaves
\* every folder that was examined examined.
LEMMA CoveredKept ==
    ASSUME Covered,
           status = "cancelled" => status' = "cancelled",
           Counted => Counted',
           \A d \in RootSet : Seen(d) => Seen(d)',
           visitedDirectories' = visitedDirectories,
           Counted' \/ \A d \in Dir : Examined(d) => Examined(d)'
    PROVE  Covered'
BY DEF Covered

\* The scan takes the next folder: it drops out of the queue and is visited,
\* was already, or becomes the one in hand with all its entries left.
LEMMA CoveredTake ==
    ASSUME TypeOK, Covered, TakeFolder
    PROVE  Covered'
<1> USE DEF resultVars, controlVars
<1>0. PICK root \in Dir : root = Head(pending)
  BY QueueTypes DEF TakeFolder, TypeOK, ScanTypeOK
<1>1. /\ Queued = Queued' \cup {root}
      /\ visitedDirectories' = visitedDirectories \cup {Identity[root]}
      /\ visitedFiles' = visitedFiles
      /\ status' = status /\ Counted' = Counted
  BY <1>0, QueuedTake DEF TakeFolder, TypeOK, ScanTypeOK, Counted
<1>2. /\ \A d : Seen(d) => Seen(d)'
      /\ \A d, c : Handled(d, c) => Handled(d, c)'
  BY <1>1, SeenGrows
<1>3. ~InHand
  BY DEF TakeFolder, InHand
<1>4. ASSUME NEW d \in Dir, Examined(d)
      PROVE  Examined(d)'
  BY <1>2, <1>3, <1>4 DEF Examined
<1>5. CASE Identity[root] \in visitedDirectories
  BY <1>1, <1>2, <1>4, <1>5 DEF Covered
<1>6. CASE Identity[root] \notin visitedDirectories
  <2>1. pc' = "open" /\ current' = root
    BY <1>0, <1>6 DEF TakeFolder
  <2>2. Examined(root)'
    BY <2>1 DEF Examined, InHand, Left
  <2> QED
    BY <1>1, <1>2, <1>4, <2>2 DEF Covered
<1> QED
  BY <1>5, <1>6

\* The scan examines an entry: it is handled, and no longer left.
LEMMA CoveredExamine ==
    ASSUME TypeOK, Covered, ExamineEntry
    PROVE  Covered'
<1> USE DEF resultVars, controlVars
<1>0. current \in Dir /\ pc = "examine" /\ pc' = "entry" /\ current' = current
  BY DEF ExamineEntry, TypeOK, ScanTypeOK
<1>1. PICK p \in remaining : /\ remaining' = remaining \ {p}
                             /\ EnqueueFolder(p) \/ AddCandidate(p) \/ PassOver(p)
  BY DEF ExamineEntry
<1>2. /\ visitedDirectories' = visitedDirectories
      /\ visitedFiles \subseteq visitedFiles'
      /\ status' = status /\ Counted' = Counted
  BY <1>1 DEF ExamineEntry, EnqueueFolder, AddCandidate, PassOver, Counted
<1>3. /\ Queued \subseteq Queued'
      /\ EnqueueFolder(p) => p \in Queued'
  <2>1. CASE EnqueueFolder(p)
    BY <1>0, <2>1, QueuedAdd, ChildTypes DEF EnqueueFolder
  <2>2. CASE ~EnqueueFolder(p)
    BY <1>1, <2>2, Unmoved DEF AddCandidate, PassOver
  <2> QED
    BY <2>1, <2>2
<1>4. /\ \A d : Seen(d) => Seen(d)'
      /\ \A d, c : Handled(d, c) => Handled(d, c)'
  BY <1>2, <1>3, SeenGrows
<1>5. p \in Flaky \/ Handled(current, p)'
  <2>0. Subfolders(current) \cap Matches(current) = {}
    BY <1>0, ChildTypes, TreeAssumption
  <2>1. CASE EnqueueFolder(p)
    BY <1>0, <1>3, <2>0, <2>1 DEF EnqueueFolder, Handled, Seen, Subfolders, Matches
  <2>2. CASE AddCandidate(p)
    BY <1>0, <2>0, <2>2 DEF AddCandidate, Handled, Subfolders, Matches
  <2>3. CASE PassOver(p)
    BY <1>0, <2>0, <2>3 DEF PassOver, Handled, Subfolders, Matches
  <2> QED
    BY <1>1, <2>1, <2>2, <2>3
<1>6. ASSUME NEW d \in Dir, Examined(d)
      PROVE  Examined(d)'
  BY <1>0, <1>1, <1>4, <1>5, <1>6 DEF Examined, InHand, Left
<1> QED
  BY <1>2, <1>4, <1>6, CoveredKept

LEMMA CoveredInit == Init => Covered
<1> SUFFICES ASSUME Init PROVE Covered
  OBVIOUS
<1>1. \A d \in RootSet : Seen(d)
  BY DEF Init, Seen, Queued, RootSet
<1> QED
  BY <1>1 DEF Init, Covered

\* One step keeps the search covered.
LEMMA CoveredStep ==
    ASSUME TypeOK, Covered, [Next]_vars
    PROVE  Covered'
<1> USE DEF resultVars, controlVars, scanVars
<1>1. CASE TakeFolder
  BY <1>1, CoveredTake
<1>2. CASE ExamineEntry
  BY <1>2, CoveredExamine
<1>3. CASE StopWhenCancelled
  BY <1>3 DEF StopWhenCancelled, Covered
<1>4. CASE OpenFails \/ ListingBreaksOff
  <2>1. Counted'
    BY <1>4 DEF OpenFails, ListingBreaksOff, CountError, Counted, TypeOK, ResultTypeOK
  <2>2. UNCHANGED <<pending, visitedDirectories, status>>
    BY <1>4 DEF OpenFails, ListingBreaksOff
  <2> QED
    BY <2>1, <2>2, Unmoved, CoveredKept DEF Seen
<1>5. ASSUME Finish \/ PassGate \/ WakeUp \/ OpenFolder \/ BeginListing \/ ListFolder
                \/ EndFolder \/ BeginEntry \/ UserStep \/ Block \/ UNCHANGED vars
      PROVE  Covered'
  \* the queue and the visited sets stay as they are, and an entry stops being
  \* left only when its folder could not be listed or when none are left
  <2>1. /\ UNCHANGED <<pending, visitedDirectories, visitedFiles, current,
                       accessDeniedCount, errors>>
        /\ status = "cancelled" => status' = "cancelled"
    BY <1>5 DEF Finish, PassGate, WakeUp, LeaveGate, AtGate,
                OpenFolder, BeginListing, ListFolder, EndFolder,
                BeginEntry, UserStep, RequestPause, Resume, Cancel, Block, vars,
                TypeOK, ResultTypeOK
  <2>2. \A d, c : Seen(d) = Seen(d)' /\ Handled(d, c) = Handled(d, c)'
    BY <2>1, Unmoved DEF Seen, Handled
  <2>3. current \in Denied \/
        \A c \in Contents[current] : InHand /\ c \in Left => InHand' /\ c \in Left'
    BY <1>5 DEF Finish, PassGate, WakeUp, LeaveGate, AtGate,
                OpenFolder, BeginListing, ListFolder, EndFolder,
                BeginEntry, UserStep, RequestPause, Resume, Cancel, Block, vars, InHand, Left
  <2>4. ASSUME NEW d \in Dir, Examined(d)
        PROVE  Examined(d)'
    BY <2>1, <2>2, <2>3, <2>4 DEF Examined
  <2>5. Counted' = Counted
    BY <2>1 DEF Counted
  <2> QED
    BY <2>1, <2>2, <2>4, <2>5, CoveredKept
<1> QED
  BY <1>1, <1>2, <1>3, <1>4, <1>5 DEF Next, ScanStep, Returned

\* When the queue is empty and nothing is in hand, every file the search is
\* meant to find was found, unless a gap was counted.
LEMMA NothingMissed ==
    ASSUME TypeOK, Sound, Covered, Finish, ~Counted
    PROVE  \A f \in Targets(Denied \cup Flaky) : Identity[f] \in visitedFiles
<1> DEFINE Skip == Denied \cup Flaky
           V    == {d \in Dir : Identity[d] \in visitedDirectories \/ d \in Skip}
<1>1. Queued = {} /\ ~InHand /\ status = "running"
  BY DEF Finish, Queued, InHand, TypeOK, ResultTypeOK
<1>2. /\ \A d \in RootSet : Identity[d] \in visitedDirectories
      /\ \A id \in visitedDirectories : \E d \in Dir : Identity[d] = id /\ Examined(d)
  BY <1>1 DEF Covered, Seen
<1>3. ASSUME NEW d \in V \ Skip
      PROVE  \E e \in Dir : /\ Identity[e] = Identity[d]
                            /\ \A c \in Contents[e] \ Flaky : Handled(e, c)
  <2>1. PICK e \in Dir : Identity[e] = Identity[d] /\ Examined(e)
    BY <1>2
  <2>2. e \notin Denied
    BY <2>1, AliasAssumption
  <2> QED
    BY <1>1, <2>1, <2>2 DEF Examined
<1>4. ClosedUnder(V, Skip)
  <2>1. RootSet \subseteq V
    BY <1>2, TreeAssumption DEF RootSet
  <2>2. ASSUME NEW d \in V \ Skip, NEW c \in Subfolders(d)
        PROVE  c \in V
    <3>1. PICK e \in Dir : /\ Identity[e] = Identity[d]
                           /\ \A b \in Contents[e] \ Flaky : Handled(e, b)
      BY <1>3
    <3>2. PICK b \in Subfolders(e) : Identity[b] = Identity[c]
      BY <3>1, AliasAssumption
    <3>3. b \in Dir /\ c \in Dir /\ b \in Contents[e]
      BY ChildTypes, <3>2 DEF Subfolders
    <3>4. CASE b \in Flaky
      BY <3>2, <3>3, <3>4, AliasAssumption
    <3>5. CASE b \notin Flaky
      BY <1>1, <3>1, <3>2, <3>3, <3>5 DEF Handled, Seen
    <3> QED
      BY <3>4, <3>5
  <2> QED
    BY <2>1, <2>2 DEF ClosedUnder
<1>5. SUFFICES ASSUME NEW d \in Reachable(Skip) \ Skip, NEW f \in Matches(d) \ Skip
               PROVE  Identity[f] \in visitedFiles
  BY DEF Targets
<1>6. d \in V \ Skip
  <2>1. V \in SUBSET Dir
    OBVIOUS
  <2> QED
    BY <1>4, <2>1 DEF Reachable
<1>7. PICK e \in Dir : /\ Identity[e] = Identity[d]
                       /\ \A b \in Contents[e] \ Flaky : Handled(e, b)
  BY <1>3, <1>6
<1>8. PICK g \in Matches(e) \ Flaky : Identity[g] = Identity[f]
  BY <1>6, <1>7, AliasAssumption
<1> QED
  BY <1>7, <1>8 DEF Handled, Matches

-----------------------------------------------------------------------------
(* The refinement. *)

\* The steps of search_files, as TreeSearch sees them.
LEMMA SearchStep ==
    ASSUME TypeOK, Sound, Covered, [Next]_vars
    PROVE  Search!SearchNext \/ UNCHANGED Search!searchVars
<1> USE DEF resultVars, controlVars, scanVars
<1>0. candidates' = candidates /\ accessDeniedCount' = accessDeniedCount /\ errors' = errors
         => ReportedPaths' = ReportedPaths /\ Counted' = Counted
  BY DEF ReportedPaths, Counted
<1>1. CASE Finish
  <2>1. Counted \/ \A f \in Targets(Denied \cup Flaky) : Identity[f] \in Search!Reported
    BY <1>1, NothingMissed DEF Sound, Search!Reported
  <2>2. /\ status = "running" /\ status' = "completed"
        /\ UNCHANGED <<candidates, accessDeniedCount, errors>>
    BY <1>1 DEF Finish, TypeOK, ResultTypeOK
  <2>3. Search!Complete
    BY <1>0, <2>1, <2>2 DEF Search!Complete, Due
  <2> QED
    BY <2>3 DEF Search!SearchNext
<1>2. CASE StopWhenCancelled
  <2>1. Search!Abandon
    BY <1>0, <1>2 DEF StopWhenCancelled, Search!Abandon, TypeOK, ResultTypeOK
  <2> QED
    BY <2>1 DEF Search!SearchNext
<1>3. CASE OpenFails \/ ListingBreaksOff
  <2>1. Counted'
    BY <1>3 DEF OpenFails, ListingBreaksOff, CountError, Counted, TypeOK, ResultTypeOK
  <2>2. status = "running" /\ UNCHANGED <<candidates, status>>
    BY <1>3 DEF OpenFails, ListingBreaksOff, TypeOK, ResultTypeOK
  <2>3. Search!CountGap
    BY <2>1, <2>2, Unmoved DEF Search!CountGap, Counted
  <2> QED
    BY <2>3 DEF Search!SearchNext
<1>4. CASE ExamineEntry
  <2>1. /\ current \in Dir /\ current \in Reachable({})
        /\ status = "running" /\ status' = status
        /\ UNCHANGED <<accessDeniedCount, errors>>
    BY <1>4 DEF ExamineEntry, TypeOK, ScanTypeOK, ResultTypeOK, Sound
  <2>2. PICK p \in remaining : EnqueueFolder(p) \/ AddCandidate(p) \/ PassOver(p)
    BY <1>4 DEF ExamineEntry
  <2>3. CASE EnqueueFolder(p) \/ PassOver(p)
    BY <1>0, <2>1, <2>3 DEF EnqueueFolder, PassOver, Search!searchVars
  <2>4. CASE AddCandidate(p)
    <3>1. p \in Targets({}) /\ p \in File
      BY <2>1, <2>4, MatchesAreTargets, ChildTypes DEF AddCandidate
    <3>2. Identity[p] \notin Search!Reported
      BY <2>4 DEF AddCandidate, Sound, Search!Reported
    <3>3. ReportedPaths' = Append(ReportedPaths, p)
      BY <2>4, <3>1, ReportGrows
    <3>4. Counted' = Counted
      BY <2>1 DEF Counted
    <3>5. Search!Report
      BY <2>1, <3>1, <3>2, <3>3, <3>4 DEF Search!Report, Findable
    <3> QED
      BY <3>5 DEF Search!SearchNext
  <2> QED
    BY <2>2, <2>3, <2>4
<1>5. CASE PassGate \/ WakeUp \/ TakeFolder \/ OpenFolder \/ BeginListing \/ ListFolder
              \/ EndFolder \/ BeginEntry
  BY <1>0, <1>5 DEF PassGate, WakeUp, LeaveGate, AtGate,
                    TakeFolder, OpenFolder, BeginListing, ListFolder,
                    EndFolder, BeginEntry, Search!searchVars
<1>6. CASE UserStep \/ Block \/ UNCHANGED vars
  BY <1>0, <1>6 DEF UserStep, RequestPause, Resume, Cancel, Block, vars, Search!searchVars
<1> QED
  BY <1>1, <1>2, <1>3, <1>4, <1>5, <1>6 DEF Next, ScanStep, Returned

\* On every file system and for every plan, search_files is a TreeSearch: it
\* reports reachable files only, each identity once, and completes without a
\* counted gap only when it missed nothing but folders that Windows refuses to
\* list and entries that were gone (src/search.cpp:109-189).
THEOREM SearchImplemented == Spec => ImplementsTreeSearch
<1>1. Init => Search!SearchInit
  BY DEF Init, Search!SearchInit, ReportedPaths, Counted
<1>2. TypeOK /\ Sound /\ Covered /\ [Next]_vars => Sound' /\ Covered'
  BY SoundStep, CoveredStep
<1>3. TypeOK /\ Sound /\ Covered /\ [Next]_vars => [Search!SearchNext]_(Search!searchVars)
  BY SearchStep
<1> QED
  BY <1>1, <1>2, <1>3, SoundInit, CoveredInit, TypeCorrect, PTL
  DEF Spec, ImplementsTreeSearch, Search!SearchSpec

-----------------------------------------------------------------------------
(* Termination, as far as it is a matter of safety: a number that no step    *)
(* of the user changes and every step of the scan makes smaller.  A folder   *)
(* not yet visited stands for all that its listing can hold; once it is open *)
(* the entries left stand for themselves, and a queued folder for the turn   *)
(* that finds it visited.                                                    *)

\* The folders of the disk, each once.
DirIdentities == {Identity[d] : d \in Dir}

\* The entries that a folder may still ask the inner loop to examine.
EntriesLeft ==
    IF pc \in {"open", "opened", "list"} THEN Cardinality(Path)
    ELSE IF pc \in {"entry", "entryCheck", "examine"} THEN Cardinality(remaining)
    ELSE 0

\* The steps from here to the end of the turn of a loop, the outer or the inner.
TurnLeft ==
    CASE pc = "head" -> 2 [] pc = "headCheck" -> 1
      [] pc = "open" -> 6 [] pc = "opened" -> 5 [] pc = "list" -> 4
      [] pc = "entry" -> 3 [] pc = "entryCheck" -> 2 [] pc = "examine" -> 1
      [] OTHER -> 0

\* The cost of a folder that has not been visited.
FolderCost == 5 * Cardinality(Path) + 4

\* No more steps than these are left to the scan.
StepsLeft == FolderCost * Cardinality(DirIdentities \ visitedDirectories)
             + 2 * Len(pending) + 5 * EntriesLeft + TurnLeft

\* A finite disk has finitely many folders.
LEMMA FiniteDisk ==
    ASSUME IsFiniteSet(Path)
    PROVE  IsFiniteSet(DirIdentities) /\ Cardinality(Path) \in Nat
<1>1. IsFiniteSet(Dir)
  BY FS_Subset DEF Path
<1> DEFINE f == [d \in Dir |-> Identity[d]]
<1>2. f \in Surjection(Dir, DirIdentities)
  BY Zenon DEF DirIdentities, Surjection
<1>3. IsFiniteSet(DirIdentities)
  BY <1>1, <1>2, FS_Surjection
<1> QED
  BY <1>3, FS_CardinalityType

\* The parts of StepsLeft are numbers, and a listing is no longer than the disk.
LEMMA PartsTyped ==
    ASSUME IsFiniteSet(Path), TypeOK
    PROVE  /\ FolderCost \in Nat
           /\ Cardinality(DirIdentities \ visitedDirectories) \in Nat
           /\ FolderCost * Cardinality(DirIdentities \ visitedDirectories) \in Nat
           /\ Len(pending) \in Nat
           /\ IsFiniteSet(remaining) /\ Cardinality(remaining) \in 0..Cardinality(Path)
           /\ EntriesLeft \in 0..Cardinality(Path)
           /\ TurnLeft \in 0..6
<1>1. FolderCost \in Nat
  BY FiniteDisk DEF FolderCost
<1>2. Cardinality(DirIdentities \ visitedDirectories) \in Nat
  BY FiniteDisk, FS_Difference, FS_CardinalityType
<1>3. \A m, n \in Nat : m * n \in Nat
  OBVIOUS
<1>4. IsFiniteSet(remaining) /\ Cardinality(remaining) \in 0..Cardinality(Path)
  BY FiniteDisk, FS_Subset, FS_CardinalityType DEF TypeOK, ScanTypeOK
<1>5. EntriesLeft \in 0..Cardinality(Path)
  BY <1>4, FiniteDisk DEF EntriesLeft
<1>6. Len(pending) \in Nat /\ TurnLeft \in 0..6
  BY DEF TypeOK, ScanTypeOK, Pcs, TurnLeft
<1> QED
  BY <1>1, <1>2, <1>3, <1>4, <1>5, <1>6

\* A folder visited for the first time is one fewer to visit.
LEMMA OneFolderFewer ==
    ASSUME IsFiniteSet(Path), TypeOK, NEW d \in Dir, Identity[d] \notin visitedDirectories
    PROVE  LET left == Cardinality(DirIdentities \ visitedDirectories)
           IN FolderCost * Cardinality(DirIdentities \ (visitedDirectories \cup {Identity[d]}))
                 = FolderCost * left - FolderCost
<1> DEFINE Unvisited == DirIdentities \ visitedDirectories
<1>1. IsFiniteSet(Unvisited) /\ Identity[d] \in Unvisited
  BY FiniteDisk, FS_Difference DEF DirIdentities
<1>2. DirIdentities \ (visitedDirectories \cup {Identity[d]}) = Unvisited \ {Identity[d]}
  OBVIOUS
<1>3. Cardinality(Unvisited \ {Identity[d]}) = Cardinality(Unvisited) - 1
  BY <1>1, FS_RemoveElement
<1>4. \A m, n \in Nat : m * (n - 1) = m * n - m
  OBVIOUS
<1> HIDE DEF Unvisited
<1>5. FolderCost \in Nat /\ Cardinality(Unvisited) \in Nat
  BY PartsTyped DEF Unvisited
<1>6. FolderCost * (Cardinality(Unvisited) - 1) = FolderCost * Cardinality(Unvisited) - FolderCost
  BY <1>4, <1>5
<1> QED
  BY <1>2, <1>3, <1>6 DEF Unvisited

\* Of two sums that differ in their last parts.
LEMMA Downhill ==
    \A f, n, d, e, t, u \in Nat :
        d <= e /\ t < u => f + 2 * n + 5 * d + t < f + 2 * n + 5 * e + u
OBVIOUS

\* Each step of the scan makes StepsLeft smaller.
LEMMA ScanStepsDown ==
    ASSUME IsFiniteSet(Path), TypeOK, TypeOK', ScanStep \/ WakeUp
    PROVE  StepsLeft' < StepsLeft
<1> DEFINE Folders == FolderCost * Cardinality(DirIdentities \ visitedDirectories)
<1>0. /\ Folders \in Nat /\ Len(pending) \in Nat /\ FolderCost \in Nat
      /\ IsFiniteSet(remaining) /\ Cardinality(remaining) \in 0..Cardinality(Path)
      /\ EntriesLeft \in 0..Cardinality(Path)
      /\ Len(pending') \in Nat /\ Cardinality(Path) \in Nat
      /\ IsFiniteSet(remaining') /\ Cardinality(remaining') \in 0..Cardinality(Path)
  <2>1. IsFiniteSet(remaining') /\ Cardinality(remaining') \in 0..Cardinality(Path)
    BY FiniteDisk, FS_Subset, FS_CardinalityType DEF TypeOK, ScanTypeOK
  <2>2. Len(pending') \in Nat
    BY DEF TypeOK, ScanTypeOK
  <2> QED
    BY <2>1, <2>2, PartsTyped, FiniteDisk
<1>1. StepsLeft = Folders + 2 * Len(pending) + 5 * EntriesLeft + TurnLeft
  BY DEF StepsLeft
<1>2. visitedDirectories' = visitedDirectories => Folders' = Folders
  OBVIOUS
<1>3. StepsLeft' = Folders' + 2 * Len(pending') + 5 * EntriesLeft' + TurnLeft'
  BY DEF StepsLeft, TurnLeft
<1>4. EntriesLeft' \in Nat /\ TurnLeft \in Nat /\ TurnLeft' \in Nat /\ EntriesLeft \in Nat
  BY <1>0 DEF EntriesLeft, TurnLeft
<1> HIDE DEF Folders
<1>5. CASE Finish \/ PassGate \/ WakeUp \/ StopWhenCancelled \/ OpenFolder \/ OpenFails
           \/ BeginListing \/ EndFolder \/ BeginEntry
  <2>1. /\ visitedDirectories' = visitedDirectories /\ pending' = pending
        /\ remaining' = remaining
    BY <1>5 DEF Finish, PassGate, WakeUp, LeaveGate, AtGate,
                StopWhenCancelled, OpenFolder, OpenFails,
                BeginListing, EndFolder, BeginEntry
  <2>2. \/ pc \in {"head", "headCheck", "opened", "entryCheck"} /\ pc' = "done"
        \/ pc = "head" /\ pc' = "headCheck"
        \/ pc = "entry" /\ pc' \in {"entryCheck", "head"}
        \/ pc = "open" /\ pc' \in {"opened", "head"}
        \/ pc = "opened" /\ pc' = "list"
        \/ pc = "entryCheck" /\ pc' = "examine"
    BY <1>5 DEF Finish, PassGate, WakeUp, LeaveGate, AtGate,
                StopWhenCancelled, OpenFolder, OpenFails,
                BeginListing, EndFolder, BeginEntry
  <2>3. TurnLeft' < TurnLeft
    BY <2>2 DEF TurnLeft
  <2>4. EntriesLeft' <= EntriesLeft
    BY <1>0, <2>1, <2>2 DEF EntriesLeft
  <2>5. StepsLeft' = Folders + 2 * Len(pending) + 5 * EntriesLeft' + TurnLeft'
    BY <1>2, <1>3, <2>1
  <2> QED
    BY <1>0, <1>1, <1>4, <2>3, <2>4, <2>5, Downhill, Zenon
<1>6. CASE TakeFolder
  <2>1. /\ pending # <<>> /\ Len(pending') = Len(pending) - 1 /\ pc = "headCheck"
        /\ Head(pending) \in Dir
    BY <1>6, QueueTypes DEF TakeFolder, TypeOK, ScanTypeOK
  <2>2. EntriesLeft = 0 /\ TurnLeft = 1
    BY <2>1 DEF EntriesLeft, TurnLeft
  <2>3. CASE Identity[Head(pending)] \in visitedDirectories
    <3>1. pc' = "head" /\ visitedDirectories' = visitedDirectories
      BY <1>6, <2>3 DEF TakeFolder
    <3>2. EntriesLeft' = 0 /\ TurnLeft' = 2
      BY <3>1 DEF EntriesLeft, TurnLeft
    <3> QED
      BY <1>0, <1>1, <1>2, <1>3, <2>1, <2>2, <3>1, <3>2
  <2>4. CASE Identity[Head(pending)] \notin visitedDirectories
    <3>1. pc' = "open" /\ visitedDirectories' = visitedDirectories \cup {Identity[Head(pending)]}
      BY <1>6, <2>4 DEF TakeFolder
    <3>2. Folders' = Folders - FolderCost
      BY <2>1, <2>4, <3>1, OneFolderFewer DEF Folders
    <3>3. EntriesLeft' = Cardinality(Path) /\ TurnLeft' = 6
      BY <3>1 DEF EntriesLeft, TurnLeft
    <3>4. FolderCost = 5 * Cardinality(Path) + 4
      BY DEF FolderCost
    <3>5. StepsLeft' = (Folders - (5 * Cardinality(Path) + 4)) + 2 * (Len(pending) - 1)
                       + 5 * Cardinality(Path) + 6
      BY <1>3, <2>1, <3>2, <3>3, <3>4, Zenon
    <3>6. StepsLeft = Folders + 2 * Len(pending) + 5 * 0 + 1
      BY <1>1, <2>2, Zenon
    <3>7. \A f, n, c \in Nat : (f - (5 * c + 4)) + 2 * (n - 1) + 5 * c + 6 < f + 2 * n + 5 * 0 + 1
      OBVIOUS
    <3>8. Folders \in Nat /\ Len(pending) \in Nat /\ Cardinality(Path) \in Nat
      BY <1>0
    <3> QED
      BY <3>5, <3>6, <3>7, <3>8, Zenon
  <2> QED
    BY <2>3, <2>4
<1>7. CASE ListFolder \/ ListingBreaksOff
  <2>1. /\ pc = "list" /\ pc' = "entry"
        /\ pending' = pending /\ visitedDirectories' = visitedDirectories
    BY <1>7 DEF ListFolder, ListingBreaksOff
  <2>2. EntriesLeft' <= EntriesLeft
    BY <1>0, <2>1 DEF EntriesLeft
  <2>3. TurnLeft' < TurnLeft
    BY <2>1 DEF TurnLeft
  <2>4. StepsLeft' = Folders + 2 * Len(pending) + 5 * EntriesLeft' + TurnLeft'
    BY <1>2, <1>3, <2>1
  <2> QED
    BY <1>0, <1>1, <1>4, <2>2, <2>3, <2>4, Downhill, Zenon
<1>8. CASE ExamineEntry
  <2>1. PICK p \in remaining : /\ remaining' = remaining \ {p}
                               /\ EnqueueFolder(p) \/ AddCandidate(p) \/ PassOver(p)
    BY <1>8 DEF ExamineEntry
  <2>2. Cardinality(remaining') = Cardinality(remaining) - 1
    BY <1>0, <2>1, FS_RemoveElement
  <2>3. Len(pending') <= Len(pending) + 1
    BY <2>1, <1>0 DEF EnqueueFolder, AddCandidate, PassOver, TypeOK, ScanTypeOK
  <2>4. pc = "examine" /\ pc' = "entry" /\ visitedDirectories' = visitedDirectories
    BY <1>8 DEF ExamineEntry
  <2>5. EntriesLeft' = EntriesLeft - 1
    BY <2>2, <2>4 DEF EntriesLeft
  <2>6. TurnLeft' = 3 /\ TurnLeft = 1
    BY <2>4 DEF TurnLeft
  <2> QED
    BY <1>0, <1>1, <1>2, <1>3, <1>4, <2>3, <2>4, <2>5, <2>6
<1> QED
  BY <1>5, <1>6, <1>7, <1>8 DEF ScanStep

\* On a finite disk the scan has finitely many steps to take, whatever cycles
\* of junctions and hard links it has, whatever fails, and however often the
\* user pauses it: the first bound is fixed by the disk and the plan, and only
\* a sleep in wait_if_paused that nothing ends can keep search_files from
\* returning.  A scan that a cancellation finds awake never sleeps again
\* (src/search.cpp:109-189).
THEOREM ScanRunsOut ==
    ASSUME IsFiniteSet(Path)
    PROVE  Spec => /\ StepsLeft = FolderCost * Cardinality(DirIdentities) + 2 * Len(Roots) + 2
                   /\ [](StepsLeft \in Nat)
                   /\ [][/\ ScanStep \/ WakeUp => StepsLeft' < StepsLeft
                         /\ UserStep \/ Block => StepsLeft' = StepsLeft
                         /\ cancelled /\ ~blocked => cancelled' /\ ~blocked']_vars
<1>1. Init => StepsLeft = FolderCost * Cardinality(DirIdentities) + 2 * Len(Roots) + 2
  <2> SUFFICES ASSUME Init
               PROVE  StepsLeft = FolderCost * Cardinality(DirIdentities) + 2 * Len(Roots) + 2
    OBVIOUS
  <2>1. DirIdentities \ visitedDirectories = DirIdentities
    BY DEF Init
  <2>2. FolderCost * Cardinality(DirIdentities) \in Nat /\ Len(pending) \in Nat
    BY <2>1, PartsTyped, TypeInit
  <2> QED
    BY <2>1, <2>2 DEF Init, StepsLeft, EntriesLeft, TurnLeft
<1>2. TypeOK => StepsLeft \in Nat
  <2> SUFFICES ASSUME TypeOK PROVE StepsLeft \in Nat
    OBVIOUS
  <2>1. EntriesLeft \in Nat /\ TurnLeft \in Nat
    <3>1. EntriesLeft \in 0..Cardinality(Path) /\ TurnLeft \in 0..6 /\ Cardinality(Path) \in Nat
      BY PartsTyped, FiniteDisk
    <3> QED
      BY <3>1
  <2>2. /\ FolderCost * Cardinality(DirIdentities \ visitedDirectories) \in Nat
        /\ Len(pending) \in Nat
    BY PartsTyped
  <2> QED
    BY <2>1, <2>2 DEF StepsLeft
<1>3. TypeOK /\ TypeOK' /\ [Next]_vars
         => [/\ ScanStep \/ WakeUp => StepsLeft' < StepsLeft
             /\ UserStep \/ Block => StepsLeft' = StepsLeft
             /\ cancelled /\ ~blocked => cancelled' /\ ~blocked']_vars
  <2>1. ASSUME UserStep \/ Block PROVE StepsLeft' = StepsLeft
    BY <2>1 DEF UserStep, RequestPause, Resume, Cancel, Block,
                scanVars, StepsLeft, EntriesLeft, TurnLeft
  <2>2. ASSUME cancelled, ~blocked, Next
        PROVE  cancelled' /\ ~blocked'
    <3>1. CASE UserStep
      <4>1. blocked' = blocked /\ (cancelled' = cancelled \/ cancelled' = TRUE)
        BY <3>1 DEF UserStep, RequestPause, Resume, Cancel
      <4> QED
        BY <2>2, <4>1, Zenon
    <3>2. CASE Block \/ WakeUp
      \* the gate is open and the scan is awake
      BY <2>2, <3>2, Zenon DEF Block, WakeUp, GateOpen
    <3>3. CASE Returned
      BY <2>2, <3>3, Zenon DEF Returned, vars, controlVars
    <3>4. CASE ScanStep
      <4>1. CASE PassGate
        BY <2>2, <4>1 DEF PassGate, LeaveGate
      <4>2. CASE ScanStep /\ ~PassGate
        <5>1. UNCHANGED controlVars
          BY <4>2 DEF ScanStep, Finish, StopWhenCancelled, TakeFolder, OpenFolder, OpenFails,
                      BeginListing, ListFolder, ListingBreaksOff, EndFolder, BeginEntry,
                      ExamineEntry
        <5> QED
          BY <2>2, <5>1 DEF controlVars
      <4> QED
        BY <3>4, <4>1, <4>2
    <3> QED
      BY <2>2, <3>1, <3>2, <3>3, <3>4 DEF Next
  <2> QED
    BY <2>1, <2>2, ScanStepsDown
<1> QED
  BY <1>1, <1>2, <1>3, TypeCorrect, PTL DEF Spec

-----------------------------------------------------------------------------
(* No folder twice.                                                          *)

\* The folders opened are all different ones, under whatever paths.
OpenedOnce ==
    \A i, j \in DOMAIN opened : Identity[opened[i]] = Identity[opened[j]] => i = j

\* What was opened is marked as visited, and so is the folder that is about to
\* be opened, which was not opened before.
Marked ==
    /\ \A i \in DOMAIN opened : Identity[opened[i]] \in visitedDirectories
    /\ pc = "open" => /\ Identity[current] \in visitedDirectories
                      /\ \A i \in DOMAIN opened : Identity[opened[i]] # Identity[current]

\* However many roots, junctions and paths lead to a folder, it is opened at
\* most once (src/search.cpp:118-128), so that its listing is never searched
\* twice.
THEOREM EachFolderOnce == Spec => []OpenedOnce
<1>1. Init => OpenedOnce /\ Marked
  BY DEF Init, OpenedOnce, Marked
<1>2. TypeOK /\ OpenedOnce /\ Marked /\ [Next]_vars => OpenedOnce' /\ Marked'
  <2> SUFFICES ASSUME TypeOK, OpenedOnce, Marked, [Next]_vars
               PROVE  OpenedOnce' /\ Marked'
    OBVIOUS
  <2>1. CASE OpenFolder
    <3>1. /\ opened' = Append(opened, current) /\ pc = "open" /\ pc' = "opened"
          /\ visitedDirectories' = visitedDirectories
      BY <2>1 DEF OpenFolder
    <3>2. PICK n \in Nat : DOMAIN opened = 1..n /\ Len(opened) = n
      BY DEF TypeOK, ResultTypeOK
    <3>3. /\ DOMAIN opened' = 1..(n + 1) /\ opened'[n + 1] = current
          /\ \A i \in 1..n : opened'[i] = opened[i]
      BY <3>1, <3>2 DEF TypeOK, ResultTypeOK
    <3>4. \A i \in 1..(n + 1) : i \in 1..n \/ i = n + 1
      BY <3>2
    <3> QED
      BY <3>1, <3>2, <3>3, <3>4 DEF OpenedOnce, Marked
  <2>2. CASE TakeFolder
    <3>1. opened' = opened /\ visitedDirectories \subseteq visitedDirectories'
      BY <2>2 DEF TakeFolder, resultVars
    <3>2. pc' = "open" => /\ Identity[current'] \in visitedDirectories'
                          /\ Identity[current'] \notin visitedDirectories
      BY <2>2 DEF TakeFolder
    <3> QED
      BY <3>1, <3>2 DEF OpenedOnce, Marked
  <2>3. CASE \/ Finish \/ PassGate \/ WakeUp \/ StopWhenCancelled \/ OpenFails \/ BeginListing
             \/ ListFolder \/ ListingBreaksOff \/ EndFolder \/ BeginEntry \/ ExamineEntry
    <3>1. opened' = opened /\ visitedDirectories' = visitedDirectories /\ pc' # "open"
      BY <2>3 DEF Finish, PassGate, WakeUp, LeaveGate, AtGate,
                  StopWhenCancelled, OpenFails, BeginListing, ListFolder,
                  ListingBreaksOff, EndFolder, BeginEntry, ExamineEntry, resultVars
    <3> QED
      BY <3>1 DEF OpenedOnce, Marked
  <2>4. CASE UserStep \/ Block \/ UNCHANGED vars
    BY <2>4 DEF UserStep, RequestPause, Resume, Cancel, Block, vars, scanVars, resultVars,
                OpenedOnce, Marked
  <2> QED
    BY <2>1, <2>2, <2>3, <2>4 DEF Next, ScanStep, Returned
<1> QED
  BY <1>1, <1>2, TypeCorrect, PTL DEF Spec

=============================================================================

------------------------ MODULE SearchControlProofs ------------------------
(* Proofs about SearchControl, for every set of waiters and of callers. *)
EXTENDS SearchControl, TLAPS

-----------------------------------------------------------------------------
(* The inductive invariant.  TypeOK alone is inductive; MutexDiscipline is   *)
(* inductive relative to it, because NoThread is not a waiter.               *)

\* The members of SearchControl keep their types whatever the threads that
\* share it do (src/search.cpp:45-63).
THEOREM TypeCorrect == Spec => []TypeOK
<1>1. Init => TypeOK
  BY DEF Init, TypeOK, WaiterPcs, CallerPcs
<1>2. TypeOK /\ [Next]_vars => TypeOK'
  <2> SUFFICES ASSUME TypeOK, [Next]_vars
               PROVE  TypeOK'
    OBVIOUS
  <2> USE DEF TypeOK, WaiterPcs, CallerPcs
  <2>1. ASSUME NEW c \in Callers, CallerStep(c)
        PROVE  TypeOK'
    BY <2>1 DEF CallerStep, RequestPause, ResumeStore, CancelStore, NotifyAll
  <2>2. ASSUME NEW w \in Waiters, Enter(w) \/ SpuriousWakeup(w)
        PROVE  TypeOK'
    BY <2>2 DEF Enter, SpuriousWakeup, Goto
  <2>3. ASSUME NEW w \in Waiters, WaiterStep(w)
        PROVE  TypeOK'
    BY <2>3 DEF WaiterStep, Lock, ReadPaused, ReadCancelled, Park, Leave, Goto
  <2>4. CASE UNCHANGED vars
    BY <2>4 DEF vars
  <2> QED
    BY <2>1, <2>2, <2>3, <2>4 DEF Next
<1> QED
  BY <1>1, <1>2, PTL DEF Spec

\* A step of one waiter leaves the program counters of the others alone.
LEMMA GotoOnlyMoves ==
    ASSUME TypeOK, NEW w \in Waiters, NEW pc, Goto(w, pc)
    PROVE  /\ waiterPc'[w] = pc
           /\ \A v \in Waiters : v # w => waiterPc'[v] = waiterPc[v]
BY DEF TypeOK, Goto

\* One step of the threads keeps the mutex with the thread inside it.
LEMMA MutexStep ==
    ASSUME TypeOK, MutexDiscipline, [Next]_vars
    PROVE  MutexDiscipline'
<1> USE NoThreadAssumption DEF MutexDiscipline, HoldsMutex
<1>1. ASSUME NEW c \in Callers, RequestPause(c) \/ ResumeStore(c) \/ CancelStore(c)
      PROVE  MutexDiscipline'
  BY <1>1 DEF RequestPause, ResumeStore, CancelStore
<1>2. ASSUME NEW c \in Callers, NotifyAll(c)
      PROVE  MutexDiscipline'
  BY <1>2 DEF NotifyAll
<1>3. ASSUME NEW w \in Waiters, Enter(w) \/ SpuriousWakeup(w)
      PROVE  MutexDiscipline'
  BY <1>3, GotoOnlyMoves DEF Enter, SpuriousWakeup
<1>4. ASSUME NEW w \in Waiters, Lock(w)
      PROVE  MutexDiscipline'
  \* mutex_ was free, so no other waiter was between its acquisition and release
  BY <1>4, GotoOnlyMoves DEF Lock
<1>5. ASSUME NEW w \in Waiters, ReadPaused(w) \/ ReadCancelled(w)
      PROVE  MutexDiscipline'
  <2>1. CASE ReadPaused(w)
    BY <2>1, GotoOnlyMoves DEF ReadPaused
  <2>2. CASE ReadCancelled(w)
    BY <2>2, GotoOnlyMoves DEF ReadCancelled
  <2> QED
    BY <1>5, <2>1, <2>2
<1>6. ASSUME NEW w \in Waiters, Park(w) \/ Leave(w)
      PROVE  MutexDiscipline'
  BY <1>6, GotoOnlyMoves DEF Park, Leave
<1>7. CASE UNCHANGED vars
  BY <1>7 DEF vars
<1> QED
  BY <1>1, <1>2, <1>3, <1>4, <1>5, <1>6, <1>7 DEF Next, CallerStep, WaiterStep

\* No two threads are between the acquisition and the release of mutex_ in
\* wait_if_paused at once, however many threads search and steer.
THEOREM MutualExclusion == Spec => []MutexDiscipline
<1>1. Init => MutexDiscipline
  BY NoThreadAssumption DEF Init, MutexDiscipline, HoldsMutex
<1>2. TypeOK /\ MutexDiscipline /\ [Next]_vars => MutexDiscipline'
  BY MutexStep
<1> QED
  BY <1>1, <1>2, TypeCorrect, PTL DEF Spec

-----------------------------------------------------------------------------
(* The implementation of the abstract gate. *)

\* The function that Gate substitutes for place.
Places == [w \in Waiters |-> PlaceOf(waiterPc[w])]

\* A step that sends w to pc and moves no other waiter moves only w at the gate.
LEMMA PlacesMove ==
    ASSUME TypeOK, NEW w \in Waiters, NEW pc, Goto(w, pc)
    PROVE  Places' = [Places EXCEPT ![w] = PlaceOf(pc)]
BY GotoOnlyMoves DEF Places

\* A step that leaves waiterPc alone leaves every waiter where it is.
LEMMA PlacesStay == waiterPc' = waiterPc => Places' = Places
BY DEF Places

\* So does one that moves w between two program counters on one side of the gate.
LEMMA PlacesSame ==
    ASSUME TypeOK, NEW w \in Waiters, NEW pc, Goto(w, pc),
           PlaceOf(pc) = PlaceOf(waiterPc[w])
    PROVE  Places' = Places
<1>1. \A v \in Waiters : PlaceOf(waiterPc'[v]) = PlaceOf(waiterPc[v])
  BY GotoOnlyMoves
<1> QED
  BY <1>1 DEF Places

\* wait_if_paused lets a thread through only at an instant at which the search
\* is not paused or is cancelled, for every number of threads: SearchControl
\* implements PauseGate.
THEOREM GateImplemented == Spec => ImplementsGate
<1>1. Init => Gate!GateInit
  BY DEF Init, Gate!GateInit, PlaceOf
<1>2. TypeOK /\ [Next]_vars => [Gate!GateNext]_(Gate!gateVars)
  <2> SUFFICES ASSUME TypeOK, [Next]_vars
               PROVE  Gate!GateNext \/ UNCHANGED Gate!gateVars
    OBVIOUS
  <2>1. ASSUME NEW c \in Callers, RequestPause(c) \/ ResumeStore(c) \/ CancelStore(c)
        PROVE  Gate!GateNext
    BY <2>1, PlacesStay
    DEF RequestPause, ResumeStore, CancelStore, Places,
        Gate!GateNext, Gate!RequestPause, Gate!Resume, Gate!Cancel
  <2>2. ASSUME NEW c \in Callers, NotifyAll(c)
        PROVE  UNCHANGED Gate!gateVars
    \* a blocked waiter and one that queues for mutex_ both wait at the gate
    BY <2>2 DEF NotifyAll, Gate!gateVars, PlaceOf
  <2>3. ASSUME NEW w \in Waiters, Enter(w)
        PROVE  Gate!Arrive(w)
    BY <2>3, PlacesMove DEF Enter, Gate!Arrive, Places, PlaceOf
  <2>4. ASSUME NEW w \in Waiters, Lock(w) \/ Park(w) \/ SpuriousWakeup(w)
        PROVE  UNCHANGED Gate!gateVars
    <3>1. Places' = Places
      <4>1. CASE Lock(w)
        BY <4>1, PlacesSame DEF Lock, PlaceOf
      <4>2. CASE Park(w)
        BY <4>2, PlacesSame DEF Park, PlaceOf
      <4>3. CASE SpuriousWakeup(w)
        BY <4>3, PlacesSame DEF SpuriousWakeup, PlaceOf
      <4> QED
        BY <2>4, <4>1, <4>2, <4>3
    <3> QED
      BY <2>4, <3>1 DEF Lock, Park, SpuriousWakeup, Gate!gateVars, Places
  <2>5. ASSUME NEW w \in Waiters, ReadPaused(w)
        PROVE  Gate!Pass(w) \/ UNCHANGED Gate!gateVars
    <3> USE <2>5 DEF ReadPaused
    <3>1. CASE ~paused
      <4>1. Places' = [Places EXCEPT ![w] = "passed"]
        BY <3>1, PlacesMove DEF PlaceOf
      <4>2. Gate!Pass(w)
        BY <3>1, <4>1 DEF Gate!Pass, Gate!Open, Places, PlaceOf
      <4> QED
        BY <4>2
    <3>2. CASE paused
      <4>1. Places' = Places
        BY <3>2, PlacesSame DEF PlaceOf, TypeOK
      <4> QED
        BY <4>1 DEF Gate!gateVars, Places
    <3> QED
      BY <3>1, <3>2 DEF TypeOK
  <2>6. ASSUME NEW w \in Waiters, ReadCancelled(w)
        PROVE  Gate!Pass(w) \/ UNCHANGED Gate!gateVars
    <3> USE <2>6 DEF ReadCancelled
    <3>1. CASE cancelled
      <4>1. Places' = [Places EXCEPT ![w] = "passed"]
        BY <3>1, PlacesMove DEF PlaceOf
      <4>2. Gate!Pass(w)
        BY <3>1, <4>1 DEF Gate!Pass, Gate!Open, Places, PlaceOf
      <4> QED
        BY <4>2
    <3>2. CASE ~cancelled
      <4>1. Places' = Places
        BY <3>2, PlacesSame DEF PlaceOf, TypeOK
      <4> QED
        BY <4>1 DEF Gate!gateVars, Places
    <3> QED
      BY <3>1, <3>2 DEF TypeOK
  <2>7. ASSUME NEW w \in Waiters, Leave(w)
        PROVE  Gate!Depart(w)
    BY <2>7, PlacesMove DEF Leave, Gate!Depart, Places, PlaceOf
  <2>8. CASE UNCHANGED vars
    BY <2>8 DEF vars, Gate!gateVars
  <2> QED
    BY <2>1, <2>2, <2>3, <2>4, <2>5, <2>6, <2>7, <2>8
    DEF Next, CallerStep, WaiterStep, Gate!GateNext
<1> QED
  BY <1>1, <1>2, TypeCorrect, PTL DEF Spec, ImplementsGate, Gate!GateSpec

-----------------------------------------------------------------------------
(* What a cancellation is good for. *)

\* A cancellation is never taken back, and it lasts: a waiter that is not
\* caught in the wait when the search is cancelled never blocks again, and a
\* notify_all after a cancellation releases every waiter but one that is about
\* to block (src/search.cpp:50-63), for every number of threads.
THEOREM CancellationLasts == Spec => CancelLasts
<1>1. TypeOK /\ [Next]_vars
         => [\A w \in Waiters :
                /\ Released(w) => Released(w)'
                /\ \A c \in Callers :
                      NotifyAll(c) /\ cancelled /\ waiterPc[w] # "parking" => Released(w)']_vars
  <2> SUFFICES ASSUME TypeOK, Next, NEW w \in Waiters
               PROVE  /\ Released(w) => Released(w)'
                      /\ \A c \in Callers :
                            NotifyAll(c) /\ cancelled /\ waiterPc[w] # "parking" => Released(w)'
    OBVIOUS
  <2>1. ASSUME NEW c \in Callers, CallerStep(c)
        PROVE  Released(w) => Released(w)'
    BY <2>1 DEF CallerStep, RequestPause, ResumeStore, CancelStore, NotifyAll, Released
  <2>2. ASSUME NEW v \in Waiters, Enter(v) \/ WaiterStep(v) \/ SpuriousWakeup(v), Released(w)
        PROVE  Released(w)'
    <3>1. cancelled' = cancelled
      BY <2>2 DEF Enter, WaiterStep, SpuriousWakeup, Lock, ReadPaused, ReadCancelled, Park, Leave
    <3>2. CASE v = w
      \* the load of cancelled_ says yes
      BY <2>2, <3>1, <3>2
      DEF Enter, WaiterStep, SpuriousWakeup, Lock, ReadPaused, ReadCancelled, Park, Leave,
          Goto, Released, TypeOK
    <3>3. CASE v # w
      <4>1. PICK pc : Goto(v, pc)
        BY <2>2 DEF Enter, WaiterStep, SpuriousWakeup, Lock, ReadPaused, ReadCancelled, Park, Leave
      <4> QED
        BY <2>2, <3>1, <3>3, <4>1, GotoOnlyMoves DEF Released
    <3> QED
      BY <3>2, <3>3
  <2>3. ASSUME cancelled, waiterPc[w] # "parking", NEW c \in Callers, NotifyAll(c)
        PROVE  Released(w)'
    BY <2>3 DEF NotifyAll, Released, TypeOK
  <2>4. Released(w) => Released(w)'
    BY <2>1, <2>2 DEF Next
  <2> QED
    BY <2>3, <2>4
<1> QED
  BY <1>1, TypeCorrect, PTL DEF Spec, CancelLasts

=============================================================================

--------------------------- MODULE SearchControl ---------------------------
(***************************************************************************)
(* The class certradar::SearchControl (include/certradar/search.hpp and    *)
(* src/search.cpp): two atomic flags, a mutex and a condition variable     *)
(* shared by the threads that search (Waiters) and the threads that steer  *)
(* the search (Callers).                                                   *)
(*                                                                         *)
(* The grain is one access to a shared object per step.  A caller stores   *)
(* its flag and notifies in two steps, WITHOUT taking mutex_.  A waiter    *)
(* takes mutex_, reads paused_ and then cancelled_, and when both say no   *)
(* it releases mutex_ and blocks in one step, as condition_.wait does.     *)
(***************************************************************************)
CONSTANTS Waiters,         \* threads that call wait_if_paused
          Callers,         \* threads that call request_pause, resume, cancel
          NoThread         \* mutex_ is free

ASSUME NoThreadAssumption == NoThread \notin Waiters

VARIABLES paused,          \* paused_, std::atomic<bool>
          cancelled,       \* cancelled_, std::atomic<bool>
          mutex,           \* mutex_: the waiter that holds it, or NoThread
          waiterPc,        \* waiterPc[w]: where w is in wait_if_paused
          callerPc         \* callerPc[c]: "notify" between store and notify_all

vars == <<paused, cancelled, mutex, waiterPc, callerPc>>

WaiterPcs == {"outside",        \* not in wait_if_paused
              "locking",        \* waiting for mutex_
              "readPaused",     \* holds mutex_, about to load paused_
              "readCancelled",  \* holds mutex_, paused_ was true
              "parking",        \* holds mutex_, the predicate was false
              "parked",         \* blocked in condition_
              "granted"}        \* holds mutex_, the predicate was true

CallerPcs == {"idle", "notify"}

\* The steps of wait_if_paused that run with mutex_ held.
HoldsMutex(w) == waiterPc[w] \in {"readPaused", "readCancelled", "parking", "granted"}

Init ==
    /\ paused = FALSE
    /\ cancelled = FALSE
    /\ mutex = NoThread
    /\ waiterPc = [w \in Waiters |-> "outside"]
    /\ callerPc = [c \in Callers |-> "idle"]

Goto(w, pc) == waiterPc' = [waiterPc EXCEPT ![w] = pc]

-----------------------------------------------------------------------------
(* The callers. *)

\* request_pause: a store, and no notification.
RequestPause(c) ==
    /\ callerPc[c] = "idle"
    /\ paused' = TRUE
    /\ UNCHANGED <<cancelled, mutex, waiterPc, callerPc>>

\* resume, up to its call of notify_all.
ResumeStore(c) ==
    /\ callerPc[c] = "idle"
    /\ paused' = FALSE
    /\ callerPc' = [callerPc EXCEPT ![c] = "notify"]
    /\ UNCHANGED <<cancelled, mutex, waiterPc>>

\* cancel, up to its call of notify_all.
CancelStore(c) ==
    /\ callerPc[c] = "idle"
    /\ cancelled' = TRUE
    /\ callerPc' = [callerPc EXCEPT ![c] = "notify"]
    /\ UNCHANGED <<paused, mutex, waiterPc>>

\* Mutant of NotifyAll: the flag is stored and nobody is woken.
NotifyNobody(c) ==
    /\ callerPc[c] = "notify"
    /\ callerPc' = [callerPc EXCEPT ![c] = "idle"]
    /\ UNCHANGED <<paused, cancelled, mutex, waiterPc>>

\* condition_.notify_all(): everything that is blocked at this instant wakes
\* and queues for mutex_; a waiter that has not blocked yet is not affected.
NotifyAll(c) ==
    /\ callerPc[c] = "notify"
    /\ callerPc' = [callerPc EXCEPT ![c] = "idle"]
    /\ waiterPc' = [w \in Waiters |->
                      IF waiterPc[w] = "parked" THEN "locking" ELSE waiterPc[w]]
    /\ UNCHANGED <<paused, cancelled, mutex>>

-----------------------------------------------------------------------------
(* The waiters. *)

Enter(w) ==
    /\ waiterPc[w] = "outside"
    /\ Goto(w, "locking")
    /\ UNCHANGED <<paused, cancelled, mutex, callerPc>>

\* std::unique_lock lock(mutex_), or the re-acquisition after a wake-up.
Lock(w) ==
    /\ waiterPc[w] = "locking"
    /\ mutex = NoThread
    /\ mutex' = w
    /\ Goto(w, "readPaused")
    /\ UNCHANGED <<paused, cancelled, callerPc>>

\* !paused_.load()
ReadPaused(w) ==
    /\ waiterPc[w] = "readPaused"
    /\ Goto(w, IF paused THEN "readCancelled" ELSE "granted")
    /\ UNCHANGED <<paused, cancelled, mutex, callerPc>>

\* Mutant of ReadCancelled: only resume lets a waiter go on.
ReadCancelledIgnored(w) ==
    /\ waiterPc[w] = "readCancelled"
    /\ Goto(w, "parking")
    /\ UNCHANGED <<paused, cancelled, mutex, callerPc>>

\* || cancelled_.load()
ReadCancelled(w) ==
    /\ waiterPc[w] = "readCancelled"
    /\ Goto(w, IF cancelled THEN "granted" ELSE "parking")
    /\ UNCHANGED <<paused, cancelled, mutex, callerPc>>

\* condition_.wait releases mutex_ and blocks, atomically.
Park(w) ==
    /\ waiterPc[w] = "parking"
    /\ mutex' = NoThread
    /\ Goto(w, "parked")
    /\ UNCHANGED <<paused, cancelled, callerPc>>

\* Mutant of SpuriousWakeup: any wake-up ends the wait.
SpuriousPass(w) ==
    /\ waiterPc[w] = "parked"
    /\ mutex = NoThread
    /\ mutex' = w
    /\ Goto(w, "granted")
    /\ UNCHANGED <<paused, cancelled, callerPc>>

\* The standard lets a condition variable wake without a notification.
SpuriousWakeup(w) ==
    /\ waiterPc[w] = "parked"
    /\ Goto(w, "locking")
    /\ UNCHANGED <<paused, cancelled, mutex, callerPc>>

\* The lock's destructor and the return of wait_if_paused.
Leave(w) ==
    /\ waiterPc[w] = "granted"
    /\ mutex' = NoThread
    /\ Goto(w, "outside")
    /\ UNCHANGED <<paused, cancelled, callerPc>>

\* What a thread inside wait_if_paused does by itself.
WaiterStep(w) ==
    Lock(w) \/ ReadPaused(w) \/ ReadCancelled(w) \/ Park(w) \/ Leave(w)

CallerStep(c) == RequestPause(c) \/ ResumeStore(c) \/ CancelStore(c) \/ NotifyAll(c)

Next ==
    \/ \E c \in Callers : CallerStep(c)
    \/ \E w \in Waiters : Enter(w) \/ WaiterStep(w) \/ SpuriousWakeup(w)

Spec == Init /\ [][Next]_vars

\* Threads keep running: a call that began finishes its own steps.  Nothing is
\* assumed of new calls or of spurious wake-ups.
Fairness ==
    /\ \A w \in Waiters : WF_vars(WaiterStep(w))
    /\ \A c \in Callers : WF_vars(NotifyAll(c))

FairSpec == Spec /\ Fairness

-----------------------------------------------------------------------------
(* Properties. *)

\* Every variable keeps the type its declaration gives it.
TypeOK ==
    /\ paused \in BOOLEAN
    /\ cancelled \in BOOLEAN
    /\ mutex \in Waiters \cup {NoThread}
    /\ waiterPc \in [Waiters -> WaiterPcs]
    /\ callerPc \in [Callers -> CallerPcs]

\* mutex_ is held exactly by the thread that is between its acquisition and
\* its release in wait_if_paused, through every wait, wake-up and re-check:
\* no two threads evaluate the predicate of wait_if_paused at once.
MutexDiscipline ==
    \A w \in Waiters : HoldsMutex(w) <=> mutex = w

\* A waiter that is not caught in the wait after a cancellation.
Released(w) == cancelled /\ waiterPc[w] \notin {"parking", "parked"}

\* A cancellation is never taken back, and it lasts: a waiter that is not
\* caught in the wait when the search is cancelled never blocks again, whoever
\* pauses the search later, and a notify_all after a cancellation releases
\* every waiter but one that is between its look at the flags and its blocking
\* (src/search.cpp:50-63).  That one is why a user may have to cancel twice.
CancelLasts ==
    [][\A w \in Waiters :
          /\ Released(w) => Released(w)'
          /\ \A c \in Callers :
                NotifyAll(c) /\ cancelled /\ waiterPc[w] # "parking" => Released(w)']_vars

\* Where the gate sees a thread: past it from the load that decided the
\* predicate until wait_if_paused returns.
PlaceOf(pc) ==
    IF pc = "outside" THEN "outside" ELSE IF pc = "granted" THEN "passed" ELSE "waiting"

Gate == INSTANCE PauseGate WITH
            place <- [w \in Waiters |-> PlaceOf(waiterPc[w])]

\* wait_if_paused lets a thread through only at an instant at which the search
\* is not paused or is cancelled, whatever notifications, spurious wake-ups
\* and pauses interleave with its two loads (src/search.cpp:60).
ImplementsGate == Gate!GateSpec

\* A user who keeps cancelling frees every waiter, even one that missed the
\* first notification: the next notify_all finds it blocked.
RepeatedCancelReleases ==
    ([]<>(cancelled /\ \E c \in Callers : callerPc[c] = "notify"))
        => \A w \in Waiters : (waiterPc[w] = "parked") ~> (waiterPc[w] = "outside")

=============================================================================

----------------------------- MODULE PauseGate -----------------------------
(***************************************************************************)
(* What certradar::SearchControl promises to the threads that share it:    *)
(* a gate that callers close (request_pause), open (resume) or open for    *)
(* good (cancel), and that a thread inside wait_if_paused passes only at   *)
(* an instant at which the gate is open.  There is no mutex, no condition  *)
(* variable and no notification here: SearchControl implements this gate   *)
(* with them.                                                              *)
(***************************************************************************)
CONSTANT Waiters           \* threads that call wait_if_paused

VARIABLES paused,          \* paused_
          cancelled,       \* cancelled_
          place            \* place[w]: where w is with respect to the gate

gateVars == <<paused, cancelled, place>>

Open == ~paused \/ cancelled

GateInit ==
    /\ paused = FALSE
    /\ cancelled = FALSE
    /\ place = [w \in Waiters |-> "outside"]

RequestPause == paused' = TRUE /\ UNCHANGED <<cancelled, place>>
Resume       == paused' = FALSE /\ UNCHANGED <<cancelled, place>>
Cancel       == cancelled' = TRUE /\ UNCHANGED <<paused, place>>

\* w calls wait_if_paused.
Arrive(w) ==
    /\ place[w] = "outside"
    /\ place' = [place EXCEPT ![w] = "waiting"]
    /\ UNCHANGED <<paused, cancelled>>

\* w is let through: only while the gate is open.
Pass(w) ==
    /\ place[w] = "waiting"
    /\ Open
    /\ place' = [place EXCEPT ![w] = "passed"]
    /\ UNCHANGED <<paused, cancelled>>

\* wait_if_paused returns to w.
Depart(w) ==
    /\ place[w] = "passed"
    /\ place' = [place EXCEPT ![w] = "outside"]
    /\ UNCHANGED <<paused, cancelled>>

GateNext ==
    \/ RequestPause \/ Resume \/ Cancel
    \/ \E w \in Waiters : Arrive(w) \/ Pass(w) \/ Depart(w)

GateSpec == GateInit /\ [][GateNext]_gateVars

=============================================================================

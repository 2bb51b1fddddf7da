--------------------------- MODULE SmartCardHost ---------------------------
(***************************************************************************)
(* The part of Windows that src/smartcard.cpp and src/actions.cpp look at: *)
(* the service SCardSvr, which others may start and stop at any time, and  *)
(* the readers and cards, which come and go.                               *)
(***************************************************************************)
EXTENDS FiniteSets, Naturals

CONSTANT Reader            \* readers that may be plugged in

ASSUME ReaderAssumption == IsFiniteSet(Reader)

VARIABLES service,         \* dwCurrentState of SCardSvr, or "absent"
          readers,         \* the readers plugged in
          cards            \* those of them that hold a card

hostVars == <<service, readers, cards>>

Moves == {<<"stopped", "start_pending">>, <<"start_pending", "running">>,
          <<"start_pending", "stopped">>, <<"running", "stop_pending">>,
          <<"stop_pending", "stopped">>, <<"running", "paused">>, <<"paused", "running">>}

NativeStates == {"stopped", "start_pending", "running", "stop_pending", "paused", "absent"}

HostInit ==
    /\ service \in {"stopped", "running", "absent"}
    /\ readers \in SUBSET Reader
    /\ cards \in SUBSET readers

ServiceMoves ==
    /\ \E to \in NativeStates : <<service, to>> \in Moves /\ service' = to
    /\ UNCHANGED <<readers, cards>>

Plug(r) ==
    /\ r \notin readers
    /\ readers' = readers \cup {r}
    /\ UNCHANGED <<service, cards>>

\* A reader goes, and the card that it holds goes with it.
Unplug(r) ==
    /\ r \in readers
    /\ readers' = readers \ {r}
    /\ cards' = cards \ {r}
    /\ UNCHANGED service

InsertCard(r) ==
    /\ r \in readers \ cards
    /\ cards' = cards \cup {r}
    /\ UNCHANGED <<service, readers>>

RemoveCard(r) ==
    /\ r \in cards
    /\ cards' = cards \ {r}
    /\ UNCHANGED <<service, readers>>

HostStep ==
    \/ ServiceMoves
    \/ \E r \in Reader : Plug(r) \/ Unplug(r) \/ InsertCard(r) \/ RemoveCard(r)

=============================================================================

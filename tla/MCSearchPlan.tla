--------------------------- MODULE MCSearchPlan ---------------------------
(***************************************************************************)
(* SearchPlan with three drives, one of a kind, and three entries in the   *)
(* folder of the profiles: the current one, another and a junction.        *)
(***************************************************************************)
EXTENDS SearchPlan

MCLetters == <<"B", "C", "E">>
MCKind    == [d \in Range(MCLetters) |-> CASE d = "B" -> "removable"
                                           [] d = "C" -> "fixed" [] d = "E" -> "remote"]
MCCurrent == "Eu"
MCProfile == {"Ana", MCCurrent}
MCBeside  == MCProfile \cup {"All Users"}

\* Picking by places is what SelectSeq does.
ASSUME PickedSelects ==
    \A S \in SUBSET Drive : Ascending(S) = SelectSeq(Letters, LAMBDA d : d \in S)
=============================================================================

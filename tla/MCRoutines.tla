----------------------------- MODULE MCRoutines -----------------------------
(***************************************************************************)
(* The routines that run by themselves, for TLC: the control of a search,  *)
(* the planning of its roots, the two operations on the smart card service *)
(* and the scan of the legacy program.  They share nothing, so a behaviour *)
(* runs one of them: the variables of the others keep one initial value,   *)
(* and the state spaces add up instead of multiplying.                     *)
(***************************************************************************)
EXTENDS MCSearchControl, MCSearchPlan, MCSmartCard, MCLegacyScan

VARIABLE part              \* the routine that runs

Parts == {"control", "plan", "card", "legacy"}

RoutinesInit ==
    /\ part \in Parts
    /\ Init /\ PlanInit /\ CardInit /\ LegacyInit
    \* What is left alone begins in one state.
    /\ part # "plan"   => present = {}
    /\ part # "card"   => service = "absent" /\ readers = {}
    /\ part # "legacy" => offer = CHOOSE o \in Offers : TRUE

\* The legacy program has printed its result and is left.
LegacyEnded == legacyPc = "done" /\ UNCHANGED legacyVars

RoutinesNext ==
    /\ \/ part = "control" /\ Next
       \/ part = "plan"    /\ PlanNext
       \/ part = "card"    /\ CardNext
       \/ part = "legacy"  /\ (LegacyNext \/ LegacyEnded)
    /\ UNCHANGED part
    /\ part # "control" => UNCHANGED vars
    /\ part # "plan"    => UNCHANGED planVars
    /\ part # "card"    => UNCHANGED cardVars
    /\ part # "legacy"  => UNCHANGED legacyVars

\* The fairness of each, as in SearchControl, SmartCard and LegacyScan.  The
\* first two are not asked for anything while they are at rest.
RoutinesFairness ==
    /\ Fairness
    /\ WF_cardVars(OperationStep /\ Witness)
    /\ WF_legacyVars(part = "legacy" /\ LegacyNext)

RoutinesSpec ==
    RoutinesInit /\ [][RoutinesNext]_<<part, vars, planVars, cardVars, legacyVars>>
    /\ RoutinesFairness

-----------------------------------------------------------------------------
(* Properties: those of the four modules, and this one of the harness. *)

\* LegacyScan!Ends: a scan that was begun ends, also by the limit.
ScanEnds == part = "legacy" => Ends

=============================================================================

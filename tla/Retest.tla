------------------------------- MODULE Retest -------------------------------
(***************************************************************************)
(* compare_affected_retest (src/retest.cpp): what an action changed, told  *)
(* from the observations made before and after it.  The caller appends     *)
(* observations to two lists, a check may be observed more than once, and  *)
(* the comparison reads the first observation of each check the action     *)
(* affects.                                                                *)
(***************************************************************************)
EXTENDS Sequences, Naturals

CONSTANT MaxObservations   \* bound: observations of both lists together

VARIABLES before, after    \* the two lists of RetestObservation

retestVars == <<before, after>>

\* affected_checks_for_action
AffectedChecks ==
    [smartcard_service_start   |-> <<"smartcard_service", "smartcard_reader", "smartcard_device">>,
     certificate_import_wizard |-> <<"certificate_store", "private_key_association">>,
     official_middleware_page  |-> <<"middleware_provider">>]

States == {"not_observed", "passing", "failing"}
\* One check of every action, and a second one of the first.
Checks == {"smartcard_service", "smartcard_reader", "certificate_store"}

Init == before = <<>> /\ after = <<>>

Observe(check, state) ==
    /\ Len(before) + Len(after) < MaxObservations
    /\ LET observation == [check_id |-> check, state |-> state]
       IN \/ before' = Append(before, observation) /\ UNCHANGED after
          \/ after' = Append(after, observation) /\ UNCHANGED before

Next == \E check \in Checks, state \in States : Observe(check, state)

Spec == Init /\ [][Next]_retestVars

-----------------------------------------------------------------------------
Observed(list, check) == {i \in DOMAIN list : list[i].check_id = check}

\* Mutant of Found: the latest observation counts.
FoundLast(list, check) ==
    IF Observed(list, check) = {} THEN "not_observed"
    ELSE list[CHOOSE i \in Observed(list, check) :
                 \A j \in Observed(list, check) : i >= j].state

\* find_observation: the state of the first observation of the check.
Found(list, check) ==
    IF Observed(list, check) = {} THEN "not_observed"
    ELSE list[CHOOSE i \in Observed(list, check) :
                 \A j \in Observed(list, check) : i <= j].state

\* classify_outcome; of two states that differ one is passing, one failing.
Outcome(old, new) ==
    IF "not_observed" \in {old, new} THEN "incomplete"
    ELSE IF old = new THEN "unchanged"
    ELSE IF old = "failing" THEN "resolved" ELSE "regressed"

\* compare_affected_retest
Comparisons(action, old, new) ==
    [i \in DOMAIN AffectedChecks[action] |->
        LET check == AffectedChecks[action][i]
        IN [check_id |-> check, before |-> Found(old, check), after |-> Found(new, check),
            outcome |-> Outcome(Found(old, check), Found(new, check))]]

-----------------------------------------------------------------------------
(* Properties. *)

\* The check an observation was just made of, and whether the list it went to
\* knew that check already.
NewCheck == IF before' # before THEN before'[Len(before')].check_id
                                ELSE after'[Len(after')].check_id
KnewIt   == Observed(IF before' # before THEN before ELSE after, NewCheck) # {}

\* An outcome once drawn from two observations stays: whatever is observed
\* later, of this check or of another, an action that was seen to resolve a
\* check is never said to have left it failing, nor the reverse; and an
\* observation touches at most the comparison of its own check.
OutcomesStay ==
    \A action \in DOMAIN AffectedChecks :
        LET old == Comparisons(action, before, after)
            new == Comparisons(action, before', after')
        IN \A i \in DOMAIN old :
              /\ old[i] # new[i] => old[i].check_id = NewCheck /\ ~KnewIt
              /\ old[i].outcome # "incomplete" => new[i].outcome = old[i].outcome
FirstObservationsDecide == [][OutcomesStay]_retestVars

=============================================================================

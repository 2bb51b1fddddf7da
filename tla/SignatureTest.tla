--------------------------- MODULE SignatureTest ---------------------------
(***************************************************************************)
(* run_synthetic_a1_signature_test (src/signature_test.cpp): a line of     *)
(* BCrypt calls on a synthetic key.  After the first two calls a step that *)
(* failed keeps the ones after it from being made.                         *)
(***************************************************************************)
EXTENDS Naturals, Sequences

VARIABLES next,            \* the BCrypt call made next: an index of Calls
          status,          \* whether status >= 0
          made,            \* history: the calls that succeeded
          open             \* the handles not yet destroyed

signVars == <<next, status, made, open>>

Calls == <<"BCryptOpenAlgorithmProvider", "BCryptGenerateKeyPair", "BCryptFinalizeKeyPair",
           "BCryptGenRandom", "BCryptSignHash (size)", "BCryptSignHash", "BCryptVerifySignature">>
Cleanup == Len(Calls) + 1
Returned == Len(Calls) + 2

\* What a call that succeeds opens.
Opens(i) == CASE i = 1 -> {"algorithm"} [] i = 2 -> {"key"} [] OTHER -> {}

Init == next = 1 /\ status = TRUE /\ made = {} /\ open = {}

CallSucceeds ==
    /\ next \in DOMAIN Calls /\ status
    /\ next' = next + 1
    /\ made' = made \cup {next}
    /\ open' = open \cup Opens(next)
    /\ UNCHANGED status

\* Without an algorithm there is nothing to clean up: the function returns.
CallFails ==
    /\ next \in DOMAIN Calls /\ status
    /\ next' = IF next = 1 THEN Returned ELSE next + 1
    /\ status' = FALSE
    /\ UNCHANGED <<made, open>>

\* status >= 0 guards every call from the third on.
Skip ==
    /\ next \in DOMAIN Calls /\ ~status
    /\ next' = next + 1
    /\ UNCHANGED <<status, made, open>>

\* Mutant of CleanUp: only after a signature that was verified.
CleanUpOnSuccess ==
    /\ next = Cleanup
    /\ next' = Returned
    /\ open' = IF status THEN {} ELSE open
    /\ UNCHANGED <<status, made>>

\* Each handle that is not null is destroyed, whatever the status.
CleanUp ==
    /\ next = Cleanup
    /\ next' = Returned
    /\ open' = {}
    /\ UNCHANGED <<status, made>>

Next == CallSucceeds \/ CallFails \/ Skip \/ CleanUp

Spec == Init /\ [][Next]_signVars

-----------------------------------------------------------------------------
(* Properties. *)

signed_and_verified == next = Returned /\ status

\* The test says "signed and verified" only when every call succeeded, and
\* returns with no handle open, whichever call failed.
NothingLeftOpen ==
    next = Returned =>
        /\ open = {}
        /\ signed_and_verified => made = DOMAIN Calls

=============================================================================

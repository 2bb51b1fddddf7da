----------------------------- MODULE MCLibrary -----------------------------
(***************************************************************************)
(* The functions of the library that keep no state between two calls, for  *)
(* TLC.  They share nothing, so a behaviour uses one of them: the          *)
(* variables of the others keep their initial values, and the state spaces *)
(* add up instead of multiplying.                                          *)
(***************************************************************************)
EXTENDS FiniteSets, Naturals, Sequences, TLC

CONSTANTS p1, p2, c1, c2, c3, MaxTokens, MaxObservations, ExpiringWindow, LastInstant,
          Modulus, MaxAlterations

Cert       == {c1, c2, c3}
ValidFrom  == c1 :> 0 @@ c2 :> 1 @@ c3 :> 0
ValidUntil == c1 :> 1 @@ c2 :> 2 @@ c3 :> LastInstant

\* Around every comparison of classify_support_mode.
Versions == {<<11, 0, 0>>, <<10, 0, 0>>, <<6, 4, 1>>, <<6, 3, 0>>, <<6, 1, 1>>, <<6, 1, 0>>,
             <<5, 1, 3>>, <<5, 1, 2>>, <<5, 3, 3>>}

Provider == {p1, p2}
Marked   == {p1}

Parts == {"actions", "profile", "diagnosis", "retest", "redaction", "facts", "certificates", "signature"}

VARIABLES part,                                              \* the function in use
          input, read,                                       \* PjeProfile
          facts,                                             \* Diagnosis
          before, after,                                     \* Retest
          text, output, redact_next_token,                   \* Redaction
          stage, document, json, altered, result,            \* FactDocument
          now, keyed, call, store, listing, chain, handles, seen,   \* Certificates
          next, status, made, open,                          \* SignatureTest
          file, action, explicit_consent, state, asked, contents   \* SupportActions

Profile   == INSTANCE PjeProfile
Diagnoses == INSTANCE Diagnosis
Retests   == INSTANCE Retest
Redacts   == INSTANCE Redaction
Documents == INSTANCE FactDocument
Stores    == INSTANCE Certificates WITH result <- listing
Signs     == INSTANCE SignatureTest
Actions   == INSTANCE SupportActions

\* A std::uint32_t tells the versions 0, 1 and 2 apart.
ASSUME ModulusAssumption == Modulus \in Nat /\ Modulus > 2

ASSUME StoresAssumption == Stores!ConstantsOK

Init ==
    /\ part \in Parts
    /\ Profile!Init /\ Diagnoses!Init /\ Retests!Init /\ Redacts!Init
    /\ Documents!Init /\ Stores!Init /\ Signs!Init /\ Actions!Init

\* All but one of the functions are left alone.
OthersRest ==
    /\ UNCHANGED part
    /\ part # "profile"      => UNCHANGED <<input, read>>
    /\ part # "diagnosis"    => UNCHANGED facts
    /\ part # "retest"       => UNCHANGED <<before, after>>
    /\ part # "redaction"    => UNCHANGED <<text, output, redact_next_token>>
    /\ part # "facts"        => UNCHANGED <<stage, document, json, altered, result>>
    /\ part # "certificates" => UNCHANGED <<now, keyed, call, store, listing, chain, handles, seen>>
    /\ part # "signature"    => UNCHANGED <<next, status, made, open>>
    /\ part # "actions"      => UNCHANGED <<file, action, explicit_consent, state, asked, contents>>

Next ==
    /\ \/ part = "profile"      /\ Profile!Next
       \/ part = "diagnosis"    /\ Diagnoses!Next
       \/ part = "retest"       /\ Retests!Next
       \/ part = "redaction"    /\ Redacts!Next
       \/ part = "facts"        /\ Documents!Next
       \/ part = "certificates" /\ Stores!Next
       \/ part = "signature"    /\ Signs!Next
       \/ part = "actions"      /\ Actions!Next
    /\ OthersRest

vars == <<part, input, read, facts, before, after, text, output, redact_next_token,
          stage, document, json, altered, result,
          now, keyed, call, store, listing, chain, handles, seen, next, status, made, open,
          file, action, explicit_consent, state, asked, contents>>

Spec == Init /\ [][Next]_vars

-----------------------------------------------------------------------------
(* The properties of the components, stated and explained in their modules. *)

\* PjeProfile: the profile blocks only on collected facts.
BlockedOnlyOnFacts == Profile!BlockedOnlyOnFacts
\* PjeProfile: a fact that is collected for the first time never excuses.
NewFactsNeverExcuse == Profile!NewFactsNeverExcuse
\* Diagnosis: a repair takes the card's finding to a later layer.
RepairMovesForward == Diagnoses!RepairMovesForward
\* Retest: an outcome once drawn stays.
FirstObservationsDecide == Retests!FirstObservationsDecide
\* Redaction: what must not be repeated is replaced, and nothing else.
ExactlyTheSensitive == Redacts!ExactlyTheSensitive
\* Redaction: what the audit document says of values (violated).
SubsequentValuesRedacted == Redacts!SubsequentValuesRedacted
\* FactDocument: a document comes back as it was, cautiously, or not at all.
ReadsBack == Documents!ReadsBack
\* FactDocument: what the contract says of versions (violated).
UnknownVersionRefused == Documents!UnknownVersionRefused
\* Certificates: the result says what was so at an instant of the call.
ReadingsTruthful == Stores!ReadingsTruthful
\* Certificates: the order of the window puts the expired before the usable.
AttentionFirst == Stores!AttentionFirst
\* Certificates and SignatureTest: no handle survives its call.
NothingLeftOpen == Stores!NothingLeftOpen /\ Signs!NothingLeftOpen
\* SupportActions: no window is asked for that was not authorised.
AsksOnlyWhatIsAllowed == Actions!AsksOnlyWhatIsAllowed

=============================================================================

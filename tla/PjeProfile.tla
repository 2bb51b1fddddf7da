---------------------------- MODULE PjeProfile ----------------------------
(***************************************************************************)
(* The application profile "pje" (src/application_profile.cpp): from facts *)
(* collected one by one evaluate_pje_profile concludes whether this        *)
(* computer looks ready.  The caller fills a PjeProfileInput field by      *)
(* field; a field that nobody filled keeps the default of the header.      *)
(***************************************************************************)
EXTENDS Naturals

VARIABLES input,           \* PjeProfileInput
          read             \* history: the fields that were collected

vars == <<input, read>>

EvidenceFields == {"certificate", "private_key", "trusted_chain",
                   "pjeoffice_installed", "pjeoffice_running"}

EvidenceStates == {"unknown", "absent", "present"}
Validities     == {"not_yet_valid", "valid", "expiring_soon", "expired"}
A3States       == {"service_unavailable", "reader_missing", "device_absent",
                   "middleware_missing", "key_unavailable", "apparently_ready"}

\* The defaults of PjeProfileInput.
Init ==
    /\ input = [certificate |-> "unknown", certificate_validity |-> "valid",
                private_key |-> "unknown", trusted_chain |-> "unknown",
                pjeoffice_installed |-> "unknown", pjeoffice_running |-> "unknown",
                uses_external_device |-> FALSE,
                external_device_state |-> "apparently_ready"]
    /\ read = {}

\* A verification ends, for the first time or again, with what it found.
Collect(field, values) ==
    /\ \E v \in values : input' = [input EXCEPT ![field] = v]
    /\ read' = read \cup {field}

Next ==
    \/ \E field \in EvidenceFields : Collect(field, EvidenceStates)
    \/ Collect("certificate_validity", Validities)
    \/ Collect("uses_external_device", BOOLEAN)
    \/ Collect("external_device_state", A3States)

Spec == Init /\ [][Next]_vars

-----------------------------------------------------------------------------
\* Mutant of EvidenceCheck: what is not known to be absent passes.
EvidenceCheckLenient(evidence) == IF evidence = "absent" THEN "blocked" ELSE "passed"

\* evidence_check
EvidenceCheck(evidence) ==
    CASE evidence = "present" -> "passed"
      [] evidence = "absent"  -> "blocked"
      [] OTHER                -> "unknown"

\* Mutant of ValidityCheck: asked of a certificate that is not there as well.
ValidityCheckAlways(certificate, validity) ==
    CASE validity = "valid"         -> "passed"
      [] validity = "expiring_soon" -> "warning"
      [] OTHER                      -> "blocked"

\* validity_check
ValidityCheck(certificate, validity) ==
    IF certificate # "present" THEN "unknown"
    ELSE IF validity = "valid" THEN "passed"
    ELSE IF validity = "expiring_soon" THEN "warning" ELSE "blocked"

\* external_device_check
DeviceCheck(state) == IF state = "apparently_ready" THEN "passed" ELSE "blocked"

\* The statuses of the checks of evaluate_pje_profile.
Checks ==
    {EvidenceCheck(input[field]) : field \in EvidenceFields}
        \cup {ValidityCheck(input.certificate, input.certificate_validity)}
        \cup (IF input.uses_external_device
              THEN {DeviceCheck(input.external_device_state)} ELSE {})

\* Mutant of AggregateStatus: a warning is looked for first.
AggregateWarningFirst(checks) ==
    IF "warning" \in checks THEN "attention"
    ELSE IF "blocked" \in checks THEN "blocked"
    ELSE IF "unknown" \in checks THEN "indeterminate" ELSE "ready"

\* aggregate_status
AggregateStatus(checks) ==
    IF "blocked" \in checks THEN "blocked"
    ELSE IF "warning" \in checks THEN "attention"
    ELSE IF "unknown" \in checks THEN "indeterminate" ELSE "ready"

Status == AggregateStatus(Checks)

-----------------------------------------------------------------------------
(* Properties. *)

\* The profile blocks a user only on something that was collected and is bad;
\* the validity of a certificate that was not found is not held against it
\* (docs/12_PERFIL_PJE.md:11).
BlockedOnlyOnFacts ==
    Status = "blocked" =>
        \/ \E field \in EvidenceFields \cap read : input[field] = "absent"
        \/ /\ {"certificate", "certificate_validity"} \subseteq read
           /\ input.certificate = "present"
           /\ input.certificate_validity \in {"expired", "not_yet_valid"}
        \/ /\ {"uses_external_device", "external_device_state"} \subseteq read
           /\ input.uses_external_device /\ input.external_device_state # "apparently_ready"

\* Collecting one more fact never makes a bad picture better: only a repeated
\* verification of what was collected before can unblock a user or take a
\* warning back.
OrderOfStatus == [ready |-> 0, indeterminate |-> 0, attention |-> 1, blocked |-> 2]
NewFactsNeverExcuse ==
    [][read' # read => OrderOfStatus[Status'] >= OrderOfStatus[Status]]_vars

-----------------------------------------------------------------------------
(* What the repository says of the profile and the code does not do. *)

\* A profile that depends on an external device is not ready as long as nobody
\* looked at the device (docs/12_PERFIL_PJE.md:21).
NothingUncollectedPasses ==
    Status = "ready" /\ input.uses_external_device => "external_device_state" \in read

=============================================================================

----------------------------- MODULE Diagnosis -----------------------------
(***************************************************************************)
(* diagnose (src/diagnosis.cpp): the findings that follow from six facts.  *)
(* The caller verifies and repairs one thing at a time, so the facts       *)
(* change one by one and every picture is diagnosed anew.                  *)
(***************************************************************************)
VARIABLE facts             \* DiagnosticInput

Fields == {"a1_file_found", "certificate_installed", "private_key_associated",
           "smartcard_service_running", "reader_detected", "device_present"}

\* The defaults of DiagnosticInput.
Init == facts = [field \in Fields |-> field = "smartcard_service_running"]

\* A verification ends with another answer than the last time.
Change(field) == facts' = [facts EXCEPT ![field] = ~@]

Next == \E field \in Fields : Change(field)

Spec == Init /\ [][Next]_facts

-----------------------------------------------------------------------------
KeyFindings(input) ==
    IF input.certificate_installed /\ ~input.private_key_associated
    THEN {"certificate_without_private_key"} ELSE {}

\* Mutant of DeviceFindings: the reader is looked at although no service runs.
DeviceFindingsUnordered(input) ==
    IF ~input.reader_detected           THEN {"reader_not_detected"}
    ELSE IF ~input.smartcard_service_running THEN {"smartcard_service_stopped"}
    ELSE IF ~input.device_present       THEN {"device_absent"} ELSE {}

\* The three layers of a card, of which the first that fails is reported.
DeviceFindings(input) ==
    IF ~input.smartcard_service_running THEN {"smartcard_service_stopped"}
    ELSE IF ~input.reader_detected      THEN {"reader_not_detected"}
    ELSE IF ~input.device_present       THEN {"device_absent"} ELSE {}

\* diagnose
Diagnose(input) ==
    LET sofar == KeyFindings(input) \cup DeviceFindings(input)
    IN IF ~input.a1_file_found /\ ~input.certificate_installed /\ sofar = {}
       THEN {"insufficient_evidence"} ELSE sofar

-----------------------------------------------------------------------------
(* Properties. *)

\* Which finding answers for a fact, and the facts that come before it: nobody
\* can find a reader without the service or a card without a reader.
Answers == [smartcard_service_running |-> "smartcard_service_stopped",
            reader_detected           |-> "reader_not_detected",
            device_present            |-> "device_absent"]
Earlier == [smartcard_service_running |-> {},
            reader_detected           |-> {"smartcard_service_running"},
            device_present            |-> {"smartcard_service_running", "reader_detected"}]

\* Following the recommended actions gets somewhere: a repair of the card's
\* layers takes away the finding it is about and brings up at most one about a
\* layer further on, never the finding of an earlier layer or of its own.
MovesForward ==
    \A fixed \in DOMAIN Answers :
        ~facts[fixed] /\ facts'[fixed] =>
            /\ Answers[fixed] \notin Diagnose(facts')
            /\ \A other \in DOMAIN Answers :
                  Answers[other] \in Diagnose(facts') \ Diagnose(facts) =>
                      fixed \in Earlier[other]
RepairMovesForward == [][MovesForward]_facts

=============================================================================

----------------------------- MODULE SmartCard -----------------------------
(***************************************************************************)
(* The two operations of CertRadar on the smart card service:              *)
(* execute_smartcard_service_start (src/actions.cpp) asks Windows to start *)
(* it and polls until it runs, and inspect_a3_locally (src/smartcard.cpp)  *)
(* reads the service, the list of readers and the state of each reader.    *)
(*                                                                         *)
(* Each call to Windows is one step, and the host may move between any     *)
(* two.  One operation runs at a time (docs/27_DIAGNOSTICO_A3_LOCAL.md:47). *)
(***************************************************************************)
EXTENDS SmartCardHost

CONSTANT MaxAttempts       \* polls of a start: 20 in the code

ASSUME MaxAttemptsAssumption == MaxAttempts \in Nat \ {0}

VARIABLES cardPc,              \* where the operation is
          consent,         \* explicit_consent
          answer,          \* ServiceActionResult
          attempt,         \* attempt
          snapshot,        \* A3LocalSnapshot: service, readers_queried, success
          size,            \* characters: the room SCardListReadersW asked for
          listed,          \* names not yet passed to SCardGetStatusChangeW
          seen,            \* seen[r]: what the snapshot says of reader r
          ever             \* history: what held at some instant of the operation

startVars   == <<consent, answer, attempt>>
inspectVars == <<snapshot, size, listed, seen>>
cardVars == <<hostVars, cardPc, startVars, inspectVars, ever>>

NoAnswer   == [state |-> "blocked", before |-> "unknown", after |-> "unknown"]
NoSnapshot == [service |-> "unknown", queried |-> FALSE, success |-> FALSE]

CardInit ==
    /\ HostInit
    /\ cardPc = "idle"
    /\ consent = FALSE /\ answer = NoAnswer /\ attempt = 0
    /\ snapshot = NoSnapshot /\ size = 0 /\ listed = {}
    /\ seen = [r \in Reader |-> "unlisted"]
    /\ ever = [running |-> FALSE, down |-> FALSE, empty |-> FALSE,
               carded |-> {}, cardless |-> {}]

-----------------------------------------------------------------------------
\* The ServiceState that query_smart_card_service makes of a native state.
StateOf(native) ==
    IF native \in {"running", "stopped"} THEN native
    ELSE IF native = "absent" THEN "missing"
    ELSE IF native = "paused" THEN "unknown" ELSE "pending"

\* What query_smart_card_service may return: Windows may refuse to answer.
Queried == {StateOf(service), "inaccessible"}

\* An operation starts from a fresh result.
Begin(where) ==
    /\ cardPc \in {"idle", "done"}
    /\ cardPc' = where
    /\ answer' = NoAnswer /\ attempt' = 0
    /\ snapshot' = NoSnapshot /\ size' = 0 /\ listed' = {}
    /\ seen' = [r \in Reader |-> "unlisted"]
    /\ UNCHANGED hostVars

-----------------------------------------------------------------------------
(* execute_smartcard_service_start *)

CallStart ==
    /\ consent' \in BOOLEAN
    /\ Begin("before")

\* Mutant of PlanStart: the consent is not looked at.
PlanStartUnasked(before) == IF before = "running" THEN "no_change" ELSE "start"

\* plan_smartcard_service_start
PlanStart(before) ==
    IF ~consent THEN "blocked" ELSE IF before = "running" THEN "no_change" ELSE "start"

\* The state before, and what is to be done about it.
QueryBefore ==
    /\ cardPc = "before"
    /\ \E before \in Queried :
          LET plan == PlanStart(before)
          IN /\ answer' = [before |-> before, after |-> before,
                           state |-> IF plan = "no_change" THEN "no_change" ELSE "blocked"]
             /\ cardPc' = IF plan = "start" THEN "open" ELSE "done"
    /\ UNCHANGED <<hostVars, consent, attempt, inspectVars>>

\* OpenSCManagerW, OpenServiceW or StartServiceW fails.
StartFails ==
    /\ cardPc = "open"
    /\ cardPc' = "done"
    /\ answer' = [answer EXCEPT !.state = "failed"]
    /\ UNCHANGED <<hostVars, consent, attempt, inspectVars>>

\* Mutant of RequestStart: a service that is said to run already is not polled.
RequestStartTrusting ==
    /\ cardPc = "open" /\ service # "absent"
    /\ IF service = "stopped"
       THEN service' = "start_pending" /\ cardPc' = "poll" /\ UNCHANGED answer
       ELSE /\ cardPc' = "done"
            /\ answer' = [answer EXCEPT !.state = "applied"]
            /\ UNCHANGED service
    /\ UNCHANGED <<readers, cards, consent, attempt, inspectVars>>

\* StartServiceW starts a stopped service, and answers
\* ERROR_SERVICE_ALREADY_RUNNING in any other state; both go on to the polls.
RequestStart ==
    /\ cardPc = "open" /\ service # "absent"
    /\ cardPc' = "poll"
    /\ service' = IF service = "stopped" THEN "start_pending" ELSE service
    /\ UNCHANGED <<readers, cards, startVars, inspectVars>>

\* Mutant of Poll: the attempts are not counted.
PollForever ==
    /\ cardPc = "poll"
    /\ \E after \in Queried :
          /\ cardPc' = IF after = "running" THEN "done" ELSE "poll"
          /\ answer' = [answer EXCEPT !.after = after,
                           !.state = IF after = "running" THEN "applied" ELSE @]
    /\ UNCHANGED <<hostVars, consent, attempt, inspectVars>>

\* One query of the loop and the sleep after it: the last one that does not
\* find the service running ends in ERROR_SERVICE_REQUEST_TIMEOUT.
Poll ==
    /\ cardPc = "poll"
    /\ attempt' = attempt + 1
    /\ \E after \in Queried :
          LET over == after = "running" \/ attempt' = MaxAttempts
          IN /\ cardPc' = IF over THEN "done" ELSE "poll"
             /\ answer' = [answer EXCEPT !.after = after,
                              !.state = IF after = "running" THEN "applied"
                                        ELSE IF over THEN "failed" ELSE @]
    /\ UNCHANGED <<hostVars, consent, inspectVars>>

-----------------------------------------------------------------------------
(* inspect_a3_locally *)

CallInspect ==
    /\ consent' = FALSE
    /\ Begin("service")

QueryService ==
    /\ cardPc = "service"
    /\ \E state \in Queried :
          /\ snapshot' = [snapshot EXCEPT !.service = state, !.queried = (state = "running")]
          /\ cardPc' = IF state = "running" THEN "context" ELSE "done"
    /\ UNCHANGED <<hostVars, startVars, size, listed, seen>>

\* SCardEstablishContext succeeds.
EstablishContext ==
    /\ cardPc = "context" /\ service = "running"
    /\ cardPc' = "size"
    /\ UNCHANGED <<hostVars, startVars, inspectVars>>

\* A WinSCard call of enumerate_smart_card_readers fails, as it may at any time.
EnumerationFails ==
    /\ cardPc \in {"context", "size", "list"}
    /\ cardPc' = "done"
    /\ UNCHANGED <<hostVars, startVars, inspectVars>>

\* The first SCardListReadersW: no readers, or the room their names need.
ListSize ==
    /\ cardPc = "size" /\ service = "running"
    /\ size' = Cardinality(readers)
    /\ IF readers = {}
       THEN cardPc' = "done" /\ snapshot' = [snapshot EXCEPT !.success = TRUE]
       ELSE cardPc' = "list" /\ UNCHANGED snapshot
    /\ UNCHANGED <<hostVars, startVars, listed, seen>>

\* Mutant of ListReaders: what does not fit in the buffer counts as no reader.
ListReadersLossy ==
    /\ cardPc = "list" /\ service = "running"
    /\ IF readers # {} /\ Cardinality(readers) <= size
       THEN cardPc' = "status" /\ listed' = readers /\ UNCHANGED snapshot
       ELSE cardPc' = "done" /\ snapshot' = [snapshot EXCEPT !.success = TRUE] /\ UNCHANGED listed
    /\ UNCHANGED <<hostVars, startVars, size, seen>>

\* The second one fails when the last reader is gone or when the names do not
\* fit any more in the room the first one asked for.
ListReaders ==
    /\ cardPc = "list" /\ service = "running"
    /\ IF readers # {} /\ Cardinality(readers) <= size
       THEN cardPc' = "status" /\ listed' = readers
       ELSE cardPc' = "done" /\ UNCHANGED listed
    /\ UNCHANGED <<hostVars, startVars, snapshot, size, seen>>

\* SCardGetStatusChangeW for one of the names: it fails, or says what is there.
ReadStatus ==
    /\ cardPc = "status"
    /\ \E r \in listed :
          /\ listed' = listed \ {r}
          /\ \/ seen' = [seen EXCEPT ![r] = "unavailable"]
             \/ /\ service = "running" /\ r \in readers
                /\ seen' = [seen EXCEPT ![r] = IF r \in cards THEN "card" ELSE "empty"]
    /\ UNCHANGED <<hostVars, cardPc, startVars, snapshot, size>>

EndInspection ==
    /\ cardPc = "status" /\ listed = {}
    /\ cardPc' = "done"
    /\ snapshot' = [snapshot EXCEPT !.success = TRUE]
    /\ UNCHANGED <<hostVars, startVars, size, listed, seen>>

-----------------------------------------------------------------------------
OperationStep ==
    \/ QueryBefore \/ StartFails \/ RequestStart \/ Poll
    \/ QueryService \/ EstablishContext \/ EnumerationFails
    \/ ListSize \/ ListReaders \/ ReadStatus \/ EndInspection

UserStep == CallStart \/ CallInspect

HostMoves == HostStep /\ UNCHANGED <<cardPc, startVars, inspectVars>>

\* The history: what held at an instant since the operation was called.
Now == [running |-> service = "running", down |-> service # "running",
        empty |-> readers = {}, carded |-> cards, cardless |-> Reader \ cards]

Witness ==
    ever' = IF cardPc \in {"idle", "done"}
            THEN IF cardPc' \in {"before", "service"} THEN Now' ELSE ever
            ELSE [running  |-> ever.running \/ Now.running',
                  down     |-> ever.down \/ Now.down',
                  empty    |-> ever.empty \/ Now.empty',
                  carded   |-> ever.carded \cup Now.carded',
                  cardless |-> ever.cardless \cup Now.cardless']

CardNext == (OperationStep \/ UserStep \/ HostMoves) /\ Witness

CardSpec == CardInit /\ [][CardNext]_cardVars

\* The thread that runs the operation keeps running.
CardFairSpec == CardSpec /\ WF_cardVars(OperationStep /\ Witness)

-----------------------------------------------------------------------------
(* Properties. *)

\* classify_a3_local_snapshot
Triage ==
    IF snapshot.service # "running" THEN "service_unavailable"
    ELSE IF ~snapshot.queried \/ ~snapshot.success THEN "reader_query_failed"
    ELSE IF \A r \in Reader : seen[r] = "unlisted" THEN "reader_missing"
    ELSE IF \E r \in Reader : seen[r] = "card" THEN "device_detected"
    ELSE "device_absent"

StartPcs   == {"before", "open", "poll"}
InspectPcs == {"service", "context", "size", "list", "status"}
ServiceStates == {"running", "stopped", "pending", "missing", "inaccessible", "unknown"}

\* Results and locals keep the types of include/certradar/smartcard.hpp and
\* include/certradar/actions.hpp, and the loop its bound.
CardTypeOK ==
    /\ service \in NativeStates /\ readers \subseteq Reader /\ cards \subseteq readers
    /\ cardPc \in {"idle", "done"} \cup StartPcs \cup InspectPcs
    /\ consent \in BOOLEAN
    /\ answer \in [state : {"blocked", "no_change", "applied", "failed"},
                   before : ServiceStates, after : ServiceStates]
    /\ attempt \in 0..MaxAttempts
    /\ snapshot \in [service : ServiceStates, queried : BOOLEAN, success : BOOLEAN]
    /\ size \in Nat /\ listed \subseteq Reader
    /\ seen \in [Reader -> {"unlisted", "card", "empty", "unavailable"}]

\* A start says "applied" or "no change" only when the service ran at some
\* instant of the call, however the service moved meanwhile, and "failed" only
\* when it was down or refused to answer; without consent it is blocked.
AnswerTruthful ==
    cardPc = "done" =>
        /\ answer.state \in {"applied", "no_change"} => ever.running /\ answer.after = "running"
        /\ answer.state = "failed" => ever.down \/ "inaccessible" \in {answer.before, answer.after}
        /\ answer.before # "unknown" => (answer.state = "blocked" <=> ~consent)

\* Windows is asked to start the service only with consent, and only by a call
\* that did not find it running.
StartsOnlyWithConsent ==
    [][cardPc' # cardPc /\ service' # service => consent /\ answer.before # "running"]_cardVars

\* Each reading that the triage of a snapshot rests on was so at some instant
\* of the inspection, and not all at the same one.  "Service unavailable" and
\* "reader missing" rest on one reading and are true of one instant; a device
\* that is detected was in its reader.  "Device absent" puts together readings
\* of as many instants as there are readers (src/smartcard.cpp:86-104), and a
\* card that goes from one reader to another may escape it; what it says is
\* that no reader held a card all through the inspection, but those that could
\* not be asked.
SnapshotTruthful ==
    cardPc = "done" /\ snapshot.service # "unknown" =>
        /\ Triage = "service_unavailable" => ever.down \/ snapshot.service = "inaccessible"
        /\ Triage \in {"reader_missing", "device_absent", "device_detected"} => ever.running
        /\ Triage = "reader_missing" => ever.empty
        /\ \A r \in Reader : seen[r] = "card" => r \in ever.carded
        /\ \A r \in Reader : seen[r] = "empty" => r \in ever.cardless
        /\ Triage = "device_absent" => \A r \in Reader \ ever.cardless : seen[r] = "unavailable"

\* Every call returns, whatever the service and the readers do meanwhile.
CallsReturn == (cardPc \in StartPcs \cup InspectPcs) ~> (cardPc = "done")

=============================================================================

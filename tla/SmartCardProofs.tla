-------------------------- MODULE SmartCardProofs --------------------------
(* Proofs about SmartCard, for any finite set of readers and any number of   *)
(* polls.                                                                    *)
EXTENDS SmartCard, FiniteSetTheorems, TLAPS

-----------------------------------------------------------------------------
(* The invariant. *)

Active == cardPc \in StartPcs \cup InspectPcs

EverOK ==
    ever \in [running : BOOLEAN, down : BOOLEAN, empty : BOOLEAN,
              carded : SUBSET Reader, cardless : SUBSET Reader]

\* The history of a call in progress includes this instant.
Seeing ==
    Active =>
        /\ service = "running" => ever.running
        /\ service # "running" => ever.down
        /\ readers = {} => ever.empty
        /\ cards \subseteq ever.carded
        /\ Reader \ cards \subseteq ever.cardless

\* A start that goes on has consent and did not find the service running: it
\* was down then, or Windows did not say.  Without this a "failed" could follow
\* a service that ran all along.
StartInv ==
    /\ cardPc \in StartPcs => snapshot = NoSnapshot /\ attempt < MaxAttempts
    /\ cardPc = "before" => answer = NoAnswer
    /\ cardPc \in {"open", "poll"} =>
          /\ consent
          /\ answer.before # "running" /\ answer.state = "blocked"
          /\ ever.down \/ answer.before = "inaccessible"

\* An inspection that goes on found the service running, says of each reader
\* what was so, and has a reader to say something of once it has a list.  One
\* that the list left out was not there at that instant.
InspectInv ==
    /\ cardPc \in InspectPcs => answer = NoAnswer
    /\ cardPc = "service" => snapshot = NoSnapshot
    /\ cardPc \in {"context", "size", "list", "status"} =>
          /\ snapshot.service = "running" /\ snapshot.queried /\ ~snapshot.success
          /\ ever.running
    /\ cardPc \in {"service", "context", "size", "list"} => \A r \in Reader : seen[r] = "unlisted"
    /\ cardPc = "status" =>
          /\ listed # {} \/ \E r \in Reader : seen[r] # "unlisted"
          /\ \A r \in Reader : seen[r] = "card" => r \in ever.carded
          /\ \A r \in Reader : seen[r] = "empty" => r \in ever.cardless
          /\ \A r \in Reader : seen[r] = "unlisted" => r \in listed \cup ever.cardless

IInv ==
    /\ CardTypeOK /\ EverOK /\ Seeing /\ StartInv /\ InspectInv
    /\ AnswerTruthful /\ SnapshotTruthful

-----------------------------------------------------------------------------
(* The host and the history. *)

\* What Windows says of the service is so, or "inaccessible".
LEMMA QueriedTrue ==
    ASSUME service \in NativeStates, NEW state \in Queried
    PROVE  /\ state \in ServiceStates
           /\ state = "running" => service = "running"
           /\ state # "running" => service # "running" \/ state = "inaccessible"
BY DEF Queried, StateOf, NativeStates, ServiceStates

Grown ==
    /\ EverOK'
    /\ ever.running => ever'.running
    /\ ever.down => ever'.down
    /\ ever.empty => ever'.empty
    /\ ever.carded \subseteq ever'.carded
    /\ ever.cardless \subseteq ever'.cardless
    /\ service' = "running" => ever'.running
    /\ service' # "running" => ever'.down
    /\ readers' = {} => ever'.empty
    /\ cards' \subseteq ever'.carded
    /\ Reader \ cards' \subseteq ever'.cardless

\* The history of a call in progress only grows, and includes the new instant.
LEMMA HistoryGrows ==
    ASSUME EverOK, Active, Witness, cards' \subseteq Reader
    PROVE  Grown
<1>1. ever' = [running  |-> ever.running \/ Now.running',
               down     |-> ever.down \/ Now.down',
               empty    |-> ever.empty \/ Now.empty',
               carded   |-> ever.carded \cup Now.carded',
               cardless |-> ever.cardless \cup Now.cardless']
  BY DEF Active, StartPcs, InspectPcs, Witness
<1>2. /\ Now.running' <=> service' = "running"
      /\ Now.down' <=> service' # "running"
      /\ Now.empty' <=> readers' = {}
      /\ Now.carded' = cards' /\ Now.cardless' = Reader \ cards'
  BY DEF Now
<1>3. /\ ever'.running <=> ever.running \/ Now.running'
      /\ ever'.down <=> ever.down \/ Now.down'
      /\ ever'.empty <=> ever.empty \/ Now.empty'
      /\ ever'.carded = ever.carded \cup Now.carded'
      /\ ever'.cardless = ever.cardless \cup Now.cardless'
  BY <1>1
<1>4. EverOK'
  BY <1>1, <1>2 DEF EverOK
<1> QED
  BY <1>2, <1>3, <1>4 DEF Grown

\* Whatever the host does, readers are readers and cards are in them.
LEMMA HostType ==
    ASSUME CardTypeOK, HostStep
    PROVE  service' \in NativeStates /\ readers' \subseteq Reader /\ cards' \subseteq readers'
<1>1. CASE ServiceMoves
  BY <1>1 DEF CardTypeOK, ServiceMoves
<1>2. ASSUME NEW r \in Reader, Plug(r) \/ Unplug(r) \/ InsertCard(r) \/ RemoveCard(r)
      PROVE  service' \in NativeStates /\ readers' \subseteq Reader /\ cards' \subseteq readers'
  BY <1>2 DEF CardTypeOK, Plug, Unplug, InsertCard, RemoveCard
<1> QED
  BY <1>1, <1>2 DEF HostStep

\* Before the first call.
LEMMA SmartCardInit == CardInit => IInv
<1> SUFFICES ASSUME CardInit PROVE IInv
  OBVIOUS
<1>1. CardTypeOK
  <2>1. service \in NativeStates /\ readers \subseteq Reader /\ cards \subseteq readers
    BY DEF CardInit, HostInit, NativeStates
  <2>2. attempt \in 0..MaxAttempts
    BY MaxAttemptsAssumption DEF CardInit
  <2>3. answer \in [state : {"blocked", "no_change", "applied", "failed"},
                    before : ServiceStates, after : ServiceStates]
    BY DEF CardInit, NoAnswer, ServiceStates
  <2>4. snapshot \in [service : ServiceStates, queried : BOOLEAN, success : BOOLEAN]
    BY DEF CardInit, NoSnapshot, ServiceStates
  <2> QED
    BY <2>1, <2>2, <2>3, <2>4 DEF CardInit, CardTypeOK
<1>2. EverOK
  BY DEF CardInit, EverOK
<1> QED
  BY <1>1, <1>2 DEF CardInit, IInv, Seeing, Active, StartInv, InspectInv, AnswerTruthful,
     SnapshotTruthful, StartPcs, InspectPcs

\* The host moves: a call in progress takes note of it.
LEMMA InvHost == IInv /\ HostMoves /\ Witness => IInv'
<1> SUFFICES ASSUME IInv, HostMoves, Witness PROVE IInv'
  OBVIOUS
<1>0. CardTypeOK /\ EverOK /\ Seeing /\ StartInv /\ InspectInv /\ AnswerTruthful /\ SnapshotTruthful
  BY DEF IInv
<1>1. UNCHANGED <<cardPc, consent, answer, attempt, snapshot, size, listed, seen>>
  BY DEF HostMoves, startVars, inspectVars
<1>2. service' \in NativeStates /\ readers' \subseteq Reader /\ cards' \subseteq readers'
  BY <1>0, HostType DEF HostMoves
<1>3. CardTypeOK'
  BY <1>0, <1>1, <1>2 DEF CardTypeOK
<1>4. CASE Active
  <2>1. Grown
    BY <1>0, <1>2, <1>4, HistoryGrows
  <2>2. Seeing'
    BY <2>1 DEF Grown, Seeing
  <2>3. StartInv' /\ InspectInv'
    BY <1>0, <1>1, <2>1 DEF Grown, StartInv, InspectInv
  <2>4. cardPc' # "done"
    BY <1>1, <1>4 DEF Active, StartPcs, InspectPcs
  <2> QED
    BY <1>3, <2>1, <2>2, <2>3, <2>4 DEF Grown, IInv, AnswerTruthful, SnapshotTruthful
<1>5. CASE ~Active
  <2>1. cardPc \in {"idle", "done"}
    BY <1>0, <1>5 DEF CardTypeOK, Active
  <2>2. ever' = ever
    BY <1>1, <2>1 DEF Witness
  <2> QED
    BY <1>0, <1>1, <1>3, <1>5, <2>1, <2>2 DEF IInv, EverOK, Seeing, Active, StartInv, InspectInv,
       AnswerTruthful, SnapshotTruthful, Triage, StartPcs, InspectPcs
<1> QED
  BY <1>4, <1>5

-----------------------------------------------------------------------------
(* The steps of a call. *)

\* A call starts from a fresh result, in the host of this instant.
LEMMA InvBegin == IInv /\ UserStep /\ Witness => IInv'
<1> SUFFICES ASSUME IInv, UserStep, Witness PROVE IInv'
  OBVIOUS
<1>0. CardTypeOK
  BY DEF IInv
<1>1. /\ cardPc \in {"idle", "done"} /\ cardPc' \in {"before", "service"}
      /\ consent' \in BOOLEAN
      /\ answer' = NoAnswer /\ attempt' = 0
      /\ snapshot' = NoSnapshot /\ size' = 0 /\ listed' = {}
      /\ seen' = [r \in Reader |-> "unlisted"]
      /\ UNCHANGED <<service, readers, cards>>
  BY DEF UserStep, CallStart, CallInspect, Begin, hostVars
<1>2. ever' = [running |-> service' = "running", down |-> service' # "running",
               empty |-> readers' = {}, carded |-> cards', cardless |-> Reader \ cards']
  BY <1>1 DEF Witness, Now
<1>3. CardTypeOK'
  <2>1. attempt' \in 0..MaxAttempts
    BY <1>1, MaxAttemptsAssumption
  <2>2. answer' \in [state : {"blocked", "no_change", "applied", "failed"},
                     before : ServiceStates, after : ServiceStates]
    BY <1>1 DEF NoAnswer, ServiceStates
  <2>3. snapshot' \in [service : ServiceStates, queried : BOOLEAN, success : BOOLEAN]
    BY <1>1 DEF NoSnapshot, ServiceStates
  <2> QED
    BY <1>0, <1>1, <2>1, <2>2, <2>3 DEF CardTypeOK, StartPcs, InspectPcs
<1>4. EverOK' /\ Seeing'
  <2>1. /\ ever'.running <=> service' = "running"
        /\ ever'.down <=> service' # "running"
        /\ ever'.empty <=> readers' = {}
        /\ ever'.carded = cards' /\ ever'.cardless = Reader \ cards'
    BY <1>2
  <2>2. cards' \subseteq Reader
    BY <1>0, <1>1 DEF CardTypeOK
  <2>3. EverOK'
    BY <1>2, <2>2 DEF EverOK
  <2> QED
    BY <2>1, <2>3 DEF Seeing
<1>5. StartInv' /\ InspectInv'
  BY <1>1, MaxAttemptsAssumption DEF StartInv, InspectInv, StartPcs, InspectPcs
<1> QED
  BY <1>1, <1>3, <1>4, <1>5 DEF IInv, AnswerTruthful, SnapshotTruthful

\* What every step of a call has in common.
LEMMA CallGrows ==
    ASSUME IInv, Active, Witness, service' \in NativeStates, UNCHANGED <<readers, cards>>
    PROVE  /\ Grown /\ Seeing' /\ EverOK'
           /\ service = "running" => ever'.running
           /\ service # "running" => ever'.down
           /\ readers = {} => ever'.empty
           /\ cards \subseteq ever'.carded
           /\ Reader \ cards \subseteq ever'.cardless
<1>1. cards' \subseteq Reader
  BY DEF IInv, CardTypeOK
<1>2. Grown
  BY <1>1, HistoryGrows DEF IInv
<1>3. Seeing
  BY DEF IInv
<1> QED
  BY <1>2, <1>3 DEF Grown, Seeing

\* The steps of a start.
LEMMA InvStart ==
    IInv /\ (QueryBefore \/ StartFails \/ RequestStart \/ Poll) /\ Witness => IInv'
<1> SUFFICES ASSUME IInv, QueryBefore \/ StartFails \/ RequestStart \/ Poll, Witness
             PROVE  IInv'
  OBVIOUS
<1>0. CardTypeOK /\ EverOK /\ Seeing /\ StartInv /\ InspectInv
  BY DEF IInv
<1>1. /\ cardPc \in StartPcs /\ Active
      /\ UNCHANGED <<readers, cards, consent, snapshot, size, listed, seen>>
  BY DEF QueryBefore, StartFails, RequestStart, Poll, hostVars, startVars, inspectVars,
     StartPcs, Active
<1>2. service' \in NativeStates
  <2>1. service' \in {service, "start_pending"}
    BY DEF QueryBefore, StartFails, RequestStart, Poll, hostVars
  <2> QED
    BY <1>0, <2>1 DEF CardTypeOK, NativeStates
<1>3. /\ Grown /\ Seeing' /\ EverOK'
      /\ service = "running" => ever'.running
      /\ service # "running" => ever'.down
  BY <1>1, <1>2, CallGrows
<1>4. snapshot = NoSnapshot
  BY <1>0, <1>1 DEF StartInv
<1>5. CASE QueryBefore
  <2>1. PICK before \in Queried :
           LET plan == PlanStart(before)
           IN /\ answer' = [before |-> before, after |-> before,
                            state |-> IF plan = "no_change" THEN "no_change" ELSE "blocked"]
              /\ cardPc' = IF plan = "start" THEN "open" ELSE "done"
    BY <1>5 DEF QueryBefore
  <2>2. /\ before \in ServiceStates
        /\ before = "running" => service = "running"
        /\ before # "running" => service # "running" \/ before = "inaccessible"
    BY <1>0, QueriedTrue DEF CardTypeOK
  <2>3. attempt' = attempt
    BY <1>5 DEF QueryBefore
  <2>4. /\ answer'.before = before /\ answer'.after = before
        /\ answer'.state = IF consent /\ before = "running" THEN "no_change" ELSE "blocked"
        /\ cardPc' = IF consent /\ before # "running" THEN "open" ELSE "done"
    BY <2>1 DEF PlanStart
  <2>5. CardTypeOK'
    BY <1>0, <1>1, <1>2, <2>1, <2>2, <2>3, <2>4 DEF CardTypeOK, StartPcs
  <2>6. StartInv' /\ InspectInv'
    BY <1>0, <1>1, <1>3, <1>4, <2>2, <2>3, <2>4 DEF StartInv, InspectInv, StartPcs, InspectPcs
  <2>7. AnswerTruthful'
    BY <1>1, <1>3, <2>2, <2>4 DEF AnswerTruthful
  <2> QED
    BY <1>1, <1>3, <1>4, <2>5, <2>6, <2>7 DEF IInv, SnapshotTruthful, NoSnapshot
<1>6. CASE StartFails
  <2>1. /\ cardPc = "open" /\ cardPc' = "done" /\ answer' = [answer EXCEPT !.state = "failed"]
        /\ attempt' = attempt
    BY <1>6 DEF StartFails
  <2>2. /\ answer'.state = "failed" /\ answer'.before = answer.before
        /\ consent
        /\ ever.down \/ answer.before = "inaccessible"
    BY <1>0, <2>1 DEF CardTypeOK, StartInv
  <2>3. CardTypeOK'
    BY <1>0, <1>1, <1>2, <2>1 DEF CardTypeOK, StartPcs
  <2>4. AnswerTruthful'
    BY <1>1, <1>3, <2>2 DEF AnswerTruthful, Grown
  <2> QED
    BY <1>1, <1>3, <1>4, <2>1, <2>3, <2>4
       DEF IInv, SnapshotTruthful, NoSnapshot, StartInv, InspectInv, StartPcs, InspectPcs
<1>7. CASE RequestStart
  <2>1. cardPc = "open" /\ cardPc' = "poll" /\ UNCHANGED <<answer, attempt>>
    BY <1>7 DEF RequestStart, startVars
  <2>2. CardTypeOK'
    BY <1>0, <1>1, <1>2, <2>1 DEF CardTypeOK, StartPcs
  <2> QED
    BY <1>0, <1>1, <1>3, <2>1, <2>2 DEF IInv, Grown, AnswerTruthful, SnapshotTruthful,
       StartInv, InspectInv, StartPcs, InspectPcs
<1>8. CASE Poll
  <2>1. PICK after \in Queried : LET over == after = "running" \/ attempt' = MaxAttempts
          IN /\ cardPc' = IF over THEN "done" ELSE "poll"
             /\ answer' = [answer EXCEPT !.after = after,
                              !.state = IF after = "running" THEN "applied"
                                        ELSE IF over THEN "failed" ELSE @]
    BY <1>8 DEF Poll
  <2>2. cardPc = "poll" /\ attempt' = attempt + 1
    BY <1>8 DEF Poll
  <2>3. after \in ServiceStates /\ (after = "running" => service = "running")
    BY <1>0, QueriedTrue DEF CardTypeOK
  <2>4. /\ consent /\ answer.before # "running" /\ answer.state = "blocked"
        /\ ever.down \/ answer.before = "inaccessible"
    BY <1>0, <2>2 DEF StartInv
  <2>5. /\ answer'.before = answer.before /\ answer'.after = after
        /\ answer'.state = IF after = "running" THEN "applied"
                           ELSE IF cardPc' = "done" THEN "failed" ELSE "blocked"
        /\ after = "running" => cardPc' = "done"
        /\ cardPc' \in {"poll", "done"}
    BY <1>0, <2>1, <2>4 DEF CardTypeOK
  <2>6. AnswerTruthful'
    BY <1>1, <1>3, <2>3, <2>4, <2>5 DEF AnswerTruthful, Grown
  <2>7. attempt' \in 0..MaxAttempts /\ (cardPc' = "poll" => attempt' < MaxAttempts)
    <3>1. attempt \in Nat /\ attempt < MaxAttempts
      BY <1>0, <1>1 DEF StartInv, CardTypeOK
    <3>2. cardPc' = "poll" => attempt' # MaxAttempts
      BY <2>1
    <3> QED
      BY <2>2, <3>1, <3>2, MaxAttemptsAssumption
  <2>8. StartInv' /\ InspectInv'
    BY <1>1, <1>3, <1>4, <2>4, <2>5, <2>7 DEF StartInv, InspectInv, Grown, StartPcs, InspectPcs
  <2>9. CardTypeOK'
    BY <1>0, <1>1, <1>2, <2>1, <2>3, <2>5, <2>7 DEF CardTypeOK, StartPcs
  <2> QED
    BY <1>1, <1>3, <1>4, <2>6, <2>8, <2>9 DEF IInv, SnapshotTruthful, NoSnapshot
<1> QED
  BY <1>5, <1>6, <1>7, <1>8

\* The steps of an inspection.
LEMMA InvInspect ==
    /\ IInv /\ Witness
    /\ \/ QueryService \/ EstablishContext \/ EnumerationFails
       \/ ListSize \/ ListReaders \/ ReadStatus \/ EndInspection
    => IInv'
<1> SUFFICES ASSUME IInv, Witness,
                    \/ QueryService \/ EstablishContext \/ EnumerationFails
                    \/ ListSize \/ ListReaders \/ ReadStatus \/ EndInspection
             PROVE  IInv'
  OBVIOUS
<1>0. CardTypeOK /\ EverOK /\ Seeing /\ StartInv /\ InspectInv
  BY DEF IInv
<1>1. /\ cardPc \in InspectPcs /\ Active
      /\ UNCHANGED <<service, readers, cards, consent, answer, attempt>>
  BY DEF QueryService, EstablishContext, EnumerationFails, ListSize, ListReaders, ReadStatus,
     EndInspection, hostVars, startVars, InspectPcs, Active
<1>2. cardPc' \in InspectPcs \cup {"done"}
  BY DEF QueryService, EstablishContext, EnumerationFails, ListSize, ListReaders, ReadStatus,
     EndInspection, InspectPcs
<1>3. /\ Grown /\ Seeing' /\ EverOK'
      /\ service = "running" => ever'.running
      /\ service # "running" => ever'.down
      /\ readers = {} => ever'.empty
      /\ cards \subseteq ever'.carded
      /\ Reader \ cards \subseteq ever'.cardless
  BY <1>0, <1>1, CallGrows DEF CardTypeOK
<1>4. answer' = NoAnswer
  BY <1>0, <1>1 DEF InspectInv
<1>5. AnswerTruthful' /\ StartInv'
  BY <1>2, <1>4 DEF AnswerTruthful, NoAnswer, StartInv, StartPcs, InspectPcs
<1>6. CASE QueryService
  <2>1. PICK state \in Queried :
           /\ snapshot' = [snapshot EXCEPT !.service = state, !.queried = (state = "running")]
           /\ cardPc' = IF state = "running" THEN "context" ELSE "done"
    BY <1>6 DEF QueryService
  <2>2. cardPc = "service" /\ snapshot = NoSnapshot /\ UNCHANGED <<size, listed, seen>>
        /\ \A r \in Reader : seen[r] = "unlisted"
    BY <1>0, <1>6 DEF QueryService, InspectInv
  <2>3. /\ state \in ServiceStates
        /\ state = "running" => service = "running"
        /\ state # "running" => service # "running" \/ state = "inaccessible"
    BY <1>0, QueriedTrue DEF CardTypeOK
  <2>4. /\ snapshot'.service = state /\ snapshot'.success = FALSE
        /\ snapshot'.queried <=> state = "running"
        /\ snapshot' \in [service : ServiceStates, queried : BOOLEAN, success : BOOLEAN]
    BY <2>1, <2>2, <2>3 DEF NoSnapshot
  <2>5. CardTypeOK'
    BY <1>0, <1>1, <1>2, <2>2, <2>4 DEF CardTypeOK
  <2>6. InspectInv'
    BY <1>3, <1>4, <2>1, <2>2, <2>3, <2>4 DEF InspectInv
  <2>7. SnapshotTruthful'
    BY <1>3, <2>1, <2>2, <2>3, <2>4 DEF SnapshotTruthful, Triage
  <2> QED
    BY <1>3, <1>5, <2>5, <2>6, <2>7 DEF IInv
<1>7. CASE EstablishContext \/ EnumerationFails
  <2>1. /\ cardPc \in {"context", "size", "list"} /\ cardPc' \in {"size", "done"}
        /\ UNCHANGED <<snapshot, size, listed, seen>>
    BY <1>7 DEF EstablishContext, EnumerationFails, inspectVars
  <2>2. /\ snapshot.service = "running" /\ snapshot.queried /\ ~snapshot.success
        /\ ever.running /\ \A r \in Reader : seen[r] = "unlisted"
    BY <1>0, <2>1 DEF InspectInv
  <2>3. CardTypeOK'
    BY <1>0, <1>1, <1>2, <2>1 DEF CardTypeOK
  <2>4. InspectInv'
    BY <1>3, <1>4, <2>1, <2>2 DEF InspectInv, Grown
  <2>5. SnapshotTruthful'
    BY <2>1, <2>2 DEF SnapshotTruthful, Triage
  <2> QED
    BY <1>3, <1>5, <2>3, <2>4, <2>5 DEF IInv
<1>8. CASE ListSize
  <2>1. /\ cardPc = "size" /\ size' = Cardinality(readers) /\ UNCHANGED <<listed, seen>>
        /\ IF readers = {}
           THEN cardPc' = "done" /\ snapshot' = [snapshot EXCEPT !.success = TRUE]
           ELSE cardPc' = "list" /\ snapshot' = snapshot
    BY <1>8 DEF ListSize
  <2>2. size' \in Nat
    <3>1. readers \subseteq Reader
      BY <1>0 DEF CardTypeOK
    <3>2. IsFiniteSet(readers)
      BY <3>1, ReaderAssumption, FS_Subset
    <3> QED
      BY <2>1, <3>2, FS_CardinalityType
  <2>3. /\ snapshot.service = "running" /\ snapshot.queried /\ ~snapshot.success
        /\ ever.running /\ \A r \in Reader : seen[r] = "unlisted"
    BY <1>0, <2>1 DEF InspectInv
  <2>4. /\ snapshot'.service = "running" /\ snapshot'.queried
        /\ cardPc' = "list" => ~snapshot'.success
        /\ snapshot' \in [service : ServiceStates, queried : BOOLEAN, success : BOOLEAN]
    BY <1>0, <2>1, <2>3 DEF CardTypeOK
  <2>5. CardTypeOK'
    BY <1>0, <1>1, <1>2, <2>1, <2>2, <2>4 DEF CardTypeOK
  <2>6. InspectInv'
    BY <1>3, <1>4, <2>1, <2>3, <2>4 DEF InspectInv, Grown
  <2>7. SnapshotTruthful'
    BY <1>3, <2>1, <2>3, <2>4 DEF SnapshotTruthful, Triage, Grown
  <2> QED
    BY <1>3, <1>5, <2>5, <2>6, <2>7 DEF IInv
<1>9. CASE ListReaders
  <2>1. /\ cardPc = "list" /\ UNCHANGED <<snapshot, size, seen>>
        /\ IF readers # {} /\ Cardinality(readers) <= size
           THEN cardPc' = "status" /\ listed' = readers
           ELSE cardPc' = "done" /\ listed' = listed
    BY <1>9 DEF ListReaders
  <2>2. /\ snapshot.service = "running" /\ snapshot.queried /\ ~snapshot.success
        /\ ever.running /\ \A r \in Reader : seen[r] = "unlisted"
    BY <1>0, <2>1 DEF InspectInv
  <2>3. CardTypeOK'
    BY <1>0, <1>1, <1>2, <2>1 DEF CardTypeOK
  <2>6. Reader \ readers \subseteq ever'.cardless
    BY <1>0, <1>3 DEF CardTypeOK
  <2>4. InspectInv'
    BY <1>3, <1>4, <2>1, <2>2, <2>6 DEF InspectInv, Grown
  <2>5. SnapshotTruthful'
    BY <2>1, <2>2 DEF SnapshotTruthful, Triage
  <2> QED
    BY <1>3, <1>5, <2>3, <2>4, <2>5 DEF IInv
<1>10. CASE ReadStatus
  <2>1. PICK r \in listed :
           /\ listed' = listed \ {r}
           /\ \/ seen' = [seen EXCEPT ![r] = "unavailable"]
              \/ seen' = [seen EXCEPT ![r] = IF r \in cards THEN "card" ELSE "empty"]
    BY <1>10 DEF ReadStatus
  <2>2. cardPc = "status" /\ cardPc' = "status" /\ UNCHANGED <<snapshot, size>>
    BY <1>10 DEF ReadStatus
  <2>3. r \in Reader /\ seen \in [Reader -> {"unlisted", "card", "empty", "unavailable"}]
    BY <1>0 DEF CardTypeOK
  <2>4. /\ seen' \in [Reader -> {"unlisted", "card", "empty", "unavailable"}]
        /\ seen'[r] # "unlisted"
        /\ seen'[r] = "card" => r \in cards
        /\ seen'[r] = "empty" => r \notin cards
        /\ \A other \in Reader \ {r} : seen'[other] = seen[other]
    BY <2>1, <2>3
  <2>5. CardTypeOK'
    BY <1>0, <1>1, <1>2, <2>1, <2>2, <2>4 DEF CardTypeOK
  <2>6. InspectInv'
    BY <1>0, <1>3, <1>4, <2>1, <2>2, <2>3, <2>4 DEF InspectInv, Grown
  <2> QED
    BY <1>3, <1>5, <2>2, <2>5, <2>6 DEF IInv, SnapshotTruthful
<1>11. CASE EndInspection
  <2>1. /\ cardPc = "status" /\ cardPc' = "done" /\ listed = {} /\ UNCHANGED <<size, listed, seen>>
        /\ snapshot' = [snapshot EXCEPT !.success = TRUE]
    BY <1>11 DEF EndInspection
  <2>2. /\ snapshot.service = "running" /\ snapshot.queried /\ ever.running
        /\ \E r \in Reader : seen[r] # "unlisted"
        /\ \A r \in Reader : seen[r] = "card" => r \in ever.carded
        /\ \A r \in Reader : seen[r] = "empty" => r \in ever.cardless
        /\ \A r \in Reader : seen[r] = "unlisted" => r \in ever.cardless
    BY <1>0, <2>1 DEF InspectInv
  <2>3. /\ snapshot'.service = "running" /\ snapshot'.queried
        /\ snapshot' \in [service : ServiceStates, queried : BOOLEAN, success : BOOLEAN]
    BY <1>0, <2>1, <2>2 DEF CardTypeOK
  <2>4. CardTypeOK'
    BY <1>0, <1>1, <1>2, <2>1, <2>3 DEF CardTypeOK
  <2>5. InspectInv'
    BY <2>1 DEF InspectInv, InspectPcs
  <2>7. Triage' = "device_absent" => \A r \in Reader \ ever'.cardless : seen[r] = "unavailable"
    <3>1. seen \in [Reader -> {"unlisted", "card", "empty", "unavailable"}]
      BY <1>0 DEF CardTypeOK
    <3> QED
      BY <1>3, <2>1, <2>2, <2>3, <3>1 DEF Triage, Grown
  <2>6. SnapshotTruthful'
    BY <1>3, <2>1, <2>2, <2>3, <2>7 DEF SnapshotTruthful, Triage, Grown
  <2> QED
    BY <1>3, <1>5, <2>4, <2>5, <2>6 DEF IInv
<1> QED
  BY <1>6, <1>7, <1>8, <1>9, <1>10, <1>11

-----------------------------------------------------------------------------
(* The theorems. *)

\* Every step keeps the invariant.
LEMMA SmartCardStep == IInv /\ [CardNext]_cardVars => IInv'
<1> SUFFICES ASSUME IInv, [CardNext]_cardVars PROVE IInv'
  OBVIOUS
<1>1. CASE UNCHANGED cardVars
  BY <1>1 DEF cardVars, hostVars, startVars, inspectVars, IInv, CardTypeOK, EverOK, Seeing, Active,
     StartInv, InspectInv, AnswerTruthful, SnapshotTruthful, Triage
<1>2. CASE UserStep /\ Witness
  BY <1>2, InvBegin
<1>3. CASE HostMoves /\ Witness
  BY <1>3, InvHost
<1>4. CASE OperationStep /\ Witness
  BY <1>4, InvStart, InvInspect DEF OperationStep
<1> QED
  BY <1>1, <1>2, <1>3, <1>4 DEF CardNext

\* The invariant holds in every state of a behaviour.
LEMMA SmartCardInvariant == CardSpec => []IInv
BY SmartCardInit, SmartCardStep, PTL DEF CardSpec

\* A start says what was so of the service at some instant of the call.
THEOREM StartAnswers == CardSpec => []AnswerTruthful
<1>1. IInv => AnswerTruthful
  BY DEF IInv
<1> QED
  BY SmartCardInvariant, <1>1, PTL

\* Each reading of an inspection was so at some instant of the call, and
\* "device absent" misses no card that stayed in a reader that could be asked.
THEOREM InspectionAnswers == CardSpec => []SnapshotTruthful
<1>1. IInv => SnapshotTruthful
  BY DEF IInv
<1> QED
  BY SmartCardInvariant, <1>1, PTL

\* Windows is asked to start the service only with consent, and only by a call
\* that did not find it running.
THEOREM StartNeedsConsent == CardSpec => StartsOnlyWithConsent
<1>1. IInv /\ [CardNext]_cardVars =>
         [cardPc' # cardPc /\ service' # service => consent /\ answer.before # "running"]_cardVars
  <2> SUFFICES ASSUME IInv, CardNext, cardPc' # cardPc, service' # service
               PROVE  consent /\ answer.before # "running"
    BY DEF cardVars
  <2>1. RequestStart
    BY DEF CardNext, OperationStep, UserStep, HostMoves, QueryBefore, StartFails, Poll,
       QueryService, EstablishContext, EnumerationFails, ListSize, ListReaders, ReadStatus,
       EndInspection, CallStart, CallInspect, Begin, hostVars
  <2> QED
    BY <2>1 DEF IInv, StartInv, RequestStart
<1> QED
  BY SmartCardInvariant, <1>1, PTL DEF CardSpec, StartsOnlyWithConsent

-----------------------------------------------------------------------------
(* Termination, as far as it is a matter of safety. *)

\* No more steps than these are left to the call in progress.
CallLeft ==
    CASE cardPc = "before"  -> MaxAttempts + 3
      [] cardPc = "open"    -> MaxAttempts + 2
      [] cardPc = "poll"    -> (MaxAttempts - attempt) + 1
      [] cardPc = "service" -> Cardinality(Reader) + 5
      [] cardPc = "context" -> Cardinality(Reader) + 4
      [] cardPc = "size"    -> Cardinality(Reader) + 3
      [] cardPc = "list"    -> Cardinality(Reader) + 2
      [] cardPc = "status"  -> Cardinality(listed) + 1
      [] OTHER          -> 0

\* A list of readers is finite.
LEMMA ListFinite ==
    ASSUME CardTypeOK
    PROVE  /\ IsFiniteSet(listed) /\ Cardinality(listed) \in 0..Cardinality(Reader)
           /\ IsFiniteSet(readers) /\ Cardinality(readers) \in 0..Cardinality(Reader)
           /\ Cardinality(Reader) \in Nat
BY ReaderAssumption, FS_Subset, FS_CardinalityType DEF CardTypeOK

\* Each step of a call leaves it fewer.
LEMMA CallStepsDown ==
    ASSUME IInv, OperationStep
    PROVE  CallLeft' < CallLeft
<1>0. /\ MaxAttempts \in Nat /\ attempt \in 0..MaxAttempts
      /\ Cardinality(Reader) \in Nat /\ IsFiniteSet(listed)
      /\ Cardinality(listed) \in 0..Cardinality(Reader)
      /\ Cardinality(readers) \in 0..Cardinality(Reader)
  BY ListFinite, MaxAttemptsAssumption DEF IInv, CardTypeOK
<1>1. cardPc \in StartPcs => attempt < MaxAttempts
  BY DEF IInv, StartInv
<1> USE DEF CallLeft
<1>2. CASE QueryBefore \/ StartFails
  BY <1>0, <1>2 DEF QueryBefore, StartFails
<1>3. CASE RequestStart
  BY <1>0, <1>3 DEF RequestStart, startVars
<1>4. CASE Poll
  <2>1. cardPc = "poll" /\ cardPc' \in {"poll", "done"} /\ attempt' = attempt + 1
    BY <1>4 DEF Poll
  <2> QED
    BY <1>0, <1>1, <2>1 DEF StartPcs
<1>5. CASE QueryService \/ EstablishContext \/ EnumerationFails \/ ListSize
  <2>1. \/ cardPc = "service" /\ cardPc' \in {"context", "done"}
        \/ cardPc = "context" /\ cardPc' \in {"size", "done"}
        \/ cardPc = "size" /\ cardPc' \in {"list", "done"}
        \/ cardPc = "list" /\ cardPc' = "done"
    BY <1>5 DEF QueryService, EstablishContext, EnumerationFails, ListSize
  <2>2. CASE cardPc = "service" /\ cardPc' \in {"context", "done"}
    BY <1>0, <2>2
  <2>3. CASE cardPc = "context" /\ cardPc' \in {"size", "done"}
    BY <1>0, <2>3
  <2>4. CASE cardPc = "size" /\ cardPc' \in {"list", "done"}
    BY <1>0, <2>4
  <2>5. CASE cardPc = "list" /\ cardPc' = "done"
    BY <1>0, <2>5
  <2> QED
    BY <2>1, <2>2, <2>3, <2>4, <2>5
<1>6. CASE ListReaders
  <2>1. cardPc = "list" /\ (cardPc' = "done" \/ (cardPc' = "status" /\ listed' = readers))
    BY <1>6 DEF ListReaders
  <2> QED
    BY <1>0, <2>1
<1>7. CASE ReadStatus
  <2>1. PICK r \in listed : listed' = listed \ {r}
    BY <1>7 DEF ReadStatus
  <2>2. Cardinality(listed') = Cardinality(listed) - 1
    BY <1>0, <2>1, FS_RemoveElement
  <2>3. cardPc = "status" /\ cardPc' = "status"
    BY <1>7 DEF ReadStatus
  <2> QED
    BY <1>0, <2>2, <2>3
<1>8. CASE EndInspection
  BY <1>0, <1>8 DEF EndInspection
<1> QED
  BY <1>2, <1>3, <1>4, <1>5, <1>6, <1>7, <1>8 DEF OperationStep

\* A start is over after MaxAttempts + 3 of its steps and an inspection after
\* five more than there are readers: nothing that the service or the readers
\* do meanwhile gives a call more to do (src/actions.cpp:76 and
\* src/smartcard.cpp:54-116).
THEOREM CallsRunOut ==
    CardSpec => /\ [](/\ cardPc \in StartPcs => CallLeft \in 1..(MaxAttempts + 3)
                      /\ cardPc \in InspectPcs => CallLeft \in 1..(Cardinality(Reader) + 5))
                /\ [][/\ OperationStep => CallLeft' < CallLeft
                      /\ HostMoves => CallLeft' = CallLeft
                      /\ UserStep => CallLeft = 0]_cardVars
<1>1. IInv => /\ cardPc \in StartPcs => CallLeft \in 1..(MaxAttempts + 3)
              /\ cardPc \in InspectPcs => CallLeft \in 1..(Cardinality(Reader) + 5)
  <2> SUFFICES ASSUME IInv
               PROVE  /\ cardPc \in StartPcs => CallLeft \in 1..(MaxAttempts + 3)
                      /\ cardPc \in InspectPcs => CallLeft \in 1..(Cardinality(Reader) + 5)
    OBVIOUS
  <2>1. /\ MaxAttempts \in Nat /\ attempt \in 0..MaxAttempts
        /\ Cardinality(Reader) \in Nat /\ Cardinality(listed) \in 0..Cardinality(Reader)
    BY ListFinite, MaxAttemptsAssumption DEF IInv, CardTypeOK
  <2>2. cardPc \in StartPcs => CallLeft \in 1..(MaxAttempts + 3)
    BY <2>1 DEF CallLeft, StartPcs
  <2>3. cardPc \in InspectPcs => CallLeft \in 1..(Cardinality(Reader) + 5)
    BY <2>1 DEF CallLeft, InspectPcs
  <2> QED
    BY <2>2, <2>3
<1>2. HostMoves => CallLeft' = CallLeft
  BY DEF HostMoves, startVars, inspectVars, CallLeft
<1>3. UserStep => CallLeft = 0
  BY DEF UserStep, CallStart, CallInspect, Begin, CallLeft
<1>4. IInv /\ [CardNext]_cardVars => [/\ OperationStep => CallLeft' < CallLeft
                                      /\ HostMoves => CallLeft' = CallLeft
                                      /\ UserStep => CallLeft = 0]_cardVars
  BY <1>2, <1>3, CallStepsDown
<1> QED
  BY <1>1, <1>4, SmartCardInvariant, PTL DEF CardSpec

=============================================================================

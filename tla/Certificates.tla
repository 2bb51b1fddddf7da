---------------------------- MODULE Certificates ----------------------------
(***************************************************************************)
(* The listing of a personal certificate store (src/certificates.cpp), the *)
(* order in which the window shows it (src/ui_model.cpp) and the           *)
(* evaluation of one certificate's chain.  The store that CertOpenStore    *)
(* opens is the store of that instant; the clock is read again for every   *)
(* certificate and moves, or is set, meanwhile.                            *)
(***************************************************************************)
EXTENDS FiniteSets, Naturals, Sequences

CONSTANTS Cert,            \* certificates that may be installed
          ValidFrom,       \* NotBefore of each
          ValidUntil,      \* NotAfter of each
          ExpiringWindow,  \* thirty_days
          LastInstant      \* bound: instants of the clock

ConstantsOK ==
    /\ ValidFrom \in [Cert -> Nat] /\ ValidUntil \in [Cert -> Nat]
    /\ ExpiringWindow \in Nat /\ LastInstant \in Nat

VARIABLES now,             \* the system time
          keyed,           \* the certificates with a private key associated
          call,            \* where the call in progress is
          store,           \* certificates of the open store not yet enumerated
          result,          \* CertificateStoreResult
          chain,           \* ChainEvaluation, and the flags Windows answered
          handles,         \* store, context and chain handles not yet freed
          seen             \* history: what held and happened since the call

resultVars == <<store, result>>
certVars == <<now, keyed, call, resultVars, chain, handles, seen>>

NoResult == [opened |-> FALSE, error |-> FALSE, certificates |-> <<>>]
NoChain  == [built |-> FALSE, error |-> FALSE, online |-> FALSE, flags |-> {}, issues |-> {}]

Init ==
    /\ now = 0 /\ keyed = {} /\ call = "idle"
    /\ store = {} /\ result = NoResult /\ chain = NoChain /\ handles = {}
    /\ seen = [instants |-> {}, installed |-> {}, brokenOff |-> FALSE]

\* The clock goes on or is set.
Clock ==
    /\ call \in {"idle", "enumerate"}
    /\ now' \in (0..LastInstant) \ {now}
    /\ seen' = [seen EXCEPT !.instants = IF call = "idle" THEN @ ELSE @ \cup {now'}]
    /\ UNCHANGED <<keyed, call, resultVars, chain, handles>>

-----------------------------------------------------------------------------
\* Mutant of Validity: the end is not looked at, and the unsigned difference
\* wraps around (at LastInstant + 1 here).
ValidityUnguarded(from, until, instant) ==
    IF instant < from THEN "not_yet_valid"
    ELSE IF (until - instant) % (LastInstant + 1) <= ExpiringWindow THEN "expiring_soon"
    ELSE "valid"

\* classify_certificate_validity
Validity(from, until, instant) ==
    IF instant < from THEN "not_yet_valid"
    ELSE IF instant > until THEN "expired"
    ELSE IF until - instant <= ExpiringWindow THEN "expiring_soon"
    ELSE "valid"

(* enumerate_personal_certificates *)

\* CertOpenStore: the certificates of this instant, or an error.
OpenStore(installed, withKey) ==
    /\ call = "idle"
    /\ call' = "enumerate"
    /\ keyed' = withKey /\ store' = installed
    /\ result' = [result EXCEPT !.opened = TRUE]
    /\ handles' = {"store"}
    /\ seen' = [seen EXCEPT !.instants = {now}, !.installed = installed]
    /\ UNCHANGED <<now, chain>>

OpenStoreFails ==
    /\ call = "idle"
    /\ call' = "done"
    /\ result' = [result EXCEPT !.error = TRUE]
    /\ UNCHANGED <<now, keyed, store, chain, handles, seen>>

\* read_private_key_association: each of its two calls may go unanswered.
KeyReadings(cert) == {key \in BOOLEAN : key => cert \in keyed}

\* One round of the loop.  CertEnumCertificatesInStore frees the context it is
\* given and returns the next one; its dates are held against the clock.
ListCertificate(cert) ==
    /\ call = "enumerate" /\ cert \in store
    /\ store' = store \ {cert}
    /\ handles' = {"store", "context"}
    /\ \E key \in KeyReadings(cert) :
          result' = [result EXCEPT !.certificates = Append(@,
              [cert |-> cert, validity |-> Validity(ValidFrom[cert], ValidUntil[cert], now),
               has_private_key_association |-> key])]
    /\ UNCHANGED <<now, keyed, call, chain, seen>>

\* A null context: the store has no more, or the enumeration broke off; the
\* code does not tell them apart.
EndOfStore ==
    /\ call = "enumerate"
    /\ call' = "done"
    /\ handles' = {}
    /\ seen' = [seen EXCEPT !.brokenOff = store # {}]
    /\ UNCHANGED <<now, keyed, resultVars, chain>>

-----------------------------------------------------------------------------
(* evaluate_chain *)

\* The flags of dwErrorStatus that the code names, and one for all the others.
IssueOf == [not_time_valid |-> "expired", untrusted_root |-> "untrusted_root",
            partial_chain |-> "partial_chain", revoked |-> "revoked",
            revocation_status_unknown |-> "revocation_unknown",
            offline_revocation |-> "revocation_unknown",
            invalid_basic_constraints |-> "invalid_basic_constraints",
            unnamed |-> "other"]
ChainFlags == DOMAIN IssueOf

\* Mutant of ClassifyChainIssues: what the table does not name is dropped.
ClassifyChainIssuesNamed(flags) == {IssueOf[flag] : flag \in flags \ {"unnamed"}}

\* classify_chain_issues, without the order of the vector.
ClassifyChainIssues(flags) == {IssueOf[flag] : flag \in flags}

\* CertCreateCertificateContext.
CreateContext(online) ==
    /\ call = "idle"
    /\ call' = "build" /\ handles' = {"context"}
    /\ chain' = [chain EXCEPT !.online = online]
    /\ UNCHANGED <<now, keyed, resultVars, seen>>

\* There is nothing to decode, or it does not decode.
DecodeFails(online) ==
    /\ call = "idle"
    /\ call' = "done"
    /\ chain' = [chain EXCEPT !.online = online, !.error = TRUE]
    /\ UNCHANGED <<now, keyed, resultVars, handles, seen>>

\* CertGetCertificateChain.
BuildFails ==
    /\ call = "build"
    /\ call' = "done" /\ handles' = {}
    /\ chain' = [chain EXCEPT !.error = TRUE]
    /\ UNCHANGED <<now, keyed, resultVars, seen>>

Build(flags) ==
    /\ call = "build"
    /\ call' = "free" /\ handles' = {"context", "chain"}
    /\ chain' = [chain EXCEPT !.built = TRUE, !.flags = flags,
                              !.issues = ClassifyChainIssues(flags)]
    /\ UNCHANGED <<now, keyed, resultVars, seen>>

FreeChain ==
    /\ call = "free"
    /\ call' = "done" /\ handles' = {}
    /\ UNCHANGED <<now, keyed, resultVars, chain, seen>>

Next ==
    \/ Clock
    \/ \E installed \in SUBSET Cert : \E withKey \in SUBSET installed : OpenStore(installed, withKey)
    \/ OpenStoreFails \/ (\E cert \in Cert : ListCertificate(cert)) \/ EndOfStore
    \/ \E online \in BOOLEAN : CreateContext(online) \/ DecodeFails(online)
    \/ BuildFails \/ (\E flags \in SUBSET ChainFlags : Build(flags)) \/ FreeChain

Spec == Init /\ [][Next]_certVars

-----------------------------------------------------------------------------
(* What the window makes of the result. *)

\* certificate_support_priority
Priority(record) ==
    IF record.validity = "expired" THEN 0
    ELSE IF record.validity = "not_yet_valid" THEN 1
    ELSE IF record.validity = "expiring_soon" THEN 2
    ELSE IF record.has_private_key_association THEN 4 ELSE 3

\* The place of entry i in build_certificate_display_order: a stable sort puts
\* before it what has a smaller priority, and of its own what came earlier.
Place(certificates, i) ==
    1 + Cardinality({j \in DOMAIN certificates :
            \/ Priority(certificates[j]) < Priority(certificates[i])
            \/ Priority(certificates[j]) = Priority(certificates[i]) /\ j < i})

-----------------------------------------------------------------------------
(* Properties. *)

Listed == {result.certificates[i].cert : i \in DOMAIN result.certificates}

\* What a reading says of a certificate at an instant.
InForce(cert, t) == ValidFrom[cert] <= t /\ t <= ValidUntil[cert]
Reads(validity, cert, t) ==
    /\ validity = "not_yet_valid" => t < ValidFrom[cert]
    /\ validity = "expired"       => t > ValidUntil[cert]
    /\ validity = "expiring_soon" => InForce(cert, t) /\ t + ExpiringWindow >= ValidUntil[cert]
    /\ validity = "valid"         => InForce(cert, t) /\ t + ExpiringWindow < ValidUntil[cert]

\* Whatever the clock does and whichever call fails, the result says of each
\* certificate what was so at an instant of the call: it lists certificates of
\* the store that was opened, each once, all of them unless the enumeration
\* broke off, with a validity of that instant and a key only where one is
\* associated; and a chain without issue is one Windows found nothing wrong in.
ReadingsTruthful ==
    call = "done" =>
        /\ \A i, j \in DOMAIN result.certificates :
              result.certificates[i].cert = result.certificates[j].cert => i = j
        /\ Listed \subseteq seen.installed
        /\ ~seen.brokenOff => Listed = seen.installed
        /\ \A i \in DOMAIN result.certificates : LET record == result.certificates[i]
           IN /\ \E t \in seen.instants : Reads(record.validity, record.cert, t)
              /\ record.has_private_key_association => record.cert \in keyed
        /\ chain.built => (chain.issues = {} <=> chain.flags = {})

\* Each entry is shown in a place of its own, and a certificate that was
\* expired during the whole listing stands above every one that was in force
\* during the whole of it, however their readings were spread over the clock
\* (docs/25_PRIORIDADE_CERTIFICADOS_INSTALADOS.md:9).
AttentionFirst ==
    call = "done" =>
        LET all == result.certificates
        IN /\ {Place(all, i) : i \in DOMAIN all} = DOMAIN all
           /\ \A i, j \in DOMAIN all :
                 /\ \A t \in seen.instants : t > ValidUntil[all[i].cert]
                 /\ \A t \in seen.instants : InForce(all[j].cert, t)
                 => Place(all, i) < Place(all, j)

\* A call leaves no store, context or chain open, whichever step failed.
NothingLeftOpen == call = "done" => handles = {}

=============================================================================

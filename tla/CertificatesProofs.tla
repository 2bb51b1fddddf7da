------------------------ MODULE CertificatesProofs ------------------------
(* Proofs about Certificates, for any set of certificates with any dates,   *)
(* any window and a clock of any length.                                    *)
EXTENDS Certificates, FiniteSetTheorems, TLAPS

-----------------------------------------------------------------------------
(* Readings and places. *)

Readings == {"not_yet_valid", "expired", "expiring_soon", "valid"}
Records == [cert : Cert, validity : Readings, has_private_key_association : BOOLEAN]

Issues == {IssueOf[flag] : flag \in ChainFlags}

\* classify_certificate_validity says what is so at the instant it is given.
LEMMA ValidityReads ==
    ASSUME ConstantsOK, NEW cert \in Cert, NEW t \in Nat
    PROVE  /\ Validity(ValidFrom[cert], ValidUntil[cert], t) \in Readings
           /\ Reads(Validity(ValidFrom[cert], ValidUntil[cert], t), cert, t)
<1>1. ValidFrom[cert] \in Nat /\ ValidUntil[cert] \in Nat /\ ExpiringWindow \in Nat
  BY DEF ConstantsOK
<1> QED
  BY <1>1 DEF Validity, Readings, Reads, InForce

\* A priority is a number.
LEMMA PriorityType == ASSUME NEW record \in Records PROVE Priority(record) \in 0..4
BY DEF Records, Readings, Priority

\* The entries that a stable sort puts before entry i.
Before(certificates, i) ==
    {j \in DOMAIN certificates :
        \/ Priority(certificates[j]) < Priority(certificates[i])
        \/ Priority(certificates[j]) = Priority(certificates[i]) /\ j < i}

\* Places are within the list.
LEMMA PlaceInList ==
    ASSUME NEW certificates \in Seq(Records), NEW i \in DOMAIN certificates
    PROVE  /\ IsFiniteSet(Before(certificates, i))
           /\ Cardinality(Before(certificates, i)) \in Nat
           /\ Place(certificates, i) = 1 + Cardinality(Before(certificates, i))
           /\ Place(certificates, i) \in DOMAIN certificates
<1>0. PICK n \in Nat : n = Len(certificates) /\ DOMAIN certificates = 1..n
  OBVIOUS
<1>1. \A j \in DOMAIN certificates : Priority(certificates[j]) \in 0..4
  BY PriorityType
<1>2. Before(certificates, i) \subseteq (1..n) \ {i}
  BY <1>0, <1>1 DEF Before
<1>3. IsFiniteSet((1..n) \ {i}) /\ Cardinality((1..n) \ {i}) = n - 1
  <2>1. /\ IsFiniteSet(1..n)
        /\ Cardinality(1..n) = IF 1 > n THEN 0 ELSE n - 1 + 1
    BY ONLY FS_Interval, n \in Int, 1 \in Int
  <2>2. Cardinality(1..n) = n
    BY <2>1
  <2> QED
    BY <2>1, <2>2, <1>0, FS_RemoveElement
<1>4. IsFiniteSet(Before(certificates, i)) /\ Cardinality(Before(certificates, i)) <= n - 1
  BY <1>2, <1>3, FS_Subset
<1>5. Cardinality(Before(certificates, i)) \in Nat
  BY <1>4, FS_CardinalityType
<1> QED
  BY <1>0, <1>4, <1>5 DEF Place, Before

\* Who comes before has the smaller place.
LEMMA PlaceIncreases ==
    ASSUME NEW certificates \in Seq(Records),
           NEW i \in DOMAIN certificates, NEW j \in DOMAIN certificates,
           i \in Before(certificates, j)
    PROVE  Place(certificates, i) < Place(certificates, j)
<1>1. \A k \in DOMAIN certificates : Priority(certificates[k]) \in 0..4 /\ k \in Int
  BY PriorityType
<1>2. Before(certificates, i) \cup {i} \subseteq Before(certificates, j)
  BY <1>1 DEF Before
<1>3. i \notin Before(certificates, i)
  BY <1>1 DEF Before
<1>4. Cardinality(Before(certificates, i) \cup {i}) = Cardinality(Before(certificates, i)) + 1
  BY <1>3, PlaceInList, FS_AddElement
<1>5. Cardinality(Before(certificates, i) \cup {i}) <= Cardinality(Before(certificates, j))
  BY <1>2, PlaceInList, FS_Subset
<1> QED
  BY <1>4, <1>5, PlaceInList

\* The order of the window is a permutation: no entry is lost or shown twice.
LEMMA PlacesPermute ==
    ASSUME NEW certificates \in Seq(Records)
    PROVE  {Place(certificates, i) : i \in DOMAIN certificates} = DOMAIN certificates
<1>0. PICK n \in Nat : n = Len(certificates) /\ DOMAIN certificates = 1..n
  OBVIOUS
<1> DEFINE place == [i \in 1..n |-> Place(certificates, i)]
<1>1. place \in [1..n -> 1..n]
  BY <1>0, PlaceInList
<1>2. ASSUME NEW i \in 1..n, NEW j \in 1..n, i # j PROVE place[i] # place[j]
  <2>1. Priority(certificates[i]) \in 0..4 /\ Priority(certificates[j]) \in 0..4
    BY <1>0, PriorityType
  <2>2. i \in Before(certificates, j) \/ j \in Before(certificates, i)
    BY <1>0, <1>2, <2>1 DEF Before
  <2>3. Place(certificates, i) \in 1..n /\ Place(certificates, j) \in 1..n
    BY <1>0, PlaceInList
  <2> QED
    BY <1>0, <2>2, <2>3, PlaceIncreases
<1>3. place \in Injection(1..n, 1..n)
  BY <1>1, <1>2 DEF Injection, IsInjective
<1>4. IsFiniteSet(1..n)
  BY FS_Interval
<1>5. place \in Surjection(1..n, 1..n)
  BY <1>3, <1>4, FS_Injection
<1>6. \A k \in 1..n : \E i \in 1..n : place[i] = k
  BY <1>5 DEF Surjection
<1> QED
  BY <1>0, <1>1, <1>6

-----------------------------------------------------------------------------
(* The listing. *)

CallTypeOK ==
    /\ now \in Nat
    /\ keyed \subseteq Cert
    /\ call \in {"idle", "enumerate", "build", "free", "done"}
    /\ store \subseteq Cert
    /\ result \in [opened : BOOLEAN, error : BOOLEAN, certificates : Seq(Records)]
    /\ chain \in [built : BOOLEAN, error : BOOLEAN, online : BOOLEAN,
                  flags : SUBSET ChainFlags, issues : SUBSET Issues]
    /\ seen \in [instants : SUBSET Nat, installed : SUBSET Cert, brokenOff : BOOLEAN]

\* Until a store is opened nothing is listed.
NothingYet ==
    call \in {"idle", "build", "free"} =>
        result.certificates = <<>> /\ seen.installed = {} /\ ~seen.brokenOff

\* While the store is enumerated each of its certificates is either listed or
\* still to come, and the clock stands at an instant of the call.
HalfListed ==
    call = "enumerate" =>
        /\ now \in seen.instants
        /\ Listed \cup store = seen.installed
        /\ Listed \cap store = {}
        /\ ~seen.brokenOff

\* What is listed was so at an instant of the call, each certificate once.
EntriesTrue ==
    /\ \A i, j \in DOMAIN result.certificates :
          result.certificates[i].cert = result.certificates[j].cert => i = j
    /\ \A i \in DOMAIN result.certificates : LET record == result.certificates[i]
       IN /\ \E t \in seen.instants : Reads(record.validity, record.cert, t)
          /\ record.has_private_key_association => record.cert \in keyed

\* After the call.
AllListed ==
    call = "done" =>
        /\ Listed \subseteq seen.installed
        /\ ~seen.brokenOff => Listed = seen.installed

IssuesFollow == chain.built => chain.issues = ClassifyChainIssues(chain.flags)

IInv == CallTypeOK /\ NothingYet /\ HalfListed /\ EntriesTrue /\ AllListed /\ IssuesFollow

\* The first call finds nothing listed.
LEMMA CertInit == ConstantsOK /\ Init => IInv
<1> SUFFICES ASSUME ConstantsOK, Init PROVE IInv
  OBVIOUS
<1>1. CallTypeOK
  BY DEF Init, CallTypeOK, NoResult, NoChain
<1>2. result.certificates = <<>>
  BY DEF Init, NoResult
<1> QED
  BY <1>1, <1>2 DEF Init, IInv, NothingYet, HalfListed, EntriesTrue, AllListed, IssuesFollow,
     NoChain, NoResult

\* One round of the loop lists a certificate that was not listed before, with
\* what is so at this instant.
LEMMA CertList ==
    ASSUME ConstantsOK, IInv, NEW cert \in Cert, ListCertificate(cert)
    PROVE  IInv'
<1>0. PICK n \in Nat : n = Len(result.certificates)
  BY DEF IInv, CallTypeOK
<1>1. PICK key \in BOOLEAN :
         /\ key => cert \in keyed
         /\ result' = [result EXCEPT !.certificates = Append(@,
               [cert |-> cert, validity |-> Validity(ValidFrom[cert], ValidUntil[cert], now),
                has_private_key_association |-> key])]
  BY DEF ListCertificate, KeyReadings
<1>2. PICK reading \in Readings :
         /\ reading = Validity(ValidFrom[cert], ValidUntil[cert], now)
         /\ Reads(reading, cert, now)
  BY ValidityReads DEF IInv, CallTypeOK
<1>3. PICK record \in Records :
         record = [cert |-> cert, validity |-> reading, has_private_key_association |-> key]
  BY DEF Records
<1>4. /\ call = "enumerate" /\ cert \in store /\ store' = store \ {cert}
      /\ UNCHANGED <<now, keyed, call, chain, seen>>
  BY DEF ListCertificate
<1>5. result.certificates \in Seq(Records)
  BY DEF IInv, CallTypeOK
<1>6. /\ result'.certificates = Append(result.certificates, record)
      /\ result' \in [opened : BOOLEAN, error : BOOLEAN, certificates : Seq(Records)]
  <2>1. result' = [result EXCEPT !.certificates = Append(@, record)]
    BY <1>1, <1>2, <1>3
  <2>2. Append(result.certificates, record) \in Seq(Records)
    BY <1>5
  <2>3. result \in [opened : BOOLEAN, error : BOOLEAN, certificates : Seq(Records)]
    BY DEF IInv, CallTypeOK
  <2> QED
    BY <2>1, <2>2, <2>3
<1>7. /\ DOMAIN result.certificates = 1..n /\ DOMAIN result'.certificates = 1..(n + 1)
      /\ result'.certificates[n + 1] = record
      /\ \A i \in 1..n : result'.certificates[i] = result.certificates[i]
  BY <1>0, <1>5, <1>6
<1>8. Listed' = Listed \cup {cert}
  <2>1. Listed = {result.certificates[i].cert : i \in 1..n}
    BY <1>7 DEF Listed
  <2>2. Listed' = {result'.certificates[i].cert : i \in 1..(n + 1)}
    BY <1>7 DEF Listed
  <2>3. 1..(n + 1) = (1..n) \cup {n + 1}
    BY <1>0
  <2> QED
    BY <2>1, <2>2, <2>3, <1>3, <1>7
<1>9. cert \notin Listed
  BY <1>4 DEF IInv, HalfListed
<1>10. CallTypeOK'
  BY <1>4, <1>6 DEF IInv, CallTypeOK
<1>11. HalfListed'
  BY <1>4, <1>8, <1>9 DEF IInv, HalfListed
<1>12. EntriesTrue'
  <2>1. \A i \in 1..n : result.certificates[i].cert # cert
    BY <1>7, <1>9 DEF Listed
  <2>2. \A i, j \in 1..(n + 1) :
           result'.certificates[i].cert = result'.certificates[j].cert => i = j
    <3>1. record.cert = cert
      BY <1>3
    <3>2. \A i \in 1..(n + 1) : i \in 1..n \/ i = n + 1
      BY <1>0
    <3> QED
      BY <2>1, <3>1, <3>2, <1>7 DEF IInv, EntriesTrue
  <2>3. /\ \E t \in seen'.instants : Reads(record.validity, record.cert, t)
        /\ record.has_private_key_association => record.cert \in keyed'
    BY <1>1, <1>2, <1>3, <1>4 DEF IInv, HalfListed
  <2>4. ASSUME NEW i \in 1..(n + 1), NEW entry, entry = result'.certificates[i]
        PROVE  /\ \E t \in seen'.instants : Reads(entry.validity, entry.cert, t)
               /\ entry.has_private_key_association => entry.cert \in keyed'
    <3>1. CASE i = n + 1
      BY <3>1, <2>3, <2>4, <1>7
    <3>2. CASE i \in 1..n
      BY <3>2, <2>4, <1>4, <1>7 DEF IInv, EntriesTrue
    <3> QED
      BY <3>1, <3>2, <1>0
  <2> QED
    BY <2>2, <2>4, <1>7 DEF EntriesTrue, Reads, InForce
<1> QED
  BY <1>4, <1>10, <1>11, <1>12 DEF IInv, NothingYet, AllListed, IssuesFollow

\* What was so at an instant of the call stays so, as long as the list does.
LEMMA SameList ==
    ASSUME EntriesTrue, result'.certificates = result.certificates,
           keyed' = keyed, seen.instants \subseteq seen'.instants
    PROVE  EntriesTrue' /\ Listed' = Listed
<1>1. Listed' = Listed
  BY DEF Listed
<1>2. EntriesTrue'
  BY DEF EntriesTrue, Reads, InForce
<1> QED
  BY <1>1, <1>2

\* So do an empty list and an empty store.
LEMMA EmptyList ==
    ASSUME result'.certificates = <<>>
    PROVE  EntriesTrue' /\ Listed' = {}
<1>1. DOMAIN result'.certificates = {}
  OBVIOUS
<1> QED
  BY <1>1 DEF EntriesTrue, Listed

\* A step of a call keeps what is said of the listing.
LEMMA CertStep == ConstantsOK /\ IInv /\ [Next]_certVars => IInv'
<1> SUFFICES ASSUME ConstantsOK, IInv, [Next]_certVars PROVE IInv'
  OBVIOUS
<1>0. CallTypeOK /\ NothingYet /\ HalfListed /\ EntriesTrue /\ AllListed /\ IssuesFollow
  BY DEF IInv
<1>1. CASE Clock
  <2>1. /\ now' \in Nat /\ call \in {"idle", "enumerate"}
        /\ seen' = [seen EXCEPT !.instants = IF call = "idle" THEN @ ELSE @ \cup {now'}]
        /\ UNCHANGED <<keyed, call, store, result, chain>>
    BY <1>1 DEF Clock, ConstantsOK, resultVars
  <2>2. /\ seen'.installed = seen.installed /\ seen'.brokenOff = seen.brokenOff
        /\ seen'.instants = IF call = "idle" THEN seen.instants ELSE seen.instants \cup {now'}
    BY <1>0, <2>1 DEF CallTypeOK
  <2>3. CallTypeOK'
    BY <1>0, <2>1 DEF CallTypeOK
  <2>4. EntriesTrue' /\ Listed' = Listed
    BY <1>0, <2>1, <2>2, SameList
  <2> QED
    BY <1>0, <2>1, <2>2, <2>3, <2>4 DEF IInv, NothingYet, HalfListed, AllListed, IssuesFollow
<1>2. ASSUME NEW installed \in SUBSET Cert, NEW withKey \in SUBSET installed,
             OpenStore(installed, withKey)
      PROVE  IInv'
  <2>1. /\ call = "idle" /\ call' = "enumerate" /\ keyed' = withKey /\ store' = installed
        /\ result' = [result EXCEPT !.opened = TRUE]
        /\ seen' = [seen EXCEPT !.instants = {now}, !.installed = installed]
        /\ now' = now /\ chain' = chain
    BY <1>2 DEF OpenStore
  <2>2. /\ result'.certificates = <<>> /\ seen'.instants = {now}
        /\ seen'.installed = installed /\ seen'.brokenOff = FALSE
    BY <1>0, <2>1 DEF CallTypeOK, NothingYet
  <2>3. CallTypeOK'
    BY <1>0, <2>1 DEF CallTypeOK
  <2>4. EntriesTrue' /\ Listed' = {}
    BY <2>2, EmptyList
  <2> QED
    BY <1>0, <2>1, <2>2, <2>3, <2>4 DEF IInv, NothingYet, HalfListed, AllListed, IssuesFollow
<1>3. CASE OpenStoreFails
  <2>1. /\ call = "idle" /\ call' = "done"
        /\ result' = [result EXCEPT !.error = TRUE]
        /\ UNCHANGED <<now, keyed, store, chain, seen>>
    BY <1>3 DEF OpenStoreFails
  <2>2. result'.certificates = <<>> /\ seen.installed = {}
    BY <1>0, <2>1 DEF CallTypeOK, NothingYet
  <2>3. CallTypeOK'
    BY <1>0, <2>1 DEF CallTypeOK
  <2>4. EntriesTrue' /\ Listed' = {}
    BY <2>2, EmptyList
  <2> QED
    BY <1>0, <2>1, <2>2, <2>3, <2>4 DEF IInv, NothingYet, HalfListed, AllListed, IssuesFollow
<1>4. CASE \E cert \in Cert : ListCertificate(cert)
  BY <1>4, CertList
<1>5. CASE EndOfStore
  <2>1. /\ call = "enumerate" /\ call' = "done"
        /\ seen' = [seen EXCEPT !.brokenOff = store # {}]
        /\ UNCHANGED <<now, keyed, store, result, chain>>
    BY <1>5 DEF EndOfStore, resultVars
  <2>2. /\ seen'.instants = seen.instants /\ seen'.installed = seen.installed
        /\ seen'.brokenOff <=> store # {}
    BY <1>0, <2>1 DEF CallTypeOK
  <2>3. CallTypeOK'
    BY <1>0, <2>1 DEF CallTypeOK
  <2>4. EntriesTrue' /\ Listed' = Listed
    BY <1>0, <2>1, <2>2, SameList
  <2> QED
    BY <1>0, <2>1, <2>2, <2>3, <2>4 DEF IInv, NothingYet, HalfListed, AllListed, IssuesFollow
<1>6. CASE \/ \E online \in BOOLEAN : CreateContext(online) \/ DecodeFails(online)
           \/ BuildFails \/ (\E flags \in SUBSET ChainFlags : Build(flags)) \/ FreeChain
  <2>1. /\ call \in {"idle", "build", "free"} /\ call' \in {"build", "free", "done"}
        /\ UNCHANGED <<now, keyed, store, result, seen>>
    BY <1>6 DEF CreateContext, DecodeFails, BuildFails, Build, FreeChain, resultVars
  <2>2. result.certificates = <<>>
    BY <1>0, <2>1 DEF NothingYet
  <2>3. /\ chain' \in [built : BOOLEAN, error : BOOLEAN, online : BOOLEAN,
                        flags : SUBSET ChainFlags, issues : SUBSET Issues]
        /\ IssuesFollow'
    <3>1. \A flags \in SUBSET ChainFlags : ClassifyChainIssues(flags) \subseteq Issues
      BY DEF ClassifyChainIssues, Issues
    <3>2. ASSUME NEW online \in BOOLEAN, CreateContext(online) \/ DecodeFails(online)
          PROVE  /\ chain' \in [built : BOOLEAN, error : BOOLEAN, online : BOOLEAN,
                                 flags : SUBSET ChainFlags, issues : SUBSET Issues]
                 /\ IssuesFollow'
      BY <1>0, <3>2 DEF CreateContext, DecodeFails, CallTypeOK, IssuesFollow, ClassifyChainIssues
    <3>3. CASE BuildFails
      BY <1>0, <3>3 DEF BuildFails, CallTypeOK, IssuesFollow, ClassifyChainIssues
    <3>4. ASSUME NEW flags \in SUBSET ChainFlags, Build(flags)
          PROVE  /\ chain' \in [built : BOOLEAN, error : BOOLEAN, online : BOOLEAN,
                                 flags : SUBSET ChainFlags, issues : SUBSET Issues]
                 /\ IssuesFollow'
      BY <1>0, <3>1, <3>4 DEF Build, CallTypeOK, IssuesFollow, ClassifyChainIssues
    <3>5. CASE FreeChain
      BY <1>0, <3>5 DEF FreeChain, CallTypeOK, IssuesFollow, ClassifyChainIssues
    <3> QED
      BY <1>6, <3>2, <3>3, <3>4, <3>5
  <2>4. EntriesTrue' /\ Listed' = {}
    BY <2>1, <2>2, EmptyList
  <2>5. CallTypeOK'
    BY <1>0, <2>1, <2>3 DEF CallTypeOK
  <2> QED
    BY <1>0, <2>1, <2>2, <2>3, <2>4, <2>5 DEF IInv, NothingYet, HalfListed, AllListed
<1>7. CASE UNCHANGED certVars
  <2>1. UNCHANGED <<now, keyed, call, store, result, chain, seen>>
    BY <1>7 DEF certVars, resultVars
  <2>2. EntriesTrue' /\ Listed' = Listed
    BY <1>0, <2>1, SameList
  <2> QED
    BY <1>0, <2>1, <2>2
       DEF IInv, CallTypeOK, NothingYet, HalfListed, AllListed, IssuesFollow, ClassifyChainIssues
<1> QED
  BY <1>1, <1>2, <1>3, <1>4, <1>5, <1>6, <1>7 DEF Next

-----------------------------------------------------------------------------
(* The theorems. *)

\* Whatever the clock does and whichever call fails, the listing and the chain
\* say what was so.
THEOREM ListingTruthful ==
    ASSUME ConstantsOK
    PROVE  Spec => []ReadingsTruthful
<1>1. IInv => ReadingsTruthful
  BY DEF IInv, EntriesTrue, AllListed, IssuesFollow, ReadingsTruthful, ClassifyChainIssues
<1> QED
  BY CertInit, CertStep, <1>1, PTL DEF Spec

\* The window shows each entry once, and what was expired during the whole
\* listing above what was in force during the whole of it.
THEOREM ExpiredAboveUsable ==
    ASSUME ConstantsOK
    PROVE  Spec => []AttentionFirst
<1>1. ASSUME IInv PROVE AttentionFirst
  <2> DEFINE all == result.certificates
  <2>1. all \in Seq(Records)
    BY <1>1 DEF IInv, CallTypeOK
  <2>2. {Place(all, i) : i \in DOMAIN all} = DOMAIN all
    BY <2>1, PlacesPermute
  <2>3. ASSUME NEW i \in DOMAIN all, NEW j \in DOMAIN all,
               \A t \in seen.instants : t > ValidUntil[all[i].cert],
               \A t \in seen.instants : InForce(all[j].cert, t)
        PROVE  Place(all, i) < Place(all, j)
    <3>1. all[i] \in Records /\ all[j] \in Records
      BY <2>1
    <3>2. \A k \in DOMAIN all :
             \E t \in seen.instants : t \in Nat /\ Reads(all[k].validity, all[k].cert, t)
      BY <1>1 DEF IInv, EntriesTrue, CallTypeOK
    <3>3. \A k \in {i, j} : ValidFrom[all[k].cert] \in Nat /\ ValidUntil[all[k].cert] \in Nat
      BY <3>1 DEF ConstantsOK, Records
    <3>4. Priority(all[i]) < 2
      <4>1. all[i].validity \notin {"expiring_soon", "valid"}
        BY <2>3, <3>2, <3>3 DEF Reads, InForce
      <4> QED
        BY <3>1, <4>1 DEF Records, Readings, Priority
    <3>5. Priority(all[j]) >= 2
      <4>1. all[j].validity \notin {"expired", "not_yet_valid"}
        BY <2>3, <3>2, <3>3 DEF Reads, InForce
      <4> QED
        BY <3>1, <4>1 DEF Records, Readings, Priority
    <3>6. i \in Before(all, j)
      BY <3>1, <3>4, <3>5, PriorityType DEF Before
    <3> QED
      BY <2>1, <3>6, PlaceIncreases
  <2> QED
    BY <2>2, <2>3 DEF AttentionFirst
<1> QED
  BY CertInit, CertStep, <1>1, PTL DEF Spec

\* No call leaves a handle open, whichever of its steps failed.
THEOREM CertificatesClose == Spec => []NothingLeftOpen
<1> DEFINE Inv == call \in {"idle", "done"} => handles = {}
<1>1. Init => Inv
  BY DEF Init
<1>2. Inv /\ [Next]_certVars => Inv'
  BY DEF Next, certVars, Clock, OpenStore, OpenStoreFails, ListCertificate, EndOfStore,
     CreateContext, DecodeFails, BuildFails, Build, FreeChain
<1>3. Inv => NothingLeftOpen
  BY DEF NothingLeftOpen
<1> QED
  BY <1>1, <1>2, <1>3, PTL DEF Spec

=============================================================================

--------------------------- MODULE LibraryProofs ---------------------------
(* Proofs about the parts of the library, each of which shares its variables *)
(* with no other: a step of the harness is one of the part or leaves them    *)
(* alone.  What CertificatesProofs proves is carried over.                   *)
EXTENDS MCLibrary, WellFoundedInduction, TLAPS

ProvedStores == INSTANCE CertificatesProofs WITH result <- listing

-----------------------------------------------------------------------------
(* The redaction. *)

Sensitive == {"inline", "path", "identifier"}

\* A mark is no word the scan could have kept.
LEMMA MarksDiffer ==
    ASSUME NEW token \in Redacts!Tokens
    PROVE  /\ token # Redacts!Mark.redact
           /\ token # Redacts!Mark.inline
           /\ token # Redacts!Mark.path
           /\ token # Redacts!Mark.identifier
<1>1. token \subseteq {"keyword", "inline", "path", "identifier"}
  BY DEF Redacts!Tokens
<1>2. \A mark \in {"[redigido]", "[segredo-redigido]", "[caminho-local]", "[identificador]"} :
         mark \notin {"keyword", "inline", "path", "identifier"}
  OBVIOUS
<1> QED
  BY <1>1, <1>2 DEF Redacts!Mark

\* A word is written as it is if and only if it is neither a value nor
\* sensitive itself; and then it is a keyword exactly when it is just that.
LEMMA WrittenKeeps ==
    ASSUME NEW flag \in BOOLEAN, NEW token \in Redacts!Tokens
    PROVE  Redacts!Written(flag, token) = token <=> ~flag /\ token \cap Sensitive = {}
<1>1. CASE flag
  BY <1>1, MarksDiffer DEF Redacts!Written
<1>2. CASE ~flag /\ token \cap Sensitive # {}
  <2>1. "keyword" \in token => "inline" \in token
    BY <1>2 DEF Redacts!Tokens, Sensitive
  <2> QED
    BY <1>2, <2>1, MarksDiffer DEF Redacts!Written, Sensitive
<1>3. CASE ~flag /\ token \cap Sensitive = {}
  BY <1>3 DEF Redacts!Written, Sensitive
<1> QED
  BY <1>1, <1>2, <1>3

\* What the flag remembers of the text: that its last word is a keyword which
\* was kept.  Without it the next word could not be told to be a value.
FlagMeansValue ==
    redact_next_token <=>
        /\ text # <<>>
        /\ text[Len(text)] = {"keyword"}
        /\ Redacts!Kept(Len(text))

Words == Redacts!Tokens \cup {Redacts!Mark.redact, Redacts!Mark.inline, Redacts!Mark.path,
                              Redacts!Mark.identifier}

ScanTypeOK ==
    /\ text \in Seq(Redacts!Tokens)
    /\ output \in Seq(Words)
    /\ Len(output) = Len(text)
    /\ redact_next_token \in BOOLEAN

ScanInv == ScanTypeOK /\ FlagMeansValue /\ Redacts!ExactlyTheSensitive

NoText == text = <<>> /\ output = <<>> /\ redact_next_token = FALSE

\* No text, no value and nothing written.
LEMMA ScanEmpty == NoText => ScanInv
<1> SUFFICES ASSUME NoText PROVE ScanInv
  OBVIOUS
<1>1. ScanTypeOK
  <2>1. Len(<<>>) = 0 /\ <<>> \in Seq(Redacts!Tokens) /\ <<>> \in Seq(Words)
    OBVIOUS
  <2> QED
    BY <2>1 DEF NoText, ScanTypeOK
<1>2. FlagMeansValue
  BY DEF NoText, FlagMeansValue
<1>3. Redacts!ExactlyTheSensitive
  BY DEF NoText, Redacts!ExactlyTheSensitive
<1> QED
  BY <1>1, <1>2, <1>3 DEF ScanInv

\* Init establishes the invariant.
LEMMA ScanInit == Init => ScanInv
BY ScanEmpty DEF Init, Redacts!Init, NoText

\* One round of the loop: what was said of the earlier words stands, and the
\* new one is judged by the flag.
LEMMA ScanWord ==
    ASSUME ScanInv, NEW token \in Redacts!Tokens, Redacts!Scan(token)
    PROVE  ScanInv'
<1> DEFINE written == Redacts!Written(redact_next_token, token)
<1>0. PICK n \in Nat : n = Len(text)
  BY DEF ScanInv, ScanTypeOK
<1>1. /\ text' = Append(text, token) /\ output' = Append(output, written)
      /\ redact_next_token' = (~redact_next_token /\ token = {"keyword"})
  BY DEF Redacts!Scan
<1>2. /\ text \in Seq(Redacts!Tokens) /\ output \in Seq(Words) /\ Len(output) = n
      /\ redact_next_token \in BOOLEAN
  BY <1>0 DEF ScanInv, ScanTypeOK
<1>3. written \in Words
  BY DEF Redacts!Written, Words
<1>4. ScanTypeOK'
  <2>1. text' \in Seq(Redacts!Tokens) /\ Len(text') = n + 1
    BY <1>0, <1>1, <1>2
  <2>2. output' \in Seq(Words) /\ Len(output') = n + 1
    BY <1>1, <1>2, <1>3
  <2>3. redact_next_token' \in BOOLEAN
    BY <1>1
  <2> QED
    BY <2>1, <2>2, <2>3 DEF ScanTypeOK
<1>5. /\ Len(text') = n + 1 /\ text'[n + 1] = token /\ output'[n + 1] = written
      /\ \A i \in 1..n : text'[i] = text[i] /\ output'[i] = output[i]
  BY <1>0, <1>1, <1>2, <1>3
<1>6. written = token <=> ~redact_next_token /\ token \cap Sensitive = {}
  BY <1>2, WrittenKeeps
<1> HIDE DEF written
<1>7. FlagMeansValue'
  <2>1. token = {"keyword"} => token \cap Sensitive = {}
    BY DEF Sensitive
  <2>2. text' # <<>>
    BY <1>5
  <2> QED
    BY <1>1, <1>2, <1>5, <1>6, <2>1, <2>2 DEF FlagMeansValue, Redacts!Kept
<1>8. Redacts!IsValue(n + 1)' <=> redact_next_token
  <2>1. redact_next_token <=> n > 0 /\ text[n] = {"keyword"} /\ output[n] = text[n]
    BY <1>0, <1>2 DEF ScanInv, FlagMeansValue, Redacts!Kept
  <2>2. Redacts!IsValue(n + 1)' <=> n + 1 > 1 /\ text'[n] = {"keyword"} /\ output'[n] = text'[n]
    BY <1>2 DEF Redacts!IsValue, Redacts!Kept
  <2> QED
    BY <2>1, <2>2, <1>2, <1>5
<1>9. \A i \in 1..n : Redacts!IsValue(i)' <=> Redacts!IsValue(i)
  BY <1>2, <1>5 DEF Redacts!IsValue, Redacts!Kept
<1>10. (Redacts!ExactlyTheSensitive)'
  <2> SUFFICES ASSUME NEW i \in 1..(n + 1)
               PROVE  Redacts!Kept(i)' <=> ~Redacts!IsValue(i)' /\ text'[i] \cap Sensitive = {}
    BY <1>0, <1>5 DEF Redacts!ExactlyTheSensitive, Sensitive
  <2>1. CASE i = n + 1
    BY <2>1, <1>5, <1>6, <1>8 DEF Redacts!Kept
  <2>2. CASE i # n + 1
    <3>1. i \in 1..n
      BY <2>2, <1>2
    <3>2. Redacts!Kept(i) <=> ~Redacts!IsValue(i) /\ text[i] \cap Sensitive = {}
      BY <3>1, <1>0 DEF ScanInv, Redacts!ExactlyTheSensitive, Sensitive
    <3> QED
      BY <3>1, <3>2, <1>5, <1>9 DEF Redacts!Kept
  <2> QED
    BY <2>1, <2>2
<1> QED
  BY <1>4, <1>7, <1>10 DEF ScanInv

\* A step of the harness is one of the scan or leaves its variables alone.
LEMMA ScanStep == ScanInv /\ [Next]_vars => ScanInv'
<1> SUFFICES ASSUME ScanInv, [Next]_vars PROVE ScanInv'
  OBVIOUS
<1>1. CASE Redacts!NewText
  <2>1. NoText'
    BY <1>1 DEF Redacts!NewText, NoText
  <2> QED
    BY <2>1, ScanEmpty, PTL
<1>2. CASE \E token \in Redacts!Tokens : Redacts!Scan(token)
  BY <1>2, ScanWord
<1>3. CASE UNCHANGED <<text, output, redact_next_token>>
  BY <1>3 DEF ScanInv, ScanTypeOK, FlagMeansValue, Redacts!ExactlyTheSensitive,
     Redacts!Kept, Redacts!IsValue
<1> QED
  BY <1>1, <1>2, <1>3 DEF Next, OthersRest, vars, Redacts!Next

\* Whatever the texts say and however long they are, exactly the sensitive
\* words are replaced.
THEOREM LibraryRedacts == Spec => []ExactlyTheSensitive
<1>1. ScanInv => ExactlyTheSensitive
  BY DEF ScanInv, ExactlyTheSensitive
<1> QED
  BY ScanInit, ScanStep, <1>1, PTL DEF Spec

-----------------------------------------------------------------------------
(* The application profile. *)

ProfileFields ==
    Profile!EvidenceFields
        \cup {"certificate_validity", "uses_external_device", "external_device_state"}

\* A field nobody filled still has its default: without this, a check that
\* blocks could not be traced to something that was collected.
UnreadAreDefaults ==
    /\ \A field \in Profile!EvidenceFields \ read : input[field] = "unknown"
    /\ "certificate_validity" \notin read => input.certificate_validity = "valid"
    /\ "uses_external_device" \notin read => input.uses_external_device = FALSE
    /\ "external_device_state" \notin read => input.external_device_state = "apparently_ready"

InputTypeOK ==
    /\ DOMAIN input = ProfileFields
    /\ input = [field \in ProfileFields |-> input[field]]
    /\ \A field \in Profile!EvidenceFields : input[field] \in Profile!EvidenceStates
    /\ input.certificate_validity \in Profile!Validities
    /\ input.uses_external_device \in BOOLEAN
    /\ input.external_device_state \in Profile!A3States

ProfileInv == InputTypeOK /\ UnreadAreDefaults

\* The defaults of the header.
LEMMA ProfileInit == Init => ProfileInv
BY DEF Init, Profile!Init, ProfileInv, InputTypeOK, UnreadAreDefaults, ProfileFields,
   Profile!EvidenceFields, Profile!EvidenceStates, Profile!Validities, Profile!A3States

ValuesOf(field) ==
    IF field = "certificate_validity" THEN Profile!Validities
    ELSE IF field = "uses_external_device" THEN BOOLEAN
    ELSE IF field = "external_device_state" THEN Profile!A3States ELSE Profile!EvidenceStates

\* A verification changes one field and records that it did.
LEMMA CollectChanges ==
    ASSUME ProfileInv, NEW field \in ProfileFields, Profile!Collect(field, ValuesOf(field))
    PROVE  /\ input'[field] \in ValuesOf(field)
           /\ \A other \in ProfileFields \ {field} : input'[other] = input[other]
           /\ DOMAIN input' = ProfileFields
           /\ input' = [other \in ProfileFields |-> input'[other]]
           /\ read' = read \cup {field}
BY DEF ProfileInv, InputTypeOK, Profile!Collect

\* A step is a verification of one of the fields, with a value of its type.
LEMMA StepCollects ==
    ASSUME Profile!Next
    PROVE  \E field \in ProfileFields : Profile!Collect(field, ValuesOf(field))
<1>1. CASE \E field \in Profile!EvidenceFields : Profile!Collect(field, Profile!EvidenceStates)
  BY <1>1 DEF ProfileFields, Profile!EvidenceFields, ValuesOf
<1>2. CASE Profile!Collect("certificate_validity", Profile!Validities)
  BY <1>2 DEF ProfileFields, Profile!EvidenceFields, ValuesOf
<1>3. CASE Profile!Collect("uses_external_device", BOOLEAN)
  BY <1>3 DEF ProfileFields, Profile!EvidenceFields, ValuesOf
<1>4. CASE Profile!Collect("external_device_state", Profile!A3States)
  BY <1>4 DEF ProfileFields, Profile!EvidenceFields, ValuesOf
<1> QED
  BY <1>1, <1>2, <1>3, <1>4 DEF Profile!Next

\* Every step of the harness keeps the invariant.
LEMMA ProfileStep == ProfileInv /\ [Next]_vars => ProfileInv'
<1> SUFFICES ASSUME ProfileInv, [Next]_vars PROVE ProfileInv'
  OBVIOUS
<1>1. CASE UNCHANGED <<input, read>>
  BY <1>1 DEF ProfileInv, InputTypeOK, UnreadAreDefaults
<1>2. CASE Profile!Next
  <2>1. PICK field \in ProfileFields : Profile!Collect(field, ValuesOf(field))
    BY <1>2, StepCollects
  <2>2. /\ input'[field] \in ValuesOf(field)
        /\ \A other \in ProfileFields \ {field} : input'[other] = input[other]
        /\ DOMAIN input' = ProfileFields
        /\ input' = [other \in ProfileFields |-> input'[other]]
        /\ read' = read \cup {field}
    BY <2>1, CollectChanges
  <2>3. InputTypeOK'
    BY <2>2 DEF ProfileInv, InputTypeOK, ProfileFields, Profile!EvidenceFields, ValuesOf
  <2>4. UnreadAreDefaults'
    BY <2>2 DEF ProfileInv, UnreadAreDefaults, ProfileFields, Profile!EvidenceFields
  <2> QED
    BY <2>3, <2>4 DEF ProfileInv
<1> QED
  BY <1>1, <1>2 DEF Next, OthersRest, vars

\* What may block: an evidence that is absent, a certificate that is present
\* but not in force, a device that is used but not ready.
Blocks ==
    \/ \E field \in Profile!EvidenceFields : input[field] = "absent"
    \/ /\ input.certificate = "present"
       /\ input.certificate_validity \in {"expired", "not_yet_valid"}
    \/ input.uses_external_device /\ input.external_device_state # "apparently_ready"

Warns == input.certificate = "present" /\ input.certificate_validity = "expiring_soon"

\* The profile blocks if and only if something blocks, and warns if and only if
\* nothing does and the certificate expires soon.
StatusMeans ==
    /\ Profile!Status = "blocked" <=> Blocks
    /\ Profile!Status = "attention" <=> ~Blocks /\ Warns
    /\ Profile!Status \in {"ready", "indeterminate", "attention", "blocked"}

\* evaluate_pje_profile takes every check into account.
LEMMA StatusSays == InputTypeOK => StatusMeans
<1> SUFFICES ASSUME InputTypeOK PROVE StatusMeans
  OBVIOUS
<1>1. \A field \in Profile!EvidenceFields :
         /\ Profile!EvidenceCheck(input[field]) = "blocked" <=> input[field] = "absent"
         /\ Profile!EvidenceCheck(input[field]) # "warning"
  BY DEF InputTypeOK, Profile!EvidenceStates, Profile!EvidenceCheck
<1>2. /\ Profile!ValidityCheck(input.certificate, input.certificate_validity) = "blocked" <=>
            /\ input.certificate = "present"
            /\ input.certificate_validity \in {"expired", "not_yet_valid"}
      /\ Profile!ValidityCheck(input.certificate, input.certificate_validity) = "warning" <=> Warns
  BY DEF InputTypeOK, Profile!Validities, Profile!ValidityCheck, Warns
<1>3. Profile!DeviceCheck(input.external_device_state) =
         IF input.external_device_state = "apparently_ready" THEN "passed" ELSE "blocked"
  BY DEF Profile!DeviceCheck
<1>4. "blocked" \in Profile!Checks <=> Blocks
  BY <1>1, <1>2, <1>3 DEF Profile!Checks, Blocks, InputTypeOK
<1>5. "warning" \in Profile!Checks <=> Warns
  BY <1>1, <1>2, <1>3 DEF Profile!Checks
<1> QED
  BY <1>4, <1>5 DEF StatusMeans, Profile!Status, Profile!AggregateStatus

\* The profile blocks only on what was collected and is bad.
THEOREM LibraryBlocksOnFacts == Spec => []BlockedOnlyOnFacts
<1>1. ProfileInv => BlockedOnlyOnFacts
  <2> SUFFICES ASSUME ProfileInv, Blocks PROVE BlockedOnlyOnFacts
    BY StatusSays DEF ProfileInv, StatusMeans, BlockedOnlyOnFacts, Profile!BlockedOnlyOnFacts
  <2>1. ASSUME NEW field \in Profile!EvidenceFields, input[field] = "absent" PROVE field \in read
    BY <2>1 DEF ProfileInv, UnreadAreDefaults
  <2>2. input.certificate = "present" => "certificate" \in read
    BY DEF ProfileInv, UnreadAreDefaults, Profile!EvidenceFields
  <2> QED
    BY <2>1, <2>2 DEF ProfileInv, UnreadAreDefaults, Blocks, BlockedOnlyOnFacts,
       Profile!BlockedOnlyOnFacts
<1> QED
  BY ProfileInit, ProfileStep, <1>1, PTL DEF Spec

\* A fact collected for the first time never makes the picture better.
THEOREM LibraryNewFacts == Spec => NewFactsNeverExcuse
<1>1. ASSUME ProfileInv, [Next]_vars, read' # read
      PROVE  Profile!OrderOfStatus[Profile!Status'] >= Profile!OrderOfStatus[Profile!Status]
  <2>1. ProfileInv'
    BY <1>1, ProfileStep
  <2>2. PICK field \in ProfileFields : Profile!Collect(field, ValuesOf(field))
    BY <1>1, StepCollects DEF Next, OthersRest, vars
  <2>3. /\ \A other \in ProfileFields \ {field} : input'[other] = input[other]
        /\ read' = read \cup {field}
    BY <1>1, <2>2, CollectChanges
  <2>4. field \notin read
    BY <1>1, <2>3
  <2>5. Blocks => Blocks'
    BY <1>1, <2>3, <2>4 DEF ProfileInv, UnreadAreDefaults, Blocks, ProfileFields,
       Profile!EvidenceFields
  <2>6. Warns => Warns'
    BY <1>1, <2>3, <2>4 DEF ProfileInv, UnreadAreDefaults, Warns, ProfileFields,
       Profile!EvidenceFields
  <2>7. StatusMeans'
    <3>1. InputTypeOK'
      BY <2>1 DEF ProfileInv
    <3> QED
      BY <3>1, StatusSays, PTL
  <2>8. StatusMeans
    BY <1>1, StatusSays DEF ProfileInv
  <2> QED
    BY <2>5, <2>6, <2>7, <2>8 DEF StatusMeans, Profile!OrderOfStatus
<1> QED
  BY ProfileInit, ProfileStep, <1>1, PTL
     DEF Spec, NewFactsNeverExcuse, Profile!NewFactsNeverExcuse, Profile!vars

-----------------------------------------------------------------------------
(* The certificate stores. *)

\* The harness gives the constants of Certificates values of their types.
LEMMA LibraryConstants == ProvedStores!ConstantsOK
BY StoresAssumption DEF Stores!ConstantsOK, ProvedStores!ConstantsOK

\* A behaviour of the harness is one of Certificates.
LEMMA LibraryStores == Spec => ProvedStores!Spec
<1>1. Init => ProvedStores!Init
  BY DEF Init, Stores!Init, ProvedStores!Init, Stores!NoResult, ProvedStores!NoResult,
     Stores!NoChain, ProvedStores!NoChain
<1>2. Stores!resultVars = ProvedStores!resultVars
  BY DEF Stores!resultVars, ProvedStores!resultVars
<1>3. Stores!Clock => ProvedStores!Clock
  BY <1>2 DEF Stores!Clock, ProvedStores!Clock, Stores!resultVars, ProvedStores!resultVars
<1>4. ASSUME NEW installed \in SUBSET Cert, NEW withKey \in SUBSET installed,
             Stores!OpenStore(installed, withKey)
      PROVE  ProvedStores!OpenStore(installed, withKey)
  BY <1>4 DEF Stores!OpenStore, ProvedStores!OpenStore
<1>5. Stores!OpenStoreFails => ProvedStores!OpenStoreFails
  BY DEF Stores!OpenStoreFails, ProvedStores!OpenStoreFails
<1>6. ASSUME NEW cert \in Cert, Stores!ListCertificate(cert)
      PROVE  ProvedStores!ListCertificate(cert)
  BY <1>6 DEF Stores!ListCertificate, ProvedStores!ListCertificate,
     Stores!KeyReadings, ProvedStores!KeyReadings, Stores!Validity, ProvedStores!Validity
<1>7. Stores!EndOfStore => ProvedStores!EndOfStore
  BY DEF Stores!EndOfStore, ProvedStores!EndOfStore, Stores!resultVars, ProvedStores!resultVars
<1>8. ASSUME NEW online \in BOOLEAN, Stores!CreateContext(online) \/ Stores!DecodeFails(online)
      PROVE  ProvedStores!CreateContext(online) \/ ProvedStores!DecodeFails(online)
  BY <1>8 DEF Stores!CreateContext, ProvedStores!CreateContext,
     Stores!DecodeFails, ProvedStores!DecodeFails, Stores!resultVars, ProvedStores!resultVars
<1>9. Stores!BuildFails => ProvedStores!BuildFails
  BY DEF Stores!BuildFails, ProvedStores!BuildFails, Stores!resultVars, ProvedStores!resultVars
<1>10. Stores!ChainFlags = ProvedStores!ChainFlags
  BY DEF Stores!ChainFlags, ProvedStores!ChainFlags, Stores!IssueOf, ProvedStores!IssueOf
<1>11. ASSUME NEW flags \in SUBSET Stores!ChainFlags, Stores!Build(flags)
       PROVE  ProvedStores!Build(flags)
  BY <1>11 DEF Stores!Build, ProvedStores!Build, Stores!resultVars, ProvedStores!resultVars,
     Stores!ClassifyChainIssues, ProvedStores!ClassifyChainIssues,
     Stores!IssueOf, ProvedStores!IssueOf
<1>12. Stores!FreeChain => ProvedStores!FreeChain
  BY DEF Stores!FreeChain, ProvedStores!FreeChain, Stores!resultVars, ProvedStores!resultVars
<1>13. Stores!Next => ProvedStores!Next
  BY <1>3, <1>4, <1>5, <1>6, <1>7, <1>8, <1>9, <1>10, <1>11, <1>12
     DEF Stores!Next, ProvedStores!Next
<1>14. [Next]_vars => [ProvedStores!Next]_(ProvedStores!certVars)
  BY <1>13 DEF Next, OthersRest, vars, ProvedStores!certVars, ProvedStores!resultVars
<1> QED
  BY <1>1, <1>14, PTL DEF Spec, ProvedStores!Spec

\* Whichever part is in use, the listing and the chain say what was so.
THEOREM LibraryListsTruth == Spec => []ReadingsTruthful
<1>1. ProvedStores!ReadingsTruthful => ReadingsTruthful
  BY DEF ReadingsTruthful, Stores!ReadingsTruthful, ProvedStores!ReadingsTruthful,
     Stores!Listed, ProvedStores!Listed, Stores!Reads, ProvedStores!Reads,
     Stores!InForce, ProvedStores!InForce
<1> QED
  BY LibraryStores, LibraryConstants, <1>1, ProvedStores!ListingTruthful, PTL

\* Whichever part is in use, the window shows the expired above the usable.
THEOREM LibraryShowsExpiredFirst == Spec => []AttentionFirst
<1>0. \A S : Stores!Cardinality(S) = ProvedStores!Cardinality(S)
  BY DEF Stores!Cardinality, ProvedStores!Cardinality
<1>1. ProvedStores!AttentionFirst => AttentionFirst
  BY <1>0 DEF AttentionFirst, Stores!AttentionFirst, ProvedStores!AttentionFirst,
     Stores!Place, ProvedStores!Place, Stores!Priority, ProvedStores!Priority,
     Stores!InForce, ProvedStores!InForce
<1> QED
  BY LibraryStores, LibraryConstants, <1>1, ProvedStores!ExpiredAboveUsable, PTL

-----------------------------------------------------------------------------
(* The signature test. *)

\* While no call has failed every call before the next was made, and before the
\* second one succeeds only the algorithm can be open; the cleanup is on every
\* way out but the one on which nothing was opened.
SignInv ==
    /\ next \in 1..Signs!Returned
    /\ status \in BOOLEAN
    /\ status => made = 1..(IF next > 7 THEN 7 ELSE next - 1)
    /\ next \in {1, Signs!Returned} => open = {}

\* The test starts with no handle.
LEMMA SignInit == Init => SignInv
<1>1. Init => next = 1 /\ status = TRUE /\ made = {} /\ open = {}
  BY DEF Init, Signs!Init
<1> QED
  BY <1>1 DEF SignInv, Signs!Returned, Signs!Calls

\* Each call, each skipped call and the cleanup keep this.
LEMMA SignStep == SignInv /\ [Next]_vars => SignInv'
<1> SUFFICES ASSUME SignInv, [Next]_vars PROVE SignInv'
  OBVIOUS
<1>0. Signs!Returned = 9 /\ Signs!Cleanup = 8 /\ DOMAIN Signs!Calls = 1..7
  BY DEF Signs!Returned, Signs!Cleanup, Signs!Calls
<1>1. CASE Signs!CallSucceeds
  BY <1>0, <1>1 DEF SignInv, Signs!CallSucceeds
<1>2. CASE Signs!CallFails
  <2>0. ~status' /\ status' \in BOOLEAN
    BY <1>2, Zenon DEF Signs!CallFails
  <2>1. next \in 1..7 /\ ~status' /\ status' \in BOOLEAN /\ open' = open /\ made' = made
    BY <1>0, <1>2, <2>0 DEF Signs!CallFails
  <2>2. CASE next = 1
    BY <1>0, <1>2, <2>1, <2>2 DEF SignInv, Signs!CallFails
  <2>3. CASE next # 1
    <3>1. next' = next + 1
      BY <1>2, <2>3 DEF Signs!CallFails
    <3> QED
      BY <1>0, <2>1, <2>3, <3>1 DEF SignInv
  <2> QED
    BY <2>2, <2>3
<1>3. CASE Signs!Skip
  BY <1>0, <1>3 DEF SignInv, Signs!Skip
<1>4. CASE Signs!CleanUp
  BY <1>0, <1>4 DEF SignInv, Signs!CleanUp
<1>5. CASE UNCHANGED <<next, status, made, open>>
  BY <1>5 DEF SignInv
<1> QED
  BY <1>1, <1>2, <1>3, <1>4, <1>5 DEF Next, OthersRest, vars, Signs!Next

\* No handle survives a call, of the certificate store or of the signature
\* test, and the test is "verified" only when every call succeeded.
THEOREM LibraryCloses == Spec => []NothingLeftOpen
<1>1. SignInv => Signs!NothingLeftOpen
  <2>1. Signs!Returned = 9 /\ DOMAIN Signs!Calls = 1..7
    BY DEF Signs!Returned, Signs!Calls
  <2> QED
    BY <2>1 DEF SignInv, Signs!NothingLeftOpen, Signs!signed_and_verified
<1>2. ProvedStores!NothingLeftOpen => Stores!NothingLeftOpen
  BY DEF ProvedStores!NothingLeftOpen, Stores!NothingLeftOpen
<1>3. Signs!NothingLeftOpen /\ Stores!NothingLeftOpen => NothingLeftOpen
  BY DEF NothingLeftOpen
<1> QED
  BY SignInit, SignStep, LibraryStores, <1>1, <1>2, <1>3, ProvedStores!CertificatesClose, PTL
     DEF Spec

-----------------------------------------------------------------------------
(* The two actions that open a window. *)

\* An action on its way to Windows was consented to, and its file was seen to
\* be a container.
AskInv ==
    /\ action.id \in {"none", "certificate_import_wizard", "official_middleware_page"}
    /\ action.at \in {"idle", "plan", "file", "read", "open", "done"}
    /\ action = [id |-> action.id, at |-> action.at]
    /\ action.at \in {"idle", "plan", "file", "read", "open"} => state = "blocked" /\ asked = "nothing"
    /\ action.at = "open" => action.id # "none"
    /\ action.at = "open" \/ asked # "nothing" =>
          /\ explicit_consent
          /\ action.id # "none"
          /\ action.id = "certificate_import_wizard" => "recognized" \in contents
    /\ asked \in {"nothing", "wizard", "page"}
    /\ asked = "wizard" => action.id = "certificate_import_wizard"
    /\ state = "applied" => asked # "nothing"
    /\ state = "blocked" => asked = "nothing"

\* No action was called yet.
LEMMA AskInit == Init => AskInv
BY DEF Init, Actions!Init, Actions!NoAction, AskInv

\* Every step of an action, and every change of the file, keeps this.
LEMMA AskStep == AskInv /\ [Next]_vars => AskInv'
<1> SUFFICES ASSUME AskInv, [Next]_vars PROVE AskInv'
  OBVIOUS
<1>1. CASE \E content \in Actions!FileStates \ {file} : Actions!Replace(content)
  <2>1. PICK content : Actions!Replace(content)
    BY <1>1
  <2>2. "recognized" \in contents => "recognized" \in contents'
    BY <2>1 DEF Actions!Replace
  <2>3. file' = content /\ UNCHANGED <<action, explicit_consent, state, asked>>
    BY <2>1 DEF Actions!Replace
  <2> QED
    BY <2>2, <2>3 DEF AskInv
<1>2. CASE \E id \in Actions!Ids \ {"smartcard_service_start"}, consent \in BOOLEAN :
              Actions!Call(id, consent)
  <2>1. PICK id \in {"certificate_import_wizard", "official_middleware_page"}, consent \in BOOLEAN :
           Actions!Call(id, consent)
    BY <1>2 DEF Actions!Ids
  <2>2. /\ action' = [id |-> id, at |-> "plan"] /\ file' = file
        /\ state' = "blocked" /\ asked' = "nothing"
    BY <2>1 DEF Actions!Call
  <2> QED
    BY <2>2 DEF AskInv
<1>3. CASE Actions!MeasureFile \/ Actions!OpenFile
  BY <1>3 DEF AskInv, Actions!MeasureFile, Actions!OpenFile, Actions!Importing, Actions!GoOn
<1>4. CASE Actions!PlanImport
  <2>1. PICK found \in Actions!Found :
           Actions!GoOn(IF explicit_consent /\ found = "recognized" THEN "open" ELSE "done")
    BY <1>4 DEF Actions!PlanImport
  <2>2. found = "recognized" => "recognized" \in contents
    BY DEF Actions!Found
  <2>3. /\ action = [id |-> "certificate_import_wizard", at |-> "read"]
        /\ UNCHANGED <<file, explicit_consent, state, asked, contents>>
    BY <1>4 DEF Actions!PlanImport, Actions!Importing
  <2> QED
    BY <2>1, <2>2, <2>3 DEF AskInv, Actions!GoOn
<1>5. CASE \E provider \in Provider : Actions!PlanPage(provider)
  BY <1>5 DEF AskInv, Actions!PlanPage, Actions!GoOn
<1>6. CASE Actions!AskWindows
  BY <1>6 DEF AskInv, Actions!AskWindows, Actions!GoOn
<1>7. CASE UNCHANGED <<file, action, explicit_consent, state, asked, contents>>
  BY <1>7 DEF AskInv
<1> QED
  BY <1>1, <1>2, <1>3, <1>4, <1>5, <1>6, <1>7 DEF Next, OthersRest, vars, Actions!Next

\* Windows is asked for a window only with consent, and for the wizard only
\* when the file was a container at an instant between its opening and reading.
THEOREM LibraryAsksAllowed == Spec => []AsksOnlyWhatIsAllowed
<1>1. AskInv => AsksOnlyWhatIsAllowed
  BY DEF AskInv, AsksOnlyWhatIsAllowed, Actions!AsksOnlyWhatIsAllowed,
     Actions!AuthorizeAction, Actions!Ids
<1> QED
  BY AskInit, AskStep, <1>1, PTL DEF Spec

-----------------------------------------------------------------------------
(* The diagnosis. *)

\* The facts stay a record of six answers.
FactsOK == facts \in [Diagnoses!Fields -> BOOLEAN]

\* A repair of one layer of the card moves the finding to a later one.
THEOREM LibraryRepairs == Spec => RepairMovesForward
<1>1. Init => FactsOK
  BY DEF Init, Diagnoses!Init, FactsOK
<1>2. FactsOK /\ [Next]_vars => FactsOK'
  BY DEF FactsOK, Next, OthersRest, vars, Diagnoses!Next, Diagnoses!Change
<1>3. ASSUME FactsOK, [Next]_vars, facts' # facts, NEW fixed \in DOMAIN Diagnoses!Answers,
             ~facts[fixed], facts'[fixed]
      PROVE  /\ Diagnoses!Answers[fixed] \notin Diagnoses!Diagnose(facts')
             /\ \A other \in DOMAIN Diagnoses!Answers :
                   Diagnoses!Answers[other] \in Diagnoses!Diagnose(facts') \ Diagnoses!Diagnose(facts)
                       => fixed \in Diagnoses!Earlier[other]
  <2>1. PICK field \in Diagnoses!Fields : Diagnoses!Change(field)
    BY <1>3 DEF Next, OthersRest, vars, Diagnoses!Next
  <2>2. DOMAIN Diagnoses!Answers = {"smartcard_service_running", "reader_detected", "device_present"}
    BY DEF Diagnoses!Answers
  <2>3. field = fixed
    BY <1>3, <2>1, <2>2 DEF Diagnoses!Change, Diagnoses!Fields, FactsOK
  <2>4. /\ facts'[fixed] = TRUE /\ facts[fixed] = FALSE
        /\ \A other \in Diagnoses!Fields \ {fixed} : facts'[other] = facts[other]
    BY <1>3, <2>1, <2>3 DEF Diagnoses!Change, FactsOK
  <2> QED
    BY <1>3, <2>2, <2>4 DEF Diagnoses!Fields, Diagnoses!Answers, Diagnoses!Earlier,
       Diagnoses!Diagnose, Diagnoses!KeyFindings, Diagnoses!DeviceFindings
<1>4. FactsOK /\ [Next]_vars => [Diagnoses!MovesForward]_facts
  BY <1>3 DEF Diagnoses!MovesForward
<1> QED
  BY <1>1, <1>2, <1>4, PTL DEF Spec, RepairMovesForward, Diagnoses!RepairMovesForward

-----------------------------------------------------------------------------
(* The retest. *)

Observations == [check_id : Retests!Checks, state : Retests!States]

\* A check that was observed at all has a first observation.
LEMMA FirstExists ==
    ASSUME NEW list \in Seq(Observations), NEW check, Retests!Observed(list, check) # {}
    PROVE  \E i \in Retests!Observed(list, check) :
              \A j \in Retests!Observed(list, check) : i <= j
<1> DEFINE T == Retests!Observed(list, check)
<1>1. T \subseteq Nat
  BY DEF Retests!Observed
<1>2. PICK i \in T : \A j \in T : ~(<<j, i>> \in OpToRel(<, Nat))
  BY <1>1, NatLessThanWellFounded, WFMin
<1>3. \A j \in T : i <= j
  <2> TAKE j \in T
  <2>1. i \in Nat /\ j \in Nat
    BY <1>1
  <2>2. ~(j < i)
    BY <1>2, <2>1 DEF OpToRel
  <2> QED
    BY <2>1, <2>2
<1> QED
  BY <1>3

\* A later observation changes what is found only of a check that was not
\* observed before.
LEMMA FoundStays ==
    ASSUME NEW list \in Seq(Observations), NEW observation \in Observations, NEW check,
           Retests!Observed(list, check) # {} \/ observation.check_id # check
    PROVE  Retests!Found(Append(list, observation), check) = Retests!Found(list, check)
<1> DEFINE longer == Append(list, observation)
<1>0. PICK n \in Nat : n = Len(list)
  OBVIOUS
<1>1. /\ DOMAIN list = 1..n /\ DOMAIN longer = 1..(n + 1)
      /\ longer[n + 1] = observation /\ \A i \in 1..n : longer[i] = list[i]
  BY <1>0
<1> HIDE DEF longer
<1>2. Retests!Observed(longer, check) =
         Retests!Observed(list, check) \cup (IF observation.check_id = check THEN {n + 1} ELSE {})
  BY <1>1 DEF Retests!Observed
<1>3. CASE Retests!Observed(list, check) = {}
  BY <1>2, <1>3 DEF Retests!Found, longer
<1>4. CASE Retests!Observed(list, check) # {}
  <2>1. PICK first \in Retests!Observed(list, check) :
           \A j \in Retests!Observed(list, check) : first <= j
    BY <1>4, FirstExists
  <2>2. first \in 1..n /\ Retests!Observed(list, check) \subseteq 1..n
    BY <1>1 DEF Retests!Observed
  <2>3. Retests!Observed(longer, check) \subseteq 1..(n + 1)
    BY <1>1 DEF Retests!Observed
  <2>4. first \in Retests!Observed(longer, check)
        /\ \A j \in Retests!Observed(longer, check) : first <= j
    BY <1>2, <2>1, <2>2
  <2>5. (CHOOSE i \in Retests!Observed(list, check) :
            \A j \in Retests!Observed(list, check) : i <= j) = first
    <3>1. \A i \in Retests!Observed(list, check) :
             (\A j \in Retests!Observed(list, check) : i <= j) => i = first
      BY <2>1, <2>2
    <3> QED
      BY <2>1, <3>1
  <2>6. (CHOOSE i \in Retests!Observed(longer, check) :
            \A j \in Retests!Observed(longer, check) : i <= j) = first
    <3>1. \A i \in Retests!Observed(longer, check) :
             (\A j \in Retests!Observed(longer, check) : i <= j) => i = first
      BY <2>2, <2>3, <2>4
    <3> QED
      BY <2>4, <3>1
  <2>7. Retests!Found(list, check) = list[first].state
    BY <1>4, <2>5 DEF Retests!Found
  <2>8. Retests!Found(longer, check) = longer[first].state
    BY <2>4, <2>6 DEF Retests!Found
  <2> QED
    BY <2>2, <2>7, <2>8, <1>1 DEF longer
<1> QED
  BY <1>3, <1>4

\* Both lists hold observations.
ObservedOK == before \in Seq(Observations) /\ after \in Seq(Observations)

\* A step adds one observation to one of the lists.
LEMMA ObserveAppends ==
    ASSUME ObservedOK, [Next]_vars, <<before, after>>' # <<before, after>>
    PROVE  \E observation \in Observations :
              /\ Retests!NewCheck = observation.check_id
              /\ \/ /\ before' = Append(before, observation) /\ after' = after
                    /\ before' # before
                 \/ /\ after' = Append(after, observation) /\ before' = before
<1>1. PICK check \in Retests!Checks, state_ \in Retests!States : Retests!Observe(check, state_)
  BY DEF Next, OthersRest, vars, Retests!Next
<1>2. PICK observation \in Observations : observation = [check_id |-> check, state |-> state_]
  BY DEF Observations
<1>3. \/ before' = Append(before, observation) /\ after' = after
      \/ after' = Append(after, observation) /\ before' = before
  BY <1>1, <1>2 DEF Retests!Observe
<1>4. \A list \in Seq(Observations) :
         /\ Append(list, observation) # list
         /\ Append(list, observation)[Len(Append(list, observation))] = observation
  BY <1>2
<1> QED
  BY <1>3, <1>4 DEF ObservedOK, Retests!NewCheck

\* Outcomes once drawn stay, for lists of any length.
THEOREM LibraryFirstDecides == Spec => FirstObservationsDecide
<1>1. Init => ObservedOK
  BY DEF Init, Retests!Init, ObservedOK
<1>2. ObservedOK /\ [Next]_vars => ObservedOK'
  <2> SUFFICES ASSUME ObservedOK, [Next]_vars PROVE ObservedOK'
    OBVIOUS
  <2>1. CASE <<before, after>>' = <<before, after>>
    BY <2>1 DEF ObservedOK
  <2>2. CASE <<before, after>>' # <<before, after>>
    BY <2>2, ObserveAppends DEF ObservedOK
  <2> QED
    BY <2>1, <2>2
<1>3. ASSUME ObservedOK, [Next]_vars, <<before, after>>' # <<before, after>>,
             NEW action_ \in DOMAIN Retests!AffectedChecks,
             NEW i \in DOMAIN Retests!AffectedChecks[action_],
             NEW check, check = Retests!AffectedChecks[action_][i]
      PROVE  /\ \/ Retests!Found(before', check) # Retests!Found(before, check)
                \/ Retests!Found(after', check) # Retests!Found(after, check)
                => check = Retests!NewCheck /\ ~Retests!KnewIt
             /\ Retests!Outcome(Retests!Found(before, check), Retests!Found(after, check)) # "incomplete" =>
                   /\ Retests!Found(before', check) = Retests!Found(before, check)
                   /\ Retests!Found(after', check) = Retests!Found(after, check)
  <2>1. PICK observation \in Observations :
           /\ Retests!NewCheck = observation.check_id
           /\ \/ before' = Append(before, observation) /\ after' = after /\ before' # before
              \/ after' = Append(after, observation) /\ before' = before
    BY <1>3, ObserveAppends
  <2>2. Retests!Outcome(Retests!Found(before, check), Retests!Found(after, check)) # "incomplete"
           => /\ Retests!Observed(before, check) # {}
              /\ Retests!Observed(after, check) # {}
    BY DEF Retests!Outcome, Retests!Found
  <2>3. CASE before' = Append(before, observation) /\ after' = after /\ before' # before
    BY <1>3, <2>1, <2>2, <2>3, FoundStays DEF ObservedOK, Retests!KnewIt
  <2>4. CASE after' = Append(after, observation) /\ before' = before
    BY <1>3, <2>1, <2>2, <2>4, FoundStays DEF ObservedOK, Retests!KnewIt
  <2> QED
    BY <2>1, <2>3, <2>4
<1>4. ASSUME ObservedOK, [Next]_vars, <<before, after>>' # <<before, after>>
      PROVE  Retests!OutcomesStay
  <2> SUFFICES ASSUME NEW action_ \in DOMAIN Retests!AffectedChecks,
                      NEW i \in DOMAIN Retests!AffectedChecks[action_],
                      NEW old, old = Retests!Comparisons(action_, before, after)[i],
                      NEW new, new = Retests!Comparisons(action_, before', after')[i]
               PROVE  /\ old # new => old.check_id = Retests!NewCheck /\ ~Retests!KnewIt
                      /\ old.outcome # "incomplete" => new.outcome = old.outcome
    BY DEF Retests!OutcomesStay, Retests!Comparisons
  <2>1. PICK check : check = Retests!AffectedChecks[action_][i]
    OBVIOUS
  <2>2. old = [check_id |-> check, before |-> Retests!Found(before, check),
               after |-> Retests!Found(after, check),
               outcome |-> Retests!Outcome(Retests!Found(before, check), Retests!Found(after, check))]
    BY <2>1 DEF Retests!Comparisons
  <2>3. new = [check_id |-> check, before |-> Retests!Found(before', check),
               after |-> Retests!Found(after', check),
               outcome |-> Retests!Outcome(Retests!Found(before', check), Retests!Found(after', check))]
    BY <2>1 DEF Retests!Comparisons
  <2> QED
    BY <1>3, <1>4, <2>1, <2>2, <2>3
<1>5. ObservedOK /\ [Next]_vars => [Retests!OutcomesStay]_(Retests!retestVars)
  BY <1>4 DEF Retests!retestVars
<1> QED
  BY <1>1, <1>2, <1>5, PTL DEF Spec, FirstObservationsDecide, Retests!FirstObservationsDecide

-----------------------------------------------------------------------------
(* The fact document. *)

DocumentOK ==
    /\ stage \in {"new", "failed", "filled", "written", "read"}
    /\ document \in [version : {1}, mode : 0..3, status : 0..6, errors : Documents!ErrorLists]

\* The text says what was written, but for what was done to it since.
TextSays ==
    /\ json.parses <=> "text" \notin altered
    /\ Documents!Required \subseteq json.members <=> "members" \notin altered
    /\ Documents!VersionOf(json.version) = 1 <=> "version" \notin altered
    /\ json.mode = IF "mode" \in altered THEN "unheard_of"
                   ELSE Documents!SupportModeName(document.mode)
    /\ json.status = IF "status" \in altered THEN "unheard_of"
                     ELSE Documents!ScanStatusName(document.status)
    /\ Documents!ErrorsOf(json.errors) = IF "errors" \in altered THEN <<>> ELSE document.errors

TextOK ==
    /\ DOMAIN json = {"parses", "members", "version", "mode", "status", "errors"}
    /\ json.parses \in BOOLEAN
    /\ DOMAIN json.errors = {"type", "says"}
    /\ "errors" \notin altered => json.errors.type \in {"array", "object"}

DocumentInv ==
    /\ DocumentOK
    /\ stage \in {"new", "failed", "filled"} => altered = {}
    /\ stage \in {"written", "read"} => TextOK /\ TextSays
    /\ stage = "read" => result = Documents!Deserialized(json)

\* Reading undoes writing, for every mode and status.
LEMMA NamesRead ==
    /\ \A mode \in 0..3 :
          /\ Documents!ParseSupportMode(Documents!SupportModeName(mode)) = mode
          /\ Documents!SupportModeName(mode) # "unheard_of"
    /\ \A code \in 0..6 :
          /\ Documents!ParseScanStatus(Documents!ScanStatusName(code)) = code
          /\ Documents!ScanStatusName(code) # "unheard_of"
    /\ Documents!ParseSupportMode("unheard_of") = 3
    /\ Documents!ParseScanStatus("unheard_of") = 0
BY DEF Documents!ParseSupportMode, Documents!SupportModeName, Documents!full,
   Documents!compatible, Documents!legacy, Documents!unsupported,
   Documents!ParseScanStatus, Documents!ScanStatusName, Documents!not_started

\* The document of the constructor.
LEMMA DocumentInit == Init => DocumentInv
<1> SUFFICES ASSUME Init PROVE DocumentInv
  OBVIOUS
<1>1. /\ stage = "new" /\ altered = {}
      /\ document = [version |-> 1, mode |-> 3, status |-> 0, errors |-> <<>>]
  BY DEF Init, Documents!Init, Documents!NewDocument,
     Documents!current_schema_version, Documents!unsupported, Documents!not_started
<1>2. <<>> \in Documents!ErrorLists
  BY DEF Documents!ErrorLists
<1> QED
  BY <1>1, <1>2 DEF DocumentInv, DocumentOK

\* What is written says what the document says.
LEMMA DocumentWrite == DocumentInv /\ Documents!Write => DocumentInv'
<1> SUFFICES ASSUME DocumentInv, Documents!Write PROVE DocumentInv'
  OBVIOUS
<1>1. stage = "filled" /\ UNCHANGED <<document, altered, result>> /\ altered = {} /\ DocumentOK
  BY DEF Documents!Write, DocumentInv
<1>2. CASE stage' = "failed"
  BY <1>1, <1>2 DEF DocumentInv, DocumentOK
<1>3. CASE stage' = "written" /\ json' = Documents!Serialized(document)
  <2>1. json' = [parses |-> TRUE,
                 members |-> Documents!Required \cup {"certificates", "smartCards"},
                 version |-> Documents!Value("integer", 1),
                 mode |-> Documents!SupportModeName(document.mode),
                 status |-> Documents!ScanStatusName(document.status),
                 errors |-> Documents!Value("array", document.errors)]
    BY <1>1, <1>3 DEF Documents!Serialized, DocumentOK
  <2>2. /\ Documents!VersionOf(json'.version) = 1
        /\ Documents!ErrorsOf(json'.errors) = document.errors
        /\ DOMAIN json'.errors = {"type", "says"} /\ json'.errors.type = "array"
    BY <2>1, ModulusAssumption DEF Documents!VersionOf, Documents!ErrorsOf, Documents!Value
  <2>3. TextOK' /\ TextSays'
    BY <1>1, <2>1, <2>2 DEF TextOK, TextSays
  <2>4. DocumentOK'
    BY <1>1, <1>3 DEF DocumentOK
  <2> QED
    BY <1>1, <1>3, <2>3, <2>4 DEF DocumentInv
<1> QED
  BY <1>2, <1>3 DEF Documents!Write

\* What the conversion makes of the versions no program writes.
LEMMA VersionsRead ==
    /\ \A version \in Documents!Unknown : Documents!VersionOf(version) # 1
    /\ \A version \in Documents!Aliases : Documents!VersionOf(version) = 1
<1>1. 0 % Modulus # 1 /\ 2 % Modulus # 1 /\ (Modulus + 1) % Modulus = 1
  BY ModulusAssumption
<1>2. 20 \div 10 # 1 /\ 19 \div 10 = 1
  OBVIOUS
<1> QED
  BY <1>1, <1>2 DEF Documents!Unknown, Documents!Aliases, Documents!VersionOf, Documents!Value

\* What is done to the text outside the program is seen in it.
LEMMA DocumentAlter == DocumentInv /\ Documents!Alterations => DocumentInv'
<1> SUFFICES ASSUME DocumentInv, Documents!Alterations PROVE DocumentInv'
  OBVIOUS
<1>1. /\ stage = "written" /\ UNCHANGED <<stage, document, result>>
  BY DEF Documents!Alterations, Documents!Alter
<1>2. TextOK /\ TextSays
  BY <1>1 DEF DocumentInv
<1>3. DocumentOK'
  BY <1>1 DEF DocumentInv, DocumentOK
<1>4. TextOK' /\ TextSays'
  <2>1. CASE Documents!Alter("text", [json EXCEPT !.parses = FALSE])
    BY <1>1, <1>2, <2>1 DEF Documents!Alter, TextOK, TextSays
  <2>2. ASSUME NEW name \in Documents!Required,
               Documents!Alter("members", [json EXCEPT !.members = @ \ {name}])
        PROVE  TextOK' /\ TextSays'
    BY <1>1, <1>2, <2>2 DEF Documents!Alter, TextOK, TextSays
  <2>3. CASE Documents!Alter("ignored", [json EXCEPT !.members = @ \cup Documents!Ignored])
    <3>1. Documents!Required \cap Documents!Ignored = {}
      BY DEF Documents!Required, Documents!Ignored
    <3> QED
      BY <1>1, <1>2, <2>3, <3>1 DEF Documents!Alter, TextOK, TextSays
  <2>4. ASSUME NEW version \in Documents!Unknown, "alias" \notin altered,
               Documents!Alter("version", [json EXCEPT !.version = version])
        PROVE  TextOK' /\ TextSays'
    <3>1. Documents!VersionOf(version) # 1
      BY VersionsRead
    <3> QED
      BY <1>1, <1>2, <2>4, <3>1 DEF Documents!Alter, TextOK, TextSays
  <2>5. ASSUME NEW version \in Documents!Aliases, "version" \notin altered,
               Documents!Alter("alias", [json EXCEPT !.version = version])
        PROVE  TextOK' /\ TextSays'
    <3>1. Documents!VersionOf(version) = 1
      BY VersionsRead
    <3> QED
      BY <1>1, <1>2, <2>5, <3>1 DEF Documents!Alter, TextOK, TextSays
  <2>6. ASSUME NEW errors \in {Documents!Value("null", 0), Documents!Value("object", <<>>)},
               Documents!Alter("errors", [json EXCEPT !.errors = errors])
        PROVE  TextOK' /\ TextSays'
    <3>1. Documents!ErrorsOf(errors) = <<>> /\ DOMAIN errors = {"type", "says"}
      BY DEF Documents!ErrorsOf, Documents!Value
    <3> QED
      BY <1>1, <1>2, <2>6, <3>1 DEF Documents!Alter, TextOK, TextSays
  <2>7. CASE /\ "errors" \notin altered
             /\ Documents!Alter("keyed", [json EXCEPT !.errors.type = "object"])
    <3>1. Documents!ErrorsOf(json'.errors) = Documents!ErrorsOf(json.errors)
      BY <1>2, <2>7 DEF Documents!Alter, Documents!ErrorsOf, TextOK, TextSays
    <3> QED
      BY <1>1, <1>2, <2>7, <3>1 DEF Documents!Alter, TextOK, TextSays
  <2>8. CASE Documents!Alter("mode", [json EXCEPT !.mode = "unheard_of"])
    BY <1>1, <1>2, <2>8 DEF Documents!Alter, TextOK, TextSays
  <2>9. CASE Documents!Alter("status", [json EXCEPT !.status = "unheard_of"])
    BY <1>1, <1>2, <2>9 DEF Documents!Alter, TextOK, TextSays
  <2> QED
    BY <2>1, <2>2, <2>3, <2>4, <2>5, <2>6, <2>7, <2>8, <2>9 DEF Documents!Alterations
<1> QED
  BY <1>1, <1>3, <1>4 DEF DocumentInv

\* Every step keeps the invariant.
LEMMA DocumentStep == DocumentInv /\ [Next]_vars => DocumentInv'
<1> SUFFICES ASSUME DocumentInv, [Next]_vars PROVE DocumentInv'
  OBVIOUS
<1>1. ASSUME NEW version \in Versions, NEW code \in Documents!ScanStatuses,
             NEW errors \in Documents!ErrorLists,
             Documents!Fill(version, code, errors)
      PROVE  DocumentInv'
  <2>1. /\ stage = "new" /\ stage' = "filled" /\ UNCHANGED <<json, altered, result>>
        /\ document' = [document EXCEPT
              !.mode = Documents!ClassifySupportMode(version[1], version[2], version[3]),
              !.status = code, !.errors = errors]
    BY <1>1 DEF Documents!Fill
  <2>2. Documents!ClassifySupportMode(version[1], version[2], version[3]) \in 0..3
    BY DEF Documents!ClassifySupportMode, Documents!full, Documents!compatible,
       Documents!legacy, Documents!unsupported
  <2>3. code \in 0..6
    BY DEF Documents!ScanStatuses
  <2> QED
    BY <2>1, <2>2, <2>3 DEF DocumentInv, DocumentOK
<1>2. CASE Documents!DetectFails
  BY <1>2 DEF Documents!DetectFails, DocumentInv, DocumentOK
<1>3. CASE Documents!Write
  BY <1>3, DocumentWrite
<1>4. CASE Documents!Alterations
  BY <1>4, DocumentAlter
<1>5. CASE Documents!Read
  BY <1>5 DEF Documents!Read, DocumentInv, DocumentOK, TextOK, TextSays, Documents!Deserialized
<1>6. CASE UNCHANGED <<stage, document, json, altered, result>>
  BY <1>6 DEF DocumentInv, DocumentOK, TextOK, TextSays, Documents!Deserialized
<1> QED
  BY <1>1, <1>2, <1>3, <1>4, <1>5, <1>6 DEF Next, OthersRest, vars, Documents!Next

\* A document comes back as it was, cautiously, or not at all.
THEOREM LibraryReadsBack == Spec => []ReadsBack
<1>1. ASSUME DocumentInv, stage = "read"
      PROVE  /\ result.threw <=> altered \cap {"text", "members", "version"} # {}
             /\ ~result.threw => result.document = [document EXCEPT
                     !.mode   = IF "mode" \in altered THEN 3 ELSE @,
                     !.status = IF "status" \in altered THEN 0 ELSE @,
                     !.errors = IF "errors" \in altered THEN <<>> ELSE @]
  <2>1. result = Documents!Deserialized(json) /\ TextOK /\ TextSays /\ DocumentOK
    BY <1>1 DEF DocumentInv
  <2>2. result.threw <=>
           \/ ~json.parses
           \/ ~(Documents!Required \subseteq json.members)
           \/ Documents!VersionOf(json.version) # 1
    BY <2>1 DEF Documents!Deserialized, Documents!current_schema_version
  <2>3. result.threw <=> altered \cap {"text", "members", "version"} # {}
    BY <2>1, <2>2 DEF TextSays
  <2>4. ASSUME ~result.threw
        PROVE  result.document =
                  [version |-> 1, mode |-> Documents!ParseSupportMode(json.mode),
                   status |-> Documents!ParseScanStatus(json.status),
                   errors |-> Documents!ErrorsOf(json.errors)]
    BY <2>1, <2>2, <2>4 DEF Documents!Deserialized, Documents!current_schema_version
  <2>5. Documents!ParseSupportMode(json.mode) = IF "mode" \in altered THEN 3 ELSE document.mode
    BY <2>1, NamesRead DEF TextSays, DocumentOK
  <2>6. Documents!ParseScanStatus(json.status) = IF "status" \in altered THEN 0 ELSE document.status
    BY <2>1, NamesRead DEF TextSays, DocumentOK
  <2>7. PICK mode \in 0..3, code \in 0..6, errors \in Documents!ErrorLists :
           document = [version |-> 1, mode |-> mode, status |-> code, errors |-> errors]
    BY <2>1 DEF DocumentOK
  <2>8. ASSUME ~result.threw
        PROVE  result.document = [document EXCEPT
                  !.mode   = IF "mode" \in altered THEN 3 ELSE @,
                  !.status = IF "status" \in altered THEN 0 ELSE @,
                  !.errors = IF "errors" \in altered THEN <<>> ELSE @]
    <3>1. PICK readErrors \in Documents!ErrorLists :
             readErrors = IF "errors" \in altered THEN <<>> ELSE document.errors
      BY <2>7 DEF Documents!ErrorLists
    <3>2. result.document =
             [version |-> 1, mode |-> IF "mode" \in altered THEN 3 ELSE mode,
              status |-> IF "status" \in altered THEN 0 ELSE code, errors |-> readErrors]
      BY <2>1, <2>4, <2>5, <2>6, <2>7, <2>8, <3>1 DEF TextSays
    <3>3. PICK readMode \in 0..3, readCode \in 0..6 :
             /\ readMode = IF "mode" \in altered THEN 3 ELSE document.mode
             /\ readCode = IF "status" \in altered THEN 0 ELSE document.status
      BY <2>7
    <3>4. document \in [version : {1}, mode : {mode}, status : {code}, errors : {errors}]
      BY <2>7
    <3>5. result.document \in
             [version : {1}, mode : {readMode}, status : {readCode}, errors : {readErrors}]
      BY <2>7, <3>2, <3>3
    <3>6. [document EXCEPT !.mode = readMode, !.status = readCode, !.errors = readErrors]
             = result.document
      BY <3>4, <3>5
    <3> QED
      BY <3>1, <3>3, <3>6, Zenon
  <2> QED
    BY <2>3, <2>8
<1>2. DocumentInv => ReadsBack
  BY <1>1 DEF ReadsBack, Documents!ReadsBack, Documents!unsupported, Documents!not_started
<1> QED
  BY DocumentInit, DocumentStep, <1>2, PTL DEF Spec

=============================================================================

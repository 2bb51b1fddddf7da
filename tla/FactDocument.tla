---------------------------- MODULE FactDocument ----------------------------
(***************************************************************************)
(* The fact document (src/facts.cpp) with the support mode that            *)
(* src/platform.cpp puts into it: it is written as JSON, leaves the        *)
(* program, and is read again, by then perhaps cut short, edited, or       *)
(* written by another version.  Enumerators are the integers of the C++    *)
(* enumerations, so the two name tables and the two parsers stay apart.    *)
(***************************************************************************)
EXTENDS FiniteSets, Naturals, Sequences

CONSTANTS Versions,        \* <<major, minor, service pack>> Windows may report
          Modulus,         \* 2^32: where a std::uint32_t starts again
          MaxAlterations   \* bound: respects in which a text is altered

VARIABLES stage,           \* "new", "failed", "filled", "written", "read"
          document,        \* FactDocument as it was filled
          json,            \* the text: whether it parses, members, values
          altered,         \* history: what was done to the text
          result           \* of deserialize_facts: a document, unless it threw

factVars == <<stage, document, json, altered, result>>

\* enum class SupportMode, enum class ScanStatus
full == 0
compatible == 1
legacy == 2
unsupported == 3
not_started == 0
ScanStatuses == 0..6

\* Members deserialize_facts asks for with at(), and those it never looks at.
\* Of platform and scan only the names of the mode and of the status are kept.
Required == {"schemaVersion", "platform", "mode", "scan", "status", "errors"}
Ignored  == {"certificates", "smartCards", "unheard_of"}

current_schema_version == 1

\* A value of the text is its JSON type and what it says: a number with a
\* fraction in tenths, false and true as 0 and 1.
Value(type, says) == [type |-> type, says |-> says]

\* A document as its constructor leaves it.
NewDocument == [version |-> current_schema_version, mode |-> unsupported,
                status |-> not_started, errors |-> <<>>]
NoText == [parses |-> FALSE, members |-> {}, version |-> Value("integer", 0),
           mode |-> "", status |-> "", errors |-> Value("array", <<>>)]

Init ==
    /\ stage = "new" /\ document = NewDocument /\ json = NoText
    /\ altered = {} /\ result = [threw |-> FALSE, document |-> NewDocument]

-----------------------------------------------------------------------------
\* classify_support_mode
ClassifySupportMode(major, minor, servicePack) ==
    IF major >= 10 THEN full
    ELSE IF major = 6 /\ minor = 3 THEN compatible
    ELSE IF major = 6 /\ minor = 1 /\ servicePack >= 1 THEN compatible
    ELSE IF major = 5 /\ minor = 1 /\ servicePack >= 3 THEN legacy
    ELSE unsupported

\* support_mode_name, scan_status_name
SupportModeName(mode) == <<"full", "compatible", "legacy", "unsupported">>[mode + 1]
ScanStatusName(status) ==
    <<"not_started", "running", "paused", "completed", "partial", "cancelled", "failed">>[status + 1]

\* parse_support_mode: what it does not know is not supported.
ParseSupportMode(name) ==
    IF name = "full" THEN full
    ELSE IF name = "compatible" THEN compatible
    ELSE IF name = "legacy" THEN legacy ELSE unsupported

\* Mutant of ParseScanStatus: one name was forgotten.
ParseScanStatusShort(name) ==
    CASE name = "running" -> 1 [] name = "completed" -> 3 [] name = "partial" -> 4
      [] name = "cancelled" -> 5 [] name = "failed" -> 6 [] OTHER -> 0

\* parse_scan_status: what it does not know was not started.
ParseScanStatus(name) ==
    IF name = "running" THEN 1
    ELSE IF name = "paused" THEN 2
    ELSE IF name = "completed" THEN 3
    ELSE IF name = "partial" THEN 4
    ELSE IF name = "cancelled" THEN 5
    ELSE IF name = "failed" THEN 6 ELSE not_started

\* serialize_facts
Serialized(doc) ==
    [parses |-> TRUE, members |-> Required \cup {"certificates", "smartCards"},
     version |-> Value("integer", doc.version), mode |-> SupportModeName(doc.mode),
     status |-> ScanStatusName(doc.status), errors |-> Value("array", doc.errors)]

\* get<std::uint32_t>() casts what it finds, whatever kind of number it is.
VersionOf(value) ==
    IF value.type = "integer" THEN value.says % Modulus
    ELSE IF value.type = "tenths" THEN value.says \div 10
    ELSE value.says

\* The loop over errors: null has no elements, and an object has its values.
ErrorsOf(value) == IF value.type = "null" THEN <<>> ELSE value.says

\* deserialize_facts
Deserialized(text) ==
    IF \/ ~text.parses
       \/ ~(Required \subseteq text.members)
       \/ VersionOf(text.version) # current_schema_version
    THEN [threw |-> TRUE, document |-> NewDocument]
    ELSE [threw |-> FALSE,
          document |-> [version |-> VersionOf(text.version),
                        mode |-> ParseSupportMode(text.mode),
                        status |-> ParseScanStatus(text.status),
                        errors |-> ErrorsOf(text.errors)]]

-----------------------------------------------------------------------------
\* Lists of errors: "not_utf8" is one whose text is not valid UTF-8.
ErrorLists == {<<>>, <<"access_denied">>, <<"access_denied", "io_error">>, <<"not_utf8">>}

\* to_platform_facts of what was detected, then the scan's facts.
Fill(version, status, errors) ==
    /\ stage = "new"
    /\ stage' = "filled"
    /\ document' = [document EXCEPT
                       !.mode = ClassifySupportMode(version[1], version[2], version[3]),
                       !.status = status, !.errors = errors]
    /\ UNCHANGED <<json, altered, result>>

\* detect_windows_platform throws: ntdll.dll, RtlGetVersion or its answer.
DetectFails ==
    /\ stage = "new"
    /\ stage' = "failed"
    /\ UNCHANGED <<document, json, altered, result>>

\* serialize_facts: dump(2) throws at a text that is not UTF-8.
Write ==
    /\ stage = "filled"
    /\ IF document.errors = <<"not_utf8">>
       THEN stage' = "failed" /\ UNCHANGED json
       ELSE stage' = "written" /\ json' = Serialized(document)
    /\ UNCHANGED <<document, altered, result>>

\* Outside the program the text is changed in one more respect.
Alter(what, changed) ==
    /\ stage = "written" /\ what \notin altered /\ Cardinality(altered) < MaxAlterations
    /\ json' = changed
    /\ altered' = altered \cup {what}
    /\ UNCHANGED <<stage, document, result>>

\* Versions no program writes: those that a std::uint32_t tells from the
\* current one, and those that the conversion makes equal to it.
Unknown == {Value("integer", 0), Value("integer", 2), Value("tenths", 20), Value("boolean", 0)}
Aliases == {Value("integer", Modulus + 1), Value("tenths", 19), Value("boolean", 1)}

Alterations ==
    \/ Alter("text", [json EXCEPT !.parses = FALSE])
    \* A member is removed, or given a value that its get() or at() refuses.
    \/ \E name \in Required : Alter("members", [json EXCEPT !.members = @ \ {name}])
    \/ Alter("ignored", [json EXCEPT !.members = @ \cup Ignored])
    \/ /\ "alias" \notin altered
       /\ \E version \in Unknown : Alter("version", [json EXCEPT !.version = version])
    \/ /\ "version" \notin altered
       /\ \E version \in Aliases : Alter("alias", [json EXCEPT !.version = version])
    \* The list is emptied, as an object or as null, or its entries are given names.
    \/ /\ "keyed" \notin altered
       /\ \E errors \in {Value("null", 0), Value("object", <<>>)} :
             Alter("errors", [json EXCEPT !.errors = errors])
    \/ /\ "errors" \notin altered
       /\ Alter("keyed", [json EXCEPT !.errors.type = "object"])
    \/ Alter("mode", [json EXCEPT !.mode = "unheard_of"])
    \/ Alter("status", [json EXCEPT !.status = "unheard_of"])

Read ==
    /\ stage = "written"
    /\ stage' = "read"
    /\ result' = Deserialized(json)
    /\ UNCHANGED <<document, json, altered>>

Next ==
    \/ \E version \in Versions, status \in ScanStatuses, errors \in ErrorLists :
          Fill(version, status, errors)
    \/ DetectFails \/ Write \/ Alterations \/ Read

Spec == Init /\ [][Next]_factVars

-----------------------------------------------------------------------------
(* Properties. *)

\* A document comes back as it was filled, in every support mode and status, or
\* is refused: exactly when its text was cut, lost a member or says a version
\* that is not the current one when it is cast to 32 bits.  Members nobody reads
\* change nothing; a name the reader does not know is read as the cautious value
\* of its field and of no other (docs/11_CONTRATO_DE_FATOS.md:14), and errors
\* that are null or an empty object are read as no errors.
ReadsBack ==
    stage = "read" =>
        /\ result.threw <=> altered \cap {"text", "members", "version"} # {}
        /\ ~result.threw => result.document = [document EXCEPT
                !.mode   = IF "mode" \in altered THEN unsupported ELSE @,
                !.status = IF "status" \in altered THEN not_started ELSE @,
                !.errors = IF "errors" \in altered THEN <<>> ELSE @]

\* What the contract promises (docs/11_CONTRATO_DE_FATOS.md:3): every version
\* but the current one is refused.  The cast of deserialize_facts accepts some.
UnknownVersionRefused ==
    stage = "read" /\ altered \cap {"version", "alias"} # {} => result.threw

=============================================================================

--------------------------- MODULE SupportActions ---------------------------
(***************************************************************************)
(* The two actions of src/actions.cpp that open a window of Windows: the   *)
(* import wizard for a file the search found, and the vendor's page of a   *)
(* middleware.  The file may be replaced at any time.  (The third action,  *)
(* the start of the smart card service, is in SmartCard.)                  *)
(***************************************************************************)
EXTENDS Naturals

CONSTANTS Provider,        \* provider names a certificate may carry
          Marked           \* those that contain a marker of middleware_sources()

VARIABLES file,            \* what inspect_pkcs12_container says of the file now
          action,          \* the action in progress, and how far it is
          explicit_consent,
          state,           \* ActionExecutionState of the answer
          asked,           \* history: the window Windows was asked for, if any
          contents         \* history: what the file was since the call opened it

actionVars == <<file, action, explicit_consent, state, asked, contents>>

FileStates == {"recognized", "invalid", "too_large", "inaccessible"}
Ids == {"smartcard_service_start", "certificate_import_wizard", "official_middleware_page"}
NoAction == [id |-> "none", at |-> "idle"]

Init ==
    /\ file = "recognized" /\ action = NoAction /\ explicit_consent = FALSE
    /\ state = "blocked" /\ asked = "nothing" /\ contents = {}

\* Somebody else writes the file, deletes it or puts another in its place.
Replace(content) ==
    /\ file' = content
    /\ contents' = IF action.at = "read" THEN contents \cup {content} ELSE contents
    /\ UNCHANGED <<action, explicit_consent, state, asked>>

Call(id, consent) ==
    /\ action.at \in {"idle", "done"}
    /\ action' = [id |-> id, at |-> "plan"]
    /\ explicit_consent' = consent
    /\ state' = "blocked" /\ asked' = "nothing"
    /\ contents' = {}
    /\ UNCHANGED file

GoOn(where) == action' = [action EXCEPT !.at = where]

Importing(where) == action = [id |-> "certificate_import_wizard", at |-> where]

\* open_certificate_import_wizard inspects the file, with consent or without
\* it: inspect_pkcs12_container first asks for the size,
MeasureFile ==
    /\ Importing("plan")
    /\ GoOn(IF file \in {"inaccessible", "too_large"} THEN "done" ELSE "file")
    /\ UNCHANGED <<file, explicit_consent, state, asked, contents>>

\* then opens the file, by then perhaps another one,
OpenFile ==
    /\ Importing("file")
    /\ GoOn(IF file = "inaccessible" THEN "done" ELSE "read")
    /\ contents' = {file}
    /\ UNCHANGED <<file, explicit_consent, state, asked>>

\* and reads as many bytes as there were: the read may fail, or find what the
\* file was at an instant since it was opened.
Found ==
    {"inaccessible"}
      \cup (contents \cap {"recognized"})
      \cup (IF contents = {"recognized"} THEN {} ELSE {"invalid"})

\* Mutant of PlanImport: a file that could not be read gets the wizard too.
PlanImportLenient ==
    /\ Importing("read")
    /\ \E found \in Found :
          GoOn(IF explicit_consent /\ found # "invalid" THEN "open" ELSE "done")
    /\ UNCHANGED <<file, explicit_consent, state, asked, contents>>

\* plan_certificate_import decides by what was read.
PlanImport ==
    /\ Importing("read")
    /\ \E found \in Found :
          GoOn(IF explicit_consent /\ found = "recognized" THEN "open" ELSE "done")
    /\ UNCHANGED <<file, explicit_consent, state, asked, contents>>

\* open_official_middleware_page: consent, a known vendor, its address.
PlanPage(provider) ==
    /\ action = [id |-> "official_middleware_page", at |-> "plan"]
    /\ IF ~explicit_consent \/ provider \notin Marked
       THEN GoOn("done") /\ UNCHANGED state
       ELSE \/ GoOn("open") /\ UNCHANGED state
            \/ GoOn("done") /\ state' = "failed"    \* the address does not convert
    /\ UNCHANGED <<file, explicit_consent, asked, contents>>

\* CryptUIWizImport or ShellExecuteW, and what it answers.
AskWindows ==
    /\ action.at = "open"
    /\ GoOn("done")
    /\ asked' = IF action.id = "certificate_import_wizard" THEN "wizard" ELSE "page"
    /\ state' \in {"applied", "failed"}
    /\ UNCHANGED <<file, explicit_consent, contents>>

Next ==
    \/ \E content \in FileStates \ {file} : Replace(content)
    \/ \E id \in Ids \ {"smartcard_service_start"}, consent \in BOOLEAN : Call(id, consent)
    \/ MeasureFile \/ OpenFile \/ PlanImport
    \/ (\E provider \in Provider : PlanPage(provider))
    \/ AskWindows

Spec == Init /\ [][Next]_actionVars

-----------------------------------------------------------------------------
\* authorize_action, for a caller that asks before it offers an action.
AuthorizeAction(id, consent) ==
    IF id \notin Ids THEN "unknown_action"
    ELSE IF consent THEN "allowed" ELSE "consent_required"

(* Properties. *)

\* Windows is asked for a window only by an action that authorize_action,
\* which the actions themselves do not consult, would allow, and for the wizard
\* only when the file was a container at an instant between its opening and its
\* reading, whoever replaced it before, after or between; the answer is
\* "applied" only after a window was asked for and "blocked" only when none was.
AsksOnlyWhatIsAllowed ==
    /\ asked # "nothing" => AuthorizeAction(action.id, explicit_consent) = "allowed"
    /\ asked = "wizard" => "recognized" \in contents
    /\ state = "applied" => asked # "nothing"
    /\ state = "blocked" => asked = "nothing"

=============================================================================

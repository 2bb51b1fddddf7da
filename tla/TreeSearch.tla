----------------------------- MODULE TreeSearch -----------------------------
(***************************************************************************)
(* What search_files promises to its caller, without a queue, a listing or *)
(* a set of visited paths: it reports files the search is meant to reach,  *)
(* each file once whatever its paths, and it ends as completed only with   *)
(* every such file reported or with the gaps counted in the result.        *)
(***************************************************************************)
EXTENDS Sequences

CONSTANTS Identity,        \* Identity[p]: the file that path p leads to
          Findable,        \* the paths a search may report
          Due              \* those whose file it may not miss uncounted

VARIABLES report,          \* the paths reported so far
          gaps,            \* whether the result counts an error or a denied folder
          status           \* ScanStatus of the result

searchVars == <<report, gaps, status>>

Reported == {Identity[report[i]] : i \in DOMAIN report}

SearchInit ==
    /\ report = <<>>
    /\ gaps = FALSE
    /\ status = "running"

\* One more file is reported: a reachable one, under an identity not seen yet.
Report ==
    /\ status = "running"
    /\ \E f \in Findable :
          /\ Identity[f] \notin Reported
          /\ report' = Append(report, f)
    /\ UNCHANGED <<gaps, status>>

CountGap ==
    /\ status = "running"
    /\ gaps' = TRUE
    /\ UNCHANGED <<report, status>>

Complete ==
    /\ status = "running"
    /\ gaps \/ \A f \in Due : Identity[f] \in Reported
    /\ status' = "completed"
    /\ UNCHANGED <<report, gaps>>

Abandon ==
    /\ status = "running"
    /\ status' = "cancelled"
    /\ UNCHANGED <<report, gaps>>

SearchNext == Report \/ CountGap \/ Complete \/ Abandon

SearchSpec == SearchInit /\ [][SearchNext]_searchVars

=============================================================================

----------------------------- MODULE MainWindow -----------------------------
(***************************************************************************)
(* The window of CertRadar (src/app/main.cpp): the UI thread with its      *)
(* message queue, the SearchControl it shares with the search it starts,   *)
(* and the three worker threads it starts and joins.                       *)
(*                                                                         *)
(* A step of the UI thread is the code between two points where it may     *)
(* block or where another thread may look: a join, an access under a       *)
(* mutex, a call on the SearchControl, the return to the message loop.  A  *)
(* handler's reads and writes of widgets belong to the step around them.   *)
(***************************************************************************)
EXTENDS Naturals, Sequences, FiniteSets

CONSTANTS MaxOperations,   \* bound: operations started in a behaviour
          MaxUnits,        \* bound: folders and entries of one search
          MaxRows,         \* bound: rows of one result
          QueueLimit,      \* messages the queue takes before PostMessageW fails
          ListNotifies     \* results_list has the LBS_NOTIFY style (it has not)

ASSUME BoundsAssumption ==
    /\ MaxOperations \in Nat /\ MaxUnits \in Nat /\ MaxRows \in Nat
    /\ QueueLimit \in Nat /\ ListNotifies \in BOOLEAN

VARIABLES ui,              \* where the UI thread is
          queue,           \* posted messages not yet dispatched
          enabled,         \* buttons that are enabled
          pauseLabel,      \* text of pause_button
          view,            \* result_view
          list,            \* results_list: the operation it shows and its rows
          selection,       \* LB_GETCURSEL, 0 for LB_ERR
          status,          \* status_label, by kind
          clipboard,       \* the operation whose summary was copied last
          hasControl,      \* scan_control is not null
          worker,          \* worker[t]: where thread t is
          result,          \* result[t]: the result t is building
          units,           \* work done by the search that runs
          completed,       \* completed[t]: the result t published under its mutex
          operations,      \* operations started so far
          paused, cancelled, mutex, waiterPc, callerPc   \* *scan_control

controlVars == <<paused, cancelled, mutex, waiterPc, callerPc>>
widgetVars  == <<enabled, pauseLabel, view, list, selection, status, clipboard>>
workerVars  == <<worker, result, units, completed>>
vars == <<ui, queue, widgetVars, hasControl, workerVars, operations, controlVars>>

Control == INSTANCE SearchControl WITH
               Waiters <- {"scan"}, Callers <- {"ui"}, NoThread <- "free"

Threads == {"scan", "cert", "a3"}
StartButtons == {"start", "user", "machine", "a3"}
Buttons == StartButtons \cup {"pause", "cancel", "copy", "reveal"}

NoResult == [op |-> 0, outcome |-> "none", rows |-> 0]
EmptyList == [op |-> 0, rows |-> 0]

\* A thread that may still touch what it shares with the UI thread.
Working(t) == worker[t] \notin {"none", "returned"}

Init ==
    /\ ui = "loop" /\ queue = <<>>
    /\ enabled = StartButtons
    /\ pauseLabel = "Pausar" /\ view = "scan"
    /\ list = EmptyList /\ selection = 0
    /\ status = "ready" /\ clipboard = 0
    /\ hasControl = FALSE
    /\ worker = [t \in Threads |-> "none"]
    /\ result = [t \in Threads |-> NoResult]
    /\ units = 0
    /\ completed = [t \in Threads |-> NoResult]
    /\ operations = 0
    /\ Control!Init

-----------------------------------------------------------------------------
(* Helpers of the handlers. *)

\* Mutant of ScanControls: set_scan_controls forgets a3_local_button.
ScanControlsWithoutA3(buttons, running) ==
    LET others == StartButtons \ {"a3"}
    IN IF running THEN (buttons \ others) \cup {"pause", "cancel"}
                  ELSE (buttons \ {"pause", "cancel"}) \cup others

\* EnableWindow as set_scan_controls does, from the buttons given.
ScanControls(buttons, running) ==
    IF running THEN (buttons \ StartButtons) \cup {"pause", "cancel"}
               ELSE (buttons \ {"pause", "cancel"}) \cup StartButtons

\* PostMessageW: the message is lost when the queue is full.
Posted(message) == IF Len(queue) < QueueLimit THEN Append(queue, message) ELSE queue

\* thread.join() of every thread in ts returns.
Joined(ts) == /\ \A t \in ts : ~Working(t)
              /\ worker' = [t \in Threads |-> IF t \in ts THEN "none" ELSE worker[t]]

-----------------------------------------------------------------------------
(* The user. *)

\* A click on a button that starts an operation calls its handler.
ClickStart(button) ==
    /\ ui = "loop" /\ button \in enabled \cap StartButtons
    /\ operations < MaxOperations
    /\ ui' = button
    /\ UNCHANGED <<queue, widgetVars, hasControl, workerVars, operations, controlVars>>

\* pause_or_resume, when the search is not paused.
ClickPause ==
    /\ ui = "loop" /\ "pause" \in enabled /\ hasControl
    /\ ~paused
    /\ Control!RequestPause("ui")
    /\ pauseLabel' = "Continuar" /\ status' = "pausing"
    /\ UNCHANGED <<ui, queue, enabled, view, list, selection, clipboard,
                   hasControl, workerVars, operations>>

\* pause_or_resume, when it is: resume() up to its notify_all.
ClickResume ==
    /\ ui = "loop" /\ "pause" \in enabled /\ hasControl
    /\ paused
    /\ Control!ResumeStore("ui")
    /\ ui' = "resume"
    /\ UNCHANGED <<queue, widgetVars, hasControl, workerVars, operations>>

FinishResume ==
    /\ ui = "resume"
    /\ Control!NotifyAll("ui")
    /\ ui' = "loop"
    /\ pauseLabel' = "Pausar" /\ status' = "resumed"
    /\ UNCHANGED <<queue, enabled, view, list, selection, clipboard,
                   hasControl, workerVars, operations>>

ClickCancel ==
    /\ ui = "loop" /\ "cancel" \in enabled /\ hasControl
    /\ Control!CancelStore("ui")
    /\ ui' = "cancel"
    /\ UNCHANGED <<queue, widgetVars, hasControl, workerVars, operations>>

FinishCancel ==
    /\ ui = "cancel"
    /\ Control!NotifyAll("ui")
    /\ ui' = "loop"
    /\ status' = "cancelling"
    /\ UNCHANGED <<queue, enabled, pauseLabel, view, list, selection, clipboard,
                   hasControl, workerVars, operations>>

\* copy_support_summary: the summary of the result the view names, when the
\* clipboard can be taken.
ClickCopy ==
    /\ ui = "loop" /\ "copy" \in enabled
    /\ \/ clipboard' = completed[view].op /\ status' = "copied"
       \/ clipboard' = clipboard /\ status' = "clipboardBusy"
    /\ UNCHANGED <<ui, queue, enabled, pauseLabel, view, list, selection,
                   hasControl, workerVars, operations, controlVars>>

\* The user selects a row.  The list box tells its parent only with LBS_NOTIFY.
SelectRow ==
    /\ ui = "loop"
    /\ selection' \in 1..list.rows
    /\ enabled' = IF ~ListNotifies THEN enabled
                  ELSE IF view = "scan" THEN enabled \cup {"reveal"}
                  ELSE enabled \ {"reveal"}
    /\ UNCHANGED <<ui, queue, pauseLabel, view, list, status, clipboard,
                   hasControl, workerVars, operations, controlVars>>

\* reveal_selected_candidate: Explorer opens on the candidate that has the
\* index of the selected row in completed_result.
ClickReveal ==
    /\ ui = "loop" /\ "reveal" \in enabled
    /\ status' = IF selection = 0 THEN "selectFirst"
                 ELSE IF selection > completed["scan"].rows THEN "noSafePath"
                 ELSE "revealed"
    /\ UNCHANGED <<ui, queue, enabled, pauseLabel, view, list, selection, clipboard,
                   hasControl, workerVars, operations, controlVars>>

\* Mutant of Close: the window joins the search without cancelling it.
CloseWithoutCancel ==
    /\ ui = "loop"
    /\ ui' = "destroyJoin"
    /\ UNCHANGED <<queue, widgetVars, hasControl, workerVars, operations, controlVars>>

\* WM_DESTROY: cancel() up to its notify_all, when a search was ever started.
Close ==
    /\ ui = "loop"
    /\ IF hasControl THEN Control!CancelStore("ui") /\ ui' = "destroy"
                     ELSE UNCHANGED controlVars /\ ui' = "destroyJoin"
    /\ UNCHANGED <<queue, widgetVars, hasControl, workerVars, operations>>

FinishDestroyCancel ==
    /\ ui = "destroy"
    /\ Control!NotifyAll("ui")
    /\ ui' = "destroyJoin"
    /\ UNCHANGED <<queue, widgetVars, hasControl, workerVars, operations>>

\* The joins of WM_DESTROY, and PostQuitMessage.
Quit ==
    /\ ui = "destroyJoin"
    /\ Joined(Threads)
    /\ ui' = "quit"
    /\ UNCHANGED <<queue, widgetVars, hasControl, result, units, completed,
                   operations, controlVars>>

-----------------------------------------------------------------------------
(* The handlers that start an operation: each joins the three threads. *)

\* Mutant of Launch: the list is not reset.
LaunchKeepingList(t, pc) ==
    /\ \A u \in Threads : ~Working(u)
    /\ operations' = operations + 1
    /\ worker' = [u \in Threads |-> IF u = t THEN pc ELSE "none"]
    /\ result' = [result EXCEPT ![t] = [op |-> operations + 1, outcome |-> "none", rows |-> 0]]
    /\ view' = t
    /\ UNCHANGED <<list, selection, completed>>

\* The thread that runs operation operations'.
Launch(t, pc) ==
    /\ \A u \in Threads : ~Working(u)
    /\ operations' = operations + 1
    /\ worker' = [u \in Threads |-> IF u = t THEN pc ELSE "none"]
    /\ result' = [result EXCEPT ![t] = [op |-> operations + 1, outcome |-> "none", rows |-> 0]]
    /\ view' = t
    /\ list' = EmptyList /\ selection' = 0
    /\ UNCHANGED completed

\* Mutant of StartScan: the copy button stays as it was.
StartScanKeepingCopy ==
    /\ ui = "start"
    /\ ui' = "loop"
    /\ Launch("scan", "plan")
    /\ enabled' = ScanControls(enabled, TRUE) \ {"reveal"}
    /\ pauseLabel' = "Pausar" /\ status' = "preparing"
    /\ hasControl' = TRUE
    /\ units' = 0
    /\ paused' = FALSE /\ cancelled' = FALSE /\ mutex' = "free"
    /\ UNCHANGED <<queue, clipboard, waiterPc, callerPc>>

\* Mutant of StartScan: the label of a paused search survives it.
StartScanKeepingLabel ==
    /\ ui = "start"
    /\ ui' = "loop"
    /\ Launch("scan", "plan")
    /\ enabled' = ScanControls(enabled, TRUE) \ {"copy", "reveal"}
    /\ status' = "preparing"
    /\ hasControl' = TRUE
    /\ units' = 0
    /\ paused' = FALSE /\ cancelled' = FALSE /\ mutex' = "free"
    /\ UNCHANGED <<queue, pauseLabel, clipboard, waiterPc, callerPc>>

\* start_scan: a new control takes the place of the old one.
StartScan ==
    /\ ui = "start"
    /\ ui' = "loop"
    /\ Launch("scan", "plan")
    /\ enabled' = ScanControls(enabled, TRUE) \ {"copy", "reveal"}
    /\ pauseLabel' = "Pausar" /\ status' = "preparing"
    /\ hasControl' = TRUE
    /\ units' = 0
    /\ paused' = FALSE /\ cancelled' = FALSE /\ mutex' = "free"
    /\ UNCHANGED <<queue, clipboard, waiterPc, callerPc>>

\* Mutant of ShowInstalledCertificates: the search can be started meanwhile.
ShowInstalledKeepingStart ==
    /\ ui \in {"user", "machine"}
    /\ ui' = "loop"
    /\ Launch("cert", "read")
    /\ enabled' = enabled \ {"user", "machine", "a3", "copy", "reveal"}
    /\ status' = "reading"
    /\ UNCHANGED <<queue, pauseLabel, clipboard, hasControl, units, controlVars>>

\* Mutant of ShowInstalledCertificates: the reveal button stays as it was.
ShowInstalledKeepingReveal ==
    /\ ui \in {"user", "machine"}
    /\ ui' = "loop"
    /\ Launch("cert", "read")
    /\ enabled' = enabled \ (StartButtons \cup {"copy"})
    /\ status' = "reading"
    /\ UNCHANGED <<queue, pauseLabel, clipboard, hasControl, units, controlVars>>

\* show_installed_certificates, of the user or of the machine: the buttons of
\* the search keep the state they had.
ShowInstalledCertificates ==
    /\ ui \in {"user", "machine"}
    /\ ui' = "loop"
    /\ Launch("cert", "read")
    /\ enabled' = enabled \ (StartButtons \cup {"copy", "reveal"})
    /\ status' = "reading"
    /\ UNCHANGED <<queue, pauseLabel, clipboard, hasControl, units, controlVars>>

ShowA3Local ==
    /\ ui = "a3"
    /\ ui' = "loop"
    /\ Launch("a3", "read")
    /\ enabled' = {}
    /\ status' = "reading"
    /\ UNCHANGED <<queue, pauseLabel, clipboard, hasControl, units, controlVars>>

-----------------------------------------------------------------------------
(* The messages of the workers. *)

\* The next message is one of kind, and the UI thread is free to dispatch it.
Dispatches(kind) == ui = "loop" /\ queue # <<>> /\ Head(queue) = kind /\ queue' = Tail(queue)

ShowProgress ==
    /\ Dispatches("progress")
    /\ status' = "searching"
    /\ UNCHANGED <<ui, enabled, pauseLabel, view, list, selection, clipboard,
                   hasControl, workerVars, operations, controlVars>>

\* Rows of completed[t] are added to what the list holds.
Listed(t) == [op |-> completed[t].op, rows |-> list.rows + completed[t].rows]

\* show_completed_result: a search that failed is shown as one that completed.
ShowCompletedResult ==
    /\ Dispatches("scanFinished")
    /\ Joined({"scan"})
    /\ view' = "scan"
    /\ list' = Listed("scan")
    /\ status' = IF completed["scan"].outcome = "cancelled"
                 THEN "searchCancelled" ELSE "searchCompleted"
    /\ enabled' = ScanControls(enabled, FALSE) \cup {"copy"}
    /\ UNCHANGED <<ui, pauseLabel, selection, clipboard, hasControl,
                   result, units, completed, operations, controlVars>>

\* Mutant of ShowRead: the early return of a failed read leaves the buttons.
ShowReadStuck(t, kind) ==
    /\ Dispatches(kind)
    /\ Joined({t})
    /\ IF completed[t].outcome = "completed"
       THEN /\ list' = Listed(t)
            /\ status' = "readCompleted"
            /\ enabled' = ScanControls(enabled, FALSE) \cup {"copy"}
       ELSE /\ status' = "readFailed"
            /\ UNCHANGED <<enabled, list>>
    /\ UNCHANGED <<ui, pauseLabel, view, selection, clipboard, hasControl,
                   result, units, completed, operations, controlVars>>

\* show_installed_certificate_result and show_a3_result: only a result that
\* was obtained is listed and can be copied.
ShowRead(t, kind) ==
    /\ Dispatches(kind)
    /\ Joined({t})
    /\ IF completed[t].outcome = "completed"
       THEN /\ list' = Listed(t)
            /\ status' = "readCompleted"
            /\ enabled' = ScanControls(enabled, FALSE) \cup {"copy"}
       ELSE /\ status' = "readFailed"
            /\ enabled' = ScanControls(enabled, FALSE)
            /\ UNCHANGED list
    /\ UNCHANGED <<ui, pauseLabel, view, selection, clipboard, hasControl,
                   result, units, completed, operations, controlVars>>

ShowInstalledCertificateResult == ShowRead("cert", "certFinished")
ShowA3Result == ShowRead("a3", "a3Finished")

-----------------------------------------------------------------------------
(* The worker threads. *)

Goto(t, pc) == worker' = [worker EXCEPT ![t] = pc]
Ends(t, outcome, rows) ==
    /\ result' = [result EXCEPT ![t].outcome = outcome, ![t].rows = rows]
    /\ Goto(t, "publish")
uiVars == <<ui, widgetVars, hasControl, operations>>

\* build_default_search_plan succeeds or throws.
Plan ==
    /\ worker["scan"] = "plan"
    /\ \/ Goto("scan", "next") /\ UNCHANGED result
       \/ Ends("scan", "failed", 0)
    /\ UNCHANGED <<uiVars, queue, units, completed, controlVars>>

\* search_files has no more folder to search.
SearchEnds ==
    /\ worker["scan"] = "next"
    /\ Ends("scan", "completed", result["scan"].rows)
    /\ UNCHANGED <<uiVars, queue, units, completed, controlVars>>

EnterGate ==
    /\ worker["scan"] = "next" /\ units < MaxUnits
    /\ Control!Enter("scan")
    /\ Goto("scan", "gate")
    /\ UNCHANGED <<uiVars, queue, result, units, completed>>

\* Inside wait_if_paused.
InGate ==
    /\ worker["scan"] = "gate"
    /\ \/ Control!Lock("scan") \/ Control!ReadPaused("scan")
       \/ Control!ReadCancelled("scan") \/ Control!Park("scan")
    /\ UNCHANGED <<uiVars, queue, workerVars>>

WakeUp ==
    /\ worker["scan"] = "gate"
    /\ Control!SpuriousWakeup("scan")
    /\ UNCHANGED <<uiVars, queue, workerVars>>

LeaveGate ==
    /\ worker["scan"] = "gate"
    /\ Control!Leave("scan")
    /\ Goto("scan", "check")
    /\ UNCHANGED <<uiVars, queue, result, units, completed>>

\* is_cancelled() after the gate and after a progress callback.
SeeCancelled ==
    /\ worker["scan"] \in {"check", "told"}
    /\ cancelled
    /\ Ends("scan", "cancelled", result["scan"].rows)
    /\ UNCHANGED <<uiVars, queue, units, completed, controlVars>>

\* One folder or entry: a candidate may be found and progress told, or an
\* exception leaves search_files and its result with it.
SearchUnit ==
    /\ worker["scan"] = "check" /\ ~cancelled
    /\ units' = units + 1
    /\ \/ Goto("scan", "next") /\ UNCHANGED <<queue, result>>
       \/ /\ queue' = Posted("progress")
          /\ Goto("scan", "told")
          /\ \E found \in {0, 1} :
                /\ result["scan"].rows + found <= MaxRows
                /\ result' = [result EXCEPT !["scan"].rows = @ + found]
       \/ Ends("scan", "failed", 0) /\ UNCHANGED queue
    /\ UNCHANGED <<uiVars, completed, controlVars>>

GoOn ==
    /\ worker["scan"] = "told" /\ ~cancelled
    /\ Goto("scan", "next")
    /\ UNCHANGED <<uiVars, queue, result, units, completed, controlVars>>

\* The certificate store or the smart card service is read, or that fails (an
\* exception, or a store that does not open).  An empty store lists one row.
Read(t) ==
    /\ t # "scan" /\ worker[t] = "read"
    /\ \E outcome \in {"completed", "failed"} :
          \E rows \in IF outcome = "failed" THEN {0} ELSE 1..MaxRows :
             Ends(t, outcome, rows)
    /\ UNCHANGED <<uiVars, queue, units, completed, controlVars>>

\* The result moves to the variable the UI thread reads, under its mutex.
Publish(t) ==
    /\ worker[t] = "publish"
    /\ completed' = [completed EXCEPT ![t] = result[t]]
    /\ Goto(t, "post")
    /\ UNCHANGED <<uiVars, queue, result, units, controlVars>>

FinishedMessage(t) ==
    [scan |-> "scanFinished", cert |-> "certFinished", a3 |-> "a3Finished"][t]

Post(t) ==
    /\ worker[t] = "post"
    /\ queue' = Posted(FinishedMessage(t))
    /\ Goto(t, "returning")
    /\ UNCHANGED <<uiVars, result, units, completed, controlVars>>

Return(t) ==
    /\ worker[t] = "returning"
    /\ Goto(t, "returned")
    /\ UNCHANGED <<uiVars, queue, result, units, completed, controlVars>>

-----------------------------------------------------------------------------
UserStep ==
    \/ \E button \in StartButtons : ClickStart(button)
    \/ ClickPause \/ ClickResume \/ ClickCancel \/ ClickCopy \/ SelectRow \/ ClickReveal
    \/ Close

\* What the UI thread goes on to do once a handler has begun.
HandlerStep ==
    \/ FinishResume \/ FinishCancel
    \/ StartScan \/ ShowInstalledCertificates \/ ShowA3Local
    \/ FinishDestroyCancel \/ Quit

DispatchStep ==
    \/ ShowProgress \/ ShowCompletedResult
    \/ ShowInstalledCertificateResult \/ ShowA3Result

WorkerStep(t) ==
    \/ t = "scan" /\ (\/ Plan \/ SearchEnds \/ EnterGate \/ InGate \/ LeaveGate
                      \/ SeeCancelled \/ SearchUnit \/ GoOn)
    \/ Read(t) \/ Publish(t) \/ Post(t) \/ Return(t)

Ended == ui = "quit" /\ UNCHANGED vars

Next ==
    \/ UserStep \/ HandlerStep \/ DispatchStep
    \/ \E t \in Threads : WorkerStep(t)
    \/ WakeUp
    \/ Ended

Spec == Init /\ [][Next]_vars

\* The threads keep running, and the loop takes posted messages before input.
\* The user need not do anything.
FairSpec ==
    /\ Spec
    /\ WF_vars(HandlerStep) /\ SF_vars(DispatchStep)
    /\ \A t \in Threads : WF_vars(WorkerStep(t))

-----------------------------------------------------------------------------
(* Properties. *)

UiPcs == StartButtons \cup {"loop", "resume", "cancel", "destroy", "destroyJoin", "quit"}
WorkerPcs == {"none", "plan", "next", "gate", "check", "told", "read",
              "publish", "post", "returning", "returned"}
Results == [op : 0..MaxOperations, rows : 0..MaxRows,
            outcome : {"none", "completed", "cancelled", "failed"}]

\* The globals of src/app/main.cpp:42-70 keep their types.
TypeOK ==
    /\ ui \in UiPcs
    /\ queue \in Seq({"progress"} \cup {FinishedMessage(t) : t \in Threads})
    /\ Len(queue) <= QueueLimit
    /\ enabled \subseteq Buttons
    /\ pauseLabel \in {"Pausar", "Continuar"}
    /\ view \in Threads
    /\ list \in [op : 0..MaxOperations, rows : 0..MaxRows]
    /\ selection \in 0..list.rows
    /\ clipboard \in 0..MaxOperations
    /\ hasControl \in BOOLEAN
    /\ operations \in 0..MaxOperations /\ units \in Nat
    /\ worker \in [Threads -> WorkerPcs]
    /\ result \in [Threads -> Results] /\ completed \in [Threads -> Results]
    /\ Control!TypeOK

\* The UI thread never waits for work: whenever it comes to a join, the thread
\* it joins has already published its result and posted its last message
\* (docs/02_ESCOPO_E_REQUISITOS.md:102: the interface may not block during a search or a
\* device read).  Closing the window is the exception.
JoinsAreShort ==
    \A t \in Threads :
        /\ ui \in StartButtons => worker[t] \in {"none", "returning", "returned"}
        /\ ui # "quit" /\ queue # <<>> /\ Head(queue) = FinishedMessage(t)
              => worker[t] \in {"returning", "returned"}

\* One operation at a time, up to the moment its result is shown: the buttons
\* that start one are enabled only when no thread works and no message is due.
OneOperation ==
    /\ \A t, u \in Threads : Working(t) /\ Working(u) => t = u
    /\ enabled \cap StartButtons # {} /\ ui = "loop"
          => queue = <<>> /\ \A t \in Threads : ~Working(t)

\* What the copy button would copy is the result that the list shows, whichever
\* thread published last (docs/19_RESUMO_SANITIZADO_DA_BUSCA.md:17).
CopyMatchesList ==
    "copy" \in enabled /\ ui = "loop" =>
        completed[view].op = list.op /\ completed[view].rows = list.rows

\* While a search can be paused its button says what a click would do.
PauseLabelTruthful ==
    "pause" \in enabled /\ ui = "loop" => (pauseLabel = "Continuar" <=> paused)

\* The file the reveal button opens belongs to the list the user selected from.
RevealsShownCandidate ==
    "reveal" \in enabled /\ ui = "loop" =>
        /\ view = "scan" /\ completed["scan"].op = list.op
        /\ selection \in 1..completed["scan"].rows

\* The queue takes the message that ends an operation.  PostMessageW is called
\* once and its answer is not looked at: what is lost stays lost.
FinishFits == \A t \in Threads : worker[t] = "post" => Len(queue) < QueueLimit

\* An operation that is never paused ends, and its result is shown, unless the
\* message that ends it is lost (src/app/main.cpp:163): nothing else can leave
\* the window without its buttons.
OperationsEnd ==
    [](~paused /\ FinishFits) =>
        ("start" \notin enabled ~> ("start" \in enabled \/ ui = "quit"))

\* The window closes unless the search is caught between its look at the flags
\* and its blocking in wait_if_paused, or blocked already.
ClosesUnlessParked ==
    (ui = "destroyJoin" /\ waiterPc["scan"] \notin {"parking", "parked"}) ~> (ui = "quit")

-----------------------------------------------------------------------------
(* What the repository says of the window and the code does not do. *)

\* Closing the window ends the program (docs/05_ESTRATEGIA_DE_TESTES.md:79).
CloseEnds == (ui = "destroyJoin") ~> (ui = "quit")

\* The selected candidate of a finished search can be shown in its folder
\* (docs/20_LOCALIZACAO_SEGURA_DO_ARQUIVO.md:5).
SelectionEnablesReveal ==
    view = "scan" /\ selection # 0 => "reveal" \in enabled

=============================================================================

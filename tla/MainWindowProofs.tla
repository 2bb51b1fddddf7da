-------------------------- MODULE MainWindowProofs --------------------------
(* Proofs about MainWindow, for any number of operations, folders and rows, *)
(* any limit of the message queue (a lost message included) and a list box  *)
(* that notifies or not.                                                    *)
EXTENDS MainWindow, TLAPS

-----------------------------------------------------------------------------
(* The invariant. *)

\* An operation can be started.
Free == StartButtons \cap enabled # {}

\* The list shows the result that the view names.
Matches == completed[view].op = list.op /\ completed[view].rows = list.rows

\* The buttons that start are enabled together, and then nothing is going on.
Idle ==
    Free => /\ StartButtons \subseteq enabled /\ "pause" \notin enabled
            /\ queue = <<>> /\ \A t \in Threads : ~Working(t)
            /\ list = EmptyList \/ Matches

\* From the start of an operation until its result is shown the list is empty
\* and nothing can be copied or revealed.
Busy ==
    ~Free => /\ "copy" \notin enabled /\ "reveal" \notin enabled
             /\ list = EmptyList /\ selection = 0

\* A handler that starts an operation runs because its button was enabled.
Asked == ui \in StartButtons => Free /\ operations < MaxOperations

\* The one thread there is works for the result the view names.
Viewed == \A t \in Threads : worker[t] # "none" => view = t

\* The message that ends an operation is the last one of the queue, and its
\* thread has nothing left to do.
Due ==
    ui # "quit" =>
        \A t \in Threads : \A i \in 1..Len(queue) :
            queue[i] = FinishedMessage(t) =>
                i = Len(queue) /\ worker[t] \in {"returning", "returned"}

Labels ==
    /\ "pause" \in enabled /\ ui \in {"loop", "cancel"} =>
          (pauseLabel = "Continuar" <=> paused)
    /\ ui = "resume" => ~paused

Copies == "copy" \in enabled => Matches

Reveals == "reveal" \in enabled => view = "scan" /\ Matches /\ selection # 0

WindowInv == Idle /\ Busy /\ Asked /\ Viewed /\ Due /\ Labels /\ Copies /\ Reveals

IInv == TypeOK /\ WindowInv

-----------------------------------------------------------------------------
(* The buttons and the messages. *)

LEMMA Messages ==
    /\ FinishedMessage("scan") = "scanFinished"
    /\ FinishedMessage("cert") = "certFinished"
    /\ FinishedMessage("a3") = "a3Finished"
  BY DEF FinishedMessage

\* set_scan_controls(false) frees the window, whatever was enabled.
LEMMA ControlsFree ==
    ASSUME NEW buttons \in SUBSET Buttons
    PROVE  /\ ScanControls(buttons, FALSE) \subseteq Buttons
           /\ StartButtons \subseteq ScanControls(buttons, FALSE)
           /\ "pause" \notin ScanControls(buttons, FALSE)
           /\ \A b \in {"copy", "reveal"} : b \in ScanControls(buttons, FALSE) <=> b \in buttons
  BY DEF ScanControls, Buttons, StartButtons

LEMMA ControlsBusy ==
    ASSUME NEW buttons \in SUBSET Buttons
    PROVE  /\ ScanControls(buttons, TRUE) \subseteq Buttons
           /\ StartButtons \cap ScanControls(buttons, TRUE) = {}
  BY DEF ScanControls, Buttons, StartButtons

\* A message in the queue means that an operation is going on, with an empty list.
LEMMA QueueBusy ==
    ASSUME IInv, queue # <<>>
    PROVE  ~Free /\ list = EmptyList /\ selection = 0
  BY DEF IInv, WindowInv, Idle, Busy

\* So does a thread that works.
LEMMA WorkBusy ==
    ASSUME IInv, NEW t \in Threads, Working(t)
    PROVE  ~Free /\ view = t /\ \A u \in Threads : u # t => worker[u] = "none"
  BY DEF IInv, WindowInv, Idle, Viewed, Working, TypeOK, WorkerPcs

\* A message posted while its thread still had work to do keeps the order.
LEMMA PostedTyped ==
    ASSUME IInv, NEW m \in {"progress"} \cup {FinishedMessage(t) : t \in Threads}
    PROVE  /\ Posted(m) \in Seq({"progress"} \cup {FinishedMessage(t) : t \in Threads})
           /\ Len(Posted(m)) <= QueueLimit
           /\ \A i \in 1..Len(Posted(m)) :
                 \/ i \in 1..Len(queue) /\ Posted(m)[i] = queue[i]
                 \/ i = Len(Posted(m)) /\ Posted(m)[i] = m
  <1> DEFINE M == {"progress"} \cup {FinishedMessage(t) : t \in Threads}
  <1> HIDE DEF M
  <1>1. queue \in Seq(M) /\ Len(queue) <= QueueLimit /\ m \in M
    BY DEF M, IInv, TypeOK
  <1>2. /\ Posted(m) \in Seq(M) /\ Len(Posted(m)) <= QueueLimit
        /\ \A i \in 1..Len(Posted(m)) :
              \/ i \in 1..Len(queue) /\ Posted(m)[i] = queue[i]
              \/ i = Len(Posted(m)) /\ Posted(m)[i] = m
    BY <1>1, BoundsAssumption DEF Posted
  <1> QED
    BY <1>2 DEF M

-----------------------------------------------------------------------------
(* The user and the handlers that start nothing. *)

SmallStep ==
    \/ ClickPause \/ ClickResume \/ FinishResume \/ ClickCancel \/ FinishCancel
    \/ ClickCopy \/ ClickReveal \/ Close \/ FinishDestroyCancel

\* They touch neither the buttons nor the results.
LEMMA SmallSteps == IInv /\ SmallStep => IInv'
<1> SUFFICES ASSUME IInv, SmallStep PROVE IInv'
  OBVIOUS
<1> USE DEF IInv, WindowInv
<1>1. /\ UNCHANGED <<queue, enabled, view, list, selection, hasControl, workerVars, operations>>
      /\ ui # "quit" /\ ui' \notin StartButtons
  BY DEF SmallStep, ClickPause, ClickResume, FinishResume, ClickCancel, FinishCancel,
         ClickCopy, ClickReveal, Close, FinishDestroyCancel, StartButtons, widgetVars
<1>2. TypeOK'
  <2>1. ui' \in UiPcs /\ pauseLabel' \in {"Pausar", "Continuar"} /\ clipboard' \in 0..MaxOperations
    BY DEF SmallStep, ClickPause, ClickResume, FinishResume, ClickCancel, FinishCancel,
           ClickCopy, ClickReveal, Close, FinishDestroyCancel, TypeOK, UiPcs, widgetVars, Results
  <2>2. Control!TypeOK'
    BY DEF SmallStep, ClickPause, ClickResume, FinishResume, ClickCancel, FinishCancel,
           ClickCopy, ClickReveal, Close, FinishDestroyCancel, TypeOK, controlVars,
           Control!TypeOK, Control!RequestPause, Control!ResumeStore, Control!CancelStore,
           Control!NotifyAll, Control!CallerPcs, Control!WaiterPcs
  <2> QED
    BY <1>1, <2>1, <2>2 DEF TypeOK, workerVars
<1>3. Idle' /\ Busy' /\ Asked' /\ Viewed' /\ Due' /\ Copies' /\ Reveals'
  BY <1>1 DEF Idle, Busy, Asked, Viewed, Due, Copies, Reveals, Free, Matches, Working, workerVars
<1>4. Labels'
  BY <1>1 DEF Labels, SmallStep, ClickPause, ClickResume, FinishResume, ClickCancel, FinishCancel,
         ClickCopy, ClickReveal, Close, FinishDestroyCancel, widgetVars, controlVars,
         Control!RequestPause, Control!ResumeStore, Control!CancelStore, Control!NotifyAll,
         TypeOK, Control!TypeOK
<1> QED
  BY <1>2, <1>3, <1>4

LEMMA ClickStartStep == IInv /\ (\E button \in StartButtons : ClickStart(button)) => IInv'
<1> SUFFICES ASSUME IInv, NEW button \in StartButtons, ClickStart(button) PROVE IInv'
  OBVIOUS
<1> USE DEF IInv, WindowInv
<1>1. TypeOK'
  BY DEF TypeOK, ClickStart, UiPcs, StartButtons, widgetVars, workerVars, controlVars, Control!TypeOK
<1>2. Idle' /\ Busy' /\ Asked' /\ Viewed' /\ Due' /\ Copies' /\ Reveals' /\ Labels'
  BY DEF Idle, Busy, Asked, Viewed, Due, Copies, Reveals, Labels, Free, Matches, Working,
         ClickStart, widgetVars, workerVars, controlVars, StartButtons
<1> QED
  BY <1>1, <1>2

\* A row of a list that is shown: its result is the one the view names.
LEMMA SelectRowStep == IInv /\ SelectRow => IInv'
<1> SUFFICES ASSUME IInv, SelectRow PROVE IInv'
  OBVIOUS
<1> USE DEF IInv, WindowInv
<1>1. list # EmptyList /\ selection' \in 1..list.rows /\ list.rows \in Nat
  BY BoundsAssumption DEF SelectRow, TypeOK, EmptyList
<1>2. Free /\ Matches
  BY <1>1 DEF Idle, Busy
<1>3. /\ \/ enabled' = enabled
         \/ enabled' = enabled \cup {"reveal"}
         \/ enabled' = enabled \ {"reveal"}
      /\ "reveal" \in enabled' => view = "scan"
  BY DEF SelectRow, Reveals
<1>4. TypeOK'
  BY <1>1, <1>3 DEF TypeOK, SelectRow, Buttons, workerVars, controlVars, Control!TypeOK
<1>5. Free' /\ Idle' /\ Busy'
  BY <1>2, <1>3 DEF Idle, Busy, Free, Matches, Working, SelectRow, StartButtons, workerVars
<1>6. Asked' /\ Viewed' /\ Due' /\ Labels'
  BY <1>3, <1>5 DEF SelectRow, Asked, Viewed, Due, Labels, StartButtons, workerVars, controlVars
<1>7. Copies' /\ Reveals'
  BY <1>1, <1>2, <1>3 DEF Copies, Reveals, Matches, SelectRow, workerVars
<1> QED
  BY <1>4, <1>5, <1>6, <1>7

LEMMA QuitStep == IInv /\ Quit => IInv'
<1> SUFFICES ASSUME IInv, Quit PROVE IInv'
  OBVIOUS
<1> USE DEF IInv, WindowInv
<1>1. TypeOK'
  BY DEF TypeOK, Quit, Joined, UiPcs, WorkerPcs, widgetVars, controlVars, Control!TypeOK
<1>2. \A t \in Threads : worker'[t] = "none"
  BY DEF Quit, Joined
<1>3. Idle' /\ Busy' /\ Asked' /\ Viewed' /\ Due' /\ Copies' /\ Reveals' /\ Labels'
  BY <1>2 DEF Idle, Busy, Asked, Viewed, Due, Copies, Reveals, Labels, Free, Matches, Working,
         Quit, widgetVars, controlVars, StartButtons
<1> QED
  BY <1>1, <1>3

-----------------------------------------------------------------------------
(* The handlers that start an operation. *)

\* What the three have in common: the window is free, and is not any more.
LEMMA LaunchStep ==
    ASSUME IInv, NEW t \in Threads, NEW pc \in {"plan", "read"}, Launch(t, pc),
           ui \in StartButtons, ui' = "loop",
           enabled' \subseteq Buttons \ (StartButtons \cup {"copy", "reveal"}),
           "pause" \in enabled' => pauseLabel' = "Pausar" /\ paused' = FALSE,
           pauseLabel' \in {"Pausar", "Continuar"}, units' \in Nat, hasControl' \in BOOLEAN,
           Control!TypeOK', UNCHANGED <<queue, clipboard>>
    PROVE  IInv'
<1> USE DEF IInv, WindowInv
<1>1. operations < MaxOperations /\ queue = <<>> /\ ~Free'
  BY DEF Asked, Idle, Free
<1>2. operations' \in 0..MaxOperations /\ result' \in [Threads -> Results]
  BY <1>1, BoundsAssumption DEF Launch, TypeOK, Results, NoResult
<1>3. TypeOK'
  BY <1>1, <1>2, BoundsAssumption DEF TypeOK, Launch, UiPcs, EmptyList, WorkerPcs
<1>4. Idle' /\ Busy' /\ Asked' /\ Labels' /\ Copies' /\ Reveals'
  BY <1>1 DEF Idle, Busy, Asked, Labels, Copies, Reveals, Launch, StartButtons
<1>5. Viewed' /\ Due'
  BY <1>1 DEF Viewed, Due, Launch
<1> QED
  BY <1>3, <1>4, <1>5

LEMMA LaunchSteps ==
    IInv /\ (StartScan \/ ShowInstalledCertificates \/ ShowA3Local) => IInv'
<1> USE DEF IInv, WindowInv
<1>1. ASSUME IInv, StartScan PROVE IInv'
  <2>1. enabled' \subseteq Buttons \ (StartButtons \cup {"copy", "reveal"})
    BY <1>1, ControlsBusy DEF StartScan, TypeOK
  <2>2. Control!TypeOK'
    BY <1>1 DEF StartScan, TypeOK, Control!TypeOK
  <2> HIDE DEF IInv
  <2> QED
    BY <1>1, <2>1, <2>2, LaunchStep DEF StartScan, Threads, StartButtons
<1>2. ASSUME IInv, ShowInstalledCertificates PROVE IInv'
  <2>1. enabled' \subseteq Buttons \ (StartButtons \cup {"copy", "reveal"})
    BY <1>2 DEF ShowInstalledCertificates, TypeOK
  <2>2. "pause" \notin enabled'
    BY <1>2 DEF ShowInstalledCertificates, Asked, Idle, StartButtons
  <2>3. Control!TypeOK' /\ pauseLabel' \in {"Pausar", "Continuar"} /\ units' \in Nat /\ hasControl' \in BOOLEAN
    BY <1>2 DEF ShowInstalledCertificates, TypeOK, Control!TypeOK, controlVars
  <2> HIDE DEF IInv
  <2> QED
    BY <1>2, <2>1, <2>2, <2>3, LaunchStep DEF ShowInstalledCertificates, Threads, StartButtons
<1>3. ASSUME IInv, ShowA3Local PROVE IInv'
  <2>1. Control!TypeOK' /\ pauseLabel' \in {"Pausar", "Continuar"} /\ units' \in Nat /\ hasControl' \in BOOLEAN
    BY <1>3 DEF ShowA3Local, TypeOK, Control!TypeOK, controlVars
  <2> HIDE DEF IInv
  <2> QED
    BY <1>3, <2>1, LaunchStep DEF ShowA3Local, Threads, StartButtons
<1> QED
  BY <1>1, <1>2, <1>3

-----------------------------------------------------------------------------
(* The messages. *)

LEMMA ProgressStep == IInv /\ ShowProgress => IInv'
<1> SUFFICES ASSUME IInv, ShowProgress PROVE IInv'
  OBVIOUS
<1> USE DEF IInv, WindowInv
<1>1. queue # <<>> /\ queue' = Tail(queue) /\ ui = "loop"
  BY DEF ShowProgress, Dispatches
<1>2. ~Free
  BY <1>1, QueueBusy
<1>3. TypeOK'
  <2> DEFINE M == {"progress"} \cup {FinishedMessage(t) : t \in Threads}
  <2> HIDE DEF M
  <2>1. queue \in Seq(M) /\ Len(queue) <= QueueLimit
    BY DEF TypeOK, M
  <2>2. queue' \in Seq(M) /\ Len(queue') <= QueueLimit
    BY <1>1, <2>1, BoundsAssumption
  <2> QED
    BY <2>2 DEF TypeOK, ShowProgress, M, workerVars, controlVars, Control!TypeOK
<1>4. Due'
  <2>1. queue \in Seq({"progress"} \cup {FinishedMessage(t) : t \in Threads})
    BY DEF TypeOK
  <2>2. Len(queue') = Len(queue) - 1 /\ \A i \in 1..Len(queue') : i + 1 \in 1..Len(queue) /\ queue'[i] = queue[i + 1]
    BY <1>1, <2>1
  <2> SUFFICES ASSUME NEW t \in Threads, NEW i \in 1..Len(queue'), queue'[i] = FinishedMessage(t)
               PROVE  i = Len(queue') /\ worker'[t] \in {"returning", "returned"}
    BY DEF Due
  <2>3. i + 1 = Len(queue) /\ worker[t] \in {"returning", "returned"}
    BY <1>1, <2>2 DEF Due
  <2>4. worker' = worker
    BY DEF ShowProgress, workerVars
  <2> QED
    BY <2>1, <2>2, <2>3, <2>4
<1>5. Idle' /\ Busy' /\ Asked' /\ Viewed' /\ Labels' /\ Copies' /\ Reveals'
  BY <1>1, <1>2 DEF Idle, Busy, Asked, Viewed, Labels, Copies, Reveals, Free, Matches, Working,
         ShowProgress, StartButtons, workerVars, controlVars
<1> QED
  BY <1>3, <1>4, <1>5

\* The message that ends an operation empties the queue, and no thread is left.
LEMMA Finished ==
    ASSUME IInv, NEW t \in Threads, Dispatches(FinishedMessage(t)), Joined({t})
    PROVE  /\ ui = "loop" /\ queue' = <<>> /\ ~Free /\ view = t
           /\ list = EmptyList /\ selection = 0
           /\ worker' \in [Threads -> WorkerPcs]
           /\ \A u \in Threads : worker'[u] = "none"
<1> USE DEF IInv, WindowInv
<1>1. ui = "loop" /\ queue # <<>> /\ queue[1] = FinishedMessage(t) /\ queue' = Tail(queue)
  BY DEF Dispatches
<1>2. queue \in Seq({"progress"} \cup {FinishedMessage(u) : u \in Threads})
  BY DEF TypeOK
<1>3. 1 \in 1..Len(queue)
  BY <1>1, <1>2
<1>4. Len(queue) = 1 /\ worker[t] \in {"returning", "returned"}
  BY <1>1, <1>3 DEF Due
<1>5. queue' = <<>>
  BY <1>1, <1>2, <1>4
<1>6. view = t /\ \A u \in Threads : u # t => worker[u] = "none"
  BY <1>4 DEF Viewed
<1>7. worker' \in [Threads -> WorkerPcs] /\ \A u \in Threads : worker'[u] = "none"
  BY <1>6 DEF Joined, TypeOK, WorkerPcs
<1>8. ~Free /\ list = EmptyList /\ selection = 0
  BY <1>1, QueueBusy
<1> QED
  BY <1>1, <1>5, <1>6, <1>7, <1>8

\* What is listed is the result of the view, or nothing is.
LEMMA ShownStep ==
    ASSUME IInv, NEW t \in Threads, Dispatches(FinishedMessage(t)), Joined({t}),
           \/ list' = Listed(t) /\ enabled' = ScanControls(enabled, FALSE) \cup {"copy"}
           \/ list' = list /\ enabled' = ScanControls(enabled, FALSE),
           view' = t,
           UNCHANGED <<ui, pauseLabel, selection, clipboard, hasControl,
                       result, units, completed, operations, controlVars>>
    PROVE  IInv'
<1> USE DEF IInv, WindowInv
<1>1. /\ ui = "loop" /\ queue' = <<>> /\ ~Free /\ view = t
      /\ list = EmptyList /\ selection = 0
      /\ worker' \in [Threads -> WorkerPcs]
      /\ \A u \in Threads : worker'[u] = "none"
  BY Finished
<1>2. completed[t] \in Results
  BY DEF TypeOK
<1>3. /\ Listed(t) = [op |-> completed[t].op, rows |-> completed[t].rows]
      /\ Listed(t) \in [op : 0..MaxOperations, rows : 0..MaxRows]
  <2>1. completed[t].rows \in 0..MaxRows /\ completed[t].op \in 0..MaxOperations /\ list.rows = 0
    BY <1>1, <1>2 DEF Results, EmptyList
  <2>2. list.rows + completed[t].rows = completed[t].rows
    BY <2>1, BoundsAssumption
  <2> QED
    BY <2>1, <2>2 DEF Listed
<1>4. /\ list' \in [op : 0..MaxOperations, rows : 0..MaxRows]
      /\ "copy" \in enabled' => Matches'
      /\ list' = EmptyList \/ Matches'
  <2>1. "copy" \notin enabled
    BY <1>1 DEF Busy
  <2>2. "copy" \in enabled' => list' = Listed(t)
    BY <2>1, ControlsFree DEF TypeOK
  <2>3. list' = Listed(t) => Matches'
    BY <1>3 DEF Matches
  <2>4. EmptyList \in [op : 0..MaxOperations, rows : 0..MaxRows]
    BY BoundsAssumption DEF EmptyList
  <2> QED
    BY <1>1, <1>3, <2>2, <2>3, <2>4
<1>5. /\ enabled' \subseteq Buttons /\ StartButtons \subseteq enabled'
      /\ "pause" \notin enabled' /\ "reveal" \notin enabled'
  BY <1>1, ControlsFree DEF TypeOK, Busy, Buttons
<1>6. TypeOK'
  BY <1>1, <1>4, <1>5, BoundsAssumption DEF TypeOK, controlVars, Control!TypeOK
<1>7. Free'
  BY <1>5 DEF Free, StartButtons
<1>8. Idle' /\ Busy' /\ Asked' /\ Viewed' /\ Due' /\ Labels' /\ Copies' /\ Reveals'
  BY <1>1, <1>4, <1>5, <1>7 DEF Idle, Busy, Asked, Viewed, Due, Labels, Copies, Reveals, Working, StartButtons
<1> QED
  BY <1>6, <1>8

LEMMA ShowSteps ==
    IInv /\ (ShowCompletedResult \/ ShowInstalledCertificateResult \/ ShowA3Result) => IInv'
<1>1. ASSUME IInv, ShowCompletedResult PROVE IInv'
  BY <1>1, ShownStep, Messages DEF ShowCompletedResult, Threads
<1>2. ASSUME IInv, NEW t \in Threads, ShowRead(t, FinishedMessage(t)) PROVE IInv'
  <2>1. view = t
    BY <1>2, Finished DEF ShowRead
  <2> QED
    BY <1>2, <2>1, ShownStep DEF ShowRead
<1> QED
  BY <1>1, <1>2, Messages DEF ShowInstalledCertificateResult, ShowA3Result, Threads

-----------------------------------------------------------------------------
(* The threads. *)

\* A step of the one thread that works.
LEMMA ThreadStep ==
    ASSUME IInv, NEW t \in Threads, Working(t), UNCHANGED uiVars,
           NEW pc \in WorkerPcs \ {"none"}, worker' = [worker EXCEPT ![t] = pc],
           result' \in [Threads -> Results], completed' \in [Threads -> Results],
           units' \in Nat, Control!TypeOK', paused' = paused,
           \/ queue' = queue /\ (worker[t] \in {"returning", "returned"} => pc \in {"returning", "returned"})
           \/ queue' = Posted("progress") /\ worker[t] \notin {"returning", "returned"}
           \/ queue' = Posted(FinishedMessage(t)) /\ worker[t] = "post" /\ pc = "returning"
    PROVE  IInv'
<1> USE DEF IInv, WindowInv
<1>1. ~Free /\ view = t /\ \A u \in Threads : u # t => worker[u] = "none"
  BY WorkBusy
<1>2. /\ worker' \in [Threads -> WorkerPcs] /\ worker'[t] = pc
      /\ \A u \in Threads : u # t => worker'[u] = "none"
  BY <1>1 DEF TypeOK
<1>3. /\ queue' \in Seq({"progress"} \cup {FinishedMessage(u) : u \in Threads})
      /\ Len(queue') <= QueueLimit
  BY PostedTyped DEF TypeOK
<1>4. TypeOK'
  BY <1>2, <1>3 DEF TypeOK, uiVars, widgetVars
<1>5. Due'
  <2> SUFFICES ASSUME ui # "quit", NEW u \in Threads, NEW i \in 1..Len(queue'),
                      queue'[i] = FinishedMessage(u)
               PROVE  i = Len(queue') /\ worker'[u] \in {"returning", "returned"}
    BY DEF Due, uiVars
  <2>0. worker[t] \notin {"returning", "returned"} =>
           \A j \in 1..Len(queue) : queue[j] # FinishedMessage(u)
    BY <1>1 DEF Due
  <2>1. CASE queue' = queue
    BY <1>1, <1>2, <2>1 DEF Due, TypeOK
  <2>2. CASE queue' = Posted("progress") /\ worker[t] \notin {"returning", "returned"}
    BY <2>0, <2>2, PostedTyped, Messages DEF Threads
  <2>3. CASE queue' = Posted(FinishedMessage(t)) /\ worker[t] = "post" /\ pc = "returning"
    <3>1. i = Len(queue') /\ FinishedMessage(u) = FinishedMessage(t)
      BY <2>0, <2>3, PostedTyped
    <3>2. u = t
      BY <3>1, Messages DEF Threads
    <3> QED
      BY <1>2, <2>3, <3>1, <3>2
  <2> QED
    BY <2>1, <2>2, <2>3
<1>6. Idle' /\ Busy' /\ Asked' /\ Viewed' /\ Labels' /\ Copies' /\ Reveals'
  BY <1>1, <1>2 DEF Idle, Busy, Asked, Viewed, Labels, Copies, Reveals, Free, Matches, Working,
         uiVars, widgetVars
<1> QED
  BY <1>4, <1>5, <1>6

\* The steps of the SearchControl keep the types of its variables.
LEMMA GateTyped ==
    ASSUME Control!TypeOK,
           \/ Control!Enter("scan") \/ Control!WaiterStep("scan")
           \/ Control!SpuriousWakeup("scan")
    PROVE  Control!TypeOK' /\ paused' = paused
  BY DEF Control!TypeOK, Control!Enter, Control!WaiterStep, Control!Lock, Control!ReadPaused,
         Control!ReadCancelled, Control!Park, Control!Leave, Control!SpuriousWakeup,
         Control!Goto, Control!WaiterPcs

\* What a thread ends with is a result.
LEMMA EndsTyped ==
    ASSUME TypeOK, NEW t \in Threads, NEW outcome \in {"completed", "cancelled", "failed"},
           NEW rows \in 0..MaxRows, Ends(t, outcome, rows)
    PROVE  result' \in [Threads -> Results] /\ worker' = [worker EXCEPT ![t] = "publish"]
<1>1. result[t] \in Results /\ result \in [Threads -> Results]
  BY DEF TypeOK
<1>2. [[result[t] EXCEPT !.outcome = outcome] EXCEPT !.rows = rows] \in Results
  BY <1>1 DEF Results
<1>3. \A u \in Threads : result'[u] \in Results
  BY <1>1 DEF Ends, Results
<1> QED
  BY <1>1, <1>3 DEF Ends, Goto

LEMMA ScanSteps ==
    IInv /\ (Plan \/ SearchEnds \/ EnterGate \/ InGate \/ LeaveGate
             \/ SeeCancelled \/ SearchUnit \/ GoOn \/ WakeUp) => IInv'
<1> SUFFICES ASSUME IInv,
                    Plan \/ SearchEnds \/ EnterGate \/ InGate \/ LeaveGate
                    \/ SeeCancelled \/ SearchUnit \/ GoOn \/ WakeUp
             PROVE  IInv'
  OBVIOUS
<1>1. TypeOK /\ "scan" \in Threads /\ result["scan"] \in Results /\ result["scan"].rows \in 0..MaxRows
  BY DEF IInv, TypeOK, Threads, Results
<1>2. Working("scan") /\ worker["scan"] \notin {"returning", "returned"}
  BY DEF Working, Plan, SearchEnds, EnterGate, InGate, LeaveGate, SeeCancelled, SearchUnit, GoOn, WakeUp
<1>3. UNCHANGED uiVars /\ units' \in Nat /\ completed' \in [Threads -> Results]
  BY <1>1 DEF TypeOK, Plan, SearchEnds, EnterGate, InGate, LeaveGate, SeeCancelled, SearchUnit,
              GoOn, WakeUp, workerVars
<1>4. Control!TypeOK' /\ paused' = paused
  BY <1>1, GateTyped DEF TypeOK, Plan, SearchEnds, EnterGate, InGate, LeaveGate, SeeCancelled,
              SearchUnit, GoOn, WakeUp, Control!WaiterStep, Control!TypeOK, controlVars
<1>5. \E pc \in WorkerPcs \ {"none"} : worker' = [worker EXCEPT !["scan"] = pc]
  BY <1>1, <1>2 DEF TypeOK, Plan, SearchEnds, EnterGate, InGate, LeaveGate, SeeCancelled, SearchUnit,
              GoOn, WakeUp, Ends, Goto, workerVars, WorkerPcs, Working
<1>6. result' \in [Threads -> Results]
  <2>1. CASE Plan
    BY <1>1, <2>1, EndsTyped, BoundsAssumption DEF Plan, TypeOK
  <2>2. CASE SearchEnds \/ SeeCancelled
    BY <1>1, <2>2, EndsTyped DEF SearchEnds, SeeCancelled
  <2>3. CASE SearchUnit
    <3>1. CASE Ends("scan", "failed", 0)
      BY <1>1, <3>1, EndsTyped, BoundsAssumption
    <3>2. CASE UNCHANGED result
      BY <1>1, <3>2 DEF TypeOK
    <3>3. CASE \E found \in {0, 1} :
                  /\ result["scan"].rows + found <= MaxRows
                  /\ result' = [result EXCEPT !["scan"].rows = @ + found]
      <4>1. PICK found \in {0, 1} :
                  /\ result["scan"].rows + found <= MaxRows
                  /\ result' = [result EXCEPT !["scan"].rows = @ + found]
        BY <3>3
      <4>2. result["scan"].rows + found \in 0..MaxRows
        BY <1>1, <4>1, BoundsAssumption
      <4>3. [result["scan"] EXCEPT !.rows = result["scan"].rows + found] \in Results
        BY <1>1, <4>2 DEF Results
      <4>4. result' = [result EXCEPT !["scan"] = [result["scan"] EXCEPT !.rows = result["scan"].rows + found]]
        BY <4>1
      <4> QED
        BY <1>1, <4>3, <4>4 DEF TypeOK
    <3> QED
      BY <2>3, <3>1, <3>2, <3>3 DEF SearchUnit
  <2>4. CASE EnterGate \/ InGate \/ LeaveGate \/ GoOn \/ WakeUp
    BY <1>1, <2>4 DEF TypeOK, EnterGate, InGate, LeaveGate, GoOn, WakeUp, workerVars
  <2> QED
    BY <2>1, <2>2, <2>3, <2>4
<1>7. queue' = queue \/ queue' = Posted("progress")
  BY DEF Plan, SearchEnds, EnterGate, InGate, LeaveGate, SeeCancelled, SearchUnit, GoOn, WakeUp
<1> QED
  BY <1>1, <1>2, <1>3, <1>4, <1>5, <1>6, <1>7, ThreadStep

LEMMA EndSteps ==
    ASSUME IInv, NEW t \in Threads, Read(t) \/ Publish(t) \/ Post(t) \/ Return(t)
    PROVE  IInv'
<1>1. TypeOK /\ result[t] \in Results
  BY DEF IInv, TypeOK
<1>2. Working(t) /\ UNCHANGED uiVars /\ units' \in Nat /\ paused' = paused /\ Control!TypeOK'
  BY <1>1 DEF Working, TypeOK, Read, Publish, Post, Return, controlVars, Control!TypeOK
<1>3. CASE Read(t)
  <2>1. worker[t] = "read" /\ queue' = queue /\ completed' = completed
    BY <1>3 DEF Read
  <2>2. PICK outcome \in {"completed", "failed"} :
           \E rows \in IF outcome = "failed" THEN {0} ELSE 1..MaxRows : Ends(t, outcome, rows)
    BY <1>3 DEF Read
  <2>3. PICK rows \in 0..MaxRows : Ends(t, outcome, rows)
    BY <2>2, BoundsAssumption
  <2>4. result' \in [Threads -> Results] /\ worker' = [worker EXCEPT ![t] = "publish"]
    BY <1>1, <2>3, EndsTyped
  <2>5. completed' \in [Threads -> Results] /\ "publish" \in WorkerPcs \ {"none"}
    BY <1>1, <2>1 DEF TypeOK, WorkerPcs
  <2> QED
    BY <1>2, <2>1, <2>4, <2>5, ThreadStep
<1>4. CASE Publish(t)
  <2>1. /\ worker[t] = "publish" /\ queue' = queue /\ result' = result
        /\ worker' = [worker EXCEPT ![t] = "post"] /\ "post" \in WorkerPcs \ {"none"}
        /\ result' \in [Threads -> Results] /\ completed' \in [Threads -> Results]
    BY <1>1, <1>4 DEF Publish, Goto, TypeOK, WorkerPcs
  <2> QED
    BY <1>2, <2>1, ThreadStep
<1>5. CASE Post(t)
  <2>1. /\ worker[t] = "post" /\ queue' = Posted(FinishedMessage(t))
        /\ worker' = [worker EXCEPT ![t] = "returning"] /\ "returning" \in WorkerPcs \ {"none"}
        /\ result' \in [Threads -> Results] /\ completed' \in [Threads -> Results]
    BY <1>1, <1>5 DEF Post, Goto, TypeOK, WorkerPcs
  <2> QED
    BY <1>2, <2>1, ThreadStep
<1>6. CASE Return(t)
  <2>1. /\ worker[t] = "returning" /\ queue' = queue
        /\ worker' = [worker EXCEPT ![t] = "returned"] /\ "returned" \in WorkerPcs \ {"none"}
        /\ result' \in [Threads -> Results] /\ completed' \in [Threads -> Results]
    BY <1>1, <1>6 DEF Return, Goto, TypeOK, WorkerPcs
  <2> QED
    BY <1>2, <2>1, ThreadStep
<1> QED
  BY <1>3, <1>4, <1>5, <1>6

-----------------------------------------------------------------------------
(* The theorems. *)

LEMMA StutterStep == IInv /\ UNCHANGED vars => IInv'
  BY DEF IInv, WindowInv, TypeOK, Control!TypeOK, Idle, Busy, Asked, Viewed, Due, Labels, Copies, Reveals,
         Free, Matches, Working, vars, widgetVars, workerVars, controlVars

LEMMA WindowInvariant == Spec => []IInv
<1>1. Init => IInv
  <2> SUFFICES ASSUME Init PROVE IInv
    OBVIOUS
  <2>1. TypeOK
    <3>1. Control!TypeOK
      BY DEF Init, Control!Init, Control!TypeOK, Control!WaiterPcs, Control!CallerPcs
    <3>2. NoResult \in Results /\ EmptyList \in [op : 0..MaxOperations, rows : 0..MaxRows]
      BY BoundsAssumption DEF NoResult, EmptyList, Results
    <3>3. /\ ui \in UiPcs /\ enabled \subseteq Buttons /\ view \in Threads
          /\ pauseLabel \in {"Pausar", "Continuar"} /\ hasControl \in BOOLEAN
          /\ worker \in [Threads -> WorkerPcs]
          /\ result \in [Threads -> Results] /\ completed \in [Threads -> Results]
      BY <3>2 DEF Init, UiPcs, StartButtons, Buttons, Threads, WorkerPcs
    <3>4. /\ queue \in Seq({"progress"} \cup {FinishedMessage(t) : t \in Threads})
          /\ Len(queue) <= QueueLimit
      BY BoundsAssumption DEF Init
    <3>5. /\ list \in [op : 0..MaxOperations, rows : 0..MaxRows] /\ selection \in 0..list.rows
          /\ clipboard \in 0..MaxOperations /\ operations \in 0..MaxOperations /\ units \in Nat
      BY <3>2, BoundsAssumption DEF Init, EmptyList
    <3> QED
      BY <3>1, <3>3, <3>4, <3>5 DEF TypeOK
  <2>2. WindowInv
    BY DEF Init, WindowInv, Idle, Busy, Asked, Viewed, Due, Labels, Copies, Reveals, Free, Matches,
       Working, StartButtons, Control!Init
  <2> QED
    BY <2>1, <2>2 DEF IInv
<1>2. IInv /\ [Next]_vars => IInv'
  <2>1. IInv /\ UserStep => IInv'
    BY SmallSteps, ClickStartStep, SelectRowStep DEF UserStep, SmallStep
  <2>2. IInv /\ HandlerStep => IInv'
    BY SmallSteps, LaunchSteps, QuitStep DEF HandlerStep, SmallStep
  <2>3. IInv /\ DispatchStep => IInv'
    BY ProgressStep, ShowSteps DEF DispatchStep
  <2>4. IInv /\ (\E t \in Threads : WorkerStep(t)) => IInv'
    BY ScanSteps, EndSteps DEF WorkerStep
  <2>5. IInv /\ (WakeUp \/ Ended \/ UNCHANGED vars) => IInv'
    BY ScanSteps, StutterStep DEF Ended
  <2> QED
    BY <2>1, <2>2, <2>3, <2>4, <2>5 DEF Next
<1> QED
  BY <1>1, <1>2, PTL DEF Spec

\* The globals of the window keep their types, the list and the queue their
\* bounds.
THEOREM WindowTyped == Spec => []TypeOK
<1>1. IInv => TypeOK
  BY DEF IInv
<1> QED
  BY WindowInvariant, <1>1, PTL

\* One operation at a time, and none can be started before the message of the
\* one before has been dispatched: no interleaving of the user, the messages
\* and the threads gets round set_scan_controls.
THEOREM OneAtATime == Spec => []OneOperation
<1>1. IInv => OneOperation
  <2>1. ASSUME IInv, NEW t \in Threads, NEW u \in Threads, Working(t), Working(u) PROVE t = u
    BY <2>1, WorkBusy DEF Working
  <2> QED
    BY <2>1 DEF IInv, WindowInv, Idle, Free, OneOperation
<1> QED
  BY WindowInvariant, <1>1, PTL

\* A join of the UI thread waits for a thread that has nothing left to do.
THEOREM ShortJoins == Spec => []JoinsAreShort
<1>1. IInv => JoinsAreShort
  <2> SUFFICES ASSUME IInv, NEW t \in Threads
               PROVE  /\ ui \in StartButtons => worker[t] \in {"none", "returning", "returned"}
                      /\ ui # "quit" /\ queue # <<>> /\ Head(queue) = FinishedMessage(t)
                            => worker[t] \in {"returning", "returned"}
    BY DEF JoinsAreShort
  <2>1. ui \in StartButtons => ~Working(t)
    BY DEF IInv, WindowInv, Asked, Idle
  <2>2. queue # <<>> => 1 \in 1..Len(queue) /\ Head(queue) = queue[1]
    BY DEF IInv, TypeOK
  <2>3. ui # "quit" /\ queue # <<>> /\ Head(queue) = FinishedMessage(t)
            => worker[t] \in {"returning", "returned"}
    BY <2>2 DEF IInv, WindowInv, Due
  <2> QED
    BY <2>1, <2>3 DEF Working
<1> QED
  BY WindowInvariant, <1>1, PTL

\* What would be copied is what the list shows.
THEOREM CopyShown == Spec => []CopyMatchesList
<1>1. IInv => CopyMatchesList
  BY DEF IInv, WindowInv, Copies, Matches, CopyMatchesList
<1> QED
  BY WindowInvariant, <1>1, PTL

\* The pause button says what a click would do.
THEOREM PauseSaysWhatItDoes == Spec => []PauseLabelTruthful
<1>1. IInv => PauseLabelTruthful
  BY DEF IInv, WindowInv, Labels, PauseLabelTruthful
<1> QED
  BY WindowInvariant, <1>1, PTL

\* The file that would be shown in its folder is the one of the selected row.
THEOREM RevealsSelected == Spec => []RevealsShownCandidate
<1>1. IInv => RevealsShownCandidate
  <2> SUFFICES ASSUME IInv, "reveal" \in enabled
               PROVE  /\ view = "scan" /\ completed["scan"].op = list.op
                      /\ selection \in 1..completed["scan"].rows
    BY DEF RevealsShownCandidate
  <2>1. view = "scan" /\ Matches /\ selection # 0
    BY DEF IInv, WindowInv, Reveals
  <2>2. selection \in 0..list.rows /\ list.rows \in 0..MaxRows
    BY DEF IInv, TypeOK
  <2> QED
    BY <2>1, <2>2, BoundsAssumption DEF Matches
<1> QED
  BY WindowInvariant, <1>1, PTL

-----------------------------------------------------------------------------
(* The window as the environment of its SearchControl.  The control is an    *)
(* object that start_scan replaces: what is proved of SearchControl holds in *)
(* the window if all its steps are steps of the control in use, and none     *)
(* destroys a control in which a thread still is.                            *)

ProvedControl == INSTANCE SearchControlProofs WITH
                     Waiters <- {"scan"}, Callers <- {"ui"}, NoThread <- "free"

\* The search is inside wait_if_paused when its program counter says so, and
\* the UI thread inside a call of the control in the handlers that call it.
Inside ==
    /\ waiterPc["scan"] # "outside" <=> worker["scan"] = "gate"
    /\ callerPc["ui"] = "notify" <=> ui \in {"resume", "cancel", "destroy"}

\* A new control takes the place of one that no thread is in.
Replaced == /\ waiterPc["scan"] = "outside" /\ callerPc["ui"] = "idle"
            /\ Control!Init'

\* Every step of the window is one of its control, or replaces the control.
ControlRespected == [][Control!Next \/ Replaced]_controlVars

\* The steps that call the control.
ControlCall ==
    \/ ClickPause \/ ClickResume \/ ClickCancel
    \/ FinishResume \/ FinishCancel \/ FinishDestroyCancel \/ Close
    \/ EnterGate \/ InGate \/ LeaveGate \/ WakeUp

\* A call in a handler or in the search is one of the steps of SearchControl,
\* and the program counters of the callers go with it.
LEMMA CallStep ==
    ASSUME TypeOK, Inside, ControlCall
    PROVE  (Control!Next \/ UNCHANGED controlVars) /\ Inside'
<1> USE DEF TypeOK, Control!TypeOK, Inside, Control!Next, Control!CallerStep, Control!WaiterStep,
            workerVars
<1>1. CASE ClickPause
  BY <1>1 DEF ClickPause, Control!RequestPause
<1>2. CASE ClickResume
  BY <1>2 DEF ClickResume, Control!ResumeStore
<1>3. CASE ClickCancel
  BY <1>3 DEF ClickCancel, Control!CancelStore
<1>4. CASE FinishResume \/ FinishCancel \/ FinishDestroyCancel
  <2>1. Control!NotifyAll("ui") /\ ui' \in {"loop", "destroyJoin"} /\ worker' = worker
    BY <1>4 DEF FinishResume, FinishCancel, FinishDestroyCancel
  <2>2. waiterPc'["scan"] # "outside" <=> waiterPc["scan"] # "outside"
    BY <2>1 DEF Control!NotifyAll
  <2> QED
    BY <2>1, <2>2 DEF Control!NotifyAll
<1>5. CASE Close
  <2>1. CASE hasControl
    BY <1>5, <2>1 DEF Close, Control!CancelStore
  <2>2. CASE ~hasControl
    BY <1>5, <2>2 DEF Close, controlVars
  <2> QED
    BY <2>1, <2>2
<1> USE DEF Goto, Control!Goto, Threads, uiVars
<1>6. CASE EnterGate
  BY <1>6 DEF EnterGate, Control!Enter
<1>7. CASE InGate
  BY <1>7 DEF InGate, Control!Lock, Control!ReadPaused, Control!ReadCancelled, Control!Park
<1>8. CASE LeaveGate
  BY <1>8 DEF LeaveGate, Control!Leave
<1>9. CASE WakeUp
  BY <1>9 DEF WakeUp, Control!SpuriousWakeup
<1> QED
  BY <1>1, <1>2, <1>3, <1>4, <1>5, <1>6, <1>7, <1>8, <1>9 DEF ControlCall

\* start_scan joins the search before it replaces the control.
LEMMA ReplaceStep ==
    ASSUME TypeOK, Inside, StartScan
    PROVE  Replaced /\ Inside'
<1>1. /\ ui = "start" /\ ui' = "loop" /\ ~Working("scan")
      /\ worker'["scan"] = "plan"
      /\ paused' = FALSE /\ cancelled' = FALSE /\ mutex' = "free"
      /\ UNCHANGED <<waiterPc, callerPc>>
  BY DEF StartScan, Launch, Threads
<1>2. waiterPc["scan"] = "outside" /\ callerPc["ui"] = "idle"
  BY <1>1 DEF Inside, Working, TypeOK, Control!TypeOK, Control!CallerPcs
<1>3. waiterPc = [w \in {"scan"} |-> "outside"] /\ callerPc = [c \in {"ui"} |-> "idle"]
  BY <1>2 DEF TypeOK, Control!TypeOK
<1>4. Control!Init'
  BY <1>1, <1>3 DEF Control!Init
<1> QED
  BY <1>1, <1>2, <1>4 DEF Replaced, Inside

\* All other steps leave the control alone, and their threads where they are
\* with respect to it.
LEMMA OtherStep ==
    ASSUME TypeOK, Inside, [Next]_vars, ~ControlCall, ~StartScan
    PROVE  UNCHANGED controlVars /\ Inside'
<1> USE DEF Inside, TypeOK
<1>1. CASE \E button \in StartButtons : ClickStart(button)
  BY <1>1 DEF ClickStart, StartButtons, workerVars, controlVars
<1>2. CASE ClickCopy \/ SelectRow \/ ClickReveal
  BY <1>2 DEF ClickCopy, SelectRow, ClickReveal, workerVars, controlVars
<1>3. CASE ShowInstalledCertificates \/ ShowA3Local
  BY <1>3 DEF ShowInstalledCertificates, ShowA3Local, Launch, Threads, Working, controlVars
<1>4. CASE Quit
  BY <1>4 DEF Quit, Joined, Threads, Working, controlVars
<1>5. CASE ShowProgress
  BY <1>5 DEF ShowProgress, Dispatches, workerVars, controlVars
<1>6. CASE ShowCompletedResult
  BY <1>6 DEF ShowCompletedResult, Dispatches, Joined, Threads, Working, controlVars
<1>7. CASE ShowInstalledCertificateResult \/ ShowA3Result
  BY <1>7 DEF ShowInstalledCertificateResult, ShowA3Result, ShowRead, Dispatches, Joined, Threads,
              Working, controlVars
<1>8. CASE Plan \/ SearchEnds \/ SeeCancelled \/ SearchUnit \/ GoOn
  BY <1>8 DEF Plan, SearchEnds, SeeCancelled, SearchUnit, GoOn, Goto, Ends, uiVars, Threads,
              controlVars
<1>9. ASSUME NEW t \in Threads, Read(t) \/ Publish(t) \/ Post(t) \/ Return(t)
      PROVE  UNCHANGED controlVars /\ Inside'
  BY <1>9 DEF Read, Publish, Post, Return, Goto, Ends, uiVars, Threads, controlVars
<1>10. CASE Ended \/ UNCHANGED vars
  BY <1>10 DEF Ended, vars, workerVars, controlVars
<1> QED
  BY <1>1, <1>2, <1>3, <1>4, <1>5, <1>6, <1>7, <1>8, <1>9, <1>10
  DEF Next, UserStep, HandlerStep, DispatchStep, WorkerStep, ControlCall

\* Where the search and the UI thread are says whether they are in the control.
LEMMA InsideInvariant == Spec => []Inside
<1>1. Init => Inside
  BY DEF Init, Inside, Control!Init, Threads
<1>2. TypeOK /\ Inside /\ [Next]_vars => Inside'
  BY CallStep, ReplaceStep, OtherStep
<1> QED
  BY <1>1, <1>2, WindowTyped, PTL DEF Spec

\* All the window does with a control is what SearchControl allows, and no
\* control is destroyed while the search is in it or the UI thread calls it.
THEOREM ControlUsedWell == Spec => Control!Init /\ ControlRespected
<1>1. Init => Control!Init
  BY DEF Init
<1>2. TypeOK /\ Inside /\ [Next]_vars => [Control!Next \/ Replaced]_controlVars
  BY CallStep, ReplaceStep, OtherStep
<1> QED
  BY <1>1, <1>2, WindowTyped, InsideInvariant, PTL DEF Spec, ControlRespected

\* A step of the control in use is one of the control that is proved about.
LEMMA SameControl ==
    /\ Control!TypeOK => ProvedControl!TypeOK
    /\ [Control!Next]_controlVars => [ProvedControl!Next]_(ProvedControl!vars)
    /\ Control!MutexDiscipline <=> ProvedControl!MutexDiscipline
<1>1. Control!TypeOK => ProvedControl!TypeOK
  BY DEF Control!TypeOK, ProvedControl!TypeOK, Control!WaiterPcs, ProvedControl!WaiterPcs,
         Control!CallerPcs, ProvedControl!CallerPcs
<1>2. Control!MutexDiscipline <=> ProvedControl!MutexDiscipline
  BY DEF Control!MutexDiscipline, ProvedControl!MutexDiscipline,
         Control!HoldsMutex, ProvedControl!HoldsMutex
<1>3. Control!CallerStep("ui") => ProvedControl!CallerStep("ui")
  BY DEF Control!CallerStep, ProvedControl!CallerStep,
         Control!RequestPause, ProvedControl!RequestPause,
         Control!ResumeStore, ProvedControl!ResumeStore,
         Control!CancelStore, ProvedControl!CancelStore,
         Control!NotifyAll, ProvedControl!NotifyAll
<1>4. Control!Enter("scan") \/ Control!WaiterStep("scan") \/ Control!SpuriousWakeup("scan")
         => \/ ProvedControl!Enter("scan") \/ ProvedControl!WaiterStep("scan")
            \/ ProvedControl!SpuriousWakeup("scan")
  BY DEF Control!Enter, ProvedControl!Enter,
         Control!WaiterStep, ProvedControl!WaiterStep,
         Control!SpuriousWakeup, ProvedControl!SpuriousWakeup,
         Control!Lock, ProvedControl!Lock, Control!Park, ProvedControl!Park,
         Control!ReadPaused, ProvedControl!ReadPaused,
         Control!ReadCancelled, ProvedControl!ReadCancelled,
         Control!Leave, ProvedControl!Leave, Control!Goto, ProvedControl!Goto
<1> QED
  BY <1>1, <1>2, <1>3, <1>4
  DEF Control!Next, ProvedControl!Next, controlVars, ProvedControl!vars

\* In the window the mutex is held exactly by the search between its lock and
\* its release, across any number of searches and their controls.
THEOREM WindowMutex == Spec => []Control!MutexDiscipline
<1>1. Init => Control!MutexDiscipline
  BY DEF Init, Control!Init, Control!MutexDiscipline, Control!HoldsMutex
<1>2. TypeOK /\ Control!MutexDiscipline /\ [Control!Next \/ Replaced]_controlVars
         => Control!MutexDiscipline'
  <2> SUFFICES ASSUME TypeOK, Control!MutexDiscipline,
                      [Control!Next \/ Replaced]_controlVars
               PROVE  Control!MutexDiscipline'
    OBVIOUS
  <2>1. CASE Replaced
    BY <2>1 DEF Replaced, Control!Init, Control!MutexDiscipline, Control!HoldsMutex
  <2>2. CASE [Control!Next]_controlVars
    <3>1. /\ ProvedControl!TypeOK /\ ProvedControl!MutexDiscipline
          /\ [ProvedControl!Next]_(ProvedControl!vars)
      BY <2>2, SameControl DEF TypeOK
    <3>2. ProvedControl!MutexDiscipline'
      BY <3>1, ProvedControl!MutexStep
    <3> QED
      BY <3>2 DEF Control!MutexDiscipline, ProvedControl!MutexDiscipline,
                  Control!HoldsMutex, ProvedControl!HoldsMutex
  <2> QED
    BY <2>1, <2>2
<1>3. TypeOK /\ Inside /\ [Next]_vars => [Control!Next \/ Replaced]_controlVars
  BY CallStep, ReplaceStep, OtherStep
<1> QED
  BY <1>1, <1>2, <1>3, WindowTyped, InsideInvariant, PTL DEF Spec

\* In the window the search passes its gate only at an instant at which it is
\* not paused or is cancelled, whatever the user clicks meanwhile.
PassesOpenGate ==
    [][waiterPc["scan"] # "granted" /\ waiterPc'["scan"] = "granted"
          => Control!Gate!Open /\ UNCHANGED <<paused, cancelled>>]_controlVars

\* What the gate promises survives in the window.
THEOREM SearchGated == Spec => PassesOpenGate
<1> DEFINE Passes == waiterPc["scan"] # "granted" /\ waiterPc'["scan"] = "granted"
<1> DEFINE Gated == Passes => Control!Gate!Open /\ UNCHANGED <<paused, cancelled>>
<1>1. TypeOK /\ Control!Next => Gated
  BY DEF TypeOK, Control!TypeOK, Control!Next, Control!CallerStep, Control!WaiterStep,
         Control!RequestPause, Control!ResumeStore, Control!CancelStore, Control!NotifyAll,
         Control!Enter, Control!SpuriousWakeup, Control!Lock, Control!ReadPaused,
         Control!ReadCancelled, Control!Park, Control!Leave, Control!Goto, Control!Gate!Open
<1>2. Replaced => Gated
  BY DEF Replaced, Control!Init
<1>3. TypeOK /\ Inside /\ [Next]_vars => [Gated]_controlVars
  BY <1>1, <1>2, CallStep, ReplaceStep, OtherStep
<1> QED
  BY <1>3, WindowTyped, InsideInvariant, PTL DEF Spec, PassesOpenGate

-----------------------------------------------------------------------------
(* Closing the window.  WM_DESTROY cancels the search and joins the threads: *)
(* unless the search is caught in the wait, each step of theirs brings the   *)
(* end nearer, and none blocks.                                              *)

\* Between the look at the flags and the wake-up, which may never come.
Caught == waiterPc["scan"] \in {"parking", "parked"}

\* A search that the closing window joins has been cancelled.
Closing ==
    /\ ~hasControl => worker["scan"] = "none"
    /\ ui \in {"destroy", "destroyJoin"} /\ hasControl => cancelled

\* The steps left to the search in wait_if_paused, and one more.
GateLeft ==
    CASE waiterPc["scan"] = "locking"       -> 9
      [] waiterPc["scan"] = "readPaused"    -> 8
      [] waiterPc["scan"] = "readCancelled" -> 7
      [] OTHER                              -> 6

\* The steps left to thread t once the search is cancelled.
ThreadLeft(t) ==
    CASE worker[t] = "plan" -> 11
      [] worker[t] = "next" -> 10
      [] worker[t] = "gate" /\ t = "scan" -> GateLeft
      [] worker[t] \in {"check", "told"} -> 5
      [] worker[t] = "read" -> 4
      [] worker[t] = "publish" -> 3
      [] worker[t] = "post" -> 2
      [] worker[t] = "returning" -> 1
      [] OTHER -> 0

JoinLeft == ThreadLeft("scan") + ThreadLeft("cert") + ThreadLeft("a3")

\* A window that closes goes on to close, step by step.
CloseGoesOn ==
    [][ui = "destroyJoin" /\ ~Caught =>
          \/ ui' = "quit"
          \/ ui' = "destroyJoin" /\ ~Caught' /\ JoinLeft' < JoinLeft]_vars

\* A search runs on a control, and closing cancels it.
LEMMA ClosingInvariant == Spec => []Closing
<1>1. Init => Closing
  BY DEF Init, Closing, Threads
<1>2. TypeOK /\ Closing /\ [Next]_vars => Closing'
  <2> SUFFICES ASSUME TypeOK, Closing, [Next]_vars PROVE Closing'
    OBVIOUS
  <2> USE DEF Closing, TypeOK
  <2>1. CASE UserStep
    BY <2>1 DEF UserStep, ClickStart, ClickPause, ClickResume, ClickCancel, ClickCopy, SelectRow,
                ClickReveal, Close, StartButtons, workerVars, controlVars,
                Control!RequestPause, Control!ResumeStore, Control!CancelStore
  <2>2. CASE FinishResume \/ FinishCancel \/ FinishDestroyCancel
    BY <2>2 DEF FinishResume, FinishCancel, FinishDestroyCancel, workerVars, Control!NotifyAll
  <2>3. CASE StartScan \/ ShowInstalledCertificates \/ ShowA3Local
    BY <2>3 DEF StartScan, ShowInstalledCertificates, ShowA3Local, Launch, Threads
  <2>4. CASE Quit
    BY <2>4 DEF Quit, Joined, Threads, controlVars
  <2>5. CASE DispatchStep
    <3>1. /\ ui = "loop" /\ ui' = "loop" /\ hasControl' = hasControl
          /\ worker'["scan"] \in {worker["scan"], "none"}
      BY <2>5 DEF DispatchStep, ShowProgress, ShowCompletedResult, ShowInstalledCertificateResult,
                  ShowA3Result, ShowRead, Dispatches, Joined, Threads, workerVars
    <3> QED
      BY <3>1
  <2>6. CASE \/ Plan \/ SearchEnds \/ EnterGate \/ InGate \/ LeaveGate
             \/ SeeCancelled \/ SearchUnit \/ GoOn \/ WakeUp
    <3>1. worker["scan"] # "none" /\ ui' = ui /\ hasControl' = hasControl /\ cancelled' = cancelled
      BY <2>6 DEF Plan, SearchEnds, EnterGate, InGate, LeaveGate, SeeCancelled, SearchUnit, GoOn,
                  WakeUp, uiVars, controlVars, Control!Enter, Control!Lock, Control!ReadPaused,
                  Control!ReadCancelled, Control!Park, Control!Leave, Control!SpuriousWakeup
    <3> QED
      BY <3>1
  <2>7. ASSUME NEW t \in Threads, Read(t) \/ Publish(t) \/ Post(t) \/ Return(t)
        PROVE  Closing'
    <3>1. worker[t] # "none" /\ ui' = ui /\ hasControl' = hasControl /\ cancelled' = cancelled
      BY <2>7 DEF Read, Publish, Post, Return, uiVars, controlVars
    <3>2. PICK pc : worker' = [worker EXCEPT ![t] = pc]
      BY <2>7 DEF Read, Publish, Post, Return, Goto, Ends
    <3> QED
      BY <3>1, <3>2 DEF Threads
  <2>8. CASE Ended \/ UNCHANGED vars
    BY <2>8 DEF Ended, vars, workerVars, controlVars
  <2> QED
    BY <2>1, <2>2, <2>3, <2>4, <2>5, <2>6, <2>7, <2>8
    DEF Next, HandlerStep, WorkerStep
<1> QED
  BY <1>1, <1>2, WindowTyped, PTL DEF Spec

\* A thread that moves to pc has fewer steps left if pc says so, and the
\* others as many as before.
LEMMA OneThreadMoves ==
    ASSUME TypeOK, NEW t \in Threads, ThreadLeft(t)' < ThreadLeft(t),
           \A u \in Threads : u # t => ThreadLeft(u)' = ThreadLeft(u)
    PROVE  JoinLeft' < JoinLeft
<1>1. \A u \in Threads : ThreadLeft(u) \in 0..11 /\ ThreadLeft(u)' \in 0..11
  BY DEF ThreadLeft, GateLeft
<1>2. Threads = {"scan", "cert", "a3"}
  BY DEF Threads
<1>3. CASE t = "scan"
  BY <1>1, <1>2, <1>3 DEF JoinLeft
<1>4. CASE t = "cert"
  BY <1>1, <1>2, <1>4 DEF JoinLeft
<1>5. CASE t = "a3"
  BY <1>1, <1>2, <1>5 DEF JoinLeft
<1> QED
  BY <1>2, <1>3, <1>4, <1>5

\* A step of the search that closing cancelled leaves it fewer steps.
LEMMA SearchStepsDown ==
    ASSUME TypeOK, Inside, cancelled, ~Caught,
           \/ Plan \/ SearchEnds \/ EnterGate \/ InGate \/ LeaveGate
           \/ SeeCancelled \/ SearchUnit \/ GoOn
    PROVE  /\ ui' = ui /\ ~Caught' /\ ThreadLeft("scan")' < ThreadLeft("scan")
           /\ \A u \in Threads : u # "scan" => worker'[u] = worker[u]
<1>0. "scan" \in Threads /\ worker \in [Threads -> WorkerPcs]
      /\ waiterPc \in [{"scan"} -> Control!WaiterPcs]
  BY DEF TypeOK, Control!TypeOK, Threads
<1>1. CASE Plan \/ SearchEnds \/ SeeCancelled
  <2>1. /\ ui' = ui /\ waiterPc' = waiterPc
        /\ \/ worker["scan"] = "plan" /\ worker' = [worker EXCEPT !["scan"] = "next"]
           \/ /\ worker["scan"] \in {"plan", "next", "check", "told"}
              /\ worker' = [worker EXCEPT !["scan"] = "publish"]
    BY <1>1 DEF Plan, SearchEnds, SeeCancelled, Goto, Ends, uiVars, controlVars
  <2> QED
    BY <1>0, <2>1 DEF ThreadLeft, GateLeft, Caught
<1>2. CASE EnterGate
  <2>1. /\ ui' = ui /\ worker["scan"] = "next" /\ worker' = [worker EXCEPT !["scan"] = "gate"]
        /\ waiterPc' = [waiterPc EXCEPT !["scan"] = "locking"]
    BY <1>2 DEF EnterGate, Goto, uiVars, Control!Enter, Control!Goto
  <2> QED
    BY <1>0, <2>1 DEF ThreadLeft, GateLeft, Caught
<1>3. CASE InGate
  <2>1. /\ ui' = ui /\ worker["scan"] = "gate" /\ worker' = worker
        /\ \/ /\ waiterPc["scan"] = "locking"
              /\ waiterPc' = [waiterPc EXCEPT !["scan"] = "readPaused"]
           \/ /\ waiterPc["scan"] = "readPaused"
              /\ \/ waiterPc' = [waiterPc EXCEPT !["scan"] = "readCancelled"]
                 \/ waiterPc' = [waiterPc EXCEPT !["scan"] = "granted"]
           \/ /\ waiterPc["scan"] = "readCancelled"
              /\ waiterPc' = [waiterPc EXCEPT !["scan"] = "granted"]
    BY <1>3 DEF InGate, uiVars, workerVars, Caught, Control!Lock, Control!ReadPaused,
                Control!ReadCancelled, Control!Park, Control!Goto
  <2> QED
    BY <1>0, <2>1 DEF ThreadLeft, GateLeft, Caught
<1>4. CASE LeaveGate
  <2>1. /\ ui' = ui /\ worker["scan"] = "gate" /\ worker' = [worker EXCEPT !["scan"] = "check"]
        /\ waiterPc["scan"] = "granted"
        /\ waiterPc' = [waiterPc EXCEPT !["scan"] = "outside"]
    BY <1>4 DEF LeaveGate, Goto, uiVars, Control!Leave, Control!Goto
  <2> QED
    BY <1>0, <2>1 DEF ThreadLeft, GateLeft, Caught
<1>5. ~SearchUnit /\ ~GoOn
  BY DEF SearchUnit, GoOn
<1> QED
  BY <1>1, <1>2, <1>3, <1>4, <1>5

\* So does a step that the threads have in common.
LEMMA CommonStepsDown ==
    ASSUME TypeOK, Inside, NEW t \in Threads, Read(t) \/ Publish(t) \/ Post(t) \/ Return(t)
    PROVE  /\ ui' = ui /\ waiterPc' = waiterPc /\ ThreadLeft(t)' < ThreadLeft(t)
           /\ \A u \in Threads : u # t => worker'[u] = worker[u]
<1>1. /\ ui' = ui /\ waiterPc' = waiterPc
      /\ \/ worker[t] = "read" /\ worker' = [worker EXCEPT ![t] = "publish"]
         \/ worker[t] = "publish" /\ worker' = [worker EXCEPT ![t] = "post"]
         \/ worker[t] = "post" /\ worker' = [worker EXCEPT ![t] = "returning"]
         \/ worker[t] = "returning" /\ worker' = [worker EXCEPT ![t] = "returned"]
  BY DEF Read, Publish, Post, Return, Goto, Ends, uiVars, controlVars
<1>2. worker \in [Threads -> WorkerPcs]
  BY DEF TypeOK
<1> QED
  BY <1>1, <1>2 DEF ThreadLeft

\* The threads that are not the search do not look at the control.
LEMMA OthersOutside ==
    ASSUME TypeOK, NEW u \in Threads, u # "scan", worker'[u] = worker[u]
    PROVE  ThreadLeft(u)' = ThreadLeft(u)
BY DEF ThreadLeft

\* A window that closes goes on to close: once its UI thread has come to the
\* joins of WM_DESTROY and the search is not caught in the wait, each step of
\* any thread is one of at most 33 that lead to the end, whatever the threads
\* were doing, and none leads back into the wait (src/app/main.cpp:547-553).
THEOREM ClosingRunsOut ==
    Spec => /\ [](JoinLeft \in 0..33)
            /\ CloseGoesOn
<1>1. JoinLeft \in 0..33
  <2>1. \A u \in Threads : ThreadLeft(u) \in 0..11
    BY DEF ThreadLeft, GateLeft
  <2>2. "scan" \in Threads /\ "cert" \in Threads /\ "a3" \in Threads
    BY DEF Threads
  <2> QED
    BY <2>1, <2>2 DEF JoinLeft
<1>2. TypeOK /\ Inside /\ Closing /\ [Next]_vars
         => [ui = "destroyJoin" /\ ~Caught =>
                \/ ui' = "quit"
                \/ ui' = "destroyJoin" /\ ~Caught' /\ JoinLeft' < JoinLeft]_vars
  <2> SUFFICES ASSUME TypeOK, Inside, Closing, Next, vars' # vars, ui = "destroyJoin", ~Caught
               PROVE  \/ ui' = "quit"
                      \/ ui' = "destroyJoin" /\ ~Caught' /\ JoinLeft' < JoinLeft
    BY Zenon
  <2>1. CASE \/ Plan \/ SearchEnds \/ EnterGate \/ InGate \/ LeaveGate
             \/ SeeCancelled \/ SearchUnit \/ GoOn
    <3>1. worker["scan"] # "none"
      BY <2>1 DEF Plan, SearchEnds, EnterGate, InGate, LeaveGate, SeeCancelled, SearchUnit, GoOn
    <3>2. cancelled
      BY <3>1 DEF Closing, TypeOK
    <3>3. /\ ui' = ui /\ ~Caught' /\ ThreadLeft("scan")' < ThreadLeft("scan")
          /\ \A u \in Threads : u # "scan" => worker'[u] = worker[u]
      BY <2>1, <3>2, SearchStepsDown
    <3>4. JoinLeft' < JoinLeft
      BY <3>3, OthersOutside, OneThreadMoves DEF Threads
    <3> QED
      BY <3>3, <3>4
  <2>2. ASSUME NEW t \in Threads, Read(t) \/ Publish(t) \/ Post(t) \/ Return(t)
        PROVE  ui' = "destroyJoin" /\ ~Caught' /\ JoinLeft' < JoinLeft
    <3>1. /\ ui' = ui /\ waiterPc' = waiterPc /\ ThreadLeft(t)' < ThreadLeft(t)
          /\ \A u \in Threads : u # t => worker'[u] = worker[u]
      BY <2>2, CommonStepsDown
    <3>2. \A u \in Threads : u # t => ThreadLeft(u)' = ThreadLeft(u)
      BY <3>1 DEF ThreadLeft, GateLeft
    <3>3. JoinLeft' < JoinLeft
      BY <3>1, <3>2, OneThreadMoves
    <3> QED
      BY <3>1, <3>3 DEF Caught
  <2>3. CASE Quit
    BY <2>3 DEF Quit
  <2>4. ~WakeUp /\ ~Ended /\ ~UserStep /\ ~DispatchStep /\ (HandlerStep => Quit)
    BY DEF WakeUp, Control!SpuriousWakeup, Caught, Ended, UserStep, ClickStart, ClickPause,
           ClickResume, ClickCancel, ClickCopy, SelectRow, ClickReveal, Close,
           DispatchStep, ShowProgress, ShowCompletedResult, ShowInstalledCertificateResult,
           ShowA3Result, ShowRead, Dispatches,
           HandlerStep, FinishResume, FinishCancel, StartScan, ShowInstalledCertificates,
           ShowA3Local, FinishDestroyCancel
  <2> QED
    BY <2>1, <2>2, <2>3, <2>4 DEF Next, WorkerStep
<1> QED
  BY <1>1, <1>2, WindowTyped, InsideInvariant, ClosingInvariant, PTL DEF Spec, CloseGoesOn

=============================================================================

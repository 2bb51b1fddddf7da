# CertRadar: models, checks and proofs

CertRadar is a read-only helper for digital certificates on Windows: it searches
disks for A1 containers (`.pfx`, `.p12`), lists installed certificates, looks at
the smart card service and its readers, and shows the results in one window. This
folder holds TLA+ modules of its parts, the TLC configurations that check them on
small instances, and proofs that TLAPS checks for every instance.

Run `tlc -config X.cfg M` for the pairs of the table *Runs*, and `tlapm M.tla` for
the modules whose name ends in `Proofs`. Paths below are relative to the
repository.

## Inventory

| Component | State it keeps | Operations | What is hard | What makes it correct |
|---|---|---|---|---|
| Search control (`src/search.cpp:40-64`) | `paused_`, `cancelled_` (atomics), `mutex_`, `condition_` | `request_pause`, `resume`, `cancel`, `wait_if_paused`, `is_cancelled` | two threads; flags are stored and notified without the mutex | a thread passes only when it may; a blocked one is released |
| File search (`src/search.cpp:66-189`) | queue of folders, visited folders and files, result | `search_files`, `inspect_pkcs12_container` | pause and cancel at any point; overlapping roots, junctions, hard links; folders that vanish, refuse or break off | each reachable file once, nothing missed uncounted, prompt stop, an end |
| Search plan (`src/search_plan.cpp`, `src/known_folders.cpp`) | locals of one call | `build_default_search_plan` and what it calls | calls to Windows that size a buffer and then fill it; exceptions; evaluation order | roots listed phase by phase, nothing lost that could be listed |
| Main window (`src/app/main.cpp`) | widgets, three threads, three published results, the control | one handler per button and message | the UI thread joins workers; posted messages; results published before they are announced | one operation at a time, no join that waits for work, buttons that mean what they say, closing ends |
| Smart card (`src/smartcard.cpp`, `src/actions.cpp:37-88`) | locals of one call | `execute_smartcard_service_start`, `inspect_a3_locally`, `classify_a3_local_snapshot` | service and readers change between two calls; polling with a bound | each reading was true at some instant of the call; consent comes first |
| Legacy console (`legacy/main.cpp`) | roots, queue, candidates, two counters | `default_roots`, `scan_root`, `main` | a limit shared by all roots, `MAX_PATH`, errors that are counted and errors that are not | sound and, unless a counter says otherwise, complete output |
| Application profile (`src/application_profile.cpp`) | none: a function of collected facts | `evaluate_pje_profile` | facts missing, facts in any order | blocks only on facts, and a new fact never excuses |
| Certificate stores (`src/certificates.cpp`) | locals of one call | `enumerate_personal_certificates`, `evaluate_chain`, two classifications | a clock that moves during the listing, unsigned dates, a null context with two meanings, error flags nobody named | a result true of an instant of the call, nothing left open |
| Texts of the window (`src/ui_model.cpp`) | none | display order, reveal plan, summaries | an order over readings of different instants, an index into a result | the expired stand above the usable; a row means its own candidate |
| Diagnosis (`src/diagnosis.cpp`) | none | `diagnose` | precedence of findings | a repair never leads back |
| Retest (`src/retest.cpp`) | none | `compare_affected_retest` | a check observed twice | a drawn outcome stays |
| Fact document and platform (`src/facts.cpp`, `src/platform.cpp`) | one document | `serialize_facts`, `deserialize_facts`, `classify_support_mode` | four name tables nothing ties together; conversions that accept more than they were meant to; a text that is cut or edited | a document comes back, cautiously, or is refused |
| Redacted report (`src/report.cpp`) | one flag of the scan | `sanitize_report_text` and the texts that use it | traits tested in an order, a flag carried to the next word | the sensitive words are replaced and the others stay |
| Import wizard and middleware page (`src/actions.cpp:14-35`, `90-164`) | locals of one call | `open_certificate_import_wizard`, `open_official_middleware_page`, `authorize_action` | the file is replaced between two looks | nothing is opened that was not authorised |
| Signature test (`src/signature_test.cpp`) | two handles | `run_synthetic_a1_signature_test` | seven calls that may fail | nothing left open, no success but after all calls |
| Product information, packaging scripts, schemas, tests | none | | | not modelled |

How they interact: the window's `start_scan` creates a `SearchControl` and a
thread, which asks for the plan and calls `search_files` with the control; the
buttons call the control from the UI thread; the search posts progress, publishes
its result under a mutex and posts one last message; the handler of that message
joins the thread and shows the result. Certificate reading and the A3 inspection
are threads of the same kind, without a control. The start of the smart card
service, the import wizard, the profile, the diagnosis, the retest, the facts and
the report are library functions the window does not call.

## Modules

| Module | Models | Correspondence |
|---|---|---|
| `PauseGate` | what `wait_if_paused` promises | a thread stands before the gate and may pass when `~paused \/ cancelled`; three calls steer it |
| `SearchControl` | the class with its mutex and condition variable | one atomic access, lock, notification or wake-up per step; `waiterPc`, `callerPc` say where a thread is; refines `PauseGate` |
| `SearchControlProofs` | theorems about `SearchControl` | |
| `FolderTree` | the disk and the declarative notion of what a search is to find | constants; `Reachable`, `Targets` |
| `TreeSearch` | what `search_files` promises its caller | report one more file, count a gap, complete, abandon |
| `SearchFiles` | `search_files` | one action per stretch between gates, tests of the flag, progress callbacks and uses of the file system; at a gate it passes, or blocks and is perhaps never woken (`PassGate`, `Block`, `WakeUp`); refines `TreeSearch` |
| `SearchFilesProofs` | theorems about `SearchFiles` | |
| `MainWindow` | the UI thread, its queue and the workers; composes `SearchControl` by `INSTANCE` with one waiting and one steering thread | one action per handler, split where the handler may block or another thread may look |
| `SearchPlan` | the calls that build the default plan | one action per call to Windows; `DriveComes` and `DriveGoes` are the computer |
| `SmartCardHost` | the service and the readers as Windows keeps them (external) | `ServiceMoves`, `Plug`, `Unplug`, `InsertCard`, `RemoveCard` |
| `SmartCard` | the start of the service and the local inspection; extends `SmartCardHost` | one action per call to Windows |
| `LegacyScan` | the console program | one action per root, folder, entry and error |
| `MainWindowProofs`, `SmartCardProofs`, `SearchPlanProofs`, `LegacyScanProofs` | theorems about these modules | |
| `PjeProfile` | the profile and the facts collected for it | `Collect` is the caller; the checks are operators |
| `Diagnosis` | `diagnose` | `Change` is the user who verifies and repairs one thing at a time; the findings are operators |
| `Retest` | the comparison of two lists of observations | `Observe` is the caller; `Comparisons` is `compare_affected_retest` |
| `Redaction` | the scan over one text after the other | a word is the set of the traits it is tested for; `Scan` is one round of the loop |
| `FactDocument` | filling, writing, reading a document, and what happens to the text in between | `Fill`, `Write`, `Read` are the three functions; `Alterations` is the world; enumerators are their integers, `VersionOf` and `ErrorsOf` the conversions of the JSON library |
| `Certificates` | the listing of a store, the chain of a certificate, the display order | one action per call to Windows; `Clock` is the system time; dates are small numbers and the window of thirty days is `ExpiringWindow` |
| `SignatureTest` | the signature test | one action per BCrypt call |
| `SupportActions` | the import wizard and the middleware page | `MeasureFile`, `OpenFile`, `PlanImport`, `PlanPage`, `AskWindows` are the stretches between two looks at the file; `Replace` is somebody else |
| `MCLibrary` | the eight parts above, one in use per behaviour | `INSTANCE`s; the variables of the others rest |
| `CertificatesProofs` | theorems about `Certificates` | |
| `LibraryProofs` | these carried over to `MCLibrary`, and the theorems about its other parts | |
| `MCRoutines` | `SearchControl`, `SearchPlan`, `SmartCard` and `LegacyScan`, one in use per behaviour | `EXTENDS` their `MC…` modules; the variables of the others rest |
| other `MC…` | the constants for TLC | |

An operator whose comment begins with "Mutant of" is a plausible mistake in the
definition that follows it. It is part of no specification; it is there so that
each property can be shown to fail when the code is wrong in that way.

## Runs

| Run (cfg) | Module | What it checks | Bounds |
|---|---|---|---|
| `Routines` | `MCRoutines` | *control*: a cancellation lasts, refinement of the gate, a repeated cancel releases also a thread that missed the first; *plan*: types and buffer, roots listed phase by phase and each once in its phase, every other readable profile and every listed drive planned; *card*: what an answer or a snapshot says was so at an instant of the call, consent before a start, every call returns; *legacy*: types and limit, sound output, complete and sorted output but for the gaps named below, no folder counted twice under a root, an end | one searching thread, as in the program, and two steering threads; three drives, one of a kind, that come and go, and three entries in the folder of the profiles, the current one among them; two readers and three polls; ten folders, a limit of seven, five lists of roots, paths at both sides of `MAX_PATH` and of `MAX_PATH - 3` |
| `SearchFiles` | `MCSearchFiles` | types; at most one unit of work after a pause or a cancellation; an order fixed by roots and names; refinement of `TreeSearch`; an end, unless it sleeps at a gate | seven folders and nine files, with a hard link, a junction cycle, nested roots, a refused folder, one that may fail to open or break off, and two paths that may vanish |
| `SearchFiles_denied` | `MCSearchFiles` | **violated**: a refused folder is counted | the same disk |
| `SearchFiles_phases` | `MCSearchFiles` | **violated**: the profile is searched to its end before a drive is begun | the same disk, on which nothing fails |
| `MainWindow` | `MCMainWindow` | types; joins never wait for work; one operation at a time; copy, pause and reveal act on what is shown; operations end unless their last message is lost; the window closes unless the search is about to block in a pause | two operations, two units of work, two rows, a queue of two |
| `MainWindow_close` | `MCMainWindow` | **violated**: closing ends | one operation |
| `MainWindow_select` | `MCMainWindow` | **violated**: a selected candidate can be shown | one operation |
| `SearchPlan_drives` | `MCSearchPlan` | **violated**: every fixed drive that stays is planned | that of `Routines` |
| `Library` | `MCLibrary` | the profile blocks only on facts, and new facts never excuse; a repair moves the diagnosis forward; a drawn outcome of a retest stays; the sensitive words and no others are redacted; a document comes back, cautiously, or is refused; a listing is true of an instant of its call and shows the expired above the usable; no handle stays open; only authorised windows are asked for | four words, three observations, three certificates, a clock of four instants, two providers, three alterations of a text, integers that start again at 16 instead of 2^32 |
| `Redaction_value` | `MCLibrary` | **violated**: the value that follows a keyword is redacted | the same |
| `FactDocument_version` | `MCLibrary` | **violated**: a document of an unknown version is refused | the same |
| `PjeProfile_dark` | `MCPjeProfile` | **violated**: a device nobody looked at is not passed | none |

Why the bounds are enough. The parts of *Routines* and of *Library* share no state, so a behaviour runs one
of them: the spaces of states add up and do not multiply. *SearchControl*: the program has one searching thread;
two steering threads make a notification overlap a store. What holds for more
threads is proved. *SearchFiles*: every kind of entry and every branch of the two
loops occurs, and two roots lie inside a third. The run leaves container
validation off, because the state of a candidate influences no decision of the
search; the proofs cover both. *MainWindow*: what is left over from an operation
matters to the next one only, so two suffice; two units make a pause fall between
work. The queue takes two messages, where Windows takes 10,000, so that two
progress messages fill it and the third, which alone gives the buttons back, is
lost; `FinishFits` names the behaviours without that, and without it
`OperationsEnd` fails.
*SearchPlan*, *SmartCard*: the code treats every drive and every reader alike, so
one of each kind, or two, show how they get in each other's way. *LegacyScan*: the
roots of the profile hold more than seven folders, so the limit is reached in some
behaviours and not in others; one place is offered under a long and a short
spelling, from which different folders are too long. *Library*: the profile, the diagnosis and the signature test
are finite as they are. Four words hold a keyword in the place of a value, with
a word on either side. Three observations make a check observed twice on one side
and once on the other. The dates of the three certificates give each of the four
answers at some instant, and the clock may move between any two entries of a
listing, so readings of different instants meet in one order. What holds for longer texts and lists
and for any certificates and dates is proved. An integer matters to a
document only by whether it is 1 after the conversion, so any modulus above 2 will
do, and no two alterations but those of one member affect each other.

`MainWindow` sets `ListNotifies` to TRUE although the list box is created without
`LBS_NOTIFY`: otherwise the handler that enables the reveal button is never run,
and the property about that button would hold for the wrong reason. The two
violated window runs use the list box as it is created.

## Fairness

Only the program is fair. A thread that can take a step takes one (`WF` on the
steps of each worker, of the search, of the smart card call, of the console
program), because Windows schedules runnable threads. The UI thread
dispatches messages with strong fairness, because `GetMessageW` returns posted
messages before input, so a user who keeps clicking does not starve them. Nothing
is assumed of the user, of drives, of readers, of the service, or of spurious
wake-ups. `OperationsEnd` speaks of behaviours without a pause and without a lost
last message. `Ends` of the search says that it returns or sleeps at a gate: the
scan is fair until it blocks, and nothing is assumed of its waking, because resume
and cancel may lose their notification (`MainWindow_close`). So it asks only of a
cancellation that finds the search awake that it ends it. The plan and the parts of the library have no fairness and
no liveness property: they are straight lines whose loops are bounded by data.

## What the runs show

What holds is in the table. Where the code and the repository's own words part:

* **Closing the window may hang** (`MainWindow_close`). `cancel()` stores its flag
  and notifies without the mutex, so the notification can fall between the look of
  `wait_if_paused` at the flags and its blocking (`src/search.cpp:52-62`).
  `WM_DESTROY` cancels once and joins (`src/app/main.cpp:548-553`): nobody
  notifies again. `resume()` has the same window. `ClosesUnlessParked`,
  `CancelLasts` and `RepeatedCancelReleases` say what is left: only a search caught
  there is stuck, and a second call frees it.
* **Phases overlap** (`SearchFiles_phases`): sub-folders go behind all the roots
  (`src/search.cpp:170`), so the drives are begun before the profile is searched;
  docs/06_BUSCA_DE_CERTIFICADOS.md:28 puts the rest of the profile first.
* **"senha: 1234" keeps its value** (`Redaction_value`): a keyword with its separator
  counts as one that carries its value (`src/report.cpp:80`), so the word after it is
  judged on its own traits; docs/17_AUDITORIA_DE_PRIVACIDADE.md:9 promises the values
  that follow. `ExactlyTheSensitive`, which passes, says what the scan does replace.
* **An unknown version may be read** (`FactDocument_version`): `get<std::uint32_t>()`
  casts any number or truth value (`src/facts.cpp:91`), so 4294967297, 1.9 and `true`
  are the current version; docs/11_CONTRATO_DE_FATOS.md:3 says that every unknown one
  is refused.
* **A refused folder is not counted** (`SearchFiles_denied`):
  `skip_permission_denied` makes it an empty one. The abstract search in
  `TreeSearch` therefore excepts such folders from what may not be missed.
* **The reveal button is never enabled** (`MainWindow_select`).
* **A drive that appears at the wrong moment costs the search every drive**
  (`SearchPlan_drives`): the second call that lists the drives is tested for 0
  only.
* **A profile is "ready" with a device nobody looked at** (`PjeProfile_dark`).

Noted while modelling, without a run: a search that fails by an exception drops
the candidates found so far and its status line reads as for a completed one; the
console program ends a folder's listing on an error as on its end, drops a folder
whose path is `MAX_PATH` and more, and does not say that its limit was reached: the
first two are the gaps `CompleteResult` excepts, and no more is missed because of
them than what lies there. An inspection of the smart card asks one reader after the
other, so a card that changes readers may escape it (`SnapshotTruthful` says what
"device absent" does mean). Errors that are null or `{}` in a document are read as no
errors, and an error text that is not UTF-8 makes the writing of one throw. A null context is taken for the end of the store also when the enumeration
broke off, so a listing may be short without an error. A chain with a certificate
that is not valid yet is called expired, for Windows has one flag for both. The
outcome `changed` of a retest cannot be reached, and a first observation
"not observed" makes a check incomplete whatever is observed after it. The members
`certificates` and `smartCards` of the document are written empty and never read.
The actions do not ask `authorize_action`, but they allow no more than it does.

## What is proved

All theorems hold for every value of the constants, under the named assumptions.
Every safety property that a passing run checks is stated by one of them. Where a run checks
that something ends, a theorem gives its safety half where there is one: a natural
number that every step of the component makes smaller.

`SearchControlProofs`, from no assumption but that no thread is called `NoThread`:

* `TypeCorrect`: `TypeOK` is inductive as it stands.
* `MutualExclusion`: the mutex is held exactly by the thread between lock and
  release. `MutexDiscipline` is inductive together with `TypeOK`; `MutexStep`
  treats each step.
* `GateImplemented`: `SearchControl` implements `PauseGate`. A thread is
  mapped past the gate from the load that decides its predicate, the one of
  `paused` or the one of `cancelled`; at that instant the gate is open, though
  it may not be when the call returns. Everything before that load, blocking and
  wake-ups included, is a stutter.
* `CancellationLasts`: `CancelLasts`. A thread found outside the wait itself after a cancellation never
  blocks again, whoever pauses the search later, and a notification after a
  cancellation releases every thread but one between its look at the flags and its
  blocking. This is the safety half of `RepeatedCancelReleases`, and the reason
  why one cancellation may not be enough.

`SearchFilesProofs`, from `TreeAssumption` (contents, identities and roots are of
their types), `AliasAssumption` (a folder is the same under all its paths) and
`RankAssumption` (different paths have different places in the order of names):

* `TypeCorrect`.
* `Promptness`: after a pause or a cancellation at most one unit of work is begun.
  `StopsPromptly` is not inductive; `Behind` adds that late work stands behind a
  gate or, once through it, a test of `cancelled`, and that nothing is late when
  the next unit of work is about to begin.
* `RootsInOrder`: the roots are opened in their order and, as `SearchFiles_phases`
  shows, all before the folders found on the way (`PlanOrder`). After k roots are taken the others stand at the head
  of the queue in their order and the k are visited, so a path found on the way
  that is a root as well is either still to be taken as a root or never opened
  again (`TakenRoots`).
* `EachFolderOnce`: no folder is opened twice under whatever paths lead to it.
  `Marked` adds that a folder about to be opened is marked and none opened before
  is the same. This and the next theorem are about `opened`, the folders opened so
  far, whose length is the counter `directories_visited` of the code.
* `OneOrder`: `Deterministic`. The folders opened, the one in hand and the queue form
  one trail, in the order of the roots, then of the folders they were met in and of
  the names. `InOrder` says so, and that what was found in the folder in hand comes
  before what is left of it; pauses, failures and paths that vanish take places out
  of the trail but never exchange two. The order is relative to the folders opened: a
  folder that vanishes under one path may be met later under another, and its
  candidates then come where that one stands.
* `ScanRunsOut`, for a finite disk: `StepsLeft` is fixed by the disk and the plan
  when the search begins, every step of the scan makes it smaller, and no request
  of the user changes it. It counts a cost for each folder not yet
  visited, two steps for each path queued, five for each entry in hand, and what the turn
  has left. Cycles of junctions cost nothing, because a queued path to a visited
  folder is dropped in its turn.
* `SearchImplemented`: `SearchFiles` implements `TreeSearch`. Two invariants carry
  it. `Sound`: whatever is queued or examined is reachable, and the visited files
  are exactly the identities reported, so nothing is reported twice.
  `Covered`: every root is queued or visited, and unless a gap is counted, under
  each visited identity some folder was examined: its sub-folders are queued or
  visited and its matching files seen, but for those still in hand. When the queue
  is empty, the visited folders are closed under sub-folders, hence contain all
  that is reachable (`NothingMissed`). `Covered` is needed because completeness
  itself says nothing before the end.

`MainWindowProofs`, from `BoundsAssumption` (the bounds are natural numbers): all
six safety properties of the run, with any limit of the queue, 0 included. The
invariant says what the buttons stand for. `Idle`: when one start button is
enabled all are, no thread works, no message is queued and pausing is off. `Busy`:
when none is, the list is empty and nothing can be copied or revealed. `Viewed`:
the one thread there is works for the view. `Due`: the message that ends an
operation is the last of the queue and its thread has nothing left to do. The last
one is needed because the join in the handler of a message says nothing of the
message itself, and it holds although the message may be lost. `ThreadStep` treats
what all worker steps share, `LaunchStep` and `ShownStep` what all starts and all
results share.

Four theorems compose the window with the control of its search:

* `ControlUsedWell`: all the window does with a control is what `SearchControl`
  allows, and the control is replaced only while no thread is in it (`Inside`: the
  search is in the control exactly while it stands at the gate, and the UI thread
  exactly while it resumes or cancels). So the destructor never runs under a
  waiting thread.
* `WindowMutex`: `MutexDiscipline` holds across any number of searches. The proof
  takes `MutexStep` over from `SearchControlProofs` by `INSTANCE`.
* `SearchGated`: the search passes its gate only at an instant at which it is not
  paused or is cancelled, whatever is clicked meanwhile.
* `ClosingRunsOut`: once the UI thread is at the joins of `WM_DESTROY` and the search
  is not caught between its look at the flags and the end of its wait, every step of
  any thread is one of at most 33 that lead to the end, and none leads back into the
  wait. `Closing` says that a search has a control and that a window being closed
  has cancelled it.
  This is the safety half of `ClosesUnlessParked`.

`SmartCardProofs`, from `ReaderAssumption` (finitely many readers) and
`MaxAttemptsAssumption` (at least one poll): `AnswerTruthful`, `SnapshotTruthful` and
`StartsOnlyWithConsent`. `Seeing` ties the history to the host at every instant of
a call; `StartInv` adds that a start that goes on saw the service down or was
refused an answer; `InspectInv` that an inspection that goes on saw it running,
and that what it says of each reader so far was so: each at its own
instant, so that "device absent" means that no reader that could be asked held a card
all through. `CallsRunOut`, the safety half of
`CallsReturn`: a start is over after `MaxAttempts` + 3 of its steps, an inspection
after five more than there are readers, and nothing the host does meanwhile gives a
call more to do.

`SearchPlanProofs`, from `PlanAssumption` (the letters are different, each drive has
one of the four kinds, the profiles, the current one too, are among the entries): all four safety
properties of the run.

* `EveryProfile`: what is looked at goes from `entries` to `others`, to `missed`, or
  is no profile. `ProfilesInv` says so for every place the evaluation may stand at,
  because one of the other arguments may come before or after, or throw.
* `EveryDrive`: `DrivesInv` keeps every drive that stayed either in the buffer or
  in the list with its own kind, once the list was had. A drive that is gone when
  its kind is asked is listed as having none, so the property speaks of those that
  stayed, and of a list that was had: `lost` names the two ways not to have one,
  the second of which is the finding.
* `PhaseByPhase`: the plan lists its roots phase by phase, each once in its phase, and
  the current profile, which is found among the others, not with them. The plan is
  composed at once of what `FoldersInv`, `ProfilesInv`
  and `DrivesInv` say of its parts. `JoinBlocks` shows that a part without a
  repetition, all of whose phases come before those of the next one, may be put
  before it; `ComposedPhases` uses it four times.
* `TypeCorrect`: the drives still in the buffer and those listed are together at
  most `required`. It needs that a list of drives in the order of their letters has
  each once (`AscendingLists`), since the drives are as many as the letters.

`LegacyScanProofs`, from `DiskAssumption` (types; a limit above 0), `TreeAssumption`
(without its junctions the disk is a tree) and `NamesAssumption` (different names
have different places in the order): all four safety properties of the run, for any
roots however they overlap. Windows justifies `TreeAssumption`: it makes no hard
links of folders. A junction is a folder that lists what another one lists, and
may itself be offered as a root.

* `EachFolderOnce`: that no folder is counted twice under one root follows neither
  from the limit nor from a test, for the code keeps no set of visited folders.
  `QueueInv` is why: whatever is counted or queued, except the root itself, is no
  junction, lies deeper than the root, and was found in a counted folder. So a
  folder about to be queued that is known already would lie in two folders or
  above itself (`FreshChildren`).
* `OnlyWhatIsDue`: what is counted or queued is reached by the scan of its root,
  and a path is added only when it is new.
* `AllThatIsDue`: completeness says nothing before the end, so `FoundInv` says it
  of the root being scanned: while nothing was missed, whatever lies in a counted
  folder is in hand, known or found. When the queue is empty the counted folders
  are closed but for the folders dropped for their length, hence contain all that is
  reached without those (`RootLeft`), and `DoneInv` keeps
  that for the roots that are done. A limit met exactly is a miss in this sense, for
  the program cannot tell it from one that cut the scan short. That sorting loses
  and doubles nothing is `SortedPermutes`: names with different ranks give
  different places.
* `TypeCorrect`: the limit holds over all roots together.
* `ProgramRunsOut`, for finitely many folders and files: every step of the program
  makes `StepsLeft` smaller, which is fixed by the roots offered and the limit. The limit is
  what makes it finite: a queue that knows no visited folders does not.

`CertificatesProofs`, for any finite or infinite set of certificates and any dates
(`ConstantsOK`): `ReadingsTruthful`, `AttentionFirst`, `NothingLeftOpen`. The
invariant says of a listing in progress that the store holds what was installed
and is not listed yet, that the listed differ, and that each reading was so at an
instant in the history. For the order, the places before an entry are a subset
of those before every entry with a larger priority, so their number is smaller.

`LibraryProofs` shows that every behaviour of `MCLibrary` is a behaviour of the
part in use, or rests, and carries these three over. It adds the theorems of the
smaller parts. `ExactlyTheSensitive`, for texts of any length: the invariant adds
that the flag is set exactly when the last word was kept and is a keyword.
`BlockedOnlyOnFacts` and `NewFactsNeverExcuse`, from the invariant that what was
not collected has its default. `RepairMovesForward`; `FirstObservationsDecide`, for lists of any
length; `ReadsBack`, whose invariant says which members, names and errors the
text may have after each set of alterations and what its version converts to, for any
modulus above 2 (`ModulusAssumption`); `AsksOnlyWhatIsAllowed`;
and `NothingLeftOpen` of the signature test.

Only model-checked: what is stated under fairness (`Ends` of both searches, the second as `ScanEnds`,
`OperationsEnd`, `ClosesUnlessParked`, `RepeatedCancelReleases`, `CallsReturn`),
which is beyond the prover, as is `ENABLED`; and facts by induction over data. For
both `Ends`, `CallsReturn` and `ClosesUnlessParked` the decreasing number is proved;
what TLC alone shows is that no state before the end is stuck and that the
fairness makes the steps happen. For `OperationsEnd` nothing of the kind is proved.

## What is left out

Texts, layout, DPI and fonts; message boxes and their modal loops; the contents of
certificates and of containers (`inspect_pkcs12_container` is a choice of its
answers); progress counts carried by messages; allocation failures; the reveal in
Explorer beyond the choice of the file. Names are values, not characters: equality
of paths ignoring case is equality of values, except in `LegacyScan`, where one
place may have several spellings. Windows itself (service manager, WinSCard, drive
list, file system, condition variable) is modelled from how the code uses it. A
path whose identity changes between two looks, and a file that gets a second
identity because it cannot be opened (`src/search.cpp:35`), are not modelled.

Of the library: the wording and the counts of the summaries (`src/ui_model.cpp`)
and the layout of the report, the two masks `mask_identifier` and `mask_path`, the
fields a document copies as they are, the straight line of Windows calls behind
`detect_windows_platform`, names, serial numbers, usages and providers of
certificates, addresses and error codes. A store is the one of the instant at which
it is opened, as `CertOpenStore` gives a view of it. The table of profiles has one
entry and product information is a constant. Nothing of this holds state or decides
about what a property here tells apart.

What could be added: a model of a path whose identity changes between two looks.

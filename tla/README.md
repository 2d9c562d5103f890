# A verification development for MLPerf Client

MLPerf Client downloads models and inputs, prepares the execution providers of
several hardware vendors (IHVs), and runs language-model and image benchmarks
through them, from a command line program or a Qt program over one library
(`src/src/CIL`). This directory holds TLA+ modules for the parts of it whose
difficulty lies in the order of events, TLC configurations that check them on small
instances, and TLAPS proofs of what holds for every instance. Sections: 1 the
system, 2 modules and code, 3 runs, 4 fairness, 5 proofs, 6 disagreements and other
things found, 7 not modelled, 8 what is left. In this text a source path is below
`src/src/CIL` unless it starts with `src/`.

## 1. Inventory of the system

| Part | State it keeps | Operations | What makes it correct |
|---|---|---|---|
| Task scheduler (`task_scheduler.cpp`) | queue of functions, one thread, flags completed and canceled, a condition variable | ScheduleTask, ExecuteTasksAsync, CancelTasks, Join, wait for completion | each function begins at most once, in order; the thread ends; nothing begins after a cancel |
| Progressable task (`progressable_task.h`) | an atomic status | read by the tracker, stored by Run and by Cancel on different threads | a status the tracker has passed stays final |
| Progress tracker and handlers (`progress_tracker*.cpp`, `src/src/gui/gui_progress_tracker_handler.cpp`) | list of tasks, index, quiet flag, the interrupt flag, the console's mutex | StartTracking, Update, RequestInterrupt, StopTracking | the index ends at the end of the list; the mutex is given back |
| Runner (`benchmark/runner.cpp`) | scenarios, stages, the handler | Run, ReportProgress | returns; hears the user; joins what it started |
| Download stage (`benchmark/download_stage.cpp`) | storages, retrieved paths, plan of the sizing sweep, error message | CheckDiskSpace, RunStorageTasks, ClearCache | no local of the call is used after it returned; a failure is reported; true means everything is there |
| Storage task, Storage (`storage_task.cpp`, `storage.cpp`) | status, result path; the current Downloader | Run, Cancel; FindFile, FindFileWithUrl, StopDownload | a failure is not hidden by a cancellation; what is handed out is what a transfer delivered |
| Downloader (`downloader.cpp`) | temporary file, byte counter, has_failed, stop_download, a progress thread and one thread per chunk | operator(), StopDownload | the destination only ever holds the whole file; the call returns |
| URL cache, plan cache (`url_cache_manager.cpp`), disk space tracker (`disk_space_tracker.cpp`) | url_cache.json; static validation and size caches; planned bytes per volume | add, validate, clear; plan, complete, check | what is recorded is the hash of a file as it was delivered; a later run finds it; sums neither wrap nor count twice |
| Unpacker (`unpacker.cpp`) | files beside an archive, files in the dependencies directory, detached threads | UnpackAsset, UnpackFilesFromZIP | what is handed out is whole; what is whole is left alone |
| Preparation stage (`benchmark/preparation_stage.cpp`) | prepared entries, prepared and failed names, device counts | Run | an entry becomes one prepared entry for each device asked for; true means something is prepared |
| Benchmark stage (`benchmark/benchmark_stage.cpp`) | a scheduler and a tracker per group, executors, results | Run, BenchmarkTask | every prepared entry runs once with its model; the group ends before its data dies |
| Executors (`llm/`, `image/`) | status, plugin handle, results | Run, Cancel | every path ends in a final status with the plugin released; a success covers all prompts |
| IHV plugin interface and subprocess (`api_handler*.cpp`) | plugin library, or a child process with channels for commands, answers and logs | Setup, Init, Prepare, Infer, Reset, Deinit, Release, EnumerateDevices; Start, Stop | an answer belongs to the command it is taken for; the child ends; nobody waits for ever |
| Results logger and history page (`benchmark_logger.cpp`, `src/src/gui/controllers/results_history_page_controller.cpp`) | results.json, the rows shown | append, read, delete rows | what was appended and not deleted is shown, and stays |
| Graphical program (`src/src/gui/controllers`) | benchmark thread, interrupt flag, status, posted calls | enumerate, run, cancel, clear the cache, quit | no thread is deleted under its function; "Succeeded" is true; nobody waits for ever |
| IHV plugins of the vendors (`IHV/WindowsML`, `GGML`, `NativeQNN`, `OrtGenAI`, `OrtGenAI-RyzenAI`, `NativeOpenVINO`, `MLX`, `Diffusers`, over `common`) | inference object, pointers to runtime objects, an error message, a buffer of results; devices, a model's genai_config.json, the process's registration of providers, a Python interpreter | the API of IHV.h | a model reported as loaded is there and as asked for; a run begins clean and hands out its own results; a failure is over once the model is unloaded |
| Command line program (`src/src/CLI/main.cpp`, `system_controller.cpp`) | interrupt flag, the CSV file; through the runner: scenario, stage, was_error, results in memory, error message of a stage | Config, Run with its callbacks, DisplayResultsStage, the SIGINT handler | Run's answer is so; each result is shown once, in its own table or, after a failure, the next |
| Configuration, data verification, system information, power and accuracy tools | see section 7 | | |

**How they interact.** A *stage* runs on the runner's thread (the GUI runs the whole
runner on a QThread). It fills a TaskScheduler with lambdas and a ProgressTracker
with tasks, then calls ReportProgress, which starts the scheduler's thread and polls
the tracker, waiting on the scheduler's condition with a timeout. A signal
handler or a button sets the interrupt flag; ReportProgress polls it and asks the
user. A lambda of the download stage runs StorageTask::Run, which asks its Storage,
which consults the URL cache, replaces its Downloader and runs a transfer that itself
starts threads. A lambda of the benchmark stage runs an executor, which drives a plugin, in
this process or through two channels in a child. A cancellation goes the other way, from
any thread: the scheduler's flag, then every task's status, then what the task holds at
that moment. The benchmark thread of the GUI posts calls to the GUI thread, and waits for
some; the GUI thread at times waits for the benchmark thread. Between runs, everything
meets in files: downloads and url_cache.json, unpacked files, results.json.

**What is hard.** Atomic statuses read and stored by two threads without a
lock around the pair; functions that capture locals of a frame that must outlive
them; a batch that is cancelled by one of its own tasks while the user cancels it
too; many retrying threads over one counter, one failure flag and one file; polling
loops whose exit depends on another thread's last store; answers without numbers
on a channel; threads left to go on after a timeout; two threads that wait for each
other's calls; files rewritten in place by a process that may die. `PROJECT.json` lists each
hazard with its line and the properties that watch over it.

## 2. Modules and code

| Module | Code | What it holds |
|---|---|---|
| `ProgressableTask` | `progressable_task.h` | the statuses and the final ones |
| `TaskScheduler` | `task_scheduler.cpp` | the scheduler's state, one action per operation and per step of its thread |
| `ReportProgress` | `benchmark/runner.cpp` (ReportProgress), `progress_tracker*.cpp`, both handlers | the polling loop of a stage's thread, over TaskScheduler |
| `TaskBatch` | nothing: an abstract specification | what a stage promises about a batch of background tasks |
| `DownloadTasks` | `benchmark/download_stage.cpp` (RunStorageTasks), `storage_task.cpp`, `storage.cpp` | one call of RunStorageTasks, over ReportProgress |
| `Preparation` | `benchmark/preparation_stage.cpp` | which entries are usable, on which devices |
| `BenchmarkStage` | `benchmark/benchmark_stage.cpp` | Preparation and Benchmark of one scenario, over Preparation and ReportProgress |
| `ChunkedDownload` | `downloader.cpp` | one call of Downloader::operator() for an http(s) URL |
| `DownloadCache` | `url_cache_manager.cpp`, `disk_space_tracker.cpp`, `storage.cpp`, `downloader.cpp`, `benchmark/download_stage.cpp` | what the download stage keeps between passes, across crashes and versions |
| `Unpacking` | `unpacker.cpp` | archives and built-in files, across timeouts, crashes and versions |
| `PluginSession` | `IHV/IHV.h`, `api_handler*.cpp` as their callers see them | the calls of a plugin, in what state each is in order |
| `Executor` | `llm/`, `image/`, `base_inference.cpp` | Run and Cancel of one benchmark task, over PluginSession |
| `IhvSubprocess` | `api_handler_ipc*.cpp`, `api_handler.cpp` | a plugin in a child process, over PluginSession |
| `VendorPlugin` | `common/IHV_handler_class.h`, `common/base_inference_common.cpp` | what the vendors' plugins share: the handler, the message, objects and pointers |
| `WindowsMLPlugin` | `IHV/WindowsML/src` | sessions with Windows ML: devices, models, configurations |
| `LlamaCppPlugin` | `IHV/GGML` | llama.cpp: dispatcher, layers that fit the GPU |
| `NativeQnnPlugin` | `IHV/NativeQNN` | Qualcomm's Genie: dialog, libraries, token buffer |
| `OrtGenAIPlugin` | `IHV/OrtGenAI`, `IHV/OrtGenAI-RyzenAI` | ONNX Runtime GenAI, with a generator for each run or one that is replaced |
| `OpenVinoPlugin` | `IHV/NativeOpenVINO` | OpenVINO, text and images |
| `MlxPlugin` | `IHV/MLX` | MLX, text and images |
| `DiffusersPlugin` | `IHV/Diffusers` | Python's diffusers in an interpreter of the process |
| `Plugins` | `IHV/*` behind one interface | all of them, one library in each behaviour, under any client of PluginSession |
| `ResultsHistory` | `benchmark_logger.cpp`, `src/src/gui/controllers/results_history_page_controller.cpp` | results.json and the history page |
| `CommandLine` | `src/src/CLI/main.cpp`, `src/src/CLI/system_controller.cpp`, `benchmark/runner.cpp` (Run), `benchmark/data_verification_stage.cpp`, `benchmark_logger.cpp` (results in memory) | the command line program from its options to its exit, over several scenarios |
| `GuiSession` | `src/src/gui/controllers/benchmark_controller.cpp`, `app_controller.cpp`, `realtime_page_controller.cpp` | the GUI thread and the benchmark thread |
| `DownloadTasks_proofs`, `BenchmarkStage_proofs`, `GuiSession_proofs`, `CommandLine_proofs`, `Unpacking_proofs` | | theorems about the module of that name |
| `Downloader_proofs` | | theorems about ChunkedDownload and DownloadCache |
| `Results_proofs` | | theorems about Executor and ResultsHistory |
| `IhvPlugins_proofs` | | theorems about IhvSubprocess and Plugins |
| `MC...` | | instances for TLC |

DownloadTasks, BenchmarkStage and Executor meet in the status of a task: Executor has all
of what happens to it, BenchmarkStage the same as seen by the scheduler and the tracker
(`BeginTask` to `EndThread`). DownloadTasks has the two threads of one pass of the download
stage, DownloadCache the files and tables over many passes. CommandLine has the stages as
their answers, and what one scenario leaves to the next. Variants named
`X_Something` next to a definition are that definition with a plausible mistake in it;
nothing but the mutation runs uses them.

### TaskScheduler and ReportProgress

Tasks are numbered in the order they are scheduled and walked, so the queue is the
*set* of tasks not yet popped (its front is the least one), the tracker's list is the
set `tracked`, and the tracker's index is the set `shown` of tasks before it.
`thread` is the scheduler's thread: "loop" at the loop's head, "task" inside a
function, "ended" when its function has returned and Join would return. TakeTask is one turn under
queue_mutex_; StopLoop leaves with whatever is still queued. EndTask stands for a
function that returned *or threw*: the code catches, logs and goes on.

`main` is the stage's thread. StartReport is StartTracking plus ExecuteTasksAsync;
Update is the loop condition and HandlerBase::Update (one final task a tick, a whole
row of them when the tracker is quiet); PollInterrupt is the wait with its timeout
and the read of the flag; AcceptInterrupt and DeclineInterrupt are the user's two
answers; JoinAndReturn joins, stops tracking and returns true. `Handler` is the
handler the runner has: the CLI's on a stream ("plain") or a console, or the GUI's,
which differ in whether they hold the console's mutex. (Without a handler the loop would
never end, for nothing would move the tracker; no program here makes such a runner.)

### DownloadTasks

One step of a thread is one access to memory the other thread reads, so the races of
the code are interleavings of the model:

* `RunEntry` reads the status, `SetInitializing`, `CheckStorage`, `StoreResult` store
  it without looking, as StorageTask::Run does;
* `CancelCheck` reads the status, `CancelStore` stores kCanceled whatever it has become,
  `CancelStop` stops the Downloader the task's Storage holds *now*; both threads may be
  inside cancelStorageTasks (`todo`, `cancelStep` are per thread);
* `FindFile` replaces the Storage's Downloader. The stage's thread reads the same
  shared_ptr unprotected (`storage.cpp:208` against `:322`), a data race: the model
  lets the reader see the old or the new one, the two outcomes the pointer can have;
* `AfterRun` is the lambda after Run: a failure cancels the batch, a completed
  download is taken off the plan, and what remains planned may no longer fit the disk;
* `AddStorageTask`, `StartStage`, `Precheck`, `RemoveSkippedTasks`, `PostProcess` and
  `ReturnInterrupted` are the stage's thread before and after ReportProgress.

What the file system, the network and the user answer is a free choice. `mode` is the
download behaviour of the configuration, or "sizes" for the sweep that only asks for
sizes.

### ChunkedDownload

Each chunk's thread runs `FailFast`, `OpenFails`, `Request`, then pieces of the body
(`Receive` writes a piece into the shared file and counts it), then the end of
the exchange (`Reply`, `ReceiverStops`, `GetFails`), then `Complete`, `Revert` or
`GiveUp`. `Revert` keeps the code's distinction: a full disk gives up and sets
has_failed, another failure tries again, and after the last try the function just
returns. The progress thread is `Sample` and `Notify`; the caller is `Head`,
`JoinChunks`, `JoinSampler`, `Decide`, `Rename`. A position of the file is a hole, right
or wrong; a reply is the range asked for, an error page or the whole file. `honest` remembers
whether every reply was 206 and every file could be closed. The single
stream, used when a server has no ranges, is one step of `Head`.

### DownloadCache

A *pass* is a sweep that collects sizes, a run or a clearing of the cache; passes follow
one another in a process that `Crash` may end at any step and `Start` begins again, as the same
version or a newer one. A pass is over the tasks of one scenario (`scenario`, out of the constant `Scenarios`), the
tables are those of all of them. The tasks of a pass run one after another, as the scheduler's thread
runs them; a step is one change of a file or of a table. Contents are the URL they
came from and how much of it they hold: all, all but what the last flush could not put on the disk (`ShortFile`), or
some. So a hash is compared by comparing contents; a modification time is a flag that says whether the session's answer for the file still
stands (`Touch`). `CheckTask` is Storage::FindFile, `SizeTask` what a sweep asks,
`BeginFetch` to `Replace` a download to `.tmp` and its rename or the copy of a local file straight into
its place, `Record` and `Evict` AddUrlToCache, `OpenCacheFile` and `WriteCacheFile` the two halves of
rewriting url_cache.json, `AfterTask` the lambda with the disk space tracker. `Disturb` is
somebody who damages or removes a file between passes, `TakeSpace` another program.

Errors of files are steps too, each counted in `faults` (`Mishap`) and bounded by `MaxFaults`. url_cache.json cannot be opened
by `Construct`: the table is empty, without a word, and the next store writes over what was there (`blind` remembers such a
pass). It cannot be opened for writing (`OpenCacheFile`), or its write fails (`WriteCacheFile`): the entry is in memory
only. A file cannot be read for its hash (`Record`). Its last bytes are lost when a copy is closed, after
the stream was tested, or when a chunk's file is (`Delivered`); on a full volume this takes no further error. `unsaved` remembers the tasks
of a run that are without a matching entry in url_cache.json. A transfer that reports a failure may always do so, and a crash needs no error.

The properties speak of tasks that have their URL and destination to themselves in the scenario (`Alone`), where the
code's tables are keyed by one of the two, and a promise for later processes is made for URLs with one destination (`Single`);
`PlanIsRight` says when the sizes a run was planned with are the true ones. Section 6 has what happens otherwise.

### Unpacking

`UnpackAsset` to `ExtractEnd` is a built-in file, with the list of files this process has
unpacked, the comparison of sizes and a stream nobody looks at. `StartWorker`,
`WorkerAnswers` and `WaitTimesOut` are UnpackFilesFromZIP: after a timeout the thread is
*not* stopped. A thread runs `Examine`, `OpenFile`, `WritePiece` and `CloseFile` for each entry,
or `EntryFails`; two of them over one file each have their own position in it (`Put`).
A file is a sequence of pieces, each of some version or a hole. `End` is the end of the
process at any moment, `Start` the next one, the same version or a newer one with other
files. The history variables `clean`, `alone` and `scarred` say whether a thread left a file
unfinished, and whether it had the files to itself.

### Executor and PluginSession

An executor reads a few input files. What one asks for is done in *groups* of *tasks*: a
group is a prompt, its tasks the warmups and iterations of it; for an agentic
scenario a group is one iteration and its tasks the turns of the conversation. `job`
says which of the three kinds (text, agentic, image) is run over how many prompts, and
what may be skipped; the constructor having failed is part of Init.

`at` names the place of Run; a step is one call of the plugin or one access to the
status. `Prologue` is Run up to the first input, `NextInput`, `Tokenize`, `BeginGroup` and
`EndInput` the loops, `Load` the four places a model is loaded or unloaded at, `RunTask`
one turn through Prepare, Infer and Reset with `check_error` after each, `Judge` what
becomes of a group, `Epilogue` the end, including the inference's destructor
(`ReleasePlugin`). `Cancel` is two steps of another thread, a test and a store.

Three details of the code carry the properties, so the model keeps them exactly:

* the error message of the wrappers and the plugin's log (`message`, `logged`) stay
  until somebody clears them, at different calls for text and images (`Clears`);
* after a skipped group the model is loaded again and the outcome is looked at by
  nobody (`RetryInit`): only the message that Init left keeps the next inference away;
* `check_error` records only the first message of a group, and a plugin may answer
  nothing without any message (`empty`).

`PluginSession` follows the order of calls in IHV.h. A call that is not in order makes the
plugin "misused" for good. Prepare after a failed Init is tolerated, since the
image executor does that; a Release over a model nobody unloaded is "leaked".

### IhvSubprocess

The caller (`Send`, `Take`, `Timeout`, `Stop` to `StopProcess`), the thread that empties the log
channel (`ReadLog`), and the Client in the child (`Connect`, `ReadCommand`, `WriteLog`, `SendToken`,
`CallPlugin`, `Leave`), over three channels of which the log's has room for `LogRoom`
messages. `plugin` is the plugin as the child drives it, `view` the same plugin as the caller
believes it to be from its answers (`Believe`). Messages carry the number of their
command as history only: no guard looks at it, as the code's messages have none. The child
may hang, crash or be left idle; the parent may die. `InOrder` has the callers of API_Handler: a session,
the probe of CanBeLoaded (`Probing`) and the list of devices (`Listing`), each with a child to itself.

`platform` is chosen by Init and is the build: Unix sockets or named pipes. They differ in four places. A child
on Windows may still be connecting when Start has returned (`Connect`), and a command sent to it fails
(`CanWrite`). A log message that finds no room is given up after a timeout on POSIX, and the channel closed
(`GivesUpLog`); the pipe of Windows is synchronous, so the child waits. A dead parent breaks a socket; the log
pipe it does not break, as the child has inherited both ends (`LogFits`). StopProcess on Windows goes straight from
the wait to the kill (`Kill`).

### VendorPlugin, Plugins and the vendors

The client is PluginSession itself: `Reply(kind, good)` lets the plugin answer any call that
is in order, so these modules are an environment for the plugin where Executor and
IhvSubprocess have the plugin as theirs. What the vendors' libraries answer is free.

`VendorPlugin` is the handler: `SetupObject` makes the inference object or leaves it null with a Setup that has
succeeded all the same, `Handle` passes a call on and answers by whether the object has a message afterwards,
`Unhandled` is a call without an object or with settings that do not parse, `ReleaseObject` the end. Objects of a
library are names, in `owned` while alive and led to, in `dangling` where a pointer leads to one that was destroyed;
`Assigned` overwrites a pointer. `dirty` and `output` say whose tokens the model's context holds and whose results the
buffer handed out. The history variables `lost`, `reused` and `failedInit` remember what a session lost, what it used
after it was destroyed, and whether an Init failed. A vendor's module has its object's five operations and states
a promise (`Serves`) of what its sessions keep. `Plugins` fixes `library` in Init, lets that vendor's steps happen
(`UseWindowsML` to `UseDiffusers`) and begins session after session: `NextSession` after a Release, `ProcessDies` where the
process ends or crashes at any moment before it, with what that leaves on the disk. Windows ML has both for itself.

* *LlamaCppPlugin*: a model that does not fit is loaded with as many layers as do, which `DeducedLayers` finds by the
  code's bisection (`Bisected` is one turn of its loop), less two (`SafeLayers`). `Serves` compares that with what the memory takes.
* *OrtGenAIPlugin*: `Configures` changes the model's genai_config.json and `Restores` puts it back; the file outlives
  the process. Nobody looks whether a writing worked: the file may stay as it was or end up torn, which no later Init can
  read. `FilesLeft` is what a process that dies leaves of it, and `spoiled` remembers that the file was not put back.
* *OpenVinoPlugin*, *MlxPlugin*: `scenario` is text or images, two objects with rules of their own.
* *DiffusersPlugin*: `python` is the interpreter, started once in a process, and whether it has the scripts.
* *WindowsMLPlugin*: `API_IHV_Setup` is the constructor: it registers the
  providers once in a process (`EnsureAndRegisterEPs`), lists devices
  (`DetectWindowsMLDevices`, with the devices it presumes for a provider that reports none) and
  keeps the object only if there is one. `API_IHV_Init` finds the device by
  number, a model for it (`AssignModel`, whose loop gives up at the first device that is available and
  has none: `Abandoned`; then the device keeps the model it had, `assigned`), adapts the model's configuration
  (`SetupGenaiConfigForEP`, `Adapted`) and makes the objects in
  `owned`. `API_IHV_Infer` makes two more, and a run that fails leaves them and its message
  behind; `API_IHV_Deinit` (`Unload`) clears both, and may leave the message of a model that could not be destroyed. Of a
  configuration the model keeps the two options that differ between sessions, the device's type and
  `enable_causallm`, and whether it parses (`whole`): writings (`Rewrites`) are not looked after, so that a file may be
  torn, or left as it was because it could not be opened (`slipped`). A model whose options are `nested` below the place
  where they are looked for is found and loaded, but its file is neither adapted nor backed up. Names and LUIDs of devices and lengths of sequences are left out. A request always names
  a type: with none, API_Handler::Setup refuses the plugin.

### Preparation and BenchmarkStage

`LoadEp` unpacks and loads one entry, `VisitLibrary`, `CheckEntry` and `EndLibrary` are the
enumeration of devices library by library, with the count of devices kept for all entries of
a library, and `EndPreparation` the result. `Prepare` of BenchmarkStage leads from one stage to
the other. `SkipModel`, `AddExecutor`, `EndModel` and `EndBuild` are the two nested loops that
make executors and groups, `NextGroup` to `GroupReported` the groups one after another through
ReportProgress, `BeginCancel` to `ReturnInterrupted` an interrupt; `BeginTask` to `EndThread` the
scheduler's thread inside an executor and the report of its result. The refinement mapping to
`TaskBatch` counts the tasks of later groups as waiting (`Pending`). `AddExecutor` makes at most `N` executors, the
number of tasks the modules share; an instance takes `N` large enough for every list of prepared entries.

### GuiSession

`posted` is the event queue of the GUI thread; an entry is a call the benchmark thread posted,
with the thread it stands for. `Deliver` takes the front of it; a call that is awaited holds the
thread (`at` = a place of waiting) until it was delivered and, for the question about the size of the
download, answered. `User` are the buttons that the windows allow at that moment (`Free`):
Start, Cancel, Clear cache, Quit, the buttons of popups. `Waiting` is the GUI thread inside
QThread::wait, where it delivers nothing; `AfterWait` what follows. The benchmark thread runs its
configurations through sweep, stages and enumeration.

A finished signal is a call that names its thread and what it was made for, because its slot works on
`benchmark_thread_`, whatever that is by then: the thread's own object (`DeliverFinished`), a
newer thread's, which it then has deleted by a call of its own (`DeliverStaleFinished`, `DeliverDelete`; the
program aborts if that thread runs), or null (`DeliverFinishedOfNone`, which may crash). Two clicks lead there, and
`meddled` remembers them: Clear cache before an enumeration is known to have ended, which the loading
widget does not block, and the button that closes the popup of a clearing. `QuitsInSweep` lets the user quit
while a run's thread waits for the GUI thread; that is the run `GuiQuit`.

### CommandLine

`LeaveEarly`, `MakeController`, `ConfigFails` and `ConfigDone` are main up to the runner;
`EnterStage`, `RefuseStage`, `Pass` and `Fail` the two nested loops of BenchmarkRunner::Run with the
controller's two callbacks. A stage is its answer (`StagePasses`, `StageFails`, `VerifyData`, `EndBenchmark`,
`StageThrows`) and what it leaves behind: `SetErrorMessage` the message of the download stage, which nobody
clears, `EndExecutor` a result in the logger. Executors run on the scheduler's thread, so they also end while
the user is asked (`RequestInterrupt` to `AcceptInterrupt`) and while the stage waits for them
(`StopStage`). `DisplayResultsStage` shows the results kept so far, of those that agree in model, device type and
provider (`Key`) the latest (`Latest`), writes the CSV file anew and clears them. The history variables
`made`, `shown`, `displayed`, `failed`, `accepted` and `troubled` remember what happened, for the
properties. `MaxMade` bounds the results.

### ResultsHistory

results.json is a sequence of lines, a line a sequence of whole or torn results: a line that
never got its newline goes on with the next result (`Write`, `AppendPart`). `ReadResultsFromFile` skips
what it cannot parse. `OnDeleteHistoryRequested` erases rows of the page and lines of the file by the
same numbers, and rewrites the file (`WriteBack`). The rewrite may be cut short: the process dies (`DieInRewrite`), or a write fails,
that of a line or the last one of the buffer when the stream is closed (`RewriteFails`); nothing looks at the stream, so the program
goes on with a page whose rows the file has lost. The file may also not be opened, to be read (`LoadHistory`: the page is empty), to be
deleted from or to be rewritten (`DeleteFails`: the file keeps the rows). `astray` remembers that since its last reading the page has
parted from the file in one of these ways, `wrecks` that lines were lost, and `misled` that rows were deleted from a page that was not the
file. A line counts as written when it is in the file: what is in the stream's buffer when a write fails is not yet written back.
The appender of log4cxx is used as configured in `src/data/Log4CxxConfig.xml`: one line a result,
appended and flushed.

## 3. Runs

| Run | Instance | What it shows |
|---|---|---|
| `DownloadTasks` | 3 tasks, 2 storages (one shared), all five modes, the console's handler, a task that may throw, transfers that may stay open for ever | The call returns with no thread, no cancellation in progress, the console free and no task left active but one that threw (`ReturnIsClean`); what the tracker concludes from the statuses is right (`TrackerIsRight`); a failure stops the batch before the next task looks for a file; a final status does not change until the user's interrupt is accepted; the call refines `TaskBatch`; it returns and its thread ends unless a transfer stays open for ever or a task threw, and it hears the user even then (`ReturnsAndHears`) |
| `ChunkedDownload` | 2 chunks of 2 pieces, 2 tries, every reply, any 3 faults | while the server honours ranges and files can be closed, only the whole file reaches the destination and bytes counted are in the file (`FileIsAsTold`); the call returns unless a chunk has used up its tries, and always when it is stopped (`CallEnds`) |
| `DownloadCache` | 3 tasks in two scenarios, two of them with one destination, one a local archive; 2 versions; 1 error or interference, any crashes | what a run hands out is what a transfer that reported success left; no two URLs are recorded for one path, what is recorded is the hash of such a file, what a run obtained and could record stays obtained, and only an error of a file leaves one unrecorded (`CacheIsSound`); with the right sizes the preflight check is enough, and a run that ends well has every file (`RunDelivers`); every step of a pass brings it nearer to its end (`PassAdvances`) |
| `Unpacking` | 2 versions of an archive of 2 files and of a built-in file, 2 calls a process, a timeout, a lost write, 2 ends of a process | what is handed out is whole (`UnpackedIsWhole`); what is whole is left alone (`LeavesWholeAlone`) |
| `Executor` | files of 1 and 2 prompts, or two conversations of 3; 2 iterations and 1 warmup; all kinds, required files and skipping policies | plugin calls in order; success and kCompleted mean that every group was measured or rightly skipped; the progress never passes its end and a successful run reaches it; overall results only over measured prompts and a message for every failure (`ResultIsHonest`) |
| `IhvSubprocess` | sockets and pipes, 7 commands, 2 tokens, room for 1 log message, 1 timeout | answers belong to their commands and the caller's view of the plugin is true until an answer comes too late (`CallerSeesPlugin`); the child ends before Stop does, with its plugin released or by being killed (`EndsClean`); Stop, a command and an orphaned child all end (`NobodyWaits`) |
| `BenchmarkStage` | 3 entries, two of one library, 0 to 2 devices; 4 requests of devices; 4 scenarios of overridden models | every prepared entry stands for a device that was asked for and is run once, with its model, and true means every result was reported (`ScenarioIsRun`); the stage returns; the groups together refine `TaskBatch` |
| `GuiSession` | 2 configurations, 4 benchmark threads | the finished signal of a thread meets no other thread, unless the user cleared the cache during an enumeration or closed the popup of a clearing (`NoThreadLost`); whatever he does, a run is called a success only if all of it was one (`SuccessIsWhole`); whoever waits for the benchmark thread goes on (`StopReturns`) |
| `ResultsHistory` | 5 results, 2 torn lines, 1 rewrite cut short by a death or a failed write | the file holds what was appended and not deleted, but for one result spoilt by each torn line and what the rewrite lost, and the page shows the file unless it could not be read or a deletion failed (`KeepsResults`) |
| `Plugins` | eight libraries, any number of sessions; any one or more of them ended by the death of the process, within a writing too; a machine with two GPUs and an NPU, 3 models, one with nested options, 7 requests; a model of 5 layers of which 0, 3 or all are wanted, memory for none to all | with every vendor, a model reported as loaded is there (Windows ML: for a device that was asked for, with a configuration that parses and, unless its options are nested or it could not be opened, is adapted; llama.cpp: with the layers that fit); a run begins without an earlier one's message or tokens, and hands out its own results; what an unloading mends, and what is lost or used after it was destroyed, is as each vendor's `Serves` says (`ServesSession`) |
| `CommandLine` | 3 scenarios, 3 results of 2 keys, every combination of the options that matter | Run says true only if every scenario came to its table and none was broken off or stopped; a result is shown once, in its own scenario's table or the first after a failure; the CSV file holds one table's results; the message printed is from the last download stage that had one (`RunIsHonest`) |
| `GuiQuit` | 1 configuration, the user may quit while sizes are collected | violated: whoever waits for the benchmark thread goes on |

Every run but the violated one also checks the module's type invariant (`TypeOK`; `CacheTypeOK`, `HistoryTypeOK` and
`PluginsTypeOK` in the modules that are proved about together with another).

**Bounds and why they are enough.**

* *DownloadTasks.* Three tasks give one that is done, one in progress
  and one still queued, each with its own Storage or sharing one, chunked or not, skippable
  or not, zipped or not, needed or not: every guard that mentions another task has one to
  mention. One of the two that share a Storage may throw. The proofs hold for any number, and any
  set of tasks that throw. Tasks are ordered, so there is no symmetry to use.
* *ChunkedDownload.* Two chunks of two pieces let one thread be in the middle of a chunk while
  the other has failed, been reverted or finished. `MaxTrouble` = 3 faults exhaust the two tries
  of one chunk and leave one for the other, or for the rename. (3 tries with every fault at
  every try, and 5 faults here, were checked too.)
* *DownloadCache.* Two scenarios have a file in common and differ in one that takes the other's destination. Sizes 2, 2
  and 1 on a volume of 5 are where the preflight check decides: two files and the scratch of the larger just fit,
  a third or the file of another scenario does not. One error of a file or interference (`MaxFaults`) at each moment, crashes without
  limit; disturbances come between passes. The proof holds for any tasks, scenarios, sizes and faults.
* *Unpacking.* The new version's first entry is longer than the old one's, the second as
  long; the built-in file gets shorter. Two calls give two threads over one file. (A third
  call and a second timeout were checked too, with one end of the process.)
* *Executor.* A group may fail first, in the middle or last of its input, at each of its
  tasks, with another input before or after it, and the model may be changed between the two
  or not; Cancel may come any number of times.
* *IhvSubprocess.* Seven commands are a session with one inference, its Reset, the unloading and the release; one
  message of log room makes the log channel full at once. `late` counts answers that came after
  their command was given up.
* *BenchmarkStage.* `MCRequests` has no request, a device by number, all devices and a
  pinned device, with and without enumeration; `MCScenarios` no override, an override with another
  display name, with the same, and with the same content.
* *Plugins.* Of five layers the bisection takes both ways at each of its steps, and the margin of two is cut off at zero or not;
  9 wanted are more than there are. The proof holds for any number. For Windows ML the requests are a GPU for plain and for agentic scenarios (two sessions that
  share a model's configuration), the second device of a vendor and of a type, an NPU, a provider
  whose devices come last, and one without a model; every subset of providers may be ready, and every
  subset silent about its devices. Sessions have no bound, and neither have writings that fail, models that cannot be destroyed and
  deaths of the process.
* *GuiSession.* Four threads are an enumeration and three of runs, downloads or clearings.
* *CommandLine.* Three scenarios are one that fails, one that shows what the failed one left, and one
  after it; three results are two with one key and one with another. The proof holds for any number of both.
* *ResultsHistory.* Five results leave one before, between and after two torn lines. The proof holds for any number of all three.

**Deadlock** is checked in every run but `GuiQuit`, where the counterexample is one; the only
stopping states are those in which the call has returned or the program has exited.

## 4. Fairness

* *DownloadTasks*, *BenchmarkStage*: weak fairness of each thread as a whole: the operating system
  schedules both; the user answers a question once it is asked. The user never has to press
  Ctrl+C: `Interrupt` has no fairness. `StallSpec` takes the assumption on transfers away: the
  scheduler's thread is fair unless it is inside a transfer that nobody stops. In BenchmarkStage a
  plugin's calls return. Locks and condition variables need nothing more, since every wait in these
  modules either has a timeout or waits for a thread that has fairness.
* *ChunkedDownload*: weak fairness of each chunk's thread, the progress thread and the caller:
  httplib's 60 s timeouts end every exchange. Which reply or fault comes is not fair;
  StopDownload has no fairness.
* *DownloadCache*: none. That a pass ends is an action property, `PassAdvances`: a number falls with every step of it.
* *IhvSubprocess*: weak fairness of the caller (its timeouts included), of the log thread and of
  the child as a program; strong fairness of `Handle`, the plugin's call coming to its
  end, since the call can be interrupted again and again by its own log messages, and a call
  that neither hangs nor crashes returns whatever it logs. `Hang` and `Crash` have none, so
  a plugin may do either at any moment. An orphan on Windows with a message for a full log pipe is the one that
  need not end (`OrphanEnds`).
* *GuiSession*: weak fairness of the event loop (`Deliver`), of what follows a wait, of the benchmark
  thread, and of the user's answer to a question that holds up a run. No click has fairness.
* *Executor*, *Plugins*, *Unpacking*, *ResultsHistory* and *CommandLine* state safety only. That an executor's
  Run ends needs every call of the plugin to end, which the code does not see to.

## 5. Proofs

The assumptions of all theorems are those on the constants, named in the modules, and what is said
below.

### DownloadTasks

`DownloadTasks_proofs` proves, for every number of tasks, every set of storages and
every choice of modes, throwing tasks, chunked tasks, archives and dependencies:

| Theorem | States |
|---|---|
| `Invariance` | `Spec => []IInv` |
| `TypeCorrect` | `Spec => []TypeOK` |
| `Quiescence` | `Spec => []ReturnsQuiescent` |
| `ShownAreFinal`, `TrueIsEarned`, `TrackerRight` | `Spec => []ShownStayFinal`, `[]TrueMeansNoneFailed`, and both as `[]TrackerIsRight` |
| `FailFast` | `Spec => []FailureStopsBatch` |
| `FinalForGood` | `Spec => FinalIsFinal` |
| `ReturnClean` | `Spec => []ReturnIsClean`, from `Quiescence` and `SettledInv` |
| `Implementation` | `Spec => ImplementsBatch`, the refinement of `TaskBatch` |

A task that threw stays kInitializing or kRunning for good, which is why `ReturnIsClean` leaves those
that may throw out.

**The argument.** None of the properties is inductive. `ShownStayFinal` needs to know that no
thread is about to store into a task the tracker has passed; that depends on where the
scheduler's thread is (`InBody`), on what a status says about who may still store
(`StatusInv`), and on the fact that the scheduler's own cancelStorageTasks, which is the
only one while the tracker is watched, runs after the current task has become final.
`IInv` is the conjunction of

* `TypeOK`;
* `ThreadInv`: how the positions of the two threads constrain each other (a thread
  exists only after ReportProgress started it, is over once the call has returned or
  left the loop, cancellation steps belong to cancelling threads);
* `CancelInv`: who has seen the scheduler cancelled;
* `TrackerInv`: what the tracker's index says where; and that tasks are queued in
  order, which the refinement needs for Submit;
* `StatusInv`: a queued task is ready or final; a task in `shown` is final and not in
  the body of Run; while the tracker is watched the status of the current task follows
  Run's position, and a cancellation that is about to store has just seen a status
  that is not final;
* `FailureInv`: a failure is known to the scheduler before it pops another task.

Each conjunct has a lemma of its own (`TypeStep`, `ThreadStep`, `CancelStep`,
`TrackerStep`, `StatusStep`, `FailureStep`), by cases over the actions that can disturb it.
`ReturnLeavesNoneActive` needs `SettledInv` besides: what the interrupted stage has
visited is final or will be when the current body of Run ends, and the join
waits for that. `FinalIsFinal` is an action property and follows from a step lemma
under `IInv` (`FinalStep`). The refinement maps the queue, the current task,
the scheduler's cancellation and the result; `BatchStep` shows every step to be one of the
batch's or a stutter.

### ChunkedDownload

`Downloader_proofs` proves `Invariance`, `TypeCorrect` and `AsTold` (`[]IInv`, `[]TypeOK`, `[]FileIsAsTold`) for any
number of chunks, pieces and tries, every set of replies and faults and any bound on them.

**The argument.** The counter is a sum over the chunks, and sums take an induction. `CountInv` says instead that it is the
cardinality of a set, `Counted`: the pairs of a chunk and a piece that its thread has counted. A piece received adds one
element, a try that failed takes its pieces away, and what a cardinality does under both the library's theorems say. This
holds whatever the server answers, and bounds the counter. With honest replies `ChunkInv` adds that a thread has
counted a beginning of its own chunk, all of it right in the file, and that a chunk which is whole is not given back. A
piece has a position (`PlaceExists`) and no two have one (`PlacesDiffer`, where `K * P` needs arithmetic with
products); there are as many of one as of the other, so every position is a piece's (`PlacesCover`). `SeenInv` is the
link to the end of the call: the progress thread that ends of itself has read a counter of the whole size, so every
chunk is there (`AllCounted`), and remains so. `CallerInv` carries it over the decision and the rename.

### DownloadCache

`Downloader_proofs` proves of DownloadCache, for any tasks, scenarios, URLs, destinations, sizes and capacity, any crashes,
upgrades, damage and file errors:

| Theorem | States |
|---|---|
| `PassInvariant` | `CacheSpec => []PassInv` |
| `CacheTypeCorrect` | `CacheSpec => []CacheTypeOK` |
| `CacheSound` | `CacheSpec => []CacheIsSound` |
| `PassesEnd` | `CacheSpec => PassAdvances` |
| `Delivers` | `CacheSpec => []RunDelivers` |

The assumption is `CacheAssumption`; what it says beyond types is that tasks of one URL have the same size and
kind.

**The argument, what stays obtained.** A promise is about the file on disk and the entry in url_cache.json, but the next pass
reads that file into memory and later writes its own table over it. So `PromisesHold` says that the entry is in *every* table that may
be written: on disk when it can be read, and in memory as long as a pass over tasks goes on that did not begin blind. `CacheIsStored` is why a pass that
begins with what is on disk and dies anywhere leaves the same there: what is in memory is also on disk, but for the one entry
being stored and those that could not be. `VerdictsHold` is the session's memory of validations: a file called valid is one a transfer
delivered (for `Touch` forgets the answer with every change of the file) and, as long as no file has failed, its entry has not gone, which is what makes a task that was not fetched at all
claimable. `TaskAtWork` says what `Record` relies on: the file at the destination is what was delivered, nobody remembers
the file it replaced, and who was promised that one was promised the same content. `UnsavedByFault` is proved with these: a file taken on the session's word though its entry has gone takes an
error to lose the entry. `OneEntryPerPath` and `EntriesFit` are inductive with these: an entry goes away only with its
path, which for a `Single` URL is that of its file.

**The argument, the end of a pass.** `StepsLeft` is 8 for each task in the queue and the rank of the place the pass is at; `AdvanceStep` goes
through the places.

**The argument, the space.** `SpaceIsLeft` is the invariant of a run: what is used, what is left of the plan and half of the largest
planned file fit the volume, not counting twice the file at work. At the start it is the preflight check; a transfer moves bytes from
the plan to the disk, one file at a time; what the file replaces only makes room. It holds if what a run fetches is on the plan
(`PlanCovers`): each task was asked for its size by the sweep, or is one the session calls valid and that the run will
not fetch. The sums are loops over the tasks; `SumLoop` is their unfolding, and lemmas say what adding or taking away one
task, or changing the bytes of one destination, does to a sum.

### Executor

`Results_proofs` proves of Executor, for every set of plans (any number of input files with any
numbers of prompts), every number of iterations and warmups, every kind of executor and every
skipping policy:

| Theorem | States |
|---|---|
| `Order` | `Spec => []OrderInv` |
| `CallOrder` | `Spec => []CallsInOrder` |
| `SuccessEarned` | `Spec => []SuccessIsEarned` |
| `TypeCorrect` | `Spec => []TypeOK` |
| `OverallEarned`, `FailureReported`, `ResultHonest` | `Spec => []OverallIsComplete`, `[]FailureIsExplained`, and both as `[]ResultIsHonest` |
| `Count` | `Spec => [](CountInv /\ BoundInv)` |
| `Progress` | `Spec => []ProgressExact` |

The only assumption is `ExecutorAssumption`: plans are sequences of numbers, there is at
least one iteration, and the number of warmups is a number.

**The argument.** `OrderInv` says what the plugin has seen at each place of Run. Its
heart is `Ready` and `ReadyForTask`: where a group begins, the model is loaded, *or* it is
broken and the message of the call that broke it is still there. The second half is not
an accident of the model but what the code lives on: take the message away, and an inference on a
model that never loaded follows.

`SuccessIsEarned` needs to know which groups Run has passed, so `WalkInv` first places
input, group and task within their bounds (`PositionInv`, `PlaceInv`), and `SeenInv` says
that the groups measured and skipped are exactly those `Before` the current
one (for an agentic input, those of the inputs before), in every place but the two
between a skip and the next group. `BeforeFacts` has the arithmetic of that: the
next group adds one element, the end of an input none, the end of the inputs all.
`ResultInv` adds what `skippedRequired` and the error message know. Types are proved one
variable at a time over all actions (`ValueStep`), the rest one action at a time.

`ProgressExact` compares a counter with a sum over the job's inputs. `CountInv` has the counter's value at each place of Run as
what the inputs before ask for (`SessionsTo`), plus the groups and tasks passed of the current one. It holds over the groups
that were skipped as well, since the code counts their sessions at once. The sum is a recursive function; that it is one
follows from `LoopExists`, and that it never falls from `Induction`.

### ResultsHistory

`Results_proofs` proves `HistoryIsKept`, `HistoryTypeCorrect` and `HistoryKeepsResults` (`[]HistoryInv`, `[]HistoryTypeOK`,
`[]KeepsResults`) for any number of results, torn lines and rewrites cut short.

**The argument.** `KeepsResults` counts: no more results are missing than lines were torn. `LostInv` names them: a result that
was appended whole, and not deleted, stands alone in its line and nothing will be written behind it, *or* the result before it was
not appended whole. So the missing ones map one to one to torn ones. `FileInv` says that numbers go up along a
line and from line to line, in the file and in what a rewrite has still to write back (`Lines`); `MatchInv` that, as long as no
deletion was misled, nothing deleted is in these lines and the page, unless it is astray, shows the ones that can be read. Reading skips lines and deleting skips rows
by a fold: `Chosen` says what the result of such a loop is, the sequence of elements at increasing places, and the lemmas on it
carry everything else.

### IhvSubprocess

`IhvPlugins_proofs` proves of IhvSubprocess, for every set of calls, of capabilities and of faults, any bounds on them, and both transports:

| Theorem | States |
|---|---|
| `Invariance` | `Spec => []IInv` |
| `TypeCorrect` | `Spec => []TypeOK` |
| `SeesPlugin` | `Spec => []CallerSeesPlugin` |
| `EndsCleanly` | `Spec => []EndsClean` |

The assumption is `SubprocessAssumption`.

**The argument.** What the caller believes of the plugin is what the plugin is, once the call that is under way is
accounted for, so the invariant has to say where that call is. `ExchangeInv`: as long as nothing has timed out and
the child is there, the awaited command is in exactly one of three places, in the pipe to the child (`Queued`: the
child has not performed it), in the child (`InCall`), or answered (`Answered`: performed, with its answer in the
pipe and the state that belief will have when it is read). `NumberInv` says that no number is about that was not
asked for; `ResponseInv`, that what is in the pipe back belongs to the awaited inference, tokens first and
the result last; `ChildInv` and `StartInv`, which states of the child go with which of the caller. `EndInv` is for `EndsClean`:
the log thread is over before the child is told to go, the child before Stop is. `After` says what performing a call makes of a plugin as a
function, so that both sides can be compared; a timeout ends the agreement for good, which `LateStep` uses.

### Plugins

`IhvPlugins_proofs` proves of Plugins, for any hardware, catalog, models, requests, numbers of layers, answers of the
runtimes beneath, any number of sessions, and any writings of a configuration and lives of the process cut short:

| Theorem | States |
|---|---|
| `PluginsInvariance` | `PluginsSpec => []PluginsInv` |
| `PluginsTypeCorrect` | `PluginsSpec => []PluginsTypeOK` |
| `SessionServed` | `PluginsSpec => []ServesSession` |
| `BisectionFinds` | the bisection finds the most layers that fit, for any number |
| `DetectsWanted` | every device listed is one the request asks for |

The assumption is `PluginsAssumption`: the types of the constants.

**The argument.** The invariant has one part for each library (`LibraryInv`), for what a failure leaves behind differs from vendor
to vendor. `VendorInv` is common to all but Windows ML: without an object there is nothing, and a session that has not begun has no history.
Over it, each part says what a message means there. With llama.cpp (`LlamaInv`) tokens of a failed run stay only with a message, which
keeps the next run away. With QNN (`QnnInv`) a message never goes, so none is there where a model counts as
loaded or prepared. Both ONNX Runtime GenAI libraries (`OrtCommon`) have the model and its parameters as long as they are initialized, nothing otherwise unless an
Init failed, and, unless an Init failed or the file was not put back, a configuration changed only while they are; the one that makes a generator for each run holds nothing else between
runs (`OrtInv`), the one that keeps its generator has it (`RyzenInv`). `OpenVinoInv`, `MlxInv` and `DiffusersInv` bound what can be owned, what can lead nowhere and what a failed Init leaves.
`WindowsInv` is `WindowsTypes`, `WindowsObject` (the object's pointers, message and failed Init), `WindowsDevices` (each device
listed is wanted, and a loaded model is for one of them) and `WindowsFiles` (the model assigned to the device is of its provider, and
the configuration beside it parses and, for OpenVINO, is what the request needs, unless its options are nested or it could not be opened).
Between sessions only files are left: `BetweenSessions` says so once for `NextSession` and `ProcessDies`. There is a lemma for each library's
steps, by cases over its calls.

*The bisection.* `DeducedLayers` is a loop: its state is an interval and the best number found, and the lemmas say that the interval
shrinks and that everything below it fits and nothing above it does. So it ends with the greatest number that fits, in
at most as many turns as there are layers. *The devices.* The list is put together by filters and concatenations (`Among`, `FlattenSeq`), so there
are lemmas on what these hold.

### BenchmarkStage

`BenchmarkStage_proofs` is about BenchmarkStage and Preparation, for any number of entries, any names, libraries
and filters, any number of devices a plugin may find, any requests, scenarios and `N`.

| Theorem | States |
|---|---|
| `Invariance` | `Spec => []IInv` |
| `TypeCorrect` | `Spec => []TypeOK` |
| `ScenarioRun` | `Spec => []ScenarioIsRun` |
| `Implementation` | `Spec => ImplementsBatch` |

The assumptions are `PreparationAssumption`, `ScenarioAssumption`, `NAssumption` and `HandlerAssumption`.

**The argument.** `DevicesAreAsAsked` only speaks of the end, so the invariant of Preparation says for each entry how far it has come. `ListInv`: an entry whose library is
still to be visited, or being visited, stands in the list as it was loaded (`Fresh`), one whose library is
through has its devices settled (`Settled`): none, or what was asked for as far as it was found. Settled survives
because a count, once known, never changes (`SettledKept`). `AdjustInv` says the same of the new list while
it is made: entries of the library being visited are settled, all others are copied as far as they were seen. `LoadInv` is why
no entry is loaded that no library waits for. Lists only matter through `Devices`, what they hold for an entry, and
`Distinct`, so there are lemmas on what appending and concatenating do to these two.

For the stage, `PairInv` says that a pair of a model and an entry has a task exactly when the two loops have
passed it (`Reached`) and it is to be used; at the end `Reached` is everything, except the second model when it has the
content of the first. `GroupInv`: the groups are consecutive runs of the tasks created. `PlaceInv` ties queue, current task
and interrupt to where the stage and the thread are; `RunInv`, as long as nobody interrupts, ties the
status of the current task to the thread's step, so that a task that is final, and the thread through with
it, was reported; `OtherInv` carries this to the groups before, and keeps those after as they were created. `NextGroup` is where the two meet:
it needs `RunInv` for the group it leaves and `OtherInv` for the one it enters. The refinement needs only `GroupInv` and
`PlaceInv`: `AddExecutor` submits, `NextGroup` is a stutter because a group only moves from `Pending` to the queue.

### GuiSession

`GuiSession_proofs` proves `Invariance`, `TypeCorrect`, `NoneLost` and `SuccessEarned` (`[]IInv`,
`[]TypeOK`, `[]NoThreadLost`, `[]SuccessIsWhole`) for any number of configurations and threads and for
all that the user may click, a quit while sizes are collected, a clearing during an enumeration and a closed popup among it.

**The argument.** The finished signal is in the queue while the GUI may start another thread, so the
invariant has to say which calls can be posted when, and which clicks the window then allows.
`ThreadInv` holds whatever the user does: a thread is made only when the last one has ended and no call
to delete it is on its way, a run's finished signal never meets another thread, and while the page is that of a run so is the thread. It is
what `SuccessIsWhole` rests on after a user has meddled. `SessionInv` is about the others: a thread
that is alive is the one the controller holds, and a finished signal is that of the thread held;
while one is held the window shows something that keeps the user from starting another (for an
enumeration the program is not ready, for a run or a sweep the page is that of a run, for a clearing its popup
is open); and when the GUI thread is about to start a thread, it holds none. `PlaceInv`: at most one awaited call is
posted, by a live thread that stands at the place of that call; places belong to kinds of threads; a thread
that is over is at "end". `StatusInv`: a status told or posted is one of a whole run (`Whole`), success so far means that
every configuration passed has succeeded, and at "end", on the page of a run, it was interrupted or is whole. The
last is what `SuccessIsWhole` comes from. There is a lemma for each step, and one (`Steps`) that puts them
together.

### CommandLine

`CommandLine_proofs` proves `Invariance`, `TypeCorrect` and `RunHonest` (`[]IInv`, `[]TypeOK`,
`[]RunIsHonest`) for any number of scenarios, keys and results.

**The argument.** `PlaceInv` says where the run is and that an executor only runs inside the benchmark stage.
`WalkInv`: the scenarios before the current one are those that came to their table and those that were broken
off, and none is both; was_error is that one was broken off; only the current one can be stopped by the user and
not yet be broken off. `TableInv`: the results kept are exactly those no table came after
(`results = {r \in made : TableOf(r) = {}}`), which is what makes a result appear once. The table after a
result is a least element of a set of scenarios, the latest result a greatest of a set of results, so there are
lemmas that they exist (from the well-foundedness of the natural numbers), and one for how a new table changes
`TableOf`. `MessageInv`: the message kept is from the last scenario that had one.

### Unpacking

`Unpacking_proofs` proves `Invariance`, `TypeCorrect`, `Whole` and `Idempotent` (`[]IInv`, `[]TypeOK`,
`[]UnpackedIsWhole` and `LeavesWholeAlone`) for archives of any number of files and of any sizes, any
number of versions, and any number of calls: so for any number of threads that timeouts left
behind and that unpack over each other.

**The argument.** `UnpackedIsWhole` speaks of files when the last thread is through; what it needs is what a
file may look like while several threads are in it. A thread that opens a file empties it under
the others, which go on from their own positions and leave a hole before them. `HoleInv` is the
reason that this does no harm: every hole, and every piece a writing thread has behind it that is not
there any more, is `Due`, that is, before the position of another thread in the same file whose stream is
good. So it stays until the piece is written, unless a thread gives up. If that thread is alone
there are no holes to begin with (`AloneInv`, `NoHoles`: it knows that the file is as long as what it
wrote); if it is not, the file is scarred and the property says nothing. `PassedInv` is the same of
all pieces of the files that the last thread has skipped or written, as long as all is `clean`; with no thread
left nothing is due, so they are whole. `VersionInv` is what makes them of one version: a thread only
writes pieces of the running version into files that it, or another of this process, has emptied, and none beyond the
entry's size. `AssetInv` relates the built-in file to the bytes handed to its stream.
There is a lemma for each step of a thread, and one on what putting a piece into a file does (`FilePut`).
`LeavesWholeAlone` comes from `AloneInv`: a lone thread that opens a file has found it too long or too short, and
none has come in between.

### Loops and induction

The provers cannot instantiate the library's induction theorems, which take a predicate as a parameter. Two things replace them
in these proofs. *Induction by the least counterexample*: the numbers at which a formula fails are a subset of a well-founded set
(`NatLessThanWellFounded`), and a least element of it (`WFMin`) contradicts the step. Stated once for a set
(`Induction`), it is cited with the set of numbers the formula holds of. *Loops*: a recursive function is a CHOOSE over functions that satisfy an
equation; `LoopExists` builds, by that induction, a function for any start and any table of turns, so the equation
has a solution and the function can be unfolded (`SumLoop` and its like). So sums, filters, concatenations and the
bisection of the models are written as recursive functions, and proved about for every length.

### What is only model-checked

* Liveness (`ReturnsAndHears`, `CallEnds`, `NobodyWaits`, `StageReturns`,
  `StopReturns`): it rests on fairness, and ENABLED is out of this prover's reach.

Every invariant and every other action property of the runs, and both refinements, have a theorem.

## 6. Disagreements and other things found

### Shown by a run

* **Quitting while sizes are collected** (`GuiQuit`). With "ask before download" the benchmark
  thread makes three calls on the GUI thread and waits for each
  (`src/src/gui/controllers/benchmark_controller.cpp:329, :394, :409`). The destructor of AppController waits
  for the benchmark thread (`:206`), as `src/src/gui/controllers/app_controller.h:82-87` says it should
  ("waits for the benchmark to finish before returning"). The two wait for each other for ever.

### Met while modelling

These are exceptions the properties state, or lie just outside a model; each can be seen at its line.

*Tasks and the progress loop*

* A task that throws keeps its status: the scheduler logs and goes on
  (`task_scheduler.cpp:93`), and the loop of ReportProgress goes on until the user interrupts (`benchmark/runner.cpp:367`).
* A text executor with empty prompts returns and leaves kRunning (`llm/txt2txt_executor.cpp:536`): the same
  loop waits for ever (`Abandoned` in `StageReturns`).
* Cancel tests a status and stores kCanceled in two steps (`storage_task.cpp:126`). A cancellation that
  meets the moment before a Downloader is made stops the one before it: the new transfer
  runs on, and the stage waits for it.
* When the disk fills up between two downloads (`benchmark/download_stage.cpp:229`) the batch is cancelled with an
  error message, but the stage may still return true (`:361`), since no task has failed.

*Downloads and their cache*

* After the last try of a chunk its thread just returns (`downloader.cpp:207`): has_failed stays
  false, and the progress thread waits for bytes that do not come (`Exhausted` in `CallEnds`).
* The body of an error page is written into the file and counted before the status is looked at
  (`downloader.cpp:161`).
* url_cache.json is rewritten in place (`url_cache_manager.cpp:62`). A process that dies in between
  leaves a file that every later pass, and ClearCache, fails to parse, although `src/README.md:119` says of the normal
  mode that files not cached are downloaded.
* A url_cache.json that cannot be opened for writing is no error (`:63`): the run succeeds and the next process fetches its files
  again. One that exists and cannot be opened for reading is taken for none (`:53-54`), and the next store overwrites every entry in it.
* A copied file whose last buffered bytes do not fit the disk is a success (`downloader.cpp:481-486` tests the stream before it is
  closed): it is handed out, and the hash of what is there is recorded, so that later runs trust the short file.
* The plan cache (`benchmark/download_stage.cpp:196-201`) leaves out what a sweep recorded with size 0,
  which a local file that is no archive also is.
* Two URLs with one path evict each other and are counted once by the disk space tracker; a URL with two destinations is
  counted once too, with the size asked for last.
* The GUI's sweep asks GetRemoteFileSize for a `file://` URL as well and records the 0 it gets (`downloader.cpp:327`,
  `storage.cpp:226`). The preflight sweep uses that 0 again (`storage.cpp:215-216`), so the plan lacks the bytes
  of a local archive: the volume may run out in its copy, or the check after a download raise a false alarm (`PlanIsRight`
  leaves this out of `CheckedSpaceSuffices`).
* An entry has one path. With two destinations of one URL it goes when the file of that path is replaced or cleared, while
  the session's memory of validations still calls the other file valid: a run then hands it out without adding an
  entry, and the next process fetches it again. (`Single` in `FinishPass`.)

*Unpacking*

* After a timeout the detached worker goes on (`unpacker.cpp:1088`): files a later call has handed out
  may be emptied and written again by it; and if one of two threads over a file stops half way, a
  file of the right size can keep a hole that no later call mends.
* A file is skipped when it is as long as the entry (`unpacker.cpp:427`). The comment at `:1108-1110`, on built-in files, relies on
  a directory named for the version, which one below a temporary directory given by the
  user is not (`CreateDepsDirectory`): an older version's file of the same size stays.
* Streams are not checked after writing, so a full disk is not noticed.

*Plugins*

* In a subprocess, answers carry no number (`api_handler_ipc.cpp:154`): after one timeout every later answer is
  taken for the command after its own. An inference is awaited for ever while the child
  lives (`:187`).
* On Windows the child inherits the reading ends of the pipes (`api_handler_ipc_win.cpp:157, :253`) and writes its logs
  synchronously (`:410`): once its parent has died, a child that logs into a full pipe stays for ever.
  WaitForClientConnection (`:292-296`) takes a wait that timed out for a connection, and waits the whole timeout for a pipe that
  was connected before. A message longer than the reader's buffer is never drained.
* llama.cpp: a sampling method that is not supported leaks the samplers; an error of the prompt, or an exception, leaves the
  context's memory uncleared, so that only an unloading lets the session go on; the device's index is looked up in a list it
  may not be in. The dispatchers of llama.cpp and Diffusers never delete the struct they answered with.
* QNN: nothing ever clears the error message, so that one failure ends the session; the configuration's handle leaks when the
  dialog cannot be made of it; Init goes on to Genie with an empty string when no settings were found.
* Images with OpenVINO and with MLX: nothing clears the message either.
* MLX: Deinit does not clear the pointer to the model it released (`IHV/MLX/src/LLM/llm_inference.cpp:149`), which a second
  Deinit after a failed Init releases again (`reused` in `Serves`). A model may be null although Init succeeds: then every run fails.
* RyzenAI: a run that cannot make the next generator leaves the pointer to the one it destroyed, and the unloading destroys it
  again (`IHV/OrtGenAI-RyzenAI/src/LLM/llm_inference.cpp:156-157`).
* OrtGenAI and RyzenAI: an Init that fails after the configuration was changed never puts it back, for Deinit and the destructor
  refuse what is not initialized; what had been made is lost.
* OrtGenAI, RyzenAI and Windows ML write genai_config.json without looking at the stream, in Init
  (`IHV/OrtGenAI/src/LLM/llm_inference.cpp:298-300`, `IHV/OrtGenAI-RyzenAI/src/LLM/llm_inference.cpp:332-334`,
  `IHV/WindowsML/src/LLM/llm_inference.cpp:416-418`) and in Deinit (`:223-227`, `:199-203`, `:233-237`); the catch around it
  catches nothing of that. On a full disk a torn file is taken for written, and no later session reads it. A process that
  ends between Init and Deinit leaves the file changed for all later sessions: the next Init takes it for the original.
* Diffusers: an exception in the unloading is swallowed and the pipeline stays in the interpreter. An Init that failed to load
  leaves its message, which only a Prepare or Reset would clear: no other Init succeeds.
* OpenVINO's text Init tests a message that is never there at that place.
* Windows ML keeps the configuration to be restored *after* changing it (`IHV/WindowsML/src/LLM/llm_inference.cpp:411`), so
  Deinit restores nothing: once an agentic session has written `enable_causallm` for a GPU, plain sessions find it
  there too. (TLC finds such a session at once when asked for one.)
* Windows ML finds providers in `session_options` at any depth (`IHV/WindowsML/src/base_inference.cpp:881-899`) and adapts
  them only directly below `model` (`IHV/WindowsML/src/LLM/llm_inference.cpp:388`): a model with nested ones is loaded with its file
  as it is (`:410-414`). (`nested` in `ModelIsLoaded`.)
* A Windows ML model that cannot be destroyed leaves its message (`IHV/WindowsML/src/LLM/llm_inference.cpp:221-230`), which
  Deinit cleared before (`:207`): every later Init of the session is refused. (`"model" \in lost` in `ServesSession`.)
* An Init that fails half way is for good: Deinit refuses (`:202`), the message stays, and what had been made is
  lost. (`failedInit` in `ServesSession`.)
* A constructor that throws leaves its entry in the DLL search path, although the comment at
  `IHV/WindowsML/src/base_inference.cpp:361-371` counts on the destructor to let a later scenario start clean.
* AssignModelForDevices returns at the first available device without a model (`:955`), so that the devices
  after it get none; NvTensorRtRtx always counts as available.
* `kActivationFailed` is never the outcome: what fails there throws. The check of the provider's name in
  `common/IHV_handler_class.h:66` can never refuse one, since a name cannot equal two.
* Devices are presumed when a provider reports none, so that a device's number may differ from
  session to session.

*Stages*

* PrepareIHVDevicesIfNeeded replaces `prepared_eps_` by the entries that got a device
  (`benchmark/preparation_stage.cpp:293`) before `mark_ihv_eps_as_failed` walks it (`:301`) for the library's entries. It
  finds none, their names stay, and Run returns true (`:560`) with nothing prepared
  (`benchmark/preparation_stage.h:30`: "True if the preparation stage is successful").
* With `--device-id` on a provider without enumeration (`:327`) the name is reported as failed, but its
  entries are run.
* An override of a model with the content of the scenario's own is skipped (`sameContent` in a scenario of BenchmarkStage),
  for models are told apart by their hash.
* An executor cancelled before it started reports a result without a message.
* After a skipped image prompt its durations stay in the averages; when every prompt was skipped the
  duration is 0/0.

*Results*

* Once a line of results.json cannot be parsed, deleting a row removes another line
  (`benchmark_logger.cpp:867` against `benchmark_logger.h:82`); a process that dies between emptying the file and
  writing it back loses the rest, and so does a write that fails there, which nobody notices: the page shows the lost rows until
  it is read again. AppendBenchmarkResult returns true whatever happened.

*Command line*

* `GetErrorMessage` is said to be the "reason the last Run() failed (or empty if it succeeded / nothing was
  recorded)" (`benchmark/stage.h:44`), but nothing ever clears the message: after a scenario without disk space,
  the failure of a later one's benchmark is explained at the end with the disk (`MessageIsLast` says which message it is).
* Every scenario's table writes the CSV file anew (`src/src/CLI/system_controller.cpp:253-255`), so at the end it holds the last table's
  results only, or none, although `src/README.md:93` describes the option as exporting the benchmark results. Nobody looks whether
  the file could be written.
* Run returns true when every executor has failed, since `task_executed` only says that one returned; a run that only fetches
  dependencies returns false. `main` ignores what Run returned and exits with 0.
* Results of a scenario whose benchmark stage failed stay in the logger and are shown with the next scenario's, which is what
  `TableOf` says; those of the last scenario are never shown (the history keeps them).
* An accepted interrupt stays set, and the next scenario still starts: the user is asked again at its first download.
* An exception out of a stage ends the run with the scenarios that were left, and prints no message of a stage.

*GUI*

* The loading widget blocks no input (`src/src/gui/ui/widgets/loading_widget.cpp:31-33`). Clearing the cache while
  devices are enumerated makes a second thread, and the first one's queued end (`benchmark_controller.cpp:151-154`) deletes the
  second, or goes through null. The popup of a clearing can be closed (`src/src/gui/ui/widgets/popup_widget.cpp:19-23`), and a run
  started then has its thread beside the clearing's queued end. `NoThreadLost` without its condition shows both: the
  shortest way to a program aborted over a thread deleted while it runs has eight steps (Clear cache, the enumeration ends, its finished
  signal is posted, the wait is over, the clearing starts, the signal is delivered to its thread and the thread is
  deleted), and in twelve the clearing's own finished signal is lost with its thread, and the popup stays. Nothing the repository says is
  contradicted by that (the comment at `app_controller.cpp:485` is about the thread before), so it is no run.
* "Canceling" may stay on the screen when Cancel is clicked just as the thread ends. A cancelled
  run goes to the history when what it did succeeded; only the `|=` at `benchmark_controller.cpp:194` keeps it from being
  called a success.
* `prepared_eps_configs_` gets an entry only for a configuration that did not throw (`:555`), so that the devices of
  later ones shift.
* A Cancel after the last check of the sweep is still followed by the question. The benchmark thread
  reads a widget (`GetEPDisplayName`, `:237`).

## 7. Not modelled

| Part | Why |
|---|---|
| Configuration, command line options, the comparison of hashes in data verification | one thread that reads files and compares or parses; no state to explore. What a mistake in them leads to is an answer in CommandLine |
| System information, hardware monitors | queries of the operating system |
| Agentic tools, portable Python, power and accuracy tools | other programs, started and read |
| Pages and widgets of the GUI | layout; what they let the user do is `Free` in GuiSession |
| The layout of the CSV file and of the console tables, statistics | formatting and floating point; which results they hold is in CommandLine |

Of modelled parts:

* *DownloadCache*: several volumes, subdirectories, local directories, `cache_local_files = false`; a
  disturbance in the middle of a pass; a local source that cannot be read to its end, on which the loop of the
  copy may turn for ever (`downloader.cpp:470`).
* *Unpacker*: ZipFiles, SetDepsDir, the functions of the Windows shell, the filter on extensions.
* *Preparation*: the unpacking of each dependency is one answer; an executor that cannot be made.
* *IhvSubprocess*: the reader of stdout, a message of which only a part has arrived or that is longer than a pipe's buffer,
  two releases.
* *Plugins*: EnumerateDevices of vendors other than Diffusers, which only reads; what is inside the Python and
  Swift code, whose answers are free; sizes of buffers. For Windows ML the copy of the list of devices, DirectML's enumeration in a program of its
  own, the hardware monitor of other builds, by which an Init after a failed Deinit would assign over a joinable thread.
* *Runner*: the tables of supported models and plugins; a runner without a handler.
* *CommandLine*: what a sweep or an enumeration collects for a caller of the runner (GuiSession has it); the exit of the program at a
  number too large for `--device-id`, which nothing catches (`src/src/CLI/main.cpp:498`).
* *ChunkedDownload*: the single stream is one step; partial files are thrown away, as in the code.

The map covers 28 per cent of the implementation. Most of what it leaves out are the parts in the table above:
widgets, parsers, tables and queries of the system.

## 8. What is left

1. GuiSession and CommandLine over the modules of the stages, in place of their answers.
2. Temporal proofs, should a prover with ENABLED be at hand: `CallEnds` would come from the inductive
   invariant that is there and a measure.

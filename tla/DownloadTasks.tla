----------------------------- MODULE DownloadTasks -----------------------------
(***************************************************************************)
(* One call of DownloadStage::RunStorageTasks                              *)
(* (CIL/benchmark/download_stage.cpp): the stage's thread creates the      *)
(* storage tasks, watches them through ReportProgress and decides the      *)
(* result; the scheduler's thread runs StorageTask::Run and then the       *)
(* lambda that cancels the whole batch when a download failed or the disk  *)
(* is full.  Both threads may be inside cancelStorageTasks at once, and    *)
(* Cancel and Run store into the same atomic status without looking.       *)
(*                                                                         *)
(* A step of a thread is one access to memory the other one reads.  What   *)
(* the file system, the network and the user answer is a free choice.      *)
(***************************************************************************)
EXTENDS ReportProgress

CONSTANTS
  Storage,       \* the Storage objects of the stage
  StorageOf,     \* the Storage each task was created with
  Modes,         \* the download behaviours explored, see AllModes
  Chunked,       \* tasks whose transfer looks at stop_download
  Throwing,      \* tasks whose Run may throw
  Zip,           \* tasks for a .zip, created even when the plan has them
  EpDeps         \* tasks of external EP dependencies: no path is retrieved

AllModes ==
  {"normal", "skip_all", "prompt", "deps_only_enumeration", "sizes"}

PrecheckModes == {"skip_all", "prompt", "deps_only_enumeration"}

ASSUME DownloadAssumption ==
  /\ StorageOf \in [Task -> Storage]
  /\ Modes \subseteq AllModes
  /\ Chunked \subseteq Task
  /\ Throwing \subseteq Task
  /\ Zip \subseteq Task
  /\ EpDeps \subseteq Task

Actor == {"main", "worker"}

VARIABLES
  mode,        \* the download behaviour; "sizes" is get_sizes_only
  next,        \* the task the stage's thread has reached in its first loops
  precheck,    \* CheckIfTaskCanBeSkipped found the file missing, or the URI bad
  hasPath,     \* res_path_ is not empty
  downloader,  \* the task whose Downloader a Storage holds, NoTask if none
  stopped,     \* stop_download of the Downloader made for a task
  step,        \* where the scheduler's thread is inside a task
  todo,        \* tasks cancelStorageTasks has still to visit, per thread
  cancelStep,  \* and where in Cancel the thread is
  planned,     \* files_ of the DiskSpaceTracker: sized, not yet completed
  spaceError,  \* "Ran out of disk space during download" was set
  result       \* what RunStorageTasks returned

stageVars == <<mode, next, precheck, hasPath, planned, spaceError, result>>
transferVars == <<downloader, stopped>>
cancelVars == <<todo, cancelStep>>

vars == <<schedulerVars, progressVars, stageVars, transferVars, cancelVars, step>>

MainPhase ==
  {"add", "precheck", "report", "loop", "wait", "ask", "join", "reported",
   "interrupted", "canceling", "joinCanceled", "returned"}

TaskStep ==
  {"none", "run", "initializing", "check", "find", "fetch",
   "storeOk", "storeFail", "after", "cancel", "canceling"}

StageTypeOK ==
  /\ main \in MainPhase
  /\ mode \in Modes
  /\ next \in 1 .. N + 1
  /\ precheck \in [Task -> {"none", "missing", "invalid"}]
  /\ hasPath \in [Task -> BOOLEAN]
  /\ planned \subseteq Task
  /\ spaceError \in BOOLEAN
  /\ result \in {"none", "true", "false"}

WorkerTypeOK ==
  /\ downloader \in [Storage -> Task \cup {NoTask}]
  /\ stopped \in [Task -> BOOLEAN]
  /\ step \in TaskStep
  /\ todo \in [Actor -> SUBSET Task]
  /\ cancelStep \in [Actor -> {"idle", "check", "store", "stop"}]

TypeOK == SchedulerTypeOK /\ ProgressTypeOK /\ StageTypeOK /\ WorkerTypeOK

Init ==
  /\ SchedulerInit
  /\ ProgressInit
  /\ main = "add"
  /\ mode \in Modes
  /\ next = 1
  /\ precheck = [t \in Task |-> "none"]
  /\ hasPath = [t \in Task |-> FALSE]
  /\ downloader = [s \in Storage |-> NoTask]
  /\ stopped = [t \in Task |-> FALSE]
  /\ step = "none"
  /\ todo = [a \in Actor |-> {}]
  /\ cancelStep = [a \in Actor |-> "idle"]
  /\ planned = {}
  /\ spaceError = FALSE
  /\ result = "none"

SizesOnly == mode = "sizes"

Return(r) == main' = "returned" /\ result' = r

-----------------------------------------------------------------------------
(* The stage's thread, before the scheduler is started.                    *)

\* Variant: the loop runs one task past the end of the list.
AddStorageTask_PastTheEnd ==
  /\ main = "add"
  /\ next \in 1 .. N + 1
  /\ next' = next + 1
  /\ ScheduleTask(next)
  /\ tracked' = tracked \cup {next}
  /\ UNCHANGED <<status, shown, interrupt, console, main, mode, precheck, hasPath,
                 planned, spaceError, result, transferVars, cancelVars, step>>

\* addStorageTasks: schedule and track a task, unless the plan cache says the
\* URL has no bytes to fetch.  Only a normal run had a sizing sweep before it,
\* which may have given the file a planned size.
AddStorageTask ==
  /\ main = "add"
  /\ next \in Task
  /\ next' = next + 1
  /\ \/ /\ ScheduleTask(next)
        /\ tracked' = tracked \cup {next}
        /\ \/ UNCHANGED planned
           \/ mode = "normal" /\ planned' = planned \cup {next}
     \/ /\ ~SizesOnly
        /\ next \notin Zip
        /\ UNCHANGED <<tracked, planned, schedulerVars>>
  /\ UNCHANGED <<status, shown, interrupt, console, main, mode, precheck, hasPath,
                 spaceError, result, transferVars, cancelVars, step>>

\* All tasks are created: look for cached files first, start the scheduler,
\* or go on when there is nothing to do.
StartStage ==
  /\ main = "add"
  /\ next = N + 1
  /\ IF mode \in PrecheckModes
     THEN main' = "precheck" /\ next' = 1
     ELSE /\ main' = IF tracked = {} THEN "reported" ELSE "report"
          /\ UNCHANGED next
  /\ UNCHANGED <<status, tracked, shown, interrupt, console, schedulerVars, mode,
                 precheck, hasPath, planned, spaceError, result, transferVars, cancelVars, step>>

\* CheckIfTaskCanBeSkipped on the next task of the tracker: the file is there
\* and the task is skipped; or it is missing (or its URI is bad) and
\* "skip_all" gives up, "prompt" asks the user, enumeration downloads it.
Precheck ==
  /\ main = "precheck"
  /\ next \in Task
  /\ \/ /\ next \notin tracked
        /\ UNCHANGED <<status, hasPath, precheck, main, result>>
     \/ /\ next \in tracked
        /\ status' = [status EXCEPT ![next] = "KSkipped"]
        /\ hasPath' = [hasPath EXCEPT ![next] = TRUE]
        /\ UNCHANGED <<precheck, main, result>>
     \/ /\ next \in tracked
        /\ \E found \in {"missing", "invalid"} :
             precheck' = [precheck EXCEPT ![next] = found]
        /\ \/ mode \in {"skip_all", "prompt"} /\ Return("false")
           \/ mode \in {"prompt", "deps_only_enumeration"} /\ UNCHANGED <<main, result>>
        /\ UNCHANGED <<status, hasPath>>
  /\ next' = next + 1
  /\ UNCHANGED <<tracked, shown, interrupt, console, schedulerVars, mode, planned, spaceError,
                 transferVars, cancelVars, step>>

\* RemoveSkippedTasks; their functions stay in the scheduler's queue.
RemoveSkippedTasks ==
  /\ main = "precheck"
  /\ next = N + 1
  /\ tracked' = {t \in tracked : status[t] # "KSkipped"}
  /\ main' = IF tracked' = {} THEN "reported" ELSE "report"
  /\ UNCHANGED <<status, shown, interrupt, console, schedulerVars, stageVars,
                 transferVars, cancelVars, step>>

-----------------------------------------------------------------------------
(* StorageTask::Run on the scheduler's thread.                             *)

InTask(s) == thread = "task" /\ step = s

SetStatus(s) == status' = [status EXCEPT ![current] = s]

BeginTask ==
  /\ \E t \in Task : TakeTask(t)
  /\ step' = "run"
  /\ UNCHANGED <<progressVars, stageVars, transferVars, cancelVars>>

\* A task that is not ready any more was skipped or canceled: nothing to run.
RunEntry ==
  /\ InTask("run")
  /\ step' = IF status[current] = "kReady" THEN "initializing" ELSE "after"
  /\ UNCHANGED <<schedulerVars, progressVars, stageVars, transferVars, cancelVars>>

SetInitializing ==
  /\ InTask("initializing")
  /\ SetStatus("kInitializing")
  /\ step' = "check"
  /\ UNCHANGED <<tracked, shown, interrupt, console, main, schedulerVars, stageVars,
                 transferVars, cancelVars>>

\* CheckIfFileExistsInStorage, unless the precheck already answered, and the
\* status it leads to.
CheckStorage ==
  /\ InTask("check")
  /\ \/ /\ precheck[current] = "none"
        /\ hasPath' = [hasPath EXCEPT ![current] = TRUE]
        /\ SetStatus("KSkipped")
        /\ step' = "after"
     \/ /\ precheck[current] # "missing"
        /\ SetStatus("kFailed")
        /\ step' = "after"
        /\ UNCHANGED hasPath
     \/ /\ precheck[current] # "invalid"
        /\ SetStatus("kRunning")
        /\ step' = "find"
        /\ UNCHANGED hasPath
  /\ UNCHANGED <<tracked, shown, interrupt, console, main, schedulerVars, mode, next,
                 precheck, planned, spaceError, result, transferVars, cancelVars>>

\* Storage::FindFile: the directory cannot be made; the cache has the file, put
\* there since the precheck by another task for the same URL; or a new
\* Downloader replaces the one the Storage held.
FindFile ==
  /\ InTask("find")
  /\ \/ /\ step' = "storeFail"
        /\ UNCHANGED <<hasPath, transferVars>>
     \/ /\ precheck[current] = "missing"
        /\ hasPath' = [hasPath EXCEPT ![current] = TRUE]
        /\ step' = "storeOk"
        /\ UNCHANGED transferVars
     \/ /\ downloader' = [downloader EXCEPT ![StorageOf[current]] = current]
        /\ stopped' = [stopped EXCEPT ![current] = FALSE]
        /\ step' = "fetch"
        /\ UNCHANGED hasPath
  /\ UNCHANGED <<schedulerVars, progressVars, mode, next, precheck, planned, spaceError, result,
                 cancelVars>>

\* Whether a transfer heeds stop_download: the chunked one does, a single
\* stream, a file copy and a size request do not.
HeedsStop(t) == ~SizesOnly /\ t \in Chunked

FetchSucceeds ==
  /\ InTask("fetch")
  /\ ~(HeedsStop(current) /\ stopped[current])
  /\ hasPath' = [hasPath EXCEPT ![current] = ~SizesOnly]
  /\ step' = "storeOk"
  /\ UNCHANGED <<schedulerVars, progressVars, mode, next, precheck, planned, spaceError, result,
                 transferVars, cancelVars>>

FetchFails ==
  /\ InTask("fetch")
  /\ step' = "storeFail"
  /\ UNCHANGED <<schedulerVars, progressVars, stageVars, transferVars, cancelVars>>

StoreResult ==
  /\ thread = "task"
  /\ \/ step = "storeOk" /\ SetStatus("kCompleted")
     \/ step = "storeFail" /\ SetStatus("kFailed")
  /\ step' = "after"
  /\ UNCHANGED <<tracked, shown, interrupt, console, main, schedulerVars, stageVars,
                 transferVars, cancelVars>>

\* An exception leaves Run and the lambda: only the scheduler sees it.
RunThrows ==
  /\ thread = "task"
  /\ current \in Throwing
  /\ step \in {"check", "find", "fetch"}
  /\ EndTask
  /\ step' = "none"
  /\ UNCHANGED <<progressVars, stageVars, transferVars, cancelVars>>

-----------------------------------------------------------------------------
(* The lambda around Run.                                                  *)

EndBody == EndTask /\ step' = "none"

\* Variant: the lambda ignores a failed task.
AfterRun_FailureIgnored ==
  /\ InTask("after")
  /\ EndBody
  /\ UNCHANGED <<progressVars, stageVars, transferVars, cancelVars>>

\* A failed task cancels the batch.  A completed one is taken off the plan;
\* when what is still planned does not fit the disk any more, the error is set
\* and the batch canceled.  Any other task just ends.
AfterRun ==
  /\ InTask("after")
  /\ \/ /\ status[current] = "kFailed"
        /\ step' = "cancel"
        /\ UNCHANGED <<schedulerVars, planned, spaceError>>
     \/ /\ status[current] = "kCompleted"
        /\ ~SizesOnly
        /\ planned' = planned \ {current}
        /\ \/ /\ planned' # {}
              /\ spaceError' = TRUE
              /\ step' = "cancel"
              /\ UNCHANGED schedulerVars
           \/ EndBody /\ UNCHANGED spaceError
     \/ /\ status[current] # "kFailed"
        /\ status[current] # "kCompleted" \/ SizesOnly
        /\ EndBody
        /\ UNCHANGED <<planned, spaceError>>
  /\ UNCHANGED <<progressVars, mode, next, precheck, hasPath, result, transferVars,
                 cancelVars>>

-----------------------------------------------------------------------------
(* cancelStorageTasks and StorageTask::Cancel, on either thread.           *)

\* Variant: cancelStorageTasks cancels the scheduler but not the tasks.
BeginCancel_SchedulerOnly(a) ==
  /\ CancelTasks
  /\ todo' = [todo EXCEPT ![a] = {}]
  /\ cancelStep' = [cancelStep EXCEPT ![a] = "check"]

BeginCancel(a) ==
  /\ CancelTasks
  /\ todo' = [todo EXCEPT ![a] = tracked]
  /\ cancelStep' = [cancelStep EXCEPT ![a] = "check"]

WorkerBeginsCancel ==
  /\ InTask("cancel")
  /\ BeginCancel("worker")
  /\ step' = "canceling"
  /\ UNCHANGED <<progressVars, stageVars, transferVars>>

MainBeginsCancel ==
  /\ main = "interrupted"
  /\ BeginCancel("main")
  /\ main' = "canceling"
  /\ UNCHANGED <<status, tracked, shown, interrupt, console, stageVars, transferVars, step>>

Drop(a, t) == todo' = [todo EXCEPT ![a] = @ \ {t}]

\* Variant: Cancel without its test for a final status.
CancelCheck_NoTest(a) ==
  /\ cancelStep[a] = "check"
  /\ todo[a] # {}
  /\ cancelStep' = [cancelStep EXCEPT ![a] = "store"]
  /\ UNCHANGED <<schedulerVars, progressVars, stageVars, transferVars, todo, step>>

\* Cancel reads the status ...
CancelCheck(a) ==
  /\ cancelStep[a] = "check"
  /\ \E t \in todo[a] :
       /\ Front(t, todo[a])
       /\ IF status[t] \in FinalStatus
          THEN Drop(a, t) /\ UNCHANGED cancelStep
          ELSE cancelStep' = [cancelStep EXCEPT ![a] = "store"] /\ UNCHANGED todo
  /\ UNCHANGED <<schedulerVars, progressVars, stageVars, transferVars, step>>

\* ... stores kCanceled whatever it is by now ...
CancelStore(a) ==
  /\ cancelStep[a] = "store"
  /\ \E t \in todo[a] :
       /\ Front(t, todo[a])
       /\ status' = [status EXCEPT ![t] = "kCanceled"]
  /\ cancelStep' = [cancelStep EXCEPT ![a] = "stop"]
  /\ UNCHANGED <<tracked, shown, interrupt, console, main, schedulerVars, stageVars,
                 transferVars, todo, step>>

\* ... and stops the Downloader the task's Storage holds, if any.
CancelStop(a) ==
  /\ cancelStep[a] = "stop"
  /\ \E t \in todo[a] :
       /\ Front(t, todo[a])
       /\ Drop(a, t)
       /\ stopped' = [d \in Task |-> stopped[d] \/ d = downloader[StorageOf[t]]]
  /\ cancelStep' = [cancelStep EXCEPT ![a] = "check"]
  /\ UNCHANGED <<schedulerVars, progressVars, stageVars, downloader, step>>

EndCancel(a) ==
  /\ cancelStep[a] = "check"
  /\ todo[a] = {}
  /\ cancelStep' = [cancelStep EXCEPT ![a] = "idle"]
  /\ UNCHANGED todo

WorkerEndsCancel ==
  /\ InTask("canceling")
  /\ EndCancel("worker")
  /\ EndBody
  /\ UNCHANGED <<progressVars, stageVars, transferVars>>

MainEndsCancel ==
  /\ main = "canceling"
  /\ EndCancel("main")
  /\ main' = "joinCanceled"
  /\ UNCHANGED <<status, tracked, shown, interrupt, console, schedulerVars, stageVars,
                 transferVars, step>>

-----------------------------------------------------------------------------
(* The stage's thread, after the scheduler.                                *)

\* Variant: an interrupted stage returns without joining.
ReturnInterrupted_NoJoin ==
  /\ main = "joinCanceled"
  /\ Return("false")
  /\ UNCHANGED <<status, tracked, shown, interrupt, console, schedulerVars, mode, next,
                 precheck, hasPath, planned, spaceError, transferVars, cancelVars, step>>

\* The user interrupted: join and return false.
ReturnInterrupted ==
  /\ main = "joinCanceled"
  /\ Joinable
  /\ Return("false")
  /\ UNCHANGED <<status, tracked, shown, interrupt, console, schedulerVars, mode, next,
                 precheck, hasPath, planned, spaceError, transferVars, cancelVars, step>>

\* Variant: the results are taken without looking for a failed task.
PostProcess_FailureUnseen ==
  /\ main = "reported"
  /\ \/ Return("false")
     \/ (\A t \in tracked \ EpDeps : hasPath[t]) /\ Return("true")
  /\ UNCHANGED <<status, tracked, shown, interrupt, console, schedulerVars, mode, next,
                 precheck, hasPath, planned, spaceError, transferVars, cancelVars, step>>

\* A failed task fails the stage; a size sweep is done; otherwise every path
\* that is needed must exist, and unpacking it may still fail.
PostProcess ==
  /\ main = "reported"
  /\ LET failed == \E t \in tracked : status[t] = "kFailed"
         retrievable == \A t \in tracked \ EpDeps : hasPath[t]
     IN \/ failed /\ Return("false")
        \/ ~failed /\ SizesOnly /\ Return("true")
        \/ ~failed /\ ~SizesOnly /\ Return("false")
        \/ ~failed /\ ~SizesOnly /\ retrievable /\ Return("true")
  /\ UNCHANGED <<status, tracked, shown, interrupt, console, schedulerVars, mode, next,
                 precheck, hasPath, planned, spaceError, transferVars, cancelVars, step>>

-----------------------------------------------------------------------------
\* The actions of ReportProgress, which touch nothing of the stage's own.
Report ==
  /\ \/ StartReport(SizesOnly)
     \/ Update(SizesOnly)
     \/ PollInterrupt
     \/ AcceptInterrupt
     \/ DeclineInterrupt
     \/ JoinAndReturn
  /\ UNCHANGED <<stageVars, transferVars, cancelVars, step>>

Interrupt ==
  /\ UserInterrupt
  /\ UNCHANGED <<stageVars, transferVars, cancelVars, step>>

EndThread ==
  /\ StopLoop
  /\ UNCHANGED <<progressVars, stageVars, transferVars, cancelVars, step>>

CancelOne(a) == CancelCheck(a) \/ CancelStore(a) \/ CancelStop(a)

MainNext ==
  \/ AddStorageTask \/ StartStage \/ Precheck \/ RemoveSkippedTasks
  \/ Report
  \/ MainBeginsCancel \/ CancelOne("main") \/ MainEndsCancel
  \/ ReturnInterrupted \/ PostProcess

WorkerNext ==
  \/ BeginTask \/ EndThread
  \/ RunEntry \/ SetInitializing \/ CheckStorage \/ FindFile
  \/ FetchSucceeds \/ FetchFails \/ StoreResult \/ RunThrows
  \/ AfterRun
  \/ WorkerBeginsCancel \/ CancelOne("worker") \/ WorkerEndsCancel

Terminated == main = "returned" /\ UNCHANGED vars

Next == MainNext \/ WorkerNext \/ Interrupt \/ Terminated

Spec == Init /\ [][Next]_vars

\* The threads are scheduled by the operating system, every transfer ends and
\* the user answers a question; nobody has to press Ctrl+C.
FairSpec == Spec /\ WF_vars(MainNext) /\ WF_vars(WorkerNext)

\* The same threads with a network that may keep a transfer open for ever,
\* unless the transfer heeds a stop.
WorkerUnlessStalled ==
  /\ step = "fetch" => HeedsStop(current) /\ stopped[current]
  /\ WorkerNext

StallSpec == Spec /\ WF_vars(MainNext) /\ WF_vars(WorkerUnlessStalled)

-----------------------------------------------------------------------------
(* Properties.                                                             *)

\* The lambdas of the tasks refer to locals of RunStorageTasks, and the
\* console belongs to the tracker while it is shown: when the call returns,
\* the scheduler's thread is over and the console is released.
ReturnsQuiescent ==
  main = "returned" =>
    /\ Joinable
    /\ current = NoTask
    /\ \A a \in Actor : cancelStep[a] = "idle"
    /\ ~console

\* The tracker never moves past a task that may still work: as long as the
\* progress loop runs, and after it, every task it has passed stays final.
ShownStayFinal == \A t \in shown : status[t] \in FinalStatus

\* Fail fast: once some task has failed, no other task looks for a file or
\* transfers one (the lambda cancels the batch before the next task starts).
FailureStopsBatch ==
  thread = "task" /\ step \in {"find", "fetch"} =>
    \A t \in Task : status[t] # "kFailed"

\* A call that returns true saw every tracked task through to a final status
\* other than failure.
TrueMeansNoneFailed ==
  result = "true" =>
    \A t \in tracked : status[t] \in FinalStatus \ {"kFailed"}

\* What the progress loop concludes from the statuses it reads is right: what it
\* has passed is over, and what it returns true for has not failed.
TrackerIsRight == ShownStayFinal /\ TrueMeansNoneFailed

\* When the scheduler was started and the call has returned, by success,
\* failure or interrupt, no task is left ready or running: a late store of
\* Run against Cancel ends in a final status before the join.  Only a task
\* that throws may leave its status as it was.
ReturnLeavesNoneActive ==
  main = "returned" /\ thread = "ended" =>
    \A t \in tracked \ Throwing : status[t] \in FinalStatus

\* The call leaves nothing behind that could still touch the stage or a task.
ReturnIsClean == ReturnsQuiescent /\ ReturnLeavesNoneActive

\* Until the user's interrupt is accepted, a final status never changes: the
\* worker's own cancelStorageTasks must not turn a failure, which the stage
\* looks for afterwards, into a cancellation.
FinalIsFinal ==
  [][main \notin {"interrupted", "canceling", "joinCanceled", "returned"} =>
       \A t \in Task : status[t] \in FinalStatus => status'[t] = status[t]]_vars

\* The worker is through with a task that is not final: it threw.
Abandoned(t) ==
  /\ status[t] \notin FinalStatus
  /\ t \in tracked \ queue /\ t # current

TransfersEnd == []<>(step # "fetch")

\* The stage returns, whatever fails and whenever the user interrupts, unless
\* some transfer stays open for ever; a task that threw keeps the tracker
\* waiting until the user interrupts.
Termination == TransfersEnd => <>(main = "returned" \/ \E t \in Task : Abandoned(t))

\* The scheduler's thread leaves its loop, whatever its tasks throw: when the
\* queue is drained, or canceled half way.
SchedulerEnds == TransfersEnd => ((thread = "loop") ~> (thread = "ended"))

\* An interrupt raised while the tracker waits is put to the user even if the
\* transfer in progress never ends.
InterruptIsHeard ==
  (interrupt /\ main \in {"loop", "wait"}) ~> (main \notin {"loop", "wait"})

\* The call returns and its thread ends, and the user is heard even while it
\* cannot return.
ReturnsAndHears == Termination /\ SchedulerEnds /\ InterruptIsHeard

\* The stage implements the abstract batch of tasks: in order, one at a time,
\* nothing begun after the batch is stopped or the verdict given.
Batch == INSTANCE TaskBatch WITH
  waiting <- queue, active <- current, stopping <- canceled, verdict <- result

ImplementsBatch == Batch!Spec

-----------------------------------------------------------------------------
(* The inductive invariant behind the safety properties, for every N and   *)
(* every choice of the other constants.                                    *)

\* Before the scheduler is started, and while the tracker is watched.
Preparing == main \in {"add", "precheck", "report"}
Watching == main \in {"loop", "wait", "ask", "join"}

\* Inside Run with the entry test passed: the stores that follow do not look
\* at what the status has become.
BodySteps == {"initializing", "check", "find", "fetch", "storeOk", "storeFail"}

InBody(t) == thread = "task" /\ current = t /\ step \in BodySteps

\* How the two threads' positions constrain each other.
ThreadInv ==
  /\ thread = "task" <=> current \in Task
  /\ thread = "task" <=> step # "none"
  /\ current \notin queue
  /\ Preparing => thread = "none"
  /\ thread = "none" => Preparing \/ main \in {"reported", "returned"}
  /\ main \in {"reported", "returned"} => Joinable
  /\ cancelStep["worker"] # "idle" <=> step = "canceling"
  /\ cancelStep["main"] # "idle" <=> main = "canceling"
  /\ console => Watching
  /\ result = "none" <=> main # "returned"

\* What is known of cancellation.
CancelInv ==
  /\ main \in {"interrupted", "canceling", "joinCanceled"} => canceled
  /\ step = "canceling" => canceled
  /\ Preparing => ~canceled

\* What is known of the tracker, and of the queue while it is filled.
TrackerInv ==
  /\ shown \subseteq tracked
  /\ Preparing => shown = {}
  /\ main \in {"join", "reported"} => shown = tracked
  /\ result = "true" => shown = tracked /\ \A t \in tracked : status[t] # "kFailed"
  /\ main = "add" => \A t \in queue : t < next

\* A task that no body of Run has begun, or that is final.
Idle(t) == status[t] \in FinalStatus \cup {"kReady"}

\* What the status of a task says about who may still store into it.
StatusInv ==
  /\ Preparing => \A t \in Task : status[t] \in {"kReady", "KSkipped"}
  /\ \A t \in queue : Idle(t)
  /\ step = "run" => Idle(current)
  /\ \A t \in shown : status[t] \in FinalStatus
  /\ \A t \in shown : ~InBody(t)
  /\ step \in {"after", "cancel", "canceling"} => status[current] \in FinalStatus
  /\ Watching =>
       /\ step = "initializing" => status[current] = "kReady"
       /\ step = "check" => status[current] = "kInitializing"
       /\ step \in {"find", "fetch", "storeOk", "storeFail"}
            => status[current] = "kRunning"
       /\ cancelStep["worker"] = "store" =>
            \A t \in todo["worker"] :
              Front(t, todo["worker"]) => status[t] \notin FinalStatus

\* A failure is known to the scheduler before it pops another task.
FailureInv ==
  (\E t \in Task : status[t] = "kFailed") =>
    /\ ~(thread = "task" /\ step \in BodySteps \cup {"run"})
    /\ \/ canceled
       \/ /\ thread = "task"
          /\ step \in {"after", "cancel"}
          /\ status[current] = "kFailed"

IInv ==
  TypeOK /\ ThreadInv /\ CancelInv /\ TrackerInv /\ StatusInv /\ FailureInv

\* A task the stage's thread has visited is final, or will be when the worker
\* is through with it, unless it throws.
Settled(t) == t \in Throwing \/ status[t] \in FinalStatus \/ InBody(t)

SettledInv ==
  /\ main = "canceling" =>
       /\ \A t \in tracked \ todo["main"] : Settled(t)
       /\ cancelStep["main"] = "stop" =>
            \A t \in todo["main"] : Front(t, todo["main"]) => Settled(t)
  /\ main = "joinCanceled" => \A t \in tracked : Settled(t)
  /\ ReturnLeavesNoneActive

=============================================================================

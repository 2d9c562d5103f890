---------------------------- MODULE ReportProgress ----------------------------
(***************************************************************************)
(* BenchmarkRunner::ReportProgress (CIL/benchmark/runner.cpp): the thread  *)
(* that runs a stage starts a scheduler and watches its tasks through a    *)
(* ProgressTracker, until the tracker has moved past every task or the     *)
(* user asks to stop.  The stage's thread is "main" here; the states       *)
(* "report" (call), "reported" (returned true) and "interrupted" (returned *)
(* false) are where a stage's module takes over.                           *)
(*                                                                         *)
(* The tracker's list holds tasks in scheduling order and its index moves  *)
(* by one, so the list is the set tracked and the index is the set shown   *)
(* of the tasks already passed.                                            *)
(***************************************************************************)
EXTENDS TaskScheduler, ProgressableTask

CONSTANT
  Handler   \* the handler the runner was given

\* The CLI's, on a stream or on a console; the GUI's.  No program of the
\* repository makes a runner without one.
ASSUME HandlerAssumption == Handler \in {"plain", "console", "gui"}

VARIABLES
  status,     \* GetStatus() of every task
  tracked,    \* tasks_ of the tracker
  shown,      \* the tasks before current_task_index_
  interrupt,  \* the handler's interrupt flag, set by SIGINT or the GUI
  console,    \* MLPerfConsoleAppender's mutex is held by StartTracking
  main        \* where the thread of the stage is

progressVars == <<status, tracked, shown, interrupt, console, main>>

ProgressTypeOK ==
  /\ status \in [Task -> Status]
  /\ tracked \subseteq Task
  /\ shown \subseteq Task
  /\ interrupt \in BOOLEAN
  /\ console \in BOOLEAN

ProgressInit ==
  /\ status = [t \in Task |-> "kReady"]
  /\ tracked = {}
  /\ shown = {}
  /\ interrupt \in BOOLEAN
  /\ console = FALSE

-----------------------------------------------------------------------------
TrackerFinished == shown = tracked

\* The GUI's handler takes the console whether the tracker is quiet or not.
StartTracking(quiet) ==
  console' = (Handler = "gui" \/ (Handler = "console" /\ ~quiet))

StopTracking == console' = FALSE

StartReport(quiet) ==
  /\ main = "report"
  /\ StartTracking(quiet)
  /\ ExecuteTasksAsync
  /\ main' = "loop"
  /\ UNCHANGED <<status, tracked, shown, interrupt>>

\* Variant: a running task counts as finished (>= for >).
Update_RunningIsFinished(quiet) ==
  /\ main = "loop"
  /\ \/ /\ TrackerFinished
        /\ main' = "join"
        /\ UNCHANGED shown
     \/ \E t \in tracked \ shown :
          /\ Front(t, tracked \ shown)
          /\ main' = "wait"
          /\ shown' = IF status[t] \in FinalStatus \cup {"kRunning"}
                      THEN shown \cup {t} ELSE shown
  /\ UNCHANGED <<status, tracked, interrupt, console, schedulerVars>>

\* Variant: a failed task does not count as finished.
Update_FailedIsNotFinal(quiet) ==
  /\ main = "loop"
  /\ \/ /\ TrackerFinished
        /\ main' = "join"
        /\ UNCHANGED shown
     \/ \E t \in tracked \ shown :
          /\ Front(t, tracked \ shown)
          /\ main' = "wait"
          /\ shown' = IF status[t] \in FinalStatus \ {"kFailed"}
                      THEN shown \cup {t} ELSE shown
  /\ UNCHANGED <<status, tracked, interrupt, console, schedulerVars>>

\* The loop condition and HandlerBase::Update.  A quiet tracker is moved past
\* every finished task in a row, the others past one task each tick.
Update(quiet) ==
  /\ main = "loop"
  /\ \/ /\ TrackerFinished
        /\ main' = "join"
        /\ UNCHANGED shown
     \/ \E t \in tracked \ shown :
          /\ Front(t, tracked \ shown)
          /\ \/ /\ status[t] \in FinalStatus
                /\ shown' = shown \cup {t}
                /\ main' = IF shown' = tracked THEN "join"
                           ELSE IF quiet THEN "loop" ELSE "wait"
             \/ /\ status[t] \notin FinalStatus
                /\ main' = "wait"
                /\ UNCHANGED shown
  /\ UNCHANGED <<status, tracked, interrupt, console, schedulerVars>>

\* Variant: the flag is read only once the scheduler has completed.
PollInterrupt_AfterCompletion ==
  /\ main = "wait"
  /\ main' = IF completed /\ interrupt THEN "ask" ELSE "loop"
  /\ UNCHANGED <<status, tracked, shown, interrupt, console, schedulerVars>>

\* WaitForCompletionWithTimeout returns after its timeout or when the
\* scheduler has completed; then the interrupt flag is read.
PollInterrupt ==
  /\ main = "wait"
  /\ main' = IF interrupt THEN "ask" ELSE "loop"
  /\ UNCHANGED <<status, tracked, shown, interrupt, console, schedulerVars>>

\* RequestInterrupt answers true: cancel the scheduler and return false.
AcceptInterrupt ==
  /\ main = "ask"
  /\ CancelTasks
  /\ StopTracking
  /\ main' = "interrupted"
  /\ UNCHANGED <<status, tracked, shown, interrupt>>

\* RequestInterrupt answers false: clear the flag and go on.
DeclineInterrupt ==
  /\ main = "ask"
  /\ interrupt' = FALSE
  /\ main' = "loop"
  /\ UNCHANGED <<status, tracked, shown, console, schedulerVars>>

\* Variant: the thread is not joined when the tracker has finished.
JoinAndReturn_NoJoin ==
  /\ main = "join"
  /\ StopTracking
  /\ main' = "reported"
  /\ UNCHANGED <<status, tracked, shown, interrupt, schedulerVars>>

\* Every task is past: join the thread, stop tracking, return true.
JoinAndReturn ==
  /\ main = "join"
  /\ Joinable
  /\ StopTracking
  /\ main' = "reported"
  /\ UNCHANGED <<status, tracked, shown, interrupt, schedulerVars>>

\* SystemController::InterruptHandler, or the GUI's SetInterrupt(true).
UserInterrupt ==
  /\ ~interrupt
  /\ interrupt' = TRUE
  /\ UNCHANGED <<status, tracked, shown, console, main, schedulerVars>>

=============================================================================

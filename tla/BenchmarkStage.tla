----------------------------- MODULE BenchmarkStage -----------------------------
(***************************************************************************)
(* BenchmargStage::Run (CIL/benchmark/benchmark_stage.cpp) on what the     *)
(* Preparation stage of the same scenario left it.                         *)
(*                                                                         *)
(* The stage walks the model files and, for each, the prepared entries.    *)
(* Every pair that belongs together becomes an executor, a task of its     *)
(* own; consecutive tasks whose model has the same display name form a     *)
(* group with a scheduler and a tracker.  Then the groups are watched      *)
(* through ReportProgress one after the other, until one is interrupted.   *)
(*                                                                         *)
(* Only one group's scheduler is alive at a time, so the state of          *)
(* TaskScheduler is that of the current group.  A task's executor is       *)
(* modelled in full in Executor; here it is what it does to its status.    *)
(***************************************************************************)
EXTENDS Preparation, ReportProgress

CONSTANT Scenarios  \* the scenarios explored

Model == {1, 2}

\* Model 1 is the scenario's own.  Model 2 is the file some entries override
\* it with, which may have the same content, and the same display name.
ASSUME ScenarioAssumption ==
  \A s \in Scenarios :
    /\ DOMAIN s = {"overriding", "sameContent", "sameName"}
    /\ s.overriding \subseteq Ep
    /\ s.sameContent \in BOOLEAN /\ s.sameName \in BOOLEAN

VARIABLES
  scenario,   \* what the configuration says of the models
  model,      \* the model file the loop has reached
  position,   \* the prepared entry it has reached for it
  lastName,   \* last_model_name, 0 at first
  executed,   \* executed_models_hashes
  pairOf,     \* the model and the prepared entry of each task
  groups,     \* benchmarks: sets of tasks
  group,      \* the group being watched
  anyRun,     \* task_executed
  reportedTasks, \* tasks whose result was handed to the results logger
  step,       \* where the scheduler's thread is in a task
  toCancel,   \* executors still to be canceled after an interrupt
  storing,    \* Cancel has tested the first of these, and is about to store
  result      \* what Run returned

buildVars == <<scenario, model, position, lastName, executed, pairOf, groups>>
runVars == <<group, anyRun, reportedTasks, step, toCancel, storing, result>>
vars == <<prepVars, schedulerVars, progressVars, buildVars, runVars>>

Init ==
  /\ PrepInit
  /\ SchedulerInit
  /\ ProgressInit
  /\ main = "prepare"
  /\ scenario \in Scenarios
  /\ model = 1 /\ position = 1 /\ lastName = 0 /\ executed = {}
  /\ pairOf = <<>> /\ groups = <<>> /\ group = 0
  /\ anyRun = FALSE /\ reportedTasks = {}
  /\ step = "none"
  /\ toCancel = {} /\ storing = FALSE
  /\ result = "none"

Content(m) == IF scenario.sameContent THEN 1 ELSE m
DisplayName(m) == IF scenario.sameName THEN 1 ELSE m

Created == 1 .. Len(pairOf)

Return(r) == main' = "returned" /\ result' = r

-----------------------------------------------------------------------------
(* The stages before, and the loops that create the executors.             *)

\* The scenario goes on to this stage unless Preparation failed; enumerating
\* devices ends there.
EnterStage ==
  /\ main = "prepare" /\ prep = "done"
  /\ \/ /\ prepResult = "true" /\ ~request.enumerate
        /\ main' = "build"
        /\ UNCHANGED result
     \/ /\ prepResult = "false" \/ request.enumerate
        /\ Return("skipped")
  /\ UNCHANGED <<prepVars, schedulerVars, status, tracked, shown, interrupt, console,
                 buildVars, group, anyRun, reportedTasks, step, toCancel, storing>>

\* A model file whose content was executed already is passed over.
SkipModel ==
  /\ main = "build" /\ model \in Model /\ position = 1
  /\ Content(model) \in executed
  /\ model' = model + 1
  /\ UNCHANGED <<prepVars, schedulerVars, progressVars, scenario, position, lastName,
                 executed, pairOf, groups, runVars>>

\* Variant: an entry that overrides the model runs the scenario's own as well.
Uses_Both(m, e) == m = 1 \/ e \in scenario.overriding

\* HasModelFileConfig, HasModelConfig: which model file an entry is run with.
Uses(m, e) == (m = 2) = (e \in scenario.overriding)

\* The next prepared entry for this model: an executor in the current group,
\* or in a new one when the name has changed.  N bounds how many there are.
AddExecutor ==
  /\ main = "build" /\ model \in Model
  /\ position = 1 => Content(model) \notin executed
  /\ position <= Len(prepared)
  /\ position' = position + 1
  /\ executed' = executed \cup {Content(model)}
  /\ \/ /\ ~Uses(model, prepared[position][1])
        /\ UNCHANGED <<pairOf, groups, lastName>>
     \/ /\ Uses(model, prepared[position][1])
        /\ Len(pairOf) < N
        /\ pairOf' = Append(pairOf, <<model, position>>)
        /\ lastName' = DisplayName(model)
        /\ LET t == Len(pairOf) + 1
           IN groups' = IF lastName = lastName'
                        THEN [groups EXCEPT ![Len(groups)] = @ \cup {t}]
                        ELSE Append(groups, {t})
  /\ UNCHANGED <<prepVars, schedulerVars, progressVars, scenario, model, runVars>>

EndModel ==
  /\ main = "build" /\ model \in Model
  /\ position > Len(prepared)
  /\ position = 1 => Content(model) \notin executed
  /\ executed' = executed \cup {Content(model)}
  /\ model' = model + 1
  /\ position' = 1
  /\ UNCHANGED <<prepVars, schedulerVars, progressVars, scenario, lastName, pairOf,
                 groups, runVars>>

EndBuild ==
  /\ main = "build" /\ model = 3
  /\ main' = "next"
  /\ UNCHANGED <<prepVars, schedulerVars, status, tracked, shown, interrupt, console,
                 buildVars, runVars>>

-----------------------------------------------------------------------------
(* The groups.                                                             *)

\* Variant: the loop over the groups leaves out its end.
NextGroup_PastTheEnd ==
  /\ main = "next"
  /\ group' = group + 1
  /\ UNCHANGED <<prepVars, schedulerVars, progressVars, buildVars, anyRun,
                 reportedTasks, step, toCancel, storing, result>>

\* The next group, with its own scheduler, whose queue the loops have filled,
\* and its own tracker.
NextGroup ==
  /\ main = "next" /\ group < Len(groups)
  /\ group' = group + 1
  /\ main' = "report"
  /\ queue' = groups[group'] /\ tracked' = groups[group'] /\ shown' = {}
  /\ completed' = FALSE /\ canceled' = FALSE
  /\ thread' = "none" /\ current' = NoTask
  /\ UNCHANGED <<prepVars, status, interrupt, console, buildVars, anyRun,
                 reportedTasks, step, toCancel, storing, result>>

\* All groups are through: true if any executor has returned.
EndStage ==
  /\ main = "next" /\ group = Len(groups)
  /\ Return(IF anyRun THEN "true" ELSE "false")
  /\ UNCHANGED <<prepVars, schedulerVars, status, tracked, shown, interrupt, console,
                 buildVars, group, anyRun, reportedTasks, step, toCancel, storing>>

\* The actions of ReportProgress.
Report ==
  /\ \/ StartReport(FALSE)
     \/ Update(FALSE)
     \/ PollInterrupt
     \/ AcceptInterrupt
     \/ DeclineInterrupt
     \/ JoinAndReturn
  /\ UNCHANGED <<prepVars, buildVars, runVars>>

GroupReported ==
  /\ main = "reported"
  /\ main' = "next"
  /\ UNCHANGED <<prepVars, schedulerVars, status, tracked, shown, interrupt, console,
                 buildVars, runVars>>

\* An interrupted group: every executor of it is canceled ...
BeginCancel ==
  /\ main = "interrupted"
  /\ main' = "canceling"
  /\ toCancel' = groups[group]
  /\ UNCHANGED <<prepVars, schedulerVars, status, tracked, shown, interrupt, console,
                 buildVars, group, anyRun, reportedTasks, step, storing, result>>

CancelTest ==
  /\ main = "canceling" /\ ~storing
  /\ \E t \in toCancel :
       /\ Front(t, toCancel)
       /\ IF status[t] = "kCompleted"
          THEN toCancel' = toCancel \ {t} /\ UNCHANGED storing
          ELSE storing' = TRUE /\ UNCHANGED toCancel
  /\ UNCHANGED <<prepVars, schedulerVars, progressVars, buildVars, group, anyRun,
                 reportedTasks, step, result>>

CancelStore ==
  /\ main = "canceling" /\ storing
  /\ \E t \in toCancel :
       /\ Front(t, toCancel)
       /\ status' = [status EXCEPT ![t] = "kCanceled"]
       /\ toCancel' = toCancel \ {t}
  /\ storing' = FALSE
  /\ UNCHANGED <<prepVars, schedulerVars, tracked, shown, interrupt, console, main,
                 buildVars, group, anyRun, reportedTasks, step, result>>

\* Variant: the stage returns without the destructor's join.
ReturnInterrupted_NoJoin ==
  /\ main = "canceling" /\ toCancel = {}
  /\ Return("false")
  /\ UNCHANGED <<prepVars, schedulerVars, status, tracked, shown, interrupt, console,
                 buildVars, group, anyRun, reportedTasks, step, toCancel, storing>>

\* ... and the stage returns, ~TaskScheduler joining the thread.
ReturnInterrupted ==
  /\ main = "canceling" /\ toCancel = {}
  /\ Joinable
  /\ Return("false")
  /\ UNCHANGED <<prepVars, schedulerVars, status, tracked, shown, interrupt, console,
                 buildVars, group, anyRun, reportedTasks, step, toCancel, storing>>

-----------------------------------------------------------------------------
(* BenchmarkTask on the scheduler's thread.                                *)

InTask(s) == thread = "task" /\ step = s

Goto(s) ==
  /\ step' = s
  /\ UNCHANGED <<prepVars, schedulerVars, tracked, shown, interrupt, console, main,
                 buildVars, group, anyRun, reportedTasks, toCancel, storing, result>>

SetStatus(s) == status' = [status EXCEPT ![current] = s]

BeginTask ==
  /\ \E t \in Task : TakeTask(t)
  /\ step' = "enter"
  /\ UNCHANGED <<prepVars, progressVars, buildVars, group, anyRun, reportedTasks,
                 toCancel, storing, result>>

\* The constructor has failed, which Run takes from the status at once; or the
\* executor is ready.  A status canceled in between is taken the same way.
ConstructorFails ==
  /\ InTask("enter") /\ status[current] = "kReady"
  /\ SetStatus("kFailed") /\ Goto("report")

Enter ==
  /\ InTask("enter")
  /\ UNCHANGED status
  /\ Goto(IF status[current] = "kReady" THEN "validate" ELSE "report")

ValidationFails ==
  /\ InTask("validate")
  /\ SetStatus("kFailed") /\ Goto("report")

SetInitializing ==
  /\ InTask("validate")
  /\ SetStatus("kInitializing") /\ Goto("setup")

SetupFails ==
  /\ InTask("setup")
  /\ SetStatus("kFailed") /\ Goto("report")

SetupDone ==
  /\ InTask("setup")
  /\ UNCHANGED status
  /\ Goto(IF status[current] = "kCanceled" THEN "report" ELSE "start")

SetRunning ==
  /\ InTask("start")
  /\ SetStatus("kRunning") /\ Goto("work")

WorkFails ==
  /\ InTask("work")
  /\ SetStatus("kFailed") /\ Goto("report")

\* The executor has seen that it is canceled, or it gives up on an input and
\* leaves its status as it is.
WorkLeft ==
  /\ InTask("work")
  /\ UNCHANGED status
  /\ Goto("report")

WorkDone ==
  /\ InTask("work") /\ status[current] = "kRunning"
  /\ UNCHANGED status
  /\ Goto("complete")

SetCompleted ==
  /\ InTask("complete")
  /\ SetStatus("kCompleted") /\ Goto("report")

\* The executor throws: the scheduler's thread goes on with the next task.
ExecutorThrows ==
  /\ InTask("work")
  /\ EndTask
  /\ step' = "none"
  /\ UNCHANGED <<prepVars, progressVars, buildVars, group, anyRun, reportedTasks,
                 toCancel, storing, result>>

\* Run has returned, whatever it says: the result is appended to the others,
\* and a failure to do so is only logged.
ReportResult ==
  /\ InTask("report")
  /\ EndTask
  /\ step' = "none"
  /\ anyRun' = TRUE
  /\ reportedTasks' = reportedTasks \cup {current}
  /\ UNCHANGED <<prepVars, progressVars, buildVars, group, toCancel, storing, result>>

EndThread ==
  /\ StopLoop
  /\ UNCHANGED <<prepVars, progressVars, buildVars, runVars>>

-----------------------------------------------------------------------------
Prepare ==
  /\ main = "prepare"
  /\ PrepNext
  /\ UNCHANGED <<schedulerVars, progressVars, buildVars, runVars>>

Interrupt ==
  /\ UserInterrupt
  /\ UNCHANGED <<prepVars, buildVars, runVars>>

MainNext ==
  \/ Prepare \/ EnterStage
  \/ SkipModel \/ AddExecutor \/ EndModel \/ EndBuild
  \/ NextGroup \/ EndStage \/ Report \/ GroupReported
  \/ BeginCancel \/ CancelTest \/ CancelStore \/ ReturnInterrupted

WorkerNext ==
  \/ BeginTask \/ EndThread
  \/ ConstructorFails \/ Enter \/ ValidationFails \/ SetInitializing
  \/ SetupFails \/ SetupDone \/ SetRunning \/ WorkFails \/ WorkLeft \/ WorkDone
  \/ SetCompleted \/ ExecutorThrows \/ ReportResult

Terminated == main = "returned" /\ UNCHANGED vars

Next == MainNext \/ WorkerNext \/ Interrupt \/ Terminated

Spec == Init /\ [][Next]_vars

\* The threads are scheduled, a plugin's calls return, and the user answers.
FairSpec == Spec /\ WF_vars(MainNext) /\ WF_vars(WorkerNext)

-----------------------------------------------------------------------------
(* Properties.                                                             *)

TypeOK ==
  /\ PrepTypeOK /\ SchedulerTypeOK /\ ProgressTypeOK
  /\ main \in {"prepare", "build", "next", "report", "loop", "wait", "ask", "join",
               "reported", "interrupted", "canceling", "returned"}
  /\ scenario \in Scenarios
  /\ model \in 1 .. 3
  /\ position \in 1 .. Len(prepared) + 1
  /\ lastName \in {0} \cup Model
  /\ executed \subseteq Model
  /\ Len(pairOf) <= N
  /\ pairOf \in Seq(Model \X (1 .. Len(prepared)))
  /\ groups \in Seq((SUBSET Created) \ {{}})
  /\ group \in 0 .. Len(groups)
  /\ anyRun \in BOOLEAN
  /\ reportedTasks \subseteq Created
  /\ step \in {"none", "enter", "validate", "setup", "start", "work", "complete", "report"}
  /\ toCancel \subseteq Created
  /\ storing \in BOOLEAN
  /\ result \in {"none", "true", "false", "skipped"}

\* Every prepared entry is run once, with the model file the configuration
\* gives it, in whatever order files and entries are listed; only an override
\* with the content of the scenario's own model is lost.
EveryEntryHasItsModel ==
  main \notin {"prepare", "build"} /\ result # "skipped" =>
    \A i \in DOMAIN prepared :
      LET m == IF prepared[i][1] \in scenario.overriding THEN 2 ELSE 1
          tasks == {t \in Created : pairOf[t][2] = i}
      IN IF m = 2 /\ scenario.sameContent
         THEN tasks = {}
         ELSE \E t \in tasks : tasks = {t} /\ pairOf[t] = <<m, i>>

\* What runs is what was prepared, and what was prepared is what was asked for.
EntriesAreAsPrepared == DevicesAreAsAsked /\ EveryEntryHasItsModel

\* A stage that returns true has handed over the result of every executor of
\* every group, and its thread is through with all of them.
TrueMeansAllReported ==
  result = "true" =>
    /\ Created # {} /\ reportedTasks = Created
    /\ \A t \in Created : status[t] \in FinalStatus
    /\ Joinable

\* What the two stages say of a scenario is so: the devices run on are those asked
\* for, each entry was given its model once, and true means that all of it was run.
ScenarioIsRun == EntriesAreAsPrepared /\ TrueMeansAllReported

\* The worker is through with a task that is not final: its executor threw,
\* or left an input without a word.
Abandoned(t) ==
  /\ status[t] \notin FinalStatus
  /\ t \in tracked \ queue /\ t # current

\* The stage returns, with one group or several, interrupted or not, unless
\* an executor abandons its task: then only the user can end it.
StageReturns ==
  <>(main = "returned" \/ \E t \in Task : Abandoned(t))

Pending == UNION {groups[g] : g \in group + 1 .. Len(groups)}

\* The groups, each with a scheduler of its own, together implement the
\* abstract batch: all executors in the order they were created, one at a
\* time, none begun once the user's interrupt is accepted, and the stage does
\* not return before the last one has.
Batch == INSTANCE TaskBatch WITH
  waiting <- queue \cup Pending, active <- current, stopping <- canceled,
  verdict <- IF result = "skipped" THEN "false" ELSE result

ImplementsBatch == Batch!Spec

=============================================================================

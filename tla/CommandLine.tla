------------------------------ MODULE CommandLine ------------------------------
(***************************************************************************)
(* The command line program from its options to its exit: main             *)
(* (CLI/main.cpp), SystemController (CLI/system_controller.cpp) and the    *)
(* loop of BenchmarkRunner::Run (CIL/benchmark/runner.cpp) over the        *)
(* scenarios of a configuration and the stages of each, with what outlives *)
(* a scenario: the results of BenchmarkLogger, the error message of a      *)
(* stage, the interrupt flag and the CSV file.                             *)
(*                                                                         *)
(* What a stage does inside is in modules of its own (DownloadTasks,       *)
(* BenchmarkStage, ...).  Here it is its answer, what it leaves behind,    *)
(* and the places where ReportProgress asks the user, while the            *)
(* scheduler's thread goes on with its task.                               *)
(***************************************************************************)
EXTENDS Integers, FiniteSets, Sequences

CONSTANTS
  S,         \* scenarios of the configuration
  Key,       \* what a table tells results apart by: model, device type, provider
  MaxMade    \* bound: results of the whole run

ASSUME CommandLineAssumption == S \in Nat /\ MaxMade \in Nat

Scenario == 1 .. S
Result == [number : 1 .. MaxMade, scenario : Scenario, key : Key]

VARIABLES
  settings,  \* --enumerate-devices, download behaviour deps_only, --export-csv
  at,        \* where main's thread is
  scenario,  \* i of the runner's loop
  stage,     \* position in stage_order_
  wasError,  \* was_error
  running,   \* the scheduler's thread is inside an executor
  executed,  \* task_executed
  results,   \* results_ of BenchmarkLogger
  message,   \* the scenario DownloadStage's error_message_ is from, or 0
  interrupt, \* SystemController::interrupt_
  csv,       \* the rows of the CSV file
  answer,    \* what Run returned: "none", "true" or "false"
  printed,   \* the scenario whose message is printed at the end, or 0
  code       \* what main returned

\* What happened, for the properties.
VARIABLES
  made,      \* results appended so far
  shown,     \* those each scenario's table has shown
  displayed, \* the scenarios that came to their table
  failed,    \* those that were broken off
  accepted,  \* those the user stopped
  troubled   \* those in which DownloadStage has set a message

loopVars == <<scenario, stage, wasError, failed>>
workVars == <<running, executed, results, made>>
tableVars == <<csv, shown, displayed>>
messageVars == <<message, troubled>>
endVars == <<answer, printed, code>>
userVars == <<interrupt, accepted>>
vars == <<settings, at, loopVars, workVars, tableVars, messageVars, endVars, userVars>>

Init ==
  /\ settings \in [enumerate : BOOLEAN, depsOnly : BOOLEAN, export : BOOLEAN]
  /\ at = "options"
  /\ scenario = 1 /\ stage = 1 /\ wasError = FALSE /\ failed = {}
  /\ running = FALSE /\ executed = FALSE /\ results = {} /\ made = {}
  /\ csv = {} /\ shown = [i \in Scenario |-> {}] /\ displayed = {}
  /\ message = 0 /\ troubled = {}
  /\ answer = "none" /\ printed = 0 /\ code = "none"
  /\ interrupt = FALSE /\ accepted = {}

-----------------------------------------------------------------------------
(* Before the first scenario.                                              *)

\* main returns before there is a controller: help, a list, a bad option, no
\* logger, a directory that is none, no configuration.
LeaveEarly ==
  /\ at = "options"
  /\ at' = "exit"
  /\ code' \in {"0", "1", "-1"}
  /\ UNCHANGED <<settings, loopVars, workVars, tableVars, messageVars, answer, printed,
                 userVars>>

\* The SystemController is constructed, and with it SIGINT has a handler.
MakeController ==
  /\ at = "options"
  /\ at' = "config"
  /\ UNCHANGED <<settings, loopVars, workVars, tableVars, messageVars, endVars, userVars>>

\* SystemController::Config: the file is no configuration, a directory is not
\* usable, an asset cannot be unpacked, a name is not supported.
ConfigFails ==
  /\ at = "config"
  /\ at' = "exit" /\ code' = "1"
  /\ UNCHANGED <<settings, loopVars, workVars, tableVars, messageVars, answer, printed,
                 userVars>>

\* The constructor of the runner may throw, which Run takes for a failure.
ConfigDone ==
  /\ at = "config"
  /\ \/ at' = (IF S = 0 THEN "report" ELSE "enter") /\ UNCHANGED answer
     \/ at' = "finish" /\ answer' = "false"
  /\ UNCHANGED <<settings, loopVars, workVars, tableVars, messageVars, printed, code,
                 userVars>>

-----------------------------------------------------------------------------
(* The loop over scenarios and stages.                                     *)

\* stage_order_, with the stage the controller adds at its end.
Order ==
  IF settings.enumerate THEN <<"Download", "Preparation", "DisplayResult">>
  ELSE <<"Download", "Preparation", "DataVerification", "Benchmark", "DisplayResult">>

Stage == Order[stage]

NextScenario ==
  /\ scenario' = scenario + 1 /\ stage' = 1
  /\ at' = IF scenario = S THEN "report" ELSE "enter"

\* Variant: the error of one scenario is forgotten with the next.
Fail_Forgotten ==
  /\ NextScenario
  /\ wasError' = (scenario = S) /\ failed' = failed \cup {scenario}

\* The scenario is broken off, and the next one begins.
Fail ==
  /\ NextScenario
  /\ wasError' = TRUE /\ failed' = failed \cup {scenario}

Pass ==
  /\ IF stage = Len(Order) THEN NextScenario
     ELSE stage' = stage + 1 /\ at' = "enter" /\ UNCHANGED scenario
  /\ UNCHANGED <<wasError, failed>>

\* on_enter_stage_: after the dependencies there is nothing more to do, which
\* the runner takes for a failure all the same.
RefuseStage ==
  /\ at = "enter"
  /\ Stage = "Preparation" /\ settings.depsOnly /\ ~settings.enumerate
  /\ Fail
  /\ UNCHANGED <<settings, workVars, tableVars, messageVars, endVars, userVars>>

EnterStage ==
  /\ at = "enter"
  /\ ~(Stage = "Preparation" /\ settings.depsOnly /\ ~settings.enumerate)
  /\ at' = "run"
  /\ executed' = FALSE
  /\ UNCHANGED <<settings, loopVars, running, results, made, tableVars, messageVars,
                 endVars, userVars>>

In(s) == at = "run" /\ Stage = s

\* Download or Preparation; on_failed_stage_ breaks the scenario off.
StagePasses ==
  /\ In("Download") \/ In("Preparation")
  /\ Pass
  /\ UNCHANGED <<settings, workVars, tableVars, messageVars, endVars, userVars>>

StageFails ==
  /\ In("Download") \/ In("Preparation")
  /\ Fail
  /\ UNCHANGED <<settings, workVars, tableVars, messageVars, endVars, userVars>>

\* CheckDiskSpace cannot tell or there is too little, or the disk fills up
\* during a download, when the stage may still return true.  Nobody ever
\* clears the message.
SetErrorMessage ==
  /\ at \in {"run", "ask", "stopping"} /\ Stage = "Download"
  /\ message' = scenario /\ troubled' = troubled \cup {scenario}
  /\ UNCHANGED <<settings, at, loopVars, workVars, tableVars, endVars, userVars>>

\* Whether the files are the known ones or not, the scenario goes on.
VerifyData ==
  /\ In("DataVerification")
  /\ Pass
  /\ UNCHANGED <<settings, workVars, tableVars, messageVars, endVars, userVars>>

-----------------------------------------------------------------------------
(* The benchmark stage: executors on the scheduler's thread.               *)

StartExecutor ==
  /\ at \in {"run", "ask"} /\ Stage = "Benchmark"
  /\ ~running
  /\ running' = TRUE
  /\ UNCHANGED <<settings, at, loopVars, executed, results, made, tableVars, messageVars,
                 endVars, userVars>>

\* AppendBenchmarkResult, whatever the executor came to; its failure is only
\* logged.  An executor that throws leaves nothing.
EndExecutor ==
  /\ running
  /\ running' = FALSE
  /\ \/ UNCHANGED <<executed, results, made>>
     \/ /\ executed' = TRUE
        /\ UNCHANGED <<results, made>>
     \/ /\ executed' = TRUE
        /\ Cardinality(made) < MaxMade
        /\ \E k \in Key :
             LET r == [number |-> Cardinality(made) + 1, scenario |-> scenario, key |-> k]
             IN  results' = results \cup {r} /\ made' = made \cup {r}
  /\ UNCHANGED <<settings, at, loopVars, tableVars, messageVars, endVars, userVars>>

\* All groups are through, and task_executed is returned; or the stage could
\* not begin.
EndBenchmark ==
  /\ In("Benchmark") /\ ~running
  /\ IF executed THEN Pass ELSE Fail
  /\ UNCHANGED <<settings, workVars, tableVars, messageVars, endVars, userVars>>

-----------------------------------------------------------------------------
(* The table, which ends a scenario.                                       *)

\* One result for each key, the latest one.
Latest(rs) == {r \in rs : \A q \in rs : q.key = r.key => q.number <= r.number}

\* Variant: the results are not cleared.
DisplayResultsStage_NotCleared ==
  /\ In("DisplayResult")
  /\ shown' = [shown EXCEPT ![scenario] = Latest(results)]
  /\ displayed' = displayed \cup {scenario}
  /\ csv' = IF settings.export THEN results ELSE csv
  /\ Pass
  /\ UNCHANGED <<settings, workVars, messageVars, endVars, userVars>>

\* The table shows every result since the last one, the file is written anew
\* (or cannot be, which nobody is told), the results are cleared.
DisplayResultsStage ==
  /\ In("DisplayResult")
  /\ shown' = [shown EXCEPT ![scenario] = Latest(results)]
  /\ displayed' = displayed \cup {scenario}
  /\ \/ settings.export /\ csv' = results
     \/ UNCHANGED csv
  /\ results' = {}
  /\ Pass
  /\ UNCHANGED <<settings, running, executed, made, messageVars, endVars, userVars>>

-----------------------------------------------------------------------------
(* The user.                                                               *)

\* InterruptHandler.
Sigint ==
  /\ at \notin {"options", "exit"} /\ ~interrupt
  /\ interrupt' = TRUE
  /\ UNCHANGED <<settings, at, loopVars, workVars, tableVars, messageVars, endVars,
                 accepted>>

\* ReportProgress has seen the flag; a batch that ends first is not asked about.
RequestInterrupt ==
  /\ In("Download") \/ In("Benchmark")
  /\ interrupt
  /\ at' = "ask"
  /\ UNCHANGED <<settings, loopVars, workVars, tableVars, messageVars, endVars, userVars>>

DeclineInterrupt ==
  /\ at = "ask"
  /\ at' = "run" /\ interrupt' = FALSE
  /\ UNCHANGED <<settings, loopVars, workVars, tableVars, messageVars, endVars, accepted>>

\* The flag stays set: what reports progress next asks again at once.
AcceptInterrupt ==
  /\ at = "ask"
  /\ at' = "stopping"
  /\ accepted' = accepted \cup {scenario}
  /\ UNCHANGED <<settings, loopVars, workVars, tableVars, messageVars, endVars, interrupt>>

\* Variant: the results of a stopped stage are appended when it has returned.
StopStage_NoJoin ==
  /\ at = "stopping"
  /\ Fail
  /\ UNCHANGED <<settings, workVars, tableVars, messageVars, endVars, userVars>>

\* The stage returns false when its scheduler's thread has ended.
StopStage ==
  /\ at = "stopping" /\ ~running
  /\ Fail
  /\ UNCHANGED <<settings, workVars, tableVars, messageVars, endVars, userVars>>

-----------------------------------------------------------------------------
(* The end.                                                                *)

\* What a stage throws ends the run, with the scenarios that are left.
StageThrows ==
  /\ at = "run" /\ Stage # "DisplayResult" /\ ~running
  /\ at' = "finish" /\ answer' = "false"
  /\ failed' = failed \cup {scenario}
  /\ UNCHANGED <<settings, scenario, stage, wasError, workVars, tableVars, messageVars,
                 printed, code, userVars>>

\* GetLastErrorMessage: only DownloadStage ever has one.
ReturnFromRun ==
  /\ at = "report"
  /\ at' = "finish"
  /\ answer' = IF wasError THEN "false" ELSE "true"
  /\ printed' = IF wasError THEN message ELSE 0
  /\ UNCHANGED <<settings, loopVars, workVars, tableVars, messageVars, code, userVars>>

\* main does not look at what Run returned.
Exit ==
  /\ at = "finish"
  /\ at' = "exit" /\ code' = "0"
  /\ UNCHANGED <<settings, loopVars, workVars, tableVars, messageVars, answer, printed,
                 userVars>>

Terminated == at = "exit" /\ UNCHANGED vars

Next ==
  \/ LeaveEarly \/ MakeController \/ ConfigFails \/ ConfigDone
  \/ RefuseStage \/ EnterStage \/ StagePasses \/ StageFails \/ SetErrorMessage \/ VerifyData
  \/ StartExecutor \/ EndExecutor \/ EndBenchmark \/ DisplayResultsStage
  \/ Sigint \/ RequestInterrupt \/ DeclineInterrupt \/ AcceptInterrupt \/ StopStage
  \/ StageThrows \/ ReturnFromRun \/ Exit \/ Terminated

Spec == Init /\ [][Next]_vars

-----------------------------------------------------------------------------
(* Properties.                                                             *)

TypeOK ==
  /\ settings \in [enumerate : BOOLEAN, depsOnly : BOOLEAN, export : BOOLEAN]
  /\ at \in {"options", "config", "enter", "run", "ask", "stopping", "report", "finish",
             "exit"}
  /\ scenario \in 1 .. S + 1
  /\ stage \in 1 .. Len(Order)
  /\ wasError \in BOOLEAN /\ running \in BOOLEAN /\ executed \in BOOLEAN
  /\ interrupt \in BOOLEAN
  /\ results \subseteq made /\ csv \subseteq made
  /\ made \subseteq Result
  /\ IsFiniteSet(made)
  /\ shown \in [Scenario -> SUBSET made]
  /\ displayed \subseteq Scenario /\ failed \subseteq Scenario
  /\ accepted \subseteq Scenario /\ troubled \subseteq Scenario
  /\ message \in 0 .. S /\ printed \in 0 .. S
  /\ answer \in {"none", "true", "false"}
  /\ code \in {"none", "0", "1", "-1"}

\* Run says true only if every scenario came to its table, none was broken off
\* or stopped, and no result is left unseen; and a scenario that was broken off
\* has no table.  (It does say true when every executor has failed.)
VerdictIsHonest ==
  /\ answer = "true" =>
       failed = {} /\ accepted = {} /\ displayed = Scenario /\ results = {}
  /\ answer = "false" /\ Scenario # {} => displayed # Scenario
  /\ failed \cap displayed = {}

\* The first table after a result was made, that of its scenario or, when that
\* was broken off, of a later one.
TableOf(r) ==
  {i \in displayed : i >= r.scenario /\ \A j \in displayed : j >= r.scenario => i <= j}

\* A result is shown once, in the first table after it, with its own scenario
\* unless that was broken off; only a later result with the same key takes its
\* place there.  A result that no table came after is kept for one.
ResultsAreShown ==
  \A r \in made :
    /\ \A i \in Scenario : r \in shown[i] => i \in TableOf(r)
    /\ \A i \in TableOf(r) : \E q \in shown[i] : q.key = r.key /\ q.number >= r.number
    /\ TableOf(r) = {} => r \in results

\* The CSV file has nothing the program has not made, and no two tables' results.
FileIsOneTable ==
  \A q, r \in csv : TableOf(q) # {} /\ TableOf(q) = TableOf(r)

\* The message printed at the end is from the last download stage that had one.
MessageIsLast ==
  printed # 0 => printed \in troubled /\ \A i \in troubled : i <= printed

\* What the program says at its end, of the run and in its tables, is so.
RunIsHonest == VerdictIsHonest /\ ResultsAreShown /\ FileIsOneTable /\ MessageIsLast

-----------------------------------------------------------------------------
(* The inductive invariant behind RunIsHonest, for any number of scenarios.*)

Before == {"options", "config"}
Inside == {"run", "ask", "stopping"}

\* Where the run is, and what that says of what it has done.
PlaceInv ==
  /\ at \in Before =>
       /\ scenario = 1 /\ ~wasError
       /\ failed = {} /\ displayed = {} /\ accepted = {} /\ troubled = {}
  /\ at \in Before \cup {"enter"} \cup Inside \cup {"report"} => answer = "none" /\ printed = 0
  /\ at \in {"enter"} \cup Inside => scenario \in Scenario
  /\ at = "report" => scenario = S + 1
  /\ running => at \in Inside /\ Stage = "Benchmark"

\* What became of the scenarios so far.
WalkInv ==
  /\ failed \cap displayed = {}
  /\ failed \cup displayed \subseteq 1 .. scenario
  /\ at \in {"enter"} \cup Inside \cup {"report"} =>
       /\ failed \cup displayed = 1 .. scenario - 1
       /\ wasError = (failed # {})
  /\ accepted \ failed \subseteq {scenario}
  /\ accepted \subseteq failed \/ at = "stopping"

\* What waits for a table is what had none.
TableInv ==
  /\ \A r \in made : r.scenario <= scenario
  /\ results = {r \in made : TableOf(r) = {}}
  /\ \A i \in Scenario \ displayed : shown[i] = {}
  /\ \A r \in csv : TableOf(r) # {}
  /\ ResultsAreShown /\ FileIsOneTable

MessageInv ==
  /\ troubled \subseteq 1 .. scenario
  /\ message = 0 => troubled = {}
  /\ message # 0 => message \in troubled /\ \A i \in troubled : i <= message
  /\ printed \in {0, message}

IInv == TypeOK /\ PlaceInv /\ WalkInv /\ TableInv /\ MessageInv /\ VerdictIsHonest

=============================================================================

-------------------------------- MODULE Executor --------------------------------
(***************************************************************************)
(* One benchmark task: Run and Cancel of a language-model or an image      *)
(* executor (CIL/llm/txt2txt_executor.cpp, CIL/image/txt2img_executor.cpp  *)
(* and the classes they derive from), over the inference wrappers that     *)
(* call the plugin.                                                        *)
(*                                                                         *)
(* The executor reads a few input files.  The inferences asked for by one  *)
(* are tasks in groups: a prompt repeated for warmup and iterations, or,   *)
(* for an agentic scenario, one pass over the whole conversation.  A group *)
(* that fails is skipped, the model being loaded again, or fails the run.  *)
(*                                                                         *)
(* A step is one call of the plugin or one access to the status, which     *)
(* another thread may cancel at any time.  What the plugin answers is      *)
(* free: it may fail, log an error, return nothing, in any combination.    *)
(***************************************************************************)
EXTENDS Integers, Sequences, ProgressableTask, PluginSession

CONSTANTS
  Plans,       \* the numbers of prompts in each input file
  Iterations,  \* iterations_
  Warmup       \* iterations_warmup_

ASSUME ExecutorAssumption ==
  /\ \A plan \in Plans : plan \in Seq(Nat)
  /\ Iterations \in Nat \ {0}
  /\ Warmup \in Nat

Kind == {"text", "agentic", "image"}

VARIABLES
  job,      \* what is to be run, fixed at the start
  at,       \* where Run is
  status,   \* status_
  cancel,   \* where the thread that calls Cancel is
  input,    \* the current input file
  group,    \* group_idx, or the prompt of an image input, from 1
  task,     \* task_iter, from 1
  message,  \* the inference's error_message_ is not empty
  logged,   \* the plugin has logged an error since the log was cleared
  config,   \* the input whose model was loaded last, 0 before any was
  ok,       \* is_success
  empty,    \* a task of the group returned nothing
  done,     \* current_session_index
  measured, \* groups whose times are aggregated
  skipped,  \* skipped_prompts
  skippedRequired, \* has_skipped_required_prompts
  error,    \* benchmark_result_.error_message is not empty
  success,  \* benchmark_result_.benchmark_success
  overall   \* overall results are part of the result

inference == <<plugin, message, logged>>
place == <<input, group, task>>
groupVars == <<ok, empty>>
counts == <<done, measured, skipped, skippedRequired>>
outcome == <<success, overall>>
vars == <<job, at, status, cancel, inference, place, config, groupVars, counts, error, outcome>>

-----------------------------------------------------------------------------
(* The work to be done.                                                    *)

Inputs == 1 .. Len(job.prompts)
Agentic == job.kind = "agentic"
Image == job.kind = "image"

\* An agentic conversation: a warmup prompt, then pairs.
IsConversation(n) == n >= 3 /\ n % 2 = 1

Groups(i) == IF Agentic THEN Iterations ELSE job.prompts[i]

Tasks(i) == IF Agentic THEN 1 + (job.prompts[i] - 1) \div 2 ELSE Iterations + Warmup

SessionsOf(i) ==
  IF Agentic /\ ~IsConversation(job.prompts[i]) THEN 0 ELSE Groups(i) * Tasks(i)

\* sessions_count, the denominator of the progress, one input after another.
SessionsTo[i \in 0 .. Len(job.prompts)] ==
  IF i = 0 THEN 0 ELSE SessionsTo[i - 1] + SessionsOf(i)

Sessions == SessionsTo[Len(job.prompts)]

Config(i) == IF job.sameConfig THEN 1 ELSE i

MaySkip(i) == ~Agentic /\ (job.skipFailed \/ i \notin job.required)

Jobs ==
  UNION {[kind : Kind, prompts : {plan}, required : SUBSET (1 .. Len(plan)),
          skipFailed : BOOLEAN, sameConfig : BOOLEAN] : plan \in Plans}

Init ==
  /\ job \in Jobs
  /\ at = "ready"
  /\ status \in {"kReady", "kFailed"}   \* the constructor may fail
  /\ error = (status = "kFailed")
  /\ cancel = "idle"
  /\ PluginInit /\ message = FALSE /\ logged = FALSE
  /\ input = 1 /\ group = 1 /\ task = 1
  /\ config = 0
  /\ ok = TRUE /\ empty = FALSE
  /\ done = 0 /\ measured = {} /\ skipped = {} /\ skippedRequired = FALSE
  /\ success = FALSE /\ overall = FALSE

-----------------------------------------------------------------------------
(* Cancel, on any thread at any time.                                      *)

CancelTest ==
  /\ cancel = "idle"
  /\ status # "kCompleted"
  /\ cancel' = "store"
  /\ UNCHANGED <<job, at, status, inference, place, config, groupVars, counts, error, outcome>>

CancelStore ==
  /\ cancel = "store"
  /\ cancel' = "idle"
  /\ status' = "kCanceled"
  /\ UNCHANGED <<job, at, inference, place, config, groupVars, counts, error, outcome>>

-----------------------------------------------------------------------------
(* The inference wrappers.                                                 *)

\* GetErrorMessage is not empty.
Error == message \/ logged

\* After a call that succeeded the language-model wrapper clears its message,
\* the image wrapper only after Init and Run; neither clears the plugin's log.
Clears(call) == ~Image \/ call \in {"Init", "Infer"}

Call(call, good) ==
  /\ message' = (~good \/ (message /\ ~Clears(call)))
  /\ logged' \in {logged, TRUE}

-----------------------------------------------------------------------------
(* Run, up to the first input.                                             *)

Goto(from, to) == at = from /\ at' = to

Fail(to) == status' = "kFailed" /\ error' = TRUE /\ at' = to

Enter ==
  /\ Goto("ready", IF status = "kReady" THEN "validate" ELSE "returned")
  /\ UNCHANGED <<job, status, cancel, inference, place, config, groupVars, counts, error, outcome>>

\* Paths, schema, numbers of iterations; the name of the provider.
Validate ==
  /\ at = "validate"
  /\ Fail("returned") \/ (at' = "initialize" /\ UNCHANGED <<status, error>>)
  /\ UNCHANGED <<job, cancel, inference, place, config, groupVars, counts, outcome>>

SetInitializing ==
  /\ Goto("initialize", "provider")
  /\ status' = "kInitializing"
  /\ UNCHANGED <<job, cancel, inference, place, config, groupVars, counts, error, outcome>>

NameToEP ==
  /\ at = "provider"
  /\ Fail("last") \/ (at' = "setup" /\ UNCHANGED <<status, error>>)
  /\ UNCHANGED <<job, cancel, inference, place, config, groupVars, counts, outcome>>

\* The wrapper's constructor: a handler for the library, and Setup.
MakeInference == \E good \in BOOLEAN : Setup(good) /\ Call("Setup", good)

SetupPlugin ==
  /\ at = "setup"
  /\ MakeInference
  /\ IF Error' THEN Fail("release") ELSE at' = "check" /\ UNCHANGED <<status, error>>
  /\ UNCHANGED <<job, cancel, place, config, groupVars, counts, outcome>>

CheckCanceled ==
  /\ Goto("check", IF status = "kCanceled" THEN "release" ELSE "start")
  /\ UNCHANGED <<job, status, cancel, inference, place, config, groupVars, counts, error, outcome>>

SetRunning ==
  /\ Goto("start", "input")
  /\ status' = "kRunning"
  /\ UNCHANGED <<job, cancel, inference, place, config, groupVars, counts, error, outcome>>

-----------------------------------------------------------------------------
(* An input file, its prompts and the groups made of them.                 *)

NextInput ==
  /\ \/ input \notin Inputs /\ Goto("input", IF config = 0 THEN "complete" ELSE "finish")
     \/ input \in Inputs /\ status = "kCanceled" /\ Goto("input", "release")
     \/ /\ input \in Inputs /\ status # "kCanceled"
        /\ Goto("input", IF Image THEN "load" ELSE "tokens")
  /\ UNCHANGED <<job, status, cancel, inference, place, config, groupVars, counts, error, outcome>>

\* The tokenizer fails; there is nothing to tokenize, the file having no
\* prompts or one without any known role; or the prompts are no conversation.
Tokenize ==
  /\ at = "tokens"
  /\ \/ Fail("release")
     \/ at' = "release" /\ UNCHANGED <<status, error>>
     \/ /\ Agentic /\ ~IsConversation(job.prompts[input])
        /\ status' = "kFailed" /\ at' = "release"
        /\ UNCHANGED error
     \/ /\ job.prompts[input] > 0
        /\ Agentic => IsConversation(job.prompts[input])
        /\ at' = "group"
        /\ UNCHANGED <<status, error>>
  /\ UNCHANGED <<job, cancel, inference, place, config, groupVars, counts, outcome>>

BeginGroup ==
  /\ Goto("group", IF Image THEN "task" ELSE "load")
  /\ group <= Groups(input)
  /\ ok' = TRUE /\ empty' = FALSE /\ task' = 1
  /\ UNCHANGED <<job, status, cancel, inference, input, group, config, counts, error, outcome>>

\* Agentic results are aggregated over the iterations, at the end of the input.
EndInput ==
  /\ Goto("group", "input")
  /\ group > Groups(input)
  /\ measured' = IF Agentic THEN measured \cup {<<input, g>> : g \in 1 .. Groups(input)}
                 ELSE measured
  /\ input' = input + 1 /\ group' = 1 /\ task' = 1
  /\ UNCHANGED <<job, status, cancel, inference, config, groupVars,
                 done, skipped, skippedRequired, error, outcome>>

-----------------------------------------------------------------------------
(* Loading the model: before each group of prompts, or once per image input.*)

NeedsReload == config # 0 /\ (config # Config(input) \/ Agentic)

\* The check of the error message after loading, or not having to load.
Loaded ==
  IF Error'
  THEN Fail("release") /\ UNCHANGED config
  ELSE /\ config' = Config(input)
       /\ at' = IF Image THEN "group" ELSE "task"
       /\ UNCHANGED <<status, error>>

\* The changed configuration is loaded over the model that is still there.
LoadModel_NoUnload ==
  /\ at = "load"
  /\ UNCHANGED <<job, cancel, inference, place, groupVars, counts, outcome>>
  /\ \/ (NeedsReload \/ config = 0) /\ at' = "init" /\ UNCHANGED <<status, error, config>>
     \/ config # 0 /\ ~NeedsReload /\ Loaded

LoadModel ==
  /\ at = "load"
  /\ UNCHANGED <<job, cancel, inference, place, groupVars, counts, outcome>>
  /\ \/ NeedsReload /\ at' = "unload" /\ UNCHANGED <<status, error, config>>
     \/ config = 0 /\ at' = "init" /\ UNCHANGED <<status, error, config>>
     \/ config # 0 /\ ~NeedsReload /\ Loaded

InitPlugin ==
  /\ at = "init"
  /\ \E good \in BOOLEAN : InitModel(good) /\ Call("Init", good)
  /\ Loaded
  /\ UNCHANGED <<job, cancel, place, groupVars, counts, outcome>>

\* Every Deinit: before another model, after a group that is skipped, before
\* leaving early, at the end.  Its outcome is looked at by nobody at once.
DeinitPlugin ==
  /\ \/ Goto("unload", "init")
     \/ Goto("skip", "retry")
     \/ Goto("quit", "release")
     \/ Goto("finish", "complete")
  /\ Deinit
  /\ \E good \in BOOLEAN : Call("Deinit", good)
  /\ UNCHANGED <<job, status, cancel, place, config, groupVars, counts, error, outcome>>

\* A skipped group takes the next one with it.
RetryInit_Twice ==
  /\ Goto("retry", "group")
  /\ \E good \in BOOLEAN : InitModel(good) /\ Call("Init", good)
  /\ group' = group + 2
  /\ UNCHANGED <<job, status, cancel, input, task, config, groupVars, counts, error, outcome>>

\* The model is loaded again after a skipped group, whatever comes of it.
RetryInit ==
  /\ Goto("retry", "group")
  /\ \E good \in BOOLEAN : InitModel(good) /\ Call("Init", good)
  /\ group' = group + 1
  /\ UNCHANGED <<job, status, cancel, input, task, config, groupVars, counts, error, outcome>>

-----------------------------------------------------------------------------
(* A task: Prepare, Infer, Reset.                                          *)

CheckTask ==
  /\ at = "task"
  /\ \/ task > Tasks(input) /\ at' = "judge"
     \/ task <= Tasks(input) /\ status = "kCanceled" /\ at' = "quit"
     \/ task <= Tasks(input) /\ status # "kCanceled" /\ at' = "prepare"
  /\ UNCHANGED <<job, status, cancel, inference, place, config, groupVars, counts, error, outcome>>

\* check_error: the message goes into the result and the group has failed.
CheckError == ok' = (ok /\ ~Error') /\ error' = (error \/ (ok /\ Error'))

PreparePlugin ==
  /\ at = "prepare"
  /\ \E good \in BOOLEAN : Prepare(good) /\ Call("Prepare", good)
  /\ CheckError
  /\ at' = IF Error' THEN "judge" ELSE "infer"
  /\ UNCHANGED <<job, status, cancel, place, config, empty, counts, outcome>>

InferPlugin ==
  /\ at = "infer"
  /\ Infer
  /\ \E good \in BOOLEAN, result \in BOOLEAN :
       /\ Call("Infer", good)
       /\ empty' = (empty \/ ~good \/ ~result)
  /\ CheckError
  /\ at' = "reset"
  /\ UNCHANGED <<job, status, cancel, place, config, counts, outcome>>

\* The tools an agentic model asked for fail after its inference: the group
\* is left without a Reset.
ToolsFail ==
  /\ at = "infer"
  /\ Agentic /\ task > 1
  /\ Infer
  /\ \E good \in BOOLEAN : Call("Infer", good) /\ empty' = (empty \/ ~good)
  /\ ok' = FALSE
  /\ at' = "judge"
  /\ UNCHANGED <<job, status, cancel, place, config, counts, error, outcome>>

\* The answer cannot be read, or a tool throws.  The text executor catches
\* that, resets the plugin and leaves the group; the image executor does not.
InferThrows ==
  /\ at = "infer"
  /\ Infer
  /\ logged' \in {logged, TRUE}
  /\ ok' = FALSE
  /\ empty' = TRUE
  /\ at' = IF Image THEN "unwind" ELSE "reset"
  /\ UNCHANGED <<job, status, cancel, message, place, config, counts, error, outcome>>

ResetPlugin ==
  /\ at = "reset"
  /\ \E good \in BOOLEAN : Reset(good) /\ Call("Reset", good)
  /\ CheckError
  /\ at' = IF ok' THEN "decode" ELSE "judge"
  /\ UNCHANGED <<job, status, cancel, place, config, empty, counts, outcome>>

\* DetokenizeOrFail for text; then the task counts.
EndTask ==
  /\ at = "decode"
  /\ \/ ~Image /\ Fail("quit") /\ UNCHANGED <<task, done>>
     \/ /\ at' = "task" /\ task' = task + 1 /\ done' = done + 1
        /\ UNCHANGED <<status, error>>
  /\ UNCHANGED <<job, cancel, inference, input, group, config, groupVars,
                 measured, skipped, skippedRequired, outcome>>

-----------------------------------------------------------------------------
(* A group is over.                                                        *)

GroupIsGood == ok /\ ~empty

Measure ==
  /\ Goto("judge", "group")
  /\ GroupIsGood
  /\ measured' = IF Agentic THEN measured ELSE measured \cup {<<input, group>>}
  /\ group' = group + 1
  /\ UNCHANGED <<job, status, cancel, inference, input, task, config, groupVars,
                 done, skipped, skippedRequired, error, outcome>>

\* The group that is skipped is aggregated as well.
Skip_Measured ==
  /\ Goto("judge", "skip")
  /\ ~GroupIsGood /\ MaySkip(input)
  /\ skipped' = skipped \cup {<<input, group>>}
  /\ measured' = measured \cup {<<input, group>>}
  /\ skippedRequired' = (skippedRequired \/ input \in job.required)
  /\ done' = done + Tasks(input) - (task - 1)
  /\ message' = FALSE /\ logged' = FALSE
  /\ UNCHANGED <<job, status, cancel, plugin, place, config, groupVars, error, outcome>>

\* All tasks of the group are counted, those already done once more.
Skip_AllTasks ==
  /\ Goto("judge", "skip")
  /\ ~GroupIsGood /\ MaySkip(input)
  /\ skipped' = skipped \cup {<<input, group>>}
  /\ skippedRequired' = (skippedRequired \/ input \in job.required)
  /\ done' = done + Tasks(input)
  /\ message' = FALSE /\ logged' = FALSE
  /\ UNCHANGED <<job, status, cancel, plugin, place, config, groupVars, measured, error, outcome>>

\* Only a group that failed counts as a missing required one, not an empty answer.
Skip_EmptyForgotten ==
  /\ Goto("judge", "skip")
  /\ ~GroupIsGood /\ MaySkip(input)
  /\ skipped' = skipped \cup {<<input, group>>}
  /\ skippedRequired' = (skippedRequired \/ (~ok /\ input \in job.required))
  /\ done' = done + Tasks(input) - (task - 1)
  /\ message' = FALSE /\ logged' = FALSE
  /\ UNCHANGED <<job, status, cancel, plugin, place, config, groupVars, measured, error, outcome>>

\* The tasks not reached count as done, and both error messages are cleared.
Skip ==
  /\ Goto("judge", "skip")
  /\ ~GroupIsGood /\ MaySkip(input)
  /\ skipped' = skipped \cup {<<input, group>>}
  /\ skippedRequired' = (skippedRequired \/ input \in job.required)
  /\ done' = done + Tasks(input) - (task - 1)
  /\ message' = FALSE /\ logged' = FALSE
  /\ UNCHANGED <<job, status, cancel, plugin, place, config, groupVars, measured, error, outcome>>

\* The result keeps the message it has, an empty answer having left none.
FailGroup_NoMessage ==
  /\ at = "judge"
  /\ ~GroupIsGood /\ ~MaySkip(input)
  /\ status' = "kFailed" /\ at' = "quit"
  /\ UNCHANGED <<job, cancel, inference, place, config, groupVars, counts, error, outcome>>

FailGroup ==
  /\ at = "judge"
  /\ ~GroupIsGood /\ ~MaySkip(input)
  /\ Fail("quit")
  /\ UNCHANGED <<job, cancel, inference, place, config, groupVars, counts, outcome>>

-----------------------------------------------------------------------------
(* The end.                                                                *)

CheckRunning ==
  /\ Goto("complete", IF status = "kRunning" THEN "setCompleted" ELSE "result")
  /\ UNCHANGED <<job, status, cancel, inference, place, config, groupVars, counts, error, outcome>>

SetCompleted ==
  /\ Goto("setCompleted", "result")
  /\ status' = "kCompleted"
  /\ UNCHANGED <<job, cancel, inference, place, config, groupVars, counts, error, outcome>>

\* Overall results need every required category, some of which no input may
\* have; an input that calls itself "Overall" fails the run here.
StoreResult ==
  /\ Goto("result", "release")
  /\ success' = (status = "kCompleted")
  /\ overall' \in {FALSE, ~Image /\ ~skippedRequired}
  /\ status' = status \/ (overall' /\ status' = "kFailed")
  /\ UNCHANGED <<job, cancel, inference, place, config, groupVars, counts, error>>

\* The inference's destructor, also while an exception is on its way out.
ReleasePlugin ==
  /\ Goto("release", "last") \/ Goto("unwind", "returned")
  /\ Release
  /\ UNCHANGED <<job, status, cancel, message, logged, place, config, groupVars, counts, error, outcome>>

EndRun ==
  /\ Goto("last", "returned")
  /\ error' = (error \/ status = "kCanceled")
  /\ UNCHANGED <<job, status, cancel, inference, place, config, groupVars, counts, outcome>>

-----------------------------------------------------------------------------

Cancel == CancelTest \/ CancelStore

Prologue == \/ Enter \/ Validate \/ SetInitializing \/ NameToEP
            \/ SetupPlugin \/ CheckCanceled \/ SetRunning

RunInput == NextInput \/ Tokenize \/ BeginGroup \/ EndInput

Load == LoadModel \/ InitPlugin \/ DeinitPlugin \/ RetryInit

RunTask == \/ CheckTask \/ PreparePlugin \/ InferPlugin \/ ToolsFail
           \/ InferThrows \/ ResetPlugin \/ EndTask

Judge == Measure \/ Skip \/ FailGroup

Epilogue == CheckRunning \/ SetCompleted \/ StoreResult \/ ReleasePlugin \/ EndRun

Terminated == at = "returned" /\ UNCHANGED vars

Next ==
  \/ Cancel
  \/ Prologue \/ RunInput \/ Load \/ RunTask \/ Judge \/ Epilogue
  \/ Terminated

Spec == Init /\ [][Next]_vars

-----------------------------------------------------------------------------
(* Properties.                                                             *)

Place ==
  {"ready", "validate", "initialize", "provider", "setup", "check", "start",
   "input", "tokens", "group", "load", "unload", "init", "task", "prepare",
   "infer", "reset", "decode", "judge", "skip", "retry", "quit", "finish",
   "complete", "setCompleted", "result", "release", "unwind", "last", "returned"}

Work == UNION {{i} \X (1 .. Groups(i)) : i \in Inputs}

\* Every variable keeps its type; group and task stay within, or one past,
\* what the current input asks for.
TypeOK ==
  /\ job \in Jobs
  /\ at \in Place
  /\ status \in Status
  /\ cancel \in {"idle", "store"}
  /\ plugin \in PluginState
  /\ message \in BOOLEAN /\ logged \in BOOLEAN
  /\ input \in 1 .. Len(job.prompts) + 1
  /\ group \in Nat /\ task \in Nat
  /\ input \in Inputs => group \in 1 .. Groups(input) + 1 /\ task \in 1 .. Tasks(input) + 1
  /\ config \in 0 .. Len(job.prompts)
  /\ ok \in BOOLEAN /\ empty \in BOOLEAN
  /\ done \in Nat
  /\ measured \subseteq Work /\ skipped \subseteq Work
  /\ skippedRequired \in BOOLEAN
  /\ error \in BOOLEAN /\ success \in BOOLEAN /\ overall \in BOOLEAN

\* Whatever fails, and whenever Cancel comes, the plugin is called in order:
\* no model over another one, no inference without a loaded model and a
\* Prepare, a Reset for every inference before the next one, nothing after
\* Release.  A run that succeeds unloads its model before Release.
CallsInOrder ==
  /\ plugin # "misused"
  /\ at = "returned" /\ success => plugin = "released"

\* A run that reports success has seen every group of every input through,
\* or skipped it where that is allowed, and no group both; and a status of
\* kCompleted means success.
SuccessIsEarned ==
  /\ success => /\ measured \cup skipped = Work
                /\ measured \cap skipped = {}
                /\ \A w \in skipped : MaySkip(w[1])
  /\ at = "returned" /\ status = "kCompleted" => success

\* The progress never passes 100 per cent, and a run that succeeds ends there,
\* whatever was skipped on the way and wherever in a group it failed.
ProgressExact == done <= Sessions /\ (success => done = Sessions)

\* Overall results are only given when every prompt of a required category
\* was measured in all its iterations, however the run ended.
OverallIsComplete ==
  overall => \A w \in Work : w[1] \in job.required => w \in measured

\* A run that returns kFailed says why, also when the plugin only returned an
\* empty answer.  Two paths do not: prompts that are no agentic conversation,
\* and a category that is named like the overall results.
FailureIsExplained ==
  at = "returned" /\ status = "kFailed" =>
    \/ error
    \/ overall
    \/ Agentic /\ \E i \in Inputs : ~IsConversation(job.prompts[i])

\* What Run reports besides its status is neither too good nor missing.
ResultIsHonest == OverallIsComplete /\ FailureIsExplained

=============================================================================

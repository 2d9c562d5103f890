--------------------------- MODULE Results_proofs ---------------------------
(***************************************************************************)
(* Proofs about the results of a run: how Executor makes them, for every   *)
(* plan of input files and prompts, every number of iterations, both       *)
(* modalities and agentic scenarios, against a plugin that may answer      *)
(* anything and a Cancel at any step; and how ResultsHistory keeps them,   *)
(* for every number of runs, of interrupted writes and of interrupted      *)
(* rewrites.  The two machines share no variable.                          *)
(***************************************************************************)
EXTENDS Executor, ResultsHistory, TLAPS, FiniteSetTheorems, SequenceTheorems,
        WellFoundedInduction

-----------------------------------------------------------------------------
(* Induction and loops.                                                    *)

\* Induction over 0 .. n, for the set of the numbers a formula holds of.
LEMMA Induction ==
  ASSUME NEW n \in Nat, NEW S, 0 \in S, \A k \in 0 .. n - 1 : k \in S => k + 1 \in S
  PROVE  \A k \in 0 .. n : k \in S
<1> DEFINE R == OpToRel(<, Nat)
           B == {k \in 0 .. n : k \notin S}
<1>1. SUFFICES ASSUME B # {} PROVE FALSE
  OBVIOUS
<1>2. IsWellFoundedOn(R, Nat)
  BY NatLessThanWellFounded
<1>a. B \subseteq Nat
  OBVIOUS
<1> HIDE DEF R
<1>3. PICK x \in B : \A y \in B : ~(<<y, x>> \in R)
  BY <1>1, <1>2, <1>a, WFMin
<1>4. \A y \in B : ~(y < x)
  BY <1>a, <1>3 DEF R, OpToRel
<1>5. x \in 1 .. n
  BY <1>3
<1>6. x - 1 \in 0 .. n - 1 /\ x - 1 < x /\ x - 1 + 1 = x
  BY <1>5
<1>7. x - 1 \in S
  BY <1>4, <1>6
<1> QED
  BY <1>3, <1>6, <1>7

\* A loop of n turns: from a value to the next by a function of the turn and the value.
Turns(n, T) == [(1 .. n) \X T -> T]
Loops(n, T, a, step) ==
  {f \in [0 .. n -> T] : f[0] = a /\ \A i \in 1 .. n : f[i] = step[<<i, f[i - 1]>>]}

\* Such a loop exists, and therefore has values.
LEMMA LoopExists ==
  ASSUME NEW n \in Nat, NEW T, NEW a \in T, NEW step \in Turns(n, T)
  PROVE  Loops(n, T, a, step) # {}
<1> USE DEF Turns
<1> DEFINE Upto(k, g) == g[0] = a /\ \A i \in 1 .. n : i <= k => g[i] = step[<<i, g[i - 1]>>]
           S == {k \in 0 .. n : \E g \in [0 .. n -> T] : Upto(k, g)}
<1>1. 0 \in S
  <2>1. [i \in 0 .. n |-> a] \in [0 .. n -> T] /\ Upto(0, [i \in 0 .. n |-> a])
    OBVIOUS
  <2> QED
    BY <2>1
<1>2. ASSUME NEW k \in 0 .. n - 1, k \in S PROVE k + 1 \in S
  <2>1. PICK g \in [0 .. n -> T] : Upto(k, g)
    BY <1>2
  <2>2. k \in 0 .. n /\ k + 1 \in 1 .. n /\ g[k] \in T
    OBVIOUS
  <2>3. PICK v \in T : v = step[<<k + 1, g[k]>>]
    BY <2>2
  <2> DEFINE h == [g EXCEPT ![k + 1] = v]
  <2>4. h \in [0 .. n -> T] /\ h[0] = a
    BY <2>1, <2>2
  <2>5. ASSUME NEW i \in 1 .. n, i <= k + 1 PROVE h[i] = step[<<i, h[i - 1]>>]
    <3>1. i - 1 \in 0 .. n /\ i - 1 # k + 1 /\ i \in 0 .. n
      BY <2>2, <2>5
    <3>2. h[i - 1] = g[i - 1]
      BY <3>1
    <3>3. CASE i = k + 1
      <4>1. h[i] = v /\ i - 1 = k
        BY <2>2, <3>3
      <4> QED
        BY <2>3, <3>2, <3>3, <4>1
    <3>4. CASE i # k + 1
      <4>1. i <= k
        BY <2>2, <2>5, <3>4
      <4>2. h[i] = g[i]
        BY <3>1, <3>4
      <4> QED
        BY <2>1, <3>2, <4>1, <4>2
    <3> QED
      BY <3>3, <3>4
  <2>6. Upto(k + 1, h)
    BY <2>4, <2>5
  <2> HIDE DEF h, Upto
  <2> QED
    BY <2>2, <2>4, <2>6
<1>3. \A k \in 0 .. n : k \in S
  <2> HIDE DEF S
  <2> QED
    BY <1>1, <1>2, Induction
<1>4. PICK g \in [0 .. n -> T] : Upto(n, g)
  BY <1>3
<1> QED
  BY <1>4 DEF Loops

-----------------------------------------------------------------------------
(* Executor.                                                               *)

\* What the constants say of a job.
LEMMA JobFacts ==
  ASSUME job \in Jobs
  PROVE  /\ job.kind \in Kind
         /\ job.prompts \in Seq(Nat)
         /\ job.skipFailed \in BOOLEAN
         /\ job.sameConfig \in BOOLEAN
<1>1. PICK plan \in Plans :
        job \in [kind : Kind, prompts : {plan}, required : SUBSET (1 .. Len(plan)),
                 skipFailed : BOOLEAN, sameConfig : BOOLEAN]
  BY DEF Jobs
<1> QED
  BY <1>1, ExecutorAssumption

\* No step changes the job.
LEMMA JobIsFixed == [Next]_vars => job' = job
  BY DEF Next, Cancel, CancelTest, CancelStore, Prologue, Enter, Validate,
         SetInitializing, NameToEP, SetupPlugin, MakeInference, CheckCanceled, SetRunning,
         RunInput, NextInput, Tokenize, BeginGroup, EndInput,
         Load, LoadModel, InitPlugin, DeinitPlugin, RetryInit,
         RunTask, CheckTask, PreparePlugin, InferPlugin, ToolsFail,
         InferThrows, ResetPlugin, EndTask, Judge, Measure, Skip, FailGroup,
         Epilogue, CheckRunning, SetCompleted, StoreResult, ReleasePlugin, EndRun,
         Terminated, vars

-----------------------------------------------------------------------------
(* The order of the plugin's calls.                                        *)

\* A group may begin: the model is there, or the error message of the Init
\* that failed still is.
Ready == plugin = "loaded" \/ (plugin = "broken" /\ message)

\* The same for its tasks.  A text executor has looked at the message before.
ReadyForTask == plugin = "loaded" \/ (Image /\ plugin = "broken" /\ message)

HasModel == plugin \in {"loaded", "broken", "prepared", "ran"}

BooleanInv ==
  /\ message \in BOOLEAN /\ logged \in BOOLEAN /\ ok \in BOOLEAN /\ success \in BOOLEAN

\* What the plugin has seen when Run is at each of its places.
PluginInv ==
  /\ at \in {"ready", "validate", "initialize", "provider", "setup"} =>
       plugin = "none" /\ config = 0
  /\ at \in {"check", "start"} => plugin = "idle" /\ config = 0
  /\ at \in {"input", "tokens", "group", "load"} =>
       IF config = 0 THEN plugin = "idle" ELSE Ready
  /\ at = "tokens" => ~Image
  /\ at = "group" /\ Image => config # 0
  /\ at \in {"unload", "finish"} => plugin \in {"loaded", "broken"}
  /\ at \in {"init", "retry"} => plugin = "idle"
  /\ at \in {"task", "prepare"} => ReadyForTask
  /\ at = "infer" => plugin = "prepared"
  /\ at \in {"reset", "unwind"} => plugin = "ran"
  /\ at = "decode" => plugin = "loaded"
  /\ at \in {"judge", "skip", "quit"} => HasModel
  /\ at = "judge" /\ ok => ReadyForTask
  /\ at \in {"task", "prepare", "infer", "reset", "decode", "judge", "skip", "retry"} =>
       config # 0
  /\ at \in {"complete", "setCompleted", "result"} => plugin = "idle"
  /\ at = "release" => HasModel \/ plugin \in {"none", "idle"}
  /\ at \in {"last", "returned"} => plugin \in {"none", "released", "leaked"}

SuccessInv ==
  success => \/ at = "release" /\ plugin = "idle"
             \/ at \in {"last", "returned"} /\ plugin = "released"

InputInv == input \in Nat \ {0} /\ at \in Place

OrderInv ==
  job \in Jobs /\ BooleanInv /\ InputInv /\ PluginInv /\ SuccessInv

\* The plugin has not been called at first.
LEMMA OrderInit == Init => OrderInv
<1> SUFFICES ASSUME Init PROVE OrderInv
  OBVIOUS
<1>1. job \in Jobs /\ InputInv
  BY DEF Init, InputInv, Place
<1>4. BooleanInv
  BY Zenon DEF Init, BooleanInv
<1>2. PluginInv
  BY DEF Init, PluginInit, PluginInv
<1>3. SuccessInv
  BY DEF Init, SuccessInv
<1> QED
  BY <1>1, <1>2, <1>3, <1>4 DEF OrderInv

\* The configuration of an input is never 0, which stands for none.
LEMMA ConfigIsNotZero ==
  ASSUME job \in Jobs, input \in Nat \ {0}
  PROVE  Config(input) # 0
  BY JobFacts DEF Config

\* The step of any action whose guard and next place are known is checked
\* conjunct by conjunct.
LEMMA OrderStep == OrderInv /\ [Next]_vars => OrderInv'
<1> SUFFICES ASSUME OrderInv, [Next]_vars PROVE OrderInv'
  OBVIOUS
<1>0. job' \in Jobs /\ Config(input) # 0
  BY JobIsFixed, ConfigIsNotZero DEF OrderInv, InputInv
<1> USE <1>0 DEF OrderInv, BooleanInv, InputInv, Place, PluginInv, SuccessInv,
               Ready, ReadyForTask, HasModel, Image, inference, place, groupVars,
               counts, outcome, Goto, Fail
<1>1. CASE Cancel
  BY <1>1 DEF Cancel, CancelTest, CancelStore
<1>2. CASE Prologue
  <2>1. CASE Enter
    BY <2>1 DEF Enter
  <2>2. CASE Validate
    BY <2>2 DEF Validate
  <2>3. CASE SetInitializing
    BY <2>3 DEF SetInitializing
  <2>4. CASE NameToEP
    BY <2>4 DEF NameToEP
  <2>5. CASE SetupPlugin
    <3>1. /\ plugin' \in {"idle", "none"}
          /\ plugin' = "none" => message'
          /\ message' \in BOOLEAN /\ logged' \in BOOLEAN
      BY <2>5 DEF SetupPlugin, MakeInference, Setup, Answer, Call, Clears
    <3> QED
      BY <2>5, <3>1 DEF SetupPlugin, Error
  <2>6. CASE CheckCanceled
    BY <2>6 DEF CheckCanceled
  <2>7. CASE SetRunning
    BY <2>7 DEF SetRunning
  <2> QED
    BY <1>2, <2>1, <2>2, <2>3, <2>4, <2>5, <2>6, <2>7 DEF Prologue
<1>3. CASE RunInput
  <2>1. CASE NextInput
    BY <2>1 DEF NextInput
  <2>2. CASE Tokenize
    BY <2>2 DEF Tokenize
  <2>3. CASE BeginGroup
    BY <2>3 DEF BeginGroup
  <2>4. CASE EndInput
    BY <2>4 DEF EndInput
  <2> QED
    BY <1>3, <2>1, <2>2, <2>3, <2>4 DEF RunInput
<1>4. CASE Load
  <2>1. CASE LoadModel
    BY <2>1 DEF LoadModel, NeedsReload, Loaded, Error
  <2>2. CASE InitPlugin
    <3>1. /\ plugin' \in {"loaded", "broken"}
          /\ plugin' = "broken" => message'
          /\ message' \in BOOLEAN /\ logged' \in BOOLEAN
      BY <2>2 DEF InitPlugin, InitModel, Answer, Call, Clears
    <3>2. CASE Error'
      BY <2>2, <3>1, <3>2 DEF InitPlugin, Loaded
    <3>3. CASE ~Error'
      BY <2>2, <3>1, <3>3 DEF InitPlugin, Loaded, Error
    <3> QED
      BY <3>2, <3>3
  <2>3. CASE DeinitPlugin
    BY <2>3 DEF DeinitPlugin, Deinit, Answer, Call, Clears
  <2>4. CASE RetryInit
    BY <2>4 DEF RetryInit, InitModel, Answer, Call, Clears
  <2> QED
    BY <1>4, <2>1, <2>2, <2>3, <2>4 DEF Load
<1>5. CASE RunTask
  <2>1. CASE CheckTask
    BY <2>1 DEF CheckTask
  <2>2. CASE PreparePlugin
    <3>1. /\ plugin' \in {"prepared", "broken"}
          /\ plugin' = "broken" => message'
          /\ message' \in BOOLEAN /\ logged' \in BOOLEAN
      BY <2>2 DEF PreparePlugin, Prepare, Answer, Call, Clears
    <3> QED
      BY <2>2, <3>1 DEF PreparePlugin, CheckError, Error
  <2>3. CASE InferPlugin
    BY <2>3 DEF InferPlugin, Infer, Answer, Call, Clears, CheckError, Error
  <2>4. CASE ToolsFail
    BY <2>4 DEF ToolsFail, Infer, Answer, Call, Clears
  <2>5. CASE InferThrows
    BY <2>5 DEF InferThrows, Infer, Answer
  <2>6. CASE ResetPlugin
    <3>1. /\ plugin' \in {"loaded", "broken"}
          /\ plugin' = "broken" => message'
          /\ message' \in BOOLEAN /\ logged' \in BOOLEAN
      BY <2>6 DEF ResetPlugin, Reset, Answer, Call, Clears
    <3> QED
      BY <2>6, <3>1 DEF ResetPlugin, CheckError, Error
  <2>7. CASE EndTask
    BY <2>7 DEF EndTask
  <2> QED
    BY <1>5, <2>1, <2>2, <2>3, <2>4, <2>5, <2>6, <2>7 DEF RunTask
<1>6. CASE Judge
  <2>1. CASE Measure
    BY <2>1 DEF Measure, GroupIsGood
  <2>2. CASE Skip
    BY <2>2 DEF Skip
  <2>3. CASE FailGroup
    BY <2>3 DEF FailGroup
  <2> QED
    BY <1>6, <2>1, <2>2, <2>3 DEF Judge
<1>7. CASE Epilogue
  <2>1. CASE CheckRunning
    BY <2>1 DEF CheckRunning
  <2>2. CASE SetCompleted
    BY <2>2 DEF SetCompleted
  <2>3. CASE StoreResult
    BY <2>3 DEF StoreResult
  <2>4. CASE ReleasePlugin
    BY <2>4 DEF ReleasePlugin, Release, Answer, PluginState, Released
  <2>5. CASE EndRun
    BY <2>5 DEF EndRun
  <2> QED
    BY <1>7, <2>1, <2>2, <2>3, <2>4, <2>5 DEF Epilogue
<1>8. CASE UNCHANGED vars
  BY <1>8 DEF vars
<1> QED
  BY <1>1, <1>2, <1>3, <1>4, <1>5, <1>6, <1>7, <1>8 DEF Next, Terminated

\* What PluginInv and SuccessInv say of every place in Run is always so.
THEOREM Order == Spec => []OrderInv
<1>1. Init => OrderInv
  BY OrderInit
<1>2. OrderInv /\ [Next]_vars => OrderInv'
  BY OrderStep
<1> QED
  BY <1>1, <1>2, PTL DEF Spec

\* Whatever the plugin answers and whenever Cancel comes, the plugin is never
\* called out of order, and a run that succeeds has unloaded its model.
THEOREM CallOrder == Spec => []CallsInOrder
<1>1. OrderInv => CallsInOrder
  BY DEF OrderInv, InputInv, Place, PluginInv, SuccessInv, Ready, ReadyForTask,
         HasModel, CallsInOrder
<1> QED
  BY <1>1, Order, PTL

-----------------------------------------------------------------------------
(* The work of a job.                                                      *)

\* The groups Run has passed when it is at group g of input i.
Before(i, g) == {w \in Work : w[1] < i \/ (w[1] = i /\ w[2] < g)}

\* A job has finitely many prompts, groups and tasks.
LEMMA WorkFacts ==
  ASSUME job \in Jobs
  PROVE  /\ \A i \in Inputs : job.prompts[i] \in Nat /\ Groups(i) \in Nat /\ Tasks(i) \in Nat
         /\ Len(job.prompts) \in Nat
<1>1. job.prompts \in Seq(Nat) /\ Iterations \in Nat /\ Warmup \in Nat
  BY JobFacts, ExecutorAssumption
<1>2. Len(job.prompts) \in Nat /\ \A i \in Inputs : job.prompts[i] \in Nat
  BY <1>1 DEF Inputs
<1>3. \A n \in Nat : 1 + (n - 1) \div 2 \in Nat
  OBVIOUS
<1> QED
  BY <1>1, <1>2, <1>3 DEF Groups, Tasks

\* What the work of a job consists of.
LEMMA WorkElements ==
  /\ \A i, g : <<i, g>> \in Work <=> i \in Inputs /\ g \in 1 .. Groups(i)
  /\ \A w \in Work : w = <<w[1], w[2]>> /\ w[1] \in Inputs /\ w[2] \in 1 .. Groups(w[1])
  BY DEF Work

\* What is before the next group, and before the next input.
LEMMA BeforeFacts ==
  ASSUME job \in Jobs
  PROVE  /\ Before(1, 1) = {}
         /\ Before(Len(job.prompts) + 1, 1) = Work
         /\ \A i \in Inputs, g \in Nat :
              /\ g \in 1 .. Groups(i) =>
                   /\ <<i, g>> \notin Before(i, g)
                   /\ Before(i, g + 1) = Before(i, g) \cup {<<i, g>>}
              /\ g > Groups(i) => Before(i, g) = Before(i + 1, 1)
              /\ Before(i, 1) \cup {<<i, h>> : h \in 1 .. Groups(i)} = Before(i + 1, 1)
<1> USE WorkFacts, WorkElements DEF Before, Inputs
<1>1. Before(1, 1) = {}
  OBVIOUS
<1>2. Before(Len(job.prompts) + 1, 1) = Work
  OBVIOUS
<1> SUFFICES ASSUME NEW i \in Inputs, NEW g \in Nat
             PROVE  /\ g \in 1 .. Groups(i) =>
                         /\ <<i, g>> \notin Before(i, g)
                         /\ Before(i, g + 1) = Before(i, g) \cup {<<i, g>>}
                    /\ g > Groups(i) => Before(i, g) = Before(i + 1, 1)
                    /\ Before(i, 1) \cup {<<i, h>> : h \in 1 .. Groups(i)} = Before(i + 1, 1)
  BY <1>1, <1>2
<1>3. ASSUME g \in 1 .. Groups(i) PROVE <<i, g>> \notin Before(i, g)
  BY <1>3
<1>4. ASSUME g \in 1 .. Groups(i) PROVE Before(i, g + 1) = Before(i, g) \cup {<<i, g>>}
  BY <1>4
<1>5. ASSUME g > Groups(i) PROVE Before(i, g) = Before(i + 1, 1)
  BY <1>5
<1>6. Before(i, 1) \cup {<<i, h>> : h \in 1 .. Groups(i)} = Before(i + 1, 1)
  OBVIOUS
<1> QED
  BY <1>3, <1>4, <1>5, <1>6

-----------------------------------------------------------------------------
(* Where Run is in its work.                                               *)

InGroup == {"task", "prepare", "infer", "reset", "decode", "judge", "skip", "retry"}
InTask == {"prepare", "infer", "reset", "decode"}
Loading == {"load", "unload", "init"}

PositionInv ==
  /\ input \in 1 .. Len(job.prompts) + 1
  /\ group \in Nat /\ task \in Nat
  /\ input \in Inputs => group \in 1 .. Groups(input) + 1 /\ task \in 1 .. Tasks(input) + 1

PlaceInv ==
  /\ at \in {"tokens", "group"} \cup Loading \cup InGroup => input \in Inputs
  /\ at \in InGroup => group <= Groups(input)
  /\ ~Image /\ at \in Loading => group <= Groups(input)
  /\ at = "tokens" => ~Image
  /\ at \in InTask => task <= Tasks(input)

WalkInv == job \in Jobs /\ PositionInv /\ PlaceInv

\* Run starts at the first group of the first input.
LEMMA WalkInit == Init => WalkInv
<1> SUFFICES ASSUME Init PROVE WalkInv
  OBVIOUS
<1> USE WorkFacts DEF Init
<1>1. PositionInv
  BY DEF PositionInv, Inputs
<1>2. PlaceInv
  BY DEF PlaceInv, InGroup, InTask, Loading
<1> QED
  BY <1>1, <1>2 DEF WalkInv

\* Run stays within the groups and tasks of its input.
LEMMA WalkStep == WalkInv /\ [Next]_vars => WalkInv'
<1> SUFFICES ASSUME WalkInv, [Next]_vars PROVE WalkInv'
  OBVIOUS
<1>0. /\ job' = job /\ job' \in Jobs
      /\ Inputs' = Inputs /\ Image' = Image
      /\ \A i \in Inputs : Groups(i) \in Nat /\ Tasks(i) \in Nat
      /\ \A i \in Inputs : Groups(i)' = Groups(i) /\ Tasks(i)' = Tasks(i)
      /\ Len(job.prompts) \in Nat
      /\ Inputs = 1 .. Len(job.prompts)
  BY JobIsFixed, WorkFacts DEF WalkInv, Inputs, Image, Groups, Tasks, Agentic
<1> USE <1>0 DEF WalkInv, PositionInv, PlaceInv, InGroup, InTask, Loading,
               inference, place, groupVars, counts, outcome, Goto, Fail
<1>1. CASE Cancel
  BY <1>1 DEF Cancel, CancelTest, CancelStore
<1>2. CASE Prologue
  <2>1. CASE Enter
    BY <2>1 DEF Enter
  <2>2. CASE Validate
    BY <2>2 DEF Validate
  <2>3. CASE SetInitializing
    BY <2>3 DEF SetInitializing
  <2>4. CASE NameToEP
    BY <2>4 DEF NameToEP
  <2>5. CASE SetupPlugin
    BY <2>5 DEF SetupPlugin, MakeInference, Setup, Answer, Call, Clears
  <2>6. CASE CheckCanceled
    BY <2>6 DEF CheckCanceled
  <2>7. CASE SetRunning
    BY <2>7 DEF SetRunning
  <2> QED
    BY <1>2, <2>1, <2>2, <2>3, <2>4, <2>5, <2>6, <2>7 DEF Prologue
<1>3. CASE RunInput
  <2>1. CASE NextInput
    BY <2>1 DEF NextInput
  <2>2. CASE Tokenize
    BY <2>2 DEF Tokenize
  <2>3. CASE BeginGroup
    BY <2>3 DEF BeginGroup
  <2>4. CASE EndInput
    BY <2>4 DEF EndInput
  <2> QED
    BY <1>3, <2>1, <2>2, <2>3, <2>4 DEF RunInput
<1>4. CASE Load
  <2>1. CASE LoadModel
    BY <2>1 DEF LoadModel, Loaded
  <2>2. CASE InitPlugin
    BY <2>2 DEF InitPlugin, InitModel, Answer, Call, Clears, Loaded
  <2>3. CASE DeinitPlugin
    BY <2>3 DEF DeinitPlugin, Deinit, Answer, Call, Clears
  <2>4. CASE RetryInit
    BY <2>4 DEF RetryInit, InitModel, Answer, Call, Clears
  <2> QED
    BY <1>4, <2>1, <2>2, <2>3, <2>4 DEF Load
<1>5. CASE RunTask
  <2>1. CASE CheckTask
    BY <2>1 DEF CheckTask
  <2>2. CASE PreparePlugin
    BY <2>2 DEF PreparePlugin, Prepare, Answer, Call, Clears, CheckError
  <2>3. CASE InferPlugin
    BY <2>3 DEF InferPlugin, Infer, Answer, Call, Clears, CheckError
  <2>4. CASE ToolsFail
    BY <2>4 DEF ToolsFail, Infer, Answer, Call, Clears
  <2>5. CASE InferThrows
    BY <2>5 DEF InferThrows, Infer, Answer
  <2>6. CASE ResetPlugin
    BY <2>6 DEF ResetPlugin, Reset, Answer, Call, Clears, CheckError
  <2>7. CASE EndTask
    BY <2>7 DEF EndTask
  <2> QED
    BY <1>5, <2>1, <2>2, <2>3, <2>4, <2>5, <2>6, <2>7 DEF RunTask
<1>6. CASE Judge
  <2>1. CASE Measure
    BY <2>1 DEF Measure
  <2>2. CASE Skip
    BY <2>2 DEF Skip
  <2>3. CASE FailGroup
    BY <2>3 DEF FailGroup
  <2> QED
    BY <1>6, <2>1, <2>2, <2>3 DEF Judge
<1>7. CASE Epilogue
  <2>1. CASE CheckRunning
    BY <2>1 DEF CheckRunning
  <2>2. CASE SetCompleted
    BY <2>2 DEF SetCompleted
  <2>3. CASE StoreResult
    BY <2>3 DEF StoreResult
  <2>4. CASE ReleasePlugin
    BY <2>4 DEF ReleasePlugin, Release, Answer
  <2>5. CASE EndRun
    BY <2>5 DEF EndRun
  <2> QED
    BY <1>7, <2>1, <2>2, <2>3, <2>4, <2>5 DEF Epilogue
<1>8. CASE UNCHANGED vars
  BY <1>8 DEF vars
<1> QED
  BY <1>1, <1>2, <1>3, <1>4, <1>5, <1>6, <1>7, <1>8 DEF Next, Terminated

-----------------------------------------------------------------------------
(* What Run has seen through.                                              *)

\* Places at which the groups before the current one are settled, and no other.
Settled ==
  {"ready", "validate", "initialize", "provider", "setup", "check", "start",
   "input", "tokens", "group", "load", "unload", "init", "task", "prepare",
   "infer", "reset", "decode", "judge"}

\* The groups settled there.  An agentic input is measured at its end.
Passed == IF Agentic THEN Before(input, 1) ELSE Before(input, group)

SeenInv ==
  /\ measured \cap skipped = {}
  /\ \A w \in skipped : MaySkip(w[1])
  /\ at \in Settled => measured \cup skipped = Passed
  /\ at \in {"skip", "retry"} =>
       ~Agentic /\ measured \cup skipped = Passed \cup {<<input, group>>}
  /\ at \in Settled \ (InGroup \cup Loading \cup {"tokens", "group"}) => group = 1
  /\ at \in {"finish", "complete", "setCompleted", "result"} => measured \cup skipped = Work
  /\ success => at \in {"release", "last", "returned"} /\ measured \cup skipped = Work
  /\ status = "kCompleted" => at = "result" \/ success
  /\ at \in Place

\* At first nothing has been seen through.
LEMMA SeenInit == WalkInv /\ Init => SeenInv
  BY BeforeFacts DEF Init, SeenInv, WalkInv, Settled, Passed, Place

\* What is before the place Run is at has been seen through or skipped.
LEMMA SeenStep == WalkInv /\ WalkInv' /\ SeenInv /\ [Next]_vars => SeenInv'
<1> SUFFICES ASSUME WalkInv, WalkInv', SeenInv, [Next]_vars PROVE SeenInv'
  OBVIOUS
<1>0. /\ job' = job /\ Agentic' = Agentic /\ Inputs' = Inputs /\ Work' = Work
      /\ \A i : MaySkip(i)' = MaySkip(i) /\ Groups(i)' = Groups(i)
      /\ \A i, g : Before(i, g)' = Before(i, g)
      /\ MaySkip(input) => ~Agentic
  BY JobIsFixed DEF Agentic, Inputs, MaySkip, Groups, Before, Work
<1> USE <1>0 DEF SeenInv, Settled, Passed, InGroup, Loading, Place,
               inference, place, groupVars, counts, outcome, Goto, Fail
<1>1. CASE Cancel
  BY <1>1 DEF Cancel, CancelTest, CancelStore
<1>2. CASE Prologue
  <2>1. CASE Enter
    BY <2>1 DEF Enter
  <2>2. CASE Validate
    BY <2>2 DEF Validate
  <2>3. CASE SetInitializing
    BY <2>3 DEF SetInitializing
  <2>4. CASE NameToEP
    BY <2>4 DEF NameToEP
  <2>5. CASE SetupPlugin
    BY <2>5 DEF SetupPlugin
  <2>6. CASE CheckCanceled
    BY <2>6 DEF CheckCanceled
  <2>7. CASE SetRunning
    BY <2>7 DEF SetRunning
  <2> QED
    BY <1>2, <2>1, <2>2, <2>3, <2>4, <2>5, <2>6, <2>7 DEF Prologue
<1>3. CASE RunInput
  <2>1. CASE NextInput
    <3>1. input \in 1 .. Len(job.prompts) + 1 /\ Inputs = 1 .. Len(job.prompts)
      BY WorkFacts DEF WalkInv, PositionInv, Inputs
    <3>2. at = "input" /\ input \notin Inputs => Passed = Work
      BY <3>1, BeforeFacts, WorkFacts DEF WalkInv
    <3> QED
      BY <2>1, <3>2 DEF NextInput
  <2>2. CASE Tokenize
    BY <2>2 DEF Tokenize
  <2>3. CASE BeginGroup
    BY <2>3 DEF BeginGroup
  <2>4. CASE EndInput
    <3>1. input \in Inputs /\ group \in Nat /\ Groups(input) \in Nat
      BY <2>4, WorkFacts DEF EndInput, WalkInv, PlaceInv, PositionInv
    <3>2. measured' \cup skipped' = Before(input + 1, 1)
      <4>1. CASE Agentic
        BY <2>4, <3>1, <4>1, BeforeFacts DEF EndInput, WalkInv
      <4>2. CASE ~Agentic
        BY <2>4, <3>1, <4>2, BeforeFacts DEF EndInput, WalkInv
      <4> QED
        BY <4>1, <4>2
    <3>3. Passed' = Before(input + 1, 1)
      BY <2>4 DEF EndInput
    <3>4. skipped = {} \/ ~Agentic
      BY DEF MaySkip
    <3>5. measured' \cap skipped' = {}
      BY <2>4, <3>4 DEF EndInput
    <3> QED
      BY <2>4, <3>2, <3>3, <3>5 DEF EndInput
  <2> QED
    BY <1>3, <2>1, <2>2, <2>3, <2>4 DEF RunInput
<1>4. CASE Load
  <2>1. CASE LoadModel
    BY <2>1 DEF LoadModel, Loaded
  <2>2. CASE InitPlugin
    BY <2>2 DEF InitPlugin, Loaded
  <2>3. CASE DeinitPlugin
    BY <2>3 DEF DeinitPlugin
  <2>4. CASE RetryInit
    <3>1. input \in Inputs /\ group \in 1 .. Groups(input) /\ group \in Nat
      BY <2>4, WorkFacts DEF RetryInit, WalkInv, PlaceInv, PositionInv
    <3>2. /\ <<input, group>> \notin Before(input, group)
          /\ Before(input, group + 1) = Before(input, group) \cup {<<input, group>>}
      BY <3>1, BeforeFacts DEF WalkInv
    <3> QED
      BY <2>4, <3>2 DEF RetryInit
  <2> QED
    BY <1>4, <2>1, <2>2, <2>3, <2>4 DEF Load
<1>5. CASE RunTask
  <2>1. CASE CheckTask
    BY <2>1 DEF CheckTask
  <2>2. CASE PreparePlugin
    BY <2>2 DEF PreparePlugin, CheckError
  <2>3. CASE InferPlugin
    BY <2>3 DEF InferPlugin, CheckError
  <2>4. CASE ToolsFail
    BY <2>4 DEF ToolsFail
  <2>5. CASE InferThrows
    BY <2>5 DEF InferThrows
  <2>6. CASE ResetPlugin
    BY <2>6 DEF ResetPlugin, CheckError
  <2>7. CASE EndTask
    BY <2>7 DEF EndTask
  <2> QED
    BY <1>5, <2>1, <2>2, <2>3, <2>4, <2>5, <2>6, <2>7 DEF RunTask
<1>6. CASE Judge
  <2>1. CASE Measure
    <3>1. input \in Inputs /\ group \in 1 .. Groups(input) /\ group \in Nat
      BY <2>1, WorkFacts DEF Measure, WalkInv, PlaceInv, PositionInv
    <3>2. /\ <<input, group>> \notin Before(input, group)
          /\ Before(input, group + 1) = Before(input, group) \cup {<<input, group>>}
      BY <3>1, BeforeFacts DEF WalkInv
    <3>3. CASE Agentic
      BY <2>1, <3>3 DEF Measure
    <3>4. CASE ~Agentic
      BY <2>1, <3>2, <3>4 DEF Measure
    <3> QED
      BY <3>3, <3>4
  <2>2. CASE Skip
    <3>1. input \in Inputs /\ group \in 1 .. Groups(input) /\ group \in Nat
      BY <2>2, WorkFacts DEF Skip, WalkInv, PlaceInv, PositionInv
    <3>2. /\ <<input, group>> \notin Before(input, group)
          /\ Before(input, group + 1) = Before(input, group) \cup {<<input, group>>}
      BY <3>1, BeforeFacts DEF WalkInv
    <3> QED
      BY <2>2, <3>2 DEF Skip
  <2>3. CASE FailGroup
    BY <2>3 DEF FailGroup
  <2> QED
    BY <1>6, <2>1, <2>2, <2>3 DEF Judge
<1>7. CASE Epilogue
  <2>1. CASE CheckRunning
    BY <2>1 DEF CheckRunning
  <2>2. CASE SetCompleted
    BY <2>2 DEF SetCompleted
  <2>3. CASE StoreResult
    BY <2>3 DEF StoreResult
  <2>4. CASE ReleasePlugin
    BY <2>4 DEF ReleasePlugin
  <2>5. CASE EndRun
    BY <2>5 DEF EndRun
  <2> QED
    BY <1>7, <2>1, <2>2, <2>3, <2>4, <2>5 DEF Epilogue
<1>8. CASE UNCHANGED vars
  BY <1>8 DEF vars
<1> QED
  BY <1>1, <1>2, <1>3, <1>4, <1>5, <1>6, <1>7, <1>8 DEF Next, Terminated

\* A run that reports success has seen every group of every input through, or
\* skipped it where it may; and kCompleted means success.
THEOREM SuccessEarned == Spec => []SuccessIsEarned
<1>1. Init => WalkInv /\ SeenInv
  BY WalkInit, SeenInit
<1>2. WalkInv /\ SeenInv /\ [Next]_vars => WalkInv' /\ SeenInv'
  BY WalkStep, SeenStep
<1>3. SeenInv => SuccessIsEarned
  BY DEF SeenInv, SuccessIsEarned
<1> QED
  BY <1>1, <1>2, <1>3, PTL DEF Spec

-----------------------------------------------------------------------------
(* Types.                                                                  *)

\* What TypeOK says besides WalkInv.
ValueInv ==
  /\ at \in Place
  /\ status \in Status
  /\ cancel \in {"idle", "store"}
  /\ plugin \in PluginState
  /\ message \in BOOLEAN /\ logged \in BOOLEAN
  /\ config \in 0 .. Len(job.prompts)
  /\ ok \in BOOLEAN /\ empty \in BOOLEAN
  /\ done \in Nat
  /\ measured \subseteq Work /\ skipped \subseteq Work
  /\ skippedRequired \in BOOLEAN
  /\ error \in BOOLEAN /\ success \in BOOLEAN /\ overall \in BOOLEAN

\* The initial values have their types.
LEMMA ValueInit == WalkInv /\ Init => ValueInv
<1> SUFFICES ASSUME WalkInv, Init PROVE ValueInv
  OBVIOUS
<1>1. Len(job.prompts) \in Nat
  BY WorkFacts DEF WalkInv
<1>2. /\ message \in BOOLEAN /\ logged \in BOOLEAN /\ ok \in BOOLEAN /\ empty \in BOOLEAN
      /\ skippedRequired \in BOOLEAN /\ success \in BOOLEAN /\ overall \in BOOLEAN
  BY Zenon DEF Init
<1>3. error \in BOOLEAN
  BY Zenon DEF Init
<1>4. /\ at \in Place /\ status \in Status /\ cancel \in {"idle", "store"}
      /\ plugin \in PluginState
      /\ config \in 0 .. Len(job.prompts) /\ done \in Nat
      /\ measured \subseteq Work /\ skipped \subseteq Work
  BY <1>1 DEF Init, Place, PluginInit, PluginState, Status
<1> QED
  BY <1>2, <1>3, <1>4 DEF ValueInv

\* One conjunct at a time, over all the actions that assign the variable.
LEMMA ValueStep == WalkInv /\ ValueInv /\ [Next]_vars => ValueInv'
<1> SUFFICES ASSUME WalkInv, ValueInv, [Next]_vars PROVE ValueInv'
  OBVIOUS
<1>0. /\ job' = job /\ Work' = Work
      /\ Len(job.prompts) \in Nat
      /\ input \in Inputs => Config(input) \in 0 .. Len(job.prompts)
      /\ \A i \in Inputs : Tasks(i) \in Nat /\ Groups(i) \in Nat
  BY JobIsFixed, WorkFacts DEF WalkInv, Inputs, Work, Groups, Agentic, Config
<1>a. ASSUME at \in {"decode", "judge"} PROVE <<input, group>> \in Work
  <2>1. input \in Inputs /\ group \in 1 .. Groups(input)
    BY <1>0, <1>a DEF WalkInv, PositionInv, PlaceInv, InGroup
  <2> QED
    BY <2>1, WorkElements
<1>b. at \in {"decode", "judge"} => done + 1 \in Nat /\ done + Tasks(input) - (task - 1) \in Nat
  <2>1. at \in {"decode", "judge"} => Tasks(input) \in Nat /\ task \in 1 .. Tasks(input) + 1
    BY <1>0 DEF WalkInv, PositionInv, PlaceInv, InGroup
  <2>2. done \in Nat
    BY DEF ValueInv
  <2> QED
    BY ONLY <2>1, <2>2
<1>c. ASSUME at = "group" PROVE {<<input, g>> : g \in 1 .. Groups(input)} \subseteq Work
  <2>1. input \in Inputs
    BY <1>c DEF WalkInv, PlaceInv
  <2> QED
    BY <2>1, WorkElements
<1> USE DEF Next, Cancel, CancelTest, CancelStore, Prologue, Enter, Validate,
         SetInitializing, NameToEP, SetupPlugin, MakeInference, CheckCanceled, SetRunning,
         RunInput, NextInput, Tokenize, BeginGroup, EndInput,
         Load, LoadModel, Loaded, InitPlugin, DeinitPlugin, RetryInit,
         RunTask, CheckTask, PreparePlugin, InferPlugin, ToolsFail,
         InferThrows, ResetPlugin, EndTask, Judge, Measure, Skip, FailGroup,
         Epilogue, CheckRunning, SetCompleted, StoreResult, ReleasePlugin, EndRun,
         Terminated, vars, inference, place, groupVars, counts, outcome, Goto, Fail
<1>1. at' \in Place
  BY DEF ValueInv, Place
<1>2. status' \in Status
  BY DEF ValueInv, Status
<1>3. cancel' \in {"idle", "store"}
  BY DEF ValueInv
<1>4. plugin' \in PluginState
  BY DEF ValueInv, PluginState, Released, Setup, InitModel, Prepare, Infer, Reset, Deinit,
         Release, Answer
<1>5. config' \in 0 .. Len(job.prompts)
  BY <1>0 DEF ValueInv, WalkInv, PlaceInv, Loading
<1>6. done' \in Nat
  BY <1>0, <1>b DEF ValueInv
<1>7. measured' \subseteq Work
  BY <1>0, <1>a, <1>c DEF ValueInv
<1>8. skipped' \subseteq Work
  BY <1>0, <1>a DEF ValueInv
<1>9. message' \in BOOLEAN
  BY DEF ValueInv, Call
<1>10. logged' \in BOOLEAN
  BY DEF ValueInv, Call
<1>11. ok' \in BOOLEAN
  BY DEF ValueInv, CheckError
<1>12. empty' \in BOOLEAN
  BY DEF ValueInv
<1>13. skippedRequired' \in BOOLEAN
  BY DEF ValueInv
<1>14. error' \in BOOLEAN
  BY DEF ValueInv, CheckError
<1>15. success' \in BOOLEAN
  BY DEF ValueInv
<1>16. overall' \in BOOLEAN
  BY DEF ValueInv
<1> QED
  BY <1>0, <1>1, <1>2, <1>3, <1>4, <1>5, <1>6, <1>7, <1>8, <1>9, <1>10, <1>11,
     <1>12, <1>13, <1>14, <1>15, <1>16 DEF ValueInv

\* Every variable keeps its type; group and task stay within, or one past,
\* what the current input asks for.
THEOREM TypeCorrect == Spec => []TypeOK
<1>1. Init => WalkInv /\ ValueInv
  BY WalkInit, ValueInit
<1>2. WalkInv /\ ValueInv /\ [Next]_vars => WalkInv' /\ ValueInv'
  BY WalkStep, ValueStep
<1>3. WalkInv /\ ValueInv => TypeOK
  BY DEF WalkInv, PositionInv, ValueInv, TypeOK
<1> QED
  BY <1>1, <1>2, <1>3, PTL DEF Spec

-----------------------------------------------------------------------------
(* What the result says.                                                   *)

RequiredMeasured == \A w \in Work : w[1] \in job.required => w \in measured

NoConversation == Agentic /\ \E i \in Inputs : ~IsConversation(job.prompts[i])

\* Overall results are there only at the end; until then skippedRequired knows
\* of every required group among the skipped ones.
ResultInv ==
  /\ skippedRequired \/ \A w \in skipped : w[1] \notin job.required
  /\ overall => at \in {"release", "last", "returned"} /\ RequiredMeasured
  /\ status = "kFailed" => error \/ overall \/ NoConversation

\* At first there is nothing to report.
LEMMA ResultInit == Init => ResultInv
  BY DEF Init, ResultInv

\* Every step keeps the report in line with what was skipped and failed.
LEMMA ResultStep == WalkInv /\ SeenInv /\ ResultInv /\ [Next]_vars => ResultInv'
<1> SUFFICES ASSUME WalkInv, SeenInv, ResultInv, [Next]_vars PROVE ResultInv'
  OBVIOUS
<1>0. job' = job /\ Work' = Work /\ (NoConversation => NoConversation')
  BY JobIsFixed DEF Work, Inputs, Groups, Agentic, NoConversation
<1>a. at = "tokens" /\ Agentic /\ ~IsConversation(job.prompts[input]) => NoConversation
  BY DEF WalkInv, PlaceInv, NoConversation
<1>b. at = "result" /\ ~skippedRequired => RequiredMeasured
  BY DEF SeenInv, ResultInv, RequiredMeasured
<1> USE DEF Next, Cancel, CancelTest, CancelStore, Prologue, Enter, Validate,
         SetInitializing, NameToEP, SetupPlugin, MakeInference, CheckCanceled, SetRunning,
         RunInput, NextInput, Tokenize, BeginGroup, EndInput,
         Load, LoadModel, Loaded, InitPlugin, DeinitPlugin, RetryInit,
         RunTask, CheckTask, PreparePlugin, InferPlugin, ToolsFail,
         InferThrows, ResetPlugin, EndTask, Judge, Measure, Skip, FailGroup,
         Epilogue, CheckRunning, SetCompleted, StoreResult, ReleasePlugin, EndRun,
         Terminated, vars, inference, place, groupVars, counts, outcome, Goto, Fail
<1>1. skippedRequired' \/ \A w \in skipped' : w[1] \notin job'.required
  <2>1. \/ UNCHANGED <<skipped, skippedRequired>>
        \/ /\ skipped' = skipped \cup {<<input, group>>}
           /\ skippedRequired' = (skippedRequired \/ input \in job.required)
    OBVIOUS
  <2>2. CASE UNCHANGED <<skipped, skippedRequired>>
    BY ONLY <1>0, <2>2, ResultInv DEF ResultInv
  <2>3. CASE /\ skipped' = skipped \cup {<<input, group>>}
             /\ skippedRequired' = (skippedRequired \/ input \in job.required)
    <3>1. skippedRequired' <=> skippedRequired \/ input \in job.required
      BY ONLY <2>3, Zenon
    <3>2. \A w \in skipped' : w \in skipped \/ w[1] = input
      BY ONLY <2>3
    <3> QED
      BY ONLY <1>0, <3>1, <3>2, ResultInv, Zenon DEF ResultInv
  <2> QED
    BY ONLY <2>1, <2>2, <2>3
<1>2. measured' = measured \/ at \in {"group", "judge"}
  OBVIOUS
<1>3. ASSUME overall' PROVE at' \in {"release", "last", "returned"} /\ RequiredMeasured'
  BY <1>0, <1>b, <1>2, <1>3 DEF ResultInv, RequiredMeasured
<1>4. ASSUME status' = "kFailed" PROVE error' \/ overall' \/ NoConversation'
  BY <1>0, <1>a, <1>4 DEF ResultInv, CheckError
<1> QED
  BY <1>1, <1>3, <1>4 DEF ResultInv

\* skippedRequired and the error message keep up with what happens.
THEOREM ResultFollows == Spec => []ResultInv
<1>1. Init => WalkInv /\ SeenInv /\ ResultInv
  BY WalkInit, SeenInit, ResultInit
<1>2. WalkInv /\ SeenInv /\ ResultInv /\ [Next]_vars => WalkInv' /\ SeenInv' /\ ResultInv'
  BY WalkStep, SeenStep, ResultStep
<1> QED
  BY <1>1, <1>2, PTL DEF Spec

\* Overall results are only given when every prompt of a required category was
\* measured in all its iterations, however the run ended.
THEOREM OverallEarned == Spec => []OverallIsComplete
<1>1. ResultInv => OverallIsComplete
  BY DEF ResultInv, RequiredMeasured, OverallIsComplete
<1> QED
  BY <1>1, ResultFollows, PTL

\* A run that returns kFailed says why, but for the two paths FailureIsExplained
\* names.
THEOREM FailureReported == Spec => []FailureIsExplained
<1>1. ResultInv => FailureIsExplained
  BY DEF ResultInv, NoConversation, FailureIsExplained
<1> QED
  BY <1>1, ResultFollows, PTL

\* The report of a run is neither too good nor silent about a failure.
THEOREM ResultHonest == Spec => []ResultIsHonest
<1>1. OverallIsComplete /\ FailureIsExplained => ResultIsHonest
  BY DEF ResultIsHonest
<1> QED
  BY OverallEarned, FailureReported, <1>1, PTL

-----------------------------------------------------------------------------
(* The number of sessions.                                                 *)

\* The sessions of the first inputs, one input after the other.
LEMMA SessionsFacts ==
  ASSUME job \in Jobs
  PROVE  /\ \A i \in 0 .. Len(job.prompts) : SessionsTo[i] \in Nat
         /\ SessionsTo[0] = 0
         /\ \A i \in Inputs : /\ SessionsOf(i) \in Nat
                              /\ SessionsTo[i] = SessionsTo[i - 1] + SessionsOf(i)
<1>0. PICK n \in Nat : n = Len(job.prompts)
  BY WorkFacts
<1>a. ASSUME NEW i \in Inputs PROVE SessionsOf(i) \in Nat
  <2>1. Groups(i) \in Nat /\ Tasks(i) \in Nat
    BY WorkFacts
  <2>2. Groups(i) * Tasks(i) \in Nat
    BY <2>1
  <2> QED
    BY <2>2 DEF SessionsOf
<1>1. PICK step \in Turns(n, Nat) :
        \A i \in 1 .. n, x \in Nat : step[<<i, x>>] = x + SessionsOf(i)
  <2>1. [p \in (1 .. n) \X Nat |-> p[2] + SessionsOf(p[1])] \in Turns(n, Nat)
    BY <1>0, <1>a DEF Inputs, Turns
  <2> QED
    BY <2>1
<1>2. PICK f \in [0 .. n -> Nat] : f[0] = 0 /\ \A i \in 1 .. n : f[i] = step[<<i, f[i - 1]>>]
  <2>1. 0 \in Nat
    OBVIOUS
  <2>2. Loops(n, Nat, 0, step) # {}
    BY <2>1, LoopExists
  <2> QED
    BY <2>2 DEF Loops
<1>3. ASSUME NEW i \in 1 .. n PROVE f[i] = f[i - 1] + SessionsOf(i)
  <2>1. f[i - 1] \in Nat
    OBVIOUS
  <2> QED
    BY <1>1, <1>2, <2>1
<1>4. f = [i \in 0 .. Len(job.prompts) |-> IF i = 0 THEN 0 ELSE f[i - 1] + SessionsOf(i)]
  BY <1>0, <1>2, <1>3
<1>5. SessionsTo =
        [i \in 0 .. Len(job.prompts) |-> IF i = 0 THEN 0 ELSE SessionsTo[i - 1] + SessionsOf(i)]
  BY <1>4 DEF SessionsTo
<1>6. SessionsTo[0] = 0 /\ \A i \in Inputs : SessionsTo[i] = SessionsTo[i - 1] + SessionsOf(i)
  <2> DEFINE D == 0 .. Len(job.prompts)
  <2>1. 0 \in D /\ \A i \in Inputs : i \in D /\ i # 0
    BY <1>0 DEF Inputs
  <2>2. \A i \in D : SessionsTo[i] = IF i = 0 THEN 0 ELSE SessionsTo[i - 1] + SessionsOf(i)
    BY <1>5, Zenon
  <2> QED
    BY <2>1, <2>2
<1>7. \A i \in 0 .. n : SessionsTo[i] \in Nat
  <2> DEFINE S == {i \in 0 .. n : SessionsTo[i] \in Nat}
  <2>1. 0 \in S
    BY <1>6
  <2>2. ASSUME NEW k \in 0 .. n - 1, k \in S PROVE k + 1 \in S
    <3>1. k + 1 \in Inputs /\ k + 1 - 1 = k /\ k + 1 \in 0 .. n
      BY <1>0 DEF Inputs
    <3> QED
      BY <1>6, <1>a, <2>2, <3>1
  <2> HIDE DEF S
  <2>3. \A i \in 0 .. n : i \in S
    BY <2>1, <2>2, Induction
  <2> QED
    BY <2>3 DEF S
<1> QED
  BY <1>0, <1>6, <1>7, <1>a

\* No input's share of the progress reaches past the whole.
LEMMA SessionsBound ==
  ASSUME job \in Jobs, NEW i \in 0 .. Len(job.prompts)
  PROVE  SessionsTo[i] <= Sessions
<1>0. PICK n \in Nat : n = Len(job.prompts)
  BY WorkFacts
<1> DEFINE S == {k \in 0 .. n : k <= n - i => SessionsTo[n - k] <= Sessions}
<1>1. 0 \in S
  BY <1>0, SessionsFacts DEF Sessions
<1>2. ASSUME NEW k \in 0 .. n - 1, k \in S PROVE k + 1 \in S
  <2>1. n - k \in Inputs /\ n - k - 1 = n - (k + 1) /\ n - (k + 1) \in 0 .. n /\ n - k \in 0 .. n
    BY <1>0 DEF Inputs
  <2>2. PICK x \in Nat : x = SessionsTo[n - k]
    BY <1>0, <2>1, SessionsFacts
  <2>3. PICK y \in Nat : y = SessionsTo[n - (k + 1)]
    BY <1>0, <2>1, SessionsFacts
  <2>4. PICK z \in Nat : z = SessionsOf(n - k)
    BY <2>1, SessionsFacts
  <2>5. x = y + z
    BY <2>1, <2>2, <2>3, <2>4, SessionsFacts
  <2>6. Sessions \in Nat
    BY <1>0, SessionsFacts DEF Sessions
  <2>7. k <= n - i => x <= Sessions
    BY <1>2, <2>2
  <2>8. k + 1 <= n - i => y <= Sessions
    BY <2>5, <2>6, <2>7, <1>0
  <2> QED
    BY <2>1, <2>3, <2>8
<1> HIDE DEF S
<1>3. \A k \in 0 .. n : k \in S
  BY <1>1, <1>2, Induction
<1>4. n - i \in 0 .. n /\ n - (n - i) = i
  BY <1>0
<1>5. n - i \in S
  BY <1>3, <1>4
<1>6. SessionsTo[n - (n - i)] <= Sessions
  <2>1. n - i <= n - i
    BY <1>4
  <2> QED
    BY <1>5, <2>1 DEF S
<1> QED
  BY <1>4, <1>6

-----------------------------------------------------------------------------
(* The progress.                                                           *)

Counting == {"task", "prepare", "infer", "reset", "decode", "judge"}

\* Where Run no longer counts.
Late == {"quit", "unwind", "release", "last", "returned"}

\* The sessions of the inputs, and of the groups, that Run has passed.
Reached == SessionsTo[input - 1]
Passing == Reached + (group - 1) * Tasks(input)

\* The current input can be run.
Runnable == Agentic => IsConversation(job.prompts[input])

\* What has been counted when Run is at each of its places.
CountInv ==
  /\ done \in Nat /\ at \in Place
  /\ at \in {"ready", "validate", "initialize", "provider", "setup", "check", "start"} =>
       done = 0 /\ input = 1
  /\ at \notin {"group"} \cup Loading \cup InGroup \cup Late => group = 1
  /\ at \in {"input", "tokens"} => done = Reached
  /\ at \in {"group"} \cup Loading => done = Passing
  /\ ~Image /\ at \in Loading => task = 1
  /\ at \in Counting => done = Passing + (task - 1)
  /\ at \in {"skip", "retry"} => done = Passing + Tasks(input)
  /\ at \in {"finish", "complete", "setCompleted", "result"} => done = Sessions
  /\ at = "judge" /\ ok => task > Tasks(input)
  /\ at \in {"group"} \cup Loading \cup InGroup => Runnable
  /\ success => done = Sessions /\ at \in {"release", "last", "returned"}

IsLate == at \in Late
BoundInv == done <= Sessions

\* Numbers of the current input.
LEMMA InputNumbers ==
  ASSUME WalkInv, at \in {"tokens", "group"} \cup Loading \cup InGroup
  PROVE  /\ input \in Inputs /\ job \in Jobs /\ input \in Nat
         /\ SessionsTo[input - 1] \in Nat /\ SessionsTo[input] \in Nat
         /\ SessionsTo[input] <= Sessions
         /\ Groups(input) \in Nat /\ Tasks(input) \in Nat
         /\ group \in Nat \ {0} /\ task \in Nat \ {0}
         /\ group <= Groups(input) + 1 /\ task <= Tasks(input) + 1
         /\ at \in InGroup => group <= Groups(input)
         /\ at \in InTask => task <= Tasks(input)
         /\ Runnable =>
              SessionsTo[input] = SessionsTo[input - 1] + Groups(input) * Tasks(input)
<1>1. input \in Inputs /\ job \in Jobs
  BY DEF WalkInv, PlaceInv
<1>2. Groups(input) \in Nat /\ Tasks(input) \in Nat /\ Len(job.prompts) \in Nat
  BY <1>1, WorkFacts
<1>3. input - 1 \in 0 .. Len(job.prompts) /\ input \in 0 .. Len(job.prompts)
  BY <1>1, <1>2 DEF Inputs
<1>4. SessionsTo[input - 1] \in Nat /\ SessionsTo[input] \in Nat
  BY <1>1, <1>3, SessionsFacts
<1>5. SessionsTo[input] <= Sessions
  BY <1>1, <1>3, SessionsBound
<1>6. group \in Nat \ {0} /\ task \in Nat \ {0}
      /\ group <= Groups(input) + 1 /\ task <= Tasks(input) + 1
  BY <1>1, <1>2 DEF WalkInv, PositionInv
<1>7. (at \in InGroup => group <= Groups(input)) /\ (at \in InTask => task <= Tasks(input))
  BY DEF WalkInv, PlaceInv
<1>8. SessionsTo[input] = SessionsTo[input - 1] + SessionsOf(input)
  BY <1>1, SessionsFacts
<1>9. Runnable => SessionsOf(input) = Groups(input) * Tasks(input)
  BY DEF Runnable, SessionsOf
<1>10. input \in Nat
  BY <1>1, <1>2 DEF Inputs
<1> QED
  BY <1>1, <1>2, <1>4, <1>5, <1>6, <1>7, <1>8, <1>9, <1>10

\* Products of the numbers of groups and of tasks.
LEMMA Products ==
  ASSUME NEW a \in Nat, NEW b \in Nat, NEW c \in Nat
  PROVE  /\ a * c \in Nat
         /\ (a + 1) * c = a * c + c
         /\ a <= b => a * c <= b * c
  OBVIOUS

\* The count is bounded where Run still counts.
LEMMA CountBound ==
  ASSUME WalkInv, CountInv,
         ~IsLate
  PROVE  BoundInv
<1>1. job \in Jobs
  BY DEF WalkInv
<1>2. Sessions \in Nat
  BY <1>1, WorkFacts, SessionsFacts DEF Sessions
<1>3. CASE at \in {"ready", "validate", "initialize", "provider", "setup", "check", "start"}
  BY <1>2, <1>3 DEF CountInv, BoundInv
<1>4. CASE at \in {"finish", "complete", "setCompleted", "result"}
  BY <1>2, <1>4 DEF CountInv, BoundInv
<1>5. CASE at = "input"
  <2>1. input - 1 \in 0 .. Len(job.prompts)
    BY <1>1, WorkFacts DEF WalkInv, PositionInv
  <2>2. SessionsTo[input - 1] <= Sessions
    BY <1>1, <2>1, SessionsBound
  <2> QED
    BY <1>5, <2>2 DEF CountInv, BoundInv, Reached
<1>6. CASE at = "tokens"
  <2>1. input - 1 \in 0 .. Len(job.prompts)
    BY <1>1, <1>6, WorkFacts DEF WalkInv, PositionInv
  <2>2. SessionsTo[input - 1] <= Sessions
    BY <1>1, <2>1, SessionsBound
  <2> QED
    BY <1>6, <2>2 DEF CountInv, BoundInv, Reached
<1>7. CASE at \in {"group"} \cup Loading \cup InGroup
  <2>0. /\ Reached \in Nat /\ SessionsTo[input] \in Nat
        /\ group \in Nat \ {0} /\ Groups(input) \in Nat /\ Tasks(input) \in Nat
        /\ at \in InGroup => group <= Groups(input)
        /\ group <= Groups(input) + 1 /\ task <= Tasks(input) + 1 /\ task \in Nat
        /\ SessionsTo[input] <= Sessions
        /\ Runnable => SessionsTo[input] = Reached + Groups(input) * Tasks(input)
    BY <1>7, InputNumbers DEF Reached
  <2>1. PICK s \in Nat, e \in Nat, g \in Nat \ {0}, t \in Nat, n \in Nat, m \in Nat :
          s = Reached /\ e = SessionsTo[input] /\ g = group /\ t = task
          /\ n = Groups(input) /\ m = Tasks(input)
    BY <2>0
  <2>2. e = s + n * m /\ e <= Sessions /\ g <= n + 1 /\ t <= m + 1
    BY <1>7, <2>0, <2>1 DEF CountInv
  <2>3. PICK h \in Nat : h = g - 1
    OBVIOUS
  <2>4. PICK p \in Nat, q \in Nat : p = h * m /\ q = n * m /\ (h <= n => p <= q)
                                    /\ (h + 1 <= n => p + m <= q)
    <3>1. h + 1 \in Nat /\ (h + 1) * m = h * m + m
      BY Products
    <3> QED
      BY <3>1, Products
  <2>5. Passing = s + p
    BY <2>1, <2>2, <2>3, <2>4 DEF Passing
  <2>6. CASE at \in {"group"} \cup Loading
    <3>1. done = s + p
      BY <2>5, <2>6 DEF CountInv
    <3> QED
      BY <2>1, <2>2, <2>3, <2>4, <3>1, <1>2 DEF BoundInv
  <2>7. CASE at \in InGroup
    <3>1. done <= s + p + m
      BY <2>1, <2>2, <2>5, <2>7 DEF CountInv, InGroup, Counting
    <3>2. h + 1 <= n
      BY <2>0, <2>1, <2>3, <2>7
    <3> QED
      BY <2>1, <2>2, <2>4, <3>1, <3>2, <1>2 DEF BoundInv, CountInv
  <2> QED
    BY <1>7, <2>6, <2>7
<1> QED
  BY <1>3, <1>4, <1>5, <1>6, <1>7 DEF CountInv, Place, InGroup, Loading, IsLate, Late

\* No step changes the number of sessions.
LEMMA SessionsFixed == job' = job => SessionsTo' = SessionsTo /\ Sessions' = Sessions
  BY DEF Sessions, SessionsTo, SessionsOf, Groups, Tasks, Agentic

\* At first nothing is counted.
LEMMA CountInit == WalkInv /\ Init => CountInv
<1> SUFFICES ASSUME WalkInv, Init PROVE CountInv
  OBVIOUS
<1> QED
  BY DEF Init, CountInv, Place, Counting, Late, InGroup, Loading

\* Every step counts what it has passed, and no more.
LEMMA CountStep == WalkInv /\ CountInv /\ [Next]_vars => CountInv'
<1> SUFFICES ASSUME WalkInv, CountInv, [Next]_vars PROVE CountInv'
  OBVIOUS
<1>0. job' = job /\ SessionsTo' = SessionsTo /\ Sessions' = Sessions /\ Image' = Image
  BY JobIsFixed, SessionsFixed DEF Image
<1>1. input' = input => Tasks(input)' = Tasks(input) /\ Reached' = Reached /\ Runnable' = Runnable
  BY <1>0 DEF Tasks, Reached, Runnable, Agentic
<1>2. input' = input /\ group' = group => Passing' = Passing
  BY <1>1 DEF Passing
<1>3. ASSUME at \in {"tokens", "group"} \cup Loading \cup InGroup
      PROVE  /\ Reached \in Nat /\ Passing \in Nat /\ Tasks(input) \in Nat /\ task \in Nat \ {0}
             /\ task <= Tasks(input) + 1
             /\ group \in Nat \ {0}
  <2>1. /\ Reached \in Nat /\ Tasks(input) \in Nat /\ task \in Nat \ {0}
        /\ task <= Tasks(input) + 1
        /\ group \in Nat \ {0}
    BY <1>3, InputNumbers DEF Reached
  <2>2. PICK h \in Nat, m \in Nat : h = group - 1 /\ m = Tasks(input) /\ h * m \in Nat
    <3>1. group - 1 \in Nat
      BY <2>1
    <3> QED
      BY <2>1, <3>1, Products
  <2> QED
    BY <2>1, <2>2 DEF Passing
<1>4. done \in Nat /\ at \in Place
  BY DEF CountInv
<1> USE <1>0 DEF Place, InGroup, Loading, Counting, Late,
               inference, place, groupVars, counts, outcome, Goto, Fail
<1>5. CASE UNCHANGED <<input, group, task, ok, done, success, at>>
  BY <1>1, <1>2, <1>5 DEF CountInv
<1>6. CASE Cancel
  BY <1>5, <1>6 DEF Cancel, CancelTest, CancelStore
<1>7. CASE Prologue
  <2>1. UNCHANGED <<input, group, task, ok, done, success>>
    BY <1>7 DEF Prologue, Enter, Validate, SetInitializing, NameToEP, SetupPlugin,
         CheckCanceled, SetRunning
  <2>2. /\ at \in {"ready", "validate", "initialize", "provider", "setup", "check", "start"}
        /\ at' \in {"validate", "initialize", "provider", "setup", "check", "start",
                    "release", "last", "returned"}
           \/ (at = "start" /\ at' = "input")
    BY <1>7 DEF Prologue, Enter, Validate, SetInitializing, NameToEP, SetupPlugin,
         CheckCanceled, SetRunning
  <2>3. at = "start" => Reached = 0
    <3>1. SessionsTo[0] = 0
      BY SessionsFacts DEF WalkInv
    <3> QED
      BY <3>1 DEF CountInv, Reached
  <2> QED
    BY <1>1, <1>2, <2>1, <2>2, <2>3 DEF CountInv
<1>8. CASE NextInput
  <2>1. UNCHANGED <<input, group, task, ok, done, success>>
    BY <1>8 DEF NextInput
  <2>2. at = "input" /\ group = 1 /\ done = Reached
    BY <1>8 DEF NextInput, CountInv
  <2>3. CASE input \notin Inputs
    <3>1. Reached = Sessions
      <4>1. input \in 1 .. Len(job.prompts) + 1 /\ Len(job.prompts) \in Nat
        BY WorkFacts DEF WalkInv, PositionInv
      <4>2. input - 1 = Len(job.prompts)
        BY <2>3, <4>1 DEF Inputs
      <4> QED
        BY <4>2 DEF Reached, Sessions
    <3>2. at' \in {"complete", "finish"}
      BY <1>8, <2>3 DEF NextInput
    <3> QED
      BY <1>1, <1>2, <2>1, <2>2, <3>1, <3>2 DEF CountInv
  <2>4. CASE input \in Inputs
    <3>1. at' \in {"release", "tokens"} \/ (Image /\ at' = "load")
      BY <1>8, <2>4 DEF NextInput
    <3>2. CASE at' \in {"release", "tokens"}
      BY <1>1, <1>2, <2>1, <2>2, <3>2 DEF CountInv
    <3>3. CASE Image /\ at' = "load"
      <4>1. Runnable
        BY <3>3 DEF Image, Agentic, Runnable
      <4>2. Passing = Reached
        <5>1. PICK s \in Nat, m \in Nat : s = Reached /\ m = Tasks(input)
          <6>1. input - 1 \in 0 .. Len(job.prompts)
            BY <2>4, WorkFacts DEF Inputs, WalkInv
          <6> QED
            BY <2>4, <6>1, WorkFacts, SessionsFacts DEF Reached, WalkInv
        <5> QED
          BY <2>2, <5>1 DEF Passing
      <4> QED
        BY <1>1, <1>2, <2>1, <2>2, <3>3, <4>1, <4>2 DEF CountInv
    <3> QED
      BY <3>1, <3>2, <3>3
  <2> QED
    BY <2>3, <2>4
<1>9. CASE Tokenize
  <2>1. UNCHANGED <<input, group, task, ok, done, success>>
    BY <1>9 DEF Tokenize
  <2>2. at = "tokens" /\ group = 1 /\ done = Reached
    BY <1>9 DEF Tokenize, CountInv
  <2>3. Passing = Reached
    BY <1>3, <2>2 DEF Passing
  <2>4. at' = "release" \/ (at' = "group" /\ Runnable)
    BY <1>9 DEF Tokenize, Runnable
  <2> QED
    BY <1>1, <1>2, <2>1, <2>2, <2>3, <2>4 DEF CountInv
<1>10. CASE BeginGroup
  BY <1>1, <1>2, <1>3, <1>10 DEF BeginGroup, CountInv
<1>11. CASE EndInput
  <2>1. at = "group" /\ done = Passing /\ Runnable
    BY <1>11 DEF EndInput, CountInv
  <2>2. /\ Groups(input) \in Nat /\ Tasks(input) \in Nat /\ group \in Nat /\ Reached \in Nat
        /\ group = Groups(input) + 1
        /\ SessionsTo[input] = Reached + Groups(input) * Tasks(input)
        /\ input \in Nat
    <3>1. group > Groups(input)
      BY <1>11 DEF EndInput
    <3> QED
      BY <2>1, <3>1, InputNumbers DEF Reached
  <2>3. SessionsTo[input] = Passing
    <3>1. group - 1 = Groups(input)
      BY <2>2
    <3> QED
      BY <2>2, <3>1 DEF Passing
  <2>4. Reached' = Passing
    <3>1. input' = input + 1
      BY <1>11 DEF EndInput
    <3>2. input' - 1 = input
      BY <2>2, <3>1
    <3> QED
      BY <2>3, <3>2 DEF Reached
  <2> QED
    BY <1>11, <2>1, <2>4 DEF EndInput, CountInv
<1>12. CASE LoadModel \/ InitPlugin \/ DeinitPlugin
  <2>1. UNCHANGED <<input, group, task, ok, done, success>>
    BY <1>12 DEF LoadModel, InitPlugin, DeinitPlugin
  <2>2. \/ at \in Loading /\ at' \in Loading \cup {"release"}
        \/ at \in Loading /\ Image /\ at' = "group"
        \/ at \in Loading /\ ~Image /\ at' = "task"
        \/ at = "skip" /\ at' = "retry"
        \/ at = "quit" /\ at' = "release"
        \/ at = "finish" /\ at' = "complete"
    BY <1>12 DEF LoadModel, InitPlugin, DeinitPlugin, Loaded
  <2> QED
    BY <1>1, <1>2, <1>3, <2>1, <2>2 DEF CountInv
<1>13. CASE RetryInit
  <2>1. at = "retry" /\ at' = "group" /\ group' = group + 1
        /\ UNCHANGED <<input, task, ok, done, success>>
    BY <1>13 DEF RetryInit
  <2>2. Passing' = Passing + Tasks(input)
    BY <1>1, <1>3, <2>1 DEF Passing
  <2> QED
    BY <1>1, <2>1, <2>2 DEF CountInv
<1>14. CASE RunTask
  <2>1. UNCHANGED <<input, group, success>>
    BY <1>14 DEF RunTask, CheckTask, PreparePlugin, InferPlugin, ToolsFail,
         InferThrows, ResetPlugin, EndTask
  <2>2. CASE CheckTask
    BY <1>1, <1>2, <1>3, <2>1, <2>2 DEF CheckTask, CountInv
  <2>3. CASE PreparePlugin
    <3>1. ok' => ok /\ ~Error'
      BY <2>3, Zenon DEF PreparePlugin, CheckError
    <3>2. (at' = "judge" /\ Error') \/ at' = "infer"
      BY <2>3 DEF PreparePlugin
    <3>3. at = "prepare" /\ UNCHANGED <<task, done>>
      BY <2>3 DEF PreparePlugin
    <3> QED
      BY <1>1, <1>2, <2>1, <3>1, <3>2, <3>3 DEF CountInv
  <2>4. CASE InferPlugin
    BY <1>1, <1>2, <1>3, <2>1, <2>4 DEF InferPlugin, CheckError, CountInv
  <2>5. CASE ToolsFail
    BY <1>1, <1>2, <1>3, <2>1, <2>5 DEF ToolsFail, CountInv
  <2>6. CASE InferThrows
    BY <1>1, <1>2, <1>3, <2>1, <2>6 DEF InferThrows, CountInv
  <2>7. CASE ResetPlugin
    BY <1>1, <1>2, <1>3, <2>1, <2>7 DEF ResetPlugin, CheckError, CountInv
  <2>8. CASE EndTask
    BY <1>1, <1>2, <1>3, <1>4, <2>1, <2>8 DEF EndTask, CountInv
  <2> QED
    BY <1>14, <2>2, <2>3, <2>4, <2>5, <2>6, <2>7, <2>8 DEF RunTask
<1>15. CASE Measure
  <2>1. at = "judge" /\ at' = "group" /\ group' = group + 1 /\ ok
        /\ UNCHANGED <<input, task, ok, done, success>>
    BY <1>15 DEF Measure, GroupIsGood
  <2>2. Passing' = Passing + Tasks(input)
    BY <1>1, <1>3, <2>1 DEF Passing
  <2>3. done = Passing + Tasks(input) /\ Runnable /\ ~success
    BY <1>3, <2>1 DEF CountInv
  <2> QED
    BY <1>1, <1>4, <2>1, <2>2, <2>3 DEF CountInv
<1>16. CASE Skip
  BY <1>1, <1>2, <1>3, <1>16 DEF Skip, CountInv
<1>17. CASE FailGroup
  BY <1>1, <1>2, <1>17 DEF FailGroup, CountInv
<1>18. CASE Epilogue
  <2>1. CASE StoreResult
    BY <1>1, <1>2, <2>1 DEF StoreResult, CountInv
  <2>2. CASE CheckRunning \/ SetCompleted \/ ReleasePlugin \/ EndRun
    BY <1>1, <1>2, <2>2 DEF CheckRunning, SetCompleted, ReleasePlugin, EndRun, CountInv
  <2> QED
    BY <1>18, <2>1, <2>2 DEF Epilogue
<1>19. CASE UNCHANGED vars
  BY <1>5, <1>19 DEF vars
<1> QED
  BY <1>6, <1>7, <1>8, <1>9, <1>10, <1>11, <1>12, <1>13, <1>14, <1>15, <1>16, <1>17, <1>18,
     <1>19 DEF Next, Terminated, RunInput, Load, Judge

\* Once the count is over it stays within the number of sessions.
LEMMA BoundStep == CountInv /\ BoundInv /\ IsLate' /\ [Next]_vars => BoundInv'
<1> SUFFICES ASSUME CountInv, BoundInv, IsLate', [Next]_vars PROVE BoundInv'
  OBVIOUS
<1>1. Sessions' = Sessions
  BY JobIsFixed, SessionsFixed
<1>2. done' = done
  BY DEF IsLate, Late, Next, Cancel, CancelTest, CancelStore, Prologue, Enter, Validate,
         SetInitializing, NameToEP, SetupPlugin, MakeInference, CheckCanceled, SetRunning,
         RunInput, NextInput, Tokenize, BeginGroup, EndInput,
         Load, LoadModel, Loaded, InitPlugin, DeinitPlugin, RetryInit,
         RunTask, CheckTask, PreparePlugin, InferPlugin, ToolsFail,
         InferThrows, ResetPlugin, EndTask, Judge, Measure, Skip, FailGroup,
         Epilogue, CheckRunning, SetCompleted, StoreResult, ReleasePlugin, EndRun,
         Terminated, vars, counts, Goto, Fail
<1> QED
  BY <1>1, <1>2 DEF BoundInv

\* Run counts every task of every input once, in whatever order groups fail,
\* are skipped and load the model again.
THEOREM Count == Spec => [](CountInv /\ BoundInv)
<1>1. Init => WalkInv /\ CountInv /\ BoundInv
  <2>1. Init => WalkInv /\ CountInv /\ ~IsLate
    BY WalkInit, CountInit DEF Init, IsLate, Late
  <2> QED
    BY <2>1, CountBound
<1>2. WalkInv /\ CountInv /\ [Next]_vars => WalkInv' /\ CountInv'
  BY WalkStep, CountStep
<1>3. CountInv /\ BoundInv /\ IsLate' /\ [Next]_vars => BoundInv'
  BY BoundStep
<1>4. WalkInv /\ CountInv /\ ~IsLate => BoundInv
  BY CountBound
<1> QED
  BY <1>1, <1>2, <1>3, <1>4, PTL DEF Spec

\* The progress never passes 100 per cent, and a run that succeeds ends there,
\* whatever was skipped on the way and wherever in a group it failed.
THEOREM Progress == Spec => []ProgressExact
<1>1. CountInv /\ BoundInv => ProgressExact
  BY DEF CountInv, BoundInv, ProgressExact
<1> QED
  BY <1>1, Count, PTL

-----------------------------------------------------------------------------
(* ResultsHistory.                                                         *)

Increasing(s) == \A i, j \in 1 .. Len(s) : i < j => s[i] < s[j]

Line == Seq(Fragment)

\* The lines of the file, those included that a rewrite has not reached.
Lines == file \o todo

\* The numbers of the results go up along a line and from line to line.
Ordered(lines) ==
  /\ \A i \in 1 .. Len(lines) :
       /\ lines[i] # <<>>
       /\ \A a, b \in 1 .. Len(lines[i]) : a < b => lines[i][a][1] < lines[i][b][1]
  /\ \A i, j \in 1 .. Len(lines) : i < j =>
       \A a \in 1 .. Len(lines[i]), b \in 1 .. Len(lines[j]) : lines[i][a][1] < lines[j][b][1]

Within(lines, set) == \A i \in 1 .. Len(lines) : \A a \in 1 .. Len(lines[i]) : lines[i][a][1] \in set

AllReadable(lines) == \A i \in 1 .. Len(lines) : Readable(lines[i])

Numbers(lines) == [i \in 1 .. Len(lines) |-> lines[i][1][1]]

MainInv ==
  /\ main \in {"off", "idle", "run", "rewrite"}
  /\ ended \in BOOLEAN /\ astray \in BOOLEAN /\ misled \in BOOLEAN
  /\ results \in 0 .. MaxResults
  /\ appended \subseteq 1 .. results /\ deleted \subseteq 1 .. results
  /\ tears \in 0 .. MaxTears /\ wrecks \in 0 .. MaxWrecks
  /\ todo # <<>> => main = "rewrite"
  /\ ~ended => file # <<>> /\ main # "rewrite"

FileInv ==
  /\ file \in Seq(Line) /\ todo \in Seq(Line)
  /\ Ordered(Lines) /\ Within(Lines, 1 .. results)

ViewInv ==
  /\ view \in Seq(Nat) /\ Increasing(view) /\ \A i \in 1 .. Len(view) : view[i] \in 1 .. results

\* As long as no deletion was misled, what was deleted is not in the file, and the
\* page shows the file unless it has gone astray.
MatchInv ==
  ~misled =>
    /\ Within(Lines, Nat \ deleted)
    /\ main = "rewrite" => ~astray /\ AllReadable(Lines) /\ view = Numbers(Lines)
    /\ main = "idle" /\ ~astray => view = ReadResultsFromFile

Lost == (1 .. results) \ appended

\* A result that was appended has a line of its own, that no other will be written
\* behind, or the result before it was not appended whole.
LostInv ==
  /\ IsFiniteSet(Lost) /\ Cardinality(Lost) = tears
  /\ wrecks = 0 /\ ~ended => results \in Lost
  /\ wrecks = 0 /\ ~misled =>
       \A r \in appended \ deleted :
         \/ \E i \in 1 .. Len(Lines) : Lines[i] = <<Whole(r)>> /\ (ended \/ i # Len(file))
         \/ r - 1 \in Lost

HistoryInv == MainInv /\ FileInv /\ ViewInv /\ MatchInv /\ LostInv

-----------------------------------------------------------------------------
(* Sequences.                                                              *)

\* The places, in the first k lines, of those Kept takes.
Chosen(p, t, lines, keep, k) ==
  /\ \A j \in 1 .. Len(t) : p[j] \in 1 .. k /\ p[j] \in keep /\ t[j] = lines[p[j]]
  /\ \A i, j \in 1 .. Len(t) : i < j => p[i] < p[j]
  /\ \A i \in 1 .. k : i \in keep => \E j \in 1 .. Len(t) : p[j] = i

\* What Append does.
LEMMA AppendFacts ==
  ASSUME NEW T, NEW t \in Seq(T), NEW x \in T
  PROVE  /\ Append(t, x) \in Seq(T) /\ Len(Append(t, x)) = Len(t) + 1 /\ Len(t) \in Nat
         /\ \A j \in 1 .. Len(t) : Append(t, x)[j] = t[j]
         /\ Append(t, x)[Len(t) + 1] = x
  OBVIOUS

KeptTo(lines, keep) ==
  CHOOSE f : f = [i \in 0 .. Len(lines) |->
                    IF i = 0 THEN <<>>
                    ELSE IF i \in keep THEN Append(f[i - 1], lines[i]) ELSE f[i - 1]]

\* Kept is a loop over the lines.
LEMMA KeptLoop ==
  ASSUME NEW T, NEW lines \in Seq(T), NEW keep
  PROVE  /\ Kept(lines, keep) = KeptTo(lines, keep)[Len(lines)]
         /\ KeptTo(lines, keep)[0] = <<>>
         /\ \A i \in 1 .. Len(lines) : KeptTo(lines, keep)[i] =
              IF i \in keep THEN Append(KeptTo(lines, keep)[i - 1], lines[i])
              ELSE KeptTo(lines, keep)[i - 1]
<1>0. PICK n \in Nat : n = Len(lines)
  OBVIOUS
<1>1. PICK step \in Turns(n, Seq(T)) :
        \A i \in 1 .. n, t \in Seq(T) :
          step[<<i, t>>] = IF i \in keep THEN Append(t, lines[i]) ELSE t
  <2>1. \A i \in 1 .. n, t \in Seq(T) : (IF i \in keep THEN Append(t, lines[i]) ELSE t) \in Seq(T)
    BY <1>0
  <2>2. [p \in (1 .. n) \X Seq(T) |-> IF p[1] \in keep THEN Append(p[2], lines[p[1]]) ELSE p[2]]
          \in Turns(n, Seq(T))
    BY <2>1 DEF Turns
  <2> QED
    BY <2>2
<1>2. PICK f \in [0 .. n -> Seq(T)] :
        f[0] = <<>> /\ \A i \in 1 .. n : f[i] = step[<<i, f[i - 1]>>]
  <2>1. <<>> \in Seq(T)
    OBVIOUS
  <2>2. Loops(n, Seq(T), <<>>, step) # {}
    BY <2>1, LoopExists
  <2> QED
    BY <2>2 DEF Loops
<1>3. ASSUME NEW i \in 1 .. n
      PROVE  f[i] = IF i \in keep THEN Append(f[i - 1], lines[i]) ELSE f[i - 1]
  <2>1. f[i - 1] \in Seq(T)
    OBVIOUS
  <2> QED
    BY <1>1, <1>2, <2>1
<1>4. f = [i \in 0 .. Len(lines) |->
             IF i = 0 THEN <<>>
             ELSE IF i \in keep THEN Append(f[i - 1], lines[i]) ELSE f[i - 1]]
  <2> DEFINE turn(i) == IF i = 0 THEN <<>>
                        ELSE IF i \in keep THEN Append(f[i - 1], lines[i]) ELSE f[i - 1]
  <2>1. \A i \in 0 .. n : f[i] = turn(i)
    <3>1. turn(0) = <<>> /\ f[0] = <<>>
      BY <1>2
    <3>2. \A i \in 1 .. n : f[i] = turn(i)
      BY <1>3
    <3> HIDE DEF turn
    <3> QED
      BY <3>1, <3>2
  <2> HIDE DEF turn
  <2>2. f = [i \in 0 .. Len(lines) |-> turn(i)]
    BY <1>0, <2>1
  <2> QED
    BY <2>2 DEF turn
<1> DEFINE g == KeptTo(lines, keep)
<1>5. g = [i \in 0 .. Len(lines) |->
             IF i = 0 THEN <<>>
             ELSE IF i \in keep THEN Append(g[i - 1], lines[i]) ELSE g[i - 1]]
  BY <1>4 DEF KeptTo
<1>6. Kept(lines, keep) = g[Len(lines)]
  BY Zenon DEF Kept, KeptTo
<1> HIDE DEF g
<1>7. g[0] = <<>> /\ \A i \in 1 .. Len(lines) :
        g[i] = IF i \in keep THEN Append(g[i - 1], lines[i]) ELSE g[i - 1]
  <2> DEFINE D == 0 .. Len(lines)
  <2>1. 0 \in D /\ \A i \in 1 .. Len(lines) : i \in D /\ i # 0
    BY <1>0
  <2>2. \A i \in D : g[i] = IF i = 0 THEN <<>>
             ELSE IF i \in keep THEN Append(g[i - 1], lines[i]) ELSE g[i - 1]
    BY <1>5, Zenon
  <2> QED
    BY <2>1, <2>2
<1> QED
  BY <1>6, <1>7 DEF g

\* Kept takes the lines with a number in keep, all of them and in their order.
LEMMA KeptFacts ==
  ASSUME NEW T, NEW lines \in Seq(T), NEW keep
  PROVE  /\ Kept(lines, keep) \in Seq(T)
         /\ \E p \in [1 .. Len(Kept(lines, keep)) -> 1 .. Len(lines)] :
              Chosen(p, Kept(lines, keep), lines, keep, Len(lines))
<1>0. PICK n \in Nat : n = Len(lines)
  OBVIOUS
<1>1. PICK f : /\ Kept(lines, keep) = f[n] /\ f[0] = <<>>
               /\ \A i \in 1 .. n : f[i] = IF i \in keep THEN Append(f[i - 1], lines[i]) ELSE f[i - 1]
  BY <1>0, KeptLoop
<1> DEFINE Good(k) == /\ f[k] \in Seq(T)
                      /\ \E p \in [1 .. Len(f[k]) -> 1 .. n] : Chosen(p, f[k], lines, keep, k)
           S == {k \in 0 .. n : Good(k)}
<1>2. 0 \in S
  <2>1. f[0] \in Seq(T) /\ Len(f[0]) = 0
    BY <1>1
  <2>2. [j \in 1 .. Len(f[0]) |-> 1] \in [1 .. Len(f[0]) -> 1 .. n]
    BY <2>1
  <2>3. Chosen([j \in 1 .. Len(f[0]) |-> 1], f[0], lines, keep, 0)
    BY <2>1 DEF Chosen
  <2> QED
    BY <2>1, <2>2, <2>3
<1>3. ASSUME NEW k \in 0 .. n - 1, k \in S PROVE k + 1 \in S
  <2>1. PICK t \in Seq(T) : t = f[k]
    BY <1>3
  <2>2. PICK p \in [1 .. Len(t) -> 1 .. n] : Chosen(p, t, lines, keep, k)
    BY <1>3, <2>1
  <2>3. k + 1 \in 1 .. n /\ k + 1 - 1 = k /\ k + 1 \in 0 .. n
    OBVIOUS
  <2>4. CASE k + 1 \in keep
    <3>1. PICK x \in T : x = lines[k + 1]
      BY <1>0, <2>3
    <3>2. f[k + 1] = Append(t, x)
      <4>1. f[k + 1] = IF k + 1 \in keep THEN Append(f[k + 1 - 1], lines[k + 1]) ELSE f[k + 1 - 1]
        BY <1>1, <2>3
      <4> QED
        BY <2>1, <2>3, <2>4, <3>1, <4>1
    <3>3. PICK u \in Seq(T) : /\ u = f[k + 1] /\ Len(u) = Len(t) + 1
                              /\ \A j \in 1 .. Len(t) : u[j] = t[j]
                              /\ u[Len(t) + 1] = x
      BY <3>2, AppendFacts
    <3>4. Len(t) \in Nat
      OBVIOUS
    <3> DEFINE q == [j \in 1 .. Len(u) |-> IF j = Len(t) + 1 THEN k + 1 ELSE p[j]]
    <3>5. q \in [1 .. Len(u) -> 1 .. n]
      BY <2>3, <3>3, <3>4
    <3>6. \A j \in 1 .. Len(t) : q[j] = p[j] /\ j \in 1 .. Len(u)
      BY <3>3, <3>4
    <3>7. q[Len(t) + 1] = k + 1 /\ Len(t) + 1 \in 1 .. Len(u)
      BY <3>3, <3>4
    <3>8. \A j \in 1 .. Len(u) : j = Len(t) + 1 \/ j \in 1 .. Len(t)
      BY <3>3, <3>4
    <3>9. \A j \in 1 .. Len(t) : p[j] \in Nat /\ p[j] < k + 1
      BY <2>2, <3>4 DEF Chosen
    <3> HIDE DEF q
    <3>10. Chosen(q, u, lines, keep, k + 1)
      <4>1. \A j \in 1 .. Len(u) : q[j] \in 1 .. k + 1 /\ q[j] \in keep /\ u[j] = lines[q[j]]
        BY <2>2, <2>3, <2>4, <3>1, <3>3, <3>6, <3>7, <3>8 DEF Chosen
      <4>2. ASSUME NEW i \in 1 .. Len(u), NEW j \in 1 .. Len(u), i < j PROVE q[i] < q[j]
        <5>1. i \in 1 .. Len(t)
          BY <3>3, <3>4, <4>2
        <5>2. CASE j = Len(t) + 1
          BY <3>6, <3>7, <3>9, <5>1, <5>2
        <5>3. CASE j \in 1 .. Len(t)
          <6>1. p[i] < p[j]
            BY <2>2, <4>2, <5>1, <5>3 DEF Chosen
          <6> QED
            BY <3>6, <5>1, <5>3, <6>1
        <5> QED
          BY <3>8, <5>2, <5>3
      <4>3. \A i \in 1 .. k + 1 : i \in keep => \E j \in 1 .. Len(u) : q[j] = i
        <5> SUFFICES ASSUME NEW i \in 1 .. k + 1, i \in keep PROVE \E j \in 1 .. Len(u) : q[j] = i
          OBVIOUS
        <5>1. CASE i = k + 1
          BY <3>7, <5>1
        <5>2. CASE i # k + 1
          <6>1. i \in 1 .. k
            BY <5>2
          <6>2. PICK j \in 1 .. Len(t) : p[j] = i
            BY <2>2, <6>1 DEF Chosen
          <6> QED
            BY <3>6, <6>2
        <5> QED
          BY <5>1, <5>2
      <4> QED
        BY <4>1, <4>2, <4>3 DEF Chosen
    <3> QED
      BY <2>3, <3>3, <3>5, <3>10
  <2>5. CASE k + 1 \notin keep
    <3>1. f[k + 1] = t
      BY <1>1, <2>1, <2>3, <2>5
    <3>2. Chosen(p, t, lines, keep, k + 1)
      BY <2>2, <2>5 DEF Chosen
    <3> QED
      BY <2>3, <3>1, <3>2
  <2> QED
    BY <2>4, <2>5
<1> HIDE DEF S
<1>4. \A k \in 0 .. n : k \in S
  BY <1>2, <1>3, Induction
<1>5. Good(n)
  BY <1>4 DEF S
<1> QED
  BY <1>0, <1>1, <1>5

\* The elements of a sequence.
LEMMA SeqFacts ==
  ASSUME NEW T, NEW s \in Seq(T)
  PROVE  Len(s) \in Nat /\ DOMAIN s = 1 .. Len(s) /\ \A i \in 1 .. Len(s) : s[i] \in T
  BY LenProperties

\* A sequence that goes up is determined by what is in it.
LEMMA SameFrom ==
  ASSUME NEW s \in Seq(Nat), NEW t \in Seq(Nat), Increasing(s), Increasing(t),
         \A i \in 1 .. Len(s) : \E j \in 1 .. Len(t) : t[j] = s[i],
         \A j \in 1 .. Len(t) : \E i \in 1 .. Len(s) : s[i] = t[j]
  PROVE  Len(s) <= Len(t) /\ \A i \in 1 .. Len(s) : s[i] = t[i]
<1>0. PICK n \in Nat, m \in Nat : n = Len(s) /\ m = Len(t)
  OBVIOUS
<1>1. /\ \A i, j \in 1 .. n : i < j => s[i] < s[j]
      /\ \A i, j \in 1 .. m : i < j => t[i] < t[j]
      /\ \A i \in 1 .. n : s[i] \in Nat
      /\ \A i \in 1 .. m : t[i] \in Nat
  <2>1. /\ \A i, j \in 1 .. n : i < j => s[i] < s[j]
        /\ \A i, j \in 1 .. m : i < j => t[i] < t[j]
    BY ONLY <1>0, Increasing(s), Increasing(t) DEF Increasing
  <2>2. (\A i \in 1 .. n : s[i] \in Nat) /\ (\A i \in 1 .. m : t[i] \in Nat)
    BY <1>0, SeqFacts
  <2> QED
    BY <2>1, <2>2
<1> DEFINE S == {k \in 0 .. n : k <= m /\ \A i \in 1 .. k : s[i] = t[i]}
<1>2. 0 \in S
  OBVIOUS
<1>3. ASSUME NEW k \in 0 .. n - 1, k \in S PROVE k + 1 \in S
  <2>1. k + 1 \in 1 .. n
    OBVIOUS
  <2>2. PICK j \in 1 .. m : t[j] = s[k + 1]
    BY <1>0, <2>1
  <2>3. ~(j <= k)
    <3>1. SUFFICES ASSUME j <= k PROVE FALSE
      OBVIOUS
    <3>2. j \in 1 .. k /\ j \in 1 .. n /\ j < k + 1
      BY <3>1
    <3>3. s[j] = t[j] /\ s[j] < s[k + 1]
      BY <1>1, <1>3, <2>1, <3>2
    <3> QED
      BY <1>1, <2>1, <2>2, <3>2, <3>3
  <2>4. k + 1 \in 1 .. m
    BY <2>3
  <2>5. PICK i \in 1 .. n : s[i] = t[k + 1]
    BY <1>0, <2>4
  <2>6. ~(i <= k)
    <3>1. SUFFICES ASSUME i <= k PROVE FALSE
      OBVIOUS
    <3>2. i \in 1 .. k /\ i \in 1 .. m /\ i < k + 1
      BY <3>1, <2>4
    <3>3. s[i] = t[i] /\ t[i] < t[k + 1]
      BY <1>1, <1>3, <2>4, <3>2
    <3> QED
      BY <1>1, <2>4, <2>5, <3>2, <3>3
  <2>7. s[k + 1] = t[k + 1]
    <3>1. j = k + 1 \/ k + 1 < j
      BY <2>3
    <3>2. i = k + 1 \/ k + 1 < i
      BY <2>6
    <3>3. t[k + 1] = t[j] \/ t[k + 1] < t[j]
      BY <1>1, <2>4, <3>1
    <3>4. s[k + 1] = s[i] \/ s[k + 1] < s[i]
      BY <1>1, <2>1, <3>2
    <3>5. s[k + 1] \in Nat /\ t[k + 1] \in Nat
      BY <1>1, <2>1, <2>4
    <3> QED
      BY <2>2, <2>5, <3>3, <3>4, <3>5
  <2>8. ASSUME NEW x \in 1 .. k + 1 PROVE s[x] = t[x]
    <3>1. x = k + 1 \/ x \in 1 .. k
      OBVIOUS
    <3> QED
      BY <1>3, <2>7, <3>1
  <2> QED
    BY <2>1, <2>4, <2>8
<1> HIDE DEF S
<1>4. \A k \in 0 .. n : k \in S
  BY <1>2, <1>3, Induction
<1>5. n \in S
  BY <1>4
<1> QED
  BY <1>0, <1>5 DEF S

\* Two sequences that go up and have the same elements are the same.
LEMMA SameSequence ==
  ASSUME NEW s \in Seq(Nat), NEW t \in Seq(Nat), Increasing(s), Increasing(t),
         \A i \in 1 .. Len(s) : \E j \in 1 .. Len(t) : t[j] = s[i],
         \A j \in 1 .. Len(t) : \E i \in 1 .. Len(s) : s[i] = t[j]
  PROVE  s = t
<1>1. Len(s) <= Len(t) /\ \A i \in 1 .. Len(s) : s[i] = t[i]
  BY SameFrom
<1>2. Len(t) <= Len(s)
  BY SameFrom
<1>3. Len(s) = Len(t)
  BY <1>1, <1>2, SeqFacts
<1> QED
  BY <1>1, <1>3, SeqEqual

\* A sequence of positive numbers that goes up is no longer than its bound.
LEMMA ShortEnough ==
  ASSUME NEW s \in Seq(Nat), Increasing(s), NEW m \in Nat, \A i \in 1 .. Len(s) : s[i] \in 1 .. m
  PROVE  Len(s) <= m
<1>0. PICK n \in Nat : n = Len(s)
  OBVIOUS
<1> DEFINE S == {k \in 0 .. n : k = 0 \/ s[k] >= k}
<1>1. 0 \in S
  OBVIOUS
<1>2. ASSUME NEW k \in 0 .. n - 1, k \in S PROVE k + 1 \in S
  <2>1. k + 1 \in 1 .. n /\ k + 1 \in 0 .. n /\ s[k + 1] \in Nat \ {0}
    BY <1>0
  <2>2. CASE k = 0
    BY <2>1, <2>2
  <2>3. CASE k # 0
    <3>1. k \in 1 .. n /\ s[k] >= k
      BY <1>2, <2>3
    <3>2. s[k] < s[k + 1] /\ s[k] \in Nat
      BY <1>0, <2>1, <3>1 DEF Increasing
    <3> QED
      BY <2>1, <3>1, <3>2
  <2> QED
    BY <2>2, <2>3
<1> HIDE DEF S
<1>3. \A k \in 0 .. n : k \in S
  BY <1>1, <1>2, Induction
<1>4. n \in S
  BY <1>3
<1> QED
  BY <1>0, <1>4 DEF S

-----------------------------------------------------------------------------
(* Rows that are erased, and the file that is read.                        *)

\* What RemoveAt does.
LEMMA RemoveAtFacts ==
  ASSUME NEW T, NEW t \in Seq(T), NEW m \in 1 .. Len(t)
  PROVE  /\ RemoveAt(t, m) \in Seq(T) /\ Len(RemoveAt(t, m)) = Len(t) - 1
         /\ \A j \in 1 .. Len(t) - 1 : RemoveAt(t, m)[j] = IF j < m THEN t[j] ELSE t[j + 1]
<1>0. PICK n \in Nat : n = Len(t)
  OBVIOUS
<1>1. PICK a \in Seq(T) : /\ a = SubSeq(t, 1, m - 1) /\ Len(a) = m - 1
                          /\ \A i \in 1 .. m - 1 : a[i] = t[i]
  <2>1. m - 1 \in Int /\ \A i \in 1 .. m - 1 : t[i] \in T
    BY <1>0, SeqFacts
  <2>2. /\ SubSeq(t, 1, m - 1) \in Seq(T)
        /\ Len(SubSeq(t, 1, m - 1)) = IF 1 <= m - 1 THEN m - 1 - 1 + 1 ELSE 0
        /\ \A i \in 1 .. m - 1 - 1 + 1 : SubSeq(t, 1, m - 1)[i] = t[1 + i - 1]
    BY <2>1, SubSeqProperties
  <2>3. (IF 1 <= m - 1 THEN m - 1 - 1 + 1 ELSE 0) = m - 1
    BY <1>0
  <2>4. \A i \in 1 .. m - 1 : i \in 1 .. m - 1 - 1 + 1 /\ 1 + i - 1 = i
    BY <1>0
  <2>5. \A i \in 1 .. m - 1 : SubSeq(t, 1, m - 1)[i] = t[i]
    BY <2>2, <2>4
  <2> QED
    BY <2>2, <2>3, <2>5
<1>2. PICK b \in Seq(T) : /\ b = SubSeq(t, m + 1, n) /\ Len(b) = n - m
                          /\ \A i \in 1 .. n - m : b[i] = t[m + i]
  <2>1. m + 1 \in Int /\ n \in Int /\ \A i \in m + 1 .. n : t[i] \in T
    <3>1. \A i \in m + 1 .. n : i \in 1 .. n
      BY <1>0
    <3> QED
      BY <1>0, <3>1, SeqFacts
  <2>2. /\ SubSeq(t, m + 1, n) \in Seq(T)
        /\ Len(SubSeq(t, m + 1, n)) = IF m + 1 <= n THEN n - (m + 1) + 1 ELSE 0
        /\ \A i \in 1 .. n - (m + 1) + 1 : SubSeq(t, m + 1, n)[i] = t[m + 1 + i - 1]
    BY <2>1, SubSeqProperties
  <2>3. (IF m + 1 <= n THEN n - (m + 1) + 1 ELSE 0) = n - m
    BY <1>0
  <2>4. \A i \in 1 .. n - m : i \in 1 .. n - (m + 1) + 1 /\ m + 1 + i - 1 = m + i
    BY <1>0
  <2>5. \A i \in 1 .. n - m : SubSeq(t, m + 1, n)[i] = t[m + i]
    BY <2>2, <2>4
  <2> QED
    BY <2>2, <2>3, <2>5
<1>3. RemoveAt(t, m) = a \o b
  BY <1>0, <1>1, <1>2 DEF RemoveAt
<1>c. /\ a \o b \in Seq(T) /\ Len(a \o b) = m - 1 + (n - m)
      /\ \A i \in 1 .. m - 1 + (n - m) : (a \o b)[i] = IF i <= m - 1 THEN a[i] ELSE b[i - (m - 1)]
  BY <1>1, <1>2, ConcatProperties
<1>4. a \o b \in Seq(T) /\ Len(a \o b) = n - 1 /\ m - 1 + (n - m) = n - 1
  BY <1>0, <1>c
<1>5. ASSUME NEW j \in 1 .. n - 1, j < m PROVE (a \o b)[j] = t[j]
  <2>1. j <= m - 1 /\ j \in 1 .. m - 1
    BY <1>0, <1>5
  <2> QED
    BY <1>1, <1>4, <1>c, <2>1
<1>6. ASSUME NEW j \in 1 .. n - 1, ~(j < m) PROVE (a \o b)[j] = t[j + 1]
  <2>1. (a \o b)[j] = b[j - (m - 1)]
    <3>1. ~(j <= m - 1)
      BY <1>0, <1>6
    <3> QED
      BY <1>4, <1>c, <3>1
  <2>2. j - (m - 1) \in 1 .. n - m /\ m + (j - (m - 1)) = j + 1
    BY <1>6
  <2> QED
    BY <1>2, <2>1, <2>2
<1> QED
  BY <1>0, <1>3, <1>4, <1>5, <1>6

\* What is left of a sequence that goes up still goes up.
LEMMA RemoveAtIncreasing ==
  ASSUME NEW t \in Seq(Nat), NEW m \in 1 .. Len(t), Increasing(t)
  PROVE  /\ RemoveAt(t, m) \in Seq(Nat) /\ Increasing(RemoveAt(t, m))
         /\ Len(RemoveAt(t, m)) = Len(t) - 1
         /\ \A j \in 1 .. m - 1 : RemoveAt(t, m)[j] = t[j]
         /\ \A j \in 1 .. Len(t) - 1 : \E i \in 1 .. Len(t) : i # m /\ RemoveAt(t, m)[j] = t[i]
         /\ \A i \in 1 .. Len(t) : i # m => \E j \in 1 .. Len(t) - 1 : RemoveAt(t, m)[j] = t[i]
<1>0. PICK n \in Nat : n = Len(t)
  OBVIOUS
<1>1. PICK u \in Seq(Nat) :
        /\ u = RemoveAt(t, m) /\ Len(u) = n - 1
        /\ \A j \in 1 .. n - 1 : u[j] = IF j < m THEN t[j] ELSE t[j + 1]
  BY <1>0, RemoveAtFacts
<1>2. \A i, j \in 1 .. n : i < j => t[i] < t[j]
  BY <1>0 DEF Increasing
<1>3. \A j \in 1 .. n - 1 : /\ j < m => j \in 1 .. n /\ u[j] = t[j]
                            /\ ~(j < m) => j + 1 \in 1 .. n /\ j + 1 > m /\ u[j] = t[j + 1]
  BY <1>0, <1>1
<1>4. Increasing(u)
  <2> SUFFICES ASSUME NEW i \in 1 .. n - 1, NEW j \in 1 .. n - 1, i < j PROVE u[i] < u[j]
    BY <1>1 DEF Increasing
  <2>1. CASE j < m
    BY <1>2, <1>3, <2>1
  <2>2. CASE i < m /\ ~(j < m)
    BY <1>2, <1>3, <2>2
  <2>3. CASE ~(i < m)
    <3>1. i + 1 \in 1 .. n /\ j + 1 \in 1 .. n /\ i + 1 < j + 1 /\ ~(j < m)
      BY <1>0, <2>3
    <3>2. u[i] = t[i + 1] /\ u[j] = t[j + 1]
      BY <1>3, <2>3, <3>1
    <3> QED
      BY <1>2, <3>1, <3>2
  <2> QED
    BY <1>0, <2>1, <2>2, <2>3
<1>5. \A j \in 1 .. m - 1 : u[j] = t[j]
  <2>1. \A j \in 1 .. m - 1 : j \in 1 .. n - 1 /\ j < m
    BY <1>0
  <2> QED
    BY <1>3, <2>1
<1>6. \A j \in 1 .. n - 1 : \E i \in 1 .. n : i # m /\ u[j] = t[i]
  BY <1>0, <1>3
<1>7. ASSUME NEW i \in 1 .. n, i # m PROVE \E j \in 1 .. n - 1 : u[j] = t[i]
  <2>1. CASE i < m
    BY <1>0, <1>3, <2>1
  <2>2. CASE ~(i < m)
    <3>1. i - 1 \in 1 .. n - 1 /\ ~(i - 1 < m) /\ i - 1 + 1 = i
      BY <1>0, <1>7, <2>2
    <3>2. u[i - 1] = t[i]
      BY <1>3, <3>1
    <3> QED
      BY <3>1, <3>2
  <2> QED
    BY <2>1, <2>2
<1> QED
  BY <1>0, <1>1, <1>4, <1>5, <1>6, <1>7

LeftAfter(s, rows) ==
  CHOOSE f : f = [k \in 0 .. Len(s) |->
                    IF k = 0 THEN s
                    ELSE IF Len(s) + 1 - k \in rows THEN RemoveAt(f[k - 1], Len(s) + 1 - k)
                         ELSE f[k - 1]]

\* RemoveAt where there is something to remove.
Removed(t, m) == IF m \in 1 .. Len(t) THEN RemoveAt(t, m) ELSE t

\* What the loop has done to s after k rows.
Erased(s, t, rows, k) ==
  /\ t \in Seq(Nat) /\ Increasing(t)
  /\ Len(s) - k <= Len(t) /\ \A j \in 1 .. Len(s) - k : t[j] = s[j]
  /\ \A j \in 1 .. Len(t) :
       \E i \in 1 .. Len(s) : t[j] = s[i] /\ (i <= Len(s) - k \/ i \notin rows)
  /\ \A i \in 1 .. Len(s) :
       i <= Len(s) - k \/ i \notin rows => \E j \in 1 .. Len(t) : t[j] = s[i]

\* One turn of the loop that erases, at the row n - k.
LEMMA ErasedStep ==
  ASSUME NEW s \in Seq(Nat), Increasing(s), NEW rows, NEW k \in 0 .. Len(s) - 1,
         NEW t, Erased(s, t, rows, k)
  PROVE  /\ Len(s) - k \in 1 .. Len(t)
         /\ Len(s) - k \in rows => Erased(s, RemoveAt(t, Len(s) - k), rows, k + 1)
         /\ Len(s) - k \notin rows => Erased(s, t, rows, k + 1)
<1>0. PICK n \in Nat : n = Len(s)
  BY SeqFacts
<1>1. /\ t \in Seq(Nat) /\ Increasing(t)
      /\ n - k <= Len(t) /\ \A j \in 1 .. n - k : t[j] = s[j]
      /\ \A j \in 1 .. Len(t) : \E i \in 1 .. n : t[j] = s[i] /\ (i <= n - k \/ i \notin rows)
      /\ \A i \in 1 .. n : i <= n - k \/ i \notin rows => \E j \in 1 .. Len(t) : t[j] = s[i]
  BY <1>0 DEF Erased
<1>2. PICK l \in Nat : l = Len(t)
  BY <1>1, SeqFacts
<1>3. PICK m \in 1 .. l : m = n - k /\ m \in 1 .. n /\ n - (k + 1) = m - 1
  <2>1. n - k <= l /\ k \in 0 .. n - 1
    BY <1>0, <1>1, <1>2
  <2>2. n - k \in 1 .. l /\ n - k \in 1 .. n /\ n - (k + 1) = n - k - 1
    BY <2>1
  <2> QED
    BY <2>2
<1>4. (\A i \in 1 .. n : s[i] \in Nat) /\ (\A i \in 1 .. l : t[i] \in Nat)
  BY <1>0, <1>1, <1>2, SeqFacts
<1>5. \A i, j \in 1 .. n : i < j => s[i] < s[j]
  BY <1>0 DEF Increasing
<1>6. \A i, j \in 1 .. l : i < j => t[i] < t[j]
  BY <1>1, <1>2 DEF Increasing
<1>7. \A i \in 1 .. n : i # m => s[i] # s[m]
  BY <1>3, <1>4, <1>5
<1>8. \A j \in 1 .. l : j # m => t[j] # t[m]
  BY <1>3, <1>4, <1>6
<1>9. t[m] = s[m]
  BY <1>1, <1>3
<1>10. ASSUME m \in rows PROVE Erased(s, RemoveAt(t, m), rows, k + 1)
  <2>1. PICK u \in Seq(Nat) :
         /\ u = RemoveAt(t, m) /\ Increasing(u)
         /\ Len(u) = l - 1
         /\ \A j \in 1 .. m - 1 : u[j] = t[j]
         /\ \A j \in 1 .. l - 1 : \E i \in 1 .. l : i # m /\ u[j] = t[i]
         /\ \A i \in 1 .. l : i # m => \E j \in 1 .. l - 1 : u[j] = t[i]
    <3>1. t \in Seq(Nat) /\ Increasing(t) /\ m \in 1 .. Len(t)
      BY <1>1, <1>2
    <3>2. /\ RemoveAt(t, m) \in Seq(Nat) /\ Increasing(RemoveAt(t, m))
          /\ Len(RemoveAt(t, m)) = Len(t) - 1
          /\ \A j \in 1 .. m - 1 : RemoveAt(t, m)[j] = t[j]
          /\ \A j \in 1 .. Len(t) - 1 : \E i \in 1 .. Len(t) : i # m /\ RemoveAt(t, m)[j] = t[i]
          /\ \A i \in 1 .. Len(t) : i # m => \E j \in 1 .. Len(t) - 1 : RemoveAt(t, m)[j] = t[i]
      BY <3>1, RemoveAtIncreasing
    <3> QED
      BY <1>2, <3>2
  <2>2. m - 1 <= l - 1 /\ \A j \in 1 .. m - 1 : u[j] = s[j]
    BY <1>1, <1>3, <2>1
  <2>3. ASSUME NEW j \in 1 .. l - 1
        PROVE  \E i \in 1 .. n : u[j] = s[i] /\ (i <= m - 1 \/ i \notin rows)
    <3>1. PICK x \in 1 .. l : x # m /\ u[j] = t[x]
      BY <2>1
    <3>2. PICK i \in 1 .. n : t[x] = s[i] /\ (i <= m \/ i \notin rows)
      BY <1>1, <1>2, <1>3
    <3>3. i # m
      BY <1>8, <1>9, <3>1, <3>2
    <3>4. i <= m - 1 \/ i \notin rows
      BY <3>2, <3>3
    <3> QED
      BY <3>1, <3>2, <3>4
  <2>4. ASSUME NEW i \in 1 .. n, i <= m - 1 \/ i \notin rows
        PROVE  \E j \in 1 .. l - 1 : u[j] = s[i]
    <3>1. i # m /\ (i <= m \/ i \notin rows)
      BY <1>10, <2>4
    <3>2. PICK x \in 1 .. l : t[x] = s[i]
      BY <1>1, <1>2, <1>3, <3>1
    <3>3. x # m
      BY <1>7, <1>9, <3>1, <3>2
    <3>4. PICK j \in 1 .. l - 1 : u[j] = t[x]
      BY <2>1, <3>3
    <3> QED
      BY <3>2, <3>4
  <2>5. n - (k + 1) = m - 1
    BY <1>3
  <2>6. Erased(s, u, rows, k + 1)
    <3>1. n = Len(s) /\ Len(u) = l - 1 /\ u \in Seq(Nat) /\ Increasing(u)
      BY <1>0, <2>1
    <3>2. Len(s) - (k + 1) = m - 1
      BY <2>5, <3>1
    <3>3. /\ Len(s) - (k + 1) <= Len(u)
          /\ \A j \in 1 .. Len(s) - (k + 1) : u[j] = s[j]
      BY <2>2, <3>1, <3>2
    <3>4. \A j \in 1 .. Len(u) :
            \E i \in 1 .. Len(s) : u[j] = s[i] /\ (i <= Len(s) - (k + 1) \/ i \notin rows)
      BY ONLY <2>3, <3>1, <3>2
    <3>5. \A i \in 1 .. Len(s) :
            i <= Len(s) - (k + 1) \/ i \notin rows => \E j \in 1 .. Len(u) : u[j] = s[i]
      BY ONLY <2>4, <3>1, <3>2
    <3> QED
      BY ONLY <3>1, <3>3, <3>4, <3>5 DEF Erased
  <2> QED
    BY <2>1, <2>6
<1>11. ASSUME m \notin rows PROVE Erased(s, t, rows, k + 1)
  <2>1. m - 1 <= l /\ \A j \in 1 .. m - 1 : t[j] = s[j]
    BY <1>1, <1>3
  <2>2. ASSUME NEW j \in 1 .. l
        PROVE  \E i \in 1 .. n : t[j] = s[i] /\ (i <= m - 1 \/ i \notin rows)
    <3>1. PICK i \in 1 .. n : t[j] = s[i] /\ (i <= m \/ i \notin rows)
      BY <1>1, <1>2, <1>3
    <3>2. i <= m - 1 \/ i \notin rows
      BY <1>11, <3>1
    <3> QED
      BY <3>1, <3>2
  <2>3. ASSUME NEW i \in 1 .. n, i <= m - 1 \/ i \notin rows
        PROVE  \E j \in 1 .. l : t[j] = s[i]
    <3>1. i <= m \/ i \notin rows
      BY <2>3
    <3> QED
      BY <1>1, <1>2, <1>3, <3>1
  <2> QED
    BY <1>0, <1>1, <1>2, <1>3, <2>1, <2>2, <2>3 DEF Erased
<1> QED
  BY <1>0, <1>2, <1>3, <1>10, <1>11

\* Before its first turn nothing is erased.
LEMMA ErasedStart ==
  ASSUME NEW s \in Seq(Nat), Increasing(s), NEW rows
  PROVE  Erased(s, s, rows, 0)
<1>1. PICK n \in Nat : n = Len(s)
  BY SeqFacts
<1>2. n - 0 = n /\ n <= n /\ \A i \in 1 .. n : i <= n
  OBVIOUS
<1> QED
  BY <1>1, <1>2 DEF Erased

\* Erasing rows from the last on leaves the others, in their order.
LEMMA EraseFacts ==
  ASSUME NEW s \in Seq(Nat), Increasing(s), NEW rows
  PROVE  /\ EraseRows(s, rows) \in Seq(Nat) /\ Increasing(EraseRows(s, rows))
         /\ \A j \in 1 .. Len(EraseRows(s, rows)) :
              \E i \in 1 .. Len(s) : EraseRows(s, rows)[j] = s[i] /\ i \notin rows
         /\ \A i \in 1 .. Len(s) : i \notin rows =>
              \E j \in 1 .. Len(EraseRows(s, rows)) : EraseRows(s, rows)[j] = s[i]
<1>0. PICK n \in Nat : n = Len(s)
  BY SeqFacts
<1>1. PICK step \in Turns(n, Seq(Nat)) :
        \A k \in 1 .. n, t \in Seq(Nat) :
          step[<<k, t>>] = IF n + 1 - k \in rows THEN Removed(t, n + 1 - k) ELSE t
  <2>1. ASSUME NEW k \in 1 .. n, NEW t \in Seq(Nat)
        PROVE  (IF n + 1 - k \in rows THEN Removed(t, n + 1 - k) ELSE t) \in Seq(Nat)
    BY RemoveAtFacts DEF Removed
  <2>2. [p \in (1 .. n) \X Seq(Nat) |->
           IF n + 1 - p[1] \in rows THEN Removed(p[2], n + 1 - p[1]) ELSE p[2]] \in Turns(n, Seq(Nat))
    BY <2>1 DEF Turns
  <2> QED
    BY <2>2
<1>2. PICK f \in [0 .. n -> Seq(Nat)] :
        f[0] = s /\ \A k \in 1 .. n : f[k] = step[<<k, f[k - 1]>>]
  <2>1. Loops(n, Seq(Nat), s, step) # {}
    BY LoopExists
  <2> QED
    BY <2>1 DEF Loops
<1>3. ASSUME NEW k \in 1 .. n
      PROVE  f[k] = IF n + 1 - k \in rows THEN Removed(f[k - 1], n + 1 - k) ELSE f[k - 1]
  <2>1. f[k - 1] \in Seq(Nat)
    OBVIOUS
  <2> QED
    BY <1>1, <1>2, <2>1
<1> DEFINE S == {k \in 0 .. n : Erased(s, f[k], rows, k)}
<1>4. 0 \in S
  BY <1>2, ErasedStart
<1>5. ASSUME NEW k \in 0 .. n - 1, k \in S
      PROVE  k + 1 \in S /\ n - k \in 1 .. Len(f[k])
  <2>1. PICK t \in Seq(Nat) : t = f[k]
    BY <1>5
  <2>2. k + 1 \in 1 .. n /\ k + 1 - 1 = k /\ n + 1 - (k + 1) = n - k /\ k + 1 \in 0 .. n
    OBVIOUS
  <2>3. /\ n - k \in 1 .. Len(t)
        /\ n - k \in rows => Erased(s, RemoveAt(t, n - k), rows, k + 1)
        /\ n - k \notin rows => Erased(s, t, rows, k + 1)
    <3>1. Erased(s, t, rows, k)
      BY <1>5, <2>1
    <3> QED
      BY <1>0, <3>1, ErasedStep
  <2>4. f[k + 1] = IF n - k \in rows THEN Removed(t, n - k) ELSE t
    BY <1>3, <2>1, <2>2
  <2>5. Erased(s, f[k + 1], rows, k + 1)
    BY <2>3, <2>4 DEF Removed
  <2> QED
    BY <2>1, <2>2, <2>3, <2>5
<1>6. \A k \in 0 .. n : k \in S
  <2> HIDE DEF S
  <2> QED
    BY <1>4, <1>5, Induction
<1>7. ASSUME NEW k \in 1 .. n
      PROVE  f[k] = IF n + 1 - k \in rows THEN RemoveAt(f[k - 1], n + 1 - k) ELSE f[k - 1]
  <2>1. k - 1 \in 0 .. n - 1 /\ n - (k - 1) = n + 1 - k
    OBVIOUS
  <2>2. n + 1 - k \in 1 .. Len(f[k - 1])
    <3> HIDE DEF S
    <3> QED
      BY <1>5, <1>6, <2>1
  <2> QED
    BY <1>3, <2>2 DEF Removed
<1>8. f = [k \in 0 .. Len(s) |->
             IF k = 0 THEN s
             ELSE IF Len(s) + 1 - k \in rows THEN RemoveAt(f[k - 1], Len(s) + 1 - k)
                  ELSE f[k - 1]]
  <2> DEFINE turn(k) == IF k = 0 THEN s
                        ELSE IF n + 1 - k \in rows THEN RemoveAt(f[k - 1], n + 1 - k) ELSE f[k - 1]
  <2>1. \A k \in 0 .. n : f[k] = turn(k)
    <3>1. turn(0) = s /\ f[0] = s
      BY <1>2
    <3>2. \A k \in 1 .. n : f[k] = turn(k)
      BY <1>7
    <3> HIDE DEF turn
    <3> QED
      BY <3>1, <3>2
  <2> HIDE DEF turn
  <2>2. f = [k \in 0 .. n |-> turn(k)]
    BY <1>0, <2>1
  <2> QED
    BY <1>0, <2>2 DEF turn
<1> DEFINE g == LeftAfter(s, rows)
<1>9. g = [k \in 0 .. Len(s) |->
             IF k = 0 THEN s
             ELSE IF Len(s) + 1 - k \in rows THEN RemoveAt(g[k - 1], Len(s) + 1 - k)
                  ELSE g[k - 1]]
  BY <1>8 DEF LeftAfter
<1>10. EraseRows(s, rows) = g[Len(s)]
  BY Zenon DEF EraseRows, LeftAfter
<1> HIDE DEF g
<1>11. g[0] = s /\ \A k \in 1 .. n :
         g[k] = IF n + 1 - k \in rows THEN RemoveAt(g[k - 1], n + 1 - k) ELSE g[k - 1]
  <2> DEFINE D == 0 .. Len(s)
  <2>1. 0 \in D /\ \A k \in 1 .. n : k \in D /\ k # 0
    BY <1>0
  <2>2. \A k \in D : g[k] = IF k = 0 THEN s
             ELSE IF Len(s) + 1 - k \in rows THEN RemoveAt(g[k - 1], Len(s) + 1 - k)
                  ELSE g[k - 1]
    BY <1>9, Zenon
  <2> QED
    BY <1>0, <2>1, <2>2
<1> DEFINE U == {k \in 0 .. n : Erased(s, g[k], rows, k)}
<1>12. 0 \in U
  BY <1>11, ErasedStart
<1>13. ASSUME NEW k \in 0 .. n - 1, k \in U PROVE k + 1 \in U
  <2>2. k + 1 \in 1 .. n /\ k + 1 - 1 = k /\ n + 1 - (k + 1) = n - k /\ k + 1 \in 0 .. n
    OBVIOUS
  <2>3. /\ n - k \in rows => Erased(s, RemoveAt(g[k], n - k), rows, k + 1)
        /\ n - k \notin rows => Erased(s, g[k], rows, k + 1)
    <3>1. Erased(s, g[k], rows, k)
      BY <1>13
    <3> QED
      BY <1>0, <3>1, ErasedStep
  <2>4. g[k + 1] = IF n - k \in rows THEN RemoveAt(g[k], n - k) ELSE g[k]
    BY <1>11, <2>2
  <2> QED
    BY <2>2, <2>3, <2>4
<1> HIDE DEF U
<1>14. \A k \in 0 .. n : k \in U
  BY <1>12, <1>13, Induction
<1>15. Erased(s, g[n], rows, n)
  BY <1>14 DEF U
<1>16. \A i \in 1 .. n : ~(i <= n - n)
  OBVIOUS
<1> QED
  BY <1>0, <1>10, <1>15, <1>16 DEF Erased

\* The fragments of the lines of a file.
LEMMA LineFacts ==
  ASSUME NEW lines \in Seq(Line)
  PROVE  /\ Len(lines) \in Nat
         /\ \A i \in 1 .. Len(lines) : /\ lines[i] \in Seq(Fragment) /\ Len(lines[i]) \in Nat
                                       /\ lines[i] # <<>> => 1 \in 1 .. Len(lines[i])
         /\ \A i \in 1 .. Len(lines) : \A a \in 1 .. Len(lines[i]) :
              /\ lines[i][a] \in Fragment /\ lines[i][a][1] \in Nat
              /\ lines[i][a][2] \in {"whole", "torn"}
              /\ lines[i][a] = <<lines[i][a][1], lines[i][a][2]>>
<1>1. \A f \in Fragment : f[1] \in Nat /\ f[2] \in {"whole", "torn"} /\ f = <<f[1], f[2]>>
  BY HistoryAssumption DEF Fragment, Result
<1>2. Len(lines) \in Nat /\ \A i \in 1 .. Len(lines) : lines[i] \in Line
  BY SeqFacts
<1>3. ASSUME NEW l \in Line
      PROVE  /\ l \in Seq(Fragment) /\ Len(l) \in Nat
             /\ l # <<>> => 1 \in 1 .. Len(l)
             /\ \A a \in 1 .. Len(l) : l[a] \in Fragment
  <2>1. l \in Seq(Fragment)
    BY DEF Line
  <2>2. l # <<>> => Len(l) # 0
    BY <2>1, EmptySeq
  <2> QED
    BY <2>1, <2>2, SeqFacts
<1> QED
  BY <1>1, <1>2, <1>3

\* The numbers the lines begin with, one for each line and going up.
LEMMA NumbersFacts ==
  ASSUME NEW lines \in Seq(Line), Ordered(lines)
  PROVE  /\ Numbers(lines) \in Seq(Nat) /\ Len(Numbers(lines)) = Len(lines)
         /\ \A i \in 1 .. Len(lines) : Numbers(lines)[i] = lines[i][1][1]
         /\ Increasing(Numbers(lines))
<1>1. PICK n \in Nat : n = Len(lines)
  BY LineFacts
<1>2. \A i \in 1 .. n : 1 \in 1 .. Len(lines[i]) /\ lines[i][1][1] \in Nat
  BY <1>1, LineFacts DEF Ordered
<1>3. Numbers(lines) = [i \in 1 .. n |-> lines[i][1][1]]
  BY <1>1 DEF Numbers
<1>4. Numbers(lines) \in [1 .. n -> Nat]
  BY <1>2, <1>3
<1>5. Numbers(lines) \in Seq(Nat) /\ Len(Numbers(lines)) = n
  BY <1>4
<1>6. \A i \in 1 .. n : Numbers(lines)[i] = lines[i][1][1]
  BY <1>3
<1>7. \A i, j \in 1 .. n : i < j => lines[i][1][1] < lines[j][1][1]
  BY <1>1, <1>2 DEF Ordered
<1> QED
  BY <1>1, <1>5, <1>6, <1>7 DEF Increasing

\* The lines that are kept are in order too.
LEMMA KeptLines ==
  ASSUME NEW lines \in Seq(Line), Ordered(lines), NEW keep
  PROVE  /\ Kept(lines, keep) \in Seq(Line) /\ Ordered(Kept(lines, keep))
         /\ \A j \in 1 .. Len(Kept(lines, keep)) :
              \E i \in 1 .. Len(lines) : i \in keep /\ Kept(lines, keep)[j] = lines[i]
         /\ \A i \in 1 .. Len(lines) : i \in keep =>
              \E j \in 1 .. Len(Kept(lines, keep)) : Kept(lines, keep)[j] = lines[i]
<1>1. PICK t \in Seq(Line) : t = Kept(lines, keep)
  BY KeptFacts
<1>2. PICK p \in [1 .. Len(t) -> 1 .. Len(lines)] : Chosen(p, t, lines, keep, Len(lines))
  BY <1>1, KeptFacts
<1>3. \A j \in 1 .. Len(t) : p[j] \in 1 .. Len(lines) /\ p[j] \in keep /\ t[j] = lines[p[j]]
  BY <1>2 DEF Chosen
<1>4. \A i, j \in 1 .. Len(t) : i < j => p[i] < p[j]
  BY <1>2 DEF Chosen
<1>5. \A i \in 1 .. Len(lines) : i \in keep => \E j \in 1 .. Len(t) : p[j] = i
  BY <1>2 DEF Chosen
<1>6. Ordered(t)
  <2>1. ASSUME NEW j \in 1 .. Len(t)
        PROVE  /\ t[j] # <<>>
               /\ \A a, b \in 1 .. Len(t[j]) : a < b => t[j][a][1] < t[j][b][1]
    BY <1>3 DEF Ordered
  <2>2. ASSUME NEW i \in 1 .. Len(t), NEW j \in 1 .. Len(t), i < j,
               NEW a \in 1 .. Len(t[i]), NEW b \in 1 .. Len(t[j])
        PROVE  t[i][a][1] < t[j][b][1]
    <3>1. PICK x \in 1 .. Len(lines), y \in 1 .. Len(lines) :
            x = p[i] /\ y = p[j] /\ x < y /\ t[i] = lines[x] /\ t[j] = lines[y]
      BY <1>3, <1>4, <2>2
    <3>2. a \in 1 .. Len(lines[x]) /\ b \in 1 .. Len(lines[y])
      BY <3>1
    <3>3. lines[x][a][1] < lines[y][b][1]
      BY <3>1, <3>2 DEF Ordered
    <3> QED
      BY <3>1, <3>3
  <2> QED
    BY <2>1, <2>2 DEF Ordered
<1>7. \A j \in 1 .. Len(t) : \E i \in 1 .. Len(lines) : i \in keep /\ t[j] = lines[i]
  BY <1>3
<1>8. ASSUME NEW i \in 1 .. Len(lines), i \in keep PROVE \E j \in 1 .. Len(t) : t[j] = lines[i]
  BY <1>3, <1>5, <1>8
<1> QED
  BY <1>1, <1>6, <1>7, <1>8

\* The rows of the page are the numbers of the lines that can be read.
LEMMA ReadFacts ==
  ASSUME file \in Seq(Line), Ordered(file)
  PROVE  /\ ReadResultsFromFile \in Seq(Nat) /\ Increasing(ReadResultsFromFile)
         /\ \A j \in 1 .. Len(ReadResultsFromFile) :
              \E i \in 1 .. Len(file) : Readable(file[i]) /\ ReadResultsFromFile[j] = file[i][1][1]
         /\ \A i \in 1 .. Len(file) : Readable(file[i]) =>
              \E j \in 1 .. Len(ReadResultsFromFile) : ReadResultsFromFile[j] = file[i][1][1]
<1> DEFINE keep == {i \in DOMAIN file : Readable(file[i])}
<1>6. \A i \in 1 .. Len(file) : i \in keep <=> Readable(file[i])
  BY SeqFacts
<1>7. ReadResultsFromFile = LET lines == Kept(file, keep) IN [i \in DOMAIN lines |-> lines[i][1][1]]
  BY DEF ReadResultsFromFile
<1> HIDE DEF keep
<1>0. PICK k : k = keep
  OBVIOUS
<1>1. PICK f \in Seq(Line) : f = file /\ k = keep /\ Ordered(f)
  BY <1>0
<1>2. PICK t : t = Kept(f, k)
  OBVIOUS
<1>3. /\ t \in Seq(Line) /\ Ordered(t)
      /\ \A j \in 1 .. Len(t) : \E i \in 1 .. Len(f) : i \in k /\ t[j] = f[i]
      /\ \A i \in 1 .. Len(f) : i \in k => \E j \in 1 .. Len(t) : t[j] = f[i]
  <2>1. Ordered(f)
    BY <1>1
  <2>2. /\ Kept(f, k) \in Seq(Line) /\ Ordered(Kept(f, k))
        /\ \A j \in 1 .. Len(Kept(f, k)) :
              \E i \in 1 .. Len(f) : i \in k /\ Kept(f, k)[j] = f[i]
        /\ \A i \in 1 .. Len(f) : i \in k =>
              \E j \in 1 .. Len(Kept(f, k)) : Kept(f, k)[j] = f[i]
    BY ONLY <2>1, f \in Seq(Line), KeptLines
  <2> QED
    BY ONLY <1>2, <2>2
<1>4. ReadResultsFromFile = Numbers(t)
  <2>1. DOMAIN t = 1 .. Len(t)
    BY <1>3, SeqFacts
  <2> QED
    BY <1>1, <1>2, <1>7, <2>1 DEF Numbers
<1>5. /\ Numbers(t) \in Seq(Nat) /\ Len(Numbers(t)) = Len(t)
      /\ \A i \in 1 .. Len(t) : Numbers(t)[i] = t[i][1][1]
      /\ Increasing(Numbers(t))
  BY <1>3, NumbersFacts
<1>8. ASSUME NEW j \in 1 .. Len(t)
      PROVE  \E i \in 1 .. Len(file) : Readable(file[i]) /\ Numbers(t)[j] = file[i][1][1]
  <2>1. PICK i \in 1 .. Len(f) : i \in k /\ t[j] = f[i]
    BY <1>3
  <2> QED
    BY <1>1, <1>5, <1>6, <2>1
<1>9. ASSUME NEW i \in 1 .. Len(file), Readable(file[i])
      PROVE  \E j \in 1 .. Len(t) : Numbers(t)[j] = file[i][1][1]
  <2>1. PICK j \in 1 .. Len(t) : t[j] = f[i]
    BY <1>1, <1>3, <1>6, <1>9
  <2> QED
    BY <1>1, <1>5, <2>1
<1> QED
  BY <1>4, <1>5, <1>8, <1>9

\* When every line can be read, the rows of the page are the lines of the file.
LEMMA ReadAll ==
  ASSUME file \in Seq(Line), Ordered(file), AllReadable(file)
  PROVE  ReadResultsFromFile = Numbers(file)
<1>1. /\ Numbers(file) \in Seq(Nat) /\ Len(Numbers(file)) = Len(file)
      /\ \A i \in 1 .. Len(file) : Numbers(file)[i] = file[i][1][1]
      /\ Increasing(Numbers(file))
  BY NumbersFacts
<1>2. \A i \in 1 .. Len(file) : Readable(file[i])
  BY DEF AllReadable
<1>3. PICK r \in Seq(Nat) :
         /\ r = ReadResultsFromFile /\ Increasing(r)
         /\ \A j \in 1 .. Len(r) : \E i \in 1 .. Len(file) : r[j] = file[i][1][1]
         /\ \A i \in 1 .. Len(file) : \E j \in 1 .. Len(r) : r[j] = file[i][1][1]
  BY <1>2, ReadFacts
<1>4. PICK s \in Seq(Nat) : s = Numbers(file)
  BY <1>1
<1>a. Len(s) = Len(file) /\ \A i \in 1 .. Len(file) : s[i] = file[i][1][1]
  BY <1>1, <1>4
<1>5. ASSUME NEW j \in 1 .. Len(r) PROVE \E i \in 1 .. Len(s) : s[i] = r[j]
  <2>1. PICK i \in 1 .. Len(file) : r[j] = file[i][1][1]
    BY <1>3
  <2> QED
    BY <1>a, <2>1
<1>6. ASSUME NEW i \in 1 .. Len(s) PROVE \E j \in 1 .. Len(r) : r[j] = s[i]
  <2>1. i \in 1 .. Len(file) /\ s[i] = file[i][1][1]
    BY <1>a
  <2> QED
    BY <1>3, <2>1
<1>7. r = s
  BY <1>1, <1>3, <1>4, <1>5, <1>6, SameSequence
<1> QED
  BY <1>3, <1>4, <1>7

\* t has the numbers of the first lines of l.
Begins(t, l) ==
  /\ Len(t) <= Len(l)
  /\ \A i \in 1 .. Len(t) :
       /\ t[i] # <<>> /\ Len(t[i]) = Len(l[i])
       /\ \A a \in 1 .. Len(t[i]) : t[i][a][1] = l[i][a][1]

\* A file that begins as another is in order as that one is.
LEMMA BeginsFacts ==
  ASSUME NEW l \in Seq(Line), NEW t \in Seq(Line), Begins(t, l), Ordered(l)
  PROVE  Ordered(t) /\ \A S : Within(l, S) => Within(t, S)
<1>1. Len(t) \in Nat /\ Len(l) \in Nat /\ \A i \in 1 .. Len(t) : i \in 1 .. Len(l)
  BY SeqFacts DEF Begins
<1>2. Ordered(t)
  BY <1>1 DEF Begins, Ordered
<1>3. ASSUME NEW S, Within(l, S) PROVE Within(t, S)
  BY <1>1, <1>3 DEF Begins, Within
<1> QED
  BY <1>2, <1>3

\* A new line at the end of a file in order.
LEMMA AppendLine ==
  ASSUME NEW l \in Seq(Line), Ordered(l), NEW r \in Nat, Within(l, 1 .. r),
         NEW f \in Fragment, f[1] = r + 1
  PROVE  /\ Append(l, <<f>>) \in Seq(Line) /\ Ordered(Append(l, <<f>>))
         /\ Within(Append(l, <<f>>), 1 .. r + 1)
         /\ \A S : Within(l, S) /\ r + 1 \in S => Within(Append(l, <<f>>), S)
         /\ Len(Append(l, <<f>>)) = Len(l) + 1
         /\ \A i \in 1 .. Len(l) : Append(l, <<f>>)[i] = l[i]
         /\ Append(l, <<f>>)[Len(l) + 1] = <<f>>
<1>1. PICK n \in Nat : n = Len(l)
  BY SeqFacts
<1>2. <<f>> \in Line /\ Len(<<f>>) = 1 /\ <<f>>[1] = f /\ <<f>> # <<>>
  BY DEF Line
<1>3. PICK t \in Seq(Line) : /\ t = Append(l, <<f>>) /\ Len(t) = n + 1
                             /\ \A i \in 1 .. n : t[i] = l[i]
                             /\ t[n + 1] = <<f>>
  <2>1. /\ Append(l, <<f>>) \in Seq(Line) /\ Len(Append(l, <<f>>)) = Len(l) + 1
        /\ \A i \in 1 .. Len(l) : Append(l, <<f>>)[i] = l[i]
        /\ Append(l, <<f>>)[Len(l) + 1] = <<f>>
    BY <1>2, AppendFacts
  <2> QED
    BY <1>1, <2>1
<1>4. \A i \in 1 .. n : \A a \in 1 .. Len(l[i]) : l[i][a][1] \in 1 .. r
  BY <1>1 DEF Within
<1>5. \A i \in 1 .. n + 1 : i = n + 1 \/ i \in 1 .. n
  OBVIOUS
<1>6. \A a \in 1 .. Len(t[n + 1]) : a = 1 /\ t[n + 1][a][1] = r + 1
  BY <1>2, <1>3
<1>7. Ordered(t)
  <2>1. ASSUME NEW i \in 1 .. n + 1
        PROVE  /\ t[i] # <<>>
               /\ \A a, b \in 1 .. Len(t[i]) : a < b => t[i][a][1] < t[i][b][1]
    <3>1. CASE i = n + 1
      BY <1>2, <1>3, <1>6, <3>1
    <3>2. CASE i \in 1 .. n
      BY <1>1, <1>3, <3>2 DEF Ordered
    <3> QED
      BY <1>5, <3>1, <3>2
  <2>2. ASSUME NEW i \in 1 .. n + 1, NEW j \in 1 .. n + 1, i < j,
               NEW a \in 1 .. Len(t[i]), NEW b \in 1 .. Len(t[j])
        PROVE  t[i][a][1] < t[j][b][1]
    <3>1. i \in 1 .. n /\ t[i] = l[i]
      BY <1>3, <2>2
    <3>2. CASE j = n + 1
      <4>1. t[i][a][1] \in 1 .. r /\ t[j][b][1] = r + 1
        BY <1>4, <1>6, <2>2, <3>1, <3>2
      <4> QED
        BY <4>1
    <3>3. CASE j \in 1 .. n
      <4>1. t[j] = l[j]
        BY <1>3, <3>3
      <4> QED
        BY <1>1, <2>2, <3>1, <3>3, <4>1 DEF Ordered
    <3> QED
      BY <1>5, <3>2, <3>3
  <2> QED
    BY <1>3, <2>1, <2>2 DEF Ordered
<1>8. ASSUME NEW S, Within(l, S), r + 1 \in S PROVE Within(t, S)
  <2>1. \A i \in 1 .. n : \A a \in 1 .. Len(t[i]) : t[i][a][1] \in S
    BY <1>1, <1>3, <1>8 DEF Within
  <2>2. \A a \in 1 .. Len(t[n + 1]) : t[n + 1][a][1] \in S
    BY <1>6, <1>8
  <2> QED
    BY <1>3, <1>5, <2>1, <2>2 DEF Within
<1>9. Within(t, 1 .. r + 1)
  <2>1. Within(l, 1 .. r + 1)
    <3>1. \A x \in 1 .. r : x \in 1 .. r + 1
      OBVIOUS
    <3> QED
      BY <3>1 DEF Within
  <2>2. r + 1 \in 1 .. r + 1
    OBVIOUS
  <2> QED
    BY <1>8, <2>1, <2>2
<1> QED
  BY <1>1, <1>3, <1>7, <1>8, <1>9

Extended(l, f) == [l EXCEPT ![Len(l)] = Append(@, f)]

\* A new fragment at the end of the last line of a file in order.
LEMMA AppendFragment ==
  ASSUME NEW l \in Seq(Line), Ordered(l), NEW r \in Nat, Within(l, 1 .. r), l # <<>>,
         NEW f \in Fragment, f[1] = r + 1
  PROVE  /\ Extended(l, f) \in Seq(Line) /\ Ordered(Extended(l, f))
         /\ Within(Extended(l, f), 1 .. r + 1)
         /\ \A S : Within(l, S) /\ r + 1 \in S => Within(Extended(l, f), S)
         /\ Len(Extended(l, f)) = Len(l) /\ Len(l) \in Nat \ {0}
         /\ \A i \in 1 .. Len(l) : i # Len(l) => Extended(l, f)[i] = l[i]
<1>0. PICK t : t = Extended(l, f)
  OBVIOUS
<1>1. PICK n \in Nat : n = Len(l)
  BY SeqFacts
<1>2. n \in 1 .. n
  BY <1>1, EmptySeq
<1>3. PICK x \in Line : x = l[n]
  BY <1>1, <1>2, SeqFacts
<1>4. PICK m \in Nat : m = Len(x)
  BY LineFacts, <1>3, <1>2, <1>1
<1>5. PICK y \in Line : /\ y = Append(x, f) /\ Len(y) = m + 1
                        /\ \A a \in 1 .. m : y[a] = x[a]
                        /\ y[m + 1] = f
  <2>1. x \in Seq(Fragment)
    BY DEF Line
  <2>2. /\ Append(x, f) \in Seq(Fragment) /\ Len(Append(x, f)) = Len(x) + 1
        /\ \A a \in 1 .. Len(x) : Append(x, f)[a] = x[a]
        /\ Append(x, f)[Len(x) + 1] = f
    BY ONLY f \in Fragment, <2>1, AppendFacts
  <2> QED
    BY <1>4, <2>2 DEF Line
<1>6. /\ t \in Seq(Line) /\ Len(t) = n
      /\ \A i \in 1 .. n : i # n => t[i] = l[i]
      /\ t[n] = y
  <2>1. t = [l EXCEPT ![n] = y]
    BY <1>0, <1>1, <1>3, <1>5 DEF Extended
  <2>2. t \in Seq(Line) /\ Len(t) = n
    <3>1. n \in 1 .. Len(l)
      BY <1>1, <1>2
    <3>2. [l EXCEPT ![n] = y] \in Seq(Line) /\ Len([l EXCEPT ![n] = y]) = Len(l)
      BY ONLY <3>1, l \in Seq(Line), y \in Line, ExceptSeq
    <3> QED
      BY <1>1, <2>1, <3>2
  <2>3. DOMAIN l = 1 .. n
    BY <1>1, SeqFacts
  <2> QED
    BY <1>2, <2>1, <2>2, <2>3
<1>7. \A i \in 1 .. n : \A a \in 1 .. Len(l[i]) : l[i][a][1] \in 1 .. r
  BY <1>1 DEF Within
<1>8. \A a \in 1 .. m + 1 : a = m + 1 \/ a \in 1 .. m
  OBVIOUS
<1>9. \A a, b \in 1 .. m + 1 : a < b => y[a][1] < y[b][1]
  <2> SUFFICES ASSUME NEW a \in 1 .. m + 1, NEW b \in 1 .. m + 1, a < b PROVE y[a][1] < y[b][1]
    OBVIOUS
  <2>1. a \in 1 .. m /\ y[a] = x[a] /\ x[a][1] \in 1 .. r
    <3>1. a \in 1 .. m
      OBVIOUS
    <3> QED
      BY <1>2, <1>3, <1>4, <1>5, <1>7, <3>1
  <2>2. CASE b = m + 1
    BY <1>5, <2>1, <2>2
  <2>3. CASE b \in 1 .. m
    BY <1>1, <1>2, <1>3, <1>4, <1>5, <2>1, <2>3 DEF Ordered
  <2> QED
    BY <1>8, <2>2, <2>3
<1>10. y # <<>>
  <2>1. Len(y) # 0 /\ Len(<<>>) = 0
    BY <1>5
  <2> QED
    BY <2>1
<1>11. Ordered(t)
  <2>1. ASSUME NEW i \in 1 .. n
        PROVE  /\ t[i] # <<>>
               /\ \A a, b \in 1 .. Len(t[i]) : a < b => t[i][a][1] < t[i][b][1]
    <3>1. CASE i = n
      <4>1. t[i] = y /\ Len(y) = m + 1
        BY <1>5, <1>6, <3>1
      <4> QED
        BY <1>9, <1>10, <4>1
    <3>2. CASE i # n
      BY <1>1, <1>6, <3>2 DEF Ordered
    <3> QED
      BY <3>1, <3>2
  <2>2. ASSUME NEW i \in 1 .. n, NEW j \in 1 .. n, i < j,
               NEW a \in 1 .. Len(t[i]), NEW b \in 1 .. Len(t[j])
        PROVE  t[i][a][1] < t[j][b][1]
    <3>1. i # n /\ t[i] = l[i]
      BY <1>6, <2>2
    <3>2. CASE j # n
      <4>1. t[j] = l[j]
        BY <1>6, <3>2
      <4> QED
        BY <1>1, <2>2, <3>1, <4>1 DEF Ordered
    <3>3. CASE j = n
      <4>1. t[j] = y /\ b \in 1 .. m + 1
        BY <1>5, <1>6, <2>2, <3>3
      <4>2. CASE b = m + 1
        <5>1. t[i][a][1] \in 1 .. r
          BY <1>7, <2>2, <3>1
        <5> QED
          BY <1>5, <4>1, <4>2, <5>1
      <4>3. CASE b \in 1 .. m
        <5>1. t[j][b] = l[n][b] /\ b \in 1 .. Len(l[n])
          BY <1>3, <1>4, <1>5, <4>1, <4>3
        <5> QED
          BY <1>1, <1>2, <2>2, <3>1, <3>3, <5>1 DEF Ordered
      <4> QED
        BY <1>8, <4>1, <4>2, <4>3
    <3> QED
      BY <3>2, <3>3
  <2> QED
    BY <1>6, <2>1, <2>2 DEF Ordered
<1>12. ASSUME NEW S, Within(l, S), r + 1 \in S PROVE Within(t, S)
  <2>1. ASSUME NEW i \in 1 .. n, i # n PROVE \A a \in 1 .. Len(t[i]) : t[i][a][1] \in S
    BY <1>1, <1>6, <1>12, <2>1 DEF Within
  <2>2. ASSUME NEW a \in 1 .. m + 1 PROVE y[a][1] \in S
    <3>1. CASE a = m + 1
      BY <1>5, <1>12, <3>1
    <3>2. CASE a \in 1 .. m
      BY <1>1, <1>2, <1>3, <1>4, <1>5, <1>12, <3>2 DEF Within
    <3> QED
      BY <1>8, <3>1, <3>2
  <2> QED
    BY <1>5, <1>6, <2>1, <2>2 DEF Within
<1>13. Within(t, 1 .. r + 1)
  <2>1. Within(l, 1 .. r + 1)
    <3>1. \A x_1 \in 1 .. r : x_1 \in 1 .. r + 1
      OBVIOUS
    <3> QED
      BY <3>1 DEF Within
  <2>2. r + 1 \in 1 .. r + 1
    OBVIOUS
  <2> QED
    BY <1>12, <2>1, <2>2
<1>14. Len(t) = Len(l) /\ Len(l) \in Nat \ {0} /\ \A i \in 1 .. Len(l) : i # Len(l) => t[i] = l[i]
  BY <1>1, <1>2, <1>6
<1> QED
  BY <1>0, <1>6, <1>11, <1>12, <1>13, <1>14

\* The invariant of the file and the page holds at first.
LEMMA HistoryStart == HistoryInit => HistoryInv
<1> SUFFICES ASSUME HistoryInit PROVE HistoryInv
  OBVIOUS
<1>1. /\ file = <<>> /\ todo = <<>> /\ view = <<>> /\ results = 0 /\ appended = {} /\ deleted = {}
      /\ tears = 0 /\ wrecks = 0 /\ misled = FALSE /\ astray = FALSE /\ ended = TRUE /\ main = "off"
  BY DEF HistoryInit
<1>2. Len(<<>>) = 0
  OBVIOUS
<1>3. MainInv
  <2>1. ended \in BOOLEAN /\ astray \in BOOLEAN /\ misled \in BOOLEAN
    BY <1>1, Zenon
  <2>2. results \in 0 .. MaxResults /\ tears \in 0 .. MaxTears /\ wrecks \in 0 .. MaxWrecks
    BY <1>1, HistoryAssumption
  <2> QED
    BY <1>1, <2>1, <2>2 DEF MainInv
<1>4. <<>> \in Seq(Line) /\ <<>> \in Seq(Nat)
  OBVIOUS
<1>5. Lines = <<>>
  BY <1>1, <1>4, ConcatEmptySeq DEF Lines
<1>6. FileInv
  BY <1>1, <1>2, <1>4, <1>5 DEF FileInv, Ordered, Within
<1>7. ViewInv
  BY <1>1, <1>2, <1>4 DEF ViewInv, Increasing
<1>8. MatchInv
  BY <1>1, <1>2, <1>5 DEF MatchInv, Within
<1>9. LostInv
  <2>1. Lost = {}
    BY <1>1 DEF Lost
  <2> QED
    BY <1>1, <2>1, FS_EmptySet DEF LostInv
<1> QED
  BY <1>3, <1>6, <1>7, <1>8, <1>9 DEF HistoryInv

\* Unless a rewrite is under way, the lines are those of the file.
LEMMA LinesAre == MainInv /\ FileInv /\ main # "rewrite" => todo = <<>> /\ Lines = file
  BY ConcatEmptySeq DEF MainInv, FileInv, Lines

\* Steps that only turn a page.
LEMMA PageStep ==
  ASSUME HistoryInv, UNCHANGED <<fileVars, todo, pastVars>>,
         main' \in {"off", "idle", "run"},
         main = "rewrite" => todo = <<>> /\ main' = "idle",
         \/ view' = <<>> /\ astray' = astray /\ main' = "off"
         \/ view' = <<>> /\ astray' = TRUE
         \/ view' = ReadResultsFromFile /\ astray' = FALSE
         \/ view' = view /\ astray' = astray /\ (main' = "run" \/ main = "rewrite")
  PROVE  HistoryInv'
<1>1. MainInv /\ FileInv /\ ViewInv /\ MatchInv /\ LostInv
  BY DEF HistoryInv
<1>2. /\ file' = file /\ todo' = todo /\ ended' = ended /\ results' = results
      /\ appended' = appended /\ deleted' = deleted /\ tears' = tears /\ wrecks' = wrecks
      /\ misled' = misled
  BY DEF fileVars, pastVars
<1>3. Lines' = Lines /\ Lost' = Lost /\ ReadResultsFromFile' = ReadResultsFromFile
  BY <1>2 DEF Lines, Lost, ReadResultsFromFile
<1>4. todo = <<>> /\ Lines = file
  BY <1>1, LinesAre, ConcatEmptySeq DEF Lines, FileInv
<1>5. file \in Seq(Line) /\ Ordered(file) /\ Within(file, 1 .. results)
  BY <1>1, <1>4 DEF FileInv
<1>6. MainInv'
  <2>1. astray' \in BOOLEAN
    BY <1>1, Zenon DEF MainInv
  <2> QED
    BY <1>1, <1>2, <1>4, <2>1 DEF MainInv
<1>7. FileInv'
  BY <1>1, <1>2, <1>3 DEF FileInv
<1>8. LostInv'
  BY <1>1, <1>2, <1>3 DEF LostInv
<1>9. /\ ReadResultsFromFile \in Seq(Nat) /\ Increasing(ReadResultsFromFile)
      /\ \A i \in 1 .. Len(ReadResultsFromFile) : ReadResultsFromFile[i] \in 1 .. results
  <2>1. \A i \in 1 .. Len(file) : file[i][1][1] \in 1 .. results
    BY <1>5, LineFacts DEF Within, Ordered
  <2> QED
    BY <1>5, <2>1, ReadFacts
<1>10. ViewInv'
  <2>1. CASE view' = <<>>
    BY <2>1 DEF ViewInv, Increasing
  <2>2. CASE view' = ReadResultsFromFile
    BY <1>2, <1>9, <2>2 DEF ViewInv
  <2>3. CASE view' = view
    BY <1>1, <1>2, <2>3 DEF ViewInv
  <2> QED
    BY <2>1, <2>2, <2>3
<1>11. MatchInv'
  <2>1. SUFFICES ASSUME ~misled' PROVE MatchInv'
    BY DEF MatchInv
  <2>2. Within(Lines, Nat \ deleted)
    BY <1>1, <1>2, <2>1 DEF MatchInv
  <2>3. main' = "idle" /\ ~astray' => view' = ReadResultsFromFile
    <3>1. CASE main = "rewrite" /\ view' = view
      <4>1. AllReadable(Lines) /\ view = Numbers(Lines)
        BY <1>1, <1>2, <2>1, <3>1 DEF MatchInv
      <4> QED
        BY <1>4, <1>5, <3>1, <4>1, ReadAll
    <3> QED
      BY <3>1
  <2> QED
    BY <1>2, <1>3, <2>2, <2>3 DEF MatchInv
<1> QED
  BY <1>6, <1>7, <1>8, <1>10, <1>11 DEF HistoryInv

-----------------------------------------------------------------------------
(* The steps.                                                              *)

\* What a result that is appended, or torn, does to what was lost.
LEMMA LostFacts ==
  ASSUME MainInv, LostInv, results' = results + 1, results < MaxResults
  PROVE  /\ appended' = appended \cup {results'} => Lost' = Lost
         /\ appended' = appended =>
              /\ Lost' = Lost \cup {results'} /\ IsFiniteSet(Lost')
              /\ Cardinality(Lost') = tears + 1
<1>1. results \in Nat /\ appended \subseteq 1 .. results
  BY DEF MainInv
<1>2. ASSUME appended' = appended \cup {results'} PROVE Lost' = Lost
  BY <1>1, <1>2 DEF Lost
<1>3. ASSUME appended' = appended
      PROVE  /\ Lost' = Lost \cup {results'} /\ IsFiniteSet(Lost')
             /\ Cardinality(Lost') = tears + 1
  <2>1. Lost' = Lost \cup {results'} /\ results' \notin Lost
    BY <1>1, <1>3 DEF Lost
  <2>2. IsFiniteSet(Lost) /\ Cardinality(Lost) = tears
    BY DEF LostInv
  <2> QED
    BY <2>1, <2>2, FS_AddElement
<1> QED
  BY <1>2, <1>3

\* What a write to the end of the file does.
LEMMA WriteFacts ==
  ASSUME MainInv, FileInv, main = "run", NEW f \in Fragment, f[1] = results + 1,
         Write(f), todo' = todo
  PROVE  /\ todo' = <<>> /\ file' \in Seq(Line) /\ Lines' = file' /\ Lines = file
         /\ Ordered(file') /\ Within(file', 1 .. results + 1)
         /\ \A S : Within(file, S) /\ results + 1 \in S => Within(file', S)
         /\ \A i \in 1 .. Len(file) :
              ended \/ i # Len(file) => i \in 1 .. Len(file') /\ file'[i] = file[i]
         /\ Len(file) \in Nat
         /\ ended => Len(file') = Len(file) + 1 /\ file'[Len(file')] = <<f>>
         /\ ~ended => Len(file') = Len(file)
<1>1. todo = <<>> /\ Lines = file
  BY LinesAre
<1>2. PICK l \in Seq(Line), r \in Nat : l = file /\ r = results
  BY DEF MainInv, FileInv
<1>3. Ordered(l) /\ Within(l, 1 .. r) /\ f[1] = r + 1
  BY <1>1, <1>2 DEF FileInv
<1>4. PICK t : t = file'
  OBVIOUS
<1>5. CASE ended
  <2>1. t = Append(l, <<f>>)
    BY <1>2, <1>4, <1>5 DEF Write
  <2>2. /\ t \in Seq(Line) /\ Ordered(t)
        /\ Within(t, 1 .. r + 1)
        /\ \A S : Within(l, S) /\ r + 1 \in S => Within(t, S)
        /\ Len(t) = Len(l) + 1 /\ Len(l) \in Nat
        /\ \A i \in 1 .. Len(l) : t[i] = l[i]
        /\ t[Len(l) + 1] = <<f>>
    BY <1>3, <2>1, AppendLine, SeqFacts
  <2>3. Lines' = t
    BY <1>1, <1>4, <2>2, ConcatEmptySeq DEF Lines
  <2> QED
    BY <1>1, <1>2, <1>4, <1>5, <2>2, <2>3
<1>6. CASE ~ended
  <2>1. t = [l EXCEPT ![Len(l)] = Append(@, f)] /\ l # <<>>
    BY <1>2, <1>4, <1>6 DEF Write, MainInv
  <2>2. /\ t \in Seq(Line) /\ Ordered(t) /\ Within(t, 1 .. r + 1)
        /\ \A S : Within(l, S) /\ r + 1 \in S => Within(t, S)
        /\ Len(t) = Len(l) /\ Len(l) \in Nat \ {0}
        /\ \A i \in 1 .. Len(l) : i # Len(l) => t[i] = l[i]
    <3>1. t = Extended(l, f)
      BY <2>1 DEF Extended
    <3> QED
      <4>1. l # <<>>
        BY <2>1
      <4>2. /\ Extended(l, f) \in Seq(Line) /\ Ordered(Extended(l, f))
            /\ Within(Extended(l, f), 1 .. r + 1)
            /\ \A S : Within(l, S) /\ r + 1 \in S => Within(Extended(l, f), S)
            /\ Len(Extended(l, f)) = Len(l) /\ Len(l) \in Nat \ {0}
            /\ \A i \in 1 .. Len(l) : i # Len(l) => Extended(l, f)[i] = l[i]
        BY <1>3, <4>1, AppendFragment
      <4> QED
        BY ONLY <3>1, <4>2
  <2>3. Lines' = t
    BY <1>1, <1>4, <2>2, ConcatEmptySeq DEF Lines
  <2> QED
    BY <1>1, <1>2, <1>4, <1>6, <2>2, <2>3
<1> QED
  BY <1>5, <1>6

\* The results of a run are appended, whole or torn.
LEMMA AppendStep ==
  ASSUME HistoryInv, AppendBenchmarkResult \/ AppendPart
  PROVE  HistoryInv'
<1>1. MainInv /\ FileInv /\ ViewInv /\ MatchInv /\ LostInv
  BY DEF HistoryInv
<1>2. /\ main = "run" /\ results < MaxResults /\ results' = results + 1
      /\ todo' = todo /\ deleted' = deleted /\ wrecks' = wrecks /\ misled' = misled
      /\ astray' = astray /\ main' \in {"run", "off"}
      /\ view' = <<>> \/ view' = view
  BY DEF AppendBenchmarkResult, AppendPart, pageVars
<1>3. results \in Nat /\ results' \in 1 .. MaxResults /\ MaxResults \in Nat
  BY <1>1, <1>2, HistoryAssumption DEF MainInv
<1>4. PICK f \in Fragment : f[1] = results + 1 /\ Write(f)
                            /\ (AppendBenchmarkResult => f = Whole(results'))
  <2>1. Whole(results') \in Fragment /\ Torn(results') \in Fragment
        /\ Whole(results')[1] = results + 1 /\ Torn(results')[1] = results + 1
    BY <1>2, <1>3 DEF Whole, Torn, Fragment, Result
  <2> QED
    BY <2>1 DEF AppendBenchmarkResult, AppendPart
<1>5. /\ todo' = <<>> /\ file' \in Seq(Line) /\ Lines' = file' /\ Lines = file
      /\ Ordered(file') /\ Within(file', 1 .. results + 1)
      /\ \A S : Within(file, S) /\ results + 1 \in S => Within(file', S)
      /\ \A i \in 1 .. Len(file) :
           ended \/ i # Len(file) => i \in 1 .. Len(file') /\ file'[i] = file[i]
      /\ Len(file) \in Nat
      /\ ended => Len(file') = Len(file) + 1 /\ file'[Len(file')] = <<f>>
      /\ ~ended => Len(file') = Len(file)
  BY <1>1, <1>2, <1>4, WriteFacts
<1>6. MainInv'
  <2>1. /\ main' \in {"off", "idle", "run", "rewrite"}
        /\ results' \in 0 .. MaxResults
        /\ appended' \subseteq 1 .. results' /\ deleted' \subseteq 1 .. results'
        /\ wrecks' \in 0 .. MaxWrecks
        /\ main' # "rewrite"
    <3>1. appended' = appended \/ appended' = appended \cup {results'}
      BY DEF AppendBenchmarkResult, AppendPart
    <3>2. results \in 0 .. MaxResults /\ appended \subseteq 1 .. results /\ deleted \subseteq 1 .. results
          /\ wrecks \in 0 .. MaxWrecks
      BY <1>1 DEF MainInv
    <3>3. 1 .. results \subseteq 1 .. results' /\ results' \in 1 .. results'
      BY <1>2, <1>3
    <3>4. appended' \subseteq 1 .. results' /\ deleted' \subseteq 1 .. results'
      BY <1>2, <3>1, <3>2, <3>3
    <3> QED
      BY <1>2, <1>3, <3>2, <3>4
  <2>2. tears' \in 0 .. MaxTears
    BY <1>1, HistoryAssumption DEF MainInv, AppendBenchmarkResult, AppendPart
  <2>3. ended' \in BOOLEAN /\ astray' \in BOOLEAN /\ misled' \in BOOLEAN
    BY <1>1, <1>2 DEF MainInv, AppendBenchmarkResult, AppendPart
  <2>4. ~ended' => file' # <<>>
    <3>1. file # <<>> /\ file \in Seq(Line) => Len(file) # 0
      BY EmptySeq
    <3>2. Len(file') # 0
      BY <1>1, <1>5, <3>1 DEF MainInv, FileInv
    <3> QED
      BY <3>2
  <2> QED
    BY <1>5, <2>1, <2>2, <2>3, <2>4 DEF MainInv
<1>7. FileInv'
  <2>1. todo' \in Seq(Line)
    BY <1>5
  <2> QED
    BY <1>2, <1>5, <2>1 DEF FileInv
<1>8. ViewInv'
  <2>1. CASE view' = <<>>
    BY <2>1 DEF ViewInv, Increasing
  <2>2. CASE view' = view
    <3>1. \A x \in 1 .. results : x \in 1 .. results + 1
      BY <1>3
    <3> QED
      BY <1>1, <1>2, <2>2, <3>1 DEF ViewInv
  <2> QED
    BY <1>2, <2>1, <2>2
<1>9. MatchInv'
  <2>1. SUFFICES ASSUME ~misled' PROVE MatchInv'
    BY DEF MatchInv
  <2>2. Within(file, Nat \ deleted)
    BY <1>1, <1>2, <1>5, <2>1 DEF MatchInv
  <2>3. results + 1 \in Nat \ deleted
    BY <1>1, <1>3 DEF MainInv
  <2>4. Within(file', Nat \ deleted)
    BY <1>5, <2>2, <2>3
  <2> QED
    BY <1>2, <1>5, <2>4 DEF MatchInv
<1>10. CASE AppendBenchmarkResult
  <2>1. appended' = appended \cup {results'} /\ tears' = tears /\ ended' = TRUE
    BY <1>10 DEF AppendBenchmarkResult
  <2>2. Lost' = Lost
    BY <1>1, <1>2, <2>1, LostFacts
  <2>3. ASSUME wrecks' = 0, ~misled', NEW r \in appended' \ deleted'
        PROVE  \/ \E i \in 1 .. Len(Lines') :
                    Lines'[i] = <<Whole(r)>> /\ (ended' \/ i # Len(file'))
               \/ r - 1 \in Lost'
    <3>1. CASE r = results'
      <4>1. CASE ended
        <5>1. file'[Len(file')] = <<Whole(r)>> /\ Len(file') \in 1 .. Len(file')
          BY <1>4, <1>5, <1>10, <3>1, <4>1
        <5> QED
          BY <1>5, <2>1, <5>1
      <4>2. CASE ~ended
        <5>1. results \in Lost
          BY <1>1, <1>2, <2>3, <4>2 DEF LostInv
        <5>2. r - 1 = results
          BY <1>2, <1>3, <3>1
        <5> QED
          BY <2>2, <5>1, <5>2
      <4> QED
        BY <4>1, <4>2
    <3>2. CASE r # results'
      <4>1. r \in appended \ deleted
        BY <1>2, <2>1, <2>3, <3>2
      <4>2. CASE r - 1 \in Lost
        BY <2>2, <4>2
      <4>3. CASE \E i \in 1 .. Len(Lines) : Lines[i] = <<Whole(r)>> /\ (ended \/ i # Len(file))
        <5>1. PICK i \in 1 .. Len(file) : file[i] = <<Whole(r)>> /\ (ended \/ i # Len(file))
          BY <1>5, <4>3
        <5>2. i \in 1 .. Len(file') /\ file'[i] = <<Whole(r)>>
          BY <1>5, <5>1
        <5> QED
          BY <1>5, <2>1, <5>2
      <4> QED
        BY <1>1, <1>2, <2>3, <4>1, <4>2, <4>3 DEF LostInv
    <3> QED
      BY <3>1, <3>2
  <2>4. LostInv'
    BY <1>1, <2>1, <2>2, <2>3 DEF LostInv
  <2> QED
    BY <1>6, <1>7, <1>8, <1>9, <2>4 DEF HistoryInv
<1>11. CASE AppendPart
  <2>1. appended' = appended /\ tears' = tears + 1 /\ ended' = FALSE
    BY <1>11 DEF AppendPart
  <2>2. Lost' = Lost \cup {results'} /\ IsFiniteSet(Lost') /\ Cardinality(Lost') = tears'
    BY <1>1, <1>2, <2>1, LostFacts
  <2>3. ASSUME wrecks' = 0, ~misled', NEW r \in appended' \ deleted'
        PROVE  \/ \E i \in 1 .. Len(Lines') :
                    Lines'[i] = <<Whole(r)>> /\ (ended' \/ i # Len(file'))
               \/ r - 1 \in Lost'
    <3>1. r \in appended \ deleted
      BY <1>2, <2>1, <2>3
    <3>2. CASE r - 1 \in Lost
      BY <2>2, <3>2
    <3>3. CASE \E i \in 1 .. Len(Lines) : Lines[i] = <<Whole(r)>> /\ (ended \/ i # Len(file))
      <4>1. PICK i \in 1 .. Len(file) : file[i] = <<Whole(r)>> /\ (ended \/ i # Len(file))
        BY <1>5, <3>3
      <4>2. i \in 1 .. Len(file') /\ file'[i] = <<Whole(r)>>
        BY <1>5, <4>1
      <4>3. i # Len(file')
        BY <1>5, <4>1
      <4> QED
        BY <1>5, <4>2, <4>3
    <3> QED
      BY <1>1, <1>2, <2>3, <3>1, <3>2, <3>3 DEF LostInv
  <2>4. LostInv'
    BY <2>1, <2>2, <2>3 DEF LostInv
  <2> QED
    BY <1>6, <1>7, <1>8, <1>9, <2>4 DEF HistoryInv
<1> QED
  BY <1>10, <1>11

\* A line has a first fragment.
LEMMA NumbersBegin ==
  ASSUME NEW l \in Seq(Line), Ordered(l)
  PROVE  \A i \in 1 .. Len(l) : 1 \in 1 .. Len(l[i])
  BY LineFacts DEF Ordered

\* The user deletes rows, and every line of the file could be read, or not.
LEMMA EraseView ==
  ASSUME ViewInv, NEW rows, view' = EraseRows(view, rows), results' = results
  PROVE  ViewInv'
<1>1. PICK s \in Seq(Nat) : s = view
  BY DEF ViewInv
<1>2. Increasing(s) /\ \A i \in 1 .. Len(s) : s[i] \in 1 .. results
  BY <1>1 DEF ViewInv
<1>3. PICK t : t = EraseRows(s, rows)
  OBVIOUS
<1>4. /\ t \in Seq(Nat) /\ Increasing(t)
      /\ \A j \in 1 .. Len(t) : \E i \in 1 .. Len(s) : t[j] = s[i] /\ i \notin rows
  BY <1>2, <1>3, EraseFacts
<1>5. \A j \in 1 .. Len(t) : t[j] \in 1 .. results
  BY <1>2, <1>4
<1>6. view' = t
  BY <1>1, <1>3
<1> QED
  BY <1>4, <1>5, <1>6 DEF ViewInv

\* A deletion that cannot open the file.
LEMMA DeleteFailsStep ==
  ASSUME HistoryInv, NEW rows \in SUBSET DOMAIN view, DeleteFails(rows)
  PROVE  HistoryInv'
<1>1. MainInv /\ FileInv /\ ViewInv /\ MatchInv /\ LostInv
  BY DEF HistoryInv
<1>2. /\ main' = main /\ file' = file /\ todo' = todo /\ ended' = ended /\ results' = results
      /\ appended' = appended /\ deleted' = deleted /\ tears' = tears /\ wrecks' = wrecks
      /\ misled' = misled /\ astray' = TRUE /\ view' = EraseRows(view, rows)
  BY DEF DeleteFails, fileVars, pastVars
<1>3. Lines' = Lines /\ Lost' = Lost
  BY <1>2 DEF Lines, Lost
<1>4. astray' \in BOOLEAN
  BY <1>2, Zenon
<1>5. MainInv'
  BY <1>1, <1>2, <1>4 DEF MainInv
<1>6. FileInv'
  BY <1>1, <1>2, <1>3 DEF FileInv
<1>7. ViewInv'
  BY <1>1, <1>2, EraseView
<1>8. MatchInv'
  <2>1. main = "idle"
    BY DEF DeleteFails
  <2> QED
    BY <1>1, <1>2, <1>3, <2>1 DEF MatchInv
<1>9. LostInv'
  BY <1>1, <1>2, <1>3 DEF LostInv
<1> QED
  BY <1>5, <1>6, <1>7, <1>8, <1>9 DEF HistoryInv

\* The rows that stay on the page are the lines that are written back.
LEMMA SameRows ==
  ASSUME NEW l \in Seq(Line), Ordered(l), NEW rows,
         NEW t \in Seq(Line), t = Kept(l, DOMAIN l \ rows)
  PROVE  EraseRows(Numbers(l), rows) = Numbers(t)
<1>1. PICK s \in Seq(Nat) : /\ s = Numbers(l) /\ Len(s) = Len(l) /\ Increasing(s)
                            /\ \A i \in 1 .. Len(l) : s[i] = l[i][1][1]
  BY NumbersFacts
<1>2. PICK u : u = EraseRows(s, rows)
  OBVIOUS
<1>3. /\ u \in Seq(Nat) /\ Increasing(u)
      /\ \A j \in 1 .. Len(u) : \E i \in 1 .. Len(s) : u[j] = s[i] /\ i \notin rows
      /\ \A i \in 1 .. Len(s) : i \notin rows => \E j \in 1 .. Len(u) : u[j] = s[i]
  <2>0. Increasing(s)
    BY <1>1
  <2>1. /\ EraseRows(s, rows) \in Seq(Nat) /\ Increasing(EraseRows(s, rows))
        /\ \A j \in 1 .. Len(EraseRows(s, rows)) :
              \E i \in 1 .. Len(s) : EraseRows(s, rows)[j] = s[i] /\ i \notin rows
        /\ \A i \in 1 .. Len(s) : i \notin rows =>
              \E j \in 1 .. Len(EraseRows(s, rows)) : EraseRows(s, rows)[j] = s[i]
    BY ONLY <2>0, s \in Seq(Nat), EraseFacts
  <2> QED
    BY ONLY <1>2, <2>1
<1>4. PICK keep : keep = DOMAIN l \ rows
  OBVIOUS
<1>5. \A i \in 1 .. Len(l) : i \in keep <=> i \notin rows
  BY <1>4, SeqFacts
<1>6. t = Kept(l, keep)
  BY <1>4
<1>7. /\ Ordered(t)
      /\ \A j \in 1 .. Len(t) : \E i \in 1 .. Len(l) : i \in keep /\ t[j] = l[i]
      /\ \A i \in 1 .. Len(l) : i \in keep => \E j \in 1 .. Len(t) : t[j] = l[i]
  <2>1. /\ Ordered(Kept(l, keep))
        /\ \A j \in 1 .. Len(Kept(l, keep)) :
              \E i \in 1 .. Len(l) : i \in keep /\ Kept(l, keep)[j] = l[i]
        /\ \A i \in 1 .. Len(l) : i \in keep =>
              \E j \in 1 .. Len(Kept(l, keep)) : Kept(l, keep)[j] = l[i]
    BY ONLY Ordered(l), l \in Seq(Line), KeptLines, SMTT(30)
  <2> QED
    BY ONLY <1>6, <2>1
<1>8. PICK v \in Seq(Nat) : /\ v = Numbers(t) /\ Len(v) = Len(t) /\ Increasing(v)
                            /\ \A i \in 1 .. Len(t) : v[i] = t[i][1][1]
  BY <1>7, NumbersFacts
<1>9. ASSUME NEW j \in 1 .. Len(u) PROVE \E i \in 1 .. Len(v) : v[i] = u[j]
  <2>1. PICK i \in 1 .. Len(l) : u[j] = l[i][1][1] /\ i \in keep
    BY <1>1, <1>3, <1>5
  <2>2. PICK x \in 1 .. Len(t) : t[x] = l[i]
    BY <1>7, <2>1
  <2> QED
    BY <1>8, <2>1, <2>2
<1>10. ASSUME NEW j \in 1 .. Len(v) PROVE \E i \in 1 .. Len(u) : u[i] = v[j]
  <2>1. PICK i \in 1 .. Len(l) : i \in keep /\ t[j] = l[i]
    BY <1>7, <1>8
  <2>2. i \in 1 .. Len(s) /\ i \notin rows /\ s[i] = v[j]
    BY <1>1, <1>5, <1>8, <2>1
  <2> QED
    BY <1>3, <2>2
<1>11. u = v
  BY <1>3, <1>8, <1>9, <1>10, SameSequence
<1> QED
  BY <1>1, <1>2, <1>8, <1>11

\* A deletion that rewrites the file.
LEMMA DeleteStep ==
  ASSUME HistoryInv, NEW rows \in SUBSET DOMAIN view, OnDeleteHistoryRequested(rows)
  PROVE  HistoryInv'
<1>1. MainInv /\ FileInv /\ ViewInv /\ MatchInv /\ LostInv
  BY DEF HistoryInv
<1>2. /\ main = "idle" /\ main' = "rewrite"
      /\ file' = <<>> /\ ended' = TRUE /\ results' = results
      /\ appended' = appended /\ tears' = tears /\ wrecks' = wrecks
      /\ deleted' = deleted \cup {view[i] : i \in rows}
      /\ view' = EraseRows(view, rows)
      /\ todo' = Kept(file, DOMAIN file \ rows) /\ astray' = astray
  BY DEF OnDeleteHistoryRequested
<1>3. ~misled' => ~misled /\ ~astray /\ \A i \in DOMAIN file : Readable(file[i])
  BY DEF OnDeleteHistoryRequested
<1>4. misled' \in BOOLEAN
  BY DEF OnDeleteHistoryRequested
<1>5. Lines = file /\ Lost' = Lost
  BY <1>1, <1>2, LinesAre DEF Lost
<1>6. PICK l \in Seq(Line) : l = file /\ Ordered(l) /\ Within(l, 1 .. results)
  BY <1>1, <1>5 DEF FileInv
<1>7. PICK keep : keep = DOMAIN l \ rows
  OBVIOUS
<1>8. \A i \in 1 .. Len(l) : i \in keep <=> i \notin rows
  BY <1>7, SeqFacts
<1>9. PICK t : t = Kept(l, keep)
  OBVIOUS
<1>10. /\ t \in Seq(Line) /\ Ordered(t)
       /\ \A j \in 1 .. Len(t) : \E i \in 1 .. Len(l) : i \in keep /\ t[j] = l[i]
       /\ \A i \in 1 .. Len(l) : i \in keep => \E j \in 1 .. Len(t) : t[j] = l[i]
  <2>1. /\ Kept(l, keep) \in Seq(Line) /\ Ordered(Kept(l, keep))
        /\ \A j \in 1 .. Len(Kept(l, keep)) :
              \E i \in 1 .. Len(l) : i \in keep /\ Kept(l, keep)[j] = l[i]
        /\ \A i \in 1 .. Len(l) : i \in keep =>
              \E j \in 1 .. Len(Kept(l, keep)) : Kept(l, keep)[j] = l[i]
    BY <1>6, KeptLines
  <2> QED
    BY ONLY <1>9, <2>1
<1>11. todo' = t
  BY <1>2, <1>6, <1>7, <1>9
<1>12. Lines' = t
  BY <1>2, <1>10, <1>11, ConcatEmptySeq DEF Lines
<1>13. \A i \in rows : i \in 1 .. Len(view)
  BY <1>1, SeqFacts DEF ViewInv
<1>14. \A i \in rows : view[i] \in 1 .. results
  BY <1>1, <1>13 DEF ViewInv
<1>15. MainInv'
  BY <1>1, <1>2, <1>4, <1>14 DEF MainInv
<1>16. FileInv'
  <2>1. Within(t, 1 .. results)
    BY <1>6, <1>10 DEF Within
  <2>2. file' \in Seq(Line)
    BY <1>2
  <2> QED
    BY <1>2, <1>10, <1>11, <1>12, <2>1, <2>2 DEF FileInv
<1>17. ViewInv'
  BY <1>1, <1>2, EraseView
<1>18. ASSUME ~misled'
       PROVE  view = Numbers(l) /\ AllReadable(l) /\ Within(l, Nat \ deleted)
  <2>1. view = ReadResultsFromFile /\ Within(l, Nat \ deleted)
    BY <1>1, <1>2, <1>3, <1>5, <1>6, <1>18 DEF MatchInv
  <2>2. AllReadable(l)
    BY <1>3, <1>6, <1>18, SeqFacts DEF AllReadable
  <2> QED
    BY <1>6, <2>1, <2>2, ReadAll
<1>19. MatchInv'
  <2>1. SUFFICES ASSUME ~misled' PROVE MatchInv'
    BY DEF MatchInv
  <2>2. view' = Numbers(t)
    <3>1. t = Kept(l, DOMAIN l \ rows)
      BY <1>7, <1>9
    <3>2. EraseRows(Numbers(l), rows) = Numbers(t)
      BY <1>6, <1>10, <3>1, SameRows
    <3> QED
      BY <1>2, <1>18, <2>1, <3>2
  <2>3. AllReadable(t)
    BY <1>10, <1>18, <2>1 DEF AllReadable
  <2>4. Within(t, Nat \ deleted')
    <3> SUFFICES ASSUME NEW j \in 1 .. Len(t), NEW a \in 1 .. Len(t[j])
                 PROVE  t[j][a][1] \in Nat \ deleted'
      BY DEF Within
    <3>1. PICK i \in 1 .. Len(l) : i \in keep /\ t[j] = l[i]
      BY <1>10
    <3>2. t[j][a][1] \in Nat \ deleted
      BY <1>18, <2>1, <3>1 DEF Within
    <3>3. a = 1
      <4>1. Readable(l[i])
        BY <1>18, <2>1 DEF AllReadable
      <4>2. a \in 1 .. Len(l[i]) /\ Len(l[i]) = 1
        BY <3>1, <4>1 DEF Readable
      <4> QED
        BY <4>2
    <3>4. t[j][a][1] = view[i]
      BY <1>6, <1>18, <2>1, <3>1, <3>3, NumbersFacts
    <3>5. ASSUME NEW x \in rows PROVE view[x] # view[i]
      <4>1. x \in 1 .. Len(view) /\ i \in 1 .. Len(view) /\ x # i
        BY <1>6, <1>8, <1>13, <1>18, <2>1, <3>1, NumbersFacts
      <4>2. view[x] < view[i] \/ view[i] < view[x]
        BY <1>1, <4>1 DEF ViewInv, Increasing
      <4>3. view[x] \in Nat /\ view[i] \in Nat
        BY <1>1, <4>1, SeqFacts DEF ViewInv
      <4> QED
        BY <4>2, <4>3
    <3> QED
      BY <1>2, <3>2, <3>4, <3>5
  <2> QED
    BY <1>2, <1>3, <1>12, <2>1, <2>2, <2>3, <2>4 DEF MatchInv
<1>20. LostInv'
  <2>1. ASSUME wrecks' = 0, ~misled', NEW r \in appended' \ deleted'
        PROVE  \/ \E i \in 1 .. Len(Lines') :
                    Lines'[i] = <<Whole(r)>> /\ (ended' \/ i # Len(file'))
               \/ r - 1 \in Lost'
    <3>1. r \in appended \ deleted
      BY <1>2, <2>1
    <3>2. CASE r - 1 \in Lost
      BY <1>5, <3>2
    <3>3. CASE \E i \in 1 .. Len(Lines) : Lines[i] = <<Whole(r)>> /\ (ended \/ i # Len(file))
      <4>1. PICK i \in 1 .. Len(l) : l[i] = <<Whole(r)>>
        BY <1>5, <1>6, <3>3
      <4>2. view[i] = r
        <5>1. l[i][1][1] = r
          BY <4>1 DEF Whole
        <5> QED
          BY <1>6, <1>18, <2>1, <5>1, NumbersFacts
      <4>3. i \in keep
        BY <1>2, <1>8, <2>1, <4>2
      <4>4. PICK j \in 1 .. Len(t) : t[j] = l[i]
        BY <1>10, <4>3
      <4> QED
        BY <1>2, <1>12, <4>1, <4>4
    <3> QED
      BY <1>1, <1>2, <1>3, <2>1, <3>1, <3>2, <3>3 DEF LostInv
  <2> QED
    BY <1>1, <1>2, <1>5, <2>1 DEF LostInv
<1> QED
  BY <1>15, <1>16, <1>17, <1>19, <1>20 DEF HistoryInv

\* Going on with a rewrite leaves the lines as they are.
LEMMA WriteBackStep == HistoryInv /\ WriteBack => HistoryInv'
<1> SUFFICES ASSUME HistoryInv, WriteBack PROVE HistoryInv'
  OBVIOUS
<1>1. MainInv /\ FileInv /\ ViewInv /\ MatchInv /\ LostInv
  BY DEF HistoryInv
<1>2. /\ main = "rewrite" /\ todo # <<>>
      /\ file' = Append(file, Head(todo)) /\ todo' = Tail(todo)
      /\ main' = main /\ ended' = ended /\ view' = view /\ results' = results
      /\ appended' = appended /\ deleted' = deleted /\ tears' = tears /\ wrecks' = wrecks
      /\ misled' = misled /\ astray' = astray
  BY DEF WriteBack, pastVars, pageVars
<1>3. file \in Seq(Line) /\ todo \in Seq(Line)
  BY <1>1 DEF FileInv
<1>4. /\ Head(todo) \in Line /\ Tail(todo) \in Seq(Line)
      /\ file' \in Seq(Line)
      /\ file' \o Tail(todo) = file \o todo
  <2>1. Head(todo) \in Line /\ Tail(todo) \in Seq(Line) /\ <<Head(todo)>> \o Tail(todo) = todo
    BY <1>2, <1>3, HeadTailProperties
  <2>2. Append(file, Head(todo)) = file \o <<Head(todo)>> /\ <<Head(todo)>> \in Seq(Line)
    BY <1>3, <2>1, AppendIsConcat
  <2>3. (file \o <<Head(todo)>>) \o Tail(todo) = file \o (<<Head(todo)>> \o Tail(todo))
    BY <1>3, <2>1, <2>2, ConcatAssociative
  <2>4. Append(file, Head(todo)) \in Seq(Line)
    BY <1>3, <2>1, AppendProperties
  <2> QED
    BY <1>2, <2>1, <2>2, <2>3, <2>4
<1>5. Lines' = Lines /\ Lost' = Lost
  BY <1>2, <1>4 DEF Lines, Lost
<1>6. ended
  BY <1>1, <1>2 DEF MainInv
<1>7. MainInv'
  BY <1>1, <1>2, <1>6 DEF MainInv
<1>8. FileInv'
  BY <1>1, <1>2, <1>4, <1>5 DEF FileInv
<1>9. ViewInv'
  BY <1>1, <1>2 DEF ViewInv
<1>10. MatchInv'
  BY <1>1, <1>2, <1>5 DEF MatchInv
<1>11. LostInv'
  BY <1>1, <1>2, <1>5, <1>6 DEF LostInv
<1> QED
  BY <1>7, <1>8, <1>9, <1>10, <1>11 DEF HistoryInv

\* A line that is cut has the numbers it had.
LEMMA TornLine ==
  ASSUME NEW x \in Line, x # <<>>
  PROVE  /\ [x EXCEPT ![Len(x)] = Torn(@[1])] \in Line
         /\ [x EXCEPT ![Len(x)] = Torn(@[1])] # <<>>
         /\ Len([x EXCEPT ![Len(x)] = Torn(@[1])]) = Len(x)
         /\ \A a \in 1 .. Len(x) : [x EXCEPT ![Len(x)] = Torn(@[1])][a][1] = x[a][1]
<1>1. PICK n \in Nat : n = Len(x)
  BY SeqFacts DEF Line
<1>2. n \in 1 .. n
  BY <1>1, EmptySeq DEF Line
<1>3. x[n] \in Fragment
  BY <1>1, <1>2, SeqFacts DEF Line
<1>4. PICK e : e = Torn(x[n][1])
  OBVIOUS
<1>5. e \in Fragment /\ e[1] = x[n][1]
  BY <1>3, <1>4 DEF Fragment, Torn
<1>6. PICK y : y = [x EXCEPT ![n] = e]
  OBVIOUS
<1>7. x \in Seq(Fragment) /\ n \in 1 .. Len(x)
  BY <1>1, <1>2 DEF Line
<1>8. y \in Seq(Fragment) /\ Len(y) = n /\ \A a \in 1 .. n : y[a] = IF a = n THEN e ELSE x[a]
  <2>1. /\ [x EXCEPT ![n] = e] \in Seq(Fragment)
        /\ Len([x EXCEPT ![n] = e]) = Len(x)
        /\ \A j \in 1 .. Len(x) : [x EXCEPT ![n] = e][j] = IF j = n THEN e ELSE x[j]
    BY ONLY <1>5, <1>7, ExceptSeq
  <2> QED
    BY <1>1, <1>6, <2>1
<1>9. y # <<>>
  <2>1. Len(<<>>) = 0
    OBVIOUS
  <2> QED
    BY <1>2, <1>8, <2>1
<1>10. [x EXCEPT ![Len(x)] = Torn(@[1])] = y
  BY <1>1, <1>4, <1>6
<1> QED
  BY <1>1, <1>5, <1>8, <1>9, <1>10 DEF Line

\* What is left of the file when a rewrite is cut short.
LEMMA CutFacts ==
  ASSUME NEW l \in Seq(Line), NEW f \in Seq(Line), NEW t \in Seq(Line), l = f \o t, Ordered(l)
  PROVE  /\ Begins(f, l)
         /\ t # <<>> => Head(t) \in Line /\ Head(t) # <<>>
         /\ t # <<>> => \A x \in Line :
              /\ x # <<>> /\ Len(x) = Len(Head(t))
              /\ \A a \in 1 .. Len(x) : x[a][1] = Head(t)[a][1]
              => Append(f, x) \in Seq(Line) /\ Begins(Append(f, x), l)
<1>1. PICK n \in Nat, m \in Nat : n = Len(f) /\ m = Len(t)
  BY SeqFacts
<1>2. Len(l) = n + m /\ \A i \in 1 .. n + m : l[i] = IF i <= n THEN f[i] ELSE t[i - n]
  BY <1>1, ConcatProperties
<1>3. \A i \in 1 .. n : i \in 1 .. n + m /\ l[i] = f[i] /\ f[i] # <<>>
  <2>1. \A i \in 1 .. n : i \in 1 .. n + m /\ l[i] = f[i]
    BY <1>2
  <2> QED
    BY <1>2, <2>1 DEF Ordered
<1>4. Begins(f, l)
  BY <1>1, <1>2, <1>3 DEF Begins
<1>5. ASSUME t # <<>>
      PROVE  Head(t) \in Line /\ l[n + 1] = Head(t) /\ n + 1 \in 1 .. n + m /\ Head(t) # <<>>
  <2>1. Head(t) = t[1] /\ Head(t) \in Line /\ m # 0
    BY <1>1, <1>5, HeadTailProperties, EmptySeq
  <2>2. n + 1 \in 1 .. n + m /\ ~(n + 1 <= n) /\ n + 1 - n = 1
    BY <2>1
  <2>3. l[n + 1] = t[1]
    BY <1>2, <2>2
  <2>4. l[n + 1] # <<>>
    BY <1>2, <2>2 DEF Ordered
  <2> QED
    BY <2>1, <2>2, <2>3, <2>4
<1>6. ASSUME t # <<>>, NEW x \in Line, x # <<>>, Len(x) = Len(Head(t)),
             \A a \in 1 .. Len(x) : x[a][1] = Head(t)[a][1]
      PROVE  Append(f, x) \in Seq(Line) /\ Begins(Append(f, x), l)
  <2>1. PICK u \in Seq(Line) : /\ u = Append(f, x) /\ Len(u) = n + 1
                               /\ \A i \in 1 .. n : u[i] = f[i]
                               /\ u[n + 1] = x
    <3>1. /\ Append(f, x) \in Seq(Line) /\ Len(Append(f, x)) = Len(f) + 1
          /\ \A j \in 1 .. Len(f) : Append(f, x)[j] = f[j]
          /\ Append(f, x)[Len(f) + 1] = x
      BY AppendFacts
    <3> QED
      BY <1>1, <3>1
  <2>2. \A i \in 1 .. n + 1 : i = n + 1 \/ i \in 1 .. n
    OBVIOUS
  <2>3. n + 1 <= n + m
    BY <1>5, <1>6
  <2>4. ASSUME NEW i \in 1 .. n + 1
        PROVE  /\ u[i] # <<>> /\ Len(u[i]) = Len(l[i])
               /\ \A a \in 1 .. Len(u[i]) : u[i][a][1] = l[i][a][1]
    <3>1. CASE i = n + 1
      BY <1>5, <1>6, <2>1, <3>1
    <3>2. CASE i \in 1 .. n
      BY <1>3, <2>1, <3>2
    <3> QED
      BY <2>2, <3>1, <3>2
  <2> QED
    BY <1>2, <2>1, <2>3, <2>4 DEF Begins
<1> QED
  BY <1>4, <1>5, <1>6

\* The process dies in a rewrite, or a write fails.
LEMMA CutStep == HistoryInv /\ (DieInRewrite \/ RewriteFails) => HistoryInv'
<1> SUFFICES ASSUME HistoryInv, DieInRewrite \/ RewriteFails PROVE HistoryInv'
  OBVIOUS
<1>1. MainInv /\ FileInv /\ ViewInv /\ MatchInv /\ LostInv
  BY DEF HistoryInv
<1>2. /\ main = "rewrite" /\ wrecks < MaxWrecks
      /\ wrecks' = wrecks + 1 /\ todo' = <<>>
      /\ results' = results /\ appended' = appended /\ deleted' = deleted /\ tears' = tears
      /\ misled' = misled
      /\ \/ main' = "off" /\ view' = <<>> /\ astray' = astray
         \/ main' = "idle" /\ view' = view /\ astray' = TRUE
  BY DEF DieInRewrite, RewriteFails, CutShort
<1>3. PICK l \in Seq(Line), f \in Seq(Line), t \in Seq(Line) :
        l = Lines /\ f = file /\ t = todo /\ l = f \o t /\ Ordered(l) /\ Within(l, 1 .. results)
  <2>1. file \in Seq(Line) /\ todo \in Seq(Line) /\ file \o todo \in Seq(Line)
    BY <1>1, ConcatProperties DEF FileInv
  <2> QED
    BY <1>1, <2>1 DEF FileInv, Lines
<1>4. /\ Begins(f, l)
      /\ t # <<>> => Head(t) \in Line /\ Head(t) # <<>>
      /\ t # <<>> => \A x \in Line :
           /\ x # <<>> /\ Len(x) = Len(Head(t))
           /\ \A a \in 1 .. Len(x) : x[a][1] = Head(t)[a][1]
           => Append(f, x) \in Seq(Line) /\ Begins(Append(f, x), l)
  BY <1>3, CutFacts
<1>5. \/ file' = f /\ ended' = ended
      \/ t # <<>> /\ ended' = FALSE /\ file' = Append(f, Head(t))
      \/ /\ t # <<>> /\ ended' = FALSE
         /\ file' = Append(f, [Head(t) EXCEPT ![Len(Head(t))] = Torn(@[1])])
  BY <1>3 DEF DieInRewrite, RewriteFails, CutShort, fileVars
<1>6. PICK u \in Seq(Line) : u = file' /\ Begins(u, l)
  <2>1. CASE file' = f
    BY <1>4, <2>1
  <2>2. CASE t # <<>> /\ file' = Append(f, Head(t))
    BY <1>4, <2>2
  <2>3. CASE t # <<>> /\ file' = Append(f, [Head(t) EXCEPT ![Len(Head(t))] = Torn(@[1])])
    <3>1. PICK x \in Line : x = Head(t) /\ x # <<>>
      BY <1>4, <2>3
    <3>2. PICK y : y = [x EXCEPT ![Len(x)] = Torn(@[1])]
      OBVIOUS
    <3>3. y \in Line /\ y # <<>> /\ Len(y) = Len(x) /\ \A a \in 1 .. Len(x) : y[a][1] = x[a][1]
      BY <3>1, <3>2, TornLine
    <3>4. file' = Append(f, y)
      BY <2>3, <3>1, <3>2
    <3> QED
      BY <1>4, <2>3, <3>1, <3>3, <3>4
  <2> QED
    BY <1>5, <2>1, <2>2, <2>3
<1>7. Ordered(u) /\ \A S : Within(l, S) => Within(u, S)
  BY <1>3, <1>6, BeginsFacts
<1>8. Lines' = u /\ Lost' = Lost
  BY <1>2, <1>6, ConcatEmptySeq DEF Lines, Lost
<1>9. MainInv'
  <2>1. ended' \in BOOLEAN
    BY <1>1, <1>5, Zenon DEF MainInv
  <2>4. astray' \in BOOLEAN
    BY <1>1, <1>2, Zenon DEF MainInv
  <2>2. ~ended' => file' # <<>>
    <3>1. ~ended' => \E x : file' = Append(f, x)
      <4>1. ended
        BY <1>1, <1>2 DEF MainInv
      <4> QED
        BY <1>5, <4>1
    <3>2. ASSUME NEW x, file' = Append(f, x) PROVE file' # <<>>
      <4>1. f \in Seq(Line \cup {x}) /\ x \in Line \cup {x}
        BY <1>3, SeqFacts
      <4>2. Len(Append(f, x)) = Len(f) + 1 /\ Len(f) \in Nat
        BY <4>1, AppendFacts
      <4> QED
        BY <3>2, <4>2, EmptySeq
    <3> QED
      BY <3>1, <3>2
  <2>3. wrecks' \in 0 .. MaxWrecks
    BY <1>1, <1>2, HistoryAssumption DEF MainInv
  <2> QED
    BY <1>1, <1>2, <2>1, <2>2, <2>3, <2>4 DEF MainInv
<1>10. FileInv'
  <2>1. todo' \in Seq(Line)
    BY <1>2
  <2> QED
    BY <1>2, <1>3, <1>6, <1>7, <1>8, <2>1 DEF FileInv
<1>11. ViewInv'
  <2>1. CASE view' = <<>>
    BY <2>1 DEF ViewInv, Increasing
  <2>2. CASE view' = view
    BY <1>1, <1>2, <2>2 DEF ViewInv
  <2> QED
    BY <1>2, <2>1, <2>2
<1>12. MatchInv'
  BY <1>1, <1>2, <1>3, <1>7, <1>8 DEF MatchInv
<1>13. LostInv'
  <2>1. wrecks' # 0
    BY <1>1, <1>2 DEF MainInv
  <2> QED
    BY <1>1, <1>2, <1>8, <2>1 DEF LostInv
<1> QED
  BY <1>9, <1>10, <1>11, <1>12, <1>13 DEF HistoryInv

\* Every step keeps the invariant of the file and the page.
LEMMA HistoryStep == HistoryInv /\ [HistoryNext]_historyVars => HistoryInv'
<1> SUFFICES ASSUME HistoryInv, [HistoryNext]_historyVars PROVE HistoryInv'
  OBVIOUS
<1>1. CASE Start
  BY <1>1, PageStep DEF Start, LoadHistory
<1>2. CASE Quit
  BY <1>2, PageStep DEF Quit
<1>3. CASE StartRun
  BY <1>3, PageStep DEF StartRun, pageVars
<1>4. CASE FinishRun
  BY <1>4, PageStep DEF FinishRun, LoadHistory
<1>5. CASE EndRewrite
  BY <1>5, PageStep DEF EndRewrite, pageVars
<1>6. CASE AppendBenchmarkResult \/ AppendPart
  BY <1>6, AppendStep
<1>7. ASSUME NEW rows \in SUBSET DOMAIN view, OnDeleteHistoryRequested(rows) PROVE HistoryInv'
  BY <1>7, DeleteStep
<1>8. ASSUME NEW rows \in SUBSET DOMAIN view, DeleteFails(rows) PROVE HistoryInv'
  BY <1>8, DeleteFailsStep
<1>9. CASE WriteBack
  BY <1>9, WriteBackStep
<1>10. CASE DieInRewrite \/ RewriteFails
  BY <1>10, CutStep
<1>11. CASE UNCHANGED historyVars
  <2>1. /\ main' = main /\ view' = view /\ astray' = astray /\ UNCHANGED <<fileVars, todo, pastVars>>
    BY <1>11 DEF historyVars, pageVars
  <2>2. /\ file' = file /\ todo' = todo /\ ended' = ended /\ results' = results
        /\ appended' = appended /\ deleted' = deleted /\ tears' = tears /\ wrecks' = wrecks
        /\ misled' = misled
    BY <2>1 DEF fileVars, pastVars
  <2>3. Lines' = Lines /\ Lost' = Lost /\ ReadResultsFromFile' = ReadResultsFromFile
    BY <2>2 DEF Lines, Lost, ReadResultsFromFile
  <2>4. MainInv'
    BY <2>1, <2>2 DEF HistoryInv, MainInv
  <2>5. FileInv'
    BY <2>2, <2>3 DEF HistoryInv, FileInv
  <2>6. ViewInv'
    BY <2>1, <2>2 DEF HistoryInv, ViewInv
  <2>7. MatchInv'
    BY <2>1, <2>2, <2>3 DEF HistoryInv, MatchInv
  <2>8. LostInv'
    BY <2>2, <2>3 DEF HistoryInv, LostInv
  <2> QED
    BY <2>4, <2>5, <2>6, <2>7, <2>8 DEF HistoryInv
<1> QED
  BY <1>1, <1>2, <1>3, <1>4, <1>5, <1>6, <1>7, <1>8, <1>9, <1>10, <1>11 DEF HistoryNext

\* The invariant of the file and the page always holds.
THEOREM HistoryIsKept == HistorySpec => []HistoryInv
<1>1. HistoryInit => HistoryInv
  BY HistoryStart
<1>2. HistoryInv /\ [HistoryNext]_historyVars => HistoryInv'
  BY HistoryStep
<1> QED
  BY <1>1, <1>2, PTL DEF HistorySpec

\* Every variable keeps its type; the file and each of its lines have no more
\* entries than there were results.
THEOREM HistoryTypeCorrect == HistorySpec => []HistoryTypeOK
<1>1. HistoryInv => HistoryTypeOK
  <2> SUFFICES ASSUME HistoryInv PROVE HistoryTypeOK
    OBVIOUS
  <2>1. MainInv /\ FileInv /\ ViewInv
    BY DEF HistoryInv
  <2>2. PICK m \in Nat : m = MaxResults
    BY HistoryAssumption
  <2>3. PICK l \in Seq(Line), f \in Seq(Line), t \in Seq(Line) :
          f = file /\ t = todo /\ l = f \o t /\ Ordered(l) /\ Within(l, 1 .. results)
    <3>1. file \in Seq(Line) /\ todo \in Seq(Line) /\ file \o todo \in Seq(Line)
      BY <2>1, ConcatProperties DEF FileInv
    <3> QED
      BY <2>1, <3>1 DEF FileInv, Lines
  <2>4. Within(l, 1 .. m)
    <3>1. \A x \in 1 .. results : x \in 1 .. m
      BY <2>1, <2>2 DEF MainInv
    <3> QED
      BY <2>3, <3>1 DEF Within
  <2>5. Len(l) <= m
    <3>1. PICK s \in Seq(Nat) : /\ s = Numbers(l) /\ Len(s) = Len(l) /\ Increasing(s)
                                /\ \A i \in 1 .. Len(l) : s[i] = l[i][1][1]
      BY <2>3, NumbersFacts
    <3>2. \A i \in 1 .. Len(s) : s[i] \in 1 .. m
      <4> SUFFICES ASSUME NEW i \in 1 .. Len(s) PROVE s[i] \in 1 .. m
        OBVIOUS
      <4>1. i \in 1 .. Len(l) /\ s[i] = l[i][1][1]
        BY <3>1
      <4>2. 1 \in 1 .. Len(l[i])
        BY <2>3, <4>1, NumbersBegin
      <4> QED
        BY <2>4, <4>1, <4>2 DEF Within
    <3> QED
      BY <3>1, <3>2, ShortEnough
  <2>6. /\ Len(f) \in Nat /\ Len(t) \in Nat /\ Len(l) = Len(f) + Len(t)
        /\ \A i \in 1 .. Len(f) : i \in 1 .. Len(l) /\ l[i] = f[i]
    <3>1. \A i \in 1 .. Len(f) + Len(t) : l[i] = IF i <= Len(f) THEN f[i] ELSE t[i - Len(f)]
      BY <2>3, ConcatProperties
    <3>2. Len(f) \in Nat /\ Len(t) \in Nat /\ Len(l) = Len(f) + Len(t)
      BY <2>3, ConcatProperties, SeqFacts
    <3>3. \A i \in 1 .. Len(f) : i \in 1 .. Len(f) + Len(t) /\ i <= Len(f)
      BY <3>2
    <3> QED
      BY <3>1, <3>2, <3>3
  <2>7. Len(file) <= MaxResults /\ Len(todo) <= MaxResults
    BY <2>2, <2>3, <2>5, <2>6
  <2>8. ASSUME NEW i \in DOMAIN file
        PROVE  /\ Len(file[i]) \in Result
               /\ \A j \in DOMAIN file[i] : file[i][j] \in Fragment
    <3>1. i \in 1 .. Len(f) /\ i \in 1 .. Len(l) /\ l[i] = file[i]
      BY <2>3, <2>6, SeqFacts
    <3>2. PICK x \in Seq(Fragment) : x = file[i] /\ x = l[i] /\ x # <<>>
      BY <2>3, <3>1, LineFacts DEF Ordered
    <3>3. DOMAIN x = 1 .. Len(x) /\ \A j \in 1 .. Len(x) : x[j] \in Fragment
      BY SeqFacts
    <3>4. PICK n \in Nat : n = Len(x) /\ n # 0
      BY <3>2, SeqFacts, EmptySeq
    <3>5. PICK s : s = [a \in 1 .. n |-> x[a][1]]
      OBVIOUS
    <3>6. \A a \in 1 .. n : x[a][1] \in Nat
      <4>1. \A a \in 1 .. Len(l[i]) : l[i][a][1] \in Nat
        BY <2>3, <3>1, LineFacts
      <4> QED
        BY <3>2, <3>4, <4>1
    <3>7. s \in [1 .. n -> Nat]
      BY <3>5, <3>6
    <3>8. s \in Seq(Nat) /\ Len(s) = n
      BY ONLY <3>7, n \in Nat
    <3>9. Increasing(s) /\ \A a \in 1 .. Len(s) : s[a] \in 1 .. m
      <4>1. \A a, b \in 1 .. n : a < b => x[a][1] < x[b][1]
        BY <2>3, <3>1, <3>2, <3>4, SMTT(30) DEF Ordered
      <4>2. \A a \in 1 .. n : x[a][1] \in 1 .. m
        BY <2>4, <3>1, <3>2, <3>4 DEF Within
      <4>3. \A a \in 1 .. n : s[a] = x[a][1]
        BY <3>5
      <4> QED
        BY <3>8, <4>1, <4>2, <4>3 DEF Increasing
    <3>10. n <= m
      BY <3>8, <3>9, ShortEnough
    <3> QED
      BY <2>2, <3>2, <3>3, <3>4, <3>10 DEF Result
  <2>9. view \in SeqOf(Result, MaxResults)
    <3>1. PICK s \in Seq(Nat) : s = view /\ Increasing(s) /\ \A i \in 1 .. Len(s) : s[i] \in 1 .. m
      BY <2>1, <2>2 DEF ViewInv, MainInv
    <3>2. Len(s) \in 0 .. m /\ DOMAIN s = 1 .. Len(s)
      BY <3>1, ShortEnough, SeqFacts
    <3>3. s \in [1 .. Len(s) -> 1 .. m]
      BY <3>1, <3>2
    <3> QED
      BY <2>2, <3>1, <3>2, <3>3 DEF SeqOf, Result
  <2> QED
    BY <2>1, <2>7, <2>8, <2>9 DEF HistoryTypeOK, MainInv
<1> QED
  BY <1>1, HistoryIsKept, PTL

\* As long as no deletion was misled, what was deleted is gone from the file for
\* good; each result that was not appended whole costs at most one other, unless a
\* rewrite was cut short; and the page shows the file, in the order of the runs,
\* unless it went astray.
THEOREM HistoryKeepsResults == HistorySpec => []KeepsResults
<1>1. HistoryInv => KeepsResults
  <2> DEFINE kept == Range(ReadResultsFromFile)
  <2> SUFFICES ASSUME HistoryInv, main = "idle", ~misled
               PROVE  /\ ~astray => view = ReadResultsFromFile
                      /\ \A i, j \in DOMAIN view : i < j => view[i] < view[j]
                      /\ kept \cap deleted = {}
                      /\ wrecks = 0 => Cardinality(appended \ (deleted \cup kept)) <= tears
    BY DEF KeepsResults
  <2>1. MainInv /\ FileInv /\ ViewInv /\ MatchInv /\ LostInv
    BY DEF HistoryInv
  <2>2. Lines = file
    BY <2>1, LinesAre
  <2>3. (~astray => view = ReadResultsFromFile) /\ Within(file, Nat \ deleted)
    BY <2>1, <2>2 DEF MatchInv
  <2>4. DOMAIN view = 1 .. Len(view) /\ Increasing(view)
    BY <2>1, SeqFacts DEF ViewInv
  <2>5. file \in Seq(Line) /\ Ordered(file)
    BY <2>1, <2>2 DEF FileInv
  <2>6. PICK read \in Seq(Nat) :
          /\ read = ReadResultsFromFile
          /\ \A j \in 1 .. Len(read) :
               \E i \in 1 .. Len(file) : Readable(file[i]) /\ read[j] = file[i][1][1]
          /\ \A i \in 1 .. Len(file) : Readable(file[i]) =>
               \E j \in 1 .. Len(read) : read[j] = file[i][1][1]
    BY <2>5, ReadFacts
  <2>a. DOMAIN read = 1 .. Len(read) /\ kept = Range(read)
    BY <2>6, SeqFacts
  <2> HIDE DEF kept
  <2>7. kept \cap deleted = {}
    <3>1. ASSUME NEW j \in 1 .. Len(read) PROVE read[j] \notin deleted
      <4>1. PICK i \in 1 .. Len(file) : read[j] = file[i][1][1]
        BY <2>6
      <4>2. 1 \in 1 .. Len(file[i])
        BY <2>5, NumbersBegin
      <4> QED
        BY <2>3, <4>1, <4>2 DEF Within
    <3> QED
      BY <2>a, <3>1 DEF Range
  <2>8. ASSUME wrecks = 0
        PROVE  Cardinality(appended \ (deleted \cup kept)) <= tears
    <3>1. PICK missing : missing = appended \ (deleted \cup kept)
      OBVIOUS
    <3>2. ASSUME NEW r \in missing PROVE r - 1 \in Lost
      <4>1. r \in appended \ deleted /\ r \notin kept
        BY <3>1
      <4>2. ASSUME NEW i \in 1 .. Len(file), file[i] = <<Whole(r)>> PROVE r \in kept
        <5>1. Readable(file[i]) /\ file[i][1][1] = r
          BY <4>2 DEF Readable, Whole
        <5>2. PICK j \in 1 .. Len(read) : read[j] = r
          BY <2>6, <5>1
        <5> QED
          BY <2>a, <5>2 DEF Range
      <4> QED
        BY <2>1, <2>2, <2>8, <4>1, <4>2 DEF LostInv
    <3>3. IsFiniteSet(Lost) /\ Cardinality(Lost) = tears
      BY <2>1 DEF LostInv
    <3>4. \A r \in missing : r \in Nat
      BY <2>1, <3>1 DEF MainInv
    <3>5. PICK g : g = [r \in missing |-> r - 1]
      OBVIOUS
    <3>6. g \in Injection(missing, Lost)
      <4>1. g \in [missing -> Lost] /\ \A r \in missing : g[r] = r - 1
        BY <3>2, <3>5
      <4>2. \A a, b \in missing : g[a] = g[b] => a = b
        BY <3>4, <4>1
      <4> QED
        BY <4>1, <4>2 DEF Injection, IsInjective
    <3>7. Cardinality(missing) <= Cardinality(Lost)
      BY <3>3, <3>6, FS_Injection
    <3> QED
      BY <3>1, <3>3, <3>7
  <2>9. \A i, j \in DOMAIN view : i < j => view[i] < view[j]
    BY <2>4 DEF Increasing
  <2> QED
    BY <2>3, <2>7, <2>8, <2>9
<1> QED
  BY <1>1, HistoryIsKept, PTL

=============================================================================

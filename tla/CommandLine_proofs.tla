--------------------------- MODULE CommandLine_proofs ---------------------------
(***************************************************************************)
(* Proofs about CommandLine, for any number of scenarios, any keys and any *)
(* bound on the results.                                                   *)
(***************************************************************************)
EXTENDS CommandLine, FiniteSetTheorems, WellFoundedInduction, TLAPS

-----------------------------------------------------------------------------
(* Facts about the operators.                                              *)

LEMMA OrderFacts ==
  ASSUME settings \in [enumerate : BOOLEAN, depsOnly : BOOLEAN, export : BOOLEAN]
  PROVE  Len(Order) \in Nat /\ Len(Order) >= 1
<1>1. CASE settings.enumerate
  BY <1>1 DEF Order
<1>2. CASE ~settings.enumerate
  BY <1>2 DEF Order
<1> QED BY <1>1, <1>2

\* A set of results that is not empty has a latest one.
LEMMA LatestExists ==
  ASSUME NEW T, T \subseteq Result, T # {}
  PROVE  \E q \in T : \A r \in T : r.number <= q.number
<1> DEFINE Left(r) == MaxMade - r.number
           R == OpToRel(<, Nat)
           L == {Left(r) : r \in T}
<1>1. L \subseteq Nat /\ L # {}
  BY CommandLineAssumption DEF Result
<1>2. IsWellFoundedOn(R, Nat)
  BY NatLessThanWellFounded
<1> HIDE DEF R
<1>3. PICK x \in L : \A y \in L : ~ (<<y, x>> \in R)
  BY <1>1, <1>2, WFMin
<1>4. \A y \in L : ~(y < x)
  BY <1>1, <1>3 DEF R, OpToRel
<1>5. PICK q \in T : x = Left(q)
  BY <1>3
<1>6. \A r \in T : r.number \in Int /\ ~(Left(r) < Left(q))
  BY <1>4, <1>5 DEF Result
<1> QED BY <1>6, CommandLineAssumption DEF Result

\* The table shows a result for every key, no older than any of that key.
LEMMA LatestCovers ==
  ASSUME NEW T, T \subseteq Result, NEW r \in T
  PROVE  \E q \in Latest(T) : q.key = r.key /\ q.number >= r.number
<1> DEFINE U == {q \in T : q.key = r.key}
<1>1. U \subseteq Result /\ U # {}
  OBVIOUS
<1>2. PICK q \in U : \A p \in U : p.number <= q.number
  BY <1>1, LatestExists
<1>3. q \in Latest(T)
  BY <1>2 DEF Latest
<1> QED BY <1>2, <1>3 DEF Result

-----------------------------------------------------------------------------
(* The initial state.                                                      *)

LEMMA InitInv == Init => IInv
<1> SUFFICES ASSUME Init PROVE IInv
  OBVIOUS
<1> USE DEF Init
<1>1. Len(Order) >= 1 /\ Len(Order) \in Nat
  BY OrderFacts
<1>2. TypeOK
  <2>1. shown \in [Scenario -> SUBSET made] /\ IsFiniteSet(made)
    BY FS_EmptySet
  <2>2. scenario \in 1 .. S + 1 /\ stage \in 1 .. Len(Order) /\ message \in 0 .. S /\ printed \in 0 .. S
    BY <1>1, CommandLineAssumption
  <2> QED BY <2>1, <2>2 DEF TypeOK
<1>3. PlaceInv /\ WalkInv /\ MessageInv
  BY DEF PlaceInv, WalkInv, MessageInv, Before, Inside
<1>4. TableInv /\ VerdictIsHonest
  BY DEF TableInv, VerdictIsHonest, ResultsAreShown, FileIsOneTable
<1> QED BY <1>2, <1>3, <1>4 DEF IInv

-----------------------------------------------------------------------------
(* How a stage may end.                                                    *)

\* The runner's loop stays within its scenarios and stages.
LEMMA FailPlaces ==
  ASSUME TypeOK, scenario \in Scenario, settings' = settings, Fail
  PROVE  /\ scenario' \in 1 .. S + 1 /\ scenario' = scenario + 1
         /\ at' \in {"enter", "report"}
         /\ at' = "enter" => scenario' \in Scenario
         /\ at' = "report" => scenario' = S + 1
         /\ stage' \in 1 .. Len(Order)'
<1>1. Order' = Order
  BY DEF Order
<1>2. Len(Order) \in Nat /\ Len(Order) >= 1
  BY OrderFacts DEF TypeOK
<1> QED BY <1>1, <1>2, CommandLineAssumption DEF Fail, NextScenario, Scenario

LEMMA PassPlaces ==
  ASSUME TypeOK, scenario \in Scenario, settings' = settings, Pass
  PROVE  /\ scenario' \in 1 .. S + 1 /\ scenario' \in {scenario, scenario + 1}
         /\ at' \in {"enter", "report"}
         /\ at' = "enter" => scenario' \in Scenario
         /\ at' = "report" => scenario' = S + 1
         /\ stage' \in 1 .. Len(Order)'
         /\ scenario' = scenario + 1 <=> stage = Len(Order)
<1>1. Order' = Order
  BY DEF Order
<1>2. Len(Order) \in Nat /\ Len(Order) >= 1
  BY OrderFacts DEF TypeOK
<1>3. CASE stage = Len(Order)
  BY <1>1, <1>2, <1>3, CommandLineAssumption DEF Pass, NextScenario, Scenario
<1>4. CASE stage # Len(Order)
  BY <1>1, <1>2, <1>4 DEF Pass, TypeOK, Scenario
<1> QED BY <1>3, <1>4

\* The table is the last stage of either order, and only that.
LEMMA TableIsLast ==
  ASSUME TypeOK
  PROVE  Stage = "DisplayResult" <=> stage = Len(Order)
<1>1. CASE settings.enumerate
  BY <1>1 DEF Order, Stage, TypeOK
<1>2. CASE ~settings.enumerate
  BY <1>2 DEF Order, Stage, TypeOK
<1> QED BY <1>1, <1>2


-----------------------------------------------------------------------------
(* Types and places.                                                       *)

Start == LeaveEarly \/ MakeController \/ ConfigFails \/ ConfigDone
Failing == RefuseStage \/ StageFails \/ StopStage
Passing == StagePasses \/ VerifyData
Asking == RequestInterrupt \/ DeclineInterrupt \/ AcceptInterrupt
Ending == StageThrows \/ ReturnFromRun \/ Exit

LEMMA OrderKept == ASSUME settings' = settings PROVE Order' = Order
  BY DEF Order

\* What an executor leaves is a result of the scenario that is run.
LEMMA ExecutorFacts ==
  ASSUME TypeOK, PlaceInv, EndExecutor
  PROVE  /\ results' \subseteq made' /\ made \subseteq made' /\ made' \subseteq Result
         /\ IsFiniteSet(made')
         /\ \/ results' = results /\ made' = made
            \/ \E r \in Result : /\ r.scenario = scenario
                                 /\ results' = results \cup {r} /\ made' = made \cup {r}
<1>1. CASE UNCHANGED <<results, made>>
  BY <1>1 DEF TypeOK
<1>2. CASE ~UNCHANGED <<results, made>>
  <2>1. PICK k \in Key :
          LET r == [number |-> Cardinality(made) + 1, scenario |-> scenario, key |-> k]
          IN  Cardinality(made) < MaxMade /\ results' = results \cup {r} /\ made' = made \cup {r}
    BY <1>2 DEF EndExecutor
  <2> DEFINE r == [number |-> Cardinality(made) + 1, scenario |-> scenario, key |-> k]
  <2>2. scenario \in Scenario
    BY DEF EndExecutor, PlaceInv
  <2>3. Cardinality(made) \in Nat
    BY FS_CardinalityType DEF TypeOK
  <2>4. r \in Result /\ r.scenario = scenario
    BY <2>1, <2>2, <2>3, CommandLineAssumption DEF Result
  <2>5. IsFiniteSet(made \cup {r})
    BY FS_AddElement DEF TypeOK
  <2> QED BY <2>1, <2>4, <2>5 DEF TypeOK
<1> QED BY <1>1, <1>2

LEMMA TypeStep ==
  ASSUME TypeOK, PlaceInv, Next
  PROVE  TypeOK'
<1> USE DEF TypeOK
<1>0. Order' = Order
  BY OrderKept DEF Next, Start, LeaveEarly, MakeController, ConfigFails, ConfigDone, RefuseStage,
     EnterStage, StagePasses, StageFails, SetErrorMessage, VerifyData, StartExecutor,
     EndExecutor, EndBenchmark, DisplayResultsStage, Sigint, RequestInterrupt,
     DeclineInterrupt, AcceptInterrupt, StopStage, StageThrows, ReturnFromRun, Exit,
     Terminated, vars
<1>1. CASE Start
  BY <1>0, <1>1 DEF Start, LeaveEarly, MakeController, ConfigFails, ConfigDone, loopVars, workVars,
     tableVars, messageVars, userVars, endVars
<1>2. CASE Failing
  <2>1. scenario \in Scenario /\ settings' = settings /\ Fail
    BY <1>2 DEF Failing, RefuseStage, StageFails, StopStage, PlaceInv, Inside, In
  <2>2. scenario' \in 1 .. S + 1 /\ at' \in {"enter", "report"} /\ stage' \in 1 .. Len(Order)'
    BY <2>1, FailPlaces
  <2>3. /\ wasError' \in BOOLEAN /\ failed' \subseteq Scenario
        /\ UNCHANGED <<workVars, tableVars, messageVars, userVars, endVars>>
    BY <1>2, <2>1 DEF Failing, Fail, RefuseStage, StageFails, StopStage
  <2> QED
    BY <2>1, <2>2, <2>3 DEF workVars, tableVars, messageVars, userVars, endVars
<1>3. CASE Passing
  <2>1. scenario \in Scenario /\ settings' = settings /\ Pass
    BY <1>3 DEF Passing, StagePasses, VerifyData, PlaceInv, Inside, In
  <2>2. scenario' \in 1 .. S + 1 /\ at' \in {"enter", "report"} /\ stage' \in 1 .. Len(Order)'
    BY <2>1, PassPlaces
  <2>3. UNCHANGED <<wasError, failed, workVars, tableVars, messageVars, userVars, endVars>>
    BY <1>3, <2>1 DEF Pass, Passing, StagePasses, VerifyData
  <2> QED
    BY <2>1, <2>2, <2>3 DEF workVars, tableVars, messageVars, userVars, endVars
<1>4. CASE Asking
  BY <1>0, <1>4 DEF Asking, RequestInterrupt, DeclineInterrupt, AcceptInterrupt, PlaceInv, Inside, In,
     loopVars, workVars, tableVars, messageVars, userVars, endVars
<1>5. CASE Ending
  BY <1>0, <1>5 DEF Ending, StageThrows, ReturnFromRun, Exit, PlaceInv, Inside, loopVars, workVars,
     tableVars, messageVars, userVars, endVars
<1>6. CASE EnterStage \/ StartExecutor \/ Sigint
  <2>1. /\ at' \in {at, "run"} /\ executed' \in BOOLEAN /\ running' \in BOOLEAN /\ interrupt' \in BOOLEAN
        /\ UNCHANGED <<settings, loopVars, results, made, tableVars, messageVars, endVars, accepted>>
    BY <1>6 DEF EnterStage, StartExecutor, Sigint, userVars, workVars
  <2> QED
    BY <1>0, <2>1 DEF loopVars, tableVars, messageVars, endVars
<1>7. CASE SetErrorMessage
  <2>1. scenario \in Scenario
    BY <1>7 DEF SetErrorMessage, PlaceInv, Inside
  <2>2. message' \in 0 .. S /\ troubled' \subseteq Scenario
    BY <1>7, <2>1, CommandLineAssumption DEF SetErrorMessage, Scenario
  <2> QED
    BY <1>0, <1>7, <2>2 DEF SetErrorMessage, loopVars, workVars, tableVars, userVars, endVars
<1>8. CASE EndExecutor
  <2>1. /\ results' \subseteq made' /\ made \subseteq made' /\ made' \subseteq Result
        /\ IsFiniteSet(made')
    BY <1>8, ExecutorFacts
  <2>2. shown' \in [Scenario -> SUBSET made'] /\ csv' \subseteq made'
    BY <1>8, <2>1 DEF EndExecutor, tableVars
  <2>3. running' \in BOOLEAN /\ executed' \in BOOLEAN
    BY <1>8 DEF EndExecutor
  <2> QED
    BY <1>0, <1>8, <2>1, <2>2, <2>3 DEF EndExecutor, loopVars, tableVars, messageVars, userVars, endVars
<1>9. CASE EndBenchmark
  <2>1. scenario \in Scenario /\ settings' = settings
    BY <1>9 DEF EndBenchmark, PlaceInv, Inside, In
  <2>2. /\ scenario' \in 1 .. S + 1 /\ at' \in {"enter", "report"} /\ stage' \in 1 .. Len(Order)'
        /\ wasError' \in BOOLEAN /\ failed' \subseteq Scenario
    BY <1>9, <2>1, FailPlaces, PassPlaces DEF EndBenchmark, Pass, Fail
  <2> QED
    BY <1>9, <2>1, <2>2 DEF EndBenchmark, workVars, tableVars, messageVars, userVars, endVars
<1>10. CASE DisplayResultsStage
  <2>1. scenario \in Scenario /\ settings' = settings /\ Pass
    BY <1>10 DEF DisplayResultsStage, PlaceInv, Inside, In
  <2>2. scenario' \in 1 .. S + 1 /\ at' \in {"enter", "report"} /\ stage' \in 1 .. Len(Order)'
    BY <2>1, PassPlaces
  <2>3. UNCHANGED <<wasError, failed>>
    BY <2>1 DEF Pass
  <2>4. shown' \in [Scenario -> SUBSET made'] /\ csv' \subseteq made' /\ displayed' \subseteq Scenario
    BY <1>10, <2>1 DEF DisplayResultsStage, Latest
  <2> QED
    BY <1>10, <2>1, <2>2, <2>3, <2>4 DEF DisplayResultsStage, messageVars, userVars, endVars
<1>11. CASE Terminated
  BY <1>11 DEF Terminated, vars, loopVars, workVars, tableVars, messageVars, userVars, endVars, Order
<1> QED
  BY <1>1, <1>2, <1>3, <1>4, <1>5, <1>6, <1>7, <1>8, <1>9, <1>10, <1>11
  DEF Next, Start, Failing, Passing, Asking, Ending


\* A step that leaves the loop where it is.
Staying ==
  EnterStage \/ SetErrorMessage \/ StartExecutor \/ EndExecutor \/ Sigint \/ Asking

\* A step by which a stage passes or fails, once its executors have ended.
LEMMA StageEnds ==
  ASSUME TypeOK, PlaceInv,
         Failing \/ Passing \/ EndBenchmark \/ DisplayResultsStage
  PROVE  /\ at \in {"enter"} \cup Inside /\ scenario \in Scenario /\ settings' = settings
         /\ ~running /\ ~running'
         /\ UNCHANGED <<messageVars, endVars, userVars>>
         /\ Pass \/ Fail
<1>1. CASE Failing
  BY <1>1 DEF Failing, RefuseStage, StageFails, StopStage, PlaceInv, Inside, In, workVars
<1>2. CASE Passing
  BY <1>2 DEF Passing, StagePasses, VerifyData, PlaceInv, Inside, In, workVars
<1>3. CASE EndBenchmark
  BY <1>3 DEF EndBenchmark, PlaceInv, Inside, In, workVars
<1>4. CASE DisplayResultsStage
  BY <1>4 DEF DisplayResultsStage, PlaceInv, Inside, In
<1> QED BY <1>1, <1>2, <1>3, <1>4

LEMMA PlaceStep ==
  ASSUME TypeOK, PlaceInv, Next
  PROVE  PlaceInv'
<1>1. CASE Start
  BY <1>1, CommandLineAssumption DEF Start, LeaveEarly, MakeController, ConfigFails, ConfigDone, PlaceInv,
     Before, Inside, Scenario, loopVars, workVars, tableVars, messageVars, userVars, endVars
<1>2. CASE Failing \/ Passing \/ EndBenchmark \/ DisplayResultsStage
  <2>1. /\ at \in {"enter"} \cup Inside /\ scenario \in Scenario /\ settings' = settings
        /\ ~running' /\ UNCHANGED <<messageVars, endVars, userVars>> /\ (Pass \/ Fail)
    BY <1>2, StageEnds
  <2>2. /\ at' \in {"enter", "report"}
        /\ at' = "enter" => scenario' \in Scenario
        /\ at' = "report" => scenario' = S + 1
    BY <2>1, FailPlaces, PassPlaces
  <2>3. answer' = "none" /\ printed' = 0
    BY <2>1 DEF PlaceInv, Inside, endVars
  <2>4. ~running'
    BY <2>1
  <2> QED
    BY <2>2, <2>3, <2>4 DEF PlaceInv, Before, Inside
<1>3. CASE Staying
  <2>1. /\ at' \in {"enter"} \cup Inside =>
             \/ at \in {"enter"} \cup Inside /\ at' # "enter"
             \/ at' = at
        /\ UNCHANGED <<settings, loopVars, endVars>> /\ Stage' = Stage
    BY <1>3 DEF Staying, EnterStage, SetErrorMessage, StartExecutor, EndExecutor, Sigint, Asking,
       RequestInterrupt, DeclineInterrupt, AcceptInterrupt, In, Inside, loopVars, Stage, Order
  <2>2. at' \in Before => UNCHANGED <<at, displayed, accepted, troubled>>
    BY <1>3 DEF Staying, EnterStage, SetErrorMessage, StartExecutor, EndExecutor, Sigint, Asking,
       RequestInterrupt, DeclineInterrupt, AcceptInterrupt, In, Inside, Before, PlaceInv, messageVars,
       tableVars, userVars
  <2>3. running' => at' \in Inside /\ Stage' = "Benchmark"
    BY <1>3, <2>1 DEF Staying, EnterStage, SetErrorMessage, StartExecutor, EndExecutor, Sigint, Asking,
       RequestInterrupt, DeclineInterrupt, AcceptInterrupt, In, Inside, PlaceInv, workVars
  <2>4. at' = at \/ (at' \in Inside /\ at \in {"enter"} \cup Inside)
    BY <1>3 DEF Staying, EnterStage, SetErrorMessage, StartExecutor, EndExecutor, Sigint, Asking,
       RequestInterrupt, DeclineInterrupt, AcceptInterrupt, In, Inside
  <2> QED
    BY <2>1, <2>2, <2>3, <2>4 DEF PlaceInv, loopVars, endVars, Before, Inside
<1>4. CASE Ending
  BY <1>4 DEF Ending, StageThrows, ReturnFromRun, Exit, PlaceInv, Before, Inside, workVars
<1>5. CASE Terminated
  BY <1>5 DEF Terminated, vars, PlaceInv, loopVars, workVars, tableVars, messageVars, userVars, endVars,
     Stage, Order
<1> QED
  BY <1>1, <1>2, <1>3, <1>4, <1>5 DEF Next, Start, Failing, Passing, Asking, Staying, Ending


-----------------------------------------------------------------------------
(* What became of the scenarios.                                           *)

\* Only the table ends a scenario that was not broken off.
LEMMA Outcome ==
  ASSUME TypeOK, PlaceInv,
         Failing \/ Passing \/ EndBenchmark \/ DisplayResultsStage
  PROVE  \/ /\ Fail /\ scenario' = scenario + 1
            /\ UNCHANGED displayed
         \/ /\ Pass /\ scenario' = scenario /\ at' = "enter"
            /\ UNCHANGED <<displayed, failed, wasError>>
            /\ ~DisplayResultsStage
         \/ /\ Pass /\ scenario' = scenario + 1
            /\ displayed' = displayed \cup {scenario}
            /\ UNCHANGED <<failed, wasError>>
            /\ DisplayResultsStage
<1>1. scenario \in Scenario /\ settings' = settings
  BY StageEnds
<1>2. Stage = "DisplayResult" <=> stage = Len(Order)
  BY TableIsLast
<1>3. CASE Failing
  BY <1>1, <1>3, FailPlaces DEF Failing, RefuseStage, StageFails, StopStage, tableVars
<1>4. CASE Passing
  <2>1. stage # Len(Order) /\ Pass /\ UNCHANGED displayed
    BY <1>2, <1>4 DEF Passing, StagePasses, VerifyData, In, tableVars
  <2>2. ~DisplayResultsStage
    BY <1>2, <2>1 DEF DisplayResultsStage, In
  <2> QED BY <2>1, <2>2 DEF Pass
<1>5. CASE EndBenchmark
  <2>1. stage # Len(Order) /\ (Pass \/ Fail) /\ UNCHANGED displayed
    BY <1>2, <1>5 DEF EndBenchmark, In, tableVars
  <2>2. ~DisplayResultsStage
    BY <1>2, <2>1 DEF DisplayResultsStage, In
  <2> QED BY <1>1, <2>1, <2>2, FailPlaces DEF Pass
<1>6. CASE DisplayResultsStage
  <2>1. stage = Len(Order) /\ Pass /\ displayed' = displayed \cup {scenario}
    BY <1>2, <1>6 DEF DisplayResultsStage, In
  <2> QED BY <1>6, <2>1 DEF Pass, NextScenario
<1> QED
  BY <1>3, <1>4, <1>5, <1>6

LEMMA WalkStep ==
  ASSUME TypeOK, PlaceInv, WalkInv, Next
  PROVE  WalkInv'
<1>0. scenario \in Nat /\ scenario >= 1
  BY CommandLineAssumption DEF TypeOK
<1>1. CASE Start
  <2>1. at \in Before
    BY <1>1 DEF Start, LeaveEarly, MakeController, ConfigFails, ConfigDone, Before
  <2>2. /\ scenario' = 1 /\ wasError' = FALSE
        /\ failed' = {} /\ displayed' = {} /\ accepted' = {}
    BY <1>1, <2>1 DEF Start, LeaveEarly, MakeController, ConfigFails, ConfigDone, PlaceInv, TypeOK,
       loopVars, tableVars, userVars
  <2>3. scenario' - 1 = 0 /\ failed' \cup displayed' = {}
    BY <2>2
  <2>4. 1 .. 0 = {}
    OBVIOUS
  <2>5. failed' \cup displayed' = 1 .. scenario' - 1 /\ wasError' = (failed' # {})
    BY <2>2, <2>3, <2>4
  <2> QED BY <2>2, <2>5 DEF WalkInv
<1>2. CASE Failing \/ Passing \/ EndBenchmark \/ DisplayResultsStage
  <2>1. /\ at \in {"enter"} \cup Inside /\ UNCHANGED accepted
        /\ settings' = settings /\ scenario \in Scenario
    BY <1>2, StageEnds DEF userVars
  <2>2. /\ failed \cup displayed = 1 .. scenario - 1 /\ failed \cap displayed = {}
        /\ wasError = (failed # {})
        /\ accepted \ failed \subseteq {scenario}
        /\ accepted \subseteq failed \/ at = "stopping"
    BY <2>1 DEF WalkInv
  <2>3. scenario \notin failed \cup displayed
    BY <1>0, <2>2
  <2>4. at' \in {"enter", "report"}
    BY <2>1, <1>2, StageEnds, FailPlaces, PassPlaces
  <2>5. CASE Fail /\ scenario' = scenario + 1 /\ UNCHANGED displayed
    <3>1. failed' = failed \cup {scenario} /\ wasError' = TRUE
      BY <2>5 DEF Fail
    <3>2. failed' \cup displayed' = 1 .. scenario' - 1 /\ failed' \cup displayed' \subseteq 1 .. scenario'
      BY <1>0, <2>2, <2>5, <3>1
    <3>3. failed' \cap displayed' = {}
      BY <2>2, <2>3, <2>5, <3>1
    <3>4. accepted' \subseteq failed'
      BY <2>1, <2>2, <3>1
    <3> QED BY <2>4, <3>1, <3>2, <3>3, <3>4 DEF WalkInv
  <2>6. CASE UNCHANGED <<scenario, displayed, failed, wasError>> /\ ~Failing
    <3>1. at # "stopping"
      BY <1>2, <2>6 DEF Passing, StagePasses, VerifyData, EndBenchmark, DisplayResultsStage, In
    <3> QED BY <1>0, <2>1, <2>2, <2>4, <2>6, <3>1 DEF WalkInv
  <2>7. CASE /\ scenario' = scenario + 1 /\ displayed' = displayed \cup {scenario}
             /\ UNCHANGED <<failed, wasError>> /\ DisplayResultsStage
    <3>1. accepted' \subseteq failed'
      BY <2>1, <2>2, <2>7 DEF DisplayResultsStage, In
    <3>2. failed' \cup displayed' = 1 .. scenario' - 1 /\ failed' \cup displayed' \subseteq 1 .. scenario'
      BY <1>0, <2>2, <2>7
    <3>3. failed' \cap displayed' = {}
      BY <2>2, <2>3, <2>7
    <3> QED BY <2>2, <2>4, <2>7, <3>1, <3>2, <3>3 DEF WalkInv
  <2>8. Failing => Fail
    BY DEF Failing, RefuseStage, StageFails, StopStage
  <2>9. ~(Fail /\ Pass /\ UNCHANGED scenario)
    BY <1>0 DEF Fail, NextScenario
  <2> QED
    BY <1>2, <2>5, <2>6, <2>7, <2>8, <2>9, Outcome
<1>3. CASE Staying
  <2>1. UNCHANGED <<scenario, failed, displayed, wasError>>
    BY <1>3 DEF Staying, EnterStage, SetErrorMessage, StartExecutor, EndExecutor, Sigint, Asking,
       RequestInterrupt, DeclineInterrupt, AcceptInterrupt, loopVars, tableVars
  <2>2. at' = at \/ (at' \in Inside /\ at \in {"enter"} \cup Inside)
    BY <1>3 DEF Staying, EnterStage, SetErrorMessage, StartExecutor, EndExecutor, Sigint, Asking,
       RequestInterrupt, DeclineInterrupt, AcceptInterrupt, In, Inside
  <2>3. \/ UNCHANGED accepted /\ (at = "stopping" => at' = "stopping")
        \/ accepted' = accepted \cup {scenario} /\ at' = "stopping"
    BY <1>3 DEF Staying, EnterStage, SetErrorMessage, StartExecutor, EndExecutor, Sigint, Asking,
       RequestInterrupt, DeclineInterrupt, AcceptInterrupt, In, Inside, userVars
  <2> QED BY <2>1, <2>2, <2>3 DEF WalkInv, Inside
<1>4. CASE Ending
  <2>1. CASE StageThrows
    BY <1>0, <2>1 DEF StageThrows, WalkInv, Inside, tableVars, userVars
  <2>2. CASE ReturnFromRun \/ Exit
    BY <2>2 DEF ReturnFromRun, Exit, WalkInv, Inside, loopVars, tableVars, userVars
  <2> QED BY <1>4, <2>1, <2>2 DEF Ending
<1>5. CASE Terminated
  BY <1>5 DEF Terminated, vars, WalkInv, loopVars, tableVars, userVars
<1> QED
  BY <1>1, <1>2, <1>3, <1>4, <1>5 DEF Next, Start, Failing, Passing, Asking, Staying, Ending

LEMMA MessageStep ==
  ASSUME TypeOK, PlaceInv, MessageInv, Next
  PROVE  MessageInv'
<1>0. scenario \in Nat /\ scenario >= 1
  BY CommandLineAssumption DEF TypeOK
<1>1. CASE SetErrorMessage
  <2>1. printed' = 0
    BY <1>1 DEF SetErrorMessage, PlaceInv, Inside, endVars
  <2>2. troubled \subseteq 1 .. scenario /\ scenario' = scenario
    BY <1>1 DEF SetErrorMessage, MessageInv, loopVars
  <2>3. message' = scenario /\ troubled' = troubled \cup {scenario}
    BY <1>1 DEF SetErrorMessage
  <2>4. \A i \in troubled' : i <= message'
    BY <1>0, <2>2, <2>3
  <2> QED BY <1>0, <2>1, <2>2, <2>3, <2>4 DEF MessageInv
<1>2. CASE Failing \/ Passing \/ EndBenchmark \/ DisplayResultsStage
  <2>1. UNCHANGED <<message, troubled, printed>>
    BY <1>2, StageEnds DEF messageVars, endVars
  <2>2. scenario' \in {scenario, scenario + 1}
    BY <1>2, Outcome
  <2> QED BY <1>0, <2>1, <2>2 DEF MessageInv
<1>3. CASE ReturnFromRun
  BY <1>3 DEF ReturnFromRun, MessageInv, loopVars, messageVars
<1>4. CASE ~(SetErrorMessage \/ Failing \/ Passing \/ EndBenchmark \/ DisplayResultsStage \/ ReturnFromRun)
  <2>1. UNCHANGED <<message, troubled, printed, scenario>>
    BY <1>4 DEF Next, Failing, Passing, LeaveEarly, MakeController, ConfigFails, ConfigDone, EnterStage,
       StartExecutor, EndExecutor, Sigint, RequestInterrupt, DeclineInterrupt, AcceptInterrupt,
       StageThrows, Exit, Terminated, vars, loopVars, messageVars, endVars
  <2> QED BY <2>1 DEF MessageInv
<1> QED BY <1>1, <1>2, <1>3, <1>4


-----------------------------------------------------------------------------
(* The tables.                                                             *)

\* A result some scenario's table could have shown has a first table.
LEMMA TableExists ==
  ASSUME displayed \subseteq Scenario, NEW r \in Result,
         NEW i \in displayed, i >= r.scenario
  PROVE  TableOf(r) # {}
<1> DEFINE R == OpToRel(<, Nat)
           L == {j \in displayed : j >= r.scenario}
<1>0. Scenario \subseteq Nat
  BY CommandLineAssumption DEF Scenario
<1>1. L \subseteq Nat /\ L # {}
  BY <1>0
<1>2. IsWellFoundedOn(R, Nat)
  BY NatLessThanWellFounded
<1> HIDE DEF R
<1>3. PICK x \in L : \A y \in L : ~ (<<y, x>> \in R)
  BY <1>1, <1>2, WFMin
<1>3a. \A y \in L : ~(y < x)
  BY <1>1, <1>3 DEF R, OpToRel
<1>4. \A y \in L : x <= y
  BY <1>1, <1>3a
<1> QED BY <1>4 DEF TableOf

\* The table of a scenario that is behind all others changes nothing for a result
\* that had its table, and is the first one for every other.
LEMMA NextTable ==
  ASSUME TypeOK, NEW r \in Result, r.scenario <= scenario, scenario \in Scenario,
         \A j \in displayed : j < scenario,
         displayed' = displayed \cup {scenario}
  PROVE  TableOf(r)' = IF TableOf(r) = {} THEN {scenario} ELSE TableOf(r)
<1>0. displayed \subseteq Nat /\ scenario \in Nat /\ r.scenario \in Nat
  BY DEF TypeOK, Scenario, Result
<1>1. CASE TableOf(r) = {}
  <2>1. \A j \in displayed : ~(j >= r.scenario)
    BY <1>1, TableExists DEF TypeOK
  <2> QED BY <1>0, <1>1, <2>1 DEF TableOf
<1>2. CASE TableOf(r) # {}
  <2>1. PICK i \in TableOf(r) : TRUE
    BY <1>2
  <2>2. i \in displayed /\ i >= r.scenario /\ i < scenario
    BY <2>1 DEF TableOf
  <2>4. \A j \in displayed : j <= scenario
    BY <1>0
  <2>5. scenario \notin TableOf(r)'
    BY <1>0, <2>2 DEF TableOf
  <2>6. \A j \in displayed : j \in TableOf(r)' <=> j \in TableOf(r)
    BY <2>4 DEF TableOf
  <2>7. TableOf(r)' \subseteq displayed \cup {scenario} /\ TableOf(r) \subseteq displayed
    BY DEF TableOf
  <2> QED BY <1>2, <2>5, <2>6, <2>7
<1> QED BY <1>1, <1>2

LEMMA TableStep ==
  ASSUME TypeOK, PlaceInv, WalkInv, TableInv, Next
  PROVE  TableInv'
<1>0. scenario \in Nat
  BY CommandLineAssumption DEF TypeOK
<1>1. CASE EndExecutor
  <2>1. /\ UNCHANGED <<csv, shown, displayed, scenario>>
        /\ scenario \in Scenario /\ \A j \in displayed : j < scenario
    BY <1>0, <1>1 DEF EndExecutor, PlaceInv, WalkInv, Inside, tableVars, loopVars
  <2>2. CASE results' = results /\ made' = made
    BY <2>1, <2>2 DEF TableInv, ResultsAreShown, FileIsOneTable, TableOf
  <2>3. ASSUME NEW r \in Result, r.scenario = scenario,
               results' = results \cup {r}, made' = made \cup {r}
        PROVE  TableInv'
    <3>1. \A q \in Result : TableOf(q)' = TableOf(q)
      BY <2>1 DEF TableOf
    <3>2. TableOf(r) = {}
      <4>1. \A j \in displayed : j \in Nat /\ ~(j >= r.scenario)
        BY <1>0, <2>1, <2>3, CommandLineAssumption DEF TypeOK, Scenario
      <4> QED BY <4>1 DEF TableOf
    <3>3. results' = {q \in made' : TableOf(q)' = {}}
      BY <2>3, <3>1, <3>2 DEF TableInv, TypeOK
    <3>4. \A i \in Scenario : r \in shown[i] => r \in made
      BY DEF TypeOK
    <3>5. ResultsAreShown'
      BY <2>1, <2>3, <3>1, <3>2, <3>4 DEF TableInv, ResultsAreShown, TypeOK
    <3>6. FileIsOneTable' /\ \A q \in csv' : TableOf(q)' # {}
      BY <2>1, <3>1 DEF TableInv, FileIsOneTable, TypeOK
    <3>7. \A q \in made' : q.scenario <= scenario'
      BY <1>0, <2>1, <2>3 DEF TableInv
    <3> QED BY <2>1, <3>3, <3>5, <3>6, <3>7 DEF TableInv
  <2> QED BY <1>1, <2>2, <2>3, ExecutorFacts
<1>2. CASE DisplayResultsStage
  <2>1. /\ scenario \in Scenario /\ \A j \in displayed : j < scenario
        /\ UNCHANGED made
    BY <1>0, <1>2 DEF DisplayResultsStage, PlaceInv, WalkInv, Inside, In
  <2>2. /\ shown' = [shown EXCEPT ![scenario] = Latest(results)]
        /\ displayed' = displayed \cup {scenario}
        /\ csv' = results \/ csv' = csv
        /\ results' = {}
    BY <1>2 DEF DisplayResultsStage
  <2>3. \A r \in made : TableOf(r)' = IF r \in results THEN {scenario} ELSE TableOf(r)
    BY <2>1, <2>2, NextTable DEF TableInv, TypeOK
  <2>4. results \subseteq Result
    BY DEF TypeOK
  <2>5. results' = {r \in made' : TableOf(r)' = {}}
    BY <2>1, <2>2, <2>3 DEF TableInv
  <2>6. FileIsOneTable' /\ \A r \in csv' : TableOf(r)' # {}
    <3>1. CASE csv' = results
      BY <2>3, <3>1 DEF FileIsOneTable, TypeOK
    <3>2. CASE csv' = csv
      <4>1. \A r \in csv : r \in made /\ r \notin results
        BY DEF TableInv, TypeOK
      <4> QED BY <2>3, <3>2, <4>1 DEF FileIsOneTable, TableInv
    <3> QED BY <2>2, <3>1, <3>2
  <2>7. shown'[scenario] = Latest(results) /\ \A i \in Scenario : i # scenario => shown'[i] = shown[i]
    BY <2>1, <2>2 DEF TypeOK
  <2>8. ResultsAreShown'
    <3> SUFFICES ASSUME NEW r \in made
                 PROVE  /\ \A i \in Scenario : r \in shown'[i] => i \in TableOf(r)'
                        /\ \A i \in TableOf(r)' :
                             \E q \in shown'[i] : q.key = r.key /\ q.number >= r.number
                        /\ TableOf(r)' = {} => r \in results'
      BY <2>1 DEF ResultsAreShown
    <3>1. ASSUME NEW i \in Scenario, r \in shown'[i] PROVE i \in TableOf(r)'
      <4>1. CASE i = scenario
        BY <2>3, <2>7, <3>1, <4>1 DEF Latest
      <4>2. CASE i # scenario
        <5>1. i \in TableOf(r)
          BY <2>7, <3>1, <4>2 DEF TableInv, ResultsAreShown
        <5> QED BY <2>3, <5>1 DEF TableInv
      <4> QED BY <4>1, <4>2
    <3>2. ASSUME NEW i \in TableOf(r)'
          PROVE  \E q \in shown'[i] : q.key = r.key /\ q.number >= r.number
      <4>1. CASE r \in results
        BY <2>3, <2>4, <2>7, <3>2, <4>1, LatestCovers
      <4>2. CASE r \notin results
        <5>1. i \in TableOf(r)
          BY <2>3, <4>2
        <5>2. i \in displayed /\ i # scenario /\ i \in Scenario
          BY <1>0, <2>1, <5>1 DEF TableOf, TypeOK, Scenario
        <5> QED BY <2>7, <5>1, <5>2 DEF TableInv, ResultsAreShown
      <4> QED BY <4>1, <4>2
    <3> QED BY <2>5, <2>1, <3>1, <3>2
  <2>9. \A i \in Scenario \ displayed' : shown'[i] = {}
    BY <2>1, <2>2, <2>7 DEF TableInv
  <2>10. \A r \in made' : r.scenario <= scenario'
    <3>1. scenario' \in {scenario, scenario + 1}
      BY <1>2, Outcome
    <3> QED BY <1>0, <2>1, <3>1 DEF TableInv, TypeOK, Result, Scenario
  <2> QED BY <2>5, <2>6, <2>8, <2>9, <2>10 DEF TableInv
<1>3. CASE ~EndExecutor /\ ~DisplayResultsStage
  <2>1. UNCHANGED <<results, made, csv, shown, displayed>>
    BY <1>3 DEF Next, LeaveEarly, MakeController, ConfigFails, ConfigDone, RefuseStage, EnterStage,
       StagePasses, StageFails, SetErrorMessage, VerifyData, StartExecutor, EndBenchmark, Sigint,
       RequestInterrupt, DeclineInterrupt, AcceptInterrupt, StopStage, StageThrows, ReturnFromRun,
       Exit, Terminated, vars, workVars, tableVars
  <2>2. scenario' \in {scenario, scenario + 1}
    <3>1. CASE Failing \/ Passing \/ EndBenchmark
      BY <3>1, Outcome
    <3>2. CASE ~(Failing \/ Passing \/ EndBenchmark)
      BY <1>3, <3>2 DEF Failing, Passing, Next, LeaveEarly, MakeController, ConfigFails, ConfigDone,
         EnterStage, SetErrorMessage, StartExecutor, Sigint, RequestInterrupt, DeclineInterrupt,
         AcceptInterrupt, StageThrows, ReturnFromRun, Exit, Terminated, vars, loopVars
    <3> QED BY <3>1, <3>2
  <2>3. \A r \in made' : r.scenario <= scenario'
    BY <1>0, <2>1, <2>2 DEF TableInv, TypeOK, Result, Scenario
  <2> QED BY <2>1, <2>3 DEF TableInv, ResultsAreShown, FileIsOneTable, TableOf
<1> QED BY <1>1, <1>2, <1>3

-----------------------------------------------------------------------------
(* The verdict, and the theorems.                                          *)

LEMMA VerdictStep ==
  ASSUME IInv, Next
  PROVE  VerdictIsHonest'
<1> USE DEF IInv
<1>0. WalkInv' /\ TypeOK' /\ PlaceInv'
  BY WalkStep, TypeStep, PlaceStep
<1>1. CASE ReturnFromRun
  <2>1. /\ scenario = S + 1 /\ failed \cup displayed = Scenario /\ failed \cap displayed = {}
        /\ wasError = (failed # {}) /\ accepted \subseteq failed
    BY <1>1, CommandLineAssumption DEF ReturnFromRun, PlaceInv, WalkInv, Inside, Scenario
  <2>2. UNCHANGED <<failed, displayed, accepted, results>>
    BY <1>1 DEF ReturnFromRun, loopVars, workVars, tableVars, userVars
  <2>3. CASE wasError
    BY <1>1, <2>1, <2>2, <2>3 DEF ReturnFromRun, VerdictIsHonest
  <2>4. CASE ~wasError
    <3>1. failed = {} /\ accepted = {} /\ displayed = Scenario /\ answer' = "true"
      BY <1>1, <2>1, <2>4 DEF ReturnFromRun
    <3>2. ASSUME NEW r \in results PROVE FALSE
      <4>1. r \in Result /\ r.scenario \in displayed /\ TableOf(r) = {}
        BY <3>1 DEF TypeOK, TableInv, Result
      <4>2. r.scenario >= r.scenario
        BY <4>1 DEF Result, Scenario
      <4> QED BY <4>1, <4>2, TableExists DEF TypeOK
    <3> QED BY <2>2, <3>1, <3>2 DEF VerdictIsHonest
  <2> QED BY <2>3, <2>4 DEF TypeOK
<1>2. CASE StageThrows
  <2>1. answer' = "false" /\ scenario \in failed' /\ scenario \in Scenario
    BY <1>2 DEF StageThrows, PlaceInv, Inside
  <2> QED BY <1>0, <2>1 DEF WalkInv, VerdictIsHonest
<1>3. CASE ConfigDone
  <2>1. displayed' = {} /\ answer' # "true"
    BY <1>3 DEF ConfigDone, PlaceInv, Before, Inside, tableVars
  <2> QED BY <1>0, <2>1 DEF WalkInv, VerdictIsHonest
<1>4. CASE Failing \/ Passing \/ EndBenchmark \/ DisplayResultsStage
  <2>1. answer' = "none"
    BY <1>4, StageEnds DEF PlaceInv, Inside, endVars
  <2> QED BY <1>0, <2>1 DEF WalkInv, VerdictIsHonest
<1>5. CASE Staying /\ at \notin {"finish", "exit"}
  <2>1. answer' = "none"
    BY <1>5 DEF Staying, EnterStage, SetErrorMessage, StartExecutor, EndExecutor, Sigint, Asking,
       RequestInterrupt, DeclineInterrupt, AcceptInterrupt, PlaceInv, TypeOK, Before, Inside, endVars
  <2> QED BY <1>0, <2>1 DEF WalkInv, VerdictIsHonest
<1>6. CASE LeaveEarly \/ MakeController \/ ConfigFails \/ Exit \/ Terminated \/ (Sigint /\ at = "finish")
  <2>1. UNCHANGED <<answer, failed, displayed, accepted, results>>
    BY <1>6 DEF LeaveEarly, MakeController, ConfigFails, Exit, Terminated, Sigint, vars, loopVars, workVars,
       tableVars, userVars, endVars
  <2> QED BY <2>1 DEF VerdictIsHonest
<1>7. Staying /\ at \in {"finish", "exit"} => Sigint /\ at = "finish"
  BY DEF Staying, EnterStage, SetErrorMessage, StartExecutor, EndExecutor, Sigint, Asking, RequestInterrupt,
     DeclineInterrupt, AcceptInterrupt, PlaceInv, Inside, In
<1> QED
  BY <1>1, <1>2, <1>3, <1>4, <1>5, <1>6, <1>7 DEF Next, Failing, Passing, Staying, Asking

LEMMA Stutter == IInv /\ UNCHANGED vars => IInv'
<1> SUFFICES ASSUME IInv, UNCHANGED vars PROVE IInv'
  OBVIOUS
<1>1. Terminated \/ UNCHANGED vars
  OBVIOUS
<1> QED
  BY DEF vars, loopVars, workVars, tableVars, messageVars, endVars, userVars, IInv, TypeOK, PlaceInv, WalkInv,
     TableInv, MessageInv, VerdictIsHonest, ResultsAreShown, FileIsOneTable, TableOf, Stage, Order

\* The invariant holds of every behaviour of the program, whatever its stages
\* answer and leave behind, and whenever the user presses Ctrl-C.
THEOREM Invariance == Spec => []IInv
<1>1. Init => IInv
  BY InitInv
<1>2. IInv /\ [Next]_vars => IInv'
  <2>1. IInv /\ Next => IInv'
    BY TypeStep, PlaceStep, WalkStep, TableStep, MessageStep, VerdictStep DEF IInv
  <2> QED BY <2>1, Stutter
<1> QED BY <1>1, <1>2, PTL DEF Spec

\* The types of CommandLine's variables.
THEOREM TypeCorrect == Spec => []TypeOK
<1>1. IInv => TypeOK
  BY DEF IInv
<1> QED BY <1>1, Invariance, PTL

\* For any number of scenarios: the verdict of BenchmarkRunner::Run, the tables
\* and the CSV file of SystemController's last stage, and the message it prints,
\* are right about the whole run.
THEOREM RunHonest == Spec => []RunIsHonest
<1>1. IInv => RunIsHonest
  BY DEF IInv, RunIsHonest, TableInv, MessageInv, MessageIsLast
<1> QED BY <1>1, Invariance, PTL


=============================================================================

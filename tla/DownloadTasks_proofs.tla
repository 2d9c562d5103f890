-------------------------- MODULE DownloadTasks_proofs --------------------------
(***************************************************************************)
(* Proofs about DownloadTasks, for every number of tasks, every assignment *)
(* of tasks to Storage objects and every set of modes.  The safety         *)
(* properties follow from the inductive invariant IInv, and from           *)
(* SettledInv, which is inductive together with it.                        *)
(***************************************************************************)
EXTENDS DownloadTasks, TLAPS

LEMMA TaskFacts ==
  /\ NoTask \notin Task
  /\ 1 \in 1 .. N + 1
  /\ \A t \in Task : t \in Nat /\ t + 1 \in 1 .. N + 1
  BY NAssumption DEF Task, NoTask

-----------------------------------------------------------------------------
(* Type correctness.                                                       *)

LEMMA TypeInit == Init => TypeOK
<1> SUFFICES ASSUME Init PROVE TypeOK
  OBVIOUS
<1> USE NAssumption DEF Init, SchedulerInit, ProgressInit
<1>1. SchedulerTypeOK
  BY DEF SchedulerTypeOK
<1>2. ProgressTypeOK
  BY DEF ProgressTypeOK, Status
<1>3. next \in 1 .. N + 1
  OBVIOUS
<1>4. StageTypeOK
  BY <1>3 DEF StageTypeOK, MainPhase
<1>5. WorkerTypeOK
  BY DEF WorkerTypeOK, TaskStep
<1> QED
  BY <1>1, <1>2, <1>4, <1>5 DEF TypeOK

LEMMA TypeStep == TypeOK /\ [Next]_vars => TypeOK'
<1> SUFFICES ASSUME TypeOK, [Next]_vars PROVE TypeOK'
  OBVIOUS
<1> USE TaskFacts, DownloadAssumption DEF TypeOK,
      MainPhase, TaskStep, Status, Actor, FinalStatus,
      schedulerVars, progressVars, stageVars, transferVars, cancelVars
<1>1. CASE AddStorageTask
  <2>1. SchedulerTypeOK'
    BY <1>1 DEF AddStorageTask, ScheduleTask, SchedulerTypeOK
  <2>2. ProgressTypeOK'
    BY <1>1 DEF AddStorageTask, ScheduleTask, ProgressTypeOK
  <2>3. StageTypeOK'
    BY <1>1 DEF AddStorageTask, ScheduleTask, StageTypeOK
  <2>4. WorkerTypeOK'
    BY <1>1 DEF AddStorageTask, ScheduleTask, WorkerTypeOK
  <2> QED
    BY <2>1, <2>2, <2>3, <2>4
<1>2. CASE StartStage
  BY <1>2
     DEF StartStage, SchedulerTypeOK, ProgressTypeOK, StageTypeOK, WorkerTypeOK
<1>3. CASE Precheck
  <2>1. ProgressTypeOK'
    BY <1>3 DEF Precheck, Return, ProgressTypeOK
  <2>2. StageTypeOK'
    BY <1>3 DEF Precheck, Return, StageTypeOK
  <2>3. SchedulerTypeOK' /\ WorkerTypeOK'
    BY <1>3 DEF Precheck, Return, SchedulerTypeOK, WorkerTypeOK
  <2> QED
    BY <2>1, <2>2, <2>3
<1>4. CASE RemoveSkippedTasks
  <2>1. ProgressTypeOK'
    BY <1>4 DEF RemoveSkippedTasks, ProgressTypeOK
  <2>2. SchedulerTypeOK' /\ StageTypeOK' /\ WorkerTypeOK'
    BY <1>4 DEF RemoveSkippedTasks, SchedulerTypeOK, StageTypeOK, WorkerTypeOK
  <2> QED
    BY <2>1, <2>2
<1>5. CASE Report
  <2>1. CASE StartReport(SizesOnly)
    <3>1. SchedulerTypeOK'
      BY <2>1, <1>5
         DEF Report, StartReport, StartTracking, ExecuteTasksAsync,
             SchedulerTypeOK
    <3>2. ProgressTypeOK'
      BY <2>1, <1>5
         DEF Report, StartReport, StartTracking, ExecuteTasksAsync,
             ProgressTypeOK
    <3>3. StageTypeOK' /\ WorkerTypeOK'
      BY <2>1, <1>5
         DEF Report, StartReport, StartTracking, ExecuteTasksAsync, StageTypeOK,
             WorkerTypeOK
    <3> QED
      BY <3>1, <3>2, <3>3
  <2>2. CASE Update(SizesOnly)
    <3>1. ProgressTypeOK'
      BY <2>2, <1>5 DEF Report, Update, ProgressTypeOK
    <3>2. SchedulerTypeOK' /\ StageTypeOK' /\ WorkerTypeOK'
      BY <2>2, <1>5
         DEF Report, Update, SchedulerTypeOK, StageTypeOK, WorkerTypeOK
    <3> QED
      BY <3>1, <3>2
  <2>3. CASE PollInterrupt
    BY <2>3, <1>5
       DEF Report, PollInterrupt, SchedulerTypeOK, ProgressTypeOK, StageTypeOK,
           WorkerTypeOK
  <2>4. CASE AcceptInterrupt
    <3>1. SchedulerTypeOK'
      BY <2>4, <1>5
         DEF Report, AcceptInterrupt, CancelTasks, StopTracking, SchedulerTypeOK
    <3>2. ProgressTypeOK'
      BY <2>4, <1>5
         DEF Report, AcceptInterrupt, CancelTasks, StopTracking, ProgressTypeOK
    <3>3. StageTypeOK' /\ WorkerTypeOK'
      BY <2>4, <1>5
         DEF Report, AcceptInterrupt, CancelTasks, StopTracking, StageTypeOK,
             WorkerTypeOK
    <3> QED
      BY <3>1, <3>2, <3>3
  <2>5. CASE DeclineInterrupt
    <3>1. ProgressTypeOK'
      BY <2>5, <1>5 DEF Report, DeclineInterrupt, ProgressTypeOK
    <3>2. StageTypeOK'
      BY <2>5, <1>5 DEF Report, DeclineInterrupt, StageTypeOK
    <3>3. SchedulerTypeOK' /\ WorkerTypeOK'
      BY <2>5, <1>5 DEF Report, DeclineInterrupt, SchedulerTypeOK, WorkerTypeOK
    <3> QED
      BY <3>1, <3>2, <3>3
  <2>6. CASE JoinAndReturn
    <3>1. ProgressTypeOK'
      BY <2>6, <1>5 DEF Report, JoinAndReturn, StopTracking, ProgressTypeOK
    <3>2. StageTypeOK'
      BY <2>6, <1>5 DEF Report, JoinAndReturn, StopTracking, StageTypeOK
    <3>3. SchedulerTypeOK' /\ WorkerTypeOK'
      BY <2>6, <1>5
         DEF Report, JoinAndReturn, StopTracking, SchedulerTypeOK, WorkerTypeOK
    <3> QED
      BY <3>1, <3>2, <3>3
  <2> QED
    BY <1>5, <2>1, <2>2, <2>3, <2>4, <2>5, <2>6 DEF Report
<1>6. CASE MainBeginsCancel
  BY <1>6
     DEF MainBeginsCancel, BeginCancel, CancelTasks, SchedulerTypeOK,
         ProgressTypeOK, StageTypeOK, WorkerTypeOK
<1>7. ASSUME NEW a \in Actor, CancelOne(a) PROVE TypeOK'
  <2>1. CASE CancelCheck(a)
    <3>1. WorkerTypeOK'
      BY <2>1 DEF CancelCheck, Drop, Front, WorkerTypeOK
    <3>2. SchedulerTypeOK' /\ ProgressTypeOK' /\ StageTypeOK'
      BY <2>1
         DEF CancelCheck, Drop, Front, SchedulerTypeOK, ProgressTypeOK,
             StageTypeOK
    <3> QED
      BY <3>1, <3>2
  <2>2. CASE CancelStore(a)
    <3>1. ProgressTypeOK'
      BY <2>2 DEF CancelStore, Front, ProgressTypeOK
    <3>2. WorkerTypeOK'
      BY <2>2 DEF CancelStore, Front, WorkerTypeOK
    <3>3. SchedulerTypeOK' /\ StageTypeOK'
      BY <2>2 DEF CancelStore, Front, SchedulerTypeOK, StageTypeOK
    <3> QED
      BY <3>1, <3>2, <3>3
  <2>3. CASE CancelStop(a)
    <3>1. WorkerTypeOK'
      BY <2>3 DEF CancelStop, Drop, Front, WorkerTypeOK
    <3>2. SchedulerTypeOK' /\ ProgressTypeOK' /\ StageTypeOK'
      BY <2>3
         DEF CancelStop, Drop, Front, SchedulerTypeOK, ProgressTypeOK,
             StageTypeOK
    <3> QED
      BY <3>1, <3>2
  <2> QED
    BY <1>7, <2>1, <2>2, <2>3 DEF CancelOne
<1>8. CASE MainEndsCancel
  BY <1>8
     DEF MainEndsCancel, EndCancel, SchedulerTypeOK, ProgressTypeOK,
         StageTypeOK, WorkerTypeOK
<1>9. CASE ReturnInterrupted
  BY <1>9
     DEF ReturnInterrupted, Return, SchedulerTypeOK, ProgressTypeOK,
         StageTypeOK, WorkerTypeOK
<1>10. CASE PostProcess
  BY <1>10
     DEF PostProcess, Return, SchedulerTypeOK, ProgressTypeOK, StageTypeOK,
         WorkerTypeOK
<1>11. CASE BeginTask
  BY <1>11
     DEF BeginTask, TakeTask, SchedulerTypeOK, ProgressTypeOK, StageTypeOK,
         WorkerTypeOK
<1>12. CASE EndThread
  BY <1>12
     DEF EndThread, StopLoop, SchedulerTypeOK, ProgressTypeOK, StageTypeOK,
         WorkerTypeOK
<1>13. CASE RunEntry
  BY <1>13
     DEF RunEntry, SchedulerTypeOK, ProgressTypeOK, StageTypeOK, WorkerTypeOK
<1>14. CASE SetInitializing
  <2>1. ProgressTypeOK'
    BY <1>14 DEF SetInitializing, SetStatus, ProgressTypeOK
  <2>2. SchedulerTypeOK' /\ StageTypeOK' /\ WorkerTypeOK'
    BY <1>14
       DEF SetInitializing, SetStatus, SchedulerTypeOK, StageTypeOK,
           WorkerTypeOK
  <2> QED
    BY <2>1, <2>2
<1>15. CASE CheckStorage
  <2>1. ProgressTypeOK'
    BY <1>15 DEF CheckStorage, SetStatus, ProgressTypeOK
  <2>2. StageTypeOK'
    BY <1>15 DEF CheckStorage, SetStatus, StageTypeOK
  <2>3. WorkerTypeOK'
    BY <1>15 DEF CheckStorage, SetStatus, WorkerTypeOK
  <2>4. SchedulerTypeOK'
    BY <1>15 DEF CheckStorage, SetStatus, SchedulerTypeOK
  <2> QED
    BY <2>1, <2>2, <2>3, <2>4
<1>16. CASE FindFile
  <2>1. current \in Task \cup {NoTask}
    BY DEF SchedulerTypeOK
  <2>2. downloader' \in [Storage -> Task \cup {NoTask}]
    BY <1>16, <2>1 DEF FindFile, WorkerTypeOK
  <2>3. stopped' \in [Task -> BOOLEAN]
    BY <1>16 DEF FindFile, WorkerTypeOK
  <2>4. step' \in TaskStep /\ UNCHANGED <<todo, cancelStep>>
    BY <1>16 DEF FindFile
  <2>5. hasPath' \in [Task -> BOOLEAN]
    BY <1>16 DEF FindFile, StageTypeOK
  <2>6. StageTypeOK'
    BY <1>16, <2>5 DEF FindFile, StageTypeOK
  <2>7. SchedulerTypeOK' /\ ProgressTypeOK'
    BY <1>16 DEF FindFile, SchedulerTypeOK, ProgressTypeOK
  <2> QED
    BY <2>2, <2>3, <2>4, <2>6, <2>7 DEF WorkerTypeOK
<1>17. CASE FetchSucceeds
  <2>1. StageTypeOK'
    BY <1>17 DEF FetchSucceeds, StageTypeOK
  <2>2. SchedulerTypeOK' /\ ProgressTypeOK' /\ WorkerTypeOK'
    BY <1>17 DEF FetchSucceeds, SchedulerTypeOK, ProgressTypeOK, WorkerTypeOK
  <2> QED
    BY <2>1, <2>2
<1>18. CASE FetchFails
  BY <1>18
     DEF FetchFails, SchedulerTypeOK, ProgressTypeOK, StageTypeOK, WorkerTypeOK
<1>19. CASE StoreResult
  <2>1. ProgressTypeOK'
    BY <1>19 DEF StoreResult, SetStatus, ProgressTypeOK
  <2>2. SchedulerTypeOK' /\ StageTypeOK' /\ WorkerTypeOK'
    BY <1>19
       DEF StoreResult, SetStatus, SchedulerTypeOK, StageTypeOK, WorkerTypeOK
  <2> QED
    BY <2>1, <2>2
<1>20. CASE RunThrows
  BY <1>20
     DEF RunThrows, EndTask, SchedulerTypeOK, ProgressTypeOK, StageTypeOK,
         WorkerTypeOK
<1>21. CASE AfterRun
  <2>1. SchedulerTypeOK'
    BY <1>21 DEF AfterRun, EndBody, EndTask, SchedulerTypeOK
  <2>2. StageTypeOK'
    BY <1>21 DEF AfterRun, EndBody, EndTask, StageTypeOK
  <2>3. WorkerTypeOK'
    BY <1>21 DEF AfterRun, EndBody, EndTask, WorkerTypeOK
  <2>4. ProgressTypeOK'
    BY <1>21 DEF AfterRun, EndBody, EndTask, ProgressTypeOK
  <2> QED
    BY <2>1, <2>2, <2>3, <2>4
<1>22. CASE WorkerBeginsCancel
  BY <1>22
     DEF WorkerBeginsCancel, BeginCancel, CancelTasks, SchedulerTypeOK,
         ProgressTypeOK, StageTypeOK, WorkerTypeOK
<1>23. CASE WorkerEndsCancel
  BY <1>23
     DEF WorkerEndsCancel, EndCancel, EndBody, EndTask, SchedulerTypeOK,
         ProgressTypeOK, StageTypeOK, WorkerTypeOK
<1>24. CASE Interrupt
  BY <1>24
     DEF Interrupt, UserInterrupt, SchedulerTypeOK, ProgressTypeOK, StageTypeOK,
         WorkerTypeOK
<1>25. CASE UNCHANGED vars
  BY <1>25 DEF vars, SchedulerTypeOK, ProgressTypeOK, StageTypeOK, WorkerTypeOK
<1> QED
  BY <1>1, <1>2, <1>3, <1>4, <1>5, <1>6, <1>7, <1>8, <1>9, <1>10, <1>11, <1>12,
     <1>13, <1>14, <1>15, <1>16, <1>17, <1>18, <1>19, <1>20, <1>21, <1>22,
     <1>23, <1>24, <1>25
  DEF Next, MainNext, WorkerNext, Terminated, Actor

-----------------------------------------------------------------------------
(* The inductive invariant.                                                *)

LEMMA IInvInit == Init => IInv
<1> SUFFICES ASSUME Init PROVE IInv
  OBVIOUS
<1> USE TaskFacts DEF Init, SchedulerInit, ProgressInit, Preparing, Watching
<1>1. TypeOK
  BY TypeInit
<1>2. ThreadInv
  BY DEF ThreadInv, Joinable, Actor
<1>3. CancelInv
  BY DEF CancelInv
<1>4. TrackerInv
  BY DEF TrackerInv
<1>5. StatusInv
  BY DEF StatusInv, Idle, InBody
<1>6. FailureInv
  BY DEF FailureInv
<1> QED
  BY <1>1, <1>2, <1>3, <1>4, <1>5, <1>6 DEF IInv

\* Where the two threads are, relative to each other.
LEMMA ThreadStep == IInv /\ [Next]_vars => ThreadInv'
<1> SUFFICES ASSUME IInv, [Next]_vars PROVE ThreadInv'
  OBVIOUS
<1> USE TaskFacts
        DEF IInv, TypeOK, SchedulerTypeOK, WorkerTypeOK, Actor, ThreadInv,
            Joinable, InTask, Preparing, Watching, PrecheckModes, schedulerVars,
            progressVars, stageVars, transferVars, cancelVars
<1>1. CASE AddStorageTask
  BY <1>1 DEF AddStorageTask, ScheduleTask
<1>2. CASE StartStage
  BY <1>2 DEF StartStage
<1>3. CASE Precheck
  BY <1>3 DEF Precheck, Return
<1>4. CASE RemoveSkippedTasks
  BY <1>4 DEF RemoveSkippedTasks
<1>5. CASE Report
  <2>1. CASE StartReport(SizesOnly)
    BY <2>1, <1>5 DEF Report, StartReport, StartTracking, ExecuteTasksAsync
  <2>2. CASE Update(SizesOnly)
    BY <2>2, <1>5 DEF Report, Update
  <2>3. CASE PollInterrupt
    BY <2>3, <1>5 DEF Report, PollInterrupt
  <2>4. CASE AcceptInterrupt
    BY <2>4, <1>5 DEF Report, AcceptInterrupt, CancelTasks, StopTracking
  <2>5. CASE DeclineInterrupt
    BY <2>5, <1>5 DEF Report, DeclineInterrupt
  <2>6. CASE JoinAndReturn
    BY <2>6, <1>5 DEF Report, JoinAndReturn, StopTracking
  <2> QED
    BY <1>5, <2>1, <2>2, <2>3, <2>4, <2>5, <2>6 DEF Report
<1>6. CASE MainBeginsCancel
  BY <1>6 DEF MainBeginsCancel, BeginCancel, CancelTasks
<1>7. ASSUME NEW a \in Actor, CancelOne(a) PROVE ThreadInv'
  BY <1>7 DEF CancelOne, CancelCheck, CancelStore, CancelStop, Drop, Front
<1>8. CASE MainEndsCancel
  BY <1>8 DEF MainEndsCancel, EndCancel
<1>9. CASE \/ ReturnInterrupted \/ PostProcess
  BY <1>9 DEF ReturnInterrupted, Return, PostProcess
<1>10. CASE BeginTask
  BY <1>10 DEF BeginTask, TakeTask, Front
<1>11. CASE EndThread
  BY <1>11 DEF EndThread, StopLoop
<1>12. CASE \/ RunEntry \/ SetInitializing \/ CheckStorage \/ FindFile
           \/ FetchSucceeds \/ FetchFails \/ StoreResult \/ RunThrows
           \/ AfterRun
  BY <1>12
     DEF RunEntry, SetInitializing, SetStatus, CheckStorage, FindFile,
         FetchSucceeds, FetchFails, StoreResult, RunThrows, EndTask, AfterRun,
         EndBody
<1>13. CASE WorkerBeginsCancel
  BY <1>13 DEF WorkerBeginsCancel, BeginCancel, CancelTasks
<1>14. CASE WorkerEndsCancel
  BY <1>14 DEF WorkerEndsCancel, EndCancel, EndBody, EndTask
<1>15. CASE Interrupt
  BY <1>15 DEF Interrupt, UserInterrupt
<1>16. CASE UNCHANGED vars
  BY <1>16 DEF vars
<1> QED
  BY <1>1, <1>2, <1>3, <1>4, <1>5, <1>6, <1>7, <1>8, <1>9, <1>10, <1>11, <1>12,
     <1>13, <1>14, <1>15, <1>16
  DEF Next, MainNext, WorkerNext, Terminated, Actor

\* Whoever cancels has canceled the scheduler first.
LEMMA CancelStep == IInv /\ [Next]_vars => CancelInv'
<1> SUFFICES ASSUME IInv, [Next]_vars PROVE CancelInv'
  OBVIOUS
<1> USE DEF IInv, CancelInv, ThreadInv, Joinable, InTask, Preparing, Watching,
            schedulerVars, progressVars, stageVars, transferVars, cancelVars
<1>1. CASE AddStorageTask
  BY <1>1 DEF AddStorageTask, ScheduleTask
<1>2. CASE \/ StartStage \/ Precheck \/ RemoveSkippedTasks
  BY <1>2 DEF StartStage, Precheck, Return, RemoveSkippedTasks
<1>3. CASE Report
  BY <1>3
     DEF Report, StartReport, StartTracking, ExecuteTasksAsync, Update,
         PollInterrupt, AcceptInterrupt, CancelTasks, StopTracking,
         DeclineInterrupt, JoinAndReturn
<1>4. CASE MainBeginsCancel
  BY <1>4 DEF MainBeginsCancel, BeginCancel, CancelTasks
<1>5. ASSUME NEW a \in Actor, CancelOne(a) PROVE CancelInv'
  BY <1>5 DEF CancelOne, CancelCheck, CancelStore, CancelStop, Drop, Front
<1>6. CASE MainEndsCancel
  BY <1>6 DEF MainEndsCancel, EndCancel
<1>7. CASE \/ ReturnInterrupted \/ PostProcess
  BY <1>7 DEF ReturnInterrupted, Return, PostProcess
<1>8. CASE BeginTask
  BY <1>8 DEF BeginTask, TakeTask, Front
<1>9. CASE EndThread
  BY <1>9 DEF EndThread, StopLoop
<1>10. CASE \/ RunEntry \/ SetInitializing \/ CheckStorage \/ FindFile
           \/ FetchSucceeds \/ FetchFails \/ StoreResult \/ RunThrows
           \/ AfterRun
  BY <1>10
     DEF RunEntry, SetInitializing, SetStatus, CheckStorage, FindFile,
         FetchSucceeds, FetchFails, StoreResult, RunThrows, EndTask, AfterRun,
         EndBody
<1>11. CASE WorkerBeginsCancel
  BY <1>11 DEF WorkerBeginsCancel, BeginCancel, CancelTasks
<1>12. CASE WorkerEndsCancel
  BY <1>12 DEF WorkerEndsCancel, EndCancel, EndBody, EndTask
<1>13. CASE Interrupt
  BY <1>13 DEF Interrupt, UserInterrupt
<1>14. CASE UNCHANGED vars
  BY <1>14 DEF vars
<1> QED
  BY <1>1, <1>2, <1>3, <1>4, <1>5, <1>6, <1>7, <1>8, <1>9, <1>10, <1>11, <1>12,
     <1>13, <1>14
  DEF Next, MainNext, WorkerNext, Terminated, Actor

\* What the tracker has passed, and the order of the queue.
LEMMA TrackerStep == IInv /\ [Next]_vars => TrackerInv'
<1> SUFFICES ASSUME IInv, [Next]_vars PROVE TrackerInv'
  OBVIOUS
<1> USE TaskFacts
        DEF IInv, TypeOK, SchedulerTypeOK, ProgressTypeOK, StageTypeOK,
            TrackerInv, ThreadInv, Actor, TrackerFinished, Joinable, InTask,
            Preparing, Watching, schedulerVars, progressVars, stageVars,
            transferVars, cancelVars
<1>1. CASE AddStorageTask
  <2>1. /\ main = "add" /\ next \in Task
        /\ next' = next + 1 /\ queue' \subseteq queue \cup {next}
    BY <1>1 DEF AddStorageTask, ScheduleTask
  <2>2. \A t \in queue' : t < next'
    BY <2>1, TaskFacts
  <2> QED
    BY <1>1, <2>2 DEF AddStorageTask, ScheduleTask
<1>2. CASE StartStage
  BY <1>2 DEF StartStage
<1>3. CASE Precheck
  BY <1>3 DEF Precheck, Return
<1>4. CASE RemoveSkippedTasks
  BY <1>4 DEF RemoveSkippedTasks
<1>5. CASE Report
  <2>1. CASE StartReport(SizesOnly)
    BY <2>1, <1>5 DEF Report, StartReport, StartTracking, ExecuteTasksAsync
  <2>2. CASE Update(SizesOnly)
    BY <2>2, <1>5 DEF Report, Update
  <2>3. CASE PollInterrupt
    BY <2>3, <1>5 DEF Report, PollInterrupt
  <2>4. CASE AcceptInterrupt
    BY <2>4, <1>5 DEF Report, AcceptInterrupt, CancelTasks, StopTracking
  <2>5. CASE DeclineInterrupt
    BY <2>5, <1>5 DEF Report, DeclineInterrupt
  <2>6. CASE JoinAndReturn
    BY <2>6, <1>5 DEF Report, JoinAndReturn, StopTracking
  <2> QED
    BY <1>5, <2>1, <2>2, <2>3, <2>4, <2>5, <2>6 DEF Report
<1>6. CASE MainBeginsCancel
  BY <1>6 DEF MainBeginsCancel, BeginCancel, CancelTasks
<1>7. ASSUME NEW a \in Actor, CancelOne(a) PROVE TrackerInv'
  BY <1>7 DEF CancelOne, CancelCheck, CancelStore, CancelStop, Drop, Front
<1>8. CASE MainEndsCancel
  BY <1>8 DEF MainEndsCancel, EndCancel
<1>9. CASE ReturnInterrupted
  BY <1>9 DEF ReturnInterrupted, Return
<1>10. CASE PostProcess
  BY <1>10 DEF PostProcess, Return
<1>11. CASE BeginTask
  BY <1>11 DEF BeginTask, TakeTask, Front
<1>12. CASE EndThread
  BY <1>12 DEF EndThread, StopLoop
<1>13. CASE \/ RunEntry \/ SetInitializing \/ CheckStorage \/ FindFile
           \/ FetchSucceeds \/ FetchFails \/ StoreResult \/ RunThrows
           \/ AfterRun
  BY <1>13
     DEF RunEntry, SetInitializing, SetStatus, CheckStorage, FindFile,
         FetchSucceeds, FetchFails, StoreResult, RunThrows, EndTask, AfterRun,
         EndBody
<1>14. CASE WorkerBeginsCancel
  BY <1>14 DEF WorkerBeginsCancel, BeginCancel, CancelTasks
<1>15. CASE WorkerEndsCancel
  BY <1>15 DEF WorkerEndsCancel, EndCancel, EndBody, EndTask
<1>16. CASE Interrupt
  BY <1>16 DEF Interrupt, UserInterrupt
<1>17. CASE UNCHANGED vars
  BY <1>17 DEF vars
<1> QED
  BY <1>1, <1>2, <1>3, <1>4, <1>5, <1>6, <1>7, <1>8, <1>9, <1>10, <1>11, <1>12,
     <1>13, <1>14, <1>15, <1>16, <1>17
  DEF Next, MainNext, WorkerNext, Terminated, Actor

\* Who may still store into the status of a task.
LEMMA StatusStep == IInv /\ [Next]_vars => StatusInv'
<1> SUFFICES ASSUME IInv, [Next]_vars PROVE StatusInv'
  OBVIOUS
<1> USE TaskFacts
        DEF IInv, TypeOK, SchedulerTypeOK, ProgressTypeOK, WorkerTypeOK,
            StatusInv, TrackerInv, ThreadInv, Actor, InBody, Idle, BodySteps,
            FinalStatus, Joinable, InTask, Preparing, Watching, schedulerVars,
            progressVars, stageVars, transferVars, cancelVars
<1>1. CASE AddStorageTask
  BY <1>1 DEF AddStorageTask, ScheduleTask
<1>2. CASE StartStage
  BY <1>2 DEF StartStage
<1>3. CASE Precheck
  BY <1>3 DEF Precheck, Return
<1>4. CASE RemoveSkippedTasks
  BY <1>4 DEF RemoveSkippedTasks
<1>5. CASE Report
  <2>1. CASE StartReport(SizesOnly)
    BY <2>1, <1>5 DEF Report, StartReport, StartTracking, ExecuteTasksAsync
  <2>2. CASE Update(SizesOnly)
    BY <2>2, <1>5 DEF Report, Update
  <2>3. CASE PollInterrupt
    BY <2>3, <1>5 DEF Report, PollInterrupt
  <2>4. CASE AcceptInterrupt
    BY <2>4, <1>5 DEF Report, AcceptInterrupt, CancelTasks, StopTracking
  <2>5. CASE DeclineInterrupt
    BY <2>5, <1>5 DEF Report, DeclineInterrupt
  <2>6. CASE JoinAndReturn
    BY <2>6, <1>5 DEF Report, JoinAndReturn, StopTracking
  <2> QED
    BY <1>5, <2>1, <2>2, <2>3, <2>4, <2>5, <2>6 DEF Report
<1>6. CASE MainBeginsCancel
  BY <1>6 DEF MainBeginsCancel, BeginCancel, CancelTasks
<1>7. ASSUME NEW a \in Actor, CancelOne(a) PROVE StatusInv'
  <2>1. CASE CancelCheck(a)
    BY <2>1 DEF CancelCheck, Drop, Front
  <2>2. CASE CancelStore(a)
    BY <2>2 DEF CancelStore, Front
  <2>3. CASE CancelStop(a)
    BY <2>3 DEF CancelStop, Drop, Front
  <2> QED
    BY <1>7, <2>1, <2>2, <2>3 DEF CancelOne
<1>8. CASE MainEndsCancel
  BY <1>8 DEF MainEndsCancel, EndCancel
<1>9. CASE ReturnInterrupted
  BY <1>9 DEF ReturnInterrupted, Return
<1>10. CASE PostProcess
  BY <1>10 DEF PostProcess, Return
<1>11. CASE BeginTask
  BY <1>11 DEF BeginTask, TakeTask, Front
<1>12. CASE EndThread
  BY <1>12 DEF EndThread, StopLoop
<1>13. CASE RunEntry
  BY <1>13 DEF RunEntry
<1>14. CASE SetInitializing
  BY <1>14 DEF SetInitializing, SetStatus
<1>15. CASE CheckStorage
  BY <1>15 DEF CheckStorage, SetStatus
<1>16. CASE FindFile
  BY <1>16 DEF FindFile
<1>17. CASE FetchSucceeds
  BY <1>17 DEF FetchSucceeds
<1>18. CASE FetchFails
  BY <1>18 DEF FetchFails
<1>19. CASE StoreResult
  BY <1>19 DEF StoreResult, SetStatus
<1>20. CASE RunThrows
  BY <1>20 DEF RunThrows, EndTask
<1>21. CASE AfterRun
  BY <1>21 DEF AfterRun, EndBody, EndTask
<1>22. CASE WorkerBeginsCancel
  BY <1>22 DEF WorkerBeginsCancel, BeginCancel, CancelTasks
<1>23. CASE WorkerEndsCancel
  BY <1>23 DEF WorkerEndsCancel, EndCancel, EndBody, EndTask
<1>24. CASE Interrupt
  BY <1>24 DEF Interrupt, UserInterrupt
<1>25. CASE UNCHANGED vars
  BY <1>25 DEF vars
<1> QED
  BY <1>1, <1>2, <1>3, <1>4, <1>5, <1>6, <1>7, <1>8, <1>9, <1>10, <1>11, <1>12,
     <1>13, <1>14, <1>15, <1>16, <1>17, <1>18, <1>19, <1>20, <1>21, <1>22,
     <1>23, <1>24, <1>25
  DEF Next, MainNext, WorkerNext, Terminated, Actor

\* A failure is known to the scheduler before it pops another task.
LEMMA FailureStep == IInv /\ [Next]_vars => FailureInv'
<1> SUFFICES ASSUME IInv, [Next]_vars PROVE FailureInv'
  OBVIOUS
<1> USE TaskFacts
        DEF IInv, TypeOK, SchedulerTypeOK, ProgressTypeOK, CancelInv,
            FailureInv, ThreadInv, StatusInv, Actor, BodySteps, FinalStatus,
            Joinable, InTask, Preparing, Watching, schedulerVars, progressVars,
            stageVars, transferVars, cancelVars
<1>1. CASE AddStorageTask
  BY <1>1 DEF AddStorageTask, ScheduleTask
<1>2. CASE StartStage
  BY <1>2 DEF StartStage
<1>3. CASE Precheck
  BY <1>3 DEF Precheck, Return
<1>4. CASE RemoveSkippedTasks
  BY <1>4 DEF RemoveSkippedTasks
<1>5. CASE Report
  <2>1. CASE StartReport(SizesOnly)
    BY <2>1, <1>5 DEF Report, StartReport, StartTracking, ExecuteTasksAsync
  <2>2. CASE Update(SizesOnly)
    BY <2>2, <1>5 DEF Report, Update
  <2>3. CASE PollInterrupt
    BY <2>3, <1>5 DEF Report, PollInterrupt
  <2>4. CASE AcceptInterrupt
    BY <2>4, <1>5 DEF Report, AcceptInterrupt, CancelTasks, StopTracking
  <2>5. CASE DeclineInterrupt
    BY <2>5, <1>5 DEF Report, DeclineInterrupt
  <2>6. CASE JoinAndReturn
    BY <2>6, <1>5 DEF Report, JoinAndReturn, StopTracking
  <2> QED
    BY <1>5, <2>1, <2>2, <2>3, <2>4, <2>5, <2>6 DEF Report
<1>6. CASE MainBeginsCancel
  BY <1>6 DEF MainBeginsCancel, BeginCancel, CancelTasks
<1>7. ASSUME NEW a \in Actor, CancelOne(a) PROVE FailureInv'
  <2>1. CASE CancelCheck(a)
    BY <2>1 DEF CancelCheck, Drop, Front
  <2>2. CASE CancelStore(a)
    BY <2>2 DEF CancelStore, Front
  <2>3. CASE CancelStop(a)
    BY <2>3 DEF CancelStop, Drop, Front
  <2> QED
    BY <1>7, <2>1, <2>2, <2>3 DEF CancelOne
<1>8. CASE MainEndsCancel
  BY <1>8 DEF MainEndsCancel, EndCancel
<1>9. CASE ReturnInterrupted
  BY <1>9 DEF ReturnInterrupted, Return
<1>10. CASE PostProcess
  BY <1>10 DEF PostProcess, Return
<1>11. CASE BeginTask
  BY <1>11 DEF BeginTask, TakeTask, Front
<1>12. CASE EndThread
  BY <1>12 DEF EndThread, StopLoop
<1>13. CASE RunEntry
  BY <1>13 DEF RunEntry
<1>14. CASE SetInitializing
  BY <1>14 DEF SetInitializing, SetStatus
<1>15. CASE CheckStorage
  BY <1>15 DEF CheckStorage, SetStatus
<1>16. CASE FindFile
  BY <1>16 DEF FindFile
<1>17. CASE FetchSucceeds
  BY <1>17 DEF FetchSucceeds
<1>18. CASE FetchFails
  BY <1>18 DEF FetchFails
<1>19. CASE StoreResult
  BY <1>19 DEF StoreResult, SetStatus
<1>20. CASE RunThrows
  BY <1>20 DEF RunThrows, EndTask
<1>21. CASE AfterRun
  BY <1>21 DEF AfterRun, EndBody, EndTask
<1>22. CASE WorkerBeginsCancel
  BY <1>22 DEF WorkerBeginsCancel, BeginCancel, CancelTasks
<1>23. CASE WorkerEndsCancel
  BY <1>23 DEF WorkerEndsCancel, EndCancel, EndBody, EndTask
<1>24. CASE Interrupt
  BY <1>24 DEF Interrupt, UserInterrupt
<1>25. CASE UNCHANGED vars
  BY <1>25 DEF vars
<1> QED
  BY <1>1, <1>2, <1>3, <1>4, <1>5, <1>6, <1>7, <1>8, <1>9, <1>10, <1>11, <1>12,
     <1>13, <1>14, <1>15, <1>16, <1>17, <1>18, <1>19, <1>20, <1>21, <1>22,
     <1>23, <1>24, <1>25
  DEF Next, MainNext, WorkerNext, Terminated, Actor

\* IInv holds in every reachable state: the two threads' positions, the
\* tracker, the queue and the statuses constrain each other as it says.
THEOREM Invariance == Spec => []IInv
<1>1. IInv /\ [Next]_vars => IInv'
  BY TypeStep, ThreadStep, CancelStep, TrackerStep, StatusStep, FailureStep DEF IInv
<1> QED
  BY IInvInit, <1>1, PTL DEF Spec

\* Every variable keeps its type.
THEOREM TypeCorrect == Spec => []TypeOK
<1>1. IInv => TypeOK
  BY DEF IInv
<1> QED
  BY Invariance, <1>1, PTL

-----------------------------------------------------------------------------
(* The safety properties.                                                  *)

\* RunStorageTasks returns with its scheduler's thread over, no cancellation
\* in progress and the console released.
THEOREM Quiescence == Spec => []ReturnsQuiescent
<1>1. IInv => ReturnsQuiescent
  BY TaskFacts DEF IInv, TypeOK, SchedulerTypeOK, WorkerTypeOK, ThreadInv, Joinable,
     Watching, Actor, ReturnsQuiescent
<1> QED
  BY Invariance, <1>1, PTL

\* The tracker has only passed tasks that are over for good.
THEOREM ShownAreFinal == Spec => []ShownStayFinal
<1>1. IInv => ShownStayFinal
  BY DEF IInv, StatusInv, ShownStayFinal
<1> QED
  BY Invariance, <1>1, PTL

\* After a failed task no other one looks for a file or transfers it.
THEOREM FailFast == Spec => []FailureStopsBatch
<1>1. IInv => FailureStopsBatch
  BY DEF IInv, FailureInv, FailureStopsBatch, BodySteps
<1> QED
  BY Invariance, <1>1, PTL

\* A call that returns true left every tracked task final and none failed.
THEOREM TrueIsEarned == Spec => []TrueMeansNoneFailed
<1>1. IInv => TrueMeansNoneFailed
  BY DEF IInv, TrackerInv, StatusInv, TrueMeansNoneFailed
<1> QED
  BY Invariance, <1>1, PTL

\* The progress loop reads the statuses of tasks that still run, and concludes
\* nothing from them that a later store proves wrong.
THEOREM TrackerRight == Spec => []TrackerIsRight
<1>1. ShownStayFinal /\ TrueMeansNoneFailed => TrackerIsRight
  BY DEF TrackerIsRight
<1> QED
  BY ShownAreFinal, TrueIsEarned, <1>1, PTL

\* Before an accepted interrupt, no step changes a final status.
FinalKept ==
  main \notin {"interrupted", "canceling", "joinCanceled", "returned"} =>
    \A t \in Task : status[t] \in FinalStatus => status'[t] = status[t]

LEMMA FinalStep == IInv /\ [Next]_vars => FinalKept
<1> SUFFICES ASSUME IInv, [Next]_vars PROVE FinalKept
  OBVIOUS
<1> USE DEF IInv, TypeOK, SchedulerTypeOK, ProgressTypeOK, WorkerTypeOK,
            StageTypeOK, MainPhase, ThreadInv, TrackerInv, CancelInv, StatusInv,
            Idle, FinalStatus, FinalKept, Actor, Joinable, InTask, Preparing,
            Watching, InBody, BodySteps, schedulerVars, progressVars, stageVars,
            transferVars, cancelVars
<1>1. CASE AddStorageTask
  BY <1>1 DEF AddStorageTask, ScheduleTask
<1>2. CASE StartStage
  BY <1>2 DEF StartStage
<1>3. CASE Precheck
  BY <1>3 DEF Precheck, Return
<1>4. CASE RemoveSkippedTasks
  BY <1>4 DEF RemoveSkippedTasks
<1>5. CASE Report
  <2>1. CASE StartReport(SizesOnly)
    BY <2>1, <1>5 DEF Report, StartReport, StartTracking, ExecuteTasksAsync
  <2>2. CASE Update(SizesOnly)
    BY <2>2, <1>5 DEF Report, Update
  <2>3. CASE PollInterrupt
    BY <2>3, <1>5 DEF Report, PollInterrupt
  <2>4. CASE AcceptInterrupt
    BY <2>4, <1>5 DEF Report, AcceptInterrupt, CancelTasks, StopTracking
  <2>5. CASE DeclineInterrupt
    BY <2>5, <1>5 DEF Report, DeclineInterrupt
  <2>6. CASE JoinAndReturn
    BY <2>6, <1>5 DEF Report, JoinAndReturn, StopTracking
  <2> QED
    BY <1>5, <2>1, <2>2, <2>3, <2>4, <2>5, <2>6 DEF Report
<1>6. CASE MainBeginsCancel
  BY <1>6 DEF MainBeginsCancel, BeginCancel, CancelTasks
<1>7. ASSUME NEW a \in Actor, CancelOne(a) PROVE FinalKept
  <2>1. CASE CancelCheck(a)
    BY <2>1 DEF CancelCheck, Drop, Front
  <2>2. CASE CancelStore(a)
    BY <2>2 DEF CancelStore, Front
  <2>3. CASE CancelStop(a)
    BY <2>3 DEF CancelStop, Drop, Front
  <2> QED
    BY <1>7, <2>1, <2>2, <2>3 DEF CancelOne
<1>8. CASE MainEndsCancel
  BY <1>8 DEF MainEndsCancel, EndCancel
<1>9. CASE ReturnInterrupted
  BY <1>9 DEF ReturnInterrupted, Return
<1>10. CASE PostProcess
  BY <1>10 DEF PostProcess, Return
<1>11. CASE BeginTask
  BY <1>11 DEF BeginTask, TakeTask, Front
<1>12. CASE EndThread
  BY <1>12 DEF EndThread, StopLoop
<1>13. CASE RunEntry
  BY <1>13 DEF RunEntry
<1>14. CASE SetInitializing
  BY <1>14 DEF SetInitializing, SetStatus
<1>15. CASE CheckStorage
  BY <1>15 DEF CheckStorage, SetStatus
<1>16. CASE FindFile
  BY <1>16 DEF FindFile
<1>17. CASE FetchSucceeds
  BY <1>17 DEF FetchSucceeds
<1>18. CASE FetchFails
  BY <1>18 DEF FetchFails
<1>19. CASE StoreResult
  BY <1>19 DEF StoreResult, SetStatus
<1>20. CASE RunThrows
  BY <1>20 DEF RunThrows, EndTask
<1>21. CASE AfterRun
  BY <1>21 DEF AfterRun, EndBody, EndTask
<1>22. CASE WorkerBeginsCancel
  BY <1>22 DEF WorkerBeginsCancel, BeginCancel, CancelTasks
<1>23. CASE WorkerEndsCancel
  BY <1>23 DEF WorkerEndsCancel, EndCancel, EndBody, EndTask
<1>24. CASE Interrupt
  BY <1>24 DEF Interrupt, UserInterrupt
<1>25. CASE UNCHANGED vars
  BY <1>25 DEF vars
<1> QED
  BY <1>1, <1>2, <1>3, <1>4, <1>5, <1>6, <1>7, <1>8, <1>9, <1>10, <1>11, <1>12,
     <1>13, <1>14, <1>15, <1>16, <1>17, <1>18, <1>19, <1>20, <1>21, <1>22,
     <1>23, <1>24, <1>25
  DEF Next, MainNext, WorkerNext, Terminated, Actor

\* Run and Cancel store into the same atomic without looking, yet no final
\* status is overwritten until the user's interrupt has been accepted.
THEOREM FinalForGood == Spec => FinalIsFinal
<1>1. IInv /\ [Next]_vars => [FinalKept]_vars
  BY FinalStep
<1> QED
  BY Invariance, <1>1, PTL DEF Spec, FinalIsFinal, FinalKept

-----------------------------------------------------------------------------
(* The call leaves no task active, but one that throws.                    *)

LEMMA SettledStep == IInv /\ SettledInv /\ [Next]_vars => SettledInv'
<1> SUFFICES ASSUME IInv, SettledInv, [Next]_vars PROVE SettledInv'
  OBVIOUS
<1> USE TaskFacts
        DEF IInv, TypeOK, SchedulerTypeOK, ProgressTypeOK, WorkerTypeOK,
            ThreadInv, TrackerInv, CancelInv, StatusInv, SettledInv, Settled,
            ReturnLeavesNoneActive, Idle, FinalStatus, Actor, Joinable, InTask, Preparing, Watching,
            InBody, BodySteps, schedulerVars, progressVars, stageVars,
            transferVars, cancelVars
<1>1. CASE AddStorageTask
  BY <1>1 DEF AddStorageTask, ScheduleTask
<1>2. CASE StartStage
  BY <1>2 DEF StartStage
<1>3. CASE Precheck
  BY <1>3 DEF Precheck, Return
<1>4. CASE RemoveSkippedTasks
  BY <1>4 DEF RemoveSkippedTasks
<1>5. CASE Report
  <2>1. CASE StartReport(SizesOnly)
    BY <2>1, <1>5 DEF Report, StartReport, StartTracking, ExecuteTasksAsync
  <2>2. CASE Update(SizesOnly)
    BY <2>2, <1>5 DEF Report, Update
  <2>3. CASE PollInterrupt
    BY <2>3, <1>5 DEF Report, PollInterrupt
  <2>4. CASE AcceptInterrupt
    BY <2>4, <1>5 DEF Report, AcceptInterrupt, CancelTasks, StopTracking
  <2>5. CASE DeclineInterrupt
    BY <2>5, <1>5 DEF Report, DeclineInterrupt
  <2>6. CASE JoinAndReturn
    BY <2>6, <1>5 DEF Report, JoinAndReturn, StopTracking
  <2> QED
    BY <1>5, <2>1, <2>2, <2>3, <2>4, <2>5, <2>6 DEF Report
<1>6. CASE MainBeginsCancel
  BY <1>6 DEF MainBeginsCancel, BeginCancel, CancelTasks
<1>7. ASSUME NEW a \in Actor, CancelOne(a) PROVE SettledInv'
  <2>1. CASE CancelCheck(a)
    BY <2>1 DEF CancelCheck, Drop, Front
  <2>2. CASE CancelStore(a)
    BY <2>2 DEF CancelStore, Front
  <2>3. CASE CancelStop(a)
    BY <2>3 DEF CancelStop, Drop, Front
  <2> QED
    BY <1>7, <2>1, <2>2, <2>3 DEF CancelOne
<1>8. CASE MainEndsCancel
  BY <1>8 DEF MainEndsCancel, EndCancel
<1>9. CASE ReturnInterrupted
  BY <1>9 DEF ReturnInterrupted, Return
<1>10. CASE PostProcess
  BY <1>10 DEF PostProcess, Return
<1>11. CASE BeginTask
  BY <1>11 DEF BeginTask, TakeTask, Front
<1>12. CASE EndThread
  BY <1>12 DEF EndThread, StopLoop
<1>13. CASE RunEntry
  BY <1>13 DEF RunEntry
<1>14. CASE SetInitializing
  BY <1>14 DEF SetInitializing, SetStatus
<1>15. CASE CheckStorage
  BY <1>15 DEF CheckStorage, SetStatus
<1>16. CASE FindFile
  BY <1>16 DEF FindFile
<1>17. CASE FetchSucceeds
  BY <1>17 DEF FetchSucceeds
<1>18. CASE FetchFails
  BY <1>18 DEF FetchFails
<1>19. CASE StoreResult
  BY <1>19 DEF StoreResult, SetStatus
<1>20. CASE RunThrows
  BY <1>20 DEF RunThrows, EndTask
<1>21. CASE AfterRun
  BY <1>21 DEF AfterRun, EndBody, EndTask
<1>22. CASE WorkerBeginsCancel
  BY <1>22 DEF WorkerBeginsCancel, BeginCancel, CancelTasks
<1>23. CASE WorkerEndsCancel
  BY <1>23 DEF WorkerEndsCancel, EndCancel, EndBody, EndTask
<1>24. CASE Interrupt
  BY <1>24 DEF Interrupt, UserInterrupt
<1>25. CASE UNCHANGED vars
  BY <1>25 DEF vars
<1> QED
  BY <1>1, <1>2, <1>3, <1>4, <1>5, <1>6, <1>7, <1>8, <1>9, <1>10, <1>11, <1>12,
     <1>13, <1>14, <1>15, <1>16, <1>17, <1>18, <1>19, <1>20, <1>21, <1>22,
     <1>23, <1>24, <1>25
  DEF Next, MainNext, WorkerNext, Terminated, Actor

\* Whatever the tasks do, the call leaves nothing behind that could still touch
\* what it returns from, and every tracked task final but one that threw, even
\* when a store of Run has overwritten a cancellation.
THEOREM ReturnClean == Spec => []ReturnIsClean
<1>1. Init => SettledInv
  BY DEF Init, SettledInv, ReturnLeavesNoneActive
<1>2. IInv /\ SettledInv /\ [Next]_vars => SettledInv'
  BY SettledStep
<1>3. ReturnsQuiescent /\ SettledInv => ReturnIsClean
  BY DEF SettledInv, ReturnIsClean
<1> QED
  BY Invariance, Quiescence, <1>1, <1>2, <1>3, PTL DEF Spec

-----------------------------------------------------------------------------
(* The stage implements the abstract batch.                                *)

LEMMA BatchStep == IInv /\ [Next]_vars => [Batch!Next]_(Batch!vars)
<1> SUFFICES ASSUME IInv, [Next]_vars PROVE [Batch!Next]_(Batch!vars)
  OBVIOUS
<1> USE TaskFacts
        DEF IInv, TypeOK, SchedulerTypeOK, StageTypeOK, ThreadInv, TrackerInv,
            CancelInv, StatusInv, Actor, Joinable, InTask, Preparing, Watching,
            Batch!Next, Batch!vars, Batch!Submit, Batch!Begin, Batch!End,
            Batch!Stop, Batch!Decide, Batch!Task, Task, NoTask, schedulerVars,
            progressVars, stageVars, transferVars, cancelVars
<1>1. CASE AddStorageTask
  BY <1>1 DEF AddStorageTask, ScheduleTask
<1>2. CASE StartStage
  BY <1>2 DEF StartStage
<1>3. CASE Precheck
  BY <1>3 DEF Precheck, Return
<1>4. CASE RemoveSkippedTasks
  BY <1>4 DEF RemoveSkippedTasks
<1>5. CASE Report
  <2>1. CASE StartReport(SizesOnly)
    BY <2>1, <1>5 DEF Report, StartReport, StartTracking, ExecuteTasksAsync
  <2>2. CASE Update(SizesOnly)
    BY <2>2, <1>5 DEF Report, Update
  <2>3. CASE PollInterrupt
    BY <2>3, <1>5 DEF Report, PollInterrupt
  <2>4. CASE AcceptInterrupt
    BY <2>4, <1>5 DEF Report, AcceptInterrupt, CancelTasks, StopTracking
  <2>5. CASE DeclineInterrupt
    BY <2>5, <1>5 DEF Report, DeclineInterrupt
  <2>6. CASE JoinAndReturn
    BY <2>6, <1>5 DEF Report, JoinAndReturn, StopTracking
  <2> QED
    BY <1>5, <2>1, <2>2, <2>3, <2>4, <2>5, <2>6 DEF Report
<1>6. CASE MainBeginsCancel
  BY <1>6 DEF MainBeginsCancel, BeginCancel, CancelTasks
<1>7. ASSUME NEW a \in Actor, CancelOne(a) PROVE [Batch!Next]_(Batch!vars)
  <2>1. CASE CancelCheck(a)
    BY <2>1 DEF CancelCheck, Drop, Front
  <2>2. CASE CancelStore(a)
    BY <2>2 DEF CancelStore, Front
  <2>3. CASE CancelStop(a)
    BY <2>3 DEF CancelStop, Drop, Front
  <2> QED
    BY <1>7, <2>1, <2>2, <2>3 DEF CancelOne
<1>8. CASE MainEndsCancel
  BY <1>8 DEF MainEndsCancel, EndCancel
<1>9. CASE ReturnInterrupted
  BY <1>9 DEF ReturnInterrupted, Return
<1>10. CASE PostProcess
  BY <1>10 DEF PostProcess, Return
<1>11. CASE BeginTask
  BY <1>11 DEF BeginTask, TakeTask, Front
<1>12. CASE EndThread
  BY <1>12 DEF EndThread, StopLoop
<1>13. CASE RunEntry
  BY <1>13 DEF RunEntry
<1>14. CASE SetInitializing
  BY <1>14 DEF SetInitializing, SetStatus
<1>15. CASE CheckStorage
  BY <1>15 DEF CheckStorage, SetStatus
<1>16. CASE FindFile
  BY <1>16 DEF FindFile
<1>17. CASE FetchSucceeds
  BY <1>17 DEF FetchSucceeds
<1>18. CASE FetchFails
  BY <1>18 DEF FetchFails
<1>19. CASE StoreResult
  BY <1>19 DEF StoreResult, SetStatus
<1>20. CASE RunThrows
  BY <1>20 DEF RunThrows, EndTask
<1>21. CASE AfterRun
  BY <1>21 DEF AfterRun, EndBody, EndTask
<1>22. CASE WorkerBeginsCancel
  BY <1>22 DEF WorkerBeginsCancel, BeginCancel, CancelTasks
<1>23. CASE WorkerEndsCancel
  BY <1>23 DEF WorkerEndsCancel, EndCancel, EndBody, EndTask
<1>24. CASE Interrupt
  BY <1>24 DEF Interrupt, UserInterrupt
<1>25. CASE UNCHANGED vars
  BY <1>25 DEF vars
<1> QED
  BY <1>1, <1>2, <1>3, <1>4, <1>5, <1>6, <1>7, <1>8, <1>9, <1>10, <1>11, <1>12,
     <1>13, <1>14, <1>15, <1>16, <1>17, <1>18, <1>19, <1>20, <1>21, <1>22,
     <1>23, <1>24, <1>25
  DEF Next, MainNext, WorkerNext, Terminated, Actor

\* Tasks begin in order, one at a time, none after the batch is stopped or the
\* verdict given; the verdict is given once, with no task active.
THEOREM Implementation == Spec => ImplementsBatch
<1>1. Init => Batch!Init
  BY DEF Init, SchedulerInit, Batch!Init, NoTask
<1>2. IInv /\ [Next]_vars => [Batch!Next]_(Batch!vars)
  BY BatchStep
<1> QED
  BY Invariance, <1>1, <1>2, PTL DEF Spec, ImplementsBatch, Batch!Spec

=============================================================================

----------------------------- MODULE TaskScheduler -----------------------------
(***************************************************************************)
(* CIL/task_scheduler.cpp: a queue of functions that one thread runs in    *)
(* order.  This module holds the state of the scheduler and one action per *)
(* operation; what a task does between TakeTask and EndTask is given by    *)
(* the module that composes the scheduler with its tasks.                  *)
(*                                                                         *)
(* Tasks are numbered in the order they are scheduled, so the queue is the *)
(* set of tasks not yet popped and its front is the least of them.         *)
(***************************************************************************)
EXTENDS Naturals

CONSTANT N  \* how many tasks one scheduler is given

ASSUME NAssumption == N \in Nat \ {0}

Task == 1 .. N
NoTask == 0

VARIABLES
  queue,      \* tasks_: scheduled and not yet popped
  completed,  \* tasks_completed_
  canceled,   \* tasks_canceled_
  thread,     \* task_thread_: not started, in its loop, inside a task, ended
  current     \* the task the thread has popped and is running

schedulerVars == <<queue, completed, canceled, thread, current>>

SchedulerTypeOK ==
  /\ queue \subseteq Task
  /\ completed \in BOOLEAN
  /\ canceled \in BOOLEAN
  /\ thread \in {"none", "loop", "task", "ended"}
  /\ current \in Task \cup {NoTask}

SchedulerInit ==
  /\ queue = {}
  /\ completed = TRUE
  /\ canceled = FALSE
  /\ thread = "none"
  /\ current = NoTask

-----------------------------------------------------------------------------
\* The least member of a set of task numbers: the front of a queue, the next
\* element of a list that is walked in order.
Front(t, S) == t \in S /\ \A u \in S : t <= u

ScheduleTask(t) ==
  /\ queue' = queue \cup {t}
  /\ completed' = FALSE
  /\ canceled' = FALSE
  /\ UNCHANGED <<thread, current>>

\* Join can return: there is no thread, or its function has returned.
Joinable == thread \in {"none", "ended"}

ExecuteTasksAsync ==
  /\ Joinable
  /\ thread' = "loop"
  /\ UNCHANGED <<queue, completed, canceled, current>>

CancelTasks ==
  /\ canceled' = TRUE
  /\ UNCHANGED <<queue, completed, thread, current>>

\* One turn of ExecuteTasks under queue_mutex_: pop the front task ...
TakeTask(t) ==
  /\ thread = "loop"
  /\ ~canceled
  /\ Front(t, queue)
  /\ queue' = queue \ {t}
  /\ current' = t
  /\ thread' = "task"
  /\ UNCHANGED <<completed, canceled>>

\* ... or leave the loop, keeping whatever is still queued.
StopLoop ==
  /\ thread = "loop"
  /\ queue = {} \/ canceled
  /\ completed' = TRUE
  /\ thread' = "ended"
  /\ UNCHANGED <<queue, canceled, current>>

\* The task's function returns or throws: both continue the loop, an
\* exception is only logged.
EndTask ==
  /\ thread = "task"
  /\ thread' = "loop"
  /\ current' = NoTask
  /\ UNCHANGED <<queue, completed, canceled>>

=============================================================================

------------------------------- MODULE GuiSession -------------------------------
(***************************************************************************)
(* The graphical program's two threads (gui/controllers): the GUI thread,  *)
(* which runs the event loop and what the user clicks, and the benchmark   *)
(* thread, a QThread made anew for each enumeration of devices, each run,  *)
(* each download of dependencies and each clearing of the cache.           *)
(*                                                                         *)
(* The benchmark thread talks to the GUI thread by posting calls to its    *)
(* event loop: some are awaited (BlockingQueuedConnection), the finished   *)
(* signal is not.  The GUI thread talks back through the interrupt flag,   *)
(* and at times waits for the thread, delivering nothing meanwhile.        *)
(*                                                                         *)
(* Stages of a run are modelled elsewhere; here they succeed, fail or      *)
(* throw.  All configurations shipped have one scenario, and so have these.*)
(***************************************************************************)
EXTENDS Naturals, SequencesExt

CONSTANTS
  C,           \* configurations the user has selected
  MaxThreads,  \* bound: threads made in a session
  QuitsInSweep \* the user may quit while a run's thread awaits the GUI thread

ASSUME GuiAssumption ==
  C \in Nat \ {0} /\ MaxThreads \in Nat \ {0} /\ QuitsInSweep \in BOOLEAN

VARIABLES
  gui,        \* "loop", or what the GUI thread waits for the thread to do
  posted,     \* calls posted to its event loop
  page,       \* start (and the pages reached from it) or realtime
  ready,      \* the start page lists the providers
  popup,      \* the popup shown, "none" if there is none
  dialog,     \* the dialog in exec(): "question" or "status"
  told,       \* the status last shown to the user
  ask,        \* the setting: ask before a download
  meddled,    \* the user has cleared the cache before an enumeration was known to
              \* have ended, or closed the popup of a clearing before that was
  interrupt,  \* the flag both threads share
  threads,    \* threads made so far: the last of them is the thread below
  held,       \* benchmark_thread_ is that thread, not null
  kind,       \* what the thread was made for
  alive,      \* isRunning(): its function has not returned
  at,         \* where its function is
  config,     \* the configuration its loop has reached
  collected,  \* the sweep found all the sizes
  status      \* benchmark_status_

guiVars == <<gui, posted, page, ready, popup, dialog, told, ask, meddled>>
threadVars == <<threads, held, kind, alive, at, config, collected>>
vars == <<guiVars, threadVars, interrupt, status>>

Stage == {"Download", "Preparation", "DataVerification", "Benchmark"}
Sweep == {"start", "sync1", "sweep", "sync2", "sized", "question"}
Enumeration == {"sizing", "fetching", "listing"}
Place == {"next", "clearing", "end"} \cup Stage \cup Sweep \cup Enumeration

OfRun == {"run", "dependencies"}

NewStatus == [success |-> FALSE, cancelled |-> FALSE, done |-> <<>>]

Statuses == [success : BOOLEAN, cancelled : BOOLEAN, done : Seq(BOOLEAN)]

Kind == {"enumerate", "clear"} \cup OfRun

\* The call of the thread's finished signal: the thread's number, and what it was
\* made for.  A thread's object is deleted by a posted call as well (deleteLater).
Calls ==
  [call : {"finished"}, thread : 1 .. MaxThreads, of : Kind]
    \cup [call : {"sync", "ask", "delete"}]
    \cup [call : {"show"}, status : Statuses]

Succeeded(s) == s.success /\ ~s.cancelled

-----------------------------------------------------------------------------
(* Threads                                                                 *)

\* QThread::create, start
StartThread(k) ==
  /\ threads < MaxThreads
  /\ threads' = threads + 1
  /\ held' = TRUE /\ alive' = TRUE
  /\ kind' = k /\ at' = "start" /\ config' = 1 /\ collected' = FALSE

\* Start page: what InitStartPage leaves, with the enumeration begun.
Init ==
  /\ gui = "loop" /\ posted = <<>>
  /\ page = "start" /\ ready = FALSE
  /\ popup = "none" /\ dialog = "none"
  /\ told = NewStatus
  /\ ask \in BOOLEAN /\ meddled = FALSE
  /\ interrupt = FALSE
  /\ threads = 1 /\ held = TRUE /\ alive = TRUE
  /\ kind = "enumerate" /\ at = "start" /\ config = 1 /\ collected = FALSE
  /\ status = NewStatus

Post(c) == posted' = Append(posted, c)

\* The thread's function returns and the thread emits finished.
EndThread ==
  /\ alive /\ at = "end"
  /\ alive' = FALSE
  /\ Post([call |-> "finished", thread |-> threads, of |-> kind])
  /\ UNCHANGED <<gui, page, ready, popup, dialog, told, ask, meddled, interrupt,
                 threads, held, kind, at, config, collected, status>>

-----------------------------------------------------------------------------
(* The user                                                                *)

Running == held /\ alive

\* No modal window takes the input, and no call a handler has just posted to the
\* GUI thread itself is left: those come before the user's next click.
Free ==
  /\ gui = "loop" /\ popup = "none" /\ dialog = "none"
  /\ \A i \in DOMAIN posted : posted[i].call \notin {"show", "delete"}

\* AppController::RunBenchmark up to the wait in BenchmarkController's.
ClickStart ==
  /\ Free /\ page = "start" /\ ready
  /\ threads < MaxThreads
  /\ \E k \in OfRun : gui' = k
  /\ interrupt' = FALSE
  /\ UNCHANGED <<posted, page, ready, popup, dialog, told, ask, meddled, threadVars, status>>

\* StopBenchmark(false); the popup is shown in any case.
ClickCancel ==
  /\ Free /\ page = "realtime"
  /\ popup' = "canceling"
  /\ interrupt' = (interrupt \/ Running)
  /\ UNCHANGED <<gui, posted, page, ready, dialog, told, ask, meddled, threadVars, status>>

\* OnClearCacheRequested: StopBenchmark(true) comes first.  The loading widget of
\* an enumeration is no window of its own and blocks no click.
ClickClearCache ==
  /\ Free /\ page = "start"
  /\ threads < MaxThreads
  /\ gui' = "clear"
  /\ interrupt' = (interrupt \/ Running)
  /\ meddled' = (meddled \/ (held /\ kind = "enumerate"))
  /\ UNCHANGED <<posted, page, ready, popup, dialog, told, ask, threadVars, status>>

\* The program is quit: exec() returns, and AppController's destructor calls
\* StopBenchmark(true).
Quit ==
  /\ Free
  /\ Running /\ ask /\ kind \in OfRun /\ at \in Sweep => QuitsInSweep
  /\ gui' = "quit"
  /\ interrupt' = (interrupt \/ Running)
  /\ UNCHANGED <<posted, page, ready, popup, dialog, told, ask, meddled, threadVars, status>>

\* A popup has a button to close it, one that announces what the thread does too.
ClosePopup ==
  /\ gui = "loop" /\ popup # "none" /\ dialog = "none"
  /\ popup' = "none"
  /\ meddled' = (meddled \/ (held /\ popup = "clearing"))
  /\ UNCHANGED <<gui, posted, page, ready, dialog, told, ask, threadVars,
                 interrupt, status>>

\* RequestDownload returns, and with it the call the thread awaits; a refusal
\* cancels the run.
AnswerQuestion ==
  /\ gui = "loop" /\ dialog = "question"
  /\ dialog' = "none"
  /\ \/ at' = "next" /\ status' = [status EXCEPT !.success = TRUE]
     \/ at' = "end" /\ status' = [status EXCEPT !.cancelled = TRUE]
  /\ UNCHANGED <<gui, posted, page, ready, popup, told, ask, meddled, interrupt,
                 threads, held, kind, alive, config, collected>>

CloseStatus ==
  /\ gui = "loop" /\ dialog = "status"
  /\ dialog' = "none"
  /\ UNCHANGED <<gui, posted, page, ready, popup, told, ask, meddled, threadVars,
                 interrupt, status>>

-----------------------------------------------------------------------------
(* What the GUI thread does when the wait is over                          *)

Waiting == gui \notin {"loop", "exited", "crashed"}

\* BenchmarkController::RunBenchmark after its wait.
StartRun ==
  /\ gui \in OfRun /\ ~Running
  /\ StartThread(gui)
  /\ gui' = "loop"
  /\ status' = NewStatus
  /\ interrupt' = FALSE
  /\ page' = "realtime"
  /\ UNCHANGED <<posted, ready, popup, dialog, told, ask, meddled>>

\* Variant: no popup while the cache is cleared.
StartClearCache_NoPopup ==
  /\ gui = "clear" /\ ~Running
  /\ StartThread("clear")
  /\ gui' = "loop"
  /\ UNCHANGED <<posted, page, ready, popup, dialog, told, ask, meddled, interrupt, status>>

StartClearCache ==
  /\ gui = "clear" /\ ~Running
  /\ StartThread("clear")
  /\ gui' = "loop"
  /\ popup' = "clearing"
  /\ UNCHANGED <<posted, page, ready, dialog, told, ask, meddled, interrupt, status>>

Exit ==
  /\ gui = "quit" /\ ~Running
  /\ gui' = "exited"
  /\ UNCHANGED <<posted, page, ready, popup, dialog, told, ask, meddled, threadVars,
                 interrupt, status>>

-----------------------------------------------------------------------------
(* The event loop delivers the first posted call.                          *)

Delivered(call) ==
  /\ gui = "loop" /\ posted # <<>>
  /\ Head(posted).call = call

\* What the finished signals' slots do, and what is posted when the signal's own
\* call has left the queue.  OnEnumerationFinished:
EnumerationFinished(queue) ==
  /\ ready' = TRUE
  /\ popup' = IF status.success THEN popup ELSE "message"
  /\ posted' = queue
  /\ UNCHANGED <<page, status>>

\* Variant: the lambda leaves the status as the worker left it.
BenchmarkFinished_NotCancelled(queue) ==
  /\ popup' = IF interrupt THEN "none" ELSE popup
  /\ page' = "start"
  /\ posted' = Append(queue, [call |-> "show", status |-> status])
  /\ UNCHANGED <<ready, status>>

\* The lambda of a run and OnBenchmarkFinished.
BenchmarkFinished(queue) ==
  /\ status' = [status EXCEPT !.cancelled = @ \/ interrupt]
  /\ popup' = IF interrupt THEN "none" ELSE popup
  /\ page' = "start"
  /\ posted' = Append(queue, [call |-> "show", status |-> status'])
  /\ UNCHANGED ready

\* OnClearCacheFinished
ClearCacheFinished(queue) ==
  /\ popup' = "none"
  /\ posted' = queue
  /\ UNCHANGED <<page, ready, status>>

Finished(of, queue) ==
  \/ of = "enumerate" /\ EnumerationFinished(queue)
  \/ of \in OfRun /\ BenchmarkFinished(queue)
  \/ of = "clear" /\ ClearCacheFinished(queue)

Crash ==
  /\ gui' = "crashed"
  /\ posted' = <<>> /\ dialog' = "none"
  /\ held' = FALSE /\ alive' = FALSE /\ at' = "end"
  /\ UNCHANGED <<page, ready, popup, told, ask, meddled, threads, kind, config, collected,
                 interrupt, status>>

\* The lambda deletes the thread benchmark_thread_ holds, and forgets it.
DeliverFinished ==
  /\ Delivered("finished")
  /\ held /\ Head(posted).thread = threads
  /\ held' = FALSE
  /\ Finished(Head(posted).of, Tail(posted))
  /\ UNCHANGED <<gui, dialog, told, ask, meddled, interrupt,
                 threads, kind, alive, at, config, collected>>

\* An older thread's lambda has the newer thread's object deleted.
DeliverStaleFinished ==
  /\ Delivered("finished")
  /\ held /\ Head(posted).thread # threads
  /\ held' = FALSE
  /\ Finished(Head(posted).of, Append(Tail(posted), [call |-> "delete"]))
  /\ UNCHANGED <<gui, dialog, told, ask, meddled, interrupt,
                 threads, kind, alive, at, config, collected>>

\* Of a null pointer, the library says a word or the program crashes.
DeliverFinishedOfNone ==
  /\ Delivered("finished") /\ ~held
  /\ \/ /\ Finished(Head(posted).of, Tail(posted))
        /\ UNCHANGED <<gui, dialog, told, ask, meddled, interrupt, threadVars>>
     \/ Crash

\* A queue the call of thread n's finished signal has been taken from.
Without(queue, n) ==
  LET own == {i \in DOMAIN queue : queue[i].call = "finished" /\ queue[i].thread = n}
  IN  IF own = {} THEN queue ELSE RemoveAt(queue, CHOOSE i \in own : TRUE)

\* The object of a thread that runs must not be deleted: the program is aborted.
\* With the object of another one goes the call of its finished signal.
DeliverDelete ==
  /\ Delivered("delete")
  /\ \/ alive /\ Crash
     \/ /\ ~alive
        /\ posted' = Without(Tail(posted), threads)
        /\ UNCHANGED <<gui, page, ready, popup, dialog, told, ask, meddled, threadVars,
                       interrupt, status>>

\* A call the thread awaits is made and returns.
DeliverSync ==
  /\ Delivered("sync")
  /\ posted' = Tail(posted)
  /\ at' = IF at = "sync1" THEN "sweep"
           ELSE IF collected THEN "sized" ELSE "end"
  /\ UNCHANGED <<gui, page, ready, popup, dialog, told, ask, meddled, interrupt,
                 threads, held, kind, alive, config, collected, status>>

\* RequestDownload runs a loop of its own until the user answers.
DeliverAsk ==
  /\ Delivered("ask")
  /\ posted' = Tail(posted)
  /\ dialog' = "question"
  /\ UNCHANGED <<gui, page, ready, popup, told, ask, meddled, interrupt, threadVars, status>>

DeliverShow ==
  /\ Delivered("show")
  /\ posted' = Tail(posted)
  /\ dialog' = "status"
  /\ told' = Head(posted).status
  /\ UNCHANGED <<gui, page, ready, popup, ask, meddled, interrupt, threadVars, status>>

-----------------------------------------------------------------------------
(* The thread's functions                                                  *)

guiButPosted == <<gui, page, ready, popup, dialog, told, ask, meddled>>
Worker == alive /\ gui # "crashed"

Goto(place) == at' = place

\* The thread begins: a run with the sweep, if the user is to be asked.
Begin ==
  /\ Worker /\ at = "start"
  /\ \/ /\ kind = "enumerate" /\ Goto("sizing")
        /\ status' = [status EXCEPT !.success = TRUE]
        /\ UNCHANGED posted
     \/ /\ kind = "clear" /\ Goto("clearing")
        /\ UNCHANGED <<posted, status>>
     \/ /\ kind \in OfRun /\ ask
        /\ Goto("sync1") /\ Post([call |-> "sync"])
        /\ UNCHANGED status
     \/ /\ kind \in OfRun /\ ~ask
        /\ Goto("next")
        /\ status' = [status EXCEPT !.success = TRUE]
        /\ UNCHANGED posted
  /\ UNCHANGED <<guiButPosted, interrupt, threads, held, kind, alive, config, collected>>

\* CollectRemoteSizesWorker: a configuration's sizes, or the end of its loop,
\* which an interrupt or a failure brings before the last one.
SweepConfig ==
  /\ Worker /\ at = "sweep"
  /\ \/ /\ config <= C /\ ~interrupt
        /\ config' = config + 1
        /\ UNCHANGED <<at, posted, collected>>
     \/ /\ collected' = (config > C)
        /\ Goto("sync2") /\ Post([call |-> "sync"])
        /\ UNCHANGED config
  /\ UNCHANGED <<guiButPosted, interrupt, threads, held, kind, alive, status>>

\* Nothing to download, or the user is asked.
Sized ==
  /\ Worker /\ at = "sized"
  /\ \/ /\ Goto("next")
        /\ status' = [status EXCEPT !.success = TRUE]
        /\ UNCHANGED posted
     \/ /\ Goto("question") /\ Post([call |-> "ask"])
        /\ UNCHANGED status
  /\ config' = 1
  /\ UNCHANGED <<guiButPosted, interrupt, threads, held, kind, alive, collected>>

\* Variant: one turn too many.
NextConfig_OneMore ==
  /\ Worker /\ at = "next"
  /\ Goto(IF interrupt \/ config > C + 1 THEN "end" ELSE "Download")
  /\ UNCHANGED <<guiVars, interrupt, threads, held, kind, alive, config, collected, status>>

\* The head of BenchmarkWorker's loop.
NextConfig ==
  /\ Worker /\ at = "next"
  /\ Goto(IF interrupt \/ config > C THEN "end" ELSE "Download")
  /\ UNCHANGED <<guiVars, interrupt, threads, held, kind, alive, config, collected, status>>

\* Variant: the status says how the last configuration went.
EndConfig_Last(good) ==
  status' = [status EXCEPT !.done = Append(@, good), !.success = good]

\* The end of one configuration's turn in BenchmarkWorker's loop.
EndConfig(good) ==
  status' = [status EXCEPT !.done = Append(@, good), !.success = @ /\ good]

Following(stage) ==
  CASE stage = "Download" -> "Preparation"
    [] stage = "Preparation" -> "DataVerification"
    [] stage = "DataVerification" -> "Benchmark"

\* A stage ends and the next is entered; a verification that fails is not the
\* end of the configuration.
StagePasses ==
  /\ Worker /\ at \in Stage \ {"Benchmark"}
  /\ kind = "run"
  /\ Goto(Following(at))
  /\ UNCHANGED <<guiVars, interrupt, threads, held, kind, alive, config, collected, status>>

\* The configuration ends: at its last stage, at one that failed or threw, or
\* at the first when only dependencies are wanted.  The last stage leaves a
\* result, which may not be a success.
ConfigEnds ==
  /\ Worker /\ at \in Stage
  /\ \E good \in BOOLEAN :
       /\ good => at = IF kind = "run" THEN "Benchmark" ELSE "Download"
       /\ EndConfig(good)
  /\ config' = config + 1
  /\ Goto("next")
  /\ UNCHANGED <<guiVars, interrupt, threads, held, kind, alive, collected>>

\* EnumerateDevicesWorker: its loops over the configurations pass one, or end;
\* a full disk ends it after the first, and a failure does not end a loop.
EnumerateConfig ==
  /\ Worker /\ at \in Enumeration
  /\ config <= C /\ ~interrupt
  /\ config' = config + 1
  /\ \/ UNCHANGED status
     \/ at # "sizing" /\ status' = [status EXCEPT !.success = FALSE]
  /\ UNCHANGED <<guiVars, interrupt, threads, held, kind, alive, at, collected>>

\* Variant: an enumeration with a failure is tried again.
EndEnumerationLoop_Retries ==
  /\ Worker /\ at \in Enumeration
  /\ interrupt \/ config > C
  /\ config' = 1
  /\ \/ at = "sizing" /\ Goto("fetching") /\ UNCHANGED status
     \/ at = "fetching" /\ Goto("listing") /\ UNCHANGED status
     \/ at = "listing" /\ Goto(IF status.success THEN "end" ELSE "sizing") /\ UNCHANGED status
  /\ UNCHANGED <<guiVars, interrupt, threads, held, kind, alive, collected>>

EndEnumerationLoop ==
  /\ Worker /\ at \in Enumeration
  /\ interrupt \/ config > C
  /\ config' = 1
  /\ \/ at = "sizing" /\ Goto("fetching") /\ UNCHANGED status
     \/ at = "sizing" /\ Goto("listing") /\ UNCHANGED status
     \/ at = "sizing" /\ Goto("end") /\ status' = [status EXCEPT !.success = FALSE]
     \/ at = "fetching" /\ Goto("listing") /\ UNCHANGED status
     \/ at = "listing" /\ Goto("end") /\ UNCHANGED status
  /\ UNCHANGED <<guiVars, interrupt, threads, held, kind, alive, collected>>

\* ClearCache's function; its errors are only logged.
ClearCache ==
  /\ Worker /\ at = "clearing"
  /\ Goto("end")
  /\ UNCHANGED <<guiVars, interrupt, threads, held, kind, alive, config, collected, status>>

-----------------------------------------------------------------------------
User ==
  \/ ClickStart \/ ClickCancel \/ ClickClearCache \/ Quit
  \/ ClosePopup \/ AnswerQuestion \/ CloseStatus

Deliver ==
  \/ DeliverFinished \/ DeliverStaleFinished \/ DeliverFinishedOfNone \/ DeliverDelete
  \/ DeliverSync \/ DeliverAsk \/ DeliverShow

AfterWait == StartRun \/ StartClearCache \/ Exit

Work ==
  \/ Begin \/ SweepConfig \/ Sized
  \/ NextConfig \/ StagePasses \/ ConfigEnds
  \/ EnumerateConfig \/ EndEnumerationLoop
  \/ ClearCache \/ EndThread

\* The program has ended.
Exited == gui \in {"exited", "crashed"} /\ UNCHANGED vars

Next == User \/ Deliver \/ AfterWait \/ Work \/ Exited

Spec == Init /\ [][Next]_vars

\* The event loop turns, both threads are scheduled, a stage ends, and the
\* user answers the question a run waits on.
FairSpec ==
  /\ Spec
  /\ WF_vars(Deliver)
  /\ WF_vars(AfterWait)
  /\ WF_vars(Work)
  /\ WF_vars(AnswerQuestion)

-----------------------------------------------------------------------------
TypeOK ==
  /\ gui \in {"loop", "clear", "quit", "exited", "crashed"} \cup OfRun
  /\ posted \in Seq(Calls)
  /\ page \in {"start", "realtime"}
  /\ ready \in BOOLEAN
  /\ popup \in {"none", "canceling", "clearing", "message"}
  /\ dialog \in {"none", "question", "status"}
  /\ told \in Statuses
  /\ ask \in BOOLEAN /\ meddled \in BOOLEAN /\ interrupt \in BOOLEAN
  /\ threads \in 1 .. MaxThreads
  /\ held \in BOOLEAN /\ alive \in BOOLEAN /\ collected \in BOOLEAN
  /\ kind \in Kind
  /\ at \in Place
  /\ config \in 1 .. C + 1
  /\ status \in Statuses

\* Unless the user cleared the cache before an enumeration was known to have
\* ended, or closed the popup of a clearing before that was, which the windows
\* allow: a posted finished call finds its own thread in benchmark_thread_, that
\* thread has ended, no second one is made while the call is on its way, and the
\* program neither deletes a thread that runs nor goes through a null pointer.
NoThreadLost ==
  ~meddled =>
    /\ gui # "crashed"
    /\ \A i \in DOMAIN posted :
         /\ posted[i].call = "finished" => held /\ ~alive /\ posted[i].thread = threads
         /\ posted[i].call # "delete"

\* What the user is told: a run that succeeded has been through every
\* configuration, and each was a success.
SuccessIsWhole ==
  Succeeded(told) => told.done = [i \in 1 .. C |-> TRUE]

-----------------------------------------------------------------------------
(* The inductive invariant behind the two, for every C and MaxThreads.    *)

IsFinished(i) == posted[i].call = "finished"

\* While there is a thread the user is kept from making another, by the page,
\* the popup, or a start page without providers.
SessionInv ==
  /\ NoThreadLost
  /\ ~meddled =>
       /\ alive => held
       /\ held /\ kind = "enumerate" => ~ready
       /\ held /\ kind = "clear" => popup = "clearing"
       /\ held /\ kind \in OfRun => page = "realtime"
       /\ gui \in OfRun \cup {"clear"} => ~held

\* Whatever the user does, no thread is made before the last has ended, and none
\* beside that of a run.
ThreadInv ==
  /\ alive => held \/ \E i \in DOMAIN posted : posted[i].call = "delete"
  /\ \A i, j \in DOMAIN posted :
       IsFinished(i) /\ IsFinished(j) /\ posted[i].thread = posted[j].thread => i = j
  /\ \A i \in DOMAIN posted : IsFinished(i) =>
       /\ posted[i].thread <= threads
       /\ posted[i].thread = threads => ~alive /\ posted[i].of = kind
       /\ posted[i].of \in OfRun => posted[i].thread = threads /\ page = "realtime"
  /\ page = "realtime" => kind \in OfRun
  /\ alive /\ kind \in OfRun => page = "realtime"
  /\ gui \in OfRun \cup {"clear"} =>
       page = "start" /\ \A i \in DOMAIN posted : posted[i].call # "delete"

\* The thread awaits one call at a time, and only a run awaits any or is in a
\* stage.
Awaits(i) == posted[i].call \in {"sync", "ask"}

PlaceInv ==
  /\ \A i, j \in DOMAIN posted : Awaits(i) /\ Awaits(j) => i = j
  /\ \A i \in DOMAIN posted : Awaits(i) =>
       /\ alive /\ dialog # "question"
       /\ posted[i].call = "sync" => at \in {"sync1", "sync2"}
       /\ posted[i].call = "ask" => at = "question"
  /\ dialog = "question" => alive /\ at = "question"
  /\ at \in {"next"} \cup Stage \cup (Sweep \ {"start"}) => kind \in OfRun
  /\ at \in Enumeration => kind = "enumerate"
  /\ at = "clearing" => kind = "clear"
  /\ at \in Stage => config <= C
  /\ ~alive => at = "end"

\* What a status says of the configurations done, when the loop over them is
\* left and until the user is told.
Whole(s) == Succeeded(s) => s.done = [i \in 1 .. C |-> TRUE]

StatusInv ==
  /\ Whole(told)
  /\ \A i \in DOMAIN posted : posted[i].call = "show" => Whole(posted[i].status)
  /\ status.success => \A i \in DOMAIN status.done : status.done[i]
  /\ kind = "enumerate" => status.done = <<>>
  /\ page = "realtime" /\ gui # "crashed" =>
       /\ at \in Sweep => status.done = <<>> /\ ~status.success
       /\ at \in {"start", "question"} => config = 1
       /\ at \in {"next"} \cup Stage => Len(status.done) = config - 1
       /\ at = "end" => interrupt \/ Whole(status)

IInv == TypeOK /\ SessionInv /\ ThreadInv /\ PlaceInv /\ StatusInv

\* The GUI thread's waits end, and so does a thread that was told to stop.
StopReturns == (Waiting ~> ~Waiting) /\ (interrupt /\ alive ~> ~alive)

=============================================================================

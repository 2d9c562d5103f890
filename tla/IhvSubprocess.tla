----------------------------- MODULE IhvSubprocess -----------------------------
(***************************************************************************)
(* A plugin run in a process of its own (CIL/api_handler_ipc*.cpp and the  *)
(* subprocess branches of CIL/api_handler.cpp).  The caller's API_Handler  *)
(* drives a Server: commands go down one socket, tokens and results come   *)
(* back on a second, logs on a third that a thread of the Server empties.  *)
(* The Client in the child reads one command at a time and makes the call  *)
(* on a local API_Handler.                                                 *)
(*                                                                         *)
(* plugin is the plugin as the child drives it; view is the same plugin as *)
(* the caller believes it to be from the answers it was given.  Messages   *)
(* carry the number of the command they belong to: the code's do not, so   *)
(* no guard looks at it.  platform is the transport the program was built   *)
(* with: Unix sockets, or named pipes, whose ends the child inherits.       *)
(***************************************************************************)
EXTENDS Integers, Sequences, PluginSession

CONSTANTS
  MaxCalls,     \* commands sent in a session
  MaxTokens,    \* tokens an inference sends before its result
  LogRoom,      \* log messages the log socket holds
  MaxTimeouts   \* answers that come after the caller gave up on them

ASSUME SubprocessAssumption ==
  /\ MaxCalls \in Nat \ {0} /\ MaxTokens \in Nat /\ MaxTimeouts \in Nat
  /\ LogRoom \in Nat \ {0}

VARIABLES
  view,      \* the plugin, as far as the caller can tell
  at,        \* where the caller is
  call,      \* the command it sent last
  asked,     \* how many it sent
  given,     \* the number of the command whose answer it took last
  foreign,   \* a token was handed to the callback of another inference
  late,      \* answers the caller did not wait for
  cmds,      \* the command socket
  resp,      \* the response socket
  logs,      \* messages in the log socket
  reader,    \* the Server's LogReaderThread
  child,     \* the subprocess
  doing,     \* the command the child is at
  logOpen,   \* the child's log_fd is not closed
  killed,    \* the child was killed, or its plugin took it down
  parent,    \* the caller's process lives
  platform   \* posix or windows

View == INSTANCE PluginSession WITH plugin <- view

callerVars == <<view, at, call, asked, given, foreign, late>>
childVars == <<plugin, child, doing, logOpen, killed>>
world == <<parent, platform>>
vars == <<callerVars, childVars, cmds, resp, logs, reader, world>>

Call ==
  {"probe", "setup", "enumerate", "init", "prepare", "infer", "reset", "deinit",
   "release", "shutdown"}

Platform == {"posix", "windows"}

Message == [type : {"token", "result"}, of : 1 .. MaxCalls, good : BOOLEAN]
Command == [kind : Call, of : 1 .. MaxCalls]
NoCommand == [kind |-> "none", of |-> 0]

TypeOK ==
  /\ plugin \in PluginState /\ view \in PluginState
  /\ at \in {"start", "idle", "waiting", "stopping", "grace", "term",
             "stopped", "failed"}
  /\ call \in Call \cup {"none"}
  /\ asked \in 0 .. MaxCalls
  /\ given \in 0 .. MaxCalls
  /\ foreign \in BOOLEAN
  /\ late \in 0 .. MaxTimeouts
  /\ cmds \in Seq(Command)
  /\ resp \in Seq(Message)
  /\ logs \in 0 .. LogRoom
  /\ reader \in {"off", "polling", "told", "ended"}
  /\ child \in {"none", "starting", "reading", "calling", "logging", "leaving",
                "hung", "gone"}
  /\ doing \in Command \cup {NoCommand}
  /\ logOpen \in BOOLEAN /\ killed \in BOOLEAN
  /\ parent \in BOOLEAN /\ platform \in Platform

Init ==
  /\ PluginInit /\ view = "none"
  /\ at = "start" /\ call = "none" /\ asked = 0 /\ given = 0 /\ foreign = FALSE
  /\ late = 0
  /\ cmds = <<>> /\ resp = <<>> /\ logs = 0
  /\ reader = "off"
  /\ child = "none" /\ doing = NoCommand /\ logOpen = TRUE /\ killed = FALSE
  /\ parent = TRUE /\ platform \in Platform

IsRunning == child \notin {"none", "gone"}

-----------------------------------------------------------------------------
(* The caller.                                                             *)

\* The channels or the process cannot be made; what was made is closed again.
StartFails ==
  /\ parent /\ at = "start"
  /\ at' = "failed"
  /\ UNCHANGED <<view, call, asked, given, foreign, late, childVars, cmds, resp, logs,
                 reader, world>>

\* Sockets are connected as they are made; a child that cannot take over its
\* descriptors exits at once.
PosixChild == {"reading", "gone"}

\* A wait for the child's end of a pipe that times out counts as connected.
WindowsChild == {"starting", "reading", "gone"}

\* Start: the channels, the process, the log thread.
StartServer ==
  /\ parent /\ at = "start"
  /\ at' = "idle"
  /\ reader' = "polling"
  /\ child' \in IF platform = "posix" THEN PosixChild ELSE WindowsChild
  /\ UNCHANGED <<view, call, asked, given, foreign, late, plugin, doing, logOpen, killed,
                 cmds, resp, logs, world>>

\* Connect of a child that was slow: it opens the three pipes, or exits.
Connect ==
  /\ child = "starting"
  /\ child' \in {"reading", "gone"}
  /\ UNCHANGED <<callerVars, plugin, doing, logOpen, killed, cmds, resp, logs, reader, world>>

\* CanBeLoaded has a Server to itself and asks it to shut down.
Probing(kind) ==
  \/ kind = "probe" /\ call = "none"
  \/ kind = "shutdown" /\ call = "probe"

\* So has a list of devices: a plugin is set up for it and left to the destructor.
Listing(kind) == kind = "enumerate" /\ call = "setup" /\ view = "idle"

\* The calls a caller that believes view makes, in the order of IHV.h.
InOrder ==
  {kind \in Call :
     \/ Probing(kind) \/ Listing(kind)
     \/ /\ call \notin {"probe", "shutdown", "enumerate"}
        /\ \/ kind = "setup" /\ call = "none"
           \/ kind = "init" /\ view = "idle"
           \/ kind = "prepare" /\ view = "loaded"
           \/ kind = "infer" /\ view = "prepared"
           \/ kind = "reset" /\ view = "ran"
           \/ kind = "deinit" /\ view \in {"loaded", "broken", "prepared", "ran"}
           \/ kind = "release" /\ view \notin Released \cup {"none", "misused"}}

\* What the caller takes an answer to its call for.
Believe(kind, good) == View!Perform(kind, good)

\* WriteMessage: a pipe the child has not opened yet refuses the command, a full
\* one would hold it back.
CanWrite == IsRunning /\ child # "starting"

\* SendMessage and SendInferCommand up to the write: a child that is gone fails
\* the call.
Send ==
  /\ parent /\ at = "idle" /\ asked < MaxCalls
  /\ \E kind \in InOrder :
       /\ call' = kind
       /\ \/ /\ CanWrite
             /\ asked' = asked + 1
             /\ cmds' = Append(cmds, [kind |-> kind, of |-> asked + 1])
             /\ at' = "waiting"
             /\ UNCHANGED view
          \/ /\ ~CanWrite
             /\ Believe(kind, FALSE)
             /\ UNCHANGED <<asked, cmds, at>>
  /\ UNCHANGED <<given, foreign, late, childVars, resp, logs, reader, world>>

\* Variant: an inference takes the first message for its answer.
IsAnswer_First(m) == TRUE

\* What ends the wait: any message for a simple command, a result for an inference.
IsAnswer(m) == call # "infer" \/ m.type = "result"

\* ReadMessage returns a message.  A token is no success for a simple command.
Take ==
  /\ parent /\ at = "waiting" /\ resp # <<>>
  /\ LET m == Head(resp)
     IN /\ resp' = Tail(resp)
        /\ \/ /\ IsAnswer(m)
              /\ given' = m.of
              /\ Believe(call, m.type = "result" /\ m.good)
              /\ at' = "idle"
              /\ UNCHANGED foreign
           \/ /\ ~IsAnswer(m)
              /\ foreign' = (foreign \/ m.of # asked)
              /\ UNCHANGED <<given, view, at>>
  /\ UNCHANGED <<call, asked, late, childVars, cmds, logs, reader, world>>

\* Variant: only a simple command notices that the child is gone.
NoneLeft_Simple == resp = <<>> /\ ~IsRunning /\ call # "infer"

\* The socket is empty and its other end closed.
NoneLeft == resp = <<>> /\ ~IsRunning

\* "No response from subprocess", or "Subprocess crashed".
TakeEnd ==
  /\ parent /\ at = "waiting" /\ NoneLeft
  /\ Believe(call, FALSE)
  /\ at' = "idle"
  /\ UNCHANGED <<call, asked, given, foreign, late, childVars, cmds, resp, logs, reader,
                 world>>

\* After kIPCTimeoutLong without a message: from a child that hangs, or from one
\* that will answer all the same.
GivesUp == resp = <<>> /\ child \in {"calling", "logging", "hung"}

\* A command is given up; an inference is awaited again as long as the child runs.
Timeout ==
  /\ parent /\ at = "waiting" /\ GivesUp /\ call # "infer"
  /\ \/ child = "hung" /\ UNCHANGED late
     \/ child # "hung" /\ late < MaxTimeouts /\ late' = late + 1
  /\ Believe(call, FALSE)
  /\ at' = "idle"
  /\ UNCHANGED <<call, asked, given, foreign, childVars, cmds, resp, logs, reader, world>>

\* Stop, at the latest from ~API_Handler: the log thread is told to end,
Stop ==
  /\ parent /\ at = "idle"
  /\ at' = "stopping"
  /\ reader' = "told"
  /\ UNCHANGED <<view, call, asked, given, foreign, late, childVars, cmds, resp, logs,
                 world>>

\* Variant: the log thread is not waited for.
Joined_Not == TRUE

Joined == reader = "ended"

\* joined, and kShutdown written, which a dead child makes fail,
JoinAndShutdown ==
  /\ parent /\ at = "stopping" /\ Joined
  /\ at' = "grace"
  /\ cmds' = IF CanWrite THEN Append(cmds, [kind |-> "shutdown", of |-> MaxCalls]) ELSE cmds
  /\ UNCHANGED <<view, call, asked, given, foreign, late, childVars, resp, logs, reader,
                 world>>

\* Variant: nothing follows the grace period.
Kill_Never == FALSE

\* the child is killed after SIGTERM's two seconds, on Windows after the first wait.
Kill == IF platform = "posix" THEN at = "term" ELSE at = "grace"

\* and StopProcess waits: five seconds, SIGTERM, two seconds, SIGKILL;
\* or a minute and TerminateProcess.
StopProcess ==
  /\ parent
  /\ \/ /\ at \in {"grace", "term"} /\ ~IsRunning
        /\ at' = "stopped"
        /\ UNCHANGED childVars
     \/ /\ at = "grace" /\ IsRunning /\ platform = "posix"
        /\ at' = "term"
        /\ UNCHANGED childVars
     \/ /\ Kill /\ IsRunning
        /\ child' = "gone" /\ doing' = NoCommand /\ killed' = TRUE
        /\ UNCHANGED <<at, plugin, logOpen>>
  /\ UNCHANGED <<view, call, asked, given, foreign, late, cmds, resp, logs, reader, world>>

\* The caller's process dies: the sockets close, the child lives on.
ParentDies ==
  /\ parent /\ at \notin {"start", "failed", "stopped"}
  /\ parent' = FALSE
  /\ reader' = "ended"
  /\ UNCHANGED <<callerVars, childVars, cmds, resp, logs, platform>>

\* A message is taken when its header can be peeked at and all of it is there.
MessageThere == logs > 0

\* LogReaderThread: takes what is there, looks at the flag between messages.
ReadLog ==
  /\ parent /\ reader = "polling" /\ MessageThere
  /\ logs' = logs - 1
  /\ UNCHANGED <<callerVars, childVars, cmds, resp, reader, world>>

EndReader ==
  /\ parent /\ reader = "told"
  /\ reader' = "ended"
  /\ UNCHANGED <<callerVars, childVars, cmds, resp, logs, world>>

-----------------------------------------------------------------------------
(* The child.                                                              *)

\* Variant: a socket that is closed is read again.
NothingComes_Again == cmds = <<>> /\ parent /\ at \in {"idle", "stopping"}

\* No command for kIPCTimeoutLong, or a closed socket.
NothingComes == cmds = <<>> /\ (~parent \/ at \in {"idle", "stopping"})

\* ProcessCommands: the next command, or the end of the loop.
ReadCommand ==
  /\ child = "reading"
  /\ \/ /\ cmds # <<>>
        /\ doing' = Head(cmds)
        /\ cmds' = Tail(cmds)
        /\ child' = "calling"
     \/ /\ NothingComes
        /\ child' = "leaving"
        /\ UNCHANGED <<cmds, doing>>
  /\ UNCHANGED <<callerVars, plugin, logOpen, killed, resp, logs, reader, world>>

\* The plugin has something to say in the middle of a call.
BeginLog ==
  /\ child = "calling" /\ logOpen /\ doing.kind # "shutdown"
  /\ child' = "logging"
  /\ UNCHANGED <<callerVars, plugin, doing, logOpen, killed, cmds, resp, logs, reader, world>>

\* Variant: what does not fit is sent all the same.
HasRoom_Always == TRUE

HasRoom == logs < LogRoom

\* WriteBounded waits for room, and the channel is closed after kIPCTimeoutLong:
\* a partial message would be taken for the next one's header.  A dead parent's
\* socket fails at once.
GivesUpLog == platform = "posix" /\ (~HasRoom \/ ~parent)

\* The pipe is not open for overlapped writes: the child waits for room without a
\* bound, and a dead parent does not break a pipe of which it has both ends itself.
LogFits == HasRoom /\ (platform = "posix" => parent)

WriteLog ==
  /\ child = "logging"
  /\ \/ LogFits /\ logs' = logs + 1 /\ UNCHANGED logOpen
     \/ GivesUpLog /\ logOpen' = FALSE /\ UNCHANGED logs
  /\ child' = "calling"
  /\ UNCHANGED <<callerVars, plugin, doing, killed, cmds, resp, reader, world>>

\* A token of an inference goes out while the plugin runs.
SendToken ==
  /\ child = "calling" /\ doing.kind = "infer" /\ plugin = "prepared"
  /\ Len(resp) < MaxTokens
  /\ resp' = IF parent THEN Append(resp, [type |-> "token", of |-> doing.of, good |-> TRUE])
                       ELSE resp
  /\ UNCHANGED <<callerVars, childVars, cmds, logs, reader, world>>

\* Variant: a call on a handler that failed is made anyway.
CallPlugin_Skips(kind, good) ==
  IF kind = "deinit" THEN UNCHANGED plugin ELSE Perform(kind, good)

\* HandleMessage: the call on the local handler.
CallPlugin(kind, good) == Perform(kind, good)

\* checkHandler: a call without a handler is only answered.
HasHandler(kind) == kind \in {"probe", "setup", "shutdown"} \/ plugin # "none"

\* The call returns, well or not; a model that did not load cannot be prepared.
Handle ==
  /\ child = "calling"
  /\ \E good \in BOOLEAN :
       /\ ~HasHandler(doing.kind) => ~good
       /\ doing.kind = "shutdown" => good
       /\ doing.kind = "prepare" /\ plugin = "broken" => ~good
       /\ IF HasHandler(doing.kind) THEN CallPlugin(doing.kind, good) ELSE UNCHANGED plugin
       /\ resp' = IF parent THEN Append(resp, [type |-> "result", of |-> doing.of, good |-> good])
                            ELSE resp
  /\ child' = IF doing.kind = "shutdown" THEN "leaving" ELSE "reading"
  /\ doing' = NoCommand
  /\ UNCHANGED <<callerVars, logOpen, killed, cmds, logs, reader, world>>

\* Variant: the handler is not reset on the way out.
ResetHandler_Not == UNCHANGED plugin

\* local_handler_.reset(): a plugin that is set up is released.
ResetHandler == IF plugin \in Released \cup {"none"} THEN UNCHANGED plugin ELSE Release

Leave ==
  /\ child = "leaving"
  /\ ResetHandler
  /\ child' = "gone"
  /\ UNCHANGED <<callerVars, doing, logOpen, killed, cmds, resp, logs, reader, world>>

\* The plugin takes its process down, or never returns.
Crash ==
  /\ child \in {"calling", "logging", "leaving"}
  /\ child' = "gone" /\ doing' = NoCommand /\ killed' = TRUE
  /\ UNCHANGED <<callerVars, plugin, logOpen, cmds, resp, logs, reader, world>>

Hang ==
  /\ \/ child = "calling" /\ doing.kind # "shutdown"
     \/ child = "leaving" /\ plugin \notin Released \cup {"none"}
  /\ child' = "hung"
  /\ UNCHANGED <<callerVars, plugin, doing, logOpen, killed, cmds, resp, logs, reader, world>>

-----------------------------------------------------------------------------

Caller ==
  StartFails \/ StartServer \/ Send \/ Take \/ TakeEnd \/ Timeout \/ Stop \/ JoinAndShutdown \/ StopProcess

Reader == ReadLog \/ EndReader

Client == Connect \/ ReadCommand \/ WriteLog \/ Leave

Done ==
  /\ at \in {"stopped", "failed"} \/ ~parent
  /\ UNCHANGED vars

Next ==
  \/ Caller \/ Reader \/ Client \/ Handle \/ BeginLog \/ SendToken
  \/ Crash \/ Hang \/ ParentDies \/ Done

Spec == Init /\ [][Next]_vars

\* The caller goes on whenever it can, timeouts included, and so does the log
\* thread; the child goes on unless the plugin hangs or takes it down, and a call
\* that does neither returns, whatever it logs on the way.
FairSpec ==
  /\ Spec
  /\ WF_vars(Caller) /\ WF_vars(Reader) /\ WF_vars(Client)
  /\ SF_vars(Handle)

-----------------------------------------------------------------------------
(* Properties.                                                             *)

\* As long as no command timed out, an answer belongs to the command it is taken
\* for and a token to the inference whose callback gets it: messages carry no
\* number, so it is the order of reads alone that keeps them together.
AnswersMatch ==
  /\ given <= asked
  /\ late = 0 => /\ at = "idle" /\ IsRunning /\ child # "hung" => given = asked
                 /\ ~foreign

\* As long as no command timed out, what the caller believes of the plugin is true
\* whenever the child waits for the next command: running the plugin in a process
\* of its own changes nothing for a caller that keeps the order of calls.
ViewIsTrue ==
  late = 0 /\ at = "idle" /\ child = "reading" => view = plugin

\* The caller sees the plugin it would see in its own process.
CallerSeesPlugin == AnswersMatch /\ ViewIsTrue

\* A child that leaves by itself, told to shut down, left alone for too long or
\* with its parent dead, has released a plugin it had set up.
LeavesReleased ==
  child = "gone" /\ ~killed => plugin \in Released \cup {"none", "misused"}

\* Stop returns with the child gone, whatever the plugin is doing.
StopEndsChild == at = "stopped" => child = "gone" /\ reader = "ended"

\* The child ends with its plugin released or by being killed, and before Stop does.
EndsClean == StopEndsChild /\ LeavesReleased

\* Stop gets to its end, whether the child obeys, hangs or is long gone.
StopReturns == at = "stopping" /\ parent ~> at = "stopped" \/ ~parent

\* A command is answered, fails or times out; only an inference in a child that
\* hangs is awaited for ever.
CallEnds ==
  at = "waiting" ~> \/ at # "waiting" \/ ~parent
                    \/ call = "infer" /\ child = "hung"

\* A child whose parent died ends, unless its plugin hangs, or, on Windows, it has
\* a message for a log pipe that nobody empties any more.
OrphanEnds ==
  ~parent ~> \/ child \in {"gone", "hung"}
             \/ platform = "windows" /\ child = "logging" /\ logs = LogRoom

\* Nobody waits for ever: not Stop, not a command, not an orphan.
NobodyWaits == StopReturns /\ CallEnds /\ OrphanEnds

=============================================================================

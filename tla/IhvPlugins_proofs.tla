-------------------------- MODULE IhvPlugins_proofs --------------------------
(***************************************************************************)
(* Theorems about IHV plugins, behind the client's interface to them.      *)
(* IhvSubprocess, for any number of commands, tokens and timeouts and any  *)
(* room in the log channel: types, that the caller sees the plugin it      *)
(* would see in its own process, and that the child ends with its plugin   *)
(* released.  Plugins, for any hardware, catalog, models, requests and     *)
(* layers, any answers of the vendors' runtimes and any number of          *)
(* sessions: types, and what a client may count on in a session.  The two  *)
(* machines share the calls of PluginSession.                              *)
(***************************************************************************)
EXTENDS IhvSubprocess, Plugins, SequenceTheorems, WellFoundedInduction, TLAPS

\* What a call makes of a plugin: Perform as a function.
After(kind, good, p) ==
  CASE kind = "setup" -> IF p = "none" THEN (IF good THEN "idle" ELSE "none") ELSE "misused"
    [] kind = "enumerate" -> IF p = "idle" THEN "idle" ELSE "misused"
    [] kind = "init" -> IF p = "idle" THEN (IF good THEN "loaded" ELSE "broken") ELSE "misused"
    [] kind = "prepare" ->
         IF p \in {"loaded", "broken"}
         THEN (IF good /\ p = "loaded" THEN "prepared" ELSE "broken") ELSE "misused"
    [] kind = "infer" -> IF p = "prepared" THEN "ran" ELSE "misused"
    [] kind = "reset" -> IF p = "ran" THEN (IF good THEN "loaded" ELSE "broken") ELSE "misused"
    [] kind = "deinit" ->
         IF p \in {"loaded", "broken", "prepared", "ran"} THEN "idle" ELSE "misused"
    [] kind = "release" ->
         IF p \in PluginState \ (Released \cup {"misused"})
         THEN (IF p \in {"loaded", "prepared", "ran"} THEN "leaked" ELSE "released") ELSE "misused"
    [] OTHER -> p

-----------------------------------------------------------------------------
(* IhvSubprocess: the inductive invariant.                                 *)

\* Before Start there is nothing, and a child that has not connected has been
\* sent nothing.
StartInv ==
  /\ at \in {"start", "failed"} => child = "none"
  /\ child = "none" => at \in {"start", "failed"}
  /\ child \in {"none", "starting"} =>
       /\ at # "waiting" /\ late = 0 /\ ~foreign
       /\ cmds = <<>> /\ resp = <<>>
       /\ plugin = "none" /\ view = "none"
       /\ asked = 0 /\ given = 0

\* The child is at a command exactly inside a call.
ChildInv ==
  /\ child \in {"none", "starting", "reading", "leaving"} => doing = NoCommand
  /\ child \in {"calling", "logging"} => doing \in Command

\* Numbers of commands are those of commands that were sent.
NumberInv ==
  /\ given <= asked
  /\ at \in {"start", "idle", "waiting"} =>
       /\ \A i \in 1 .. Len(cmds) : cmds[i].of <= asked
       /\ \A i \in 1 .. Len(resp) : resp[i].of <= asked
       /\ doing.of <= asked

\* What is in the response channel belongs to the command that is awaited: tokens
\* of an inference, and at most one result, which comes last.
ResponseInv ==
  /\ ~foreign
  /\ at = "idle" => resp = <<>>
  /\ at = "waiting" =>
       /\ call \in Call
       /\ view = "none" => call \in {"probe", "setup", "shutdown"}
       /\ call # "infer" => Len(resp) <= 1
       /\ \A i \in 1 .. Len(resp) :
            /\ resp[i].of = asked
            /\ resp[i].type = "result" => i = Len(resp)

\* The command awaited is in the command channel, in the child, or answered.
Queued ==
  /\ cmds = <<[kind |-> call, of |-> asked]>> /\ resp = <<>>
  /\ child \in {"reading", "leaving"}
  /\ view = plugin

InCall ==
  /\ cmds = <<>> /\ doing = [kind |-> call, of |-> asked]
  /\ child \in {"calling", "logging"}
  /\ call # "infer" => resp = <<>>
  /\ \A i \in 1 .. Len(resp) : resp[i].type # "result"
  /\ view = plugin

Answered ==
  /\ cmds = <<>> /\ resp # <<>>
  /\ child \in {"reading", "leaving"}
  /\ resp[Len(resp)].type = "result"
  /\ plugin = After(call, resp[Len(resp)].good, view)

Active == child \in {"starting", "reading", "calling", "logging", "leaving"}

\* A caller at rest is answered and knows the plugin; one that waits has one
\* command somewhere on its way.
ExchangeInv ==
  /\ at = "idle" /\ Active =>
       /\ given = asked /\ cmds = <<>> /\ view = plugin
       /\ child \notin {"calling", "logging"}
  /\ at = "waiting" /\ Active /\ parent => Queued \/ InCall \/ Answered

\* The log thread is over before the child is told, the child before Stop is.
EndInv ==
  /\ at \in {"grace", "term", "stopped"} => reader = "ended"
  /\ at = "stopped" => child = "gone"
  /\ LeavesReleased

IInv ==
  /\ TypeOK /\ StartInv /\ ChildInv /\ NumberInv
  /\ late = 0 => ResponseInv /\ ExchangeInv
  /\ EndInv

-----------------------------------------------------------------------------
(* Facts about the operators.                                              *)

LEMMA PerformIsAfter ==
  ASSUME plugin \in PluginState, NEW kind \in Call, NEW good \in BOOLEAN, Perform(kind, good)
  PROVE  plugin' = After(kind, good, plugin) /\ plugin' \in PluginState
BY DEF Perform, Setup, Enumerate, InitModel, Prepare, Infer, Reset, Deinit, Release, Answer,
       After, Call, PluginState, Released

LEMMA BelieveIsAfter ==
  ASSUME view \in PluginState, NEW kind \in Call, NEW good \in BOOLEAN, Believe(kind, good)
  PROVE  view' = After(kind, good, view) /\ view' \in PluginState
BY DEF Believe, View!Perform, View!Setup, View!Enumerate, View!InitModel, View!Prepare,
       View!Infer, View!Reset, View!Deinit, View!Release, View!Answer, View!PluginState,
       View!Released, After, Call, PluginState, Released

LEMMA AfterResult ==
  ASSUME NEW kind \in Call, NEW good \in BOOLEAN, NEW p \in PluginState
  PROVE  After(kind, good, p) \in PluginState
BY DEF After, Call, PluginState, Released

LEMMA NewCommand ==
  ASSUME NEW kind \in Call, NEW n \in 1 .. MaxCalls
  PROVE  [kind |-> kind, of |-> n] \in Command
BY DEF Command

LEMMA NewMessage ==
  ASSUME NEW type \in {"token", "result"}, NEW n \in 1 .. MaxCalls, NEW good \in BOOLEAN
  PROVE  [type |-> type, of |-> n, good |-> good] \in Message
BY DEF Message

LEMMA AppendIn ==
  ASSUME NEW S, NEW s \in Seq(S), NEW e \in S
  PROVE  Append(s, e) \in Seq(S)
OBVIOUS

LEMMA AppendFacts ==
  ASSUME NEW S, NEW s \in Seq(S), NEW e \in S
  PROVE  /\ Len(s) \in Nat /\ Len(Append(s, e)) = Len(s) + 1
         /\ \A i \in 1 .. Len(s) : Append(s, e)[i] = s[i]
         /\ Append(s, e)[Len(s) + 1] = e
         /\ Append(s, e) # <<>>
OBVIOUS

LEMMA TailFacts ==
  ASSUME NEW S, NEW s \in Seq(S), s # <<>>
  PROVE  /\ Head(s) = s[1] /\ Head(s) \in S /\ Tail(s) \in Seq(S)
         /\ Len(s) \in Nat \ {0} /\ Len(Tail(s)) = Len(s) - 1
         /\ \A i \in 1 .. Len(s) - 1 : Tail(s)[i] = s[i + 1]
         /\ Len(s) = 1 => Tail(s) = <<>>
<1>1. Head(s) = s[1] /\ Head(s) \in S /\ Tail(s) \in Seq(S)
  OBVIOUS
<1>2. Len(s) \in Nat \ {0} /\ Len(Tail(s)) = Len(s) - 1
  BY EmptySeq, LenProperties, HeadTailProperties
<1>3. \A i \in 1 .. Len(s) - 1 : Tail(s)[i] = s[i + 1]
  BY <1>2, HeadTailProperties
<1>4. Len(s) = 1 => Tail(s) = <<>>
  <2>1. Tail(s) # <<>> => Len(Tail(s)) \in Nat \ {0}
    BY <1>1, EmptySeq
  <2> QED BY <2>1, <1>2
<1> QED BY <1>1, <1>2, <1>3, <1>4

LEMMA ShutdownCommand == [kind |-> "shutdown", of |-> MaxCalls] \in Command
BY SubprocessAssumption DEF Command, Call

LEMMA InOrderIsCall == InOrder \subseteq Call
BY DEF InOrder

-----------------------------------------------------------------------------
(* The initial state and each conjunct of the invariant.                   *)

LEMMA InitInv == Init => IInv
<1> SUFFICES ASSUME Init PROVE IInv
  OBVIOUS
<1>1. TypeOK
  <2>1. cmds \in Seq(Command) /\ resp \in Seq(Message)
    BY EmptySeq DEF Init
  <2>2. 0 \in 0 .. MaxCalls /\ 0 \in 0 .. MaxTimeouts /\ 0 \in 0 .. LogRoom
    BY SubprocessAssumption
  <2>3. plugin \in PluginState /\ view \in PluginState
    BY DEF Init, PluginInit, PluginState
  <2> QED BY <2>1, <2>2, <2>3 DEF Init, TypeOK
<1>2. StartInv /\ ChildInv /\ NumberInv /\ EndInv
  BY DEF Init, PluginInit, StartInv, ChildInv, NumberInv, EndInv, LeavesReleased, NoCommand
<1>3. ResponseInv /\ ExchangeInv
  BY DEF Init, ResponseInv, ExchangeInv, Active
<1> QED BY <1>1, <1>2, <1>3 DEF IInv

LEMMA TypeStep ==
  ASSUME IInv, [Next]_vars
  PROVE  TypeOK'
<1> USE SubprocessAssumption DEF IInv
<1>t. TypeOK
  OBVIOUS
<1>0. CASE UNCHANGED vars
  BY <1>0, <1>t DEF TypeOK, vars, callerVars, childVars, world
<1>1. CASE StartFails \/ StartServer \/ Connect
  BY <1>1, <1>t DEF TypeOK, StartFails, StartServer, Connect, PosixChild, WindowsChild,
     callerVars, childVars, world
<1>2. CASE Send
  <2>1. PICK kind \in InOrder :
          /\ call' = kind
          /\ \/ /\ CanWrite
                /\ asked' = asked + 1
                /\ cmds' = Append(cmds, [kind |-> kind, of |-> asked + 1])
                /\ at' = "waiting"
                /\ UNCHANGED view
             \/ /\ ~CanWrite
                /\ Believe(kind, FALSE)
                /\ UNCHANGED <<asked, cmds, at>>
    BY <1>2 DEF Send
  <2>2. kind \in Call
    BY InOrderIsCall
  <2>3. asked < MaxCalls /\ UNCHANGED <<given, foreign, late, childVars, resp, logs, reader, world>>
    BY <1>2 DEF Send
  <2>4. view' \in PluginState
    BY <2>1, <2>2, <1>t, BelieveIsAfter DEF TypeOK
  <2>5. asked' \in 0 .. MaxCalls /\ cmds' \in Seq(Command) /\ at' \in {"waiting", at}
    <3>1. asked \in 0 .. MaxCalls /\ cmds \in Seq(Command)
      BY <1>t DEF TypeOK
    <3>2. asked + 1 \in 1 .. MaxCalls
      BY <3>1, <2>3
    <3>3. [kind |-> kind, of |-> asked + 1] \in Command
      BY <3>2, <2>2, NewCommand
    <3>4. Append(cmds, [kind |-> kind, of |-> asked + 1]) \in Seq(Command)
      BY <3>1, <3>3, AppendIn
    <3>5. asked + 1 \in 0 .. MaxCalls
      BY <3>2
    <3> QED BY <2>1, <3>1, <3>4, <3>5
  <2> QED BY <2>1, <2>2, <2>3, <2>4, <2>5, <1>t DEF TypeOK, childVars, world
<1>3. CASE Take
  <2>1. resp # <<>> /\ resp \in Seq(Message)
    BY <1>3, <1>t DEF Take, TypeOK
  <2>2. Head(resp) \in Message /\ Tail(resp) \in Seq(Message)
    BY <2>1
  <2>3. call \in Call \/ UNCHANGED view \/ call = "none"
    BY <1>t DEF TypeOK
  <2>4. view' \in PluginState
    <3>1. CASE UNCHANGED view
      BY <3>1, <1>t DEF TypeOK
    <3>2. CASE ~UNCHANGED view
      <4>1. Believe(call, Head(resp).type = "result" /\ Head(resp).good)
        BY <3>2, <1>3 DEF Take
      <4>2. call # "none"
        BY <4>1, <3>2 DEF Believe, View!Perform
      <4>3. (Head(resp).type = "result" /\ Head(resp).good) \in BOOLEAN
        OBVIOUS
      <4> QED BY <4>1, <4>2, <4>3, <1>t, BelieveIsAfter DEF TypeOK
    <3> QED BY <3>1, <3>2
  <2>5. Head(resp).of \in 0 .. MaxCalls
    BY <2>2 DEF Message
  <2>6. given' \in 0 .. MaxCalls /\ foreign' \in BOOLEAN /\ at' \in {"idle", at}
    BY <1>3, <1>t, <2>5 DEF Take, TypeOK
  <2> QED BY <1>3, <1>t, <2>2, <2>4, <2>6 DEF Take, TypeOK, childVars, world
<1>4. CASE TakeEnd \/ Timeout
  <2>1. Believe(call, FALSE) /\ at' = "idle"
    BY <1>4 DEF TakeEnd, Timeout
  <2>0. late' \in 0 .. MaxTimeouts
    <3>1. late \in 0 .. MaxTimeouts
      BY <1>t DEF TypeOK
    <3>2. late' = late \/ (late < MaxTimeouts /\ late' = late + 1)
      BY <1>4 DEF TakeEnd, Timeout
    <3> QED BY <3>1, <3>2
  <2>2. call \in Call
    BY <2>1, <1>t DEF TypeOK, Believe, View!Perform
  <2>3. view' \in PluginState
    BY <2>1, <2>2, <1>t, BelieveIsAfter DEF TypeOK
  <2>4. UNCHANGED <<call, asked, given, foreign, childVars, cmds, resp, logs, reader, world>>
    BY <1>4 DEF TakeEnd, Timeout
  <2> QED BY <2>0, <2>1, <2>3, <2>4, <1>t DEF TypeOK, childVars, world
<1>5. CASE Stop \/ StopProcess \/ ParentDies \/ EndReader
  <2>1. at' \in {at, "stopping", "term", "stopped"} /\ child' \in {child, "gone"}
    BY <1>5 DEF Stop, StopProcess, ParentDies, EndReader, callerVars, childVars
  <2>2. reader' \in {reader, "told", "ended"} /\ doing' \in {doing, NoCommand}
    BY <1>5 DEF Stop, StopProcess, ParentDies, EndReader, callerVars, childVars
  <2>3. killed' \in BOOLEAN /\ parent' \in BOOLEAN
    BY <1>5, <1>t DEF TypeOK, Stop, StopProcess, ParentDies, EndReader, childVars, world
  <2>4. UNCHANGED <<plugin, view, call, asked, given, foreign, late, cmds, resp, logs,
                    logOpen, platform>>
    BY <1>5 DEF Stop, StopProcess, ParentDies, EndReader, callerVars, childVars, world
  <2> QED BY <2>1, <2>2, <2>3, <2>4, <1>t DEF TypeOK
<1>12. CASE ReadLog
  <2>1. logs' \in 0 .. LogRoom
    BY <1>12, <1>t DEF TypeOK, ReadLog, MessageThere
  <2> QED BY <1>12, <2>1, <1>t DEF TypeOK, ReadLog, callerVars, childVars, world
<1>6. CASE JoinAndShutdown
  <2>1. cmds' \in Seq(Command)
    BY <1>6, <1>t, ShutdownCommand, AppendIn DEF JoinAndShutdown, TypeOK
  <2> QED BY <1>6, <2>1, <1>t DEF JoinAndShutdown, TypeOK, childVars, world
<1>7. CASE ReadCommand
  <2>1. cmds' \in Seq(Command) /\ doing' \in Command \cup {NoCommand}
    <3>1. cmds \in Seq(Command) /\ doing \in Command \cup {NoCommand}
      BY <1>t DEF TypeOK
    <3>2. cmds # <<>> => Head(cmds) \in Command /\ Tail(cmds) \in Seq(Command)
      BY <3>1, HeadTailProperties
    <3> QED BY <1>7, <3>1, <3>2 DEF ReadCommand
  <2> QED BY <1>7, <2>1, <1>t DEF ReadCommand, TypeOK, callerVars, world
<1>8. CASE BeginLog \/ Crash \/ Hang
  <2>1. child' \in {"logging", "gone", "hung"} /\ doing' \in {doing, NoCommand}
    BY <1>8 DEF BeginLog, Crash, Hang
  <2>2. killed' \in BOOLEAN /\ UNCHANGED <<plugin, logOpen, cmds, resp, logs, reader, world>>
    BY <1>8, <1>t DEF TypeOK, BeginLog, Crash, Hang
  <2>3. UNCHANGED callerVars
    BY <1>8 DEF BeginLog, Crash, Hang
  <2> QED BY <2>1, <2>2, <2>3, <1>t DEF TypeOK, callerVars, world
<1>13. CASE WriteLog
  <2>1. logs' \in 0 .. LogRoom
    BY <1>13, <1>t DEF TypeOK, WriteLog, LogFits, HasRoom
  <2>2. child' = "calling" /\ logOpen' \in BOOLEAN
    BY <1>13, <1>t DEF TypeOK, WriteLog
  <2>3. UNCHANGED <<callerVars, plugin, doing, killed, cmds, resp, reader, world>>
    BY <1>13 DEF WriteLog
  <2> QED BY <2>1, <2>2, <2>3, <1>t DEF TypeOK, callerVars, world
<1>9. CASE SendToken
  <2>1. doing \in Command
    BY <1>9 DEF SendToken, ChildInv
  <2>2. resp' \in Seq(Message)
    <3>1. doing.of \in 1 .. MaxCalls
      BY <2>1 DEF Command
    <3>2. [type |-> "token", of |-> doing.of, good |-> TRUE] \in Message
      BY <3>1, NewMessage
    <3> QED BY <1>9, <3>2, <1>t, AppendIn DEF SendToken, TypeOK
  <2> QED BY <1>9, <2>2, <1>t DEF SendToken, TypeOK, callerVars, childVars, world
<1>10. CASE Handle
  <2>1. doing \in Command /\ doing.kind \in Call /\ doing.of \in 1 .. MaxCalls
    BY <1>10 DEF Handle, ChildInv, Command
  <2>2. PICK good \in BOOLEAN :
          /\ IF HasHandler(doing.kind) THEN CallPlugin(doing.kind, good) ELSE UNCHANGED plugin
          /\ resp' = IF parent
                     THEN Append(resp, [type |-> "result", of |-> doing.of, good |-> good])
                     ELSE resp
    BY <1>10 DEF Handle
  <2>3. plugin' \in PluginState
    BY <2>1, <2>2, <1>t, PerformIsAfter DEF TypeOK, CallPlugin
  <2>4. resp' \in Seq(Message)
    <3>1. [type |-> "result", of |-> doing.of, good |-> good] \in Message
      BY <2>1, NewMessage
    <3> QED BY <2>2, <3>1, <1>t, AppendIn DEF TypeOK
  <2> QED BY <1>10, <2>3, <2>4, <1>t DEF Handle, TypeOK, NoCommand, callerVars, world
<1>11. CASE Leave
  <2>1. plugin' \in PluginState
    BY <1>11, <1>t DEF Leave, ResetHandler, Release, Answer, TypeOK, PluginState
  <2> QED BY <1>11, <2>1, <1>t DEF Leave, TypeOK, callerVars, world
<1> QED
  BY <1>0, <1>1, <1>2, <1>3, <1>4, <1>5, <1>6, <1>7, <1>8, <1>9, <1>10, <1>11, <1>12, <1>13
  DEF Next, Caller, Reader, Client, Done

LEMMA StartStep ==
  ASSUME IInv, [Next]_vars
  PROVE  StartInv'
<1>t. TypeOK /\ StartInv /\ ChildInv
  BY DEF IInv
<1>0. CASE UNCHANGED vars
  BY <1>0, <1>t DEF StartInv, vars, callerVars, childVars, world
<1>1. CASE StartFails \/ StartServer
  BY <1>1, <1>t DEF TypeOK, StartInv, StartFails, StartServer, PosixChild, WindowsChild,
     childVars,
     world
<1>2. CASE Send
  <2>1. PICK kind \in InOrder :
          /\ call' = kind
          /\ \/ /\ CanWrite
                /\ at' = "waiting"
                /\ UNCHANGED view
             \/ /\ ~CanWrite
                /\ Believe(kind, FALSE)
                /\ UNCHANGED <<asked, cmds, at>>
    BY <1>2 DEF Send
  <2>2. UNCHANGED <<given, foreign, late, plugin, child, resp>>
    BY <1>2 DEF Send, childVars
  <2>3. CASE child = "starting"
    <3>1. kind \in {"probe", "setup", "shutdown"}
      BY <2>3, <1>t DEF StartInv, InOrder, Probing, Listing, Released
    <3>2. view' = "none"
      <4>1. Believe(kind, FALSE) /\ view = "none" /\ kind \in Call /\ view \in PluginState
        BY <2>1, <2>3, <1>t, InOrderIsCall DEF StartInv, CanWrite, TypeOK
      <4>2. view' = After(kind, FALSE, view)
        BY <4>1, BelieveIsAfter
      <4> QED BY <3>1, <4>1, <4>2 DEF After
    <3> QED BY <2>1, <2>2, <2>3, <3>2, <1>t DEF StartInv, CanWrite
  <2>4. CASE child # "starting"
    BY <2>1, <2>2, <2>4, <1>2, <1>t DEF StartInv, CanWrite, IsRunning, Send
  <2> QED BY <2>3, <2>4
<1>3. CASE Take \/ TakeEnd \/ Timeout
  BY <1>3, <1>t DEF StartInv, Take, TakeEnd, Timeout, NoneLeft, IsRunning, GivesUp, childVars
<1>4. CASE Stop \/ JoinAndShutdown \/ StopProcess \/ ParentDies
  BY <1>4, <1>t DEF StartInv, Stop, JoinAndShutdown, StopProcess, ParentDies, CanWrite,
     IsRunning,
     callerVars, childVars
<1>5. CASE ReadLog \/ EndReader \/ Connect \/ BeginLog \/ WriteLog \/ Crash \/ Hang
  BY <1>5, <1>t DEF StartInv, ReadLog, EndReader, Connect, BeginLog, WriteLog, Crash, Hang,
     callerVars, childVars
<1>6. CASE ReadCommand \/ SendToken \/ Handle \/ Leave
  BY <1>6, <1>t DEF StartInv, ReadCommand, SendToken, Handle, Leave, callerVars, childVars
<1> QED
  BY <1>0, <1>1, <1>2, <1>3, <1>4, <1>5, <1>6 DEF Next, Caller, Reader, Client, Done

LEMMA ChildStep ==
  ASSUME IInv, [Next]_vars
  PROVE  ChildInv'
<1>t. TypeOK /\ StartInv /\ ChildInv
  BY DEF IInv
<1>0. CASE UNCHANGED vars
  BY <1>0, <1>t DEF ChildInv, vars, childVars
<1>1. CASE StartFails \/ StartServer \/ Connect
  BY <1>1, <1>t DEF ChildInv, StartInv, StartFails, StartServer, Connect, PosixChild,
     WindowsChild,
     childVars
<1>2. CASE Send \/ Take \/ TakeEnd \/ Timeout \/ Stop \/ JoinAndShutdown \/ ParentDies
  BY <1>2, <1>t DEF ChildInv, Send, Take, TakeEnd, Timeout, Stop, JoinAndShutdown, ParentDies,
     childVars
<1>3. CASE ReadLog \/ EndReader \/ SendToken \/ StopProcess \/ Crash \/ Hang \/ Leave
  BY <1>3, <1>t DEF ChildInv, ReadLog, EndReader, SendToken, StopProcess, Crash, Hang, Leave,
     childVars
<1>4. CASE BeginLog \/ WriteLog \/ Handle
  BY <1>4, <1>t DEF ChildInv, BeginLog, WriteLog, Handle
<1>5. CASE ReadCommand
  <2>1. cmds # <<>> => Head(cmds) \in Command
    BY <1>t DEF TypeOK
  <2> QED BY <1>5, <2>1, <1>t DEF ChildInv, ReadCommand
<1> QED
  BY <1>0, <1>1, <1>2, <1>3, <1>4, <1>5 DEF Next, Caller, Reader, Client, Done

LEMMA EndStep ==
  ASSUME IInv, [Next]_vars
  PROVE  EndInv'
<1>t. TypeOK /\ StartInv /\ EndInv
  BY DEF IInv
<1>0. CASE UNCHANGED vars
  BY <1>0, <1>t DEF EndInv, LeavesReleased, vars, callerVars, childVars
<1>1. CASE StartFails \/ StartServer \/ Connect
  BY <1>1, <1>t DEF EndInv, LeavesReleased, StartInv, StartFails, StartServer, Connect,
     childVars,
     callerVars
<1>2. CASE Send \/ Take \/ TakeEnd \/ Timeout \/ Stop
  BY <1>2, <1>t DEF EndInv, LeavesReleased, Send, Take, TakeEnd, Timeout, Stop, childVars
<1>3. CASE JoinAndShutdown \/ ParentDies \/ ReadLog \/ EndReader \/ ReadCommand \/ SendToken
  BY <1>3, <1>t DEF EndInv, LeavesReleased, JoinAndShutdown, Joined, ParentDies, ReadLog,
     EndReader,
     ReadCommand, SendToken, callerVars, childVars
<1>4. CASE StopProcess
  BY <1>4, <1>t DEF EndInv, LeavesReleased, StartInv, StopProcess, IsRunning, Kill, childVars
<1>5. CASE BeginLog \/ WriteLog \/ Handle \/ Crash \/ Hang
  BY <1>5, <1>t DEF EndInv, LeavesReleased, BeginLog, WriteLog, Handle, Crash, Hang, callerVars
<1>6. CASE Leave
  BY <1>6, <1>t DEF EndInv, LeavesReleased, Leave, ResetHandler, Release, Answer, TypeOK,
     PluginState, Released, callerVars
<1> QED
  BY <1>0, <1>1, <1>2, <1>3, <1>4, <1>5, <1>6 DEF Next, Caller, Reader, Client, Done

LEMMA NumberStep ==
  ASSUME IInv, [Next]_vars
  PROVE  NumberInv'
<1>t. TypeOK /\ StartInv /\ ChildInv /\ NumberInv
  BY DEF IInv
<1>n. asked \in Nat /\ given \in Nat /\ cmds \in Seq(Command) /\ resp \in Seq(Message)
  BY <1>t, SubprocessAssumption DEF TypeOK
<1>0. CASE UNCHANGED vars
  BY <1>0, <1>t DEF NumberInv, vars, callerVars, childVars
<1>1. CASE \/ StartFails \/ StartServer \/ Connect \/ Stop \/ StopProcess
           \/ ParentDies \/ ReadLog \/ EndReader
  BY <1>1, <1>t, <1>n DEF NumberInv, StartFails, StartServer, Connect, Stop, StopProcess,
     ParentDies, ReadLog,
     EndReader, NoCommand, callerVars, childVars
<1>2. CASE Send
  <2>1. UNCHANGED <<given, resp, doing>> /\ at = "idle"
    BY <1>2 DEF Send, childVars
  <2>2. CASE UNCHANGED <<asked, cmds, at>>
    BY <2>1, <2>2, <1>t DEF NumberInv
  <2>3. CASE ~UNCHANGED <<asked, cmds, at>>
    <3>1. PICK kind \in InOrder : cmds' = Append(cmds, [kind |-> kind, of |-> asked + 1])
      BY <2>3, <1>2 DEF Send
    <3>2. asked' = asked + 1 /\ asked + 1 \in 1 .. MaxCalls
      <4>1. asked < MaxCalls
        BY <1>2 DEF Send
      <4>2. asked' = asked + 1
        BY <1>2, <2>3 DEF Send
      <4> QED BY <4>1, <4>2, <1>n, SubprocessAssumption
    <3>3. [kind |-> kind, of |-> asked + 1] \in Command
      BY <3>2, InOrderIsCall, NewCommand
    <3>4. \A i \in 1 .. Len(cmds') : cmds'[i].of <= asked'
      <4>1. \A i \in 1 .. Len(cmds) : cmds[i].of <= asked /\ cmds[i].of \in Int
        <5>1. \A i \in 1 .. Len(cmds) : cmds[i] \in Command
          BY <1>n, ElementOfSeq
        <5>2. \A c \in Command : c.of \in Int
          BY DEF Command
        <5> QED BY <2>1, <5>1, <5>2, <1>t DEF NumberInv
      <4>2. /\ Len(cmds) \in Nat /\ Len(cmds') = Len(cmds) + 1
            /\ \A i \in 1 .. Len(cmds) : cmds'[i] = cmds[i]
            /\ cmds'[Len(cmds) + 1] = [kind |-> kind, of |-> asked + 1]
        BY <3>1, <3>3, <1>n, AppendFacts
      <4> QED BY <3>2, <4>1, <4>2, <1>n
    <3>5. \A i \in 1 .. Len(resp) : resp[i].of <= asked'
      <4>1. \A i \in 1 .. Len(resp) : resp[i].of <= asked /\ resp[i].of \in Int
        <5>1. \A i \in 1 .. Len(resp) : resp[i] \in Message
          BY <1>n, ElementOfSeq
        <5>2. \A m \in Message : m.of \in Int
          BY DEF Message
        <5> QED BY <2>1, <5>1, <5>2, <1>t DEF NumberInv
      <4> QED BY <3>2, <4>1, <1>n
    <3>6. doing.of <= asked'
      <4>1. doing.of <= asked /\ doing.of \in Int
        BY <2>1, <1>t DEF NumberInv, TypeOK, Command, NoCommand
      <4> QED BY <3>2, <4>1, <1>n
    <3>7. given <= asked'
      BY <3>2, <1>t, <1>n DEF NumberInv
    <3> QED BY <2>1, <3>4, <3>5, <3>6, <3>7 DEF NumberInv
  <2> QED BY <2>2, <2>3
<1>3. CASE Take
  <2>1. resp # <<>> /\ resp' = Tail(resp) /\ at = "waiting" /\ UNCHANGED <<asked, cmds, doing>>
    BY <1>3 DEF Take, childVars
  <2>2. given' = given \/ given' = Head(resp).of
    BY <1>3 DEF Take
  <2>3. given' <= asked
    BY <2>1, <2>2, <1>t, <1>n, TailFacts DEF NumberInv
  <2>4. \A i \in 1 .. Len(resp') : resp'[i].of <= asked
    BY <2>1, <1>t, <1>n, TailFacts DEF NumberInv
  <2> QED BY <2>1, <2>3, <2>4, <1>t DEF NumberInv
<1>4. CASE TakeEnd \/ Timeout
  BY <1>4, <1>t DEF NumberInv, TakeEnd, Timeout, childVars
<1>5. CASE JoinAndShutdown
  BY <1>5, <1>t DEF NumberInv, JoinAndShutdown
<1>6. CASE ReadCommand
  <2>1. at \in {"start", "idle", "waiting"} /\ cmds # <<>> =>
          /\ Head(cmds).of <= asked
          /\ \A i \in 1 .. Len(Tail(cmds)) : Tail(cmds)[i].of <= asked
    BY <1>t, <1>n, TailFacts DEF NumberInv
  <2> QED BY <1>6, <2>1, <1>t DEF NumberInv, ReadCommand, callerVars
<1>7. CASE SendToken
  <2>1. doing \in Command /\ doing.of \in 1 .. MaxCalls
    BY <1>7, <1>t DEF SendToken, ChildInv, Command
  <2>2. [type |-> "token", of |-> doing.of, good |-> TRUE] \in Message
    BY <2>1, NewMessage
  <2>3. at \in {"start", "idle", "waiting"} => \A i \in 1 .. Len(resp') : resp'[i].of <= asked
    BY <1>7, <2>1, <2>2, <1>t, <1>n, AppendFacts DEF NumberInv, SendToken
  <2> QED BY <1>7, <2>3, <1>t DEF NumberInv, SendToken, callerVars, childVars
<1>8. CASE Handle
  <2>1. doing \in Command /\ doing.of \in 1 .. MaxCalls
    BY <1>8, <1>t DEF Handle, ChildInv, Command
  <2>2. PICK good \in BOOLEAN :
          resp' = IF parent
                  THEN Append(resp, [type |-> "result", of |-> doing.of, good |-> good])
                  ELSE resp
    BY <1>8 DEF Handle
  <2>3. [type |-> "result", of |-> doing.of, good |-> good] \in Message
    BY <2>1, NewMessage
  <2>4. at \in {"start", "idle", "waiting"} => \A i \in 1 .. Len(resp') : resp'[i].of <= asked
    BY <2>1, <2>2, <2>3, <1>t, <1>n, AppendFacts DEF NumberInv
  <2> QED BY <1>8, <2>4, <1>t, <1>n DEF NumberInv, Handle, NoCommand, callerVars
<1>9. CASE BeginLog \/ WriteLog \/ Leave
  BY <1>9, <1>t DEF NumberInv, BeginLog, WriteLog, Leave, callerVars
<1>10. CASE Crash \/ Hang
  BY <1>10, <1>t, <1>n DEF NumberInv, Crash, Hang, NoCommand, callerVars
<1> QED
  BY <1>0, <1>1, <1>2, <1>3, <1>4, <1>5, <1>6, <1>7, <1>8, <1>9, <1>10
  DEF Next, Caller, Reader, Client, Done

LEMMA LateStep ==
  ASSUME IInv, [Next]_vars, late' = 0
  PROVE  late = 0
<1>1. late \in Nat
  BY SubprocessAssumption DEF IInv, TypeOK
<1>2. late' = late \/ late' = late + 1
  BY DEF Next, Caller, Reader, Client, Done, StartFails, StartServer, Send, Take, TakeEnd,
     Timeout,
     Stop, JoinAndShutdown, StopProcess, ReadLog, EndReader, Connect, ReadCommand, WriteLog, Leave,
     Handle, BeginLog, SendToken, Crash, Hang, ParentDies, vars, callerVars
<1> QED BY <1>1, <1>2

\* A child that is inside a call while the caller waits is at the caller's command.
LEMMA CallIsAwaited ==
  ASSUME IInv, late = 0, child = "calling", at \in {"idle", "waiting"}
  PROVE  at = "waiting" /\ (parent => InCall)
BY DEF IInv, ExchangeInv, Active, Queued, Answered

LEMMA ResponseStep ==
  ASSUME IInv, [Next]_vars, late' = 0
  PROVE  ResponseInv'
<1>l. late = 0
  BY LateStep
<1>t. TypeOK /\ StartInv /\ ChildInv /\ ResponseInv
  BY <1>l DEF IInv
<1>r. resp \in Seq(Message)
  BY <1>t DEF TypeOK
<1>0. CASE UNCHANGED vars
  BY <1>0, <1>t DEF ResponseInv, vars, callerVars
<1>1. CASE StartFails \/ StartServer \/ Stop \/ JoinAndShutdown \/ StopProcess
  BY <1>1, <1>t DEF ResponseInv, StartInv, StartFails, StartServer, Stop, JoinAndShutdown,
     StopProcess
<1>2. CASE Send
  <2>1. PICK kind \in InOrder : call' = kind /\ at' \in {"idle", "waiting"}
                                /\ (at' = "waiting" => UNCHANGED view)
    BY <1>2 DEF Send
  <2>2. resp' = <<>> /\ ~foreign'
    BY <1>2, <1>t DEF Send, ResponseInv
  <2>3. kind \in Call /\ (view = "none" => kind \in {"probe", "setup", "shutdown"})
    BY InOrderIsCall DEF InOrder, Probing, Listing, Released
  <2>4. asked' \in Nat
    BY TypeStep, SubprocessAssumption DEF TypeOK
  <2> QED BY <2>1, <2>2, <2>3, EmptySeq DEF ResponseInv
<1>3. CASE Take
  <2>1. at = "waiting" /\ resp # <<>> /\ resp' = Tail(resp) /\ UNCHANGED <<call, asked>>
    BY <1>3 DEF Take
  <2>2. /\ Len(resp) \in Nat \ {0} /\ Len(resp') = Len(resp) - 1
        /\ Head(resp) = resp[1] /\ 1 \in 1 .. Len(resp)
        /\ Len(resp) = 1 => resp' = <<>>
        /\ \A i \in 1 .. Len(resp) - 1 : resp'[i] = resp[i + 1]
    BY <2>1, <1>r, TailFacts
  <2>3. \A i \in 1 .. Len(resp) : /\ resp[i].of = asked
                                  /\ resp[i].type = "result" => i = Len(resp)
    BY <2>1, <1>t DEF ResponseInv
  <2>4. CASE IsAnswer(resp[1])
    <3>1. at' = "idle" /\ UNCHANGED foreign
      BY <2>2, <2>4, <1>3 DEF Take
    <3>2. Len(resp) = 1
      <4>1. call # "infer" => Len(resp) <= 1
        BY <2>1, <1>t DEF ResponseInv
      <4>2. call = "infer" => resp[1].type = "result"
        BY <2>4 DEF IsAnswer
      <4> QED BY <2>2, <2>3, <4>1, <4>2
    <3> QED BY <2>2, <3>1, <3>2, <1>t DEF ResponseInv
  <2>5. CASE ~IsAnswer(resp[1])
    <3>1. at' = at /\ UNCHANGED view /\ foreign' = (foreign \/ resp[1].of # asked)
      BY <2>2, <2>5, <1>3 DEF Take
    <3>2. ~foreign'
      <4>1. resp[1].of = asked /\ ~foreign
        BY <2>2, <2>3, <1>t DEF ResponseInv
      <4> QED BY <3>1, <4>1
    <3>3. call = "infer"
      BY <2>5 DEF IsAnswer
    <3>4. \A i \in 1 .. Len(resp') : /\ resp'[i].of = asked
                                     /\ resp'[i].type = "result" => i = Len(resp')
      <4> SUFFICES ASSUME NEW i \in 1 .. Len(resp')
                   PROVE  resp'[i].of = asked /\ (resp'[i].type = "result" => i = Len(resp'))
        OBVIOUS
      <4>1. i \in 1 .. Len(resp) - 1 /\ i + 1 \in 1 .. Len(resp)
        BY <2>2
      <4>2. resp'[i] = resp[i + 1]
        BY <2>2, <4>1
      <4> QED BY <2>2, <2>3, <4>1, <4>2
    <3> QED BY <2>1, <3>1, <3>2, <3>3, <3>4, <1>t DEF ResponseInv
  <2> QED BY <2>4, <2>5
<1>4. CASE TakeEnd \/ Timeout
  <2>1. at' = "idle" /\ resp = <<>> /\ UNCHANGED <<resp, foreign>>
    BY <1>4 DEF TakeEnd, Timeout, NoneLeft, GivesUp
  <2> QED BY <2>1, <1>t DEF ResponseInv
<1>5. CASE SendToken
  <2>1. UNCHANGED <<at, view, call, asked, foreign>> /\ child = "calling"
    BY <1>5 DEF SendToken, callerVars
  <2>2. CASE ~parent \/ at \notin {"idle", "waiting"}
    BY <1>5, <2>1, <2>2, <1>t DEF SendToken, ResponseInv
  <2>3. CASE parent /\ at \in {"idle", "waiting"}
    <3>1. at = "waiting" /\ InCall
      BY <2>1, <2>3, <1>l, CallIsAwaited
    <3>2. doing.kind = "infer" /\ doing \in Command /\ call = "infer" /\ doing.of = asked
      BY <1>5, <3>1, <1>t DEF SendToken, InCall, ChildInv
    <3>3. [type |-> "token", of |-> asked, good |-> TRUE] \in Message
      BY <3>2, NewMessage DEF Command
    <3>4. resp' = Append(resp, [type |-> "token", of |-> asked, good |-> TRUE])
      BY <1>5, <2>3, <3>2 DEF SendToken
    <3>5. \A i \in 1 .. Len(resp') : resp'[i].of = asked /\ resp'[i].type # "result"
      BY <3>1, <3>3, <3>4, <1>r, <1>t, AppendFacts DEF InCall, ResponseInv
    <3> QED BY <2>1, <3>1, <3>2, <3>5, <1>t DEF ResponseInv
  <2> QED BY <2>2, <2>3
<1>6. CASE Handle
  <2>1. UNCHANGED <<at, view, call, asked, foreign>> /\ child = "calling"
    BY <1>6 DEF Handle, callerVars
  <2>2. CASE ~parent \/ at \notin {"idle", "waiting"}
    BY <1>6, <2>1, <2>2, <1>t DEF Handle, ResponseInv
  <2>3. CASE parent /\ at \in {"idle", "waiting"}
    <3>1. at = "waiting" /\ InCall
      BY <2>1, <2>3, <1>l, CallIsAwaited
    <3>2. doing \in Command /\ doing.of = asked
      BY <2>1, <3>1, <1>t DEF InCall, ChildInv
    <3>3. PICK good \in BOOLEAN :
            resp' = Append(resp, [type |-> "result", of |-> asked, good |-> good])
      BY <1>6, <2>3, <3>2 DEF Handle
    <3>4. [type |-> "result", of |-> asked, good |-> good] \in Message
      BY <3>2, NewMessage DEF Command
    <3>5. \A i \in 1 .. Len(resp') : /\ resp'[i].of = asked
                                     /\ resp'[i].type = "result" => i = Len(resp')
      BY <3>1, <3>3, <3>4, <1>r, <1>t, AppendFacts DEF InCall, ResponseInv
    <3>6. call # "infer" => Len(resp') <= 1
      BY <3>1, <3>3, <3>4, <1>r, AppendFacts, EmptySeq DEF InCall
    <3> QED BY <2>1, <3>1, <3>5, <3>6, <1>t DEF ResponseInv
  <2> QED BY <2>2, <2>3
<1>7. CASE ParentDies \/ ReadLog \/ EndReader \/ Connect \/ ReadCommand
  BY <1>7, <1>t DEF ResponseInv, ParentDies, ReadLog, EndReader, Connect, ReadCommand,
     callerVars
<1>8. CASE BeginLog \/ WriteLog \/ Leave \/ Crash \/ Hang
  BY <1>8, <1>t DEF ResponseInv, BeginLog, WriteLog, Leave, Crash, Hang, callerVars
<1> QED
  BY <1>0, <1>1, <1>2, <1>3, <1>4, <1>5, <1>6, <1>7, <1>8 DEF Next, Caller, Reader, Client, Done

LEMMA ExchangeStep ==
  ASSUME IInv, [Next]_vars, late' = 0
  PROVE  ExchangeInv'
<1>l. late = 0
  BY LateStep
<1>t. TypeOK /\ StartInv /\ ChildInv /\ ResponseInv /\ ExchangeInv
  BY <1>l DEF IInv
<1>r. resp \in Seq(Message) /\ cmds \in Seq(Command)
  BY <1>t DEF TypeOK
<1>0. CASE UNCHANGED vars
  BY <1>0, <1>t DEF ExchangeInv, Active, Queued, InCall, Answered, vars, callerVars, childVars,
     world
<1>1. CASE StartFails \/ StartServer \/ Stop \/ JoinAndShutdown
  BY <1>1, <1>t DEF ExchangeInv, StartInv, StartFails, StartServer, Stop, JoinAndShutdown,
     PosixChild,
     WindowsChild
<1>2. CASE Send
  <2>1. PICK kind \in InOrder :
          /\ call' = kind
          /\ \/ /\ CanWrite
                /\ asked' = asked + 1
                /\ cmds' = Append(cmds, [kind |-> kind, of |-> asked + 1])
                /\ at' = "waiting"
                /\ UNCHANGED view
             \/ /\ ~CanWrite
                /\ UNCHANGED <<asked, cmds, at>>
    BY <1>2 DEF Send
  <2>2. UNCHANGED <<given, plugin, child, resp>> /\ at = "idle" /\ resp = <<>>
    BY <1>2, <1>t DEF Send, childVars, ResponseInv
  <2>3. CASE CanWrite /\ Active
    <3>1. cmds = <<>> /\ view = plugin /\ child \in {"reading", "leaving"}
      BY <2>2, <2>3, <1>t DEF ExchangeInv, CanWrite, Active
    <3>2. cmds' = <<[kind |-> call', of |-> asked']>>
      BY <2>1, <2>3, <3>1
    <3> QED BY <2>1, <2>2, <2>3, <3>1, <3>2 DEF ExchangeInv, Queued
  <2>4. CASE ~CanWrite /\ Active
    <3>1. child = "starting"
      BY <2>4 DEF CanWrite, IsRunning, Active
    <3>2. view' = "none" /\ plugin' = "none"
      BY <2>2, <3>1, StartStep DEF StartInv
    <3> QED BY <2>1, <2>2, <2>4, <3>1, <3>2, <1>t DEF ExchangeInv, Active
  <2>5. CASE ~Active
    BY <2>2, <2>5 DEF ExchangeInv, Active
  <2> QED BY <2>3, <2>4, <2>5
<1>3. CASE Take
  <2>1. /\ at = "waiting" /\ parent /\ resp # <<>> /\ resp' = Tail(resp)
        /\ UNCHANGED <<call, asked, plugin, child, doing, cmds, parent>>
    BY <1>3 DEF Take, childVars, world
  <2>2. /\ Len(resp) \in Nat \ {0} /\ Len(resp') = Len(resp) - 1 /\ resp' \in Seq(Message)
        /\ Head(resp) = resp[1] /\ resp[1] \in Message /\ 1 \in 1 .. Len(resp)
        /\ Len(resp) = 1 => resp' = <<>>
        /\ \A i \in 1 .. Len(resp) - 1 : resp'[i] = resp[i + 1]
    BY <2>1, <1>r, TailFacts
  <2>3. Active => InCall \/ Answered
    BY <2>1, <1>t DEF ExchangeInv, Queued
  <2>4. CASE IsAnswer(resp[1])
    <3>1. /\ at' = "idle" /\ given' = resp[1].of
          /\ Believe(call, resp[1].type = "result" /\ resp[1].good)
      BY <2>2, <2>4, <1>3 DEF Take
    <3>2. resp[1].of = asked
      BY <2>1, <2>2, <1>t DEF ResponseInv
    <3>3. CASE Active
      <4>1. ~InCall
        BY <2>1, <2>2, <2>4 DEF InCall, IsAnswer
      <4>2. Answered
        BY <2>3, <3>3, <4>1
      <4>3. Len(resp) = 1
        <5>1. call # "infer" => Len(resp) <= 1
          BY <2>1, <1>t DEF ResponseInv
        <5>2. call = "infer" => resp[1].type = "result"
          BY <2>4 DEF IsAnswer
        <5>3. resp[1].type = "result" => 1 = Len(resp)
          BY <2>1, <2>2, <1>t DEF ResponseInv
        <5> QED BY <2>2, <5>1, <5>2, <5>3
      <4>4. /\ resp[1].type = "result" /\ resp[1].good \in BOOLEAN
            /\ plugin = After(call, resp[1].good, view)
        BY <2>2, <4>2, <4>3 DEF Answered, Message
      <4>5. Believe(call, resp[1].good)
        BY <3>1, <4>4
      <4>6. view' = plugin
        BY <2>1, <4>4, <4>5, <1>t, BelieveIsAfter DEF TypeOK, ResponseInv
      <4> QED BY <2>1, <3>1, <3>2, <4>2, <4>6 DEF ExchangeInv, Answered
    <3>4. CASE ~Active
      BY <2>1, <3>1, <3>4 DEF ExchangeInv, Active
    <3> QED BY <3>3, <3>4
  <2>5. CASE ~IsAnswer(resp[1])
    <3>1. at' = at /\ UNCHANGED <<view, given>> /\ call = "infer" /\ resp[1].type # "result"
      BY <2>2, <2>5, <1>3 DEF Take, IsAnswer
    <3>2. CASE InCall
      <4>1. \A i \in 1 .. Len(resp') : resp'[i].type # "result"
        BY <2>2, <3>2 DEF InCall
      <4> QED BY <2>1, <3>1, <3>2, <4>1 DEF ExchangeInv, InCall
    <3>3. CASE Answered
      <4>1. Len(resp) # 1
        BY <2>2, <3>1, <3>3 DEF Answered
      <4>2. resp' # <<>> /\ resp'[Len(resp')] = resp[Len(resp)]
        BY <2>2, <4>1, EmptySeq
      <4> QED BY <2>1, <3>1, <3>3, <4>2 DEF ExchangeInv, Answered
    <3>4. CASE ~Active
      BY <2>1, <3>1, <3>4 DEF ExchangeInv, Active
    <3> QED BY <2>3, <3>2, <3>3, <3>4
  <2> QED BY <2>4, <2>5
<1>4. CASE TakeEnd
  BY <1>4, <1>t DEF ExchangeInv, TakeEnd, NoneLeft, IsRunning, Active, childVars
<1>5. CASE Timeout
  <2>1. child = "hung"
    BY <1>5, <1>l DEF Timeout
  <2> QED BY <1>5, <2>1 DEF ExchangeInv, Timeout, Active, childVars
<1>6. CASE StopProcess
  BY <1>6 DEF ExchangeInv, StopProcess, Kill
<1>7. CASE ParentDies \/ ReadLog \/ EndReader
  BY <1>7, <1>t DEF ExchangeInv, Active, Queued, InCall, Answered, ParentDies, ReadLog,
     EndReader,
     callerVars, childVars, world
<1>8. CASE Connect
  BY <1>8, <1>t DEF ExchangeInv, Active, StartInv, Connect, callerVars
<1>9. CASE ReadCommand
  <2>1. CASE at = "waiting" /\ parent
    <3>1. Queued \/ Answered
      BY <1>9, <2>1, <1>t DEF ExchangeInv, ReadCommand, Active, InCall
    <3>2. Queued
      BY <1>9, <2>1, <3>1 DEF ReadCommand, Answered, NothingComes
    <3>3. Head(cmds) = [kind |-> call, of |-> asked] /\ Tail(cmds) = <<>> /\ cmds # <<>>
      BY <3>2 DEF Queued
    <3>4. InCall'
      BY <1>9, <3>2, <3>3, EmptySeq DEF ReadCommand, Queued, InCall, NothingComes, callerVars
    <3> QED BY <1>9, <2>1, <3>4 DEF ExchangeInv, ReadCommand, callerVars
  <2>2. CASE ~(at = "waiting" /\ parent)
    BY <1>9, <2>2, <1>t DEF ExchangeInv, ReadCommand, Active, callerVars, world
  <2> QED BY <2>1, <2>2
<1>10. CASE BeginLog \/ WriteLog
  BY <1>10, <1>t DEF ExchangeInv, BeginLog, WriteLog, Active, Queued, InCall, Answered,
     callerVars, world
<1>11. CASE SendToken
  <2>1. UNCHANGED <<callerVars, childVars, cmds, parent>> /\ child = "calling"
    BY <1>11 DEF SendToken, world
  <2>2. CASE at = "waiting" /\ parent
    <3>1. InCall
      BY <2>1, <2>2, <1>l, CallIsAwaited
    <3>2. call = "infer" /\ doing \in Command /\ doing.of \in 1 .. MaxCalls
      BY <1>11, <3>1, <1>t DEF SendToken, InCall, ChildInv, Command
    <3>3. [type |-> "token", of |-> doing.of, good |-> TRUE] \in Message
      BY <3>2, NewMessage
    <3>4. resp' = Append(resp, [type |-> "token", of |-> doing.of, good |-> TRUE])
      BY <1>11, <2>2 DEF SendToken
    <3>5. \A i \in 1 .. Len(resp') : resp'[i].type # "result"
      BY <3>1, <3>3, <3>4, <1>r, AppendFacts DEF InCall
    <3> QED BY <2>1, <2>2, <3>1, <3>2, <3>5 DEF ExchangeInv, InCall, callerVars, childVars
  <2>3. CASE ~(at = "waiting" /\ parent)
    BY <2>1, <2>3, <1>t DEF ExchangeInv, Active, callerVars, childVars
  <2> QED BY <2>2, <2>3
<1>12. CASE Handle
  <2>1. UNCHANGED <<callerVars, cmds, parent>> /\ child = "calling"
    BY <1>12 DEF Handle, world
  <2>2. CASE at = "waiting" /\ parent
    <3>1. InCall
      BY <2>1, <2>2, <1>l, CallIsAwaited
    <3>2. doing.kind = call /\ doing.of = asked /\ doing \in Command /\ call \in Call
      BY <2>1, <2>2, <3>1, <1>t DEF InCall, ChildInv, ResponseInv
    <3>3. HasHandler(call)
      BY <2>2, <3>1, <1>t DEF HasHandler, InCall, ResponseInv
    <3>4. PICK good \in BOOLEAN :
            /\ Perform(call, good)
            /\ resp' = Append(resp, [type |-> "result", of |-> asked, good |-> good])
      BY <1>12, <2>2, <3>2, <3>3 DEF Handle, CallPlugin
    <3>5. [type |-> "result", of |-> asked, good |-> good] \in Message
      BY <3>2, NewMessage DEF Command
    <3>6. resp' # <<>> /\ resp'[Len(resp')] = [type |-> "result", of |-> asked, good |-> good]
      BY <3>4, <3>5, <1>r, AppendFacts
    <3>7. plugin' = After(call, good, view)
      BY <3>1, <3>2, <3>4, <1>t, PerformIsAfter DEF InCall, TypeOK
    <3>8. child' \in {"reading", "leaving"}
      BY <1>12 DEF Handle
    <3>9. Answered'
      BY <2>1, <3>1, <3>6, <3>7, <3>8 DEF Answered, InCall, callerVars
    <3> QED BY <2>1, <2>2, <3>9 DEF ExchangeInv, callerVars
  <2>3. CASE ~(at = "waiting" /\ parent)
    BY <2>1, <2>3, <1>t DEF ExchangeInv, Active, callerVars
  <2> QED BY <2>2, <2>3
<1>13. CASE Leave \/ Crash \/ Hang
  BY <1>13 DEF ExchangeInv, Leave, Crash, Hang, Active
<1> QED
  BY <1>0, <1>1, <1>2, <1>3, <1>4, <1>5, <1>6, <1>7, <1>8, <1>9, <1>10, <1>11, <1>12, <1>13
  DEF Next, Caller, Reader, Client, Done

-----------------------------------------------------------------------------
(* The theorems.                                                           *)

LEMMA InvStep == IInv /\ [Next]_vars => IInv'
BY TypeStep, StartStep, ChildStep, NumberStep, EndStep, LateStep, ResponseStep,
   ExchangeStep DEF IInv

\* The invariant holds of every behaviour, whatever is lost, hangs, crashes or
\* comes too late (CIL/api_handler_ipc*.cpp).
THEOREM Invariance == Spec => []IInv
<1>1. IInv /\ [Next]_vars => IInv'
  BY InvStep
<1> QED BY InitInv, <1>1, PTL DEF Spec

\* Every variable keeps its type; channels hold messages of commands that can be sent.
THEOREM TypeCorrect == Spec => []TypeOK
<1>1. IInv => TypeOK
  BY DEF IInv
<1> QED BY Invariance, <1>1, PTL

\* As long as no command timed out, answers and tokens belong to the command they
\* are taken for, and the caller believes of the plugin what is true, although
\* messages carry no number and the child may crash or hang at any moment.
THEOREM SeesPlugin == Spec => []CallerSeesPlugin
<1>1. IInv => CallerSeesPlugin
  <2>1. ASSUME IInv, late = 0
        PROVE  AnswersMatch /\ ViewIsTrue
    <3>1. NumberInv /\ StartInv /\ ResponseInv /\ ExchangeInv /\ TypeOK
      BY <2>1 DEF IInv
    <3>2. at = "idle" /\ IsRunning /\ child # "hung" => Active
      BY <3>1 DEF IsRunning, Active, TypeOK, StartInv
    <3> QED BY <2>1, <3>1, <3>2
            DEF NumberInv, ResponseInv, ExchangeInv, Active, AnswersMatch, ViewIsTrue
  <2>2. ASSUME IInv, late # 0
        PROVE  AnswersMatch /\ ViewIsTrue
    BY <2>2 DEF IInv, NumberInv, AnswersMatch, ViewIsTrue
  <2> QED BY <2>1, <2>2 DEF CallerSeesPlugin
<1> QED BY Invariance, <1>1, PTL

\* Stop returns with the child gone and the log thread over, and a child that was
\* not killed has released its plugin.
THEOREM EndsCleanly == Spec => []EndsClean
<1>1. IInv => EndsClean
  BY DEF IInv, EndInv, EndsClean, StopEndsChild
<1> QED BY Invariance, <1>1, PTL

-----------------------------------------------------------------------------
(* Induction and loops.                                                    *)

\* Induction over 0 .. n, for the set of the numbers a formula holds of.
LEMMA Induction ==
  ASSUME NEW n \in Nat, NEW S, 0 \in S, \A k \in 0 .. n - 1 : k \in S => k + 1 \in S
  PROVE  \A k \in 0 .. n : k \in S
<1> DEFINE R == OpToRel(<, Nat)
           B == {k \in 0 .. n : k \notin S}
<1>1. SUFFICES ASSUME B # {} PROVE FALSE
  OBVIOUS
<1>2. IsWellFoundedOn(R, Nat)
  BY NatLessThanWellFounded
<1>a. B \subseteq Nat
  OBVIOUS
<1> HIDE DEF R
<1>3. PICK x \in B : \A y \in B : ~(<<y, x>> \in R)
  BY <1>1, <1>2, <1>a, WFMin
<1>4. \A y \in B : ~(y < x)
  BY <1>a, <1>3 DEF R, OpToRel
<1>5. x \in 1 .. n
  BY <1>3
<1>6. x - 1 \in 0 .. n - 1 /\ x - 1 < x /\ x - 1 + 1 = x
  BY <1>5
<1>7. x - 1 \in S
  BY <1>4, <1>6
<1> QED
  BY <1>3, <1>6, <1>7

\* A loop of n turns: from a value to the next by a function of the turn and the value.
Turns(n, T) == [(1 .. n) \X T -> T]
Loops(n, T, a, step) ==
  {f \in [0 .. n -> T] : f[0] = a /\ \A i \in 1 .. n : f[i] = step[<<i, f[i - 1]>>]}

\* Such a loop exists, and therefore has values.
LEMMA LoopExists ==
  ASSUME NEW n \in Nat, NEW T, NEW a \in T, NEW step \in Turns(n, T)
  PROVE  Loops(n, T, a, step) # {}
<1> USE DEF Turns
<1> DEFINE Upto(k, g) == g[0] = a /\ \A i \in 1 .. n : i <= k => g[i] = step[<<i, g[i - 1]>>]
           S == {k \in 0 .. n : \E g \in [0 .. n -> T] : Upto(k, g)}
<1>1. 0 \in S
  <2>1. [i \in 0 .. n |-> a] \in [0 .. n -> T] /\ Upto(0, [i \in 0 .. n |-> a])
    OBVIOUS
  <2> QED
    BY <2>1
<1>2. ASSUME NEW k \in 0 .. n - 1, k \in S PROVE k + 1 \in S
  <2>1. PICK g \in [0 .. n -> T] : Upto(k, g)
    BY <1>2
  <2>2. k \in 0 .. n /\ k + 1 \in 1 .. n /\ g[k] \in T
    OBVIOUS
  <2>3. PICK v \in T : v = step[<<k + 1, g[k]>>]
    BY <2>2
  <2> DEFINE h == [g EXCEPT ![k + 1] = v]
  <2>4. h \in [0 .. n -> T] /\ h[0] = a
    BY <2>1, <2>2
  <2>5. ASSUME NEW i \in 1 .. n, i <= k + 1 PROVE h[i] = step[<<i, h[i - 1]>>]
    <3>1. i - 1 \in 0 .. n /\ i - 1 # k + 1 /\ i \in 0 .. n
      BY <2>2, <2>5
    <3>2. h[i - 1] = g[i - 1]
      BY <3>1
    <3>3. CASE i = k + 1
      <4>1. h[i] = v /\ i - 1 = k
        BY <2>2, <3>3
      <4> QED
        BY <2>3, <3>2, <3>3, <4>1
    <3>4. CASE i # k + 1
      <4>1. i <= k
        BY <2>2, <2>5, <3>4
      <4>2. h[i] = g[i]
        BY <3>1, <3>4
      <4> QED
        BY <2>1, <3>2, <4>1, <4>2
    <3> QED
      BY <3>3, <3>4
  <2>6. Upto(k + 1, h)
    BY <2>4, <2>5
  <2> HIDE DEF h, Upto
  <2> QED
    BY <2>2, <2>4, <2>6
<1>3. \A k \in 0 .. n : k \in S
  <2> HIDE DEF S
  <2> QED
    BY <1>1, <1>2, Induction
<1>4. PICK g \in [0 .. n -> T] : Upto(n, g)
  BY <1>3
<1> QED
  BY <1>4 DEF Loops

-----------------------------------------------------------------------------
(* Plugins: the invariants of the libraries but Windows ML's.              *)

\* What every plugin but Windows ML's keeps: without an object there is nothing,
\* and a session that has not begun has no history.
VendorInv ==
  /\ plugin # "misused"
  /\ plugin \in {"none"} \cup Released => ~inference
  /\ ~inference => ~initialized /\ ~message /\ owned = {} /\ dangling = {} /\ ~dirty /\ output = {}
  /\ plugin = "none" => lost = {} /\ reused = {} /\ ~failedInit

\* The llama.cpp library: tokens stay only where a message does.
LlamaInv ==
  /\ layers \in 0 .. TotalLayers /\ capacity \in -1 .. TotalLayers
  /\ dirty => message
  /\ output = {}
  /\ LlamaCpp!Serves

\* The QNN library: what failed to be freed keeps a message.
QnnInv ==
  /\ dangling # {} => message
  /\ message => plugin \in {"idle", "broken", "ran"}
  /\ dirty \/ output # {} => message \/ plugin = "ran"
  /\ NativeQNN!Serves

\* Both ONNX Runtime GenAI libraries: the configuration is changed only for a model
\* that is loaded or by an Init that failed.
OrtCommon ==
  /\ plugin = "idle" => ~initialized
  /\ plugin \in {"loaded", "prepared"} => ~message
  /\ initialized => {"model", "params"} \subseteq owned
  /\ ~initialized /\ (message \/ plugin = "broken") => failedInit
  /\ ~initialized /\ ~message => owned = {}
  /\ failedInit => spoiled
  /\ ~spoiled => /\ keptConfig # "adapted"
                 /\ config # "shipped" => initialized /\ keptConfig = "shipped"
  /\ output \subseteq {"this"}

\* The one that makes a generator for each run holds the model only between runs.
OrtInv ==
  /\ OrtCommon
  /\ ~dirty /\ dangling = {}
  /\ initialized /\ ~message => owned = {"model", "params"}
  /\ OrtGenAI!Serves

\* The one that keeps its generator has it for the next run.
RyzenInv ==
  /\ OrtCommon
  /\ dirty => message
  /\ ~initialized => dangling = {}
  /\ initialized /\ ~message => {"generator", "sequences"} \subseteq owned
  /\ OrtGenAI!ServesRyzenAI

\* The OpenVINO library.
OpenVinoInv ==
  /\ ~dirty /\ output \subseteq {"this"}
  /\ scenario = "text" => output = {}
  /\ plugin \in {"loaded", "prepared"} => ~message
  /\ owned \subseteq {"pipeline"}
  /\ NativeOpenVINO!Serves

\* The MLX library: what a failed loading leaves behind is never used in a run.
MlxInv ==
  /\ output \subseteq {"this"}
  /\ plugin \in {"loaded", "prepared"} => ~message
  /\ plugin = "prepared" => output = {}
  /\ dangling # {} /\ plugin = "broken" => failedInit
  /\ dangling \subseteq {"model"}
  /\ scenario = "image" => ~dirty /\ dangling = {} /\ owned \subseteq {"pipeline"}
  /\ scenario = "text" => owned \subseteq {"model", "cache"}
  /\ MLX!Serves

\* The Diffusers library: a pipeline needs the packages in the interpreter.
DiffusersInv ==
  /\ ~dirty /\ output \subseteq {"this"} /\ owned \subseteq {"pipeline"}
  /\ initialized => python = "installed"
  /\ plugin = "broken" => failedInit /\ ~initialized
  /\ ~initialized => output = {}
  /\ Diffusers!Serves

\* Every step of a session with the QNN library keeps its invariant.
LEMMA NativeQNNStep ==
  ASSUME PluginsTypeOK, VendorInv, QnnInv, library = "NativeQNN", UseNativeQNN
  PROVE  (PluginsTypeOK /\ VendorInv /\ QnnInv)'
<1> USE DEF common, kept, llama, ortGenAI, windowsML, PluginState, Released, NativeQNN!object,
            NativeQNN!history, NativeQNN!vendor, NativeQNN!Report, NativeQNN!KeepPointers,
            NativeQNN!KeepRun, NativeQNN!Assigned, NativeQNN!Running, NativeQNN!ServesRuns,
            NativeQNN!Released, NativeQNN!Serves
<1>1. CASE NativeQNN!API_IHV_Setup
  <2> USE DEF UseNativeQNN, NativeQNN!API_IHV_Setup, NativeQNN!SetupObject,
              NativeQNN!SetupRefused, NativeQNN!LlmInference
  <2>1. /\ plugin = "none" /\ plugin' \in {"none", "idle"}
        /\ plugin' = "none" => UNCHANGED NativeQNN!vendor
    BY <1>1 DEF PluginsTypeOK, NativeQNN!Reply, NativeQNN!Perform, NativeQNN!Answer,
       NativeQNN!Setup
  <2>a. /\ plugin = "none"
        /\ UNCHANGED <<NativeQNN!object, NativeQNN!history, failedInit>>
        /\ plugin' = "idle" \/ (plugin' = "none" /\ UNCHANGED inference)
        /\ inference' \in BOOLEAN
    BY <1>1, <2>1 DEF PluginsTypeOK
  <2>b. /\ ~inference /\ ~initialized /\ ~message /\ ~dirty
        /\ owned = {} /\ dangling = {} /\ output = {}
        /\ lost = {} /\ reused = {} /\ ~failedInit
    BY <2>a DEF VendorInv
  <2> HIDE DEF NativeQNN!SetupObject, NativeQNN!SetupRefused
  <2>2. PluginsTypeOK'
    BY <1>1, <2>a, <2>b, <2>1 DEF PluginsTypeOK, VendorInv, QnnInv
  <2>3. VendorInv'
    BY <1>1, <2>a, <2>b, <2>1 DEF PluginsTypeOK, VendorInv, QnnInv
  <2>4. QnnInv'
    BY <1>1, <2>a, <2>b, <2>1 DEF PluginsTypeOK, VendorInv, QnnInv
  <2> QED
    BY <2>2, <2>3, <2>4
<1>2. CASE NativeQNN!NotHandled
  <2> USE DEF UseNativeQNN, NativeQNN!NotHandled, NativeQNN!Unhandled
  <2>1. \/ plugin = "idle" /\ plugin' = "broken" /\ failedInit'
        \/ /\ ~inference /\ failedInit' = failedInit
           /\ \/ plugin \in {"loaded", "broken"} /\ plugin' = "broken"
              \/ plugin \in {"loaded", "broken", "prepared", "ran"} /\ plugin' = "idle"
              \/ plugin = "prepared" /\ plugin' = "ran"
              \/ plugin = "ran" /\ plugin' = "broken"
    BY <1>2 DEF PluginsTypeOK, NativeQNN!Reply, NativeQNN!Perform, NativeQNN!Answer,
       NativeQNN!InitModel, NativeQNN!Prepare, NativeQNN!Infer, NativeQNN!Reset,
       NativeQNN!Deinit
  <2>2. PluginsTypeOK'
    BY <1>2, <2>1 DEF PluginsTypeOK, VendorInv, QnnInv
  <2>3. VendorInv'
    BY <1>2, <2>1 DEF PluginsTypeOK, VendorInv, QnnInv
  <2>4. QnnInv'
    BY <1>2, <2>1 DEF PluginsTypeOK, VendorInv, QnnInv
  <2> QED
    BY <2>2, <2>3, <2>4
<1>3. CASE NativeQNN!API_IHV_Init
  <2> USE DEF UseNativeQNN, NativeQNN!API_IHV_Init, NativeQNN!Handle,
              NativeQNN!LlmInference_Init, NativeQNN!FillConfigString, NativeQNN!DialogNotMade,
              NativeQNN!ConfigNotFreed, NativeQNN!DialogMade
  <2>1. inference /\ plugin = "idle" /\ plugin' = IF ~message' THEN "loaded" ELSE "broken"
    BY <1>3 DEF PluginsTypeOK, NativeQNN!Reply, NativeQNN!Perform, NativeQNN!Answer,
       NativeQNN!InitModel
  <2>2. PluginsTypeOK'
    BY <1>3, <2>1 DEF PluginsTypeOK, VendorInv, QnnInv
  <2>3. VendorInv'
    BY <1>3, <2>1 DEF PluginsTypeOK, VendorInv, QnnInv
  <2>4. QnnInv'
    BY <1>3, <2>1 DEF PluginsTypeOK, VendorInv, QnnInv
  <2> QED
    BY <2>2, <2>3, <2>4
<1>4. CASE NativeQNN!API_IHV_Prepare
  <2> USE DEF UseNativeQNN, NativeQNN!API_IHV_Prepare, NativeQNN!Handle
  <2>1. /\ inference /\ plugin \in {"loaded", "broken"}
        /\ plugin' = IF ~message' /\ plugin = "loaded" THEN "prepared" ELSE "broken"
    BY <1>4 DEF PluginsTypeOK, NativeQNN!Reply, NativeQNN!Perform, NativeQNN!Answer,
       NativeQNN!Prepare
  <2>2. PluginsTypeOK'
    BY <1>4, <2>1 DEF PluginsTypeOK, VendorInv, QnnInv
  <2>3. VendorInv'
    BY <1>4, <2>1 DEF PluginsTypeOK, VendorInv, QnnInv
  <2>4. QnnInv'
    BY <1>4, <2>1 DEF PluginsTypeOK, VendorInv, QnnInv
  <2> QED
    BY <2>2, <2>3, <2>4
<1>5. CASE NativeQNN!API_IHV_Infer
  <2> USE DEF UseNativeQNN, NativeQNN!API_IHV_Infer, NativeQNN!Handle,
              NativeQNN!LlmInference_Run, NativeQNN!Appended
  <2>1. inference /\ plugin = "prepared" /\ plugin' = "ran"
    BY <1>5 DEF PluginsTypeOK, NativeQNN!Reply, NativeQNN!Perform, NativeQNN!Answer,
       NativeQNN!Infer
  <2>2. PluginsTypeOK'
    BY <1>5, <2>1 DEF PluginsTypeOK, VendorInv, QnnInv
  <2>3. VendorInv'
    BY <1>5, <2>1 DEF PluginsTypeOK, VendorInv, QnnInv
  <2>4. QnnInv'
    BY <1>5, <2>1 DEF PluginsTypeOK, VendorInv, QnnInv
  <2> QED
    BY <2>2, <2>3, <2>4
<1>6. CASE NativeQNN!API_IHV_Reset
  <2> USE DEF UseNativeQNN, NativeQNN!API_IHV_Reset, NativeQNN!Handle,
              NativeQNN!LlmInference_Reset
  <2>1. inference /\ plugin = "ran" /\ plugin' = IF ~message' THEN "loaded" ELSE "broken"
    BY <1>6 DEF PluginsTypeOK, NativeQNN!Reply, NativeQNN!Perform, NativeQNN!Answer,
       NativeQNN!Reset
  <2>2. PluginsTypeOK'
    BY <1>6, <2>1 DEF PluginsTypeOK, VendorInv, QnnInv
  <2>3. VendorInv'
    BY <1>6, <2>1 DEF PluginsTypeOK, VendorInv, QnnInv
  <2>4. QnnInv'
    BY <1>6, <2>1 DEF PluginsTypeOK, VendorInv, QnnInv
  <2> QED
    BY <2>2, <2>3, <2>4
<1>7. CASE NativeQNN!API_IHV_Deinit
  <2> USE DEF UseNativeQNN, NativeQNN!API_IHV_Deinit, NativeQNN!Handle,
              NativeQNN!LlmInference_Deinit, NativeQNN!DialogStays, NativeQNN!ModulesStay,
              NativeQNN!Unloads
  <2>1. inference /\ plugin \in {"loaded", "broken", "prepared", "ran"} /\ plugin' = "idle"
    BY <1>7 DEF PluginsTypeOK, NativeQNN!Reply, NativeQNN!Perform, NativeQNN!Answer,
       NativeQNN!Deinit
  <2>2. PluginsTypeOK'
    BY <1>7, <2>1 DEF PluginsTypeOK, VendorInv, QnnInv
  <2>3. VendorInv'
    BY <1>7, <2>1 DEF PluginsTypeOK, VendorInv, QnnInv
  <2>4. QnnInv'
    BY <1>7, <2>1 DEF PluginsTypeOK, VendorInv, QnnInv
  <2> QED
    BY <2>2, <2>3, <2>4
<1>8. CASE NativeQNN!API_IHV_Release
  <2> USE DEF UseNativeQNN, NativeQNN!API_IHV_Release, NativeQNN!ReleaseObject, NativeQNN!ObjectGone
  <2>1. /\ plugin \in {"idle", "loaded", "broken", "prepared", "ran"}
        /\ plugin' \in {"released", "leaked"}
    BY <1>8 DEF PluginsTypeOK, NativeQNN!Reply, NativeQNN!Perform, NativeQNN!Answer,
       NativeQNN!Release, NativeQNN!PluginState
  <2>2. PluginsTypeOK'
    BY <1>8, <2>1 DEF PluginsTypeOK, VendorInv, QnnInv
  <2>3. VendorInv'
    BY <1>8, <2>1 DEF PluginsTypeOK, VendorInv, QnnInv
  <2>4. QnnInv'
    BY <1>8, <2>1 DEF PluginsTypeOK, VendorInv, QnnInv
  <2> QED
    BY <2>2, <2>3, <2>4
<1> QED
  BY <1>1, <1>2, <1>3, <1>4, <1>5, <1>6, <1>7, <1>8 DEF UseNativeQNN, NativeQNN!Next

\* Every step of a session with the OpenVINO library keeps its invariant.
LEMMA OpenVINOStep ==
  ASSUME PluginsTypeOK, VendorInv, OpenVinoInv, library = "NativeOpenVINO", UseNativeOpenVINO
  PROVE  (PluginsTypeOK /\ VendorInv /\ OpenVinoInv)'
<1> USE DEF common, kept, llama, ortGenAI, windowsML, PluginState, Released,
            NativeOpenVINO!object, NativeOpenVINO!history, NativeOpenVINO!vendor,
            NativeOpenVINO!Report, NativeOpenVINO!KeepPointers, NativeOpenVINO!KeepRun,
            NativeOpenVINO!Assigned, NativeOpenVINO!Running, NativeOpenVINO!ServesRuns,
            NativeOpenVINO!Released, NativeOpenVINO!Serves
<1>1. CASE NativeOpenVINO!API_IHV_Setup
  <2> USE DEF UseNativeOpenVINO, NativeOpenVINO!API_IHV_Setup, NativeOpenVINO!SetupObject,
              NativeOpenVINO!SetupRefused, NativeOpenVINO!BaseInference
  <2>1. /\ plugin = "none" /\ plugin' \in {"none", "idle"}
        /\ plugin' = "none" => UNCHANGED NativeOpenVINO!vendor
    BY <1>1 DEF PluginsTypeOK, NativeOpenVINO!Reply, NativeOpenVINO!Perform,
       NativeOpenVINO!Answer, NativeOpenVINO!Setup
  <2>a. /\ plugin = "none"
        /\ UNCHANGED <<NativeOpenVINO!object, NativeOpenVINO!history, failedInit>>
        /\ plugin' = "idle" \/ (plugin' = "none" /\ UNCHANGED inference)
        /\ inference' \in BOOLEAN
    BY <1>1, <2>1 DEF PluginsTypeOK
  <2>b. /\ ~inference /\ ~initialized /\ ~message /\ ~dirty
        /\ owned = {} /\ dangling = {} /\ output = {}
        /\ lost = {} /\ reused = {} /\ ~failedInit
    BY <2>a DEF VendorInv
  <2> HIDE DEF NativeOpenVINO!SetupObject, NativeOpenVINO!SetupRefused
  <2>2. PluginsTypeOK'
    BY <1>1, <2>a, <2>b, <2>1 DEF PluginsTypeOK, VendorInv, OpenVinoInv
  <2>3. VendorInv'
    BY <1>1, <2>a, <2>b, <2>1 DEF PluginsTypeOK, VendorInv, OpenVinoInv
  <2>4. OpenVinoInv'
    BY <1>1, <2>a, <2>b, <2>1 DEF PluginsTypeOK, VendorInv, OpenVinoInv
  <2> QED
    BY <2>2, <2>3, <2>4
<1>2. CASE NativeOpenVINO!NotHandled /\ UNCHANGED scenario
  <2> USE DEF UseNativeOpenVINO, NativeOpenVINO!NotHandled, NativeOpenVINO!Unhandled
  <2>1. \/ plugin = "idle" /\ plugin' = "broken" /\ failedInit'
        \/ /\ ~inference /\ failedInit' = failedInit
           /\ \/ plugin \in {"loaded", "broken"} /\ plugin' = "broken"
              \/ plugin \in {"loaded", "broken", "prepared", "ran"} /\ plugin' = "idle"
              \/ plugin = "prepared" /\ plugin' = "ran"
              \/ plugin = "ran" /\ plugin' = "broken"
    BY <1>2 DEF PluginsTypeOK, NativeOpenVINO!Reply, NativeOpenVINO!Perform,
       NativeOpenVINO!Answer, NativeOpenVINO!InitModel, NativeOpenVINO!Prepare,
       NativeOpenVINO!Infer, NativeOpenVINO!Reset, NativeOpenVINO!Deinit
  <2>2. PluginsTypeOK'
    BY <1>2, <2>1 DEF PluginsTypeOK, VendorInv, OpenVinoInv
  <2>3. VendorInv'
    BY <1>2, <2>1 DEF PluginsTypeOK, VendorInv, OpenVinoInv
  <2>4. OpenVinoInv'
    BY <1>2, <2>1 DEF PluginsTypeOK, VendorInv, OpenVinoInv
  <2> QED
    BY <2>2, <2>3, <2>4
<1>3. CASE NativeOpenVINO!API_IHV_Init /\ UNCHANGED scenario
  <2> USE DEF UseNativeOpenVINO, NativeOpenVINO!API_IHV_Init, NativeOpenVINO!Handle,
              NativeOpenVINO!OfScenario, NativeOpenVINO!LLMInference_Init,
              NativeOpenVINO!ImageInference_Init, NativeOpenVINO!Unusable,
              NativeOpenVINO!Replaces
  <2>1. inference /\ plugin = "idle" /\ plugin' = IF ~message' THEN "loaded" ELSE "broken"
    BY <1>3 DEF PluginsTypeOK, NativeOpenVINO!Reply, NativeOpenVINO!Perform,
       NativeOpenVINO!Answer, NativeOpenVINO!InitModel
  <2>2. PluginsTypeOK'
    BY <1>3, <2>1 DEF PluginsTypeOK, VendorInv, OpenVinoInv
  <2>3. VendorInv'
    BY <1>3, <2>1 DEF PluginsTypeOK, VendorInv, OpenVinoInv
  <2>4. inference' = inference /\ scenario' = scenario /\ failedInit' = (failedInit \/ message')
    BY <1>3
  <2>5. CASE scenario = "text"
    <3>1. NativeOpenVINO!LLMInference_Init
      BY <1>3, <2>5
    <3> QED
      BY <2>1, <2>4, <2>5, <3>1 DEF PluginsTypeOK, VendorInv, OpenVinoInv,
         NativeOpenVINO!LLMInference_Init, NativeOpenVINO!Unusable, NativeOpenVINO!Replaces
  <2>6. CASE scenario = "image"
    <3>1. NativeOpenVINO!ImageInference_Init
      BY <1>3, <2>6
    <3> QED
      BY <2>1, <2>4, <2>6, <3>1 DEF PluginsTypeOK, VendorInv, OpenVinoInv,
         NativeOpenVINO!ImageInference_Init
  <2> QED
    BY <2>2, <2>3, <2>5, <2>6 DEF PluginsTypeOK
<1>4. CASE NativeOpenVINO!API_IHV_Prepare /\ UNCHANGED scenario
  <2> USE DEF UseNativeOpenVINO, NativeOpenVINO!API_IHV_Prepare, NativeOpenVINO!Handle,
              NativeOpenVINO!OfScenario, NativeOpenVINO!ImageInference_Prepare
  <2>1. /\ inference /\ plugin \in {"loaded", "broken"}
        /\ plugin' = IF ~message' /\ plugin = "loaded" THEN "prepared" ELSE "broken"
    BY <1>4 DEF PluginsTypeOK, NativeOpenVINO!Reply, NativeOpenVINO!Perform,
       NativeOpenVINO!Answer, NativeOpenVINO!Prepare
  <2>2. PluginsTypeOK'
    BY <1>4, <2>1 DEF PluginsTypeOK, VendorInv, OpenVinoInv
  <2>3. VendorInv'
    BY <1>4, <2>1 DEF PluginsTypeOK, VendorInv, OpenVinoInv
  <2>4. inference' = inference /\ scenario' = scenario /\ failedInit' = (failedInit \/ FALSE)
    BY <1>4
  <2>5. CASE scenario = "text"
    <3>1. UNCHANGED <<NativeOpenVINO!object, NativeOpenVINO!history>>
      BY <1>4, <2>5
    <3> QED
      BY <2>1, <2>4, <2>5, <3>1 DEF PluginsTypeOK, VendorInv, OpenVinoInv,
         NativeOpenVINO!object, NativeOpenVINO!history
  <2>6. CASE scenario = "image"
    <3>1. NativeOpenVINO!ImageInference_Prepare
      BY <1>4, <2>6
    <3> QED
      BY <2>1, <2>4, <2>6, <3>1 DEF PluginsTypeOK, VendorInv, OpenVinoInv,
         NativeOpenVINO!ImageInference_Prepare
  <2> QED
    BY <2>2, <2>3, <2>5, <2>6 DEF PluginsTypeOK
<1>5. CASE NativeOpenVINO!API_IHV_Infer /\ UNCHANGED scenario
  <2> USE DEF UseNativeOpenVINO, NativeOpenVINO!API_IHV_Infer, NativeOpenVINO!Handle,
              NativeOpenVINO!OfScenario, NativeOpenVINO!LLMInference_Run,
              NativeOpenVINO!ImageInference_Run
  <2>1. inference /\ plugin = "prepared" /\ plugin' = "ran"
    BY <1>5 DEF PluginsTypeOK, NativeOpenVINO!Reply, NativeOpenVINO!Perform,
       NativeOpenVINO!Answer, NativeOpenVINO!Infer
  <2>2. PluginsTypeOK'
    BY <1>5, <2>1 DEF PluginsTypeOK, VendorInv, OpenVinoInv
  <2>3. VendorInv'
    BY <1>5, <2>1 DEF PluginsTypeOK, VendorInv, OpenVinoInv
  <2>4. inference' = inference /\ scenario' = scenario /\ failedInit' = (failedInit \/ FALSE)
    BY <1>5
  <2>5. CASE scenario = "text"
    <3>1. NativeOpenVINO!LLMInference_Run
      BY <1>5, <2>5
    <3> QED
      BY <2>1, <2>4, <2>5, <3>1 DEF PluginsTypeOK, VendorInv, OpenVinoInv,
         NativeOpenVINO!LLMInference_Run
  <2>6. CASE scenario = "image"
    <3>1. NativeOpenVINO!ImageInference_Run
      BY <1>5, <2>6
    <3> QED
      BY <2>1, <2>4, <2>6, <3>1 DEF PluginsTypeOK, VendorInv, OpenVinoInv,
         NativeOpenVINO!ImageInference_Run
  <2> QED
    BY <2>2, <2>3, <2>5, <2>6 DEF PluginsTypeOK
<1>6. CASE NativeOpenVINO!API_IHV_Reset /\ UNCHANGED scenario
  <2> USE DEF UseNativeOpenVINO, NativeOpenVINO!API_IHV_Reset, NativeOpenVINO!Handle
  <2>1. inference /\ plugin = "ran" /\ plugin' = IF ~message' THEN "loaded" ELSE "broken"
    BY <1>6 DEF PluginsTypeOK, NativeOpenVINO!Reply, NativeOpenVINO!Perform,
       NativeOpenVINO!Answer, NativeOpenVINO!Reset
  <2>2. /\ UNCHANGED <<inference, NativeOpenVINO!object, NativeOpenVINO!history, scenario>>
        /\ failedInit' = (failedInit \/ FALSE)
    BY <1>6
  <2> HIDE DEF NativeOpenVINO!API_IHV_Reset, NativeOpenVINO!Handle
  <2>3. PluginsTypeOK'
    BY <2>1, <2>2 DEF PluginsTypeOK
  <2>4. VendorInv'
    BY <2>1, <2>2 DEF VendorInv
  <2>5. OpenVinoInv'
    BY <2>1, <2>2 DEF PluginsTypeOK, OpenVinoInv
  <2> QED
    BY <2>3, <2>4, <2>5
<1>7. CASE NativeOpenVINO!API_IHV_Deinit /\ UNCHANGED scenario
  <2> USE DEF UseNativeOpenVINO, NativeOpenVINO!API_IHV_Deinit, NativeOpenVINO!Handle,
              NativeOpenVINO!OfScenario, NativeOpenVINO!LLMInference_Deinit,
              NativeOpenVINO!ImageInference_Deinit
  <2>1. inference /\ plugin \in {"loaded", "broken", "prepared", "ran"} /\ plugin' = "idle"
    BY <1>7 DEF PluginsTypeOK, NativeOpenVINO!Reply, NativeOpenVINO!Perform,
       NativeOpenVINO!Answer, NativeOpenVINO!Deinit
  <2>2. PluginsTypeOK'
    BY <1>7, <2>1 DEF PluginsTypeOK, VendorInv, OpenVinoInv
  <2>3. VendorInv'
    BY <1>7, <2>1 DEF PluginsTypeOK, VendorInv, OpenVinoInv
  <2>4. inference' = inference /\ scenario' = scenario /\ failedInit' = (failedInit \/ FALSE)
    BY <1>7
  <2>5. CASE scenario = "text"
    <3>1. NativeOpenVINO!LLMInference_Deinit
      BY <1>7, <2>5
    <3> QED
      BY <2>1, <2>4, <2>5, <3>1 DEF PluginsTypeOK, VendorInv, OpenVinoInv,
         NativeOpenVINO!LLMInference_Deinit
  <2>6. CASE scenario = "image"
    <3>1. NativeOpenVINO!ImageInference_Deinit
      BY <1>7, <2>6
    <3> QED
      BY <2>1, <2>4, <2>6, <3>1 DEF PluginsTypeOK, VendorInv, OpenVinoInv,
         NativeOpenVINO!ImageInference_Deinit
  <2> QED
    BY <2>2, <2>3, <2>5, <2>6 DEF PluginsTypeOK
<1>8. CASE NativeOpenVINO!API_IHV_Release /\ UNCHANGED scenario
  <2> USE DEF UseNativeOpenVINO, NativeOpenVINO!API_IHV_Release, NativeOpenVINO!ReleaseObject,
              NativeOpenVINO!ObjectGone
  <2>1. /\ plugin \in {"idle", "loaded", "broken", "prepared", "ran"}
        /\ plugin' \in {"released", "leaked"}
    BY <1>8 DEF PluginsTypeOK, NativeOpenVINO!Reply, NativeOpenVINO!Perform,
       NativeOpenVINO!Answer, NativeOpenVINO!Release, NativeOpenVINO!PluginState
  <2>2. PluginsTypeOK'
    BY <1>8, <2>1 DEF PluginsTypeOK, VendorInv, OpenVinoInv
  <2>3. VendorInv'
    BY <1>8, <2>1 DEF PluginsTypeOK, VendorInv, OpenVinoInv
  <2>4. OpenVinoInv'
    BY <1>8, <2>1 DEF PluginsTypeOK, VendorInv, OpenVinoInv
  <2> QED
    BY <2>2, <2>3, <2>4
<1> QED
  BY <1>1, <1>2, <1>3, <1>4, <1>5, <1>6, <1>7, <1>8 DEF UseNativeOpenVINO, NativeOpenVINO!Next

\* Every step of a session with the MLX library keeps its invariant.
LEMMA MLXStep ==
  ASSUME PluginsTypeOK, VendorInv, MlxInv, library = "MLX", UseMLX
  PROVE  (PluginsTypeOK /\ VendorInv /\ MlxInv)'
<1> USE DEF common, kept, llama, ortGenAI, windowsML, PluginState, Released, MLX!object,
            MLX!history, MLX!vendor, MLX!Report, MLX!KeepPointers, MLX!KeepRun, MLX!Assigned,
            MLX!Running, MLX!ServesRuns, MLX!Released, MLX!Serves
<1>1. CASE MLX!API_IHV_Setup
  <2> USE DEF UseMLX, MLX!API_IHV_Setup, MLX!SetupObject, MLX!SetupRefused, MLX!Constructed
  <2>1. /\ plugin = "none" /\ plugin' \in {"none", "idle"}
        /\ plugin' = "none" => UNCHANGED MLX!vendor
    BY <1>1 DEF PluginsTypeOK, MLX!Reply, MLX!Perform, MLX!Answer, MLX!Setup
  <2>a. /\ plugin = "none"
        /\ UNCHANGED <<MLX!object, MLX!history, failedInit>>
        /\ plugin' = "idle" \/ (plugin' = "none" /\ UNCHANGED inference)
        /\ inference' \in BOOLEAN
    BY <1>1, <2>1 DEF PluginsTypeOK
  <2>b. /\ ~inference /\ ~initialized /\ ~message /\ ~dirty
        /\ owned = {} /\ dangling = {} /\ output = {}
        /\ lost = {} /\ reused = {} /\ ~failedInit
    BY <2>a DEF VendorInv
  <2> HIDE DEF MLX!SetupObject, MLX!SetupRefused
  <2>2. PluginsTypeOK'
    BY <1>1, <2>a, <2>b, <2>1 DEF PluginsTypeOK, VendorInv, MlxInv
  <2>3. VendorInv'
    BY <1>1, <2>a, <2>b, <2>1 DEF PluginsTypeOK, VendorInv, MlxInv
  <2>4. MlxInv'
    BY <1>1, <2>a, <2>b, <2>1 DEF PluginsTypeOK, VendorInv, MlxInv
  <2> QED
    BY <2>2, <2>3, <2>4
<1>2. CASE MLX!NotHandled /\ UNCHANGED scenario
  <2> USE DEF UseMLX, MLX!NotHandled, MLX!Unhandled
  <2>1. \/ plugin = "idle" /\ plugin' = "broken" /\ failedInit'
        \/ /\ ~inference /\ failedInit' = failedInit
           /\ \/ plugin \in {"loaded", "broken"} /\ plugin' = "broken"
              \/ plugin \in {"loaded", "broken", "prepared", "ran"} /\ plugin' = "idle"
              \/ plugin = "prepared" /\ plugin' = "ran"
              \/ plugin = "ran" /\ plugin' = "broken"
    BY <1>2 DEF PluginsTypeOK, MLX!Reply, MLX!Perform, MLX!Answer, MLX!InitModel,
       MLX!Prepare, MLX!Infer, MLX!Reset, MLX!Deinit
  <2>2. PluginsTypeOK'
    BY <1>2, <2>1 DEF PluginsTypeOK, VendorInv, MlxInv
  <2>3. VendorInv'
    BY <1>2, <2>1 DEF PluginsTypeOK, VendorInv, MlxInv
  <2>4. MlxInv'
    BY <1>2, <2>1 DEF PluginsTypeOK, VendorInv, MlxInv
  <2> QED
    BY <2>2, <2>3, <2>4
<1>3. CASE MLX!API_IHV_Init /\ UNCHANGED scenario
  <2> USE DEF UseMLX, MLX!API_IHV_Init, MLX!Handle, MLX!OfScenario, MLX!LLMInference_Init,
              MLX!ImageInference_Init, MLX!ConfigRefused, MLX!llm_create
  <2>1. inference /\ plugin = "idle" /\ plugin' = IF ~message' THEN "loaded" ELSE "broken"
    BY <1>3 DEF PluginsTypeOK, MLX!Reply, MLX!Perform, MLX!Answer, MLX!InitModel
  <2>2. PluginsTypeOK'
    BY <1>3, <2>1 DEF PluginsTypeOK, VendorInv, MlxInv
  <2>3. VendorInv'
    BY <1>3, <2>1 DEF PluginsTypeOK, VendorInv, MlxInv
  <2>4. inference' = inference /\ scenario' = scenario /\ failedInit' = (failedInit \/ message')
    BY <1>3
  <2>5. CASE scenario = "text"
    <3>1. MLX!LLMInference_Init
      BY <1>3, <2>5
    <3> QED
      BY <2>1, <2>4, <2>5, <3>1 DEF PluginsTypeOK, VendorInv, MlxInv, MLX!LLMInference_Init,
         MLX!ConfigRefused, MLX!llm_create
  <2>6. CASE scenario = "image"
    <3>1. MLX!ImageInference_Init
      BY <1>3, <2>6
    <3> QED
      BY <2>1, <2>4, <2>6, <3>1 DEF PluginsTypeOK, VendorInv, MlxInv, MLX!ImageInference_Init
  <2> QED
    BY <2>2, <2>3, <2>5, <2>6 DEF PluginsTypeOK
<1>4. CASE MLX!API_IHV_Prepare /\ UNCHANGED scenario
  <2> USE DEF UseMLX, MLX!API_IHV_Prepare, MLX!Handle, MLX!OfScenario,
              MLX!LLMInference_Prepare, MLX!Cleared, MLX!llm_create_kvcache
  <2>1. /\ inference /\ plugin \in {"loaded", "broken"}
        /\ plugin' = IF ~message' /\ plugin = "loaded" THEN "prepared" ELSE "broken"
    BY <1>4 DEF PluginsTypeOK, MLX!Reply, MLX!Perform, MLX!Answer, MLX!Prepare
  <2>2. PluginsTypeOK'
    BY <1>4, <2>1 DEF PluginsTypeOK, VendorInv, MlxInv
  <2>3. VendorInv'
    BY <1>4, <2>1 DEF PluginsTypeOK, VendorInv, MlxInv
  <2>4. inference' = inference /\ scenario' = scenario /\ failedInit' = (failedInit \/ FALSE)
    BY <1>4
  <2>5. CASE scenario = "text"
    <3>1. MLX!LLMInference_Prepare
      BY <1>4, <2>5
    <3> QED
      BY <2>1, <2>4, <2>5, <3>1 DEF PluginsTypeOK, VendorInv, MlxInv, MLX!LLMInference_Prepare,
         MLX!llm_create_kvcache
  <2>6. CASE scenario = "image"
    <3>1. MLX!Cleared
      BY <1>4, <2>6
    <3> QED
      BY <2>1, <2>4, <2>6, <3>1 DEF PluginsTypeOK, VendorInv, MlxInv, MLX!Cleared
  <2> QED
    BY <2>2, <2>3, <2>5, <2>6 DEF PluginsTypeOK
<1>5. CASE MLX!API_IHV_Infer /\ UNCHANGED scenario
  <2> USE DEF UseMLX, MLX!API_IHV_Infer, MLX!Handle
  <2>1. inference /\ plugin = "prepared" /\ plugin' = "ran"
    BY <1>5 DEF PluginsTypeOK, MLX!Reply, MLX!Perform, MLX!Answer, MLX!Infer
  <2>2. /\ ~message /\ output = {} /\ dangling = {}
        /\ scenario = "image" => "pipeline" \in owned
    BY <2>1 DEF MlxInv
  <2>3. inference' = inference /\ scenario' = scenario /\ failedInit' = (failedInit \/ FALSE)
    BY <1>5
  <2>4. /\ UNCHANGED <<initialized, owned, dangling, lost, reused>>
        /\ output' \subseteq {"this"} /\ message' \in BOOLEAN /\ dirty' \in BOOLEAN
        /\ scenario = "image" => dirty' = dirty
        /\ message' \/ scenario = "image" \/ {"model", "cache"} \subseteq owned
    <3>1. CASE scenario = "text"
      <4>1. MLX!LLMInference_Run
        BY <1>5, <3>1 DEF MLX!OfScenario
      <4>2. CASE MLX!InputRefused
        BY <2>2, <3>1, <4>1, <4>2 DEF PluginsTypeOK, MLX!LLMInference_Run, MLX!InputRefused
      <4>3. CASE MLX!PredictFails
        BY <2>2, <3>1, <4>1, <4>3 DEF MLX!LLMInference_Run, MLX!PredictFails, MLX!Appended
      <4>4. CASE MLX!PredictsAll
        BY <2>2, <3>1, <4>1, <4>4 DEF MLX!LLMInference_Run, MLX!PredictsAll, MLX!Appended
      <4> QED
        BY <4>1, <4>2, <4>3, <4>4 DEF MLX!LLMInference_Run
    <3>2. CASE scenario = "image"
      <4>1. MLX!ImageInference_Run
        BY <1>5, <3>2 DEF MLX!OfScenario
      <4> QED
        BY <2>2, <3>2, <4>1 DEF PluginsTypeOK, MLX!ImageInference_Run
    <3> QED
      BY <3>1, <3>2 DEF PluginsTypeOK
  <2> HIDE DEF MLX!API_IHV_Infer, MLX!Handle
  <2>5. PluginsTypeOK'
    BY <2>1, <2>3, <2>4 DEF PluginsTypeOK
  <2>6. VendorInv'
    BY <2>1, <2>3, <2>4 DEF VendorInv
  <2>7. MlxInv'
    <3> USE <2>1, <2>2, <2>3, <2>4 DEF PluginsTypeOK, MlxInv
    <3>1. (/\ output \subseteq {"this"}
           /\ plugin \notin {"loaded", "prepared", "idle", "broken"}
           /\ dangling = {})'
      OBVIOUS
    <3>2. (/\ scenario = "image" => ~dirty /\ owned \subseteq {"pipeline"}
           /\ scenario = "text" => owned \subseteq {"model", "cache"})'
      OBVIOUS
    <3>3. MLX!Serves'
      OBVIOUS
    <3> QED
      BY <3>1, <3>2, <3>3
  <2> QED
    BY <2>5, <2>6, <2>7
<1>6. CASE MLX!API_IHV_Reset /\ UNCHANGED scenario
  <2> USE DEF UseMLX, MLX!API_IHV_Reset, MLX!Handle, MLX!OfScenario, MLX!LLMInference_Reset,
              MLX!Cleared
  <2>1. inference /\ plugin = "ran" /\ plugin' = IF ~message' THEN "loaded" ELSE "broken"
    BY <1>6 DEF PluginsTypeOK, MLX!Reply, MLX!Perform, MLX!Answer, MLX!Reset
  <2>2. PluginsTypeOK'
    BY <1>6, <2>1 DEF PluginsTypeOK, VendorInv, MlxInv
  <2>3. VendorInv'
    BY <1>6, <2>1 DEF PluginsTypeOK, VendorInv, MlxInv
  <2>4. inference' = inference /\ scenario' = scenario /\ failedInit' = (failedInit \/ FALSE)
    BY <1>6
  <2>5. CASE scenario = "text"
    <3>1. MLX!LLMInference_Reset
      BY <1>6, <2>5
    <3> QED
      BY <2>1, <2>4, <2>5, <3>1 DEF PluginsTypeOK, VendorInv, MlxInv, MLX!LLMInference_Reset
  <2>6. CASE scenario = "image"
    <3>1. MLX!Cleared
      BY <1>6, <2>6
    <3> QED
      BY <2>1, <2>4, <2>6, <3>1 DEF PluginsTypeOK, VendorInv, MlxInv, MLX!Cleared
  <2> QED
    BY <2>2, <2>3, <2>5, <2>6 DEF PluginsTypeOK
<1>7. CASE MLX!API_IHV_Deinit /\ UNCHANGED scenario
  <2> USE DEF UseMLX, MLX!API_IHV_Deinit, MLX!Handle, MLX!OfScenario, MLX!LLMInference_Deinit,
              MLX!ImageInference_Deinit
  <2>1. inference /\ plugin \in {"loaded", "broken", "prepared", "ran"} /\ plugin' = "idle"
    BY <1>7 DEF PluginsTypeOK, MLX!Reply, MLX!Perform, MLX!Answer, MLX!Deinit
  <2>2. PluginsTypeOK'
    BY <1>7, <2>1 DEF PluginsTypeOK, VendorInv, MlxInv
  <2>3. VendorInv'
    BY <1>7, <2>1 DEF PluginsTypeOK, VendorInv, MlxInv
  <2>4. inference' = inference /\ scenario' = scenario /\ failedInit' = (failedInit \/ FALSE)
    BY <1>7
  <2>5. CASE scenario = "text"
    <3>1. MLX!LLMInference_Deinit
      BY <1>7, <2>5
    <3> QED
      BY <2>1, <2>4, <2>5, <3>1 DEF PluginsTypeOK, VendorInv, MlxInv, MLX!LLMInference_Deinit
  <2>6. CASE scenario = "image"
    <3>1. MLX!ImageInference_Deinit
      BY <1>7, <2>6
    <3> QED
      BY <2>1, <2>4, <2>6, <3>1 DEF PluginsTypeOK, VendorInv, MlxInv, MLX!ImageInference_Deinit
  <2> QED
    BY <2>2, <2>3, <2>5, <2>6 DEF PluginsTypeOK
<1>8. CASE MLX!API_IHV_Release /\ UNCHANGED scenario
  <2> USE DEF UseMLX, MLX!API_IHV_Release, MLX!ReleaseObject, MLX!ObjectGone
  <2>1. /\ plugin \in {"idle", "loaded", "broken", "prepared", "ran"}
        /\ plugin' \in {"released", "leaked"}
    BY <1>8 DEF PluginsTypeOK, MLX!Reply, MLX!Perform, MLX!Answer, MLX!Release,
       MLX!PluginState
  <2>2. PluginsTypeOK'
    BY <1>8, <2>1 DEF PluginsTypeOK, VendorInv, MlxInv
  <2>3. VendorInv'
    BY <1>8, <2>1 DEF PluginsTypeOK, VendorInv, MlxInv
  <2>4. MlxInv'
    BY <1>8, <2>1 DEF PluginsTypeOK, VendorInv, MlxInv
  <2> QED
    BY <2>2, <2>3, <2>4
<1> QED
  BY <1>1, <1>2, <1>3, <1>4, <1>5, <1>6, <1>7, <1>8 DEF UseMLX, MLX!Next

\* Every step of a session with the Diffusers library keeps its invariant.
LEMMA DiffusersStep ==
  ASSUME PluginsTypeOK, VendorInv, DiffusersInv, library = "Diffusers", UseDiffusers
  PROVE  (PluginsTypeOK /\ VendorInv /\ DiffusersInv)'
<1> USE DEF common, kept, llama, ortGenAI, windowsML, PluginState, Released, Diffusers!object,
            Diffusers!history, Diffusers!vendor, Diffusers!Report, Diffusers!KeepPointers,
            Diffusers!KeepRun, Diffusers!Assigned, Diffusers!Running, Diffusers!ServesRuns,
            Diffusers!Released, Diffusers!Serves
<1>1. CASE Diffusers!DispatcherSetup
  <2> USE DEF UseDiffusers, Diffusers!DispatcherSetup, Diffusers!SetupObject,
              Diffusers!SetupRefused, Diffusers!BaseInference
  <2>1. /\ plugin = "none" /\ plugin' \in {"none", "idle"}
        /\ plugin' = "none" => UNCHANGED Diffusers!vendor
    BY <1>1 DEF PluginsTypeOK, Diffusers!Reply, Diffusers!Perform, Diffusers!Answer,
       Diffusers!Setup
  <2>a. /\ plugin = "none"
        /\ UNCHANGED <<Diffusers!object, Diffusers!history, failedInit>>
        /\ plugin' = "idle" \/ (plugin' = "none" /\ UNCHANGED inference)
        /\ inference' \in BOOLEAN
    BY <1>1, <2>1 DEF PluginsTypeOK
  <2>b. /\ ~inference /\ ~initialized /\ ~message /\ ~dirty
        /\ owned = {} /\ dangling = {} /\ output = {}
        /\ lost = {} /\ reused = {} /\ ~failedInit
    BY <2>a DEF VendorInv
  <2> HIDE DEF Diffusers!SetupObject, Diffusers!SetupRefused
  <2>2. PluginsTypeOK'
    BY <1>1, <2>a, <2>b, <2>1 DEF PluginsTypeOK, VendorInv, DiffusersInv
  <2>3. VendorInv'
    BY <1>1, <2>a, <2>b, <2>1 DEF PluginsTypeOK, VendorInv, DiffusersInv
  <2>4. DiffusersInv'
    BY <1>1, <2>a, <2>b, <2>1 DEF PluginsTypeOK, VendorInv, DiffusersInv
  <2> QED
    BY <2>2, <2>3, <2>4
<1>2. CASE Diffusers!API_IHV_EnumerateDevices
  <2> USE DEF UseDiffusers, Diffusers!API_IHV_EnumerateDevices,
              Diffusers!EnsurePackageInstalled, Diffusers!InitInterpreter
  <2>1. inference /\ plugin = "idle" /\ plugin' = "idle"
    BY <1>2 DEF PluginsTypeOK, Diffusers!Reply, Diffusers!Perform, Diffusers!Answer,
       Diffusers!Enumerate
  <2>2. PluginsTypeOK'
    BY <1>2, <2>1 DEF PluginsTypeOK, VendorInv, DiffusersInv
  <2>3. VendorInv'
    BY <1>2, <2>1 DEF PluginsTypeOK, VendorInv, DiffusersInv
  <2>4. DiffusersInv'
    BY <1>2, <2>1 DEF PluginsTypeOK, VendorInv, DiffusersInv
  <2> QED
    BY <2>2, <2>3, <2>4
<1>3. CASE Diffusers!NotHandled
  <2> USE DEF UseDiffusers, Diffusers!NotHandled, Diffusers!Unhandled
  <2>1. \/ plugin = "idle" /\ plugin' = "broken" /\ failedInit'
        \/ /\ ~inference /\ failedInit' = failedInit
           /\ \/ plugin \in {"loaded", "broken"} /\ plugin' = "broken"
              \/ plugin \in {"loaded", "broken", "prepared", "ran"} /\ plugin' = "idle"
              \/ plugin = "prepared" /\ plugin' = "ran"
              \/ plugin = "ran" /\ plugin' = "broken"
    BY <1>3 DEF PluginsTypeOK, Diffusers!Reply, Diffusers!Perform, Diffusers!Answer,
       Diffusers!InitModel, Diffusers!Prepare, Diffusers!Infer, Diffusers!Reset,
       Diffusers!Deinit
  <2>2. PluginsTypeOK'
    BY <1>3, <2>1 DEF PluginsTypeOK, VendorInv, DiffusersInv
  <2>3. VendorInv'
    BY <1>3, <2>1 DEF PluginsTypeOK, VendorInv, DiffusersInv
  <2>4. DiffusersInv'
    BY <1>3, <2>1 DEF PluginsTypeOK, VendorInv, DiffusersInv
  <2> QED
    BY <2>2, <2>3, <2>4
<1>4. CASE Diffusers!API_IHV_Init
  <2> USE DEF UseDiffusers, Diffusers!API_IHV_Init, Diffusers!Handle
  <2>1. inference /\ plugin = "idle" /\ plugin' = IF ~message' THEN "loaded" ELSE "broken"
    BY <1>4 DEF PluginsTypeOK, Diffusers!Reply, Diffusers!Perform, Diffusers!Answer,
       Diffusers!InitModel
  <2>2. /\ inference' = inference /\ failedInit' = (failedInit \/ message')
        /\ Diffusers!ImageInference_Init
    BY <1>4
  <2> HIDE DEF Diffusers!API_IHV_Init, Diffusers!Handle
  <2>3. /\ UNCHANGED <<dangling, dirty, output, lost, reused>>
        /\ message' \in BOOLEAN /\ initialized' \in BOOLEAN
        /\ ~initialized /\ owned' \subseteq {"pipeline"}
        /\ initialized' = ~message'
        /\ python' \in {"none", "started", "installed"}
        /\ initialized' => "pipeline" \in owned' /\ python' = "installed"
    <3> USE <2>1 DEF PluginsTypeOK, VendorInv, DiffusersInv
    <3>1. CASE message
      <4>1. /\ message' = TRUE
            /\ UNCHANGED <<initialized, python, owned, dangling, dirty, output, lost, reused>>
        BY <2>2, <3>1 DEF Diffusers!ImageInference_Init
      <4>2. ~initialized
        BY <2>1
      <4> QED
        BY <4>1, <4>2
    <3>2. CASE ~message
      <4>1. PICK loaded \in BOOLEAN :
              Diffusers!LoadPipeline(loaded) /\ initialized' = loaded /\ message' = ~loaded
        BY <2>2, <3>2 DEF Diffusers!ImageInference_Init
      <4>2. UNCHANGED <<dirty, output>>
        BY <2>2 DEF Diffusers!ImageInference_Init
      <4> QED
        BY <4>1, <4>2 DEF Diffusers!LoadPipeline, Diffusers!EnsurePackageInstalled,
                          Diffusers!InitInterpreter
    <3> QED
      BY <3>1, <3>2
  <2>4. PluginsTypeOK'
    BY <2>1, <2>2, <2>3 DEF PluginsTypeOK, DiffusersInv
  <2>5. VendorInv'
    BY <2>1, <2>2, <2>3 DEF VendorInv
  <2>6. DiffusersInv'
    BY <2>1, <2>2, <2>3 DEF PluginsTypeOK, DiffusersInv
  <2> QED
    BY <2>4, <2>5, <2>6
<1>5. CASE Diffusers!API_IHV_Prepare
  <2> USE DEF UseDiffusers, Diffusers!API_IHV_Prepare, Diffusers!Handle,
              Diffusers!ImageInference_Prepare
  <2>1. /\ inference /\ plugin \in {"loaded", "broken"}
        /\ plugin' = IF ~message' /\ plugin = "loaded" THEN "prepared" ELSE "broken"
    BY <1>5 DEF PluginsTypeOK, Diffusers!Reply, Diffusers!Perform, Diffusers!Answer,
       Diffusers!Prepare
  <2>2. PluginsTypeOK'
    BY <1>5, <2>1 DEF PluginsTypeOK, VendorInv, DiffusersInv
  <2>3. VendorInv'
    BY <1>5, <2>1 DEF PluginsTypeOK, VendorInv, DiffusersInv
  <2>4. DiffusersInv'
    BY <1>5, <2>1 DEF PluginsTypeOK, VendorInv, DiffusersInv
  <2> QED
    BY <2>2, <2>3, <2>4
<1>6. CASE Diffusers!API_IHV_Infer
  <2> USE DEF UseDiffusers, Diffusers!API_IHV_Infer, Diffusers!Handle,
              Diffusers!ImageInference_Run
  <2>1. inference /\ plugin = "prepared" /\ plugin' = "ran"
    BY <1>6 DEF PluginsTypeOK, Diffusers!Reply, Diffusers!Perform, Diffusers!Answer,
       Diffusers!Infer
  <2>2. PluginsTypeOK'
    BY <1>6, <2>1 DEF PluginsTypeOK, VendorInv, DiffusersInv
  <2>3. VendorInv'
    BY <1>6, <2>1 DEF PluginsTypeOK, VendorInv, DiffusersInv
  <2>4. DiffusersInv'
    BY <1>6, <2>1 DEF PluginsTypeOK, VendorInv, DiffusersInv
  <2> QED
    BY <2>2, <2>3, <2>4
<1>7. CASE Diffusers!API_IHV_Reset
  <2> USE DEF UseDiffusers, Diffusers!API_IHV_Reset, Diffusers!Handle,
              Diffusers!ImageInference_Reset
  <2>1. inference /\ plugin = "ran" /\ plugin' = IF ~message' THEN "loaded" ELSE "broken"
    BY <1>7 DEF PluginsTypeOK, Diffusers!Reply, Diffusers!Perform, Diffusers!Answer,
       Diffusers!Reset
  <2>2. PluginsTypeOK'
    BY <1>7, <2>1 DEF PluginsTypeOK, VendorInv, DiffusersInv
  <2>3. VendorInv'
    BY <1>7, <2>1 DEF PluginsTypeOK, VendorInv, DiffusersInv
  <2>4. DiffusersInv'
    BY <1>7, <2>1 DEF PluginsTypeOK, VendorInv, DiffusersInv
  <2> QED
    BY <2>2, <2>3, <2>4
<1>8. CASE Diffusers!API_IHV_Deinit
  <2> USE DEF UseDiffusers, Diffusers!API_IHV_Deinit, Diffusers!Handle,
              Diffusers!ImageInference_Deinit, Diffusers!PythonBridge_Unload
  <2>1. inference /\ plugin \in {"loaded", "broken", "prepared", "ran"} /\ plugin' = "idle"
    BY <1>8 DEF PluginsTypeOK, Diffusers!Reply, Diffusers!Perform, Diffusers!Answer,
       Diffusers!Deinit
  <2>2. PluginsTypeOK'
    BY <1>8, <2>1 DEF PluginsTypeOK, VendorInv, DiffusersInv
  <2>3. VendorInv'
    BY <1>8, <2>1 DEF PluginsTypeOK, VendorInv, DiffusersInv
  <2>4. DiffusersInv'
    BY <1>8, <2>1 DEF PluginsTypeOK, VendorInv, DiffusersInv
  <2> QED
    BY <2>2, <2>3, <2>4
<1>9. CASE Diffusers!API_IHV_Release
  <2> USE DEF UseDiffusers, Diffusers!API_IHV_Release, Diffusers!ReleaseObject, Diffusers!ObjectGone
  <2>1. /\ plugin \in {"idle", "loaded", "broken", "prepared", "ran"}
        /\ plugin' \in {"released", "leaked"}
    BY <1>9 DEF PluginsTypeOK, Diffusers!Reply, Diffusers!Perform, Diffusers!Answer,
       Diffusers!Release, Diffusers!PluginState
  <2>2. PluginsTypeOK'
    BY <1>9, <2>1 DEF PluginsTypeOK, VendorInv, DiffusersInv
  <2>3. VendorInv'
    BY <1>9, <2>1 DEF PluginsTypeOK, VendorInv, DiffusersInv
  <2>4. DiffusersInv'
    BY <1>9, <2>1 DEF PluginsTypeOK, VendorInv, DiffusersInv
  <2> QED
    BY <2>2, <2>3, <2>4
<1> QED
  BY <1>1, <1>2, <1>3, <1>4, <1>5, <1>6, <1>7, <1>8, <1>9 DEF UseDiffusers, Diffusers!Next

\* Every step of a session with the DirectML library keeps its invariant.
LEMMA OrtGenAIStep ==
  ASSUME PluginsTypeOK, VendorInv, OrtInv, library = "OrtGenAI", UseOrtGenAI
  PROVE  (PluginsTypeOK /\ VendorInv /\ OrtInv)'
<1> USE DEF common, kept, llama, ortGenAI, windowsML, PluginState, Released, OrtGenAI!object,
            OrtGenAI!history, OrtGenAI!vendor, OrtGenAI!Report, OrtGenAI!KeepPointers,
            OrtGenAI!KeepRun, OrtGenAI!Assigned, OrtGenAI!Running, OrtGenAI!ServesRuns,
            OrtGenAI!Released, OrtGenAI!Serves, OrtGenAI!ServesModel, OrtGenAI!Common, OrtCommon
<1>1. CASE OrtGenAI!API_IHV_Setup
  <2> USE DEF UseOrtGenAI, OrtGenAI!API_IHV_Setup, OrtGenAI!SetupObject, OrtGenAI!SetupRefused,
              OrtGenAI!BaseInference, OrtGenAI!files
  <2>1. /\ plugin = "none" /\ plugin' \in {"none", "idle"}
        /\ plugin' = "none" => UNCHANGED OrtGenAI!vendor
    BY <1>1 DEF PluginsTypeOK, OrtGenAI!Reply, OrtGenAI!Perform, OrtGenAI!Answer,
       OrtGenAI!Setup
  <2>a. /\ plugin = "none"
        /\ UNCHANGED <<OrtGenAI!object, OrtGenAI!history, failedInit>>
        /\ plugin' = "idle" \/ (plugin' = "none" /\ UNCHANGED inference)
        /\ inference' \in BOOLEAN
    BY <1>1, <2>1 DEF PluginsTypeOK
  <2>b. /\ ~inference /\ ~initialized /\ ~message /\ ~dirty
        /\ owned = {} /\ dangling = {} /\ output = {}
        /\ lost = {} /\ reused = {} /\ ~failedInit
    BY <2>a DEF VendorInv
  <2> HIDE DEF OrtGenAI!SetupObject, OrtGenAI!SetupRefused
  <2>2. PluginsTypeOK'
    BY <1>1, <2>a, <2>b, <2>1 DEF PluginsTypeOK, VendorInv, OrtInv
  <2>3. VendorInv'
    BY <1>1, <2>a, <2>b, <2>1 DEF PluginsTypeOK, VendorInv, OrtInv
  <2>4. OrtInv'
    BY <1>1, <2>a, <2>b, <2>1 DEF PluginsTypeOK, VendorInv, OrtInv
  <2> QED
    BY <2>2, <2>3, <2>4
<1>2. CASE OrtGenAI!NotHandled
  <2> USE DEF UseOrtGenAI, OrtGenAI!NotHandled, OrtGenAI!Unhandled, OrtGenAI!files
  <2>1. \/ plugin = "idle" /\ plugin' = "broken" /\ failedInit'
        \/ /\ ~inference /\ failedInit' = failedInit
           /\ \/ plugin \in {"loaded", "broken"} /\ plugin' = "broken"
              \/ plugin \in {"loaded", "broken", "prepared", "ran"} /\ plugin' = "idle"
              \/ plugin = "prepared" /\ plugin' = "ran"
              \/ plugin = "ran" /\ plugin' = "broken"
    BY <1>2 DEF PluginsTypeOK, OrtGenAI!Reply, OrtGenAI!Perform, OrtGenAI!Answer,
       OrtGenAI!InitModel, OrtGenAI!Prepare, OrtGenAI!Infer, OrtGenAI!Reset, OrtGenAI!Deinit
  <2>2. PluginsTypeOK'
    BY <1>2, <2>1 DEF PluginsTypeOK, VendorInv, OrtInv
  <2>3. VendorInv'
    BY <1>2, <2>1 DEF PluginsTypeOK, VendorInv, OrtInv
  <2>4. OrtInv'
    BY <1>2, <2>1 DEF PluginsTypeOK, VendorInv, OrtInv
  <2> QED
    BY <2>2, <2>3, <2>4
<1>3. CASE OrtGenAI!API_IHV_Prepare
  <2> USE DEF UseOrtGenAI, OrtGenAI!API_IHV_Prepare, OrtGenAI!Handle, OrtGenAI!files
  <2>1. /\ inference /\ plugin \in {"loaded", "broken"}
        /\ plugin' = IF ~message' /\ plugin = "loaded" THEN "prepared" ELSE "broken"
    BY <1>3 DEF PluginsTypeOK, OrtGenAI!Reply, OrtGenAI!Perform, OrtGenAI!Answer,
       OrtGenAI!Prepare
  <2>2. PluginsTypeOK'
    BY <1>3, <2>1 DEF PluginsTypeOK, VendorInv, OrtInv
  <2>3. VendorInv'
    BY <1>3, <2>1 DEF PluginsTypeOK, VendorInv, OrtInv
  <2>4. OrtInv'
    BY <1>3, <2>1 DEF PluginsTypeOK, VendorInv, OrtInv
  <2> QED
    BY <2>2, <2>3, <2>4
<1>4. CASE OrtGenAI!API_IHV_Reset
  <2> USE DEF UseOrtGenAI, OrtGenAI!API_IHV_Reset, OrtGenAI!Handle, OrtGenAI!files
  <2>1. inference /\ plugin = "ran" /\ plugin' = IF ~message' THEN "loaded" ELSE "broken"
    BY <1>4 DEF PluginsTypeOK, OrtGenAI!Reply, OrtGenAI!Perform, OrtGenAI!Answer,
       OrtGenAI!Reset
  <2>2. PluginsTypeOK'
    BY <1>4, <2>1 DEF PluginsTypeOK, VendorInv, OrtInv
  <2>3. VendorInv'
    BY <1>4, <2>1 DEF PluginsTypeOK, VendorInv, OrtInv
  <2>4. OrtInv'
    BY <1>4, <2>1 DEF PluginsTypeOK, VendorInv, OrtInv
  <2> QED
    BY <2>2, <2>3, <2>4
<1>5. CASE OrtGenAI!API_IHV_Deinit
  <2> USE DEF UseOrtGenAI, OrtGenAI!API_IHV_Deinit, OrtGenAI!Handle,
              OrtGenAI!LLMInference_Deinit, OrtGenAI!Unload, OrtGenAI!Restores, OrtGenAI!files
  <2>1. inference /\ plugin \in {"loaded", "broken", "prepared", "ran"} /\ plugin' = "idle"
    BY <1>5 DEF PluginsTypeOK, OrtGenAI!Reply, OrtGenAI!Perform, OrtGenAI!Answer,
       OrtGenAI!Deinit
  <2>2. PluginsTypeOK'
    BY <1>5, <2>1 DEF PluginsTypeOK, VendorInv, OrtInv
  <2>3. VendorInv'
    BY <1>5, <2>1 DEF PluginsTypeOK, VendorInv, OrtInv
  <2>4. OrtInv'
    <3>1. UNCHANGED <<inference, lost, keptConfig>> /\ failedInit' = (failedInit \/ FALSE)
      BY <1>5
    <3>2. CASE initialized
      <4>1. OrtGenAI!Unload
        BY <1>5, <3>2
      <4> HIDE DEF OrtGenAI!API_IHV_Deinit, OrtGenAI!Handle, OrtGenAI!LLMInference_Deinit
      <4> QED
        BY <2>1, <3>1, <3>2, <4>1 DEF PluginsTypeOK, VendorInv, OrtInv
    <3>3. CASE ~initialized
      <4>1. /\ message' = TRUE
            /\ UNCHANGED <<dirty, output, initialized, owned, dangling, reused, config, spoiled>>
        BY <1>5, <3>3
      <4> HIDE DEF OrtGenAI!API_IHV_Deinit, OrtGenAI!Handle, OrtGenAI!LLMInference_Deinit
      <4> QED
        BY <2>1, <3>1, <3>3, <4>1 DEF PluginsTypeOK, VendorInv, OrtInv
    <3> QED
      BY <3>2, <3>3
  <2> QED
    BY <2>2, <2>3, <2>4
<1>6. CASE OrtGenAI!API_IHV_Release
  <2> USE DEF UseOrtGenAI, OrtGenAI!API_IHV_Release, OrtGenAI!ReleaseObject, OrtGenAI!ObjectGone,
              OrtGenAI!LLMInference_Destructor, OrtGenAI!Restores, OrtGenAI!files
  <2>1. /\ plugin \in {"idle", "loaded", "broken", "prepared", "ran"}
        /\ plugin' \in {"released", "leaked"}
    BY <1>6 DEF PluginsTypeOK, OrtGenAI!Reply, OrtGenAI!Perform, OrtGenAI!Answer,
       OrtGenAI!Release, OrtGenAI!PluginState
  <2>2. PluginsTypeOK'
    BY <1>6, <2>1 DEF PluginsTypeOK, VendorInv, OrtInv
  <2>3. VendorInv'
    BY <1>6, <2>1 DEF PluginsTypeOK, VendorInv, OrtInv
  <2>4. OrtInv'
    <3>1. /\ inference' = FALSE /\ initialized' = FALSE /\ message' = FALSE
          /\ owned' = {} /\ dangling' = {} /\ dirty' = FALSE /\ output' = {}
          /\ keptConfig' = "none" /\ UNCHANGED failedInit
          /\ IF initialized THEN OrtGenAI!Restores ELSE UNCHANGED <<config, spoiled>>
          /\ lost' = lost \cup (IF initialized THEN {} ELSE owned)
          /\ reused' = reused \cup (IF initialized THEN dangling ELSE {})
      BY <1>6
    <3> HIDE DEF OrtGenAI!API_IHV_Release, OrtGenAI!ReleaseObject, OrtGenAI!ObjectGone,
                 OrtGenAI!LLMInference_Destructor
    <3>2. OrtCommon'
      BY <2>1, <3>1 DEF PluginsTypeOK, VendorInv, OrtInv
    <3>3. lost' # {} => failedInit'
      BY <2>1, <3>1 DEF PluginsTypeOK, VendorInv, OrtInv
    <3>4. spoiled' \/ config' = "shipped"
      BY <2>1, <3>1 DEF PluginsTypeOK, VendorInv, OrtInv
    <3>5. reused' = {}
      BY <2>1, <3>1 DEF PluginsTypeOK, VendorInv, OrtInv
    <3> QED
      BY <2>1, <3>1, <3>2, <3>3, <3>4, <3>5 DEF OrtInv
  <2> QED
    BY <2>2, <2>3, <2>4
<1>7. CASE OrtGenAI!API_IHV_Init
  <2> USE DEF UseOrtGenAI, OrtGenAI!API_IHV_Init, OrtGenAI!Handle, OrtGenAI!LLMInference_Init,
              OrtGenAI!SetupGenaiConfigForDirectML, OrtGenAI!Loads, OrtGenAI!NotConfigured,
              OrtGenAI!Configures, OrtGenAI!Makes, OrtGenAI!files
  <2>1. inference /\ plugin = "idle" /\ plugin' = IF ~message' THEN "loaded" ELSE "broken"
    BY <1>7 DEF PluginsTypeOK, OrtGenAI!Reply, OrtGenAI!Perform, OrtGenAI!Answer,
       OrtGenAI!InitModel
  <2>2. PluginsTypeOK'
    BY <1>7, <2>1 DEF PluginsTypeOK, VendorInv, OrtInv
  <2>3. VendorInv'
    BY <1>7, <2>1 DEF PluginsTypeOK, VendorInv, OrtInv
  <2>4. OrtInv'
    <3>1. /\ inference' = inference /\ failedInit' = (failedInit \/ message')
          /\ spoiled' = (spoiled \/ message')
          /\ UNCHANGED <<dirty, output, reused>>
      BY <1>7
    <3>2. ~initialized
      BY <2>1 DEF PluginsTypeOK, VendorInv, OrtInv
    <3>3. CASE message
      <4>1. UNCHANGED <<initialized, message, owned, dangling, lost, config, keptConfig>>
        BY <1>7, <3>3
      <4> HIDE DEF OrtGenAI!API_IHV_Init, OrtGenAI!Handle, OrtGenAI!LLMInference_Init,
                   OrtGenAI!Loads
      <4> QED
        BY <2>1, <3>1, <3>2, <3>3, <4>1 DEF PluginsTypeOK, VendorInv, OrtInv
    <3>4. CASE ~message
      <4>1. owned = {} /\ dangling = {}
        BY <2>1, <3>2, <3>4 DEF PluginsTypeOK, VendorInv, OrtInv
      <4>2. CASE OrtGenAI!NotConfigured
        <5>1. /\ message' = TRUE
              /\ UNCHANGED <<initialized, owned, dangling, lost, config, keptConfig>>
          BY <4>2
        <5> HIDE DEF OrtGenAI!API_IHV_Init, OrtGenAI!Handle, OrtGenAI!LLMInference_Init,
                     OrtGenAI!Loads
        <5> QED
          BY <2>1, <3>1, <3>2, <5>1 DEF PluginsTypeOK, VendorInv, OrtInv
      <4> DEFINE objects == <<"model", "params">>
      <4>3. CASE /\ config # "torn"
               /\ OrtGenAI!SetupGenaiConfigForDirectML /\ OrtGenAI!Makes(objects)
        <5> HIDE DEF OrtGenAI!API_IHV_Init, OrtGenAI!Handle, OrtGenAI!LLMInference_Init,
                     OrtGenAI!Loads
        <5>1. \/ config' \in {"adapted", "torn", config} /\ keptConfig' = config
              \/ UNCHANGED <<config, keptConfig>>
          BY <4>3
        <5>2. /\ dangling' = {} /\ lost' = lost
              /\ \/ message' = TRUE /\ initialized' = initialized
                 \/ initialized' = TRUE /\ message' = message
          BY <4>1, <4>3
        <5>3. message' \/ (owned' = {"model", "params"} /\ config' # "torn")
          <6>1. {objects[i] : i \in DOMAIN objects} = {"model", "params"}
            OBVIOUS
          <6> QED
            BY <4>1, <4>3, <6>1
        <5>4. CASE message'
          <6> USE DEF PluginsTypeOK
          <6>1. ~initialized'
            BY <3>2, <3>4, <5>2, <5>4
          <6>a. failedInit' /\ spoiled' /\ plugin' = "broken" /\ inference'
            BY <2>1, <3>1, <5>4
          <6>2. OrtCommon'
            <7>1. output' \subseteq {"this"}
              BY <3>1 DEF OrtInv
            <7> QED
              BY <5>4, <6>1, <6>a, <7>1 DEF OrtCommon
          <6>3. OrtGenAI!Serves'
            BY <3>1, <5>2, <5>4, <6>1, <6>a DEF PluginsTypeOK, VendorInv, OrtInv
          <6> QED
            BY <3>1, <5>2, <5>4, <6>1, <6>2, <6>3 DEF OrtInv
        <5>5. CASE ~message'
          BY <2>1, <3>1, <3>2, <3>4, <5>1, <5>2, <5>3, <5>5 DEF PluginsTypeOK, VendorInv, OrtInv
        <5> QED
          BY <5>4, <5>5
      <4> QED
        BY <1>7, <3>4, <4>2, <4>3
    <3> QED
      BY <3>3, <3>4 DEF PluginsTypeOK
  <2> QED
    BY <2>2, <2>3, <2>4
<1>8. CASE OrtGenAI!API_IHV_Infer
  <2> USE DEF UseOrtGenAI, OrtGenAI!API_IHV_Infer, OrtGenAI!Answers, OrtGenAI!LLMInference_Run,
              OrtGenAI!NothingRun, OrtGenAI!RunsAnew, OrtGenAI!files
  <2>1. inference /\ plugin = "prepared" /\ plugin' = "ran"
    BY <1>8 DEF PluginsTypeOK, OrtGenAI!Reply, OrtGenAI!Perform, OrtGenAI!Answer,
       OrtGenAI!Infer
  <2>2. PluginsTypeOK'
    BY <1>8, <2>1 DEF PluginsTypeOK, VendorInv, OrtInv
  <2>3. VendorInv'
    BY <1>8, <2>1 DEF PluginsTypeOK, VendorInv, OrtInv
  <2>4. OrtInv'
    <3>1. /\ UNCHANGED <<inference, initialized, failedInit, reused, dirty>>
          /\ UNCHANGED <<config, keptConfig, spoiled>>
          /\ OrtGenAI!NothingRun \/ OrtGenAI!RunsAnew
      BY <1>8
    <3>2. ~message /\ initialized /\ owned = {"model", "params"} /\ dangling = {}
      BY <2>1 DEF PluginsTypeOK, OrtInv
    <3>3. /\ lost' = lost /\ dangling' = {} /\ owned \subseteq owned' /\ output' \subseteq {"this"}
          /\ message' \/ (owned' = owned /\ message' = message)
      <4>1. CASE OrtGenAI!NothingRun
        BY <3>2, <4>1 DEF OrtInv
      <4>2. CASE OrtGenAI!RunsAnew
        BY <3>2, <4>2
      <4> QED
        BY <3>1, <4>1, <4>2
    <3> HIDE DEF OrtGenAI!API_IHV_Infer, OrtGenAI!Answers, OrtGenAI!LLMInference_Run
    <3> QED
      BY <2>1, <3>1, <3>2, <3>3 DEF PluginsTypeOK, VendorInv, OrtInv
  <2> QED
    BY <2>2, <2>3, <2>4
<1> QED
  BY <1>1, <1>2, <1>3, <1>4, <1>5, <1>6, <1>7, <1>8 DEF UseOrtGenAI, OrtGenAI!Next

\* Every step of a session with the RyzenAI library keeps its invariant.
LEMMA RyzenAIStep ==
  ASSUME PluginsTypeOK, VendorInv, RyzenInv, library = "OrtGenAI-RyzenAI", UseOrtGenAI
  PROVE  (PluginsTypeOK /\ VendorInv /\ RyzenInv)'
<1> USE DEF common, kept, llama, ortGenAI, windowsML, PluginState, Released, OrtGenAI!object,
            OrtGenAI!history, OrtGenAI!vendor, OrtGenAI!Report, OrtGenAI!KeepPointers,
            OrtGenAI!KeepRun, OrtGenAI!Assigned, OrtGenAI!Running, OrtGenAI!ServesRuns,
            OrtGenAI!Released, OrtGenAI!ServesRyzenAI, OrtGenAI!ServesModel, OrtGenAI!Common,
            OrtCommon
<1>1. CASE OrtGenAI!API_IHV_Setup
  <2> USE DEF UseOrtGenAI, OrtGenAI!API_IHV_Setup, OrtGenAI!SetupObject, OrtGenAI!SetupRefused,
              OrtGenAI!BaseInference, OrtGenAI!files
  <2>1. /\ plugin = "none" /\ plugin' \in {"none", "idle"}
        /\ plugin' = "none" => UNCHANGED OrtGenAI!vendor
    BY <1>1 DEF PluginsTypeOK, OrtGenAI!Reply, OrtGenAI!Perform, OrtGenAI!Answer,
       OrtGenAI!Setup
  <2>a. /\ plugin = "none"
        /\ UNCHANGED <<OrtGenAI!object, OrtGenAI!history, failedInit>>
        /\ plugin' = "idle" \/ (plugin' = "none" /\ UNCHANGED inference)
        /\ inference' \in BOOLEAN
    BY <1>1, <2>1 DEF PluginsTypeOK
  <2>b. /\ ~inference /\ ~initialized /\ ~message /\ ~dirty
        /\ owned = {} /\ dangling = {} /\ output = {}
        /\ lost = {} /\ reused = {} /\ ~failedInit
    BY <2>a DEF VendorInv
  <2> HIDE DEF OrtGenAI!SetupObject, OrtGenAI!SetupRefused
  <2>2. PluginsTypeOK'
    BY <1>1, <2>a, <2>b, <2>1 DEF PluginsTypeOK, VendorInv, RyzenInv
  <2>3. VendorInv'
    BY <1>1, <2>a, <2>b, <2>1 DEF PluginsTypeOK, VendorInv, RyzenInv
  <2>4. RyzenInv'
    BY <1>1, <2>a, <2>b, <2>1 DEF PluginsTypeOK, VendorInv, RyzenInv
  <2> QED
    BY <2>2, <2>3, <2>4
<1>2. CASE OrtGenAI!NotHandled
  <2> USE DEF UseOrtGenAI, OrtGenAI!NotHandled, OrtGenAI!Unhandled, OrtGenAI!files
  <2>1. \/ plugin = "idle" /\ plugin' = "broken" /\ failedInit'
        \/ /\ ~inference /\ failedInit' = failedInit
           /\ \/ plugin \in {"loaded", "broken"} /\ plugin' = "broken"
              \/ plugin \in {"loaded", "broken", "prepared", "ran"} /\ plugin' = "idle"
              \/ plugin = "prepared" /\ plugin' = "ran"
              \/ plugin = "ran" /\ plugin' = "broken"
    BY <1>2 DEF PluginsTypeOK, OrtGenAI!Reply, OrtGenAI!Perform, OrtGenAI!Answer,
       OrtGenAI!InitModel, OrtGenAI!Prepare, OrtGenAI!Infer, OrtGenAI!Reset, OrtGenAI!Deinit
  <2>2. PluginsTypeOK'
    BY <1>2, <2>1 DEF PluginsTypeOK, VendorInv, RyzenInv
  <2>3. VendorInv'
    BY <1>2, <2>1 DEF PluginsTypeOK, VendorInv, RyzenInv
  <2>4. RyzenInv'
    BY <1>2, <2>1 DEF PluginsTypeOK, VendorInv, RyzenInv
  <2> QED
    BY <2>2, <2>3, <2>4
<1>3. CASE OrtGenAI!API_IHV_Prepare
  <2> USE DEF UseOrtGenAI, OrtGenAI!API_IHV_Prepare, OrtGenAI!Handle, OrtGenAI!files
  <2>1. /\ inference /\ plugin \in {"loaded", "broken"}
        /\ plugin' = IF ~message' /\ plugin = "loaded" THEN "prepared" ELSE "broken"
    BY <1>3 DEF PluginsTypeOK, OrtGenAI!Reply, OrtGenAI!Perform, OrtGenAI!Answer,
       OrtGenAI!Prepare
  <2>2. PluginsTypeOK'
    BY <1>3, <2>1 DEF PluginsTypeOK, VendorInv, RyzenInv
  <2>3. VendorInv'
    BY <1>3, <2>1 DEF PluginsTypeOK, VendorInv, RyzenInv
  <2>4. RyzenInv'
    BY <1>3, <2>1 DEF PluginsTypeOK, VendorInv, RyzenInv
  <2> QED
    BY <2>2, <2>3, <2>4
<1>4. CASE OrtGenAI!API_IHV_Reset
  <2> USE DEF UseOrtGenAI, OrtGenAI!API_IHV_Reset, OrtGenAI!Handle, OrtGenAI!files
  <2>1. inference /\ plugin = "ran" /\ plugin' = IF ~message' THEN "loaded" ELSE "broken"
    BY <1>4 DEF PluginsTypeOK, OrtGenAI!Reply, OrtGenAI!Perform, OrtGenAI!Answer,
       OrtGenAI!Reset
  <2>2. PluginsTypeOK'
    BY <1>4, <2>1 DEF PluginsTypeOK, VendorInv, RyzenInv
  <2>3. VendorInv'
    BY <1>4, <2>1 DEF PluginsTypeOK, VendorInv, RyzenInv
  <2>4. RyzenInv'
    BY <1>4, <2>1 DEF PluginsTypeOK, VendorInv, RyzenInv
  <2> QED
    BY <2>2, <2>3, <2>4
<1>5. CASE OrtGenAI!API_IHV_Deinit
  <2> USE DEF UseOrtGenAI, OrtGenAI!API_IHV_Deinit, OrtGenAI!Handle,
              OrtGenAI!LLMInference_Deinit, OrtGenAI!Unload, OrtGenAI!Restores, OrtGenAI!files
  <2>1. inference /\ plugin \in {"loaded", "broken", "prepared", "ran"} /\ plugin' = "idle"
    BY <1>5 DEF PluginsTypeOK, OrtGenAI!Reply, OrtGenAI!Perform, OrtGenAI!Answer,
       OrtGenAI!Deinit
  <2>2. PluginsTypeOK'
    BY <1>5, <2>1 DEF PluginsTypeOK, VendorInv, RyzenInv
  <2>3. VendorInv'
    BY <1>5, <2>1 DEF PluginsTypeOK, VendorInv, RyzenInv
  <2>4. RyzenInv'
    <3>1. UNCHANGED <<inference, lost, keptConfig>> /\ failedInit' = (failedInit \/ FALSE)
      BY <1>5
    <3>2. CASE initialized
      <4>1. OrtGenAI!Unload
        BY <1>5, <3>2
      <4> HIDE DEF OrtGenAI!API_IHV_Deinit, OrtGenAI!Handle, OrtGenAI!LLMInference_Deinit
      <4> QED
        BY <2>1, <3>1, <3>2, <4>1 DEF PluginsTypeOK, VendorInv, RyzenInv
    <3>3. CASE ~initialized
      <4>1. /\ message' = TRUE
            /\ UNCHANGED <<dirty, output, initialized, owned, dangling, reused, config, spoiled>>
        BY <1>5, <3>3
      <4> HIDE DEF OrtGenAI!API_IHV_Deinit, OrtGenAI!Handle, OrtGenAI!LLMInference_Deinit
      <4> QED
        BY <2>1, <3>1, <3>3, <4>1 DEF PluginsTypeOK, VendorInv, RyzenInv
    <3> QED
      BY <3>2, <3>3
  <2> QED
    BY <2>2, <2>3, <2>4
<1>6. CASE OrtGenAI!API_IHV_Release
  <2> USE DEF UseOrtGenAI, OrtGenAI!API_IHV_Release, OrtGenAI!ReleaseObject, OrtGenAI!ObjectGone,
              OrtGenAI!LLMInference_Destructor, OrtGenAI!Restores, OrtGenAI!files
  <2>1. /\ plugin \in {"idle", "loaded", "broken", "prepared", "ran"}
        /\ plugin' \in {"released", "leaked"}
    BY <1>6 DEF PluginsTypeOK, OrtGenAI!Reply, OrtGenAI!Perform, OrtGenAI!Answer,
       OrtGenAI!Release, OrtGenAI!PluginState
  <2>2. PluginsTypeOK'
    BY <1>6, <2>1 DEF PluginsTypeOK, VendorInv, RyzenInv
  <2>3. VendorInv'
    BY <1>6, <2>1 DEF PluginsTypeOK, VendorInv, RyzenInv
  <2>4. RyzenInv'
    <3>1. /\ inference' = FALSE /\ initialized' = FALSE /\ message' = FALSE
          /\ owned' = {} /\ dangling' = {} /\ dirty' = FALSE /\ output' = {}
          /\ keptConfig' = "none" /\ UNCHANGED failedInit
          /\ IF initialized THEN OrtGenAI!Restores ELSE UNCHANGED <<config, spoiled>>
          /\ lost' = lost \cup (IF initialized THEN {} ELSE owned)
          /\ reused' = reused \cup (IF initialized THEN dangling ELSE {})
      BY <1>6
    <3> HIDE DEF OrtGenAI!API_IHV_Release, OrtGenAI!ReleaseObject, OrtGenAI!ObjectGone,
                 OrtGenAI!LLMInference_Destructor
    <3>2. OrtCommon'
      BY <2>1, <3>1 DEF PluginsTypeOK, VendorInv, RyzenInv
    <3>3. lost' # {} => failedInit'
      BY <2>1, <3>1 DEF PluginsTypeOK, VendorInv, RyzenInv
    <3>4. spoiled' \/ config' = "shipped"
      BY <2>1, <3>1 DEF PluginsTypeOK, VendorInv, RyzenInv
    <3>5. dangling' = {}
      BY <2>1, <3>1 DEF PluginsTypeOK, VendorInv, RyzenInv
    <3> QED
      BY <2>1, <3>1, <3>2, <3>3, <3>4, <3>5 DEF RyzenInv
  <2> QED
    BY <2>2, <2>3, <2>4
<1>7. CASE OrtGenAI!API_IHV_Init_RyzenAI
  <2> USE DEF UseOrtGenAI, OrtGenAI!API_IHV_Init_RyzenAI, OrtGenAI!Handle,
              OrtGenAI!LLMInference_Init_RyzenAI, OrtGenAI!SetupGenaiConfigForRyzenAI,
              OrtGenAI!Loads, OrtGenAI!NotConfigured, OrtGenAI!Configures, OrtGenAI!Makes,
              OrtGenAI!files
  <2>1. inference /\ plugin = "idle" /\ plugin' = IF ~message' THEN "loaded" ELSE "broken"
    BY <1>7 DEF PluginsTypeOK, OrtGenAI!Reply, OrtGenAI!Perform, OrtGenAI!Answer,
       OrtGenAI!InitModel
  <2>2. PluginsTypeOK'
    BY <1>7, <2>1 DEF PluginsTypeOK, VendorInv, RyzenInv
  <2>3. VendorInv'
    BY <1>7, <2>1 DEF PluginsTypeOK, VendorInv, RyzenInv
  <2>4. RyzenInv'
    <3>1. /\ inference' = inference /\ failedInit' = (failedInit \/ message')
          /\ spoiled' = (spoiled \/ message')
          /\ UNCHANGED <<dirty, output, reused>>
      BY <1>7
    <3>2. ~initialized
      BY <2>1 DEF PluginsTypeOK, VendorInv, RyzenInv
    <3>3. CASE message
      <4>1. UNCHANGED <<initialized, message, owned, dangling, lost, config, keptConfig>>
        BY <1>7, <3>3
      <4> HIDE DEF OrtGenAI!API_IHV_Init_RyzenAI, OrtGenAI!Handle,
                   OrtGenAI!LLMInference_Init_RyzenAI, OrtGenAI!Loads
      <4> QED
        BY <2>1, <3>1, <3>2, <3>3, <4>1 DEF PluginsTypeOK, VendorInv, RyzenInv
    <3>4. CASE ~message
      <4>1. owned = {} /\ dangling = {}
        BY <2>1, <3>2, <3>4 DEF PluginsTypeOK, VendorInv, RyzenInv
      <4>2. CASE OrtGenAI!NotConfigured
        <5>1. /\ message' = TRUE
              /\ UNCHANGED <<initialized, owned, dangling, lost, config, keptConfig>>
          BY <4>2
        <5> HIDE DEF OrtGenAI!API_IHV_Init_RyzenAI, OrtGenAI!Handle,
                     OrtGenAI!LLMInference_Init_RyzenAI, OrtGenAI!Loads
        <5> QED
          BY <2>1, <3>1, <3>2, <5>1 DEF PluginsTypeOK, VendorInv, RyzenInv
      <4> DEFINE objects == <<"model", "params", "generator", "sequences">>
      <4>3. CASE /\ config # "torn"
               /\ OrtGenAI!SetupGenaiConfigForRyzenAI /\ OrtGenAI!Makes(objects)
        <5> HIDE DEF OrtGenAI!API_IHV_Init_RyzenAI, OrtGenAI!Handle,
                     OrtGenAI!LLMInference_Init_RyzenAI, OrtGenAI!Loads
        <5>1. \/ config' \in {"adapted", "torn", config} /\ keptConfig' = config
              \/ UNCHANGED <<config, keptConfig>>
          BY <4>3
        <5>2. /\ dangling' = {} /\ lost' = lost
              /\ \/ message' = TRUE /\ initialized' = initialized
                 \/ initialized' = TRUE /\ message' = message
          BY <4>1, <4>3
        <5>3. message' \/ (owned' = {"model", "params", "generator", "sequences"} /\ config' # "torn")
          <6>1. {objects[i] : i \in DOMAIN objects} = {"model", "params", "generator", "sequences"}
            OBVIOUS
          <6> QED
            BY <4>1, <4>3, <6>1
        <5>4. CASE message'
          <6> USE DEF PluginsTypeOK
          <6>1. ~initialized'
            BY <3>2, <3>4, <5>2, <5>4
          <6>a. failedInit' /\ spoiled' /\ plugin' = "broken" /\ inference'
            BY <2>1, <3>1, <5>4
          <6>2. OrtCommon'
            <7>1. output' \subseteq {"this"}
              BY <3>1 DEF RyzenInv
            <7> QED
              BY <5>4, <6>1, <6>a, <7>1 DEF OrtCommon
          <6>3. OrtGenAI!ServesRyzenAI'
            BY <3>1, <5>2, <5>4, <6>1, <6>a DEF PluginsTypeOK, VendorInv, RyzenInv
          <6> QED
            BY <3>1, <5>2, <5>4, <6>1, <6>2, <6>3 DEF RyzenInv
        <5>5. CASE ~message'
          BY <2>1, <3>1, <3>2, <3>4, <5>1, <5>2, <5>3, <5>5 DEF PluginsTypeOK, VendorInv,
             RyzenInv
        <5> QED
          BY <5>4, <5>5
      <4> QED
        BY <1>7, <3>4, <4>2, <4>3
    <3> QED
      BY <3>3, <3>4 DEF PluginsTypeOK
  <2> QED
    BY <2>2, <2>3, <2>4
<1>8. CASE OrtGenAI!API_IHV_Infer_RyzenAI
  <2> USE DEF UseOrtGenAI, OrtGenAI!API_IHV_Infer_RyzenAI, OrtGenAI!Answers,
              OrtGenAI!LLMInference_Run_RyzenAI, OrtGenAI!NothingRun, OrtGenAI!BreaksOff,
              OrtGenAI!NotReplaced, OrtGenAI!RunsOn, OrtGenAI!files
  <2>1. inference /\ plugin = "prepared" /\ plugin' = "ran"
    BY <1>8 DEF PluginsTypeOK, OrtGenAI!Reply, OrtGenAI!Perform, OrtGenAI!Answer,
       OrtGenAI!Infer
  <2>2. PluginsTypeOK'
    BY <1>8, <2>1 DEF PluginsTypeOK, VendorInv, RyzenInv
  <2>3. VendorInv'
    BY <1>8, <2>1 DEF PluginsTypeOK, VendorInv, RyzenInv
  <2>4. RyzenInv'
    BY <1>8, <2>1 DEF PluginsTypeOK, VendorInv, RyzenInv
  <2> QED
    BY <2>2, <2>3, <2>4
<1> QED
  BY <1>1, <1>2, <1>3, <1>4, <1>5, <1>6, <1>7, <1>8 DEF UseOrtGenAI, OrtGenAI!NextRyzenAI

-----------------------------------------------------------------------------
(* llama.cpp: the bisection.                                               *)

\* The bisection as DeducedLayers does it, from step to step.
Start(N) == [low |-> 1, high |-> N, best |-> 0]
SearchTo == CHOOSE search : search = [n \in 0 .. TotalLayers |->
              IF n = 0 THEN [low |-> 1, high |-> TotalLayers, best |-> 0]
              ELSE LlamaCpp!Bisected(search[n - 1])]

\* What a step of the bisection has between it: the capacity, in fewer layers each time.
Searching(s, n, N, m) ==
  /\ s.low \in 1 .. N + 1 /\ s.high \in 0 .. N /\ s.best = s.low - 1
  /\ s.low - 1 <= m /\ m <= s.high
  /\ s.high - s.low + 1 <= N - n

\* The library's least of two numbers.
LEMMA LeastOfTwo ==
  ASSUME NEW a \in Int, NEW b \in Int
  PROVE  /\ LlamaCpp!Min({a, b}) = IF a <= b THEN a ELSE b
         /\ LlamaCpp!Max({a, b}) = IF a <= b THEN b ELSE a
<1>1. LlamaCpp!Min({a, b}) \in {a, b} /\ \A y \in {a, b} : LlamaCpp!Min({a, b}) <= y
  <2>1. \E x \in {a, b} : \A y \in {a, b} : x <= y
    <3>1. CASE a <= b
      BY <3>1
    <3>2. CASE b <= a
      BY <3>2
    <3> QED
      BY <3>1, <3>2
  <2> QED
    BY <2>1 DEF LlamaCpp!Min
<1>2. LlamaCpp!Max({a, b}) \in {a, b} /\ \A y \in {a, b} : LlamaCpp!Max({a, b}) >= y
  <2>1. \E x \in {a, b} : \A y \in {a, b} : x >= y
    <3>1. CASE a <= b
      BY <3>1
    <3>2. CASE b <= a
      BY <3>2
    <3> QED
      BY <3>1, <3>2
  <2> QED
    BY <2>1 DEF LlamaCpp!Max
<1> QED
  BY <1>1, <1>2

\* The middle of two numbers is between them.
LEMMA Middle ==
  ASSUME NEW a \in Int, NEW b \in Int
  PROVE  /\ (a + b) \div 2 \in Int
         /\ a <= b => a <= (a + b) \div 2 /\ (a + b) \div 2 <= b
  OBVIOUS

\* The bisection finds the layers the memory takes, none when not even the
\* context fits.
LEMMA BisectionFinds ==
  ASSUME capacity \in -1 .. TotalLayers
  PROVE  LlamaCpp!DeducedLayers = IF capacity = -1 THEN 0 ELSE capacity
<1>0. PICK N \in Nat : N = TotalLayers
  BY PluginsAssumption
<1>1. PICK m \in 0 .. N : m = IF capacity = -1 THEN 0 ELSE capacity
  BY <1>0
<1> DEFINE T == [low : Int, high : Int, best : Int]
<1>2. PICK fit \in [Int -> BOOLEAN] :
        /\ \A n \in Int : LlamaCpp!Fits(n) <=> fit[n]
        /\ \A n \in 1 .. N : fit[n] <=> n <= m
  <2> DEFINE fit == [n \in Int |-> LlamaCpp!InMemory(n) <= capacity]
  <2>1. \A n \in 1 .. N : LlamaCpp!InMemory(n) = n
    BY <1>0, LeastOfTwo DEF LlamaCpp!InMemory
  <2>2. \A n \in 1 .. N : n <= capacity <=> n <= m
    BY <1>0, <1>1
  <2>3. \A n \in Int : LlamaCpp!Fits(n) <=> fit[n]
    BY DEF LlamaCpp!Fits
  <2>4. \A n \in 1 .. N : fit[n] <=> n <= m
    <3>1. \A n \in 1 .. N : n \in Int
      OBVIOUS
    <3>2. \A n \in 1 .. N : fit[n] = (LlamaCpp!InMemory(n) <= capacity)
      BY <3>1
    <3> HIDE DEF fit
    <3> QED
      BY <2>1, <2>2, <3>2
  <2>5. fit \in [Int -> BOOLEAN]
    OBVIOUS
  <2> HIDE DEF fit
  <2> QED
    BY <2>3, <2>4, <2>5
<1> DEFINE Mid(s) == (s.low + s.high) \div 2
           Halved(s) == IF s.low > s.high THEN s
                        ELSE IF fit[Mid(s)]
                             THEN [low |-> Mid(s) + 1, high |-> s.high, best |-> Mid(s)]
                             ELSE [low |-> s.low, high |-> Mid(s) - 1, best |-> s.best]
<1>3. \A s \in T : LlamaCpp!Bisected(s) = Halved(s) /\ Halved(s) \in T
  <2> SUFFICES ASSUME NEW s \in T PROVE LlamaCpp!Bisected(s) = Halved(s) /\ Halved(s) \in T
    OBVIOUS
  <2>1. s.low \in Int /\ s.high \in Int /\ s.best \in Int /\ Mid(s) \in Int
    BY Middle
  <2>2. LlamaCpp!Fits(Mid(s)) <=> fit[Mid(s)]
    BY <1>2, <2>1
  <2>3. LlamaCpp!Bisected(s) = Halved(s)
    <3>1. CASE s.low > s.high
      BY <3>1 DEF LlamaCpp!Bisected
    <3>2. CASE ~(s.low > s.high) /\ fit[Mid(s)]
      BY <2>2, <3>2 DEF LlamaCpp!Bisected
    <3>3. CASE ~(s.low > s.high) /\ ~fit[Mid(s)]
      BY <2>2, <3>3 DEF LlamaCpp!Bisected
    <3> QED
      BY <3>1, <3>2, <3>3
  <2>4. Halved(s) \in T
    <3> HIDE DEF Mid
    <3> QED
      BY <2>1
  <2> QED
    BY <2>3, <2>4
<1> HIDE DEF T, Halved, Mid
<1>4. PICK step \in Turns(N, T) : \A i \in 1 .. N, s \in T : step[<<i, s>>] = Halved(s)
  <2>1. [p \in (1 .. N) \X T |-> Halved(p[2])] \in Turns(N, T)
    BY <1>3 DEF Turns
  <2> QED
    BY <2>1
<1>5. PICK f \in [0 .. N -> T] : f[0] = Start(N) /\ \A i \in 1 .. N : f[i] = step[<<i, f[i - 1]>>]
  <2>1. Start(N) \in T
    BY DEF T, Start
  <2>2. Loops(N, T, Start(N), step) # {}
    BY <2>1, LoopExists
  <2> QED
    BY <2>2 DEF Loops
<1>6. ASSUME NEW i \in 1 .. N PROVE f[i] = LlamaCpp!Bisected(f[i - 1]) /\ f[i] = Halved(f[i - 1])
  <2>1. f[i - 1] \in T
    OBVIOUS
  <2> QED
    BY <1>3, <1>4, <1>5, <2>1
<1>7. f = [n \in 0 .. TotalLayers |->
             IF n = 0 THEN [low |-> 1, high |-> TotalLayers, best |-> 0]
             ELSE LlamaCpp!Bisected(f[n - 1])]
  <2> DEFINE turn(n) == IF n = 0 THEN [low |-> 1, high |-> TotalLayers, best |-> 0]
                        ELSE LlamaCpp!Bisected(f[n - 1])
  <2>1. \A n \in 0 .. N : f[n] = turn(n)
    <3>1. turn(0) = f[0]
      BY <1>0, <1>5 DEF Start
    <3>2. \A n \in 1 .. N : f[n] = turn(n)
      BY <1>6
    <3> HIDE DEF turn
    <3> QED
      BY <3>1, <3>2
  <2> HIDE DEF turn
  <2>2. f = [n \in 0 .. TotalLayers |-> turn(n)]
    BY <1>0, <2>1
  <2> QED
    BY <2>2 DEF turn
<1> DEFINE g == SearchTo
<1>8. g = [n \in 0 .. TotalLayers |->
             IF n = 0 THEN [low |-> 1, high |-> TotalLayers, best |-> 0]
             ELSE LlamaCpp!Bisected(g[n - 1])]
  BY <1>7 DEF SearchTo
<1>9. LlamaCpp!DeducedLayers = g[TotalLayers].best
  BY Zenon DEF LlamaCpp!DeducedLayers, SearchTo
<1> HIDE DEF g
<1>10. g[0] = Start(N) /\ \A n \in 1 .. N : g[n] = LlamaCpp!Bisected(g[n - 1])
  <2> DEFINE D == 0 .. TotalLayers
  <2>1. 0 \in D /\ \A i \in 1 .. N : i \in D /\ i # 0
    BY <1>0
  <2>2. \A i \in D : g[i] = IF i = 0 THEN [low |-> 1, high |-> TotalLayers, best |-> 0]
                            ELSE LlamaCpp!Bisected(g[i - 1])
    BY <1>8, Zenon
  <2> QED
    BY <1>0, <2>1, <2>2 DEF Start
<1> DEFINE S == {n \in 0 .. N : g[n] \in T /\ Searching(g[n], n, N, m)}
<1>11. 0 \in S
  BY <1>10 DEF Searching, Start, T
<1>12. ASSUME NEW n \in 0 .. N - 1, n \in S PROVE n + 1 \in S
  <2>1. PICK s \in T : s = g[n] /\ Searching(s, n, N, m)
    BY <1>12
  <2>2. n + 1 \in 1 .. N /\ n + 1 - 1 = n /\ n + 1 \in 0 .. N
    OBVIOUS
  <2>3. g[n + 1] = Halved(s) /\ Halved(s) \in T
    BY <1>3, <1>10, <2>1, <2>2
  <2>4. PICK low \in Int, high \in Int, best \in Int, mid \in Int :
          /\ low = s.low /\ high = s.high /\ best = s.best /\ mid = Mid(s)
          /\ low <= high => low <= mid /\ mid <= high
    BY Middle DEF T, Mid
  <2>5. low \in 1 .. N + 1 /\ high \in 0 .. N /\ best = low - 1 /\ low - 1 <= m /\ m <= high
        /\ high - low + 1 <= N - n
    BY <2>1, <2>4 DEF Searching
  <2>6. Searching(Halved(s), n + 1, N, m)
    <3>1. CASE low > high
      <4>1. Halved(s) = s
        BY <2>4, <3>1 DEF Halved
      <4>2. high - low + 1 <= N - (n + 1)
        BY <2>5, <3>1
      <4> QED
        BY <2>4, <2>5, <4>1, <4>2 DEF Searching
    <3>2. CASE low <= high /\ fit[mid]
      <4>1. Halved(s) = [low |-> mid + 1, high |-> high, best |-> mid]
        BY <2>4, <3>2 DEF Halved
      <4>2. mid \in 1 .. N
        BY <2>4, <2>5, <3>2
      <4>3. mid <= m
        BY <1>2, <3>2, <4>2
      <4>4. mid + 1 \in 1 .. N + 1 /\ mid = mid + 1 - 1 /\ high - (mid + 1) + 1 <= N - (n + 1)
        <5>1. low <= mid /\ mid <= high
          BY <2>4, <3>2
        <5>2. high - (mid + 1) + 1 <= N - (n + 1)
          BY <2>5, <4>2, <5>1
        <5>3. mid + 1 \in 1 .. N + 1 /\ mid = mid + 1 - 1
          BY <4>2
        <5> QED
          BY <5>2, <5>3
      <4> QED
        BY <2>5, <4>1, <4>3, <4>4 DEF Searching
    <3>3. CASE low <= high /\ ~fit[mid]
      <4>1. Halved(s) = [low |-> low, high |-> mid - 1, best |-> best]
        BY <2>4, <3>3 DEF Halved
      <4>2. mid \in 1 .. N
        BY <2>4, <2>5, <3>3
      <4>3. m <= mid - 1
        <5>1. ~(mid <= m)
          BY <1>2, <3>3, <4>2
        <5> QED
          BY <4>2, <5>1
      <4>4. mid - 1 \in 0 .. N /\ mid - 1 - low + 1 <= N - (n + 1)
        <5>1. low <= mid /\ mid <= high
          BY <2>4, <3>3
        <5>2. mid - 1 - low + 1 <= N - (n + 1)
          BY <2>5, <4>2, <5>1
        <5>3. mid - 1 \in 0 .. N
          BY <4>2
        <5> QED
          BY <5>2, <5>3
      <4> QED
        BY <2>5, <4>1, <4>3, <4>4 DEF Searching
    <3> QED
      BY <3>1, <3>2, <3>3
  <2> QED
    BY <2>2, <2>3, <2>6
<1>13. N \in S
  <2> HIDE DEF S
  <2>1. \A n \in 0 .. N : n \in S
    BY <1>11, <1>12, Induction
  <2> QED
    BY <2>1
<1>14. g[N].best = m
  <2>1. PICK s \in T : s = g[N] /\ Searching(s, N, N, m)
    BY <1>13
  <2> QED
    BY <2>1 DEF Searching
<1> QED
  BY <1>0, <1>1, <1>9, <1>14

\* What a loading asks of the memory, the deduced number of layers included.
LEMMA LayerFacts ==
  ASSUME capacity \in -1 .. TotalLayers
  PROVE  /\ \A wanted \in LayersWanted : LlamaCpp!InMemory(wanted) \in 0 .. TotalLayers
         /\ LlamaCpp!SafeLayers = LlamaCpp!Max({capacity - 2, 0})
         /\ LlamaCpp!InMemory(LlamaCpp!SafeLayers) = LlamaCpp!SafeLayers
         /\ LlamaCpp!SafeLayers \in 0 .. TotalLayers
<1>0. TotalLayers \in Nat /\ LayersWanted \subseteq Nat
  BY PluginsAssumption
<1>1. ASSUME NEW n \in Nat
      PROVE  LlamaCpp!InMemory(n) = IF n <= TotalLayers THEN n ELSE TotalLayers
  BY <1>0, LeastOfTwo DEF LlamaCpp!InMemory
<1>2. LlamaCpp!SafeLayers = IF capacity <= 2 THEN 0 ELSE capacity - 2
  <2>1. PICK c \in Int : c = LlamaCpp!DeducedLayers /\ c = IF capacity = -1 THEN 0 ELSE capacity
    BY <1>0, BisectionFinds
  <2>2. LlamaCpp!Max({c - 2, 0}) = IF c - 2 <= 0 THEN 0 ELSE c - 2
    <3>1. c - 2 \in Int /\ 0 \in Int
      OBVIOUS
    <3> QED
      BY <3>1, LeastOfTwo, Zenon
  <2> QED
    BY <1>0, <2>1, <2>2 DEF LlamaCpp!SafeLayers
<1>3. LlamaCpp!Max({capacity - 2, 0}) = IF capacity <= 2 THEN 0 ELSE capacity - 2
  <2>1. PICK c \in Int : c = capacity
    BY <1>0
  <2>2. LlamaCpp!Max({c - 2, 0}) = IF c - 2 <= 0 THEN 0 ELSE c - 2
    <3>1. c - 2 \in Int /\ 0 \in Int
      OBVIOUS
    <3> QED
      BY <3>1, LeastOfTwo, Zenon
  <2> QED
    BY <2>1, <2>2
<1>4. LlamaCpp!SafeLayers \in 0 .. TotalLayers
  BY <1>0, <1>2
<1> QED
  BY <1>0, <1>1, <1>2, <1>3, <1>4

\* Every step of a session with the llama.cpp library keeps its invariant.
LEMMA LlamaCppStep ==
  ASSUME PluginsTypeOK, VendorInv, LlamaInv, library = "LlamaCpp", UseLlamaCpp
  PROVE  (PluginsTypeOK /\ VendorInv /\ LlamaInv)'
<1> USE DEF common, kept, llama, ortGenAI, windowsML, PluginState, Released, LlamaCpp!object,
            LlamaCpp!history, LlamaCpp!vendor, LlamaCpp!Report, LlamaCpp!KeepPointers,
            LlamaCpp!KeepRun, LlamaCpp!Assigned, LlamaCpp!Running, LlamaCpp!ServesRuns,
            LlamaCpp!Released, LlamaCpp!Serves
<1>1. CASE LlamaCpp!DispatcherSetup
  <2> USE DEF UseLlamaCpp, LlamaCpp!DispatcherSetup, LlamaCpp!SetupObject,
              LlamaCpp!SetupRefused, LlamaCpp!LLMInference, LlamaCpp!memory
  <2>1. /\ plugin = "none" /\ plugin' \in {"none", "idle"}
        /\ plugin' = "none" => UNCHANGED LlamaCpp!vendor
    BY <1>1 DEF PluginsTypeOK, LlamaCpp!Reply, LlamaCpp!Perform, LlamaCpp!Answer,
       LlamaCpp!Setup
  <2>a. /\ plugin = "none"
        /\ UNCHANGED <<LlamaCpp!object, LlamaCpp!history, failedInit>>
        /\ plugin' = "idle" \/ (plugin' = "none" /\ UNCHANGED inference)
        /\ inference' \in BOOLEAN
    BY <1>1, <2>1 DEF PluginsTypeOK
  <2>b. /\ ~inference /\ ~initialized /\ ~message /\ ~dirty
        /\ owned = {} /\ dangling = {} /\ output = {}
        /\ lost = {} /\ reused = {} /\ ~failedInit
    BY <2>a DEF VendorInv
  <2> HIDE DEF LlamaCpp!SetupObject, LlamaCpp!SetupRefused
  <2>2. PluginsTypeOK'
    BY <1>1, <2>a, <2>b, <2>1 DEF PluginsTypeOK, VendorInv, LlamaInv
  <2>3. VendorInv'
    BY <1>1, <2>a, <2>b, <2>1 DEF PluginsTypeOK, VendorInv, LlamaInv
  <2>4. LlamaInv'
    BY <1>1, <2>a, <2>b, <2>1 DEF PluginsTypeOK, VendorInv, LlamaInv
  <2> QED
    BY <2>2, <2>3, <2>4
<1>2. CASE LlamaCpp!NotHandled
  <2> USE DEF UseLlamaCpp, LlamaCpp!NotHandled, LlamaCpp!Unhandled, LlamaCpp!memory
  <2>1. \/ plugin = "idle" /\ plugin' = "broken" /\ failedInit'
        \/ /\ ~inference /\ failedInit' = failedInit
           /\ \/ plugin \in {"loaded", "broken"} /\ plugin' = "broken"
              \/ plugin \in {"loaded", "broken", "prepared", "ran"} /\ plugin' = "idle"
              \/ plugin = "prepared" /\ plugin' = "ran"
              \/ plugin = "ran" /\ plugin' = "broken"
    BY <1>2 DEF PluginsTypeOK, LlamaCpp!Reply, LlamaCpp!Perform, LlamaCpp!Answer,
       LlamaCpp!InitModel, LlamaCpp!Prepare, LlamaCpp!Infer, LlamaCpp!Reset, LlamaCpp!Deinit
  <2>2. PluginsTypeOK'
    BY <1>2, <2>1 DEF PluginsTypeOK, VendorInv, LlamaInv
  <2>3. VendorInv'
    BY <1>2, <2>1 DEF PluginsTypeOK, VendorInv, LlamaInv
  <2>4. LlamaInv'
    BY <1>2, <2>1 DEF PluginsTypeOK, VendorInv, LlamaInv
  <2> QED
    BY <2>2, <2>3, <2>4
<1>3. CASE LlamaCpp!API_IHV_Init
  <2> USE DEF UseLlamaCpp, LlamaCpp!API_IHV_Init, LlamaCpp!Handle
  <2>1. inference /\ plugin = "idle" /\ plugin' = IF ~message' THEN "loaded" ELSE "broken"
    BY <1>3 DEF PluginsTypeOK, LlamaCpp!Reply, LlamaCpp!Perform, LlamaCpp!Answer,
       LlamaCpp!InitModel
  <2>2. /\ inference' = inference /\ failedInit' = (failedInit \/ message')
        /\ LlamaCpp!LLMInference_Init
        /\ UNCHANGED <<library, ortGenAI, scenario, python, windowsML>>
    BY <1>3
  <2> HIDE DEF LlamaCpp!API_IHV_Init, LlamaCpp!Handle, UseLlamaCpp
  <2>3. /\ ~message /\ ~dirty /\ owned = {} /\ dangling = {} /\ reused = {} /\ output = {}
        /\ lost \subseteq {"sampler"}
        /\ capacity \in -1 .. TotalLayers /\ layers \in 0 .. TotalLayers
    BY <2>1 DEF LlamaInv
  <2> DEFINE placed == {LlamaCpp!InMemory(w) : w \in LayersWanted}
                       \cup {LlamaCpp!Max({capacity - 2, 0})}
  <2>4. /\ message' \in BOOLEAN /\ dangling' = {} /\ lost' = lost
        /\ layers' \in 0 .. TotalLayers
        /\ ~message' => /\ owned' = {"model", "context"}
                        /\ layers' <= capacity /\ layers' \in placed
    <3>1. CASE LlamaCpp!LoadFails
      BY <2>3, <3>1 DEF LlamaCpp!LoadFails
    <3>2. CASE LlamaCpp!UnknownDevice
      BY <2>3, <3>2 DEF LlamaCpp!UnknownDevice
    <3>3. ASSUME NEW n, n \in LayersWanted \/ n = LlamaCpp!SafeLayers,
                 LlamaCpp!LoadModelAndContext(n), UNCHANGED message
          PROVE  /\ message' \in BOOLEAN /\ dangling' = {} /\ lost' = lost
                 /\ layers' \in 0 .. TotalLayers
                 /\ ~message' => /\ owned' = {"model", "context"}
                                 /\ layers' <= capacity /\ layers' \in placed
      <4>1. /\ owned' = {"model", "context"} /\ dangling' = {} /\ lost' = lost
            /\ layers' = LlamaCpp!InMemory(n) /\ layers' <= capacity /\ message' \in BOOLEAN
        BY <2>3, <3>3 DEF LlamaCpp!LoadModelAndContext, LlamaCpp!Fits, PluginsTypeOK
      <4>2. LlamaCpp!InMemory(n) \in 0 .. TotalLayers /\ LlamaCpp!InMemory(n) \in placed
        BY <2>3, <3>3, LayerFacts
      <4> QED
        BY <4>1, <4>2
    <3> HIDE DEF placed
    <3>4. \/ LlamaCpp!LoadFails \/ LlamaCpp!UnknownDevice
          \/ \E n : /\ n \in LayersWanted \/ n = LlamaCpp!SafeLayers
                    /\ LlamaCpp!LoadModelAndContext(n) /\ UNCHANGED message
      BY <2>2 DEF LlamaCpp!LLMInference_Init
    <3> QED
      BY <3>1, <3>2, <3>3, <3>4
  <2>5. UNCHANGED <<dirty, output, initialized, capacity, reused>>
    BY <2>2 DEF LlamaCpp!LLMInference_Init
  <2>6. PluginsTypeOK'
    BY <2>1, <2>2, <2>3, <2>4, <2>5 DEF PluginsTypeOK
  <2>7. VendorInv'
    BY <2>1, <2>2, <2>3, <2>4, <2>5 DEF VendorInv
  <2>8. LlamaInv'
    <3>1. placed' = placed
      BY <2>5 DEF LlamaCpp!InMemory
    <3>2. LlamaCpp!Serves'
      <4>1. LlamaCpp!ServesRuns({"model", "context"})'
        BY <2>1, <2>2, <2>4
      <4>2. plugin' \in {"loaded", "broken"}
        BY <2>1
      <4>3. plugin' = "loaded" => layers' <= capacity' /\ layers' \in placed'
        BY <2>1, <2>4, <2>5, <3>1
      <4> QED
        BY <2>3, <2>4, <2>5, <4>1, <4>2, <4>3
    <3> HIDE DEF LlamaCpp!Serves
    <3> QED
      BY <2>3, <2>4, <2>5, <3>2 DEF LlamaInv
  <2> QED
    BY <2>6, <2>7, <2>8
<1>4. CASE LlamaCpp!API_IHV_Prepare
  <2> USE DEF UseLlamaCpp, LlamaCpp!API_IHV_Prepare, LlamaCpp!Handle, LlamaCpp!memory
  <2>1. /\ inference /\ plugin \in {"loaded", "broken"}
        /\ plugin' = IF ~message' /\ plugin = "loaded" THEN "prepared" ELSE "broken"
    BY <1>4 DEF PluginsTypeOK, LlamaCpp!Reply, LlamaCpp!Perform, LlamaCpp!Answer,
       LlamaCpp!Prepare
  <2>2. PluginsTypeOK'
    BY <1>4, <2>1 DEF PluginsTypeOK, VendorInv, LlamaInv
  <2>3. VendorInv'
    BY <1>4, <2>1 DEF PluginsTypeOK, VendorInv, LlamaInv
  <2>4. LlamaInv'
    BY <1>4, <2>1 DEF PluginsTypeOK, VendorInv, LlamaInv
  <2> QED
    BY <2>2, <2>3, <2>4
<1>5. CASE LlamaCpp!API_IHV_Infer
  <2> USE DEF UseLlamaCpp, LlamaCpp!API_IHV_Infer, LlamaCpp!Handle, LlamaCpp!LLMInference_Run,
              LlamaCpp!InputRefused, LlamaCpp!MethodUnsupported, LlamaCpp!LeftUncleared,
              LlamaCpp!Generates, LlamaCpp!memory
  <2>1. inference /\ plugin = "prepared" /\ plugin' = "ran"
    BY <1>5 DEF PluginsTypeOK, LlamaCpp!Reply, LlamaCpp!Perform, LlamaCpp!Answer,
       LlamaCpp!Infer
  <2>2. PluginsTypeOK'
    BY <1>5, <2>1 DEF PluginsTypeOK, VendorInv, LlamaInv
  <2>3. VendorInv'
    BY <1>5, <2>1 DEF PluginsTypeOK, VendorInv, LlamaInv
  <2>4. LlamaInv'
    BY <1>5, <2>1 DEF PluginsTypeOK, VendorInv, LlamaInv
  <2> QED
    BY <2>2, <2>3, <2>4
<1>6. CASE LlamaCpp!API_IHV_Reset
  <2> USE DEF UseLlamaCpp, LlamaCpp!API_IHV_Reset, LlamaCpp!Handle, LlamaCpp!memory
  <2>1. inference /\ plugin = "ran" /\ plugin' = IF ~message' THEN "loaded" ELSE "broken"
    BY <1>6 DEF PluginsTypeOK, LlamaCpp!Reply, LlamaCpp!Perform, LlamaCpp!Answer,
       LlamaCpp!Reset
  <2>2. PluginsTypeOK'
    BY <1>6, <2>1 DEF PluginsTypeOK, VendorInv, LlamaInv
  <2>3. VendorInv'
    BY <1>6, <2>1 DEF PluginsTypeOK, VendorInv, LlamaInv
  <2>4. LlamaInv'
    BY <1>6, <2>1 DEF PluginsTypeOK, VendorInv, LlamaInv
  <2> QED
    BY <2>2, <2>3, <2>4
<1>7. CASE LlamaCpp!API_IHV_Deinit
  <2> USE DEF UseLlamaCpp, LlamaCpp!API_IHV_Deinit, LlamaCpp!Handle,
              LlamaCpp!LLMInference_Deinit, LlamaCpp!memory
  <2>1. inference /\ plugin \in {"loaded", "broken", "prepared", "ran"} /\ plugin' = "idle"
    BY <1>7 DEF PluginsTypeOK, LlamaCpp!Reply, LlamaCpp!Perform, LlamaCpp!Answer,
       LlamaCpp!Deinit
  <2>2. PluginsTypeOK'
    BY <1>7, <2>1 DEF PluginsTypeOK, VendorInv, LlamaInv
  <2>3. VendorInv'
    BY <1>7, <2>1 DEF PluginsTypeOK, VendorInv, LlamaInv
  <2>4. LlamaInv'
    BY <1>7, <2>1 DEF PluginsTypeOK, VendorInv, LlamaInv
  <2> QED
    BY <2>2, <2>3, <2>4
<1>8. CASE LlamaCpp!API_IHV_Release
  <2> USE DEF UseLlamaCpp, LlamaCpp!API_IHV_Release, LlamaCpp!ReleaseObject,
              LlamaCpp!ObjectGone, LlamaCpp!memory
  <2>1. /\ plugin \in {"idle", "loaded", "broken", "prepared", "ran"}
        /\ plugin' \in {"released", "leaked"}
    BY <1>8 DEF PluginsTypeOK, LlamaCpp!Reply, LlamaCpp!Perform, LlamaCpp!Answer,
       LlamaCpp!Release, LlamaCpp!PluginState
  <2>2. PluginsTypeOK'
    BY <1>8, <2>1 DEF PluginsTypeOK, VendorInv, LlamaInv
  <2>3. VendorInv'
    BY <1>8, <2>1 DEF PluginsTypeOK, VendorInv, LlamaInv
  <2>4. LlamaInv'
    BY <1>8, <2>1 DEF PluginsTypeOK, VendorInv, LlamaInv
  <2> QED
    BY <2>2, <2>3, <2>4
<1> QED
  BY <1>1, <1>2, <1>3, <1>4, <1>5, <1>6, <1>7, <1>8 DEF UseLlamaCpp, LlamaCpp!Next

-----------------------------------------------------------------------------
(* Windows ML: devices.                                                    *)

\* The least of a set of numbers is one of them.
LEMMA LeastIsThere ==
  ASSUME NEW S \in SUBSET Nat, S # {}
  PROVE  WindowsML!Min(S) \in S
<1> DEFINE R == OpToRel(<, Nat)
<1>1. IsWellFoundedOn(R, Nat)
  BY NatLessThanWellFounded
<1> HIDE DEF R
<1>2. PICK x \in S : \A y \in S : ~(<<y, x>> \in R)
  BY <1>1, WFMin
<1>3. \A y \in S : x <= y
  <2>1. S \subseteq Nat /\ x \in Nat
    OBVIOUS
  <2>2. \A y \in S : ~(y < x)
    BY <1>2, <2>1 DEF R, OpToRel
  <2> QED
    BY <2>1, <2>2
<1> QED
  BY <1>2, <1>3 DEF WindowsML!Min

\* Among as it goes along the sequence.
AmongTo(seq, set) == CHOOSE to : to = [n \in 0 .. Len(seq) |->
  IF n = 0 THEN <<>>
  ELSE IF seq[n] \in set THEN Append(to[n - 1], seq[n]) ELSE to[n - 1]]

\* Among picks elements of the sequence that are in the set.
LEMMA AmongFacts ==
  ASSUME NEW T, NEW seq \in Seq(T), NEW set
  PROVE  WindowsML!Among(seq, set) \in Seq(T \cap set)
<1>0. PICK n \in Nat : n = Len(seq)
  OBVIOUS
<1> DEFINE U == T \cap set
<1>a. \A i \in 1 .. n, t \in Seq(U) : (IF seq[i] \in set THEN Append(t, seq[i]) ELSE t) \in Seq(U)
  <2> SUFFICES ASSUME NEW i \in 1 .. n, NEW t \in Seq(U)
               PROVE  (IF seq[i] \in set THEN Append(t, seq[i]) ELSE t) \in Seq(U)
    OBVIOUS
  <2>1. seq[i] \in T
    BY <1>0
  <2>2. CASE seq[i] \in set
    BY <2>1, <2>2, AppendProperties
  <2> QED
    BY <2>2
<1> HIDE DEF U
<1>1. PICK step \in Turns(n, Seq(U)) :
        \A i \in 1 .. n, t \in Seq(U) :
          step[<<i, t>>] = IF seq[i] \in set THEN Append(t, seq[i]) ELSE t
  <2>1. [p \in (1 .. n) \X Seq(U) |-> IF seq[p[1]] \in set THEN Append(p[2], seq[p[1]]) ELSE p[2]]
          \in Turns(n, Seq(U))
    BY <1>a DEF Turns
  <2> QED
    BY <2>1
<1>2. PICK f \in [0 .. n -> Seq(U)] :
        f[0] = <<>> /\ \A i \in 1 .. n : f[i] = step[<<i, f[i - 1]>>]
  <2>1. <<>> \in Seq(U)
    OBVIOUS
  <2>2. Loops(n, Seq(U), <<>>, step) # {}
    BY <2>1, LoopExists
  <2> QED
    BY <2>2 DEF Loops
<1>3. ASSUME NEW i \in 1 .. n
      PROVE  f[i] = IF seq[i] \in set THEN Append(f[i - 1], seq[i]) ELSE f[i - 1]
  <2>1. f[i - 1] \in Seq(U)
    OBVIOUS
  <2> QED
    BY <1>1, <1>2, <2>1
<1>4. f = [i \in 0 .. Len(seq) |->
             IF i = 0 THEN <<>>
             ELSE IF seq[i] \in set THEN Append(f[i - 1], seq[i]) ELSE f[i - 1]]
  <2> DEFINE turn(i) == IF i = 0 THEN <<>>
                        ELSE IF seq[i] \in set THEN Append(f[i - 1], seq[i]) ELSE f[i - 1]
  <2>1. \A i \in 0 .. n : f[i] = turn(i)
    <3>1. turn(0) = <<>> /\ f[0] = <<>>
      BY <1>2
    <3>2. \A i \in 1 .. n : f[i] = turn(i)
      BY <1>3
    <3> HIDE DEF turn
    <3> QED
      BY <3>1, <3>2
  <2> HIDE DEF turn
  <2>2. f = [i \in 0 .. Len(seq) |-> turn(i)]
    BY <1>0, <2>1
  <2> QED
    BY <2>2 DEF turn
<1> DEFINE g == AmongTo(seq, set)
<1>5. g = [i \in 0 .. Len(seq) |->
             IF i = 0 THEN <<>>
             ELSE IF seq[i] \in set THEN Append(g[i - 1], seq[i]) ELSE g[i - 1]]
  BY <1>4 DEF AmongTo
<1>6. WindowsML!Among(seq, set) = g[Len(seq)]
  BY Zenon DEF WindowsML!Among, AmongTo
<1> HIDE DEF g
<1>7. g[0] = <<>> /\ \A i \in 1 .. n :
        g[i] = IF seq[i] \in set THEN Append(g[i - 1], seq[i]) ELSE g[i - 1]
  <2> DEFINE D == 0 .. Len(seq)
  <2>1. 0 \in D /\ \A i \in 1 .. n : i \in D /\ i # 0
    BY <1>0
  <2>2. \A i \in D : g[i] = IF i = 0 THEN <<>>
             ELSE IF seq[i] \in set THEN Append(g[i - 1], seq[i]) ELSE g[i - 1]
    BY <1>5, Zenon
  <2> QED
    BY <2>1, <2>2
<1> DEFINE S == {k \in 0 .. n : g[k] \in Seq(U)}
<1>8. 0 \in S
  <2>1. <<>> \in Seq(U)
    OBVIOUS
  <2> QED
    <3>1. g[0] = <<>>
      BY <1>7
    <3>2. 0 \in 0 .. n /\ g[0] \in Seq(U)
      BY <2>1, <3>1
    <3> HIDE DEF U
    <3> QED
      BY <3>2
<1>9. ASSUME NEW k \in 0 .. n - 1, k \in S PROVE k + 1 \in S
  <2>1. k + 1 \in 1 .. n /\ k + 1 - 1 = k /\ k + 1 \in 0 .. n /\ g[k] \in Seq(U)
    BY <1>9
  <2>2. g[k + 1] = IF seq[k + 1] \in set THEN Append(g[k], seq[k + 1]) ELSE g[k]
    BY <1>7, <2>1
  <2> QED
    BY <1>a, <2>1, <2>2
<1>10. \A k \in 0 .. n : k \in S
  <2> HIDE DEF S
  <2> QED
    BY <1>8, <1>9, Induction
<1> QED
  BY <1>0, <1>6, <1>10 DEF U

\* The library's concatenation of sequences as it goes along them.
FlattenTo(seqs) == CHOOSE flatten : flatten = [i \in 1 .. Len(seqs) |->
  IF i = 1 THEN seqs[i] ELSE flatten[i - 1] \o seqs[i]]

\* A concatenation of sequences over a set is one.
LEMMA FlattenFacts ==
  ASSUME NEW T, NEW seqs \in Seq(Seq(T))
  PROVE  WindowsML!FlattenSeq(seqs) \in Seq(T)
<1>0. PICK n \in Nat : n = Len(seqs)
  OBVIOUS
<1>a. CASE n = 0
  <2>1. Len(seqs) = 0
    BY <1>0, <1>a
  <2>2. seqs = <<>>
    BY <2>1
  <2>3. <<>> \in Seq(T)
    OBVIOUS
  <2>4. WindowsML!FlattenSeq(seqs) = seqs
    BY <2>1, Zenon DEF WindowsML!FlattenSeq
  <2> QED
    BY <2>2, <2>3, <2>4
<1>b. CASE n # 0
  <2>0. n \in 1 .. n /\ 1 \in 1 .. n
    BY <1>b
  <2>a. \A i \in 1 .. n, t \in Seq(T) : (IF i = 1 THEN seqs[i] ELSE t \o seqs[i]) \in Seq(T)
    BY <1>0, ConcatProperties
  <2>1. PICK step \in Turns(n, Seq(T)) :
          \A i \in 1 .. n, t \in Seq(T) :
            step[<<i, t>>] = IF i = 1 THEN seqs[i] ELSE t \o seqs[i]
    <3>1. [p \in (1 .. n) \X Seq(T) |-> IF p[1] = 1 THEN seqs[p[1]] ELSE p[2] \o seqs[p[1]]]
            \in Turns(n, Seq(T))
      BY <2>a DEF Turns
    <3> QED
      BY <3>1
  <2>2. PICK f \in [0 .. n -> Seq(T)] :
          f[0] = <<>> /\ \A i \in 1 .. n : f[i] = step[<<i, f[i - 1]>>]
    <3>1. <<>> \in Seq(T)
      OBVIOUS
    <3>2. Loops(n, Seq(T), <<>>, step) # {}
      BY <3>1, LoopExists
    <3> QED
      BY <3>2 DEF Loops
  <2>3. ASSUME NEW i \in 1 .. n
        PROVE  f[i] = IF i = 1 THEN seqs[i] ELSE f[i - 1] \o seqs[i]
    <3>1. f[i - 1] \in Seq(T)
      OBVIOUS
    <3> QED
      BY <2>1, <2>2, <3>1
  <2> DEFINE h == [i \in 1 .. Len(seqs) |-> f[i]]
  <2>4. h = [i \in 1 .. Len(seqs) |-> IF i = 1 THEN seqs[i] ELSE h[i - 1] \o seqs[i]]
    <3> DEFINE turn(i) == IF i = 1 THEN seqs[i] ELSE h[i - 1] \o seqs[i]
    <3>1. \A i \in 1 .. n : f[i] = turn(i)
      <4> SUFFICES ASSUME NEW i \in 1 .. n PROVE f[i] = turn(i)
        OBVIOUS
      <4>1. CASE i = 1
        BY <2>3, <4>1
      <4>2. CASE i # 1
        <5>1. i - 1 \in 1 .. Len(seqs)
          BY <1>0, <4>2
        <5>2. h[i - 1] = f[i - 1]
          BY <5>1
        <5> HIDE DEF h
        <5> QED
          BY <2>3, <4>2, <5>2
      <4> QED
        BY <4>1, <4>2
    <3> HIDE DEF turn
    <3>2. h = [i \in 1 .. Len(seqs) |-> turn(i)]
      BY <1>0, <3>1
    <3> HIDE DEF h
    <3> QED
      BY <3>2 DEF turn
  <2> DEFINE g == FlattenTo(seqs)
  <2>5. g = [i \in 1 .. Len(seqs) |-> IF i = 1 THEN seqs[i] ELSE g[i - 1] \o seqs[i]]
    <3> HIDE DEF h
    <3> QED
      BY <2>4 DEF FlattenTo
  <2>6. WindowsML!FlattenSeq(seqs) = g[Len(seqs)]
    <3>1. Len(seqs) # 0
      BY <1>0, <1>b
    <3> QED
      BY <3>1, Zenon DEF WindowsML!FlattenSeq, FlattenTo
  <2> HIDE DEF g, h
  <2>7. \A i \in 1 .. n : g[i] = IF i = 1 THEN seqs[i] ELSE g[i - 1] \o seqs[i]
    <3> DEFINE D == 1 .. Len(seqs)
    <3>1. \A i \in 1 .. n : i \in D
      BY <1>0
    <3>2. \A i \in D : g[i] = IF i = 1 THEN seqs[i] ELSE g[i - 1] \o seqs[i]
      BY <2>5, Zenon
    <3> QED
      BY <3>1, <3>2
  <2> DEFINE S == {k \in 0 .. n : k # 0 => g[k] \in Seq(T)}
  <2>8. 0 \in S
    OBVIOUS
  <2>9. ASSUME NEW k \in 0 .. n - 1, k \in S PROVE k + 1 \in S
    <3>1. k + 1 \in 1 .. n /\ k + 1 - 1 = k /\ k + 1 \in 0 .. n /\ (k # 0 => g[k] \in Seq(T))
      BY <2>9
    <3>2. g[k + 1] = IF k + 1 = 1 THEN seqs[k + 1] ELSE g[k] \o seqs[k + 1]
      BY <2>7, <3>1
    <3>3. CASE k = 0
      BY <1>0, <3>1, <3>2, <3>3
    <3>4. CASE k # 0
      <4>1. g[k + 1] = g[k] \o seqs[k + 1]
        <5>1. k + 1 # 1
          BY <3>4
        <5> QED
          BY <3>2, <5>1
      <4>2. seqs[k + 1] \in Seq(T) /\ g[k] \in Seq(T)
        BY <1>0, <3>1, <3>4
      <4> QED
        <5>1. g[k] \o seqs[k + 1] \in Seq(T)
          BY <4>2, ConcatProperties
        <5> QED
          BY <3>1, <4>1, <5>1
    <3> QED
      BY <3>3, <3>4
  <2>10. \A k \in 0 .. n : k \in S
    <3> HIDE DEF S
    <3> QED
      BY <2>8, <2>9, Induction
  <2> QED
    BY <1>0, <1>b, <2>0, <2>6, <2>10
<1> QED
  BY <1>a, <1>b

\* Devices; what the plugin presumes of one is named for the provers, who do not
\* know that a literal is a STRING.
Device == [ep : STRING, type : STRING \cup {"GPU", "NPU"},
           vendor : STRING \cup {"nvidia", "intel", "qualcomm", "amd"}]

\* What Setup lists are devices the request asks for.
LEMMA DetectsWanted ==
  ASSUME NEW r, NEW ready, NEW silent
  PROVE  WindowsML!DetectWindowsMLDevices(r, ready, silent)
           \in Seq({d \in Device : WindowsML!Wants(r, d) /\ WindowsML!WantsVendor(r, d)})
<1> DEFINE W == {d \in Device : WindowsML!Wants(r, d)}
           reported == {d \in WindowsML!ToSet(Hardware) :
                          d.ep \notin silent /\ WindowsML!Wants(r, d)}
           directML == {d \in reported : d.ep = "DirectML"}
           known == WindowsML!Among(Hardware, reported \ directML)
           Missing(ep) == ep \in ready /\ \A i \in DOMAIN known : known[i].ep # ep
           each == [i \in DOMAIN Catalog |->
                      IF Missing(Catalog[i]) THEN WindowsML!Presumed(Catalog[i]) ELSE <<>>]
           presumed == WindowsML!FlattenSeq(each)
           wanted == {d \in WindowsML!ToSet(presumed) : WindowsML!Wants(r, d)}
           found == known \o WindowsML!Among(presumed, wanted)
                          \o WindowsML!Among(Hardware, directML)
           chosen == {d \in WindowsML!ToSet(found) : WindowsML!WantsVendor(r, d)}
<1>1. /\ WindowsML!DetectWindowsMLDevices(r, ready, silent) = WindowsML!Among(found, chosen)
      /\ \A d \in reported \cup wanted : WindowsML!Wants(r, d)
      /\ directML \subseteq reported
      /\ \A d \in chosen : WindowsML!WantsVendor(r, d)
  BY DEF WindowsML!DetectWindowsMLDevices
<1> HIDE DEF reported, directML, wanted, chosen
<1>2. Hardware \in Seq(Device) /\ Catalog \in Seq(STRING)
  <2> DEFINE Known == [ep : STRING, type : STRING, vendor : STRING]
  <2>1. Known \subseteq Device
    BY DEF Device
  <2>2. Hardware \in Seq(Known) /\ Catalog \in Seq(STRING)
    BY PluginsAssumption
  <2> HIDE DEF Known
  <2> QED
    BY <2>1, <2>2
<1>3. known \in Seq(W)
  <2>1. known \in Seq(Device \cap (reported \ directML))
    BY <1>2, AmongFacts
  <2>2. Device \cap (reported \ directML) \subseteq W
    BY <1>1
  <2> HIDE DEF known, W
  <2> QED
    BY <2>1, <2>2
<1>4. WindowsML!Among(Hardware, directML) \in Seq(W)
  <2>1. WindowsML!Among(Hardware, directML) \in Seq(Device \cap directML)
    BY <1>2, AmongFacts
  <2>2. Device \cap directML \subseteq W
    BY <1>1
  <2> HIDE DEF W
  <2> QED
    BY <2>1, <2>2
<1>5. presumed \in Seq(Device)
  <2>1. \A ep \in STRING : WindowsML!Presumed(ep) \in Seq(Device)
    <3> SUFFICES ASSUME NEW ep \in STRING PROVE WindowsML!Presumed(ep) \in Seq(Device)
      OBVIOUS
    <3>1. \A t \in {"GPU", "NPU"}, v \in {"nvidia", "intel", "qualcomm", "amd"} :
            [ep |-> ep, type |-> t, vendor |-> v] \in Device
      BY DEF Device
    <3>2. \A a \in Device, b \in Device :
            <<>> \in Seq(Device) /\ <<a>> \in Seq(Device) /\ <<a, b>> \in Seq(Device)
      OBVIOUS
    <3>3. \/ ep = "NvTensorRtRtx" \/ ep = "OpenVINO" \/ ep = "QNN" \/ ep = "RyzenAI"
          \/ ep \notin {"NvTensorRtRtx", "OpenVINO", "QNN", "RyzenAI"}
      OBVIOUS
    <3>4. CASE ep = "NvTensorRtRtx"
      <4>1. WindowsML!Presumed(ep) = <<[ep |-> ep, type |-> "GPU", vendor |-> "nvidia"]>>
        BY <3>4 DEF WindowsML!Presumed
      <4>2. PICK a \in Device :
              a = [ep |-> ep, type |-> "GPU", vendor |-> "nvidia"]
        BY <3>1
      <4> QED
        BY <3>2, <4>1, <4>2
    <3>5. CASE ep = "OpenVINO"
      <4>1. WindowsML!Presumed(ep) = <<[ep |-> ep, type |-> "NPU", vendor |-> "intel"],
                                       [ep |-> ep, type |-> "GPU", vendor |-> "intel"]>>
        BY <3>5 DEF WindowsML!Presumed
      <4>2. PICK a \in Device, b \in Device :
              /\ a = [ep |-> ep, type |-> "NPU", vendor |-> "intel"]
              /\ b = [ep |-> ep, type |-> "GPU", vendor |-> "intel"]
        BY <3>1
      <4> QED
        BY <3>2, <4>1, <4>2
    <3>6. CASE ep = "QNN"
      <4>1. WindowsML!Presumed(ep) = <<[ep |-> ep, type |-> "NPU", vendor |-> "qualcomm"],
                                       [ep |-> ep, type |-> "GPU", vendor |-> "qualcomm"]>>
        BY <3>6 DEF WindowsML!Presumed
      <4>2. PICK a \in Device, b \in Device :
              /\ a = [ep |-> ep, type |-> "NPU", vendor |-> "qualcomm"]
              /\ b = [ep |-> ep, type |-> "GPU", vendor |-> "qualcomm"]
        BY <3>1
      <4> QED
        BY <3>2, <4>1, <4>2
    <3>7. CASE ep = "RyzenAI"
      <4>1. WindowsML!Presumed(ep) = <<[ep |-> ep, type |-> "NPU", vendor |-> "amd"]>>
        BY <3>7 DEF WindowsML!Presumed
      <4>2. PICK a \in Device :
              a = [ep |-> ep, type |-> "NPU", vendor |-> "amd"]
        BY <3>1
      <4> QED
        BY <3>2, <4>1, <4>2
    <3>8. CASE ep \notin {"NvTensorRtRtx", "OpenVINO", "QNN", "RyzenAI"}
      <4>1. WindowsML!Presumed(ep) = <<>>
        BY <3>8 DEF WindowsML!Presumed
      <4> QED
        BY <4>1
    <3> QED
      BY <3>3, <3>4, <3>5, <3>6, <3>7, <3>8
  <2>2. each \in Seq(Seq(Device))
    <3> HIDE DEF known
    <3>2. DOMAIN Catalog = 1 .. Len(Catalog) /\ Len(Catalog) \in Nat
      BY <1>2
    <3>1. \A i \in DOMAIN Catalog : each[i] \in Seq(Device)
      <4> SUFFICES ASSUME NEW i \in DOMAIN Catalog PROVE each[i] \in Seq(Device)
        OBVIOUS
      <4>1. WindowsML!Presumed(Catalog[i]) \in Seq(Device)
        <5>1. Catalog[i] \in STRING
          BY <1>2, <3>2
        <5> QED
          BY <2>1, <5>1
      <4>2. <<>> \in Seq(Device)
        OBVIOUS
      <4> HIDE DEF Missing
      <4> QED
        BY <4>1, <4>2
    <3>3. \E n \in Nat : each \in [1 .. n -> Seq(Device)]
      BY <3>1, <3>2
    <3> HIDE DEF each
    <3> QED
      BY <3>3
  <2> HIDE DEF each
  <2> QED
    BY <2>2, FlattenFacts
<1> HIDE DEF presumed, known
<1>6. WindowsML!Among(presumed, wanted) \in Seq(W)
  <2>1. WindowsML!Among(presumed, wanted) \in Seq(Device \cap wanted)
    BY <1>5, AmongFacts
  <2>2. Device \cap wanted \subseteq W
    BY <1>1
  <2> HIDE DEF W
  <2> QED
    BY <2>1, <2>2
<1>7. found \in Seq(W)
  <2> HIDE DEF W
  <2> QED
    BY <1>3, <1>4, <1>6, ConcatProperties
<1> HIDE DEF found
<1>8. WindowsML!Among(found, chosen) \in Seq(W \cap chosen)
  <2> HIDE DEF W
  <2> QED
    BY <1>7, AmongFacts
<1>9. W \cap chosen \subseteq {d \in Device : WindowsML!Wants(r, d) /\ WindowsML!WantsVendor(r, d)}
  BY <1>1
<1> QED
  <2> HIDE DEF W
  <2> QED
    BY <1>1, <1>8, <1>9

-----------------------------------------------------------------------------
(* Windows ML: the invariant.                                              *)

\* The types of what a session with Windows ML keeps, but for devices and files.
WindowsTypes ==
  /\ plugin \in PluginState /\ request \in Requests
  /\ {inference, initialized, message, cookie, failedInit, slipped, leftover} \subseteq BOOLEAN
  /\ owned \subseteq WindowsML!Kept \cup WindowsML!PerRun
  /\ lost \subseteq WindowsML!Kept \cup WindowsML!PerRun
  /\ activated \in {"never", "success", "noEp"}
  /\ dangling = {}

\* What the session's state says of the object's pointers, and what a message
\* and a failed Init say of each other.
WindowsObject ==
  /\ plugin # "misused"
  /\ plugin \in {"none"} \cup Released => ~inference
  /\ ~inference => /\ devices = <<>> /\ assigned = 0 /\ ~initialized /\ ~message
                   /\ owned = {} /\ backup = <<>>
  /\ WindowsML!Running => inference /\ initialized
  /\ plugin = "idle" => ~initialized
  /\ plugin \in {"loaded", "prepared"} => ~message
  /\ initialized => ~failedInit /\ lost = {} /\ WindowsML!Kept \subseteq owned
  /\ initialized /\ ~message => owned = WindowsML!Kept
  /\ ~initialized => owned \subseteq WindowsML!Kept
  /\ ~initialized /\ (~message \/ ~failedInit) => owned = {}
  /\ ~initialized /\ plugin = "broken" => failedInit
  /\ ~initialized /\ message => failedInit \/ "model" \in lost
  /\ plugin = "idle" /\ (failedInit \/ "model" \in lost) /\ inference => message
  /\ lost \subseteq WindowsML!Kept /\ (failedInit \/ lost \subseteq {"model"})

\* The devices are as asked for, and a model that is loaded is for one of them.
WindowsDevices ==
  /\ devices \in Seq(Device)
  /\ \A i \in DOMAIN devices :
       WindowsML!Wants(request, devices[i]) /\ WindowsML!WantsVendor(request, devices[i])
  /\ initialized => request.id + 1 \in DOMAIN devices

\* The model of the device is of its provider, and the configuration beside one that
\* is loaded parses and is for the device, where it is rewritten at all.
WindowsFiles ==
  /\ file \in [DOMAIN Models -> WindowsML!Configs]
  /\ backup \in {<<>>} \cup ((DOMAIN Models) \X WindowsML!Configs)
  /\ assigned \in 0 .. Len(Models)
  /\ assigned # 0 => Models[assigned].ep = WindowsML!Device.ep
  /\ initialized =>
       /\ assigned # 0 /\ file[assigned].whole
       /\ WindowsML!Device.ep = "OpenVINO" /\ ~Models[assigned].nested /\ ~slipped =>
            /\ file[assigned].type = request.type
            /\ request.agentic /\ request.type = "GPU" => file[assigned].causal

WindowsInv == WindowsTypes /\ WindowsObject /\ WindowsDevices /\ WindowsFiles

\* The inductive invariant is what a client counts on.
LEMMA WindowsServes == WindowsInv => WindowsML!TypeOK /\ WindowsML!ServesSession
<1> SUFFICES ASSUME WindowsInv PROVE WindowsML!TypeOK /\ WindowsML!ServesSession
  OBVIOUS
<1> USE DEF WindowsInv
<1>1. WindowsML!TypeOK
  BY DEF WindowsTypes, WindowsDevices, WindowsFiles, WindowsML!TypeOK, WindowsML!PluginState,
         PluginState
<1>2. WindowsML!ModelIsLoaded
  <2> SUFFICES ASSUME WindowsML!Running
               PROVE  /\ inference /\ initialized /\ WindowsML!Kept \subseteq owned
                      /\ WindowsML!Wants(request, WindowsML!Device)
                      /\ WindowsML!WantsVendor(request, WindowsML!Device)
                      /\ assigned # 0 /\ Models[assigned].ep = WindowsML!Device.ep
                      /\ file[assigned].whole
                      /\ WindowsML!Device.ep = "OpenVINO" /\ ~Models[assigned].nested /\ ~slipped =>
                           /\ file[assigned].type = request.type
                           /\ request.agentic /\ request.type = "GPU" => file[assigned].causal
    BY DEF WindowsML!ModelIsLoaded
  <2>1. inference /\ initialized /\ WindowsML!Kept \subseteq owned
    BY DEF WindowsObject
  <2>2. /\ WindowsML!Wants(request, WindowsML!Device)
        /\ WindowsML!WantsVendor(request, WindowsML!Device)
    BY <2>1 DEF WindowsDevices, WindowsML!Device
  <2> QED
    BY <2>1, <2>2 DEF WindowsFiles
<1>3. plugin = "idle" /\ ~failedInit =>
        owned = {} /\ ~initialized /\ (message => "model" \in lost)
  BY DEF WindowsObject
<1>4. /\ lost \subseteq WindowsML!Kept /\ (failedInit \/ lost \subseteq {"model"})
      /\ "model" \in lost => ~WindowsML!Running
      /\ failedInit => ~WindowsML!Running
  BY DEF WindowsObject
<1> QED
  BY <1>1, <1>2, <1>3, <1>4 DEF WindowsML!ServesSession

\* A model that is assigned is one of the device's provider.
LEMMA AssignFacts ==
  ASSUME NEW d, WindowsML!AssignModel(d) # 0
  PROVE  WindowsML!AssignModel(d) \in WindowsML!ModelsOf(d)
<1>1. PICK of : of = WindowsML!ModelsOf(d)
  OBVIOUS
<1>2. of \in SUBSET Nat
  BY <1>1, PluginsAssumption DEF WindowsML!ModelsOf
<1>3. PICK sameType : sameType = {m \in of : d.type \in {Models[m].type, file[m].type}}
  OBVIOUS
<1>4. PICK candidates : candidates = IF sameType # {} THEN sameType ELSE of
  OBVIOUS
<1>5. /\ WindowsML!AssignModel(d) = WindowsML!Min(candidates)
      /\ of # {}
  BY <1>1, <1>3, <1>4 DEF WindowsML!AssignModel
<1>6. candidates \in SUBSET Nat /\ candidates # {} /\ candidates \subseteq of
  BY <1>2, <1>3, <1>4, <1>5
<1> QED
  BY <1>1, <1>5, <1>6, LeastIsThere

\* What is written for a device is a configuration, and for OpenVINO is as asked for.
LEMMA AdaptedFacts ==
  ASSUME request \in Requests, NEW old \in WindowsML!Configs, NEW d
  PROVE  /\ WindowsML!Adapted(old, d) \in WindowsML!Configs
         /\ d.ep = "OpenVINO" =>
              /\ WindowsML!Adapted(old, d).type = request.type
              /\ request.agentic /\ request.type = "GPU" => WindowsML!Adapted(old, d).causal
<1>0. request.agentic \in BOOLEAN
  BY PluginsAssumption
<1>1. CASE d.ep = "OpenVINO"
  <2>1. PICK causal \in BOOLEAN :
          causal = (old.causal \/ (request.agentic /\ request.type = "GPU"))
    BY <1>0 DEF WindowsML!Configs
  <2>2. WindowsML!Adapted(old, d) = [type |-> request.type, causal |-> causal, whole |-> TRUE]
    BY <1>1, <2>1 DEF WindowsML!Adapted
  <2>3. [type |-> request.type, causal |-> causal, whole |-> TRUE] \in WindowsML!Configs
    BY <1>0 DEF WindowsML!Configs
  <2>4. request.agentic /\ request.type = "GPU" => causal
    BY <2>1
  <2> QED
    BY <1>1, <2>2, <2>3, <2>4
<1>2. CASE d.ep # "OpenVINO"
  BY <1>2 DEF WindowsML!Adapted
<1> QED
  BY <1>1, <1>2

\* A file that is rewritten has a configuration, or is torn.
LEMMA RewritesFacts ==
  ASSUME file \in [DOMAIN Models -> WindowsML!Configs],
         NEW m \in DOMAIN Models, NEW new \in WindowsML!Configs, WindowsML!Rewrites(m, new)
  PROVE  /\ file' \in [DOMAIN Models -> WindowsML!Configs]
         /\ file'[m] = new \/ ~file'[m].whole
<1>1. CASE file' = [file EXCEPT ![m] = new]
  BY <1>1
<1>2. CASE file' = WindowsML!Torn(m)
  <2>1. PICK old \in WindowsML!Configs : old = file[m]
    OBVIOUS
  <2>2. [old EXCEPT !.whole = FALSE] \in WindowsML!Configs
    BY DEF WindowsML!Configs
  <2>3. file' = [file EXCEPT ![m] = [old EXCEPT !.whole = FALSE]]
    BY <1>2, <2>1 DEF WindowsML!Torn
  <2>4. ~[old EXCEPT !.whole = FALSE].whole
    BY DEF WindowsML!Configs
  <2> QED
    BY <2>2, <2>3, <2>4
<1> QED
  BY <1>1, <1>2 DEF WindowsML!Rewrites

\* Files that are put back are configurations.
LEMMA RestoresFacts ==
  ASSUME WindowsFiles, WindowsML!Restores
  PROVE  file' \in [DOMAIN Models -> WindowsML!Configs]
<1>1. CASE UNCHANGED file
  BY <1>1 DEF WindowsFiles
<1>2. CASE backup # <<>> /\ WindowsML!Rewrites(backup[1], backup[2])
  <2>1. PICK m \in DOMAIN Models, c \in WindowsML!Configs : backup = <<m, c>>
    BY <1>2 DEF WindowsFiles
  <2>2. WindowsML!Rewrites(m, c)
    BY <1>2, <2>1
  <2> QED
    BY <2>2, RewritesFacts DEF WindowsFiles
<1> QED
  BY <1>1, <1>2 DEF WindowsML!Restores

\* The model that is assigned to the device is one of its provider's.
LEMMA AssignedFacts ==
  ASSUME WindowsFiles, WindowsML!AssignModelForDevices
  PROVE  /\ assigned' \in 0 .. Len(Models)
         /\ assigned' # 0 => Models[assigned'].ep = WindowsML!Device.ep
<1>1. PICK d : d = WindowsML!Device
  OBVIOUS
<1>2. PICK m : m = WindowsML!AssignModel(d)
  OBVIOUS
<1>3. assigned' = IF m = 0 THEN assigned ELSE m
  BY <1>1, <1>2 DEF WindowsML!AssignModelForDevices
<1>4. m # 0 => m \in DOMAIN Models /\ Models[m].ep = d.ep
  <2>1. m # 0 => m \in WindowsML!ModelsOf(d)
    BY <1>2, AssignFacts
  <2> QED
    BY <2>1 DEF WindowsML!ModelsOf
<1>5. DOMAIN Models = 1 .. Len(Models)
  BY PluginsAssumption
<1> QED
  BY <1>1, <1>3, <1>4, <1>5 DEF WindowsFiles

\* What Init does to the configurations of the models.
LEMMA ConfigFacts ==
  ASSUME WindowsTypes, WindowsDevices, WindowsFiles, WindowsML!Configures
  PROVE  /\ file' \in [DOMAIN Models -> WindowsML!Configs]
         /\ backup' \in {<<>>} \cup ((DOMAIN Models) \X WindowsML!Configs)
         /\ slipped' \in BOOLEAN
         /\ request.id + 1 \in DOMAIN devices
         /\ assigned' \in DOMAIN Models /\ Models[assigned'].ep = WindowsML!Device.ep
         /\ /\ WindowsML!Device.ep = "OpenVINO" /\ ~Models[assigned'].nested /\ ~slipped'
            /\ file'[assigned'].whole
            => /\ file'[assigned'].type = request.type
               /\ request.agentic /\ request.type = "GPU" => file'[assigned'].causal
<1>0. request \in Requests /\ request.id \in Nat
  BY PluginsAssumption DEF WindowsTypes
<1>1. request.id + 1 \in DOMAIN devices
  BY <1>0 DEF WindowsDevices, WindowsML!IsValidDevice, WindowsML!Configures
<1>2. PICK d : d = WindowsML!Device
  OBVIOUS
<1>3. PICK m \in DOMAIN Models : m = assigned' /\ Models[m].ep = d.ep
  <2>1. DOMAIN Models = 1 .. Len(Models)
    BY PluginsAssumption
  <2>2. WindowsML!AssignModelForDevices /\ assigned' # 0
    BY DEF WindowsML!Configures
  <2> QED
    BY <1>2, <2>1, <2>2, AssignedFacts
<1>4. PICK old \in WindowsML!Configs : old = file[m]
  BY DEF WindowsFiles
<1>5. PICK new \in WindowsML!Configs :
        /\ new = WindowsML!Adapted(old, d)
        /\ d.ep = "OpenVINO" =>
             /\ new.type = request.type
             /\ request.agentic /\ request.type = "GPU" => new.causal
  BY <1>0, AdaptedFacts
<1>6. WindowsML!SetupGenaiConfigForEP(m)
  BY <1>3 DEF WindowsML!Configures
<1>7. CASE ~WindowsML!NeedsConfig(d) \/ Models[m].nested
  <2>1. slipped' = FALSE /\ file' = file /\ backup' = backup
    BY <1>2, <1>6, <1>7 DEF WindowsML!SetupGenaiConfigForEP
  <2>2. d.ep # "OpenVINO" \/ Models[m].nested
    BY <1>7 DEF WindowsML!NeedsConfig
  <2> QED
    BY <1>1, <1>2, <1>3, <2>1, <2>2 DEF WindowsFiles
<1>8. CASE ~(~WindowsML!NeedsConfig(d) \/ Models[m].nested)
  <2>1. /\ backup' = <<m, new>>
        /\ \/ slipped' = FALSE /\ WindowsML!Rewrites(m, new)
           \/ slipped' = TRUE /\ file' = file
    BY <1>2, <1>4, <1>5, <1>6, <1>8 DEF WindowsML!SetupGenaiConfigForEP
  <2>2. backup' \in (DOMAIN Models) \X WindowsML!Configs
    BY <2>1
  <2>3. CASE slipped' = FALSE /\ WindowsML!Rewrites(m, new)
    <3>1. /\ file' \in [DOMAIN Models -> WindowsML!Configs]
          /\ file'[m] = new \/ ~file'[m].whole
      BY <2>3, RewritesFacts DEF WindowsFiles
    <3> QED
      BY <1>1, <1>2, <1>3, <1>5, <2>2, <2>3, <3>1
  <2>4. CASE slipped' = TRUE /\ file' = file
    BY <1>1, <1>2, <1>3, <2>2, <2>4 DEF WindowsFiles
  <2> QED
    BY <2>1, <2>3, <2>4
<1> QED
  BY <1>7, <1>8

\* Every step of a session with Windows ML keeps the invariant.
LEMMA WindowsMLStep ==
  ASSUME PluginsTypeOK, WindowsInv, library = "WindowsML", UseWindowsML
  PROVE  PluginsTypeOK' /\ WindowsInv'
<1> USE DEF WindowsInv
<1>0. UNCHANGED <<library, kept, llama, ortGenAI, scenario, python>> /\ dangling' = dangling
  BY DEF UseWindowsML, kept
<1>t. WindowsInv' => PluginsTypeOK'
  <2> SUFFICES ASSUME WindowsInv' PROVE PluginsTypeOK'
    OBVIOUS
  <2>1. WindowsML!TypeOK'
    BY WindowsServes, PTL
  <2>2. {inference', initialized', message', failedInit'} \subseteq BOOLEAN /\ dangling' = {}
    BY DEF WindowsTypes
  <2> HIDE DEF WindowsInv
  <2> QED
    BY <1>0, <2>1, <2>2 DEF PluginsTypeOK, kept, llama, ortGenAI
<1>k. ASSUME UNCHANGED <<request, devices, assigned, backup, file>>,
             initialized' => initialized /\ slipped' = slipped
      PROVE  WindowsDevices' /\ WindowsFiles'
  BY <1>k DEF WindowsDevices, WindowsFiles, WindowsML!Device, WindowsML!Wants,
     WindowsML!WantsVendor,
     WindowsML!Configs
<1> USE DEF WindowsTypes, WindowsObject, WindowsML!object, WindowsML!history, WindowsML!Kept,
            WindowsML!PerRun, WindowsML!Running, PluginState, Released
<1>1. CASE WindowsML!API_IHV_Setup
  <2>1. plugin = "none" /\ plugin' = "idle"
    BY <1>1 DEF WindowsML!API_IHV_Setup, WindowsML!Reply, WindowsML!Perform,
       WindowsML!Answer, WindowsML!Setup
  <2>2. /\ request' \in Requests /\ lost' = {} /\ failedInit' = FALSE /\ slipped' = FALSE
        /\ UNCHANGED <<assigned, initialized, message, owned, backup, file, leftover>>
        /\ WindowsML!BaseInference(request') \/ WindowsML!UnsupportedScenario
    BY <1>1 DEF WindowsML!API_IHV_Setup
  <2> DEFINE askedFor == {d \in Device : /\ WindowsML!Wants(request', d)
                                     /\ WindowsML!WantsVendor(request', d)}
  <2>3. /\ inference' \in BOOLEAN /\ cookie' \in BOOLEAN
        /\ activated' \in {"never", "success", "noEp"}
        /\ ~inference' => devices' = <<>>
        /\ devices' \in Seq(askedFor)
    <3>1. CASE WindowsML!BaseInference(request')
      <4>1. PICK ready, silent :
              LET found == WindowsML!DetectWindowsMLDevices(request', ready, silent)
              IN IF WindowsML!EPsAreReady(request') /\ found # <<>>
                 THEN /\ inference' = TRUE /\ devices' = found
                      /\ cookie' \in {FALSE, WindowsML!NeedsSearchPath(request')}
                 ELSE inference' = FALSE /\ devices' = <<>> /\ cookie' = FALSE
        BY <3>1 DEF WindowsML!BaseInference
      <4>2. activated' \in {"never", "success", "noEp"}
        BY <3>1 DEF WindowsML!BaseInference, WindowsML!EnsureAndRegisterEPs
      <4>3. WindowsML!NeedsSearchPath(request') \in BOOLEAN
        BY DEF WindowsML!NeedsSearchPath
      <4>4. WindowsML!DetectWindowsMLDevices(request', ready, silent) \in Seq(askedFor)
        BY DetectsWanted
      <4> HIDE DEF askedFor
      <4>5. <<>> \in Seq(askedFor)
        OBVIOUS
      <4> QED
        BY <4>1, <4>2, <4>3, <4>4, <4>5
    <3>2. CASE WindowsML!UnsupportedScenario
      <4> HIDE DEF askedFor
      <4>1. <<>> \in Seq(askedFor)
        OBVIOUS
      <4> QED
        BY <3>2, <4>1 DEF WindowsML!UnsupportedScenario
    <3> QED
      BY <2>2, <3>1, <3>2
  <2>4. WindowsTypes'
    BY <1>0, <2>1, <2>2, <2>3
  <2>5. WindowsObject'
    BY <2>1, <2>2, <2>3
  <2>6. WindowsDevices'
    <3>1. /\ devices' \in Seq(Device)
          /\ \A i \in DOMAIN devices' : /\ WindowsML!Wants(request', devices'[i])
                                        /\ WindowsML!WantsVendor(request', devices'[i])
      BY <2>3
    <3>2. ~initialized'
      BY <2>1, <2>2
    <3> QED
      BY <3>1, <3>2 DEF WindowsDevices, WindowsML!Wants, WindowsML!WantsVendor
  <2>7. WindowsFiles'
    BY <2>1, <2>2 DEF WindowsFiles, WindowsML!Configs
  <2> QED
    BY <1>t, <2>4, <2>5, <2>6, <2>7
<1>2. CASE WindowsML!SetupThrows
  <2>1. plugin = "none" /\ plugin' = "none"
    BY <1>2 DEF WindowsML!SetupThrows, WindowsML!Reply, WindowsML!Perform,
       WindowsML!Answer, WindowsML!Setup
  <2>2. /\ request' \in Requests /\ leftover' \in BOOLEAN
        /\ activated' \in {"never", "success", "noEp"}
        /\ UNCHANGED <<inference, devices, assigned, initialized, message, owned, backup, file,
                       cookie, lost, failedInit, slipped>>
    BY <1>2 DEF WindowsML!SetupThrows, WindowsML!EnsureAndRegisterEPs, WindowsML!NeedsSearchPath
  <2>3. ~initialized /\ devices = <<>> /\ assigned = 0
    BY <2>1
  <2>4. WindowsTypes'
    BY <1>0, <2>1, <2>2
  <2>5. WindowsObject'
    BY <2>1, <2>2
  <2>6. WindowsDevices' /\ WindowsFiles'
    BY <2>2, <2>3 DEF WindowsDevices, WindowsFiles, WindowsML!Configs
  <2> QED
    BY <1>t, <2>4, <2>5, <2>6
<1>3. CASE WindowsML!InitRefused \/ WindowsML!InitUnable
  <2>1. plugin = "idle" /\ plugin' = "broken"
    BY <1>3 DEF WindowsML!InitRefused, WindowsML!InitUnable, WindowsML!Reply,
       WindowsML!Perform, WindowsML!Answer, WindowsML!InitModel
  <2>2. /\ message' \in BOOLEAN /\ failedInit' = TRUE
        /\ message => message'
        /\ ~inference => ~message' /\ assigned' = assigned
        /\ UNCHANGED <<request, inference, devices, initialized, owned, backup, file, cookie,
                       activated, lost, slipped, leftover>>
    BY <1>3, <2>1 DEF WindowsML!InitRefused, WindowsML!InitUnable
  <2>3. WindowsDevices' /\ WindowsFiles'
    <3>1. UNCHANGED assigned \/ WindowsML!AssignModelForDevices
      BY <1>3 DEF WindowsML!InitRefused, WindowsML!InitUnable
    <3>2. /\ assigned' \in 0 .. Len(Models)
          /\ assigned' # 0 => Models[assigned'].ep = WindowsML!Device.ep
      BY <3>1, AssignedFacts DEF WindowsFiles
    <3>3. ~initialized'
      BY <2>1, <2>2
    <3>4. WindowsML!Device' = WindowsML!Device
      BY <2>2 DEF WindowsML!Device
    <3> QED
      BY <2>2, <3>2, <3>3, <3>4 DEF WindowsDevices, WindowsFiles, WindowsML!Wants,
         WindowsML!WantsVendor, WindowsML!Configs
  <2>4. WindowsTypes'
    BY <1>0, <2>1, <2>2
  <2>5. WindowsObject'
    BY <2>1, <2>2
  <2> QED
    BY <1>t, <2>3, <2>4, <2>5
<1>4. CASE WindowsML!InitFails
  <2>1. plugin = "idle" /\ plugin' = "broken" /\ inference
    BY <1>4 DEF WindowsML!InitFails, WindowsML!Reply, WindowsML!Perform, WindowsML!Answer,
       WindowsML!InitModel
  <2>2. /\ message' = TRUE /\ failedInit' = TRUE /\ owned' \subseteq {"model", "params"}
        /\ ~initialized /\ owned \subseteq owned'
        /\ UNCHANGED <<request, inference, devices, initialized, cookie, activated, lost, leftover>>
    BY <1>4, <2>1 DEF WindowsML!InitFails
  <2>3. /\ file' \in [DOMAIN Models -> WindowsML!Configs]
        /\ backup' \in {<<>>} \cup ((DOMAIN Models) \X WindowsML!Configs)
        /\ slipped' \in BOOLEAN
        /\ assigned' \in DOMAIN Models /\ Models[assigned'].ep = WindowsML!Device.ep
    BY <1>4, ConfigFacts DEF WindowsML!InitFails
  <2>4. WindowsTypes'
    BY <1>0, <2>1, <2>2, <2>3
  <2>5. WindowsObject'
    BY <2>1, <2>2
  <2>6. WindowsDevices'
    BY <2>2 DEF WindowsDevices, WindowsML!Wants, WindowsML!WantsVendor
  <2>7. WindowsFiles'
    <3>1. WindowsML!Device' = WindowsML!Device
      BY <2>2 DEF WindowsML!Device
    <3>2. DOMAIN Models = 1 .. Len(Models)
      BY PluginsAssumption
    <3> QED
      BY <2>2, <2>3, <3>1, <3>2 DEF WindowsFiles, WindowsML!Configs
  <2> QED
    BY <1>t, <2>4, <2>5, <2>6, <2>7
<1>5. CASE WindowsML!InitLoads
  <2>1. plugin = "idle" /\ plugin' = "loaded" /\ inference
    BY <1>5 DEF WindowsML!InitLoads, WindowsML!Reply, WindowsML!Perform, WindowsML!Answer,
       WindowsML!InitModel
  <2>2. /\ initialized' = TRUE /\ owned' = {"model", "params"} /\ ~message /\ ~initialized
        /\ file'[assigned'].whole
        /\ UNCHANGED <<request, inference, devices, message, cookie, activated, lost, failedInit,
                       leftover>>
    BY <1>5, <2>1 DEF WindowsML!InitLoads
  <2>3. ~failedInit /\ lost = {}
    BY <2>1, <2>2
  <2>4. /\ file' \in [DOMAIN Models -> WindowsML!Configs]
        /\ backup' \in {<<>>} \cup ((DOMAIN Models) \X WindowsML!Configs)
        /\ slipped' \in BOOLEAN
        /\ request.id + 1 \in DOMAIN devices
        /\ assigned' \in DOMAIN Models /\ Models[assigned'].ep = WindowsML!Device.ep
        /\ WindowsML!Device.ep = "OpenVINO" /\ ~Models[assigned'].nested /\ ~slipped' =>
             /\ file'[assigned'].type = request.type
             /\ request.agentic /\ request.type = "GPU" => file'[assigned'].causal
    BY <1>5, <2>2, ConfigFacts DEF WindowsML!InitLoads
  <2>5. WindowsTypes'
    BY <1>0, <2>1, <2>2, <2>4
  <2>6. WindowsObject'
    BY <2>1, <2>2, <2>3
  <2>7. WindowsDevices'
    BY <2>2, <2>4 DEF WindowsDevices, WindowsML!Wants, WindowsML!WantsVendor
  <2>8. WindowsFiles'
    <3>1. WindowsML!Device' = WindowsML!Device
      BY <2>2 DEF WindowsML!Device
    <3>2. DOMAIN Models = 1 .. Len(Models) /\ Len(Models) \in Nat
      BY PluginsAssumption
    <3> QED
      BY <2>2, <2>4, <3>1, <3>2 DEF WindowsFiles, WindowsML!Configs
  <2> QED
    BY <1>t, <2>5, <2>6, <2>7, <2>8
<1>6. CASE WindowsML!API_IHV_Prepare
  <2>1. /\ plugin \in {"loaded", "broken"}
        /\ plugin' = IF inference /\ ~message /\ plugin = "loaded" THEN "prepared" ELSE "broken"
    BY <1>6 DEF WindowsML!API_IHV_Prepare, WindowsML!Healthy, WindowsML!Reply,
       WindowsML!Perform, WindowsML!Answer, WindowsML!Prepare
  <2>2. UNCHANGED <<request, inference, devices, assigned, initialized, message, owned, backup,
                    file, cookie, activated, lost, failedInit, slipped, leftover>>
    BY <1>6 DEF WindowsML!API_IHV_Prepare
  <2>3. WindowsDevices' /\ WindowsFiles'
    BY <1>k, <2>2
  <2>4. WindowsTypes'
    BY <1>0, <2>1, <2>2
  <2>5. WindowsObject'
    BY <2>1, <2>2
  <2> QED
    BY <1>t, <2>3, <2>4, <2>5
<1>7. CASE WindowsML!API_IHV_Infer
  <2>1. plugin = "prepared" /\ plugin' = "ran"
    BY <1>7 DEF WindowsML!API_IHV_Infer, WindowsML!Reply, WindowsML!Perform,
       WindowsML!Answer, WindowsML!Infer
  <2>2. inference /\ initialized /\ ~message /\ owned = {"model", "params"}
    BY <2>1
  <2>3. /\ UNCHANGED <<request, inference, devices, assigned, initialized, backup, file, cookie,
                       activated, failedInit, slipped, leftover>>
        /\ WindowsML!RunEnds \/ WindowsML!RunFails \/ WindowsML!NoRun
    BY <1>7, <2>2 DEF WindowsML!API_IHV_Infer
  <2>4. /\ message' \in BOOLEAN /\ lost' = lost
        /\ {"model", "params"} \subseteq owned'
        /\ owned' \subseteq {"model", "params", "sequences", "generator"}
        /\ message' \/ owned' = {"model", "params"}
    <3>1. CASE WindowsML!RunEnds
      BY <2>2, <3>1 DEF WindowsML!RunEnds, WindowsML!Overwritten
    <3>2. CASE WindowsML!RunFails
      BY <2>2, <3>2 DEF WindowsML!RunFails, WindowsML!Overwritten
    <3>3. CASE WindowsML!NoRun
      BY <2>2, <3>3 DEF WindowsML!NoRun
    <3> QED
      BY <2>3, <3>1, <3>2, <3>3
  <2>5. WindowsDevices' /\ WindowsFiles'
    BY <1>k, <2>3
  <2>6. WindowsTypes'
    BY <1>0, <2>1, <2>3, <2>4
  <2>7. WindowsObject'
    BY <2>1, <2>2, <2>3, <2>4
  <2> QED
    BY <1>t, <2>5, <2>6, <2>7
<1>8. CASE WindowsML!API_IHV_Reset
  <2>1. plugin = "ran" /\ plugin' = IF inference /\ ~message THEN "loaded" ELSE "broken"
    BY <1>8 DEF WindowsML!API_IHV_Reset, WindowsML!Healthy, WindowsML!Reply,
       WindowsML!Perform, WindowsML!Answer, WindowsML!Reset
  <2>2. UNCHANGED <<request, inference, devices, assigned, initialized, message, owned, backup,
                    file, cookie, activated, lost, failedInit, slipped, leftover>>
    BY <1>8 DEF WindowsML!API_IHV_Reset
  <2>3. WindowsDevices' /\ WindowsFiles'
    BY <1>k, <2>2
  <2>4. WindowsTypes'
    BY <1>0, <2>1, <2>2
  <2>5. WindowsObject'
    BY <2>1, <2>2
  <2> QED
    BY <1>t, <2>3, <2>4, <2>5
<1>9. CASE WindowsML!API_IHV_Deinit
  <2>1. plugin \in {"loaded", "broken", "prepared", "ran"} /\ plugin' = "idle"
    BY <1>9 DEF WindowsML!API_IHV_Deinit, WindowsML!Reply, WindowsML!Perform,
       WindowsML!Answer, WindowsML!Deinit
  <2>2. UNCHANGED <<request, inference, devices, assigned, backup, cookie, activated, failedInit,
                    slipped, leftover>>
    BY <1>9 DEF WindowsML!API_IHV_Deinit
  <2>3. CASE inference /\ initialized
    <3>1. /\ owned' = {} /\ initialized' = FALSE /\ WindowsML!Restores
          /\ \/ message' = FALSE /\ lost' = lost
             \/ message' = TRUE /\ lost' = lost \cup {"model"}
      BY <1>9, <2>3 DEF WindowsML!API_IHV_Deinit, WindowsML!Unload
    <3>2. WindowsTypes'
      BY <1>0, <2>1, <2>2, <3>1
    <3>3. WindowsObject'
      BY <2>1, <2>2, <2>3, <3>1
    <3>4. WindowsDevices'
      BY <2>2, <3>1 DEF WindowsDevices, WindowsML!Wants, WindowsML!WantsVendor
    <3>5. WindowsFiles'
      <4>1. file' \in [DOMAIN Models -> WindowsML!Configs]
        BY <3>1, RestoresFacts
      <4>2. WindowsML!Device' = WindowsML!Device
        BY <2>2 DEF WindowsML!Device
      <4> QED
        BY <2>2, <3>1, <4>1, <4>2 DEF WindowsFiles, WindowsML!Configs
    <3> QED
      BY <1>t, <3>2, <3>3, <3>4, <3>5
  <2>4. CASE ~(inference /\ initialized)
    <3>1. message' = inference /\ UNCHANGED <<owned, initialized, lost, file>>
      BY <1>9, <2>4 DEF WindowsML!API_IHV_Deinit
    <3>2. ~initialized /\ (inference => failedInit)
      BY <2>1, <2>4
    <3>3. WindowsTypes'
      BY <1>0, <2>1, <2>2, <3>1
    <3>4. WindowsObject'
      BY <2>1, <2>2, <3>1, <3>2
    <3>5. WindowsDevices' /\ WindowsFiles'
      BY <1>k, <2>2, <3>1
    <3> QED
      BY <1>t, <3>3, <3>4, <3>5
  <2> QED
    BY <2>3, <2>4
<1>10. CASE WindowsML!API_IHV_Release
  <2>1. plugin # "none" /\ plugin' \in {"released", "leaked"}
    BY <1>10 DEF WindowsML!API_IHV_Release, WindowsML!Reply, WindowsML!Perform,
       WindowsML!Answer, WindowsML!Release, WindowsML!PluginState, WindowsML!Released
  <2>2. /\ IF initialized
           THEN WindowsML!Restores /\ lost' \in {lost, lost \cup (owned \cap {"model"})}
           ELSE UNCHANGED file /\ lost' = lost \cup owned
        /\ inference' = FALSE /\ devices' = <<>> /\ assigned' = 0 /\ initialized' = FALSE
        /\ message' = FALSE /\ owned' = {} /\ backup' = <<>> /\ cookie' = FALSE
        /\ UNCHANGED <<request, activated, failedInit, slipped, leftover>>
    BY <1>10 DEF WindowsML!API_IHV_Release, WindowsML!ObjectGone
  <2>3. WindowsTypes'
    BY <1>0, <2>1, <2>2
  <2>4. WindowsObject'
    <3>1. lost' \subseteq {"model", "params"} /\ (failedInit \/ lost' \subseteq {"model"})
      BY <2>2
    <3> QED
      BY <2>1, <2>2, <3>1
  <2>5. WindowsDevices'
    BY <2>2 DEF WindowsDevices
  <2>6. WindowsFiles'
    <3>1. file' \in [DOMAIN Models -> WindowsML!Configs]
      BY <2>2, RestoresFacts DEF WindowsFiles
    <3>2. 0 \in 0 .. Len(Models)
      BY PluginsAssumption
    <3> QED
      BY <2>2, <3>1, <3>2 DEF WindowsFiles, WindowsML!Configs
  <2> QED
    BY <1>t, <2>3, <2>4, <2>5, <2>6
<1>11. CASE WindowsML!NextSession
  <2>1. plugin \in {"released", "leaked"} /\ plugin' = "none"
    BY <1>11 DEF WindowsML!NextSession, WindowsML!Released
  <2>2. /\ activated' \in {"never", "success", "noEp"} /\ leftover' \in BOOLEAN
        /\ UNCHANGED <<request, inference, devices, assigned, initialized, message, owned, backup,
                       file, cookie, lost, failedInit, slipped>>
    BY <1>11 DEF WindowsML!NextSession
  <2>3. WindowsDevices' /\ WindowsFiles'
    BY <1>k, <2>2
  <2>4. WindowsTypes'
    BY <1>0, <2>1, <2>2
  <2>5. WindowsObject'
    BY <2>1, <2>2
  <2> QED
    BY <1>t, <2>3, <2>4, <2>5
<1>12. CASE WindowsML!ProcessDies
  <2>1. plugin' = "none" /\ request' = request
    BY <1>12 DEF WindowsML!ProcessDies
  <2>2. /\ inference' = FALSE /\ devices' = <<>> /\ assigned' = 0 /\ initialized' = FALSE
        /\ message' = FALSE /\ owned' = {} /\ backup' = <<>> /\ cookie' = FALSE
        /\ activated' = "never" /\ leftover' = FALSE
        /\ lost' = {} /\ failedInit' = FALSE /\ slipped' = FALSE
    BY <1>12 DEF WindowsML!ProcessDies, WindowsML!ObjectGone
  <2>3. file' \in [DOMAIN Models -> WindowsML!Configs]
    <3>1. CASE UNCHANGED file
      BY <3>1 DEF WindowsFiles
    <3>2. ASSUME NEW m \in WindowsML!ModelsOf(WindowsML!Device),
                 WindowsML!Rewrites(m, WindowsML!Adapted(file[m], WindowsML!Device))
          PROVE  file' \in [DOMAIN Models -> WindowsML!Configs]
      <4>1. m \in DOMAIN Models /\ file[m] \in WindowsML!Configs
        BY DEF WindowsML!ModelsOf, WindowsFiles
      <4>2. WindowsML!Adapted(file[m], WindowsML!Device) \in WindowsML!Configs
        BY <4>1, AdaptedFacts
      <4> QED
        BY <3>2, <4>1, <4>2, RewritesFacts DEF WindowsFiles
    <3>3. CASE WindowsML!Restores
      BY <3>3, RestoresFacts
    <3> QED
      BY <1>12, <3>1, <3>2, <3>3 DEF WindowsML!ProcessDies
  <2>4. WindowsTypes'
    BY <1>0, <2>1, <2>2
  <2>5. WindowsObject'
    BY <2>1, <2>2
  <2>6. WindowsDevices'
    BY <2>2 DEF WindowsDevices
  <2>7. WindowsFiles'
    <3>1. 0 \in 0 .. Len(Models)
      BY PluginsAssumption
    <3> QED
      BY <2>2, <2>3, <3>1 DEF WindowsFiles, WindowsML!Configs
  <2> QED
    BY <1>t, <2>4, <2>5, <2>6, <2>7
<1> QED
  BY <1>1, <1>2, <1>3, <1>4, <1>5, <1>6, <1>7, <1>8, <1>9, <1>10, <1>11, <1>12
     DEF UseWindowsML, WindowsML!Next, WindowsML!API_IHV_Init

-----------------------------------------------------------------------------
(* All libraries.                                                          *)

\* The invariant of the library in use.
LibraryInv ==
  /\ library = "WindowsML" => WindowsInv
  /\ library # "WindowsML" => VendorInv
  /\ library = "LlamaCpp" => LlamaInv
  /\ library = "NativeQNN" => QnnInv
  /\ library = "OrtGenAI" => OrtInv
  /\ library = "OrtGenAI-RyzenAI" => RyzenInv
  /\ library = "NativeOpenVINO" => OpenVinoInv
  /\ library = "MLX" => MlxInv
  /\ library = "Diffusers" => DiffusersInv

PluginsInv == PluginsTypeOK /\ LibraryInv

\* No session has begun.
LEMMA PluginsBegin == PluginsInit => PluginsInv
<1> SUFFICES ASSUME PluginsInit PROVE PluginsInv
  OBVIOUS
<1>0. /\ library \in Libraries /\ request \in Requests
      /\ file = [m \in DOMAIN Models |-> [type |-> Models[m].type, causal |-> FALSE, whole |-> TRUE]]
      /\ cookie = FALSE /\ activated = "never" /\ leftover = FALSE
      /\ plugin = "none" /\ inference = FALSE /\ devices = <<>> /\ initialized = FALSE
      /\ assigned = 0 /\ slipped = FALSE
      /\ message = FALSE /\ owned = {} /\ backup = <<>> /\ lost = {} /\ failedInit = FALSE
      /\ dangling = {} /\ dirty = FALSE /\ output = {} /\ reused = {}
      /\ capacity = 0 /\ layers = 0
      /\ config = "shipped" /\ keptConfig = "none" /\ spoiled = FALSE
      /\ scenario \in {"text", "image"} /\ python = "none"
  BY DEF PluginsInit, WindowsML!Init, WindowsML!PluginInit, WindowsML!NoObject, LlamaCpp!Init,
     LlamaCpp!VendorInit, LlamaCpp!NoObject, OrtGenAI!Init, NativeOpenVINO!Init, Diffusers!Init
<1>1. WindowsInv
  <2>1. WindowsTypes /\ WindowsObject
    BY <1>0 DEF WindowsTypes, WindowsObject, PluginState, WindowsML!Running
  <2>2. WindowsDevices
    BY <1>0 DEF WindowsDevices
  <2>3. WindowsFiles
    <3>1. \A m \in DOMAIN Models :
            [type |-> Models[m].type, causal |-> FALSE, whole |-> TRUE] \in WindowsML!Configs
      BY DEF WindowsML!Configs
    <3>2. 0 \in 0 .. Len(Models)
      BY PluginsAssumption
    <3> QED
      BY <1>0, <3>1, <3>2 DEF WindowsFiles
  <2> QED
    BY <2>1, <2>2, <2>3 DEF WindowsInv
<1>2. PluginsTypeOK
  <2>1. WindowsML!TypeOK
    BY <1>1, WindowsServes
  <2>2. plugin \in PluginState /\ 0 \in -1 .. TotalLayers /\ 0 \in 0 .. TotalLayers
    BY <1>0, PluginsAssumption DEF PluginState
  <2> QED
    BY <1>0, <2>1, <2>2 DEF PluginsTypeOK
<1>3. VendorInv
  BY <1>0 DEF VendorInv
<1>4. LlamaInv
  BY <1>0, <1>2 DEF LlamaInv, PluginsTypeOK, LlamaCpp!Serves, LlamaCpp!ServesRuns,
     LlamaCpp!Running
<1>5. QnnInv
  BY <1>0 DEF QnnInv, NativeQNN!Serves, NativeQNN!ServesRuns, NativeQNN!Running
<1>6. OrtInv /\ RyzenInv
  BY <1>0 DEF OrtInv, RyzenInv, OrtCommon, OrtGenAI!Serves, OrtGenAI!ServesRyzenAI,
     OrtGenAI!ServesModel, OrtGenAI!ServesRuns, OrtGenAI!Running
<1>7. OpenVinoInv
  BY <1>0 DEF OpenVinoInv, NativeOpenVINO!Serves, NativeOpenVINO!ServesRuns,
     NativeOpenVINO!Running
<1>8. MlxInv
  BY <1>0 DEF MlxInv, MLX!Serves, MLX!ServesRuns, MLX!Running
<1>9. DiffusersInv
  BY <1>0 DEF DiffusersInv, Diffusers!Serves, Diffusers!ServesRuns, Diffusers!Running
<1> QED
  BY <1>1, <1>2, <1>3, <1>4, <1>5, <1>6, <1>7, <1>8, <1>9 DEF PluginsInv, LibraryInv

\* A session that has not begun has nothing to keep but the file.
LEMMA BetweenSessions ==
  ASSUME PluginsTypeOK', VendorInv', plugin' = "none", library' = library, library # "WindowsML",
         library \in {"OrtGenAI", "OrtGenAI-RyzenAI"} =>
           spoiled' \/ (config' = "shipped" /\ keptConfig' # "adapted")
  PROVE  PluginsInv'
<1>0. /\ inference' = FALSE /\ initialized' = FALSE /\ message' = FALSE
      /\ owned' = {} /\ dangling' = {} /\ dirty' = FALSE /\ output' = {}
      /\ lost' = {} /\ reused' = {} /\ failedInit' = FALSE
  BY DEF VendorInv, PluginsTypeOK
<1>1. ASSUME library = "LlamaCpp" PROVE LlamaInv'
  BY <1>0, <1>1 DEF PluginsTypeOK, LlamaInv, LlamaCpp!Serves, LlamaCpp!ServesRuns,
     LlamaCpp!Running
<1>2. ASSUME library = "NativeQNN" PROVE QnnInv'
  BY <1>0, <1>2 DEF QnnInv, NativeQNN!Serves, NativeQNN!ServesRuns, NativeQNN!Running
<1>3. ASSUME library \in {"OrtGenAI", "OrtGenAI-RyzenAI"} PROVE OrtInv' /\ RyzenInv'
  <2>1. spoiled' \/ (config' = "shipped" /\ keptConfig' # "adapted")
    BY <1>3
  <2>2. OrtCommon'
    BY <1>0, <2>1 DEF OrtCommon
  <2>3. OrtGenAI!Serves' /\ OrtGenAI!ServesRyzenAI'
    BY <1>0, <2>1 DEF OrtGenAI!Serves, OrtGenAI!ServesRyzenAI, OrtGenAI!ServesModel,
       OrtGenAI!ServesRuns, OrtGenAI!Running
  <2> QED
    BY <1>0, <2>2, <2>3 DEF OrtInv, RyzenInv
<1>4. ASSUME library = "NativeOpenVINO" PROVE OpenVinoInv'
  BY <1>0, <1>4 DEF OpenVinoInv, NativeOpenVINO!Serves, NativeOpenVINO!ServesRuns,
     NativeOpenVINO!Running
<1>5. ASSUME library = "MLX" PROVE MlxInv'
  BY <1>0, <1>5 DEF MlxInv, MLX!Serves, MLX!ServesRuns, MLX!Running
<1>6. ASSUME library = "Diffusers" PROVE DiffusersInv'
  BY <1>0, <1>6 DEF DiffusersInv, Diffusers!Serves, Diffusers!ServesRuns, Diffusers!Running
<1> QED
  BY <1>1, <1>2, <1>3, <1>4, <1>5, <1>6 DEF PluginsInv, LibraryInv

\* The ONNX Runtime GenAI libraries between a release and the next session.
LEMMA FilesKept ==
  ASSUME PluginsInv, library \in {"OrtGenAI", "OrtGenAI-RyzenAI"}
  PROVE  /\ OrtCommon
         /\ plugin \in {"released", "leaked"} => spoiled \/ config = "shipped"
<1> QED
  BY DEF PluginsInv, LibraryInv, OrtInv, RyzenInv, OrtGenAI!Serves, OrtGenAI!ServesRyzenAI,
     OrtGenAI!ServesModel, OrtGenAI!Released

\* The next session finds what the last one's release left.
LEMMA NextSessionStep ==
  ASSUME PluginsInv, NextSession
  PROVE  PluginsInv'
<1>0. /\ library # "WindowsML" /\ plugin' = "none" /\ plugin \in {"released", "leaked"}
      /\ lost' = {} /\ reused' = {} /\ failedInit' = FALSE
      /\ python' \in {python, "none"}
      /\ UNCHANGED <<library, inference, initialized, message, owned, dangling, dirty, output,
                     capacity, layers, config, keptConfig, spoiled, scenario>>
  BY DEF NextSession, Released, llama, ortGenAI
<1>1. PluginsTypeOK'
  BY <1>0 DEF PluginsInv, PluginsTypeOK, PluginState
<1>2. VendorInv'
  BY <1>0 DEF PluginsInv, LibraryInv, VendorInv, Released
<1>3. library \in {"OrtGenAI", "OrtGenAI-RyzenAI"} =>
        spoiled' \/ (config' = "shipped" /\ keptConfig' # "adapted")
  BY <1>0, FilesKept DEF OrtCommon
<1> QED
  BY <1>0, <1>1, <1>2, <1>3, BetweenSessions

\* A process that ends within a session leaves the file as it was shipped, or
\* history says that it did not.
LEMMA ProcessDiesStep ==
  ASSUME PluginsInv, ProcessDies
  PROVE  PluginsInv'
<1>0. /\ library # "WindowsML" /\ plugin' = "none"
      /\ inference' = FALSE /\ initialized' = FALSE /\ message' = FALSE
      /\ owned' = {} /\ dangling' = {} /\ dirty' = FALSE /\ output' = {}
      /\ lost' = {} /\ reused' = {} /\ failedInit' = FALSE /\ python' = "none"
      /\ UNCHANGED <<library, capacity, layers, scenario>>
  BY DEF ProcessDies, Vendor!ProcessEnds, Vendor!ObjectGone, llama
<1>1. VendorInv'
  BY <1>0 DEF VendorInv
<1>2. CASE library \notin {"OrtGenAI", "OrtGenAI-RyzenAI"}
  <2>1. UNCHANGED <<config, keptConfig, spoiled>>
    BY <1>2 DEF ProcessDies, ortGenAI
  <2>2. PluginsTypeOK'
    BY <1>0, <2>1 DEF PluginsInv, PluginsTypeOK, PluginState
  <2> QED
    BY <1>0, <1>1, <1>2, <2>2, BetweenSessions
<1>3. CASE library \in {"OrtGenAI", "OrtGenAI-RyzenAI"}
  <2>1. OrtGenAI!FilesLeft
    BY <1>3 DEF ProcessDies
  <2>2. /\ config \in {"shipped", "adapted", "torn"}
        /\ keptConfig \in {"none", "shipped", "adapted"}
        /\ spoiled \in BOOLEAN
    BY DEF PluginsInv, PluginsTypeOK
  <2>3. /\ config' \in {"shipped", "adapted", "torn"} /\ keptConfig' = "none"
        /\ spoiled' \in BOOLEAN
    BY <2>1, <2>2 DEF OrtGenAI!FilesLeft, OrtGenAI!Restores
  <2>4. PluginsTypeOK'
    BY <1>0, <2>3 DEF PluginsInv, PluginsTypeOK, PluginState
  <2>5. spoiled' \/ config' = "shipped"
    <3>1. OrtCommon
      BY <1>3, FilesKept
    <3> QED
      BY <2>1, <2>2, <3>1 DEF OrtCommon, OrtGenAI!FilesLeft, OrtGenAI!Restores
  <2> QED
    BY <1>0, <1>1, <2>3, <2>4, <2>5, BetweenSessions
<1> QED
  BY <1>2, <1>3

\* What none of the variables changes stays true.
LEMMA PluginsStutter ==
  ASSUME PluginsInv, UNCHANGED pluginsVars
  PROVE  PluginsInv'
<1>0. /\ plugin' = plugin /\ UNCHANGED <<library, inference, initialized, message, owned, lost,
                                          failedInit, dangling, dirty, output, reused>>
      /\ UNCHANGED <<capacity, layers, config, keptConfig, spoiled, scenario, python>>
      /\ UNCHANGED <<request, devices, assigned, file, backup, cookie, activated, slipped,
                     leftover>>
  BY DEF pluginsVars, common, kept, llama, ortGenAI, windowsML
<1>1. PluginsTypeOK'
  <2>1. WindowsML!TypeOK' = WindowsML!TypeOK
    BY <1>0 DEF WindowsML!TypeOK, WindowsML!Wants, WindowsML!Configs
  <2> QED
    BY <1>0, <2>1 DEF PluginsInv, PluginsTypeOK
<1>2. WindowsInv' = WindowsInv
  BY <1>0 DEF WindowsInv, WindowsTypes, WindowsObject, WindowsDevices, WindowsFiles,
     WindowsML!Running, WindowsML!Wants, WindowsML!WantsVendor, WindowsML!Device, WindowsML!Configs
<1>3. VendorInv' = VendorInv
  BY <1>0 DEF VendorInv
<1>4. LlamaInv' = LlamaInv
  BY <1>0 DEF LlamaInv, LlamaCpp!Serves, LlamaCpp!ServesRuns, LlamaCpp!Running,
     LlamaCpp!InMemory
<1>5. QnnInv' = QnnInv
  BY <1>0 DEF QnnInv, NativeQNN!Serves, NativeQNN!ServesRuns, NativeQNN!Running
<1>6. OrtInv' = OrtInv /\ RyzenInv' = RyzenInv
  BY <1>0 DEF OrtInv, RyzenInv, OrtCommon, OrtGenAI!Serves, OrtGenAI!ServesRyzenAI,
     OrtGenAI!ServesModel, OrtGenAI!ServesRuns, OrtGenAI!Running
<1>7. OpenVinoInv' = OpenVinoInv
  BY <1>0 DEF OpenVinoInv, NativeOpenVINO!Serves, NativeOpenVINO!ServesRuns,
     NativeOpenVINO!Running
<1>8. MlxInv' = MlxInv
  BY <1>0 DEF MlxInv, MLX!Serves, MLX!ServesRuns, MLX!Running
<1>9. DiffusersInv' = DiffusersInv
  BY <1>0 DEF DiffusersInv, Diffusers!Serves, Diffusers!ServesRuns, Diffusers!Running
<1> QED
  BY <1>0, <1>1, <1>2, <1>3, <1>4, <1>5, <1>6, <1>7, <1>8, <1>9 DEF PluginsInv, LibraryInv

\* Every step keeps the invariant: it is a step of the library in use, the next
\* session, or the end of the process.
LEMMA PluginsStep == PluginsInv /\ [PluginsNext]_pluginsVars => PluginsInv'
<1> SUFFICES ASSUME PluginsInv, [PluginsNext]_pluginsVars PROVE PluginsInv'
  OBVIOUS
<1> USE DEF PluginsInv, LibraryInv
<1>1. CASE UseWindowsML
  <2>1. library = "WindowsML" /\ library' = library
    BY <1>1 DEF UseWindowsML
  <2>2. PluginsTypeOK' /\ WindowsInv'
    BY <1>1, <2>1, WindowsMLStep
  <2> QED
    BY <2>1, <2>2
<1>2. CASE UseLlamaCpp
  <2>1. library = "LlamaCpp" /\ library' = library
    BY <1>2 DEF UseLlamaCpp
  <2>2. (PluginsTypeOK /\ VendorInv /\ LlamaInv)'
    BY <1>2, <2>1, LlamaCppStep
  <2> QED
    BY <2>1, <2>2
<1>3. CASE UseNativeQNN
  <2>1. library = "NativeQNN" /\ library' = library
    BY <1>3 DEF UseNativeQNN
  <2>2. (PluginsTypeOK /\ VendorInv /\ QnnInv)'
    BY <1>3, <2>1, NativeQNNStep
  <2> QED
    BY <2>1, <2>2
<1>4. CASE UseOrtGenAI
  <2>1. library' = library /\ library \in {"OrtGenAI", "OrtGenAI-RyzenAI"}
    BY <1>4 DEF UseOrtGenAI
  <2>2. CASE library = "OrtGenAI"
    <3>1. (PluginsTypeOK /\ VendorInv /\ OrtInv)'
      BY <1>4, <2>2, OrtGenAIStep
    <3> QED
      BY <2>1, <2>2, <3>1
  <2>3. CASE library = "OrtGenAI-RyzenAI"
    <3>1. (PluginsTypeOK /\ VendorInv /\ RyzenInv)'
      BY <1>4, <2>3, RyzenAIStep
    <3> QED
      BY <2>1, <2>3, <3>1
  <2> QED
    BY <2>1, <2>2, <2>3
<1>5. CASE UseNativeOpenVINO
  <2>1. library = "NativeOpenVINO" /\ library' = library
    BY <1>5 DEF UseNativeOpenVINO
  <2>2. (PluginsTypeOK /\ VendorInv /\ OpenVinoInv)'
    BY <1>5, <2>1, OpenVINOStep
  <2> QED
    BY <2>1, <2>2
<1>6. CASE UseMLX
  <2>1. library = "MLX" /\ library' = library
    BY <1>6 DEF UseMLX
  <2>2. (PluginsTypeOK /\ VendorInv /\ MlxInv)'
    BY <1>6, <2>1, MLXStep
  <2> QED
    BY <2>1, <2>2
<1>7. CASE UseDiffusers
  <2>1. library = "Diffusers" /\ library' = library
    BY <1>7 DEF UseDiffusers
  <2>2. (PluginsTypeOK /\ VendorInv /\ DiffusersInv)'
    BY <1>7, <2>1, DiffusersStep
  <2> QED
    BY <2>1, <2>2
<1>8. CASE NextSession
  BY <1>8, NextSessionStep
<1>9. CASE ProcessDies
  BY <1>9, ProcessDiesStep
<1>10. CASE UNCHANGED pluginsVars
  BY <1>10, PluginsStutter
<1> QED
  BY <1>1, <1>2, <1>3, <1>4, <1>5, <1>6, <1>7, <1>8, <1>9, <1>10 DEF PluginsNext

\* In every session with every library the invariant of that library holds,
\* whatever the vendor's runtime answers.
THEOREM PluginsInvariance == PluginsSpec => []PluginsInv
<1> QED
  BY PluginsBegin, PluginsStep, PTL DEF PluginsSpec

\* Every variable of the plugins keeps its type (Plugins.PluginsTypeOK).
THEOREM PluginsTypeCorrect == PluginsSpec => []PluginsTypeOK
<1>1. PluginsInv => PluginsTypeOK
  BY DEF PluginsInv
<1> QED
  BY <1>1, PluginsInvariance, PTL

\* What a client may count on in a session with any of the vendors' libraries
\* (Plugins.ServesSession): for every order of calls PluginSession allows, every
\* answer of the vendor's runtime, any hardware, catalog and models, any number
\* of sessions and an end of the process at any moment.
THEOREM SessionServed == PluginsSpec => []ServesSession
<1>1. PluginsInv => ServesSession
  <2> SUFFICES ASSUME PluginsInv PROVE ServesSession
    OBVIOUS
  <2>1. library = "WindowsML" => WindowsML!ServesSession
    BY WindowsServes DEF PluginsInv, LibraryInv
  <2>2. /\ library = "LlamaCpp" => LlamaCpp!Serves
        /\ library = "NativeQNN" => NativeQNN!Serves
        /\ library = "OrtGenAI" => OrtGenAI!Serves
        /\ library = "OrtGenAI-RyzenAI" => OrtGenAI!ServesRyzenAI
        /\ library = "NativeOpenVINO" => NativeOpenVINO!Serves
        /\ library = "MLX" => MLX!Serves
        /\ library = "Diffusers" => Diffusers!Serves
    BY DEF PluginsInv, LibraryInv, LlamaInv, QnnInv, OrtInv, RyzenInv, OpenVinoInv, MlxInv,
       DiffusersInv
  <2> QED
    BY <2>1, <2>2 DEF ServesSession
<1> QED
  BY <1>1, PluginsInvariance, PTL
=============================================================================

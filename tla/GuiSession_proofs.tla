---------------------------- MODULE GuiSession_proofs ----------------------------
(***************************************************************************)
(* Theorems about GuiSession, for any number of configurations and of      *)
(* threads, whatever the user clicks where the windows let it be clicked.  *)
(***************************************************************************)
EXTENDS GuiSession, SequenceTheorems, TLAPS

LEMMA InitInv == Init => IInv
<1> SUFFICES ASSUME Init PROVE IInv
  OBVIOUS
<1> USE DEF Init
<1>1. NewStatus \in Statuses /\ ~NewStatus.success /\ NewStatus.done = <<>>
  BY DEF NewStatus, Statuses
<1>2. DOMAIN posted = {}
  OBVIOUS
<1>2a. kind \in Kind /\ posted \in Seq(Calls) /\ threads \in 1 .. MaxThreads /\ config \in 1 .. C + 1
  BY GuiAssumption DEF Kind
<1>3. TypeOK
  BY <1>1, <1>2a DEF TypeOK, Place, Sweep
<1>4. SessionInv
  BY <1>2 DEF SessionInv, NoThreadLost, OfRun
<1>5. PlaceInv
  BY <1>2 DEF PlaceInv, Stage, Sweep
<1>5a. ThreadInv
  BY <1>2 DEF ThreadInv, OfRun
<1>6. StatusInv
  BY <1>1, <1>2 DEF StatusInv, Whole, Succeeded, OfRun
<1> QED
  BY <1>3, <1>4, <1>5, <1>5a, <1>6 DEF IInv

-----------------------------------------------------------------------------
(* A queue of calls that one call joins, or the first one leaves.          *)

LEMMA Posted ==
  ASSUME NEW S, NEW q \in Seq(S), NEW c \in S
  PROVE  /\ Append(q, c) \in Seq(S)
         /\ DOMAIN q = 1 .. Len(q) /\ Len(q) \in Nat
         /\ DOMAIN Append(q, c) = 1 .. Len(q) + 1
         /\ \A i \in DOMAIN q : Append(q, c)[i] = q[i]
         /\ Append(q, c)[Len(q) + 1] = c
  OBVIOUS

LEMMA Taken ==
  ASSUME NEW S, NEW q \in Seq(S), q # <<>>
  PROVE  /\ Tail(q) \in Seq(S) /\ Head(q) \in S
         /\ Len(q) \in Nat \ {0} /\ DOMAIN q = 1 .. Len(q)
         /\ Head(q) = q[1]
         /\ DOMAIN Tail(q) = 1 .. Len(q) - 1
         /\ \A i \in DOMAIN Tail(q) : Tail(q)[i] = q[i + 1]
  OBVIOUS

\* What RemoveAt does.
LEMMA RemoveAtFacts ==
  ASSUME NEW T, NEW t \in Seq(T), NEW m \in 1 .. Len(t)
  PROVE  /\ RemoveAt(t, m) \in Seq(T) /\ Len(RemoveAt(t, m)) = Len(t) - 1
         /\ \A j \in 1 .. Len(t) - 1 : RemoveAt(t, m)[j] = IF j < m THEN t[j] ELSE t[j + 1]
<1>0. PICK n \in Nat : n = Len(t)
  OBVIOUS
<1>1. PICK a \in Seq(T) : /\ a = SubSeq(t, 1, m - 1) /\ Len(a) = m - 1
                          /\ \A i \in 1 .. m - 1 : a[i] = t[i]
  <2>1. m - 1 \in Int /\ \A i \in 1 .. m - 1 : t[i] \in T
    BY <1>0
  <2>2. /\ SubSeq(t, 1, m - 1) \in Seq(T)
        /\ Len(SubSeq(t, 1, m - 1)) = IF 1 <= m - 1 THEN m - 1 - 1 + 1 ELSE 0
        /\ \A i \in 1 .. m - 1 - 1 + 1 : SubSeq(t, 1, m - 1)[i] = t[1 + i - 1]
    BY <2>1, SubSeqProperties
  <2>3. (IF 1 <= m - 1 THEN m - 1 - 1 + 1 ELSE 0) = m - 1
    BY <1>0
  <2>4. \A i \in 1 .. m - 1 : i \in 1 .. m - 1 - 1 + 1 /\ 1 + i - 1 = i
    BY <1>0
  <2>5. \A i \in 1 .. m - 1 : SubSeq(t, 1, m - 1)[i] = t[i]
    BY <2>2, <2>4
  <2> QED
    BY <2>2, <2>3, <2>5
<1>2. PICK b \in Seq(T) : /\ b = SubSeq(t, m + 1, n) /\ Len(b) = n - m
                          /\ \A i \in 1 .. n - m : b[i] = t[m + i]
  <2>1. m + 1 \in Int /\ n \in Int /\ \A i \in m + 1 .. n : t[i] \in T
    <3>1. \A i \in m + 1 .. n : i \in 1 .. n
      BY <1>0
    <3> QED
      BY <1>0, <3>1
  <2>2. /\ SubSeq(t, m + 1, n) \in Seq(T)
        /\ Len(SubSeq(t, m + 1, n)) = IF m + 1 <= n THEN n - (m + 1) + 1 ELSE 0
        /\ \A i \in 1 .. n - (m + 1) + 1 : SubSeq(t, m + 1, n)[i] = t[m + 1 + i - 1]
    BY <2>1, SubSeqProperties
  <2>3. (IF m + 1 <= n THEN n - (m + 1) + 1 ELSE 0) = n - m
    BY <1>0
  <2>4. \A i \in 1 .. n - m : i \in 1 .. n - (m + 1) + 1 /\ m + 1 + i - 1 = m + i
    BY <1>0
  <2>5. \A i \in 1 .. n - m : SubSeq(t, m + 1, n)[i] = t[m + i]
    BY <2>2, <2>4
  <2> QED
    BY <2>2, <2>3, <2>5
<1>3. RemoveAt(t, m) = a \o b
  BY <1>0, <1>1, <1>2 DEF RemoveAt
<1>c. /\ a \o b \in Seq(T) /\ Len(a \o b) = m - 1 + (n - m)
      /\ \A i \in 1 .. m - 1 + (n - m) : (a \o b)[i] = IF i <= m - 1 THEN a[i] ELSE b[i - (m - 1)]
  BY <1>1, <1>2, ConcatProperties
<1>4. a \o b \in Seq(T) /\ Len(a \o b) = n - 1 /\ m - 1 + (n - m) = n - 1
  BY <1>0, <1>c
<1>5. ASSUME NEW j \in 1 .. n - 1, j < m PROVE (a \o b)[j] = t[j]
  <2>1. j <= m - 1 /\ j \in 1 .. m - 1
    BY <1>0, <1>5
  <2> QED
    BY <1>1, <1>4, <1>c, <2>1
<1>6. ASSUME NEW j \in 1 .. n - 1, ~(j < m) PROVE (a \o b)[j] = t[j + 1]
  <2>1. (a \o b)[j] = b[j - (m - 1)]
    <3>1. ~(j <= m - 1)
      BY <1>0, <1>6
    <3> QED
      BY <1>4, <1>c, <3>1
  <2>2. j - (m - 1) \in 1 .. n - m /\ m + (j - (m - 1)) = j + 1
    BY <1>6
  <2> QED
    BY <1>2, <2>1, <2>2
<1> QED
  BY <1>0, <1>3, <1>4, <1>5, <1>6

\* Without takes one call from a queue, or none.
LEMMA WithoutFacts ==
  ASSUME NEW S, NEW q \in Seq(S), NEW n, NEW r, r = Without(q, n)
  PROVE  /\ r \in Seq(S)
         /\ \E f \in [DOMAIN r -> DOMAIN q] :
              /\ \A i \in DOMAIN r : r[i] = q[f[i]]
              /\ \A i, j \in DOMAIN r : f[i] = f[j] => i = j
<1> DEFINE own == {i \in DOMAIN q : q[i].call = "finished" /\ q[i].thread = n}
<1>1. r = IF own = {} THEN q ELSE RemoveAt(q, CHOOSE i \in own : TRUE)
  BY DEF Without
<1> HIDE DEF own
<1>2. CASE own = {}
  <2>1. r = q
    BY <1>1, <1>2
  <2> DEFINE f == [i \in DOMAIN q |-> i]
  <2>2. f \in [DOMAIN q -> DOMAIN q] /\ \A i \in DOMAIN q : f[i] = i
    OBVIOUS
  <2> HIDE DEF f
  <2> QED
    BY <2>1, <2>2
<1>3. CASE own # {}
  <2>1. PICK m \in own : r = RemoveAt(q, m)
    BY <1>1, <1>3
  <2>2. m \in 1 .. Len(q)
    BY DEF own
  <2>3. PICK t \in Seq(S) : /\ t = RemoveAt(q, m) /\ Len(t) = Len(q) - 1
                            /\ \A j \in 1 .. Len(q) - 1 : t[j] = IF j < m THEN q[j] ELSE q[j + 1]
    BY <2>2, RemoveAtFacts
  <2>4. DOMAIN t = 1 .. Len(q) - 1 /\ DOMAIN q = 1 .. Len(q) /\ Len(q) \in Nat
    BY <2>3
  <2> DEFINE f == [j \in DOMAIN t |-> IF j < m THEN j ELSE j + 1]
  <2>5. f \in [DOMAIN t -> DOMAIN q]
    BY <2>2, <2>4
  <2>6. \A i \in DOMAIN t : t[i] = q[f[i]]
    BY <2>2, <2>3, <2>4
  <2>7. \A i, j \in DOMAIN t : f[i] = f[j] => i = j
    BY <2>2, <2>4
  <2> HIDE DEF f
  <2> QED
    BY <2>1, <2>3, <2>5, <2>6, <2>7
<1> QED
  BY <1>2, <1>3

\* What is posted after the call to delete an ended thread was posted before it.
LEMMA Erased ==
  ASSUME posted \in Seq(Calls), posted # <<>>, posted' = Without(Tail(posted), threads)
  PROVE  \E f \in [DOMAIN posted' -> DOMAIN posted] :
           /\ \A i \in DOMAIN posted' : posted'[i] = posted[f[i]]
           /\ \A i, j \in DOMAIN posted' : f[i] = f[j] => i = j
<1>1. Tail(posted) \in Seq(Calls)
  BY Taken
<1>2. PICK t \in Seq(Calls) : t = Tail(posted)
  BY <1>1
<1>3. PICK r : r = Without(t, threads)
  OBVIOUS
<1>4. PICK f \in [DOMAIN r -> DOMAIN t] : /\ \A i \in DOMAIN r : r[i] = t[f[i]]
                                          /\ \A i, j \in DOMAIN r : f[i] = f[j] => i = j
  BY <1>3, WithoutFacts
<1>5. /\ \A i \in DOMAIN t : i \in Nat /\ i + 1 \in DOMAIN posted /\ t[i] = posted[i + 1]
  BY <1>2, Taken
<1> DEFINE g == [i \in DOMAIN r |-> f[i] + 1]
<1>6. g \in [DOMAIN r -> DOMAIN posted]
  BY <1>4, <1>5
<1>7. \A i \in DOMAIN r : r[i] = posted[g[i]]
  BY <1>4, <1>5
<1>8. \A i, j \in DOMAIN r : g[i] = g[j] => i = j
  BY <1>4, <1>5
<1>9. r = posted'
  BY <1>2, <1>3
<1> HIDE DEF g
<1> QED
  BY <1>6, <1>7, <1>8, <1>9

-----------------------------------------------------------------------------
(* Types                                                                   *)

Acts ==
  \/ ClickStart \/ ClickCancel \/ ClickClearCache \/ Quit
  \/ ClosePopup \/ AnswerQuestion \/ CloseStatus
  \/ DeliverFinished \/ DeliverStaleFinished \/ DeliverFinishedOfNone \/ DeliverDelete
  \/ DeliverSync \/ DeliverAsk \/ DeliverShow
  \/ StartRun \/ StartClearCache \/ Exit
  \/ Begin \/ SweepConfig \/ Sized
  \/ NextConfig \/ StagePasses \/ ConfigEnds
  \/ EnumerateConfig \/ EndEnumerationLoop
  \/ ClearCache \/ EndThread
  \/ UNCHANGED vars

LEMMA Steps == [Next]_vars => Acts
  BY DEF Next, User, Deliver, AfterWait, Work, Exited, Acts

\* A status after a change of its fields.
LEMMA StatusTypes ==
  ASSUME NEW s \in Statuses, NEW b \in BOOLEAN
  PROVE  /\ [s EXCEPT !.success = b] \in Statuses
         /\ [s EXCEPT !.cancelled = b] \in Statuses
         /\ [s EXCEPT !.cancelled = @ \/ b] \in Statuses
         /\ [s EXCEPT !.done = Append(@, b), !.success = @ /\ b] \in Statuses
<1>1. /\ s.success \in BOOLEAN /\ s.cancelled \in BOOLEAN /\ s.done \in Seq(BOOLEAN)
      /\ s = [success |-> s.success, cancelled |-> s.cancelled, done |-> s.done]
  BY DEF Statuses
<1>2. Append(s.done, b) \in Seq(BOOLEAN)
  BY <1>1, Posted
<1>3. (s.cancelled \/ b) \in BOOLEAN /\ (s.success /\ b) \in BOOLEAN
  OBVIOUS
<1> QED
  BY <1>1, <1>2, <1>3 DEF Statuses

LEMMA NewStatusType == NewStatus \in Statuses
  BY DEF NewStatus, Statuses

Ending == DeliverFinished \/ DeliverStaleFinished \/ DeliverFinishedOfNone

\* The delivery of a finished signal that does not end the program.
Settled ==
  /\ Ending
  /\ posted # <<>> /\ Head(posted).call = "finished" /\ gui = "loop" /\ gui' = gui
  /\ UNCHANGED <<dialog, told, ask, meddled, interrupt, threads, kind, alive, at, config, collected>>
  /\ held' = FALSE
  /\ \/ /\ DeliverStaleFinished /\ Head(posted).of \notin OfRun
        /\ page' = page /\ status' = status
        /\ posted' = Append(Tail(posted), [call |-> "delete"])
     \/ /\ ~DeliverStaleFinished /\ Head(posted).of \notin OfRun
        /\ page' = page /\ status' = status
        /\ posted' = Tail(posted)
     \/ /\ ~DeliverStaleFinished
        /\ Head(posted).of \in OfRun /\ Head(posted).thread = threads /\ page = "realtime"
        /\ page' = "start" /\ status' = [status EXCEPT !.cancelled = @ \/ interrupt]
        /\ posted' = Append(Tail(posted), [call |-> "show", status |-> status'])

LEMMA Endings == ASSUME TypeOK, ThreadInv, Ending PROVE Crash \/ Settled
<1>1. CASE Crash
  BY <1>1
<1>2. CASE ~Crash
  <2>1. posted # <<>> /\ Head(posted).call = "finished" /\ gui = "loop"
    BY DEF Ending, DeliverFinished, DeliverStaleFinished, DeliverFinishedOfNone, Delivered
  <2>2. Head(posted) \in Calls /\ 1 \in DOMAIN posted /\ posted[1] = Head(posted)
    BY <2>1, Taken DEF TypeOK
  <2>3. Head(posted).of \in Kind
    BY <2>1, <2>2 DEF Calls
  <2>4. Head(posted).of \in OfRun => Head(posted).thread = threads /\ page = "realtime"
    BY <2>1, <2>2 DEF ThreadInv, IsFinished
  <2>5. UNCHANGED <<gui, dialog, told, ask, meddled, interrupt, threads, kind, alive, at, config,
                    collected>>
    BY <1>2 DEF Ending, DeliverFinished, DeliverStaleFinished, DeliverFinishedOfNone, threadVars
  <2>6. held' = FALSE
    BY <1>2 DEF Ending, DeliverFinished, DeliverStaleFinished, DeliverFinishedOfNone, threadVars,
                TypeOK
  <2>7. \E q : /\ Finished(Head(posted).of, q)
               /\ DeliverStaleFinished => q = Append(Tail(posted), [call |-> "delete"])
               /\ ~DeliverStaleFinished => q = Tail(posted)
    BY <1>2 DEF Ending, DeliverFinished, DeliverStaleFinished, DeliverFinishedOfNone
  <2>8. DeliverStaleFinished => Head(posted).thread # threads
    BY DEF DeliverStaleFinished
  <2>9. /\ Head(posted).of \notin OfRun => page' = page /\ status' = status
        /\ Head(posted).of \in OfRun =>
             page' = "start" /\ status' = [status EXCEPT !.cancelled = @ \/ interrupt]
    BY <2>3, <2>7 DEF Finished, EnumerationFinished, BenchmarkFinished, ClearCacheFinished,
                      Kind, OfRun
  <2>10. \E q : /\ DeliverStaleFinished => q = Append(Tail(posted), [call |-> "delete"])
                /\ ~DeliverStaleFinished => q = Tail(posted)
                /\ Head(posted).of \notin OfRun => posted' = q
                /\ Head(posted).of \in OfRun =>
                     posted' = Append(q, [call |-> "show", status |-> status'])
    BY <2>7 DEF Finished, EnumerationFinished, BenchmarkFinished, ClearCacheFinished,
                      Kind, OfRun
  <2> QED
    BY <2>1, <2>4, <2>5, <2>6, <2>8, <2>9, <2>10 DEF Settled
<1> QED
  BY <1>1, <1>2

LEMMA TypeStep == TypeOK /\ ThreadInv /\ PlaceInv /\ [Next]_vars => TypeOK'
<1> SUFFICES ASSUME TypeOK, ThreadInv, PlaceInv, Acts PROVE TypeOK'
  BY Steps
<1>0. Ending => Crash \/ Settled
  BY Endings
<1> USE DEF TypeOK, Acts, ClickStart, ClickCancel, ClickClearCache, Quit, ClosePopup,
            AnswerQuestion, CloseStatus, DeliverSync, DeliverDelete, Crash,
            DeliverAsk, DeliverShow, StartRun, StartClearCache, Exit, Begin, SweepConfig,
            Sized, NextConfig, StagePasses, ConfigEnds, EnumerateConfig, EndEnumerationLoop,
            ClearCache, EndThread, vars, guiVars, guiButPosted, threadVars, StartThread
<1>1. gui' \in {"loop", "clear", "quit", "exited", "crashed"} \cup OfRun
  BY <1>0 DEF Ending, Settled
<1>2. page' \in {"start", "realtime"}
  BY <1>0 DEF Ending, Settled
<1>2a. ready' \in BOOLEAN
  BY DEF DeliverFinished, DeliverStaleFinished, DeliverFinishedOfNone, Finished,
         EnumerationFinished, BenchmarkFinished, ClearCacheFinished
<1>3. popup' \in {"none", "canceling", "clearing", "message"}
  BY DEF DeliverFinished, DeliverStaleFinished, DeliverFinishedOfNone, Finished, EnumerationFinished, BenchmarkFinished, ClearCacheFinished
<1>4. dialog' \in {"none", "question", "status"}
  BY <1>0 DEF Ending, Settled
<1>5. ask' \in BOOLEAN /\ interrupt' \in BOOLEAN
  BY <1>0 DEF Ending, Settled
<1>5a. meddled' \in BOOLEAN
  <2>1. CASE ClosePopup
    BY <2>1, Zenon DEF ClosePopup, TypeOK
  <2>2. CASE ClickClearCache
    BY <2>2, Zenon DEF ClickClearCache, TypeOK
  <2>3. CASE meddled' = meddled
    BY <2>3
  <2> QED
    BY <1>0, <2>1, <2>2, <2>3 DEF Ending, Settled
<1>6. threads' \in 1 .. MaxThreads
  BY <1>0, GuiAssumption DEF Ending, Settled
<1>7. held' \in BOOLEAN /\ alive' \in BOOLEAN
  BY <1>0 DEF Ending, Settled
<1>7a. collected' \in BOOLEAN
  <2>1. CASE SweepConfig
    <3>1. CASE config > C
      BY <2>1, <3>1
    <3>2. CASE ~(config > C)
      <4>1. (config > C) = FALSE
        BY <3>2
      <4> QED
        BY <2>1, <4>1, Zenon DEF TypeOK, SweepConfig
    <3> QED
      BY <3>1, <3>2
  <2>2. CASE collected' = collected
    BY <2>2
  <2>3. CASE collected' = FALSE
    BY <2>3
  <2> QED
    BY <1>0, <2>1, <2>2, <2>3 DEF Ending, Settled
<1>8. kind' \in Kind
  BY <1>0 DEF Ending, Settled, Kind
<1>9. config' \in 1 .. C + 1
  BY <1>0, GuiAssumption DEF PlaceInv, Ending, Settled
<1>10. at' \in Place
  BY <1>0 DEF Ending, Settled, Place, Stage, Sweep, Enumeration, Goto, Following
<1>11. status' \in Statuses
  BY <1>0, StatusTypes, NewStatusType DEF EndConfig, Ending, Settled
<1>12. posted' \in Seq(Calls)
  <2>1. CASE posted' = posted
    BY <2>1
  <2>2. CASE posted # <<>> /\ posted' = Tail(posted)
    BY <2>2, Taken
  <2>3. ASSUME NEW c \in Calls, posted' = Append(posted, c)
        PROVE  posted' \in Seq(Calls)
    BY <2>3, Posted
  <2>4. ASSUME NEW c \in Calls, posted # <<>>, posted' = Append(Tail(posted), c)
        PROVE  posted' \in Seq(Calls)
    BY <2>4, Posted, Taken
  <2>5. \A k \in {"sync", "ask", "delete"} : [call |-> k] \in Calls
    BY DEF Calls
  <2>6. [call |-> "finished", thread |-> threads, of |-> kind] \in Calls
    BY DEF Calls
  <2>7. [call |-> "show", status |-> status'] \in Calls
    BY <1>11 DEF Calls
  <2>8. CASE posted # <<>> /\ posted' = Without(Tail(posted), threads)
    BY <2>8, WithoutFacts, Taken
  <2>9. CASE posted' = <<>>
    BY <2>9
  <2>10. CASE Ending
    BY <1>0, <2>2, <2>3, <2>4, <2>5, <2>7, <2>9, <2>10 DEF Settled
  <2> QED
    BY <2>1, <2>2, <2>3, <2>5, <2>6, <2>8, <2>9, <2>10 DEF Ending, Delivered, Post
<1>13. told' \in Statuses
  <2>1. CASE DeliverShow
    <3>1. Head(posted) \in Calls
      BY <2>1, Taken DEF Delivered
    <3> QED
      BY <2>1, <3>1 DEF Delivered, Calls
  <2>2. CASE told' = told
    BY <2>2
  <2> QED
    BY <1>0, <2>1, <2>2 DEF Ending, Settled
<1> QED
  BY <1>1, <1>2, <1>2a, <1>3, <1>4, <1>5, <1>5a, <1>6, <1>7, <1>7a, <1>8, <1>9, <1>10, <1>11, <1>12, <1>13

-----------------------------------------------------------------------------
(* Where the thread's function can be, and the call it awaits.             *)

LEMMA PlaceStep == TypeOK /\ ThreadInv /\ PlaceInv /\ [Next]_vars => PlaceInv'
<1> SUFFICES ASSUME TypeOK, TypeOK', ThreadInv, PlaceInv, Acts PROVE PlaceInv'
  BY Steps, TypeStep
<1> USE DEF TypeOK, PlaceInv, Awaits, Stage, Sweep, Enumeration, OfRun
<1> USE DEF vars, guiVars, threadVars, guiButPosted, Goto
<1>1. CASE ClickStart \/ ClickCancel \/ ClickClearCache \/ Quit \/ ClosePopup \/ CloseStatus
             \/ Exit \/ UNCHANGED vars
  BY <1>1 DEF ClickStart, ClickCancel, ClickClearCache, Quit, ClosePopup, CloseStatus,
              Exit
<1>2. CASE StartRun \/ StartClearCache
  <2>1. ~alive /\ alive' = TRUE /\ at' = "start" /\ posted' = posted /\ dialog' = dialog
    <3>1. gui \in OfRun \cup {"clear"} /\ ~(held /\ alive)
      BY <1>2 DEF StartRun, StartClearCache, Running
    <3>2. ~alive
      BY <3>1 DEF ThreadInv
    <3> QED
      BY <1>2, <3>2 DEF StartRun, StartClearCache, StartThread
  <2> QED
    BY <2>1
<1>3. CASE NextConfig \/ StagePasses \/ ConfigEnds \/ EnumerateConfig \/ EndEnumerationLoop
             \/ ClearCache
  <2>1. posted' = posted /\ dialog' = dialog /\ alive' = alive /\ kind' = kind
    BY <1>3 DEF NextConfig, StagePasses, ConfigEnds, EnumerateConfig, EndEnumerationLoop, ClearCache
  <2>2. at \notin {"sync1", "sync2", "question"}
    BY <1>3 DEF NextConfig, StagePasses, ConfigEnds, EnumerateConfig, EndEnumerationLoop, ClearCache
  <2>3. at' \in {"next"} \cup Stage \cup (Sweep \ {"start"}) => kind \in OfRun
    BY <1>3 DEF NextConfig, StagePasses, ConfigEnds, EnumerateConfig, EndEnumerationLoop,
                ClearCache, Following
  <2>4. at' \in Stage => config' <= C
    BY <1>3, GuiAssumption DEF NextConfig, StagePasses, ConfigEnds, EnumerateConfig,
                EndEnumerationLoop, ClearCache, Following
  <2>5. alive /\ (at' \in Enumeration => kind = "enumerate") /\ (at' = "clearing" => kind = "clear")
    BY <1>3 DEF NextConfig, StagePasses, ConfigEnds, EnumerateConfig, EndEnumerationLoop,
                ClearCache, Following, Worker
  <2> QED
    BY <2>1, <2>2, <2>3, <2>4, <2>5
<1>4. CASE AnswerQuestion
  BY <1>4 DEF AnswerQuestion
<1>5. CASE Begin
  <2>1. at = "start" /\ at' \in {"sizing", "clearing", "sync1", "next"} /\ alive /\ alive' = alive
        /\ dialog' = dialog /\ kind' = kind /\ (at' \in {"sync1", "next"} => kind \in OfRun)
        /\ (at' = "sizing" => kind = "enumerate") /\ (at' = "clearing" => kind = "clear")
    BY <1>5 DEF Begin, Worker
  <2>2. (at' = "sync1" /\ posted' = Append(posted, [call |-> "sync"])) \/ posted' = posted
    BY <1>5 DEF Begin, Post
  <2>3. CASE posted' = posted
    BY <2>1, <2>3
  <2>4. CASE at' = "sync1" /\ posted' = Append(posted, [call |-> "sync"])
    <3>1. [call |-> "sync"] \in Calls
      BY DEF Calls
    <3>2. \A i \in DOMAIN posted : ~Awaits(i)
      BY <2>1
    <3>3. \A i \in DOMAIN posted' : i = Len(posted) + 1 \/ ~Awaits(i)'
      BY <2>4, <3>1, <3>2, Posted
    <3>4. posted'[Len(posted) + 1] = [call |-> "sync"]
      BY <2>4, <3>1, Posted
    <3> QED
      BY <2>1, <2>4, <3>3, <3>4
  <2> QED
    BY <2>2, <2>3, <2>4
<1>6. CASE SweepConfig \/ Sized
  <2>1. at \in {"sweep", "sized"} /\ at' \in {"sweep", "sync2", "next", "question"} /\ alive
        /\ alive' = alive /\ dialog' = dialog /\ kind' = kind /\ kind \in OfRun
    BY <1>6 DEF SweepConfig, Sized, Worker
  <2>2. CASE posted' = posted
    <3>1. at' \in {"sweep", "next"}
      BY <1>6, <2>1, <2>2, Posted DEF SweepConfig, Sized, Post, Calls
    <3> QED
      BY <2>1, <2>2, <3>1
  <2>3. ASSUME NEW k \in {"sync", "ask"}, posted' = Append(posted, [call |-> k]),
               k = "sync" => at' = "sync2", k = "ask" => at' = "question"
        PROVE  PlaceInv'
    <3>1. [call |-> k] \in Calls
      BY DEF Calls
    <3>2. \A i \in DOMAIN posted : ~Awaits(i)
      BY <2>1
    <3>3. \A i \in DOMAIN posted' : i = Len(posted) + 1 \/ ~Awaits(i)'
      BY <2>3, <3>1, <3>2, Posted
    <3>4. posted'[Len(posted) + 1] = [call |-> k]
      BY <2>3, <3>1, Posted
    <3> QED
      BY <2>1, <2>3, <3>3, <3>4
  <2> QED
    BY <1>6, <2>2, <2>3 DEF SweepConfig, Sized, Post
<1>7. CASE EndThread
  <2>1. [call |-> "finished", thread |-> threads, of |-> kind] \in Calls
    BY DEF Calls
  <2>2. posted' = Append(posted, [call |-> "finished", thread |-> threads, of |-> kind])
    BY <1>7 DEF EndThread, Post
  <2>3. at = "end" /\ at' = at /\ dialog' = dialog /\ kind' = kind
    BY <1>7 DEF EndThread
  <2>4. \A i \in DOMAIN posted' : ~Awaits(i)'
    BY <2>1, <2>2, <2>3, Posted
  <2> QED
    BY <2>3, <2>4
<1>8. CASE Ending
  <2>1. CASE Crash
    BY <2>1 DEF Crash
  <2>2. CASE Settled
    <3>1. /\ posted # <<>> /\ Tail(posted) \in Seq(Calls)
          /\ dialog' = dialog /\ alive' = alive /\ at' = at /\ kind' = kind /\ config' = config
      BY <2>2, Taken DEF Settled
    <3>2. \A i \in DOMAIN Tail(posted) : i + 1 \in DOMAIN posted /\ Tail(posted)[i] = posted[i + 1]
      BY <3>1, Taken
    <3>3. CASE posted' = Tail(posted)
      BY <3>1, <3>2, <3>3
    <3>4. ASSUME NEW c \in Calls, c.call \notin {"sync", "ask"}, posted' = Append(Tail(posted), c)
          PROVE  PlaceInv'
      <4>1. \A i \in DOMAIN posted' : Awaits(i)' =>
              i \in DOMAIN Tail(posted) /\ posted'[i] = Tail(posted)[i]
        BY <3>1, <3>4, Posted
      <4>2. \A i \in DOMAIN posted' : Awaits(i)' => i + 1 \in DOMAIN posted /\ posted'[i] = posted[i + 1]
        BY <3>2, <4>1
      <4>3. \A i, j \in DOMAIN posted' : i + 1 = j + 1 => i = j
        BY <3>1, <3>4, Posted
      <4> QED
        BY <3>1, <4>2, <4>3
    <3>5. [call |-> "show", status |-> status'] \in Calls /\ [call |-> "delete"] \in Calls
      BY DEF Calls
    <3> QED
      BY <2>2, <3>3, <3>4, <3>5 DEF Settled
  <2> QED
    BY <1>8, <2>1, <2>2, Endings
<1>8a. CASE DeliverDelete
  <2>1. CASE Crash
    BY <2>1 DEF Crash
  <2>2. CASE ~Crash
    <3>1. /\ posted # <<>> /\ ~alive /\ posted' = Without(Tail(posted), threads)
          /\ dialog' = dialog /\ alive' = alive /\ at' = at /\ kind' = kind /\ config' = config
      BY <1>8a, <2>2 DEF DeliverDelete, Delivered
    <3>2. \A i \in DOMAIN posted : ~Awaits(i)
      BY <3>1
    <3>3. \A i \in DOMAIN posted' : \E j \in DOMAIN posted : posted'[i] = posted[j]
      BY <3>1, Erased
    <3> QED
      BY <3>1, <3>2, <3>3
  <2> QED
    BY <2>1, <2>2
<1>9. CASE DeliverSync \/ DeliverAsk \/ DeliverShow
  <2>1. posted # <<>> /\ posted' = Tail(posted) /\ alive' = alive /\ kind' = kind
    BY <1>9 DEF DeliverSync, DeliverAsk, DeliverShow, Delivered
  <2>2. \A i \in DOMAIN posted' : i + 1 \in DOMAIN posted /\ posted'[i] = posted[i + 1] /\ i + 1 # 1
    BY <2>1, Taken
  <2>3. 1 \in DOMAIN posted /\ posted[1] = Head(posted)
    BY <2>1, Taken
  <2>4. CASE DeliverSync
    BY <2>1, <2>2, <2>3, <2>4 DEF DeliverSync, Delivered
  <2>5. CASE DeliverAsk
    BY <2>1, <2>2, <2>3, <2>5 DEF DeliverAsk, Delivered
  <2>6. CASE DeliverShow
    BY <2>1, <2>2, <2>3, <2>6 DEF DeliverShow, Delivered
  <2> QED
    BY <1>9, <2>4, <2>5, <2>6
<1> QED
  BY <1>1, <1>2, <1>3, <1>4, <1>5, <1>6, <1>7, <1>8, <1>8a, <1>9 DEF Acts, Ending

-----------------------------------------------------------------------------
(* The threads there are.                                                  *)

LEMMA ThreadStep ==
  ASSUME TypeOK, TypeOK', ThreadInv, PlaceInv, Acts
  PROVE  ThreadInv'
<1> USE DEF TypeOK, IsFinished, OfRun, vars, guiVars, threadVars, guiButPosted
<1> DEFINE Delete(q) == \E i \in DOMAIN q : q[i].call = "delete"
<1>0. ThreadInv <=>
        /\ alive => held \/ Delete(posted)
        /\ \A i, j \in DOMAIN posted :
             IsFinished(i) /\ IsFinished(j) /\ posted[i].thread = posted[j].thread => i = j
        /\ \A i \in DOMAIN posted : IsFinished(i) =>
             /\ posted[i].thread <= threads
             /\ posted[i].thread = threads => ~alive /\ posted[i].of = kind
             /\ posted[i].of \in OfRun => posted[i].thread = threads /\ page = "realtime"
        /\ page = "realtime" => kind \in OfRun
        /\ alive /\ kind \in OfRun => page = "realtime"
        /\ gui \in OfRun \cup {"clear"} => page = "start" /\ ~Delete(posted)
  BY DEF ThreadInv
<1>1. CASE ClickCancel \/ ClosePopup \/ AnswerQuestion \/ CloseStatus \/ Quit \/ Exit
             \/ NextConfig \/ StagePasses \/ ConfigEnds \/ EnumerateConfig \/ EndEnumerationLoop
             \/ ClearCache \/ UNCHANGED vars
  <2>1. /\ posted' = posted /\ page' = page /\ threads' = threads /\ held' = held
        /\ kind' = kind /\ alive' = alive
    BY <1>1 DEF ClickCancel, ClosePopup, AnswerQuestion, CloseStatus, Quit, Exit, NextConfig,
                StagePasses, ConfigEnds, EnumerateConfig, EndEnumerationLoop, ClearCache
  <2>2. gui' = gui \/ gui' \in {"quit", "exited"}
    BY <1>1 DEF ClickCancel, ClosePopup, AnswerQuestion, CloseStatus, Quit, Exit, NextConfig,
                StagePasses, ConfigEnds, EnumerateConfig, EndEnumerationLoop, ClearCache
  <2> QED
    BY <2>1, <2>2 DEF ThreadInv
<1>2. CASE ClickStart \/ ClickClearCache
  <2>1. /\ posted' = posted /\ page' = page /\ threads' = threads /\ held' = held
        /\ kind' = kind /\ alive' = alive /\ page = "start"
        /\ \A i \in DOMAIN posted : posted[i].call # "delete"
    BY <1>2 DEF ClickStart, ClickClearCache, Free
  <2> QED
    BY <2>1 DEF ThreadInv
<1>3. CASE StartRun \/ StartClearCache
  <2>1. gui \in OfRun \cup {"clear"}
    BY <1>3 DEF StartRun, StartClearCache
  <2>2. page = "start" /\ \A i \in DOMAIN posted : IsFinished(i) =>
          posted[i].thread <= threads /\ posted[i].thread \in Nat /\ posted[i].of \notin OfRun
    <3>1. \A i \in DOMAIN posted : IsFinished(i) => posted[i].thread \in 1 .. MaxThreads
      <4>1. \A i \in DOMAIN posted : posted[i] \in Calls
        OBVIOUS
      <4> QED
        BY <4>1 DEF Calls
    <3> QED
      BY <2>1, <3>1, GuiAssumption DEF ThreadInv
  <2>3. /\ posted' = posted /\ threads' = threads + 1 /\ held' = TRUE /\ gui' = "loop"
        /\ (page' = page /\ kind' = "clear") \/ (page' = "realtime" /\ kind' \in OfRun)
    BY <1>3 DEF StartRun, StartClearCache, StartThread
  <2>4. threads \in Nat
    BY GuiAssumption
  <2>5. \A i \in DOMAIN posted : IsFinished(i) => posted[i].thread # threads + 1
                                                  /\ posted[i].thread <= threads + 1
    BY <2>2, <2>4
  <2> QED
    BY <2>2, <2>3, <2>5 DEF ThreadInv
<1>4. CASE Begin \/ SweepConfig \/ Sized
  <2>1. /\ gui' = gui /\ page' = page /\ threads' = threads /\ held' = held
        /\ kind' = kind /\ alive' = alive
    BY <1>4 DEF Begin, SweepConfig, Sized
  <2>2. CASE posted' = posted
    BY <2>1, <2>2 DEF ThreadInv
  <2>3. ASSUME NEW k \in {"sync", "ask"}, posted' = Append(posted, [call |-> k])
        PROVE  ThreadInv'
    <3>1. [call |-> k] \in Calls /\ [call |-> k].call \notin {"finished", "delete"}
      BY DEF Calls
    <3>2. \A i \in DOMAIN posted : i \in DOMAIN posted' /\ posted'[i] = posted[i]
      BY <2>3, <3>1, Posted
    <3>3. \A i \in DOMAIN posted' : IsFinished(i)' \/ posted'[i].call = "delete" =>
            i \in DOMAIN posted /\ posted'[i] = posted[i]
      BY <2>3, <3>1, Posted
    <3>4. Delete(posted') <=> Delete(posted)
      BY <3>2, <3>3
    <3> QED
      BY <2>1, <3>3, <3>4 DEF ThreadInv
  <2> QED
    BY <1>4, <2>2, <2>3 DEF Begin, SweepConfig, Sized, Post
<1>5. CASE EndThread
  <2> DEFINE c == [call |-> "finished", thread |-> threads, of |-> kind]
  <2>1. c \in Calls /\ c.call = "finished" /\ c.thread = threads /\ c.of = kind
    BY DEF Calls
  <2>2. /\ posted' = Append(posted, c) /\ alive /\ alive' = FALSE
        /\ gui' = gui /\ page' = page /\ threads' = threads /\ held' = held /\ kind' = kind
    BY <1>5 DEF EndThread, Post
  <2> HIDE DEF c
  <2>3. /\ \A i \in DOMAIN posted : i \in DOMAIN posted' /\ posted'[i] = posted[i]
        /\ \A i \in DOMAIN posted' : i \in DOMAIN posted \/ i = Len(posted) + 1
        /\ Len(posted) + 1 \in DOMAIN posted' /\ posted'[Len(posted) + 1] = c
    BY <2>1, <2>2, Posted
  <2>4. \A i \in DOMAIN posted : IsFinished(i) => posted[i].thread # threads
    BY <2>2 DEF ThreadInv
  <2>5. Delete(posted') <=> Delete(posted)
    BY <2>1, <2>3
  <2>6. \A i, j \in DOMAIN posted' :
          IsFinished(i)' /\ IsFinished(j)' /\ posted'[i].thread = posted'[j].thread => i = j
    BY <2>1, <2>3, <2>4 DEF ThreadInv
  <2>7. \A i \in DOMAIN posted' : IsFinished(i)' =>
          /\ posted'[i].thread <= threads
          /\ posted'[i].thread = threads => posted'[i].of = kind
          /\ posted'[i].of \in OfRun => posted'[i].thread = threads /\ page = "realtime"
    <3>1. threads <= threads
      BY GuiAssumption
    <3> QED
      BY <2>1, <2>2, <2>3, <3>1 DEF ThreadInv
  <2> QED
    BY <1>0, <2>2, <2>5, <2>6, <2>7 DEF ThreadInv
<1>6. CASE Ending
  <2>1. CASE Crash
    BY <2>1 DEF Crash, ThreadInv
  <2>2. CASE Settled
    <3>1. /\ posted # <<>> /\ Tail(posted) \in Seq(Calls) /\ posted[1] = Head(posted)
          /\ 1 \in DOMAIN posted /\ IsFinished(1)
          /\ threads' = threads /\ kind' = kind /\ alive' = alive /\ gui' = "loop" /\ held' = FALSE
      BY <2>2, Taken DEF Settled
    <3>2. \A i \in DOMAIN Tail(posted) : /\ i + 1 \in DOMAIN posted /\ i + 1 # 1
                                         /\ Tail(posted)[i] = posted[i + 1]
      BY <3>1, Taken
    <3>3. \A i \in DOMAIN posted : i # 1 =>
            i - 1 \in DOMAIN Tail(posted) /\ Tail(posted)[i - 1] = posted[i]
      BY <3>1, Taken
    <3>4. \A i, j \in DOMAIN Tail(posted) : i + 1 = j + 1 => i = j
      BY <3>1, Taken
    <3>5. Delete(posted) => Delete(Tail(posted))
      BY <3>1, <3>3
    <3>6. /\ \A i \in DOMAIN Tail(posted) : i \in DOMAIN posted' /\ posted'[i] = Tail(posted)[i]
          /\ \A i \in DOMAIN posted' : IsFinished(i)' =>
               i \in DOMAIN Tail(posted) /\ posted'[i] = Tail(posted)[i]
          /\ DeliverStaleFinished => Delete(posted')
      <4>1. ASSUME NEW c \in Calls, c.call # "finished", posted' = Append(Tail(posted), c)
            PROVE  /\ \A i \in DOMAIN Tail(posted) : i \in DOMAIN posted' /\ posted'[i] = Tail(posted)[i]
                   /\ \A i \in DOMAIN posted' : IsFinished(i)' =>
                        i \in DOMAIN Tail(posted) /\ posted'[i] = Tail(posted)[i]
                   /\ c.call = "delete" => Delete(posted')
        BY <3>1, <4>1, Posted
      <4>2. [call |-> "show", status |-> status'] \in Calls /\ [call |-> "delete"] \in Calls
        BY DEF Calls
      <4> QED
        BY <2>2, <4>1, <4>2 DEF Settled
    <3>7. Delete(Tail(posted)) => Delete(posted')
      BY <3>6
    <3>8. \A i \in DOMAIN posted' : IsFinished(i)' =>
            /\ i + 1 \in DOMAIN posted /\ i + 1 # 1 /\ IsFinished(i + 1)
            /\ posted'[i] = posted[i + 1]
      BY <3>2, <3>6
    <3>9. alive => Delete(posted')
      <4>1. CASE DeliverFinished
        BY <3>1, <4>1 DEF DeliverFinished, ThreadInv
      <4>2. CASE DeliverStaleFinished
        BY <3>6, <4>2
      <4>3. CASE DeliverFinishedOfNone
        BY <1>0, <3>5, <3>7, <4>3 DEF DeliverFinishedOfNone
      <4> QED
        BY <1>6, <4>1, <4>2, <4>3 DEF Ending
    <3>10. \A i, j \in DOMAIN posted' :
             IsFinished(i)' /\ IsFinished(j)' /\ posted'[i].thread = posted'[j].thread => i = j
      BY <3>4, <3>6, <3>8 DEF ThreadInv
    <3>11. \/ page' = page /\ Head(posted).of \notin OfRun
           \/ /\ page' = "start" /\ Head(posted).of \in OfRun
              /\ Head(posted).thread = threads
      BY <2>2 DEF Settled
    <3>12. \A i \in DOMAIN posted' : IsFinished(i)' =>
             /\ posted'[i].thread <= threads
             /\ posted'[i].thread = threads => ~alive /\ posted'[i].of = kind
             /\ posted'[i].of \in OfRun => posted'[i].thread = threads /\ page' = "realtime"
      BY <3>1, <3>8, <3>11 DEF ThreadInv
    <3>13. /\ page' = "realtime" => kind \in OfRun
           /\ alive /\ kind \in OfRun => page' = "realtime"
      BY <3>1, <3>11 DEF ThreadInv
    <3> QED
      BY <1>0, <3>1, <3>9, <3>10, <3>12, <3>13 DEF ThreadInv
  <2> QED
    BY <1>6, <2>1, <2>2, Endings
<1>7. CASE DeliverDelete
  <2>1. CASE Crash
    BY <2>1 DEF Crash, ThreadInv
  <2>2. CASE ~Crash
    <3>1. /\ posted # <<>> /\ ~alive /\ posted' = Without(Tail(posted), threads)
          /\ gui = "loop" /\ gui' = gui /\ page' = page /\ threads' = threads /\ held' = held
          /\ kind' = kind /\ alive' = alive
      BY <1>7, <2>2 DEF DeliverDelete, Delivered
    <3>2. PICK f \in [DOMAIN posted' -> DOMAIN posted] :
            /\ \A i \in DOMAIN posted' : posted'[i] = posted[f[i]]
            /\ \A i, j \in DOMAIN posted' : f[i] = f[j] => i = j
      BY <3>1, Erased
    <3> QED
      BY <3>1, <3>2 DEF ThreadInv
  <2> QED
    BY <2>1, <2>2
<1>8. CASE DeliverSync \/ DeliverAsk \/ DeliverShow
  <2>1. /\ posted # <<>> /\ posted' = Tail(posted) /\ Head(posted).call # "delete"
        /\ gui = "loop" /\ gui' = gui /\ page' = page /\ threads' = threads /\ held' = held
        /\ kind' = kind /\ alive' = alive
    BY <1>8 DEF DeliverSync, DeliverAsk, DeliverShow, Delivered
  <2>2. \A i \in DOMAIN posted' : i + 1 \in DOMAIN posted /\ posted'[i] = posted[i + 1]
    BY <2>1, Taken
  <2>3. \A i \in DOMAIN posted : i = 1 \/ (i - 1 \in DOMAIN posted' /\ posted'[i - 1] = posted[i])
    BY <2>1, Taken
  <2>4. \A i, j \in DOMAIN posted' : i + 1 = j + 1 => i = j
    BY <2>1, Taken
  <2>5. Delete(posted) => Delete(posted')
    BY <2>1, <2>3, Taken
  <2> QED
    BY <1>0, <2>1, <2>2, <2>4, <2>5 DEF ThreadInv
<1> QED
  BY <1>1, <1>2, <1>3, <1>4, <1>5, <1>6, <1>7, <1>8 DEF Acts, Ending

-----------------------------------------------------------------------------
(* No thread is lost.                                                      *)

LEMMA SessionStep ==
  ASSUME TypeOK, TypeOK', SessionInv, ThreadInv, PlaceInv, Acts
  PROVE  SessionInv'
<1> USE DEF TypeOK, SessionInv, NoThreadLost, IsFinished, OfRun, vars, guiVars, threadVars,
            guiButPosted
<1>a. SUFFICES ASSUME ~meddled' PROVE SessionInv'
  OBVIOUS
<1>b. ~meddled
  <2>1. Ending => Crash \/ Settled
    BY Endings
  <2> QED
    BY <1>a, <2>1 DEF Acts, Ending, Settled, Crash, ClickStart, ClickCancel, ClickClearCache,
       Quit, ClosePopup, AnswerQuestion, CloseStatus, DeliverDelete, DeliverSync, DeliverAsk,
       DeliverShow, StartRun, StartClearCache, Exit, Begin, SweepConfig, Sized, NextConfig,
       StagePasses, ConfigEnds, EnumerateConfig, EndEnumerationLoop, ClearCache, EndThread
<1>0. /\ gui # "crashed"
      /\ \A i \in DOMAIN posted :
           /\ posted[i].call = "finished" => held /\ ~alive /\ posted[i].thread = threads
           /\ posted[i].call # "delete"
      /\ alive => held
      /\ held /\ kind = "enumerate" => ~ready
      /\ held /\ kind = "clear" => popup = "clearing"
      /\ held /\ kind \in OfRun => page = "realtime"
      /\ gui \in OfRun \cup {"clear"} => ~held
  BY <1>b
<1>1. CASE ClickCancel \/ Quit \/ CloseStatus \/ AnswerQuestion \/ Exit \/ UNCHANGED vars
  <2>1. /\ UNCHANGED <<posted, page, ready, threads, held, kind, alive>>
        /\ popup' = popup \/ (popup = "none" /\ page = "realtime")
        /\ gui' = gui \/ gui' \in {"quit", "exited"}
    BY <1>1 DEF ClickCancel, Quit, CloseStatus, AnswerQuestion, Exit, Free
  <2>2. held /\ kind = "clear" => popup' = popup
    BY <1>0, <2>1
  <2> QED
    BY <1>0, <2>1, <2>2
<1>2. CASE ClosePopup
  <2>1. UNCHANGED <<gui, posted, page, ready, threads, held, kind, alive>>
    BY <1>2 DEF ClosePopup
  <2>2. ~(held /\ popup = "clearing")
    BY <1>2, <1>a DEF ClosePopup
  <2> QED
    BY <1>0, <2>1, <2>2
<1>3. CASE ClickStart \/ ClickClearCache
  <2>1. /\ UNCHANGED <<posted, page, ready, popup, threads, held, kind, alive>>
        /\ page = "start" /\ popup = "none" /\ gui' \in OfRun \cup {"clear"}
    BY <1>3 DEF ClickStart, ClickClearCache, Free
  <2>2. held => kind # "enumerate"
    BY <1>0, <1>3, <1>a DEF ClickStart, ClickClearCache
  <2>3. ~held
    BY <1>0, <2>1, <2>2 DEF Kind
  <2> QED
    BY <1>0, <2>1, <2>3
<1>4. CASE StartRun \/ StartClearCache
  <2>1. posted' = posted /\ \A i \in DOMAIN posted : ~IsFinished(i)
    BY <1>0, <1>4 DEF StartRun, StartClearCache
  <2>2. /\ gui' = "loop" /\ held' = TRUE
        /\ (kind' = "clear" /\ popup' = "clearing") \/ (kind' \in OfRun /\ page' = "realtime")
    BY <1>4 DEF StartRun, StartClearCache, StartThread
  <2> QED
    BY <1>0, <2>1, <2>2
<1>5. CASE NextConfig \/ StagePasses \/ ConfigEnds \/ EnumerateConfig \/ EndEnumerationLoop
             \/ ClearCache
  <2>1. UNCHANGED <<gui, posted, page, ready, popup, threads, held, kind, alive>>
    BY <1>5 DEF NextConfig, StagePasses, ConfigEnds, EnumerateConfig, EndEnumerationLoop, ClearCache
  <2> QED
    BY <1>0, <2>1
<1>6. CASE Begin \/ SweepConfig \/ Sized
  <2>1. UNCHANGED <<gui, page, ready, popup, threads, held, kind, alive>> /\ alive
    BY <1>6 DEF Begin, SweepConfig, Sized, Worker
  <2>2. CASE posted' = posted
    BY <1>0, <2>1, <2>2
  <2>3. ASSUME NEW k \in {"sync", "ask"}, posted' = Append(posted, [call |-> k])
        PROVE  SessionInv'
    <3>1. [call |-> k] \in Calls /\ [call |-> k].call \notin {"finished", "delete"}
      BY DEF Calls
    <3>2. \A i \in DOMAIN posted' : posted'[i].call \notin {"finished", "delete"}
      BY <1>0, <2>1, <2>3, <3>1, Posted
    <3> QED
      BY <1>0, <2>1, <3>2
  <2> QED
    BY <1>6, <2>2, <2>3 DEF Begin, SweepConfig, Sized, Post
<1>7. CASE EndThread
  <2>1. [call |-> "finished", thread |-> threads, of |-> kind] \in Calls
    BY DEF Calls
  <2>2. posted' = Append(posted, [call |-> "finished", thread |-> threads, of |-> kind])
    BY <1>7 DEF EndThread, Post
  <2>3. UNCHANGED <<gui, page, ready, popup, threads, held, kind>> /\ alive /\ alive' = FALSE
    BY <1>7 DEF EndThread
  <2>4. \A i \in DOMAIN posted : posted[i].call \notin {"finished", "delete"}
    BY <1>0, <2>3
  <2>5. \A i \in DOMAIN posted' : i = Len(posted) + 1 \/ posted'[i].call \notin {"finished", "delete"}
    BY <2>1, <2>2, <2>4, Posted
  <2>6. posted'[Len(posted) + 1] = [call |-> "finished", thread |-> threads, of |-> kind]
    BY <2>1, <2>2, Posted
  <2> QED
    BY <1>0, <2>3, <2>5, <2>6
<1>8. CASE Ending
  <2>1. posted # <<>> /\ Head(posted).call = "finished"
    BY <1>8 DEF Ending, DeliverFinished, DeliverStaleFinished, DeliverFinishedOfNone, Delivered
  <2>2. 1 \in DOMAIN posted /\ posted[1] = Head(posted) /\ IsFinished(1)
    BY <2>1, Taken
  <2>3. held /\ ~alive /\ posted[1].thread = threads
    BY <1>0, <2>2
  <2>4. DeliverFinished /\ ~DeliverStaleFinished
    BY <1>8, <2>2, <2>3 DEF Ending, DeliverStaleFinished, DeliverFinishedOfNone
  <2>5. held' = FALSE /\ alive' = alive /\ gui' = "loop"
    BY <2>4 DEF DeliverFinished, Delivered
  <2>6. Settled
    <3>1. ~Crash
      BY <2>5 DEF Crash
    <3> QED
      BY <1>8, <3>1, Endings
  <2>7. \A i \in DOMAIN posted : i # 1 => posted[i].call \notin {"finished", "delete"}
    BY <1>0, <2>2, <2>3 DEF ThreadInv
  <2>8. \A i \in DOMAIN Tail(posted) : Tail(posted)[i].call \notin {"finished", "delete"}
    <3>1. \A i \in DOMAIN Tail(posted) :
            i + 1 \in DOMAIN posted /\ Tail(posted)[i] = posted[i + 1] /\ i + 1 # 1
      BY <2>1, Taken
    <3> QED
      BY <2>7, <3>1
  <2>9. \A i \in DOMAIN posted' : posted'[i].call \notin {"finished", "delete"}
    <3>1. [call |-> "show", status |-> status'] \in Calls
      BY DEF Calls
    <3>2. CASE posted' = Tail(posted)
      BY <2>8, <3>2
    <3>3. CASE posted' = Append(Tail(posted), [call |-> "show", status |-> status'])
      <4>1. Tail(posted) \in Seq(Calls)
        BY <2>1, Taken
      <4>2. [call |-> "show", status |-> status'].call \notin {"finished", "delete"}
        OBVIOUS
      <4> QED
        BY <2>8, <3>1, <3>3, <4>1, <4>2, Posted
    <3> QED
      BY <2>4, <2>6, <3>2, <3>3 DEF Settled
  <2> QED
    BY <2>3, <2>5, <2>9
<1>9. CASE DeliverDelete
  <2>1. posted # <<>> /\ Head(posted).call = "delete"
    BY <1>9 DEF DeliverDelete, Delivered
  <2> QED
    BY <1>0, <2>1, Taken
<1>10. CASE DeliverSync \/ DeliverAsk \/ DeliverShow
  <2>1. posted # <<>> /\ posted' = Tail(posted)
    BY <1>10 DEF DeliverSync, DeliverAsk, DeliverShow, Delivered
  <2>2. \A i \in DOMAIN posted' : i + 1 \in DOMAIN posted /\ posted'[i] = posted[i + 1]
    BY <2>1, Taken
  <2>3. UNCHANGED <<gui, page, ready, popup, threads, held, kind, alive>>
    BY <1>10 DEF DeliverSync, DeliverAsk, DeliverShow
  <2> QED
    BY <1>0, <2>2, <2>3
<1> QED
  BY <1>1, <1>2, <1>3, <1>4, <1>5, <1>6, <1>7, <1>8, <1>9, <1>10 DEF Acts, Ending

-----------------------------------------------------------------------------
(* What a status says.                                                     *)

\* A posted call to show a status shows what was said when it was posted.
LEMMA ShownStep ==
  ASSUME TypeOK, TypeOK', ThreadInv, StatusInv, Acts,
         Settled /\ Head(posted).of \in OfRun => Whole(status')
  PROVE  /\ Whole(told')
         /\ \A i \in DOMAIN posted' : posted'[i].call = "show" => Whole(posted'[i].status)
<1> DEFINE Good(q) == \A i \in DOMAIN q : q[i].call = "show" => Whole(q[i].status)
<1>1. Good(posted) /\ posted \in Seq(Calls)
  BY DEF StatusInv, TypeOK
<1>2. ASSUME posted # <<>> PROVE Good(Tail(posted)) /\ Tail(posted) \in Seq(Calls)
  BY <1>1, <1>2, Taken
<1>3. ASSUME NEW q \in Seq(Calls), Good(q), NEW c \in Calls, c.call = "show" => Whole(c.status)
      PROVE  Good(Append(q, c))
  BY <1>3, Posted
<1>4. [call |-> "finished", thread |-> threads, of |-> kind] \in Calls
      /\ [call |-> "sync"] \in Calls /\ [call |-> "ask"] \in Calls
      /\ [call |-> "delete"] \in Calls
      /\ [call |-> "show", status |-> status'] \in Calls
  BY DEF Calls, TypeOK
<1> USE DEF Acts, ClickStart, ClickCancel, ClickClearCache, Quit, ClosePopup, AnswerQuestion,
            CloseStatus, DeliverSync, DeliverAsk, DeliverShow, StartRun,
            StartClearCache, Exit, Begin, SweepConfig, Sized, NextConfig, StagePasses, ConfigEnds,
            EnumerateConfig, EndEnumerationLoop, ClearCache, EndThread, vars, guiVars,
            guiButPosted, threadVars, Delivered, Post
<1>5. Good(posted')
  <2> DEFINE Simple ==
        \/ posted' = posted
        \/ posted' = <<>>
        \/ posted # <<>> /\ posted' = Tail(posted)
        \/ posted' = Append(posted, [call |-> "finished", thread |-> threads, of |-> kind])
        \/ posted' = Append(posted, [call |-> "sync"])
        \/ posted' = Append(posted, [call |-> "ask"])
        \/ posted # <<>> /\ posted' = Append(Tail(posted), [call |-> "delete"])
        \/ /\ posted # <<>> /\ Whole(status')
           /\ posted' = Append(Tail(posted), [call |-> "show", status |-> status'])
  <2>1. Simple \/ (posted # <<>> /\ posted' = Without(Tail(posted), threads))
    <3>1. CASE Ending
      <4>1. CASE Crash
        BY <4>1 DEF Crash
      <4>2. CASE Settled
        BY <4>2 DEF Settled
      <4> QED
        BY <3>1, <4>1, <4>2, Endings
    <3>2. CASE DeliverDelete
      BY <3>2 DEF DeliverDelete, Crash
    <3> QED
      BY <3>1, <3>2 DEF Ending
  <2> HIDE DEF Good
  <2>1a. CASE posted' = <<>>
    BY <2>1a DEF Good
  <2>1b. CASE posted # <<>> /\ posted' = Append(Tail(posted), [call |-> "delete"])
    BY <1>2, <1>3, <1>4, <2>1b
  <2>1c. CASE posted # <<>> /\ posted' = Without(Tail(posted), threads)
    <3>1. PICK f \in [DOMAIN posted' -> DOMAIN posted] :
            \A i \in DOMAIN posted' : posted'[i] = posted[f[i]]
      BY <1>1, <2>1c, Erased
    <3> QED
      BY <1>1, <3>1 DEF Good
  <2>2. CASE posted' = posted
    BY <1>1, <2>2
  <2>3. CASE posted # <<>> /\ posted' = Tail(posted)
    BY <1>2, <2>3
  <2>4. CASE posted' = Append(posted, [call |-> "finished", thread |-> threads, of |-> kind])
    BY <1>1, <1>3, <1>4, <2>4
  <2>5. CASE posted' = Append(posted, [call |-> "sync"])
    BY <1>1, <1>3, <1>4, <2>5
  <2>6. CASE posted' = Append(posted, [call |-> "ask"])
    BY <1>1, <1>3, <1>4, <2>6
  <2>7. CASE /\ posted # <<>> /\ Whole(status')
             /\ posted' = Append(Tail(posted), [call |-> "show", status |-> status'])
    BY <1>2, <1>3, <1>4, <2>7
  <2> QED
    BY <2>1, <2>1a, <2>1b, <2>1c, <2>2, <2>3, <2>4, <2>5, <2>6, <2>7
<1>6. Whole(told')
  <2>1. CASE DeliverShow
    BY <1>1, <2>1, Taken
  <2>2. CASE told' = told
    BY <2>2 DEF StatusInv
  <2>3. CASE Ending \/ DeliverDelete
    BY <2>2, <2>3, Endings DEF DeliverDelete, Crash, Settled
  <2> QED
    BY <2>1, <2>2, <2>3 DEF Ending
<1> QED
  BY <1>5, <1>6

\* As many successes as there are configurations, and no failure, is all of
\* them.
LEMMA AllDone ==
  ASSUME NEW s \in Statuses, Len(s.done) = C, \A i \in DOMAIN s.done : s.done[i]
  PROVE  s.done = [i \in 1 .. C |-> TRUE]
<1>1. s.done \in Seq(BOOLEAN)
  BY DEF Statuses
<1>2. DOMAIN s.done = 1 .. C /\ \A i \in 1 .. C : s.done[i] \in BOOLEAN
  BY <1>1
<1>3. \A i \in 1 .. C : s.done[i] = TRUE
  BY <1>2
<1>4. s.done \in [1 .. C -> BOOLEAN]
  BY <1>1, <1>2, SeqDef
<1>5. s.done = [i \in 1 .. C |-> s.done[i]]
  BY <1>4
<1> QED
  BY <1>3, <1>5, Zenon

LEMMA StatusStep ==
  ASSUME TypeOK, TypeOK', ThreadInv, PlaceInv, StatusInv, Acts
  PROVE  StatusInv'
<1> DEFINE StatusPart ==
      /\ status.success => \A i \in DOMAIN status.done : status.done[i]
      /\ kind = "enumerate" => status.done = <<>>
      /\ page = "realtime" /\ gui # "crashed" =>
           /\ at \in Sweep => status.done = <<>> /\ ~status.success
           /\ at \in {"start", "question"} => config = 1
           /\ at \in {"next"} \cup Stage => Len(status.done) = config - 1
           /\ at = "end" => interrupt \/ Whole(status)
<1> SUFFICES StatusPart' /\ (Settled /\ Head(posted).of \in OfRun => Whole(status'))
  BY ShownStep DEF StatusInv
<1>0. StatusPart
  BY DEF StatusInv
<1> USE DEF TypeOK, OfRun, vars, guiVars, threadVars, guiButPosted, Goto
<1>a. /\ alive /\ kind \in OfRun => page = "realtime"
      /\ page = "realtime" => kind \in OfRun
      /\ gui \in OfRun \cup {"clear"} => page = "start"
  BY DEF ThreadInv
<1>b. ASSUME Ending
      PROVE  StatusPart' /\ (Settled /\ Head(posted).of \in OfRun => Whole(status'))
  <2>1. CASE Crash
    <3>1. /\ gui' = "crashed" /\ status' = status /\ kind' = kind /\ Head(posted).of = Head(posted).of
      BY <2>1 DEF Crash
    <3>2. ~Settled
      BY <3>1 DEF Settled
    <3> QED
      BY <1>0, <3>1, <3>2
  <2>2. CASE Settled /\ Head(posted).of \notin OfRun
    <3>1. UNCHANGED <<gui, page, kind, at, config, interrupt, status>>
      BY <2>2 DEF Settled
    <3> QED
      BY <1>0, <2>2, <3>1
  <2>3. CASE Settled /\ Head(posted).of \in OfRun
    <3>1. /\ posted # <<>> /\ Head(posted).call = "finished" /\ gui = "loop"
          /\ Head(posted).thread = threads /\ page = "realtime" /\ page' = "start" /\ kind' = kind
          /\ status' = [status EXCEPT !.cancelled = @ \/ interrupt]
      BY <2>3 DEF Settled
    <3>2. 1 \in DOMAIN posted /\ posted[1] = Head(posted)
      BY <3>1, Taken
    <3>3. at = "end"
      BY <3>1, <3>2 DEF ThreadInv, IsFinished, PlaceInv
    <3>4. interrupt \/ Whole(status)
      BY <1>0, <3>1, <3>3
    <3>5. status'.success = status.success /\ status'.done = status.done
      BY <3>1 DEF Statuses
    <3>6. (interrupt => status'.cancelled) /\ (status.cancelled => status'.cancelled)
      BY <3>1 DEF Statuses
    <3>7. Whole(status')
      BY <3>4, <3>5, <3>6 DEF Whole, Succeeded
    <3> QED
      BY <1>0, <3>1, <3>5, <3>7
  <2> QED
    BY <1>b, <2>1, <2>2, <2>3, Endings
<1>c. SUFFICES ASSUME ~Ending PROVE StatusPart'
  BY <1>b DEF Settled
<1>1. CASE DeliverDelete
  <2>1. CASE Crash
    BY <1>0, <2>1 DEF Crash
  <2>2. CASE ~Crash
    <3>1. UNCHANGED <<gui, page, kind, at, config, interrupt, status>>
      BY <1>1, <2>2 DEF DeliverDelete
    <3> QED
      BY <1>0, <3>1
  <2> QED
    BY <2>1, <2>2
<1>2. CASE ClickCancel \/ ClickClearCache \/ Quit \/ ClosePopup \/ CloseStatus
             \/ DeliverAsk \/ DeliverShow \/ Exit \/ EndThread \/ ClickStart
             \/ UNCHANGED vars
  <2>1. /\ UNCHANGED <<status, kind, at, config, page>>
        /\ page = "start" \/ (interrupt => interrupt')
        /\ gui = "crashed" => gui' = "crashed"
    BY <1>2 DEF ClickCancel, ClickClearCache, Quit, ClosePopup, CloseStatus, Free,
                DeliverAsk, DeliverShow, Delivered, Exit, EndThread, ClickStart
  <2>2. gui # "crashed" \/ gui' = "crashed"
    BY <2>1
  <2> QED
    BY <1>0, <2>1, <2>2
<1>3. CASE StartRun \/ StartClearCache
  <2>1. at' = "start" /\ config' = 1 /\ kind' # "enumerate"
    BY <1>3 DEF StartRun, StartClearCache, StartThread
  <2>2. CASE StartRun
    BY <2>1, <2>2 DEF StartRun, NewStatus, Stage, Sweep
  <2>3. CASE StartClearCache
    <3>1. status' = status /\ kind' = "clear" /\ page' = "start"
      BY <1>a, <2>3 DEF StartClearCache, StartThread
    <3> QED
      BY <1>0, <3>1
  <2> QED
    BY <1>3, <2>2, <2>3
<1>4. CASE AnswerQuestion
  <2>1. /\ alive /\ page = "realtime" /\ gui # "crashed" /\ at = "question" /\ kind \in OfRun
        /\ kind' = kind /\ page' = page /\ config' = config
    BY <1>a, <1>4 DEF AnswerQuestion, PlaceInv, Sweep
  <2>2. status.done = <<>> /\ config = 1
    BY <1>0, <2>1 DEF Sweep
  <2>3. CASE at' = "next" /\ status' = [status EXCEPT !.success = TRUE]
    <3>1. status'.done = <<>>
      BY <2>2, <2>3 DEF Statuses
    <3> QED
      BY <2>1, <2>2, <2>3, <3>1 DEF Sweep, Stage
  <2>4. CASE at' = "end" /\ status' = [status EXCEPT !.cancelled = TRUE]
    <3>1. status'.done = <<>> /\ status'.cancelled
      BY <2>2, <2>4 DEF Statuses
    <3> QED
      BY <2>1, <2>4, <3>1 DEF Sweep, Stage, Whole, Succeeded
  <2> QED
    BY <1>4, <2>3, <2>4 DEF AnswerQuestion
<1>5. CASE DeliverSync
  <2>1. posted # <<>> /\ Head(posted).call = "sync"
    BY <1>5 DEF DeliverSync, Delivered
  <2>2. at \in {"sync1", "sync2"} /\ alive /\ page = "realtime" /\ gui # "crashed" /\ kind \in OfRun
    BY <1>a, <1>5, <2>1, Taken DEF DeliverSync, Delivered, PlaceInv, Awaits, Sweep
  <2>3. status' = status /\ kind' = kind /\ page' = page /\ at' \in {"sweep", "sized", "end"}
    BY <1>5 DEF DeliverSync
  <2>4. status.done = <<>> /\ ~status.success
    BY <1>0, <2>2 DEF Sweep
  <2> QED
    BY <1>0, <2>2, <2>3, <2>4 DEF Sweep, Stage, Whole, Succeeded
<1>6. CASE Begin
  <2>1. /\ kind \in OfRun => page = "realtime" /\ gui # "crashed"
        /\ page = "realtime" => kind \in OfRun
        /\ alive /\ at = "start" /\ kind' = kind /\ page' = page /\ config' = config
        /\ at' \in {"sizing", "clearing", "sync1", "next"}
    BY <1>a, <1>6 DEF Begin, Worker
  <2>2. CASE /\ status' = [status EXCEPT !.success = TRUE] /\ status.done = <<>>
             /\ at' \in {"sizing", "next"}
    <3>1. status'.done = <<>>
      BY <2>2 DEF Statuses
    <3>2. kind \in OfRun => config = 1 /\ at' = "next"
      BY <1>0, <1>6, <2>1, <2>2 DEF Begin
    <3> QED
      BY <2>1, <2>2, <3>1, <3>2 DEF Sweep, Stage
  <2>3. CASE status' = status /\ at' \notin {"next"}
    BY <1>0, <2>1, <2>3 DEF Sweep, Stage
  <2> QED
    BY <1>0, <1>6, <2>1, <2>2, <2>3 DEF Begin, Sweep
<1>7. CASE SweepConfig \/ Sized
  <2>1. /\ alive /\ page = "realtime" /\ gui # "crashed" /\ at \in {"sweep", "sized"} /\ kind \in OfRun
        /\ kind' = kind /\ page' = page
    BY <1>a, <1>7 DEF SweepConfig, Sized, Worker, PlaceInv, Sweep
  <2>2. status.done = <<>> /\ ~status.success
    BY <1>0, <2>1 DEF Sweep
  <2>3. CASE status' = status /\ at' \in {"sweep", "sync2"}
    BY <2>1, <2>2, <2>3 DEF Sweep, Stage
  <2>4. CASE Sized
    <3>1. config' = 1 /\ status'.done = <<>>
      BY <2>2, <2>4 DEF Sized, Statuses
    <3> QED
      BY <2>1, <2>2, <2>4, <3>1 DEF Sized, Sweep, Stage
  <2> QED
    BY <1>7, <2>1, <2>3, <2>4 DEF SweepConfig
<1>8. CASE NextConfig
  <2>1. /\ alive /\ page = "realtime" /\ gui # "crashed" /\ at = "next" /\ kind \in OfRun /\ status' = status
        /\ kind' = kind /\ page' = page /\ config' = config /\ interrupt' = interrupt
        /\ at' = IF interrupt \/ config > C THEN "end" ELSE "Download"
    BY <1>a, <1>8 DEF NextConfig, Worker, PlaceInv
  <2>2. Len(status.done) = config - 1
    BY <1>0, <2>1
  <2>3. ASSUME config > C, status.success PROVE Whole(status)
    <3>1. Len(status.done) = C
      BY <2>2, <2>3, GuiAssumption
    <3> QED
      BY <1>0, <2>3, <3>1, AllDone DEF Whole
  <2>4. at' = "end" => interrupt \/ Whole(status)
    BY <2>1, <2>3 DEF Whole, Succeeded
  <2> QED
    BY <1>0, <2>1, <2>2, <2>4 DEF Sweep, Stage
<1>9. CASE StagePasses
  BY <1>0, <1>9 DEF StagePasses, Following, Stage, Sweep
<1>10. CASE ConfigEnds
  <2>1. /\ alive /\ page = "realtime" /\ gui # "crashed" /\ at \in Stage /\ at' = "next" /\ kind \in OfRun
        /\ kind' = kind /\ page' = page /\ config' = config + 1
    BY <1>a, <1>10 DEF ConfigEnds, Worker, PlaceInv
  <2>2. PICK good \in BOOLEAN :
          status' = [status EXCEPT !.done = Append(@, good), !.success = @ /\ good]
    BY <1>10 DEF ConfigEnds, EndConfig
  <2>3. status'.done = Append(status.done, good) /\ status.done \in Seq(BOOLEAN)
    BY <2>2 DEF Statuses
  <2>4. status'.success => status.success /\ good
    BY <2>2 DEF Statuses
  <2>5. Len(status.done) = config - 1 /\ Len(status'.done) = config' - 1
    BY <1>0, <2>1, <2>3
  <2>6. status'.success => \A i \in DOMAIN status'.done : status'.done[i]
    BY <1>0, <2>3, <2>4, Posted
  <2> QED
    BY <2>1, <2>5, <2>6 DEF Sweep, Stage
<1>11. CASE EnumerateConfig \/ EndEnumerationLoop
  <2>1. kind = "enumerate" /\ kind' = kind /\ page' = page /\ page # "realtime"
    BY <1>a, <1>11 DEF EnumerateConfig, EndEnumerationLoop, PlaceInv
  <2>2. status'.done = status.done /\ (status'.success => status.success)
    BY <1>11 DEF EnumerateConfig, EndEnumerationLoop, Statuses
  <2> QED
    BY <1>0, <2>1, <2>2
<1>12. CASE ClearCache
  <2>1. kind = "clear" /\ kind' = kind /\ status' = status /\ page' = page /\ page # "realtime"
    BY <1>a, <1>12 DEF ClearCache, PlaceInv
  <2> QED
    BY <1>0, <2>1
<1> QED
  BY <1>c, <1>1, <1>2, <1>3, <1>4, <1>5, <1>6, <1>7, <1>8, <1>9, <1>10, <1>11, <1>12 DEF Acts, Ending

-----------------------------------------------------------------------------
(* The theorems                                                            *)

\* What the three properties rest on: gui/controllers' threads, whatever the
\* user clicks.
THEOREM Invariance == Spec => []IInv
<1>1. IInv /\ [Next]_vars => IInv'
  <2> SUFFICES ASSUME IInv, [Next]_vars PROVE IInv'
    OBVIOUS
  <2>1. TypeOK' /\ PlaceInv' /\ Acts
    BY TypeStep, PlaceStep, Steps DEF IInv
  <2>2. SessionInv' /\ ThreadInv' /\ StatusInv'
    BY <2>1, SessionStep, ThreadStep, StatusStep DEF IInv
  <2> QED
    BY <2>1, <2>2 DEF IInv
<1> QED
  BY InitInv, <1>1, PTL DEF Spec

\* The GUI thread's and the benchmark thread's variables have their types in
\* every state.
THEOREM TypeCorrect == Spec => []TypeOK
<1>1. IInv => TypeOK
  BY DEF IInv
<1> QED
  BY <1>1, Invariance, PTL

\* The finished lambda of BenchmarkController deletes the thread that emitted
\* the signal, never a later one or null.
THEOREM NoneLost == Spec => []NoThreadLost
<1>1. IInv => NoThreadLost
  BY DEF IInv, SessionInv
<1> QED
  BY <1>1, Invariance, PTL

\* A run shown as succeeded has been through all configurations, each with
\* success.
THEOREM SuccessEarned == Spec => []SuccessIsWhole
<1>1. IInv => SuccessIsWhole
  BY DEF IInv, StatusInv, Whole, SuccessIsWhole
<1> QED
  BY <1>1, Invariance, PTL

=============================================================================

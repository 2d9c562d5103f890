---------------------------- MODULE ChunkedDownload ----------------------------
(***************************************************************************)
(* One call of Downloader::operator() for an http(s) URL                   *)
(* (CIL/downloader.cpp).  The file is written to a temporary file that is  *)
(* renamed at the end.  A server that accepts ranges is asked for K chunks *)
(* by K threads, which write into one preallocated file and add what they  *)
(* wrote to one counter; a further thread polls the counter for the        *)
(* progress bar, and its end is part of the end of the download.           *)
(*                                                                         *)
(* A chunk is P pieces, a piece being what one call of the receiver of     *)
(* httplib is given.  A step of a thread is one access to what threads     *)
(* share: the counter, has_failed, stop_download, the file.                *)
(***************************************************************************)
EXTENDS Integers, FiniteSets

CONSTANTS
  K,          \* num_threads
  P,          \* pieces in a chunk
  Retry,      \* tries of a chunk, 5 in the code
  Replies,    \* what a server may answer to a ranged request
  Faults,     \* what may go wrong besides
  MaxTrouble  \* bound on the number of faults and replies other than 206

AllReplies ==
  {"partial",   \* 206 and the range that was asked for
   "refused",   \* another status, with an error page for a body
   "whole"}     \* 200 and the whole file: the server ignores Range

AllFaults ==
  {"open",    \* the destination cannot be opened
   "cut",     \* the connection is lost, or times out, within the body
   "write",   \* a write fails
   "full",    \* a write fails with ENOSPC
   "flush",   \* the buffered end of a chunk cannot be written on close
   "rename"}  \* the temporary file cannot be renamed

ASSUME ChunkAssumption ==
  /\ K \in Nat \ {0} /\ P \in Nat \ {0} /\ Retry \in Nat \ {0}
  /\ Replies \subseteq AllReplies
  /\ Faults \subseteq AllFaults
  /\ MaxTrouble \in Nat

Chunk == 1 .. K
FileSize == K * P
Position == 1 .. FileSize

VARIABLES
  pc,          \* where each chunk's thread is
  tries,       \* i of its retry loop
  reply,       \* the reply it is receiving
  got,         \* its downloaded_size
  outcome,     \* how its Get ended
  progress,    \* the shared counter
  hasFailed,   \* has_failed
  stop,        \* stop_download
  sampler,     \* where the progress thread is
  file,        \* what is at each position of the temporary file
  overrun,     \* the temporary file was written past its end
  main,        \* where the calling thread is
  destination, \* the file is at its destination
  result,      \* what the call returned
  trouble,     \* how much went wrong so far
  honest       \* every reply was 206, and every chunk closed its file

chunkVars == <<pc, tries, reply, got, outcome>>
sharedVars == <<progress, hasFailed, stop>>
fileVars == <<file, overrun, destination>>
mainVars == <<main, result>>
troubleVars == <<trouble, honest>>
vars == <<chunkVars, sharedVars, fileVars, mainVars, sampler, troubleVars>>

TypeOK ==
  /\ pc \in [Chunk -> {"try", "body", "reply", "giveUp", "done"}]
  /\ tries \in [Chunk -> 0 .. Retry - 1]
  /\ reply \in [Chunk -> AllReplies]
  /\ got \in [Chunk -> 0 .. FileSize]
  /\ outcome \in [Chunk -> {"ok", "bad", "full"}]
  /\ progress \in 0 .. K * FileSize
  /\ hasFailed \in BOOLEAN
  /\ stop \in BOOLEAN
  /\ sampler \in {"loop", "sleep", "done"}
  /\ file \in [Position -> {"hole", "right", "wrong"}]
  /\ overrun \in BOOLEAN
  /\ main \in {"head", "chunks", "sampler", "decide", "rename", "returned"}
  /\ destination \in BOOLEAN
  /\ result \in {"none", "true", "false"}
  /\ trouble \in 0 .. MaxTrouble
  /\ honest \in BOOLEAN

Init ==
  /\ pc = [c \in Chunk |-> "try"]
  /\ tries = [c \in Chunk |-> 0]
  /\ reply = [c \in Chunk |-> "partial"]
  /\ got = [c \in Chunk |-> 0]
  /\ outcome = [c \in Chunk |-> "ok"]
  /\ progress = 0
  /\ hasFailed = FALSE
  /\ stop = FALSE
  /\ sampler = "loop"
  /\ file = [p \in Position |-> "hole"]
  /\ overrun = FALSE
  /\ main = "head"
  /\ destination = FALSE
  /\ result = "none"
  /\ trouble = 0
  /\ honest = TRUE

\* A fault is possible and within the bound.
Trouble(isHonest) ==
  trouble < MaxTrouble /\ trouble' = trouble + 1 /\ honest' = (honest /\ isHonest)
Fault(f) == f \in Faults /\ Trouble(f # "flush")

-----------------------------------------------------------------------------
(* The calling thread, up to the threads it starts.                        *)

Return(r) == main' = "returned" /\ result' = r

\* The HEAD request fails or the file cannot be created; or the file is
\* fetched by one stream, which looks at no flag; or the threads are started.
Head ==
  /\ main = "head"
  /\ \/ /\ Return("false")
        /\ UNCHANGED file
     \/ /\ main' = "rename"
        /\ file' = [p \in Position |-> "right"]
        /\ UNCHANGED result
     \/ /\ main' = "chunks"
        /\ UNCHANGED <<file, result>>
  /\ UNCHANGED <<chunkVars, sharedVars, overrun, destination, sampler, troubleVars>>

Running == main \in {"chunks", "sampler"}

-----------------------------------------------------------------------------
(* DownloadChunk.                                                          *)

At(c, l) == Running /\ pc[c] = l

Goto(c, l) == pc' = [pc EXCEPT ![c] = l]

LastTry(c) == tries[c] = Retry - 1

NextTry(c) == Goto(c, "try") /\ tries' = [tries EXCEPT ![c] = @ + 1]

\* Another thread has failed: fail fast.
FailFast(c) ==
  /\ At(c, "try")
  /\ hasFailed
  /\ Goto(c, "done")
  /\ UNCHANGED <<tries, reply, got, outcome, sharedVars, fileVars, mainVars, sampler, troubleVars>>

OpenFails(c) ==
  /\ At(c, "try")
  /\ ~hasFailed
  /\ Fault("open")
  /\ IF LastTry(c) THEN Goto(c, "giveUp") /\ UNCHANGED tries ELSE NextTry(c)
  /\ UNCHANGED <<reply, got, outcome, sharedVars, fileVars, mainVars, sampler>>

Request(c) ==
  /\ At(c, "try")
  /\ ~hasFailed
  /\ \E r \in Replies :
       /\ reply' = [reply EXCEPT ![c] = r]
       /\ IF r = "partial" THEN UNCHANGED troubleVars ELSE Trouble(FALSE)
  /\ got' = [got EXCEPT ![c] = 0]
  /\ Goto(c, "body")
  /\ UNCHANGED <<tries, outcome, sharedVars, fileVars, mainVars, sampler>>

BodyLength(r) == IF r = "whole" THEN FileSize ELSE P

\* Where the next piece of the body goes, whatever the status says, and
\* whether it is what belongs there.
Target(c) == (c - 1) * P + got[c] + 1

Content(c) ==
  IF reply[c] = "partial" \/ (reply[c] = "whole" /\ Target(c) = got[c] + 1)
  THEN "right" ELSE "wrong"

\* The receiver is given a piece: it writes and counts it.
Receive(c) ==
  /\ At(c, "body")
  /\ got[c] < BodyLength(reply[c])
  /\ ~stop
  /\ IF Target(c) \in Position
     THEN file' = [file EXCEPT ![Target(c)] = Content(c)] /\ UNCHANGED overrun
     ELSE overrun' = TRUE /\ UNCHANGED file
  /\ got' = [got EXCEPT ![c] = @ + 1]
  /\ progress' = progress + 1
  /\ UNCHANGED <<pc, tries, reply, outcome, hasFailed, stop, destination, mainVars, sampler, troubleVars>>

EndGet(c, o) ==
  /\ Goto(c, "reply")
  /\ outcome' = [outcome EXCEPT ![c] = o]
  /\ UNCHANGED <<tries, reply, got, sharedVars, fileVars, mainVars, sampler>>

\* Get ends: with the whole reply, an error page being of any length; because
\* the receiver saw stop_download; or because of a fault.
Reply(c) ==
  /\ At(c, "body")
  /\ got[c] = BodyLength(reply[c]) \/ reply[c] = "refused"
  /\ EndGet(c, IF reply[c] = "partial" THEN "ok" ELSE "bad")
  /\ UNCHANGED troubleVars

ReceiverStops(c) ==
  /\ At(c, "body")
  /\ got[c] < BodyLength(reply[c])
  /\ stop
  /\ EndGet(c, "bad")
  /\ UNCHANGED troubleVars

GetFails(c) ==
  /\ At(c, "body")
  /\ got[c] < BodyLength(reply[c])
  /\ \/ Fault("cut") /\ EndGet(c, "bad")
     \/ Fault("write") /\ EndGet(c, "bad")
     \/ Fault("full") /\ EndGet(c, "full")

\* The chunk is here; closing the file writes what is still buffered, and
\* nobody looks whether it could.
Complete(c) ==
  /\ At(c, "reply")
  /\ outcome[c] = "ok"
  /\ Goto(c, "done")
  /\ \/ UNCHANGED <<file, troubleVars>>
     \/ Fault("flush") /\ file' = [file EXCEPT ![c * P] = "hole"]
  /\ UNCHANGED <<tries, reply, got, outcome, sharedVars, overrun, destination, mainVars, sampler>>

\* Variant: what the failed try wrote stays counted.
Revert_NotCounted(c) ==
  /\ At(c, "reply")
  /\ outcome[c] # "ok"
  /\ got' = [got EXCEPT ![c] = 0]
  /\ \/ outcome[c] = "full" /\ Goto(c, "giveUp") /\ UNCHANGED tries
     \/ outcome[c] = "bad" /\ ~LastTry(c) /\ NextTry(c)
     \/ outcome[c] = "bad" /\ LastTry(c) /\ Goto(c, "done") /\ UNCHANGED tries
  /\ UNCHANGED <<reply, outcome, sharedVars, fileVars, mainVars, sampler, troubleVars>>

\* Variant: the retry loop runs once more than it should.
Revert_OneTryMore(c) ==
  /\ At(c, "reply")
  /\ outcome[c] # "ok"
  /\ progress' = progress - got[c]
  /\ got' = [got EXCEPT ![c] = 0]
  /\ \/ outcome[c] = "full" /\ Goto(c, "giveUp") /\ UNCHANGED tries
     \/ outcome[c] = "bad" /\ NextTry(c)
  /\ UNCHANGED <<reply, outcome, hasFailed, stop, fileVars, mainVars, sampler, troubleVars>>

\* The try failed: take its bytes off the counter; then give up on a full
\* disk, try again, or, after the last try, just return.
Revert(c) ==
  /\ At(c, "reply")
  /\ outcome[c] # "ok"
  /\ progress' = progress - got[c]
  /\ got' = [got EXCEPT ![c] = 0]
  /\ \/ outcome[c] = "full" /\ Goto(c, "giveUp") /\ UNCHANGED tries
     \/ outcome[c] = "bad" /\ ~LastTry(c) /\ NextTry(c)
     \/ outcome[c] = "bad" /\ LastTry(c) /\ Goto(c, "done") /\ UNCHANGED tries
  /\ UNCHANGED <<reply, outcome, hasFailed, stop, fileVars, mainVars, sampler, troubleVars>>

\* Variant: the thread that gives up tells nobody.
GiveUp_Silently(c) ==
  /\ At(c, "giveUp")
  /\ Goto(c, "done")
  /\ UNCHANGED <<tries, reply, got, outcome, sharedVars, fileVars, mainVars, sampler, troubleVars>>

GiveUp(c) ==
  /\ At(c, "giveUp")
  /\ hasFailed' = TRUE
  /\ Goto(c, "done")
  /\ UNCHANGED <<tries, reply, got, outcome, progress, stop, fileVars, mainVars, sampler, troubleVars>>

DownloadChunk(c) ==
  \/ FailFast(c) \/ OpenFails(c) \/ Request(c)
  \/ Receive(c) \/ Reply(c) \/ ReceiverStops(c) \/ GetFails(c)
  \/ Complete(c) \/ Revert(c) \/ GiveUp(c)

-----------------------------------------------------------------------------
(* The progress thread.                                                    *)

\* Variant: the progress thread does not look at stop_download.
Sample_StopUnseen ==
  /\ Running
  /\ sampler = "loop"
  /\ sampler' = IF progress < FileSize /\ ~hasFailed THEN "sleep" ELSE "done"
  /\ UNCHANGED <<chunkVars, sharedVars, fileVars, mainVars, troubleVars>>

Sample ==
  /\ Running
  /\ sampler = "loop"
  /\ sampler' = IF progress < FileSize /\ ~hasFailed /\ ~stop THEN "sleep" ELSE "done"
  /\ UNCHANGED <<chunkVars, sharedVars, fileVars, mainVars, troubleVars>>

Notify ==
  /\ sampler = "sleep"
  /\ sampler' = "loop"
  /\ UNCHANGED <<chunkVars, sharedVars, fileVars, mainVars, troubleVars>>

-----------------------------------------------------------------------------
(* The calling thread, after the threads.                                  *)

JoinChunks ==
  /\ main = "chunks"
  /\ \A c \in Chunk : pc[c] = "done"
  /\ main' = "sampler"
  /\ UNCHANGED <<chunkVars, sharedVars, fileVars, result, sampler, troubleVars>>

JoinSampler ==
  /\ main = "sampler"
  /\ sampler = "done"
  /\ main' = "decide"
  /\ UNCHANGED <<chunkVars, sharedVars, fileVars, result, sampler, troubleVars>>

\* Variant: only has_failed makes the download fail.
Decide_StopForgotten ==
  /\ main = "decide"
  /\ IF hasFailed THEN Return("false") ELSE main' = "rename" /\ UNCHANGED result
  /\ UNCHANGED <<chunkVars, sharedVars, fileVars, sampler, troubleVars>>

Decide ==
  /\ main = "decide"
  /\ IF hasFailed \/ stop THEN Return("false") ELSE main' = "rename" /\ UNCHANGED result
  /\ UNCHANGED <<chunkVars, sharedVars, fileVars, sampler, troubleVars>>

Rename ==
  /\ main = "rename"
  /\ \/ /\ destination' = TRUE
        /\ Return("true")
        /\ UNCHANGED troubleVars
     \/ /\ Fault("rename")
        /\ Return("false")
        /\ UNCHANGED destination
  /\ UNCHANGED <<chunkVars, sharedVars, file, overrun, sampler>>

\* Storage::StopDownload, from the thread that cancels the tasks.
StopDownload ==
  /\ main # "returned"
  /\ ~stop
  /\ stop' = TRUE
  /\ UNCHANGED <<chunkVars, progress, hasFailed, fileVars, mainVars, sampler, troubleVars>>

-----------------------------------------------------------------------------
Sampler == Sample \/ Notify
Caller == Head \/ JoinChunks \/ JoinSampler \/ Decide \/ Rename

Terminated == main = "returned" /\ UNCHANGED vars

Next ==
  \/ \E c \in Chunk : DownloadChunk(c)
  \/ Sampler \/ Caller \/ StopDownload \/ Terminated

Spec == Init /\ [][Next]_vars

\* The threads are scheduled, and the timeouts of httplib (60 s to connect and
\* to read) end every exchange; nobody has to stop the download.
FairSpec ==
  /\ Spec
  /\ \A c \in Chunk : WF_vars(DownloadChunk(c))
  /\ WF_vars(Sampler)
  /\ WF_vars(Caller)

-----------------------------------------------------------------------------
(* Properties.                                                             *)

\* downloader.h: "@return True if the file is downloaded successfully, false
\* otherwise".  The destination is what later runs find in the cache: it only
\* ever holds the whole file, every chunk in its place.
DestinationIsComplete ==
  destination => ~overrun /\ \A p \in Position : file[p] = "right"

\* The bytes shown as downloaded are in the file: retries and failed chunks
\* are taken off the counter before they are fetched again.
ProgressIsBacked ==
  main # "head" => progress <= Cardinality({p \in Position : file[p] = "right"})

\* As long as the server honours ranges and every chunk's file could be closed,
\* nothing is counted and nothing is kept that is not there.
FileIsAsTold == honest => DestinationIsComplete /\ ProgressIsBacked

\* A chunk whose last try failed just ends (downloader.cpp:207): its bytes are
\* never counted, and the progress thread may wait for them for ever.
Exhausted(c) == pc[c] = "done" /\ outcome[c] = "bad"

\* The call returns, whichever chunk fails and whatever is answered, unless a
\* chunk has used up its tries.
Returns == <>(main = "returned" \/ \E c \in Chunk : Exhausted(c))

\* A download that was told to stop ends, whatever the server does.
StopEndsCall == stop ~> (main = "returned")

\* The call ends, of itself and when it is told to.
CallEnds == Returns /\ StopEndsCall

=============================================================================

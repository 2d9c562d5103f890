------------------------------- MODULE Unpacking -------------------------------
(***************************************************************************)
(* The Unpacker (CIL/unpacker.cpp): archives that were downloaded are      *)
(* unpacked beside themselves, and what is built into the program is       *)
(* written to the dependencies directory.                                  *)
(*                                                                         *)
(* UnpackFilesFromZIP gives the work to a detached thread and waits for it *)
(* with a timeout.  When the timeout strikes the call returns nothing, but *)
(* the thread works on, and the next call starts another one over the same *)
(* files.  A process that ends takes its threads with it and leaves the    *)
(* files as they are; the next one may be a new version with another       *)
(* archive.  Whether a file is already there is told by its size alone.    *)
(*                                                                         *)
(* A file is a sequence of pieces, each of them of some version, or a hole *)
(* that was never written.  An absent file and an empty one are the same.  *)
(* The build is the POSIX one: on Windows the shell is tried when minizip  *)
(* fails.                                                                  *)
(***************************************************************************)
EXTENDS Naturals, FiniteSets, Sequences

CONSTANTS
  N,          \* entries of an archive that are files
  V,          \* versions of the program
  Size,       \* Size[v][e]: pieces of entry e in the archive of version v
  AssetSize,  \* AssetSize[v]: pieces of the built-in file of version v
  MaxCalls,   \* bound: calls of UnpackFilesFromZIP in one process
  MaxTimeouts,\* bound: timeouts in one process
  MaxLost,    \* bound: streams that fail for want of space
  MaxExits    \* bound: ends of a process

Entry == 1 .. N
Version == 1 .. V
Worker == 1 .. MaxCalls

ASSUME UnpackingAssumption ==
  /\ N \in Nat \ {0} /\ V \in Nat \ {0}
  /\ Size \in [Version -> [Entry -> Nat \ {0}]]
  /\ AssetSize \in [Version -> Nat \ {0}]
  /\ MaxCalls \in Nat /\ MaxTimeouts \in Nat /\ MaxLost \in Nat /\ MaxExits \in Nat

VARIABLES
  version,   \* of the running program, or of the one that ran last
  files,     \* what the entries' files hold
  asset,     \* what the built-in file holds on disk
  main,      \* where the calling thread is
  unpacked,  \* the asset is in unpacked_files_
  written,   \* pieces of the asset handed to its stream
  good,      \* the asset's stream has not failed
  workers,   \* the threads that unpack
  calls,     \* threads started by this process
  result,    \* what the last call returned
  timeouts, lost, exits,
  clean,     \* no file was lost or left unfinished since a thread began alone
  alone,     \* every thread at work began when no other one was
  scarred    \* of several threads over one file one did not finish

assetVars == <<asset, unpacked, written, good>>
zipVars == <<files, workers, calls, timeouts>>
processVars == <<version, exits>>
faultVars == <<lost, clean, alone, scarred>>
vars == <<main, result, assetVars, zipVars, processVars, faultVars>>

Hole == 0
Idle == [at |-> "none", entry |-> 1, got |-> 0, good |-> TRUE]
AllWhole(v, n) == [i \in 1 .. n |-> v]

Places == {"none", "examine", "open", "write", "done", "failed"}
Pieces == {Hole} \cup Version

TypeOK ==
  /\ version \in Version
  /\ files \in [Entry -> Seq(Pieces)]
  /\ \A e \in Entry : \E v \in Version : Len(files[e]) <= Size[v][e]
  /\ asset \in Seq(Version)
  /\ \E v \in Version : Len(asset) <= AssetSize[v]
  /\ main \in {"off", "idle", "extract", "wait"}
  /\ unpacked \in BOOLEAN /\ good \in BOOLEAN /\ scarred \in BOOLEAN /\ clean \in BOOLEAN /\ alone \in BOOLEAN
  /\ written \in 0 .. AssetSize[version]
  /\ workers \in [Worker -> [at : Places, entry : Entry, got : Nat, good : BOOLEAN]]
  /\ calls \in 0 .. MaxCalls
  /\ result \in {"none", "files", "nothing", "true", "false"}
  /\ timeouts \in 0 .. MaxTimeouts /\ lost \in 0 .. MaxLost /\ exits \in 0 .. MaxExits

Init ==
  /\ version = 1 /\ main = "off"
  /\ files = [e \in Entry |-> <<>>]
  /\ asset = <<>> /\ unpacked = FALSE /\ written = 0 /\ good = TRUE
  /\ workers = [w \in Worker |-> Idle]
  /\ calls = 0 /\ result = "none"
  /\ timeouts = 0 /\ lost = 0 /\ exits = 0 /\ scarred = FALSE /\ clean = TRUE /\ alone = TRUE

Alive(w) == workers[w].at \in {"examine", "open", "write"}
Busy == {w \in Worker : Alive(w)}

\* The stream of a file fails and swallows all that follows.
Loses == lost < MaxLost /\ lost' = lost + 1

\* A file that was emptied does not get all of its contents.
Unfinished == clean' = FALSE /\ scarred' = (scarred \/ ~alone)

-----------------------------------------------------------------------------
(* The process.                                                            *)

\* A program starts, the one that ran before or a newer one.
Start ==
  /\ main = "off"
  /\ main' = "idle"
  /\ version' \in version .. V
  /\ UNCHANGED <<result, assetVars, zipVars, exits, faultVars>>

\* It quits or dies; minizip's negative error code, taken as a length of what
\* was read, is among the ways to die.
End ==
  /\ main # "off" /\ exits < MaxExits
  /\ main' = "off" /\ exits' = exits + 1
  /\ scarred' = (scarred \/ (Busy # {} /\ ~alone)) /\ alone' = TRUE
  /\ unpacked' = FALSE /\ written' = 0 /\ good' = TRUE
  /\ workers' = [w \in Worker |-> Idle]
  /\ calls' = 0 /\ result' = "none" /\ timeouts' = 0
  /\ UNCHANGED <<version, files, asset, lost, clean>>

-----------------------------------------------------------------------------
(* UnpackAsset and ExtractFileFromMemory.                                  *)

\* Variant: a file that is there is taken to be the one wanted.
UnpackAsset_ByName(forced) ==
  /\ main = "idle"
  /\ IF (~forced /\ unpacked) \/ asset # <<>>
     THEN /\ result' = "true" /\ unpacked' = TRUE
          /\ UNCHANGED <<main, asset, written, good>>
     ELSE /\ main' = "extract" /\ result' = "none"
          /\ asset' = <<>> /\ written' = 0 /\ good' = TRUE
          /\ UNCHANGED unpacked
  /\ UNCHANGED <<zipVars, processVars, faultVars>>

\* A file of this process, or of the right size, is left alone; another one is
\* emptied and written, unless it cannot be created.
UnpackAsset(forced) ==
  /\ main = "idle"
  /\ IF (~forced /\ unpacked) \/ Len(asset) = AssetSize[version]
     THEN /\ result' = "true" /\ unpacked' = TRUE
          /\ UNCHANGED <<main, asset, written, good>>
     ELSE \/ /\ main' = "extract" /\ result' = "none"
             /\ asset' = <<>> /\ written' = 0 /\ good' = TRUE
             /\ UNCHANGED unpacked
          \/ /\ result' = "false"
             /\ UNCHANGED <<main, asset, written, good, unpacked>>
  /\ UNCHANGED <<zipVars, processVars, faultVars>>

\* What is handed to the stream is counted, whether it gets to the file or not.
ExtractPart ==
  /\ main = "extract" /\ written < AssetSize[version]
  /\ written' = written + 1
  /\ \/ good /\ asset' = Append(asset, version) /\ UNCHANGED <<good, lost>>
     \/ good /\ Loses /\ good' = FALSE /\ UNCHANGED asset
     \/ ~good /\ UNCHANGED <<asset, good, lost>>
  /\ UNCHANGED <<main, result, unpacked, zipVars, processVars, clean, alone, scarred>>

ExtractEnd ==
  /\ main = "extract" /\ written = AssetSize[version]
  /\ main' = "idle" /\ result' = "true" /\ unpacked' = TRUE /\ written' = 0
  /\ UNCHANGED <<asset, good, zipVars, processVars, faultVars>>

-----------------------------------------------------------------------------
(* UnpackFilesFromZIP, the calling thread.                                 *)

\* There is no archive, it is empty, its contents are too large for the disk,
\* or the thread that adds up their sizes comes too late.
Refuse ==
  /\ main = "idle" /\ result' = "nothing"
  /\ UNCHANGED <<main, assetVars, files, workers, calls, timeouts, processVars, faultVars>>

StartWorker ==
  /\ main = "idle" /\ calls < MaxCalls
  /\ main' = "wait" /\ calls' = calls + 1 /\ result' = "none"
  /\ workers' = [workers EXCEPT ![calls + 1].at = "examine"]
  /\ clean' = (clean \/ Busy = {}) /\ alone' = (Busy = {})
  /\ UNCHANGED <<assetVars, files, timeouts, processVars, lost, scarred>>

WorkerAnswers ==
  /\ main = "wait" /\ ~Alive(calls)
  /\ main' = "idle"
  /\ result' = IF workers[calls].at = "done" THEN "files" ELSE "nothing"
  /\ UNCHANGED <<assetVars, files, workers, calls, timeouts, processVars, faultVars>>

WaitTimesOut ==
  /\ main = "wait" /\ Alive(calls) /\ timeouts < MaxTimeouts
  /\ main' = "idle" /\ result' = "nothing" /\ timeouts' = timeouts + 1
  /\ UNCHANGED <<assetVars, files, workers, calls, processVars, faultVars>>

-----------------------------------------------------------------------------
(* UnZipUsingMinizip, a detached thread.                                   *)

At(w, place) == workers[w].at = place
Goto(w, place) == workers' = [workers EXCEPT ![w].at = place]
Wanted(w) == Size[version][workers[w].entry]
WorkerOnly == UNCHANGED <<main, result, assetVars, calls, timeouts, processVars>>

NextEntry(w) ==
  IF workers[w].entry = N
  THEN Goto(w, "done")
  ELSE workers' = [workers EXCEPT ![w].at = "examine", ![w].entry = @ + 1]

\* Variant: every file is written again.
Examine_Always(w) ==
  /\ At(w, "examine")
  /\ Goto(w, "open")
  /\ UNCHANGED <<files, faultVars>> /\ WorkerOnly

\* Variant: a file that is there is taken to be whole.
Examine_ByName(w) ==
  /\ At(w, "examine")
  /\ IF files[workers[w].entry] # <<>> THEN NextEntry(w) ELSE Goto(w, "open")
  /\ UNCHANGED <<files, faultVars>> /\ WorkerOnly

\* A file of the entry's size is skipped.
Examine(w) ==
  /\ At(w, "examine")
  /\ IF Len(files[workers[w].entry]) = Wanted(w) THEN NextEntry(w) ELSE Goto(w, "open")
  /\ UNCHANGED <<files, faultVars>> /\ WorkerOnly

\* Opening the file empties it.
OpenFile(w) ==
  /\ At(w, "open")
  /\ files' = [files EXCEPT ![workers[w].entry] = <<>>]
  /\ workers' = [workers EXCEPT ![w].at = "write", ![w].got = 0, ![w].good = TRUE]
  /\ UNCHANGED faultVars /\ WorkerOnly

\* A directory, a file or an entry cannot be opened, there is no room for it,
\* or the entry is shorter than it says.
EntryFails(w) ==
  /\ Alive(w)
  /\ Goto(w, "failed")
  /\ IF At(w, "write") THEN Unfinished ELSE UNCHANGED <<clean, scarred>>
  /\ UNCHANGED <<files, lost, alone>> /\ WorkerOnly

Put(file, p, v) ==
  [i \in 1 .. (IF p > Len(file) THEN p ELSE Len(file)) |->
     IF i = p THEN v ELSE IF i \in DOMAIN file THEN file[i] ELSE Hole]

\* Variant: reading goes on past the entry's end.
WritePiece_OneMore(w) ==
  /\ At(w, "write") /\ workers[w].got <= Wanted(w)
  /\ files' = [files EXCEPT ![workers[w].entry] = Put(@, workers[w].got + 1, version)]
  /\ workers' = [workers EXCEPT ![w].got = @ + 1]
  /\ UNCHANGED faultVars
  /\ WorkerOnly

\* A piece is read, and written at this thread's place in the file.
WritePiece(w) ==
  /\ At(w, "write") /\ workers[w].got < Wanted(w)
  /\ \/ /\ workers[w].good
        /\ files' = [files EXCEPT ![workers[w].entry] = Put(@, workers[w].got + 1, version)]
        /\ workers' = [workers EXCEPT ![w].got = @ + 1]
        /\ UNCHANGED faultVars
     \/ /\ workers[w].good /\ Loses /\ Unfinished
        /\ workers' = [workers EXCEPT ![w].got = @ + 1, ![w].good = FALSE]
        /\ UNCHANGED <<files, alone>>
     \/ /\ ~workers[w].good
        /\ workers' = [workers EXCEPT ![w].got = @ + 1]
        /\ UNCHANGED <<files, faultVars>>
  /\ WorkerOnly

\* As much was read as the entry has; what was written is not looked at.
CloseFile(w) ==
  /\ At(w, "write") /\ workers[w].got = Wanted(w)
  /\ NextEntry(w)
  /\ UNCHANGED <<files, faultVars>> /\ WorkerOnly

-----------------------------------------------------------------------------
Unzip(w) ==
  Examine(w) \/ OpenFile(w) \/ EntryFails(w) \/ WritePiece(w) \/ CloseFile(w)

Next ==
  \/ Start \/ End
  \/ (\E forced \in BOOLEAN : UnpackAsset(forced)) \/ ExtractPart \/ ExtractEnd
  \/ Refuse \/ StartWorker \/ WorkerAnswers \/ WaitTimesOut
  \/ \E w \in Worker : Unzip(w)

Spec == Init /\ [][Next]_vars

-----------------------------------------------------------------------------
(* Properties.                                                             *)

\* Nothing but the size is compared: what an earlier version left, whole or
\* not, stays if it happens to be as long as the file that is wanted.
WholeFor(file, size) == \E v \in 1 .. version : file = AllWhole(v, size)

\* unpacker.h: "This method will extract all the files from the ZIP file".
\* When UnpackFilesFromZIP has returned files they are whole, whatever earlier
\* calls, timeouts and dead processes left of them: as soon as no thread of an
\* earlier call is still at work, unless one of them left a file unfinished.
\* When one of several threads does so the file may have the right size and a
\* hole, and no later call mends it (scarred).
ArchiveIsWhole ==
  (/\ main = "idle" /\ result = "files"
   /\ Busy = {} /\ clean /\ ~scarred)
  => \A e \in Entry : WholeFor(files[e], Size[version][e])

\* The same of a built-in file, of which a comment says "A file already present
\* at the embedded blob's exact size is byte-identical" (unpacker.cpp:1108).
AssetIsWhole ==
  main = "idle" /\ result = "true" /\ good => WholeFor(asset, AssetSize[version])

UnpackedIsWhole == ArchiveIsWhole /\ AssetIsWhole

\* Unpacking is "idempotent if already extracted" (download_stage.cpp:195): a
\* thread that has the files to itself never touches one that is whole.
LeavesWholeAlone ==
  [][\A e \in Entry :
       /\ alone /\ Cardinality(Busy) = 1
       /\ files[e] = AllWhole(version, Size[version][e])
       => files'[e] = files[e]]_vars

=============================================================================

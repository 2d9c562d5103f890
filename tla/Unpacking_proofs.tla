---------------------------- MODULE Unpacking_proofs ----------------------------
(***************************************************************************)
(* Theorems about Unpacking, for archives of any number of files and of    *)
(* any sizes, any number of versions, and any number of threads that were  *)
(* left behind by a timeout and unpack over each other.                    *)
(***************************************************************************)
EXTENDS Unpacking, SequenceTheorems, TLAPS

-----------------------------------------------------------------------------
(* The inductive invariant.                                                *)

\* Where the calling thread is tells what there is of threads and of the asset.
ProcessInv ==
  /\ main = "off" => calls = 0 /\ ~unpacked /\ written = 0 /\ result = "none"
  /\ main = "wait" => calls > 0
  /\ result = "files" => calls > 0 /\ workers[calls].at = "done"
  /\ result = "true" => unpacked
  /\ \A w \in Worker : w > calls => workers[w] = Idle

\* What is on disk of the built-in file is of one version; the process that
\* listed it either finds it long enough or lost a part of it.
AssetInv ==
  /\ \E v \in 1 .. version : \A p \in 1 .. Len(asset) : asset[p] = v
  /\ main = "extract" =>
       /\ \A p \in 1 .. Len(asset) : asset[p] = version
       /\ Len(asset) <= written
       /\ good => Len(asset) = written
  /\ unpacked /\ good /\ main # "extract" => Len(asset) = AssetSize[version]

Writes(w, e) == At(w, "write") /\ workers[w].entry = e
Present(e, p) == p <= Len(files[e]) /\ files[e][p] # Hole

\* A thread has yet to come to this piece of the file.
Due(e, p) == \E w \in Worker : Writes(w, e) /\ workers[w].good /\ workers[w].got < p

\* The last thread found the file long enough or wrote it.
Passed(e) ==
  /\ calls > 0
  /\ At(calls, "done") \/ (Alive(calls) /\ e < workers[calls].entry)

\* A file is of one version, and of the running one while it is written.
VersionInv ==
  /\ \A e \in Entry : \E v \in 1 .. version : \A p \in 1 .. Len(files[e]) : files[e][p] \in {Hole, v}
  /\ \A w \in Worker : At(w, "write") =>
       /\ workers[w].got <= Wanted(w) /\ Len(files[workers[w].entry]) <= Wanted(w)
       /\ \A p \in 1 .. Len(files[workers[w].entry]) : files[workers[w].entry][p] \in {Hole, version}

\* A thread that is alone knows the file that it writes.
AloneInv ==
  alone =>
    /\ \A w1, w2 \in Worker : Alive(w1) /\ Alive(w2) => w1 = w2
    /\ \A w \in Worker : At(w, "open") => Len(files[workers[w].entry]) # Wanted(w)
    /\ \A w \in Worker : At(w, "write") /\ workers[w].good =>
         Len(files[workers[w].entry]) = workers[w].got

CleanInv == clean => \A w \in Worker : At(w, "write") => workers[w].good

\* Every hole, every piece that a thread has behind it and that is not there
\* any more, is one that another thread has before it.
HoleInv ==
  ~scarred =>
    /\ \A e \in Entry : \A p \in 1 .. Len(files[e]) : Present(e, p) \/ Due(e, p)
    /\ \A w \in Worker : At(w, "write") /\ workers[w].good =>
         \A p \in 1 .. workers[w].got : Present(workers[w].entry, p) \/ Due(workers[w].entry, p)

\* So it is with all pieces of the files that the last thread has behind it.
PassedInv ==
  clean /\ ~scarred =>
    \A e \in Entry : Passed(e) =>
      /\ Len(files[e]) <= Size[version][e]
      /\ \A p \in 1 .. Size[version][e] : Present(e, p) \/ Due(e, p)

FileInv == VersionInv /\ AloneInv /\ CleanInv /\ HoleInv /\ PassedInv

IInv == TypeOK /\ ProcessInv /\ AssetInv /\ FileInv

-----------------------------------------------------------------------------
(* Files.                                                                  *)

LEMMA Constants ==
  /\ N \in Nat /\ N > 0 /\ V \in Nat /\ V > 0 /\ MaxCalls \in Nat
  /\ 1 \in Entry /\ 1 \in Version
  /\ \A v \in Version : AssetSize[v] \in Nat \ {0}
  /\ \A v \in Version, e \in Entry : Size[v][e] \in Nat \ {0}
  BY UnpackingAssumption DEF Entry, Version

LEMMA InitInv == Init => IInv
<1> SUFFICES ASSUME Init PROVE IInv
  OBVIOUS
<1> USE Constants DEF Init
<1>1. <<>> \in Seq(Pieces) /\ <<>> \in Seq(Version) /\ Len(<<>>) = 0
  OBVIOUS
<1>2. Idle \in [at : Places, entry : Entry, got : Nat, good : BOOLEAN]
  BY DEF Idle, Places
<1>3. \A w \in Worker : workers[w] = Idle /\ At(w, "none")
  BY DEF Idle, At
<1>3a. \A e \in Entry : files[e] = <<>> /\ Len(files[e]) <= Size[1][e]
  BY <1>1
<1>3b. files \in [Entry -> Seq(Pieces)]
  BY <1>1
<1>3c. workers \in [Worker -> [at : Places, entry : Entry, got : Nat, good : BOOLEAN]]
  BY <1>2
<1>3d. Len(asset) <= AssetSize[1] /\ written \in 0 .. AssetSize[version]
  BY <1>1
<1>3e. calls \in 0 .. MaxCalls /\ timeouts \in 0 .. MaxTimeouts /\ lost \in 0 .. MaxLost
       /\ exits \in 0 .. MaxExits
  BY UnpackingAssumption
<1>4. TypeOK
  BY <1>1, <1>3a, <1>3b, <1>3c, <1>3d, <1>3e DEF TypeOK
<1>5. ProcessInv
  BY <1>3 DEF ProcessInv
<1>6. AssetInv
  BY <1>1 DEF AssetInv, Version
<1>7. FileInv
  <2>1. VersionInv
    BY <1>1, <1>3 DEF VersionInv, At
  <2>2. AloneInv /\ CleanInv
    BY <1>3 DEF AloneInv, CleanInv, At, Alive
  <2>3. HoleInv
    BY <1>1, <1>3 DEF HoleInv, At
  <2>4. PassedInv
    BY DEF PassedInv, Passed
  <2> QED
    BY <2>1, <2>2, <2>3, <2>4 DEF FileInv
<1> QED
  BY <1>4, <1>5, <1>6, <1>7 DEF IInv

-----------------------------------------------------------------------------
(* Threads, and what a step of one of them does to the others: nothing.    *)

Threads == [at : Places, entry : Entry, got : Nat, good : BOOLEAN]

LEMMA Typed ==
  ASSUME TypeOK
  PROVE  /\ version \in Version /\ version \in Nat /\ version > 0
         /\ AssetSize[version] \in Nat \ {0}
         /\ \A e \in Entry : Size[version][e] \in Nat \ {0}
         /\ \A e \in Entry : files[e] \in Seq(Pieces) /\ Len(files[e]) \in Nat
         /\ \A w \in Worker :
              /\ workers[w] \in Threads /\ workers[w].entry \in Entry
              /\ workers[w].got \in Nat /\ workers[w].good \in BOOLEAN
              /\ Wanted(w) \in Nat \ {0} /\ Len(files[workers[w].entry]) \in Nat
         /\ calls \in Nat /\ (calls > 0 => calls \in Worker)
<1> USE DEF TypeOK
<1>1. version \in Version /\ version \in Nat /\ version > 0
  BY Constants DEF Version
<1>2. AssetSize[version] \in Nat \ {0} /\ \A e \in Entry : Size[version][e] \in Nat \ {0}
  BY Constants, <1>1
<1>3. \A e \in Entry : files[e] \in Seq(Pieces)
  BY Zenon
<1>4. \A e \in Entry : Len(files[e]) \in Nat
  BY <1>3, LenProperties
<1>5. \A w \in Worker :
        /\ workers[w] \in Threads /\ workers[w].entry \in Entry
        /\ workers[w].got \in Nat /\ workers[w].good \in BOOLEAN
  BY DEF Threads
<1>6. \A w \in Worker : Wanted(w) \in Nat \ {0} /\ Len(files[workers[w].entry]) \in Nat
  BY <1>2, <1>4, <1>5 DEF Wanted
<1>7. calls \in Nat /\ (calls > 0 => calls \in Worker)
  BY Constants DEF Worker
<1> QED
  BY <1>1, <1>2, <1>3, <1>4, <1>5, <1>6, <1>7

\* What a thread does to itself.
Becomes(w, at, entry, got, ok) ==
  /\ workers' \in [Worker -> Threads]
  /\ workers'[w].at = at /\ workers'[w].entry = entry
  /\ workers'[w].got = got /\ workers'[w].good = ok
  /\ \A x \in Worker : x # w => workers'[x] = workers[x]

Advances(w) ==
  IF workers[w].entry = N
  THEN Becomes(w, "done", workers[w].entry, workers[w].got, workers[w].good)
  ELSE Becomes(w, "examine", workers[w].entry + 1, workers[w].got, workers[w].good)

LEMMA GoesTo ==
  ASSUME TypeOK, NEW w \in Worker, NEW place \in Places, Goto(w, place)
  PROVE  Becomes(w, place, workers[w].entry, workers[w].got, workers[w].good)
  BY DEF TypeOK, Goto, Becomes, Threads

LEMMA Advance ==
  ASSUME TypeOK, NEW w \in Worker, NextEntry(w)
  PROVE  Advances(w)
<1>1. workers \in [Worker -> Threads] /\ workers[w] \in Threads /\ "done" \in Places
  BY DEF TypeOK, Threads, Places
<1>2. CASE workers[w].entry = N
  BY <1>1, <1>2, GoesTo DEF NextEntry, Advances
<1>3. CASE workers[w].entry # N
  <2>1. workers' = [workers EXCEPT ![w].at = "examine", ![w].entry = @ + 1]
    BY <1>3 DEF NextEntry
  <2>2. workers[w].entry + 1 \in Entry
    BY <1>1, <1>3, Constants DEF Threads, Entry
  <2> QED
    BY <1>1, <1>3, <2>1, <2>2 DEF Advances, Becomes, Threads, Places
<1> QED
  BY <1>2, <1>3

LEMMA Examines ==
  ASSUME TypeOK, NEW w \in Worker, Examine(w)
  PROVE  /\ At(w, "examine") /\ UNCHANGED <<files, faultVars>> /\ WorkerOnly
         /\ \/ Len(files[workers[w].entry]) = Wanted(w) /\ Advances(w)
            \/ /\ Len(files[workers[w].entry]) # Wanted(w)
               /\ Becomes(w, "open", workers[w].entry, workers[w].got, workers[w].good)
<1>1. "open" \in Places
  BY DEF Places
<1> QED
  BY <1>1, Advance, GoesTo DEF Examine

LEMMA Opens ==
  ASSUME TypeOK, NEW w \in Worker, OpenFile(w)
  PROVE  /\ At(w, "open") /\ UNCHANGED faultVars /\ WorkerOnly
         /\ files' = [files EXCEPT ![workers[w].entry] = <<>>]
         /\ Becomes(w, "write", workers[w].entry, 0, TRUE)
<1>a. workers \in [Worker -> Threads]
  BY DEF TypeOK, Threads
<1>b. [workers[w] EXCEPT !.at = "write", !.got = 0, !.good = TRUE] \in Threads
  BY <1>a DEF Threads, Places
<1>1. workers' \in [Worker -> Threads]
  BY <1>a, <1>b DEF OpenFile
<1> QED
  BY <1>1 DEF OpenFile, Becomes, TypeOK

LEMMA Fails ==
  ASSUME TypeOK, NEW w \in Worker, EntryFails(w)
  PROVE  /\ Alive(w) /\ UNCHANGED <<files, lost, alone>> /\ WorkerOnly
         /\ IF At(w, "write") THEN Unfinished ELSE UNCHANGED <<clean, scarred>>
         /\ Becomes(w, "failed", workers[w].entry, workers[w].got, workers[w].good)
<1>1. "failed" \in Places
  BY DEF Places
<1> QED
  BY <1>1, GoesTo DEF EntryFails

LEMMA Writing ==
  ASSUME TypeOK, NEW w \in Worker, WritePiece(w)
  PROVE  /\ At(w, "write") /\ workers[w].got < Wanted(w) /\ WorkerOnly
         /\ \/ /\ workers[w].good /\ UNCHANGED faultVars
               /\ files' = [files EXCEPT ![workers[w].entry]
                               = Put(@, workers[w].got + 1, version)]
               /\ Becomes(w, "write", workers[w].entry, workers[w].got + 1, TRUE)
            \/ /\ workers[w].good /\ Loses /\ Unfinished /\ UNCHANGED <<files, alone>>
               /\ Becomes(w, "write", workers[w].entry, workers[w].got + 1, FALSE)
            \/ /\ ~workers[w].good /\ UNCHANGED <<files, faultVars>>
               /\ Becomes(w, "write", workers[w].entry, workers[w].got + 1, FALSE)
<1>0. workers \in [Worker -> Threads] /\ workers[w] \in Threads /\ At(w, "write")
  BY DEF WritePiece, TypeOK, Threads
<1>1. ASSUME workers' = [workers EXCEPT ![w].got = @ + 1, ![w].good = FALSE]
      PROVE  Becomes(w, "write", workers[w].entry, workers[w].got + 1, FALSE)
  <2> DEFINE more == workers[w].got + 1
  <2>0. more \in Nat /\ workers' = [workers EXCEPT ![w].got = more, ![w].good = FALSE]
    BY <1>0, <1>1 DEF Threads
  <2> HIDE DEF more
  <2>1. workers' \in [Worker -> Threads]
    BY <1>0, <2>0 DEF Threads
  <2>2. /\ workers'[w].at = workers[w].at /\ workers'[w].entry = workers[w].entry
        /\ workers'[w].got = workers[w].got + 1 /\ ~workers'[w].good
    BY <1>0, <1>1 DEF Threads
  <2>3. \A x \in Worker : x # w => workers'[x] = workers[x]
    BY <1>0, <1>1
  <2>4. workers'[w].good = FALSE
    BY <2>1, <2>2 DEF Threads
  <2> QED
    BY <1>0, <2>1, <2>2, <2>3, <2>4, Zenon DEF Becomes, At
<1>2. ASSUME workers' = [workers EXCEPT ![w].got = @ + 1]
      PROVE  Becomes(w, "write", workers[w].entry, workers[w].got + 1, workers[w].good)
  BY <1>0, <1>2 DEF Becomes, Threads, Places, At
<1>3. workers[w].good \in BOOLEAN
  BY <1>0 DEF Threads
<1>4. CASE /\ workers[w].good /\ UNCHANGED faultVars
           /\ files' = [files EXCEPT ![workers[w].entry] = Put(@, workers[w].got + 1, version)]
           /\ workers' = [workers EXCEPT ![w].got = @ + 1]
  <2>1. workers[w].good = TRUE
    BY <1>3, <1>4
  <2> QED
    BY <1>2, <1>4, <2>1 DEF WritePiece
<1>5. CASE /\ workers[w].good /\ Loses /\ Unfinished /\ UNCHANGED <<files, alone>>
           /\ workers' = [workers EXCEPT ![w].got = @ + 1, ![w].good = FALSE]
  BY <1>1, <1>5 DEF WritePiece
<1>6. CASE /\ ~workers[w].good /\ UNCHANGED <<files, faultVars>>
           /\ workers' = [workers EXCEPT ![w].got = @ + 1]
  <2>1. workers[w].good = FALSE
    BY <1>3, <1>6
  <2> QED
    BY <1>2, <1>6, <2>1 DEF WritePiece
<1> QED
  BY <1>4, <1>5, <1>6 DEF WritePiece

LEMMA Closes ==
  ASSUME TypeOK, NEW w \in Worker, CloseFile(w)
  PROVE  /\ At(w, "write") /\ workers[w].got = Wanted(w)
         /\ UNCHANGED <<files, faultVars>> /\ WorkerOnly /\ Advances(w)
  BY Advance DEF CloseFile

-----------------------------------------------------------------------------
(* What the steps of a thread have in common.                              *)

\* Pieces are due from the same threads as before if these do not change.
LEMMA SameDue ==
  ASSUME files' = files,
         \A x \in Worker : workers'[x].at = "write" <=> workers[x].at = "write",
         \A x \in Worker : workers[x].at = "write" => workers'[x] = workers[x],
         NEW e \in Entry, NEW p \in Nat
  PROVE  (Present(e, p)' <=> Present(e, p)) /\ (Due(e, p)' <=> Due(e, p))
<1>1. Present(e, p)' <=> Present(e, p)
  BY DEF Present
<1>2. Due(e, p)' => Due(e, p)
  BY DEF Due, Writes, At
<1>3. Due(e, p) => Due(e, p)'
  BY DEF Due, Writes, At
<1> QED
  BY <1>1, <1>2, <1>3

\* Without several threads there are no holes.
LEMMA NoHoles ==
  ASSUME TypeOK, FileInv, ~scarred, alone \/ Busy = {},
         NEW e \in Entry, NEW p \in 1 .. Len(files[e])
  PROVE  Present(e, p)
<1>1. Present(e, p) \/ Due(e, p)
  BY DEF FileInv, HoleInv
<1>2. ASSUME Due(e, p) PROVE FALSE
  <2>1. PICK w \in Worker : Writes(w, e) /\ workers[w].good /\ workers[w].got < p
    BY <1>2 DEF Due
  <2>2. w \in Busy
    BY <2>1 DEF Busy, Alive, Writes, At
  <2>3. alone
    BY <2>2
  <2>4. Len(files[e]) = workers[w].got
    BY <2>1, <2>3 DEF FileInv, AloneInv, Writes
  <2>5. Len(files[e]) \in Nat
    BY Typed
  <2> QED
    BY <2>1, <2>4, <2>5
<1> QED
  BY <1>1, <1>2

\* What the invariant says of one thread that writes.
LEMMA WriterFacts ==
  ASSUME FileInv, NEW x \in Worker, workers[x].at = "write"
  PROVE  /\ workers[x].got <= Size[version][workers[x].entry]
         /\ Len(files[workers[x].entry]) <= Size[version][workers[x].entry]
         /\ \A p \in 1 .. Len(files[workers[x].entry]) : files[workers[x].entry][p] \in {Hole, version}
         /\ clean => workers[x].good
         /\ alone /\ workers[x].good => Len(files[workers[x].entry]) = workers[x].got
         /\ ~scarred /\ workers[x].good =>
              \A p \in 1 .. workers[x].got : Present(workers[x].entry, p) \/ Due(workers[x].entry, p)
<1>1. /\ workers[x].got <= Size[version][workers[x].entry]
      /\ Len(files[workers[x].entry]) <= Size[version][workers[x].entry]
      /\ \A p \in 1 .. Len(files[workers[x].entry]) : files[workers[x].entry][p] \in {Hole, version}
  BY DEF FileInv, VersionInv, At, Wanted
<1>2. clean => workers[x].good
  BY DEF FileInv, CleanInv, At
<1>3. alone /\ workers[x].good => Len(files[workers[x].entry]) = workers[x].got
  BY DEF FileInv, AloneInv, At
<1>4. ~scarred /\ workers[x].good =>
        \A p \in 1 .. workers[x].got : Present(workers[x].entry, p) \/ Due(workers[x].entry, p)
  BY DEF FileInv, HoleInv, At
<1> QED
  BY <1>1, <1>2, <1>3, <1>4

LEMMA PassedByAdvance ==
  ASSUME TypeOK, NEW w \in Worker, Alive(w), Advances(w), calls' = calls,
         NEW e \in Entry, Passed(e)'
  PROVE  Passed(e) \/ (w = calls /\ e = workers[w].entry)
<1>1. calls \in Worker /\ calls > 0
  BY Typed DEF Passed
<1>2. CASE w # calls
  <2>1. workers'[calls] = workers[calls]
    BY <1>1, <1>2 DEF Advances, Becomes
  <2> QED
    BY <1>1, <2>1 DEF Passed, Alive, At
<1>3. CASE w = calls
  <2>1. workers[w].entry \in 1 .. N /\ e \in 1 .. N /\ N \in Nat
    BY Typed, Constants DEF Entry
  <2>2. CASE workers[w].entry = N
    BY <1>1, <1>3, <2>1, <2>2 DEF Passed
  <2>3. CASE workers[w].entry # N
    <3>1. workers'[w].at = "examine" /\ workers'[w].entry = workers[w].entry + 1
      BY <2>3 DEF Advances, Becomes
    <3>2. e < workers[w].entry + 1
      BY <1>3, <3>1 DEF Passed, At
    <3> QED
      BY <1>1, <1>3, <2>1, <3>2 DEF Passed
  <2> QED
    BY <2>2, <2>3
<1> QED
  BY <1>2, <1>3

LEMMA PassedBefore ==
  ASSUME TypeOK, NEW w \in Worker, Alive(w), NEW at \in {"open", "write", "failed"},
         NEW got, NEW ok, Becomes(w, at, workers[w].entry, got, ok), calls' = calls,
         NEW e \in Entry, Passed(e)'
  PROVE  Passed(e)
<1>1. calls \in Worker /\ calls > 0
  BY Typed DEF Passed
<1>2. CASE w # calls
  <2>1. workers'[calls] = workers[calls]
    BY <1>1, <1>2 DEF Becomes
  <2> QED
    BY <1>1, <2>1 DEF Passed, Alive, At
<1>3. CASE w = calls
  <2>1. workers'[w].at = at /\ workers'[w].entry = workers[w].entry
    BY DEF Becomes
  <2>2. e < workers[w].entry
    BY <1>3, <2>1 DEF Passed, At
  <2> QED
    BY <1>1, <1>3, <2>2 DEF Passed
<1> QED
  BY <1>2, <1>3

-----------------------------------------------------------------------------
(* The files.                                                              *)

LEMMA FileKept ==
  ASSUME FileInv, UNCHANGED <<files, workers, version, calls, clean, alone, scarred>>
  PROVE  FileInv'
<1>1. VersionInv'
  BY DEF FileInv, VersionInv, At, Wanted
<1>2. AloneInv' /\ CleanInv'
  BY DEF FileInv, AloneInv, CleanInv, At, Wanted, Alive
<1>3. HoleInv'
  BY DEF FileInv, HoleInv, At, Present, Due, Writes
<1>4. PassedInv'
  BY DEF FileInv, PassedInv, Passed, Alive, At, Present, Due, Writes
<1> QED
  BY <1>1, <1>2, <1>3, <1>4 DEF FileInv

LEMMA FileStart ==
  ASSUME IInv, Start PROVE FileInv'
<1>0. TypeOK /\ FileInv /\ ProcessInv
  BY DEF IInv
<1>1. calls = 0 /\ calls' = 0 /\ version' \in version .. V
      /\ UNCHANGED <<files, workers, clean, alone, scarred>>
  BY <1>0 DEF ProcessInv, Start, zipVars, faultVars
<1>2. \A w \in Worker : workers[w] = Idle
  BY <1>0, <1>1 DEF ProcessInv, Worker
<1>3. \A w \in Worker : workers'[w].at = "none"
  BY <1>1, <1>2 DEF Idle
<1>4. VersionInv'
  <2>1. version \in Nat /\ 1 .. version \subseteq 1 .. version'
    BY <1>0, <1>1, Typed, Constants
  <2> QED
    BY <1>0, <1>1, <1>3, <2>1 DEF FileInv, VersionInv, At
<1>5. AloneInv' /\ CleanInv'
  BY <1>3 DEF AloneInv, CleanInv, At, Alive
<1>6. HoleInv'
  <2>1. \A e \in Entry : \A p \in Nat : (Present(e, p)' <=> Present(e, p)) /\ (Due(e, p)' <=> Due(e, p))
    BY <1>1, <1>2, SameDue
  <2> QED
    BY <1>0, <1>1, <1>3, <2>1, Typed DEF FileInv, HoleInv, At
<1>7. PassedInv'
  BY <1>1 DEF PassedInv, Passed
<1> QED
  BY <1>4, <1>5, <1>6, <1>7 DEF FileInv

LEMMA FileEnd ==
  ASSUME IInv, End PROVE FileInv'
<1>0. TypeOK /\ FileInv
  BY DEF IInv
<1>1. /\ UNCHANGED <<version, files, clean>> /\ calls' = 0
      /\ scarred' = (scarred \/ (Busy # {} /\ ~alone))
      /\ workers' = [w \in Worker |-> Idle]
  BY DEF End
<1>2. \A w \in Worker : workers'[w].at = "none"
  BY <1>1 DEF Idle
<1>3. VersionInv'
  BY <1>0, <1>1, <1>2 DEF FileInv, VersionInv, At
<1>4. AloneInv' /\ CleanInv'
  BY <1>2 DEF AloneInv, CleanInv, At, Alive
<1>5. HoleInv'
  <2>1. ASSUME ~scarred', NEW e \in Entry, NEW p \in 1 .. Len(files'[e])
        PROVE  Present(e, p)'
    <3>1. ~scarred /\ (alone \/ Busy = {})
      BY <1>1, <2>1
    <3>2. Present(e, p)
      BY <1>0, <1>1, <3>1, NoHoles
    <3> QED
      BY <1>1, <3>2 DEF Present
  <2> QED
    BY <1>2, <2>1 DEF HoleInv, At
<1>6. PassedInv'
  BY <1>1 DEF PassedInv, Passed
<1> QED
  BY <1>3, <1>4, <1>5, <1>6 DEF FileInv

LEMMA FileStartWorker ==
  ASSUME IInv, StartWorker PROVE FileInv'
<1>0. TypeOK /\ FileInv /\ ProcessInv
  BY DEF IInv
<1>1. /\ UNCHANGED <<version, files, scarred>> /\ calls' = calls + 1 /\ calls < MaxCalls
      /\ workers' = [workers EXCEPT ![calls + 1].at = "examine"]
      /\ clean' = (clean \/ Busy = {}) /\ alone' = (Busy = {})
  BY DEF StartWorker, processVars
<1>2. calls + 1 \in Worker /\ workers[calls + 1] = Idle /\ calls \in Nat
  BY <1>0, <1>1, Typed, Constants DEF ProcessInv, Worker
<1>3. /\ workers'[calls + 1] = [Idle EXCEPT !.at = "examine"]
      /\ \A x \in Worker : x # calls + 1 => workers'[x] = workers[x]
  BY <1>0, <1>1, <1>2 DEF TypeOK
<1>4. workers'[calls + 1].at = "examine" /\ workers'[calls + 1].entry = 1
      /\ workers[calls + 1].at = "none"
  BY <1>2, <1>3 DEF Idle
<1>5. /\ \A x \in Worker : workers'[x].at = "write" <=> workers[x].at = "write"
      /\ \A x \in Worker : workers[x].at = "write" => workers'[x] = workers[x]
  BY <1>3, <1>4
<1>5a. \A x \in Worker : x # calls + 1 => (Alive(x)' <=> Alive(x))
  BY <1>3 DEF Alive
<1>5b. \A x \in Worker : workers'[x].at = "open" <=> workers[x].at = "open"
  BY <1>3, <1>4
<1>6. VersionInv'
  BY <1>0, <1>1, <1>5 DEF FileInv, VersionInv, At, Wanted
<1>7. AloneInv'
  <2> SUFFICES ASSUME alone' PROVE AloneInv'
    BY DEF AloneInv
  <2>1. Busy = {}
    BY <1>1
  <2>2. \A x \in Worker : ~Alive(x)
    BY <2>1 DEF Busy
  <2>3. \A x \in Worker : Alive(x)' => x = calls + 1
    BY <1>5a, <2>2
  <2>4. \A x \in Worker : workers'[x].at \notin {"open", "write"}
    BY <1>5, <1>5b, <2>2 DEF Alive
  <2> QED
    BY <2>3, <2>4 DEF AloneInv, At
<1>8. CleanInv'
  <2>1. CASE Busy = {}
    BY <1>5, <2>1 DEF CleanInv, At, Busy, Alive
  <2>2. CASE clean
    BY <1>0, <1>5, <2>2 DEF FileInv, CleanInv, At
  <2> QED
    BY <1>1, <2>1, <2>2 DEF CleanInv
<1>9. HoleInv'
  <2>1. \A e \in Entry : \A p \in Nat : (Present(e, p)' <=> Present(e, p)) /\ (Due(e, p)' <=> Due(e, p))
    BY <1>1, <1>5, SameDue
  <2>2. ASSUME ~scarred, NEW e \in Entry, NEW p \in 1 .. Len(files[e])
        PROVE  Present(e, p)' \/ Due(e, p)'
    BY <1>0, <2>1, <2>2, Typed DEF FileInv, HoleInv
  <2>3. ASSUME ~scarred, NEW x \in Worker, workers'[x].at = "write", workers'[x].good,
               NEW p \in 1 .. workers'[x].got
        PROVE  (Present(workers[x].entry, p) \/ Due(workers[x].entry, p))'
    <3>1. workers'[x] = workers[x] /\ workers[x].at = "write"
      BY <1>5, <2>3
    <3>2. Present(workers[x].entry, p) \/ Due(workers[x].entry, p)
      BY <1>0, <2>3, <3>1, WriterFacts
    <3>3. p \in Nat /\ workers[x].entry \in Entry
      BY <1>0, <3>1, Typed
    <3> QED
      BY <2>1, <3>1, <3>2, <3>3
  <2> QED
    BY <1>1, <2>2, <2>3 DEF HoleInv, At
<1>10. PassedInv'
  <2>1. ASSUME NEW e \in Entry PROVE ~Passed(e)'
    <3>1. e \in Nat /\ e > 0
      BY Constants DEF Entry
    <3> QED
      BY <1>1, <1>4, <3>1 DEF Passed, At
  <2> QED
    BY <2>1 DEF PassedInv
<1> QED
  BY <1>6, <1>7, <1>8, <1>9, <1>10 DEF FileInv

\* A thread that neither was writing nor begins to leaves the others' work to them.
LEMMA OthersDue ==
  ASSUME NEW w \in Worker, ~At(w, "write"), workers'[w].at # "write", files' = files,
         \A x \in Worker : x # w => workers'[x] = workers[x],
         NEW e \in Entry, NEW p \in Nat
  PROVE  (Present(e, p)' <=> Present(e, p)) /\ (Due(e, p)' <=> Due(e, p))
<1>1. \A x \in Worker : workers'[x].at = "write" <=> workers[x].at = "write"
  BY DEF At
<1>2. \A x \in Worker : workers[x].at = "write" => workers'[x] = workers[x]
  BY DEF At
<1> QED
  BY <1>1, <1>2, SameDue

LEMMA FileExamine ==
  ASSUME IInv, NEW w \in Worker, Examine(w) PROVE FileInv'
<1>0. TypeOK /\ FileInv
  BY DEF IInv
<1>1. /\ At(w, "examine") /\ UNCHANGED <<files, version, calls, clean, alone, scarred>>
      /\ \/ Len(files[workers[w].entry]) = Wanted(w) /\ Advances(w)
         \/ /\ Len(files[workers[w].entry]) # Wanted(w)
            /\ Becomes(w, "open", workers[w].entry, workers[w].got, workers[w].good)
  BY <1>0, Examines DEF WorkerOnly, processVars, faultVars
<1>2. /\ \A x \in Worker : x # w => workers'[x] = workers[x]
      /\ workers'[w].at \in {"done", "examine", "open"}
  BY <1>1 DEF Advances, Becomes
<1>3. workers'[w].at = "open" => /\ Len(files[workers[w].entry]) # Wanted(w)
                                 /\ workers'[w].entry = workers[w].entry
  BY <1>1 DEF Advances, Becomes
<1>4. ~At(w, "write") /\ workers'[w].at # "write" /\ Alive(w)
  BY <1>1, <1>2 DEF At, Alive
<1>5. \A x \in Worker : workers'[x].at = "write" =>
        workers[x].at = "write" /\ workers'[x] = workers[x]
  BY <1>2, <1>4
<1>6. \A x \in Worker : Alive(x)' => Alive(x)
  BY <1>2, <1>4 DEF Alive
<1>7. VersionInv'
  <2>1. \A e \in Entry : \E v \in 1 .. version : \A p \in 1 .. Len(files[e]) : files[e][p] \in {Hole, v}
    BY <1>0 DEF FileInv, VersionInv
  <2>2. ASSUME NEW x \in Worker, workers'[x].at = "write"
        PROVE  /\ workers'[x].got <= Size[version][workers'[x].entry]
               /\ Len(files[workers'[x].entry]) <= Size[version][workers'[x].entry]
               /\ \A p \in 1 .. Len(files[workers'[x].entry]) : files[workers'[x].entry][p] \in {Hole, version}
    BY <1>0, <1>5, <2>2, WriterFacts
  <2> QED
    BY <1>1, <2>1, <2>2 DEF VersionInv, At, Wanted
<1>8. AloneInv'
  <2>1. \A x \in Worker : workers'[x].at = "open" =>
          /\ x = w \/ workers[x].at = "open"
          /\ workers'[x].entry = workers[x].entry
    BY <1>2, <1>3
  <2>2. alone' => \A x1, x2 \in Worker : Alive(x1)' /\ Alive(x2)' => x1 = x2
    BY <1>0, <1>1, <1>6 DEF FileInv, AloneInv
  <2>3. alone' => \A x \in Worker : workers'[x].at = "open" =>
          Len(files[workers[x].entry]) # Wanted(x)
    BY <1>0, <1>1, <1>3, <2>1 DEF FileInv, AloneInv, At
  <2>4. alone' => \A x \in Worker : workers'[x].at = "write" /\ workers'[x].good =>
          Len(files'[workers'[x].entry]) = workers'[x].got
    BY <1>0, <1>1, <1>5, WriterFacts
  <2> QED
    BY <1>1, <2>1, <2>2, <2>3, <2>4 DEF AloneInv, At, Wanted
<1>9. CleanInv'
  BY <1>0, <1>1, <1>5, WriterFacts DEF CleanInv, At
<1>10. \A e \in Entry : \A p \in Nat :
         (Present(e, p)' <=> Present(e, p)) /\ (Due(e, p)' <=> Due(e, p))
  BY <1>1, <1>2, <1>4, OthersDue
<1>11. HoleInv'
  <2>1. ASSUME ~scarred, NEW e \in Entry, NEW p \in 1 .. Len(files[e])
        PROVE  Present(e, p)' \/ Due(e, p)'
    BY <1>0, <1>10, <2>1, Typed DEF FileInv, HoleInv
  <2>2. ASSUME ~scarred, NEW x \in Worker, workers'[x].at = "write", workers'[x].good,
               NEW p \in 1 .. workers'[x].got
        PROVE  (Present(workers[x].entry, p) \/ Due(workers[x].entry, p))'
    <3>1. workers'[x] = workers[x] /\ workers[x].at = "write"
      BY <1>5, <2>2
    <3>2. Present(workers[x].entry, p) \/ Due(workers[x].entry, p)
      BY <1>0, <2>2, <3>1, WriterFacts
    <3>3. p \in Nat /\ workers[x].entry \in Entry
      BY <1>0, <3>1, Typed
    <3> QED
      BY <1>10, <3>1, <3>2, <3>3
  <2> QED
    BY <1>1, <2>1, <2>2 DEF HoleInv, At
<1>12. PassedInv'
  <2> SUFFICES ASSUME clean, ~scarred, NEW e \in Entry, Passed(e)'
               PROVE  /\ Len(files[e]) <= Size[version][e]
                      /\ \A p \in 1 .. Size[version][e] : Present(e, p) \/ Due(e, p)
    BY <1>0, <1>1, <1>10, Typed DEF PassedInv
  <2>1. CASE Passed(e)
    BY <1>0, <2>1 DEF FileInv, PassedInv
  <2>2. CASE ~Passed(e)
    <3>1. ~Becomes(w, "open", workers[w].entry, workers[w].got, workers[w].good)
      BY <1>0, <1>1, <1>4, <2>2, PassedBefore
    <3>2. e = workers[w].entry
      BY <1>0, <1>1, <1>4, <2>2, <3>1, PassedByAdvance
    <3>3. Len(files[e]) = Size[version][e] /\ Len(files[e]) \in Nat
      BY <1>0, <1>1, <3>1, <3>2, Typed DEF Wanted
    <3>4. \A p \in 1 .. Len(files[e]) : Present(e, p) \/ Due(e, p)
      BY <1>0 DEF FileInv, HoleInv
    <3> QED
      BY <3>3, <3>4
  <2> QED
    BY <2>1, <2>2
<1> QED
  BY <1>7, <1>8, <1>9, <1>11, <1>12 DEF FileInv

LEMMA FileOpen ==
  ASSUME IInv, NEW w \in Worker, OpenFile(w) PROVE FileInv'
<1>0. TypeOK /\ FileInv
  BY DEF IInv
<1>a. PICK e0 \in Entry : e0 = workers[w].entry
  BY <1>0, Typed
<1>1. /\ At(w, "open") /\ UNCHANGED <<version, calls, clean, alone, scarred>>
      /\ files' = [files EXCEPT ![e0] = <<>>]
      /\ Becomes(w, "write", e0, 0, TRUE)
  BY <1>0, <1>a, Opens DEF WorkerOnly, processVars, faultVars
<1>2. /\ \A x \in Worker : x # w => workers'[x] = workers[x]
      /\ workers'[w].at = "write" /\ workers'[w].entry = e0
      /\ workers'[w].got = 0 /\ workers'[w].good = TRUE
  BY <1>1 DEF Becomes
<1>4. files'[e0] = <<>> /\ Len(files'[e0]) = 0 /\ \A e \in Entry : e # e0 => files'[e] = files[e]
  BY <1>0, <1>1 DEF TypeOK
<1>5. Alive(w) /\ workers[w].at # "write"
  BY <1>1 DEF Alive, At
<1>6. \A e \in Entry : \A p \in Nat : Present(e, p) \/ Due(e, p) => p = 0 \/ Present(e, p)' \/ Due(e, p)'
  <2> SUFFICES ASSUME NEW e \in Entry, NEW p \in Nat \ {0}, Present(e, p) \/ Due(e, p)
               PROVE  Present(e, p)' \/ Due(e, p)'
    OBVIOUS
  <2>1. CASE e = e0
    BY <1>2, <2>1 DEF Due, Writes, At
  <2>2. CASE e # e0 /\ Present(e, p)
    BY <1>4, <2>2 DEF Present
  <2>3. CASE Due(e, p)
    BY <1>2, <1>5, <2>3 DEF Due, Writes, At
  <2> QED
    BY <2>1, <2>2, <2>3
<1>7. ASSUME NEW p \in Nat \ {0} PROVE Due(e0, p)'
  <2>1. Writes(w, e0)' /\ workers'[w].good /\ workers'[w].got < p
    BY <1>2 DEF Writes, At
  <2> QED
    BY <2>1 DEF Due
<1>8. VersionInv'
  <2>1. ASSUME NEW e \in Entry
        PROVE  \E v \in 1 .. version' : \A p \in 1 .. Len(files'[e]) : files'[e][p] \in {Hole, v}
    <3>1. CASE e = e0
      <4>1. 1 \in 1 .. version'
        BY <1>0, <1>1, Typed
      <4> QED
        BY <1>4, <3>1, <4>1
    <3>2. CASE e # e0
      BY <1>0, <1>1, <1>4, <3>2 DEF FileInv, VersionInv
    <3> QED
      BY <3>1, <3>2
  <2>2. ASSUME NEW x \in Worker, workers'[x].at = "write"
        PROVE  /\ workers'[x].got <= Size[version'][workers'[x].entry]
               /\ Len(files'[workers'[x].entry]) <= Size[version'][workers'[x].entry]
               /\ \A p \in 1 .. Len(files'[workers'[x].entry]) : files'[workers'[x].entry][p] \in {Hole, version'}
    <3>1. workers'[x].entry \in Entry /\ Size[version'][workers'[x].entry] \in Nat
      BY <1>0, <1>1, <1>2, Typed
    <3>2. workers'[x].got <= Size[version'][workers'[x].entry]
      <4>1. CASE x = w
        BY <1>2, <3>1, <4>1
      <4>2. CASE x # w
        BY <1>0, <1>1, <1>2, <2>2, <4>2 DEF FileInv, VersionInv, At, Wanted
      <4> QED
        BY <4>1, <4>2
    <3>3. CASE workers'[x].entry = e0
      BY <1>4, <3>1, <3>2, <3>3
    <3>4. CASE workers'[x].entry # e0
      <4>1. x # w /\ workers'[x] = workers[x]
        BY <1>2, <3>4
      <4>2. files'[workers[x].entry] = files[workers[x].entry]
        BY <1>4, <3>1, <3>4, <4>1
      <4> QED
        BY <1>0, <1>1, <2>2, <3>2, <4>1, <4>2 DEF FileInv, VersionInv, At, Wanted
    <3> QED
      BY <3>3, <3>4
  <2> QED
    BY <2>1, <2>2 DEF VersionInv, At, Wanted
<1>9. AloneInv'
  <2> SUFFICES ASSUME alone PROVE AloneInv'
    BY <1>1 DEF AloneInv
  <2>1. \A x \in Worker : Alive(x) => x = w
    BY <1>0, <1>5 DEF FileInv, AloneInv
  <2>2. \A x \in Worker : Alive(x)' => x = w
    BY <1>2, <2>1 DEF Alive
  <2>3. \A x \in Worker : workers'[x].at # "open" /\ (workers'[x].at = "write" => x = w)
    BY <1>2, <2>1 DEF Alive
  <2> QED
    BY <1>2, <1>4, <2>2, <2>3 DEF AloneInv, At
<1>10. CleanInv'
  BY <1>0, <1>1, <1>2 DEF FileInv, CleanInv, At
<1>11. HoleInv'
  <2> SUFFICES ASSUME ~scarred PROVE HoleInv'
    BY <1>1 DEF HoleInv
  <2>1. ASSUME NEW e \in Entry, NEW p \in 1 .. Len(files'[e])
        PROVE  Present(e, p)' \/ Due(e, p)'
    <3>1. CASE e = e0
      BY <1>4, <3>1
    <3>2. CASE e # e0
      BY <1>0, <1>4, <1>6, <3>2, Typed DEF FileInv, HoleInv
    <3> QED
      BY <3>1, <3>2
  <2>2. ASSUME NEW x \in Worker, workers'[x].at = "write", workers'[x].good,
               NEW p \in 1 .. workers'[x].got
        PROVE  (Present(workers[x].entry, p) \/ Due(workers[x].entry, p))'
    <3>1. x # w /\ workers'[x] = workers[x]
      BY <1>2, <2>2
    <3>2. Present(workers[x].entry, p) \/ Due(workers[x].entry, p)
      BY <1>0, <2>2, <3>1, WriterFacts
    <3>3. p \in Nat /\ p # 0 /\ workers[x].entry \in Entry
      BY <1>0, <3>1, Typed
    <3>4. PICK e \in Entry : e = workers[x].entry
      BY <3>3
    <3>5. Present(e, p)' \/ Due(e, p)'
      BY <1>6, <3>2, <3>3, <3>4
    <3> QED
      BY <3>1, <3>4, <3>5 DEF Present, Due, Writes
  <2> QED
    BY <2>1, <2>2 DEF HoleInv, At
<1>12. PassedInv'
  <2> SUFFICES ASSUME clean, ~scarred, NEW e \in Entry, Passed(e)'
               PROVE  /\ Len(files'[e]) <= Size[version][e]
                      /\ \A p \in 1 .. Size[version][e] : Present(e, p)' \/ Due(e, p)'
    BY <1>1 DEF PassedInv
  <2>1. Passed(e)
    BY <1>0, <1>1, <1>5, <1>a, PassedBefore
  <2>2. /\ Len(files[e]) <= Size[version][e] /\ Size[version][e] \in Nat
        /\ \A p \in 1 .. Size[version][e] : Present(e, p) \/ Due(e, p)
    BY <1>0, <2>1, Typed DEF FileInv, PassedInv
  <2>3. Len(files'[e]) <= Size[version][e]
    BY <1>4, <2>2
  <2> QED
    BY <1>6, <2>2, <2>3
<1> QED
  BY <1>8, <1>9, <1>10, <1>11, <1>12 DEF FileInv

LEMMA FileFails ==
  ASSUME IInv, NEW w \in Worker, EntryFails(w) PROVE FileInv'
<1>0. TypeOK /\ FileInv
  BY DEF IInv
<1>1. /\ Alive(w) /\ UNCHANGED <<files, version, calls, alone>>
      /\ IF At(w, "write") THEN Unfinished ELSE UNCHANGED <<clean, scarred>>
      /\ Becomes(w, "failed", workers[w].entry, workers[w].got, workers[w].good)
  BY <1>0, Fails DEF WorkerOnly, processVars
<1>2. /\ \A x \in Worker : x # w => workers'[x] = workers[x]
      /\ workers'[w].at = "failed"
  BY <1>1 DEF Becomes
<1>3. \A x \in Worker : workers'[x].at \in {"open", "write"} =>
        x # w /\ workers[x].at = workers'[x].at /\ workers'[x] = workers[x]
  BY <1>2
<1>4. \A x \in Worker : Alive(x)' => Alive(x) /\ x # w
  BY <1>2 DEF Alive
<1>5. VersionInv'
  <2>1. \A e \in Entry : \E v \in 1 .. version : \A p \in 1 .. Len(files[e]) : files[e][p] \in {Hole, v}
    BY <1>0 DEF FileInv, VersionInv
  <2>2. ASSUME NEW x \in Worker, workers'[x].at = "write"
        PROVE  /\ workers'[x].got <= Size[version][workers'[x].entry]
               /\ Len(files[workers'[x].entry]) <= Size[version][workers'[x].entry]
               /\ \A p \in 1 .. Len(files[workers'[x].entry]) : files[workers'[x].entry][p] \in {Hole, version}
    BY <1>0, <1>3, <2>2, WriterFacts
  <2> QED
    BY <1>1, <2>1, <2>2 DEF VersionInv, At, Wanted
<1>6. AloneInv'
  <2> SUFFICES ASSUME alone PROVE AloneInv'
    BY <1>1 DEF AloneInv
  <2>1. \A x \in Worker : ~Alive(x)'
    BY <1>0, <1>1, <1>4 DEF FileInv, AloneInv
  <2>2. \A x \in Worker : workers'[x].at \notin {"open", "write"}
    BY <2>1 DEF Alive
  <2> QED
    BY <2>1, <2>2 DEF AloneInv, At
<1>7. clean' => clean
  BY <1>1 DEF Unfinished
<1>8. CleanInv'
  BY <1>0, <1>3, <1>7, WriterFacts DEF CleanInv, At
<1>9. CASE At(w, "write")
  <2>1. ~clean' /\ (~scarred' => ~scarred /\ alone)
    BY <1>1, <1>9 DEF Unfinished
  <2>2. HoleInv'
    <3> SUFFICES ASSUME ~scarred, alone PROVE HoleInv'
      BY <2>1 DEF HoleInv
    <3>1. ASSUME NEW e \in Entry, NEW p \in 1 .. Len(files[e])
          PROVE  Present(e, p)'
      <4>1. Present(e, p)
        BY <1>0, NoHoles
      <4> QED
        BY <1>1, <4>1 DEF Present
    <3>2. \A x \in Worker : ~Alive(x)'
      BY <1>0, <1>1, <1>4 DEF FileInv, AloneInv
    <3>3. \A x \in Worker : workers'[x].at # "write"
      BY <3>2 DEF Alive
    <3> QED
      BY <1>1, <3>1, <3>3 DEF HoleInv, At
  <2>3. PassedInv'
    BY <2>1 DEF PassedInv
  <2> QED
    BY <1>5, <1>6, <1>8, <2>2, <2>3 DEF FileInv
<1>10. CASE ~At(w, "write")
  <2>1. UNCHANGED <<clean, scarred>>
    BY <1>1, <1>10
  <2>2. \A e \in Entry : \A p \in Nat :
          (Present(e, p)' <=> Present(e, p)) /\ (Due(e, p)' <=> Due(e, p))
    BY <1>1, <1>2, <1>10, OthersDue
  <2>3. HoleInv'
    <3>1. ASSUME ~scarred, NEW e \in Entry, NEW p \in 1 .. Len(files[e])
          PROVE  Present(e, p)' \/ Due(e, p)'
      BY <1>0, <2>2, <3>1, Typed DEF FileInv, HoleInv
    <3>2. ASSUME ~scarred, NEW x \in Worker, workers'[x].at = "write", workers'[x].good,
                 NEW p \in 1 .. workers'[x].got
          PROVE  (Present(workers[x].entry, p) \/ Due(workers[x].entry, p))'
      <4>1. workers'[x] = workers[x] /\ workers[x].at = "write"
        BY <1>3, <3>2
      <4>2. Present(workers[x].entry, p) \/ Due(workers[x].entry, p)
        BY <1>0, <3>2, <4>1, WriterFacts
      <4>3. p \in Nat /\ workers[x].entry \in Entry
        BY <1>0, <4>1, Typed
      <4> QED
        BY <2>2, <4>1, <4>2, <4>3
    <3> QED
      BY <1>1, <2>1, <3>1, <3>2 DEF HoleInv, At
  <2>4. PassedInv'
    <3> SUFFICES ASSUME clean, ~scarred, NEW e \in Entry, Passed(e)'
                 PROVE  /\ Len(files[e]) <= Size[version][e]
                        /\ \A p \in 1 .. Size[version][e] : Present(e, p) \/ Due(e, p)
      BY <1>0, <1>1, <2>1, <2>2, Typed DEF PassedInv
    <3>1. Passed(e)
      BY <1>0, <1>1, PassedBefore
    <3> QED
      BY <1>0, <3>1 DEF FileInv, PassedInv
  <2> QED
    BY <1>5, <1>6, <1>8, <2>3, <2>4 DEF FileInv
<1> QED
  BY <1>9, <1>10

LEMMA FileClose ==
  ASSUME IInv, NEW w \in Worker, CloseFile(w) PROVE FileInv'
<1>0. TypeOK /\ FileInv
  BY DEF IInv
<1>1. /\ At(w, "write") /\ workers[w].got = Wanted(w)
      /\ UNCHANGED <<files, version, calls, clean, alone, scarred>> /\ Advances(w)
  BY <1>0, Closes DEF WorkerOnly, processVars, faultVars
<1>2. /\ \A x \in Worker : x # w => workers'[x] = workers[x]
      /\ workers'[w].at \in {"done", "examine"}
  BY <1>1 DEF Advances, Becomes
<1>3. \A x \in Worker : workers'[x].at \in {"open", "write"} =>
        x # w /\ workers[x].at = workers'[x].at /\ workers'[x] = workers[x]
  BY <1>2
<1>4. Alive(w) /\ \A x \in Worker : Alive(x)' => Alive(x)
  BY <1>1, <1>2 DEF Alive, At
<1>5. VersionInv'
  <2>1. \A e \in Entry : \E v \in 1 .. version : \A p \in 1 .. Len(files[e]) : files[e][p] \in {Hole, v}
    BY <1>0 DEF FileInv, VersionInv
  <2>2. ASSUME NEW x \in Worker, workers'[x].at = "write"
        PROVE  /\ workers'[x].got <= Size[version][workers'[x].entry]
               /\ Len(files[workers'[x].entry]) <= Size[version][workers'[x].entry]
               /\ \A p \in 1 .. Len(files[workers'[x].entry]) : files[workers'[x].entry][p] \in {Hole, version}
    BY <1>0, <1>3, <2>2, WriterFacts
  <2> QED
    BY <1>1, <2>1, <2>2 DEF VersionInv, At, Wanted
<1>6. AloneInv'
  <2> SUFFICES ASSUME alone PROVE AloneInv'
    BY <1>1 DEF AloneInv
  <2>1. \A x \in Worker : Alive(x) => x = w
    BY <1>0, <1>4 DEF FileInv, AloneInv
  <2>2. \A x \in Worker : workers'[x].at \notin {"open", "write"}
    BY <1>3, <2>1 DEF Alive
  <2> QED
    BY <1>4, <2>1, <2>2 DEF AloneInv, At
<1>7. CleanInv'
  BY <1>0, <1>1, <1>3, WriterFacts DEF CleanInv, At
\* This thread is through with its file: what is due there is due from others.
<1>8. ASSUME NEW e \in Entry, NEW p \in 1 .. Size[version][e], Present(e, p) \/ Due(e, p)
      PROVE  Present(e, p)' \/ Due(e, p)'
  <2>1. CASE Present(e, p)
    BY <1>1, <2>1 DEF Present
  <2>2. CASE Due(e, p)
    <3>1. PICK x \in Worker : Writes(x, e) /\ workers[x].good /\ workers[x].got < p
      BY <2>2 DEF Due
    <3>2. Size[version][e] \in Nat
      BY <1>0, Typed
    <3>3. x # w
      BY <1>1, <3>1, <3>2 DEF Writes, Wanted
    <3>4. workers'[x] = workers[x]
      BY <1>2, <3>3
    <3>5. Writes(x, e)' /\ workers'[x].good /\ workers'[x].got < p
      BY <3>1, <3>4 DEF Writes, At
    <3> QED
      BY <3>5 DEF Due
  <2> QED
    BY <1>8, <2>1, <2>2
<1>9. HoleInv'
  <2>1. ASSUME ~scarred, NEW e \in Entry, NEW p \in 1 .. Len(files[e])
        PROVE  Present(e, p)' \/ Due(e, p)'
    <3>1. Present(e, p) \/ Due(e, p)
      BY <1>0, <2>1 DEF FileInv, HoleInv
    <3>2. CASE Present(e, p)
      BY <1>1, <3>2 DEF Present
    <3>3. CASE Due(e, p)
      <4>1. PICK x \in Worker : workers[x].at = "write" /\ workers[x].entry = e
        BY <3>3 DEF Due, Writes, At
      <4>2. Len(files[e]) <= Size[version][e]
        BY <1>0, <4>1, WriterFacts
      <4>3. p \in 1 .. Size[version][e]
        BY <1>0, <4>2, Typed
      <4> QED
        BY <1>8, <3>1, <4>3
    <3> QED
      BY <3>1, <3>2, <3>3
  <2>2. ASSUME ~scarred, NEW x \in Worker, workers'[x].at = "write", workers'[x].good,
               NEW p \in 1 .. workers'[x].got
        PROVE  (Present(workers[x].entry, p) \/ Due(workers[x].entry, p))'
    <3>1. workers'[x] = workers[x] /\ workers[x].at = "write"
      BY <1>3, <2>2
    <3>2. Present(workers[x].entry, p) \/ Due(workers[x].entry, p)
      BY <1>0, <2>2, <3>1, WriterFacts
    <3>3. PICK e \in Entry : e = workers[x].entry
      BY <1>0, Typed
    <3>4. p \in 1 .. Size[version][e]
      BY <1>0, <3>1, <3>3, Typed, WriterFacts
    <3>5. Present(e, p)' \/ Due(e, p)'
      BY <1>8, <3>2, <3>3, <3>4
    <3> QED
      BY <3>1, <3>3, <3>5 DEF Present, Due, Writes
  <2> QED
    BY <1>1, <2>1, <2>2 DEF HoleInv, At
<1>10. PassedInv'
  <2> SUFFICES ASSUME clean, ~scarred, NEW e \in Entry, Passed(e)'
               PROVE  /\ Len(files[e]) <= Size[version][e]
                      /\ \A p \in 1 .. Size[version][e] : Present(e, p) \/ Due(e, p)
    BY <1>0, <1>1, <1>8, Typed DEF PassedInv
  <2>1. CASE Passed(e)
    BY <1>0, <2>1 DEF FileInv, PassedInv
  <2>2. CASE ~Passed(e)
    <3>1. e = workers[w].entry
      BY <1>0, <1>1, <1>4, <2>2, PassedByAdvance
    <3>2. workers[w].at = "write" /\ workers[w].got = Size[version][e]
      BY <1>1, <3>1 DEF At, Wanted
    <3> QED
      BY <1>0, <3>1, <3>2, WriterFacts
  <2> QED
    BY <2>1, <2>2
<1> QED
  BY <1>5, <1>6, <1>7, <1>9, <1>10 DEF FileInv

\* A thread that goes on writing is the only one whose place changes.
LEMMA WriterStays ==
  ASSUME NEW w \in Worker, At(w, "write"), workers'[w].at = "write",
         \A x \in Worker : x # w => workers'[x] = workers[x]
  PROVE  /\ \A x \in Worker : workers'[x].at = workers[x].at
         /\ \A x \in Worker : Alive(x)' <=> Alive(x)
<1>1. \A x \in Worker : workers'[x].at = workers[x].at
  BY DEF At
<1> QED
  BY <1>1 DEF Alive

\* A piece that is put into a file, maybe beyond its end.
LEMMA FilePut ==
  ASSUME NEW e \in Entry, NEW p \in Nat, p > 0, files[e] \in Seq(Pieces), version \in Pieces,
         files'[e] = Put(files[e], p, version)
  PROVE  /\ files'[e] \in Seq(Pieces)
         /\ Len(files'[e]) = IF p > Len(files[e]) THEN p ELSE Len(files[e])
         /\ files'[e][p] = version
         /\ \A i \in 1 .. Len(files[e]) : i # p => files'[e][i] = files[e][i]
         /\ \A i \in 1 .. p - 1 : i > Len(files[e]) => files'[e][i] = Hole
<1>1. PICK old \in Seq(Pieces) : old = files[e]
  OBVIOUS
<1>2. PICK v \in Pieces : v = version
  OBVIOUS
<1>3. PICK n \in Nat : n = IF p > Len(old) THEN p ELSE Len(old)
  BY LenProperties
<1>4. PICK put : put = files'[e]
  OBVIOUS
<1>5. Len(old) \in Nat /\ DOMAIN old = 1 .. Len(old)
  BY LenProperties
<1>6. put = [i \in 1 .. n |->
               IF i = p THEN v ELSE IF i \in 1 .. Len(old) THEN old[i] ELSE Hole]
  BY <1>1, <1>2, <1>3, <1>4, <1>5 DEF Put
<1>7. put \in [1 .. n -> Pieces]
  BY <1>5, <1>6, ElementOfSeq DEF Pieces
<1>8. put \in Seq(Pieces) /\ DOMAIN put = 1 .. n
  BY <1>7, SeqDef
<1>9. Len(put) = n
  BY <1>8, LenProperties
<1>a. p <= n /\ Len(old) <= n
  <2>1. CASE p > Len(old)
    <3>1. n = p
      BY <1>3, <2>1
    <3> QED
      BY <1>5, <2>1, <3>1
  <2>2. CASE ~(p > Len(old))
    <3>1. n = Len(old)
      BY <1>3, <2>2
    <3> QED
      BY <1>5, <2>2, <3>1
  <2> QED
    BY <2>1, <2>2
<1>b. ASSUME NEW i \in 1 .. n
      PROVE  put[i] = IF i = p THEN v ELSE IF i \in 1 .. Len(old) THEN old[i] ELSE Hole
  BY <1>6
<1>10. put[p] = v
  <2>1. p \in 1 .. n
    BY <1>a
  <2> QED
    BY <1>b, <2>1
<1>11. ASSUME NEW i \in 1 .. Len(old), i # p PROVE put[i] = old[i]
  <2>1. i \in 1 .. n
    BY <1>5, <1>a
  <2> QED
    BY <1>b, <1>11, <2>1
<1>12. ASSUME NEW i \in 1 .. p - 1, i > Len(old) PROVE put[i] = Hole
  <2>1. i \in 1 .. n /\ i # p /\ i \notin 1 .. Len(old)
    BY <1>5, <1>a, <1>12
  <2> QED
    BY <1>b, <2>1
<1> QED
  BY <1>1, <1>2, <1>3, <1>4, <1>8, <1>9, <1>10, <1>11, <1>12

LEMMA FileWriteGood ==
  ASSUME IInv, NEW w \in Worker, At(w, "write"), workers[w].got < Wanted(w),
         workers[w].good, UNCHANGED <<version, calls, clean, alone, scarred>>,
         files' = [files EXCEPT ![workers[w].entry] = Put(@, workers[w].got + 1, version)],
         Becomes(w, "write", workers[w].entry, workers[w].got + 1, TRUE)
  PROVE  FileInv'
<1>0. TypeOK /\ FileInv /\ version \in Pieces /\ version # Hole
  BY Typed DEF IInv, Pieces, Hole
<1>1. PICK e0 \in Entry : e0 = workers[w].entry
  BY <1>0, Typed
<1>2. PICK p0 \in Nat : p0 > 0 /\ p0 = workers[w].got + 1
  BY <1>0, Typed
<1>3. /\ \A x \in Worker : x # w => workers'[x] = workers[x]
      /\ workers'[w].at = "write" /\ workers'[w].entry = e0
      /\ workers'[w].got = p0 /\ workers'[w].good = TRUE
  BY <1>1, <1>2 DEF Becomes
<1>4. /\ files'[e0] = Put(files[e0], p0, version)
      /\ \A e \in Entry : e # e0 => files'[e] = files[e]
  BY <1>0, <1>1, <1>2 DEF TypeOK
<1>5. files[e0] \in Seq(Pieces) /\ Len(files[e0]) \in Nat /\ Hole \in Pieces
      /\ Size[version][e0] \in Nat
  BY <1>0, Typed DEF Pieces
<1>6. /\ Len(files'[e0]) = IF p0 > Len(files[e0]) THEN p0 ELSE Len(files[e0])
      /\ files'[e0][p0] = version
      /\ \A i \in 1 .. Len(files[e0]) : i # p0 => files'[e0][i] = files[e0][i]
      /\ \A i \in 1 .. p0 - 1 : i > Len(files[e0]) => files'[e0][i] = Hole
  <2>1. files[e0] \in Seq(Pieces) /\ version \in Pieces /\ files'[e0] = Put(files[e0], p0, version)
    BY <1>0, <1>4, <1>5
  <2>2. Len(files'[e0]) = IF p0 > Len(files[e0]) THEN p0 ELSE Len(files[e0])
    BY <1>2, <2>1, FilePut
  <2>3. files'[e0][p0] = version
    BY <1>2, <2>1, FilePut
  <2>4. \A i \in 1 .. Len(files[e0]) : i # p0 => files'[e0][i] = files[e0][i]
    BY <1>2, <2>1, FilePut
  <2>5. \A i \in 1 .. p0 - 1 : i > Len(files[e0]) => files'[e0][i] = Hole
    BY <1>2, <2>1, FilePut
  <2> QED
    BY <2>2, <2>3, <2>4, <2>5
<1>7. workers[w].at = "write" /\ Alive(w) /\ workers[w].got \in Nat
  BY <1>0, Typed DEF At, Alive
<1>8. p0 <= Size[version][e0] /\ workers[w].got = p0 - 1
  BY <1>1, <1>2, <1>5, <1>7 DEF Wanted
<1>9. /\ Len(files[e0]) <= Size[version][e0]
      /\ \A p \in 1 .. Len(files[e0]) : files[e0][p] \in {Hole, version}
      /\ alone => Len(files[e0]) = p0 - 1
      /\ ~scarred => \A p \in 1 .. p0 - 1 : Present(e0, p) \/ Due(e0, p)
  BY <1>0, <1>1, <1>7, <1>8, WriterFacts
<1>10. /\ Len(files'[e0]) <= Size[version][e0]
       /\ \A p \in 1 .. Len(files'[e0]) : files'[e0][p] \in {Hole, version}
  <2>1. Len(files'[e0]) <= Size[version][e0]
    BY <1>6, <1>8, <1>9
  <2>2. ASSUME NEW p \in 1 .. Len(files'[e0]) PROVE files'[e0][p] \in {Hole, version}
    <3>1. CASE p = p0
      BY <1>6, <3>1
    <3>2. CASE p # p0 /\ p \in 1 .. Len(files[e0])
      BY <1>6, <1>9, <3>2
    <3>3. CASE p # p0 /\ p \notin 1 .. Len(files[e0])
      <4>1. p \in 1 .. p0 - 1 /\ p > Len(files[e0])
        BY <1>5, <1>6, <3>3
      <4> QED
        BY <1>6, <4>1
    <3> QED
      BY <3>1, <3>2, <3>3
  <2> QED
    BY <2>1, <2>2
<1>11. /\ \A x \in Worker : workers'[x].at = workers[x].at
       /\ \A x \in Worker : Alive(x)' <=> Alive(x)
  BY <1>3, WriterStays
\* What is there stays there, and what is due remains so until it is there.
<1>12. ASSUME NEW e \in Entry, NEW p \in Nat \ {0}, Present(e, p) \/ Due(e, p)
       PROVE  Present(e, p)' \/ Due(e, p)'
  <2>1. CASE e = e0 /\ p = p0
    <3>1. p <= Len(files'[e]) /\ files'[e][p] # Hole
      BY <1>0, <1>5, <1>6, <2>1
    <3> QED
      BY <3>1 DEF Present
  <2>2. CASE Present(e, p) /\ ~(e = e0 /\ p = p0)
    <3>1. CASE e = e0
      <4>1. p \in 1 .. Len(files[e0]) /\ p # p0 /\ files[e0][p] # Hole
        BY <1>5, <2>2, <3>1 DEF Present
      <4>2. p <= Len(files'[e0]) /\ files'[e0][p] # Hole
        BY <1>5, <1>6, <4>1
      <4> QED
        BY <3>1, <4>2 DEF Present
    <3>2. CASE e # e0
      BY <1>4, <2>2, <3>2 DEF Present
    <3> QED
      BY <3>1, <3>2
  <2>3. CASE Due(e, p) /\ ~(e = e0 /\ p = p0)
    <3>1. PICK x \in Worker : Writes(x, e) /\ workers[x].good /\ workers[x].got < p
      BY <2>3 DEF Due
    <3>2. Writes(x, e)' /\ workers'[x].good /\ workers'[x].got < p
      <4>1. CASE x # w
        BY <1>3, <3>1, <4>1 DEF Writes, At
      <4>2. CASE x = w
        <5>1. e = e0
          BY <1>1, <3>1, <4>2 DEF Writes
        <5>2. p0 < p
          BY <1>8, <2>3, <3>1, <4>2, <5>1
        <5> QED
          BY <1>3, <4>2, <5>1, <5>2 DEF Writes, At
      <4> QED
        BY <4>1, <4>2
    <3> QED
      BY <3>2 DEF Due
  <2> QED
    BY <1>12, <2>1, <2>2, <2>3
<1>13. VersionInv'
  <2>1. ASSUME NEW e \in Entry
        PROVE  \E v \in 1 .. version : \A p \in 1 .. Len(files'[e]) : files'[e][p] \in {Hole, v}
    <3>1. CASE e = e0
      <4>1. version \in 1 .. version
        BY <1>0, Typed
      <4> QED
        BY <1>10, <3>1, <4>1
    <3>2. CASE e # e0
      BY <1>0, <1>4, <3>2 DEF FileInv, VersionInv
    <3> QED
      BY <3>1, <3>2
  <2>2. ASSUME NEW x \in Worker, workers'[x].at = "write"
        PROVE  /\ workers'[x].got <= Size[version][workers'[x].entry]
               /\ Len(files'[workers'[x].entry]) <= Size[version][workers'[x].entry]
               /\ \A p \in 1 .. Len(files'[workers'[x].entry]) : files'[workers'[x].entry][p] \in {Hole, version}
    <3>1. workers[x].at = "write" /\ workers'[x].entry = workers[x].entry
      BY <1>1, <1>3, <1>11, <2>2
    <3>2. workers'[x].got <= Size[version][workers'[x].entry]
      <4>1. CASE x = w
        BY <1>3, <1>8, <4>1
      <4>2. CASE x # w
        BY <1>0, <1>3, <3>1, <4>2, WriterFacts
      <4> QED
        BY <4>1, <4>2
    <3>3. PICK e \in Entry : e = workers[x].entry
      BY <1>0, Typed
    <3>4. CASE e = e0
      BY <1>10, <3>1, <3>2, <3>3, <3>4
    <3>5. CASE e # e0
      <4>1. files'[e] = files[e]
        BY <1>4, <3>5
      <4> QED
        BY <1>0, <3>1, <3>2, <3>3, <4>1, WriterFacts
    <3> QED
      BY <3>4, <3>5
  <2> QED
    BY <2>1, <2>2 DEF VersionInv, At, Wanted
<1>14. AloneInv'
  <2> SUFFICES ASSUME alone PROVE AloneInv'
    BY DEF AloneInv
  <2>1. \A x \in Worker : Alive(x) => x = w
    BY <1>0, <1>7 DEF FileInv, AloneInv
  <2>2. \A x \in Worker : workers'[x].at # "open" /\ (workers'[x].at = "write" => x = w)
    BY <1>3, <1>11, <2>1 DEF Alive
  <2>3. Len(files'[e0]) = p0
    BY <1>5, <1>6, <1>9
  <2> QED
    BY <1>3, <1>11, <2>1, <2>2, <2>3 DEF AloneInv, At
<1>15. CleanInv'
  BY <1>0, <1>3, <1>11, WriterFacts DEF CleanInv, At
<1>16. HoleInv'
  <2>1. ASSUME ~scarred, NEW e \in Entry, NEW p \in 1 .. Len(files'[e])
        PROVE  Present(e, p)' \/ Due(e, p)'
    <3>1. CASE e = e0 /\ p = p0
      <4>1. p <= Len(files'[e]) /\ files'[e][p] # Hole
        BY <1>0, <1>5, <1>6, <3>1
      <4> QED
        BY <4>1 DEF Present
    <3>2. CASE e = e0 /\ p # p0
      <4>1. p \in Nat \ {0} /\ (p \in 1 .. Len(files[e0]) \/ p \in 1 .. p0 - 1)
        BY <1>5, <1>6, <3>2
      <4>2. Present(e0, p) \/ Due(e0, p)
        BY <1>0, <1>9, <2>1, <4>1 DEF FileInv, HoleInv
      <4> QED
        BY <1>12, <3>2, <4>1, <4>2
    <3>3. CASE e # e0
      <4>1. p \in 1 .. Len(files[e]) /\ p \in Nat \ {0}
        BY <1>0, <1>4, <3>3, Typed
      <4>2. Present(e, p) \/ Due(e, p)
        BY <1>0, <2>1, <4>1 DEF FileInv, HoleInv
      <4> QED
        BY <1>12, <4>1, <4>2
    <3> QED
      BY <3>1, <3>2, <3>3
  <2>2. ASSUME ~scarred, NEW x \in Worker, workers'[x].at = "write", workers'[x].good,
               NEW p \in 1 .. workers'[x].got
        PROVE  (Present(workers[x].entry, p) \/ Due(workers[x].entry, p))'
    <3>1. PICK e \in Entry : e = workers[x].entry
      BY <1>0, Typed
    <3>2. workers'[x].entry = e
      BY <1>1, <1>3, <3>1
    <3>3. Present(e, p)' \/ Due(e, p)'
      <4>1. CASE x # w
        <5>1. workers'[x] = workers[x] /\ workers[x].at = "write"
          BY <1>3, <2>2, <4>1
        <5>2. Present(e, p) \/ Due(e, p)
          BY <1>0, <2>2, <3>1, <5>1, WriterFacts
        <5>3. p \in Nat \ {0}
          BY <1>0, <5>1, Typed
        <5> QED
          BY <1>12, <5>2, <5>3
      <4>2. CASE x = w
        <5>1. e = e0 /\ p \in 1 .. p0
          BY <1>1, <1>3, <3>1, <4>2
        <5>2. CASE p = p0
          <6>1. p <= Len(files'[e]) /\ files'[e][p] # Hole
            BY <1>0, <1>5, <1>6, <5>1, <5>2
          <6> QED
            BY <6>1 DEF Present
        <5>3. CASE p # p0
          <6>1. p \in 1 .. p0 - 1 /\ p \in Nat \ {0}
            BY <5>1, <5>3
          <6>2. Present(e, p) \/ Due(e, p)
            BY <1>9, <2>2, <5>1, <6>1
          <6> QED
            BY <1>12, <6>1, <6>2
        <5> QED
          BY <5>2, <5>3
      <4> QED
        BY <4>1, <4>2
    <3> QED
      BY <3>2, <3>3 DEF Present, Due, Writes
  <2> QED
    BY <2>1, <2>2 DEF HoleInv, At
<1>17. PassedInv'
  <2> SUFFICES ASSUME clean, ~scarred, NEW e \in Entry, Passed(e)'
               PROVE  /\ Len(files'[e]) <= Size[version][e]
                      /\ \A p \in 1 .. Size[version][e] : Present(e, p)' \/ Due(e, p)'
    BY DEF PassedInv
  <2>1. Passed(e)
    BY <1>0, <1>7, PassedBefore
  <2>2. /\ Len(files[e]) <= Size[version][e] /\ Size[version][e] \in Nat
        /\ \A p \in 1 .. Size[version][e] : Present(e, p) \/ Due(e, p)
    BY <1>0, <2>1, Typed DEF FileInv, PassedInv
  <2>3. Len(files'[e]) <= Size[version][e]
    BY <1>4, <1>10, <2>2
  <2> QED
    BY <1>12, <2>2, <2>3
<1> QED
  BY <1>13, <1>14, <1>15, <1>16, <1>17 DEF FileInv

LEMMA FileWriteLost ==
  ASSUME IInv, NEW w \in Worker, At(w, "write"), workers[w].got < Wanted(w),
         (workers[w].good /\ Unfinished) \/ (~workers[w].good /\ UNCHANGED <<clean, scarred>>),
         UNCHANGED <<files, version, calls, alone>>,
         Becomes(w, "write", workers[w].entry, workers[w].got + 1, FALSE)
  PROVE  FileInv'
<1>0. TypeOK /\ FileInv
  BY DEF IInv
<1>1. /\ \A x \in Worker : x # w => workers'[x] = workers[x]
      /\ workers'[w].at = "write" /\ workers'[w].entry = workers[w].entry
      /\ workers'[w].got = workers[w].got + 1 /\ workers'[w].good = FALSE
  BY DEF Becomes
<1>2. workers[w].at = "write" /\ Alive(w)
  BY DEF At, Alive
<1>3. /\ \A x \in Worker : workers'[x].at = workers[x].at
      /\ \A x \in Worker : Alive(x)' <=> Alive(x)
  BY <1>1, WriterStays
<1>4. ~clean'
  BY <1>0, <1>2, WriterFacts DEF Unfinished
<1>5. VersionInv'
  <2>1. \A e \in Entry : \E v \in 1 .. version : \A p \in 1 .. Len(files[e]) : files[e][p] \in {Hole, v}
    BY <1>0 DEF FileInv, VersionInv
  <2>2. ASSUME NEW x \in Worker, workers'[x].at = "write"
        PROVE  /\ workers'[x].got <= Size[version][workers'[x].entry]
               /\ Len(files[workers'[x].entry]) <= Size[version][workers'[x].entry]
               /\ \A p \in 1 .. Len(files[workers'[x].entry]) : files[workers'[x].entry][p] \in {Hole, version}
    <3>1. workers[x].at = "write" /\ workers'[x].entry = workers[x].entry
      BY <1>1, <1>3, <2>2
    <3>2. workers'[x].got <= Size[version][workers[x].entry]
      <4>1. CASE x = w
        <5>1. workers[w].got \in Nat /\ Wanted(w) \in Nat
          BY <1>0, Typed
        <5> QED
          BY <1>1, <4>1, <5>1 DEF Wanted
      <4>2. CASE x # w
        BY <1>0, <1>1, <3>1, <4>2, WriterFacts
      <4> QED
        BY <4>1, <4>2
    <3> QED
      BY <1>0, <3>1, <3>2, WriterFacts
  <2> QED
    BY <2>1, <2>2 DEF VersionInv, At, Wanted
<1>6. AloneInv'
  <2> SUFFICES ASSUME alone PROVE AloneInv'
    BY DEF AloneInv
  <2>1. \A x \in Worker : Alive(x) => x = w
    BY <1>0, <1>2 DEF FileInv, AloneInv
  <2>2. \A x \in Worker : workers'[x].at # "open" /\ (workers'[x].at = "write" => x = w)
    BY <1>2, <1>3, <2>1 DEF Alive
  <2> QED
    BY <1>1, <1>3, <2>1, <2>2 DEF AloneInv, At
<1>7. CleanInv' /\ PassedInv'
  BY <1>4 DEF CleanInv, PassedInv
<1>8. CASE workers[w].good /\ Unfinished
  <2>1. ~scarred' => ~scarred /\ alone
    BY <1>8 DEF Unfinished
  <2>2. HoleInv'
    <3> SUFFICES ASSUME ~scarred, alone PROVE HoleInv'
      BY <2>1 DEF HoleInv
    <3>1. ASSUME NEW e \in Entry, NEW p \in 1 .. Len(files[e])
          PROVE  Present(e, p)'
      <4>1. Present(e, p)
        BY <1>0, NoHoles
      <4> QED
        BY <4>1 DEF Present
    <3>2. \A x \in Worker : Alive(x) => x = w
      BY <1>0, <1>2 DEF FileInv, AloneInv
    <3>3. \A x \in Worker : workers'[x].at = "write" => ~workers'[x].good
      BY <1>1, <1>3, <3>2 DEF Alive
    <3> QED
      BY <3>1, <3>3 DEF HoleInv, At
  <2> QED
    BY <1>5, <1>6, <1>7, <2>2 DEF FileInv
<1>9. CASE ~workers[w].good /\ UNCHANGED <<clean, scarred>>
  <2>1. ASSUME NEW e \in Entry, NEW p \in Nat, Present(e, p) \/ Due(e, p)
        PROVE  Present(e, p)' \/ Due(e, p)'
    <3>1. CASE Present(e, p)
      BY <3>1 DEF Present
    <3>2. CASE Due(e, p)
      <4>1. PICK x \in Worker : Writes(x, e) /\ workers[x].good /\ workers[x].got < p
        BY <3>2 DEF Due
      <4>2. x # w
        BY <1>9, <4>1
      <4>3. Writes(x, e)' /\ workers'[x].good /\ workers'[x].got < p
        BY <1>1, <4>1, <4>2 DEF Writes, At
      <4> QED
        BY <4>3 DEF Due
    <3> QED
      BY <2>1, <3>1, <3>2
  <2>2. HoleInv'
    <3>1. ASSUME ~scarred, NEW e \in Entry, NEW p \in 1 .. Len(files[e])
          PROVE  Present(e, p)' \/ Due(e, p)'
      BY <1>0, <2>1, <3>1, Typed DEF FileInv, HoleInv
    <3>2. ASSUME ~scarred, NEW x \in Worker, workers'[x].at = "write", workers'[x].good,
                 NEW p \in 1 .. workers'[x].got
          PROVE  (Present(workers[x].entry, p) \/ Due(workers[x].entry, p))'
      <4>1. x # w /\ workers'[x] = workers[x] /\ workers[x].at = "write"
        BY <1>1, <3>2
      <4>2. Present(workers[x].entry, p) \/ Due(workers[x].entry, p)
        BY <1>0, <3>2, <4>1, WriterFacts
      <4>3. PICK e \in Entry : e = workers[x].entry
        BY <1>0, Typed
      <4>4. p \in Nat
        BY <1>0, <4>1, Typed
      <4>5. Present(e, p)' \/ Due(e, p)'
        BY <2>1, <4>2, <4>3, <4>4
      <4> QED
        BY <4>1, <4>3, <4>5 DEF Present, Due, Writes
    <3> QED
      BY <1>9, <3>1, <3>2 DEF HoleInv, At
  <2> QED
    BY <1>5, <1>6, <1>7, <2>2 DEF FileInv
<1> QED
  BY <1>8, <1>9

LEMMA FileWrite ==
  ASSUME IInv, NEW w \in Worker, WritePiece(w) PROVE FileInv'
<1>0. TypeOK
  BY DEF IInv
<1>1. /\ At(w, "write") /\ workers[w].got < Wanted(w)
      /\ UNCHANGED <<version, calls>>
  BY <1>0, Writing DEF WorkerOnly, processVars
<1>2. CASE /\ workers[w].good /\ UNCHANGED faultVars
           /\ files' = [files EXCEPT ![workers[w].entry] = Put(@, workers[w].got + 1, version)]
           /\ Becomes(w, "write", workers[w].entry, workers[w].got + 1, TRUE)
  <2>1. UNCHANGED <<version, calls, clean, alone, scarred>>
    BY <1>1, <1>2 DEF faultVars
  <2> QED
    BY <1>1, <1>2, <2>1, FileWriteGood
<1>3. CASE /\ workers[w].good /\ Loses /\ Unfinished /\ UNCHANGED <<files, alone>>
           /\ Becomes(w, "write", workers[w].entry, workers[w].got + 1, FALSE)
  BY <1>1, <1>3, FileWriteLost
<1>4. CASE /\ ~workers[w].good /\ UNCHANGED <<files, faultVars>>
           /\ Becomes(w, "write", workers[w].entry, workers[w].got + 1, FALSE)
  <2>1. UNCHANGED <<files, version, calls, alone>> /\ UNCHANGED <<clean, scarred>>
    BY <1>1, <1>4 DEF faultVars
  <2> QED
    BY <1>1, <1>4, <2>1, FileWriteLost
<1> QED
  BY <1>0, <1>2, <1>3, <1>4, Writing

LEMMA FileStep ==
  ASSUME IInv, [Next]_vars PROVE FileInv'
<1>0. FileInv
  BY DEF IInv
<1>1. CASE (\E forced \in BOOLEAN : UnpackAsset(forced)) \/ ExtractPart \/ ExtractEnd
           \/ Refuse \/ WorkerAnswers \/ WaitTimesOut \/ UNCHANGED vars
  <2>1. UNCHANGED <<files, workers, version, calls, clean, alone, scarred>>
    BY <1>1 DEF UnpackAsset, ExtractPart, ExtractEnd, Refuse, WorkerAnswers, WaitTimesOut,
                vars, zipVars, processVars, faultVars
  <2> QED
    BY <1>0, <2>1, FileKept
<1>2. CASE Start
  BY <1>2, FileStart
<1>3. CASE End
  BY <1>3, FileEnd
<1>4. CASE StartWorker
  BY <1>4, FileStartWorker
<1>5. ASSUME NEW w \in Worker, Unzip(w) PROVE FileInv'
  BY <1>5, FileExamine, FileOpen, FileFails, FileWrite, FileClose DEF Unzip
<1> QED
  BY <1>1, <1>2, <1>3, <1>4, <1>5 DEF Next

-----------------------------------------------------------------------------
(* Types.                                                                  *)

\* TypeOK without the built-in file, the files and the threads.
SmallTypes ==
  /\ version \in Version
  /\ main \in {"off", "idle", "extract", "wait"}
  /\ unpacked \in BOOLEAN /\ good \in BOOLEAN /\ scarred \in BOOLEAN
  /\ clean \in BOOLEAN /\ alone \in BOOLEAN
  /\ calls \in 0 .. MaxCalls
  /\ result \in {"none", "files", "nothing", "true", "false"}
  /\ timeouts \in 0 .. MaxTimeouts /\ lost \in 0 .. MaxLost /\ exits \in 0 .. MaxExits

AssetTypes ==
  /\ asset \in Seq(Version)
  /\ \E v \in Version : Len(asset) <= AssetSize[v]
  /\ written \in 0 .. AssetSize[version]

FileTypes ==
  /\ files \in [Entry -> Seq(Pieces)]
  /\ \A e \in Entry : \E v \in Version : Len(files[e]) <= Size[v][e]

LEMMA TypeParts ==
  TypeOK <=> SmallTypes /\ AssetTypes /\ FileTypes /\ workers \in [Worker -> Threads]
  BY DEF TypeOK, SmallTypes, AssetTypes, FileTypes, Threads

LEMMA ThreadEffect ==
  ASSUME IInv, NEW w \in Worker, Unzip(w)
  PROVE  /\ WorkerOnly /\ workers' \in [Worker -> Threads]
         /\ lost' \in {lost, lost + 1} /\ lost' <= MaxLost
         /\ clean' \in BOOLEAN /\ alone' \in BOOLEAN /\ scarred' \in BOOLEAN
         /\ Alive(w)
         /\ \A x \in Worker : x # w => workers'[x] = workers[x]
         /\ \/ files' = files
            \/ \E e \in Entry : files' = [files EXCEPT ![e] = <<>>]
            \/ \E e \in Entry : \E p \in Nat :
                 /\ p > 0 /\ files' = [files EXCEPT ![e] = Put(@, p, version)]
                 /\ Writes(w, e)'
<1>0. TypeOK /\ lost \in Nat /\ MaxLost \in Nat /\ lost <= MaxLost
      /\ clean \in BOOLEAN /\ alone \in BOOLEAN /\ scarred \in BOOLEAN
  BY UnpackingAssumption DEF IInv, TypeOK
<1>1. workers[w].entry \in Entry /\ workers[w].got + 1 \in Nat /\ workers[w].got + 1 > 0
  BY <1>0, Typed
<1>2. ASSUME Advances(w)
      PROVE  workers' \in [Worker -> Threads] /\ \A x \in Worker : x # w => workers'[x] = workers[x]
  BY <1>2 DEF Advances, Becomes
<1>3. CASE Examine(w)
  <2>1. At(w, "examine") /\ UNCHANGED <<files, faultVars>> /\ WorkerOnly
    BY <1>0, <1>3, Examines
  <2>2. workers' \in [Worker -> Threads] /\ \A x \in Worker : x # w => workers'[x] = workers[x]
    BY <1>0, <1>2, <1>3, Examines DEF Becomes
  <2> QED
    BY <1>0, <2>1, <2>2 DEF faultVars, At, Alive
<1>4. CASE OpenFile(w)
  <2>1. /\ At(w, "open") /\ UNCHANGED faultVars /\ WorkerOnly
        /\ files' = [files EXCEPT ![workers[w].entry] = <<>>]
    BY <1>0, <1>4, Opens
  <2>2. workers' \in [Worker -> Threads] /\ \A x \in Worker : x # w => workers'[x] = workers[x]
    BY <1>0, <1>4, Opens DEF Becomes
  <2> QED
    BY <1>0, <1>1, <2>1, <2>2 DEF faultVars, At, Alive
<1>5. CASE EntryFails(w)
  <2>1. /\ Alive(w) /\ UNCHANGED <<files, lost, alone>> /\ WorkerOnly
        /\ IF At(w, "write") THEN Unfinished ELSE UNCHANGED <<clean, scarred>>
    BY <1>0, <1>5, Fails
  <2>2. workers' \in [Worker -> Threads] /\ \A x \in Worker : x # w => workers'[x] = workers[x]
    BY <1>0, <1>5, Fails DEF Becomes
  <2>3. clean' \in BOOLEAN /\ scarred' \in BOOLEAN
    BY <1>0, <2>1 DEF Unfinished
  <2> QED
    BY <1>0, <2>1, <2>2, <2>3
<1>6. CASE WritePiece(w)
  <2>1. At(w, "write") /\ WorkerOnly
    BY <1>0, <1>6, Writing
  <2>2. CASE /\ workers[w].good /\ UNCHANGED faultVars
             /\ files' = [files EXCEPT ![workers[w].entry] = Put(@, workers[w].got + 1, version)]
             /\ Becomes(w, "write", workers[w].entry, workers[w].got + 1, TRUE)
    <3>1. PICK e \in Entry : e = workers[w].entry
      BY <1>1
    <3>2. Writes(w, e)'
      BY <2>2, <3>1 DEF Writes, At, Becomes
    <3>3. \E p \in Nat : p > 0 /\ files' = [files EXCEPT ![e] = Put(@, p, version)]
      BY <1>1, <2>2, <3>1
    <3>4. workers' \in [Worker -> Threads] /\ \A x \in Worker : x # w => workers'[x] = workers[x]
      BY <2>2 DEF Becomes
    <3> QED
      BY <1>0, <2>1, <2>2, <3>2, <3>3, <3>4 DEF faultVars, At, Alive
  <2>3. CASE /\ workers[w].good /\ Loses /\ Unfinished /\ UNCHANGED <<files, alone>>
             /\ Becomes(w, "write", workers[w].entry, workers[w].got + 1, FALSE)
    <3>a. lost' = lost + 1 /\ lost' <= MaxLost
      BY <1>0, <2>3 DEF Loses
    <3>b. clean' \in BOOLEAN
      BY <2>3 DEF Unfinished
    <3>c. scarred' \in BOOLEAN
      BY <1>0, <2>3, Zenon DEF Unfinished
    <3>1. lost' = lost + 1 /\ lost' <= MaxLost /\ clean' \in BOOLEAN /\ scarred' \in BOOLEAN
      BY <3>a, <3>b, <3>c
    <3>2. workers' \in [Worker -> Threads] /\ \A x \in Worker : x # w => workers'[x] = workers[x]
      BY <2>3 DEF Becomes
    <3> QED
      BY <1>0, <2>1, <2>3, <3>1, <3>2 DEF At, Alive
  <2>4. CASE /\ ~workers[w].good /\ UNCHANGED <<files, faultVars>>
             /\ Becomes(w, "write", workers[w].entry, workers[w].got + 1, FALSE)
    <3>1. workers' \in [Worker -> Threads] /\ \A x \in Worker : x # w => workers'[x] = workers[x]
      BY <2>4 DEF Becomes
    <3> QED
      BY <1>0, <2>1, <2>4, <3>1 DEF faultVars, At, Alive
  <2> QED
    BY <1>0, <1>6, <2>2, <2>3, <2>4, Writing
<1>7. CASE CloseFile(w)
  <2>1. At(w, "write") /\ UNCHANGED <<files, faultVars>> /\ WorkerOnly /\ Advances(w)
    BY <1>0, <1>7, Closes
  <2> QED
    BY <1>0, <1>2, <2>1 DEF faultVars, At, Alive
<1> QED
  BY <1>3, <1>4, <1>5, <1>6, <1>7 DEF Unzip

LEMMA TypeOfThreads ==
  ASSUME IInv, NEW w \in Worker, Unzip(w) PROVE TypeOK'
<1>0. /\ TypeOK /\ SmallTypes /\ AssetTypes /\ FileTypes
  BY TypeParts DEF IInv
<1>1. WorkerOnly /\ workers' \in [Worker -> Threads] /\ lost' \in {lost, lost + 1} /\ lost' <= MaxLost
      /\ clean' \in BOOLEAN /\ alone' \in BOOLEAN /\ scarred' \in BOOLEAN
  BY ThreadEffect
<1>2. UNCHANGED <<version, main, unpacked, good, calls, result, timeouts, exits, asset, written>>
  BY <1>1 DEF WorkerOnly, assetVars, processVars
<1>3. SmallTypes'
  <2>1. lost' \in 0 .. MaxLost
    BY <1>0, <1>1, UnpackingAssumption DEF SmallTypes
  <2> QED
    BY <1>0, <1>1, <1>2, <2>1 DEF SmallTypes
<1>4. AssetTypes'
  BY <1>0, <1>2 DEF AssetTypes
<1>5. FileTypes'
  <2>1. CASE files' = files
    BY <1>0, <2>1 DEF FileTypes
  <2>2. ASSUME NEW e \in Entry, files' = [files EXCEPT ![e] = <<>>] PROVE FileTypes'
    <3>1. files' \in [Entry -> Seq(Pieces)]
      BY <1>0, <2>2 DEF FileTypes
    <3>2. files'[e] = <<>> /\ Len(files'[e]) = 0
      BY <1>0, <2>2 DEF FileTypes
    <3>3. Len(files'[e]) <= Size[version][e]
      BY <1>0, <3>2, Typed
    <3>4. \A d \in Entry : d # e => files'[d] = files[d]
      BY <1>0, <2>2 DEF FileTypes
    <3> QED
      BY <1>0, <3>1, <3>3, <3>4 DEF FileTypes, SmallTypes
  <2>3. ASSUME NEW e \in Entry, NEW p \in Nat, p > 0,
               files' = [files EXCEPT ![e] = Put(@, p, version)], Writes(w, e)'
        PROVE FileTypes'
    <3>1. files[e] \in Seq(Pieces) /\ version \in Pieces
      BY <1>0, Typed DEF Pieces
    <3>2. files'[e] = Put(files[e], p, version)
      BY <1>0, <2>3 DEF FileTypes
    <3>3. files'[e] \in Seq(Pieces)
      BY <2>3, <3>1, <3>2, FilePut
    <3>4. files' \in [Entry -> Seq(Pieces)] /\ \A d \in Entry : d # e => files'[d] = files[d]
      BY <1>0, <2>3, <3>2, <3>3 DEF FileTypes
    <3>5. Len(files'[e]) <= Size[version][e]
      <4>1. FileInv'
        BY FileStep DEF Next
      <4>2. workers'[w].at = "write" /\ workers'[w].entry = e
        BY <2>3 DEF Writes, At
      <4>3. Len(files'[workers'[w].entry]) <= Size[version'][workers'[w].entry]
        BY <4>1, <4>2 DEF FileInv, VersionInv, At, Wanted
      <4> QED
        BY <1>2, <4>2, <4>3
    <3> QED
      BY <1>0, <3>4, <3>5 DEF FileTypes, SmallTypes
  <2> QED
    BY <2>1, <2>2, <2>3, ThreadEffect
<1> QED
  BY <1>1, <1>3, <1>4, <1>5 DEF TypeOK, SmallTypes, AssetTypes, FileTypes, Threads

LEMMA TypeOfWaiting ==
  ASSUME IInv, Start \/ End \/ Refuse \/ StartWorker \/ WorkerAnswers \/ WaitTimesOut \/ UNCHANGED vars
  PROVE  TypeOK'
<1>0. /\ TypeOK /\ SmallTypes /\ AssetTypes /\ FileTypes /\ workers \in [Worker -> Threads]
      /\ ProcessInv
  BY TypeParts DEF IInv
<1>a. MaxCalls \in Nat /\ MaxTimeouts \in Nat /\ MaxExits \in Nat /\ V \in Nat
  BY UnpackingAssumption
<1>1. FileTypes'
  <2>1. files' = files
    BY DEF Start, End, Refuse, StartWorker, WorkerAnswers, WaitTimesOut, vars, zipVars
  <2> QED
    BY <1>0, <2>1 DEF FileTypes
<1>2. AssetTypes'
  <2>1. CASE Start
    <3>1. version' \in Version /\ written' = 0 /\ asset' = asset
      BY <1>0, <1>a, <2>1 DEF Start, ProcessInv, assetVars, SmallTypes, Version
    <3>2. written' \in 0 .. AssetSize[version']
      BY <3>1, Constants
    <3>3. asset' \in Seq(Version) /\ \E v \in Version : Len(asset') <= AssetSize[v]
      BY <1>0, <3>1 DEF AssetTypes
    <3> QED
      BY <3>2, <3>3 DEF AssetTypes
  <2>2. CASE End
    <3>1. version' = version /\ written' = 0 /\ asset' = asset
      BY <2>2 DEF End
    <3>2. AssetSize[version] \in Nat
      BY <1>0, Typed
    <3> QED
      BY <1>0, <3>1, <3>2 DEF AssetTypes
  <2>3. CASE Refuse \/ StartWorker \/ WorkerAnswers \/ WaitTimesOut \/ UNCHANGED vars
    <3>1. UNCHANGED <<version, written, asset>>
      BY <2>3 DEF Refuse, StartWorker, WorkerAnswers, WaitTimesOut, vars, assetVars, processVars
    <3> QED
      BY <1>0, <3>1 DEF AssetTypes
  <2> QED
    BY <2>1, <2>2, <2>3
<1>3. workers' \in [Worker -> Threads]
  <2>1. CASE End
    <3>1. Idle \in Threads
      BY Constants DEF Idle, Threads, Places
    <3>2. workers' = [w \in Worker |-> Idle]
      BY <2>1 DEF End
    <3> QED
      BY <3>1, <3>2
  <2>2. CASE StartWorker
    <3>1. workers' = [workers EXCEPT ![calls + 1].at = "examine"]
      BY <2>2 DEF StartWorker
    <3> QED
      BY <1>0, <3>1 DEF Threads, Places
  <2>3. CASE Start \/ Refuse \/ WorkerAnswers \/ WaitTimesOut \/ UNCHANGED vars
    <3>1. workers' = workers
      BY <2>3 DEF Start, Refuse, WorkerAnswers, WaitTimesOut, vars, zipVars
    <3> QED
      BY <1>0, <3>1
  <2> QED
    BY <2>1, <2>2, <2>3
<1>4. SmallTypes'
  <2>1. CASE Start
    <3>1. version' \in Version
      BY <1>0, <1>a, <2>1 DEF Start, SmallTypes, Version
    <3> QED
      BY <1>0, <2>1, <3>1 DEF Start, SmallTypes, assetVars, zipVars, faultVars
  <2>2. CASE End
    <3>1. scarred' \in BOOLEAN
      BY <1>0, <2>2, Zenon DEF End, SmallTypes
    <3>2. exits' \in 0 .. MaxExits /\ calls' \in 0 .. MaxCalls /\ timeouts' \in 0 .. MaxTimeouts
      BY <1>0, <1>a, <2>2 DEF End, SmallTypes
    <3> QED
      BY <1>0, <2>2, <3>1, <3>2 DEF End, SmallTypes
  <2>3. CASE StartWorker
    <3>1. calls' \in 0 .. MaxCalls
      BY <1>0, <1>a, <2>3 DEF StartWorker, SmallTypes
    <3>2. clean' \in BOOLEAN /\ alone' \in BOOLEAN
      BY <1>0, <2>3, Zenon DEF StartWorker, SmallTypes
    <3> QED
      BY <1>0, <2>3, <3>1, <3>2 DEF StartWorker, SmallTypes, assetVars, processVars
  <2>4. CASE WaitTimesOut
    <3>1. timeouts' \in 0 .. MaxTimeouts
      BY <1>0, <1>a, <2>4 DEF WaitTimesOut, SmallTypes
    <3> QED
      BY <1>0, <2>4, <3>1 DEF WaitTimesOut, SmallTypes, assetVars, processVars, faultVars
  <2>5. CASE Refuse
    BY <1>0, <2>5 DEF Refuse, SmallTypes, assetVars, processVars, faultVars
  <2>6. CASE WorkerAnswers
    BY <1>0, <2>6 DEF WorkerAnswers, SmallTypes, assetVars, processVars, faultVars
  <2>7. CASE UNCHANGED vars
    BY <1>0, <2>7 DEF vars, SmallTypes, assetVars, processVars, faultVars, zipVars
  <2> QED
    BY <2>1, <2>2, <2>3, <2>4, <2>5, <2>6, <2>7
<1> QED
  BY <1>1, <1>2, <1>3, <1>4 DEF TypeOK, SmallTypes, AssetTypes, FileTypes, Threads

LEMMA TypeOfAsset ==
  ASSUME IInv, (\E forced \in BOOLEAN : UnpackAsset(forced)) \/ ExtractPart \/ ExtractEnd
  PROVE  TypeOK'
<1>0. /\ TypeOK /\ SmallTypes /\ AssetTypes /\ FileTypes /\ workers \in [Worker -> Threads]
      /\ AssetInv
  BY TypeParts DEF IInv
<1>1. UNCHANGED <<files, workers, calls, timeouts, version, exits, clean, alone, scarred>>
  BY DEF UnpackAsset, ExtractPart, ExtractEnd, zipVars, processVars, faultVars
<1>2. version \in Version /\ AssetSize[version] \in Nat
  BY <1>0, Typed
<1>3. MaxLost \in Nat
  BY UnpackingAssumption
<1>4. AssetTypes'
  <2>1. CASE \E forced \in BOOLEAN : UnpackAsset(forced)
    <3>1. (asset' = asset /\ written' = written) \/ (asset' = <<>> /\ written' = 0)
      BY <2>1 DEF UnpackAsset
    <3>2. CASE asset' = asset /\ written' = written
      BY <1>0, <1>1, <3>2 DEF AssetTypes
    <3>3. CASE asset' = <<>> /\ written' = 0
      <4>1. asset' \in Seq(Version) /\ Len(asset') <= AssetSize[version]
        BY <1>2, <3>3
      <4>2. written' \in 0 .. AssetSize[version']
        BY <1>1, <1>2, <3>3
      <4> QED
        BY <1>2, <4>1, <4>2 DEF AssetTypes
    <3> QED
      BY <3>1, <3>2, <3>3
  <2>2. CASE ExtractPart
    <3>1. /\ main = "extract" /\ written < AssetSize[version] /\ written' = written + 1
          /\ asset' = Append(asset, version) \/ asset' = asset
      BY <2>2 DEF ExtractPart
    <3>2. written \in Nat /\ asset \in Seq(Version) /\ Len(asset) <= written /\ Len(asset) \in Nat
      BY <1>0, <3>1, LenProperties DEF AssetTypes, AssetInv
    <3>3. written' \in 0 .. AssetSize[version]
      BY <1>2, <3>1, <3>2
    <3>4. CASE asset' = asset
      BY <1>0, <1>1, <3>3, <3>4 DEF AssetTypes
    <3>5. CASE asset' = Append(asset, version)
      <4>1. asset' \in Seq(Version) /\ Len(asset') = Len(asset) + 1
        BY <1>2, <3>2, <3>5
      <4>2. Len(asset') <= AssetSize[version]
        BY <1>2, <3>1, <3>2, <4>1
      <4> QED
        BY <1>1, <1>2, <3>3, <4>1, <4>2 DEF AssetTypes
    <3> QED
      BY <3>1, <3>4, <3>5
  <2>3. CASE ExtractEnd
    BY <1>0, <1>1, <1>2, <2>3 DEF ExtractEnd, AssetTypes
  <2> QED
    BY <2>1, <2>2, <2>3
<1>5. SmallTypes'
  <2>1. CASE \E forced \in BOOLEAN : UnpackAsset(forced)
    <3>1. lost' = lost /\ main' \in {main, "extract"} /\ result' \in {"true", "none", "false"}
          /\ unpacked' \in {unpacked, TRUE} /\ good' \in {good, TRUE}
      BY <2>1 DEF UnpackAsset, faultVars
    <3> QED
      BY <1>0, <1>1, <3>1 DEF SmallTypes
  <2>2. CASE ExtractPart
    <3>1. lost' \in 0 .. MaxLost
      BY <1>0, <1>3, <2>2 DEF ExtractPart, Loses, SmallTypes
    <3>2. good' \in {good, FALSE} /\ UNCHANGED <<main, result, unpacked>>
      BY <2>2 DEF ExtractPart
    <3> QED
      BY <1>0, <1>1, <3>1, <3>2 DEF SmallTypes
  <2>3. CASE ExtractEnd
    BY <1>0, <1>1, <2>3 DEF ExtractEnd, SmallTypes, faultVars
  <2> QED
    BY <2>1, <2>2, <2>3
<1>6. FileTypes' /\ workers' \in [Worker -> Threads]
  BY <1>0, <1>1 DEF FileTypes
<1> QED
  BY <1>4, <1>5, <1>6 DEF TypeOK, SmallTypes, AssetTypes, FileTypes, Threads

LEMMA TypeStep == IInv /\ [Next]_vars => TypeOK'
  BY TypeOfThreads, TypeOfWaiting, TypeOfAsset DEF Next

-----------------------------------------------------------------------------
(* The calling thread and the built-in file.                               *)

LEMMA ProcessStep ==
  ASSUME IInv, [Next]_vars PROVE ProcessInv'
<1>0. TypeOK /\ ProcessInv /\ calls \in Nat /\ MaxCalls \in Nat
      /\ (calls > 0 => calls \in Worker)
  BY Typed, UnpackingAssumption DEF IInv
<1> USE DEF ProcessInv
<1>1. CASE Start
  BY <1>0, <1>1 DEF Start, assetVars, zipVars
<1>2. CASE End
  BY <1>0, <1>2 DEF End
<1>3. CASE (\E forced \in BOOLEAN : UnpackAsset(forced)) \/ ExtractPart \/ ExtractEnd
  <2>1. /\ UNCHANGED <<calls, workers>> /\ main' # "off" /\ main' # "wait"
        /\ result' # "files" \/ result' = result
    BY <1>3 DEF UnpackAsset, ExtractPart, ExtractEnd, zipVars
  <2>2. result' = "true" => unpacked'
    BY <1>0, <1>3 DEF UnpackAsset, ExtractPart, ExtractEnd
  <2> QED
    BY <1>0, <2>1, <2>2
<1>4. CASE Refuse
  BY <1>0, <1>4 DEF Refuse, assetVars
<1>5. CASE StartWorker
  <2>1. /\ calls' = calls + 1 /\ main' = "wait" /\ result' = "none"
        /\ workers' = [workers EXCEPT ![calls + 1].at = "examine"]
    BY <1>5 DEF StartWorker
  <2>2. \A w \in Worker : w > calls' => workers'[w] = Idle
    BY <1>0, <2>1 DEF TypeOK, Worker
  <2> QED
    BY <1>0, <2>1, <2>2
<1>6. CASE WorkerAnswers
  BY <1>0, <1>6 DEF WorkerAnswers, assetVars
<1>7. CASE WaitTimesOut
  BY <1>0, <1>7 DEF WaitTimesOut, assetVars
<1>8. ASSUME NEW w \in Worker, Unzip(w) PROVE ProcessInv'
  <2>1. /\ UNCHANGED <<main, result, calls, unpacked, written>> /\ Alive(w)
        /\ \A x \in Worker : x # w => workers'[x] = workers[x]
    BY <1>8, ThreadEffect DEF WorkerOnly, assetVars
  <2>2. workers[w] # Idle /\ workers[w].at # "done"
    BY <2>1 DEF Alive, Idle
  <2>3. ~(w > calls)
    BY <1>0, <2>2
  <2>4. \A x \in Worker : x > calls' => workers'[x] = Idle
    BY <1>0, <2>1, <2>3
  <2>5. result' = "files" => calls' > 0 /\ workers'[calls'].at = "done"
    BY <1>0, <2>1, <2>2
  <2>6. main # "off"
    <3>1. w \in Nat /\ w > 0
      BY <1>0 DEF Worker
    <3> QED
      BY <1>0, <2>3, <3>1
  <2> QED
    BY <1>0, <2>1, <2>4, <2>5, <2>6
<1>9. CASE UNCHANGED vars
  BY <1>0, <1>9 DEF vars, assetVars, zipVars
<1> QED
  BY <1>1, <1>2, <1>3, <1>4, <1>5, <1>6, <1>7, <1>8, <1>9 DEF Next

LEMMA AssetStep ==
  ASSUME IInv, [Next]_vars PROVE AssetInv'
<1>0. /\ TypeOK /\ AssetInv /\ ProcessInv
      /\ version \in Nat /\ version > 0 /\ version \in Version
  BY Typed DEF IInv
<1>0a. /\ asset \in Seq(Version) /\ Len(asset) \in Nat /\ written \in Nat
       /\ AssetSize[version] \in Nat
  BY <1>0, Typed, LenProperties DEF TypeOK
<1>1. CASE Start
  <2>1. /\ main' = "idle" /\ version' \in version .. V /\ UNCHANGED <<asset, good, unpacked>>
        /\ ~unpacked
    BY <1>0, <1>1 DEF Start, ProcessInv, assetVars
  <2>2. 1 .. version \subseteq 1 .. version'
    BY <1>0, <2>1, Constants
  <2> QED
    BY <1>0, <2>1, <2>2 DEF AssetInv
<1>2. CASE End
  <2>1. main' = "off" /\ ~unpacked' /\ UNCHANGED <<version, asset>>
    BY <1>2 DEF End
  <2> QED
    BY <1>0, <2>1 DEF AssetInv
<1>3. ASSUME NEW forced \in BOOLEAN, UnpackAsset(forced) PROVE AssetInv'
  <2>0. main = "idle" /\ version' = version
    BY <1>3 DEF UnpackAsset, processVars
  <2>1. CASE /\ (~forced /\ unpacked) \/ Len(asset) = AssetSize[version]
             /\ UNCHANGED <<main, asset, written, good>>
    BY <1>0, <2>0, <2>1 DEF AssetInv
  <2>2. CASE main' = "extract" /\ asset' = <<>> /\ written' = 0
    <3>1. Len(asset') = 0
      BY <2>2
    <3>2. 1 \in 1 .. version
      BY <1>0
    <3> QED
      BY <2>0, <2>2, <3>1, <3>2 DEF AssetInv
  <2>3. CASE UNCHANGED <<main, asset, written, good, unpacked>>
    BY <1>0, <2>0, <2>3 DEF AssetInv
  <2> QED
    BY <1>3, <2>1, <2>2, <2>3 DEF UnpackAsset
<1>4. CASE ExtractPart
  <2>1. /\ main = "extract" /\ main' = "extract" /\ written' = written + 1 /\ version' = version
        /\ \/ good /\ asset' = Append(asset, version) /\ good' = good
           \/ ~good' /\ asset' = asset
    BY <1>4 DEF ExtractPart, processVars
  <2>2. /\ \A p \in 1 .. Len(asset) : asset[p] = version
        /\ Len(asset) <= written /\ (good => Len(asset) = written)
    BY <1>0, <2>1 DEF AssetInv
  <2>3. version \in 1 .. version
    BY <1>0
  <2>4. CASE good /\ asset' = Append(asset, version) /\ good' = good
    <3>1. /\ Len(asset') = Len(asset) + 1
          /\ \A p \in 1 .. Len(asset) : asset'[p] = asset[p]
          /\ asset'[Len(asset) + 1] = version
      BY <1>0, <1>0a, <2>4, AppendProperties
    <3>2. \A p \in 1 .. Len(asset') : asset'[p] = version
      BY <1>0a, <2>2, <3>1
    <3>3. Len(asset') = written'
      BY <2>1, <2>2, <2>4, <3>1
    <3> QED
      BY <1>0a, <2>1, <2>3, <3>2, <3>3 DEF AssetInv
  <2>5. CASE ~good' /\ asset' = asset
    <3>1. Len(asset') <= written'
      BY <1>0a, <2>1, <2>2, <2>5
    <3> QED
      BY <2>1, <2>2, <2>3, <2>5, <3>1 DEF AssetInv
  <2> QED
    BY <2>1, <2>4, <2>5
<1>5. CASE ExtractEnd
  <2>1. /\ main = "extract" /\ main' = "idle" /\ written = AssetSize[version]
        /\ UNCHANGED <<version, asset, good>>
    BY <1>5 DEF ExtractEnd, processVars
  <2> QED
    BY <1>0, <2>1 DEF AssetInv
<1>6. CASE Refuse \/ StartWorker \/ WorkerAnswers \/ WaitTimesOut
  <2>1. UNCHANGED <<version, asset, unpacked, good>> /\ main # "extract" /\ main' # "extract"
    BY <1>6 DEF Refuse, StartWorker, WorkerAnswers, WaitTimesOut, assetVars, processVars
  <2> QED
    BY <1>0, <2>1 DEF AssetInv
<1>7. CASE (\E w \in Worker : Unzip(w)) \/ UNCHANGED vars
  <2>1. UNCHANGED <<version, main, asset, unpacked, written, good>>
    BY <1>7, ThreadEffect DEF WorkerOnly, vars, assetVars, processVars
  <2> QED
    BY <1>0, <2>1 DEF AssetInv
<1> QED
  BY <1>1, <1>2, <1>3, <1>4, <1>5, <1>6, <1>7 DEF Next

-----------------------------------------------------------------------------
(* Theorems.                                                               *)

\* The invariant holds of all reachable states.
THEOREM Invariance == Spec => []IInv
<1>1. IInv /\ [Next]_vars => IInv'
  BY TypeStep, ProcessStep, AssetStep, FileStep DEF IInv
<1> QED
  BY InitInv, <1>1, PTL DEF Spec

\* The state is of its types: no file grows longer than some version of it.
THEOREM TypeCorrect == Spec => []TypeOK
<1>1. IInv => TypeOK
  BY DEF IInv
<1> QED
  BY Invariance, <1>1, PTL

LEMMA WholeOfVersion ==
  ASSUME NEW S, NEW file \in Seq(S), NEW v,
         \A p \in 1 .. Len(file) : file[p] = v
  PROVE  file = AllWhole(v, Len(file))
  BY LenProperties DEF AllWhole

\* What is handed out is whole: the files of an archive, however many threads
\* have worked on them before, and a built-in file (UnpackFilesFromZIP,
\* UnpackAsset).
THEOREM Whole == Spec => []UnpackedIsWhole
<1>1. IInv => ArchiveIsWhole
  <2> SUFFICES ASSUME IInv, main = "idle", result = "files", Busy = {}, clean, ~scarred,
                      NEW e \in Entry
               PROVE  WholeFor(files[e], Size[version][e])
    BY DEF ArchiveIsWhole
  <2>0. TypeOK /\ ProcessInv /\ FileInv
    BY DEF IInv
  <2>1. Passed(e)
    BY <2>0 DEF ProcessInv, Passed, At
  <2>2. /\ Len(files[e]) <= Size[version][e]
        /\ \A p \in 1 .. Size[version][e] : Present(e, p) \/ Due(e, p)
    BY <2>0, <2>1 DEF FileInv, PassedInv
  <2>3. \A p \in 1 .. Size[version][e] : ~Due(e, p)
    BY DEF Due, Writes, At, Busy, Alive
  <2>4. \A p \in 1 .. Size[version][e] : p <= Len(files[e]) /\ files[e][p] # Hole
    BY <2>2, <2>3 DEF Present
  <2>5. files[e] \in Seq(Pieces) /\ Len(files[e]) \in Nat /\ Size[version][e] \in Nat \ {0}
    BY <2>0, Typed
  <2>6. Len(files[e]) = Size[version][e]
    <3>1. Size[version][e] \in 1 .. Size[version][e]
      BY <2>5
    <3> QED
      BY <2>2, <2>4, <2>5, <3>1
  <2>7. PICK v \in 1 .. version : \A p \in 1 .. Len(files[e]) : files[e][p] \in {Hole, v}
    BY <2>0 DEF FileInv, VersionInv
  <2>8. \A p \in 1 .. Len(files[e]) : files[e][p] = v
    BY <2>4, <2>6, <2>7
  <2> QED
    BY <2>5, <2>6, <2>8, WholeOfVersion DEF WholeFor
<1>2. IInv => AssetIsWhole
  <2> SUFFICES ASSUME IInv, main = "idle", result = "true", good
               PROVE  WholeFor(asset, AssetSize[version])
    BY DEF AssetIsWhole
  <2>1. Len(asset) = AssetSize[version] /\ asset \in Seq(Version)
    BY DEF IInv, ProcessInv, AssetInv, TypeOK
  <2>2. PICK v \in 1 .. version : \A p \in 1 .. Len(asset) : asset[p] = v
    BY DEF IInv, AssetInv
  <2> QED
    BY <2>1, <2>2, WholeOfVersion DEF WholeFor
<1>3. IInv => UnpackedIsWhole
  BY <1>1, <1>2 DEF UnpackedIsWhole
<1> QED
  BY Invariance, <1>3, PTL

\* A thread that has the files to itself leaves a whole one as it is
\* (UnZipUsingMinizip).
THEOREM Idempotent == Spec => LeavesWholeAlone
<1>1. ASSUME IInv, [Next]_vars, NEW e \in Entry, alone, Cardinality(Busy) = 1,
             files[e] = AllWhole(version, Size[version][e])
      PROVE  files'[e] = files[e]
  <2>0. TypeOK /\ FileInv
    BY <1>1 DEF IInv
  <2>1. Len(files[e]) = Size[version][e]
    <3>1. Size[version][e] \in Nat /\ files[e] \in Seq(Pieces)
      BY <2>0, Typed
    <3>2. DOMAIN files[e] = 1 .. Size[version][e] /\ DOMAIN files[e] = 1 .. Len(files[e])
          /\ Len(files[e]) \in Nat
      BY <1>1, <3>1, LenProperties DEF AllWhole
    <3> QED
      BY <3>1, <3>2
  <2>2. ASSUME NEW w \in Worker, OpenFile(w) PROVE files'[e] = files[e]
    <3>1. At(w, "open") /\ files' = [files EXCEPT ![workers[w].entry] = <<>>]
      BY <2>0, <2>2, Opens
    <3>2. Len(files[workers[w].entry]) # Wanted(w)
      BY <1>1, <2>0, <3>1 DEF FileInv, AloneInv
    <3>3. workers[w].entry # e
      BY <2>1, <3>2 DEF Wanted
    <3> QED
      BY <2>0, <3>1, <3>3 DEF TypeOK
  <2>3. ASSUME NEW w \in Worker, WritePiece(w) PROVE files'[e] = files[e]
    <3>1. At(w, "write") /\ workers[w].got < Wanted(w)
      BY <2>0, <2>3, Writing
    <3>2. CASE files' = files
      BY <3>2
    <3>3. CASE workers[w].good
               /\ files' = [files EXCEPT ![workers[w].entry] = Put(@, workers[w].got + 1, version)]
      <4>1. Len(files[workers[w].entry]) = workers[w].got
        BY <1>1, <2>0, <3>1, <3>3, WriterFacts DEF At
      <4>2. workers[w].got \in Nat /\ Wanted(w) \in Nat
        BY <2>0, Typed
      <4>3. workers[w].entry # e
        BY <2>1, <3>1, <4>1, <4>2 DEF Wanted
      <4> QED
        BY <2>0, <3>3, <4>3 DEF TypeOK
    <3> QED
      BY <2>0, <2>3, <3>2, <3>3, Writing
  <2>4. ASSUME NEW w \in Worker, Examine(w) \/ EntryFails(w) \/ CloseFile(w)
        PROVE  files' = files
    BY <2>4 DEF Examine, EntryFails, CloseFile
  <2>5. CASE ~(\E w \in Worker : Unzip(w))
    <3>1. files' = files
      BY <1>1, <2>5 DEF Next, Start, End, UnpackAsset, ExtractPart, ExtractEnd, Refuse,
           StartWorker, WorkerAnswers, WaitTimesOut, vars, zipVars
    <3> QED
      BY <3>1
  <2> QED
    BY <2>2, <2>3, <2>4, <2>5 DEF Unzip
<1>2. IInv /\ [Next]_vars =>
        [\A e \in Entry :
           /\ alone /\ Cardinality(Busy) = 1
           /\ files[e] = AllWhole(version, Size[version][e])
           => files'[e] = files[e]]_vars
  BY <1>1
<1> QED
  BY Invariance, <1>2, PTL DEF Spec, LeavesWholeAlone

=============================================================================

--------------------------- MODULE Downloader_proofs ---------------------------
(***************************************************************************)
(* Theorems about ChunkedDownload, for any number of chunks, pieces and    *)
(* tries, any faults and any bound on them; and about DownloadCache, for   *)
(* any tasks, scenarios, sizes and capacity, and any number of faults.     *)
(*                                                                         *)
(* ChunkedDownload: the shared counter is the number of pieces that are    *)
(* counted by their chunks: a set, so that its cardinality does what a sum *)
(* over the chunks would.  DownloadCache: its sums are loops over the      *)
(* tasks, and what they have in common with other loops comes first.       *)
(***************************************************************************)
EXTENDS ChunkedDownload, DownloadCache, FiniteSetTheorems, WellFoundedInduction, TLAPS

-----------------------------------------------------------------------------
(* ChunkedDownload.                                                        *)

\* The i-th piece of a chunk, for each that its thread has counted.
Piece == Chunk \X (1 .. FileSize)
Counted == {x \in Piece : x[2] <= got[x[1]]}

\* Its place in the file.
PositionOf(c, i) == (c - 1) * P + i

Right == {p \in Position : file[p] = "right"}

-----------------------------------------------------------------------------
(* The inductive invariant.                                                *)

\* A thread that is about to ask, or that gives up, has counted nothing.
CountInv ==
  /\ progress = Cardinality(Counted)
  /\ \A c \in Chunk : pc[c] \in {"try", "giveUp"} => got[c] = 0

\* What a thread has counted is its chunk's beginning, and it is in the file; a
\* chunk that is all there is not given back.
ChunkInv ==
  /\ ~overrun
  /\ \A c \in Chunk :
       /\ got[c] <= P
       /\ pc[c] \in {"body", "reply"} => reply[c] = "partial"
       /\ pc[c] = "reply" /\ outcome[c] # "ok" => got[c] < P
       /\ \A i \in 1 .. got[c] : file[PositionOf(c, i)] = "right"

\* The progress thread has seen all of it, or has been told to end.
SeenInv == sampler = "done" /\ ~hasFailed /\ ~stop => \A c \in Chunk : got[c] = P

\* From the decision on the file does not change any more.
CallerInv ==
  /\ main = "decide" => sampler = "done"
  /\ destination => main = "returned"
  /\ main = "rename" \/ destination => Right = Position

IInv ==
  /\ TypeOK /\ CountInv
  /\ honest => ChunkInv /\ SeenInv /\ CallerInv

-----------------------------------------------------------------------------
(* Facts about sizes and places.                                           *)

LEMMA SizeFacts == FileSize \in Nat /\ P <= FileSize /\ K * FileSize \in Nat
<1>1. K \in Nat /\ P \in Nat /\ K >= 1
  BY ChunkAssumption
<1>2. K * P = P + (K - 1) * P /\ (K - 1) * P >= 0
  BY <1>1, Z3
<1> QED BY <1>1, <1>2 DEF FileSize

LEMMA PlaceExists ==
  ASSUME NEW c \in Chunk, NEW i \in 1 .. P
  PROVE  PositionOf(c, i) \in Position
<1>1. c \in Nat /\ c >= 1 /\ c <= K /\ K \in Nat /\ P \in Nat /\ i \in Nat /\ i >= 1 /\ i <= P
  BY ChunkAssumption DEF Chunk
<1>2. (c - 1) * P >= 0 /\ (c - 1) * P \in Int
  BY <1>1, Z3
<1>3. K * P = (c - 1) * P + P + (K - c) * P /\ (K - c) * P >= 0
  BY <1>1, Z3
<1> QED BY <1>1, <1>2, <1>3 DEF PositionOf, Position, FileSize

LEMMA PlacesDiffer ==
  ASSUME NEW c \in Chunk, NEW d \in Chunk, NEW i \in 1 .. P, NEW j \in 1 .. P,
         PositionOf(c, i) = PositionOf(d, j)
  PROVE  c = d /\ i = j
<1>1. /\ c \in Nat /\ d \in Nat /\ P \in Nat
      /\ i \in Nat /\ i >= 1 /\ i <= P /\ j \in Nat /\ j >= 1 /\ j <= P
  BY ChunkAssumption DEF Chunk
<1>2. ASSUME NEW a \in Nat, NEW b \in Nat, a < b
      PROVE  (b - 1) * P >= (a - 1) * P + P
  <2>1. (b - 1) * P = (a - 1) * P + P + (b - a - 1) * P /\ (b - a - 1) * P >= 0
    BY <1>1, <1>2, Z3
  <2> QED BY <2>1, <1>1, Z3
<1>3. (c - 1) * P \in Int /\ (d - 1) * P \in Int
  BY <1>1, Z3
<1>4. (c - 1) * P + i = (d - 1) * P + j
  BY DEF PositionOf
<1>5. CASE c < d
  BY <1>1, <1>2, <1>3, <1>4, <1>5
<1>6. CASE d < c
  BY <1>1, <1>2, <1>3, <1>4, <1>6
<1>7. CASE c = d
  BY <1>1, <1>3, <1>4, <1>7
<1> QED BY <1>1, <1>5, <1>6, <1>7

LEMMA ProductSize ==
  ASSUME NEW m \in Nat, NEW n \in Nat
  PROVE  IsFiniteSet((1 .. m) \X (1 .. n)) /\ Cardinality((1 .. m) \X (1 .. n)) = m * n
<1> DEFINE S == 1 .. m
           T == 1 .. n
<1>1. IsFiniteSet(S) /\ Cardinality(S) = m /\ IsFiniteSet(T) /\ Cardinality(T) = n
  BY FS_Interval
<1> HIDE DEF S, T
<1>2. IsFiniteSet(S \X T) /\ Cardinality(S \X T) = Cardinality(S) * Cardinality(T)
  BY <1>1, FS_Product
<1>3. IsFiniteSet(S \X T) /\ Cardinality(S \X T) = m * n
  BY <1>1, <1>2
<1> QED BY <1>3 DEF S, T

Whole == Chunk \X (1 .. P)

LEMMA WholeFinite == IsFiniteSet(Whole) /\ Cardinality(Whole) = FileSize
BY ProductSize, ChunkAssumption DEF Whole, Chunk, FileSize

\* Every position is the place of a piece: there are as many of one as of the other.
LEMMA PlacesCover ==
  ASSUME NEW p \in Position
  PROVE  \E c \in Chunk, i \in 1 .. P : p = PositionOf(c, i)
<1> DEFINE f == [x \in Whole |-> PositionOf(x[1], x[2])]
<1>1. K \in Nat /\ P \in Nat
  BY ChunkAssumption
<1>2. IsFiniteSet(Position) /\ Cardinality(Position) = FileSize
  BY SizeFacts, FS_Interval DEF Position
<1>3. Cardinality(Whole) = FileSize
  BY WholeFinite
<1>4. f \in Injection(Whole, Position)
  <2>1. f \in [Whole -> Position]
    BY PlaceExists DEF Whole
  <2>2. \A x, y \in Whole : f[x] = f[y] => x = y
    BY PlacesDiffer DEF Whole
  <2> QED BY <2>1, <2>2 DEF Injection, IsInjective
<1>5. f \in Surjection(Whole, Position)
  BY <1>2, <1>3, <1>4, FS_Injection
<1>6. PICK x \in Whole : f[x] = p
  BY <1>5 DEF Surjection
<1> QED BY <1>6 DEF Whole

LEMMA PieceFinite == IsFiniteSet(Piece) /\ Cardinality(Piece) = K * FileSize
BY ProductSize, SizeFacts, ChunkAssumption DEF Piece, Chunk

LEMMA CountedFinite ==
  IsFiniteSet(Counted) /\ Cardinality(Counted) \in 0 .. K * FileSize
<1>1. Counted \in SUBSET Piece
  BY DEF Counted
<1>2. IsFiniteSet(Counted) /\ Cardinality(Counted) <= K * FileSize
  BY <1>1, PieceFinite, FS_Subset
<1> QED BY <1>2, FS_CardinalityType, SizeFacts

\* While no chunk has counted more than it has, all of it is counted only when
\* every chunk is there.
LEMMA AllCounted ==
  ASSUME TypeOK, \A c \in Chunk : got[c] <= P, Cardinality(Counted) >= FileSize
  PROVE  \A c \in Chunk : got[c] = P
<1>1. K \in Nat /\ P \in Nat \ {0} /\ got \in [Chunk -> 0 .. FileSize]
  BY ChunkAssumption DEF TypeOK
<1>2. IsFiniteSet(Whole) /\ Cardinality(Whole) = FileSize
  BY WholeFinite
<1>3. Counted \in SUBSET Whole
  <2> SUFFICES ASSUME NEW x \in Piece, x[2] <= got[x[1]] PROVE x \in Whole
    BY DEF Counted
  <2>1. x[1] \in Chunk /\ x[2] \in 1 .. FileSize /\ x = <<x[1], x[2]>>
    BY DEF Piece
  <2>2. x[2] <= P
    BY <1>1, <2>1, SizeFacts
  <2> QED BY <1>1, <2>1, <2>2, SizeFacts DEF Whole
<1>4. Cardinality(Counted) = Cardinality(Whole)
  BY <1>2, <1>3, FS_Subset, CountedFinite, SizeFacts
<1>5. Counted = Whole
  BY <1>2, <1>3, <1>4, FS_Subset
<1> SUFFICES ASSUME NEW c \in Chunk PROVE got[c] >= P
  BY <1>1, SizeFacts
<1>6. <<c, P>> \in Whole
  BY <1>1 DEF Whole
<1> QED BY <1>5, <1>6 DEF Counted

-----------------------------------------------------------------------------
(* The initial state.                                                      *)

LEMMA InitInv == Init => IInv
<1> SUFFICES ASSUME Init PROVE IInv
  OBVIOUS
<1>1. 0 \in 0 .. Retry - 1 /\ 0 \in 0 .. FileSize /\ 0 \in 0 .. K * FileSize /\ 0 \in 0 .. MaxTrouble
  BY ChunkAssumption, SizeFacts
<1>2. TypeOK
  BY <1>1 DEF Init, TypeOK, AllReplies
<1>3. CountInv
  <2>1. \A x \in Piece : ~(x[2] <= got[x[1]])
    BY SizeFacts DEF Init, Piece
  <2>2. Counted = {}
    BY <2>1 DEF Counted
  <2> QED BY <2>2, FS_EmptySet DEF CountInv, Init
<1>4. ChunkInv /\ SeenInv /\ CallerInv
  BY ChunkAssumption DEF Init, ChunkInv, SeenInv, CallerInv
<1> QED BY <1>2, <1>3, <1>4 DEF IInv

-----------------------------------------------------------------------------
(* Each conjunct of the invariant.                                         *)

\* Everything but the bound on the counter.
ValueOK ==
  /\ pc \in [Chunk -> {"try", "body", "reply", "giveUp", "done"}]
  /\ tries \in [Chunk -> 0 .. Retry - 1]
  /\ reply \in [Chunk -> AllReplies]
  /\ got \in [Chunk -> 0 .. FileSize]
  /\ outcome \in [Chunk -> {"ok", "bad", "full"}]
  /\ hasFailed \in BOOLEAN
  /\ stop \in BOOLEAN
  /\ sampler \in {"loop", "sleep", "done"}
  /\ file \in [Position -> {"hole", "right", "wrong"}]
  /\ overrun \in BOOLEAN
  /\ main \in {"head", "chunks", "sampler", "decide", "rename", "returned"}
  /\ destination \in BOOLEAN
  /\ result \in {"none", "true", "false"}
  /\ trouble \in 0 .. MaxTrouble
  /\ honest \in BOOLEAN

LEMMA TroubleType ==
  ASSUME trouble \in 0 .. MaxTrouble, honest \in BOOLEAN, NEW b \in BOOLEAN, Trouble(b)
  PROVE  trouble' \in 0 .. MaxTrouble /\ honest' \in BOOLEAN
<1>1. trouble' \in 0 .. MaxTrouble
  BY ChunkAssumption DEF Trouble
<1>2. honest' \in BOOLEAN
  BY DEF Trouble
<1> QED BY <1>1, <1>2

LEMMA FaultType ==
  ASSUME trouble \in 0 .. MaxTrouble, honest \in BOOLEAN, NEW f, Fault(f)
  PROVE  trouble' \in 0 .. MaxTrouble /\ honest' \in BOOLEAN
BY TroubleType DEF Fault

LEMMA BodyFits == \A r : BodyLength(r) \in 1 .. FileSize
BY SizeFacts, ChunkAssumption DEF BodyLength

LEMMA NextTryType ==
  ASSUME tries \in [Chunk -> 0 .. Retry - 1], NEW c \in Chunk, ~LastTry(c), NextTry(c)
  PROVE  tries' \in [Chunk -> 0 .. Retry - 1]
<1>1. tries[c] + 1 \in 0 .. Retry - 1
  BY ChunkAssumption DEF LastTry
<1> QED BY <1>1 DEF NextTry

LEMMA ValueStep ==
  ASSUME TypeOK, [Next]_vars
  PROVE  ValueOK'
<1>t. ValueOK
  BY DEF TypeOK, ValueOK
<1> USE DEF sharedVars, fileVars, mainVars, troubleVars
<1>0. CASE UNCHANGED vars
  BY <1>0, <1>t DEF ValueOK, vars, chunkVars
<1>1. ASSUME NEW c \in Chunk, DownloadChunk(c)
      PROVE  ValueOK'
  <2>1. CASE FailFast(c) \/ GiveUp(c)
    <3>1. pc' \in [Chunk -> {"try", "body", "reply", "giveUp", "done"}]
      BY <2>1, <1>t DEF FailFast, GiveUp, Goto, ValueOK
    <3>2. hasFailed' \in BOOLEAN
      BY <2>1, <1>t DEF FailFast, GiveUp, ValueOK
    <3> QED BY <2>1, <3>1, <3>2, <1>t DEF FailFast, GiveUp, ValueOK
  <2>2. CASE OpenFails(c)
    <3>1. trouble' \in 0 .. MaxTrouble /\ honest' \in BOOLEAN
      BY <2>2, <1>t, FaultType DEF OpenFails, ValueOK
    <3>2. tries' \in [Chunk -> 0 .. Retry - 1]
      BY <2>2, <1>t, NextTryType DEF OpenFails, ValueOK
    <3>3. pc' \in [Chunk -> {"try", "body", "reply", "giveUp", "done"}]
      BY <2>2, <1>t DEF OpenFails, ValueOK, Goto, NextTry
    <3> QED BY <2>2, <3>1, <3>2, <3>3, <1>t DEF OpenFails, ValueOK
  <2>3. CASE Request(c)
    <3>1. trouble' \in 0 .. MaxTrouble /\ honest' \in BOOLEAN
      BY <2>3, <1>t, TroubleType DEF Request, ValueOK
    <3>2. reply' \in [Chunk -> AllReplies]
      BY <2>3, <1>t, ChunkAssumption DEF Request, ValueOK
    <3>3. got' \in [Chunk -> 0 .. FileSize]
      BY <2>3, <1>t, SizeFacts DEF Request, ValueOK
    <3>4. pc' \in [Chunk -> {"try", "body", "reply", "giveUp", "done"}]
      BY <2>3, <1>t DEF Request, ValueOK, Goto
    <3> QED BY <2>3, <3>1, <3>2, <3>3, <3>4, <1>t DEF Request, ValueOK
  <2>4. CASE Receive(c)
    <3>1. got[c] + 1 \in 0 .. FileSize
      BY <2>4, <1>t, BodyFits, SizeFacts DEF Receive, ValueOK
    <3>2. got' \in [Chunk -> 0 .. FileSize]
      BY <2>4, <3>1, <1>t DEF Receive, ValueOK
    <3>3. file' \in [Position -> {"hole", "right", "wrong"}] /\ overrun' \in BOOLEAN
      BY <2>4, <1>t DEF Receive, ValueOK, Content
    <3> QED BY <2>4, <3>2, <3>3, <1>t DEF Receive, ValueOK
  <2>5. CASE Reply(c) \/ ReceiverStops(c)
    BY <2>5, <1>t DEF Reply, ReceiverStops, EndGet, Goto, ValueOK
  <2>6. CASE GetFails(c)
    <3>1. trouble' \in 0 .. MaxTrouble /\ honest' \in BOOLEAN
      BY <2>6, <1>t, FaultType DEF GetFails, ValueOK
    <3> QED BY <2>6, <3>1, <1>t DEF GetFails, EndGet, Goto, ValueOK
  <2>7. CASE Complete(c)
    <3>1. trouble' \in 0 .. MaxTrouble /\ honest' \in BOOLEAN
      BY <2>7, <1>t, FaultType DEF Complete, ValueOK
    <3>2. file' \in [Position -> {"hole", "right", "wrong"}]
      BY <2>7, <1>t DEF Complete, ValueOK
    <3> QED BY <2>7, <3>1, <3>2, <1>t DEF Complete, Goto, ValueOK
  <2>8. CASE Revert(c)
    <3>1. tries' \in [Chunk -> 0 .. Retry - 1]
      BY <2>8, <1>t, NextTryType DEF Revert, ValueOK
    <3>2. got' \in [Chunk -> 0 .. FileSize]
      BY <2>8, <1>t, SizeFacts DEF Revert, ValueOK
    <3>3. pc' \in [Chunk -> {"try", "body", "reply", "giveUp", "done"}]
      BY <2>8, <1>t DEF Revert, ValueOK, Goto, NextTry
    <3> QED BY <2>8, <3>1, <3>2, <3>3, <1>t DEF Revert, ValueOK
  <2> QED BY <1>1, <2>1, <2>2, <2>3, <2>4, <2>5, <2>6, <2>7, <2>8 DEF DownloadChunk
<1>2. CASE Sampler \/ StopDownload
  <2>1. stop' \in BOOLEAN
    BY <1>2, <1>t DEF Sampler, Sample, Notify, StopDownload, ValueOK
  <2>2. sampler' \in {"loop", "sleep", "done"}
    BY <1>2, <1>t DEF Sampler, Sample, Notify, StopDownload, ValueOK
  <2> QED BY <1>2, <2>1, <2>2, <1>t DEF Sampler, Sample, Notify, StopDownload, chunkVars, ValueOK
<1>3. CASE Head
  <2>1. file' \in [Position -> {"hole", "right", "wrong"}]
    BY <1>3, <1>t DEF Head, ValueOK
  <2> QED BY <1>3, <2>1, <1>t DEF Head, Return, chunkVars, ValueOK
<1>4. CASE JoinChunks \/ JoinSampler \/ Decide
  BY <1>4, <1>t DEF JoinChunks, JoinSampler, Decide, Return, chunkVars, ValueOK
<1>5. CASE Rename
  <2>1. trouble' \in 0 .. MaxTrouble /\ honest' \in BOOLEAN
    BY <1>5, <1>t, FaultType DEF Rename, ValueOK
  <2>2. destination' \in BOOLEAN
    BY <1>5, <1>t DEF Rename, ValueOK
  <2> QED BY <1>5, <2>1, <2>2, <1>t DEF Rename, Return, chunkVars, ValueOK
<1> QED BY <1>0, <1>1, <1>2, <1>3, <1>4, <1>5 DEF Next, Caller, Terminated

\* What a chunk counts is one element more, what it gives back its elements less.
LEMMA CountStep ==
  ASSUME IInv, [Next]_vars
  PROVE  CountInv'
<1>t. CountInv /\ got \in [Chunk -> 0 .. FileSize] /\ pc \in [Chunk -> {"try", "body", "reply", "giveUp", "done"}]
  BY DEF IInv, TypeOK
<1> USE DEF sharedVars
<1>u. ASSUME UNCHANGED <<got, progress>>
      PROVE  progress' = Cardinality(Counted)'
  BY <1>t, <1>u DEF CountInv, Counted
<1>0. CASE UNCHANGED <<got, progress, pc>>
  BY <1>0, <1>t, <1>u DEF CountInv
<1>1. ASSUME NEW c \in Chunk, DownloadChunk(c)
      PROVE  CountInv'
  <2>1. CASE FailFast(c) \/ OpenFails(c) \/ Complete(c) \/ GiveUp(c)
    BY <2>1, <1>t, <1>u DEF FailFast, OpenFails, Complete, GiveUp, At, Goto, NextTry, CountInv
  <2>2. CASE Reply(c) \/ ReceiverStops(c) \/ GetFails(c)
    BY <2>2, <1>t, <1>u DEF Reply, ReceiverStops, GetFails, EndGet, Goto, CountInv
  <2>3. CASE Request(c)
    <3>1. got[c] = 0 /\ got' = [got EXCEPT ![c] = 0] /\ UNCHANGED progress
          /\ pc' = [pc EXCEPT ![c] = "body"]
      BY <2>3, <1>t DEF Request, At, Goto, CountInv
    <3>2. got' = got
      BY <3>1, <1>t
    <3> QED BY <3>1, <3>2, <1>t, <1>u DEF CountInv
  <2>4. CASE Receive(c)
    <3> DEFINE n == got[c] + 1
    <3>1. /\ got' = [got EXCEPT ![c] = n] /\ progress' = progress + 1 /\ UNCHANGED pc
          /\ pc[c] = "body" /\ got[c] < BodyLength(reply[c])
      BY <2>4 DEF Receive, At
    <3>2. n \in 1 .. FileSize
      BY <3>1, <1>t, BodyFits, SizeFacts
    <3>3. Counted' = Counted \cup {<<c, n>>}
      <4>1. ASSUME NEW x \in Piece
            PROVE  x[2] <= got'[x[1]] <=> x[2] <= got[x[1]] \/ x = <<c, n>>
        <5>1. x[1] \in Chunk /\ x[2] \in Nat /\ x = <<x[1], x[2]>>
          BY SizeFacts DEF Piece
        <5>2. got[c] \in Nat /\ got'[c] = got[c] + 1
          BY <3>1, <1>t, SizeFacts
        <5>3. CASE x[1] = c
          BY <5>1, <5>2, <5>3
        <5>4. CASE x[1] # c
          BY <3>1, <5>1, <5>4, <1>t
        <5> QED BY <5>3, <5>4
      <4>2. <<c, n>> \in Piece
        BY <3>2 DEF Piece
      <4> QED BY <4>1, <4>2 DEF Counted, Piece
    <3>4. <<c, n>> \notin Counted
      BY <1>t, SizeFacts DEF Counted
    <3>5. Cardinality(Counted') = Cardinality(Counted) + 1
      BY <3>3, <3>4, CountedFinite, FS_AddElement
    <3> QED BY <3>1, <3>5, <1>t DEF CountInv
  <2>5. CASE Revert(c)
    <3> DEFINE given == {c} \X (1 .. got[c])
    <3>1. /\ got' = [got EXCEPT ![c] = 0] /\ progress' = progress - got[c]
          /\ \E l \in {"giveUp", "try", "done"} : pc' = [pc EXCEPT ![c] = l]
      BY <2>5 DEF Revert, Goto, NextTry
    <3>2. Counted' = Counted \ given
      <4>1. ASSUME NEW x \in Piece
            PROVE  x[2] <= got'[x[1]] <=> x[2] <= got[x[1]] /\ x \notin given
        <5>1. x[1] \in Chunk /\ x[2] \in Nat /\ x[2] >= 1 /\ x = <<x[1], x[2]>>
          BY SizeFacts DEF Piece
        <5>2. got[c] \in Nat /\ got'[c] = 0
          BY <3>1, <1>t, SizeFacts
        <5>3. CASE x[1] = c
          BY <5>1, <5>2, <5>3
        <5>4. CASE x[1] # c
          BY <3>1, <5>1, <5>4, <1>t
        <5> QED BY <5>3, <5>4
      <4> QED BY <4>1 DEF Counted, Piece
    <3>3. given \subseteq Counted
      <4>1. \A i \in 1 .. got[c] : i \in 1 .. FileSize /\ i <= got[c]
        BY <1>t, SizeFacts
      <4> QED BY <4>1 DEF Counted, Piece
    <3>4. Cardinality(given) = got[c]
      <4>1. got[c] \in Nat
        BY <1>t, SizeFacts
      <4>2. /\ IsFiniteSet(1 .. got[c]) /\ Cardinality(1 .. got[c]) = got[c]
        BY <4>1, FS_Interval
      <4>3. [i \in 1 .. got[c] |-> <<c, i>>] \in Bijection(1 .. got[c], given)
        BY DEF Bijection, Injection, Surjection, IsInjective
      <4> QED BY <4>2, <4>3, FS_Bijection DEF ExistsBijection
    <3>5. Cardinality(Counted') = Cardinality(Counted) - Cardinality(given)
      <4> HIDE DEF given
      <4>1. Counted \cap given = given
        BY <3>3
      <4>2. Cardinality(Counted \ given) = Cardinality(Counted) - Cardinality(Counted \cap given)
        BY CountedFinite, FS_Difference
      <4> QED BY <3>2, <4>1, <4>2
    <3>6. \A d \in Chunk : pc'[d] \in {"try", "giveUp"} => got'[d] = 0
      BY <3>1, <1>t DEF CountInv
    <3> QED BY <3>1, <3>4, <3>5, <3>6, <1>t DEF CountInv
  <2> QED BY <1>1, <2>1, <2>2, <2>3, <2>4, <2>5 DEF DownloadChunk
<1>2. CASE ~UNCHANGED <<got, progress, pc>>
  <2>1. \E c \in Chunk : DownloadChunk(c)
    BY <1>2 DEF Next, vars, chunkVars, Sampler, Sample, Notify, Caller, Head, JoinChunks, JoinSampler,
       Decide, Rename, StopDownload, Terminated
  <2> QED BY <1>1, <2>1
<1> QED BY <1>0, <1>2

LEMMA TypeStep ==
  ASSUME IInv, [Next]_vars
  PROVE  TypeOK'
<1>1. ValueOK' /\ CountInv'
  BY ValueStep, CountStep DEF IInv
<1>2. Counted' \in SUBSET Piece
  BY DEF Counted
<1>3. IsFiniteSet(Counted') /\ Cardinality(Counted') <= K * FileSize
  BY <1>2, PieceFinite, FS_Subset
<1>4. progress' \in 0 .. K * FileSize
  BY <1>1, <1>3, FS_CardinalityType, SizeFacts DEF CountInv
<1> QED BY <1>1, <1>4 DEF ValueOK, TypeOK

LEMMA HonestStays ==
  ASSUME TypeOK, [Next]_vars, honest'
  PROVE  honest
<1>t. honest \in BOOLEAN
  BY DEF TypeOK
<1> USE DEF troubleVars, Fault, Trouble
<1>1. ASSUME NEW c \in Chunk, DownloadChunk(c)
      PROVE  honest
  <2>1. CASE FailFast(c) \/ OpenFails(c) \/ Request(c)
    BY <2>1, <1>t DEF FailFast, OpenFails, Request
  <2>2. CASE Receive(c) \/ Reply(c) \/ ReceiverStops(c) \/ GetFails(c)
    BY <2>2, <1>t DEF Receive, Reply, ReceiverStops, GetFails
  <2>3. CASE Complete(c) \/ Revert(c) \/ GiveUp(c)
    BY <2>3, <1>t DEF Complete, Revert, GiveUp
  <2> QED BY <1>1, <2>1, <2>2, <2>3 DEF DownloadChunk
<1>2. CASE UNCHANGED vars \/ Sampler \/ StopDownload
  BY <1>2, <1>t DEF vars, Sampler, Sample, Notify, StopDownload
<1>3. CASE Caller
  BY <1>3, <1>t DEF Caller, Head, JoinChunks, JoinSampler, Decide, Rename
<1> QED BY <1>1, <1>2, <1>3 DEF Next, Terminated

\* What a step of a chunk leaves alone.
LEMMA ChunkFrame ==
  ASSUME NEW c \in Chunk, DownloadChunk(c)
  PROVE  /\ Running /\ UNCHANGED <<main, destination, sampler, stop>>
         /\ hasFailed => hasFailed'
<1> USE DEF At, sharedVars, fileVars, mainVars, EndGet
<1>1. CASE FailFast(c) \/ OpenFails(c)
  BY <1>1 DEF FailFast, OpenFails
<1>2. CASE Request(c)
  <2>1. Running /\ UNCHANGED <<main, destination, sampler>>
    BY <1>2 DEF Request
  <2>2. UNCHANGED <<stop, hasFailed>>
    BY <1>2 DEF Request
  <2> QED BY <2>1, <2>2
<1>3. CASE Receive(c)
  <2>1. Running /\ UNCHANGED <<main, destination, sampler>>
    BY <1>3 DEF Receive
  <2>2. UNCHANGED <<stop, hasFailed>>
    BY <1>3 DEF Receive
  <2> QED BY <2>1, <2>2
<1>4. CASE Reply(c) \/ ReceiverStops(c) \/ GetFails(c)
  BY <1>4 DEF Reply, ReceiverStops, GetFails
<1>5. CASE Complete(c) \/ Revert(c) \/ GiveUp(c)
  BY <1>5 DEF Complete, Revert, GiveUp
<1> QED BY <1>1, <1>3, <1>4, <1>5, <1>2 DEF DownloadChunk

\* A thread that is not within a reply has nothing to show for itself.
LEMMA ChunkLeaves ==
  ASSUME TypeOK, ChunkInv, NEW c \in Chunk, NEW l \in {"try", "giveUp", "done"},
         UNCHANGED <<overrun, reply, outcome, file>>,
         pc' = [pc EXCEPT ![c] = l],
         got' = got \/ got' = [got EXCEPT ![c] = 0]
  PROVE  ChunkInv'
<1>1. got \in [Chunk -> 0 .. FileSize] /\ pc \in [Chunk -> {"try", "body", "reply", "giveUp", "done"}]
  BY DEF TypeOK
<1>2. \A d \in Chunk : got'[d] \in Int /\ got'[d] <= got[d] /\ (d # c => got'[d] = got[d])
  BY <1>1, SizeFacts
<1>3. ~overrun'
  BY DEF ChunkInv
<1> SUFFICES ASSUME NEW d \in Chunk
             PROVE  /\ got'[d] <= P
                    /\ pc'[d] \in {"body", "reply"} => reply'[d] = "partial"
                    /\ pc'[d] = "reply" /\ outcome'[d] # "ok" => got'[d] < P
                    /\ \A i \in 1 .. got'[d] : file'[PositionOf(d, i)] = "right"
  BY <1>3 DEF ChunkInv
<1>4. got[d] \in Int /\ P \in Int /\ got[d] <= P
  BY <1>1, SizeFacts, ChunkAssumption DEF ChunkInv
<1>5. got'[d] <= P
  BY <1>2, <1>4
<1>6. \A i \in 1 .. got'[d] : i \in 1 .. got[d]
  BY <1>2, <1>4
<1>7. \A i \in 1 .. got'[d] : file'[PositionOf(d, i)] = "right"
  BY <1>6 DEF ChunkInv
<1>8. CASE d = c
  BY <1>1, <1>5, <1>7, <1>8
<1>9. CASE d # c
  BY <1>1, <1>2, <1>5, <1>7, <1>9 DEF ChunkInv
<1> QED BY <1>8, <1>9

LEMMA ReceiveKeeps ==
  ASSUME TypeOK, ChunkInv, NEW c \in Chunk, Receive(c)
  PROVE  ChunkInv'
<1> DEFINE n == got[c] + 1
           here == PositionOf(c, n)
<1>1. /\ got \in [Chunk -> 0 .. FileSize] /\ file \in [Position -> {"hole", "right", "wrong"}]
      /\ P \in Nat \ {0} /\ FileSize \in Nat
  BY SizeFacts, ChunkAssumption DEF TypeOK
<1>2. pc[c] = "body" /\ reply[c] = "partial" /\ got[c] < BodyLength(reply[c])
  BY DEF Receive, At, ChunkInv
<1>3. got[c] < P
  BY <1>2 DEF BodyLength
<1>4. n \in 1 .. P
  BY <1>1, <1>3
<1>5. here \in Position
  BY <1>4, PlaceExists
<1>6. c \in Int /\ (c - 1) * P \in Int
  BY <1>1, ChunkAssumption, Z3 DEF Chunk
<1>7. Target(c) = here
  BY <1>1, <1>6 DEF Target, PositionOf
<1> HIDE DEF here
<1>8. Content(c) = "right"
  BY <1>2 DEF Content
<1>9. file' = [file EXCEPT ![here] = "right"] /\ UNCHANGED overrun
  BY <1>5, <1>7, <1>8 DEF Receive
<1>10. got' = [got EXCEPT ![c] = n] /\ UNCHANGED <<pc, reply, outcome>>
  BY DEF Receive
<1>11. \A p \in Position : file[p] = "right" => file'[p] = "right"
  BY <1>1, <1>9
<1>12. file'[here] = "right"
  BY <1>1, <1>5, <1>9
<1> SUFFICES ASSUME NEW d \in Chunk
             PROVE  /\ got'[d] <= P
                    /\ pc'[d] \in {"body", "reply"} => reply'[d] = "partial"
                    /\ pc'[d] = "reply" /\ outcome'[d] # "ok" => got'[d] < P
                    /\ \A i \in 1 .. got'[d] : file'[PositionOf(d, i)] = "right"
  BY <1>9 DEF ChunkInv
<1>13. got[d] \in Int /\ got[d] <= P /\ \A i \in 1 .. got[d] : file[PositionOf(d, i)] = "right"
  BY <1>1 DEF ChunkInv
<1>14. \A i \in 1 .. got[d] : file'[PositionOf(d, i)] = "right"
  <2> SUFFICES ASSUME NEW i \in 1 .. got[d] PROVE file'[PositionOf(d, i)] = "right"
    OBVIOUS
  <2>1. i \in 1 .. P
    BY <1>1, <1>13
  <2> QED BY <2>1, <1>11, <1>13, PlaceExists
<1>15. CASE d = c
  <2>1. got'[c] = n
    BY <1>1, <1>10
  <2>2. \A i \in 1 .. n : i = n \/ i \in 1 .. got[c]
    BY <1>1
  <2>3. \A i \in 1 .. n : file'[PositionOf(c, i)] = "right"
    BY <2>2, <1>12, <1>14, <1>15 DEF here
  <2> QED BY <2>1, <2>3, <1>2, <1>4, <1>10, <1>15
<1>16. CASE d # c
  <2>1. got'[d] = got[d]
    BY <1>1, <1>10, <1>16
  <2> QED BY <2>1, <1>10, <1>13, <1>14 DEF ChunkInv
<1> QED BY <1>15, <1>16

LEMMA ChunkStep ==
  ASSUME IInv, [Next]_vars, honest'
  PROVE  ChunkInv'
<1>t. TypeOK /\ CountInv /\ honest /\ ChunkInv
  BY HonestStays DEF IInv
<1>p. P \in Nat \ {0} /\ got \in [Chunk -> 0 .. FileSize] /\ pc \in [Chunk -> {"try", "body", "reply", "giveUp", "done"}]
      /\ FileSize \in Nat
  BY <1>t, SizeFacts, ChunkAssumption DEF TypeOK
<1>0. CASE UNCHANGED <<overrun, got, pc, reply, outcome, file>>
  BY <1>0, <1>t DEF ChunkInv
<1>1. ASSUME NEW c \in Chunk, DownloadChunk(c)
      PROVE  ChunkInv'
  <2> USE DEF sharedVars, fileVars
  <2>1. CASE FailFast(c) \/ GiveUp(c)
    BY <2>1, <1>t, ChunkLeaves DEF FailFast, GiveUp, Goto
  <2>2. CASE OpenFails(c)
    BY <2>2, <1>t, ChunkLeaves DEF OpenFails, Goto, NextTry
  <2>3. CASE Request(c)
    <3>1. /\ pc[c] = "try" /\ pc' = [pc EXCEPT ![c] = "body"] /\ got' = [got EXCEPT ![c] = 0]
          /\ UNCHANGED <<overrun, outcome, file>>
          /\ reply' = [reply EXCEPT ![c] = "partial"]
      BY <2>3 DEF Request, At, Goto, Trouble
    <3>2. got' = got
      BY <3>1, <1>t, <1>p DEF CountInv
    <3>3. pc' \in [Chunk -> {"try", "body", "reply", "giveUp", "done"}] /\ pc'[c] = "body" /\ reply'[c] = "partial"
      BY <3>1, <1>p, <1>t DEF TypeOK
    <3>4. \A d \in Chunk : d # c => pc'[d] = pc[d] /\ reply'[d] = reply[d]
      BY <3>1, <1>t DEF TypeOK
    <3> QED BY <3>1, <3>2, <3>3, <3>4, <1>t DEF ChunkInv
  <2>4. CASE Receive(c)
    BY <2>4, <1>t, ReceiveKeeps
  <2>5. CASE Reply(c) \/ ReceiverStops(c) \/ GetFails(c)
    <3>1. /\ pc[c] = "body" /\ pc' = [pc EXCEPT ![c] = "reply"]
          /\ UNCHANGED <<overrun, reply, got, file>>
      BY <2>5 DEF Reply, ReceiverStops, GetFails, At, EndGet, Goto
    <3>2. reply[c] = "partial"
      BY <3>1, <1>t DEF ChunkInv
    <3>3. PICK o \in {"ok", "bad", "full"} :
            outcome' = [outcome EXCEPT ![c] = o] /\ (o # "ok" => got[c] < P)
      BY <2>5, <3>2 DEF Reply, ReceiverStops, GetFails, EndGet, BodyLength
    <3>4. outcome'[c] = o /\ pc'[c] = "reply"
      BY <3>1, <3>3, <1>t DEF TypeOK
    <3>5. \A d \in Chunk : d # c => pc'[d] = pc[d] /\ outcome'[d] = outcome[d]
      BY <3>1, <3>3, <1>t DEF TypeOK
    <3> QED BY <3>1, <3>2, <3>3, <3>4, <3>5, <1>t DEF ChunkInv
  <2>6. CASE Complete(c)
    <3>1. UNCHANGED file
      BY <2>6 DEF Complete, Fault, Trouble
    <3> QED BY <2>6, <3>1, <1>t, ChunkLeaves DEF Complete, Goto
  <2>7. CASE Revert(c)
    BY <2>7, <1>t, ChunkLeaves DEF Revert, Goto, NextTry
  <2> QED BY <1>1, <2>1, <2>2, <2>3, <2>4, <2>5, <2>6, <2>7 DEF DownloadChunk
<1>2. CASE Head
  <2>1. UNCHANGED <<overrun, got, pc, reply, outcome>>
    BY <1>2 DEF Head, chunkVars
  <2>2. \A p \in Position : file[p] = "right" => file'[p] = "right"
    BY <1>2 DEF Head
  <2>3. \A d \in Chunk : \A i \in 1 .. got[d] : file'[PositionOf(d, i)] = "right"
    <3> SUFFICES ASSUME NEW d \in Chunk, NEW i \in 1 .. got[d] PROVE file'[PositionOf(d, i)] = "right"
      OBVIOUS
    <3>1. got[d] \in Int /\ got[d] <= P
      BY <1>p, <1>t DEF ChunkInv
    <3>2. i \in 1 .. P
      BY <3>1, <1>p
    <3> QED BY <3>2, <2>2, <1>t, PlaceExists DEF ChunkInv
  <2> QED BY <2>1, <2>3, <1>t DEF ChunkInv
<1>3. CASE UNCHANGED vars \/ Sampler \/ StopDownload
  BY <1>3, <1>0 DEF vars, Sampler, Sample, Notify, StopDownload, chunkVars, fileVars
<1>4. CASE JoinChunks \/ JoinSampler \/ Decide \/ Rename
  BY <1>4, <1>0 DEF JoinChunks, JoinSampler, Decide, Rename, chunkVars, fileVars
<1> QED BY <1>1, <1>2, <1>3, <1>4 DEF Next, Caller, Terminated

LEMMA SeenStep ==
  ASSUME IInv, [Next]_vars, honest'
  PROVE  SeenInv'
<1>t. TypeOK /\ CountInv /\ honest /\ ChunkInv /\ SeenInv
  BY HonestStays DEF IInv
<1>p. /\ P \in Nat \ {0} /\ got \in [Chunk -> 0 .. FileSize] /\ FileSize \in Nat
      /\ hasFailed \in BOOLEAN /\ stop \in BOOLEAN
  BY <1>t, SizeFacts, ChunkAssumption DEF TypeOK
<1>0. CASE UNCHANGED <<sampler, hasFailed, stop, got>>
  BY <1>0, <1>t DEF SeenInv
<1>1. ASSUME NEW c \in Chunk, DownloadChunk(c)
      PROVE  SeenInv'
  <2>1. UNCHANGED <<sampler, stop>> /\ (hasFailed => hasFailed')
    BY <1>1, ChunkFrame
  <2>2. CASE UNCHANGED got
    BY <2>1, <2>2, <1>p, <1>t DEF SeenInv
  <2>3. CASE ~UNCHANGED got
    <3>1. Request(c) \/ Receive(c) \/ Revert(c)
      BY <1>1, <2>3 DEF DownloadChunk, FailFast, OpenFails, Reply, ReceiverStops, GetFails, EndGet,
         Complete, GiveUp
    <3>2. got[c] # P
      <4>1. CASE Request(c)
        BY <4>1, <1>t, <1>p DEF Request, At, CountInv
      <4>2. CASE Receive(c)
        <5>1. reply[c] = "partial" /\ got[c] < BodyLength(reply[c])
          BY <4>2, <1>t DEF Receive, At, ChunkInv
        <5> QED BY <5>1, <1>p DEF BodyLength
      <4>3. CASE Revert(c)
        <5>1. pc[c] = "reply" /\ outcome[c] # "ok"
          BY <4>3 DEF Revert, At
        <5>2. got[c] < P
          BY <5>1, <1>t DEF ChunkInv
        <5> QED BY <5>2, <1>p
      <4> QED BY <3>1, <4>1, <4>2, <4>3
    <3>3. ~(sampler = "done" /\ ~hasFailed /\ ~stop)
      BY <3>2, <1>1, <1>t DEF SeenInv
    <3> QED BY <2>1, <3>3 DEF SeenInv
  <2> QED BY <2>2, <2>3
<1>2. CASE Sample
  <2>1. UNCHANGED <<hasFailed, stop, got>>
    BY <1>2 DEF Sample, chunkVars, sharedVars
  <2> SUFFICES ASSUME sampler' = "done", ~hasFailed, ~stop
               PROVE  \A c \in Chunk : got[c] = P
    BY <2>1 DEF SeenInv
  <2>2. ~(progress < FileSize)
    BY <1>2 DEF Sample
  <2>3. Cardinality(Counted) >= FileSize
    BY <2>2, <1>t, <1>p, CountedFinite DEF CountInv
  <2> QED BY <2>3, <1>t, AllCounted DEF ChunkInv
<1>3. CASE Notify \/ StopDownload
  BY <1>3, <1>p, <1>t DEF Notify, StopDownload, chunkVars, sharedVars, SeenInv
<1>4. CASE UNCHANGED vars \/ Caller
  BY <1>4, <1>0 DEF vars, chunkVars, sharedVars, Caller, Head, JoinChunks, JoinSampler, Decide, Rename
<1> QED BY <1>1, <1>2, <1>3, <1>4 DEF Next, Sampler, Terminated

\* When every chunk is there, so is the file.
LEMMA AllRight ==
  ASSUME ChunkInv, \A c \in Chunk : got[c] = P
  PROVE  Right = Position
<1> SUFFICES ASSUME NEW p \in Position PROVE file[p] = "right"
  BY DEF Right
<1>1. PICK c \in Chunk, i \in 1 .. P : p = PositionOf(c, i)
  BY PlacesCover
<1> QED BY <1>1 DEF ChunkInv

LEMMA CallerStep ==
  ASSUME IInv, [Next]_vars, honest'
  PROVE  CallerInv'
<1>t. TypeOK /\ ChunkInv /\ SeenInv /\ CallerInv
  BY HonestStays DEF IInv
<1> USE DEF fileVars
<1>0. CASE UNCHANGED <<main, sampler, destination, file>>
  BY <1>0, <1>t DEF CallerInv, Right
<1>1. ASSUME NEW c \in Chunk, DownloadChunk(c)
      PROVE  CallerInv'
  BY <1>1, <1>t, ChunkFrame DEF CallerInv, Running
<1>2. CASE Sampler \/ StopDownload
  <2>1. UNCHANGED <<main, destination, file>> /\ (main = "decide" => UNCHANGED sampler \/ sampler = "sleep")
    BY <1>2 DEF Sampler, Sample, Notify, StopDownload, mainVars, Running
  <2> QED BY <2>1, <1>t DEF CallerInv, Right
<1>3. CASE Head
  <2>1. main = "head" /\ UNCHANGED destination /\ ~destination /\ main' # "decide"
    BY <1>3, <1>t DEF Head, CallerInv, Return
  <2>2. main' = "rename" => file' = [p \in Position |-> "right"]
    BY <1>3 DEF Head, Return
  <2> QED BY <2>1, <2>2 DEF CallerInv, Right
<1>4. CASE JoinChunks \/ JoinSampler
  BY <1>4, <1>t DEF JoinChunks, JoinSampler, CallerInv
<1>5. CASE Decide
  <2>1. main = "decide" /\ sampler = "done" /\ ~destination /\ UNCHANGED <<destination, file>> /\ main' # "decide"
    BY <1>5, <1>t DEF Decide, CallerInv, Return
  <2>2. main' = "rename" => Right = Position
    BY <1>5, <2>1, <1>t, AllRight DEF Decide, SeenInv, Return
  <2> QED BY <2>1, <2>2 DEF CallerInv, Right
<1>6. CASE Rename
  <2>1. Right = Position
    BY <1>6, <1>t DEF Rename, CallerInv
  <2> QED BY <1>6, <2>1 DEF Rename, Return, CallerInv, Right
<1> QED BY <1>0, <1>1, <1>2, <1>3, <1>4, <1>5, <1>6 DEF Next, Caller, Terminated, vars, mainVars

LEMMA InvStep == IInv /\ [Next]_vars => IInv'
BY TypeStep, CountStep, ChunkStep, SeenStep, CallerStep DEF IInv

-----------------------------------------------------------------------------
(* The theorems.                                                           *)

\* The invariant: the counter is the number of pieces the threads count, and with
\* honest replies the file, the progress thread and the decision agree with it.
THEOREM Invariance == Spec => []IInv
<1> QED BY InitInv, InvStep, PTL DEF Spec

\* The variables of downloader.cpp's threads stay in their types; the counter
\* never falls below zero and never exceeds what all tries together can hold.
THEOREM TypeCorrect == Spec => []TypeOK
<1>1. IInv => TypeOK
  BY DEF IInv
<1> QED BY <1>1, Invariance, PTL

\* Each piece that is counted has a position of its own that is right.
LEMMA CountedIsThere ==
  ASSUME TypeOK, ChunkInv
  PROVE  Cardinality(Counted) <= Cardinality(Right)
<1> DEFINE f == [x \in Counted |-> PositionOf(x[1], x[2])]
<1>1. P \in Nat /\ FileSize \in Nat /\ got \in [Chunk -> 0 .. FileSize]
  BY SizeFacts, ChunkAssumption DEF TypeOK
<1>2. \A x \in Counted : /\ x = <<x[1], x[2]>> /\ x[1] \in Chunk /\ x[2] \in 1 .. P
                         /\ x[2] \in 1 .. got[x[1]]
  <2> SUFFICES ASSUME NEW x \in Counted
               PROVE  /\ x = <<x[1], x[2]>> /\ x[1] \in Chunk /\ x[2] \in 1 .. P
                      /\ x[2] \in 1 .. got[x[1]]
    OBVIOUS
  <2>1. x = <<x[1], x[2]>> /\ x[1] \in Chunk /\ x[2] \in 1 .. FileSize /\ x[2] <= got[x[1]]
    BY DEF Counted, Piece
  <2>2. got[x[1]] \in Int /\ got[x[1]] <= P
    BY <1>1, <2>1 DEF ChunkInv
  <2> QED BY <1>1, <2>1, <2>2
<1>3. f \in [Counted -> Right]
  BY <1>2, PlaceExists DEF ChunkInv, Right
<1>4. \A x, y \in Counted : f[x] = f[y] => x = y
  BY <1>2, PlacesDiffer
<1>5. f \in Injection(Counted, Right)
  BY <1>3, <1>4 DEF Injection, IsInjective
<1>6. IsFiniteSet(Right)
  <2>1. IsFiniteSet(Position) /\ Right \in SUBSET Position
    BY <1>1, FS_Interval DEF Position, Right
  <2> QED BY <2>1, FS_Subset
<1> QED BY <1>5, <1>6, FS_Injection

\* What the call promises (downloader.h) and what it shows: with a server that
\* honours ranges and files that can be closed, only a whole file reaches its
\* destination, and the counter never exceeds what is in the file.
THEOREM AsTold == Spec => []FileIsAsTold
<1>1. ASSUME IInv, honest PROVE DestinationIsComplete
  BY <1>1 DEF IInv, DestinationIsComplete, ChunkInv, CallerInv, Right
<1>2. ASSUME IInv, honest PROVE ProgressIsBacked
  <2>1. progress <= Cardinality(Right)
    BY <1>2, CountedIsThere DEF IInv, CountInv
  <2> QED BY <2>1 DEF ProgressIsBacked, Right
<1>3. IInv => FileIsAsTold
  BY <1>1, <1>2 DEF FileIsAsTold
<1> QED BY <1>3, Invariance, PTL

-----------------------------------------------------------------------------
(* Loops.                                                                  *)

\* Induction over 0 .. n, for the set of the numbers a formula holds of.
LEMMA Induction ==
  ASSUME NEW n \in Nat, NEW S, 0 \in S, \A k \in 0 .. n - 1 : k \in S => k + 1 \in S
  PROVE  \A k \in 0 .. n : k \in S
<1> DEFINE R == OpToRel(<, Nat)
           B == {k \in 0 .. n : k \notin S}
<1>1. SUFFICES ASSUME B # {} PROVE FALSE
  OBVIOUS
<1>2. IsWellFoundedOn(R, Nat)
  BY NatLessThanWellFounded
<1>a. B \subseteq Nat
  OBVIOUS
<1> HIDE DEF R
<1>3. PICK x \in B : \A y \in B : ~(<<y, x>> \in R)
  BY <1>1, <1>2, <1>a, WFMin
<1>4. \A y \in B : ~(y < x)
  BY <1>a, <1>3 DEF R, OpToRel
<1>5. x \in 1 .. n
  BY <1>3
<1>6. x - 1 \in 0 .. n - 1 /\ x - 1 < x /\ x - 1 + 1 = x
  BY <1>5
<1>7. x - 1 \in S
  BY <1>4, <1>6
<1> QED
  BY <1>3, <1>6, <1>7

\* A loop of n turns: from a value to the next by a function of the turn and the value.
Turns(n, T) == [(1 .. n) \X T -> T]
Loops(n, T, a, step) ==
  {f \in [0 .. n -> T] : f[0] = a /\ \A i \in 1 .. n : f[i] = step[<<i, f[i - 1]>>]}

\* Such a loop exists, and therefore has values.
LEMMA LoopExists ==
  ASSUME NEW n \in Nat, NEW T, NEW a \in T, NEW step \in Turns(n, T)
  PROVE  Loops(n, T, a, step) # {}
<1> USE DEF Turns
<1> DEFINE Upto(k, g) == g[0] = a /\ \A i \in 1 .. n : i <= k => g[i] = step[<<i, g[i - 1]>>]
           S == {k \in 0 .. n : \E g \in [0 .. n -> T] : Upto(k, g)}
<1>1. 0 \in S
  <2>1. [i \in 0 .. n |-> a] \in [0 .. n -> T] /\ Upto(0, [i \in 0 .. n |-> a])
    OBVIOUS
  <2> QED
    BY <2>1
<1>2. ASSUME NEW k \in 0 .. n - 1, k \in S PROVE k + 1 \in S
  <2>1. PICK g \in [0 .. n -> T] : Upto(k, g)
    BY <1>2
  <2>2. k \in 0 .. n /\ k + 1 \in 1 .. n /\ g[k] \in T
    OBVIOUS
  <2>3. PICK v \in T : v = step[<<k + 1, g[k]>>]
    BY <2>2
  <2> DEFINE h == [g EXCEPT ![k + 1] = v]
  <2>4. h \in [0 .. n -> T] /\ h[0] = a
    BY <2>1, <2>2
  <2>5. ASSUME NEW i \in 1 .. n, i <= k + 1 PROVE h[i] = step[<<i, h[i - 1]>>]
    <3>1. i - 1 \in 0 .. n /\ i - 1 # k + 1 /\ i \in 0 .. n
      BY <2>2, <2>5
    <3>2. h[i - 1] = g[i - 1]
      BY <3>1
    <3>3. CASE i = k + 1
      <4>1. h[i] = v /\ i - 1 = k
        BY <2>2, <3>3
      <4> QED
        BY <2>3, <3>2, <3>3, <4>1
    <3>4. CASE i # k + 1
      <4>1. i <= k
        BY <2>2, <2>5, <3>4
      <4>2. h[i] = g[i]
        BY <3>1, <3>4
      <4> QED
        BY <2>1, <3>2, <4>1, <4>2
    <3> QED
      BY <3>3, <3>4
  <2>6. Upto(k + 1, h)
    BY <2>4, <2>5
  <2> HIDE DEF h, Upto
  <2> QED
    BY <2>2, <2>4, <2>6
<1>3. \A k \in 0 .. n : k \in S
  <2> HIDE DEF S
  <2> QED
    BY <1>1, <1>2, Induction
<1>4. PICK g \in [0 .. n -> T] : Upto(n, g)
  BY <1>3
<1> QED
  BY <1>4 DEF Loops

-----------------------------------------------------------------------------
(* The cache's inductive invariant.                                        *)

\* The places of a run that works on a file, and those before the file is claimed.
Working == {"fetch", "fetching", "rename", "renameShort", "copying", "record", "store",
            "storing", "done"}
Getting == {"fetch", "fetching", "rename", "renameShort", "copying", "record"}

\* Where each pass can be.
PlacesAgree ==
  /\ pass = "none" <=> at = "idle"
  /\ ~alive => pass = "none" /\ \A t \in Task : verdict[t] = "none"
  /\ at = "size" => pass \in {"collect", "sizing"}
  /\ at = "check" => pass = "sizing"
  /\ at \in {"store", "storing"} => pass \in {"run", "clear"}
  /\ at \in Working \ {"store", "storing"} => pass = "run"
  /\ at = "storing" => ~readable /\ (blind => promised = {})
  /\ blind => pass # "none"
  /\ pass # "none" => ending = "none"
  /\ pass = "clear" => promised = {}

\* The task at work is one of the scenario, and its files are as its place says: what
\* is to be recorded is what the transfer delivered, and nobody remembers or was promised
\* anything of the file it replaced.
TaskAtWork ==
  /\ pass \in {"collect", "sizing", "run"} => queue \subseteq scenario
  /\ at = "size" => task \in scenario
  /\ pass = "run" /\ at \in Working => task \in scenario \ queue
  /\ pass = "run" => unsaved \subseteq scenario
  /\ at \in {"fetching", "rename", "renameShort"} => task \notin Local /\ tmp[PathOf[task]] = task
  /\ at = "copying" => /\ task \in Local /\ disk[PathOf[task]] = Damaged(WholeFile(task))
                       /\ \A t \in promised : PathOf[t] # PathOf[task]
  /\ at = "record" => /\ disk[PathOf[task]] \in Obtained(task)
                      /\ \A t \in Task : PathOf[t] = PathOf[task] => verdict[t] # "valid"
                      /\ \A t \in promised : PathOf[t] = PathOf[task] => UrlOf[t] = UrlOf[task]

\* A run's paths are those of tasks it has dealt with, with what was delivered.
ClaimsFit ==
  pass = "run" => /\ claimed \subseteq scenario \ queue
                  /\ at \in Getting => task \notin claimed
                  /\ ClaimedIsDelivered

\* An entry is of a file that was delivered, at a destination its URL has.
EntriesFit ==
  \A table \in {cache, cacheFile} : \A u \in Url :
    table[u] # None =>
      /\ table[u].sha.url = u /\ table[u].sha.held \in {"all", "most"}
      /\ \E t \in Task : UrlOf[t] = u /\ PathOf[t] = table[u].path

\* A table has an entry of the task's file that serves the program installed.
Has(table, t) ==
  /\ table[UrlOf[t]] # None
  /\ table[UrlOf[t]].sha = disk[PathOf[t]]
  /\ t \in Versioned => table[UrlOf[t]].version = version

\* What a pass has in memory is in url_cache.json too, but for the file being stored and
\* those that could not be.
CacheIsStored ==
  pass \in {"collect", "sizing", "run"} /\ readable =>
    \A u \in Url : cache[u] # None =>
      \/ cacheFile[u] = cache[u]
      \/ at = "store" /\ u = UrlOf[task]
      \/ \E t \in unsaved : UrlOf[t] = u

\* What the session calls valid was delivered, and without errors it still has its entry.
VerdictsHold ==
  \A t \in Task : verdict[t] = "valid" =>
    /\ disk[PathOf[t]] \in Obtained(t)
    /\ faults = 0 /\ Single(t) => IF pass = "none" THEN readable => Has(cacheFile, t) ELSE Has(cache, t)

\* What was promised is there and has its entry, on disk and in every table that
\* may be written over the one on disk, but for one that was begun blind.
PromisesHold ==
  \A t \in promised :
    /\ disk[PathOf[t]] \in Obtained(t) /\ Single(t)
    /\ readable => Has(cacheFile, t)
    /\ pass \in {"collect", "sizing", "run"} /\ ~blind => Has(cache, t)

\* What a run has obtained so far has its entry in memory.
ClaimsAreRecorded ==
  pass = "run" => \A t \in claimed \ unsaved : Alone(t) /\ Single(t) => Has(cache, t)

PassInv ==
  /\ CacheTypeOK /\ PlacesAgree /\ TaskAtWork /\ ClaimsFit
  /\ OneEntryPerPath /\ EntriesFit /\ CacheIsStored
  /\ VerdictsHold /\ PromisesHold /\ ClaimsAreRecorded /\ UnsavedByFault

-----------------------------------------------------------------------------
(* And that of what a run delivers.                                        *)

\* A size that is known is right, or the 0 taken for a local file.
SizesKnown ==
  \A u \in Url : known[u] # -1 =>
    \A t \in Task : UrlOf[t] = u => known[u] = Size[t] \/ (known[u] = 0 /\ t \in Local)

\* A run loses no task of the scenario but those it leaves out from the beginning.
Reached ==
  /\ ending = "obtained" => scenario \ claimed \subseteq Local \ Zip
  /\ pass = "run" => \A t \in scenario :
     t \in claimed \cup queue \/ (t = task /\ at \in Getting) \/ t \in Local \ Zip

\* A size comes from a task of the scenario that has the URL.
SizesFit ==
  \A u \in Url : /\ counted[u] > 0 => sizes[u] # 0
                 /\ sizes[u] # 0 => sizes[u] \in scenario /\ UrlOf[sizes[u]] = u

\* A file the session calls valid is not fetched, unless the run is forced to.
Trusted(t) == ~forced /\ verdict[t] = "valid"

Dealt(t) == sizes[UrlOf[t]] # 0 \/ Trusted(t)

\* The sweep before a run deals with every file, so that what the run fetches is on
\* the plan, and has not been taken off it yet.
PlanCovers ==
  /\ pass = "sizing" => /\ \A t \in scenario : t \in queue \/ (t = task /\ at = "size") \/ Dealt(t)
                        /\ completed = {} /\ (at = "check" => queue = {})
  /\ pass = "run" /\ PlanIsRight => /\ \A t \in queue : Dealt(t)
                                    /\ at \in Working => sizes[UrlOf[task]] # 0
  /\ pass = "run" => \A p \in completed : \E t \in claimed \ {task} : PathOf[t] = p
  /\ pass = "run" /\ at \in {"store", "storing", "done"} => task \in claimed

\* The bytes of the file at work that may be on the volume and on the plan as well.
Fetched == IF at \in Working \ {"fetch"} THEN Size[task] ELSE 0

\* What is left of the plan fits, with the scratch the check keeps back.
SpaceIsLeft ==
  foreign = 0 /\ PlanIsRight /\ pass = "run" /\ (at \in Working \/ BytesLeft(completed) # 0) =>
    Used + BytesLeft(completed) + Largest \div 2 <= Capacity + Fetched

DeliverInv ==
  SizesKnown /\ Reached /\ SizesFit /\ PlanCovers /\ SpaceIsLeft /\ CheckedSpaceSuffices

-----------------------------------------------------------------------------
(* Sums over tasks.                                                        *)

\* What a task adds to the sum over set.
Part(set, f, n) == IF n \in set THEN f[n] ELSE 0

SumTo(set, f) ==
  CHOOSE to : to = [n \in 0 .. N |->
                      IF n = 0 THEN 0 ELSE to[n - 1] + IF n \in set THEN f[n] ELSE 0]

\* SumOver is a loop over the tasks.
LEMMA SumLoop ==
  ASSUME NEW set, NEW f \in [Task -> Nat]
  PROVE  /\ SumOver(set, f) = SumTo(set, f)[N]
         /\ SumTo(set, f)[0] = 0
         /\ \A i \in 1 .. N : SumTo(set, f)[i] = SumTo(set, f)[i - 1] + Part(set, f, i)
<1>0. N \in Nat /\ \A i \in 1 .. N : Part(set, f, i) \in Nat
  BY CacheAssumption DEF Part, Task
<1>1. PICK step \in Turns(N, Nat) :
        \A i \in 1 .. N, t \in Nat : step[<<i, t>>] = t + Part(set, f, i)
  <2>1. \A i \in 1 .. N, t \in Nat : t + Part(set, f, i) \in Nat
    BY <1>0
  <2>2. [p \in (1 .. N) \X Nat |-> p[2] + Part(set, f, p[1])] \in Turns(N, Nat)
    BY <2>1 DEF Turns
  <2> QED
    BY <2>2
<1>2. PICK to \in [0 .. N -> Nat] :
        to[0] = 0 /\ \A i \in 1 .. N : to[i] = step[<<i, to[i - 1]>>]
  <2>1. Loops(N, Nat, 0, step) # {}
    BY <1>0, LoopExists
  <2> QED
    BY <2>1 DEF Loops
<1>3. ASSUME NEW i \in 1 .. N
      PROVE  to[i] = to[i - 1] + IF i \in set THEN f[i] ELSE 0
  <2>1. to[i - 1] \in Nat
    BY <1>0
  <2> QED
    BY <1>1, <1>2, <2>1 DEF Part
<1>4. to = [n \in 0 .. N |->
              IF n = 0 THEN 0 ELSE to[n - 1] + IF n \in set THEN f[n] ELSE 0]
  <2> DEFINE turn(n) == IF n = 0 THEN 0 ELSE to[n - 1] + IF n \in set THEN f[n] ELSE 0
  <2>1. \A n \in 0 .. N : to[n] = turn(n)
    <3>1. turn(0) = 0 /\ to[0] = 0
      BY <1>2
    <3>2. \A n \in 1 .. N : to[n] = turn(n)
      BY <1>3
    <3> HIDE DEF turn
    <3> QED
      BY <1>0, <3>1, <3>2
  <2> HIDE DEF turn
  <2>2. to = [n \in 0 .. N |-> turn(n)]
    BY <2>1
  <2> QED
    BY <2>2 DEF turn
<1> DEFINE g == SumTo(set, f)
<1>5. g = [n \in 0 .. N |->
             IF n = 0 THEN 0 ELSE g[n - 1] + IF n \in set THEN f[n] ELSE 0]
  BY <1>4 DEF SumTo
<1>6. SumOver(set, f) = g[N]
  BY Zenon DEF SumOver, SumTo
<1> HIDE DEF g
<1>7. g[0] = 0 /\ \A i \in 1 .. N : g[i] = g[i - 1] + IF i \in set THEN f[i] ELSE 0
  <2> DEFINE D == 0 .. N
  <2>1. 0 \in D /\ \A i \in 1 .. N : i \in D /\ i # 0
    BY <1>0
  <2>2. \A i \in D :
          g[i] = IF i = 0 THEN 0 ELSE g[i - 1] + IF i \in set THEN f[i] ELSE 0
    BY <1>5, Zenon
  <2> QED
    BY <2>1, <2>2
<1> QED
  BY <1>6, <1>7 DEF g, Part

\* A sum of sizes is one.
LEMMA SumTyped ==
  ASSUME NEW set, NEW f \in [Task -> Nat]
  PROVE  SumOver(set, f) \in Nat
<1>0. N \in Nat /\ \A i \in 1 .. N : Part(set, f, i) \in Nat
  BY CacheAssumption DEF Part, Task
<1>1. PICK g : /\ SumOver(set, f) = g[N] /\ g[0] = 0
               /\ \A i \in 1 .. N : g[i] = g[i - 1] + Part(set, f, i)
  BY SumLoop
<1> DEFINE S == {k \in 0 .. N : g[k] \in Nat}
<1>2. 0 \in S
  BY <1>0, <1>1
<1>3. ASSUME NEW k \in 0 .. N - 1, k \in S PROVE k + 1 \in S
  <2>1. k + 1 \in 1 .. N /\ k + 1 - 1 = k /\ k + 1 \in 0 .. N
    BY <1>0
  <2>2. g[k + 1] = g[k] + Part(set, f, k + 1)
    BY <1>1, <2>1
  <2> QED
    BY <1>0, <1>3, <2>1, <2>2
<1>4. \A k \in 0 .. N : k \in S
  <2> HIDE DEF S
  <2> QED
    BY <1>0, <1>2, <1>3, Induction
<1> QED
  BY <1>0, <1>1, <1>4

\* Two sums that differ in what one task adds.
LEMMA SumChange ==
  ASSUME NEW set, NEW f \in [Task -> Nat], NEW set2, NEW f2 \in [Task -> Nat],
         NEW m \in Task,
         \A n \in Task \ {m} : Part(set, f, n) = Part(set2, f2, n)
  PROVE  SumOver(set, f) + Part(set2, f2, m) = SumOver(set2, f2) + Part(set, f, m)
<1>0. /\ N \in Nat /\ m \in 1 .. N
      /\ \A i \in 1 .. N : Part(set, f, i) \in Nat /\ Part(set2, f2, i) \in Nat
  BY CacheAssumption DEF Part, Task
<1>1. PICK g : /\ SumOver(set, f) = g[N] /\ g[0] = 0
               /\ \A i \in 1 .. N : g[i] = g[i - 1] + Part(set, f, i)
  BY SumLoop
<1>2. PICK h : /\ SumOver(set2, f2) = h[N] /\ h[0] = 0
               /\ \A i \in 1 .. N : h[i] = h[i - 1] + Part(set2, f2, i)
  BY SumLoop
<1> DEFINE S == {k \in 0 .. N : /\ g[k] \in Nat /\ h[k] \in Nat
                                /\ k < m => g[k] = h[k]
                                /\ k >= m => g[k] + Part(set2, f2, m) = h[k] + Part(set, f, m)}
<1>3. 0 \in S
  BY <1>0, <1>1, <1>2
<1>4. ASSUME NEW k \in 0 .. N - 1, k \in S PROVE k + 1 \in S
  <2>1. k + 1 \in 1 .. N /\ k + 1 - 1 = k /\ k + 1 \in 0 .. N
    BY <1>0
  <2>2. g[k + 1] = g[k] + Part(set, f, k + 1) /\ h[k + 1] = h[k] + Part(set2, f2, k + 1)
    BY <1>1, <1>2, <2>1
  <2>3. k + 1 # m => Part(set, f, k + 1) = Part(set2, f2, k + 1)
    BY <2>1 DEF Task
  <2>4. PICK a1 \in Nat, a2 \in Nat, b1 \in Nat, b2 \in Nat :
          a1 = Part(set, f, k + 1) /\ a2 = Part(set2, f2, k + 1)
          /\ b1 = Part(set, f, m) /\ b2 = Part(set2, f2, m)
    BY <1>0, <2>1
  <2>5. k + 1 = m => a1 = b1 /\ a2 = b2
    BY <2>4
  <2>6. k + 1 # m => a1 = a2
    BY <2>3, <2>4
  <2>7. g[k + 1] = g[k] + a1 /\ h[k + 1] = h[k] + a2
    BY <2>2, <2>4
  <2>8. /\ g[k] \in Nat /\ h[k] \in Nat
        /\ k < m => g[k] = h[k]
        /\ k >= m => g[k] + b2 = h[k] + b1
    BY <1>4, <2>4
  <2>9. /\ g[k + 1] \in Nat /\ h[k + 1] \in Nat
        /\ k + 1 < m => g[k + 1] = h[k + 1]
        /\ k + 1 >= m => g[k + 1] + b2 = h[k + 1] + b1
    BY <1>0, <2>5, <2>6, <2>7, <2>8
  <2> QED
    BY <2>1, <2>4, <2>9
<1>5. \A k \in 0 .. N : k \in S
  <2> HIDE DEF S
  <2> QED
    BY <1>0, <1>3, <1>4, Induction
<1> QED
  BY <1>0, <1>1, <1>2, <1>5

\* A sum over fewer tasks is not larger: it is enough that one of them is left out.
LEMMA SumWithout ==
  ASSUME NEW set, NEW f \in [Task -> Nat], NEW m \in Task, m \in set
  PROVE  SumOver(set, f) = SumOver(set \ {m}, f) + f[m]
<1>1. \A n \in Task \ {m} : Part(set, f, n) = Part(set \ {m}, f, n)
  BY DEF Part
<1>2. SumOver(set, f) + Part(set \ {m}, f, m) = SumOver(set \ {m}, f) + Part(set, f, m)
  BY <1>1, SumChange
<1>3. Part(set \ {m}, f, m) = 0 /\ Part(set, f, m) = f[m]
  BY DEF Part
<1> QED
  BY <1>2, <1>3, SumTyped

-----------------------------------------------------------------------------
(* The tables and the files.                                               *)

\* What the constants say of a task,
LEMMA TaskFacts ==
  ASSUME NEW t \in Task
  PROVE  /\ UrlOf[t] \in Url /\ PathOf[t] \in Path
         /\ WholeFile(t) \in FileContent /\ WholeFile(t) # None
         /\ Damaged(WholeFile(t)) \in FileContent
  <1>1. UrlOf[t] \in Url /\ PathOf[t] \in Path
    BY DEF Url, Path
  <1>2. WholeFile(t) \in FileContent /\ Damaged(WholeFile(t)) \in FileContent
    BY <1>1 DEF WholeFile, ShortFile, Obtained, Damaged, FileContent
  <1> QED
    BY <1>1, <1>2, CacheAssumption

\* Some task of a set is the first.
LEMMA LeastOf ==
  ASSUME NEW S \in SUBSET Task, S # {}
  PROVE  \E t \in S : \A s \in S : t <= s
<1> DEFINE R == OpToRel(<, Nat)
<1>1. S \subseteq Nat
  BY CacheAssumption DEF Task
<1>2. IsWellFoundedOn(R, Nat)
  BY NatLessThanWellFounded
<1> HIDE DEF R
<1>3. PICK t \in S : \A s \in S : ~(<<s, t>> \in R)
  BY <1>1, <1>2, WFMin
<1>4. \A s \in S : ~(s < t)
  BY <1>1, <1>3 DEF R, OpToRel
<1> QED
  BY <1>1, <1>4

\* Each URL has a task.
LEMMA UrlFacts ==
  ASSUME NEW u \in Url
  PROVE  TaskOfUrl(u) \in Task /\ UrlOf[TaskOfUrl(u)] = u
BY DEF TaskOfUrl, Url

\* and of its size, which is its URL's.
LEMMA TaskSizes ==
  ASSUME NEW t \in Task
  PROVE  /\ Size[t] \in Nat /\ Size[t] > 0 /\ Size[t] \div 2 \in Nat /\ Size[t] \div 2 <= Size[t]
         /\ \A s \in Task : UrlOf[s] = UrlOf[t] => Size[s] = Size[t]
BY CacheAssumption

\* The bytes of the volume are a number.
LEMMA UsedTyped ==
  ASSUME CacheTypeOK
  PROVE  /\ \A t \in Task : BytesAt(PathOf[t]) \in Nat
         /\ Used \in Nat
<1>1. ASSUME NEW t \in Task PROVE BytesAt(PathOf[t]) \in Nat
  <2>1. PathOf[t] \in Path
    BY TaskFacts
  <2>2. tmp[PathOf[t]] = 0 \/ tmp[PathOf[t]] \in Task
    BY <2>1 DEF CacheTypeOK
  <2>3. disk[PathOf[t]] = None \/ disk[PathOf[t]].url \in Url
    BY <2>1 DEF CacheTypeOK, FileContent
  <2> QED
    BY <2>2, <2>3, TaskSizes, UrlFacts DEF BytesAt
<1>2. [t \in Task |-> BytesAt(PathOf[t])] \in [Task -> Nat]
  BY <1>1
<1>3. SumOver(FirstAt, [t \in Task |-> BytesAt(PathOf[t])]) \in Nat
  BY <1>2, SumTyped
<1>4. foreign \in Nat
  BY DEF CacheTypeOK
<1> QED
  BY <1>1, <1>3, <1>4 DEF Used

\* The next task is one of the queue.
LEMMA NextInQueue ==
  ASSUME CacheTypeOK, queue # {}
  PROVE  Next1 \in queue
  <1>1. queue \in SUBSET Task
    BY DEF CacheTypeOK
  <1>2. \E t \in queue : \A s \in queue : t <= s
    BY <1>1, LeastOf
  <1> QED
    BY <1>2 DEF Next1

\* The empty table has no entry.
LEMMA EmptyIsTable == Empty \in Table /\ \A u \in Url : Empty[u] = None
  BY DEF Empty, Table

\* The type invariant holds at the beginning,
LEMMA CacheTypeInit == CacheInit => CacheTypeOK
<1>1. 0 \in 0 .. MaxFaults /\ 1 \in Version /\ -1 \in Int
  BY CacheAssumption DEF Version
<1>3. /\ [p \in Path |-> None] \in [Path -> FileContent \cup {None}]
      /\ [p \in Path |-> 0] \in [Path -> Task \cup {0}]
      /\ [u \in Url |-> -1] \in [Url -> Int]
      /\ [t \in Task |-> "none"] \in [Task -> {"none", "valid", "invalid"}]
      /\ [u \in Url |-> 0] \in [Url -> Task \cup {0}]
      /\ [u \in Url |-> 0] \in [Url -> Nat]
  BY <1>1
<1> SUFFICES ASSUME CacheInit PROVE CacheTypeOK
  OBVIOUS
<1>4. /\ disk \in [Path -> FileContent \cup {None}]
      /\ tmp \in [Path -> Task \cup {0}]
      /\ cacheFile \in Table /\ readable \in BOOLEAN
      /\ foreign \in Nat /\ version \in Version /\ faults \in 0 .. MaxFaults
      /\ alive \in BOOLEAN /\ cache \in Table
  BY <1>1, <1>3, EmptyIsTable DEF CacheInit
<1>5. /\ known \in [Url -> Int]
      /\ verdict \in [Task -> {"none", "valid", "invalid"}]
      /\ sizes \in [Url -> Task \cup {0}] /\ counted \in [Url -> Nat]
  BY <1>3 DEF CacheInit
<1> QED
  BY <1>4, <1>5 DEF CacheInit, CacheTypeOK

\* and every step preserves it, given what the places say of the task at work.
LEMMA CacheTypeStep ==
  ASSUME CacheTypeOK, TaskAtWork, PlacesAgree, [CacheNext]_cacheVars
  PROVE  CacheTypeOK'
  <1> USE DEF cacheVars, files, stored, world, session, plan, control, Quiet, EndPass, GoTo, Construct
  <1>0. Mishap => faults' \in 0 .. MaxFaults
    BY CacheAssumption DEF Mishap, CacheTypeOK
  <1>1. CASE Start
    BY <1>1 DEF Start, CacheTypeOK
  <1>2. CASE BeginSweep
    <2>1. PICK tasks \in Scenarios :
            /\ scenario' = tasks
            /\ \/ Construct("collect", tasks) /\ forced' = FALSE
               \/ Construct("sizing", tasks) /\ forced' \in BOOLEAN
      BY <1>2 DEF BeginSweep
    <2>2. tasks \subseteq Task
      BY CacheAssumption
    <2>3. forced' \in BOOLEAN
      BY <2>1
    <2>4. /\ cache' \in Table /\ queue' \subseteq Task /\ task' \in Task \cup {0}
          /\ pass' \in {"none", "collect", "sizing", "run", "clear"} /\ at' \in {"idle", "next"}
          /\ ending' \in {"none", "threw"} /\ blind' \in BOOLEAN /\ faults' \in 0 .. MaxFaults
      BY <1>0, <2>1, <2>2, EmptyIsTable DEF CacheTypeOK
    <2>5. /\ claimed' = {} /\ completed' = {} /\ unsaved' = {}
          /\ sizes' = [u \in Url |-> 0] /\ counted' = [u \in Url |-> 0]
          /\ UNCHANGED <<disk, tmp, cacheFile, readable, promised, known, verdict,
                         foreign, version, alive>>
      BY <1>2 DEF BeginSweep
    <2> QED
      BY <2>1, <2>2, <2>3, <2>4, <2>5 DEF CacheTypeOK
  <1>3. CASE BeginClear
    BY <1>0, <1>3, EmptyIsTable DEF BeginClear, CacheTypeOK, Recorded
  <1>4. CASE BeginRun
    BY <1>0, <1>4, EmptyIsTable DEF BeginRun, CacheTypeOK, Created
  <1>5. CASE FinishPass
    BY <1>5 DEF FinishPass, CacheTypeOK
  <1>6. CASE CheckTask
    BY <1>6, NextInQueue DEF CheckTask, CacheTypeOK, Validate
  <1>7. CASE SizeTask
    <2>1. /\ pass' \in {"none", "collect", "sizing", "run", "clear"} /\ forced' \in BOOLEAN
          /\ blind' \in BOOLEAN /\ task' \in Task \cup {0} /\ queue' \subseteq Task
          /\ at' \in {"idle", "next"}
          /\ ending' \in {"none", "true", "obtained", "failed", "nospace", "midspace", "full", "threw"}
      BY <1>7 DEF SizeTask, CacheTypeOK, Continue, Fail
    <2>2. /\ known' \in [Url -> Int] /\ sizes' \in [Url -> Task \cup {0}]
          /\ counted' \in [Url -> Nat]
      BY <1>7 DEF SizeTask, CacheTypeOK
    <2>3. UNCHANGED <<disk, tmp, cacheFile, readable, foreign, version, faults, alive, cache,
                      verdict, claimed, scenario, completed, unsaved, promised>>
      BY <1>7 DEF SizeTask
    <2> QED
      BY <2>1, <2>2, <2>3 DEF CacheTypeOK
  <1>8. CASE BeginFetch
    <2>1. task \in Task /\ PathOf[task] \in Path /\ UrlOf[task] \in Url
      BY <1>8, TaskFacts DEF BeginFetch, TaskAtWork, PlacesAgree, Working, CacheTypeOK
    <2>2. Damaged(WholeFile(task)) \in FileContent
      BY <2>1 DEF Damaged, WholeFile, FileContent
    <2>3. /\ disk' \in [Path -> FileContent \cup {None}] /\ tmp' \in [Path -> Task \cup {0}]
          /\ verdict' \in [Task -> {"none", "valid", "invalid"}] /\ promised' \subseteq Task
      BY <1>8, <2>1, <2>2 DEF BeginFetch, CacheTypeOK, Touch, Fail
    <2>4. /\ pass' \in {"none", "collect", "sizing", "run", "clear"} /\ forced' \in BOOLEAN
          /\ blind' \in BOOLEAN /\ task' \in Task \cup {0} /\ queue' \subseteq Task
          /\ at' \in {"idle", "fetching", "copying"}
          /\ ending' \in {"none", "true", "obtained", "failed", "nospace", "midspace", "full", "threw"}
      BY <1>8 DEF BeginFetch, CacheTypeOK, Fail
    <2>5. UNCHANGED <<cacheFile, readable, foreign, version, faults, alive, cache, known,
                      claimed, scenario, sizes, counted, completed, unsaved>>
      BY <1>8 DEF BeginFetch
    <2> QED
      BY <2>3, <2>4, <2>5 DEF CacheTypeOK
  <1>9. CASE EndFetch
    <2>1. task \in Task /\ PathOf[task] \in Path /\ UrlOf[task] \in Url
      BY <1>9, TaskFacts DEF EndFetch, TaskAtWork, PlacesAgree, Working, CacheTypeOK
    <2>2. Obtained(task) \subseteq FileContent
      BY <2>1 DEF Obtained, WholeFile, ShortFile, FileContent
    <2>3. Delivered \subseteq FileContent
      BY <2>2 DEF Delivered, Obtained
    <2>4. faults' \in 0 .. MaxFaults
      BY <1>0, <1>9 DEF EndFetch, CacheTypeOK
    <2>5. /\ disk' \in [Path -> FileContent \cup {None}] /\ tmp' \in [Path -> Task \cup {0}]
          /\ verdict' \in [Task -> {"none", "valid", "invalid"}]
      BY <1>9, <2>3 DEF EndFetch, CacheTypeOK, Touch, Fail
    <2>6. /\ pass' \in {"none", "collect", "sizing", "run", "clear"} /\ forced' \in BOOLEAN
          /\ blind' \in BOOLEAN /\ task' \in Task \cup {0} /\ queue' \subseteq Task
          /\ at' \in {"idle", "rename", "renameShort", "record"}
          /\ ending' \in {"none", "true", "obtained", "failed", "nospace", "midspace", "full", "threw"}
      BY <1>9 DEF EndFetch, CacheTypeOK, Fail
    <2>7. UNCHANGED <<cacheFile, readable, foreign, version, alive, cache, known, claimed,
                      scenario, sizes, counted, completed, unsaved, promised>>
      BY <1>9 DEF EndFetch
    <2> QED
      BY <2>4, <2>5, <2>6, <2>7 DEF CacheTypeOK
  <1>10. CASE Replace
    <2>1. task \in Task /\ PathOf[task] \in Path /\ UrlOf[task] \in Url
      BY <1>10, TaskFacts DEF Replace, TaskAtWork, PlacesAgree, Working, CacheTypeOK
    <2>2. WholeFile(task) \in FileContent /\ ShortFile(task) \in FileContent
      BY <2>1 DEF WholeFile, ShortFile, FileContent
    <2>3. /\ disk' \in [Path -> FileContent \cup {None}] /\ tmp' \in [Path -> Task \cup {0}]
          /\ verdict' \in [Task -> {"none", "valid", "invalid"}] /\ promised' \subseteq Task
      BY <1>10, <2>1, <2>2 DEF Replace, CacheTypeOK, Touch, Fail
    <2>4. /\ pass' \in {"none", "collect", "sizing", "run", "clear"} /\ forced' \in BOOLEAN
          /\ blind' \in BOOLEAN /\ task' \in Task \cup {0} /\ queue' \subseteq Task
          /\ at' \in {"idle", "record"}
          /\ ending' \in {"none", "true", "obtained", "failed", "nospace", "midspace", "full", "threw"}
      BY <1>10 DEF Replace, CacheTypeOK, Fail
    <2>5. UNCHANGED <<cacheFile, readable, foreign, version, faults, alive, cache, known,
                      claimed, scenario, sizes, counted, completed, unsaved>>
      BY <1>10 DEF Replace
    <2> QED
      BY <2>3, <2>4, <2>5 DEF CacheTypeOK
  <1>11. CASE Record
    <2>0. /\ PathOf[task] \in Path /\ UrlOf[task] \in Url
          /\ disk[PathOf[task]] \in Obtained(task)
      BY <1>11, TaskFacts DEF Record, TaskAtWork, PlacesAgree, Working, CacheTypeOK
    <2>1. PathOf[task] \in Path /\ UrlOf[task] \in Url /\ disk[PathOf[task]] \in FileContent
      BY <2>0 DEF Obtained, WholeFile, ShortFile, FileContent
    <2> DEFINE e == [path |-> PathOf[task], sha |-> disk[PathOf[task]], version |-> version]
    <2>2. e \in Entry
      BY <2>1 DEF CacheTypeOK, Entry
    <2>3. Evict(PathOf[task]) \in Table
      BY DEF Evict, CacheTypeOK, Table
    <2>4. cache' = [Evict(PathOf[task]) EXCEPT ![UrlOf[task]] = e] \/ cache' = Evict(PathOf[task])
      BY <1>11 DEF Record
    <2>5. cache' \in Table
      <3> HIDE DEF e
      <3> QED
        BY <2>1, <2>2, <2>3, <2>4 DEF Table
    <2>6. faults' \in 0 .. MaxFaults
      BY <1>0, <1>11 DEF Record, CacheTypeOK
    <2>7. task \in Task
      BY <1>11 DEF Record, TaskAtWork, PlacesAgree, Working, CacheTypeOK
    <2>8. unsaved' \subseteq Task /\ promised' \subseteq Task /\ claimed' \subseteq Task
          /\ at' \in {"store", "done"}
      BY <1>11, <2>7 DEF Record, CacheTypeOK
    <2>9. UNCHANGED <<disk, tmp, cacheFile, readable, foreign, version, alive, known, verdict,
                      pass, forced, task, queue, blind, scenario, sizes, counted, completed,
                      ending>>
      BY <1>11 DEF Record
    <2> QED
      BY <2>5, <2>6, <2>8, <2>9 DEF CacheTypeOK
  <1>12. CASE OpenCacheFile
    BY <1>0, <1>12, EmptyIsTable DEF OpenCacheFile, EndStore, Truncate, CacheTypeOK
  <1>13. CASE WriteCacheFile
    BY <1>0, <1>13 DEF WriteCacheFile, EndStore, CacheTypeOK
  <1>14. CASE AfterTask
    BY <1>14, TaskFacts DEF AfterTask, CacheTypeOK, Continue, TaskAtWork, PlacesAgree,
       Working
  <1>15. CASE ClearEntry
    <2>1. faults' \in 0 .. MaxFaults
      BY <1>0, <1>15 DEF ClearEntry, CacheTypeOK
    <2>2. cache' \in Table /\ disk' \in [Path -> FileContent \cup {None}]
          /\ verdict' \in [Task -> {"none", "valid", "invalid"}] /\ queue' \subseteq Task
      BY <1>15 DEF ClearEntry, CacheTypeOK, Touch, Table
    <2>3. UNCHANGED <<tmp, cacheFile, readable, foreign, version, alive, known, pass, forced, at,
                      task, blind, claimed, scenario, sizes, counted, completed, unsaved, ending, promised>>
      BY <1>15 DEF ClearEntry
    <2> QED
      BY <2>1, <2>2, <2>3 DEF CacheTypeOK
  <1>16. CASE StoreCleared
    BY <1>16 DEF StoreCleared, CacheTypeOK
  <1>17. CASE Crash
    <2>1. -1 \in Int /\ Empty \in Table
      BY EmptyIsTable
    <2> QED
      BY <1>17, <2>1 DEF Crash, CacheTypeOK
  <1>18. CASE Disturb
    <2>1. faults' \in 0 .. MaxFaults
      BY <1>0, <1>18 DEF Disturb, CacheTypeOK
    <2>2. PICK p \in Path :
            /\ disk[p] # None
            /\ disk' = [disk EXCEPT ![p] = IF disk[p].held = "some" THEN None ELSE Damaged(disk[p])]
            /\ Touch(p)
            /\ promised' = {t \in promised : PathOf[t] # p}
      BY <1>18 DEF Disturb
    <2>3. Damaged(disk[p]) \in FileContent
      BY <2>2 DEF CacheTypeOK, FileContent, Damaged
    <2>4. disk' \in [Path -> FileContent \cup {None}]
      BY <2>2, <2>3 DEF CacheTypeOK
    <2>5. verdict' \in [Task -> {"none", "valid", "invalid"}] /\ promised' \subseteq Task
      BY <2>2 DEF CacheTypeOK, Touch
    <2>6. UNCHANGED <<tmp, cacheFile, readable, foreign, version, alive, cache, known, pass, forced,
                      at, task, queue, blind, claimed, scenario, sizes, counted, completed,
                      unsaved, ending>>
      BY <1>18 DEF Disturb
    <2> QED
      BY <2>1, <2>4, <2>5, <2>6 DEF CacheTypeOK
  <1>19. CASE TakeSpace
    <2>1. faults' \in 0 .. MaxFaults
      BY <1>0, <1>19 DEF TakeSpace, CacheTypeOK
    <2>2. Available \in Nat
      BY UsedTyped, CacheAssumption DEF Available
    <2>3. foreign' \in Nat
      BY <1>19, <2>2 DEF TakeSpace, CacheTypeOK
    <2> QED
      BY <1>19, <2>1, <2>3 DEF TakeSpace, CacheTypeOK
  <1>20. CASE UNCHANGED cacheVars
    BY <1>20 DEF CacheTypeOK
  <1> QED
    BY <1>1, <1>2, <1>3, <1>4, <1>5, <1>6, <1>7, <1>8, <1>9, <1>10, <1>11, <1>12, <1>13,
       <1>14, <1>15, <1>16, <1>17, <1>18, <1>19, <1>20 DEF CacheNext, Step

\* Every step preserves PlacesAgree,
LEMMA PlacesStep ==
  ASSUME PassInv, [CacheNext]_cacheVars
  PROVE  PlacesAgree'
<1> USE DEF PassInv, cacheVars, files, stored, world, session, plan, control, Quiet,
   EndPass, GoTo, Mishap, Construct
<1>1. CASE Start
  BY <1>1 DEF Start, PlacesAgree, Working
<1>2. CASE BeginSweep
  BY <1>2 DEF BeginSweep, PlacesAgree, Working
<1>3. CASE BeginClear
  BY <1>3 DEF BeginClear, PlacesAgree, Working
<1>4. CASE BeginRun
  BY <1>4 DEF BeginRun, PlacesAgree, Created, Working
<1>5. CASE FinishPass
  BY <1>5 DEF FinishPass, PlacesAgree, Working
<1>6. CASE CheckTask
  <2>1. pass \in {"collect", "sizing", "run"} /\ at = "next" /\ alive
    BY <1>6 DEF CheckTask, PlacesAgree, CacheTypeOK
  <2>2. at' \in {"next", "size", "fetch"} /\ (at' = "size" => pass # "run") /\ (at' = "fetch" => pass = "run")
    BY <1>6, <2>1 DEF CheckTask
  <2>3. UNCHANGED <<pass, alive, readable, ending, promised>>
    BY <1>6 DEF CheckTask
  <2> QED
    BY <2>1, <2>2, <2>3 DEF PlacesAgree, Working
<1>7. CASE SizeTask
  BY <1>7 DEF SizeTask, PlacesAgree, Continue, Fail, Working
<1>8. CASE BeginFetch
  BY <1>8 DEF BeginFetch, PlacesAgree, Fail, Touch, Working
<1>9. CASE EndFetch
  BY <1>9 DEF EndFetch, Delivered, PlacesAgree, Fail, Touch, Working
<1>10. CASE Replace
  BY <1>10 DEF Replace, PlacesAgree, Fail, Touch, Working
<1>11. CASE Record
  BY <1>11 DEF Record, PlacesAgree, Evict, Working
<1>12. CASE OpenCacheFile
  BY <1>12 DEF OpenCacheFile, EndStore, PlacesAgree, Truncate, Working
<1>13. CASE WriteCacheFile
  BY <1>13 DEF WriteCacheFile, EndStore, PlacesAgree, Working
<1>14. CASE AfterTask
  BY <1>14 DEF AfterTask, PlacesAgree, Continue, Working
<1>15. CASE ClearEntry
  BY <1>15 DEF ClearEntry, PlacesAgree, Touch, Working
<1>16. CASE StoreCleared
  BY <1>16 DEF StoreCleared, PlacesAgree, Working
<1>17. CASE Crash
  BY <1>17 DEF Crash, PlacesAgree, Working
<1>18. CASE Disturb
  BY <1>18 DEF Disturb, PlacesAgree, Touch, Working
<1>19. CASE TakeSpace
  BY <1>19 DEF TakeSpace, PlacesAgree, Working
<1>20. CASE UNCHANGED cacheVars
  BY <1>20 DEF PlacesAgree, Working
<1> QED
  BY <1>1, <1>2, <1>3, <1>4, <1>5, <1>6, <1>7, <1>8, <1>9, <1>10, <1>11, <1>12, <1>13,
     <1>14, <1>15, <1>16, <1>17, <1>18, <1>19, <1>20 DEF CacheNext, Step

\* TaskAtWork,
LEMMA WorkStep ==
  ASSUME PassInv, [CacheNext]_cacheVars
  PROVE  TaskAtWork'
<1> USE DEF PassInv, cacheVars, files, stored, world, session, plan, control, Quiet,
   EndPass, GoTo, Mishap, Construct
<1>1. CASE Start
  BY <1>1, TaskFacts, NextInQueue DEF Start, TaskAtWork, PlacesAgree, Working, WholeFile, ShortFile, Obtained
<1>2. CASE BeginSweep
  BY <1>2, TaskFacts, NextInQueue DEF BeginSweep, TaskAtWork, PlacesAgree, Working,
     WholeFile, ShortFile, Obtained
<1>3. CASE BeginClear
  BY <1>3, TaskFacts, NextInQueue DEF BeginClear, TaskAtWork, PlacesAgree, Working,
     WholeFile, ShortFile, Obtained
<1>4. CASE BeginRun
  BY <1>4, TaskFacts, NextInQueue DEF BeginRun, TaskAtWork, Created, PlacesAgree,
     Working, WholeFile, ShortFile, Obtained
<1>5. CASE FinishPass
  BY <1>5, TaskFacts, NextInQueue DEF FinishPass, TaskAtWork, PlacesAgree, Working,
     WholeFile, ShortFile, Obtained
<1>6. CASE CheckTask
  <2>1. pass \in {"collect", "sizing", "run"} /\ at = "next" /\ queue # {}
    BY <1>6 DEF CheckTask, PlacesAgree, CacheTypeOK
  <2>2. Next1 \in queue /\ queue \subseteq scenario
    BY <2>1, NextInQueue DEF TaskAtWork
  <2>3. /\ queue' = queue \ {Next1} /\ UNCHANGED <<pass, scenario>>
        /\ at' \in {"next", "size", "fetch"} /\ (at' = "next" \/ task' = Next1)
        /\ unsaved' \subseteq unsaved \cup {Next1}
    BY <1>6, <2>1 DEF CheckTask
  <2> QED
    BY <2>1, <2>2, <2>3 DEF TaskAtWork, Working
<1>7. CASE SizeTask
  BY <1>7, TaskFacts, NextInQueue DEF SizeTask, TaskAtWork, Continue, Fail, PlacesAgree,
     Working, WholeFile, ShortFile, Obtained
<1>8. CASE BeginFetch
  <2>1. at = "fetch" /\ pass = "run" /\ task \in scenario \ queue /\ task \in Task
    BY <1>8 DEF BeginFetch, TaskAtWork, PlacesAgree, Working, CacheTypeOK
  <2>2. PathOf[task] \in Path
    BY <2>1, TaskFacts
  <2>3. UNCHANGED <<scenario, readable, unsaved>>
    BY <1>8 DEF BeginFetch
  <2>4. CASE /\ task \notin Local /\ tmp' = [tmp EXCEPT ![PathOf[task]] = task] /\ GoTo("fetching")
             /\ UNCHANGED <<disk, verdict, promised>>
    <3>1. tmp'[PathOf[task]] = task
      BY <2>2, <2>4 DEF CacheTypeOK
    <3> QED
      BY <2>1, <2>3, <2>4, <3>1 DEF TaskAtWork, Working
  <2>5. CASE /\ task \in Local
             /\ disk' = [disk EXCEPT ![PathOf[task]] = Damaged(WholeFile(task))]
             /\ promised' = {t \in promised : PathOf[t] # PathOf[task]}
             /\ GoTo("copying")
             /\ UNCHANGED tmp
    <3>1. disk'[PathOf[task]] = Damaged(WholeFile(task))'
      BY <2>2, <2>5 DEF CacheTypeOK, WholeFile, ShortFile, Obtained, Damaged
    <3> QED
      BY <2>1, <2>3, <2>5, <3>1 DEF TaskAtWork, Working
  <2>6. CASE Fail
    BY <2>6 DEF Fail, TaskAtWork, Working
  <2> QED
    BY <1>8, <2>4, <2>5, <2>6 DEF BeginFetch
<1>9. CASE EndFetch
  <2>1. /\ at \in {"fetching", "copying"} /\ pass = "run" /\ task \in scenario \ queue /\ task \in Task
        /\ UNCHANGED <<scenario, promised, unsaved>>
    BY <1>9 DEF EndFetch, TaskAtWork, PlacesAgree, Working, CacheTypeOK
  <2>2. PathOf[task] \in Path
    BY <2>1, TaskFacts
  <2>3. CASE Fail \/ EndPass("full")
    BY <2>1, <2>3 DEF Fail, TaskAtWork, Working
  <2>4. ASSUME NEW c \in Delivered,
               \/ at = "fetching" /\ at' \in {"rename", "renameShort"} /\ UNCHANGED <<disk, tmp, verdict>>
               \/ /\ at = "copying" /\ at' = "record" /\ Touch(PathOf[task])
                  /\ disk' = [disk EXCEPT ![PathOf[task]] = c],
               UNCHANGED <<pass, forced, task, queue, blind, ending>>
        PROVE  TaskAtWork'
    <3>1. CASE at = "fetching"
      BY <2>1, <2>4, <3>1 DEF TaskAtWork, Working
    <3>2. CASE at = "copying"
      <4>1. c \in Obtained(task)
        BY DEF Delivered, Obtained
      <4>2. disk'[PathOf[task]] = c /\ Obtained(task)' = Obtained(task)
        BY <2>2, <2>4, <3>2 DEF CacheTypeOK, WholeFile, ShortFile, Obtained
      <4>3. \A t \in Task : PathOf[t] = PathOf[task] => verdict'[t] # "valid"
        BY <2>4, <3>2 DEF Touch
      <4>4. \A t \in promised : PathOf[t] # PathOf[task]
        BY <3>2 DEF TaskAtWork
      <4> QED
        BY <2>1, <2>4, <3>2, <4>1, <4>2, <4>3, <4>4 DEF TaskAtWork, Working
    <3> QED
      BY <2>1, <3>1, <3>2
  <2> QED
    BY <1>9, <2>3, <2>4 DEF EndFetch
<1>10. CASE Replace
  <2>1. /\ at \in {"rename", "renameShort"} /\ pass = "run" /\ task \in scenario \ queue
        /\ task \in Task
    BY <1>10 DEF Replace, TaskAtWork, PlacesAgree, Working, CacheTypeOK
  <2>2. PathOf[task] \in Path /\ UNCHANGED <<scenario, unsaved>>
    BY <1>10, <2>1, TaskFacts DEF Replace
  <2>3. CASE Fail
    BY <2>1, <2>3 DEF Fail, TaskAtWork, Working
  <2>4. ASSUME NEW c \in Obtained(task),
               disk' = [disk EXCEPT ![PathOf[task]] = c], Touch(PathOf[task]),
               promised' = {t \in promised : PathOf[t] = PathOf[task] => disk[PathOf[task]] = c},
               GoTo("record")
        PROVE  TaskAtWork'
    <3>1. disk'[PathOf[task]] = c /\ Obtained(task)' = Obtained(task)
      BY <2>2, <2>4 DEF CacheTypeOK, WholeFile, ShortFile, Obtained
    <3>2. \A t \in Task : PathOf[t] = PathOf[task] => verdict'[t] # "valid"
      BY <2>4 DEF Touch
    <3>3. \A t \in promised' : PathOf[t] = PathOf[task] => UrlOf[t] = UrlOf[task]
      <4> SUFFICES ASSUME NEW t \in promised', PathOf[t] = PathOf[task]
                   PROVE  UrlOf[t] = UrlOf[task]
        OBVIOUS
      <4>1. c \in Obtained(t)
        BY <2>4 DEF PromisesHold
      <4> QED
        BY <4>1 DEF Obtained, WholeFile, ShortFile
    <3> QED
      BY <2>1, <2>2, <2>4, <3>1, <3>2, <3>3 DEF TaskAtWork, Working
  <2>5. WholeFile(task) \in Obtained(task) /\ ShortFile(task) \in Obtained(task)
    BY DEF Obtained
  <2> QED
    BY <1>10, <2>3, <2>4, <2>5 DEF Replace
<1>11. CASE Record
  BY <1>11, TaskFacts, NextInQueue DEF Record, TaskAtWork, Evict, PlacesAgree, Working,
     WholeFile, ShortFile, Obtained
<1>12. CASE OpenCacheFile
  BY <1>12, TaskFacts, NextInQueue DEF OpenCacheFile, EndStore, TaskAtWork, Truncate, PlacesAgree,
     Working, WholeFile, ShortFile, Obtained
<1>13. CASE WriteCacheFile
  BY <1>13, TaskFacts, NextInQueue DEF WriteCacheFile, EndStore, TaskAtWork, PlacesAgree, Working,
     WholeFile, ShortFile, Obtained
<1>14. CASE AfterTask
  BY <1>14, TaskFacts, NextInQueue DEF AfterTask, TaskAtWork, Continue, PlacesAgree,
     Working, WholeFile, ShortFile, Obtained
<1>15. CASE ClearEntry
  BY <1>15, TaskFacts, NextInQueue DEF ClearEntry, TaskAtWork, Touch, PlacesAgree,
     Working, WholeFile, ShortFile, Obtained
<1>16. CASE StoreCleared
  BY <1>16, TaskFacts, NextInQueue DEF StoreCleared, TaskAtWork, PlacesAgree, Working,
     WholeFile, ShortFile, Obtained
<1>17. CASE Crash
  BY <1>17, TaskFacts, NextInQueue DEF Crash, TaskAtWork, PlacesAgree, Working, WholeFile, ShortFile, Obtained
<1>18. CASE Disturb
  BY <1>18, TaskFacts, NextInQueue DEF Disturb, TaskAtWork, Touch, PlacesAgree, Working,
     WholeFile, ShortFile, Obtained
<1>19. CASE TakeSpace
  BY <1>19, TaskFacts, NextInQueue DEF TakeSpace, TaskAtWork, PlacesAgree, Working,
     WholeFile, ShortFile, Obtained
<1>20. CASE UNCHANGED cacheVars
  BY <1>20 DEF TaskAtWork, PlacesAgree, Working, WholeFile, ShortFile, Obtained
<1> QED
  BY <1>1, <1>2, <1>3, <1>4, <1>5, <1>6, <1>7, <1>8, <1>9, <1>10, <1>11, <1>12, <1>13,
     <1>14, <1>15, <1>16, <1>17, <1>18, <1>19, <1>20 DEF CacheNext, Step

\* and EntriesFit: only a file that was delivered is recorded.
LEMMA EntriesStep ==
  ASSUME PassInv, [CacheNext]_cacheVars
  PROVE  EntriesFit'
<1> USE DEF PassInv, cacheVars, files, stored, world, session, plan, control, Quiet,
   EndPass, GoTo, Mishap, Construct
<1>1. CASE Start
  BY <1>1, TaskFacts DEF Start, EntriesFit, PlacesAgree, TaskAtWork, Working, Empty
<1>2. CASE BeginSweep
  BY <1>2, TaskFacts DEF BeginSweep, EntriesFit, PlacesAgree, TaskAtWork, Working,
     Empty
<1>3. CASE BeginClear
  BY <1>3, TaskFacts DEF BeginClear, EntriesFit, PlacesAgree, TaskAtWork, Working,
     Empty
<1>4. CASE BeginRun
  BY <1>4, TaskFacts DEF BeginRun, EntriesFit, Created, PlacesAgree, TaskAtWork,
     Working, Empty
<1>5. CASE FinishPass
  BY <1>5, TaskFacts DEF FinishPass, EntriesFit, PlacesAgree, TaskAtWork, Working,
     Empty
<1>6. CASE CheckTask
  BY <1>6, TaskFacts DEF CheckTask, EntriesFit, PlacesAgree, TaskAtWork, Working,
     Empty
<1>7. CASE SizeTask
  BY <1>7, TaskFacts DEF SizeTask, EntriesFit, Continue, Fail, PlacesAgree,
     TaskAtWork, Working, Empty
<1>8. CASE BeginFetch
  BY <1>8, TaskFacts DEF BeginFetch, EntriesFit, Fail, Touch, PlacesAgree,
     TaskAtWork, Working, Empty
<1>9. CASE EndFetch
  BY <1>9, TaskFacts DEF EndFetch, Delivered, EntriesFit, Fail, Touch, PlacesAgree, TaskAtWork,
     Working, Empty
<1>10. CASE Replace
  BY <1>10, TaskFacts DEF Replace, EntriesFit, Fail, Touch, PlacesAgree, TaskAtWork,
     Working, Empty
<1>11. CASE Record
  <2>1. at = "record" /\ task \in Task /\ disk[PathOf[task]] \in Obtained(task) /\ cacheFile' = cacheFile
    BY <1>11 DEF Record, TaskAtWork, PlacesAgree, Working, CacheTypeOK
  <2>2. UrlOf[task] \in Url
    BY <2>1, TaskFacts
  <2>3. \A u \in Url : Evict(PathOf[task])[u] # None => Evict(PathOf[task])[u] = cache[u] /\ cache[u] # None
    BY DEF Evict
  <2> DEFINE e == [path |-> PathOf[task], sha |-> disk[PathOf[task]], version |-> version]
  <2>4. e.sha.url = UrlOf[task] /\ e.sha.held \in {"all", "most"} /\ e.path = PathOf[task]
    BY <2>1 DEF WholeFile, ShortFile, Obtained
  <2>5. cache' = [Evict(PathOf[task]) EXCEPT ![UrlOf[task]] = e] \/ cache' = Evict(PathOf[task])
    BY <1>11 DEF Record
  <2>6. \A u \in Url : cache'[u] # None => (cache'[u] = cache[u] /\ cache[u] # None)
                                          \/ (u = UrlOf[task] /\ cache'[u] = e)
    <3> HIDE DEF e
    <3>1. DOMAIN Evict(PathOf[task]) = Url
      BY DEF Evict
    <3> QED
      BY <2>3, <2>5, <3>1
  <2>7. \A u \in Url : cache'[u] # None =>
          /\ cache'[u].sha.url = u /\ cache'[u].sha.held \in {"all", "most"}
          /\ \E t \in Task : UrlOf[t] = u /\ PathOf[t] = cache'[u].path
    <3> HIDE DEF e
    <3>1. ASSUME NEW u \in Url, cache'[u] = cache[u], cache[u] # None
          PROVE  /\ cache'[u].sha.url = u /\ cache'[u].sha.held \in {"all", "most"}
                 /\ \E t \in Task : UrlOf[t] = u /\ PathOf[t] = cache'[u].path
      BY <3>1 DEF EntriesFit
    <3>2. ASSUME NEW u \in Url, u = UrlOf[task], cache'[u] = e
          PROVE  /\ cache'[u].sha.url = u /\ cache'[u].sha.held \in {"all", "most"}
                 /\ \E t \in Task : UrlOf[t] = u /\ PathOf[t] = cache'[u].path
      BY <2>1, <2>4, <3>2
    <3> QED
      BY <2>6, <3>1, <3>2
  <2> QED
    BY <2>1, <2>7 DEF EntriesFit
<1>12. CASE OpenCacheFile
  BY <1>12, TaskFacts DEF OpenCacheFile, EndStore, EntriesFit, Truncate, PlacesAgree,
     TaskAtWork, Working, Empty
<1>13. CASE WriteCacheFile
  BY <1>13, TaskFacts DEF WriteCacheFile, EndStore, EntriesFit, PlacesAgree, TaskAtWork,
     Working, Empty
<1>14. CASE AfterTask
  BY <1>14, TaskFacts DEF AfterTask, EntriesFit, Continue, PlacesAgree, TaskAtWork,
     Working, Empty
<1>15. CASE ClearEntry
  <2>1. \A u \in Url : cache'[u] # None => cache'[u] = cache[u] /\ cache[u] # None
    <3>1. cache' = cache \/ \E u \in {UrlOf[Next1]} : cache' = [cache EXCEPT ![u] = None]
      BY <1>15 DEF ClearEntry
    <3> QED
      BY <3>1 DEF CacheTypeOK, Table
  <2>2. cacheFile' = cacheFile
    BY <1>15 DEF ClearEntry
  <2> QED
    BY <2>1, <2>2 DEF EntriesFit
<1>16. CASE StoreCleared
  BY <1>16, TaskFacts DEF StoreCleared, EntriesFit, PlacesAgree, TaskAtWork,
     Working, Empty
<1>17. CASE Crash
  BY <1>17, TaskFacts DEF Crash, EntriesFit, PlacesAgree, TaskAtWork, Working, Empty
<1>18. CASE Disturb
  BY <1>18, TaskFacts DEF Disturb, EntriesFit, Touch, PlacesAgree, TaskAtWork,
     Working, Empty
<1>19. CASE TakeSpace
  BY <1>19, TaskFacts DEF TakeSpace, EntriesFit, PlacesAgree, TaskAtWork, Working,
     Empty
<1>20. CASE UNCHANGED cacheVars
  BY <1>20 DEF EntriesFit, PlacesAgree, TaskAtWork, Working, Empty
<1> QED
  BY <1>1, <1>2, <1>3, <1>4, <1>5, <1>6, <1>7, <1>8, <1>9, <1>10, <1>11, <1>12, <1>13,
     <1>14, <1>15, <1>16, <1>17, <1>18, <1>19, <1>20 DEF CacheNext, Step

\* What recording a file does to the table in memory.
LEMMA RecordFacts ==
  ASSUME PassInv, Record
  PROVE  /\ at = "record" /\ pass = "run" /\ task \in Task
         /\ disk[PathOf[task]] \in Obtained(task)
         /\ at' \in {"store", "done"} /\ claimed' = claimed \cup {task}
         /\ at' = "done" => unsaved' = unsaved \cup {task}
                            /\ promised' = {t \in promised : PathOf[t] # PathOf[task]}
         /\ at' = "store" => UNCHANGED <<unsaved, promised>>
         /\ UNCHANGED <<disk, tmp, cacheFile, readable, foreign, version, alive, known, verdict,
                      pass, forced, task, queue, blind, scenario, sizes, counted, completed, ending>>
         /\ at' = "done" => faults' > 0
         /\ faults' = 0 => faults = 0
         /\ \A u \in Url : cache'[u] # None =>
              \/ cache'[u] = cache[u] /\ cache[u] # None /\ cache[u].path # PathOf[task]
              \/ u = UrlOf[task] /\ at' = "store" /\ cache'[u].path = PathOf[task]
         /\ \A u \in Url : cache[u] # None /\ cache[u].path # PathOf[task] =>
              cache'[u] = cache[u] \/ (u = UrlOf[task] /\ at' = "store")
         /\ at' = "store" => cache'[UrlOf[task]] # None /\ cache'[UrlOf[task]].version = version
                            /\ cache'[UrlOf[task]].sha = disk[PathOf[task]]
<1> USE DEF PassInv
<1>1. at = "record" /\ pass = "run" /\ task \in Task
      /\ disk[PathOf[task]] \in Obtained(task)
  BY DEF Record, TaskAtWork, PlacesAgree, Working, CacheTypeOK
<1>2. UrlOf[task] \in Url
  BY <1>1, TaskFacts
<1>3. /\ at' \in {"store", "done"} /\ claimed' = claimed \cup {task}
      /\ at' = "done" => unsaved' = unsaved \cup {task}
                         /\ promised' = {t \in promised : PathOf[t] # PathOf[task]}
      /\ at' = "store" => UNCHANGED <<unsaved, promised>>
      /\ UNCHANGED <<disk, tmp, cacheFile, readable, foreign, version, alive, known, verdict,
                      pass, forced, task, queue, blind, scenario, sizes, counted, completed, ending>>
      /\ at' = "done" => faults' > 0
      /\ faults' = 0 => faults = 0
  BY DEF Record, GoTo, Mishap, files, stored, session, CacheTypeOK
<1> DEFINE e == [path |-> PathOf[task], sha |-> disk[PathOf[task]], version |-> version]
           kept == Evict(PathOf[task])
<1>4. e.path = PathOf[task] /\ e.version = version /\ e.sha = disk[PathOf[task]] /\ e # None
  <2>1. PathOf[task] \in Path /\ UrlOf[task] \in Url /\ version \in Version
    BY <1>1, TaskFacts DEF CacheTypeOK
  <2>3. disk[PathOf[task]] \in FileContent
    BY <1>1, <2>1 DEF Obtained, WholeFile, ShortFile, FileContent
  <2>2. e \in Entry
    BY <2>1, <2>3 DEF Entry
  <2> QED
    BY <2>2, CacheAssumption
<1>5. \/ cache' = [kept EXCEPT ![UrlOf[task]] = e] /\ at' = "store"
      \/ cache' = kept /\ at' = "done"
  BY DEF Record, GoTo
<1>6. /\ DOMAIN kept = Url
      /\ \A u \in Url : kept[u] # None => kept[u] = cache[u] /\ cache[u] # None /\ cache[u].path # PathOf[task]
      /\ \A u \in Url : cache[u] # None /\ cache[u].path # PathOf[task] => kept[u] = cache[u]
  BY DEF Evict
<1> HIDE DEF e, kept
<1>7. \A u \in Url : cache'[u] = kept[u] \/ (u = UrlOf[task] /\ at' = "store" /\ cache'[u] = e)
  BY <1>5, <1>6
<1>8. at' = "store" => cache'[UrlOf[task]] = e
  BY <1>2, <1>5, <1>6
<1>9. \A u \in Url : cache'[u] # None =>
              \/ cache'[u] = cache[u] /\ cache[u] # None /\ cache[u].path # PathOf[task]
              \/ u = UrlOf[task] /\ at' = "store" /\ cache'[u].path = PathOf[task]
  BY <1>4, <1>6, <1>7
<1>10. \A u \in Url : cache[u] # None /\ cache[u].path # PathOf[task] =>
              cache'[u] = cache[u] \/ (u = UrlOf[task] /\ at' = "store")
  BY <1>6, <1>7
<1>11. at' = "store" => cache'[UrlOf[task]] # None /\ cache'[UrlOf[task]].version = version
                            /\ cache'[UrlOf[task]].sha = disk[PathOf[task]]
  BY <1>4, <1>8
<1> QED
  BY <1>1, <1>3, <1>9, <1>10, <1>11

\* A URL with one destination has its entry there.
LEMMA EntryPath ==
  ASSUME PassInv, NEW t \in Task, Single(t)
  PROVE  /\ cache[UrlOf[t]] # None => cache[UrlOf[t]].path = PathOf[t]
         /\ cacheFile[UrlOf[t]] # None => cacheFile[UrlOf[t]].path = PathOf[t]
<1>1. UrlOf[t] \in Url
  BY TaskFacts
<1> QED
  BY <1>1 DEF PassInv, EntriesFit, Single

\* Recording a file leaves the entries of other destinations, and makes its own.
LEMMA RecordHas ==
  ASSUME PassInv, Record, NEW t \in Task
  PROVE  /\ Has(cache, t) /\ Single(t) /\ PathOf[t] # PathOf[task] => Has(cache, t)'
         /\ UrlOf[t] = UrlOf[task] /\ PathOf[t] = PathOf[task] /\ at' = "store" => Has(cache, t)'
<1>1. UrlOf[t] \in Url
  BY TaskFacts
<1>2. version' = version /\ disk' = disk
  BY RecordFacts
<1>3. ASSUME Has(cache, t), Single(t), PathOf[t] # PathOf[task]
      PROVE  Has(cache, t)'
  <2>1. cache[UrlOf[t]] # None /\ cache[UrlOf[t]].path # PathOf[task]
    BY <1>3, EntryPath DEF Has
  <2>2. cache'[UrlOf[t]] = cache[UrlOf[t]] \/ (UrlOf[t] = UrlOf[task] /\ at' = "store")
    BY <1>1, <2>1, RecordFacts
  <2>4. ~(UrlOf[t] = UrlOf[task])
    BY <1>3, RecordFacts DEF Single
  <2> QED
    BY <1>2, <1>3, <2>2, <2>4 DEF Has
<1>4. ASSUME UrlOf[t] = UrlOf[task], PathOf[t] = PathOf[task], at' = "store"
      PROVE  Has(cache, t)'
  <2>3. at' = "store" => cache'[UrlOf[task]] # None /\ cache'[UrlOf[task]].version = version
                            /\ cache'[UrlOf[task]].sha = disk[PathOf[task]]
    BY RecordFacts
  <2> QED
    BY <1>2, <1>4, <2>3 DEF Has
<1> QED
  BY <1>3, <1>4

\* What a pass has in memory is on disk, but while a file is being recorded, and unless
\* it could not be.
LEMMA StoredHas ==
  ASSUME PassInv, NEW t \in Task, pass \in {"collect", "sizing", "run"}, at # "store", readable,
         Has(cache, t), \A s \in unsaved : UrlOf[s] # UrlOf[t]
  PROVE  Has(cacheFile, t)
<1>1. UrlOf[t] \in Url
  BY TaskFacts
<1>2. cacheFile[UrlOf[t]] = cache[UrlOf[t]]
  BY <1>1 DEF PassInv, CacheIsStored, Has
<1> QED
  BY <1>2 DEF Has

\* It could if no file has ever failed.
LEMMA NothingUnsaved ==
  ASSUME PassInv, faults = 0, NEW t \in Task, Single(t)
  PROVE  \A s \in unsaved : UrlOf[s] # UrlOf[t]
<1> SUFFICES ASSUME NEW s \in unsaved, UrlOf[s] = UrlOf[t]
             PROVE  FALSE
  OBVIOUS
<1>1. s \in Task
  BY DEF PassInv, CacheTypeOK
<1>2. Single(s)
  BY <1>1 DEF Single
<1> QED
  BY <1>2 DEF PassInv, UnsavedByFault

\* What a valid file says of itself.
LEMMA ValidFile ==
  ASSUME PassInv, pass # "none", NEW t \in Task, disk[PathOf[t]] # None, Validate(t) = "valid"
  PROVE  /\ disk[PathOf[t]] \in Obtained(t)
         /\ Valid(t) => Has(cache, t)
         /\ faults = 0 /\ Single(t) => Has(cache, t)
<1>1. UrlOf[t] \in Url
  BY TaskFacts
<1>0. Valid(t) => Has(cache, t)
  BY DEF Valid, Has
<1>2. CASE verdict[t] = "valid"
  BY <1>0, <1>2 DEF PassInv, VerdictsHold
<1>3. CASE verdict[t] = "none" /\ Valid(t)
  <2>1. cache[UrlOf[t]] # None /\ disk[PathOf[t]] = cache[UrlOf[t]].sha
        /\ (t \in Versioned => cache[UrlOf[t]].version = version)
    BY <1>3 DEF Valid
  <2>2. cache[UrlOf[t]].sha.url = UrlOf[t] /\ cache[UrlOf[t]].sha.held \in {"all", "most"}
    BY <1>1, <2>1 DEF PassInv, EntriesFit
  <2>3. cache[UrlOf[t]].sha \in FileContent
    <3>1. cache[UrlOf[t]] \in Entry
      BY <1>1, <2>1 DEF PassInv, CacheTypeOK, Table
    <3> QED
      BY <3>1 DEF Entry
  <2>4. disk[PathOf[t]] \in Obtained(t)
    BY <2>1, <2>2, <2>3 DEF FileContent, WholeFile, ShortFile, Obtained
  <2> QED
    BY <1>0, <1>3, <2>4
<1> QED
  BY <1>2, <1>3 DEF Validate

\* The verdicts left by a step that does not touch their files.
LEMMA VerdictsStay ==
  ASSUME PassInv, pass \in {"collect", "sizing", "run"}, at # "store", faults' = 0 => faults = 0,
         pass' \in {pass, "none"}, UNCHANGED <<cache, cacheFile, readable, version>>,
         \A t \in Task : verdict'[t] = "valid" =>
           verdict[t] = "valid" /\ disk'[PathOf[t]] = disk[PathOf[t]]
  PROVE  VerdictsHold'
<1> SUFFICES ASSUME NEW t \in Task, verdict'[t] = "valid"
             PROVE  /\ disk'[PathOf[t]] \in Obtained(t)'
                    /\ faults' = 0 /\ Single(t) => IF pass' = "none" THEN readable' => Has(cacheFile, t)' ELSE Has(cache, t)'
  BY DEF VerdictsHold, Single
<1>1. disk[PathOf[t]] \in Obtained(t) /\ (faults = 0 /\ Single(t) => Has(cache, t))
  BY DEF PassInv, VerdictsHold
<1>2. Has(cache, t) => Has(cache, t)'
  BY DEF Has
<1>3. Has(cache, t) /\ readable /\ faults = 0 /\ Single(t) => Has(cacheFile, t)'
  BY StoredHas, NothingUnsaved DEF Has
<1> QED
  BY <1>1, <1>2, <1>3 DEF WholeFile, ShortFile, Obtained

\* The promises left by a step that does not touch their files.
LEMMA PromisesStay ==
  ASSUME PassInv, (pass' = pass /\ blind' = blind) \/ pass' = "none",
         UNCHANGED <<cache, cacheFile, readable, version>>,
         \A t \in promised' : t \in promised /\ disk'[PathOf[t]] = disk[PathOf[t]]
  PROVE  PromisesHold'
<1> SUFFICES ASSUME NEW t \in promised'
             PROVE  /\ disk'[PathOf[t]] \in Obtained(t)' /\ Single(t)
                    /\ readable' => Has(cacheFile, t)'
                    /\ pass' \in {"collect", "sizing", "run"} /\ ~blind' => Has(cache, t)'
  BY DEF PromisesHold, Single
<1>1. t \in promised
  OBVIOUS
<1>2. /\ disk[PathOf[t]] \in Obtained(t) /\ Single(t) /\ (readable => Has(cacheFile, t))
      /\ pass \in {"collect", "sizing", "run"} /\ ~blind => Has(cache, t)
  BY <1>1 DEF PassInv, PromisesHold
<1> QED
  BY <1>2 DEF WholeFile, ShortFile, Obtained, Has

\* Every step preserves OneEntryPerPath: AddUrlToCache evicts before it records.
LEMMA OneEntryStep ==
  ASSUME PassInv, [CacheNext]_cacheVars
  PROVE  OneEntryPerPath'
<1> USE DEF PassInv, cacheVars, files, stored, world, session, plan, control, Quiet,
   EndPass, GoTo, Mishap, Construct
<1>1. CASE Start
  BY <1>1, EntriesStep, TaskFacts DEF Start, OneEntryPerPath, EntriesFit,
     PlacesAgree, TaskAtWork, Working, Empty
<1>2. CASE BeginSweep
  BY <1>2, EntriesStep, TaskFacts DEF BeginSweep, OneEntryPerPath, EntriesFit,
     PlacesAgree, TaskAtWork, Working, Empty
<1>3. CASE BeginClear
  BY <1>3, EntriesStep, TaskFacts DEF BeginClear, OneEntryPerPath, EntriesFit,
     PlacesAgree, TaskAtWork, Working, Empty
<1>4. CASE BeginRun
  BY <1>4, EntriesStep, TaskFacts DEF BeginRun, OneEntryPerPath, Created,
     EntriesFit, PlacesAgree, TaskAtWork, Working, Empty
<1>5. CASE FinishPass
  BY <1>5, EntriesStep, TaskFacts DEF FinishPass, OneEntryPerPath, EntriesFit,
     PlacesAgree, TaskAtWork, Working, Empty
<1>6. CASE CheckTask
  BY <1>6, EntriesStep, TaskFacts DEF CheckTask, OneEntryPerPath, EntriesFit,
     PlacesAgree, TaskAtWork, Working, Empty
<1>7. CASE SizeTask
  BY <1>7, EntriesStep, TaskFacts DEF SizeTask, OneEntryPerPath, Continue, Fail,
     EntriesFit, PlacesAgree, TaskAtWork, Working, Empty
<1>8. CASE BeginFetch
  BY <1>8, EntriesStep, TaskFacts DEF BeginFetch, OneEntryPerPath, Fail, Touch,
     EntriesFit, PlacesAgree, TaskAtWork, Working, Empty
<1>9. CASE EndFetch
  BY <1>9, EntriesStep, TaskFacts DEF EndFetch, Delivered, OneEntryPerPath, Fail, Touch,
     EntriesFit, PlacesAgree, TaskAtWork, Working, Empty
<1>10. CASE Replace
  BY <1>10, EntriesStep, TaskFacts DEF Replace, OneEntryPerPath, Fail, Touch,
     EntriesFit, PlacesAgree, TaskAtWork, Working, Empty
<1>11. CASE Record
  <2>1. cacheFile' = cacheFile
    BY <1>11, RecordFacts
  <2>2. \A u \in Url : cache'[u] # None =>
              \/ cache'[u] = cache[u] /\ cache[u] # None /\ cache[u].path # PathOf[task]
              \/ u = UrlOf[task] /\ at' = "store" /\ cache'[u].path = PathOf[task]
    BY <1>11, RecordFacts
  <2>3. \A u, v \in Url : cache[u] # None /\ cache[v] # None /\ u # v => cache[v].path # cache[u].path
    BY DEF OneEntryPerPath
  <2>4. \A u \in Url : cache'[u] # None => cache'[u].sha.url = u /\ cache'[u].sha.held \in {"all", "most"}
    BY EntriesStep DEF EntriesFit
  <2>5. \A u, v \in Url : cache'[u] # None /\ cache'[v] # None /\ u # v => cache'[v].path # cache'[u].path
    BY <2>2, <2>3
  <2> QED
    BY <2>1, <2>4, <2>5 DEF OneEntryPerPath
<1>12. CASE OpenCacheFile
  BY <1>12, EntriesStep, TaskFacts DEF OpenCacheFile, EndStore, OneEntryPerPath, Truncate,
     EntriesFit, PlacesAgree, TaskAtWork, Working, Empty
<1>13. CASE WriteCacheFile
  BY <1>13, EntriesStep, TaskFacts DEF WriteCacheFile, EndStore, OneEntryPerPath, EntriesFit,
     PlacesAgree, TaskAtWork, Working, Empty
<1>14. CASE AfterTask
  BY <1>14, EntriesStep, TaskFacts DEF AfterTask, OneEntryPerPath, Continue,
     EntriesFit, PlacesAgree, TaskAtWork, Working, Empty
<1>15. CASE ClearEntry
  <2>1. \A u \in Url : cache'[u] # None => cache'[u] = cache[u] /\ cache[u] # None
    <3>1. cache' = cache \/ \E u \in {UrlOf[Next1]} : cache' = [cache EXCEPT ![u] = None]
      BY <1>15 DEF ClearEntry
    <3> QED
      BY <3>1 DEF CacheTypeOK, Table
  <2>2. cacheFile' = cacheFile
    BY <1>15 DEF ClearEntry
  <2> QED
    BY <2>1, <2>2 DEF OneEntryPerPath
<1>16. CASE StoreCleared
  BY <1>16, EntriesStep, TaskFacts DEF StoreCleared, OneEntryPerPath, EntriesFit,
     PlacesAgree, TaskAtWork, Working, Empty
<1>17. CASE Crash
  BY <1>17, EntriesStep, TaskFacts DEF Crash, OneEntryPerPath, EntriesFit,
     PlacesAgree, TaskAtWork, Working, Empty
<1>18. CASE Disturb
  BY <1>18, EntriesStep, TaskFacts DEF Disturb, OneEntryPerPath, Touch, EntriesFit,
     PlacesAgree, TaskAtWork, Working, Empty
<1>19. CASE TakeSpace
  BY <1>19, EntriesStep, TaskFacts DEF TakeSpace, OneEntryPerPath, EntriesFit,
     PlacesAgree, TaskAtWork, Working, Empty
<1>20. CASE UNCHANGED cacheVars
  BY <1>20 DEF OneEntryPerPath, EntriesFit, PlacesAgree, TaskAtWork, Working, Empty
<1> QED
  BY <1>1, <1>2, <1>3, <1>4, <1>5, <1>6, <1>7, <1>8, <1>9, <1>10, <1>11, <1>12, <1>13,
     <1>14, <1>15, <1>16, <1>17, <1>18, <1>19, <1>20 DEF CacheNext, Step

\* Every step preserves CacheIsStored,
LEMMA CacheIsStoredStep ==
  ASSUME PassInv, [CacheNext]_cacheVars
  PROVE  CacheIsStored'
<1> USE DEF PassInv, cacheVars, files, stored, world, session, plan, control, Quiet,
   EndPass, GoTo, Mishap, Construct
<1>1. CASE Start
  BY <1>1, TaskFacts DEF Start, CacheIsStored, PlacesAgree, TaskAtWork, Working, Empty
<1>2. CASE BeginSweep
  BY <1>2, TaskFacts DEF BeginSweep, CacheIsStored, PlacesAgree, TaskAtWork, Working,
     Empty
<1>3. CASE BeginClear
  BY <1>3, TaskFacts DEF BeginClear, CacheIsStored, PlacesAgree, TaskAtWork, Working,
     Empty
<1>4. CASE BeginRun
  BY <1>4, TaskFacts DEF BeginRun, CacheIsStored, Created, PlacesAgree, TaskAtWork,
     Working, Empty
<1>5. CASE FinishPass
  BY <1>5, TaskFacts DEF FinishPass, CacheIsStored, PlacesAgree, TaskAtWork, Working,
     Empty
<1>6. CASE CheckTask
  BY <1>6, TaskFacts DEF CheckTask, CacheIsStored, PlacesAgree, TaskAtWork, Working, Empty
<1>7. CASE SizeTask
  BY <1>7, TaskFacts DEF SizeTask, CacheIsStored, Continue, Fail, PlacesAgree,
     TaskAtWork, Working, Empty
<1>8. CASE BeginFetch
  BY <1>8, TaskFacts DEF BeginFetch, CacheIsStored, Fail, Touch, PlacesAgree, TaskAtWork,
     Working, Empty
<1>9. CASE EndFetch
  BY <1>9, TaskFacts DEF EndFetch, Delivered, CacheIsStored, Fail, Touch, PlacesAgree, TaskAtWork,
     Working, Empty
<1>10. CASE Replace
  BY <1>10, TaskFacts DEF Replace, CacheIsStored, Fail, Touch, PlacesAgree, TaskAtWork,
     Working, Empty
<1>11. CASE Record
  BY <1>11, TaskFacts DEF Record, CacheIsStored, Evict, PlacesAgree, TaskAtWork, Working,
     Empty
<1>12. CASE OpenCacheFile
  <2>1. at = "store" /\ pass \in {"run", "clear"} /\ (pass = "run" => task \in Task)
    BY <1>12 DEF OpenCacheFile, PlacesAgree, TaskAtWork, Working, CacheTypeOK
  <2>2. /\ cache' = cache /\ pass' \in {pass, "none"}
        /\ \/ ~readable'
           \/ /\ UNCHANGED <<cacheFile, readable>> /\ (pass = "clear" => pass' = "none")
              /\ pass = "run" => unsaved' = unsaved \cup {task}
    BY <1>12, <2>1 DEF OpenCacheFile, EndStore, Truncate
  <2> QED
    BY <2>1, <2>2 DEF CacheIsStored
<1>13. CASE WriteCacheFile
  BY <1>13, TaskFacts DEF WriteCacheFile, EndStore, CacheIsStored, PlacesAgree, TaskAtWork,
     Working, Empty
<1>14. CASE AfterTask
  BY <1>14, TaskFacts DEF AfterTask, CacheIsStored, Continue, PlacesAgree, TaskAtWork,
     Working, Empty
<1>15. CASE ClearEntry
  BY <1>15, TaskFacts DEF ClearEntry, CacheIsStored, Touch, PlacesAgree, TaskAtWork,
     Working, Empty
<1>16. CASE StoreCleared
  BY <1>16, TaskFacts DEF StoreCleared, CacheIsStored, PlacesAgree, TaskAtWork, Working,
     Empty
<1>17. CASE Crash
  BY <1>17, TaskFacts DEF Crash, CacheIsStored, PlacesAgree, TaskAtWork, Working, Empty
<1>18. CASE Disturb
  BY <1>18, TaskFacts DEF Disturb, CacheIsStored, Touch, PlacesAgree, TaskAtWork,
     Working, Empty
<1>19. CASE TakeSpace
  BY <1>19, TaskFacts DEF TakeSpace, CacheIsStored, PlacesAgree, TaskAtWork, Working,
     Empty
<1>20. CASE UNCHANGED cacheVars
  BY <1>20 DEF CacheIsStored, PlacesAgree, TaskAtWork, Working, Empty
<1> QED
  BY <1>1, <1>2, <1>3, <1>4, <1>5, <1>6, <1>7, <1>8, <1>9, <1>10, <1>11, <1>12, <1>13,
     <1>14, <1>15, <1>16, <1>17, <1>18, <1>19, <1>20 DEF CacheNext, Step

\* Errors are only ever counted up.
LEMMA FaultsGrow ==
  ASSUME CacheTypeOK, [CacheNext]_cacheVars
  PROVE  faults' = 0 => faults = 0
<1>1. faults' \in {faults, faults + 1}
  BY DEF CacheNext, Step, Start, BeginSweep, BeginClear, BeginRun, FinishPass, CheckTask, SizeTask,
     BeginFetch, EndFetch, Replace, Record, OpenCacheFile, WriteCacheFile, AfterTask, ClearEntry,
     StoreCleared, Crash, Disturb, TakeSpace, Construct, Mishap, Quiet, world, cacheVars
<1> QED
  BY <1>1 DEF CacheTypeOK

\* VerdictsHold: a file that is touched loses its verdict,
LEMMA VerdictsStep ==
  ASSUME PassInv, [CacheNext]_cacheVars
  PROVE  VerdictsHold'
<1> USE DEF PassInv, cacheVars, files, stored, world, session, plan, control, Quiet,
   EndPass, GoTo, Mishap, Construct
<1>0. faults' = 0 => faults = 0
  BY FaultsGrow
<1>1. CASE Start
  BY <1>0, <1>1, TaskFacts DEF Start, VerdictsHold, PlacesAgree, TaskAtWork, Working, Single,
     Has, WholeFile, ShortFile, Obtained
<1>2. CASE BeginSweep
  BY <1>0, <1>2, TaskFacts DEF BeginSweep, VerdictsHold, PlacesAgree, TaskAtWork, Working,
     Single, Has, WholeFile, ShortFile, Obtained
<1>3. CASE BeginClear
  BY <1>0, <1>3, TaskFacts DEF BeginClear, VerdictsHold, PlacesAgree, TaskAtWork, Working,
     Single, Has, WholeFile, ShortFile, Obtained
<1>4. CASE BeginRun
  <2>1. pass = "sizing" /\ at = "check" /\ UNCHANGED <<cacheFile, readable, version, verdict, disk>>
    BY <1>4 DEF BeginRun
  <2>2. CASE UNCHANGED cache /\ pass' \in {pass, "none"}
    BY <2>1, <2>2, <1>0, VerdictsStay
  <2>3. CASE pass' = "run" /\ ((readable /\ cache' = cacheFile) \/ faults' # 0)
    <3> SUFFICES ASSUME NEW t \in Task, verdict[t] = "valid"
                 PROVE  /\ disk[PathOf[t]] \in Obtained(t)
                        /\ faults' = 0 /\ Single(t) => Has(cache, t)'
      BY <2>1, <2>3 DEF VerdictsHold, Single, WholeFile, ShortFile, Obtained
    <3>1. disk[PathOf[t]] \in Obtained(t) /\ (faults = 0 /\ Single(t) => Has(cache, t))
      BY <2>1 DEF VerdictsHold
    <3>2. Has(cache, t) /\ readable /\ faults = 0 /\ Single(t) => Has(cacheFile, t)
      BY <2>1, StoredHas, NothingUnsaved
    <3>3. Has(cacheFile, t) /\ cache' = cacheFile => Has(cache, t)'
      BY <2>1, <2>3 DEF Has
    <3> QED
      BY <1>0, <2>3, <3>1, <3>2, <3>3
  <2> QED
    BY <1>4, <2>2, <2>3 DEF BeginRun, CacheTypeOK
<1>5. CASE FinishPass
  <2>1. pass \in {"collect", "sizing", "run"} /\ at # "store" /\ pass' \in {pass, "none"}
    BY <1>5 DEF FinishPass, PlacesAgree, Working, CacheTypeOK
  <2>2. UNCHANGED <<cache, cacheFile, readable, version, verdict, disk>>
    BY <1>5 DEF FinishPass
  <2> QED
    BY <2>1, <2>2, <1>0, VerdictsStay
<1>6. CASE CheckTask
  <2>1. pass \in {"collect", "sizing", "run"} /\ at = "next" /\ queue # {} /\ Next1 \in Task
    <3>1. pass \in {"collect", "sizing", "run"} /\ at = "next" /\ queue # {}
      BY <1>6 DEF CheckTask, PlacesAgree, CacheTypeOK
    <3> QED
      BY <3>1, NextInQueue DEF CacheTypeOK
  <2>2. UNCHANGED <<cache, cacheFile, readable, version, disk, pass>>
    BY <1>6 DEF CheckTask
  <2>3. verdict' = verdict \/ (disk[PathOf[Next1]] # None /\ verdict' = [verdict EXCEPT ![Next1] = Validate(Next1)])
    BY <1>6 DEF CheckTask
  <2> SUFFICES ASSUME NEW t \in Task, verdict'[t] = "valid"
               PROVE  /\ disk[PathOf[t]] \in Obtained(t)
                      /\ faults' = 0 /\ Single(t) => Has(cache, t)'
    BY <2>1, <2>2 DEF VerdictsHold, Single, WholeFile, ShortFile, Obtained
  <2>4. verdict[t] = "valid" \/ (t = Next1 /\ disk[PathOf[t]] # None /\ Validate(t) = "valid")
    BY <2>1, <2>3 DEF CacheTypeOK
  <2>5. disk[PathOf[t]] \in Obtained(t) /\ (faults = 0 /\ Single(t) => Has(cache, t))
    BY <2>1, <2>4, ValidFile DEF VerdictsHold
  <2> QED
    BY <1>0, <2>2, <2>5 DEF Has
<1>7. CASE SizeTask
  <2>1. pass \in {"collect", "sizing", "run"} /\ at # "store" /\ pass' \in {pass, "none"}
    BY <1>7 DEF SizeTask, Continue, Fail, PlacesAgree, Working, CacheTypeOK
  <2>2. UNCHANGED <<cache, cacheFile, readable, version, verdict, disk>>
    BY <1>7 DEF SizeTask, Continue, Fail
  <2> QED
    BY <2>1, <2>2, <1>0, VerdictsStay
<1>8. CASE BeginFetch
  <2>1. pass = "run" /\ at # "store" /\ pass' \in {pass, "none"} /\ task \in Task
    BY <1>8 DEF BeginFetch, Fail, TaskAtWork, PlacesAgree, Working, CacheTypeOK
  <2>0. /\ Delivered \subseteq FileContent /\ Damaged(WholeFile(task)) \in FileContent
        /\ WholeFile(task) \in FileContent /\ ShortFile(task) \in FileContent
    <3>1. UrlOf[task] \in Url
      BY <2>1, TaskFacts
    <3> QED
      BY <3>1 DEF Delivered, Obtained, Damaged, WholeFile, ShortFile, FileContent
  <2>2. UNCHANGED <<cache, cacheFile, readable, version>>
    BY <1>8 DEF BeginFetch
  <2>3. \/ UNCHANGED <<disk, verdict>>
        \/ \E c \in FileContent :
             disk' = [disk EXCEPT ![PathOf[task]] = c] /\ Touch(PathOf[task])
    BY <1>8, <2>0 DEF BeginFetch
  <2>4. \A t \in Task : verdict'[t] = "valid" =>
           verdict[t] = "valid" /\ disk'[PathOf[t]] = disk[PathOf[t]]
    <3>1. ASSUME NEW t \in Task, verdict'[t] = "valid"
          PROVE  verdict[t] = "valid" /\ disk'[PathOf[t]] = disk[PathOf[t]]
      <4>1. PathOf[t] \in Path
        BY TaskFacts
      <4>2. \/ verdict[t] = "valid" /\ disk' = disk
            \/ /\ verdict[t] = "valid" /\ PathOf[t] # PathOf[task]
               /\ \E c \in FileContent :
                    disk' = [disk EXCEPT ![PathOf[task]] = c]
        BY <2>3, <3>1 DEF Touch
      <4> QED
        BY <4>1, <4>2 DEF CacheTypeOK
    <3> QED
      BY <3>1
  <2> QED
    BY <2>1, <2>2, <2>4, <1>0, VerdictsStay
<1>9. CASE EndFetch
  <2>1. pass = "run" /\ at # "store" /\ pass' \in {pass, "none"} /\ task \in Task
    BY <1>9 DEF EndFetch, Fail, TaskAtWork, PlacesAgree, Working, CacheTypeOK
  <2>0. /\ Delivered \subseteq FileContent /\ Damaged(WholeFile(task)) \in FileContent
        /\ WholeFile(task) \in FileContent /\ ShortFile(task) \in FileContent
    <3>1. UrlOf[task] \in Url
      BY <2>1, TaskFacts
    <3> QED
      BY <3>1 DEF Delivered, Obtained, Damaged, WholeFile, ShortFile, FileContent
  <2>2. UNCHANGED <<cache, cacheFile, readable, version>>
    BY <1>9 DEF EndFetch
  <2>3. \/ UNCHANGED <<disk, verdict>>
        \/ \E c \in FileContent :
             disk' = [disk EXCEPT ![PathOf[task]] = c] /\ Touch(PathOf[task])
    BY <1>9, <2>0 DEF EndFetch
  <2>4. \A t \in Task : verdict'[t] = "valid" =>
           verdict[t] = "valid" /\ disk'[PathOf[t]] = disk[PathOf[t]]
    <3>1. ASSUME NEW t \in Task, verdict'[t] = "valid"
          PROVE  verdict[t] = "valid" /\ disk'[PathOf[t]] = disk[PathOf[t]]
      <4>1. PathOf[t] \in Path
        BY TaskFacts
      <4>2. \/ verdict[t] = "valid" /\ disk' = disk
            \/ /\ verdict[t] = "valid" /\ PathOf[t] # PathOf[task]
               /\ \E c \in FileContent :
                    disk' = [disk EXCEPT ![PathOf[task]] = c]
        BY <2>3, <3>1 DEF Touch
      <4> QED
        BY <4>1, <4>2 DEF CacheTypeOK
    <3> QED
      BY <3>1
  <2> QED
    BY <2>1, <2>2, <2>4, <1>0, VerdictsStay
<1>10. CASE Replace
  <2>1. pass = "run" /\ at # "store" /\ pass' \in {pass, "none"} /\ task \in Task
    BY <1>10 DEF Replace, Fail, TaskAtWork, PlacesAgree, Working, CacheTypeOK
  <2>0. /\ Delivered \subseteq FileContent /\ Damaged(WholeFile(task)) \in FileContent
        /\ WholeFile(task) \in FileContent /\ ShortFile(task) \in FileContent
    <3>1. UrlOf[task] \in Url
      BY <2>1, TaskFacts
    <3> QED
      BY <3>1 DEF Delivered, Obtained, Damaged, WholeFile, ShortFile, FileContent
  <2>2. UNCHANGED <<cache, cacheFile, readable, version>>
    BY <1>10 DEF Replace
  <2>3. \/ UNCHANGED <<disk, verdict>>
        \/ \E c \in FileContent :
             disk' = [disk EXCEPT ![PathOf[task]] = c] /\ Touch(PathOf[task])
    BY <1>10, <2>0 DEF Replace
  <2>4. \A t \in Task : verdict'[t] = "valid" =>
           verdict[t] = "valid" /\ disk'[PathOf[t]] = disk[PathOf[t]]
    <3>1. ASSUME NEW t \in Task, verdict'[t] = "valid"
          PROVE  verdict[t] = "valid" /\ disk'[PathOf[t]] = disk[PathOf[t]]
      <4>1. PathOf[t] \in Path
        BY TaskFacts
      <4>2. \/ verdict[t] = "valid" /\ disk' = disk
            \/ /\ verdict[t] = "valid" /\ PathOf[t] # PathOf[task]
               /\ \E c \in FileContent :
                    disk' = [disk EXCEPT ![PathOf[task]] = c]
        BY <2>3, <3>1 DEF Touch
      <4> QED
        BY <4>1, <4>2 DEF CacheTypeOK
    <3> QED
      BY <3>1
  <2> QED
    BY <2>1, <2>2, <2>4, <1>0, VerdictsStay
<1>11. CASE Record
  <2>1. pass = "run" /\ UNCHANGED <<disk, version, verdict, pass>>
    BY <1>11, RecordFacts
  <2> SUFFICES ASSUME NEW t \in Task, verdict[t] = "valid"
               PROVE  /\ disk[PathOf[t]] \in Obtained(t)
                      /\ faults' = 0 /\ Single(t) => Has(cache, t)'
    BY <2>1 DEF VerdictsHold, Single, WholeFile, ShortFile, Obtained
  <2>2. disk[PathOf[t]] \in Obtained(t) /\ (faults = 0 /\ Single(t) => Has(cache, t))
    BY <2>1 DEF VerdictsHold
  <2>3. PathOf[t] # PathOf[task]
    BY <1>11 DEF Record, TaskAtWork
  <2> QED
    BY <1>0, <1>11, <2>1, <2>2, <2>3, RecordHas DEF WholeFile, ShortFile, Obtained
<1>12. CASE OpenCacheFile
  BY <1>0, <1>12, TaskFacts DEF OpenCacheFile, EndStore, VerdictsHold, Truncate, PlacesAgree, TaskAtWork,
     Working, Single, Has, WholeFile, ShortFile, Obtained
<1>13. CASE WriteCacheFile
  BY <1>0, <1>13, TaskFacts DEF WriteCacheFile, EndStore, VerdictsHold, PlacesAgree, TaskAtWork, Working,
     Single, Has, WholeFile, ShortFile, Obtained
<1>14. CASE AfterTask
  <2>1. pass \in {"collect", "sizing", "run"} /\ at # "store" /\ pass' \in {pass, "none"}
    BY <1>14 DEF AfterTask, Continue, PlacesAgree, Working, CacheTypeOK
  <2>2. UNCHANGED <<cache, cacheFile, readable, version, verdict, disk>>
    BY <1>14 DEF AfterTask, Continue
  <2> QED
    BY <2>1, <2>2, <1>0, VerdictsStay
<1>15. CASE ClearEntry
  <2>1. pass = "clear" /\ UNCHANGED <<version, pass>> /\ queue # {} /\ Next1 \in Task
    <3>1. pass = "clear" /\ UNCHANGED <<version, pass>> /\ queue # {}
      BY <1>15 DEF ClearEntry
    <3> QED
      BY <3>1, NextInQueue DEF CacheTypeOK
  <2> DEFINE u == UrlOf[Next1]
             p == cache[u].path
  <2> SUFFICES ASSUME NEW t \in Task, verdict'[t] = "valid"
               PROVE  /\ disk'[PathOf[t]] \in Obtained(t)
                      /\ faults' = 0 /\ Single(t) => Has(cache, t)'
    BY <2>1 DEF VerdictsHold, Single, WholeFile, ShortFile, Obtained
  <2>2. CASE disk' = [disk EXCEPT ![p] = None] /\ Touch(p) /\ cache' = [cache EXCEPT ![u] = None]
    <3>1. PathOf[t] # p /\ verdict[t] = "valid"
      BY <2>2 DEF Touch
    <3>2. disk[PathOf[t]] \in Obtained(t) /\ (faults = 0 /\ Single(t) => Has(cache, t))
      BY <2>1, <3>1 DEF VerdictsHold
    <3>3. disk'[PathOf[t]] = disk[PathOf[t]]
      BY <2>2, <3>1, TaskFacts DEF CacheTypeOK
    <3>4. faults = 0 /\ Single(t) => UrlOf[t] # u
      BY <3>1, <3>2, EntryPath DEF Has
    <3>5. UrlOf[t] # u => cache'[UrlOf[t]] = cache[UrlOf[t]]
      BY <2>2, TaskFacts DEF CacheTypeOK, Table
    <3> QED
      BY <1>0, <2>1, <3>2, <3>3, <3>4, <3>5 DEF Has
  <2>3. CASE UNCHANGED <<disk, verdict, cache>>
    BY <1>0, <2>1, <2>3 DEF VerdictsHold, Has
  <2> QED
    BY <1>15, <2>2, <2>3 DEF ClearEntry
<1>16. CASE StoreCleared
  BY <1>0, <1>16, TaskFacts DEF StoreCleared, VerdictsHold, PlacesAgree, TaskAtWork, Working,
     Single, Has, WholeFile, ShortFile, Obtained
<1>17. CASE Crash
  BY <1>17, TaskFacts DEF Crash, VerdictsHold, PlacesAgree, TaskAtWork, Working, Single,
     Has, WholeFile, ShortFile, Obtained
<1>18. CASE Disturb
  BY <1>0, <1>18, TaskFacts DEF Disturb, VerdictsHold, Touch, PlacesAgree, TaskAtWork, Working,
     Single, Has, WholeFile, ShortFile, Obtained
<1>19. CASE TakeSpace
  BY <1>0, <1>19, TaskFacts DEF TakeSpace, VerdictsHold, PlacesAgree, TaskAtWork, Working,
     Single, Has, WholeFile, ShortFile, Obtained
<1>20. CASE UNCHANGED cacheVars
  BY <1>20 DEF VerdictsHold, PlacesAgree, TaskAtWork, Working, Single, Has, WholeFile, ShortFile, Obtained
<1> QED
  BY <1>1, <1>2, <1>3, <1>4, <1>5, <1>6, <1>7, <1>8, <1>9, <1>10, <1>11, <1>12, <1>13,
     <1>14, <1>15, <1>16, <1>17, <1>18, <1>19, <1>20 DEF CacheNext, Step

\* PromisesHold,
LEMMA PromisesStep ==
  ASSUME PassInv, [CacheNext]_cacheVars
  PROVE  PromisesHold'
<1> USE DEF PassInv, cacheVars, files, stored, world, session, plan, control, Quiet,
   EndPass, GoTo, Mishap, Construct
<1>1. CASE Start
  BY <1>1, TaskFacts DEF Start, PromisesHold, PlacesAgree, TaskAtWork, Working, Single,
     Has, WholeFile, ShortFile, Obtained
<1>2. CASE BeginSweep
  BY <1>2, TaskFacts DEF BeginSweep, PromisesHold, PlacesAgree, TaskAtWork, Working,
     Single, Has, WholeFile, ShortFile, Obtained
<1>3. CASE BeginClear
  BY <1>3, TaskFacts DEF BeginClear, PromisesHold, PlacesAgree, TaskAtWork, Working,
     Single, Has, WholeFile, ShortFile, Obtained
<1>4. CASE BeginRun
  BY <1>4, TaskFacts DEF BeginRun, PromisesHold, Created, PlacesAgree, TaskAtWork,
     Working, Single, Has, WholeFile, ShortFile, Obtained
<1>5. CASE FinishPass
  <2>1. pass \in {"collect", "sizing", "run"} /\ at = "next" /\ UNCHANGED <<cache, cacheFile, readable, version, disk>>
        /\ ((pass' = pass /\ blind' = blind) \/ pass' = "none")
    BY <1>5 DEF FinishPass, PlacesAgree, CacheTypeOK
  <2>2. CASE promised' = promised
    <3>1. \A t \in promised' : t \in promised /\ disk'[PathOf[t]] = disk[PathOf[t]]
      BY <2>1, <2>2
    <3> QED
      BY <2>1, <3>1, PromisesStay
  <2>3. CASE pass = "run" /\ pass' = "none" /\ promised' = promised \cup {t \in claimed \ unsaved : Alone(t) /\ Single(t)}
    <3>1. ASSUME NEW t \in promised
          PROVE  disk[PathOf[t]] \in Obtained(t) /\ Single(t) /\ (readable => Has(cacheFile, t))
      BY DEF PromisesHold
    <3>2. ASSUME NEW t \in claimed \ unsaved, Alone(t), Single(t)
          PROVE  disk[PathOf[t]] \in Obtained(t) /\ Single(t) /\ (readable => Has(cacheFile, t))
      <4>1. t \in Task
        BY DEF CacheTypeOK
      <4>2. disk[PathOf[t]] \in Obtained(t) /\ Has(cache, t)
        BY <2>3, <3>2 DEF ClaimsFit, ClaimedIsDelivered, ClaimsAreRecorded
      <4>3. \A s \in unsaved : UrlOf[s] # UrlOf[t]
        BY <2>3, <3>2 DEF Alone, TaskAtWork
      <4> QED
        BY <2>1, <2>3, <3>2, <4>1, <4>2, <4>3, StoredHas
    <3> QED
      BY <2>1, <2>3, <3>1, <3>2 DEF PromisesHold, Single, Has, WholeFile, ShortFile, Obtained
  <2> QED
    BY <1>5, <2>2, <2>3 DEF FinishPass
<1>6. CASE CheckTask
  BY <1>6, TaskFacts DEF CheckTask, PromisesHold, PlacesAgree, TaskAtWork, Working,
     Single, Has, WholeFile, ShortFile, Obtained
<1>7. CASE SizeTask
  BY <1>7, TaskFacts DEF SizeTask, PromisesHold, Continue, Fail, PlacesAgree, TaskAtWork,
     Working, Single, Has, WholeFile, ShortFile, Obtained
<1>8. CASE BeginFetch
  <2>1. /\ pass = "run" /\ task \in Task /\ PathOf[task] \in Path
        /\ (pass' = pass /\ blind' = blind) \/ pass' = "none"
    BY <1>8, TaskFacts DEF BeginFetch, Fail, TaskAtWork, PlacesAgree, Working, CacheTypeOK
  <2>2. UNCHANGED <<cache, cacheFile, readable, version>>
    BY <1>8 DEF BeginFetch
  <2>3. promised' \subseteq promised
    BY <1>8 DEF BeginFetch
  <2>4. ASSUME NEW t \in promised'
        PROVE  disk'[PathOf[t]] = disk[PathOf[t]]
    <3>1. PathOf[t] \in Path
      BY <2>3, TaskFacts DEF CacheTypeOK
    <3>2. \/ disk' = disk
          \/ \E c : /\ disk' = [disk EXCEPT ![PathOf[task]] = c]
                    /\ PathOf[t] # PathOf[task]
      BY <1>8, <2>3 DEF BeginFetch, TaskAtWork
    <3> QED
      BY <2>1, <3>1, <3>2 DEF CacheTypeOK
  <2> QED
    BY <2>1, <2>2, <2>3, <2>4, PromisesStay
<1>9. CASE EndFetch
  <2>1. /\ pass = "run" /\ task \in Task /\ PathOf[task] \in Path
        /\ (pass' = pass /\ blind' = blind) \/ pass' = "none"
    BY <1>9, TaskFacts DEF EndFetch, Fail, TaskAtWork, PlacesAgree, Working, CacheTypeOK
  <2>2. UNCHANGED <<cache, cacheFile, readable, version>>
    BY <1>9 DEF EndFetch
  <2>3. promised' \subseteq promised
    BY <1>9 DEF EndFetch
  <2>4. ASSUME NEW t \in promised'
        PROVE  disk'[PathOf[t]] = disk[PathOf[t]]
    <3>1. PathOf[t] \in Path
      BY <2>3, TaskFacts DEF CacheTypeOK
    <3>2. \/ disk' = disk
          \/ \E c : /\ disk' = [disk EXCEPT ![PathOf[task]] = c]
                    /\ PathOf[t] # PathOf[task]
      BY <1>9, <2>3 DEF EndFetch, TaskAtWork
    <3> QED
      BY <2>1, <3>1, <3>2 DEF CacheTypeOK
  <2> QED
    BY <2>1, <2>2, <2>3, <2>4, PromisesStay
<1>10. CASE Replace
  <2>1. /\ pass = "run" /\ task \in Task /\ PathOf[task] \in Path
        /\ (pass' = pass /\ blind' = blind) \/ pass' = "none"
    BY <1>10, TaskFacts DEF Replace, Fail, TaskAtWork, PlacesAgree, Working, CacheTypeOK
  <2>2. UNCHANGED <<cache, cacheFile, readable, version>>
    BY <1>10 DEF Replace
  <2>3. promised' \subseteq promised
    BY <1>10 DEF Replace
  <2>4. ASSUME NEW t \in promised'
        PROVE  disk'[PathOf[t]] = disk[PathOf[t]]
    <3>1. PathOf[t] \in Path
      BY <2>3, TaskFacts DEF CacheTypeOK
    <3>2. \/ disk' = disk
          \/ \E c : /\ disk' = [disk EXCEPT ![PathOf[task]] = c]
                    /\ PathOf[t] = PathOf[task] => disk[PathOf[task]] = c
      BY <1>10, <2>3 DEF Replace, TaskAtWork
    <3> QED
      BY <2>1, <3>1, <3>2 DEF CacheTypeOK
  <2> QED
    BY <2>1, <2>2, <2>3, <2>4, PromisesStay
<1>11. CASE Record
  <2>1. /\ pass = "run" /\ UNCHANGED <<disk, version, cacheFile, readable, pass>> /\ task \in Task
        /\ disk[PathOf[task]] \in Obtained(task) /\ blind' = blind
    BY <1>11, RecordFacts
  <2>2. /\ at' \in {"store", "done"} /\ promised' \subseteq promised
        /\ at' = "done" => promised' = {t \in promised : PathOf[t] # PathOf[task]}
    BY <1>11, RecordFacts
  <2>3. ASSUME NEW t \in promised'
        PROVE  /\ disk[PathOf[t]] \in Obtained(t) /\ Single(t)
               /\ readable => Has(cacheFile, t)
               /\ ~blind => Has(cache, t)'
    <3>1. t \in promised /\ t \in Task
      BY <2>2 DEF CacheTypeOK
    <3>2. /\ disk[PathOf[t]] \in Obtained(t) /\ Single(t)
          /\ readable => Has(cacheFile, t)
          /\ ~blind => Has(cache, t)
      BY <2>1, <3>1 DEF PromisesHold
    <3>3. PathOf[t] = PathOf[task] => UrlOf[t] = UrlOf[task] /\ at' = "store"
      BY <1>11, <2>2, <3>1 DEF Record, TaskAtWork
    <3> QED
      BY <1>11, <3>1, <3>2, <3>3, RecordHas
  <2> QED
    BY <2>1, <2>3 DEF PromisesHold, Has, WholeFile, ShortFile, Obtained, Single
<1>12. CASE OpenCacheFile
  BY <1>12, TaskFacts DEF OpenCacheFile, EndStore, PromisesHold, Truncate, PlacesAgree, TaskAtWork,
     Working, Single, Has, WholeFile, ShortFile, Obtained
<1>13. CASE WriteCacheFile
  BY <1>13, TaskFacts DEF WriteCacheFile, EndStore, PromisesHold, PlacesAgree, TaskAtWork, Working,
     Single, Has, WholeFile, ShortFile, Obtained
<1>14. CASE AfterTask
  BY <1>14, TaskFacts DEF AfterTask, PromisesHold, Continue, PlacesAgree, TaskAtWork,
     Working, Single, Has, WholeFile, ShortFile, Obtained
<1>15. CASE ClearEntry
  BY <1>15, TaskFacts DEF ClearEntry, PromisesHold, Touch, PlacesAgree, TaskAtWork,
     Working, Single, Has, WholeFile, ShortFile, Obtained
<1>16. CASE StoreCleared
  BY <1>16, TaskFacts DEF StoreCleared, PromisesHold, PlacesAgree, TaskAtWork, Working,
     Single, Has, WholeFile, ShortFile, Obtained
<1>17. CASE Crash
  BY <1>17, TaskFacts DEF Crash, PromisesHold, PlacesAgree, TaskAtWork, Working, Single,
     Has, WholeFile, ShortFile, Obtained
<1>18. CASE Disturb
  BY <1>18, TaskFacts DEF Disturb, PromisesHold, Touch, PlacesAgree, TaskAtWork, Working,
     Single, Has, WholeFile, ShortFile, Obtained
<1>19. CASE TakeSpace
  BY <1>19, TaskFacts DEF TakeSpace, PromisesHold, PlacesAgree, TaskAtWork, Working,
     Single, Has, WholeFile, ShortFile, Obtained
<1>20. CASE UNCHANGED cacheVars
  BY <1>20 DEF PromisesHold, PlacesAgree, TaskAtWork, Working, Single, Has, WholeFile, ShortFile, Obtained
<1> QED
  BY <1>1, <1>2, <1>3, <1>4, <1>5, <1>6, <1>7, <1>8, <1>9, <1>10, <1>11, <1>12, <1>13,
     <1>14, <1>15, <1>16, <1>17, <1>18, <1>19, <1>20 DEF CacheNext, Step

\* ClaimsFit,
LEMMA ClaimsStep ==
  ASSUME PassInv, [CacheNext]_cacheVars
  PROVE  ClaimsFit'
<1> USE DEF PassInv, cacheVars, files, stored, world, session, plan, control, Quiet,
   EndPass, GoTo, Mishap, Construct
<1>1. CASE Start
  BY <1>1, TaskFacts, NextInQueue DEF Start, ClaimsFit, ClaimedIsDelivered, PlacesAgree,
     TaskAtWork, Working, Getting, Alone, WholeFile, ShortFile, Obtained
<1>2. CASE BeginSweep
  BY <1>2, TaskFacts, NextInQueue DEF BeginSweep, ClaimsFit, ClaimedIsDelivered, PlacesAgree,
     TaskAtWork, Working, Getting, Alone, WholeFile, ShortFile, Obtained
<1>3. CASE BeginClear
  BY <1>3, TaskFacts, NextInQueue DEF BeginClear, ClaimsFit, ClaimedIsDelivered, PlacesAgree,
     TaskAtWork, Working, Getting, Alone, WholeFile, ShortFile, Obtained
<1>4. CASE BeginRun
  BY <1>4, TaskFacts, NextInQueue DEF BeginRun, ClaimsFit, Created, ClaimedIsDelivered,
     PlacesAgree, TaskAtWork, Working, Getting, Alone, WholeFile, ShortFile, Obtained
<1>5. CASE FinishPass
  BY <1>5, TaskFacts, NextInQueue DEF FinishPass, ClaimsFit, ClaimedIsDelivered, PlacesAgree,
     TaskAtWork, Working, Getting, Alone, WholeFile, ShortFile, Obtained
<1>6. CASE CheckTask
  <2>1. pass \in {"collect", "sizing", "run"} /\ at = "next" /\ queue # {}
    BY <1>6 DEF CheckTask, PlacesAgree, CacheTypeOK
  <2>2. Next1 \in queue /\ Next1 \in Task /\ queue \subseteq scenario
    BY <2>1, NextInQueue DEF CacheTypeOK, TaskAtWork
  <2>3. queue' = queue \ {Next1} /\ UNCHANGED <<disk, pass, scenario>>
    BY <1>6 DEF CheckTask
  <2>4. \/ /\ disk[PathOf[Next1]] # None /\ Validate(Next1) = "valid"
           /\ claimed' = claimed \cup {Next1} /\ at' = "next"
        \/ claimed' = claimed /\ (pass = "run" => at' = "fetch" /\ task' = Next1)
    BY <1>6, <2>1 DEF CheckTask
  <2>5. Validate(Next1) = "valid" /\ disk[PathOf[Next1]] # None => disk[PathOf[Next1]] \in Obtained(Next1)
    BY <2>1, <2>2, ValidFile
  <2>6. pass = "run" => claimed' \subseteq scenario \ queue' /\ (at' \in Getting => task' \notin claimed')
    BY <2>2, <2>3, <2>4 DEF ClaimsFit, Getting
  <2>7. pass = "run" => \A t \in claimed' : Alone(t) => disk[PathOf[t]] \in Obtained(t)
    BY <2>4, <2>5 DEF ClaimsFit, ClaimedIsDelivered
  <2> QED
    BY <2>3, <2>6, <2>7 DEF ClaimsFit, ClaimedIsDelivered, Alone, WholeFile, ShortFile, Obtained
<1>7. CASE SizeTask
  BY <1>7, TaskFacts, NextInQueue DEF SizeTask, ClaimsFit, Continue, Fail,
     ClaimedIsDelivered, PlacesAgree, TaskAtWork, Working, Getting, Alone, WholeFile, ShortFile, Obtained
<1>8. CASE BeginFetch
  <2>1. /\ pass = "run" /\ pass' \in {pass, "none"} /\ task \in Task /\ PathOf[task] \in Path
        /\ at \in Getting /\ task \in scenario /\ task \notin claimed
    BY <1>8, TaskFacts DEF BeginFetch, Fail, TaskAtWork, PlacesAgree, Working, Getting,
       CacheTypeOK, ClaimsFit
  <2>2. UNCHANGED <<claimed, scenario>> /\ (pass' = "run" => task' = task /\ queue' = queue)
    BY <1>8 DEF BeginFetch, Fail
  <2>3. \/ disk' = disk
        \/ \E c : disk' = [disk EXCEPT ![PathOf[task]] = c]
    BY <1>8 DEF BeginFetch
  <2>4. ASSUME NEW t \in claimed, Alone(t)
        PROVE  disk'[PathOf[t]] \in Obtained(t)
    <3>1. PathOf[task] # PathOf[t] /\ disk[PathOf[t]] \in Obtained(t)
      BY <2>1, <2>4 DEF Alone, ClaimsFit, ClaimedIsDelivered
    <3>2. t \in Task /\ PathOf[t] \in Path
      BY TaskFacts DEF CacheTypeOK
    <3> QED
      BY <2>3, <3>1, <3>2 DEF CacheTypeOK
  <2> QED
    BY <2>1, <2>2, <2>4 DEF ClaimsFit, ClaimedIsDelivered, Alone, WholeFile, ShortFile, Obtained
<1>9. CASE EndFetch
  <2>1. /\ pass = "run" /\ pass' \in {pass, "none"} /\ task \in Task /\ PathOf[task] \in Path
        /\ at \in Getting /\ task \in scenario /\ task \notin claimed
    BY <1>9, TaskFacts DEF EndFetch, Delivered, Fail, TaskAtWork, PlacesAgree, Working, Getting,
       CacheTypeOK, ClaimsFit
  <2>2. UNCHANGED <<claimed, scenario>> /\ (pass' = "run" => task' = task /\ queue' = queue)
    BY <1>9 DEF EndFetch, Delivered, Fail
  <2>3. \/ disk' = disk
        \/ \E c : disk' = [disk EXCEPT ![PathOf[task]] = c]
    BY <1>9 DEF EndFetch, Delivered
  <2>4. ASSUME NEW t \in claimed, Alone(t)
        PROVE  disk'[PathOf[t]] \in Obtained(t)
    <3>1. PathOf[task] # PathOf[t] /\ disk[PathOf[t]] \in Obtained(t)
      BY <2>1, <2>4 DEF Alone, ClaimsFit, ClaimedIsDelivered
    <3>2. t \in Task /\ PathOf[t] \in Path
      BY TaskFacts DEF CacheTypeOK
    <3> QED
      BY <2>3, <3>1, <3>2 DEF CacheTypeOK
  <2> QED
    BY <2>1, <2>2, <2>4 DEF ClaimsFit, ClaimedIsDelivered, Alone, WholeFile, ShortFile, Obtained
<1>10. CASE Replace
  <2>1. /\ pass = "run" /\ pass' \in {pass, "none"} /\ task \in Task /\ PathOf[task] \in Path
        /\ at \in Getting /\ task \in scenario /\ task \notin claimed
    BY <1>10, TaskFacts DEF Replace, Fail, TaskAtWork, PlacesAgree, Working, Getting,
       CacheTypeOK, ClaimsFit
  <2>2. UNCHANGED <<claimed, scenario>> /\ (pass' = "run" => task' = task /\ queue' = queue)
    BY <1>10 DEF Replace, Fail
  <2>3. \/ disk' = disk
        \/ \E c : disk' = [disk EXCEPT ![PathOf[task]] = c]
    BY <1>10 DEF Replace
  <2>4. ASSUME NEW t \in claimed, Alone(t)
        PROVE  disk'[PathOf[t]] \in Obtained(t)
    <3>1. PathOf[task] # PathOf[t] /\ disk[PathOf[t]] \in Obtained(t)
      BY <2>1, <2>4 DEF Alone, ClaimsFit, ClaimedIsDelivered
    <3>2. t \in Task /\ PathOf[t] \in Path
      BY TaskFacts DEF CacheTypeOK
    <3> QED
      BY <2>3, <3>1, <3>2 DEF CacheTypeOK
  <2> QED
    BY <2>1, <2>2, <2>4 DEF ClaimsFit, ClaimedIsDelivered, Alone, WholeFile, ShortFile, Obtained
<1>11. CASE Record
  BY <1>11, TaskFacts, NextInQueue DEF Record, ClaimsFit, Evict, ClaimedIsDelivered,
     PlacesAgree, TaskAtWork, Working, Getting, Alone, WholeFile, ShortFile, Obtained
<1>12. CASE OpenCacheFile
  BY <1>12, TaskFacts, NextInQueue DEF OpenCacheFile, EndStore, ClaimsFit, Truncate,
     ClaimedIsDelivered, PlacesAgree, TaskAtWork, Working, Getting, Alone, WholeFile, ShortFile, Obtained
<1>13. CASE WriteCacheFile
  BY <1>13, TaskFacts, NextInQueue DEF WriteCacheFile, EndStore, ClaimsFit, ClaimedIsDelivered,
     PlacesAgree, TaskAtWork, Working, Getting, Alone, WholeFile, ShortFile, Obtained
<1>14. CASE AfterTask
  BY <1>14, TaskFacts, NextInQueue DEF AfterTask, ClaimsFit, Continue, ClaimedIsDelivered,
     PlacesAgree, TaskAtWork, Working, Getting, Alone, WholeFile, ShortFile, Obtained
<1>15. CASE ClearEntry
  BY <1>15, TaskFacts, NextInQueue DEF ClearEntry, ClaimsFit, Touch, ClaimedIsDelivered,
     PlacesAgree, TaskAtWork, Working, Getting, Alone, WholeFile, ShortFile, Obtained
<1>16. CASE StoreCleared
  BY <1>16, TaskFacts, NextInQueue DEF StoreCleared, ClaimsFit, ClaimedIsDelivered,
     PlacesAgree, TaskAtWork, Working, Getting, Alone, WholeFile, ShortFile, Obtained
<1>17. CASE Crash
  BY <1>17, TaskFacts, NextInQueue DEF Crash, ClaimsFit, ClaimedIsDelivered, PlacesAgree,
     TaskAtWork, Working, Getting, Alone, WholeFile, ShortFile, Obtained
<1>18. CASE Disturb
  BY <1>18, TaskFacts, NextInQueue DEF Disturb, ClaimsFit, Touch, ClaimedIsDelivered,
     PlacesAgree, TaskAtWork, Working, Getting, Alone, WholeFile, ShortFile, Obtained
<1>19. CASE TakeSpace
  BY <1>19, TaskFacts, NextInQueue DEF TakeSpace, ClaimsFit, ClaimedIsDelivered, PlacesAgree,
     TaskAtWork, Working, Getting, Alone, WholeFile, ShortFile, Obtained
<1>20. CASE UNCHANGED cacheVars
  BY <1>20 DEF ClaimsFit, ClaimedIsDelivered, PlacesAgree, TaskAtWork, Working, Getting,
     Alone, WholeFile, ShortFile, Obtained
<1> QED
  BY <1>1, <1>2, <1>3, <1>4, <1>5, <1>6, <1>7, <1>8, <1>9, <1>10, <1>11, <1>12, <1>13,
     <1>14, <1>15, <1>16, <1>17, <1>18, <1>19, <1>20 DEF CacheNext, Step

\* and ClaimsAreRecorded.
LEMMA RecordedStep ==
  ASSUME PassInv, [CacheNext]_cacheVars
  PROVE  ClaimsAreRecorded'
<1> USE DEF PassInv, cacheVars, files, stored, world, session, plan, control, Quiet,
   EndPass, GoTo, Mishap, Construct
<1>1. CASE Start
  BY <1>1, TaskFacts DEF Start, ClaimsAreRecorded, PlacesAgree, TaskAtWork, Working,
     Alone, Single, Has, WholeFile, ShortFile, Obtained
<1>2. CASE BeginSweep
  BY <1>2, TaskFacts DEF BeginSweep, ClaimsAreRecorded, PlacesAgree, TaskAtWork, Working,
     Alone, Single, Has, WholeFile, ShortFile, Obtained
<1>3. CASE BeginClear
  BY <1>3, TaskFacts DEF BeginClear, ClaimsAreRecorded, PlacesAgree, TaskAtWork, Working,
     Alone, Single, Has, WholeFile, ShortFile, Obtained
<1>4. CASE BeginRun
  BY <1>4, TaskFacts DEF BeginRun, ClaimsAreRecorded, Created, PlacesAgree, TaskAtWork,
     Working, Alone, Single, Has, WholeFile, ShortFile, Obtained
<1>5. CASE FinishPass
  BY <1>5, TaskFacts DEF FinishPass, ClaimsAreRecorded, PlacesAgree, TaskAtWork, Working,
     Alone, Single, Has, WholeFile, ShortFile, Obtained
<1>6. CASE CheckTask
  <2>1. pass \in {"collect", "sizing", "run"} /\ at = "next" /\ queue # {}
    BY <1>6 DEF CheckTask, PlacesAgree, CacheTypeOK
  <2>2. Next1 \in queue /\ Next1 \in Task
    BY <2>1, NextInQueue DEF CacheTypeOK
  <2>3. UNCHANGED <<cache, version, pass, scenario, disk>> /\ unsaved \subseteq unsaved'
    BY <1>6 DEF CheckTask
  <2>4. \/ /\ disk[PathOf[Next1]] # None /\ Validate(Next1) = "valid"
           /\ claimed' = claimed \cup {Next1} /\ (Next1 \in unsaved' \/ Valid(Next1))
        \/ claimed' = claimed
    BY <1>6 DEF CheckTask
  <2>5. Validate(Next1) = "valid" /\ disk[PathOf[Next1]] # None /\ Valid(Next1) => Has(cache, Next1)
    BY <2>1, <2>2, ValidFile
  <2>7. pass = "run" => \A t \in claimed' \ unsaved' : Alone(t) /\ Single(t) => Has(cache, t)
    BY <2>3, <2>4, <2>5 DEF ClaimsAreRecorded
  <2> QED
    BY <2>3, <2>7 DEF ClaimsAreRecorded, Alone, Single, Has
<1>7. CASE SizeTask
  BY <1>7, TaskFacts DEF SizeTask, ClaimsAreRecorded, Continue, Fail, PlacesAgree,
     TaskAtWork, Working, Alone, Single, Has, WholeFile, ShortFile, Obtained
<1>8. CASE BeginFetch
  <2>1. /\ pass = "run" /\ pass' \in {pass, "none"} /\ task \in Task /\ PathOf[task] \in Path
        /\ at \in Getting /\ task \in scenario /\ task \notin claimed
    BY <1>8, TaskFacts DEF BeginFetch, Fail, TaskAtWork, PlacesAgree, Working, Getting,
       CacheTypeOK, ClaimsFit
  <2>2. UNCHANGED <<claimed, scenario, cache, version, unsaved>>
    BY <1>8 DEF BeginFetch, Fail
  <2>3. \/ disk' = disk
        \/ \E c : disk' = [disk EXCEPT ![PathOf[task]] = c]
    BY <1>8 DEF BeginFetch
  <2>4. ASSUME NEW t \in claimed \ unsaved, Alone(t), Single(t)
        PROVE  Has(cache, t)'
    <3>1. t \in Task /\ PathOf[t] \in Path
      BY TaskFacts DEF CacheTypeOK
    <3>2. PathOf[task] # PathOf[t] /\ Has(cache, t)
      BY <2>1, <2>4 DEF Alone, ClaimsAreRecorded
    <3>3. disk'[PathOf[t]] = disk[PathOf[t]]
      BY <2>1, <2>3, <3>1, <3>2 DEF CacheTypeOK
    <3> QED
      BY <2>2, <3>2, <3>3 DEF Has
  <2> QED
    BY <2>1, <2>2, <2>4 DEF ClaimsAreRecorded, Alone, Single
<1>9. CASE EndFetch
  <2>1. /\ pass = "run" /\ pass' \in {pass, "none"} /\ task \in Task /\ PathOf[task] \in Path
        /\ at \in Getting /\ task \in scenario /\ task \notin claimed
    BY <1>9, TaskFacts DEF EndFetch, Fail, TaskAtWork, PlacesAgree, Working, Getting,
       CacheTypeOK, ClaimsFit
  <2>2. UNCHANGED <<claimed, scenario, cache, version, unsaved>>
    BY <1>9 DEF EndFetch, Fail
  <2>3. \/ disk' = disk
        \/ \E c : disk' = [disk EXCEPT ![PathOf[task]] = c]
    BY <1>9 DEF EndFetch
  <2>4. ASSUME NEW t \in claimed \ unsaved, Alone(t), Single(t)
        PROVE  Has(cache, t)'
    <3>1. t \in Task /\ PathOf[t] \in Path
      BY TaskFacts DEF CacheTypeOK
    <3>2. PathOf[task] # PathOf[t] /\ Has(cache, t)
      BY <2>1, <2>4 DEF Alone, ClaimsAreRecorded
    <3>3. disk'[PathOf[t]] = disk[PathOf[t]]
      BY <2>1, <2>3, <3>1, <3>2 DEF CacheTypeOK
    <3> QED
      BY <2>2, <3>2, <3>3 DEF Has
  <2> QED
    BY <2>1, <2>2, <2>4 DEF ClaimsAreRecorded, Alone, Single
<1>10. CASE Replace
  <2>1. /\ pass = "run" /\ pass' \in {pass, "none"} /\ task \in Task /\ PathOf[task] \in Path
        /\ at \in Getting /\ task \in scenario /\ task \notin claimed
    BY <1>10, TaskFacts DEF Replace, Fail, TaskAtWork, PlacesAgree, Working, Getting,
       CacheTypeOK, ClaimsFit
  <2>2. UNCHANGED <<claimed, scenario, cache, version, unsaved>>
    BY <1>10 DEF Replace, Fail
  <2>3. \/ disk' = disk
        \/ \E c : disk' = [disk EXCEPT ![PathOf[task]] = c]
    BY <1>10 DEF Replace
  <2>4. ASSUME NEW t \in claimed \ unsaved, Alone(t), Single(t)
        PROVE  Has(cache, t)'
    <3>1. t \in Task /\ PathOf[t] \in Path
      BY TaskFacts DEF CacheTypeOK
    <3>2. PathOf[task] # PathOf[t] /\ Has(cache, t)
      BY <2>1, <2>4 DEF Alone, ClaimsAreRecorded
    <3>3. disk'[PathOf[t]] = disk[PathOf[t]]
      BY <2>1, <2>3, <3>1, <3>2 DEF CacheTypeOK
    <3> QED
      BY <2>2, <3>2, <3>3 DEF Has
  <2> QED
    BY <2>1, <2>2, <2>4 DEF ClaimsAreRecorded, Alone, Single
<1>11. CASE Record
  <2>1. /\ pass = "run" /\ task \in scenario /\ UNCHANGED <<pass, version, scenario>> /\ task \in Task
        /\ at' \in {"store", "done"} /\ claimed' = claimed \cup {task}
        /\ at' = "done" => unsaved' = unsaved \cup {task}
        /\ at' = "store" => unsaved' = unsaved
    BY <1>11, RecordFacts DEF TaskAtWork, Working
  <2>2. ASSUME NEW t \in claimed' \ unsaved', Alone(t), Single(t)
        PROVE  Has(cache, t)'
    <3>1. t \in Task /\ t \notin unsaved
      BY <2>1 DEF CacheTypeOK
    <3>2. CASE t = task
      BY <1>11, <2>1, <2>2, <3>2, RecordHas
    <3>3. CASE t # task
      <4>1. PathOf[task] # PathOf[t] /\ Has(cache, t)
        BY <2>1, <2>2, <3>1, <3>3 DEF Alone, ClaimsAreRecorded
      <4> QED
        BY <1>11, <2>2, <3>1, <4>1, RecordHas
    <3> QED
      BY <3>2, <3>3
  <2>3. \A t \in Task : Alone(t)' <=> Alone(t)
    BY <2>1 DEF Alone
  <2>4. claimed' \subseteq Task
    BY <2>1 DEF CacheTypeOK
  <2> QED
    BY <2>2, <2>3, <2>4 DEF ClaimsAreRecorded, Single, Has
<1>12. CASE OpenCacheFile
  BY <1>12, TaskFacts DEF OpenCacheFile, EndStore, ClaimsAreRecorded, Truncate, PlacesAgree,
     TaskAtWork, Working, Alone, Single, Has, WholeFile, ShortFile, Obtained
<1>13. CASE WriteCacheFile
  BY <1>13, TaskFacts DEF WriteCacheFile, EndStore, ClaimsAreRecorded, PlacesAgree, TaskAtWork,
     Working, Alone, Single, Has, WholeFile, ShortFile, Obtained
<1>14. CASE AfterTask
  BY <1>14, TaskFacts DEF AfterTask, ClaimsAreRecorded, Continue, PlacesAgree,
     TaskAtWork, Working, Alone, Single, Has, WholeFile, ShortFile, Obtained
<1>15. CASE ClearEntry
  BY <1>15, TaskFacts DEF ClearEntry, ClaimsAreRecorded, Touch, PlacesAgree, TaskAtWork,
     Working, Alone, Single, Has, WholeFile, ShortFile, Obtained
<1>16. CASE StoreCleared
  BY <1>16, TaskFacts DEF StoreCleared, ClaimsAreRecorded, PlacesAgree, TaskAtWork,
     Working, Alone, Single, Has, WholeFile, ShortFile, Obtained
<1>17. CASE Crash
  BY <1>17, TaskFacts DEF Crash, ClaimsAreRecorded, PlacesAgree, TaskAtWork, Working,
     Alone, Single, Has, WholeFile, ShortFile, Obtained
<1>18. CASE Disturb
  BY <1>18, TaskFacts DEF Disturb, ClaimsAreRecorded, Touch, PlacesAgree, TaskAtWork,
     Working, Alone, Single, Has, WholeFile, ShortFile, Obtained
<1>19. CASE TakeSpace
  BY <1>19, TaskFacts DEF TakeSpace, ClaimsAreRecorded, PlacesAgree, TaskAtWork, Working,
     Alone, Single, Has, WholeFile, ShortFile, Obtained
<1>20. CASE UNCHANGED cacheVars
  BY <1>20 DEF ClaimsAreRecorded, PlacesAgree, TaskAtWork, Working, Alone, Single, Has,
     WholeFile, ShortFile, Obtained
<1> QED
  BY <1>1, <1>2, <1>3, <1>4, <1>5, <1>6, <1>7, <1>8, <1>9, <1>10, <1>11, <1>12, <1>13,
     <1>14, <1>15, <1>16, <1>17, <1>18, <1>19, <1>20 DEF CacheNext, Step

\* A file lacks its entry only where an error of a file was met, or where the session's
\* word was taken for one that has lost it, which takes such an error too.
LEMMA UnsavedStep ==
  ASSUME PassInv, CacheTypeOK', [CacheNext]_cacheVars
  PROVE  UnsavedByFault'
<1>1. faults' = 0 => faults = 0
  BY FaultsGrow DEF PassInv
<1>2. ASSUME unsaved' \subseteq unsaved
      PROVE  UnsavedByFault'
  BY <1>1, <1>2 DEF PassInv, CacheTypeOK, UnsavedByFault, Single
<1>3. ASSUME faults' = faults + 1
      PROVE  UnsavedByFault'
  BY <1>3 DEF PassInv, CacheTypeOK, UnsavedByFault
<1>4. CASE CheckTask
  <2>1. pass # "none" /\ at = "next" /\ Next1 \in Task /\ faults' = faults
    BY <1>4, NextInQueue DEF CheckTask, PassInv, PlacesAgree, CacheTypeOK, Quiet, world
  <2>2. \/ unsaved' \subseteq unsaved
        \/ /\ unsaved' = unsaved \cup {Next1} /\ ~Valid(Next1)
           /\ disk[PathOf[Next1]] # None /\ Validate(Next1) = "valid"
    BY <1>4 DEF CheckTask
  <2>3. CASE ~Valid(Next1) /\ disk[PathOf[Next1]] # None /\ Validate(Next1) = "valid"
             /\ unsaved' = unsaved \cup {Next1}
    <3>1. ASSUME faults = 0, Single(Next1)
          PROVE  FALSE
      <4>1. Has(cache, Next1)
        BY <2>1, <2>3, <3>1, ValidFile
      <4> QED
        BY <2>3, <4>1 DEF Has, Valid
    <3>2. Single(Next1) => faults > 0
      BY <3>1 DEF PassInv, CacheTypeOK
    <3> QED
      BY <2>1, <2>3, <3>2 DEF PassInv, UnsavedByFault, Single
  <2> QED
    BY <1>2, <2>2, <2>3
<1>5. \/ unsaved' \subseteq unsaved \/ faults' = faults + 1 \/ CheckTask
  BY DEF CacheNext, Step, Start, BeginSweep, BeginClear, BeginRun, FinishPass, SizeTask, BeginFetch,
     EndFetch, Replace, Record, OpenCacheFile, WriteCacheFile, AfterTask, ClearEntry, StoreCleared,
     Crash, Disturb, TakeSpace, Construct, Mishap, GoTo, plan, cacheVars
<1> QED
  BY <1>2, <1>3, <1>4, <1>5

\* The invariant holds at the beginning,
LEMMA PassInvInit == CacheInit => PassInv
<1> SUFFICES ASSUME CacheInit PROVE PassInv
  OBVIOUS
<1>1. CacheTypeOK
  BY CacheTypeInit
<1>2. PlacesAgree /\ TaskAtWork /\ ClaimsFit /\ CacheIsStored /\ ClaimsAreRecorded
  BY DEF CacheInit, PlacesAgree, TaskAtWork, ClaimsFit, CacheIsStored, ClaimsAreRecorded,
     Working
<1>3. OneEntryPerPath /\ EntriesFit
  BY DEF CacheInit, OneEntryPerPath, EntriesFit, Empty
<1>4. VerdictsHold /\ PromisesHold /\ UnsavedByFault
  BY DEF CacheInit, VerdictsHold, PromisesHold, UnsavedByFault
<1> QED
  BY <1>1, <1>2, <1>3, <1>4 DEF PassInv

\* and every step preserves it.
LEMMA PassInvStep == PassInv /\ [CacheNext]_cacheVars => PassInv'
<1> SUFFICES ASSUME PassInv, [CacheNext]_cacheVars PROVE PassInv'
  OBVIOUS
<1>1. CacheTypeOK'
  BY CacheTypeStep DEF PassInv
<1>2. PlacesAgree' /\ TaskAtWork' /\ ClaimsFit'
  BY PlacesStep, WorkStep, ClaimsStep
<1>3. OneEntryPerPath' /\ EntriesFit' /\ CacheIsStored'
  BY OneEntryStep, EntriesStep, CacheIsStoredStep
<1>4. VerdictsHold' /\ PromisesHold' /\ ClaimsAreRecorded' /\ UnsavedByFault'
  BY <1>1, VerdictsStep, PromisesStep, RecordedStep, UnsavedStep
<1> QED
  BY <1>1, <1>2, <1>3, <1>4 DEF PassInv

\* PassInv is an invariant of the cache, whatever crashes, fails or interferes.
THEOREM PassInvariant == CacheSpec => []PassInv
<1> QED
  BY PassInvInit, PassInvStep, PTL DEF CacheSpec

\* Type correctness of the cache, its sums of bytes included.
THEOREM CacheTypeCorrect == CacheSpec => []CacheTypeOK
<1>1. PassInv => CacheTypeOK
  BY DEF PassInv
<1> QED
  BY <1>1, PassInvariant, PTL

\* A run is given what the transfers delivered, no two URLs are recorded for one path,
\* what a run obtained and recorded serves every later one, and only an error of a file
\* leaves a file unrecorded (StorageTask::Run, URLCacheManager).
THEOREM CacheSound == CacheSpec => []CacheIsSound
<1>1. PassInv => CacheIsSound
  <2> SUFFICES ASSUME PassInv PROVE CacheIsSound
    OBVIOUS
  <2>1. ClaimedIsDelivered /\ OneEntryPerPath /\ UnsavedByFault
    BY DEF PassInv, ClaimsFit, ClaimedIsDelivered
  <2>2. ASSUME readable, NEW t \in promised
        PROVE  LET e == cacheFile[UrlOf[t]]
               IN /\ e # None /\ e.sha = disk[PathOf[t]] /\ disk[PathOf[t]] \in Obtained(t)
                  /\ t \in Versioned => e.version = version
    <3>1. t \in Task
      BY DEF PassInv, CacheTypeOK
    <3>2. UrlOf[t] \in Url
      BY <3>1, TaskFacts
    <3>3. disk[PathOf[t]] \in Obtained(t) /\ Has(cacheFile, t)
      BY <2>2 DEF PassInv, PromisesHold
    <3> QED
      BY <3>2, <3>3 DEF PassInv, EntriesFit, Has, WholeFile, ShortFile, Obtained
  <2> QED
    BY <2>1, <2>2 DEF CacheIsSound, PromiseKept
<1> QED
  BY <1>1, PassInvariant, PTL

\* Taking a task from the queue makes it shorter by one.
LEMMA QueueShrinks ==
  ASSUME CacheTypeOK, NEW t \in queue
  PROVE  Cardinality(queue \ {t}) \in Nat /\ Cardinality(queue) = Cardinality(queue \ {t}) + 1
<1>1. IsFiniteSet(queue)
  <2>1. IsFiniteSet(Task)
    BY CacheAssumption, FS_Interval DEF Task
  <2> QED
    BY <2>1, FS_Subset DEF CacheTypeOK
<1>2. Cardinality(queue \ {t}) = Cardinality(queue) - 1
  BY <1>1, FS_RemoveElement
<1>3. Cardinality(queue) \in Nat /\ Cardinality(queue \ {t}) \in Nat
  <2>1. IsFiniteSet(queue \ {t})
    BY <1>1, FS_Subset
  <2> QED
    BY <1>1, <2>1, FS_CardinalityType
<1> QED
  BY <1>2, <1>3

\* Each step of a pass brings it nearer to its end (PassAdvances): the loops of
\* RunStorageTasks, StorageTask::Run and ClearCache go once over their tasks.
LEMMA AdvanceStep ==
  ASSUME PassInv, CacheNext
  PROVE  pass # "none" => \/ pass' = "none"
                          \/ pass = "sizing" /\ pass' = "run"
                          \/ pass' = pass /\ StepsLeft' < StepsLeft
                          \/ UNCHANGED <<pass, at, queue>>
<1> SUFFICES ASSUME pass # "none", pass' # "none", ~(pass = "sizing" /\ pass' = "run"),
                    ~UNCHANGED <<pass, at, queue>>
             PROVE  pass' = pass /\ StepsLeft' < StepsLeft
  OBVIOUS
<1>0. Cardinality(queue) \in Nat
  <2>1. IsFiniteSet(Task)
    BY CacheAssumption, FS_Interval DEF Task
  <2> QED
    BY <2>1, FS_Subset, FS_CardinalityType DEF PassInv, CacheTypeOK
<1>1. ASSUME pass' = pass, queue' = queue, Rank'[at'] < Rank[at], Rank[at] \in Nat, Rank'[at'] \in Nat
      PROVE  pass' = pass /\ StepsLeft' < StepsLeft
  BY <1>0, <1>1 DEF StepsLeft
<1>2. ASSUME pass' = pass, NEW t \in queue, queue' = queue \ {t}, Rank[at] \in Nat, Rank'[at'] \in Nat,
             Rank'[at'] < Rank[at] + 8
      PROVE  pass' = pass /\ StepsLeft' < StepsLeft
  <2>1. Cardinality(queue') \in Nat /\ Cardinality(queue) = Cardinality(queue') + 1
    BY <1>2, QueueShrinks DEF PassInv
  <2> QED
    BY <1>0, <1>2, <2>1 DEF StepsLeft
<1> USE DEF cacheVars, EndPass, GoTo, Construct, Continue, Fail, EndStore
<1>3. CASE CheckTask
  <2>1. pass' = pass /\ pass # "clear" /\ at = "next" /\ queue' = queue \ {Next1} /\ Next1 \in queue
        /\ at' \in {"next", "fetch", "size"}
    BY <1>3, NextInQueue DEF CheckTask, PassInv, CacheTypeOK
  <2>2. Rank[at] = 1 /\ Rank'[at'] \in {1, 8, 2}
    BY <2>1 DEF Rank
  <2> QED
    BY <1>2, <2>1, <2>2
<1>4. CASE ClearEntry
  <2>1. pass' = pass /\ at' = at /\ at = "next" /\ queue' = queue \ {Next1} /\ Next1 \in queue
    BY <1>4, NextInQueue DEF ClearEntry, PassInv, CacheTypeOK
  <2>2. Rank[at] \in {1, 5} /\ Rank'[at'] = Rank[at]
    BY <2>1 DEF Rank
  <2> QED
    BY <1>2, <2>1, <2>2
<1>5. CASE StoreCleared
  <2>1. pass' = pass /\ pass = "clear" /\ queue' = queue /\ at = "next" /\ at' = "store"
    BY <1>5 DEF StoreCleared
  <2> QED
    BY <1>1, <2>1 DEF Rank
<1>6. CASE FinishPass \/ SizeTask \/ BeginFetch \/ EndFetch \/ Replace \/ Record \/ OpenCacheFile
           \/ WriteCacheFile \/ AfterTask
  <2>1. /\ pass' = pass /\ queue' = queue /\ (at = "next" => pass # "clear")
        /\ at' = "next" => pass # "clear"
        /\ <<at, at'>> \in {<<"next", "check">>, <<"size", "next">>, <<"fetch", "fetching">>,
             <<"fetch", "copying">>, <<"fetching", "rename">>, <<"fetching", "renameShort">>,
             <<"copying", "record">>, <<"rename", "record">>, <<"renameShort", "record">>,
             <<"record", "store">>, <<"record", "done">>, <<"store", "storing">>,
             <<"store", "done">>, <<"storing", "done">>, <<"done", "next">>}
    BY <1>6 DEF FinishPass, SizeTask, BeginFetch, EndFetch, Replace, Record, OpenCacheFile,
       WriteCacheFile, AfterTask, PassInv, PlacesAgree, Working
  <2> QED
    BY <1>1, <2>1 DEF Rank
<1> QED
  BY <1>3, <1>4, <1>5, <1>6 DEF CacheNext, Step, Start, BeginSweep, BeginClear, BeginRun, Crash,
     Disturb, TakeSpace, control

\* A pass comes to its end.
THEOREM PassesEnd == CacheSpec => PassAdvances
<1>1. PassInv /\ [CacheNext]_cacheVars =>
        [pass # "none" => \/ pass' = "none"
                          \/ pass = "sizing" /\ pass' = "run"
                          \/ pass' = pass /\ StepsLeft' < StepsLeft]_<<pass, at, queue>>
  BY AdvanceStep DEF cacheVars, control
<1> QED
  BY <1>1, PassInvariant, PTL DEF CacheSpec, PassAdvances

-----------------------------------------------------------------------------
(* What a run delivers.                                                    *)

\* What a sweep does with a task: a size that is right or the 0 of a local file, or the
\* end of the pass.
LEMMA SizeTaskFacts ==
  ASSUME PassInv, SizesKnown, SizeTask
  PROVE  /\ at = "size" /\ pass \in {"collect", "sizing"} /\ task \in Task /\ task \in scenario
         /\ UNCHANGED <<disk, tmp, cache, cacheFile, readable, foreign, version, alive, verdict, scenario,
                        claimed, completed, unsaved, promised, forced>>
         /\ \/ \E size \in Nat :
                 /\ \A t \in Task : UrlOf[t] = UrlOf[task] => size = Size[t] \/ (size = 0 /\ t \in Local)
                 /\ known' = [known EXCEPT ![UrlOf[task]] = size]
                 /\ sizes' = [sizes EXCEPT ![UrlOf[task]] = task]
                 /\ counted' = [counted EXCEPT ![UrlOf[task]] = size]
                 /\ at' = "next" /\ task' = 0 /\ UNCHANGED <<pass, queue, ending>>
            \/ /\ pass' = "none" /\ at' = "idle" /\ task' = 0 /\ queue' = {} /\ ending' = "failed"
               /\ UNCHANGED <<known, sizes, counted>>
<1>1. /\ at = "size" /\ pass \in {"collect", "sizing"} /\ task \in Task /\ task \in scenario
      /\ UNCHANGED <<disk, tmp, cache, cacheFile, readable, foreign, version, alive, verdict, scenario,
                     claimed, completed, unsaved, promised, forced>>
  BY DEF SizeTask, PassInv, PlacesAgree, TaskAtWork, CacheTypeOK, Continue, Fail,
     EndPass, GoTo, Mishap, Quiet, files,
         stored, world
<1>2. ASSUME NEW size \in Nat \cap
               (IF KnownSize(task) >= 0 THEN {KnownSize(task)}
                ELSE IF task \in Local /\ pass = "collect" THEN {0}
                ELSE {Size[task]}),
             NEW t \in Task, UrlOf[t] = UrlOf[task]
      PROVE  size = Size[t] \/ (size = 0 /\ t \in Local)
  <2>1. UrlOf[task] \in Url /\ Size[t] = Size[task] /\ (t \in Local <=> task \in Local)
    BY <1>1, <1>2, TaskFacts, CacheAssumption
  <2>2. KnownSize(task) >= 0 => KnownSize(task) = Size[t] \/ (KnownSize(task) = 0 /\ t \in Local)
    <3>1. KnownSize(task) = known[UrlOf[task]] /\ KnownSize(task) \in Int
      BY <2>1 DEF KnownSize, PassInv, CacheTypeOK
    <3>2. KnownSize(task) >= 0 => KnownSize(task) # -1
      BY <3>1
    <3> QED
      BY <1>2, <2>1, <3>1, <3>2 DEF SizesKnown
  <2> QED
    BY <1>2, <2>1, <2>2
<1>3. CASE \E size \in Nat \cap
               (IF KnownSize(task) >= 0 THEN {KnownSize(task)}
                ELSE IF task \in Local /\ pass = "collect" THEN {0}
                ELSE {Size[task]}) :
          /\ known' = [known EXCEPT ![UrlOf[task]] = size]
          /\ sizes' = [sizes EXCEPT ![UrlOf[task]] = task]
          /\ counted' = [counted EXCEPT ![UrlOf[task]] = size]
          /\ Continue
  BY <1>1, <1>2, <1>3 DEF Continue
<1>4. CASE Fail /\ UNCHANGED <<known, sizes, counted>>
  BY <1>1, <1>4 DEF Fail, EndPass, GoTo, Mishap
<1> QED
  BY <1>3, <1>4 DEF SizeTask

\* Every step preserves SizesKnown,
LEMMA SizesStep ==
  ASSUME PassInv, DeliverInv, [CacheNext]_cacheVars
  PROVE  SizesKnown'
<1> USE DEF PassInv, DeliverInv, cacheVars, files, stored, world, session, plan, control,
   Quiet, EndPass, GoTo, Mishap, Construct
<1>1. CASE Start
  BY <1>1, TaskFacts, TaskSizes DEF Start, SizesKnown, PlacesAgree, TaskAtWork,
     CacheTypeOK
<1>2. CASE BeginSweep
  BY <1>2, TaskFacts, TaskSizes DEF BeginSweep, SizesKnown, PlacesAgree, TaskAtWork,
     CacheTypeOK
<1>3. CASE BeginClear
  BY <1>3, TaskFacts, TaskSizes DEF BeginClear, SizesKnown, PlacesAgree, TaskAtWork,
     CacheTypeOK
<1>4. CASE BeginRun
  BY <1>4, TaskFacts, TaskSizes DEF BeginRun, SizesKnown, Created, PlacesAgree,
     TaskAtWork, CacheTypeOK
<1>5. CASE FinishPass
  BY <1>5, TaskFacts, TaskSizes DEF FinishPass, SizesKnown, PlacesAgree, TaskAtWork,
     CacheTypeOK
<1>6. CASE CheckTask
  BY <1>6, TaskFacts, TaskSizes DEF CheckTask, SizesKnown, PlacesAgree, TaskAtWork,
     CacheTypeOK
<1>7. CASE SizeTask
  <2>1. UrlOf[task] \in Url
    BY <1>7, SizeTaskFacts, TaskFacts
  <2>2. CASE \E size \in Nat :
               /\ \A t \in Task : UrlOf[t] = UrlOf[task] => size = Size[t] \/ (size = 0 /\ t \in Local)
               /\ known' = [known EXCEPT ![UrlOf[task]] = size]
    BY <2>1, <2>2 DEF SizesKnown, CacheTypeOK
  <2>3. CASE known' = known
    BY <2>3 DEF SizesKnown
  <2> QED
    BY <1>7, <2>2, <2>3, SizeTaskFacts
<1>8. CASE BeginFetch
  BY <1>8, TaskFacts, TaskSizes DEF BeginFetch, SizesKnown, Fail, Touch, PlacesAgree,
     TaskAtWork, CacheTypeOK
<1>9. CASE EndFetch
  BY <1>9, TaskFacts, TaskSizes DEF EndFetch, Delivered, SizesKnown, Fail, Touch, PlacesAgree,
     TaskAtWork, CacheTypeOK
<1>10. CASE Replace
  BY <1>10, TaskFacts, TaskSizes DEF Replace, SizesKnown, Fail, Touch, PlacesAgree,
     TaskAtWork, CacheTypeOK
<1>11. CASE Record
  BY <1>11, TaskFacts, TaskSizes DEF Record, SizesKnown, Evict, PlacesAgree, TaskAtWork,
     CacheTypeOK
<1>12. CASE OpenCacheFile
  BY <1>12, TaskFacts, TaskSizes DEF OpenCacheFile, EndStore, SizesKnown, Truncate, PlacesAgree,
     TaskAtWork, CacheTypeOK
<1>13. CASE WriteCacheFile
  BY <1>13, TaskFacts, TaskSizes DEF WriteCacheFile, EndStore, SizesKnown, PlacesAgree, TaskAtWork,
     CacheTypeOK
<1>14. CASE AfterTask
  BY <1>14, TaskFacts, TaskSizes DEF AfterTask, SizesKnown, Continue, PlacesAgree,
     TaskAtWork, CacheTypeOK
<1>15. CASE ClearEntry
  BY <1>15, TaskFacts, TaskSizes DEF ClearEntry, SizesKnown, Touch, PlacesAgree,
     TaskAtWork, CacheTypeOK
<1>16. CASE StoreCleared
  BY <1>16, TaskFacts, TaskSizes DEF StoreCleared, SizesKnown, PlacesAgree, TaskAtWork,
     CacheTypeOK
<1>17. CASE Crash
  BY <1>17, TaskFacts, TaskSizes DEF Crash, SizesKnown, PlacesAgree, TaskAtWork,
     CacheTypeOK
<1>18. CASE Disturb
  BY <1>18, TaskFacts, TaskSizes DEF Disturb, SizesKnown, Touch, PlacesAgree, TaskAtWork,
     CacheTypeOK
<1>19. CASE TakeSpace
  BY <1>19, TaskFacts, TaskSizes DEF TakeSpace, SizesKnown, PlacesAgree, TaskAtWork,
     CacheTypeOK
<1>20. CASE UNCHANGED cacheVars
  BY <1>20 DEF SizesKnown, PlacesAgree, TaskAtWork, CacheTypeOK
<1> QED
  BY <1>1, <1>2, <1>3, <1>4, <1>5, <1>6, <1>7, <1>8, <1>9, <1>10, <1>11, <1>12, <1>13,
     <1>14, <1>15, <1>16, <1>17, <1>18, <1>19, <1>20 DEF CacheNext, Step

\* Reached,
LEMMA ReachedStep ==
  ASSUME PassInv, DeliverInv, [CacheNext]_cacheVars
  PROVE  Reached'
<1> USE DEF PassInv, DeliverInv, cacheVars, files, stored, world, session, plan, control,
   Quiet, EndPass, GoTo, Mishap, Construct
<1>1. CASE Start
  BY <1>1, NextInQueue DEF Start, Reached, PlacesAgree, TaskAtWork, Working, Getting,
     CacheTypeOK
<1>2. CASE BeginSweep
  BY <1>2, NextInQueue DEF BeginSweep, Reached, PlacesAgree, TaskAtWork, Working,
     Getting, CacheTypeOK
<1>3. CASE BeginClear
  BY <1>3, NextInQueue DEF BeginClear, Reached, PlacesAgree, TaskAtWork, Working,
     Getting, CacheTypeOK
<1>4. CASE BeginRun
  <2>1. UNCHANGED scenario /\ claimed' = {}
    BY <1>4 DEF BeginRun
  <2>2. CASE pass' = "run" /\ ending' = "none" /\ queue' = Created
    <3>1. ASSUME NEW t \in scenario, t \notin Created
          PROVE  t \in Local \ Zip
      <4>1. t \in Task /\ UrlOf[t] \in Url /\ Size[t] # 0
        BY TaskFacts, TaskSizes DEF CacheTypeOK
      <4>2. t \notin Zip /\ known[UrlOf[t]] = 0
        BY <3>1 DEF Created
      <4> QED
        BY <4>1, <4>2 DEF SizesKnown
    <3> QED
      BY <2>1, <2>2, <3>1 DEF Reached
  <2>3. CASE pass' = "none" /\ ending' \in {"threw", "nospace"}
    BY <2>1, <2>3 DEF Reached
  <2> QED
    BY <1>4, <2>2, <2>3 DEF BeginRun
<1>5. CASE FinishPass
  BY <1>5, NextInQueue DEF FinishPass, Reached, PlacesAgree, TaskAtWork, Working,
     Getting, CacheTypeOK
<1>6. CASE CheckTask
  BY <1>6, NextInQueue DEF CheckTask, Reached, PlacesAgree, TaskAtWork, Working, Getting,
     CacheTypeOK
<1>7. CASE SizeTask
  BY <1>7, NextInQueue DEF SizeTask, Reached, Continue, Fail, PlacesAgree, TaskAtWork,
     Working, Getting, CacheTypeOK
<1>8. CASE BeginFetch
  BY <1>8, NextInQueue DEF BeginFetch, Reached, Fail, Touch, PlacesAgree, TaskAtWork,
     Working, Getting, CacheTypeOK
<1>9. CASE EndFetch
  BY <1>9, NextInQueue DEF EndFetch, Delivered, Reached, Fail, Touch, PlacesAgree, TaskAtWork,
     Working, Getting, CacheTypeOK
<1>10. CASE Replace
  BY <1>10, NextInQueue DEF Replace, Reached, Fail, Touch, PlacesAgree, TaskAtWork,
     Working, Getting, CacheTypeOK
<1>11. CASE Record
  BY <1>11, NextInQueue DEF Record, Reached, Evict, PlacesAgree, TaskAtWork, Working,
     Getting, CacheTypeOK
<1>12. CASE OpenCacheFile
  BY <1>12, NextInQueue DEF OpenCacheFile, EndStore, Reached, Truncate, PlacesAgree, TaskAtWork,
     Working, Getting, CacheTypeOK
<1>13. CASE WriteCacheFile
  BY <1>13, NextInQueue DEF WriteCacheFile, EndStore, Reached, PlacesAgree, TaskAtWork, Working,
     Getting, CacheTypeOK
<1>14. CASE AfterTask
  BY <1>14, NextInQueue DEF AfterTask, Reached, Continue, PlacesAgree, TaskAtWork,
     Working, Getting, CacheTypeOK
<1>15. CASE ClearEntry
  BY <1>15, NextInQueue DEF ClearEntry, Reached, Touch, PlacesAgree, TaskAtWork, Working,
     Getting, CacheTypeOK
<1>16. CASE StoreCleared
  BY <1>16, NextInQueue DEF StoreCleared, Reached, PlacesAgree, TaskAtWork, Working,
     Getting, CacheTypeOK
<1>17. CASE Crash
  BY <1>17, NextInQueue DEF Crash, Reached, PlacesAgree, TaskAtWork, Working, Getting,
     CacheTypeOK
<1>18. CASE Disturb
  BY <1>18, NextInQueue DEF Disturb, Reached, Touch, PlacesAgree, TaskAtWork, Working,
     Getting, CacheTypeOK
<1>19. CASE TakeSpace
  BY <1>19, NextInQueue DEF TakeSpace, Reached, PlacesAgree, TaskAtWork, Working,
     Getting, CacheTypeOK
<1>20. CASE UNCHANGED cacheVars
  BY <1>20 DEF Reached, PlacesAgree, TaskAtWork, Working, Getting, CacheTypeOK
<1> QED
  BY <1>1, <1>2, <1>3, <1>4, <1>5, <1>6, <1>7, <1>8, <1>9, <1>10, <1>11, <1>12, <1>13,
     <1>14, <1>15, <1>16, <1>17, <1>18, <1>19, <1>20 DEF CacheNext, Step

\* SizesFit,
LEMMA FitStep ==
  ASSUME PassInv, DeliverInv, [CacheNext]_cacheVars
  PROVE  SizesFit'
<1> USE DEF PassInv, DeliverInv, cacheVars, files, stored, world, session, plan, control,
   Quiet, EndPass, GoTo, Mishap, Construct
<1>1. CASE Start
  BY <1>1, TaskFacts, TaskSizes DEF Start, SizesFit, PlacesAgree, TaskAtWork, CacheTypeOK
<1>2. CASE BeginSweep
  BY <1>2, TaskFacts, TaskSizes DEF BeginSweep, SizesFit, PlacesAgree, TaskAtWork,
     CacheTypeOK
<1>3. CASE BeginClear
  BY <1>3, TaskFacts, TaskSizes DEF BeginClear, SizesFit, PlacesAgree, TaskAtWork,
     CacheTypeOK
<1>4. CASE BeginRun
  BY <1>4, TaskFacts, TaskSizes DEF BeginRun, SizesFit, Created, PlacesAgree, TaskAtWork,
     CacheTypeOK
<1>5. CASE FinishPass
  BY <1>5, TaskFacts, TaskSizes DEF FinishPass, SizesFit, PlacesAgree, TaskAtWork,
     CacheTypeOK
<1>6. CASE CheckTask
  BY <1>6, TaskFacts, TaskSizes DEF CheckTask, SizesFit, PlacesAgree, TaskAtWork,
     CacheTypeOK
<1>7. CASE SizeTask
  <2>1. UrlOf[task] \in Url /\ task \in scenario /\ scenario' = scenario /\ task # 0
    BY <1>7, SizeTaskFacts, TaskFacts, CacheAssumption DEF Task
  <2>2. CASE \E size \in Nat :
               /\ sizes' = [sizes EXCEPT ![UrlOf[task]] = task]
               /\ counted' = [counted EXCEPT ![UrlOf[task]] = size]
    BY <2>1, <2>2 DEF SizesFit, CacheTypeOK
  <2>3. CASE UNCHANGED <<sizes, counted>>
    BY <2>1, <2>3 DEF SizesFit
  <2> QED
    BY <1>7, <2>2, <2>3, SizeTaskFacts
<1>8. CASE BeginFetch
  BY <1>8, TaskFacts, TaskSizes DEF BeginFetch, SizesFit, Fail, Touch, PlacesAgree,
     TaskAtWork, CacheTypeOK
<1>9. CASE EndFetch
  BY <1>9, TaskFacts, TaskSizes DEF EndFetch, Delivered, SizesFit, Fail, Touch, PlacesAgree,
     TaskAtWork, CacheTypeOK
<1>10. CASE Replace
  BY <1>10, TaskFacts, TaskSizes DEF Replace, SizesFit, Fail, Touch, PlacesAgree,
     TaskAtWork, CacheTypeOK
<1>11. CASE Record
  BY <1>11, TaskFacts, TaskSizes DEF Record, SizesFit, Evict, PlacesAgree, TaskAtWork,
     CacheTypeOK
<1>12. CASE OpenCacheFile
  BY <1>12, TaskFacts, TaskSizes DEF OpenCacheFile, EndStore, SizesFit, Truncate, PlacesAgree,
     TaskAtWork, CacheTypeOK
<1>13. CASE WriteCacheFile
  BY <1>13, TaskFacts, TaskSizes DEF WriteCacheFile, EndStore, SizesFit, PlacesAgree, TaskAtWork,
     CacheTypeOK
<1>14. CASE AfterTask
  BY <1>14, TaskFacts, TaskSizes DEF AfterTask, SizesFit, Continue, PlacesAgree,
     TaskAtWork, CacheTypeOK
<1>15. CASE ClearEntry
  BY <1>15, TaskFacts, TaskSizes DEF ClearEntry, SizesFit, Touch, PlacesAgree,
     TaskAtWork, CacheTypeOK
<1>16. CASE StoreCleared
  BY <1>16, TaskFacts, TaskSizes DEF StoreCleared, SizesFit, PlacesAgree, TaskAtWork,
     CacheTypeOK
<1>17. CASE Crash
  BY <1>17, TaskFacts, TaskSizes DEF Crash, SizesFit, PlacesAgree, TaskAtWork, CacheTypeOK
<1>18. CASE Disturb
  BY <1>18, TaskFacts, TaskSizes DEF Disturb, SizesFit, Touch, PlacesAgree, TaskAtWork,
     CacheTypeOK
<1>19. CASE TakeSpace
  BY <1>19, TaskFacts, TaskSizes DEF TakeSpace, SizesFit, PlacesAgree, TaskAtWork,
     CacheTypeOK
<1>20. CASE UNCHANGED cacheVars
  BY <1>20 DEF SizesFit, PlacesAgree, TaskAtWork, CacheTypeOK
<1> QED
  BY <1>1, <1>2, <1>3, <1>4, <1>5, <1>6, <1>7, <1>8, <1>9, <1>10, <1>11, <1>12, <1>13,
     <1>14, <1>15, <1>16, <1>17, <1>18, <1>19, <1>20 DEF CacheNext, Step

\* and PlanCovers.
LEMMA CoversStep ==
  ASSUME PassInv, DeliverInv, [CacheNext]_cacheVars
  PROVE  PlanCovers'
<1> USE DEF PassInv, DeliverInv, cacheVars, files, stored, world, session, plan, control,
   Quiet, EndPass, GoTo, Mishap, Construct
<1>1. CASE Start
  BY <1>1, NextInQueue, TaskFacts DEF Start, PlanCovers, PlacesAgree, TaskAtWork,
     Working, Dealt, Trusted, PlanIsRight, Alone
<1>2. CASE BeginSweep
  BY <1>2, NextInQueue, TaskFacts DEF BeginSweep, PlanCovers, PlacesAgree, TaskAtWork,
     Working, Dealt, Trusted, PlanIsRight, Alone
<1>3. CASE BeginClear
  BY <1>3, NextInQueue, TaskFacts DEF BeginClear, PlanCovers, PlacesAgree, TaskAtWork,
     Working, Dealt, Trusted, PlanIsRight, Alone
<1>4. CASE BeginRun
  <2>1. UNCHANGED <<scenario, sizes, counted, completed, verdict>> /\ claimed' = {} /\ pass = "sizing" /\ at = "check"
    BY <1>4 DEF BeginRun
  <2>2. CASE pass' = "run" /\ at' = "next" /\ queue' = Created /\ forced' = forced
    <3>1. completed' = {} /\ at' \notin Working
      BY <2>1, <2>2 DEF PlanCovers, Working
    <3>2. \A t \in scenario : Dealt(t)
      BY <2>1 DEF PlanCovers, TaskAtWork, PlacesAgree
    <3> QED
      BY <2>1, <2>2, <3>1, <3>2 DEF PlanCovers, Created, Dealt, Trusted
  <2>3. CASE pass' = "none" /\ at' = "idle"
    BY <2>3 DEF PlanCovers
  <2> QED
    BY <1>4, <2>2, <2>3 DEF BeginRun
<1>5. CASE FinishPass
  BY <1>5, NextInQueue, TaskFacts DEF FinishPass, PlanCovers, PlacesAgree, TaskAtWork,
     Working, Dealt, Trusted, PlanIsRight, Alone
<1>6. CASE CheckTask
  <2>1. pass \in {"collect", "sizing", "run"} /\ at = "next" /\ queue # {}
    BY <1>6 DEF CheckTask, PlacesAgree, CacheTypeOK
  <2>2. Next1 \in queue /\ Next1 \in Task /\ queue \subseteq scenario
    BY <2>1, NextInQueue DEF CacheTypeOK, TaskAtWork
  <2>3. queue' = queue \ {Next1} /\ UNCHANGED <<disk, pass, forced, scenario, sizes, counted, completed>>
    BY <1>6 DEF CheckTask
  <2> DEFINE cached == disk[PathOf[Next1]] # None /\ ~forced /\ Validate(Next1) = "valid"
  <2>4. \/ /\ cached /\ at' = "next" /\ task' = task /\ claimed' = claimed \cup {Next1}
           /\ verdict' = [verdict EXCEPT ![Next1] = Validate(Next1)]
        \/ /\ ~cached /\ claimed' = claimed /\ task' = Next1
           /\ at' = IF pass = "run" THEN "fetch" ELSE "size"
    BY <1>6, <2>1 DEF CheckTask
  <2>5. verdict' = verdict \/ verdict' = [verdict EXCEPT ![Next1] = Validate(Next1)]
    BY <1>6 DEF CheckTask
  <2>6. \A t \in Task : Trusted(t) => Trusted(t)'
    BY <2>2, <2>3, <2>5 DEF Trusted, Validate, CacheTypeOK
  <2>7. Trusted(Next1) => cached
    <3>1. verdict[Next1] = "valid" => disk[PathOf[Next1]] # None
      <4>1. UrlOf[Next1] \in Url
        BY <2>2, TaskFacts
      <4>2. Obtained(Next1) \subseteq FileContent
        BY <4>1 DEF Obtained, WholeFile, ShortFile, FileContent
      <4> QED
        BY <2>2, <4>2, CacheAssumption DEF VerdictsHold
    <3> QED
      BY <3>1 DEF Trusted, Validate
  <2>8. cached => at' = "next" /\ \A t \in Task : t = Next1 => Trusted(t)'
    BY <2>2, <2>3, <2>4 DEF Trusted, CacheTypeOK
  <2>9. \A t \in Task : Dealt(t) => Dealt(t)'
    BY <2>3, <2>6 DEF Dealt
  <2>10. PlanIsRight' <=> PlanIsRight
    BY <2>3 DEF PlanIsRight, Alone
  <2> HIDE DEF cached
  <2>11. scenario \subseteq Task
    BY DEF CacheTypeOK
  <2>12. pass = "sizing" => \A t \in scenario : t \in queue' \/ (t = task' /\ at' = "size") \/ Dealt(t)'
    <3> SUFFICES ASSUME pass = "sizing", NEW t \in scenario
                 PROVE  t \in queue' \/ (t = task' /\ at' = "size") \/ Dealt(t)'
      OBVIOUS
    <3>1. CASE t = Next1
      <4>1. cached => Dealt(t)'
        BY <2>8, <2>11, <3>1 DEF Dealt
      <4> QED
        BY <2>4, <3>1, <4>1
    <3>2. CASE t # Next1
      <4>1. t \in queue \/ Dealt(t)
        BY <2>1 DEF PlanCovers
      <4> QED
        BY <2>3, <2>9, <2>11, <3>2, <4>1
    <3> QED
      BY <3>1, <3>2
  <2>13. pass = "run" /\ PlanIsRight => \A t \in queue' : Dealt(t)'
    BY <2>2, <2>3, <2>9, <2>11 DEF PlanCovers
  <2>14. pass = "run" /\ PlanIsRight /\ at' \in Working => sizes[UrlOf[task']] # 0
    <3> SUFFICES ASSUME pass = "run", PlanIsRight, at' \in Working PROVE sizes[UrlOf[task']] # 0
      OBVIOUS
    <3>1. ~cached /\ task' = Next1
      BY <2>4 DEF Working
    <3>2. Dealt(Next1)
      BY <2>2 DEF PlanCovers
    <3> QED
      BY <2>7, <3>1, <3>2 DEF Dealt
  <2>15. pass = "run" => \A p \in completed : \E t \in claimed' \ {task'} : PathOf[t] = p
    <3> SUFFICES ASSUME pass = "run", NEW p \in completed PROVE \E t \in claimed' \ {task'} : PathOf[t] = p
      OBVIOUS
    <3>1. PICK t \in claimed \ {task} : PathOf[t] = p
      BY DEF PlanCovers
    <3>2. t # Next1
      BY <2>2 DEF ClaimsFit
    <3> QED
      BY <2>4, <3>1, <3>2
  <2>16. at' \in {"next", "size", "fetch"}
    BY <2>4
  <2> QED
    BY <2>3, <2>10, <2>12, <2>13, <2>14, <2>15, <2>16 DEF PlanCovers
<1>7. CASE SizeTask
  <2>1. /\ pass \in {"collect", "sizing"} /\ at = "size" /\ task \in scenario /\ UrlOf[task] \in Url /\ task # 0
        /\ UNCHANGED <<scenario, completed, verdict, forced>>
    BY <1>7, SizeTaskFacts, TaskFacts, CacheAssumption DEF Task
  <2>2. CASE /\ sizes' = [sizes EXCEPT ![UrlOf[task]] = task]
             /\ at' = "next" /\ UNCHANGED <<pass, queue>>
    <3>1. sizes'[UrlOf[task]] = task
      BY <2>1, <2>2 DEF CacheTypeOK
    <3>2. \A u \in Url : sizes[u] # 0 => sizes'[u] # 0
      BY <2>1, <2>2 DEF CacheTypeOK
    <3>3. \A t \in scenario : UrlOf[t] \in Url
      BY TaskFacts DEF CacheTypeOK
    <3>4. \A t \in scenario : Dealt(t) => Dealt(t)'
      BY <2>1, <3>2, <3>3 DEF Dealt, Trusted
    <3>5. \A t \in scenario : t = task => Dealt(t)'
      BY <2>1, <3>1 DEF Dealt
    <3> QED
      BY <2>1, <2>2, <3>4, <3>5 DEF PlanCovers
  <2>3. CASE pass' = "none"
    BY <2>3, <1>7 DEF PlanCovers
  <2> QED
    BY <1>7, <2>2, <2>3, SizeTaskFacts
<1>8. CASE BeginFetch
  <2>1. /\ pass = "run" /\ at \in Working /\ task \in scenario \ queue
        /\ UNCHANGED <<scenario, sizes, counted, completed, claimed>>
    BY <1>8 DEF BeginFetch, PlacesAgree, TaskAtWork, Working
  <2>2. CASE pass' = "none"
    BY <2>2 DEF PlanCovers
  <2>3. CASE UNCHANGED <<pass, forced, task, queue>> /\ at' \notin {"store", "storing", "done", "check"}
    <3>1. \A t \in Task : PathOf[t] # PathOf[task] => verdict'[t] = verdict[t]
      BY <1>8 DEF BeginFetch, Touch
    <3>2. PlanIsRight => \A t \in queue : PathOf[t] # PathOf[task]
      BY <2>1 DEF PlanIsRight, Alone, TaskAtWork
    <3>3. queue \subseteq Task
      BY DEF CacheTypeOK
    <3>4. PlanIsRight => \A t \in queue : Dealt(t)'
      BY <2>1, <2>3, <3>1, <3>2, <3>3 DEF Dealt, Trusted, PlanCovers
    <3>5. PlanIsRight' <=> PlanIsRight
      BY <2>1 DEF PlanIsRight, Alone
    <3> QED
      BY <2>1, <2>3, <3>4, <3>5 DEF PlanCovers
  <2> QED
    BY <1>8, <2>2, <2>3 DEF BeginFetch, Fail
<1>9. CASE EndFetch
  <2>1. /\ pass = "run" /\ at \in Working /\ task \in scenario \ queue
        /\ UNCHANGED <<scenario, sizes, counted, completed, claimed>>
    BY <1>9 DEF EndFetch, Delivered, PlacesAgree, TaskAtWork, Working
  <2>2. CASE pass' = "none"
    BY <2>2 DEF PlanCovers
  <2>3. CASE UNCHANGED <<pass, forced, task, queue>> /\ at' \notin {"store", "storing", "done", "check"}
    <3>1. \A t \in Task : PathOf[t] # PathOf[task] => verdict'[t] = verdict[t]
      BY <1>9 DEF EndFetch, Delivered, Touch
    <3>2. PlanIsRight => \A t \in queue : PathOf[t] # PathOf[task]
      BY <2>1 DEF PlanIsRight, Alone, TaskAtWork
    <3>3. queue \subseteq Task
      BY DEF CacheTypeOK
    <3>4. PlanIsRight => \A t \in queue : Dealt(t)'
      BY <2>1, <2>3, <3>1, <3>2, <3>3 DEF Dealt, Trusted, PlanCovers
    <3>5. PlanIsRight' <=> PlanIsRight
      BY <2>1 DEF PlanIsRight, Alone
    <3> QED
      BY <2>1, <2>3, <3>4, <3>5 DEF PlanCovers
  <2> QED
    BY <1>9, <2>2, <2>3 DEF EndFetch, Delivered, Fail
<1>10. CASE Replace
  <2>1. /\ pass = "run" /\ at \in Working /\ task \in scenario \ queue
        /\ UNCHANGED <<scenario, sizes, counted, completed, claimed>>
    BY <1>10 DEF Replace, PlacesAgree, TaskAtWork, Working
  <2>2. CASE pass' = "none"
    BY <2>2 DEF PlanCovers
  <2>3. CASE UNCHANGED <<pass, forced, task, queue>> /\ at' \notin {"store", "storing", "done", "check"}
    <3>1. \A t \in Task : PathOf[t] # PathOf[task] => verdict'[t] = verdict[t]
      BY <1>10 DEF Replace, Touch
    <3>2. PlanIsRight => \A t \in queue : PathOf[t] # PathOf[task]
      BY <2>1 DEF PlanIsRight, Alone, TaskAtWork
    <3>3. queue \subseteq Task
      BY DEF CacheTypeOK
    <3>4. PlanIsRight => \A t \in queue : Dealt(t)'
      BY <2>1, <2>3, <3>1, <3>2, <3>3 DEF Dealt, Trusted, PlanCovers
    <3>5. PlanIsRight' <=> PlanIsRight
      BY <2>1 DEF PlanIsRight, Alone
    <3> QED
      BY <2>1, <2>3, <3>4, <3>5 DEF PlanCovers
  <2> QED
    BY <1>10, <2>2, <2>3 DEF Replace, Fail
<1>11. CASE Record
  BY <1>11, NextInQueue, TaskFacts DEF Record, PlanCovers, Evict, PlacesAgree,
     TaskAtWork, Working, Dealt, Trusted, PlanIsRight, Alone
<1>12. CASE OpenCacheFile
  BY <1>12, NextInQueue, TaskFacts DEF OpenCacheFile, EndStore, PlanCovers, Truncate, PlacesAgree,
     TaskAtWork, Working, Dealt, Trusted, PlanIsRight, Alone
<1>13. CASE WriteCacheFile
  BY <1>13, NextInQueue, TaskFacts DEF WriteCacheFile, EndStore, PlanCovers, PlacesAgree,
     TaskAtWork, Working, Dealt, Trusted, PlanIsRight, Alone
<1>14. CASE AfterTask
  <2>1. /\ pass = "run" /\ at = "done" /\ task \in scenario \ queue /\ task \in claimed
        /\ UNCHANGED <<scenario, sizes, counted, claimed, verdict, forced>>
        /\ completed' = completed \cup {PathOf[task]}
    BY <1>14 DEF AfterTask, PlacesAgree, TaskAtWork, Working, Continue, PlanCovers
  <2>2. CASE pass' = "none"
    BY <2>2 DEF PlanCovers
  <2>3. CASE at' = "next" /\ task' = 0 /\ UNCHANGED <<pass, queue>>
    <3>1. PlanIsRight' <=> PlanIsRight
      BY <2>1 DEF PlanIsRight, Alone
    <3>2. 0 \notin claimed
      BY CacheAssumption DEF CacheTypeOK, Task
    <3>3. \A p \in completed' : \E t \in claimed' \ {task'} : PathOf[t] = p
      BY <2>1, <2>3, <3>2 DEF PlanCovers
    <3>4. PlanIsRight => \A t \in queue' : Dealt(t)'
      BY <2>1, <2>3 DEF PlanCovers, Dealt, Trusted
    <3> QED
      BY <2>1, <2>3, <3>1, <3>3, <3>4 DEF PlanCovers, Working
  <2> QED
    BY <1>14, <2>2, <2>3 DEF AfterTask, Continue
<1>15. CASE ClearEntry
  BY <1>15, NextInQueue, TaskFacts DEF ClearEntry, PlanCovers, Touch, PlacesAgree,
     TaskAtWork, Working, Dealt, Trusted, PlanIsRight, Alone
<1>16. CASE StoreCleared
  BY <1>16, NextInQueue, TaskFacts DEF StoreCleared, PlanCovers, PlacesAgree, TaskAtWork,
     Working, Dealt, Trusted, PlanIsRight, Alone
<1>17. CASE Crash
  BY <1>17, NextInQueue, TaskFacts DEF Crash, PlanCovers, PlacesAgree, TaskAtWork,
     Working, Dealt, Trusted, PlanIsRight, Alone
<1>18. CASE Disturb
  BY <1>18, NextInQueue, TaskFacts DEF Disturb, PlanCovers, Touch, PlacesAgree,
     TaskAtWork, Working, Dealt, Trusted, PlanIsRight, Alone
<1>19. CASE TakeSpace
  BY <1>19, NextInQueue, TaskFacts DEF TakeSpace, PlanCovers, PlacesAgree, TaskAtWork,
     Working, Dealt, Trusted, PlanIsRight, Alone
<1>20. CASE UNCHANGED cacheVars
  BY <1>20 DEF PlanCovers, PlacesAgree, TaskAtWork, Working, Dealt, Trusted, PlanIsRight,
     Alone
<1> QED
  BY <1>1, <1>2, <1>3, <1>4, <1>5, <1>6, <1>7, <1>8, <1>9, <1>10, <1>11, <1>12, <1>13,
     <1>14, <1>15, <1>16, <1>17, <1>18, <1>19, <1>20 DEF CacheNext, Step

\* Right sizes: the plan has every file that was sized.
LEMMA PlanFacts ==
  ASSUME CacheTypeOK, SizesFit, PlanIsRight
  PROVE  /\ \A t \in Planned : t \in scenario /\ t \in Task /\ counted[UrlOf[t]] = Size[t]
         /\ \A t \in scenario : sizes[UrlOf[t]] # 0 => t \in Planned
<1>0. 0 \notin Task /\ scenario \subseteq Task
  BY CacheAssumption DEF Task, CacheTypeOK
<1>1. ASSUME NEW t \in scenario, sizes[UrlOf[t]] # 0
      PROVE  sizes[UrlOf[t]] = t
  BY <1>0, <1>1, TaskFacts DEF SizesFit, PlanIsRight, Alone
<1>2. ASSUME NEW t \in Planned
      PROVE  t \in scenario /\ t \in Task /\ counted[UrlOf[t]] = Size[t]
  <2>1. t \in Task /\ sizes[UrlOf[t]] = t
    BY DEF Planned
  <2>2. t \in scenario
    BY <1>0, <2>1, TaskFacts DEF SizesFit
  <2> QED
    BY <1>0, <2>1, <2>2 DEF PlanIsRight
<1>3. ASSUME NEW t \in scenario, sizes[UrlOf[t]] # 0
      PROVE  t \in Planned
  <2>1. sizes[UrlOf[t]] = t /\ counted[UrlOf[t]] = Size[t] /\ Size[t] > 0 /\ t \in Task
    BY <1>0, <1>1, <1>3, TaskSizes DEF PlanIsRight
  <2>2. ASSUME NEW v \in Url, v < UrlOf[t], counted[v] > 0
        PROVE  PathOf[sizes[v]] # PathOf[t]
    <3>1. sizes[v] \in scenario /\ UrlOf[sizes[v]] = v
      BY <2>2 DEF SizesFit
    <3>2. v # UrlOf[t]
      BY <2>1, <2>2, CacheAssumption
    <3> QED
      BY <3>1, <3>2 DEF PlanIsRight, Alone
  <2> QED
    BY <2>1, <2>2 DEF Planned
<1> QED
  BY <1>2, <1>3

\* The sizes the plan has are numbers,
LEMMA CountedTyped ==
  ASSUME CacheTypeOK
  PROVE  [t \in Task |-> counted[UrlOf[t]]] \in [Task -> Nat]
BY TaskFacts DEF CacheTypeOK

\* and so is what is left of it.
LEMMA LeftTyped ==
  ASSUME CacheTypeOK, NEW finished
  PROVE  BytesLeft(finished) \in Nat
BY CountedTyped, SumTyped DEF BytesLeft

\* The largest planned file is one of them, or none is planned.
LEMMA LargestFacts ==
  ASSUME CacheTypeOK
  PROVE  Largest \in Nat /\ \A t \in Planned : counted[UrlOf[t]] <= Largest
<1> DEFINE Bytes == {0} \cup {counted[UrlOf[t]] : t \in Planned}
           S == {k \in 0 .. N : \E bytes \in Bytes :
                                  \A t \in Planned : t <= k => counted[UrlOf[t]] <= bytes}
<1>0. N \in Nat /\ Planned \subseteq 1 .. N
  BY CacheAssumption DEF Planned, Task
<1>1. Bytes \subseteq Nat
  <2>1. \A t \in Planned : counted[UrlOf[t]] \in Nat
    BY TaskFacts DEF CacheTypeOK, Planned
  <2> QED
    BY <2>1
<1>2. 0 \in S
  <2>1. \A t \in Planned : ~(t <= 0)
    BY <1>0
  <2> QED
    BY <1>0, <2>1
<1>3. ASSUME NEW k \in 0 .. N - 1, k \in S PROVE k + 1 \in S
  <2>1. PICK bytes \in Bytes : \A t \in Planned : t <= k => counted[UrlOf[t]] <= bytes
    BY <1>3
  <2>2. k + 1 \in 0 .. N /\ \A t \in Planned : t <= k + 1 => t <= k \/ t = k + 1
    BY <1>0
  <2>3. CASE k + 1 \in Planned /\ ~(counted[UrlOf[k + 1]] <= bytes)
    <3>1. counted[UrlOf[k + 1]] \in Bytes
      BY <2>3
    <3>2. \A t \in Planned : t <= k + 1 => counted[UrlOf[t]] <= counted[UrlOf[k + 1]]
      <4>1. \A t \in Planned : counted[UrlOf[t]] \in Nat
        BY <1>1
      <4>2. bytes \in Nat
        BY <1>1
      <4> HIDE DEF Bytes, S
      <4> QED
        BY <2>1, <2>2, <2>3, <4>1, <4>2
    <3> QED
      BY <2>2, <3>1, <3>2
  <2>4. CASE ~(k + 1 \in Planned /\ ~(counted[UrlOf[k + 1]] <= bytes))
    <3>1. \A t \in Planned : t <= k + 1 => counted[UrlOf[t]] <= bytes
      BY <2>1, <2>2, <2>4
    <3> QED
      BY <2>2, <3>1
  <2> QED
    BY <2>3, <2>4
<1>4. \A k \in 0 .. N : k \in S
  <2> HIDE DEF S
  <2> QED
    BY <1>0, <1>2, <1>3, Induction
<1>5. PICK bytes \in Bytes : \A t \in Planned : counted[UrlOf[t]] <= bytes
  <2>1. N \in S
    BY <1>0, <1>4
  <2>2. \A t \in Planned : t <= N
    BY <1>0
  <2> QED
    BY <2>1, <2>2
<1>6. Largest \in Bytes /\ \A t \in Planned : counted[UrlOf[t]] <= Largest
  BY <1>5 DEF Largest
<1> QED
  BY <1>1, <1>6

\* A planned file is taken off the plan.
LEMMA LeftWithout ==
  ASSUME CacheTypeOK, SizesFit, PlanIsRight, NEW t \in Planned, NEW finished, PathOf[t] \notin finished
  PROVE  BytesLeft(finished) = BytesLeft(finished \cup {PathOf[t]}) + Size[t]
<1> DEFINE set == {s \in Planned : PathOf[s] \notin finished}
           f == [s \in Task |-> counted[UrlOf[s]]]
<1>1. t \in set /\ t \in Task /\ f[t] = Size[t]
  BY PlanFacts
<1>2. \A s \in Planned \ {t} : PathOf[s] # PathOf[t]
  BY PlanFacts DEF PlanIsRight, Alone
<1>3. {s \in Planned : PathOf[s] \notin finished \cup {PathOf[t]}} = set \ {t}
  BY <1>2
<1>4. f \in [Task -> Nat]
  BY CountedTyped
<1>5. BytesLeft(finished) = SumOver(set, f)
  BY DEF BytesLeft
<1>6. BytesLeft(finished \cup {PathOf[t]}) = SumOver(set \ {t}, f)
  BY <1>3 DEF BytesLeft
<1> HIDE DEF set, f
<1>7. SumOver(set, f) = SumOver(set \ {t}, f) + f[t]
  BY <1>1, <1>4, SumWithout
<1> QED
  BY <1>1, <1>5, <1>6, <1>7

\* A step at one destination changes the used bytes by what it changes there.
LEMMA UsedChange ==
  ASSUME CacheTypeOK, CacheTypeOK', foreign' = foreign, NEW t \in Task,
         \A p \in Path \ {PathOf[t]} : disk'[p] = disk[p] /\ tmp'[p] = tmp[p]
  PROVE  /\ Used' + BytesAt(PathOf[t]) = Used + BytesAt(PathOf[t])'
         /\ Used' \in Nat /\ Used \in Nat /\ BytesAt(PathOf[t]) \in Nat /\ BytesAt(PathOf[t])' \in Nat
<1> DEFINE f == [s \in Task |-> BytesAt(PathOf[s])]
           g == [s \in Task |-> BytesAt(PathOf[s])']
<1>1. \A s \in Task : BytesAt(PathOf[s]) \in Nat
  BY UsedTyped
<1>2. \A s \in Task : BytesAt(PathOf[s])' \in Nat
  <2> SUFFICES ASSUME NEW s \in Task PROVE BytesAt(PathOf[s])' \in Nat
    OBVIOUS
  <2>1. PathOf[s] \in Path
    BY TaskFacts
  <2>2. tmp'[PathOf[s]] = 0 \/ tmp'[PathOf[s]] \in Task
    BY <2>1 DEF CacheTypeOK
  <2>3. disk'[PathOf[s]] = None \/ disk'[PathOf[s]].url \in Url
    BY <2>1 DEF CacheTypeOK, FileContent
  <2> QED
    BY <2>2, <2>3, TaskSizes, UrlFacts DEF BytesAt, TaskOfUrl
<1>3. PICK m \in {s \in Task : PathOf[s] = PathOf[t]} :
        \A s \in {s \in Task : PathOf[s] = PathOf[t]} : m <= s
  BY LeastOf
<1>4. m \in FirstAt /\ \A n \in FirstAt : n # m => PathOf[n] # PathOf[t]
  <2>1. Task \subseteq Nat /\ \A s \in Task : 1 .. s - 1 \subseteq Task
    BY CacheAssumption DEF Task
  <2>2. m \in Task /\ PathOf[m] = PathOf[t] /\ m \in Nat
    BY <1>3, <2>1
  <2>3. ASSUME NEW s \in 1 .. m - 1 PROVE PathOf[s] # PathOf[m]
    <3>1. s \in Task /\ ~(m <= s)
      BY <2>1, <2>2
    <3> QED
      BY <1>3, <2>2, <3>1
  <2>4. ASSUME NEW n \in FirstAt, n # m, PathOf[n] = PathOf[t] PROVE FALSE
    <3>1. n \in Task /\ n \in Nat /\ \A s \in 1 .. n - 1 : PathOf[s] # PathOf[n]
      BY <2>1 DEF FirstAt
    <3>2. m <= n
      BY <1>3, <2>4, <3>1
    <3>3. 1 <= m
      BY <2>2 DEF Task
    <3>4. m \in 1 .. n - 1
      BY <2>2, <2>4, <3>1, <3>2, <3>3
    <3> QED
      BY <2>2, <2>4, <3>1, <3>4
  <2> QED
    BY <2>2, <2>3, <2>4 DEF FirstAt
<1>5. \A n \in Task : PathOf[n] # PathOf[t] => f[n] = g[n]
  BY TaskFacts DEF BytesAt
<1>6. f \in [Task -> Nat] /\ g \in [Task -> Nat]
  BY <1>1, <1>2
<1>7. f[m] = BytesAt(PathOf[t]) /\ g[m] = BytesAt(PathOf[t])'
  BY <1>3
<1>8. Used = SumOver(FirstAt, f) + foreign /\ Used' = SumOver(FirstAt, g) + foreign
  BY DEF Used
<1> HIDE DEF f, g
<1>9. \A n \in Task \ {m} : Part(FirstAt, f, n) = Part(FirstAt, g, n)
  BY <1>4, <1>5 DEF Part
<1>10. SumOver(FirstAt, f) + Part(FirstAt, g, m) = SumOver(FirstAt, g) + Part(FirstAt, f, m)
  BY <1>6, <1>9, SumChange
<1>11. Part(FirstAt, g, m) = g[m] /\ Part(FirstAt, f, m) = f[m]
  BY <1>4 DEF Part
<1>12. SumOver(FirstAt, f) \in Nat /\ SumOver(FirstAt, g) \in Nat /\ foreign \in Nat
  BY <1>6, SumTyped DEF CacheTypeOK
<1>13. f[m] \in Nat /\ g[m] \in Nat
  BY <1>6
<1>14. BytesAt(PathOf[t]) \in Nat /\ BytesAt(PathOf[t])' \in Nat
  BY <1>1, <1>2
<1> QED
  BY <1>7, <1>8, <1>10, <1>11, <1>12, <1>13, <1>14

\* What a run fetches was planned, and is still on the plan.
LEMMA FetchedIsPlanned ==
  ASSUME PassInv, SizesFit, PlanCovers, PlanIsRight, pass = "run",
         NEW t \in scenario, sizes[UrlOf[t]] # 0, t \notin claimed \ {task}
  PROVE  t \in Planned /\ t \in Task /\ PathOf[t] \notin completed
<1>1. t \in Planned /\ t \in Task
  BY PlanFacts DEF PassInv, CacheTypeOK
<1>2. ASSUME PathOf[t] \in completed PROVE FALSE
  <2>1. PICK s \in claimed \ {task} : PathOf[s] = PathOf[t]
    BY <1>2 DEF PlanCovers
  <2>2. s \in scenario /\ s # t
    BY <2>1 DEF PassInv, ClaimsFit
  <2> QED
    BY <2>1, <2>2 DEF PlanIsRight, Alone
<1> QED
  BY <1>1, <1>2

\* The space a fetch has, before and while its bytes are written.
LEMMA FetchSpace ==
  ASSUME PassInv, SizesFit, PlanCovers, SpaceIsLeft, foreign = 0, PlanIsRight, pass = "run", at \in Working
  PROVE  /\ task \in Planned /\ task \in Task /\ PathOf[task] \notin completed
         /\ BytesLeft(completed) \in Nat /\ Used \in Nat /\ Largest \in Nat
         /\ BytesLeft(completed) = BytesLeft(completed \cup {PathOf[task]}) + Size[task]
         /\ BytesLeft(completed \cup {PathOf[task]}) \in Nat
         /\ Size[task] \div 2 <= Largest \div 2 /\ Largest \div 2 \in Nat
         /\ Size[task] \in Nat /\ Size[task] \div 2 \in Nat
         /\ Used + BytesLeft(completed) + Largest \div 2 <= Capacity + Fetched
<1>0. CacheTypeOK
  BY DEF PassInv
<1>1. task \in scenario
  BY DEF PassInv, TaskAtWork
<1>2. task \in Planned /\ task \in Task /\ PathOf[task] \notin completed
  <2>1. sizes[UrlOf[task]] # 0 /\ task \notin claimed \ {task}
    BY DEF PlanCovers
  <2> QED
    BY <1>1, <2>1, FetchedIsPlanned
<1>3. BytesLeft(completed) \in Nat /\ Used \in Nat /\ BytesLeft(completed \cup {PathOf[task]}) \in Nat
  BY <1>0, LeftTyped, UsedTyped
<1>4. BytesLeft(completed) = BytesLeft(completed \cup {PathOf[task]}) + Size[task]
  BY <1>0, <1>2, LeftWithout
<1>5. Largest \in Nat /\ Size[task] <= Largest /\ Size[task] \in Nat
  BY <1>0, <1>2, LargestFacts, PlanFacts, TaskSizes
<1>6. Size[task] \div 2 <= Largest \div 2 /\ Largest \div 2 \in Nat /\ Size[task] \div 2 \in Nat
  BY <1>5
<1>7. Used + BytesLeft(completed) + Largest \div 2 <= Capacity + Fetched
  BY DEF SpaceIsLeft
<1> QED
  BY <1>2, <1>3, <1>4, <1>5, <1>6, <1>7

\* The check for space passes in a run whose plan is right.
LEMMA CheckPasses ==
  ASSUME CacheTypeOK, NEW finished, NEW used \in Nat, used + BytesLeft(finished) + Largest \div 2 <= Capacity
  PROVE  HasEnoughSpace(finished, IF used > Capacity THEN 0 ELSE Capacity - used)
<1>1. BytesLeft(finished) \in Nat /\ Largest \div 2 \in Nat /\ Capacity \in Nat
  BY LeftTyped, LargestFacts, CacheAssumption
<1> QED
  BY <1>1 DEF HasEnoughSpace

\* and says so when it passes.
LEMMA CheckMeans ==
  ASSUME CacheTypeOK, NEW finished, HasEnoughSpace(finished, Available), BytesLeft(finished) # 0
  PROVE  Used + BytesLeft(finished) + Largest \div 2 <= Capacity
<1>1. BytesLeft(finished) \in Nat /\ Largest \div 2 \in Nat /\ Capacity \in Nat /\ Used \in Nat
  BY LeftTyped, LargestFacts, UsedTyped, CacheAssumption
<1> QED
  BY <1>1 DEF HasEnoughSpace, Available

\* No step but a sweep and the death of the process changes the plan of a run.
LEMMA PlanStays ==
  ASSUME UNCHANGED <<scenario, sizes, counted>>
  PROVE  /\ PlanIsRight' <=> PlanIsRight
         /\ Largest' = Largest
         /\ BytesLeft(completed)' = BytesLeft(completed')
<1>1. PlanIsRight' <=> PlanIsRight
  BY DEF PlanIsRight, Alone
<1>2. Planned' = Planned
  BY DEF Planned
<1>3. Largest' = Largest
  BY <1>2, Zenon DEF Largest
<1>4. BytesLeft(completed)' = BytesLeft(completed')
  BY <1>2 DEF BytesLeft
<1> QED
  BY <1>1, <1>3, <1>4

\* What a transfer delivers has the size of its URL's file, and so has half of it.
LEMMA DeliveredSize ==
  ASSUME NEW t \in Task, NEW c \in Obtained(t) \cup {Damaged(WholeFile(t))}
  PROVE  c \in FileContent /\ c # None /\ c.url = UrlOf[t] /\ Size[TaskOfUrl(c.url)] = Size[t]
<1>1. UrlOf[t] \in Url
  BY TaskFacts
<1>2. c \in {[url |-> UrlOf[t], held |-> h] : h \in {"all", "most", "some"}}
  BY DEF Damaged, WholeFile, ShortFile, Obtained
<1>3. c \in FileContent /\ c.url = UrlOf[t]
  BY <1>1, <1>2 DEF FileContent
<1>4. TaskOfUrl(UrlOf[t]) \in Task /\ UrlOf[TaskOfUrl(UrlOf[t])] = UrlOf[t]
  BY <1>1, UrlFacts
<1>5. Size[TaskOfUrl(UrlOf[t])] = Size[t]
  BY <1>4, TaskSizes, CacheAssumption
<1> QED
  BY <1>3, <1>5, CacheAssumption

\* The used bytes are those of the files.
LEMMA UsedStays ==
  ASSUME UNCHANGED <<disk, tmp, foreign>>
  PROVE  Used' = Used
BY DEF Used, BytesAt, TaskOfUrl

\* Every step preserves SpaceIsLeft: what a file takes on the volume, the plan gives
\* back.
LEMMA SpaceStep ==
  ASSUME PassInv, DeliverInv, [CacheNext]_cacheVars
  PROVE  SpaceIsLeft'
<1> USE DEF DeliverInv
<1> SUFFICES ASSUME foreign' = 0, PlanIsRight', pass' = "run", at' \in Working \/ BytesLeft(completed)' # 0
             PROVE  Used' + BytesLeft(completed)' + Largest' \div 2 <= Capacity + Fetched'
  BY DEF SpaceIsLeft
<1>0. CacheTypeOK /\ CacheTypeOK'
  BY CacheTypeStep DEF PassInv
<1>1. CASE pass # "run"
  <2>1. /\ pass = "sizing" /\ HasEnoughSpace({}, Available)
        /\ at' = "next" /\ UNCHANGED <<disk, tmp, foreign, scenario, sizes, counted, completed>>
    BY <1>1 DEF CacheNext, Step, cacheVars, Start, BeginSweep, BeginClear, BeginRun,
       FinishPass, CheckTask,
       SizeTask, BeginFetch, EndFetch, Replace, Record, OpenCacheFile, WriteCacheFile, EndStore, AfterTask,
       ClearEntry, StoreCleared, Crash, Disturb, TakeSpace, Construct, EndPass, GoTo, Mishap, Fail, Continue,
       control, Quiet, files, plan, world
  <2>2. completed = {} /\ Fetched' = 0
    BY <2>1 DEF PlanCovers, Fetched, Working
  <2>3. BytesLeft(completed)' = BytesLeft({}) /\ Largest' = Largest /\ Used' = Used
    BY <2>1, <2>2, PlanStays, UsedStays
  <2>4. BytesLeft({}) # 0
    BY <2>1, <2>3 DEF Working
  <2>5. Used + BytesLeft({}) + Largest \div 2 <= Capacity
    BY <1>0, <2>1, <2>4, CheckMeans
  <2> QED
    BY <2>2, <2>3, <2>5, CacheAssumption
<1>2. CASE pass = "run"
  <2>0. UNCHANGED <<scenario, sizes, counted>> /\ foreign = 0
    <3>1. UNCHANGED <<scenario, sizes, counted>>
      BY <1>2 DEF CacheNext, Step, cacheVars, Start, BeginSweep, BeginClear, BeginRun,
         FinishPass, CheckTask,
       SizeTask, BeginFetch, EndFetch, Replace, Record, OpenCacheFile, WriteCacheFile, EndStore, AfterTask,
       ClearEntry, StoreCleared, Crash, Disturb, TakeSpace,
       plan, PassInv, PlacesAgree
    <3>2. foreign' = foreign \/ TakeSpace
      BY DEF CacheNext, Step, cacheVars, Start, BeginSweep, BeginClear, BeginRun,
         FinishPass, CheckTask,
       SizeTask, BeginFetch, EndFetch, Replace, Record, OpenCacheFile, WriteCacheFile, EndStore, AfterTask,
       ClearEntry, StoreCleared, Crash, Disturb, Quiet, world
    <3>3. ~TakeSpace
      <4>1. foreign \in Nat /\ Available \in Nat
        BY <1>0, UsedTyped, CacheAssumption DEF Available, CacheTypeOK
      <4> QED
        BY <4>1 DEF TakeSpace
    <3> QED
      BY <3>1, <3>2, <3>3
  <2>1. PlanIsRight /\ Largest' = Largest /\ BytesLeft(completed)' = BytesLeft(completed')
    BY <2>0, PlanStays
  <2>2. Capacity \in Nat
    BY CacheAssumption
  <2>3. CASE UNCHANGED <<disk, tmp, task, completed>> /\ (at' = at \/ (at' \in Working \ {"fetch"} /\ at \in Working \ {"fetch"}))
    <3>1. Used' = Used /\ BytesLeft(completed)' = BytesLeft(completed)
      BY <1>2, <2>0, <2>1, <2>3, UsedStays
    <3>2. Fetched' = Fetched
      BY <2>3 DEF Fetched
    <3>3. Used + BytesLeft(completed) + Largest \div 2 <= Capacity + Fetched
      BY <1>2, <2>0, <2>1, <2>3, <3>1 DEF SpaceIsLeft
    <3> QED
      BY <2>1, <3>1, <3>2, <3>3
  <2>4. CASE CheckTask
    <3>1. /\ UNCHANGED <<disk, tmp, completed, foreign>> /\ at = "next"
          /\ at' = "next" \/ (at' = "fetch" /\ task' = Next1)
      BY <1>2, <2>0, <2>4 DEF CheckTask, plan, files
    <3>2. Used' = Used /\ BytesLeft(completed)' = BytesLeft(completed) /\ Fetched' = 0
      BY <2>1, <3>1, UsedStays DEF Fetched, Working
    <3>3. BytesLeft(completed) # 0
      <4>1. CASE at' = "fetch" /\ task' = Next1
        <5>1. Next1 \in queue
          BY <1>0, <2>4, NextInQueue DEF CheckTask
        <5>2. Next1 \in scenario /\ Next1 \notin claimed \ {task}
          BY <1>2, <5>1 DEF PassInv, TaskAtWork, ClaimsFit
        <5>3. sizes'[UrlOf[task']] # 0
          BY <2>1, <4>1, CoversStep DEF PlanCovers, Working
        <5>4. Next1 \in Planned /\ Next1 \in Task /\ PathOf[Next1] \notin completed
          BY <1>2, <2>0, <2>1, <4>1, <5>2, <5>3, FetchedIsPlanned
        <5>5. BytesLeft(completed) = BytesLeft(completed \cup {PathOf[Next1]}) + Size[Next1]
          BY <1>0, <2>1, <5>4, LeftWithout
        <5>6. BytesLeft(completed \cup {PathOf[Next1]}) \in Nat /\ Size[Next1] \in Nat /\ Size[Next1] > 0
          BY <1>0, <5>4, LeftTyped, TaskSizes
        <5> QED
          BY <5>5, <5>6
      <4>2. CASE at' = "next"
        BY <3>2, <4>2 DEF Working
      <4> QED
        BY <3>1, <4>1, <4>2
    <3>4. Used + BytesLeft(completed) + Largest \div 2 <= Capacity + Fetched
      BY <1>2, <2>0, <2>1, <3>3 DEF SpaceIsLeft
    <3>5. Fetched = 0
      BY <3>1 DEF Fetched, Working
    <3> QED
      BY <2>1, <2>2, <3>2, <3>4, <3>5
  <2>5. CASE BeginFetch
    <3>1. /\ at = "fetch" /\ at' \in {"fetching", "copying"} /\ UNCHANGED <<completed, task>>
      BY <1>2, <2>5 DEF BeginFetch, Fail, EndPass, GoTo, Mishap, plan
    <3>2. /\ task \in Task
          /\ BytesLeft(completed) \in Nat /\ Used \in Nat /\ Largest \in Nat
          /\ Size[task] \in Nat
          /\ Used + BytesLeft(completed) + Largest \div 2 <= Capacity + Fetched
      BY <1>2, <2>0, <2>1, <3>1, FetchSpace DEF Working
    <3>3. Fetched = 0 /\ Fetched' = Size[task]
      BY <3>1 DEF Fetched, Working
    <3>4. PathOf[task] \in Path
      BY <3>2, TaskFacts
    <3>5. \/ UNCHANGED disk /\ tmp' = [tmp EXCEPT ![PathOf[task]] = task]
          \/ UNCHANGED tmp /\ disk' = [disk EXCEPT ![PathOf[task]] = Damaged(WholeFile(task))]
      BY <2>5, <3>1 DEF BeginFetch, Fail, EndPass, GoTo, Mishap
    <3> PICK t \in Task : t = task
      BY <3>2
    <3>6. /\ Used' + BytesAt(PathOf[t]) = Used + BytesAt(PathOf[t])'
          /\ Used' \in Nat /\ Used \in Nat /\ BytesAt(PathOf[t]) \in Nat /\ BytesAt(PathOf[t])' \in Nat
      <4>1. \A p \in Path \ {PathOf[t]} : disk'[p] = disk[p] /\ tmp'[p] = tmp[p]
        BY <1>0, <3>5 DEF CacheTypeOK
      <4> QED
        BY <1>0, <2>0, <4>1, UsedChange
    <3>7. BytesAt(PathOf[t])' <= BytesAt(PathOf[t]) + Size[t]
      <4>1. PICK p \in Path : p = PathOf[t]
        BY <3>4
      <4>2. (tmp[p] = 0 \/ tmp[p] \in Task) /\ 0 \notin Task
        BY <1>0, CacheAssumption DEF CacheTypeOK, Task
      <4>3. disk[p] = None \/ disk[p].url \in Url
        BY <1>0 DEF CacheTypeOK, FileContent
      <4> DEFINE d == IF disk[p] = None THEN 0 ELSE Size[TaskOfUrl(disk[p].url)]
                 m == IF tmp[p] = 0 THEN 0 ELSE Size[tmp[p]]
                 d2 == IF disk'[p] = None THEN 0 ELSE Size[TaskOfUrl(disk'[p].url)]
                 m2 == IF tmp'[p] = 0 THEN 0 ELSE Size[tmp'[p]]
      <4>4. d \in Nat /\ m \in Nat /\ Size[t] \in Nat
        BY <4>2, <4>3, TaskSizes, UrlFacts
      <4>5. CASE UNCHANGED disk /\ tmp' = [tmp EXCEPT ![PathOf[task]] = task]
        <5>1. d2 = d /\ m2 = Size[t]
          BY <1>0, <4>1, <4>2, <4>5 DEF CacheTypeOK
        <5> QED
          BY <4>1, <4>4, <5>1 DEF BytesAt
      <4>6. CASE UNCHANGED tmp /\ disk' = [disk EXCEPT ![PathOf[task]] = Damaged(WholeFile(task))]
        <5>1. m2 = m
          BY <4>6
        <5>2. disk'[p] = Damaged(WholeFile(t)) /\ Damaged(WholeFile(t)) # None
          BY <1>0, <4>1, <4>6, TaskFacts, CacheAssumption DEF CacheTypeOK
        <5>3. Damaged(WholeFile(t)).url = UrlOf[t]
          BY DEF Damaged, WholeFile, ShortFile, Obtained
        <5>4. Size[TaskOfUrl(UrlOf[t])] = Size[t]
          BY TaskFacts, UrlFacts, TaskSizes
        <5>5. d2 = Size[t]
          BY <5>2, <5>3, <5>4
        <5> QED
          BY <4>1, <4>4, <5>1, <5>5 DEF BytesAt
      <4> QED
        BY <3>5, <4>5, <4>6
        <3>8. Used' <= Used + Size[task]
      BY <3>2, <3>6, <3>7
    <3> QED
      BY <2>1, <2>2, <3>1, <3>2, <3>3, <3>6, <3>8
  <2>6. CASE EndFetch
    <3>1. UNCHANGED <<completed, task, tmp>> /\ at \in {"fetching", "copying"}
          /\ at' \in {"rename", "renameShort", "record"}
      BY <1>2, <2>6 DEF EndFetch, Delivered, Fail, EndPass, GoTo, Mishap, plan
    <3>2. CASE disk' = disk
      BY <2>3, <3>1, <3>2 DEF Working
    <3>3. CASE at = "copying" /\ \E c \in Obtained(task) : disk' = [disk EXCEPT ![PathOf[task]] = c]
      <4> PICK c \in Obtained(task) : disk' = [disk EXCEPT ![PathOf[task]] = c]
        BY <3>3
      <4>1. /\ task \in Task
            /\ BytesLeft(completed) \in Nat /\ Used \in Nat /\ Largest \in Nat
            /\ Used + BytesLeft(completed) + Largest \div 2 <= Capacity + Fetched
        BY <1>2, <2>0, <2>1, <3>1, FetchSpace DEF Working
      <4> PICK t \in Task : t = task
        BY <4>1
      <4>2. PathOf[t] \in Path /\ disk[PathOf[t]] = Damaged(WholeFile(t))
        BY <3>3, TaskFacts DEF PassInv, TaskAtWork
      <4>3. disk'[PathOf[t]] = c
        BY <1>0, <4>2 DEF CacheTypeOK
      <4>4. /\ Used' + BytesAt(PathOf[t]) = Used + BytesAt(PathOf[t])'
            /\ Used' \in Nat /\ Used \in Nat /\ BytesAt(PathOf[t]) \in Nat /\ BytesAt(PathOf[t])' \in Nat
        <5>1. \A p \in Path \ {PathOf[t]} : disk'[p] = disk[p] /\ tmp'[p] = tmp[p]
          BY <1>0, <3>1 DEF CacheTypeOK
        <5> QED
          BY <1>0, <2>0, <5>1, UsedChange
      <4>5. BytesAt(PathOf[t])' = BytesAt(PathOf[t])
        <5>0. c \in Obtained(t)
          BY <4>2
        <5>1. c # None /\ Size[TaskOfUrl(c.url)] = Size[t]
          BY <5>0, DeliveredSize
        <5> DEFINE d == Damaged(WholeFile(t))
        <5>2. d # None /\ Size[TaskOfUrl(d.url)] = Size[t]
          BY DeliveredSize
        <5>3. disk[PathOf[t]] = d
          BY <4>2
        <5> HIDE DEF d
        <5> QED
          BY <3>1, <4>3, <5>1, <5>2, <5>3 DEF BytesAt, TaskOfUrl
      <4>6. Fetched' = Fetched
        BY <3>1 DEF Fetched, Working
      <4>7. BytesLeft(completed)' = BytesLeft(completed)
        BY <2>1, <3>1
      <4> QED
        BY <2>1, <4>1, <4>4, <4>5, <4>6, <4>7
    <3> QED
      <4>1. disk' = disk \/ (at = "copying" /\ \E c \in Delivered : disk' = [disk EXCEPT ![PathOf[task]] = c])
        BY <2>6 DEF EndFetch
      <4> QED
        BY <3>2, <3>3, <4>1 DEF Delivered, Obtained
  <2>7. CASE Replace
    <3> PICK c \in Obtained(task) :
          /\ UNCHANGED <<completed, task>> /\ at \in {"rename", "renameShort"} /\ at' = "record"
          /\ disk' = [disk EXCEPT ![PathOf[task]] = c]
          /\ tmp' = [tmp EXCEPT ![PathOf[task]] = 0]
      BY <1>2, <2>7 DEF Replace, Fail, EndPass, GoTo, Mishap, plan, Obtained
    <3>1. /\ UNCHANGED <<completed, task>> /\ at \in {"rename", "renameShort"} /\ at' = "record"
          /\ disk' = [disk EXCEPT ![PathOf[task]] = c]
          /\ tmp' = [tmp EXCEPT ![PathOf[task]] = 0]
      OBVIOUS
    <3>2. /\ task \in Task
          /\ BytesLeft(completed) \in Nat /\ Used \in Nat /\ Largest \in Nat
          /\ Used + BytesLeft(completed) + Largest \div 2 <= Capacity + Fetched
      BY <1>2, <2>0, <2>1, <3>1, FetchSpace DEF Working
    <3> PICK t \in Task : t = task
      BY <3>2
    <3>3. PathOf[t] \in Path /\ tmp[PathOf[t]] = t /\ t # 0
      BY <3>1, TaskFacts, CacheAssumption DEF PassInv, TaskAtWork, Task
    <3>4. disk'[PathOf[t]] = c /\ tmp'[PathOf[t]] = 0
      BY <1>0, <3>1, <3>3 DEF CacheTypeOK
    <3>5. /\ Used' + BytesAt(PathOf[t]) = Used + BytesAt(PathOf[t])'
          /\ Used' \in Nat /\ Used \in Nat /\ BytesAt(PathOf[t]) \in Nat /\ BytesAt(PathOf[t])' \in Nat
      <4>1. \A p \in Path \ {PathOf[t]} : disk'[p] = disk[p] /\ tmp'[p] = tmp[p]
        BY <1>0, <3>1 DEF CacheTypeOK
      <4> QED
        BY <1>0, <2>0, <4>1, UsedChange
    <3>6. BytesAt(PathOf[t])' = Size[t]
      <4>0. c \in Obtained(t)
        BY <3>3
      <4>1. c # None /\ Size[TaskOfUrl(c.url)] = Size[t]
        BY <4>0, DeliveredSize
      <4>2. Size[t] \in Nat
        BY TaskSizes
      <4>3. BytesAt(PathOf[t])' = Size[TaskOfUrl(c.url)] + 0
        BY <3>4, <4>1, Zenon DEF BytesAt, TaskOfUrl
      <4> QED
        BY <4>1, <4>2, <4>3
    <3>7. Size[t] <= BytesAt(PathOf[t])
      <4>1. PICK p \in Path : p = PathOf[t]
        BY <3>3
      <4>2. disk[p] = None \/ disk[p].url \in Url
        BY <1>0 DEF CacheTypeOK, FileContent
      <4> DEFINE d == IF disk[p] = None THEN 0 ELSE Size[TaskOfUrl(disk[p].url)]
      <4>3. d \in Nat /\ Size[t] \in Nat
        BY <4>2, TaskSizes, UrlFacts
      <4>4. BytesAt(p) = d + Size[t]
        BY <3>3, <4>1 DEF BytesAt
      <4> HIDE DEF d
      <4> QED
        BY <4>1, <4>3, <4>4
    <3>8. Fetched' = Fetched /\ BytesLeft(completed)' = BytesLeft(completed)
      <4>1. BytesLeft(completed)' = BytesLeft(completed)
        BY <2>1, <3>1
      <4> QED
        BY <3>1, <4>1 DEF Fetched, Working
    <3>9. Used' <= Used
      BY <3>5, <3>6, <3>7, TaskSizes
    <3>10. Fetched \in Nat
      BY <3>1, <3>2, TaskSizes DEF Fetched, Working
    <3> QED
      BY <2>1, <2>2, <3>2, <3>5, <3>8, <3>9, <3>10
  <2>8. CASE AfterTask
    <3>1. /\ at = "done" /\ at' = "next" /\ completed' = completed \cup {PathOf[task]}
          /\ UNCHANGED <<disk, tmp, foreign>>
      BY <1>2, <2>0, <2>8 DEF AfterTask, Continue, EndPass, GoTo, Mishap, files
    <3>2. /\ BytesLeft(completed) = BytesLeft(completed \cup {PathOf[task]}) + Size[task]
          /\ BytesLeft(completed \cup {PathOf[task]}) \in Nat
          /\ Used \in Nat /\ Largest \in Nat /\ Size[task] \in Nat
          /\ Used + BytesLeft(completed) + Largest \div 2 <= Capacity + Fetched
      BY <1>2, <2>0, <2>1, <3>1, FetchSpace DEF Working
    <3>3. Fetched = Size[task] /\ Fetched' = 0
      BY <3>1 DEF Fetched, Working
    <3>4. Used' = Used /\ BytesLeft(completed)' = BytesLeft(completed \cup {PathOf[task]})
      BY <2>1, <3>1, UsedStays
    <3> QED
      BY <2>1, <2>2, <3>2, <3>3, <3>4
  <2>9. CASE Record \/ OpenCacheFile \/ WriteCacheFile
    <3>1. UNCHANGED <<disk, tmp, task, completed>> /\ at \in {"record", "store", "storing"} /\ at' \in {"store", "storing", "done"}
      BY <1>2, <2>9 DEF Record, OpenCacheFile, WriteCacheFile, EndStore, files, plan, EndPass, GoTo, Mishap
    <3> QED
      BY <2>3, <3>1 DEF Working
  <2>10. CASE UNCHANGED cacheVars
    BY <2>3, <2>10 DEF cacheVars, files, control, plan
  <2>11. CASE TakeSpace
    BY <2>3, <2>11 DEF TakeSpace, files, control, plan
  <2> QED
    BY <1>2, <2>4, <2>5, <2>6, <2>7, <2>8, <2>9, <2>10, <2>11
    DEF CacheNext, Step, Start, BeginSweep, BeginClear, BeginRun, FinishPass, SizeTask,
       ClearEntry, StoreCleared,
        Crash, Disturb, PassInv, PlacesAgree, EndPass, GoTo, Mishap
<1> QED
  BY <1>1, <1>2

\* Neither a transfer nor the check after it ends such a run for want of space.
LEMMA SpaceSufficesStep ==
  ASSUME PassInv, DeliverInv, [CacheNext]_cacheVars
  PROVE  CheckedSpaceSuffices'
<1> USE DEF DeliverInv
<1> SUFFICES ASSUME foreign' = 0, PlanIsRight', ending' \in {"full", "midspace"} PROVE FALSE
  BY DEF CheckedSpaceSuffices
<1>0. CacheTypeOK /\ foreign \in Nat
  BY DEF PassInv, CacheTypeOK
<1>1. CASE UNCHANGED <<ending, scenario, sizes, counted>>
  <2>1. PlanIsRight
    BY <1>1, PlanStays
  <2>2. foreign = 0
    <3>1. foreign' = foreign \/ TakeSpace
      BY DEF CacheNext, Step, cacheVars, Start, BeginSweep, BeginClear, BeginRun,
         FinishPass, CheckTask,
       SizeTask, BeginFetch, EndFetch, Replace, Record, OpenCacheFile, WriteCacheFile, EndStore, AfterTask,
       ClearEntry, StoreCleared, Crash, Disturb, Quiet, world
    <3>2. ~TakeSpace
      <4>1. foreign \in Nat /\ Available \in Nat
        BY <1>0, UsedTyped, CacheAssumption DEF Available, CacheTypeOK
      <4> QED
        BY <4>1 DEF TakeSpace
    <3> QED
      BY <3>1, <3>2
  <2> QED
    BY <1>1, <2>1, <2>2 DEF CheckedSpaceSuffices
<1>2. CASE EndFetch
  <2>1. /\ at \in {"fetching", "copying"} /\ pass = "run" /\ ending = "none"
        /\ UNCHANGED <<foreign, scenario, sizes, counted>>
    BY <1>2 DEF EndFetch, Delivered, PassInv, PlacesAgree, Working, Quiet, world, plan
  <2>2. PlanIsRight /\ foreign = 0
    BY <2>1, PlanStays
  <2>3. /\ task \in Planned /\ task \in Task
        /\ BytesLeft(completed) \in Nat /\ Used \in Nat
        /\ BytesLeft(completed) = BytesLeft(completed \cup {PathOf[task]}) + Size[task]
        /\ BytesLeft(completed \cup {PathOf[task]}) \in Nat
        /\ Size[task] \div 2 <= Largest \div 2 /\ Largest \div 2 \in Nat
        /\ Size[task] \in Nat /\ Size[task] \div 2 \in Nat
        /\ Used + BytesLeft(completed) + Largest \div 2 <= Capacity + Fetched
    BY <2>1, <2>2, FetchSpace DEF Working
  <2>4. Fetched = Size[task] /\ Capacity \in Nat
    BY <2>1, CacheAssumption DEF Fetched, Working
  <2>5. Fits
    BY <2>3, <2>4 DEF Fits
  <2> QED
    BY <1>2, <2>1, <2>5 DEF EndFetch, Delivered, Fail, EndPass, GoTo, Mishap
<1>3. CASE AfterTask
  <2>1. /\ at = "done" /\ pass = "run" /\ ending = "none" /\ completed' = completed \cup {PathOf[task]}
        /\ UNCHANGED <<foreign, scenario, sizes, counted>>
    BY <1>3 DEF AfterTask, PassInv, PlacesAgree, Working, Quiet, world
  <2>2. PlanIsRight /\ foreign = 0
    BY <2>1, PlanStays
  <2>3. /\ BytesLeft(completed) = BytesLeft(completed \cup {PathOf[task]}) + Size[task]
        /\ BytesLeft(completed \cup {PathOf[task]}) \in Nat
        /\ Used \in Nat /\ Largest \div 2 \in Nat /\ Size[task] \in Nat
        /\ Used + BytesLeft(completed) + Largest \div 2 <= Capacity + Fetched
    BY <2>1, <2>2, FetchSpace DEF Working
  <2>4. Fetched = Size[task] /\ Capacity \in Nat
    BY <2>1, CacheAssumption DEF Fetched, Working
  <2>5. Used + BytesLeft(completed') + Largest \div 2 <= Capacity
    BY <2>1, <2>3, <2>4
  <2>6. HasEnoughSpace(completed', Available)
    BY <1>0, <2>3, <2>5, CheckPasses DEF Available
  <2> QED
    BY <1>3, <2>1, <2>6 DEF AfterTask, Continue
<1> QED
  BY <1>1, <1>2, <1>3
  DEF CacheNext, Step, cacheVars, Start, BeginSweep, BeginClear, BeginRun, FinishPass,
     CheckTask,
       SizeTask, BeginFetch, Replace, Record, OpenCacheFile, WriteCacheFile, EndStore,
       ClearEntry, StoreCleared, Crash, Disturb, TakeSpace, Quiet, world, plan, control, Construct, EndPass, GoTo, Mishap, Fail,
       Continue, PassInv, PlacesAgree

\* What a run delivers holds at the beginning,
LEMMA DeliverInit == CacheInit => DeliverInv
<1> SUFFICES ASSUME CacheInit PROVE DeliverInv
  OBVIOUS
<1>1. SizesKnown /\ Reached /\ SizesFit
  BY DEF CacheInit, SizesKnown, Reached, SizesFit
<1>2. PlanCovers /\ SpaceIsLeft /\ CheckedSpaceSuffices
  BY DEF CacheInit, PlanCovers, SpaceIsLeft, CheckedSpaceSuffices
<1> QED
  BY <1>1, <1>2 DEF DeliverInv

\* and every step preserves it.
LEMMA DeliverStep == PassInv /\ DeliverInv /\ [CacheNext]_cacheVars => DeliverInv'
  BY SizesStep, ReachedStep, FitStep, CoversStep, SpaceStep, SpaceSufficesStep
     DEF DeliverInv

\* A run that was let begin gets what it needs: with the right sizes and no other
\* program taking space it does not run out of it, and if it ends well it has every file
\* that the plan cache did not leave out (DownloadStage::Run, CheckDiskSpace).
THEOREM Delivers == CacheSpec => []RunDelivers
<1>1. CacheInit => PassInv /\ DeliverInv
  BY PassInvInit, DeliverInit
<1>2. PassInv /\ DeliverInv /\ [CacheNext]_cacheVars => PassInv' /\ DeliverInv'
  BY PassInvStep, DeliverStep
<1>3. PassInv /\ DeliverInv => RunDelivers
  BY DEF DeliverInv, RunDelivers, RunObtainsEverything, Reached
<1> QED
  BY <1>1, <1>2, <1>3, PTL DEF CacheSpec
=============================================================================

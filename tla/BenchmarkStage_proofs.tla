-------------------------- MODULE BenchmarkStage_proofs --------------------------
(***************************************************************************)
(* Theorems about BenchmarkStage and the Preparation stage before it, for  *)
(* any entries, libraries, devices, requests and scenarios: what runs is   *)
(* what was asked for, true means that all of it was run, and the groups   *)
(* implement the abstract batch.                                           *)
(***************************************************************************)
EXTENDS BenchmarkStage, FiniteSetTheorems, SequenceTheorems, TLAPS

-----------------------------------------------------------------------------
(* The inductive invariant of Preparation.                                 *)

Home(e) == <<NameOf[e], LibraryOf[e]>>
Asked(e) == IF request.device = NotGiven THEN request.pinned[e] ELSE request.device
Found(e) == 0 .. known[Key(e)] - 1

\* What a list holds for an entry: the second parts of its elements.
Devices(list, e) == {list[i][2] : i \in {j \in DOMAIN list : list[j][1] = e}}

Distinct(list) == \A i, j \in DOMAIN list : list[i] = list[j] => i = j

\* An entry as it was loaded, and one whose devices are settled.
Fresh(used, e) == used \subseteq {request.pinned[e]}
Settled(used, e) ==
  used # {} =>
    /\ used = (IF Asked(e) < 0 THEN Found(e) ELSE {Asked(e)})
    /\ used \subseteq Found(e)

LoadInv ==
  /\ prep = "load" =>
       \A i \in DOMAIN prepared : prepared[i][1] < nextEp /\ Home(prepared[i][1]) \in libraries
  /\ nextEp = 1 \/ prep = "done" => libraries = {}

\* The libraries not visited yet, or not to the end.
Waiting == libraries \cup (IF prep = "devices" THEN {library} ELSE {})

ListInv ==
  /\ Distinct(prepared)
  /\ \A e \in Ep :
       IF prep = "load" \/ Home(e) \in Waiting
       THEN Fresh(Devices(prepared, e), e)
       ELSE NameOf[e] \in Enumerating => Settled(Devices(prepared, e), e)

\* What is copied for other libraries, and settled for this one, so far.
AdjustInv ==
  prep = "devices" =>
    /\ Distinct(adjusted)
    /\ library \notin libraries /\ library # NoLibrary
    /\ \A i \in DOMAIN adjusted : \E k \in 1 .. seen : prepared[k][1] = adjusted[i][1]
    /\ \A e \in Ep :
         IF Home(e) = library
         THEN Settled(Devices(adjusted, e), e)
         ELSE Devices(adjusted, e) = {prepared[k][2] : k \in {j \in 1 .. seen : prepared[j][1] = e}}

PrepInv == PrepTypeOK /\ LoadInv /\ ListInv /\ AdjustInv

-----------------------------------------------------------------------------
(* The inductive invariant of the stage.                                   *)

\* The stage has not begun its groups.
Early == main \in {"prepare", "build"}

\* The loop over files and entries has passed this pair.
Reached(m, i) ==
  \/ m < model /\ (m = 1 \/ ~scenario.sameContent)
  \/ m = model /\ i < position

StartInv ==
  /\ main = "prepare" => model = 1 /\ position = 1 /\ executed = {} /\ pairOf = <<>> /\ groups = <<>>
                         /\ lastName = 0
  /\ main # "prepare" /\ result # "skipped" => prep = "done"
  /\ Early => /\ group = 0 /\ queue = {} /\ tracked = {} /\ shown = {}
              /\ thread = "none" /\ ~canceled /\ reportedTasks = {}
              /\ \A t \in Task : status[t] = "kReady"
  /\ result # "none" <=> main = "returned"
  /\ result = "skipped" => groups = <<>> /\ group = 0 /\ queue = {} /\ thread = "none"

PairInv ==
  /\ model = 1 => executed \subseteq {1} /\ (position = 1 => executed = {})
  /\ model = 2 => IF position = 1 THEN executed = {1} ELSE ~scenario.sameContent
  /\ main \notin {"prepare", "build"} /\ result # "skipped" => model = 3
  /\ model = 3 => position = 1
  /\ \A m \in Model, i \in DOMAIN prepared :
       Reached(m, i) /\ Uses(m, prepared[i][1]) <=> \E t \in Created : pairOf[t] = <<m, i>>
  /\ \A t, u \in Created : pairOf[t] = pairOf[u] => t = u

\* The groups are runs of tasks, in order, and nothing is left out.
GroupInv ==
  /\ lastName = 0 <=> groups = <<>>
  /\ \A t \in Created : \E g \in DOMAIN groups : t \in groups[g]
  /\ \A g, h \in DOMAIN groups : g < h => \A t \in groups[g], u \in groups[h] : t < u

Watching == {"loop", "wait", "ask", "join", "reported"}

PlaceInv ==
  /\ tracked = (IF group = 0 THEN {} ELSE groups[group])
  /\ queue \subseteq tracked \ {current} /\ current \in tracked \cup {NoTask}
  /\ thread = "task" <=> current # NoTask
  /\ thread = "task" <=> step # "none"
  /\ main \in {"next", "report"} \cup Watching => ~canceled
  /\ main \in Watching => thread # "none"
  /\ main = "report" => queue = tracked /\ thread # "loop"
  /\ main \in {"next", "report", "reported", "returned"} => Joinable
  /\ main \in {"next", "reported"} \/ result = "true" => queue = {}
  /\ main \in Watching \cup {"report", "interrupted", "canceling"} => group # 0
  /\ thread = "ended" => queue = {} \/ canceled \/ main = "report"
  /\ result = "true" => group = Len(groups) /\ reportedTasks # {}
  /\ reportedTasks # {} <=> anyRun
  /\ toCancel \subseteq tracked /\ (main # "canceling" => toCancel = {})

\* The status follows the step of the thread, as long as nobody cancels.
StatusOf(s) ==
  CASE s = "enter" -> "kReady"
    [] s = "validate" -> "kReady"
    [] s = "setup" -> "kInitializing"
    [] s = "start" -> "kInitializing"
    [] s = "work" -> "kRunning"
    [] s = "complete" -> "kRunning"

RunInv ==
  main \notin {"interrupted", "canceling"} /\ result # "false" =>
    /\ \A t \in queue : status[t] = "kReady"
    /\ step \notin {"none", "report"} => status[current] = StatusOf(step)
    /\ \A t \in tracked \ queue :
         t # current /\ status[t] \in FinalStatus => t \in reportedTasks
    /\ shown \subseteq tracked \ queue
    /\ \A t \in shown : status[t] \in FinalStatus
    /\ main \in {"join", "reported", "next"} \/ result = "true" => shown = tracked

\* The groups before this one are reported, those after it untouched.
OtherInv ==
  result # "false" =>
    \A g \in DOMAIN groups : \A t \in groups[g] :
      /\ g < group => status[t] \in FinalStatus /\ t \in reportedTasks
      /\ g > group => status[t] = "kReady"

StageInv == StartInv /\ PairInv /\ GroupInv /\ PlaceInv /\ RunInv /\ OtherInv

IInv == TypeOK /\ PrepInv /\ StageInv

-----------------------------------------------------------------------------
(* Lists of entries.                                                       *)

LEMMA RequestFacts ==
  ASSUME request \in Requests
  PROVE  /\ request.enumerate \in BOOLEAN /\ request.device \in Int /\ request.device >= NotGiven
         /\ \A e \in Ep : request.pinned[e] \in {NotGiven} \cup Nat
BY PreparationAssumption DEF NotGiven

LEMMA DevicesAppend ==
  ASSUME NEW list \in Seq(Entry), NEW x \in Entry, NEW e
  PROVE  /\ Append(list, x) \in Seq(Entry)
         /\ Devices(Append(list, x), e) = Devices(list, e) \cup (IF x[1] = e THEN {x[2]} ELSE {})
<1> DEFINE n == Len(list)
           more == Append(list, x)
<1>1. /\ more \in Seq(Entry) /\ n \in Nat /\ DOMAIN list = 1 .. n /\ DOMAIN more = 1 .. n + 1
      /\ more[n + 1] = x /\ \A i \in 1 .. n : more[i] = list[i]
  OBVIOUS
<1> HIDE DEF more, n
<1>2. \A i : i \in DOMAIN more <=> i \in DOMAIN list \/ i = n + 1
  BY <1>1
<1>3. \A i \in DOMAIN list : more[i] = list[i]
  BY <1>1
<1>4. Devices(more, e) \subseteq Devices(list, e) \cup (IF x[1] = e THEN {x[2]} ELSE {})
  BY <1>1, <1>2, <1>3 DEF Devices
<1>5. Devices(list, e) \subseteq Devices(more, e)
  BY <1>2, <1>3 DEF Devices
<1>6. x[1] = e => x[2] \in Devices(more, e)
  BY <1>1, <1>2 DEF Devices
<1>7. Devices(more, e) = Devices(list, e) \cup (IF x[1] = e THEN {x[2]} ELSE {})
  BY <1>4, <1>5, <1>6
<1> QED BY <1>1, <1>7 DEF more

LEMMA DistinctAppend ==
  ASSUME NEW list \in Seq(Entry), NEW x \in Entry, Distinct(list), \A i \in DOMAIN list : list[i] # x
  PROVE  Distinct(Append(list, x))
BY DEF Distinct

LEMMA DevicesConcat ==
  ASSUME NEW a \in Seq(Entry), NEW b \in Seq(Entry), NEW e
  PROVE  Devices(a \o b, e) = Devices(a, e) \cup Devices(b, e)
<1> DEFINE c == a \o b
<1>1. /\ DOMAIN a = 1 .. Len(a) /\ DOMAIN b = 1 .. Len(b) /\ DOMAIN c = 1 .. Len(a) + Len(b)
      /\ Len(a) \in Nat /\ Len(b) \in Nat
  OBVIOUS
<1>2. \A i \in DOMAIN a : i \in DOMAIN c /\ c[i] = a[i]
  OBVIOUS
<1>3. \A j \in DOMAIN b : Len(a) + j \in DOMAIN c /\ c[Len(a) + j] = b[j]
  OBVIOUS
<1>4. \A i \in DOMAIN c : i \in DOMAIN a \/ \E j \in DOMAIN b : i = Len(a) + j
  <2> SUFFICES ASSUME NEW i \in DOMAIN c, i \notin DOMAIN a PROVE \E j \in DOMAIN b : i = Len(a) + j
    OBVIOUS
  <2>1. i - Len(a) \in DOMAIN b /\ i = Len(a) + (i - Len(a))
    BY <1>1
  <2> QED BY <2>1
<1> HIDE DEF c
<1>5. Devices(a, e) \subseteq Devices(c, e)
  BY <1>2 DEF Devices
<1>6. Devices(b, e) \subseteq Devices(c, e)
  <2> SUFFICES ASSUME NEW j \in DOMAIN b, b[j][1] = e PROVE b[j][2] \in Devices(c, e)
    BY DEF Devices
  <2> QED BY <1>3 DEF Devices
<1>7. Devices(c, e) \subseteq Devices(a, e) \cup Devices(b, e)
  <2> SUFFICES ASSUME NEW i \in DOMAIN c, c[i][1] = e PROVE c[i][2] \in Devices(a, e) \cup Devices(b, e)
    BY DEF Devices
  <2>1. CASE i \in DOMAIN a
    BY <2>1, <1>2 DEF Devices
  <2>2. CASE i \notin DOMAIN a
    <3>1. PICK j \in DOMAIN b : i = Len(a) + j
      BY <2>2, <1>4
    <3>2. c[i] = b[j]
      BY <3>1, <1>3
    <3> QED BY <3>2 DEF Devices
  <2> QED BY <2>1, <2>2
<1>8. Devices(c, e) = Devices(a, e) \cup Devices(b, e)
  BY <1>5, <1>6, <1>7
<1> QED BY <1>8 DEF c

LEMMA DistinctConcat ==
  ASSUME NEW a \in Seq(Entry), NEW b \in Seq(Entry), Distinct(a), Distinct(b),
         \A i \in DOMAIN a, j \in DOMAIN b : a[i] # b[j]
  PROVE  Distinct(a \o b)
<1> DEFINE c == a \o b
<1> SUFFICES ASSUME NEW i \in DOMAIN c, NEW j \in DOMAIN c, c[i] = c[j] PROVE i = j
  BY DEF Distinct
<1>1. /\ Len(a) \in Nat /\ Len(b) \in Nat /\ i \in 1 .. Len(a) + Len(b) /\ j \in 1 .. Len(a) + Len(b)
      /\ DOMAIN a = 1 .. Len(a) /\ DOMAIN b = 1 .. Len(b)
  OBVIOUS
<1>2. \A k \in 1 .. Len(a) + Len(b) : IF k <= Len(a) THEN c[k] = a[k] ELSE c[k] = b[k - Len(a)]
  OBVIOUS
<1> HIDE DEF c
<1>3. CASE i <= Len(a) /\ j <= Len(a)
  BY <1>1, <1>2, <1>3 DEF Distinct
<1>4. CASE i <= Len(a) /\ j > Len(a)
  <2>1. i \in DOMAIN a /\ j - Len(a) \in DOMAIN b
    BY <1>1, <1>4
  <2>2. a[i] = b[j - Len(a)]
    BY <1>1, <1>2, <1>4
  <2> QED BY <2>1, <2>2
<1>5. CASE i > Len(a) /\ j <= Len(a)
  <2>1. j \in DOMAIN a /\ i - Len(a) \in DOMAIN b
    BY <1>1, <1>5
  <2>2. a[j] = b[i - Len(a)]
    BY <1>1, <1>2, <1>5
  <2> QED BY <2>1, <2>2
<1>6. CASE i > Len(a) /\ j > Len(a)
  <2>1. b[i - Len(a)] = b[j - Len(a)] /\ i - Len(a) \in DOMAIN b /\ j - Len(a) \in DOMAIN b
    BY <1>1, <1>2, <1>6
  <2>2. i - Len(a) = j - Len(a)
    BY <2>1 DEF Distinct
  <2> QED BY <2>2, <1>1
<1> QED BY <1>1, <1>3, <1>4, <1>5, <1>6

\* What an entry becomes on a plugin that found n devices.
LEMMA OnDevicesFacts ==
  ASSUME request \in Requests, NEW entry \in Entry, NEW n \in Nat
  PROVE  LET asked == IF request.device = NotGiven THEN entry[2] ELSE request.device
             list == OnDevices(entry, n)
         IN /\ list \in Seq(Entry) /\ Distinct(list)
            /\ \A i \in DOMAIN list : list[i][1] = entry[1]
            /\ Devices(list, entry[1]) =
                 IF asked < 0 THEN 0 .. n - 1 ELSE IF asked < n THEN {asked} ELSE {}
<1> DEFINE asked == IF request.device = NotGiven THEN entry[2] ELSE request.device
           list == OnDevices(entry, n)
           f == [d \in 1 .. n |-> <<entry[1], d - 1>>]
<1>1. /\ entry = <<entry[1], entry[2]>> /\ entry[1] \in Ep /\ entry[2] \in {NotGiven} \cup Nat
      /\ NotGiven \in Int
  BY DEF Entry, NotGiven
<1>2. asked \in Int
  BY <1>1, RequestFacts
<1>3. CASE asked < 0
  <2>1. list = f
    BY <1>3 DEF OnDevices
  <2>2. \A d \in 1 .. n : <<entry[1], d - 1>> \in Entry
    BY <1>1 DEF Entry
  <2>3. f \in Seq(Entry) /\ DOMAIN f = 1 .. n
    BY <2>2
  <2>4. Distinct(f)
    BY DEF Distinct
  <2>5. \A i \in DOMAIN f : f[i][1] = entry[1] /\ f[i][2] = i - 1
    OBVIOUS
  <2>6. Devices(f, entry[1]) = 0 .. n - 1
    <3>1. \A d \in 0 .. n - 1 : d + 1 \in DOMAIN f /\ f[d + 1][2] = d /\ f[d + 1][1] = entry[1]
      OBVIOUS
    <3>2. \A i \in DOMAIN f : f[i][2] \in 0 .. n - 1
      OBVIOUS
    <3> HIDE DEF f
    <3>3. 0 .. n - 1 \subseteq Devices(f, entry[1])
      <4> SUFFICES ASSUME NEW d \in 0 .. n - 1 PROVE d \in Devices(f, entry[1])
        OBVIOUS
      <4> QED BY <3>1 DEF Devices
    <3> QED BY <3>2, <3>3 DEF Devices
  <2> QED BY <1>3, <2>1, <2>3, <2>4, <2>5, <2>6
<1>4. CASE asked >= 0 /\ asked < n
  <2>1. list = << <<entry[1], asked>> >>
    BY <1>2, <1>4 DEF OnDevices
  <2>2. <<entry[1], asked>> \in Entry
    BY <1>1, <1>2, <1>4 DEF Entry
  <2> QED BY <1>2, <1>4, <2>1, <2>2 DEF Distinct, Devices
<1>5. CASE asked >= n
  <2>1. list = <<>> /\ ~(asked < 0) /\ ~(asked < n)
    BY <1>2, <1>5 DEF OnDevices
  <2> QED BY <2>1 DEF Distinct, Devices
<1> QED BY <1>2, <1>3, <1>4, <1>5

-----------------------------------------------------------------------------
(* Preparation keeps its invariant.                                        *)

LEMMA PrepInitInv == PrepInit => PrepInv
<1> SUFFICES ASSUME PrepInit PROVE PrepInv
  OBVIOUS
<1>1. PrepTypeOK
  BY PreparationAssumption DEF PrepInit, PrepTypeOK, Entry
<1>2. LoadInv /\ AdjustInv
  BY DEF PrepInit, LoadInv, AdjustInv
<1>3. \A e : Devices(prepared, e) = {}
  BY DEF PrepInit, Devices
<1>4. ListInv
  BY <1>3 DEF PrepInit, ListInv, Distinct, Fresh
<1> QED BY <1>1, <1>2, <1>4 DEF PrepInv

LEMMA MarkFailedType ==
  ASSUME PrepTypeOK, NEW entries \in Seq(Entry), NEW lib, MarkFailed(entries, lib)
  PROVE  ready' \in [Names -> Int] /\ failedNames' \subseteq Names
<1> DEFINE marked == {i \in DOMAIN entries : Matches(entries[i], lib)}
<1>1. IsFiniteSet(DOMAIN entries)
  <2>1. DOMAIN entries = 1 .. Len(entries) /\ Len(entries) \in Nat
    OBVIOUS
  <2> QED BY <2>1, FS_Interval
<1>2. marked \in SUBSET (DOMAIN entries)
  OBVIOUS
<1>3. Cardinality(marked) \in Nat
  BY <1>1, <1>2, FS_Subset, FS_CardinalityType
<1>4. ready' = [ready EXCEPT ![lib[1]] = @ - Cardinality(marked)]
  BY DEF MarkFailed
<1>5. marked # {} => lib[1] \in Names
  BY DEF Matches, Entry, Names
<1>6. failedNames' = IF marked = {} THEN failedNames ELSE failedNames \cup {lib[1]}
  BY DEF MarkFailed
<1> HIDE DEF marked
<1>7. ready' \in [Names -> Int]
  <2>1. ready \in [Names -> Int]
    BY DEF PrepTypeOK
  <2>2. \A x \in Names : ready[x] - Cardinality(marked) \in Int
    BY <1>3, <2>1
  <2> DEFINE c == Cardinality(marked)
             l == lib[1]
  <2>3. ready' = [ready EXCEPT ![l] = @ - c] /\ \A x \in Names : ready[x] - c \in Int
    BY <1>4, <2>2
  <2> HIDE DEF c, l
  <2> QED BY <2>1, <2>3
<1>8. failedNames' \subseteq Names
  BY <1>5, <1>6 DEF PrepTypeOK
<1> QED BY <1>7, <1>8

LEMMA PrepTypeStep ==
  ASSUME PrepTypeOK, PrepNext
  PROVE  PrepTypeOK'
<1> USE DEF PrepTypeOK
<1>e. E \in Nat
  BY PreparationAssumption
<1>1. CASE NoPython \/ EndLoading
  BY <1>1 DEF NoPython, EndLoading
<1>2. CASE LoadEp
  <2>1. nextEp \in Ep /\ nextEp' \in 1 .. E + 1 /\ NameOf[nextEp] \in Names
    BY <1>2, <1>e DEF LoadEp, Ep, Names
  <2>2. <<nextEp, request.pinned[nextEp]>> \in Entry
    BY <2>1, RequestFacts DEF Entry
  <2>3. prepared' \in Seq(Entry) /\ seen \in 0 .. Len(prepared')
    <3>1. CASE UNCHANGED prepared
      BY <3>1
    <3>2. CASE prepared' = Append(prepared, <<nextEp, request.pinned[nextEp]>>)
      <4>1. prepared' \in Seq(Entry) /\ Len(prepared') = Len(prepared) + 1
        BY <2>2, <3>2, AppendProperties
      <4> QED BY <4>1
    <3> QED BY <1>2, <3>1, <3>2 DEF LoadEp
  <2>4. ready' \in [Names -> Int]
    BY <1>2 DEF LoadEp
  <2>5. failedNames' \subseteq Names
    BY <1>2, <2>1 DEF LoadEp
  <2>6. libraries' \subseteq Names \X {LibraryOf[e] : e \in Ep}
    BY <1>2, <2>1 DEF LoadEp
  <2> QED BY <1>2, <2>1, <2>3, <2>4, <2>5, <2>6 DEF LoadEp
<1>3. CASE VisitLibrary
  <2>1. PICK lib \in libraries :
          /\ libraries' = libraries \ {lib}
          /\ \/ /\ prep' = "devices" /\ library' = lib /\ seen' = 0 /\ adjusted' = <<>>
                /\ UNCHANGED <<ready, failedNames>>
             \/ /\ MarkFailed(prepared, lib)
                /\ UNCHANGED <<prep, library, seen, adjusted>>
             \/ UNCHANGED <<prep, library, seen, adjusted, ready, failedNames>>
    BY <1>3 DEF VisitLibrary
  <2>2. UNCHANGED <<request, nextEp, prepared, known, reported, prepResult>>
    BY <1>3 DEF VisitLibrary
  <2>3. ready' \in [Names -> Int] /\ failedNames' \subseteq Names
    BY <2>1, MarkFailedType
  <2>4. seen' \in 0 .. Len(prepared) /\ adjusted' \in Seq(Entry)
    <3>1. 0 \in 0 .. Len(prepared) /\ <<>> \in Seq(Entry)
      OBVIOUS
    <3>2. (seen' = 0 /\ adjusted' = <<>>) \/ UNCHANGED <<seen, adjusted>>
      BY <2>1
    <3> QED BY <3>1, <3>2
  <2>5. library' = NoLibrary \/ library' \in Names \X {LibraryOf[e] : e \in Ep}
    BY <2>1
  <2>6. prep' \in {"load", "libraries", "devices", "done"}
    BY <2>1
  <2>7. libraries' \subseteq Names \X {LibraryOf[e] : e \in Ep}
    BY <2>1
  <2> QED BY <2>2, <2>3, <2>4, <2>5, <2>6, <2>7
<1>4. CASE CheckEntry
  <2> DEFINE entry == prepared[seen + 1]
             key == Key(entry[1])
  <2>1. seen + 1 \in 1 .. Len(prepared) /\ seen' = seen + 1 /\ UNCHANGED prepared
    BY <1>4 DEF CheckEntry
  <2>2. entry \in Entry
    BY <2>1
  <2>3. adjusted' \in Seq(Entry)
    <3>1. CASE adjusted' = Append(adjusted, entry)
      BY <3>1, <2>2
    <3>2. ASSUME NEW n \in 0 .. MaxDevices, adjusted' = adjusted \o OnDevices(entry, n)
          PROVE  adjusted' \in Seq(Entry)
      <4>1. n \in Nat
        BY <3>2, PreparationAssumption
      <4>2. OnDevices(entry, n) \in Seq(Entry)
        BY <4>1, <2>2, OnDevicesFacts
      <4> QED BY <3>2, <4>2
    <3> QED BY <1>4, <3>1, <3>2 DEF CheckEntry
  <2>4. known' \in [Keys -> {Unknown} \cup 0 .. MaxDevices]
    BY <1>4 DEF CheckEntry
  <2>5. seen' \in 0 .. Len(prepared')
    BY <2>1
  <2> QED BY <1>4, <2>3, <2>4, <2>5 DEF CheckEntry
<1>5. CASE EndLibrary
  <2>1. ready' \in [Names -> Int] /\ failedNames' \subseteq Names
    BY <1>5, MarkFailedType DEF EndLibrary
  <2>2. prepared' \in Seq(Entry) /\ adjusted' \in Seq(Entry) /\ library' = NoLibrary
        /\ seen' \in 0 .. Len(prepared')
    BY <1>5 DEF EndLibrary
  <2> QED BY <1>5, <2>1, <2>2 DEF EndLibrary
<1>6. CASE EndPreparation
  BY <1>6 DEF EndPreparation
<1> QED BY <1>1, <1>2, <1>3, <1>4, <1>5, <1>6 DEF PrepNext

\* What is settled stays so when the plugins' answers are kept in the cache.
LEMMA SettledKept ==
  ASSUME PrepTypeOK, NEW key, NEW n \in Nat, known[key] \in {Unknown, n},
         known' = [known EXCEPT ![key] = n], UNCHANGED request,
         NEW used, NEW e \in Ep, Settled(used, e)
  PROVE  Settled(used, e)'
<1> SUFFICES ASSUME used # {} PROVE Asked(e)' = Asked(e) /\ Found(e)' = Found(e)
  BY DEF Settled
<1>1. Found(e) # {}
  BY DEF Settled
<1>2. Key(e) \in Keys /\ known \in [Keys -> {Unknown} \cup 0 .. MaxDevices]
  BY DEF Keys, PrepTypeOK
<1>3. known[Key(e)] # Unknown
  BY <1>1, <1>2, PreparationAssumption DEF Found, Unknown
<1>4. known'[Key(e)] = known[Key(e)]
  BY <1>2, <1>3
<1> QED BY <1>4 DEF Asked, Found

LEMMA LoadKeeps ==
  ASSUME PrepInv, LoadEp
  PROVE  LoadInv' /\ ListInv' /\ AdjustInv'
<1>1. PrepTypeOK /\ LoadInv /\ ListInv /\ prep = "load" /\ prep' = "load" /\ UNCHANGED request
  BY DEF PrepInv, LoadEp
<1>2. /\ nextEp \in Ep /\ nextEp' = nextEp + 1 /\ E \in Nat /\ nextEp \in Int
      /\ libraries \subseteq libraries' /\ prepared \in Seq(Entry)
  BY <1>1, PreparationAssumption DEF LoadEp, PrepTypeOK, Ep
<1>3. \A i \in DOMAIN prepared : prepared[i] \in Entry /\ prepared[i][1] \in Int /\ prepared[i][1] < nextEp
                                 /\ Home(prepared[i][1]) \in libraries
  BY <1>1, <1>2 DEF LoadInv, Entry, Ep
<1>4. AdjustInv'
  BY <1>1 DEF AdjustInv
<1>5. CASE UNCHANGED <<prepared, libraries>>
  <2>1. LoadInv'
    <3> SUFFICES ASSUME NEW i \in DOMAIN prepared PROVE prepared[i][1] < nextEp'
      BY <1>1, <1>2, <1>3, <1>5 DEF LoadInv, Ep
    <3> QED BY <1>2, <1>3
  <2>2. ListInv'
    BY <1>1, <1>5 DEF ListInv, Fresh
  <2> QED BY <1>4, <2>1, <2>2
<1>6. ASSUME prepared' = Append(prepared, <<nextEp, request.pinned[nextEp]>>),
             libraries' = libraries \cup {<<NameOf[nextEp], LibraryOf[nextEp]>>}
      PROVE  LoadInv' /\ ListInv'
  <2> DEFINE x == <<nextEp, request.pinned[nextEp]>>
  <2>1. x \in Entry /\ x[1] = nextEp /\ x[2] = request.pinned[nextEp]
    BY <1>1, <1>2, RequestFacts DEF Entry, PrepTypeOK
  <2> HIDE DEF x
  <2>2. prepared' = Append(prepared, x)
    BY <1>6 DEF x
  <2>3. \A i \in DOMAIN prepared' : prepared'[i] = x \/ \E j \in DOMAIN prepared : prepared'[i] = prepared[j]
    BY <1>2, <2>2
  <2>4. LoadInv'
    <3> SUFFICES ASSUME NEW i \in DOMAIN prepared'
                 PROVE  prepared'[i][1] < nextEp' /\ Home(prepared'[i][1]) \in libraries'
      BY <1>1, <1>2 DEF LoadInv, Ep
    <3>1. CASE prepared'[i] = x
      BY <3>1, <1>2, <1>6, <2>1 DEF Home
    <3>2. ASSUME NEW j \in DOMAIN prepared, prepared'[i] = prepared[j]
          PROVE  prepared'[i][1] < nextEp' /\ Home(prepared'[i][1]) \in libraries'
      BY <3>2, <1>2, <1>3
    <3> QED BY <2>3, <3>1, <3>2
  <2>5. Distinct(prepared')
    <3>1. \A i \in DOMAIN prepared : prepared[i] # x
      BY <1>2, <1>3, <2>1
    <3> QED BY <3>1, <1>1, <1>2, <2>1, <2>2, DistinctAppend DEF ListInv
  <2>6. \A e \in Ep : Fresh(Devices(prepared, e), e)'
    BY <1>1, <1>2, <2>1, <2>2, DevicesAppend DEF ListInv, Fresh
  <2> QED BY <1>1, <2>4, <2>5, <2>6 DEF ListInv
<1> QED BY <1>4, <1>5, <1>6 DEF LoadEp

LEMMA VisitKeeps ==
  ASSUME PrepInv, VisitLibrary
  PROVE  LoadInv' /\ ListInv' /\ AdjustInv'
<1>1. /\ PrepTypeOK /\ ListInv /\ prep = "libraries"
      /\ UNCHANGED <<request, nextEp, prepared, known>>
  BY DEF PrepInv, VisitLibrary
<1>2. PICK lib \in libraries :
        /\ libraries' = libraries \ {lib}
        /\ \/ /\ prep' = "devices" /\ library' = lib /\ seen' = 0 /\ adjusted' = <<>>
           \/ lib[1] \notin Enumerating /\ UNCHANGED prep
  BY DEF VisitLibrary
<1>3. LoadInv'
  BY <1>1, <1>2 DEF PrepInv, LoadInv
<1>4. \A e \in Ep : Devices(prepared, e)' = Devices(prepared, e)
  BY <1>1 DEF Devices
<1>5. \A e \in Ep : /\ Fresh(Devices(prepared, e), e)' <=> Fresh(Devices(prepared, e), e)
                    /\ Settled(Devices(prepared, e), e)' <=> Settled(Devices(prepared, e), e)
  BY <1>1, <1>4 DEF Fresh, Settled, Asked, Found
<1>6. ListInv'
  <2> SUFFICES ASSUME NEW e \in Ep
               PROVE  IF prep' = "load" \/ Home(e) \in Waiting'
                      THEN Fresh(Devices(prepared, e), e)
                      ELSE NameOf[e] \in Enumerating => Settled(Devices(prepared, e), e)
    BY <1>1, <1>5 DEF ListInv, Distinct
  <2>1. CASE prep' = "devices" /\ library' = lib
    <3>1. Waiting' = Waiting
      BY <1>1, <1>2, <2>1 DEF Waiting
    <3> QED BY <3>1, <1>1, <2>1 DEF ListInv
  <2>2. CASE lib[1] \notin Enumerating /\ UNCHANGED prep
    <3>1. Waiting = libraries /\ Waiting' = libraries \ {lib}
      BY <1>1, <1>2, <2>2 DEF Waiting
    <3>2. CASE Home(e) = lib
      <4>1. NameOf[e] \notin Enumerating
        BY <3>2, <2>2 DEF Home
      <4> QED BY <3>1, <3>2, <4>1, <1>1, <2>2
    <3>3. CASE Home(e) # lib
      BY <3>1, <3>3, <1>1, <2>2 DEF ListInv
    <3> QED BY <3>2, <3>3
  <2> QED BY <1>2, <2>1, <2>2
<1>7. AdjustInv'
  <2>1. CASE prep' = "devices" /\ library' = lib /\ seen' = 0 /\ adjusted' = <<>>
    <3>1. \A e \in Ep : Devices(adjusted', e) = {}
      BY <2>1 DEF Devices
    <3>2. \A e \in Ep : {prepared[k][2] : k \in {j \in 1 .. 0 : prepared[j][1] = e}} = {}
      OBVIOUS
    <3>3. lib # NoLibrary
      <4>1. lib \in Names \X {LibraryOf[e] : e \in Ep}
        BY <1>1 DEF PrepTypeOK
      <4>2. Len(lib) = 2
        BY <4>1
      <4> QED BY <4>2 DEF NoLibrary
    <3>4. Distinct(adjusted')
      BY <2>1 DEF Distinct
    <3>5. \A e \in Ep : /\ Settled(Devices(adjusted, e), e)'
                        /\ Devices(adjusted, e)' = {prepared'[k][2] : k \in {j \in 1 .. seen' : prepared'[j][1] = e}}
      BY <1>1, <2>1, <3>1, <3>2 DEF Settled
    <3>6. library' \notin libraries' /\ library' # NoLibrary
      BY <1>2, <2>1, <3>3
    <3>7. \A i \in DOMAIN adjusted' : FALSE
      BY <2>1
    <3> QED BY <3>4, <3>5, <3>6, <3>7 DEF AdjustInv
  <2>2. CASE UNCHANGED prep
    BY <1>1, <2>2 DEF AdjustInv
  <2> QED BY <1>2, <2>1, <2>2
<1> QED BY <1>3, <1>6, <1>7

\* The entry that is looked at has nothing in the new list yet.
LEMMA CheckFacts ==
  ASSUME PrepInv, CheckEntry
  PROVE  LET entry == prepared[seen + 1]
         IN /\ seen \in Nat /\ seen + 1 \in DOMAIN prepared /\ entry \in Entry
            /\ entry[1] \in Ep /\ entry = <<entry[1], entry[2]>>
            /\ \A k \in 1 .. seen : k \in DOMAIN prepared /\ prepared[k] # entry
            /\ \A i \in DOMAIN adjusted : adjusted[i] # entry
            /\ Matches(entry, library) =>
                 /\ Home(entry[1]) = library /\ entry[2] = request.pinned[entry[1]]
                 /\ \A k \in 1 .. seen : prepared[k][1] # entry[1]
                 /\ \A i \in DOMAIN adjusted : adjusted[i][1] # entry[1]
            /\ ~Matches(entry, library) /\ library \in Names \X {LibraryOf[e] : e \in Ep} =>
                 Home(entry[1]) # library
<1> DEFINE entry == prepared[seen + 1]
<1>1. PrepTypeOK /\ ListInv /\ AdjustInv /\ prep = "devices" /\ seen < Len(prepared)
  BY DEF PrepInv, CheckEntry
<1>2. seen \in Nat /\ prepared \in Seq(Entry) /\ seen + 1 \in DOMAIN prepared /\ adjusted \in Seq(Entry)
      /\ \A k \in 1 .. seen : k \in DOMAIN prepared /\ k # seen + 1
  BY <1>1 DEF PrepTypeOK
<1>3. entry \in Entry
  BY <1>2
<1>4. entry[1] \in Ep /\ entry = <<entry[1], entry[2]>>
  BY <1>3 DEF Entry
<1>5. \A k \in 1 .. seen : prepared[k] # entry
  BY <1>1, <1>2 DEF ListInv, Distinct
<1>6. ASSUME Matches(entry, library)
      PROVE  /\ Home(entry[1]) = library /\ entry[2] = request.pinned[entry[1]]
             /\ \A k \in 1 .. seen : prepared[k][1] # entry[1]
             /\ \A i \in DOMAIN adjusted : adjusted[i][1] # entry[1]
  <2>1. Home(entry[1]) = library
    <3>1. library # NoLibrary
      BY <1>1 DEF AdjustInv
    <3>2. library = <<library[1], library[2]>>
      BY <1>1, <3>1 DEF PrepTypeOK
    <3>3. NameOf[entry[1]] = library[1] /\ LibraryOf[entry[1]] = library[2]
      BY <1>6 DEF Matches
    <3> QED BY <3>2, <3>3 DEF Home
  <2>2. Devices(prepared, entry[1]) \subseteq {request.pinned[entry[1]]}
    BY <1>1, <1>4, <2>1 DEF ListInv, Fresh, Waiting
  <2>3. \A k \in DOMAIN prepared : prepared[k][1] = entry[1] => prepared[k][2] = request.pinned[entry[1]]
    BY <2>2 DEF Devices
  <2>4. entry[2] = request.pinned[entry[1]]
    BY <1>2, <2>3
  <2>5. \A k \in 1 .. seen : prepared[k][1] # entry[1]
    <3> SUFFICES ASSUME NEW k \in 1 .. seen, prepared[k][1] = entry[1] PROVE FALSE
      OBVIOUS
    <3>1. prepared[k] \in Entry /\ prepared[k][2] = entry[2]
      BY <1>2, <2>3, <2>4
    <3>2. prepared[k] = entry
      BY <3>1, <1>4 DEF Entry
    <3> QED BY <3>2, <1>5
  <2>6. \A i \in DOMAIN adjusted : adjusted[i][1] # entry[1]
    BY <2>5, <1>1 DEF AdjustInv
  <2> QED BY <2>1, <2>4, <2>5, <2>6
<1>7. ASSUME ~Matches(entry, library), library \in Names \X {LibraryOf[e] : e \in Ep}
      PROVE  Home(entry[1]) # library
  BY <1>7 DEF Matches, Home
<1>8. \A i \in DOMAIN adjusted : adjusted[i] # entry
  <2> SUFFICES ASSUME NEW i \in DOMAIN adjusted, adjusted[i] = entry PROVE FALSE
    OBVIOUS
  <2>1. ~Matches(entry, library)
    BY <1>6
  <2>2. library \in Names \X {LibraryOf[e] : e \in Ep}
    BY <1>1 DEF AdjustInv, PrepTypeOK
  <2>3. Home(entry[1]) # library
    BY <1>7, <2>1, <2>2
  <2>4. Devices(adjusted, entry[1]) = {prepared[k][2] : k \in {j \in 1 .. seen : prepared[j][1] = entry[1]}}
    BY <1>1, <1>4, <2>3 DEF AdjustInv
  <2>5. entry[2] \in Devices(adjusted, entry[1])
    BY DEF Devices
  <2>6. PICK k \in 1 .. seen : prepared[k][1] = entry[1] /\ prepared[k][2] = entry[2]
    BY <2>4, <2>5
  <2>7. prepared[k] \in Entry
    BY <1>2
  <2>8. prepared[k] = entry
    BY <2>6, <2>7, <1>4 DEF Entry
  <2> QED BY <2>8, <1>5
<1> QED BY <1>2, <1>3, <1>4, <1>5, <1>6, <1>7, <1>8

\* What the entries looked at hold for e.
Copied(e) == {prepared[k][2] : k \in {j \in 1 .. seen : prepared[j][1] = e}}

LEMMA CopiedGrows ==
  ASSUME seen \in Nat, seen' = seen + 1, UNCHANGED prepared, NEW e
  PROVE  Copied(e)' = Copied(e) \cup (IF prepared[seen + 1][1] = e THEN {prepared[seen + 1][2]} ELSE {})
<1> DEFINE before == {j \in 1 .. seen : prepared[j][1] = e}
           after == {j \in 1 .. seen + 1 : prepared[j][1] = e}
<1>1. \A j : j \in 1 .. seen + 1 <=> j \in 1 .. seen \/ j = seen + 1
  OBVIOUS
<1>2. after = before \cup (IF prepared[seen + 1][1] = e THEN {seen + 1} ELSE {})
  BY <1>1
<1>3. Copied(e)' = {prepared[k][2] : k \in after} /\ Copied(e) = {prepared[k][2] : k \in before}
  BY DEF Copied
<1> HIDE DEF after, before
<1> QED BY <1>2, <1>3

LEMMA CheckKeeps ==
  ASSUME PrepInv, CheckEntry
  PROVE  LoadInv' /\ ListInv' /\ AdjustInv'
<1> DEFINE entry == prepared[seen + 1]
           here == entry[1]
           key == Key(here)
<1>1. /\ PrepTypeOK /\ ListInv /\ AdjustInv /\ prep = "devices" /\ prep' = "devices"
      /\ UNCHANGED <<request, prepared, libraries, library>> /\ seen' = seen + 1
  BY DEF PrepInv, CheckEntry
<1>2. /\ seen \in Nat /\ seen + 1 \in DOMAIN prepared /\ entry \in Entry /\ here \in Ep
      /\ \A i \in DOMAIN adjusted : adjusted[i] # entry
  BY CheckFacts
<1>3. /\ adjusted \in Seq(Entry) /\ request \in Requests /\ library \notin libraries /\ library # NoLibrary
      /\ Distinct(adjusted)
      /\ \A i \in DOMAIN adjusted : \E k \in 1 .. seen : prepared[k][1] = adjusted[i][1]
  BY <1>1 DEF PrepTypeOK, AdjustInv
<1>4. LoadInv'
  <2>1. LoadInv /\ UNCHANGED nextEp
    BY DEF PrepInv, CheckEntry
  <2> QED BY <2>1, <1>1 DEF LoadInv
<1>5. \A e \in Ep : Devices(prepared, e)' = Devices(prepared, e)
  BY <1>1 DEF Devices
<1>6. Waiting' = Waiting
  BY <1>1 DEF Waiting
<1>7. \A e : Copied(e)' = Copied(e) \cup (IF here = e THEN {entry[2]} ELSE {})
  BY <1>1, <1>2, CopiedGrows
<1>8. \A k \in 1 .. seen + 1 : k \in 1 .. seen \/ k = seen + 1
  BY <1>2
<1>9. (\A used : \A e \in Ep : Settled(used, e) => Settled(used, e)') => ListInv'
  <2> SUFFICES ASSUME \A used : \A e \in Ep : Settled(used, e) => Settled(used, e)' PROVE ListInv'
    OBVIOUS
  <2>1. \A e \in Ep : Fresh(Devices(prepared, e), e)' <=> Fresh(Devices(prepared, e), e)
    BY <1>1, <1>5 DEF Fresh
  <2>2. \A e \in Ep : Settled(Devices(prepared, e), e) => Settled(Devices(prepared, e), e)'
    BY <1>5 DEF Settled
  <2> QED BY <1>1, <1>6, <2>1, <2>2 DEF ListInv, Distinct
<1>10. AdjustInv' <=>
         /\ Distinct(adjusted')
         /\ \A i \in DOMAIN adjusted' : \E k \in 1 .. seen + 1 : prepared[k][1] = adjusted'[i][1]
         /\ \A e \in Ep :
              IF Home(e) = library
              THEN Settled(Devices(adjusted, e), e)'
              ELSE Devices(adjusted', e) = Copied(e)'
  BY <1>1, <1>3 DEF AdjustInv, Copied
<1>11. \A e \in Ep : IF Home(e) = library
                     THEN Settled(Devices(adjusted, e), e)
                     ELSE Devices(adjusted, e) = Copied(e)
  BY <1>1 DEF AdjustInv, Copied
<1>12. CASE /\ ~Matches(entry, library)
            /\ adjusted' = Append(adjusted, entry)
            /\ UNCHANGED known
  <2>1. \A used : \A e \in Ep : Settled(used, e)' <=> Settled(used, e)
    BY <1>1, <1>12 DEF Settled, Asked, Found
  <2>2. Home(here) # library
    <3>1. library \in Names \X {LibraryOf[e] : e \in Ep}
      BY <1>1, <1>3 DEF PrepTypeOK
    <3> QED BY <3>1, <1>12, CheckFacts
  <2>3. Distinct(adjusted')
    BY <1>2, <1>3, <1>12, DistinctAppend
  <2>4. \A i \in DOMAIN adjusted' : adjusted'[i] = entry \/ \E j \in DOMAIN adjusted : adjusted'[i] = adjusted[j]
    BY <1>2, <1>3, <1>12
  <2>5. \A i \in DOMAIN adjusted' : \E k \in 1 .. seen + 1 : prepared[k][1] = adjusted'[i][1]
    <3> SUFFICES ASSUME NEW i \in DOMAIN adjusted'
                 PROVE  \E k \in 1 .. seen + 1 : prepared[k][1] = adjusted'[i][1]
      OBVIOUS
    <3>1. seen + 1 \in 1 .. seen + 1 /\ \A k \in 1 .. seen : k \in 1 .. seen + 1
      BY <1>2
    <3> HIDE DEF entry
    <3>2. CASE adjusted'[i] = entry
      BY <3>1, <3>2 DEF entry
    <3>3. CASE adjusted'[i] # entry
      BY <3>1, <3>3, <2>4, <1>3
    <3> QED BY <3>2, <3>3
  <2>6. \A e \in Ep : Devices(adjusted', e) = Devices(adjusted, e) \cup (IF here = e THEN {entry[2]} ELSE {})
    BY <1>2, <1>3, <1>12, DevicesAppend
  <2>7. \A e \in Ep : IF Home(e) = library
                      THEN Settled(Devices(adjusted, e), e)'
                      ELSE Devices(adjusted', e) = Copied(e)'
    <3> SUFFICES ASSUME NEW e \in Ep
                 PROVE  IF Home(e) = library
                        THEN Settled(Devices(adjusted, e), e)'
                        ELSE Devices(adjusted', e) = Copied(e)'
      OBVIOUS
    <3>1. CASE Home(e) = library
      <4>1. Devices(adjusted', e) = Devices(adjusted, e)
        BY <2>2, <2>6, <3>1
      <4>2. Settled(Devices(adjusted, e), e)
        BY <1>11, <3>1
      <4> QED BY <3>1, <4>1, <4>2, <1>1, <1>12 DEF Settled, Asked, Found
    <3>2. CASE Home(e) # library
      BY <3>2, <2>6, <1>7, <1>11
    <3> QED BY <3>1, <3>2
  <2> QED BY <1>4, <1>9, <1>10, <2>1, <2>3, <2>5, <2>7
<1>13. ASSUME Matches(entry, library), NEW n \in 0 .. MaxDevices,
              known[key] \in {Unknown, n}, known' = [known EXCEPT ![key] = n],
              adjusted' = adjusted \o OnDevices(entry, n)
       PROVE  ListInv' /\ AdjustInv'
  <2> DEFINE list == OnDevices(entry, n)
             asked == IF request.device = NotGiven THEN entry[2] ELSE request.device
  <2>1. n \in Nat
    BY <1>13, PreparationAssumption
  <2>2. \A used : \A e \in Ep : Settled(used, e) => Settled(used, e)'
    BY <1>1, <1>13, <2>1, SettledKept
  <2>3. /\ list \in Seq(Entry) /\ Distinct(list)
        /\ \A i \in DOMAIN list : list[i][1] = here
        /\ Devices(list, here) = IF asked < 0 THEN 0 .. n - 1 ELSE IF asked < n THEN {asked} ELSE {}
    BY <1>2, <1>3, <2>1, OnDevicesFacts
  <2>4. /\ Home(here) = library /\ entry[2] = request.pinned[here]
        /\ \A i \in DOMAIN adjusted : adjusted[i][1] # here
    BY <1>13, CheckFacts
  <2> HIDE DEF list
  <2>5. adjusted' = adjusted \o list
    BY <1>13 DEF list
  <2>6. Distinct(adjusted')
    <3>1. \A i \in DOMAIN adjusted, j \in DOMAIN list : adjusted[i] # list[j]
      BY <2>3, <2>4
    <3> QED BY <3>1, <2>3, <2>5, <1>3, DistinctConcat
  <2>7. \A e : Devices(adjusted', e) = Devices(adjusted, e) \cup Devices(list, e)
    BY <2>3, <2>5, <1>3, DevicesConcat
  <2>8. \A e \in Ep : e # here => Devices(list, e) = {}
    BY <2>3 DEF Devices
  <2>9. Devices(adjusted, here) = {}
    BY <2>4 DEF Devices
  <2>10. \A i \in DOMAIN adjusted' : adjusted'[i][1] = here \/ \E j \in DOMAIN adjusted : adjusted'[i] = adjusted[j]
    <3> SUFFICES ASSUME NEW i \in DOMAIN adjusted'
                 PROVE  adjusted'[i][1] = here \/ \E j \in DOMAIN adjusted : adjusted'[i] = adjusted[j]
      OBVIOUS
    <3>1. /\ i \in 1 .. Len(adjusted) + Len(list) /\ Len(adjusted) \in Nat /\ Len(list) \in Nat
          /\ adjusted'[i] = IF i <= Len(adjusted) THEN adjusted[i] ELSE list[i - Len(adjusted)]
          /\ DOMAIN adjusted = 1 .. Len(adjusted) /\ DOMAIN list = 1 .. Len(list)
      BY <2>3, <2>5, <1>3, ConcatProperties
    <3>2. CASE i <= Len(adjusted)
      BY <3>1, <3>2
    <3>3. CASE i > Len(adjusted)
      <4>1. i - Len(adjusted) \in DOMAIN list
        BY <3>1, <3>3
      <4> QED BY <3>1, <3>3, <4>1, <2>3
    <3> QED BY <3>1, <3>2, <3>3
  <2>11. \A i \in DOMAIN adjusted' : \E k \in 1 .. seen + 1 : prepared[k][1] = adjusted'[i][1]
    <3> SUFFICES ASSUME NEW i \in DOMAIN adjusted'
                 PROVE  \E k \in 1 .. seen + 1 : prepared[k][1] = adjusted'[i][1]
      OBVIOUS
    <3>1. seen + 1 \in 1 .. seen + 1 /\ \A k \in 1 .. seen : k \in 1 .. seen + 1
      BY <1>2
    <3>2. CASE adjusted'[i][1] = here
      BY <3>1, <3>2
    <3>3. CASE adjusted'[i][1] # here
      BY <3>1, <3>3, <2>10, <1>3
    <3> QED BY <3>2, <3>3
  <2>12. ASSUME NEW e \in Ep, e = here
         PROVE  Settled(Devices(adjusted, e), e)'
    <3>1. Asked(e)' = asked
      BY <1>1, <2>4, <2>12 DEF Asked
    <3>2. known'[Key(e)] = n
      BY <1>1, <1>2, <1>13, <2>12 DEF PrepTypeOK, Keys
    <3>3. Found(e)' = 0 .. n - 1
      BY <3>2 DEF Found
    <3>4. Devices(adjusted', e) = IF asked < 0 THEN 0 .. n - 1 ELSE IF asked < n THEN {asked} ELSE {}
      BY <2>3, <2>7, <2>9, <2>12
    <3>5. asked \in Int
      BY <1>2, <1>3, RequestFacts DEF Entry, NotGiven
    <3> HIDE DEF asked
    <3>6. ~(asked < 0) /\ asked < n => asked \in 0 .. n - 1
      BY <2>1, <3>5
    <3> QED BY <3>1, <3>3, <3>4, <3>6 DEF Settled
  <2>13. \A e \in Ep : IF Home(e) = library
                      THEN Settled(Devices(adjusted, e), e)'
                      ELSE Devices(adjusted', e) = Copied(e)'
    <3> SUFFICES ASSUME NEW e \in Ep, e # here
                 PROVE  IF Home(e) = library
                        THEN Settled(Devices(adjusted, e), e)'
                        ELSE Devices(adjusted', e) = Copied(e)'
      BY <2>4, <2>12
    <3>1. Devices(adjusted', e) = Devices(adjusted, e)
      BY <2>7, <2>8
    <3>2. Settled(Devices(adjusted, e), e) => Settled(Devices(adjusted, e), e)'
      BY <2>2, <3>1 DEF Settled
    <3> QED BY <3>1, <3>2, <1>7, <1>11
  <2> QED BY <1>9, <1>10, <2>2, <2>6, <2>11, <2>13
<1>14. CASE Matches(entry, library) /\ UNCHANGED <<known, adjusted>>
  <2>1. \A used : \A e \in Ep : Settled(used, e)' <=> Settled(used, e)
    BY <1>1, <1>14 DEF Settled, Asked, Found
  <2>2. Home(here) = library
    BY <1>14, CheckFacts
  <2>3. \A i \in DOMAIN adjusted' : \E k \in 1 .. seen + 1 : prepared[k][1] = adjusted'[i][1]
    <3>1. \A k \in 1 .. seen : k \in 1 .. seen + 1
      BY <1>2
    <3> QED BY <3>1, <1>3, <1>14
  <2>4. \A e \in Ep : IF Home(e) = library
                      THEN Settled(Devices(adjusted, e), e)'
                      ELSE Devices(adjusted', e) = Copied(e)'
    <3> SUFFICES ASSUME NEW e \in Ep
                 PROVE  IF Home(e) = library
                        THEN Settled(Devices(adjusted, e), e)'
                        ELSE Devices(adjusted', e) = Copied(e)'
      OBVIOUS
    <3>1. CASE Home(e) = library
      <4>1. Settled(Devices(adjusted, e), e)
        BY <1>11, <3>1
      <4>2. Settled(Devices(adjusted, e), e)'
        BY <4>1, <1>1, <1>14 DEF Settled, Asked, Found, Devices
      <4> QED BY <3>1, <4>2
    <3>2. CASE Home(e) # library
      BY <3>2, <2>2, <1>7, <1>11, <1>14
    <3> QED BY <3>1, <3>2
  <2>5. Distinct(adjusted')
    BY <1>3, <1>14
  <2> QED BY <1>4, <1>9, <1>10, <2>1, <2>3, <2>4, <2>5
<1> QED BY <1>4, <1>12, <1>13, <1>14 DEF CheckEntry

LEMMA EndLibraryKeeps ==
  ASSUME PrepInv, EndLibrary
  PROVE  LoadInv' /\ ListInv' /\ AdjustInv'
<1>1. /\ PrepTypeOK /\ ListInv /\ AdjustInv /\ prep = "devices" /\ prep' = "libraries"
      /\ seen = Len(prepared) /\ prepared' = adjusted /\ UNCHANGED <<request, libraries, known>>
  BY DEF PrepInv, EndLibrary
<1>2. Distinct(adjusted) /\ library \notin libraries
  BY <1>1 DEF AdjustInv
<1>3. DOMAIN prepared = 1 .. seen
  BY <1>1 DEF PrepTypeOK
<1>4. \A e \in Ep : IF Home(e) = library
                    THEN Settled(Devices(adjusted, e), e)
                    ELSE Devices(adjusted, e) = Devices(prepared, e)
  BY <1>1, <1>3 DEF AdjustInv, Devices
<1>5. \A e \in Ep : IF Home(e) \in libraries \cup {library}
                    THEN Fresh(Devices(prepared, e), e)
                    ELSE NameOf[e] \in Enumerating => Settled(Devices(prepared, e), e)
  BY <1>1 DEF ListInv, Waiting
<1>6. \A e \in Ep : IF Home(e) \in libraries
                    THEN Fresh(Devices(adjusted, e), e)
                    ELSE NameOf[e] \in Enumerating => Settled(Devices(adjusted, e), e)
  BY <1>2, <1>4, <1>5
<1>7. Waiting' = libraries
  BY <1>1 DEF Waiting
<1>8. \A e \in Ep : /\ Fresh(Devices(prepared, e), e)' <=> Fresh(Devices(adjusted, e), e)
                    /\ Settled(Devices(prepared, e), e)' <=> Settled(Devices(adjusted, e), e)
  BY <1>1 DEF Fresh, Settled, Asked, Found, Devices
<1>9. ListInv'
  BY <1>1, <1>2, <1>6, <1>7, <1>8 DEF ListInv, Distinct
<1>10. LoadInv'
  <2>1. LoadInv /\ UNCHANGED nextEp
    BY DEF PrepInv, EndLibrary
  <2> QED BY <2>1, <1>1 DEF LoadInv
<1> QED BY <1>1, <1>9, <1>10 DEF AdjustInv

\* The steps between the loops: what is not waiting has no prepared entry yet.
LEMMA PhaseKeeps ==
  ASSUME PrepInv, NoPython \/ EndLoading \/ EndPreparation
  PROVE  LoadInv' /\ ListInv' /\ AdjustInv'
<1>1. /\ PrepTypeOK /\ LoadInv /\ ListInv /\ prep' \in {"libraries", "done"}
      /\ UNCHANGED <<request, nextEp, prepared, libraries, known>>
      /\ prep \in {"load", "libraries"}
  BY DEF PrepInv, NoPython, EndLoading, EndPreparation
<1>2. \A e \in Ep : prep = "load" /\ Home(e) \notin libraries => Devices(prepared, e) = {}
  BY <1>1 DEF LoadInv, Devices
<1>3. Waiting = libraries /\ Waiting' = libraries
  BY <1>1 DEF Waiting
<1>4. \A e \in Ep : /\ Fresh(Devices(prepared, e), e)' <=> Fresh(Devices(prepared, e), e)
                    /\ Settled(Devices(prepared, e), e)' <=> Settled(Devices(prepared, e), e)
  BY <1>1 DEF Fresh, Settled, Asked, Found, Devices
<1>5. \A e \in Ep : IF Home(e) \in libraries
                    THEN Fresh(Devices(prepared, e), e)
                    ELSE NameOf[e] \in Enumerating => Settled(Devices(prepared, e), e)
  <2> SUFFICES ASSUME NEW e \in Ep
               PROVE  IF Home(e) \in libraries
                      THEN Fresh(Devices(prepared, e), e)
                      ELSE NameOf[e] \in Enumerating => Settled(Devices(prepared, e), e)
    OBVIOUS
  <2>1. CASE prep = "load" /\ Home(e) \notin libraries
    BY <2>1, <1>2 DEF Settled
  <2>2. CASE prep = "load" /\ Home(e) \in libraries
    BY <2>2, <1>1 DEF ListInv
  <2>3. CASE prep # "load"
    BY <2>3, <1>1, <1>3 DEF ListInv
  <2> QED BY <2>1, <2>2, <2>3
<1>6. ListInv'
  <2>1. Distinct(prepared)'
    BY <1>1 DEF ListInv, Distinct
  <2> QED BY <2>1, <1>1, <1>3, <1>4, <1>5 DEF ListInv
<1>7. prep' = "done" => libraries = {}
  BY DEF PrepInv, LoadInv, NoPython, EndLoading, EndPreparation
<1>8. LoadInv'
  BY <1>1, <1>7 DEF LoadInv
<1> QED BY <1>1, <1>6, <1>8 DEF AdjustInv

LEMMA PrepStep ==
  ASSUME PrepInv, PrepNext
  PROVE  PrepInv'
<1>1. PrepTypeOK'
  BY PrepTypeStep DEF PrepInv
<1> QED BY <1>1, LoadKeeps, VisitKeeps, CheckKeeps, EndLibraryKeeps, PhaseKeeps DEF PrepNext, PrepInv

LEMMA PrepUnchanged ==
  ASSUME PrepInv, UNCHANGED prepVars
  PROVE  PrepInv'
<1> USE DEF prepVars
<1>1. PrepTypeOK' /\ LoadInv'
  BY DEF PrepInv, PrepTypeOK, LoadInv
<1>2. \A e \in Ep : /\ Devices(prepared, e)' = Devices(prepared, e)
                    /\ Devices(adjusted, e)' = Devices(adjusted, e)
                    /\ Asked(e)' = Asked(e) /\ Found(e)' = Found(e)
  BY DEF Devices, Asked, Found
<1>3. Waiting' = Waiting
  BY DEF Waiting
<1>4. ListInv'
  <2>1. \A e \in Ep : /\ Fresh(Devices(prepared, e), e)' <=> Fresh(Devices(prepared, e), e)
                      /\ Settled(Devices(prepared, e), e)' <=> Settled(Devices(prepared, e), e)
    BY <1>2 DEF Fresh, Settled
  <2> QED BY <1>3, <2>1 DEF PrepInv, ListInv, Distinct
<1>5. AdjustInv'
  <2>1. \A e \in Ep : Settled(Devices(adjusted, e), e)' <=> Settled(Devices(adjusted, e), e)
    BY <1>2 DEF Settled
  <2> QED BY <1>2, <2>1 DEF PrepInv, AdjustInv, Distinct
<1> QED BY <1>1, <1>4, <1>5 DEF PrepInv

\* README.md, --device-id and device_id: an entry whose devices are enumerated stands
\* for what was asked for, each device once.
LEMMA DevicesFollow ==
  ASSUME PrepInv
  PROVE  DevicesAreAsAsked
<1> SUFFICES ASSUME prep = "done", NEW e \in Ep, NameOf[e] \in Enumerating, EntriesOf(e) # {}
             PROVE  LET asked == IF request.device = NotGiven THEN request.pinned[e] ELSE request.device
                        found == 0 .. known[Key(e)] - 1
                        used == {prepared[i][2] : i \in EntriesOf(e)}
                    IN /\ used = (IF asked < 0 THEN found ELSE {asked})
                       /\ used \subseteq found
                       /\ \A i, j \in EntriesOf(e) : prepared[i] = prepared[j] => i = j
  BY DEF DevicesAreAsAsked
<1>1. Distinct(prepared) /\ (Home(e) \notin libraries => Settled(Devices(prepared, e), e))
  BY DEF PrepInv, ListInv, Waiting
<1>2. {prepared[i][2] : i \in EntriesOf(e)} = Devices(prepared, e)
  BY DEF Devices, EntriesOf
<1>3. Devices(prepared, e) # {}
  BY DEF Devices, EntriesOf
<1>4. Home(e) \notin libraries
  BY DEF PrepInv, LoadInv
<1>5. Settled(Devices(prepared, e), e)
  BY <1>1, <1>4
<1>6. \A i, j \in EntriesOf(e) : prepared[i] = prepared[j] => i = j
  BY <1>1 DEF Distinct, EntriesOf
<1> QED BY <1>2, <1>3, <1>5, <1>6 DEF Settled, Asked, Found

-----------------------------------------------------------------------------
(* The stage: the initial state and types.                                 *)

LEMMA StageInitInv == Init => IInv
<1> SUFFICES ASSUME Init PROVE IInv
  OBVIOUS
<1>1. PrepInv
  BY PrepInitInv DEF Init
<1>2. SchedulerTypeOK /\ ProgressTypeOK
  BY NAssumption DEF Init, SchedulerInit, ProgressInit, SchedulerTypeOK, ProgressTypeOK, Status
<1>3. /\ pairOf = <<>> /\ groups = <<>> /\ Created = {} /\ Len(pairOf) = 0 /\ Len(groups) = 0
      /\ model = 1 /\ position = 1 /\ prepared = <<>>
  BY DEF Init, PrepInit, Created
<1>4. TypeOK
  <2>1. pairOf \in Seq(Model \X (1 .. Len(prepared))) /\ groups \in Seq((SUBSET Created) \ {{}})
    BY <1>3
  <2>2. /\ model \in 1 .. 3 /\ position \in 1 .. Len(prepared) + 1 /\ Len(pairOf) <= N
        /\ group \in 0 .. Len(groups)
    BY <1>3, NAssumption DEF Init
  <2>3. /\ main = "prepare" /\ scenario \in Scenarios /\ lastName = 0 /\ executed = {} /\ anyRun = FALSE
        /\ reportedTasks = {} /\ step = "none" /\ toCancel = {} /\ storing = FALSE /\ result = "none"
    BY DEF Init
  <2> QED BY <1>1, <1>2, <2>1, <2>2, <2>3 DEF PrepInv, TypeOK
<1>5. StartInv /\ GroupInv
  BY <1>3 DEF StartInv, GroupInv, Early, Init, SchedulerInit, ProgressInit
<1>6. PairInv
  BY <1>3 DEF PairInv, Init
<1>7. PlaceInv
  BY <1>3 DEF PlaceInv, Init, SchedulerInit, ProgressInit, Joinable, Watching, NoTask
<1>8. RunInv
  BY DEF RunInv, Init, SchedulerInit, ProgressInit
<1>9. OtherInv
  BY <1>3 DEF OtherInv
<1> QED BY <1>1, <1>4, <1>5, <1>6, <1>7, <1>8, <1>9 DEF IInv, StageInv

TaskSteps == {"enter", "validate", "setup", "start", "work", "complete", "report"}

\* What BenchmarkTask does between its begin and its report.
Work ==
  \/ ConstructorFails \/ Enter \/ ValidationFails \/ SetInitializing \/ SetupFails \/ SetupDone
  \/ SetRunning \/ WorkFails \/ WorkLeft \/ WorkDone \/ SetCompleted

LEMMA WorkFacts ==
  ASSUME IInv, Work
  PROVE  /\ thread = "task" /\ current \in Task /\ step # "none" /\ step # "report"
         /\ step' \in TaskSteps
         /\ \E s \in Status : status' = [status EXCEPT ![current] = s]
         /\ status[current] = StatusOf(step) =>
              /\ status[current] \notin FinalStatus
              /\ step' = "report" \/ status'[current] = StatusOf(step')
         /\ UNCHANGED <<prepVars, schedulerVars, tracked, shown, interrupt, console, main,
                 buildVars, group, anyRun, reportedTasks, toCancel, storing, result>>
<1>1. /\ thread = "task" /\ step # "none" /\ step # "report" /\ step' \in TaskSteps
      /\ UNCHANGED <<prepVars, schedulerVars, tracked, shown, interrupt, console, main,
                 buildVars, group, anyRun, reportedTasks, toCancel, storing, result>>
  BY DEF Work, ConstructorFails, Enter, ValidationFails, SetInitializing, SetupFails, SetupDone,
     SetRunning, WorkFails, WorkLeft, WorkDone, SetCompleted, InTask, Goto, TaskSteps
<1>2. current \in Task /\ status \in [Task -> Status]
  BY <1>1 DEF IInv, TypeOK, SchedulerTypeOK, ProgressTypeOK, StageInv, PlaceInv
<1>3. status[current] = StatusOf(step) =>
              /\ status[current] \notin FinalStatus
              /\ step' = "report" \/ status'[current] = StatusOf(step')
  <2>1. CASE ConstructorFails \/ ValidationFails \/ SetupFails \/ WorkFails \/ WorkLeft \/ SetCompleted
    BY <2>1 DEF ConstructorFails, ValidationFails, SetupFails, WorkFails, WorkLeft, SetCompleted, InTask, Goto,
       StatusOf, FinalStatus
  <2>2. CASE Enter
    BY <2>2 DEF Enter, InTask, Goto, StatusOf, FinalStatus
  <2>3. CASE SetInitializing
    BY <2>3, <1>2 DEF SetInitializing, SetStatus, InTask, Goto, StatusOf, FinalStatus
  <2>4. CASE SetupDone
    BY <2>4 DEF SetupDone, InTask, Goto, StatusOf, FinalStatus
  <2>5. CASE SetRunning
    BY <2>5, <1>2 DEF SetRunning, SetStatus, InTask, Goto, StatusOf, FinalStatus
  <2>6. CASE WorkDone
    BY <2>6 DEF WorkDone, InTask, Goto, StatusOf, FinalStatus
  <2> QED BY <2>1, <2>2, <2>3, <2>4, <2>5, <2>6 DEF Work
<1>4. \E s \in Status : status' = [status EXCEPT ![current] = s]
  <2>1. CASE UNCHANGED status
    <3>1. status[current] \in Status /\ status' = [status EXCEPT ![current] = status[current]]
      BY <1>2, <2>1
    <3> QED BY <3>1
  <2>2. CASE \E s \in {"kFailed", "kInitializing", "kRunning", "kCompleted"} : SetStatus(s)
    BY <2>2 DEF SetStatus, Status
  <2> QED BY <2>1, <2>2 DEF Work, ConstructorFails, Enter, ValidationFails, SetInitializing, SetupFails,
         SetupDone, SetRunning, WorkFails, WorkLeft, WorkDone, SetCompleted
<1> QED BY <1>1, <1>2, <1>3, <1>4

\* Nothing runs before the first group.
LEMMA NotEarly ==
  ASSUME IInv, Work \/ BeginTask \/ EndThread \/ ExecutorThrows \/ ReportResult
  PROVE  ~Early /\ main \notin {"prepare", "build"} /\ ~Joinable /\ result = result'
<1>1. thread \in {"loop", "task"} /\ UNCHANGED result
  BY WorkFacts DEF BeginTask, EndThread, ExecutorThrows, ReportResult, TakeTask, StopLoop, EndTask, InTask, runVars
<1> QED BY <1>1 DEF IInv, StageInv, StartInv, Early, Joinable

LEMMA StartStep ==
  ASSUME IInv, [Next]_vars
  PROVE  StartInv'
<1>t. StartInv /\ PlaceInv /\ GroupInv
  BY DEF IInv, StageInv
<1> USE DEF buildVars, schedulerVars, progressVars, runVars
<1>1. CASE Prepare
  <2>1. main = "prepare" /\ UNCHANGED <<schedulerVars, progressVars, buildVars, runVars>>
    BY <1>1 DEF Prepare
  <2> QED BY <2>1, <1>t DEF StartInv, Early
<1>2. CASE EnterStage
  BY <1>2, <1>t DEF EnterStage, Return, StartInv, Early, prepVars
<1>3. CASE SkipModel \/ AddExecutor \/ EndModel
  <2>1. main = "build" /\ UNCHANGED <<prep, schedulerVars, progressVars, runVars>>
    BY <1>3 DEF SkipModel, AddExecutor, EndModel, prepVars
  <2> QED BY <2>1, <1>t DEF StartInv, Early
<1>4. CASE EndBuild \/ NextGroup \/ EndStage \/ GroupReported
  <2>1. /\ main \in {"build", "next", "reported"} /\ UNCHANGED prep
        /\ \/ main' \in {"next", "report"} /\ UNCHANGED result
           \/ main' = "returned" /\ result' \in {"true", "false"}
    <3>1. CASE EndBuild \/ GroupReported
      BY <3>1 DEF EndBuild, GroupReported, prepVars
    <3>2. CASE NextGroup
      BY <3>2 DEF NextGroup, prepVars
    <3>3. CASE EndStage
      BY <3>3 DEF EndStage, Return, prepVars
    <3> QED BY <1>4, <3>1, <3>2, <3>3
  <2> QED BY <2>1, <1>t DEF StartInv, Early
<1>5. CASE Report \/ BeginCancel \/ CancelTest \/ CancelStore \/ ReturnInterrupted
  <2>1. /\ main \notin {"prepare", "build", "returned"} /\ UNCHANGED prep
        /\ \/ main' \notin {"prepare", "build", "returned"} /\ UNCHANGED result
           \/ main' = "returned" /\ result' = "false"
    <3>1. CASE Report
      BY <3>1 DEF Report, StartReport, Update, PollInterrupt, AcceptInterrupt, DeclineInterrupt, JoinAndReturn,
         prepVars
    <3>2. CASE BeginCancel \/ CancelTest
      BY <3>2 DEF BeginCancel, CancelTest, prepVars
    <3>3. CASE CancelStore \/ ReturnInterrupted
      BY <3>3 DEF CancelStore, ReturnInterrupted, Return, prepVars
    <3> QED BY <1>5, <3>1, <3>2, <3>3
  <2> QED BY <2>1, <1>t DEF StartInv, Early
<1>6. CASE Work \/ BeginTask \/ EndThread \/ ExecutorThrows \/ ReportResult
  <2>1. UNCHANGED <<main, result, prep, groups, group>>
    BY <1>6, WorkFacts DEF BeginTask, EndThread, ExecutorThrows, ReportResult, prepVars
  <2>2. main \notin {"prepare", "build"} /\ result # "skipped"
    BY <1>6, <1>t, NotEarly DEF StartInv, Joinable
  <2> QED BY <2>1, <2>2, <1>t DEF StartInv, Early
<1>7. CASE Interrupt \/ UNCHANGED vars
  <2>1. UNCHANGED <<main, result, prep, model, position, executed, pairOf, groups, lastName, group, queue,
                    tracked, shown, thread, canceled, reportedTasks, status>>
    BY <1>7 DEF Interrupt, UserInterrupt, vars, prepVars
  <2> QED BY <2>1, <1>t DEF StartInv, Early
<1> QED BY <1>1, <1>2, <1>3, <1>4, <1>5, <1>6, <1>7 DEF Next, MainNext, WorkerNext, Work, Terminated

-----------------------------------------------------------------------------
(* The loops over files and entries.                                       *)

LEMMA BuildFrame ==
  ASSUME IInv, [Next]_vars, ~(SkipModel \/ AddExecutor \/ EndModel)
  PROVE  /\ UNCHANGED buildVars
         /\ UNCHANGED prepVars \/ (main = "prepare" /\ main' = "prepare" /\ PrepNext)
<1> USE DEF buildVars, prepVars
<1>1. CASE Prepare
  <2>1. main = "prepare" /\ PrepNext /\ UNCHANGED <<progressVars, buildVars>>
    BY <1>1 DEF Prepare
  <2> QED BY <2>1 DEF progressVars
<1>2. CASE EnterStage \/ EndBuild \/ GroupReported
  BY <1>2 DEF EnterStage, EndBuild, GroupReported
<1>3. CASE NextGroup \/ EndStage
  BY <1>3 DEF NextGroup, EndStage
<1>4. CASE Report
  BY <1>4 DEF Report
<1>5. CASE BeginCancel \/ CancelTest
  BY <1>5 DEF BeginCancel, CancelTest
<1>6. CASE CancelStore \/ ReturnInterrupted
  BY <1>6 DEF CancelStore, ReturnInterrupted
<1>7. CASE Work
  BY <1>7, WorkFacts
<1>8. CASE BeginTask \/ EndThread
  BY <1>8 DEF BeginTask, EndThread
<1>9. CASE ExecutorThrows \/ ReportResult
  BY <1>9 DEF ExecutorThrows, ReportResult
<1>10. CASE Interrupt \/ UNCHANGED vars
  BY <1>10 DEF Interrupt, vars
<1>11. \/ Prepare \/ EnterStage \/ EndBuild \/ GroupReported \/ NextGroup \/ EndStage \/ Report
      \/ BeginCancel \/ CancelTest \/ CancelStore \/ ReturnInterrupted \/ Work \/ BeginTask
      \/ EndThread \/ ExecutorThrows \/ ReportResult \/ Interrupt \/ UNCHANGED vars
  BY DEF Next, MainNext, WorkerNext, Work, Terminated
<1> QED BY <1>1, <1>2, <1>3, <1>4, <1>5, <1>6, <1>7, <1>8, <1>9, <1>10, <1>11

\* A pair that is made into a task: a member of the last group, or a new group.
LEMMA AddFacts ==
  ASSUME IInv, AddExecutor, Uses(model, prepared[position][1])
  PROVE  LET t == Len(pairOf) + 1
         IN /\ pairOf' = Append(pairOf, <<model, position>>)
            /\ t \in Task /\ Created' = Created \cup {t} /\ \A u \in Created : u < t
            /\ lastName' \in Model
            /\ \/ /\ groups # <<>>
                  /\ groups' = [groups EXCEPT ![Len(groups)] = @ \cup {t}]
               \/ groups' = Append(groups, {t})
<1> DEFINE t == Len(pairOf) + 1
<1>1. /\ pairOf \in Seq(Model \X (1 .. Len(prepared))) /\ Len(pairOf) \in Nat /\ model \in Model
      /\ GroupInv /\ scenario \in Scenarios
  BY DEF IInv, TypeOK, AddExecutor, StageInv
<1>2. /\ pairOf' = Append(pairOf, <<model, position>>) /\ Len(pairOf) < N
      /\ lastName' = DisplayName(model)
      /\ groups' = IF lastName = lastName'
                   THEN [groups EXCEPT ![Len(groups)] = @ \cup {t}]
                   ELSE Append(groups, {t})
  BY DEF AddExecutor
<1>3. t \in Task
  BY <1>1, <1>2, NAssumption DEF Task
<1>4. Len(pairOf') = t
  BY <1>2, <1>1
<1>5. Created' = Created \cup {t} /\ \A u \in Created : u < t
  BY <1>1, <1>4 DEF Created
<1>6. lastName' \in Model /\ lastName' # 0
  BY <1>1, <1>2 DEF DisplayName, Model
<1>7. lastName = lastName' => groups # <<>>
  BY <1>1, <1>6 DEF GroupInv
<1> QED BY <1>2, <1>3, <1>5, <1>6, <1>7

LEMMA PairStep ==
  ASSUME IInv, [Next]_vars
  PROVE  PairInv'
<1>t. /\ StartInv /\ PairInv /\ StartInv' /\ pairOf \in Seq(Model \X (1 .. Len(prepared)))
      /\ model \in 1 .. 3 /\ position \in 1 .. Len(prepared) + 1 /\ executed \subseteq Model
      /\ prepared \in Seq(Entry) /\ scenario \in Scenarios
  BY StartStep DEF IInv, StageInv, TypeOK, PrepInv, PrepTypeOK
<1>s. scenario.sameContent \in BOOLEAN
  BY <1>t, ScenarioAssumption
<1>0. CASE UNCHANGED <<model, position, executed, pairOf, scenario, prepared>>
            /\ (main' \notin {"prepare", "build"} /\ result' # "skipped" => model = 3)
  <2>1. Created' = Created /\ \A m, e : Uses(m, e)' <=> Uses(m, e)
    BY <1>0 DEF Created, Uses
  <2>2. \A m, i : Reached(m, i)' <=> Reached(m, i)
    BY <1>0 DEF Reached
  <2>3. \A m \in Model, i \in DOMAIN prepared' :
          (Reached(m, i) /\ Uses(m, prepared[i][1]))' <=> \E t \in Created' : pairOf'[t] = <<m, i>>
    BY <1>0, <2>1, <2>2, <1>t DEF PairInv
  <2>4. \A t, u \in Created' : pairOf'[t] = pairOf'[u] => t = u
    BY <1>0, <2>1, <1>t DEF PairInv
  <2>5. /\ model' = 1 => executed' \subseteq {1} /\ (position' = 1 => executed' = {})
        /\ model' = 2 => IF position' = 1 THEN executed' = {1} ELSE ~scenario'.sameContent
        /\ main' \notin {"prepare", "build"} /\ result' # "skipped" => model' = 3
        /\ model' = 3 => position' = 1
    BY <1>0, <1>t DEF PairInv
  <2> QED BY <2>3, <2>4, <2>5 DEF PairInv
<1>1. CASE ~(SkipModel \/ AddExecutor \/ EndModel)
  <2>1. UNCHANGED <<model, position, executed, pairOf, scenario>>
    BY <1>1, BuildFrame DEF buildVars
  <2>2. CASE main' = "prepare"
    <3>1. model' = 1 /\ position' = 1 /\ executed' = {} /\ pairOf' = <<>>
      BY <2>2, <1>t DEF StartInv
    <3>2. Created' = {}
      BY <3>1 DEF Created
    <3>3. \A m \in Model, i \in DOMAIN prepared' : ~Reached(m, i)'
      <4>1. prepared' \in Seq(Entry)
        <5>1. PrepTypeOK'
          <6>1. CASE UNCHANGED prepVars
            BY <6>1, PrepUnchanged DEF IInv, PrepInv
          <6>2. CASE PrepNext
            BY <6>2, PrepStep DEF IInv, PrepInv
          <6> QED BY <6>1, <6>2, <1>1, BuildFrame
        <5> QED BY <5>1 DEF PrepTypeOK
      <4>2. \A i \in DOMAIN prepared' : i \in Nat /\ i >= 1
        BY <4>1
      <4> QED BY <3>1, <4>2 DEF Reached, Model
    <3> QED BY <2>2, <3>1, <3>2, <3>3 DEF PairInv
  <2>3. CASE main' # "prepare"
    <3>1. UNCHANGED prepared
      BY <1>1, <2>3, BuildFrame DEF prepVars
    <3>2. main' \notin {"prepare", "build"} /\ result' # "skipped" => model = 3
      <4>1. CASE EnterStage
        BY <4>1 DEF EnterStage, Return
      <4>2. CASE EndBuild
        BY <4>2 DEF EndBuild
      <4>3. CASE ~EnterStage /\ ~EndBuild /\ main \in {"prepare", "build"}
        <5>1. Prepare \/ Interrupt \/ UNCHANGED vars
          BY <4>3, <1>1, NotEarly DEF Next, MainNext, WorkerNext, Work, Terminated,
             SkipModel, AddExecutor, EndModel, NextGroup, EndStage, Report, StartReport, Update, PollInterrupt,
             AcceptInterrupt, DeclineInterrupt, JoinAndReturn, GroupReported, BeginCancel, CancelTest,
             CancelStore, ReturnInterrupted
        <5>2. UNCHANGED main
          BY <5>1 DEF Prepare, Interrupt, UserInterrupt, vars, progressVars
        <5> QED BY <5>2, <4>3
      <4>4. CASE main \notin {"prepare", "build"}
        <5>1. result' # "skipped" => result # "skipped"
          <6>1. result = "skipped" => main = "returned"
            BY <1>t DEF StartInv
          <6>2. main = "returned" /\ result # result' => FALSE
            BY <1>1 DEF Next, MainNext, WorkerNext, Terminated, Prepare, EnterStage, EndBuild, NextGroup,
               EndStage, Report, StartReport, Update, PollInterrupt, AcceptInterrupt, DeclineInterrupt,
               JoinAndReturn, GroupReported, BeginCancel, CancelTest, CancelStore, ReturnInterrupted,
               BeginTask, EndThread, ConstructorFails, Enter, ValidationFails, SetInitializing, SetupFails,
               SetupDone, SetRunning, WorkFails, WorkLeft, WorkDone, SetCompleted, ExecutorThrows,
               ReportResult, Goto, Interrupt, vars, runVars
          <6> QED BY <6>1, <6>2
        <5> QED BY <4>4, <5>1, <1>t DEF PairInv
      <4> QED BY <4>1, <4>2, <4>3, <4>4
    <3> QED BY <1>0, <2>1, <3>1, <3>2
  <2> QED BY <2>2, <2>3
<1>2. CASE SkipModel
  <2>1. /\ main = "build" /\ main' = "build" /\ model \in Model /\ position = 1 /\ Content(model) \in executed
        /\ model' = model + 1 /\ UNCHANGED <<position, executed, pairOf, scenario, prepared>>
    BY <1>2 DEF SkipModel, progressVars, prepVars
  <2>2. model = 2 /\ scenario.sameContent
    BY <2>1, <1>t, <1>s DEF PairInv, Content, Model
  <2>3. \A m \in Model, i \in DOMAIN prepared : Reached(m, i)' <=> Reached(m, i)
    BY <2>1, <2>2, <1>t DEF Reached, Model
  <2>4. Created' = Created /\ \A m, e : Uses(m, e)' <=> Uses(m, e)
    BY <2>1 DEF Created, Uses
  <2>5. \A m \in Model, i \in DOMAIN prepared' :
          (Reached(m, i) /\ Uses(m, prepared[i][1]))' <=> \E t \in Created' : pairOf'[t] = <<m, i>>
    BY <2>1, <2>3, <2>4, <1>t DEF PairInv
  <2>6. \A t, u \in Created' : pairOf'[t] = pairOf'[u] => t = u
    BY <2>1, <2>4, <1>t DEF PairInv
  <2> QED BY <2>1, <2>2, <2>5, <2>6 DEF PairInv
<1>3. CASE EndModel
  <2>1. /\ main = "build" /\ main' = "build" /\ model \in Model /\ position > Len(prepared)
        /\ position = 1 => Content(model) \notin executed
        /\ executed' = executed \cup {Content(model)}
        /\ model' = model + 1 /\ position' = 1 /\ UNCHANGED <<pairOf, scenario, prepared>>
    BY <1>3 DEF EndModel, progressVars, prepVars
  <2>2. Created' = Created /\ \A m, e : Uses(m, e)' <=> Uses(m, e)
    BY <2>1 DEF Created, Uses
  <2>3. \A i \in DOMAIN prepared : i \in Nat /\ i >= 1 /\ i < position
    BY <2>1, <1>t
  <2>4. \A m \in Model, i \in DOMAIN prepared : Reached(m, i)' <=> Reached(m, i)
    <3>1. CASE model = 1
      BY <2>1, <2>3, <3>1 DEF Reached, Model
    <3>2. CASE model = 2
      <4>1. DOMAIN prepared # {} => ~scenario.sameContent
        BY <2>1, <2>3, <3>2, <1>t DEF PairInv
      <4> QED BY <2>1, <2>3, <3>2, <4>1 DEF Reached, Model
    <3> QED BY <2>1, <3>1, <3>2 DEF Model
  <2>5. \A m \in Model, i \in DOMAIN prepared' :
          (Reached(m, i) /\ Uses(m, prepared[i][1]))' <=> \E t \in Created' : pairOf'[t] = <<m, i>>
    BY <2>1, <2>2, <2>4, <1>t DEF PairInv
  <2>6. \A t, u \in Created' : pairOf'[t] = pairOf'[u] => t = u
    BY <2>1, <2>2, <1>t DEF PairInv
  <2>7. CASE model = 1
    <3>1. Content(model) = 1 /\ executed \subseteq {1}
      BY <2>7, <1>t DEF PairInv, Content
    <3>2. executed' = {1} /\ model' = 2 /\ position' = 1
      <4>1. executed' = executed \cup {1}
        BY <3>1, <2>1
      <4>2. executed' = {1}
        BY <3>1, <4>1
      <4> QED BY <2>1, <2>7, <4>2
    <3>3. main' = "build"
      BY <2>1
    <3> QED BY <3>3, <3>2, <2>5, <2>6 DEF PairInv
  <2>8. CASE model = 2
    <3>1. model' = 3 /\ position' = 1 /\ main' = "build"
      BY <2>1, <2>8
    <3> QED BY <3>1, <2>5, <2>6 DEF PairInv
  <2> QED BY <2>1, <2>7, <2>8 DEF Model
<1>4. CASE AddExecutor
  <2>1. /\ main = "build" /\ main' = "build" /\ model \in Model /\ position <= Len(prepared)
        /\ position = 1 => Content(model) \notin executed
        /\ position' = position + 1 /\ executed' = executed \cup {Content(model)}
        /\ UNCHANGED <<model, scenario, prepared>>
    BY <1>4 DEF AddExecutor, progressVars, prepVars
  <2>2. position \in DOMAIN prepared /\ position \in Nat
    BY <2>1, <1>t
  <2>3. \A m, e : Uses(m, e)' <=> Uses(m, e)
    BY <2>1 DEF Uses
  <2>4. \A m \in Model, i \in DOMAIN prepared :
          Reached(m, i)' <=> Reached(m, i) \/ (m = model /\ i = position)
    BY <2>1, <2>2, <1>t DEF Reached, Model
  <2>5. ~Reached(model, position)
    BY <2>2, <2>1, <1>t DEF Reached, Model
  <2>6. ~\E t \in Created : pairOf[t] = <<model, position>>
    BY <2>1, <2>2, <2>5, <1>t DEF PairInv
  <2>7. /\ model = 1 => executed' \subseteq {1}
        /\ model = 2 => ~scenario.sameContent
        /\ position' # 1 /\ model # 3
    BY <2>1, <2>2, <1>t, <1>s DEF PairInv, Content, Model
  <2>8. CASE ~Uses(model, prepared[position][1])
    <3>1. UNCHANGED pairOf /\ Created' = Created
      BY <1>4, <2>8 DEF AddExecutor, Created
    <3>2. \A m \in Model, i \in DOMAIN prepared' :
            (Reached(m, i) /\ Uses(m, prepared[i][1]))' <=> \E t \in Created' : pairOf'[t] = <<m, i>>
      <4> SUFFICES ASSUME NEW m \in Model, NEW i \in DOMAIN prepared
                   PROVE  (Reached(m, i) \/ (m = model /\ i = position)) /\ Uses(m, prepared[i][1])
                            <=> \E t \in Created : pairOf[t] = <<m, i>>
        BY <2>1, <2>3, <2>4, <3>1
      <4>1. Reached(m, i) /\ Uses(m, prepared[i][1]) <=> \E t \in Created : pairOf[t] = <<m, i>>
        BY <1>t DEF PairInv
      <4> QED BY <2>8, <4>1
    <3>3. \A t, u \in Created' : pairOf'[t] = pairOf'[u] => t = u
      BY <3>1, <1>t DEF PairInv
    <3> QED BY <2>1, <2>7, <3>2, <3>3 DEF PairInv
  <2>9. CASE Uses(model, prepared[position][1])
    <3> DEFINE n == Len(pairOf) + 1
    <3>1. /\ pairOf' = Append(pairOf, <<model, position>>) /\ Created' = Created \cup {n}
          /\ Created = 1 .. Len(pairOf) /\ Len(pairOf) \in Nat
      BY <1>4, <2>9, <1>t, AddFacts DEF Created
    <3>2. pairOf'[n] = <<model, position>> /\ \A t \in Created : pairOf'[t] = pairOf[t]
      BY <3>1, <1>t
    <3> HIDE DEF n
    <3>3. \A m \in Model, i \in DOMAIN prepared' :
            (Reached(m, i) /\ Uses(m, prepared[i][1]))' <=> \E t \in Created' : pairOf'[t] = <<m, i>>
      <4> SUFFICES ASSUME NEW m \in Model, NEW i \in DOMAIN prepared
                   PROVE  (Reached(m, i) \/ (m = model /\ i = position)) /\ Uses(m, prepared[i][1])
                            <=> \E t \in Created' : pairOf'[t] = <<m, i>>
        BY <2>1, <2>3, <2>4
      <4>1. (\E t \in Created' : pairOf'[t] = <<m, i>>)
              <=> (\E t \in Created : pairOf[t] = <<m, i>>) \/ (m = model /\ i = position)
        <5>1. <<model, position>> = <<m, i>> <=> m = model /\ i = position
          OBVIOUS
        <5> QED BY <5>1, <3>1, <3>2 DEF n
      <4>2. Reached(m, i) /\ Uses(m, prepared[i][1]) <=> \E t \in Created : pairOf[t] = <<m, i>>
        BY <1>t DEF PairInv
      <4> QED BY <2>9, <4>1, <4>2
    <3>4. \A t, u \in Created' : pairOf'[t] = pairOf'[u] => t = u
      <4>1. \A t \in Created : pairOf'[t] # pairOf'[n]
        BY <3>2, <2>6
      <4>2. \A t, u \in Created : pairOf'[t] = pairOf'[u] => t = u
        BY <3>2, <1>t DEF PairInv
      <4>3. Created' = Created \cup {n}
        BY <3>1
      <4> QED BY <4>1, <4>2, <4>3
    <3> QED BY <2>1, <2>7, <3>3, <3>4 DEF PairInv
  <2> QED BY <2>8, <2>9
<1> QED BY <1>1, <1>2, <1>3, <1>4

-----------------------------------------------------------------------------
(* The groups.                                                             *)

\* The group the new task t joins is the last one, and no other changes.
LEMMA AddGroups ==
  ASSUME IInv, AddExecutor, Uses(model, prepared[position][1]), NEW t, t = Len(pairOf) + 1
  PROVE  /\ groups' \in Seq((SUBSET Created') \ {{}})
         /\ Len(groups') >= Len(groups)
         /\ \E k \in Nat :
              /\ DOMAIN groups' = DOMAIN groups \cup {k} /\ \A g \in DOMAIN groups' : g \in Nat /\ g <= k
              /\ groups'[k] = (IF k \in DOMAIN groups THEN groups[k] ELSE {}) \cup {t}
              /\ \A g \in DOMAIN groups \ {k} : groups'[g] = groups[g]
<1> DEFINE n == Len(groups)
           old == (SUBSET Created) \ {{}}
           new == (SUBSET Created') \ {{}}
<1>1. groups \in Seq(old) /\ n \in Nat /\ DOMAIN groups = 1 .. n /\ \A g \in DOMAIN groups : groups[g] \in old
  BY DEF IInv, TypeOK
<1>2. Created' = Created \cup {t}
  BY AddFacts
<1>3. old \subseteq new /\ \A S \in old : S \cup {t} \in new
  BY <1>2
<1>4. {t} \in new
  BY <1>2
<1> HIDE DEF old, new
<1>5. groups \in Seq(new)
  BY <1>1, <1>3
<1>6. CASE groups # <<>> /\ groups' = [groups EXCEPT ![n] = @ \cup {t}]
  <2>1. n \in DOMAIN groups
    BY <1>1, <1>6
  <2>2. groups[n] \cup {t} \in new
    BY <2>1, <1>1, <1>3
  <2>3. groups' \in Seq(new) /\ Len(groups') = n /\ DOMAIN groups' = DOMAIN groups
    BY <1>1, <1>5, <1>6, <2>1, <2>2
  <2>4. groups'[n] = groups[n] \cup {t} /\ \A g \in DOMAIN groups \ {n} : groups'[g] = groups[g]
    BY <1>6, <2>1
  <2>5. DOMAIN groups' = DOMAIN groups \cup {n} /\ \A g \in DOMAIN groups' : g \in Nat /\ g <= n
    BY <2>1, <2>3, <1>1
  <2> QED BY <1>1, <2>1, <2>3, <2>4, <2>5 DEF new
<1>7. CASE groups' = Append(groups, {t})
  <2>1. groups' \in Seq(new) /\ Len(groups') = n + 1 /\ groups'[n + 1] = {t}
        /\ \A g \in DOMAIN groups : groups'[g] = groups[g]
    BY <1>1, <1>4, <1>5, <1>7, AppendProperties
  <2>2. DOMAIN groups' = DOMAIN groups \cup {n + 1} /\ \A g \in DOMAIN groups' : g \in Nat /\ g <= n + 1
    BY <2>1, <1>1
  <2>3. n + 1 \notin DOMAIN groups /\ n + 1 \in Nat
    BY <1>1
  <2> QED BY <1>1, <2>1, <2>2, <2>3 DEF new
<1> QED BY <1>6, <1>7, AddFacts

LEMMA GroupStep ==
  ASSUME IInv, [Next]_vars
  PROVE  GroupInv' /\ groups' \in Seq((SUBSET Created') \ {{}}) /\ Len(groups') >= Len(groups)
<1>t. GroupInv /\ groups \in Seq((SUBSET Created) \ {{}}) /\ Len(groups) \in Nat
  BY DEF IInv, StageInv, TypeOK
<1>0. CASE UNCHANGED <<pairOf, groups, lastName>>
  <2>1. Created' = Created
    BY <1>0 DEF Created
  <2> QED BY <1>0, <1>t, <2>1 DEF GroupInv
<1>1. CASE ~(SkipModel \/ AddExecutor \/ EndModel)
  BY <1>0, <1>1, BuildFrame DEF buildVars
<1>2. CASE SkipModel \/ EndModel
  BY <1>0, <1>2 DEF SkipModel, EndModel
<1>3. CASE AddExecutor /\ ~Uses(model, prepared[position][1])
  BY <1>0, <1>3 DEF AddExecutor
<1>4. CASE AddExecutor /\ Uses(model, prepared[position][1])
  <2> DEFINE t == Len(pairOf) + 1
  <2>1. Created' = Created \cup {t} /\ (\A u \in Created : u < t) /\ lastName' # 0
    <3>1. lastName' \in Model
      BY <1>4, AddFacts
    <3> QED BY <1>4, <3>1, AddFacts DEF Model
  <2>2. groups' \in Seq((SUBSET Created') \ {{}}) /\ Len(groups') >= Len(groups)
    BY <1>4, AddGroups
  <2>3. PICK k \in Nat :
              /\ DOMAIN groups' = DOMAIN groups \cup {k} /\ \A g \in DOMAIN groups' : g \in Nat /\ g <= k
              /\ groups'[k] = (IF k \in DOMAIN groups THEN groups[k] ELSE {}) \cup {t}
              /\ \A g \in DOMAIN groups \ {k} : groups'[g] = groups[g]
    BY <1>4, AddGroups
  <2> HIDE DEF t
  <2>4. groups' # <<>>
    BY <2>3
  <2>5. \A u \in Created' : \E g \in DOMAIN groups' : u \in groups'[g]
    <3> SUFFICES ASSUME NEW u \in Created' PROVE \E g \in DOMAIN groups' : u \in groups'[g]
      OBVIOUS
    <3>1. CASE u = t
      BY <3>1, <2>3
    <3>2. CASE u # t
      <4>1. PICK g \in DOMAIN groups : u \in groups[g]
        BY <3>2, <2>1, <1>t DEF GroupInv
      <4> QED BY <4>1, <2>3
    <3> QED BY <3>1, <3>2
  <2>6. \A g, h \in DOMAIN groups' : g < h => \A u \in groups'[g], v \in groups'[h] : u < v
    <3> SUFFICES ASSUME NEW g \in DOMAIN groups', NEW h \in DOMAIN groups', g < h,
                        NEW u \in groups'[g], NEW v \in groups'[h]
                 PROVE  u < v
      OBVIOUS
    <3>1. g # k /\ g \in DOMAIN groups /\ u \in groups[g]
      BY <2>3
    <3>2. u \in Created
      BY <3>1, <1>t
    <3>3. CASE v = t
      BY <3>2, <3>3, <2>1
    <3>4. CASE v # t
      <4>1. h \in DOMAIN groups /\ v \in groups[h]
        BY <3>4, <2>3
      <4> QED BY <3>1, <4>1, <1>t DEF GroupInv
    <3> QED BY <3>3, <3>4
  <2> QED BY <2>1, <2>2, <2>4, <2>5, <2>6 DEF GroupInv
<1> QED BY <1>1, <1>2, <1>3, <1>4

LEMMA BuildType ==
  ASSUME IInv, [Next]_vars
  PROVE  /\ PrepInv' /\ scenario' \in Scenarios /\ model' \in 1 .. 3 /\ position' \in 1 .. Len(prepared') + 1
         /\ lastName' \in {0} \cup Model /\ executed' \subseteq Model
         /\ Len(pairOf') <= N /\ pairOf' \in Seq(Model \X (1 .. Len(prepared')))
         /\ Created \subseteq Created'
<1>t. /\ PrepInv /\ prepared \in Seq(Entry) /\ Len(prepared) \in Nat /\ scenario \in Scenarios
      /\ model \in 1 .. 3 /\ position \in 1 .. Len(prepared) + 1
      /\ lastName \in {0} \cup Model /\ executed \subseteq Model /\ Len(pairOf) <= N
      /\ pairOf \in Seq(Model \X (1 .. Len(prepared))) /\ Len(pairOf) \in Nat
  BY DEF IInv, TypeOK, PrepInv, PrepTypeOK
<1>1. PrepInv'
  <2>1. UNCHANGED prepVars \/ PrepNext
    <3>1. CASE SkipModel \/ AddExecutor \/ EndModel
      BY <3>1 DEF SkipModel, AddExecutor, EndModel
    <3> QED BY <3>1, BuildFrame
  <2> QED BY <2>1, <1>t, PrepStep, PrepUnchanged
<1>2. prepared' \in Seq(Entry) /\ Len(prepared') \in Nat
  BY <1>1 DEF PrepInv, PrepTypeOK
<1>3. CASE ~(SkipModel \/ AddExecutor \/ EndModel)
  <2>1. UNCHANGED buildVars
    BY <1>3, BuildFrame
  <2>2. CASE UNCHANGED prepared
    BY <1>1, <1>t, <2>1, <2>2 DEF buildVars, Created
  <2>3. CASE main' = "prepare"
    <3>1. position' = 1 /\ pairOf' = <<>>
      BY <2>3, StartStep DEF StartInv
    <3>2. 1 \in 1 .. Len(prepared') + 1 /\ <<>> \in Seq(Model \X (1 .. Len(prepared')))
      BY <1>2
    <3> QED BY <1>1, <1>t, <2>1, <3>1, <3>2 DEF buildVars, Created
  <2> QED BY <1>3, <2>2, <2>3, BuildFrame DEF prepVars
<1>4. CASE SkipModel \/ EndModel
  <2>1. /\ UNCHANGED <<prepared, scenario, lastName, pairOf>> /\ model \in Model /\ model' = model + 1
        /\ position' = 1
        /\ executed' \subseteq executed \cup {Content(model)}
    BY <1>4, <1>t DEF SkipModel, EndModel, prepVars
  <2>2. Content(model) \in Model /\ model' \in 1 .. 3
    BY <2>1 DEF Content, Model
  <2>3. position' \in 1 .. Len(prepared') + 1
    BY <2>1, <1>2
  <2> QED BY <1>1, <1>t, <2>1, <2>2, <2>3 DEF Created
<1>5. CASE AddExecutor
  <2>1. /\ UNCHANGED <<prepared, scenario, model>> /\ model \in Model /\ position' = position + 1
        /\ position <= Len(prepared) /\ executed' = executed \cup {Content(model)}
    BY <1>5 DEF AddExecutor, prepVars
  <2>2. Content(model) \in Model /\ position' \in 1 .. Len(prepared') + 1
    BY <2>1, <1>t DEF Content, Model
  <2>3. CASE UNCHANGED <<pairOf, lastName>>
    BY <1>1, <1>t, <2>1, <2>2, <2>3 DEF Created
  <2>4. CASE Uses(model, prepared[position][1])
    <3>1. pairOf' = Append(pairOf, <<model, position>>) /\ Len(pairOf) < N /\ lastName' \in Model
          /\ Created \subseteq Created'
      BY <1>5, <2>4, AddFacts DEF AddExecutor
    <3>2. <<model, position>> \in Model \X (1 .. Len(prepared))
      BY <2>1, <1>t
    <3>3. pairOf' \in Seq(Model \X (1 .. Len(prepared))) /\ Len(pairOf') <= N
      BY <3>1, <3>2, <1>t, NAssumption
    <3> QED BY <1>1, <1>t, <2>1, <2>2, <3>1, <3>3
  <2> QED BY <1>5, <2>3, <2>4 DEF AddExecutor
<1> QED BY <1>3, <1>4, <1>5

\* Where things are: the current group is tracked, and the thread is in it.
LEMMA PlaceFacts ==
  ASSUME IInv
  PROVE  /\ tracked \subseteq Created /\ Created \subseteq Task
         /\ Created = 1 .. Len(pairOf) /\ Len(pairOf) \in Nat /\ Len(pairOf) <= N
         /\ thread = "task" => current \in tracked
         /\ \A g \in DOMAIN groups : groups[g] \subseteq Created /\ groups[g] # {}
         /\ Len(groups) \in Nat /\ DOMAIN groups = 1 .. Len(groups) /\ group \in 0 .. Len(groups)
<1>1. /\ pairOf \in Seq(Model \X (1 .. Len(prepared))) /\ Len(pairOf) <= N
      /\ groups \in Seq((SUBSET Created) \ {{}}) /\ group \in 0 .. Len(groups) /\ PlaceInv
  BY DEF IInv, TypeOK, StageInv
<1>2. Created = 1 .. Len(pairOf) /\ Len(pairOf) \in Nat
  BY <1>1 DEF Created
<1>3. Created \subseteq Task
  BY <1>1, <1>2, NAssumption DEF Task
<1>4. /\ \A g \in DOMAIN groups : groups[g] \subseteq Created /\ groups[g] # {}
      /\ Len(groups) \in Nat /\ DOMAIN groups = 1 .. Len(groups)
  BY <1>1
<1>5. tracked \subseteq Created
  <2>1. tracked = (IF group = 0 THEN {} ELSE groups[group])
    BY <1>1 DEF PlaceInv
  <2>2. group # 0 => group \in DOMAIN groups
    BY <1>1, <1>4
  <2> QED BY <2>1, <2>2, <1>4
<1>6. thread = "task" => current \in tracked
  BY <1>1 DEF PlaceInv
<1> QED BY <1>1, <1>2, <1>3, <1>4, <1>5, <1>6

Stages == {"prepare", "build", "next", "report", "loop", "wait", "ask", "join",
           "reported", "interrupted", "canceling", "returned"}

\* The part of TypeOK about the current group and its thread.
RunTypeOK ==
  /\ SchedulerTypeOK /\ ProgressTypeOK
  /\ main \in Stages
  /\ group \in 0 .. Len(groups)
  /\ anyRun \in BOOLEAN
  /\ reportedTasks \subseteq Created
  /\ step \in {"none"} \cup TaskSteps
  /\ toCancel \subseteq Created
  /\ storing \in BOOLEAN
  /\ result \in {"none", "true", "false", "skipped"}

LEMMA RunTypeStep ==
  ASSUME IInv, [Next]_vars
  PROVE  RunTypeOK'
<1>t. RunTypeOK
  BY DEF IInv, TypeOK, RunTypeOK, Stages, TaskSteps
<1>p. /\ tracked \subseteq Created /\ Created \subseteq Task
      /\ (thread = "task" => current \in tracked)
      /\ \A g \in DOMAIN groups : groups[g] \subseteq Created
      /\ DOMAIN groups = 1 .. Len(groups) /\ Len(groups) \in Nat
  BY PlaceFacts
<1>g. Len(groups') \in Nat /\ Len(groups') >= Len(groups) /\ Created \subseteq Created'
  BY GroupStep, BuildType
<1>1. CASE UNCHANGED <<schedulerVars, progressVars, runVars>>
  <2>1. group \in 0 .. Len(groups')
    BY <1>t, <1>p, <1>g DEF RunTypeOK
  <2>2. reportedTasks \subseteq Created' /\ toCancel \subseteq Created'
    BY <1>t, <1>g DEF RunTypeOK
  <2> QED BY <1>1, <1>t, <2>1, <2>2 DEF RunTypeOK, SchedulerTypeOK, ProgressTypeOK, schedulerVars,
             progressVars, runVars
<1>2. CASE ~(SkipModel \/ AddExecutor \/ EndModel \/ Prepare)
  <2> SUFFICES ASSUME groups' = groups, Created' = Created PROVE RunTypeOK'
    BY <1>2, BuildFrame DEF buildVars, Created
  <2> USE <1>t DEF RunTypeOK, SchedulerTypeOK, ProgressTypeOK
  <2>1. CASE EnterStage
    BY <2>1 DEF EnterStage, Return, schedulerVars, Stages
  <2>2. CASE EndBuild \/ GroupReported
    BY <2>2 DEF EndBuild, GroupReported, schedulerVars, runVars, Stages
  <2>3. CASE NextGroup
    <3>1. /\ group < Len(groups) /\ group' = group + 1 /\ main' = "report"
          /\ queue' = groups[group'] /\ tracked' = groups[group'] /\ shown' = {}
          /\ completed' = FALSE /\ canceled' = FALSE /\ thread' = "none" /\ current' = NoTask
          /\ UNCHANGED <<status, interrupt, console, anyRun, reportedTasks, step, toCancel, storing, result>>
      BY <2>3 DEF NextGroup
    <3>2. group' \in 0 .. Len(groups) /\ group' \in DOMAIN groups
      BY <3>1, <1>p
    <3>3. groups[group'] \subseteq Task
      BY <3>2, <1>p
    <3> QED BY <3>1, <3>2, <3>3 DEF Stages
  <2>4. CASE EndStage
    BY <2>4 DEF EndStage, Return, schedulerVars, Stages
  <2>5. CASE Report
    <3>1. UNCHANGED runVars
      BY <2>5 DEF Report
    <3>2. CASE StartReport(FALSE)
      BY <3>1, <3>2, HandlerAssumption DEF StartReport, StartTracking, ExecuteTasksAsync, runVars, Stages
    <3>3. CASE Update(FALSE)
      <4>1. shown' \subseteq Task
        BY <3>3 DEF Update, Front
      <4>2. main' \in {"loop", "wait", "join"}
        BY <3>3 DEF Update
      <4>3. UNCHANGED <<schedulerVars, status, tracked, interrupt, console>>
        BY <3>3 DEF Update
      <4> QED BY <3>1, <4>1, <4>2, <4>3 DEF runVars, schedulerVars, Stages
    <3>4. CASE PollInterrupt \/ DeclineInterrupt
      <4>1. main' \in {"loop", "ask"} /\ interrupt' \in BOOLEAN
        BY <3>4 DEF PollInterrupt, DeclineInterrupt
      <4>2. UNCHANGED <<schedulerVars, status, tracked, shown, console>>
        BY <3>4 DEF PollInterrupt, DeclineInterrupt
      <4> QED BY <3>1, <4>1, <4>2 DEF runVars, schedulerVars, Stages
    <3>5. CASE AcceptInterrupt
      <4>1. /\ main' = "interrupted" /\ canceled' = TRUE /\ console' = FALSE
            /\ UNCHANGED <<queue, completed, thread, current, status, tracked, shown, interrupt>>
        BY <3>5 DEF AcceptInterrupt, CancelTasks, StopTracking
      <4> QED BY <3>1, <4>1 DEF runVars, Stages
    <3>6. CASE JoinAndReturn
      <4>1. /\ main' = "reported" /\ console' = FALSE
            /\ UNCHANGED <<schedulerVars, status, tracked, shown, interrupt>>
        BY <3>6 DEF JoinAndReturn, StopTracking
      <4>2. SchedulerTypeOK'
        BY <4>1 DEF schedulerVars
      <4>3. ProgressTypeOK' /\ main' \in Stages
        BY <4>1 DEF Stages
      <4> QED BY <3>1, <4>2, <4>3 DEF runVars
    <3> QED BY <2>5, <3>2, <3>3, <3>4, <3>5, <3>6 DEF Report
  <2>6. CASE BeginCancel
    <3>1. group \in DOMAIN groups
      <4>1. PlaceInv /\ main = "interrupted"
        BY <2>6 DEF BeginCancel, IInv, StageInv
      <4>2. group # 0
        BY <4>1 DEF PlaceInv
      <4> QED BY <4>2, <1>p, <1>t
    <3>2. groups[group] \subseteq Created
      BY <3>1, <1>p
    <3>3. /\ main' = "canceling" /\ toCancel' = groups[group]
          /\ UNCHANGED <<schedulerVars, status, tracked, shown, interrupt, console,
                         group, anyRun, reportedTasks, step, storing, result>>
      BY <2>6 DEF BeginCancel
    <3> QED BY <3>2, <3>3 DEF schedulerVars, Stages
  <2>7. CASE CancelTest
    <3>1. /\ toCancel' \subseteq toCancel /\ storing' \in BOOLEAN
          /\ UNCHANGED <<schedulerVars, progressVars, group, anyRun, reportedTasks, step, result>>
      BY <2>7 DEF CancelTest
    <3> QED BY <3>1 DEF schedulerVars, progressVars
  <2>8. CASE CancelStore
    <3>1. \E t : status' = [status EXCEPT ![t] = "kCanceled"] /\ toCancel' \subseteq toCancel
      BY <2>8 DEF CancelStore
    <3>2. "kCanceled" \in Status
      BY DEF Status
    <3>3. status' \in [Task -> Status] /\ toCancel' \subseteq Created
      BY <3>1, <3>2
    <3>4. /\ storing' = FALSE
          /\ UNCHANGED <<schedulerVars, tracked, shown, interrupt, console, main,
                         group, anyRun, reportedTasks, step, result>>
      BY <2>8 DEF CancelStore
    <3>5. SchedulerTypeOK'
      BY <3>4 DEF schedulerVars
    <3>6. ProgressTypeOK'
      BY <3>3, <3>4
    <3> QED BY <3>3, <3>4, <3>5, <3>6
  <2>9. CASE ReturnInterrupted
    BY <2>9 DEF ReturnInterrupted, Return, schedulerVars, Stages
  <2>10. CASE Work
    <3>1. \E s \in Status : status' = [status EXCEPT ![current] = s]
      BY <2>10, WorkFacts
    <3>2. status' \in [Task -> Status]
      BY <3>1
    <3>3. step' \in TaskSteps /\ UNCHANGED <<schedulerVars, tracked, shown, interrupt, console, main,
                                             group, anyRun, reportedTasks, toCancel, storing, result>>
      BY <2>10, WorkFacts
    <3> QED BY <3>2, <3>3 DEF schedulerVars
  <2>11. CASE BeginTask
    BY <2>11 DEF BeginTask, TakeTask, Front, progressVars, TaskSteps
  <2>12. CASE EndThread
    BY <2>12 DEF EndThread, StopLoop, progressVars, runVars
  <2>13. CASE ExecutorThrows
    BY <2>13 DEF ExecutorThrows, EndTask, progressVars
  <2>14. CASE ReportResult
    <3>1. current \in Created
      BY <2>14, <1>p DEF ReportResult, InTask
    <3> QED BY <2>14, <3>1 DEF ReportResult, EndTask, progressVars
  <2>15. CASE Interrupt
    BY <2>15 DEF Interrupt, UserInterrupt, schedulerVars, runVars
  <2>16. CASE UNCHANGED vars
    BY <2>16, <1>1 DEF vars
  <2> QED BY <1>2, <2>1, <2>2, <2>3, <2>4, <2>5, <2>6, <2>7, <2>8, <2>9, <2>10, <2>11, <2>12, <2>13, <2>14,
             <2>15, <2>16 DEF Next, MainNext, WorkerNext, Work, Terminated
<1>3. CASE SkipModel \/ AddExecutor \/ EndModel \/ Prepare
  <2>1. UNCHANGED <<schedulerVars, progressVars, runVars>>
    BY <1>3 DEF SkipModel, AddExecutor, EndModel, Prepare
  <2> QED BY <1>1, <2>1
<1> QED BY <1>2, <1>3

LEMMA TypeStep ==
  ASSUME IInv, [Next]_vars
  PROVE  TypeOK'
<1>1. PrepTypeOK'
  BY BuildType DEF PrepInv
<1> QED BY <1>1, BuildType, GroupStep, RunTypeStep DEF TypeOK, RunTypeOK, Stages, TaskSteps

LEMMA PlaceStep ==
  ASSUME IInv, [Next]_vars
  PROVE  PlaceInv'
<1>t. /\ PlaceInv /\ StartInv /\ RunTypeOK
  BY DEF IInv, StageInv, TypeOK, RunTypeOK, Stages, TaskSteps
<1>p. /\ tracked \subseteq Task /\ NoTask \notin Task
      /\ (thread = "task" => current \in tracked)
      /\ DOMAIN groups = 1 .. Len(groups) /\ Len(groups) \in Nat /\ group \in 0 .. Len(groups)
  BY PlaceFacts, NAssumption DEF NoTask, Task
<1>r. result = "none" <=> main # "returned"
  BY <1>t DEF StartInv
<1>1. CASE SkipModel \/ AddExecutor \/ EndModel \/ Prepare
  <2>1. UNCHANGED <<schedulerVars, progressVars, runVars>> /\ main \in {"prepare", "build"}
    BY <1>1 DEF SkipModel, AddExecutor, EndModel, Prepare
  <2>2. group = 0 /\ result = "none"
    BY <2>1, <1>t, <1>r DEF StartInv, Early
  <2> QED BY <2>1, <2>2, <1>t DEF PlaceInv, Joinable, schedulerVars, progressVars, runVars
<1>2. CASE ~(SkipModel \/ AddExecutor \/ EndModel \/ Prepare)
  <2> SUFFICES ASSUME groups' = groups PROVE PlaceInv'
    BY <1>2, BuildFrame DEF buildVars
  <2>1. CASE EnterStage
    <3>1. Joinable /\ queue = {} /\ ~canceled /\ main = "prepare" /\ result = "none"
      BY <2>1, <1>t, <1>r DEF EnterStage, StartInv, Early, Joinable
    <3>2. /\ main' = "build" \/ (main' = "returned" /\ result' = "skipped") 
          /\ result' # "true"
          /\ UNCHANGED <<schedulerVars, tracked, group, anyRun, reportedTasks, step, toCancel>>
      BY <2>1, <3>1 DEF EnterStage, Return
    <3> QED BY <3>1, <3>2, <1>t DEF PlaceInv, Joinable, Watching, schedulerVars
  <2>2. CASE EndBuild
    <3>1. Joinable /\ queue = {} /\ ~canceled /\ main = "build" /\ result = "none"
      BY <2>2, <1>t, <1>r DEF EndBuild, StartInv, Early, Joinable
    <3>2. main' = "next" /\ UNCHANGED <<schedulerVars, tracked, runVars>>
      BY <2>2 DEF EndBuild
    <3> QED BY <3>1, <3>2, <1>t DEF PlaceInv, Joinable, Watching, schedulerVars, runVars
  <2>3. CASE NextGroup
    <3>1. /\ main = "next" /\ group < Len(groups) /\ group' = group + 1 /\ main' = "report"
          /\ queue' = groups[group'] /\ tracked' = groups[group']
          /\ canceled' = FALSE /\ thread' = "none" /\ current' = NoTask
          /\ UNCHANGED <<anyRun, reportedTasks, step, toCancel, result>>
      BY <2>3 DEF NextGroup
    <3>2. group' # 0 /\ step = "none" /\ result = "none" /\ toCancel = {}
      BY <3>1, <1>p, <1>t, <1>r DEF PlaceInv, Joinable
    <3>3. NoTask \notin queue'
      <4>1. group' \in DOMAIN groups
        BY <3>1, <1>p
      <4> QED BY <3>1, <4>1, <1>p, PlaceFacts
    <3> QED BY <3>1, <3>2, <3>3, <1>t DEF PlaceInv, Joinable, Watching
  <2>4. CASE EndStage
    <3>1. /\ main = "next" /\ group = Len(groups) /\ main' = "returned"
          /\ result' = (IF anyRun THEN "true" ELSE "false")
          /\ UNCHANGED <<schedulerVars, tracked, group, anyRun, reportedTasks, step, toCancel>>
      BY <2>4 DEF EndStage, Return
    <3>2. Joinable /\ queue = {} /\ (result' = "true" => anyRun)
      BY <3>1, <1>t DEF PlaceInv
    <3> QED BY <3>1, <3>2, <1>t DEF PlaceInv, Joinable, Watching, schedulerVars
  <2>5. CASE Report
    <3>1. UNCHANGED runVars /\ result # "true"
      BY <2>5, <1>r DEF Report, StartReport, Update, PollInterrupt, AcceptInterrupt, DeclineInterrupt, JoinAndReturn
    <3>2. CASE StartReport(FALSE)
      <4>1. /\ main = "report" /\ main' = "loop" /\ Joinable /\ thread' = "loop"
            /\ UNCHANGED <<queue, canceled, current, tracked>>
        BY <3>2 DEF StartReport, ExecuteTasksAsync
      <4> QED BY <3>1, <4>1, <1>t DEF PlaceInv, Joinable, Watching, runVars
    <3>3. CASE Update(FALSE) \/ PollInterrupt \/ DeclineInterrupt
      <4>1. /\ main \in {"loop", "wait", "ask"} /\ main' \in {"loop", "wait", "join", "ask"}
            /\ UNCHANGED <<schedulerVars, tracked>>
        BY <3>3 DEF Update, PollInterrupt, DeclineInterrupt
      <4> QED BY <3>1, <4>1, <1>t DEF PlaceInv, Joinable, Watching, schedulerVars, runVars
    <3>4. CASE AcceptInterrupt
      <4>1. /\ main = "ask" /\ main' = "interrupted" /\ canceled' = TRUE
            /\ UNCHANGED <<queue, thread, current, tracked>>
        BY <3>4 DEF AcceptInterrupt, CancelTasks
      <4> QED BY <3>1, <4>1, <1>t DEF PlaceInv, Joinable, Watching, runVars
    <3>5. CASE JoinAndReturn
      <4>1. /\ main = "join" /\ main' = "reported" /\ Joinable /\ UNCHANGED <<schedulerVars, tracked>>
        BY <3>5 DEF JoinAndReturn
      <4>2. queue = {}
        BY <4>1, <1>t DEF PlaceInv, Joinable, Watching
      <4> QED BY <3>1, <4>1, <4>2, <1>t DEF PlaceInv, Joinable, Watching, schedulerVars, runVars
    <3> QED BY <2>5, <3>2, <3>3, <3>4, <3>5 DEF Report
  <2>6. CASE GroupReported
    <3>1. main = "reported" /\ main' = "next" /\ UNCHANGED <<schedulerVars, tracked, runVars>>
      BY <2>6 DEF GroupReported
    <3>2. result # "true"
      BY <3>1, <1>r
    <3> QED BY <3>1, <3>2, <1>t DEF PlaceInv, Joinable, Watching, schedulerVars, runVars
  <2>7. CASE BeginCancel
    <3>1. main = "interrupted" /\ main' = "canceling" /\ toCancel' = groups[group] /\ result # "true"
          /\ UNCHANGED <<schedulerVars, tracked, group, anyRun, reportedTasks, step, result>>
      BY <2>7, <1>r DEF BeginCancel
    <3>2. toCancel' = tracked
      BY <3>1, <1>t DEF PlaceInv
    <3> QED BY <3>1, <3>2, <1>t DEF PlaceInv, Joinable, Watching, schedulerVars
  <2>8. CASE CancelTest \/ CancelStore
    <3>1. main = "canceling" /\ main' = "canceling" /\ toCancel' \subseteq toCancel
          /\ UNCHANGED <<schedulerVars, tracked, group, anyRun, reportedTasks, step, result>>
      BY <2>8 DEF CancelTest, CancelStore, progressVars
    <3> QED BY <3>1, <1>t DEF PlaceInv, Joinable, Watching, schedulerVars
  <2>9. CASE ReturnInterrupted
    <3>1. main = "canceling" /\ main' = "returned" /\ result' = "false" /\ Joinable /\ toCancel = {}
          /\ UNCHANGED <<schedulerVars, tracked, group, anyRun, reportedTasks, step, toCancel>>
      BY <2>9 DEF ReturnInterrupted, Return
    <3> QED BY <3>1, <1>t DEF PlaceInv, Joinable, Watching, schedulerVars
  <2>10. CASE Work
    <3>1. thread = "task" /\ step # "none" /\ step' # "none"
          /\ UNCHANGED <<schedulerVars, tracked, main, group, anyRun, reportedTasks, toCancel, result>>
      BY <2>10, WorkFacts DEF TaskSteps
    <3> QED BY <3>1, <1>t DEF PlaceInv, Joinable, Watching, schedulerVars
  <2>11. CASE BeginTask
    <3> SUFFICES ASSUME NEW t \in Task, TakeTask(t) PROVE PlaceInv'
      BY <2>11 DEF BeginTask
    <3>1. /\ thread = "loop" /\ ~canceled /\ t \in queue /\ queue' = queue \ {t} /\ current' = t
          /\ thread' = "task" /\ step' = "enter"
          /\ UNCHANGED <<canceled, tracked, main, group, anyRun, reportedTasks, toCancel, result>>
      BY <2>11 DEF BeginTask, TakeTask, Front, progressVars
    <3>2. main \notin {"next", "report", "reported", "returned"} /\ result # "true" /\ t # NoTask
      BY <3>1, <1>t, <1>r, <1>p DEF PlaceInv, Joinable
    <3> QED BY <3>1, <3>2, <1>t DEF PlaceInv, Joinable, Watching
  <2>12. CASE EndThread
    <3>1. thread = "loop" /\ thread' = "ended" /\ (queue = {} \/ canceled)
          /\ UNCHANGED <<queue, canceled, current, tracked, main, runVars>>
      BY <2>12 DEF EndThread, StopLoop, progressVars
    <3> QED BY <3>1, <1>t DEF PlaceInv, Joinable, Watching, runVars
  <2>13. CASE ExecutorThrows \/ ReportResult
    <3>1. /\ thread = "task" /\ thread' = "loop" /\ current' = NoTask /\ step' = "none"
          /\ UNCHANGED <<queue, canceled, tracked, main, group, toCancel, result>>
      BY <2>13 DEF ExecutorThrows, ReportResult, EndTask, progressVars
    <3>2. \/ UNCHANGED <<anyRun, reportedTasks>>
          \/ anyRun' = TRUE /\ reportedTasks' # {}
      BY <2>13 DEF ExecutorThrows, ReportResult
    <3>3. main \notin {"next", "report", "reported", "returned"} /\ result # "true" /\ NoTask \notin queue
      BY <3>1, <1>t, <1>r, <1>p DEF PlaceInv, Joinable
    <3> QED BY <3>1, <3>2, <3>3, <1>t DEF PlaceInv, Joinable, Watching
  <2>14. CASE Interrupt \/ UNCHANGED vars
    <3>1. UNCHANGED <<schedulerVars, tracked, main, runVars>>
      BY <2>14 DEF Interrupt, UserInterrupt, vars, progressVars
    <3> QED BY <3>1, <1>t DEF PlaceInv, Joinable, Watching, schedulerVars, runVars
  <2> QED BY <1>2, <2>1, <2>2, <2>3, <2>4, <2>5, <2>6, <2>7, <2>8, <2>9, <2>10, <2>11, <2>12, <2>13, <2>14
          DEF Next, MainNext, WorkerNext, Work, Terminated
<1> QED BY <1>1, <1>2

\* The tasks of the other groups are not tracked.
LEMMA Elsewhere ==
  ASSUME IInv, NEW g \in DOMAIN groups, g # group, NEW t \in groups[g]
  PROVE  t \in Task /\ t \notin tracked
<1>1. /\ DOMAIN groups = 1 .. Len(groups) /\ Len(groups) \in Nat /\ group \in 0 .. Len(groups)
      /\ groups[g] \subseteq Created /\ Created \subseteq Task
  BY PlaceFacts
<1>2. GroupInv /\ PlaceInv
  BY DEF IInv, StageInv
<1>3. t \in Task /\ t \in Nat
  <2>1. t \in Task
    BY <1>1
  <2> QED BY <2>1, NAssumption DEF Task
<1>4. t \notin tracked
  <2> SUFFICES ASSUME t \in tracked PROVE FALSE
    OBVIOUS
  <2>1. group \in DOMAIN groups /\ t \in groups[group]
    <3>1. tracked = (IF group = 0 THEN {} ELSE groups[group])
      BY <1>2 DEF PlaceInv
    <3>2. group # 0 /\ t \in groups[group]
      BY <3>1
    <3> QED BY <3>2, <1>1
  <2>2. g < group \/ group < g
    BY <1>1
  <2>3. t < t
    BY <2>1, <2>2, <1>2 DEF GroupInv
  <2> QED BY <2>3, <1>3
<1> QED BY <1>3, <1>4

LEMMA RunStep ==
  ASSUME IInv, [Next]_vars
  PROVE  RunInv'
<1>t. /\ RunInv /\ OtherInv /\ PlaceInv /\ StartInv /\ SchedulerTypeOK /\ ProgressTypeOK
  BY DEF IInv, StageInv, TypeOK
<1>p. /\ tracked \subseteq Task /\ NoTask \notin Task
      /\ (thread = "task" => current \in tracked)
      /\ DOMAIN groups = 1 .. Len(groups) /\ Len(groups) \in Nat /\ group \in 0 .. Len(groups)
  BY PlaceFacts, NAssumption DEF NoTask, Task
<1>r. result = "none" <=> main # "returned"
  BY <1>t DEF StartInv
<1>a. SUFFICES ASSUME main' \notin {"interrupted", "canceling"}, result' # "false" PROVE RunInv'
  BY DEF RunInv
<1>1. CASE SkipModel \/ AddExecutor \/ EndModel \/ Prepare \/ EnterStage \/ EndBuild
  <2>1. /\ UNCHANGED <<schedulerVars, tracked, shown, step>> /\ Early
        /\ main' \in {"prepare", "build", "next", "returned"} /\ result' # "true"
    <3>1. CASE SkipModel \/ AddExecutor \/ EndModel \/ Prepare
      BY <3>1, <1>r DEF SkipModel, AddExecutor, EndModel, Prepare, progressVars, runVars, Early
    <3>2. CASE EnterStage \/ EndBuild
      BY <3>2, <1>r DEF EnterStage, EndBuild, Return, runVars, Early
    <3> QED BY <1>1, <3>1, <3>2
  <2>2. queue = {} /\ tracked = {} /\ shown = {} /\ step = "none"
    BY <2>1, <1>t DEF StartInv, PlaceInv
  <2> QED BY <2>1, <2>2 DEF RunInv, schedulerVars
<1>2. CASE NextGroup
  <2>1. /\ main = "next" /\ group < Len(groups) /\ group' = group + 1 /\ main' = "report"
        /\ queue' = groups[group'] /\ tracked' = groups[group'] /\ shown' = {}
        /\ UNCHANGED <<status, step, result>>
    BY <1>2 DEF NextGroup
  <2>2. result = "none" /\ step = "none"
    BY <2>1, <1>t, <1>r DEF PlaceInv, Joinable
  <2>3. group' \in DOMAIN groups /\ group' > group
    BY <2>1, <1>p
  <2>4. \A t \in queue' : status[t] = "kReady"
    BY <2>1, <2>2, <2>3, <1>t DEF OtherInv
  <2> QED BY <2>1, <2>2, <2>4 DEF RunInv
<1>3. CASE EndStage
  <2>1. /\ main = "next" /\ main' = "returned" /\ result = "none"
        /\ UNCHANGED <<schedulerVars, status, tracked, shown, reportedTasks, step>>
    BY <1>3, <1>r DEF EndStage, Return
  <2> QED BY <2>1, <1>t DEF RunInv, schedulerVars
<1>4. CASE Report
  <2>1. UNCHANGED runVars /\ result = "none"
    BY <1>4, <1>r DEF Report, StartReport, Update, PollInterrupt, AcceptInterrupt, DeclineInterrupt, JoinAndReturn
  <2>2. CASE StartReport(FALSE)
    <3>1. main = "report" /\ main' = "loop" /\ UNCHANGED <<queue, current, status, tracked, shown>>
      BY <2>2 DEF StartReport, ExecuteTasksAsync
    <3> QED BY <2>1, <3>1, <1>t DEF RunInv, runVars
  <2>3. CASE Update(FALSE)
    <3>1. /\ main = "loop" /\ UNCHANGED <<schedulerVars, status, tracked>>
          /\ main' \in {"loop", "wait", "join"}
          /\ \/ UNCHANGED shown
             \/ \E t \in tracked \ shown : status[t] \in FinalStatus /\ shown' = shown \cup {t}
          /\ main' = "join" => shown' = tracked
      BY <2>3 DEF Update, Front, TrackerFinished
    <3>2. \A t \in queue : status[t] \notin FinalStatus
      BY <2>1, <3>1, <1>t DEF RunInv, FinalStatus
    <3> QED BY <2>1, <3>1, <3>2, <1>t DEF RunInv, runVars, schedulerVars
  <2>4. CASE PollInterrupt \/ DeclineInterrupt
    <3>1. /\ main \in {"wait", "ask"} /\ main' \in {"loop", "ask"}
          /\ UNCHANGED <<schedulerVars, status, tracked, shown>>
      BY <2>4 DEF PollInterrupt, DeclineInterrupt
    <3> QED BY <2>1, <3>1, <1>t DEF RunInv, runVars, schedulerVars
  <2>5. CASE AcceptInterrupt
    BY <2>5, <1>a DEF AcceptInterrupt
  <2>6. CASE JoinAndReturn
    <3>1. main = "join" /\ main' = "reported" /\ UNCHANGED <<schedulerVars, status, tracked, shown>>
      BY <2>6 DEF JoinAndReturn
    <3> QED BY <2>1, <3>1, <1>t DEF RunInv, runVars, schedulerVars
  <2> QED BY <1>4, <2>2, <2>3, <2>4, <2>5, <2>6 DEF Report
<1>5. CASE GroupReported
  <2>1. main = "reported" /\ main' = "next" /\ UNCHANGED <<schedulerVars, status, tracked, shown, runVars>>
    BY <1>5 DEF GroupReported
  <2> QED BY <2>1, <1>r, <1>t DEF RunInv, runVars, schedulerVars
<1>6. CASE BeginCancel \/ CancelTest \/ CancelStore \/ ReturnInterrupted
  BY <1>6, <1>a DEF BeginCancel, CancelTest, CancelStore, ReturnInterrupted, Return, progressVars
<1>7. CASE Work
  <2>1. /\ thread = "task" /\ current \in Task /\ step # "none" /\ step # "report"
        /\ UNCHANGED <<schedulerVars, tracked, shown, main, reportedTasks, result>>
        /\ \E s \in Status : status' = [status EXCEPT ![current] = s]
        /\ status[current] = StatusOf(step) =>
             /\ status[current] \notin FinalStatus
             /\ step' = "report" \/ status'[current] = StatusOf(step')
    BY <1>7, WorkFacts
  <2>2. main \notin {"interrupted", "canceling"} /\ result # "false"
    BY <2>1, <1>a
  <2>3. /\ status[current] \notin FinalStatus
        /\ step' = "report" \/ status'[current] = StatusOf(step')
    BY <2>1, <2>2, <1>t DEF RunInv
  <2>4. \A t \in Task : t # current => status'[t] = status[t]
    BY <2>1, <1>t DEF ProgressTypeOK
  <2>5. current \notin queue /\ current \notin shown /\ queue \subseteq Task /\ shown \subseteq Task
    BY <2>2, <2>3, <1>t DEF PlaceInv, RunInv, SchedulerTypeOK, ProgressTypeOK
  <2> HIDE DEF StatusOf
  <2> QED BY <2>1, <2>2, <2>3, <2>4, <2>5, <1>p, <1>t DEF RunInv, schedulerVars
<1>8. CASE BeginTask
  <2> SUFFICES ASSUME NEW t \in Task, TakeTask(t) PROVE RunInv'
    BY <1>8 DEF BeginTask
  <2>1. /\ thread = "loop" /\ t \in queue /\ queue' = queue \ {t} /\ current' = t /\ step' = "enter"
        /\ UNCHANGED <<status, tracked, shown, main, reportedTasks, result>>
    BY <1>8 DEF BeginTask, TakeTask, Front, progressVars
  <2>2. main \notin {"interrupted", "canceling"} /\ result # "false" /\ current = NoTask
    BY <2>1, <1>a, <1>t DEF PlaceInv
  <2>3. status[t] = "kReady" /\ StatusOf("enter") = "kReady"
    BY <2>1, <2>2, <1>t DEF RunInv, StatusOf
  <2>4. \A u \in tracked : u # current
    BY <2>2, <1>p
  <2> QED BY <2>1, <2>2, <2>3, <2>4, <1>t DEF RunInv
<1>9. CASE EndThread
  <2>1. UNCHANGED <<queue, current, status, tracked, shown, main, runVars>>
    BY <1>9 DEF EndThread, StopLoop, progressVars
  <2> QED BY <2>1, <1>a, <1>t DEF RunInv, runVars
<1>10. CASE ExecutorThrows \/ ReportResult
  <2>1. /\ thread = "task" /\ step \in {"work", "report"} /\ current' = NoTask /\ step' = "none"
        /\ UNCHANGED <<queue, status, tracked, shown, main, result>>
        /\ reportedTasks \subseteq reportedTasks'
        /\ step = "report" => current \in reportedTasks'
    BY <1>10 DEF ExecutorThrows, ReportResult, InTask, EndTask, progressVars
  <2>2. main \notin {"interrupted", "canceling"} /\ result # "false"
    BY <2>1, <1>a
  <2>3. step = "work" => status[current] \notin FinalStatus
    BY <2>2, <1>t DEF RunInv, StatusOf, FinalStatus
  <2> QED BY <2>1, <2>2, <2>3, <1>t DEF RunInv
<1>11. CASE Interrupt \/ UNCHANGED vars
  <2>1. UNCHANGED <<schedulerVars, status, tracked, shown, main, runVars>>
    BY <1>11 DEF Interrupt, UserInterrupt, vars, progressVars
  <2> QED BY <2>1, <1>a, <1>t DEF RunInv, runVars, schedulerVars
<1> QED BY <1>1, <1>2, <1>3, <1>4, <1>5, <1>6, <1>7, <1>8, <1>9, <1>10, <1>11
        DEF Next, MainNext, WorkerNext, Work, Terminated

LEMMA OtherStep ==
  ASSUME IInv, [Next]_vars
  PROVE  OtherInv'
<1>t. /\ RunInv /\ OtherInv /\ PlaceInv /\ StartInv /\ ProgressTypeOK
  BY DEF IInv, StageInv, TypeOK
<1>p. DOMAIN groups = 1 .. Len(groups) /\ Len(groups) \in Nat /\ group \in 0 .. Len(groups)
  BY PlaceFacts
<1>r. result = "none" <=> main # "returned"
  BY <1>t DEF StartInv
<1>a. SUFFICES ASSUME result' # "false" PROVE OtherInv'
  BY DEF OtherInv
<1>1. CASE SkipModel \/ AddExecutor \/ EndModel \/ Prepare
  <2>1. UNCHANGED <<status, group>> /\ Early
    BY <1>1 DEF SkipModel, AddExecutor, EndModel, Prepare, progressVars, runVars, Early
  <2>2. group = 0 /\ \A t \in Task : status[t] = "kReady"
    BY <2>1, <1>t DEF StartInv
  <2>3. /\ \A g \in DOMAIN groups' : g \in Nat /\ g >= 1 /\ groups'[g] \subseteq Created'
        /\ Created' \subseteq Task
    <3>1. groups' \in Seq((SUBSET Created') \ {{}})
      BY GroupStep
    <3>2. TypeOK'
      BY TypeStep
    <3>3. Len(pairOf') \in Nat /\ Len(pairOf') <= N /\ Created' = 1 .. Len(pairOf')
      BY <3>2 DEF TypeOK, Created
    <3>4. Created' \subseteq Task
      BY <3>3, NAssumption DEF Task
    <3> QED BY <3>1, <3>4
  <2> QED BY <2>1, <2>2, <2>3 DEF OtherInv
<1>2. CASE NextGroup
  <2>1. /\ main = "next" /\ group < Len(groups) /\ group' = group + 1
        /\ UNCHANGED <<status, groups, reportedTasks, result>>
    BY <1>2 DEF NextGroup, buildVars
  <2>2. result = "none" /\ queue = {} /\ current = NoTask /\ shown = tracked
    BY <2>1, <1>r, <1>t DEF PlaceInv, RunInv, Joinable
  <2>3. \A t \in tracked : status[t] \in FinalStatus /\ t \in reportedTasks
    <3>1. \A t \in tracked : t # NoTask
      BY PlaceFacts, NAssumption DEF NoTask, Task
    <3> QED BY <2>1, <2>2, <3>1, <1>t DEF RunInv
  <2> SUFFICES ASSUME NEW g \in DOMAIN groups, NEW t \in groups[g]
               PROVE  /\ g < group + 1 => status[t] \in FinalStatus /\ t \in reportedTasks
                      /\ g > group + 1 => status[t] = "kReady"
    BY <2>1 DEF OtherInv
  <2>4. CASE g = group
    <3>1. t \in tracked
      BY <2>4, <1>p, <1>t DEF PlaceInv
    <3> QED BY <3>1, <2>3, <2>4, <1>p
  <2>5. CASE g # group
    <3>1. g < group + 1 => g < group
      BY <2>5, <1>p
    <3>2. g > group + 1 => g > group
      BY <1>p
    <3> QED BY <2>2, <3>1, <3>2, <1>t DEF OtherInv
  <2> QED BY <2>4, <2>5
<1>3. CASE UNCHANGED <<groups, group>> /\ reportedTasks \subseteq reportedTasks' /\ result # "false"
           /\ \A t \in Task \ tracked : status'[t] = status[t]
  <2> SUFFICES ASSUME NEW g \in DOMAIN groups, NEW t \in groups[g]
               PROVE  /\ g < group => status'[t] \in FinalStatus /\ t \in reportedTasks'
                      /\ g > group => status'[t] = "kReady"
    BY <1>3 DEF OtherInv
  <2>1. CASE g = group
    BY <2>1, <1>p
  <2>2. CASE g # group
    <3>1. status'[t] = status[t]
      BY <2>2, <1>3, Elsewhere
    <3> QED BY <3>1, <1>3, <1>t DEF OtherInv
  <2> QED BY <2>1, <2>2
<1>4. CASE ~(SkipModel \/ AddExecutor \/ EndModel \/ Prepare \/ NextGroup)
  <2>g. UNCHANGED groups
    BY <1>4, BuildFrame DEF buildVars
  <2>1. CASE EnterStage \/ EndBuild \/ EndStage \/ GroupReported
    <3>1. UNCHANGED <<status, group, reportedTasks>> /\ result = "none"
      BY <2>1, <1>r DEF EnterStage, EndBuild, EndStage, GroupReported, runVars
    <3> QED BY <2>g, <3>1, <1>3
  <2>2. CASE Report
    <3>1. UNCHANGED <<status, group, reportedTasks>> /\ result = "none"
      BY <2>2, <1>r DEF Report, StartReport, Update, PollInterrupt, AcceptInterrupt, DeclineInterrupt,
         JoinAndReturn, runVars
    <3> QED BY <2>g, <3>1, <1>3
  <2>3. CASE BeginCancel \/ CancelTest \/ ReturnInterrupted
    <3>1. UNCHANGED <<status, group, reportedTasks>> /\ result = "none"
      BY <2>3, <1>r DEF BeginCancel, CancelTest, ReturnInterrupted, progressVars
    <3> QED BY <2>g, <3>1, <1>3
  <2>4. CASE CancelStore
    <3>1. UNCHANGED <<group, reportedTasks>> /\ result = "none"
      BY <2>4, <1>r DEF CancelStore
    <3>2. PICK u \in toCancel : status' = [status EXCEPT ![u] = "kCanceled"]
      BY <2>4 DEF CancelStore
    <3>3. u \in tracked
      BY <3>2, <1>t DEF PlaceInv
    <3>4. \A t \in Task \ tracked : status'[t] = status[t]
      BY <3>2, <3>3, <1>t DEF ProgressTypeOK
    <3> QED BY <2>g, <3>1, <3>4, <1>3
  <2>5. CASE Work
    <3>1. UNCHANGED <<group, reportedTasks, result>> /\ thread = "task"
      BY <2>5, WorkFacts
    <3>2. current \in tracked
      BY <3>1, PlaceFacts
    <3>3. \A t \in Task \ tracked : status'[t] = status[t]
      BY <2>5, WorkFacts, <3>2, <1>t DEF ProgressTypeOK
    <3> QED BY <2>g, <3>1, <3>3, <1>3, <1>a
  <2>6. CASE BeginTask \/ EndThread \/ ExecutorThrows \/ ReportResult
    <3>1. UNCHANGED <<status, group, result>> /\ reportedTasks \subseteq reportedTasks'
      BY <2>6 DEF BeginTask, EndThread, ExecutorThrows, ReportResult, progressVars, runVars
    <3> QED BY <2>g, <3>1, <1>3, <1>a
  <2>7. CASE Interrupt \/ UNCHANGED vars
    <3>1. UNCHANGED <<status, group, result, reportedTasks>>
      BY <2>7 DEF Interrupt, UserInterrupt, vars, progressVars, runVars
    <3> QED BY <2>g, <3>1, <1>3, <1>a
  <2> QED BY <1>4, <2>1, <2>2, <2>3, <2>4, <2>5, <2>6, <2>7 DEF Next, MainNext, WorkerNext, Work, Terminated
<1> QED BY <1>1, <1>2, <1>4

LEMMA InvStep ==
  ASSUME IInv, [Next]_vars
  PROVE  IInv'
BY TypeStep, BuildType, StartStep, PairStep, GroupStep, PlaceStep, RunStep, OtherStep DEF IInv, StageInv

-----------------------------------------------------------------------------
(* What follows from the invariant.                                        *)

\* The whole invariant of the two stages holds in every reachable state.
THEOREM Invariance == Spec => []IInv
<1>1. Init => IInv
  BY StageInitInv
<1>2. IInv /\ [Next]_vars => IInv'
  BY InvStep
<1> QED BY <1>1, <1>2, PTL DEF Spec

\* Every variable of BenchmarkStage and Preparation keeps its type.
THEOREM TypeCorrect == Spec => []TypeOK
<1>1. IInv => TypeOK
  BY DEF IInv
<1> QED BY Invariance, <1>1, PTL

LEMMA EntriesFollow ==
  ASSUME IInv
  PROVE  EveryEntryHasItsModel
<1>t. /\ PairInv /\ pairOf \in Seq(Model \X (1 .. Len(prepared)))
      /\ prepared \in Seq(Entry) /\ scenario \in Scenarios
  BY DEF IInv, StageInv, TypeOK, PrepInv, PrepTypeOK
<1>s. scenario.sameContent \in BOOLEAN
  BY <1>t, ScenarioAssumption
<1> SUFFICES ASSUME main \notin {"prepare", "build"}, result # "skipped", NEW i \in DOMAIN prepared
             PROVE  LET m == IF prepared[i][1] \in scenario.overriding THEN 2 ELSE 1
                        tasks == {t \in Created : pairOf[t][2] = i}
                    IN IF m = 2 /\ scenario.sameContent
                       THEN tasks = {}
                       ELSE \E t \in tasks : tasks = {t} /\ pairOf[t] = <<m, i>>
  BY DEF EveryEntryHasItsModel
<1> DEFINE m == IF prepared[i][1] \in scenario.overriding THEN 2 ELSE 1
           tasks == {t \in Created : pairOf[t][2] = i}
<1>1. model = 3 /\ m \in Model
  BY <1>t DEF PairInv, Model
<1>2. \A k \in Model : Uses(k, prepared[i][1]) <=> k = m
  BY DEF Uses, Model
<1>3. \A k \in Model : Reached(k, i) <=> (k = 1 \/ ~scenario.sameContent)
  BY <1>1 DEF Reached, Model
<1>4. \A k \in Model : (\E t \in Created : pairOf[t] = <<k, i>>) <=> k = m /\ (k = 1 \/ ~scenario.sameContent)
  BY <1>2, <1>3, <1>t DEF PairInv
<1>5. \A t \in tasks : pairOf[t] = <<pairOf[t][1], i>> /\ pairOf[t][1] \in Model
  BY <1>t DEF Created
<1>6. \A t \in tasks : pairOf[t] = <<m, i>>
  BY <1>4, <1>5
<1> HIDE DEF m
<1>7. CASE m = 2 /\ scenario.sameContent
  <2>1. tasks = {}
    BY <1>1, <1>4, <1>6, <1>7
  <2> QED BY <1>7, <2>1 DEF m
<1>8. CASE ~(m = 2 /\ scenario.sameContent)
  <2>1. m = 1 \/ ~scenario.sameContent
    BY <1>1, <1>8, <1>s DEF Model
  <2>2. PICK t \in Created : pairOf[t] = <<m, i>>
    BY <1>1, <1>4, <2>1
  <2>3. t \in tasks
    BY <2>2
  <2>4. \A u \in tasks : u = t
    BY <1>6, <2>2, <1>t DEF PairInv
  <2>5. tasks = {t}
    BY <2>3, <2>4
  <2> QED BY <1>8, <2>2, <2>3, <2>5 DEF m
<1> QED BY <1>7, <1>8

LEMMA TrueFollows ==
  ASSUME IInv
  PROVE  TrueMeansAllReported
<1> SUFFICES ASSUME result = "true"
             PROVE  /\ Created # {} /\ reportedTasks = Created
                    /\ \A t \in Created : status[t] \in FinalStatus
                    /\ Joinable
  BY DEF TrueMeansAllReported
<1>t. GroupInv /\ PlaceInv /\ RunInv /\ OtherInv /\ StartInv /\ reportedTasks \subseteq Created
  BY DEF IInv, StageInv, TypeOK
<1>1. main = "returned"
  BY <1>t DEF StartInv
<1>2. Joinable /\ queue = {} /\ group = Len(groups) /\ reportedTasks # {}
  BY <1>1, <1>t DEF PlaceInv
<1>3. current = NoTask
  BY <1>2, <1>t DEF PlaceInv, Joinable
<1>4. shown = tracked
  BY <1>1, <1>t DEF RunInv
<1>5. \A t \in tracked : status[t] \in FinalStatus /\ t \in reportedTasks
  <2>1. \A t \in tracked : t # NoTask
    BY PlaceFacts, NAssumption DEF NoTask, Task
  <2> QED BY <1>1, <1>2, <1>3, <1>4, <2>1, <1>t DEF RunInv
<1>6. \A t \in Created : status[t] \in FinalStatus /\ t \in reportedTasks
  <2> SUFFICES ASSUME NEW t \in Created PROVE status[t] \in FinalStatus /\ t \in reportedTasks
    OBVIOUS
  <2>1. PICK g \in DOMAIN groups : t \in groups[g]
    BY <1>t DEF GroupInv
  <2>2. g \in Nat /\ g >= 1 /\ g <= group /\ group \in Nat
    BY <1>2, PlaceFacts
  <2>3. CASE g = group
    <3>1. t \in tracked
      BY <2>1, <2>2, <2>3, <1>t DEF PlaceInv
    <3> QED BY <3>1, <1>5
  <2>4. CASE g # group
    <3>1. g < group
      BY <2>2, <2>4
    <3> QED BY <2>1, <3>1, <1>t DEF OtherInv
  <2> QED BY <2>3, <2>4
<1> QED BY <1>2, <1>6, <1>t

\* The devices run on are those asked for, each entry was given its model
\* once, and true means that the result of every executor was handed over.
THEOREM ScenarioRun == Spec => []ScenarioIsRun
<1>1. IInv => ScenarioIsRun
  <2> SUFFICES ASSUME IInv PROVE ScenarioIsRun
    OBVIOUS
  <2>1. DevicesAreAsAsked
    BY DevicesFollow DEF IInv
  <2> QED BY <2>1, EntriesFollow, TrueFollows DEF ScenarioIsRun, EntriesAreAsPrepared
<1> QED BY Invariance, <1>1, PTL

-----------------------------------------------------------------------------
(* The groups implement the abstract batch.                                *)

\* Before the first group everything created is pending.
LEMMA AllPending ==
  ASSUME GroupInv, groups \in Seq((SUBSET Created) \ {{}}), group = 0
  PROVE  Pending = Created
<1>1. group + 1 .. Len(groups) = DOMAIN groups /\ \A g \in DOMAIN groups : groups[g] \subseteq Created
  OBVIOUS
<1>2. Pending = UNION {groups[g] : g \in DOMAIN groups}
  BY <1>1 DEF Pending
<1> QED BY <1>1, <1>2 DEF GroupInv

LEMMA PendingKept ==
  ASSUME UNCHANGED <<groups, group>>
  PROVE  Pending' = Pending
BY DEF Pending

LEMMA BatchStep ==
  ASSUME IInv, [Next]_vars
  PROVE  [Batch!Next]_(Batch!vars)
<1>t. /\ GroupInv /\ PlaceInv /\ StartInv /\ groups \in Seq((SUBSET Created) \ {{}})
      /\ DOMAIN groups = 1 .. Len(groups) /\ Len(groups) \in Nat /\ group \in 0 .. Len(groups)
  BY PlaceFacts DEF IInv, StageInv, TypeOK
<1>r. result = "none" <=> main # "returned"
  BY <1>t DEF StartInv
<1>z. NoTask = 0 /\ Batch!Task = Task
  BY DEF NoTask, Batch!Task, Task
<1>s. CASE UNCHANGED <<queue, current, canceled, result>> /\ Pending' = Pending
  BY <1>s DEF Batch!vars
<1>1. CASE SkipModel \/ EndModel \/ Prepare \/ EndBuild \/ GroupReported \/ BeginCancel \/ CancelTest \/ CancelStore
  <2>1. UNCHANGED <<queue, current, canceled, result, groups, group>>
    <3>1. CASE SkipModel \/ EndModel \/ Prepare \/ EndBuild \/ GroupReported
      BY <3>1 DEF SkipModel, EndModel, Prepare, EndBuild, GroupReported, buildVars, schedulerVars, runVars
    <3>2. CASE BeginCancel \/ CancelTest \/ CancelStore
      BY <3>2 DEF BeginCancel, CancelTest, CancelStore, buildVars, schedulerVars
    <3> QED BY <1>1, <3>1, <3>2
  <2> QED BY <2>1, <1>s, PendingKept
<1>2. CASE Work \/ EndThread \/ Interrupt \/ UNCHANGED vars
  <2>1. UNCHANGED <<queue, current, canceled, result, groups, group>>
    <3>1. CASE Work
      BY <3>1, WorkFacts DEF buildVars, schedulerVars
    <3>2. CASE EndThread
      BY <3>2 DEF EndThread, StopLoop, buildVars, runVars
    <3>3. CASE Interrupt \/ UNCHANGED vars
      BY <3>3 DEF Interrupt, UserInterrupt, vars, buildVars, schedulerVars, runVars
    <3> QED BY <1>2, <3>1, <3>2, <3>3
  <2> QED BY <2>1, <1>s, PendingKept
<1>3. CASE AddExecutor
  <2>1. /\ main = "build" /\ UNCHANGED <<queue, current, canceled, result, group>>
    BY <1>3 DEF AddExecutor, schedulerVars, runVars
  <2>2. group = 0 /\ queue = {} /\ result = "none"
    BY <2>1, <1>t, <1>r DEF StartInv, Early
  <2>3. Pending = Created /\ Pending' = Created'
    <3>1. Pending = Created
      BY <2>2, <1>t, AllPending
    <3>2. GroupInv' /\ groups' \in Seq((SUBSET Created') \ {{}}) /\ group' = 0
      BY <2>1, <2>2, GroupStep
    <3>3. group' + 1 .. Len(groups') = DOMAIN groups' /\ \A g \in DOMAIN groups' : groups'[g] \subseteq Created'
      BY <3>2
    <3>4. Pending' = UNION {groups'[g] : g \in DOMAIN groups'}
      BY <3>3 DEF Pending
    <3> QED BY <3>1, <3>2, <3>3, <3>4 DEF GroupInv
  <2>4. CASE UNCHANGED <<pairOf, groups>>
    BY <2>1, <2>4, <1>s, PendingKept
  <2>5. CASE Uses(model, prepared[position][1])
    <3> DEFINE t == Len(pairOf) + 1
    <3>1. t \in Task /\ Created' = Created \cup {t} /\ \A u \in Created : u < t
      BY <1>3, <2>5, AddFacts
    <3> HIDE DEF t
    <3>2. Batch!Submit
      BY <2>1, <2>2, <2>3, <3>1, <1>z DEF Batch!Submit
    <3> QED BY <3>2 DEF Batch!Next
  <2> QED BY <1>3, <2>4, <2>5 DEF AddExecutor
<1>4. CASE NextGroup
  <2>1. /\ main = "next" /\ group < Len(groups) /\ group' = group + 1
        /\ queue' = groups[group'] /\ canceled' = FALSE /\ current' = NoTask
        /\ UNCHANGED <<groups, result>>
    BY <1>4 DEF NextGroup, buildVars
  <2>2. queue = {} /\ ~canceled /\ current = NoTask
    BY <2>1, <1>t DEF PlaceInv, Joinable
  <2>3. canceled = FALSE
    BY <2>2 DEF IInv, TypeOK, SchedulerTypeOK
  <2>4. group + 1 .. Len(groups) = {group'} \cup (group' + 1 .. Len(groups'))
    BY <2>1, <1>t
  <2>5. Pending = groups[group'] \cup Pending'
    BY <2>1, <2>4 DEF Pending
  <2> QED BY <2>1, <2>2, <2>3, <2>5 DEF Batch!vars
<1>5. CASE EnterStage \/ EndStage \/ ReturnInterrupted
  <2>1. UNCHANGED <<queue, current, canceled, groups, group>>
    BY <1>5 DEF EnterStage, EndStage, ReturnInterrupted, buildVars, schedulerVars
  <2>2. result = "none" /\ Joinable
    <3>1. CASE EnterStage
      BY <3>1, <1>t, <1>r DEF EnterStage, StartInv, Early, Joinable
    <3>2. CASE EndStage
      BY <3>2, <1>t, <1>r DEF EndStage, PlaceInv
    <3>3. CASE ReturnInterrupted
      BY <3>3, <1>r DEF ReturnInterrupted
    <3> QED BY <1>5, <3>1, <3>2, <3>3
  <2>3. current = 0
    BY <2>2, <1>t, <1>z DEF PlaceInv, Joinable
  <2>4. CASE UNCHANGED result
    BY <2>1, <2>4, <1>s, PendingKept
  <2>5. CASE result' \in {"true", "false", "skipped"}
    <3>1. Batch!Decide
      BY <2>1, <2>2, <2>3, <2>5, PendingKept DEF Batch!Decide
    <3> QED BY <3>1 DEF Batch!Next
  <2> QED BY <1>5, <2>4, <2>5 DEF EnterStage, EndStage, ReturnInterrupted, Return
<1>6. CASE Report
  <2>1. UNCHANGED <<groups, group, result>>
    BY <1>6 DEF Report, buildVars, runVars
  <2>2. CASE AcceptInterrupt
    <3>1. main = "ask" /\ canceled' = TRUE /\ UNCHANGED <<queue, current>>
      BY <2>2 DEF AcceptInterrupt, CancelTasks
    <3>2. result = "none"
      BY <3>1, <1>r
    <3>3. Batch!Stop
      BY <2>1, <3>1, <3>2, PendingKept DEF Batch!Stop
    <3> QED BY <3>3 DEF Batch!Next
  <2>3. CASE ~AcceptInterrupt
    <3>1. UNCHANGED <<queue, current, canceled>>
      BY <1>6, <2>3 DEF Report, StartReport, ExecuteTasksAsync, Update, PollInterrupt, DeclineInterrupt,
         JoinAndReturn, schedulerVars
    <3> QED BY <2>1, <3>1, <1>s, PendingKept
  <2> QED BY <2>2, <2>3
<1>7. CASE BeginTask
  <2> SUFFICES ASSUME NEW t \in Task, TakeTask(t) PROVE Batch!Begin
    BY <1>7 DEF BeginTask, Batch!Next
  <2>1. /\ thread = "loop" /\ ~canceled /\ t \in queue /\ \A u \in queue : t <= u
        /\ queue' = queue \ {t} /\ current' = t
        /\ UNCHANGED <<canceled, groups, group, result>>
    BY <1>7 DEF BeginTask, TakeTask, Front, buildVars
  <2>2. current = 0 /\ result = "none"
    BY <2>1, <1>t, <1>r, <1>z DEF PlaceInv, Joinable
  <2>3. group \in DOMAIN groups /\ t \in groups[group]
    <3>1. t \in tracked /\ tracked = (IF group = 0 THEN {} ELSE groups[group])
      BY <2>1, <1>t DEF PlaceInv
    <3>2. group # 0 /\ t \in groups[group]
      BY <3>1
    <3> QED BY <3>2, <1>t
  <2>4. \A u \in Pending : t < u
    BY <2>3, <1>t DEF Pending, GroupInv
  <2>5. t \in Nat
    BY NAssumption DEF Task
  <2>6. t \notin Pending /\ \A u \in Pending : t <= u
    <3>1. \A u \in Pending : u \in Nat
      <4>1. \A g \in DOMAIN groups : groups[g] \subseteq Task
        BY PlaceFacts
      <4> QED BY <4>1, <1>t, NAssumption DEF Pending, Task
    <3> QED BY <2>4, <2>5, <3>1
  <2>7. Pending' = Pending
    BY <2>1, PendingKept
  <2>8. queue' \cup Pending' = (queue \cup Pending) \ {t}
    BY <2>1, <2>6, <2>7
  <2> QED BY <2>1, <2>2, <2>6, <2>8 DEF Batch!Begin
<1>8. CASE ExecutorThrows \/ ReportResult
  <2>1. thread = "task" /\ current' = NoTask /\ UNCHANGED <<queue, canceled, groups, group, result>>
    BY <1>8 DEF ExecutorThrows, ReportResult, EndTask, buildVars
  <2>2. current # 0
    BY <2>1, <1>t, <1>z DEF PlaceInv
  <2>3. Batch!End
    BY <2>1, <2>2, <1>z, PendingKept DEF Batch!End
  <2> QED BY <2>3 DEF Batch!Next
<1> QED BY <1>1, <1>2, <1>3, <1>4, <1>5, <1>6, <1>7, <1>8 DEF Next, MainNext, WorkerNext, Work, Terminated

\* All executors begin in the order they were created, one at a time, none
\* once the interrupt is accepted, and the stage returns once, with none active.
THEOREM Implementation == Spec => ImplementsBatch
<1>1. Init => Batch!Init
  <2> SUFFICES ASSUME Init PROVE Batch!Init
    OBVIOUS
  <2>1. queue = {} /\ current = 0 /\ canceled = FALSE /\ groups = <<>> /\ group = 0 /\ result = "none"
    BY DEF Init, SchedulerInit, NoTask
  <2>2. Pending = {}
    BY <2>1 DEF Pending
  <2> QED BY <2>1, <2>2 DEF Batch!Init
<1>2. IInv /\ [Next]_vars => [Batch!Next]_(Batch!vars)
  BY BatchStep
<1> QED
  BY Invariance, <1>1, <1>2, PTL DEF Spec, ImplementsBatch, Batch!Spec

==============================================================================

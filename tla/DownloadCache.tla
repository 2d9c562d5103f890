----------------------------- MODULE DownloadCache -----------------------------
(***************************************************************************)
(* What the download stage keeps between its calls: the files on disk, the *)
(* URL cache that says where each came from (CIL/url_cache_manager.cpp),   *)
(* the session's plan cache of sizes, and the disk space tracker.  Passes  *)
(* over the storage tasks follow one another in a process that may die at  *)
(* any step and be started again, perhaps as a newer version.              *)
(*                                                                         *)
(* DownloadTasks has the two threads of one pass; here the tasks of a pass *)
(* run one after another, as the scheduler's thread runs them, and a step  *)
(* is one change of a file or of a table.                                  *)
(***************************************************************************)
EXTENDS Integers, FiniteSets

CONSTANTS
  N,          \* storage tasks of all scenarios
  Scenarios,  \* those of each scenario of the configuration
  UrlOf,      \* the URL of each, numbered in the order of std::map
  PathOf,     \* and its destination
  Local,      \* tasks of file:// URLs, copied rather than downloaded
  Versioned,  \* tasks of internal EPs: their storage checks the version
  Zip,        \* tasks of a .zip: never left out by the plan cache
  Size,       \* bytes of each task's file
  Capacity,   \* bytes of the volume
  Sweeps,     \* whether the GUI's collect_file_sizes_only runs occur
  MaxFaults,  \* how often users, other programs and file errors interfere
  None        \* no file, no entry

Task == 1 .. N
Url == {UrlOf[t] : t \in Task}
Path == {PathOf[t] : t \in Task}
\* What a file may hold of what a URL serves: all of it, all but what the last write
\* could not put on the disk, or some of it.
FileContent == [url : Url, held : {"all", "most", "some"}]
WholeFile(t) == [url |-> UrlOf[t], held |-> "all"]
ShortFile(t) == [url |-> UrlOf[t], held |-> "most"]
Damaged(c) == [c EXCEPT !.held = "some"]

\* What a transfer that reports success leaves.
Obtained(t) == {WholeFile(t), ShortFile(t)}

Version == 1 .. 2

\* An entry of cache_: the path, the SHA-256 (one per content) and the version.
Entry == [path : Path, sha : FileContent, version : Version]

ASSUME CacheAssumption ==
  /\ N \in Nat
  /\ Scenarios \subseteq SUBSET Task
  /\ UrlOf \in [Task -> Nat]
  /\ Local \subseteq Task /\ Versioned \subseteq Task /\ Zip \subseteq Task
  /\ Size \in [Task -> Nat \ {0}]
  /\ Capacity \in Nat
  /\ Sweeps \in BOOLEAN
  /\ MaxFaults \in Nat
  /\ None \notin Entry \cup FileContent
  /\ \A s, t \in Task :
       UrlOf[s] = UrlOf[t] =>
         /\ Size[s] = Size[t]
         /\ s \in Local <=> t \in Local
         /\ s \in Versioned <=> t \in Versioned

Table == [Url -> Entry \cup {None}]
Empty == [u \in Url |-> None]

VARIABLES
  disk,       \* the destination files
  tmp,        \* the .tmp files beside them: the task that wrote one last
  cacheFile,  \* url_cache.json
  readable,   \* and whether it can be parsed
  foreign,    \* bytes other programs have put on the volume
  version,    \* of the program installed
  faults,     \* interferences so far
  alive,      \* the process runs
  cache,      \* cache_ of the pass's URLCacheManager
  known,      \* UrlSizeCache: bytes still to fetch, -1 when not known
  verdict,    \* ValidateFile's session cache, of the file as it is now
  scenario,   \* the tasks of the scenario the last sweep was for
  pass,       \* the call in progress
  forced,     \* the download behaviour is "forced"
  at,         \* the place in the pass
  task,       \* the task being run
  queue,      \* tasks still to run, or to remove when clearing
  claimed,    \* tasks with a res_path_
  sizes,      \* scenario_data.file_sizes: the task that gave a URL its size
  counted,    \* and the size
  completed,  \* paths given to MarkCompleted
  ending,     \* how the last pass ended
  blind,      \* history: the cache file could not be opened when the pass began
  unsaved,    \* history: tasks of this run without a matching entry in the cache file
  promised    \* tasks a successful run obtained and nobody disturbed since

stored == <<cacheFile, readable>>
files == <<disk, tmp, stored>>
world == <<foreign, version, faults>>
session == <<known, verdict>>
plan == <<scenario, sizes, counted, completed, unsaved>>
control == <<pass, forced, at, task, queue, blind>>
cacheVars == <<files, world, alive, cache, session, control, claimed, plan, ending, promised>>

CacheTypeOK ==
  /\ disk \in [Path -> FileContent \cup {None}]
  /\ tmp \in [Path -> Task \cup {0}]
  /\ cacheFile \in Table
  /\ readable \in BOOLEAN
  /\ foreign \in Nat
  /\ version \in Version
  /\ faults \in 0 .. MaxFaults
  /\ alive \in BOOLEAN
  /\ cache \in Table
  /\ known \in [Url -> Int]
  /\ verdict \in [Task -> {"none", "valid", "invalid"}]
  /\ scenario \subseteq Task
  /\ pass \in {"none", "collect", "sizing", "run", "clear"}
  /\ forced \in BOOLEAN
  /\ at \in {"idle", "next", "size", "fetch", "fetching", "rename", "renameShort",
             "copying", "record", "store", "storing", "done", "check"}
  /\ task \in Task \cup {0}
  /\ queue \subseteq Task
  /\ claimed \subseteq Task
  /\ sizes \in [Url -> Task \cup {0}]
  /\ counted \in [Url -> Nat]
  /\ completed \subseteq Path
  /\ blind \in BOOLEAN
  /\ unsaved \subseteq Task
  /\ ending \in {"none", "true", "obtained", "failed", "nospace", "midspace", "full", "threw"}
  /\ promised \subseteq Task

CacheInit ==
  /\ disk = [p \in Path |-> None]
  /\ tmp = [p \in Path |-> 0]
  /\ cacheFile = Empty /\ readable = TRUE
  /\ foreign = 0 /\ version = 1 /\ faults = 0
  /\ alive = FALSE
  /\ cache = Empty
  /\ known = [u \in Url |-> -1]
  /\ verdict = [t \in Task |-> "none"]
  /\ scenario = {}
  /\ pass = "none" /\ forced = FALSE /\ at = "idle" /\ task = 0 /\ queue = {}
  /\ blind = FALSE
  /\ claimed = {}
  /\ sizes = [u \in Url |-> 0]
  /\ counted = [u \in Url |-> 0]
  /\ completed = {} /\ unsaved = {}
  /\ ending = "none"
  /\ promised = {}

-----------------------------------------------------------------------------
(* Disk space.  One volume: see the README for VolumeOf.                   *)

TaskOfUrl(u) == CHOOSE t \in Task : UrlOf[t] = u

\* The sum of f over the tasks in set.
SumOver(set, f) ==
  LET to[n \in 0 .. N] ==
        IF n = 0 THEN 0 ELSE to[n - 1] + IF n \in set THEN f[n] ELSE 0
  IN to[N]

\* The first task of each destination.
FirstAt == {t \in Task : \A s \in 1 .. t - 1 : PathOf[s] # PathOf[t]}

\* The bytes of a destination and of the .tmp beside it; half-written files are
\* counted in full.
BytesAt(p) ==
  (IF disk[p] = None THEN 0 ELSE Size[TaskOfUrl(disk[p].url)])
  + (IF tmp[p] = 0 THEN 0 ELSE Size[tmp[p]])

Used == SumOver(FirstAt, [t \in Task |-> BytesAt(PathOf[t])]) + foreign

Available == IF Used > Capacity THEN 0 ELSE Capacity - Used

\* RegisterPlannedDownload for every file size, a URL having that of the last task
\* asked for it: nothing for size 0 or for a path that is registered already.
Planned ==
  {t \in Task : /\ sizes[UrlOf[t]] = t /\ counted[UrlOf[t]] > 0
                /\ \A v \in Url : v < UrlOf[t] /\ counted[v] > 0
                                    => PathOf[sizes[v]] # PathOf[t]}

\* What files_ of the tracker amounts to after MarkCompleted for the paths in done.
BytesLeft(done) ==
  SumOver({t \in Planned : PathOf[t] \notin done}, [t \in Task |-> counted[UrlOf[t]]])

\* The largest planned file.
Largest ==
  CHOOSE bytes \in {0} \cup {counted[UrlOf[t]] : t \in Planned} :
    \A t \in Planned : counted[UrlOf[t]] <= bytes

\* Variant: the scratch of the chunked downloader is not kept back.
HasEnoughSpace_NoHeadroom(done, available) == BytesLeft(done) <= available

\* HasEnoughSpace: half of the largest planned file is kept back as scratch for
\* the chunked downloader; the largest is not looked for again as files complete.
HasEnoughSpace(done, available) ==
  BytesLeft(done) = 0 \/ BytesLeft(done) + Largest \div 2 <= available

-----------------------------------------------------------------------------
(* The URL cache.                                                          *)

\* ValidateFile without its session cache: the file's hash is the one recorded
\* for the URL, and for internal EPs the version too.  The path is not compared.
Valid(t) ==
  LET e == cache[UrlOf[t]]
  IN /\ e # None
     /\ disk[PathOf[t]] = e.sha
     /\ t \in Versioned => e.version = version

\* ValidateFile: its answers are kept by URL, path and modification time.
Validate(t) ==
  IF verdict[t] # "none" THEN verdict[t] ELSE IF Valid(t) THEN "valid" ELSE "invalid"

\* Variant: the answers are kept by URL and path only.
Touch_NoTime(p) == UNCHANGED verdict

\* A file written, removed or damaged has another modification time: what is
\* remembered of the old one is not found again.
Touch(p) ==
  verdict' = [t \in Task |-> IF PathOf[t] = p THEN "none" ELSE verdict[t]]

\* Variant: the entries of other URLs for the same path stay.
Evict_Keeps(p) == cache

\* AddUrlToCache first drops every entry for the path.
Evict(p) ==
  [u \in Url |-> IF cache[u] # None /\ cache[u].path = p THEN None ELSE cache[u]]

-----------------------------------------------------------------------------
(* Passes.                                                                 *)

Quiet == UNCHANGED <<world, alive>>

EndPass(result) ==
  /\ pass' = "none" /\ at' = "idle" /\ task' = 0 /\ queue' = {}
  /\ blind' = FALSE
  /\ ending' = result
  /\ UNCHANGED forced

Mishap == faults < MaxFaults /\ faults' = faults + 1

\* The constructor of URLCacheManager parses the whole file, and a file that does not
\* parse throws.  A file that cannot be opened is taken for none, without a word.
Construct(p, todo) ==
  \/ /\ ~readable
     /\ EndPass("threw")
     /\ UNCHANGED <<cache, faults>>
  \/ /\ \/ readable /\ cache' = cacheFile /\ blind' = FALSE /\ UNCHANGED faults
        \/ Mishap /\ cache' = Empty /\ blind' = TRUE
     /\ pass' = p /\ at' = "next" /\ task' = 0 /\ queue' = todo
     /\ ending' = "none"

Start ==
  /\ ~alive
  /\ alive' = TRUE
  /\ version' \in {v \in Version : v >= version}
  /\ promised' = IF version' = version THEN promised ELSE promised \ Versioned
  /\ UNCHANGED <<files, foreign, faults, cache, session, control, claimed, plan, ending>>

\* A sweep for sizes: the GUI's, or CheckDiskSpace before a run.
BeginSweep ==
  /\ alive /\ pass = "none"
  /\ \E tasks \in Scenarios :
       /\ scenario' = tasks
       /\ \/ Sweeps /\ Construct("collect", tasks) /\ forced' = FALSE
          \/ Construct("sizing", tasks) /\ forced' \in BOOLEAN
  /\ claimed' = {}
  /\ sizes' = [u \in Url |-> 0]
  /\ counted' = [u \in Url |-> 0]
  /\ completed' = {} /\ unsaved' = {}
  /\ UNCHANGED <<files, promised, session, foreign, version, alive>>

\* Variant: the loop begins one task early.
Created_FromZero == 0 .. N

\* Variant: an archive is left out like any other file.
Created_NoZip == {t \in scenario : known[UrlOf[t]] # 0}

\* addStorageTasks of a run leaves out what the plan cache has with 0 bytes.
Created == {t \in scenario : t \in Zip \/ known[UrlOf[t]] # 0}

\* CheckDiskSpace decides after its sweep, then RunStorageTasks begins again.
BeginRun ==
  /\ alive /\ pass = "sizing" /\ at = "check"
  /\ \/ /\ HasEnoughSpace({}, Available)
        /\ Construct("run", Created)
        /\ UNCHANGED forced
     \/ /\ ~HasEnoughSpace({}, Available)
        /\ EndPass("nospace")
        /\ UNCHANGED <<cache, faults>>
  /\ claimed' = {} /\ unsaved' = {}
  /\ UNCHANGED <<files, session, scenario, sizes, counted, completed, promised, foreign,
                 version, alive>>

\* A task whose URL and destination no other task of the scenario has.
Alone(t) == \A s \in scenario \ {t} : UrlOf[s] # UrlOf[t] /\ PathOf[s] # PathOf[t]

\* A task whose URL has no other destination, in any scenario.
Single(t) == \A s \in Task : UrlOf[s] = UrlOf[t] => PathOf[s] = PathOf[t]

\* The tasks are done: the paths, or the sizes, are handed over.
FinishPass ==
  /\ alive /\ at = "next" /\ queue = {} /\ pass # "clear"
  /\ \/ /\ pass = "run"
        /\ EndPass("obtained")
        /\ promised' = promised \cup {t \in claimed \ unsaved : Alone(t) /\ Single(t)}
     \/ /\ pass = "collect"
        /\ EndPass("true")
        /\ UNCHANGED promised
     \/ /\ pass = "sizing"
        /\ at' = "check"
        /\ UNCHANGED <<pass, forced, task, queue, blind, ending, promised>>
  /\ UNCHANGED <<files, cache, session, claimed, plan>>
  /\ Quiet

Next1 == CHOOSE t \in queue : \A s \in queue : t <= s

\* The beginning of StorageTask::Run: CheckIfFileExistsInStorage.  Forced, the
\* file is not looked at before FindFileWithUrl does, which validates it only if
\* the entry has its path, and then fetches it whatever it finds.  FindFileWithUrl
\* also ends with a valid file, but not after the check just said otherwise.  A file
\* may be taken on the session's word although its entry no longer says so.
CheckTask ==
  /\ alive /\ at = "next" /\ queue # {} /\ pass # "clear"
  /\ LET t == Next1
         exists == disk[PathOf[t]] # None
         looked == exists /\ (forced => /\ cache[UrlOf[t]] # None
                                        /\ cache[UrlOf[t]].path = PathOf[t])
         cached == exists /\ ~forced /\ Validate(t) = "valid"
     IN /\ verdict' = IF looked THEN [verdict EXCEPT ![t] = Validate(t)] ELSE verdict
        /\ queue' = queue \ {t}
        /\ \/ /\ cached
              /\ claimed' = claimed \cup {t}
              /\ unsaved' = IF Valid(t) THEN unsaved ELSE unsaved \cup {t}
              /\ UNCHANGED <<task, at>>
           \/ /\ ~cached
              /\ task' = t
              /\ at' = IF pass = "run" THEN "fetch" ELSE "size"
              /\ UNCHANGED <<claimed, unsaved>>
  /\ UNCHANGED <<files, cache, known, pass, forced, blind, scenario, sizes, counted,
                 completed, ending, promised>>
  /\ Quiet

Fail == EndPass("failed")

\* Variant: the task stays in the queue.
Continue_Requeues ==
  at' = "next" /\ task' = 0 /\ queue' = queue \cup {task} /\ UNCHANGED <<pass, forced, blind, ending>>

Continue == at' = "next" /\ task' = 0 /\ UNCHANGED <<pass, forced, queue, blind, ending>>

KnownSize(t) == known[UrlOf[t]]

\* downloadFileFn of a sweep.  A size that is known is used again.  Otherwise the
\* server is asked for it; a local file is looked at when the run will copy it,
\* but the GUI's sweep takes 0 for it.
SizeTask ==
  /\ alive /\ at = "size"
  /\ \/ \E size \in Nat \cap
               (IF KnownSize(task) >= 0 THEN {KnownSize(task)}
                ELSE IF task \in Local /\ pass = "collect" THEN {0}
                ELSE {Size[task]}) :
          /\ known' = [known EXCEPT ![UrlOf[task]] = size]
          /\ sizes' = [sizes EXCEPT ![UrlOf[task]] = task]
          /\ counted' = [counted EXCEPT ![UrlOf[task]] = size]
          /\ Continue
     \/ /\ KnownSize(task) < 0
        /\ Fail
        /\ UNCHANGED <<known, sizes, counted>>
  /\ UNCHANGED <<files, cache, verdict, scenario, claimed, completed, unsaved, promised>>
  /\ Quiet

-----------------------------------------------------------------------------
(* Fetching a file.                                                        *)

\* The task goes on to another place of the pass.
GoTo(place) == at' = place /\ UNCHANGED <<pass, forced, task, queue, blind, ending>>

\* DownloadRemoteFile opens the .tmp; CopyFileWithProgress truncates the
\* destination itself, unless its source cannot be read.
BeginFetch ==
  /\ alive /\ at = "fetch"
  /\ LET p == PathOf[task]
     IN \/ /\ task \notin Local
           /\ tmp' = [tmp EXCEPT ![p] = task]
           /\ GoTo("fetching")
           /\ UNCHANGED <<disk, verdict, promised>>
        \/ /\ task \in Local
           /\ disk' = [disk EXCEPT ![p] = Damaged(WholeFile(task))]
           /\ Touch(p)
           /\ promised' = {t \in promised : PathOf[t] # p}
           /\ GoTo("copying")
           /\ UNCHANGED tmp
        \/ /\ task \in Local
           /\ Fail
           /\ UNCHANGED <<disk, tmp, verdict, promised>>
  /\ UNCHANGED <<stored, cache, known, claimed, plan>>
  /\ Quiet

\* The transfer needs its bytes, the .tmp's own being counted in Used, and half
\* as many again while chunks are merged.
Fits == Used + (IF task \in Local THEN 0 ELSE Size[task] \div 2) <= Capacity

\* Variant: a copy does not test its stream.
Delivered_Untested == {WholeFile(task), ShortFile(task), Damaged(WholeFile(task))}

\* What a transfer that reports success may have left.  A copy tests its stream before
\* the last flush, and a chunk is not asked whether its file was closed (see
\* ChunkedDownload), so that a full volume or a write error may cost the file its end.
Delivered == IF Fits THEN Obtained(task) ELSE {ShortFile(task)}

\* The transfer ends: as a success, out of space, or failed or canceled for another
\* reason.  The .tmp of a failed one is removed, what was copied stays.
EndFetch ==
  /\ alive /\ at \in {"fetching", "copying"}
  /\ LET p == PathOf[task]
     IN \/ \E c \in Delivered :
           /\ IF Fits /\ c # WholeFile(task) THEN Mishap ELSE UNCHANGED faults
           /\ \/ /\ at = "fetching"
                 /\ GoTo(IF c = WholeFile(task) THEN "rename" ELSE "renameShort")
                 /\ UNCHANGED <<disk, tmp, verdict>>
              \/ /\ at = "copying"
                 /\ disk' = [disk EXCEPT ![p] = c]
                 /\ Touch(p)
                 /\ GoTo("record")
                 /\ UNCHANGED tmp
        \/ /\ tmp' = [tmp EXCEPT ![p] = IF at = "fetching" THEN 0 ELSE @]
           /\ IF Fits THEN Fail ELSE EndPass("full")
           /\ UNCHANGED <<disk, verdict, faults>>
  /\ UNCHANGED <<stored, cache, known, claimed, plan, promised, foreign, version, alive>>

\* The .tmp takes the destination's place, or stays where it is.  A promise outlives
\* a file that is replaced by the same.
Replace ==
  /\ alive /\ at \in {"rename", "renameShort"}
  /\ LET p == PathOf[task]
         c == IF at = "rename" THEN WholeFile(task) ELSE ShortFile(task)
     IN \/ /\ disk' = [disk EXCEPT ![p] = c]
           /\ tmp' = [tmp EXCEPT ![p] = 0]
           /\ Touch(p)
           /\ promised' = {t \in promised : PathOf[t] = p => disk[p] = c}
           /\ GoTo("record")
        \/ Fail /\ UNCHANGED <<disk, tmp, verdict, promised>>
  /\ UNCHANGED <<stored, cache, known, claimed, plan>>
  /\ Quiet

\* AddUrlToCache up to the write of the file.  A file that cannot be read for its
\* hash is forgotten in memory only.
Record ==
  /\ alive /\ at = "record"
  /\ LET p == PathOf[task]
         e == [path |-> p, sha |-> disk[p], version |-> version]
     IN \/ /\ cache' = [Evict(p) EXCEPT ![UrlOf[task]] = e]
           /\ GoTo("store")
           /\ UNCHANGED <<promised, unsaved, faults>>
        \/ /\ Mishap
           /\ cache' = Evict(p)
           /\ unsaved' = unsaved \cup {task}
           /\ promised' = {t \in promised : PathOf[t] # p}
           /\ GoTo("done")
  /\ claimed' = claimed \cup {task}
  /\ UNCHANGED <<files, foreign, version, alive, session, scenario, sizes, counted,
                 completed>>

Truncate == cacheFile' = Empty /\ readable' = FALSE

\* A store is over, and with it the clearing it belongs to.
EndStore ==
  \/ pass = "run" /\ GoTo("done")
  \/ pass = "clear" /\ EndPass("true")

\* StoreCacheToFile opens the file, which empties it.  If it cannot, the table stays in
\* memory only, and no error is raised.  What a pass that began blind writes over is
\* lost.
OpenCacheFile ==
  /\ alive /\ at = "store"
  /\ \/ /\ Truncate
        /\ GoTo("storing")
        /\ promised' = IF blind THEN {} ELSE promised
        /\ UNCHANGED <<unsaved, faults>>
     \/ /\ Mishap
        /\ EndStore
        /\ unsaved' = unsaved \cup ({task} \cap Task)
        /\ UNCHANGED <<stored, promised>>
  /\ UNCHANGED <<disk, tmp, foreign, version, alive, cache, session, claimed, scenario,
                 sizes, counted, completed>>

\* The table is written, with nobody looking whether all of it was.
WriteCacheFile ==
  /\ alive /\ at = "storing"
  /\ \/ cacheFile' = cache /\ readable' = TRUE /\ UNCHANGED faults
     \/ Mishap /\ UNCHANGED stored
  /\ EndStore
  /\ UNCHANGED <<disk, tmp, foreign, version, alive, cache, session, claimed, plan, promised>>

\* The lambda after a download: the file is taken off the plan, and what is left
\* of the plan has to fit.
AfterTask ==
  /\ alive /\ at = "done"
  /\ completed' = completed \cup {PathOf[task]}
  /\ IF HasEnoughSpace(completed', Available) THEN Continue ELSE EndPass("midspace")
  /\ UNCHANGED <<files, cache, session, scenario, sizes, counted, unsaved, claimed, promised>>
  /\ Quiet

-----------------------------------------------------------------------------
(* Clearing the cache.                                                     *)

\* A task for each entry.
Recorded == {t \in Task : cache[UrlOf[t]] # None /\ t = TaskOfUrl(UrlOf[t])}

\* DownloadStage::ClearCache.  The queue holds a task for each entry.
BeginClear ==
  /\ alive /\ pass = "none"
  /\ Construct("clear", Recorded')
  /\ forced' = FALSE
  /\ promised' = IF pass' = "clear" THEN {} ELSE promised
  /\ claimed' = {}
  /\ UNCHANGED <<files, session, plan, foreign, version, alive>>

\* An entry goes with its file, and stays when the file cannot be removed.
ClearEntry ==
  /\ alive /\ pass = "clear" /\ at = "next" /\ queue # {}
  /\ LET t == Next1
         u == UrlOf[t]
         p == cache[u].path
     IN /\ queue' = queue \ {t}
        /\ \/ /\ disk' = [disk EXCEPT ![p] = None]
              /\ Touch(p)
              /\ cache' = [cache EXCEPT ![u] = None]
              /\ UNCHANGED faults
           \/ /\ disk[p] # None
              /\ Mishap
              /\ UNCHANGED <<disk, verdict, cache>>
  /\ UNCHANGED <<tmp, stored, foreign, version, alive, known, pass, forced, at, task, blind,
                 claimed, plan, ending, promised>>

StoreCleared ==
  /\ alive /\ pass = "clear" /\ at = "next" /\ queue = {}
  /\ GoTo("store")
  /\ UNCHANGED <<files, cache, session, claimed, plan, promised>>
  /\ Quiet

-----------------------------------------------------------------------------
(* Everybody else.                                                         *)

\* The process ends or is killed at any step.
Crash ==
  /\ alive
  /\ alive' = FALSE
  /\ cache' = Empty
  /\ known' = [u \in Url |-> -1]
  /\ verdict' = [t \in Task |-> "none"]
  /\ scenario' = {}
  /\ pass' = "none" /\ forced' = FALSE /\ at' = "idle" /\ task' = 0 /\ queue' = {}
  /\ blind' = FALSE
  /\ claimed' = {}
  /\ sizes' = [u \in Url |-> 0]
  /\ counted' = [u \in Url |-> 0]
  /\ completed' = {} /\ unsaved' = {}
  /\ ending' = "none"
  /\ UNCHANGED <<files, world, promised>>

\* Between passes somebody removes or damages a file.
Disturb ==
  /\ pass = "none" /\ Mishap
  /\ \E p \in Path :
       /\ disk[p] # None
       /\ disk' = [disk EXCEPT ![p] = IF @.held = "some" THEN None ELSE Damaged(@)]
       /\ Touch(p)
       /\ promised' = {t \in promised : PathOf[t] # p}
  /\ UNCHANGED <<tmp, stored, foreign, version, alive, cache, known, control, claimed,
                 plan, ending>>

\* At any time another program takes space.
TakeSpace ==
  /\ Mishap
  /\ Available > 0
  /\ foreign' = foreign + Available
  /\ UNCHANGED <<files, version, alive, cache, session, control, claimed, plan, ending,
                 promised>>

Step ==
  \/ BeginRun \/ FinishPass \/ CheckTask \/ SizeTask
  \/ BeginFetch \/ EndFetch \/ Replace \/ Record \/ OpenCacheFile \/ WriteCacheFile
  \/ AfterTask \/ ClearEntry \/ StoreCleared

CacheNext ==
  \/ Start \/ BeginSweep \/ BeginClear \/ Step
  \/ Crash \/ Disturb \/ TakeSpace

CacheSpec == CacheInit /\ [][CacheNext]_cacheVars

-----------------------------------------------------------------------------
(* Properties.                                                             *)

\* A task's path in a run, found in the cache or fetched, is a file with what its URL
\* serves, whatever crashed or was damaged before, and although a copy is written
\* straight into the destination: all of it, or, when a full volume or a write error
\* cut the end off a transfer that was reported as a success, all but that end.
ClaimedIsDelivered ==
  pass = "run" =>
    \A t \in claimed : Alone(t) => disk[PathOf[t]] \in Obtained(t)

\* No two URLs are recorded for one path, neither in memory nor on disk, and what
\* is recorded is always the hash of a file as a successful transfer from that URL
\* left it, never of one that was cut in its middle, damaged or of another URL.
OneEntryPerPath ==
  \A table \in {cache, cacheFile} : \A u \in Url :
    table[u] # None =>
      /\ table[u].sha.url = u /\ table[u].sha.held \in {"all", "most"}
      /\ \A v \in Url \ {u} : table[v] # None => table[v].path # table[u].path

\* What a run obtained and recorded stays obtained: as long as url_cache.json can be
\* read, every later process finds the file and its entry without the network, unless
\* somebody disturbed the file, cleared the cache, another file took its place, or a
\* pass that could not open url_cache.json wrote it anew.  (Not said of a URL with two
\* destinations: the entry has the path of one of them and goes with it, while
\* the session's cache still calls the other file valid.)
PromiseKept ==
  readable =>
    \A t \in promised :
      LET e == cacheFile[UrlOf[t]]
      IN /\ e # None /\ e.sha = disk[PathOf[t]] /\ disk[PathOf[t]] \in Obtained(t)
         /\ t \in Versioned => e.version = version

\* A file is without a matching entry in url_cache.json only after an error of a file.
UnsavedByFault == \A t \in unsaved : Single(t) => faults > 0

\* A run is given what the transfers delivered, and what one run obtained serves the
\* later ones.
CacheIsSound == ClaimedIsDelivered /\ OneEntryPerPath /\ PromiseKept /\ UnsavedByFault

\* The sizes a run is planned with are right when no two tasks of the scenario share
\* a URL or a destination and no size is the 0 that the GUI's sweep takes for a
\* local file.
PlanIsRight ==
  \A t \in scenario :
    Alone(t) /\ (sizes[UrlOf[t]] # 0 => counted[UrlOf[t]] = Size[t])

\* If the preflight check let a run with the right sizes begin and no other program
\* takes space, no transfer runs out of it, and the check between two downloads
\* raises no alarm.
CheckedSpaceSuffices ==
  foreign = 0 /\ PlanIsRight => ending \notin {"full", "midspace"}

\* A run that ends well has the path of every file of the scenario, but for the
\* local files that are no archives, which the plan cache may leave out.
RunObtainsEverything ==
  ending = "obtained" => scenario \ claimed \subseteq Local \ Zip

\* A run that was let begin gets what it needs (download_stage.cpp: the preflight
\* check, the check after each download, and what the plan cache leaves out).
RunDelivers == CheckedSpaceSuffices /\ RunObtainsEverything

\* How far each place of a pass is from the next task.  Clearing has the store of the
\* table after its last entry.
Rank == [idle |-> 0, check |-> 0, next |-> IF pass = "clear" THEN 5 ELSE 1, done |-> 2,
         size |-> 2, storing |-> 3, store |-> 4, record |-> 5, copying |-> 6, rename |-> 6,
         renameShort |-> 6, fetching |-> 7, fetch |-> 8]

StepsLeft == 8 * Cardinality(queue) + Rank[at]

\* A pass comes to its end: no step of it goes back to a place it has left or puts a
\* task back into the queue, and only the preflight sweep goes over into a run.
PassAdvances ==
  [][pass # "none" => \/ pass' = "none"
                      \/ pass = "sizing" /\ pass' = "run"
                      \/ pass' = pass /\ StepsLeft' < StepsLeft]_<<pass, at, queue>>

=============================================================================

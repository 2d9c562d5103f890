----------------------------- MODULE ResultsHistory -----------------------------
(***************************************************************************)
(* The history of results: results.json, to which BenchmarkLogger          *)
(* (CIL/benchmark_logger.cpp) appends a line for every result, and the     *)
(* history page of the graphical program, which shows the file's lines and *)
(* deletes the selected ones by rewriting the file in place.               *)
(*                                                                         *)
(* A line is a sequence of fragments <<result, part>>: a line whose        *)
(* newline never got to the file goes on with the next result.  Only a     *)
(* line that is one whole result can be parsed.  One program uses the file *)
(* (its single-instance lock), and the history page cannot be reached      *)
(* while a run is shown (main_window.cpp:245).                             *)
(***************************************************************************)
EXTENDS Integers, FiniteSets, SequencesExt

CONSTANTS
  MaxResults, \* bound: results of all runs
  MaxTears,   \* bound: results that are not appended whole
  MaxWrecks   \* bound: rewrites that are cut short

ASSUME HistoryAssumption ==
  MaxResults \in Nat /\ MaxTears \in Nat /\ MaxWrecks \in Nat

VARIABLES
  main,      \* the program is "off", "idle", in a "run" or in a "rewrite"
  file,      \* the lines of results.json
  ended,     \* the last line has its newline
  view,      \* results_, what the history page shows
  astray,    \* since the page was read the file has not gone along with it, or it could
             \* not be read
  todo,      \* lines of the file that are still to be written back
  results,   \* results so far, numbered from 1
  appended,  \* those whose line was written with its newline
  deleted,   \* those the user deleted, where the file could be opened
  tears, wrecks,
  misled     \* something was deleted while the page's rows were not the file's lines

fileVars == <<file, ended>>
pageVars == <<view, astray>>
pastVars == <<results, appended, deleted, tears, wrecks, misled>>
historyVars == <<main, fileVars, pageVars, todo, pastVars>>

Result == 1 .. MaxResults
Whole(r) == <<r, "whole">>
Torn(r) == <<r, "torn">>
Fragment == Result \X {"whole", "torn"}

HistoryTypeOK ==
  /\ main \in {"off", "idle", "run", "rewrite"}
  /\ Len(file) <= MaxResults
  /\ \A i \in DOMAIN file : Len(file[i]) \in Result /\ \A j \in DOMAIN file[i] : file[i][j] \in Fragment
  /\ ended \in BOOLEAN /\ astray \in BOOLEAN /\ misled \in BOOLEAN
  /\ view \in SeqOf(Result, MaxResults)
  /\ Len(todo) <= MaxResults /\ (todo # <<>> => main = "rewrite")
  /\ results \in 0 .. MaxResults /\ appended \subseteq 1 .. results /\ deleted \subseteq 1 .. results
  /\ tears \in 0 .. MaxTears /\ wrecks \in 0 .. MaxWrecks

HistoryInit ==
  /\ main = "off" /\ file = <<>> /\ ended = TRUE
  /\ view = <<>> /\ astray = FALSE /\ todo = <<>>
  /\ results = 0 /\ appended = {} /\ deleted = {}
  /\ tears = 0 /\ wrecks = 0 /\ misled = FALSE

-----------------------------------------------------------------------------
(* Reading the file.                                                       *)

Readable(line) == Len(line) = 1 /\ line[1][2] = "whole"

\* One line after another, those with a number in keep.
Kept(lines, keep) ==
  LET upTo[i \in 0 .. Len(lines)] ==
        IF i = 0 THEN <<>>
        ELSE IF i \in keep THEN Append(upTo[i - 1], lines[i]) ELSE upTo[i - 1]
  IN  upTo[Len(lines)]

\* A line that cannot be parsed is logged and skipped.
ReadResultsFromFile ==
  LET lines == Kept(file, {i \in DOMAIN file : Readable(file[i])})
  IN  [i \in DOMAIN lines |-> lines[i][1][1]]

\* A file that cannot be opened is logged, and is shown as an empty one.
LoadHistory ==
  \/ view' = ReadResultsFromFile /\ astray' = FALSE
  \/ view' = <<>> /\ astray' = TRUE

\* InitLogs; the appender opens the file without looking at its end.
Start ==
  /\ main = "off"
  /\ main' = "idle"
  /\ LoadHistory
  /\ UNCHANGED <<fileVars, todo, pastVars>>

Quit ==
  /\ main \in {"idle", "run"}
  /\ main' = "off" /\ view' = <<>>
  /\ UNCHANGED <<fileVars, astray, todo, pastVars>>

-----------------------------------------------------------------------------
(* A run appends results.                                                  *)

StartRun ==
  /\ main = "idle"
  /\ main' = "run"
  /\ UNCHANGED <<fileVars, pageVars, todo, pastVars>>

\* What is written goes to the end of the file, behind a newline or not.
Write(fragment) ==
  file' = IF ended THEN Append(file, <<fragment>>)
          ELSE [file EXCEPT ![Len(file)] = Append(@, fragment)]

AppendBenchmarkResult ==
  /\ main = "run" /\ results < MaxResults
  /\ results' = results + 1
  /\ Write(Whole(results')) /\ ended' = TRUE
  /\ appended' = appended \cup {results'}
  /\ UNCHANGED <<main, pageVars, todo, deleted, tears, wrecks, misled>>

\* The process dies in the middle, or there is no room for all of the line:
\* the answer is true all the same.
AppendPart ==
  /\ main = "run" /\ results < MaxResults /\ tears < MaxTears
  /\ results' = results + 1 /\ tears' = tears + 1
  /\ \E fragment \in {Torn(results'), Whole(results')} : Write(fragment)
  /\ ended' = FALSE
  /\ \/ main' = "off" /\ view' = <<>>
     \/ UNCHANGED <<main, view>>
  /\ UNCHANGED <<astray, todo, appended, deleted, wrecks, misled>>

\* Variant: the page is not refreshed.
FinishRun_NoReload ==
  /\ main = "run"
  /\ main' = "idle"
  /\ UNCHANGED <<fileVars, pageVars, todo, pastVars>>

\* OnBenchmarkFinished reads the file again.
FinishRun ==
  /\ main = "run"
  /\ main' = "idle"
  /\ LoadHistory
  /\ UNCHANGED <<fileVars, todo, pastVars>>

-----------------------------------------------------------------------------
(* The user deletes the selected rows.                                     *)

\* Variant: the rows are erased from the first on.
EraseRows_Ascending(s, rows) ==
  LET left[k \in 0 .. Len(s)] ==
        IF k = 0 THEN s
        ELSE IF k \in rows /\ k <= Len(left[k - 1]) THEN RemoveAt(left[k - 1], k) ELSE left[k - 1]
  IN  left[Len(s)]

\* Rows are erased from the last on, so that none moves before its turn.
EraseRows(s, rows) ==
  LET left[k \in 0 .. Len(s)] ==   \* after the last k rows
        IF k = 0 THEN s
        ELSE IF Len(s) + 1 - k \in rows THEN RemoveAt(left[k - 1], Len(s) + 1 - k) ELSE left[k - 1]
  IN  left[Len(s)]

\* RemoveResultsFromFile takes the rows of the page for lines of the file, of
\* which it counts those as well that the page could not read.
OnDeleteHistoryRequested(rows) ==
  /\ main = "idle" /\ rows # {}
  /\ main' = "rewrite"
  /\ view' = EraseRows(view, rows)
  /\ todo' = Kept(file, DOMAIN file \ rows)
  /\ file' = <<>> /\ ended' = TRUE
  /\ deleted' = deleted \cup {view[i] : i \in rows}
  /\ misled' = (misled \/ astray \/ \E i \in DOMAIN file : ~Readable(file[i]))
  /\ UNCHANGED <<astray, results, appended, tears, wrecks>>

\* Variant: the line is written once more.
WriteBack_Twice ==
  /\ main = "rewrite" /\ todo # <<>>
  /\ file' = file \o <<Head(todo), Head(todo)>>
  /\ todo' = Tail(todo)
  /\ UNCHANGED <<main, ended, pageVars, pastVars>>

\* A line counts as written when it is in the file, not in the stream's buffer.
WriteBack ==
  /\ main = "rewrite" /\ todo # <<>>
  /\ file' = Append(file, Head(todo))
  /\ todo' = Tail(todo)
  /\ UNCHANGED <<main, ended, pageVars, pastVars>>

EndRewrite ==
  /\ main = "rewrite" /\ todo = <<>>
  /\ main' = "idle"
  /\ UNCHANGED <<fileVars, pageVars, todo, pastVars>>

\* What was not yet written back is lost; the last line may be there in part.
CutShort ==
  /\ main = "rewrite" /\ wrecks < MaxWrecks
  /\ wrecks' = wrecks + 1 /\ todo' = <<>>
  /\ \/ UNCHANGED fileVars
     \/ /\ todo # <<>> /\ ended' = FALSE
        /\ file' = Append(file, Head(todo))
     \/ /\ todo # <<>> /\ ended' = FALSE
        /\ LET line == Head(todo)
           IN  file' = Append(file, [line EXCEPT ![Len(line)] = Torn(@[1])])
  /\ UNCHANGED <<results, appended, deleted, tears, misled>>

DieInRewrite ==
  /\ CutShort
  /\ main' = "off" /\ view' = <<>>
  /\ UNCHANGED astray

\* A write of a line, or the last one of the buffer when the stream is closed,
\* fails: nothing looks at the stream, whose later writes do nothing, and the
\* page goes on with the rows that are lost.  So are the lines behind one that
\* could not be read, at which the reading ended.
RewriteFails ==
  /\ CutShort /\ todo # <<>>
  /\ main' = "idle" /\ astray' = TRUE
  /\ UNCHANGED view

\* The file cannot be opened, to be read or to be rewritten: the page is without
\* the rows, the file is not.
DeleteFails(rows) ==
  /\ main = "idle" /\ rows # {}
  /\ view' = EraseRows(view, rows)
  /\ astray' = TRUE
  /\ UNCHANGED <<main, fileVars, todo, pastVars>>

-----------------------------------------------------------------------------
HistoryNext ==
  \/ Start \/ Quit
  \/ StartRun \/ AppendBenchmarkResult \/ AppendPart \/ FinishRun
  \/ \E rows \in SUBSET DOMAIN view : OnDeleteHistoryRequested(rows) \/ DeleteFails(rows)
  \/ WriteBack \/ EndRewrite \/ DieInRewrite \/ RewriteFails

HistorySpec == HistoryInit /\ [][HistoryNext]_historyVars

-----------------------------------------------------------------------------
(* Properties.                                                             *)

\* A result that was not appended whole spoils at most one other, the next one;
\* as long as nothing was deleted in the presence of such a line, or from a page
\* that had gone astray, what was deleted is gone from the file for good ("Remove
\* selected benchmark results from file", benchmark_logger.h:82), and everything
\* else that was appended is there, unless a rewrite was cut short; and the page
\* shows what the file holds, in the order of the runs, except where it could not
\* be read or a deletion could not open or rewrite the file, until it is read again.
KeepsResults ==
  LET kept == Range(ReadResultsFromFile)
  IN  main = "idle" /\ ~misled =>
        /\ ~astray => view = ReadResultsFromFile
        /\ \A i, j \in DOMAIN view : i < j => view[i] < view[j]
        /\ kept \cap deleted = {}
        /\ wrecks = 0 => Cardinality(appended \ (deleted \cup kept)) <= tears

=============================================================================

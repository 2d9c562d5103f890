--------------------------- MODULE ProgressableTask ---------------------------
(***************************************************************************)
(* The status every task of a scheduler reports (CIL/progressable_task.h). *)
(* The code compares statuses with the order of the enumeration; the two   *)
(* comparisons it makes, "> kRunning" and ">= kCompleted", are the same    *)
(* set of final statuses.                                                  *)
(***************************************************************************)

Status ==
  {"kReady", "kInitializing", "kRunning",
   "kCompleted", "kFailed", "kCanceled", "KSkipped"}

FinalStatus == {"kCompleted", "kFailed", "kCanceled", "KSkipped"}

=============================================================================

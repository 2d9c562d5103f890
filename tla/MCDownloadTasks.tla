---------------------------- MODULE MCDownloadTasks ----------------------------
(* Small instances of DownloadTasks for TLC. *)
EXTENDS DownloadTasks

CONSTANTS s1, s2

\* The first task has a Storage of its own, the others share one, so stopping
\* one of those can stop another's transfer.
MCStorageOf == [t \in Task |-> IF t = 1 THEN s1 ELSE s2]

MCLastIsEpDep == {N}

=============================================================================

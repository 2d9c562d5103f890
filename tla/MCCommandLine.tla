----------------------------- MODULE MCCommandLine -----------------------------
(* A small instance of CommandLine for TLC. *)
EXTENDS CommandLine

CONSTANTS k1, k2

=============================================================================

---------------------------- MODULE MCResultsHistory ----------------------------
(* A small instance of ResultsHistory for TLC. *)
EXTENDS ResultsHistory

=============================================================================

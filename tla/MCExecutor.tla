------------------------------ MODULE MCExecutor ------------------------------
(* Small instances of Executor for TLC. *)
EXTENDS Executor

\* Two files of different length, and two that are conversations.
MCPlans == {<<1, 2>>, <<3, 3>>}

=============================================================================

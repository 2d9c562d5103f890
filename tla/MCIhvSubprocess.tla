---------------------------- MODULE MCIhvSubprocess ----------------------------
(* Instances of IhvSubprocess for TLC. *)
EXTENDS IhvSubprocess
=============================================================================

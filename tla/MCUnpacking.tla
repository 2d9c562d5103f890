------------------------------ MODULE MCUnpacking ------------------------------
(* A small instance of Unpacking for TLC. *)
EXTENDS Unpacking

\* The new version's first file is longer; the second is as long as before.
MCSize == << <<1, 2>>, <<2, 2>> >>
MCAssetSize == <<2, 1>>

=============================================================================

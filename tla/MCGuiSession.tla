------------------------------ MODULE MCGuiSession ------------------------------
(* Small instances of GuiSession for TLC. *)
EXTENDS GuiSession

=============================================================================

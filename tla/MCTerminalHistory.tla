------------------------- MODULE MCTerminalHistory -------------------------
(* Instance of TerminalHistory for TLC. *)
EXTENDS TerminalHistory
=============================================================================

------------------------------ MODULE MCMsgWin ------------------------------
(***************************************************************************)
(* MsgWin for TLC: three messages, two windows, two open choosers.          *)
(***************************************************************************)
EXTENDS MsgWin

=============================================================================

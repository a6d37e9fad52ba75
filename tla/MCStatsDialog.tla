--------------------------- MODULE MCStatsDialog ---------------------------
(* The Statistics dialog with three bytes of traffic and three dialogs, two *)
(* of them open at once.                                                     *)
EXTENDS StatsDialog
=============================================================================

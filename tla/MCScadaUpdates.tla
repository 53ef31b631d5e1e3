--------------------------- MODULE MCScadaUpdates ---------------------------
(* ScadaUpdates for TLC. *)
EXTENDS ScadaUpdates

CONSTANT c1
OneHistorian == {c1}
=============================================================================

------------------------------ MODULE MCScada ------------------------------
(* Scada for TLC. *)
EXTENDS Scada

CONSTANT c1
OneHistorian == {c1}
=============================================================================

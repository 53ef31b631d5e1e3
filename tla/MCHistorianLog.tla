--------------------------- MODULE MCHistorianLog ---------------------------
(* HistorianLog for TLC. *)
EXTENDS HistorianLog, TLC

CONSTANTS p1, p2
TwoProcesses == {p1, p2}
OneViewer    == {p1}
OneForEach   == p1 :> 1 @@ p2 :> 2  \* each RTU fills in its rtu_id
NotFilledIn  == p1 :> 0 @@ p2 :> 0  \* as the RTU program sends it
=============================================================================

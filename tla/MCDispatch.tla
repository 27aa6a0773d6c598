----------------------------- MODULE MCDispatch -----------------------------
(* Dispatch with reports made at (0, 0), where the municipalities are, and   *)
(* around it.                                                                *)
EXTENDS Dispatch

MCReportLocations == [latitude : -1 .. 1, longitude : -1 .. 1]
=============================================================================

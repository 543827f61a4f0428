------------------------- MODULE MCChartSupervisor -------------------------
(* Instances of ChartSupervisor for TLC.                                   *)
EXTENDS ChartSupervisor
=============================================================================

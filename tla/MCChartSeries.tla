--------------------------- MODULE MCChartSeries ---------------------------
(* Instances of ChartSeries for TLC.                                       *)
EXTENDS ChartSeries
=============================================================================

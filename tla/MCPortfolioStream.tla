-------------------------- MODULE MCPortfolioStream --------------------------
(* Instances of PortfolioStream for TLC.                                   *)
EXTENDS PortfolioStream
=============================================================================

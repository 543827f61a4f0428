------------------------- MODULE MCSdkSubscriptions -------------------------
(* Instances of SdkSubscriptions for TLC.                                  *)
EXTENDS SdkSubscriptions
=============================================================================

------------------------- MODULE MCTelemetryRegion -------------------------
(***************************************************************************)
(* A job of two or three nodes whose script runs on the second, so that    *)
(* the merge reads a remote node's summary first.  The waits of 30 and of  *)
(* 4 seconds are three turns and two.                                      *)
(***************************************************************************)
EXTENDS TelemetryRegion

TwoNodes == {1, 2}
ThreeNodes == {1, 2, 3}
=============================================================================

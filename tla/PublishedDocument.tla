-------------------------- MODULE PublishedDocument --------------------------
(***************************************************************************)
(* What a reader of a telemetry JSON file sees: at first nothing, then a   *)
(* whole document, then another whole document that is newer.  Documents   *)
(* are numbered in the order their writing began; 0 is no document.        *)
(***************************************************************************)
EXTENDS Naturals

CONSTANT Documents

VARIABLE visible

Init == visible = 0

Publish == \E d \in Documents : d > visible /\ visible' = d

Spec == Init /\ [][Publish]_visible
=============================================================================

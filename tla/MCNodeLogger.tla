---------------------------- MODULE MCNodeLogger ----------------------------
(***************************************************************************)
(* Small instances of NodeLogger: a period of two ticks for the flush and  *)
(* for the look at the file, three samples between checkpoints (so that    *)
(* the periods fall in and out of step) and a limit of two errors.         *)
(***************************************************************************)
EXTENDS NodeLogger
=============================================================================

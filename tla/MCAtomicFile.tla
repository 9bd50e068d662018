---------------------------- MODULE MCAtomicFile ----------------------------
(* AtomicFile with one writer, as the proofs assume, and documents of up   *)
(* to three pieces.                                                        *)
EXTENDS AtomicFile_proofs
=============================================================================

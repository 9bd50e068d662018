---------------------------- MODULE MCGpuSampler ----------------------------
(* Two GPUs on the node, of which the job may see both, the second one     *)
(* only (so that positions and indices differ), none, or one that is not   *)
(* there.                                                                  *)
EXTENDS GpuSampler

NodeGpus == <<0, 1>>
JobMasks == {{0, 1}, {1}, {}, {7}}
=============================================================================

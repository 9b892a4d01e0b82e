---------------------------- MODULE MCGpuSharing ----------------------------
(***************************************************************************)
(* Small instances of GpuSharing for TLC: a file of the work queue and a   *)
(* YouTube video, or a video that is also given to the work queue.         *)
(***************************************************************************)
EXTENDS GpuSharing

CONSTANTS f1, v1, v2
=============================================================================

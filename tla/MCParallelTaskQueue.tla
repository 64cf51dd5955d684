------------------------- MODULE MCParallelTaskQueue -------------------------
(* Instances of ParallelTaskQueue for TLC. *)
EXTENDS ParallelTaskQueue
==============================================================================

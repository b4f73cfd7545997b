-------------------------- MODULE MCGpuBatchCompile --------------------------
(* Two batches of two modules, one for the device and one for linking: a   *)
(* module may be refused, certified, confirmed or not, and compiled.       *)
EXTENDS GpuBatchCompile

MCOutput == [b \in Batches |-> IF b = "resident" THEN "gpu" ELSE "host"]
=============================================================================

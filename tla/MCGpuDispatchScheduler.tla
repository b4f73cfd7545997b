----------------------- MODULE MCGpuDispatchScheduler -----------------------
(* Three dispatches in batches of two, so that a flush leaves one over, and *)
(* an abort signal that lanes may share.                                    *)
EXTENDS GpuDispatchScheduler
=============================================================================

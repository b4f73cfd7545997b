----------------------------- MODULE MCWasmHeap -----------------------------
(* Seven words of heap in four pages of 16 bytes.  Blocks of 16, 24 and  *)
(* 32 bytes, so that a free block fits exactly, leaves too little to split *)
(* or leaves a block; one value of two blocks; an encoding that fails half *)
(* way when memory runs out.                                               *)
EXTENDS WasmHeap, TLC

TaskSymmetry == Permutations(Tasks)

MCRequests == {<<1>>, <<32>>, <<12, 20>>}
=============================================================================

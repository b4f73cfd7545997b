-------------------------- MODULE MCParallelCompiler --------------------------
(* The threshold of sixteen modules is two here, and a module weighs at    *)
(* most four.  The call "emit" is one of emitWasmBatch.                    *)
EXTENDS ParallelCompiler

MCMode == [c \in Batches |-> c]

(* Calls that overlap, and end of the service at any moment.               *)
Overlap ==
    [calls |-> {"core", "wasm", "emit"}, weights |-> {<<4>>, <<3, 1, 3>>},
     destroyed |-> {}, breaking |-> {}, terminates |-> TRUE]

(* One call, and every batch of up to four modules of weights 1 to 3.      *)
Cuts ==
    [calls |-> {"core"}, weights |-> UNION {[1 .. n -> 1 .. 3] : n \in 1 .. 4},
     destroyed |-> {}, breaking |-> {}, terminates |-> FALSE]

(* One call, with Core that is gone and a module at which workers throw.   *)
Faulty ==
    [calls |-> {"emit"}, weights |-> {<<1>>, <<1, 2>>, <<1, 1, 1>>, <<2, 2, 1, 4>>},
     destroyed |-> {<<"emit", 4>>}, breaking |-> {<<"emit", 3>>}, terminates |-> FALSE]

(* A batch with Core that is gone, and another batch after it.             *)
Stale ==
    [calls |-> {"emit", "wasm"}, weights |-> {<<1, 2>>, <<1, 1, 1>>},
     destroyed |-> {<<"emit", 2>>}, breaking |-> {}, terminates |-> FALSE]

MCScenarios == {Overlap, Cuts, Faulty}
MCStale == {Stale}
=============================================================================

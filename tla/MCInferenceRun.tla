--------------------------- MODULE MCInferenceRun ---------------------------
(* Eight transitions that use every arena, after two semantic steps; every *)
(* mixture of fuel, dispatch length, initial capacities and device limits. *)
EXTENDS InferenceRun

MCTrace == <<
    [kind |-> "types",   n |-> 1, at |-> 0],
    [kind |-> "push",    n |-> 1, at |-> 0],
    [kind |-> "scratch", n |-> 1, at |-> 0],
    [kind |-> "types",   n |-> 2, at |-> 0],
    [kind |-> "out",     n |-> 1, at |-> 0],
    [kind |-> "scratch", n |-> 1, at |-> 1],
    [kind |-> "pop",     n |-> 1, at |-> 0],
    [kind |-> "out",     n |-> 1, at |-> 1]>>

Small == [type |-> 1, frame |-> 0, scratch |-> 1, output |-> 1]
Narrow == [type |-> 2, frame |-> 1, scratch |-> 1, output |-> 2]
Roomy == [type |-> 4, frame |-> 2, scratch |-> 2, output |-> 4]

(* The run takes 11 steps: one less is too few.                            *)
MCOptions ==
    [maximumSteps : {1, 10, 11, 20}, maximumStepsPerDispatch : {1, 3, 20},
     capacity : {Small, Narrow, Roomy}, words : {8, 16}, outputs : {4}, readback : {0, 1, 2}]
=============================================================================

-------------------------- MODULE MCCompilerService --------------------------
(* Four modules of one shape: a base, a literal update of it, an update of  *)
(* the update that touches the other node, and a copy of the first update   *)
(* at other positions; and a module that does not type check with its update.*)
(* On the GPU two compilations, of a batch of one module each, race a call   *)
(* of destroy().                                                             *)
EXTENDS CompilerService, TLC

MCModules == {"base", "edit", "edit2", "moved", "broken", "broken2"}
MCLiteralNodes == {1, 2}
MCShape == [m \in MCModules |-> IF m \in {"broken", "broken2"} THEN "bad" ELSE "good"]
MCLiterals ==
    "base" :> <<0, 0>> @@ "edit" :> <<1, 0>> @@ "edit2" :> <<1, 1>> @@ "moved" :> <<1, 0>>
    @@ "broken" :> <<0, 0>> @@ "broken2" :> <<1, 0>>
MCPositions == [m \in MCModules |-> IF m = "moved" THEN 2 ELSE 1]
MCReference ==
    "base" :> "none" @@ "edit" :> "base" @@ "edit2" :> "edit" @@ "moved" :> "none"
    @@ "broken" :> "none" @@ "broken2" :> "broken"
MCIllTyped == {"bad"}
MCBackends == {{"cpu"}, {"gpu"}}
MCOutput == [c \in Calls |-> "gpu"]
=============================================================================

-------------------------- MODULE MCProjectCompiler --------------------------
(* A chain of imports, calls that bring different sources of the module at *)
(* its end, and a cache too small for the project.                         *)
EXTENDS ProjectCompiler, TLC

MCUnits == <<"lib", "util", "mid", "app">>
MCImports == [u \in {"lib", "util", "mid", "app"} |->
                CASE u = "mid" -> {"lib"} [] u = "app" -> {"mid", "util"} [] OTHER -> {}]

(* Version 2 of lib edits its values, version 3 its type declarations.     *)
MCTypes == [u \in {"lib", "util", "mid", "app"} |-> <<"Pair", "Pair", "Triple">>]

(* What lib exports differs in every version.  mid passes the Float of lib *)
(* on, so that its inferred interface changes with lib although its source *)
(* does not, but nothing of the new type.                                  *)
MCInterfaces == {"Int", "Float", "Triple"}
MCDeclares == [u \in {"lib", "util", "mid", "app"} |->
                 IF u = "lib" THEN <<"Int", "Float", "Triple">> ELSE <<"Int">>]
MCExports(core) ==
    CASE core.unit = "lib" -> MCDeclares["lib"][core.version]
      [] core.unit = "mid" -> IF core.imports["lib"] = "Float" THEN "Float" ELSE "Int"
      [] OTHER -> "Int"

(* Calls c1 and c2 bring the two versions of lib.  A fault is that of a    *)
(* source of lib, or of any other module when its imports export i.        *)
Project(declared, first, second, faults) ==
    [declared |-> declared, faults |-> faults,
     version |-> [c \in {"c1", "c2"} |-> [u \in {"lib", "util", "mid", "app"} |->
                    IF u # "lib" THEN 1 ELSE IF c = "c1" THEN first ELSE second]]]

MCFault(p, core) ==
    LET at == CASE core.unit = "lib" -> <<"lib", core.version>>
                [] core.unit = "app" -> <<"app", core.imports["mid"]>>
                [] OTHER -> <<core.unit, 1>>
    IN  IF at \in DOMAIN p.faults THEN p.faults[at] ELSE "none"

NoFault == [at \in {} |-> "none"]

MCProjects ==
    {Project(declared, 1, second, NoFault) : declared \in {{}, {"lib"}, {"mid", "app"}}, second \in {2, 3}}
    \cup {Project(declared, 1, 2, (<<"lib", 1>> :> "broken") @@ (<<"app", "Float">> :> fault)) :
            declared \in {{}, {"lib", "util"}}, fault \in {"refused", "untypable"}}
    \cup {Project(declared, 3, 2, (<<"lib", 2>> :> "untypable") @@ (<<"app", "Int">> :> "wrong effects")
                                    @@ (<<"mid", 1>> :> fault)) :
            declared \in {{}, {"app", "mid"}}, fault \in {"broken", "none"}}
    \cup {Project({"mid", "util"}, 1, 2, NoFault)}
=============================================================================

-------------------------- MODULE MCComponentReload --------------------------
(* Two calls and three replacements, one of them with another interface  *)
(* and one without a dispose function.                                     *)
EXTENDS ComponentReload

MCWit == [v \in Versions |-> IF v = "other" THEN "wit2" ELSE "wit1"]
MCDisposable == Versions \ {"plain"}
=============================================================================

----------------------------- MODULE CallByName -----------------------------
(***************************************************************************)
(* The abstract specification of evaluation: what a program means, as an   *)
(* evaluation of the surface syntax by name, with environments of names    *)
(* and without a heap, sharing or indices.  It knows what a frontend may   *)
(* write too: cases with a default, and groups of recursive functions.     *)
(*                                                                         *)
(* An answer is a value, a fault, or "unknown" when the depth is used up,  *)
(* as it is for every program that does not end.                           *)
(***************************************************************************)
EXTENDS SurfaceSyntax

CONSTANT HalfRange \* an integer has one of 2 * HalfRange values

Truncated(n) == ((n + HalfRange) % (2 * HalfRange)) - HalfRange
Ratio(m, n) == CHOOSE q \in -HalfRange .. HalfRange :
                   \E r \in -HalfRange .. HalfRange :
                       /\ m = q * n + r
                       /\ r * r < n * n
                       /\ r = 0 \/ (r < 0) = (m < 0)

Unknown == [is |-> "unknown"]
Faulty(fault) == [is |-> "fault", fault |-> fault]
IntegerValue(n) == [is |-> "integer", n |-> Truncated(n)]
BooleanValue(b) == [is |-> "boolean", b |-> b]
ConstructorValue(con, args) == [is |-> "constructor", con |-> con, args |-> args]
IsValue(a) == a.is \notin {"unknown", "fault"}
IsFunction(a) == a.is = "closure" \/ (a.is = "constructor" /\ Len(a.args) < Arity(a.con))

(* What a name stands for: an expression in its environment, one that      *)
(* refers to itself, a value, or a member of a group.                      *)
Suspended(e, env) == [s |-> "suspended", e |-> e, env |-> env]
Recursive(x, e, env) == [s |-> "recursive", x |-> x, e |-> e, env |-> env]
Known(value) == [s |-> "known", value |-> value]
MembersOf(group, env) ==
    [x \in {group.bindings[i].name : i \in DOMAIN group.bindings} |-> [s |-> "member", x |-> x, group |-> group, env |-> env]]
    @@ env
FunctionOf(group, x) ==
    LET b == group.bindings[CHOOSE i \in DOMAIN group.bindings : group.bindings[i].name = x]
    IN  IF b.xs = <<>> THEN b.body ELSE Lambda(b.xs, b.body)

RECURSIVE Meaning(_, _, _, _)

Force(module, suspension, fuel) ==
    CASE suspension.s = "known" -> suspension.value
      [] suspension.s = "suspended" -> Meaning(module, suspension.e, suspension.env, fuel)
      [] suspension.s = "recursive" ->
             Meaning(module, suspension.e, suspension.x :> suspension @@ suspension.env, fuel)
      [] suspension.s = "member" ->
             Meaning(module, FunctionOf(suspension.group, suspension.x), MembersOf(suspension.group, suspension.env), fuel)

MeaningOfName(module, x, env, fuel) ==
    IF x \in DOMAIN env THEN Force(module, env[x], fuel)
    ELSE IF \E i \in DOMAIN module : module[i].name = x
         THEN Meaning(module, module[CHOOSE i \in DOMAIN module : module[i].name = x].body, <<>>, fuel)
    ELSE ConstructorValue(x, <<>>)

Bound(xs, suspensions, env) ==
    [x \in {xs[i] : i \in DOMAIN xs} |->
        suspensions[CHOOSE i \in DOMAIN xs : xs[i] = x /\ \A j \in DOMAIN xs : xs[j] = x => j <= i]] @@ env

(* A function and one argument, which binds the first parameter.           *)
Applied(module, function, argument, fuel) ==
    LET rest == Tail(function.xs)
        env == Head(function.xs) :> argument @@ function.env
    IN  CASE function.is = "constructor" -> ConstructorValue(function.con, Append(function.args, argument))
          [] function.is = "closure" /\ function.xs = <<>> -> Faulty("TypeError")
          [] function.is = "closure" /\ Len(function.xs) = 1 -> Meaning(module, function.body, env, fuel)
          [] OTHER -> [function EXCEPT !.xs = rest, !.env = env]

MeaningOfCall(module, e, env, fuel) ==
    LET callee == Meaning(module, e.f, env, fuel)
        Step(f, i) ==
            LET argument == Suspended(e.args[i], env)
                value == Force(module, argument, fuel)
            IN  CASE ~IsValue(f) -> f
                  [] IsValue(f) /\ ~IsFunction(f) -> Faulty("TypeError")
                  [] IsFunction(f) /\ i \in e.strict ->
                         IF IsValue(value) THEN Applied(module, f, Known(value), fuel) ELSE value
                  [] OTHER -> Applied(module, f, argument, fuel)
        after[i \in 0 .. Len(e.args)] == IF i = 0 THEN callee ELSE Step(after[i - 1], i)
    IN  IF e.args # <<>> \/ ~IsValue(callee) THEN after[Len(e.args)]
        ELSE IF callee.is # "closure" THEN Faulty("TypeError")
        ELSE IF callee.xs # <<>> THEN Faulty("TypeError")
        ELSE Meaning(module, callee.body, callee.env, fuel)

MeaningOfPrim(module, e, env, fuel) ==
    LET left == Meaning(module, e.args[1], env, fuel)
        right == Meaning(module, e.args[2], env, fuel)
        Numbers == left.is = "integer" /\ right.is = "integer"
    IN  CASE e.op \notin NumericPrimops -> Faulty("BadModule")
          [] e.op \in NumericPrimops /\ ~IsValue(left) -> left
          [] e.op \in NumericPrimops /\ IsValue(left) /\ left.is # "integer" -> Faulty("TypeError")
          [] e.op = "Negate" /\ left.is = "integer" -> IntegerValue(-left.n)
          [] e.op = "Widen" /\ left.is = "integer" -> [is |-> "wide", n |-> left.n]
          [] e.op \in {"Add", "Divide", "Less"} /\ left.is = "integer" /\ ~IsValue(right) -> right
          [] e.op \in {"Add", "Divide", "Less"} /\ left.is = "integer" /\ IsValue(right) ->
                 CASE ~Numbers -> Faulty("TypeError")
                   [] Numbers /\ e.op = "Add" -> IntegerValue(left.n + right.n)
                   [] Numbers /\ e.op = "Less" -> BooleanValue(left.n < right.n)
                   [] OTHER -> IF right.n = 0 THEN Faulty("DivideByZero") ELSE IntegerValue(Ratio(left.n, right.n))

MeaningOfCase(module, e, env, fuel) ==
    LET scrutinee == Meaning(module, e.scrutinee, env, fuel)
        arms == {i \in DOMAIN e.arms : e.arms[i].con = scrutinee.con}
        arm == e.arms[CHOOSE i \in arms : TRUE]
    IN  CASE ~IsValue(scrutinee) -> scrutinee
          [] IsValue(scrutinee) /\ (scrutinee.is # "constructor" \/ IsFunction(scrutinee)) -> Faulty("TypeError")
          [] OTHER ->
                 CASE arms # {} -> Meaning(module, arm.body, Bound(arm.xs, scrutinee.args, env), fuel)
                   [] arms = {} /\ e.k = "case" -> Faulty("NonExhaustiveCase")
                   [] OTHER -> Meaning(module, e.otherwise.body,
                                       [x \in {e.otherwise.xs[i] : i \in DOMAIN e.otherwise.xs} |-> Known(scrutinee)] @@ env, fuel)

Meaning(module, e, env, fuel) ==
    LET Here(child) == Meaning(module, child, env, fuel - 1)
        value == Here(e.value)
        test == Here(e.test)
        Body(suspension) == Meaning(module, e.body, e.x :> suspension @@ env, fuel - 1)
    IN  CASE fuel = 0 -> Unknown
          [] fuel > 0 /\ e.k = "int" -> IntegerValue(e.n)
          [] fuel > 0 /\ e.k = "bool" -> BooleanValue(e.b)
          [] fuel > 0 /\ e.k = "fault" -> Faulty("BadModule")
          [] fuel > 0 /\ e.k = "name" -> MeaningOfName(module, e.x, env, fuel - 1)
          [] fuel > 0 /\ e.k = "let" ->
                 IF ~e.strict THEN Body(Suspended(e.value, env)) ELSE IF IsValue(value) THEN Body(Known(value)) ELSE value
          [] fuel > 0 /\ e.k = "letrec" -> Body(Recursive(e.x, e.value, env))
          [] fuel > 0 /\ e.k = "if" ->
                 CASE ~IsValue(test) -> test
                   [] IsValue(test) /\ test.is # "boolean" -> Faulty("TypeError")
                   [] OTHER -> Here(IF test.b THEN e.consequent ELSE e.alternate)
          [] fuel > 0 /\ e.k = "lambda" -> [is |-> "closure", xs |-> e.xs, body |-> e.body, env |-> env]
          [] fuel > 0 /\ e.k = "apply" -> MeaningOfCall(module, e, env, fuel - 1)
          [] fuel > 0 /\ e.k = "prim" -> MeaningOfPrim(module, e, env, fuel - 1)
          [] fuel > 0 /\ e.k \in {"case", "default"} -> MeaningOfCase(module, e, env, fuel - 1)
          [] fuel > 0 /\ e.k = "group" -> Meaning(module, e.body, MembersOf(e, env), fuel - 1)

(* A value and everything in it; the first fault in it, in order.          *)
RECURSIVE Shown(_, _, _)
Shown(module, answer, fuel) ==
    LET parts == [i \in DOMAIN answer.args |-> Shown(module, Force(module, answer.args[i], fuel), fuel - 1)]
        unshown == {i \in DOMAIN parts : ~IsValue(parts[i])}
    IN  CASE ~IsValue(answer) -> answer
          [] fuel = 0 -> Unknown
          [] fuel > 0 /\ answer.is = "constructor" /\ ~IsFunction(answer) ->
                 IF unshown = {} THEN ConstructorValue(answer.con, parts)
                 ELSE parts[CHOOSE i \in unshown : \A j \in unshown : i <= j]
          [] OTHER -> answer

(* The entry of a module, applied to its input when there is one.          *)
MeaningOfModule(module, inputs, fuel) ==
    LET main == MeaningOfName(module, "main", <<>>, fuel)
    IN  CASE inputs = <<>> \/ ~IsValue(main) -> main
          [] OTHER -> IF IsFunction(main) THEN Applied(module, main, Known(inputs[1]), fuel) ELSE Faulty("TypeError")
=============================================================================

---------------------------- MODULE SurfaceSyntax ----------------------------
(***************************************************************************)
(* The language that the semantic compiler takes in                        *)
(* (src/src/semantic/abi.ts): expressions, type schemas, the types a       *)
(* module declares and the primitive operations.  The words of the encoded *)
(* surface are records here and its indices are nested expressions; source *)
(* spans are left out.                                                     *)
(***************************************************************************)
EXTENDS Integers, Sequences, FiniteSets, TLC

CONSTANT TypeDeclarations \* the declared types, a sequence of records [name, parameters, constructors]

(* Type schemas: a parameter, or a constructor with its arguments.  The    *)
(* numeric types, Bool, Unit and functions are constructors too: nothing   *)
(* distinguishes them from a declared name but the declaration.            *)
Par(name) == [k |-> "par", name |-> name]
Con(name, args) == [k |-> "con", name |-> name, args |-> args]
Fun(parameter, result) == Con("->", <<parameter, result>>)
Integer == Con("Int", <<>>)
SignedInteger64 == Con("I64", <<>>)
Boolean == Con("Bool", <<>>)
UnitType == Con("()", <<>>)
NoType == [k |-> "none"]

(* forall-quantified annotation of a definition                            *)
Forall(parameters, body) == [k |-> "forall", parameters |-> parameters, body |-> body]

BuiltIn == {"Int", "I64", "Bool", "()", "->"}

Declared == {TypeDeclarations[i].name : i \in DOMAIN TypeDeclarations}
Shape(type) == CHOOSE d \in {TypeDeclarations[i] : i \in DOMAIN TypeDeclarations} : d.name = type
IsIndexed(type) == \E i \in DOMAIN Shape(type).constructors : Shape(type).constructors[i].result # NoType

(* A constructor by its name: its declaration and the type that owns it.   *)
OwnersOf(con) ==
    {d \in {TypeDeclarations[i] : i \in DOMAIN TypeDeclarations} :
        \E j \in DOMAIN d.constructors : d.constructors[j].name = con}
OwnerOf(con) == (CHOOSE d \in OwnersOf(con) : TRUE).name
ConstructorsOf(type) == {Shape(type).constructors[i].name : i \in DOMAIN Shape(type).constructors}
ConstructorNames == UNION {ConstructorsOf(type) : type \in Declared}
Constructor(con) ==
    LET d == Shape(OwnerOf(con)) IN d.constructors[CHOOSE i \in DOMAIN d.constructors : d.constructors[i].name = con]
Arity(con) == Len(Constructor(con).fields)

(* Expressions                                                             *)
Number(n) == [k |-> "int", n |-> n]
Truth(b) == [k |-> "bool", b |-> b]
Fault == [k |-> "fault"]
Name(x) == [k |-> "name", x |-> x]
Let(x, value, body) == [k |-> "let", x |-> x, strict |-> FALSE, value |-> value, body |-> body]
StrictLet(x, value, body) == [Let(x, value, body) EXCEPT !.strict = TRUE]
LetRec(x, value, body) == [k |-> "letrec", x |-> x, value |-> value, body |-> body]
If(c, a, b) == [k |-> "if", test |-> c, consequent |-> a, alternate |-> b]
Lambda(xs, body) == [k |-> "lambda", xs |-> xs, body |-> body]
Apply(f, args) == [k |-> "apply", strict |-> {}, f |-> f, args |-> args]
StrictApply(f, args, positions) == [Apply(f, args) EXCEPT !.strict = positions]
Prim(op, args) == [k |-> "prim", op |-> op, args |-> args]
Case(scrutinee, arms) == [k |-> "case", scrutinee |-> scrutinee, arms |-> arms]
Arm(con, xs, body) == [con |-> con, xs |-> xs, body |-> body]

(* The type rule of a primitive: the types of its operands and of its      *)
(* result, over the type of the elements of a Store.                       *)
PrimopSignature(op, element) ==
    LET store == Con("Store", <<element>>)
    IN  CASE op = "Negate"   -> [operands |-> <<Integer>>, result |-> Integer]
          [] op = "Add"      -> [operands |-> <<Integer, Integer>>, result |-> Integer]
          [] op = "Divide"   -> [operands |-> <<Integer, Integer>>, result |-> Integer]
          [] op = "Less"     -> [operands |-> <<Integer, Integer>>, result |-> Boolean]
          [] op = "Widen"    -> [operands |-> <<Integer>>, result |-> SignedInteger64]
          [] op = "StoreEmpty"  -> [operands |-> <<>>, result |-> store]
          [] op = "StoreLength" -> [operands |-> <<store>>, result |-> Integer]
          [] op = "StoreRead"   -> [operands |-> <<store, Integer>>, result |-> element]
          [] op \in {"StoreWrite", "StoreGrow"} -> [operands |-> <<store, Integer, element>>, result |-> store]

NumericPrimops == {"Negate", "Add", "Divide", "Less", "Widen"}

(* The names that are free in an expression.                               *)
RECURSIVE FreeNames(_)
FreeNames(e) ==
    LET All(es) == UNION {FreeNames(es[i]) : i \in DOMAIN es}
        Bound(xs) == {xs[i] : i \in DOMAIN xs}
    IN  CASE e.k \in {"int", "bool", "fault"} -> {}
          [] e.k = "name"   -> {e.x}
          [] e.k = "let"    -> FreeNames(e.value) \cup (FreeNames(e.body) \ {e.x})
          [] e.k = "letrec" -> (FreeNames(e.value) \cup FreeNames(e.body)) \ {e.x}
          [] e.k = "if"     -> All(<<e.test, e.consequent, e.alternate>>)
          [] e.k = "lambda" -> FreeNames(e.body) \ Bound(e.xs)
          [] e.k = "apply"  -> FreeNames(e.f) \cup All(e.args)
          [] e.k = "prim"   -> All(e.args)
          [] e.k = "case"   -> FreeNames(e.scrutinee)
                               \cup UNION {FreeNames(e.arms[i].body) \ Bound(e.arms[i].xs) : i \in DOMAIN e.arms}
=============================================================================

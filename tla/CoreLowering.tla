---------------------------- MODULE CoreLowering ----------------------------
(***************************************************************************)
(* Lowering of a module to Core (src/src/semantic/symbol_lookup.ts,        *)
(* host_semantic_compiler.ts and the compilation shader, which check the   *)
(* same things in the same order): names become the depth of a local, the  *)
(* index of a definition or the index of a constructor, and the first      *)
(* node that cannot be lowered is reported.                                *)
(*                                                                         *)
(* Core is a table of nodes and a table of case alternatives, which refer  *)
(* to each other by index.                                                 *)
(***************************************************************************)
EXTENDS SurfaceSyntax, SequencesExt

ConstructorTable == FlattenSeq([i \in DOMAIN TypeDeclarations |-> TypeDeclarations[i].constructors])
NamesOf(records) == [i \in DOMAIN records |-> records[i].name]
IndexOf(records, name) == SelectInSeq(records, LAMBDA r : r.name = name)

(* validateTopLevelDeclarations: the first error of the declarations.      *)
DeclarationError(module) ==
    LET con == NamesOf(ConstructorTable)
        Repeated(i) == \E j \in 1 .. i - 1 : con[j] = con[i]
        Collides(i) == IndexOf(module, con[i]) # 0
        wrong == {i \in DOMAIN con : Repeated(i) \/ Collides(i)}
        first == CHOOSE i \in wrong : \A j \in wrong : i <= j
    IN  CASE ~IsInjective(NamesOf(module)) -> "DuplicateDefinition"
          [] ~IsInjective(NamesOf(TypeDeclarations)) -> "DuplicateType"
          [] wrong # {} -> IF Repeated(first) THEN "DuplicateConstructor" ELSE "DefinitionConstructorCollision"
          [] IndexOf(module, "main") = 0 -> "MissingMain"
          [] OTHER -> "none"

(* planName.  A scope is the names in it, the innermost first.             *)
ResolvedName(module, x, scope) ==
    LET position == SelectInSeq(scope, LAMBDA y : y = x)
    IN  CASE position # 0 -> [tag |-> "local", depth |-> position - 1]
          [] position = 0 /\ IndexOf(module, x) # 0 -> [tag |-> "global", definition |-> IndexOf(module, x)]
          [] position = 0 /\ IndexOf(module, x) = 0 /\ IndexOf(ConstructorTable, x) # 0 ->
                 [tag |-> "constructor", constructor |-> IndexOf(ConstructorTable, x)]
          [] OTHER -> [tag |-> "unknown"]

(* planCase: the arms in their order.                                      *)
ArmError(arms, i) ==
    CASE IndexOf(ConstructorTable, arms[i].con) = 0 -> "UnknownCaseConstructor"
      [] IndexOf(ConstructorTable, arms[i].con) # 0 /\ Len(arms[i].xs) # Arity(arms[i].con) -> "PatternArityMismatch"
      [] \E j \in 1 .. i - 1 : arms[j].con = arms[i].con -> "DuplicateCaseArm"
      [] OTHER -> "none"
CaseError(arms) ==
    LET wrong == {i \in DOMAIN arms : ArmError(arms, i) # "none"}
    IN  IF wrong = {} THEN "none" ELSE ArmError(arms, CHOOSE i \in wrong : \A j \in wrong : i <= j)

(* The scope of the body of a binder: parameters are entered in order, so  *)
(* that the last one is the innermost; the binders of a pattern from the   *)
(* last to the first.                                                      *)
LambdaScope(xs, scope) == Reverse(xs) \o scope
PatternScope(xs, scope) == xs \o scope

(* l is the Core so far: nodes, alternatives and the first error, after    *)
(* which nothing is lowered.  A node has the index of its place in the     *)
(* traversal, before its children; the alternatives of a case are          *)
(* contiguous.                                                             *)
RECURSIVE LowerNode(_, _, _, _)
LowerNode(module, l, e, scope) ==
    LET at == Len(l.nodes) + 1
        name == ResolvedName(module, e.x, scope)
        Place(m, node) == [m EXCEPT !.nodes[at] = node]
        Reserve(error) ==
            [l EXCEPT !.nodes = Append(@, [tag |-> "none"]), !.code = IF @ = "none" THEN error ELSE @]
        Child(m, child, within) == LowerNode(module, m, child, within)
        (* the children of the same scope, and the node that each became   *)
        Next(r, child) == [l |-> Child(r.l, child, scope), at |-> Append(r.at, Len(r.l.nodes) + 1)]
        All(start, children) ==
            LET after[i \in 0 .. Len(children)] ==
                    IF i = 0 THEN [l |-> start, at |-> <<>>] ELSE Next(after[i - 1], children[i])
            IN  after[Len(children)]
        start == Reserve("none")
        value == Child(start, e.value, IF e.k = "letrec" THEN <<e.x>> \o scope ELSE scope)
        branches == All(start, <<e.test, e.consequent, e.alternate>>)
        call == All(start, <<e.f>> \o e.args)
        operands == All(start, e.args)
        first == Len(l.alternatives) + 1
        reserved == [Reserve(CaseError(e.arms)) EXCEPT
                         !.alternatives = @ \o [i \in DOMAIN e.arms |->
                             [constructor |-> IndexOf(ConstructorTable, e.arms[i].con), binders |-> Len(e.arms[i].xs), body |-> 0]]]
        LowerArm(m, i) == [Child(m, e.arms[i].body, PatternScope(e.arms[i].xs, scope))
                               EXCEPT !.alternatives[first + i - 1].body = Len(m.nodes) + 1]
        arms[i \in 0 .. Len(e.arms)] == IF i = 0 THEN Child(reserved, e.scrutinee, scope) ELSE LowerArm(arms[i - 1], i)
    IN  CASE l.code # "none" -> l
          [] l.code = "none" /\ e.k = "int" -> Place(start, [tag |-> "integer", n |-> e.n])
          [] l.code = "none" /\ e.k = "bool" -> Place(start, [tag |-> "boolean", b |-> e.b])
          [] l.code = "none" /\ e.k = "fault" -> Place(start, [tag |-> "fault"])
          [] l.code = "none" /\ e.k = "name" -> Place(Reserve(IF name.tag = "unknown" THEN "UnknownName" ELSE "none"), name)
          [] l.code = "none" /\ e.k = "let" ->
                 Place(Child(value, e.body, <<e.x>> \o scope),
                       [tag |-> "let", used |-> e.x \in FreeNames(e.body), strict |-> e.strict,
                        value |-> at + 1, body |-> Len(value.nodes) + 1])
          [] l.code = "none" /\ e.k = "letrec" ->
                 Place(Child(value, e.body, <<e.x>> \o scope),
                       [tag |-> "letrec", value |-> at + 1, body |-> Len(value.nodes) + 1])
          [] l.code = "none" /\ e.k = "if" ->
                 Place(branches.l, [tag |-> "if", test |-> branches.at[1],
                                    consequent |-> branches.at[2], alternate |-> branches.at[3]])
          [] l.code = "none" /\ e.k = "lambda" ->
                 Place(Child(start, e.body, LambdaScope(e.xs, scope)),
                       [tag |-> "lambda", parameters |-> Len(e.xs), body |-> at + 1])
          [] l.code = "none" /\ e.k = "apply" ->
                 Place(call.l, [tag |-> "apply", callee |-> call.at[1],
                                arguments |-> [i \in DOMAIN e.args |-> [node |-> call.at[i + 1], strict |-> i \in e.strict]]])
          [] l.code = "none" /\ e.k = "prim" -> Place(operands.l, [tag |-> "prim", op |-> e.op, operands |-> operands.at])
          [] l.code = "none" /\ e.k = "case" ->
                 Place(arms[Len(e.arms)], [tag |-> "case", scrutinee |-> at + 1, first |-> first, count |-> Len(e.arms)])

(* resolveSemanticSurface: Core, or the code of the diagnostic.            *)
Lower(module) ==
    LET empty == [nodes |-> <<>>, alternatives |-> <<>>, code |-> DeclarationError(module)]
        Definition(r, i) == [l |-> LowerNode(module, r.l, module[i].body, <<>>), roots |-> Append(r.roots, Len(r.l.nodes) + 1)]
        after[i \in 0 .. Len(module)] == IF i = 0 THEN [l |-> empty, roots |-> <<>>] ELSE Definition(after[i - 1], i)
        lowered == after[Len(module)]
    IN  [code |-> lowered.l.code, nodes |-> lowered.l.nodes, alternatives |-> lowered.l.alternatives,
         definitions |-> lowered.roots, entry |-> IndexOf(module, "main"),
         arities |-> [i \in DOMAIN ConstructorTable |-> Len(ConstructorTable[i].fields)]]
=============================================================================

---------------------------- MODULE InferenceAbi ----------------------------
(***************************************************************************)
(* What the host uploads for an inference on the GPU and what the shader   *)
(* checks of it before it starts (src/src/semantic/type_schema_abi.ts,     *)
(* type_inference_shader.ts): the type schemas of a module as records that *)
(* refer to each other by index, tables of the records' roots, what the    *)
(* host has found out about the declarations in advance, and the Core.     *)
(*                                                                         *)
(* 0 is NO_INDEX.  A symbol is a name: the tag of the record that has it   *)
(* says whether it is the name of a type or of a parameter.                *)
(***************************************************************************)
EXTENDS CoreLowering, DefinitionGraph

PrimitiveTags == {"Int", "I64", "Bool", "()"}
SchemaRecord(tag, symbol) == [tag |-> tag, symbol |-> symbol, child |-> 0, next |-> 0, synthetic |-> FALSE]

(***************************************************************************)
(* Encoding                                                                *)
(***************************************************************************)
(* A name without arguments that no declaration knows is a parameter of    *)
(* an annotation.                                                          *)
RecordOf(schema, implicit) ==
    CASE schema.k = "par"    -> SchemaRecord("Parameter", schema.name)
      [] schema.k = "forall" -> SchemaRecord("Forall", schema.parameters[1])
      [] schema.k = "con" /\ schema.name = "->" -> SchemaRecord("Function", "none")
      [] schema.k = "con" /\ schema.name \in PrimitiveTags -> SchemaRecord(schema.name, "none")
      [] OTHER -> SchemaRecord(IF implicit /\ schema.args = <<>> /\ schema.name \notin Declared THEN "Parameter" ELSE "Named",
                               schema.name)

(* One record quantifies one parameter.                                    *)
SchemaChildren(schema) ==
    CASE schema.k = "par" -> <<>>
      [] schema.k = "con" -> schema.args
      [] schema.k = "forall" ->
             <<IF Len(schema.parameters) = 1 THEN schema.body ELSE Forall(Tail(schema.parameters), schema.body)>>

LinkChild(words, parent, previous, child) ==
    IF previous = 0 THEN [words EXCEPT ![parent].child = child] ELSE [words EXCEPT ![previous].next = child]

(* TypeSchemaEncoder: records in preorder, the root first.                 *)
RECURSIVE EncodeSchema(_, _, _)
EncodeSchema(words, schema, implicit) ==
    LET root == Len(words) + 1
        children == SchemaChildren(schema)
        Attach(r, child) ==
            LET at == Len(r.words) + 1
            IN  [words |-> LinkChild(EncodeSchema(r.words, child, implicit), root, r.previous, at), previous |-> at]
        after[i \in 0 .. Len(children)] ==
            IF i = 0 THEN [words |-> Append(words, RecordOf(schema, implicit)), previous |-> 0]
            ELSE Attach(after[i - 1], children[i])
    IN  after[Len(children)].words

(* The result of a constructor that declares none.                         *)
SynthesizedConstructorResult(d) == Con(d.name, [i \in DOMAIN d.parameters |-> Par(d.parameters[i])])

RECURSIVE ContainsForall(_)
ContainsForall(schema) ==
    \/ schema.k = "forall"
    \/ schema.k = "con" /\ \E i \in DOMAIN schema.args : ContainsForall(schema.args[i])

(* validateHigherRankDefinitionSchema: quantifiers stand only for the      *)
(* parameters of functions, and each quantifies names of its own.          *)
RECURSIVE ForallsAreParameters(_, _)
ForallsAreParameters(schema, allowed) ==
    CASE schema.k = "forall" -> allowed /\ schema.parameters # <<>> /\ ForallsAreParameters(schema.body, FALSE)
      [] schema.k = "con" ->
             \A i \in DOMAIN schema.args : ForallsAreParameters(schema.args[i], schema.name = "->" /\ i = 1)
      [] OTHER -> TRUE
RECURSIVE ForallNames(_)
ForallNames(schema) ==
    CASE schema.k = "forall" -> schema.parameters \o ForallNames(schema.body)
      [] schema.k = "con" -> FlattenSeq([i \in DOMAIN schema.args |-> ForallNames(schema.args[i])])
      [] OTHER -> <<>>
RECURSIVE FreeParameters(_)
FreeParameters(schema) ==
    CASE schema.k = "par" -> {schema.name}
      [] schema.k = "forall" -> FreeParameters(schema.body) \ ToSet(schema.parameters)
      [] schema.k = "con" -> UNION {FreeParameters(schema.args[i]) : i \in DOMAIN schema.args}
      [] OTHER -> {}
ValidHigherRankSchema(schema) ==
    /\ ForallsAreParameters(schema, FALSE)
    /\ IsInjective(ForallNames(schema))
    /\ ToSet(ForallNames(schema)) \cap FreeParameters(schema) = {}

Undecodable == [k |-> "undecodable"]

(* flattenTypeSchemas: the records, and the roots of the fields and of the *)
(* result of each constructor and of the annotation of each definition.    *)
FlattenTypeSchemas(module) ==
    LET Encode(a, schema, implicit) == [a EXCEPT !.words = EncodeSchema(@, schema, implicit)]
        Field(a, c, i) == [Encode(a, c.fields[i], FALSE) EXCEPT !.roots = Append(@, Len(a.words) + 1)]
        Result(a, c) ==
            LET root == Len(a.words) + 1
                d == Shape(OwnerOf(c.name))
            IN  IF c.result = NoType
                THEN [Encode(a, SynthesizedConstructorResult(d), FALSE) EXCEPT !.words[root].synthetic = TRUE, !.results = Append(@, root)]
                ELSE [Encode(a, c.result, FALSE) EXCEPT !.results = Append(@, root)]
        Declare(a, c) ==
            LET fields[i \in 0 .. Len(c.fields)] == IF i = 0 THEN [a EXCEPT !.roots = <<>>] ELSE Field(fields[i - 1], c, i)
                described == fields[Len(c.fields)]
            IN  Result([described EXCEPT !.fields = Append(@, described.roots)], c)
        Annotate(a, i) ==
            IF module[i].annotation = NoType THEN [a EXCEPT !.annotations = Append(@, 0)]
            ELSE [Encode(a, module[i].annotation, TRUE) EXCEPT !.annotations = Append(@, Len(a.words) + 1)]
        empty == [words |-> <<>>, roots |-> <<>>, fields |-> <<>>, results |-> <<>>, annotations |-> <<>>, code |-> "none"]
        declared[i \in 0 .. Len(ConstructorTable)] == IF i = 0 THEN empty ELSE Declare(declared[i - 1], ConstructorTable[i])
        annotated[i \in 0 .. Len(module)] ==
            IF i = 0 THEN declared[Len(ConstructorTable)] ELSE Annotate(annotated[i - 1], i)
        refused ==
            \/ \E c \in ToSet(ConstructorTable) : ContainsForall(c.result) \/ \E f \in ToSet(c.fields) : ContainsForall(f)
            \/ \E i \in DOMAIN module : ~ValidHigherRankSchema(module[i].annotation)
    IN  IF refused THEN [empty EXCEPT !.code = "encoding"] ELSE annotated[Len(module)]

(***************************************************************************)
(* Decoding: a record of a type is read after the record that refers to    *)
(* it, and referred to once; the type of main has no parameters.           *)
(***************************************************************************)
RECURSIVE SiblingsFrom(_, _)
SiblingsFrom(words, at) == IF at = 0 THEN <<>> ELSE <<at>> \o SiblingsFrom(words, words[at].next)

LinksAreForward(words) ==
    LET links == {<<i, words[i].child>> : i \in DOMAIN words} \cup {<<i, words[i].next>> : i \in DOMAIN words}
        present == {l \in links : l[2] # 0}
    IN  /\ \A l \in present : l[1] < l[2] /\ l[2] \in DOMAIN words
        /\ \A l, m \in present : l[2] = m[2] => l = m

RECURSIVE DecodeRecord(_, _)
DecodeRecord(words, at) ==
    LET record == words[at]
        siblings == SiblingsFrom(words, record.child)
        children == [i \in DOMAIN siblings |-> DecodeRecord(words, siblings[i])]
    IN  CASE Undecodable \in ToSet(children) -> Undecodable
          [] record.tag \in PrimitiveTags -> IF children = <<>> THEN Con(record.tag, <<>>) ELSE Undecodable
          [] record.tag = "Named" -> Con(record.symbol, children)
          [] record.tag = "Function" -> IF Len(children) = 2 THEN Fun(children[1], children[2]) ELSE Undecodable
          [] OTHER -> Undecodable
DecodeType(words, root) ==
    IF ~LinksAreForward(words) \/ words[root].next # 0 THEN Undecodable ELSE DecodeRecord(words, root)

(***************************************************************************)
(* prepareIndexedInferenceMetadata: what the host finds wrong with the     *)
(* declarations, and the shader reports.                                   *)
(***************************************************************************)
TypeFailure(i) ==
    CASE \E j \in 1 .. i - 1 : TypeDeclarations[j].name = TypeDeclarations[i].name -> "DuplicateTypeName"
      [] ~IsInjective(TypeDeclarations[i].parameters) -> "RepeatedTypeParameter"
      [] OTHER -> "none"

(* The parameters in a schema, in its order.                               *)
RECURSIVE ParameterNodes(_, _)
ParameterNodes(words, root) ==
    LET siblings == SiblingsFrom(words, words[root].child)
    IN  (IF words[root].tag = "Parameter" THEN <<words[root].symbol>> ELSE <<>>)
        \o FlattenSeq([i \in DOMAIN siblings |-> ParameterNodes(words, siblings[i])])

ConstructorFailure(abi, c) ==
    LET owner == Shape(OwnerOf(ConstructorTable[c].name))
        result == abi.words[abi.results[c]]
        inFields == FlattenSeq([i \in DOMAIN abi.fields[c] |-> ParameterNodes(abi.words, abi.fields[c][i])])
        inResult == ParameterNodes(abi.words, abi.results[c])
    IN  CASE ~ToSet(inFields \o inResult) \subseteq ToSet(owner.parameters) -> "UndeclaredTypeParameter"
          [] result.tag # "Named" \/ result.symbol # owner.name -> "InvalidConstructorResult"
          [] ~ToSet(inFields) \subseteq ToSet(inResult) -> "HiddenConstructorFieldParameter"
          [] OTHER -> "none"

(***************************************************************************)
(* validation_transition: the sections in their order                      *)
(***************************************************************************)
CoreChildren(core, i) ==
    LET node == core.nodes[i]
    IN  CASE node.tag \in {"let", "letrec"} -> <<node.value, node.body>>
          [] node.tag = "if"     -> <<node.test, node.consequent, node.alternate>>
          [] node.tag = "lambda" -> <<node.body>>
          [] node.tag = "apply"  -> <<node.callee>> \o [j \in DOMAIN node.arguments |-> node.arguments[j].node]
          [] node.tag = "prim"   -> node.operands
          [] node.tag = "case"   -> <<node.scrutinee>> \o [j \in 1 .. node.count |-> core.alternatives[node.first + j - 1].body]
          [] OTHER -> <<>>

(* Children follow their parents, indices are those of something, and only *)
(* functions are defined by themselves.                                    *)
NodeShapeIsValid(core, i) ==
    LET node == core.nodes[i]
    IN  /\ \A child \in ToSet(CoreChildren(core, i)) : child > i /\ child \in DOMAIN core.nodes
        /\ node.tag = "global" => node.definition \in DOMAIN core.definitions
        /\ node.tag = "constructor" => node.constructor \in DOMAIN core.arities
        /\ node.tag = "letrec" => core.nodes[node.value].tag = "lambda"
        /\ node.tag = "prim" => Len(node.operands) = Len(PrimopSignature(node.op, Integer).operands)
        /\ node.tag = "case" =>
               \A j \in node.first .. node.first + node.count - 1 :
                   j \in DOMAIN core.alternatives /\ core.alternatives[j].constructor \in DOMAIN core.arities

RootsAreInOrder(core) ==
    /\ core.definitions[1] = 1
    /\ \A i \in 2 .. Len(core.definitions) : core.definitions[i - 1] < core.definitions[i]

SchemaFailure(abi, i) ==
    LET record == abi.words[i]
        count == Len(SiblingsFrom(abi.words, record.child))
        Expecting(n, failure) == IF count = n THEN "none" ELSE failure
    IN  CASE record.synthetic /\ i \notin ToSet(abi.results) -> "InvalidSchemaShape"
          [] record.tag = "Named" ->
                 IF record.symbol \notin Declared THEN "UnknownType"
                 ELSE Expecting(Len(Shape(record.symbol).parameters), "TypeArgumentCountMismatch")
          [] record.tag = "Function" -> Expecting(2, "InvalidSchemaShape")
          [] record.tag = "Forall" -> Expecting(1, "InvalidSchemaShape")
          [] OTHER -> Expecting(0, "InvalidSchemaShape")

(* The code with which inference starts: none, or that of an input that is *)
(* refused; an invalid one is an error of the compiler.                    *)
ValidationCode(abi, core) ==
    CASE abi.code # "none" -> abi.code
      [] abi.code = "none" /\ \E i \in DOMAIN core.nodes : ~NodeShapeIsValid(core, i) -> "invalid"
      [] abi.code = "none" /\ ~RootsAreInOrder(core) -> "invalid"
      [] abi.code = "none" /\ \/ \E i \in DOMAIN TypeDeclarations : TypeFailure(i) # "none"
                              \/ \E i \in DOMAIN abi.words : SchemaFailure(abi, i) # "none"
                              \/ \E c \in DOMAIN ConstructorTable : ConstructorFailure(abi, c) # "none" -> "F2101"
      [] OTHER -> "none"

(***************************************************************************)
(* tarjan_transition: the definitions that a definition calls are the      *)
(* global names among its nodes, in the order of the nodes.                *)
(***************************************************************************)
DefinitionNodeEnd(core, d) == IF d = Len(core.definitions) THEN Len(core.nodes) ELSE core.definitions[d + 1] - 1
CoreComponents(core) ==
    LET Called(d) == SelectSeq(SubSeq(core.nodes, core.definitions[d], DefinitionNodeEnd(core, d)), LAMBDA n : n.tag = "global")
    IN  ComponentsOf([d \in DOMAIN core.definitions |-> [i \in DOMAIN Called(d) |-> Called(d)[i].definition]])
=============================================================================

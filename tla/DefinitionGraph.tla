--------------------------- MODULE DefinitionGraph ---------------------------
(***************************************************************************)
(* The definitions of a module and the order in which they are inferred:   *)
(* the components of definitions that call each other, callees first.  A   *)
(* module is a sequence of records [name, annotation, body].               *)
(***************************************************************************)
EXTENDS SurfaceSyntax, SequencesExt

DefinitionNames(module) == {module[i].name : i \in DOMAIN module}
DefinitionDependencies(module, i) ==
    {j \in DOMAIN module : module[j].name \in FreeNames(module[i].body)}

(* Tarjan's algorithm, over the callees of each definition in their order. *)
RECURSIVE VisitDefinition(_, _, _)
VisitDefinition(calls, g, v) ==
    LET entered == [g EXCEPT !.next = @ + 1, !.index = v :> g.next @@ @, !.low = v :> g.next @@ @, !.stack = Append(@, v)]
        Lower(h, w) ==
            IF w \notin DOMAIN h.index
            THEN LET below == VisitDefinition(calls, h, w)
                 IN  [below EXCEPT !.low[v] = IF below.low[w] < @ THEN below.low[w] ELSE @]
            ELSE IF w \in ToSet(h.stack) THEN [h EXCEPT !.low[v] = IF h.index[w] < @ THEN h.index[w] ELSE @]
            ELSE h
        after[i \in 0 .. Len(calls[v])] == IF i = 0 THEN entered ELSE Lower(after[i - 1], calls[v][i])
        left == after[Len(calls[v])]
        at == CHOOSE i \in DOMAIN left.stack : left.stack[i] = v
    IN  IF left.low[v] # left.index[v] THEN left
        ELSE [left EXCEPT !.stack = SubSeq(@, 1, at - 1),
                          !.components = Append(@, Reverse(SubSeq(left.stack, at, Len(left.stack))))]

ComponentsOf(calls) ==
    LET Visit(g, v) == IF v \in DOMAIN g.index THEN g ELSE VisitDefinition(calls, g, v)
        unvisited == [next |-> 0, index |-> <<>>, low |-> <<>>, stack |-> <<>>, components |-> <<>>]
        after[i \in 0 .. Len(calls)] == IF i = 0 THEN unvisited ELSE Visit(after[i - 1], i)
    IN  after[Len(calls)].components

DefinitionComponents(module) ==
    ComponentsOf([i \in DOMAIN module |-> SetToSortSeq(DefinitionDependencies(module, i), <)])
=============================================================================

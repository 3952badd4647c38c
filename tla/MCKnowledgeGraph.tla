-------------------------- MODULE MCKnowledgeGraph --------------------------
(* A small instance of KnowledgeGraph for TLC: two chunks of one document; *)
(* under the first ontology version one of them states a relation, under   *)
(* the second the other one.                                               *)
EXTENDS KnowledgeGraph

CONSTANTS c1, c2, d1, n1, n2

MCPairs == {<<n1, n2>>}
MCDocOf == [c \in {c1, c2} |-> d1]

Both == [entities |-> <<n1, n2>>, triples |-> <<<<n1, n2>>>>]
One  == [entities |-> <<n2>>, triples |-> <<>>]

MCOutput == <<[c \in {c1, c2} |-> IF c = c1 THEN Both ELSE One],
              [c \in {c1, c2} |-> IF c = c2 THEN Both ELSE One]>>
=============================================================================

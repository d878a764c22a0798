--------------------------- MODULE MCAlsaManager ---------------------------
\* Two programs: a has two ports and sends from the first one to b.
EXTENDS AlsaManager, TLC

CONSTANTS a, b, n1, n2

PortsDef == (a :> {0, 1}) @@ (b :> {0})
WireDef == {<< <<a, 0>>, <<b, 0>> >>}
DocumentDef == {[c \in Client |-> {[src |-> ById(a, 0), dest |-> ById(b, 0)]}]}

\* The numbers of programs have no order.
NumberSymmetry == Permutations(Number)
=============================================================================

--------------------------- MODULE MCJackManager ---------------------------
\* Two programs: a has two ports and sends from the first one to b's port,
\* which has the name of a's second one.
EXTENDS JackManager, TLC

CONSTANTS a, b, out, in, n1, n2

PortsDef == (a :> {out, in}) @@ (b :> {in})
WireDef == {<< <<a, out>>, <<b, in>> >>}
DocumentDef == {[c \in Client |-> {[src |-> ById(a, out), dest |-> ById(b, in)]}]}

\* The names of JACK clients have no meaning of their own.
NameSymmetry == Permutations(Name)
=============================================================================

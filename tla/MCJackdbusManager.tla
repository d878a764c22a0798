-------------------------- MODULE MCJackdbusManager --------------------------
\* Two programs; until it connects to lashd, each is a foreign JACK client.
EXTENDS JackdbusManager

CONSTANTS a, b

WireDef == {<<a, b>>}
PortDef == (a :> "out") @@ (b :> "in")

\* A wire between two clients of the project, and one to another program.
Both == [src |-> ById(a), dest |-> ById(b)]
Outward == [src |-> ById(a), dest |-> ByName(b)]
DocumentDef == {[c \in Client |-> {Both}],
                [c \in Client |-> IF c = a THEN {Outward} ELSE NotSaved]}
===============================================================================

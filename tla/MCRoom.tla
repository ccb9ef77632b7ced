-------------------------------- MODULE MCRoom ---------------------------------
EXTENDS Room, TLC

CONSTANTS c1, c2, c3, e1, e2

\* All clients on one controller, or one of them on another.
OneHome == [c \in Client |-> e1]
TwoHomes == [c \in Client |-> IF c = c3 THEN e2 ELSE e1]

SymmAll == Permutations(Client) \cup Permutations(Agent)
SymmHomes == Permutations({c1, c2}) \cup Permutations(Agent)
================================================================================

---- MODULE MCNeighbourDiscovery ----
\* Two hosts with the same interface token, and two that want the same global address:
\* h1 is given the one by hand that h3 forms from the prefix of a router.
EXTENDS NeighbourDiscovery

CONSTANTS h1, h2, h3, k1, k2

MCTokenOf == [h \in {h1, h2, h3} |-> IF h = h3 THEN k2 ELSE k1]

MCManual == [h \in {h1, h2, h3} |-> IF h = h1 THEN {<<Global, k2>>} ELSE {}]
====

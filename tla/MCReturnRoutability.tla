---- MODULE MCReturnRoutability ----
\* The model-checking instance of ReturnRoutability: the CoAs are interchangeable.
EXTENDS ReturnRoutability, TLC
Sym == Permutations(Foreign)

\* Bound of the safety run: the network loses messages for ever, and only the messages
\* of the tests are in flight together.
TestsOverlap == /\ lossy
                /\ \/ Cardinality(msgs) <= 1
                   \/ \A m \in msgs : m.type \in {"HoTI", "CoTI", "HoT", "CoT"}
====

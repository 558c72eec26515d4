---- MODULE MCHomeRegistration ----
EXTENDS HomeRegistration
Sym == Permutations(Foreign)
====

---------------------------- MODULE MCValueFlow ------------------------------
(* Finite instances of ValueFlow for TLC; the values are in the cfg files.    *)
EXTENDS ValueFlow, TLC

Symmetry == Permutations(Subs) \cup Permutations(Nodes)
=============================================================================

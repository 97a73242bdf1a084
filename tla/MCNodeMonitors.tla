--------------------------- MODULE MCNodeMonitors ----------------------------
(* Finite instances of NodeMonitors for TLC; the values are in the cfg files. *)
EXTENDS NodeMonitors, TLC

Symmetry == Permutations(Subs) \cup Permutations(Workers) \cup Permutations(Nodes)
=============================================================================

---------------------------- MODULE MCUpdateQueue ----------------------------
(* Finite instances of UpdateQueue for TLC; the values are in the cfg files.  *)
EXTENDS UpdateQueue, TLC

Symmetry == Permutations(Values) \cup Permutations(Callers) \cup Permutations(Streams)

\* Bound of the run about the end of streams: a stream ends because another takes over,
\* or because the subscription is deleted, expires or is shut down, not both in one
\* behaviour.  No step of a started request is cut off, so the fairness of FairSpec means
\* what it meant.
OneEndAtATime == generation' > 1 => exists' /\ shutdown' = "no" /\ ~stale'
=============================================================================

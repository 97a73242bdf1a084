----------------------------- MODULE MCAlgorithms -----------------------------
EXTENDS ApiAlgorithms
=============================================================================

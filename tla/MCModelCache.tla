----------------------------- MODULE MCModelCache -----------------------------
EXTENDS ModelCache, TLC
=============================================================================

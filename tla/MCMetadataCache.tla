-------------------------- MODULE MCMetadataCache ----------------------------
(* Finite instances of MetadataCache for TLC; the values are in the cfg files. *)
EXTENDS MetadataCache, TLC

=============================================================================

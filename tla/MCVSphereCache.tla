--------------------------- MODULE MCVSphereCache ---------------------------
(* Model-checking instance of VSphereCache.                                 *)
EXTENDS VSphereCache

=============================================================================

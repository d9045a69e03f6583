----------------------------- MODULE MCCheckPool -----------------------------
(* Model-checking instance of CheckPool.                                    *)
EXTENDS CheckPool

=============================================================================

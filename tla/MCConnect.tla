------------------------------ MODULE MCConnect ------------------------------
(* Model-checking instance of Connect.                                      *)
EXTENDS Connect

=============================================================================

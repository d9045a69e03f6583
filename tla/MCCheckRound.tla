---------------------------- MODULE MCCheckRound ----------------------------
(* Model-checking instance of CheckRound.                                   *)
EXTENDS CheckRound

CONSTANTS c1, k1, k2, n1, n2, bm

\* Two node checks, in the order of DefaultNodeChecks.
MCNodeChecks == <<k1, k2>>

=============================================================================

-------------------------- MODULE MCNodeCheckRound --------------------------
(* Model-checking instance of NodeCheckRound.                               *)
EXTENDS NodeCheckRound, TLC

\* Masters, other nodes, vCenters, hosts and versions are interchangeable
\* among themselves: no action or property names one.
MCSymmetry == Permutations(Master) \cup Permutations(Node \ Master)
                \cup Permutations(VCenter) \cup Permutations(HostRef)
                \cup Permutations(HwVersion) \cup Permutations(EsxiVersion)

=============================================================================

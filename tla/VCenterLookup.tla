---------------------------- MODULE VCenterLookup ----------------------------
(***************************************************************************)
(* How a node is assigned to one of the connected vCenters: GetVCenter and *)
(* ConvertToPlatformSpec of pkg/check/util.go.  Every node-level check     *)
(* asks GetVCenter; a wrong answer looks for the node's VM in the wrong    *)
(* vCenter.  The operators are pure; CheckCalls calls them.                *)
(***************************************************************************)
EXTENDS Integers, Sequences, FiniteSets

CONSTANTS VCenter,   \* vCenters that exist
          Label,     \* values of the region and zone labels of nodes
          MaxFDs     \* bound: failure domains in the infrastructure object

NoLabel == ""
Error == "error"

ASSUME LabelAssumption ==
  /\ NoLabel \notin Label
  /\ Error \notin VCenter
  /\ IsFiniteSet(VCenter)
  /\ MaxFDs \in Nat

FailureDomain == [region : Label, zone : Label, server : VCenter]

\* What the round knows of the configuration.
\*   vcs: the vCenters the round is connected to
\*   infraVCs, fds: those of the infrastructure object, in its order
\*   legacy: the cloud config is in the old INI format, and then
\*   workspace: the vCenter its Workspace section names
Config == [vcs : SUBSET VCenter \ {{}}, infraVCs : SUBSET VCenter,
           fds : UNION {[1..n -> FailureDomain] : n \in 0..MaxFDs},
           legacy : BOOLEAN, workspace : VCenter]

\* The labels of a node, current and beta.
NodeLabels == [region : Label \cup {NoLabel}, zone : Label \cup {NoLabel},
               betaRegion : Label \cup {NoLabel},
               betaZone : Label \cup {NoLabel}]

-----------------------------------------------------------------------------
(* ConvertToPlatformSpec                                                   *)

\* addFailureDomainsToPlatformSpec: a failure domain without region and zone.
LegacyFD(vc) == [region |-> NoLabel, zone |-> NoLabel, server |-> vc]

\* Mutant: the failure domains are assigned, not appended.
MutantOverwrite(cfg, spec, order) ==
  IF cfg.workspace \notin cfg.vcs \/ order = <<>> THEN spec
  ELSE [vcs |-> spec.vcs \cup {order[i] : i \in DOMAIN order},
        fds |-> <<LegacyFD(order[Len(order)])>>]

\* convertIntreeToPlatformSpec, for vCenters in the order the map iteration
\* gives them.  The legacy config knows the vCenter of its workspace only if
\* it has a section for it, and then the round is connected to it.
convertIntreeToPlatformSpec(cfg, spec, order) ==
  IF cfg.workspace \notin cfg.vcs THEN spec
  ELSE [vcs |-> spec.vcs \cup {order[i] : i \in DOMAIN order},
        fds |-> spec.fds \o [i \in DOMAIN order |-> LegacyFD(order[i])]]

Orders(S) == {o \in [1..Cardinality(S) -> S] :
                \A i, j \in DOMAIN o : o[i] = o[j] => i = j}

\* All platform specs the conversion may produce: one for each order in which
\* the map of vCenters is walked.
ConvertToPlatformSpec(cfg) ==
  LET spec == [vcs |-> cfg.infraVCs, fds |-> cfg.fds]
      missing == cfg.vcs \ cfg.infraVCs
      added(order) == convertIntreeToPlatformSpec(cfg, spec, order)
      failsafe(s) == IF s.fds = <<>>
                     THEN [s EXCEPT !.fds = <<LegacyFD(cfg.workspace)>>]
                     ELSE s
  IN  IF ~cfg.legacy THEN {spec}
      ELSE IF cfg.infraVCs # {}
           THEN {failsafe(added(order)) : order \in Orders(missing)}
      ELSE IF Cardinality(cfg.vcs) = 1
           THEN {added(order) : order \in Orders(cfg.vcs)}
      ELSE {spec}

-----------------------------------------------------------------------------
(* GetVCenter                                                              *)

\* A missing label falls back to the older beta label.
Region(node) == IF node.region # NoLabel THEN node.region ELSE node.betaRegion
Zone(node) == IF node.zone # NoLabel THEN node.zone ELSE node.betaZone
Labelled(node) == Region(node) # NoLabel /\ Zone(node) # NoLabel

Matches(node, fds) ==
  {i \in DOMAIN fds : fds[i].region = Region(node) /\ fds[i].zone = Zone(node)}

\* checkContext.VCenters[server], an error when the round has no such vCenter.
ConnectedVCenter(vcs, server) == IF server \in vcs THEN server ELSE Error

First(S) == CHOOSE i \in S : \A j \in S : i <= j

\* Mutant: the first failure domain when none matches.
MutantGuess(vcs, fds, node) ==
  LET matches == Matches(node, fds) IN
  IF Labelled(node) /\ matches # {}
  THEN ConnectedVCenter(vcs, fds[First(matches)].server)
  ELSE IF Len(fds) > 0 THEN ConnectedVCenter(vcs, fds[1].server)
  ELSE IF Cardinality(vcs) > 1 THEN Error
  ELSE CHOOSE vc \in vcs : TRUE

GetVCenter(vcs, fds, node) ==
  LET matches == Matches(node, fds) IN
  IF Labelled(node) /\ matches # {}
  THEN ConnectedVCenter(vcs, fds[First(matches)].server)
  ELSE IF Len(fds) > 1 THEN Error
  ELSE IF Len(fds) = 1 THEN ConnectedVCenter(vcs, fds[1].server)
  ELSE IF Cardinality(vcs) > 1 THEN Error
  ELSE CHOOSE vc \in vcs : TRUE

=============================================================================

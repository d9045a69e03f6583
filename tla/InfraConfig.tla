----------------------------- MODULE InfraConfig -----------------------------
(***************************************************************************)
(* CheckInfraConfig (infra_config.go) and CheckDatacenterConsistency       *)
(* (datacenter_consistency.go) of pkg/check: the infrastructure object     *)
(* against the cloud provider config.                                      *)
(*                                                                         *)
(* infra.read: GetInfrastructure succeeds.                                 *)
(* infra.vcs maps the vCenters of the infrastructure object (unique by the *)
(* validation of the API) to the datacenters listed there, infra.fds is    *)
(* the list of failure domains.  cfg maps the vCenters of the cloud config *)
(* to the text of their datacenters key: the fields between the commas,    *)
(* each a name or blank, with or without spaces around it.                 *)
(***************************************************************************)
EXTENDS CheckErrors

CONSTANT Datacenter   \* names of datacenters

Blank == ""
Field == [name : Datacenter \cup {Blank}, spaces : BOOLEAN]

ASSUME DatacenterAssumption == Blank \notin Datacenter

\* Mutant: the fields are not trimmed, and one with spaces matches no name.
MutantNoTrim(raw) == {raw[i].name : i \in {j \in DOMAIN raw : ~raw[j].spaces}}

\* Split at the commas, TrimSpace, and drop what is blank.
parseDatacenters(raw) == {raw[i].name : i \in DOMAIN raw} \ {Blank}

checkVCenters(infra, cfg) ==
  LET missing == DOMAIN infra.vcs \ DOMAIN cfg IN
  IF Cardinality(DOMAIN infra.vcs) # Cardinality(DOMAIN cfg)
  THEN {<<"vCenters", "count">>}
  ELSE {<<"not in config", vc>> : vc \in missing}

checkFailureDomains(infra) ==
  LET servers == {infra.fds[i].server : i \in DOMAIN infra.fds}
      foundVCs == servers \cap DOMAIN infra.vcs
  IN  {<<"no such vCenter", vc>> : vc \in servers \ foundVCs}
        \cup {<<"vCenter not used", vc>> : vc \in DOMAIN infra.vcs \ foundVCs}

Unreadable == {<<"infrastructure", "unreadable">>}

\* A legacy infrastructure object has no failure domains and is not checked.
CheckInfraConfig(infra, cfg) ==
  IF ~infra.read THEN Unreadable
  ELSE IF infra.fds = <<>> THEN {}
  ELSE checkVCenters(infra, cfg) \cup checkFailureDomains(infra)

\* Each failure domain against the config, skipping a vCenter that is not
\* there, then against the vCenters of the infrastructure object.
CheckDatacenterConsistency(infra, cfg) ==
  LET domain(i) == infra.fds[i]
      body(i) ==
        If(domain(i).server \in DOMAIN cfg
             /\ domain(i).dc \notin parseDatacenters(cfg[domain(i).server]),
           <<"not in config", domain(i)>>)
        \cup
        If(domain(i).server \in DOMAIN infra.vcs
             /\ domain(i).dc \notin infra.vcs[domain(i).server],
           <<"not in infrastructure", domain(i)>>)
  IN  IF ~infra.read THEN Unreadable
      ELSE ForEach([i \in DOMAIN infra.fds |-> GoOn(body(i))])

=============================================================================

--------------------------- MODULE CheckCallsProofs ---------------------------
(***************************************************************************)
(* What the sequential checks answer, for every input: the theorems say of *)
(* all configurations of a cluster what the runs say of small ones.        *)
(***************************************************************************)
EXTENDS CheckCalls, FiniteSetTheorems, SequenceTheorems, WellFoundedInduction,
        TLAPS

-----------------------------------------------------------------------------
(* The answer of a call is what its function returns for its input.        *)

InputInv ==
  /\ check = "infra" => in \in InfraCall
  /\ check = "domains" => in \in DomainCall
  /\ check = "storage" => in \in StorageCall
  /\ check = "deprecation" => in \in DeprecationCall
  /\ check = "lookup" => in \in LookupCall

AnswerInv ==
  /\ Done("infra") =>
       answer = [vCenters |-> CheckInfraConfig(in.infra, in.cfg),
                 datacenters |-> CheckDatacenterConsistency(in.infra, in.cfg)]
  /\ Done("domains") =>
       answer = [zoneTags |-> CheckZoneTags(in), hostGroups |-> CheckHostGroups(in),
                 account |-> CheckAccountPermissions(in),
                 folder |-> CheckFolderPermissions(in),
                 datastore |-> CheckDefaultDatastore(in)]
  /\ Done("storage") =>
       \E orders \in [DOMAIN in.classes -> Orders(in.vcs)] :
         answer = CheckStorageClasses(in, orders)
  /\ Done("deprecation") =>
       answer = [blockUpgrade |->
                   checkForDeprecation(in.esxi, in.hardware, in.vcenters)]
  /\ Done("lookup") =>
       \E spec \in ConvertToPlatformSpec(in.cfg) :
         answer = [fds |-> spec.fds,
                   vCenter |-> GetVCenter(in.cfg.vcs, spec.fds, in.node)]

CallInv == InputInv /\ AnswerInv

\* A call answers once, with the result of its function.
THEOREM CallInvariant == Spec => []CallInv
<1>1. Init => CallInv
  BY DEF Init, CallInv, InputInv, AnswerInv, Done
<1>2. ASSUME CallInv, [Next]_vars
      PROVE  CallInv'
  <2>. USE <1>2 DEF CallInv, InputInv, AnswerInv, Done
  <2>1. CASE InfraChecks
    BY <2>1 DEF InfraChecks, Call
  <2>2. CASE DomainChecks
    BY <2>2 DEF DomainChecks, Call
  <2>3. CASE StorageCheck
    BY <2>3 DEF StorageCheck, Call
  <2>4. CASE DeprecationCheck
    BY <2>4 DEF DeprecationCheck, Call
  <2>5. CASE LookupVCenter
    BY <2>5 DEF LookupVCenter, Call
  <2>6. CASE UNCHANGED vars
    BY <2>6 DEF vars
  <2>. QED  BY <2>1, <2>2, <2>3, <2>4, <2>5, <2>6 DEF Next
<1>. QED  BY <1>1, <1>2, PTL DEF Spec

-----------------------------------------------------------------------------
(* Least numbers.                                                          *)

LEMMA LeastNumber ==
  ASSUME NEW S \in SUBSET Nat, S # {}
  PROVE  \E m \in S : \A k \in S : m <= k
<1>1. IsWellFoundedOn({p \in Nat \X Nat : p[1] < p[2]}, Nat)
  BY NatLessThanWellFounded, Zenon DEF OpToRel
<1>. DEFINE R == {p \in Nat \X Nat : p[1] < p[2]}
<1>2. \A x, y \in Nat : <<x, y>> \in R <=> x < y
  OBVIOUS
<1>. HIDE DEF R
<1>3. PICK x \in S : \A y \in S : ~ (<<y, x>> \in R)
  BY <1>1, WFMin DEF R
<1>4. \A y \in S : x \in Nat /\ y \in Nat /\ ~(y < x)
  BY <1>2, <1>3
<1>5. \A y \in S : x <= y
  <2>1. \A a, b \in Nat : ~(b < a) => a <= b
    OBVIOUS
  <2>. QED  BY <1>4, <2>1
<1>. QED  BY <1>5

\* Min and First are what they say.
LEMMA MinLeast ==
  ASSUME NEW S \in SUBSET Nat, S # {}
  PROVE  /\ Min(S) \in S /\ \A k \in S : Min(S) <= k
         /\ First(S) \in S /\ \A k \in S : First(S) <= k
BY LeastNumber DEF Min, First

-----------------------------------------------------------------------------
(* The vCenter of a node.                                                  *)

AnyFD == [region : Label \cup {NoLabel}, zone : Label \cup {NoLabel},
          server : VCenter]
Unlabelled(fds) == \A i \in DOMAIN fds : fds[i].region = NoLabel

\* The failure domains of a config are a sequence.
LEMMA ConfigType ==
  ASSUME NEW cfg \in Config
  PROVE  /\ cfg.fds \in Seq(AnyFD)
         /\ cfg.vcs \in SUBSET VCenter /\ cfg.workspace \in VCenter
         /\ cfg.infraVCs \in SUBSET VCenter
<1>1. cfg.fds \in UNION {[1..n -> FailureDomain] : n \in 0..MaxFDs}
  BY DEF Config
<1>2. PICK n \in 0..MaxFDs : cfg.fds \in [1..n -> FailureDomain]
  BY <1>1
<1>3. n \in Nat /\ cfg.fds \in [1..n -> AnyFD]
  BY <1>2, LabelAssumption DEF FailureDomain, AnyFD
<1>4. cfg.fds \in Seq(AnyFD)
  BY <1>3, SeqDef
<1>. QED  BY <1>4 DEF Config

\* What convertIntreeToPlatformSpec appends is a sequence of failure domains
\* without region.
LEMMA AppendedType ==
  ASSUME NEW S \in SUBSET VCenter, NEW order \in Orders(S)
  PROVE  LET tail == [i \in DOMAIN order |-> LegacyFD(order[i])]
         IN  tail \in Seq(AnyFD) /\ Unlabelled(tail)
<1>. DEFINE tail == [i \in DOMAIN order |-> LegacyFD(order[i])]
<1>1. Cardinality(S) \in Nat /\ order \in [1..Cardinality(S) -> S]
  BY LabelAssumption, FS_Subset, FS_CardinalityType DEF Orders
<1>2. \A vc \in S : LegacyFD(vc) \in AnyFD /\ LegacyFD(vc).region = NoLabel
  BY DEF LegacyFD, AnyFD
<1>3. tail \in [1..Cardinality(S) -> AnyFD]
  BY <1>1, <1>2
<1>4. tail \in Seq(AnyFD)
  BY <1>1, <1>3, SeqDef
<1>. QED  BY <1>1, <1>2, <1>4 DEF Unlabelled

\* ConvertToPlatformSpec appends failure domains without region to those of
\* the infrastructure object.
LEMMA Converted ==
  ASSUME NEW cfg \in Config, NEW spec \in ConvertToPlatformSpec(cfg)
  PROVE  \E tail \in Seq(AnyFD) : Unlabelled(tail) /\ spec.fds = cfg.fds \o tail
<1>. DEFINE base == [vcs |-> cfg.infraVCs, fds |-> cfg.fds]
<1>. DEFINE Good(s) == \E tail \in Seq(AnyFD) :
                         Unlabelled(tail) /\ s.fds = cfg.fds \o tail
<1>. DEFINE added(order) == convertIntreeToPlatformSpec(cfg, base, order)
<1>. DEFINE failsafe(s) == IF s.fds = <<>>
                           THEN [s EXCEPT !.fds = <<LegacyFD(cfg.workspace)>>]
                           ELSE s
<1>1. /\ cfg.fds \in Seq(AnyFD) /\ cfg.vcs \in SUBSET VCenter
      /\ cfg.workspace \in VCenter /\ cfg.vcs \ cfg.infraVCs \in SUBSET VCenter
  BY ConfigType
<1>2. Good(base)
  <2>1. <<>> \in Seq(AnyFD) /\ Unlabelled(<<>>) /\ cfg.fds = cfg.fds \o <<>>
    BY <1>1, ConcatEmptySeq DEF Unlabelled
  <2>2. base.fds = cfg.fds
    OBVIOUS
  <2>. QED  BY <2>1, <2>2
<1>3. ASSUME NEW S \in SUBSET VCenter, NEW order \in Orders(S)
      PROVE  Good(added(order)) /\ \E vcs, fds : added(order) = [vcs |-> vcs, fds |-> fds]
  <2>. DEFINE tail == [i \in DOMAIN order |-> LegacyFD(order[i])]
  <2>1. tail \in Seq(AnyFD) /\ Unlabelled(tail)
    BY AppendedType
  <2>. HIDE DEF Good, tail
  <2>2. CASE cfg.workspace \notin cfg.vcs
    BY <1>2, <2>2 DEF convertIntreeToPlatformSpec
  <2>3. CASE cfg.workspace \in cfg.vcs
    <3>1. /\ added(order).fds = cfg.fds \o tail
          /\ \E vcs, fds : added(order) = [vcs |-> vcs, fds |-> fds]
      BY <2>3 DEF convertIntreeToPlatformSpec, tail
    <3>. QED  BY <2>1, <3>1 DEF Good
  <2>. QED  BY <2>2, <2>3
<1>4. ASSUME NEW vcs, NEW fds, Good([vcs |-> vcs, fds |-> fds])
      PROVE  Good(failsafe([vcs |-> vcs, fds |-> fds]))
  <2>. DEFINE s == [vcs |-> vcs, fds |-> fds]
  <2>1. CASE s.fds = <<>>
    <3>1. PICK tail \in Seq(AnyFD) : s.fds = cfg.fds \o tail
      BY <1>4
    <3>2. cfg.fds = <<>>
      <4>1. cfg.fds \o tail = <<>>
        BY <2>1, <3>1, Zenon
      <4>. QED  BY <1>1, <4>1, ConcatEqualIffEmpty
    <3>. DEFINE safe == <<LegacyFD(cfg.workspace)>>
    <3>3. safe \in Seq(AnyFD) /\ Unlabelled(safe)
      BY <1>1 DEF LegacyFD, AnyFD, Unlabelled
    <3>4. safe = cfg.fds \o safe
      BY <3>2, <3>3, ConcatEmptySeq
    <3>5. failsafe(s).fds = safe
      BY <2>1
    <3>. HIDE DEF safe, failsafe
    <3>. QED  BY <3>3, <3>4, <3>5
  <2>2. CASE s.fds # <<>>
    BY <1>4, <2>2
  <2>. QED  BY <2>1, <2>2
<1>. HIDE DEF Good, failsafe, added
<1>5. \/ spec = base
      \/ \E order \in Orders(cfg.vcs \ cfg.infraVCs) : spec = failsafe(added(order))
      \/ \E order \in Orders(cfg.vcs) : spec = added(order)
  BY DEF ConvertToPlatformSpec, added, failsafe
<1>6. Good(spec)
  BY <1>1, <1>2, <1>3, <1>4, <1>5
<1>. QED  BY <1>6 DEF Good

\* A lookup that was answered, with the input and the failure domains at hand.
LEMMA LookupDone ==
  ASSUME CallInv, Done("lookup")
  PROVE  \E tail \in Seq(AnyFD) :
           /\ in.cfg \in Config /\ in.cfg.fds \in Seq(AnyFD)
           /\ Unlabelled(tail) /\ answer.fds = in.cfg.fds \o tail
           /\ answer.vCenter = GetVCenter(in.cfg.vcs, answer.fds, in.node)
<1>1. in.cfg \in Config
  BY LookupInput DEF CallInv, InputInv, Done
<1>2. PICK spec \in ConvertToPlatformSpec(in.cfg) :
        answer = [fds |-> spec.fds,
                  vCenter |-> GetVCenter(in.cfg.vcs, spec.fds, in.node)]
  BY DEF CallInv, AnswerInv
<1>3. /\ answer.fds = spec.fds
      /\ answer.vCenter = GetVCenter(in.cfg.vcs, answer.fds, in.node)
  BY <1>2
<1>4. \E tail \in Seq(AnyFD) :
        Unlabelled(tail) /\ spec.fds = in.cfg.fds \o tail
  BY <1>1, Converted
<1>. QED  BY <1>1, <1>3, <1>4, ConfigType

\* The failure domains that match are positions in the list.
LEMMA MatchesType ==
  ASSUME NEW node, NEW fds \in Seq(AnyFD), Matches(node, fds) # {}
  PROVE  /\ First(Matches(node, fds)) \in Matches(node, fds)
         /\ First(Matches(node, fds)) \in 1..Len(fds)
         /\ \A j \in Matches(node, fds) : First(Matches(node, fds)) <= j
<1>1. Matches(node, fds) \in SUBSET (1..Len(fds)) /\ Len(fds) \in Nat
  BY DEF Matches
<1>2. Matches(node, fds) \in SUBSET Nat
  BY <1>1
<1>. QED  BY <1>1, <1>2, MinLeast

\* GetVCenter never guesses between several failure domains.
THEOREM NoGuessingCorrect == Spec => []NoGuessing
<1>1. CallInv => NoGuessing
  <2>. SUFFICES ASSUME CallInv, Done("lookup"), answer.vCenter # Error,
                       Len(answer.fds) > 1
                PROVE  /\ Labelled(in.node)
                       /\ \E i \in DOMAIN answer.fds :
                            /\ answer.fds[i].region = Region(in.node)
                            /\ answer.fds[i].zone = Zone(in.node)
                            /\ answer.fds[i].server = answer.vCenter
                            /\ \A j \in 1..(i - 1) :
                                 ~(/\ answer.fds[j].region = Region(in.node)
                                   /\ answer.fds[j].zone = Zone(in.node))
    BY DEF NoGuessing
  <2>1. /\ answer.fds \in Seq(AnyFD)
        /\ answer.vCenter = GetVCenter(in.cfg.vcs, answer.fds, in.node)
    BY LookupDone, ConcatProperties
  <2>. DEFINE m == Matches(in.node, answer.fds)
  <2>. DEFINE i == First(m)
  <2>2. /\ Labelled(in.node) /\ m # {}
        /\ answer.vCenter = ConnectedVCenter(in.cfg.vcs, answer.fds[i].server)
    BY <2>1 DEF GetVCenter
  <2>3. answer.fds[i].server = answer.vCenter
    BY <2>2 DEF ConnectedVCenter
  <2>4. i \in m /\ i \in 1..Len(answer.fds) /\ \A j \in m : i <= j
    BY <2>1, <2>2, MatchesType
  <2>5. Len(answer.fds) \in Nat /\ DOMAIN answer.fds = 1..Len(answer.fds)
    BY <2>1
  <2>. HIDE DEF i
  <2>6. \A j \in 1..(i - 1) : j \in 1..Len(answer.fds) /\ ~(i <= j)
    BY <2>4, <2>5
  <2>. QED  BY <2>2, <2>3, <2>4, <2>5, <2>6 DEF Matches
<1>. QED  BY <1>1, CallInvariant, PTL

\* A node whose labels name a failure domain of a connected vCenter is looked
\* up there, also after the conversion of a legacy config.
THEOREM LabelsCorrect == Spec => []LabelsDecide
<1>1. CallInv => LabelsDecide
  <2>. DEFINE node == in.node
  <2>. DEFINE m == Matches(node, in.cfg.fds)
  <2>. SUFFICES ASSUME CallInv, Done("lookup"), Labelled(node), m # {},
                       in.cfg.fds[First(m)].server \in in.cfg.vcs
                PROVE  answer.vCenter = in.cfg.fds[First(m)].server
    BY DEF LabelsDecide
  <2>1. PICK tail \in Seq(AnyFD) :
          /\ in.cfg.fds \in Seq(AnyFD)
          /\ Unlabelled(tail) /\ answer.fds = in.cfg.fds \o tail
          /\ answer.vCenter = GetVCenter(in.cfg.vcs, answer.fds, node)
    BY LookupDone
  <2>. DEFINE old == in.cfg.fds
  <2>2. /\ answer.fds \in Seq(AnyFD) /\ Len(old) \in Nat /\ Len(tail) \in Nat
        /\ Len(answer.fds) = Len(old) + Len(tail)
        /\ \A i \in 1..Len(answer.fds) :
             answer.fds[i] = IF i <= Len(old) THEN old[i] ELSE tail[i - Len(old)]
    BY <2>1, ConcatProperties
  <2>3. Region(node) # NoLabel
    BY DEF Labelled
  <2>4. /\ DOMAIN old = 1..Len(old) /\ DOMAIN answer.fds = 1..Len(answer.fds)
        /\ DOMAIN tail = 1..Len(tail)
    BY <2>1, <2>2
  <2>5. Matches(node, answer.fds) = m
    <3>1. \A i \in 1..Len(answer.fds) : i > Len(old) =>
            answer.fds[i].region = NoLabel
      <4>. SUFFICES ASSUME NEW i \in 1..Len(answer.fds), i > Len(old)
                    PROVE  answer.fds[i].region = NoLabel
        OBVIOUS
      <4>1. i - Len(old) \in 1..Len(tail) /\ ~(i <= Len(old))
        BY <2>2
      <4>. QED  BY <2>1, <2>2, <2>4, <4>1 DEF Unlabelled
    <3>2. \A i \in 1..Len(old) :
            i \in 1..Len(answer.fds) /\ answer.fds[i] = old[i]
      BY <2>2
    <3>3. \A i \in 1..Len(answer.fds) : i \in 1..Len(old) \/ i > Len(old)
      BY <2>2
    <3>. QED  BY <2>3, <2>4, <3>1, <3>2, <3>3 DEF Matches
  <2>6. First(m) \in 1..Len(old)
    BY <2>1, MatchesType
  <2>7. answer.fds[First(m)] = old[First(m)]
    BY <2>2, <2>6
  <2>. HIDE DEF m
  <2>. QED  BY <2>1, <2>5, <2>7 DEF GetVCenter, ConnectedVCenter
<1>. QED  BY <1>1, CallInvariant, PTL

-----------------------------------------------------------------------------
(* The loops of the checks.                                                *)

\* A loop whose body never returns finds what the steps find.
LEMMA NoReturn ==
  ASSUME NEW steps, \A i \in DOMAIN steps : ~steps[i].returns
  PROVE  ForEach(steps) = UNION {steps[i].problems : i \in DOMAIN steps}
BY DEF ForEach

\* A loop whose body returns only with a problem is silent exactly if every
\* step is: what a return drops or does not reach is not hidden.
LEMMA Silent ==
  ASSUME NEW steps, DOMAIN steps \in SUBSET Nat,
         \A i \in DOMAIN steps : steps[i].returns => steps[i].problems # {}
  PROVE  ForEach(steps) = {} <=> \A i \in DOMAIN steps : steps[i].problems = {}
<1>. DEFINE returning == {i \in DOMAIN steps : steps[i].returns}
<1>1. CASE returning = {}
  <2>1. ForEach(steps) = UNION {steps[i].problems : i \in DOMAIN steps}
    BY <1>1, NoReturn
  <2>. QED  BY <2>1
<1>2. CASE returning # {}
  <2>1. returning \in SUBSET Nat
    OBVIOUS
  <2>2. Min(returning) \in returning
    BY <1>2, <2>1, MinLeast
  <2>3. ForEach(steps) = steps[Min(returning)].problems
    BY <1>2 DEF ForEach
  <2>. HIDE DEF returning
  <2>4. Min(returning) \in DOMAIN steps /\ steps[Min(returning)].returns
    BY <2>2 DEF returning
  <2>. QED  BY <2>3, <2>4
<1>. QED  BY <1>1, <1>2

-----------------------------------------------------------------------------
(* The infrastructure object and the cloud config.                         *)

\* CheckInfraConfig is silent exactly if both sides have the same vCenters and
\* the failure domains use them all: equal counts and an inclusion are enough.
LEMMA InfraSilent ==
  ASSUME NEW infra, NEW cfg, infra.read, infra.fds # <<>>,
         IsFiniteSet(DOMAIN infra.vcs), IsFiniteSet(DOMAIN cfg)
  PROVE  CheckInfraConfig(infra, cfg) = {} <=>
           /\ {infra.fds[i].server : i \in DOMAIN infra.fds} = DOMAIN infra.vcs
           /\ DOMAIN infra.vcs = DOMAIN cfg
<1>. DEFINE servers == {infra.fds[i].server : i \in DOMAIN infra.fds}
<1>. DEFINE I == DOMAIN infra.vcs
<1>. DEFINE C == DOMAIN cfg
<1>1. CheckInfraConfig(infra, cfg) = {} <=>
        checkVCenters(infra, cfg) = {} /\ checkFailureDomains(infra) = {}
  BY DEF CheckInfraConfig
<1>2. checkFailureDomains(infra) = {} <=> servers = I
  BY DEF checkFailureDomains
<1>3. checkVCenters(infra, cfg) = {} <=>
        Cardinality(I) = Cardinality(C) /\ I \subseteq C
  BY DEF checkVCenters
<1>4. Cardinality(I) = Cardinality(C) /\ I \subseteq C <=> I = C
  BY FS_Subset
<1>. QED  BY <1>1, <1>2, <1>3, <1>4

\* CheckDatacenterConsistency is silent exactly if each failure domain finds
\* its datacenter on the sides that know its vCenter.
LEMMA DatacentersSilent ==
  ASSUME NEW infra, NEW cfg, infra.read,
         \A i \in DOMAIN infra.fds : infra.fds[i].dc \in Datacenter
  PROVE  CheckDatacenterConsistency(infra, cfg) = {} <=>
           \A i \in DOMAIN infra.fds :
             LET fd == infra.fds[i] IN
             /\ fd.server \in DOMAIN cfg =>
                  fd.dc \in {cfg[fd.server][j].name : j \in DOMAIN cfg[fd.server]}
             /\ fd.server \in DOMAIN infra.vcs => fd.dc \in infra.vcs[fd.server]
<1>. DEFINE fd(i) == infra.fds[i]
<1>. DEFINE bad(i) ==
       If(fd(i).server \in DOMAIN cfg
            /\ fd(i).dc \notin parseDatacenters(cfg[fd(i).server]),
          <<"not in config", fd(i)>>)
       \cup
       If(fd(i).server \in DOMAIN infra.vcs /\ fd(i).dc \notin infra.vcs[fd(i).server],
          <<"not in infrastructure", fd(i)>>)
<1>. DEFINE steps == [i \in DOMAIN infra.fds |-> GoOn(bad(i))]
<1>1. CheckDatacenterConsistency(infra, cfg) = ForEach(steps)
  BY DEF CheckDatacenterConsistency
<1>2. \A i \in DOMAIN infra.fds : bad(i) = {} <=>
        /\ fd(i).server \in DOMAIN cfg => fd(i).dc \in parseDatacenters(cfg[fd(i).server])
        /\ fd(i).server \in DOMAIN infra.vcs => fd(i).dc \in infra.vcs[fd(i).server]
  BY DEF If
<1>3. \A i \in DOMAIN infra.fds : fd(i).dc # Blank
  BY DatacenterAssumption
<1>4. \A i \in DOMAIN infra.fds : \A raw :
        fd(i).dc \in parseDatacenters(raw) <=> fd(i).dc \in {raw[j].name : j \in DOMAIN raw}
  BY <1>3 DEF parseDatacenters
<1>. HIDE DEF bad
<1>5. /\ DOMAIN steps = DOMAIN infra.fds
      /\ \A i \in DOMAIN steps : ~steps[i].returns /\ steps[i].problems = bad(i)
  BY DEF GoOn
<1>. HIDE DEF steps
<1>6. ForEach(steps) = {} <=> \A i \in DOMAIN infra.fds : bad(i) = {}
  BY <1>5, NoReturn
<1>. QED  BY <1>1, <1>2, <1>4, <1>6

\* CheckInfraConfig and CheckDatacenterConsistency together are silent exactly
\* if the infrastructure object and the cloud config agree.
THEOREM MismatchCorrect == Spec => []MismatchReported
<1>1. CallInv => MismatchReported
  <2>. SUFFICES ASSUME CallInv, Done("infra"), in.infra.read, in.infra.fds # <<>>
                PROVE  MismatchReported
    BY DEF MismatchReported
  <2>. DEFINE infra == in.infra
  <2>. DEFINE written(vc) == {in.cfg[vc][i].name : i \in DOMAIN in.cfg[vc]}
  <2>. DEFINE fds == {infra.fds[i] : i \in DOMAIN infra.fds}
  <2>1. /\ answer.vCenters = CheckInfraConfig(infra, in.cfg)
        /\ answer.datacenters = CheckDatacenterConsistency(infra, in.cfg)
    BY DEF CallInv, AnswerInv
  <2>2. /\ IsFiniteSet(DOMAIN infra.vcs) /\ IsFiniteSet(DOMAIN in.cfg)
        /\ \A i \in DOMAIN infra.fds : infra.fds[i].dc \in Datacenter
    BY InfraInput DEF CallInv, InputInv, Done
  <2>3. answer.vCenters = {} <=>
          /\ {infra.fds[i].server : i \in DOMAIN infra.fds} = DOMAIN infra.vcs
          /\ DOMAIN infra.vcs = DOMAIN in.cfg
    BY <2>1, <2>2, InfraSilent
  <2>4. answer.datacenters = {} <=>
          \A i \in DOMAIN infra.fds :
            /\ infra.fds[i].server \in DOMAIN in.cfg =>
                 infra.fds[i].dc \in written(infra.fds[i].server)
            /\ infra.fds[i].server \in DOMAIN infra.vcs =>
                 infra.fds[i].dc \in infra.vcs[infra.fds[i].server]
    BY <2>1, <2>2, DatacentersSilent
  <2>5. {infra.fds[i].server : i \in DOMAIN infra.fds} = {fd.server : fd \in fds}
    OBVIOUS
  <2>. HIDE DEF written
  <2>6. /\ {fd.server : fd \in fds} = DOMAIN infra.vcs
        /\ DOMAIN infra.vcs = DOMAIN in.cfg
        /\ \A fd \in fds : fd.dc \in infra.vcs[fd.server] \cap written(fd.server)
        <=> answer.vCenters = {} /\ answer.datacenters = {}
    BY <2>3, <2>4, <2>5
  <2>. QED  BY <2>6 DEF MismatchReported, written
<1>. QED  BY <1>1, CallInvariant, PTL

-----------------------------------------------------------------------------
(* The checks that walk over the failure domains.                          *)

\* CheckZoneTags is silent for a single failure domain; for several of them,
\* exactly if all have their objects and their tags.
LEMMA ZoneTagsSilent ==
  ASSUME NEW ctx, ctx.infra = "read", DOMAIN ctx.fds \in SUBSET Nat,
         Len(ctx.fds) \in Nat
  PROVE  CheckZoneTags(ctx) = {} <=>
           (Len(ctx.fds) > 1 =>
             /\ \A vc \in ctx.vcs : validateTagCategories(ctx, vc)
             /\ \A i \in DOMAIN ctx.fds :
                  /\ ctx.fds[i].server \in ctx.vcs
                  /\ ctx.fds[i].dc /\ ctx.fds[i].cluster
                  /\ validateTagAttachment(ctx.fds[i]) = {})
<1>. DEFINE found(i) == {<<i, p>> : p \in validateTagAttachment(ctx.fds[i])}
<1>. DEFINE body(i) ==
       LET fd == ctx.fds[i] IN
       IF fd.server \notin ctx.vcs THEN ReturnNow({<<i, "vCenter">>})
       ELSE IF ~fd.dc THEN GoOn({<<i, "datacenter">>})
       ELSE IF ~fd.cluster THEN GoOn({<<i, "cluster">>})
       ELSE GoOn(found(i))
<1>. DEFINE steps == [i \in DOMAIN ctx.fds |-> body(i)]
<1>. DEFINE good(i) == LET fd == ctx.fds[i] IN
       /\ fd.server \in ctx.vcs /\ fd.dc /\ fd.cluster
       /\ validateTagAttachment(fd) = {}
<1>1. CheckZoneTags(ctx) =
        IF Len(ctx.fds) < 2 THEN {}
        ELSE IF \E vc \in ctx.vcs : ~validateTagCategories(ctx, vc)
        THEN {<<0, "categories">>}
        ELSE ForEach(steps)
  BY DEF CheckZoneTags
<1>2. \A i \in DOMAIN ctx.fds :
        /\ body(i).returns => body(i).problems # {}
        /\ body(i).problems = {} <=> good(i)
  <2>1. ASSUME NEW i \in DOMAIN ctx.fds
        PROVE  found(i) = {} <=> validateTagAttachment(ctx.fds[i]) = {}
    <3>. DEFINE S == validateTagAttachment(ctx.fds[i])
    <3>. HIDE DEF S
    <3>1. {<<i, p>> : p \in S} = {} <=> S = {}
      OBVIOUS
    <3>. QED  BY <3>1 DEF S
  <2>. HIDE DEF found
  <2>. QED  BY <2>1 DEF GoOn, ReturnNow
<1>. HIDE DEF body, good
<1>3. ForEach(steps) = {} <=> \A i \in DOMAIN ctx.fds : good(i)
  <2>1. /\ DOMAIN steps = DOMAIN ctx.fds
        /\ \A i \in DOMAIN steps : steps[i] = body(i)
    OBVIOUS
  <2>. HIDE DEF steps
  <2>. QED  BY <1>2, <2>1, Silent
<1>. HIDE DEF steps
<1>4. CheckZoneTags(ctx) = {} <=>
        (Len(ctx.fds) > 1 =>
           /\ \A vc \in ctx.vcs : validateTagCategories(ctx, vc)
           /\ \A i \in DOMAIN ctx.fds : good(i))
  <2>1. Len(ctx.fds) < 2 <=> ~(Len(ctx.fds) > 1)
    OBVIOUS
  <2>2. {<<0, "categories">>} # {}
    OBVIOUS
  <2>. QED  BY <1>1, <1>3, <2>1, <2>2, Zenon
<1>. QED  BY <1>4 DEF good

\* CheckHostGroups is silent exactly if every failure domain whose zone is a
\* host group has its objects and a sound group.
LEMMA HostGroupsSilent ==
  ASSUME NEW ctx, ctx.infra \notin {"unreadable", "noSpec"},
         DOMAIN ctx.fds \in SUBSET Nat
  PROVE  CheckHostGroups(ctx) = {} <=>
           \A i \in DOMAIN ctx.fds : ctx.fds[i].zone = "HostGroup" =>
             LET fd == ctx.fds[i] IN
             /\ fd.server \in ctx.vcs /\ validateTagCategories(ctx, fd.server)
             /\ fd.dc /\ fd.cluster /\ fd.group.read
             /\ HostGroupProblems(fd) = {}
<1>. DEFINE found(i) == {<<i, p>> : p \in HostGroupProblems(ctx.fds[i])}
<1>. DEFINE body(i) ==
       LET fd == ctx.fds[i] IN
       IF fd.zone # "HostGroup" THEN GoOn({})
       ELSE IF fd.server \notin ctx.vcs THEN ReturnNow({<<i, "vCenter">>})
       ELSE IF ~validateTagCategories(ctx, fd.server)
            THEN ReturnNow({<<i, "categories">>})
       ELSE IF ~fd.dc THEN ReturnNow({<<i, "datacenter">>})
       ELSE IF ~fd.cluster THEN ReturnNow({<<i, "cluster">>})
       ELSE IF ~fd.group.read THEN ReturnNow({<<i, "configuration">>})
       ELSE GoOn(found(i))
<1>. DEFINE steps == [i \in DOMAIN ctx.fds |-> body(i)]
<1>. DEFINE good(i) == LET fd == ctx.fds[i] IN
       fd.zone = "HostGroup" =>
         /\ fd.server \in ctx.vcs /\ validateTagCategories(ctx, fd.server)
         /\ fd.dc /\ fd.cluster /\ fd.group.read
         /\ HostGroupProblems(fd) = {}
<1>1. CheckHostGroups(ctx) = ForEach(steps)
  BY DEF CheckHostGroups
<1>2. \A i \in DOMAIN ctx.fds :
        /\ body(i).returns => body(i).problems # {}
        /\ body(i).problems = {} <=> good(i)
  <2>1. ASSUME NEW i \in DOMAIN ctx.fds
        PROVE  found(i) = {} <=> HostGroupProblems(ctx.fds[i]) = {}
    <3>. DEFINE S == HostGroupProblems(ctx.fds[i])
    <3>. HIDE DEF S
    <3>1. {<<i, p>> : p \in S} = {} <=> S = {}
      OBVIOUS
    <3>. QED  BY <3>1 DEF S
  <2>. HIDE DEF found
  <2>. QED  BY <2>1 DEF GoOn, ReturnNow
<1>. HIDE DEF body, good
<1>3. /\ DOMAIN steps = DOMAIN ctx.fds
      /\ \A i \in DOMAIN steps : steps[i] = body(i)
  OBVIOUS
<1>. HIDE DEF steps
<1>4. CheckHostGroups(ctx) = {} <=> \A i \in DOMAIN ctx.fds : good(i)
  BY <1>1, <1>2, <1>3, Silent
<1>. QED  BY <1>4 DEF good

\* CheckAccountPermissions is silent exactly if every failure domain has its
\* objects and the privileges on them.
LEMMA AccountSilent ==
  ASSUME NEW ctx, DOMAIN ctx.fds \in SUBSET Nat
  PROVE  CheckAccountPermissions(ctx) = {} <=>
           \A i \in DOMAIN ctx.fds :
             LET fd == ctx.fds[i] IN
             /\ fd.server \in ctx.vcs /\ fd.dc /\ fd.ds
             /\ {"datastore", "datacenter", "vcenter"} \cap fd.lacks = {}
             /\ ~FolderProblem(fd)
<1>. DEFINE found(i) ==
       LET fd == ctx.fds[i] IN
       If(~fd.ds, <<i, "datastore">>)
         \cup If(fd.ds /\ "datastore" \in fd.lacks, <<i, "datastore privileges">>)
         \cup If("datacenter" \in fd.lacks, <<i, "datacenter privileges">>)
         \cup If("vcenter" \in fd.lacks, <<i, "vCenter privileges">>)
         \cup If(FolderProblem(fd), <<i, "folder privileges">>)
<1>. DEFINE body(i) ==
       LET fd == ctx.fds[i] IN
       IF fd.server \notin ctx.vcs THEN ReturnNow({<<i, "vCenter">>})
       ELSE IF ~fd.dc THEN ReturnNow({<<i, "datacenter">>})
       ELSE GoOn(found(i))
<1>. DEFINE steps == [i \in DOMAIN ctx.fds |-> body(i)]
<1>. DEFINE good(i) == LET fd == ctx.fds[i] IN
       /\ fd.server \in ctx.vcs /\ fd.dc /\ fd.ds
       /\ {"datastore", "datacenter", "vcenter"} \cap fd.lacks = {}
       /\ ~FolderProblem(fd)
<1>1. \A i \in DOMAIN ctx.fds :
        found(i) = {} <=> /\ ctx.fds[i].ds /\ ~FolderProblem(ctx.fds[i])
                          /\ "datastore" \notin ctx.fds[i].lacks
                          /\ "datacenter" \notin ctx.fds[i].lacks
                          /\ "vcenter" \notin ctx.fds[i].lacks
  BY DEF If
<1>2. CheckAccountPermissions(ctx) = ForEach(steps)
  BY DEF CheckAccountPermissions
<1>. HIDE DEF found
<1>3. \A i \in DOMAIN ctx.fds :
        /\ body(i).returns => body(i).problems # {}
        /\ body(i).problems = {} <=> good(i)
  BY <1>1 DEF GoOn, ReturnNow
<1>. HIDE DEF body, good
<1>4. /\ DOMAIN steps = DOMAIN ctx.fds
      /\ \A i \in DOMAIN steps : steps[i] = body(i)
  OBVIOUS
<1>. HIDE DEF steps
<1>5. CheckAccountPermissions(ctx) = {} <=> \A i \in DOMAIN ctx.fds : good(i)
  BY <1>2, <1>3, <1>4, Silent
<1>. QED  BY <1>5 DEF good

\* CheckFolderPermissions is silent exactly if the objects are there and no
\* listing ends in a way that is not tolerated.
LEMMA FolderSilent ==
  ASSUME NEW ctx, DOMAIN ctx.fds \in SUBSET Nat
  PROVE  CheckFolderPermissions(ctx) = {} <=>
           \A i \in DOMAIN ctx.fds :
             LET fd == ctx.fds[i] IN
             /\ fd.server \in ctx.vcs /\ fd.dc /\ fd.ds
             /\ ~listDirectory(fd.root, FALSE) /\ ~listDirectory(fd.kubevols, TRUE)
<1>. DEFINE body(i) ==
       LET fd == ctx.fds[i] IN
       IF fd.server \notin ctx.vcs THEN ReturnNow({<<i, "vCenter">>})
       ELSE IF ~fd.dc THEN ReturnNow({<<i, "datacenter">>})
       ELSE IF ~fd.ds THEN ReturnNow({<<i, "datastore">>})
       ELSE IF listDirectory(fd.root, FALSE) THEN ReturnNow({<<i, "/">>})
       ELSE IF listDirectory(fd.kubevols, TRUE) THEN ReturnNow({<<i, "/kubevols">>})
       ELSE GoOn({})
<1>. DEFINE steps == [i \in DOMAIN ctx.fds |-> body(i)]
<1>. DEFINE good(i) == LET fd == ctx.fds[i] IN
       /\ fd.server \in ctx.vcs /\ fd.dc /\ fd.ds
       /\ ~listDirectory(fd.root, FALSE) /\ ~listDirectory(fd.kubevols, TRUE)
<1>1. \A i \in DOMAIN ctx.fds :
        /\ body(i).returns => body(i).problems # {}
        /\ body(i).problems = {} <=> good(i)
  BY DEF GoOn, ReturnNow
<1>2. CheckFolderPermissions(ctx) = ForEach(steps)
  BY DEF CheckFolderPermissions
<1>. HIDE DEF body, good
<1>3. /\ DOMAIN steps = DOMAIN ctx.fds
      /\ \A i \in DOMAIN steps : steps[i] = body(i)
  OBVIOUS
<1>. HIDE DEF steps
<1>4. CheckFolderPermissions(ctx) = {} <=> \A i \in DOMAIN ctx.fds : good(i)
  BY <1>1, <1>2, <1>3, Silent
<1>. QED  BY <1>4 DEF good

\* CheckDefaultDatastore is silent exactly if every failure domain has its
\* datastore and the privileges on it.
LEMMA DatastoreSilent ==
  ASSUME NEW ctx, DOMAIN ctx.fds \in SUBSET Nat
  PROVE  CheckDefaultDatastore(ctx) = {} <=>
           \A i \in DOMAIN ctx.fds :
             LET fd == ctx.fds[i] IN
             fd.server \in ctx.vcs /\ fd.dc /\ fd.ds /\ "datastore" \notin fd.lacks
<1>. DEFINE body(i) ==
       LET fd == ctx.fds[i] IN
       IF fd.server \notin ctx.vcs THEN ReturnNow({<<i, "vCenter">>})
       ELSE IF ~fd.dc \/ ~fd.ds THEN ReturnNow({<<i, "datastore">>})
       ELSE IF "datastore" \in fd.lacks
            THEN ReturnNow({<<i, "datastore privileges">>})
       ELSE GoOn({})
<1>. DEFINE steps == [i \in DOMAIN ctx.fds |-> body(i)]
<1>. DEFINE good(i) == LET fd == ctx.fds[i] IN
       fd.server \in ctx.vcs /\ fd.dc /\ fd.ds /\ "datastore" \notin fd.lacks
<1>1. \A i \in DOMAIN ctx.fds :
        /\ body(i).returns => body(i).problems # {}
        /\ body(i).problems = {} <=> good(i)
  BY DEF GoOn, ReturnNow
<1>2. CheckDefaultDatastore(ctx) = ForEach(steps)
  BY DEF CheckDefaultDatastore
<1>. HIDE DEF body, good
<1>3. /\ DOMAIN steps = DOMAIN ctx.fds
      /\ \A i \in DOMAIN steps : steps[i] = body(i)
  OBVIOUS
<1>. HIDE DEF steps
<1>4. CheckDefaultDatastore(ctx) = {} <=> \A i \in DOMAIN ctx.fds : good(i)
  BY <1>1, <1>2, <1>3, Silent
<1>. QED  BY <1>4 DEF good

\* What a loop finds, some step of it found.
LEMMA FoundByStep ==
  ASSUME NEW steps, DOMAIN steps \in SUBSET Nat, NEW p \in ForEach(steps)
  PROVE  \E k \in DOMAIN steps : p \in steps[k].problems
<1>. DEFINE returning == {i \in DOMAIN steps : steps[i].returns}
<1>1. CASE returning = {}
  BY <1>1 DEF ForEach
<1>2. CASE returning # {}
  <2>1. returning \in SUBSET Nat
    OBVIOUS
  <2>2. Min(returning) \in returning
    BY <1>2, <2>1, MinLeast
  <2>3. ForEach(steps) = steps[Min(returning)].problems
    BY <1>2 DEF ForEach
  <2>4. Min(returning) \in DOMAIN steps
    BY <2>2
  <2>. QED  BY <2>3, <2>4
<1>. QED  BY <1>1, <1>2

\* What CheckHostGroups asks of a host group.
LEMMA GroupSilent ==
  ASSUME NEW fd
  PROVE  HostGroupProblems(fd) = {} <=>
           /\ fd.group.found /\ fd.group.vmGroup /\ fd.group.vmHostRule
           /\ DOMAIN fd.group.hosts # {}
           /\ \A h \in DOMAIN fd.group.hosts : fd.tagsRead /\ fd.group.hosts[h] = "own"
<1>. DEFINE group == fd.group
<1>. DEFINE hosts == DOMAIN fd.group.hosts
<1>1. HostGroupProblems(fd) = {} <=>
        /\ group.found /\ group.vmGroup /\ group.vmHostRule /\ hosts # {}
        /\ \A h \in hosts : HostMatched(fd, h)
  BY DEF HostGroupProblems, If
<1>. QED  BY <1>1 DEF HostMatched

\* A sound host group carries zone tags.
LEMMA GroupTagged ==
  ASSUME NEW fd, fd.zone = "HostGroup", HostGroupProblems(fd) = {}
  PROVE  /\ ZoneTagged(fd) # {}
         /\ "zone tag" \notin validateTagAttachment(fd)
<1>1. PICK h \in DOMAIN fd.group.hosts : fd.group.hosts[h] # "none"
  BY GroupSilent
<1>2. ZoneTagged(fd) # {}
  BY <1>1, GroupSilent DEF ZoneTagged, If
<1>3. "zone tag" \notin validateTagAttachment(fd)
  BY <1>2 DEF validateTagAttachment, If
<1>. QED  BY <1>2, <1>3

\* A call of the checks over the failure domains that was answered.
LEMMA DomainsDone ==
  ASSUME CallInv, Done("domains")
  PROVE  /\ in \in DomainCall
         /\ DOMAIN in.fds = 1..Len(in.fds) /\ Len(in.fds) \in Nat
         /\ DOMAIN answer = {"zoneTags", "hostGroups", "account", "folder", "datastore"}
         /\ answer.zoneTags = CheckZoneTags(in)
         /\ answer.hostGroups = CheckHostGroups(in)
         /\ answer.account = CheckAccountPermissions(in)
         /\ answer.folder = CheckFolderPermissions(in)
         /\ answer.datastore = CheckDefaultDatastore(in)
<1>1. in \in DomainCall
  BY DEF CallInv, InputInv, Done
<1>2. DOMAIN in.fds = 1..Len(in.fds) /\ Len(in.fds) \in Nat
  BY <1>1, DomainInput
<1>3. answer = [zoneTags |-> CheckZoneTags(in), hostGroups |-> CheckHostGroups(in),
                account |-> CheckAccountPermissions(in),
                folder |-> CheckFolderPermissions(in),
                datastore |-> CheckDefaultDatastore(in)]
  BY Zenon DEF CallInv, AnswerInv
<1>4. DOMAIN answer = {"zoneTags", "hostGroups", "account", "folder", "datastore"}
  BY <1>3
<1>5. /\ answer.zoneTags = CheckZoneTags(in)
      /\ answer.hostGroups = CheckHostGroups(in)
      /\ answer.account = CheckAccountPermissions(in)
      /\ answer.folder = CheckFolderPermissions(in)
      /\ answer.datastore = CheckDefaultDatastore(in)
  BY <1>3
<1>. QED  BY <1>1, <1>2, <1>4, <1>5

\* A problem names its failure domain and what is wrong with it.
LEMMA Named ==
  ASSUME NEW k, NEW s
  PROVE  \A p \in {<<k, s>>} : p[1] = k /\ p[2] = s
OBVIOUS

\* A zone tag that CheckZoneTags misses is missing on that failure domain.
LEMMA MissingZoneTag ==
  ASSUME NEW ctx, DOMAIN ctx.fds \in SUBSET Nat,
         NEW q \in CheckZoneTags(ctx), q[2] = "zone tag"
  PROVE  "zone tag" \in validateTagAttachment(ctx.fds[q[1]])
<1>. DEFINE found(k) == {<<k, p>> : p \in validateTagAttachment(ctx.fds[k])}
<1>. DEFINE body(k) ==
       LET fd == ctx.fds[k] IN
       IF fd.server \notin ctx.vcs THEN ReturnNow({<<k, "vCenter">>})
       ELSE IF ~fd.dc THEN GoOn({<<k, "datacenter">>})
       ELSE IF ~fd.cluster THEN GoOn({<<k, "cluster">>})
       ELSE GoOn(found(k))
<1>. DEFINE steps == [k \in DOMAIN ctx.fds |-> body(k)]
<1>1. \/ q \in {<<0, "infrastructure">>} \cup {<<0, "categories">>}
      \/ q \in ForEach(steps)
  BY DEF CheckZoneTags
<1>2. q \notin {<<0, "infrastructure">>} \cup {<<0, "categories">>}
  <2>1. /\ \A p \in {<<0, "infrastructure">>} : p[2] = "infrastructure"
        /\ \A p \in {<<0, "categories">>} : p[2] = "categories"
    BY Named, Zenon
  <2>2. "infrastructure" # "zone tag" /\ "categories" # "zone tag"
    OBVIOUS
  <2>. QED  BY <2>1, <2>2, Zenon
<1>3. DOMAIN steps = DOMAIN ctx.fds /\ \A k \in DOMAIN steps : steps[k] = body(k)
  OBVIOUS
<1>4. \A k : \/ body(k).problems = {<<k, "vCenter">>}
            \/ body(k).problems = {<<k, "datacenter">>}
            \/ body(k).problems = {<<k, "cluster">>}
            \/ body(k).problems = found(k)
  <2>. HIDE DEF found
  <2>. QED  BY DEF GoOn, ReturnNow
<1>. HIDE DEF steps, body
<1>5. PICK k \in DOMAIN ctx.fds : q \in body(k).problems
  BY <1>1, <1>2, <1>3, FoundByStep
<1>6. q \in found(k)
  <2>1. \A s : \A p \in {<<k, s>>} : p[2] = s
    BY Named, Zenon
  <2>2. /\ "vCenter" # "zone tag" /\ "datacenter" # "zone tag"
        /\ "cluster" # "zone tag"
    OBVIOUS
  <2>. HIDE DEF found
  <2>. QED  BY <1>4, <1>5, <2>1, <2>2, Zenon
<1>7. PICK p \in validateTagAttachment(ctx.fds[k]) : q = <<k, p>>
  BY <1>6
<1>8. q[1] = k /\ q[2] = p
  BY <1>7
<1>. QED  BY <1>8

\* When CheckHostGroups is content, CheckZoneTags misses no zone tag on a
\* failure domain whose zone is a host group.
THEOREM HostGroupsCorrect == Spec => []HostGroupsImplyZoneTags
<1>1. CallInv => HostGroupsImplyZoneTags
  <2>1. ASSUME CallInv, Done("domains")
        PROVE  /\ DOMAIN in.fds \in SUBSET Nat
               /\ answer.hostGroups = CheckHostGroups(in)
               /\ answer.zoneTags = CheckZoneTags(in)
    <3>1. \A n \in Nat : 1..n \in SUBSET Nat
      OBVIOUS
    <3>. QED  BY <2>1, <3>1, DomainsDone
  <2>2. ASSUME CallInv, Done("domains"), answer.hostGroups = {},
               NEW i \in DOMAIN in.fds, in.fds[i].zone = "HostGroup",
               NEW q \in answer.zoneTags, q[1] = i, q[2] = "zone tag"
        PROVE  FALSE
    <3>1. in.infra # "unreadable"
      BY <2>1, <2>2 DEF CheckHostGroups
    <3>2. in.infra # "noSpec"
      BY <2>1, <2>2 DEF CheckZoneTags
    <3>3. HostGroupProblems(in.fds[i]) = {}
      BY <2>1, <2>2, <3>1, <3>2, HostGroupsSilent
    <3>4. "zone tag" \notin validateTagAttachment(in.fds[i])
      BY <2>2, <3>3, GroupTagged
    <3>5. "zone tag" \in validateTagAttachment(in.fds[i])
      BY <2>1, <2>2, MissingZoneTag
    <3>. QED  BY <3>4, <3>5
  <2>3. \A i : <<i, "zone tag">>[1] = i /\ <<i, "zone tag">>[2] = "zone tag"
    OBVIOUS
  <2>4. ASSUME CallInv, Done("domains"), answer.hostGroups = {},
               NEW i \in DOMAIN in.fds, in.fds[i].zone = "HostGroup"
        PROVE  <<i, "zone tag">> \notin answer.zoneTags
    BY <2>2, <2>3, <2>4
  <2>. QED  BY <2>4 DEF HostGroupsImplyZoneTags
<1>. QED  BY <1>1, CallInvariant, PTL

\* What the checks rely on in a failure domain, of DomainInput.
Proper(fd) ==
  /\ {fd.dc, fd.cluster, fd.ds, fd.tagsRead, fd.group.read, fd.group.found,
      fd.group.vmGroup, fd.group.vmHostRule} \subseteq BOOLEAN
  /\ fd.lacks \subseteq {"datastore", "datacenter", "vcenter", "folder"}
  /\ fd.folder \in {"none", "found", "missing"}
  /\ fd.root \in Listing /\ fd.kubevols \in Listing
  /\ <<fd.region, fd.zone>> \in Affinities

\* The affinities of a failure domain, one by one.
LEMMA AffinityCases ==
  ASSUME NEW fd, Proper(fd)
  PROVE  \/ fd.region = "none" /\ fd.zone = "none"
         \/ fd.region = "Datacenter" /\ fd.zone = "none"
         \/ fd.region = "ComputeCluster" /\ fd.zone = "none"
         \/ fd.region = "Datacenter" /\ fd.zone = "ComputeCluster"
         \/ fd.region = "ComputeCluster" /\ fd.zone = "HostGroup"
BY DEF Proper, Affinities

\* The tags that a failure domain needs when there are several.
TagsSound(fd) ==
  /\ fd.tagsRead
  /\ fd.region = "none" /\ fd.zone = "none" => fd.regionOn # {} /\ fd.zoneOn # {}
  /\ fd.region = "Datacenter" => "Datacenter" \in fd.regionOn
  /\ fd.region = "ComputeCluster" => "ClusterComputeResource" \in fd.regionOn
  /\ fd.zone = "ComputeCluster" => "ClusterComputeResource" \in fd.zoneOn
  /\ fd.zone = "none" => fd.zoneOn # {}

\* validateTagAttachment is silent exactly if the tags are sound, given that
\* CheckHostGroups found the host group sound.
LEMMA AttachmentSilent ==
  ASSUME NEW fd, Proper(fd),
         fd.zone = "HostGroup" => fd.group.read /\ HostGroupProblems(fd) = {}
  PROVE  validateTagAttachment(fd) = {} <=> TagsSound(fd)
<1>. DEFINE regionOK ==
       CASE fd.region = "Datacenter"     -> "Datacenter" \in fd.regionOn
         [] fd.region = "ComputeCluster" -> "ClusterComputeResource" \in fd.regionOn
         [] OTHER                        -> fd.regionOn # {}
<1>. DEFINE zoneOK == IF fd.zone = "ComputeCluster"
                      THEN "ClusterComputeResource" \in ZoneTagged(fd)
                      ELSE ZoneTagged(fd) # {}
<1>1. validateTagAttachment(fd) = {} <=> fd.tagsRead /\ regionOK /\ zoneOK
  <2>1. validateTagAttachment(fd) =
          IF ~fd.tagsRead \/ (fd.zone = "HostGroup" /\ ~fd.group.read)
          THEN {"tags unreadable"}
          ELSE If(~regionOK, "region tag") \cup If(~zoneOK, "zone tag")
    BY DEF validateTagAttachment
  <2>. HIDE DEF regionOK, zoneOK
  <2>. QED  BY <2>1 DEF If
<1>2. fd.zone # "HostGroup" => ZoneTagged(fd) = fd.zoneOn
  BY DEF ZoneTagged, If
<1>3. fd.zone = "HostGroup" => ZoneTagged(fd) # {}
  BY GroupTagged
<1>4. /\ fd.region = "none" => (regionOK <=> fd.regionOn # {})
      /\ fd.region = "Datacenter" => (regionOK <=> "Datacenter" \in fd.regionOn)
      /\ fd.region = "ComputeCluster" =>
           (regionOK <=> "ClusterComputeResource" \in fd.regionOn)
  OBVIOUS
<1>5. /\ fd.zone = "none" => (zoneOK <=> fd.zoneOn # {})
      /\ fd.zone = "ComputeCluster" =>
           (zoneOK <=> "ClusterComputeResource" \in fd.zoneOn)
      /\ fd.zone = "HostGroup" => zoneOK
  BY <1>2, <1>3
<1>. HIDE DEF regionOK, zoneOK
<1>. QED  BY <1>1, <1>4, <1>5, AffinityCases DEF TagsSound

\* What the five checks ask of one failure domain, tag categories aside.
Content(fd, several) ==
  /\ several => fd.server \in in.vcs /\ fd.dc /\ fd.cluster
                  /\ validateTagAttachment(fd) = {}
  /\ fd.zone = "HostGroup" =>
       fd.server \in in.vcs /\ fd.dc /\ fd.cluster /\ fd.group.read
         /\ HostGroupProblems(fd) = {}
  /\ fd.server \in in.vcs /\ fd.dc /\ fd.ds
  /\ {"datastore", "datacenter", "vcenter"} \cap fd.lacks = {} /\ ~FolderProblem(fd)
  /\ ~listDirectory(fd.root, FALSE) /\ ~listDirectory(fd.kubevols, TRUE)

\* The five checks are content with a failure domain exactly if it is usable or
\* its only fault is a refused search.
LEMMA ContentUsable ==
  ASSUME NEW fd, Proper(fd), NEW several
  PROVE  Content(fd, several) <=> Usable(fd, several) \/ Overlooked(fd, several)
<1>. DEFINE group ==
       fd.zone = "HostGroup" => fd.group.read /\ HostGroupProblems(fd) = {}
<1>. DEFINE permitted == /\ fd.lacks \subseteq {"folder"} /\ fd.folder # "missing"
                         /\ "folder" \in fd.lacks => fd.folder = "none"
<1>1. {"datastore", "datacenter", "vcenter"} \cap fd.lacks = {} /\ ~FolderProblem(fd)
      <=> permitted
  <2>1. /\ fd.lacks \subseteq {"datastore", "datacenter", "vcenter", "folder"}
        /\ fd.folder \in {"none", "found", "missing"}
    BY DEF Proper
  <2>. QED  BY <2>1 DEF FolderProblem
<1>2. ~listDirectory(fd.root, FALSE) /\ ~listDirectory(fd.kubevols, TRUE)
      <=> Listable(fd) \/ SearchRefused(fd)
  <2>1. fd.root \in Listing /\ fd.kubevols \in Listing
    BY DEF Proper
  <2>. QED  BY <2>1 DEF listDirectory, Listing, Listable, SearchRefused
<1>3. group <=>
        (fd.zone = "HostGroup" =>
           /\ fd.group.read /\ fd.group.found /\ fd.group.vmGroup
           /\ fd.group.vmHostRule /\ DOMAIN fd.group.hosts # {}
           /\ fd.tagsRead
           /\ \A h \in DOMAIN fd.group.hosts : fd.group.hosts[h] = "own")
  BY GroupSilent
<1>4. group => (validateTagAttachment(fd) = {} <=> TagsSound(fd))
  BY AttachmentSilent
<1>5. Content(fd, several) <=>
        /\ several => fd.cluster /\ TagsSound(fd)
        /\ fd.zone = "HostGroup" => fd.cluster
        /\ group /\ fd.server \in in.vcs /\ fd.dc /\ fd.ds /\ permitted
        /\ Listable(fd) \/ SearchRefused(fd)
  <2>. HIDE DEF permitted
  <2>. QED  BY <1>1, <1>2, <1>4, Zenon DEF Content, group
<1>6. UsableButForListing(fd, several) <=>
        /\ several => fd.cluster /\ TagsSound(fd)
        /\ fd.zone = "HostGroup" => fd.cluster
        /\ group /\ fd.server \in in.vcs /\ fd.dc /\ fd.ds /\ permitted
  <2>. HIDE DEF group
  <2>. QED  BY <1>3, Zenon DEF UsableButForListing, TagsSound, permitted
<1>. QED  BY <1>5, <1>6, Zenon DEF Usable, Overlooked

\* The five checks that walk over the failure domains are silent exactly if
\* every failure domain is usable, or would be if vCenter did not refuse to
\* search its datastore.
THEOREM AllClearCorrect == Spec => []AllClearMeansUsable
<1>1. CallInv => AllClearMeansUsable
  <2>. DEFINE several == Len(in.fds) > 1
  <2>. DEFINE fd(i) == in.fds[i]
  <2>. DEFINE categories(vc) == validateTagCategories(in, vc)
  <2>. DEFINE tagged(vc) == {"openshift-region", "openshift-zone"} = in.categories[vc]
  <2>. DEFINE usable == /\ \A i \in DOMAIN in.fds :
                             /\ Usable(fd(i), several) \/ Overlooked(fd(i), several)
                             /\ fd(i).zone = "HostGroup" => tagged(fd(i).server)
                        /\ several => \A vc \in in.vcs : tagged(vc)
  <2>. SUFFICES ASSUME CallInv, Done("domains"), in.infra = "read"
                PROVE  usable <=> \A name \in DOMAIN answer : answer[name] = {}
    BY DEF AllClearMeansUsable
  <2>1. DOMAIN in.fds \in SUBSET Nat /\ Len(in.fds) \in Nat
    <3>1. \A n \in Nat : 1..n \in SUBSET Nat
      OBVIOUS
    <3>. QED  BY <3>1, DomainsDone
  <2>2. /\ \A vc \in in.vcs : categories(vc) <=> tagged(vc)
        /\ \A i \in DOMAIN in.fds : Proper(fd(i))
    <3>1. in \in DomainCall
      BY DomainsDone
    <3>2. \A vc \in in.vcs :
            in.categories[vc] \subseteq {"openshift-region", "openshift-zone"}
      BY <3>1, DomainInput DEF TagCategoryRegion, TagCategoryZone
    <3>3. \A i \in DOMAIN in.fds : Proper(fd(i))
      BY <3>1, DomainInput DEF Proper
    <3>. QED  BY <3>2, <3>3 DEF validateTagCategories, TagCategoryRegion, TagCategoryZone
  <2>3. (\A name \in DOMAIN answer : answer[name] = {}) <=>
          /\ CheckZoneTags(in) = {} /\ CheckHostGroups(in) = {}
          /\ CheckAccountPermissions(in) = {} /\ CheckFolderPermissions(in) = {}
          /\ CheckDefaultDatastore(in) = {}
    <3>1. (\A name \in DOMAIN answer : answer[name] = {}) <=>
            /\ answer["zoneTags"] = {} /\ answer["hostGroups"] = {}
            /\ answer["account"] = {} /\ answer["folder"] = {}
            /\ answer["datastore"] = {}
      BY DomainsDone
    <3>. QED  BY <3>1, DomainsDone
  <2>. HIDE DEF several, categories, tagged
  <2>4. (\A name \in DOMAIN answer : answer[name] = {}) <=>
          /\ several => \A vc \in in.vcs : categories(vc)
          /\ \A i \in DOMAIN in.fds :
               /\ Content(fd(i), several)
               /\ fd(i).zone = "HostGroup" => categories(fd(i).server)
    <3>1. CheckZoneTags(in) = {} <=>
            (several => /\ \A vc \in in.vcs : categories(vc)
                        /\ \A i \in DOMAIN in.fds :
                             /\ fd(i).server \in in.vcs /\ fd(i).dc /\ fd(i).cluster
                             /\ validateTagAttachment(fd(i)) = {})
      BY <2>1, ZoneTagsSilent DEF several, categories
    <3>2. CheckHostGroups(in) = {} <=>
            \A i \in DOMAIN in.fds : fd(i).zone = "HostGroup" =>
              /\ fd(i).server \in in.vcs /\ categories(fd(i).server)
              /\ fd(i).dc /\ fd(i).cluster /\ fd(i).group.read
              /\ HostGroupProblems(fd(i)) = {}
      BY <2>1, HostGroupsSilent DEF categories
    <3>3. CheckAccountPermissions(in) = {} <=>
            \A i \in DOMAIN in.fds :
              /\ fd(i).server \in in.vcs /\ fd(i).dc /\ fd(i).ds
              /\ {"datastore", "datacenter", "vcenter"} \cap fd(i).lacks = {}
              /\ ~FolderProblem(fd(i))
      BY <2>1, AccountSilent
    <3>4. CheckFolderPermissions(in) = {} <=>
            \A i \in DOMAIN in.fds :
              /\ fd(i).server \in in.vcs /\ fd(i).dc /\ fd(i).ds
              /\ ~listDirectory(fd(i).root, FALSE)
              /\ ~listDirectory(fd(i).kubevols, TRUE)
      BY <2>1, FolderSilent
    <3>5. CheckDefaultDatastore(in) = {} <=>
            \A i \in DOMAIN in.fds :
              fd(i).server \in in.vcs /\ fd(i).dc /\ fd(i).ds
                /\ "datastore" \notin fd(i).lacks
      BY <2>1, DatastoreSilent
    <3>6. \A i \in DOMAIN in.fds : Content(fd(i), several) => "datastore" \notin fd(i).lacks
      BY DEF Content
    <3>. HIDE DEF fd
    <3>. QED  BY <2>3, <3>1, <3>2, <3>3, <3>4, <3>5, <3>6, Zenon DEF Content
  <2>5. \A i \in DOMAIN in.fds :
          Content(fd(i), several) <=>
            Usable(fd(i), several) \/ Overlooked(fd(i), several)
    BY <2>2, ContentUsable
  <2>6. \A i \in DOMAIN in.fds : Content(fd(i), several) => fd(i).server \in in.vcs
    BY DEF Content
  <2>. HIDE DEF fd
  <2>. QED  BY <2>2, <2>4, <2>5, <2>6, Zenon
<1>. QED  BY <1>1, CallInvariant, PTL

-----------------------------------------------------------------------------
(* Storage classes.                                                        *)

\* A map iteration visits everything: an order without repetition of a finite
\* set contains each element.
LEMMA OrderCovers ==
  ASSUME NEW S, IsFiniteSet(S), NEW order \in Orders(S)
  PROVE  /\ DOMAIN order \in SUBSET Nat
         /\ \A i \in DOMAIN order : order[i] \in S
         /\ \A x \in S : \E i \in DOMAIN order : order[i] = x
<1>. DEFINE n == Cardinality(S)
<1>1. n \in Nat
  BY FS_CardinalityType
<1>2. /\ order \in [1..n -> S]
      /\ \A i, j \in 1..n : order[i] = order[j] => i = j
  BY DEF Orders
<1>3. order \in Injection(1..n, S)
  BY <1>2 DEF Injection, IsInjective
<1>4. Cardinality(1..n) = Cardinality(S)
  <2>1. Cardinality(1..n) = IF 1 > n THEN 0 ELSE n - 1 + 1
    BY <1>1, FS_Interval
  <2>. HIDE DEF n
  <2>2. Cardinality(1..n) = n
    BY <1>1, <2>1
  <2>. QED  BY <2>2 DEF n
<1>5. order \in Surjection(1..n, S)
  BY <1>3, <1>4, FS_Injection
<1>. HIDE DEF n
<1>6. DOMAIN order = 1..n /\ 1..n \in SUBSET Nat
  BY <1>1, <1>2
<1>7. \A x \in S : \E i \in 1..n : order[i] = x
  BY <1>5 DEF Surjection
<1>. QED  BY <1>2, <1>6, <1>7

DatastoreState == {"ok", "absent", "unlisted", "unusable"}
Reachable(ctx, vc) == vc \in ctx.vcs /\ \E i \in DOMAIN ctx.fds : ctx.fds[i] = vc
SomeDomainBad(ctx) ==
  \E i \in DOMAIN ctx.fds : ctx.datastore[ctx.fds[i]] # "ok" \/ ctx.fds[i] \notin ctx.vcs

\* checkDataStoreWithURL is silent only about a usable datastore that a
\* failure domain leads to, and complains only if something is wrong.
LEMMA URLVerdict ==
  ASSUME NEW ctx, DOMAIN ctx.fds \in SUBSET Nat, NEW ds,
         ctx.datastore[ds] \in DatastoreState
  PROVE  /\ checkDataStoreWithURL(ctx, ds).problems = {} =>
              ctx.datastore[ds] = "ok" /\ Reachable(ctx, ds)
         /\ checkDataStoreWithURL(ctx, ds).problems # {} =>
              SomeDomainBad(ctx) \/ ~Reachable(ctx, ds)
<1>. DEFINE connected(i) == ctx.fds[i] \in ctx.vcs
<1>. DEFINE listed(i) == ctx.datastore[ctx.fds[i]] # "unlisted"
<1>. DEFINE has(i) == ctx.fds[i] = ds /\ ctx.datastore[ds] # "absent"
<1>. DEFINE stop == {i \in DOMAIN ctx.fds : ~connected(i) \/ ~listed(i) \/ has(i)}
<1>. DEFINE at == Min(stop)
<1>. DEFINE problems == checkDataStoreWithURL(ctx, ds).problems
<1>1. problems = IF stop # {} /\ connected(at) /\ listed(at)
                 THEN If(ctx.datastore[ds] = "unusable", "unusable")
                 ELSE {"not found"}
  BY DEF checkDataStoreWithURL, Finding
<1>. HIDE DEF problems
<1>2. CASE stop = {}
  <2>1. problems # {}
    BY <1>1, <1>2
  <2>2. Reachable(ctx, ds) => SomeDomainBad(ctx)
    BY <1>2 DEF Reachable, SomeDomainBad
  <2>. QED  BY <2>1, <2>2 DEF problems
<1>3. CASE stop # {}
  <2>1. stop \in SUBSET Nat
    OBVIOUS
  <2>2. at \in stop
    BY <1>3, <2>1, MinLeast
  <2>. HIDE DEF at
  <2>3. at \in DOMAIN ctx.fds /\ (~connected(at) \/ ~listed(at) \/ has(at))
    BY <2>2
  <2>4. CASE ~connected(at) \/ ~listed(at)
    <3>1. problems # {}
      BY <1>1, <2>4
    <3>2. SomeDomainBad(ctx)
      BY <2>3, <2>4 DEF SomeDomainBad
    <3>. QED  BY <3>1, <3>2 DEF problems
  <2>5. CASE connected(at) /\ listed(at)
    <3>1. has(at) /\ Reachable(ctx, ds)
      BY <2>3, <2>5 DEF Reachable
    <3>2. problems = If(ctx.datastore[ds] = "unusable", "unusable")
      BY <1>1, <1>3, <2>5
    <3>3. problems = {} => ctx.datastore[ds] # "unusable"
      BY <3>2 DEF If
    <3>4. problems # {} => ctx.datastore[ds] = "unusable"
      BY <3>2 DEF If
    <3>5. problems = {} => ctx.datastore[ds] = "ok"
      BY <2>5, <3>1, <3>3 DEF DatastoreState
    <3>6. problems # {} => SomeDomainBad(ctx)
      BY <2>3, <3>1, <3>4 DEF SomeDomainBad
    <3>. QED  BY <3>1, <3>5, <3>6 DEF problems
  <2>. QED  BY <2>4, <2>5
<1>. QED  BY <1>2, <1>3

\* checkDataStore, by name in one vCenter.
LEMMA NameVerdict ==
  ASSUME NEW ctx, NEW vc, NEW ds
  PROVE  checkDataStore(ctx, vc, ds).problems = {} <=>
           ds = vc /\ ctx.datastore[ds] = "ok"
BY DEF checkDataStore, Finding, If

\* checkStoragePolicy is silent only if every vCenter has the policy and usable
\* datastores for it, or one did not list them; it complains only if something
\* is wrong.  Both hold for every order of the map iteration.
LEMMA PolicyVerdict ==
  ASSUME NEW ctx, DOMAIN ctx.fds \in SUBSET Nat, IsFiniteSet(ctx.vcs),
         \A vc \in ctx.vcs : ctx.datastore[vc] \in DatastoreState,
         NEW order \in Orders(ctx.vcs)
  PROVE  /\ checkStoragePolicy(ctx, order).problems = {} =>
              \/ \E vc \in ctx.vcs : ctx.policy[vc] = "unlisted"
              \/ \A vc \in ctx.vcs :
                   \/ ctx.policy[vc] = "none"
                   \/ /\ ctx.policy[vc] = "any"
                      /\ ctx.datastore[vc] = "ok" /\ Reachable(ctx, vc)
         /\ checkStoragePolicy(ctx, order).problems # {} =>
              \/ SomeDomainBad(ctx)
              \/ \E vc \in ctx.vcs :
                   /\ ctx.policy[vc] # "none"
                   /\ ctx.policy[vc] # "any" \/ ~Reachable(ctx, vc)
<1>. DEFINE ending == {i \in DOMAIN order : EndsWalk(ctx.policy[order[i]])}
<1>. DEFINE walked == IF ending = {} THEN DOMAIN order ELSE 1..(Min(ending) - 1)
<1>. DEFINE found == {checkDataStoreWithURL(ctx, order[i]) :
                        i \in {j \in walked : ctx.policy[order[j]] = "any"}}
<1>. DEFINE problems == checkStoragePolicy(ctx, order).problems
<1>1. problems = IF ending = {} THEN UNION {f.problems : f \in found}
                 ELSE If(ctx.policy[order[Min(ending)]] # "unlisted", "policy")
  BY DEF checkStoragePolicy, Finding
<1>2. /\ DOMAIN order \in SUBSET Nat
      /\ \A i \in DOMAIN order : order[i] \in ctx.vcs
      /\ \A vc \in ctx.vcs : \E i \in DOMAIN order : order[i] = vc
  BY OrderCovers
<1>. HIDE DEF problems
<1>3. CASE ending = {}
  <2>1. \A vc \in ctx.vcs : ctx.policy[vc] \in {"any", "none"}
    BY <1>2, <1>3 DEF EndsWalk
  <2>2. found = {checkDataStoreWithURL(ctx, vc) :
                   vc \in {v \in ctx.vcs : ctx.policy[v] = "any"}}
    BY <1>2, <1>3
  <2>. HIDE DEF found
  <2>3. problems = {} <=>
          \A vc \in ctx.vcs : ctx.policy[vc] = "any" =>
            checkDataStoreWithURL(ctx, vc).problems = {}
    BY <1>1, <1>3, <2>2
  <2>4. \A vc \in ctx.vcs :
          /\ checkDataStoreWithURL(ctx, vc).problems = {} =>
               ctx.datastore[vc] = "ok" /\ Reachable(ctx, vc)
          /\ checkDataStoreWithURL(ctx, vc).problems # {} =>
               SomeDomainBad(ctx) \/ ~Reachable(ctx, vc)
    BY URLVerdict
  <2>5. problems = {} =>
          \A vc \in ctx.vcs :
            \/ ctx.policy[vc] = "none"
            \/ /\ ctx.policy[vc] = "any"
               /\ ctx.datastore[vc] = "ok" /\ Reachable(ctx, vc)
    BY <2>1, <2>3, <2>4
  <2>6. problems # {} =>
          \/ SomeDomainBad(ctx)
          \/ \E vc \in ctx.vcs : /\ ctx.policy[vc] # "none"
                                 /\ ctx.policy[vc] # "any" \/ ~Reachable(ctx, vc)
    BY <2>3, <2>4
  <2>. QED  BY <2>5, <2>6 DEF problems
<1>4. CASE ending # {}
  <2>1. ending \in SUBSET Nat
    BY <1>2
  <2>2. Min(ending) \in ending
    BY <1>4, <2>1, MinLeast
  <2>. DEFINE vc == order[Min(ending)]
  <2>3. vc \in ctx.vcs /\ EndsWalk(ctx.policy[vc])
    BY <1>2, <2>2
  <2>4. problems = If(ctx.policy[vc] # "unlisted", "policy")
    BY <1>1, <1>4
  <2>. HIDE DEF vc
  <2>5. problems = {} => ctx.policy[vc] = "unlisted"
    BY <2>4 DEF If
  <2>6. ctx.policy[vc] # "none" /\ ctx.policy[vc] # "any"
    BY <2>3 DEF EndsWalk
  <2>. QED  BY <2>3, <2>5, <2>6 DEF problems
<1>. QED  BY <1>3, <1>4

\* The visits of CheckStorageClasses: a class that is checked, and one of its
\* parameters.
Checked(ctx) == {c \in DOMAIN ctx.classes : ctx.classes[c].provisioner # "other"}
Parameters(ctx, c) == DOMAIN ctx.classes[c].parameters
Visit(ctx, orders, c, key) ==
  CheckParameter(ctx, key, ctx.classes[c].parameters[key], orders[c]).problems

\* The check has a problem exactly if a visit has, and its message counts them.
LEMMA VisitsDecide ==
  ASSUME NEW ctx, ctx.api, NEW orders
  PROVE  /\ CheckStorageClasses(ctx, orders).problems = {} <=>
              \A c \in Checked(ctx) : \A key \in Parameters(ctx, c) :
                Visit(ctx, orders, c, key) = {}
         /\ CheckStorageClasses(ctx, orders).message.found =
              Cardinality(CheckStorageClasses(ctx, orders).problems)
<1>. DEFINE visits == UNION {{c} \X Parameters(ctx, c) : c \in Checked(ctx)}
<1>. DEFINE found(v) == Visit(ctx, orders, v[1], v[2])
<1>. DEFINE problems == UNION {{v} \X found(v) : v \in visits}
<1>1. /\ CheckStorageClasses(ctx, orders).problems = problems
      /\ CheckStorageClasses(ctx, orders).message = JoinErrors(problems)
  BY DEF CheckStorageClasses, Checked, Parameters, Visit
<1>2. JoinErrors(problems).found = Cardinality(problems)
  BY DEF JoinErrors
<1>3. \A v \in visits : v[1] \in Checked(ctx) /\ v[2] \in Parameters(ctx, v[1])
  OBVIOUS
<1>4. \A c \in Checked(ctx) : \A key \in Parameters(ctx, c) :
        \E v \in visits : v[1] = c /\ v[2] = key
  <2>. SUFFICES ASSUME NEW c \in Checked(ctx), NEW key \in Parameters(ctx, c)
                PROVE  \E v \in visits : v[1] = c /\ v[2] = key
    OBVIOUS
  <2>1. <<c, key>> \in visits
    OBVIOUS
  <2>2. <<c, key>>[1] = c /\ <<c, key>>[2] = key
    OBVIOUS
  <2>. QED  BY <2>1, <2>2, Zenon
<1>. HIDE DEF visits
<1>5. problems = {} <=>
        \A c \in Checked(ctx) : \A key \in Parameters(ctx, c) :
          Visit(ctx, orders, c, key) = {}
  <2>1. \A v \in visits : {v} \X found(v) = {} <=> found(v) = {}
    <3>1. ASSUME NEW v, NEW S
          PROVE  {v} \X S = {} <=> S = {}
      <4>1. ASSUME NEW x \in S PROVE <<v, x>> \in {v} \X S
        OBVIOUS
      <4>2. ASSUME S = {} PROVE {v} \X S = {}
        BY <4>2
      <4>. QED  BY <4>1, <4>2
    <3>. HIDE DEF found
    <3>. QED  BY <3>1
  <2>2. problems = {} <=> \A v \in visits : {v} \X found(v) = {}
    BY Zenon
  <2>3. problems = {} <=> \A v \in visits : Visit(ctx, orders, v[1], v[2]) = {}
    BY <2>1, <2>2, Zenon
  <2>. HIDE DEF problems, found
  <2>4. ASSUME problems = {}, NEW c \in Checked(ctx), NEW key \in Parameters(ctx, c)
        PROVE  Visit(ctx, orders, c, key) = {}
    <3>1. PICK v \in visits : v[1] = c /\ v[2] = key
      BY <1>4
    <3>2. Visit(ctx, orders, v[1], v[2]) = {}
      BY <2>3, <2>4
    <3>. QED  BY <3>1, <3>2
  <2>5. ASSUME \A c \in Checked(ctx) : \A key \in Parameters(ctx, c) :
                 Visit(ctx, orders, c, key) = {}
        PROVE  problems = {}
    BY <1>3, <2>3, <2>5
  <2>. QED  BY <2>4, <2>5
<1>. HIDE DEF problems
<1>. QED  BY <1>1, <1>2, <1>5

\* What a visit finds, by parameter.
LEMMA VisitFinds ==
  ASSUME NEW ctx, NEW orders, NEW c, NEW key
  PROVE  LET value == ctx.classes[c].parameters[key]
             found == Visit(ctx, orders, c, key)
         IN  /\ key = "datastoreurl" =>
                  found = checkDataStoreWithURL(ctx, value).problems
             /\ key = "storagepolicyname" =>
                  (found = {} <=> checkStoragePolicy(ctx, orders[c]).problems = {})
             /\ key = "datastore" =>
                  (found = {} <=>
                     (ctx.legacy => \A vc \in ctx.vcs :
                        value = vc /\ ctx.datastore[value] = "ok"))
             /\ key \notin {"datastore", "datastoreurl", "storagepolicyname"} =>
                  found = {}
<1>. DEFINE value == ctx.classes[c].parameters[key]
<1>. DEFINE found == Visit(ctx, orders, c, key)
<1>1. key = "datastoreurl" => found = checkDataStoreWithURL(ctx, value).problems
  BY DEF Visit, CheckParameter
<1>2. key = "storagepolicyname" =>
        (found = {} <=> checkStoragePolicy(ctx, orders[c]).problems = {})
  BY DEF Visit, CheckParameter, Joined, Finding, If
<1>3. ASSUME key = "datastore"
      PROVE  found = {} <=>
               (ctx.legacy => \A vc \in ctx.vcs :
                  value = vc /\ ctx.datastore[value] = "ok")
  <2>. DEFINE failing == {vc \in ctx.vcs : checkDataStore(ctx, vc, value).problems # {}}
  <2>1. found = IF ctx.legacy THEN failing ELSE {}
    BY <1>3 DEF Visit, CheckParameter, Finding, Nothing
  <2>2. failing = {} <=>
          \A vc \in ctx.vcs : checkDataStore(ctx, vc, value).problems = {}
    OBVIOUS
  <2>. HIDE DEF found, failing, value
  <2>. QED  BY <2>1, <2>2, NameVerdict
<1>4. key \notin {"datastore", "datastoreurl", "storagepolicyname"} => found = {}
  BY DEF Visit, CheckParameter, collectDefaultDatastores, Finding
<1>. QED  BY <1>1, <1>2, <1>3, <1>4

\* A storage check that was answered, with the orders of its map iterations.
LEMMA StorageDone ==
  ASSUME CallInv, Done("storage"), in.api
  PROVE  /\ DOMAIN in.fds \in SUBSET Nat /\ IsFiniteSet(in.vcs) /\ in.vcs # {}
         /\ \A vc \in in.vcs : in.datastore[vc] \in DatastoreState
         /\ \A c \in DOMAIN in.classes : \A key \in Parameters(in, c) :
              in.datastore[in.classes[c].parameters[key]] \in DatastoreState
         /\ \E orders \in [DOMAIN in.classes -> Orders(in.vcs)] :
              answer = CheckStorageClasses(in, orders)
<1>1. in \in StorageCall
  BY DEF CallInv, InputInv, Done
<1>2. in.vcs \subseteq VCenter /\ in.vcs # {}
  BY <1>1, StorageInput
<1>3. DOMAIN in.fds \in SUBSET Nat
  <2>1. \A n \in Nat : 1..n \in SUBSET Nat
    OBVIOUS
  <2>. QED  BY <1>1, <2>1, StorageInput
<1>4. /\ \A vc \in VCenter : in.datastore[vc] \in DatastoreState
      /\ \A c \in DOMAIN in.classes : \A key \in Parameters(in, c) :
           in.classes[c].parameters[key] \in VCenter
  BY <1>1, StorageInput DEF DatastoreState, Parameters
<1>5. IsFiniteSet(in.vcs)
  BY <1>2, LabelAssumption, FS_Subset
<1>6. \E orders \in [DOMAIN in.classes -> Orders(in.vcs)] :
        answer = CheckStorageClasses(in, orders)
  BY Zenon DEF CallInv, AnswerInv
<1>. QED  BY <1>2, <1>3, <1>4, <1>5, <1>6

\* CheckStorageClasses is silent only if what the classes name is usable, and
\* complains only if something is wrong.
THEOREM StorageCorrect == Spec => []StorageVerdict
<1>1. CallInv => StorageVerdict
  <2>. DEFINE checked == {c \in DOMAIN in.classes : in.classes[c].provisioner # "other"}
  <2>. DEFINE fine(vc) == in.datastore[vc] = "ok"
  <2>. DEFINE reachable(vc) == vc \in in.vcs /\ \E i \in DOMAIN in.fds : in.fds[i] = vc
  <2>. DEFINE named(key) ==
         {in.classes[c].parameters[key] :
            c \in {k \in checked : key \in DOMAIN in.classes[k].parameters}}
  <2>. DEFINE byName == IF in.legacy THEN named("datastore") ELSE {}
  <2>. DEFINE byPolicy == IF named("storagepolicyname") = {} THEN {} ELSE in.vcs
  <2>. DEFINE unlisted == \E vc \in in.vcs : in.policy[vc] = "unlisted"
  <2>. DEFINE clear ==
         /\ \A vc \in named("datastoreurl") : fine(vc) /\ reachable(vc)
         /\ \A vc \in byName : fine(vc) /\ in.vcs = {vc}
         /\ \A vc \in byPolicy : \/ unlisted
                                 \/ in.policy[vc] = "none"
                                 \/ in.policy[vc] = "any" /\ fine(vc) /\ reachable(vc)
  <2>. DEFINE wrong ==
         \/ \E i \in DOMAIN in.fds : ~fine(in.fds[i]) \/ in.fds[i] \notin in.vcs
         \/ \E vc \in named("datastoreurl") : ~reachable(vc)
         \/ \E vc \in byName : ~fine(vc) \/ in.vcs # {vc}
         \/ \E vc \in byPolicy :
              in.policy[vc] # "none" /\ (in.policy[vc] # "any" \/ ~reachable(vc))
  <2>. SUFFICES ASSUME CallInv, Done("storage"), in.api
                PROVE  /\ answer.problems = {} => clear
                       /\ answer.problems # {} => wrong
                       /\ answer.message.found = Cardinality(answer.problems)
    BY DEF StorageVerdict
  <2>1. /\ DOMAIN in.fds \in SUBSET Nat /\ IsFiniteSet(in.vcs) /\ in.vcs # {}
        /\ \A vc \in in.vcs : in.datastore[vc] \in DatastoreState
        /\ \A c \in DOMAIN in.classes : \A key \in Parameters(in, c) :
             in.datastore[in.classes[c].parameters[key]] \in DatastoreState
    BY StorageDone
  <2>2. PICK orders \in [DOMAIN in.classes -> Orders(in.vcs)] :
          answer = CheckStorageClasses(in, orders)
    BY StorageDone
  <2>. DEFINE value(c, key) == in.classes[c].parameters[key]
  <2>. DEFINE visit(c, key) == Visit(in, orders, c, key)
  <2>3. /\ answer.problems = {} <=>
             \A c \in checked : \A key \in Parameters(in, c) : visit(c, key) = {}
        /\ answer.message.found = Cardinality(answer.problems)
    BY <2>2, VisitsDecide DEF Checked
  <2>4. \A key : \A vc \in named(key) : \E c \in checked :
          key \in Parameters(in, c) /\ value(c, key) = vc
    BY DEF Parameters
  <2>5. \A key : \A c \in checked : key \in Parameters(in, c) => value(c, key) \in named(key)
    BY DEF Parameters
  <2>6. /\ \A vc : Reachable(in, vc) <=> reachable(vc)
        /\ SomeDomainBad(in) => wrong
    BY DEF Reachable, SomeDomainBad
  <2>7. checked \subseteq DOMAIN in.classes
    OBVIOUS
  <2>. HIDE DEF checked, named, value, visit, reachable
  <2>8. ASSUME NEW c \in checked, "datastoreurl" \in Parameters(in, c)
        PROVE  LET ds == value(c, "datastoreurl") IN
               /\ visit(c, "datastoreurl") = {} => fine(ds) /\ reachable(ds)
               /\ visit(c, "datastoreurl") # {} => SomeDomainBad(in) \/ ~reachable(ds)
    <3>. DEFINE ds == value(c, "datastoreurl")
    <3>1. visit(c, "datastoreurl") = checkDataStoreWithURL(in, ds).problems
      BY VisitFinds DEF visit, value
    <3>2. in.datastore[ds] \in DatastoreState
      BY <2>1, <2>7, <2>8 DEF value
    <3>. HIDE DEF ds
    <3>3. /\ checkDataStoreWithURL(in, ds).problems = {} =>
               in.datastore[ds] = "ok" /\ Reachable(in, ds)
          /\ checkDataStoreWithURL(in, ds).problems # {} =>
               SomeDomainBad(in) \/ ~Reachable(in, ds)
      BY <2>1, <3>2, URLVerdict
    <3>. QED  BY <2>6, <3>1, <3>3 DEF ds
  <2>9. ASSUME NEW c \in checked, "datastore" \in Parameters(in, c)
        PROVE  visit(c, "datastore") = {} <=>
                 (in.legacy => /\ fine(value(c, "datastore"))
                               /\ in.vcs = {value(c, "datastore")})
    <3>1. visit(c, "datastore") = {} <=>
            (in.legacy => \A vc \in in.vcs :
               value(c, "datastore") = vc /\ in.datastore[value(c, "datastore")] = "ok")
      BY VisitFinds DEF visit, value
    <3>. QED  BY <2>1, <3>1
  <2>10. ASSUME NEW c \in checked, "storagepolicyname" \in Parameters(in, c)
         PROVE  /\ visit(c, "storagepolicyname") = {} =>
                     \/ unlisted
                     \/ \A vc \in in.vcs :
                          \/ in.policy[vc] = "none"
                          \/ in.policy[vc] = "any" /\ fine(vc) /\ reachable(vc)
                /\ visit(c, "storagepolicyname") # {} =>
                     \/ SomeDomainBad(in)
                     \/ \E vc \in in.vcs :
                          /\ in.policy[vc] # "none"
                          /\ in.policy[vc] # "any" \/ ~reachable(vc)
    <3>1. visit(c, "storagepolicyname") = {} <=>
            checkStoragePolicy(in, orders[c]).problems = {}
      BY VisitFinds DEF visit
    <3>2. orders[c] \in Orders(in.vcs)
      BY <2>2, <2>7
    <3>3. /\ checkStoragePolicy(in, orders[c]).problems = {} =>
               \/ \E vc \in in.vcs : in.policy[vc] = "unlisted"
               \/ \A vc \in in.vcs :
                    \/ in.policy[vc] = "none"
                    \/ /\ in.policy[vc] = "any"
                       /\ in.datastore[vc] = "ok" /\ Reachable(in, vc)
          /\ checkStoragePolicy(in, orders[c]).problems # {} =>
               \/ SomeDomainBad(in)
               \/ \E vc \in in.vcs : /\ in.policy[vc] # "none"
                                     /\ in.policy[vc] # "any" \/ ~Reachable(in, vc)
      BY <2>1, <3>2, PolicyVerdict
    <3>. QED  BY <2>6, <3>1, <3>3
  <2>11. answer.problems = {} => clear
    <3>. SUFFICES ASSUME \A c \in checked : \A key \in Parameters(in, c) : visit(c, key) = {}
                  PROVE  clear
      BY <2>3
    <3>1. \A vc \in named("datastoreurl") : fine(vc) /\ reachable(vc)
      BY <2>4, <2>8
    <3>2. \A vc \in byName : fine(vc) /\ in.vcs = {vc}
      BY <2>4, <2>9
    <3>3. \A vc \in byPolicy : \/ unlisted
                               \/ in.policy[vc] = "none"
                               \/ in.policy[vc] = "any" /\ fine(vc) /\ reachable(vc)
      <4>1. byPolicy # {} => \E c \in checked : "storagepolicyname" \in Parameters(in, c)
        BY <2>4
      <4>2. byPolicy \subseteq in.vcs
        OBVIOUS
      <4>. HIDE DEF byPolicy
      <4>. QED  BY <2>10, <4>1, <4>2
    <3>. QED  BY <3>1, <3>2, <3>3
  <2>12. answer.problems # {} => wrong
    <3>. SUFFICES ASSUME NEW c \in checked, NEW key \in Parameters(in, c),
                         visit(c, key) # {}
                  PROVE  wrong
      BY <2>3
    <3>1. CASE key = "datastoreurl"
      BY <2>5, <2>6, <2>8, <3>1
    <3>2. CASE key = "datastore"
      <4>1. in.legacy /\ ~(/\ fine(value(c, "datastore"))
                           /\ in.vcs = {value(c, "datastore")})
        BY <2>9, <3>2
      <4>2. value(c, "datastore") \in byName
        BY <2>5, <3>2, <4>1
      <4>. QED  BY <4>1, <4>2
    <3>3. CASE key = "storagepolicyname"
      <4>1. byPolicy = in.vcs
        BY <2>5, <3>3
      <4>. QED  BY <2>6, <2>10, <3>3, <4>1
    <3>4. CASE key \notin {"datastore", "datastoreurl", "storagepolicyname"}
      BY <3>4, VisitFinds DEF visit
    <3>. QED  BY <3>1, <3>2, <3>3, <3>4
  <2>. QED  BY <2>3, <2>11, <2>12
<1>. QED  BY <1>1, CallInvariant, PTL

-----------------------------------------------------------------------------
(* Versions.                                                               *)

\* AtLeast compares three parts as numbers of a version are compared.
LEMMA Compared ==
  ASSUME NEW v \in [1..3 -> Nat]
  PROVE  ~AtLeast(v, minVersion) <=>
           \/ v[1] < 6
           \/ v[1] = 6 /\ v[2] < 7
           \/ v[1] = 6 /\ v[2] = 7 /\ v[3] < 3
<1>. DEFINE differ == {i \in DOMAIN v : v[i] # minVersion[i]}
<1>. DEFINE at == Min(differ)
<1>1. /\ minVersion[1] = 6 /\ minVersion[2] = 7 /\ minVersion[3] = 3
      /\ DOMAIN v = {1, 2, 3} /\ v[1] \in Nat /\ v[2] \in Nat /\ v[3] \in Nat
  BY DEF minVersion
<1>2. AtLeast(v, minVersion) <=> (differ # {} => v[at] > minVersion[at])
  BY DEF AtLeast
<1>3. /\ 1 \in differ <=> v[1] # 6
      /\ 2 \in differ <=> v[2] # 7
      /\ 3 \in differ <=> v[3] # 3
      /\ differ \subseteq {1, 2, 3}
  BY <1>1
<1>4. differ # {} => at \in differ /\ \A k \in differ : at <= k
  <2>1. differ \in SUBSET Nat
    BY <1>3
  <2>. QED  BY <2>1, MinLeast
<1>. HIDE DEF differ, at
<1>5. CASE v[1] # 6
  <2>1. 1 \in differ
    BY <1>3, <1>5
  <2>2. at \in {1, 2, 3} /\ at <= 1
    BY <1>3, <1>4, <2>1
  <2>3. at = 1
    BY <2>2
  <2>. QED  BY <1>1, <1>2, <1>3, <1>5, <2>3
<1>6. CASE v[1] = 6 /\ v[2] # 7
  <2>1. 1 \notin differ /\ 2 \in differ
    BY <1>3, <1>6
  <2>2. at \in {1, 2, 3} /\ at \in differ /\ at <= 2
    BY <1>3, <1>4, <2>1
  <2>3. at = 2
    BY <2>1, <2>2
  <2>. QED  BY <1>1, <1>2, <1>3, <1>6, <2>3
<1>7. CASE v[1] = 6 /\ v[2] = 7 /\ v[3] # 3
  <2>1. 1 \notin differ /\ 2 \notin differ /\ 3 \in differ
    BY <1>3, <1>7
  <2>2. at \in {1, 2, 3} /\ at \in differ /\ at <= 3
    BY <1>3, <1>4, <2>1
  <2>3. at = 3
    BY <2>1, <2>2
  <2>. QED  BY <1>1, <1>2, <1>3, <1>7, <2>3
<1>8. CASE v[1] = 6 /\ v[2] = 7 /\ v[3] = 3
  <2>1. differ = {}
    BY <1>3, <1>8
  <2>. QED  BY <1>2, <1>8, <2>1
<1>. QED  BY <1>5, <1>6, <1>7, <1>8

\* The value of one digit and of two.
LEMMA OneDigit ==
  ASSUME NEW h \in Seq(0..9), Len(h) = 1, NEW base \in Nat
  PROVE  Number(h, base) = h[1]
<1>. DEFINE Value(f) ==
       f = [n \in 0..1 |-> IF n = 0 THEN 0 ELSE f[n - 1] * base + h[n]]
<1>. DEFINE g == [n \in 0..1 |-> IF n = 0 THEN 0 ELSE h[1]]
<1>. DEFINE value == CHOOSE f : Value(f)
<1>1. h[1] \in 0..9
  <2>1. 1 \in 1..Len(h)
    OBVIOUS
  <2>. QED  BY <2>1, ElementOfSeq, Zenon
<1>2. Value(g)
  BY <1>1
<1>3. Value(value)
  BY <1>2
<1>4. Number(h, base) = value[1]
  BY DEF Number
<1>. HIDE DEF value
<1>5. value[0] = 0 /\ value[1] = value[0] * base + h[1]
  BY <1>3
<1>. QED  BY <1>1, <1>4, <1>5

LEMMA TwoDigits ==
  ASSUME NEW h \in Seq(0..9), Len(h) = 2, NEW base \in Nat
  PROVE  Number(h, base) = h[1] * base + h[2]
<1>. DEFINE Value(f) ==
       f = [n \in 0..2 |-> IF n = 0 THEN 0 ELSE f[n - 1] * base + h[n]]
<1>. DEFINE g == [n \in 0..2 |-> IF n = 0 THEN 0
                                 ELSE IF n = 1 THEN h[1] ELSE h[1] * base + h[2]]
<1>. DEFINE value == CHOOSE f : Value(f)
<1>1. h[1] \in 0..9 /\ h[2] \in 0..9
  <2>1. 1 \in 1..Len(h) /\ 2 \in 1..Len(h)
    OBVIOUS
  <2>. QED  BY <2>1, ElementOfSeq, Zenon
<1>2. Value(g)
  BY <1>1
<1>3. Value(value)
  BY <1>2
<1>4. Number(h, base) = value[2]
  BY DEF Number
<1>. HIDE DEF value
<1>5. /\ value[0] = 0 /\ value[1] = value[0] * base + h[1]
      /\ value[2] = value[1] * base + h[2]
  BY <1>3
<1>. QED  BY <1>1, <1>4, <1>5

\* Which hardware versions parse and are too old.
OldHardware(h) == \/ Len(h) = 1
                  \/ Len(h) = 2 /\ h[1] = 1 /\ h[2] < 5
                  \/ Len(h) = 2 /\ h[1] = 0 /\ h[2] \notin {8, 9}

\* The decimal numbers of two digits below 15.
LEMMA BelowFifteen ==
  \A a, b \in 0..9 : a # 0 =>
    a * 10 + b # -1 /\ (a * 10 + b < 15 <=> a = 1 /\ b < 5)
OBVIOUS

\* ParseInt, and the comparison with the minimum.
LEMMA HardwareCompared ==
  ASSUME NEW h \in Seq(0..9), Len(h) <= 2
  PROVE  ParseInt(h) # Invalid /\ ParseInt(h) < minHardwareVersion <=> OldHardware(h)
<1>1. Len(h) \in Nat /\ DOMAIN h = 1..Len(h)
  OBVIOUS
<1>2. h = <<>> <=> Len(h) = 0
  BY EmptySeq, Zenon
<1>3. CASE h = <<>>
  BY <1>3 DEF ParseInt, OldHardware
<1>4. CASE Len(h) = 1
  <2>1. h[1] \in 0..9
    <3>1. 1 \in 1..Len(h)
      BY <1>4
    <3>. QED  BY <3>1, ElementOfSeq, Zenon
  <2>2. h # <<>>
    BY <1>2, <1>4
  <2>3. ParseInt(h) = Number(h, 10)
    BY <1>4, <2>2 DEF ParseInt
  <2>4. Number(h, 10) = h[1]
    BY <1>4, OneDigit
  <2>. QED  BY <1>4, <2>1, <2>3, <2>4 DEF OldHardware, Invalid, minHardwareVersion
<1>5. CASE Len(h) = 2
  <2>1. h[1] \in 0..9 /\ h[2] \in 0..9
    <3>1. 1 \in 1..Len(h) /\ 2 \in 1..Len(h)
      BY <1>5
    <3>. QED  BY <3>1, ElementOfSeq, Zenon
  <2>2. h # <<>> /\ Len(h) # 1
    BY <1>2, <1>5
  <2>3. DOMAIN h = {1, 2}
    BY <1>1, <1>5
  <2>4. Number(h, 10) = h[1] * 10 + h[2] /\ Number(h, 8) = h[1] * 8 + h[2]
    BY <1>5, TwoDigits
  <2>5. CASE h[1] # 0
    <3>1. ParseInt(h) = Number(h, 10)
      BY <2>2, <2>5 DEF ParseInt
    <3>2. h[1] * 10 + h[2] # -1 /\ (h[1] * 10 + h[2] < 15 <=> h[1] = 1 /\ h[2] < 5)
      BY <2>1, <2>5, BelowFifteen, Zenon
    <3>3. OldHardware(h) <=> h[1] = 1 /\ h[2] < 5
      BY <1>5, <2>2, <2>5 DEF OldHardware
    <3>. QED  BY <2>4, <3>1, <3>2, <3>3 DEF Invalid, minHardwareVersion
  <2>6. CASE h[1] = 0
    <3>1. (\E i \in DOMAIN h : h[i] > 7) <=> h[2] \in {8, 9}
      BY <2>1, <2>3, <2>6
    <3>2. ParseInt(h) = IF h[2] \in {8, 9} THEN Invalid ELSE Number(h, 8)
      BY <2>2, <2>6, <3>1 DEF ParseInt
    <3>. QED  BY <1>5, <2>1, <2>4, <2>6, <3>2 DEF OldHardware, Invalid, minHardwareVersion
  <2>. QED  BY <2>5, <2>6
<1>. QED  BY <1>1, <1>2, <1>3, <1>4, <1>5

\* The parts of a version, and which versions are too old.
Part(v, i) == IF i <= Len(v) THEN v[i] ELSE 0
OldVersion(v) == /\ v # <<>>
                 /\ \/ Part(v, 1) < 6
                    \/ Part(v, 1) = 6 /\ Part(v, 2) < 7
                    \/ Part(v, 1) = 6 /\ Part(v, 2) = 7 /\ Part(v, 3) < 3

\* isMinimumVersion, of a version that is not empty.
LEMMA VersionCompared ==
  ASSUME NEW v \in Seq(Nat)
  PROVE  ~isMinimumVersion(v) <=> OldVersion(v)
<1>1. parseForSemver(v) = [i \in 1..3 |-> Part(v, i)]
  BY DEF parseForSemver, Part
<1>2. \A i \in 1..3 : Part(v, i) \in Nat
  <2>1. \A i \in 1..3 : i <= Len(v) => i \in 1..Len(v)
    OBVIOUS
  <2>2. \A i \in 1..Len(v) : v[i] \in Nat
    BY ElementOfSeq, Zenon
  <2>. QED  BY <2>1, <2>2 DEF Part
<1>3. parseForSemver(v) \in [1..3 -> Nat]
  BY <1>1, <1>2
<1>4. /\ parseForSemver(v)[1] = Part(v, 1) /\ parseForSemver(v)[2] = Part(v, 2)
      /\ parseForSemver(v)[3] = Part(v, 3)
  BY <1>1
<1>5. ~AtLeast(parseForSemver(v), minVersion) <=>
        \/ Part(v, 1) < 6
        \/ Part(v, 1) = 6 /\ Part(v, 2) < 7
        \/ Part(v, 1) = 6 /\ Part(v, 2) = 7 /\ Part(v, 3) < 3
  BY <1>3, <1>4, Compared
<1>. QED  BY <1>5, Zenon DEF isMinimumVersion, OldVersion

\* checkForDeprecation asks to block upgrades exactly if some version that
\* parses is too old.
THEOREM DeprecationCorrect == Spec => []OldVersionBlocks
<1>1. CallInv => OldVersionBlocks
  <2>. SUFFICES ASSUME CallInv, Done("deprecation")
                PROVE  answer.blockUpgrade <=>
                         \/ \E v \in in.esxi \cup in.vcenters : OldVersion(v)
                         \/ \E h \in in.hardware : OldHardware(h)
    <3>1. \A v : /\ [i \in 1..3 |-> IF i <= Len(v) THEN v[i] ELSE 0][1] = Part(v, 1)
                 /\ [i \in 1..3 |-> IF i <= Len(v) THEN v[i] ELSE 0][2] = Part(v, 2)
                 /\ [i \in 1..3 |-> IF i <= Len(v) THEN v[i] ELSE 0][3] = Part(v, 3)
      BY DEF Part
    <3>. QED  BY <3>1, Zenon DEF OldVersionBlocks, OldVersion, OldHardware
  <2>1. /\ \A v \in in.esxi \cup in.vcenters : v \in Seq(Nat)
        /\ \A h \in in.hardware : h \in Seq(0..9) /\ Len(h) <= 2
    BY DeprecationInput DEF CallInv, InputInv, Done
  <2>2. answer.blockUpgrade = checkForDeprecation(in.esxi, in.hardware, in.vcenters)
    <3>1. answer = [blockUpgrade |->
                      checkForDeprecation(in.esxi, in.hardware, in.vcenters)]
      BY Zenon DEF CallInv, AnswerInv
    <3>. QED  BY <3>1
  <2>3. checkForDeprecation(in.esxi, in.hardware, in.vcenters) <=>
          \/ \E v \in in.esxi \cup in.vcenters : ~isMinimumVersion(v)
          \/ \E h \in in.hardware :
               ParseInt(h) # Invalid /\ ParseInt(h) < minHardwareVersion
    BY DEF checkForDeprecation
  <2>4. \A v \in in.esxi \cup in.vcenters : ~isMinimumVersion(v) <=> OldVersion(v)
    BY <2>1, VersionCompared
  <2>5. \A h \in in.hardware :
          ParseInt(h) # Invalid /\ ParseInt(h) < minHardwareVersion <=> OldHardware(h)
    BY <2>1, HardwareCompared
  <2>. QED  BY <2>2, <2>3, <2>4, <2>5, Zenon
<1>. QED  BY <1>1, CallInvariant, PTL

=============================================================================

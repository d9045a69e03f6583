----------------------------- MODULE Deprecation -----------------------------
(***************************************************************************)
(* checkForDeprecation of pkg/operator/operator.go: does the cluster run   *)
(* versions of ESXi, vCenter or virtual hardware that will not be          *)
(* supported?  A dotted version is the sequence of its numbers, <<>> when  *)
(* the text is empty; a hardware version is the sequence of the digits     *)
(* after "vmx-".                                                           *)
(***************************************************************************)
EXTENDS Integers, Sequences, FiniteSets, FiniteSetsExt

minVersion == <<6, 7, 3>>      \* minHostVersion, minVCenterVersion
minHardwareVersion == 15
Invalid == -1

\* parseForSemver keeps three parts; semver.ParseTolerant fills up with zeros.
parseForSemver(v) ==
  [i \in 1..3 |-> IF i <= Len(v) THEN v[i] ELSE 0]

\* Mutant: the parts are compared one by one.
MutantPartwise(v, w) == \A i \in DOMAIN v : v[i] >= w[i]

\* Compare(...) >= 0: the first part that differs decides.
AtLeast(v, w) ==
  LET differ == {i \in DOMAIN v : v[i] # w[i]} IN
  differ # {} => v[Min(differ)] > w[Min(differ)]

\* isMinimumVersion; a text that does not parse is an error, and the answer is
\* then TRUE.
isMinimumVersion(v) == v # <<>> => AtLeast(parseForSemver(v), minVersion)

\* strconv.ParseInt with base 0: digits after a leading 0 are octal.
Number(digits, base) ==
  LET value[n \in 0..Len(digits)] ==
        IF n = 0 THEN 0 ELSE value[n - 1] * base + digits[n]
  IN  value[Len(digits)]

ParseInt(digits) ==
  IF digits = <<>> THEN Invalid
  ELSE IF digits[1] # 0 \/ Len(digits) = 1 THEN Number(digits, 10)
  ELSE IF \E i \in DOMAIN digits : digits[i] > 7 THEN Invalid
  ELSE Number(digits, 8)

\* The three loops; each returns at the first old version, and a version that
\* does not parse is skipped.
checkForDeprecation(esxi, hardware, vcenters) ==
  \/ \E v \in esxi : ~isMinimumVersion(v)
  \/ \E h \in hardware :
       ParseInt(h) # Invalid /\ ParseInt(h) < minHardwareVersion
  \/ \E v \in vcenters : ~isMinimumVersion(v)

=============================================================================

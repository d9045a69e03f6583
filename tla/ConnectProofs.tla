---------------------------- MODULE ConnectProofs ----------------------------
(***************************************************************************)
(* Safety of vSphereChecker.connect for any set of vCenters, any number of *)
(* rounds and any changes of the secret.                                   *)
(***************************************************************************)
EXTENDS Connect, FiniteSetTheorems, TLAPS

-----------------------------------------------------------------------------
(* The inductive invariant.                                                *)

ConnectTypes ==
  /\ secret \in [VCenter -> Credential]
  /\ pc \in {"idle", "connecting", "connected"}
  /\ left \in SUBSET VCenter
  /\ open \in SUBSET VCenter
  /\ dropped \in SUBSET VCenter
  /\ unclosed \in SUBSET VCenter
  /\ gauge \in [Reason -> {"unset", "0", "1"}]
  /\ last \in {"none", "ok", "noConfig", "noCredentials", "noClient"}

\* What the loop over the vCenters keeps: a vCenter is visited or left, each
\* visited one has its session, and the last visit cleared the gauge.
LoopInv ==
  /\ pc = "idle" => open = {}
  /\ pc # "connecting" => left = {}
  /\ pc = "connected" => last = "ok"
  /\ pc = "connecting" =>
       /\ open \cup left = VCenter /\ open \cap left = {}
       /\ open # {} => gauge["InvalidCredentials"] = "0"

ConnectInv == ConnectTypes /\ LoopInv /\ FailureHasReason /\ ConnectedToAll

-----------------------------------------------------------------------------
\* Reading the gauges after a write of one of them.
LEMMA Failure ==
  ASSUME ConnectTypes, NEW c \in Credential
  PROVE  /\ GaugeAfterFailure(c) \in [Reason -> {"unset", "0", "1"}]
         /\ \E r \in Reason \ {"UsernameWithoutDomain"} :
              GaugeAfterFailure(c)[r] = "1"
<1>. USE DEF ConnectTypes, Reason
<1>1. CASE c = "newLineInUser"
  <2>1. GaugeAfterFailure(c) = [gauge EXCEPT !["UsernameWithNewLine"] = "1"]
    BY <1>1 DEF GaugeAfterFailure
  <2>2. /\ GaugeAfterFailure(c) \in [Reason -> {"unset", "0", "1"}]
        /\ GaugeAfterFailure(c)["UsernameWithNewLine"] = "1"
    BY <2>1
  <2>. QED  BY <2>2
<1>2. CASE c = "newLineInPassword"
  <2>1. GaugeAfterFailure(c) = [[gauge EXCEPT !["UsernameWithNewLine"] = "0"]
                                  EXCEPT !["PasswordWithNewLine"] = "1"]
    BY <1>2 DEF GaugeAfterFailure
  <2>2. /\ GaugeAfterFailure(c) \in [Reason -> {"unset", "0", "1"}]
        /\ GaugeAfterFailure(c)["PasswordWithNewLine"] = "1"
    BY <2>1
  <2>. QED  BY <2>2
<1>3. CASE c \notin {"newLineInUser", "newLineInPassword"}
  <2>1. GaugeAfterFailure(c) =
          [[[gauge EXCEPT !["UsernameWithNewLine"] = "0"]
             EXCEPT !["PasswordWithNewLine"] = "0"]
             EXCEPT !["InvalidCredentials"] = "1"]
    BY <1>3 DEF GaugeAfterFailure
  <2>2. /\ GaugeAfterFailure(c) \in [Reason -> {"unset", "0", "1"}]
        /\ GaugeAfterFailure(c)["InvalidCredentials"] = "1"
    BY <2>1
  <2>. QED  BY <2>2
<1>. QED  BY <1>1, <1>2, <1>3

\* A vCenter that fails after another has its session is one of several.
LEMMA LaterFailure ==
  ASSUME ConnectInv, pc = "connecting", left # {}, open # {}
  PROVE  Cardinality(VCenter) > 1
<1>1. PICK v \in left : TRUE
  OBVIOUS
<1>2. PICK w \in open : TRUE
  OBVIOUS
<1>3. v # w /\ {v, w} \subseteq VCenter
  BY <1>1, <1>2 DEF ConnectInv, LoopInv, ConnectTypes
<1>4. Cardinality({v, w}) = 2
  <2>1. IsFiniteSet({w}) /\ Cardinality({w}) = 1
    BY FS_Singleton
  <2>2. v \notin {w} /\ {v, w} = {w} \cup {v}
    BY <1>3
  <2>. QED  BY <2>1, <2>2, FS_AddElement
<1>. QED  BY <1>3, <1>4, VCenterAssumption, FS_Subset, FS_CardinalityType

LEMMA ConnectInvInit == Init => ConnectInv
BY DEF Init, ConnectInv, ConnectTypes, LoopInv, FailureHasReason,
       ConnectedToAll

LEMMA ConnectInvStep ==
  ASSUME ConnectInv, [Next]_vars
  PROVE  ConnectInv'
<1>. USE DEF ConnectInv
<1>1. ASSUME ConfigRead \/ Connected \/ Logout
      PROVE  ConnectInv'
  <2>. USE <1>1, VCenterAssumption DEF ConfigRead, Connected, Logout
  <2>1. ConnectTypes'
    BY DEF ConnectTypes
  <2>2. LoopInv' /\ ConnectedToAll'
    BY DEF LoopInv, ConnectTypes, ConnectedToAll
  <2>3. FailureHasReason'
    BY DEF FailureHasReason, LoopInv
  <2>. QED  BY <2>1, <2>2, <2>3
<1>2. CASE ConfigFails
  BY <1>2 DEF ConfigFails, ReturnError, ConnectTypes, LoopInv, ConnectedToAll,
              FailureHasReason
<1>3. ASSUME NEW v \in VCenter, getCredentialsFails(v)
      PROVE  ConnectInv'
  BY <1>3 DEF getCredentialsFails, ReturnError, ConnectTypes, LoopInv,
              ConnectedToAll, FailureHasReason
<1>4. ASSUME NEW v \in VCenter, newClientFails(v)
      PROVE  ConnectInv'
  <2>. USE <1>4 DEF newClientFails, ReturnError
  <2>1. /\ gauge' \in [Reason -> {"unset", "0", "1"}]
        /\ \E r \in Reason \ {"UsernameWithoutDomain"} : gauge'[r] = "1"
    BY Failure DEF ConnectTypes
  <2>2. ConnectTypes'
    BY <2>1 DEF ConnectTypes
  <2>3. LoopInv' /\ ConnectedToAll'
    BY DEF LoopInv, ConnectedToAll
  <2>4. FailureHasReason'
    BY <2>1 DEF FailureHasReason
  <2>. QED  BY <2>2, <2>3, <2>4
<1>5. ASSUME NEW v \in VCenter, newClient(v)
      PROVE  ConnectInv'
  <2>. USE <1>5 DEF newClient
  <2>1. /\ gauge' \in [Reason -> {"unset", "0", "1"}]
        /\ gauge'["InvalidCredentials"] = "0"
    BY DEF ConnectTypes, GaugeAfterSuccess, Reason
  <2>2. ConnectTypes'
    BY <2>1 DEF ConnectTypes
  <2>3. LoopInv' /\ ConnectedToAll'
    BY <2>1 DEF LoopInv, ConnectedToAll, ConnectTypes
  <2>4. FailureHasReason'
    BY DEF FailureHasReason
  <2>. QED  BY <2>2, <2>3, <2>4
<1>6. ASSUME NEW v \in VCenter, SecretChanges(v)
      PROVE  ConnectInv'
  <2>. USE <1>6 DEF SecretChanges
  <2>1. ConnectTypes'
    BY DEF ConnectTypes
  <2>. QED  BY <2>1 DEF LoopInv, ConnectedToAll, FailureHasReason
<1>7. CASE UNCHANGED vars
  BY <1>7 DEF vars, ConnectTypes, LoopInv, ConnectedToAll, FailureHasReason
<1>. QED  BY <1>1, <1>2, <1>3, <1>4, <1>5, <1>6, <1>7 DEF Next

\* ConnectInv holds in every reachable state of connect.
THEOREM ConnectInvariant == Spec => []ConnectInv
<1>1. ConnectInv /\ [Next]_vars => ConnectInv'
  BY ConnectInvStep
<1>. QED  BY ConnectInvInit, <1>1, PTL DEF Spec

-----------------------------------------------------------------------------
\* A login that failed can be told from vsphere_sync_errors, for any number
\* of vCenters that share its labels.
THEOREM FailureCorrect == Spec => []FailureHasReason
BY ConnectInvariant, PTL DEF ConnectInv

\* The checks run only with a session in every vCenter, and then none of them
\* is reported to reject its credentials.
THEOREM ConnectedCorrect == Spec => []ConnectedToAll
BY ConnectInvariant, PTL DEF ConnectInv

\* A session is left behind without a call of Logout only by a round that
\* failed at one of several vCenters after it logged in to another.
THEOREM DroppedCorrect == Spec => DroppedOnlyByLaterFailure
<1>. DEFINE Allowed == dropped' # dropped =>
                         /\ last' \in {"noCredentials", "noClient"}
                         /\ Cardinality(VCenter) > 1
                         /\ left # {}
<1>1. ASSUME ConnectInv, [Next]_vars, dropped' # dropped
      PROVE  /\ last' \in {"noCredentials", "noClient"}
             /\ Cardinality(VCenter) > 1
             /\ left # {}
  <2>1. PICK v \in VCenter : getCredentialsFails(v) \/ newClientFails(v)
    BY <1>1 DEF Next, vars, ConnectInv, LoopInv, ConfigRead, ConfigFails,
                ReturnError, Connected, Logout, newClient, SecretChanges
  <2>2. /\ pc = "connecting" /\ left # {}
        /\ last' \in {"noCredentials", "noClient"}
        /\ dropped' = dropped \cup open
    BY <2>1 DEF getCredentialsFails, newClientFails, ReturnError
  <2>3. open # {}
    BY <1>1, <2>2
  <2>. QED  BY <1>1, <2>2, <2>3, LaterFailure
<1>2. ConnectInv /\ [Next]_vars => [Allowed]_vars
  BY <1>1
<1>. QED  BY <1>2, ConnectInvariant, PTL DEF Spec, DroppedOnlyByLaterFailure

=============================================================================

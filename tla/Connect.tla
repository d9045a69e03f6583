------------------------------- MODULE Connect -------------------------------
(***************************************************************************)
(* vSphereChecker.connect and newClient of pkg/operator/vsphere_check.go:  *)
(* every round logs in to all vCenters of the cloud config, one after the  *)
(* other, with credentials from a secret that may change at any time; the  *)
(* reasons of failures are kept in the gauge vsphere_sync_errors, which    *)
(* has no label for the vCenter.  At the end of a round that got past      *)
(* connect the sessions are logged out; a failing Logout is only logged.   *)
(* Sessions are those of the SOAP API.  (newClient opens one of the REST   *)
(* API too, which no code ever logs out.)                                  *)
(***************************************************************************)
EXTENDS Integers, FiniteSets

CONSTANT VCenter   \* the vCenters of the cloud config

ASSUME VCenterAssumption == VCenter # {} /\ IsFiniteSet(VCenter)

\* What the secret holds for a vCenter.  A new line makes the login fail; a
\* user name without domain does not.
Credential == {"good", "noDomain", "newLineInUser", "newLineInPassword",
               "wrong", "missing"}
Accepted == {"good", "noDomain"}

Reason == {"UsernameWithNewLine", "PasswordWithNewLine",
           "InvalidCredentials", "UsernameWithoutDomain"}

VARIABLES
  secret,     \* credential of each vCenter
  pc,         \* "idle", "connecting" or "connected"
  left,       \* vCenters the loop has still to visit
  open,       \* vCenters with a session known to the round
  dropped,    \* vCenters with a session that was forgotten: no Logout was
              \* called, and none will be
  unclosed,   \* vCenters with a session whose Logout failed
  gauge,      \* vsphere_sync_errors by reason
  last        \* how the last call of connect ended

vars == <<secret, pc, left, open, dropped, unclosed, gauge, last>>

Init ==
  /\ secret \in [VCenter -> Credential]
  /\ pc = "idle"
  /\ left = {}
  /\ open = {}
  /\ dropped = {}
  /\ unclosed = {}
  /\ gauge = [r \in Reason |-> "unset"]
  /\ last = "none"

\* connect returns an error.  The sessions opened so far are in a local map
\* that is forgotten: the deferred Logout of runChecks is not reached.
ReturnError(why) ==
  /\ pc' = "idle"
  /\ left' = {}
  /\ dropped' = dropped \cup open
  /\ open' = {}
  /\ last' = why

\* getVSphereConfig and parseConfig succeed; the loop over the map of
\* vCenters, in any order, begins.
ConfigRead ==
  /\ pc = "idle"
  /\ pc' = "connecting"
  /\ left' = VCenter
  /\ UNCHANGED <<secret, open, dropped, unclosed, gauge, last>>

\* getVSphereConfig or parseConfig fails.
ConfigFails ==
  /\ pc = "idle"
  /\ ReturnError("noConfig")
  /\ UNCHANGED <<secret, unclosed, gauge>>

getCredentialsFails(v) ==
  /\ pc = "connecting"
  /\ v \in left
  /\ secret[v] = "missing"
  /\ ReturnError("noCredentials")
  /\ UNCHANGED <<secret, unclosed, gauge>>

\* Mutant: the gauge for a new line in the password is not set.
MutantNoPasswordReason(c) ==
  LET user == [gauge EXCEPT !["UsernameWithNewLine"] = "0"]
      password == [user EXCEPT !["PasswordWithNewLine"] = "0"]
  IN  CASE c = "newLineInUser" ->
             [gauge EXCEPT !["UsernameWithNewLine"] = "1"]
        [] c = "newLineInPassword" -> user
        [] OTHER -> [password EXCEPT !["InvalidCredentials"] = "1"]

\* The gauges after newClient failed: a new line is looked for first in the
\* user name, then in the password.
GaugeAfterFailure(c) ==
  LET user == [gauge EXCEPT !["UsernameWithNewLine"] = "0"]
      password == [user EXCEPT !["PasswordWithNewLine"] = "0"]
  IN  CASE c = "newLineInUser" ->
             [gauge EXCEPT !["UsernameWithNewLine"] = "1"]
        [] c = "newLineInPassword" ->
             [user EXCEPT !["PasswordWithNewLine"] = "1"]
        [] OTHER -> [password EXCEPT !["InvalidCredentials"] = "1"]

\* Mutant: the loop continues with the next vCenter.
MutantSkipVCenter(v) ==
  /\ pc = "connecting"
  /\ v \in left
  /\ secret[v] # "missing"
  /\ gauge' = GaugeAfterFailure(secret[v])
  /\ left' = left \ {v}
  /\ UNCHANGED <<secret, pc, open, dropped, unclosed, last>>

\* newClient fails: vCenter is unreachable, or one of the two logins fails.
\* When the REST login fails newClient logs the SOAP session out itself, and
\* ignores an error of that Logout.
newClientFails(v) ==
  /\ pc = "connecting"
  /\ v \in left
  /\ secret[v] # "missing"
  /\ gauge' = GaugeAfterFailure(secret[v])
  /\ ReturnError("noClient")
  /\ \/ unclosed' = unclosed
     \/ secret[v] \in Accepted /\ unclosed' = unclosed \cup {v}
  /\ UNCHANGED secret

GaugeAfterSuccess(c) ==
  [gauge EXCEPT !["InvalidCredentials"] = "0",
                !["UsernameWithoutDomain"] = IF c = "noDomain" THEN "1" ELSE "0"]

newClient(v) ==
  /\ pc = "connecting"
  /\ v \in left
  /\ secret[v] \in Accepted
  /\ gauge' = GaugeAfterSuccess(secret[v])
  /\ open' = open \cup {v}
  /\ left' = left \ {v}
  /\ UNCHANGED <<secret, pc, dropped, unclosed, last>>

Connected ==
  /\ pc = "connecting"
  /\ left = {}
  /\ pc' = "connected"
  /\ last' = "ok"
  /\ UNCHANGED <<secret, left, open, dropped, unclosed, gauge>>

\* Mutant: the round ends without Logout.
MutantNoLogout ==
  /\ pc = "connected"
  /\ pc' = "idle"
  /\ dropped' = dropped \cup open
  /\ open' = {}
  /\ UNCHANGED <<secret, left, unclosed, gauge, last>>

\* The round returns, one way or another: Logout of every vCenter of the
\* check context.  Any of them may fail, which is logged and ends nothing.
Logout ==
  /\ pc = "connected"
  /\ pc' = "idle"
  /\ open' = {}
  /\ unclosed' \in {unclosed \cup failed : failed \in SUBSET open}
  /\ UNCHANGED <<secret, left, dropped, gauge, last>>

\* The administrator, or the credentials operator, changes the secret.
SecretChanges(v) ==
  /\ secret' \in {[secret EXCEPT ![v] = c] : c \in Credential \ {secret[v]}}
  /\ UNCHANGED <<pc, left, open, dropped, unclosed, gauge, last>>

Next ==
  \/ ConfigRead \/ ConfigFails \/ Connected \/ Logout
  \/ \E v \in VCenter : \/ getCredentialsFails(v) \/ newClientFails(v)
                        \/ newClient(v) \/ SecretChanges(v)

Spec == Init /\ [][Next]_vars

-----------------------------------------------------------------------------
(* Properties.                                                             *)

\* A login that failed can be told from the gauge: at least one of the three
\* reasons for it is 1 until a later round gets somewhere else.
FailureHasReason ==
  pc = "idle" /\ last = "noClient" =>
    \E r \in Reason \ {"UsernameWithoutDomain"} : gauge[r] = "1"

\* The checks only run when every vCenter of the config has a session, and
\* then no vCenter is reported to reject its credentials, although the one
\* gauge is written for each vCenter in turn.
ConnectedToAll ==
  pc = "connected" => open = VCenter /\ gauge["InvalidCredentials"] = "0"

\* With a single vCenter no session is ever forgotten; with several, only by a
\* round that failed at one vCenter after it logged in to another.  Every
\* other session a living process leaves behind is one whose Logout was called
\* and failed.
DroppedOnlyByLaterFailure ==
  [][dropped' # dropped =>
       /\ last' \in {"noCredentials", "noClient"}
       /\ Cardinality(VCenter) > 1
       /\ left # {}]_vars

=============================================================================

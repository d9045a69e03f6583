\* Two vCenters, each with every kind of credential.
CONSTANT VCenter = {vc1, vc2}
SPECIFICATION Spec
INVARIANTS
  FailureHasReason
  ConnectedToAll
PROPERTY DroppedOnlyByLaterFailure

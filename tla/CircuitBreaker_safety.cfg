SPECIFICATION Spec
CONSTANTS
  Gated = {q1, q2, q3}
  Learning = {q1, q2, q3}
  Bypass = {q1, q2, q3}
  Threshold = 2
  Cooldown = 1
  MaxFailures = 3
  CtxMayEnd = TRUE
SYMMETRY Symmetry
INVARIANTS TypeOK FailuresBounded ClosedBelowThreshold OneProbePerTrip

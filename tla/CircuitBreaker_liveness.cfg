SPECIFICATION FairSpec
CONSTANTS
  Gated = {g1}
  Learning = {q1}
  Bypass = {q1}
  Threshold = 2
  Cooldown = 1
  MaxFailures = 3
  CtxMayEnd = FALSE
INVARIANT HalfOpenHasProbe
PROPERTIES HalfOpenIsDecided RecoversWithUpstream

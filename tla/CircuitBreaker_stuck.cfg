SPECIFICATION FairSpec
CONSTANTS
  Gated = {g1}
  Learning = {}
  Bypass = {}
  Threshold = 1
  Cooldown = 1
  MaxFailures = 1
  CtxMayEnd = TRUE
PROPERTY HalfOpenIsDecided

SPECIFICATION Spec
CONSTANTS
  Clients = {c1, c2}
  Handlers = {h1, h2}
  GlobalRPS = 3
  MaxRPS = 2
  Ticks = 2
  None = None
INVARIANTS TypeOK BurstBounded LessThanTwiceTheRate

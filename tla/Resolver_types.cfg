SPECIFICATION Spec
CONSTANTS
  Requests = {"r1", "r2"}
  Names = {"site"}
  Types = {"TYPE65280", "TYPE65281"}
  UnknownTypes = {"TYPE65280", "TYPE65281"}
  Classes = {"IN"}
  Suffixes <- NameSuffixes
  IranTLDs = {}
  PreferIran = {}
  StaticRecords = {}
  InitialStores <- Stores
  Arrivals <- AnyTwo
  None = None
  IpSets <- SomeIpSets
INVARIANT AnswersOwnQuestion
CHECK_DEADLOCK FALSE

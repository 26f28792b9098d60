SPECIFICATION FairSpec
CONSTANTS
  Requests = {"r1", "r2"}
  Names = {"ir", "preferred", "pinned", "site", "cdn.site"}
  Types = {"A", "MX", "TYPE65280", "TYPE65281"}
  UnknownTypes = {"TYPE65280", "TYPE65281"}
  Classes = {"IN", "CH"}
  Suffixes <- NameSuffixes
  IranTLDs = {"ir"}
  PreferIran = {"preferred"}
  StaticRecords = {"pinned"}
  InitialStores <- Stores
  Arrivals <- TwoRequests
  None = None
  IpSets <- SomeIpSets
INVARIANTS TypeOK CleanAnswers AnswersNameAndType OneResolutionPerQuestion FollowersHaveLeader
PROPERTY EveryRequestIsAnswered
CHECK_DEADLOCK FALSE

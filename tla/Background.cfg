SPECIFICATION FairSpec
CONSTANTS
  Nobody = Nobody
  Learners = {l1, l2}
  SaveEvery = 2
  MaxTotal = 3
  Before = 1
  LastDay = 2
  Lists = {first, second, short, unusable}
  Short = {short}
  Unusable = {unusable}
  FirstList = first
  NoList = NoList
  Names = {"a", "b", "c"}
  Workers = {"w1", "w2"}
  NoName = NoName
  Loads <- FullOrShared
  Workloads <- SomeWorkloads
INVARIANTS TypeOK NoLostUpdate ExitSavesTotal LearnedTodayIsRight SuccessMeansLoaded SenderIsServed
PROPERTIES GoodListArrives CleanupImplements

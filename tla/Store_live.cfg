SPECIFICATION FairSpec
CONSTANTS
  Domains = {a, b}
  Learners = {l1}
  Timers = {t1}
  Junk = Junk
  NoTail = NoTail
  Cleaner = Cleaner
  Flusher = Flusher
  None = None
  Operations = {"add", "cleanup", "stop"}
  InitialFiles <- EmptyFile
INVARIANT NoLostLearning
PROPERTY LearnedReachesFile

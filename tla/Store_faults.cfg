SPECIFICATION Spec
CONSTANTS
  Domains = {a, b}
  Learners = {l1}
  Timers = {t1}
  Junk = Junk
  NoTail = NoTail
  Cleaner = Cleaner
  Flusher = Flusher
  None = None
  Operations = {"add", "remove", "diskError", "crash"}
  InitialFiles <- AnyFile
SYMMETRY Symmetry
INVARIANTS TypeOK NoLostLearning

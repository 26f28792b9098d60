CONSTANT IpSets <- AllIpSets
SPECIFICATION FairSpec
INVARIANTS TypeOK LearnsWhatItSaw GlobalAnswerIsUsed
PROPERTIES Implements NoGoroutineLeak
CHECK_DEADLOCK FALSE

---------------------------- MODULE StoreProofs ----------------------------
(***************************************************************************)
(* NoLostLearning, for any sets of names, request goroutines and timer     *)
(* callbacks, with or without write errors, crashes and restarts.          *)
(***************************************************************************)
EXTENDS Store, TLAPS

(* ioMu protects what it is meant to protect. *)
Locking ==
  /\ \A w \in Writers : wpc[w] \in {"snapshot", "rename"} => ioMu = w
  /\ fpc = "append" => ioMu = Flusher /\ ~batchStale

(* flushPersist starts with nothing drained. *)
NothingDrained == fpc = "idle" => batch = {}

(* The cleanup calls writeAll in one place only. *)
CleanerWaits == cpc # "write" => wpc[Cleaner] = "idle"

(* An incomplete last line is remembered as damage. *)
TailIsDamage == tail # NoTail => diskError

(* What was learned after the snapshot of a rewrite under way is buffered  *)
(* in the generation of that rewrite, so that it survives the rename and   *)
(* is flushed after it.                                                    *)
NewerThanSnapshotIsBuffered ==
  \A w \in Writers : wpc[w] = "rename" =>
    \A d \in domains \ snap[w] : Buffered(d)

(* A file that grows by lines holds no others than names. *)
LEMMA AppendedType ==
  ASSUME TypeOK, NEW names \in SUBSET Names, NEW lines \in Appended(names)
  PROVE  lines \subseteq Names
BY DEF TypeOK, Appended, Names

(* The locals of the goroutines are well typed after a restart. *)
LEMMA RestartType ==
  ASSUME TypeOK, file' \subseteq Names, tail' \in Names \cup {NoTail}, Restart
  PROVE  TypeOK'
<1>1. Lines' \subseteq Names
  BY DEF Lines
<1>2. Junk \in Names
  BY DEF Names
<1> QED
  BY <1>1, <1>2 DEF Restart, StartFrom, TypeOK

(* A write cut short leaves names and at most one piece of a line. *)
LEMMA CutShortType ==
  ASSUME TypeOK, NEW names \in SUBSET Names, CutShort(names)
  PROVE  file' \subseteq Names /\ tail' \in Names \cup {NoTail}
<1>1. PICK written \in SUBSET names :
        /\ \E cut \in SUBSET {Junk} :
             \E lines \in Appended(written) : file' = lines \cup cut
        /\ \/ tail' = TailAfter(written)
           \/ /\ names # written
              /\ tail' \in IF TailAfter(written) = NoTail
                           THEN (names \ written) \cup {Junk}
                           ELSE {Junk}
  BY DEF CutShort
<1>2. Junk \in Names
  BY DEF Names
<1>3. file' \subseteq Names
  BY <1>1, <1>2, AppendedType
<1>4. tail' \in Names \cup {NoTail}
  BY <1>1, <1>2 DEF TailAfter, TypeOK
<1> QED
  BY <1>3, <1>4

(* Steps of request goroutines keep the types. *)
LEMMA LearnType == TypeOK /\ Learn => TypeOK'
<1> SUFFICES ASSUME TypeOK, Learn PROVE TypeOK'
  OBVIOUS
<1>0. Junk \in Names /\ Domains \subseteq Names
  BY DEF Names
<1> USE DEF TypeOK, bufVars, flushVars, diskVars, writeVars, cleanVars, learnVars
<1>1. ASSUME NEW l \in Learners, NEW d \in Domains, Add(l, d) PROVE TypeOK'
  BY <1>0, <1>1 DEF Add
<1>2. ASSUME NEW l \in Learners, NEW d \in Names, Remove(l, d) PROVE TypeOK'
  BY <1>2 DEF Remove
<1>3. ASSUME NEW l \in Learners, Persist(l) PROVE TypeOK'
  <2>1. lpc' \in [Learners -> {"idle", "persist", "schedule"}]
    BY <1>3 DEF Persist
  <2>2. larg' \in [Learners -> Names]
    BY <1>0, <1>3 DEF Persist
  <2>3. buf' \subseteq Names
    BY <1>3 DEF Persist
  <2> QED
    BY <1>3, <2>1, <2>2, <2>3, ZenonT(60) DEF Persist
<1>4. ASSUME NEW l \in Learners, ScheduleRewrite(l) PROVE TypeOK'
  BY <1>4 DEF ScheduleRewrite
<1> QED
  BY <1>1, <1>2, <1>3, <1>4 DEF Learn

(* Steps of rewrites keep the types. *)
LEMMA WriteType ==
  ASSUME TypeOK, NEW w \in Writers, TimerFires(w) \/ WriteAll(w) PROVE TypeOK'
<1> USE DEF TypeOK, bufVars, flushVars, diskVars, writeVars, cleanVars, learnVars
<1>1. CASE TimerFires(w)
  <2>1. wpc' \in [Writers -> {"idle", "begin", "snapshot", "rename", "done"}]
    BY <1>1 DEF TimerFires
  <2> QED
    BY <1>1, <2>1, ZenonT(60) DEF TimerFires
<1>2. CASE WriteBegin(w)
  BY <1>2 DEF WriteBegin
<1>3. CASE WriteSnapshot(w)
  BY <1>3 DEF WriteSnapshot
<1>4. CASE WriteRename(w)
  BY <1>4 DEF WriteRename, WriteReturns
<1>5. CASE WriteFails(w)
  BY <1>5 DEF WriteFails, WriteReturns
<1> QED
  BY <1>1, <1>2, <1>3, <1>4, <1>5 DEF WriteAll

(* Steps of the flusher keep the types. *)
LEMMA FlushType == TypeOK /\ Flush => TypeOK'
<1> SUFFICES ASSUME TypeOK, Flush PROVE TypeOK'
  OBVIOUS
<1>1. batch \in SUBSET Names
  BY DEF TypeOK
<1> USE DEF bufVars, flushVars, diskVars, writeVars, cleanVars, learnVars
<1>2. CASE FlushDrain
  BY <1>2 DEF FlushDrain, TypeOK
<1>3. CASE FlushSkip \/ FlushOpen \/ FlushOpenFails
  BY <1>3 DEF FlushSkip, FlushOpen, FlushOpenFails, FlushReturns, TypeOK
<1>4. CASE FlushAppend
  <2>1. file' \subseteq Names
    BY <1>1, <1>4, AppendedType DEF FlushAppend
  <2>2. tail' \in Names \cup {NoTail}
    BY <1>4 DEF FlushAppend, TailAfter, TypeOK
  <2> QED
    BY <1>4, <2>1, <2>2 DEF FlushAppend, FlushReturns, TypeOK
<1>5. CASE FlushWriteFails
  <2>1. file' \subseteq Names /\ tail' \in Names \cup {NoTail}
    BY <1>1, <1>5, CutShortType DEF FlushWriteFails
  <2> QED
    BY <1>5, <2>1 DEF FlushWriteFails, FlushReturns, TypeOK
<1> QED
  BY <1>2, <1>3, <1>4, <1>5 DEF Flush

(* Steps of the cleanup keep the types. *)
LEMMA CleanupType == TypeOK /\ Cleanup => TypeOK'
<1> SUFFICES ASSUME TypeOK, Cleanup PROVE TypeOK'
  OBVIOUS
<1>0. Cleaner \in Writers
  BY DEF Writers
<1> USE DEF TypeOK, bufVars, flushVars, diskVars, writeVars, cleanVars, learnVars
<1>1. CASE CleanupStart \/ CleanupInterrupted
  BY <1>1 DEF CleanupStart, CleanupInterrupted
<1>2. CASE CleanupValidated
  BY <1>2 DEF CleanupValidated
<1>3. CASE CleanupDelete
  BY <1>0, <1>3 DEF CleanupDelete
<1>4. CASE CleanupCancelRewrite
  BY <1>0, <1>4 DEF CleanupCancelRewrite
<1> QED
  BY <1>1, <1>2, <1>3, <1>4 DEF Cleanup

(* Stopping, dying and starting again keep the types. *)
LEMMA RestartsType == TypeOK /\ (Stop \/ Exit \/ Crash) => TypeOK'
<1> SUFFICES ASSUME TypeOK, Stop \/ Exit \/ Crash PROVE TypeOK'
  OBVIOUS
<1>1. batch \in SUBSET Names
  BY DEF TypeOK
<1>2. CASE Stop
  BY <1>2 DEF Stop, TypeOK, bufVars, flushVars, diskVars, writeVars, cleanVars,
              learnVars
<1>3. CASE Exit
  <2>1. PICK written \in SUBSET (IF fpc = "append" THEN batch ELSE {}) :
          file' \in Appended(written) /\ tail' = TailAfter(written)
    BY <1>3 DEF Exit
  <2>2. written \in SUBSET Names
    BY <1>1, <2>1
  <2>3. file' \subseteq Names
    BY <2>1, <2>2, AppendedType
  <2>4. tail' \in Names \cup {NoTail}
    BY <2>1 DEF TailAfter, TypeOK
  <2> QED
    BY <1>3, <2>3, <2>4, RestartType DEF Exit
<1>4. CASE Crash
  <2>1. file' \subseteq Names /\ tail' \in Names \cup {NoTail}
    BY <1>1, <1>4, CutShortType DEF Crash, TypeOK
  <2> QED
    BY <1>4, <2>1, RestartType DEF Crash
<1> QED
  BY <1>2, <1>3, <1>4

(* Every step keeps the types. *)
LEMMA NextType == TypeOK /\ [Next]_vars => TypeOK'
<1> SUFFICES ASSUME TypeOK, [Next]_vars PROVE TypeOK'
  OBVIOUS
<1>1. CASE UNCHANGED vars
  BY <1>1 DEF vars, TypeOK
<1>2. Timers \subseteq Writers
  BY DEF Writers
<1> QED
  BY <1>1, <1>2, LearnType, WriteType, FlushType, CleanupType, RestartsType
     DEF Next

(* New establishes the types. *)
LEMMA InitType == Init => TypeOK
BY NamesAssumption DEF Init, TypeOK, Names

(* The store is well typed in every reachable state; in particular what is *)
(* loaded from the file after a crash are lines (load, flushPersist,       *)
(* writeAll).                                                              *)
THEOREM TypeCorrect == Spec => []TypeOK
BY InitType, NextType, PTL DEF Spec

-----------------------------------------------------------------------------
(* The part of the invariant beyond types. *)
Core ==
  /\ Locking
  /\ NothingDrained
  /\ TailIsDamage
  /\ CleanerWaits
  /\ NewerThanSnapshotIsBuffered
  /\ NoLostLearning

(* Steps of request goroutines keep the invariant. *)
LEMMA LearnCore ==
  ASSUME TypeOK, Core, Learn PROVE Core'
<1> USE DEF Core, Locking, NothingDrained, TailIsDamage, CleanerWaits, flushVars,
            diskVars, writeVars, bufVars, cleanVars, learnVars, TypeOK
<1>1. ASSUME NEW l \in Learners, NEW d \in Domains, Add(l, d) PROVE Core'
  <2>1. \A e \in Names : Buffered(e) => Buffered(e)'
    BY <1>1 DEF Add, Buffered
  <2>2. Buffered(d)'
    BY <1>1 DEF Add, Buffered
  <2>3. \A e \in Names : Kept(e)' <=> Kept(e)
    BY <1>1 DEF Add, Kept, Lines
  <2>4. \A e \in Names : BeingWritten(e)' <=> BeingWritten(e)
    BY <1>1 DEF Add, BeingWritten
  <2>5. NewerThanSnapshotIsBuffered'
    BY <1>1, <2>1, <2>2 DEF Add, NewerThanSnapshotIsBuffered
  <2>6. NoLostLearning'
    BY <1>1, <2>1, <2>2, <2>3, <2>4 DEF Add, NoLostLearning
  <2> QED
    BY <1>1, <2>5, <2>6 DEF Add
<1>2. ASSUME NEW l \in Learners, NEW d \in Names, Remove(l, d) PROVE Core'
  <2>1. \A e \in Names : Buffered(e) => Buffered(e)'
    BY <1>2 DEF Remove, Buffered
  <2>2. \A e \in Names : Kept(e)' <=> Kept(e)
    BY <1>2 DEF Remove, Kept, Lines
  <2>3. \A e \in Names : BeingWritten(e)' <=> BeingWritten(e)
    BY <1>2 DEF Remove, BeingWritten
  <2>4. NewerThanSnapshotIsBuffered'
    BY <1>2, <2>1 DEF Remove, NewerThanSnapshotIsBuffered
  <2>5. NoLostLearning'
    BY <1>2, <2>1, <2>2, <2>3 DEF Remove, NoLostLearning
  <2> QED
    BY <1>2, <2>4, <2>5 DEF Remove
<1>3. ASSUME NEW l \in Learners, Persist(l) \/ ScheduleRewrite(l) PROVE Core'
  <2>1. \A e \in Names : Buffered(e) => Buffered(e)'
    BY <1>3 DEF Persist, ScheduleRewrite, Buffered
  <2>2. \A e \in Names : Kept(e)' <=> Kept(e)
    BY <1>3 DEF Persist, ScheduleRewrite, Kept, Lines
  <2>3. \A e \in Names : BeingWritten(e)' <=> BeingWritten(e)
    BY <1>3 DEF Persist, ScheduleRewrite, BeingWritten
  <2>4. NewerThanSnapshotIsBuffered'
    BY <1>3, <2>1 DEF Persist, ScheduleRewrite, NewerThanSnapshotIsBuffered
  <2>5. NoLostLearning'
    BY <1>3, <2>1, <2>2, <2>3, ZenonT(60) DEF Persist, ScheduleRewrite, NoLostLearning
  <2> QED
    BY <1>3, <2>4, <2>5 DEF Persist, ScheduleRewrite
<1> QED
  BY <1>1, <1>2, <1>3 DEF Learn

(* Steps of rewrites keep the invariant: starting one makes the buffers    *)
(* stale and covers everything, the snapshot holds all that is in memory,  *)
(* the rename puts it in the file.                                         *)
LEMMA WriteCore ==
  ASSUME TypeOK, Core, NEW w \in Writers,
         (w \in Timers /\ TimerFires(w)) \/ WriteAll(w)
  PROVE  Core'
<1> USE GoroutinesAssumption
    DEF Core, Locking, NothingDrained, TailIsDamage, CleanerWaits, flushVars,
        diskVars, writeVars, bufVars, cleanVars, learnVars, TypeOK
<1>1. CASE w \in Timers /\ TimerFires(w)
  <2>1. \A e \in Names : Buffered(e)' <=> Buffered(e)
    BY <1>1 DEF TimerFires, Buffered
  <2>2. \A e \in Names : (Kept(e)' <=> Kept(e)) /\ (BeingWritten(e)' <=> BeingWritten(e))
    BY <1>1 DEF TimerFires, Kept, Lines, BeingWritten
  <2>3. NewerThanSnapshotIsBuffered'
    BY <1>1, <2>1, ZenonT(60) DEF TimerFires, NewerThanSnapshotIsBuffered
  <2>4. NoLostLearning'
    BY <1>1, <2>1, <2>2 DEF TimerFires, NoLostLearning
  <2> QED
    BY <1>1, <2>3, <2>4 DEF TimerFires
<1>2. CASE WriteBegin(w)
  <2>1. Locking' /\ NothingDrained' /\ TailIsDamage' /\ CleanerWaits'
    BY <1>2 DEF WriteBegin
  <2>2. NewerThanSnapshotIsBuffered'
    BY <1>2 DEF WriteBegin, NewerThanSnapshotIsBuffered
  <2>3. \A e \in Names : BeingWritten(e)'
    BY <1>2 DEF WriteBegin, BeingWritten
  <2>4. NoLostLearning'
    BY <1>2, <2>3 DEF WriteBegin, NoLostLearning
  <2> QED
    BY <2>1, <2>2, <2>4
<1>3. CASE WriteSnapshot(w)
  <2>1. Locking' /\ NothingDrained' /\ TailIsDamage' /\ CleanerWaits'
    BY <1>3 DEF WriteSnapshot
  <2>2. \A v \in Writers : wpc'[v] = "rename" => v = w
    BY <1>3 DEF WriteSnapshot
  <2>3. wpc'[w] = "rename" /\ snap'[w] = domains /\ domains' = domains
    BY <1>3 DEF WriteSnapshot
  <2>4. NewerThanSnapshotIsBuffered'
    BY <2>2, <2>3 DEF NewerThanSnapshotIsBuffered
  <2>5. \A e \in domains : BeingWritten(e)'
    BY <2>3 DEF BeingWritten
  <2>6. NoLostLearning'
    BY <2>3, <2>5 DEF NoLostLearning
  <2> QED
    BY <2>1, <2>4, <2>6
<1>4. CASE WriteRename(w)
  <2>1. Locking' /\ NothingDrained' /\ TailIsDamage' /\ CleanerWaits'
    BY <1>4 DEF WriteRename, WriteReturns
  <2>2. \A v \in Writers : wpc'[v] # "rename"
    BY <1>4 DEF WriteRename, WriteReturns
  <2>3. \A e \in Names : Buffered(e)' <=> Buffered(e)
    BY <1>4 DEF WriteRename, Buffered
  <2>4. \A e \in domains \ snap[w] : Buffered(e)
    BY <1>4 DEF WriteRename, NewerThanSnapshotIsBuffered
  <2>5. \A e \in snap[w] : Kept(e)'
    BY <1>4, <2>2 DEF WriteRename, Kept, Lines
  <2>6. NewerThanSnapshotIsBuffered'
    BY <2>2 DEF NewerThanSnapshotIsBuffered
  <2>7. NoLostLearning'
    BY <1>4, <2>3, <2>4, <2>5 DEF WriteRename, NoLostLearning
  <2> QED
    BY <2>1, <2>6, <2>7
<1>5. CASE WriteFails(w)
  <2>1. Locking' /\ NothingDrained' /\ TailIsDamage' /\ CleanerWaits'
    BY <1>5, SMTT(30) DEF WriteFails, WriteReturns
  <2>2. \A v \in Writers : wpc'[v] # "rename"
    BY <1>5 DEF WriteFails, WriteReturns
  <2> QED
    BY <1>5, <2>1, <2>2
       DEF WriteFails, NewerThanSnapshotIsBuffered, NoLostLearning
<1> QED
  BY <1>1, <1>2, <1>3, <1>4, <1>5 DEF WriteAll

(* Steps of the flusher keep the invariant: a stale batch covers nothing,  *)
(* and a current one is appended while no rewrite is under way.            *)
LEMMA FlushCore ==
  ASSUME TypeOK, Core, Flush PROVE Core'
<1> USE GoroutinesAssumption
    DEF Core, Locking, NothingDrained, TailIsDamage, CleanerWaits, flushVars,
        diskVars, writeVars, bufVars, cleanVars, learnVars, TypeOK
<1>1. CASE FlushDrain
  <2>1. \A e \in Names : Buffered(e) => Buffered(e)'
    BY <1>1 DEF FlushDrain, Buffered
  <2>2. \A e \in Names : (Kept(e)' <=> Kept(e)) /\ (BeingWritten(e)' <=> BeingWritten(e))
    BY <1>1 DEF FlushDrain, Kept, Lines, BeingWritten
  <2>3. NewerThanSnapshotIsBuffered'
    BY <1>1, <2>1 DEF FlushDrain, NewerThanSnapshotIsBuffered
  <2>4. NoLostLearning'
    BY <1>1, <2>1, <2>2 DEF FlushDrain, NoLostLearning
  <2> QED
    BY <1>1, <2>3, <2>4 DEF FlushDrain
<1>2. CASE FlushSkip
  <2>1. \A e \in Names : Buffered(e) => Buffered(e)'
    BY <1>2 DEF FlushSkip, FlushReturns, Buffered
  <2>2. \A e \in Names : (Kept(e)' <=> Kept(e)) /\ (BeingWritten(e)' <=> BeingWritten(e))
    BY <1>2 DEF FlushSkip, Kept, Lines, BeingWritten
  <2>3. NewerThanSnapshotIsBuffered'
    BY <1>2, <2>1 DEF FlushSkip, NewerThanSnapshotIsBuffered
  <2>4. NoLostLearning'
    BY <1>2, <2>1, <2>2 DEF FlushSkip, NoLostLearning
  <2> QED
    BY <1>2, <2>3, <2>4 DEF FlushSkip, FlushReturns
<1>3. CASE FlushOpen
  <2>1. \A e \in Names : Buffered(e)' <=> Buffered(e)
    BY <1>3 DEF FlushOpen, Buffered
  <2>2. \A e \in Names : (Kept(e)' <=> Kept(e)) /\ (BeingWritten(e)' <=> BeingWritten(e))
    BY <1>3 DEF FlushOpen, Kept, Lines, BeingWritten
  <2>3. NewerThanSnapshotIsBuffered'
    BY <1>3, <2>1 DEF FlushOpen, NewerThanSnapshotIsBuffered
  <2>4. NoLostLearning'
    BY <1>3, <2>1, <2>2 DEF FlushOpen, NoLostLearning
  <2>5. Locking'
    BY <1>3 DEF FlushOpen
  <2> QED
    BY <1>3, <2>3, <2>4, <2>5 DEF FlushOpen
<1>4. CASE FlushOpenFails \/ FlushAppend \/ FlushWriteFails
  <2>1. \A v \in Writers : wpc'[v] \notin {"snapshot", "rename"}
    BY <1>4 DEF FlushOpenFails, FlushAppend, FlushWriteFails, Writers
  <2>2. Locking' /\ NothingDrained' /\ CleanerWaits'
    BY <1>4, <2>1 DEF FlushOpenFails, FlushAppend, FlushWriteFails, FlushReturns
  <2>3. NewerThanSnapshotIsBuffered'
    BY <2>1 DEF NewerThanSnapshotIsBuffered
  <2>4. CASE diskError'
    BY <2>2, <2>3, <2>4 DEF NoLostLearning
  <2>5. CASE ~diskError'
    <3>1. FlushAppend /\ ~diskError
      BY <1>4, <2>5 DEF FlushOpenFails, FlushAppend, FlushWriteFails
    <3>2. tail = NoTail /\ tail' = NoTail /\ file' = file \cup batch
      BY <3>1 DEF FlushAppend, Appended, TailAfter
    <3>3. \A e \in Names : Kept(e) \/ e \in batch => Kept(e)'
      BY <2>1, <3>2 DEF Kept, Lines
    <3>4. \A e \in Names : Buffered(e) => Buffered(e)' \/ e \in batch
      BY <3>1 DEF FlushAppend, Buffered
    <3>5. \A e \in Names : ~BeingWritten(e)
      BY <3>1 DEF FlushAppend, BeingWritten, Writers
    <3>6. NoLostLearning'
      BY <3>1, <3>3, <3>4, <3>5 DEF FlushAppend, NoLostLearning
    <3> QED
      BY <2>2, <2>3, <3>2, <3>6
  <2> QED
    BY <2>4, <2>5
<1> QED
  BY <1>1, <1>2, <1>3, <1>4 DEF Flush

(* Steps of the cleanup only forget names, or change nothing the invariant *)
(* speaks of.                                                              *)
LEMMA CleanupCore ==
  ASSUME TypeOK, Core, Cleanup \/ Stop PROVE Core'
<1> USE GoroutinesAssumption
    DEF Core, Locking, NothingDrained, TailIsDamage, CleanerWaits, flushVars,
        diskVars, writeVars, bufVars, cleanVars, learnVars, TypeOK
<1>1. UNCHANGED <<flushVars, bufVars, learnVars, diskVars, ioMu, snap>>
  BY DEF Cleanup, CleanupStart, CleanupValidated, CleanupInterrupted,
         CleanupDelete, CleanupCancelRewrite, Stop
<1>2. domains' \subseteq domains
  BY DEF Cleanup, CleanupStart, CleanupValidated, CleanupInterrupted,
         CleanupDelete, CleanupCancelRewrite, Stop
<1>3. \A w \in Writers : \/ wpc'[w] = wpc[w]
                         \/ /\ wpc'[w] \in {"idle", "begin"}
                            /\ wpc[w] \in {"idle", "done"}
  <2>1. CASE CleanupDelete
    BY <2>1 DEF CleanupDelete
  <2> QED
    BY <2>1 DEF Cleanup, CleanupStart, CleanupValidated, CleanupInterrupted,
           CleanupCancelRewrite, Stop
<1>4. \A e \in Names : Buffered(e)' <=> Buffered(e)
  BY <1>1 DEF Buffered
<1>5. \A e \in Names : (Kept(e)' <=> Kept(e)) /\ (BeingWritten(e)' <=> BeingWritten(e))
  BY <1>1, <1>3 DEF Kept, Lines, BeingWritten
<1>6. NewerThanSnapshotIsBuffered'
  BY <1>1, <1>2, <1>3, <1>4 DEF NewerThanSnapshotIsBuffered
<1>7. NoLostLearning'
  BY <1>1, <1>2, <1>4, <1>5 DEF NoLostLearning
<1>8. CleanerWaits'
  <2>1. Cleaner \in Writers
    BY DEF Writers
  <2> QED
    BY <2>1 DEF Cleanup, CleanupStart, CleanupValidated, CleanupInterrupted,
                CleanupDelete, CleanupCancelRewrite, Stop
<1> QED
  BY <1>1, <1>3, <1>6, <1>7, <1>8

(* A start establishes the invariant: memory is what the file holds. *)
LEMMA RestartCore ==
  ASSUME Exit \/ Crash PROVE Core'
<1>1. Restart
  BY DEF Exit, Crash
<1>2. \A w \in Writers : wpc'[w] = "idle"
  BY <1>1 DEF Restart, StartFrom
<1>3. Locking' /\ NothingDrained' /\ TailIsDamage' /\ CleanerWaits'
  BY <1>1, <1>2 DEF Restart, StartFrom, Locking, NothingDrained, TailIsDamage,
                   CleanerWaits, Writers
<1>4. NewerThanSnapshotIsBuffered'
  BY <1>2 DEF NewerThanSnapshotIsBuffered
<1>5. \A e \in domains' : Kept(e)'
  BY <1>1, <1>2 DEF Restart, StartFrom, Kept
<1> QED
  BY <1>3, <1>4, <1>5 DEF Core, NoLostLearning

(* New establishes the invariant: memory is what load read from the file. *)
LEMMA InitCore == Init => Core
<1> SUFFICES ASSUME Init PROVE Core
  OBVIOUS
<1>1. \A w \in Writers : wpc[w] = "idle"
  BY DEF Init
<1>2. /\ Locking /\ NothingDrained /\ TailIsDamage /\ CleanerWaits
      /\ NewerThanSnapshotIsBuffered
  BY <1>1 DEF Init, Locking, NothingDrained, TailIsDamage, CleanerWaits, Writers,
              NewerThanSnapshotIsBuffered
<1>3. \A e \in domains : Kept(e)
  BY <1>1 DEF Init, Kept, Lines
<1> QED
  BY <1>2, <1>3 DEF Core, NoLostLearning

(* Every step keeps the invariant. *)
LEMMA NextCore == TypeOK /\ Core /\ [Next]_vars => Core'
<1> SUFFICES ASSUME TypeOK, Core, [Next]_vars PROVE Core'
  OBVIOUS
<1>1. CASE UNCHANGED vars
  <2>1. Locking' /\ NothingDrained' /\ TailIsDamage' /\ CleanerWaits'
    BY <1>1 DEF vars, Core, Locking, NothingDrained, TailIsDamage, CleanerWaits
  <2>2. NewerThanSnapshotIsBuffered'
    BY <1>1 DEF vars, Core, NewerThanSnapshotIsBuffered, Buffered
  <2>3. NoLostLearning'
    BY <1>1 DEF vars, Core, NoLostLearning, Kept, Buffered, Lines, BeingWritten
  <2> QED
    BY <2>1, <2>2, <2>3 DEF Core
<1>2. Timers \subseteq Writers
  BY DEF Writers
<1> QED
  BY <1>1, <1>2, LearnCore, WriteCore, FlushCore, CleanupCore, RestartCore
     DEF Next

(* No learned name is lost, whatever the number of goroutines, names,      *)
(* rewrites and restarts.                                                  *)
THEOREM LearningIsKept == Spec => []NoLostLearning
<1>1. Init => TypeOK /\ Core
  BY InitType, InitCore
<1>2. TypeOK /\ Core /\ [Next]_vars => (TypeOK /\ Core)'
  BY NextType, NextCore
<1>3. Core => NoLostLearning
  BY DEF Core
<1> QED
  BY <1>1, <1>2, <1>3, PTL DEF Spec
=============================================================================

-------------------------- MODULE BackgroundProofs --------------------------
(***************************************************************************)
(* Proofs about the background goroutines for any number of them, any      *)
(* workloads and any names and lists.  The pool of the cleanup implements  *)
(* the safety part of CleanupSpec, alone and in the composed system; no    *)
(* writer of the state file overwrites what another has saved; and an      *)
(* update that is recorded as a success has been loaded.                   *)
(***************************************************************************)
EXTENDS Background, TLAPS

(* Most leaves are first-order; the others name SMT. *)
USE Zenon

-----------------------------------------------------------------------------
(* The pool of the cleanup *)

(* No cleanup is at work. *)
AtRest ==
  /\ names = {} /\ gone = {} /\ crew = {}
  /\ todo = {} /\ work = {} /\ closed = FALSE
  /\ wpc = [w \in Workers |-> "exited"]
  /\ toRemove = {}

(* Where the cleanup goroutine is decides what the rest may look like. *)
Phases ==
  /\ cpc \in {"idle", "health", "probe", "backoff", "snapshot", "ended"} => AtRest
  /\ cpc \in {"send", "drain", "abort"} => crew # {} /\ (closed <=> cpc # "send")
  /\ cpc \in {"drain", "finished", "saving"} => todo = {}
  /\ cpc \in {"abort", "interrupted"} => stopCleanup
  /\ cpc \in {"finished", "saving", "interrupted"} => \A w \in Workers : wpc[w] = "exited"
  /\ stopCleanup => rStopped

(* What the workers hold is a name of the cleanup, and what they are about *)
(* to remove, or have removed, is gone.                                    *)
Hands ==
  /\ toRemove \subseteq gone
  /\ \A w \in Workers :
       /\ wpc[w] # "exited" => w \in crew
       /\ wpc[w] \in Busy => hand[w] \in names
       /\ wpc[w] = "append" => hand[w] \in gone

(* The denied names that have not been judged yet *)
Pending(d) ==
  \/ d \in todo
  \/ d \in work
  \/ \E w \in Workers : wpc[w] \in Busy /\ hand[w] = d

(* Until the shutdown, no denied name is lost; and until the store is told *)
(* of it, a worker returns only when there are no more names.              *)
Conserved ==
  /\ ~rStopped => \A d \in gone : Pending(d) \/ d \in toRemove
  /\ ~stopCleanup => \A w \in crew : wpc[w] = "exited" => closed /\ work = {}

(* The refinement is not inductive without these: when the workers are     *)
(* done, what is removed is what is gone only because no name went astray. *)
PoolInv == PoolTypeOK /\ Phases /\ Hands /\ Conserved

-----------------------------------------------------------------------------
(* The initial state, and one that a restart leaves, has the invariant. *)
LEMMA AtRestInv ==
  ASSUME cpc = "idle", AtRest, hand = [w \in Workers |-> NoName],
         rStopped = FALSE, stopCleanup = FALSE
  PROVE  PoolInv
  BY DEF AtRest, PoolInv, PoolTypeOK, Phases, Hands, Conserved, Busy

(* Every step of the cleanup goroutine keeps it. *)
LEMMA CleanupKeepsInv ==
  ASSUME PoolInv, Cleanup \/ SaveTime \/ CleanupReturns
  PROVE  PoolInv'
<1> USE DEF PoolInv, PoolTypeOK, Phases, Hands, Conserved, Pending, AtRest, Busy, CGoto,
            loadVars, chanVars, workerVars, stopVars
<1>1. CASE TimerFires \/ HealthBegins \/ HealthPasses \/ HealthFails \/ BackoffOver
  BY <1>1, SMT DEF TimerFires, HealthBegins, HealthPasses, HealthFails, BackoffOver
<1>2. CASE CleanupEnds \/ BackoffStopped
  BY <1>2 DEF CleanupEnds, BackoffStopped
<1>3. CASE Snapshot
  BY <1>3, LoadsAssumption, SMT DEF Snapshot
<1>4. ASSUME NEW d \in Names, SendWork(d)
      PROVE  PoolInv'
  BY <1>4 DEF SendWork
<1>5. CASE SendStopped
  BY <1>5 DEF SendStopped
<1>6. CASE AllSent
  BY <1>6 DEF AllSent
<1>7. CASE WorkersDone
  BY <1>7 DEF WorkersDone
<1>8. CASE SaveTime
  BY <1>8 DEF SaveTime
<1>9. CASE CleanupReturns
  BY <1>9 DEF CleanupReturns, ForgetCleanup
<1> QED
  BY <1>1, <1>2, <1>3, <1>4, <1>5, <1>6, <1>7, <1>8, <1>9 DEF Cleanup

(* Every step of a worker keeps it. *)
LEMMA WorkerKeepsInv ==
  ASSUME PoolInv, NEW w \in Workers, Worker(w)
  PROVE  PoolInv'
<1> USE DEF PoolInv, PoolTypeOK, Phases, Hands, Conserved, Pending, AtRest, Busy, WGoto,
            loadVars, chanVars, stopVars
<1>1. ASSUME NEW d \in Names, Receive(w, d)
      PROVE  PoolInv'
  BY <1>1 DEF Receive
<1>2. CASE ChannelClosed(w)
  BY <1>2 DEF ChannelClosed
<1>3. CASE CheckStop(w)
  BY <1>3 DEF CheckStop
<1>4. CASE Validate(w) \/ ValidateExchange(w)
  BY <1>4, SMT DEF Validate, ValidateExchange
<1>5. CASE AppendInvalid(w)
  BY <1>5 DEF AppendInvalid
<1> QED
  BY <1>1, <1>2, <1>3, <1>4, <1>5 DEF Worker

(* The invariant holds in every state of the pool. *)
THEOREM PoolInvariant == PoolSpec => []PoolInv
<1>1. PoolInit => PoolInv
  BY AtRestInv DEF PoolInit, AtRest
<1>2. PoolInv /\ [PoolNext]_poolVars => PoolInv'
  <2> SUFFICES ASSUME PoolInv, [PoolNext]_poolVars PROVE PoolInv'
    OBVIOUS
  <2>1. CASE StopResolver
    BY <2>1 DEF StopResolver, PoolInv, PoolTypeOK, Phases, Hands, Conserved, AtRest,
                loadVars, chanVars, workerVars
  <2>2. CASE StopStore
    BY <2>2 DEF StopStore, PoolInv, PoolTypeOK, Phases, Hands, Conserved, AtRest,
                loadVars, chanVars, workerVars
  <2>3. CASE PoolRestarts
    BY <2>3 DEF PoolRestarts, ForgetCleanup, CGoto, PoolInv, PoolTypeOK, Phases, Hands,
                Conserved, AtRest, Busy
  <2>4. CASE UNCHANGED poolVars
    BY <2>4 DEF poolVars, loadVars, chanVars, workerVars, stopVars, PoolInv, PoolTypeOK,
                Phases, Hands, Conserved, Pending, AtRest
  <2> QED
    BY <2>1, <2>2, <2>3, <2>4, CleanupKeepsInv, WorkerKeepsInv DEF PoolNext
<1> QED
  BY <1>1, <1>2, PTL DEF PoolSpec

-----------------------------------------------------------------------------
(* Every step of the pool is a step of the specification, or changes       *)
(* nothing that it speaks of.                                              *)
LEMMA PoolStepImplements ==
  ASSUME PoolInv, [PoolNext]_poolVars
  PROVE  [Abstract!Next]_(Abstract!vars)
<1> USE DEF Outcome, Abstract!vars, loadVars, chanVars, workerVars, stopVars, CGoto
<1>1. CASE TimerFires
  <2>1. Abstract!Begin
    BY <1>1 DEF TimerFires, Abstract!Begin
  <2> QED
    BY <2>1 DEF Abstract!Next
<1>2. CASE CleanupEnds \/ HealthBegins \/ HealthPasses \/ HealthFails \/ BackoffOver \/ SendStopped \/ AllSent
  BY <1>2, SMT DEF CleanupEnds, HealthBegins, HealthPasses, HealthFails, BackoffOver, SendStopped, AllSent
<1>3. CASE BackoffStopped
  <2>1. Abstract!Interrupt
    BY <1>3 DEF BackoffStopped, Abstract!Interrupt
  <2> QED
    BY <2>1 DEF Abstract!Next
<1>4. CASE Snapshot
  <2>1. Abstract!Judge
    BY <1>4, LoadsAssumption DEF Snapshot, Abstract!Judge
  <2> QED
    BY <2>1 DEF Abstract!Next
<1>5. ASSUME NEW d \in Names, SendWork(d)
      PROVE  UNCHANGED Abstract!vars
  BY <1>5 DEF SendWork
<1>6. CASE WorkersDone /\ cpc = "drain"
  (* Nothing is pending any more. *)
  <2>1. ~rStopped => gone \subseteq toRemove
    BY <1>6 DEF WorkersDone, PoolInv, PoolTypeOK, Phases, Hands, Conserved, Pending, Busy
  <2>2. Abstract!Finish
    BY <1>6, <2>1 DEF WorkersDone, Abstract!Finish, PoolInv, Phases, Hands
  <2> QED
    BY <2>2 DEF Abstract!Next
<1>7. CASE WorkersDone /\ cpc = "abort"
  <2>1. Abstract!Interrupt
    BY <1>7 DEF WorkersDone, Abstract!Interrupt, PoolInv, Phases
  <2> QED
    BY <2>1 DEF Abstract!Next
<1>8. CASE SaveTime
  BY <1>8 DEF SaveTime
<1>9. CASE CleanupReturns
  <2>1. Abstract!Return
    BY <1>9 DEF CleanupReturns, ForgetCleanup, Abstract!Return
  <2> QED
    BY <2>1 DEF Abstract!Next
<1>10. ASSUME NEW w \in Workers, Worker(w)
       PROVE  UNCHANGED Abstract!vars
  (* The workers are done before there is anything to remove. *)
  <2>1. cpc \notin {"finished", "saving"}
    BY <1>10 DEF Worker, Receive, ChannelClosed, CheckStop, Validate, ValidateExchange, AppendInvalid, PoolInv, Phases
  <2>2. UNCHANGED <<cpc, names, gone, rStopped, stopCleanup>>
    BY <1>10 DEF Worker, Receive, ChannelClosed, CheckStop, Validate, ValidateExchange, AppendInvalid
  <2> QED
    BY <2>1, <2>2
<1>11. CASE StopResolver \/ StopStore
  <2>1. Abstract!StopBegins
    BY <1>11 DEF StopResolver, StopStore, Abstract!StopBegins
  <2> QED
    BY <2>1 DEF Abstract!Next
<1>12. CASE PoolRestarts
  <2>1. Abstract!Restart
    BY <1>12 DEF PoolRestarts, ForgetCleanup, Abstract!Restart
  <2> QED
    BY <2>1 DEF Abstract!Next
<1>13. CASE UNCHANGED poolVars
  BY <1>13 DEF poolVars
<1>14. WorkersDone => cpc \in {"drain", "abort"}
  BY DEF WorkersDone
<1> QED
  BY <1>1, <1>2, <1>3, <1>4, <1>5, <1>6, <1>7, <1>8, <1>9, <1>10, <1>11, <1>12, <1>13, <1>14
     DEF PoolNext, Cleanup

(* The safety part of CleanupImplements: for any number of workers and any *)
(* store, cleanup() removes the names that IranDNS denies, all of them and *)
(* no other, unless the shutdown has begun.                                *)
THEOREM CleanupRemovesWhatIsGone == PoolSpec => Abstract!Safety
<1>1. PoolInit => Abstract!Init
  BY DEF PoolInit, Abstract!Init, Outcome
<1>2. PoolInv /\ [PoolNext]_poolVars => [Abstract!Next]_(Abstract!vars)
  BY PoolStepImplements
<1> QED
  BY <1>1, <1>2, PoolInvariant, PTL DEF PoolSpec, Abstract!Safety

-----------------------------------------------------------------------------
(* The pool in the process *)

(* The cleanup pool, seen alone: every step of the process is a step of    *)
(* the pool or leaves it as it is.                                         *)
THEOREM PoolInContext == Spec => PoolSpec
<1>1. Init => PoolInit
  BY DEF Init
<1>2. [Next]_vars => [PoolNext]_poolVars
  <2> SUFFICES ASSUME Next PROVE [PoolNext]_poolVars
    BY DEF vars
  <2>1. ASSUME NEW l \in Learners, LearnStep(l)
        PROVE  UNCHANGED poolVars
    BY <2>1 DEF LearnStep
  <2>2. CASE FlushStep \/ ResetStep \/ UpdateStep \/ World
    BY <2>2 DEF FlushStep, ResetStep, UpdateStep, World
  <2>3. ASSUME NEW w \in Workers, WorkerStep(w)
        PROVE  PoolNext
    BY <2>3 DEF WorkerStep, PoolNext
  <2>4. CASE CleanupStep
    BY <2>4 DEF CleanupStep, PoolNext
  <2>5. CASE StopMetrics \/ SavesLast \/ StopUpdater \/ Start
    BY <2>5 DEF StopMetrics, SavesLast, StopUpdater, Start
  <2>6. CASE StopResolving \/ StopSaving
    BY <2>6 DEF StopResolving, StopSaving, PoolNext
  <2>7. CASE Exit \/ Crash
    BY <2>7 DEF Exit, Crash, Gone, PoolNext
  <2> QED
    BY <2>1, <2>2, <2>3, <2>4, <2>5, <2>6, <2>7 DEF Next, Shutdown
<1> QED
  BY <1>1, <1>2, PTL DEF Spec, PoolSpec

(* The safety part of CleanupImplements, for the process as a whole.       *)
THEOREM CleanupImplementsSafely == Spec => Abstract!Safety
  BY PoolInContext, CleanupRemovesWhatIsGone, PTL

(* Until the shutdown reaches the store, every worker of the cleanup stays *)
(* while names are handed out: the channel has somebody to empty it.       *)
THEOREM WorkersStay == Spec => []SenderIsServed
<1>1. PoolInv => SenderIsServed
  BY DEF PoolInv, Phases, Conserved, SenderIsServed
<1> QED
  BY <1>1, PoolInContext, PoolInvariant, PTL

-----------------------------------------------------------------------------
(* Types *)

(* What the writers make of a State is a State. *)
LEMMA SetsType ==
  ASSUME NEW st \in State, StatTypeOK, UpdaterTypeOK
  PROVE  /\ FlushSets(st) \in State
         /\ ResetSets(st) \in State
         /\ UpdaterSets(st) \in State
         /\ CleanupSets(st) \in State
<1>1. Today(fst.total, fst.atMidnight) \in Nat
  BY SMT DEF StatTypeOK, Reading, Today
<1>2. FlushSets(st) \in State
  BY <1>1 DEF FlushSets, State, StatTypeOK, Reading
<1>3. ResetSets(st) \in State
  <2>1. day \in Nat /\ rtotal \in Nat
    BY StatisticsAssumption, SMT DEF StatTypeOK
  <2> QED
    BY <2>1 DEF ResetSets, State
<1>4. UpdaterSets(st) \in State /\ CleanupSets(st) \in State
  BY DEF UpdaterSets, CleanupSets, State, UpdaterTypeOK
<1> QED
  BY <1>2, <1>3, <1>4

(* A component keeps its types when it does not move. *)
LEMMA FileStays == FileTypeOK /\ UNCHANGED fileVars => FileTypeOK'
  BY DEF FileTypeOK, fileVars

(* Steps of other components keep the statistics well typed. *)
LEMMA StatStays == StatTypeOK /\ UNCHANGED statVars => StatTypeOK'
  BY SMT DEF StatTypeOK, statVars, counterVars, takerVars, flushVars, resetVars

(* Steps of other components keep the updater well typed. *)
LEMMA UpdaterStays == UpdaterTypeOK /\ UNCHANGED updaterVars => UpdaterTypeOK'
  BY DEF UpdaterTypeOK, updaterVars

(* state.Update loads a state, or an empty one in place of an unreadable   *)
(* file.                                                                   *)
LEMMA UpdateLoadType ==
  ASSUME FileTypeOK, NEW w \in Savers, UpdateLoad(w)
  PROVE  FileTypeOK'
<1>1. ZeroState \in State
  BY DEF ZeroState, State
<1>2. loaded' \in [Savers -> State]
  BY <1>1 DEF UpdateLoad, FileTypeOK
<1> QED
  BY <1>2 DEF UpdateLoad, FileTypeOK

(* state.Update leaves a state in the file, whether its save succeeds or   *)
(* fails.                                                                  *)
LEMMA UpdateSaveType ==
  ASSUME FileTypeOK, StatTypeOK, UpdaterTypeOK,
         \/ UpdateSave("flush", FlushSets(loaded["flush"]), FlushSets(saved))
         \/ UpdateSave("reset", ResetSets(loaded["reset"]), ResetSets(saved))
         \/ UpdateSave("updater", UpdaterSets(loaded["updater"]), UpdaterSets(saved))
         \/ UpdateSave("cleanup", CleanupSets(loaded["cleanup"]), CleanupSets(saved))
  PROVE  FileTypeOK'
<1>1. ZeroState \in State
  BY DEF ZeroState, State
<1>2. loaded' \in [Savers -> State]
  BY <1>1 DEF UpdateSave, FileTypeOK, Savers
<1>3. file' \in State /\ saved' \in State
  BY SetsType DEF UpdateSave, FileTypeOK, Savers
<1> QED
  BY <1>2, <1>3 DEF UpdateSave, FileTypeOK

(* The steps of the statistics keep their types, and those of the file.    *)
LEMMA TakerType ==
  ASSUME FileTypeOK, StatTypeOK, NEW t \in Takers,
         CountName(t) \/ CheckCount(t) \/ Take(t) \/ (t = Main /\ StopTimer)
  PROVE  FileTypeOK' /\ StatTypeOK'
<1> USE StatisticsAssumption
    DEF StatTypeOK, FileTypeOK, counterVars, takerVars, flushVars, resetVars, fileVars, SGoto
<1>1. CASE CountName(t)
  BY <1>1, SMT DEF CountName
<1>2. CASE CheckCount(t)
  BY <1>2, SMT DEF CheckCount
<1>3. CASE TakeTotal(t)
  BY <1>3, SMT DEF TakeTotal, Reading
<1>4. CASE TakeMidnight(t)
  <2>1. midnightOf \in Nat
    BY SMT
  <2>2. taken' \in [Takers -> Reading]
    BY <1>4, <2>1 DEF TakeMidnight, Reading
  <2> QED
    BY <1>4, <2>2, SMT DEF TakeMidnight
<1>5. CASE TakeDate(t)
  BY <1>5, SMT DEF TakeDate, Reading
<1>6. CASE PutReading(t)
  BY <1>6, SMT DEF PutReading, Reading, NoReading
<1>7. CASE t = Main /\ StopTimer
  BY <1>7, SMT DEF StopTimer
<1> QED
  BY <1>1, <1>2, <1>3, <1>4, <1>5, <1>6, <1>7 DEF Take

(* flushState keeps the statistics well typed, whoever runs it. *)
LEMMA FlushType ==
  ASSUME FileTypeOK, StatTypeOK, UpdaterTypeOK, Flush
  PROVE  FileTypeOK' /\ StatTypeOK'
<1> USE DEF StatTypeOK, counterVars, takerVars, resetVars
<1>1. CASE FlushTimerFires
  BY <1>1, SMT DEF FlushTimerFires, FileTypeOK, fileVars
<1>2. ASSUME NEW w \in {"timer", Main}, FlushNothing(w)
      PROVE  FileTypeOK' /\ StatTypeOK'
  BY <1>2, SMT DEF FlushNothing, FlushReturns, SGoto, FileTypeOK, fileVars
<1>3. ASSUME NEW w \in {"timer", Main}, FlushBegins(w)
      PROVE  FileTypeOK' /\ StatTypeOK'
  BY <1>3, SMT DEF FlushBegins, FileTypeOK, fileVars, NoReading, Reading
<1>4. CASE FlushLoads
  <2>1. FileTypeOK'
    BY <1>4, UpdateLoadType DEF FlushLoads, Savers
  <2>2. StatTypeOK'
    BY <1>4 DEF FlushLoads
  <2> QED
    BY <2>1, <2>2
<1>5. CASE FlushSaves
  <2>1. FileTypeOK'
    BY <1>5, UpdateSaveType DEF FlushSaves
  <2>2. StatTypeOK'
    BY <1>5 DEF FlushSaves, FlushReturns, SGoto, NoReading, Reading
  <2> QED
    BY <2>1, <2>2
<1> QED
  BY <1>1, <1>2, <1>3, <1>4, <1>5 DEF Flush

(* The reset at midnight keeps the statistics well typed. *)
LEMMA ResetType ==
  ASSUME FileTypeOK, StatTypeOK, UpdaterTypeOK, Reset \/ ResetEnds
  PROVE  FileTypeOK' /\ StatTypeOK'
<1> USE DEF StatTypeOK, counterVars, takerVars, flushVars
<1>1. CASE ResetBegins
  BY <1>1, FileStays DEF ResetBegins
<1>2. CASE ResetStores
  BY <1>2, FileStays DEF ResetStores
<1>3. CASE ResetLoads
  BY <1>3, UpdateLoadType DEF ResetLoads, Savers
<1>4. CASE ResetSaves
  BY <1>4, UpdateSaveType DEF ResetSaves
<1>5. CASE ResetEnds
  BY <1>5, FileStays DEF ResetEnds
<1> QED
  BY <1>1, <1>2, <1>3, <1>4, <1>5 DEF Reset

(* The goroutine of the updater keeps its state well typed. *)
LEMMA UpdaterType ==
  ASSUME FileTypeOK, StatTypeOK, UpdaterTypeOK, UpdateDue \/ Update \/ Publish
  PROVE  FileTypeOK' /\ UpdaterTypeOK'
<1> USE ListsAssumption DEF UpdaterTypeOK, UGoto, Ends
<1>1. CASE UpdateDue \/ Download
  BY <1>1, FileStays DEF UpdateDue, Download
<1>2. CASE CheckList \/ RenameList
  BY <1>2, FileStays DEF CheckList, RenameList
<1>3. CASE ReloadList \/ RecordResult
  BY <1>3, FileStays DEF ReloadList, RecordResult, NewSucceeds
<1>4. CASE UpdaterLoads
  BY <1>4, UpdateLoadType DEF UpdaterLoads, Savers
<1>5. CASE UpdaterSaves
  <2>1. FileTypeOK'
    BY <1>5, UpdateSaveType DEF UpdaterSaves
  <2>2. UpdaterTypeOK'
    BY <1>5 DEF UpdaterSaves
  <2> QED
    BY <2>1, <2>2
<1>6. CASE Publish
  BY <1>6, FileStays DEF Publish
<1> QED
  BY <1>1, <1>2, <1>3, <1>4, <1>5, <1>6 DEF Update

(* The process ends, and starts again. *)
LEMMA RestartType ==
  ASSUME FileTypeOK, StatTypeOK, UpdaterTypeOK
  PROVE  /\ Gone /\ crashed' \in BOOLEAN => FileTypeOK' /\ StatTypeOK' /\ UpdaterTypeOK'
         /\ Start => FileTypeOK' /\ StatTypeOK' /\ UpdaterTypeOK'
<1>1. ASSUME Gone, crashed' \in BOOLEAN
      PROVE  FileTypeOK' /\ StatTypeOK' /\ UpdaterTypeOK'
  <2>1. ZeroState \in State /\ NoReading \in Reading
    BY DEF ZeroState, State, NoReading, Reading
  <2>2. FileTypeOK'
    BY <1>1, <2>1 DEF Gone, FileAfterExit, NothingLoaded, FileTypeOK
  <2>3. StatTypeOK'
    BY <1>1, <2>1 DEF Gone, StatsAfterExit, StatTypeOK
  <2>4. UpdaterTypeOK'
    BY <1>1 DEF Gone, UpdaterAfterExit, UpdaterTypeOK
  <2> QED
    BY <2>2, <2>3, <2>4
<1>2. ASSUME Start
      PROVE  FileTypeOK' /\ StatTypeOK' /\ UpdaterTypeOK'
  <2>1. FileTypeOK'
    BY <1>2 DEF Start, StatsRestored, fileVars, FileTypeOK
  <2>2. PICK st \in Loadable : StatsRestored(st) /\ UpdaterStarts("update" \in uses, st)
    BY <1>2 DEF Start
  <2>3. st \in State
    <3>1. ZeroState \in State
      BY SMT DEF ZeroState, State
    <3>2. file \in State
      BY DEF FileTypeOK
    <3>3. st = file \/ st = ZeroState
      BY DEF Loadable
    <3> QED
      BY <3>1, <3>2, <3>3
  <2>4. st.total \in Nat /\ RestoredMidnight(st) \in Nat
    BY <2>3, SMT DEF State, RestoredMidnight
  <2>5. StatTypeOK'
    BY <2>2, <2>4 DEF StatsRestored, takerVars, flushVars, StatTypeOK
  <2>6. UpdaterTypeOK'
    BY <2>2, <2>3 DEF UpdaterStarts, NewSucceeds, UpdaterTypeOK, State
  <2> QED
    BY <2>1, <2>5, <2>6
<1> QED
  BY <1>1, <1>2

(* Everything is well typed, always: in particular the statistics that are *)
(* saved are never negative, although the counters are read one by one.    *)
THEOREM TypeCorrect == Spec => []TypeOK
<1> DEFINE Rest == /\ FileTypeOK /\ StatTypeOK /\ UpdaterTypeOK
                   /\ mpc \in {"serve", "mStop", "rStop", "saving", "exit", "down"}
<1>1. Init => Rest
  <2>1. ZeroState \in State /\ NoReading \in Reading
    BY DEF ZeroState, State, NoReading, Reading
  <2>2. FileInit => FileTypeOK
    <3> SUFFICES ASSUME FileInit PROVE FileTypeOK
      OBVIOUS
    <3>1. file \in State /\ saved \in State
      BY StateFileAssumption DEF FileInit, State, ZeroState
    <3> QED
      BY <2>1, <3>1 DEF FileInit, NothingLoaded, FileTypeOK
  <2>3. FileTypeOK /\ StatInit => StatTypeOK
    <3> SUFFICES ASSUME FileTypeOK, StatInit PROVE StatTypeOK
      OBVIOUS
    <3>1. day \in 1 .. LastDay /\ midnightOf \in 1 .. LastDay
      BY StatisticsAssumption, SMT DEF StatInit
    <3>2. total \in Nat /\ midnight \in Nat /\ learned \in Nat
      BY DEF StatInit, FileTypeOK, State
    <3> QED
      BY <2>1, <3>1, <3>2 DEF StatInit, NothingRuns, StatTypeOK
  <2>4. UpdaterInit => UpdaterTypeOK
    BY ListsAssumption DEF UpdaterInit, UpdaterTypeOK
  <2> QED
    BY <2>2, <2>3, <2>4 DEF Init
<1>2. Rest /\ [Next]_vars => Rest'
  <2> SUFFICES ASSUME Rest, [Next]_vars PROVE Rest'
    OBVIOUS
  <2>1. ASSUME NEW l \in Learners, LearnStep(l)
        PROVE  Rest'
    BY <2>1, TakerType, UpdaterStays DEF LearnStep, Takers
  <2>2. CASE FlushStep
    BY <2>2, FlushType, UpdaterStays DEF FlushStep
  <2>3. CASE ResetStep
    BY <2>3, ResetType, UpdaterStays DEF ResetStep
  <2>4. CASE UpdateStep
    BY <2>4, UpdaterType, StatStays DEF UpdateStep
  <2>5. ASSUME NEW w \in Workers, WorkerStep(w)
        PROVE  Rest'
    BY <2>5, FileStays, StatStays, UpdaterStays DEF WorkerStep
  <2>6. CASE CleanupStep
    <3>1. FileTypeOK'
      BY <2>6, UpdateLoadType, UpdateSaveType, FileStays DEF CleanupStep, Savers
    <3> QED
      BY <2>6, <3>1, StatStays, UpdaterStays DEF CleanupStep
  <2>7. CASE StopMetrics \/ StopResolving \/ StopUpdater
    BY <2>7, FileStays, StatStays, UpdaterStays
       DEF StopMetrics, StopResolving, StopUpdater, MGoto
  <2>8. CASE StopSaving
    <3>1. FileTypeOK' /\ UpdaterTypeOK' /\ mpc' = "saving"
      BY <2>8, FileStays, UpdaterStays DEF StopSaving, MGoto
    <3>2. spc' \in [Takers -> {"idle", "count", "total", "midnight", "date", "put", "stop", "flush"}]
      BY <2>8 DEF StopSaving, SGoto, StatTypeOK
    <3>3. StatTypeOK'
      BY <2>8, <3>2, SMT DEF StopSaving, StatTypeOK, counterVars, flushVars, resetVars
    <3> QED
      BY <3>1, <3>3
  <2>9. CASE SavesLast
    BY <2>9, TakerType, UpdaterStays DEF SavesLast, Takers
  <2>10. CASE Exit \/ Crash
    <3>1. Gone /\ crashed' \in BOOLEAN
      BY <2>10 DEF Exit, Crash, StatTypeOK
    <3> QED
      BY <3>1, RestartType DEF Gone, MGoto
  <2>11. CASE Start
    BY <2>11, RestartType DEF Start, MGoto
  <2>12. CASE World
    <3>1. CASE NewDay /\ UNCHANGED updaterVars
      <4>1. day' \in 1 .. LastDay
        BY <3>1, StatisticsAssumption, SMT DEF NewDay, StatTypeOK
      <4>2. StatTypeOK'
        BY <3>1, <4>1 DEF NewDay, StatTypeOK, takerVars, flushVars
      <4> QED
        BY <2>12, <3>1, <4>2, FileStays, UpdaterStays DEF World, NewDay
    <3>2. CASE Publish /\ UNCHANGED statVars
      BY <2>12, <3>2, UpdaterType, StatStays DEF World
    <3> QED
      BY <2>12, <3>1, <3>2 DEF World
  <2>13. CASE UNCHANGED vars
    BY <2>13, FileStays, StatStays, UpdaterStays DEF vars
  <2> QED
    BY <2>1, <2>2, <2>3, <2>4, <2>5, <2>6, <2>7, <2>8, <2>9, <2>10, <2>11, <2>12, <2>13
       DEF Next, Shutdown
<1>3. Rest /\ PoolInv => TypeOK
  BY DEF TypeOK, PoolInv
<1> QED
  BY <1>1, <1>2, <1>3, PoolInContext, PoolInvariant, PTL DEF Spec

-----------------------------------------------------------------------------
(* The state file *)

(* flushMu is held from the start of flushState to its end, and nothing is *)
(* left of resetDailyStats when the process is gone.                       *)
Control ==
  /\ flushMu = Nobody <=> fpc = "idle"
  /\ mpc = "down" => rpc = "ended"

(* Control is an invariant of the composed system. *)
LEMMA ControlInvariant == Spec => []Control
<1>1. Init => Control
  BY DEF Init, StatInit, NothingRuns, Control
<1>2. TypeOK /\ Control /\ [Next]_vars => Control'
  <2> SUFFICES ASSUME TypeOK, Control, [Next]_vars PROVE Control'
    OBVIOUS
  <2> USE DEF Control, statVars, flushVars, resetVars
  <2>1. ASSUME NEW l \in Learners, LearnStep(l)
        PROVE  Control'
    BY <2>1
       DEF LearnStep, CountName, CheckCount, Take, TakeTotal, TakeMidnight, TakeDate, PutReading
  <2>2. CASE FlushStep
    BY <2>2, StatisticsAssumption
       DEF FlushStep, Flush, FlushTimerFires, FlushNothing, FlushBegins, FlushLoads, FlushSaves
  <2>3. CASE ResetStep
    BY <2>3 DEF ResetStep, Reset, ResetBegins, ResetStores, ResetLoads, ResetSaves, ResetEnds
  <2>4. CASE UpdateStep \/ CleanupStep
    BY <2>4 DEF UpdateStep, CleanupStep
  <2>5. ASSUME NEW w \in Workers, WorkerStep(w)
        PROVE  Control'
    BY <2>5 DEF WorkerStep
  <2>6. CASE StopMetrics \/ StopResolving \/ StopSaving \/ StopUpdater
    BY <2>6 DEF StopMetrics, StopResolving, StopSaving, StopUpdater, MGoto
  <2>7. CASE SavesLast
    BY <2>7 DEF SavesLast, Take, TakeTotal, TakeMidnight, TakeDate, PutReading, StopTimer
  <2>8. CASE Exit \/ Crash
    BY <2>8 DEF Exit, Crash, Gone, StatsAfterExit
  <2>9. CASE Start
    BY <2>9 DEF Start, StatsRestored, MGoto
  <2>10. CASE World
    BY <2>10 DEF World, NewDay
  <2>11. CASE UNCHANGED vars
    BY <2>11 DEF vars
  <2> QED
    BY <2>1, <2>2, <2>3, <2>4, <2>5, <2>6, <2>7, <2>8, <2>9, <2>10, <2>11 DEF Next, Shutdown
<1> QED
  BY <1>1, <1>2, TypeCorrect, PTL DEF Spec

(* updateMu is held by the writer that is between its load and its save. *)
HoldsUpdateMu ==
  /\ updateMu = "flush" <=> fpc = "save"
  /\ updateMu = "reset" <=> rpc = "save"
  /\ updateMu = "updater" <=> upc = "save"
  /\ updateMu = "cleanup" <=> cpc = "saving"

(* NoLostUpdate is not inductive: what a save writes back is the copy that *)
(* the writer loaded, which has to be the file as it still is; or nothing, *)
(* if the file could not be read.                                          *)
CopyIsCurrent ==
  /\ ~damaged => file = saved
  /\ updateMu # Nobody =>
       loaded[updateMu] = file \/ (damaged /\ loaded[updateMu] = ZeroState)

FileInv == HoldsUpdateMu /\ CopyIsCurrent

(* A step that leaves the file alone, and lets no writer in or out *)
LEMMA FileUntouched ==
  ASSUME FileInv, UNCHANGED fileVars,
         fpc' = "save" <=> fpc = "save", rpc' = "save" <=> rpc = "save",
         upc' = "save" <=> upc = "save", cpc' = "saving" <=> cpc = "saving"
  PROVE  FileInv'
  BY DEF FileInv, HoldsUpdateMu, CopyIsCurrent, fileVars

(* A load by the holder of updateMu takes a copy that is current. *)
LEMMA LoadKeepsFile ==
  ASSUME TypeOK, FileInv, NEW w \in Savers, UpdateLoad(w),
         fpc' = "save" <=> w = "flush" \/ fpc = "save",
         rpc' = "save" <=> w = "reset" \/ rpc = "save",
         upc' = "save" <=> w = "updater" \/ upc = "save",
         cpc' = "saving" <=> w = "cleanup" \/ cpc = "saving"
  PROVE  FileInv'
<1>1. HoldsUpdateMu'
  BY StateFileAssumption DEF UpdateLoad, FileInv, HoldsUpdateMu, Savers
<1>2. CopyIsCurrent'
  BY DEF UpdateLoad, FileInv, CopyIsCurrent, TypeOK, FileTypeOK
<1> QED
  BY <1>1, <1>2 DEF FileInv

(* A save puts a current copy back, with the fields of its writer changed. *)
LEMMA SaveKeepsFile ==
  ASSUME TypeOK, FileInv, NEW w \in Savers, updateMu = w,
         \/ w = "flush" /\ UpdateSave(w, FlushSets(loaded[w]), FlushSets(saved))
         \/ w = "reset" /\ UpdateSave(w, ResetSets(loaded[w]), ResetSets(saved))
         \/ w = "updater" /\ UpdateSave(w, UpdaterSets(loaded[w]), UpdaterSets(saved))
         \/ w = "cleanup" /\ UpdateSave(w, CleanupSets(loaded[w]), CleanupSets(saved)),
         fpc' = "save" <=> w # "flush" /\ fpc = "save",
         rpc' = "save" <=> w # "reset" /\ rpc = "save",
         upc' = "save" <=> w # "updater" /\ upc = "save",
         cpc' = "saving" <=> w # "cleanup" /\ cpc = "saving"
  PROVE  FileInv'
<1>1. updateMu' = Nobody /\ Nobody \notin Savers
  BY StateFileAssumption DEF UpdateSave
<1>2. HoldsUpdateMu'
  BY <1>1 DEF FileInv, HoldsUpdateMu, Savers
<1>3. ~damaged => loaded[w] = saved
  BY <1>1 DEF FileInv, CopyIsCurrent
<1>4. ASSUME ~damaged'
      PROVE  file' = saved'
  <2>1. ~damaged
    BY <1>4 DEF UpdateSave
  <2>2. loaded[w] = saved
    BY <1>3, <2>1
  <2>3. CASE w = "flush" /\ UpdateSave(w, FlushSets(loaded[w]), FlushSets(saved))
    BY <1>4, <2>2, <2>3 DEF UpdateSave
  <2>4. CASE w = "reset" /\ UpdateSave(w, ResetSets(loaded[w]), ResetSets(saved))
    BY <1>4, <2>2, <2>4 DEF UpdateSave
  <2>5. CASE w = "updater" /\ UpdateSave(w, UpdaterSets(loaded[w]), UpdaterSets(saved))
    BY <1>4, <2>2, <2>5 DEF UpdateSave
  <2>6. CASE w = "cleanup" /\ UpdateSave(w, CleanupSets(loaded[w]), CleanupSets(saved))
    BY <1>4, <2>2, <2>6 DEF UpdateSave
  <2> QED
    BY <2>3, <2>4, <2>5, <2>6
<1>5. CopyIsCurrent'
  BY <1>1, <1>4 DEF CopyIsCurrent
<1> QED
  BY <1>2, <1>5 DEF FileInv

(* Every step keeps it. *)
LEMMA StepKeepsFile ==
  ASSUME TypeOK, Control, FileInv, [Next]_vars
  PROVE  FileInv'
<1> USE DEF poolVars, statVars, updaterVars, counterVars, takerVars, flushVars, resetVars
<1>1. ASSUME NEW l \in Learners, LearnStep(l)
      PROVE  FileInv'
  BY <1>1, FileUntouched
     DEF LearnStep, CountName, CheckCount, Take, TakeTotal, TakeMidnight, TakeDate, PutReading
<1>2. CASE FlushStep
  <2>1. CASE FlushTimerFires
    BY <1>2, <2>1, FileUntouched DEF FlushStep, FlushTimerFires
  <2>2. ASSUME NEW w \in {"timer", Main}, FlushNothing(w) \/ FlushBegins(w)
        PROVE  FileInv'
    BY <1>2, <2>2, FileUntouched DEF FlushStep, FlushNothing, FlushBegins, Control
  <2>3. CASE FlushLoads
    BY <1>2, <2>3, LoadKeepsFile DEF FlushStep, FlushLoads, Savers
  <2>4. CASE FlushSaves
    BY <1>2, <2>4, SaveKeepsFile DEF FlushStep, FlushSaves, Savers, FileInv, HoldsUpdateMu
  <2> QED
    BY <1>2, <2>1, <2>2, <2>3, <2>4 DEF FlushStep, Flush
<1>3. CASE ResetStep
  <2>1. CASE ResetBegins \/ ResetStores \/ ResetEnds
    BY <1>3, <2>1, FileUntouched DEF ResetStep, ResetBegins, ResetStores, ResetEnds
  <2>2. CASE ResetLoads
    BY <1>3, <2>2, LoadKeepsFile DEF ResetStep, ResetLoads, Savers
  <2>3. CASE ResetSaves
    BY <1>3, <2>3, SaveKeepsFile DEF ResetStep, ResetSaves, Savers, FileInv, HoldsUpdateMu
  <2> QED
    BY <1>3, <2>1, <2>2, <2>3 DEF ResetStep, Reset
<1>4. CASE UpdateStep
  <2>1. CASE UpdateDue \/ Download \/ CheckList \/ RenameList \/ ReloadList \/ RecordResult
    BY <1>4, <2>1, FileUntouched
       DEF UpdateStep, UpdateDue, Download, CheckList, RenameList, ReloadList, RecordResult, UGoto, Ends
  <2>2. CASE UpdaterLoads
    BY <1>4, <2>2, LoadKeepsFile DEF UpdateStep, UpdaterLoads, UGoto, Savers
  <2>3. CASE UpdaterSaves
    BY <1>4, <2>3, SaveKeepsFile DEF UpdateStep, UpdaterSaves, UGoto, Savers, FileInv, HoldsUpdateMu
  <2> QED
    BY <1>4, <2>1, <2>2, <2>3 DEF UpdateStep, Update
<1>5. ASSUME NEW w \in Workers, WorkerStep(w)
      PROVE  FileInv'
  BY <1>5, FileUntouched
     DEF WorkerStep, Worker, Receive, ChannelClosed, CheckStop, Validate, ValidateExchange, AppendInvalid
<1>6. CASE CleanupStep
  <2>1. CASE Cleanup /\ UNCHANGED fileVars
    BY <1>6, <2>1, FileUntouched
       DEF CleanupStep, Cleanup, TimerFires, CleanupEnds, HealthBegins, HealthPasses, HealthFails, BackoffOver,
           BackoffStopped, Snapshot, SendWork, SendStopped, AllSent, WorkersDone, CGoto
  <2>2. CASE SaveTime /\ UpdateLoad("cleanup")
    BY <1>6, <2>2, LoadKeepsFile DEF CleanupStep, SaveTime, CGoto, Savers
  <2>3. CASE cpc = "saving" /\ CleanupReturns /\ UpdateSave("cleanup", CleanupSets(loaded["cleanup"]), CleanupSets(saved))
    BY <1>6, <2>3, SaveKeepsFile
       DEF CleanupStep, CleanupReturns, CGoto, Savers, FileInv, HoldsUpdateMu
  <2>4. CASE cpc # "saving" /\ CleanupReturns /\ UNCHANGED fileVars
    BY <1>6, <2>4, FileUntouched DEF CleanupStep, CleanupReturns, CGoto
  <2> QED
    BY <1>6, <2>1, <2>2, <2>3, <2>4 DEF CleanupStep
<1>7. CASE StopMetrics \/ StopUpdater
  BY <1>7, FileUntouched DEF StopMetrics, StopUpdater
<1>8. CASE StopResolving \/ StopSaving
  BY <1>8, FileUntouched DEF StopResolving, StopSaving, StopResolver, StopStore
<1>9. CASE SavesLast
  BY <1>9, FileUntouched
     DEF SavesLast, Take, TakeTotal, TakeMidnight, TakeDate, PutReading, StopTimer
<1>10. CASE Exit \/ Crash
  <2>1. Gone
    BY <1>10 DEF Exit, Crash
  <2> QED
    BY <2>1, StateFileAssumption
       DEF Gone, StatsAfterExit, UpdaterAfterExit, PoolRestarts, CGoto, FileAfterExit, Savers,
           FileInv, HoldsUpdateMu, CopyIsCurrent
<1>11. CASE Start
  BY <1>11, FileUntouched DEF Start, StatsRestored, UpdaterStarts, Control
<1>12. CASE World
  BY <1>12, FileUntouched DEF World, NewDay, Publish
<1>13. CASE UNCHANGED vars
  BY <1>13, FileUntouched DEF vars
<1> QED
  BY <1>1, <1>2, <1>3, <1>4, <1>5, <1>6, <1>7, <1>8, <1>9, <1>10, <1>11, <1>12, <1>13
     DEF Next, Shutdown

(* FileInv is an invariant of the composed system. *)
LEMMA FileInvariant == Spec => []FileInv
<1>1. Init => FileInv
  BY StateFileAssumption
     DEF Init, FileInit, StatInit, NothingRuns, UpdaterInit, PoolInit, FileInv, HoldsUpdateMu,
         CopyIsCurrent, Savers
<1>2. TypeOK /\ Control /\ FileInv /\ [Next]_vars => FileInv'
  BY StepKeepsFile
<1> QED
  BY <1>1, <1>2, TypeCorrect, ControlInvariant, PTL DEF Spec

(* state.Update: however the four writers, the shutdown and crashes fall   *)
(* together, every field of the state file is as its writer saved it last, *)
(* unless a load or a save has failed.                                     *)
THEOREM UpdatesAreKept == Spec => []NoLostUpdate
<1>1. FileInv => NoLostUpdate
  BY DEF FileInv, CopyIsCurrent, NoLostUpdate
<1> QED
  BY <1>1, FileInvariant, PTL

-----------------------------------------------------------------------------
(* The ranges *)

(* SuccessMeansLoaded is not inductive: updateOk is still that of the last *)
(* update while the next is under way, and result announces it.            *)
LoadedInv ==
  /\ upc # "reload" /\ upc # "record" /\ updateOk => ranges = rangesFile
  /\ upc = "record" /\ result => ranges = rangesFile

(* updater.update: between two updates, LastUpdateSuccess means that the   *)
(* classifier works with the list in the file, for any lists, failures,    *)
(* crashes and restarts.                                                   *)
THEOREM SuccessIsLoaded == Spec => []SuccessMeansLoaded
<1>1. Init => LoadedInv
  BY DEF Init, UpdaterInit, LoadedInv
<1>2. TypeOK /\ LoadedInv /\ [Next]_vars => LoadedInv'
  <2> SUFFICES ASSUME TypeOK, LoadedInv, [Next]_vars PROVE LoadedInv'
    OBVIOUS
  <2> USE DEF LoadedInv, UGoto, Ends
  <2>1. CASE UNCHANGED updaterVars
    BY <2>1 DEF updaterVars
  <2>2. CASE UpdateStep
    <3>1. CASE UpdateDue \/ Download
      BY <3>1, SMT DEF UpdateDue, Download
    <3>2. CASE CheckList \/ RenameList
      BY <3>2, SMT DEF CheckList, RenameList
    <3>3. CASE ReloadList
      BY <3>3 DEF ReloadList
    <3>4. CASE RecordResult
      BY <3>4 DEF RecordResult, TypeOK, UpdaterTypeOK
    <3>5. CASE UpdaterLoads \/ UpdaterSaves
      BY <3>5, SMT DEF UpdaterLoads, UpdaterSaves
    <3> QED
      BY <2>2, <3>1, <3>2, <3>3, <3>4, <3>5 DEF UpdateStep, Update
  <2>3. CASE Exit \/ Crash
    BY <2>3 DEF Exit, Crash, Gone, UpdaterAfterExit
  <2>4. CASE Start
    BY <2>4 DEF Start, UpdaterStarts
  <2>5. CASE World
    BY <2>1, <2>5, SMT DEF World, Publish
  <2>6. ASSUME NEW l \in Learners, LearnStep(l)
        PROVE  UNCHANGED updaterVars
    BY <2>6 DEF LearnStep
  <2>7. ASSUME NEW w \in Workers, WorkerStep(w)
        PROVE  UNCHANGED updaterVars
    BY <2>7 DEF WorkerStep
  <2>8. CASE FlushStep \/ ResetStep \/ CleanupStep
    BY <2>1, <2>8 DEF FlushStep, ResetStep, CleanupStep
  <2>9. CASE StopMetrics \/ StopResolving \/ StopSaving \/ SavesLast \/ StopUpdater
    BY <2>1, <2>9 DEF StopMetrics, StopResolving, StopSaving, SavesLast, StopUpdater
  <2>10. CASE UNCHANGED vars
    BY <2>1, <2>10 DEF vars
  <2> QED
    BY <2>1, <2>2, <2>3, <2>4, <2>5, <2>6, <2>7, <2>8, <2>9, <2>10 DEF Next, Shutdown
<1>3. LoadedInv => SuccessMeansLoaded
  BY DEF LoadedInv, SuccessMeansLoaded
<1> QED
  BY <1>1, <1>2, <1>3, TypeCorrect, PTL DEF Spec
=============================================================================

-------------------------- MODULE StatisticsProofs --------------------------
(***************************************************************************)
(* Proofs about the statistics of learned names, for any number of request *)
(* goroutines, days, restarts and workloads: an orderly shutdown saves the *)
(* total, and the count of today is right after it.                        *)
(***************************************************************************)
EXTENDS BackgroundProofs

(* Most leaves are first-order; the others name SMT. *)
USE Zenon

-----------------------------------------------------------------------------
(* The shutdown *)

(* Where the total is once main has put it into flushBuf: still there, or  *)
(* in the hands of flushState, or in the file.                             *)
TotalOnItsWay ==
  IF buf # NoReading THEN buf.total = total
  ELSE IF fpc # "idle" THEN fst.total = total
  ELSE file.total = total

(* ExitSavesTotal is about the last moment.  What leads to it: nobody      *)
(* learns or saves beside main any more, main has read the total, and      *)
(* whoever runs flushState, main or the timer's callback, takes it from    *)
(* flushBuf to the file.                                                   *)
ExitInv ==
  /\ mpc \in {"saving", "exit"} => stopCleanup /\ \A l \in Learners : spc[l] = "idle"
  /\ mpc # "saving" => spc[Main] = "idle"
  /\ flushMu = Main => spc[Main] = "flush" /\ buf = NoReading
  /\ spc[Main] \in {"midnight", "date", "put"} => taken[Main].total = total
  /\ spc[Main] = "put" => taken[Main] # NoReading
  /\ spc[Main] # "count"
  /\ spc[Main] \in {"stop", "flush"} => damaged \/ TotalOnItsWay
  /\ mpc \in {"saving", "exit"} /\ spc[Main] = "idle" /\ HasState =>
       /\ buf = NoReading /\ fpc = "idle"
       /\ damaged \/ file.total = total

(* A step that is not about to save or to flush, and that leaves the total *)
(* in the file as it is unless the file is damaged.                        *)
LEMMA ExitUntouched ==
  ASSUME ExitInv,
         UNCHANGED <<mpc, stopCleanup, spc, taken, total, buf, flushMu, fpc, fst, uses>>,
         damaged' \/ (~damaged /\ file'.total = file.total)
  PROVE  ExitInv'
  BY DEF ExitInv, TotalOnItsWay, HasState

(* The writers other than flushState keep the total. *)
LEMMA OthersKeepTotal ==
  ASSUME TypeOK, FileInv,
         \/ updateMu = "reset" /\ UpdateSave("reset", ResetSets(loaded["reset"]), ResetSets(saved))
         \/ updateMu = "updater" /\ UpdateSave("updater", UpdaterSets(loaded["updater"]), UpdaterSets(saved))
         \/ updateMu = "cleanup" /\ UpdateSave("cleanup", CleanupSets(loaded["cleanup"]), CleanupSets(saved))
         \/ \E w \in Savers : UpdateLoad(w)
  PROVE  /\ damaged' \/ (~damaged /\ file'.total = file.total)
         /\ uses' = uses
<1>1. uses' = uses /\ (damaged => damaged')
  BY DEF UpdateSave, UpdateLoad, TypeOK, FileTypeOK
<1>2. ASSUME ~damaged'
      PROVE  ~damaged /\ file'.total = file.total
  <2>1. ~damaged
    BY <1>1, <1>2
  <2>2. CASE \E w \in Savers : UpdateLoad(w)
    <3>1. file' = file
      BY <2>2 DEF UpdateLoad
    <3> QED
      BY <2>1, <3>1
  <2>3. ASSUME NEW w \in {"reset", "updater", "cleanup"}, updateMu = w
        PROVE  loaded[w] = file /\ file \in State
    BY <2>1, <2>3, StateFileAssumption DEF FileInv, CopyIsCurrent, TypeOK, FileTypeOK, Savers
  <2>4. \A st \in State : /\ ResetSets(st).total = st.total
                          /\ UpdaterSets(st).total = st.total
                          /\ CleanupSets(st).total = st.total
    BY DEF ResetSets, UpdaterSets, CleanupSets, State
  <2>5. CASE updateMu = "reset" /\ UpdateSave("reset", ResetSets(loaded["reset"]), ResetSets(saved))
    BY <1>2, <2>1, <2>3, <2>4, <2>5 DEF UpdateSave
  <2>6. CASE updateMu = "updater" /\ UpdateSave("updater", UpdaterSets(loaded["updater"]), UpdaterSets(saved))
    BY <1>2, <2>1, <2>3, <2>4, <2>6 DEF UpdateSave
  <2>7. CASE updateMu = "cleanup" /\ UpdateSave("cleanup", CleanupSets(loaded["cleanup"]), CleanupSets(saved))
    BY <1>2, <2>1, <2>3, <2>4, <2>7 DEF UpdateSave
  <2> QED
    BY <2>2, <2>5, <2>6, <2>7
<1> QED
  BY <1>1, <1>2

(* Request goroutines learn only before main saves. *)
LEMMA LearnersComeFirst ==
  ASSUME ExitInv, NEW l \in Learners, LearnStep(l)
  PROVE  mpc \notin {"saving", "exit"} /\ mpc' = mpc
  BY StatisticsAssumption
     DEF ExitInv, LearnStep, CheckCount, Take, TakeTotal, TakeMidnight, TakeDate, PutReading

(* The goroutines that learn have ended when main saves, and keep ExitInv. *)
LEMMA LearnKeepsExit ==
  ASSUME TypeOK, ExitInv, NEW l \in Learners, LearnStep(l)
  PROVE  ExitInv'
<1>1. l # Main /\ l \in Takers
  BY StatisticsAssumption DEF Takers
<1>2. mpc \notin {"saving", "exit"}
  BY LearnersComeFirst
<1>3. spc[Main] = "idle" /\ spc'[Main] = "idle"
  BY <1>1, <1>2
     DEF ExitInv, LearnStep, CountName, CheckCount, Take, TakeTotal, TakeMidnight, TakeDate,
         PutReading, SGoto, TypeOK, StatTypeOK, Takers
<1>4. flushMu' = flushMu /\ mpc' = mpc /\ flushMu # Main
  BY <1>3 DEF ExitInv, LearnStep, CountName, CheckCount, Take, TakeTotal, TakeMidnight, TakeDate,
              PutReading, flushVars
<1> QED
  BY <1>2, <1>3, <1>4 DEF ExitInv

(* main reads the counters and puts them into flushBuf. *)
LEMMA MainKeepsExit ==
  ASSUME TypeOK, Control, ExitInv, SavesLast
  PROVE  ExitInv'
<1>1. Main \in Takers /\ \A l \in Learners : l # Main /\ l \in Takers
  BY StatisticsAssumption DEF Takers
<1>2. mpc = "saving" /\ mpc' = mpc /\ stopCleanup' = stopCleanup
  BY DEF SavesLast, ExitInv, Take, TakeTotal, TakeMidnight, TakeDate, PutReading, StopTimer,
         poolVars, stopVars
<1>3. \A l \in Learners : spc'[l] = spc[l]
  BY <1>1 DEF SavesLast, Take, TakeTotal, TakeMidnight, TakeDate, PutReading, StopTimer, SGoto,
              TypeOK, StatTypeOK
<1> USE DEF SGoto, TypeOK, StatTypeOK, counterVars, flushVars, fileVars, HasState
<1>4. CASE TakeTotal(Main)
  BY <1>1, <1>2, <1>3, <1>4 DEF TakeTotal, ExitInv, Reading
<1>5. CASE TakeMidnight(Main)
  BY <1>1, <1>2, <1>3, <1>5 DEF TakeMidnight, ExitInv, Reading
<1>6. CASE TakeDate(Main)
  BY <1>1, <1>2, <1>3, <1>6, StatisticsAssumption, SMT DEF TakeDate, ExitInv, Reading, NoReading
<1>7. CASE PutReading(Main)
  BY <1>1, <1>2, <1>3, <1>7, StatisticsAssumption DEF PutReading, ExitInv, TotalOnItsWay, NoReading
<1>8. CASE StopTimer
  BY <1>1, <1>2, <1>3, <1>8 DEF StopTimer, ExitInv, TotalOnItsWay, Control
<1> QED
  BY <1>4, <1>5, <1>6, <1>7, <1>8 DEF SavesLast, Take

(* flushState takes the total to the file, whoever runs it. *)
LEMMA FlushKeepsExit ==
  ASSUME TypeOK, Control, FileInv, ExitInv, FlushStep
  PROVE  ExitInv'
<1>1. Main \in Takers /\ Main # "timer" /\ \A l \in Learners : l # Main /\ l \in Takers
  BY StatisticsAssumption DEF Takers, Main
<1>2. mpc' = mpc /\ stopCleanup' = stopCleanup
  BY DEF FlushStep, poolVars, stopVars
<1>3. \A l \in Learners : spc'[l] = spc[l]
  BY <1>1 DEF FlushStep, Flush, FlushTimerFires, FlushNothing, FlushBegins, FlushLoads, FlushSaves,
              FlushReturns, SGoto, takerVars, TypeOK, StatTypeOK
<1>4. CASE FlushTimerFires
  BY <1>2, <1>4, ExitUntouched DEF FlushTimerFires, counterVars, takerVars, fileVars
<1>5. ASSUME NEW w \in {"timer", Main}, FlushNothing(w)
      PROVE  ExitInv'
  <2>1. UNCHANGED <<taken, total, buf, flushMu, fpc, fst, uses, damaged, file>>
    BY <1>5 DEF FlushNothing, counterVars, fileVars
  <2>2. CASE w = Main
    <3>1. spc[Main] = "flush" /\ spc'[Main] = "idle" /\ flushMu = Nobody /\ buf = NoReading
      BY <1>1, <1>5, <2>2 DEF FlushNothing, Calls, FlushReturns, SGoto, TypeOK, StatTypeOK
    <3>2. fpc = "idle" /\ (damaged \/ file.total = total) /\ Nobody # Main
      BY <3>1, StatisticsAssumption DEF ExitInv, TotalOnItsWay, Control
    <3> QED
      BY <1>2, <1>3, <2>1, <3>1, <3>2 DEF ExitInv
  <2>3. CASE w # Main
    BY <1>2, <1>5, <2>1, <2>3, ExitUntouched DEF FlushNothing, FlushReturns
  <2> QED
    BY <2>2, <2>3
<1>6. ASSUME NEW w \in {"timer", Main}, FlushBegins(w)
      PROVE  ExitInv'
  <2>1. UNCHANGED <<spc, taken, total, uses, damaged, file>>
    BY <1>6 DEF FlushBegins, counterVars, takerVars, fileVars
  <2> QED
    BY <1>1, <1>2, <1>6, <2>1 DEF FlushBegins, Calls, ExitInv, TotalOnItsWay, HasState
<1>7. CASE FlushLoads
  <2>1. UNCHANGED <<spc, taken, total, buf, flushMu, fst>>
    BY <1>7 DEF FlushLoads, counterVars, takerVars
  <2>2. (damaged' \/ (~damaged /\ file'.total = file.total)) /\ uses' = uses
    BY <1>7, OthersKeepTotal DEF FlushLoads, Savers
  <2> QED
    BY <1>2, <1>7, <2>1, <2>2 DEF FlushLoads, ExitInv, TotalOnItsWay, HasState
<1>8. CASE FlushSaves
  <2>1. UNCHANGED <<taken, total, buf, uses>> /\ flushMu' = Nobody /\ fpc' = "idle"
    BY <1>8 DEF FlushSaves, UpdateSave, counterVars
  <2>2. damaged' \/ (~damaged /\ file'.total = fst.total)
    <3>1. loaded["flush"] \in State
      BY DEF TypeOK, FileTypeOK, Savers
    <3>2. FlushSets(loaded["flush"]).total = fst.total
      BY <3>1 DEF FlushSets, State
    <3> QED
      BY <1>8, <3>2 DEF FlushSaves, UpdateSave, TypeOK, FileTypeOK
  <2>3. CASE flushMu = Main
    BY <1>1, <1>2, <1>3, <1>8, <2>1, <2>2, <2>3, StatisticsAssumption
       DEF FlushSaves, FlushReturns, SGoto, TypeOK, StatTypeOK, ExitInv, TotalOnItsWay, HasState
  <2>4. CASE flushMu # Main
    <3>1. spc' = spc
      BY <1>8, <2>4 DEF FlushSaves, FlushReturns
    <3> QED
      BY <1>1, <1>2, <1>8, <2>1, <2>2, <3>1, StatisticsAssumption
         DEF FlushSaves, ExitInv, TotalOnItsWay, HasState
  <2> QED
    BY <2>3, <2>4
<1> QED
  BY <1>4, <1>5, <1>6, <1>7, <1>8 DEF FlushStep, Flush

(* Every step of the process keeps ExitInv. *)
LEMMA StepKeepsExit ==
  ASSUME TypeOK, Control, FileInv, ExitInv, [Next]_vars
  PROVE  ExitInv'
<1> USE DEF statVars, poolVars, stopVars, counterVars, takerVars, flushVars
<1>1. ASSUME NEW l \in Learners, LearnStep(l)
      PROVE  ExitInv'
  BY <1>1, LearnKeepsExit
<1>2. CASE FlushStep
  BY <1>2, FlushKeepsExit
<1>3. CASE SavesLast
  BY <1>3, MainKeepsExit
<1>4. CASE ResetStep
  <2>1. UNCHANGED <<mpc, stopCleanup, spc, taken, total, buf, flushMu, fpc, fst>>
    BY <1>4 DEF ResetStep, Reset, ResetBegins, ResetStores, ResetLoads, ResetSaves, ResetEnds
  <2>2. CASE UNCHANGED fileVars
    BY <2>1, <2>2, ExitUntouched DEF fileVars
  <2>3. CASE ResetLoads \/ ResetSaves
    BY <2>1, <2>3, ExitUntouched, OthersKeepTotal
       DEF ResetLoads, ResetSaves, Savers, FileInv, HoldsUpdateMu
  <2> QED
    BY <1>4, <2>2, <2>3 DEF ResetStep, Reset, ResetBegins, ResetStores, ResetEnds
<1>5. CASE UpdateStep
  <2>1. UNCHANGED <<mpc, stopCleanup, spc, taken, total, buf, flushMu, fpc, fst>>
    BY <1>5 DEF UpdateStep
  <2>2. CASE UNCHANGED fileVars
    BY <2>1, <2>2, ExitUntouched DEF fileVars
  <2>3. CASE UpdaterLoads \/ UpdaterSaves
    BY <2>1, <2>3, ExitUntouched, OthersKeepTotal
       DEF UpdaterLoads, UpdaterSaves, Savers, FileInv, HoldsUpdateMu
  <2> QED
    BY <1>5, <2>2, <2>3 DEF UpdateStep, Update, UpdateDue, Download, CheckList, RenameList,
                            ReloadList, RecordResult
<1>6. CASE CleanupStep
  <2>1. UNCHANGED <<mpc, stopCleanup, spc, taken, total, buf, flushMu, fpc, fst>>
    BY <1>6 DEF CleanupStep, Cleanup, TimerFires, CleanupEnds, HealthBegins,
                HealthPasses, HealthFails, BackoffOver, BackoffStopped, Snapshot, SendWork, SendStopped, AllSent, WorkersDone,
                SaveTime, CleanupReturns
  <2>2. CASE UNCHANGED fileVars
    BY <2>1, <2>2, ExitUntouched DEF fileVars
  <2>3. CASE UpdateLoad("cleanup") \/ (cpc = "saving" /\ UpdateSave("cleanup", CleanupSets(loaded["cleanup"]), CleanupSets(saved)))
    BY <2>1, <2>3, ExitUntouched, OthersKeepTotal DEF Savers, FileInv, HoldsUpdateMu
  <2> QED
    BY <1>6, <2>2, <2>3 DEF CleanupStep
<1>7. ASSUME NEW w \in Workers, WorkerStep(w)
      PROVE  ExitInv'
  BY <1>7, ExitUntouched
     DEF WorkerStep, Worker, Receive, ChannelClosed, CheckStop, Validate, ValidateExchange,
         AppendInvalid, fileVars
<1>8. CASE StopMetrics \/ StopResolving \/ StopUpdater
  BY <1>8 DEF StopMetrics, StopResolving, StopResolver, StopUpdater, MGoto, fileVars, ExitInv,
              TotalOnItsWay, HasState
<1>9. CASE StopSaving
  <2>1. Main \in Takers /\ \A l \in Learners : l # Main /\ l \in Takers
    BY StatisticsAssumption DEF Takers
  <2>2. spc[Main] = "idle" /\ flushMu # Main
    BY <1>9 DEF StopSaving, ExitInv
  <2>3. spc'[Main] = (IF HasState THEN "total" ELSE "idle") /\ \A l \in Learners : spc'[l] = "idle"
    BY <1>9, <2>1 DEF StopSaving, SGoto, TypeOK, StatTypeOK
  <2>4. mpc' = "saving" /\ stopCleanup' = TRUE /\ flushMu' = flushMu /\ uses' = uses
    BY <1>9 DEF StopSaving, StopStore, MGoto, fileVars
  <2> QED
    BY <2>2, <2>3, <2>4 DEF ExitInv, HasState
<1>10. CASE Exit \/ Crash
  <2>1. mpc' = "down" /\ flushMu' = Nobody /\ spc' = [t \in Takers |-> "idle"]
    BY <1>10 DEF Exit, Crash, Gone, StatsAfterExit, MGoto
  <2> QED
    BY <2>1, StatisticsAssumption DEF ExitInv, Takers
<1>11. CASE Start
  BY <1>11 DEF Start, StatsRestored, MGoto, ExitInv
<1>12. CASE World
  <2>1. UNCHANGED <<mpc, stopCleanup, spc, taken, total, buf, flushMu, fpc, fst, fileVars>>
    BY <1>12 DEF World, NewDay, Publish
  <2> QED
    BY <2>1, ExitUntouched DEF fileVars
<1>13. CASE UNCHANGED vars
  BY <1>13, ExitUntouched DEF vars, fileVars
<1> QED
  BY <1>1, <1>2, <1>3, <1>4, <1>5, <1>6, <1>7, <1>8, <1>9, <1>10, <1>11, <1>12, <1>13
     DEF Next, Shutdown

(* ExitInv is an invariant of the composed system. *)
LEMMA ExitInvariant == Spec => []ExitInv
<1>1. Init => ExitInv
  BY StatisticsAssumption DEF Init, StatInit, NothingRuns, ExitInv, Takers
<1>2. TypeOK /\ Control /\ FileInv /\ ExitInv /\ [Next]_vars => ExitInv'
  BY StepKeepsExit
<1> QED
  BY <1>1, <1>2, TypeCorrect, ControlInvariant, FileInvariant, PTL DEF Spec

(* Store.Stop: when main is about to return from an orderly shutdown the   *)
(* state file holds the total, for any number of request goroutines and    *)
(* whatever the timer's callback, the reset, the updater and the cleanup   *)
(* do meanwhile, unless a load or a save has failed.                       *)
THEOREM ShutdownSavesTotal == Spec => []ExitSavesTotal
<1>1. ExitInv => ExitSavesTotal
  BY DEF ExitInv, ExitSavesTotal
<1> QED
  BY <1>1, ExitInvariant, PTL

-----------------------------------------------------------------------------
(* The count of today *)

(* resetDailyStats runs as long as main serves, and nothing is left of the *)
(* statistics in memory when the process is gone.                          *)
Lifetime ==
  /\ mpc = "serve" => rpc # "ended"
  /\ mpc = "down" =>
       /\ spc = [t \in Takers |-> "idle"]
       /\ taken = [t \in Takers |-> NoReading]
       /\ buf = NoReading /\ fst = NoReading /\ fpc = "idle"
       /\ ~resetDue

(* Lifetime is an invariant of the composed system. *)
LEMMA LifetimeInvariant == Spec => []Lifetime
<1>1. Init => Lifetime
  BY DEF Init, StatInit, NothingRuns, Lifetime
<1>2. TypeOK /\ Control /\ Lifetime /\ [Next]_vars => Lifetime'
  <2> SUFFICES ASSUME TypeOK, Control, Lifetime, [Next]_vars PROVE Lifetime'
    OBVIOUS
  <2> USE DEF Lifetime, statVars, counterVars, takerVars, flushVars, resetVars
  <2>1. ASSUME NEW l \in Learners, LearnStep(l)
        PROVE  Lifetime'
    <3>1. l \in Takers
      BY DEF Takers
    <3>2. mpc # "down" /\ mpc' = mpc /\ rpc' = rpc
      BY <2>1, <3>1 DEF LearnStep, Running, CountName, CheckCount, Take, TakeTotal, TakeMidnight,
                        TakeDate, PutReading
    <3> QED
      BY <3>2
  <2>2. CASE FlushStep
    <3>1. mpc' = mpc /\ rpc' = rpc /\ resetDue' = resetDue
      BY <2>2 DEF FlushStep, Flush, FlushTimerFires, FlushNothing, FlushBegins, FlushLoads, FlushSaves
    <3>2. ASSUME mpc = "down"
          PROVE  UNCHANGED <<spc, taken, buf, fst, fpc>>
      <4>1. spc[Main] # "flush"
        BY <3>2, StatisticsAssumption DEF Takers
      <4> QED
        BY <2>2, <3>2, <4>1 DEF FlushStep, Flush, FlushTimerFires, FlushNothing, FlushBegins,
                                FlushLoads, FlushSaves, Calls, FlushReturns
    <3> QED
      BY <3>1, <3>2
  <2>3. CASE ResetStep
    <3>1. mpc # "down"
      BY <2>3 DEF Control, ResetStep, Reset, ResetBegins, ResetStores, ResetLoads, ResetSaves
    <3> QED
      BY <2>3, <3>1
         DEF ResetStep, Reset, ResetBegins, ResetStores, ResetLoads, ResetSaves, ResetEnds
  <2>4. CASE UpdateStep \/ CleanupStep
    BY <2>4, SMT DEF UpdateStep, CleanupStep
  <2>5. ASSUME NEW w \in Workers, WorkerStep(w)
        PROVE  Lifetime'
    BY <2>5 DEF WorkerStep
  <2>6. CASE StopMetrics \/ StopResolving \/ StopSaving \/ StopUpdater
    <3>1. mpc' \notin {"serve", "down"}
      BY <2>6 DEF StopMetrics, StopResolving, StopSaving, StopUpdater, MGoto
    <3> QED
      BY <3>1
  <2>7. CASE SavesLast
    <3>1. Main \in Takers
      BY DEF Takers
    <3>2. mpc # "down" /\ mpc' = mpc /\ rpc' = rpc
      BY <2>7, <3>1 DEF SavesLast, Take, TakeTotal, TakeMidnight, TakeDate, PutReading, StopTimer
    <3> QED
      BY <3>2
  <2>8. CASE Exit \/ Crash
    BY <2>8 DEF Exit, Crash, Gone, StatsAfterExit, MGoto
  <2>9. CASE Start
    BY <2>9 DEF Start, StatsRestored, MGoto
  <2>10. CASE World
    <3>1. UNCHANGED <<mpc, rpc, spc, taken, buf, fst, fpc>>
      BY <2>10 DEF World, NewDay
    <3>2. mpc = "down" => ~resetDue'
      <4>1. CASE NewDay
        BY <4>1 DEF NewDay, Control
      <4>2. CASE UNCHANGED statVars
        BY <4>2
      <4> QED
        BY <2>10, <4>1, <4>2 DEF World
    <3> QED
      BY <3>1, <3>2
  <2>11. CASE UNCHANGED vars
    BY <2>11 DEF vars
  <2> QED
    BY <2>1, <2>2, <2>3, <2>4, <2>5, <2>6, <2>7, <2>8, <2>9, <2>10, <2>11 DEF Next, Shutdown
<1> QED
  BY <1>1, <1>2, TypeCorrect, ControlInvariant, PTL DEF Spec

(* LearnedTodayIsRight is about two counters while main serves.  A restart *)
(* takes them from the file, so that they are right only if the file is;   *)
(* what is written there was read earlier, perhaps the day before.  The    *)
(* invariant follows the counts of a day from memory into the readings,    *)
(* into the file, and back.                                                *)

(* Is the count exact, or only bounded? *)
Exact == HasState /\ ~crashed /\ ~damaged /\ Before > 0

(* t names in all, m at midnight *)
AddsUp(t, m) == IF Exact THEN t = m + learned ELSE t <= m + learned

(* A reading is old, or has the count at midnight of today. *)
ReadingOK(r) ==
  /\ r.total <= total /\ r.date <= day /\ r.of <= day
  /\ r.of = day => midnightOf = day /\ r.atMidnight = midnight

Complete(r) == r.date = r.of

ReadInv ==
  /\ \A t \in Takers : ReadingOK(taken[t]) /\ (spc[t] = "put" => Complete(taken[t]))
  /\ ReadingOK(buf) /\ Complete(buf)
  /\ ReadingOK(fst) /\ Complete(fst)

(* Until the reset has stored the count at midnight, the file has nothing  *)
(* of the new day.                                                         *)
DateInv ==
  /\ midnightOf <= day /\ file.date <= day
  /\ resetDue => midnightOf # day
  /\ rpc = "store" => midnightOf # day /\ ~resetDue
  /\ rpc \in {"load", "save"} => midnightOf = day /\ rtotal = midnight
  /\ mpc # "down" /\ midnightOf # day =>
       file.date # day /\ (resetDue \/ rpc \in {"store", "ended"})

CountInv ==
  mpc # "down" =>
    /\ file.total <= total
    /\ rpc = "store" => AddsUp(total, rtotal)
    /\ rpc # "store" /\ (rpc # "ended" \/ midnightOf = day) => AddsUp(total, midnight)

FileCounts == file.date = day => file.total <= RestoredMidnight(file) + learned

(* What makes the count exact: a count of 0 at midnight never occurs, and  *)
(* a process that has stopped in order has left the counts in the file.    *)
ExactInv ==
  Exact =>
    /\ mpc # "down" =>
         midnight > 0 /\ total > 0 /\ (rpc \in {"store", "load", "save"} => rtotal > 0)
    /\ file.date = day => file.atMidnight > 0 /\ (mpc # "down" => file.atMidnight = midnight)
    /\ mpc = "down" =>
         /\ file.total > 0
         /\ IF file.date = day THEN file.total = RestoredMidnight(file) + learned ELSE learned = 0

Stats == ReadInv /\ DateInv /\ CountInv /\ FileCounts /\ ExactInv

(* Nothing has been learned today, or everything was learned before. *)
NoneToday == learned = 0 \/ resetDue

(* The date that the file will have once main has saved *)
SavedDate ==
  IF spc[Main] = "put" THEN taken[Main].date
  ELSE IF buf # NoReading THEN buf.date
  ELSE IF fpc # "idle" THEN fst.date
  ELSE file.date

LastSave ==
  Exact /\ mpc \in {"saving", "exit"} /\ spc[Main] \in {"put", "stop", "flush", "idle"} =>
    NoneToday \/ SavedDate = day

TodayInv == torn \/ (Stats /\ LastSave)

(* The four fields of the statistics stay in the file, or are lost with it. *)
StatsKept ==
  /\ uses' = uses
  /\ damaged => damaged'
  /\ \/ /\ file'.date = file.date /\ file'.today = file.today
        /\ file'.atMidnight = file.atMidnight /\ file'.total = file.total
     \/ damaged' /\ file'.date = 0 /\ file'.total = 0

(* Loads, and the saves of the updater and the cleanup, keep the fields of *)
(* the statistics in the file.                                             *)
LEMMA OthersKeepStats ==
  ASSUME TypeOK, FileInv,
         \/ updateMu = "updater" /\ UpdateSave("updater", UpdaterSets(loaded["updater"]), UpdaterSets(saved))
         \/ updateMu = "cleanup" /\ UpdateSave("cleanup", CleanupSets(loaded["cleanup"]), CleanupSets(saved))
         \/ \E w \in Savers : UpdateLoad(w)
         \/ UNCHANGED fileVars
  PROVE  StatsKept
<1>1. CASE (\E w \in Savers : UpdateLoad(w)) \/ UNCHANGED fileVars
  <2>1. uses' = uses /\ file' = file /\ (damaged => damaged')
    BY <1>1 DEF UpdateLoad, fileVars, TypeOK, FileTypeOK
  <2> QED
    BY <2>1 DEF StatsKept
<1>2. ASSUME NEW w \in {"updater", "cleanup"}, updateMu = w
      PROVE  /\ loaded[w] \in State
             /\ loaded[w] = file \/ (damaged /\ loaded[w] = ZeroState)
  BY <1>2, StateFileAssumption DEF FileInv, CopyIsCurrent, TypeOK, FileTypeOK, Savers
<1>3. ASSUME NEW w \in {"updater", "cleanup"}, NEW st, NEW kept, updateMu = w,
             UpdateSave(w, st, kept),
             st.date = loaded[w].date, st.today = loaded[w].today,
             st.atMidnight = loaded[w].atMidnight, st.total = loaded[w].total
      PROVE  StatsKept
  <2>1. uses' = uses /\ (damaged => damaged')
    BY <1>3 DEF UpdateSave, TypeOK, FileTypeOK
  <2>2. file' = st \/ (damaged' /\ file' = file)
    BY <1>3 DEF UpdateSave
  <2>3. ZeroState.date = 0 /\ ZeroState.total = 0
    BY DEF ZeroState
  <2> QED
    BY <1>2, <1>3, <2>1, <2>2, <2>3 DEF StatsKept
<1>4. \A st \in State :
        /\ UpdaterSets(st).date = st.date /\ UpdaterSets(st).today = st.today
        /\ UpdaterSets(st).atMidnight = st.atMidnight /\ UpdaterSets(st).total = st.total
        /\ CleanupSets(st).date = st.date /\ CleanupSets(st).today = st.today
        /\ CleanupSets(st).atMidnight = st.atMidnight /\ CleanupSets(st).total = st.total
  BY DEF UpdaterSets, CleanupSets, State
<1>5. CASE updateMu = "updater" /\ UpdateSave("updater", UpdaterSets(loaded["updater"]), UpdaterSets(saved))
  BY <1>2, <1>3, <1>4, <1>5
<1>6. CASE updateMu = "cleanup" /\ UpdateSave("cleanup", CleanupSets(loaded["cleanup"]), CleanupSets(saved))
  BY <1>2, <1>3, <1>4, <1>6
<1> QED
  BY <1>1, <1>5, <1>6

(* Readings that nobody touches *)
LEMMA ReadingsStay ==
  ASSUME TypeOK, ReadInv, UNCHANGED <<taken, buf, fst>>,
         \A t \in Takers : spc'[t] = "put" => spc[t] = "put",
         \A r \in Reading : ReadingOK(r) => ReadingOK(r)'
  PROVE  ReadInv'
<1>1. buf \in Reading /\ fst \in Reading /\ \A t \in Takers : taken[t] \in Reading
  BY DEF TypeOK, StatTypeOK
<1>2. ReadingOK(buf)' /\ ReadingOK(fst)'
  <2>1. ASSUME NEW r \in Reading, ReadingOK(r)
        PROVE  /\ r.total <= total' /\ r.date <= day' /\ r.of <= day'
               /\ r.of = day' => midnightOf' = day' /\ r.atMidnight = midnight'
    BY <2>1 DEF ReadingOK
  <2> QED
    BY <1>1, <2>1 DEF ReadInv, ReadingOK
<1>3. ASSUME NEW t \in Takers
      PROVE  ReadingOK(taken[t])'
  <2>1. ASSUME NEW r \in Reading, ReadingOK(r)
        PROVE  /\ r.total <= total' /\ r.date <= day' /\ r.of <= day'
               /\ r.of = day' => midnightOf' = day' /\ r.atMidnight = midnight'
    BY <2>1 DEF ReadingOK
  <2> QED
    BY <1>1, <2>1 DEF ReadInv, ReadingOK
<1> QED
  BY <1>2, <1>3 DEF ReadInv, Complete

(* A step that touches none of the counts *)
LEMMA StatsUntouched ==
  ASSUME TypeOK, TypeOK', Stats, StatsKept,
         UNCHANGED <<counterVars, taken, buf, fst, rtotal, resetDue, crashed>>,
         rpc' = rpc \/ (rpc = "load" /\ rpc' = "save"),
         mpc' = "down" <=> mpc = "down",
         \A t \in Takers : spc'[t] = "put" => spc[t] = "put"
  PROVE  Stats'
<1> USE DEF counterVars
<1>1. ReadInv'
  BY ReadingsStay DEF Stats, ReadingOK
<1>2. day > 0 /\ total \in Nat /\ midnight \in Nat /\ learned \in Nat /\ day \in Nat
  BY SMT DEF TypeOK, StatTypeOK
<1>3. Exact' => Exact /\ RestoredMidnight(file)' = RestoredMidnight(file)
  BY DEF Exact, StatsKept, HasState, RestoredMidnight
<1>4. DateInv'
  BY <1>2, SMT DEF Stats, StatsKept, DateInv
<1>5. CountInv'
  BY <1>2, <1>3, SMT DEF Stats, StatsKept, CountInv, AddsUp
<1>6. FileCounts'
  BY <1>2, SMT DEF Stats, StatsKept, FileCounts, RestoredMidnight
<1>7. ExactInv'
  BY <1>2, <1>3 DEF Stats, StatsKept, ExactInv, Exact
<1> QED
  BY <1>1, <1>4, <1>5, <1>6, <1>7 DEF Stats

(* The types that the arithmetic below rests on *)
LEMMA CountsAreNumbers ==
  ASSUME TypeOK
  PROVE  /\ day \in Nat /\ day > 0 /\ midnightOf \in Nat
         /\ total \in Nat /\ midnight \in Nat /\ learned \in Nat /\ rtotal \in Nat
         /\ file.date \in Nat /\ file.today \in Nat
         /\ file.atMidnight \in Nat /\ file.total \in Nat
         /\ buf \in Reading /\ fst \in Reading
         /\ \A t \in Takers : taken[t] \in Reading
         /\ NoReading \in Reading
         /\ \A r \in Reading : r.total \in Nat /\ r.atMidnight \in Nat /\ r.date \in Nat /\ r.of \in Nat
         /\ torn \in BOOLEAN /\ crashed \in BOOLEAN /\ damaged \in BOOLEAN /\ resetDue \in BOOLEAN
  BY StatisticsAssumption, SMT DEF TypeOK, StatTypeOK, FileTypeOK, State, Reading, NoReading

(* An empty reading is harmless. *)
LEMMA NoReadingOK ==
  ASSUME TypeOK
  PROVE  ReadingOK(NoReading) /\ Complete(NoReading)
  BY CountsAreNumbers, SMT DEF ReadingOK, Complete, NoReading

(* Only the readings change. *)
LEMMA ReadersKeepStats ==
  ASSUME Stats, ReadInv', UNCHANGED <<counterVars, resetVars, crashed, fileVars, mpc>>
  PROVE  Stats'
<1> USE DEF counterVars, resetVars, fileVars
<1>1. Exact' = Exact /\ RestoredMidnight(file)' = RestoredMidnight(file)
  BY DEF Exact, HasState, RestoredMidnight
<1>2. DateInv' /\ FileCounts'
  BY <1>1 DEF Stats, DateInv, FileCounts
<1>3. CountInv'
  BY <1>1 DEF Stats, CountInv, AddsUp
<1>4. ExactInv'
  BY <1>1 DEF Stats, ExactInv
<1> QED
  BY <1>2, <1>3, <1>4 DEF Stats

(* saveLearnedToday: the count at midnight belongs to the day of the date, *)
(* or the save is marked as torn.                                          *)
LEMMA TakeKeepsStats ==
  ASSUME TypeOK, TypeOK', Stats, ~torn', NEW t \in Takers, Take(t), mpc' = mpc
  PROVE  Stats'
<1>1. UNCHANGED <<counterVars, resetVars, crashed, fileVars>>
  BY DEF Take, TakeTotal, TakeMidnight, TakeDate, PutReading
<1>2. UNCHANGED <<day, total, midnight, midnightOf, fst>>
  BY DEF Take, TakeTotal, TakeMidnight, TakeDate, PutReading, counterVars, flushVars
<1>3. \A u \in Takers \ {t} : taken'[u] = taken[u] /\ spc'[u] = spc[u]
  BY DEF Take, TakeTotal, TakeMidnight, TakeDate, PutReading, SGoto, TypeOK, StatTypeOK
<1>4. ReadingOK(taken[t])
  BY DEF Stats, ReadInv
<1>5. /\ ReadingOK(taken[t])' /\ (spc'[t] = "put" => Complete(taken[t])')
      /\ ReadingOK(buf)' /\ Complete(buf)'
  <2> USE DEF SGoto
  <2>1. taken[t] \in Reading /\ taken \in [Takers -> Reading] /\ DOMAIN spc = Takers
    BY DEF TypeOK, StatTypeOK
  <2>2. CASE TakeTotal(t)
    BY <1>2, <1>4, <2>1, <2>2, CountsAreNumbers, SMT
       DEF TakeTotal, flushVars, Stats, ReadInv, ReadingOK, Complete, Reading
  <2>3. CASE TakeMidnight(t)
    BY <1>2, <1>4, <2>1, <2>3, CountsAreNumbers
       DEF TakeMidnight, flushVars, Stats, ReadInv, DateInv, ReadingOK, Complete, Reading
  <2>4. CASE TakeDate(t)
    <3>1. taken[t].of = day
      BY <2>4 DEF TakeDate
    <3> QED
      BY <1>2, <1>4, <2>1, <2>4, <3>1, CountsAreNumbers
         DEF TakeDate, flushVars, Stats, ReadInv, ReadingOK, Complete, Reading
  <2>5. CASE PutReading(t)
    BY <1>2, <1>4, <2>1, <2>5, CountsAreNumbers, SMT
       DEF PutReading, Stats, ReadInv, ReadingOK, Complete, NoReading
  <2> QED
    BY <2>2, <2>3, <2>4, <2>5 DEF Take
<1>6. ReadInv'
  BY <1>2, <1>3, <1>5 DEF Stats, ReadInv, ReadingOK, Complete
<1> QED
  BY <1>1, <1>6, ReadersKeepStats

(* Add: the name is counted in the total and for today. *)
LEMMA CountKeepsStats ==
  ASSUME TypeOK, TypeOK', Stats, NEW l \in Learners, CountName(l), mpc # "down", mpc' = mpc
  PROVE  Stats'
<1> USE DEF flushVars, resetVars, fileVars
<1>1. /\ total' = total + 1 /\ learned' = learned + 1
      /\ UNCHANGED <<day, midnight, midnightOf, taken, buf, fst, rpc, rtotal, resetDue, crashed,
                     uses, file, damaged>>
  BY DEF CountName
<1>2. \A t \in Takers : spc'[t] = "put" => spc[t] = "put"
  BY DEF CountName, SGoto, TypeOK, StatTypeOK
<1>3. ReadInv'
  <2>1. \A r \in Reading : ReadingOK(r) => ReadingOK(r)'
    BY <1>1, CountsAreNumbers, SMT DEF ReadingOK
  <2> QED
    BY <1>1, <1>2, <2>1, ReadingsStay DEF Stats
<1>4. Exact' = Exact /\ RestoredMidnight(file)' = RestoredMidnight(file) /\ RestoredMidnight(file) \in Int
  BY <1>1, CountsAreNumbers, SMT DEF Exact, HasState, RestoredMidnight
<1>5. DateInv'
  BY <1>1 DEF Stats, DateInv
<1>6. CountInv'
  BY <1>1, <1>4, CountsAreNumbers, SMT DEF Stats, CountInv, AddsUp
<1>7. FileCounts'
  BY <1>1, <1>4, CountsAreNumbers, SMT DEF Stats, FileCounts
<1>8. ExactInv'
  BY <1>1, <1>4, CountsAreNumbers, SMT DEF Stats, ExactInv
<1> QED
  BY <1>3, <1>5, <1>6, <1>7, <1>8 DEF Stats

(* flushState writes a reading that is of today and right, or is older. *)
LEMMA FlushKeepsStats ==
  ASSUME TypeOK, TypeOK', Control, FileInv, Lifetime, Stats, FlushStep
  PROVE  Stats'
<1> USE DEF counterVars, takerVars, resetVars
<1>1. UNCHANGED <<mpc, counterVars, resetVars, crashed, taken>>
  BY DEF FlushStep, Flush, FlushTimerFires, FlushNothing, FlushBegins, FlushLoads, FlushSaves
<1>2. \A t \in Takers : spc'[t] = "put" => spc[t] = "put"
  BY DEF FlushStep, Flush, FlushTimerFires, FlushNothing, FlushBegins, FlushLoads, FlushSaves,
         FlushReturns, SGoto, TypeOK, StatTypeOK
<1>3. \A r \in Reading : ReadingOK(r) => ReadingOK(r)'
  BY <1>1 DEF ReadingOK
<1>4. CASE FlushTimerFires \/ FlushLoads \/ \E w \in {"timer", Main} : FlushNothing(w)
  <2>1. StatsKept
    BY <1>4, OthersKeepStats DEF FlushTimerFires, FlushLoads, FlushNothing, Savers
  <2>2. UNCHANGED <<buf, fst>>
    BY <1>4 DEF FlushTimerFires, FlushLoads, FlushNothing
  <2> QED
    BY <1>1, <1>2, <2>1, <2>2, StatsUntouched
<1>5. ASSUME NEW w \in {"timer", Main}, FlushBegins(w)
      PROVE  Stats'
  <2>1. fst' = buf /\ buf' = NoReading /\ UNCHANGED <<spc, fileVars>>
    BY <1>5 DEF FlushBegins
  <2>2. ReadInv'
    BY <1>1, <2>1, NoReadingOK, CountsAreNumbers DEF Stats, ReadInv, ReadingOK, Complete
  <2> QED
    BY <1>1, <2>1, <2>2, ReadersKeepStats
<1>6. CASE FlushSaves
  <2>1. fst' = NoReading /\ UNCHANGED buf
    BY <1>6 DEF FlushSaves
  <2>2. ReadInv'
    BY <1>1, <1>2, <2>1, NoReadingOK, CountsAreNumbers DEF Stats, ReadInv, ReadingOK, Complete
  <2>3. mpc # "down"
    BY <1>6 DEF FlushSaves, Lifetime
  <2>4. uses' = uses /\ (damaged => damaged')
    BY <1>6, SMT DEF FlushSaves, UpdateSave, TypeOK, FileTypeOK
  <2>5. \/ damaged' /\ file' = file
        \/ /\ file'.date = fst.date /\ file'.total = fst.total
           /\ file'.atMidnight = fst.atMidnight /\ file'.today = Today(fst.total, fst.atMidnight)
    <3>1. loaded["flush"] \in State
      BY DEF TypeOK, FileTypeOK, Savers
    <3> QED
      BY <1>6, <3>1 DEF FlushSaves, UpdateSave, FlushSets, State
  <2>6. Exact' => Exact /\ ~damaged'
    BY <1>1, <2>4 DEF Exact, HasState
  <2>7. CASE damaged' /\ file' = file
    <3>1. DateInv' /\ FileCounts'
      BY <1>1, <2>7 DEF Stats, DateInv, FileCounts, RestoredMidnight
    <3>2. CountInv'
      BY <1>1, <2>6, <2>7, CountsAreNumbers, SMT DEF Stats, CountInv, AddsUp
    <3>3. ExactInv'
      BY <2>6, <2>7 DEF ExactInv
    <3> QED
      BY <2>2, <3>1, <3>2, <3>3 DEF Stats
  <2>8. CASE /\ file'.date = fst.date /\ file'.total = fst.total
             /\ file'.atMidnight = fst.atMidnight /\ file'.today = Today(fst.total, fst.atMidnight)
    <3>1. /\ fst.total <= total /\ fst.date <= day
          /\ fst.date = day => midnightOf = day /\ fst.atMidnight = midnight
      BY DEF Stats, ReadInv, ReadingOK, Complete
    <3>2. DateInv'
      BY <1>1, <2>8, <3>1 DEF Stats, DateInv
    <3>3. CountInv'
      BY <1>1, <2>6, <2>8, <3>1, CountsAreNumbers, SMT DEF Stats, CountInv, AddsUp
    <3>4. FileCounts'
      <4> SUFFICES ASSUME fst.date = day
                   PROVE  fst.total <= RestoredMidnight(file)' + learned
        BY <1>1, <2>8 DEF FileCounts
      <4>1. total <= midnight + learned
        BY <2>3, <3>1, CountsAreNumbers, SMT DEF Stats, DateInv, CountInv, AddsUp
      <4>2. CASE midnight > 0
        <5>1. RestoredMidnight(file)' = midnight
          BY <1>1, <2>8, <3>1, <4>2 DEF RestoredMidnight
        <5> QED
          BY <3>1, <4>1, <5>1, CountsAreNumbers, SMT
      <4>3. CASE midnight = 0
        <5>1. RestoredMidnight(file)' = 0
          BY <1>1, <2>8, <3>1, <4>3, CountsAreNumbers, SMT DEF RestoredMidnight, Today
        <5> QED
          BY <3>1, <4>1, <4>3, <5>1, CountsAreNumbers, SMT
      <4> QED
        BY <4>2, <4>3, CountsAreNumbers, SMT
    <3>5. ExactInv'
      BY <1>1, <2>3, <2>6, <2>8, <3>1 DEF Stats, ExactInv
    <3> QED
      BY <2>2, <3>2, <3>3, <3>4, <3>5 DEF Stats
  <2> QED
    BY <2>5, <2>7, <2>8
<1> QED
  BY <1>4, <1>5, <1>6 DEF FlushStep, Flush

(* resetDailyStats: the total of its first step is the count at midnight,  *)
(* from the moment it is stored; the file gets it after that.              *)
LEMMA ResetKeepsStats ==
  ASSUME TypeOK, TypeOK', Control, FileInv, Stats, ResetStep
  PROVE  Stats'
<1> USE DEF counterVars, takerVars, flushVars
<1>1. UNCHANGED <<mpc, day, total, spc, taken, buf, fst, crashed>>
  BY DEF ResetStep, Reset, ResetBegins, ResetStores, ResetLoads, ResetSaves, ResetEnds
<1>2. mpc # "down"
  BY DEF Control, ResetStep, Reset, ResetBegins, ResetStores, ResetLoads, ResetSaves
<1>3. ASSUME UNCHANGED fileVars
      PROVE  Exact' = Exact /\ RestoredMidnight(file)' = RestoredMidnight(file)
  BY <1>1, <1>3 DEF fileVars, Exact, HasState, RestoredMidnight
<1>4. CASE ResetBegins
  <2>1. /\ rpc = "wait" /\ resetDue /\ rtotal' = total /\ learned' = 0
        /\ ~resetDue' /\ rpc' = "store" /\ UNCHANGED <<midnight, midnightOf, fileVars>>
    BY <1>4 DEF ResetBegins
  <2>2. midnightOf # day /\ file.date # day /\ UNCHANGED <<file, uses, damaged>>
    BY <1>2, <2>1 DEF Stats, DateInv, fileVars
  <2>3. ReadInv'
    BY <1>1, <2>1, ReadingsStay DEF Stats, ReadingOK
  <2>4. DateInv' /\ FileCounts'
    BY <1>1, <2>1, <2>2 DEF Stats, DateInv, FileCounts
  <2>5. CountInv'
    BY <1>1, <1>2, <2>1, <2>2, CountsAreNumbers, SMT DEF Stats, CountInv, AddsUp
  <2>6. ExactInv'
    BY <1>1, <1>2, <1>3, <2>1, <2>2 DEF Stats, ExactInv
  <2> QED
    BY <2>3, <2>4, <2>5, <2>6 DEF Stats
<1>5. CASE ResetStores
  <2>1. /\ rpc = "store" /\ midnight' = rtotal /\ midnightOf' = day
        /\ rpc' \in {"load", "wait"} /\ (rpc' = "load" => rtotal' = rtotal)
        /\ UNCHANGED <<learned, resetDue, fileVars>>
    BY <1>5 DEF ResetStores
  <2>2. /\ midnightOf # day /\ file.date # day /\ ~resetDue
        /\ UNCHANGED <<file, uses, damaged>>
    BY <1>2, <2>1 DEF Stats, DateInv, fileVars
  <2>3. ReadInv'
    <3>1. \A r \in Reading : ReadingOK(r) => ReadingOK(r)'
      BY <1>1, <2>2 DEF ReadingOK
    <3> QED
      BY <1>1, <3>1, ReadingsStay DEF Stats
  <2>4. DateInv' /\ FileCounts'
    BY <1>1, <2>1, <2>2, CountsAreNumbers, SMT DEF Stats, DateInv, FileCounts
  <2>5. CountInv'
    BY <1>1, <1>2, <1>3, <2>1, <2>2, SMT DEF Stats, CountInv, AddsUp
  <2>6. ExactInv'
    BY <1>1, <1>2, <1>3, <2>1, <2>2 DEF Stats, ExactInv
  <2> QED
    BY <2>3, <2>4, <2>5, <2>6 DEF Stats
<1>6. CASE ResetLoads
  <2>1. StatsKept
    BY <1>6, OthersKeepStats DEF ResetLoads, Savers
  <2>2. rpc = "load" /\ rpc' = "save" /\ UNCHANGED <<counterVars, rtotal, resetDue>>
    BY <1>6 DEF ResetLoads
  <2> QED
    BY <1>1, <2>1, <2>2, StatsUntouched
<1>7. CASE ResetSaves
  <2>1. rpc = "save" /\ rpc' = "wait" /\ UNCHANGED <<counterVars, resetDue>>
    BY <1>7 DEF ResetSaves
  <2>2. midnightOf = day /\ rtotal = midnight /\ ~resetDue
    BY <2>1 DEF Stats, DateInv
  <2>3. uses' = uses /\ (damaged => damaged')
    BY <1>7 DEF ResetSaves, UpdateSave, TypeOK, FileTypeOK
  <2>4. Exact' => Exact /\ ~damaged'
    BY <1>1, <2>3 DEF Exact, HasState
  <2>5. \/ damaged' /\ file' = file
        \/ /\ file'.date = day /\ file'.today = 0 /\ file'.atMidnight = midnight
           /\ file'.total = file.total \/ file'.total = 0
    <3>1. updateMu = "reset" /\ updateMu # Nobody
      BY <2>1, StateFileAssumption DEF FileInv, HoldsUpdateMu, Savers
    <3>2. loaded["reset"] \in State /\ (loaded["reset"] = file \/ loaded["reset"] = ZeroState)
      BY <3>1 DEF FileInv, CopyIsCurrent, TypeOK, FileTypeOK, Savers
    <3>3. loaded["reset"].total = file.total \/ loaded["reset"].total = 0
      BY <3>2, SMT DEF ZeroState
    <3> QED
      BY <1>7, <2>2, <3>2, <3>3 DEF ResetSaves, UpdateSave, ResetSets, State
  <2>6. ReadInv'
    BY <1>1, <2>1, ReadingsStay DEF Stats, ReadingOK
  <2>7. DateInv'
    BY <1>1, <2>1, <2>2, <2>5, CountsAreNumbers DEF Stats, DateInv
  <2>8. CountInv'
    BY <1>1, <1>2, <2>1, <2>4, <2>5, CountsAreNumbers, SMT DEF Stats, CountInv, AddsUp
  <2>9. FileCounts'
    <3>1. file.total <= total /\ total <= midnight + learned
      BY <1>2, <2>1, <2>2, CountsAreNumbers, SMT DEF Stats, CountInv, AddsUp
    <3>2. CASE damaged' /\ file' = file
      BY <1>1, <2>1, <3>2 DEF Stats, FileCounts, RestoredMidnight
    <3>3. CASE file'.date = day /\ file'.today = 0 /\ file'.atMidnight = midnight
      <4> file'.total \in Nat
        BY DEF TypeOK, FileTypeOK, State
      <4>1. RestoredMidnight(file)' = IF midnight > 0 THEN midnight ELSE file'.total
        BY <1>1, <3>3, CountsAreNumbers, SMT DEF RestoredMidnight
      <4> QED
        BY <1>1, <2>1, <2>5, <3>1, <3>3, <4>1, CountsAreNumbers, SMT DEF Stats, FileCounts, RestoredMidnight
    <3> QED
      BY <2>5, <3>2, <3>3
  <2>10. ExactInv'
    BY <1>1, <1>2, <2>1, <2>4, <2>5 DEF Stats, ExactInv
  <2> QED
    BY <2>6, <2>7, <2>8, <2>9, <2>10 DEF Stats
<1>8. CASE ResetEnds
  <2>1. /\ rpc = "wait" /\ rpc' = "ended" /\ ~resetDue'
        /\ learned' = IF resetDue THEN 0 ELSE learned
        /\ UNCHANGED <<midnight, midnightOf, rtotal, fileVars>>
    BY <1>8 DEF ResetEnds
  <2>2. UNCHANGED <<file, uses, damaged>>
    BY <2>1 DEF fileVars
  <2>3. ReadInv'
    BY <1>1, <2>1, ReadingsStay DEF Stats, ReadingOK
  <2>4. DateInv' /\ FileCounts'
    BY <1>1, <1>2, <1>3, <2>1, <2>2 DEF Stats, DateInv, FileCounts
  <2>5. CountInv'
    BY <1>1, <1>2, <1>3, <2>1, <2>2, SMT DEF Stats, DateInv, CountInv, AddsUp
  <2>6. ExactInv'
    BY <1>1, <1>2, <1>3, <2>1, <2>2 DEF Stats, ExactInv
  <2> QED
    BY <2>3, <2>4, <2>5, <2>6 DEF Stats
<1> QED
  BY <1>4, <1>5, <1>6, <1>7, <1>8 DEF ResetStep, Reset

(* Midnight: what is in the file and what has been read is of an older day. *)
LEMMA NewDayKeepsStats ==
  ASSUME TypeOK, TypeOK', Control, Stats, NewDay, ~torn', mpc' = mpc
  PROVE  Stats'
<1> USE DEF flushVars, fileVars
<1>1. /\ day' = day + 1 /\ rpc \in {"wait", "ended"}
      /\ UNCHANGED <<total, midnight, midnightOf, spc, taken, buf, fst, rpc, rtotal, crashed, uses,
                     file, damaged>>
  BY DEF NewDay, TypeOK, StatTypeOK
<1>2. IF rpc = "ended" THEN ~resetDue' /\ learned' = 0 ELSE resetDue' /\ learned' = learned
  BY DEF NewDay
<1>3. Exact' = Exact
  BY <1>1 DEF Exact, HasState
<1>4. midnightOf # day' /\ file.date # day'
  BY <1>1, CountsAreNumbers, SMT DEF Stats, DateInv
<1>5. ReadInv'
  <2>1. \A r \in Reading : ReadingOK(r) => ReadingOK(r)'
    BY <1>1, CountsAreNumbers, SMT DEF ReadingOK
  <2> QED
    BY <1>1, <2>1, ReadingsStay DEF Stats
<1>6. DateInv' /\ FileCounts'
  BY <1>1, <1>2, <1>4, CountsAreNumbers, SMT DEF Stats, DateInv, FileCounts
<1>7. CountInv'
  BY <1>1, <1>2, <1>3, <1>4 DEF Stats, CountInv, AddsUp
<1>8. ExactInv'
  BY <1>1, <1>2, <1>3, <1>4 DEF Stats, ExactInv, Control
<1> QED
  BY <1>5, <1>6, <1>7, <1>8 DEF Stats

(* The process ends.  After an orderly shutdown the file has the total;    *)
(* and its date is of today, if any name has been learned today.           *)
LEMMA GoneKeepsStats ==
  ASSUME TypeOK, TypeOK', ExitInv, Stats, LastSave, Exit \/ Crash
  PROVE  Stats'
<1>1. /\ total' = 0 /\ midnight' = 0 /\ rpc' = "ended" /\ ~resetDue' /\ mpc' = "down"
      /\ learned' = IF resetDue THEN 0 ELSE learned
      /\ UNCHANGED <<day, midnightOf, uses, file, damaged>>
  BY DEF Exit, Crash, Gone, StatsAfterExit, FileAfterExit, MGoto
<1>2. mpc # "down" /\ (crashed => crashed')
  BY DEF Exit, Crash, Running, TypeOK, StatTypeOK
<1>3. Exact' => Exact /\ RestoredMidnight(file)' = RestoredMidnight(file)
  BY <1>1, <1>2 DEF Exact, HasState, RestoredMidnight
<1>4. ReadInv'
  <2>1. /\ buf' = NoReading /\ fst' = NoReading
        /\ \A t \in Takers : taken'[t] = NoReading /\ spc'[t] = "idle"
    BY DEF Exit, Crash, Gone, StatsAfterExit
  <2> QED
    BY <1>1, <2>1, CountsAreNumbers, SMT DEF ReadInv, ReadingOK, Complete, NoReading
<1>5. resetDue => file.date # day
  BY <1>2 DEF Stats, DateInv
<1>6. DateInv'
  BY <1>1 DEF Stats, DateInv
<1>7. CountInv'
  BY <1>1 DEF CountInv
<1>8. FileCounts'
  BY <1>1, <1>5 DEF Stats, FileCounts, RestoredMidnight
<1>9. ExactInv'
  <2> SUFFICES ASSUME Exact'
               PROVE  /\ file.date = day => file.atMidnight > 0
                      /\ file.total > 0
                      /\ IF file.date = day THEN file.total = RestoredMidnight(file) + learned'
                                            ELSE learned' = 0
    BY <1>1, <1>3 DEF ExactInv
  <2>1. Exit /\ Exact /\ HasState /\ ~damaged
    BY <1>3 DEF Crash, Exact
  <2>2. mpc = "exit" /\ spc[Main] = "idle" /\ buf = NoReading /\ fpc = "idle" /\ file.total = total
    BY <2>1 DEF Exit, ExitInv
  <2>3. total > 0 /\ (file.date = day => file.atMidnight > 0 /\ file.atMidnight = midnight)
    BY <1>2, <2>1 DEF Stats, ExactInv
  <2>4. CASE file.date = day
    <3>1. midnightOf = day /\ ~resetDue /\ rpc # "store"
      BY <1>2, <2>4 DEF Stats, DateInv
    <3>2. total = midnight + learned /\ RestoredMidnight(file) = midnight
      BY <1>2, <2>1, <2>3, <2>4, <3>1 DEF Stats, CountInv, AddsUp, RestoredMidnight
    <3> QED
      BY <1>1, <2>2, <2>3, <2>4, <3>1, <3>2
  <2>5. CASE file.date # day
    <3>1. NoneToday
      BY <2>1, <2>2, <2>5 DEF LastSave, SavedDate
    <3> QED
      BY <1>1, <2>2, <2>3, <2>5, <3>1 DEF NoneToday
  <2> QED
    BY <2>4, <2>5
<1> QED
  BY <1>4, <1>6, <1>7, <1>8, <1>9 DEF Stats

(* RestoreFromFile: what the file says of today is what memory gets, if it *)
(* could be read.                                                          *)
LEMMA StartKeepsStats ==
  ASSUME TypeOK, TypeOK', Lifetime, Stats, Start, ~torn'
  PROVE  Stats'
<1> USE DEF takerVars, flushVars, fileVars
<1>1. /\ mpc = "down" /\ mpc' = "serve" /\ rpc' = "wait"
      /\ total' = file.total /\ midnight' = RestoredMidnight(file) /\ midnightOf' = day
      /\ UNCHANGED <<day, learned, spc, taken, buf, fst, rtotal, resetDue, crashed, uses, file,
                     damaged>>
  <2>1. PICK st \in Loadable : StatsRestored(st)
    BY DEF Start
  <2>2. st = file
    BY <2>1 DEF StatsRestored
  <2> QED
    BY <2>1, <2>2 DEF Start, StatsRestored, MGoto
<1>2. ~resetDue /\ buf = NoReading /\ fst = NoReading
      /\ \A t \in Takers : spc[t] = "idle" /\ taken[t] = NoReading
  BY <1>1 DEF Lifetime
<1>3. Exact' = Exact /\ RestoredMidnight(file)' = RestoredMidnight(file)
  BY <1>1 DEF Exact, HasState, RestoredMidnight
<1> /\ day \in Nat /\ day > 0 /\ learned \in Nat
    /\ file.date \in Nat /\ file.today \in Nat /\ file.atMidnight \in Nat /\ file.total \in Nat
  BY CountsAreNumbers
<1>4. ReadInv'
  BY <1>1, <1>2, SMT DEF ReadInv, ReadingOK, Complete, NoReading
<1>5. DateInv' /\ FileCounts'
  BY <1>1, <1>2, <1>3, SMT DEF Stats, DateInv, FileCounts
<1>6. CountInv'
  <2>1. file.total <= RestoredMidnight(file) + learned
    BY <1>1, SMT DEF Stats, FileCounts, RestoredMidnight
  <2>2. Exact => file.total = RestoredMidnight(file) + learned
    BY <1>1, SMT DEF Stats, ExactInv, RestoredMidnight
  <2> QED
    BY <1>1, <1>3, <2>1, <2>2, SMT DEF CountInv, AddsUp
<1>7. ExactInv'
  BY <1>1, <1>3, CountsAreNumbers DEF Stats, ExactInv, RestoredMidnight
<1> QED
  BY <1>4, <1>5, <1>6, <1>7 DEF Stats

(* Every step keeps the counts right, until a save or a reset is torn, or  *)
(* a file that is not empty cannot be read at a start.                     *)
LEMMA StepKeepsStats ==
  ASSUME TypeOK, TypeOK', Control, FileInv, ExitInv, Lifetime, Stats, LastSave,
         ~torn', [Next]_vars
  PROVE  Stats'
<1> USE DEF statVars, counterVars, takerVars, flushVars, resetVars
<1>1. ASSUME NEW l \in Learners, LearnStep(l)
      PROVE  Stats'
  <2>1. l \in Takers /\ mpc' = mpc
    BY <1>1, LearnersComeFirst DEF Takers
  <2>2. CASE Running /\ CountName(l)
    BY <2>1, <2>2, CountKeepsStats DEF Running
  <2>3. CASE CheckCount(l)
    <3>1. StatsKept
      BY <2>3, OthersKeepStats DEF CheckCount
    <3>2. \A t \in Takers : spc'[t] = "put" => spc[t] = "put"
      BY <2>3 DEF CheckCount, SGoto, TypeOK, StatTypeOK
    <3> QED
      BY <2>1, <2>3, <3>1, <3>2, StatsUntouched DEF CheckCount
  <2>4. CASE Take(l)
    BY <2>1, <2>4, TakeKeepsStats
  <2> QED
    BY <1>1, <2>2, <2>3, <2>4 DEF LearnStep
<1>2. CASE FlushStep
  BY <1>2, FlushKeepsStats
<1>3. CASE ResetStep
  BY <1>3, ResetKeepsStats
<1>4. CASE UpdateStep
  <2>1. UNCHANGED <<mpc, statVars>>
    BY <1>4 DEF UpdateStep
  <2>2. StatsKept
    <3>1. CASE UpdaterLoads \/ UpdaterSaves
      BY <3>1, OthersKeepStats DEF UpdaterLoads, UpdaterSaves, Savers, FileInv, HoldsUpdateMu
    <3>2. CASE UNCHANGED fileVars
      BY <3>2, OthersKeepStats
    <3> QED
      BY <1>4, <3>1, <3>2 DEF UpdateStep, Update, UpdateDue, Download, CheckList, RenameList,
                              ReloadList, RecordResult
  <2> QED
    BY <2>1, <2>2, StatsUntouched
<1>5. CASE CleanupStep
  <2>1. UNCHANGED <<mpc, statVars>>
    BY <1>5 DEF CleanupStep
  <2>2. StatsKept
    BY <1>5, OthersKeepStats DEF CleanupStep, Savers, FileInv, HoldsUpdateMu
  <2> QED
    BY <2>1, <2>2, StatsUntouched
<1>6. ASSUME NEW w \in Workers, WorkerStep(w)
      PROVE  Stats'
  BY <1>6, OthersKeepStats, StatsUntouched DEF WorkerStep
<1>7. CASE StopMetrics \/ StopResolving \/ StopUpdater
  <2>1. UNCHANGED <<statVars, fileVars>> /\ mpc # "down" /\ mpc' # "down"
    BY <1>7 DEF StopMetrics, StopResolving, StopUpdater, MGoto
  <2> QED
    BY <2>1, OthersKeepStats, StatsUntouched
<1>8. CASE StopSaving
  <2>1. /\ UNCHANGED <<counterVars, taken, flushVars, resetVars, crashed, fileVars>>
        /\ mpc # "down" /\ mpc' # "down"
    BY <1>8 DEF StopSaving, MGoto
  <2>2. \A t \in Takers : spc'[t] = "put" => spc[t] = "put"
    BY <1>8 DEF StopSaving, SGoto, TypeOK, StatTypeOK
  <2> QED
    BY <2>1, <2>2, OthersKeepStats, StatsUntouched
<1>9. CASE SavesLast
  <2>1. CASE Take(Main)
    BY <1>9, <2>1, TakeKeepsStats DEF SavesLast, Takers
  <2>2. CASE StopTimer
    <3>1. \A t \in Takers : spc'[t] = "put" => spc[t] = "put"
      BY <2>2 DEF StopTimer, SGoto, TypeOK, StatTypeOK
    <3> QED
      BY <1>9, <2>2, <3>1, OthersKeepStats, StatsUntouched DEF SavesLast, StopTimer
  <2> QED
    BY <1>9, <2>1, <2>2 DEF SavesLast
<1>10. CASE Exit \/ Crash
  BY <1>10, GoneKeepsStats
<1>11. CASE Start
  BY <1>11, StartKeepsStats
<1>12. CASE World
  <2>1. CASE NewDay
    BY <1>12, <2>1, NewDayKeepsStats DEF World
  <2>2. CASE Publish /\ UNCHANGED statVars
    BY <1>12, <2>2, OthersKeepStats, StatsUntouched DEF World, Publish
  <2> QED
    BY <1>12, <2>1, <2>2 DEF World
<1>13. CASE UNCHANGED vars
  BY <1>13, OthersKeepStats, StatsUntouched DEF vars
<1> QED
  BY <1>1, <1>2, <1>3, <1>4, <1>5, <1>6, <1>7, <1>8, <1>9, <1>10, <1>11, <1>12, <1>13
     DEF Next, Shutdown

(* Once main has read the date, it stays on its way to the file, except    *)
(* where the date becomes that of today.                                   *)
LEMMA SavedDateStays ==
  ASSUME LastSave, day' = day,
         mpc' \in {"saving", "exit"} => mpc \in {"saving", "exit"},
         spc'[Main] \in {"put", "stop", "flush", "idle"} =>
           spc[Main] \in {"put", "stop", "flush", "idle"},
         NoneToday => NoneToday',
         Exact' => Exact /\ SavedDate' \in {SavedDate, day}
  PROVE  LastSave'
  BY DEF LastSave

(* While Stats holds, every step keeps LastSave. *)
LEMMA StepKeepsLastSave ==
  ASSUME TypeOK, Control, FileInv, ExitInv, Stats, LastSave, [Next]_vars
  PROVE  LastSave'
<1> USE DEF statVars, counterVars, takerVars, flushVars, resetVars
<1>1. Main \in Takers /\ DOMAIN spc = Takers /\ DOMAIN taken = Takers
  BY DEF Takers, TypeOK, StatTypeOK
<1>2. ASSUME StatsKept, crashed' = crashed
      PROVE  Exact' => Exact /\ file'.date = file.date
  BY <1>2 DEF StatsKept, Exact, HasState
<1>3. ASSUME StatsKept, UNCHANGED <<statVars, mpc>>
      PROVE  LastSave'
  BY <1>2, <1>3, SavedDateStays DEF NoneToday, SavedDate
<1>4. ASSUME NEW l \in Learners, LearnStep(l)
      PROVE  LastSave'
  BY <1>4, LearnersComeFirst DEF LastSave
<1>5. CASE FlushStep
  <2>1. mpc' = mpc /\ UNCHANGED <<counterVars, taken, resetDue, crashed>>
    BY <1>5 DEF FlushStep, Flush, FlushTimerFires, FlushNothing, FlushBegins, FlushLoads, FlushSaves
  <2>2. CASE FlushTimerFires \/ FlushLoads \/ \E w \in {"timer", Main} : FlushNothing(w)
    <3>1. StatsKept
      BY <2>2, OthersKeepStats DEF FlushTimerFires, FlushLoads, FlushNothing, Savers
    <3>2. UNCHANGED <<buf, fst>> /\ (fpc' = "idle" <=> fpc = "idle")
      BY <2>2 DEF FlushTimerFires, FlushLoads, FlushNothing
    <3>3. spc'[Main] = spc[Main] \/ (spc[Main] = "flush" /\ spc'[Main] = "idle")
      BY <1>1, <2>2 DEF FlushTimerFires, FlushLoads, FlushNothing, Calls, FlushReturns, SGoto
    <3> QED
      BY <1>2, <2>1, <3>1, <3>2, <3>3, SavedDateStays DEF NoneToday, SavedDate
  <2>3. ASSUME NEW w \in {"timer", Main}, FlushBegins(w)
        PROVE  LastSave'
    <3>1. Exact' = Exact /\ fst' = buf /\ buf' = NoReading /\ buf # NoReading /\ fpc' = "load"
          /\ spc' = spc
      BY <2>3 DEF FlushBegins, fileVars, Exact, HasState
    <3> QED
      BY <2>1, <3>1, SavedDateStays DEF NoneToday, SavedDate
  <2>4. CASE FlushSaves
    <3>1. fpc # "idle" /\ fpc' = "idle" /\ buf' = buf
      BY <2>4 DEF FlushSaves
    <3>2. spc'[Main] = spc[Main] \/ (spc[Main] = "flush" /\ spc'[Main] = "idle")
      BY <1>1, <2>4 DEF FlushSaves, FlushReturns, SGoto, ExitInv
    <3>3. Exact' => Exact /\ file'.date = fst.date
      <4>1. loaded["flush"] \in State
        BY DEF TypeOK, FileTypeOK, Savers
      <4>2. FlushSets(loaded["flush"]).date = fst.date
        BY <4>1 DEF FlushSets, State
      <4> QED
        BY <2>1, <2>4, <4>2, SMT DEF FlushSaves, UpdateSave, Exact, HasState
    <3> QED
      BY <2>1, <3>1, <3>2, <3>3, SavedDateStays DEF NoneToday, SavedDate
  <2> QED
    BY <1>5, <2>2, <2>3, <2>4 DEF FlushStep, Flush
<1>6. CASE ResetStep
  <2>1. UNCHANGED <<mpc, day, spc, taken, flushVars, crashed>>
    BY <1>6 DEF ResetStep, Reset, ResetBegins, ResetStores, ResetLoads, ResetSaves, ResetEnds
  <2>2. NoneToday => NoneToday'
    BY <1>6 DEF ResetStep, Reset, ResetBegins, ResetStores, ResetLoads, ResetSaves, ResetEnds,
                NoneToday
  <2>3. Exact' => Exact /\ file'.date \in {file.date, day}
    <3>1. CASE ResetSaves
      <4>1. loaded["reset"] \in State
        BY DEF TypeOK, FileTypeOK, Savers
      <4>2. ResetSets(loaded["reset"]).date = day
        BY <4>1 DEF ResetSets, State
      <4> QED
        BY <2>1, <3>1, <4>2, SMT DEF ResetSaves, UpdateSave, Exact, HasState
    <3>2. CASE ResetLoads
      BY <1>2, <2>1, <3>2, OthersKeepStats DEF ResetLoads, Savers
    <3>3. CASE UNCHANGED fileVars
      BY <1>2, <2>1, <3>3, OthersKeepStats
    <3> QED
      BY <1>6, <3>1, <3>2, <3>3 DEF ResetStep, Reset, ResetBegins, ResetStores, ResetEnds
  <2> QED
    BY <2>1, <2>2, <2>3, SavedDateStays DEF SavedDate
<1>7. CASE UpdateStep \/ CleanupStep
  <2>1. StatsKept
    <3>1. CASE UNCHANGED fileVars
      BY <3>1, OthersKeepStats
    <3>2. CASE UpdaterLoads \/ UpdaterSaves
      BY <3>2, OthersKeepStats DEF UpdaterLoads, UpdaterSaves, Savers, FileInv, HoldsUpdateMu
    <3>3. CASE CleanupStep
      BY <3>3, OthersKeepStats DEF CleanupStep, Savers, FileInv, HoldsUpdateMu
    <3> QED
      BY <1>7, <3>1, <3>2, <3>3 DEF UpdateStep, Update, UpdateDue, Download, CheckList,
                                    RenameList, ReloadList, RecordResult
  <2> QED
    BY <1>3, <1>7, <2>1 DEF UpdateStep, CleanupStep
<1>8. ASSUME NEW w \in Workers, WorkerStep(w)
      PROVE  LastSave'
  BY <1>3, <1>8, OthersKeepStats DEF WorkerStep
<1>9. CASE StopMetrics \/ StopResolving \/ Start \/ Exit \/ Crash
  BY <1>9 DEF StopMetrics, StopResolving, Start, Exit, Crash, Gone, MGoto, LastSave
<1>10. CASE StopSaving
  <2>1. HasState => spc'[Main] = "total"
    BY <1>1, <1>10 DEF StopSaving, SGoto
  <2>2. HasState' = HasState
    BY <1>10 DEF StopSaving, fileVars, HasState
  <2> QED
    BY <2>1, <2>2 DEF LastSave, Exact
<1>11. CASE SavesLast
  <2>1. mpc' = mpc /\ UNCHANGED <<counterVars, resetDue, fst, fpc>> /\ Exact' = Exact /\ file' = file
    <3>1. UNCHANGED <<mpc, counterVars, resetDue, fst, fpc, crashed, uses, file, damaged>>
      BY <1>11 DEF SavesLast, Take, TakeTotal, TakeMidnight, TakeDate, PutReading, StopTimer,
                   fileVars
    <3> QED
      BY <3>1 DEF Exact, HasState
  <2>2. CASE TakeTotal(Main) \/ TakeMidnight(Main)
    <3>1. spc'[Main] \in {"midnight", "date"}
      BY <1>1, <2>2 DEF TakeTotal, TakeMidnight, SGoto
    <3> QED
      BY <3>1 DEF LastSave
  <2>3. CASE TakeDate(Main)
    <3>1. spc'[Main] = "put" /\ taken'[Main].date = day
      BY <1>1, <2>3 DEF TakeDate, SGoto, TypeOK, StatTypeOK, Reading
    <3> QED
      BY <2>1, <3>1 DEF LastSave, SavedDate
  <2>4. CASE PutReading(Main)
    <3>1. spc[Main] = "put" /\ spc'[Main] = "stop" /\ buf' = taken[Main] /\ buf' # NoReading
      BY <1>1, <2>4 DEF PutReading, SGoto, ExitInv
    <3> QED
      BY <2>1, <3>1, SavedDateStays DEF NoneToday, SavedDate
  <2>5. CASE StopTimer
    <3>1. spc[Main] = "stop" /\ spc'[Main] \in {"idle", "flush"} /\ buf' = buf
      BY <1>1, <2>5 DEF StopTimer, SGoto
    <3> QED
      BY <2>1, <3>1, SavedDateStays DEF NoneToday, SavedDate
  <2> QED
    BY <1>11, <2>2, <2>3, <2>4, <2>5 DEF SavesLast, Take
<1>12. CASE StopUpdater
  BY <1>12, SavedDateStays
     DEF StopUpdater, MGoto, fileVars, NoneToday, SavedDate, Exact, HasState
<1>13. CASE World
  <2>1. CASE NewDay
    <3>1. NoneToday'
      BY <2>1 DEF NewDay, NoneToday
    <3> QED
      BY <3>1 DEF LastSave
  <2>2. CASE Publish /\ UNCHANGED statVars
    BY <1>3, <1>13, <2>2, OthersKeepStats DEF World, Publish
  <2> QED
    BY <1>13, <2>1, <2>2 DEF World
<1>14. CASE UNCHANGED vars
  BY <1>3, <1>14, OthersKeepStats DEF vars
<1> QED
  BY <1>4, <1>5, <1>6, <1>7, <1>8, <1>9, <1>10, <1>11, <1>12, <1>13, <1>14 DEF Next, Shutdown

(* What is torn stays so. *)
LEMMA TornStays ==
  ASSUME [Next]_vars, torn
  PROVE  torn'
<1> USE DEF statVars, takerVars
<1>1. ASSUME NEW l \in Learners, LearnStep(l)
      PROVE  torn'
  BY <1>1
     DEF LearnStep, CountName, CheckCount, Take, TakeTotal, TakeMidnight, TakeDate, PutReading
<1>2. CASE FlushStep
  BY <1>2 DEF FlushStep, Flush, FlushTimerFires, FlushNothing, FlushBegins, FlushLoads, FlushSaves
<1>3. CASE ResetStep
  BY <1>3 DEF ResetStep, Reset, ResetBegins, ResetStores, ResetLoads, ResetSaves, ResetEnds
<1>4. CASE UpdateStep \/ CleanupStep \/ \E w \in Workers : WorkerStep(w)
  BY <1>4 DEF UpdateStep, CleanupStep, WorkerStep
<1>5. CASE StopMetrics \/ StopResolving \/ StopSaving \/ StopUpdater
  BY <1>5 DEF StopMetrics, StopResolving, StopSaving, StopUpdater
<1>6. CASE SavesLast
  BY <1>6 DEF SavesLast, Take, TakeTotal, TakeMidnight, TakeDate, PutReading, StopTimer
<1>7. CASE Exit \/ Crash \/ Start
  BY <1>7 DEF Exit, Crash, Gone, StatsAfterExit, Start, StatsRestored
<1>8. CASE World
  BY <1>8 DEF World, NewDay
<1>9. CASE UNCHANGED vars
  BY <1>9 DEF vars
<1> QED
  BY <1>1, <1>2, <1>3, <1>4, <1>5, <1>6, <1>7, <1>8, <1>9 DEF Next, Shutdown

(* LearnedTodayValue is the number of names learned since midnight, for    *)
(* any number of request goroutines and days and over any number of        *)
(* restarts, as long as no save and no reset is torn by a midnight and     *)
(* every start can read the state file; it is at most that number if the   *)
(* process has died or the file was damaged.                               *)
THEOREM TodayIsCounted == Spec => []LearnedTodayIsRight
<1>1. Init => TodayInv
  <2> SUFFICES ASSUME Init PROVE Stats /\ LastSave
    BY DEF TodayInv
  <2> USE DEF Init, StatInit, FileInit, NothingRuns
  <2>1. /\ file.date = 0 /\ file.total = total /\ midnight = total /\ learned = 0 /\ total \in Nat
        /\ Exact => total > 0
    BY StateFileAssumption DEF ZeroState, Exact
  <2>2. ReadInv
    BY <2>1, SMT DEF ReadInv, ReadingOK, Complete, NoReading
  <2>3. DateInv /\ FileCounts /\ CountInv /\ ExactInv
    BY <2>1, SMT DEF DateInv, FileCounts, CountInv, AddsUp, ExactInv
  <2>4. LastSave
    BY DEF LastSave
  <2> QED
    BY <2>2, <2>3, <2>4 DEF Stats
<1>2. TypeOK /\ TypeOK' /\ Control /\ FileInv /\ ExitInv /\ Lifetime /\ TodayInv /\ [Next]_vars
        => TodayInv'
  <2> SUFFICES ASSUME TypeOK, TypeOK', Control, FileInv, ExitInv, Lifetime, TodayInv, [Next]_vars,
                      ~torn'
               PROVE  Stats' /\ LastSave'
    BY DEF TodayInv
  <2>1. ~torn
    <3>1. torn => torn'
      BY TornStays
    <3> QED
      BY <3>1
  <2> QED
    BY <2>1, StepKeepsStats, StepKeepsLastSave DEF TodayInv
<1>3. TypeOK /\ Lifetime /\ TodayInv => LearnedTodayIsRight
  <2> SUFFICES ASSUME TypeOK, Lifetime, TodayInv, mpc = "serve", rpc # "store", ~torn
               PROVE  IF crashed \/ damaged \/ ~HasState \/ Before = 0
                      THEN Today(total, midnight) <= learned
                      ELSE Today(total, midnight) = learned
    BY DEF LearnedTodayIsRight
  <2>1. AddsUp(total, midnight)
    BY DEF TodayInv, Stats, CountInv, Lifetime
  <2> QED
    BY <2>1, CountsAreNumbers, StateFileAssumption, SMT DEF AddsUp, Exact, Today
<1> QED
  BY <1>1, <1>2, <1>3, TypeCorrect, ControlInvariant, FileInvariant, ExitInvariant,
     LifetimeInvariant, PTL DEF Spec
=============================================================================

----------------------------- MODULE Background -----------------------------
(***************************************************************************)
(* The goroutines that run beside the requests, with the process that      *)
(* starts and stops them, src/cmd/sentrydns/main.go: the saving and the    *)
(* daily reset of the statistics, the updater of the ranges, and the       *)
(* cleanup of the store.  They share the state file, and they stop in the  *)
(* order of main.                                                          *)
(***************************************************************************)
EXTENDS Statistics, Updater, CleanupPool

VARIABLE mpc  \* control point of main

vars == <<mpc, statVars, updaterVars, poolVars, fileVars>>

TypeOK ==
  /\ FileTypeOK /\ StatTypeOK /\ UpdaterTypeOK /\ PoolTypeOK
  /\ mpc \in {"serve", "mStop", "rStop", "saving", "exit", "down"}

Init ==
  /\ FileInit /\ StatInit /\ UpdaterInit /\ PoolInit
  /\ mpc = "serve"

-----------------------------------------------------------------------------
(* The activities, while the process runs *)

Running == mpc # "down"

LearnStep(l) ==
  /\ \/ "learn" \in uses /\ Running /\ ~stopCleanup /\ CountName(l)
     \/ CheckCount(l)
     \/ Take(l)
  /\ UNCHANGED <<mpc, updaterVars, poolVars>>

FlushStep ==
  /\ Flush
  /\ UNCHANGED <<mpc, updaterVars, poolVars>>

ResetStep ==
  /\ Reset \/ (mpc \notin {"serve", "down"} /\ ResetEnds)
  /\ UNCHANGED <<mpc, updaterVars, poolVars>>

UpdateStep ==
  /\ Running
  /\ ("update" \in uses /\ UpdateDue) \/ Update
  /\ UNCHANGED <<mpc, statVars, poolVars>>

WorkerStep(w) ==
  /\ Worker(w)
  /\ UNCHANGED <<mpc, statVars, updaterVars, fileVars>>

CleanupSets(st) == [st EXCEPT !.cleaned = TRUE]

CleanupStep ==
  /\ Running
  /\ \/ /\ "clean" \in uses /\ Cleanup
        /\ UNCHANGED fileVars
     \/ HasState /\ SaveTime /\ UpdateLoad("cleanup")
     \/ /\ cpc = "saving" /\ CleanupReturns
        /\ UpdateSave("cleanup", CleanupSets(loaded["cleanup"]), CleanupSets(saved))
     \/ /\ cpc = "interrupted" \/ (cpc = "finished" /\ ~HasState)
        /\ CleanupReturns
        /\ UNCHANGED fileVars
  /\ UNCHANGED <<mpc, statVars, updaterVars>>

-----------------------------------------------------------------------------
(* main *)

MGoto(label) == mpc' = label

(* A signal: the servers are shut down, then the metrics are stopped. *)
StopMetrics ==
  /\ "stop" \in uses
  /\ mpc = "serve"
  /\ MGoto("mStop")
  /\ UNCHANGED <<statVars, updaterVars, poolVars, fileVars>>

(* r.Stop: the resolver refuses requests from now on, *)
StopResolving ==
  /\ mpc = "mStop"
  /\ MGoto("rStop")
  /\ StopResolver
  /\ UNCHANGED <<statVars, updaterVars, fileVars>>

(* and waits for those it has; they end well within its 30 seconds, since  *)
(* each has a deadline of 10.  s.Stop then closes stopCleanup and calls    *)
(* saveLearnedToday.                                                       *)
StopSaving ==
  /\ mpc = "rStop"
  /\ \A l \in Learners : spc[l] = "idle"
  /\ MGoto("saving")
  /\ StopStore
  /\ SGoto(Main, IF HasState THEN "total" ELSE "idle")
  /\ UNCHANGED <<counterVars, taken, torn, flushVars, resetVars, crashed, updaterVars, fileVars>>

(* s.Stop goes on, *)
SavesLast ==
  /\ Take(Main) \/ StopTimer
  /\ UNCHANGED <<mpc, updaterVars, poolVars>>

(* and returns; u.Stop does not wait for an update under way. *)
StopUpdater ==
  /\ mpc = "saving"
  /\ spc[Main] = "idle"
  /\ MGoto("exit")
  /\ UNCHANGED <<statVars, updaterVars, poolVars, fileVars>>

(* The process is gone, with whatever its goroutines were doing. *)
Gone ==
  /\ MGoto("down")
  /\ StatsAfterExit /\ UpdaterAfterExit /\ PoolRestarts /\ FileAfterExit

Exit == mpc = "exit" /\ Gone /\ UNCHANGED crashed

Crash ==
  /\ "crash" \in uses
  /\ Running
  /\ Gone
  /\ crashed' = TRUE

Start ==
  /\ mpc = "down"
  /\ MGoto("serve")
  /\ \E st \in Loadable : StatsRestored(st) /\ UpdaterStarts("update" \in uses, st)
  /\ UNCHANGED poolVars

Shutdown ==
  \/ StopResolving \/ StopSaving \/ SavesLast \/ StopUpdater \/ Exit

-----------------------------------------------------------------------------
(* Time and the network *)
World ==
  /\ \/ "midnight" \in uses /\ NewDay /\ UNCHANGED updaterVars
     \/ "update" \in uses /\ Publish /\ UNCHANGED statVars
  /\ UNCHANGED <<mpc, poolVars>>

Next ==
  \/ \E l \in Learners : LearnStep(l)
  \/ FlushStep \/ ResetStep \/ UpdateStep
  \/ \E w \in Workers : WorkerStep(w)
  \/ CleanupStep
  \/ StopMetrics \/ Shutdown \/ Crash \/ Start
  \/ World

Spec == Init /\ [][Next]_vars

(* Goroutines run, and time passes: tickers fire and downloads, exchanges  *)
(* and disk operations return.  Two goroutines may repeat themselves for   *)
(* ever, the updater and the cleanup; they do not starve each other, nor   *)
(* the rest.  A select that finds a timer and the shutdown ready again and *)
(* again picks the shutdown some time.  Nothing is assumed of signals, of  *)
(* failures or of the network.                                             *)
Fairness ==
  /\ WF_vars(UpdateStep)
  /\ WF_vars(CleanupStep)
  /\ SF_vars(CleanupStep /\ cpc' = "interrupted")
  /\ WF_vars(\/ \E l \in Learners : LearnStep(l)
             \/ \E w \in Workers : WorkerStep(w)
             \/ FlushStep \/ ResetStep \/ Shutdown)

FairSpec == Spec /\ Fairness

-----------------------------------------------------------------------------
(* Properties *)

(* When main is about to return from an orderly shutdown, the state file   *)
(* holds the total: the callback of the flush timer, which may be anywhere *)
(* in flushState when Stop runs, takes nothing away that Stop relies on.   *)
ExitSavesTotal == mpc = "exit" /\ HasState /\ ~damaged => file.total = total

(* LearnedTodayValue counts the names learned since midnight, also after   *)
(* restarts: exactly, or fewer if the process has died before it saved.    *)
(* This leaves out a save that reads counters of one day and the date of   *)
(* the next, a reset that lasts until the next midnight, and a start at    *)
(* which the state file cannot be read and is not empty (the counters then *)
(* start at zero, and the next reset saves its count beside the older      *)
(* total); and it may be fewer on the first day with a midnight, since     *)
(* RestoreFromFile takes a count of 0 at midnight for a missing one.       *)
LearnedTodayIsRight ==
  mpc = "serve" /\ rpc # "store" /\ ~torn =>
    IF crashed \/ damaged \/ ~HasState \/ Before = 0
    THEN Today(total, midnight) <= learned
    ELSE Today(total, midnight) = learned

(* A good list that stays published reaches the classifier and stays       *)
(* there, whatever lists and failures came before, as long as the process  *)
(* runs.                                                                   *)
GoodListArrives ==
  \A good \in {l \in Lists : ContainsValidCIDR(l) /\ NewSucceeds(l)} :
    <>[](mpc = "serve" /\ "update" \in uses /\ works /\ remote = good)
      => <>[](ranges = good)
=============================================================================

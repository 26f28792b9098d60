----------------------------- MODULE Statistics -----------------------------
(***************************************************************************)
(* How many names were learned in all and today: the counters of           *)
(* src/internal/metrics/metrics.go (RestoreFromFile, resetDailyStats), and *)
(* the way they are saved by src/internal/store/store.go (Add,             *)
(* saveLearnedToday, saveStateSoon, flushState and Stop).                  *)
(*                                                                         *)
(* A goroutine that saves reads the two counters and the date one after    *)
(* the other, puts what it has read into flushBuf, and starts a timer; the *)
(* timer's callback writes it ten seconds later.  In between, names are    *)
(* learned and midnight passes.  main saves once more when it stops.       *)
(***************************************************************************)
EXTENDS StateFile

CONSTANTS
  Learners,   \* request goroutines
  SaveEvery,  \* a save follows whenever the total is a multiple of this
  MaxTotal,   \* bound: no more names are learned
  LastDay     \* bound: the last midnight

Main == "main"

ASSUME StatisticsAssumption ==
  /\ SaveEvery \in Nat \ {0}
  /\ MaxTotal \in Nat /\ LastDay \in Nat \ {0}
  /\ Main \notin Learners
  /\ Nobody \notin {"timer", Main}

(* The goroutines that may run saveLearnedToday *)
Takers == Learners \cup {Main}

VARIABLES
  day,         \* the date
  total,       \* LearnedTotal
  midnight,    \* LearnedTotalAtMidnight
  midnightOf,  \* history: the day to which midnight belongs
  spc, taken,  \* control point of each saveLearnedToday, and what it has read
  buf,         \* flushBuf: what is to be written, if anything
  flushTimer,  \* "off", "set", or "fired" (its callback waits for flushMu)
  flushMu,     \* who runs flushState: "timer", main, or nobody
  fpc, fst,    \* its control point, and its st
  rpc, rtotal, \* control point of resetDailyStats, and its total
  resetDue,    \* has its timer fired?
  learned,     \* history: the names learned since midnight
  torn,        \* history: a save has read the counters of one day and the
               \* date of the next, a reset has lasted until midnight, or
               \* the counters have started at zero beside an older file
  crashed      \* history: the process has died without Stop

counterVars == <<day, total, midnight, midnightOf, learned>>
takerVars == <<spc, taken, torn>>
flushVars == <<buf, flushTimer, flushMu, fpc, fst>>
resetVars == <<rpc, rtotal, resetDue>>
statVars == <<counterVars, takerVars, flushVars, resetVars, crashed>>

(* What a saveLearnedToday reads; of is the day to which atMidnight belongs *)
Reading == [total : Nat, atMidnight : Nat, date : Nat, of : Nat]
NoReading == [total |-> 0, atMidnight |-> 0, date |-> 0, of |-> 0]

StatTypeOK ==
  /\ day \in 1 .. LastDay
  /\ total \in Nat /\ midnight \in Nat /\ midnightOf \in 1 .. LastDay
  /\ learned \in Nat
  /\ spc \in [Takers -> {"idle", "count", "total", "midnight", "date", "put",
                       "stop", "flush"}]
  /\ taken \in [Takers -> Reading]
  /\ buf \in Reading
  /\ flushTimer \in {"off", "set", "fired"}
  /\ flushMu \in {"timer", Main, Nobody}
  /\ fpc \in {"idle", "load", "save"}
  /\ fst \in Reading
  /\ rpc \in {"wait", "store", "load", "save", "ended"}
  /\ rtotal \in Nat
  /\ resetDue \in BOOLEAN /\ torn \in BOOLEAN /\ crashed \in BOOLEAN

Difference(t, m) == t - m

Today(t, m) == IF t < m THEN 0 ELSE t - m

RestoredAnyDay(st) == st.atMidnight

(* RestoreFromFile: the count at midnight, of a State that is of today. *)
RestoredMidnight(st) ==
  IF st.date # day THEN st.total
  ELSE IF st.atMidnight > 0 THEN st.atMidnight
  ELSE IF st.today > st.total THEN st.total
  ELSE st.total - st.today

(* The goroutines and the timers of a process that has just started *)
NothingRuns ==
  /\ spc = [t \in Takers |-> "idle"]
  /\ taken = [t \in Takers |-> NoReading]
  /\ buf = NoReading /\ fst = NoReading
  /\ flushTimer = "off" /\ flushMu = Nobody /\ fpc = "idle"
  /\ rpc = "wait" /\ rtotal = 0 /\ resetDue = FALSE

StatInit ==
  /\ day = 1 /\ midnightOf = 1
  /\ total = file.total /\ midnight = file.total /\ learned = 0
  /\ NothingRuns
  /\ torn = FALSE /\ crashed = FALSE

SGoto(t, label) == spc' = [spc EXCEPT ![t] = label]

-----------------------------------------------------------------------------
(* Learning, and saveLearnedToday *)

(* Add: a new name is counted. *)
CountName(l) ==
  /\ spc[l] = "idle"
  /\ total < MaxTotal /\ learned < MaxTotal
  /\ total' = total + 1
  /\ learned' = learned + 1
  /\ SGoto(l, "count")
  /\ UNCHANGED <<day, midnight, midnightOf, taken, torn, flushVars, resetVars, crashed, fileVars>>

(* LearnedTotal is loaded again; a multiple of SaveEvery is saved. *)
CheckCount(l) ==
  /\ spc[l] = "count"
  /\ SGoto(l, IF total % SaveEvery = 0 /\ HasState THEN "total" ELSE "idle")
  /\ UNCHANGED <<counterVars, taken, torn, flushVars, resetVars, crashed, fileVars>>

TakeTotal(t) ==
  /\ spc[t] = "total"
  /\ taken' = [taken EXCEPT ![t].total = total]
  /\ SGoto(t, "midnight")
  /\ UNCHANGED <<counterVars, torn, flushVars, resetVars, crashed, fileVars>>

TakeMidnight(t) ==
  /\ spc[t] = "midnight"
  /\ taken' = [taken EXCEPT ![t].atMidnight = midnight, ![t].of = midnightOf]
  /\ SGoto(t, "date")
  /\ UNCHANGED <<counterVars, torn, flushVars, resetVars, crashed, fileVars>>

TakeDate(t) ==
  /\ spc[t] = "date"
  /\ taken' = [taken EXCEPT ![t].date = day]
  /\ torn' = (torn \/ taken[t].of # day)
  /\ SGoto(t, "put")
  /\ UNCHANGED <<counterVars, flushVars, resetVars, crashed, fileVars>>

(* saveStateSoon: the reading replaces the one that waits, and the timer   *)
(* starts anew.  A callback that has fired is not held back.               *)
PutReading(t) ==
  /\ spc[t] = "put"
  /\ flushMu = Nobody
  /\ buf' = taken[t]
  /\ flushTimer' = IF flushTimer = "fired" THEN "fired" ELSE "set"
  /\ taken' = [taken EXCEPT ![t] = NoReading]
  /\ SGoto(t, IF t = Main THEN "stop" ELSE "idle")
  /\ UNCHANGED <<counterVars, torn, flushMu, fpc, fst, resetVars, crashed, fileVars>>

(* Store.Stop: the timer is stopped; flushState is called if there is      *)
(* something to write.                                                     *)
StopTimer ==
  /\ spc[Main] = "stop"
  /\ flushMu = Nobody
  /\ flushTimer' = IF flushTimer = "set" THEN "off" ELSE flushTimer
  /\ SGoto(Main, IF buf = NoReading THEN "idle" ELSE "flush")
  /\ UNCHANGED <<counterVars, taken, torn, buf, flushMu, fpc, fst, resetVars, crashed, fileVars>>

Take(t) ==
  \/ TakeTotal(t) \/ TakeMidnight(t) \/ TakeDate(t) \/ PutReading(t)

-----------------------------------------------------------------------------
(* flushState, run by the timer's callback or by Stop *)

FlushTimerFires ==
  /\ flushTimer = "set"
  /\ flushTimer' = "fired"
  /\ UNCHANGED <<counterVars, takerVars, buf, flushMu, fpc, fst, resetVars, crashed, fileVars>>

(* w is the caller: the callback, or main. *)
Calls(w) == IF w = Main THEN spc[Main] = "flush" ELSE flushTimer = "fired"

(* The call returns. *)
FlushReturns(w) ==
  IF w = Main THEN SGoto(Main, "idle") /\ UNCHANGED flushTimer
  ELSE flushTimer' = "off" /\ UNCHANGED spc

FlushNothing(w) ==
  /\ Calls(w)
  /\ flushMu = Nobody
  /\ buf = NoReading
  /\ FlushReturns(w)
  /\ UNCHANGED <<counterVars, taken, torn, buf, flushMu, fpc, fst, resetVars, crashed, fileVars>>

BeginsUnlocked(w) ==
  /\ Calls(w)
  /\ flushMu = Nobody /\ fpc = "idle"
  /\ buf # NoReading
  /\ fst' = buf
  /\ buf' = NoReading
  /\ fpc' = "load"
  /\ FlushReturns(w)
  /\ UNCHANGED <<counterVars, taken, torn, flushMu, resetVars, crashed, fileVars>>

(* flushMu is held until the file is written. *)
FlushBegins(w) ==
  /\ Calls(w)
  /\ flushMu = Nobody
  /\ buf # NoReading
  /\ flushMu' = w
  /\ fst' = buf
  /\ buf' = NoReading
  /\ fpc' = "load"
  /\ UNCHANGED <<counterVars, takerVars, flushTimer, resetVars, crashed, fileVars>>

FlushLoads ==
  /\ fpc = "load"
  /\ UpdateLoad("flush")
  /\ fpc' = "save"
  /\ UNCHANGED <<counterVars, takerVars, buf, flushTimer, flushMu, fst, resetVars, crashed>>

FlushSets(st) ==
  [st EXCEPT !.total = fst.total, !.atMidnight = fst.atMidnight,
             !.today = Today(fst.total, fst.atMidnight), !.date = fst.date]

FlushSaves ==
  /\ fpc = "save"
  /\ UpdateSave("flush", FlushSets(loaded["flush"]), FlushSets(saved))
  /\ FlushReturns(flushMu)
  /\ flushMu' = Nobody
  /\ fst' = NoReading
  /\ fpc' = "idle"
  /\ UNCHANGED <<counterVars, taken, torn, buf, resetVars, crashed>>

Flush ==
  \/ FlushTimerFires
  \/ \E w \in {"timer", Main} : FlushNothing(w) \/ FlushBegins(w)
  \/ FlushLoads \/ FlushSaves

-----------------------------------------------------------------------------
(* resetDailyStats *)

(* total := LearnedTotal.Load(), once its timer has fired.  From here on   *)
(* names count for the new day.                                            *)
ResetBegins ==
  /\ rpc = "wait"
  /\ resetDue
  /\ rtotal' = total
  /\ learned' = 0
  /\ resetDue' = FALSE
  /\ rpc' = "store"
  /\ UNCHANGED <<day, total, midnight, midnightOf, takerVars, flushVars, crashed, fileVars>>

ResetStores ==
  /\ rpc = "store"
  /\ midnight' = rtotal
  /\ midnightOf' = day
  /\ rpc' = IF HasState THEN "load" ELSE "wait"
  /\ rtotal' = IF HasState THEN rtotal ELSE 0
  /\ UNCHANGED <<day, total, learned, takerVars, flushVars, resetDue, crashed, fileVars>>

ResetLoads ==
  /\ rpc = "load"
  /\ UpdateLoad("reset")
  /\ rpc' = "save"
  /\ UNCHANGED <<counterVars, takerVars, flushVars, rtotal, resetDue, crashed>>

(* The total itself is not among the fields. *)
ResetSets(st) == [st EXCEPT !.date = day, !.today = 0, !.atMidnight = rtotal]

ResetSaves ==
  /\ rpc = "save"
  /\ UpdateSave("reset", ResetSets(loaded["reset"]), ResetSets(saved))
  /\ rpc' = "wait"
  /\ rtotal' = 0
  /\ UNCHANGED <<counterVars, takerVars, flushVars, resetDue, crashed>>

Reset == ResetBegins \/ ResetStores \/ ResetLoads \/ ResetSaves

(* m.Stop: the goroutine returns from its select. *)
ResetEnds ==
  /\ rpc = "wait"
  /\ rpc' = "ended"
  /\ learned' = IF resetDue THEN 0 ELSE learned
  /\ resetDue' = FALSE
  /\ UNCHANGED <<day, total, midnight, midnightOf, takerVars, flushVars, rtotal, crashed, fileVars>>

(* Midnight: the timer of resetDailyStats fires, if there is one.  A reset *)
(* that is still under way will save its counters with the new date.       *)
NewDay ==
  /\ day < LastDay
  /\ day' = day + 1
  /\ resetDue' = (rpc # "ended")
  /\ learned' = IF rpc = "ended" THEN 0 ELSE learned
  /\ torn' = (torn \/ rpc \in {"store", "load", "save"})
  /\ UNCHANGED <<total, midnight, midnightOf, spc, taken, flushVars, rpc, rtotal, crashed, fileVars>>

(* The process ends: nothing is left of its memory. *)
StatsAfterExit ==
  /\ total' = 0 /\ midnight' = 0
  /\ learned' = IF resetDue THEN 0 ELSE learned
  /\ spc' = [t \in Takers |-> "idle"]
  /\ taken' = [t \in Takers |-> NoReading]
  /\ buf' = NoReading /\ fst' = NoReading
  /\ flushTimer' = "off" /\ flushMu' = Nobody /\ fpc' = "idle"
  /\ rpc' = "ended" /\ rtotal' = 0 /\ resetDue' = FALSE
  /\ UNCHANGED <<day, midnightOf, torn>>

(* It starts again: New, and RestoreFromFile with the State it has loaded, *)
(* which is empty if the file could not be read.                           *)
StatsRestored(st) ==
  /\ total' = st.total
  /\ midnight' = RestoredMidnight(st)
  /\ midnightOf' = day
  /\ torn' = (torn \/ st # file)
  /\ rpc' = "wait"
  /\ UNCHANGED <<day, learned, spc, taken, flushVars, rtotal, resetDue, crashed, fileVars>>
=============================================================================

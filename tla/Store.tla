------------------------------- MODULE Store -------------------------------
(***************************************************************************)
(* The learned-domain store, src/internal/store/store.go: a set of names   *)
(* in memory, written behind to data/learned.conf.                         *)
(*                                                                         *)
(* Request goroutines Add and Remove names; a flusher appends buffered     *)
(* names to the file; timer callbacks and the daily cleanup rewrite the    *)
(* whole file.  mu, persistMu and rewriteTimerMu are each held for one     *)
(* step here; ioMu is held across several and is a variable.               *)
(*                                                                         *)
(* persistBufGen and the flusher's bufGen are only ever compared with      *)
(* writeGen for equality, and writeGen only grows.  The model keeps the    *)
(* outcome of the comparison: bufStale says persistBufGen # writeGen, and  *)
(* batchStale says bufGen # writeGen.                                      *)
(*                                                                         *)
(* The file is the set of its complete lines and a tail: the last line,    *)
(* when a crash or a short write cut off its newline.  Junk stands for a   *)
(* line that is no name anybody learned.                                   *)
(***************************************************************************)
EXTENDS FiniteSets

CONSTANTS
  Domains,      \* names, normalised
  Junk,         \* a line that is not a learned name
  NoTail,       \* the file ends with a newline
  Learners,     \* request goroutines
  Timers,       \* goroutines that run the rewrite timer's callback
  Cleaner,      \* the cleanup goroutine
  Flusher,      \* the persistFlusher goroutine
  None,         \* nobody holds ioMu
  Operations,   \* which operations the environment uses: a subset of
                \* {"add", "remove", "cleanup", "diskError", "crash", "stop"}
  InitialFiles  \* the files the program may find when it first starts

Writers == Timers \cup {Cleaner}
Names == Domains \cup {Junk}

ASSUME NamesAssumption ==
  /\ Junk \notin Domains
  /\ NoTail \notin Names
  /\ InitialFiles \subseteq SUBSET Domains

ASSUME GoroutinesAssumption ==
  /\ Cleaner \notin Timers
  /\ Flusher \notin Writers
  /\ None \notin Writers \cup {Flusher}

VARIABLES
  domains,     \* Store.domains
  buf,         \* Store.persistBuf
  bufStale,    \* persistBufGen # writeGen
  batch,       \* flushPersist's local domains
  batchStale,  \* its local bufGen # writeGen
  file,        \* complete lines of the file
  tail,        \* its last line, if incomplete
  ioMu,        \* holder of Store.ioMu
  timer,       \* is the rewrite timer pending?
  lpc, larg,   \* control point and argument of each learner
  wpc, snap,   \* control point and local domains of each writeAll
  fpc,         \* control point of the flusher
  cpc, remove, \* control point of the cleanup, and its toRemove
  stopped,     \* Stop has been called
  diskError    \* history: the file was left damaged by a write error or a
               \* crash, and has not been rewritten since

vars == <<domains, buf, bufStale, batch, batchStale, file, tail, ioMu, timer,
          lpc, larg, wpc, snap, fpc, cpc, remove, stopped, diskError>>

(* What the flusher and the rewriters work on, and what the others do.     *)
diskVars == <<file, tail, diskError>>
bufVars == <<buf, bufStale>>
flushVars == <<batch, batchStale, fpc>>
writeVars == <<wpc, snap>>
learnVars == <<lpc, larg>>
cleanVars == <<cpc, remove>>

TypeOK ==
  /\ domains \subseteq Names
  /\ buf \subseteq Names
  /\ bufStale \in BOOLEAN
  /\ batch \subseteq Names
  /\ batchStale \in BOOLEAN
  /\ file \subseteq Names
  /\ tail \in Names \cup {NoTail}
  /\ ioMu \in Writers \cup {Flusher, None}
  /\ timer \in BOOLEAN
  /\ lpc \in [Learners -> {"idle", "persist", "schedule"}]
  /\ larg \in [Learners -> Names]
  /\ wpc \in [Writers -> {"idle", "begin", "snapshot", "rename", "done"}]
  /\ snap \in [Writers -> SUBSET Names]
  /\ fpc \in {"idle", "lock", "append"}
  /\ cpc \in {"idle", "validate", "delete", "write"}
  /\ remove \subseteq Names
  /\ stopped \in BOOLEAN
  /\ diskError \in BOOLEAN

LinesWithTail == file \cup {tail}

(* What load reads: complete lines, and the last one. *)
Lines == file \cup (IF tail = NoTail THEN {} ELSE {tail})

(* New: the names in the file, and no goroutine in the middle of anything. *)
StartFrom(lines) ==
  /\ domains' = lines
  /\ buf' = {} /\ bufStale' = FALSE
  /\ batch' = {} /\ batchStale' = FALSE
  /\ ioMu' = None
  /\ timer' = FALSE
  /\ lpc' = [l \in Learners |-> "idle"]
  /\ larg' = [l \in Learners |-> Junk]
  /\ wpc' = [w \in Writers |-> "idle"]
  /\ snap' = [w \in Writers |-> {}]
  /\ fpc' = "idle"
  /\ cpc' = "idle"
  /\ remove' = {}
  /\ stopped' = FALSE

Init ==
  /\ file \in InitialFiles
  /\ tail = NoTail
  /\ domains = file
  /\ buf = {} /\ bufStale = FALSE
  /\ batch = {} /\ batchStale = FALSE
  /\ ioMu = None
  /\ timer = FALSE
  /\ lpc = [l \in Learners |-> "idle"]
  /\ larg = [l \in Learners |-> Junk]
  /\ wpc = [w \in Writers |-> "idle"]
  /\ snap = [w \in Writers |-> {}]
  /\ fpc = "idle"
  /\ cpc = "idle"
  /\ remove = {}
  /\ stopped = FALSE
  /\ diskError = FALSE

-----------------------------------------------------------------------------
(* Add and Remove, called by request goroutines until the servers stop. *)

(* Add: under mu, nothing if the name is known; persist comes after.       *)
Add(l, d) ==
  /\ "add" \in Operations
  /\ ~stopped
  /\ lpc[l] = "idle"
  /\ d \notin domains
  /\ domains' = domains \cup {d}
  /\ lpc' = [lpc EXCEPT ![l] = "persist"]
  /\ larg' = [larg EXCEPT ![l] = d]
  /\ UNCHANGED <<bufVars, flushVars, diskVars, ioMu, timer, writeVars,
                 cleanVars, stopped>>

KeepsOldGen(l) ==
  /\ lpc[l] = "persist"
  /\ buf' = buf \cup {larg[l]}
  /\ bufStale' = bufStale
  /\ lpc' = [lpc EXCEPT ![l] = "idle"]
  /\ larg' = [larg EXCEPT ![l] = Junk]
  /\ UNCHANGED <<domains, flushVars, diskVars, ioMu, timer, writeVars,
                 cleanVars, stopped>>

(* persist: the whole buffer takes the current generation. *)
Persist(l) ==
  /\ lpc[l] = "persist"
  /\ buf' = buf \cup {larg[l]}
  /\ bufStale' = FALSE
  /\ lpc' = [lpc EXCEPT ![l] = "idle"]
  /\ larg' = [larg EXCEPT ![l] = Junk]
  /\ UNCHANGED <<domains, flushVars, diskVars, ioMu, timer, writeVars,
                 cleanVars, stopped>>

(* Remove: under mu, nothing if the name is unknown. *)
Remove(l, d) ==
  /\ "remove" \in Operations
  /\ ~stopped
  /\ lpc[l] = "idle"
  /\ d \in domains
  /\ domains' = domains \ {d}
  /\ lpc' = [lpc EXCEPT ![l] = "schedule"]
  /\ UNCHANGED <<bufVars, flushVars, diskVars, ioMu, timer, larg, writeVars,
                 cleanVars, stopped>>

(* scheduleRewrite: a pending timer is replaced, one that fired is not     *)
(* called back.                                                            *)
ScheduleRewrite(l) ==
  /\ lpc[l] = "schedule"
  /\ timer' = TRUE
  /\ lpc' = [lpc EXCEPT ![l] = "idle"]
  /\ UNCHANGED <<domains, bufVars, flushVars, diskVars, ioMu, larg, writeVars,
                 cleanVars, stopped>>

-----------------------------------------------------------------------------
(* writeAll, run by a timer callback or by the cleanup. *)

TimerFires(w) ==
  /\ timer
  /\ wpc[w] = "idle"
  /\ timer' = FALSE
  /\ wpc' = [wpc EXCEPT ![w] = "begin"]
  /\ UNCHANGED <<domains, bufVars, flushVars, diskVars, ioMu, learnVars, snap,
                 cleanVars, stopped>>

(* ioMu.Lock; writeGen.Add(1): what is buffered now is out of date. *)
WriteBegin(w) ==
  /\ wpc[w] = "begin"
  /\ ioMu = None
  /\ ioMu' = w
  /\ bufStale' = (buf # {})
  /\ batchStale' = (batch # {})
  /\ wpc' = [wpc EXCEPT ![w] = "snapshot"]
  /\ UNCHANGED <<domains, buf, batch, fpc, diskVars, timer, learnVars, snap,
                 cleanVars, stopped>>

(* The names are copied under mu.RLock. *)
WriteSnapshot(w) ==
  /\ wpc[w] = "snapshot"
  /\ snap' = [snap EXCEPT ![w] = domains]
  /\ wpc' = [wpc EXCEPT ![w] = "rename"]
  /\ UNCHANGED <<domains, bufVars, flushVars, diskVars, ioMu, timer, learnVars,
                 cleanVars, stopped>>

(* writeAll returns: ioMu is released; a timer callback is then over.      *)
WriteReturns(w) ==
  /\ ioMu' = None
  /\ snap' = [snap EXCEPT ![w] = {}]
  /\ wpc' = [wpc EXCEPT ![w] = IF w = Cleaner THEN "done" ELSE "idle"]

(* The temporary file is complete and replaces the file atomically. *)
WriteRename(w) ==
  /\ wpc[w] = "rename"
  /\ file' = snap[w]
  /\ tail' = NoTail
  /\ diskError' = FALSE
  /\ WriteReturns(w)
  /\ UNCHANGED <<domains, bufVars, flushVars, timer, learnVars, cleanVars,
                 stopped>>

(* Creating, writing, closing or renaming the temporary file fails: the    *)
(* error is logged and the old file stays.                                 *)
WriteFails(w) ==
  /\ "diskError" \in Operations
  /\ wpc[w] = "rename"
  /\ diskError' = TRUE
  /\ WriteReturns(w)
  /\ UNCHANGED <<domains, bufVars, flushVars, file, tail, timer, learnVars,
                 cleanVars, stopped>>

-----------------------------------------------------------------------------
(* persistFlusher: flushPersist on every tick and once more on stop.  Adds *)
(* stop before Stop is called, so the last flush needs no state of its own. *)

(* The buffer and its generation are taken under persistMu. *)
FlushDrain ==
  /\ fpc = "idle"
  /\ buf # {}
  /\ batch' = buf /\ batchStale' = bufStale
  /\ buf' = {} /\ bufStale' = FALSE
  /\ fpc' = "lock"
  /\ UNCHANGED <<domains, diskVars, ioMu, timer, learnVars, writeVars,
                 cleanVars, stopped>>

FlushReturns ==
  /\ batch' = {} /\ batchStale' = FALSE
  /\ fpc' = "idle"
  /\ ioMu' = None

FlushSkipsWhenBusy ==
  /\ fpc = "lock"
  /\ batchStale \/ ioMu # None
  /\ batch' = {} /\ batchStale' = FALSE
  /\ fpc' = "idle"
  /\ UNCHANGED <<domains, bufVars, diskVars, ioMu, timer, learnVars, writeVars,
                 cleanVars, stopped>>

(* A rewrite has started since: the batch is dropped. *)
FlushSkip ==
  /\ fpc = "lock"
  /\ ioMu = None
  /\ batchStale
  /\ FlushReturns
  /\ UNCHANGED <<domains, bufVars, diskVars, timer, learnVars, writeVars,
                 cleanVars, stopped>>

(* The file cannot be opened: the batch is dropped. *)
FlushOpenFails ==
  /\ "diskError" \in Operations
  /\ fpc = "lock"
  /\ ioMu = None
  /\ ~batchStale
  /\ FlushReturns
  /\ diskError' = TRUE
  /\ UNCHANGED <<domains, bufVars, file, tail, timer, learnVars, writeVars,
                 cleanVars, stopped>>

FlushOpen ==
  /\ fpc = "lock"
  /\ ioMu = None
  /\ ~batchStale
  /\ ioMu' = Flusher
  /\ fpc' = "append"
  /\ UNCHANGED <<domains, bufVars, batch, batchStale, diskVars, timer,
                 learnVars, writeVars, cleanVars, stopped>>

(* The files that writing these lines at the end can give.  The first one  *)
(* after an incomplete line is joined to it, and neither can be read again. *)
Appended(names) ==
  IF tail = NoTail \/ names = {}
  THEN {file \cup names}
  ELSE {file \cup (names \ {d}) \cup {Junk} : d \in names}

TailAfter(names) == IF names = {} THEN tail ELSE NoTail

(* Every WriteString succeeds. *)
FlushAppend ==
  /\ fpc = "append"
  /\ file' \in Appended(batch)
  /\ tail' = TailAfter(batch)
  /\ FlushReturns
  /\ UNCHANGED <<domains, bufVars, diskError, timer, learnVars, writeVars,
                 cleanVars, stopped>>

(* Some of the batch reaches the file.  A line may be cut, in its name or  *)
(* just before the newline: it becomes the tail, or is joined to the next. *)
CutShort(names) ==
  \E written \in SUBSET names :
    /\ \E cut \in SUBSET {Junk} :
         \E lines \in Appended(written) : file' = lines \cup cut
    /\ \/ tail' = TailAfter(written)
       \/ /\ names # written
          /\ tail' \in IF TailAfter(written) = NoTail
                       THEN (names \ written) \cup {Junk}
                       ELSE {Junk}

(* WriteString fails; its error is ignored. *)
FlushWriteFails ==
  /\ "diskError" \in Operations
  /\ fpc = "append"
  /\ CutShort(batch)
  /\ diskError' = TRUE
  /\ FlushReturns
  /\ UNCHANGED <<domains, bufVars, timer, learnVars, writeVars, cleanVars,
                 stopped>>

-----------------------------------------------------------------------------
(* cleanup: validate every name against IranDNS, drop the ones that do not *)
(* exist any more, rewrite the file.                                       *)

(* The health check has passed; the names are copied under mu.RLock. *)
CleanupStart ==
  /\ "cleanup" \in Operations
  /\ cpc = "idle"
  /\ ~stopped
  /\ cpc' = "validate"
  /\ remove' = domains
  /\ UNCHANGED <<domains, bufVars, flushVars, diskVars, ioMu, timer, learnVars,
                 writeVars, stopped>>

(* The workers are done: some of the copied names were invalid. *)
CleanupValidated ==
  /\ cpc = "validate"
  /\ \E invalid \in SUBSET remove : remove' = invalid
  /\ cpc' = "delete"
  /\ UNCHANGED <<domains, bufVars, flushVars, diskVars, ioMu, timer, learnVars,
                 writeVars, stopped>>

(* Stop arrives while names are still handed to the workers. *)
CleanupInterrupted ==
  /\ cpc = "validate"
  /\ stopped
  /\ cpc' = "idle"
  /\ remove' = {}
  /\ UNCHANGED <<domains, bufVars, flushVars, diskVars, ioMu, timer, learnVars,
                 writeVars, stopped>>

(* The invalid names are deleted under mu, then writeAll is called. *)
CleanupDelete ==
  /\ cpc = "delete"
  /\ domains' = domains \ remove
  /\ remove' = {}
  /\ cpc' = "write"
  /\ wpc' = [wpc EXCEPT ![Cleaner] = "begin"]
  /\ UNCHANGED <<bufVars, flushVars, diskVars, ioMu, timer, learnVars, snap,
                 stopped>>

(* writeAll has returned: a pending rewrite is cancelled. *)
CleanupCancelRewrite ==
  /\ cpc = "write"
  /\ wpc[Cleaner] = "done"
  /\ timer' = FALSE
  /\ cpc' = "idle"
  /\ wpc' = [wpc EXCEPT ![Cleaner] = "idle"]
  /\ UNCHANGED <<domains, bufVars, flushVars, diskVars, ioMu, learnVars, snap,
                 remove, stopped>>

-----------------------------------------------------------------------------
(* The end of the process, and the next start. *)

(* Stop, once resolver.Stop has seen the last request finish: the cleanup  *)
(* and the flusher are told, and the rewrite timer is stopped.             *)
Stop ==
  /\ "stop" \in Operations
  /\ ~stopped
  /\ \A l \in Learners : lpc[l] = "idle"
  /\ stopped' = TRUE
  /\ timer' = FALSE
  /\ UNCHANGED <<domains, bufVars, flushVars, diskVars, ioMu, learnVars,
                 writeVars, cleanVars>>

(* The program is started again and loads what the file holds. *)
Restart ==
  /\ StartFrom(Lines')
  /\ diskError' = (tail' # NoTail)

(* main returns after Stop, whatever the other goroutines are doing.  A    *)
(* flush under way has written some of its lines.                          *)
Exit ==
  /\ stopped
  /\ \E written \in SUBSET (IF fpc = "append" THEN batch ELSE {}) :
       file' \in Appended(written) /\ tail' = TailAfter(written)
  /\ Restart

(* The process or the machine dies at any point. *)
Crash ==
  /\ "crash" \in Operations
  /\ IF fpc = "append" THEN CutShort(batch) ELSE UNCHANGED <<file, tail>>
  /\ Restart

-----------------------------------------------------------------------------
Learn == \E l \in Learners :
  \/ \E d \in Domains : Add(l, d)
  \/ \E d \in Names : Remove(l, d)
  \/ Persist(l)
  \/ ScheduleRewrite(l)

WriteAll(w) ==
  WriteBegin(w) \/ WriteSnapshot(w) \/ WriteRename(w) \/ WriteFails(w)

Flush ==
  \/ FlushDrain \/ FlushSkip \/ FlushOpen \/ FlushOpenFails
  \/ FlushAppend \/ FlushWriteFails

Cleanup ==
  \/ CleanupStart \/ CleanupValidated \/ CleanupInterrupted
  \/ CleanupDelete \/ CleanupCancelRewrite

Next ==
  \/ Learn
  \/ \E w \in Timers : TimerFires(w)
  \/ \E w \in Writers : WriteAll(w)
  \/ Flush
  \/ Cleanup
  \/ Stop \/ Exit \/ Crash

Spec == Init /\ [][Next]_vars

(* The goroutines keep running, a pending timer fires, and no goroutine    *)
(* waits for ioMu for ever (a Go mutex hands over to its oldest waiter     *)
(* after a millisecond).  Requests and cleanups need not come.             *)
Fairness ==
  /\ \A l \in Learners : WF_vars(Persist(l) \/ ScheduleRewrite(l))
  /\ \A w \in Writers : /\ WF_vars(WriteSnapshot(w) \/ WriteRename(w))
                        /\ SF_vars(WriteBegin(w))
  /\ WF_vars(\E w \in Timers : TimerFires(w))
  /\ WF_vars(FlushDrain \/ FlushAppend)
  /\ SF_vars(FlushSkip \/ FlushOpen)
  /\ WF_vars(CleanupValidated \/ CleanupDelete \/ CleanupCancelRewrite)

FairSpec == Spec /\ Fairness

-----------------------------------------------------------------------------
(* Properties *)

(* Name d is on its way to the file: a learner is about to buffer it, it   *)
(* is buffered or drained in the current generation, or a rewrite that     *)
(* holds or will hold it is under way.                                     *)
Buffered(d) ==
  \/ \E l \in Learners : lpc[l] = "persist" /\ larg[l] = d
  \/ d \in buf /\ ~bufStale
  \/ d \in batch /\ ~batchStale

BeingWritten(d) ==
  \E w \in Writers : wpc[w] = "snapshot" \/ (wpc[w] = "rename" /\ d \in snap[w])

(* Name d is in the file, and no rewrite under way will drop it. *)
Kept(d) ==
  /\ d \in Lines
  /\ \A w \in Writers : wpc[w] = "rename" => d \in snap[w]

(* Unless an I/O error or a crash damaged the file since the last          *)
(* successful rewrite, every name in memory is in the file to stay, or on  *)
(* its way there: the generation check of flushPersist drops only names    *)
(* that a rewrite has taken over, in every interleaving of Add, Remove,    *)
(* flushPersist, writeAll and cleanup, and across restarts.                *)
NoLostLearning ==
  ~diskError => \A d \in domains : Kept(d) \/ Buffered(d) \/ BeingWritten(d)

(* A learned name eventually reaches the file, unless it is removed again. *)
LearnedReachesFile ==
  \A d \in Domains : d \in domains ~> (d \in Lines \/ d \notin domains)

(* The rewrite that cleanup cancels would have changed nothing             *)
(* (store.go:448-449).                                                     *)
CancelledRewriteIsRedundant ==
  [][CleanupCancelRewrite /\ timer => Lines \subseteq domains]_vars
=============================================================================

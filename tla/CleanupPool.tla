---------------------------- MODULE CleanupPool ----------------------------
(***************************************************************************)
(* The goroutines of the cleanup, src/internal/store/store.go:250-281 and  *)
(* 346-431: one waits for its time and for IranDNS to be healthy, copies   *)
(* the names and hands them out over a bounded channel; a pool of workers  *)
(* takes them and asks IranDNS (resolver.ValidateDomain and IranDNSHealthy,*)
(* src/internal/resolver/resolver.go:730-785).  The shutdown may begin at  *)
(* any time: the resolver is stopped first, then the store closes          *)
(* stopCleanup.  What the cleanup then does to the store, and to its file, *)
(* is in Store.                                                            *)
(***************************************************************************)
EXTENDS Naturals, FiniteSets

CONSTANTS
  Names,    \* the names a store may hold
  Workers,  \* the worker goroutines, at most
  NoName,   \* no name
  Loads     \* the cleanups there may be: the names in the store, those that
            \* IranDNS denies, and the workers (cleanup_qps of them)

ASSUME LoadsAssumption ==
  /\ NoName \notin Names
  /\ IsFiniteSet(Workers)
  /\ \A load \in Loads :
       /\ load.names \subseteq Names
       /\ load.gone \subseteq load.names
       /\ load.crew \subseteq Workers
       /\ load.crew # {}

VARIABLES
  cpc,         \* control point of the cleanup goroutine
  names,       \* cleanup's domains
  gone,        \* those of them that IranDNS denies when it is asked; an
               \* exchange that fails denies nothing
  crew,        \* the workers it has started
  todo,        \* the domains not handed out yet
  work,        \* the channel
  closed,      \* is the channel closed?
  wpc, hand,   \* control point of each worker, and its domain
  toRemove,    \* the domains found invalid
  rStopped,    \* Resolver.stopped
  stopCleanup  \* is Store.stopCleanup closed?

loadVars == <<names, gone, crew>>
chanVars == <<todo, work, closed>>
workerVars == <<wpc, hand, toRemove>>
stopVars == <<rStopped, stopCleanup>>
poolVars == <<cpc, loadVars, chanVars, workerVars, stopVars>>

Busy == {"check", "validate", "exchange", "append"}

PoolTypeOK ==
  /\ cpc \in {"idle", "health", "probe", "backoff", "snapshot", "send", "drain",
              "abort", "finished", "saving", "interrupted", "ended"}
  /\ names \subseteq Names /\ gone \subseteq names /\ crew \subseteq Workers
  /\ todo \subseteq names /\ work \subseteq names
  /\ closed \in BOOLEAN
  /\ wpc \in [Workers -> {"exited", "receive"} \cup Busy]
  /\ hand \in [Workers -> Names \cup {NoName}]
  /\ toRemove \subseteq names
  /\ rStopped \in BOOLEAN /\ stopCleanup \in BOOLEAN

(* A cleanup leaves nothing behind. *)
ForgetCleanup ==
  /\ names' = {} /\ gone' = {} /\ crew' = {}
  /\ todo' = {} /\ work' = {} /\ closed' = FALSE
  /\ wpc' = [w \in Workers |-> "exited"]
  /\ hand' = [w \in Workers |-> NoName]
  /\ toRemove' = {}

PoolInit ==
  /\ cpc = "idle"
  /\ names = {} /\ gone = {} /\ crew = {}
  /\ todo = {} /\ work = {} /\ closed = FALSE
  /\ wpc = [w \in Workers |-> "exited"]
  /\ hand = [w \in Workers |-> NoName]
  /\ toRemove = {}
  /\ rStopped = FALSE /\ stopCleanup = FALSE

CGoto(label) == cpc' = label

-----------------------------------------------------------------------------
(* The cleanup goroutine *)

(* The timer of StartCleanup fires, *)
TimerFires ==
  /\ cpc = "idle"
  /\ CGoto("health")
  /\ UNCHANGED <<loadVars, chanVars, workerVars, stopVars>>

(* or the shutdown ends the goroutine. *)
CleanupEnds ==
  /\ cpc = "idle"
  /\ stopCleanup
  /\ CGoto("ended")
  /\ UNCHANGED <<loadVars, chanVars, workerVars, stopVars>>

(* IranDNSHealthy fails at once when the resolver is stopped. *)
HealthBegins ==
  /\ cpc = "health"
  /\ CGoto(IF rStopped THEN "backoff" ELSE "probe")
  /\ UNCHANGED <<loadVars, chanVars, workerVars, stopVars>>

(* One of its three exchanges succeeds, be the resolver stopped by then,   *)
HealthPasses ==
  /\ cpc = "probe"
  /\ CGoto("snapshot")
  /\ UNCHANGED <<loadVars, chanVars, workerVars, stopVars>>

(* or none does. *)
HealthFails ==
  /\ cpc = "probe"
  /\ CGoto("backoff")
  /\ UNCHANGED <<loadVars, chanVars, workerVars, stopVars>>

(* The health check is repeated after a delay, *)
BackoffOver ==
  /\ cpc = "backoff"
  /\ CGoto("health")
  /\ UNCHANGED <<loadVars, chanVars, workerVars, stopVars>>

(* unless the shutdown comes first. *)
BackoffStopped ==
  /\ cpc = "backoff"
  /\ stopCleanup
  /\ CGoto("interrupted")
  /\ UNCHANGED <<loadVars, chanVars, workerVars, stopVars>>

(* The names are copied, and the workers started. *)
Snapshot ==
  /\ cpc = "snapshot"
  /\ \E load \in Loads :
       /\ names' = load.names /\ gone' = load.gone /\ crew' = load.crew
       /\ todo' = load.names
       /\ wpc' = [w \in Workers |-> IF w \in load.crew THEN "receive" ELSE "exited"]
  /\ CGoto("send")
  /\ UNCHANGED <<work, closed, hand, toRemove, stopVars>>

Capacity == 2 * Cardinality(crew)

SendsAndForgets(d) ==
  /\ cpc = "send"
  /\ d \in todo
  /\ todo' = todo \ {d}
  /\ work' = IF Cardinality(work) < Capacity THEN work \cup {d} ELSE work
  /\ UNCHANGED <<cpc, loadVars, closed, workerVars, stopVars>>

(* One of the select's cases: there is room in the channel. *)
SendWork(d) ==
  /\ cpc = "send"
  /\ d \in todo
  /\ Cardinality(work) < Capacity
  /\ todo' = todo \ {d}
  /\ work' = work \cup {d}
  /\ UNCHANGED <<cpc, loadVars, closed, workerVars, stopVars>>

(* The other one: the shutdown. *)
SendStopped ==
  /\ cpc = "send"
  /\ todo # {}
  /\ stopCleanup
  /\ closed' = TRUE
  /\ CGoto("abort")
  /\ UNCHANGED <<loadVars, todo, work, workerVars, stopVars>>

AllSent ==
  /\ cpc = "send"
  /\ todo = {}
  /\ closed' = TRUE
  /\ CGoto("drain")
  /\ UNCHANGED <<loadVars, todo, work, workerVars, stopVars>>

(* wg.Wait *)
WorkersDone ==
  /\ cpc \in {"drain", "abort"}
  /\ \A w \in crew : wpc[w] = "exited"
  /\ CGoto(IF cpc = "drain" THEN "finished" ELSE "interrupted")
  /\ UNCHANGED <<loadVars, chanVars, workerVars, stopVars>>

(* The names are removed from the store, and the time is about to be       *)
(* recorded.                                                               *)
SaveTime ==
  /\ cpc = "finished"
  /\ CGoto("saving")
  /\ UNCHANGED <<loadVars, chanVars, workerVars, stopVars>>

(* cleanup returns. *)
CleanupReturns ==
  /\ cpc \in {"finished", "saving", "interrupted"}
  /\ ForgetCleanup
  /\ CGoto("idle")
  /\ UNCHANGED stopVars

Cleanup ==
  \/ TimerFires \/ CleanupEnds
  \/ HealthBegins \/ HealthPasses \/ HealthFails \/ BackoffOver \/ BackoffStopped
  \/ Snapshot \/ (\E d \in Names : SendWork(d)) \/ SendStopped \/ AllSent
  \/ WorkersDone

-----------------------------------------------------------------------------
(* The workers *)

WGoto(w, label) == wpc' = [wpc EXCEPT ![w] = label]

(* A worker takes a name from the channel, *)
Receive(w, d) ==
  /\ wpc[w] = "receive"
  /\ d \in work
  /\ work' = work \ {d}
  /\ hand' = [hand EXCEPT ![w] = d]
  /\ WGoto(w, "check")
  /\ UNCHANGED <<cpc, loadVars, todo, closed, toRemove, stopVars>>

EmptyIsTheEnd(w) ==
  /\ wpc[w] = "receive"
  /\ work = {}
  /\ WGoto(w, "exited")
  /\ UNCHANGED <<cpc, loadVars, chanVars, hand, toRemove, stopVars>>

(* or finds it empty and closed. *)
ChannelClosed(w) ==
  /\ wpc[w] = "receive"
  /\ work = {} /\ closed
  /\ WGoto(w, "exited")
  /\ UNCHANGED <<cpc, loadVars, chanVars, hand, toRemove, stopVars>>

(* The shutdown makes it return, with its name unjudged. *)
CheckStop(w) ==
  /\ wpc[w] = "check"
  /\ WGoto(w, IF stopCleanup THEN "exited" ELSE "validate")
  /\ hand' = [hand EXCEPT ![w] = IF stopCleanup THEN NoName ELSE @]
  /\ UNCHANGED <<cpc, loadVars, chanVars, toRemove, stopVars>>

(* ValidateDomain: every name is valid once the resolver is stopped.       *)
Validate(w) ==
  /\ wpc[w] = "validate"
  /\ WGoto(w, IF rStopped THEN "receive" ELSE "exchange")
  /\ hand' = [hand EXCEPT ![w] = IF rStopped THEN NoName ELSE @]
  /\ UNCHANGED <<cpc, loadVars, chanVars, toRemove, stopVars>>

(* Otherwise it is asked for, and invalid when IranDNS says that it does   *)
(* not exist, even if the resolver has been stopped meanwhile.             *)
ValidateExchange(w) ==
  /\ wpc[w] = "exchange"
  /\ LET valid == hand[w] \notin gone IN
     /\ WGoto(w, IF valid THEN "receive" ELSE "append")
     /\ hand' = [hand EXCEPT ![w] = IF valid THEN NoName ELSE @]
  /\ UNCHANGED <<cpc, loadVars, chanVars, toRemove, stopVars>>

(* toRemove = append(toRemove, domain), under mu *)
AppendInvalid(w) ==
  /\ wpc[w] = "append"
  /\ toRemove' = toRemove \cup {hand[w]}
  /\ hand' = [hand EXCEPT ![w] = NoName]
  /\ WGoto(w, "receive")
  /\ UNCHANGED <<cpc, loadVars, chanVars, stopVars>>

Worker(w) ==
  \/ \E d \in Names : Receive(w, d)
  \/ ChannelClosed(w) \/ CheckStop(w) \/ Validate(w) \/ ValidateExchange(w)
  \/ AppendInvalid(w)

-----------------------------------------------------------------------------
(* Resolver.Stop and Store.Stop *)
StopResolver ==
  /\ rStopped' = TRUE
  /\ UNCHANGED <<cpc, loadVars, chanVars, workerVars, stopCleanup>>

StopStore ==
  /\ rStopped
  /\ stopCleanup' = TRUE
  /\ UNCHANGED <<cpc, loadVars, chanVars, workerVars, rStopped>>

(* The process ends, whatever the goroutines are doing, and starts again.  *)
PoolRestarts ==
  /\ CGoto("idle")
  /\ ForgetCleanup
  /\ rStopped' = FALSE /\ stopCleanup' = FALSE

PoolNext ==
  \/ Cleanup \/ SaveTime \/ CleanupReturns
  \/ \E w \in Workers : Worker(w)
  \/ StopResolver \/ StopStore \/ PoolRestarts

PoolSpec == PoolInit /\ [][PoolNext]_poolVars

-----------------------------------------------------------------------------
(* Properties *)

Outcome ==
  CASE cpc \in {"idle", "ended"} -> "none"
    [] cpc \in {"health", "probe", "backoff", "snapshot"} -> "waiting"
    [] cpc \in {"send", "drain", "abort"} -> "judging"
    [] cpc \in {"finished", "saving"} -> "finished"
    [] cpc = "interrupted" -> "interrupted"

Abstract == INSTANCE CleanupSpec WITH
  outcome <- Outcome,
  remove <- IF cpc \in {"finished", "saving"} THEN toRemove ELSE {},
  stopping <- rStopped \/ stopCleanup

(* The pool implements the cleanup as CleanupSpec describes it: every name *)
(* goes through the channel to a worker and is judged once, so the names   *)
(* that IranDNS denies are removed and no others, unless the shutdown came *)
(* in between; and no worker, full channel or failing health check keeps   *)
(* the cleanup from coming to an end.                                      *)
CleanupImplements == Abstract!Spec

(* The cleanup never waits for a full channel that nobody empties: until   *)
(* stopCleanup is closed, which ends the wait, no worker returns while     *)
(* names are handed out, also when the channel runs empty in between or    *)
(* the resolver is stopped already.                                        *)
SenderIsServed ==
  cpc = "send" /\ ~stopCleanup => crew # {} /\ \A w \in crew : wpc[w] # "exited"
=============================================================================

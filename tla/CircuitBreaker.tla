--------------------------- MODULE CircuitBreaker ---------------------------
(***************************************************************************)
(* The circuit breaker that guards an upstream resolver (IranDNS or        *)
(* GlobalDNS), src/internal/resolver/resolver.go:39-104, together with the *)
(* query path that consults it and reports to it (resolver.go:607-728).    *)
(*                                                                         *)
(* The breaker has no lock: state, failures, lastOpen and the metrics      *)
(* gauge are separate atomics.  Every atomic load, store, add and compare- *)
(* and-swap is a step of its own here, so every interleaving of goroutines *)
(* that the code admits is a behaviour.                                    *)
(*                                                                         *)
(* A query stream is a goroutine that issues one upstream query after      *)
(* another, in one or more of three ways.  Streams in Gated go through     *)
(* isOpen and tryProbe (queryIranDNS and the GlobalDNS race of             *)
(* resolveWithLearning); streams in Learning ask isOpen once more before   *)
(* that, and send nothing if it is open (the race's query to IranDNS);     *)
(* streams in Bypass call query without asking the breaker (learned        *)
(* domains, fallbacks).  The outcome of every exchange is recorded.        *)
(***************************************************************************)
EXTENDS Integers, FiniteSets

CONSTANTS
  Gated,        \* query streams that may consult the breaker first
  Learning,     \* query streams that may ask whether it is open
  Bypass,       \* query streams that may leave it out
  Threshold,    \* circuitBreaker.threshold
  Cooldown,     \* circuitBreaker.cooldown, in ticks
  MaxFailures,  \* bound: with this many failures counted, exchanges that fail
                \* are explored only while the breaker is half-open
  CtxMayEnd     \* may a request context end before its exchange starts?

Streams == Gated \cup Learning \cup Bypass

ASSUME StreamsAssumption ==
  /\ IsFiniteSet(Streams)
  /\ Streams # {}

ASSUME ParametersAssumption ==
  /\ Threshold \in Nat \ {0}
  /\ Cooldown \in Nat
  /\ MaxFailures \in Nat \ {0}
  /\ CtxMayEnd \in BOOLEAN

VARIABLES
  state,     \* circuitBreaker.state
  failures,  \* circuitBreaker.failures
  age,       \* time since lastOpen, saturating just above Cooldown
  gauge,     \* metrics IranCBOpen / GlobalCBOpen
  up,        \* does the upstream answer?
  pc,        \* control point of each stream
  n,         \* recordFailure's n: what failures.Add(1) returned
  prev,      \* recordFailure's prev: the state it loaded
  granted    \* history: probes granted since the state last became Open

vars == <<state, failures, age, gauge, up, pc, n, prev, granted>>

CbStates == {"Closed", "Open", "HalfOpen"}

Labels ==
  {"idle", "gate", "probeLoad", "probeAge", "probeCas", "query",
   "failAdd", "failLoad", "failCas", "openStamp", "openReset", "openGauge",
   "okLoad", "closeCas", "closeReset", "closeGauge", "decLoad", "dec"}

TypeOK ==
  /\ state \in CbStates
  /\ failures \in Int
  /\ age \in 0 .. Cooldown + 1
  /\ gauge \in {0, 1}
  /\ up \in BOOLEAN
  /\ pc \in [Streams -> Labels]
  /\ n \in [Streams -> Int]
  /\ prev \in [Streams -> CbStates]
  /\ granted \in Nat

(* lastOpen starts as the zero time, so the cooldown has long elapsed. *)
Init ==
  /\ state = "Closed"
  /\ failures = 0
  /\ age = Cooldown + 1
  /\ gauge = 0
  /\ up \in BOOLEAN
  /\ pc = [q \in Streams |-> "idle"]
  /\ n = [q \in Streams |-> 0]
  /\ prev = [q \in Streams |-> "Closed"]
  /\ granted = 0

Goto(q, label) == pc' = [pc EXCEPT ![q] = label]

(* The locals n and prev are forgotten when recordFailure returns. *)
Forget(q) ==
  /\ n' = [n EXCEPT ![q] = 0]
  /\ prev' = [prev EXCEPT ![q] = "Closed"]

-----------------------------------------------------------------------------
(* The gate: isOpen, then tryProbe. *)

(* resolveWithLearning leaves IranDNS out unless its breaker is closed. *)
StartLearning(q) ==
  /\ q \in Learning
  /\ pc[q] = "idle"
  /\ state = "Closed"
  /\ Goto(q, "gate")
  /\ UNCHANGED <<state, failures, age, gauge, up, n, prev, granted>>

(* A gated stream loads the state in isOpen. *)
IsOpen(q) ==
  /\ (q \in Gated /\ pc[q] = "idle") \/ pc[q] = "gate"
  /\ Goto(q, IF state = "Closed" THEN "query" ELSE "probeLoad")
  /\ UNCHANGED <<state, failures, age, gauge, up, n, prev, granted>>

(* A stream that bypasses the breaker calls query directly. *)
StartBypass(q) ==
  /\ q \in Bypass
  /\ pc[q] = "idle"
  /\ Goto(q, "query")
  /\ UNCHANGED <<state, failures, age, gauge, up, n, prev, granted>>

(* tryProbe loads the state again: only an Open breaker can be probed. *)
ProbeLoad(q) ==
  /\ pc[q] = "probeLoad"
  /\ Goto(q, IF state = "Open" THEN "probeAge" ELSE "idle")
  /\ UNCHANGED <<state, failures, age, gauge, up, n, prev, granted>>

(* tryProbe loads lastOpen and compares it with the cooldown. *)
ProbeAge(q) ==
  /\ pc[q] = "probeAge"
  /\ Goto(q, IF age > Cooldown THEN "probeCas" ELSE "idle")
  /\ UNCHANGED <<state, failures, age, gauge, up, n, prev, granted>>

BlindProbeCas(q) ==
  /\ pc[q] = "probeCas"
  /\ state' = "HalfOpen"
  /\ granted' = granted + 1
  /\ Goto(q, "query")
  /\ UNCHANGED <<failures, age, gauge, up, n, prev>>

(* tryProbe swaps Open for HalfOpen; the winner sends the probe. *)
ProbeCas(q) ==
  /\ pc[q] = "probeCas"
  /\ IF state = "Open"
     THEN state' = "HalfOpen" /\ granted' = granted + 1 /\ Goto(q, "query")
     ELSE Goto(q, "idle") /\ UNCHANGED <<state, granted>>
  /\ UNCHANGED <<failures, age, gauge, up, n, prev>>

-----------------------------------------------------------------------------
(* query: one exchange with the upstream. *)

(* The context is done, or its deadline leaves no time: query returns nil  *)
(* before the exchange and reports nothing to the breaker.                 *)
QueryReturnsEarly(q) ==
  /\ CtxMayEnd
  /\ pc[q] = "query"
  /\ Goto(q, "idle")
  /\ UNCHANGED <<state, failures, age, gauge, up, n, prev, granted>>

(* The upstream answers. *)
ExchangeOk(q) ==
  /\ pc[q] = "query"
  /\ up
  /\ Goto(q, "okLoad")
  /\ UNCHANGED <<state, failures, age, gauge, up, n, prev, granted>>

(* The exchange fails: the upstream is down, or the context is cancelled   *)
(* or runs out while the exchange is under way, with the upstream up.      *)
ExchangeErr(q) ==
  /\ pc[q] = "query"
  /\ ~up \/ CtxMayEnd
  /\ failures < MaxFailures \/ state = "HalfOpen"
  /\ Goto(q, "failAdd")
  /\ UNCHANGED <<state, failures, age, gauge, up, n, prev, granted>>

-----------------------------------------------------------------------------
(* recordFailure *)

(* n := failures.Add(1) *)
FailAdd(q) ==
  /\ pc[q] = "failAdd"
  /\ failures' = failures + 1
  /\ n' = [n EXCEPT ![q] = failures + 1]
  /\ Goto(q, "failLoad")
  /\ UNCHANGED <<state, age, gauge, up, prev, granted>>

Trips(q, st) == st = "HalfOpen" \/ (st = "Closed" /\ n[q] >= Threshold)

StrictThreshold(q) ==
  /\ pc[q] = "failLoad"
  /\ IF state = "HalfOpen" \/ (state = "Closed" /\ n[q] > Threshold)
     THEN Goto(q, "failCas") /\ prev' = [prev EXCEPT ![q] = state] /\ UNCHANGED n
     ELSE Goto(q, "idle") /\ Forget(q)
  /\ UNCHANGED <<state, failures, age, gauge, up, granted>>

(* prev := state.Load(), and the decision to trip *)
FailLoad(q) ==
  /\ pc[q] = "failLoad"
  /\ IF Trips(q, state)
     THEN Goto(q, "failCas") /\ prev' = [prev EXCEPT ![q] = state] /\ UNCHANGED n
     ELSE Goto(q, "idle") /\ Forget(q)
  /\ UNCHANGED <<state, failures, age, gauge, up, granted>>

(* state.CompareAndSwap(prev, Open) *)
FailCas(q) ==
  /\ pc[q] = "failCas"
  /\ IF state = prev[q]
     THEN state' = "Open" /\ granted' = 0 /\ Goto(q, "openStamp")
     ELSE Goto(q, "idle") /\ UNCHANGED <<state, granted>>
  /\ Forget(q)
  /\ UNCHANGED <<failures, age, gauge, up>>

(* lastOpen.Store(now) *)
OpenStamp(q) ==
  /\ pc[q] = "openStamp"
  /\ age' = 0
  /\ Goto(q, "openReset")
  /\ UNCHANGED <<state, failures, gauge, up, n, prev, granted>>

(* failures.Store(0) *)
OpenReset(q) ==
  /\ pc[q] = "openReset"
  /\ failures' = 0
  /\ Goto(q, "openGauge")
  /\ UNCHANGED <<state, age, gauge, up, n, prev, granted>>

GaugeAdds(q) ==
  /\ pc[q] = "openGauge"
  /\ gauge' = gauge + 1
  /\ Goto(q, "idle")
  /\ UNCHANGED <<state, failures, age, up, n, prev, granted>>

(* onStateChange(cbOpen) *)
OpenGauge(q) ==
  /\ pc[q] = "openGauge"
  /\ gauge' = 1
  /\ Goto(q, "idle")
  /\ UNCHANGED <<state, failures, age, up, n, prev, granted>>

-----------------------------------------------------------------------------
(* recordSuccess *)

OkOnlyWhenClosed(q) ==
  /\ pc[q] = "okLoad"
  /\ Goto(q, IF state = "Closed" THEN "decLoad" ELSE "idle")
  /\ UNCHANGED <<state, failures, age, gauge, up, n, prev, granted>>

(* the switch on state.Load() *)
OkLoad(q) ==
  /\ pc[q] = "okLoad"
  /\ Goto(q, CASE state = "HalfOpen" -> "closeCas"
               [] state = "Closed"   -> "decLoad"
               [] state = "Open"     -> "idle")
  /\ UNCHANGED <<state, failures, age, gauge, up, n, prev, granted>>

(* state.CompareAndSwap(HalfOpen, Closed) *)
CloseCas(q) ==
  /\ pc[q] = "closeCas"
  /\ IF state = "HalfOpen"
     THEN state' = "Closed" /\ Goto(q, "closeReset")
     ELSE Goto(q, "idle") /\ UNCHANGED state
  /\ UNCHANGED <<failures, age, gauge, up, n, prev, granted>>

(* failures.Store(0) *)
CloseReset(q) ==
  /\ pc[q] = "closeReset"
  /\ failures' = 0
  /\ Goto(q, "closeGauge")
  /\ UNCHANGED <<state, age, gauge, up, n, prev, granted>>

(* onStateChange(cbClosed) *)
CloseGauge(q) ==
  /\ pc[q] = "closeGauge"
  /\ gauge' = 0
  /\ Goto(q, "idle")
  /\ UNCHANGED <<state, failures, age, up, n, prev, granted>>

DecWithoutLoad(q) ==
  /\ pc[q] = "decLoad"
  /\ Goto(q, "dec")
  /\ UNCHANGED <<state, failures, age, gauge, up, n, prev, granted>>

(* failures.Load() > 0 *)
DecLoad(q) ==
  /\ pc[q] = "decLoad"
  /\ Goto(q, IF failures > 0 THEN "dec" ELSE "idle")
  /\ UNCHANGED <<state, failures, age, gauge, up, n, prev, granted>>

(* failures.Add(-1), whatever happened since the load *)
Dec(q) ==
  /\ pc[q] = "dec"
  /\ failures' = failures - 1
  /\ Goto(q, "idle")
  /\ UNCHANGED <<state, age, gauge, up, n, prev, granted>>

-----------------------------------------------------------------------------
Step(q) ==
  \/ IsOpen(q) \/ StartLearning(q) \/ StartBypass(q)
  \/ ProbeLoad(q) \/ ProbeAge(q) \/ ProbeCas(q)
  \/ QueryReturnsEarly(q) \/ ExchangeOk(q) \/ ExchangeErr(q)
  \/ FailAdd(q) \/ FailLoad(q) \/ FailCas(q)
  \/ OpenStamp(q) \/ OpenReset(q) \/ OpenGauge(q)
  \/ OkLoad(q) \/ CloseCas(q) \/ CloseReset(q) \/ CloseGauge(q)
  \/ DecLoad(q) \/ Dec(q)

(* Time passes; beyond the cooldown it makes no difference. *)
Tick ==
  /\ age <= Cooldown
  /\ age' = age + 1
  /\ UNCHANGED <<state, failures, gauge, up, pc, n, prev, granted>>

(* The upstream goes down or comes back. *)
UpstreamChanges ==
  /\ up' = ~up
  /\ UNCHANGED <<state, failures, age, gauge, pc, n, prev, granted>>

Next == (\E q \in Streams : Step(q)) \/ Tick \/ UpstreamChanges

Spec == Init /\ [][Next]_vars

(* Time passes, and every goroutine keeps running: the Go scheduler is     *)
(* preemptive and every exchange has a timeout, so no step of a stream is  *)
(* postponed for ever, and clients keep asking.                            *)
Fairness == WF_vars(Tick) /\ \A q \in Streams : WF_vars(Step(q))

FairSpec == Spec /\ Fairness

-----------------------------------------------------------------------------
(* Properties *)

Quiescent == \A q \in Streams : pc[q] = "idle"

(* recordSuccess tests failures > 0 and decrements in two steps, so the    *)
(* counter can go below zero; but never further than one per goroutine     *)
(* that can be between the two, the first of which saw a positive count.   *)
FailuresBounded == failures >= 1 - Cardinality(Streams)

(* Once every outcome has been recorded, a closed breaker has counted      *)
(* fewer failures than its threshold: whatever the interleaving of Add,    *)
(* Load, CompareAndSwap and Store in recordFailure and recordSuccess, no   *)
(* failure that reaches the threshold is missed.                           *)
ClosedBelowThreshold ==
  Quiescent /\ state = "Closed" => failures < Threshold

(* However many goroutines race in tryProbe, one trip of the breaker lets  *)
(* at most one of them through: "one Half-Open probe is allowed".          *)
OneProbePerTrip == granted <= 1

(* Stream q will report the outcome of an exchange that decides a breaker  *)
(* which is half-open by then.                                             *)
Decides(q) ==
  \/ pc[q] \in {"query", "failAdd", "failLoad", "okLoad", "closeCas"}
  \/ pc[q] = "failCas" /\ prev[q] = "HalfOpen"

(* A half-open breaker, which grants no probe, never waits for nobody:     *)
(* unless query returns before its exchange, some goroutine is on its way  *)
(* to recordSuccess or recordFailure with an outcome that decides it,      *)
(* whoever has closed or opened it in between.                             *)
HalfOpenHasProbe ==
  ~CtxMayEnd /\ state = "HalfOpen" => \E q \in Streams : Decides(q)

(* A half-open breaker is eventually decided: the probe's outcome closes   *)
(* it or opens it again.                                                   *)
HalfOpenIsDecided == state = "HalfOpen" ~> state # "HalfOpen"

(* When the upstream answers from some time on, the breaker eventually     *)
(* closes and stays closed.  This is checked with CtxMayEnd FALSE, which   *)
(* takes away both what a request context may do: end before the exchange  *)
(* (QueryReturnsEarly), and be cancelled or run out during an exchange     *)
(* with an upstream that is up (ExchangeErr).  The second counts as a      *)
(* failure of the upstream, so without the restriction cancelled requests  *)
(* alone could open the breaker again and again.                           *)
RecoversWithUpstream == <>[]up => <>[](state = "Closed")
=============================================================================

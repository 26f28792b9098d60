------------------------ MODULE CircuitBreakerProofs ------------------------
(***************************************************************************)
(* Proofs about CircuitBreaker for any sets of streams, any threshold and  *)
(* any cooldown: type correctness, the bound on the failure counter, that  *)
(* no failure reaching the threshold is missed, one probe per trip, and a  *)
(* goroutine that decides a half-open breaker.                             *)
(***************************************************************************)
EXTENDS CircuitBreaker, FiniteSetTheorems, TLAPS

(* The state of the breaker is always well typed; in particular age never  *)
(* leaves its saturated range (tryProbe's comparison stays meaningful).    *)
THEOREM TypeCorrect == Spec => []TypeOK
<1>1. Init => TypeOK
  BY ParametersAssumption DEF Init, TypeOK, CbStates, Labels
<1>2. TypeOK /\ [Next]_vars => TypeOK'
  <2> SUFFICES ASSUME TypeOK, [Next]_vars PROVE TypeOK'
    OBVIOUS
  <2> USE ParametersAssumption DEF TypeOK, CbStates, Labels, Goto, Forget
  <2>1. ASSUME NEW q \in Streams,
               IsOpen(q) \/ StartLearning(q) \/ StartBypass(q)
               \/ ProbeLoad(q) \/ ProbeAge(q)
               \/ QueryReturnsEarly(q) \/ ExchangeOk(q) \/ ExchangeErr(q)
        PROVE  TypeOK'
    BY <2>1 DEF IsOpen, StartLearning, StartBypass, ProbeLoad, ProbeAge, QueryReturnsEarly,
                ExchangeOk, ExchangeErr
  <2>2. ASSUME NEW q \in Streams, ProbeCas(q) \/ CloseCas(q)
        PROVE  TypeOK'
    BY <2>2 DEF ProbeCas, CloseCas
  <2>3. ASSUME NEW q \in Streams, FailAdd(q)
        PROVE  TypeOK'
    BY <2>3 DEF FailAdd
  <2>4. ASSUME NEW q \in Streams, FailLoad(q) \/ FailCas(q)
        PROVE  TypeOK'
    BY <2>4 DEF FailLoad, FailCas
  <2>5. ASSUME NEW q \in Streams,
               OpenStamp(q) \/ OpenReset(q) \/ OpenGauge(q)
               \/ CloseReset(q) \/ CloseGauge(q)
        PROVE  TypeOK'
    BY <2>5 DEF OpenStamp, OpenReset, OpenGauge, CloseReset, CloseGauge
  <2>6. ASSUME NEW q \in Streams, OkLoad(q) \/ DecLoad(q) \/ Dec(q)
        PROVE  TypeOK'
    BY <2>6 DEF OkLoad, DecLoad, Dec
  <2>7. CASE Tick
    BY <2>7 DEF Tick
  <2>8. CASE UpstreamChanges
    BY <2>8 DEF UpstreamChanges
  <2>9. CASE UNCHANGED vars
    BY <2>9 DEF vars
  <2> QED
    BY <2>1, <2>2, <2>3, <2>4, <2>5, <2>6, <2>7, <2>8, <2>9 DEF Next, Step
<1> QED
  BY <1>1, <1>2, PTL DEF Spec

-----------------------------------------------------------------------------
(* The streams between the test failures > 0 and the decrement. *)
Decs == {q \in Streams : pc[q] = "dec"}

(* FailuresBounded is not inductive: a pending decrement will lower the    *)
(* counter whatever its value is by then.  Charging the pending decrements *)
(* to the counter in advance makes it so.                                  *)
DecsCharged == failures - Cardinality(Decs) >= 1 - Cardinality(Streams)

(* A set of streams is finite, and no larger than Streams. *)
LEMMA SomeStreams ==
  ASSUME NEW S \in SUBSET Streams
  PROVE  /\ IsFiniteSet(S)
         /\ Cardinality(S) \in Nat
         /\ Cardinality(Streams) \in Nat \ {0}
         /\ Cardinality(S) <= Cardinality(Streams)
<1>1. IsFiniteSet(Streams)
  BY StreamsAssumption
<1>2. IsFiniteSet(S) /\ Cardinality(S) <= Cardinality(Streams)
  BY <1>1, FS_Subset
<1>3. Cardinality(Streams) # 0
  BY <1>1, FS_EmptySet, StreamsAssumption
<1> QED
  BY <1>1, <1>2, <1>3, FS_CardinalityType

(* A set of streams that misses one of them is smaller than Streams. *)
LEMMA AllButOneStream ==
  ASSUME NEW S \in SUBSET Streams, NEW q \in Streams, q \notin S
  PROVE  Cardinality(S) <= Cardinality(Streams) - 1
<1>1. IsFiniteSet(Streams) /\ S \subseteq Streams \ {q}
  BY StreamsAssumption
<1>2. IsFiniteSet(Streams \ {q})
      /\ Cardinality(Streams \ {q}) = Cardinality(Streams) - 1
  BY <1>1, FS_RemoveElement
<1> QED
  BY <1>1, <1>2, FS_Subset

(* The bound on the failure counter holds for every number of goroutines.  *)
THEOREM FailureCounterBounded == Spec => []FailuresBounded
<1>1. Init => DecsCharged
  <2> SUFFICES ASSUME Init PROVE DecsCharged
    OBVIOUS
  <2>1. Decs = {}
    BY DEF Init, Decs
  <2> QED
    BY <2>1, FS_EmptySet, SomeStreams DEF Init, DecsCharged
<1>2. TypeOK /\ DecsCharged /\ [Next]_vars => DecsCharged'
  <2> SUFFICES ASSUME TypeOK, DecsCharged, [Next]_vars PROVE DecsCharged'
    OBVIOUS
  <2>0. /\ failures \in Int
        /\ Cardinality(Decs) \in Nat
        /\ Cardinality(Decs)' \in Nat
        /\ Cardinality(Decs)' <= Cardinality(Streams)
        /\ Cardinality(Streams) \in Nat
    BY SomeStreams DEF TypeOK, Decs
  <2>1. ASSUME failures' = failures, Decs' = Decs
        PROVE  DecsCharged'
    BY <2>1 DEF DecsCharged
  <2>2. ASSUME NEW q \in Streams,
               IsOpen(q) \/ StartLearning(q) \/ StartBypass(q)
               \/ ProbeLoad(q) \/ ProbeAge(q)
               \/ ProbeCas(q) \/ QueryReturnsEarly(q) \/ ExchangeOk(q)
               \/ ExchangeErr(q)
        PROVE  DecsCharged'
    BY <2>1, <2>2
       DEF IsOpen, StartLearning, StartBypass, ProbeLoad, ProbeAge, ProbeCas,
           QueryReturnsEarly, ExchangeOk, ExchangeErr, Goto, Decs, TypeOK
  <2>3. ASSUME NEW q \in Streams,
               FailLoad(q) \/ FailCas(q) \/ OpenStamp(q) \/ OpenGauge(q)
               \/ CloseCas(q) \/ CloseGauge(q)
        PROVE  DecsCharged'
    BY <2>1, <2>3
       DEF FailLoad, FailCas, OpenStamp, OpenGauge, CloseCas, CloseGauge,
           Goto, Decs, TypeOK
  <2>4. ASSUME NEW q \in Streams, OkLoad(q)
        PROVE  DecsCharged'
    <3>1. failures' = failures /\ \E l \in Labels \ {"dec"} : Goto(q, l)
      BY <2>4 DEF OkLoad, TypeOK, CbStates, Labels
    <3>2. pc[q] # "dec"
      BY <2>4 DEF OkLoad
    <3>3. Decs' = Decs
      BY <3>1, <3>2 DEF Goto, Decs, TypeOK
    <3> QED
      BY <2>1, <3>1, <3>3
  <2>5. ASSUME NEW q \in Streams, FailAdd(q)
        PROVE  DecsCharged'
    <3>1. Decs' = Decs /\ failures' = failures + 1
      BY <2>5 DEF FailAdd, Goto, Decs, TypeOK
    <3> QED
      BY <3>1, <2>0 DEF DecsCharged
  <2>6. ASSUME NEW q \in Streams, OpenReset(q) \/ CloseReset(q)
        PROVE  DecsCharged'
    <3>1. Decs' = Decs /\ failures' = 0 /\ pc[q] # "dec"
      BY <2>6 DEF OpenReset, CloseReset, Goto, Decs, TypeOK
    <3>2. Cardinality(Decs) <= Cardinality(Streams) - 1
      BY <3>1, AllButOneStream DEF Decs
    <3> QED
      BY <3>1, <3>2, <2>0 DEF DecsCharged
  <2>7. ASSUME NEW q \in Streams, DecLoad(q)
        PROVE  DecsCharged'
    <3>1. CASE failures > 0
      <4>1. failures' = failures
        BY <2>7 DEF DecLoad
      <4> QED
        BY <3>1, <4>1, <2>0 DEF DecsCharged
    <3>2. CASE ~(failures > 0)
      BY <2>1, <2>7, <3>2 DEF DecLoad, Goto, Decs, TypeOK
    <3> QED
      BY <3>1, <3>2
  <2>8. ASSUME NEW q \in Streams, Dec(q)
        PROVE  DecsCharged'
    <3>1. q \in Decs /\ Decs' = Decs \ {q} /\ failures' = failures - 1
      BY <2>8 DEF Dec, Goto, Decs, TypeOK
    <3>2. IsFiniteSet(Decs)
      BY SomeStreams DEF Decs
    <3>3. Cardinality(Decs \ {q}) = Cardinality(Decs) - 1
      BY <3>1, <3>2, FS_RemoveElement
    <3> QED
      BY <3>1, <3>3, <2>0 DEF DecsCharged
  <2>9. CASE Tick \/ UpstreamChanges
    BY <2>1, <2>9 DEF Tick, UpstreamChanges, Decs
  <2>10. CASE UNCHANGED vars
    BY <2>1, <2>10 DEF vars, Decs
  <2> QED
    BY <2>2, <2>3, <2>4, <2>5, <2>6, <2>7, <2>8, <2>9, <2>10 DEF Next, Step
<1>3. TypeOK /\ DecsCharged => FailuresBounded
  BY SomeStreams DEF TypeOK, Decs, DecsCharged, FailuresBounded
<1> QED
  BY <1>1, <1>2, <1>3, TypeCorrect, PTL DEF Spec

-----------------------------------------------------------------------------
(* Stream q is about to make the breaker either leave Closed or forget its *)
(* failures.                                                               *)
Settles(q) ==
  \/ pc[q] = "closeReset"
  \/ pc[q] = "failLoad" /\ n[q] >= Threshold
  \/ pc[q] = "failCas" /\ prev[q] = "Closed"

(* A closed breaker holds Threshold failures only while some stream is     *)
(* about to settle it.                                                     *)
ThresholdIsNoticed ==
  state = "Closed" /\ failures >= Threshold => \E q \in Streams : Settles(q)

(* No failure that reaches the threshold is missed, for every number of    *)
(* goroutines in recordFailure and recordSuccess.                          *)
THEOREM NoMissedTrip == Spec => []ClosedBelowThreshold
<1>1. Init => ThresholdIsNoticed
  BY ParametersAssumption DEF Init, ThresholdIsNoticed
<1>2. TypeOK /\ ThresholdIsNoticed /\ [Next]_vars => ThresholdIsNoticed'
  <2> SUFFICES ASSUME TypeOK, ThresholdIsNoticed, [Next]_vars,
                      state' = "Closed", failures' >= Threshold
               PROVE  \E q \in Streams : Settles(q)'
    BY DEF ThresholdIsNoticed
  <2> USE ParametersAssumption DEF TypeOK, Goto, Forget, Settles
  (* A step of q that keeps the breaker closed and does not raise the      *)
  (* counter leaves every other witness in place.                          *)
  <2>1. ASSUME NEW q \in Streams, state = "Closed", failures >= Threshold,
               ~ Settles(q),
               \A r \in Streams \ {q} :
                 pc'[r] = pc[r] /\ n'[r] = n[r] /\ prev'[r] = prev[r]
        PROVE  \E r \in Streams : Settles(r)'
    <3>1. PICK r \in Streams : Settles(r)
      BY <2>1 DEF ThresholdIsNoticed
    <3> QED
      BY <2>1, <3>1
  <2>2. ASSUME NEW q \in Streams,
               IsOpen(q) \/ StartLearning(q) \/ StartBypass(q)
               \/ ProbeLoad(q) \/ ProbeAge(q)
               \/ ProbeCas(q) \/ QueryReturnsEarly(q) \/ ExchangeOk(q)
               \/ ExchangeErr(q)
        PROVE  \E r \in Streams : Settles(r)'
    BY <2>1, <2>2
       DEF IsOpen, StartLearning, StartBypass, ProbeLoad, ProbeAge, ProbeCas,
           QueryReturnsEarly, ExchangeOk, ExchangeErr
  <2>3. ASSUME NEW q \in Streams, FailAdd(q)
        PROVE  \E r \in Streams : Settles(r)'
    BY <2>3 DEF FailAdd
  <2>4. ASSUME NEW q \in Streams, FailLoad(q)
        PROVE  \E r \in Streams : Settles(r)'
    <3>1. CASE n[q] >= Threshold
      BY <2>4, <3>1 DEF FailLoad, Trips
    <3>2. CASE ~(n[q] >= Threshold)
      BY <2>1, <2>4, <3>2 DEF FailLoad
    <3> QED
      BY <3>1, <3>2
  <2>5. ASSUME NEW q \in Streams, FailCas(q)
        PROVE  \E r \in Streams : Settles(r)'
    BY <2>1, <2>5 DEF FailCas
  <2>6. ASSUME NEW q \in Streams,
               OpenStamp(q) \/ OpenGauge(q) \/ CloseGauge(q) \/ OkLoad(q)
               \/ DecLoad(q)
        PROVE  \E r \in Streams : Settles(r)'
    BY <2>1, <2>6 DEF OpenStamp, OpenGauge, CloseGauge, OkLoad, DecLoad
  <2>7. ASSUME NEW q \in Streams, OpenReset(q) \/ CloseReset(q)
        PROVE  FALSE
    BY <2>7 DEF OpenReset, CloseReset
  <2>8. ASSUME NEW q \in Streams, CloseCas(q)
        PROVE  \E r \in Streams : Settles(r)'
    <3>1. CASE state = "HalfOpen"
      BY <2>8, <3>1 DEF CloseCas
    <3>2. CASE state # "HalfOpen"
      BY <2>1, <2>8, <3>2 DEF CloseCas
    <3> QED
      BY <3>1, <3>2
  <2>9. ASSUME NEW q \in Streams, Dec(q)
        PROVE  \E r \in Streams : Settles(r)'
    BY <2>1, <2>9 DEF Dec
  <2>10. CASE Tick \/ UpstreamChanges \/ UNCHANGED vars
    BY <2>10 DEF Tick, UpstreamChanges, vars, ThresholdIsNoticed
  <2> QED
    BY <2>2, <2>3, <2>4, <2>5, <2>6, <2>7, <2>8, <2>9, <2>10 DEF Next, Step
<1>3. TypeOK /\ ThresholdIsNoticed => ClosedBelowThreshold
  BY ParametersAssumption
     DEF TypeOK, ThresholdIsNoticed, ClosedBelowThreshold, Quiescent, Settles
<1> QED
  BY <1>1, <1>2, <1>3, TypeCorrect, PTL DEF Spec

-----------------------------------------------------------------------------
(* While the breaker is open the probe of this trip has not been granted.  *)
ProbeUnspentWhileOpen ==
  /\ granted \in {0, 1}
  /\ state = "Open" => granted = 0

(* One trip lets at most one probe through, whatever the number of         *)
(* goroutines racing in tryProbe.                                          *)
THEOREM AtMostOneProbe == Spec => []OneProbePerTrip
<1>1. Init => ProbeUnspentWhileOpen
  BY DEF Init, ProbeUnspentWhileOpen
<1>2. ProbeUnspentWhileOpen /\ [Next]_vars => ProbeUnspentWhileOpen'
  <2> SUFFICES ASSUME ProbeUnspentWhileOpen, [Next]_vars
               PROVE  ProbeUnspentWhileOpen'
    OBVIOUS
  <2> USE DEF ProbeUnspentWhileOpen
  <2>1. ASSUME NEW q \in Streams, ProbeCas(q)
        PROVE  ProbeUnspentWhileOpen'
    BY <2>1 DEF ProbeCas
  <2>2. ASSUME NEW q \in Streams, FailCas(q)
        PROVE  ProbeUnspentWhileOpen'
    BY <2>2 DEF FailCas
  <2>3. ASSUME NEW q \in Streams, CloseCas(q)
        PROVE  ProbeUnspentWhileOpen'
    BY <2>3 DEF CloseCas
  (* Every other step leaves the state and the history alone. *)
  <2>4. ASSUME NEW q \in Streams,
               Step(q), ~ProbeCas(q), ~FailCas(q), ~CloseCas(q)
        PROVE  ProbeUnspentWhileOpen'
    BY <2>4
       DEF Step, IsOpen, StartLearning, StartBypass, ProbeLoad, ProbeAge, QueryReturnsEarly,
           ExchangeOk, ExchangeErr, FailAdd, FailLoad, OpenStamp, OpenReset,
           OpenGauge, OkLoad, CloseReset, CloseGauge, DecLoad, Dec
  <2>5. CASE Tick \/ UpstreamChanges \/ UNCHANGED vars
    BY <2>5 DEF Tick, UpstreamChanges, vars
  <2> QED
    BY <2>1, <2>2, <2>3, <2>4, <2>5 DEF Next
<1>3. ProbeUnspentWhileOpen => OneProbePerTrip
  BY DEF ProbeUnspentWhileOpen, OneProbePerTrip
<1> QED
  BY <1>1, <1>2, <1>3, PTL DEF Spec
-----------------------------------------------------------------------------
(* A half-open breaker never waits for nobody, for every number of         *)
(* goroutines: an early return of query is the only way to leave it to     *)
(* itself.  The property is inductive: whoever swaps Open for HalfOpen is  *)
(* about to query, and what a stream on its way reports either decides the *)
(* breaker or finds it decided.                                            *)
THEOREM ProbeIsUnderWay == Spec => []HalfOpenHasProbe
<1>1. Init => HalfOpenHasProbe
  BY DEF Init, HalfOpenHasProbe
<1>2. TypeOK /\ HalfOpenHasProbe /\ [Next]_vars => HalfOpenHasProbe'
  <2> SUFFICES ASSUME TypeOK, HalfOpenHasProbe, [Next]_vars,
                      ~CtxMayEnd, state' = "HalfOpen"
               PROVE  \E q \in Streams : Decides(q)'
    BY DEF HalfOpenHasProbe
  <2> USE DEF TypeOK, Goto, Forget, Decides
  (* A step of q that finds the breaker half-open, and leaves it so, keeps *)
  (* the others on their way, and q too if it was.                         *)
  <2>1. ASSUME NEW q \in Streams, state = "HalfOpen",
               Decides(q) => Decides(q)',
               \A r \in Streams \ {q} : pc'[r] = pc[r] /\ prev'[r] = prev[r]
        PROVE  \E r \in Streams : Decides(r)'
    <3>1. PICK r \in Streams : Decides(r)
      BY <2>1 DEF HalfOpenHasProbe
    <3> QED
      BY <2>1, <3>1
  <2>2. ASSUME NEW q \in Streams,
               IsOpen(q) \/ StartLearning(q) \/ StartBypass(q)
               \/ ProbeLoad(q) \/ ProbeAge(q) \/ ExchangeOk(q) \/ ExchangeErr(q)
        PROVE  \E r \in Streams : Decides(r)'
    BY <2>1, <2>2
       DEF IsOpen, StartLearning, StartBypass, ProbeLoad, ProbeAge, ExchangeOk, ExchangeErr
  <2>3. ASSUME NEW q \in Streams, ProbeCas(q)
        PROVE  \E r \in Streams : Decides(r)'
    <3>1. CASE state = "Open"
      BY <2>3, <3>1 DEF ProbeCas
    <3>2. CASE state # "Open"
      BY <2>1, <2>3, <3>2 DEF ProbeCas
    <3> QED
      BY <3>1, <3>2
  <2>4. ASSUME NEW q \in Streams, QueryReturnsEarly(q)
        PROVE  FALSE
    BY <2>4 DEF QueryReturnsEarly
  <2>5. ASSUME NEW q \in Streams, FailAdd(q) \/ FailLoad(q)
        PROVE  \E r \in Streams : Decides(r)'
    BY <2>1, <2>5 DEF FailAdd, FailLoad, Trips
  <2>6. ASSUME NEW q \in Streams, FailCas(q)
        PROVE  \E r \in Streams : Decides(r)'
    BY <2>1, <2>6 DEF FailCas
  <2>7. ASSUME NEW q \in Streams, OkLoad(q) \/ CloseCas(q)
        PROVE  \E r \in Streams : Decides(r)'
    BY <2>1, <2>7 DEF OkLoad, CloseCas
  <2>8. ASSUME NEW q \in Streams,
               OpenStamp(q) \/ OpenReset(q) \/ OpenGauge(q)
               \/ CloseReset(q) \/ CloseGauge(q) \/ DecLoad(q) \/ Dec(q)
        PROVE  \E r \in Streams : Decides(r)'
    BY <2>1, <2>8
       DEF OpenStamp, OpenReset, OpenGauge, CloseReset, CloseGauge, DecLoad, Dec
  <2>9. CASE Tick \/ UpstreamChanges \/ UNCHANGED vars
    BY <2>9 DEF Tick, UpstreamChanges, vars, HalfOpenHasProbe
  <2> QED
    BY <2>2, <2>3, <2>4, <2>5, <2>6, <2>7, <2>8, <2>9 DEF Next, Step
<1> QED
  BY <1>1, <1>2, TypeCorrect, PTL DEF Spec
=============================================================================

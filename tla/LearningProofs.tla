--------------------------- MODULE LearningProofs ---------------------------
(***************************************************************************)
(* resolveWithLearning does what LearningSpec says, whatever the addresses *)
(* that occur in responses.                                                *)
(***************************************************************************)
EXTENDS Learning, TLAPS

(* A response can be told from nil, from an empty channel and from the     *)
(* SERVFAIL of the resolver.                                               *)
LEMMA MessagesDiffer ==
  /\ \A u \in Upstreams : Nil \notin Replies(u) /\ Empty \notin Received(u)
  /\ ServerFail # Nil
  /\ Empty # Nil
  BY DEF Upstreams, Replies, Received, Nil, Empty, ServerFail

(* A nil response has not been vetted: it has no addresses. *)
LEMMA NilIsNotVetted == ~Vetted(Nil)
  BY DEF Vetted, Nil

-----------------------------------------------------------------------------
(* Type correctness *)

(* The steps of the upstream goroutines, and the deadline *)
LEMMA WorkerType ==
  TypeOK /\ ((\E u \in Upstreams : Worker(u)) \/ Deadline) => TypeOK'
  <1> SUFFICES ASSUME TypeOK,
                      (\E u \in Upstreams : Worker(u)) \/ Deadline
               PROVE  TypeOK'
    OBVIOUS
  <1> USE DEF requestVars, workerVars
  <1>1. ASSUME NEW u \in Upstreams, Begin(u) PROVE TypeOK'
    BY <1>1 DEF TypeOK, Begin
  <1>2. ASSUME NEW u \in Upstreams, Exchange(u) PROVE TypeOK'
    BY <1>2 DEF TypeOK, Exchange, Upstreams
  <1>3. ASSUME NEW u \in Upstreams, Send(u) PROVE TypeOK'
    <2>1. Nil \in Received(u)
      BY DEF Received
    <2> QED
      BY <1>3, <2>1 DEF TypeOK, Send, Upstreams, Received
  <1>4. CASE Deadline
    BY <1>4 DEF TypeOK, Deadline
  <1> QED
    BY <1>1, <1>2, <1>3, <1>4 DEF Worker

(* The steps of the request that receive a response *)
LEMMA TakeType ==
  ASSUME TypeOK, NEW u \in Upstreams, Take(u)
  PROVE  /\ iranMsg' \in Received("iran")
         /\ globalMsg' \in Received("global")
         /\ chan' \in [Upstreams -> Received("iran") \cup Received("global") \cup {Empty}]
         /\ \A v \in Upstreams : chan'[v] \in Received(v) \cup {Empty}
         /\ cancelled' \in [Upstreams -> BOOLEAN]
  <1>1. chan[u] \in Received(u)
    BY DEF TypeOK, Take
  <1>2. cancelled' \in [Upstreams -> BOOLEAN]
    <2>1. CASE u = "iran"
      BY <2>1 DEF TypeOK, Take
    <2>2. CASE u = "global"
      BY <2>2, Zenon DEF TypeOK, Take, Upstreams
    <2> QED
      BY <2>1, <2>2 DEF Upstreams
  <1>3. iranMsg' \in Received("iran") /\ globalMsg' \in Received("global")
    BY <1>1 DEF TypeOK, Take, Upstreams
  <1>4. \A v \in Upstreams : chan'[v] \in Received(v) \cup {Empty}
    BY <1>1 DEF TypeOK, Take
  <1>5. chan' \in [Upstreams -> Received("iran") \cup Received("global") \cup {Empty}]
    BY DEF TypeOK, Take
  <1> QED
    BY <1>2, <1>3, <1>4, <1>5

(* Judging a response types pc, result and learned. *)
LEMMA JudgeType ==
  ASSUME TypeOK,
         NEW im \in Received("iran"), NEW gm \in Received("global"),
         Judge(im, gm)
  PROVE  /\ pc' \in {"waitGlobal", "waitIran", "fallback", "done"}
         /\ result' \in Replies("iran") \cup Replies("global") \cup {ServerFail, Nil}
         /\ learned' \in BOOLEAN
  BY DEF TypeOK, Judge, JudgeIran, JudgeGlobal, JudgeNothing, Return, WaitAt, Received

(* The steps of the request *)
LEMMA RequestType == TypeOK /\ Request => TypeOK'
  <1> SUFFICES ASSUME TypeOK, Request PROVE TypeOK'
    OBVIOUS
  <1>1. CASE Start
    BY <1>1 DEF TypeOK, Start, Upstreams, needGlobal
  <1>2. ASSUME NEW u \in Upstreams, FirstReceives(u) PROVE TypeOK'
    <2>1. CASE chan[u] = Nil
      BY <1>2, <2>1, TakeType DEF TypeOK, FirstReceives, Take, WaitAt
    <2>2. CASE chan[u] # Nil
      <3>1. Judge(iranMsg', globalMsg')
        BY <1>2, <2>2 DEF FirstReceives
      <3>2. Take(u)
        BY <1>2 DEF FirstReceives
      <3> QED
        BY <3>1, <3>2, TakeType, JudgeType DEF TypeOK, Take
    <2> QED
      BY <2>1, <2>2
  <1>3. ASSUME NEW u \in Upstreams, SecondReceives(u) PROVE TypeOK'
    <2>1. Take(u) /\ Judge(iranMsg', globalMsg')
      BY <1>3 DEF SecondReceives
    <2> QED
      BY <2>1, TakeType, JudgeType DEF TypeOK, Take
  <1>4. CASE SecondTimesOut
    BY <1>4 DEF TypeOK, SecondTimesOut, JudgeNothing, Return, WaitAt, workerVars
  <1>5. CASE GivesUp
    BY <1>5 DEF TypeOK, GivesUp, Return, workerVars
  <1>6. CASE GlobalOverrules
    <2>1. Take("global") /\ "global" \in Upstreams
      BY <1>6 DEF GlobalOverrules, Upstreams
    <2> QED
      BY <1>6, <2>1, TakeType DEF TypeOK, GlobalOverrules, Take, Return, Received
  <1>7. CASE GlobalTimesOut
    BY <1>7 DEF TypeOK, GlobalTimesOut, Return, workerVars
  <1>8. CASE IranTeaches
    <2>1. Take("iran") /\ "iran" \in Upstreams
      BY <1>8 DEF IranTeaches, Upstreams
    <2>2. learned' \in BOOLEAN
      BY <1>8 DEF IranTeaches, TypeOK
    <2>3. result' \in Replies("global") \cup {Nil} /\ pc' = "done"
      BY <1>8 DEF IranTeaches, TypeOK, Return, Received
    <2> QED
      BY <2>1, <2>2, <2>3, TakeType DEF TypeOK, Take
  <1>9. CASE IranTimesOut
    BY <1>9 DEF TypeOK, IranTimesOut, Return, workerVars, Received
  <1>10. CASE Fallback
    BY <1>10 DEF TypeOK, Fallback, Return, workerVars, Received
  <1> QED
    BY <1>1, <1>2, <1>3, <1>4, <1>5, <1>6, <1>7, <1>8, <1>9, <1>10 DEF Request

(* Every variable of resolveWithLearning keeps its type. *)
THEOREM TypeCorrect == Spec => []TypeOK
  <1>1. Init => TypeOK
    BY DEF Init, TypeOK, Received, Upstreams
  <1>2. TypeOK /\ [Next]_vars => TypeOK'
    <2>1. TypeOK /\ UNCHANGED vars => TypeOK'
      BY DEF TypeOK, vars, requestVars, workerVars
    <2> QED
      BY <2>1, WorkerType, RequestType DEF Next
  <1> QED
    BY <1>1, <1>2, PTL DEF Spec
-----------------------------------------------------------------------------
(* The inductive invariant *)

(* GlobalDNS has been asked if there is anything of it to be seen, and is  *)
(* not asked for nothing.                                                  *)
GlobalAsked ==
  /\ globalStarted => needGlobal /\ pc # "start"
  /\ worker["global"] # "none" \/ chan["global"] # Empty \/ globalMsg # Nil
       => globalStarted

(* What has been received and rejected, at each control point *)
Waiting ==
  /\ pc \in {"start", "first", "second", "fallback", "waitIran"} => iranMsg = Nil
  /\ pc \in {"start", "first", "second", "fallback", "waitGlobal"} => globalMsg = Nil
  /\ pc = "waitIran" => ~iranOpen /\ globalMsg # Nil
  /\ pc = "waitGlobal" => address /\ ~Vetted(iranMsg)

(* Nothing is returned or learned before the end, and what is returned and *)
(* learned then is an outcome LearningSpec allows.                         *)
Outcome ==
  /\ pc # "done" => result = Nil /\ ~learned
  /\ pc = "done" => /\ result # Nil
                    /\ [resp |-> result, learned |-> learned] \in LearningOutcomes(address)

Inv == GlobalAsked /\ Waiting /\ Outcome /\ LearnsWhatItSaw /\ GlobalAnswerIsUsed

(* The three ways to end, as outcomes *)
LEMMA IranOutcome ==
  ASSUME NEW a \in BOOLEAN, NEW m \in Replies("iran"), a => Vetted(m)
  PROVE  [resp |-> m, learned |-> a] \in LearningOutcomes(a)
  BY DEF LearningOutcomes

(* An answer of GlobalDNS, with or without a lesson of IranDNS *)
LEMMA GlobalOutcome ==
  ASSUME NEW a \in BOOLEAN, NEW m \in Replies("global"), NEW l \in {FALSE, a}
  PROVE  [resp |-> m, learned |-> l] \in LearningOutcomes(a)
  BY DEF LearningOutcomes

(* SERVFAIL, and nothing is learned *)
LEMMA FailOutcome ==
  ASSUME NEW a \in BOOLEAN
  PROVE  [resp |-> ServerFail, learned |-> FALSE] \in LearningOutcomes(a)
  BY DEF LearningOutcomes

(* The upstream goroutines and the deadline leave the request alone. *)
LEMMA WorkerInv ==
  TypeOK /\ Inv /\ ((\E u \in Upstreams : Worker(u)) \/ Deadline) => Inv'
  <1> SUFFICES ASSUME TypeOK, Inv,
                      (\E u \in Upstreams : Worker(u)) \/ Deadline
               PROVE  Inv'
    OBVIOUS
  <1>1. UNCHANGED <<address, iranOpen, globalStarted, pc, iranMsg, globalMsg, result,
                    learned>>
    BY DEF Worker, Begin, Exchange, Send, Deadline, requestVars
  <1>2. GlobalAsked'
    BY <1>1 DEF Inv, GlobalAsked, Worker, Begin, Exchange, Send, Deadline, workerVars,
                Upstreams, TypeOK, needGlobal
  <1>3. (Waiting /\ Outcome)'
    BY <1>1 DEF Inv, Waiting, Outcome
  <1>4. (LearnsWhatItSaw /\ GlobalAnswerIsUsed)'
    BY <1>1 DEF Inv, LearnsWhatItSaw, GlobalAnswerIsUsed
  <1> QED
    BY <1>2, <1>3, <1>4 DEF Inv

(* A response taken from a channel: only one that GlobalDNS was asked for. *)
LEMMA TakeInv ==
  ASSUME TypeOK, Inv, pc # "start", pc' # "start", NEW u \in Upstreams, Take(u)
  PROVE  /\ GlobalAsked'
         /\ chan[u] \in Received(u)
         /\ u = "iran" => iranMsg' = chan[u] /\ globalMsg' = globalMsg
         /\ u = "global" => globalMsg' = chan[u] /\ iranMsg' = iranMsg /\ globalStarted
  BY DEF Inv, GlobalAsked, TypeOK, Take, Upstreams, needGlobal

(* The request judges the first response that is not nil. *)
LEMMA JudgeInv ==
  ASSUME TypeOK, Inv, pc \in {"first", "second"},
         NEW u \in Upstreams, Take(u), Judge(iranMsg', globalMsg')
  PROVE  Inv'
  <1>1. ~learned /\ result = Nil /\ iranMsg = Nil /\ globalMsg = Nil /\ learned = FALSE
    BY DEF Inv, Outcome, Waiting, TypeOK
  <1>2. /\ UNCHANGED <<address, iranOpen, globalStarted>>
        /\ address \in BOOLEAN /\ iranOpen \in BOOLEAN
    BY DEF Take, TypeOK
  <1>3. pc' # "start"
    BY JudgeType, TakeType
  <1>4. /\ GlobalAsked'
        /\ chan[u] \in Received(u)
        /\ u = "iran" => iranMsg' = chan[u] /\ globalMsg' = Nil
        /\ u = "global" => globalMsg' = chan[u] /\ iranMsg' = Nil /\ globalStarted
    BY <1>1, <1>3, TakeInv
  <1>5. CASE iranMsg' # Nil
    <2>1. iranMsg' \in Replies("iran") /\ globalMsg' = Nil
      BY <1>4, <1>5 DEF Upstreams, Received
    <2>2. JudgeIran(iranMsg')
      BY <1>5 DEF Judge
    <2>3. CASE ~address \/ Vetted(iranMsg')
      <3>1. pc' = "done" /\ result' = iranMsg' /\ learned' = address
        BY <1>1, <1>2, <2>2, <2>3 DEF JudgeIran, Return
      <3>2. [resp |-> result', learned |-> learned'] \in LearningOutcomes(address')
        BY <1>2, <2>1, <2>3, <3>1, IranOutcome
      <3> QED
        BY <1>2, <1>4, <1>5, <2>1, <2>3, <3>1, <3>2
        DEF Inv, Waiting, Outcome, LearnsWhatItSaw, GlobalAnswerIsUsed
    <2>4. CASE address /\ ~Vetted(iranMsg') /\ globalStarted
      <3>1. pc' = "waitGlobal" /\ result' = Nil /\ ~learned'
        BY <1>1, <2>2, <2>4 DEF JudgeIran, WaitAt
      <3> QED
        BY <1>2, <1>4, <2>1, <2>4, <3>1
        DEF Inv, Waiting, Outcome, LearnsWhatItSaw, GlobalAnswerIsUsed
    <2>5. CASE address /\ ~Vetted(iranMsg') /\ ~globalStarted
      <3>1. pc' = "done" /\ result' = ServerFail /\ learned' = FALSE
        BY <1>1, <2>2, <2>5 DEF JudgeIran, Return
      <3> QED
        BY <1>2, <1>4, <2>1, <2>5, <3>1, FailOutcome, MessagesDiffer
        DEF Inv, Waiting, Outcome, LearnsWhatItSaw, GlobalAnswerIsUsed
    <2> QED
      BY <2>3, <2>4, <2>5
  <1>6. CASE iranMsg' = Nil /\ globalMsg' # Nil
    <2>1. globalMsg' \in Replies("global")
      BY <1>4, <1>6 DEF Upstreams, Received
    <2>2. JudgeGlobal(globalMsg')
      BY <1>6 DEF Judge
    <2>3. CASE iranOpen
      <3>1. pc' = "done" /\ result' = globalMsg' /\ learned' = FALSE
        BY <1>1, <2>2, <2>3 DEF JudgeGlobal, Return
      <3> QED
        BY <1>2, <1>4, <1>6, <2>1, <3>1, GlobalOutcome, NilIsNotVetted
        DEF Inv, Waiting, Outcome, LearnsWhatItSaw, GlobalAnswerIsUsed
    <2>4. CASE ~iranOpen
      <3>1. pc' = "waitIran" /\ result' = Nil /\ ~learned'
        BY <1>1, <2>2, <2>4 DEF JudgeGlobal, WaitAt
      <3> QED
        BY <1>2, <1>4, <1>6, <2>4, <3>1
        DEF Inv, Waiting, Outcome, LearnsWhatItSaw, GlobalAnswerIsUsed
    <2> QED
      BY <2>3, <2>4
  <1>7. CASE iranMsg' = Nil /\ globalMsg' = Nil
    <2>1. JudgeNothing
      BY <1>7 DEF Judge
    <2>2. CASE needGlobal
      <3>1. pc' = "done" /\ result' = ServerFail /\ learned' = FALSE
        BY <1>1, <2>1, <2>2 DEF JudgeNothing, Return
      <3> QED
        BY <1>2, <1>4, <1>7, <3>1, FailOutcome, MessagesDiffer, NilIsNotVetted
        DEF Inv, Waiting, Outcome, LearnsWhatItSaw, GlobalAnswerIsUsed
    <2>3. CASE ~needGlobal
      <3>1. pc' = "fallback" /\ result' = Nil /\ ~learned'
        BY <1>1, <2>1, <2>3 DEF JudgeNothing, WaitAt
      <3> QED
        BY <1>2, <1>4, <1>7, <3>1
        DEF Inv, Waiting, Outcome, LearnsWhatItSaw, GlobalAnswerIsUsed
    <2> QED
      BY <2>2, <2>3
  <1> QED
    BY <1>5, <1>6, <1>7

(* The steps of the request that return at once: what they return is an    *)
(* outcome, and they learn nothing.                                        *)
LEMMA ReturnInv ==
  ASSUME TypeOK, Inv, pc # "done", pc' = "done", pc # "start",
         UNCHANGED <<address, iranOpen, globalStarted, worker, chan, iranMsg,
                     globalMsg, learned>>,
         ~(address /\ Vetted(iranMsg)),
         \/ result' = ServerFail /\ globalMsg = Nil
         \/ result' \in Replies("global") /\ globalMsg \in {Nil, result'}
  PROVE  Inv'
  <1>1. learned' = FALSE /\ address' = address /\ address \in BOOLEAN
    BY DEF Inv, Outcome, TypeOK
  <1>2. /\ result' # Nil
        /\ [resp |-> result', learned |-> learned'] \in LearningOutcomes(address')
    BY <1>1, FailOutcome, GlobalOutcome, MessagesDiffer DEF Upstreams
  <1> QED
    BY <1>1, <1>2, SMTT(30) DEF Inv, GlobalAsked, Waiting, Outcome,
                                LearnsWhatItSaw, GlobalAnswerIsUsed, needGlobal

(* The steps of the request *)
LEMMA RequestInv == TypeOK /\ Inv /\ Request => Inv'
  <1> SUFFICES ASSUME TypeOK, Inv, Request PROVE Inv'
    OBVIOUS
  <1> USE DEF workerVars
  <1>1. CASE Start
    BY <1>1 DEF Inv, GlobalAsked, Waiting, Outcome, LearnsWhatItSaw,
                GlobalAnswerIsUsed, Start, needGlobal, Upstreams
  <1>2. ASSUME NEW u \in Upstreams, FirstReceives(u) PROVE Inv'
    <2>1. pc = "first" /\ Take(u)
      BY <1>2 DEF FirstReceives
    <2>2. CASE chan[u] = Nil
      <3>1. pc' = "second" /\ result' = result /\ learned' = learned
        BY <1>2, <2>2 DEF FirstReceives, WaitAt
      <3>2. iranMsg' = Nil /\ globalMsg' = Nil
        BY <2>1, <2>2 DEF Inv, Waiting, Take
      <3>3. GlobalAsked'
        BY <2>1, <3>1, TakeInv
      <3> QED
        BY <2>1, <3>1, <3>2, <3>3 DEF Inv, Waiting, Outcome, LearnsWhatItSaw,
                                     GlobalAnswerIsUsed
    <2>3. CASE chan[u] # Nil
      BY <1>2, <2>1, <2>3, JudgeInv DEF FirstReceives
    <2> QED
      BY <2>2, <2>3
  <1>3. ASSUME NEW u \in Upstreams, SecondReceives(u) PROVE Inv'
    BY <1>3, JudgeInv DEF SecondReceives
  <1>4. CASE SecondTimesOut
    <2>1. pc = "second" /\ iranMsg = Nil /\ globalMsg = Nil /\ ~Vetted(iranMsg)
      BY <1>4, NilIsNotVetted DEF SecondTimesOut, Inv, Waiting
    <2>2. CASE needGlobal
      BY <1>4, <2>1, <2>2, ReturnInv DEF SecondTimesOut, JudgeNothing, Return
    <2>3. CASE ~needGlobal
      BY <1>4, <2>1, <2>3
      DEF SecondTimesOut, JudgeNothing, WaitAt, Inv, GlobalAsked, Waiting, Outcome,
          LearnsWhatItSaw, GlobalAnswerIsUsed, needGlobal
    <2> QED
      BY <2>2, <2>3
  <1>5. CASE GivesUp
    <2>1. iranMsg = Nil /\ globalMsg = Nil /\ ~Vetted(iranMsg)
      BY <1>5, NilIsNotVetted DEF GivesUp, Inv, Waiting
    <2> QED
      BY <1>5, <2>1, ReturnInv DEF GivesUp, Return
  <1>6. CASE GlobalOverrules
    <2>1. /\ pc = "waitGlobal" /\ pc' = "done" /\ Take("global")
          /\ learned' = FALSE /\ address' = address
          /\ result' = IF globalMsg' = Nil THEN ServerFail ELSE globalMsg'
      BY <1>6 DEF GlobalOverrules, Return, Take, Inv, Outcome, TypeOK
    <2>2. /\ GlobalAsked' /\ globalMsg' \in Received("global") /\ iranMsg' = iranMsg
          /\ ~Vetted(iranMsg)
      BY <2>1, TakeInv DEF Upstreams, Inv, Waiting
    <2>3. /\ result' # Nil
          /\ [resp |-> result', learned |-> learned'] \in LearningOutcomes(address')
      BY <2>1, <2>2, FailOutcome, GlobalOutcome, MessagesDiffer
      DEF Received, Upstreams, TypeOK
    <2> QED
      BY <2>1, <2>2, <2>3 DEF Inv, Waiting, Outcome, LearnsWhatItSaw, GlobalAnswerIsUsed
  <1>7. CASE GlobalTimesOut
    BY <1>7, ReturnInv DEF GlobalTimesOut, Return, Inv, Waiting
  <1>8. CASE IranTeaches
    <2>1. /\ pc = "waitIran" /\ pc' = "done" /\ Take("iran")
          /\ address' = address /\ globalMsg' = globalMsg
          /\ result' = globalMsg /\ globalMsg \in Replies("global")
      BY <1>8 DEF IranTeaches, Return, Take, Inv, Waiting, TypeOK, Received
    <2>2. GlobalAsked' /\ address
      BY <2>1, TakeInv DEF Upstreams, Inv, Waiting, GlobalAsked, needGlobal
    <2>3. (learned' <=> Vetted(iranMsg')) /\ learned' \in BOOLEAN
      <3>1. learned = FALSE
        BY <2>1 DEF Inv, Outcome, TypeOK
      <3> QED
        BY <1>8, <3>1 DEF IranTeaches
    <2>4. learned' \in {FALSE, address'} /\ address \in BOOLEAN
      BY <2>1, <2>2, <2>3 DEF TypeOK
    <2>5. /\ result' # Nil
          /\ [resp |-> result', learned |-> learned'] \in LearningOutcomes(address')
      BY <2>1, <2>4, GlobalOutcome, MessagesDiffer DEF Upstreams
    <2> QED
      BY <2>1, <2>2, <2>3, <2>5
      DEF Inv, Waiting, Outcome, LearnsWhatItSaw, GlobalAnswerIsUsed
  <1>9. CASE IranTimesOut
    <2>1. iranMsg = Nil /\ ~Vetted(iranMsg) /\ globalMsg \in Replies("global")
      BY <1>9, NilIsNotVetted DEF IranTimesOut, Inv, Waiting, TypeOK, Received
    <2> QED
      BY <1>9, <2>1, ReturnInv DEF IranTimesOut, Return
  <1>10. CASE Fallback
    <2>1. iranMsg = Nil /\ ~Vetted(iranMsg) /\ globalMsg = Nil
      BY <1>10, NilIsNotVetted DEF Fallback, Inv, Waiting
    <2> QED
      BY <1>10, <2>1, ReturnInv DEF Fallback, Return, Received
  <1> QED
    BY <1>1, <1>2, <1>3, <1>4, <1>5, <1>6, <1>7, <1>8, <1>9, <1>10 DEF Request

(* A request starts in the invariant: nothing is received or learned. *)
LEMMA InitInv == Init => Inv
  BY DEF Init, Inv, GlobalAsked, Waiting, Outcome, LearnsWhatItSaw,
         GlobalAnswerIsUsed, Upstreams

(* Every step keeps the invariant. *)
LEMMA NextInv == TypeOK /\ Inv /\ [Next]_vars => Inv'
  <1>1. Inv /\ UNCHANGED vars => Inv'
    BY DEF Inv, GlobalAsked, Waiting, Outcome, LearnsWhatItSaw, GlobalAnswerIsUsed,
           needGlobal, vars, requestVars, workerVars
  <1> QED
    BY <1>1, WorkerInv, RequestInv DEF Next

(* resolveWithLearning calls store.Add for a name exactly when an address  *)
(* query for it has received a vetted answer of IranDNS.                   *)
THEOREM LearningIsVetted == Spec => []LearnsWhatItSaw
  <1>1. Inv => LearnsWhatItSaw
    BY DEF Inv
  <1> QED
    BY <1>1, TypeCorrect, InitInv, NextInv, PTL DEF Spec

(* An answer of GlobalDNS that resolveWithLearning has received is the one *)
(* it returns.                                                             *)
THEOREM GlobalIsUsed == Spec => []GlobalAnswerIsUsed
  <1>1. Inv => GlobalAnswerIsUsed
    BY DEF Inv
  <1> QED
    BY <1>1, TypeCorrect, InitInv, NextInv, PTL DEF Spec

-----------------------------------------------------------------------------
(* A step of resolveWithLearning is a step of LearningSpec or changes      *)
(* nothing it sees.                                                        *)
LEMMA StepImplements ==
  ASSUME TypeOK, TypeOK', Inv, Inv', [Next]_vars
  PROVE  [Abstract!Answer]_(Abstract!vars)
  <1>1. address' = address
    BY DEF Next, Request, Worker, Start, Begin, Exchange, Send, Deadline,
           FirstReceives, SecondReceives, Take, SecondTimesOut, GivesUp,
           GlobalOverrules, GlobalTimesOut, IranTeaches, IranTimesOut, Fallback, vars
  <1>2. CASE pc = "done"
    <2>1. UNCHANGED <<result, learned>>
      BY <1>2 DEF Next, Request, Worker, Start, Begin, Exchange, Send, Deadline,
           FirstReceives, SecondReceives, SecondTimesOut, GivesUp, GlobalOverrules,
           GlobalTimesOut, IranTeaches, IranTimesOut, Fallback, vars, requestVars
    <2> QED
      BY <1>1, <2>1 DEF Abstract!vars
  <1>3. CASE pc # "done" /\ pc' # "done"
    <2>1. result' = result /\ learned' = learned
      BY <1>3 DEF Inv, Outcome, TypeOK
    <2> QED
      BY <1>1, <2>1 DEF Abstract!vars
  <1>4. CASE pc # "done" /\ pc' = "done"
    <2> DEFINE o == [resp |-> result', learned |-> learned']
    <2>1. result = Nil /\ o \in LearningOutcomes(address)
      BY <1>1, <1>4 DEF Inv, Outcome
    <2>2. result' = o.resp /\ learned' = o.learned
      OBVIOUS
    <2> HIDE DEF o
    <2> QED
      BY <1>1, <2>1, <2>2 DEF Abstract!Answer, Abstract!LearningOutcomes, LearningOutcomes,
           Abstract!Replies, Replies, Abstract!Rcodes, Rcodes, Abstract!Vetted, Vetted,
           Abstract!Hijacked, Hijacked, Abstract!ServerFail, ServerFail, Abstract!Nil, Nil
  <1> QED
    BY <1>2, <1>3, <1>4

(* However the responses, the timers, the deadline and the breakers        *)
(* interleave, resolveWithLearning answers as LearningSpec says, once.     *)
THEOREM ImplementsSafely == Spec => Abstract!Safety
  <1>1. Init => Abstract!Init
    BY DEF Init, Abstract!Init, Abstract!Nil, Nil
  <1> QED
    BY <1>1, TypeCorrect, InitInv, NextInv, StepImplements, PTL
    DEF Spec, Abstract!Safety
=============================================================================

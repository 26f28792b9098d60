------------------------------ MODULE Learning ------------------------------
(***************************************************************************)
(* resolveWithLearning, src/internal/resolver/resolver.go:263-426: one     *)
(* request for a name nobody knows, raced between IranDNS and GlobalDNS.   *)
(*                                                                         *)
(* Up to three goroutines run: the request's own, and one per upstream     *)
(* that is asked.  They share two channels of capacity 1.  A select takes  *)
(* any case that is ready; a timer may fire in any wait that has one, and  *)
(* the deadline of the request may pass at any moment.  What the circuit   *)
(* breakers say when they are asked is an input.                           *)
(***************************************************************************)
EXTENDS Answers

VARIABLES
  address,        \* is the query of type A or AAAA?
  iranOpen,       \* iranCb.isOpen() at the start
  globalStarted,  \* has GlobalDNS been asked?
  pc,             \* control point of the request
  worker,         \* control point of the goroutine of each upstream
  sending,        \* the response it is about to send
  chan,           \* contents of iranCh and globalCh
  cancelled,      \* have iranCancel and globalCancel been called?
  ctxDone,        \* has the deadline of the request passed?
  iranMsg, globalMsg,
  result,         \* what the request returned, Nil before
  learned         \* has store.Add been called?

requestVars == <<globalStarted, pc, cancelled, iranMsg, globalMsg, result, learned>>
workerVars == <<worker, sending, chan>>
vars == <<address, iranOpen, requestVars, workerVars, ctxDone>>

Upstreams == {"iran", "global"}

(* An empty channel holds no response, not even a nil one. *)
Empty == [from |-> "empty", rcode |-> "none", ips |-> {}]

TypeOK ==
  /\ address \in BOOLEAN
  /\ iranOpen \in BOOLEAN
  /\ globalStarted \in BOOLEAN
  /\ pc \in {"start", "first", "second", "waitGlobal", "waitIran", "fallback",
             "done"}
  /\ worker \in [Upstreams -> {"none", "begin", "exchange", "send", "done"}]
  /\ sending \in [Upstreams -> Received("iran") \cup Received("global")]
  /\ chan \in [Upstreams -> Received("iran") \cup Received("global") \cup {Empty}]
  /\ \A u \in Upstreams : /\ sending[u] \in Received(u)
                          /\ chan[u] \in Received(u) \cup {Empty}
  /\ cancelled \in [Upstreams -> BOOLEAN]
  /\ ctxDone \in BOOLEAN
  /\ iranMsg \in Received("iran")
  /\ globalMsg \in Received("global")
  /\ result \in Replies("iran") \cup Replies("global") \cup {ServerFail, Nil}
  /\ learned \in BOOLEAN

needGlobal == address \/ iranOpen

Init ==
  /\ address \in BOOLEAN
  /\ iranOpen \in BOOLEAN
  /\ globalStarted = FALSE
  /\ pc = "start"
  /\ worker = [u \in Upstreams |-> "none"]
  /\ sending = [u \in Upstreams |-> Nil]
  /\ chan = [u \in Upstreams |-> Empty]
  /\ cancelled = [u \in Upstreams |-> FALSE]
  /\ ctxDone = FALSE
  /\ iranMsg = Nil
  /\ globalMsg = Nil
  /\ result = Nil
  /\ learned = FALSE

(* The goroutines are started.  An open breaker of GlobalDNS keeps its     *)
(* goroutine from being started, unless it grants a probe.                 *)
Start ==
  /\ pc = "start"
  /\ \E admitted \in BOOLEAN : globalStarted' = (needGlobal /\ admitted)
  /\ worker' = [iran   |-> IF iranOpen THEN "none" ELSE "begin",
                global |-> IF globalStarted' THEN "begin" ELSE "none"]
  /\ pc' = "first"
  /\ UNCHANGED <<address, iranOpen, sending, chan, cancelled, ctxDone, iranMsg,
                 globalMsg, result, learned>>

-----------------------------------------------------------------------------
(* The goroutine of an upstream. *)

(* iranCtx or globalCtx: cancelled by the request as it runs, past the     *)
(* deadline of the request, or cancelled by the deferred calls of          *)
(* iranCancel and globalCancel, which run when the request returns.        *)
ContextEnded(u) == cancelled[u] \/ ctxDone \/ pc = "done"

(* query returns nil at once when it finds its context ended.  So does     *)
(* queryIranDNS when the breaker has opened in the meantime.  A goroutine  *)
(* that has passed the check is at "exchange", but may be descheduled      *)
(* there: it asks its upstream whenever it runs again, and the request may *)
(* have been cancelled or have returned by then.                           *)
Begin(u) ==
  /\ worker[u] = "begin"
  /\ \E refused \in {FALSE, u = "iran"} :
       worker' = [worker EXCEPT ![u] =
                    IF refused \/ ContextEnded(u) THEN "send" ELSE "exchange"]
  /\ UNCHANGED <<address, iranOpen, requestVars, sending, chan, ctxDone>>

WrongUpstream(u) ==
  /\ worker[u] = "exchange"
  /\ \E m \in Received("iran") : sending' = [sending EXCEPT ![u] = m]
  /\ worker' = [worker EXCEPT ![u] = "send"]
  /\ UNCHANGED <<address, iranOpen, requestVars, chan, ctxDone>>

(* The upstream is asked, now at the latest.  The exchange ends with a     *)
(* response, or with nil after an error, a timeout or a cancellation; a    *)
(* context that has ended since the check does not keep a response that    *)
(* has arrived from being one.                                             *)
Exchange(u) ==
  /\ worker[u] = "exchange"
  /\ \E m \in Received(u) : sending' = [sending EXCEPT ![u] = m]
  /\ worker' = [worker EXCEPT ![u] = "send"]
  /\ UNCHANGED <<address, iranOpen, requestVars, chan, ctxDone>>

UnbufferedSend(u) ==
  /\ worker[u] = "send"
  /\ \/ pc \in {"first", "second"}
     \/ pc = "waitGlobal" /\ u = "global"
     \/ pc = "waitIran" /\ u = "iran"
  /\ chan' = [chan EXCEPT ![u] = sending[u]]
  /\ sending' = [sending EXCEPT ![u] = Nil]
  /\ worker' = [worker EXCEPT ![u] = "done"]
  /\ UNCHANGED <<address, iranOpen, requestVars, ctxDone>>

(* The response is sent; the channel has room for one. *)
Send(u) ==
  /\ worker[u] = "send"
  /\ chan[u] = Empty
  /\ chan' = [chan EXCEPT ![u] = sending[u]]
  /\ sending' = [sending EXCEPT ![u] = Nil]
  /\ worker' = [worker EXCEPT ![u] = "done"]
  /\ UNCHANGED <<address, iranOpen, requestVars, ctxDone>>

Worker(u) == Begin(u) \/ Exchange(u) \/ Send(u)

(* The context of the request ends, whatever the goroutines are doing. *)
Deadline ==
  /\ ~ctxDone
  /\ ctxDone' = TRUE
  /\ UNCHANGED <<address, iranOpen, requestVars, workerVars>>

-----------------------------------------------------------------------------
(* The request. *)

Return(m) == pc' = "done" /\ result' = m

WaitAt(label) == pc' = label /\ UNCHANGED result

LearnUnvetted(im) ==
  IF ~address \/ IranianIsEnough(im)
  THEN Return(im) /\ learned' = (learned \/ address)
  ELSE /\ IF globalStarted THEN WaitAt("waitGlobal") ELSE Return(ServerFail)
       /\ UNCHANGED learned

(* With a response of IranDNS in hand: a response to a query for something *)
(* else than addresses is returned as it is, a vetted one is returned and  *)
(* its name learned, and any other has to be overruled by GlobalDNS.       *)
JudgeIran(im) ==
  IF ~address \/ Vetted(im)
  THEN Return(im) /\ learned' = (learned \/ address)
  ELSE /\ IF globalStarted THEN WaitAt("waitGlobal") ELSE Return(ServerFail)
       /\ UNCHANGED learned

(* With a response of GlobalDNS in hand, IranDNS is waited for only to     *)
(* learn from it.                                                          *)
JudgeGlobal(gm) ==
  /\ IF iranOpen THEN Return(gm) ELSE WaitAt("waitIran")
  /\ UNCHANGED learned

(* With neither: GlobalDNS is asked now if it was not considered before. *)
JudgeNothing ==
  /\ IF needGlobal THEN Return(ServerFail) ELSE WaitAt("fallback")
  /\ UNCHANGED learned

Judge(im, gm) ==
  IF im # Nil THEN JudgeIran(im)
  ELSE IF gm # Nil THEN JudgeGlobal(gm) ELSE JudgeNothing

(* A response is received.  Any of GlobalDNS ends its own query, and one   *)
(* that is not nil ends the query to IranDNS too.                          *)
Take(u) ==
  /\ chan[u] # Empty
  /\ chan' = [chan EXCEPT ![u] = Empty]
  /\ iranMsg' = IF u = "iran" THEN chan[u] ELSE iranMsg
  /\ globalMsg' = IF u = "global" THEN chan[u] ELSE globalMsg
  /\ cancelled' = IF u = "global"
                  THEN [cancelled EXCEPT !["iran"] = @ \/ chan[u] # Nil,
                                         !["global"] = TRUE]
                  ELSE cancelled
  /\ UNCHANGED <<address, iranOpen, globalStarted, worker, sending, ctxDone>>

(* The first select: whichever upstream is first.  When it has nothing,    *)
(* the other one is waited for.                                            *)
FirstReceives(u) ==
  /\ pc = "first"
  /\ Take(u)
  /\ IF chan[u] = Nil
     THEN WaitAt("second") /\ UNCHANGED learned
     ELSE Judge(iranMsg', globalMsg')

(* The second select *)
SecondReceives(u) ==
  /\ pc = "second"
  /\ Take(u)
  /\ Judge(iranMsg', globalMsg')

SecondTimesOut ==
  /\ pc = "second"
  /\ JudgeNothing
  /\ UNCHANGED <<address, iranOpen, globalStarted, workerVars, cancelled, ctxDone,
                 iranMsg, globalMsg>>

GivesUpLate ==
  /\ pc = "second"
  /\ ctxDone
  /\ Return(ServerFail)
  /\ UNCHANGED <<address, iranOpen, globalStarted, workerVars, cancelled, ctxDone,
                 iranMsg, globalMsg, learned>>

(* ctx.Done(), in the first and in the second select *)
GivesUp ==
  /\ pc \in {"first", "second"}
  /\ ctxDone
  /\ Return(ServerFail)
  /\ UNCHANGED <<address, iranOpen, globalStarted, workerVars, cancelled, ctxDone,
                 iranMsg, globalMsg, learned>>

(* GlobalDNS overrules the response of IranDNS, or fails to in time. *)
GlobalOverrules ==
  /\ pc = "waitGlobal"
  /\ Take("global")
  /\ Return(IF globalMsg' = Nil THEN ServerFail ELSE globalMsg')
  /\ UNCHANGED learned

GlobalTimesOut ==
  /\ pc = "waitGlobal"
  /\ Return(ServerFail)
  /\ UNCHANGED <<address, iranOpen, globalStarted, workerVars, cancelled, ctxDone,
                 iranMsg, globalMsg, learned>>

IranTakesOver ==
  /\ pc = "waitIran"
  /\ Take("iran")
  /\ learned' = (learned \/ Vetted(iranMsg'))
  /\ Return(IF Vetted(iranMsg') THEN iranMsg' ELSE globalMsg)

(* IranDNS answers after GlobalDNS: the name may be learned. *)
IranTeaches ==
  /\ pc = "waitIran"
  /\ Take("iran")
  /\ learned' = (learned \/ Vetted(iranMsg'))
  /\ Return(globalMsg)

IranTimesOut ==
  /\ pc = "waitIran"
  /\ Return(globalMsg)
  /\ UNCHANGED <<address, iranOpen, globalStarted, workerVars, cancelled, ctxDone,
                 iranMsg, globalMsg, learned>>

(* The late query to GlobalDNS, with a deadline of its own *)
Fallback ==
  /\ pc = "fallback"
  /\ \E m \in Received("global") : Return(IF m = Nil THEN ServerFail ELSE m)
  /\ UNCHANGED <<address, iranOpen, globalStarted, workerVars, cancelled, ctxDone,
                 iranMsg, globalMsg, learned>>

Request ==
  \/ Start
  \/ \E u \in Upstreams : FirstReceives(u) \/ SecondReceives(u)
  \/ SecondTimesOut \/ GivesUp
  \/ GlobalOverrules \/ GlobalTimesOut
  \/ IranTeaches \/ IranTimesOut
  \/ Fallback

Next == Request \/ (\E u \in Upstreams : Worker(u)) \/ Deadline

Spec == Init /\ [][Next]_vars

(* Goroutines run, exchanges have timeouts, timers fire, and the handler   *)
(* gives every request a deadline.                                         *)
Fairness ==
  /\ WF_vars(Request)
  /\ \A u \in Upstreams : WF_vars(Worker(u))
  /\ WF_vars(Deadline)

FairSpec == Spec /\ Fairness

-----------------------------------------------------------------------------
(* Properties *)

Abstract == INSTANCE LearningSpec

(* Whatever the order in which the responses arrive, the breakers open and *)
(* the timers fire, resolveWithLearning answers once, and as LearningSpec  *)
(* says: an answer of IranDNS to an address query has been vetted.         *)
Implements == Abstract!Spec

(* The name is learned exactly when an address query has received a vetted *)
(* answer of IranDNS, be it the first response or the last: store.Add is   *)
(* called on both paths, and on no other.                                  *)
LearnsWhatItSaw ==
  pc = "done" => (learned <=> address /\ Vetted(iranMsg))

(* The request fails only for want of a usable answer: once GlobalDNS has  *)
(* answered, the client gets that answer, also when IranDNS was first with *)
(* one that did not pass.                                                  *)
GlobalAnswerIsUsed ==
  pc = "done" /\ globalMsg # Nil => result = globalMsg

(* The goroutines of the upstreams end, even when nobody receives what     *)
(* they send any more: one that is scheduled, or asks its upstream, only   *)
(* after the request has returned finds room in its channel.               *)
NoGoroutineLeak ==
  <>[](\A u \in Upstreams : worker[u] \in {"none", "done"})
=============================================================================

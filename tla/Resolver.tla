------------------------------ MODULE Resolver ------------------------------
(***************************************************************************)
(* Resolve and resolve, src/internal/resolver/resolver.go:428-605, for     *)
(* concurrent requests: static records, the response cache, singleflight   *)
(* (one resolution at a time per key, its result shared), the four routes  *)
(* to the upstreams, and the single retry.                                 *)
(*                                                                         *)
(* resolveWithLearning is represented by its abstract specification, the   *)
(* LearningOutcomes of LearningSpec, which Learning implements.  A query   *)
(* to an upstream returns any response or nil: the breaker, the timeouts   *)
(* and the deadline of the request only ever make it nil.                  *)
(*                                                                         *)
(* A question is a name, a type and a class.  What else a query carries    *)
(* (flags, EDNS options, the case of the name) is not represented.  The    *)
(* SERVFAIL for a message without a question and the one of a resolver     *)
(* that has been stopped (resolver.go:429-447) are left out: the server    *)
(* accepts no such message, and main stops its servers, which wait for     *)
(* their handlers, before the resolver.                                    *)
(***************************************************************************)
EXTENDS Answers

CONSTANTS
  Requests,      \* the requests, one client question each
  Names,         \* domain names, in lower case
  Types,         \* query types
  UnknownTypes,  \* those that dns.TypeToString has no name for
  Classes,       \* query classes: IN, and whatever else is asked for
  Suffixes,      \* a name |-> the name and its parent domains
  IranTLDs, PreferIran, StaticRecords,  \* configured names
  InitialStores, \* what the store may have been loaded with
  Arrivals,      \* what the requests may ask, together
  None           \* no request

Questions == [name : Names, type : Types, class : Classes]

ASSUME ConfigurationAssumption ==
  /\ "" \notin Types
  /\ UnknownTypes \subseteq Types \ {"A", "AAAA"}
  /\ Suffixes \in [Names -> SUBSET Names]
  /\ IranTLDs \cup PreferIran \cup StaticRecords \subseteq Names
  /\ InitialStores \subseteq SUBSET Names
  /\ Arrivals \subseteq [Requests -> Questions]
  /\ None \notin Requests

(* A and AAAA, the types whose answers are judged by their addresses *)
Address(q) == q.type \in {"A", "AAAA"}

KeyByName(q) == <<q.name, "">>

(* The key of the cache and of singleflight: the class is not part of it,  *)
(* and types without a name are all alike.                                 *)
Key(q) == <<q.name, IF q.type \in UnknownTypes THEN "" ELSE q.type>>

Keys == {Key(q) : q \in Questions}

StaticResponse == [from |-> "static", rcode |-> "success", ips |-> {}]

(* A response together with the question it was obtained for *)
Replied == [to : Questions,
             msg : Received("iran") \cup Received("global")
                   \cup {ServerFail, StaticResponse}]

VARIABLES
  question,  \* what each request asks
  pc,        \* control point of each request
  retried,   \* is this the second attempt of the resolution?
  answer,    \* what each request has got so far
  cache,     \* the cached answers
  flight,    \* singleflight: the request that resolves a key
  store      \* the learned names

vars == <<question, pc, retried, answer, cache, flight, store>>

(* A request that resolves its key *)
Working == {"route", "tld", "prefer", "store", "learn", "global", "set", "release"}

TypeOK ==
  /\ question \in [Requests -> Questions]
  /\ pc \in [Requests -> {"arrive", "join", "follow", "done"} \cup Working]
  /\ retried \in [Requests -> BOOLEAN]
  /\ answer \in [Requests -> Replied]
  /\ cache \subseteq Replied
  /\ flight \in [Keys -> Requests \cup {None}]
  /\ store \subseteq Names
  /\ \A r \in Requests : pc[r] = "done" => answer[r].msg # Nil

Init ==
  /\ question \in Arrivals
  /\ pc = [r \in Requests |-> "arrive"]
  /\ retried = [r \in Requests |-> FALSE]
  /\ answer = [r \in Requests |-> [to |-> question[r], msg |-> Nil]]
  /\ cache = {}
  /\ flight = [k \in Keys |-> None]
  /\ store \in InitialStores

Goto(r, label) == pc' = [pc EXCEPT ![r] = label]

Cached(q) == {a \in cache : Key(a.to) = Key(q)}

(* isIranTLD, isPreferIran and store.IsIran look for the name, then for    *)
(* each of its parents.                                                    *)
ListedIn(name, list) == Suffixes[name] \cap list # {}

-----------------------------------------------------------------------------
(* Resolve *)

(* A static record answers first; then the cache does. *)
Arrive(r) ==
  /\ pc[r] = "arrive"
  /\ LET q == question[r] IN
     IF q.name \in StaticRecords /\ q.type = "A"
     THEN /\ answer' = [answer EXCEPT ![r].msg = StaticResponse]
          /\ Goto(r, "done")
     ELSE IF Cached(q) # {}
     THEN /\ \E a \in Cached(q) : answer' = [answer EXCEPT ![r] = a]
          /\ Goto(r, "done")
     ELSE Goto(r, "join") /\ UNCHANGED answer
  /\ UNCHANGED <<question, retried, cache, flight, store>>

LeadAnyway(r) ==
  /\ pc[r] = "join"
  /\ flight' = [flight EXCEPT ![Key(question[r])] = r]
  /\ Goto(r, "route")
  /\ UNCHANGED <<question, retried, answer, cache, store>>

(* sf.Do: the first request for a key resolves it, the others wait. *)
Join(r) ==
  /\ pc[r] = "join"
  /\ LET k == Key(question[r]) IN
     IF flight[k] = None
     THEN flight' = [flight EXCEPT ![k] = r] /\ Goto(r, "route")
     ELSE Goto(r, "follow") /\ UNCHANGED flight
  /\ UNCHANGED <<question, retried, answer, cache, store>>

AttemptedRaw(r, m) ==
  LET failed == m.rcode \in {"servfail", "none"} IN
  /\ answer' = [answer EXCEPT ![r].msg = m]
  /\ Goto(r, IF failed /\ ~retried[r] THEN "route"
             ELSE IF failed THEN "release" ELSE "set")
  /\ retried' = [retried EXCEPT ![r] = @ \/ failed]

(* An attempt ends with response m: a failed one is repeated once, and nil *)
(* becomes a SERVFAIL that is not cached.                                  *)
Attempted(r, m) ==
  LET failed == m.rcode \in {"servfail", "none"} IN
  /\ answer' = [answer EXCEPT ![r].msg = IF m = Nil THEN ServerFail ELSE m]
  /\ Goto(r, IF failed /\ ~retried[r] THEN "route"
             ELSE IF failed THEN "release" ELSE "set")
  /\ retried' = [retried EXCEPT ![r] = @ \/ failed]

(* cache.Set: a successful response is cached, unless it has no records or *)
(* its TTL is zero.                                                        *)
CacheSet(r) ==
  /\ pc[r] = "set"
  /\ \E cacheable \in BOOLEAN :
       cache' = IF cacheable /\ answer[r].msg.rcode = "success"
                THEN (cache \ Cached(question[r])) \cup {answer[r]}
                ELSE cache
  /\ Goto(r, "release")
  /\ UNCHANGED <<question, retried, answer, flight, store>>

ReleaseSelf(r) ==
  /\ pc[r] = "release"
  /\ Goto(r, "done")
  /\ flight' = [flight EXCEPT ![Key(question[r])] = None]
  /\ UNCHANGED <<question, retried, answer, cache, store>>

(* The resolution is over: its result goes to everyone who waits for it. *)
Release(r) ==
  /\ pc[r] = "release"
  /\ LET served == {r} \cup {f \in Requests : /\ pc[f] = "follow"
                                             /\ Key(question[f]) = Key(question[r])}
     IN /\ answer' = [f \in Requests |-> IF f \in served THEN answer[r] ELSE answer[f]]
        /\ pc' = [f \in Requests |-> IF f \in served THEN "done" ELSE pc[f]]
  /\ flight' = [flight EXCEPT ![Key(question[r])] = None]
  /\ UNCHANGED <<question, retried, cache, store>>

-----------------------------------------------------------------------------
(* resolve *)

(* The order of the routes *)
Route(r) ==
  /\ pc[r] = "route"
  /\ LET name == question[r].name IN
     Goto(r, CASE ListedIn(name, IranTLDs) -> "tld"
               [] ~ListedIn(name, IranTLDs) /\ ListedIn(name, PreferIran) -> "prefer"
               [] ~ListedIn(name, IranTLDs \cup PreferIran) /\ ListedIn(name, store) -> "store"
               [] OTHER -> "learn")
  /\ UNCHANGED <<question, retried, answer, cache, flight, store>>

(* m is good enough: the attempt is over.  Otherwise GlobalDNS is asked. *)
UseOrAskGlobal(r, m, good) ==
  IF good THEN Attempted(r, m)
  ELSE Goto(r, "global") /\ UNCHANGED <<retried, answer>>

(* An Iranian TLD *)
AskTLD(r) ==
  /\ pc[r] = "tld"
  /\ \E m \in Received("iran") :
       UseOrAskGlobal(r, m, m.rcode = "success" /\ ~Hijacked(m))
  /\ UNCHANGED <<question, cache, flight, store>>

(* A preferred name: the response has to have addresses. *)
AskPreferred(r) ==
  /\ pc[r] = "prefer"
  /\ \E m \in Received("iran") :
       UseOrAskGlobal(r, m, m.rcode = "success" /\ m.ips # {} /\ ~Hijacked(m))
  /\ UNCHANGED <<question, cache, flight, store>>

TrustStored(r) ==
  /\ pc[r] = "store"
  /\ \E m \in Received("iran") : UseOrAskGlobal(r, m, m.rcode = "success")
  /\ UNCHANGED <<question, cache, flight, store>>

(* A learned name: NXDOMAIN removes it from the store (it alone, not the   *)
(* parent it may have been found by) and it is learned anew.               *)
AskStored(r) ==
  /\ pc[r] = "store"
  /\ \E m \in Received("iran") :
       IF m.rcode = "nxdomain"
       THEN /\ store' = store \ {question[r].name}
            /\ Goto(r, "learn")
            /\ UNCHANGED <<retried, answer>>
       ELSE /\ UseOrAskGlobal(r, m, m.rcode = "success" /\ ~Hijacked(m))
            /\ UNCHANGED store
  /\ UNCHANGED <<question, cache, flight>>

(* resolveWithLearning *)
Learn(r) ==
  /\ pc[r] = "learn"
  /\ \E o \in LearningOutcomes(Address(question[r])) :
       /\ store' = store \cup {d \in {question[r].name} : o.learned}
       /\ Attempted(r, o.resp)
  /\ UNCHANGED <<question, cache, flight>>

AskGlobal(r) ==
  /\ pc[r] = "global"
  /\ \E m \in Received("global") : Attempted(r, m)
  /\ UNCHANGED <<question, cache, flight, store>>
-----------------------------------------------------------------------------
Step(r) ==
  \/ Arrive(r) \/ Join(r) \/ Route(r)
  \/ AskTLD(r) \/ AskPreferred(r) \/ AskStored(r) \/ Learn(r) \/ AskGlobal(r)
  \/ CacheSet(r) \/ Release(r)

(* An entry of the cache expires or is evicted. *)
Expire(a) ==
  /\ cache' = cache \ {a}
  /\ UNCHANGED <<question, pc, retried, answer, flight, store>>

(* The cleanup of the store drops a name that no longer resolves. *)
Unlearn(d) ==
  /\ d \in store
  /\ store' = store \ {d}
  /\ UNCHANGED <<question, pc, retried, answer, cache, flight>>

Next ==
  \/ \E r \in Requests : Step(r)
  \/ \E a \in cache : Expire(a)
  \/ \E d \in Names : Unlearn(d)

Spec == Init /\ [][Next]_vars

(* Goroutines run, and every query to an upstream has a timeout. *)
FairSpec == Spec /\ \A r \in Requests : WF_vars(Step(r))

-----------------------------------------------------------------------------
(* Properties *)

(* No answer of IranDNS to an address query carries a known hijack address *)
(* to a client, whatever route it took, and whether it was resolved,       *)
(* shared or cached.                                                       *)
CleanAnswers ==
  \A r \in Requests :
    pc[r] = "done" /\ Address(question[r]) /\ answer[r].msg.from = "iran"
      => ~Hijacked(answer[r].msg)

(* A client gets the answer to its own question: requests that share a     *)
(* resolution, or a cache entry, have asked for the same name, type and    *)
(* class.                                                                  *)
AnswersOwnQuestion ==
  \A r \in Requests : pc[r] = "done" => answer[r].to = question[r]

(* What the keys of singleflight and of the cache do keep apart, whichever *)
(* classes are asked for: a client gets an answer for the name it asked    *)
(* for, and for the type it asked for unless neither type has a name.      *)
AnswersNameAndType ==
  \A r \in Requests : pc[r] = "done" =>
    /\ answer[r].to.name = question[r].name
    /\ \/ answer[r].to.type = question[r].type
       \/ {answer[r].to.type, question[r].type} \subseteq UnknownTypes

(* Singleflight coalesces: no two requests resolve the same question at    *)
(* the same time.                                                          *)
OneResolutionPerQuestion ==
  \A r, s \in Requests :
    pc[r] \in Working /\ pc[s] \in Working /\ question[r] = question[s] => r = s

(* Who waits for a resolution (sf.Do) waits for one that is under way, by  *)
(* a request with the same key: none is left waiting for a resolution that *)
(* ended before it joined.                                                 *)
FollowersHaveLeader ==
  \A r \in Requests : pc[r] = "follow" =>
    \E s \in Requests : /\ flight[Key(question[r])] = s
                       /\ pc[s] \in Working
                       /\ Key(question[s]) = Key(question[r])

(* Every request is answered, those that wait for another one included. *)
EveryRequestIsAnswered == \A r \in Requests : <>(pc[r] = "done")
=============================================================================

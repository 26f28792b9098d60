--------------------------- MODULE ResolverProofs ---------------------------
(***************************************************************************)
(* Proofs about Resolver, for any number of requests, names, types and     *)
(* routes.  The argument is one inductive invariant: whoever resolves a    *)
(* key is the one that singleflight has recorded for it, and whatever a    *)
(* request or the cache holds has been obtained for the same key and has   *)
(* passed the test for hijack addresses.  A second one says that whoever   *)
(* waits for a key waits for a request that resolves it.                   *)
(***************************************************************************)
EXTENDS Resolver, TLAPS

(* The request that resolves a key is recorded in singleflight. *)
Recorded ==
  \A r \in Requests : pc[r] \in Working => flight[Key(question[r])] = r

(* What a request holds has been obtained for its key. *)
SameKey == \A r \in Requests : Key(answer[r].to) = Key(question[r])

Clean(a) == Address(a.to) /\ a.msg.from = "iran" => ~Hijacked(a.msg)

AllClean ==
  /\ \A r \in Requests : Clean(answer[r])
  /\ \A a \in cache : Clean(a)

(* What is cached, and what is handed out, is a response. *)
NothingIsNil ==
  /\ \A r \in Requests : pc[r] \in {"set", "release", "done"} => answer[r].msg # Nil
  /\ \A a \in cache : a.msg # Nil

(* The part of TypeOK about single variables *)
Types0 ==
  /\ question \in [Requests -> Questions]
  /\ pc \in [Requests -> {"arrive", "join", "follow", "done"} \cup Working]
  /\ retried \in [Requests -> BOOLEAN]
  /\ answer \in [Requests -> Replied]
  /\ cache \subseteq Replied
  /\ flight \in [Keys -> Requests \cup {None}]
  /\ store \subseteq Names

Inv == Types0 /\ Recorded /\ SameKey /\ AllClean /\ NothingIsNil

-----------------------------------------------------------------------------
(* Responses and keys *)

(* nil differs from everything an upstream, the static records or the      *)
(* resolver itself answer.                                                 *)
LEMMA NilDiffers ==
  /\ ServerFail # Nil /\ StaticResponse # Nil
  /\ \A m : m.rcode \in {"success", "nxdomain", "servfail"} => m # Nil
  BY DEF ServerFail, StaticResponse, Nil

(* What is received from an upstream, and what the race answers, is typed. *)
LEMMA ReceivedTyped ==
  /\ \A m \in Received("iran") : m.from \in {"iran", "nobody"}
  /\ \A m \in Received("global") : m.from # "iran"
  /\ \A m \in Received("iran") \cup Received("global") \cup {ServerFail, StaticResponse} :
       m = Nil \/ m.rcode \in {"success", "nxdomain", "servfail"}
  BY DEF Received, Replies, Rcodes, Nil, ServerFail, StaticResponse

(* Questions with one key are both address queries, or neither is. *)
LEMMA KeyKeepsKind ==
  ASSUME NEW p \in Questions, NEW q \in Questions, Key(p) = Key(q)
  PROVE  Address(p) <=> Address(q)
<1>1. Address(p) => Address(q)
  BY ConfigurationAssumption DEF Key, Address, Questions
<1>2. Address(q) => Address(p)
  BY ConfigurationAssumption DEF Key, Address, Questions
<1> QED
  BY <1>1, <1>2

(* Questions with one key are for one name, and for one type unless        *)
(* neither type has a name.                                                *)
LEMMA KeyKeepsNameAndType ==
  ASSUME NEW p \in Questions, NEW q \in Questions, Key(p) = Key(q)
  PROVE  /\ p.name = q.name
         /\ p.type = q.type \/ {p.type, q.type} \subseteq UnknownTypes
  BY ConfigurationAssumption DEF Key, Questions

(* The key of a question is one of the keys. *)
LEMMA KeysOfQuestions == \A q \in Questions : Key(q) \in Keys
  BY DEF Keys
-----------------------------------------------------------------------------
(* The steps *)

(* The invariant holds before any request arrives. *)
LEMMA InitInv == Init => Inv
<1> SUFFICES ASSUME Init PROVE Inv
  OBVIOUS
<1> USE ConfigurationAssumption DEF Init
<1>1. \A r \in Requests : answer[r] = [to |-> question[r], msg |-> Nil]
  OBVIOUS
<1>2. question \in [Requests -> Questions]
  OBVIOUS
<1>3. answer \in [Requests -> Replied]
  BY <1>2 DEF Replied, Received
<1>4. Types0
  BY <1>2, <1>3 DEF Types0
<1>5. Recorded
  BY DEF Recorded, Working
<1>6. SameKey
  BY <1>1 DEF SameKey
<1>7. AllClean
  BY <1>1 DEF AllClean, Clean, Nil
<1>8. NothingIsNil
  BY DEF NothingIsNil
<1> QED
  BY <1>4, <1>5, <1>6, <1>7, <1>8 DEF Inv

(* A step inside a resolution that leaves the answers alone *)
LEMMA MoveKeepsInv ==
  ASSUME Inv, NEW r \in Requests, pc[r] \in Working,
         NEW label \in Working \ {"set", "release"}, Goto(r, label),
         UNCHANGED <<question, retried, answer, cache, flight>>, store' \subseteq Names
  PROVE  Inv'
<1> USE DEF Inv, Goto
<1>1. pc' \in [Requests -> {"arrive", "join", "follow", "done"} \cup Working]
  BY DEF Types0
<1>2. /\ pc'[r] = label
      /\ \A s \in Requests \ {r} : pc'[s] = pc[s]
  BY DEF Types0
<1>3. Types0'
  BY <1>1 DEF Types0
<1>4. Recorded'
  BY <1>2 DEF Recorded
<1>5. SameKey'
  BY DEF SameKey
<1>6. AllClean'
  BY DEF AllClean, Clean
<1>7. NothingIsNil'
  BY <1>2 DEF NothingIsNil, Working
<1> QED
  BY <1>3, <1>4, <1>5, <1>6, <1>7

(* The end of an attempt, with a response that is not a hijacked answer of *)
(* IranDNS to an address query                                             *)
LEMMA AttemptKeepsInv ==
  ASSUME Inv, NEW r \in Requests, pc[r] \in Working,
         NEW m \in Received("iran") \cup Received("global") \cup {ServerFail},
         Address(question[r]) /\ m.from = "iran" => ~Hijacked(m),
         Attempted(r, m),
         UNCHANGED <<question, cache, flight>>, store' \subseteq Names
  PROVE  Inv'
<1> DEFINE msg == IF m = Nil THEN ServerFail ELSE m
           label == pc'[r]
<1> USE DEF Inv
<1>1. question[r] \in Questions /\ answer[r] \in Replied /\ answer[r].to \in Questions
  BY DEF Types0, Replied
<1>2. /\ answer'[r] = [answer[r] EXCEPT !.msg = msg]
      /\ \A s \in Requests \ {r} : answer'[s] = answer[s]
  BY DEF Attempted, Types0
<1>3. answer'[r].to = answer[r].to /\ answer'[r].msg = msg
  BY <1>1, <1>2 DEF Replied
<1>4. msg # Nil /\ msg \in Received("iran") \cup Received("global") \cup {ServerFail}
  BY NilDiffers
<1>5. answer' \in [Requests -> Replied]
  <2>1. [answer[r] EXCEPT !.msg = msg] \in Replied
    BY <1>1, <1>4 DEF Replied
  <2> QED
    BY <2>1 DEF Attempted, Types0
<1>6. /\ pc' \in [Requests -> {"arrive", "join", "follow", "done"} \cup Working]
      /\ pc'[r] \in Working
      /\ \A s \in Requests \ {r} : pc'[s] = pc[s]
  BY DEF Attempted, Goto, Types0, Working
<1>7. retried' \in [Requests -> BOOLEAN]
  BY DEF Attempted, Types0
<1>8. Types0'
  BY <1>5, <1>6, <1>7 DEF Types0
<1>9. Recorded'
  BY <1>6 DEF Recorded
<1>10. SameKey'
  BY <1>2, <1>3 DEF SameKey
<1>11. Clean(answer'[r])
  <2>1. Address(answer[r].to) <=> Address(question[r])
    BY <1>1, KeyKeepsKind DEF SameKey
  <2>2. Address(answer[r].to) /\ msg.from = "iran" => ~Hijacked(msg)
    BY <2>1 DEF ServerFail
  <2> QED
    BY <1>3, <2>2 DEF Clean
<1>12. AllClean'
  BY <1>2, <1>11 DEF AllClean, Clean
<1>13. NothingIsNil'
  BY <1>2, <1>3, <1>4, <1>6 DEF NothingIsNil
<1> QED
  BY <1>8, <1>9, <1>10, <1>12, <1>13

(* The routes *)
LEMMA RoutesKeepInv ==
  ASSUME Inv, NEW r \in Requests,
         Route(r) \/ AskTLD(r) \/ AskPreferred(r) \/ AskStored(r) \/ Learn(r) \/ AskGlobal(r)
  PROVE  Inv'
<1>1. store \subseteq Names /\ question[r] \in Questions /\ question[r].name \in Names
  BY DEF Inv, Types0, Questions
<1>2. CASE Route(r)
  <2>1. PICK label \in {"tld", "prefer", "store", "learn"} : Goto(r, label)
    BY <1>2 DEF Route
  <2> QED
    BY <1>1, <1>2, <2>1, MoveKeepsInv DEF Route, Working
<1>3. ASSUME NEW m \in Received("iran"), NEW good \in BOOLEAN, good => ~Hijacked(m),
             UseOrAskGlobal(r, m, good), pc[r] \in Working,
             UNCHANGED <<question, cache, flight, store>>
      PROVE  Inv'
  <2>1. CASE good
    BY <1>1, <1>3, <2>1, AttemptKeepsInv DEF UseOrAskGlobal
  <2>2. CASE ~good
    BY <1>1, <1>3, <2>2, MoveKeepsInv DEF UseOrAskGlobal, Working
  <2> QED
    BY <2>1, <2>2
<1>4. CASE AskTLD(r)
  BY <1>3, <1>4 DEF AskTLD, Working
<1>5. CASE AskPreferred(r)
  BY <1>3, <1>5 DEF AskPreferred, Working
<1>6. CASE AskStored(r)
  <2>1. PICK m \in Received("iran") :
          IF m.rcode = "nxdomain"
          THEN /\ store' = store \ {question[r].name}
               /\ Goto(r, "learn")
               /\ UNCHANGED <<retried, answer>>
          ELSE /\ UseOrAskGlobal(r, m, m.rcode = "success" /\ ~Hijacked(m))
               /\ UNCHANGED store
    BY <1>6 DEF AskStored
  <2>2. CASE m.rcode = "nxdomain"
    <3>1. store' \subseteq Names
      BY <1>1, <2>1, <2>2
    <3> QED
      BY <1>6, <2>1, <2>2, <3>1, MoveKeepsInv DEF AskStored, Working
  <2>3. CASE m.rcode # "nxdomain"
    BY <1>3, <1>6, <2>1, <2>3 DEF AskStored, Working
  <2> QED
    BY <2>2, <2>3
<1>7. CASE Learn(r)
  <2>1. PICK o \in LearningOutcomes(Address(question[r])) :
          /\ store' = store \cup {d \in {question[r].name} : o.learned}
          /\ Attempted(r, o.resp)
    BY <1>7 DEF Learn
  <2>2. store' \subseteq Names
    BY <1>1, <2>1
  <2>3. \/ o.resp \in Replies("iran") /\ (Address(question[r]) => Vetted(o.resp))
        \/ o.resp \in Replies("global")
        \/ o.resp = ServerFail
    BY <2>1 DEF LearningOutcomes
  <2>4. o.resp \in Received("iran") \cup Received("global") \cup {ServerFail}
    BY <2>3 DEF Received
  <2>5. Address(question[r]) /\ o.resp.from = "iran" => ~Hijacked(o.resp)
    BY <2>3 DEF Replies, Vetted, ServerFail
  <2> QED
    BY <1>7, <2>1, <2>2, <2>4, <2>5, AttemptKeepsInv DEF Learn, Working
<1>8. CASE AskGlobal(r)
  <2>1. PICK m \in Received("global") : Attempted(r, m)
    BY <1>8 DEF AskGlobal
  <2>2. m.from # "iran"
    BY ReceivedTyped
  <2> QED
    BY <1>1, <1>8, <2>1, <2>2, AttemptKeepsInv DEF AskGlobal, Working
<1> QED
  BY <1>2, <1>4, <1>5, <1>6, <1>7, <1>8
(* A request is answered without a resolution, by an answer that is clean  *)
(* and obtained for its key.                                               *)
LEMMA ArriveKeepsInv ==
  ASSUME Inv, NEW r \in Requests, Arrive(r)
  PROVE  Inv'
<1> USE DEF Inv
<1>1. question[r] \in Questions /\ answer[r] \in Replied /\ pc[r] = "arrive"
  BY DEF Types0, Arrive
<1>2. ASSUME NEW a \in Replied, Key(a.to) = Key(question[r]), Clean(a), a.msg # Nil,
             answer' = [answer EXCEPT ![r] = a], Goto(r, "done"),
             UNCHANGED <<question, retried, cache, flight, store>>
      PROVE  Inv'
  <2>1. /\ pc' \in [Requests -> {"arrive", "join", "follow", "done"} \cup Working]
        /\ answer' \in [Requests -> Replied]
    BY <1>2 DEF Goto, Types0
  <2>2. /\ answer'[r] = a /\ pc'[r] = "done"
        /\ \A s \in Requests \ {r} : answer'[s] = answer[s] /\ pc'[s] = pc[s]
    BY <1>2 DEF Goto, Types0
  <2>3. Types0'
    BY <1>2, <2>1 DEF Types0
  <2>4. Recorded'
    BY <1>2, <2>2 DEF Recorded, Working
  <2>5. SameKey'
    BY <1>2, <2>2 DEF SameKey
  <2>6. AllClean'
    BY <1>2, <2>2 DEF AllClean, Clean
  <2>7. NothingIsNil'
    BY <1>2, <2>2 DEF NothingIsNil
  <2> QED
    BY <2>3, <2>4, <2>5, <2>6, <2>7
<1>3. CASE question[r].name \in StaticRecords /\ question[r].type = "A"
  <2> DEFINE a == [answer[r] EXCEPT !.msg = StaticResponse]
  <2>1. a \in Replied /\ a.to = answer[r].to /\ a.msg = StaticResponse
    BY <1>1 DEF Replied
  <2>2. Key(a.to) = Key(question[r])
    BY <2>1 DEF SameKey
  <2>3. Clean(a)
    BY <2>1 DEF Clean, StaticResponse
  <2>4. answer' = [answer EXCEPT ![r] = a]
    BY <1>3 DEF Arrive
  <2> QED
    BY <1>2, <1>3, <2>1, <2>2, <2>3, <2>4, NilDiffers DEF Arrive
<1>4. CASE ~(question[r].name \in StaticRecords /\ question[r].type = "A") /\ Cached(question[r]) # {}
  <2>1. PICK a \in Cached(question[r]) : answer' = [answer EXCEPT ![r] = a]
    BY <1>4 DEF Arrive
  <2>2. a \in cache /\ Key(a.to) = Key(question[r])
    BY <2>1 DEF Cached
  <2>3. a \in Replied /\ Clean(a) /\ a.msg # Nil
    BY <2>2 DEF Types0, AllClean, NothingIsNil
  <2> QED
    BY <1>2, <1>4, <2>1, <2>2, <2>3 DEF Arrive
<1>5. CASE ~(question[r].name \in StaticRecords /\ question[r].type = "A") /\ Cached(question[r]) = {}
  <2>1. /\ pc' = [pc EXCEPT ![r] = "join"]
        /\ UNCHANGED <<question, retried, answer, cache, flight, store>>
    BY <1>5 DEF Arrive, Goto
  <2>2. pc'[r] = "join" /\ \A s \in Requests \ {r} : pc'[s] = pc[s]
    BY <2>1 DEF Types0
  <2>3. Types0'
    BY <2>1 DEF Types0
  <2>4. Recorded'
    BY <2>1, <2>2 DEF Recorded, Working
  <2>5. SameKey' /\ AllClean'
    BY <2>1 DEF SameKey, AllClean, Clean
  <2>6. NothingIsNil'
    BY <2>1, <2>2 DEF NothingIsNil
  <2> QED
    BY <2>3, <2>4, <2>5, <2>6
<1> QED
  BY <1>3, <1>4, <1>5

(* Nobody resolves a key that is not recorded, so the leader is alone. *)
LEMMA JoinKeepsInv ==
  ASSUME Inv, NEW r \in Requests, Join(r)
  PROVE  Inv'
<1> DEFINE k == Key(question[r])
<1> USE DEF Inv
<1>1. k \in Keys /\ pc[r] = "join" /\ UNCHANGED <<question, retried, answer, cache, store>>
  BY KeysOfQuestions DEF Types0, Join
<1>2. PICK label \in {"route", "follow"} : pc' = [pc EXCEPT ![r] = label]
  BY DEF Join, Goto
<1>3. pc'[r] = label /\ \A s \in Requests \ {r} : pc'[s] = pc[s]
  BY <1>2 DEF Types0
<1>4. Types0'
  <2>1. pc' \in [Requests -> {"arrive", "join", "follow", "done"} \cup Working]
    BY <1>2 DEF Types0, Working
  <2>2. flight' \in [Keys -> Requests \cup {None}]
    BY <1>1 DEF Join, Types0
  <2> QED
    BY <1>1, <2>1, <2>2 DEF Types0
<1>5. Recorded'
  <2>1. CASE flight[k] = None
    <3>1. /\ flight'[k] = r
          /\ \A j \in Keys \ {k} : flight'[j] = flight[j]
      BY <1>1, <2>1 DEF Join, Types0
    <3>2. \A s \in Requests : pc[s] \in Working => Key(question[s]) # k
      BY <2>1, ConfigurationAssumption DEF Recorded
    <3>3. \A s \in Requests : Key(question[s]) \in Keys
      BY KeysOfQuestions DEF Types0
    <3> QED
      BY <1>1, <1>3, <3>1, <3>2, <3>3 DEF Recorded
  <2>2. CASE flight[k] # None
    <3>1. pc'[r] = "follow" /\ UNCHANGED flight
      BY <2>2 DEF Join, Goto, Types0
    <3> QED
      BY <1>1, <1>3, <3>1 DEF Recorded, Working
  <2> QED
    BY <2>1, <2>2
<1>6. SameKey' /\ AllClean'
  BY <1>1 DEF SameKey, AllClean, Clean
<1>7. NothingIsNil'
  BY <1>1, <1>3 DEF NothingIsNil
<1> QED
  BY <1>4, <1>5, <1>6, <1>7

(* Storing an answer in the cache keeps the invariant. *)
LEMMA CacheSetKeepsInv ==
  ASSUME Inv, NEW r \in Requests, CacheSet(r)
  PROVE  Inv'
<1> USE DEF Inv
<1>1. /\ pc[r] = "set" /\ pc' = [pc EXCEPT ![r] = "release"]
      /\ UNCHANGED <<question, retried, answer, flight, store>>
      /\ cache' \subseteq cache \cup {answer[r]}
  BY DEF CacheSet, Goto
<1>2. pc'[r] = "release" /\ \A s \in Requests \ {r} : pc'[s] = pc[s]
  BY <1>1 DEF Types0
<1>3. answer[r] \in Replied /\ answer[r].msg # Nil
  BY <1>1 DEF Types0, NothingIsNil
<1>4. Types0'
  BY <1>1, <1>3 DEF Types0, Working
<1>5. Recorded'
  BY <1>1, <1>2 DEF Recorded, Working
<1>6. SameKey'
  BY <1>1 DEF SameKey
<1>7. AllClean'
  BY <1>1 DEF AllClean, Clean
<1>8. NothingIsNil'
  BY <1>1, <1>2, <1>3 DEF NothingIsNil
<1> QED
  BY <1>4, <1>5, <1>6, <1>7, <1>8
(* The followers of a key get what its leader holds. *)
LEMMA ReleaseKeepsInv ==
  ASSUME Inv, NEW r \in Requests, Release(r)
  PROVE  Inv'
<1> DEFINE k == Key(question[r])
           served == {r} \cup {f \in Requests : pc[f] = "follow" /\ Key(question[f]) = k}
<1> USE DEF Inv
<1>1. /\ pc[r] = "release"
      /\ answer' = [f \in Requests |-> IF f \in served THEN answer[r] ELSE answer[f]]
      /\ pc' = [f \in Requests |-> IF f \in served THEN "done" ELSE pc[f]]
      /\ flight' = [flight EXCEPT ![k] = None]
      /\ UNCHANGED <<question, retried, cache, store>>
  BY DEF Release
<1>2. answer[r] \in Replied /\ answer[r].msg # Nil /\ k \in Keys
  BY <1>1, KeysOfQuestions DEF Types0, NothingIsNil
<1>3. Types0'
  <2>1. answer' \in [Requests -> Replied]
    BY <1>1, <1>2 DEF Types0
  <2>2. pc' \in [Requests -> {"arrive", "join", "follow", "done"} \cup Working]
    BY <1>1 DEF Types0
  <2>3. flight' \in [Keys -> Requests \cup {None}]
    BY <1>1, <1>2 DEF Types0
  <2> QED
    BY <1>1, <2>1, <2>2, <2>3 DEF Types0
<1>4. Recorded'
  <2> SUFFICES ASSUME NEW s \in Requests, pc'[s] \in Working
               PROVE  flight'[Key(question[s])] = s
    BY <1>1 DEF Recorded
  <2>1. s # r /\ pc[s] \in Working
    BY <1>1 DEF Working
  <2>2. flight[Key(question[s])] = s /\ flight[k] = r
    BY <1>1, <2>1 DEF Recorded, Working
  <2>3. Key(question[s]) \in Keys /\ Key(question[s]) # k
    BY <2>1, <2>2, KeysOfQuestions DEF Types0
  <2> QED
    BY <1>1, <2>2, <2>3 DEF Types0
<1>5. SameKey'
  BY <1>1 DEF SameKey
<1>6. AllClean'
  BY <1>1 DEF AllClean, Clean
<1>7. NothingIsNil'
  BY <1>1, <1>2 DEF NothingIsNil
<1> QED
  BY <1>3, <1>4, <1>5, <1>6, <1>7

(* Every step of a request, and every expiry, keeps the invariant. *)
LEMMA NextInv == Inv /\ [Next]_vars => Inv'
<1> SUFFICES ASSUME Inv, [Next]_vars PROVE Inv'
  OBVIOUS
<1>1. ASSUME NEW r \in Requests, Step(r) PROVE Inv'
  BY <1>1, ArriveKeepsInv, JoinKeepsInv, RoutesKeepInv, CacheSetKeepsInv, ReleaseKeepsInv
     DEF Step
<1>2. ASSUME NEW a \in cache, Expire(a) PROVE Inv'
  BY <1>2 DEF Expire, Inv, Types0, Recorded, SameKey, AllClean, Clean, NothingIsNil
<1>3. ASSUME NEW d \in Names, Unlearn(d) PROVE Inv'
  BY <1>3 DEF Unlearn, Inv, Types0, Recorded, SameKey, AllClean, Clean, NothingIsNil
<1>4. CASE UNCHANGED vars
  BY <1>4 DEF vars, Inv, Types0, Recorded, SameKey, AllClean, Clean, NothingIsNil
<1> QED
  BY <1>1, <1>2, <1>3, <1>4 DEF Next

(* Inv is an invariant of the resolver. *)
LEMMA Invariance == Spec => []Inv
  BY InitInv, NextInv, PTL DEF Spec

-----------------------------------------------------------------------------
(* Theorems *)

(* Everything is well typed; in particular no request ends with a nil      *)
(* response, whichever way it is answered.                                 *)
THEOREM TypeCorrect == Spec => []TypeOK
<1>1. Inv => TypeOK
  BY DEF Inv, Types0, NothingIsNil, TypeOK
<1> QED
  BY <1>1, Invariance, PTL

(* For any routes, names and requests: no hijacked answer of IranDNS       *)
(* reaches a client that asked for an address, be it resolved, shared by   *)
(* singleflight or cached.                                                 *)
THEOREM AnswersAreClean == Spec => []CleanAnswers
<1>1. Inv => CleanAnswers
  <2> SUFFICES ASSUME Inv, NEW r \in Requests, Address(question[r]),
                      answer[r].msg.from = "iran"
               PROVE  ~Hijacked(answer[r].msg)
    BY DEF CleanAnswers
  <2>1. question[r] \in Questions /\ answer[r].to \in Questions
    BY DEF Inv, Types0, Replied
  <2>2. Address(answer[r].to)
    BY <2>1, KeyKeepsKind DEF Inv, SameKey
  <2> QED
    BY <2>2 DEF Inv, AllClean, Clean
<1> QED
  BY <1>1, Invariance, PTL

(* Singleflight coalesces any number of requests: a question is resolved   *)
(* by one of them at a time.                                               *)
THEOREM QuestionsAreCoalesced == Spec => []OneResolutionPerQuestion
<1>1. Inv => OneResolutionPerQuestion
  BY DEF Inv, Recorded, OneResolutionPerQuestion
<1> QED
  BY <1>1, Invariance, PTL

(* For any classes, types and requests: the answer that a client gets was  *)
(* obtained for the name and the type it asked for, unless                 *)
(* dns.TypeToString has a name for neither type.                           *)
THEOREM NameAndTypeAreAnswered == Spec => []AnswersNameAndType
<1>1. Inv => AnswersNameAndType
  <2> SUFFICES ASSUME Inv, NEW r \in Requests
               PROVE  /\ answer[r].to.name = question[r].name
                      /\ \/ answer[r].to.type = question[r].type
                         \/ {answer[r].to.type, question[r].type} \subseteq UnknownTypes
    BY DEF AnswersNameAndType
  <2>1. question[r] \in Questions /\ answer[r].to \in Questions
    BY DEF Inv, Types0, Replied
  <2> QED
    BY <2>1, KeyKeepsNameAndType DEF Inv, SameKey
<1> QED
  BY <1>1, Invariance, PTL

(* Where every query type has a name and one class only is asked for, a    *)
(* client gets the answer to its own question: of the name, the type and   *)
(* the class, the requests of one key can differ in the class and in types *)
(* without a name, and in nothing else.                                    *)
THEOREM OwnQuestionsAreAnswered ==
  ASSUME UnknownTypes = {}, \A c, d \in Classes : c = d
  PROVE  Spec => []AnswersOwnQuestion
<1>1. Inv => AnswersOwnQuestion
  <2> SUFFICES ASSUME Inv, NEW r \in Requests
               PROVE  answer[r].to = question[r]
    BY DEF AnswersOwnQuestion
  <2>1. question[r] \in Questions /\ answer[r].to \in Questions
    BY DEF Inv, Types0, Replied
  <2>2. answer[r].to.name = question[r].name /\ answer[r].to.type = question[r].type
    BY <2>1, KeyKeepsNameAndType DEF Inv, SameKey
  <2>3. answer[r].to.class = question[r].class
    BY <2>1 DEF Questions
  <2> QED
    BY <2>1, <2>2, <2>3 DEF Questions
<1> QED
  BY <1>1, Invariance, PTL
-----------------------------------------------------------------------------
(* Who waits in singleflight *)

(* A key that is recorded is being resolved by the request recorded for    *)
(* it, and a key that is waited for is recorded.                           *)
Led ==
  /\ \A k \in Keys : flight[k] # None =>
       pc[flight[k]] \in Working /\ Key(question[flight[k]]) = k
  /\ \A r \in Requests : pc[r] = "follow" => flight[Key(question[r])] # None

(* A step of r that leaves singleflight alone: inside a resolution r stays *)
(* in it, and outside nobody waits for it.                                 *)
LEMMA MoveKeepsLed ==
  ASSUME Types0, Led, NEW r \in Requests, UNCHANGED <<question, flight>>,
         \A s \in Requests \ {r} : pc'[s] = pc[s],
         pc[r] \in Working => pc'[r] \in Working,
         pc'[r] = "follow" => flight[Key(question[r])] # None
  PROVE  Led'
<1>1. \A k \in Keys : flight[k] \in Requests \cup {None}
  BY DEF Types0
<1> QED
  BY <1>1 DEF Led

(* A step of a request in its resolution *)
LEMMA WorkKeepsLed ==
  ASSUME Types0, Led, NEW r \in Requests,
         Route(r) \/ AskTLD(r) \/ AskPreferred(r) \/ AskStored(r) \/ Learn(r) \/ AskGlobal(r)
         \/ CacheSet(r)
  PROVE  Led'
<1>1. UNCHANGED <<question, flight>> /\ \E label \in Working : pc' = [pc EXCEPT ![r] = label]
  <2>0. ASSUME Route(r)
        PROVE  \E label \in {"tld", "prefer", "store", "learn"} : Goto(r, label)
    BY <2>0 DEF Route
  <2> USE DEF Goto, Working
  <2>1. ASSUME NEW m, Attempted(r, m)
        PROVE  \E label \in Working : pc' = [pc EXCEPT ![r] = label]
    BY <2>1 DEF Attempted
  <2>2. ASSUME NEW m, NEW good \in BOOLEAN, UseOrAskGlobal(r, m, good)
        PROVE  \E label \in Working : pc' = [pc EXCEPT ![r] = label]
    BY <2>1, <2>2 DEF UseOrAskGlobal
  <2>3. CASE Route(r)
    BY <2>0, <2>3 DEF Route
  <2>4. CASE AskTLD(r) \/ AskPreferred(r)
    BY <2>2, <2>4 DEF AskTLD, AskPreferred
  <2>5. CASE AskStored(r)
    BY <2>2, <2>5 DEF AskStored
  <2>6. CASE Learn(r) \/ AskGlobal(r)
    BY <2>1, <2>6 DEF Learn, AskGlobal
  <2>7. CASE CacheSet(r)
    BY <2>7 DEF CacheSet
  <2> QED
    BY <2>3, <2>4, <2>5, <2>6, <2>7
<1>2. pc'[r] \in Working /\ \A s \in Requests \ {r} : pc'[s] = pc[s]
  BY <1>1 DEF Types0
<1>3. pc'[r] # "follow"
  BY <1>2 DEF Working
<1> QED
  BY <1>1, <1>2, <1>3, MoveKeepsLed

(* sf.Do either records the request or finds another one recorded. *)
LEMMA JoinKeepsLed ==
  ASSUME Types0, Led, NEW r \in Requests, Join(r)
  PROVE  Led'
<1> DEFINE k == Key(question[r])
<1>1. k \in Keys /\ pc[r] = "join" /\ UNCHANGED question
  BY KeysOfQuestions DEF Types0, Join
<1>2. pc[r] \notin Working
  BY <1>1 DEF Working
<1>3. CASE flight[k] = None
  <2>1. /\ flight'[k] = r /\ \A j \in Keys \ {k} : flight'[j] = flight[j]
        /\ pc'[r] = "route" /\ \A s \in Requests \ {r} : pc'[s] = pc[s]
    BY <1>1, <1>3 DEF Join, Goto, Types0
  <2>2. ASSUME NEW j \in Keys, flight'[j] # None
        PROVE  pc'[flight'[j]] \in Working /\ Key(question[flight'[j]]) = j
    <3>1. CASE j = k
      BY <2>1, <3>1 DEF Working
    <3>2. CASE j # k
      <4>1. flight'[j] = flight[j] /\ flight[j] \in Requests /\ pc[flight[j]] \in Working
            /\ Key(question[flight[j]]) = j
        BY <2>1, <2>2, <3>2 DEF Led, Types0
      <4> QED
        BY <1>2, <2>1, <4>1
    <3> QED
      BY <3>1, <3>2
  <2>3. ASSUME NEW s \in Requests, pc'[s] = "follow"
        PROVE  flight'[Key(question[s])] # None
    <3>1. pc[s] = "follow" /\ Key(question[s]) \in Keys
      BY <2>1, <2>3, KeysOfQuestions DEF Types0
    <3>2. flight[Key(question[s])] # None
      BY <3>1 DEF Led
    <3> QED
      BY <1>3, <2>1, <3>1, <3>2
  <2> QED
    BY <1>1, <2>2, <2>3 DEF Led
<1>4. CASE flight[k] # None
  <2>1. /\ UNCHANGED flight
        /\ \A s \in Requests \ {r} : pc'[s] = pc[s]
    BY <1>4 DEF Join, Goto, Types0
  <2> QED
    BY <1>1, <1>2, <1>4, <2>1, MoveKeepsLed
<1> QED
  BY <1>3, <1>4

(* The end of a resolution takes everyone along who waits for it. *)
LEMMA ReleaseKeepsLed ==
  ASSUME Types0, Led, NEW r \in Requests, Release(r)
  PROVE  Led'
<1> DEFINE k == Key(question[r])
           served == {r} \cup {f \in Requests : pc[f] = "follow" /\ Key(question[f]) = k}
<1>1. /\ pc[r] = "release" /\ UNCHANGED question /\ k \in Keys
      /\ \A f \in Requests : pc'[f] = IF f \in served THEN "done" ELSE pc[f]
      /\ flight'[k] = None /\ \A j \in Keys \ {k} : flight'[j] = flight[j]
  BY KeysOfQuestions DEF Release, Types0
<1>2. ASSUME NEW j \in Keys, flight'[j] # None
      PROVE  pc'[flight'[j]] \in Working /\ Key(question[flight'[j]]) = j
  <2>1. /\ j # k /\ flight'[j] = flight[j] /\ flight[j] \in Requests
        /\ pc[flight[j]] \in Working /\ Key(question[flight[j]]) = j
    BY <1>1, <1>2 DEF Led, Types0
  <2>2. flight[j] \notin served
    BY <2>1 DEF Working
  <2> QED
    BY <1>1, <2>1, <2>2
<1>3. ASSUME NEW s \in Requests, pc'[s] = "follow"
      PROVE  flight'[Key(question[s])] # None
  <2>1. s \notin served /\ pc[s] = "follow" /\ Key(question[s]) \in Keys
    BY <1>1, <1>3, KeysOfQuestions DEF Types0
  <2>2. Key(question[s]) # k /\ flight[Key(question[s])] # None
    BY <2>1 DEF Led
  <2> QED
    BY <1>1, <2>1, <2>2
<1> QED
  BY <1>1, <1>2, <1>3 DEF Led

(* For any number of requests: who waits for a resolution waits for one    *)
(* that is under way, so that none is forgotten by sf.Do.                  *)
THEOREM FollowersAreServed == Spec => []FollowersHaveLeader
<1>1. Init => Led
  BY DEF Init, Led
<1>2. Inv /\ Led /\ [Next]_vars => Led'
  <2> SUFFICES ASSUME Types0, Led, [Next]_vars PROVE Led'
    BY DEF Inv
  <2>1. ASSUME NEW r \in Requests, Arrive(r)
        PROVE  Led'
    <3>1. pc[r] = "arrive" /\ UNCHANGED <<question, flight>>
      BY <2>1 DEF Arrive
    <3>2. pc'[r] \in {"join", "done"} /\ \A s \in Requests \ {r} : pc'[s] = pc[s]
      BY <2>1 DEF Arrive, Goto, Types0
    <3> QED
      BY <3>1, <3>2, MoveKeepsLed DEF Working
  <2>2. ASSUME UNCHANGED <<question, pc, flight>>
        PROVE  Led'
    BY <2>2 DEF Led
  <2>3. CASE (\E a \in cache : Expire(a)) \/ (\E d \in Names : Unlearn(d)) \/ UNCHANGED vars
    BY <2>2, <2>3 DEF Expire, Unlearn, vars
  <2> QED
    BY <2>1, <2>3, WorkKeepsLed, JoinKeepsLed, ReleaseKeepsLed DEF Next, Step
<1>3. Inv /\ Led => FollowersHaveLeader
  <2> SUFFICES ASSUME Types0, Led, NEW r \in Requests, pc[r] = "follow"
               PROVE  \E s \in Requests : /\ flight[Key(question[r])] = s
                                          /\ pc[s] \in Working
                                          /\ Key(question[s]) = Key(question[r])
    BY DEF Inv, FollowersHaveLeader
  <2>1. Key(question[r]) \in Keys /\ flight[Key(question[r])] \in Requests
    BY KeysOfQuestions DEF Types0, Led
  <2> QED
    BY <2>1 DEF Led
<1> QED
  BY <1>1, <1>2, <1>3, Invariance, PTL DEF Spec
=============================================================================

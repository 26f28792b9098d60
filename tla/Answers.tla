------------------------------ MODULE Answers ------------------------------
(***************************************************************************)
(* DNS responses, as far as the resolver tells them apart: which upstream  *)
(* sent one, its response code, and the kinds of address in its answer     *)
(* section.  src/internal/resolver/resolver.go.                            *)
(***************************************************************************)

(* An address is a known hijack address (hijackIPs, hijackRanges), or else *)
(* in the Iranian ranges (classifier.IsIran), or neither.                  *)
IpKinds == {"hijack", "iranian", "foreign"}

CONSTANT IpSets  \* the sets of kinds that occur together in a response

ASSUME IpSetsAssumption == IpSets \subseteq SUBSET IpKinds

Rcodes == {"success", "nxdomain", "servfail"}

Replies(upstream) == [from : {upstream}, rcode : Rcodes, ips : IpSets]

(* The response the resolver makes up itself *)
ServerFail == [from |-> "self", rcode |-> "servfail", ips |-> {}]

(* A nil response *)
Nil == [from |-> "nobody", rcode |-> "none", ips |-> {}]

(* isHijacked(extractIPs(m)) *)
Hijacked(m) == "hijack" \in m.ips

IranianIsEnough(m) == "iranian" \in m.ips

(* The test an answer of IranDNS has to pass before its name is learned:   *)
(* no address is a hijack address, and some address is Iranian.            *)
Vetted(m) == m.ips # {} /\ ~Hijacked(m) /\ "iranian" \in m.ips

(* What query returns: a response, or nil after an error, a timeout or a   *)
(* cancellation.                                                           *)
Received(upstream) == Replies(upstream) \cup {Nil}

-----------------------------------------------------------------------------
(* What resolveWithLearning may do, seen from its caller: the response,    *)
(* and whether the name has been added to the store.  address says whether *)
(* the query is of type A or AAAA.                                         *)
LearningOutcomes(address) ==
  [resp : {m \in Replies("iran") : address => Vetted(m)}, learned : {address}]
  \cup [resp : Replies("global"), learned : {FALSE, address}]
  \cup [resp : {ServerFail}, learned : {FALSE}]
=============================================================================

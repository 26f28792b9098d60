---------------------------- MODULE MCResolver ----------------------------
(***************************************************************************)
(* Resolver with one name for every route: cdn.site is below site, so it   *)
(* is found in the store through its parent.                               *)
(***************************************************************************)
EXTENDS Resolver, TLC

NameSuffixes ==
  [d \in Names |-> IF d = "cdn.site" THEN {"cdn.site", "site"} ELSE {d}]

(* Apart from no address at all: a clean Iranian one, a hijacked one, and  *)
(* both in one response.                                                   *)
SomeIpSets == {{}, {"iranian"}, {"iranian", "hijack"}}

Stores == SUBSET {"site"}

Ask(name, type) == [name |-> name, type |-> type, class |-> "IN"]

(* Requests for names that are not related share neither a key nor an      *)
(* entry of the store, so the requests ask for one name, or for a name and *)
(* its parent; and they are interchangeable.  The type matters where names *)
(* are learned and where one is pinned, and whether it has a name and the  *)
(* class matter for the keys.                                              *)
Pairs ==
  {<<Ask(d, "A"), Ask(d, "A")>> : d \in Names}
  \cup {<<Ask(d, t), Ask(d, "MX")>> : d \in {"site", "pinned"}, t \in {"A", "MX"}}
  \cup {<<Ask("site", "A"), Ask("cdn.site", "A")>>}
  \cup {<<Ask("pinned", "TYPE65280"), Ask("pinned", "TYPE65281")>>}
  \cup {<<Ask(d, "A"), [Ask(d, "A") EXCEPT !.class = "CH"]>> : d \in {"ir", "pinned"}}

TwoRequests ==
  {[r \in Requests |-> p[IF r = "r1" THEN 1 ELSE 2]] : p \in Pairs}

AnyTwo == [Requests -> Questions]
=============================================================================

------------------------------- MODULE Cache -------------------------------
(***************************************************************************)
(* The response cache, src/internal/cache/cache.go: a map under a read-    *)
(* write lock, with a bound on its size.                                   *)
(*                                                                         *)
(* Get gives its read lock up before it takes the write lock to delete an  *)
(* expired entry, so it is two steps here; Set, and a sweep of the cleanup *)
(* goroutine, hold the write lock throughout and are one step each.  The   *)
(* time an entry has left replaces the clock: positive before it expires,  *)
(* 0 at the very instant, and -1 from then on.                             *)
(***************************************************************************)
EXTENDS Integers, FiniteSets

CONSTANTS
  Keys,        \* name and type of a question
  Readers,     \* goroutines that call Get
  MinTTL, MaxTTL,
  MaxEntries,  \* the bound on the size; 0 stands for no bound
  Sample,      \* how many entries evictOne looks at, 100 in the code
  TTLs,        \* the smallest TTL among the records of a response
  None         \* no key

ASSUME ParametersAssumption ==
  /\ IsFiniteSet(Keys)
  /\ MinTTL \in Nat /\ MaxTTL \in Nat \ {0}
  /\ MaxEntries \in Nat /\ Sample \in Nat \ {0}
  /\ TTLs \subseteq Nat
  /\ None \notin Keys

VARIABLES
  entries,  \* the keys of the map
  left,     \* time left to each entry, -1 where there is none
  reading   \* the key a reader has found expired, if any

vars == <<entries, left, reading>>

TypeOK ==
  /\ entries \subseteq Keys
  /\ left \in [Keys -> -1 .. MaxTTL]
  /\ reading \in [Readers -> Keys \cup {None}]

Init ==
  /\ entries = {}
  /\ left = [k \in Keys |-> -1]
  /\ reading = [r \in Readers |-> None]

(* time.Now().After(e.expires) *)
Expired(k) == left[k] = -1

Without(ks) ==
  /\ entries' = entries \ ks
  /\ left' = [k \in Keys |-> IF k \in ks THEN -1 ELSE left[k]]

-----------------------------------------------------------------------------
(* Get *)

(* Under the read lock: an entry that is not there, or has time left, ends *)
(* the call, and changes nothing.  Otherwise the lock is given up.         *)
GetFindsExpired(r, k) ==
  /\ reading[r] = None
  /\ k \in entries
  /\ left[k] <= 0
  /\ reading' = [reading EXCEPT ![r] = k]
  /\ UNCHANGED <<entries, left>>

DeleteUnchecked(r, k) ==
  /\ reading[r] = k
  /\ Without({k})
  /\ reading' = [reading EXCEPT ![r] = None]

(* Under the write lock: the entry is deleted if it is expired still. *)
GetDeletes(r, k) ==
  /\ reading[r] = k
  /\ Without({k} \cap {j \in entries : Expired(j)})
  /\ reading' = [reading EXCEPT ![r] = None]

-----------------------------------------------------------------------------
(* Set *)

ClampBelow(ttl) == IF ttl < MinTTL THEN MinTTL ELSE ttl

(* MinTTL is applied first, so MaxTTL prevails. *)
Clamp(ttl) ==
  LET raised == IF ttl < MinTTL THEN MinTTL ELSE ttl
  IN  IF raised > MaxTTL THEN MaxTTL ELSE raised

EvictAny == entries

(* evictOne takes the entry that expires first among the first Sample      *)
(* entries of the map, whose order is random.                              *)
Evictable ==
  {k \in entries :
     \E seen \in SUBSET entries :
       /\ k \in seen
       /\ Cardinality(seen) = IF Sample > Cardinality(entries)
                              THEN Cardinality(entries) ELSE Sample
       /\ \A j \in seen : left[k] <= left[j]}

FullTooLate == MaxEntries > 0 /\ Cardinality(entries) > MaxEntries

Full == MaxEntries > 0 /\ Cardinality(entries) >= MaxEntries

Evicted == IF Full THEN {{k} : k \in Evictable} ELSE {{}}

(* A response whose TTL is zero is not cached.  A full cache evicts, also  *)
(* when the key is in the map already.                                     *)
Set(k, ttl) ==
  /\ ttl > 0
  /\ \E gone \in Evicted :
       /\ entries' = (entries \ gone) \cup {k}
       /\ left' = [j \in Keys |-> IF j = k THEN Clamp(ttl)
                                  ELSE IF j \in gone THEN -1 ELSE left[j]]
  /\ UNCHANGED reading

-----------------------------------------------------------------------------
(* A sweep of the cleanup goroutine *)
Sweep ==
  /\ Without({k \in entries : Expired(k)})
  /\ UNCHANGED reading

TimePasses ==
  /\ left' = [k \in Keys |-> IF left[k] = -1 THEN -1 ELSE left[k] - 1]
  /\ UNCHANGED <<entries, reading>>

Next ==
  \/ \E r \in Readers, k \in Keys : GetFindsExpired(r, k) \/ GetDeletes(r, k)
  \/ \E k \in Keys, ttl \in TTLs : Set(k, ttl)
  \/ Sweep
  \/ TimePasses

Spec == Init /\ [][Next]_vars

-----------------------------------------------------------------------------
(* Properties *)

(* The map never outgrows its bound. *)
Bounded == MaxEntries > 0 => Cardinality(entries) <= MaxEntries

(* An entry with time left disappears from the map only when a response is *)
(* stored in a full cache: a reader that has found an older entry expired  *)
(* never deletes the one stored in the meantime.                           *)
FreshEntriesStay ==
  [][\A k \in entries :
       left[k] > 0 /\ k \notin entries'
         => Full /\ \E j \in Keys \ {k} : j \in entries' /\ left'[j] > 0]_vars

(* Eviction spares the fresh: while the map is no larger than the sample,  *)
(* an entry with time left is never evicted in place of an expired one.    *)
ExpiredGoFirst ==
  [][Cardinality(entries) <= Sample =>
       \A k \in entries \ entries' :
         left[k] > 0 => \A j \in entries \cap entries' : left[j] > 0]_vars
=============================================================================

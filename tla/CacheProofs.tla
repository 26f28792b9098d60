---------------------------- MODULE CacheProofs ----------------------------
(***************************************************************************)
(* Proofs about Cache, for any number of keys and readers, any bound, any  *)
(* sample and any TTLs.  Types and the bound are inductive together; what  *)
(* a step may remove follows from the types alone.                         *)
(***************************************************************************)
EXTENDS Cache, FiniteSetTheorems, TLAPS

(* Sizes of subsets of the keys *)
LEMMA Sizes ==
  ASSUME NEW S, S \subseteq Keys
  PROVE  IsFiniteSet(S) /\ Cardinality(S) \in Nat
  BY ParametersAssumption, FS_Subset, FS_CardinalityType

(* A subset as large as the set is the set. *)
LEMMA WholeSet ==
  ASSUME NEW S, S \subseteq Keys, NEW T, T \subseteq S, Cardinality(T) = Cardinality(S)
  PROVE  T = S
  BY Sizes, FS_Subset

(* A response that is stored has time left, and no more than MaxTTL. *)
LEMMA ClampBounds ==
  ASSUME NEW ttl \in Nat, ttl > 0
  PROVE  Clamp(ttl) \in 1 .. MaxTTL
  BY ParametersAssumption DEF Clamp

(* What a full cache evicts is a single entry. *)
LEMMA EvictedOne ==
  ASSUME NEW gone \in Evicted
  PROVE  \/ Full /\ \E e \in Evictable : gone = {e} /\ e \in entries
         \/ ~Full /\ gone = {}
  BY DEF Evicted, Evictable

(* Replacing an entry, and adding one to a map below its bound *)
LEMMA SizeAfterSet ==
  ASSUME NEW S, S \subseteq Keys, NEW k \in Keys
  PROVE  /\ Cardinality(S \cup {k}) <= Cardinality(S) + 1
         /\ \A e \in S : Cardinality((S \ {e}) \cup {k}) <= Cardinality(S)
<1>1. ASSUME NEW R, R \subseteq Keys
      PROVE  Cardinality(R \cup {k}) <= Cardinality(R) + 1
  <2>1. IsFiniteSet(R) /\ Cardinality(R) \in Nat
    BY <1>1, Sizes
  <2>2. Cardinality(R \cup {k}) = IF k \in R THEN Cardinality(R) ELSE Cardinality(R) + 1
    BY <2>1, FS_AddElement
  <2> QED
    BY <2>1, <2>2
<1>2. ASSUME NEW e \in S
      PROVE  Cardinality((S \ {e}) \cup {k}) <= Cardinality(S)
  <2>1. /\ IsFiniteSet(S) /\ Cardinality(S) \in Nat
        /\ Cardinality(S \ {e}) = Cardinality(S) - 1
    BY Sizes, FS_RemoveElement
  <2>2. S \ {e} \subseteq Keys
    OBVIOUS
  <2>3. Cardinality((S \ {e}) \cup {k}) <= Cardinality(S \ {e}) + 1
    BY <1>1, <2>2
  <2> QED
    BY <2>1, <2>3
<1> QED
  BY <1>1, <1>2

-----------------------------------------------------------------------------
(* Invariants *)

Inv == TypeOK /\ Bounded

(* Deleting entries from the map keeps the invariant. *)
LEMMA WithoutKeepsInv ==
  ASSUME Inv, NEW ks, Without(ks), reading' \in [Readers -> Keys \cup {None}]
  PROVE  Inv'
<1>1. TypeOK'
  BY ParametersAssumption DEF Inv, TypeOK, Without
<1>2. entries' \subseteq entries /\ entries \subseteq Keys
  BY DEF Inv, TypeOK, Without
<1>3. Cardinality(entries') <= Cardinality(entries)
  BY <1>2, Sizes, FS_Subset
<1>4. Cardinality(entries) \in Nat /\ Cardinality(entries') \in Nat
  BY <1>2, Sizes
<1> QED
  BY <1>1, <1>3, <1>4, ParametersAssumption DEF Inv, Bounded

(* Set keeps the invariant, with and without an eviction. *)
LEMMA SetKeepsInv ==
  ASSUME Inv, NEW k \in Keys, NEW ttl \in TTLs, Set(k, ttl)
  PROVE  Inv'
<1>1. PICK gone \in Evicted :
        /\ entries' = (entries \ gone) \cup {k}
        /\ left' = [j \in Keys |-> IF j = k THEN Clamp(ttl)
                                   ELSE IF j \in gone THEN -1 ELSE left[j]]
  BY DEF Set
<1>2. Clamp(ttl) \in 1 .. MaxTTL
  BY ClampBounds, ParametersAssumption DEF Set
<1>3. TypeOK'
  BY <1>1, <1>2, ParametersAssumption DEF Inv, TypeOK, Set
<1>4. entries \subseteq Keys /\ Cardinality(entries) \in Nat /\ Cardinality(entries') \in Nat
  BY <1>3, Sizes DEF Inv, TypeOK
<1>5. Bounded'
  <2>1. CASE Full
    <3>1. PICK e \in entries : gone = {e}
      BY <1>1, <2>1, EvictedOne
    <3>2. Cardinality(entries') <= Cardinality(entries)
      BY <1>1, <1>4, <3>1, SizeAfterSet
    <3> QED
      BY <1>4, <3>2, ParametersAssumption DEF Inv, Bounded
  <2>2. CASE ~Full
    <3>1. entries' = entries \cup {k}
      BY <1>1, <2>2, EvictedOne
    <3>2. Cardinality(entries') <= Cardinality(entries) + 1
      BY <1>4, <3>1, SizeAfterSet
    <3> QED
      BY <1>4, <2>2, <3>2, ParametersAssumption DEF Full, Bounded
  <2> QED
    BY <2>1, <2>2
<1> QED
  BY <1>3, <1>5 DEF Inv

(* Every step of the cache keeps the invariant. *)
LEMMA NextInv == Inv /\ [Next]_vars => Inv'
<1> SUFFICES ASSUME Inv, [Next]_vars PROVE Inv'
  OBVIOUS
<1>1. ASSUME NEW r \in Readers, NEW k \in Keys, GetFindsExpired(r, k)
      PROVE  Inv'
  BY <1>1 DEF GetFindsExpired, Inv, TypeOK, Bounded
<1>2. ASSUME NEW r \in Readers, NEW k \in Keys, GetDeletes(r, k)
      PROVE  Inv'
  <2>1. reading' \in [Readers -> Keys \cup {None}]
    BY <1>2 DEF GetDeletes, Inv, TypeOK
  <2> QED
    BY <1>2, <2>1, WithoutKeepsInv DEF GetDeletes
<1>3. CASE Sweep
  <2>1. reading' \in [Readers -> Keys \cup {None}]
    BY <1>3 DEF Sweep, Inv, TypeOK
  <2> QED
    BY <1>3, <2>1, WithoutKeepsInv DEF Sweep
<1>4. CASE TimePasses
  BY <1>4, ParametersAssumption DEF TimePasses, Inv, TypeOK, Bounded
<1>5. CASE UNCHANGED vars
  BY <1>5 DEF vars, Inv, TypeOK, Bounded
<1> QED
  BY <1>1, <1>2, <1>3, <1>4, <1>5, SetKeepsInv DEF Next

(* The empty map satisfies the invariant. *)
LEMMA InitInv == Init => Inv
<1>1. Init => TypeOK
  BY ParametersAssumption DEF Init, TypeOK
<1>2. Cardinality({}) = 0
  BY FS_EmptySet
<1>3. Init => Bounded
  BY <1>2, ParametersAssumption DEF Init, Bounded
<1> QED
  BY <1>1, <1>3 DEF Inv

(* Inv is an invariant of the cache. *)
LEMMA Invariance == Spec => []Inv
  BY InitInv, NextInv, PTL DEF Spec
-----------------------------------------------------------------------------
(* Theorems *)

(* The cache is well typed: no entry outlives MaxTTL. *)
THEOREM TypeCorrect == Spec => []TypeOK
<1>1. Inv => TypeOK
  BY DEF Inv
<1> QED
  BY <1>1, Invariance, PTL

(* The map never outgrows its bound, however many responses are stored. *)
THEOREM CacheIsBounded == Spec => []Bounded
<1>1. Inv => Bounded
  BY DEF Inv
<1> QED
  BY <1>1, Invariance, PTL

(* What has time left is removed only to make room: neither a sweep nor a  *)
(* reader that comes back with the write lock removes it.                  *)
THEOREM FreshEntriesAreKept == Spec => FreshEntriesStay
<1> DEFINE Kept ==
      \A k \in entries :
        left[k] > 0 /\ k \notin entries'
          => Full /\ \E j \in Keys \ {k} : j \in entries' /\ left'[j] > 0
<1>1. Inv /\ [Next]_vars => [Kept]_vars
  <2> SUFFICES ASSUME Inv, Next, NEW k \in entries, left[k] > 0, k \notin entries'
               PROVE  Full /\ \E j \in Keys \ {k} : j \in entries' /\ left'[j] > 0
    OBVIOUS
  <2>1. ASSUME NEW r \in Readers, NEW i \in Keys, GetFindsExpired(r, i) \/ GetDeletes(r, i)
        PROVE  FALSE
    BY <2>1 DEF GetFindsExpired, GetDeletes, Without, Expired
  <2>2. ~Sweep /\ ~TimePasses
    BY DEF Sweep, TimePasses, Without, Expired
  <2>3. PICK j \in Keys, ttl \in TTLs : Set(j, ttl)
    BY <2>1, <2>2 DEF Next
  <2>4. PICK gone \in Evicted :
          /\ entries' = (entries \ gone) \cup {j}
          /\ left' = [i \in Keys |-> IF i = j THEN Clamp(ttl)
                                     ELSE IF i \in gone THEN -1 ELSE left[i]]
    BY <2>3 DEF Set
  <2>5. j # k /\ k \in gone /\ j \in entries' /\ left'[j] = Clamp(ttl)
    BY <2>4
  <2>6. Full
    BY <2>5, EvictedOne
  <2>7. Clamp(ttl) \in 1 .. MaxTTL
    BY <2>3, ClampBounds, ParametersAssumption DEF Set
  <2>8. left'[j] > 0
    BY <2>5, <2>7, ParametersAssumption
  <2> QED
    BY <2>5, <2>6, <2>8
<1> QED
  BY <1>1, Invariance, PTL DEF Spec, FreshEntriesStay

(* While all entries are in the sample, the one evicted is the one that    *)
(* expires first: no expired entry survives a fresh one.                   *)
THEOREM ExpiredAreEvictedFirst == Spec => ExpiredGoFirst
<1> DEFINE Spared ==
      Cardinality(entries) <= Sample =>
        \A k \in entries \ entries' :
          left[k] > 0 => \A j \in entries \cap entries' : left[j] > 0
<1>1. Inv /\ [Next]_vars => [Spared]_vars
  <2> SUFFICES ASSUME Inv, Next, Cardinality(entries) <= Sample,
                      NEW k \in entries \ entries', left[k] > 0,
                      NEW j \in entries \cap entries'
               PROVE  left[j] > 0
    OBVIOUS
  <2>1. ASSUME NEW r \in Readers, NEW i \in Keys, GetFindsExpired(r, i) \/ GetDeletes(r, i)
        PROVE  FALSE
    BY <2>1 DEF GetFindsExpired, GetDeletes, Without, Expired
  <2>2. ~Sweep /\ ~TimePasses
    BY DEF Sweep, TimePasses, Without, Expired
  <2>3. PICK i \in Keys, ttl \in TTLs : Set(i, ttl)
    BY <2>1, <2>2 DEF Next
  <2>4. PICK gone \in Evicted : entries' = (entries \ gone) \cup {i}
    BY <2>3 DEF Set
  <2>5. k \in gone
    BY <2>4
  <2>6. k \in Evictable
    BY <2>5, EvictedOne
  <2>7. PICK seen \in SUBSET entries :
          /\ Cardinality(seen) = IF Sample > Cardinality(entries)
                                 THEN Cardinality(entries) ELSE Sample
          /\ \A e \in seen : left[k] <= left[e]
    BY <2>6 DEF Evictable
  <2>8. entries \subseteq Keys /\ Cardinality(entries) \in Nat
    BY Sizes DEF Inv, TypeOK
  <2>9. Cardinality(seen) = Cardinality(entries)
    BY <2>7, <2>8, ParametersAssumption
  <2>10. seen = entries
    BY <2>8, <2>9, WholeSet
  <2>11. left[k] \in Int /\ left[j] \in Int /\ left[k] <= left[j]
    BY <2>7, <2>8, <2>10, ParametersAssumption DEF Inv, TypeOK
  <2> QED
    BY <2>11
<1> QED
  BY <1>1, Invariance, PTL DEF Spec, ExpiredGoFirst
=============================================================================

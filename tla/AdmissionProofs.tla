-------------------------- MODULE AdmissionProofs --------------------------
(***************************************************************************)
(* Both limiters keep their promises for every rate, every resolution of   *)
(* time, and any number of clients and handlers.                           *)
(***************************************************************************)
EXTENDS Admission, TLAPS

(* The bucket has room for a whole token at least. *)
LEMMA CapacityIsNat == Capacity \in Nat /\ Ticks <= Capacity
  BY ParametersAssumption DEF Capacity

(* The ages of windows are told apart up to some age. *)
LEMMA OldestIsNat == Oldest \in Nat /\ Unknown \in Int /\ Unknown <= 0
  BY ParametersAssumption DEF Oldest, Unknown, Window

(* What the bucket would hold if it were asked now is a number of units    *)
(* between none and its capacity.                                          *)
LEMMA RefilledInBucket ==
  ASSUME NEW t \in 0 .. Capacity, NEW e \in Nat
  PROVE  Smaller(Capacity, t + e * GlobalRPS) \in 0 .. Capacity
  <1>1. e * GlobalRPS \in Nat
    BY ParametersAssumption
  <1> QED
    BY <1>1, CapacityIsNat DEF Smaller

(* The history of a client remembers 2 * MaxRPS requests. *)
LEMMA LatestAndPast ==
  /\ Past \in Nat /\ Past = Window + 1 /\ Window \in Nat \ {0}
  /\ Latest \subseteq Nat /\ \A i \in Latest : i # 1 => i - 1 \in Latest
  /\ 2 * MaxRPS \in Latest
  BY ParametersAssumption DEF Past, Latest, Window

(* A request that is admitted becomes the latest; the others move on. *)
LEMMA AdmitShifts ==
  ASSUME TypeOK, NEW c \in Clients, Admit(c)
  PROVE  /\ recent' \in [Clients -> [Latest -> 0 .. Past]]
         /\ recent'[c][1] = 0
         /\ \A i \in Latest : i # 1 => recent'[c][i] = recent[c][i - 1]
         /\ \A d \in Clients : d # c => recent'[d] = recent[d]
  <1>1. recent[c] \in [Latest -> 0 .. Past] /\ 1 \in Latest
    BY ParametersAssumption DEF TypeOK, Latest
  <1>2. [i \in Latest |-> IF i = 1 THEN 0 ELSE recent[c][i - 1]] \in [Latest -> 0 .. Past]
    BY <1>1, LatestAndPast
  <1>3. recent' = [recent EXCEPT ![c] = [i \in Latest |-> IF i = 1 THEN 0 ELSE recent[c][i - 1]]]
    BY DEF Admit
  <1> QED
    BY <1>1, <1>2, <1>3 DEF TypeOK

(* With every tick all of them are longer ago, up to Past. *)
LEMMA TickAges ==
  ASSUME TypeOK, Tick
  PROVE  /\ recent' \in [Clients -> [Latest -> 0 .. Past]]
         /\ \A c \in Clients, i \in Latest : recent'[c][i] = Smaller(Past, recent[c][i] + 1)
  <1>1. \A c \in Clients, i \in Latest : Smaller(Past, recent[c][i] + 1) \in 0 .. Past
    BY LatestAndPast DEF TypeOK, Smaller
  <1> QED
    BY <1>1 DEF Tick

(* The variables of both limiters keep their types. *)
THEOREM TypeCorrect == Spec => []TypeOK
  <1>1. Init => TypeOK
    BY CapacityIsNat, ParametersAssumption
    DEF Init, TypeOK, Unknown, Oldest, Window, Past
  <1>2. TypeOK /\ [Next]_vars => TypeOK'
    <2> SUFFICES ASSUME TypeOK, [Next]_vars PROVE TypeOK'
      OBVIOUS
    <2>1. Refilled \in 0 .. Capacity
      BY RefilledInBucket, ParametersAssumption DEF TypeOK, Refilled
    <2>2. ASSUME NEW h \in Handlers, NEW c \in Clients, TakeToken(h, c)
          PROVE  TypeOK'
      BY <2>1, <2>2, CapacityIsNat, ParametersAssumption
      DEF TypeOK, TakeToken, clientVars
    <2>3. ASSUME NEW h \in Handlers, NoToken(h)
          PROVE  TypeOK'
      BY <2>1, <2>3, CapacityIsNat, ParametersAssumption
      DEF TypeOK, NoToken, clientVars
    <2>4. ASSUME NEW h \in Handlers, NEW c \in Clients, OpenWindow(h, c)
          PROVE  TypeOK'
      <3>1. recent' \in [Clients -> [Latest -> 0 .. Past]]
        BY <2>4, AdmitShifts DEF OpenWindow
      <3>2. age' \in [Clients -> Unknown .. Oldest]
        BY <2>4, OldestIsNat DEF OpenWindow, TypeOK
      <3>3. count' \in [Clients -> 0 .. MaxRPS + 1]
        BY <2>4, ParametersAssumption DEF OpenWindow, TypeOK
      <3> QED
        BY <2>4, <3>1, <3>2, <3>3 DEF TypeOK, OpenWindow, bucketVars
    <2>5. ASSUME NEW h \in Handlers, NEW c \in Clients, CountInWindow(h, c)
          PROVE  TypeOK'
      <3>1. recent' \in [Clients -> [Latest -> 0 .. Past]]
        BY <2>5, AdmitShifts DEF CountInWindow, TypeOK
      <3>2. count' \in [Clients -> 0 .. MaxRPS + 1]
        BY <2>5, ParametersAssumption DEF CountInWindow, TypeOK
      <3> QED
        BY <2>5, <3>1, <3>2 DEF TypeOK, CountInWindow, bucketVars
    <2>6. ASSUME NEW c \in Clients, Cleanup(c)
          PROVE  TypeOK'
      <3>1. age' \in [Clients -> Unknown .. Oldest]
        BY <2>6, OldestIsNat DEF Cleanup, TypeOK
      <3>2. count' \in [Clients -> 0 .. MaxRPS + 1]
        BY <2>6, ParametersAssumption DEF Cleanup, TypeOK
      <3> QED
        BY <2>6, <3>1, <3>2 DEF TypeOK, Cleanup, bucketVars
    <2>7. CASE Tick
      <3>1. elapsed' \in 0 .. Ticks
        BY <2>7, ParametersAssumption DEF Tick, TypeOK, Smaller
      <3>2. excess' \in Nat
        BY <2>7, ParametersAssumption DEF Tick, TypeOK, Larger
      <3>3. age' \in [Clients -> Unknown .. Oldest]
        <4> SUFFICES ASSUME NEW c \in Clients
                     PROVE  (IF age[c] \in {Unknown, Oldest} THEN age[c] ELSE age[c] + 1)
                            \in Unknown .. Oldest
          BY <2>7 DEF Tick
        <4>1. age[c] \in Unknown .. Oldest
          BY DEF TypeOK
        <4> QED
          BY <4>1, OldestIsNat
      <3> QED
        BY <2>7, <3>1, <3>2, <3>3, TickAges DEF Tick, TypeOK
    <2>8. CASE UNCHANGED vars
      BY <2>8 DEF TypeOK, vars, bucketVars, clientVars
    <2> QED
      BY <2>2, <2>3, <2>4, <2>5, <2>6, <2>7, <2>8 DEF Next, Handle
  <1> QED
    BY <1>1, <1>2, PTL DEF Spec

(* The inductive invariant: what has been taken in excess of the rate is   *)
(* missing from the bucket.                                                *)
ExcessIsMissing == excess + Refilled <= Capacity

(* In no interval do the tokens taken exceed the rate by more than one     *)
(* second's worth (GlobalLimiter.Allow).                                   *)
THEOREM RateIsKept == Spec => []BurstBounded
  <1>1. Init => ExcessIsMissing
    <2>1. Init => excess = 0 /\ tokens = Capacity /\ elapsed = 0
      BY DEF Init
    <2>2. 0 * GlobalRPS = 0
      BY ParametersAssumption
    <2> QED
      BY <2>1, <2>2, CapacityIsNat DEF ExcessIsMissing, Refilled, Smaller
  <1>2. TypeOK /\ TypeOK' /\ ExcessIsMissing /\ [Next]_vars => ExcessIsMissing'
    <2> SUFFICES ASSUME TypeOK, TypeOK', ExcessIsMissing, [Next]_vars
                 PROVE  ExcessIsMissing'
      OBVIOUS
    <2>1. Refilled \in 0 .. Capacity
      BY RefilledInBucket, ParametersAssumption DEF TypeOK, Refilled
    <2>2. elapsed' = 0 => Refilled' = tokens'
      <3>1. 0 * GlobalRPS = 0
        BY ParametersAssumption
      <3> QED
        BY <3>1, CapacityIsNat DEF Refilled, Smaller, TypeOK, Capacity
    <2>3. ASSUME NEW h \in Handlers, NEW c \in Clients, TakeToken(h, c)
          PROVE  ExcessIsMissing'
      BY <2>1, <2>2, <2>3, CapacityIsNat, ParametersAssumption
      DEF TakeToken, ExcessIsMissing, TypeOK, Capacity
    <2>4. ASSUME NEW h \in Handlers, NoToken(h)
          PROVE  ExcessIsMissing'
      BY <2>1, <2>2, <2>4, CapacityIsNat
      DEF NoToken, ExcessIsMissing, TypeOK, Capacity
    <2>5. CASE Tick /\ elapsed < Ticks
      <3>1. (elapsed + 1) * GlobalRPS = elapsed * GlobalRPS + GlobalRPS
        BY ParametersAssumption DEF TypeOK
      <3>2. elapsed * GlobalRPS \in Nat
        BY ParametersAssumption DEF TypeOK
      <3>3. elapsed' = elapsed + 1
        BY <2>5, ParametersAssumption DEF Tick, TypeOK, Smaller
      <3>4. Refilled' = Smaller(Capacity, tokens + elapsed * GlobalRPS + GlobalRPS)
        <4>1. Refilled' = Smaller(Capacity, tokens + (elapsed + 1) * GlobalRPS)
          BY <2>5, <3>3 DEF Tick, Refilled, Capacity
        <4>2. tokens + (elapsed + 1) * GlobalRPS
              = tokens + elapsed * GlobalRPS + GlobalRPS
          BY <3>1, <3>2, ParametersAssumption DEF TypeOK
        <4> QED
          BY <4>1, <4>2
      <3> QED
        BY <2>1, <2>5, <3>2, <3>4, CapacityIsNat, ParametersAssumption
        DEF Tick, Larger, Smaller, ExcessIsMissing, Refilled, TypeOK, Capacity
    <2>6. CASE Tick /\ ~(elapsed < Ticks)
      <3>1. elapsed = Ticks /\ elapsed' = Ticks /\ tokens' = tokens
        BY <2>6, ParametersAssumption DEF Tick, TypeOK, Smaller
      <3>2. Ticks * GlobalRPS = Capacity
        BY ParametersAssumption DEF Capacity
      <3>3. Refilled = Capacity /\ Refilled' = Capacity
        BY <3>1, <3>2, CapacityIsNat DEF Refilled, Smaller, TypeOK, Capacity
      <3>4. excess = 0
        BY <3>3, CapacityIsNat DEF ExcessIsMissing, TypeOK
      <3>5. excess' = 0
        BY <2>6, <3>4, ParametersAssumption DEF Tick, Larger
      <3> QED
        BY <3>3, <3>5, CapacityIsNat DEF ExcessIsMissing, Capacity
    <2>7. CASE UNCHANGED bucketVars
      BY <2>7 DEF bucketVars, ExcessIsMissing, Refilled, Capacity
    <2> QED
      BY <2>3, <2>4, <2>5, <2>6, <2>7
      DEF Next, Handle, OpenWindow, CountInWindow, Cleanup, vars
  <1>3. TypeOK /\ ExcessIsMissing => BurstBounded
    <2>1. TypeOK => Refilled \in 0 .. Capacity
      BY RefilledInBucket, ParametersAssumption DEF TypeOK, Refilled
    <2> QED
      BY <2>1, CapacityIsNat DEF TypeOK, ExcessIsMissing, BurstBounded
  <1> QED
    BY <1>1, <1>2, <1>3, TypeCorrect, PTL DEF Spec

-----------------------------------------------------------------------------
(* The limiter of clients *)

(* The requests admitted in the window that is in force *)
Admitted(c) == Smaller(count[c], MaxRPS)

(* The inductive invariant: the request that opened the window is as old   *)
(* as the window, and what was admitted MaxRPS requests before it is past, *)
(* since it was not admitted after the window before had opened.           *)
WindowInv(c) ==
  IF age[c] = Unknown
  THEN \A i \in Latest : i >= MaxRPS => recent[c][i] = Past
  ELSE /\ count[c] >= 1
       /\ \A i \in Latest : i >= Admitted(c) => recent[c][i] >= Smaller(Past, age[c])
       /\ \A i \in Latest : i >= Admitted(c) + MaxRPS => recent[c][i] = Past

(* Once a window is over, all that its predecessor had admitted is past. *)
LEMMA OverIsPast ==
  ASSUME TypeOK, NEW c \in Clients, WindowInv(c), NewWindow(c)
  PROVE  \A i \in Latest : i >= MaxRPS => recent[c][i] = Past
  <1>1. CASE age[c] = Unknown
    BY <1>1 DEF WindowInv
  <1>2. CASE age[c] # Unknown
    <2>1. Smaller(Past, age[c]) = Past
      <3>1. age[c] \in Int
        BY OldestIsNat DEF TypeOK
      <3>2. age[c] > Window
        BY <1>2 DEF NewWindow
      <3> QED
        BY <3>1, <3>2, LatestAndPast DEF Smaller
    <2>2. MaxRPS >= Admitted(c)
      BY ParametersAssumption DEF Admitted, Smaller, TypeOK
    <2>3. \A i \in Latest : i >= MaxRPS => i >= Admitted(c)
      BY <2>2, LatestAndPast, ParametersAssumption DEF Admitted, Smaller, TypeOK
    <2> QED
      BY <1>2, <2>1, <2>3, LatestAndPast DEF WindowInv, TypeOK
  <1> QED
    BY <1>1, <1>2

(* A step that leaves the window of a client alone *)
LEMMA WindowStays ==
  ASSUME NEW c \in Clients, WindowInv(c),
         age'[c] = age[c], count'[c] = count[c], recent'[c] = recent[c]
  PROVE  WindowInv(c)'
  BY DEF WindowInv, Admitted, Latest, Past, Window

(* The first request after a window *)
LEMMA OpenKeepsWindow ==
  ASSUME TypeOK, NEW h \in Handlers, NEW c \in Clients, WindowInv(c), OpenWindow(h, c)
  PROVE  WindowInv(c)'
  <1>1. age'[c] = 0 /\ count'[c] = 1
    BY DEF OpenWindow, TypeOK
  <1>2. Admitted(c)' = 1
    BY <1>1, ParametersAssumption DEF Admitted, Smaller
  <1>3. \A i \in Latest : i >= 1 + MaxRPS => recent'[c][i] = Past
    BY OverIsPast, AdmitShifts, LatestAndPast, ParametersAssumption DEF OpenWindow
  <1>4. \A i \in Latest : recent'[c][i] >= Smaller(Past, 0)
    BY AdmitShifts, LatestAndPast DEF OpenWindow, Smaller
  <1>5. 0 # Unknown
    BY DEF Unknown
  <1> QED
    BY <1>1, <1>2, <1>3, <1>4, <1>5 DEF WindowInv, Latest, Past, Window

(* A request in the window: admitted, it moves the one that opened the     *)
(* window by a place; refused, it changes nothing.                         *)
LEMMA CountKeepsWindow ==
  ASSUME TypeOK, NEW h \in Handlers, NEW c \in Clients, WindowInv(c), CountInWindow(h, c)
  PROVE  WindowInv(c)'
  <1>1. age'[c] = age[c] /\ age[c] # Unknown
    BY DEF CountInWindow, NewWindow
  <1>2. count[c] \in Nat /\ count[c] >= 1 /\ MaxRPS \in Nat \ {0}
    BY <1>1, ParametersAssumption DEF WindowInv, TypeOK
  <1>3. count'[c] = IF count[c] > MaxRPS THEN count[c] ELSE count[c] + 1
    BY DEF CountInWindow, TypeOK
  <1>4. CASE count'[c] <= MaxRPS
    <2>1. Admit(c)
      BY <1>4 DEF CountInWindow
    <2>2. Admitted(c)' = Admitted(c) + 1 /\ Admitted(c) \in Nat \ {0}
      BY <1>2, <1>3, <1>4 DEF Admitted, Smaller
    <2>3. ASSUME NEW i \in Latest, i >= Admitted(c) + 1
          PROVE  i - 1 \in Latest /\ i - 1 >= Admitted(c) /\ recent'[c][i] = recent[c][i - 1]
      <3>1. i \in Nat /\ i # 1
        BY <2>2, <2>3, LatestAndPast
      <3>2. i - 1 \in Latest /\ recent'[c][i] = recent[c][i - 1]
        BY <2>1, <3>1, AdmitShifts, LatestAndPast
      <3> QED
        BY <2>2, <2>3, <3>1, <3>2
    <2>4. ASSUME NEW i \in Latest, i >= Admitted(c) + 1 + MaxRPS
          PROVE  recent'[c][i] = Past
      <3>1. i >= Admitted(c) + 1 /\ i - 1 >= Admitted(c) + MaxRPS
        BY <1>2, <2>2, <2>4, LatestAndPast
      <3> QED
        BY <1>1, <2>3, <3>1 DEF WindowInv
    <2>5. \A i \in Latest : i >= Admitted(c) + 1 => recent'[c][i] >= Smaller(Past, age[c])
      BY <1>1, <2>3 DEF WindowInv
    <2>6. count'[c] >= 1
      BY <1>2, <1>3
    <2> QED
      BY <1>1, <2>2, <2>4, <2>5, <2>6 DEF WindowInv, Latest, Past, Window
  <1>5. CASE ~(count'[c] <= MaxRPS)
    <2>1. recent' = recent
      BY <1>5 DEF CountInWindow
    <2>2. Admitted(c)' = Admitted(c)
      BY <1>2, <1>3, <1>5 DEF Admitted, Smaller
    <2>3. count'[c] >= 1
      BY <1>2, <1>3
    <2> QED
      BY <1>1, <2>1, <2>2, <2>3 DEF WindowInv, Latest, Past, Window
  <1> QED
    BY <1>4, <1>5

(* Time passes for the window and for what it has admitted alike. *)
LEMMA TickKeepsWindow ==
  ASSUME TypeOK, NEW c \in Clients, WindowInv(c), Tick
  PROVE  WindowInv(c)'
  <1>1. Admitted(c)' = Admitted(c) /\ count'[c] = count[c]
    BY DEF Admitted, Tick
  <1>2. age'[c] = IF age[c] \in {Unknown, Oldest} THEN age[c] ELSE age[c] + 1
    BY DEF Tick
  <1>3. age[c] \in Unknown .. Oldest /\ \A i \in Latest : recent[c][i] \in 0 .. Past
    BY DEF TypeOK
  <1>4. \A i \in Latest : recent[c][i] = Past => recent'[c][i] = Past
    BY TickAges, LatestAndPast DEF Smaller
  <1>5. CASE age[c] = Unknown
    BY <1>2, <1>4, <1>5 DEF WindowInv, Latest, Past, Window
  <1>6. CASE age[c] # Unknown
    <2>1. age'[c] # Unknown /\ age'[c] <= age[c] + 1 /\ age[c] \in Nat /\ age'[c] \in Nat
      BY <1>2, <1>3, <1>6, OldestIsNat DEF Unknown
    <2>2. ASSUME NEW i \in Latest, i >= Admitted(c)
          PROVE  recent'[c][i] >= Smaller(Past, age'[c])
      <3>1. recent[c][i] >= Smaller(Past, age[c])
        BY <1>6, <2>2 DEF WindowInv
      <3>2. recent'[c][i] = Smaller(Past, recent[c][i] + 1)
        BY TickAges
      <3> QED
        BY <1>3, <2>1, <3>1, <3>2, LatestAndPast DEF Smaller
    <2> QED
      BY <1>1, <1>4, <1>6, <2>1, <2>2 DEF WindowInv, Latest, Past, Window
  <1> QED
    BY <1>5, <1>6

(* Limiter.Allow: in no interval as long as a window, however it lies to   *)
(* the windows of the limiter, does a client get twice its rate; deleting  *)
(* old windows (Limiter.cleanup) changes nothing about that.               *)
THEOREM ClientRateIsKept == Spec => []LessThanTwiceTheRate
  <1> DEFINE Inv == \A c \in Clients : WindowInv(c)
  <1>1. Init => Inv
    <2> SUFFICES ASSUME Init, NEW c \in Clients PROVE WindowInv(c)
      OBVIOUS
    <2>1. age[c] = Unknown /\ recent[c] = [i \in Latest |-> Past]
      BY DEF Init
    <2> QED
      BY <2>1 DEF WindowInv
  <1>2. TypeOK /\ Inv /\ [Next]_vars => Inv'
    <2> SUFFICES ASSUME TypeOK, Inv, [Next]_vars, NEW d \in Clients
                 PROVE  WindowInv(d)'
      OBVIOUS
    <2>1. WindowInv(d)
      OBVIOUS
    <2>2. CASE UNCHANGED clientVars
      BY <2>1, <2>2, WindowStays DEF clientVars
    <2>3. ASSUME NEW h \in Handlers, NEW c \in Clients, OpenWindow(h, c)
          PROVE  WindowInv(d)'
      <3>1. CASE c = d
        BY <2>1, <2>3, <3>1, OpenKeepsWindow
      <3>2. CASE c # d
        BY <2>1, <2>3, <3>2, WindowStays, AdmitShifts DEF OpenWindow, TypeOK
      <3> QED
        BY <3>1, <3>2
    <2>4. ASSUME NEW h \in Handlers, NEW c \in Clients, CountInWindow(h, c)
          PROVE  WindowInv(d)'
      <3>1. CASE c = d
        BY <2>1, <2>4, <3>1, CountKeepsWindow
      <3>2. CASE c # d
        <4>1. recent'[d] = recent[d]
          BY <2>4, <3>2, AdmitShifts DEF CountInWindow
        <4> QED
          BY <2>1, <2>4, <3>2, <4>1, WindowStays DEF CountInWindow, TypeOK
      <3> QED
        BY <3>1, <3>2
    <2>5. ASSUME NEW c \in Clients, Cleanup(c)
          PROVE  WindowInv(d)'
      <3>1. CASE c = d
        <4>1. NewWindow(d)
          BY <2>5, <3>1, ParametersAssumption DEF Cleanup, NewWindow, TypeOK, Window, Unknown
        <4>2. age'[d] = Unknown /\ recent' = recent
          BY <2>5, <3>1 DEF Cleanup, TypeOK
        <4> QED
          BY <2>1, <4>1, <4>2, OverIsPast DEF WindowInv, Latest, Past, Window
      <3>2. CASE c # d
        BY <2>1, <2>5, <3>2, WindowStays DEF Cleanup, TypeOK
      <3> QED
        BY <3>1, <3>2
    <2>6. CASE Tick
      BY <2>1, <2>6, TickKeepsWindow
    <2> QED
      BY <2>2, <2>3, <2>4, <2>5, <2>6 DEF Next, Handle, TakeToken, NoToken, vars
  <1>3. TypeOK /\ Inv => LessThanTwiceTheRate
    <2> SUFFICES ASSUME TypeOK, Inv, NEW c \in Clients
                 PROVE  recent[c][2 * MaxRPS] > Window
      BY DEF LessThanTwiceTheRate
    <2>1. WindowInv(c)
      OBVIOUS
    <2>2. 2 * MaxRPS >= MaxRPS /\ 2 * MaxRPS >= Admitted(c) + MaxRPS
      BY ParametersAssumption DEF Admitted, Smaller, TypeOK
    <2>3. recent[c][2 * MaxRPS] = Past
      BY <2>1, <2>2, LatestAndPast DEF WindowInv
    <2> QED
      BY <2>3, LatestAndPast
  <1> QED
    BY <1>1, <1>2, <1>3, TypeCorrect, PTL DEF Spec
=============================================================================

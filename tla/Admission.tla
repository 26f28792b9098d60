----------------------------- MODULE Admission -----------------------------
(***************************************************************************)
(* Admission of requests by the DNS handler, src/cmd/sentrydns/main.go:    *)
(* a token of the bucket that all clients share                            *)
(* (src/internal/ratelimit/global.go), then room in the window of the      *)
(* client (src/internal/ratelimit/ratelimit.go).                           *)
(*                                                                         *)
(* Each limiter decides under a mutex, in one step; a handler goroutine    *)
(* may be delayed between the two.  Time advances in ticks, Ticks of them  *)
(* in a second, which is also the length of a window.  Tokens are counted  *)
(* in units of 1/Ticks: a request takes Ticks units and a tick adds        *)
(* GlobalRPS.  The floating-point rounding of the bucket is left out.      *)
(***************************************************************************)
EXTENDS Integers

CONSTANTS
  Clients,
  Handlers,   \* handler goroutines
  GlobalRPS,  \* global_qps_limit, GlobalLimiter.maxRPS
  MaxRPS,     \* rate_limit_per_client, Limiter.MaxRPS
  Ticks,      \* ticks in a second
  None        \* no client

ASSUME ParametersAssumption ==
  /\ GlobalRPS \in Nat \ {0}
  /\ MaxRPS \in Nat \ {0}
  /\ Ticks \in Nat \ {0}
  /\ None \notin Clients

VARIABLES
  tokens,   \* GlobalLimiter.tokens
  elapsed,  \* time since GlobalLimiter.last, up to the second that fills it
  passing,  \* the client whose request has a token and no verdict yet
  age,      \* age of each client's window, Unknown when it has none
  count,    \* requests in it; all counts above MaxRPS are one
  excess,   \* history: the largest amount by which the tokens taken in an
            \* interval that ends now exceed GlobalRPS per second
  recent    \* history: how long ago the last 2 * MaxRPS requests of each
            \* client were admitted, the latest first

bucketVars == <<tokens, elapsed, excess>>
clientVars == <<age, count, recent>>
vars == <<bucketVars, passing, clientVars>>

Capacity == GlobalRPS * Ticks
Window == Ticks

Unknown == -1

(* Beyond this age the code compares a window with nothing. *)
Oldest == 2 * Window + 1

(* What is longer ago than a window; and what never was. *)
Past == Window + 1

(* The requests of a client that are remembered *)
Latest == 1 .. 2 * MaxRPS

Smaller(a, b) == IF a < b THEN a ELSE b
Larger(a, b) == IF a < b THEN b ELSE a

TypeOK ==
  /\ tokens \in 0 .. Capacity
  /\ elapsed \in 0 .. Ticks
  /\ passing \in [Handlers -> Clients \cup {None}]
  /\ age \in [Clients -> Unknown .. Oldest]
  /\ count \in [Clients -> 0 .. MaxRPS + 1]
  /\ excess \in Nat
  /\ recent \in [Clients -> [Latest -> 0 .. Past]]

Init ==
  /\ tokens = Capacity
  /\ elapsed = 0
  /\ passing = [h \in Handlers |-> None]
  /\ age = [c \in Clients |-> Unknown]
  /\ count = [c \in Clients |-> 0]
  /\ excess = 0
  /\ recent = [c \in Clients |-> [i \in Latest |-> Past]]

-----------------------------------------------------------------------------
(* GlobalLimiter.Allow *)

RefilledUncapped == tokens + elapsed * GlobalRPS

Refilled == Smaller(Capacity, tokens + elapsed * GlobalRPS)

TakeAnyFraction(h, c) ==
  /\ passing[h] = None
  /\ Refilled > 0
  /\ tokens' = Refilled - Ticks
  /\ elapsed' = 0
  /\ excess' = excess + Ticks
  /\ passing' = [passing EXCEPT ![h] = c]
  /\ UNCHANGED clientVars

(* A whole token is there: the request goes on to the limiter of clients. *)
TakeToken(h, c) ==
  /\ passing[h] = None
  /\ Refilled >= Ticks
  /\ tokens' = Refilled - Ticks
  /\ elapsed' = 0
  /\ excess' = excess + Ticks
  /\ passing' = [passing EXCEPT ![h] = c]
  /\ UNCHANGED clientVars

(* The request is refused; what has been refilled is kept. *)
NoToken(h) ==
  /\ passing[h] = None
  /\ Refilled < Ticks
  /\ tokens' = Refilled
  /\ elapsed' = 0
  /\ UNCHANGED <<excess, passing, clientVars>>

-----------------------------------------------------------------------------
(* Limiter.Allow *)

ClosesAtWindow(c) == age[c] = Unknown \/ age[c] >= Window

NewWindow(c) == age[c] = Unknown \/ age[c] > Window

Admit(c) ==
  recent' = [recent EXCEPT ![c] = [i \in Latest |-> IF i = 1 THEN 0 ELSE @[i - 1]]]

(* The first request after the window opens a new one. *)
OpenWindow(h, c) ==
  /\ passing[h] = c
  /\ NewWindow(c)
  /\ age' = [age EXCEPT ![c] = 0]
  /\ count' = [count EXCEPT ![c] = 1]
  /\ Admit(c)
  /\ passing' = [passing EXCEPT ![h] = None]
  /\ UNCHANGED bucketVars

(* A request in the window is counted, and admitted up to MaxRPS. *)
CountInWindow(h, c) ==
  /\ passing[h] = c
  /\ ~NewWindow(c)
  /\ count' = [count EXCEPT ![c] = IF @ > MaxRPS THEN @ ELSE @ + 1]
  /\ IF count'[c] <= MaxRPS THEN Admit(c) ELSE UNCHANGED recent
  /\ passing' = [passing EXCEPT ![h] = None]
  /\ UNCHANGED <<bucketVars, age>>

(* A pass of the cleanup goroutine over the shard of c *)
Cleanup(c) ==
  /\ age[c] > 2 * Window
  /\ age' = [age EXCEPT ![c] = Unknown]
  /\ count' = [count EXCEPT ![c] = 0]
  /\ UNCHANGED <<bucketVars, passing, recent>>

Tick ==
  /\ elapsed' = Smaller(Ticks, elapsed + 1)
  /\ age' = [c \in Clients |->
               IF age[c] \in {Unknown, Oldest} THEN age[c] ELSE age[c] + 1]
  /\ excess' = Larger(0, excess - GlobalRPS)
  /\ recent' = [c \in Clients |-> [i \in Latest |-> Smaller(Past, recent[c][i] + 1)]]
  /\ UNCHANGED <<tokens, passing, count>>

Handle(h) ==
  \/ \E c \in Clients : TakeToken(h, c) \/ OpenWindow(h, c) \/ CountInWindow(h, c)
  \/ NoToken(h)

Next ==
  \/ \E h \in Handlers : Handle(h)
  \/ \E c \in Clients : Cleanup(c)
  \/ Tick

Spec == Init /\ [][Next]_vars

-----------------------------------------------------------------------------
(* Properties *)

(* Over any interval, however it is placed, the tokens taken exceed the    *)
(* configured rate by no more than the burst of one second that the bucket *)
(* holds: refilling only when asked, and forgetting the time spent full,   *)
(* admits nothing twice (GlobalLimiter.Allow).                             *)
BurstBounded == excess <= Capacity

(* A window stays in force until it is older than a second, and a new one  *)
(* starts with an admitted request.  So whatever interval as long as a     *)
(* window is looked at, a client gets less than twice its rate: of         *)
(* 2 * MaxRPS requests that are admitted one after another, the first is   *)
(* more than a window older than the last (Limiter.Allow and               *)
(* Limiter.cleanup).                                                       *)
LessThanTwiceTheRate == \A c \in Clients : recent[c][2 * MaxRPS] > Window
=============================================================================

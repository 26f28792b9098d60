---------------------------- MODULE MCBackground ----------------------------
(* An instance of the background goroutines for TLC. *)
EXTENDS Background

(* One worker, and more names than its channel can hold; or two workers. *)
FullOrShared ==
  [names : {{"a", "b", "c"}}, gone : {{}, {"a", "b"}}, crew : {{"w1"}}]
  \cup [names : {{"a", "b"}}, gone : {{"a"}, {"a", "b"}}, crew : {{"w1", "w2"}}]

(* What goes on together: enough for every pair that may meet, and every   *)
(* failure where it matters.                                               *)
SomeWorkloads ==
  {{"learn", "state", "midnight", "stop"}, {"learn", "state", "midnight", "crash"},
   {"learn", "state", "stop", "read", "save"},
   {"update", "state", "midnight", "crash"}, {"update", "state", "read", "save"},
   {"update"},
   {"clean", "state", "midnight", "read", "save"}, {"clean", "stop"}}
=============================================================================

---------------------------- MODULE LearningSpec ----------------------------
(***************************************************************************)
(* What resolveWithLearning promises its caller: it answers once, in one   *)
(* of the ways LearningOutcomes lists, and whether it has put the name in  *)
(* the store agrees with the answer.  Learning implements this.            *)
(***************************************************************************)
EXTENDS Answers

VARIABLES address, result, learned

vars == <<address, result, learned>>

Init ==
  /\ address \in BOOLEAN
  /\ result = Nil
  /\ learned = FALSE

Answer ==
  /\ result = Nil
  /\ \E o \in LearningOutcomes(address) :
       result' = o.resp /\ learned' = o.learned
  /\ UNCHANGED address

Safety == Init /\ [][Answer]_vars

Spec == Safety /\ WF_vars(Answer)
=============================================================================

---------------------------- MODULE CleanupSpec ----------------------------
(***************************************************************************)
(* What the cleanup of the store promises (src/internal/store/store.go,    *)
(* 346-463), without its goroutines: it copies the names of the store and  *)
(* removes those that IranDNS denies, all of them and no other.  Once the  *)
(* shutdown has begun it may miss some, or give up.                        *)
(***************************************************************************)
CONSTANT Names  \* the names a store may hold

VARIABLES
  outcome,  \* how far the cleanup has come
  names,    \* the names it has copied
  gone,     \* those of them that IranDNS says do not exist
  remove,   \* what it removes in the end
  stopping  \* the shutdown has begun

vars == <<outcome, names, gone, remove, stopping>>

Init ==
  /\ outcome = "none"
  /\ names = {} /\ gone = {} /\ remove = {}
  /\ stopping = FALSE

(* The time for a cleanup has come; it waits until IranDNS is healthy. *)
Begin ==
  /\ outcome = "none"
  /\ outcome' = "waiting"
  /\ UNCHANGED <<names, gone, remove, stopping>>

Judge ==
  /\ outcome = "waiting"
  /\ outcome' = "judging"
  /\ names' \in SUBSET Names
  /\ gone' \in SUBSET names'
  /\ UNCHANGED <<remove, stopping>>

Finish ==
  /\ outcome = "judging"
  /\ outcome' = "finished"
  /\ remove' \in SUBSET gone
  /\ ~stopping => remove' = gone
  /\ UNCHANGED <<names, gone, stopping>>

Interrupt ==
  /\ outcome \in {"waiting", "judging"}
  /\ stopping
  /\ outcome' = "interrupted"
  /\ UNCHANGED <<names, gone, remove, stopping>>

(* The names are removed, and the next cleanup is scheduled. *)
Return ==
  /\ outcome \in {"finished", "interrupted"}
  /\ outcome' = "none"
  /\ names' = {} /\ gone' = {} /\ remove' = {}
  /\ UNCHANGED stopping

StopBegins ==
  /\ stopping' = TRUE
  /\ UNCHANGED <<outcome, names, gone, remove>>

(* The process ends, at any point, and is started again. *)
Restart ==
  /\ outcome' = "none"
  /\ names' = {} /\ gone' = {} /\ remove' = {}
  /\ stopping' = FALSE

Next ==
  \/ Begin \/ Judge \/ Finish \/ Interrupt \/ Return
  \/ StopBegins \/ Restart

Safety == Init /\ [][Next]_vars

(* A cleanup that judges comes to an end, and so does one that waits when  *)
(* the shutdown has begun.                                                 *)
Spec == Safety /\ WF_vars(Finish \/ Interrupt)
=============================================================================

----------------------------- MODULE StateFile -----------------------------
(***************************************************************************)
(* The state file, src/internal/state/state.go: a record of which several  *)
(* goroutines each rewrite their own fields.  Update holds updateMu while  *)
(* it loads the file, changes the record and saves it; a save goes to a    *)
(* temporary file that is renamed, so a crash leaves the old file or the   *)
(* new one.                                                                *)
(***************************************************************************)
EXTENDS Integers

CONSTANTS
  Nobody,    \* nobody holds a mutex
  Before,    \* the names learned before the first day
  Workloads  \* what may go on in a process: some subsets of Activities

(* What the process does or meets (a state file and an updater have to be  *)
(* configured), and what may fail.                                         *)
Activities == {"learn", "update", "clean", "midnight", "stop",
               "state", "crash", "read", "save"}

(* The callers of Update: flushState and saveCleanupTime of the store,     *)
(* resetDailyStats of the metrics, the updater.                            *)
Savers == {"flush", "cleanup", "reset", "updater"}

ASSUME StateFileAssumption ==
  /\ Nobody \notin Savers
  /\ Before \in Nat
  /\ Workloads \subseteq SUBSET Activities

(* LastUpdateSuccess (with LastUpdateUnix), LastCleanupUnix > 0, and the   *)
(* four fields of the statistics.  Dates count days; 0 is no date.         *)
State ==
  [updated : BOOLEAN, cleaned : BOOLEAN,
   date : Nat, today : Nat, atMidnight : Nat, total : Nat]

ZeroState ==
  [updated |-> FALSE, cleaned |-> FALSE,
   date |-> 0, today |-> 0, atMidnight |-> 0, total |-> 0]

VARIABLES
  uses,      \* what goes on
  file,      \* what the file holds
  updateMu,  \* holder of updateMu
  loaded,    \* the State that each writer has loaded
  saved,     \* history: the fields as their writers saved them last
  damaged    \* history: a load or a save has failed

fileVars == <<uses, file, updateMu, loaded, saved, damaged>>

(* statePath # "" *)
HasState == "state" \in uses

NothingLoaded == [w \in Savers |-> ZeroState]

FileTypeOK ==
  /\ uses \in Workloads
  /\ file \in State
  /\ updateMu \in Savers \cup {Nobody}
  /\ loaded \in [Savers -> State]
  /\ saved \in State
  /\ damaged \in BOOLEAN

(* Without a state file, Load always returns the zero State. *)
FileInit ==
  /\ uses \in Workloads
  /\ file = [ZeroState EXCEPT !.total = IF HasState THEN Before ELSE 0]
  /\ saved = file
  /\ loaded = NothingLoaded
  /\ updateMu = Nobody
  /\ damaged = FALSE

(* What Load may return: a file that cannot be read counts as empty. *)
Loadable == {file} \cup {st \in {ZeroState} : "read" \in uses}

LoadUnlocked(w) ==
  /\ updateMu' = w
  /\ loaded' = [loaded EXCEPT ![w] = file]
  /\ UNCHANGED <<uses, file, saved, damaged>>

(* Update locks and loads.  A file that cannot be read counts as empty. *)
UpdateLoad(w) ==
  /\ updateMu = Nobody
  /\ updateMu' = w
  /\ \/ loaded' = [loaded EXCEPT ![w] = file] /\ UNCHANGED damaged
     \/ /\ "read" \in uses
        /\ loaded' = [loaded EXCEPT ![w] = ZeroState]
        /\ damaged' = TRUE
  /\ UNCHANGED <<uses, file, saved>>

(* Update lets the writer set its fields in the State it loaded, saves the *)
(* result, and unlocks; kept is what the history becomes with the same     *)
(* fields set.  No caller looks at the error of a save that failed.        *)
UpdateSave(w, st, kept) ==
  /\ updateMu' = Nobody
  /\ \/ /\ file' = st
        /\ saved' = kept
        /\ UNCHANGED damaged
     \/ /\ "save" \in uses
        /\ damaged' = TRUE
        /\ UNCHANGED <<file, saved>>
  /\ loaded' = [loaded EXCEPT ![w] = ZeroState]
  /\ UNCHANGED uses

(* The process ends, at any point. *)
FileAfterExit ==
  /\ updateMu' = Nobody
  /\ loaded' = NothingLoaded
  /\ UNCHANGED <<uses, file, saved, damaged>>

-----------------------------------------------------------------------------
(* Properties *)

(* Every field of the file is as its own writer saved it last: although    *)
(* each of the four writers rewrites the whole file from a copy, none of   *)
(* them overwrites what another has saved.  (A file that could not be read *)
(* is started afresh.)                                                     *)
NoLostUpdate == ~damaged => file = saved
=============================================================================

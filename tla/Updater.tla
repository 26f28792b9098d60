------------------------------ MODULE Updater ------------------------------
(***************************************************************************)
(* The updater of the Iranian ranges, src/internal/updater/updater.go, and *)
(* the classifier that it reloads, src/internal/classifier/classifier.go.  *)
(* A list is downloaded to a temporary file, checked, renamed over the     *)
(* ranges file, and loaded from there; the outcome goes to the metrics and *)
(* to the state file.                                                      *)
(*                                                                         *)
(* A list is told apart by two tests: containsValidCIDR looks for ten      *)
(* valid ranges and stops there; classifier.New reads to the end, fails on *)
(* a line that its scanner does not take, and wants one valid range.       *)
(***************************************************************************)
EXTENDS StateFile

CONSTANTS
  Lists,     \* lists of ranges
  Short,     \* those with fewer than ten valid ranges
  Unusable,  \* those that classifier.New fails on
  FirstList, \* the one that the program is first started with
  NoList     \* no list

ASSUME ListsAssumption ==
  /\ Short \subseteq Lists
  /\ Unusable \subseteq Lists
  /\ FirstList \in Lists \ Unusable
  /\ NoList \notin Lists

VARIABLES
  remote,      \* the list that the URL serves
  works,       \* do downloads and renames succeed?
  rangesFile,  \* the list in the ranges file
  ranges,      \* Classifier.iranRanges4 and iranRanges6
  updateOk,    \* metrics LastUpdateSuccess
  upc,         \* control point of the updater
  tmp,         \* the list that has been downloaded
  result       \* how the update went

updaterVars == <<remote, works, rangesFile, ranges, updateOk, upc, tmp, result>>

UpdaterTypeOK ==
  /\ remote \in Lists /\ rangesFile \in Lists
  /\ works \in BOOLEAN
  /\ ranges \in (Lists \ Unusable) \cup {NoList}
  /\ updateOk \in BOOLEAN /\ result \in BOOLEAN
  /\ upc \in {"wait", "download", "check", "rename", "reload", "record", "load", "save"}
  /\ tmp \in Lists \cup {NoList}
  /\ upc \in {"check", "rename"} => tmp # NoList

UpdaterInit ==
  /\ remote = FirstList /\ rangesFile = FirstList /\ ranges = FirstList
  /\ works = TRUE
  /\ updateOk = TRUE
  /\ upc = "wait" /\ tmp = NoList /\ result = FALSE

(* Ten valid ranges are enough. *)
ContainsValidCIDR(list) == list \notin Short

(* classifier.New: every line can be read, and one range is valid. *)
NewSucceeds(list) == list \notin Unusable

UGoto(label) == upc' = label

(* The update ends with this result. *)
Ends(ok) ==
  /\ result' = ok
  /\ tmp' = NoList
  /\ UGoto("record")

DueUnlessFailed ==
  /\ upc = "wait"
  /\ updateOk
  /\ UGoto("download")
  /\ UNCHANGED <<remote, works, rangesFile, ranges, updateOk, tmp, result, fileVars>>

(* The timer or the ticker fires. *)
UpdateDue ==
  /\ upc = "wait"
  /\ UGoto("download")
  /\ UNCHANGED <<remote, works, rangesFile, ranges, updateOk, tmp, result, fileVars>>

(* The GET, its status, and the copy to the temporary file *)
Download ==
  /\ upc = "download"
  /\ \/ /\ works
        /\ tmp' = remote
        /\ UGoto("check")
        /\ UNCHANGED result
     \/ ~works /\ Ends(FALSE)
  /\ UNCHANGED <<remote, works, rangesFile, ranges, updateOk, fileVars>>

CheckList ==
  /\ upc = "check"
  /\ IF ContainsValidCIDR(tmp)
     THEN UGoto("rename") /\ UNCHANGED <<tmp, result>>
     ELSE Ends(FALSE)
  /\ UNCHANGED <<remote, works, rangesFile, ranges, updateOk, fileVars>>

RenameList ==
  /\ upc = "rename"
  /\ \/ /\ works
        /\ rangesFile' = tmp
        /\ UGoto("reload")
        /\ UNCHANGED <<tmp, result>>
     \/ ~works /\ Ends(FALSE) /\ UNCHANGED rangesFile
  /\ UNCHANGED <<remote, works, ranges, updateOk, fileVars>>

ReloadsBlindly ==
  /\ upc = "reload"
  /\ ranges' = IF NewSucceeds(rangesFile) THEN rangesFile ELSE ranges
  /\ Ends(TRUE)
  /\ UNCHANGED <<remote, works, rangesFile, updateOk, fileVars>>

(* Classifier.Reload: both slices are swapped under the lock, or neither. *)
ReloadList ==
  /\ upc = "reload"
  /\ IF NewSucceeds(rangesFile)
     THEN ranges' = rangesFile /\ Ends(TRUE)
     ELSE Ends(FALSE) /\ UNCHANGED ranges
  /\ UNCHANGED <<remote, works, rangesFile, updateOk, fileVars>>

(* The metrics first, then the state file *)
RecordResult ==
  /\ upc = "record"
  /\ updateOk' = result
  /\ UGoto(IF HasState THEN "load" ELSE "wait")
  /\ result' = (HasState /\ result)
  /\ UNCHANGED <<remote, works, rangesFile, ranges, tmp, fileVars>>

UpdaterLoads ==
  /\ upc = "load"
  /\ UpdateLoad("updater")
  /\ UGoto("save")
  /\ UNCHANGED <<remote, works, rangesFile, ranges, updateOk, tmp, result>>

UpdaterSets(st) == [st EXCEPT !.updated = result]

UpdaterSaves ==
  /\ upc = "save"
  /\ UpdateSave("updater", UpdaterSets(loaded["updater"]), UpdaterSets(saved))
  /\ UGoto("wait")
  /\ result' = FALSE
  /\ UNCHANGED <<remote, works, rangesFile, ranges, updateOk, tmp>>

Update ==
  \/ Download \/ CheckList \/ RenameList \/ ReloadList
  \/ RecordResult \/ UpdaterLoads \/ UpdaterSaves

(* The list is published anew, or the network or the disk changes. *)
Publish ==
  /\ \/ remote' \in Lists /\ UNCHANGED works
     \/ works' = ~works /\ UNCHANGED remote
  /\ UNCHANGED <<rangesFile, ranges, updateOk, upc, tmp, result, fileVars>>

UpdaterAfterExit ==
  /\ ranges' = NoList
  /\ updateOk' = FALSE
  /\ upc' = "wait" /\ tmp' = NoList /\ result' = FALSE
  /\ UNCHANGED <<remote, works, rangesFile>>

(* main loads the classifier, and gives up if it cannot.  LastUpdateSuccess *)
(* is restored from the state file; an updater, if one is configured, then *)
(* takes the file it finds for a successful update (scheduleFromMtime).    *)
UpdaterStarts(configured, st) ==
  /\ NewSucceeds(rangesFile)
  /\ ranges' = rangesFile
  /\ updateOk' = (configured \/ st.updated)
  /\ UNCHANGED <<remote, works, rangesFile, upc, tmp, result>>

-----------------------------------------------------------------------------
(* Properties *)

(* Between two updates, a success in the metrics means that the classifier *)
(* works with the list that is in the file, which is the one that a        *)
(* restart would load: no failure between rename and reload goes by as a   *)
(* success.                                                                *)
SuccessMeansLoaded == upc = "wait" /\ updateOk => ranges = rangesFile
=============================================================================

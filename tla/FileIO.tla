------------------------------- MODULE FileIO -------------------------------
(***************************************************************************)
(* LoadFile and SaveFile of src/file_io.cpp, and PathCreateFolder of       *)
(* src/path_posix.cpp, on one file: one thread loads it while another      *)
(* saves it, and any call of the system may fail.  The text modes are the  *)
(* binary ones, as on every POSIX system.                                  *)
(***************************************************************************)
EXTENDS Integers, Sequences

CONSTANTS
  Contents,     (* what is saved                                           *)
  Depths,       (* how many folders the path of the file may have          *)
  MaxFailures   (* bound: how many calls of the system fail                *)

NoFile == <<"no file">>
NoData == <<>>
NotYet == "not yet"

VARIABLES
  depth,        (* how many folders the path of the file has               *)
  folders,      (* how many of the folders exist, from the outermost on    *)
  file,         (* NoFile, or the contents                                 *)
  failures,     (* how many calls have failed                              *)
  load,         (* the load: its step, flag, len, data, result, and logs   *)
  save          (* the save: its step, flag, data, what is still in the    *)
                (* buffer of the file, errors, result, and logs            *)

vars == <<depth, folders, file, failures, load, save>>

Init ==
  /\ depth \in Depths
  /\ folders \in 0 .. depth
  /\ file = NoFile
  /\ failures = 0
  /\ load = [at |-> "idle", might_not_exist |-> FALSE, len |-> 0, data |-> NoData, good |-> NotYet,
             logged |-> 0, before |-> NoFile, alone |-> TRUE]
  /\ save = [at |-> "idle", create_folder |-> FALSE, level |-> 0, last |-> "none", data |-> NoData,
             buffer |-> NoData, bad |-> FALSE, good |-> NotYet, logged |-> 0, failed |-> FALSE,
             close_failed |-> FALSE]

Fails == failures < MaxFailures /\ failures' = failures + 1
Works == UNCHANGED failures

Prefix(s, n) == SubSeq(s, 1, IF n < Len(s) THEN n ELSE Len(s))

-----------------------------------------------------------------------------
(***************************************************************************)
(* LoadFile2: before and alone are what the file had when the load began,  *)
(* and whether no save has run since.                                      *)
(***************************************************************************)
BeginLoad(might_not_exist) ==
  /\ load.at = "idle"
  /\ load' = [at |-> "open", might_not_exist |-> might_not_exist, len |-> 0, data |-> <<"old">>,
              good |-> NotYet, logged |-> 0, before |-> file, alone |-> save.at = "idle"]
  /\ UNCHANGED <<depth, folders, file, failures, save>>

LoadError(ignored) ==
  load' = [load EXCEPT !.at = "failed", !.logged = IF ignored THEN @ ELSE @ + 1]

LoadOpens ==
  /\ load.at = "open"
  /\ \/ file # NoFile /\ Works /\ load' = [load EXCEPT !.at = "seek"]
     \/ file = NoFile /\ Works /\ LoadError(load.might_not_exist)
     \/ file # NoFile /\ Fails /\ LoadError(FALSE)
  /\ UNCHANGED <<depth, folders, file, save>>

(* Seek to the end, tell, and seek to the beginning.                       *)
LoadAsksSize ==
  /\ load.at = "seek"
  /\ \/ Works /\ load' = [load EXCEPT !.at = "read", !.len = Len(file)]
     \/ Fails /\ LoadError(FALSE)
  /\ UNCHANGED <<depth, folders, file, save>>

LoadReads ==
  /\ load.at = "read"
  /\ \/ Works /\ load' = [load EXCEPT !.at = "succeeded", !.data = Prefix(file, load.len)]
     \/ /\ Fails
        /\ \E n \in 0 .. load.len :
             load' = [load EXCEPT !.at = "failed", !.logged = @ + 1, !.data = Prefix(file, n)]
  /\ UNCHANGED <<depth, folders, file, save>>

\* Mutant: what a failed load had read stays.
LoadKeeps ==
  /\ load.at \in {"failed", "succeeded"}
  /\ load' = [load EXCEPT !.at = "idle", !.good = IF load.at = "succeeded" THEN "yes" ELSE "no"]
  /\ UNCHANGED <<depth, folders, file, failures, save>>

LoadDone ==
  /\ load.at \in {"failed", "succeeded"}
  /\ load' = [load EXCEPT !.at = "idle", !.good = IF load.at = "succeeded" THEN "yes" ELSE "no",
                          !.data = IF load.at = "succeeded" THEN @ ELSE NoData]
  /\ UNCHANGED <<depth, folders, file, failures, save>>

-----------------------------------------------------------------------------
BeginSave(data, create_folder) ==
  /\ save.at = "idle"
  /\ save' = [at |-> IF create_folder THEN "mkdir" ELSE "open", create_folder |-> create_folder,
              level |-> 0, last |-> "none", data |-> data, buffer |-> NoData, bad |-> FALSE,
              good |-> NotYet, logged |-> 0, failed |-> FALSE, close_failed |-> FALSE]
  /\ load' = [load EXCEPT !.alone = @ /\ load.at = "idle"]
  /\ UNCHANGED <<depth, folders, file, failures>>

(* mkdir of the next folder, whatever came of the one before.              *)
MakeFolder ==
  LET level == save.level + 1
  IN  /\ save.at = "mkdir"
      /\ level <= depth
      /\ \/ /\ level <= folders
            /\ Works
            /\ save' = [save EXCEPT !.level = level, !.last = "EEXIST"]
            /\ UNCHANGED folders
         \/ /\ level = folders + 1
            /\ Works
            /\ folders' = level
            /\ save' = [save EXCEPT !.level = level, !.last = "made"]
         \/ /\ level > folders + 1
            /\ Works
            /\ save' = [save EXCEPT !.level = level, !.last = "ENOENT"]
            /\ UNCHANGED folders
         \/ /\ Fails
            /\ \E error \in {"EPERM", "EACCES"} :
                 save' = [save EXCEPT !.level = level, !.last = error, !.failed = TRUE]
            /\ UNCHANGED folders
  /\ UNCHANGED <<depth, file, load>>

SaveError == [save EXCEPT !.at = "idle", !.good = "no", !.logged = @ + 1]

(* The result of the last mkdir counts, and two errors of it do not.       *)
CreatedFolder ==
  /\ save.at = "mkdir"
  /\ save.level = depth
  /\ save' = IF save.last \in {"made", "EEXIST", "EPERM"} THEN [save EXCEPT !.at = "open"] ELSE SaveError
  /\ UNCHANGED <<depth, folders, file, failures, load>>

(* fopen truncates the file, or makes it.                                  *)
SaveOpens ==
  /\ save.at = "open"
  /\ \/ folders = depth /\ Works /\ file' = NoData /\ save' = [save EXCEPT !.at = "write"]
     \/ folders < depth /\ Works /\ save' = SaveError /\ UNCHANGED file
     \/ Fails /\ save' = [SaveError EXCEPT !.failed = TRUE] /\ UNCHANGED file
  /\ UNCHANGED <<depth, folders, load>>

(* fwrite writes some of it, and keeps the rest in the buffer of the file. *)
SaveWrites ==
  /\ save.at = "write"
  /\ \E n \in 0 .. Len(save.data) :
       /\ file' = Prefix(save.data, n)
       /\ \/ Works /\ save' = [save EXCEPT !.at = "close", !.buffer = SubSeq(save.data, n + 1, Len(save.data))]
          \/ n < Len(save.data) /\ Fails /\ save' = [save EXCEPT !.at = "close", !.bad = TRUE, !.failed = TRUE]
  /\ UNCHANGED <<depth, folders, load>>

(* fclose writes what is in the buffer; its result is not looked at.       *)
SaveCloses ==
  /\ save.at = "close"
  /\ LET result == IF save.bad THEN SaveError ELSE [save EXCEPT !.at = "idle", !.good = "yes"]
     IN  \/ /\ Works
            /\ file' = file \o save.buffer
            /\ save' = [result EXCEPT !.buffer = NoData]
         \/ /\ save.buffer # NoData
            /\ Fails
            /\ save' = [result EXCEPT !.buffer = NoData, !.close_failed = TRUE]
            /\ UNCHANGED file
  /\ UNCHANGED <<depth, folders, load>>

Next ==
  \/ \E flag \in BOOLEAN : BeginLoad(flag) \/ \E data \in Contents : BeginSave(data, flag)
  \/ LoadOpens \/ LoadAsksSize \/ LoadReads \/ LoadDone
  \/ MakeFolder \/ CreatedFolder \/ SaveOpens \/ SaveWrites \/ SaveCloses

Spec == Init /\ [][Next]_vars

-----------------------------------------------------------------------------
TypeOK ==
  /\ folders \in 0 .. depth
  /\ file \in {NoFile} \union UNION {{Prefix(c, n) : n \in 0 .. Len(c)} : c \in Contents}
  /\ load.at \in {"idle", "open", "seek", "read", "failed", "succeeded"}
  /\ save.at \in {"idle", "mkdir", "open", "write", "close"}

(* A load that succeeds has the whole file, unless a save ran meanwhile    *)
(* (the size is asked before the file is read, file_io.cpp:138); one that  *)
(* fails leaves no data, and is reported, unless the file was not there    *)
(* and need not be.                                                        *)
LoadTells ==
  load.at = "idle" =>
    /\ load.good = "yes" /\ load.alone => load.data = load.before
    /\ load.good = "no" => load.data = NoData /\ load.logged \in {0, 1}
    /\ load.good = "no" /\ load.logged = 0 => load.might_not_exist

(* A save that succeeds has written the data, unless the close failed      *)
(* (file_io.cpp:183); one that fails is reported, and some call of the     *)
(* system has failed or a folder was missing, or the path has no folder,   *)
(* which PathCreateFolder takes for a failure (path_posix.cpp:95).         *)
SaveTells ==
  save.at = "idle" =>
    /\ save.good = "yes" => (file = save.data \/ save.close_failed) /\ save.logged = 0
    /\ save.good = "no" => /\ save.logged = 1
                           /\ \/ save.failed
                              \/ ~save.create_folder /\ folders < depth
                              \/ save.create_folder /\ depth = 0

NoFalseSuccess == TypeOK /\ LoadTells /\ SaveTells
=============================================================================

---------------------------- MODULE MCSharedFile ----------------------------
(***************************************************************************)
(* Instances of SharedFile for TLC: what the users do to the file.         *)
(***************************************************************************)
EXTENDS SharedFile, TLC

(* The statements of the procedure language.                               *)
RecordOps == {"find", "update", "append", "deletekey", "reset"}

(* What breaks a file: see the README.                                     *)
LostOps   == {"find", "append", "save", "close"}

NoHold    == {}
ReadMode  == {RdMode}

Symmetry == Permutations(Keys)
=============================================================================

---------------------------- MODULE MCUploadQueue ----------------------------
(* Small instances of UploadQueue for TLC.                                 *)
EXTENDS UploadQueue, TLC

CONSTANTS t1, t2

TaskSymmetry == Permutations(Tasks)
=============================================================================

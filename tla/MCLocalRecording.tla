-------------------------- MODULE MCLocalRecording --------------------------
(* Small instances of LocalRecording for TLC.                              *)
EXTENDS LocalRecording

(* Two of presses and trouble in all, and a second recording is followed   *)
(* where no button of the list is used.                                    *)
Followed ==
  /\ ghost.presses + ghost.trouble <= 2
  /\ ghost.made <= 1 \/ ghost.presses = 0
=============================================================================

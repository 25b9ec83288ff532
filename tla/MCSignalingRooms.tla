-------------------------- MODULE MCSignalingRooms --------------------------
(* Small instances of SignalingRooms for TLC: one room object more than    *)
(* connections, so that a new room is always a fresh one.                  *)
EXTENDS SignalingRooms

CONSTANTS h1, h2, g1, g2, r1, r2, r3, r4
=============================================================================

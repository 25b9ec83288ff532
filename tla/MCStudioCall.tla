---------------------------- MODULE MCStudioCall ----------------------------
(* StudioCall for TLC: two pages, counted presses and disturbances.        *)
EXTENDS StudioCall
=============================================================================

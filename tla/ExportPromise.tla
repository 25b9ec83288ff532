--------------------------- MODULE ExportPromise ---------------------------
(***************************************************************************)
(* What the export worker promises about the export of one recording to    *)
(* the browser that asks for it, with the steps of its handlers and jobs,  *)
(* their attempts and their failures left out:                             *)
(*  - it writes of a request only while it works on it, although what it   *)
(*    writes may replace what another request has come to since: an export *)
(*    that was ready may be processed again, or have failed;               *)
(*  - it says ready of a request only once a file was made for it, and a   *)
(*    file, once made, stays.                                              *)
(***************************************************************************)
CONSTANTS
  Requests,   \* what a POST may ask for
  None        \* no request

VARIABLES
  status,     \* "none" while there is no export, or what it says
  request,    \* the request it is of
  asked,      \* the requests the worker still works on
  made        \* those a file was made for

vars == <<status, request, asked, made>>

Init == status = "none" /\ request = None /\ asked = {} /\ made = {}

Ask(r) ==
  /\ asked' = asked \cup {r}
  /\ UNCHANGED <<status, request, made>>

\* A POST that starts nothing is answered; a request is dropped or is lost.
GiveUp ==
  /\ asked' \in SUBSET asked
  /\ UNCHANGED <<status, request, made>>

Make(r) ==
  /\ r \in asked
  /\ made' = made \cup {r}
  /\ UNCHANGED <<status, request, asked>>

\* The write of a POST or of a job, which may be the last act of either.
Write(r, s) ==
  /\ r \in asked
  /\ made' \in {made, made \cup {r}}
  /\ s = "ready" => r \in made'
  /\ status' = s
  /\ request' = r
  /\ asked' \in SUBSET asked

Next ==
  \/ GiveUp
  \/ \E r \in Requests :
       \/ Ask(r) \/ Make(r)
       \/ \E s \in {"processing", "ready", "failed"} : Write(r, s)

Spec == Init /\ [][Next]_vars
=============================================================================

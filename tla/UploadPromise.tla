--------------------------- MODULE UploadPromise ---------------------------
(***************************************************************************)
(* What the upload service promises about one session to those who read it *)
(* (the browser asking for status, the export worker), with the requests,  *)
(* their interleavings and their failures left out:                        *)
(*  - a chunk, once stored, stays stored; where clients disagree about its *)
(*    bytes, others may replace them;                                      *)
(*  - the manifest only ever lists stored chunks, though it may list fewer *)
(*    than it did (a slow request writes an old record back);              *)
(*  - it says the upload is final only while it lists every chunk;         *)
(*  - what it records of a chunk is exact, unless clients disagree about it*)
(***************************************************************************)
CONSTANTS
  Chunks,
  Agreed   \* the indexes every client sends with the same bytes

VARIABLES
  stored,   \* the indexes whose object exists
  listed,   \* the indexes the manifest confirms
  exact,    \* those it confirms with one byte count, and with the checksum
            \* of the stored object
  phase     \* "absent", "open", "canceled" or "final"

vars == <<stored, listed, exact, phase>>

TypeOK ==
  /\ stored \in SUBSET Chunks
  /\ listed \in SUBSET stored
  /\ exact \in SUBSET listed
  /\ listed \cap Agreed \subseteq exact
  /\ phase \in {"absent", "open", "canceled", "final"}

Init == stored = {} /\ listed = {} /\ exact = {} /\ phase = "absent"

Open ==
  /\ phase = "absent"
  /\ phase' = "open"
  /\ UNCHANGED <<stored, listed, exact>>

Store ==
  /\ phase # "absent"
  /\ \E i \in Chunks \ stored : stored' = stored \cup {i}
  /\ UNCHANGED <<listed, exact, phase>>

\* A request that found no object stores its own after another one did.
Overwrite ==
  /\ \E i \in stored \ Agreed :
       exact' \in {exact \ {i}, exact \cup ({i} \cap listed)}
  /\ UNCHANGED <<stored, listed, phase>>

Publish ==
  /\ phase # "absent"
  /\ listed' \in SUBSET stored
  /\ exact' \in SUBSET listed'
  /\ listed' \cap Agreed \subseteq exact'
  /\ phase' \in {"open", "canceled", "final"}
  /\ phase' = "final" => listed' = Chunks
  /\ UNCHANGED stored

Next == Open \/ Store \/ Overwrite \/ Publish

Spec == Init /\ [][Next]_vars
=============================================================================

---------------------------- MODULE RecordingStore ----------------------------
(***************************************************************************)
(* The browser's IndexedDB of local recordings (recordingPersistence.ts)   *)
(* as the recorder uses it: one store of manifests, one of chunks.         *)
(*                                                                         *)
(* A manifest is its status and its number of chunk entries; a chunk is    *)
(* its index.  Chunk records are keyed by recording and index, so a save   *)
(* replaces nothing but itself.  Every operation is one transaction, which *)
(* IndexedDB executes whole, in the order of the calls; a blob is built    *)
(* from two transactions, and its two reads are separate operators here.   *)
(***************************************************************************)
EXTENDS Naturals, FiniteSets

CONSTANTS
  MaxRecordings,  \* recordings ever started in this browser
  MaxChunks,      \* chunk entries of a manifest
  None

ASSUME RecordingAssumption ==
  /\ MaxRecordings \in Nat \ {0}
  /\ MaxChunks \in Nat \ {0}

Recordings == 1 .. MaxRecordings

Indexes(n) == 0 .. n - 1

-----------------------------------------------------------------------------
(* The manifest (recordingManifest.ts): it is appended to, and its status  *)
(* is set whatever it was.                                                 *)

ManifestStatuses == {"recording", "stopping", "stopped", "failed"}

Manifest == [status : ManifestStatuses, n : 0 .. MaxChunks]

ASSUME NoneAssumption == None \notin Manifest \cup {"healthy", "warning", "unknown"}

createLocalRecordingManifest == [status |-> "recording", n |-> 0]

appendChunkEntry(m) == [m EXCEPT !.n = @ + 1]

transitionManifestStatus(m, status) == [m EXCEPT !.status = status]

finalizeManifest(m) == [m EXCEPT !.status = "stopped"]

markManifestFailed(m) == [m EXCEPT !.status = "failed"]

-----------------------------------------------------------------------------
Entry == [manifest : Manifest \cup {None}, chunks : SUBSET Indexes(MaxChunks)]

NoEntry == [manifest |-> None, chunks |-> {}]

saveManifest(disk, r, m) == [disk EXCEPT ![r].manifest = m]

saveChunk(disk, r, i) == [disk EXCEPT ![r].chunks = @ \cup {i}]

\* Mutant of deleteRecordings: the transaction clears the chunks only.
deleteChunksOnly(disk, gone) ==
  [r \in Recordings |-> IF r \in gone THEN [disk[r] EXCEPT !.chunks = {}] ELSE disk[r]]

(* One recording or all of them, manifests and chunks in one transaction.  *)
deleteRecordings(disk, gone) ==
  [r \in Recordings |-> IF r \in gone THEN NoEntry ELSE disk[r]]

Stored(disk) == {r \in Recordings : disk[r].manifest # None}

(* What the panel's list shows: the records of the first store.            *)
listRecordings(disk) == [r \in Recordings |-> disk[r].manifest]

(* The totals are those of the manifests, not of the chunks that are there. *)
storageSummary(disk) ==
  [recordings |-> Cardinality(Stored(disk)),
   chunks |-> LET Entries == UNION {{r} \X Indexes(disk[r].manifest.n) :
                                      r \in Stored(disk)}
              IN Cardinality(Entries)]

\* Mutant of matchesManifest: what is stored is only looked at for gaps.
isGapless(entry) == entry.chunks = Indexes(Cardinality(entry.chunks))

(* The report has equal counts and no warning only if the stored chunks are*)
(* exactly the ones the manifest lists: it looks for missing, unexpected   *)
(* and duplicated ones.                                                    *)
matchesManifest(entry) == entry.chunks = Indexes(entry.manifest.n)

integrityStatus(entry) ==
  IF entry.manifest = None THEN "unknown"
  ELSE IF matchesManifest(entry) THEN "healthy" ELSE "warning"
=============================================================================

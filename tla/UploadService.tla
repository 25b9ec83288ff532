--------------------------- MODULE UploadService ---------------------------
(***************************************************************************)
(* The Rust upload service (services/upload) over its S3 backend, for one  *)
(* upload session.  An upload id is generated by the service and both the  *)
(* manifest key and the chunk keys contain it, so sessions do not interact *)
(* and one is enough.                                                      *)
(*                                                                         *)
(* Nothing in the service is locked: a request is an async function that   *)
(* reads the whole manifest, changes its private copy, and writes the whole*)
(* manifest back, with an S3 call at every await.  Each await is a step of *)
(* its own here, so requests interleave between any two of them, and a     *)
(* request may stop at any of them (S3 error, client gone, process killed) *)
(* leaving behind what it already wrote.                                   *)
(***************************************************************************)
EXTENDS Naturals, FiniteSets, Functions

CONSTANTS
  Handlers,     \* the requests that can be in progress at the same time
  Chunks,       \* chunk indexes 0 .. expected_chunk_count - 1
  TotalBytes,   \* total_bytes of the create request
  Offers,       \* the chunk requests clients may send
  None          \* an absent option, object or record

ASSUME ChunksAssumption ==
  IsFiniteSet(Chunks) /\ Chunks # {}

\* validate_create_request and validate_chunk_request refuse zero sizes
\* before anything is read, so every offer has a body and declares a total.
ASSUME OffersAssumption ==
  /\ TotalBytes \in Nat \ {0}
  /\ \A o \in Offers : /\ DOMAIN o = {"index", "size", "sum", "total"}
                       /\ o.size \in Nat \ {0}
                       /\ o.total \in Nat \ {0}
                       /\ o.sum # None

Sums  == {o.sum : o \in Offers}
Sizes == {o.size : o \in Offers} \cup {0}

Statuses      == {"ready", "uploading", "incomplete", "uploaded", "canceled"}
ChunkStatuses == {"pending", "uploaded", "already_present", "rejected"}

Payload     == [size : Sizes, sum : Sums]
ChunkRecord == [status   : ChunkStatuses,
                expected : Sizes,
                uploaded : Sizes,
                sum      : Sums \cup {None}]
ByteTotals  == {SumFunction(f) : f \in [Chunks -> Sizes]}
Record      == [status    : Statuses,
                bytes     : ByteTotals,
                counted   : SUBSET Chunks,
                completed : BOOLEAN,
                chunks    : [Chunks -> ChunkRecord]]

Answers == {"none", "uploaded", "already_present", "rejected",
            "complete", "incomplete", "canceled", "error"}
Places  == {"idle", "loadChunk", "head", "put", "loadComplete", "loadCancel",
            "save"}

ASSUME NoneAssumption ==
  /\ None \notin Record
  /\ None \notin Payload
  /\ None \notin Offers

VARIABLES
  manifest,   \* manifest.json in S3, None before create_upload saved it
  objects,    \* the chunk objects in S3, by index
  handlers    \* per request: where it is, its input, its record, its answer

vars == <<manifest, objects, handlers>>

-----------------------------------------------------------------------------
(* The session record and its methods (model.rs)                           *)

Confirmed(rec, i) == rec.chunks[i].status \in {"uploaded", "already_present"}

MissingChunks(rec)  == {i \in Chunks : ~Confirmed(rec, i)}
RejectedChunks(rec) == {i \in Chunks : rec.chunks[i].status = "rejected"}

UploadedBytesTotal(rec) ==
  SumFunction([i \in Chunks |->
                 IF Confirmed(rec, i) THEN rec.chunks[i].uploaded ELSE 0])

NewRecord ==
  [status    |-> "ready",
   bytes     |-> SumFunction([i \in Chunks |-> 0]),
   counted   |-> {},
   completed |-> FALSE,
   chunks    |-> [i \in Chunks |-> [status   |-> "pending",
                                    expected |-> 0,
                                    uploaded |-> 0,
                                    sum      |-> None]]]

(* The counters are fields of their own: they are only right again after   *)
(* the method that changed a chunk has recomputed them.  counted is the set*)
(* uploaded_chunk_count counted.                                           *)
Recounted(rec) ==
  [rec EXCEPT !.bytes = UploadedBytesTotal(rec),
              !.counted = Chunks \ MissingChunks(rec)]

\* Mutant of LargerOf: expected_bytes accumulates over repeated uploads.
SummedSize(a, b) == a + b

LargerOf(a, b) == IF a >= b THEN a ELSE b

\* Mutant of AcceptChunk: the counters are not recomputed.
AcceptUncounted(rec, i, size, sum, status) ==
  [rec EXCEPT
    !.status = "uploading",
    !.chunks[i] = [status   |-> status,
                   expected |-> LargerOf(rec.chunks[i].expected, size),
                   uploaded |-> size,
                   sum      |-> sum]]

AcceptChunk(rec, i, size, sum, status) ==
  Recounted([rec EXCEPT
    !.status = "uploading",
    !.chunks[i] = [status   |-> status,
                   expected |-> LargerOf(rec.chunks[i].expected, size),
                   uploaded |-> size,
                   sum      |-> sum]])

\* Mutant of RejectChunk: the session keeps its status.
RejectQuietly(rec, i) == [rec EXCEPT !.chunks[i].status = "rejected"]

(* Rejecting keeps the chunk's bytes and checksum and both counters.       *)
RejectChunk(rec, i) ==
  [rec EXCEPT !.status = "incomplete", !.chunks[i].status = "rejected"]

ApplyChunk(rec, i, size, sum) ==
  IF rec.chunks[i].sum \notin {None, sum}
  THEN RejectChunk(rec, i)
  ELSE IF /\ Confirmed(rec, i)
          /\ rec.chunks[i].uploaded = size
          /\ rec.chunks[i].sum = sum
       THEN Recounted([rec EXCEPT !.status = "uploading",
                                  !.chunks[i].status = "already_present"])
       ELSE AcceptChunk(rec, i, size, sum, "uploaded")

IsComplete(rec) ==
  /\ MissingChunks(rec) = {}
  /\ RejectedChunks(rec) = {}
  /\ rec.bytes = TotalBytes

\* Mutant of CompleteRecord: finalizes unless a chunk was rejected.
CompleteUnlessRejected(rec) ==
  [rec EXCEPT !.completed = RejectedChunks(rec) = {},
              !.status = IF RejectedChunks(rec) = {}
                         THEN "uploaded" ELSE "incomplete"]

CompleteRecord(rec) ==
  [rec EXCEPT !.completed = IsComplete(rec),
              !.status = IF IsComplete(rec) THEN "uploaded" ELSE "incomplete"]

CancelRecord(rec) == [rec EXCEPT !.status = "canceled", !.completed = FALSE]

-----------------------------------------------------------------------------
(* The handlers of the S3 repository (storage.rs)                          *)

Idle(req, resp) == [pc |-> "idle", req |-> req, rec |-> None, resp |-> resp]

Init ==
  /\ manifest = None
  /\ objects  = [i \in Chunks |-> None]
  /\ handlers = [h \in Handlers |-> Idle(None, "none")]

(* create_upload: clients learn the upload id from its answer, so no other *)
(* request of the session precedes the save.                               *)
CreateUpload ==
  /\ manifest = None
  /\ manifest' = NewRecord
  /\ UNCHANGED <<objects, handlers>>

Receive(h, pc, req) ==
  /\ manifest # None
  /\ handlers[h].pc = "idle"
  /\ handlers' = [handlers EXCEPT ![h] =
                    [pc |-> pc, req |-> req, rec |-> None, resp |-> "none"]]
  /\ UNCHANGED <<manifest, objects>>

ReceiveChunk(h)    == \E o \in Offers : Receive(h, "loadChunk", o)
ReceiveComplete(h) == Receive(h, "loadComplete", None)
ReceiveCancel(h)   == Receive(h, "loadCancel", None)

(* Continue request h at pc with its copy of the record and the answer it  *)
(* will give once that copy is saved.                                      *)
Goto(h, pc, rec, resp) ==
  handlers' = [handlers EXCEPT ![h] =
                 [pc |-> pc, req |-> @.req, rec |-> rec, resp |-> resp]]

Refuse(h) == handlers' = [handlers EXCEPT ![h] = Idle(@.req, "error")]

MayUpload(rec, req) ==
  /\ rec.status # "canceled"
  /\ req.total = TotalBytes
  /\ req.index \in Chunks

LoadChunk(h) ==
  /\ handlers[h].pc = "loadChunk"
  /\ UNCHANGED <<manifest, objects>>
  /\ \/ /\ MayUpload(manifest, handlers[h].req)
        /\ Goto(h, "head", manifest, "none")
     \/ /\ ~MayUpload(manifest, handlers[h].req)
        /\ Refuse(h)

HeadMatches(object, req) == object.size = req.size /\ object.sum = req.sum

(* head_chunk and what follows it up to the next await: the object of the  *)
(* index is absent, is the one being sent, or is another one.              *)
HeadChunk(h) ==
  LET req == handlers[h].req
      rec == handlers[h].rec
      i   == req.index
  IN /\ handlers[h].pc = "head"
     /\ UNCHANGED <<manifest, objects>>
     /\ \/ /\ objects[i] = None
           /\ Goto(h, "put", rec, "none")
        \/ /\ objects[i] # None
           /\ HeadMatches(objects[i], req)
           /\ Goto(h, "save",
                   AcceptChunk(rec, i, req.size, req.sum, "already_present"),
                   "already_present")
        \/ /\ objects[i] # None
           /\ ~HeadMatches(objects[i], req)
           /\ Goto(h, "save", RejectChunk(rec, i), "rejected")

\* Mutant of PutChunk: a failed put_object is not returned as an error.
PutChunkUnchecked(h) ==
  LET req == handlers[h].req
      rec == ApplyChunk(handlers[h].rec, req.index, req.size, req.sum)
  IN /\ handlers[h].pc = "put"
     /\ objects' \in {objects, [objects EXCEPT ![req.index] =
                                 [size |-> req.size, sum |-> req.sum]]}
     /\ Goto(h, "save", rec, rec.chunks[req.index].status)
     /\ UNCHANGED manifest

PutChunk(h) ==
  LET req == handlers[h].req
      rec == ApplyChunk(handlers[h].rec, req.index, req.size, req.sum)
  IN /\ handlers[h].pc = "put"
     /\ objects' = [objects EXCEPT ![req.index] =
                      [size |-> req.size, sum |-> req.sum]]
     /\ Goto(h, "save", rec, rec.chunks[req.index].status)
     /\ UNCHANGED manifest

LoadComplete(h) ==
  /\ handlers[h].pc = "loadComplete"
  /\ Goto(h, "save", CompleteRecord(manifest),
          IF IsComplete(manifest) THEN "complete" ELSE "incomplete")
  /\ UNCHANGED <<manifest, objects>>

LoadCancel(h) ==
  /\ handlers[h].pc = "loadCancel"
  /\ Goto(h, "save", CancelRecord(manifest), "canceled")
  /\ UNCHANGED <<manifest, objects>>

(* save_manifest is the last await of every handler: the whole record is   *)
(* written, whatever the manifest has become since it was loaded.          *)
SaveManifest(h) ==
  /\ handlers[h].pc = "save"
  /\ manifest' = handlers[h].rec
  /\ handlers' = [handlers EXCEPT ![h] = Idle(@.req, @.resp)]
  /\ UNCHANGED objects

(* An S3 call fails, the client disconnects (axum drops the future) or the *)
(* process is killed: the request ends where it is and keeps what it wrote.*)
Abandon(h) ==
  /\ handlers[h].pc # "idle"
  /\ Refuse(h)
  /\ UNCHANGED <<manifest, objects>>

HandlerStep(h) ==
  \/ LoadChunk(h)
  \/ HeadChunk(h)
  \/ PutChunk(h)
  \/ LoadComplete(h)
  \/ LoadCancel(h)
  \/ SaveManifest(h)

Next ==
  \/ CreateUpload
  \/ \E h \in Handlers :
       \/ ReceiveChunk(h)
       \/ ReceiveComplete(h)
       \/ ReceiveCancel(h)
       \/ HandlerStep(h)
       \/ Abandon(h)

Spec == Init /\ [][Next]_vars

(* The runtime polls every ready future and S3 answers or fails: a request *)
(* in progress does not stay at an await.  Clients owe nothing.            *)
FairSpec == Spec /\ \A h \in Handlers : WF_vars(HandlerStep(h))

-----------------------------------------------------------------------------
(* Properties                                                              *)

\* A request in the service, or the last one a slot answered.
Request == [pc   : Places,
            req  : Offers \cup {None},
            rec  : Record \cup {None},
            resp : Answers]

TypeOK ==
  /\ manifest \in Record \cup {None}
  /\ objects  \in [Chunks -> Payload \cup {None}]
  /\ handlers \in [Handlers -> Request]

(* Clients always send the same bytes for an index (the browser does: the  *)
(* local chunk is immutable once recorded).                                *)
Settled(i) ==
  \A a, b \in Offers : a.index = i /\ b.index = i =>
                         a.size = b.size /\ a.sum = b.sum

(* What a record says it has of chunk i is really in S3; the same bytes    *)
(* when the index is settled.                                              *)
Backed(objs, rec, i) ==
  Confirmed(rec, i) =>
    /\ objs[i] # None
    /\ rec.chunks[i].sum # None
    /\ Settled(i) => /\ objs[i].size = rec.chunks[i].uploaded
                     /\ objs[i].sum  = rec.chunks[i].sum
                     /\ rec.chunks[i].expected = rec.chunks[i].uploaded

(* Every chunk the manifest lists as uploaded is stored in S3, whatever    *)
(* stale record was last written over it: upload_chunk stores the object   *)
(* before it writes the manifest, and nothing deletes objects.             *)
ManifestIsBacked ==
  manifest # None => \A i \in Chunks : Backed(objects, manifest, i)

(* A client that was told "uploaded" or "already_present" can rely on the  *)
(* chunk being stored, even if the manifest forgets it later.              *)
AcceptedIsDurable ==
  \A h \in Handlers :
    handlers[h].pc = "idle"
    /\ handlers[h].resp \in {"uploaded", "already_present"} =>
         LET req == handlers[h].req
         IN /\ objects[req.index] # None
            /\ Settled(req.index) => HeadMatches(objects[req.index], req)

(* A manifest that says "uploaded", the condition under which the export   *)
(* worker reads it, is whole: every chunk confirmed, their bytes add up to *)
(* the declared total, and with settled clients the stored objects are the *)
(* recorded ones, so that the rebuilt file has total_bytes bytes.          *)
FinalizedIsWhole ==
  manifest # None /\ manifest.status = "uploaded" =>
    /\ manifest.completed
    /\ MissingChunks(manifest) = {}
    /\ UploadedBytesTotal(manifest) = TotalBytes
    /\ \A i \in Chunks : Backed(objects, manifest, i)

(* The stored counters may be stale only while a chunk is rejected: then   *)
(* complete answers "incomplete" anyway, so a stale uploaded_bytes never   *)
(* finalizes an upload.                                                    *)
CountersExactUnlessRejected ==
  manifest # None /\ RejectedChunks(manifest) = {} =>
    /\ manifest.bytes = UploadedBytesTotal(manifest)
    /\ manifest.counted = Chunks \ MissingChunks(manifest)

(* Once head_chunk found no object, the record the request loaded before   *)
(* knows no checksum for the index: apply_chunk never rejects after        *)
(* put_chunk has already replaced the object it defends.                   *)
PutNeverRejects ==
  \A h \in Handlers :
    handlers[h].pc = "put" =>
      handlers[h].rec.chunks[handlers[h].req.index].sum = None

(* The service implements UploadPromise: the objects are the stored chunks *)
(* and the manifest is what is published; where clients agree on a chunk,  *)
(* what it records of the chunk is what is stored.                         *)
Stored == {i \in Chunks : objects[i] # None}

Listed == IF manifest = None THEN {} ELSE Chunks \ MissingChunks(manifest)

Phase ==
  IF manifest = None THEN "absent"
  ELSE IF manifest.status = "uploaded" THEN "final"
  ELSE IF manifest.status = "canceled" THEN "canceled"
  ELSE "open"

(* The chunks of the manifest the export worker can use: one byte count,   *)
(* and the checksum of the object stored now.                              *)
Exact ==
  {i \in Listed :
     LET chunk == manifest.chunks[i]
     IN /\ objects[i] # None
        /\ chunk.expected # 0
        /\ chunk.expected = chunk.uploaded
        /\ objects[i].sum = chunk.sum}

Promise == INSTANCE UploadPromise
             WITH stored <- Stored, listed <- Listed, exact <- Exact,
                  phase <- Phase, Agreed <- {i \in Chunks : Settled(i)}

ImplementsPromise == Promise!Spec

(* Violated.  A refresh resumes "from the last confirmed chunk"            *)
(* (docs/contracts/recording-upload-api.md:15), so a confirmed chunk of a  *)
(* settled upload would have to stay confirmed; a request that loaded the  *)
(* manifest before the confirmation writes it back without.                *)
ConfirmedStaysConfirmed ==
  [][\A i \in Chunks :
       manifest # None /\ Confirmed(manifest, i) => Confirmed(manifest', i)]_vars
=============================================================================

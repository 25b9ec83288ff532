------------------------ MODULE UploadServiceProofs ------------------------
(***************************************************************************)
(* Proofs about UploadService for any number of concurrent requests, any   *)
(* finite set of chunks and any offers.  The inductive invariant says of   *)
(* every copy of the session record, the manifest and the private copies of*)
(* the requests, what ManifestIsBacked says of the manifest: a request may *)
(* write an old copy back, but never one that lists a chunk S3 lacks.      *)
(***************************************************************************)
EXTENDS UploadService, TLAPS

(* Everything a copy of the record may claim, given the stored objects.    *)
Sound(objs, rec) ==
  /\ \A i \in Chunks : Backed(objs, rec, i)
  /\ \A i \in Chunks : rec.chunks[i].sum # None => objs[i] # None
  /\ \A i \in Chunks :
       Settled(i) /\ rec.chunks[i].expected # 0 =>
         objs[i] # None /\ objs[i].size = rec.chunks[i].expected
  /\ RejectedChunks(rec) = {} =>
       /\ rec.bytes = UploadedBytesTotal(rec)
       /\ rec.counted = Chunks \ MissingChunks(rec)
  /\ rec.status = "uploaded" =>
       /\ rec.completed
       /\ MissingChunks(rec) = {}
       /\ RejectedChunks(rec) = {}
       /\ rec.bytes = TotalBytes

(* Objects are never deleted, and only replaced where clients disagree.    *)
Grows(objs, later) ==
  \A i \in Chunks :
    objs[i] # None => /\ later[i] # None
                      /\ Settled(i) => later[i] = objs[i]

(* Every stored object is one a client offered for its index.              *)
FromOffers(objs) ==
  \A i \in Chunks :
    objs[i] # None => \E o \in Offers : /\ o.index = i
                                        /\ objs[i].size = o.size
                                        /\ objs[i].sum = o.sum

RequestOK(objs, man, r) ==
  /\ r.pc # "idle" => man # None
  /\ r.pc \in {"head", "put", "save"} => r.rec # None /\ Sound(objs, r.rec)
  /\ r.pc \in {"loadChunk", "head", "put"} => r.req # None
  /\ r.pc \in {"head", "put"} => r.req.index \in Chunks
  /\ r.pc = "put" => r.rec.chunks[r.req.index].sum = None
  /\ r.pc \in {"idle", "save"} /\ r.resp \in {"uploaded", "already_present"} =>
       /\ r.req # None
       /\ r.req.index \in Chunks
       /\ objs[r.req.index] # None
       /\ Settled(r.req.index) => HeadMatches(objs[r.req.index], r.req)

IInv ==
  /\ TypeOK
  /\ FromOffers(objects)
  /\ manifest # None => Sound(objects, manifest)
  /\ \A h \in Handlers : RequestOK(objects, manifest, handlers[h])

-----------------------------------------------------------------------------
(* Lemmas about the record methods                                         *)

(* The counted bytes are one of the totals a record can hold, and depend on*)
(* nothing but the chunks of the record.                                   *)
LEMMA BytesOfChunks ==
  ASSUME NEW rec, NEW other, rec.chunks \in [Chunks -> ChunkRecord],
         other.chunks = rec.chunks
  PROVE  /\ UploadedBytesTotal(rec) \in ByteTotals
         /\ UploadedBytesTotal(other) = UploadedBytesTotal(rec)
         /\ MissingChunks(other) = MissingChunks(rec)
         /\ RejectedChunks(other) = RejectedChunks(rec)
<1> DEFINE f == [i \in Chunks |->
                   IF Confirmed(rec, i) THEN rec.chunks[i].uploaded ELSE 0]
<1>1. f \in [Chunks -> Sizes]
  BY DEF ChunkRecord, Sizes
<1>2. UploadedBytesTotal(rec) = SumFunction(f)
  BY DEF UploadedBytesTotal
<1>3. UploadedBytesTotal(rec) \in ByteTotals
  <2> HIDE DEF f
  <2> QED BY <1>1, <1>2 DEF ByteTotals
<1>4. \A i \in Chunks : Confirmed(other, i) <=> Confirmed(rec, i)
  BY DEF Confirmed
<1>5. [i \in Chunks |-> IF Confirmed(other, i) THEN other.chunks[i].uploaded
                                              ELSE 0] = f
  BY <1>4
<1>6. UploadedBytesTotal(other) = UploadedBytesTotal(rec)
  BY <1>2, <1>5 DEF UploadedBytesTotal
<1> QED BY <1>3, <1>4, <1>6 DEF MissingChunks, RejectedChunks

(* upload_session_record::new starts empty and sound.                      *)
LEMMA NewRecordSound ==
  ASSUME NEW objs
  PROVE  NewRecord \in Record /\ Sound(objs, NewRecord)
<1> DEFINE zero == [i \in Chunks |-> 0]
<1>1. zero \in [Chunks -> Sizes]
  BY DEF Sizes
<1>2. SumFunction(zero) \in ByteTotals
  <2> HIDE DEF zero
  <2> QED BY <1>1 DEF ByteTotals
<1>3. NewRecord \in Record
  BY <1>2 DEF NewRecord, Record, ChunkRecord, Statuses, ChunkStatuses, Sizes
<1>4. /\ NewRecord.status = "ready"
      /\ NewRecord.counted = {}
      /\ NewRecord.bytes = SumFunction(zero)
      /\ \A i \in Chunks : /\ NewRecord.chunks[i].status = "pending"
                           /\ NewRecord.chunks[i].expected = 0
                           /\ NewRecord.chunks[i].sum = None
  BY DEF NewRecord
<1>5. \A i \in Chunks : ~Confirmed(NewRecord, i)
  BY <1>4 DEF Confirmed
<1>6. MissingChunks(NewRecord) = Chunks
  BY <1>5 DEF MissingChunks
<1>7. UploadedBytesTotal(NewRecord) = SumFunction(zero)
  <2>1. [i \in Chunks |-> IF Confirmed(NewRecord, i)
                          THEN NewRecord.chunks[i].uploaded ELSE 0] = zero
    BY <1>5
  <2> QED BY <2>1 DEF UploadedBytesTotal
<1> HIDE DEF zero
<1> QED BY <1>3, <1>4, <1>5, <1>6, <1>7 DEF Sound, Backed

(* Storing or confirming chunk i with what its object holds keeps a copy   *)
(* sound: the new bytes of the chunk are the object's, and the counters are*)
(* recomputed from the new chunks.                                         *)
LEMMA AcceptChunkSound ==
  ASSUME NEW objs, NEW rec \in Record, Sound(objs, rec),
         NEW i \in Chunks, NEW size \in Sizes, NEW sum \in Sums,
         NEW status \in {"uploaded", "already_present"},
         objs[i] # None,
         Settled(i) => objs[i].size = size /\ objs[i].sum = sum
  PROVE  LET r == AcceptChunk(rec, i, size, sum, status)
         IN /\ r \in Record
            /\ Sound(objs, r)
            /\ r.chunks[i].status = status
<1> DEFINE c == [status   |-> status,
                 expected |-> LargerOf(rec.chunks[i].expected, size),
                 uploaded |-> size,
                 sum      |-> sum]
           x == [rec EXCEPT !.status = "uploading", !.chunks[i] = c]
           r == AcceptChunk(rec, i, size, sum, status)
<1>1. sum # None
  BY OffersAssumption DEF Sums
<1>2. LargerOf(rec.chunks[i].expected, size) \in {rec.chunks[i].expected, size}
  BY DEF LargerOf
<1>3. c \in ChunkRecord
  BY <1>2 DEF ChunkRecord, ChunkStatuses, Record
<1>4. x.chunks = [rec.chunks EXCEPT ![i] = c] /\ x.chunks \in [Chunks -> ChunkRecord]
  <2> HIDE DEF c
  <2> QED BY <1>3 DEF Record
<1>5. r = [x EXCEPT !.bytes = UploadedBytesTotal(x),
                    !.counted = Chunks \ MissingChunks(x)]
  BY DEF AcceptChunk, Recounted
<1>6. x \in Record /\ x.status = "uploading"
  <2> HIDE DEF c
  <2> QED BY <1>3 DEF Record, Statuses
<1>7. UploadedBytesTotal(x) \in ByteTotals
  BY <1>4, BytesOfChunks
<1>8. /\ r \in Record
      /\ r.status = "uploading"
      /\ r.chunks = x.chunks
      /\ r.bytes = UploadedBytesTotal(x)
      /\ r.counted = Chunks \ MissingChunks(x)
  <2> HIDE DEF x, r
  <2> QED BY <1>5, <1>6, <1>7 DEF Record
<1>9. /\ UploadedBytesTotal(r) = UploadedBytesTotal(x)
      /\ MissingChunks(r) = MissingChunks(x)
  <2> HIDE DEF x, r
  <2> QED BY <1>4, <1>8, BytesOfChunks
<1>10. r.chunks[i] = c /\ \A j \in Chunks \ {i} : r.chunks[j] = rec.chunks[j]
  <2> HIDE DEF x, r, c
  <2> QED BY <1>4, <1>8 DEF Record
<1>11. \A j \in Chunks : Backed(objs, r, j)
  <2> SUFFICES ASSUME NEW j \in Chunks PROVE Backed(objs, r, j)
    OBVIOUS
  <2>1. CASE j = i
    <3>1. Settled(i) => c.expected = size
      <4>1. Settled(i) => rec.chunks[i].expected \in {0, size}
        BY DEF Sound
      <4>2. Settled(i) => LargerOf(rec.chunks[i].expected, size) = size
        BY <4>1, OffersAssumption DEF LargerOf, Sizes
      <4> QED BY <4>2
    <3> HIDE DEF r
    <3> QED BY <2>1, <3>1, <1>1, <1>10 DEF Backed
  <2>2. CASE j # i
    <3>1. Backed(objs, rec, j)
      BY DEF Sound
    <3> HIDE DEF r
    <3> QED BY <2>2, <3>1, <1>10 DEF Backed, Confirmed
  <2> QED BY <2>1, <2>2
<1>12. \A j \in Chunks : r.chunks[j].sum # None => objs[j] # None
  <2> HIDE DEF r, c
  <2> QED BY <1>10 DEF Sound
<1>13. \A j \in Chunks :
         Settled(j) /\ r.chunks[j].expected # 0 =>
           objs[j] # None /\ objs[j].size = r.chunks[j].expected
  <2> SUFFICES ASSUME NEW j \in Chunks, Settled(j), r.chunks[j].expected # 0
               PROVE  objs[j] # None /\ objs[j].size = r.chunks[j].expected
    OBVIOUS
  <2>1. CASE j = i
    <3>1. rec.chunks[i].expected \in {0, size}
      BY <2>1 DEF Sound
    <3>2. LargerOf(rec.chunks[i].expected, size) = size
      BY <3>1, OffersAssumption DEF LargerOf, Sizes
    <3>3. r.chunks[j].expected = size
      <4> HIDE DEF r
      <4> QED BY <2>1, <3>2, <1>10
    <3> HIDE DEF r
    <3> QED BY <2>1, <3>3
  <2>2. CASE j # i
    <3> HIDE DEF r
    <3> QED BY <2>2, <1>10 DEF Sound
  <2> QED BY <2>1, <2>2
<1> HIDE DEF r, x
<1>14. Sound(objs, r)
  BY <1>8, <1>9, <1>11, <1>12, <1>13 DEF Sound
<1>15. r.chunks[i].status = status
  BY <1>10
<1> QED BY <1>8, <1>14, <1>15 DEF r

(* Rejecting a chunk keeps a copy sound: it is no longer confirmed, the    *)
(* session is no longer final, and the counters are excused.               *)
LEMMA RejectChunkSound ==
  ASSUME NEW objs, NEW rec \in Record, Sound(objs, rec), NEW i \in Chunks
  PROVE  /\ RejectChunk(rec, i) \in Record
         /\ Sound(objs, RejectChunk(rec, i))
<1> DEFINE r == RejectChunk(rec, i)
           c == [rec.chunks[i] EXCEPT !.status = "rejected"]
<1>1. r \in Record
  <2>1. c \in ChunkRecord
    BY DEF Record, ChunkRecord, ChunkStatuses
  <2>2. r = [rec EXCEPT !.status = "incomplete", !.chunks = [@ EXCEPT ![i] = c]]
    BY DEF RejectChunk, Record
  <2> HIDE DEF r, c
  <2> QED BY <2>1, <2>2 DEF Record, Statuses
<1>2. /\ r.status = "incomplete"
      /\ r.chunks[i].status = "rejected"
      /\ \A j \in Chunks : /\ r.chunks[j].sum = rec.chunks[j].sum
                           /\ r.chunks[j].expected = rec.chunks[j].expected
                           /\ r.chunks[j].uploaded = rec.chunks[j].uploaded
                           /\ j # i => r.chunks[j].status = rec.chunks[j].status
  BY DEF RejectChunk, Record, ChunkRecord
<1> HIDE DEF r
<1>3. RejectedChunks(r) # {}
  BY <1>2 DEF RejectedChunks
<1>4. \A j \in Chunks : Backed(objs, r, j)
  BY <1>2 DEF Sound, Backed, Confirmed
<1>5. Sound(objs, r)
  BY <1>2, <1>3, <1>4 DEF Sound
<1> QED BY <1>1, <1>5 DEF r

(* complete and cancel change the session's status and nothing of its      *)
(* chunks; complete only finalizes a whole record.                         *)
LEMMA StatusSound ==
  ASSUME NEW objs, NEW rec \in Record, Sound(objs, rec)
  PROVE  /\ CompleteRecord(rec) \in Record
         /\ Sound(objs, CompleteRecord(rec))
         /\ CancelRecord(rec) \in Record
         /\ Sound(objs, CancelRecord(rec))
<1>1. ASSUME NEW r \in Record, r.chunks = rec.chunks, r.bytes = rec.bytes,
             r.counted = rec.counted,
             r.status = "uploaded" => r.completed /\ IsComplete(rec)
      PROVE  Sound(objs, r)
  <2>1. /\ UploadedBytesTotal(r) = UploadedBytesTotal(rec)
        /\ MissingChunks(r) = MissingChunks(rec)
        /\ RejectedChunks(r) = RejectedChunks(rec)
    BY <1>1, BytesOfChunks DEF Record
  <2>2. \A j \in Chunks : Backed(objs, r, j)
    BY <1>1 DEF Sound, Backed, Confirmed
  <2> QED BY <1>1, <2>1, <2>2 DEF Sound, IsComplete
<1>2. /\ CompleteRecord(rec) \in Record
      /\ CompleteRecord(rec).chunks = rec.chunks
      /\ CompleteRecord(rec).bytes = rec.bytes
      /\ CompleteRecord(rec).counted = rec.counted
      /\ CompleteRecord(rec).status = "uploaded" =>
           CompleteRecord(rec).completed /\ IsComplete(rec)
  <2>1. IsComplete(rec) \in BOOLEAN
    BY DEF IsComplete
  <2> QED BY <2>1 DEF CompleteRecord, Record, Statuses
<1>3. /\ CancelRecord(rec) \in Record
      /\ CancelRecord(rec).chunks = rec.chunks
      /\ CancelRecord(rec).bytes = rec.bytes
      /\ CancelRecord(rec).counted = rec.counted
      /\ CancelRecord(rec).status # "uploaded"
  BY DEF CancelRecord, Record, Statuses
<1>4. Sound(objs, CompleteRecord(rec))
  BY <1>1, <1>2
<1>5. Sound(objs, CancelRecord(rec))
  BY <1>1, <1>3
<1> QED BY <1>2, <1>3, <1>4, <1>5

(* What was sound stays sound while other requests store objects.          *)
LEMMA SoundGrows ==
  ASSUME NEW objs, NEW later, Grows(objs, later), NEW rec, Sound(objs, rec)
  PROVE  Sound(later, rec)
<1>1. \A i \in Chunks : Backed(later, rec, i)
  BY DEF Sound, Backed, Grows
<1> QED BY <1>1 DEF Sound, Grows

LEMMA RequestGrows ==
  ASSUME NEW objs, NEW later, Grows(objs, later), NEW man, NEW new,
         man # None => new # None, NEW r, RequestOK(objs, man, r)
  PROVE  RequestOK(later, new, r)
<1>1. r.rec # None /\ Sound(objs, r.rec) => Sound(later, r.rec)
  BY SoundGrows
<1> QED BY <1>1 DEF RequestOK, Grows

LEMMA GrowsReflexive ==
  ASSUME NEW objs
  PROVE  Grows(objs, objs)
BY DEF Grows

-----------------------------------------------------------------------------
(* The inductive step                                                      *)

(* A step moves one request h to r; the others only see objects and        *)
(* manifests that still carry their copies.                                *)
LEMMA RequestStep ==
  ASSUME IInv, NEW h \in Handlers, NEW r \in Request,
         handlers' = [handlers EXCEPT ![h] = r],
         manifest' \in Record \cup {None},
         manifest # None => manifest' # None,
         manifest' # None => Sound(objects', manifest'),
         objects' \in [Chunks -> Payload \cup {None}],
         Grows(objects, objects'),
         FromOffers(objects'),
         RequestOK(objects', manifest', r)
  PROVE  IInv'
<1>1. TypeOK'
  BY DEF IInv, TypeOK
<1>2. \A g \in Handlers : RequestOK(objects', manifest', handlers'[g])
  <2> SUFFICES ASSUME NEW g \in Handlers
               PROVE  RequestOK(objects', manifest', handlers'[g])
    OBVIOUS
  <2>1. CASE g = h
    BY <2>1 DEF IInv, TypeOK
  <2>2. CASE g # h
    <3>1. handlers'[g] = handlers[g] /\ RequestOK(objects, manifest, handlers[g])
      BY <2>2 DEF IInv, TypeOK
    <3> QED BY <3>1, RequestGrows
  <2> QED BY <2>1, <2>2
<1> QED BY <1>1, <1>2 DEF IInv

(* A step of request h that leaves both stores alone.                      *)
LEMMA QuietStep ==
  ASSUME IInv, NEW h \in Handlers, NEW r \in Request,
         handlers' = [handlers EXCEPT ![h] = r],
         UNCHANGED <<manifest, objects>>,
         RequestOK(objects, manifest, r)
  PROVE  IInv'
BY RequestStep, GrowsReflexive DEF IInv, TypeOK

(* The request in progress at h, as its handler finds it.                  *)
LEMMA RequestTyped ==
  ASSUME IInv, NEW h \in Handlers
  PROVE  /\ handlers[h] \in Request
         /\ RequestOK(objects, manifest, handlers[h])
         /\ handlers[h].req \in Offers =>
              /\ handlers[h].req.size \in Sizes
              /\ handlers[h].req.sum \in Sums
              /\ handlers[h].req.sum # None
BY OffersAssumption DEF IInv, TypeOK, Sizes, Sums

(* Refusing leaves only an answer that promises nothing.                   *)
LEMMA RefuseStep ==
  ASSUME IInv, NEW h \in Handlers, Refuse(h), UNCHANGED <<manifest, objects>>
  PROVE  IInv'
<1> DEFINE r == Idle(handlers[h].req, "error")
<1>1. r \in Request
  BY RequestTyped DEF Idle, Request, Places, Answers
<1>2. RequestOK(objects, manifest, r)
  BY DEF RequestOK, Idle
<1>3. handlers' = [handlers EXCEPT ![h] = r]
  BY DEF Refuse
<1> HIDE DEF r
<1> QED BY <1>1, <1>2, <1>3, QuietStep

(* Initially nothing is stored and no request is in progress.              *)
LEMMA InitIInv ==
  Init => IInv
<1> SUFFICES ASSUME Init PROVE IInv
  OBVIOUS
<1>1. TypeOK
  BY DEF Init, Idle, TypeOK, Request, Places, Answers
<1>2. FromOffers(objects)
  BY DEF Init, FromOffers
<1>3. \A h \in Handlers : RequestOK(objects, manifest, handlers[h])
  BY DEF Init, Idle, RequestOK
<1> QED BY <1>1, <1>2, <1>3 DEF Init, IInv

LEMMA CreateUploadIInv ==
  ASSUME IInv, CreateUpload
  PROVE  IInv'
<1>1. NewRecord \in Record /\ Sound(objects, NewRecord) /\ manifest' = NewRecord
  BY NewRecordSound DEF CreateUpload
<1>2. TypeOK' /\ manifest' # None
  BY <1>1, NoneAssumption DEF IInv, TypeOK, CreateUpload
<1>3. \A h \in Handlers : RequestOK(objects', manifest', handlers'[h])
  BY <1>2, RequestGrows, GrowsReflexive DEF IInv, CreateUpload
<1> QED BY <1>1, <1>2, <1>3 DEF IInv, CreateUpload

LEMMA ReceiveIInv ==
  ASSUME IInv, NEW h \in Handlers,
         ReceiveChunk(h) \/ ReceiveComplete(h) \/ ReceiveCancel(h)
  PROVE  IInv'
<1>1. PICK pc \in {"loadChunk", "loadComplete", "loadCancel"},
           req \in Offers \cup {None} :
         Receive(h, pc, req) /\ (pc = "loadChunk" => req \in Offers)
  BY DEF ReceiveChunk, ReceiveComplete, ReceiveCancel
<1> DEFINE r == [pc |-> pc, req |-> req, rec |-> None, resp |-> "none"]
<1>2. r \in Request
  BY DEF Request, Places, Answers
<1>3. RequestOK(objects, manifest, r)
  BY <1>1, NoneAssumption DEF RequestOK, Receive
<1>4. handlers' = [handlers EXCEPT ![h] = r] /\ UNCHANGED <<manifest, objects>>
  BY <1>1 DEF Receive
<1> HIDE DEF r
<1> QED BY <1>2, <1>3, <1>4, QuietStep

LEMMA LoadChunkIInv ==
  ASSUME IInv, NEW h \in Handlers, LoadChunk(h)
  PROVE  IInv'
<1> DEFINE r == [pc |-> "head", req |-> handlers[h].req, rec |-> manifest,
                 resp |-> "none"]
<1>1. CASE MayUpload(manifest, handlers[h].req)
  <2>1. handlers' = [handlers EXCEPT ![h] = r] /\ UNCHANGED <<manifest, objects>>
    BY <1>1 DEF LoadChunk, Goto
  <2>2. r \in Request
    BY RequestTyped DEF IInv, TypeOK, Request, Places, Answers
  <2>3. RequestOK(objects, manifest, r)
    BY <1>1, RequestTyped DEF LoadChunk, RequestOK, MayUpload, IInv
  <2> HIDE DEF r
  <2> QED BY <2>1, <2>2, <2>3, QuietStep
<1>2. CASE ~MayUpload(manifest, handlers[h].req)
  BY <1>2, RefuseStep DEF LoadChunk
<1> QED BY <1>1, <1>2

LEMMA HeadChunkIInv ==
  ASSUME IInv, NEW h \in Handlers, HeadChunk(h)
  PROVE  IInv'
<1> DEFINE req == handlers[h].req
           rec == handlers[h].rec
           i   == req.index
           Reply(pc, new, resp) ==
             [pc |-> pc, req |-> req, rec |-> new, resp |-> resp]
<1>1. /\ req \in Offers /\ req.size \in Sizes /\ req.sum \in Sums
      /\ i \in Chunks
      /\ rec \in Record /\ Sound(objects, rec)
      /\ manifest # None
  BY RequestTyped DEF HeadChunk, RequestOK, Request
<1>2. rec # None
  BY <1>1, NoneAssumption
<1>3. CASE objects[i] = None /\ Goto(h, "put", rec, "none")
  <2> DEFINE r == Reply("put", rec, "none")
  <2>1. r \in Request
    BY <1>1 DEF Request, Places, Answers
  <2>2. rec.chunks[i].sum = None
    BY <1>1, <1>3 DEF Sound
  <2>3. RequestOK(objects, manifest, r)
    BY <1>1, <1>2, <2>2, NoneAssumption DEF RequestOK
  <2>4. handlers' = [handlers EXCEPT ![h] = r] /\ UNCHANGED <<manifest, objects>>
    BY <1>3 DEF HeadChunk, Goto
  <2> HIDE DEF r
  <2> QED BY <2>1, <2>3, <2>4, QuietStep
<1>4. CASE /\ objects[i] # None
           /\ HeadMatches(objects[i], req)
           /\ Goto(h, "save",
                   AcceptChunk(rec, i, req.size, req.sum, "already_present"),
                   "already_present")
  <2> DEFINE new == AcceptChunk(rec, i, req.size, req.sum, "already_present")
             r == Reply("save", new, "already_present")
  <2>1. objects[i].size = req.size /\ objects[i].sum = req.sum
    BY <1>4 DEF HeadMatches
  <2>2. new \in Record /\ Sound(objects, new)
    <3> HIDE DEF req, rec, i
    <3> QED BY <1>1, <1>4, <2>1, AcceptChunkSound
  <2>3. handlers' = [handlers EXCEPT ![h] = r] /\ UNCHANGED <<manifest, objects>>
    BY <1>4 DEF HeadChunk, Goto
  <2> HIDE DEF new
  <2>4. r \in Request
    BY <1>1, <2>2 DEF Request, Places, Answers
  <2>5. RequestOK(objects, manifest, r)
    BY <1>1, <1>4, <2>2, NoneAssumption DEF RequestOK
  <2> HIDE DEF r
  <2> QED BY <2>3, <2>4, <2>5, QuietStep
<1>5. CASE /\ objects[i] # None
           /\ ~HeadMatches(objects[i], req)
           /\ Goto(h, "save", RejectChunk(rec, i), "rejected")
  <2> DEFINE new == RejectChunk(rec, i)
             r == Reply("save", new, "rejected")
  <2>2. new \in Record /\ Sound(objects, new)
    <3> HIDE DEF rec, i
    <3> QED BY <1>1, RejectChunkSound
  <2>3. handlers' = [handlers EXCEPT ![h] = r] /\ UNCHANGED <<manifest, objects>>
    BY <1>5 DEF HeadChunk, Goto
  <2> HIDE DEF new
  <2>4. r \in Request
    BY <1>1, <2>2 DEF Request, Places, Answers
  <2>5. RequestOK(objects, manifest, r)
    BY <1>1, <2>2, NoneAssumption DEF RequestOK
  <2> HIDE DEF r
  <2> QED BY <2>3, <2>4, <2>5, QuietStep
<1> QED BY <1>3, <1>4, <1>5 DEF HeadChunk

(* head_chunk found nothing, so the copy knows no checksum of the index and*)
(* apply_chunk takes the accepting branch, whatever was stored meanwhile.  *)
LEMMA PutChunkIInv ==
  ASSUME IInv, NEW h \in Handlers, PutChunk(h)
  PROVE  IInv'
<1> DEFINE req == handlers[h].req
           old == handlers[h].rec
           i   == req.index
           new == AcceptChunk(old, i, req.size, req.sum, "uploaded")
           r   == [pc |-> "save", req |-> req, rec |-> new, resp |-> "uploaded"]
<1>1. /\ req \in Offers /\ req.size \in Sizes /\ req.sum \in Sums
      /\ req.sum # None
      /\ i \in Chunks
      /\ old \in Record /\ Sound(objects, old)
      /\ manifest # None
      /\ old.chunks[i].sum = None
  BY RequestTyped DEF PutChunk, RequestOK, Request
<1>2. /\ objects' = [objects EXCEPT ![i] = [size |-> req.size, sum |-> req.sum]]
      /\ manifest' = manifest
  BY DEF PutChunk
<1>3. /\ objects' \in [Chunks -> Payload \cup {None}]
      /\ objects'[i].size = req.size /\ objects'[i].sum = req.sum
      /\ objects'[i] # None
      /\ \A j \in Chunks \ {i} : objects'[j] = objects[j]
  <2>1. [size |-> req.size, sum |-> req.sum] \in Payload
    BY <1>1 DEF Payload
  <2> HIDE DEF req, i
  <2> QED BY <1>1, <1>2, <2>1, NoneAssumption DEF IInv, TypeOK
<1>4. Grows(objects, objects')
  <2>1. ASSUME objects[i] # None, Settled(i)
        PROVE  objects'[i] = objects[i]
    <3>1. PICK o \in Offers : /\ o.index = i
                              /\ objects[i].size = o.size
                              /\ objects[i].sum = o.sum
      BY <1>1, <2>1 DEF IInv, FromOffers
    <3>2. o.size = req.size /\ o.sum = req.sum
      BY <1>1, <2>1, <3>1 DEF Settled
    <3>3. objects[i] \in Payload
      BY <1>1, <2>1 DEF IInv, TypeOK
    <3>4. objects[i] = [size |-> req.size, sum |-> req.sum]
      BY <3>1, <3>2, <3>3 DEF Payload
    <3> HIDE DEF req, i
    <3> QED BY <1>1, <1>2, <3>4 DEF IInv, TypeOK
  <2> HIDE DEF req, i
  <2> QED BY <1>3, <2>1 DEF Grows
<1>5. FromOffers(objects')
  <2> SUFFICES ASSUME NEW j \in Chunks, objects'[j] # None
               PROVE  \E o \in Offers : /\ o.index = j
                                        /\ objects'[j].size = o.size
                                        /\ objects'[j].sum = o.sum
    BY DEF FromOffers
  <2>1. CASE j = i
    BY <2>1, <1>1, <1>3
  <2>2. CASE j # i
    BY <2>2, <1>3 DEF IInv, FromOffers
  <2> QED BY <2>1, <2>2
<1>6. Sound(objects', old)
  BY <1>1, <1>4, SoundGrows
<1>7. /\ new \in Record
      /\ Sound(objects', new)
      /\ new.chunks[i].status = "uploaded"
  <2> HIDE DEF req, old, i
  <2> QED BY <1>1, <1>3, <1>6, AcceptChunkSound
<1>8. ApplyChunk(old, i, req.size, req.sum) = new
  <2> HIDE DEF req, old, i, new
  <2>1. old.chunks[i].sum = None /\ req.sum # None
    BY <1>1
  <2> QED BY <2>1 DEF ApplyChunk, new
<1>9. handlers' = [handlers EXCEPT ![h] = r]
  <2>1. handlers' = [handlers EXCEPT ![h] =
                       [pc |-> "save", req |-> req, rec |-> new,
                        resp |-> new.chunks[i].status]]
    <3> HIDE DEF new
    <3> QED BY <1>8 DEF PutChunk, Goto
  <2> HIDE DEF new
  <2> QED BY <1>7, <2>1
<1> HIDE DEF new
<1>10. r \in Request
  BY <1>1, <1>7 DEF Request, Places, Answers
<1>11. RequestOK(objects', manifest', r)
  BY <1>1, <1>2, <1>3, <1>7, NoneAssumption DEF RequestOK, HeadMatches
<1>12. manifest' # None => Sound(objects', manifest')
  BY <1>2, <1>4, SoundGrows DEF IInv
<1> HIDE DEF r
<1> QED
  BY <1>2, <1>3, <1>4, <1>5, <1>9, <1>10, <1>11, <1>12, RequestStep
  DEF IInv, TypeOK

LEMMA LoadStatusIInv ==
  ASSUME IInv, NEW h \in Handlers, LoadComplete(h) \/ LoadCancel(h)
  PROVE  IInv'
<1>1. manifest # None /\ manifest \in Record /\ Sound(objects, manifest)
  BY RequestTyped DEF LoadComplete, LoadCancel, RequestOK, IInv, TypeOK
<1>2. PICK new \in Record, resp \in {"complete", "incomplete", "canceled"} :
        /\ Sound(objects, new)
        /\ Goto(h, "save", new, resp)
  BY <1>1, StatusSound DEF LoadComplete, LoadCancel
<1> DEFINE r == [pc |-> "save", req |-> handlers[h].req, rec |-> new,
                 resp |-> resp]
<1>3. r \in Request
  BY RequestTyped DEF Request, Places, Answers
<1>4. RequestOK(objects, manifest, r)
  BY <1>1, <1>2, NoneAssumption DEF RequestOK
<1>5. handlers' = [handlers EXCEPT ![h] = r] /\ UNCHANGED <<manifest, objects>>
  BY <1>2 DEF Goto, LoadComplete, LoadCancel
<1> HIDE DEF r
<1> QED BY <1>3, <1>4, <1>5, QuietStep

LEMMA SaveManifestIInv ==
  ASSUME IInv, NEW h \in Handlers, SaveManifest(h)
  PROVE  IInv'
<1> DEFINE r == Idle(handlers[h].req, handlers[h].resp)
<1>1. /\ handlers[h].rec \in Record
      /\ handlers[h].rec # None
      /\ Sound(objects, handlers[h].rec)
  BY RequestTyped, NoneAssumption DEF SaveManifest, RequestOK, Request
<1>2. manifest' = handlers[h].rec /\ objects' = objects
  BY DEF SaveManifest
<1>3. r \in Request
  BY RequestTyped DEF Idle, Request, Places
<1>4. RequestOK(objects', manifest', r)
  BY <1>2, RequestTyped DEF Idle, RequestOK, SaveManifest
<1>5. handlers' = [handlers EXCEPT ![h] = r]
  BY DEF SaveManifest
<1> HIDE DEF r
<1> QED
  BY <1>1, <1>2, <1>3, <1>4, <1>5, RequestStep, GrowsReflexive
  DEF IInv, TypeOK

LEMMA NextIInv ==
  ASSUME IInv, [Next]_vars
  PROVE  IInv'
<1>1. CASE CreateUpload
  BY <1>1, CreateUploadIInv
<1>2. ASSUME NEW h \in Handlers,
             ReceiveChunk(h) \/ ReceiveComplete(h) \/ ReceiveCancel(h)
      PROVE  IInv'
  BY <1>2, ReceiveIInv
<1>3. ASSUME NEW h \in Handlers, HandlerStep(h)
      PROVE  IInv'
  BY <1>3, LoadChunkIInv, HeadChunkIInv, PutChunkIInv, LoadStatusIInv,
     SaveManifestIInv DEF HandlerStep
<1>4. ASSUME NEW h \in Handlers, Abandon(h)
      PROVE  IInv'
  BY <1>4, RefuseStep DEF Abandon
<1>5. CASE UNCHANGED vars
  <2>1. TypeOK'
    BY <1>5 DEF vars, IInv, TypeOK
  <2> QED BY <1>5, <2>1 DEF vars, IInv
<1> QED BY <1>1, <1>2, <1>3, <1>4, <1>5 DEF Next

-----------------------------------------------------------------------------
(* The theorems                                                            *)

(* IInv is an invariant of the service.                                    *)
THEOREM InductiveInvariant == Spec => []IInv
<1>1. Init => IInv
  BY InitIInv
<1>2. IInv /\ [Next]_vars => IInv'
  BY NextIInv
<1> QED BY <1>1, <1>2, PTL DEF Spec

(* The stores and the requests keep their types: no handler indexes a chunk*)
(* beyond the record or carries a record it never loaded.                  *)
THEOREM TypeCorrectness == Spec => []TypeOK
<1>1. IInv => TypeOK
  BY DEF IInv
<1> QED BY <1>1, InductiveInvariant, PTL

(* Whatever requests interleave, fail or die, the manifest lists only      *)
(* chunks that S3 holds.                                                   *)
THEOREM ManifestBacked == Spec => []ManifestIsBacked
<1>1. IInv => ManifestIsBacked
  BY DEF IInv, Sound, ManifestIsBacked
<1> QED BY <1>1, InductiveInvariant, PTL

(* A chunk the service acknowledged is in S3 for good.                     *)
THEOREM AcceptedDurable == Spec => []AcceptedIsDurable
<1>1. IInv => AcceptedIsDurable
  BY DEF IInv, RequestOK, AcceptedIsDurable
<1> QED BY <1>1, InductiveInvariant, PTL

(* A manifest that says "uploaded" lists every chunk, all of them stored,  *)
(* and their bytes add up to the total the client declared.                *)
THEOREM FinalizedWhole == Spec => []FinalizedIsWhole
<1>1. IInv => FinalizedIsWhole
  BY DEF IInv, Sound, FinalizedIsWhole
<1> QED BY <1>1, InductiveInvariant, PTL

(* The manifest's counters are stale at most while a chunk is rejected.    *)
THEOREM CountersExact == Spec => []CountersExactUnlessRejected
<1>1. IInv => CountersExactUnlessRejected
  BY DEF IInv, Sound, CountersExactUnlessRejected
<1> QED BY <1>1, InductiveInvariant, PTL

(* apply_chunk never rejects a chunk whose object was just overwritten.    *)
THEOREM PutNeverRejected == Spec => []PutNeverRejects
<1>1. IInv => PutNeverRejects
  BY DEF IInv, RequestOK, PutNeverRejects
<1> QED BY <1>1, InductiveInvariant, PTL

-----------------------------------------------------------------------------
(* The service implements UploadPromise                                    *)

LEMMA PromiseInit == Init => Promise!Init
BY DEF Init, Promise!Init, Stored, Listed, Exact, Phase

(* Steps of requests that touch neither store are stutters.                *)
LEMMA PromiseStutter ==
  ASSUME UNCHANGED <<manifest, objects>>
  PROVE  UNCHANGED Promise!vars
<1>1. Stored' = Stored
  BY DEF Stored
<1>2. Listed' = Listed
  BY DEF Listed, MissingChunks, Confirmed
<1>3. Phase' = Phase
  BY DEF Phase
<1>4. Exact' = Exact
  BY <1>2 DEF Exact
<1> QED BY <1>1, <1>2, <1>3, <1>4 DEF Promise!vars

LEMMA PromiseCreate ==
  ASSUME IInv, CreateUpload
  PROVE  Promise!Open
<1>1. manifest = None /\ manifest' = NewRecord /\ objects' = objects
  BY DEF CreateUpload
<1>2. NewRecord # None
  BY NewRecordSound, NoneAssumption
<1>3. NewRecord.status = "ready"
  BY DEF NewRecord
<1>4. \A i \in Chunks : NewRecord.chunks[i].status = "pending"
  BY DEF NewRecord
<1>5. Chunks \ MissingChunks(NewRecord) = {}
  BY <1>4 DEF MissingChunks, Confirmed
<1>6. Phase = "absent" /\ Phase' = "open"
  BY <1>1, <1>2, <1>3 DEF Phase
<1>7. Listed = {} /\ Listed' = Chunks \ MissingChunks(NewRecord)
  <2>1. Listed' = IF manifest' = None THEN {} ELSE Chunks \ MissingChunks(manifest')
    BY DEF Listed, MissingChunks, Confirmed
  <2> QED BY <2>1, <1>1, <1>2 DEF Listed
<1>8. Stored' = Stored
  BY <1>1 DEF Stored
<1>9. Exact = {} /\ Exact' = {}
  BY <1>5, <1>7 DEF Exact
<1> QED BY <1>5, <1>6, <1>7, <1>8, <1>9 DEF Promise!Open

(* A chunk S3 lacked is stored; one clients disagree about may now be other*)
(* bytes than the manifest says; one they agree about is the same as before*)
LEMMA PromisePut ==
  ASSUME IInv, IInv', NEW h \in Handlers, PutChunk(h)
  PROVE  Promise!Store \/ Promise!Overwrite \/ UNCHANGED Promise!vars
<1> DEFINE i == handlers[h].req.index
           put == [size |-> handlers[h].req.size, sum |-> handlers[h].req.sum]
<1>1. /\ manifest # None
      /\ i \in Chunks
      /\ handlers[h].req \in Offers
      /\ handlers[h].req.size \in Sizes
      /\ handlers[h].req.sum \in Sums
  BY RequestTyped DEF PutChunk, RequestOK, Request
<1>2. manifest' = manifest /\ objects' = [objects EXCEPT ![i] = put]
  BY DEF PutChunk
<1>3. put \in Payload /\ put # None
  BY <1>1, NoneAssumption DEF Payload
<1>4. Stored' = Stored \cup {i}
  <2> HIDE DEF i
  <2> QED BY <1>1, <1>2, <1>3 DEF Stored, IInv, TypeOK
<1>5. Listed' = Listed
  BY <1>2 DEF Listed, MissingChunks, Confirmed
<1>6. Phase' = Phase /\ Phase # "absent"
  BY <1>1, <1>2 DEF Phase
<1>7. Exact' \ {i} = Exact \ {i} /\ Exact \subseteq Listed /\ Exact' \subseteq Listed
  <2>1. \A j \in Chunks \ {i} : objects'[j] = objects[j]
    BY <1>1, <1>2 DEF IInv, TypeOK
  <2>2. Listed \subseteq Chunks
    BY DEF Listed
  <2> HIDE DEF i, put
  <2> QED BY <1>2, <1>5, <2>1, <2>2 DEF Exact
<1>8. CASE i \in Stored /\ Settled(i)
  <2>1. objects[i] \in Payload /\ objects[i] = put
    <3>1. PICK o \in Offers : /\ o.index = i
                              /\ objects[i].size = o.size
                              /\ objects[i].sum = o.sum
      BY <1>1, <1>8 DEF IInv, FromOffers, Stored
    <3>2. objects[i] \in Payload
      BY <1>1, <1>8 DEF IInv, TypeOK, Stored
    <3>3. o.size = handlers[h].req.size /\ o.sum = handlers[h].req.sum
      BY <1>1, <1>8, <3>1 DEF Settled
    <3> QED BY <3>1, <3>2, <3>3 DEF Payload
  <2>2. objects' = objects
    <3> HIDE DEF put, i
    <3> QED BY <1>1, <1>2, <2>1 DEF IInv, TypeOK
  <2> QED BY <1>2, <2>2, PromiseStutter
<1>9. CASE i \in Stored /\ ~Settled(i)
  <2>1. Exact' \in {Exact \ {i}, Exact \cup ({i} \cap Listed)}
    <3> HIDE DEF i
    <3>1. CASE i \in Exact'
      <4>1. Exact' = Exact \cup ({i} \cap Listed)
        BY <1>7, <3>1
      <4> QED BY <4>1
    <3>2. CASE i \notin Exact'
      <4>1. Exact' = Exact \ {i}
        BY <1>7, <3>2
      <4> QED BY <4>1
    <3> QED BY <3>1, <3>2
  <2>2. i \in Stored \ {j \in Chunks : Settled(j)}
    <3> HIDE DEF i
    <3> QED BY <1>1, <1>9
  <2> HIDE DEF i
  <2> QED BY <1>4, <1>5, <1>6, <1>9, <2>1, <2>2 DEF Promise!Overwrite
<1>10. CASE i \notin Stored
  <2>1. i \notin Listed
    BY <1>1, <1>10 DEF IInv, Sound, Backed, Listed, MissingChunks, Stored
  <2>2. Exact' = Exact
    <3> HIDE DEF i
    <3> QED BY <1>7, <2>1
  <2> HIDE DEF i
  <2> QED BY <1>1, <1>4, <1>5, <1>6, <1>10, <2>2 DEF Promise!Store
<1> QED BY <1>8, <1>9, <1>10

(* Whatever record is saved, it lists stored chunks only, and all of them  *)
(* when it says the upload is final.                                       *)
LEMMA PromiseSave ==
  ASSUME IInv, IInv', NEW h \in Handlers, SaveManifest(h)
  PROVE  Promise!Publish
<1>1. /\ manifest # None
      /\ manifest' # None
      /\ objects' = objects
  BY RequestTyped DEF SaveManifest, RequestOK
<1>2. Sound(objects', manifest')
  BY <1>1 DEF IInv
<1>3. Listed' = Chunks \ MissingChunks(manifest')
  BY <1>1 DEF Listed, MissingChunks, Confirmed
<1>4. \A i \in Chunks : i \notin MissingChunks(manifest') => objects[i] # None
  BY <1>1, <1>2 DEF Sound, Backed, MissingChunks
<1>5. Listed' \in SUBSET Stored
  BY <1>3, <1>4 DEF Stored
<1>6. manifest'.status = "uploaded" => Listed' = Chunks
  BY <1>2, <1>3 DEF Sound
<1>7. /\ Phase # "absent"
      /\ Phase' \in {"open", "canceled", "final"}
      /\ Phase' = "final" => manifest'.status = "uploaded"
  BY <1>1 DEF Phase
<1>8. Stored' = Stored
  BY <1>1 DEF Stored
<1>9. Exact' \subseteq Listed'
  BY DEF Exact
<1>10. Listed' \cap {i \in Chunks : Settled(i)} \subseteq Exact'
  <2> SUFFICES ASSUME NEW i \in Listed', i \in Chunks, Settled(i)
               PROVE  i \in Exact'
    OBVIOUS
  <2>1. Confirmed(manifest', i) /\ Backed(objects', manifest', i)
    BY <1>2, <1>3 DEF MissingChunks, Sound
  <2>2. /\ objects'[i] # None
        /\ objects'[i].size = manifest'.chunks[i].uploaded
        /\ objects'[i].sum = manifest'.chunks[i].sum
        /\ manifest'.chunks[i].expected = manifest'.chunks[i].uploaded
    BY <2>1 DEF Backed
  <2>3. objects'[i].size \in Nat \ {0}
    BY <2>2, OffersAssumption DEF IInv, FromOffers
  <2> QED BY <2>2, <2>3 DEF Exact
<1> QED BY <1>5, <1>6, <1>7, <1>8, <1>9, <1>10 DEF Promise!Publish

LEMMA PromiseStep ==
  ASSUME IInv, IInv', [Next]_vars
  PROVE  [Promise!Next]_(Promise!vars)
<1>1. CASE CreateUpload
  BY <1>1, PromiseCreate DEF Promise!Next
<1>2. ASSUME NEW h \in Handlers, PutChunk(h)
      PROVE  [Promise!Next]_(Promise!vars)
  BY <1>2, PromisePut DEF Promise!Next
<1>3. ASSUME NEW h \in Handlers, SaveManifest(h)
      PROVE  [Promise!Next]_(Promise!vars)
  BY <1>3, PromiseSave DEF Promise!Next
<1>4. ASSUME NEW h \in Handlers,
             \/ ReceiveChunk(h) \/ ReceiveComplete(h) \/ ReceiveCancel(h)
             \/ LoadChunk(h) \/ HeadChunk(h) \/ LoadComplete(h) \/ LoadCancel(h)
             \/ Abandon(h)
      PROVE  [Promise!Next]_(Promise!vars)
  <2>1. UNCHANGED <<manifest, objects>>
    BY <1>4 DEF ReceiveChunk, ReceiveComplete, ReceiveCancel, Receive,
                LoadChunk, HeadChunk, LoadComplete, LoadCancel, Abandon
  <2> QED BY <2>1, PromiseStutter
<1>5. CASE UNCHANGED vars
  BY <1>5, PromiseStutter DEF vars
<1> QED BY <1>1, <1>2, <1>3, <1>4, <1>5 DEF Next, HandlerStep

(* The service implements its abstract promise: chunks once stored stay,   *)
(* and what is published as final is whole, for any number of requests.    *)
THEOREM ServiceKeepsPromise == Spec => ImplementsPromise
<1>1. Init => Promise!Init
  BY PromiseInit
<1>2. IInv /\ IInv' /\ [Next]_vars => [Promise!Next]_(Promise!vars)
  BY PromiseStep
<1> QED
  BY <1>1, <1>2, InductiveInvariant, PTL
  DEF Spec, ImplementsPromise, Promise!Spec
=============================================================================

------------------------ MODULE LocalRecordingProofs ------------------------
(***************************************************************************)
(* Proofs about LocalRecording for any number of recordings, chunks,       *)
(* presses and failures.  A manifest lists a chunk long before both are    *)
(* saved, so what holds of the saved manifest has to hold of the one in    *)
(* memory and of every one that waits in the queue: each chunk it lists is *)
(* stored, its save has failed, or its task comes no later than its own.   *)
(***************************************************************************)
EXTENDS LocalRecording, SequenceTheorems, TLAPS

-----------------------------------------------------------------------------
(* Types                                                                   *)

Cameras == [status : {"idle", "requesting", "active", "error"},
            stream : {0} \cup Streams, wanted : {0} \cup Streams,
            asked : SUBSET Streams, live : SUBSET Streams,
            made : {0} \cup Streams]

Recorders == [held : BOOLEAN, on : BOOLEAN, ending : {"no", "data", "stop"}]

Takes == [rec : {0} \cup Recordings, manifest : Manifest \cup {None},
          current : {0} \cup Recordings]

Supports == {"not_checked", "supported", "failed"}

Saves == {"manifest", "chunk"}

Tasks == [kind : {"manifest", "chunk", "check"} \cup Deletes,
          rec : {0} \cup Recordings, manifest : Manifest \cup {None},
          support : Supports, newest : BOOLEAN]

Queues == [tasks : Seq(Tasks),
           pc : {"start", "manifest", "saved", "unsaved", "deleted",
                 "undeleted", "refresh", "relist", "resum"},
           active : {0} \cup Recordings, bad : BOOLEAN]

Panels == [support : Supports,
           status : {"not_checked", "available", "persisting", "persisted",
                     "failed"},
           current : BOOLEAN,
           list : [Recordings -> Manifest \cup {None}],
           reports : [Recordings -> {None, "healthy", "warning", "unknown"}],
           check : {"idle", "checking", "ready"}]

Previews == {p \in [status : {"idle", "loading", "ready", "failed"},
                    rec : {0} \cup Recordings,
                    pc : {"none", "list", "build", "show", "gone"},
                    got : SUBSET Indexes(MaxChunks)] :
               p.pc # "none" => p.rec \in Recordings}

Ghosts == [made : 0 .. MaxRecordings, lost : [Recordings -> SUBSET Int],
           erased : SUBSET ({0} \cup Recordings), failing : BOOLEAN,
           trouble : 0 .. MaxTrouble, presses : 0 .. MaxPresses]

Types ==
  /\ disk \in [Recordings -> Entry]
  /\ camera \in Cameras
  /\ snap \in SnapStates \ {"preparing"}
  /\ recorder \in Recorders
  /\ take \in Takes
  /\ queue \in Queues
  /\ shown \in Panels
  /\ recovered \in Previews
  /\ ghost \in Ghosts

(* A recorder at work has a manifest to append to.                         *)
HeldOK == recorder.held => snap # "idle" /\ take.manifest \in Manifest

-----------------------------------------------------------------------------
(* The promise of a manifest, of the values of queue, disk and history.    *)

(* Only a chunk task waits for a second save, and it appended its chunk.   *)
Shape(q) ==
  /\ \A j \in DOMAIN q.tasks : q.tasks[j].kind \in Saves =>
       q.tasks[j].manifest \in Manifest
  /\ \A j \in DOMAIN q.tasks : q.tasks[j].kind = "chunk" =>
       q.tasks[j].manifest.n > 0
  /\ q.tasks = <<>> => q.pc = "start"
  /\ q.pc = "manifest" => q.tasks[1].kind = "chunk"

Saved(d, g, r, i) == i \in g.lost[r] \/ i \in d[r].chunks

(* A task no later than the j-th has yet to save chunk i of r.             *)
Due(q, r, i, j) ==
  \E k \in DOMAIN q.tasks :
    /\ k <= j
    /\ q.tasks[k].kind = "chunk"
    /\ q.tasks[k].rec = r
    /\ q.tasks[k].manifest.n - 1 = i
    /\ k = 1 => q.pc = "start"

Covered(d, g, q, r, i, j) == Saved(d, g, r, i) \/ Due(q, r, i, j)

DiskBacked(d, g) ==
  \A r \in Stored(d) \ g.erased :
    \A i \in Indexes(d[r].manifest.n) : Saved(d, g, r, i)

QueueBacked(d, g, q) ==
  \A j \in DOMAIN q.tasks : q.tasks[j].kind \in Saves =>
    \A r \in Recordings \ g.erased : q.tasks[j].rec = r =>
      \A i \in Indexes(q.tasks[j].manifest.n) : Covered(d, g, q, r, i, j)

TakeBacked(d, g, q, t) ==
  t.manifest \in Manifest =>
    \A r \in Recordings \ g.erased : t.rec = r =>
      \A i \in Indexes(t.manifest.n) : Covered(d, g, q, r, i, Len(q.tasks))

Backed(d, g, q, t) ==
  DiskBacked(d, g) /\ QueueBacked(d, g, q) /\ TakeBacked(d, g, q, t)

IInv ==
  /\ Types
  /\ HeldOK
  /\ Shape(queue)
  /\ Backed(disk, ghost, queue, take)
  /\ NoOrphanCamera

-----------------------------------------------------------------------------
(* Lemmas about values of the queue, the disk and the take                 *)

LEMMA HeadIsFirst ==
  ASSUME NEW q \in Queues, q.tasks # <<>>
  PROVE  /\ Head(q.tasks) = q.tasks[1]
         /\ 1 \in DOMAIN q.tasks
         /\ q.tasks[1] \in Tasks
<1>1. q.tasks \in Seq(Tasks)
  BY DEF Queues
<1>2. Len(q.tasks) \in Nat /\ Len(q.tasks) > 0 /\ DOMAIN q.tasks = 1 .. Len(q.tasks)
  BY <1>1
<1> QED BY <1>1, <1>2

(* What a manifest promises depends on no other history than what was lost *)
(* and erased, and on the take only if it names a recording.               *)
LEMMA FrameBacked ==
  ASSUME NEW d, NEW g, NEW g2, NEW q, NEW t, NEW t2,
         Backed(d, g, q, t),
         g2.lost = g.lost, g2.erased = g.erased,
         t2.rec \notin Recordings \/ (t2.rec = t.rec /\ t2.manifest = t.manifest)
  PROVE  Backed(d, g2, q, t2)
<1>1. \A r, i : Saved(d, g, r, i) => Saved(d, g2, r, i)
  BY DEF Saved
<1>2. \A r, i, j : Covered(d, g, q, r, i, j) => Covered(d, g2, q, r, i, j)
  BY <1>1 DEF Covered
<1>3. DiskBacked(d, g2)
  BY <1>1 DEF Backed, DiskBacked
<1>4. QueueBacked(d, g2, q)
  BY <1>2 DEF Backed, QueueBacked
<1>5. TakeBacked(d, g2, q, t2)
  BY <1>2 DEF Backed, TakeBacked
<1> QED BY <1>3, <1>4, <1>5 DEF Backed

(* A new task goes behind all that its manifest needs; a chunk task brings *)
(* the one chunk that is new.                                              *)
LEMMA EnqueueKeeps ==
  ASSUME NEW d, NEW g, NEW q \in Queues, NEW t, NEW t2, NEW task \in Tasks,
         Shape(q), Backed(d, g, q, t),
         task.kind \in Saves =>
           /\ task.manifest \in Manifest
           /\ task.manifest = t2.manifest
           /\ task.rec = t2.rec,
         task.kind = "chunk" => task.manifest.n > 0,
         \A i \in Indexes(t2.manifest.n) :
           t2.manifest \in Manifest /\ t2.rec \in Recordings =>
             \/ /\ t.manifest \in Manifest /\ t.rec = t2.rec
                /\ i \in Indexes(t.manifest.n)
             \/ /\ task.kind = "chunk" /\ task.rec = t2.rec
                /\ task.manifest.n - 1 = i
  PROVE  /\ enqueue(q, task) \in Queues
         /\ Shape(enqueue(q, task))
         /\ Backed(d, g, enqueue(q, task), t2)
<1> DEFINE q2 == enqueue(q, task)
           n  == Len(q.tasks) + 1
<1>1. q.tasks \in Seq(Tasks) /\ Len(q.tasks) \in Nat
  BY DEF Queues
<1>2. /\ q2.tasks = Append(q.tasks, task)
      /\ q2.pc = q.pc
      /\ q2 \in Queues
  BY <1>1, AppendProperties DEF Queues, enqueue
<1> HIDE DEF q2
<1>3. /\ Len(q2.tasks) = n
      /\ DOMAIN q2.tasks = 1 .. n
      /\ DOMAIN q.tasks = 1 .. Len(q.tasks)
      /\ \A k \in DOMAIN q.tasks : q2.tasks[k] = q.tasks[k]
      /\ q2.tasks[n] = task
      /\ q2.tasks # <<>>
      /\ q.tasks = <<>> <=> n = 1
  BY <1>1, <1>2, AppendProperties
<1>4. Shape(q2)
  BY <1>1, <1>2, <1>3 DEF Shape
<1>5. \A r, i : \A j \in DOMAIN q.tasks : Due(q, r, i, j) => Due(q2, r, i, j)
  BY <1>1, <1>2, <1>3 DEF Due
<1>6. \A r, i : Due(q, r, i, Len(q.tasks)) => Due(q2, r, i, n)
  BY <1>1, <1>2, <1>3 DEF Due
<1>7. ASSUME NEW r, NEW i, task.kind = "chunk", task.rec = r,
             task.manifest.n - 1 = i
      PROVE  Due(q2, r, i, n)
  <2>1. n = 1 => q2.pc = "start"
    BY <1>2, <1>3 DEF Shape
  <2>2. n \in DOMAIN q2.tasks /\ n <= n
    BY <1>1, <1>3
  <2> QED BY <1>3, <1>7, <2>1, <2>2 DEF Due
<1>8. TakeBacked(d, g, q2, t2)
  <2> SUFFICES ASSUME t2.manifest \in Manifest,
                      t2.rec \in Recordings \ g.erased,
                      NEW i \in Indexes(t2.manifest.n)
               PROVE  Covered(d, g, q2, t2.rec, i, n)
    BY <1>3 DEF TakeBacked
  <2>1. CASE t.manifest \in Manifest /\ t.rec = t2.rec /\ i \in Indexes(t.manifest.n)
    BY <2>1, <1>6 DEF Backed, TakeBacked, Covered
  <2>2. CASE /\ task.kind = "chunk" /\ task.rec = t2.rec
             /\ task.manifest.n - 1 = i
    BY <2>2, <1>7 DEF Covered
  <2> QED BY <2>1, <2>2
<1>9. QueueBacked(d, g, q2)
  <2> SUFFICES ASSUME NEW j \in DOMAIN q2.tasks, q2.tasks[j].kind \in Saves,
                      NEW r \in Recordings \ g.erased, q2.tasks[j].rec = r,
                      NEW i \in Indexes(q2.tasks[j].manifest.n)
               PROVE  Covered(d, g, q2, r, i, j)
    BY DEF QueueBacked
  <2>1. CASE j = n
    BY <2>1, <1>3, <1>8 DEF TakeBacked
  <2>2. CASE j # n
    <3>1. j \in DOMAIN q.tasks
      BY <2>2, <1>1, <1>3
    <3>2. Covered(d, g, q, r, i, j)
      BY <3>1, <1>3 DEF Backed, QueueBacked
    <3> QED BY <3>1, <3>2, <1>5 DEF Covered
  <2> QED BY <2>1, <2>2
<1> QED BY <1>2, <1>4, <1>8, <1>9 DEF Backed, q2

(* A first task that has gone on takes no due chunk with it.               *)
GoneOn(q) == q.tasks # <<>> /\ (q.pc # "start" \/ q.tasks[1].kind # "chunk")

LEMMA NextPlaceKeeps ==
  ASSUME NEW d, NEW g, NEW q \in Queues, NEW t, NEW q2 \in Queues,
         Shape(q), Backed(d, g, q, t),
         q2.tasks = q.tasks, GoneOn(q), q2.pc # "manifest"
  PROVE  Shape(q2) /\ Backed(d, g, q2, t)
<1>1. Shape(q2)
  BY DEF Shape, GoneOn
<1>2. \A r, i, j : Due(q, r, i, j) => Due(q2, r, i, j)
  BY DEF Due, GoneOn
<1>3. \A r, i, j : Covered(d, g, q, r, i, j) => Covered(d, g, q2, r, i, j)
  BY <1>2 DEF Covered
<1>4. QueueBacked(d, g, q2)
  BY <1>3 DEF Backed, QueueBacked
<1>5. TakeBacked(d, g, q2, t)
  BY <1>3 DEF Backed, TakeBacked
<1> QED BY <1>1, <1>4, <1>5 DEF Backed

LEMMA FinishKeeps ==
  ASSUME NEW d, NEW g, NEW q \in Queues, NEW t, NEW q2,
         Shape(q), Backed(d, g, q, t), GoneOn(q),
         q2 = [EmptyQueue EXCEPT !.tasks = Tail(q.tasks)]
  PROVE  q2 \in Queues /\ Shape(q2) /\ Backed(d, g, q2, t)
<1>1. q.tasks \in Seq(Tasks) /\ Len(q.tasks) \in Nat /\ q.tasks # <<>>
  BY DEF Queues, GoneOn
<1>2. q2.tasks = Tail(q.tasks) /\ q2.pc = "start"
  BY DEF EmptyQueue
<1>3. /\ q2.tasks \in Seq(Tasks)
      /\ Len(q2.tasks) = Len(q.tasks) - 1
      /\ DOMAIN q2.tasks = 1 .. Len(q.tasks) - 1
      /\ DOMAIN q.tasks = 1 .. Len(q.tasks)
      /\ \A k \in DOMAIN q2.tasks : q2.tasks[k] = q.tasks[k + 1]
  BY <1>1, <1>2, HeadTailProperties
<1>4. q2 \in Queues
  BY <1>2, <1>3 DEF Queues, EmptyQueue
<1>5. \A k \in DOMAIN q2.tasks : k + 1 \in DOMAIN q.tasks
  BY <1>1, <1>3
<1>6. Shape(q2)
  BY <1>2, <1>3, <1>5 DEF Shape
<1>7. ASSUME NEW r, NEW i, NEW j \in Nat, Due(q, r, i, j + 1)
      PROVE  Due(q2, r, i, j)
  <2>1. PICK k \in DOMAIN q.tasks :
          /\ k <= j + 1
          /\ q.tasks[k].kind = "chunk"
          /\ q.tasks[k].rec = r
          /\ q.tasks[k].manifest.n - 1 = i
          /\ k = 1 => q.pc = "start"
    BY <1>7 DEF Due
  <2>2. k # 1
    BY <2>1 DEF GoneOn
  <2>3. k - 1 \in DOMAIN q2.tasks /\ (k - 1) + 1 = k /\ k - 1 <= j
    BY <1>1, <1>3, <2>1, <2>2
  <2>4. q2.tasks[k - 1] = q.tasks[k]
    BY <1>3, <2>3
  <2> QED BY <1>2, <2>1, <2>3, <2>4 DEF Due
<1>8. QueueBacked(d, g, q2)
  <2> SUFFICES ASSUME NEW j \in DOMAIN q2.tasks, q2.tasks[j].kind \in Saves,
                      NEW r \in Recordings \ g.erased, q2.tasks[j].rec = r,
                      NEW i \in Indexes(q2.tasks[j].manifest.n)
               PROVE  Covered(d, g, q2, r, i, j)
    BY DEF QueueBacked
  <2>1. j \in Nat /\ j + 1 \in DOMAIN q.tasks /\ q2.tasks[j] = q.tasks[j + 1]
    BY <1>1, <1>3, <1>5
  <2>2. Covered(d, g, q, r, i, j + 1)
    BY <2>1 DEF Backed, QueueBacked
  <2> QED BY <1>7, <2>1, <2>2 DEF Covered
<1>9. TakeBacked(d, g, q2, t)
  <2>1. Len(q2.tasks) \in Nat /\ Len(q2.tasks) + 1 = Len(q.tasks)
    BY <1>1, <1>3
  <2>2. \A r, i : Due(q, r, i, Len(q.tasks)) => Due(q2, r, i, Len(q2.tasks))
    BY <1>7, <2>1
  <2> QED BY <2>2 DEF Backed, TakeBacked, Covered
<1> QED BY <1>4, <1>6, <1>8, <1>9 DEF Backed
(* The first half of a chunk task: its chunk is stored or counted lost.    *)
LEMMA SaveChunkKeeps ==
  ASSUME NEW d \in [Recordings -> Entry], NEW d2,
         NEW g \in Ghosts, NEW g2, NEW q \in Queues, NEW q2 \in Queues, NEW t,
         Shape(q), Backed(d, g, q, t), q.tasks # <<>>,
         q.tasks[1].kind = "chunk", q2.tasks = q.tasks, q2.pc = "manifest",
         g2.erased = g.erased,
         LET r == q.tasks[1].rec
             i == q.tasks[1].manifest.n - 1
         IN \/ d2 = saveChunk(d, r, i) /\ g2.lost = g.lost
            \/ d2 = d /\ g2.lost = [g.lost EXCEPT ![r] = @ \cup {i}]
  PROVE  Shape(q2) /\ Backed(d2, g2, q2, t)
<1> DEFINE r1 == q.tasks[1].rec
           i1 == q.tasks[1].manifest.n - 1
<1>1. Shape(q2)
  BY DEF Shape
<1>2. \A r \in Recordings : d2[r].manifest = d[r].manifest
  BY DEF saveChunk, Entry
<1>3. \A r \in Recordings : \A i : Saved(d, g, r, i) => Saved(d2, g2, r, i)
  BY DEF Saved, saveChunk, Entry, Ghosts
<1>4. r1 \in Recordings => Saved(d2, g2, r1, i1)
  BY DEF Saved, saveChunk, Entry, Ghosts
<1>5. ASSUME NEW r \in Recordings, NEW i, NEW j, Covered(d, g, q, r, i, j)
      PROVE  Covered(d2, g2, q2, r, i, j)
  <2>1. CASE Saved(d, g, r, i)
    BY <2>1, <1>3 DEF Covered
  <2>2. CASE Due(q, r, i, j)
    <3>1. PICK k \in DOMAIN q.tasks :
            /\ k <= j
            /\ q.tasks[k].kind = "chunk"
            /\ q.tasks[k].rec = r
            /\ q.tasks[k].manifest.n - 1 = i
            /\ k = 1 => q.pc = "start"
      BY <2>2 DEF Due
    <3>2. CASE k = 1
      BY <3>1, <3>2, <1>4 DEF Covered
    <3>3. CASE k # 1
      BY <3>1, <3>3 DEF Covered, Due
    <3> QED BY <3>2, <3>3
  <2> QED BY <1>5, <2>1, <2>2 DEF Covered
<1>6. DiskBacked(d2, g2)
  BY <1>2, <1>3 DEF Backed, DiskBacked, Stored
<1>7. QueueBacked(d2, g2, q2)
  BY <1>5 DEF Backed, QueueBacked
<1>8. TakeBacked(d2, g2, q2, t)
  BY <1>5 DEF Backed, TakeBacked
<1> QED BY <1>1, <1>6, <1>7, <1>8 DEF Backed

(* A manifest is saved when the chunks it lists are no longer due.         *)
LEMMA SaveManifestKeeps ==
  ASSUME NEW d \in [Recordings -> Entry], NEW g, NEW q \in Queues, NEW t,
         Shape(q), Backed(d, g, q, t), GoneOn(q), q.tasks[1].kind \in Saves
  PROVE  Backed(saveManifest(d, q.tasks[1].rec, q.tasks[1].manifest), g, q, t)
<1> DEFINE r1 == q.tasks[1].rec
           m1 == q.tasks[1].manifest
           d2 == saveManifest(d, r1, m1)
<1>1. \A r \in Recordings :
        /\ d2[r].chunks = d[r].chunks
        /\ d2[r].manifest = IF r = r1 THEN m1 ELSE d[r].manifest
  BY DEF saveManifest, Entry
<1> HIDE DEF d2
<1>2. \A r \in Recordings : \A i : Saved(d, g, r, i) <=> Saved(d2, g, r, i)
  BY <1>1 DEF Saved
<1>3. \A r \in Recordings : \A i, j : Covered(d, g, q, r, i, j) => Covered(d2, g, q, r, i, j)
  BY <1>2 DEF Covered
<1>4. ASSUME r1 \in Recordings \ g.erased, NEW i \in Indexes(m1.n)
      PROVE  Saved(d2, g, r1, i)
  <2>1. 1 \in DOMAIN q.tasks /\ DOMAIN q.tasks = 1 .. Len(q.tasks)
    BY HeadIsFirst DEF GoneOn, Queues
  <2>2. Covered(d, g, q, r1, i, 1)
    BY <1>4, <2>1 DEF Backed, QueueBacked
  <2>3. ~Due(q, r1, i, 1)
    BY <2>1 DEF Due, GoneOn
  <2> QED BY <1>2, <1>4, <2>2, <2>3 DEF Covered
<1>5. DiskBacked(d2, g)
  BY <1>1, <1>2, <1>4 DEF Backed, DiskBacked, Stored
<1>6. QueueBacked(d2, g, q)
  BY <1>3 DEF Backed, QueueBacked
<1>7. TakeBacked(d2, g, q, t)
  BY <1>3 DEF Backed, TakeBacked
<1> QED BY <1>5, <1>6, <1>7 DEF Backed, d2

(* What is deleted while it is being made counts as erased from then on.   *)
LEMMA DeleteKeeps ==
  ASSUME NEW d \in [Recordings -> Entry], NEW g, NEW g2, NEW q, NEW t, NEW gone,
         Backed(d, g, q, t), g2.lost = g.lost,
         g2.erased = g.erased \cup (gone \cap
           ({t.rec} \cup {q.tasks[j].rec : j \in
              {k \in DOMAIN q.tasks : q.tasks[k].kind \in Saves}}))
  PROVE  Backed(deleteRecordings(d, gone), g2, q, t)
<1> DEFINE d2 == deleteRecordings(d, gone)
<1>1. \A r \in Recordings : IF r \in gone THEN d2[r] = NoEntry ELSE d2[r] = d[r]
  BY DEF deleteRecordings
<1> HIDE DEF d2
<1>2. \A r \in Recordings \ gone : \A i :
        Saved(d, g, r, i) => Saved(d2, g2, r, i)
  BY <1>1 DEF Saved
<1>3. \A r \in Recordings \ gone : \A i, j :
        Covered(d, g, q, r, i, j) => Covered(d2, g2, q, r, i, j)
  BY <1>2 DEF Covered
<1>4. DiskBacked(d2, g2)
  BY <1>1, <1>2 DEF Backed, DiskBacked, Stored, NoEntry
<1>5. QueueBacked(d2, g2, q)
  <2> SUFFICES ASSUME NEW j \in DOMAIN q.tasks, q.tasks[j].kind \in Saves,
                      NEW r \in Recordings \ g2.erased, q.tasks[j].rec = r,
                      NEW i \in Indexes(q.tasks[j].manifest.n)
               PROVE  Covered(d2, g2, q, r, i, j)
    BY DEF QueueBacked
  <2>1. r \notin gone /\ r \notin g.erased
    OBVIOUS
  <2> QED BY <2>1, <1>3 DEF Backed, QueueBacked
<1>6. TakeBacked(d2, g2, q, t)
  BY <1>3 DEF Backed, TakeBacked
<1> QED BY <1>4, <1>5, <1>6 DEF Backed, d2
-----------------------------------------------------------------------------
(* Lemmas about the history                                                *)

LEMMA TroubleIsTyped ==
  ASSUME NEW g \in Ghosts, Trouble(g) \/ StorageTrouble(g)
  PROVE  /\ ghost' \in Ghosts
         /\ ghost'.lost = g.lost
         /\ ghost'.erased = g.erased
<1>1. MaxTrouble \in Nat
  BY BoundAssumption
<1>2. ASSUME NEW h \in Ghosts, Trouble(h)
      PROVE  ghost' \in Ghosts /\ ghost'.lost = h.lost /\ ghost'.erased = h.erased
  BY <1>1, <1>2 DEF Trouble, Ghosts
<1> DEFINE h == [g EXCEPT !.failing = TRUE]
<1>3. h \in Ghosts /\ h.lost = g.lost /\ h.erased = g.erased
  BY DEF Ghosts
<1>4. CASE Trouble(g)
  BY <1>2, <1>4
<1>5. CASE StorageTrouble(g)
  <2>1. Trouble(h)
    BY <1>5 DEF StorageTrouble
  <2> HIDE DEF h
  <2> QED BY <1>2, <1>3, <2>1
<1> QED BY <1>4, <1>5

LEMMA PressIsTyped ==
  ASSUME ghost \in Ghosts, Press
  PROVE  /\ ghost' \in Ghosts
         /\ ghost'.lost = ghost.lost
         /\ ghost'.erased = ghost.erased
<1>1. MaxPresses \in Nat
  BY BoundAssumption
<1> QED BY <1>1 DEF Press, Ghosts

(* Where neither store nor queue change, nor what is being recorded.       *)
LEMMA QuietKeeps ==
  ASSUME IInv, UNCHANGED <<disk, queue>>,
         \/ take'.rec \notin Recordings
         \/ take'.rec = take.rec /\ take'.manifest = take.manifest,
         ghost'.lost = ghost.lost, ghost'.erased = ghost.erased,
         Types', HeldOK', NoOrphanCamera'
  PROVE  IInv'
<1>1. Backed(disk, ghost', queue, take')
  BY FrameBacked DEF IInv
<1> QED BY <1>1 DEF IInv, Shape, Backed, DiskBacked, QueueBacked, TakeBacked,
   Covered, Due, Saved

(* The same for a step that adds a task.                                   *)
LEMMA BusyKeeps ==
  ASSUME IInv, UNCHANGED disk,
         Shape(queue'), Backed(disk, ghost, queue', take'),
         ghost'.lost = ghost.lost, ghost'.erased = ghost.erased,
         Types', HeldOK', NoOrphanCamera'
  PROVE  IInv'
<1>1. Backed(disk, ghost', queue', take')
  BY FrameBacked
<1> QED BY <1>1 DEF IInv, Shape, Backed, DiskBacked, QueueBacked, TakeBacked,
   Covered, Due, Saved

(* And for one that writes to the store, too.                              *)
LEMMA StoreKeeps ==
  ASSUME Shape(queue'), Backed(disk', ghost', queue', take'),
         Types', HeldOK', NoOrphanCamera'
  PROVE  IInv'
BY DEF IInv, Shape, Backed, DiskBacked, QueueBacked, TakeBacked, Covered, Due,
   Saved

-----------------------------------------------------------------------------
(* The camera                                                              *)

LEMMA PreviewKeeps ==
  ASSUME IInv, Preview
  PROVE  IInv'
<1>1. PICK id \in Streams :
        \/ handleStartPreview(id)
        \/ (MediaGranted(id) \/ MediaRefused(id)) /\ UNCHANGED ghost
  BY DEF Preview
<1>2. UNCHANGED <<disk, snap, recorder, take, queue, shown, recovered>>
  BY DEF Preview
<1>3. /\ ghost' \in Ghosts
      /\ ghost'.lost = ghost.lost
      /\ ghost'.erased = ghost.erased
  BY <1>1, PressIsTyped DEF handleStartPreview, IInv, Types
<1>4. camera' \in Cameras /\ camera'.live \subseteq {camera'.stream}
  <2>1. camera \in Cameras /\ camera.live \subseteq {camera.stream}
    BY DEF IInv, Types, NoOrphanCamera
  <2>2. CASE handleStartPreview(id)
    BY <2>1, <2>2 DEF handleStartPreview, Cameras
  <2>3. CASE MediaGranted(id)
    BY <2>1, <2>3 DEF MediaGranted, Cameras
  <2>4. CASE MediaRefused(id)
    BY <2>1, <2>4 DEF MediaRefused, Cameras
  <2> QED BY <1>1, <2>2, <2>3, <2>4
<1>5. Types'
  BY <1>2, <1>3, <1>4 DEF IInv, Types
<1>6. HeldOK'
  BY <1>2 DEF IInv, HeldOK
<1>7. NoOrphanCamera'
  BY <1>4 DEF NoOrphanCamera
<1> QED BY <1>2, <1>3, <1>5, <1>6, <1>7, QuietKeeps

LEMMA NoCameraIsTyped ==
  ASSUME camera \in Cameras, NoOrphanCamera
  PROVE  NoCamera \in Cameras /\ NoCamera.live = {}
BY DEF NoCamera, Cameras, NoOrphanCamera

LEMMA DeviceLostKeeps ==
  ASSUME IInv, DeviceLost
  PROVE  IInv'
<1>1. /\ camera' \in Cameras
      /\ camera'.live \subseteq {camera'.stream}
  BY DEF IInv, Types, NoOrphanCamera, DeviceLost, Cameras
<1>2. recorder' \in Recorders /\ recorder'.held = recorder.held
  BY DEF IInv, Types, DeviceLost, Recorders
<1>3. /\ ghost' \in Ghosts
      /\ ghost'.lost = ghost.lost
      /\ ghost'.erased = ghost.erased
  BY TroubleIsTyped DEF DeviceLost, IInv, Types
<1>4. UNCHANGED <<disk, snap, take, queue, shown, recovered>>
  BY DEF DeviceLost
<1>5. Types'
  BY <1>1, <1>2, <1>3, <1>4 DEF IInv, Types
<1>6. HeldOK' /\ NoOrphanCamera'
  BY <1>1, <1>2, <1>4 DEF IInv, HeldOK, NoOrphanCamera
<1> QED BY <1>3, <1>4, <1>5, <1>6, QuietKeeps

-----------------------------------------------------------------------------
(* The page                                                                *)

LEMMA BlankIsTyped ==
  /\ NoRecorder \in Recorders /\ NoRecorder.held = FALSE
  /\ NoTake \in Takes /\ NoTake.rec \notin Recordings
  /\ Unchecked \in Panels
  /\ NotRecovered \in Previews
  /\ EmptyQueue \in Queues /\ EmptyQueue.tasks = <<>>
  /\ EmptyQueue.pc = "start"
BY RecordingAssumption
   DEF NoRecorder, Recorders, NoTake, Takes, Recordings, Unchecked, Panels,
       Supports, BlankList, NotRecovered, Previews, EmptyQueue, Queues

(* Nothing is in the queue, nothing in memory: only the disk counts.       *)
LEMMA EmptyKeeps ==
  ASSUME NEW d, NEW g, NEW q, NEW t, DiskBacked(d, g), q = EmptyQueue, t = NoTake
  PROVE  Shape(q) /\ Backed(d, g, q, t)
BY BlankIsTyped DEF Shape, Backed, QueueBacked, TakeBacked

LEMMA LeaveKeeps ==
  ASSUME IInv, Leave
  PROVE  IInv'
<1>1. /\ ghost' \in Ghosts
      /\ ghost'.lost = ghost.lost
      /\ ghost'.erased = ghost.erased
  BY PressIsTyped DEF Leave, IInv, Types
<1>2. /\ UNCHANGED <<disk, queue>>
      /\ camera' = NoCamera
      /\ snap' = "idle"
      /\ recorder' = NoRecorder
      /\ take' = NoTake
      /\ shown' = Unchecked
      /\ recovered' = NotRecovered
  BY DEF Leave
<1>3. NoCamera \in Cameras /\ NoCamera.live = {}
  BY NoCameraIsTyped DEF IInv, Types
<1>4. Types'
  BY <1>1, <1>2, <1>3, BlankIsTyped DEF IInv, Types, SnapStates
<1>5. HeldOK' /\ NoOrphanCamera'
  BY <1>2, <1>3, BlankIsTyped DEF HeldOK, NoOrphanCamera
<1> QED BY <1>1, <1>2, <1>4, <1>5, BlankIsTyped, QuietKeeps

LEMMA CrashKeeps ==
  ASSUME IInv, Crash
  PROVE  IInv'
<1>1. /\ ghost' \in Ghosts
      /\ ghost'.lost = ghost.lost
      /\ ghost'.erased = ghost.erased
  BY TroubleIsTyped DEF Crash, IInv, Types
<1>2. /\ UNCHANGED disk
      /\ snap' = "idle"
      /\ recorder' = NoRecorder
      /\ take' = NoTake
      /\ queue' = EmptyQueue
      /\ shown' = Unchecked
      /\ recovered' = NotRecovered
  BY DEF Crash
<1>3. camera' \in Cameras /\ camera'.live = {}
  BY DEF IInv, Types, Crash, Cameras
<1>4. Types'
  BY <1>1, <1>2, <1>3, BlankIsTyped DEF IInv, Types, SnapStates
<1>5. HeldOK' /\ NoOrphanCamera'
  BY <1>2, <1>3, BlankIsTyped DEF HeldOK, NoOrphanCamera
<1>6. DiskBacked(disk, ghost)
  BY DEF IInv, Backed
<1>7. Shape(queue') /\ Backed(disk, ghost, queue', take')
  BY <1>2, <1>6, EmptyKeeps
<1> QED BY <1>1, <1>2, <1>4, <1>5, <1>7, BusyKeeps
LEMMA ReturnKeeps ==
  ASSUME IInv, Return
  PROVE  IInv'
<1>1. UNCHANGED <<disk, camera, snap, recorder, take, queue, shown, recovered, ghost>>
  BY DEF Return
<1> QED BY <1>1, QuietKeeps DEF IInv, Types, HeldOK, NoOrphanCamera

(* What the panel shows of the storage is well typed, whatever was read.   *)
LEMMA PanelsAreTyped ==
  ASSUME Types
  PROVE  /\ \A r \in {0} \cup Recordings : Listed(r) \in Panels
         /\ Unlisted \in Panels
         /\ \A s \in Panels : \A r :
              /\ Checked(r, s) \in Panels
              /\ Uncheckable(r, s) \in Panels
              /\ Deleted(s) \in Panels
<1>1. listRecordings(disk) \in [Recordings -> Manifest \cup {None}]
  BY DEF Types, listRecordings, Entry
<1>2. \A r \in {0} \cup Recordings : Listed(r) \in Panels
  BY <1>1 DEF Types, Listed, Panels, Supports
<1>3. Unlisted \in Panels
  BY DEF Types, Unlisted, Panels, Supports
<1>4. ASSUME NEW s \in Panels, NEW r
      PROVE  /\ Checked(r, s) \in Panels
             /\ Uncheckable(r, s) \in Panels
             /\ Deleted(s) \in Panels
  <2>1. integrityStatus(disk[r]) \in {None, "healthy", "warning", "unknown"}
    BY DEF integrityStatus, matchesManifest
  <2>2. Checked(r, s) \in Panels
    BY <2>1 DEF Checked, Panels
  <2>3. Uncheckable(r, s) \in Panels
    BY DEF Uncheckable, Panels
  <2>4. idlePersistenceStatus(Head1.support) \in {"available", "failed", "not_checked"}
    BY DEF idlePersistenceStatus
  <2>5. Deleted(s) \in Panels
    BY <2>4 DEF Deleted, Panels
  <2> QED BY <2>2, <2>3, <2>5
<1> QED BY <1>2, <1>3, <1>4

LEMMA OpeningKeeps ==
  ASSUME IInv, OpeningStep
  PROVE  IInv'
<1>1. /\ UNCHANGED <<disk, camera, snap, recorder, take, queue, recovered>>
      /\ Types
      /\ ghost \in Ghosts
  BY DEF OpeningStep, initializePersistenceSupport, InitialList, IInv, Types
<1>2. shown' \in Panels
  <2>1. CASE initializePersistenceSupport
    <3>1. BlankList \in [Recordings -> Manifest \cup {None}]
      BY DEF BlankList
    <3>2. \/ shown' = [shown EXCEPT !.support = "supported", !.status = "available"]
          \/ shown' = [shown EXCEPT !.support = "failed", !.status = "failed",
                                    !.list = BlankList, !.current = FALSE]
      BY <2>1 DEF initializePersistenceSupport
    <3> QED BY <1>1, <3>1, <3>2 DEF Types, Panels, Supports
  <2>2. CASE InitialList
    BY <1>1, <2>2, PanelsAreTyped DEF InitialList
  <2> QED BY <2>1, <2>2 DEF OpeningStep
<1>3. UNCHANGED ghost \/ StorageTrouble(ghost)
  BY DEF OpeningStep, initializePersistenceSupport, InitialList
<1>4. /\ ghost' \in Ghosts
      /\ ghost'.lost = ghost.lost
      /\ ghost'.erased = ghost.erased
  BY <1>1, <1>3, TroubleIsTyped
<1>5. Types' /\ HeldOK' /\ NoOrphanCamera'
  BY <1>1, <1>2, <1>4 DEF IInv, Types, HeldOK, NoOrphanCamera
<1> QED BY <1>1, <1>4, <1>5, QuietKeeps

-----------------------------------------------------------------------------
(* The steps of the first task                                             *)

LEMMA SaveChunkStepKeeps ==
  ASSUME IInv, SaveChunk
  PROVE  IInv'
<1> DEFINE r == queue.tasks[1].rec
           m == queue.tasks[1].manifest
           i == m.n - 1
<1>1. /\ queue.tasks # <<>>
      /\ Head1 = queue.tasks[1]
      /\ queue.tasks[1] \in Tasks
      /\ queue.tasks[1].kind = "chunk"
      /\ 1 \in DOMAIN queue.tasks
      /\ UNCHANGED <<camera, snap, recorder, take, shown, recovered>>
  BY HeadIsFirst DEF SaveChunk, AtTask, At, Head1, IInv, Types
<1>2. /\ r \in {0} \cup Recordings
      /\ i \in Indexes(MaxChunks)
      /\ i \in Int
  <2>1. m \in Manifest /\ m.n > 0
    BY <1>1 DEF IInv, Shape, Saves
  <2>2. m.n \in Nat /\ m.n <= MaxChunks
    BY <2>1, RecordingAssumption DEF Manifest
  <2> QED BY <1>1, <2>1, <2>2, RecordingAssumption DEF Tasks, Indexes
<1>3. \/ /\ disk' = saveChunk(disk, r, i)
         /\ queue' = [queue EXCEPT !.pc = "manifest"]
         /\ UNCHANGED ghost
      \/ /\ queue' = [queue EXCEPT !.pc = "manifest", !.bad = TRUE]
         /\ StorageTrouble([ghost EXCEPT !.lost[r] = @ \cup {i}])
         /\ UNCHANGED disk
  BY <1>1 DEF SaveChunk, To
<1> HIDE DEF i, r, m
<1>4. /\ queue' \in Queues
      /\ queue'.tasks = queue.tasks
      /\ queue'.pc = "manifest"
  BY <1>3 DEF IInv, Types, Queues
<1>5. disk' \in [Recordings -> Entry]
  BY <1>2, <1>3 DEF IInv, Types, saveChunk, Entry
<1>6. /\ ghost' \in Ghosts
      /\ ghost'.erased = ghost.erased
      /\ \/ disk' = saveChunk(disk, r, i) /\ ghost'.lost = ghost.lost
         \/ disk' = disk /\ ghost'.lost = [ghost.lost EXCEPT ![r] = @ \cup {i}]
  <2> DEFINE g == [ghost EXCEPT !.lost[r] = @ \cup {i}]
  <2>1. /\ g \in Ghosts
        /\ g.lost = [ghost.lost EXCEPT ![r] = @ \cup {i}]
        /\ g.erased = ghost.erased
    BY <1>2 DEF IInv, Types, Ghosts
  <2> HIDE DEF g
  <2>2. CASE UNCHANGED ghost
    BY <2>2, <1>3, TroubleIsTyped, <2>1 DEF IInv, Types, g
  <2>3. CASE StorageTrouble(g) /\ UNCHANGED disk
    BY <2>1, <2>3, TroubleIsTyped
  <2> QED BY <1>3, <2>2, <2>3 DEF g
<1>7. Shape(queue') /\ Backed(disk', ghost', queue', take)
  BY <1>1, <1>4, <1>6, SaveChunkKeeps DEF IInv, Types, r, i, m
<1>8. Types' /\ HeldOK' /\ NoOrphanCamera'
  BY <1>1, <1>4, <1>5, <1>6 DEF IInv, Types, HeldOK, NoOrphanCamera
<1> QED BY <1>1, <1>7, <1>8, StoreKeeps

LEMMA SaveManifestStepKeeps ==
  ASSUME IInv, SaveManifest
  PROVE  IInv'
<1> DEFINE r == queue.tasks[1].rec
           m == queue.tasks[1].manifest
<1>1. /\ queue.tasks # <<>>
      /\ Head1 = queue.tasks[1]
      /\ queue.tasks[1] \in Tasks
      /\ 1 \in DOMAIN queue.tasks
      /\ queue.tasks[1].kind \in Saves
      /\ GoneOn(queue)
      /\ UNCHANGED <<camera, snap, recorder, take, shown, recovered>>
  <2>1. queue.tasks # <<>>
    BY DEF SaveManifest, AtTask, At
  <2> QED BY <2>1, HeadIsFirst
          DEF SaveManifest, AtTask, At, Head1, IInv, Types, Shape, GoneOn, Saves
<1>2. \/ disk' = saveManifest(disk, r, m) /\ UNCHANGED ghost
      \/ UNCHANGED disk /\ StorageTrouble(ghost)
  BY <1>1 DEF SaveManifest
<1>3. /\ queue' \in Queues
      /\ queue'.tasks = queue.tasks
      /\ queue'.pc # "manifest"
  BY DEF IInv, Types, Queues, SaveManifest, To
<1>4. m \in Manifest
  BY <1>1 DEF IInv, Shape
<1>5. disk' \in [Recordings -> Entry]
  BY <1>2, <1>4 DEF IInv, Types, saveManifest, Entry
<1>6. /\ ghost' \in Ghosts
      /\ ghost'.lost = ghost.lost
      /\ ghost'.erased = ghost.erased
  BY <1>2, TroubleIsTyped DEF IInv, Types
<1>7. Backed(disk', ghost, queue, take)
  BY <1>1, <1>2, SaveManifestKeeps DEF IInv, Types
<1>8. Shape(queue') /\ Backed(disk', ghost, queue', take)
  BY <1>1, <1>3, <1>7, NextPlaceKeeps DEF IInv, Types
<1>9. Backed(disk', ghost', queue', take)
  BY <1>6, <1>8, FrameBacked
<1>10. Types' /\ HeldOK' /\ NoOrphanCamera'
  BY <1>1, <1>3, <1>5, <1>6 DEF IInv, Types, HeldOK, NoOrphanCamera
<1> QED BY <1>1, <1>8, <1>9, <1>10, StoreKeeps

(* A task that ends takes nothing with it that is still due.               *)
LEMMA FinishedIsTyped ==
  ASSUME IInv, GoneOn(queue), Finish
  PROVE  /\ queue' \in Queues
         /\ Shape(queue')
         /\ Backed(disk, ghost, queue', take)
BY FinishKeeps DEF IInv, Types, Finish

LEMMA AfterSaveKeeps ==
  ASSUME IInv, AfterSave
  PROVE  IInv'
<1>1. /\ queue.tasks # <<>>
      /\ Head1 = queue.tasks[1]
      /\ queue.tasks[1] \in Tasks
      /\ GoneOn(queue)
      /\ UNCHANGED <<disk, camera, snap, recorder, take, recovered, ghost>>
  <2>1. queue.tasks # <<>>
    BY DEF AfterSave, At
  <2> QED BY <2>1, HeadIsFirst DEF AfterSave, At, Head1, IInv, Types, GoneOn
<1>2. /\ queue' \in Queues
      /\ Shape(queue')
      /\ Backed(disk, ghost, queue', take)
      /\ shown' \in Panels
  <2>1. CASE Finish /\ UNCHANGED shown
    BY <1>1, <2>1, FinishedIsTyped DEF IInv, Types
  <2>2. CASE /\ queue' = [queue EXCEPT !.active = Head1.rec,
                  !.pc = CASE queue.pc = "saved" -> "refresh"
                           [] queue.pc = "unsaved" /\ Head1.kind = "chunk" -> "relist"
                           [] OTHER -> "resum"]
             /\ shown' = IF queue.pc = "saved" THEN shown
                         ELSE [shown EXCEPT !.status = "failed"]
    <3>1. Head1.rec \in {0} \cup Recordings
      BY <1>1 DEF Tasks
    <3>2. /\ queue' \in Queues
          /\ queue'.tasks = queue.tasks
          /\ queue'.pc # "manifest"
      BY <2>2, <3>1 DEF IInv, Types, Queues
    <3>3. shown' \in Panels
      BY <2>2 DEF IInv, Types, Panels
    <3> QED BY <1>1, <3>2, <3>3, NextPlaceKeeps DEF IInv, Types
  <2> QED BY <2>1, <2>2 DEF AfterSave
<1>3. Types' /\ HeldOK' /\ NoOrphanCamera'
  BY <1>1, <1>2 DEF IInv, Types, HeldOK, NoOrphanCamera
<1> QED BY <1>1, <1>2, <1>3, BusyKeeps
LEMMA DeleteStepKeeps ==
  ASSUME IInv, Delete
  PROVE  IInv'
<1>1. /\ queue.tasks # <<>>
      /\ Head1 \in Tasks
      /\ GoneOn(queue)
      /\ UNCHANGED <<camera, snap, recorder, take, shown, recovered>>
  <2>1. queue.tasks # <<>> /\ Head1.kind # "chunk"
    BY DEF Delete, AtTask, At, Deletes
  <2> QED BY <2>1, HeadIsFirst DEF Delete, Head1, IInv, Types, GoneOn
<1>2. /\ queue' \in Queues
      /\ queue'.tasks = queue.tasks
      /\ queue'.pc # "manifest"
  BY DEF Delete, To, IInv, Types, Queues
<1>3. PICK gone \in SUBSET ({0} \cup Recordings) :
        \/ /\ disk' = deleteRecordings(disk, gone)
           /\ ghost' = [ghost EXCEPT !.erased = @ \cup (gone \cap BeingMade)]
        \/ UNCHANGED disk /\ StorageTrouble(ghost)
  <2>1. Head1.rec \in {0} \cup Recordings
    BY <1>1 DEF Tasks
  <2> DEFINE all == IF Head1.kind # "clear" THEN {Head1.rec}
                    ELSE IF page.memo = "failed" THEN {} ELSE Recordings
  <2>2. all \in SUBSET ({0} \cup Recordings)
    BY <2>1
  <2>3. \/ /\ disk' = deleteRecordings(disk, all)
           /\ ghost' = [ghost EXCEPT !.erased = @ \cup (all \cap BeingMade)]
        \/ UNCHANGED disk /\ StorageTrouble(ghost)
    BY DEF Delete
  <2> HIDE DEF all
  <2> QED BY <2>2, <2>3
<1>4. /\ disk' \in [Recordings -> Entry]
      /\ ghost' \in Ghosts
      /\ Backed(disk', ghost', queue, take)
  <2>1. CASE /\ disk' = deleteRecordings(disk, gone)
             /\ ghost' = [ghost EXCEPT !.erased = @ \cup (gone \cap BeingMade)]
    <3>1. disk' \in [Recordings -> Entry]
      BY <2>1 DEF IInv, Types, deleteRecordings, NoEntry, Entry
    <3>2. /\ ghost' \in Ghosts
          /\ ghost'.lost = ghost.lost
          /\ ghost'.erased = ghost.erased \cup (gone \cap BeingMade)
      BY <2>1 DEF IInv, Types, Ghosts
    <3>3. Backed(disk', ghost', queue, take)
      BY <2>1, <3>2, DeleteKeeps DEF IInv, Types, BeingMade, Saves
    <3> QED BY <3>1, <3>2, <3>3
  <2>2. CASE UNCHANGED disk /\ StorageTrouble(ghost)
    <3>1. /\ ghost' \in Ghosts
          /\ ghost'.lost = ghost.lost
          /\ ghost'.erased = ghost.erased
      BY <2>2, TroubleIsTyped DEF IInv, Types
    <3>2. Backed(disk, ghost', queue, take)
      BY <3>1, FrameBacked DEF IInv
    <3> QED BY <2>2, <3>1, <3>2 DEF IInv, Types
  <2> QED BY <1>3, <2>1, <2>2
<1>5. Shape(queue') /\ Backed(disk', ghost', queue', take)
  BY <1>1, <1>2, <1>4, NextPlaceKeeps DEF IInv, Types
<1>6. Types' /\ HeldOK' /\ NoOrphanCamera'
  BY <1>1, <1>2, <1>4 DEF IInv, Types, HeldOK, NoOrphanCamera
<1> QED BY <1>1, <1>5, <1>6, StoreKeeps

LEMMA AfterDeleteKeeps ==
  ASSUME IInv, AfterDelete
  PROVE  IInv'
<1>1. /\ queue.tasks # <<>>
      /\ Head1 \in Tasks
      /\ GoneOn(queue)
      /\ UNCHANGED <<disk, camera, snap, recorder, ghost>>
  <2>1. queue.tasks # <<>>
    BY DEF AfterDelete, At
  <2> QED BY <2>1, HeadIsFirst DEF AfterDelete, At, Head1, IInv, Types, GoneOn
<1>2. CASE Finish /\ UNCHANGED <<take, shown, recovered>>
  <2>1. queue' \in Queues /\ Shape(queue') /\ Backed(disk, ghost, queue', take)
    BY <1>1, <1>2, FinishedIsTyped
  <2>2. Types' /\ HeldOK' /\ NoOrphanCamera'
    BY <1>1, <1>2, <2>1 DEF IInv, Types, HeldOK, NoOrphanCamera
  <2> QED BY <1>1, <1>2, <2>1, <2>2, BusyKeeps
<1>3. CASE Mounted
  <2> DEFINE current == IF ~(Head1.kind = "clear") /\ take.current = Head1.rec
                        THEN 0 ELSE take.current
  <2>1. /\ take' = [take EXCEPT !.current = current]
        /\ queue' = [queue EXCEPT !.pc = "refresh", !.active = current]
        /\ recovered' \in {recovered, NotRecovered}
    BY <1>3 DEF AfterDelete, clearRecovered
  <2>2. current \in {0} \cup Recordings
    BY DEF IInv, Types, Takes
  <2> HIDE DEF current
  <2>3. /\ take' \in Takes
        /\ take'.rec = take.rec
        /\ take'.manifest = take.manifest
    BY <2>1, <2>2 DEF IInv, Types, Takes
  <2>4. /\ queue' \in Queues
        /\ queue'.tasks = queue.tasks
        /\ queue'.pc # "manifest"
    BY <2>1, <2>2 DEF IInv, Types, Queues
  <2>5. Shape(queue') /\ Backed(disk, ghost, queue', take)
    BY <1>1, <2>4, NextPlaceKeeps DEF IInv, Types
  <2>6. Backed(disk, ghost, queue', take')
    BY <2>3, <2>5, FrameBacked
  <2>7. shown' \in Panels
    <3>1. PICK reports \in [Recordings -> {None, "healthy", "warning", "unknown"}] :
            shown' = [shown EXCEPT !.check = "idle", !.reports = reports]
      <4> DEFINE cleared == [q \in Recordings |->
                    IF Head1.kind = "clear" \/ q = Head1.rec THEN None
                    ELSE shown.reports[q]]
      <4>1. shown' = [shown EXCEPT !.check = "idle", !.reports = cleared]
        BY <1>3 DEF AfterDelete
      <4>2. cleared \in [Recordings -> {None, "healthy", "warning", "unknown"}]
        BY DEF IInv, Types, Panels
      <4> HIDE DEF cleared
      <4> QED BY <4>1, <4>2
    <3> QED BY <3>1 DEF IInv, Types, Panels
  <2>8. Types' /\ HeldOK' /\ NoOrphanCamera'
    BY <1>1, <2>1, <2>3, <2>4, <2>7, BlankIsTyped
       DEF IInv, Types, HeldOK, NoOrphanCamera
  <2> QED BY <1>1, <2>5, <2>6, <2>8, BusyKeeps
<1> QED BY <1>2, <1>3 DEF AfterDelete

LEMMA EndingTasksKeep ==
  ASSUME IInv, AfterFailedDelete \/ Refresh \/ CheckOne
  PROVE  IInv'
<1>1. /\ GoneOn(queue)
      /\ Head1 \in Tasks
      /\ Finish
      /\ UNCHANGED <<disk, camera, snap, recorder, take, recovered>>
  <2>1. queue.tasks # <<>>
    BY DEF AfterFailedDelete, Refresh, CheckOne, AtTask, At
  <2> QED BY <2>1, HeadIsFirst
          DEF AfterFailedDelete, Refresh, CheckOne, AtTask, At, Head1, IInv,
              Types, GoneOn
<1>2. queue' \in Queues /\ Shape(queue') /\ Backed(disk, ghost, queue', take)
  BY <1>1, FinishedIsTyped
<1>3. /\ Types
      /\ shown \in Panels
      /\ queue.active \in {0} \cup Recordings
  BY DEF IInv, Types, Queues
<1>4. shown' \in Panels
  <2>1. CASE AfterFailedDelete
    BY <1>3, <2>1 DEF AfterFailedDelete, Panels
  <2>2. CASE Refresh
    <3>1. \A s \in Panels : Refreshed(s) \in Panels
      BY <1>3, PanelsAreTyped DEF Refreshed
    <3> QED BY <1>3, <2>2, <3>1, PanelsAreTyped DEF Refresh
  <2>3. CASE CheckOne
    <3> DEFINE ended == IF Head1.newest THEN [shown EXCEPT !.check = "ready"]
                        ELSE shown
    <3>1. ended \in Panels
      BY <1>3 DEF Panels
    <3>2. shown' \in {shown, Checked(Head1.rec, ended), Uncheckable(Head1.rec, ended)}
      BY <2>3 DEF CheckOne
    <3> HIDE DEF ended
    <3> QED BY <1>3, <3>1, <3>2, PanelsAreTyped
  <2> QED BY <2>1, <2>2, <2>3
<1>5. UNCHANGED ghost \/ StorageTrouble(ghost)
  BY DEF AfterFailedDelete, Refresh, CheckOne
<1>6. /\ ghost' \in Ghosts
      /\ ghost'.lost = ghost.lost
      /\ ghost'.erased = ghost.erased
  BY <1>5, TroubleIsTyped DEF IInv, Types
<1>7. Types' /\ HeldOK' /\ NoOrphanCamera'
  BY <1>1, <1>2, <1>4, <1>6 DEF IInv, Types, HeldOK, NoOrphanCamera
<1> QED BY <1>1, <1>2, <1>6, <1>7, BusyKeeps

LEMMA TaskStepKeeps ==
  ASSUME IInv, TaskStep
  PROVE  IInv'
BY SaveChunkStepKeeps, SaveManifestStepKeeps, AfterSaveKeeps, DeleteStepKeeps,
   AfterDeleteKeeps, EndingTasksKeep DEF TaskStep

-----------------------------------------------------------------------------
(* The previews and the list                                               *)

LEMMA BuildPreviewKeeps ==
  ASSUME IInv, BuildPreview
  PROVE  IInv'
<1>1. UNCHANGED <<disk, camera, snap, recorder, take, queue, shown, recovered, ghost>>
  BY DEF BuildPreview
<1> QED BY <1>1, QuietKeeps DEF IInv, Types, HeldOK, NoOrphanCamera

LEMMA RecoveryKeeps ==
  ASSUME IInv, PreviewSaved \/ LoadGoesOn
  PROVE  IInv'
<1>1. UNCHANGED <<disk, camera, snap, recorder, take, queue, shown>>
  BY DEF PreviewSaved, LoadGoesOn
<1>2. /\ recovered \in Previews
      /\ disk \in [Recordings -> Entry]
      /\ ghost \in Ghosts
  BY DEF IInv, Types
<1>3. recovered' \in Previews
  <2>1. CASE PreviewSaved
    BY <2>1, <1>2 DEF PreviewSaved, loadRecoveredPreview, Previews
  <2>2. CASE LoadChunks
    BY <2>2, <1>2 DEF LoadChunks, Previews
  <2>3. CASE LoadBlob
    <3>1. disk[recovered.rec].chunks \in SUBSET Indexes(MaxChunks)
      BY <2>3, <1>2 DEF LoadBlob, Previews, Entry
    <3> QED BY <2>3, <1>2, <3>1 DEF LoadBlob, Previews
  <2>4. CASE LoadEnds
    BY <2>4, <1>2, BlankIsTyped DEF LoadEnds, Previews, NotRecovered
  <2> QED BY <2>1, <2>2, <2>3, <2>4 DEF LoadGoesOn
<1>4. /\ ghost' \in Ghosts
      /\ ghost'.lost = ghost.lost
      /\ ghost'.erased = ghost.erased
  BY <1>2, PressIsTyped DEF PreviewSaved, LoadGoesOn
<1>5. Types' /\ HeldOK' /\ NoOrphanCamera'
  BY <1>1, <1>3, <1>4 DEF IInv, Types, HeldOK, NoOrphanCamera
<1> QED BY <1>1, <1>4, <1>5, QuietKeeps
LEMMA RefreshSummaryKeeps ==
  ASSUME IInv, RefreshSummary
  PROVE  IInv'
<1>1. UNCHANGED <<disk, camera, snap, recorder, take, queue, shown, recovered>>
  BY DEF RefreshSummary
<1>2. /\ ghost' \in Ghosts
      /\ ghost'.lost = ghost.lost
      /\ ghost'.erased = ghost.erased
  BY PressIsTyped DEF RefreshSummary, IInv, Types
<1>3. Types' /\ HeldOK' /\ NoOrphanCamera'
  BY <1>1, <1>2 DEF IInv, Types, HeldOK, NoOrphanCamera
<1> QED BY <1>1, <1>2, <1>3, QuietKeeps

(* A task of the list neither saves anything nor changes what waits.       *)
LEMMA RequestKeeps ==
  ASSUME IInv, NEW q \in Queues, Shape(q), Backed(disk, ghost, q, take),
         NEW task \in Tasks, task.kind \notin Saves,
         UNCHANGED <<disk, camera, snap, recorder, take, recovered>>,
         queue' = enqueue(q, task), shown' \in Panels,
         ghost' \in Ghosts, ghost'.lost = ghost.lost, ghost'.erased = ghost.erased
  PROVE  IInv'
<1>1. task.kind # "chunk"
  BY DEF Saves
<1>2. \A i \in Indexes(take.manifest.n) :
        take.manifest \in Manifest /\ take.rec \in Recordings =>
          i \in Indexes(take.manifest.n)
  OBVIOUS
<1>3. queue' \in Queues /\ Shape(queue') /\ Backed(disk, ghost, queue', take)
  BY <1>1, <1>2, EnqueueKeeps
<1>4. Types' /\ HeldOK' /\ NoOrphanCamera'
  BY <1>3 DEF IInv, Types, HeldOK, NoOrphanCamera
<1> QED BY <1>3, <1>4, BusyKeeps

LEMMA TaskIsTyped ==
  ASSUME Types, NEW kind \in {"manifest", "chunk", "check"} \cup Deletes,
         NEW r \in {0} \cup Recordings, NEW m \in Manifest \cup {None}
  PROVE  /\ Task(kind, r, m) \in Tasks
         /\ Task(kind, r, m).kind = kind
         /\ Task(kind, r, m).rec = r
         /\ Task(kind, r, m).manifest = m
<1>1. shown.support \in Supports
  BY DEF Types, Panels
<1> QED BY <1>1 DEF Task, Tasks

Overtaken(task) == [task EXCEPT !.newest = @ /\ task.kind # "check"]

LEMMA OvertakenIsTyped ==
  ASSUME NEW task \in Tasks
  PROVE  /\ Overtaken(task) \in Tasks
         /\ Overtaken(task).kind = task.kind
         /\ Overtaken(task).rec = task.rec
         /\ Overtaken(task).manifest = task.manifest
<1> DEFINE newest == task.newest /\ task.kind # "check"
<1>1. newest \in BOOLEAN
  OBVIOUS
<1>2. Overtaken(task) = [task EXCEPT !.newest = newest]
  BY DEF Overtaken
<1> HIDE DEF newest
<1> QED BY <1>1, <1>2 DEF Tasks

(* The checks that are overtaken keep their places.                        *)
LEMMA OvertakenKeeps ==
  ASSUME NEW d, NEW g, NEW q \in Queues, NEW t, Shape(q), Backed(d, g, q, t),
         NEW q2,
         q2 = [q EXCEPT !.tasks = [i \in DOMAIN q.tasks |-> Overtaken(q.tasks[i])]]
  PROVE  q2 \in Queues /\ Shape(q2) /\ Backed(d, g, q2, t)
<1>1. q.tasks \in Seq(Tasks) /\ Len(q.tasks) \in Nat /\ DOMAIN q.tasks = 1 .. Len(q.tasks)
  BY DEF Queues
<1> DEFINE ts == [i \in DOMAIN q.tasks |-> Overtaken(q.tasks[i])]
<1>2. \A i \in DOMAIN q.tasks :
        /\ ts[i] \in Tasks
        /\ ts[i].kind = q.tasks[i].kind
        /\ ts[i].rec = q.tasks[i].rec
        /\ ts[i].manifest = q.tasks[i].manifest
  BY <1>1, OvertakenIsTyped
<1>3. DOMAIN ts = DOMAIN q.tasks
  OBVIOUS
<1>4. q2.tasks = ts /\ q2.pc = q.pc
  BY DEF Queues
<1>5. ts \in [1 .. Len(q.tasks) -> Tasks]
  BY <1>1, <1>2
<1> HIDE DEF ts
<1>6. ts \in Seq(Tasks) /\ Len(ts) = Len(q.tasks)
  BY <1>1, <1>5, <1>3, IsASeq, LenProperties
<1>7. q2 \in Queues
  BY <1>4, <1>6 DEF Queues, ts
<1>8. Shape(q2)
  <2>1. q2.tasks = <<>> <=> q.tasks = <<>>
    BY <1>1, <1>4, <1>6
  <2>2. q.tasks # <<>> => 1 \in DOMAIN q.tasks
    BY <1>1
  <2> QED BY <1>2, <1>3, <1>4, <2>1, <2>2 DEF Shape
<1>9. \A r, i, j : Due(q, r, i, j) => Due(q2, r, i, j)
  BY <1>2, <1>3, <1>4 DEF Due
<1>10. \A r, i, j : Covered(d, g, q, r, i, j) => Covered(d, g, q2, r, i, j)
  BY <1>9 DEF Covered
<1>11. QueueBacked(d, g, q2)
  BY <1>2, <1>3, <1>4, <1>10 DEF Backed, QueueBacked
<1>12. TakeBacked(d, g, q2, t)
  BY <1>4, <1>6, <1>10 DEF Backed, TakeBacked
<1> QED BY <1>7, <1>8, <1>11, <1>12 DEF Backed

LEMMA ListButtonKeeps ==
  ASSUME IInv, ListButton
  PROVE  IInv'
<1>1. UNCHANGED <<disk, camera, snap, recorder, take, recovered>>
  BY DEF ListButton
<1>2. /\ Types
      /\ shown \in Panels
      /\ queue \in Queues /\ Shape(queue)
      /\ Backed(disk, ghost, queue, take)
  BY DEF IInv, Types
<1>3. /\ ghost' \in Ghosts
      /\ ghost'.lost = ghost.lost
      /\ ghost'.erased = ghost.erased
  BY PressIsTyped DEF ListButton, IInv, Types
<1>4. \A kind \in {"clear", "discard", "check"} :
        kind \in {"manifest", "chunk", "check"} \cup Deletes /\ kind \notin Saves
  BY DEF Deletes, Saves
<1>5. CASE clearAllPersistedLocalRecordings
  <2>1. shown' \in Panels
    BY <1>2, <1>5 DEF clearAllPersistedLocalRecordings, Panels
  <2>2. Task("clear", 0, None) \in Tasks /\ Task("clear", 0, None).kind = "clear"
    BY <1>2, <1>4, TaskIsTyped
  <2> QED BY <1>1, <1>2, <1>3, <1>4, <1>5, <2>1, <2>2, RequestKeeps
          DEF clearAllPersistedLocalRecordings
<1>6. ASSUME NEW r \in Recordings, discardPersistedRecording(r)
      PROVE  IInv'
  <2>1. shown' \in Panels
    BY <1>2, <1>6 DEF discardPersistedRecording, Panels
  <2>2. Task("discard", r, None) \in Tasks /\ Task("discard", r, None).kind = "discard"
    <3>1. "discard" \in {"manifest", "chunk", "check"} \cup Deletes
      BY <1>4
    <3>2. r \in {0} \cup Recordings /\ None \in Manifest \cup {None}
      OBVIOUS
    <3> QED BY <1>2, <3>1, <3>2, TaskIsTyped
  <2> QED BY <1>1, <1>2, <1>3, <1>4, <1>6, <2>1, <2>2, RequestKeeps
          DEF discardPersistedRecording
<1>7. ASSUME NEW r \in Recordings, checkLocalRecordingIntegrity(r)
      PROVE  IInv'
  <2> DEFINE q == [queue EXCEPT !.tasks =
                     [i \in DOMAIN queue.tasks |-> Overtaken(queue.tasks[i])]]
  <2>1. shown' \in Panels
    BY <1>2, <1>7 DEF checkLocalRecordingIntegrity, Panels
  <2>2. Task("check", r, None) \in Tasks /\ Task("check", r, None).kind = "check"
    <3>1. "check" \in {"manifest", "chunk", "check"} \cup Deletes
      BY <1>4
    <3>2. r \in {0} \cup Recordings /\ None \in Manifest \cup {None}
      OBVIOUS
    <3> QED BY <1>2, <3>1, <3>2, TaskIsTyped
  <2>3. queue' = enqueue(q, Task("check", r, None))
    BY <1>7 DEF checkLocalRecordingIntegrity, Overtaken
  <2>4. q \in Queues /\ Shape(q) /\ Backed(disk, ghost, q, take)
    BY <1>2, OvertakenKeeps
  <2> HIDE DEF q
  <2> QED BY <1>1, <1>3, <1>4, <2>1, <2>2, <2>3, <2>4, RequestKeeps
<1> QED BY <1>5, <1>6, <1>7 DEF ListButton
-----------------------------------------------------------------------------
(* The recording                                                           *)

(* The status of a manifest changes without its chunks, and its chunks are *)
(* only appended to.                                                       *)
LEMMA ManifestOperations ==
  ASSUME NEW m \in Manifest
  PROVE  /\ m.n \in Nat
         /\ \A op \in {transitionManifestStatus(m, "stopping"),
                       finalizeManifest(m), markManifestFailed(m)} :
              op \in Manifest /\ op.n = m.n
         /\ m.n < MaxChunks =>
              /\ appendChunkEntry(m) \in Manifest
              /\ appendChunkEntry(m).n = m.n + 1
         /\ createLocalRecordingManifest \in Manifest
         /\ createLocalRecordingManifest.n = 0
<1>1. m.n \in Nat /\ MaxChunks \in Nat
  BY RecordingAssumption DEF Manifest
<1>2. /\ transitionManifestStatus(m, "stopping") \in Manifest
      /\ transitionManifestStatus(m, "stopping").n = m.n
  BY DEF transitionManifestStatus, Manifest, ManifestStatuses
<1>3. finalizeManifest(m) \in Manifest /\ finalizeManifest(m).n = m.n
  BY DEF finalizeManifest, Manifest, ManifestStatuses
<1>4. markManifestFailed(m) \in Manifest /\ markManifestFailed(m).n = m.n
  BY DEF markManifestFailed, Manifest, ManifestStatuses
<1>5. m.n < MaxChunks => /\ appendChunkEntry(m) \in Manifest
                         /\ appendChunkEntry(m).n = m.n + 1
  BY <1>1 DEF appendChunkEntry, Manifest
<1>6. /\ createLocalRecordingManifest \in Manifest
      /\ createLocalRecordingManifest.n = 0
  BY <1>1 DEF createLocalRecordingManifest, Manifest, ManifestStatuses
<1> QED BY <1>1, <1>2, <1>3, <1>4, <1>5, <1>6

LEMMA Transitions ==
  ASSUME NEW state \in SnapStates \ {"preparing"}
  PROVE  /\ transition(state, "stop") \in SnapStates \ {"preparing"}
         /\ transition(state, "stopped") \in SnapStates \ {"preparing"}
         /\ transition(state, "fail") \in SnapStates \ {"preparing"}
         /\ transition(state, "reset") \in SnapStates \ {"preparing"}
         /\ state = "recording" => transition(state, "stop") = "stopping"
BY DEF transition, Allowed, Target, SnapStates

(* A manifest goes to the queue as it is in memory: its chunks are those   *)
(* of the one before it, and the one that comes with a chunk task.         *)
LEMMA PersistKeeps ==
  ASSUME IInv, NEW kind \in Saves, NEW m \in Manifest,
         kind = "chunk" => m.n > 0,
         persist(kind, take'.rec, m), take' \in Takes, take'.manifest = m,
         \A i \in Indexes(m.n) :
           take'.rec \in Recordings =>
             \/ /\ take.manifest \in Manifest /\ take.rec = take'.rec
                /\ i \in Indexes(take.manifest.n)
             \/ kind = "chunk" /\ m.n - 1 = i,
         UNCHANGED <<disk, recovered>>,
         camera' \in Cameras, snap' \in SnapStates \ {"preparing"},
         recorder' \in Recorders,
         ghost' \in Ghosts, ghost'.lost = ghost.lost, ghost'.erased = ghost.erased,
         HeldOK', NoOrphanCamera'
  PROVE  IInv'
<1> DEFINE task == Task(kind, take'.rec, m)
<1>1. /\ task \in Tasks
      /\ task.kind = kind
      /\ task.rec = take'.rec
      /\ task.manifest = m
  <2>1. kind \in {"manifest", "chunk", "check"} \cup Deletes
    BY DEF Saves
  <2>2. take'.rec \in {0} \cup Recordings /\ m \in Manifest \cup {None}
    BY DEF Takes
  <2>3. Types
    BY DEF IInv
  <2>4. \A r \in {0} \cup Recordings :
          /\ Task(kind, r, m) \in Tasks
          /\ Task(kind, r, m).kind = kind
          /\ Task(kind, r, m).rec = r
          /\ Task(kind, r, m).manifest = m
    BY <2>1, <2>2, <2>3, TaskIsTyped
  <2> QED BY <2>2, <2>4
<1>2. queue' = enqueue(queue, task) /\ shown' \in Panels
  BY DEF persist, IInv, Types, Panels
<1> HIDE DEF task
<1>3. queue' \in Queues /\ Shape(queue') /\ Backed(disk, ghost, queue', take')
  <2>1. queue \in Queues /\ Shape(queue) /\ Backed(disk, ghost, queue, take)
    BY DEF IInv, Types
  <2> QED BY <1>1, <1>2, <2>1, EnqueueKeeps
<1>4. Types'
  BY <1>2, <1>3 DEF IInv, Types
<1> QED BY <1>3, <1>4, BusyKeeps

LEMMA SameCount ==
  ASSUME IInv, take.manifest \in Manifest, NEW m \in Manifest,
         m.n = take.manifest.n, commitManifest(m)
  PROVE  /\ take' \in Takes
         /\ take'.manifest = m
         /\ take'.rec = take.rec
         /\ \A i \in Indexes(m.n) :
              /\ take.manifest \in Manifest /\ take.rec = take'.rec
              /\ i \in Indexes(take.manifest.n)
BY DEF IInv, Types, Takes, commitManifest

LEMMA DataAvailableKeeps ==
  ASSUME IInv, DataAvailable
  PROVE  IInv'
<1> DEFINE m == appendChunkEntry(take.manifest)
<1>1. /\ take.manifest \in Manifest
      /\ take.manifest.n \in Nat
      /\ m \in Manifest
      /\ m.n = take.manifest.n + 1
  BY ManifestOperations DEF DataAvailable, IInv, Types, HeldOK
<1>2. /\ commitManifest(m)
      /\ persist("chunk", take.rec, m)
      /\ UNCHANGED <<disk, camera, snap, recovered, ghost>>
  BY DEF DataAvailable
<1> HIDE DEF m
<1>3. take' \in Takes /\ take'.rec = take.rec /\ take'.manifest = m
  BY <1>1, <1>2 DEF IInv, Types, Takes, commitManifest
<1>4. recorder' \in Recorders /\ recorder'.held = recorder.held
  BY DEF DataAvailable, IInv, Types, Recorders
<1>5. HeldOK' /\ NoOrphanCamera'
  BY <1>1, <1>2, <1>3, <1>4 DEF IInv, HeldOK, NoOrphanCamera
<1>6. \A i \in Indexes(m.n) : i \in Indexes(take.manifest.n) \/ m.n - 1 = i
  BY <1>1 DEF Indexes
<1>7. /\ camera \in Cameras
      /\ snap \in SnapStates \ {"preparing"}
      /\ ghost \in Ghosts
      /\ "chunk" \in Saves
      /\ m.n > 0
  BY <1>1 DEF IInv, Types, Saves
<1> QED BY <1>1, <1>2, <1>3, <1>4, <1>5, <1>6, <1>7, PersistKeeps

LEMMA EmptyDataKeeps ==
  ASSUME IInv, EmptyData
  PROVE  IInv'
<1>1. UNCHANGED <<disk, camera, snap, take, queue, shown, recovered, ghost>>
  BY DEF EmptyData
<1>2. recorder' \in Recorders /\ recorder'.held = recorder.held
  BY DEF EmptyData, IInv, Types, Recorders
<1> QED BY <1>1, <1>2, QuietKeeps DEF IInv, Types, HeldOK, NoOrphanCamera

LEMMA RecorderEndsKeeps ==
  ASSUME IInv, RecorderStopped \/ RecorderFailed
  PROVE  IInv'
<1>1. PICK m \in {finalizeManifest(take.manifest), markManifestFailed(take.manifest)} :
        commitManifest(m) /\ persist("manifest", take.rec, m)
  BY DEF RecorderStopped, RecorderFailed
<1>2. take.manifest \in Manifest
  BY DEF RecorderStopped, RecorderFailed, IInv, HeldOK
<1>3. m \in Manifest /\ m.n = take.manifest.n
  BY <1>1, <1>2, ManifestOperations
<1>4. /\ UNCHANGED <<disk, camera, recovered>>
      /\ recorder' = NoRecorder
      /\ snap' \in {transition(snap, "stopped"), transition(snap, "fail")}
      /\ UNCHANGED ghost \/ Trouble(ghost)
  BY DEF RecorderStopped, RecorderFailed
<1>5. /\ ghost' \in Ghosts
      /\ ghost'.lost = ghost.lost
      /\ ghost'.erased = ghost.erased
  BY <1>4, TroubleIsTyped DEF IInv, Types
<1>6. snap' \in SnapStates \ {"preparing"}
  BY <1>4, Transitions DEF IInv, Types
<1>7. HeldOK' /\ NoOrphanCamera' /\ recorder' \in Recorders /\ camera' \in Cameras
  BY <1>4, BlankIsTyped DEF HeldOK, NoOrphanCamera, IInv, Types
<1>8. /\ take' \in Takes
      /\ take'.manifest = m
      /\ take'.rec = take.rec
      /\ \A i \in Indexes(m.n) : i \in Indexes(take.manifest.n)
  BY <1>1, <1>2, <1>3, SameCount
<1>9. "manifest" \in Saves /\ "manifest" # "chunk"
  BY DEF Saves
<1>10. persist("manifest", take'.rec, m)
  BY <1>1, <1>8
<1> QED BY <1>2, <1>3, <1>4, <1>5, <1>6, <1>7, <1>8, <1>9, <1>10, PersistKeeps
(* A recorder that refuses to stop leaves two manifests to save.           *)
LEMMA RefusedStopKeeps ==
  ASSUME IInv, take.manifest \in Manifest,
         NEW m \in Manifest, m.n = take.manifest.n,
         NEW failed \in Manifest, failed.n = m.n,
         commitManifest(failed),
         queue' = enqueue(enqueue(queue, Task("manifest", take.rec, m)),
                          Task("manifest", take.rec, failed))
  PROVE  /\ queue' \in Queues
         /\ Shape(queue')
         /\ Backed(disk, ghost, queue', take')
<1> DEFINE first == Task("manifest", take.rec, m)
           second == Task("manifest", take.rec, failed)
           between == [take EXCEPT !.manifest = m]
<1>1. /\ first \in Tasks /\ first.kind = "manifest"
      /\ first.rec = take.rec /\ first.manifest = m
      /\ second \in Tasks /\ second.kind = "manifest"
      /\ second.rec = take.rec /\ second.manifest = failed
  <2>1. "manifest" \in {"manifest", "chunk", "check"} \cup Deletes
    OBVIOUS
  <2>2. Types /\ take.rec \in {0} \cup Recordings
    BY DEF IInv, Types, Takes
  <2>3. \A x \in Manifest :
          /\ Task("manifest", take.rec, x) \in Tasks
          /\ Task("manifest", take.rec, x).kind = "manifest"
          /\ Task("manifest", take.rec, x).rec = take.rec
          /\ Task("manifest", take.rec, x).manifest = x
    <3>1. \A r \in {0} \cup Recordings, x \in Manifest \cup {None} :
            /\ Task("manifest", r, x) \in Tasks
            /\ Task("manifest", r, x).kind = "manifest"
            /\ Task("manifest", r, x).rec = r
            /\ Task("manifest", r, x).manifest = x
      BY <2>1, <2>2, TaskIsTyped
    <3> QED BY <2>2, <3>1
  <2> QED BY <2>3
<1>2. between.rec = take.rec /\ between.manifest = m
  BY DEF IInv, Types, Takes
<1>3. take'.rec = take.rec /\ take'.manifest = failed
  BY DEF IInv, Types, Takes, commitManifest
<1>4. queue' = enqueue(enqueue(queue, first), second)
  OBVIOUS
<1> HIDE DEF first, second, between
<1>5. queue \in Queues /\ Shape(queue) /\ Backed(disk, ghost, queue, take)
  BY DEF IInv, Types
<1>6. /\ enqueue(queue, first) \in Queues
      /\ Shape(enqueue(queue, first))
      /\ Backed(disk, ghost, enqueue(queue, first), between)
  <2>1. \A i \in Indexes(between.manifest.n) :
          /\ take.manifest \in Manifest /\ take.rec = between.rec
          /\ i \in Indexes(take.manifest.n)
    BY <1>2
  <2> QED BY <1>1, <1>2, <1>5, <2>1, EnqueueKeeps
<1>7. \A i \in Indexes(take'.manifest.n) :
        /\ between.manifest \in Manifest /\ between.rec = take'.rec
        /\ i \in Indexes(between.manifest.n)
  BY <1>2, <1>3
<1>8. ASSUME NEW q \in Queues, Shape(q), Backed(disk, ghost, q, between)
      PROVE  /\ enqueue(q, second) \in Queues
             /\ Shape(enqueue(q, second))
             /\ Backed(disk, ghost, enqueue(q, second), take')
  BY <1>1, <1>3, <1>7, <1>8, EnqueueKeeps
<1> QED BY <1>4, <1>6, <1>8

LEMMA StoppingKeeps ==
  ASSUME IInv, snap = "recording", stopping, UNCHANGED <<disk, recovered>>,
         camera' \in Cameras, NoOrphanCamera'
  PROVE  IInv'
<1>1. /\ recorder \in Recorders
      /\ ghost \in Ghosts
      /\ snap \in SnapStates \ {"preparing"}
      /\ "failed" \in SnapStates \ {"preparing"}
      /\ "failed" # "idle"
      /\ "manifest" \in Saves
      /\ "manifest" # "chunk"
  BY DEF IInv, Types, SnapStates, Saves
<1>2. CASE ~recorder.held /\ failRecording /\ UNCHANGED <<recorder, ghost>>
  <2>1. snap' = "failed" /\ HeldOK'
    BY <1>2 DEF failRecording, HeldOK
  <2>2. CASE take.manifest = None
    <3>1. UNCHANGED <<take, queue, shown>>
      BY <1>2, <2>2 DEF failRecording
    <3>2. Types'
      BY <1>1, <1>2, <2>1, <3>1 DEF IInv, Types
    <3> QED BY <1>2, <2>1, <3>1, <3>2, QuietKeeps
  <2>3. CASE take.manifest # None
    <3> DEFINE m == markManifestFailed(take.manifest)
    <3>1. take.manifest \in Manifest
      BY <2>3 DEF IInv, Types, Takes
    <3>2. m \in Manifest /\ m.n = take.manifest.n
      BY <3>1, ManifestOperations
    <3>3. commitManifest(m) /\ persist("manifest", take.rec, m)
      BY <1>2, <2>3 DEF failRecording
    <3> HIDE DEF m
    <3>4. /\ take' \in Takes
          /\ take'.manifest = m
          /\ take'.rec = take.rec
          /\ \A i \in Indexes(m.n) : i \in Indexes(take.manifest.n)
      BY <3>1, <3>2, <3>3, SameCount
    <3>5. persist("manifest", take'.rec, m)
      BY <3>3, <3>4
    <3> QED BY <1>1, <1>2, <2>1, <3>1, <3>2, <3>4, <3>5, PersistKeeps
  <2> QED BY <2>2, <2>3
<1> DEFINE m == transitionManifestStatus(take.manifest, "stopping")
           failed == markManifestFailed(m)
<1>3. recorder.held =>
        /\ take.manifest \in Manifest
        /\ m \in Manifest /\ m.n = take.manifest.n
        /\ failed \in Manifest /\ failed.n = m.n
  <2>1. recorder.held => take.manifest \in Manifest
    BY DEF IInv, HeldOK
  <2>2. recorder.held => m \in Manifest /\ m.n = take.manifest.n
    BY <2>1, ManifestOperations
  <2> HIDE DEF m
  <2>3. recorder.held => failed \in Manifest /\ failed.n = m.n
    BY <2>2, ManifestOperations
  <2> QED BY <2>1, <2>2, <2>3
<1>4. CASE /\ recorder.held
           /\ commitManifest(m) /\ persist("manifest", take.rec, m)
           /\ snap' = transition(snap, "stop")
           /\ recorder' = [recorder EXCEPT !.on = FALSE,
                             !.ending = IF recorder.on THEN "data" ELSE @]
           /\ UNCHANGED ghost
  <2> HIDE DEF m
  <2>1. recorder' \in Recorders
    BY <1>1, <1>4 DEF Recorders
  <2>2. /\ take' \in Takes
        /\ take'.manifest = m
        /\ take'.rec = take.rec
        /\ \A i \in Indexes(m.n) : i \in Indexes(take.manifest.n)
    BY <1>3, <1>4, SameCount
  <2>3. snap' = "stopping" /\ snap' \in SnapStates \ {"preparing"}
    BY <1>1, <1>4, Transitions
  <2>4. HeldOK'
    BY <1>3, <1>4, <2>2, <2>3 DEF HeldOK
  <2>5. persist("manifest", take'.rec, m)
    BY <1>4, <2>2
  <2> QED BY <1>1, <1>3, <1>4, <2>1, <2>2, <2>3, <2>4, <2>5, PersistKeeps
<1>5. CASE /\ recorder.held
           /\ commitManifest(failed)
           /\ queue' = enqueue(enqueue(queue, Task("manifest", take.rec, m)),
                               Task("manifest", take.rec, failed))
           /\ shown' = [shown EXCEPT !.status = "persisting", !.current = FALSE]
           /\ snap' = "failed"
           /\ recorder' = NoRecorder
           /\ Trouble(ghost)
  <2> HIDE DEF m, failed
  <2>1. /\ ghost' \in Ghosts
        /\ ghost'.lost = ghost.lost
        /\ ghost'.erased = ghost.erased
    BY <1>1, <1>5, TroubleIsTyped
  <2>2. /\ queue' \in Queues
        /\ Shape(queue')
        /\ Backed(disk, ghost, queue', take')
    BY <1>3, <1>5, RefusedStopKeeps
  <2>3. take' \in Takes
    BY <1>3, <1>5 DEF IInv, Types, Takes, commitManifest
  <2>4. shown' \in Panels
    BY <1>5 DEF IInv, Types, Panels
  <2>5. Types' /\ HeldOK'
    BY <1>1, <1>5, <2>1, <2>2, <2>3, <2>4, BlankIsTyped DEF IInv, Types, HeldOK
  <2> QED BY <2>1, <2>2, <2>5, BusyKeeps
<1> QED BY <1>2, <1>4, <1>5 DEF stopping

LEMMA StopKeeps ==
  ASSUME IInv, stopRecording \/ handleStopPreview
  PROVE  IInv'
<1>1. CASE stopRecording
  BY <1>1, StoppingKeeps DEF stopRecording, IInv, Types, NoOrphanCamera
<1>2. CASE handleStopPreview
  <2>1. camera' \in Cameras /\ camera'.live = {}
    BY <1>2, NoCameraIsTyped DEF handleStopPreview, IInv, Types
  <2>2. NoOrphanCamera'
    BY <2>1 DEF NoOrphanCamera
  <2>3. UNCHANGED <<disk, recovered>>
    BY <1>2 DEF handleStopPreview
  <2>4. CASE snap = "recording"
    BY <1>2, <2>1, <2>2, <2>3, <2>4, StoppingKeeps DEF handleStopPreview
  <2>5. CASE snap # "recording"
    <3>1. UNCHANGED <<snap, recorder, take, queue, shown, ghost>>
      BY <1>2, <2>5 DEF handleStopPreview
    <3>2. Types' /\ HeldOK'
      BY <2>1, <2>3, <3>1 DEF IInv, Types, HeldOK
    <3> QED BY <2>2, <2>3, <3>1, <3>2, QuietKeeps
  <2> QED BY <2>4, <2>5
<1> QED BY <1>1, <1>2

(* A new recording begins with a manifest that promises nothing.           *)
LEMMA StartKeeps ==
  ASSUME IInv, startRecording
  PROVE  IInv'
<1>1. /\ UNCHANGED <<disk, camera, recovered>>
      /\ camera \in Cameras /\ NoOrphanCamera'
      /\ snap = "idle"
      /\ "failed" \in SnapStates \ {"preparing"}
      /\ "recording" \in SnapStates \ {"preparing"}
  BY DEF startRecording, IInv, Types, NoOrphanCamera, Allowed, SnapStates
<1>2. ~recorder.held
  BY <1>1 DEF IInv, HeldOK
<1> DEFINE r == ghost.made + 1
           m == createLocalRecordingManifest
<1>3. CASE /\ ghost' = [ghost EXCEPT !.made = r]
           /\ take' = [rec |-> r, manifest |-> m, current |-> r]
           /\ persist("manifest", r, m)
           /\ snap' = "recording"
           /\ recorder' = [held |-> TRUE, on |-> TRUE, ending |-> "no"]
  <2>1. /\ r \in Recordings
        /\ r \in 0 .. MaxRecordings
    BY RecordingAssumption DEF startRecording, IInv, Types, Ghosts, Recordings
  <2>2. m \in Manifest /\ m.n = 0
    BY RecordingAssumption
       DEF createLocalRecordingManifest, Manifest, ManifestStatuses
  <2> HIDE DEF m, r
  <2>3. /\ ghost' \in Ghosts
        /\ ghost'.lost = ghost.lost
        /\ ghost'.erased = ghost.erased
    BY <1>3, <2>1 DEF IInv, Types, Ghosts
  <2>4. take' \in Takes /\ take'.rec = r /\ take'.manifest = m
    BY <1>3, <2>1, <2>2 DEF Takes
  <2>5. recorder' \in Recorders
    BY <1>3 DEF Recorders
  <2>6. HeldOK'
    BY <1>3, <2>2, <2>4 DEF HeldOK
  <2>7. Indexes(m.n) = {}
    BY <2>2 DEF Indexes
  <2>8. "manifest" \in Saves /\ "manifest" # "chunk" /\ camera' \in Cameras
    BY <1>1 DEF Saves
  <2>9. persist("manifest", take'.rec, m)
    BY <1>3, <2>4
  <2>10. snap' \in SnapStates \ {"preparing"}
    BY <1>1, <1>3
  <2> QED BY <1>1, <2>2, <2>3, <2>4, <2>5, <2>6, <2>7, <2>8, <2>9, <2>10,
             PersistKeeps
<1>4. CASE /\ IF camera.stream \in camera.live THEN Trouble(ghost) ELSE UNCHANGED ghost
           /\ take' = NoTake
           /\ snap' = "failed"
           /\ shown' = [shown EXCEPT !.current = FALSE]
           /\ UNCHANGED <<recorder, queue>>
  <2>1. /\ ghost' \in Ghosts
        /\ ghost'.lost = ghost.lost
        /\ ghost'.erased = ghost.erased
    BY <1>4, TroubleIsTyped DEF IInv, Types
  <2>2. shown' \in Panels
    BY <1>4 DEF IInv, Types, Panels
  <2>3. Types' /\ HeldOK'
    BY <1>1, <1>2, <1>4, <2>1, <2>2, BlankIsTyped DEF IInv, Types, HeldOK
  <2> QED BY <1>1, <1>4, <2>1, <2>3, BlankIsTyped, QuietKeeps
<1> QED BY <1>3, <1>4 DEF startRecording

LEMMA ResetKeeps ==
  ASSUME IInv, resetRecording
  PROVE  IInv'
<1> DEFINE r == IF take.current # 0 THEN take.current ELSE take.rec
<1>1. /\ UNCHANGED <<disk, camera, recovered, ghost>>
      /\ recorder' = NoRecorder
      /\ take' = NoTake
      /\ snap' = transition(snap, "reset")
      /\ \/ UNCHANGED queue
         \/ queue' = enqueue(queue, Task("reset", r, None))
  BY DEF resetRecording
<1>2. shown' \in Panels
  BY DEF resetRecording, IInv, Types, Panels
<1>3. r \in {0} \cup Recordings
  BY DEF IInv, Types, Takes
<1> HIDE DEF r
<1>4. Task("reset", r, None) \in Tasks /\ Task("reset", r, None).kind = "reset"
  <2>1. "reset" \in {"manifest", "chunk", "check"} \cup Deletes
    BY DEF Deletes
  <2>2. Types /\ None \in Manifest \cup {None}
    BY DEF IInv
  <2> QED BY <1>3, <2>1, <2>2, TaskIsTyped
<1>5. queue \in Queues /\ Shape(queue) /\ Backed(disk, ghost, queue, take')
  BY <1>1, BlankIsTyped, FrameBacked DEF IInv, Types
<1>6. queue' \in Queues /\ Shape(queue') /\ Backed(disk, ghost, queue', take')
  <2>1. "reset" \notin Saves /\ "reset" # "chunk"
    BY DEF Saves
  <2>2. take'.rec \notin Recordings
    BY <1>1, BlankIsTyped
  <2> QED BY <1>1, <1>4, <1>5, <2>1, <2>2, EnqueueKeeps
<1>7. snap' \in SnapStates \ {"preparing"}
  BY <1>1, Transitions DEF IInv, Types
<1>8. Types' /\ HeldOK' /\ NoOrphanCamera'
  BY <1>1, <1>2, <1>6, <1>7, BlankIsTyped
     DEF IInv, Types, HeldOK, NoOrphanCamera
<1> QED BY <1>1, <1>6, <1>8, BusyKeeps

-----------------------------------------------------------------------------
(* The inductive invariant                                                 *)

LEMMA InitEstablishes == Init => IInv
<1> SUFFICES ASSUME Init PROVE IInv
  OBVIOUS
<1>1. disk \in [Recordings -> Entry] /\ Stored(disk) = {}
  BY DEF Init, NoEntry, Entry, Stored
<1>2. camera \in Cameras /\ NoOrphanCamera
  BY DEF Init, Cameras, NoOrphanCamera
<1>3. ghost \in Ghosts
  BY RecordingAssumption, BoundAssumption DEF Init, Ghosts
<1>4. Types
  BY <1>1, <1>2, <1>3, BlankIsTyped DEF Init, Types, SnapStates
<1>5. HeldOK
  BY BlankIsTyped DEF Init, HeldOK
<1>6. DiskBacked(disk, ghost)
  BY <1>1 DEF DiskBacked
<1>7. Shape(queue) /\ Backed(disk, ghost, queue, take)
  BY <1>6, EmptyKeeps DEF Init
<1> QED BY <1>2, <1>4, <1>5, <1>7 DEF IInv

LEMMA StepKeeps == IInv /\ [Next]_vars => IInv'
<1> SUFFICES ASSUME IInv, [Next]_vars PROVE IInv'
  OBVIOUS
<1>1. CASE UNCHANGED vars
  BY <1>1, QuietKeeps DEF IInv, Types, HeldOK, NoOrphanCamera, vars
<1>2. CASE Button
  BY <1>2, StartKeeps, StopKeeps, ResetKeeps, ListButtonKeeps, RecoveryKeeps,
     RefreshSummaryKeeps DEF Button
<1> QED BY <1>1, <1>2, OpeningKeeps, TaskStepKeeps, DataAvailableKeeps,
   EmptyDataKeeps, RecorderEndsKeeps, BuildPreviewKeeps, RecoveryKeeps,
   PreviewKeeps, DeviceLostKeeps, LeaveKeeps, ReturnKeeps, CrashKeeps DEF Next

THEOREM Invariance == Spec => []IInv
BY InitEstablishes, StepKeeps, PTL DEF Spec

(* Every reachable state of recorder, queue and panel is well typed.       *)
THEOREM TypeCorrectness == Spec => []TypeOK
<1>1. IInv => TypeOK
  <2> SUFFICES ASSUME IInv PROVE TypeOK
    OBVIOUS
  <2>1. \A i \in DOMAIN queue.tasks : queue.tasks[i] \in Tasks
    BY DEF IInv, Types, Queues
  <2>2. /\ queue.pc \in {"start", "manifest", "saved", "unsaved", "deleted",
                         "undeleted", "refresh", "relist", "resum"}
        /\ \A i \in DOMAIN queue.tasks :
             /\ queue.tasks[i].kind \in {"manifest", "chunk", "check"} \cup Deletes
             /\ queue.tasks[i].rec \in {0} \cup Recordings
             /\ queue.tasks[i].manifest \in Manifest \cup {None}
    BY <2>1 DEF IInv, Types, Queues, Tasks
  <2>3. /\ shown.status \in {"not_checked", "available", "persisting", "persisted",
                             "failed"}
        /\ shown.list \in [Recordings -> Manifest \cup {None}]
        /\ shown.reports \in [Recordings -> {None, "healthy", "warning", "unknown"}]
        /\ recovered.status \in {"idle", "loading", "ready", "failed"}
        /\ ghost.trouble \in 0 .. MaxTrouble
    BY DEF IInv, Types, Panels, Previews, Ghosts
  <2> QED BY <2>2, <2>3 DEF IInv, Types, TypeOK, Cameras, Recorders, Takes
<1> QED BY Invariance, <1>1, PTL

(* A saved manifest lists no chunk that is not saved, unless the chunk's   *)
(* own save failed or the recording was erased while it was being made,    *)
(* wherever the queue is and whenever the tab crashes.                     *)
THEOREM ListedChunksStored == Spec => []ListedChunksAreStored
<1>1. IInv => ListedChunksAreStored
  BY DEF IInv, Backed, DiskBacked, Saved, ListedChunksAreStored
<1> QED BY Invariance, <1>1, PTL

(* No camera runs but the one the page shows, in whatever order requests   *)
(* are made, given up and answered.                                        *)
THEOREM CamerasOwned == Spec => []NoOrphanCamera
<1>1. IInv => NoOrphanCamera
  BY DEF IInv
<1> QED BY Invariance, <1>1, PTL
=============================================================================

------------------------- MODULE SavedRecordingProofs -------------------------
(***************************************************************************)
(* What LocalRecordingProofs leaves open: that saves are never overtaken   *)
(* by older ones, and that what the panel shows is what the browser holds. *)
(* Both rest on one order.  The manifests of a recording that are stored,  *)
(* wait in the queue and are in memory follow each other in the order they *)
(* were made, so the one in memory is either stored or still to be saved.  *)
(***************************************************************************)
EXTENDS LocalRecordingProofs

-----------------------------------------------------------------------------
(* The order of the manifests of a recording                               *)

(* m comes no later than m2: it has no more chunks and an earlier status.  *)
UpTo(m, m2) == m.n <= m2.n /\ Rank[m.status] <= Rank[m2.status]

Ongoing == {"recording", "stopping"}

(* A recording that was not started has left no trace.                     *)
Known(d, q, t, g) ==
  /\ \A r \in Recordings : r > g.made => d[r] = NoEntry
  /\ \A j \in DOMAIN q.tasks :
       /\ q.tasks[j].rec <= g.made
       /\ q.tasks[j].kind \in Saves \cup {"discard", "reset"} => q.tasks[j].rec # 0
  /\ t.rec <= g.made
  /\ t.current \in {0, t.rec}
  /\ t.rec # 0 => t.manifest \in Manifest
  /\ t.manifest # None => t.rec # 0

(* What is stored, what waits and what is in memory, in that order.        *)
InOrder(d, q, t) ==
  /\ \A j, k \in DOMAIN q.tasks :
       /\ j <= k
       /\ q.tasks[j].kind \in Saves /\ q.tasks[k].kind \in Saves
       /\ q.tasks[j].rec = q.tasks[k].rec
       => UpTo(q.tasks[j].manifest, q.tasks[k].manifest)
  /\ \A j \in DOMAIN q.tasks : q.tasks[j].kind \in Saves =>
       /\ q.tasks[j].rec \in Stored(d) =>
            UpTo(d[q.tasks[j].rec].manifest, q.tasks[j].manifest)
       /\ q.tasks[j].rec = t.rec => UpTo(q.tasks[j].manifest, t.manifest)
  /\ t.rec \in Stored(d) => UpTo(d[t.rec].manifest, t.manifest)

(* Chunks come only before a recording has ended, and a save that failed   *)
(* or a chunk that is lost is remembered.                                  *)
Remembered(d, q, t, g) ==
  /\ \A j \in DOMAIN q.tasks :
       q.tasks[j].kind = "chunk" => q.tasks[j].manifest.status \in Ongoing
  /\ ~g.failing => \A r \in Recordings : g.lost[r] = {}
  /\ q.bad => g.failing /\ q.tasks # <<>> /\ q.tasks[1].kind = "chunk"
  /\ t.rec # 0 => d[t.rec].chunks \subseteq Indexes(t.manifest.n)

(* The manifest m of recording r is still to be saved.                     *)
Awaited(q, r, m) ==
  \E j \in DOMAIN q.tasks :
    /\ q.tasks[j].kind \in Saves
    /\ q.tasks[j].rec = r
    /\ q.tasks[j].manifest = m
    /\ j = 1 => q.pc \in {"start", "manifest"}

Latest(d, q, t, g) ==
  t.rec # 0 /\ ~g.failing /\ t.rec \notin g.erased
    => d[t.rec].manifest = t.manifest \/ Awaited(q, t.rec, t.manifest)

Sorted(d, q, t, g) == Known(d, q, t, g) /\ InOrder(d, q, t) /\ Remembered(d, q, t, g)

LEMMA UpToIsAnOrder ==
  ASSUME NEW m1 \in Manifest, NEW m2 \in Manifest, NEW m3 \in Manifest
  PROVE  /\ UpTo(m1, m1)
         /\ UpTo(m1, m2) /\ UpTo(m2, m3) => UpTo(m1, m3)
         /\ UpTo(m1, m2) /\ UpTo(m2, m1) => m1 = m2
<1>1. \A m \in Manifest : m.n \in Nat /\ m.status \in ManifestStatuses
  BY RecordingAssumption DEF Manifest
<1>2. \A s \in ManifestStatuses : Rank[s] \in Nat
  BY DEF ManifestStatuses, Rank
<1>3. \A s1, s2 \in ManifestStatuses : Rank[s1] = Rank[s2] => s1 = s2
  BY DEF ManifestStatuses, Rank
<1>4. UpTo(m1, m1)
  BY <1>1, <1>2 DEF UpTo
<1>5. UpTo(m1, m2) /\ UpTo(m2, m3) => UpTo(m1, m3)
  BY <1>1, <1>2 DEF UpTo
<1>6. ASSUME UpTo(m1, m2), UpTo(m2, m1) PROVE m1 = m2
  <2>1. m1.n = m2.n /\ Rank[m1.status] = Rank[m2.status]
    BY <1>1, <1>2, <1>6 DEF UpTo
  <2>2. m1.status = m2.status
    BY <1>1, <1>3, <2>1
  <2> QED BY <2>1, <2>2 DEF Manifest
<1> QED BY <1>4, <1>5, <1>6

(* A manifest moves on by a chunk more or by what happens to the recorder. *)
LEMMA ManifestMovesOn ==
  ASSUME NEW m \in Manifest
  PROVE  /\ m.n < MaxChunks => UpTo(m, appendChunkEntry(m))
         /\ m.n < MaxChunks => appendChunkEntry(m).status = m.status
         /\ m.status \in Ongoing =>
              /\ UpTo(m, transitionManifestStatus(m, "stopping"))
              /\ transitionManifestStatus(m, "stopping").status = "stopping"
              /\ UpTo(m, finalizeManifest(m))
         /\ UpTo(m, markManifestFailed(m))
BY RecordingAssumption
   DEF UpTo, Ongoing, Rank, Manifest, ManifestStatuses, appendChunkEntry,
       transitionManifestStatus, finalizeManifest, markManifestFailed

-----------------------------------------------------------------------------
(* What happens to a queue                                                 *)

LEMMA Enqueued ==
  ASSUME NEW q \in Queues, NEW task \in Tasks, NEW n, n = Len(q.tasks) + 1,
         NEW q2, q2 = enqueue(q, task)
  PROVE  /\ q2.pc = q.pc /\ q2.bad = q.bad
         /\ n \in Nat /\ n > 0
         /\ DOMAIN q2.tasks = 1 .. n
         /\ DOMAIN q.tasks = 1 .. n - 1
         /\ \A k \in DOMAIN q.tasks : k \in DOMAIN q2.tasks /\ q2.tasks[k] = q.tasks[k]
         /\ \A k \in DOMAIN q2.tasks : k = n \/ k \in DOMAIN q.tasks
         /\ n \in DOMAIN q2.tasks /\ n \notin DOMAIN q.tasks
         /\ q2.tasks[n] = task
         /\ q2.tasks # <<>>
         /\ q.tasks = <<>> <=> n = 1
         /\ q.tasks # <<>> => q2.tasks[1] = q.tasks[1]
<1>1. q.tasks \in Seq(Tasks) /\ Len(q.tasks) \in Nat /\ DOMAIN q.tasks = 1 .. Len(q.tasks)
  BY DEF Queues
<1>2. q2.tasks = Append(q.tasks, task) /\ q2.pc = q.pc /\ q2.bad = q.bad
  BY DEF Queues, enqueue
<1> QED BY <1>1, <1>2, AppendProperties

LEMMA TailOfTasks ==
  ASSUME NEW q \in Queues, q.tasks # <<>>,
         NEW q2, q2 = [EmptyQueue EXCEPT !.tasks = Tail(q.tasks)]
  PROVE  /\ q2.pc = "start" /\ q2.bad = FALSE
         /\ \A k \in DOMAIN q2.tasks :
              /\ k \in Nat /\ k > 0
              /\ k + 1 \in DOMAIN q.tasks
              /\ q2.tasks[k] = q.tasks[k + 1]
         /\ \A k \in DOMAIN q.tasks :
              k # 1 => /\ k - 1 \in DOMAIN q2.tasks
                       /\ q2.tasks[k - 1] = q.tasks[k]
<1>1. q.tasks \in Seq(Tasks) /\ Len(q.tasks) \in Nat /\ DOMAIN q.tasks = 1 .. Len(q.tasks)
  BY DEF Queues
<1>2. q2.tasks = Tail(q.tasks) /\ q2.pc = "start" /\ q2.bad = FALSE
  BY DEF EmptyQueue
<1>3. /\ Len(q2.tasks) = Len(q.tasks) - 1
      /\ DOMAIN q2.tasks = 1 .. Len(q.tasks) - 1
      /\ \A k \in DOMAIN q2.tasks : q2.tasks[k] = q.tasks[k + 1]
  BY <1>1, <1>2, HeadTailProperties
<1>4. \A k \in DOMAIN q2.tasks : k \in Nat /\ k > 0 /\ k + 1 \in DOMAIN q.tasks
  BY <1>1, <1>3
<1>5. \A k \in DOMAIN q.tasks : k # 1 =>
        k - 1 \in DOMAIN q2.tasks /\ (k - 1) + 1 = k
  BY <1>1, <1>3
<1> QED BY <1>2, <1>3, <1>4, <1>5

(* Another history, and nothing in memory.                                 *)
LEMMA FrameSorted ==
  ASSUME NEW d, NEW q, NEW t, NEW g, NEW g2, NEW t2,
         Sorted(d, q, t, g), Latest(d, q, t, g),
         g2.made = g.made, g2.lost = g.lost, g2.erased = g.erased,
         g.failing => g2.failing,
         \/ t2.rec = t.rec /\ t2.manifest = t.manifest /\ t2.current \in {0, t.current}
         \/ t2 = NoTake /\ g.made \in Nat
  PROVE  Sorted(d, q, t2, g2) /\ Latest(d, q, t2, g2)
<1>1. NoTake.rec = 0 /\ NoTake.current = 0 /\ NoTake.manifest = None
  BY DEF NoTake
<1>2. 0 \notin Recordings
  BY DEF Recordings
<1>3. Known(d, q, t2, g2)
  BY <1>1 DEF Sorted, Known
<1>4. InOrder(d, q, t2)
  <2>1. CASE t2.rec = t.rec /\ t2.manifest = t.manifest
    BY <2>1 DEF Sorted, InOrder
  <2>2. CASE t2 = NoTake
    <3>1. \A j \in DOMAIN q.tasks : q.tasks[j].kind \in Saves => q.tasks[j].rec # 0
      BY DEF Sorted, Known
    <3>2. t2.rec \notin Stored(d)
      BY <2>2, <1>1, <1>2 DEF Stored
    <3> QED BY <2>2, <1>1, <3>1, <3>2 DEF Sorted, InOrder
  <2> QED BY <2>1, <2>2
<1>5. Remembered(d, q, t2, g2)
  BY <1>1 DEF Sorted, Remembered
<1>6. Latest(d, q, t2, g2)
  BY <1>1 DEF Latest
<1> QED BY <1>3, <1>4, <1>5, <1>6 DEF Sorted

(* A manifest goes behind the earlier ones of its recording.               *)
LEMMA SaveIsSorted ==
  ASSUME NEW d, NEW q \in Queues, NEW t \in Takes, NEW g, NEW t2,
         NEW task \in Tasks,
         Types, d = disk, Shape(q), Sorted(d, q, t, g),
         t.manifest \in Manifest, t.rec \in Recordings,
         task.kind \in Saves, task.rec = t.rec, task.manifest \in Manifest,
         UpTo(t.manifest, task.manifest),
         task.kind = "chunk" => task.manifest.status \in Ongoing,
         t2 = [t EXCEPT !.manifest = task.manifest]
  PROVE  /\ Sorted(d, enqueue(q, task), t2, g)
         /\ Latest(d, enqueue(q, task), t2, g)
<1> DEFINE q2 == enqueue(q, task)
           n  == Len(q.tasks) + 1
<1>1. /\ q2.pc = q.pc /\ q2.bad = q.bad
      /\ n \in Nat /\ n > 0
      /\ DOMAIN q2.tasks = 1 .. n
      /\ DOMAIN q.tasks = 1 .. n - 1
      /\ \A k \in DOMAIN q.tasks : k \in DOMAIN q2.tasks /\ q2.tasks[k] = q.tasks[k]
      /\ \A k \in DOMAIN q2.tasks : k = n \/ k \in DOMAIN q.tasks
      /\ n \in DOMAIN q2.tasks /\ n \notin DOMAIN q.tasks
      /\ q2.tasks[n] = task
      /\ q2.tasks # <<>>
      /\ q.tasks = <<>> <=> n = 1
      /\ q.tasks # <<>> => q2.tasks[1] = q.tasks[1]
  BY Enqueued
<1>2. /\ t2.rec = t.rec /\ t2.current = t.current
      /\ t2.manifest = task.manifest
  BY DEF Takes
<1> HIDE DEF q2, n
<1>3. Known(d, q2, t2, g)
  <2>1. t.rec # 0 /\ t.rec <= g.made
    BY DEF Sorted, Known, Recordings
  <2> QED BY <1>1, <1>2, <2>1 DEF Sorted, Known
<1>4. /\ \A j \in DOMAIN q.tasks :
           q.tasks[j].kind \in Saves /\ q.tasks[j].rec = t.rec =>
             UpTo(q.tasks[j].manifest, task.manifest)
      /\ t.rec \in Stored(d) => UpTo(d[t.rec].manifest, task.manifest)
  <2>1. \A j \in DOMAIN q.tasks :
          q.tasks[j].kind \in Saves => q.tasks[j].manifest \in Manifest
    BY DEF Shape
  <2>2. t.rec \in Stored(d) => d[t.rec].manifest \in Manifest
    BY DEF Types, Stored, Entry
  <2> QED BY <2>1, <2>2, UpToIsAnOrder DEF Sorted, InOrder
<1>5. InOrder(d, q2, t2)
  <2>1. ASSUME NEW j \in DOMAIN q2.tasks, NEW k \in DOMAIN q2.tasks,
               j <= k, q2.tasks[j].kind \in Saves, q2.tasks[k].kind \in Saves,
               q2.tasks[j].rec = q2.tasks[k].rec
        PROVE  UpTo(q2.tasks[j].manifest, q2.tasks[k].manifest)
    <3>1. CASE k = n /\ j = n
      BY <3>1, <1>1, UpToIsAnOrder
    <3>2. CASE k = n /\ j # n
      BY <2>1, <3>2, <1>1, <1>4
    <3>3. CASE k # n
      <4>1. k \in DOMAIN q.tasks /\ j \in DOMAIN q.tasks
        BY <2>1, <3>3, <1>1
      <4> QED BY <2>1, <4>1, <1>1 DEF Sorted, InOrder
    <3> QED BY <3>1, <3>2, <3>3
  <2>2. ASSUME NEW j \in DOMAIN q2.tasks, q2.tasks[j].kind \in Saves
        PROVE  /\ q2.tasks[j].rec \in Stored(d) =>
                    UpTo(d[q2.tasks[j].rec].manifest, q2.tasks[j].manifest)
               /\ q2.tasks[j].rec = t2.rec =>
                    UpTo(q2.tasks[j].manifest, t2.manifest)
    <3>1. CASE j = n
      BY <3>1, <1>1, <1>2, <1>4, UpToIsAnOrder
    <3>2. CASE j # n
      BY <2>2, <3>2, <1>1, <1>2, <1>4 DEF Sorted, InOrder
    <3> QED BY <3>1, <3>2
  <2> QED BY <2>1, <2>2, <1>2, <1>4 DEF InOrder
<1>6. Remembered(d, q2, t2, g)
  <2>1. \A j \in DOMAIN q2.tasks :
          q2.tasks[j].kind = "chunk" => q2.tasks[j].manifest.status \in Ongoing
    BY <1>1 DEF Sorted, Remembered
  <2>2. q2.bad => g.failing /\ q2.tasks[1].kind = "chunk"
    BY <1>1 DEF Sorted, Remembered
  <2>3. Indexes(t.manifest.n) \subseteq Indexes(t2.manifest.n)
    BY <1>2, RecordingAssumption DEF UpTo, Indexes, Manifest
  <2>4. t.rec # 0
    BY DEF Recordings
  <2> QED BY <1>1, <1>2, <2>1, <2>2, <2>3, <2>4 DEF Sorted, Remembered
<1>7. Latest(d, q2, t2, g)
  <2>1. n = 1 => q2.pc \in {"start", "manifest"}
    BY <1>1 DEF Shape
  <2>2. Awaited(q2, t2.rec, t2.manifest)
    BY <1>1, <1>2, <2>1 DEF Awaited
  <2> QED BY <2>2 DEF Latest
<1> QED BY <1>3, <1>5, <1>6, <1>7 DEF Sorted, q2

(* Any other task changes nothing.                                         *)
LEMMA RequestIsSorted ==
  ASSUME NEW d, NEW q \in Queues, NEW t, NEW g, NEW task \in Tasks, Shape(q),
         Sorted(d, q, t, g), Latest(d, q, t, g),
         task.kind \notin Saves, task.rec <= g.made,
         task.kind \in {"discard", "reset"} => task.rec # 0
  PROVE  /\ Sorted(d, enqueue(q, task), t, g)
         /\ Latest(d, enqueue(q, task), t, g)
<1> DEFINE q2 == enqueue(q, task)
           n  == Len(q.tasks) + 1
<1>1. /\ q2.pc = q.pc /\ q2.bad = q.bad
      /\ n \in Nat /\ n > 0
      /\ DOMAIN q2.tasks = 1 .. n
      /\ DOMAIN q.tasks = 1 .. n - 1
      /\ \A k \in DOMAIN q.tasks : k \in DOMAIN q2.tasks /\ q2.tasks[k] = q.tasks[k]
      /\ \A k \in DOMAIN q2.tasks : k = n \/ k \in DOMAIN q.tasks
      /\ n \in DOMAIN q2.tasks /\ n \notin DOMAIN q.tasks
      /\ q2.tasks[n] = task
      /\ q2.tasks # <<>>
      /\ q.tasks = <<>> <=> n = 1
      /\ q.tasks # <<>> => q2.tasks[1] = q.tasks[1]
  BY Enqueued
<1> HIDE DEF q2, n
<1>2. \A k \in DOMAIN q2.tasks : q2.tasks[k].kind \in Saves =>
        k \in DOMAIN q.tasks /\ q2.tasks[k] = q.tasks[k]
  BY <1>1
<1>3. Known(d, q2, t, g)
  BY <1>1 DEF Sorted, Known
<1>4. InOrder(d, q2, t)
  BY <1>2 DEF Sorted, InOrder
<1>5. Remembered(d, q2, t, g)
  <2>1. q2.bad => g.failing /\ q2.tasks[1].kind = "chunk"
    BY <1>1 DEF Sorted, Remembered
  <2>2. "chunk" \in Saves
    BY DEF Saves
  <2> QED BY <1>1, <1>2, <2>1, <2>2 DEF Sorted, Remembered
<1>6. \A r, m : Awaited(q, r, m) => Awaited(q2, r, m)
  BY <1>1 DEF Awaited
<1>7. Latest(d, q2, t, g)
  BY <1>6 DEF Latest
<1> QED BY <1>3, <1>4, <1>5, <1>7 DEF Sorted, q2

(* A new recording has nothing stored and nothing that waits.              *)
LEMMA StartIsSorted ==
  ASSUME NEW q \in Queues, NEW t, NEW g \in Ghosts, NEW g2, NEW t2, NEW r,
         Types, Sorted(disk, q, t, g),
         r = g.made + 1, r \in Recordings,
         g2.made = r, g2.lost = g.lost, g2.failing = g.failing,
         t2 = [rec |-> r, manifest |-> createLocalRecordingManifest, current |-> r]
  PROVE  Sorted(disk, q, t2, g2)
<1>1. g.made \in Nat /\ r \in Nat /\ r > g.made /\ r # 0
  BY DEF Ghosts
<1>2. createLocalRecordingManifest \in Manifest
  BY RecordingAssumption
     DEF createLocalRecordingManifest, Manifest, ManifestStatuses
<1>3. \A j \in DOMAIN q.tasks : q.tasks[j].rec \in Int /\ q.tasks[j].rec # r
  <2>1. \A j \in DOMAIN q.tasks : q.tasks[j].rec \in {0} \cup Recordings
    <3>1. q.tasks \in Seq(Tasks)
      BY DEF Queues
    <3>2. \A j \in DOMAIN q.tasks : q.tasks[j] \in Tasks
      BY <3>1
    <3> QED BY <3>2 DEF Tasks
  <2> QED BY <1>1, <2>1 DEF Sorted, Known, Recordings
<1>4. disk[r] = NoEntry /\ r \notin Stored(disk)
  <2>1. disk[r] = NoEntry
    BY <1>1 DEF Sorted, Known
  <2> QED BY <2>1 DEF Stored, NoEntry
<1>5. Known(disk, q, t2, g2)
  BY <1>1, <1>2, <1>3 DEF Sorted, Known, Recordings
<1>6. InOrder(disk, q, t2)
  BY <1>3, <1>4 DEF Sorted, InOrder
<1>7. Remembered(disk, q, t2, g2)
  BY <1>4 DEF Sorted, Remembered, NoEntry
<1> QED BY <1>5, <1>6, <1>7 DEF Sorted

(* The manifest of the first task no longer waits, or there is none.       *)
Past(q) == q.pc \notin {"start", "manifest"} \/ q.tasks[1].kind \notin Saves

LEMMA MoveIsSorted ==
  ASSUME NEW d, NEW q, NEW q2, NEW t, NEW g,
         Sorted(d, q, t, g), Latest(d, q, t, g),
         q2.tasks = q.tasks, q2.bad = q.bad,
         g.failing \/ Past(q) \/ q2.pc \in {"start", "manifest"}
  PROVE  Sorted(d, q2, t, g) /\ Latest(d, q2, t, g)
<1>1. Sorted(d, q2, t, g)
  BY DEF Sorted, Known, InOrder, Remembered
<1>2. \A r, m : ~g.failing /\ Awaited(q, r, m) => Awaited(q2, r, m)
  BY DEF Awaited, Past
<1> QED BY <1>1, <1>2 DEF Latest

LEMMA FinishIsSorted ==
  ASSUME NEW d, NEW q \in Queues, NEW q2, NEW t, NEW g, q.tasks # <<>>,
         Sorted(d, q, t, g), Latest(d, q, t, g),
         q2 = [EmptyQueue EXCEPT !.tasks = Tail(q.tasks)],
         g.failing \/ Past(q)
  PROVE  Sorted(d, q2, t, g) /\ Latest(d, q2, t, g)
<1>1. /\ q2.bad = FALSE /\ q2.pc = "start"
      /\ \A k \in DOMAIN q2.tasks :
           /\ k \in Nat
           /\ k + 1 \in DOMAIN q.tasks
           /\ q2.tasks[k] = q.tasks[k + 1]
      /\ \A k \in DOMAIN q.tasks :
           k # 1 => k - 1 \in DOMAIN q2.tasks /\ q2.tasks[k - 1] = q.tasks[k]
  BY TailOfTasks
<1>2. Known(d, q2, t, g)
  BY <1>1 DEF Sorted, Known
<1>3. \A j, k \in DOMAIN q2.tasks : j <= k => j + 1 <= k + 1
  BY <1>1
<1>4. InOrder(d, q2, t)
  BY <1>1, <1>3 DEF Sorted, InOrder
<1>5. Remembered(d, q2, t, g)
  BY <1>1 DEF Sorted, Remembered
<1>6. \A r, m : ~g.failing /\ Awaited(q, r, m) => Awaited(q2, r, m)
  BY <1>1 DEF Awaited, Past
<1> QED BY <1>2, <1>4, <1>5, <1>6 DEF Sorted, Latest

LEMMA OvertakenIsSorted ==
  ASSUME NEW d, NEW q \in Queues, NEW q2, NEW t, NEW g,
         Sorted(d, q, t, g), Latest(d, q, t, g),
         q2 = [q EXCEPT !.tasks = [i \in DOMAIN q.tasks |-> Overtaken(q.tasks[i])]]
  PROVE  Sorted(d, q2, t, g) /\ Latest(d, q2, t, g)
<1>1. q.tasks \in Seq(Tasks) /\ DOMAIN q.tasks = 1 .. Len(q.tasks) /\ Len(q.tasks) \in Nat
  BY DEF Queues
<1>2. /\ q2.pc = q.pc /\ q2.bad = q.bad
      /\ q2.tasks = [i \in DOMAIN q.tasks |-> Overtaken(q.tasks[i])]
      /\ DOMAIN q2.tasks = DOMAIN q.tasks
  BY DEF Queues
<1>3. \A k \in DOMAIN q.tasks :
        /\ q2.tasks[k].kind = q.tasks[k].kind
        /\ q2.tasks[k].rec = q.tasks[k].rec
        /\ q2.tasks[k].manifest = q.tasks[k].manifest
  <2>1. \A k \in DOMAIN q.tasks :
          q.tasks[k] \in Tasks /\ q2.tasks[k] = Overtaken(q.tasks[k])
    BY <1>1, <1>2
  <2> QED BY <2>1, OvertakenIsTyped
<1>4. q.tasks # <<>> => 1 \in DOMAIN q.tasks /\ q2.tasks # <<>>
  BY <1>1, <1>2
<1>5. Known(d, q2, t, g) /\ InOrder(d, q2, t)
  <2>1. Known(d, q2, t, g)
    BY <1>2, <1>3 DEF Sorted, Known
  <2>2. InOrder(d, q2, t)
    <3>1. InOrder(d, q, t)
      BY DEF Sorted
    <3>2. ASSUME NEW j \in DOMAIN q2.tasks, NEW k \in DOMAIN q2.tasks,
                 j <= k, q2.tasks[j].kind \in Saves, q2.tasks[k].kind \in Saves,
                 q2.tasks[j].rec = q2.tasks[k].rec
          PROVE  UpTo(q2.tasks[j].manifest, q2.tasks[k].manifest)
      <4>1. j \in DOMAIN q.tasks /\ k \in DOMAIN q.tasks
        BY <1>2
      <4> QED BY <3>1, <3>2, <4>1, <1>3 DEF InOrder
    <3>3. ASSUME NEW j \in DOMAIN q2.tasks, q2.tasks[j].kind \in Saves
          PROVE  /\ q2.tasks[j].rec \in Stored(d) =>
                      UpTo(d[q2.tasks[j].rec].manifest, q2.tasks[j].manifest)
                 /\ q2.tasks[j].rec = t.rec =>
                      UpTo(q2.tasks[j].manifest, t.manifest)
      <4>1. j \in DOMAIN q.tasks
        BY <1>2
      <4> QED BY <3>1, <3>3, <4>1, <1>3 DEF InOrder
    <3> QED BY <3>1, <3>2, <3>3 DEF InOrder
  <2> QED BY <2>1, <2>2
<1>6. Remembered(d, q2, t, g)
  BY <1>2, <1>3, <1>4 DEF Sorted, Remembered
<1>7. \A r, m : Awaited(q, r, m) => Awaited(q2, r, m)
  BY <1>2, <1>3 DEF Awaited
<1> QED BY <1>5, <1>6, <1>7 DEF Sorted, Latest

(* The first half of a chunk task.                                         *)
LEMMA ChunkIsSorted ==
  ASSUME NEW d, NEW q \in Queues, NEW q2, NEW t \in Takes, NEW g \in Ghosts,
         NEW g2, d \in [Recordings -> Entry], NEW d2,
         Shape(q), Sorted(d, q, t, g), Latest(d, q, t, g),
         q.tasks # <<>>, q.tasks[1].kind = "chunk",
         q2.tasks = q.tasks, q2.pc = "manifest",
         g2.made = g.made, g2.erased = g.erased,
         NEW i, i = q.tasks[1].manifest.n - 1,
         \/ /\ d2 = saveChunk(d, q.tasks[1].rec, i)
            /\ q2.bad = q.bad
            /\ g2.lost = g.lost /\ g2.failing = g.failing
         \/ d2 = d /\ q2.bad = TRUE /\ g2.failing
  PROVE  Sorted(d2, q2, t, g2) /\ Latest(d2, q2, t, g2)
<1> DEFINE r1 == q.tasks[1].rec
           m1 == q.tasks[1].manifest
<1>1. /\ 1 \in DOMAIN q.tasks
      /\ q.tasks[1] \in Tasks
      /\ "chunk" \in Saves
      /\ m1 \in Manifest /\ m1.n > 0
      /\ r1 \in Recordings
      /\ i = m1.n - 1
  <2>1. 1 \in DOMAIN q.tasks /\ q.tasks[1] \in Tasks
    BY HeadIsFirst
  <2>2. "chunk" \in Saves
    BY DEF Saves
  <2>3. r1 \in {0} \cup Recordings /\ r1 # 0
    BY <2>1, <2>2 DEF Sorted, Known, Tasks
  <2> QED BY <2>1, <2>2, <2>3 DEF Shape
<1>2. /\ DOMAIN d2 = Recordings
      /\ \A r \in Recordings : d2[r].manifest = d[r].manifest
      /\ \A r \in Recordings : r # r1 => d2[r] = d[r]
      /\ d2[r1].chunks \subseteq d[r1].chunks \cup {i}
  BY <1>1 DEF saveChunk, Entry
<1> HIDE DEF r1, m1
<1>3. r1 <= g.made
  BY <1>1 DEF Sorted, Known, r1
<1>4. Known(d2, q2, t, g2)
  <2>1. \A r \in Recordings : r > g2.made => r # r1
    BY <1>1, <1>3 DEF Ghosts, Recordings
  <2> QED BY <1>2, <2>1 DEF Sorted, Known
<1>5. Stored(d2) = Stored(d)
  BY <1>2 DEF Stored
<1>6. InOrder(d2, q2, t)
  <2>1. Stored(d) \subseteq Recordings
    BY DEF Stored
  <2> QED BY <2>1, <1>2, <1>5 DEF Sorted, InOrder
<1>7. t.rec # 0 => d2[t.rec].chunks \subseteq Indexes(t.manifest.n)
  <2> SUFFICES ASSUME t.rec # 0
               PROVE  d2[t.rec].chunks \subseteq Indexes(t.manifest.n)
    OBVIOUS
  <2>1. t.rec \in Recordings /\ t.manifest \in Manifest
    BY DEF Takes, Sorted, Known
  <2>2. d[t.rec].chunks \subseteq Indexes(t.manifest.n)
    BY DEF Sorted, Remembered
  <2>3. CASE t.rec # r1
    BY <2>1, <2>2, <2>3, <1>2
  <2>4. CASE t.rec = r1
    <3>1. UpTo(m1, t.manifest)
      BY <2>4, <1>1 DEF Sorted, InOrder, m1, r1
    <3>2. i \in Indexes(t.manifest.n)
      BY <3>1, <2>1, <1>1, RecordingAssumption DEF UpTo, Indexes, Manifest
    <3> QED BY <2>2, <2>4, <3>2, <1>2
  <2> QED BY <2>3, <2>4
<1>8. Remembered(d2, q2, t, g2)
  BY <1>7 DEF Sorted, Remembered
<1>9. \A r, m : Awaited(q, r, m) => Awaited(q2, r, m)
  BY DEF Awaited
<1>10. Latest(d2, q2, t, g2)
  <2>1. t.rec # 0 => t.rec \in Recordings
    BY DEF Takes
  <2> QED BY <2>1, <1>2, <1>9 DEF Latest
<1> QED BY <1>4, <1>6, <1>8, <1>10 DEF Sorted

(* The first manifest of the queue becomes the stored one.                 *)
LEMMA ManifestIsSorted ==
  ASSUME NEW d \in [Recordings -> Entry], NEW q \in Queues, NEW q2,
         NEW t \in Takes, NEW g \in Ghosts,
         Shape(q), Sorted(d, q, t, g), Latest(d, q, t, g),
         q.tasks # <<>>, q.tasks[1].kind \in Saves,
         q2.tasks = q.tasks, q2.bad = q.bad,
         NEW d2, d2 = saveManifest(d, q.tasks[1].rec, q.tasks[1].manifest)
  PROVE  Sorted(d2, q2, t, g) /\ Latest(d2, q2, t, g)
<1> DEFINE r1 == q.tasks[1].rec
           m1 == q.tasks[1].manifest
<1>1. /\ 1 \in DOMAIN q.tasks
      /\ m1 \in Manifest
      /\ r1 \in Recordings
      /\ r1 <= g.made
  <2>1. 1 \in DOMAIN q.tasks /\ q.tasks[1] \in Tasks
    BY HeadIsFirst
  <2>2. r1 \in {0} \cup Recordings /\ r1 # 0 /\ r1 <= g.made
    BY <2>1 DEF Sorted, Known, Tasks
  <2> QED BY <2>1, <2>2 DEF Shape
<1>2. /\ DOMAIN d2 = Recordings
      /\ \A r \in Recordings : d2[r].chunks = d[r].chunks
      /\ \A r \in Recordings : r # r1 => d2[r] = d[r]
      /\ d2[r1].manifest = m1
  BY <1>1 DEF saveManifest, Entry
<1>3. /\ \A k \in DOMAIN q.tasks :
           q.tasks[k].kind \in Saves /\ q.tasks[k].rec = r1 =>
             UpTo(m1, q.tasks[k].manifest)
      /\ r1 = t.rec => UpTo(m1, t.manifest)
  <2>1. \A k \in DOMAIN q.tasks : 1 <= k
    BY DEF Queues
  <2> QED BY <2>1, <1>1 DEF Sorted, InOrder
<1> HIDE DEF r1, m1
<1>4. Known(d2, q2, t, g)
  <2>1. \A r \in Recordings : r > g.made => r # r1
    BY <1>1 DEF Ghosts, Recordings
  <2> QED BY <1>2, <2>1 DEF Sorted, Known
<1>5. \A r \in Stored(d2) : r \in Recordings /\ (r \in Stored(d) \/ r = r1)
  BY <1>2 DEF Stored
<1>6. InOrder(d2, q2, t)
  <2>1. InOrder(d, q, t)
    BY DEF Sorted
  <2>2. \A r \in Recordings : r \in Stored(d2) /\ r # r1 =>
          r \in Stored(d) /\ d2[r] = d[r]
    BY <1>2, <1>5
  <2>3. ASSUME NEW j \in DOMAIN q2.tasks, q2.tasks[j].kind \in Saves,
               q2.tasks[j].rec \in Stored(d2)
        PROVE  UpTo(d2[q2.tasks[j].rec].manifest, q2.tasks[j].manifest)
    <3>1. CASE q2.tasks[j].rec = r1
      BY <2>3, <3>1, <1>2, <1>3
    <3>2. CASE q2.tasks[j].rec # r1
      BY <2>1, <2>2, <2>3, <3>2, <1>5 DEF InOrder
    <3> QED BY <3>1, <3>2
  <2>4. t.rec \in Stored(d2) => UpTo(d2[t.rec].manifest, t.manifest)
    BY <2>1, <2>2, <1>2, <1>3, <1>5 DEF InOrder
  <2> QED BY <2>1, <2>3, <2>4 DEF InOrder
<1>7. Remembered(d2, q2, t, g)
  <2>1. t.rec # 0 => t.rec \in Recordings
    BY DEF Takes
  <2> QED BY <2>1, <1>2 DEF Sorted, Remembered
<1>8. Latest(d2, q2, t, g)
  <2> SUFFICES ASSUME t.rec # 0, ~g.failing, t.rec \notin g.erased
               PROVE  \/ d2[t.rec].manifest = t.manifest
                      \/ Awaited(q2, t.rec, t.manifest)
    BY DEF Latest
  <2>1. t.rec \in Recordings /\ t.manifest \in Manifest
    BY DEF Takes, Sorted, Known
  <2>2. CASE d[t.rec].manifest = t.manifest
    <3>1. CASE t.rec = r1
      <4>1. t.rec \in Stored(d)
        BY <2>1, <2>2, NoneAssumption DEF Stored
      <4>2. UpTo(t.manifest, m1)
        BY <4>1, <2>2, <3>1, <1>1 DEF Sorted, InOrder, m1, r1
      <4>3. m1 = t.manifest
        BY <4>2, <2>1, <3>1, <1>1, <1>3, UpToIsAnOrder
      <4> QED BY <4>3, <3>1, <1>2
    <3>2. CASE t.rec # r1
      BY <2>1, <2>2, <3>2, <1>2
    <3> QED BY <3>1, <3>2
  <2>3. CASE Awaited(q, t.rec, t.manifest)
    <3>1. PICK j \in DOMAIN q.tasks :
            /\ q.tasks[j].kind \in Saves
            /\ q.tasks[j].rec = t.rec
            /\ q.tasks[j].manifest = t.manifest
      BY <2>3 DEF Awaited
    <3>2. CASE j = 1
      BY <3>1, <3>2, <1>2 DEF r1, m1
    <3>3. CASE j # 1
      BY <3>1, <3>3 DEF Awaited
    <3> QED BY <3>2, <3>3
  <2> QED BY <2>2, <2>3 DEF Latest
<1> QED BY <1>4, <1>6, <1>7, <1>8 DEF Sorted

(* What is deleted while it is being made is erased, and the rest stays.   *)
LEMMA DeleteIsSorted ==
  ASSUME NEW d, NEW q, NEW q2, NEW t \in Takes, NEW g, NEW g2, NEW gone,
         Sorted(d, q, t, g), Latest(d, q, t, g),
         q2.tasks = q.tasks, q2.bad = q.bad, q.tasks[1].kind \notin Saves,
         g2.made = g.made, g2.lost = g.lost, g2.failing = g.failing,
         g.erased \subseteq g2.erased, t.rec \in gone => t.rec \in g2.erased,
         NEW d2, d2 = deleteRecordings(d, gone)
  PROVE  Sorted(d2, q2, t, g2) /\ Latest(d2, q2, t, g2)
<1>1. /\ \A r \in Recordings : d2[r] = IF r \in gone THEN NoEntry ELSE d[r]
      /\ NoEntry.manifest = None /\ NoEntry.chunks = {}
  BY DEF deleteRecordings, NoEntry
<1>2. t.rec # 0 => t.rec \in Recordings
  BY DEF Takes
<1>3. \A r \in Stored(d2) : r \in Stored(d) /\ d2[r] = d[r]
  BY <1>1 DEF Stored
<1>4. Known(d2, q2, t, g2)
  BY <1>1 DEF Sorted, Known
<1>5. InOrder(d2, q2, t)
  BY <1>3 DEF Sorted, InOrder
<1>6. Remembered(d2, q2, t, g2)
  BY <1>1, <1>2 DEF Sorted, Remembered
<1>7. \A r, m : Awaited(q, r, m) => Awaited(q2, r, m)
  BY DEF Awaited
<1>8. Latest(d2, q2, t, g2)
  BY <1>1, <1>2, <1>7 DEF Latest
<1> QED BY <1>4, <1>5, <1>6, <1>8 DEF Sorted

(* After a crash nothing waits and nothing is in memory.                   *)
LEMMA EmptyIsSorted ==
  ASSUME NEW d, NEW g \in Ghosts,
         \A r \in Recordings : r > g.made => d[r] = NoEntry,
         ~g.failing => \A r \in Recordings : g.lost[r] = {}
  PROVE  Sorted(d, EmptyQueue, NoTake, g) /\ Latest(d, EmptyQueue, NoTake, g)
<1>1. /\ EmptyQueue.tasks = <<>> /\ EmptyQueue.bad = FALSE
      /\ NoTake.rec = 0 /\ NoTake.current = 0 /\ NoTake.manifest = None
      /\ g.made \in Nat
      /\ 0 \notin Stored(d)
  BY RecordingAssumption DEF EmptyQueue, NoTake, Ghosts, Stored, Recordings
<1>2. DOMAIN EmptyQueue.tasks = {}
  BY <1>1
<1> QED BY <1>1, <1>2 DEF Sorted, Known, InOrder, Remembered, Latest

-----------------------------------------------------------------------------
(* The order of the saves in the state of the page                         *)

(* A recorder at work has not ended its manifest, the list knows only what *)
(* was made, and without a recording or a page nothing is in memory.       *)
Pages == [at : {"probing", "listing", "open", "left"},
          memo : {"none", "supported", "failed"}]

PanelKnown ==
  /\ page \in Pages
  /\ recorder.held => take.manifest.status \in Ongoing
  /\ \A r \in Recordings : shown.list[r] # None => r <= ghost.made
  /\ snap = "idle" \/ ~Mounted => take = NoTake

OInv ==
  /\ Sorted(disk, queue, take, ghost)
  /\ Latest(disk, queue, take, ghost)
  /\ PanelKnown

LEMMA OrderHolds ==
  ASSUME Sorted(disk', queue', take', ghost'), Latest(disk', queue', take', ghost'),
         PanelKnown'
  PROVE  OInv'
BY DEF OInv, Sorted, Known, InOrder, Remembered, Latest, Awaited, Stored, UpTo

(* What a step may do to the history: failures are not forgotten.          *)
SameHistory(g, g2) ==
  /\ g2.made = g.made /\ g2.lost = g.lost /\ g2.erased = g.erased
  /\ g.failing => g2.failing

LEMMA HistoryGoesOn ==
  ASSUME NEW g \in Ghosts
  PROVE  /\ Trouble(g) => SameHistory(g, ghost')
         /\ StorageTrouble(g) => SameHistory(g, ghost') /\ ghost'.failing
         /\ g = ghost /\ Press => SameHistory(g, ghost')
         /\ SameHistory(g, g)
BY DEF Trouble, StorageTrouble, Press, SameHistory, Ghosts

LEMMA QuietOrder ==
  ASSUME IInv, OInv, UNCHANGED <<disk, queue>>,
         \/ take'.rec = take.rec /\ take'.manifest = take.manifest
              /\ take'.current \in {0, take.current}
         \/ take' = NoTake,
         SameHistory(ghost, ghost'), PanelKnown'
  PROVE  OInv'
<1>1. Sorted(disk, queue, take', ghost') /\ Latest(disk, queue, take', ghost')
  BY FrameSorted DEF OInv, IInv, Types, Ghosts, SameHistory
<1> QED BY <1>1, OrderHolds

(* A panel whose list is the old one, that of the store or none at all.    *)
LEMMA PanelStaysKnown ==
  ASSUME IInv, OInv,
         recorder'.held => recorder.held /\ take'.manifest = take.manifest,
         \/ shown'.list = shown.list
         \/ shown'.list = listRecordings(disk)
         \/ shown'.list = BlankList,
         ghost'.made = ghost.made, page' \in Pages,
         \/ take'.rec = take.rec /\ take'.manifest = take.manifest
              /\ take'.current \in {0, take.current} /\ take' \in Takes
              /\ (snap' = "idle" => snap = "idle")
              /\ (~Mounted' => ~Mounted)
         \/ take' = NoTake
  PROVE  PanelKnown'
<1>1. PanelKnown /\ Sorted(disk, queue, take, ghost) /\ ghost \in Ghosts
  BY DEF OInv, IInv, Types
<1>2. recorder'.held => take'.manifest.status \in Ongoing
  BY <1>1 DEF PanelKnown
<1>3. \A r \in Recordings : shown'.list[r] # None => r <= ghost'.made
  <2>1. \A r \in Recordings : listRecordings(disk)[r] # None => r <= ghost.made
    <3>1. \A r \in Recordings : listRecordings(disk)[r] # None => disk[r] # NoEntry
      BY DEF listRecordings, NoEntry
    <3>2. \A r \in Recordings : r > ghost.made \/ r <= ghost.made
      BY <1>1 DEF Ghosts, Recordings
    <3> QED BY <1>1, <3>1, <3>2 DEF Sorted, Known
  <2>2. \A r \in Recordings : BlankList[r] = None
    BY DEF BlankList
  <2> QED BY <1>1, <2>1, <2>2 DEF PanelKnown
<1>4. snap' = "idle" \/ ~Mounted' => take' = NoTake
  <2>1. CASE take' = NoTake
    BY <2>1
  <2>2. CASE take'.rec = take.rec /\ take'.manifest = take.manifest
              /\ take'.current \in {0, take.current} /\ take' \in Takes
              /\ (snap' = "idle" => snap = "idle")
              /\ (~Mounted' => ~Mounted)
    <3>1. snap' = "idle" \/ ~Mounted' => take = NoTake
      BY <1>1, <2>2 DEF PanelKnown
    <3> QED BY <2>2, <3>1 DEF Takes, NoTake
  <2> QED BY <2>1, <2>2
<1> QED BY <1>2, <1>3, <1>4 DEF PanelKnown

LEMMA ListsOfPanels ==
  ASSUME IInv
  PROVE  /\ \A r : Listed(r).list = listRecordings(disk)
         /\ Unlisted.list = shown.list
         /\ \A s \in Panels : \A r :
              /\ Checked(r, s).list = s.list
              /\ Uncheckable(r, s).list = s.list
              /\ Deleted(s).list = s.list
<1>1. shown \in Panels
  BY DEF IInv, Types
<1>2. \A r : Listed(r).list = listRecordings(disk)
  BY <1>1 DEF Listed, Panels
<1>3. Unlisted.list = shown.list
  BY <1>1 DEF Unlisted, Panels
<1>4. \A s \in Panels : \A r :
        /\ Checked(r, s).list = s.list
        /\ Uncheckable(r, s).list = s.list
        /\ Deleted(s).list = s.list
  BY DEF Checked, Uncheckable, Deleted, Panels
<1> QED BY <1>2, <1>3, <1>4

(* The steps that concern neither the queue nor the recording.             *)
LEMMA QuietStepsOrder ==
  ASSUME IInv, OInv,
         \/ OpeningStep \/ PreviewSaved \/ LoadGoesOn \/ RefreshSummary
         \/ Preview \/ DeviceLost \/ EmptyData \/ BuildPreview \/ Return
         \/ Leave \/ UNCHANGED vars
  PROVE  OInv'
<1>1. /\ UNCHANGED <<disk, queue>>
      /\ UNCHANGED take \/ take' = NoTake
  BY DEF OpeningStep, initializePersistenceSupport, InitialList, PreviewSaved,
         LoadGoesOn, RefreshSummary, Preview, DeviceLost, EmptyData,
         BuildPreview, Return, Leave, vars
<1>2. SameHistory(ghost, ghost')
  <2>1. UNCHANGED ghost \/ StorageTrouble(ghost) \/ Trouble(ghost) \/ Press
    BY DEF OpeningStep, initializePersistenceSupport, InitialList, PreviewSaved,
           LoadGoesOn, RefreshSummary, Preview, handleStartPreview, DeviceLost,
           EmptyData, BuildPreview, Return, Leave, vars
  <2> QED BY <2>1, HistoryGoesOn DEF IInv, Types
<1>3. \/ shown'.list = shown.list
      \/ shown'.list = listRecordings(disk)
      \/ shown'.list = BlankList
  <2>1. CASE OpeningStep
    <3>1. CASE initializePersistenceSupport
      BY <3>1 DEF initializePersistenceSupport, IInv, Types, Panels
    <3>2. CASE InitialList
      BY <3>2, ListsOfPanels DEF InitialList
    <3> QED BY <2>1, <3>1, <3>2 DEF OpeningStep
  <2>2. CASE Leave
    BY <2>2 DEF Leave, Unchecked
  <2>3. CASE \/ PreviewSaved \/ LoadGoesOn \/ RefreshSummary
             \/ Preview \/ DeviceLost \/ EmptyData \/ BuildPreview \/ Return
             \/ UNCHANGED vars
    BY <2>3 DEF PreviewSaved, LoadGoesOn, RefreshSummary, Preview, DeviceLost,
                EmptyData, BuildPreview, Return, vars
  <2> QED BY <2>1, <2>2, <2>3
<1>4. /\ page' \in Pages
      /\ recorder'.held => recorder.held /\ UNCHANGED take
      /\ \/ UNCHANGED <<take, snap>> /\ (~Mounted' => ~Mounted)
         \/ take' = NoTake
  <2> page \in Pages
    BY DEF OInv, PanelKnown
  <2>1. CASE Leave
    BY <2>1 DEF Leave, NoRecorder, Pages
  <2>2. CASE OpeningStep
    BY <2>2 DEF OpeningStep, initializePersistenceSupport, InitialList, Mounted, Pages
  <2>3. CASE DeviceLost \/ EmptyData
    BY <2>3 DEF DeviceLost, EmptyData, IInv, Types, Recorders, Mounted
  <2>4. CASE \/ PreviewSaved \/ LoadGoesOn \/ RefreshSummary \/ Preview
             \/ BuildPreview \/ UNCHANGED vars
    BY <2>4 DEF PreviewSaved, LoadGoesOn, RefreshSummary, Preview, BuildPreview,
                vars, Mounted
  <2>5. CASE Return
    BY <2>5 DEF Return, Mounted, Pages
  <2> QED BY <2>1, <2>2, <2>3, <2>4, <2>5
<1>5. PanelKnown'
  <2>1. take \in Takes
    BY DEF IInv, Types
  <2>2. ghost'.made = ghost.made
    BY <1>2 DEF SameHistory
  <2> QED BY <1>3, <1>4, <2>1, <2>2, PanelStaysKnown
<1> QED BY <1>1, <1>2, <1>5, QuietOrder

(* What a manifest in memory says of the recording it is of.               *)
LEMMA TakeIsNamed ==
  ASSUME IInv, OInv, take.manifest # None
  PROVE  /\ take.rec \in Recordings
         /\ take.manifest \in Manifest
         /\ take # NoTake
         /\ Mounted /\ snap # "idle"
<1>1. take.rec # 0 /\ take.manifest \in Manifest
  BY DEF OInv, Sorted, Known, IInv, Types, Takes
<1>2. take.rec \in Recordings
  BY <1>1 DEF IInv, Types, Takes
<1>3. take # NoTake
  BY <1>1 DEF NoTake
<1> QED BY <1>1, <1>2, <1>3 DEF OInv, PanelKnown

LEMMA TasksOfTake ==
  ASSUME IInv, NEW kind \in Saves, NEW r \in {0} \cup Recordings, NEW m \in Manifest
  PROVE  /\ Task(kind, r, m) \in Tasks
         /\ Task(kind, r, m).kind = kind
         /\ Task(kind, r, m).rec = r
         /\ Task(kind, r, m).manifest = m
<1>1. kind \in {"manifest", "chunk", "check"} \cup Deletes
  BY DEF Saves
<1>2. Types /\ m \in Manifest \cup {None}
  BY DEF IInv
<1> QED BY <1>1, <1>2, TaskIsTyped

(* The manifest moves on, and it is to be saved as it is now.              *)
LEMMA PersistOrder ==
  ASSUME IInv, OInv, NEW kind \in Saves, NEW m \in Manifest,
         take.manifest # None, UpTo(take.manifest, m),
         kind = "chunk" => m.status \in Ongoing,
         commitManifest(m), queue' = enqueue(queue, Task(kind, take.rec, m)),
         UNCHANGED <<disk, page>>, shown'.list = shown.list,
         recorder'.held => m.status \in Ongoing, snap' # "idle",
         SameHistory(ghost, ghost')
  PROVE  OInv'
<1>1. /\ take.rec \in Recordings /\ take.manifest \in Manifest
      /\ take.rec \in {0} \cup Recordings
      /\ take \in Takes /\ queue \in Queues /\ Shape(queue) /\ Types
      /\ Sorted(disk, queue, take, ghost) /\ PanelKnown /\ Mounted
  BY TakeIsNamed DEF IInv, Types, OInv
<1> DEFINE task == Task(kind, take.rec, m)
<1>2. /\ task \in Tasks /\ task.kind = kind
      /\ task.rec = take.rec /\ task.manifest = m
  <2>1. \A r \in {0} \cup Recordings :
          /\ Task(kind, r, m) \in Tasks
          /\ Task(kind, r, m).kind = kind
          /\ Task(kind, r, m).rec = r
          /\ Task(kind, r, m).manifest = m
    BY TasksOfTake
  <2> QED BY <1>1, <2>1
<1>3. take' = [take EXCEPT !.manifest = m] /\ queue' = enqueue(queue, task)
  BY DEF commitManifest
<1> HIDE DEF task
<1>4. /\ Sorted(disk, queue', take', ghost)
      /\ Latest(disk, queue', take', ghost)
  BY <1>1, <1>2, <1>3, SaveIsSorted
<1>5. Sorted(disk, queue', take', ghost') /\ Latest(disk, queue', take', ghost')
  <2>1. take'.current \in {0, take'.current}
    OBVIOUS
  <2> QED BY <1>4, <2>1, FrameSorted DEF SameHistory
<1>6. take'.manifest = m
  BY <1>1, <1>3 DEF Takes
<1>7. PanelKnown'
  BY <1>1, <1>6 DEF PanelKnown, Mounted, SameHistory
<1> QED BY <1>5, <1>7, OrderHolds

LEMMA DataAvailableOrder ==
  ASSUME IInv, OInv, DataAvailable
  PROVE  OInv'
<1> DEFINE m == appendChunkEntry(take.manifest)
<1>1. /\ take.manifest \in Manifest /\ take.manifest # None
      /\ take.manifest.status \in Ongoing
      /\ take.manifest.n < MaxChunks
  BY TakeIsNamed DEF DataAvailable, OInv, PanelKnown
<1>2. /\ m \in Manifest
      /\ UpTo(take.manifest, m)
      /\ m.status \in Ongoing
  BY <1>1, ManifestOperations, ManifestMovesOn
<1> HIDE DEF m
<1>3. /\ commitManifest(m)
      /\ queue' = enqueue(queue, Task("chunk", take.rec, m))
      /\ UNCHANGED <<disk, page, snap, ghost>>
      /\ "chunk" \in Saves
  BY DEF DataAvailable, persist, Saves, m
<1>4. shown'.list = shown.list
  BY DEF DataAvailable, persist, IInv, Types, Panels
<1>5. snap' # "idle"
  BY <1>1, <1>3, TakeIsNamed
<1>6. SameHistory(ghost, ghost')
  BY <1>3, HistoryGoesOn DEF IInv, Types
<1> QED BY <1>1, <1>2, <1>3, <1>4, <1>5, <1>6, PersistOrder

LEMMA RecorderEndsOrder ==
  ASSUME IInv, OInv, RecorderStopped \/ RecorderFailed
  PROVE  OInv'
<1>1. /\ take.manifest \in Manifest /\ take.manifest # None
      /\ take.manifest.status \in Ongoing
  BY NoneAssumption
     DEF RecorderStopped, RecorderFailed, OInv, PanelKnown, IInv, HeldOK
<1>2. PICK m \in Manifest :
        /\ UpTo(take.manifest, m)
        /\ commitManifest(m)
        /\ persist("manifest", take.rec, m)
  <2> DEFINE m1 == finalizeManifest(take.manifest)
             m2 == markManifestFailed(take.manifest)
  <2>1. m1 \in Manifest /\ UpTo(take.manifest, m1)
    BY <1>1, ManifestOperations, ManifestMovesOn
  <2>2. m2 \in Manifest /\ UpTo(take.manifest, m2)
    BY <1>1, ManifestOperations, ManifestMovesOn
  <2>3. \/ commitManifest(m1) /\ persist("manifest", take.rec, m1)
        \/ commitManifest(m2) /\ persist("manifest", take.rec, m2)
    BY DEF RecorderStopped, RecorderFailed
  <2> HIDE DEF m1, m2
  <2> QED BY <2>1, <2>2, <2>3
<1>3. /\ queue' = enqueue(queue, Task("manifest", take.rec, m))
      /\ shown'.list = shown.list
      /\ "manifest" \in Saves
  BY <1>2 DEF persist, IInv, Types, Panels, Saves
<1>4. /\ UNCHANGED <<disk, page>>
      /\ ~recorder'.held
      /\ UNCHANGED ghost \/ Trouble(ghost)
  BY DEF RecorderStopped, RecorderFailed, NoRecorder
<1>5. snap' # "idle"
  <2>1. snap # "idle" /\ snap' \in {transition(snap, "stopped"), transition(snap, "fail")}
    BY <1>1, TakeIsNamed DEF RecorderStopped, RecorderFailed
  <2> QED BY <2>1 DEF transition, Target
<1>6. SameHistory(ghost, ghost')
  BY <1>4, HistoryGoesOn DEF IInv, Types
<1>7. "manifest" # "chunk"
  OBVIOUS
<1> QED BY <1>1, <1>2, <1>3, <1>4, <1>5, <1>6, <1>7, PersistOrder

(* A recorder that refuses to stop: two manifests, one after the other.    *)
LEMMA RefusedStopOrder ==
  ASSUME IInv, OInv, take.manifest # None,
         NEW m \in Manifest, UpTo(take.manifest, m),
         NEW m2 \in Manifest, UpTo(m, m2),
         take' = [take EXCEPT !.manifest = m2],
         queue' = enqueue(enqueue(queue, Task("manifest", take.rec, m)),
                          Task("manifest", take.rec, m2)),
         enqueue(queue, Task("manifest", take.rec, m)) \in Queues,
         Shape(enqueue(queue, Task("manifest", take.rec, m)))
  PROVE  /\ Sorted(disk, queue', take', ghost)
         /\ Latest(disk, queue', take', ghost)
<1> DEFINE task  == Task("manifest", take.rec, m)
           task2 == Task("manifest", take.rec, m2)
           q     == enqueue(queue, task)
           t     == [take EXCEPT !.manifest = m]
<1>1. /\ take.rec \in Recordings /\ take.manifest \in Manifest
      /\ take.rec \in {0} \cup Recordings
      /\ take \in Takes /\ queue \in Queues /\ Shape(queue) /\ Types
      /\ Sorted(disk, queue, take, ghost)
      /\ "manifest" \in Saves /\ "manifest" # "chunk"
  BY TakeIsNamed DEF IInv, Types, OInv, Saves
<1>2. /\ task \in Tasks /\ task.kind = "manifest"
      /\ task.rec = take.rec /\ task.manifest = m
      /\ task2 \in Tasks /\ task2.kind = "manifest"
      /\ task2.rec = take.rec /\ task2.manifest = m2
  <2>1. \A r \in {0} \cup Recordings, x \in Manifest :
          /\ Task("manifest", r, x) \in Tasks
          /\ Task("manifest", r, x).kind = "manifest"
          /\ Task("manifest", r, x).rec = r
          /\ Task("manifest", r, x).manifest = x
    BY <1>1, TasksOfTake
  <2> QED BY <1>1, <2>1
<1>3. /\ t \in Takes /\ t.manifest = m /\ t.rec = take.rec
      /\ take' = [t EXCEPT !.manifest = m2]
  BY <1>1 DEF Takes
<1>4. q \in Queues /\ Shape(q) /\ queue' = enqueue(q, task2)
  OBVIOUS
<1>5. t = [take EXCEPT !.manifest = task.manifest] /\ q = enqueue(queue, task)
  BY <1>2
<1>6. take' = [t EXCEPT !.manifest = task2.manifest]
  BY <1>2, <1>3
<1> HIDE DEF task, task2, q, t
<1>7. Sorted(disk, q, t, ghost)
  BY <1>1, <1>2, <1>5, SaveIsSorted
<1>8. /\ t.manifest \in Manifest /\ t.rec \in Recordings
      /\ task2.kind \in Saves /\ task2.kind # "chunk" /\ task2.rec = t.rec
      /\ task2.manifest \in Manifest
      /\ UpTo(t.manifest, task2.manifest)
  BY <1>1, <1>2, <1>3
<1>9. /\ Sorted(disk, enqueue(q, task2), take', ghost)
      /\ Latest(disk, enqueue(q, task2), take', ghost)
  BY <1>1, <1>2, <1>3, <1>4, <1>6, <1>7, <1>8, SaveIsSorted
<1> QED BY <1>4, <1>9

LEMMA StoppingOrder ==
  ASSUME IInv, OInv, IInv', snap = "recording", stopping, UNCHANGED <<disk, page>>
  PROVE  OInv'
<1>1. /\ recorder \in Recorders /\ shown \in Panels /\ ghost \in Ghosts
      /\ take \in Takes /\ take' \in Takes
      /\ PanelKnown
  BY DEF IInv, Types, OInv
<1>2. CASE ~recorder.held /\ failRecording /\ UNCHANGED <<recorder, ghost>>
  <2>1. CASE take.manifest = None
    <3>1. UNCHANGED <<take, queue, shown>> /\ snap' = "failed"
      BY <1>2, <2>1 DEF failRecording
    <3>2. SameHistory(ghost, ghost') /\ ghost'.made = ghost.made
      BY <1>2 DEF SameHistory
    <3>3. PanelKnown'
      BY <1>1, <1>2, <3>1 DEF PanelKnown, Mounted
    <3> QED BY <3>1, <3>2, <3>3, QuietOrder
  <2>2. CASE take.manifest # None
    <3> DEFINE m == markManifestFailed(take.manifest)
    <3>1. take.manifest \in Manifest
      BY <2>2, TakeIsNamed
    <3>2. m \in Manifest /\ UpTo(take.manifest, m)
      BY <3>1, ManifestOperations, ManifestMovesOn
    <3>3. commitManifest(m) /\ persist("manifest", take.rec, m) /\ snap' = "failed"
      BY <1>2, <2>2 DEF failRecording
    <3> HIDE DEF m
    <3>4. /\ queue' = enqueue(queue, Task("manifest", take.rec, m))
          /\ shown'.list = shown.list
          /\ "manifest" \in Saves /\ "manifest" # "chunk"
      BY <1>1, <3>3 DEF persist, Panels, Saves
    <3>5. SameHistory(ghost, ghost')
      BY <1>2 DEF SameHistory
    <3> QED BY <1>2, <2>2, <3>2, <3>3, <3>4, <3>5, PersistOrder
  <2> QED BY <2>1, <2>2
<1> DEFINE m == transitionManifestStatus(take.manifest, "stopping")
           failed == markManifestFailed(m)
<1>3. recorder.held =>
        /\ take.manifest # None
        /\ m \in Manifest /\ UpTo(take.manifest, m) /\ m.status \in Ongoing
        /\ failed \in Manifest /\ UpTo(m, failed)
  <2> SUFFICES ASSUME recorder.held
               PROVE  /\ take.manifest # None
                      /\ m \in Manifest /\ UpTo(take.manifest, m)
                      /\ m.status \in Ongoing
                      /\ failed \in Manifest /\ UpTo(m, failed)
    OBVIOUS
  <2>1. /\ take.manifest \in Manifest /\ take.manifest # None
        /\ take.manifest.status \in Ongoing
    BY <1>1, NoneAssumption DEF IInv, HeldOK, PanelKnown
  <2>2. m \in Manifest /\ UpTo(take.manifest, m) /\ m.status \in Ongoing
    BY <2>1, ManifestOperations, ManifestMovesOn DEF Ongoing
  <2> HIDE DEF m
  <2>3. failed \in Manifest /\ UpTo(m, failed)
    BY <2>2, ManifestOperations, ManifestMovesOn
  <2> QED BY <2>1, <2>2, <2>3
<1>4. CASE /\ recorder.held
           /\ commitManifest(m) /\ persist("manifest", take.rec, m)
           /\ snap' = transition(snap, "stop")
           /\ UNCHANGED ghost
  <2> HIDE DEF m
  <2>1. /\ queue' = enqueue(queue, Task("manifest", take.rec, m))
        /\ shown'.list = shown.list
        /\ "manifest" \in Saves /\ "manifest" # "chunk"
    BY <1>1, <1>4 DEF persist, Panels, Saves
  <2>2. snap' # "idle"
    BY <1>4 DEF transition, Target
  <2>3. SameHistory(ghost, ghost')
    BY <1>4 DEF SameHistory
  <2> QED BY <1>3, <1>4, <2>1, <2>2, <2>3, PersistOrder
<1>5. CASE /\ recorder.held
           /\ commitManifest(failed)
           /\ queue' = enqueue(enqueue(queue, Task("manifest", take.rec, m)),
                               Task("manifest", take.rec, failed))
           /\ shown' = [shown EXCEPT !.status = "persisting", !.current = FALSE]
           /\ snap' = "failed"
           /\ recorder' = NoRecorder
           /\ Trouble(ghost)
  <2> HIDE DEF m, failed
  <2>1. take' = [take EXCEPT !.manifest = failed]
    BY <1>5 DEF commitManifest
  <2>2. /\ enqueue(queue, Task("manifest", take.rec, m)) \in Queues
        /\ Shape(enqueue(queue, Task("manifest", take.rec, m)))
    <3>1. take.rec \in {0} \cup Recordings /\ "manifest" \in Saves /\ "manifest" # "chunk"
      BY <1>1 DEF Takes, Saves
    <3>2. \A r \in {0} \cup Recordings :
            /\ Task("manifest", r, m) \in Tasks
            /\ Task("manifest", r, m).kind = "manifest"
            /\ Task("manifest", r, m).rec = r
            /\ Task("manifest", r, m).manifest = m
      BY <1>3, <1>5, <3>1, TasksOfTake
    <3>3. PICK task \in Tasks :
            /\ task = Task("manifest", take.rec, m)
            /\ task.kind = "manifest" /\ task.rec = take.rec /\ task.manifest = m
      BY <3>1, <3>2
    <3>4. PICK t \in Takes : t.manifest = m /\ t.rec = take.rec
      <4>1. [take EXCEPT !.manifest = m] \in Takes
        BY <1>1, <1>3, <1>5 DEF Takes
      <4> QED BY <1>1, <4>1 DEF Takes
    <3>5. queue \in Queues /\ Shape(queue) /\ Backed(disk, ghost, queue, take)
      BY DEF IInv, Types
    <3>6. \A i \in Indexes(t.manifest.n) : i \in Indexes(take.manifest.n)
      BY <3>4, SMT DEF transitionManifestStatus, m
    <3>7. take.manifest \in Manifest
      BY <1>3, <1>5, TakeIsNamed
    <3> QED BY <1>3, <1>5, <3>1, <3>3, <3>4, <3>5, <3>6, <3>7, EnqueueKeeps
  <2>3. /\ Sorted(disk, queue', take', ghost)
        /\ Latest(disk, queue', take', ghost)
    BY <1>3, <1>5, <2>1, <2>2, RefusedStopOrder
  <2>4. SameHistory(ghost, ghost')
    BY <1>1, <1>5, HistoryGoesOn
  <2>5. Sorted(disk, queue', take', ghost') /\ Latest(disk, queue', take', ghost')
    <3>1. take'.current \in {0, take'.current}
      OBVIOUS
    <3> QED BY <2>3, <2>4, <3>1, FrameSorted DEF SameHistory
  <2>6. Mounted /\ shown'.list = shown.list /\ ghost'.made = ghost.made
    BY <1>1, <1>3, <1>5, <2>4, TakeIsNamed DEF Panels, SameHistory
  <2>7. PanelKnown'
    BY <1>1, <1>5, <2>6 DEF PanelKnown, Mounted, NoRecorder
  <2> QED BY <2>5, <2>7, OrderHolds
<1> QED BY <1>2, <1>4, <1>5 DEF stopping

LEMMA StopOrder ==
  ASSUME IInv, OInv, IInv', stopRecording \/ handleStopPreview
  PROVE  OInv'
<1>1. CASE stopRecording
  BY <1>1, StoppingOrder DEF stopRecording
<1>2. CASE handleStopPreview
  <2>1. UNCHANGED <<disk, page>>
    BY <1>2 DEF handleStopPreview
  <2>2. CASE snap = "recording"
    BY <1>2, <2>1, <2>2, StoppingOrder DEF handleStopPreview
  <2>3. CASE snap # "recording"
    <3>1. UNCHANGED <<snap, recorder, take, queue, shown, ghost>>
      BY <1>2, <2>3 DEF handleStopPreview
    <3>2. SameHistory(ghost, ghost')
      BY <3>1 DEF SameHistory
    <3>3. PanelKnown'
      BY <2>1, <3>1 DEF OInv, PanelKnown, Mounted
    <3> QED BY <2>1, <3>1, <3>2, <3>3, QuietOrder
  <2> QED BY <2>2, <2>3
<1> QED BY <1>1, <1>2

LEMMA StartOrder ==
  ASSUME IInv, OInv, startRecording
  PROVE  OInv'
<1>1. /\ UNCHANGED <<disk, page>>
      /\ page.at = "open" /\ Mounted
      /\ snap = "idle"
      /\ ghost.made < MaxRecordings
      /\ ghost \in Ghosts /\ shown \in Panels /\ Types
      /\ queue \in Queues /\ Shape(queue)
      /\ take = NoTake
      /\ Sorted(disk, queue, take, ghost) /\ PanelKnown
  BY DEF startRecording, Allowed, OInv, PanelKnown, Mounted, IInv, Types
<1>2. CASE /\ IF camera.stream \in camera.live THEN Trouble(ghost) ELSE UNCHANGED ghost
           /\ take' = NoTake
           /\ shown' = [shown EXCEPT !.current = FALSE]
           /\ UNCHANGED <<recorder, queue>>
  <2>1. SameHistory(ghost, ghost')
    BY <1>1, <1>2, HistoryGoesOn
  <2>2. shown'.list = shown.list
    BY <1>1, <1>2 DEF Panels
  <2>3. PanelKnown'
    BY <1>1, <1>2, <2>1, <2>2 DEF PanelKnown, SameHistory
  <2> QED BY <1>1, <1>2, <2>1, <2>3, QuietOrder
<1> DEFINE r == ghost.made + 1
           m == createLocalRecordingManifest
<1>3. CASE /\ ghost' = [ghost EXCEPT !.made = r]
           /\ take' = [rec |-> r, manifest |-> m, current |-> r]
           /\ persist("manifest", r, m)
           /\ snap' = "recording"
  <2>1. /\ r \in Recordings /\ r \in {0} \cup Recordings
        /\ ghost.made < r /\ ghost.made \in Nat
    BY <1>1, RecordingAssumption DEF Ghosts, Recordings
  <2>2. m \in Manifest /\ m.status = "recording"
    BY RecordingAssumption
       DEF createLocalRecordingManifest, Manifest, ManifestStatuses
  <2>3. /\ ghost'.made = r /\ ghost'.lost = ghost.lost
        /\ ghost'.failing = ghost.failing
    BY <1>1, <1>3 DEF Ghosts
  <2> HIDE DEF r, m
  <2>4. Sorted(disk, queue, take', ghost')
    <3>1. take' = [rec |-> r, manifest |-> createLocalRecordingManifest, current |-> r]
      BY <1>3 DEF m
    <3>2. r = ghost.made + 1
      BY DEF r
    <3> QED BY <1>1, <2>1, <2>3, <3>1, <3>2, StartIsSorted
  <2>5. take' \in Takes /\ take'.rec = r /\ take'.manifest = m
    BY <1>3, <2>1, <2>2 DEF Takes
  <2>6. PICK task \in Tasks :
          /\ queue' = enqueue(queue, task)
          /\ task.kind = "manifest" /\ task.rec = r /\ task.manifest = m
    <3>1. "manifest" \in Saves
      BY DEF Saves
    <3> QED BY <1>3, <2>1, <2>2, <3>1, TasksOfTake DEF persist
  <2>7. /\ take'.manifest \in Manifest /\ take'.rec \in Recordings
        /\ task.kind \in Saves /\ task.kind # "chunk" /\ task.rec = take'.rec
        /\ task.manifest \in Manifest
        /\ UpTo(take'.manifest, task.manifest)
        /\ take' = [take' EXCEPT !.manifest = task.manifest]
    BY <2>1, <2>2, <2>5, <2>6, UpToIsAnOrder DEF Saves, Takes
  <2>8. /\ Sorted(disk, queue', take', ghost')
        /\ Latest(disk, queue', take', ghost')
    BY <1>1, <2>4, <2>5, <2>6, <2>7, SaveIsSorted
  <2>9. shown'.list = shown.list
    BY <1>1, <1>3 DEF persist, Panels
  <2>10. \A x \in Recordings : x <= ghost.made => x <= ghost'.made
    BY <2>1, <2>3 DEF Recordings
  <2>11. PanelKnown'
    BY <1>1, <1>3, <2>2, <2>5, <2>9, <2>10 DEF PanelKnown, Mounted, Ongoing
  <2> QED BY <1>1, <2>8, <2>11, OrderHolds
<1> QED BY <1>2, <1>3 DEF startRecording

LEMMA RequestOrder ==
  ASSUME IInv, OInv, NEW q \in Queues, Shape(q),
         Sorted(disk, q, take, ghost), Latest(disk, q, take, ghost),
         NEW task \in Tasks, task.kind \notin Saves, task.rec <= ghost.made,
         task.kind \in {"discard", "reset"} => task.rec # 0,
         queue' = enqueue(q, task), UNCHANGED disk,
         \/ take'.rec = take.rec /\ take'.manifest = take.manifest
              /\ take'.current \in {0, take.current}
         \/ take' = NoTake,
         SameHistory(ghost, ghost'), PanelKnown'
  PROVE  OInv'
<1>1. /\ Sorted(disk, queue', take, ghost)
      /\ Latest(disk, queue', take, ghost)
  BY RequestIsSorted
<1>2. /\ Sorted(disk, queue', take', ghost')
      /\ Latest(disk, queue', take', ghost')
  BY <1>1, FrameSorted DEF SameHistory, IInv, Types, Ghosts
<1> QED BY <1>2, OrderHolds

LEMMA ResetOrder ==
  ASSUME IInv, OInv, resetRecording
  PROVE  OInv'
<1> DEFINE r == IF take.current # 0 THEN take.current ELSE take.rec
<1>1. /\ UNCHANGED <<disk, page, ghost>>
      /\ recorder' = NoRecorder
      /\ take' = NoTake
      /\ \/ UNCHANGED queue
         \/ r # 0 /\ queue' = enqueue(queue, Task("reset", r, None))
  BY DEF resetRecording
<1>2. SameHistory(ghost, ghost')
  BY <1>1 DEF SameHistory
<1>3. r \in {0} \cup Recordings /\ r <= ghost.made
  BY DEF IInv, Types, Takes, OInv, Sorted, Known
<1> HIDE DEF r
<1>4. PICK task \in Tasks :
        task = Task("reset", r, None) /\ task.kind = "reset" /\ task.rec = r
  <2>1. "reset" \in {"manifest", "chunk", "check"} \cup Deletes
    BY DEF Deletes
  <2>2. Types /\ None \in Manifest \cup {None}
    BY DEF IInv
  <2> QED BY <1>3, <2>1, <2>2, TaskIsTyped
<1>5. shown'.list = shown.list
  BY DEF resetRecording, IInv, Types, Panels
<1>6. PanelKnown'
  BY <1>1, <1>5, BlankIsTyped DEF OInv, PanelKnown
<1>7. "reset" \notin Saves
  BY DEF Saves
<1>8. CASE UNCHANGED queue
  BY <1>1, <1>2, <1>6, <1>8, QuietOrder
<1>9. CASE r # 0 /\ queue' = enqueue(queue, task)
  <2>1. /\ queue \in Queues /\ Shape(queue)
        /\ Sorted(disk, queue, take, ghost) /\ Latest(disk, queue, take, ghost)
    BY DEF IInv, Types, OInv
  <2> QED BY <1>1, <1>2, <1>3, <1>4, <1>6, <1>7, <1>9, <2>1, RequestOrder
<1> QED BY <1>1, <1>4, <1>8, <1>9

LEMMA ListButtonOrder ==
  ASSUME IInv, OInv, ListButton
  PROVE  OInv'
<1>1. /\ UNCHANGED <<disk, snap, recorder, take, page>>
      /\ take'.current \in {0, take.current}
  BY DEF ListButton
<1>2. /\ Types /\ shown \in Panels /\ ghost \in Ghosts
      /\ queue \in Queues /\ Shape(queue)
      /\ Backed(disk, ghost, queue, take)
      /\ Sorted(disk, queue, take, ghost) /\ Latest(disk, queue, take, ghost)
      /\ PanelKnown
      /\ 0 <= ghost.made
  BY DEF IInv, Types, OInv, Ghosts
<1>3. SameHistory(ghost, ghost')
  BY <1>2, HistoryGoesOn DEF ListButton
<1>4. shown'.list = shown.list
  BY <1>2 DEF ListButton, clearAllPersistedLocalRecordings,
              discardPersistedRecording, checkLocalRecordingIntegrity, Panels
<1>5. PanelKnown'
  BY <1>1, <1>2, <1>3, <1>4 DEF PanelKnown, SameHistory, Mounted
<1>6. \A kind \in {"clear", "discard", "check"}, r \in {0} \cup Recordings :
        /\ Task(kind, r, None) \in Tasks
        /\ Task(kind, r, None).kind = kind
        /\ Task(kind, r, None).rec = r
        /\ kind \notin Saves
  <2>1. ASSUME NEW kind \in {"clear", "discard", "check"}, NEW r \in {0} \cup Recordings
        PROVE  /\ Task(kind, r, None) \in Tasks
               /\ Task(kind, r, None).kind = kind
               /\ Task(kind, r, None).rec = r
               /\ kind \notin Saves
    <3>1. kind \in {"manifest", "chunk", "check"} \cup Deletes /\ kind \notin Saves
      BY DEF Deletes, Saves
    <3>2. None \in Manifest \cup {None}
      OBVIOUS
    <3> QED BY <1>2, <3>1, <3>2, TaskIsTyped
  <2> QED BY <2>1
<1>7. CASE clearAllPersistedLocalRecordings
  <2>1. PICK task \in Tasks :
          /\ task = Task("clear", 0, None)
          /\ task.kind = "clear" /\ task.rec = 0 /\ task.kind \notin Saves
    BY <1>6
  <2>2. queue' = enqueue(queue, task)
    BY <1>7, <2>1 DEF clearAllPersistedLocalRecordings
  <2> QED BY <1>1, <1>2, <1>3, <1>5, <2>1, <2>2, RequestOrder
<1>8. ASSUME NEW r \in Recordings, discardPersistedRecording(r)
      PROVE  OInv'
  <2>1. r <= ghost.made /\ r # 0 /\ r \in {0} \cup Recordings
    BY <1>2, <1>8 DEF discardPersistedRecording, OnList, PanelKnown, Recordings
  <2>2. PICK task \in Tasks :
          /\ task = Task("discard", r, None)
          /\ task.kind = "discard" /\ task.rec = r /\ task.kind \notin Saves
    BY <1>6, <2>1
  <2>3. queue' = enqueue(queue, task)
    BY <1>8, <2>2 DEF discardPersistedRecording
  <2> QED BY <1>1, <1>2, <1>3, <1>5, <2>1, <2>2, <2>3, RequestOrder
<1>9. ASSUME NEW r \in Recordings, checkLocalRecordingIntegrity(r)
      PROVE  OInv'
  <2>1. r <= ghost.made /\ r \in {0} \cup Recordings
    BY <1>2, <1>9 DEF checkLocalRecordingIntegrity, OnList, PanelKnown
  <2>2. PICK task \in Tasks :
          /\ task = Task("check", r, None)
          /\ task.kind = "check" /\ task.rec = r /\ task.kind \notin Saves
    BY <1>6, <2>1
  <2> DEFINE q == [queue EXCEPT !.tasks =
                     [i \in DOMAIN queue.tasks |-> Overtaken(queue.tasks[i])]]
  <2>3. queue' = enqueue(q, task)
    BY <1>9, <2>2 DEF checkLocalRecordingIntegrity, Overtaken
  <2>4. q \in Queues /\ Shape(q)
    BY <1>2, OvertakenKeeps
  <2>5. Sorted(disk, q, take, ghost) /\ Latest(disk, q, take, ghost)
    BY <1>2, OvertakenIsSorted
  <2> HIDE DEF q
  <2> QED BY <1>1, <1>2, <1>3, <1>5, <2>1, <2>2, <2>3, <2>4, <2>5, RequestOrder
<1> QED BY <1>7, <1>8, <1>9 DEF ListButton

(* What a task does to the panel.                                          *)
LEMMA TaskPanelKnown ==
  ASSUME IInv, OInv, UNCHANGED <<snap, recorder, page>>, ghost'.made = ghost.made,
         \/ shown'.list = shown.list
         \/ shown'.list = listRecordings(disk),
         take'.rec = take.rec, take'.manifest = take.manifest,
         take'.current \in {0, take.current}, take' \in Takes
  PROVE  PanelKnown'
<1>1. page' \in Pages
  BY DEF OInv, PanelKnown
<1>2. ~Mounted' => ~Mounted
  BY DEF Mounted
<1>3. snap' = "idle" => snap = "idle"
  OBVIOUS
<1> QED BY <1>1, <1>2, <1>3, PanelStaysKnown

(* The order of what waits is that of what is done.                        *)
LEMMA SaveStepsOrder ==
  ASSUME IInv, OInv, SaveChunk \/ SaveManifest
  PROVE  OInv'
<1>1. /\ queue.tasks # <<>>
      /\ Head1 = queue.tasks[1]
      /\ disk \in [Recordings -> Entry]
      /\ queue \in Queues /\ Shape(queue)
      /\ take \in Takes /\ ghost \in Ghosts /\ shown \in Panels
      /\ Sorted(disk, queue, take, ghost) /\ Latest(disk, queue, take, ghost)
      /\ UNCHANGED <<snap, recorder, take, shown, page>>
  <2>1. queue.tasks # <<>>
    BY DEF SaveChunk, SaveManifest, AtTask, At
  <2> QED BY <2>1, HeadIsFirst
          DEF SaveChunk, SaveManifest, Head1, IInv, Types, OInv
<1> DEFINE r == queue.tasks[1].rec
           m == queue.tasks[1].manifest
<1>2. CASE SaveChunk
  <2> DEFINE g == [ghost EXCEPT !.lost[r] = @ \cup {m.n - 1}]
  <2>1. /\ queue.tasks[1].kind = "chunk"
        /\ \/ /\ disk' = saveChunk(disk, r, m.n - 1)
              /\ queue' = [queue EXCEPT !.pc = "manifest"]
              /\ UNCHANGED ghost
           \/ /\ queue' = [queue EXCEPT !.pc = "manifest", !.bad = TRUE]
              /\ StorageTrouble(g)
              /\ UNCHANGED disk
    BY <1>1, <1>2 DEF SaveChunk, AtTask, To
  <2>2. PICK h \in Ghosts : /\ h = g
                            /\ h.made = ghost.made /\ h.erased = ghost.erased
    <3>1. queue.tasks[1] \in Tasks /\ "chunk" \in Saves
      BY <1>1, HeadIsFirst DEF Saves
    <3>2. m \in Manifest /\ m.n - 1 \in Int /\ r \in {0} \cup Recordings
      BY <1>1, <2>1, <3>1, HeadIsFirst, RecordingAssumption DEF Shape, Tasks, Manifest
    <3>3. g \in Ghosts /\ g.made = ghost.made /\ g.erased = ghost.erased
      BY <1>1, <3>2 DEF Ghosts
    <3> HIDE DEF g
    <3> QED BY <3>3
  <2>3. /\ queue'.tasks = queue.tasks /\ queue'.pc = "manifest"
        /\ queue'.bad \in {queue.bad, TRUE}
    BY <1>1, <2>1 DEF Queues
  <2> HIDE DEF g
  <2>4. CASE /\ disk' = saveChunk(disk, r, m.n - 1)
             /\ queue' = [queue EXCEPT !.pc = "manifest"]
             /\ UNCHANGED ghost
    <3>1. queue'.bad = queue.bad
      BY <1>1, <2>4 DEF Queues
    <3>2. /\ Sorted(disk', queue', take, ghost')
          /\ Latest(disk', queue', take, ghost')
      <4>1. PICK i : i = queue.tasks[1].manifest.n - 1
        OBVIOUS
      <4>2. /\ queue.tasks[1].kind = "chunk"
            /\ queue'.tasks = queue.tasks /\ queue'.pc = "manifest"
            /\ disk' = saveChunk(disk, queue.tasks[1].rec, i)
            /\ queue'.bad = queue.bad
            /\ ghost'.made = ghost.made /\ ghost'.erased = ghost.erased
            /\ ghost'.lost = ghost.lost /\ ghost'.failing = ghost.failing
        BY <2>1, <2>3, <2>4, <3>1, <4>1
      <4> QED BY <1>1, <4>1, <4>2, ChunkIsSorted
    <3>3. PanelKnown'
      BY <1>1, <2>4 DEF OInv, PanelKnown, Mounted
    <3> QED BY <1>1, <2>4, <3>2, <3>3, OrderHolds
  <2>5. CASE /\ queue' = [queue EXCEPT !.pc = "manifest", !.bad = TRUE]
             /\ StorageTrouble(g)
             /\ UNCHANGED disk
    <3>1. /\ ghost'.made = ghost.made /\ ghost'.erased = ghost.erased
          /\ ghost'.failing
      BY <2>2, <2>5, HistoryGoesOn DEF SameHistory
    <3>2. queue'.bad = TRUE
      BY <1>1, <2>5 DEF Queues
    <3>3. /\ Sorted(disk', queue', take, ghost')
          /\ Latest(disk', queue', take, ghost')
      <4>1. /\ queue.tasks[1].kind = "chunk"
            /\ queue'.tasks = queue.tasks /\ queue'.pc = "manifest"
            /\ disk' = disk /\ queue'.bad = TRUE
        BY <2>1, <2>3, <2>5, <3>2
      <4> QED BY <1>1, <3>1, <4>1, ChunkIsSorted
    <3>4. PanelKnown'
      BY <1>1, <3>1 DEF OInv, PanelKnown, Mounted
    <3> QED BY <1>1, <3>3, <3>4, OrderHolds
  <2> QED BY <2>1, <2>4, <2>5
<1>3. CASE SaveManifest
  <2>1. /\ queue.tasks[1].kind \in Saves
        /\ \/ disk' = saveManifest(disk, r, m) /\ UNCHANGED ghost
           \/ UNCHANGED disk /\ StorageTrouble(ghost)
        /\ queue'.tasks = queue.tasks /\ queue'.bad = queue.bad
    BY <1>1, <1>3 DEF SaveManifest, AtTask, At, To, Shape, Saves, Queues
  <2>2. CASE disk' = saveManifest(disk, r, m) /\ UNCHANGED ghost
    <3>1. /\ Sorted(disk', queue', take, ghost)
          /\ Latest(disk', queue', take, ghost)
      BY <1>1, <2>1, <2>2, ManifestIsSorted
    <3>2. PanelKnown'
      BY <1>1, <2>2 DEF OInv, PanelKnown, Mounted
    <3> QED BY <1>1, <2>2, <3>1, <3>2, OrderHolds
  <2>3. CASE UNCHANGED disk /\ StorageTrouble(ghost)
    <3>1. SameHistory(ghost, ghost') /\ ghost'.failing
      BY <1>1, <2>3, HistoryGoesOn
    <3>2. Sorted(disk, queue, take, ghost') /\ Latest(disk, queue, take, ghost')
      <4>1. take.current \in {0, take.current}
        OBVIOUS
      <4> QED BY <1>1, <3>1, <4>1, FrameSorted DEF SameHistory
    <3>3. Sorted(disk, queue', take, ghost') /\ Latest(disk, queue', take, ghost')
      BY <2>1, <3>1, <3>2, MoveIsSorted
    <3>4. PanelKnown'
      BY <1>1, <3>1 DEF OInv, PanelKnown, Mounted, SameHistory
    <3> QED BY <1>1, <2>3, <3>3, <3>4, OrderHolds
  <2> QED BY <2>1, <2>2, <2>3
<1> QED BY <1>2, <1>3

LEMMA EndingStepsOrder ==
  ASSUME IInv, OInv, IInv',
         AfterSave \/ AfterDelete \/ AfterFailedDelete \/ Refresh \/ CheckOne
  PROVE  OInv'
<1>1. /\ queue.tasks # <<>>
      /\ Head1 = queue.tasks[1]
      /\ queue \in Queues /\ shown \in Panels /\ ghost \in Ghosts
      /\ take \in Takes /\ take' \in Takes
      /\ Sorted(disk, queue, take, ghost) /\ Latest(disk, queue, take, ghost)
      /\ UNCHANGED <<disk, snap, recorder, page>>
  <2>1. queue.tasks # <<>>
    BY DEF AfterSave, AfterDelete, AfterFailedDelete, Refresh, CheckOne, AtTask, At
  <2> QED BY <2>1, HeadIsFirst
          DEF AfterSave, AfterDelete, AfterFailedDelete, Refresh, CheckOne, Head1,
              IInv, Types, OInv
<1>2. Past(queue)
  BY <1>1 DEF AfterSave, AfterDelete, AfterFailedDelete, Refresh, CheckOne, AtTask,
              At, Past, Saves
<1>3. /\ take'.rec = take.rec /\ take'.manifest = take.manifest
      /\ take'.current \in {0, take.current}
  BY <1>1 DEF AfterSave, AfterDelete, AfterFailedDelete, Refresh, CheckOne, Takes
<1>4. SameHistory(ghost, ghost')
  <2>1. UNCHANGED ghost \/ StorageTrouble(ghost)
    BY DEF AfterSave, AfterDelete, AfterFailedDelete, Refresh, CheckOne
  <2> QED BY <1>1, <2>1, HistoryGoesOn
<1>5. \/ Finish
      \/ /\ queue'.tasks = queue.tasks /\ queue'.bad = queue.bad
  BY <1>1 DEF AfterSave, AfterDelete, AfterFailedDelete, Refresh, CheckOne, Queues
<1>6. \/ shown'.list = shown.list
      \/ shown'.list = listRecordings(disk)
  <2>1. CASE Refresh
    <3>1. \A s \in Panels : Refreshed(s).list = s.list
      BY ListsOfPanels DEF Refreshed
    <3>2. \A s \in Panels : Refreshed(s) \in Panels
      BY PanelsAreTyped DEF Refreshed, IInv
    <3>3. Listed(queue.active) \in Panels /\ Unlisted \in Panels
      BY <1>1, PanelsAreTyped DEF Queues, IInv
    <3>4. shown' \in {shown, Refreshed(Listed(queue.active)), Refreshed(Unlisted),
                      Uncheckable(Head1.rec, Listed(queue.active))}
      BY <2>1 DEF Refresh
    <3> QED BY <3>1, <3>2, <3>3, <3>4, ListsOfPanels
  <2>2. CASE CheckOne
    <3> DEFINE ended == IF Head1.newest THEN [shown EXCEPT !.check = "ready"]
                        ELSE shown
    <3>1. ended \in Panels /\ ended.list = shown.list
      BY <1>1 DEF Panels
    <3>2. shown' \in {shown, Checked(Head1.rec, ended), Uncheckable(Head1.rec, ended)}
      BY <2>2 DEF CheckOne
    <3> HIDE DEF ended
    <3> QED BY <3>1, <3>2, ListsOfPanels
  <2>3. CASE AfterSave \/ AfterDelete \/ AfterFailedDelete
    BY <1>1, <2>3 DEF AfterSave, AfterDelete, AfterFailedDelete, Panels
  <2> QED BY <2>1, <2>2, <2>3
<1>7. PanelKnown'
  BY <1>1, <1>3, <1>4, <1>6, TaskPanelKnown DEF SameHistory
<1>8. Sorted(disk, queue', take, ghost) /\ Latest(disk, queue', take, ghost)
  <2>1. CASE Finish
    BY <1>1, <1>2, <2>1, FinishIsSorted DEF Finish
  <2>2. CASE queue'.tasks = queue.tasks /\ queue'.bad = queue.bad
    BY <1>1, <1>2, <2>2, MoveIsSorted
  <2> QED BY <1>5, <2>1, <2>2
<1>9. Sorted(disk, queue', take', ghost') /\ Latest(disk, queue', take', ghost')
  BY <1>3, <1>4, <1>8, FrameSorted DEF SameHistory
<1> QED BY <1>1, <1>7, <1>9, OrderHolds

LEMMA DeleteOrder ==
  ASSUME IInv, OInv, Delete
  PROVE  OInv'
<1>1. /\ queue.tasks # <<>>
      /\ Head1 = queue.tasks[1]
      /\ queue \in Queues /\ ghost \in Ghosts /\ take \in Takes
      /\ Sorted(disk, queue, take, ghost) /\ Latest(disk, queue, take, ghost)
      /\ PanelKnown
      /\ UNCHANGED <<snap, recorder, take, shown, page>>
  <2>1. queue.tasks # <<>>
    BY DEF Delete, AtTask, At
  <2> QED BY <2>1, HeadIsFirst DEF Delete, Head1, IInv, Types, OInv
<1>2. /\ queue.tasks[1].kind \notin Saves
      /\ queue'.tasks = queue.tasks /\ queue'.bad = queue.bad
  BY <1>1 DEF Delete, AtTask, Deletes, Saves, To, Queues
<1>3. PICK gone :
        \/ /\ disk' = deleteRecordings(disk, gone)
           /\ ghost' = [ghost EXCEPT !.erased = @ \cup (gone \cap BeingMade)]
        \/ UNCHANGED disk /\ StorageTrouble(ghost)
  BY DEF Delete
<1>4. CASE /\ disk' = deleteRecordings(disk, gone)
           /\ ghost' = [ghost EXCEPT !.erased = @ \cup (gone \cap BeingMade)]
  <2>1. /\ ghost'.made = ghost.made /\ ghost'.lost = ghost.lost
        /\ ghost'.failing = ghost.failing
        /\ ghost'.erased = ghost.erased \cup (gone \cap BeingMade)
    BY <1>1, <1>4 DEF Ghosts
  <2>2. ghost.erased \subseteq ghost'.erased
    BY <2>1
  <2>3. take.rec \in gone => take.rec \in ghost'.erased
    BY <2>1 DEF BeingMade
  <2>4. /\ Sorted(disk', queue', take, ghost')
        /\ Latest(disk', queue', take, ghost')
    <3>1. /\ take \in Takes
          /\ Sorted(disk, queue, take, ghost) /\ Latest(disk, queue, take, ghost)
          /\ queue'.tasks = queue.tasks /\ queue'.bad = queue.bad
          /\ queue.tasks[1].kind \notin Saves
      BY <1>1, <1>2
    <3>2. disk' = deleteRecordings(disk, gone)
      BY <1>4
    <3>3. /\ ghost'.made = ghost.made /\ ghost'.lost = ghost.lost
          /\ ghost'.failing = ghost.failing
      BY <2>1
    <3> QED BY <2>2, <2>3, <3>1, <3>2, <3>3, DeleteIsSorted
  <2>5. PanelKnown'
    BY <1>1, <2>1 DEF PanelKnown, Mounted
  <2> QED BY <1>1, <2>4, <2>5, OrderHolds
<1>5. CASE UNCHANGED disk /\ StorageTrouble(ghost)
  <2>1. SameHistory(ghost, ghost')
    BY <1>1, <1>5, HistoryGoesOn
  <2>2. Sorted(disk, queue', take, ghost) /\ Latest(disk, queue', take, ghost)
    BY <1>1, <1>2, MoveIsSorted DEF Past
  <2>3. Sorted(disk, queue', take, ghost') /\ Latest(disk, queue', take, ghost')
    <3>1. take.current \in {0, take.current}
      OBVIOUS
    <3> QED BY <2>1, <2>2, <3>1, FrameSorted DEF SameHistory
  <2>4. PanelKnown'
    BY <1>1, <2>1 DEF PanelKnown, Mounted, SameHistory
  <2> QED BY <1>1, <1>5, <2>3, <2>4, OrderHolds
<1> QED BY <1>3, <1>4, <1>5

LEMMA CrashOrder ==
  ASSUME IInv, OInv, Crash, IInv'
  PROVE  OInv'
<1>1. /\ UNCHANGED disk
      /\ queue' = EmptyQueue /\ take' = NoTake
      /\ recorder' = NoRecorder /\ shown' = Unchecked
      /\ page' = [at |-> "probing", memo |-> "none"]
      /\ ghost \in Ghosts /\ ghost' \in Ghosts
      /\ SameHistory(ghost, ghost')
      /\ Sorted(disk, queue, take, ghost)
  BY HistoryGoesOn DEF Crash, IInv, Types, OInv
<1>2. PanelKnown'
  BY <1>1 DEF PanelKnown, NoRecorder, Unchecked, BlankList, Pages
<1>3. Sorted(disk, EmptyQueue, NoTake, ghost') /\ Latest(disk, EmptyQueue, NoTake, ghost')
  <2>1. /\ \A r \in Recordings : r > ghost'.made => disk[r] = NoEntry
        /\ ~ghost'.failing => \A r \in Recordings : ghost'.lost[r] = {}
    BY <1>1 DEF Sorted, Known, Remembered, SameHistory
  <2> QED BY <1>1, <2>1, EmptyIsSorted
<1> QED BY <1>1, <1>2, <1>3, OrderHolds

-----------------------------------------------------------------------------
(* Saves are not overtaken                                                 *)

LEMMA InitIsOrdered == Init => OInv
<1> SUFFICES ASSUME Init PROVE OInv
  OBVIOUS
<1>1. ghost \in Ghosts
  BY InitEstablishes DEF IInv, Types
<1>2. /\ queue = EmptyQueue /\ take = NoTake
      /\ \A r \in Recordings : disk[r] = NoEntry /\ ghost.lost[r] = {}
  BY DEF Init
<1>3. Sorted(disk, queue, take, ghost) /\ Latest(disk, queue, take, ghost)
  BY <1>1, <1>2, EmptyIsSorted
<1>4. PanelKnown
  BY DEF Init, PanelKnown, NoRecorder, Unchecked, BlankList, Pages
<1> QED BY <1>3, <1>4 DEF OInv

LEMMA StepKeepsOrder == IInv /\ OInv /\ [Next]_vars => OInv'
<1> SUFFICES ASSUME IInv, OInv, [Next]_vars PROVE OInv'
  OBVIOUS
<1>1. IInv'
  BY StepKeeps
<1>2. CASE TaskStep
  BY <1>1, <1>2, SaveStepsOrder, EndingStepsOrder, DeleteOrder DEF TaskStep
<1>3. CASE Button
  BY <1>1, <1>3, StartOrder, StopOrder, ResetOrder, ListButtonOrder,
     QuietStepsOrder DEF Button
<1> QED BY <1>1, <1>2, <1>3, QuietStepsOrder, DataAvailableOrder, RecorderEndsOrder,
   CrashOrder DEF Next

(* The saved manifests, the ones that wait and the one in memory keep their *)
(* order (persistCurrentManifestState, persistLocalRecordingChunk), for any *)
(* number of recordings, chunks and failures.                               *)
THEOREM OrderInvariance == Spec => [](IInv /\ OInv)
<1>1. Init => IInv /\ OInv
  BY InitEstablishes, InitIsOrdered
<1>2. IInv /\ OInv /\ [Next]_vars => (IInv /\ OInv)'
  BY StepKeeps, StepKeepsOrder
<1> QED BY <1>1, <1>2, PTL DEF Spec

(* What a save puts in the place of a manifest is no earlier one.          *)
Advances ==
  \A r \in Stored(disk) :
    disk'[r].manifest # None => UpTo(disk[r].manifest, disk'[r].manifest)

LEMMA SameAdvances ==
  ASSUME IInv, \A r \in Stored(disk) : disk'[r].manifest \in {None, disk[r].manifest}
  PROVE  Advances
<1> SUFFICES ASSUME NEW r \in Stored(disk), disk'[r].manifest # None
             PROVE  UpTo(disk[r].manifest, disk'[r].manifest)
  BY DEF Advances
<1>1. disk[r].manifest \in Manifest
  BY DEF IInv, Types, Entry, Stored
<1> QED BY <1>1, UpToIsAnOrder

LEMMA StepAdvances ==
  ASSUME IInv, OInv, [Next]_vars
  PROVE  Advances
<1> USE DEF IInv, Types
<1>1. CASE UNCHANGED disk
  BY <1>1, SameAdvances
<1>2. CASE SaveChunk
  <2>1. \A r \in Recordings : disk'[r].manifest = disk[r].manifest
    BY <1>2 DEF SaveChunk, saveChunk, Entry
  <2> QED BY <2>1, SameAdvances DEF Stored
<1>3. CASE SaveManifest
  <2>1. /\ queue.tasks # <<>>
        /\ Head1 = queue.tasks[1] /\ 1 \in DOMAIN queue.tasks
        /\ queue.tasks[1].kind \in Saves
    <3>1. queue.tasks # <<>>
      BY <1>3 DEF SaveManifest, AtTask, At
    <3>2. Head1 = queue.tasks[1] /\ 1 \in DOMAIN queue.tasks
      BY <3>1, HeadIsFirst DEF Head1
    <3>3. queue.tasks[1].kind \in Saves
      BY <1>3, <3>2 DEF SaveManifest, AtTask, At, Shape, Saves
    <3> QED BY <3>1, <3>2, <3>3
  <2>2. \/ UNCHANGED disk
        \/ disk' = saveManifest(disk, queue.tasks[1].rec, queue.tasks[1].manifest)
    BY <1>3, <2>1 DEF SaveManifest
  <2>3. CASE disk' = saveManifest(disk, queue.tasks[1].rec, queue.tasks[1].manifest)
    <3> SUFFICES ASSUME NEW r \in Stored(disk), disk'[r].manifest # None
                 PROVE  UpTo(disk[r].manifest, disk'[r].manifest)
      BY DEF Advances
    <3>1. CASE r = queue.tasks[1].rec
      <4>1. disk'[r].manifest = queue.tasks[1].manifest
        BY <2>3, <3>1 DEF saveManifest, Entry, Stored
      <4>2. UpTo(disk[r].manifest, queue.tasks[1].manifest)
        BY <2>1, <3>1 DEF OInv, Sorted, InOrder
      <4> QED BY <4>1, <4>2
    <3>2. CASE r # queue.tasks[1].rec
      <4>1. disk'[r].manifest = disk[r].manifest /\ disk[r].manifest \in Manifest
        BY <2>3, <3>2 DEF saveManifest, Entry, Stored
      <4> QED BY <4>1, UpToIsAnOrder
    <3> QED BY <3>1, <3>2
  <2> QED BY <1>1, <2>2, <2>3
<1>4. CASE Delete
  <2>1. \A r \in Recordings : disk'[r].manifest \in {None, disk[r].manifest}
    BY <1>4 DEF Delete, deleteRecordings, NoEntry
  <2> QED BY <2>1, SameAdvances DEF Stored
<1>5. UNCHANGED disk \/ SaveChunk \/ SaveManifest \/ Delete
  BY DEF Next, vars, OpeningStep, initializePersistenceSupport, InitialList, TaskStep,
         AfterSave, AfterDelete, AfterFailedDelete, Refresh, CheckOne, Button,
         startRecording, stopRecording, resetRecording, ListButton, PreviewSaved,
         RefreshSummary, handleStopPreview, DataAvailable, EmptyData, RecorderStopped,
         RecorderFailed, BuildPreview, LoadGoesOn, Preview, DeviceLost, Leave, Return,
         Crash
<1> QED BY <1>1, <1>2, <1>3, <1>4, <1>5

(* SavedManifestAdvances: a stored manifest is never replaced by an        *)
(* earlier one, with fewer chunks or an earlier status, whatever waits in  *)
(* the persistence queue of useLocalMediaRecorder.ts.                      *)
THEOREM ManifestAdvances == Spec => SavedManifestAdvances
<1> DEFINE Later == \A r \in Stored(disk) :
             disk'[r].manifest # None
               => /\ disk'[r].manifest.n >= disk[r].manifest.n
                  /\ Rank[disk'[r].manifest.status] >= Rank[disk[r].manifest.status]
<1>1. ASSUME IInv, OInv, [Next]_vars PROVE Later
  <2> SUFFICES ASSUME NEW r \in Stored(disk), disk'[r].manifest # None
               PROVE  /\ disk'[r].manifest.n >= disk[r].manifest.n
                      /\ Rank[disk'[r].manifest.status] >= Rank[disk[r].manifest.status]
    OBVIOUS
  <2>1. UpTo(disk[r].manifest, disk'[r].manifest)
    BY <1>1, StepAdvances DEF Advances
  <2>2. disk[r].manifest \in Manifest /\ disk'[r].manifest \in Manifest
    BY <1>1, StepKeeps DEF IInv, Types, Entry, Stored
  <2>3. /\ disk[r].manifest.n \in Nat /\ disk'[r].manifest.n \in Nat
        /\ Rank[disk[r].manifest.status] \in Nat
        /\ Rank[disk'[r].manifest.status] \in Nat
    BY <2>2, RecordingAssumption DEF Manifest, ManifestStatuses, Rank
  <2> QED BY <2>1, <2>3 DEF UpTo
<1>2. IInv /\ OInv /\ [Next]_vars => [Later]_vars
  BY <1>1
<1> HIDE DEF Later
<1>3. Spec => [][Later]_vars
  BY <1>2, OrderInvariance, PTL DEF Spec
<1> QED BY <1>3 DEF SavedManifestAdvances, Later

(* SettledIsSaved: when the queue has nothing left to do and no save has   *)
(* failed, what the recorder has in memory is what IndexedDB holds.  The   *)
(* manifest is stored since it no longer waits, its chunks are since none  *)
(* is due, and there are no others.                                        *)
THEOREM MemoryIsSaved == Spec => []SettledIsSaved
<1>1. ASSUME IInv, OInv PROVE SettledIsSaved
  <2> SUFFICES ASSUME Settled, take.manifest # None, Undisturbed(take.rec)
               PROVE  disk[take.rec] = [manifest |-> take.manifest,
                                        chunks |-> Indexes(take.manifest.n)]
    BY DEF SettledIsSaved
  <2> DEFINE r == take.rec
             n == take.manifest.n
  <2>1. /\ r \in Recordings /\ take.manifest \in Manifest
        /\ disk[r] \in Entry
        /\ r \notin ghost.erased /\ ~ghost.failing
        /\ queue.tasks = <<>> /\ Len(queue.tasks) = 0 /\ DOMAIN queue.tasks = {}
    BY <1>1 DEF IInv, Types, Takes, OInv, Sorted, Known, Settled, Undisturbed
  <2>2. disk[r].manifest = take.manifest
    BY <1>1, <2>1 DEF OInv, Latest, Awaited, Recordings
  <2>3. disk[r].chunks \subseteq Indexes(n)
    BY <1>1, <2>1 DEF OInv, Sorted, Remembered, Recordings
  <2>4. Indexes(n) \subseteq disk[r].chunks
    <3>1. \A i \in Indexes(n) : Covered(disk, ghost, queue, r, i, Len(queue.tasks))
      BY <1>1, <2>1 DEF IInv, Backed, TakeBacked
    <3>2. \A i : ~Due(queue, r, i, Len(queue.tasks))
      BY <2>1 DEF Due
    <3>3. ghost.lost[r] = {}
      BY <1>1, <2>1 DEF OInv, Sorted, Remembered
    <3> QED BY <3>1, <3>2, <3>3 DEF Covered, Saved
  <2>5. disk[r].chunks = Indexes(n)
    BY <2>3, <2>4
  <2> QED BY <2>1, <2>2, <2>5 DEF Entry
<1> QED BY <1>1, OrderInvariance, PTL

-----------------------------------------------------------------------------
(* Steps that only add to the queue                                        *)

(* The tasks of q are still there, at their places, and the first one is   *)
(* where it was.                                                           *)
Grown(q, q2) ==
  /\ q2.pc = q.pc /\ q2.bad = q.bad
  /\ \A k \in DOMAIN q.tasks :
       /\ k \in DOMAIN q2.tasks
       /\ q2.tasks[k].kind = q.tasks[k].kind
       /\ q2.tasks[k].rec = q.tasks[k].rec
       /\ q2.tasks[k].manifest = q.tasks[k].manifest

(* What is behind them.                                                    *)
Added(q, q2, task) ==
  \A k \in DOMAIN q2.tasks : k \notin DOMAIN q.tasks => q2.tasks[k] = task

LEMMA EnqueuedIsGrown ==
  ASSUME NEW q \in Queues, NEW task \in Tasks
  PROVE  Grown(q, enqueue(q, task)) /\ Added(q, enqueue(q, task), task)
<1>1. PICK q2, n : q2 = enqueue(q, task) /\ n = Len(q.tasks) + 1
  OBVIOUS
<1>2. Grown(q, q2) /\ Added(q, q2, task)
  BY <1>1, Enqueued DEF Grown, Added
<1> QED BY <1>1, <1>2

LEMMA GrownIsAnOrder ==
  ASSUME NEW q1, NEW q2, NEW q3
  PROVE  Grown(q1, q1) /\ (Grown(q1, q2) /\ Grown(q2, q3) => Grown(q1, q3))
BY DEF Grown

LEMMA OvertakenIsGrown ==
  ASSUME NEW q \in Queues, NEW q2,
         q2 = [q EXCEPT !.tasks = [i \in DOMAIN q.tasks |-> Overtaken(q.tasks[i])]]
  PROVE  Grown(q, q2) /\ DOMAIN q2.tasks = DOMAIN q.tasks
<1>1. q.tasks \in Seq(Tasks) /\ \A k \in DOMAIN q.tasks : q.tasks[k] \in Tasks
  BY DEF Queues
<1>2. /\ q2.pc = q.pc /\ q2.bad = q.bad
      /\ q2.tasks = [i \in DOMAIN q.tasks |-> Overtaken(q.tasks[i])]
  BY DEF Queues
<1>3. \A task \in Tasks : /\ Overtaken(task).kind = task.kind
                          /\ Overtaken(task).rec = task.rec
                          /\ Overtaken(task).manifest = task.manifest
  BY OvertakenIsTyped
<1> QED BY <1>1, <1>2, <1>3 DEF Grown

(* A new save is of the recording in memory, and only a recorder at work   *)
(* has a new chunk.                                                        *)
NewTask(task) ==
  /\ task.kind \in Saves => task.rec = take'.rec
  /\ task.kind = "chunk" => recorder.held /\ take'.rec = take.rec

GrownByNew ==
  /\ Grown(queue, queue')
  /\ \A k \in DOMAIN queue'.tasks : k \notin DOMAIN queue.tasks => NewTask(queue'.tasks[k])

LEMMA OneMore ==
  ASSUME NEW q \in Queues, Grown(queue, q),
         \A k \in DOMAIN q.tasks : k \notin DOMAIN queue.tasks => NewTask(q.tasks[k]),
         NEW task \in Tasks, NewTask(task), queue' = enqueue(q, task)
  PROVE  GrownByNew
<1>1. Grown(queue, queue')
  BY EnqueuedIsGrown, GrownIsAnOrder
<1>2. ASSUME NEW k \in DOMAIN queue'.tasks, k \notin DOMAIN queue.tasks
      PROVE  NewTask(queue'.tasks[k])
  <2>1. CASE k \in DOMAIN q.tasks
    <3>1. PICK q2 : q2 = queue' /\ Grown(q, q2)
      BY EnqueuedIsGrown
    <3>2. /\ q2.tasks[k].kind = q.tasks[k].kind
          /\ q2.tasks[k].rec = q.tasks[k].rec
      BY <2>1, <3>1 DEF Grown
    <3>3. NewTask(q.tasks[k])
      BY <1>2, <2>1
    <3> QED BY <3>1, <3>2, <3>3 DEF NewTask
  <2>2. CASE k \notin DOMAIN q.tasks
    BY <1>2, <2>2, EnqueuedIsGrown DEF Added
  <2> QED BY <2>1, <2>2
<1> QED BY <1>1, <1>2 DEF GrownByNew

LEMMA SaveIsNew ==
  ASSUME IInv, OInv, take.manifest # None, NEW kind \in Saves, NEW m \in Manifest,
         NEW q \in Queues, Grown(queue, q),
         \A k \in DOMAIN q.tasks : k \notin DOMAIN queue.tasks => NewTask(q.tasks[k]),
         kind = "chunk" => recorder.held, take'.rec = take.rec,
         queue' = enqueue(q, Task(kind, take.rec, m))
  PROVE  GrownByNew
<1>1. take.rec \in {0} \cup Recordings
  BY TakeIsNamed
<1>2. PICK task \in Tasks :
        /\ task = Task(kind, take.rec, m)
        /\ task.kind = kind /\ task.rec = take.rec
  <2>1. \A r \in {0} \cup Recordings :
          Task(kind, r, m) \in Tasks /\ Task(kind, r, m).kind = kind
          /\ Task(kind, r, m).rec = r
    BY TasksOfTake
  <2> QED BY <1>1, <2>1
<1>3. NewTask(task)
  BY <1>2 DEF NewTask
<1> QED BY <1>2, <1>3, OneMore

LEMMA RequestIsNew ==
  ASSUME IInv, NEW kind \in Deletes \cup {"check"}, NEW r \in {0} \cup Recordings,
         NEW q \in Queues, Grown(queue, q), DOMAIN q.tasks = DOMAIN queue.tasks,
         queue' = enqueue(q, Task(kind, r, None))
  PROVE  GrownByNew
<1>1. kind \in {"manifest", "chunk", "check"} \cup Deletes /\ kind \notin Saves
  BY DEF Deletes, Saves
<1>2. Types /\ None \in Manifest \cup {None}
  BY DEF IInv
<1>3. PICK task \in Tasks : task = Task(kind, r, None) /\ task.kind = kind
  BY <1>1, <1>2, TaskIsTyped
<1>4. NewTask(task)
  BY <1>1, <1>3 DEF NewTask, Saves
<1> QED BY <1>3, <1>4, OneMore

LEMMA NothingIsNew ==
  ASSUME UNCHANGED queue
  PROVE  GrownByNew
BY DEF GrownByNew, Grown

LEMMA StoppingGrows ==
  ASSUME IInv, OInv, stopping
  PROVE  GrownByNew
<1> DEFINE m == transitionManifestStatus(take.manifest, "stopping")
           failed == markManifestFailed(m)
           f == markManifestFailed(take.manifest)
<1>1. /\ queue \in Queues /\ Grown(queue, queue) /\ take \in Takes
      /\ "manifest" \in Saves /\ "manifest" # "chunk"
  BY DEF IInv, Types, Grown, Saves
<1>2. take.manifest # None =>
        m \in Manifest /\ failed \in Manifest /\ f \in Manifest
  BY TakeIsNamed, ManifestOperations
<1>3. recorder.held => take.manifest # None
  BY NoneAssumption DEF IInv, HeldOK
<1> HIDE DEF m, failed, f
<1>4. CASE ~recorder.held /\ failRecording
  <2>1. UNCHANGED queue
        \/ /\ take.manifest # None
           /\ commitManifest(f)
           /\ queue' = enqueue(queue, Task("manifest", take.rec, f))
    BY <1>4 DEF failRecording, persist, f
  <2> QED BY <1>1, <1>2, <2>1, NothingIsNew, SaveIsNew DEF commitManifest, Takes
<1>5. CASE recorder.held /\ commitManifest(m) /\ persist("manifest", take.rec, m)
  <2>1. take'.rec = take.rec /\ queue' = enqueue(queue, Task("manifest", take.rec, m))
    BY <1>1, <1>5 DEF commitManifest, persist, Takes
  <2> QED BY <1>1, <1>2, <1>3, <1>5, <2>1, SaveIsNew
<1>6. CASE /\ recorder.held
           /\ commitManifest(failed)
           /\ queue' = enqueue(enqueue(queue, Task("manifest", take.rec, m)),
                               Task("manifest", take.rec, failed))
  <2>1. take'.rec = take.rec
    BY <1>1, <1>6 DEF commitManifest, Takes
  <2>2. PICK task \in Tasks :
          /\ task = Task("manifest", take.rec, m)
          /\ task.kind = "manifest" /\ task.rec = take.rec /\ task.manifest = m
    <3>1. take.rec \in {0} \cup Recordings
      BY <1>1 DEF Takes
    <3>2. \A r \in {0} \cup Recordings :
            /\ Task("manifest", r, m) \in Tasks
            /\ Task("manifest", r, m).kind = "manifest"
            /\ Task("manifest", r, m).rec = r
            /\ Task("manifest", r, m).manifest = m
      BY <1>1, <1>2, <1>3, <1>6, TasksOfTake
    <3> QED BY <3>1, <3>2
  <2>3. PICK q \in Queues : q = enqueue(queue, task)
    <3>1. queue.tasks \in Seq(Tasks)
      BY <1>1 DEF Queues
    <3>2. enqueue(queue, task) \in Queues
      BY <1>1, <3>1, AppendProperties DEF enqueue, Queues
    <3> QED BY <3>2
  <2>4. /\ Grown(queue, q)
        /\ \A k \in DOMAIN q.tasks : k \notin DOMAIN queue.tasks => NewTask(q.tasks[k])
    BY <1>1, <2>1, <2>2, <2>3, EnqueuedIsGrown DEF Added, NewTask
  <2>5. queue' = enqueue(q, Task("manifest", take.rec, failed))
    BY <1>6, <2>2, <2>3
  <2> QED BY <1>1, <1>2, <1>3, <1>6, <2>1, <2>4, <2>5, SaveIsNew
<1> QED BY <1>4, <1>5, <1>6 DEF stopping, m, failed

(* The steps that add tasks, or none, and finish none.                     *)
Adding ==
  startRecording \/ stopRecording \/ handleStopPreview \/ resetRecording
  \/ ListButton \/ DataAvailable \/ RecorderStopped \/ RecorderFailed

LEMMA AddingGrows ==
  ASSUME IInv, OInv, Adding
  PROVE  GrownByNew
<1>1. /\ queue \in Queues /\ Grown(queue, queue) /\ take \in Takes
      /\ "manifest" \in Saves /\ "chunk" \in Saves /\ "manifest" # "chunk"
      /\ ghost \in Ghosts
  BY DEF IInv, Types, Grown, Saves
<1>2. CASE startRecording
  <2> DEFINE r == ghost.made + 1
             m == createLocalRecordingManifest
  <2>1. \/ UNCHANGED queue
        \/ /\ take' = [rec |-> r, manifest |-> m, current |-> r]
           /\ queue' = enqueue(queue, Task("manifest", r, m))
    BY <1>2 DEF startRecording, persist
  <2>2. r \in {0} \cup Recordings /\ m \in Manifest
    BY <1>1, <1>2, RecordingAssumption
       DEF startRecording, Ghosts, Recordings, createLocalRecordingManifest, Manifest,
           ManifestStatuses
  <2> HIDE DEF r, m
  <2>3. PICK task \in Tasks :
          task = Task("manifest", r, m) /\ task.kind = "manifest" /\ task.rec = r
    BY <1>1, <2>2, TasksOfTake
  <2>4. take'.rec = r => NewTask(task)
    BY <2>3 DEF NewTask
  <2> QED BY <1>1, <2>1, <2>3, <2>4, NothingIsNew, OneMore
<1>3. CASE stopRecording \/ handleStopPreview
  <2>1. stopping \/ UNCHANGED queue
    BY <1>3 DEF stopRecording, handleStopPreview
  <2> QED BY <2>1, StoppingGrows, NothingIsNew
<1>4. CASE resetRecording
  <2> DEFINE r == IF take.current # 0 THEN take.current ELSE take.rec
  <2>1. UNCHANGED queue \/ queue' = enqueue(queue, Task("reset", r, None))
    BY <1>4 DEF resetRecording
  <2>2. r \in {0} \cup Recordings /\ "reset" \in Deletes \cup {"check"}
    BY <1>1 DEF Takes, Deletes
  <2> HIDE DEF r
  <2> QED BY <1>1, <2>1, <2>2, NothingIsNew, RequestIsNew
<1>5. CASE ListButton
  <2>1. /\ 0 \in {0} \cup Recordings /\ \A r \in Recordings : r \in {0} \cup Recordings
        /\ {"clear", "discard", "check"} \subseteq Deletes \cup {"check"}
    BY DEF Deletes
  <2>2. CASE clearAllPersistedLocalRecordings
    BY <1>1, <2>1, <2>2, RequestIsNew DEF clearAllPersistedLocalRecordings
  <2>3. ASSUME NEW r \in Recordings, discardPersistedRecording(r)
        PROVE  GrownByNew
    BY <1>1, <2>1, <2>3, RequestIsNew DEF discardPersistedRecording
  <2>4. ASSUME NEW r \in Recordings, checkLocalRecordingIntegrity(r)
        PROVE  GrownByNew
    <3> DEFINE q == [queue EXCEPT !.tasks =
                       [i \in DOMAIN queue.tasks |-> Overtaken(queue.tasks[i])]]
    <3>1. queue' = enqueue(q, Task("check", r, None))
      BY <2>4 DEF checkLocalRecordingIntegrity, Overtaken
    <3>2. q \in Queues
      BY <1>1, OvertakenKeeps DEF IInv
    <3>3. Grown(queue, q) /\ DOMAIN q.tasks = DOMAIN queue.tasks
      BY <1>1, OvertakenIsGrown
    <3> HIDE DEF q
    <3> QED BY <2>1, <3>1, <3>2, <3>3, RequestIsNew
  <2> QED BY <1>5, <2>2, <2>3, <2>4 DEF ListButton
<1>6. CASE DataAvailable
  <2> DEFINE m == appendChunkEntry(take.manifest)
  <2>1. /\ take.manifest # None /\ recorder.held
        /\ m \in Manifest
        /\ commitManifest(m)
        /\ queue' = enqueue(queue, Task("chunk", take.rec, m))
    BY <1>6, TakeIsNamed, ManifestOperations DEF DataAvailable, persist
  <2> HIDE DEF m
  <2>2. take'.rec = take.rec
    BY <1>1, <2>1 DEF commitManifest, Takes
  <2> QED BY <1>1, <2>1, <2>2, SaveIsNew
<1>7. CASE RecorderStopped \/ RecorderFailed
  <2> DEFINE m1 == finalizeManifest(take.manifest)
             m2 == markManifestFailed(take.manifest)
  <2>1. /\ take.manifest # None
        /\ m1 \in Manifest /\ m2 \in Manifest
        /\ \/ commitManifest(m1) /\ queue' = enqueue(queue, Task("manifest", take.rec, m1))
           \/ commitManifest(m2) /\ queue' = enqueue(queue, Task("manifest", take.rec, m2))
    <3>1. take.manifest \in Manifest
      BY <1>7 DEF RecorderStopped, RecorderFailed, IInv, HeldOK
    <3>2. m1 \in Manifest /\ m2 \in Manifest /\ take.manifest # None
      BY <3>1, ManifestOperations, NoneAssumption
    <3> QED BY <1>7, <3>2 DEF RecorderStopped, RecorderFailed, persist
  <2> HIDE DEF m1, m2
  <2>2. take'.rec = take.rec
    BY <1>1, <2>1 DEF commitManifest, Takes
  <2> QED BY <1>1, <2>1, <2>2, SaveIsNew
<1> QED BY <1>2, <1>3, <1>4, <1>5, <1>6, <1>7 DEF Adding

-----------------------------------------------------------------------------
(* A recovered preview is of a recording that is stored                    *)

(* The delete of r is done, and the panel has still to hear of it.         *)
Going(q, r) ==
  /\ q.pc = "deleted"
  /\ 1 \in DOMAIN q.tasks
  /\ q.tasks[1].kind = "clear" \/ q.tasks[1].rec = r

(* After the page is left nobody would hear of a delete.                   *)
RInv ==
  /\ ~Mounted => recovered = NotRecovered
  /\ recovered.pc = "show" \/ recovered.status = "ready" =>
       /\ recovered.rec \in Recordings
       /\ recovered.rec \in Stored(disk) \/ Going(queue, recovered.rec)

LEMMA NotRecoveredIsNone ==
  NotRecovered.pc # "show" /\ NotRecovered.status # "ready"
BY DEF NotRecovered

LEMMA RecoveredFrame ==
  ASSUME RInv, UNCHANGED recovered, Mounted' \in {Mounted, TRUE},
         \A r \in Stored(disk) : r \in Stored(disk') \/ Going(queue', r),
         \A r : Going(queue, r) => Going(queue', r)
  PROVE  RInv'
BY DEF RInv, Going, Stored

LEMMA NothingRecovered ==
  ASSUME recovered' = NotRecovered
  PROVE  RInv'
BY NotRecoveredIsNone DEF RInv

LEMMA GrownGoes ==
  ASSUME Grown(queue, queue')
  PROVE  \A r : Going(queue, r) => Going(queue', r)
BY DEF Grown, Going

LEMMA RecoveredQuiet ==
  ASSUME IInv, OInv, RInv,
         \/ OpeningStep \/ RefreshSummary \/ Preview \/ DeviceLost \/ EmptyData
         \/ BuildPreview \/ Return \/ UNCHANGED vars
  PROVE  RInv'
<1>1. UNCHANGED <<disk, queue, recovered>>
  BY DEF OpeningStep, initializePersistenceSupport, InitialList, RefreshSummary,
         Preview, DeviceLost, EmptyData, BuildPreview, Return, vars
<1>2. UNCHANGED page \/ page'.at # "left"
  BY DEF OpeningStep, initializePersistenceSupport, InitialList, RefreshSummary,
         Preview, DeviceLost, EmptyData, BuildPreview, Return, vars, OInv,
         PanelKnown, Pages
<1>3. Mounted' \in {Mounted, TRUE}
  BY <1>2 DEF Mounted
<1> QED BY <1>1, <1>3, RecoveredFrame

LEMMA RecoveredLoads ==
  ASSUME IInv, RInv, PreviewSaved \/ LoadGoesOn
  PROVE  RInv'
<1>1. /\ UNCHANGED <<disk, queue, page>> /\ recovered \in Previews
      /\ Mounted' = Mounted
  BY DEF PreviewSaved, LoadGoesOn, IInv, Types, Mounted
<1>2. CASE PreviewSaved
  <2>1. recovered'.pc # "show" /\ recovered'.status # "ready" /\ Mounted
    BY <1>2 DEF PreviewSaved, loadRecoveredPreview, OnList
  <2> QED BY <1>1, <2>1 DEF RInv
<1>3. CASE LoadGoesOn
  <2>1. recovered.pc # "none"
    BY <1>3 DEF LoadGoesOn, LoadChunks, LoadBlob, LoadEnds
  <2>2. Mounted
    BY <2>1 DEF RInv, NotRecovered
  <2>3. recovered.rec \in Recordings
    BY <1>1, <2>1 DEF Previews
  <2>4. CASE LoadChunks
    <3>1. /\ recovered'.rec = recovered.rec /\ recovered'.status = recovered.status
          /\ recovered'.pc # "show"
      BY <1>1, <2>4 DEF LoadChunks, Previews
    <3> QED BY <1>1, <2>2, <3>1 DEF RInv, Going
  <2>5. CASE LoadBlob
    <3>1. /\ recovered'.rec = recovered.rec /\ recovered'.status = recovered.status
          /\ recovered'.pc = "show" => recovered.rec \in Stored(disk)
      BY <1>1, <2>3, <2>5 DEF LoadBlob, Previews, Stored
    <3> QED BY <1>1, <2>2, <2>3, <3>1 DEF RInv, Going
  <2>6. CASE LoadEnds
    <3>1. CASE recovered.pc = "show"
      <4>1. recovered'.rec = recovered.rec
        BY <1>1, <2>6, <3>1 DEF LoadEnds, Previews
      <4> QED BY <1>1, <2>2, <3>1, <4>1 DEF RInv, Going
    <3>2. CASE recovered.pc # "show"
      <4>1. recovered'.status = "failed" /\ recovered'.pc = "none"
        BY <2>6, <3>2 DEF LoadEnds, NotRecovered
      <4> QED BY <1>1, <2>2, <4>1 DEF RInv
    <3> QED BY <3>1, <3>2
  <2> QED BY <1>3, <2>4, <2>5, <2>6 DEF LoadGoesOn
<1> QED BY <1>2, <1>3

LEMMA RecoveredTasks ==
  ASSUME IInv, RInv, TaskStep
  PROVE  RInv'
<1>1. /\ queue \in Queues /\ recovered \in Previews
      /\ disk \in [Recordings -> Entry] /\ Shape(queue)
      /\ queue.tasks # <<>> /\ Head1 = queue.tasks[1]
      /\ 1 \in DOMAIN queue.tasks
      /\ Mounted' = Mounted
  <2>1. queue.tasks # <<>>
    BY DEF TaskStep, SaveChunk, SaveManifest, AfterSave, Delete, AfterDelete,
           AfterFailedDelete, Refresh, CheckOne, AtTask, At
  <2>2. UNCHANGED page
    BY DEF TaskStep, SaveChunk, SaveManifest, AfterSave, Delete, AfterDelete,
           AfterFailedDelete, Refresh, CheckOne
  <2> QED BY <2>1, <2>2, HeadIsFirst DEF Head1, Mounted, IInv, Types
<1>2. CASE SaveChunk \/ SaveManifest
  <2>1. queue.pc # "deleted" /\ UNCHANGED recovered
    BY <1>2 DEF SaveChunk, SaveManifest, AtTask, At
  <2>2. \A r \in Stored(disk) : r \in Stored(disk')
    <3>1. CASE SaveChunk
      <4>1. \A r \in Recordings : disk'[r].manifest = disk[r].manifest
        BY <1>1, <3>1 DEF SaveChunk, saveChunk, Entry
      <4> QED BY <4>1 DEF Stored
    <3>2. CASE SaveManifest
      <4>1. queue.tasks[1].kind \in Saves
        BY <1>1, <3>2 DEF SaveManifest, AtTask, At, Shape, Saves
      <4>2. queue.tasks[1].manifest # None
        BY <1>1, <4>1, NoneAssumption DEF Shape
      <4>3. \A r \in Recordings :
              disk'[r].manifest \in {disk[r].manifest, queue.tasks[1].manifest}
        BY <1>1, <3>2 DEF SaveManifest, saveManifest, Entry
      <4> QED BY <4>2, <4>3 DEF Stored
    <3> QED BY <1>2, <3>1, <3>2
  <2>3. \A r : ~Going(queue, r)
    BY <2>1 DEF Going
  <2> QED BY <1>1, <2>1, <2>2, <2>3, RecoveredFrame
<1>3. CASE AfterSave \/ AfterFailedDelete \/ Refresh \/ CheckOne
  <2>1. queue.pc # "deleted" /\ UNCHANGED <<disk, recovered>>
    BY <1>3 DEF AfterSave, AfterFailedDelete, Refresh, CheckOne, AtTask, At
  <2>2. \A r : ~Going(queue, r)
    BY <2>1 DEF Going
  <2> QED BY <1>1, <2>1, <2>2, RecoveredFrame
<1>4. CASE Delete
  <2>1. queue.pc # "deleted" /\ UNCHANGED recovered
    BY <1>4 DEF Delete, AtTask, At
  <2>2. ASSUME NEW r \in Stored(disk)
        PROVE  r \in Stored(disk') \/ Going(queue', r)
    <3>1. CASE UNCHANGED disk
      BY <3>1
    <3>2. PICK gone : gone = IF Head1.kind # "clear" THEN {Head1.rec}
                             ELSE IF page.memo = "failed" THEN {} ELSE Recordings
      OBVIOUS
    <3>3. CASE disk' = deleteRecordings(disk, gone) /\ To("deleted")
      <4>1. queue'.pc = "deleted" /\ queue'.tasks = queue.tasks
        BY <1>1, <3>3 DEF To, Queues
      <4>2. CASE r \in gone
        BY <1>1, <3>2, <4>1, <4>2 DEF Going
      <4>3. CASE r \notin gone
        BY <3>3, <4>3 DEF deleteRecordings, Stored
      <4> QED BY <4>2, <4>3
    <3> QED BY <1>4, <3>1, <3>2, <3>3 DEF Delete
  <2>3. \A r : ~Going(queue, r)
    BY <2>1 DEF Going
  <2> QED BY <1>1, <2>1, <2>2, <2>3, RecoveredFrame
<1>5. CASE AfterDelete
  <2>1. CASE ~Mounted
    BY <1>1, <1>5, <2>1, NothingRecovered DEF AfterDelete, RInv
  <2>2. CASE Mounted /\ recovered' = NotRecovered
    BY <2>2, NothingRecovered
  <2>3. CASE Mounted /\ recovered' # NotRecovered
    <3>1. /\ UNCHANGED <<disk, recovered>>
          /\ queue.tasks[1].kind # "clear" /\ recovered.rec # queue.tasks[1].rec
      BY <1>1, <1>5, <2>3 DEF AfterDelete, clearRecovered
    <3> QED BY <1>1, <2>3, <3>1 DEF RInv, Going
  <2> QED BY <2>1, <2>2, <2>3
<1> QED BY <1>2, <1>3, <1>4, <1>5 DEF TaskStep

LEMMA RecoveredGrows ==
  ASSUME IInv, OInv, RInv, Adding
  PROVE  RInv'
<1>1. UNCHANGED <<disk, recovered, page>>
  BY DEF Adding, startRecording, stopRecording, handleStopPreview, resetRecording,
         ListButton, DataAvailable, RecorderStopped, RecorderFailed
<1>2. \A r : Going(queue, r) => Going(queue', r)
  BY AddingGrows, GrownGoes DEF GrownByNew
<1>3. Mounted' = Mounted
  BY <1>1 DEF Mounted
<1> QED BY <1>1, <1>2, <1>3, RecoveredFrame

LEMMA StepKeepsRecovered == IInv /\ OInv /\ RInv /\ [Next]_vars => RInv'
<1> SUFFICES ASSUME IInv, OInv, RInv, [Next]_vars PROVE RInv'
  OBVIOUS
<1>1. CASE Leave \/ Crash
  BY <1>1, NothingRecovered DEF Leave, Crash
<1> QED BY <1>1, RecoveredQuiet, RecoveredLoads, RecoveredTasks, RecoveredGrows
        DEF Next, Button, Adding

(* RecoveredIsStored: a saved recording that is previewed is one that is   *)
(* stored.  A delete of it takes the preview away, also one that is being  *)
(* loaded, whatever was asked for in between, unless the page was left,    *)
(* and then no preview remains (clearRecoveredPreviewState).               *)
THEOREM RecoveredStored == Spec => []RecoveredIsStored
<1>1. Init => RInv
  BY NotRecoveredIsNone DEF Init, RInv
<1>2. RInv => RecoveredIsStored
  BY DEF RInv, Going, RecoveredIsStored
<1> QED BY <1>1, <1>2, StepKeepsRecovered, OrderInvariance, PTL DEF Spec

-----------------------------------------------------------------------------
(* The preview of the recording just made is whole                         *)

Builds == [pc : {"none", "wait", "read", "late", "show"}, left : Nat, got : SUBSET Int]

Playbacks == [preview : [rec : {0} \cup Recordings, chunks : SUBSET Int],
              builds : [Recordings -> Builds]]

(* No recorder works on r any more.                                        *)
Over(r) == r <= ghost.made /\ (r = take.rec => ~recorder.held)

ChunkTask(q, r, j) == q.tasks[j].kind = "chunk" /\ q.tasks[j].rec = r

(* What the preview of r has to have.                                      *)
Wanted(r) == Indexes(take.manifest.n) \ ghost.lost[r]

(* A preview is built only of a recording that is over, and it is read     *)
(* only when no chunk of it waits to be saved.                             *)
PInv ==
  /\ playback \in Playbacks
  /\ \A r \in Recordings :
       playback.builds[r].pc # "none" \/ playback.preview.rec = r => Over(r)
  /\ \A r \in Recordings : \A j \in DOMAIN queue.tasks : ChunkTask(queue, r, j) =>
       /\ playback.builds[r].pc = "wait" => j <= playback.builds[r].left
       /\ playback.builds[r].pc \notin {"read", "late"}
  /\ \A r \in Recordings :
       /\ playback.builds[r].pc = "show" /\ playback.builds[r].got # {}
       /\ r = take.rec /\ r \notin ghost.erased
       => Wanted(r) \subseteq playback.builds[r].got
  /\ PlaybackIsWhole

(* What a step may not do to a recording that is over.                     *)
LeavesOver(r) ==
  /\ Over(r)'
  /\ r = take'.rec => r = take.rec /\ Wanted(r)' \subseteq Wanted(r)
  /\ r \in ghost.erased => r \in ghost'.erased

NoChunkOf(r) ==
  \A j \in DOMAIN queue'.tasks : ChunkTask(queue', r, j) =>
    j \in DOMAIN queue.tasks /\ ChunkTask(queue, r, j)

LEMMA PlaybackTypes ==
  /\ NoPreview.rec = 0 /\ NoPreview.chunks = {}
  /\ NoBuild \in Builds /\ NoBuild.pc = "none" /\ NoBuild.left = 0
  /\ NoPlayback \in Playbacks /\ NoPlayback.preview = NoPreview
  /\ \A r \in Recordings : NoPlayback.builds[r] = NoBuild
  /\ 0 \notin Recordings
BY DEF NoPreview, NoBuild, NoPlayback, Builds, Playbacks, Recordings

LEMMA PlaybackFrame ==
  ASSUME PInv,
         playback'.builds = playback.builds,
         playback'.preview \in {playback.preview, NoPreview},
         playback' \in Playbacks,
         \A r \in Recordings : Over(r) => LeavesOver(r) /\ NoChunkOf(r)
  PROVE  PInv'
<1>1. \A r \in Recordings :
        playback'.builds[r].pc # "none" \/ playback'.preview.rec = r => Over(r)
  BY PlaybackTypes DEF PInv
<1>2. \A r \in Recordings :
        playback'.builds[r].pc # "none" \/ playback'.preview.rec = r => Over(r)'
  BY <1>1 DEF LeavesOver
<1>3. ASSUME NEW r \in Recordings, NEW j \in DOMAIN queue'.tasks,
             ChunkTask(queue', r, j)
      PROVE  /\ playback'.builds[r].pc = "wait" => j <= playback'.builds[r].left
             /\ playback'.builds[r].pc \notin {"read", "late"}
  BY <1>1, <1>3 DEF PInv, NoChunkOf
<1>4. ASSUME NEW r \in Recordings,
             playback'.builds[r].pc = "show", playback'.builds[r].got # {},
             r = take'.rec, r \notin ghost'.erased
      PROVE  Wanted(r)' \subseteq playback'.builds[r].got
  <2>1. r = take.rec /\ Wanted(r)' \subseteq Wanted(r) /\ r \notin ghost.erased
    BY <1>1, <1>4 DEF LeavesOver
  <2>2. Wanted(r) \subseteq playback.builds[r].got
    BY <1>4, <2>1 DEF PInv
  <2> QED BY <2>1, <2>2
<1>5. PlaybackIsWhole'
  <2> SUFFICES ASSUME NEW r, r = playback'.preview.rec, r # 0, r = take'.rec,
                      r \notin ghost'.erased
               PROVE  Wanted(r)' \subseteq playback'.preview.chunks
    BY DEF PlaybackIsWhole, Wanted
  <2>1. playback'.preview = playback.preview /\ r \in Recordings
    BY PlaybackTypes DEF Playbacks
  <2>2. r = take.rec /\ Wanted(r)' \subseteq Wanted(r) /\ r \notin ghost.erased
    BY <1>1, <2>1 DEF LeavesOver
  <2>3. Wanted(r) \subseteq playback.preview.chunks
    BY <2>1, <2>2 DEF PInv, PlaybackIsWhole, Wanted
  <2> QED BY <2>1, <2>2, <2>3
<1>6. playback' \in Playbacks
  OBVIOUS
<1> QED BY <1>2, <1>3, <1>4, <1>5, <1>6 DEF PInv, ChunkTask, Wanted, Over

(* A recorder at work is left alone, or a new recording is begun.          *)
LEMMA OverStays ==
  ASSUME IInv, IInv',
         ghost'.made \in {ghost.made, ghost.made + 1},
         ghost.erased \subseteq ghost'.erased,
         \A r \in Recordings : ghost.lost[r] \subseteq ghost'.lost[r],
         \/ take'.rec = take.rec /\ (recorder'.held => recorder.held)
              /\ (take'.manifest.n = take.manifest.n \/ recorder.held)
         \/ take'.rec = 0
         \/ take'.rec > ghost.made
  PROVE  \A r \in Recordings : Over(r) => LeavesOver(r)
<1> SUFFICES ASSUME NEW r \in Recordings, Over(r)
             PROVE  LeavesOver(r)
  OBVIOUS
<1>1. ghost.made \in Nat /\ ghost'.made \in Nat /\ r \in Nat /\ r # 0
  BY RecordingAssumption DEF IInv, Types, Ghosts, Recordings
<1>2. take'.rec \in Nat
  BY RecordingAssumption DEF IInv, Types, Takes, Recordings
<1>3. r <= ghost'.made
  BY <1>1 DEF Over
<1>4. r = take'.rec => /\ r = take.rec /\ ~recorder'.held
                       /\ take'.manifest.n = take.manifest.n
  BY <1>1, <1>2 DEF Over
<1>5. r = take'.rec => Wanted(r)' \subseteq Wanted(r)
  BY <1>4 DEF Wanted
<1> QED BY <1>3, <1>4, <1>5 DEF LeavesOver, Over

LEMMA OverIsDone ==
  ASSUME IInv, OInv, GrownByNew, NEW r \in Recordings, Over(r),
         recorder.held => take'.rec = take.rec \/ take.rec # r
  PROVE  NoChunkOf(r)
<1> SUFFICES ASSUME NEW j \in DOMAIN queue'.tasks, ChunkTask(queue', r, j)
             PROVE  j \in DOMAIN queue.tasks /\ ChunkTask(queue, r, j)
  BY DEF NoChunkOf
<1>1. CASE j \in DOMAIN queue.tasks
  BY <1>1 DEF GrownByNew, Grown, ChunkTask
<1>2. CASE j \notin DOMAIN queue.tasks
  <2>1. NewTask(queue'.tasks[j]) /\ "chunk" \in Saves
    BY <1>2 DEF GrownByNew, Saves
  <2>2. recorder.held /\ take'.rec = take.rec /\ take'.rec = r
    BY <2>1 DEF NewTask, ChunkTask
  <2> QED BY <2>2 DEF Over
<1> QED BY <1>1, <1>2

(* The manifest that ends is no longer than the one before.                *)
LEMMA SameLength ==
  ASSUME NEW m \in Manifest
  PROVE  /\ \A s : transitionManifestStatus(m, s).n = m.n
         /\ finalizeManifest(m).n = m.n
         /\ markManifestFailed(m).n = m.n
BY DEF transitionManifestStatus, finalizeManifest, markManifestFailed, Manifest

LEMMA StoppingLeavesOver ==
  ASSUME IInv, OInv, stopping
  PROVE  /\ take'.rec = take.rec /\ (recorder'.held => recorder.held)
         /\ take'.manifest.n = take.manifest.n \/ recorder.held
         /\ ghost'.made = ghost.made /\ ghost'.erased = ghost.erased
         /\ ghost'.lost = ghost.lost
<1>1. take \in Takes /\ ghost \in Ghosts /\ recorder \in Recorders
  BY DEF IInv, Types
<1>2. take'.rec = take.rec /\ (recorder'.held => recorder.held)
  BY <1>1 DEF stopping, failRecording, commitManifest, Takes, NoRecorder, Recorders
<1>3. take'.manifest.n = take.manifest.n \/ recorder.held
  <2>1. CASE recorder.held
    BY <2>1
  <2>2. CASE ~recorder.held
    <3>1. failRecording
      BY <2>2 DEF stopping
    <3>2. UNCHANGED take \/ (take.manifest \in Manifest
                             /\ commitManifest(markManifestFailed(take.manifest)))
      BY <1>1, <3>1 DEF failRecording, Takes
    <3>3. \A m \in Manifest : take' = [take EXCEPT !.manifest = markManifestFailed(m)]
            => take'.manifest.n = m.n
      BY <1>1, SameLength DEF Takes
    <3> QED BY <3>2, <3>3 DEF commitManifest
  <2> QED BY <2>1, <2>2
<1>4. UNCHANGED ghost \/ Trouble(ghost)
  BY DEF stopping
<1> QED BY <1>1, <1>2, <1>3, <1>4, HistoryGoesOn DEF SameHistory

LEMMA AddingLeavesOver ==
  ASSUME IInv, OInv, IInv', Adding
  PROVE  \A r \in Recordings : Over(r) => LeavesOver(r) /\ NoChunkOf(r)
<1>1. take \in Takes /\ ghost \in Ghosts /\ recorder \in Recorders
  BY DEF IInv, Types
<1>2. \/ take'.rec = take.rec /\ (recorder'.held => recorder.held)
           /\ (take'.manifest.n = take.manifest.n \/ recorder.held)
           /\ ghost'.made = ghost.made
      \/ take'.rec = 0 /\ ghost'.made = ghost.made
      \/ take'.rec > ghost.made /\ ghost'.made = ghost.made + 1
  <2>1. CASE startRecording
    <3>1. CASE ghost' = [ghost EXCEPT !.made = ghost.made + 1]
                 /\ take'.rec = ghost.made + 1
      BY <1>1, <3>1, RecordingAssumption DEF Ghosts
    <3>2. CASE take' = NoTake /\ (UNCHANGED ghost \/ Trouble(ghost))
      BY <1>1, <3>2, HistoryGoesOn DEF NoTake, SameHistory
    <3> QED BY <2>1, <3>1, <3>2 DEF startRecording
  <2>2. CASE stopRecording \/ handleStopPreview
    <3>1. stopping \/ UNCHANGED <<take, recorder, ghost>>
      BY <2>2 DEF stopRecording, handleStopPreview
    <3> QED BY <3>1, StoppingLeavesOver
  <2>3. CASE resetRecording
    BY <2>3 DEF resetRecording, NoTake
  <2>4. CASE ListButton
    BY <1>1, <2>4, HistoryGoesOn DEF ListButton, SameHistory
  <2>5. CASE DataAvailable
    BY <1>1, <2>5 DEF DataAvailable, commitManifest, Takes, Recorders
  <2>6. CASE RecorderStopped \/ RecorderFailed
    <3>1. UNCHANGED ghost \/ Trouble(ghost)
      BY <2>6 DEF RecorderStopped, RecorderFailed
    <3>2. ghost'.made = ghost.made
      BY <1>1, <3>1, HistoryGoesOn DEF SameHistory
    <3> QED BY <1>1, <2>6, <3>2
            DEF RecorderStopped, RecorderFailed, commitManifest, Takes, NoRecorder
  <2> QED BY <2>1, <2>2, <2>3, <2>4, <2>5, <2>6 DEF Adding
<1>3. ghost'.erased = ghost.erased /\ ghost'.lost = ghost.lost
  <2>1. \/ UNCHANGED ghost \/ Trouble(ghost) \/ Press
        \/ ghost' = [ghost EXCEPT !.made = ghost.made + 1]
    BY DEF Adding, startRecording, stopRecording, handleStopPreview, stopping,
           resetRecording, ListButton, DataAvailable, RecorderStopped, RecorderFailed
  <2> QED BY <1>1, <2>1, HistoryGoesOn DEF SameHistory, Ghosts
<1>4. \A r \in Recordings : Over(r) => LeavesOver(r)
  BY <1>2, <1>3, OverStays
<1>5. \A r \in Recordings : Over(r) => NoChunkOf(r)
  <2> SUFFICES ASSUME NEW r \in Recordings, Over(r) PROVE NoChunkOf(r)
    OBVIOUS
  <2>1. recorder.held => take'.rec = take.rec \/ take.rec # r
    BY DEF Over
  <2> QED BY <2>1, AddingGrows, OverIsDone
<1> QED BY <1>4, <1>5

LEMMA WaitedIsBuilt ==
  ASSUME NEW b \in Builds
  PROVE  /\ Waited(b) \in Builds
         /\ Waited(b).pc = b.pc /\ Waited(b).got = b.got
         /\ b.pc = "wait" /\ b.left > 0 => Waited(b).left = b.left - 1
BY DEF Waited, Builds

(* The first task is done: those behind it and the builders that wait for  *)
(* them come one nearer.                                                   *)
LEMMA FinishPlayback ==
  ASSUME IInv, PInv, Finish, queue.tasks # <<>>,
         \A r \in Recordings : Over(r) => LeavesOver(r)
  PROVE  PInv'
<1>1. /\ queue \in Queues /\ playback \in Playbacks
      /\ \A r \in Recordings : playback.builds[r] \in Builds
  BY DEF IInv, Types, PInv, Playbacks
<1>2. \A k \in DOMAIN queue'.tasks :
        /\ k \in Nat /\ k > 0
        /\ k + 1 \in DOMAIN queue.tasks
        /\ queue'.tasks[k] = queue.tasks[k + 1]
  <2>1. queue' = [EmptyQueue EXCEPT !.tasks = Tail(queue.tasks)]
    BY DEF Finish
  <2> QED BY <1>1, <2>1, TailOfTasks
<1>3. /\ playback' \in Playbacks
      /\ playback'.preview = playback.preview
      /\ \A r \in Recordings : playback'.builds[r] = Waited(playback.builds[r])
  <2>1. playback' = [playback EXCEPT !.builds =
                       [r \in Recordings |-> Waited(playback.builds[r])]]
    BY DEF Finish
  <2>2. [r \in Recordings |-> Waited(playback.builds[r])] \in [Recordings -> Builds]
    BY <1>1, WaitedIsBuilt
  <2> QED BY <1>1, <2>1, <2>2 DEF Playbacks
<1>4. \A r \in Recordings :
        /\ playback'.builds[r].pc = playback.builds[r].pc
        /\ playback'.builds[r].got = playback.builds[r].got
        /\ playback.builds[r].pc = "wait" /\ playback.builds[r].left > 0
             => playback'.builds[r].left = playback.builds[r].left - 1
  BY <1>1, <1>3, WaitedIsBuilt
<1>5. \A r \in Recordings :
        playback'.builds[r].pc # "none" \/ playback'.preview.rec = r => Over(r) /\ Over(r)'
  BY <1>3, <1>4 DEF PInv, LeavesOver
<1>6. ASSUME NEW r \in Recordings, NEW j \in DOMAIN queue'.tasks,
             ChunkTask(queue', r, j)
      PROVE  /\ playback'.builds[r].pc = "wait" => j <= playback'.builds[r].left
             /\ playback'.builds[r].pc \notin {"read", "late"}
  <2>1. PICK k \in DOMAIN queue.tasks : k = j + 1 /\ ChunkTask(queue, r, k)
    BY <1>2, <1>6 DEF ChunkTask
  <2>2. /\ playback.builds[r].pc = "wait" => k <= playback.builds[r].left
        /\ playback.builds[r].pc \notin {"read", "late"}
    BY <2>1 DEF PInv
  <2>3. playback.builds[r].left \in Nat /\ j \in Nat /\ j > 0
    BY <1>1, <1>2 DEF Builds
  <2> QED BY <1>4, <2>1, <2>2, <2>3
<1>7. ASSUME NEW r \in Recordings,
             playback'.builds[r].pc = "show", playback'.builds[r].got # {},
             r = take'.rec, r \notin ghost'.erased
      PROVE  Wanted(r)' \subseteq playback'.builds[r].got
  <2>1. r = take.rec /\ Wanted(r)' \subseteq Wanted(r) /\ r \notin ghost.erased
    BY <1>5, <1>7 DEF LeavesOver
  <2>2. Wanted(r) \subseteq playback.builds[r].got
    BY <1>4, <1>7, <2>1 DEF PInv
  <2> QED BY <1>4, <2>1, <2>2
<1>8. PlaybackIsWhole'
  <2> SUFFICES ASSUME NEW r, r = playback'.preview.rec, r # 0, r = take'.rec,
                      r \notin ghost'.erased
               PROVE  Wanted(r)' \subseteq playback'.preview.chunks
    BY DEF PlaybackIsWhole, Wanted
  <2>1. r \in Recordings
    BY <1>3 DEF Playbacks
  <2>2. r = take.rec /\ Wanted(r)' \subseteq Wanted(r) /\ r \notin ghost.erased
    BY <1>5, <2>1 DEF LeavesOver
  <2>3. Wanted(r) \subseteq playback.preview.chunks
    BY <1>3, <2>1, <2>2 DEF PInv, PlaybackIsWhole, Wanted
  <2> QED BY <1>3, <2>1, <2>2, <2>3
<1> QED BY <1>3, <1>5, <1>6, <1>7, <1>8 DEF PInv, ChunkTask, Wanted, Over

LEMMA TasksLeaveOver ==
  ASSUME IInv, OInv, IInv', TaskStep
  PROVE  \A r \in Recordings : Over(r) => LeavesOver(r)
<1>1. take \in Takes /\ ghost \in Ghosts
  BY DEF IInv, Types
<1>2. UNCHANGED recorder /\ take'.rec = take.rec /\ take'.manifest = take.manifest
  BY <1>1 DEF TaskStep, SaveChunk, SaveManifest, AfterSave, Delete, AfterDelete,
              AfterFailedDelete, Refresh, CheckOne, Takes
<1>3. /\ ghost'.made = ghost.made /\ ghost.erased \subseteq ghost'.erased
      /\ \A r \in Recordings : ghost.lost[r] \subseteq ghost'.lost[r]
  <2>1. CASE UNCHANGED ghost
    BY <2>1
  <2>2. CASE StorageTrouble(ghost)
    BY <1>1, <2>2, HistoryGoesOn DEF SameHistory
  <2>3. CASE SaveChunk
    <3>1. PICK r, i : UNCHANGED ghost
                      \/ StorageTrouble([ghost EXCEPT !.lost[r] = @ \cup {i}])
      BY <2>3 DEF SaveChunk
    <3> DEFINE g == [ghost EXCEPT !.lost[r] = @ \cup {i}]
    <3>2. CASE StorageTrouble(g)
      <4>1. ghost'.made = g.made /\ ghost'.erased = g.erased /\ ghost'.lost = g.lost
        BY <1>1, <3>2 DEF StorageTrouble, Trouble, Ghosts
      <4>2. /\ g.made = ghost.made /\ g.erased = ghost.erased
            /\ \A x \in Recordings : ghost.lost[x] \subseteq g.lost[x]
        BY <1>1 DEF Ghosts
      <4> QED BY <4>1, <4>2
    <3> QED BY <3>1, <3>2
  <2>4. CASE Delete
    <3>1. PICK gone : \/ ghost' = [ghost EXCEPT !.erased = @ \cup gone]
                      \/ StorageTrouble(ghost)
      BY <2>4 DEF Delete
    <3> QED BY <1>1, <2>2, <3>1 DEF Ghosts
  <2>5. \/ UNCHANGED ghost \/ StorageTrouble(ghost) \/ SaveChunk \/ Delete
    BY DEF TaskStep, SaveManifest, AfterSave, AfterDelete, AfterFailedDelete,
           Refresh, CheckOne
  <2> QED BY <2>1, <2>2, <2>3, <2>4, <2>5
<1> QED BY <1>2, <1>3, OverStays

LEMMA PlaybackIsTyped ==
  ASSUME NEW p \in [rec : {0} \cup Recordings, chunks : SUBSET Int],
         NEW bs \in [Recordings -> Builds]
  PROVE  [preview |-> p, builds |-> bs] \in Playbacks
BY Zenon DEF Playbacks

(* A write comes between the two reads of a build, and changes no more.    *)
LEMMA WritePlayback ==
  ASSUME PInv, Write, queue'.tasks = queue.tasks,
         \A r \in Recordings : Over(r) => LeavesOver(r)
  PROVE  PInv'
<1>1. /\ playback \in Playbacks /\ playback'.preview = playback.preview
      /\ playback'.builds = [r \in Recordings |-> Overtakes(playback.builds[r])]
      /\ playback' = [preview |-> playback'.preview, builds |-> playback'.builds]
  BY DEF PInv, Playbacks, Write
<1>2. ASSUME NEW b \in Builds
      PROVE  /\ Overtakes(b) \in Builds
             /\ Overtakes(b).left = b.left /\ Overtakes(b).got = b.got
             /\ \/ Overtakes(b).pc = b.pc
                \/ b.pc = "read" /\ Overtakes(b).pc = "late"
  BY <1>2 DEF Overtakes, Builds
<1>3. ASSUME NEW r \in Recordings
      PROVE  /\ playback'.builds[r] \in Builds
             /\ playback'.builds[r].left = playback.builds[r].left
             /\ playback'.builds[r].got = playback.builds[r].got
             /\ \/ playback'.builds[r].pc = playback.builds[r].pc
                \/ playback.builds[r].pc = "read" /\ playback'.builds[r].pc = "late"
  <2>1. playback.builds[r] \in Builds
    BY <1>1 DEF Playbacks
  <2>2. playback'.builds[r] = Overtakes(playback.builds[r])
    BY <1>1
  <2> QED BY <1>2, <2>1, <2>2
<1>4. playback' \in Playbacks
  <2>1. playback'.builds \in [Recordings -> Builds]
    BY <1>1, <1>3
  <2>2. playback'.preview \in [rec : {0} \cup Recordings, chunks : SUBSET Int]
    BY <1>1 DEF Playbacks
  <2> QED BY <1>1, <2>1, <2>2, PlaybackIsTyped
<1>5. \A r \in Recordings :
        playback'.builds[r].pc # "none" \/ playback'.preview.rec = r => Over(r)
  BY <1>1, <1>3 DEF PInv
<1>6. \A r \in Recordings :
        playback'.builds[r].pc # "none" \/ playback'.preview.rec = r => Over(r)'
  BY <1>5 DEF LeavesOver
<1>7. ASSUME NEW r \in Recordings, NEW j \in DOMAIN queue'.tasks,
             ChunkTask(queue', r, j)
      PROVE  /\ playback'.builds[r].pc = "wait" => j <= playback'.builds[r].left
             /\ playback'.builds[r].pc \notin {"read", "late"}
  <2>1. ChunkTask(queue, r, j) /\ j \in DOMAIN queue.tasks
    BY <1>7 DEF ChunkTask
  <2> QED BY <1>3, <2>1 DEF PInv
<1>8. ASSUME NEW r \in Recordings,
             playback'.builds[r].pc = "show", playback'.builds[r].got # {},
             r = take'.rec, r \notin ghost'.erased
      PROVE  Wanted(r)' \subseteq playback'.builds[r].got
  <2>1. r = take.rec /\ Wanted(r)' \subseteq Wanted(r) /\ r \notin ghost.erased
    BY <1>5, <1>8 DEF LeavesOver
  <2>2. playback.builds[r].pc = "show" /\ playback.builds[r].got = playback'.builds[r].got
    BY <1>3, <1>8
  <2>3. Wanted(r) \subseteq playback.builds[r].got
    BY <1>8, <2>1, <2>2 DEF PInv
  <2> QED BY <2>1, <2>2, <2>3
<1>9. PlaybackIsWhole'
  <2> SUFFICES ASSUME NEW r, r = playback'.preview.rec, r # 0, r = take'.rec,
                      r \notin ghost'.erased
               PROVE  Wanted(r)' \subseteq playback'.preview.chunks
    BY DEF PlaybackIsWhole, Wanted
  <2>1. r \in Recordings
    BY <1>1 DEF Playbacks
  <2>2. r = take.rec /\ Wanted(r)' \subseteq Wanted(r) /\ r \notin ghost.erased
    BY <1>5, <2>1 DEF LeavesOver
  <2>3. Wanted(r) \subseteq playback.preview.chunks
    BY <1>1, <2>1, <2>2 DEF PInv, PlaybackIsWhole, Wanted
  <2> QED BY <1>1, <2>2, <2>3
<1> QED BY <1>4, <1>6, <1>7, <1>8, <1>9 DEF PInv, ChunkTask, Wanted, Over

LEMMA TasksPlayback ==
  ASSUME IInv, OInv, IInv', PInv, TaskStep
  PROVE  PInv'
<1>1. queue.tasks # <<>>
  BY DEF TaskStep, SaveChunk, SaveManifest, AfterSave, Delete, AfterDelete,
         AfterFailedDelete, Refresh, CheckOne, AtTask, At
<1>2. CASE Finish
  BY <1>1, <1>2, TasksLeaveOver, FinishPlayback
<1>3. CASE ~Finish /\ ~Write
  <2>1. UNCHANGED playback /\ queue'.tasks = queue.tasks
    BY <1>3 DEF IInv, Types, Queues, TaskStep, SaveChunk, SaveManifest, AfterSave, Delete,
         AfterDelete, AfterFailedDelete, Refresh, CheckOne, To
  <2>2. \A r : NoChunkOf(r)
    BY <2>1 DEF NoChunkOf, ChunkTask
  <2>3. playback' \in Playbacks
    BY <2>1 DEF PInv
  <2> QED BY <2>1, <2>2, <2>3, TasksLeaveOver, PlaybackFrame
<1>4. CASE ~Finish /\ Write
  <2>1. queue'.tasks = queue.tasks
    BY <1>4 DEF IInv, Types, Queues, TaskStep, SaveChunk, SaveManifest, AfterSave, Delete,
         AfterDelete, AfterFailedDelete, Refresh, CheckOne, To
  <2> QED BY <1>4, <2>1, TasksLeaveOver, WritePlayback
<1> QED BY <1>2, <1>3, <1>4

LEMMA OneChanged ==
  ASSUME NEW S, NEW T, NEW f \in [S -> T], NEW x \in S, NEW y \in T,
         NEW g, g = [f EXCEPT ![x] = y]
  PROVE  /\ g \in [S -> T]
         /\ g[x] = y
         /\ \A z \in S : z # x => g[z] = f[z]
OBVIOUS

(* A builder goes on to pc with what it has got, and may show p.           *)
LEMMA BuildGoesOn ==
  ASSUME IInv, PInv, UNCHANGED <<queue, take, recorder, ghost>>,
         NEW r \in Recordings, playback.builds[r].pc # "none",
         NEW pc \in {"none", "read", "show"}, NEW got \in SUBSET Int,
         NEW p \in [rec : {0} \cup Recordings, chunks : SUBSET Int],
         playback' = [ToBuild(r, pc, got) EXCEPT !.preview = p],
         pc = "read" => \A j \in DOMAIN queue.tasks : ~ChunkTask(queue, r, j),
         pc = "show" /\ got # {} /\ r = take.rec /\ r \notin ghost.erased
           => Wanted(r) \subseteq got,
         \/ p \in {playback.preview, NoPreview}
         \/ /\ p.rec = r
            /\ r = take.rec /\ r \notin ghost.erased => Wanted(r) \subseteq p.chunks
  PROVE  PInv'
<1>1. playback \in Playbacks
  BY DEF PInv
<1> DEFINE b == [pc |-> pc, left |-> 0, got |-> got]
<1>2. b \in Builds /\ b.pc = pc /\ b.got = got
  BY DEF Builds
<1>3. /\ playback' \in Playbacks
      /\ playback'.preview = p
      /\ playback'.builds[r] = b
      /\ \A x \in Recordings : x # r => playback'.builds[x] = playback.builds[x]
  <2>1. playback' = [preview |-> p, builds |-> [playback.builds EXCEPT ![r] = b]]
    BY <1>1 DEF ToBuild, Playbacks
  <2> HIDE DEF b
  <2>2. PICK bs : bs = [playback.builds EXCEPT ![r] = b]
    OBVIOUS
  <2>3. playback.builds \in [Recordings -> Builds]
    BY <1>1 DEF Playbacks
  <2>4. /\ bs \in [Recordings -> Builds]
        /\ bs[r] = b
        /\ \A x \in Recordings : x # r => bs[x] = playback.builds[x]
    BY <1>2, <2>2, <2>3, OneChanged
  <2>5. playback' = [preview |-> p, builds |-> bs]
    BY <2>1, <2>2
  <2>6. playback' \in Playbacks
    BY <2>4, <2>5, PlaybackIsTyped
  <2> QED BY <2>4, <2>5, <2>6
<1> HIDE DEF b
<1>4. \A x \in Recordings : Over(x)' <=> Over(x)
  BY DEF Over
<1>5. \A x \in Recordings :
        playback'.builds[x].pc # "none" \/ playback'.preview.rec = x => Over(x)
  BY <1>3, PlaybackTypes DEF PInv
<1>6. \A x \in Recordings : \A j \in DOMAIN queue.tasks : ChunkTask(queue, x, j) =>
        /\ playback'.builds[x].pc = "wait" => j <= playback'.builds[x].left
        /\ playback'.builds[x].pc \notin {"read", "late"}
  BY <1>2, <1>3 DEF PInv
<1>7. \A x \in Recordings :
        /\ playback'.builds[x].pc = "show" /\ playback'.builds[x].got # {}
        /\ x = take.rec /\ x \notin ghost.erased
        => Wanted(x) \subseteq playback'.builds[x].got
  BY <1>2, <1>3 DEF PInv
<1>8. PlaybackIsWhole'
  BY <1>3, PlaybackTypes DEF PInv, PlaybackIsWhole, Wanted
<1> QED BY <1>3, <1>4, <1>5, <1>6, <1>7, <1>8 DEF PInv, ChunkTask, Wanted

(* When no chunk of r waits, those its manifest lists are stored or lost.  *)
LEMMA NoneDueIsStored ==
  ASSUME IInv, OInv, NEW r \in Recordings, r = take.rec, r \notin ghost.erased,
         \A j \in DOMAIN queue.tasks : ~ChunkTask(queue, r, j)
  PROVE  Wanted(r) \subseteq disk[r].chunks
<1>1. take.manifest \in Manifest
  BY PlaybackTypes DEF OInv, Sorted, Known
<1>2. \A i \in Indexes(take.manifest.n) : Covered(disk, ghost, queue, r, i, Len(queue.tasks))
  BY <1>1 DEF IInv, Backed, TakeBacked
<1>3. \A i : ~Due(queue, r, i, Len(queue.tasks))
  BY DEF Due, ChunkTask
<1> QED BY <1>2, <1>3 DEF Covered, Saved, Wanted

LEMMA BuildPlayback ==
  ASSUME IInv, OInv, PInv, BuildPreview
  PROVE  PInv'
<1>1. /\ UNCHANGED <<disk, queue, take, recorder, ghost>>
      /\ playback \in Playbacks /\ disk \in [Recordings -> Entry]
      /\ {} \in SUBSET Int
      /\ playback.preview \in [rec : {0} \cup Recordings, chunks : SUBSET Int]
      /\ NoPreview \in [rec : {0} \cup Recordings, chunks : SUBSET Int]
  BY DEF BuildPreview, PInv, IInv, Types, Playbacks, NoPreview
<1>2. PICK r \in Recordings : StartBuild(r) \/ ReadChunks(r) \/ ShowPreview(r)
  BY DEF BuildPreview
<1>3. \A pc, got : ToBuild(r, pc, got)
                     = [ToBuild(r, pc, got) EXCEPT !.preview = playback.preview]
  BY <1>1 DEF ToBuild, Playbacks
<1>4. CASE StartBuild(r)
  <2>1. PICK pc \in {"none", "read", "show"} :
          playback' = ToBuild(r, pc, {})
    BY <1>4 DEF StartBuild
  <2>2. playback.builds[r].pc = "wait" /\ playback.builds[r].left = 0
    BY <1>4 DEF StartBuild
  <2>3. \A j \in DOMAIN queue.tasks : ~ChunkTask(queue, r, j)
    <3>1. \A j \in DOMAIN queue.tasks : j \in Nat /\ j > 0
      <4>1. queue.tasks \in Seq(Tasks)
        BY DEF IInv, Types, Queues
      <4>2. Len(queue.tasks) \in Nat /\ DOMAIN queue.tasks = 1 .. Len(queue.tasks)
        BY <4>1
      <4> QED BY <4>2
    <3>2. \A j \in DOMAIN queue.tasks : ChunkTask(queue, r, j) => j <= 0
      BY <2>2 DEF PInv
    <3> QED BY <3>1, <3>2
  <2>4. playback' = [ToBuild(r, pc, {}) EXCEPT !.preview = playback.preview]
    BY <1>3, <2>1
  <2> QED BY <1>1, <2>2, <2>3, <2>4, BuildGoesOn
<1>5. CASE ReadChunks(r)
  <2> DEFINE got == disk[r].chunks
  <2>1. playback.builds[r].pc \in {"read", "late"}
        /\ playback' = [ToBuild(r, "show", got) EXCEPT !.preview = playback.preview]
    BY <1>3, <1>5 DEF ReadChunks
  <2>2. got \in SUBSET Int
    BY <1>1, RecordingAssumption DEF Entry, Indexes
  <2>3. \A j \in DOMAIN queue.tasks : ~ChunkTask(queue, r, j)
    BY <2>1 DEF PInv
  <2>4. r = take.rec /\ r \notin ghost.erased => Wanted(r) \subseteq got
    BY <2>3, NoneDueIsStored
  <2> HIDE DEF got
  <2> QED BY <1>1, <2>1, <2>2, <2>4, BuildGoesOn
<1>6. CASE ShowPreview(r)
  <2> DEFINE got == playback.builds[r].got
  <2>1. /\ playback.builds[r].pc = "show"
        /\ \/ playback' = [ToBuild(r, "none", {}) EXCEPT !.preview = NoPreview]
           \/ /\ got # {}
              /\ playback' = [ToBuild(r, "none", {}) EXCEPT
                                !.preview = [rec |-> r, chunks |-> got]]
    BY <1>6 DEF ShowPreview
  <2>2. got \in SUBSET Int
    BY <1>1 DEF Playbacks, Builds
  <2>3. got # {} /\ r = take.rec /\ r \notin ghost.erased => Wanted(r) \subseteq got
    BY <2>1 DEF PInv
  <2> HIDE DEF got
  <2>4. PICK p \in [rec : {0} \cup Recordings, chunks : SUBSET Int] :
          p = [rec |-> r, chunks |-> got] /\ p.rec = r /\ p.chunks = got
    <3>1. [rec |-> r, chunks |-> got] \in [rec : {0} \cup Recordings, chunks : SUBSET Int]
      BY <2>2
    <3> QED BY <3>1
  <2>5. CASE playback' = [ToBuild(r, "none", {}) EXCEPT !.preview = NoPreview]
    BY <1>1, <2>1, <2>5, BuildGoesOn
  <2>6. CASE got # {} /\ playback' = [ToBuild(r, "none", {}) EXCEPT !.preview = p]
    BY <1>1, <2>1, <2>3, <2>4, <2>6, BuildGoesOn
  <2> QED BY <2>1, <2>4, <2>5, <2>6
<1> QED BY <1>2, <1>4, <1>5, <1>6

(* The preview waits for all the tasks there are, and for the last save.   *)
LEMMA StoppedPlayback ==
  ASSUME IInv, OInv, IInv', PInv, RecorderStopped
  PROVE  PInv'
<1>1. /\ queue \in Queues /\ playback \in Playbacks /\ take \in Takes
      /\ recorder.held /\ ~recorder'.held
      /\ take.rec \in Recordings /\ take.manifest # None
      /\ UNCHANGED ghost /\ take'.rec = take.rec
  <2>1. take.manifest # None /\ recorder.held
    BY NoneAssumption DEF RecorderStopped, IInv, HeldOK
  <2>2. take \in Takes /\ take'.rec = take.rec
    BY DEF RecorderStopped, commitManifest, IInv, Types, Takes
  <2> QED BY <2>1, <2>2, TakeIsNamed DEF RecorderStopped, NoRecorder, IInv, Types, PInv
<1>2. PICK r \in Recordings : r = take.rec
  BY <1>1
<1>3. \A x \in Recordings : Over(x) => x # r /\ LeavesOver(x) /\ NoChunkOf(x)
  BY <1>1, <1>2, AddingLeavesOver DEF Adding, Over
<1>4. Over(r)'
  BY <1>1, <1>2 DEF Over, OInv, Sorted, Known
<1> DEFINE n == Len(queue.tasks) + 1
           b == [NoBuild EXCEPT !.pc = "wait", !.left = n]
<1>5. /\ n \in Nat /\ b \in Builds /\ b.pc = "wait" /\ b.left = n
      /\ DOMAIN queue'.tasks = 1 .. n
  <2>1. n \in Nat /\ b \in Builds /\ b.pc = "wait" /\ b.left = n
    <3>1. queue.tasks \in Seq(Tasks)
      BY <1>1 DEF Queues
    <3>2. n \in Nat
      BY <3>1
    <3> HIDE DEF n
    <3> QED BY <3>2 DEF NoBuild, Builds
  <2>2. PICK m \in Manifest : queue' = enqueue(queue, Task("manifest", r, m))
    <3>1. take.manifest \in Manifest
      BY <1>1 DEF IInv, HeldOK
    <3>2. finalizeManifest(take.manifest) \in Manifest
      BY <3>1, ManifestOperations
    <3> QED BY <1>2, <3>2 DEF RecorderStopped, persist
  <2>3. Task("manifest", r, m) \in Tasks
    <3>1. "manifest" \in Saves /\ r \in {0} \cup Recordings
      BY DEF Saves
    <3> QED BY <3>1, TasksOfTake
  <2>4. PICK q2, i : q2 = queue' /\ i = n
    OBVIOUS
  <2>5. DOMAIN q2.tasks = 1 .. i
    BY <1>1, <2>2, <2>3, <2>4, Enqueued
  <2> QED BY <2>1, <2>4, <2>5
<1> HIDE DEF n, b
<1>6. /\ playback' \in Playbacks
      /\ playback'.preview = playback.preview
      /\ playback'.builds[r] = b
      /\ \A x \in Recordings : x # r => playback'.builds[x] = playback.builds[x]
  <2>1. playback' = [playback EXCEPT !.builds[r] = b]
    BY <1>2 DEF RecorderStopped, awaitQueue, b, n
  <2> QED BY <1>1, <1>5, <2>1 DEF Playbacks
<1>7. \A x \in Recordings :
        playback'.builds[x].pc # "none" \/ playback'.preview.rec = x => Over(x)'
  BY <1>3, <1>4, <1>6 DEF PInv, LeavesOver
<1>8. ASSUME NEW x \in Recordings, NEW j \in DOMAIN queue'.tasks, ChunkTask(queue', x, j)
      PROVE  /\ playback'.builds[x].pc = "wait" => j <= playback'.builds[x].left
             /\ playback'.builds[x].pc \notin {"read", "late"}
  <2>1. CASE x = r
    BY <1>5, <1>6, <2>1
  <2>2. CASE x # r
    <3>1. CASE playback.builds[x].pc = "none"
      BY <1>6, <2>2, <3>1
    <3>2. CASE playback.builds[x].pc # "none"
      <4>1. NoChunkOf(x)
        BY <1>3, <3>2 DEF PInv
      <4>2. j \in DOMAIN queue.tasks /\ ChunkTask(queue, x, j)
        BY <1>8, <4>1 DEF NoChunkOf
      <4> QED BY <1>6, <2>2, <4>2 DEF PInv
    <3> QED BY <3>1, <3>2
  <2> QED BY <2>1, <2>2
<1>9. \A x \in Recordings :
        ~(playback'.builds[x].pc = "show" /\ x = take'.rec)
  BY <1>1, <1>2, <1>5, <1>6
<1>10. playback.preview.rec # r
  BY <1>3 DEF PInv
<1>11. PlaybackIsWhole'
  BY <1>1, <1>2, <1>6, <1>10 DEF PlaybackIsWhole
<1> QED BY <1>6, <1>7, <1>8, <1>9, <1>11 DEF PInv, ChunkTask, Wanted, Over

LEMMA QuietPlayback ==
  ASSUME IInv, OInv, IInv', PInv,
         \/ OpeningStep \/ PreviewSaved \/ LoadGoesOn \/ RefreshSummary
         \/ Preview \/ DeviceLost \/ EmptyData \/ Return \/ Leave \/ UNCHANGED vars
  PROVE  PInv'
<1>1. /\ UNCHANGED queue
      /\ playback'.builds = playback.builds
      /\ playback'.preview \in {playback.preview, NoPreview}
      /\ playback' \in Playbacks
  <2>1. CASE Leave
    <3>1. playback' = [playback EXCEPT !.preview = NoPreview] /\ UNCHANGED queue
      BY <2>1 DEF Leave
    <3> QED BY <3>1 DEF PInv, Playbacks, NoPreview
  <2>2. CASE ~Leave
    BY <2>2 DEF OpeningStep, initializePersistenceSupport, InitialList, PreviewSaved,
                LoadGoesOn, RefreshSummary, Preview, DeviceLost, EmptyData, Return,
                vars, PInv
  <2> QED BY <2>1, <2>2
<1>2. /\ UNCHANGED take \/ take'.rec = 0
      /\ recorder'.held => recorder.held /\ UNCHANGED take
  <2>1. CASE Leave
    BY <2>1 DEF Leave, NoTake, NoRecorder
  <2>2. CASE DeviceLost \/ EmptyData
    BY <2>2 DEF DeviceLost, EmptyData, IInv, Types, Recorders
  <2>3. CASE \/ OpeningStep \/ PreviewSaved \/ LoadGoesOn \/ RefreshSummary
             \/ Preview \/ Return \/ UNCHANGED vars
    BY <2>3 DEF OpeningStep, initializePersistenceSupport, InitialList, PreviewSaved,
                LoadGoesOn, RefreshSummary, Preview, Return, vars
  <2> QED BY <2>1, <2>2, <2>3
<1>3. SameHistory(ghost, ghost')
  <2>1. UNCHANGED ghost \/ StorageTrouble(ghost) \/ Trouble(ghost) \/ Press
    BY DEF OpeningStep, initializePersistenceSupport, InitialList, PreviewSaved,
           LoadGoesOn, RefreshSummary, Preview, handleStartPreview, DeviceLost,
           EmptyData, Return, Leave, vars
  <2> QED BY <2>1, HistoryGoesOn DEF IInv, Types
<1>4. \A r \in Recordings : Over(r) => LeavesOver(r)
  BY <1>2, <1>3, OverStays DEF SameHistory
<1>5. \A r : NoChunkOf(r)
  BY <1>1 DEF NoChunkOf, ChunkTask
<1> QED BY <1>1, <1>4, <1>5, PlaybackFrame

LEMMA AddingPlayback ==
  ASSUME IInv, OInv, IInv', PInv, Adding
  PROVE  PInv'
<1>1. CASE RecorderStopped
  BY <1>1, StoppedPlayback
<1>2. CASE ~RecorderStopped
  <2>1. UNCHANGED playback \/ playback' = [playback EXCEPT !.preview = NoPreview]
    BY <1>2 DEF Adding, startRecording, stopRecording, handleStopPreview,
                resetRecording, ListButton, DataAvailable, RecorderFailed
  <2>2. /\ playback'.builds = playback.builds
        /\ playback'.preview \in {playback.preview, NoPreview}
        /\ playback' \in Playbacks
    BY <2>1 DEF PInv, Playbacks, NoPreview
  <2> QED BY <2>2, AddingLeavesOver, PlaybackFrame
<1> QED BY <1>1, <1>2

LEMMA NoPlaybackIsWhole ==
  ASSUME playback' = NoPlayback
  PROVE  PInv'
<1>1. /\ \A r \in Recordings : playback'.builds[r].pc = "none"
      /\ playback'.preview.rec = 0 /\ playback' \in Playbacks
      /\ \A r \in Recordings : playback'.preview.rec # r
  BY PlaybackTypes
<1> QED BY <1>1 DEF PInv, PlaybackIsWhole

LEMMA InitPlayback == Init => PInv
<1> SUFFICES ASSUME Init PROVE PInv
  OBVIOUS
<1>1. /\ \A r \in Recordings : playback.builds[r].pc = "none"
      /\ playback.preview.rec = 0 /\ playback \in Playbacks
      /\ \A r \in Recordings : playback.preview.rec # r
  BY PlaybackTypes DEF Init
<1> QED BY <1>1 DEF PInv, PlaybackIsWhole

LEMMA StepKeepsPlayback == IInv /\ OInv /\ PInv /\ [Next]_vars => PInv'
<1> SUFFICES ASSUME IInv, OInv, PInv, [Next]_vars PROVE PInv'
  OBVIOUS
<1>1. IInv'
  BY StepKeeps
<1>2. CASE Crash
  BY <1>2, NoPlaybackIsWhole DEF Crash
<1> QED BY <1>1, <1>2, QuietPlayback, AddingPlayback, TasksPlayback, BuildPlayback
        DEF Next, Button, Adding

(* PlaybackIsWhole: the preview of the recording just made has every chunk *)
(* but those that could not be saved, also the last one that came with the *)
(* stop, and whatever has become current while it was built.  The builder  *)
(* waits for the tasks there were at the stop (awaitQueue), and no chunk   *)
(* of the recording comes behind them.                                     *)
THEOREM PlaybackWhole == Spec => []PlaybackIsWhole
<1>1. PInv => PlaybackIsWhole
  BY DEF PInv
<1> QED BY <1>1, InitPlayback, StepKeepsPlayback, OrderInvariance, PTL DEF Spec

-----------------------------------------------------------------------------
(* A recording that is said to be healthy is whole                         *)

SavedStopped(r) == disk[r].manifest # None /\ disk[r].manifest.status = "stopped"

SaidHealthy(r) == r = take.current /\ SavedStopped(r) /\ shown.reports[r] = "healthy"

Whole(r) == disk[r].chunks = Indexes(disk[r].manifest.n)

(* The first task has saved r and is going to check it.                    *)
ToCheck(q, r) ==
  /\ q.pc \in {"saved", "refresh"}
  /\ 1 \in DOMAIN q.tasks
  /\ q.tasks[1].kind \in Saves
  /\ q.tasks[1].rec = r

HInv == \A r \in Recordings : SaidHealthy(r) => Whole(r) \/ ToCheck(queue, r)

LEMMA HealthyFrame ==
  ASSUME HInv,
         \A r \in Recordings : SaidHealthy(r)' =>
           \/ Whole(r)' \/ ToCheck(queue', r)
           \/ /\ SaidHealthy(r) /\ disk'[r] = disk[r]
              /\ ToCheck(queue, r) => ToCheck(queue', r)
  PROVE  HInv'
<1> SUFFICES ASSUME NEW r \in Recordings, SaidHealthy(r)'
             PROVE  Whole(r)' \/ ToCheck(queue', r)
  BY DEF HInv, ToCheck
<1> QED BY DEF HInv, Whole

LEMMA NothingIsCurrent ==
  ASSUME take' = NoTake
  PROVE  HInv'
BY PlaybackTypes DEF HInv, SaidHealthy, NoTake

LEMMA ReportsOfPanels ==
  ASSUME IInv
  PROVE  /\ \A r : Listed(r).reports = shown.reports
         /\ Unlisted.reports = shown.reports
         /\ \A s \in Panels : Deleted(s).reports = s.reports
         /\ \A s \in Panels : \A r : \A x \in Recordings :
              /\ Uncheckable(r, s).reports[x] = "healthy" =>
                   s.reports[x] = "healthy" /\ x # r
              /\ Checked(r, s).reports[x] = "healthy" =>
                   \/ Whole(x)
                   \/ s.reports[x] = "healthy" /\ x # r
<1>1. shown \in Panels
  BY DEF IInv, Types
<1>2. /\ \A r : Listed(r).reports = shown.reports
      /\ Unlisted.reports = shown.reports
      /\ \A s \in Panels : Deleted(s).reports = s.reports
  BY <1>1 DEF Listed, Unlisted, Deleted, Panels
<1>3. ASSUME NEW s \in Panels, NEW r, NEW x \in Recordings
      PROVE  /\ Uncheckable(r, s).reports[x] = "healthy" =>
                  s.reports[x] = "healthy" /\ x # r
             /\ Checked(r, s).reports[x] = "healthy" =>
                  \/ Whole(x)
                  \/ s.reports[x] = "healthy" /\ x # r
  <2>1. s.reports \in [Recordings -> {None, "healthy", "warning", "unknown"}]
    BY DEF Panels
  <2>2. Uncheckable(r, s).reports = [s.reports EXCEPT ![r] = "unknown"]
    BY DEF Uncheckable, Panels
  <2>3. Uncheckable(r, s).reports[x] = "healthy" => s.reports[x] = "healthy" /\ x # r
    BY <2>1, <2>2
  <2>4. PICK c : /\ Checked(r, s).reports = [s.reports EXCEPT ![r] = c]
                 /\ c = "healthy" => integrityStatus(disk[r]) = "healthy"
    BY DEF Checked, Panels
  <2>5. integrityStatus(disk[r]) = "healthy" => Whole(r)
    BY DEF integrityStatus, matchesManifest, Whole
  <2>6. Checked(r, s).reports[x] = "healthy" 
           => Whole(x) \/ (s.reports[x] = "healthy" /\ x # r)
    BY <2>1, <2>4, <2>5
  <2> QED BY <2>3, <2>6
<1> QED BY <1>2, <1>3

LEMMA QuietHealthy ==
  ASSUME IInv, OInv, HInv,
         \/ OpeningStep \/ PreviewSaved \/ LoadGoesOn \/ RefreshSummary
         \/ Preview \/ DeviceLost \/ EmptyData \/ BuildPreview \/ Return
         \/ UNCHANGED vars
  PROVE  HInv'
<1>1. UNCHANGED <<disk, queue, take>>
  BY DEF OpeningStep, initializePersistenceSupport, InitialList, PreviewSaved,
         LoadGoesOn, RefreshSummary, Preview, DeviceLost, EmptyData, BuildPreview,
         Return, vars
<1>2. shown'.reports = shown.reports
  <2>1. CASE initializePersistenceSupport
    BY <2>1 DEF initializePersistenceSupport, IInv, Types, Panels
  <2>2. CASE InitialList
    BY <2>2, ReportsOfPanels DEF InitialList
  <2>3. CASE \/ PreviewSaved \/ LoadGoesOn \/ RefreshSummary
             \/ Preview \/ DeviceLost \/ EmptyData \/ BuildPreview \/ Return
             \/ UNCHANGED vars
    BY <2>3 DEF PreviewSaved, LoadGoesOn, RefreshSummary, Preview, DeviceLost,
                EmptyData, BuildPreview, Return, vars
  <2> QED BY <2>1, <2>2, <2>3 DEF OpeningStep
<1> QED BY <1>1, <1>2, HealthyFrame DEF SaidHealthy, SavedStopped, ToCheck

LEMMA AddingHealthy ==
  ASSUME IInv, OInv, HInv, Adding
  PROVE  HInv'
<1>1. UNCHANGED disk
  BY DEF Adding, startRecording, stopRecording, handleStopPreview, resetRecording,
         ListButton, DataAvailable, RecorderStopped, RecorderFailed
<1>2. shown \in Panels /\ take \in Takes /\ ghost \in Ghosts
  BY DEF IInv, Types
<1>3. shown'.reports = shown.reports
  BY <1>2 DEF Adding, startRecording, stopRecording, handleStopPreview, stopping,
     failRecording, persist, resetRecording, ListButton,
     clearAllPersistedLocalRecordings, discardPersistedRecording,
     checkLocalRecordingIntegrity, DataAvailable, RecorderStopped, RecorderFailed,
     Panels
<1>4. \/ take'.current = take.current
      \/ take'.current = 0
      \/ take'.current = ghost.made + 1
  <2>1. CASE startRecording \/ resetRecording
    BY <2>1 DEF startRecording, resetRecording, NoTake
  <2>2. CASE stopRecording \/ handleStopPreview
    BY <1>2, <2>2 DEF stopRecording, handleStopPreview, stopping, failRecording,
                      commitManifest, Takes
  <2>3. CASE ListButton \/ DataAvailable \/ RecorderStopped \/ RecorderFailed
    BY <1>2, <2>3 DEF ListButton, DataAvailable, RecorderStopped, RecorderFailed,
                      commitManifest, Takes
  <2> QED BY <2>1, <2>2, <2>3 DEF Adding
<1>5. \A r : ToCheck(queue, r) => ToCheck(queue', r)
  BY AddingGrows DEF GrownByNew, Grown, ToCheck
<1>6. ASSUME NEW r \in Recordings, SaidHealthy(r)'
      PROVE  SaidHealthy(r) /\ disk'[r] = disk[r]
  <2>1. r # 0 /\ r # ghost.made + 1
    <3>1. disk[r] # NoEntry
      BY <1>1, <1>6 DEF SaidHealthy, SavedStopped, NoEntry
    <3>2. ~(r > ghost.made)
      BY <3>1 DEF OInv, Sorted, Known
    <3>3. ghost.made \in Nat /\ r \in Nat /\ r # 0
      BY <1>2, RecordingAssumption DEF Ghosts, Recordings
    <3> QED BY <3>2, <3>3
  <2> QED BY <1>1, <1>3, <1>4, <1>6, <2>1 DEF SaidHealthy, SavedStopped
<1> QED BY <1>5, <1>6, HealthyFrame

(* A chunk that is still to be saved says that r has not stopped.          *)
LEMMA StoppedHasNoChunks ==
  ASSUME IInv, OInv, NEW r \in Recordings, SavedStopped(r),
         NEW j \in DOMAIN queue.tasks
  PROVE  ~ChunkTask(queue, r, j)
<1> SUFFICES ASSUME ChunkTask(queue, r, j) PROVE FALSE
  OBVIOUS
<1>1. queue.tasks[j].kind \in Saves /\ r \in Stored(disk)
  BY DEF ChunkTask, Saves, SavedStopped, Stored
<1>2. UpTo(disk[r].manifest, queue.tasks[j].manifest)
  BY <1>1 DEF OInv, Sorted, InOrder, ChunkTask
<1>3. queue.tasks[j].manifest.status \in Ongoing
  BY DEF OInv, Sorted, Remembered, ChunkTask
<1> QED BY <1>2, <1>3 DEF UpTo, SavedStopped, Ongoing, Rank

LEMMA SaveHealthy ==
  ASSUME IInv, OInv, HInv, SaveChunk \/ SaveManifest \/ Delete
  PROVE  HInv'
<1>1. /\ queue \in Queues /\ disk \in [Recordings -> Entry] /\ Shape(queue)
      /\ queue.tasks # <<>> /\ Head1 = queue.tasks[1]
      /\ 1 \in DOMAIN queue.tasks /\ queue.tasks[1] \in Tasks
      /\ UNCHANGED <<take, shown>>
      /\ queue'.tasks = queue.tasks
  <2>1. queue.tasks # <<>>
    BY DEF SaveChunk, SaveManifest, Delete, AtTask, At
  <2> QED BY <2>1, HeadIsFirst
      DEF Head1, IInv, Types, SaveChunk, SaveManifest, Delete, To, Queues
<1>2. \A r : ~ToCheck(queue, r)
  BY DEF SaveChunk, SaveManifest, Delete, AtTask, At, ToCheck
<1> SUFFICES ASSUME NEW r \in Recordings, SaidHealthy(r)', ~Whole(r)', ~ToCheck(queue', r)
             PROVE  SaidHealthy(r) /\ disk'[r] = disk[r]
  BY <1>2, HealthyFrame
<1>3. disk'[r] = disk[r] => SaidHealthy(r)
  BY <1>1 DEF SaidHealthy, SavedStopped
<1>4. CASE SaveChunk
  <2>1. CASE queue.tasks[1].rec # r
    BY <1>1, <1>3, <1>4, <2>1 DEF SaveChunk, saveChunk, Entry
  <2>2. CASE queue.tasks[1].rec = r
    <3>1. disk'[r].manifest = disk[r].manifest
      BY <1>1, <1>4, <2>2 DEF SaveChunk, saveChunk, Entry
    <3>2. SavedStopped(r)
      BY <3>1 DEF SaidHealthy, SavedStopped
    <3>3. ChunkTask(queue, r, 1)
      BY <1>1, <1>4, <2>2 DEF SaveChunk, AtTask, ChunkTask
    <3> QED BY <1>1, <3>2, <3>3, StoppedHasNoChunks
  <2> QED BY <2>1, <2>2
<1>5. CASE SaveManifest
  <2>1. queue.tasks[1].kind \in Saves
    BY <1>1, <1>5 DEF SaveManifest, AtTask, At, Shape, Saves
  <2>2. CASE disk' = disk
    BY <1>3, <2>2
  <2>3. CASE /\ disk' = saveManifest(disk, queue.tasks[1].rec, queue.tasks[1].manifest)
             /\ To(IF queue.bad THEN "unsaved" ELSE "saved")
    <3>1. CASE queue.tasks[1].rec # r
      BY <1>1, <1>3, <2>3, <3>1 DEF saveManifest, Entry
    <3>2. CASE queue.tasks[1].rec = r /\ ~queue.bad
      <4>1. queue'.pc = "saved"
        BY <1>1, <2>3, <3>2 DEF To, Queues
      <4> QED BY <1>1, <2>1, <3>2, <4>1 DEF ToCheck
    <3>3. CASE queue.tasks[1].rec = r /\ queue.bad
      <4>1. queue.tasks[1].manifest.status \in Ongoing
        BY <1>1, <3>3 DEF OInv, Sorted, Remembered
      <4>2. disk'[r].manifest = queue.tasks[1].manifest
        BY <1>1, <2>3, <3>3 DEF saveManifest, Entry
      <4> QED BY <4>1, <4>2 DEF SaidHealthy, SavedStopped, Ongoing
    <3> QED BY <3>1, <3>2, <3>3
  <2> QED BY <1>1, <1>5, <2>2, <2>3 DEF SaveManifest
<1>6. CASE Delete
  <2>1. disk'[r] \in {disk[r], NoEntry}
    BY <1>6 DEF Delete, deleteRecordings
  <2>2. disk'[r] # NoEntry
    BY DEF SaidHealthy, SavedStopped, NoEntry
  <2> QED BY <1>3, <2>1, <2>2
<1> QED BY <1>4, <1>5, <1>6

LEMMA CheckHealthy ==
  ASSUME IInv, OInv, HInv,
         AfterSave \/ AfterDelete \/ AfterFailedDelete \/ Refresh \/ CheckOne
  PROVE  HInv'
<1>1. /\ queue \in Queues /\ shown \in Panels /\ take \in Takes
      /\ queue.tasks # <<>> /\ Head1 = queue.tasks[1]
      /\ 1 \in DOMAIN queue.tasks /\ queue.tasks[1] \in Tasks
      /\ UNCHANGED disk
  <2>1. queue.tasks # <<>>
    BY DEF AfterSave, AfterDelete, AfterFailedDelete, Refresh, CheckOne, AtTask, At
  <2> QED BY <2>1, HeadIsFirst
      DEF Head1, IInv, Types, AfterSave, AfterDelete, AfterFailedDelete, Refresh, CheckOne
<1> SUFFICES ASSUME NEW r \in Recordings, SaidHealthy(r)', ~Whole(r)', ~ToCheck(queue', r)
             PROVE  SaidHealthy(r) /\ ~ToCheck(queue, r)
  BY <1>1, HealthyFrame
<1>2. r = take.current /\ Mounted /\ r # 0 /\ SavedStopped(r) /\ ~Whole(r)
  <2>1. take'.current \in {take.current, 0}
    BY <1>1 DEF AfterSave, AfterDelete, AfterFailedDelete, Refresh, CheckOne, Takes
  <2>2. r = take.current /\ r # 0
    BY <2>1, PlaybackTypes DEF SaidHealthy
  <2>3. Mounted
    BY <2>2 DEF OInv, PanelKnown, NoTake
  <2> QED BY <1>1, <2>2, <2>3 DEF SaidHealthy, SavedStopped, Whole
<1>3. shown'.reports = shown.reports => SaidHealthy(r)
  BY <1>2 DEF SaidHealthy
<1>4. CASE AfterSave
  <2>1. shown'.reports = shown.reports
    BY <1>1, <1>4 DEF AfterSave, Panels
  <2>2. ~ToCheck(queue, r)
    <3> SUFFICES ASSUME ToCheck(queue, r) PROVE FALSE
      OBVIOUS
    <3>1. queue.pc = "saved" /\ Head1.rec = r
      BY <1>1, <1>4 DEF AfterSave, At, ToCheck
    <3> DEFINE pc == CASE queue.pc = "saved" -> "refresh"
                       [] queue.pc = "unsaved" /\ Head1.kind = "chunk" -> "relist"
                       [] OTHER -> "resum"
    <3>2. queue' = [queue EXCEPT !.active = Head1.rec, !.pc = pc] /\ pc = "refresh"
      <4>1. ~(~Mounted \/ take.current # Head1.rec)
        BY <1>2, <3>1
      <4>2. queue' = [queue EXCEPT !.active = Head1.rec, !.pc = pc]
        BY <1>4, <4>1, Zenon DEF AfterSave
      <4>3. pc = "refresh"
        BY <3>1
      <4> QED BY <4>2, <4>3
    <3> HIDE DEF pc
    <3>3. queue'.tasks = queue.tasks /\ queue'.pc = "refresh"
      BY <1>1, <3>2 DEF Queues
    <3>4. 1 \in DOMAIN queue'.tasks /\ ToCheck(queue, r)
      BY <1>1, <3>3
    <3> QED BY <3>3, <3>4 DEF ToCheck
  <2> QED BY <1>3, <2>1, <2>2
<1>5. CASE AfterDelete \/ AfterFailedDelete
  <2>1. shown'.reports[r] \in {shown.reports[r], None}
    <3>1. CASE AfterFailedDelete
      BY <1>1, <3>1 DEF AfterFailedDelete, Panels
    <3>2. CASE AfterDelete
      <4>1. PICK rep :
              /\ shown' = [shown EXCEPT !.check = "idle", !.reports = rep]
              /\ rep = [q \in Recordings |->
                         IF Head1.kind = "clear" \/ q = Head1.rec THEN None
                         ELSE shown.reports[q]]
        BY <1>2, <3>2 DEF AfterDelete
      <4>2. shown'.reports = rep
        BY <1>1, <4>1 DEF Panels
      <4> QED BY <4>1, <4>2
    <3> QED BY <1>5, <3>1, <3>2
  <2>2. ~ToCheck(queue, r)
    BY <1>5 DEF AfterDelete, AfterFailedDelete, At, ToCheck
  <2>3. shown'.reports[r] = "healthy"
    BY DEF SaidHealthy
  <2>4. shown.reports[r] = "healthy"
    BY <2>1, <2>3, NoneAssumption
  <2> QED BY <1>2, <2>2, <2>4 DEF SaidHealthy
<1>6. CASE Refresh
  <2>1. At("refresh") \/ At("relist") \/ At("resum")
    BY <1>6 DEF Refresh
  <2>2. Listed(queue.active) \in Panels /\ Unlisted \in Panels
    BY <1>1, PanelsAreTyped DEF Queues, IInv
  <2>3. PICK s \in Panels :
          /\ s.reports = shown.reports
          /\ \/ shown' = s /\ queue.pc = "resum"
             \/ shown' = Refreshed(s)
             \/ /\ shown' = Uncheckable(Head1.rec, s)
                /\ queue.pc = "refresh" /\ Head1.kind \notin Deletes
    <3>1. \/ shown' = shown /\ queue.pc = "resum"
          \/ shown' \in {Refreshed(Listed(queue.active)), Refreshed(Unlisted)}
          \/ /\ shown' = Uncheckable(Head1.rec, Listed(queue.active))
             /\ queue.pc = "refresh" /\ Head1.kind \notin Deletes
      BY <1>2, <1>6 DEF Refresh
    <3> QED BY <1>1, <2>2, <3>1, ReportsOfPanels
  <2>4. shown'.reports[r] = "healthy"
    BY DEF SaidHealthy
  <2>5. shown.reports[r] = "healthy"
    BY <1>2, <2>3, <2>4, ReportsOfPanels DEF Refreshed
  <2>6. ~ToCheck(queue, r)
    <3> SUFFICES ASSUME ToCheck(queue, r) PROVE FALSE
      OBVIOUS
    <3>1. queue.pc = "refresh" /\ Head1.rec = r /\ Head1.kind \notin Deletes
      BY <1>1, <2>1 DEF At, ToCheck, Saves, Deletes
    <3>2. shown' \in {Checked(r, s), Uncheckable(r, s)}
      BY <2>3, <3>1 DEF Refreshed
    <3> QED BY <1>2, <2>4, <3>2, ReportsOfPanels
  <2> QED BY <1>2, <2>5, <2>6 DEF SaidHealthy
<1>7. CASE CheckOne
  <2>1. PICK s \in Panels :
          /\ s.reports = shown.reports
          /\ shown' \in {Checked(Head1.rec, s), Uncheckable(Head1.rec, s)}
    <3> DEFINE ended == IF Head1.newest THEN [shown EXCEPT !.check = "ready"]
                        ELSE shown
    <3>1. ended \in Panels /\ ended.reports = shown.reports
      BY <1>1 DEF Panels
    <3>2. shown' \in {Checked(Head1.rec, ended), Uncheckable(Head1.rec, ended)}
      BY <1>2, <1>7 DEF CheckOne
    <3> HIDE DEF ended
    <3> QED BY <3>1, <3>2
  <2>2. shown.reports[r] = "healthy"
    BY <1>2, <2>1, ReportsOfPanels DEF SaidHealthy
  <2>3. ~ToCheck(queue, r)
    BY <1>7 DEF CheckOne, AtTask, At, ToCheck
  <2> QED BY <1>2, <2>2, <2>3 DEF SaidHealthy
<1> QED BY <1>4, <1>5, <1>6, <1>7

LEMMA StepKeepsHealthy == IInv /\ OInv /\ HInv /\ [Next]_vars => HInv'
<1> SUFFICES ASSUME IInv, OInv, HInv, [Next]_vars PROVE HInv'
  OBVIOUS
<1>1. CASE Leave \/ Crash
  BY <1>1, NothingIsCurrent DEF Leave, Crash
<1>2. CASE TaskStep
  BY <1>2, SaveHealthy, CheckHealthy DEF TaskStep
<1> QED BY <1>1, <1>2, QuietHealthy, AddingHealthy DEF Next, Button, Adding

(* HealthyIsWhole: a recording that is saved as stopped and said to be     *)
(* healthy has all of its chunks, also when saves have failed on the way:  *)
(* no chunk waits behind the save of the stop, and a report from before it *)
(* is replaced by the check that follows it.                               *)
THEOREM HealthyWhole == Spec => []HealthyIsWhole
<1>1. Init => HInv
  <2> SUFFICES ASSUME Init, NEW r \in Recordings PROVE ~SaidHealthy(r)
    BY DEF HInv
  <2> QED BY PlaybackTypes DEF Init, SaidHealthy, NoTake
<1>2. ASSUME IInv, HInv PROVE HealthyIsWhole
  <2> SUFFICES ASSUME Settled, NEW r, r = take.current, r # 0,
                      shown.reports[r] = "healthy", SavedStopped(r)
               PROVE  Whole(r)
    BY DEF HealthyIsWhole, SavedStopped, Whole
  <2>1. r \in Recordings /\ DOMAIN queue.tasks = {}
    BY <1>2 DEF Settled, IInv, Types, Takes
  <2> QED BY <1>2, <2>1 DEF HInv, SaidHealthy, ToCheck
<1> QED BY <1>1, <1>2, StepKeepsHealthy, OrderInvariance, PTL DEF Spec

-----------------------------------------------------------------------------
(* What the panel shows is what is stored                                  *)

Calm == ~ghost.failing /\ ghost.erased = {}

(* The support is failed, and a task is where a failure leads, only after  *)
(* a failure; only a delete or a save is at the places of one.             *)
FailuresKnown ==
  /\ page.memo = "failed" => ghost.failing
  /\ queue.pc \in {"unsaved", "undeleted", "relist", "resum"} => ghost.failing
  /\ queue.pc = "deleted" => 1 \in DOMAIN queue.tasks /\ queue.tasks[1].kind \in Deletes
  /\ queue.pc \in {"saved", "unsaved"} =>
       1 \in DOMAIN queue.tasks /\ queue.tasks[1].kind \in Saves

(* The recording in memory is current until it is erased.                  *)
CurrentKept ==
  ghost.erased = {} =>
    /\ take.current = take.rec
    /\ queue.pc = "deleted" /\ queue.tasks[1].kind # "clear"
         => queue.tasks[1].rec # take.rec

(* After the j-th task, if not before, something is read again.            *)
Followed(q, t, j) ==
  \/ q.tasks[j].rec = t.current
  \/ \E k \in DOMAIN q.tasks : k > j /\ q.tasks[k].kind \in Deletes

SavesFollowed ==
  Mounted /\ Calm => \A j \in DOMAIN queue.tasks :
    queue.tasks[j].kind \in Saves => Followed(queue, take, j)

Refreshing(q, t) ==
  \E j \in DOMAIN q.tasks :
    \/ q.tasks[j].kind \in Deletes
    \/ q.tasks[j].kind \in Saves /\ q.tasks[j].rec = t.current

ShowsTheStore ==
  /\ shown.list = listRecordings(disk)
  /\ total = storageSummary(disk)
  /\ shown.status # "persisting"

Informed == page.at = "open" /\ Calm => ShowsTheStore \/ Refreshing(queue, take)

VInv == FailuresKnown /\ CurrentKept /\ SavesFollowed /\ Informed

LEMMA HistoryGrows ==
  ASSUME IInv, [Next]_vars
  PROVE  ghost.failing => ghost'.failing
<1>1. ghost \in Ghosts
  BY DEF IInv, Types
<1>2. (UNCHANGED ghost \/ StorageTrouble(ghost) \/ Trouble(ghost) \/ Press)
      => (ghost.failing => ghost'.failing)
  BY <1>1, HistoryGoesOn DEF SameHistory
<1>3. CASE SaveChunk
  <2>1. PICK r, i : UNCHANGED ghost
                    \/ StorageTrouble([ghost EXCEPT !.lost[r] = @ \cup {i}])
    BY <1>3 DEF SaveChunk
  <2> QED BY <1>1, <2>1 DEF StorageTrouble, Trouble, Ghosts
<1>4. CASE Delete
  <2>1. PICK gone : \/ ghost' = [ghost EXCEPT !.erased = @ \cup gone]
                    \/ StorageTrouble(ghost)
    BY <1>4 DEF Delete
  <2> QED BY <1>1, <1>2, <2>1 DEF Ghosts
<1>5. CASE startRecording
  <2>1. PICK n : \/ ghost' = [ghost EXCEPT !.made = n]
                 \/ UNCHANGED ghost \/ Trouble(ghost)
    BY <1>5 DEF startRecording
  <2> QED BY <1>1, <1>2, <2>1 DEF Ghosts
<1>6. CASE OpeningStep \/ UNCHANGED vars
  BY <1>2, <1>6 DEF OpeningStep, initializePersistenceSupport, InitialList, vars
<1>7. CASE SaveManifest \/ AfterSave \/ AfterDelete \/ AfterFailedDelete
           \/ Refresh \/ CheckOne
  BY <1>2, <1>7 DEF SaveManifest, AfterSave, AfterDelete, AfterFailedDelete,
                    Refresh, CheckOne
<1>8. CASE stopRecording \/ handleStopPreview \/ resetRecording \/ ListButton
           \/ PreviewSaved \/ RefreshSummary
  BY <1>2, <1>8 DEF stopRecording, handleStopPreview, stopping, resetRecording,
                    ListButton, PreviewSaved, RefreshSummary
<1>9. CASE DataAvailable \/ EmptyData \/ RecorderStopped \/ RecorderFailed
           \/ BuildPreview \/ LoadGoesOn \/ Preview \/ DeviceLost \/ Leave
           \/ Return \/ Crash
  BY <1>2, <1>9 DEF DataAvailable, EmptyData, RecorderStopped, RecorderFailed,
                    BuildPreview, LoadGoesOn, Preview, handleStartPreview,
                    DeviceLost, Leave, Return, Crash
<1> QED BY <1>3, <1>4, <1>5, <1>6, <1>7, <1>8, <1>9 DEF Next, TaskStep, Button

(* Nothing changes but what is not shown, or the totals are read again.    *)
LEMMA QuietView ==
  ASSUME IInv, OInv, VInv, [Next]_vars,
         UNCHANGED <<disk, queue, shown, page>>,
         UNCHANGED take,
         ghost'.erased = ghost.erased,
         total' \in {total, storageSummary(disk)} \/ page.memo = "failed"
  PROVE  VInv'
<1>1. ghost.failing => ghost'.failing
  BY HistoryGrows
<1> QED BY <1>1 DEF VInv, FailuresKnown, CurrentKept, SavesFollowed, Informed, Calm,
        Followed, Refreshing, ShowsTheStore, Mounted

LEMMA QuietStepsView ==
  ASSUME IInv, OInv, VInv,
         \/ PreviewSaved \/ LoadGoesOn \/ RefreshSummary \/ Preview
         \/ DeviceLost \/ EmptyData \/ BuildPreview \/ UNCHANGED vars
  PROVE  VInv'
<1>1. /\ UNCHANGED <<disk, queue, shown, page>>
      /\ UNCHANGED take
      /\ total' \in {total, storageSummary(disk)} \/ page.memo = "failed"
  BY DEF PreviewSaved, LoadGoesOn, RefreshSummary, refreshLocalStorageSummary,
         Preview, DeviceLost, EmptyData, BuildPreview, vars
<1>2. ghost'.erased = ghost.erased
  <2>1. UNCHANGED ghost \/ Trouble(ghost) \/ Press
    BY DEF PreviewSaved, LoadGoesOn, RefreshSummary, Preview, handleStartPreview,
           DeviceLost, EmptyData, BuildPreview, vars
  <2> QED BY <2>1, HistoryGoesOn DEF SameHistory, IInv, Types
<1>3. [Next]_vars
  BY DEF Next, Button
<1> QED BY <1>1, <1>2, <1>3, QuietView

LEMMA OpeningView ==
  ASSUME IInv, OInv, VInv, OpeningStep
  PROVE  VInv'
<1>1. /\ UNCHANGED <<disk, queue, take>> /\ ghost \in Ghosts /\ shown \in Panels
      /\ page \in Pages /\ Mounted
  BY DEF OpeningStep, initializePersistenceSupport, InitialList, IInv, Types, OInv,
         PanelKnown, Mounted
<1>2. /\ ghost.failing => ghost'.failing
      /\ ghost'.erased = ghost.erased
  <2>1. UNCHANGED ghost \/ StorageTrouble(ghost)
    BY DEF OpeningStep, initializePersistenceSupport, InitialList
  <2> QED BY <1>1, <2>1, HistoryGoesOn DEF SameHistory
<1>3. page'.memo = "failed" => ghost'.failing
  <2>1. CASE initializePersistenceSupport
    <3>1. page.memo \in {"none", "supported", "failed"}
      BY <1>1 DEF Pages
    <3> QED BY <1>1, <1>2, <2>1, <3>1, HistoryGoesOn
            DEF initializePersistenceSupport, VInv, FailuresKnown
  <2>2. CASE InitialList
    <3>1. page'.memo = page.memo
      BY <1>1, <2>2 DEF InitialList, Pages
    <3> QED BY <1>2, <3>1 DEF VInv, FailuresKnown
  <2> QED BY <2>1, <2>2 DEF OpeningStep
<1>4. Informed'
  <2> SUFFICES ASSUME page'.at = "open", Calm' PROVE ShowsTheStore'
    BY DEF Informed
  <2>1. CASE initializePersistenceSupport
    BY <1>3, <2>1 DEF initializePersistenceSupport, Calm
  <2>2. CASE InitialList
    <3>1. page.memo # "failed"
      BY <1>2, <2>2 DEF Calm, VInv, FailuresKnown
    <3>2. shown' = Listed(0) /\ total' = storageSummary(disk)
      BY <1>1, <2>2, <3>1, HistoryGoesOn DEF InitialList, Calm, refreshLocalStorageSummary
    <3>3. Listed(0).list = listRecordings(disk) /\ Listed(0).status = "available"
      BY <1>1 DEF Listed, Panels
    <3> QED BY <1>1, <3>2, <3>3 DEF ShowsTheStore
  <2> QED BY <2>1, <2>2 DEF OpeningStep
<1>5. SavesFollowed'
  BY <1>1, <1>2 DEF VInv, SavesFollowed, Calm, Followed
<1> QED BY <1>1, <1>2, <1>3, <1>4, <1>5 DEF VInv, FailuresKnown, CurrentKept

LEMMA PageView ==
  ASSUME IInv, OInv, VInv, Leave \/ Return \/ Crash
  PROVE  VInv'
<1>1. ghost \in Ghosts /\ page \in Pages
  BY DEF IInv, Types, OInv, PanelKnown
<1>2. /\ ghost.failing => ghost'.failing
      /\ ghost'.erased = ghost.erased
  <2>1. UNCHANGED ghost \/ Trouble(ghost) \/ Press
    BY DEF Leave, Return, Crash
  <2> QED BY <1>1, <2>1, HistoryGoesOn DEF SameHistory
<1>3. CASE Leave
  <2>1. /\ page'.at = "left" /\ page'.memo = page.memo
        /\ UNCHANGED queue /\ take'.rec = 0 /\ take'.current = 0
    BY <1>1, <1>3 DEF Leave, Pages, NoTake
  <2>2. CurrentKept'
    <3>1. queue.pc = "deleted" /\ queue.tasks[1].kind # "clear" => queue.tasks[1].rec # 0
      BY DEF VInv, FailuresKnown, Deletes, OInv, Sorted, Known
    <3> QED BY <2>1, <3>1 DEF CurrentKept
  <2> QED BY <1>2, <2>1, <2>2 DEF VInv, FailuresKnown, SavesFollowed, Informed, Mounted
<1>4. CASE Return
  <2>1. /\ page'.at = "probing" /\ page'.memo = page.memo
        /\ UNCHANGED <<queue, take>> /\ DOMAIN queue.tasks = {}
    BY <1>1, <1>4 DEF Return, Pages
  <2> QED BY <1>2, <2>1 DEF VInv, FailuresKnown, CurrentKept, SavesFollowed, Informed
<1>5. CASE Crash
  <2>1. /\ page'.at = "probing" /\ page'.memo = "none"
        /\ queue'.pc = "start" /\ queue'.tasks = <<>>
        /\ take'.rec = 0 /\ take'.current = 0
    BY <1>5 DEF Crash, EmptyQueue, NoTake
  <2>2. DOMAIN queue'.tasks = {}
    BY <2>1
  <2> QED BY <2>1, <2>2 DEF VInv, FailuresKnown, CurrentKept, SavesFollowed, Informed
<1> QED BY <1>3, <1>4, <1>5

(* A task of one of these kinds is new.                                    *)
Comes(kinds) ==
  \E k \in DOMAIN queue'.tasks : k \notin DOMAIN queue.tasks /\ queue'.tasks[k].kind \in kinds

(* The panel says that it is persisting when there is something to persist. *)
SaysSo ==
  /\ shown'.list = shown.list
  /\ shown'.status = shown.status \/ Comes(Saves \cup Deletes)

TakeGoesOn == take'.rec = take.rec /\ take'.current = take.current

LEMMA TaskComes ==
  ASSUME NEW q \in Queues, DOMAIN queue.tasks \subseteq DOMAIN q.tasks,
         NEW task \in Tasks, queue' = enqueue(q, task), NEW kinds, task.kind \in kinds
  PROVE  Comes(kinds)
<1>1. PICK n : n = Len(q.tasks) + 1
  OBVIOUS
<1>2. n \in DOMAIN queue'.tasks /\ n \notin DOMAIN q.tasks /\ queue'.tasks[n] = task
  BY <1>1, Enqueued
<1> QED BY <1>2 DEF Comes

LEMMA SaveComes ==
  ASSUME IInv, NEW q \in Queues, DOMAIN queue.tasks \subseteq DOMAIN q.tasks,
         NEW kind \in Saves \cup Deletes, NEW r \in {0} \cup Recordings,
         NEW m \in Manifest \cup {None}, queue' = enqueue(q, Task(kind, r, m))
  PROVE  Comes(Saves \cup Deletes) /\ (kind \in Deletes => Comes(Deletes))
<1>1. PICK task \in Tasks : task = Task(kind, r, m) /\ task.kind = kind
  BY TaskIsTyped DEF IInv, Saves
<1>2. queue' = enqueue(q, task)
  BY <1>1
<1> QED BY <1>1, <1>2, TaskComes

LEMMA StoppingSaysSo ==
  ASSUME IInv, OInv, stopping
  PROVE  SaysSo /\ TakeGoesOn
<1> DEFINE m == transitionManifestStatus(take.manifest, "stopping")
           failed == markManifestFailed(m)
           f == markManifestFailed(take.manifest)
<1>1. /\ queue \in Queues /\ take \in Takes /\ shown \in Panels
      /\ "manifest" \in Saves \cup Deletes
      /\ take.rec \in {0} \cup Recordings
  BY DEF IInv, Types, Saves, Takes
<1>2. take.manifest # None =>
        m \in Manifest /\ failed \in Manifest /\ f \in Manifest
  BY TakeIsNamed, ManifestOperations
<1>3. recorder.held => take.manifest # None
  BY NoneAssumption DEF IInv, HeldOK
<1>4. TakeGoesOn
  BY <1>1 DEF stopping, failRecording, commitManifest, Takes, TakeGoesOn
<1>5. shown'.list = shown.list
  BY <1>1 DEF stopping, failRecording, persist, Panels
<1> HIDE DEF m, failed, f
<1>6. CASE ~recorder.held /\ failRecording
  <2>1. \/ UNCHANGED shown
        \/ /\ take.manifest # None
           /\ queue' = enqueue(queue, Task("manifest", take.rec, f))
    BY <1>6 DEF failRecording, persist, f
  <2>2. UNCHANGED shown \/ Comes(Saves \cup Deletes)
    BY <1>1, <1>2, <2>1, SaveComes
  <2> QED BY <1>4, <1>5, <2>2 DEF SaysSo
<1>7. CASE recorder.held /\ persist("manifest", take.rec, m)
  <2>1. queue' = enqueue(queue, Task("manifest", take.rec, m))
    BY <1>7 DEF persist
  <2>2. Comes(Saves \cup Deletes)
    BY <1>1, <1>2, <1>3, <1>7, <2>1, SaveComes
  <2> QED BY <1>4, <1>5, <2>2 DEF SaysSo
<1>8. CASE /\ recorder.held
           /\ queue' = enqueue(enqueue(queue, Task("manifest", take.rec, m)),
                               Task("manifest", take.rec, failed))
  <2>1. PICK task \in Tasks : task = Task("manifest", take.rec, m)
    BY <1>1, <1>2, <1>3, <1>8, TaskIsTyped DEF IInv
  <2>2. PICK q \in Queues : q = enqueue(queue, task)
    <3>1. queue.tasks \in Seq(Tasks)
      BY <1>1 DEF Queues
    <3>2. enqueue(queue, task) \in Queues
      BY <1>1, <3>1, AppendProperties DEF enqueue, Queues
    <3> QED BY <3>2
  <2>3. DOMAIN queue.tasks \subseteq DOMAIN q.tasks
    BY <1>1, <2>1, <2>2, EnqueuedIsGrown DEF Grown
  <2>4. queue' = enqueue(q, Task("manifest", take.rec, failed))
    BY <1>8, <2>1, <2>2
  <2>5. Comes(Saves \cup Deletes)
    BY <1>1, <1>2, <1>3, <1>8, <2>3, <2>4, SaveComes
  <2> QED BY <1>4, <1>5, <2>5 DEF SaysSo
<1> QED BY <1>6, <1>7, <1>8 DEF stopping, m, failed

(* What the adding steps do to the recording in memory.                    *)
TakeMoves ==
  \/ TakeGoesOn
  \/ take = NoTake /\ take'.rec = ghost.made + 1 /\ take'.current = take'.rec
  \/ take' = NoTake /\ Comes(Deletes)

LEMMA AddingSaysSo ==
  ASSUME IInv, OInv, Adding
  PROVE  SaysSo /\ TakeMoves
<1>1. /\ queue \in Queues /\ take \in Takes /\ shown \in Panels /\ ghost \in Ghosts
      /\ {"manifest", "chunk", "reset", "discard", "clear"} \subseteq Saves \cup Deletes
      /\ {"reset", "discard", "clear"} \subseteq Deletes
      /\ take.rec \in {0} \cup Recordings /\ take.current \in {0} \cup Recordings
  BY DEF IInv, Types, Saves, Takes, Deletes
<1>2. CASE startRecording
  <2> DEFINE r == ghost.made + 1
             m == createLocalRecordingManifest
  <2>1. take = NoTake
    BY <1>2 DEF startRecording, Allowed, OInv, PanelKnown
  <2>2. shown'.list = shown.list
    BY <1>1, <1>2 DEF startRecording, persist, Panels
  <2>3. \/ /\ take'.rec = r /\ take'.current = r
           /\ queue' = enqueue(queue, Task("manifest", r, m))
        \/ take' = NoTake /\ shown'.status = shown.status
    BY <1>1, <1>2 DEF startRecording, persist, Panels
  <2>4. r \in {0} \cup Recordings /\ m \in Manifest \cup {None}
    BY <1>1, <1>2, RecordingAssumption
       DEF startRecording, Ghosts, Recordings, createLocalRecordingManifest, Manifest,
           ManifestStatuses
  <2> HIDE DEF m
  <2>5. queue' = enqueue(queue, Task("manifest", r, m)) => Comes(Saves \cup Deletes)
    <3> HIDE DEF r
    <3> QED BY <1>1, <2>4, SaveComes
  <2> QED BY <2>1, <2>2, <2>3, <2>5 DEF SaysSo, TakeMoves, TakeGoesOn
<1>3. CASE stopRecording \/ handleStopPreview
  <2>1. stopping \/ UNCHANGED <<take, shown>>
    BY <1>3 DEF stopRecording, handleStopPreview
  <2> QED BY <2>1, StoppingSaysSo DEF SaysSo, TakeMoves, TakeGoesOn
<1>4. CASE resetRecording
  <2> DEFINE r == IF take.current # 0 THEN take.current ELSE take.rec
  <2>1. take' = NoTake /\ shown'.list = shown.list
    BY <1>1, <1>4 DEF resetRecording, Panels
  <2>2. \/ r = 0 /\ shown'.status = shown.status
        \/ queue' = enqueue(queue, Task("reset", r, None))
    BY <1>1, <1>4 DEF resetRecording, Panels
  <2>3. r \in {0} \cup Recordings /\ (r = 0 => take.rec = 0 /\ take.current = 0)
    BY <1>1
  <2> HIDE DEF r
  <2>4. queue' = enqueue(queue, Task("reset", r, None))
        => Comes(Saves \cup Deletes) /\ Comes(Deletes)
    BY <1>1, <2>3, SaveComes
  <2> QED BY <2>1, <2>2, <2>3, <2>4 DEF SaysSo, TakeMoves, TakeGoesOn, NoTake
<1>5. CASE ListButton
  <2>1. UNCHANGED take
    BY <1>5 DEF ListButton
  <2>2. CASE clearAllPersistedLocalRecordings
    <3>1. Comes(Saves \cup Deletes)
      BY <1>1, <2>2, SaveComes DEF clearAllPersistedLocalRecordings
    <3>2. shown'.list = shown.list
      BY <1>1, <2>2 DEF clearAllPersistedLocalRecordings, Panels
    <3> QED BY <2>1, <3>1, <3>2 DEF SaysSo, TakeMoves, TakeGoesOn
  <2>3. ASSUME NEW r \in Recordings, discardPersistedRecording(r)
        PROVE  SaysSo
    <3>1. Comes(Saves \cup Deletes)
      BY <1>1, <2>3, SaveComes DEF discardPersistedRecording
    <3>2. shown'.list = shown.list
      BY <1>1, <2>3 DEF discardPersistedRecording, Panels
    <3> QED BY <3>1, <3>2 DEF SaysSo
  <2>4. ASSUME NEW r \in Recordings, checkLocalRecordingIntegrity(r)
        PROVE  SaysSo
    BY <1>1, <2>4 DEF checkLocalRecordingIntegrity, Panels, SaysSo
  <2> QED BY <1>5, <2>1, <2>2, <2>3, <2>4 DEF ListButton, TakeMoves, TakeGoesOn
<1>6. CASE DataAvailable
  <2> DEFINE m == appendChunkEntry(take.manifest)
  <2>1. /\ m \in Manifest
        /\ commitManifest(m)
        /\ queue' = enqueue(queue, Task("chunk", take.rec, m))
        /\ shown'.list = shown.list
    BY <1>1, <1>6, TakeIsNamed, ManifestOperations DEF DataAvailable, persist, Panels
  <2> HIDE DEF m
  <2>2. TakeGoesOn
    BY <1>1, <2>1 DEF commitManifest, Takes, TakeGoesOn
  <2>3. Comes(Saves \cup Deletes)
    BY <1>1, <2>1, SaveComes
  <2> QED BY <2>1, <2>2, <2>3 DEF SaysSo, TakeMoves
<1>7. CASE RecorderStopped \/ RecorderFailed
  <2> DEFINE m1 == finalizeManifest(take.manifest)
             m2 == markManifestFailed(take.manifest)
  <2>1. m1 \in Manifest /\ m2 \in Manifest
    <3>1. take.manifest \in Manifest
      BY <1>7 DEF RecorderStopped, RecorderFailed, IInv, HeldOK
    <3> QED BY <3>1, ManifestOperations
  <2>2. /\ shown'.list = shown.list
        /\ \/ commitManifest(m1) /\ queue' = enqueue(queue, Task("manifest", take.rec, m1))
           \/ commitManifest(m2) /\ queue' = enqueue(queue, Task("manifest", take.rec, m2))
    BY <1>1, <1>7 DEF RecorderStopped, RecorderFailed, persist, Panels
  <2> HIDE DEF m1, m2
  <2>3. TakeGoesOn
    BY <1>1, <2>2 DEF commitManifest, Takes, TakeGoesOn
  <2>4. Comes(Saves \cup Deletes)
    BY <1>1, <2>1, <2>2, SaveComes
  <2> QED BY <2>2, <2>3, <2>4 DEF SaysSo, TakeMoves
<1> QED BY <1>2, <1>3, <1>4, <1>5, <1>6, <1>7 DEF Adding

LEMMA AddingView ==
  ASSUME IInv, IInv', OInv, VInv, Adding
  PROVE  VInv'
<1>1. /\ UNCHANGED <<disk, total, page>> /\ ghost \in Ghosts
      /\ DOMAIN queue.tasks \subseteq Nat \ {0} /\ DOMAIN queue'.tasks \subseteq Nat \ {0}
      /\ ghost.made \in Nat
  <2>1. queue \in Queues /\ queue' \in Queues
    BY DEF IInv, Types
  <2>2. DOMAIN queue.tasks = 1 .. Len(queue.tasks)
        /\ DOMAIN queue'.tasks = 1 .. Len(queue'.tasks)
    BY <2>1 DEF Queues
  <2>3. UNCHANGED <<disk, total, page>>
    BY DEF Adding, startRecording, stopRecording, handleStopPreview, resetRecording,
           ListButton, DataAvailable, RecorderStopped, RecorderFailed
  <2> QED BY <2>1, <2>2, <2>3, RecordingAssumption DEF IInv, Types, Queues, Ghosts
<1>2. /\ ghost.failing => ghost'.failing
      /\ ghost'.erased = ghost.erased
  <2>1. [Next]_vars
    BY DEF Adding, Next, Button
  <2>2. CASE stopping
    BY <2>1, <2>2, HistoryGrows, StoppingLeavesOver
  <2>3. CASE startRecording
    <3>1. PICK n : \/ ghost' = [ghost EXCEPT !.made = n]
                   \/ UNCHANGED ghost \/ Trouble(ghost)
      BY <2>3 DEF startRecording
    <3> QED BY <1>1, <2>1, <3>1, HistoryGrows, HistoryGoesOn DEF SameHistory, Ghosts
  <2>4. CASE ~stopping /\ ~startRecording
    <3>1. UNCHANGED ghost \/ Trouble(ghost) \/ Press
      BY <2>4 DEF Adding, stopRecording, handleStopPreview, resetRecording,
             ListButton, DataAvailable, RecorderStopped, RecorderFailed
    <3> QED BY <1>1, <2>1, <3>1, HistoryGrows, HistoryGoesOn DEF SameHistory
  <2> QED BY <2>2, <2>3, <2>4
<1>3. Grown(queue, queue')
      /\ \A k \in DOMAIN queue'.tasks : k \notin DOMAIN queue.tasks /\ queue'.tasks[k].kind \in Saves
           => queue'.tasks[k].rec = take'.rec
  BY AddingGrows DEF GrownByNew, NewTask
<1>4. SaysSo /\ TakeMoves
  BY AddingSaysSo
<1>5. FailuresKnown'
  BY <1>1, <1>2, <1>3 DEF VInv, FailuresKnown, Grown
<1>6. CurrentKept'
  <2> SUFFICES ASSUME ghost'.erased = {} PROVE CurrentKept'
    BY DEF CurrentKept
  <2>1. take.current = take.rec
    BY <1>2 DEF VInv, CurrentKept
  <2>2. take'.current = take'.rec
    BY <1>4, <2>1 DEF TakeMoves, TakeGoesOn, NoTake
  <2>3. ASSUME queue'.pc = "deleted", queue'.tasks[1].kind # "clear"
        PROVE  queue'.tasks[1].rec # take'.rec
    <3>1. /\ queue.pc = "deleted" /\ 1 \in DOMAIN queue.tasks
          /\ queue.tasks[1].kind \in Deletes \ {"clear"}
          /\ queue'.tasks[1].rec = queue.tasks[1].rec
      BY <1>3, <2>3 DEF Grown, VInv, FailuresKnown
    <3>2. queue.tasks[1].rec # take.rec
      BY <1>2, <3>1 DEF VInv, CurrentKept
    <3>3. /\ queue.tasks[1].rec # 0 /\ queue.tasks[1].rec <= ghost.made
          /\ queue.tasks[1].rec \in Nat
      <4>1. queue.tasks[1] \in Tasks
        BY <3>1 DEF IInv, Types, Queues
      <4> QED BY <3>1, <4>1, RecordingAssumption
              DEF OInv, Sorted, Known, Deletes, Tasks, Recordings
    <3> QED BY <1>1, <1>4, <3>1, <3>2, <3>3 DEF TakeMoves, TakeGoesOn, NoTake
  <2> QED BY <2>2, <2>3 DEF CurrentKept
<1>7. ASSUME ghost'.erased = {}, NEW j \in DOMAIN queue'.tasks,
             j \notin DOMAIN queue.tasks, queue'.tasks[j].kind \in Saves
      PROVE  queue'.tasks[j].rec = take'.current
  BY <1>3, <1>6, <1>7 DEF CurrentKept
<1>8. ASSUME NEW j \in DOMAIN queue.tasks, queue.tasks[j].kind \in Saves
      PROVE  queue.tasks[j].rec # 0
  BY <1>8 DEF OInv, Sorted, Known
<1>9. SavesFollowed'
  <2> SUFFICES ASSUME Mounted', Calm', NEW j \in DOMAIN queue'.tasks,
                      queue'.tasks[j].kind \in Saves
               PROVE  Followed(queue', take', j)
    BY DEF SavesFollowed, Followed
  <2>1. CASE j \notin DOMAIN queue.tasks
    BY <1>7, <2>1 DEF Calm, Followed
  <2>2. CASE j \in DOMAIN queue.tasks
    <3>1. queue.tasks[j].kind \in Saves /\ queue'.tasks[j].rec = queue.tasks[j].rec
      BY <1>3, <2>2 DEF Grown
    <3>2. Followed(queue, take, j)
      BY <1>1, <1>2, <2>2, <3>1 DEF VInv, SavesFollowed, Mounted, Calm
    <3>3. CASE \E k \in DOMAIN queue.tasks : k > j /\ queue.tasks[k].kind \in Deletes
      BY <1>3, <3>3 DEF Grown, Followed
    <3>4. CASE queue.tasks[j].rec = take.current
      <4>1. CASE Comes(Deletes)
        <5>1. PICK k \in DOMAIN queue'.tasks :
                k \notin DOMAIN queue.tasks /\ queue'.tasks[k].kind \in Deletes
          BY <4>1 DEF Comes
        <5>2. k > j
          <6>1. queue \in Queues /\ queue' \in Queues
            BY DEF IInv, Types
          <6>2. DOMAIN queue.tasks = 1 .. Len(queue.tasks) /\ Len(queue.tasks) \in Nat
                /\ DOMAIN queue'.tasks = 1 .. Len(queue'.tasks) /\ Len(queue'.tasks) \in Nat
            BY <6>1 DEF Queues
          <6> QED BY <2>2, <5>1, <6>2
        <5> QED BY <5>1, <5>2 DEF Followed
      <4>2. CASE ~Comes(Deletes)
        <5>1. TakeGoesOn
          BY <1>4, <1>8, <2>2, <3>1, <3>4, <4>2 DEF TakeMoves, NoTake
        <5> QED BY <3>1, <3>4, <5>1 DEF TakeGoesOn, Followed
      <4> QED BY <4>1, <4>2
    <3> QED BY <3>2, <3>3, <3>4 DEF Followed
  <2> QED BY <2>1, <2>2
<1>10. Informed'
  <2> SUFFICES ASSUME page'.at = "open", Calm'
               PROVE  ShowsTheStore' \/ Refreshing(queue', take')
    BY DEF Informed, Refreshing
  <2>1. CASE Comes(Saves \cup Deletes)
    <3>1. PICK k \in DOMAIN queue'.tasks : /\ k \notin DOMAIN queue.tasks
                                           /\ queue'.tasks[k].kind \in Saves \cup Deletes
      BY <2>1 DEF Comes
    <3> QED BY <1>7, <3>1 DEF Refreshing, Calm
  <2>2. CASE ~Comes(Saves \cup Deletes)
    <3>1. TakeGoesOn \/ take = NoTake
      BY <1>4, <2>2 DEF TakeMoves, Comes
    <3>2. ShowsTheStore \/ Refreshing(queue, take)
      BY <1>1, <1>2 DEF VInv, Informed, Calm
    <3>3. CASE ShowsTheStore
      BY <1>1, <1>4, <2>2, <3>3 DEF ShowsTheStore, SaysSo
    <3>4. CASE Refreshing(queue, take)
      <4>1. PICK j \in DOMAIN queue.tasks :
              \/ queue.tasks[j].kind \in Deletes
              \/ queue.tasks[j].kind \in Saves /\ queue.tasks[j].rec = take.current
        BY <3>4 DEF Refreshing
      <4>2. /\ j \in DOMAIN queue'.tasks /\ queue'.tasks[j].kind = queue.tasks[j].kind
            /\ queue'.tasks[j].rec = queue.tasks[j].rec
        BY <1>3 DEF Grown
      <4> QED BY <1>8, <3>1, <4>1, <4>2 DEF Refreshing, TakeGoesOn, NoTake
    <3> QED BY <3>2, <3>3, <3>4
  <2> QED BY <2>1, <2>2
<1> QED BY <1>5, <1>6, <1>9, <1>10 DEF VInv

(* The same tasks, the first at another place: what refreshes still does.  *)
LEMMA SameTasksView ==
  ASSUME IInv, VInv, UNCHANGED <<take, page>>, queue'.tasks = queue.tasks,
         ghost.failing => ghost'.failing, ghost'.erased = {} => ghost.erased = {},
         Refreshing(queue, take) \/ UNCHANGED <<disk, shown, total>> \/ ghost'.failing
  PROVE  SavesFollowed' /\ Informed'
<1>1. SavesFollowed'
  BY DEF VInv, SavesFollowed, Calm, Mounted, Followed
<1>2. Informed'
  BY DEF VInv, Informed, Calm, Refreshing, ShowsTheStore
<1> QED BY <1>1, <1>2

LEMMA SavesView ==
  ASSUME IInv, OInv, VInv, SaveChunk \/ SaveManifest \/ Delete
  PROVE  VInv'
<1>1. /\ ghost \in Ghosts /\ queue \in Queues /\ queue.tasks # <<>>
      /\ UNCHANGED <<take, page, shown, total>>
      /\ Head1 = queue.tasks[1] /\ 1 \in DOMAIN queue.tasks
  BY HeadIsFirst DEF SaveChunk, SaveManifest, Delete, AtTask, At, IInv, Types, Head1
<1>2. ghost.failing => ghost'.failing
  <2>1. [Next]_vars
    BY DEF Next, TaskStep
  <2> QED BY <2>1, HistoryGrows
<1>3. CASE SaveChunk \/ SaveManifest
  <2>1. queue.tasks[1].kind \in Saves
    <3>1. queue.pc = "manifest" => queue.tasks[1].kind = "chunk"
      BY DEF IInv, Shape
    <3> QED BY <1>1, <1>3, <3>1 DEF SaveChunk, SaveManifest, AtTask, At, Saves
  <2>2. /\ queue'.tasks = queue.tasks
        /\ queue'.pc \in {"manifest", "unsaved", "saved"}
        /\ queue'.pc = "unsaved" => queue.bad \/ ghost'.failing
    <3>1. CASE SaveChunk
      BY <1>1, <3>1 DEF SaveChunk, To, Queues
    <3>2. CASE SaveManifest
      BY <1>1, <3>2, HistoryGoesOn DEF SaveManifest, To, Queues
    <3> QED BY <1>3, <3>1, <3>2
  <2>3. ghost'.erased = ghost.erased
    <3>1. CASE SaveChunk
      <4>1. PICK r, i : UNCHANGED ghost
                        \/ StorageTrouble([ghost EXCEPT !.lost[r] = @ \cup {i}])
        BY <3>1 DEF SaveChunk
      <4> QED BY <1>1, <4>1 DEF StorageTrouble, Trouble, Ghosts
    <3>2. CASE SaveManifest
      BY <1>1, <3>2, HistoryGoesOn DEF SaveManifest, SameHistory
    <3> QED BY <1>3, <3>1, <3>2
  <2>4. FailuresKnown'
    BY <1>1, <1>2, <2>1, <2>2 DEF VInv, FailuresKnown, OInv, Sorted, Remembered
  <2>5. CurrentKept'
    BY <1>1, <2>2, <2>3 DEF VInv, CurrentKept
  <2>6. SavesFollowed' /\ Informed'
    <3>1. CASE Mounted /\ Calm
      <4>1. Refreshing(queue, take)
        BY <1>1, <2>1, <3>1 DEF VInv, SavesFollowed, Followed, Refreshing
      <4> QED BY <1>1, <1>2, <2>2, <2>3, <4>1, SameTasksView
    <3>2. CASE ~(Mounted /\ Calm)
      BY <1>1, <1>2, <2>3, <3>2 DEF SavesFollowed, Informed, Mounted, Calm
    <3> QED BY <3>1, <3>2
  <2> QED BY <2>4, <2>5, <2>6 DEF VInv
<1>4. CASE Delete
  <2>1. PICK gone :
          /\ queue.tasks[1].kind \in Deletes
          /\ queue.tasks[1].kind # "clear" => gone = {queue.tasks[1].rec}
          /\ \/ /\ queue' = [queue EXCEPT !.pc = "deleted"]
                /\ ghost' = [ghost EXCEPT !.erased = @ \cup (gone \cap BeingMade)]
             \/ /\ queue' = [queue EXCEPT !.pc = "undeleted"]
                /\ StorageTrouble(ghost)
    BY <1>1, <1>4 DEF Delete, AtTask, To
  <2>2. /\ queue'.tasks = queue.tasks
        /\ queue'.pc \in {"deleted", "undeleted"}
        /\ queue'.pc = "undeleted" => ghost'.failing
        /\ queue'.pc = "deleted" => ghost'.erased = ghost.erased \cup (gone \cap BeingMade)
        /\ ghost.erased \subseteq ghost'.erased
    BY <1>1, <2>1, HistoryGoesOn DEF Queues, Ghosts, SameHistory
  <2>3. FailuresKnown'
    BY <1>1, <1>2, <2>1, <2>2 DEF VInv, FailuresKnown
  <2>4. CurrentKept'
    <3>1. take.rec \in BeingMade
      BY DEF BeingMade
    <3> QED BY <1>1, <2>1, <2>2, <3>1 DEF VInv, CurrentKept
  <2>5. Refreshing(queue, take)
    BY <1>1, <2>1 DEF Refreshing
  <2>6. SavesFollowed' /\ Informed'
    BY <1>1, <1>2, <2>2, <2>5, SameTasksView
  <2> QED BY <2>3, <2>4, <2>6 DEF VInv
<1> QED BY <1>3, <1>4

LEMMA FinishedTasks ==
  ASSUME IInv, Finish, queue.tasks # <<>>
  PROVE  /\ queue'.pc = "start"
         /\ \A k \in DOMAIN queue'.tasks :
              /\ k \in Nat /\ k > 0
              /\ k + 1 \in DOMAIN queue.tasks
              /\ queue'.tasks[k] = queue.tasks[k + 1]
         /\ \A k \in DOMAIN queue.tasks :
              k # 1 => k - 1 \in DOMAIN queue'.tasks /\ queue'.tasks[k - 1] = queue.tasks[k]
<1>1. queue \in Queues
  BY DEF IInv, Types
<1>2. queue' = [EmptyQueue EXCEPT !.tasks = Tail(queue.tasks)]
  BY DEF Finish
<1> QED BY <1>1, <1>2, TailOfTasks

(* The first task is done.  What else refreshes still waits, if it is not  *)
(* the first that did; then the panel has to show the store.               *)
LEMMA FinishedView ==
  ASSUME IInv, OInv, VInv, Finish, queue.tasks # <<>>, UNCHANGED <<take, page, disk>>,
         ghost.failing => ghost'.failing, ghost'.erased = ghost.erased,
         \/ ghost'.failing \/ ~Mounted
         \/ ShowsTheStore'
         \/ /\ UNCHANGED <<shown, total>>
            /\ queue.tasks[1].kind \notin Deletes
            /\ queue.tasks[1].kind \in Saves => queue.tasks[1].rec # take.current
         \/ /\ shown'.list = shown.list /\ shown'.status = shown.status /\ UNCHANGED total
            /\ queue.tasks[1].kind \notin Deletes \cup Saves
  PROVE  VInv'
<1>1. /\ queue'.pc = "start"
      /\ \A k \in DOMAIN queue'.tasks :
           /\ k \in Nat /\ k > 0
           /\ k + 1 \in DOMAIN queue.tasks
           /\ queue'.tasks[k] = queue.tasks[k + 1]
      /\ \A k \in DOMAIN queue.tasks :
           k # 1 => k - 1 \in DOMAIN queue'.tasks /\ queue'.tasks[k - 1] = queue.tasks[k]
  BY FinishedTasks
<1>2. DOMAIN queue.tasks \subseteq Nat \ {0}
  <2>1. queue \in Queues
    BY DEF IInv, Types
  <2>2. DOMAIN queue.tasks = 1 .. Len(queue.tasks)
    BY <2>1 DEF Queues
  <2> QED BY <2>2
<1>3. FailuresKnown' /\ CurrentKept'
  BY <1>1 DEF VInv, FailuresKnown, CurrentKept
<1>4. SavesFollowed'
  <2> SUFFICES ASSUME Mounted', Calm', NEW j \in DOMAIN queue'.tasks,
                      queue'.tasks[j].kind \in Saves
               PROVE  Followed(queue', take', j)
    BY DEF SavesFollowed, Followed
  <2>1. Followed(queue, take, j + 1)
    BY <1>1 DEF VInv, SavesFollowed, Mounted, Calm
  <2>2. CASE queue.tasks[j + 1].rec = take.current
    BY <1>1, <2>2 DEF Followed
  <2>3. CASE \E k \in DOMAIN queue.tasks : k > j + 1 /\ queue.tasks[k].kind \in Deletes
    <3>1. PICK k \in DOMAIN queue.tasks : k > j + 1 /\ queue.tasks[k].kind \in Deletes
      BY <2>3
    <3>2. k - 1 \in DOMAIN queue'.tasks /\ queue'.tasks[k - 1] = queue.tasks[k] /\ k - 1 > j
      BY <1>1, <1>2, <3>1
    <3> QED BY <3>1, <3>2 DEF Followed
  <2> QED BY <2>1, <2>2, <2>3 DEF Followed
<1>5. Informed'
  <2> SUFFICES ASSUME page'.at = "open", Calm', ~ShowsTheStore'
               PROVE  Refreshing(queue', take')
    BY DEF Informed, Refreshing
  <2>1. /\ shown'.list = shown.list /\ shown'.status = shown.status /\ UNCHANGED total
        /\ queue.tasks[1].kind \notin Deletes
        /\ queue.tasks[1].kind \in Saves => queue.tasks[1].rec # take.current
    BY DEF Calm, Mounted
  <2>2. ShowsTheStore \/ Refreshing(queue, take)
    BY DEF VInv, Informed, Calm
  <2>3. Refreshing(queue, take)
    BY <2>1, <2>2 DEF ShowsTheStore
  <2>4. PICK j \in DOMAIN queue.tasks :
          \/ queue.tasks[j].kind \in Deletes
          \/ queue.tasks[j].kind \in Saves /\ queue.tasks[j].rec = take.current
    BY <2>3 DEF Refreshing
  <2>5. j - 1 \in DOMAIN queue'.tasks /\ queue'.tasks[j - 1] = queue.tasks[j]
    BY <1>1, <2>1, <2>4
  <2> QED BY <2>4, <2>5 DEF Refreshing
<1> QED BY <1>3, <1>4, <1>5 DEF VInv

(* What the panel says of a store that it has just read.                   *)
LEMMA StatusOfPanels ==
  ASSUME IInv
  PROVE  /\ \A r : Listed(r).status # "persisting"
         /\ \A s \in Panels : Deleted(s).status # "persisting"
         /\ \A s \in Panels : \A r : /\ Checked(r, s).status = s.status
                                     /\ Uncheckable(r, s).status = s.status
<1>1. shown \in Panels
  BY DEF IInv, Types
<1>2. \A r : Listed(r).status # "persisting"
  BY <1>1 DEF Listed, Panels
<1>3. \A s \in Panels : Deleted(s).status # "persisting"
  BY DEF Deleted, Panels, idlePersistenceStatus
<1>4. \A s \in Panels : \A r : /\ Checked(r, s).status = s.status
                               /\ Uncheckable(r, s).status = s.status
  BY DEF Checked, Uncheckable, Panels
<1> QED BY <1>2, <1>3, <1>4

LEMMA RefreshView ==
  ASSUME IInv, OInv, VInv, Refresh
  PROVE  VInv'
<1>1. /\ ghost \in Ghosts /\ queue \in Queues /\ queue.tasks # <<>>
      /\ UNCHANGED <<take, page, disk>> /\ Finish
      /\ Head1 = queue.tasks[1] /\ 1 \in DOMAIN queue.tasks
  BY HeadIsFirst DEF Refresh, At, IInv, Types, Head1
<1>2. ghost.failing => ghost'.failing
  <2>1. [Next]_vars
    BY DEF Next, TaskStep
  <2> QED BY <2>1, HistoryGrows
<1>3. ghost'.erased = ghost.erased
  <2>1. UNCHANGED ghost \/ StorageTrouble(ghost)
    BY DEF Refresh
  <2> QED BY <1>1, <2>1, HistoryGoesOn DEF SameHistory
<1>4. ghost'.failing \/ ~Mounted \/ ShowsTheStore'
  <2> SUFFICES ASSUME ~ghost'.failing, Mounted PROVE ShowsTheStore'
    OBVIOUS
  <2>1. queue.pc = "refresh"
    BY <1>2 DEF Refresh, At, VInv, FailuresKnown
  <2>2. shown' = Refreshed(Listed(queue.active)) /\ total' = storageSummary(disk)
    <3>1. ~StorageTrouble(ghost)
      BY <1>1, HistoryGoesOn
    <3>2. page.memo # "failed"
      BY <1>2 DEF VInv, FailuresKnown
    <3> QED BY <2>1, <3>1, <3>2 DEF Refresh, refreshLocalStorageSummary
  <2>3. PICK s \in Panels : s = Listed(queue.active)
    <3>1. queue.active \in {0} \cup Recordings
      BY <1>1 DEF Queues
    <3> QED BY <3>1, PanelsAreTyped DEF IInv
  <2>4. s.list = listRecordings(disk) /\ s.status # "persisting"
    BY <2>3, ListsOfPanels, StatusOfPanels
  <2>5. shown' = Deleted(s) \/ shown' = Checked(Head1.rec, s)
    BY <2>1, <2>2, <2>3 DEF Refreshed
  <2>6. shown'.list = listRecordings(disk) /\ shown'.status # "persisting"
    BY <2>4, <2>5, ListsOfPanels, StatusOfPanels
  <2> QED BY <1>1, <2>2, <2>6 DEF ShowsTheStore
<1> QED BY <1>1, <1>2, <1>3, <1>4, FinishedView

LEMMA AfterSaveView ==
  ASSUME IInv, OInv, VInv, AfterSave
  PROVE  VInv'
<1>1. /\ ghost \in Ghosts /\ queue \in Queues /\ queue.tasks # <<>>
      /\ UNCHANGED <<take, page, disk, total, ghost>>
      /\ Head1 = queue.tasks[1] /\ 1 \in DOMAIN queue.tasks
  BY HeadIsFirst DEF AfterSave, At, IInv, Types, Head1
<1>2. queue.tasks[1].kind \in Saves
  BY DEF AfterSave, At, VInv, FailuresKnown
<1>3. CASE ~Mounted \/ take.current # Head1.rec
  <2>1. Finish /\ UNCHANGED shown
    BY <1>3 DEF AfterSave
  <2>2. queue.tasks[1].kind \notin Deletes
    BY <1>2 DEF Saves, Deletes
  <2> QED BY <1>1, <1>3, <2>1, <2>2, FinishedView
<1>4. CASE Mounted /\ take.current = Head1.rec
  <2>1. /\ queue'.tasks = queue.tasks
        /\ queue'.pc \in {"refresh", "relist", "resum"}
        /\ queue'.pc # "refresh" => queue.pc = "unsaved"
    BY <1>1, <1>4 DEF AfterSave, At, Queues
  <2>2. FailuresKnown' /\ CurrentKept'
    BY <1>1, <2>1 DEF VInv, FailuresKnown, CurrentKept
  <2>3. Refreshing(queue, take)
    BY <1>1, <1>2, <1>4 DEF Refreshing
  <2>4. SavesFollowed' /\ Informed'
    BY <1>1, <2>1, <2>3, SameTasksView
  <2> QED BY <2>2, <2>4 DEF VInv
<1> QED BY <1>3, <1>4

LEMMA AfterDeleteView ==
  ASSUME IInv, OInv, VInv, AfterDelete
  PROVE  VInv'
<1>1. /\ take \in Takes /\ queue \in Queues /\ queue.tasks # <<>>
      /\ UNCHANGED <<page, disk, total, ghost>>
      /\ Head1 = queue.tasks[1] /\ 1 \in DOMAIN queue.tasks
      /\ queue.pc = "deleted"
  BY HeadIsFirst DEF AfterDelete, At, IInv, Types, Head1
<1>2. queue.tasks[1].kind \in Deletes
  BY <1>1 DEF VInv, FailuresKnown
<1>3. CASE ~Mounted
  <2>1. Finish /\ UNCHANGED take
    BY <1>3 DEF AfterDelete
  <2> QED BY <1>1, <1>3, <2>1, FinishedView
<1>4. CASE Mounted
  <2>1. PICK current :
          /\ current = IF Head1.kind # "clear" /\ take.current = Head1.rec THEN 0
                       ELSE take.current
          /\ take' = [take EXCEPT !.current = current]
          /\ queue' = [queue EXCEPT !.pc = "refresh", !.active = current]
    BY <1>4 DEF AfterDelete
  <2>2. /\ queue'.tasks = queue.tasks /\ queue'.pc = "refresh"
        /\ take'.rec = take.rec /\ take'.current = current
    BY <1>1, <2>1 DEF Queues, Takes
  <2>3. ghost.erased = {} => current = take.current
    BY <1>1, <2>1 DEF VInv, CurrentKept
  <2>4. FailuresKnown' /\ CurrentKept'
    BY <1>1, <2>2, <2>3 DEF VInv, FailuresKnown, CurrentKept
  <2>5. SavesFollowed'
    BY <1>1, <2>2, <2>3 DEF VInv, SavesFollowed, Followed, Calm, Mounted
  <2>6. Informed'
    BY <1>1, <1>2, <2>2 DEF Informed, Refreshing
  <2> QED BY <2>4, <2>5, <2>6 DEF VInv
<1> QED BY <1>3, <1>4

LEMMA OtherEndsView ==
  ASSUME IInv, OInv, VInv, AfterFailedDelete \/ CheckOne
  PROVE  VInv'
<1>1. /\ ghost \in Ghosts /\ shown \in Panels /\ queue.tasks # <<>>
      /\ UNCHANGED <<take, page, disk, total>> /\ Finish
      /\ Head1 = queue.tasks[1]
  BY HeadIsFirst DEF AfterFailedDelete, CheckOne, AtTask, At, IInv, Types, Head1
<1>2. ghost.failing => ghost'.failing
  <2>1. [Next]_vars
    BY DEF Next, TaskStep
  <2> QED BY <2>1, HistoryGrows
<1>3. ghost'.erased = ghost.erased
  <2>1. UNCHANGED ghost \/ StorageTrouble(ghost)
    BY DEF AfterFailedDelete, CheckOne
  <2> QED BY <1>1, <2>1, HistoryGoesOn DEF SameHistory
<1>4. CASE AfterFailedDelete
  <2>1. ghost'.failing
    BY <1>4 DEF AfterFailedDelete, At, VInv, FailuresKnown
  <2> QED BY <1>1, <1>2, <1>3, <2>1, FinishedView
<1>5. CASE CheckOne
  <2>1. PICK ended \in Panels : /\ ended.list = shown.list /\ ended.status = shown.status
                                /\ ended = IF Head1.newest
                                           THEN [shown EXCEPT !.check = "ready"] ELSE shown
    BY <1>1 DEF Panels
  <2>2. /\ Checked(Head1.rec, ended).list = ended.list
        /\ Uncheckable(Head1.rec, ended).list = ended.list
    BY <2>1, ListsOfPanels
  <2>3. /\ Checked(Head1.rec, ended).status = ended.status
        /\ Uncheckable(Head1.rec, ended).status = ended.status
    BY <2>1, StatusOfPanels
  <2>4. \/ UNCHANGED shown
        \/ shown' = Checked(Head1.rec, ended)
        \/ shown' = Uncheckable(Head1.rec, ended)
    BY <1>5, <2>1 DEF CheckOne
  <2>5. shown'.list = shown.list /\ shown'.status = shown.status
    BY <2>1, <2>2, <2>3, <2>4
  <2>6. queue.tasks[1].kind \notin Deletes \cup Saves
    BY <1>1, <1>5 DEF CheckOne, AtTask, Deletes, Saves
  <2> QED BY <1>1, <1>2, <1>3, <2>5, <2>6, FinishedView
<1> QED BY <1>4, <1>5

LEMMA StepKeepsView ==
  ASSUME IInv, IInv', OInv, VInv, [Next]_vars
  PROVE  VInv'
BY QuietStepsView, OpeningView, PageView, AddingView, SavesView, RefreshView,
   AfterSaveView, AfterDeleteView, OtherEndsView
   DEF Next, TaskStep, Button, Adding

LEMMA InitView ==
  ASSUME Init
  PROVE  VInv
<1>1. /\ queue.tasks = <<>> /\ queue.pc = "start" /\ page.at = "probing"
      /\ page.memo = "none" /\ take.current = take.rec
  BY DEF Init, EmptyQueue, NoTake
<1>2. DOMAIN queue.tasks = {}
  BY <1>1
<1> QED BY <1>1, <1>2 DEF VInv, FailuresKnown, CurrentKept, SavesFollowed, Informed

(* When the queue is settled, no storage operation has failed and nothing  *)
(* was erased while it was being made, the panel shows the list and the    *)
(* totals of the store and says nothing is persisting: every save of a     *)
(* recording that is no longer current has a delete behind it, and the     *)
(* last save or delete reads the list again.                               *)
THEOREM ShowsStore == Spec => []SettledShowsTheStore
<1>1. Init => VInv
  BY InitView
<1>2. IInv /\ IInv' /\ OInv /\ VInv /\ [Next]_vars => VInv'
  BY StepKeepsView
<1>3. VInv => SettledShowsTheStore
  <2> SUFFICES ASSUME VInv, Settled, ~ghost.failing, ghost.erased = {}
               PROVE  ShowsTheStore
    BY DEF SettledShowsTheStore, ShowsTheStore
  <2>1. DOMAIN queue.tasks = {}
    BY DEF Settled
  <2> QED BY <2>1 DEF VInv, Informed, Settled, Calm, Refreshing
<1>4. Spec => [](IInv /\ OInv)
  BY OrderInvariance
<1> QED BY <1>1, <1>2, <1>3, <1>4, PTL DEF Spec
=============================================================================

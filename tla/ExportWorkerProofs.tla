------------------------- MODULE ExportWorkerProofs -------------------------
(***************************************************************************)
(* Proofs about ExportWorker for any number of POSTs, attempts and faults. *)
(* The manifest is written by jobs that may be obsolete by then, so what a *)
(* ready manifest promises is carried by the job that writes it: past its  *)
(* put, a job's output is stored.  No two jobs share an attempt because    *)
(* what a POST is about to store is an attempt not drawn before: later than*)
(* those of earlier processes, and counted beyond those of its own.        *)
(***************************************************************************)
EXTENDS ExportWorker, TLAPS

Working    == {"chunks", "mismatch", "render", "put"}
Concluding == {"check", "write"}
Outcomes   == {"ready", "reported", "failed"}

(* The request names the modelled upload, whose chunks are all stored.     *)
Sourced(r) == r \in OfUpload /\ Chunks \subseteq stored

(* The attempt id was handed out, by this process or by an earlier one.    *)
Drawn(a) == a[1] < clock \/ (a[1] = clock /\ a[2] <= counter)

JobOK(a) ==
  /\ jobs[a].pc # "none" => Drawn(a) /\ jobs[a].request \in Requests
  /\ jobs[a].pc \in Working => Sourced(jobs[a].request)
  /\ jobs[a].pc \in Concluding /\ jobs[a].outcome = "ready" =>
       a \in outputs /\ Sourced(jobs[a].request)

(* What a POST is about to store belongs to an attempt without a job.      *)
PostOK(p) ==
  /\ posts[p].pc = "load" => posts[p].request \in Requests
  /\ posts[p].pc = "store" =>
       /\ posts[p].next \in ExportManifest
       /\ posts[p].next.status = "processing"
       /\ Drawn(posts[p].next.attempt)
       /\ jobs[posts[p].next.attempt].pc = "none"
       /\ export # None => export.attempt # posts[p].next.attempt

StoresAreDistinct ==
  \A p, q \in Posts :
    p # q /\ posts[p].pc = "store" /\ posts[q].pc = "store" =>
      posts[p].next.attempt # posts[q].next.attempt

ExportOK == export # None => Drawn(export.attempt)

IInv ==
  /\ TypeOK
  /\ \A a \in Attempts : JobOK(a)
  /\ \A p \in Posts : PostOK(p)
  /\ StoresAreDistinct
  /\ ExportOK
  /\ ReadyIsDownloadable

-----------------------------------------------------------------------------
(* Lemmas                                                                  *)

(* The promise keeps its type, and a stored chunk stays stored.            *)
LEMMA PromiseSteps ==
  ASSUME Source!TypeOK, Source!Next
  PROVE  Source!TypeOK' /\ stored \subseteq stored'
<1>1. CASE Source!Open \/ Source!Store
  BY <1>1 DEF Source!TypeOK, Source!Open, Source!Store
<1>2. CASE Source!Overwrite
  BY <1>2 DEF Source!TypeOK, Source!Overwrite
<1>3. CASE Source!Publish
  BY <1>3 DEF Source!TypeOK, Source!Publish
<1> QED BY <1>1, <1>2, <1>3 DEF Source!Next

(* An attempt id stays drawn: the process counts on, or time has passed.   *)
LEMMA DrawnLasts ==
  ASSUME TypeOK, NEW a \in Attempts, Drawn(a),
         \/ clock' = clock /\ counter' \in {counter, counter + 1}
         \/ clock' = clock + 1
  PROVE  Drawn(a)'
BY ExportAssumption DEF TypeOK, Attempts, Drawn

(* The one drawn next was not drawn before, whatever process drew those.   *)
LEMMA NextIsFresh ==
  ASSUME TypeOK, counter < MaxAttempts
  PROVE  next_attempt_id \in Attempts /\ ~Drawn(next_attempt_id)
BY ExportAssumption DEF TypeOK, Attempts, Drawn, next_attempt_id

(* A step of the upload disturbs nothing of the worker.                    *)
LEMMA UploadKeeps ==
  ASSUME IInv, Source!Next,
         UNCHANGED <<export, outputs, posts, jobs, ids>>,
         faults' \in 0 .. MaxFaults
  PROVE  IInv'
<1>1. Source!TypeOK' /\ stored \subseteq stored'
  BY PromiseSteps DEF IInv, TypeOK
<1>2. TypeOK'
  BY <1>1 DEF IInv, TypeOK, ids
<1>3. \A r : Sourced(r) => Sourced(r)'
  BY <1>1 DEF Sourced
<1>4. \A a \in Attempts : JobOK(a)'
  BY <1>3 DEF IInv, JobOK, Drawn, ids
<1>5. \A p \in Posts : PostOK(p)'
  BY DEF IInv, PostOK, Drawn, ids
<1>6. ReadyIsDownloadable'
  BY <1>1 DEF IInv, ReadyIsDownloadable
<1> QED BY <1>2, <1>4, <1>5, <1>6 DEF IInv, StoresAreDistinct, ExportOK, Drawn, ids

(* What a job is about to write: its own attempt, ready only with output.  *)
Writes(a) ==
  /\ export' \in ExportManifest
  /\ export'.attempt = a
  /\ export'.status = "ready" =>
       a \in outputs' /\ export'.request \in OfUpload /\ Chunks \subseteq stored

(* A job that moves on to a place whose promises hold.                     *)
LEMMA JobKeeps ==
  ASSUME IInv, NEW a \in Attempts, jobs[a].pc # "none",
         NEW place \in JobPlaces \ {"none"}, NEW outcome \in Outcomes,
         JobTo(a, place, outcome),
         UNCHANGED <<upload, posts, ids>>,
         outputs \subseteq outputs', outputs' \in SUBSET Attempts,
         faults' \in 0 .. MaxFaults,
         place \in Working => Sourced(jobs[a].request),
         place \in Concluding /\ outcome = "ready" =>
           a \in outputs' /\ Sourced(jobs[a].request),
         export' = export \/ Writes(a)
  PROVE  IInv'
<1>1. /\ jobs' \in [Attempts -> [pc : JobPlaces, outcome : Outcomes,
                                 request : Requests \cup {None}]]
      /\ jobs'[a].pc = place
      /\ jobs'[a].outcome = outcome
      /\ jobs'[a].request = jobs[a].request
      /\ \A b \in Attempts \ {a} : jobs'[b] = jobs[b]
  BY DEF IInv, TypeOK, JobTo, Outcomes
<1>2. export' \in ExportManifest \cup {None}
  BY DEF IInv, TypeOK, Writes
<1>3. TypeOK'
  BY <1>1, <1>2 DEF IInv, TypeOK, upload, ids, Outcomes, Source!TypeOK
<1>4. \A b \in Attempts : JobOK(b)'
  BY <1>1 DEF IInv, JobOK, Sourced, upload, Drawn, ids
<1>5. Drawn(a)
  BY DEF IInv, JobOK
<1>6. \A p \in Posts : PostOK(p)'
  <2> SUFFICES ASSUME NEW p \in Posts PROVE PostOK(p)'
    OBVIOUS
  <2>1. PostOK(p)
    BY DEF IInv
  <2>2. posts[p].pc = "store" => posts[p].next.attempt \in Attempts
    BY <2>1 DEF PostOK, ExportManifest
  <2> QED BY <1>1, <2>1, <2>2 DEF PostOK, Writes, Drawn, ids
<1>7. ExportOK'
  BY <1>5 DEF IInv, ExportOK, Writes, Drawn, ids
<1>8. ReadyIsDownloadable'
  BY DEF IInv, ReadyIsDownloadable, Writes, upload
<1> QED BY <1>3, <1>4, <1>6, <1>7, <1>8 DEF IInv, StoresAreDistinct

(* Nothing but the age of the export changes.                              *)
LEMMA StaleKeeps ==
  ASSUME IInv, export # None, export' = [export EXCEPT !.stale = TRUE],
         UNCHANGED <<upload, outputs, posts, jobs, ids>>,
         faults' \in 0 .. MaxFaults
  PROVE  IInv'
<1>1. /\ export \in ExportManifest
      /\ export' \in ExportManifest
      /\ export'.status = export.status
      /\ export'.attempt = export.attempt
      /\ export'.request = export.request
  BY DEF IInv, TypeOK, ExportManifest
<1>2. TypeOK'
  BY <1>1 DEF IInv, TypeOK, upload, ids, Source!TypeOK
<1>3. \A a \in Attempts : JobOK(a)'
  BY DEF IInv, JobOK, Sourced, upload, Drawn, ids
<1>4. \A p \in Posts : PostOK(p)'
  BY <1>1 DEF IInv, PostOK, Drawn, ids
<1>5. ExportOK' /\ ReadyIsDownloadable'
  BY <1>1 DEF IInv, ExportOK, ReadyIsDownloadable, upload, Drawn, ids
<1> QED BY <1>2, <1>3, <1>4, <1>5 DEF IInv, StoresAreDistinct

-----------------------------------------------------------------------------
(* The POST handlers                                                       *)

LEMMA AcceptKeeps ==
  ASSUME IInv, NEW p \in Posts, NEW r \in Requests, Accept(p, r),
         UNCHANGED <<upload, export, outputs, jobs, ids>>,
         faults' \in 0 .. MaxFaults
  PROVE  IInv'
<1>1. /\ posts'[p].pc = "load"
      /\ posts'[p].request = r
      /\ \A q \in Posts \ {p} : posts'[q] = posts[q]
  BY DEF IInv, TypeOK, Accept
<1>2. posts' \in [Posts -> [pc : {"idle", "load", "store"},
                            request : Requests \cup {None},
                            next : ExportManifest \cup {None}]]
  BY DEF IInv, TypeOK, Accept
<1>3. TypeOK'
  BY <1>2 DEF IInv, TypeOK, upload, ids, Source!TypeOK
<1>4. \A a \in Attempts : JobOK(a)'
  BY DEF IInv, JobOK, Sourced, upload, Drawn, ids
<1>5. \A q \in Posts : PostOK(q)'
  BY <1>1 DEF IInv, PostOK, Drawn, ids
<1>6. StoresAreDistinct'
  BY <1>1 DEF IInv, StoresAreDistinct
<1> QED BY <1>3, <1>4, <1>5, <1>6 DEF IInv, ExportOK, ReadyIsDownloadable, upload, Drawn, ids

(* A POST that ends, having stored nothing or what it was to store.        *)
LEMMA PostEnds ==
  ASSUME IInv, NEW p \in Posts, posts' = [posts EXCEPT ![p] = IdlePost],
         UNCHANGED <<upload, outputs, jobs, ids>>,
         faults' \in 0 .. MaxFaults,
         \/ export' = export
         \/ posts[p].pc = "store" /\ export' = posts[p].next
  PROVE  IInv'
<1>1. /\ posts'[p].pc = "idle"
      /\ \A q \in Posts \ {p} : posts'[q] = posts[q]
      /\ PostOK(p)
  BY DEF IInv, TypeOK, IdlePost
<1>2. posts' \in [Posts -> [pc : {"idle", "load", "store"},
                            request : Requests \cup {None},
                            next : ExportManifest \cup {None}]]
  BY DEF IInv, TypeOK, IdlePost
<1>3. export' \in ExportManifest \cup {None}
  BY <1>1 DEF IInv, TypeOK, PostOK
<1>4. TypeOK'
  BY <1>2, <1>3 DEF IInv, TypeOK, upload, ids, Source!TypeOK
<1>5. \A a \in Attempts : JobOK(a)'
  BY DEF IInv, JobOK, Sourced, upload, Drawn, ids
<1>6. \A q \in Posts : PostOK(q)'
  <2> SUFFICES ASSUME NEW q \in Posts, q # p PROVE PostOK(q)'
    BY <1>1 DEF PostOK
  <2>1. posts[p].pc = "store" /\ posts[q].pc = "store" =>
          posts[p].next.attempt # posts[q].next.attempt
    BY DEF IInv, StoresAreDistinct
  <2> QED BY <1>1, <2>1 DEF IInv, PostOK, Drawn, ids
<1>7. StoresAreDistinct'
  BY <1>1 DEF IInv, StoresAreDistinct
<1>8. ExportOK' /\ ReadyIsDownloadable'
  BY <1>1 DEF IInv, ExportOK, ReadyIsDownloadable, PostOK, upload, Drawn, ids
<1> QED BY <1>4, <1>5, <1>6, <1>7, <1>8 DEF IInv

(* The attempt drawn is newer than every job, manifest and pending store.  *)
LEMMA LoadKeeps ==
  ASSUME IInv, NEW p \in Posts, LoadForPost(p)
  PROVE  IInv'
<1>1. CASE ~MustStart(posts[p].request)
  BY <1>1, PostEnds DEF LoadForPost, IInv, TypeOK, ids
<1>2. CASE MustStart(posts[p].request)
  <2> DEFINE next == [status |-> "processing", attempt |-> next_attempt_id,
                      request |-> posts[p].request, stale |-> FALSE]
  <2>1. /\ counter < MaxAttempts
        /\ counter' = counter + 1
        /\ posts' = [posts EXCEPT ![p] = [@ EXCEPT !.pc = "store",
                                                   !.next = next]]
        /\ UNCHANGED <<upload, export, outputs, jobs, clock, faults>>
    BY <1>2 DEF LoadForPost
  <2>2. /\ next_attempt_id \in Attempts
        /\ ~Drawn(next_attempt_id)
        /\ \A a \in Attempts : Drawn(a) => Drawn(a)'
        /\ counter' \in 0 .. MaxAttempts
    BY <2>1, NextIsFresh, DrawnLasts, ExportAssumption DEF IInv, TypeOK
  <2>3. posts[p].request \in Requests
    BY DEF IInv, PostOK, LoadForPost
  <2>4. next \in ExportManifest
    BY <2>2, <2>3 DEF ExportManifest
  <2>5. next.status = "processing" /\ next.attempt = next_attempt_id
    OBVIOUS
  <2>6. next.attempt[1] = clock /\ next.attempt[2] = counter + 1
    BY <2>5 DEF next_attempt_id
  <2> HIDE DEF next
  <2>7. /\ posts'[p].pc = "store"
        /\ posts'[p].next = next
        /\ \A q \in Posts \ {p} : posts'[q] = posts[q]
        /\ posts' \in [Posts -> [pc : {"idle", "load", "store"},
                                 request : Requests \cup {None},
                                 next : ExportManifest \cup {None}]]
    BY <2>1, <2>4 DEF IInv, TypeOK
  <2>8. TypeOK'
    BY <2>1, <2>2, <2>7 DEF IInv, TypeOK, upload, Source!TypeOK
  <2>9. jobs[next.attempt].pc = "none"
    BY <2>2, <2>5 DEF IInv, JobOK
  <2>10. \A a \in Attempts : JobOK(a)'
    BY <2>1, <2>2 DEF IInv, JobOK, Sourced, upload
  <2>11. \A q \in Posts :
           posts[q].pc = "store" =>
             /\ posts[q].next.attempt \in Attempts
             /\ posts[q].next.attempt # next.attempt
    BY <2>2, <2>5 DEF IInv, PostOK, ExportManifest
  <2>12. export # None => export.attempt \in Attempts /\ export.attempt # next.attempt
    BY <2>2, <2>5 DEF IInv, TypeOK, ExportOK, ExportManifest
  <2>13. \A q \in Posts : PostOK(q)'
    <3> SUFFICES ASSUME NEW q \in Posts PROVE PostOK(q)'
      OBVIOUS
    <3>1. CASE q = p
      <4>1. (Drawn(posts[q].next.attempt))'
        BY <3>1, <2>1, <2>6, <2>7 DEF IInv, TypeOK, Drawn
      <4> QED BY <3>1, <4>1, <2>1, <2>4, <2>5, <2>7, <2>9, <2>12 DEF PostOK
    <3>2. CASE q # p
      <4>1. PostOK(q) /\ posts'[q] = posts[q]
        BY <3>2, <2>7 DEF IInv
      <4> QED BY <4>1, <2>1, <2>2, <2>11 DEF PostOK
    <3> QED BY <3>1, <3>2
  <2>14. StoresAreDistinct'
    BY <2>7, <2>11 DEF IInv, StoresAreDistinct
  <2>15. ExportOK' /\ ReadyIsDownloadable'
    BY <2>1, <2>2, <2>12 DEF IInv, ExportOK, ReadyIsDownloadable, upload
  <2> QED BY <2>8, <2>10, <2>13, <2>14, <2>15 DEF IInv
<1> QED BY <1>1, <1>2

(* The job is spawned under an attempt nobody else is about to store.      *)
LEMMA StoreKeeps ==
  ASSUME IInv, NEW p \in Posts, StoreAndSpawn(p)
  PROVE  IInv'
<1> DEFINE next == posts[p].next
           job == [pc |-> "source", outcome |-> "ready",
                   request |-> next.request]
<1>1. /\ PostOK(p)
      /\ next \in ExportManifest
      /\ next.status = "processing"
      /\ next.attempt \in Attempts
      /\ Drawn(next.attempt)
      /\ next.request \in Requests
  BY DEF IInv, PostOK, StoreAndSpawn, ExportManifest
<1>2. /\ export' = next
      /\ jobs' = [jobs EXCEPT ![next.attempt] = job]
      /\ posts' = [posts EXCEPT ![p] = IdlePost]
      /\ posts[p].pc = "store"
      /\ UNCHANGED <<upload, outputs, ids, faults>>
  BY DEF StoreAndSpawn
<1>3. /\ job \in [pc : JobPlaces, outcome : Outcomes,
                  request : Requests \cup {None}]
      /\ job.pc = "source"
      /\ job.request = next.request
  BY <1>1 DEF JobPlaces, Outcomes
<1> HIDE DEF job
<1>4. /\ jobs' \in [Attempts -> [pc : JobPlaces, outcome : Outcomes,
                                 request : Requests \cup {None}]]
      /\ jobs'[next.attempt] = job
      /\ \A a \in Attempts \ {next.attempt} : jobs'[a] = jobs[a]
  BY <1>1, <1>2, <1>3 DEF IInv, TypeOK, Outcomes
<1>5. /\ posts'[p].pc = "idle"
      /\ \A q \in Posts \ {p} : posts'[q] = posts[q]
      /\ posts' \in [Posts -> [pc : {"idle", "load", "store"},
                               request : Requests \cup {None},
                               next : ExportManifest \cup {None}]]
  BY <1>2 DEF IInv, TypeOK, IdlePost
<1>6. TypeOK'
  BY <1>1, <1>2, <1>4, <1>5 DEF IInv, TypeOK, upload, ids, Outcomes, Source!TypeOK
<1>7. \A a \in Attempts : JobOK(a)'
  BY <1>1, <1>2, <1>3, <1>4 DEF IInv, JobOK, Sourced, upload, Drawn, ids, Working, Concluding
<1>8. \A q \in Posts : PostOK(q)'
  <2> SUFFICES ASSUME NEW q \in Posts, q # p PROVE PostOK(q)'
    BY <1>5 DEF PostOK
  <2>1. posts'[q] = posts[q] /\ PostOK(q)
    BY <1>5 DEF IInv
  <2>2. posts[q].pc = "store" =>
          /\ posts[q].next.attempt # next.attempt
          /\ posts[q].next.attempt \in Attempts
    BY <1>2, <2>1 DEF IInv, StoresAreDistinct, PostOK, ExportManifest
  <2> QED BY <1>2, <1>4, <2>1, <2>2 DEF PostOK, Drawn, ids
<1>9. StoresAreDistinct'
  BY <1>5 DEF IInv, StoresAreDistinct
<1>10. ExportOK' /\ ReadyIsDownloadable'
  BY <1>1, <1>2 DEF ExportOK, ReadyIsDownloadable, Drawn, ids
<1> QED BY <1>6, <1>7, <1>8, <1>9, <1>10 DEF IInv

-----------------------------------------------------------------------------
(* The jobs                                                                *)

LEMMA FaultIsBounded ==
  ASSUME TypeOK, Fault
  PROVE  faults' \in 0 .. MaxFaults
BY ExportAssumption DEF TypeOK, Fault

LEMMA JobStepKeeps ==
  ASSUME IInv, NEW a \in Attempts, JobStep(a)
  PROVE  IInv'
<1> DEFINE job == jobs[a]
<1>1. /\ job.pc \in JobPlaces
      /\ job.outcome \in Outcomes
      /\ faults \in 0 .. MaxFaults
      /\ outputs \in SUBSET Attempts
      /\ listed \subseteq stored
      /\ JobOK(a)
  BY DEF IInv, TypeOK, Outcomes, Source!TypeOK
<1> USE DEF JobPlaces, Outcomes, Working, Concluding
<1>2. CASE CheckSource(a)
  <2>1. SourceIsValid(job.request) => Sourced(job.request)
    BY <1>1 DEF SourceIsValid, Sourced
  <2> QED BY <1>1, <1>2, <2>1, JobKeeps DEF CheckSource
<1>3. CASE Rebuild(a)
  BY <1>1, <1>3, JobKeeps DEF Rebuild, JobOK
<1>4. CASE Render(a)
  BY <1>1, <1>4, JobKeeps DEF Render, JobOK
<1>5. CASE PutOutput(a)
  BY <1>1, <1>5, JobKeeps DEF PutOutput, JobOK
<1>6. ASSUME Finish(a), job.pc \in Concluding,
             UNCHANGED <<upload, posts, ids, outputs, faults>>,
             export' = export \/ Writes(a)
      PROVE  IInv'
  BY <1>1, <1>6, JobKeeps DEF Finish
<1>7. CASE CheckCurrent(a)
  <2>1. CASE IsCurrent(a)
    BY <1>1, <1>7, <2>1, JobKeeps DEF CheckCurrent, JobOK
  <2>2. CASE ~IsCurrent(a)
    BY <1>6, <1>7, <2>2 DEF CheckCurrent
  <2> QED BY <2>1, <2>2
<1>8. CASE WriteTerminal(a)
  <2>1. job.request \in Requests
    BY <1>1, <1>8 DEF JobOK, WriteTerminal
  <2>2. export' \in ExportManifest /\ export'.attempt = a
    BY <1>8, <2>1 DEF WriteTerminal, ExportManifest
  <2>3. export'.status = "ready" => job.outcome = "ready"
    BY <1>8 DEF WriteTerminal
  <2>4. export'.request = job.request
    BY <1>8 DEF WriteTerminal
  <2>5. Writes(a)
    BY <1>1, <1>8, <2>2, <2>3, <2>4 DEF Writes, WriteTerminal, JobOK, Sourced
  <2> QED BY <1>6, <1>8, <2>5 DEF WriteTerminal
<1> QED BY <1>2, <1>3, <1>4, <1>5, <1>7, <1>8 DEF JobStep

(* A failure leads to a failed outcome, which promises nothing.            *)
LEMMA FailureKeeps ==
  ASSUME IInv, NEW a \in Attempts, JobFails(a) \/ WriteFails(a)
  PROVE  IInv'
<1> USE DEF JobPlaces, Outcomes, Working, Concluding
<1>1. /\ outputs \in SUBSET Attempts
      /\ TypeOK
  BY DEF IInv, TypeOK
<1>2. CASE JobFails(a)
  <2>1. faults' \in 0 .. MaxFaults
    BY <1>1, <1>2, FaultIsBounded DEF JobFails
  <2> QED BY <1>1, <1>2, <2>1, JobKeeps DEF JobFails
<1>3. CASE WriteFails(a)
  <2>1. faults' \in 0 .. MaxFaults
    BY <1>1, <1>3, FaultIsBounded DEF WriteFails
  <2> QED BY <1>1, <1>3, <2>1, JobKeeps DEF WriteFails
<1> QED BY <1>2, <1>3

(* A crash forgets handlers and jobs, and no promise is about them.        *)
LEMMA CrashKeeps ==
  ASSUME IInv, Crash
  PROVE  IInv'
<1>1. faults' \in 0 .. MaxFaults
  BY FaultIsBounded DEF IInv, Crash
<1>2. /\ \A p \in Posts : posts'[p].pc = "idle"
      /\ posts' \in [Posts -> [pc : {"idle", "load", "store"},
                               request : Requests \cup {None},
                               next : ExportManifest \cup {None}]]
  BY DEF Crash, IdlePost
<1>3. \A a \in Attempts :
        /\ jobs'[a].request = jobs[a].request
        /\ jobs'[a].pc \in {"none", "done"}
        /\ jobs'[a].pc # "none" => jobs[a].pc # "none"
        /\ jobs'[a] \in [pc : JobPlaces, outcome : Outcomes,
                         request : Requests \cup {None}]
  BY DEF IInv, TypeOK, Crash, JobPlaces, Outcomes
<1>4. jobs' \in [Attempts -> [pc : JobPlaces, outcome : Outcomes,
                              request : Requests \cup {None}]]
  BY <1>3 DEF Crash
<1>5. TypeOK'
  BY <1>1, <1>2, <1>4, ExportAssumption
     DEF IInv, TypeOK, Crash, upload, Outcomes, Source!TypeOK
<1>6. \A a \in Attempts : Drawn(a) => Drawn(a)'
  BY DrawnLasts DEF IInv, Crash
<1>7. \A a \in Attempts : JobOK(a)'
  BY <1>3, <1>6 DEF IInv, JobOK, Crash, Working, Concluding
<1>8. (\A p \in Posts : PostOK(p)') /\ StoresAreDistinct'
  BY <1>2 DEF PostOK, StoresAreDistinct
<1>9. ExportOK' /\ ReadyIsDownloadable'
  BY <1>6 DEF IInv, TypeOK, ExportManifest, ExportOK, ReadyIsDownloadable, Crash, upload
<1> QED BY <1>5, <1>7, <1>8, <1>9 DEF IInv

(* Time makes every attempt id so far an old one.                          *)
LEMMA TickKeeps ==
  ASSUME IInv, Tick
  PROVE  IInv'
<1>1. \A a \in Attempts : Drawn(a) => Drawn(a)'
  BY DrawnLasts DEF IInv, Tick
<1>2. TypeOK'
  BY ExportAssumption DEF IInv, TypeOK, Tick, upload, Source!TypeOK
<1>3. \A a \in Attempts : JobOK(a)'
  BY <1>1 DEF IInv, JobOK, Sourced, Tick, upload
<1>4. \A p \in Posts : PostOK(p)'
  BY <1>1 DEF IInv, PostOK, ExportManifest, Tick
<1>5. ExportOK' /\ ReadyIsDownloadable' /\ StoresAreDistinct'
  BY <1>1 DEF IInv, TypeOK, ExportManifest, ExportOK, ReadyIsDownloadable, StoresAreDistinct,
     Tick, upload
<1> QED BY <1>2, <1>3, <1>4, <1>5 DEF IInv

(* A job at its chunks stays there: none of them is lost by an overwrite.  *)
LEMMA OverwriteKeeps ==
  ASSUME IInv, Overwrite
  PROVE  IInv'
<1>1. Source!TypeOK' /\ stored' = stored
  BY PromiseSteps DEF IInv, TypeOK, Overwrite, Source!Next, Source!Overwrite
<1>2. faults' \in 0 .. MaxFaults
  BY FaultIsBounded DEF IInv, Overwrite
<1>3. UNCHANGED <<export, outputs, posts, clock, counter>>
  BY DEF Overwrite, ids
<1>4. \A a \in Attempts :
        /\ jobs'[a].request = jobs[a].request
        /\ jobs'[a].outcome = jobs[a].outcome
        /\ \/ jobs'[a].pc = jobs[a].pc
           \/ {jobs'[a].pc, jobs[a].pc} \subseteq {"chunks", "mismatch"}
        /\ jobs'[a] \in [pc : JobPlaces, outcome : Outcomes,
                         request : Requests \cup {None}]
  BY DEF IInv, TypeOK, Overwrite, JobPlaces, Outcomes
<1>5. jobs' \in [Attempts -> [pc : JobPlaces, outcome : Outcomes,
                              request : Requests \cup {None}]]
  BY <1>4 DEF Overwrite
<1>6. TypeOK'
  BY <1>1, <1>2, <1>3, <1>5 DEF IInv, TypeOK, Outcomes
<1>7. \A a \in Attempts : JobOK(a)'
  BY <1>1, <1>3, <1>4 DEF IInv, JobOK, Sourced, Drawn, Working, Concluding
<1>8. \A p \in Posts : PostOK(p)'
  <2>1. \A a \in Attempts : jobs[a].pc = "none" => jobs'[a].pc = "none"
    BY <1>4
  <2> QED BY <1>3, <2>1 DEF IInv, PostOK, Drawn, ExportManifest
<1>9. ExportOK' /\ ReadyIsDownloadable' /\ StoresAreDistinct'
  BY <1>1, <1>3 DEF IInv, ExportOK, ReadyIsDownloadable, StoresAreDistinct, Drawn
<1> QED BY <1>6, <1>7, <1>8, <1>9 DEF IInv

-----------------------------------------------------------------------------
(* The inductive invariant                                                 *)

LEMMA InitEstablishes == Init => IInv
<1> SUFFICES ASSUME Init PROVE IInv
  OBVIOUS
<1>1. /\ \A a \in Attempts : jobs[a] = NoJob
      /\ \A p \in Posts : posts[p] = IdlePost
      /\ NoJob.pc = "none"
      /\ IdlePost.pc = "idle"
  BY DEF Init, NoJob, IdlePost
<1>2. /\ NoJob \in [pc : JobPlaces, outcome : Outcomes,
                    request : Requests \cup {None}]
      /\ IdlePost \in [pc : {"idle", "load", "store"},
                       request : Requests \cup {None},
                       next : ExportManifest \cup {None}]
  BY DEF NoJob, IdlePost, JobPlaces, Outcomes
<1>3. TypeOK
  BY <1>2, ExportAssumption
     DEF Init, TypeOK, Outcomes, Source!Init, Source!TypeOK
<1>4. \A a \in Attempts : JobOK(a)
  BY <1>1 DEF JobOK, Working, Concluding
<1>5. (\A p \in Posts : PostOK(p)) /\ StoresAreDistinct
  BY <1>1 DEF PostOK, StoresAreDistinct
<1> QED BY <1>3, <1>4, <1>5 DEF IInv, Init, ExportOK, ReadyIsDownloadable

(* Whether the users are patient or not.                                   *)
LEMMA StepKeeps ==
  ASSUME IInv, [Next \/ PatientNext]_vars
  PROVE  IInv'
<1>1. CASE UNCHANGED vars
  BY <1>1 DEF IInv, TypeOK, Source!TypeOK, JobOK, Sourced, PostOK,
     StoresAreDistinct, ExportOK, ReadyIsDownloadable, Drawn, vars
<1>2. TypeOK /\ faults \in 0 .. MaxFaults
  BY DEF IInv, TypeOK
<1>3. CASE UploadStep
  BY <1>2, <1>3, UploadKeeps DEF UploadStep, worker, ids, Source!Next
<1>4. CASE Reopen
  <2>1. faults' \in 0 .. MaxFaults
    BY <1>2, <1>4, FaultIsBounded DEF Reopen
  <2> QED BY <1>4, <2>1, UploadKeeps DEF Reopen, Source!Next
<1>5. ASSUME NEW p \in Posts, NEW r \in Requests, ReceivePost(p, r)
      PROVE  IInv'
  BY <1>2, <1>5, AcceptKeeps DEF ReceivePost
<1>6. ASSUME NEW p \in Posts, StrayPost(p) PROVE IInv'
  <2>1. faults' \in 0 .. MaxFaults
    BY <1>2, <1>6, FaultIsBounded DEF StrayPost
  <2> QED BY <1>6, <2>1, AcceptKeeps DEF StrayPost
<1>7. ASSUME NEW p \in Posts, PostStep(p) PROVE IInv'
  BY <1>7, LoadKeeps, StoreKeeps DEF PostStep
<1>8. ASSUME NEW p \in Posts, DropPost(p) PROVE IInv'
  <2>1. faults' \in 0 .. MaxFaults
    BY <1>2, <1>8, FaultIsBounded DEF DropPost
  <2> QED BY <1>8, <2>1, PostEnds DEF DropPost
<1>9. ASSUME NEW a \in Attempts, JobStep(a) \/ JobFails(a) \/ WriteFails(a)
      PROVE  IInv'
  BY <1>9, JobStepKeeps, FailureKeeps
<1>10. CASE GrowStale
  <2>1. faults' \in 0 .. MaxFaults
    BY <1>2, <1>10, FaultIsBounded DEF GrowStale
  <2> QED BY <1>10, <2>1, StaleKeeps DEF GrowStale
<1>11. CASE OrphanGrowsStale
  BY <1>2, <1>11, StaleKeeps DEF OrphanGrowsStale
<1>12. CASE Crash
  BY <1>12, CrashKeeps
<1>13. ASSUME NEW p \in Posts, Ask(p) PROVE IInv'
  BY <1>5, <1>13, ExportAssumption DEF Ask
<1>14. CASE Next
  BY <1>3, <1>5, <1>7, <1>8, <1>9, <1>10, <1>11, <1>12, <1>14, TickKeeps, OverwriteKeeps
     DEF Next
<1>15. CASE PatientNext
  BY <1>3, <1>4, <1>6, <1>7, <1>8, <1>9, <1>10, <1>11, <1>12, <1>13, <1>15,
     TickKeeps, OverwriteKeeps DEF PatientNext
<1> QED BY <1>1, <1>14, <1>15

LEMMA ValidatedFollows == IInv => ValidatedSourceIsStored
BY DEF IInv, ValidatedSourceIsStored, JobOK, Working, Sourced

(* Both specifications, the one in which anybody does anything and the one *)
(* with the patient user, keep the invariant.                              *)
THEOREM Invariance == (Spec => []IInv) /\ (PatientSpec => []IInv)
<1>1. IInv /\ [Next]_vars => IInv'
  BY StepKeeps
<1>2. IInv /\ [PatientNext]_vars => IInv'
  BY StepKeeps
<1>3. Spec => []IInv
  BY InitEstablishes, <1>1, PTL DEF Spec
<1>4. PatientSpec => []IInv
  BY InitEstablishes, <1>2, PTL DEF PatientSpec
<1> QED BY <1>3, <1>4

(* Every reachable state of the worker and its handlers is well typed.     *)
THEOREM TypeCorrectness == (Spec => []TypeOK) /\ (PatientSpec => []TypeOK)
<1>1. IInv => TypeOK
  BY DEF IInv
<1> QED BY Invariance, <1>1, PTL

(* A manifest that says ready names an attempt whose MP4 is stored and was *)
(* made from stored chunks, whichever job wrote it and whatever failed.    *)
THEOREM ReadyDownloadable ==
  (Spec => []ReadyIsDownloadable) /\ (PatientSpec => []ReadyIsDownloadable)
<1>1. IInv => ReadyIsDownloadable
  BY DEF IInv
<1> QED BY Invariance, <1>1, PTL

(* A job past validate_upload_manifest never lacks a chunk object.         *)
THEOREM ValidatedSourceStored ==
  /\ Spec => []ValidatedSourceIsStored
  /\ PatientSpec => []ValidatedSourceIsStored
<1>1. IInv => ValidatedSourceIsStored
  BY ValidatedFollows
<1> QED BY Invariance, <1>1, PTL

-----------------------------------------------------------------------------
(* The promise                                                             *)

(* A POST stores what it was asked for, and only a job makes a file.       *)
StoresAsked == \A p \in Posts : posts[p].pc = "store" => posts[p].next.request = posts[p].request

JobMadeIt == \A a \in outputs : jobs[a].pc # "none"

PInv == IInv /\ StoresAsked /\ JobMadeIt

(* A step of one job keeps its request, so that it adds no request to those*)
(* worked on, and no file.                                                 *)
LEMMA JobAsks ==
  ASSUME PInv, NEW a \in Attempts, jobs[a].pc \notin {"none", "done"},
         NEW place \in JobPlaces \ {"none"}, NEW outcome, JobTo(a, place, outcome),
         UNCHANGED posts
  PROVE  /\ jobs[a].request \in Asked
         /\ Asked' \in SUBSET Asked
         /\ place # "done" => Asked' = Asked
         /\ UNCHANGED outputs => Made' = Made
         /\ outputs' = outputs \cup {a} => Made' = Made \cup {jobs[a].request}
         /\ StoresAsked'
         /\ outputs' \subseteq outputs \cup {a} => JobMadeIt'
<1>1. /\ jobs'[a].pc = place
      /\ jobs'[a].request = jobs[a].request
      /\ \A b \in Attempts \ {a} : jobs'[b] = jobs[b]
  BY DEF PInv, IInv, TypeOK, JobTo
<1>2. outputs \subseteq Attempts
  BY DEF PInv, IInv, TypeOK
<1>3. \A b \in Attempts : jobs'[b].request = jobs[b].request
  BY <1>1
<1>4. jobs[a].request \in Asked /\ Asked' \in SUBSET Asked
  BY <1>1, <1>3 DEF Asked
<1>5. place # "done" => Asked' = Asked
  BY <1>1, <1>3 DEF Asked
<1>6. UNCHANGED outputs => Made' = Made
  BY <1>2, <1>3 DEF Made
<1>7. outputs' = outputs \cup {a} => Made' = Made \cup {jobs[a].request}
  BY <1>2, <1>3 DEF Made
<1>8. StoresAsked' /\ (outputs' \subseteq outputs \cup {a} => JobMadeIt')
  BY <1>1, <1>2 DEF PInv, StoresAsked, JobMadeIt
<1> QED BY <1>4, <1>5, <1>6, <1>7, <1>8

(* A POST that ends, or takes up another step with the same request.       *)
LEMMA PostAsks ==
  ASSUME PInv, NEW p \in Posts, posts[p].pc # "idle",
         NEW q, posts' = [posts EXCEPT ![p] = q],
         q.pc = "idle" \/ q.request = posts[p].request,
         q.pc = "store" => q.next.request = q.request,
         UNCHANGED <<jobs, outputs>>
  PROVE  Asked' \in SUBSET Asked /\ Made' = Made /\ StoresAsked' /\ JobMadeIt'
<1>1. /\ posts'[p] = q
      /\ \A o \in Posts \ {p} : posts'[o] = posts[o]
  BY DEF PInv, IInv, TypeOK
<1>2. posts[p].request \in Asked
  BY DEF Asked
<1>3. Asked' \in SUBSET Asked
  BY <1>1, <1>2 DEF Asked
<1> QED BY <1>1, <1>3 DEF PInv, Made, StoresAsked, JobMadeIt

(* The write of a manifest of a request that is worked on.                 *)
LEMMA WriteIsPromised ==
  ASSUME NEW r \in Requests, r \in Asked, Asked' \in SUBSET Asked, Made' = Made,
         export' \in ExportManifest, export'.request = r,
         export'.status = "ready" => r \in Made
  PROVE  Promise!Next
<1>1. export'.status \in {"processing", "ready", "failed"} /\ export' # None
  BY NoneAssumption DEF ExportManifest
<1>2. Promise!Write(r, export'.status)
  BY <1>1 DEF Promise!Write
<1> QED BY <1>1, <1>2 DEF Promise!Next

(* What leaves the manifest's status and request alone.                    *)
LEMMA GiveUpIsPromised ==
  ASSUME UNCHANGED export, Asked' \in SUBSET Asked, Made' = Made
  PROVE  Promise!Next
BY DEF Promise!Next, Promise!GiveUp

LEMMA StutterKeeps ==
  ASSUME PInv, UNCHANGED <<posts, jobs, outputs>>
  PROVE  Asked' = Asked /\ Made' = Made /\ StoresAsked' /\ JobMadeIt'
BY DEF PInv, Asked, Made, StoresAsked, JobMadeIt

LEMMA StaleIsPromised ==
  ASSUME PInv, export # None, export' = [export EXCEPT !.stale = TRUE],
         UNCHANGED <<posts, jobs, outputs>>
  PROVE  Promise!Next
<1>1. export \in ExportManifest
  BY DEF PInv, IInv, TypeOK
<1>2. export' # None /\ export'.status = export.status /\ export'.request = export.request
  <2>1. export' \in ExportManifest
    BY <1>1 DEF ExportManifest
  <2> QED BY <1>1, <2>1, NoneAssumption DEF ExportManifest
<1> QED BY <1>2, StutterKeeps DEF Promise!Next, Promise!GiveUp

LEMMA AcceptIsPromised ==
  ASSUME PInv, NEW p \in Posts, NEW r \in Requests, Accept(p, r),
         UNCHANGED <<export, jobs, outputs>>
  PROVE  Promise!Next /\ StoresAsked' /\ JobMadeIt'
<1>1. /\ posts[p].pc = "idle" /\ posts'[p].pc = "load" /\ posts'[p].request = r
      /\ \A o \in Posts \ {p} : posts'[o] = posts[o]
  BY DEF PInv, IInv, TypeOK, Accept
<1>2. Asked' = Asked \cup {r} /\ Made' = Made
  BY <1>1 DEF Asked, Made
<1>3. Promise!Ask(r)
  BY <1>2 DEF Promise!Ask
<1> QED BY <1>1, <1>3 DEF Promise!Next, PInv, StoresAsked, JobMadeIt

(* The POST that stores an attempt hands its request over to the job.      *)
LEMMA StoreIsPromised ==
  ASSUME PInv, NEW p \in Posts, StoreAndSpawn(p)
  PROVE  Promise!Next /\ StoresAsked' /\ JobMadeIt'
<1> DEFINE next == posts[p].next
           a == next.attempt
           job == [pc |-> "source", outcome |-> "ready", request |-> next.request]
<1>1. /\ next \in ExportManifest /\ next.status = "processing" /\ a \in Attempts
      /\ jobs[a].pc = "none" /\ next.request = posts[p].request /\ next.request \in Requests
  BY DEF PInv, IInv, PostOK, StoresAsked, StoreAndSpawn, ExportManifest
<1>2. /\ jobs'[a].request = next.request /\ jobs'[a].pc = "source"
      /\ \A b \in Attempts \ {a} : jobs'[b] = jobs[b]
      /\ posts'[p].pc = "idle"
      /\ \A o \in Posts \ {p} : posts'[o] = posts[o]
      /\ export' = next /\ outputs' = outputs
  <2>1. jobs' = [jobs EXCEPT ![a] = job] /\ posts' = [posts EXCEPT ![p] = IdlePost]
        /\ export' = next /\ outputs' = outputs
    BY DEF StoreAndSpawn
  <2> QED BY <1>1, <2>1 DEF PInv, IInv, TypeOK, IdlePost
<1>3. a \notin outputs /\ outputs \subseteq Attempts
  BY <1>1 DEF PInv, IInv, TypeOK, JobMadeIt
<1>4. posts[p].request \in Asked
  BY DEF StoreAndSpawn, Asked
<1> HIDE DEF next, a, job
<1>5. next.request \in Asked /\ Asked' \in SUBSET Asked
  BY <1>1, <1>2, <1>4 DEF Asked
<1>6. Made' = Made
  BY <1>2, <1>3 DEF Made
<1>7. Promise!Next
  BY <1>1, <1>2, <1>5, <1>6, WriteIsPromised
<1>8. StoresAsked' /\ JobMadeIt'
  BY <1>2, <1>3 DEF PInv, StoresAsked, JobMadeIt
<1> QED BY <1>7, <1>8

LEMMA PostIsPromised ==
  ASSUME PInv, NEW p \in Posts, PostStep(p) \/ DropPost(p)
  PROVE  Promise!Next /\ StoresAsked' /\ JobMadeIt'
<1>1. CASE LoadForPost(p)
  <2>1. PICK q : /\ posts' = [posts EXCEPT ![p] = q]
                 /\ q.pc = "idle" \/ q.request = posts[p].request
                 /\ q.pc = "store" => q.next.request = q.request
    <3>1. CASE MustStart(posts[p].request)
      <4> DEFINE q == [posts[p] EXCEPT !.pc = "store",
                         !.next = [status |-> "processing",
                                   attempt |-> next_attempt_id,
                                   request |-> posts[p].request,
                                   stale |-> FALSE]]
      <4>1. posts' = [posts EXCEPT ![p] = q]
        BY <1>1, <3>1 DEF LoadForPost
      <4>2. q.pc = "store" /\ q.request = posts[p].request /\ q.next.request = q.request
        BY DEF PInv, IInv, TypeOK
      <4> HIDE DEF q
      <4> QED BY <4>1, <4>2
    <3>2. CASE ~MustStart(posts[p].request)
      BY <1>1, <3>2 DEF LoadForPost, IdlePost
    <3> QED BY <3>1, <3>2
  <2>2. posts[p].pc # "idle" /\ UNCHANGED <<export, jobs, outputs>>
    BY <1>1 DEF LoadForPost
  <2> QED BY <2>1, <2>2, PostAsks, GiveUpIsPromised
<1>2. CASE StoreAndSpawn(p)
  BY <1>2, StoreIsPromised
<1>3. CASE DropPost(p)
  <2>1. /\ posts[p].pc # "idle" /\ IdlePost.pc = "idle"
        /\ posts' = [posts EXCEPT ![p] = IdlePost] /\ UNCHANGED <<jobs, outputs>>
    BY <1>3 DEF DropPost, IdlePost
  <2>2. Asked' \in SUBSET Asked /\ Made' = Made /\ StoresAsked' /\ JobMadeIt'
    BY <2>1, PostAsks
  <2>3. CASE UNCHANGED export
    BY <2>2, <2>3, GiveUpIsPromised
  <2>4. CASE posts[p].pc = "store" /\ export' = posts[p].next
    <3>1. /\ export' \in ExportManifest /\ export'.status = "processing"
          /\ export'.request = posts[p].request /\ export'.request \in Requests
      BY <2>4 DEF PInv, IInv, PostOK, StoresAsked, ExportManifest
    <3>2. posts[p].request \in Asked
      BY <2>1 DEF Asked
    <3> QED BY <2>2, <3>1, <3>2, WriteIsPromised
  <2> QED BY <1>3, <2>3, <2>4 DEF DropPost
<1> QED BY <1>1, <1>2, <1>3 DEF PostStep

(* A job moves on, makes its file, or writes of its request.               *)
LEMMA JobIsPromised ==
  ASSUME PInv, NEW a \in Attempts, JobStep(a) \/ JobFails(a) \/ WriteFails(a)
  PROVE  Promise!Next /\ StoresAsked' /\ JobMadeIt'
<1> DEFINE job == jobs[a]
<1>1. job.outcome \in Outcomes
  BY DEF PInv, IInv, TypeOK, Outcomes
<1>2. /\ job.pc \in {"source", "chunks", "mismatch", "render", "put", "check", "write"}
      /\ UNCHANGED posts
      /\ outputs' = outputs \/ PutOutput(a)
  BY DEF JobStep, CheckSource, Rebuild, Render, PutOutput, CheckCurrent, WriteTerminal,
     JobFails, WriteFails
<1>3. PICK place \in JobPlaces \ {"none"}, outcome \in Outcomes : JobTo(a, place, outcome)
  BY <1>1 DEF JobStep, CheckSource, Rebuild, Render, PutOutput, CheckCurrent, WriteTerminal,
     JobFails, WriteFails, Finish, JobPlaces, Outcomes
<1>4. job.request \in Requests
  BY <1>2 DEF PInv, IInv, JobOK
<1>5. CASE PutOutput(a)
  <2>1. JobTo(a, "check", "ready") /\ outputs' = outputs \cup {a} /\ UNCHANGED export
    BY <1>5 DEF PutOutput
  <2>2. /\ job.request \in Asked /\ Asked' = Asked /\ Made' = Made \cup {job.request}
        /\ StoresAsked' /\ JobMadeIt'
    BY <1>2, <2>1, JobAsks DEF JobPlaces
  <2>3. Promise!Make(job.request)
    BY <2>1, <2>2 DEF Promise!Make
  <2> QED BY <1>4, <2>2, <2>3 DEF Promise!Next
<1>6. CASE outputs' = outputs
  <2>1. /\ job.request \in Asked /\ Asked' \in SUBSET Asked /\ Made' = Made
        /\ StoresAsked' /\ JobMadeIt'
    BY <1>2, <1>3, <1>6, JobAsks
  <2>2. CASE UNCHANGED export
    BY <2>1, <2>2, GiveUpIsPromised
  <2>3. CASE WriteTerminal(a)
    <3>1. /\ export' \in ExportManifest /\ export'.request = job.request
          /\ export'.status = "ready" => job.outcome = "ready"
      BY <1>4, <2>3 DEF WriteTerminal, ExportManifest
    <3>2. export'.status = "ready" => job.request \in Made
      BY <2>3, <3>1 DEF PInv, IInv, JobOK, Concluding, WriteTerminal, Made
    <3> QED BY <1>4, <2>1, <3>1, <3>2, WriteIsPromised
  <2> QED BY <2>2, <2>3 DEF JobStep, CheckSource, Rebuild, Render, PutOutput, CheckCurrent,
          JobFails, WriteFails
<1> QED BY <1>2, <1>5, <1>6

(* An overwritten chunk changes what jobs will find, and nothing they made.*)
LEMMA OverwriteIsPromised ==
  ASSUME PInv, Overwrite
  PROVE  Promise!Next /\ StoresAsked' /\ JobMadeIt'
<1>1. UNCHANGED <<export, outputs, posts>>
  BY DEF Overwrite
<1>2. \A a \in Attempts :
        /\ jobs'[a].request = jobs[a].request
        /\ jobs'[a].pc \in {"none", "done"} <=> jobs[a].pc \in {"none", "done"}
        /\ jobs[a].pc # "none" => jobs'[a].pc # "none"
  BY DEF PInv, IInv, TypeOK, Overwrite
<1>3. Asked' = Asked
  BY <1>1, <1>2 DEF Asked
<1>4. Made' = Made
  BY <1>1, <1>2 DEF PInv, IInv, TypeOK, Made
<1> QED BY <1>1, <1>2, <1>3, <1>4, GiveUpIsPromised
  DEF PInv, IInv, TypeOK, StoresAsked, JobMadeIt

LEMMA CrashIsPromised ==
  ASSUME PInv, Crash
  PROVE  Promise!Next /\ StoresAsked' /\ JobMadeIt'
<1>1. /\ \A p \in Posts : posts'[p].pc = "idle"
      /\ UNCHANGED <<export, outputs>>
  BY DEF Crash, IdlePost
<1>2. \A a \in Attempts :
        /\ jobs'[a].request = jobs[a].request
        /\ jobs'[a].pc \in {"none", "done"}
        /\ jobs[a].pc # "none" => jobs'[a].pc # "none"
  BY DEF PInv, IInv, TypeOK, Crash
<1>3. Asked' = {}
  BY <1>1, <1>2 DEF Asked
<1>4. outputs \subseteq Attempts
  BY DEF PInv, IInv, TypeOK
<1>5. Made' = Made
  BY <1>1, <1>2, <1>4 DEF Made
<1> QED BY <1>1, <1>2, <1>3, <1>4, <1>5, GiveUpIsPromised DEF PInv, StoresAsked, JobMadeIt

(* Whether the users are patient or not, every step of the worker is one   *)
(* its promise allows.                                                     *)
LEMMA StepIsPromised ==
  ASSUME PInv, [Next \/ PatientNext]_vars
  PROVE  [Promise!Next]_(Promise!vars) /\ StoresAsked' /\ JobMadeIt'
<1>1. CASE UNCHANGED <<export, posts, jobs, outputs>>
  BY <1>1, StutterKeeps DEF Promise!vars
<1>2. CASE UNCHANGED vars \/ UploadStep \/ Reopen \/ Tick
  BY <1>1, <1>2 DEF vars, UploadStep, Reopen, Tick, worker
<1>3. ASSUME NEW p \in Posts, NEW r \in Requests, ReceivePost(p, r)
      PROVE  Promise!Next /\ StoresAsked' /\ JobMadeIt'
  BY <1>3, AcceptIsPromised DEF ReceivePost
<1>4. ASSUME NEW p \in Posts, StrayPost(p) \/ Ask(p)
      PROVE  Promise!Next /\ StoresAsked' /\ JobMadeIt'
  BY <1>3, <1>4, AcceptIsPromised, ExportAssumption DEF StrayPost, Ask
<1>5. CASE GrowStale \/ OrphanGrowsStale
  BY <1>5, StaleIsPromised, StutterKeeps DEF GrowStale, OrphanGrowsStale
<1>6. CASE Next
  BY <1>2, <1>3, <1>5, <1>6, PostIsPromised, JobIsPromised, CrashIsPromised,
     OverwriteIsPromised DEF Next
<1>7. CASE PatientNext
  BY <1>2, <1>4, <1>5, <1>7, PostIsPromised, JobIsPromised, CrashIsPromised,
     OverwriteIsPromised DEF PatientNext
<1> QED BY <1>2, <1>6, <1>7

(* The export worker implements ExportPromise, on which the export panel   *)
(* rests: whatever is crashed, dropped or obsolete, it writes only of a    *)
(* request it still works on, and says ready only of one with a file       *)
(* (create_export, store_terminal_manifest_if_current_attempt).            *)
THEOREM WorkerKeepsPromise ==
  (Spec => ImplementsPromise) /\ (PatientSpec => ImplementsPromise)
<1>1. Init => PInv /\ Promise!Init
  <2> SUFFICES ASSUME Init PROVE PInv /\ Promise!Init
    OBVIOUS
  <2>1. StoresAsked /\ JobMadeIt /\ Asked = {} /\ Made = {}
    BY DEF Init, StoresAsked, JobMadeIt, Asked, Made, IdlePost, NoJob
  <2> QED BY <2>1, InitEstablishes DEF PInv, Promise!Init, Init
<1>2. PInv /\ [Next]_vars => PInv' /\ [Promise!Next]_(Promise!vars)
  BY StepKeeps, StepIsPromised DEF PInv
<1>3. PInv /\ [PatientNext]_vars => PInv' /\ [Promise!Next]_(Promise!vars)
  BY StepKeeps, StepIsPromised DEF PInv
<1>4. Spec => ImplementsPromise
  BY <1>1, <1>2, PTL DEF Spec, ImplementsPromise, Promise!Spec
<1>5. PatientSpec => ImplementsPromise
  BY <1>1, <1>3, PTL DEF PatientSpec, ImplementsPromise, Promise!Spec
<1> QED BY <1>4, <1>5
=============================================================================

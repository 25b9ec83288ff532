---------------------------- MODULE ExportWorker ----------------------------
(***************************************************************************)
(* The Rust export worker (services/export-worker) for one recording, on   *)
(* top of what the upload service promises about the recording's upload    *)
(* (UploadPromise; UploadService is shown to implement it).                *)
(*                                                                         *)
(* The export id is derived from the recording id, so all requests for the *)
(* recording meet in one manifest object.  POST /api/exports loads it,     *)
(* decides, stores a new attempt and spawns a background job; the job's    *)
(* last act is to load the manifest again and, if its attempt is still the *)
(* current one, store the terminal state.  Every storage call is an await  *)
(* and a step here: none of these load-decide-store sequences is atomic.   *)
(***************************************************************************)
EXTENDS Naturals, FiniteSets

CONSTANTS
  Chunks,        \* chunk indexes of the upload
  Agreed,        \* those every client sends with the same bytes
  Posts,         \* the POST requests in progress at the same time
  Requests,      \* the identifiers a POST may carry for this recording
  OfUpload,      \* those that name the modelled upload: the worker compares
                 \* the others with its own manifest, never with the upload's
  MaxTime,       \* bound on the clock
  MaxAttempts,   \* bound on the attempts one process starts
  MaxFaults,     \* bound on failures, crashes, stalls and overwritten chunks
  None           \* no manifest

ASSUME ExportAssumption ==
  /\ Agreed \subseteq Chunks
  /\ OfUpload \subseteq Requests
  /\ MaxTime \in Nat
  /\ MaxAttempts \in Nat \ {0}
  /\ MaxFaults \in Nat

(* attempt_{milliseconds}_{counter}                                        *)
Attempts == (0 .. MaxTime) \X (1 .. MaxAttempts)

ExportManifest == [status  : {"processing", "ready", "failed"},
                   attempt : Attempts,
                   request : Requests,
                   stale   : BOOLEAN]

ASSUME NoneAssumption == None \notin ExportManifest \cup Requests

VARIABLES
  stored, listed, exact, phase,   \* the upload, as UploadPromise sees it
  export,                  \* exports/{exportId}/manifest.json, or None
  outputs,                 \* the attempts whose MP4 object is stored
  posts,                   \* the POST handlers
  jobs,                    \* the spawned job of every attempt
  clock,                   \* milliseconds
  counter,                 \* the attempt ids this process has handed out
  faults                   \* failures so far

upload == <<stored, listed, exact, phase>>
ids    == <<clock, counter>>
worker == <<export, outputs, posts, jobs, clock, counter, faults>>
vars   == <<stored, listed, exact, phase, export, outputs, posts, jobs, clock,
            counter, faults>>

Source == INSTANCE UploadPromise

(* A POST is idle, about to load the manifest, or about to store next.     *)
IdlePost == [pc |-> "idle", request |-> None, next |-> None]

(* A job walks source, chunks, render, put, and then check and write for   *)
(* its outcome: "ready"; "reported" for the failure fail_export records;   *)
(* "failed" for the one mark_export_failed records after any error.  It is *)
(* at mismatch instead of chunks while the manifest it validated has a     *)
(* checksum that is not that of the chunk stored.                          *)
NoJob == [pc |-> "none", outcome |-> "ready", request |-> None]

JobPlaces == {"none", "source", "chunks", "mismatch", "render", "put", "check",
              "write", "done"}

Init ==
  /\ Source!Init
  /\ export = None
  /\ outputs = {}
  /\ posts = [p \in Posts |-> IdlePost]
  /\ jobs = [a \in Attempts |-> NoJob]
  /\ clock = 0
  /\ counter = 0
  /\ faults = 0

-----------------------------------------------------------------------------
(* POST /api/exports (create_export)                                       *)

Accept(p, r) ==
  /\ posts[p].pc = "idle"
  /\ posts' = [posts EXCEPT ![p] = [@ EXCEPT !.pc = "load", !.request = r]]

ReceivePost(p, r) ==
  /\ Accept(p, r)
  /\ UNCHANGED <<upload, export, outputs, jobs, ids, faults>>

Matches(r, manifest) == manifest.request = r

\* Mutant of Restartable: an attempt nobody works on is never replaced.
RestartableIfFailed(manifest) == manifest.status = "failed"

Restartable(manifest) ==
  \/ manifest.status = "failed"
  \/ manifest.status = "processing" /\ manifest.stale

(* A ready export, or one that is processing and not stale, is returned,   *)
(* and other identifiers conflict; otherwise a new attempt starts.         *)
MustStart(r) ==
  \/ export = None
  \/ /\ export # None
     /\ Matches(r, export)
     /\ Restartable(export)

next_attempt_id == <<clock, counter + 1>>

(* new_processing and restart_processing draw the attempt id here, before  *)
(* anything is stored.                                                     *)
LoadForPost(p) ==
  LET r == posts[p].request
  IN /\ posts[p].pc = "load"
     /\ UNCHANGED <<upload, export, outputs, jobs, clock, faults>>
     /\ \/ /\ MustStart(r)
           /\ counter < MaxAttempts
           /\ counter' = counter + 1
           /\ posts' = [posts EXCEPT ![p] =
                [@ EXCEPT !.pc = "store",
                          !.next = [status |-> "processing",
                                    attempt |-> next_attempt_id,
                                    request |-> r,
                                    stale |-> FALSE]]]
        \/ /\ ~MustStart(r)
           /\ posts' = [posts EXCEPT ![p] = IdlePost]
           /\ UNCHANGED counter

(* The job is spawned without another await once the manifest is stored.   *)
StoreAndSpawn(p) ==
  LET next == posts[p].next
  IN /\ posts[p].pc = "store"
     /\ export' = next
     /\ jobs' = [jobs EXCEPT ![next.attempt] =
                   [pc |-> "source", outcome |-> "ready",
                    request |-> next.request]]
     /\ posts' = [posts EXCEPT ![p] = IdlePost]
     /\ UNCHANGED <<upload, outputs, ids, faults>>

Fault ==
  /\ faults < MaxFaults
  /\ faults' = faults + 1

(* The request is dropped (storage error, client gone): before its store   *)
(* took effect, or after, and then the attempt has a manifest and no job.  *)
DropPost(p) ==
  /\ Fault
  /\ posts[p].pc # "idle"
  /\ posts' = [posts EXCEPT ![p] = IdlePost]
  /\ \/ UNCHANGED export
     \/ posts[p].pc = "store" /\ export' = posts[p].next
  /\ UNCHANGED <<upload, outputs, jobs, ids>>

-----------------------------------------------------------------------------
(* The background job (process_export)                                     *)

JobTo(a, pc, outcome) ==
  jobs' = [jobs EXCEPT ![a] = [@ EXCEPT !.pc = pc, !.outcome = outcome]]

(* validate_upload_manifest, but for the byte counts: the upload must      *)
(* exist, be marked uploaded, and list every chunk.                        *)
SourceIsValid(r) ==
  /\ r \in OfUpload
  /\ phase = "final"
  /\ listed = Chunks

\* Mutant of CheckSource: the upload's status is not looked at.
CheckSourceExists(a) ==
  /\ jobs[a].pc = "source"
  /\ IF jobs[a].request \in OfUpload /\ phase # "absent"
     THEN JobTo(a, "chunks", "ready")
     ELSE JobTo(a, "check", "reported")
  /\ UNCHANGED <<upload, export, outputs, posts, ids, faults>>

(* Of a chunk that is not exact, the byte counts differ, which is refused  *)
(* here, or its checksum does, which Rebuild finds.                        *)
CheckSource(a) ==
  /\ jobs[a].pc = "source"
  /\ \/ /\ SourceIsValid(jobs[a].request)
        /\ exact = Chunks
        /\ JobTo(a, "chunks", "ready")
     \/ /\ SourceIsValid(jobs[a].request)
        /\ exact # Chunks
        /\ JobTo(a, "mismatch", "ready")
     \/ /\ ~SourceIsValid(jobs[a].request) \/ exact # Chunks
        /\ JobTo(a, "check", "reported")
  /\ UNCHANGED <<upload, export, outputs, posts, ids, faults>>

(* rebuild_webm reads the chunks of the manifest it loaded.  A missing     *)
(* object is an error like any other; fail_export records another checksum.*)
Rebuild(a) ==
  /\ \/ /\ jobs[a].pc \in {"chunks", "mismatch"}
        /\ ~(Chunks \subseteq stored)
        /\ JobTo(a, "check", "failed")
     \/ /\ jobs[a].pc = "chunks"
        /\ Chunks \subseteq stored
        /\ JobTo(a, "render", "ready")
     \/ /\ jobs[a].pc = "mismatch"
        /\ Chunks \subseteq stored
        /\ JobTo(a, "check", "reported")
  /\ UNCHANGED <<upload, export, outputs, posts, ids, faults>>

Render(a) ==
  /\ jobs[a].pc = "render"
  /\ JobTo(a, "put", "ready")
  /\ UNCHANGED <<upload, export, outputs, posts, ids, faults>>

\* Mutant of PutOutput: an upload error of the MP4 goes unnoticed.
PutOutputUnchecked(a) ==
  /\ jobs[a].pc = "put"
  /\ outputs' \in {outputs, outputs \cup {a}}
  /\ JobTo(a, "check", "ready")
  /\ UNCHANGED <<upload, export, posts, ids, faults>>

(* put_file_object under the attempt's own key.                            *)
PutOutput(a) ==
  /\ jobs[a].pc = "put"
  /\ outputs' = outputs \cup {a}
  /\ JobTo(a, "check", "ready")
  /\ UNCHANGED <<upload, export, posts, ids, faults>>

(* Any error of the working part goes to mark_export_failed.               *)
JobFails(a) ==
  /\ Fault
  /\ jobs[a].pc \in {"source", "chunks", "mismatch", "render", "put"}
  /\ JobTo(a, "check", "failed")
  /\ UNCHANGED <<upload, export, outputs, posts, ids>>

(* What follows a terminal write, or the decision to skip it: after        *)
(* fail_export the error still travels to mark_export_failed.              *)
Finish(a) ==
  IF jobs[a].outcome = "reported"
  THEN JobTo(a, "check", "failed")
  ELSE JobTo(a, "done", jobs[a].outcome)

IsCurrent(a) ==
  /\ export # None
  /\ export.attempt = a
  /\ export.status = "processing"

(* store_terminal_manifest_if_current_attempt loads and compares ...       *)
CheckCurrent(a) ==
  /\ jobs[a].pc = "check"
  /\ \/ IsCurrent(a) /\ JobTo(a, "write", jobs[a].outcome)
     \/ ~IsCurrent(a) /\ Finish(a)
  /\ UNCHANGED <<upload, export, outputs, posts, ids, faults>>

\* Mutant of WriteTerminal: the job's own outcome is stored as the status.
WriteOutcome(a) ==
  /\ jobs[a].pc = "write"
  /\ export' = [status  |-> jobs[a].outcome,
                attempt |-> a,
                request |-> jobs[a].request,
                stale   |-> FALSE]
  /\ Finish(a)
  /\ UNCHANGED <<upload, outputs, posts, ids, faults>>

\* Mutant of WriteTerminal: the outcome is set in whatever manifest is there.
WriteOverCurrent(a) ==
  /\ jobs[a].pc = "write"
  /\ export' = [export EXCEPT !.status = IF jobs[a].outcome = "ready"
                                         THEN "ready" ELSE "failed"]
  /\ Finish(a)
  /\ UNCHANGED <<upload, outputs, posts, ids, faults>>

(* ... and then stores, whatever the manifest has become.                  *)
WriteTerminal(a) ==
  /\ jobs[a].pc = "write"
  /\ export' = [status  |-> IF jobs[a].outcome = "ready" THEN "ready"
                                                         ELSE "failed",
                attempt |-> a,
                request |-> jobs[a].request,
                stale   |-> FALSE]
  /\ Finish(a)
  /\ UNCHANGED <<upload, outputs, posts, ids, faults>>

(* A storage error of the terminal write: the ready path and fail_export   *)
(* still try to mark the failure, mark_export_failed itself gives up.      *)
WriteFails(a) ==
  /\ Fault
  /\ jobs[a].pc \in {"check", "write"}
  /\ IF jobs[a].outcome = "failed"
     THEN JobTo(a, "done", "failed")
     ELSE JobTo(a, "check", "failed")
  /\ UNCHANGED <<upload, export, outputs, posts, ids>>

-----------------------------------------------------------------------------
(* The worker's environment                                                *)

(* More than PROCESSING_STALE_AFTER_SECONDS pass: nothing refreshes        *)
(* updated_at while a job works, and FFmpeg alone may take as long.        *)
GrowStale ==
  /\ Fault
  /\ export # None /\ export.status = "processing" /\ ~export.stale
  /\ export' = [export EXCEPT !.stale = TRUE]
  /\ UNCHANGED <<upload, outputs, posts, jobs, ids>>

(* The same wait for an attempt nobody works on costs nothing but time.    *)
OrphanGrowsStale ==
  /\ export # None /\ export.status = "processing" /\ ~export.stale
  /\ jobs[export.attempt].pc \in {"none", "done"}
  /\ export' = [export EXCEPT !.stale = TRUE]
  /\ UNCHANGED <<upload, outputs, posts, jobs, ids, faults>>

(* The process is killed: handlers and jobs are gone, objects remain, and  *)
(* the next process counts its attempts from the start.  Only the time in  *)
(* its attempt ids tells them apart: the model takes it that a restart     *)
(* lasts longer than a millisecond and that the clock is never set back.   *)
Crash ==
  /\ Fault
  /\ clock < MaxTime
  /\ clock' = clock + 1
  /\ counter' = 0
  /\ posts' = [p \in Posts |-> IdlePost]
  /\ jobs' = [a \in Attempts |->
                IF jobs[a].pc = "none" THEN jobs[a]
                ELSE [jobs[a] EXCEPT !.pc = "done"]]
  /\ UNCHANGED <<upload, export, outputs>>

Tick ==
  /\ clock < MaxTime
  /\ clock' = clock + 1
  /\ UNCHANGED <<upload, export, outputs, posts, jobs, counter, faults>>

UploadStep ==
  /\ Source!Open \/ Source!Store \/ Source!Publish
  /\ UNCHANGED worker

(* Another client's bytes replace those of a chunk: any job that validated *)
(* the manifest before may now read bytes of another checksum, or of the   *)
(* one it expects.  Only requests that found no object at all get that far,*)
(* so it happens finitely often and counts as a fault.                     *)
Overwrite ==
  LET touched == {a \in Attempts : jobs[a].pc \in {"chunks", "mismatch"}}
  IN /\ Fault
     /\ Source!Overwrite
     /\ \E differ \in SUBSET touched :
          jobs' = [a \in Attempts |->
                     IF a \in touched
                     THEN [jobs[a] EXCEPT !.pc = IF a \in differ THEN "mismatch"
                                                                 ELSE "chunks"]
                     ELSE jobs[a]]
     /\ UNCHANGED <<export, outputs, posts, ids>>

PostStep(p) == LoadForPost(p) \/ StoreAndSpawn(p)

JobStep(a) ==
  \/ CheckSource(a)
  \/ Rebuild(a)
  \/ Render(a)
  \/ PutOutput(a)
  \/ CheckCurrent(a)
  \/ WriteTerminal(a)

Next ==
  \/ UploadStep
  \/ Overwrite
  \/ Tick
  \/ \E p \in Posts, r \in Requests : ReceivePost(p, r)
  \/ \E p \in Posts : PostStep(p) \/ DropPost(p)
  \/ \E a \in Attempts : JobStep(a) \/ JobFails(a) \/ WriteFails(a)
  \/ GrowStale
  \/ OrphanGrowsStale
  \/ Crash

Spec == Init /\ [][Next]_vars

(* A user who asks for the export of the finished upload, again when it    *)
(* failed or got stuck.  Asking for one that is not exact, which fails each*)
(* time, counts among the strays.                                          *)
Ask(p) ==
  /\ phase = "final" /\ exact = Chunks
  /\ \E r \in OfUpload : MustStart(r) /\ ReceivePost(p, r)

(* Somebody asks at any time, perhaps with other identifiers; and another  *)
(* manifest is written over the final one.  Both count among the faults.   *)
StrayPost(p) ==
  /\ Fault
  /\ \E r \in Requests : Accept(p, r)
  /\ UNCHANGED <<upload, export, outputs, jobs, ids>>

Reopen ==
  /\ Fault
  /\ phase = "final"
  /\ Source!Publish
  /\ phase' # "final" \/ exact' # exact
  /\ UNCHANGED <<export, outputs, posts, jobs, ids>>

PatientNext ==
  \/ UploadStep /\ (phase = "final" => UNCHANGED <<phase, exact>>)
  \/ Reopen
  \/ Overwrite
  \/ Tick
  \/ \E p \in Posts : Ask(p) \/ StrayPost(p) \/ PostStep(p) \/ DropPost(p)
  \/ \E a \in Attempts : JobStep(a) \/ JobFails(a) \/ WriteFails(a)
  \/ GrowStale
  \/ OrphanGrowsStale
  \/ Crash

(* Spawned tasks and handlers run on while the process lives, time passes, *)
(* and this user does ask.  Faults and uploads are not owed.               *)
PatientSpec ==
  /\ Init
  /\ [][PatientNext]_vars
  /\ \A p \in Posts : WF_vars(Ask(p)) /\ WF_vars(PostStep(p))
  /\ \A a \in Attempts : WF_vars(JobStep(a))
  /\ WF_vars(OrphanGrowsStale)

-----------------------------------------------------------------------------
(* Properties                                                              *)

TypeOK ==
  /\ Source!TypeOK
  /\ export \in ExportManifest \cup {None}
  /\ outputs \in SUBSET Attempts
  /\ posts \in [Posts -> [pc : {"idle", "load", "store"},
                          request : Requests \cup {None},
                          next : ExportManifest \cup {None}]]
  /\ jobs \in [Attempts -> [pc : JobPlaces,
                            outcome : {"ready", "reported", "failed"},
                            request : Requests \cup {None}]]
  /\ clock \in 0 .. MaxTime
  /\ counter \in 0 .. MaxAttempts
  /\ faults \in 0 .. MaxFaults

(* An export that says "ready" can be downloaded: the MP4 of the attempt it*)
(* names is stored, made from an upload of which every chunk was stored.   *)
(* This holds whichever job wrote it, obsolete ones included.              *)
ReadyIsDownloadable ==
  export # None /\ export.status = "ready" =>
    /\ export.attempt \in outputs
    /\ export.request \in OfUpload
    /\ Chunks \subseteq stored

(* A validated source never lacks a chunk object, although the upload may  *)
(* go on changing under the job.                                           *)
ValidatedSourceIsStored ==
  \A a \in Attempts :
    jobs[a].pc \in {"chunks", "mismatch", "render", "put"} =>
      Chunks \subseteq stored

(* With finitely many faults, an upload that is finished for good and exact*)
(* and whose export nobody started with other identifiers, is exported in  *)
(* the end and stays so: neither a crash between storing an attempt and    *)
(* working on it, nor duplicated or obsolete jobs, leave it unexportable.  *)
(* One that is final but not exact is refused at every attempt: its chunk  *)
(* has two byte counts (service.rs:565) or another checksum than its object*)
(* (service.rs:416).                                                       *)
UploadedIsExported ==
  <>[](/\ phase = "final"
       /\ exact = Chunks
       /\ export # None => export.request \in OfUpload) =>
    <>[](export # None /\ export.status = "ready")

(* The worker implements ExportPromise, which the export panel rests on:   *)
(* whatever crashes, is dropped or obsolete, it writes only of requests it *)
(* still works on, and ready only of one with a file.  What it works on are*)
(* its POSTs and jobs; a file is made for the request of the job that put  *)
(* it.                                                                     *)
Asked ==
  {posts[p].request : p \in {p \in Posts : posts[p].pc # "idle"}}
    \cup {jobs[a].request : a \in {a \in Attempts : jobs[a].pc \notin {"none", "done"}}}

Made == {jobs[a].request : a \in outputs}

Promise == INSTANCE ExportPromise
             WITH status  <- IF export = None THEN "none" ELSE export.status,
                  request <- IF export = None THEN None ELSE export.request,
                  asked   <- Asked,
                  made    <- Made

ImplementsPromise == Promise!Spec
=============================================================================

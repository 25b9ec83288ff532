----------------------------- MODULE ExportPanel -----------------------------
(***************************************************************************)
(* The processing and export panel of the browser                          *)
(* (components/ProcessingExportPanel.tsx) with its client                  *)
(* (export/recordingExportApiClient.ts) and the choice of the recording to *)
(* export (export/recordingExportSelection.ts).                            *)
(*                                                                         *)
(* The panel reads the upload states of IndexedDB into a copy of its own:  *)
(* the readiness panel next to it, where the uploads run, has another.     *)
(* The copy is read again when the preview around both panels renders.     *)
(* The latest uploaded recording of the copy is the candidate; a change of *)
(* candidate starts a load of its export's status.  Loads, refreshes and   *)
(* starts are requests to the export worker, and the panel takes their     *)
(* answers as they come, whatever the candidate is by then.  Messages are  *)
(* left out, the panel's errors among them.                                *)
(*                                                                         *)
(* There is one export per recording, of an identifier made from the       *)
(* recording's: the recording stands for it.  Of the worker only what it   *)
(* promises of each export is kept (ExportPromise, which ExportWorker is   *)
(* shown to implement): its status, the upload it is of, the uploads the   *)
(* worker was asked for and those it made a file of.  An upload is known   *)
(* by its turn.                                                            *)
(***************************************************************************)
EXTENDS Integers, FiniteSets

CONSTANTS
  Recordings,     \* recordings of the browser
  None,           \* no recording, no manifest
  MaxUploads,     \* uploads that complete
  MaxPresses,     \* presses of Start
  MaxFaults       \* requests and attempts that fail, and writes that come late

ASSUME ExportPanelAssumption ==
  /\ IsFiniteSet(Recordings)
  /\ None \notin Recordings
  /\ MaxUploads \in Nat
  /\ MaxPresses \in Nat
  /\ MaxFaults \in Nat

VARIABLES
  uploads,      \* when each recording's upload completed, 0 while it has not
  copy,         \* what the panel has read of it
  worker,       \* what the worker has of each export
  readiness,    \* readinessState and what it says of the worker
  panel,        \* what the panel shows
  loads,        \* status loads of the candidate effect under way
  refresh,      \* the refresh under way
  start,        \* the start under way
  ghost         \* bounded counts, and what the properties remember

vars == <<uploads, copy, worker, readiness, panel, loads, refresh, start, ghost>>

Statuses == {"processing", "ready", "failed"}

\* A request: what it is for, and its answer once there is one: a status,
\* "none" for export_not_found, or "error".
Request(r) == [rec |-> r, answer |-> "asked"]
Answered(q, a) == [q EXCEPT !.answer = a]
NoRequest == Request(None)
NoStart == [rec |-> None, upload |-> 0, answer |-> "asked", at |-> "idle"]

Manifest(r, s) == [rec |-> r, status |-> s]
NoManifest == Manifest(None, "none")
NoExport == [status |-> "none", of |-> 0, asked |-> {}, made |-> {}]

Init ==
  /\ uploads = [r \in Recordings |-> 0]
  /\ copy = uploads
  /\ worker = [r \in Recordings |-> NoExport]
  /\ readiness = "loading"
  /\ panel = [candidate |-> None, manifest |-> NoManifest, active |-> None,
              turn |-> 0]
  /\ loads = {}
  /\ refresh = NoRequest
  /\ start = NoStart
  /\ ghost = [uploads |-> 0, presses |-> 0, faults |-> 0, crossed |-> FALSE,
              late |-> {}]

Refreshing == refresh.rec # None
Submitting == start.at # "idle"

Fault(g) == g.faults < MaxFaults /\ ghost' = [g EXCEPT !.faults = @ + 1]

-----------------------------------------------------------------------------
(* The candidate                                                           *)

\* The recording whose upload completed last, of those uploaded.
selectLatestExportCandidate(u) ==
  IF \A r \in Recordings : u[r] = 0 THEN None
  ELSE CHOOSE r \in Recordings : u[r] > 0 /\ \A q \in Recordings : u[q] <= u[r]

\* The readiness panel completes an upload, for the first time or anew.
UploadCompletes(r) ==
  /\ ghost.uploads < MaxUploads
  /\ ghost' = [ghost EXCEPT !.uploads = @ + 1]
  /\ uploads' = [uploads EXCEPT ![r] = ghost.uploads + 1]
  /\ UNCHANGED <<copy, worker, readiness, panel, loads, refresh, start>>

\* An upload is started over: the recording is not an uploaded one for now.
UploadRestarts(r) ==
  /\ uploads[r] # 0
  /\ ghost.uploads < MaxUploads
  /\ uploads' = [uploads EXCEPT ![r] = 0]
  /\ UNCHANGED <<copy, worker, readiness, panel, loads, refresh, start, ghost>>

\* The effect on the candidate: nothing to show without one; else the status
\* of its export is loaded, and the manifest that was shown stays until then.
candidateChanged(c) ==
  LET turn == panel.turn + 1
  IN IF c = None
     THEN /\ panel' = [candidate |-> None, manifest |-> NoManifest, active |-> None,
                       turn |-> turn]
          /\ UNCHANGED loads
     ELSE /\ panel' = [panel EXCEPT !.candidate = c, !.active = c, !.turn = turn]
          /\ loads' = loads \cup {[rec |-> c, answer |-> "asked", turn |-> turn]}

\* The preview renders, which reads the upload states again.  A change of
\* candidate while a request is out is remembered until the next change.
Render ==
  /\ copy # uploads
  /\ copy' = uploads
  /\ LET c == selectLatestExportCandidate(uploads)
     IN IF c = panel.candidate
        THEN UNCHANGED <<panel, loads, ghost>>
        ELSE /\ candidateChanged(c)
             /\ ghost' = [ghost EXCEPT !.crossed = Refreshing \/ Submitting]
  /\ UNCHANGED <<uploads, worker, readiness, refresh, start>>

-----------------------------------------------------------------------------
(* The worker                                                              *)

\* Each request is answered by the worker or fails.
ServeLoad(l) ==
  /\ l.answer = "asked"
  /\ \/ loads' = (loads \ {l}) \cup {Answered(l, worker[l.rec].status)} /\ UNCHANGED ghost
     \/ loads' = (loads \ {l}) \cup {Answered(l, "error")} /\ Fault(ghost)
  /\ UNCHANGED <<uploads, copy, worker, readiness, panel, refresh, start>>

ServeRefresh ==
  /\ Refreshing
  /\ refresh.answer = "asked"
  /\ \/ refresh' = Answered(refresh, worker[refresh.rec].status) /\ UNCHANGED ghost
     \/ refresh' = Answered(refresh, "error") /\ Fault(ghost)
  /\ UNCHANGED <<uploads, copy, worker, readiness, panel, loads, start>>

\* Mutant of Created: a new export does not say which upload it is of.
CreatedAnonymous(e) ==
  IF e.status \in {"none", "failed"} THEN [e EXCEPT !.status = "processing"] ELSE e

\* A new export, and one that had failed, is processed; any other answers
\* what it is.
Created(e) ==
  IF e.status \in {"none", "failed"}
  THEN [e EXCEPT !.status = "processing", !.of = start.upload] ELSE e

\* createExport: an export of another upload of the recording refuses it; the
\* request, or its answer on the way back, may be lost.
ServeCreate ==
  LET e == worker[start.rec]
      done == [worker EXCEPT ![start.rec] = Created(e)]
  IN /\ start.at = "create"
     /\ start.answer = "asked"
     /\ IF e.of \in {0, start.upload}
        THEN \/ /\ worker' = done
                /\ start' = Answered(start, Created(e).status)
                /\ UNCHANGED ghost
             \/ /\ worker' \in {worker, done}
                /\ start' = Answered(start, "error")
                /\ Fault(ghost)
        ELSE start' = Answered(start, "error") /\ UNCHANGED <<worker, ghost>>
     /\ UNCHANGED <<uploads, copy, readiness, panel, loads, refresh>>

ServeLook ==
  /\ start.at = "look"
  /\ start.answer = "asked"
  /\ \/ start' = Answered(start, worker[start.rec].status) /\ UNCHANGED ghost
     \/ start' = Answered(start, "error") /\ Fault(ghost)
  /\ UNCHANGED <<uploads, copy, worker, readiness, panel, loads, refresh>>

\* What is left of an export when something is written of it.
Written(r, u, s) ==
  [worker EXCEPT ![r].status = s, ![r].of = u,
                 ![r].made = IF s = "ready" THEN @ \cup {u} ELSE @]

JobEnds(r) ==
  /\ worker[r].status = "processing"
  /\ \/ worker' = Written(r, worker[r].of, "ready") /\ UNCHANGED ghost
     \/ worker' = Written(r, worker[r].of, "failed") /\ Fault(ghost)
  /\ UNCHANGED <<uploads, copy, readiness, panel, loads, refresh, start>>

\* A POST that had loaded the manifest, or a job that had compared its
\* attempt, before the export became what it is, writes it only now.
LateWrite(r) ==
  /\ ghost.faults < MaxFaults
  /\ ghost' = [ghost EXCEPT !.faults = @ + 1, !.late = @ \cup {r}]
  /\ \E u \in worker[r].asked, s \in Statuses : worker' = Written(r, u, s)
  /\ UNCHANGED <<uploads, copy, readiness, panel, loads, refresh, start>>

-----------------------------------------------------------------------------
(* The panel                                                               *)

\* getReadyz is asked once, when the panel appears.  It failed, or the worker
\* is degraded: Start stays disabled.
ReadinessAnswered ==
  /\ readiness = "loading"
  /\ readiness' \in {"ready", "unavailable"}
  /\ UNCHANGED <<uploads, copy, worker, panel, loads, refresh, start, ghost>>

\* A status read from the worker is shown and becomes the active export.
Shown(r, s) ==
  [panel EXCEPT !.manifest = Manifest(r, s), !.active = r]

\* Mutant of LoadDone: the answer is taken whatever the candidate is by now.
LoadDoneLate(l) ==
  /\ l.answer # "asked"
  /\ loads' = loads \ {l}
  /\ panel' = CASE l.answer \in Statuses -> Shown(l.rec, l.answer)
                [] OTHER -> [panel EXCEPT !.manifest = NoManifest]
  /\ UNCHANGED <<uploads, copy, worker, readiness, refresh, start, ghost>>

\* The answer to the load of an earlier candidate is dropped.
LoadDone(l) ==
  /\ l.answer # "asked"
  /\ loads' = loads \ {l}
  /\ panel' = CASE l.turn # panel.turn -> panel
                [] l.turn = panel.turn /\ l.answer \in Statuses -> Shown(l.rec, l.answer)
                [] OTHER -> [panel EXCEPT !.manifest = NoManifest]
  /\ UNCHANGED <<uploads, copy, worker, readiness, refresh, start, ghost>>

handleRefreshExportStatus ==
  LET r == IF panel.active = None THEN panel.candidate ELSE panel.active
  IN /\ ~Refreshing
     /\ refresh' = IF r = None THEN NoRequest ELSE Request(r)
     /\ panel' = [panel EXCEPT !.manifest = IF r = None THEN NoManifest ELSE @]
     /\ UNCHANGED <<uploads, copy, worker, readiness, loads, start, ghost>>

\* Mutant of RefreshDone: a refresh that failed is never over.
RefreshDoneIfAnswered ==
  /\ Refreshing
  /\ refresh.answer # "asked"
  /\ refresh' = IF refresh.answer = "error" THEN refresh ELSE NoRequest
  /\ panel' = IF refresh.answer \in Statuses
              THEN Shown(refresh.rec, refresh.answer) ELSE panel
  /\ UNCHANGED <<uploads, copy, worker, readiness, loads, start, ghost>>

\* An export that is not found, or an error, leaves what was shown.
RefreshDone ==
  /\ Refreshing
  /\ refresh.answer # "asked"
  /\ refresh' = NoRequest
  /\ panel' = IF refresh.answer \in Statuses
              THEN Shown(refresh.rec, refresh.answer) ELSE panel
  /\ UNCHANGED <<uploads, copy, worker, readiness, loads, start, ghost>>

startDisabled ==
  \/ panel.candidate = None
  \/ Submitting
  \/ panel.manifest.status = "ready"
  \/ readiness # "ready"

\* From here on the worker may have the request, and work on it after the
\* panel has given it up.
handleStartExport ==
  /\ ~startDisabled
  /\ ghost.presses < MaxPresses
  /\ ghost' = [ghost EXCEPT !.presses = @ + 1]
  /\ start' = [rec |-> panel.candidate, upload |-> copy[panel.candidate],
               answer |-> "asked", at |-> "create"]
  /\ worker' = [worker EXCEPT ![panel.candidate].asked =
                               @ \cup {copy[panel.candidate]}]
  /\ UNCHANGED <<uploads, copy, readiness, panel, loads, refresh>>

\* A start that failed may have been heard by the worker: its export is
\* looked for.
CreateDone ==
  /\ start.at = "create"
  /\ start.answer # "asked"
  /\ \/ /\ start.answer # "error"
        /\ panel' = Shown(start.rec, start.answer)
        /\ start' = NoStart
     \/ /\ start.answer = "error"
        /\ panel' = [panel EXCEPT !.active = start.rec]
        /\ start' = [start EXCEPT !.answer = "asked", !.at = "look"]
  /\ UNCHANGED <<uploads, copy, worker, readiness, loads, refresh, ghost>>

LookDone ==
  /\ start.at = "look"
  /\ start.answer # "asked"
  /\ start' = NoStart
  /\ panel' = IF start.answer \in Statuses
              THEN [panel EXCEPT !.manifest = Manifest(start.rec, start.answer)]
              ELSE panel
  /\ UNCHANGED <<uploads, copy, worker, readiness, loads, refresh, ghost>>

\* A press of Download opens the file in the browser and changes nothing here.
downloadDisabled == panel.manifest.status # "ready" \/ panel.active = None

-----------------------------------------------------------------------------
(* The system                                                              *)

Answer ==
  \/ \E l \in loads : ServeLoad(l) \/ LoadDone(l)
  \/ ServeRefresh \/ RefreshDone
  \/ ServeCreate \/ CreateDone \/ ServeLook \/ LookDone
  \/ ReadinessAnswered

Next ==
  \/ Answer
  \/ \E r \in Recordings :
       UploadCompletes(r) \/ UploadRestarts(r) \/ JobEnds(r) \/ LateWrite(r)
  \/ Render
  \/ handleRefreshExportStatus \/ handleStartExport

\* Requests are answered or fail, each kind without waiting for the others.
Fairness ==
  /\ WF_vars(\E l \in loads : ServeLoad(l) \/ LoadDone(l))
  /\ WF_vars(ServeRefresh \/ RefreshDone)
  /\ WF_vars(ServeCreate \/ CreateDone \/ ServeLook \/ LookDone)
  /\ WF_vars(ReadinessAnswered)

\* The user asks again for the status while the panel does not show that the
\* export is ready.
Patience == WF_vars(panel.manifest.status # "ready" /\ handleRefreshExportStatus)

Spec == Init /\ [][Next]_vars /\ Fairness
PatientSpec == Spec /\ Patience

-----------------------------------------------------------------------------
(* Properties                                                              *)

TypeOK ==
  /\ uploads \in [Recordings -> 0..MaxUploads]
  /\ copy \in [Recordings -> 0..MaxUploads]
  /\ worker \in [Recordings ->
                  [status : {"none"} \cup Statuses, of : 0..MaxUploads,
                   asked : SUBSET (1..MaxUploads), made : SUBSET (1..MaxUploads)]]
  /\ \A r \in Recordings : worker[r].of = 0 <=> worker[r].status = "none"
  /\ readiness \in {"loading", "ready", "unavailable"}
  /\ panel.candidate \in Recordings \cup {None}
  /\ panel.active \in Recordings \cup {None}
  /\ \/ panel.manifest = NoManifest
     \/ panel.manifest.rec \in Recordings /\ panel.manifest.status \in Statuses
  /\ start.at = "idle" <=> start.rec = None

\* No request of the current candidate is under way.
Settled ==
  ~Refreshing /\ ~Submitting /\ \A l \in loads : l.turn # panel.turn

\* Once its requests have been answered the panel shows the candidate's
\* export, unless the candidate changed under a refresh or a start, whose
\* answer the panel then shows instead.  A file it offers was made, and is
\* still what the worker has unless a late write came over it.
SettledShowsTheCandidate ==
  Settled /\ ~ghost.crossed =>
    /\ panel.active = panel.candidate
    /\ panel.manifest.rec \in {None, panel.candidate}
    /\ ~downloadDisabled =>
         /\ worker[panel.active].made # {}
         /\ worker[panel.active].status = "ready" \/ panel.active \in ghost.late

\* An export of the candidate that is ready is shown as ready to a user who
\* refreshes, unless the candidate changes, or changed under a request, or a
\* late write takes it back.
ReadyIsSeen ==
  \A r \in Recordings :
    (worker[r].status = "ready" /\ panel.candidate = r)
      ~> \/ panel.manifest = Manifest(r, "ready")
         \/ panel.candidate # r \/ ghost.crossed \/ worker[r].status # "ready"

\* A recording whose upload completed is offered for export (web-studio
\* README: a dashboard for the latest uploaded local recording).
UploadedIsOffered ==
  \A r \in Recordings :
    selectLatestExportCandidate(uploads) = r
      ~> (panel.candidate = r \/ selectLatestExportCandidate(uploads) # r)

\* The export of each recording is what ExportPromise allows.
Promise(r) == INSTANCE ExportPromise
                WITH Requests <- 1..MaxUploads, None <- 0,
                     status <- worker[r].status, request <- worker[r].of,
                     asked <- worker[r].asked, made <- worker[r].made

WorkerIsAsPromised == \A r \in Recordings : Promise(r)!Spec
=============================================================================

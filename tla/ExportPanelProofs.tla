-------------------------- MODULE ExportPanelProofs --------------------------
(***************************************************************************)
(* Proofs about ExportPanel for any set of recordings and any number of    *)
(* uploads, presses and faults.  The panel takes answers as they come, so  *)
(* what it shows is right only because of what may be under way: the load  *)
(* of the turn is of the candidate, and so are the refresh and the start   *)
(* unless the candidate changed under them; and an answer that says ready  *)
(* ages only by a late write: a file that was made stays.                  *)
(***************************************************************************)
EXTENDS ExportPanel, FiniteSetTheorems, WellFoundedInduction, TLAPS

-----------------------------------------------------------------------------
(* The candidate                                                           *)

(* A finite set of recordings has one that completed last.  The sets of    *)
(* later ones are finite, and the smallest of them is empty.               *)
LEMMA LastExists ==
  ASSUME NEW S, IsFiniteSet(S), S # {}, NEW u \in [S -> Nat]
  PROVE  \E r \in S : \A q \in S : u[q] <= u[r]
<1> DEFINE Later(r) == {q \in S : u[q] > u[r]}
           T == {Later(r) : r \in S}
           R == StrictSubsetOrdering(S)
           F == FiniteSubsetsOf(S)
<1>1. T \subseteq F
  BY FS_Subset DEF FiniteSubsetsOf
<1>2. T # {}
  <2>1. PICK r \in S : TRUE
    OBVIOUS
  <2>2. Later(r) \in T
    OBVIOUS
  <2> QED BY <2>2
<1>3. IsWellFoundedOn(R, F)
  BY FS_StrictSubsetOrderingWellFounded
<1>4. \E A \in T : \A B \in T : ~ (<<B, A>> \in R)
  <2> HIDE DEF T, R, F
  <2> QED BY <1>1, <1>2, <1>3, WFMin
<1>5. PICK r \in S : \A q \in S : ~ (<<Later(q), Later(r)>> \in R)
  BY <1>4
<1>6. ASSUME NEW q \in S, u[q] > u[r]
      PROVE  FALSE
  <2>1. Later(q) \subseteq Later(r)
    BY <1>6
  <2>2. q \in Later(r) /\ q \notin Later(q)
    BY <1>6
  <2>3. <<Later(q), Later(r)>> \in R
    BY <2>1, <2>2 DEF StrictSubsetOrdering
  <2> QED BY <1>5, <2>3
<1>7. \A q \in S : u[q] <= u[r]
  BY <1>6
<1> QED BY <1>7

Turns == [Recordings -> 0..MaxUploads]

(* selectLatestExportCandidate finds an uploaded recording when there is   *)
(* one, and the one that completed last.                                   *)
LEMMA CandidateIsLast ==
  ASSUME NEW u \in Turns
  PROVE  LET c == selectLatestExportCandidate(u)
         IN /\ c \in Recordings \cup {None}
            /\ c = None => \A r \in Recordings : u[r] = 0
            /\ c # None => u[c] > 0 /\ \A r \in Recordings : u[r] <= u[c]
<1> DEFINE c == selectLatestExportCandidate(u)
<1>1. CASE \A r \in Recordings : u[r] = 0
  BY <1>1, ExportPanelAssumption DEF selectLatestExportCandidate
<1>2. CASE ~ \A r \in Recordings : u[r] = 0
  <2>1. u \in [Recordings -> Nat] /\ Recordings # {}
    BY <1>2, ExportPanelAssumption DEF Turns
  <2>2. PICK r \in Recordings : \A q \in Recordings : u[q] <= u[r]
    BY <2>1, LastExists, ExportPanelAssumption
  <2>3. u[r] > 0
    BY <1>2, <2>1, <2>2
  <2>4. c = CHOOSE p \in Recordings : u[p] > 0 /\ \A q \in Recordings : u[q] <= u[p]
    BY <1>2 DEF selectLatestExportCandidate
  <2>5. c \in Recordings /\ u[c] > 0 /\ \A q \in Recordings : u[q] <= u[c]
    BY <2>2, <2>3, <2>4
  <2> QED BY <2>5, ExportPanelAssumption
<1> QED BY <1>1, <1>2

-----------------------------------------------------------------------------
(* The invariant                                                           *)

Answers == {"asked", "none", "error"} \cup Statuses

Export == [status : {"none"} \cup Statuses, of : 0..MaxUploads,
           asked : SUBSET (1..MaxUploads), made : SUBSET (1..MaxUploads)]

SomeRecording == Recordings \cup {None}

Load == [rec : Recordings, answer : Answers, turn : Nat]

Panel == [candidate : SomeRecording,
          manifest : {NoManifest} \cup [rec : Recordings, status : Statuses],
          active : SomeRecording, turn : Nat]

Start == [rec : SomeRecording, upload : 0..MaxUploads, answer : Answers,
          at : {"idle", "create", "look"}]

Ghost == [uploads : 0..MaxUploads, presses : 0..MaxPresses, faults : 0..MaxFaults,
          crossed : BOOLEAN, late : SUBSET Recordings]

Types ==
  /\ uploads \in Turns
  /\ copy \in Turns
  /\ worker \in [Recordings -> Export]
  /\ readiness \in {"loading", "ready", "unavailable"}
  /\ panel \in Panel
  /\ loads \in SUBSET Load
  /\ refresh \in [rec : SomeRecording, answer : Answers]
  /\ start \in Start
  /\ ghost \in Ghost

(* A start is of a recording and its upload, and is answered with a status *)
(* of the export it made.                                                  *)
StartOK(s) ==
  /\ s.at = "idle" <=> s.rec = None
  /\ s.at # "idle" => s.upload # 0
  /\ s.at = "create" => s.answer # "none"

(* What says ready is true of the worker, or was before a late write.      *)
IsReady(w, late, r) ==
  /\ r \in Recordings
  /\ w[r].made # {}
  /\ w[r].status = "ready" \/ r \in late

ReadyIsTrue(w, late) ==
  /\ panel.manifest.status = "ready" => IsReady(w, late, panel.manifest.rec)
  /\ \A l \in loads : l.answer = "ready" => IsReady(w, late, l.rec)
  /\ Refreshing /\ refresh.answer = "ready" => IsReady(w, late, refresh.rec)
  /\ Submitting /\ start.answer = "ready" => IsReady(w, late, start.rec)

(* The loads know their turn, and the one of this turn its candidate.      *)
LoadsOK ==
  \A l \in loads :
    /\ l.turn <= panel.turn
    /\ l.turn = panel.turn => l.rec = panel.candidate

Loaded == \A l \in loads : l.turn # panel.turn

(* Unless the candidate changed under a refresh or a start, everything but *)
(* the manifest of before the change is of the candidate.                  *)
OfTheCandidate ==
  ~ghost.crossed =>
    /\ panel.active = panel.candidate
    /\ Refreshing => refresh.rec = panel.candidate
    /\ Submitting => start.rec = panel.candidate
    /\ Loaded => panel.manifest.rec \in {None, panel.candidate}

PanelInv ==
  /\ Types
  /\ StartOK(start)
  /\ panel.candidate = selectLatestExportCandidate(copy)
  /\ ReadyIsTrue(worker, ghost.late)
  /\ LoadsOK
  /\ OfTheCandidate

(* An export is of an upload the worker was asked for, and says ready only *)
(* of one it made a file of; what a start asks for is one of them.         *)
WorkerOK ==
  /\ \A r \in Recordings :
       /\ worker[r].of = 0 <=> worker[r].status = "none"
       /\ worker[r].of # 0 => worker[r].of \in worker[r].asked
       /\ worker[r].status = "ready" => worker[r].of \in worker[r].made
  /\ Submitting => start.upload \in worker[start.rec].asked

IInv == PanelInv /\ WorkerOK

-----------------------------------------------------------------------------
(* Lemmas                                                                  *)

(* What a request reads of the worker.                                     *)
LEMMA StatusIsAnswer ==
  ASSUME Types, WorkerOK, NEW r \in Recordings
  PROVE  /\ worker[r].status \in Answers \ {"asked", "error"}
         /\ worker[r].status = "ready" => IsReady(worker, ghost.late, r)
BY DEF Types, Export, Answers, Statuses, WorkerOK, IsReady

LEMMA FaultKeeps ==
  ASSUME Types, Fault(ghost) \/ UNCHANGED ghost
  PROVE  /\ ghost'.crossed = ghost.crossed
         /\ ghost'.late = ghost.late
         /\ ghost' \in Ghost
BY ExportPanelAssumption DEF Types, Fault, Ghost

(* A step that leaves the candidate and its requests alone.                *)
LEMMA UploadKeeps ==
  ASSUME PanelInv, NEW r \in Recordings, UploadCompletes(r) \/ UploadRestarts(r)
  PROVE  PanelInv'
<1>1. Types'
  BY ExportPanelAssumption DEF UploadCompletes, UploadRestarts, PanelInv, Types, Turns, Ghost
<1>2. ghost'.crossed = ghost.crossed /\ ghost'.late = ghost.late
  BY DEF UploadCompletes, UploadRestarts, PanelInv, Types, Ghost
<1>3. ReadyIsTrue(worker, ghost.late)'
  BY <1>2 DEF UploadCompletes, UploadRestarts, PanelInv, ReadyIsTrue, Refreshing, Submitting
<1> QED BY <1>1, <1>2, <1>3 DEF UploadCompletes, UploadRestarts, PanelInv, ReadyIsTrue, LoadsOK,
       OfTheCandidate, Loaded, Refreshing, Submitting

(* The effect on the candidate drops what is of the last one, but for the  *)
(* manifest it shows until the load of its turn is answered.               *)
LEMMA RenderKeeps ==
  ASSUME PanelInv, Render
  PROVE  PanelInv'
<1> DEFINE c == selectLatestExportCandidate(uploads)
<1>1. c \in SomeRecording
  BY CandidateIsLast DEF PanelInv, Types, SomeRecording
<1>2. CASE c = panel.candidate
  BY <1>2 DEF Render, PanelInv, Types, ReadyIsTrue, LoadsOK, OfTheCandidate, Loaded,
     Refreshing, Submitting
<1>3. CASE c # panel.candidate
  <2>1. /\ candidateChanged(c)
        /\ ghost' = [ghost EXCEPT !.crossed = Refreshing \/ Submitting]
        /\ UNCHANGED <<uploads, worker, readiness, refresh, start>>
        /\ copy' = uploads
    BY <1>3 DEF Render
  <2>2. (~ghost'.crossed => ~Refreshing /\ ~Submitting) /\ panel.turn + 1 \in Nat
        /\ ghost' \in Ghost /\ ghost'.late = ghost.late
    <3> DEFINE x == Refreshing \/ Submitting
    <3>1. x \in BOOLEAN /\ (x = FALSE => ~Refreshing /\ ~Submitting)
      OBVIOUS
    <3>2. ghost' = [ghost EXCEPT !.crossed = x]
      BY <2>1
    <3> HIDE DEF x
    <3> QED BY <3>1, <3>2 DEF PanelInv, Types, Panel, Ghost
  <2>3. CASE c = None
    <3>1. /\ panel'.candidate = c /\ panel'.active = c /\ panel'.turn = panel.turn + 1
          /\ panel'.manifest = NoManifest /\ loads' = loads
      BY <2>1, <2>3 DEF candidateChanged
    <3>2. panel' \in Panel
      BY <2>1, <2>2, <2>3 DEF candidateChanged, Panel, SomeRecording
    <3>3. Types'
      BY <2>1, <2>2, <3>1, <3>2 DEF PanelInv, Types
    <3>4. LoadsOK'
      BY <3>1 DEF PanelInv, Types, LoadsOK, Load, Panel
    <3>5. ReadyIsTrue(worker, ghost.late)'
      BY <2>1, <2>2, <3>1 DEF PanelInv, ReadyIsTrue, Refreshing, Submitting, NoManifest, Manifest
    <3>6. OfTheCandidate'
      BY <2>1, <2>2, <3>1 DEF OfTheCandidate, Refreshing, Submitting, NoManifest, Manifest
    <3> QED BY <2>1, <3>1, <3>3, <3>4, <3>5, <3>6 DEF PanelInv
  <2>4. CASE c # None
    <3> DEFINE l == [rec |-> c, answer |-> "asked", turn |-> panel.turn + 1]
    <3>1. /\ panel' = [panel EXCEPT !.candidate = c, !.active = c, !.turn = panel.turn + 1]
          /\ loads' = loads \cup {l}
      BY <2>1, <2>4 DEF candidateChanged
    <3>2. /\ panel'.candidate = c /\ panel'.active = c /\ panel'.turn = panel.turn + 1
          /\ panel'.manifest = panel.manifest /\ panel' \in Panel
      BY <1>1, <2>2, <3>1 DEF PanelInv, Types, Panel
    <3>3. l \in Load
      BY <1>1, <2>2, <2>4 DEF Load, SomeRecording, Answers
    <3>4. Types'
      BY <2>1, <2>2, <3>1, <3>2, <3>3 DEF PanelInv, Types
    <3>5. LoadsOK'
      <4>1. l.turn = panel.turn + 1 /\ l.rec = c
        OBVIOUS
      <4>2. \A m \in loads : m.turn < panel.turn + 1
        BY DEF PanelInv, Types, LoadsOK, Load, Panel
      <4>3. \A m \in loads : m.turn \in Nat
        BY DEF PanelInv, Types, Load
      <4> HIDE DEF l
      <4> QED BY <2>2, <3>1, <3>2, <4>1, <4>2, <4>3 DEF LoadsOK
    <3>6. ~Loaded'
      <4>1. l.turn = panel'.turn /\ l \in loads'
        BY <3>1, <3>2
      <4> QED BY <4>1 DEF Loaded
    <3>7. ReadyIsTrue(worker, ghost.late)'
      <4>1. l.answer # "ready"
        OBVIOUS
      <4> HIDE DEF l
      <4> QED BY <2>1, <2>2, <3>1, <3>2, <4>1 DEF PanelInv, ReadyIsTrue, Refreshing, Submitting
    <3>8. OfTheCandidate'
      BY <2>1, <2>2, <3>2, <3>6 DEF OfTheCandidate, Refreshing, Submitting
    <3> QED BY <2>1, <3>2, <3>4, <3>5, <3>7, <3>8 DEF PanelInv
  <2> QED BY <2>3, <2>4
<1> QED BY <1>2, <1>3

(* A load is answered.                                                     *)
LEMMA ServeLoadKeeps ==
  ASSUME PanelInv, WorkerOK, NEW l \in loads, ServeLoad(l)
  PROVE  PanelInv'
<1>1. /\ l \in Load /\ worker[l.rec].status \in Answers
      /\ worker[l.rec].status = "ready" => IsReady(worker, ghost.late, l.rec)
  BY StatusIsAnswer DEF PanelInv, Types, Load
<1>2. PICK a \in {worker[l.rec].status, "error"} :
        loads' = (loads \ {l}) \cup {Answered(l, a)}
  BY DEF ServeLoad
<1> DEFINE m == Answered(l, a)
<1>3. /\ m \in Load /\ m.rec = l.rec /\ m.turn = l.turn
      /\ m.answer = "ready" => IsReady(worker, ghost.late, l.rec)
  BY <1>1, <1>2 DEF Answered, Load, Answers
<1>4. Types' /\ ghost'.crossed = ghost.crossed /\ ghost'.late = ghost.late
  BY <1>2, <1>3, FaultKeeps DEF ServeLoad, PanelInv, Types
<1>5. LoadsOK' /\ (Loaded' => Loaded)
  BY <1>2, <1>3 DEF ServeLoad, PanelInv, LoadsOK, Loaded
<1>6. ReadyIsTrue(worker, ghost.late)'
  BY <1>2, <1>3, <1>4 DEF ServeLoad, PanelInv, ReadyIsTrue, Refreshing, Submitting
<1> QED BY <1>4, <1>5, <1>6 DEF ServeLoad, PanelInv, OfTheCandidate, Refreshing, Submitting

LEMMA LoadDoneKeeps ==
  ASSUME PanelInv, NEW l \in loads, LoadDone(l)
  PROVE  PanelInv'
<1>1. l \in Load /\ l.rec \in Recordings
  BY DEF PanelInv, Types, Load
<1>2. CASE l.turn # panel.turn
  <2>1. panel' = panel /\ loads' = loads \ {l}
    BY <1>2 DEF LoadDone
  <2>2. Loaded' => Loaded
    BY <1>2, <2>1 DEF Loaded
  <2> QED BY <2>1, <2>2 DEF LoadDone, PanelInv, Types, ReadyIsTrue, LoadsOK, OfTheCandidate,
          Refreshing, Submitting
<1>3. CASE l.turn = panel.turn /\ l.answer \in Statuses
  <2>1. panel' = Shown(l.rec, l.answer) /\ loads' = loads \ {l}
    BY <1>3 DEF LoadDone
  <2>2. l.rec = panel.candidate
    BY <1>3 DEF PanelInv, LoadsOK
  <2>3. /\ panel'.candidate = panel.candidate /\ panel'.active = panel.candidate
        /\ panel'.turn = panel.turn
        /\ panel'.manifest = [rec |-> l.rec, status |-> l.answer]
        /\ panel' \in Panel
    BY <1>1, <1>3, <2>1, <2>2 DEF Shown, Manifest, PanelInv, Types, Panel, SomeRecording
  <2>4. ReadyIsTrue(worker, ghost.late)'
    BY <2>1, <2>3 DEF LoadDone, PanelInv, ReadyIsTrue, Refreshing, Submitting, IsReady
  <2>5. LoadsOK' /\ OfTheCandidate'
    BY <2>1, <2>2, <2>3 DEF LoadDone, PanelInv, LoadsOK, OfTheCandidate, Refreshing, Submitting
  <2> QED BY <2>1, <2>3, <2>4, <2>5 DEF LoadDone, PanelInv, Types
<1>4. CASE l.turn = panel.turn /\ l.answer \notin Statuses
  <2>1. panel' = [panel EXCEPT !.manifest = NoManifest] /\ loads' = loads \ {l}
    BY <1>4 DEF LoadDone
  <2>2. /\ panel'.candidate = panel.candidate /\ panel'.active = panel.active
        /\ panel'.turn = panel.turn /\ panel'.manifest = NoManifest
        /\ panel' \in Panel
    BY <2>1 DEF PanelInv, Types, Panel
  <2>3. ReadyIsTrue(worker, ghost.late)'
    BY <2>1, <2>2 DEF LoadDone, PanelInv, ReadyIsTrue, Refreshing, Submitting, NoManifest, Manifest
  <2>4. LoadsOK' /\ OfTheCandidate'
    BY <2>1, <2>2 DEF LoadDone, PanelInv, LoadsOK, OfTheCandidate, Refreshing, Submitting,
       NoManifest, Manifest
  <2> QED BY <2>1, <2>2, <2>3, <2>4 DEF LoadDone, PanelInv, Types
<1> QED BY <1>2, <1>3, <1>4

LEMMA ServeRefreshKeeps ==
  ASSUME PanelInv, WorkerOK, ServeRefresh
  PROVE  PanelInv'
<1>1. /\ refresh.rec \in Recordings /\ worker[refresh.rec].status \in Answers
      /\ worker[refresh.rec].status = "ready" => IsReady(worker, ghost.late, refresh.rec)
  BY StatusIsAnswer DEF ServeRefresh, Refreshing, PanelInv, Types, SomeRecording
<1>2. PICK a \in {worker[refresh.rec].status, "error"} : refresh' = Answered(refresh, a)
  BY DEF ServeRefresh
<1>3. /\ refresh' \in [rec : SomeRecording, answer : Answers]
      /\ refresh'.rec = refresh.rec
      /\ refresh'.answer = "ready" => IsReady(worker, ghost.late, refresh.rec)
  BY <1>1, <1>2 DEF Answered, Answers, PanelInv, Types
<1>4. Types' /\ ghost'.crossed = ghost.crossed /\ ghost'.late = ghost.late
  BY <1>3, FaultKeeps DEF ServeRefresh, PanelInv, Types
<1>5. ReadyIsTrue(worker, ghost.late)'
  BY <1>3, <1>4 DEF ServeRefresh, PanelInv, ReadyIsTrue, Refreshing, Submitting
<1> QED BY <1>3, <1>4, <1>5 DEF ServeRefresh, PanelInv, LoadsOK, OfTheCandidate, Loaded,
       Refreshing, Submitting

(* A status read from the worker, or the manifest kept, in the panel.      *)
LEMMA RefreshDoneKeeps ==
  ASSUME PanelInv, RefreshDone
  PROVE  PanelInv'
<1>1. refresh' = NoRequest /\ refresh.rec \in Recordings /\ ~Refreshing'
  BY DEF RefreshDone, Refreshing, NoRequest, Request, PanelInv, Types, SomeRecording
<1>2. NoRequest \in [rec : SomeRecording, answer : Answers]
  BY DEF NoRequest, Request, SomeRecording, Answers
<1>3. CASE panel' = panel
  BY <1>1, <1>2, <1>3 DEF RefreshDone, PanelInv, Types, ReadyIsTrue, LoadsOK, OfTheCandidate,
     Loaded, Submitting
<1>4. CASE refresh.answer \in Statuses /\ panel' = Shown(refresh.rec, refresh.answer)
  <2>1. /\ panel'.candidate = panel.candidate /\ panel'.active = refresh.rec
        /\ panel'.turn = panel.turn
        /\ panel'.manifest = [rec |-> refresh.rec, status |-> refresh.answer]
        /\ panel' \in Panel
    BY <1>1, <1>4 DEF Shown, Manifest, PanelInv, Types, Panel, SomeRecording
  <2>2. ReadyIsTrue(worker, ghost.late)'
    BY <1>1, <2>1 DEF RefreshDone, PanelInv, ReadyIsTrue, Refreshing, Submitting, IsReady
  <2>3. LoadsOK' /\ OfTheCandidate'
    BY <1>1, <2>1 DEF RefreshDone, PanelInv, LoadsOK, OfTheCandidate, Refreshing, Submitting
  <2> QED BY <1>1, <1>2, <2>1, <2>2, <2>3 DEF RefreshDone, PanelInv, Types
<1> QED BY <1>3, <1>4 DEF RefreshDone

LEMMA handleRefreshKeeps ==
  ASSUME PanelInv, handleRefreshExportStatus
  PROVE  PanelInv'
<1> DEFINE r == IF panel.active = None THEN panel.candidate ELSE panel.active
<1>1. r \in SomeRecording
  BY DEF PanelInv, Types, Panel
<1>2. CASE r = None
  <2>1. /\ refresh' = NoRequest
        /\ panel' = [panel EXCEPT !.manifest = NoManifest]
    BY <1>2 DEF handleRefreshExportStatus
  <2>2. /\ panel'.candidate = panel.candidate /\ panel'.active = panel.active
        /\ panel'.turn = panel.turn /\ panel'.manifest = NoManifest
        /\ panel' \in Panel
    BY <2>1 DEF PanelInv, Types, Panel
  <2>3. ~Refreshing' /\ NoRequest \in [rec : SomeRecording, answer : Answers]
    BY <2>1 DEF Refreshing, NoRequest, Request, SomeRecording, Answers
  <2>4. ReadyIsTrue(worker, ghost.late)'
    BY <2>2, <2>3 DEF handleRefreshExportStatus, PanelInv, ReadyIsTrue, Submitting, NoManifest, Manifest
  <2>5. LoadsOK' /\ OfTheCandidate'
    BY <2>2, <2>3 DEF handleRefreshExportStatus, PanelInv, LoadsOK, OfTheCandidate, Loaded,
       Submitting, NoManifest, Manifest
  <2> QED BY <2>1, <2>2, <2>3, <2>4, <2>5 DEF handleRefreshExportStatus, PanelInv, Types
<1>3. CASE r # None
  <2>1. refresh' = Request(r) /\ panel' = panel
    BY <1>3 DEF handleRefreshExportStatus, PanelInv, Types, Panel
  <2>2. /\ refresh' \in [rec : SomeRecording, answer : Answers]
        /\ refresh'.rec = r /\ refresh'.answer = "asked"
    BY <1>1, <2>1 DEF Request, Answers
  <2>3. ReadyIsTrue(worker, ghost.late)'
    BY <2>1, <2>2 DEF handleRefreshExportStatus, PanelInv, ReadyIsTrue, Refreshing, Submitting
  <2>4. OfTheCandidate'
    BY <1>3, <2>1, <2>2 DEF handleRefreshExportStatus, PanelInv, OfTheCandidate, Loaded,
       Refreshing, Submitting
  <2> QED BY <2>1, <2>2, <2>3, <2>4 DEF handleRefreshExportStatus, PanelInv, Types, LoadsOK
<1> QED BY <1>2, <1>3

(* The candidate is an uploaded recording, so a start knows its upload.    *)
LEMMA handleStartKeeps ==
  ASSUME PanelInv, WorkerOK, handleStartExport
  PROVE  PanelInv' /\ WorkerOK'
<1> DEFINE c == panel.candidate
<1>1. c \in Recordings /\ copy[c] \in 0..MaxUploads /\ copy[c] # 0
  BY CandidateIsLast DEF handleStartExport, startDisabled, PanelInv, Types, Turns, Panel,
     SomeRecording
<1>2. start' = [rec |-> c, upload |-> copy[c], answer |-> "asked", at |-> "create"]
  BY DEF handleStartExport
<1>3. start' \in Start /\ StartOK(start') /\ start'.rec = c /\ start'.answer = "asked"
  BY <1>1, <1>2, ExportPanelAssumption DEF Start, StartOK, SomeRecording, Answers
<1>4. /\ ghost' \in Ghost /\ ghost'.crossed = ghost.crossed /\ ghost'.late = ghost.late
  BY ExportPanelAssumption DEF handleStartExport, PanelInv, Types, Ghost
<1> DEFINE e == [worker[c] EXCEPT !.asked = @ \cup {copy[c]}]
<1>5. /\ worker' = [worker EXCEPT ![c] = e] /\ e \in Export
      /\ e.made = worker[c].made /\ e.status = worker[c].status /\ e.of = worker[c].of
      /\ e.asked = worker[c].asked \cup {copy[c]}
  BY <1>1, ExportPanelAssumption DEF handleStartExport, PanelInv, Types, Export
<1> HIDE DEF e
<1>6. Types'
  BY <1>3, <1>4, <1>5 DEF handleStartExport, PanelInv, Types
<1>7. /\ worker'[c] = e
      /\ \A q \in Recordings \ {c} : worker'[q] = worker[q]
  BY <1>1, <1>5 DEF PanelInv, Types
<1>8. \A q : IsReady(worker, ghost.late, q) => IsReady(worker', ghost'.late, q)
  BY <1>4, <1>5, <1>7 DEF IsReady
<1>9. ReadyIsTrue(worker', ghost'.late)
  BY <1>8 DEF PanelInv, ReadyIsTrue
<1>10. ReadyIsTrue(worker, ghost.late)'
  BY <1>3, <1>9 DEF handleStartExport, ReadyIsTrue, Refreshing
<1>11. PanelInv'
  BY <1>3, <1>4, <1>6, <1>10 DEF handleStartExport, PanelInv, LoadsOK, OfTheCandidate,
     Loaded, Refreshing
<1>12. WorkerOK'
  BY <1>2, <1>5, <1>7 DEF WorkerOK
<1> QED BY <1>11, <1>12

(* The worker's export changes and keeps what was made of it; a start may  *)
(* be answered at once.                                                    *)
LEMMA WorkerKeeps ==
  ASSUME PanelInv, NEW r \in Recordings, NEW e \in Export,
         worker' = [worker EXCEPT ![r] = e],
         worker[r].made \subseteq e.made,
         worker[r].status = "ready" => e.status = "ready" \/ r \in ghost'.late,
         ghost' \in Ghost, ghost'.crossed = ghost.crossed, ghost.late \subseteq ghost'.late,
         start' \in Start, StartOK(start'),
         start'.rec = start.rec, start'.at = start.at,
         start'.answer = "ready" =>
           start.answer = "ready" \/ IsReady(worker', ghost'.late, start.rec),
         UNCHANGED <<uploads, copy, readiness, panel, loads, refresh>>
  PROVE  PanelInv'
<1>1. Types'
  BY DEF PanelInv, Types
<1>2. /\ worker'[r] = e
      /\ \A q \in Recordings \ {r} : worker'[q] = worker[q]
  BY DEF PanelInv, Types
<1>3. \A q : IsReady(worker, ghost.late, q) => IsReady(worker', ghost'.late, q)
  BY <1>2 DEF IsReady
<1>4. ReadyIsTrue(worker', ghost'.late)
  BY <1>3 DEF PanelInv, ReadyIsTrue
<1>5. ReadyIsTrue(worker, ghost.late)'
  BY <1>4 DEF ReadyIsTrue, Refreshing, Submitting
<1> QED BY <1>1, <1>5 DEF PanelInv, LoadsOK, OfTheCandidate, Loaded, Refreshing, Submitting

(* What is written of an export replaces its status and its upload, and    *)
(* adds to what was made.                                                  *)
LEMMA WrittenIs ==
  ASSUME Types, NEW r \in Recordings, NEW u \in 1..MaxUploads, NEW s \in Statuses
  PROVE  \E e \in Export :
           /\ Written(r, u, s) = [worker EXCEPT ![r] = e]
           /\ e.status = s /\ e.of = u /\ e.asked = worker[r].asked
           /\ e.made = IF s = "ready" THEN worker[r].made \cup {u} ELSE worker[r].made
<1> DEFINE m == IF s = "ready" THEN worker[r].made \cup {u} ELSE worker[r].made
           e == [worker[r] EXCEPT !.status = s, !.of = u, !.made = m]
<1>1. worker[r] \in Export /\ u \in 0..MaxUploads
  BY ExportPanelAssumption DEF Types
<1>2. m \in SUBSET (1..MaxUploads)
  BY <1>1 DEF Export
<1>3. /\ e \in Export
      /\ e.status = s /\ e.of = u /\ e.asked = worker[r].asked /\ e.made = m
  <2> HIDE DEF m
  <2> QED BY <1>1, <1>2 DEF Export
<1>4. Written(r, u, s) = [worker EXCEPT ![r] = e]
  BY <1>1 DEF Written, Types, Export
<1> QED BY <1>3, <1>4

(* A job ends, or something late is written.                               *)
LEMMA WrittenKeeps ==
  ASSUME PanelInv, WorkerOK, NEW r \in Recordings, NEW u \in worker[r].asked,
         NEW s \in Statuses, worker' = Written(r, u, s),
         worker[r].status = "ready" => r \in ghost'.late,
         ghost' \in Ghost, ghost'.crossed = ghost.crossed, ghost.late \subseteq ghost'.late,
         UNCHANGED <<uploads, copy, readiness, panel, loads, refresh, start>>
  PROVE  PanelInv' /\ WorkerOK'
<1>1. u \in 1..MaxUploads
  BY DEF PanelInv, Types, Export
<1>2. PICK e \in Export :
        /\ worker' = [worker EXCEPT ![r] = e]
        /\ e.status = s /\ e.of = u /\ e.asked = worker[r].asked
        /\ e.made = IF s = "ready" THEN worker[r].made \cup {u} ELSE worker[r].made
  BY <1>1, WrittenIs DEF PanelInv
<1>3. PanelInv'
  BY <1>2, WorkerKeeps DEF PanelInv, Types
<1>4. /\ worker'[r] = e
      /\ \A q \in Recordings \ {r} : worker'[q] = worker[q]
  BY <1>2 DEF PanelInv, Types
<1>5. \A q \in Recordings : worker'[q].asked = worker[q].asked
  BY <1>2, <1>4
<1>6. Submitting => start.rec \in Recordings
  BY DEF PanelInv, StartOK, Submitting, Types, Start, SomeRecording
<1> QED BY <1>1, <1>2, <1>3, <1>4, <1>5, <1>6 DEF WorkerOK, Submitting, Statuses

LEMMA JobEndsKeeps ==
  ASSUME PanelInv, WorkerOK, NEW r \in Recordings, JobEnds(r)
  PROVE  PanelInv' /\ WorkerOK'
<1>1. worker[r].status = "processing" /\ worker[r].of \in worker[r].asked
  BY DEF JobEnds, WorkerOK
<1>2. PICK s \in {"ready", "failed"} : worker' = Written(r, worker[r].of, s)
  BY DEF JobEnds
<1>3. ghost' \in Ghost /\ ghost'.crossed = ghost.crossed /\ ghost'.late = ghost.late
  BY FaultKeeps DEF JobEnds, PanelInv
<1>4. s \in Statuses
  BY DEF Statuses
<1> QED BY <1>1, <1>2, <1>3, <1>4, WrittenKeeps DEF JobEnds

LEMMA LateWriteKeeps ==
  ASSUME PanelInv, WorkerOK, NEW r \in Recordings, LateWrite(r)
  PROVE  PanelInv' /\ WorkerOK'
<1>1. PICK u \in worker[r].asked, s \in Statuses : worker' = Written(r, u, s)
  BY DEF LateWrite
<1>2. /\ ghost' \in Ghost /\ ghost'.crossed = ghost.crossed
      /\ ghost'.late = ghost.late \cup {r}
  <2> DEFINE l == ghost.late \cup {r}
  <2>1. /\ ghost \in Ghost /\ ghost.faults < MaxFaults
        /\ ghost' = [ghost EXCEPT !.faults = @ + 1, !.late = l]
    BY DEF LateWrite, PanelInv, Types
  <2>2. l \in SUBSET Recordings
    BY <2>1 DEF Ghost
  <2> HIDE DEF l
  <2>3. ghost.faults + 1 \in 0..MaxFaults
    BY <2>1, ExportPanelAssumption DEF Ghost
  <2>4. ghost'.crossed = ghost.crossed /\ ghost'.late = l
    BY <2>1 DEF Ghost
  <2>5. ghost' \in Ghost
    BY <2>1, <2>2, <2>3 DEF Ghost
  <2> QED BY <2>4, <2>5 DEF l
<1> QED BY <1>1, <1>2, WrittenKeeps DEF LateWrite

(* createExport, whether the request, the answer or nothing is lost.       *)
LEMMA ServeCreateKeeps ==
  ASSUME PanelInv, WorkerOK, ServeCreate
  PROVE  PanelInv' /\ WorkerOK'
<1> DEFINE e == worker[start.rec]
           n == Created(e)
<1>1. /\ start.rec \in Recordings /\ start.upload \in 1..MaxUploads /\ e \in Export
      /\ start \in Start /\ StartOK(start) /\ start.at = "create" /\ Submitting
      /\ worker = [worker EXCEPT ![start.rec] = e]
  BY ExportPanelAssumption DEF ServeCreate, PanelInv, Types, Start, StartOK, SomeRecording,
     Submitting
<1>2. /\ n \in Export /\ n.status \in Statuses /\ n.made = e.made /\ n.asked = e.asked
      /\ \/ n = e
         \/ n.status = "processing" /\ n.of = start.upload /\ e.status # "ready"
  <2>1. CASE e.status \in {"none", "failed"}
    <3>1. n = [e EXCEPT !.status = "processing", !.of = start.upload]
      BY <2>1 DEF Created
    <3>2. e \in Export /\ e.status # "ready" /\ start.upload \in 0..MaxUploads
      BY <1>1, <2>1, ExportPanelAssumption
    <3> HIDE DEF e, n
    <3>3. /\ n.status = "processing" /\ n.of = start.upload
          /\ n.made = e.made /\ n.asked = e.asked
      BY <3>1, <3>2 DEF Export
    <3>4. n \in Export
      BY <3>1, <3>2 DEF Export, Statuses
    <3> QED BY <3>2, <3>3, <3>4 DEF Statuses
  <2>2. CASE e.status \notin {"none", "failed"}
    <3>1. n = e
      BY <2>2 DEF Created
    <3> HIDE DEF e, n
    <3> QED BY <1>1, <2>2, <3>1 DEF Export, Statuses
  <2> QED BY <2>1, <2>2
<1>3. \A a \in Statuses \cup {"error"} :
        /\ Answered(start, a) \in Start /\ StartOK(Answered(start, a))
        /\ Answered(start, a).rec = start.rec /\ Answered(start, a).at = start.at
        /\ Answered(start, a).upload = start.upload
        /\ Answered(start, a).answer = a
  BY <1>1 DEF Answered, Start, StartOK, Answers, Statuses
<1>4. ghost' \in Ghost /\ ghost'.crossed = ghost.crossed /\ ghost'.late = ghost.late
  BY FaultKeeps DEF ServeCreate, PanelInv
<1>5. PICK w \in {e, n}, a \in {n.status, "error"} :
        /\ worker' = [worker EXCEPT ![start.rec] = w]
        /\ start' = Answered(start, a)
        /\ a = n.status => w = n
  <2>1. "error" \notin Statuses
    BY DEF Statuses
  <2> HIDE DEF e, n
  <2> QED BY <1>1, <1>2, <2>1 DEF ServeCreate, e, n
<1>6. /\ w \in Export /\ w.made = e.made /\ w.asked = e.asked
      /\ \/ w = e
         \/ w.status = "processing" /\ w.of = start.upload /\ e.status # "ready"
  BY <1>1, <1>2, <1>5
<1> HIDE DEF e, n
<1>7. /\ start' \in Start /\ StartOK(start') /\ start'.rec = start.rec
      /\ start'.at = start.at /\ start'.upload = start.upload /\ start'.answer = a
  BY <1>2, <1>3, <1>5
<1>8. /\ worker'[start.rec] = w
      /\ \A q \in Recordings \ {start.rec} : worker'[q] = worker[q]
  BY <1>1, <1>5 DEF PanelInv, Types
<1>9. WorkerOK'
  BY <1>1, <1>6, <1>7, <1>8 DEF WorkerOK, Submitting, e
<1>10. start'.answer = "ready" => IsReady(worker', ghost'.late, start.rec)
  <2>1. start'.answer = "ready" => w.status = "ready"
    BY <1>2, <1>5, <1>7
  <2> QED BY <1>1, <1>8, <1>9, <2>1 DEF WorkerOK, IsReady
<1>11. PanelInv'
  BY <1>1, <1>4, <1>5, <1>6, <1>7, <1>10, WorkerKeeps DEF ServeCreate, e
<1> QED BY <1>9, <1>11

LEMMA ServeLookKeeps ==
  ASSUME PanelInv, WorkerOK, ServeLook
  PROVE  PanelInv'
<1>1. /\ start.rec \in Recordings /\ start \in Start /\ StartOK(start) /\ start.at = "look"
      /\ worker[start.rec] \in Export
      /\ worker = [worker EXCEPT ![start.rec] = worker[start.rec]]
      /\ worker[start.rec].status \in Answers
      /\ worker[start.rec].status = "ready" => IsReady(worker, ghost.late, start.rec)
  BY StatusIsAnswer DEF ServeLook, PanelInv, Types, Start, StartOK, SomeRecording
<1>2. PICK a \in {worker[start.rec].status, "error"} : start' = Answered(start, a)
  BY DEF ServeLook
<1>3. ghost' \in Ghost /\ ghost'.crossed = ghost.crossed /\ ghost'.late = ghost.late
  BY FaultKeeps DEF ServeLook, PanelInv
<1>4. /\ start' \in Start /\ StartOK(start')
      /\ start'.rec = start.rec /\ start'.at = start.at
      /\ start'.answer = "ready" => IsReady(worker', ghost'.late, start.rec)
  BY <1>1, <1>2, <1>3 DEF ServeLook, Answered, Start, StartOK, Answers
<1> QED BY <1>1, <1>3, <1>4, WorkerKeeps DEF ServeLook

LEMMA CreateDoneKeeps ==
  ASSUME PanelInv, CreateDone
  PROVE  PanelInv'
<1>1. /\ start.rec \in Recordings /\ start \in Start /\ StartOK(start)
      /\ start.at = "create" /\ start.answer \in Answers \ {"asked", "none"} /\ Submitting
  BY DEF CreateDone, PanelInv, Types, Start, StartOK, SomeRecording, Submitting
<1>2. CASE /\ start.answer # "error"
           /\ panel' = Shown(start.rec, start.answer)
           /\ start' = NoStart
  <2>1. /\ panel'.candidate = panel.candidate /\ panel'.active = start.rec
        /\ panel'.turn = panel.turn
        /\ panel'.manifest = [rec |-> start.rec, status |-> start.answer]
        /\ panel' \in Panel
    BY <1>1, <1>2 DEF Shown, Manifest, PanelInv, Types, Panel, SomeRecording, Answers
  <2>2. start' \in Start /\ StartOK(start') /\ ~Submitting'
    BY <1>2, ExportPanelAssumption DEF NoStart, Start, StartOK, SomeRecording, Answers,
       Submitting
  <2>3. ReadyIsTrue(worker, ghost.late)'
    BY <1>1, <2>1, <2>2 DEF CreateDone, PanelInv, ReadyIsTrue, Refreshing, IsReady
  <2>4. LoadsOK' /\ OfTheCandidate'
    BY <1>1, <2>1, <2>2 DEF CreateDone, PanelInv, LoadsOK, OfTheCandidate, Refreshing
  <2> QED BY <2>1, <2>2, <2>3, <2>4 DEF CreateDone, PanelInv, Types
<1>3. CASE /\ panel' = [panel EXCEPT !.active = start.rec]
           /\ start' = [start EXCEPT !.answer = "asked", !.at = "look"]
  <2>1. /\ panel'.candidate = panel.candidate /\ panel'.active = start.rec
        /\ panel'.turn = panel.turn /\ panel'.manifest = panel.manifest
        /\ panel' \in Panel
    BY <1>1, <1>3 DEF PanelInv, Types, Panel, SomeRecording
  <2>2. /\ start' \in Start /\ StartOK(start') /\ start'.rec = start.rec
        /\ start'.answer = "asked"
    BY <1>1, <1>3 DEF Start, StartOK, Answers
  <2>3. ReadyIsTrue(worker, ghost.late)'
    BY <2>1, <2>2 DEF CreateDone, PanelInv, ReadyIsTrue, Refreshing, Submitting
  <2>4. LoadsOK' /\ OfTheCandidate'
    BY <1>1, <2>1, <2>2 DEF CreateDone, PanelInv, LoadsOK, OfTheCandidate, Loaded, Refreshing,
       Submitting
  <2> QED BY <2>1, <2>2, <2>3, <2>4 DEF CreateDone, PanelInv, Types
<1> QED BY <1>2, <1>3 DEF CreateDone

LEMMA LookDoneKeeps ==
  ASSUME PanelInv, LookDone
  PROVE  PanelInv'
<1>1. start.rec \in Recordings /\ Submitting
  BY DEF LookDone, PanelInv, Types, Start, StartOK, SomeRecording, Submitting
<1>2. start' \in Start /\ StartOK(start') /\ ~Submitting'
  BY ExportPanelAssumption DEF LookDone, NoStart, Start, StartOK, SomeRecording, Answers,
     Submitting
<1>3. CASE panel' = panel
  BY <1>2, <1>3 DEF LookDone, PanelInv, Types, ReadyIsTrue, LoadsOK, OfTheCandidate, Loaded,
     Refreshing
<1>4. CASE /\ start.answer \in Statuses
           /\ panel' = [panel EXCEPT !.manifest = Manifest(start.rec, start.answer)]
  <2>1. /\ panel'.candidate = panel.candidate /\ panel'.active = panel.active
        /\ panel'.turn = panel.turn
        /\ panel'.manifest = [rec |-> start.rec, status |-> start.answer]
        /\ panel' \in Panel
    BY <1>1, <1>4 DEF Manifest, PanelInv, Types, Panel
  <2>2. ReadyIsTrue(worker, ghost.late)'
    BY <1>1, <1>2, <2>1 DEF LookDone, PanelInv, ReadyIsTrue, Refreshing, IsReady
  <2>3. LoadsOK' /\ OfTheCandidate'
    BY <1>1, <1>2, <2>1 DEF LookDone, PanelInv, LoadsOK, OfTheCandidate, Refreshing
  <2> QED BY <1>2, <2>1, <2>2, <2>3 DEF LookDone, PanelInv, Types
<1> QED BY <1>3, <1>4 DEF LookDone

(* What leaves the worker alone, and the upload of the start.              *)
LEMMA WorkerStays ==
  ASSUME WorkerOK, UNCHANGED worker,
         \/ ~Submitting'
         \/ Submitting /\ start'.rec = start.rec /\ start'.upload = start.upload
  PROVE  WorkerOK'
BY DEF WorkerOK

LEMMA PanelLeavesTheWorker ==
  ASSUME PanelInv, WorkerOK,
         \/ \E l \in loads : ServeLoad(l) \/ LoadDone(l)
         \/ ServeRefresh \/ RefreshDone \/ ServeLook \/ CreateDone \/ LookDone
         \/ ReadinessAnswered \/ Render \/ handleRefreshExportStatus
         \/ \E r \in Recordings : UploadCompletes(r) \/ UploadRestarts(r)
  PROVE  WorkerOK'
<1>1. CASE start' = start /\ UNCHANGED worker
  BY <1>1, WorkerStays DEF Submitting
<1>2. CASE ServeLook
  <2>1. PICK a : start' = Answered(start, a)
    BY <1>2 DEF ServeLook
  <2>2. start'.rec = start.rec /\ start'.upload = start.upload /\ Submitting
    BY <1>2, <2>1 DEF ServeLook, Answered, Submitting, PanelInv, Types, Start
  <2> QED BY <1>2, <2>2, WorkerStays DEF ServeLook
<1>3. CASE LookDone
  BY <1>3, WorkerStays DEF LookDone, NoStart, Submitting
<1>4. CASE CreateDone
  <2>1. CASE start' = NoStart
    BY <1>4, <2>1, WorkerStays DEF CreateDone, NoStart, Submitting
  <2>2. CASE start' = [start EXCEPT !.answer = "asked", !.at = "look"]
    <3>1. start'.rec = start.rec /\ start'.upload = start.upload /\ Submitting
      BY <1>4, <2>2 DEF CreateDone, Submitting, PanelInv, Types, Start
    <3> QED BY <1>4, <3>1, WorkerStays DEF CreateDone
  <2> QED BY <1>4, <2>1, <2>2 DEF CreateDone
<1> QED BY <1>1, <1>2, <1>3, <1>4 DEF ServeLoad, LoadDone, ServeRefresh, RefreshDone,
       ReadinessAnswered, Render, handleRefreshExportStatus, UploadCompletes, UploadRestarts

-----------------------------------------------------------------------------
(* The theorems                                                            *)

LEMMA InitHolds == Init => IInv
<1> SUFFICES ASSUME Init PROVE IInv
  OBVIOUS
<1>1. Types
  BY ExportPanelAssumption DEF Init, Types, Turns, Export, NoExport, Panel, NoManifest,
     Manifest, SomeRecording, Load, NoRequest, Request, Answers, NoStart, Start, Ghost
<1>2. StartOK(start) /\ ~Refreshing /\ ~Submitting /\ panel.manifest.status # "ready"
      /\ panel.manifest.rec = None
  BY ExportPanelAssumption DEF Init, NoStart, StartOK, NoRequest, Request, Refreshing,
     Submitting, NoManifest, Manifest
<1>3. panel.candidate = selectLatestExportCandidate(copy)
  BY DEF Init, selectLatestExportCandidate
<1>4. WorkerOK
  BY <1>2 DEF Init, WorkerOK, NoExport
<1> QED BY <1>1, <1>2, <1>3, <1>4 DEF Init, IInv, PanelInv, ReadyIsTrue, LoadsOK,
       OfTheCandidate

LEMMA NextKeeps == IInv /\ [Next]_vars => IInv'
<1> SUFFICES ASSUME PanelInv, WorkerOK, [Next]_vars PROVE PanelInv' /\ WorkerOK'
  BY DEF IInv
<1>1. CASE Answer /\ ~ReadinessAnswered
  BY <1>1, ServeLoadKeeps, LoadDoneKeeps, ServeRefreshKeeps, RefreshDoneKeeps,
     ServeCreateKeeps, CreateDoneKeeps, ServeLookKeeps, LookDoneKeeps,
     PanelLeavesTheWorker DEF Answer
<1>2. CASE ReadinessAnswered
  BY <1>2, PanelLeavesTheWorker DEF ReadinessAnswered, PanelInv, Types, ReadyIsTrue,
     LoadsOK, OfTheCandidate, Loaded, Refreshing, Submitting
<1>3. ASSUME NEW r \in Recordings,
             UploadCompletes(r) \/ UploadRestarts(r) \/ JobEnds(r) \/ LateWrite(r)
      PROVE  PanelInv' /\ WorkerOK'
  BY <1>3, UploadKeeps, JobEndsKeeps, LateWriteKeeps, PanelLeavesTheWorker
<1>4. CASE Render \/ handleRefreshExportStatus \/ handleStartExport
  BY <1>4, RenderKeeps, handleRefreshKeeps, handleStartKeeps, PanelLeavesTheWorker
<1>5. CASE UNCHANGED vars
  BY <1>5 DEF vars, PanelInv, Types, ReadyIsTrue, LoadsOK, OfTheCandidate, Loaded,
     Refreshing, Submitting, WorkerOK
<1> QED BY <1>1, <1>2, <1>3, <1>4, <1>5 DEF Next

(* The invariant, for any set of recordings and any number of faults.      *)
THEOREM Invariance == Spec => []IInv
BY InitHolds, NextKeeps, PTL DEF Spec

(* The candidate is a recording or none, a manifest that is shown names an *)
(* export of the worker, and an export knows its upload.                   *)
THEOREM TypeCorrectness == Spec => []TypeOK
<1>1. IInv => TypeOK
  BY DEF IInv, PanelInv, WorkerOK, Types, TypeOK, Turns, Export, Panel, SomeRecording,
     StartOK
<1> QED BY <1>1, Invariance, PTL

(* Once its requests have been answered the panel shows the export of the  *)
(* candidate, unless the candidate changed under a refresh or a start      *)
(* (useEffect on the candidate, handleRefreshExportStatus,                 *)
(* handleStartExport), and a file it offers was made, and is still what    *)
(* the worker has unless a late write came over it.                        *)
THEOREM SettledShows == Spec => []SettledShowsTheCandidate
<1>1. IInv => SettledShowsTheCandidate
  <2> SUFFICES ASSUME PanelInv, Settled, ~ghost.crossed
               PROVE  /\ panel.active = panel.candidate
                      /\ panel.manifest.rec \in {None, panel.candidate}
                      /\ ~downloadDisabled => IsReady(worker, ghost.late, panel.active)
    BY DEF IInv, SettledShowsTheCandidate, IsReady
  <2>1. /\ panel.active = panel.candidate
        /\ panel.manifest.rec \in {None, panel.candidate}
    BY DEF PanelInv, OfTheCandidate, Settled, Loaded
  <2>2. ~downloadDisabled => IsReady(worker, ghost.late, panel.active)
    BY <2>1, ExportPanelAssumption DEF PanelInv, ReadyIsTrue, IsReady, downloadDisabled
  <2> QED BY <2>1, <2>2
<1> QED BY <1>1, Invariance, PTL

(* The candidate is always the uploaded recording that completed last, of  *)
(* those the panel has read (selectLatestExportCandidate).                 *)
THEOREM CandidateIsTheLatest ==
  Spec => [](panel.candidate # None =>
               /\ copy[panel.candidate] > 0
               /\ \A r \in Recordings : copy[r] <= copy[panel.candidate])
<1>1. IInv => (panel.candidate # None =>
                 /\ copy[panel.candidate] > 0
                 /\ \A r \in Recordings : copy[r] <= copy[panel.candidate])
  BY CandidateIsLast DEF IInv, PanelInv, Types
<1> QED BY <1>1, Invariance, PTL

-----------------------------------------------------------------------------
(* The promise of the worker                                               *)

LEMMA WriteIsPromised ==
  ASSUME PanelInv, NEW r \in Recordings, NEW q \in Recordings,
         NEW u \in worker[q].asked, NEW s \in Statuses, worker' = Written(q, u, s)
  PROVE  [Promise(r)!Next]_(Promise(r)!vars)
<1>1. u \in 1..MaxUploads
  BY DEF PanelInv, Types, Export
<1>2. PICK e \in Export :
        /\ worker' = [worker EXCEPT ![q] = e]
        /\ e.status = s /\ e.of = u /\ e.asked = worker[q].asked
        /\ e.made = IF s = "ready" THEN worker[q].made \cup {u} ELSE worker[q].made
  BY <1>1, WrittenIs DEF PanelInv
<1>3. /\ worker'[q] = e
      /\ r # q => worker'[r] = worker[r]
  BY <1>2 DEF PanelInv, Types
<1>4. CASE r = q
  <2>1. Promise(r)!Write(u, s)
    BY <1>2, <1>3, <1>4 DEF Promise!Write
  <2> QED BY <1>1, <2>1 DEF Promise!Next, Statuses
<1> QED BY <1>3, <1>4 DEF Promise!vars

(* The press of Start asks for an upload.                                  *)
LEMMA StartIsPromised ==
  ASSUME PanelInv, NEW r \in Recordings, handleStartExport
  PROVE  [Promise(r)!Next]_(Promise(r)!vars)
<1> DEFINE c == panel.candidate
           u == copy[c]
<1>1. c \in Recordings /\ u \in 1..MaxUploads
  BY CandidateIsLast, ExportPanelAssumption DEF handleStartExport, startDisabled, PanelInv,
     Types, Turns, Panel, SomeRecording
<1>2. worker' = [worker EXCEPT ![c].asked = @ \cup {u}]
  BY DEF handleStartExport
<1> HIDE DEF c, u
<1>3. /\ worker'[c].asked = worker[c].asked \cup {u}
      /\ worker'[c].status = worker[c].status /\ worker'[c].of = worker[c].of
      /\ worker'[c].made = worker[c].made
      /\ r # c => worker'[r] = worker[r]
  BY <1>1, <1>2 DEF PanelInv, Types, Export
<1>4. CASE r = c
  <2>1. Promise(r)!Ask(u)
    BY <1>3, <1>4 DEF Promise!Ask
  <2> QED BY <1>1, <2>1 DEF Promise!Next
<1> QED BY <1>3, <1>4 DEF Promise!vars

(* createExport writes of the upload it is for, or nothing.                *)
LEMMA CreateIsPromised ==
  ASSUME PanelInv, WorkerOK, NEW r \in Recordings, ServeCreate
  PROVE  [Promise(r)!Next]_(Promise(r)!vars)
<1> DEFINE q == start.rec
<1>1. /\ q \in Recordings /\ start.upload \in 1..MaxUploads
      /\ start.upload \in worker[q].asked /\ worker[q] \in Export
  BY ExportPanelAssumption DEF ServeCreate, PanelInv, Types, Start, StartOK, SomeRecording,
     WorkerOK, Submitting
<1>2. worker' = worker \/ worker' = [worker EXCEPT ![q] = Created(worker[q])]
  BY DEF ServeCreate
<1> HIDE DEF q
<1>3. CASE worker' = worker \/ Created(worker[q]) = worker[q]
  BY <1>1, <1>2, <1>3 DEF Promise!vars, PanelInv, Types
<1>4. CASE /\ Created(worker[q]) # worker[q]
           /\ worker' = [worker EXCEPT ![q] = Created(worker[q])]
  <2>1. Created(worker[q]) =
          [worker[q] EXCEPT !.status = "processing", !.of = start.upload]
    BY <1>4 DEF Created
  <2>2. /\ worker'[q].status = "processing" /\ worker'[q].of = start.upload
        /\ worker'[q].asked = worker[q].asked /\ worker'[q].made = worker[q].made
        /\ r # q => worker'[r] = worker[r]
    BY <1>1, <1>4, <2>1 DEF PanelInv, Types, Export
  <2>3. CASE r = q
    <3>1. Promise(r)!Write(start.upload, "processing")
      BY <1>1, <2>2, <2>3 DEF Promise!Write
    <3> QED BY <1>1, <3>1 DEF Promise!Next
  <2> QED BY <2>2, <2>3 DEF Promise!vars
<1> QED BY <1>2, <1>3, <1>4

(* The worker the panel is modelled with keeps the promise ExportWorker is *)
(* shown to implement: what is written of an export is of an upload that   *)
(* was asked for, and ready only with its file.                            *)
THEOREM WorkerPromises == Spec => WorkerIsAsPromised
<1> SUFFICES ASSUME NEW r \in Recordings PROVE Spec => Promise(r)!Spec
  BY DEF WorkerIsAsPromised
<1>1. Init => Promise(r)!Init
  BY DEF Init, NoExport, Promise!Init
<1>2. IInv /\ [Next]_vars => [Promise(r)!Next]_(Promise(r)!vars)
  <2> SUFFICES ASSUME PanelInv, WorkerOK, [Next]_vars
               PROVE  [Promise(r)!Next]_(Promise(r)!vars)
    BY DEF IInv
  <2>1. CASE UNCHANGED worker
    BY <2>1 DEF Promise!vars
  <2>2. ASSUME NEW q \in Recordings, JobEnds(q)
        PROVE  [Promise(r)!Next]_(Promise(r)!vars)
    <3>1. worker[q].of \in worker[q].asked
      BY <2>2 DEF JobEnds, WorkerOK
    <3>2. PICK s \in {"ready", "failed"} : worker' = Written(q, worker[q].of, s)
      BY <2>2 DEF JobEnds
    <3>3. s \in Statuses
      BY DEF Statuses
    <3> QED BY <3>1, <3>2, <3>3, WriteIsPromised
  <2>3. ASSUME NEW q \in Recordings, LateWrite(q)
        PROVE  [Promise(r)!Next]_(Promise(r)!vars)
    BY <2>3, WriteIsPromised DEF LateWrite
  <2>4. CASE handleStartExport
    BY <2>4, StartIsPromised
  <2>5. CASE ServeCreate
    BY <2>5, CreateIsPromised
  <2> QED BY <2>1, <2>2, <2>3, <2>4, <2>5 DEF Next, Answer, vars, ServeLoad, LoadDone,
          ServeRefresh, RefreshDone, CreateDone, ServeLook, LookDone, ReadinessAnswered,
          UploadCompletes, UploadRestarts, Render, handleRefreshExportStatus
<1> QED BY <1>1, <1>2, Invariance, PTL DEF Spec, Promise!Spec

(* And it does whatever the promise allows: any write of the promise, of   *)
(* an upload that was asked for and at any time, is a LateWrite, so the    *)
(* panel is shown right beside every worker that keeps the promise, and    *)
(* not beside one that takes no export back.                               *)
THEOREM PromisedWriteIsAllowed ==
  ASSUME Types, NEW r \in Recordings, NEW u, NEW s \in Statuses,
         Promise(r)!Write(u, s),
         worker' \in [Recordings -> Export],
         \A q \in Recordings \ {r} : worker'[q] = worker[q],
         worker'[r].asked = worker[r].asked,
         s # "ready" => worker'[r].made = worker[r].made,
         ghost.faults < MaxFaults,
         ghost' = [ghost EXCEPT !.faults = @ + 1, !.late = @ \cup {r}],
         UNCHANGED <<uploads, copy, readiness, panel, loads, refresh, start>>
  PROVE  LateWrite(r)
<1>1. /\ u \in worker[r].asked /\ u \in 1..MaxUploads
      /\ worker'[r].status = s /\ worker'[r].of = u
  BY DEF Promise!Write, Types, Export
<1>2. worker'[r].made = IF s = "ready" THEN worker[r].made \cup {u} ELSE worker[r].made
  BY DEF Promise!Write
<1>3. PICK e \in Export :
        /\ Written(r, u, s) = [worker EXCEPT ![r] = e]
        /\ e.status = s /\ e.of = u /\ e.asked = worker[r].asked
        /\ e.made = IF s = "ready" THEN worker[r].made \cup {u} ELSE worker[r].made
  <2>1. u \in 1..MaxUploads
    BY <1>1
  <2> QED BY ONLY Types, r \in Recordings, s \in Statuses, <2>1, WrittenIs
<1>4. worker'[r] = e
  <2>1. /\ worker'[r] \in Export /\ e \in Export
        /\ worker'[r].status = e.status /\ worker'[r].of = e.of
        /\ worker'[r].asked = e.asked /\ worker'[r].made = e.made
    BY <1>1, <1>2, <1>3
  <2> QED BY <2>1 DEF Export
<1>5. worker' = Written(r, u, s)
  BY <1>3, <1>4 DEF Types
<1> QED BY <1>1, <1>5 DEF LateWrite
=============================================================================

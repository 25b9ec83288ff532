# A TLA+ model of Djoko Studio

Djoko Studio records every participant locally in the browser, uploads the
recording in chunks, and renders an MP4 from the uploaded chunks. The parts
that make this correct are spread over a browser tab and several small
services that share no lock and no transaction: they meet in S3 objects, in
IndexedDB records and over WebSockets. This directory holds the
specifications of those parts, the instances TLC checks, and the theorems the
TLA+ proof system proves about them.

- [Inventory](#inventory)
- [Modules](#modules)
- [Runs](#runs)
- [Proofs](#proofs)
- [What is left out](#what-is-left-out)
- [Plan](#plan)

`PROJECT.json` lists the components, the runs with their properties, the
mutants, the source lines every definition stands for, the hazards and the
theorems.

## Inventory

### Upload service (`services/upload`, Rust)

*State.* Per upload session one S3 object `manifest.json` (the session record:
status, counters, one entry per chunk) and one object per chunk.
*Operations.* `create_upload`, `upload_chunk`, `complete_upload`,
`cancel_upload`, and read-only `get_upload` and listing.
*Interactions.* Called by the browser; its manifest and chunk objects are read
by the export worker straight from S3.
*Hard.* Nothing is locked. A request loads the whole manifest, decides on its
private copy, and writes the whole copy back, with a `HEAD` and a `PUT` in
between for a chunk. Requests interleave at every await, and each may stop at
any of them (S3 error, client gone, process killed).
*Correct when* the manifest never claims a chunk S3 does not have, an accepted
chunk stays stored, a session that says `uploaded` is whole, and stale counters
never finalize a session.

### Export worker (`services/export-worker`, Rust)

*State.* Per recording one S3 object with the export manifest (status, attempt
id, identifiers of the upload) and one MP4 per attempt; the background jobs.
*Operations.* `POST /api/exports` (load, decide, store a new attempt, spawn a
job), the job (validate the upload manifest, rebuild the WebM from the chunks,
run FFmpeg, store the MP4, store the terminal state if the attempt is still the
current one), and read-only status and download.
*Interactions.* Reads what the upload service writes, while it may still be
writing.
*Hard.* Duplicate POSTs, attempts that outlive the stale limit while their job
runs on, a crash between storing an attempt and working on it, and a terminal
write that follows its check in another storage call.
*Correct when* a `ready` export can be downloaded and was made from stored
chunks, an obsolete attempt harms nobody, and a finished upload can always be
exported in the end.

### Signaling service (`services/signaling`, Go)

*State.* A map from session to room under the manager's mutex, and in each room
a host and a guest slot under the room's mutex; one goroutine per connection.
*Operations.* Join, the initial `room-state`, `peer-joined`, the relay of
`signal` messages, `peer-left`, leave, removal of an empty room.
*Interactions.* The studio panel of two browsers.
*Hard.* The two locks are taken one after the other, never together; `isEmpty`
reads both slots without the room's lock; every handler writes to the other
connection's socket, which may close at any time.
*Correct when* slots name exactly the live handlers, no room stays in the map
when everyone has left, at least one side of a settled pair knows of the other,
and a closed socket gives its role back.

### Upload queue (`apps/web-studio/src/upload`, TypeScript)

*State.* One record per recording in IndexedDB (status, upload id, a state per
chunk), the copy the panel shows, and a run token per recording in memory.
*Operations.* Start or Resume, Pause, Cancel; `runUpload` creates or queries a
session, sends what is missing, and completes.
*Interactions.* The upload service over HTTP; the export panel offers a
recording once its record says `uploaded`.
*Hard.* Pause and Cancel run during any await of a run, an old run may still
hold an open request when a new one starts, answers get lost, the page reloads
anywhere, and the service's manifest may forget what it confirmed.
*Correct when* the record says `uploaded` only of a session the service
finalized, resuming neither skips a chunk the service lacks nor resends one it
confirmed, and a user who keeps pressing gets the recording uploaded.

### Signaling client and studio panel, WebRTC controller

*State.* `SignalingPanel.tsx` keeps one connection, its status, the peer's
presence and one controller of `webrtc/peerConnection.ts`; the controller keeps
an `RTCPeerConnection` and the candidates that came too early.
*Operations.* Connect, Disconnect, Start, Close; a handler per kind of frame and
per socket event; `startHost` and `handleSignal` of the controller.
*Interactions.* Two panels meet through the signaling service; the preview's
stream is read when a description is made; a guest who joins anew gets another
participant id, which starts the panel over.
*Hard.* Offers, answers and candidates are chains of awaits on one
`RTCPeerConnection`, which further frames, a close or a new controller
interrupt; the close event of a socket comes after the page has let go of it;
the other side leaves at any time.
*Correct when* no candidate is lost between queue and connection, an offer gets
its answer, no call outlives its partner, and every open socket is one the page
can close.

### Local recorder (`apps/web-studio/src/recording`) and the preview it records

*State.* The state machine's snapshot, the `MediaRecorder`, a manifest that
grows by one entry per chunk, a serial queue of saves, the list of saved
recordings with its reports, two previews; in IndexedDB one store of manifests
and one of chunks; the camera's stream.
*Operations.* Start, Stop, Reset; discard, clear all, check, preview and refresh
of the list; the recorder's data, stop and error events; Start and Stop of the
preview; opening and leaving the page.
*Interactions.* The upload queue reads the stored chunks; the panels next to it
take the list.
*Hard.* A chunk and the manifest that lists it are two transactions; saves
fail one by one; the recorder's last chunk and its stop come after the button;
the preview of a recording is built while the next one starts; a discard or a
clear comes while saves wait; the camera is granted late or lost.
*Correct when* what is listed is stored, what is shown is what is stored once
the queue is empty, a preview has every chunk, and no camera runs unseen.

### Export panel (`components/ProcessingExportPanel.tsx`)

*State.* A copy of the upload states, the worker's readiness, the export's
manifest as last read, the active export id, a refresh and a start in progress.
*Operations.* The candidate's effect, Refresh, Start, Download.
*Interactions.* The export worker over HTTP, of which it may rely on what
`ExportPromise` says; the upload states of IndexedDB, which the readiness panel
next to it writes.
*Hard.* Answers come for a candidate that has changed; a start whose answer is
lost may have been heard; the copy is read only when the preview renders.
*Correct when* the panel settles on the export of its candidate, offers no file
that was never made, and shows a ready export to a user who refreshes.

### Control-plane API (`services/api`, Go and PostgreSQL)

Sessions (scheduled, live, ended), one participant per role, exports; every
handler is one or two SQL statements, with no transaction around two.
*Correct when* a session's and a participant's status agree with their
timestamps along any sequence of calls. Not modelled (below).

### The rest

The media worker (a heartbeat loop without state), the landing page, routes,
forms, infrastructure and scripts.

### How they interact

    browser tab                        services                    storage
    -----------                        --------                    -------
    recorder -> IndexedDB
    upload queue  --HTTP-->  upload service   --manifest, chunks-->  S3
    export panel  --HTTP-->  export worker    --reads those,
                                                writes exports-->    S3
    studio panel  --WS---->  signaling rooms  <--WS--  studio panel
    session pages --HTTP-->  control-plane API  ------------->  PostgreSQL

## Modules

| Module | Component | Kind |
| --- | --- | --- |
| `UploadService` | upload service | one session, any requests |
| `UploadPromise` | what readers of the upload may rely on | abstract specification |
| `ExportWorker` | export worker over `UploadPromise` | composition by INSTANCE |
| `ExportPromise` | what the browser may rely on of an export | abstract specification |
| `SignalingRooms` | rooms and handlers of one session | detailed |
| `UploadQueue` | upload queue of one recording, with the service as it sees it | detailed |
| `RecordingStore` | the recorder's IndexedDB and its manifests | data type |
| `LocalRecording` | the local recorder, its list and the camera preview | detailed, over `RecordingStore` |
| `StudioCall` | two studio panels with their controllers, and the room between them | composition |
| `ExportPanel` | the export panel, with the worker as `ExportPromise` has it | detailed |
| `UploadServiceProofs`, `SignalingRoomsProofs`, `ExportWorkerProofs`, `UploadQueueProofs`, `LocalRecordingProofs`, `StudioCallProofs`, `ExportPanelProofs` | theorems about the module they are named after | proofs |
| `SavedRecordingProofs` | theorems about `LocalRecording` that rest on the order of its saves | proofs, over `LocalRecordingProofs` |
| `MCUploadService`, `MCExportWorker`, `MCSignalingRooms`, `MCUploadQueue`, `MCLocalRecording`, `MCStudioCall`, `MCExportPanel` | instances | TLC |

The granularity is that of the scheduler in each language: a Rust or TypeScript
`async` function runs from one await to the next without interruption, so an
await is a step; in Go a critical section, a read of shared memory outside one,
and a socket operation are a step each.

### UploadService

`manifest` and `objects` are the S3 objects of one session. Sessions have
separate keys, so one is enough. `handlers[h]` is a request: the await it is at,
its input, its private copy of the record and the answer it will give.
`LoadChunk`, `HeadChunk`, `PutChunk`, `SaveManifest` are the awaits of
`upload_chunk`; `LoadComplete` and `LoadCancel` are followed by the same save.
`Abandon` ends a request wherever it is. The record keeps the two counters as
fields of their own (`bytes`, `counted`), because the code recomputes them in
some methods and not in others. Of a chunk's bytes and checksum the model keeps
a size and a name; `Offers` are the chunk requests clients may send, and an
index is `Settled` when they always send the same bytes for it, as the browser
does.

The in-memory repository, which only tests use, is not modelled: it takes its
lock twice per request (storage.rs:210-333), changes the record under the first
and puts a clone taken there back under the second, with the chunk's bytes and
without a `HEAD`.

### UploadPromise

Four variables: the chunks `stored`, the chunks `listed` by the manifest, those
of them that are `exact` (listed with one byte count and with the checksum of the
stored object, which is what the export worker insists on), and the `phase`. It
says what survives all interleavings: stored chunks stay, only stored chunks are
listed, what is listed is exact for an index all clients send the same bytes for
(`Agreed`), and `final` goes with a complete list. It also says what does *not*
survive: the list may shrink, the phase may go from `final` or `canceled` back to
`open`, and an index the clients disagree about may be overwritten (`Overwrite`)
or finalized with two byte counts (model.rs:393). `UploadService` implements it (run
`upload_service`, theorem `ServiceKeepsPromise`), `ExportWorker` is built on
it, and the service in `UploadQueue` may do, late, all that it allows (`LateRequest`,
theorem `PromisedStepIsAllowed`).

### ExportWorker

`export` is the export manifest, `posts` the POST handlers between their two
storage calls, `jobs[a]` the background job of attempt `a`, `outputs` the stored
MP4s. An attempt id is a time and a number, as in `next_attempt_id`: `clock` is
the time, and `counter` the process's `ATTEMPT_COUNTER`, which starts again with
the process. That the ids of two processes differ rests on the time alone, and
`Crash` says what this takes: a restart lasts longer than a millisecond, and the
clock is not set back. `NextIsFresh` proves that it is enough. `CheckSource` and
`Rebuild` refuse a source that is not exact: two byte counts before anything is
read, another checksum when the chunk is (place `mismatch`), on every attempt
alike. `Overwrite` changes the bytes of a chunk under the jobs that have validated
it. `stale` stands for the age of the manifest: `GrowStale` lets an attempt
outlive the limit while its job runs, which costs a fault; `OrphanGrowsStale`
does the same for an attempt without a job and is fair, as time is. `Crash`
drops all handlers and jobs. `fail_export` returns an error after it has
written its own terminal state and the caller then writes a second one: the
outcomes `reported` and `failed` keep the two apart.

### ExportPromise

What survives the steps of POSTs and jobs, their attempts and their failures,
for one recording's export: its `status`, the `request` it is of, the requests
the worker still works on (`asked`) and those it made a file for (`made`). It
writes of no request it does not work on any more, and says `ready` only of one
with a file, which stays. It also says what does *not* survive: an export that
was `ready` may be `processing` again or have failed, and may be of another
request than before, since a POST that had loaded the manifest and a job that had
compared its attempt store what they have without looking again.
`ExportWorker` implements it (run `export_worker`, theorem
`WorkerKeepsPromise`), and the worker in
`ExportPanel` behaves by it (`WorkerPromises`, `PromisedWriteIsAllowed`).

### SignalingRooms

`current` is the map's entry for the session, `slots` the two memberships of
each room object, `handlers` where each connection's goroutine is, `closed` the
sockets closed by either side, `views` what each browser was last told. Room
objects nobody refers to are reused, which keeps the state finite and adds no
behaviour. `LockAndReadHost` and `ReadGuestAndDelete` are the two reads of
`isEmpty`, made under the manager's lock only. That read is a data race in the
sense of the Go memory model; each of its two pointer reads is taken to return
a value the slot really held, in program order.

### UploadQueue

`tasks` are the async functions in progress in the tab, `db` the IndexedDB
record, `shown` what the panel displays, `listing` a refresh of it in progress,
`token` the run counter. Every record keeps its status, its upload id and the
set `done` of chunks that are uploaded or already present. `Save` is
`persistState` with both of its forms: an incremental save writes the chunks
that look changed against `shown` and leaves the others to what the store has;
a save against a different upload reads the keys first and replaces everything.
`server` is the upload service answering one request at a time; `LateRequest` is
one the browser gave up and the service still works on, which stores a chunk or
saves any manifest that `UploadPromise` allows. `PatientSpec` is one run at a
time and a user who goes on, with failed requests and reloads anywhere;
`RetrySpec` adds the late requests. `final` and `late` of a session are the
model's own, for the properties. IndexedDB
performs operations in the order in which they are issued; the continuations
may come in any order, which is more than a browser does.

### RecordingStore and LocalRecording

`RecordingStore` is `recordingPersistence.ts` as a data type: `disk[r]` is the
manifest and the set of chunks of recording `r`, with the operations as
functions on it. A manifest is its status and its number of entries, since
entries are only appended. `LocalRecording` is the hook and the preview around
it. `queue` is the serial persistence queue; its tasks are executed await by
await (`SaveChunk`, `SaveManifest`, `AfterSave`, `Refresh`; `Delete`,
`AfterDelete`; `CheckOne`), each of which may fail. `take` is the recording the
page is making or showing, `snap` the state machine's snapshot, `recorder` the
MediaRecorder and what it has still to fire, `playback` the previews being built
from the store, `recovered` the preview of a saved recording, `camera` the
requests and live streams of the local preview. `Crash` leaves the disk alone;
`Leave` is the unmount, after which the queue goes on.

Reads whose answers no write can overtake are one step with their use. A build
of a preview reads outside the queue, the record and then the chunks
(recordingPersistence.ts:372-377), and IndexedDB runs the transactions in the
order in which they were asked for. So a single save or delete may come between
the two reads, and none between the second and the preview that is shown: this is
`Write`, and it is what lets `StoppedIsShown` hold, for
`createPlaybackPreviewFromPersistence` does not look again whether its recording
is still current after the await (useLocalMediaRecorder.ts:1117-1122).

### StudioCall

`panel[p]`, `ctrl[p]` and `sockets[s]` are what each page shows and holds, its
controller, and every WebSocket with the frames under way in both directions and
the service's handler behind it. The handler is `SignalingRooms` reduced to one
room and to steps that do not split a registration from the read of the peer.
The browser runs the operations of one `RTCPeerConnection` one at a time, in the
order in which they were asked for: `chain` is that queue, what follows an await
runs as its operation ends, and `close` drops the chain, whose promises never
settle. `gen` numbers the controllers so that a candidate or an answer of an
earlier call can be told from one of this call; the browser may refuse the
former. `received` and `applied` are histories.

### ExportPanel

`uploads` is what IndexedDB holds, `copy` what the panel has read of it; `loads`,
`refresh` and `start` are its requests, each with the answer it got or not yet
got. A load remembers the turn of the effect that started it, the other two are
applied to whatever the panel shows by then, as in the code. `worker` is the
export worker reduced to the four variables of `ExportPromise` for each
recording. `ServeCreate` answers a POST and `JobEnds` ends its job; `LateWrite`
is every other write the promise allows: a POST the panel has given up, or an
obsolete job, stores what it has over what the export is by then, whenever and of
whatever upload it was asked for. It costs a fault. `ghost.late` remembers where
it happened, `ghost.crossed` that the candidate changed under a refresh or a
start.

## Runs

| Run | Instance | Shows |
| --- | --- | --- |
| `upload_service` | 2 requests at a time, 2 chunks of lengths 1 and 2, five offers | all safety properties and the refinement |
| `upload_forgets` | the same, settled offers | **violated:** a confirmed chunk becomes pending again |
| `export_worker` | 2 POSTs, 2 chunks of which clients disagree about one, 5 attempts in each of 2 milliseconds, 1 fault | a ready export is downloadable; a finished and exact upload is exported in the end; the refinement of `ExportPromise` |
| `signaling_rooms` | 1 host, 2 guests, 4 room objects | slots, map, knowledge of the peer, return of the role |
| `upload_queue` | 2 functions at a time, 1 chunk, 2 sessions, 2 tokens, 1 fault | `uploaded` is never claimed of a session not finalized |
| `upload_resumes` | 1 run at a time and late requests, 3 chunks, 5 sessions, 4 faults | resuming skips nothing and resends nothing confirmed; a user who goes on gets the recording uploaded, or stuck in one of two named ways |
| `upload_stranded` | 1 run at a time, 1 chunk, 1 fault | **violated:** a reload while the record says `initializing` ends the upload |
| `local_recording` | 1 recording of 2 chunks with 2 presses, or 1 and 1 trouble; 2 recordings without presses | what is saved, listed, checked, previewed and recovered agrees with what was recorded; a recording that is being stopped ends up stopped and shown |
| `recording_device` | 1 recording of 1 chunk, 1 trouble | **violated:** the page says recording and nothing records |
| `studio_call` | 3 sockets, 2 calls, 1 candidate of each controller, 1 disturbance | no lost candidate, no call without a partner, every offer answered |
| `export_panel` | 2 recordings, 2 uploads, 2 starts, 1 fault | the panel settles on its candidate; a ready export is seen |
| `export_unseen` | 1 recording, 1 upload | **violated:** a completed upload that is never offered |

### Bounds

*Requests of the upload service.* Each request copies the record once and
writes it once, so what one request can do to another shows with two; a third
could only add older copies, and the theorems hold for any number. The offers
include a second, longer payload for index 0, an index beyond the last chunk,
and another declared total, so that rejection and refusal happen. Slots are
reused: there is no bound on the number of requests over time.

*Attempts and faults of the worker.* Three attempts are the least with which an
obsolete job, a current one and a successor coexist. Progress needs more than a
fault and two POSTs can use up, since running into the bound would itself be a
counterexample; five for each process are enough. Two milliseconds are two
processes, or one whose attempts differ in time. A fault is a failed storage
call, a dropped request, a crash, an attempt that outlives the limit, a stray
POST, a reopened upload or an overwritten chunk.

*Connections.* Three connections hold one in the room, one coming and one
going, which is what every interleaving of the two locks needs. There is one
more room object than connections, so that a new room is always one that no
handler can still reach (`ConnsAssumption`; `RoomIsFree` proves that this is
enough). Two hosts and two guests (920 thousand states up to symmetry) were
checked as well.

*Queue.* Two functions at a time give every pair of a run and a click during
it, and of two runs. Two tokens are enough for tokens to collide; with three
(19.0 million states) `upload_queue` passes as well but takes too long to be
rerun often. Functions in progress are reused, so that a tab may press any
number of buttons until the bound on tokens stops new runs. `upload_resumes`
follows one run at a time, which is where `DoneIsStored` and
`ConfirmedIsNotResent` are meant to hold, through four lost answers, reloads or
late requests; three chunks let one be done, one on its way and one be still to
come. Four faults use up no more than five sessions.

*Recorder.* Two chunks give a chunk that is saved and one that waits, and a
manifest that lists one more than the store has. One recording with two uses of
the list's buttons reaches every deletion during every save; a second recording
lets a build of the first one's preview meet the start of the second, and is
followed while no button of the list is used. One trouble is one failure, lost
camera or crash anywhere; what two independent failures do is not explored, nor a
failure together with two uses of the buttons (`Followed` in `MCLocalRecording`):
that is left to the theorems, which hold for any number and cover all but
`StoppedIsShown`.

*Call.* Three sockets are one of each side and one more, opened after a
disconnect, a broken socket or a rejoin, which are the one disturbance. Two
calls let a second offer meet what the first left behind. One candidate of each
controller is enough for one to come early, late, or for another call; a list of
two that wait needs a refused one next to a new one, which happens with the
second call.

*Export panel.* Two recordings and two uploads give a change of candidate in
either direction, a restart and an export of an earlier upload. One fault is a
failed request, a failed job or a late write; what two do together is left to the
theorems, which hold for any number.

### Fairness

- `UploadService!FairSpec`: a request in progress moves on. Tokio polls ready
  futures and S3 answers or fails. Clients owe nothing.
- `SignalingRooms!FairSpec`: Go schedules every goroutine that can run, a mutex
  is not withheld for ever, and a socket write returns. The last is an
  assumption: the code writes with a context that has no deadline, and a peer
  that keeps its socket open and never reads would block its partner's handler.
- `ExportWorker!PatientSpec`: handlers and jobs of a live process move on, time
  passes, and the user asks again when the export failed or got stuck. Faults
  are not owed; a POST that comes too early, names another upload or asks for one
  that is not exact, an upload that is opened again and a chunk that is
  overwritten count among them, so that there are finitely many. Only a request
  that found no object at all overwrites one (storage.rs:455-505), which bounds
  the last.
- `UploadQueue!PatientSpec`: requests are answered or fail, IndexedDB answers,
  and the user presses Start or Resume, or Pause where nothing else is enabled,
  when nothing is going on. Failures and reloads come anywhere and are not owed.
- `UploadQueue!RetrySpec`: the same, and requests the browser gave up reach the
  service late, at any time, any number of times up to the bound on faults. None
  is a cancel, which this user never asked for. `UploadCompletes` names the two
  ways of getting stuck that remain: a reload while the record says
  `initializing` (`Stranded`), where every button is disabled, and a chunk counted
  as done that the service's manifest has forgotten (`Forgotten`), which is never
  sent again. Without either exception TLC finds a counterexample.
- `ExportPanel!PatientSpec`: requests are answered or fail, each kind without
  waiting for another, and the user presses Refresh while the panel does not
  show a ready export. Late writes are not owed and count among the faults.
  Nothing is assumed of rendering, which is what
  `export_unseen` shows.

### Findings

Each of these runs refutes a sentence of the documents:

1. `upload_chunk` saves the manifest it loaded before its S3 calls; the slower
   of two requests removes the other's confirmed chunk (`upload_forgets`,
   against `docs/contracts/recording-upload-api.md:14-15`).
2. `handleRecorderStop` asks for a transition the state machine refuses from
   `recording`: when the tracks end by themselves the MediaRecorder is gone, the
   manifest says `stopped`, and the page goes on saying `recording`
   (`recording_device`, against ADR-0016:52).
3. The export panel has an instance of `useRecordingUploadQueue` of its own,
   which reads the upload states again only when the preview renders; an upload
   that completes in the readiness panel is not offered until then
   (`export_unseen`, against `apps/web-studio/README.md:88`).
4. A reload before the first request of a run is answered leaves a record that
   says `initializing`, for which every button is disabled: the upload is not
   continued (`upload_stranded`, against
   `docs/design/browser-upload-queue-persistence.md:131-132`).

### Behaviours worth knowing

The models contain these as well. No run is spent on them; the properties that
pass either hold in spite of them or except them by name.

- `complete_upload` does not look for a canceled session, and a chunk request in
  progress writes its old record back: a canceled session lives on
  (ADR-0017:229 says cancel stops the session). `UploadPromise` therefore lets
  the phase go back to `open`.
- The terminal write of an export follows its check in another storage call, so
  an obsolete attempt may replace the current one
  (`docs/contracts/export-worker-api.md:101`). `ReadyIsDownloadable` holds all
  the same: the obsolete job has an MP4 of its own. A POST that loaded the
  manifest before another one was through takes a ready export back to
  `processing` in the same way. The panel then still offers the download
  (`ghost.late`), which the worker refuses until the export is ready again.
- A connection may join a room that has just been removed from the map, and the
  next ones of the session get another room (`services/signaling/README.md:34`).
- A chunk that clients sent with different lengths can be finalized with two byte
  counts (model.rs:393), and one with different bytes with another checksum than
  its object's. The worker refuses such an upload on every attempt
  (service.rs:565, 416); `UploadedIsExported` asks for an exact one.
- A merge of the service's status keeps what was done locally, so a chunk the
  manifest has forgotten stays done in the browser and the upload never completes
  (`Forgotten` in `UploadCompletes`).
- The run counter of the upload queue restarts at 1, so that an old run's token
  becomes current again. `UploadedWasFinal` holds all the same.
- A reset, or a clear of the list, sets the recorder's status to `available`
  while saves still wait; the failure of a chunk's save is overwritten by the
  status of the next list; a clear does nothing when the support probe had
  failed, and says nothing of it; a discard while recording is followed by saves
  that create the manifest again, without the chunks that went
  (`ghost.erased` in the properties).
- After a guest rejoins, the close event of the old socket clears the
  reference to the new one, which stays open with no button to close it
  (`OpenSocketIsHeld` excepts it by `left`). Its frames are still handled, and may
  start a call with a host that has left (`GoneHasNoCall` excepts it by
  `NeverLeft`).
- A late frame of the previous call makes a controller on a host that hung up;
  Start stays disabled until Close. A guest whose answer cannot be sent leaves
  the host waiting (a disturbance, which `OfferIsAnswered` excludes).
- An answer to a refresh or a start that comes after a change of candidate is
  shown for the new one (`ghost.crossed`). Between a change of candidate and the
  answer of its load, the old one's `ready` enables Download of the new one's
  export.

## Proofs

`tlapm` on the eight modules below checks everything this section says, for all
values of the constants that satisfy the named assumptions. Every safety
property of a passing run is a theorem.

Four proof attempts failed for a good reason and changed a model:

- `GoneHasNoCall` of `StudioCall` held on the instance of `studio_call` and is
  false beyond it. With four sockets TLC finds 25 steps: a guest joins anew while
  its first socket is still to close and connects a second; the late close event
  of the first clears the reference, so that it connects a third; the host's
  leaving is told on the third, and then an offer that waited in the second makes
  a controller. `onMessage` asks only whether the page is mounted
  (SignalingPanel.tsx:466-472), not which socket the frame came from. The
  property now excepts a page that joined anew before a socket had closed
  (`NeverLeft`).
- `ExportPanel` was proved right beside a worker in which an export that is ready
  stays ready. To say that `ExportWorker` is such a worker is false: its late
  writes take `ready` back. What it does promise is now `ExportPromise`, the
  panel's worker has `LateWrite`, and `SettledShowsTheCandidate` and
  `ReadyIsSeen` say what is still true: the file was made, and the worker still
  has it unless a late write came over it.
- `AfterSave` of `LocalRecording` had two `CASE` guards that were true together,
  which leaves the value open although TLC takes the first.
- `RecordingStore` and `UploadQueue` lacked the assumption that `None`, the code's
  `null`, is no record, no report and no session (`NoneAssumption`).

Stating that the queue is right beside every service that keeps `UploadPromise`
showed the same of its service as of the panel's worker: a slow request could
only shrink the manifest's list, while the promise also allows it to store a
chunk, to finalize and to cancel after the browser gave it up. `LateRequest` does
all of these; `UploadedFinal` holds with it and was proved again.

### UploadServiceProofs

Assumptions: `ChunksAssumption` (finitely many chunks, at least one),
`OffersAssumption` (offers have positive sizes and a checksum, which
`validate_chunk_request` ensures) and `NoneAssumption` (None is no record,
payload or offer). The number of requests is arbitrary.

`ManifestIsBacked` is not inductive: a request writes back the copy it loaded,
so what holds of the manifest has to hold of every copy. The inductive
invariant `IInv` therefore states `Sound` of the manifest *and of the private
copy of each request*, adds that every stored object was offered by a client
(so that a settled index has only one possible object), and, in `RequestOK`,
what a request has learned at each await: after a `HEAD` that found nothing its
copy knows no checksum, and an accepted answer means a stored object. Each
method of the record preserves `Sound` (`AcceptChunkSound`, `RejectChunkSound`,
`StatusSound`); `Sound` and `RequestOK` are monotone in the stored objects
(`SoundGrows`, `RequestGrows`), because objects are never deleted and replaced
only where clients disagree. From `IInv` follow

- `TypeCorrectness`, `ManifestBacked`, `AcceptedDurable`, `FinalizedWhole`,
  `CountersExact`, `PutNeverRejected`, the six invariants of `upload_service`;
- `ServiceKeepsPromise`: `Spec => ImplementsPromise`, with `PutChunk` mapped to
  `Store`, `Overwrite` or a stutter, `SaveManifest` to `Publish` and every other
  step to a stutter. That a settled index is exact once it is listed follows from
  `Sound`.

### SignalingRoomsProofs

Assumption: `ConnsAssumption` (finitely many connections, disjoint roles, one
more room object than connections).

`RoomsAreReclaimed` says that the map's room has a handler in progress. The
step that could break it is a handler that ends without deleting the entry: it
does so because it saw a slot taken. So the proof needs that a taken slot names
a handler that still sits in that room, which is `SlotsAreHeld` together with
`SlotsKeepRoles` (a membership is only ever written to the slot of its own
role). `isEmpty` needs no lock for this: a handler sits in the room at the
moment its slot is *read*, and it will ask for the removal itself when it
leaves. `IInv` is the conjunction of these with `TypeOK`; `StaysSeated` and
`EndsUnseated` cover the handlers that go on and those that end, and each
action has a lemma of its own. `TypeCorrectness`, `SlotsHeld` and
`RoomsReclaimed` follow.

`OneKnows` (`OneOfThemKnows`) says what two browsers were told once both handlers
are in their loop, and holds because of what the handlers had read before. `KInv`
says it of every two handlers of one room and of different roles that may stay
(`Staying`: the leave is not on its way): one of them has still to read its
room-state, or is about to write one that names the other, or has announced
itself and told its browser of the other (`TheLaterIsTold`). That takes
`PeersAreRead`: the peer a handler is about to write to has the other role and
is in the same room or in none, so that a late peer-joined or peer-left reaches
nobody of another room. The step that counts is the later one's read of the
room-state: the other one sits in its slot by then (`PeerIsThere`, from
`SlotsAreHeld`), so that it is read. Only three writes change what a browser was
told: its own room-state, which named the other; the other's peer-joined, which
names it too; and the other's peer-left, after which the other does not stay. A third
handler would have to be of the role of one of the two and sit in their room
(`OneOfARole`). `PeerMoves`, `PlaceMoves` and `ViewMoves` state this of a step,
and every action is shown to be such a move.

### ExportWorkerProofs

Assumption: `ExportAssumption`.

`ReadyIsDownloadable` is written by a job that may be obsolete by then, so it
cannot rest on the check before the write. `IInv` says what a job carries
(`JobOK`): from its validation on, its request names the upload and every chunk
is stored; from its put on, while it means to report success, its MP4 is stored.
Stored chunks stay stored (`PromiseSteps`), which is all that is needed of the
upload: the phase may change at will, and so may what is exact. That no POST
takes over the job of another attempt needs `PostOK`: the id a POST is about to
store was drawn (`Drawn`: at an earlier time, or now with a number up to the
counter), has no job yet and is not in the manifest. `NextIsFresh` and
`DrawnLasts` are the two facts about ids: one drawn next was not drawn before, by
this process or an earlier one, and time takes none back. `Invariance` covers the
steps of `Next` and of `PatientNext`.

`WorkerKeepsPromise` is the refinement of `ExportPromise`. The requests worked on
are those of the POSTs in progress and of the jobs that are not over, the
requests with a file those of the jobs that put one. `PInv` adds to `IInv` that a
POST stores the request it came with (`StoresAsked`) and that a file has a job
(`JobMadeIt`), so that an attempt about to get its job has no file yet. Then a
POST's load that starts nothing, a crash and a dropped request map to `GiveUp`,
`PutOutput` to `Make`, and the store of a POST and of a job to `Write`: what a
job writes ready was made, by `JobOK`. Everything else is a stutter.

### UploadQueueProofs

Assumptions: `QueueAssumption` and `NoneAssumption` (`None` is no session and no
record).

What a record says passes through many hands before it is saved: IndexedDB, the
panel, a listing under way and every handler keep copies, and answers wait to be
applied. So `IInv` says of every copy (`Honest`) and every answer (`HonestReply`)
what `UploadedWasFinal` says of the record, and `HandlerOK` says which copy a
handler relies on at each await. `SettersAreHonest` covers the setters; a
session that exists, or has been final, stays so (`Grows`), so that a copy does
not age (`HonestStays`). `UploadedFinal` and `TypeCorrectness` hold with the patient
user and without.

`DoneIsStored` and `ConfirmedIsNotResent` are about one run at a time
(`PatientSpec`). `PInv` says that at most one handler is at work, that the
panel, the run and the store agree wherever `runUpload` decides, and that what
the record counts as done lies between what the session's manifest lists and
what the session stores, but for the one chunk whose answer is on its way.

`PromisedStepIsAllowed` takes any `Store` or `Publish` of `UploadPromise` at one
session and shows that it is a `LateRequest`; there is no `Overwrite`, since every
request for an index sends the recorded chunk. `Phase` maps statuses to phases;
`Open` is `HandleCreate`, and no session is open before it.

### LocalRecordingProofs

Assumptions: `RecordingAssumption`, `BoundAssumption`.

A manifest lists a chunk as soon as the data arrives, long before both are
saved. `ListedChunksAreStored` therefore needs the same of the manifest in
memory and of every manifest that waits in the queue: `Backed` says that each
chunk one of them lists is stored, has had its save fail, or is `Due`, to be
saved by a task no later than the manifest's own. The lemmas about values follow
the queue: `EnqueueKeeps` (a new task goes behind all that its manifest needs),
`SaveChunkKeeps`, `SaveManifestKeeps` (when a manifest is saved, what it lists
is no longer due), `FinishKeeps`, `DeleteKeeps` (what is deleted while it is
being made is counted). Each action then has a lemma of its own. `HeldOK` (a
recorder at work has a manifest) is what keeps the late events of a
`MediaRecorder` from saving nothing.

### SavedRecordingProofs

Assumptions: those of `LocalRecordingProofs` and the store's `NoneAssumption`.

Each property adds an invariant of its own to `IInv` of `LocalRecordingProofs`:

- `OInv`: the manifests of a recording that are stored, wait in the queue and
  are in memory follow each other (`InOrder`), chunks come only while the
  recording is going on (`Remembered`), and, while nothing failed, the manifest
  in memory is stored or waits (`Latest`). `ManifestAdvances` and `MemoryIsSaved`
  follow; the latter also needs `Backed`, for the chunks.
- `RInv`: a preview that is shown or being shown is of a stored recording, or its
  delete is done and the panel has still to hear of it (`Going`). A page that was
  left has none. `RecoveredStored` follows.
- `PInv`: a recording whose preview is being built or shown is over (`Over`, no
  more data will come), its builder waits for every chunk that is still in the
  queue, and none is left when it reads, or when a write comes between its two
  reads (`WritePlayback`). `PlaybackWhole` follows.
- `HInv`: what is reported healthy and saved as stopped is whole, or the first
  task has just saved it and goes on to check it (`ToCheck`). The point is that no chunk
  can wait behind the save of the stop (`StoppedHasNoChunks`), so the check after
  it is the last word. `HealthyWhole` follows.
- `VInv`: while nothing failed, the panel shows the store or a task waits that
  will read it again (`Informed`). A save of a recording that is no longer current
  reads nothing, so the invariant also needs that each such save has a delete
  behind it (`SavesFollowed`), and that the recording in memory stays current
  unless it was erased (`CurrentKept`). `ShowsStore` follows.

The steps that add tasks are dealt with together: `AddingGrows` says that they
only append, and what. For each invariant a lemma `StepKeeps...` combines them
with the steps of the first task, of the page and of the previews.

### StudioCallProofs

Assumption: `CallAssumption`.

`IInv` has three parts. A controller keeps every candidate it was given: it is
applied, in an operation of the chain, or pending, and none is pending for a
description that is set (`CtrlOK`); this is `NoCandidateLost`. A page's sockets
have an order, the one it holds is the last, and an open one it does not hold has
an earlier one that was left (`HeldOK`); this is `OpenSocketHeld`. And `CallOK`
says of the frames on their way what `GoneHasNoCall` says of the page: no offer,
answer or candidate is behind a `peer-left` with no `peer-joined` or `room-state`
between them (`FramesOK`), which holds because the other side's handler announces
itself before it relays and says its leaving last (`Announced`). `GoneNoCall`
follows.

`OfferAnswered` (`OfferIsAnswered`) says of a state in which nothing is left to
do that the host's offer has been answered. It is a second invariant, `Quiet`: as
long as nobody hung up, left or lost a connection, an offer the host has out is
somewhere on its way (`OnItsWay`). It is in the host's outbox or the guest's
inbox, in the guest's chain before or after the answer is made (`Answering`), or
the answer is in the guest's outbox, the host's inbox or the host's chain; and
none of these places is one where things may rest. The relay drops what it has
no peer for, so the invariant also needs that there is one: each page holds the
one socket it opened (`QuietSockets`), neither page was disturbed
(`QuietPages`), and the host makes an offer only once it was told of the guest,
whose handler is then in its loop (`GuestIsThere`). Disturbances are only
counted up (`TroubleGrows`), so every step of a quiet behaviour started quiet.
Lemmas named `...Goes` say what an operation of the controller does to the
offer, those named `...Keeps` what an action does to the chain.

### ExportPanelProofs

Assumption: `ExportPanelAssumption`.

The panel takes answers as they come, so what it shows is right because of what
may be under way: a load of the current turn is of the candidate (`LoadsOK`), a
refresh or a start is too unless the candidate changed under it
(`OfTheCandidate`), and what says ready ages only by a late write: its file was
made, and stays (`ReadyIsTrue`, `StartOK`, `WorkerOK`). `SettledShows` follows.

`WorkerPromises` shows that the worker in this module implements `ExportPromise`,
for each recording, and `PromisedWriteIsAllowed` the converse that the
composition rests on: each write the promise allows, of any upload that was asked
for and at any time, is a step of the module.

`CandidateIsTheLatest` is about `selectLatestExportCandidate`: among any finite
set of recordings the one that completed last is chosen; that there is one
(`LastExists`) is an induction over the finite sets of later ones.

### Only model-checked

Liveness (`UploadedIsExported`, `RoleIsFreed`, `UploadCompletes`, `ReadyIsSeen`)
is outside what the proof system handles, and so is ENABLED, by which
`StoppedIsShown` says that a recording that is neither stopped and shown nor
failed nor erased still has a step to come: one of the queue of saves, of the
MediaRecorder that is ending or of a build of a preview. It assumes no fairness,
and shows that no such recording is stuck; that IndexedDB answers and the
MediaRecorder fires its events is what ends the waiting. `DoneIsStored` and
`ConfirmedIsNotResent` are proved of `PatientSpec`; with late requests
(`RetrySpec`) they are model-checked.

## What is left out

- Listings, status queries and downloads that only read, except where a client
  acts on what it read.
- Validation of request formats, CORS, logging, configuration.
- The upload service's in-memory repository, which only tests use.
- A clock that is set back across a restart of the export worker, or a restart
  within a millisecond: two attempts could then share an id.
- The bytes of chunks, WebM and MP4 files; FFmpeg succeeds or fails.
- A write of a service to S3 whose request was abandoned does not land later: an
  abandoned request's last write either took place or did not.
- In `UploadQueue`: chunks the service rejects (it rejects other bytes for a
  known index, and a recording's chunk does not change); `retrying`, which
  differs from `failed` by its label only; a chunk record that is missing after
  a deletion counts as not done.
- In `SignalingRooms`: the contents of signals, and the connections refused
  before they reach `join`.
- In `LocalRecording`: a browser without IndexedDB or MediaRecorder; a return to
  the page before the old queue is done; a failed read of the totals alone;
  quota, sizes and timestamps.
- In `StudioCall`: the page's unmount (the service sees it as a socket that
  breaks), the data channel, remote audio, the ICE servers, frames that do not
  parse, a test signal that gets through (only logged), and a rejoin of the
  host, whose participant does not change.
- In `ExportPanel`: messages, and the export id in localStorage, which is a
  function of the recording.
- That a peer is not told of a departure when the leaving handler failed early,
  and that two first POSTs run two jobs, are behaviours of the models without a
  property; see the hazards.

### Not modelled

- The control-plane API: its handlers are one or two SQL statements each, no
  other component reads its tables, and what the documents promise of it are
  status codes of single calls.
- The media worker has no state. The landing page, routes and forms render.
- Infrastructure, scripts and documents.

## Plan

Done, in the order of importance: `UploadService` with `UploadPromise` and their
proofs; `ExportWorker` over the promise; `SignalingRooms` and its proofs;
`UploadQueue`; `RecordingStore` and `LocalRecording`; `StudioCall`;
`ExportPanel`; the proofs of the last four and of `OneOfThemKnows`; the proof of
`OfferIsAnswered`; `ExportPromise`, and the proofs that the worker keeps it and
that the panel relies on no more than it, and that the queue relies on no more
than `UploadPromise`.

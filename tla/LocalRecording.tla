---------------------------- MODULE LocalRecording ----------------------------
(***************************************************************************)
(* The local recorder of the studio (useLocalMediaRecorder.ts) with the    *)
(* camera preview it records (LocalMediaPreview.tsx): the buttons, the     *)
(* events of the browser's MediaRecorder, the queue of saves, the previews *)
(* built from IndexedDB, the list of saved recordings and its checks.      *)
(*                                                                         *)
(* A step is what JavaScript runs from one await to the next.  A read and  *)
(* the use of its answer are one step where no write can come in between   *)
(* or where the answer is not used; the previews, which read outside the   *)
(* queue, take a step for each.  The browser has IndexedDB.                *)
(***************************************************************************)
EXTENDS RecordingStore, Sequences

CONSTANTS
  MaxPresses,   \* bound on the list's buttons, on leaving, on another preview
  MaxTrouble    \* bound on failures, lost devices and crashes

ASSUME BoundAssumption == {MaxPresses, MaxTrouble} \subseteq Nat

(* Camera requests, and the streams they are given.                        *)
Streams == 1 .. MaxPresses + 1

VARIABLES
  disk,       \* IndexedDB: per recording its manifest and its chunks
  camera,     \* the preview: status, stream, request, and what is pending or live
  snap,       \* the recording state machine
  recorder,   \* the MediaRecorder, and how far it is with ending
  take,       \* the manifest, the current recording id and the ids handed out
  queue,      \* the persistence queue and the place of its first task
  shown,      \* what the panel shows of the storage: status, list, reports
  total,      \* the storage summary, as it was last read
  playback,   \* the preview of the recording just made, and its builders
  recovered,  \* the preview of a saved recording, and its load
  page,       \* how far the page is with opening, or "left"
  ghost       \* history: failed saves, recordings erased while made, the bounds

vars == <<disk, camera, snap, recorder, take, queue, shown, total, playback,
          recovered, page, ghost>>

-----------------------------------------------------------------------------
(* The state machine (recordingStateMachine.ts): an event that is not      *)
(* allowed leaves the state as it is.  prepare is followed by start or     *)
(* fail in the same step, so that preparing is never seen.                 *)

SnapStates == {"idle", "preparing", "recording", "stopping", "stopped", "failed"}

\* Mutant of Allowed: the table lets a recording stop before it is stopping.
AllowedTooEarly ==
  [prepare |-> {"idle"}, start |-> {"preparing"}, stop |-> {"recording"},
   stopped |-> {"recording"}, fail |-> {"preparing", "recording", "stopping"},
   reset |-> {"stopped", "failed"}]

Allowed == [prepare |-> {"idle"}, start |-> {"preparing"}, stop |-> {"recording"},
            stopped |-> {"stopping"}, fail |-> {"preparing", "recording", "stopping"},
            reset |-> {"stopped", "failed"}]

Target == [prepare |-> "preparing", start |-> "recording", stop |-> "stopping",
           stopped |-> "stopped", fail |-> "failed", reset |-> "idle"]

transition(state, event) == IF state \in Allowed[event] THEN Target[event] ELSE state

-----------------------------------------------------------------------------
NoRecorder == [held |-> FALSE, on |-> FALSE, ending |-> "no"]

NoTake == [rec |-> 0, manifest |-> None, current |-> 0]

EmptyQueue == [tasks |-> <<>>, pc |-> "start", active |-> 0, bad |-> FALSE]

BlankList == [r \in Recordings |-> None]

Unchecked == [support |-> "not_checked", status |-> "not_checked", current |-> FALSE,
              list |-> BlankList, reports |-> BlankList, check |-> "idle"]

NoTotal == [recordings |-> 0, chunks |-> 0]

NoBuild == [pc |-> "none", left |-> 0, got |-> {}]

NoPreview == [rec |-> 0, chunks |-> {}]

NoPlayback == [preview |-> NoPreview, builds |-> [r \in Recordings |-> NoBuild]]

NotRecovered == [status |-> "idle", rec |-> 0, pc |-> "none", got |-> {}]

Init ==
  /\ disk = [r \in Recordings |-> NoEntry]
  /\ camera = [status |-> "idle", stream |-> 0, wanted |-> 0, asked |-> {}, live |-> {},
             made |-> 0]
  /\ snap = "idle"
  /\ recorder = NoRecorder
  /\ take = NoTake
  /\ queue = EmptyQueue
  /\ shown = Unchecked
  /\ total = NoTotal
  /\ playback = NoPlayback
  /\ recovered = NotRecovered
  /\ page = [at |-> "probing", memo |-> "none"]
  /\ ghost = [made |-> 0, lost |-> [r \in Recordings |-> {}], erased |-> {},
              failing |-> FALSE, trouble |-> 0,
              presses |-> 0]

Mounted == page.at # "left"

(* The page ran into trouble: a device, or a storage operation.            *)
Trouble(g) == g.trouble < MaxTrouble /\ ghost' = [g EXCEPT !.trouble = @ + 1]

StorageTrouble(g) == Trouble([g EXCEPT !.failing = TRUE])

(* A button whose use is bounded.                                          *)
Press == ghost.presses < MaxPresses /\ ghost' = [ghost EXCEPT !.presses = @ + 1]

-----------------------------------------------------------------------------
(* The persistence queue.  A task is a manifest to save ("manifest"), a    *)
(* chunk and the manifest that lists it ("chunk"), a recording to discard  *)
(* ("discard" from the list, "reset" from the recorder), all of them to    *)
(* clear, or one to check.                                                 *)

Task(kind, r, m) == [kind |-> kind, rec |-> r, manifest |-> m,
                     support |-> shown.support, newest |-> TRUE]

Deletes == {"discard", "reset", "clear"}

\* Mutant of enqueue: the newest save goes first among those that wait.
enqueueAhead(q, task) ==
  [q EXCEPT !.tasks = IF @ = <<>> THEN <<task>> ELSE <<Head(@), task>> \o Tail(@)]

enqueue(q, task) == [q EXCEPT !.tasks = Append(@, task)]

Head1 == Head(queue.tasks)

At(pc) == queue.tasks # <<>> /\ queue.pc = pc

AtTask(kinds, pc) == At(pc) /\ Head1.kind \in kinds

To(pc) == queue' = [queue EXCEPT !.pc = pc]

Waited(b) == IF b.pc = "wait" /\ b.left > 0 THEN [b EXCEPT !.left = @ - 1] ELSE b

(* The first task is done: the builders that wait for it have one less.    *)
Finish ==
  /\ queue' = [EmptyQueue EXCEPT !.tasks = Tail(queue.tasks)]
  /\ playback' = [playback EXCEPT !.builds = [r \in Recordings |-> Waited(@[r])]]

\* Mutant of idlePersistenceStatus: the support is taken for the status.
supportAsStatus(support) == support

idlePersistenceStatus(support) ==
  CASE support = "supported" -> "available"
    [] support = "failed" -> "failed"
    [] OTHER -> "not_checked"

(* persistCurrentManifestState and persistLocalRecordingChunk: the manifest *)
(* as it is now is saved later, and until then the panel says persisting.  *)
persist(kind, r, m) ==
  /\ queue' = enqueue(queue, Task(kind, r, m))
  /\ shown' = [shown EXCEPT !.status = "persisting", !.current = FALSE]

commitManifest(m) == take' = [take EXCEPT !.manifest = m]

-----------------------------------------------------------------------------
(* What the panel shows of the storage: refreshPersistedRecordingList with *)
(* a status that says whether the recording it was called for is there,    *)
(* and after it refreshLocalStorageSummary.  A list that cannot be read    *)
(* leaves the old one.                                                     *)

Listed(active) ==
  LET current == active # 0 /\ disk[active].manifest # None
  IN [shown EXCEPT !.support = "supported", !.list = listRecordings(disk),
                   !.current = current,
                   !.status = IF current THEN "persisted" ELSE "available"]

Unlisted == [shown EXCEPT !.support = "failed", !.status = "failed"]

(* Nothing is read when the support probe has failed, which is remembered. *)
refreshLocalStorageSummary ==
  total' = IF page.memo = "failed" THEN NoTotal ELSE storageSummary(disk)

-----------------------------------------------------------------------------
(* The page opens: support, then the list, then the summary.  The module   *)
(* remembers what it found about the support until the page is reloaded.   *)

initializePersistenceSupport ==
  /\ page.at = "probing"
  /\ \/ /\ page.memo # "failed"
        /\ shown' = [shown EXCEPT !.support = "supported", !.status = "available"]
        /\ page' = [at |-> "listing", memo |-> "supported"]
        /\ UNCHANGED ghost
     \/ /\ page.memo # "supported"
        /\ shown' = [shown EXCEPT !.support = "failed", !.status = "failed",
                                  !.list = BlankList, !.current = FALSE]
        /\ page' = [at |-> "open", memo |-> "failed"]
        /\ IF page.memo = "none" THEN StorageTrouble(ghost) ELSE UNCHANGED ghost
  /\ UNCHANGED <<disk, camera, snap, recorder, take, queue, total, playback, recovered>>

InitialList ==
  /\ page.at = "listing"
  /\ \/ shown' = Listed(0) /\ UNCHANGED ghost
     \/ shown' = Unlisted /\ StorageTrouble(ghost)
  /\ refreshLocalStorageSummary
  /\ page' = [page EXCEPT !.at = "open"]
  /\ UNCHANGED <<disk, camera, snap, recorder, take, queue, playback, recovered>>

-----------------------------------------------------------------------------
(* The steps of the first task.                                            *)

(* A build of a preview reads the record and then the chunks, and IndexedDB *)
(* runs the transactions in the order in which they were asked for: one     *)
(* write may come between the two reads, no second one before the chunks    *)
(* are read, and none before what was read is shown.                       *)
Overtakes(b) == IF b.pc = "read" THEN [b EXCEPT !.pc = "late"] ELSE b

Write ==
  /\ \A r \in Recordings : playback.builds[r].pc \notin {"late", "show"}
  /\ playback' = [playback EXCEPT !.builds = [r \in Recordings |-> Overtakes(@[r])]]

(* saveLocalRecordingChunk of a chunk task; a failure is kept for later.   *)
SaveChunk ==
  /\ AtTask({"chunk"}, "start")
  /\ Write
  /\ LET r == Head1.rec
         i == Head1.manifest.n - 1
     IN \/ /\ disk' = saveChunk(disk, r, i)
           /\ To("manifest")
           /\ UNCHANGED ghost
        \/ /\ queue' = [queue EXCEPT !.pc = "manifest", !.bad = TRUE]
           /\ StorageTrouble([ghost EXCEPT !.lost[r] = @ \cup {i}])
           /\ UNCHANGED disk
  /\ UNCHANGED <<camera, snap, recorder, take, shown, total, recovered, page>>

SaveManifest ==
  /\ AtTask({"manifest"}, "start") \/ At("manifest")
  /\ Write
  /\ \/ /\ disk' = saveManifest(disk, Head1.rec, Head1.manifest)
        /\ To(IF queue.bad THEN "unsaved" ELSE "saved")
        /\ UNCHANGED ghost
     \/ /\ To("unsaved")
        /\ StorageTrouble(ghost)
        /\ UNCHANGED disk
  /\ UNCHANGED <<camera, snap, recorder, take, shown, total, recovered, page>>

(* After the saves: nothing more for a recording that is not current.      *)
AfterSave ==
  /\ At("saved") \/ At("unsaved")
  /\ IF ~Mounted \/ take.current # Head1.rec
     THEN Finish /\ UNCHANGED shown
     ELSE /\ shown' = IF queue.pc = "saved" THEN shown ELSE [shown EXCEPT !.status = "failed"]
          /\ queue' = [queue EXCEPT !.active = Head1.rec,
                !.pc = CASE queue.pc = "saved" -> "refresh"
                         [] queue.pc = "unsaved" /\ Head1.kind = "chunk" -> "relist"
                         [] OTHER -> "resum"]
          /\ UNCHANGED playback
  /\ UNCHANGED <<disk, camera, snap, recorder, take, total, recovered, page, ghost>>

(* The recordings that have saves to come, or may have.                    *)
BeingMade == {take.rec} \cup {queue.tasks[i].rec : i \in
               {j \in DOMAIN queue.tasks : queue.tasks[j].kind \in {"manifest", "chunk"}}}

(* deletePersistedLocalRecording, deleteAllPersistedLocalRecordings: the   *)
(* latter deletes nothing when the support had failed.                     *)
Delete ==
  /\ AtTask(Deletes, "start")
  /\ Write
  /\ LET gone == IF Head1.kind # "clear" THEN {Head1.rec}
                 ELSE IF page.memo = "failed" THEN {} ELSE Recordings
     IN \/ /\ disk' = deleteRecordings(disk, gone)
           /\ To("deleted")
           /\ ghost' = [ghost EXCEPT !.erased = @ \cup (gone \cap BeingMade)]
        \/ /\ To("undeleted")
           /\ StorageTrouble(ghost)
           /\ UNCHANGED disk
  /\ UNCHANGED <<camera, snap, recorder, take, shown, total, recovered, page>>

\* Mutant of clearRecovered: the request id stays as it is.
clearRecoveredOnly(all, r) ==
  recovered' = IF all \/ recovered.rec = r
               THEN [recovered EXCEPT !.status = "idle"] ELSE recovered

(* clearRecoveredPreviewState: a load in progress has lost its request.    *)
clearRecovered(all, r) ==
  recovered' = IF all \/ recovered.rec = r THEN NotRecovered ELSE recovered

\* Mutant of AfterDelete: the list is not read again.
AfterDeleteUnlisted ==
  /\ At("deleted")
  /\ Finish
  /\ clearRecovered(Head1.kind = "clear", Head1.rec)
  /\ take' = IF take.current = Head1.rec THEN [take EXCEPT !.current = 0] ELSE take
  /\ shown' = [shown EXCEPT !.status = idlePersistenceStatus(shown.support)]
  /\ UNCHANGED <<disk, camera, snap, recorder, total, page, ghost>>

(* A discarded recording is no longer current; clearing all of them leaves *)
(* the current one as it is.                                               *)
AfterDelete ==
  /\ At("deleted")
  /\ LET r == Head1.rec
         all == Head1.kind = "clear"
         current == IF ~all /\ take.current = r THEN 0 ELSE take.current
     IN IF ~Mounted
        THEN Finish /\ UNCHANGED <<take, shown, recovered>>
        ELSE /\ clearRecovered(all, r)
             /\ take' = [take EXCEPT !.current = current]
             /\ shown' = [shown EXCEPT !.check = "idle",
                            !.reports = [q \in Recordings |->
                              IF all \/ q = r THEN None ELSE @[q]]]
             /\ queue' = [queue EXCEPT !.pc = "refresh", !.active = current]
             /\ UNCHANGED playback
  /\ UNCHANGED <<disk, camera, snap, recorder, total, page, ghost>>

AfterFailedDelete ==
  /\ At("undeleted")
  /\ Finish
  /\ shown' = IF Mounted THEN [shown EXCEPT !.status = "failed"] ELSE shown
  /\ UNCHANGED <<disk, camera, snap, recorder, take, total, recovered, page, ghost>>

(* What follows are reads, and what they show commutes with all that can   *)
(* happen between them: after a save the list, the summary and the check   *)
(* of the recording, after a failed chunk no check, after a failed         *)
(* manifest the summary alone; after a delete the status of the support    *)
(* the panel knew when the button was pressed.                             *)
Checked(r, s) ==
  [s EXCEPT !.reports[r] = IF page.memo = "failed" THEN "unknown"
                           ELSE integrityStatus(disk[r])]

Uncheckable(r, s) == [s EXCEPT !.reports[r] = "unknown"]

Deleted(s) == [s EXCEPT !.current = FALSE,
                        !.status = idlePersistenceStatus(Head1.support)]

Refreshed(s) ==
  IF Head1.kind \in Deletes THEN Deleted(s)
  ELSE IF queue.pc = "refresh" THEN Checked(Head1.rec, s) ELSE s

Refresh ==
  /\ At("refresh") \/ At("relist") \/ At("resum")
  /\ IF ~Mounted THEN UNCHANGED <<shown, total, ghost>>
     ELSE /\ \/ /\ shown' = IF queue.pc = "resum" THEN shown ELSE Refreshed(Listed(queue.active))
                /\ UNCHANGED ghost
             \/ /\ queue.pc # "resum"
                /\ shown' = Refreshed(Unlisted)
                /\ StorageTrouble(ghost)
             \/ /\ queue.pc = "refresh" /\ Head1.kind \notin Deletes
                /\ shown' = Uncheckable(Head1.rec, Listed(queue.active))
                /\ StorageTrouble(ghost)
          /\ refreshLocalStorageSummary
  /\ Finish
  /\ UNCHANGED <<disk, camera, snap, recorder, take, recovered, page>>

(* The check of the button ends, unless a newer one has started.           *)
CheckOne ==
  /\ AtTask({"check"}, "start")
  /\ LET ended == IF Head1.newest THEN [shown EXCEPT !.check = "ready"] ELSE shown
     IN IF ~Mounted THEN UNCHANGED <<shown, ghost>>
        ELSE \/ shown' = Checked(Head1.rec, ended) /\ UNCHANGED ghost
             \/ shown' = Uncheckable(Head1.rec, ended) /\ StorageTrouble(ghost)
  /\ Finish
  /\ UNCHANGED <<disk, camera, snap, recorder, take, total, recovered, page>>

-----------------------------------------------------------------------------
(* The recording.                                                          *)

\* Mutant of failRecording: the failed manifest is not saved.
failRecordingUnsaved ==
  /\ snap' = "failed"
  /\ IF take.manifest = None THEN UNCHANGED take
     ELSE commitManifest(markManifestFailed(take.manifest))
  /\ UNCHANGED <<queue, shown>>

failRecording ==
  /\ snap' = "failed"
  /\ IF take.manifest = None THEN UNCHANGED <<take, queue, shown>>
     ELSE LET m == markManifestFailed(take.manifest)
          IN commitManifest(m) /\ persist("manifest", take.rec, m)

(* startRecording.  The artifacts of the last recording are cleared before *)
(* the browser has accepted the stream; a dead one it refuses.  The page   *)
(* has read its list by then, which the code takes for granted.            *)
startRecording ==
  /\ page.at = "open"
  /\ snap \in Allowed["prepare"]
  /\ camera.stream # 0
  /\ ghost.made < MaxRecordings
  /\ \/ /\ camera.stream \in camera.live
        /\ LET r == ghost.made + 1
           IN /\ ghost' = [ghost EXCEPT !.made = r]
              /\ take' = [rec |-> r, manifest |-> createLocalRecordingManifest,
                          current |-> r]
              /\ persist("manifest", r, createLocalRecordingManifest)
        /\ snap' = "recording"
        /\ recorder' = [held |-> TRUE, on |-> TRUE, ending |-> "no"]
     \/ /\ IF camera.stream \in camera.live THEN Trouble(ghost) ELSE UNCHANGED ghost
        /\ take' = NoTake
        /\ snap' = "failed"
        /\ shown' = [shown EXCEPT !.current = FALSE]
        /\ UNCHANGED <<recorder, queue>>
  /\ playback' = [playback EXCEPT !.preview = NoPreview]
  /\ UNCHANGED <<disk, camera, total, recovered, page>>

(* What stopRecording does while the snapshot says recording: without a    *)
(* recorder the recording has failed, and a recorder may refuse to stop.   *)
stopping ==
  \/ ~recorder.held /\ failRecording /\ UNCHANGED <<recorder, ghost>>
  \/ /\ recorder.held
     /\ LET m == transitionManifestStatus(take.manifest, "stopping")
        IN commitManifest(m) /\ persist("manifest", take.rec, m)
     /\ snap' = transition(snap, "stop")
     /\ recorder' = [recorder EXCEPT !.on = FALSE, !.ending = IF recorder.on THEN "data" ELSE @]
     /\ UNCHANGED ghost
  \/ /\ recorder.held
     /\ LET m == transitionManifestStatus(take.manifest, "stopping")
            failed == markManifestFailed(m)
        IN /\ commitManifest(failed)
           /\ queue' = enqueue(enqueue(queue, Task("manifest", take.rec, m)),
                               Task("manifest", take.rec, failed))
           /\ shown' = [shown EXCEPT !.status = "persisting", !.current = FALSE]
     /\ snap' = "failed"
     /\ recorder' = NoRecorder
     /\ Trouble(ghost)

stopRecording ==
  /\ Mounted
  /\ snap = "recording"
  /\ stopping
  /\ UNCHANGED <<disk, camera, total, playback, recovered, page>>

(* resetRecording: the recording is discarded after what is already saved. *)
resetRecording ==
  /\ Mounted
  /\ snap \in Allowed["reset"]
  /\ snap' = transition(snap, "reset")
  /\ recorder' = NoRecorder
  /\ take' = NoTake
  /\ playback' = [playback EXCEPT !.preview = NoPreview]
  /\ LET r == IF take.current # 0 THEN take.current ELSE take.rec
     IN IF r = 0 THEN shown' = [shown EXCEPT !.current = FALSE] /\ UNCHANGED queue
        ELSE /\ queue' = enqueue(queue, Task("reset", r, None))
             /\ shown' = [shown EXCEPT !.status = "persisting", !.current = FALSE]
  /\ UNCHANGED <<disk, camera, total, recovered, page, ghost>>

(* handleRecorderDataAvailable, at a timeslice or last of all; then the    *)
(* data may be empty.                                                      *)
DataAvailable ==
  /\ recorder.held
  /\ recorder.on \/ recorder.ending = "data"
  /\ take.manifest # None
  /\ take.manifest.n < MaxChunks
  /\ LET m == appendChunkEntry(take.manifest)
     IN commitManifest(m) /\ persist("chunk", take.rec, m)
  /\ recorder' = IF recorder.on THEN recorder ELSE [recorder EXCEPT !.ending = "stop"]
  /\ UNCHANGED <<disk, camera, snap, total, playback, recovered, page, ghost>>

EmptyData ==
  /\ recorder.held
  /\ recorder.ending = "data"
  /\ recorder' = [recorder EXCEPT !.ending = "stop"]
  /\ UNCHANGED <<disk, camera, snap, take, queue, shown, total, playback, recovered,
                 page, ghost>>

\* Mutant of awaitQueue: the preview is built at once.
awaitNothing(r, left) == [playback EXCEPT !.builds[r] = [NoBuild EXCEPT !.pc = "wait"]]

(* finalizeCurrentRecordingPreview waits for the tasks there are now.      *)
awaitQueue(r, left) ==
  [playback EXCEPT !.builds[r] = [NoBuild EXCEPT !.pc = "wait", !.left = left]]

(* handleRecorderStop.  The tracks may have ended by themselves: then the  *)
(* snapshot still says recording, and stays so.                            *)
RecorderStopped ==
  /\ recorder.held
  /\ recorder.ending = "stop"
  /\ recorder' = NoRecorder
  /\ snap' = transition(snap, "stopped")
  /\ LET m == finalizeManifest(take.manifest)
     IN commitManifest(m) /\ persist("manifest", take.rec, m)
  /\ playback' = awaitQueue(take.rec, Len(queue.tasks) + 1)
  /\ UNCHANGED <<disk, camera, total, recovered, page, ghost>>

RecorderFailed ==
  /\ recorder.held
  /\ recorder.on
  /\ recorder' = NoRecorder
  /\ snap' = transition(snap, "fail")
  /\ LET m == markManifestFailed(take.manifest)
     IN commitManifest(m) /\ persist("manifest", take.rec, m)
  /\ Trouble(ghost)
  /\ UNCHANGED <<disk, camera, total, playback, recovered, page>>

-----------------------------------------------------------------------------
(* The preview of the recording just made.  It is shown when it is built,  *)
(* whatever has become current in the meantime.                            *)

ToBuild(r, pc, got) == [playback EXCEPT !.builds[r] = [pc |-> pc, left |-> 0, got |-> got]]

StartBuild(r) ==
  /\ playback.builds[r].pc = "wait"
  /\ playback.builds[r].left = 0
  /\ playback' = IF Mounted /\ take.current = r
                 THEN ToBuild(r, IF disk[r].manifest = None THEN "show" ELSE "read", {})
                 ELSE ToBuild(r, "none", {})

ReadChunks(r) ==
  /\ playback.builds[r].pc \in {"read", "late"}
  /\ playback' = ToBuild(r, "show", disk[r].chunks)

(* Without a chunk the preview is unavailable.                             *)
ShowPreview(r) ==
  /\ playback.builds[r].pc = "show"
  /\ LET got == playback.builds[r].got
     IN playback' = [ToBuild(r, "none", {}) EXCEPT
          !.preview = IF got = {} \/ ~Mounted THEN NoPreview ELSE [rec |-> r, chunks |-> got]]

BuildPreview ==
  /\ \E r \in Recordings : StartBuild(r) \/ ReadChunks(r) \/ ShowPreview(r)
  /\ UNCHANGED <<disk, camera, snap, recorder, take, queue, shown, total, recovered,
                 page, ghost>>

-----------------------------------------------------------------------------
(* The list of saved recordings.                                           *)

RefreshSummary ==
  /\ Mounted
  /\ refreshLocalStorageSummary
  /\ Press
  /\ UNCHANGED <<disk, camera, snap, recorder, take, queue, shown, playback, recovered, page>>

OnList(r) == Mounted /\ shown.list[r] # None

(* loadRecoveredPreview: a new load replaces the one in progress; the      *)
(* button is off while one is loading.                                     *)
loadRecoveredPreview(r) ==
  /\ OnList(r)
  /\ recovered.status # "loading"
  /\ recovered' = [status |-> "loading", rec |-> r,
                   pc |-> IF disk[r].manifest = None THEN "gone" ELSE "list", got |-> {}]

LoadChunks ==
  /\ recovered.pc = "list"
  /\ recovered' = [recovered EXCEPT !.pc = IF disk[recovered.rec].chunks = {} THEN "gone"
                                           ELSE "build"]

LoadBlob ==
  /\ recovered.pc = "build"
  /\ LET entry == disk[recovered.rec]
     IN recovered' = IF entry.manifest = None \/ entry.chunks = {}
                     THEN [recovered EXCEPT !.pc = "gone"]
                     ELSE [recovered EXCEPT !.pc = "show", !.got = entry.chunks]

LoadEnds ==
  \/ recovered.pc = "show" /\ recovered' = [recovered EXCEPT !.status = "ready", !.pc = "none"]
  \/ recovered.pc = "gone" /\ recovered' = [NotRecovered EXCEPT !.status = "failed",
                                                                !.rec = recovered.rec]

PreviewSaved ==
  /\ \E r \in Recordings : loadRecoveredPreview(r)
  /\ Press
  /\ UNCHANGED <<disk, camera, snap, recorder, take, queue, shown, total, playback, page>>

LoadGoesOn ==
  /\ LoadChunks \/ LoadBlob \/ LoadEnds
  /\ UNCHANGED <<disk, camera, snap, recorder, take, queue, shown, total, playback,
                 page, ghost>>

Waiting(kind) == \E i \in DOMAIN queue.tasks : queue.tasks[i].kind = kind

(* discardPersistedRecording from the list, one at a time.                 *)
discardPersistedRecording(r) ==
  /\ OnList(r)
  /\ ~Waiting("discard")
  /\ queue' = enqueue(queue, Task("discard", r, None))
  /\ shown' = [shown EXCEPT !.status = "persisting"]

(* clearAllPersistedLocalRecordings, off unless a summary counts some.     *)
clearAllPersistedLocalRecordings ==
  /\ Mounted
  /\ ~Waiting("clear")
  /\ total.recordings > 0
  /\ \E r \in Recordings : OnList(r)
  /\ queue' = enqueue(queue, Task("clear", 0, None))
  /\ shown' = [shown EXCEPT !.status = "persisting", !.current = FALSE]

(* checkLocalRecordingIntegrity: the check before it no longer counts.     *)
checkLocalRecordingIntegrity(r) ==
  /\ OnList(r)
  /\ shown.check # "checking"
  /\ shown' = [shown EXCEPT !.check = "checking"]
  /\ LET Older(task) == [task EXCEPT !.newest = @ /\ task.kind # "check"]
         before == [queue EXCEPT !.tasks = [i \in DOMAIN @ |-> Older(@[i])]]
     IN queue' = enqueue(before, Task("check", r, None))

ListButton ==
  /\ \/ clearAllPersistedLocalRecordings
     \/ \E r \in Recordings : discardPersistedRecording(r) \/ checkLocalRecordingIntegrity(r)
  /\ Press
  /\ UNCHANGED <<disk, camera, snap, recorder, take, total, playback, recovered, page>>

-----------------------------------------------------------------------------
(* The camera preview.  A request that is no longer wanted stops the       *)
(* stream it is given.                                                     *)

handleStartPreview(id) ==
  /\ Mounted
  /\ camera.status \notin {"requesting", "active"}
  /\ camera.wanted = 0 /\ camera.stream = 0
  /\ id = camera.made + 1
  /\ camera' = [camera EXCEPT !.status = "requesting", !.wanted = id, !.asked = @ \cup {id},
                              !.made = id]
  /\ IF id = 1 THEN UNCHANGED ghost ELSE Press

\* Mutant of MediaGranted: a late stream is taken, whatever was asked since.
MediaGrantedLate(id) ==
  /\ id \in camera.asked
  /\ camera' = [camera EXCEPT !.asked = @ \ {id}, !.live = @ \cup {id},
                              !.status = "active", !.stream = id]

MediaGranted(id) ==
  /\ id \in camera.asked
  /\ camera' = IF id # camera.wanted THEN [camera EXCEPT !.asked = @ \ {id}]
               ELSE [status |-> "active", stream |-> id, wanted |-> 0,
                     asked |-> camera.asked \ {id}, made |-> camera.made,
                     live |-> (camera.live \ {camera.stream}) \cup {id}]

MediaRefused(id) ==
  /\ id \in camera.asked
  /\ camera' = IF id # camera.wanted THEN [camera EXCEPT !.asked = @ \ {id}]
               ELSE [status |-> "error", stream |-> 0, wanted |-> 0,
                     asked |-> camera.asked \ {id}, made |-> camera.made,
                     live |-> camera.live \ {camera.stream}]

Preview ==
  /\ \E id \in Streams :
       \/ handleStartPreview(id)
       \/ (MediaGranted(id) \/ MediaRefused(id)) /\ UNCHANGED ghost
  /\ UNCHANGED <<disk, snap, recorder, take, queue, shown, total, playback, recovered, page>>

NoCamera == [camera EXCEPT !.status = "idle", !.stream = 0, !.wanted = 0,
                           !.live = @ \ {camera.stream}]

(* The Stop button stops a recording first, then the tracks.               *)
handleStopPreview ==
  /\ Mounted
  /\ camera.status = "requesting" \/ camera.stream # 0
  /\ camera' = NoCamera
  /\ IF snap = "recording" THEN stopping
     ELSE UNCHANGED <<snap, recorder, take, queue, shown, ghost>>
  /\ UNCHANGED <<disk, total, playback, recovered, page>>

(* The camera is unplugged, or the permission is withdrawn: the tracks end *)
(* and so does the MediaRecorder, with its last data and its stop event.   *)
DeviceLost ==
  /\ camera.stream \in camera.live
  /\ camera' = [camera EXCEPT !.live = @ \ {camera.stream}]
  /\ recorder' = IF recorder.on THEN [recorder EXCEPT !.on = FALSE, !.ending = "data"]
                 ELSE recorder
  /\ Trouble(ghost)
  /\ UNCHANGED <<disk, snap, take, queue, shown, total, playback, recovered, page>>

-----------------------------------------------------------------------------
(* The page.                                                               *)

(* The route changes: the recorder and the streams stop, and what is saved *)
(* goes on being saved by the queue, which nothing else hears of.          *)
Leave ==
  /\ Mounted
  /\ page' = [page EXCEPT !.at = "left"]
  /\ camera' = NoCamera
  /\ snap' = "idle"
  /\ recorder' = NoRecorder
  /\ take' = NoTake
  /\ shown' = Unchecked
  /\ total' = NoTotal
  /\ playback' = [playback EXCEPT !.preview = NoPreview]
  /\ recovered' = NotRecovered
  /\ Press
  /\ UNCHANGED <<disk, queue>>

(* Coming back before the old queue is done is not modelled.               *)
Return ==
  /\ page.at = "left"
  /\ queue.tasks = <<>>
  /\ playback = NoPlayback
  /\ page' = [page EXCEPT !.at = "probing"]
  /\ UNCHANGED <<disk, camera, snap, recorder, take, queue, shown, total, playback,
                 recovered, ghost>>

(* The tab crashes or is reloaded: only what IndexedDB holds is left.      *)
Crash ==
  /\ Trouble(ghost)
  /\ camera' = [status |-> "idle", stream |-> 0, wanted |-> 0, asked |-> {}, live |-> {},
                 made |-> camera.made]
  /\ snap' = "idle"
  /\ recorder' = NoRecorder
  /\ take' = NoTake
  /\ queue' = EmptyQueue
  /\ shown' = Unchecked
  /\ total' = NoTotal
  /\ playback' = NoPlayback
  /\ recovered' = NotRecovered
  /\ page' = [at |-> "probing", memo |-> "none"]
  /\ UNCHANGED disk

-----------------------------------------------------------------------------
OpeningStep == initializePersistenceSupport \/ InitialList

TaskStep == SaveChunk \/ SaveManifest \/ AfterSave \/ Delete \/ AfterDelete
            \/ AfterFailedDelete \/ Refresh \/ CheckOne

Ending == recorder.ending # "no" /\ (DataAvailable \/ EmptyData \/ RecorderStopped)

Button == startRecording \/ stopRecording \/ resetRecording \/ ListButton
          \/ PreviewSaved \/ RefreshSummary \/ handleStopPreview

Next == OpeningStep \/ TaskStep \/ Button \/ DataAvailable \/ EmptyData
        \/ RecorderStopped \/ RecorderFailed \/ BuildPreview \/ LoadGoesOn
        \/ Preview \/ DeviceLost \/ Leave \/ Return \/ Crash

Spec == Init /\ [][Next]_vars

-----------------------------------------------------------------------------
TypeOK ==
  /\ disk \in [Recordings -> Entry]
  /\ camera \in [status : {"idle", "requesting", "active", "error"},
                 stream : {0} \cup Streams, wanted : {0} \cup Streams,
                 asked : SUBSET Streams, live : SUBSET Streams,
                 made : {0} \cup Streams]
  /\ snap \in SnapStates \ {"preparing"}
  /\ recorder \in [held : BOOLEAN, on : BOOLEAN, ending : {"no", "data", "stop"}]
  /\ take \in [rec : {0} \cup Recordings, manifest : Manifest \cup {None},
               current : {0} \cup Recordings]
  /\ queue.pc \in {"start", "manifest", "saved", "unsaved", "deleted", "undeleted",
                   "refresh", "relist", "resum"}
  /\ \A i \in DOMAIN queue.tasks :
       /\ queue.tasks[i].kind \in {"manifest", "chunk", "check"} \cup Deletes
       /\ queue.tasks[i].rec \in {0} \cup Recordings
       /\ queue.tasks[i].manifest \in Manifest \cup {None}
  /\ shown.status \in {"not_checked", "available", "persisting", "persisted", "failed"}
  /\ shown.list \in [Recordings -> Manifest \cup {None}]
  /\ shown.reports \in [Recordings -> {None, "healthy", "warning", "unknown"}]
  /\ recovered.status \in {"idle", "loading", "ready", "failed"}
  /\ ghost.trouble \in 0 .. MaxTrouble

-----------------------------------------------------------------------------
(* Safety.                                                                 *)

Settled == page.at = "open" /\ queue.tasks = <<>>

Undisturbed(r) == ~ghost.failing /\ r \notin ghost.erased

(* Every chunk that a saved manifest lists is saved too, also when the tab *)
(* crashes between the two saves of a chunk, unless its own save failed or *)
(* the recording was erased while it was being made.                       *)
ListedChunksAreStored ==
  \A r \in Stored(disk) \ ghost.erased :
    Indexes(disk[r].manifest.n) \ ghost.lost[r] \subseteq disk[r].chunks

(* When the queue has nothing left to do, the browser holds exactly the    *)
(* recording the page shows: its manifest as it is now, and all its chunks. *)
SettledIsSaved ==
  Settled /\ take.manifest # None /\ Undisturbed(take.rec)
    => disk[take.rec] = [manifest |-> take.manifest,
                         chunks |-> Indexes(take.manifest.n)]

(* Then also the list and the totals are those of the store, and nothing   *)
(* is said to be persisting.                                               *)
SettledShowsTheStore ==
  Settled /\ ~ghost.failing /\ ghost.erased = {}
    => /\ shown.list = listRecordings(disk)
       /\ total = storageSummary(disk)
       /\ shown.status # "persisting"

(* When the recording the page shows is saved as stopped and its last check *)
(* was healthy, every chunk it lists is there, even if a save had failed on *)
(* the way: the last save is checked after all of them.                    *)
HealthyIsWhole ==
  LET r == take.current
  IN Settled /\ r # 0 /\ shown.reports[r] = "healthy"
       /\ disk[r].manifest # None /\ disk[r].manifest.status = "stopped"
       => disk[r].chunks = Indexes(disk[r].manifest.n)

(* The preview of the recording just made has all of its chunks, the last  *)
(* one that came with the stop included.                                   *)
PlaybackIsWhole ==
  LET r == playback.preview.rec
  IN r # 0 /\ r = take.rec /\ r \notin ghost.erased
       => Indexes(take.manifest.n) \ ghost.lost[r] \subseteq playback.preview.chunks

(* A recovered preview is of a recording that is still stored: a discard   *)
(* takes the preview and the load in progress with it.                     *)
RecoveredIsStored ==
  recovered.status = "ready"
    => recovered.rec \in Stored(disk) \/ queue.pc = "deleted"

(* No camera runs but the one the page shows, whatever was asked for and   *)
(* given up, and none after the page is left.                              *)
NoOrphanCamera == camera.live \subseteq {camera.stream}

(* While the page says recording, a MediaRecorder records or has its last  *)
(* data and its stop event still to be handled (ADR-0016: an active state  *)
(* goes to failed on unrecoverable device errors).                         *)
RecordingIsRecorded == snap = "recording" => recorder.held

(* What is saved of a recording never goes back to an earlier manifest:    *)
(* saves are not overtaken by older ones.                                  *)
Rank == [recording |-> 0, stopping |-> 1, stopped |-> 2, failed |-> 3]

SavedManifestAdvances ==
  [][\A r \in Stored(disk) :
       disk'[r].manifest # None
         => /\ disk'[r].manifest.n >= disk[r].manifest.n
            /\ Rank[disk'[r].manifest.status] >= Rank[disk[r].manifest.status]]_vars

-----------------------------------------------------------------------------
(* At rest.                                                                *)

(* IndexedDB answers every request, and a MediaRecorder that is ending     *)
(* fires its events.  Where none of that is left, or can go on, a          *)
(* recording that was being stopped is stopped and, where something of it  *)
(* is saved, shown to the user, unless it failed or was erased: neither a  *)
(* lost event nor tasks and builders that wait for one another hold it up. *)
GoesOn == ENABLED (TaskStep \/ Ending \/ BuildPreview)

StoppedIsShown ==
  snap \in {"stopping", "stopped"} /\ Undisturbed(take.rec)
    => \/ /\ snap = "stopped"
          /\ disk[take.rec].chunks = {} \/ playback.preview.rec = take.rec
       \/ GoesOn
=============================================================================

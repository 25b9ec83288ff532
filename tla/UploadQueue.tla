----------------------------- MODULE UploadQueue -----------------------------
(***************************************************************************)
(* The browser's upload queue (apps/web-studio/src/upload) for one local   *)
(* recording: the Start, Resume, Pause and Cancel buttons, the async       *)
(* functions they run, the upload state they keep in IndexedDB, and the    *)
(* upload service as a client sees it (its chunks and status).             *)
(* Recordings share neither records nor run tokens, so one is enough.      *)
(*                                                                         *)
(* JavaScript runs a function from one await to the next without           *)
(* interruption: that is a step.  IndexedDB executes operations in the     *)
(* order they are issued, so a step that issues a read takes the value and *)
(* a step that issues a write changes the store, and the next step of the  *)
(* function is its continuation, whenever that comes.                      *)
(***************************************************************************)
EXTENDS Naturals, FiniteSets

CONSTANTS
  Tasks,            \* the handlers in progress at the same time in the tab
  ChunkCount,       \* chunks of the recording
  MaxUploads,       \* bound on the sessions created
  MaxTokens,        \* bound on the run tokens handed out
  MaxFaults,        \* bound on failed requests, reloads and other trouble
  None

ASSUME QueueAssumption ==
  /\ ChunkCount \in Nat \ {0}
  /\ {MaxUploads, MaxTokens, MaxFaults} \subseteq Nat

Chunks  == 0 .. ChunkCount - 1
Uploads == 1 .. MaxUploads

VARIABLES
  server,     \* per upload session, what it stores and what its manifest says
  db,         \* the record of the recording in IndexedDB, or None
  shown,      \* statesByRecordingIdRef and what the panel shows
  listing,    \* the refresh of shown in progress (the panel is loading)
  token,      \* runTokensRef of the recording, 0 when it has no entry
  tasks,      \* the handlers of the buttons
  faults      \* trouble so far

vars == <<server, db, shown, listing, token, tasks, faults>>

-----------------------------------------------------------------------------
(* The upload state (recordingUploadState.ts).  done is the set of chunks  *)
(* that are uploaded or already_present, all a decision ever asks of them. *)

Statuses == {"not_started", "initializing", "ready", "uploading", "paused",
             "failed", "incomplete", "uploaded", "canceled"}

State == [status : Statuses, upload : Uploads \cup {None}, done : SUBSET Chunks]

ASSUME NoneAssumption == None \notin Uploads \cup State

Fresh == [status |-> "not_started", upload |-> None, done |-> {}]

IsTerminal(s) == s.status \in {"uploaded", "canceled"}

\* The setters leave a terminal state as it is.
WithStatus(s, status) == IF IsTerminal(s) THEN s ELSE [s EXCEPT !.status = status]

SessionReady(s, u) ==
  IF IsTerminal(s) THEN s ELSE [s EXCEPT !.status = "ready", !.upload = u]

WithChunk(s, i) ==
  IF IsTerminal(s) THEN s
  ELSE [s EXCEPT !.status = "uploading", !.done = @ \cup {i}]

\* Mutant of MergeServerStatus: the chunks the server confirms are not taken over.
MergeStatusOnly(s, u, status, confirmed) ==
  IF s.status = "canceled" THEN s
  ELSE [status |-> status, upload |-> u, done |-> s.done]

(* Chunks that were done stay done, whatever the server lists.             *)
MergeServerStatus(s, u, status, confirmed) ==
  IF s.status = "canceled" THEN s
  ELSE [status |-> status, upload |-> u, done |-> s.done \cup confirmed]

\* Mutant of MergeCompletion: the answer of complete is not looked at.
AssumeCompletion(s, u, status) ==
  IF s.done = Chunks THEN MergeServerStatus(s, u, "uploaded", {})
  ELSE MergeServerStatus(s, u, "incomplete", {})

(* markRecordingUploadComplete, which follows, finds it terminal.          *)
MergeCompletion(s, u, status) == MergeServerStatus(s, u, status, {})

CanApplyLate(s) == s.status \notin {"paused", "canceled", "uploaded"}

\* Many steps look at the state they read, unless there was none.
MayGoOn(seen) == seen # None => CanApplyLate(seen)

-----------------------------------------------------------------------------
Session == [stored : SUBSET Chunks,   \* its chunk objects
            listed : SUBSET Chunks,   \* the chunks its manifest confirms
            status : {"absent", "ready", "uploading", "incomplete", "uploaded",
                      "canceled"},
            final  : BOOLEAN,         \* it has been uploaded (history)
            late   : BOOLEAN]         \* an old request came late (history)

NoSession == [stored |-> {}, listed |-> {}, status |-> "absent",
              final |-> FALSE, late |-> FALSE]

IdleTask == [pc |-> "idle", then |-> "end", fresh |-> FALSE, token |-> 0,
             i |-> 0, next |-> None, seen |-> None, reply |-> None]

Requests == {"create", "status", "put", "complete", "cancel"}

Replies == {"created", "gotStatus", "putDone", "completed"}

(* The places inside the try of runUpload, where a run owns its token.     *)
InRun == {"create", "status", "put", "complete"} \cup Replies \cup
         {"createdRead", "statusRead", "loopRead", "putRead", "preComplete",
          "completedRead", "error", "errorRead"}

Places == InRun \cup {"idle", "list", "load", "deleting", "keys", "saved",
                      "pauseRead", "cancelRead", "cancel"}

Init ==
  /\ server = [u \in Uploads |-> NoSession]
  /\ db = None
  /\ shown = None
  /\ listing = [on |-> FALSE, value |-> None]
  /\ token = 0
  /\ tasks = [t \in Tasks |-> IdleTask]
  /\ faults = 0

At(t, pc) == tasks[t].pc = pc

To(t, pc) == tasks' = [tasks EXCEPT ![t].pc = pc]

(* Issue a read of the record and go on at pc with what it finds.          *)
Read(t, pc) == tasks' = [tasks EXCEPT ![t].pc = pc, ![t].seen = db]

(* clearRunTokenIfCurrent, in the finally of runUpload.                    *)
Finish(t) ==
  /\ token' = IF token = tasks[t].token THEN 0 ELSE token
  /\ tasks' = [tasks EXCEPT ![t] = IdleTask]

IsCurrent(t) == tasks[t].token = token

(* What follows an answer, or the last chunk: an old run ends, the current *)
(* one reads the record before it goes on.                                 *)
CheckRunThenRead(t, pc) ==
  \/ IsCurrent(t) /\ Read(t, pc) /\ UNCHANGED token
  \/ ~IsCurrent(t) /\ Finish(t)

-----------------------------------------------------------------------------
(* persistState.  A save against a different upload rereads the keys first *)
(* and writes everything, otherwise the chunks that look unchanged against *)
(* shown are left as they are in the store (their times may tell).         *)

SameUpload(s) == shown # None /\ shown.upload = s.upload

LooksUnchanged(s, touched) ==
  {i \in Chunks \ touched : db # None /\ (i \in shown.done <=> i \in s.done)}

(* touched are the chunks s has just changed; then names what follows.     *)
Save(t, s, touched, then) ==
  LET saving(pc) == tasks' = [tasks EXCEPT ![t].pc = pc, ![t].next = s,
                                           ![t].then = then, ![t].seen = None,
                                           ![t].reply = None]
  IN \/ /\ ~SameUpload(s)
        /\ saving("keys")
        /\ UNCHANGED db
     \/ /\ SameUpload(s)
        /\ \E kept \in SUBSET LooksUnchanged(s, touched) :
             db' = [s EXCEPT !.done =
                      (@ \ kept) \cup (IF db = None THEN {} ELSE db.done \cap kept)]
        /\ saving("saved")

SaveAll(t) ==
  /\ At(t, "keys")
  /\ db' = tasks[t].next
  /\ To(t, "saved")
  /\ UNCHANGED <<server, shown, listing, token, faults>>

-----------------------------------------------------------------------------
(* The buttons (UploadReadinessPanel.tsx)                                  *)

CanClickMain ==
  /\ ~listing.on
  /\ shown # None => shown.status \notin {"uploaded", "uploading", "initializing"}

CanPause == ~listing.on /\ shown # None /\ shown.status = "uploading"

CanCancel ==
  /\ ~listing.on
  /\ shown # None
  /\ shown.status \in {"ready", "uploading", "paused", "incomplete", "failed"}

(* Start and Resume: runUpload lists the local chunks first.               *)
ClickMain(t) ==
  /\ CanClickMain
  /\ At(t, "idle")
  /\ tasks' = [tasks EXCEPT ![t] =
       [IdleTask EXCEPT !.pc = "list",
                        !.fresh = shown = None
                                  \/ shown.status \in {"not_started", "canceled"}]]
  /\ UNCHANGED <<server, db, shown, listing, token, faults>>

(* Pause and Cancel invalidate the run and read the record.                *)
InvalidateAndRead(t, pc) ==
  /\ At(t, "idle")
  /\ token < MaxTokens
  /\ token' = token + 1
  /\ Read(t, pc)
  /\ UNCHANGED <<server, db, shown, listing, faults>>

ClickPause(t) == CanPause /\ InvalidateAndRead(t, "pauseRead")

ClickCancel(t) == CanCancel /\ InvalidateAndRead(t, "cancelRead")

SaveInterruption(t) ==
  LET status == IF At(t, "pauseRead") THEN "paused" ELSE "canceled"
      then   == IF At(t, "pauseRead") THEN "return" ELSE "cancel"
  IN /\ tasks[t].pc \in {"pauseRead", "cancelRead"}
     /\ \/ /\ tasks[t].seen = None
           /\ tasks' = [tasks EXCEPT ![t] = IdleTask]
           /\ UNCHANGED db
        \/ /\ tasks[t].seen # None
           /\ Save(t, WithStatus(tasks[t].seen, status), {}, then)
     /\ UNCHANGED <<server, shown, listing, token, faults>>

-----------------------------------------------------------------------------
(* runUpload                                                               *)

LoadState(t) ==
  /\ At(t, "list")
  /\ Read(t, "load")
  /\ UNCHANGED <<server, db, shown, listing, token, faults>>

Resumes(t) ==
  /\ ~tasks[t].fresh
  /\ tasks[t].seen # None
  /\ tasks[t].seen.status # "canceled"

(* resolveRecordingUploadStartState; a fresh start deletes an old record.  *)
ResolveStart(t) ==
  LET seen == tasks[t].seen
  IN /\ At(t, "load")
     /\ \/ /\ Resumes(t)
           /\ Save(t, WithStatus(seen, "initializing"), {}, "launch")
        \/ /\ ~Resumes(t) /\ seen = None
           /\ Save(t, WithStatus(Fresh, "initializing"), Chunks, "launch")
        \/ /\ ~Resumes(t) /\ seen # None
           /\ db' = None
           /\ To(t, "deleting")
     /\ UNCHANGED <<server, shown, listing, token, faults>>

SaveInitial(t) ==
  /\ At(t, "deleting")
  /\ Save(t, WithStatus(Fresh, "initializing"), Chunks, "launch")
  /\ UNCHANGED <<server, shown, listing, token, faults>>

(* nextRunToken, then the first request.                                   *)
Launch(t) ==
  /\ token < MaxTokens
  /\ token' = token + 1
  /\ tasks' = [tasks EXCEPT
       ![t].token = token + 1,
       ![t].fresh = FALSE,
       ![t].pc = IF tasks[t].fresh \/ tasks[t].next.upload = None
                 THEN "create" ELSE "status"]

\* Mutant of NextChunk: the loop goes on past the last chunk.
NextChunkTooFar(t, i) ==
  LET pc == IF i <= ChunkCount THEN "loopRead" ELSE "preComplete"
  IN \/ /\ IsCurrent(t)
        /\ tasks' = [tasks EXCEPT ![t].pc = pc, ![t].i = i, ![t].seen = db]
        /\ UNCHANGED token
     \/ ~IsCurrent(t) /\ Finish(t)

(* The head of the loop over the chunks, and what follows the loop.        *)
NextChunk(t, i) ==
  LET pc == IF i \in Chunks THEN "loopRead" ELSE "preComplete"
  IN \/ /\ IsCurrent(t)
        /\ tasks' = [tasks EXCEPT ![t].pc = pc, ![t].i = i, ![t].seen = db]
        /\ UNCHANGED token
     \/ ~IsCurrent(t) /\ Finish(t)

(* The continuation of persistState publishes the state to the panel.      *)
Saved(t) ==
  LET then == tasks[t].then
  IN /\ At(t, "saved")
     /\ shown' = tasks[t].next
     /\ \/ then = "launch" /\ Launch(t)
        \/ then = "first" /\ NextChunk(t, 0)
        \/ then = "next" /\ NextChunk(t, tasks[t].i + 1)
        \/ then = "put" /\ To(t, "put") /\ UNCHANGED token
        \/ then = "end" /\ Finish(t)
        \/ /\ then = "return" \/ (then = "cancel" /\ tasks[t].next.upload = None)
           /\ tasks' = [tasks EXCEPT ![t] = IdleTask]
           /\ UNCHANGED token
        \/ /\ then = "cancel" /\ tasks[t].next.upload # None
           /\ To(t, "cancel")
           /\ UNCHANGED token
     /\ UNCHANGED <<server, db, listing, faults>>

AfterReply(t) ==
  /\ tasks[t].pc \in Replies
  /\ CheckRunThenRead(t, CASE At(t, "created")   -> "createdRead"
                           [] At(t, "gotStatus") -> "statusRead"
                           [] At(t, "putDone")   -> "putRead"
                           [] At(t, "completed") -> "completedRead")
  /\ UNCHANGED <<server, db, shown, listing, faults>>

(* The state an answer is applied to: the record as read, or the run's own *)
(* when there is none.                                                     *)
Latest(t) == IF tasks[t].seen = None THEN tasks[t].next ELSE tasks[t].seen

ApplyReply(t) ==
  LET next == tasks[t].next
      reply == tasks[t].reply
      blocked == ~MayGoOn(tasks[t].seen)
  IN /\ tasks[t].pc \in {"createdRead", "statusRead", "putRead", "completedRead"}
     /\ \/ blocked /\ Finish(t) /\ UNCHANGED db
        \/ /\ ~blocked
           /\ \/ /\ At(t, "createdRead")
                 /\ Save(t, SessionReady(next, reply.upload), {}, "first")
              \/ /\ At(t, "statusRead")
                 /\ Save(t, MergeServerStatus(next, reply.upload, reply.status,
                                              reply.confirmed), Chunks, "first")
              \/ /\ At(t, "putRead")
                 /\ Save(t, WithChunk(Latest(t), tasks[t].i), {tasks[t].i}, "next")
              \/ /\ At(t, "completedRead")
                 /\ Save(t, MergeCompletion(Latest(t), reply.upload, reply.status),
                         Chunks, "end")
           /\ UNCHANGED token
     /\ UNCHANGED <<server, shown, listing, faults>>

\* Mutant of SendChunk: the chunk counts as done once it is being sent.
SendOptimistically(t) ==
  LET i == tasks[t].i
      current == Latest(t)
  IN /\ At(t, "loopRead")
     /\ \/ IsTerminal(current) /\ Finish(t) /\ UNCHANGED db
        \/ ~IsTerminal(current) /\ i \in current.done
           /\ NextChunk(t, i + 1) /\ UNCHANGED db
        \/ ~IsTerminal(current) /\ i \notin current.done
           /\ Save(t, WithChunk(current, i), {i}, "put")
           /\ UNCHANGED token
     /\ UNCHANGED <<server, shown, listing, faults>>

(* One turn of the loop: stop, skip a chunk that is done, or send it.      *)
SendChunk(t) ==
  LET i == tasks[t].i
      current == Latest(t)
  IN /\ At(t, "loopRead")
     /\ \/ IsTerminal(current) /\ Finish(t) /\ UNCHANGED db
        \/ ~IsTerminal(current) /\ i \in current.done
           /\ NextChunk(t, i + 1) /\ UNCHANGED db
        \/ ~IsTerminal(current) /\ i \notin current.done
           /\ Save(t, WithStatus(current, "uploading"), {i}, "put")
           /\ UNCHANGED token
     /\ UNCHANGED <<server, shown, listing, faults>>

SendComplete(t) ==
  /\ At(t, "preComplete")
  /\ \/ /\ MayGoOn(tasks[t].seen)
        /\ tasks' = [tasks EXCEPT ![t].pc = "complete", ![t].seen = None]
        /\ UNCHANGED token
     \/ ~MayGoOn(tasks[t].seen) /\ Finish(t)
  /\ UNCHANGED <<server, db, shown, listing, faults>>

(* The catch of runUpload.  retrying, for an error the service calls       *)
(* retryable, enables the same buttons as failed and stands for it here.   *)
CatchError(t) ==
  /\ At(t, "error")
  /\ CheckRunThenRead(t, "errorRead")
  /\ UNCHANGED <<server, db, shown, listing, faults>>

\* Mutant of SaveFailure: the run ends and nobody is told.
DropFailure(t) ==
  /\ At(t, "errorRead")
  /\ Finish(t)
  /\ UNCHANGED <<server, db, shown, listing, faults>>

SaveFailure(t) ==
  LET current == Latest(t)
  IN /\ At(t, "errorRead")
     /\ \/ ~CanApplyLate(current) /\ Finish(t) /\ UNCHANGED db
        \/ /\ CanApplyLate(current)
           /\ Save(t, WithStatus(current, "failed"), {}, "end")
           /\ UNCHANGED token
     /\ UNCHANGED <<server, shown, listing, faults>>

-----------------------------------------------------------------------------
(* The upload service, a request at a time (UploadService shows what two   *)
(* at a time may do, see LateRequest)                                      *)

Reply(t, pc, u, status, confirmed) ==
  tasks' = [tasks EXCEPT
    ![t].pc = pc,
    ![t].reply = [upload |-> u, status |-> status, confirmed |-> confirmed]]

HandleCreate(t) ==
  /\ At(t, "create")
  /\ \E u \in Uploads :
       /\ server[u].status = "absent"
       /\ \A v \in 1 .. u - 1 : server[v].status # "absent"
       /\ server' = [server EXCEPT ![u].status = "ready"]
       /\ Reply(t, "created", u, "ready", {})
  /\ UNCHANGED <<db, shown, listing, token, faults>>

HandleStatus(t) ==
  LET u == tasks[t].next.upload
  IN /\ At(t, "status")
     /\ Reply(t, "gotStatus", u, server[u].status, server[u].listed)
     /\ UNCHANGED <<server, db, shown, listing, token, faults>>

HandlePut(t) ==
  LET u == tasks[t].next.upload
      i == tasks[t].i
      accepted == u # None /\ server[u].status # "canceled"
  IN /\ At(t, "put")
     /\ \/ ~accepted /\ To(t, "error") /\ UNCHANGED server
        \/ /\ accepted
           /\ server' = [server EXCEPT ![u].stored = @ \cup {i},
                                       ![u].listed = @ \cup {i},
                                       ![u].status = "uploading"]
           /\ To(t, "putDone")
     /\ UNCHANGED <<db, shown, listing, token, faults>>

HandleComplete(t) ==
  LET u == tasks[t].next.upload
  IN /\ At(t, "complete")
     /\ \/ u = None /\ To(t, "error") /\ UNCHANGED server
        \/ /\ u # None /\ server[u].listed = Chunks
           /\ server' = [server EXCEPT ![u].status = "uploaded", ![u].final = TRUE]
           /\ Reply(t, "completed", u, "uploaded", {})
        \/ /\ u # None /\ server[u].listed # Chunks
           /\ server' = [server EXCEPT ![u].status = "incomplete"]
           /\ Reply(t, "completed", u, "incomplete", {})
     /\ UNCHANGED <<db, shown, listing, token, faults>>

(* The answer of cancel is not looked at.                                  *)
HandleCancel(t) ==
  /\ At(t, "cancel")
  /\ server' = [server EXCEPT ![tasks[t].next.upload].status = "canceled"]
  /\ tasks' = [tasks EXCEPT ![t] = IdleTask]
  /\ UNCHANGED <<db, shown, listing, token, faults>>

-----------------------------------------------------------------------------
(* Trouble                                                                 *)

Fault == faults < MaxFaults /\ faults' = faults + 1

(* The request, or the answer to it, is lost.                              *)
NetworkFails(t) ==
  /\ Fault
  /\ \/ tasks[t].pc \in Replies \cup (Requests \ {"cancel"}) /\ To(t, "error")
     \/ At(t, "cancel") /\ tasks' = [tasks EXCEPT ![t] = IdleTask]
  /\ UNCHANGED <<server, db, shown, listing, token>>

(* An earlier request of the session, which the browser gave up and the    *)
(* service still works on, stores its chunk or saves its manifest: all     *)
(* that UploadPromise lets a request do.                                   *)
LateRequest(u) ==
  /\ Fault
  /\ server[u].status # "absent"
  /\ \/ \E i \in Chunks \ server[u].stored :
            server' = [server EXCEPT ![u].stored = @ \cup {i}, ![u].late = TRUE]
     \/ \E listed \in SUBSET server[u].stored,
            status \in {"uploading", "incomplete", "uploaded", "canceled"} :
          /\ status = "uploaded" => listed = Chunks
          /\ server' = [server EXCEPT ![u].listed = listed,
                                      ![u].status = status,
                                      ![u].final = @ \/ status = "uploaded",
                                      ![u].late = TRUE]
  /\ UNCHANGED <<db, shown, listing, token, tasks>>

(* The list of recordings changes: shown is read again.                    *)
BeginListing ==
  /\ Fault
  /\ listing' = [on |-> TRUE, value |-> db]
  /\ UNCHANGED <<server, db, shown, token, tasks>>

FinishListing ==
  /\ listing.on
  /\ shown' = listing.value
  /\ listing' = [on |-> FALSE, value |-> None]
  /\ UNCHANGED <<server, db, token, tasks, faults>>

(* The page is reloaded, or the tab closed and opened again.               *)
Reload ==
  /\ Fault
  /\ tasks' = [t \in Tasks |-> IdleTask]
  /\ token' = 0
  /\ shown' = None
  /\ listing' = [on |-> TRUE, value |-> db]
  /\ UNCHANGED <<server, db>>

-----------------------------------------------------------------------------
Click(t) == ClickMain(t) \/ ClickPause(t) \/ ClickCancel(t)

TaskStep(t) ==
  \/ SaveInterruption(t)
  \/ LoadState(t)
  \/ ResolveStart(t)
  \/ SaveInitial(t)
  \/ SaveAll(t)
  \/ Saved(t)
  \/ AfterReply(t)
  \/ ApplyReply(t)
  \/ SendChunk(t)
  \/ SendComplete(t)
  \/ CatchError(t)
  \/ SaveFailure(t)
  \/ HandleCreate(t)
  \/ HandleStatus(t)
  \/ HandlePut(t)
  \/ HandleComplete(t)
  \/ HandleCancel(t)

Next ==
  \/ \E t \in Tasks : Click(t) \/ TaskStep(t) \/ NetworkFails(t)
  \/ \E u \in Uploads : LateRequest(u)
  \/ BeginListing
  \/ FinishListing
  \/ Reload

Spec == Init /\ [][Next]_vars

Quiet == \A t \in Tasks : At(t, "idle")

(* A user who presses Start or Resume when nothing is going on, and Pause  *)
(* first where that is the only button left.                               *)
PatientClick(t) ==
  /\ Quiet
  /\ ClickMain(t) \/ ClickPause(t)

PatientNext ==
  \/ \E t \in Tasks : PatientClick(t) \/ TaskStep(t) \/ NetworkFails(t)
  \/ FinishListing
  \/ Reload

(* Requests are answered or fail, IndexedDB answers, and this user goes on.*)
GoesOn ==
  /\ \A t \in Tasks : WF_vars(TaskStep(t))
  /\ WF_vars(FinishListing)
  /\ WF_vars(\E t \in Tasks : PatientClick(t))

PatientSpec == Init /\ [][PatientNext]_vars /\ GoesOn

(* The same user, while requests given up long ago still reach the service.*)
(* None of them is a cancel, which this user never asks for.               *)
RetryNext ==
  \/ PatientNext
  \/ \E u \in Uploads : LateRequest(u) /\ server'[u].status # "canceled"

RetrySpec == Init /\ [][RetryNext]_vars /\ GoesOn

-----------------------------------------------------------------------------
(* Properties                                                              *)

TypeOK ==
  /\ server \in [Uploads -> Session]
  /\ db \in State \cup {None}
  /\ shown \in State \cup {None}
  /\ listing \in [on : BOOLEAN, value : State \cup {None}]
  /\ token \in 0 .. MaxTokens
  /\ \A t \in Tasks :
       /\ tasks[t].pc \in Places
       /\ tasks[t].then \in {"launch", "first", "next", "put", "end", "return",
                             "cancel"}
       /\ tasks[t].token \in 0 .. MaxTokens
       /\ tasks[t].i \in 0 .. ChunkCount
       /\ {tasks[t].next, tasks[t].seen} \subseteq State \cup {None}
  /\ faults \in 0 .. MaxFaults

(* The record says "uploaded", after which the recording is offered for    *)
(* export, only if the service did finalize the very session it names,     *)
(* whatever runs, clicks, reloads and late answers interleaved.            *)
UploadedWasFinal ==
  db # None /\ db.status = "uploaded" =>
    /\ db.upload # None
    /\ server[db.upload].final

(* With one run at a time, a chunk the record counts as done is stored for *)
(* the session the record names: no lost answer or reload between the save *)
(* and the request makes the browser skip a chunk the service never got.   *)
DoneIsStored ==
  db # None /\ db.done # {} =>
    /\ db.upload # None
    /\ db.done \subseteq server[db.upload].stored

(* With one run at a time, a chunk the service has confirmed is not sent   *)
(* again, even if the answer was lost or the page was reloaded before it   *)
(* was recorded: resuming goes on from the last confirmed chunk.  Where an *)
(* old request comes late, the run has no way to know what it lists.       *)
ConfirmedIsNotResent ==
  \A t \in Tasks :
    At(t, "put") /\ ~server[tasks[t].next.upload].late =>
      tasks[t].i \notin server[tasks[t].next.upload].listed

Uploaded == db # None /\ db.status = "uploaded"

(* The page is loaded again while the record says initializing, before the *)
(* first request of a run was answered: no button is enabled from then on  *)
(* (UploadReadinessPanel.tsx:232-238).                                     *)
Stranded == listing.on /\ db # None /\ db.status = "initializing"

(* The record counts a chunk as done that the manifest no longer lists, as *)
(* an old request wrote over it: runUpload skips the chunk each time, and  *)
(* complete finds it missing.                                              *)
Forgotten ==
  /\ db # None
  /\ db.upload # None
  /\ ~(db.done \subseteq server[db.upload].listed)

(* A user who keeps pressing what can be pressed gets the recording        *)
(* uploaded, after finitely many failures, reloads and late requests, but  *)
(* for the two ways of getting stuck named above.                          *)
UploadCompletes == <>Uploaded \/ <>Stranded \/ <>[]Forgotten

(* Violated.  After a refresh the browser is to "continue from the last    *)
(* known progress" (docs/design/browser-upload-queue-persistence.md:131),  *)
(* so reloads would not keep this user from uploading; but every button is *)
(* disabled for a record that was reloaded while it said initializing.     *)
UploadResumes == <>Uploaded

(* UploadPromise, said of one session.  LateRequest does all it allows an  *)
(* open session.  Every request for an index carries the same bytes here:  *)
(* the chunks recorded in this browser, which do not change.               *)
Phase(status) ==
  CASE status = "absent"   -> "absent"
    [] status = "uploaded" -> "final"
    [] status = "canceled" -> "canceled"
    [] OTHER               -> "open"

Promise(u) == INSTANCE UploadPromise
                WITH stored <- server[u].stored, listed <- server[u].listed,
                     exact <- server[u].listed, Agreed <- Chunks,
                     phase <- Phase(server[u].status)
=============================================================================

-------------------------- MODULE UploadQueueProofs --------------------------
(***************************************************************************)
(* Proofs about UploadQueue for any number of handlers, chunks, sessions,  *)
(* run tokens and faults.  What a record says of its upload passes through *)
(* many hands before it is saved: the store, the panel, the listing under  *)
(* way and every handler keep copies, and answers wait to be applied.  So  *)
(* the invariant says of every copy and of every answer what the property  *)
(* says of the record, and that a session that was final stays so.         *)
(***************************************************************************)
EXTENDS UploadQueue, TLAPS

-----------------------------------------------------------------------------
(* Types                                                                   *)

Thens == {"launch", "first", "next", "put", "end", "return", "cancel"}

Answer == [upload : Uploads, status : Statuses, confirmed : SUBSET Chunks]

Handler == [pc : Places, then : Thens, fresh : BOOLEAN, token : 0 .. MaxTokens,
            i : 0 .. ChunkCount, next : State \cup {None},
            seen : State \cup {None}, reply : Answer \cup {None}]

Types ==
  /\ server \in [Uploads -> Session]
  /\ db \in State \cup {None}
  /\ shown \in State \cup {None}
  /\ listing \in [on : BOOLEAN, value : State \cup {None}]
  /\ token \in 0 .. MaxTokens
  /\ tasks \in [Tasks -> Handler]
  /\ faults \in 0 .. MaxFaults

-----------------------------------------------------------------------------
(* What a copy of the record and a handler may say, given the sessions     *)

(* The session a copy names exists, and was final if it says uploaded.     *)
Honest(sv, s) ==
  s # None =>
    /\ s.upload # None => sv[s.upload].status # "absent"
    /\ s.status = "uploaded" => s.upload # None /\ sv[s.upload].final

HonestReply(sv, r) ==
  /\ r \in Answer
  /\ sv[r.upload].status # "absent"
  /\ r.status = "uploaded" => sv[r.upload].final

Answered == {"created", "createdRead", "gotStatus", "statusRead", "completed",
             "completedRead"}

OnChunk == {"loopRead", "put", "putDone", "putRead"}

Saving == {"keys", "saved"}

HandlerOK(sv, k) ==
  /\ Honest(sv, k.next)
  /\ Honest(sv, k.seen)
  /\ k.pc \in Saving \cup InRun \cup {"cancel"} => k.next # None
  /\ k.pc \in {"status", "cancel"} => k.next.upload # None
  /\ k.pc \in Answered => HonestReply(sv, k.reply)
  /\ k.pc \in OnChunk => k.i \in Chunks
  /\ k.pc \in Saving /\ k.then \in {"put", "next"} => k.i \in Chunks

SessionsOK(sv) ==
  \A u \in Uploads : sv[u].status = "uploaded" => sv[u].final

IInv ==
  /\ Types
  /\ SessionsOK(server)
  /\ Honest(server, db)
  /\ Honest(server, shown)
  /\ Honest(server, listing.value)
  /\ \A t \in Tasks : HandlerOK(server, tasks[t])

-----------------------------------------------------------------------------
(* Lemmas                                                                  *)

(* No session disappears, and a final one was final for good.              *)
Grows(sv, sv2) ==
  \A u \in Uploads :
    /\ sv[u].status # "absent" => sv2[u].status # "absent"
    /\ sv[u].final => sv2[u].final

LEMMA HonestStays ==
  ASSUME NEW sv, NEW sv2, Grows(sv, sv2)
  PROVE  /\ \A s \in State \cup {None} : Honest(sv, s) => Honest(sv2, s)
         /\ \A r : HonestReply(sv, r) => HonestReply(sv2, r)
         /\ \A k \in Handler : HandlerOK(sv, k) => HandlerOK(sv2, k)
<1>1. \A s \in State \cup {None} : Honest(sv, s) => Honest(sv2, s)
  BY DEF Honest, State, Grows
<1>2. \A r : HonestReply(sv, r) => HonestReply(sv2, r)
  BY DEF HonestReply, Answer, Grows
<1>3. \A k \in Handler : HandlerOK(sv, k) => HandlerOK(sv2, k)
  BY <1>1, <1>2 DEF HandlerOK, Handler
<1> QED BY <1>1, <1>2, <1>3

LEMMA IdleIsOK ==
  ASSUME NEW sv
  PROVE  IdleTask \in Handler /\ HandlerOK(sv, IdleTask)
BY QueueAssumption DEF IdleTask, Handler, HandlerOK, Honest, Places, InRun, Thens,
   Answered, OnChunk, Saving, Replies

(* Only the handler t takes a step.                                        *)
OnlyOf(t) ==
  /\ tasks' \in [Tasks -> Handler]
  /\ \A u \in Tasks \ {t} : tasks'[u] = tasks[u]

(* A step of one handler that leaves the sessions alone.                   *)
LEMMA HandlerKeeps ==
  ASSUME IInv, NEW t \in Tasks, OnlyOf(t), UNCHANGED <<server, listing, faults>>,
         HandlerOK(server, tasks'[t]),
         token' \in 0 .. MaxTokens,
         db' \in State \cup {None}, Honest(server, db'),
         shown' \in State \cup {None}, Honest(server, shown')
  PROVE  IInv'
<1>1. Types'
  BY DEF IInv, Types, OnlyOf
<1>2. \A u \in Tasks : HandlerOK(server, tasks'[u])
  BY DEF IInv, OnlyOf
<1>3. SessionsOK(server) /\ Honest(server, listing.value)
  BY DEF IInv
<1> QED BY <1>1, <1>2, <1>3 DEF IInv

(* A step of one handler with a request it makes to the service.           *)
LEMMA ServiceKeeps ==
  ASSUME IInv, NEW t \in Tasks, OnlyOf(t), UNCHANGED <<db, shown, listing, token>>,
         faults' \in 0 .. MaxFaults,
         server' \in [Uploads -> Session], Grows(server, server'),
         SessionsOK(server'),
         HandlerOK(server', tasks'[t])
  PROVE  IInv'
<1>1. Types'
  BY DEF IInv, Types, OnlyOf
<1>2. \A u \in Tasks : HandlerOK(server', tasks'[u])
  BY HonestStays DEF IInv, Types, OnlyOf
<1>3. Honest(server', db) /\ Honest(server', shown) /\ Honest(server', listing.value)
  BY HonestStays DEF IInv, Types
<1> QED BY <1>1, <1>2, <1>3 DEF IInv

(* finally: the handler is idle again.                                     *)
LEMMA FinishKeeps ==
  ASSUME IInv, NEW t \in Tasks, Finish(t),
         UNCHANGED <<server, db, listing, faults>>,
         shown' \in State \cup {None}, Honest(server, shown')
  PROVE  IInv'
<1>1. OnlyOf(t) /\ tasks'[t] = IdleTask /\ token' \in 0 .. MaxTokens
  BY IdleIsOK, QueueAssumption DEF IInv, Types, OnlyOf, Finish
<1>2. HandlerOK(server, tasks'[t])
  BY <1>1, IdleIsOK
<1> QED BY <1>1, <1>2, HandlerKeeps DEF IInv, Types

(* persistState of a state that is honest about its session.               *)
LEMMA SaveKeeps ==
  ASSUME IInv, NEW t \in Tasks, NEW s \in State, NEW touched, NEW then \in Thens,
         Honest(server, s), Save(t, s, touched, then),
         then \in {"put", "next"} => tasks[t].i \in Chunks,
         UNCHANGED <<server, shown, listing, token, faults>>
  PROVE  IInv'
<1> DEFINE k(pc) == [tasks[t] EXCEPT !.pc = pc, !.next = s, !.then = then,
                                     !.seen = None, !.reply = None]
<1>1. tasks[t] \in Handler
  BY DEF IInv, Types
<1>2. \A pc \in Saving : k(pc) \in Handler /\ HandlerOK(server, k(pc))
  <2> SUFFICES ASSUME NEW pc \in Saving
               PROVE  k(pc) \in Handler /\ HandlerOK(server, k(pc))
    OBVIOUS
  <2>1. k(pc) \in Handler
    BY <1>1 DEF Handler, Saving, Places
  <2>2. pc \notin OnChunk \cup Answered \cup {"status", "cancel"}
    BY DEF Saving, OnChunk, Answered
  <2>3. Honest(server, None)
    BY DEF Honest
  <2>4. s # None
    BY NoneAssumption
  <2>5. /\ k(pc).pc = pc /\ k(pc).next = s /\ k(pc).seen = None
        /\ k(pc).then = then /\ k(pc).i = tasks[t].i
    BY <1>1 DEF Handler
  <2> QED BY <2>1, <2>2, <2>3, <2>4, <2>5 DEF HandlerOK
<1>3. \E pc \in Saving : tasks' = [tasks EXCEPT ![t] = k(pc)]
  BY <1>1 DEF IInv, Types, Save, Saving
<1>4. OnlyOf(t) /\ HandlerOK(server, tasks'[t])
  BY <1>2, <1>3 DEF IInv, Types, OnlyOf
<1>5. db' \in State \cup {None} /\ Honest(server, db')
  <2>1. CASE ~SameUpload(s)
    BY <2>1 DEF Save, IInv, Types
  <2>2. CASE SameUpload(s)
    <3>1. PICK kept \in SUBSET LooksUnchanged(s, touched) :
            db' = [s EXCEPT !.done =
                     (@ \ kept) \cup (IF db = None THEN {} ELSE db.done \cap kept)]
      BY <2>2 DEF Save
    <3>2. db = None \/ db.done \subseteq Chunks
      BY DEF IInv, Types, State
    <3>3. /\ db' \in State
          /\ db'.status = s.status
          /\ db'.upload = s.upload
      BY <3>1, <3>2 DEF State
    <3> QED BY <3>3, NoneAssumption DEF Honest
  <2> QED BY <2>1, <2>2
<1> QED BY <1>4, <1>5, HandlerKeeps DEF IInv, Types

(* A handler that reads the record, or ends because its run is old.        *)
LEMMA ReadKeeps ==
  ASSUME IInv, NEW t \in Tasks, NEW pc, Read(t, pc),
         pc \in Places \ (OnChunk \cup Saving \cup {"status", "cancel"}),
         pc \in InRun => tasks[t].next # None,
         pc \in Answered => HonestReply(server, tasks[t].reply),
         token' \in 0 .. MaxTokens, UNCHANGED <<server, db, shown, listing, faults>>
  PROVE  IInv'
<1>1. tasks[t] \in Handler
  BY DEF IInv, Types
<1>2. /\ tasks' = [tasks EXCEPT ![t] = [tasks[t] EXCEPT !.pc = pc, !.seen = db]]
      /\ [tasks[t] EXCEPT !.pc = pc, !.seen = db] \in Handler
  BY <1>1 DEF IInv, Types, Read, Handler
<1>3. OnlyOf(t) /\ tasks'[t] = [tasks[t] EXCEPT !.pc = pc, !.seen = db]
  BY <1>2 DEF IInv, Types, OnlyOf
<1>4. HandlerOK(server, tasks'[t])
  BY <1>1, <1>3 DEF IInv, Types, HandlerOK, Handler
<1> QED BY <1>3, <1>4, HandlerKeeps DEF IInv, Types

LEMMA CheckRunKeeps ==
  ASSUME IInv, NEW t \in Tasks, NEW pc, CheckRunThenRead(t, pc),
         pc \in InRun \ (OnChunk \cup {"status"}),
         tasks[t].next # None,
         pc \in Answered => HonestReply(server, tasks[t].reply),
         UNCHANGED <<server, db, shown, listing, faults>>
  PROVE  IInv'
<1>1. CASE Read(t, pc) /\ UNCHANGED token
  BY <1>1, ReadKeeps DEF IInv, Types, Places, Saving, InRun, Replies
<1>2. CASE Finish(t)
  BY <1>2, FinishKeeps DEF IInv, Types
<1> QED BY <1>1, <1>2 DEF CheckRunThenRead

(* The head of the loop, with what the panel shows by then.                *)
LEMMA NextChunkKeeps ==
  ASSUME IInv, NEW t \in Tasks, NEW i \in 0 .. ChunkCount, NextChunk(t, i),
         tasks[t].next # None,
         shown' \in State \cup {None}, Honest(server, shown'),
         UNCHANGED <<server, db, listing, faults>>
  PROVE  IInv'
<1> DEFINE pc == IF i \in Chunks THEN "loopRead" ELSE "preComplete"
           k  == [tasks[t] EXCEPT !.pc = pc, !.i = i, !.seen = db]
<1>1. CASE tasks' = [tasks EXCEPT ![t].pc = pc, ![t].i = i, ![t].seen = db]
           /\ UNCHANGED token
  <2>1. tasks[t] \in Handler
    BY DEF IInv, Types
  <2>2. k \in Handler /\ tasks' = [tasks EXCEPT ![t] = k]
    BY <1>1, <2>1 DEF IInv, Types, Handler, Places, InRun
  <2>3. OnlyOf(t) /\ tasks'[t] = k
    BY <2>2 DEF IInv, Types, OnlyOf
  <2>4. HandlerOK(server, k)
    BY <2>1 DEF IInv, Types, HandlerOK, Handler, Answered, OnChunk, Saving
  <2> QED BY <1>1, <2>3, <2>4, HandlerKeeps DEF IInv, Types
<1>2. CASE Finish(t)
  BY <1>2, FinishKeeps
<1> QED BY <1>1, <1>2 DEF NextChunk

(* A handler that goes to another place with nothing else changed.         *)
LEMMA ToKeeps ==
  ASSUME IInv, NEW t \in Tasks, NEW pc \in Places \ {"saved", "keys"}, To(t, pc),
         HandlerOK(server, [tasks[t] EXCEPT !.pc = pc]),
         shown' \in State \cup {None}, Honest(server, shown'),
         db' \in State \cup {None}, Honest(server, db'),
         UNCHANGED <<server, listing, token, faults>>
  PROVE  IInv'
<1>1. tasks[t] \in Handler
  BY DEF IInv, Types
<1>2. /\ tasks' = [tasks EXCEPT ![t] = [tasks[t] EXCEPT !.pc = pc]]
      /\ [tasks[t] EXCEPT !.pc = pc] \in Handler
  BY <1>1 DEF To, Handler
<1>3. OnlyOf(t) /\ tasks'[t] = [tasks[t] EXCEPT !.pc = pc]
  BY <1>2 DEF IInv, Types, OnlyOf
<1> QED BY <1>3, HandlerKeeps DEF IInv, Types

(* The handler is idle again, and its run, if any, keeps its token.        *)
LEMMA ReturnKeeps ==
  ASSUME IInv, NEW t \in Tasks, tasks' = [tasks EXCEPT ![t] = IdleTask],
         shown' \in State \cup {None}, Honest(server, shown'),
         UNCHANGED <<server, db, listing, token, faults>>
  PROVE  IInv'
<1>1. OnlyOf(t) /\ HandlerOK(server, tasks'[t])
  BY IdleIsOK DEF IInv, Types, OnlyOf
<1> QED BY <1>1, HandlerKeeps DEF IInv, Types

-----------------------------------------------------------------------------
(* What the setters of the state make of an honest one                     *)

LEMMA SettersAreHonest ==
  ASSUME NEW sv, NEW s \in State, Honest(sv, s)
  PROVE  /\ \A status \in Statuses \ {"uploaded"} :
              /\ WithStatus(s, status) \in State
              /\ Honest(sv, WithStatus(s, status))
         /\ \A i \in Chunks :
              /\ WithChunk(s, i) \in State
              /\ Honest(sv, WithChunk(s, i))
         /\ \A r : HonestReply(sv, r) =>
              /\ SessionReady(s, r.upload) \in State
              /\ Honest(sv, SessionReady(s, r.upload))
              /\ MergeServerStatus(s, r.upload, r.status, r.confirmed) \in State
              /\ Honest(sv, MergeServerStatus(s, r.upload, r.status, r.confirmed))
              /\ MergeCompletion(s, r.upload, r.status) \in State
              /\ Honest(sv, MergeCompletion(s, r.upload, r.status))
<1>1. ASSUME NEW status \in Statuses \ {"uploaded"}
      PROVE  WithStatus(s, status) \in State /\ Honest(sv, WithStatus(s, status))
  BY NoneAssumption DEF WithStatus, IsTerminal, State, Honest
<1>2. ASSUME NEW i \in Chunks
      PROVE  WithChunk(s, i) \in State /\ Honest(sv, WithChunk(s, i))
  BY NoneAssumption DEF WithChunk, IsTerminal, State, Honest, Statuses
<1>3. ASSUME NEW r, HonestReply(sv, r)
      PROVE  /\ SessionReady(s, r.upload) \in State
             /\ Honest(sv, SessionReady(s, r.upload))
  BY <1>3, NoneAssumption DEF SessionReady, IsTerminal, State, Honest, HonestReply,
     Answer, Statuses
<1>4. ASSUME NEW r, HonestReply(sv, r), NEW c \in SUBSET Chunks
      PROVE  /\ MergeServerStatus(s, r.upload, r.status, c) \in State
             /\ Honest(sv, MergeServerStatus(s, r.upload, r.status, c))
  BY <1>4, NoneAssumption DEF MergeServerStatus, State, Honest, HonestReply, Answer
<1>5. \A r : HonestReply(sv, r) => r.confirmed \in SUBSET Chunks
  BY DEF HonestReply, Answer
<1> QED BY <1>1, <1>2, <1>3, <1>4, <1>5 DEF MergeCompletion

LEMMA FreshIsHonest ==
  ASSUME NEW sv
  PROVE  /\ WithStatus(Fresh, "initializing") \in State
         /\ Honest(sv, WithStatus(Fresh, "initializing"))
BY DEF Fresh, WithStatus, IsTerminal, State, Statuses, Honest

-----------------------------------------------------------------------------
(* The steps of a handler                                                  *)

LEMMA ClickKeeps ==
  ASSUME IInv, NEW t \in Tasks, Click(t)
  PROVE  IInv'
<1>1. CASE ClickMain(t)
  <2> DEFINE k == [IdleTask EXCEPT !.pc = "list",
                     !.fresh = shown = None \/ shown.status \in {"not_started", "canceled"}]
  <2>1. k \in Handler /\ HandlerOK(server, k)
    BY IdleIsOK DEF Handler, HandlerOK, Places, InRun, Replies, Answered, OnChunk,
       Saving, IdleTask
  <2>2. OnlyOf(t) /\ tasks'[t] = k
    BY <1>1, <2>1 DEF ClickMain, IInv, Types, OnlyOf
  <2> QED BY <1>1, <2>1, <2>2, HandlerKeeps DEF ClickMain, IInv, Types
<1>2. ASSUME NEW pc \in {"pauseRead", "cancelRead"}, InvalidateAndRead(t, pc)
      PROVE  IInv'
  <2>1. token' \in 0 .. MaxTokens
    BY <1>2, QueueAssumption DEF InvalidateAndRead, IInv, Types
  <2>2. pc \in Places \ (OnChunk \cup Saving \cup {"status", "cancel"})
    BY DEF Places, InRun, OnChunk, Saving, Replies
  <2>3. pc \notin InRun \cup Answered
    BY DEF InRun, Answered, Replies
  <2> QED BY <1>2, <2>1, <2>2, <2>3, ReadKeeps DEF InvalidateAndRead
<1> QED BY <1>1, <1>2 DEF Click, ClickPause, ClickCancel

LEMMA SaveInterruptionKeeps ==
  ASSUME IInv, NEW t \in Tasks, SaveInterruption(t)
  PROVE  IInv'
<1>1. CASE tasks' = [tasks EXCEPT ![t] = IdleTask] /\ UNCHANGED db
  BY <1>1, ReturnKeeps DEF SaveInterruption, IInv, Types
<1>2. ASSUME tasks[t].seen # None,
             NEW status \in {"paused", "canceled"}, NEW then \in {"return", "cancel"},
             Save(t, WithStatus(tasks[t].seen, status), {}, then)
      PROVE  IInv'
  <2>1. tasks[t].seen \in State /\ Honest(server, tasks[t].seen)
    BY <1>2 DEF IInv, Types, Handler, HandlerOK
  <2>2. status \in Statuses \ {"uploaded"}
    BY DEF Statuses
  <2>3. /\ WithStatus(tasks[t].seen, status) \in State
        /\ Honest(server, WithStatus(tasks[t].seen, status))
    BY <2>1, <2>2, SettersAreHonest
  <2> QED BY <1>2, <2>3, SaveKeeps DEF SaveInterruption, Thens
<1> QED BY <1>1, <1>2 DEF SaveInterruption

LEMMA LoadStateKeeps ==
  ASSUME IInv, NEW t \in Tasks, LoadState(t)
  PROVE  IInv'
<1>1. /\ "load" \in Places \ (OnChunk \cup Saving \cup {"status", "cancel"})
      /\ "load" \notin InRun \cup Answered
  BY DEF Places, InRun, OnChunk, Saving, Replies, Answered
<1>2. token' \in 0 .. MaxTokens
  BY DEF LoadState, IInv, Types
<1> QED BY <1>1, <1>2, ReadKeeps DEF LoadState

LEMMA ResolveStartKeeps ==
  ASSUME IInv, NEW t \in Tasks, ResolveStart(t)
  PROVE  IInv'
<1>1. CASE Resumes(t) /\ Save(t, WithStatus(tasks[t].seen, "initializing"), {}, "launch")
  <2>1. tasks[t].seen \in State /\ Honest(server, tasks[t].seen)
    BY <1>1 DEF Resumes, IInv, Types, Handler, HandlerOK
  <2>2. "initializing" \in Statuses \ {"uploaded"}
    BY DEF Statuses
  <2>3. /\ WithStatus(tasks[t].seen, "initializing") \in State
        /\ Honest(server, WithStatus(tasks[t].seen, "initializing"))
    BY <2>1, <2>2, SettersAreHonest
  <2> QED BY <1>1, <2>3, SaveKeeps DEF ResolveStart, Thens
<1>2. CASE Save(t, WithStatus(Fresh, "initializing"), Chunks, "launch")
  BY <1>2, FreshIsHonest, SaveKeeps DEF ResolveStart, Thens
<1>3. CASE db' = None /\ To(t, "deleting")
  <2>1. Honest(server, None)
    BY DEF Honest
  <2>2. HandlerOK(server, [tasks[t] EXCEPT !.pc = "deleting"])
    BY DEF IInv, Types, Handler, HandlerOK, InRun, Replies, Answered, OnChunk, Saving
  <2>3. "deleting" \in Places \ {"saved", "keys"}
    BY DEF Places
  <2> QED BY <1>3, <2>1, <2>2, <2>3, ToKeeps DEF ResolveStart, IInv, Types
<1> QED BY <1>1, <1>2, <1>3 DEF ResolveStart

LEMMA SaveInitialKeeps ==
  ASSUME IInv, NEW t \in Tasks, SaveInitial(t)
  PROVE  IInv'
BY FreshIsHonest, SaveKeeps DEF SaveInitial, Thens

LEMMA SaveAllKeeps ==
  ASSUME IInv, NEW t \in Tasks, SaveAll(t)
  PROVE  IInv'
<1>1. tasks[t] \in Handler /\ HandlerOK(server, tasks[t]) /\ tasks[t].pc = "keys"
  BY DEF SaveAll, At, IInv, Types
<1> DEFINE k == [tasks[t] EXCEPT !.pc = "saved"]
<1>2. k \in Handler /\ HandlerOK(server, k)
  BY <1>1 DEF Handler, HandlerOK, Places, InRun, Replies, Answered, OnChunk, Saving
<1>3. OnlyOf(t) /\ tasks'[t] = k
  BY <1>1, <1>2 DEF SaveAll, To, IInv, Types, OnlyOf, Handler
<1>4. db' \in State /\ Honest(server, db')
  BY <1>1 DEF SaveAll, Handler, HandlerOK, Saving
<1> QED BY <1>2, <1>3, <1>4, HandlerKeeps DEF SaveAll, IInv, Types

LEMMA SavedKeeps ==
  ASSUME IInv, NEW t \in Tasks, Saved(t)
  PROVE  IInv'
<1>1. /\ tasks[t] \in Handler
      /\ HandlerOK(server, tasks[t])
      /\ tasks[t].pc = "saved"
      /\ tasks[t].next \in State
      /\ Honest(server, tasks[t].next)
  BY DEF Saved, At, IInv, Types, Handler, HandlerOK, Saving
<1>2. shown' \in State \cup {None} /\ Honest(server, shown')
  BY <1>1 DEF Saved
<1>3. CASE Launch(t)
  <2> DEFINE pc == IF tasks[t].fresh \/ tasks[t].next.upload = None
                   THEN "create" ELSE "status"
             k == [tasks[t] EXCEPT !.token = token + 1, !.fresh = FALSE, !.pc = pc]
  <2>1. token' \in 0 .. MaxTokens /\ token' = token + 1
    BY <1>3, QueueAssumption DEF Launch, IInv, Types
  <2>2. k \in Handler /\ HandlerOK(server, k)
    BY <1>1, <2>1 DEF Handler, HandlerOK, Places, InRun, Replies, Answered, OnChunk, Saving
  <2>3. OnlyOf(t) /\ tasks'[t] = k
    BY <1>1, <1>3, <2>2 DEF Launch, IInv, Types, OnlyOf, Handler
  <2> QED BY <1>2, <2>1, <2>2, <2>3, HandlerKeeps DEF Saved, IInv, Types
<1>4. ASSUME NEW i \in 0 .. ChunkCount, NextChunk(t, i)
      PROVE  IInv'
  BY <1>1, <1>2, <1>4, NextChunkKeeps, NoneAssumption DEF Saved
<1>5. tasks[t].then = "next" => tasks[t].i + 1 \in 0 .. ChunkCount
  BY <1>1, QueueAssumption DEF HandlerOK, Saving, Chunks
<1>6. 0 \in 0 .. ChunkCount
  BY QueueAssumption
<1>7. ASSUME NEW pc \in {"put", "cancel"}, To(t, pc), UNCHANGED token,
             pc = "put" => tasks[t].i \in Chunks,
             pc = "cancel" => tasks[t].next.upload # None
      PROVE  IInv'
  <2>1. HandlerOK(server, [tasks[t] EXCEPT !.pc = pc])
    BY <1>1, <1>7 DEF Handler, HandlerOK, InRun, Replies, Answered, OnChunk, Saving
  <2>2. pc \in Places \ {"saved", "keys"}
    BY DEF Places, InRun
  <2> QED BY <1>2, <1>7, <2>1, <2>2, ToKeeps DEF Saved, IInv, Types
<1>8. tasks[t].then = "put" => tasks[t].i \in Chunks
  BY <1>1 DEF HandlerOK, Saving
<1>9. CASE Finish(t)
  BY <1>2, <1>9, FinishKeeps DEF Saved
<1>10. CASE tasks' = [tasks EXCEPT ![t] = IdleTask] /\ UNCHANGED token
  BY <1>2, <1>10, ReturnKeeps DEF Saved
<1> QED BY <1>3, <1>4, <1>5, <1>6, <1>7, <1>8, <1>9, <1>10 DEF Saved

LEMMA AfterReplyKeeps ==
  ASSUME IInv, NEW t \in Tasks, AfterReply(t)
  PROVE  IInv'
<1>1. tasks[t].pc \in Replies /\ HandlerOK(server, tasks[t])
  BY DEF AfterReply, IInv
<1>2. PICK pc \in {"createdRead", "statusRead", "putRead", "completedRead"} :
        /\ CheckRunThenRead(t, pc)
        /\ pc = "createdRead" => tasks[t].pc = "created"
        /\ pc = "statusRead" => tasks[t].pc = "gotStatus"
        /\ pc = "putRead" => tasks[t].pc = "putDone"
        /\ pc = "completedRead" => tasks[t].pc = "completed"
  <2>1. CASE tasks[t].pc = "created"
    BY <2>1 DEF AfterReply, At
  <2>2. CASE tasks[t].pc = "gotStatus"
    BY <2>2 DEF AfterReply, At
  <2>3. CASE tasks[t].pc = "putDone"
    BY <2>3 DEF AfterReply, At
  <2>4. CASE tasks[t].pc = "completed"
    BY <2>4 DEF AfterReply, At
  <2> QED BY <1>1, <2>1, <2>2, <2>3, <2>4 DEF Replies
<1>3. tasks[t].next # None
  BY <1>1 DEF HandlerOK, InRun
<1>4. pc \in Answered => HonestReply(server, tasks[t].reply)
  BY <1>1, <1>2 DEF HandlerOK, Answered
<1>5. CASE pc = "putRead"
  <2>1. CASE Finish(t)
    BY <2>1, FinishKeeps DEF AfterReply, IInv, Types
  <2>2. CASE Read(t, pc) /\ UNCHANGED token
    <3> DEFINE k == [tasks[t] EXCEPT !.pc = pc, !.seen = db]
    <3>1. tasks[t] \in Handler
      BY DEF IInv, Types
    <3>2. k \in Handler /\ HandlerOK(server, k)
      BY <1>1, <1>2, <1>3, <1>5, <3>1 DEF IInv, Types, Handler, HandlerOK, Places, InRun,
         Answered, OnChunk, Saving
    <3>3. OnlyOf(t) /\ tasks'[t] = k
      BY <2>2, <3>1, <3>2 DEF Read, IInv, Types, OnlyOf, Handler
    <3> QED BY <2>2, <3>2, <3>3, HandlerKeeps DEF AfterReply, IInv, Types
  <2> QED BY <1>2, <2>1, <2>2 DEF CheckRunThenRead
<1>6. CASE pc # "putRead"
  <2>1. pc \in InRun \ (OnChunk \cup {"status"})
    BY <1>6 DEF InRun, OnChunk
  <2> QED BY <1>2, <1>3, <1>4, <2>1, CheckRunKeeps DEF AfterReply
<1> QED BY <1>5, <1>6

(* What a handler applies an answer to is an honest state.                 *)
LEMMA LatestIsHonest ==
  ASSUME IInv, NEW t \in Tasks, tasks[t].next # None
  PROVE  Latest(t) \in State /\ Honest(server, Latest(t))
BY DEF Latest, IInv, Types, Handler, HandlerOK

LEMMA ApplyReplyKeeps ==
  ASSUME IInv, NEW t \in Tasks, ApplyReply(t)
  PROVE  IInv'
<1>1. /\ HandlerOK(server, tasks[t])
      /\ tasks[t].pc \in {"createdRead", "statusRead", "putRead", "completedRead"}
  BY DEF ApplyReply, IInv
<1>2. tasks[t].next \in State /\ tasks[t].next # None /\ Honest(server, tasks[t].next)
  BY <1>1 DEF HandlerOK, InRun, IInv, Types, Handler
<1>3. Latest(t) \in State /\ Honest(server, Latest(t))
  BY <1>2, LatestIsHonest
<1>4. tasks[t].pc \in Answered => HonestReply(server, tasks[t].reply)
  BY <1>1 DEF HandlerOK
<1>5. CASE Finish(t) /\ UNCHANGED db
  BY <1>5, FinishKeeps DEF ApplyReply, IInv, Types
<1>6. CASE At(t, "createdRead") /\ UNCHANGED token
           /\ Save(t, SessionReady(tasks[t].next, tasks[t].reply.upload), {}, "first")
  BY <1>2, <1>4, <1>6, SettersAreHonest, SaveKeeps DEF ApplyReply, At, Answered, Thens
<1>7. CASE At(t, "statusRead") /\ UNCHANGED token
           /\ Save(t, MergeServerStatus(tasks[t].next, tasks[t].reply.upload,
                        tasks[t].reply.status, tasks[t].reply.confirmed), Chunks, "first")
  BY <1>2, <1>4, <1>7, SettersAreHonest, SaveKeeps DEF ApplyReply, At, Answered, Thens
<1>8. CASE At(t, "putRead") /\ UNCHANGED token
           /\ Save(t, WithChunk(Latest(t), tasks[t].i), {tasks[t].i}, "next")
  <2>1. tasks[t].i \in Chunks
    BY <1>1, <1>8 DEF At, HandlerOK, OnChunk
  <2> QED BY <1>3, <1>8, <2>1, SettersAreHonest, SaveKeeps DEF ApplyReply, Thens
<1>9. CASE At(t, "completedRead") /\ UNCHANGED token
           /\ Save(t, MergeCompletion(Latest(t), tasks[t].reply.upload,
                        tasks[t].reply.status), Chunks, "end")
  BY <1>3, <1>4, <1>9, SettersAreHonest, SaveKeeps DEF ApplyReply, At, Answered, Thens
<1> QED BY <1>5, <1>6, <1>7, <1>8, <1>9 DEF ApplyReply

LEMMA SendChunkKeeps ==
  ASSUME IInv, NEW t \in Tasks, SendChunk(t)
  PROVE  IInv'
<1>1. /\ HandlerOK(server, tasks[t])
      /\ tasks[t].pc = "loopRead"
      /\ tasks[t].next # None
      /\ tasks[t].i \in Chunks
  BY DEF SendChunk, At, IInv, HandlerOK, InRun, OnChunk
<1>2. Latest(t) \in State /\ Honest(server, Latest(t))
  BY <1>1, LatestIsHonest
<1>3. CASE Finish(t) /\ UNCHANGED db
  BY <1>3, FinishKeeps DEF SendChunk, IInv, Types
<1>4. CASE NextChunk(t, tasks[t].i + 1) /\ UNCHANGED db
  <2>1. tasks[t].i + 1 \in 0 .. ChunkCount
    BY <1>1, QueueAssumption DEF Chunks
  <2> QED BY <1>1, <1>4, <2>1, NextChunkKeeps DEF SendChunk, IInv, Types
<1>5. CASE Save(t, WithStatus(Latest(t), "uploading"), {tasks[t].i}, "put")
           /\ UNCHANGED token
  <2>1. "uploading" \in Statuses \ {"uploaded"}
    BY DEF Statuses
  <2>2. /\ WithStatus(Latest(t), "uploading") \in State
        /\ Honest(server, WithStatus(Latest(t), "uploading"))
    BY <1>2, <2>1, SettersAreHonest
  <2> QED BY <1>1, <1>5, <2>2, SaveKeeps DEF SendChunk, Thens
<1> QED BY <1>3, <1>4, <1>5 DEF SendChunk

LEMMA SendCompleteKeeps ==
  ASSUME IInv, NEW t \in Tasks, SendComplete(t)
  PROVE  IInv'
<1>1. /\ tasks[t] \in Handler
      /\ HandlerOK(server, tasks[t])
      /\ tasks[t].pc = "preComplete"
  BY DEF SendComplete, At, IInv, Types
<1>2. CASE Finish(t)
  BY <1>2, FinishKeeps DEF SendComplete, IInv, Types
<1>3. CASE tasks' = [tasks EXCEPT ![t].pc = "complete", ![t].seen = None]
           /\ UNCHANGED token
  <2> DEFINE k == [tasks[t] EXCEPT !.pc = "complete", !.seen = None]
  <2>1. k \in Handler /\ HandlerOK(server, k)
    BY <1>1 DEF Handler, HandlerOK, Honest, Places, InRun, Replies, Answered, OnChunk, Saving
  <2>2. OnlyOf(t) /\ tasks'[t] = k
    BY <1>1, <1>3, <2>1 DEF IInv, Types, OnlyOf, Handler
  <2> QED BY <1>3, <2>1, <2>2, HandlerKeeps DEF SendComplete, IInv, Types
<1> QED BY <1>2, <1>3 DEF SendComplete

LEMMA FailureKeeps ==
  ASSUME IInv, NEW t \in Tasks, CatchError(t) \/ SaveFailure(t)
  PROVE  IInv'
<1>1. HandlerOK(server, tasks[t]) /\ tasks[t].pc \in {"error", "errorRead"}
  BY DEF CatchError, SaveFailure, At, IInv
<1>2. tasks[t].next # None
  BY <1>1 DEF HandlerOK, InRun
<1>3. CASE CatchError(t)
  <2>1. "errorRead" \in InRun \ (OnChunk \cup {"status"}) /\ "errorRead" \notin Answered
    BY DEF InRun, OnChunk, Answered
  <2> QED BY <1>2, <1>3, <2>1, CheckRunKeeps DEF CatchError
<1>4. CASE SaveFailure(t)
  <2>1. CASE Finish(t) /\ UNCHANGED db
    BY <1>4, <2>1, FinishKeeps DEF SaveFailure, IInv, Types
  <2>2. CASE Save(t, WithStatus(Latest(t), "failed"), {}, "end") /\ UNCHANGED token
    <3>1. "failed" \in Statuses \ {"uploaded"}
      BY DEF Statuses
    <3>2. /\ WithStatus(Latest(t), "failed") \in State
          /\ Honest(server, WithStatus(Latest(t), "failed"))
      BY <1>2, <3>1, LatestIsHonest, SettersAreHonest
    <3> QED BY <1>4, <2>2, <3>2, SaveKeeps DEF SaveFailure, Thens
  <2> QED BY <1>4, <2>1, <2>2 DEF SaveFailure
<1> QED BY <1>3, <1>4

-----------------------------------------------------------------------------
(* The service, and trouble                                                *)

(* An answer reaches its handler, with the sessions as they are by then.   *)
LEMMA AnswerKeeps ==
  ASSUME IInv, NEW t \in Tasks,
         NEW pc \in {"created", "gotStatus", "completed"}, NEW r,
         tasks' = [tasks EXCEPT ![t].pc = pc, ![t].reply = r],
         tasks[t].next # None,
         server' \in [Uploads -> Session], Grows(server, server'),
         SessionsOK(server'), HonestReply(server', r),
         UNCHANGED <<db, shown, listing, token, faults>>
  PROVE  IInv'
<1> DEFINE k == [tasks[t] EXCEPT !.pc = pc, !.reply = r]
<1>1. tasks[t] \in Handler /\ HandlerOK(server', tasks[t])
  BY HonestStays DEF IInv, Types
<1>2. k \in Handler /\ HandlerOK(server', k)
  BY <1>1 DEF Handler, HandlerOK, HonestReply, Places, InRun, Replies, Answered, OnChunk,
     Saving
<1>3. OnlyOf(t) /\ tasks'[t] = k
  BY <1>1, <1>2 DEF IInv, Types, OnlyOf, Handler
<1> QED BY <1>2, <1>3, ServiceKeeps DEF IInv, Types

(* A request comes back without a word of the state, or not at all.        *)
LEMMA GoOnKeeps ==
  ASSUME IInv, NEW t \in Tasks, NEW pc \in {"error", "putDone"}, To(t, pc),
         tasks[t].next # None,
         pc = "putDone" => tasks[t].i \in Chunks,
         server' \in [Uploads -> Session], Grows(server, server'), SessionsOK(server'),
         faults' \in 0 .. MaxFaults,
         UNCHANGED <<db, shown, listing, token>>
  PROVE  IInv'
<1> DEFINE k == [tasks[t] EXCEPT !.pc = pc]
<1>1. tasks[t] \in Handler /\ HandlerOK(server', tasks[t])
  BY HonestStays DEF IInv, Types
<1>2. k \in Handler /\ HandlerOK(server', k)
  BY <1>1 DEF Handler, HandlerOK, Places, InRun, Replies, Answered, OnChunk, Saving
<1>3. OnlyOf(t) /\ tasks'[t] = k
  BY <1>1, <1>2 DEF To, IInv, Types, OnlyOf, Handler
<1> QED BY <1>2, <1>3, ServiceKeeps

LEMMA GrowsItself == Grows(server, server)
BY DEF Grows

(* What a request does to its session u.                                   *)
LEMMA SessionSteps ==
  ASSUME IInv, NEW u \in Uploads, NEW e \in Session,
         server' = [server EXCEPT ![u] = e],
         e.status # "absent",
         server[u].final => e.final,
         e.status = "uploaded" => e.final
  PROVE  server' \in [Uploads -> Session] /\ Grows(server, server') /\ SessionsOK(server')
BY DEF IInv, Types, Grows, SessionsOK

LEMMA HandleCreateKeeps ==
  ASSUME IInv, NEW t \in Tasks, HandleCreate(t)
  PROVE  IInv'
<1>1. PICK u \in Uploads :
        /\ server[u].status = "absent"
        /\ server' = [server EXCEPT ![u].status = "ready"]
        /\ Reply(t, "created", u, "ready", {})
  BY DEF HandleCreate
<1> DEFINE r == [upload |-> u, status |-> "ready", confirmed |-> {}]
           e == [server[u] EXCEPT !.status = "ready"]
<1>2. server[u] \in Session /\ server' = [server EXCEPT ![u] = e]
  BY <1>1 DEF IInv, Types
<1>3. e \in Session /\ e.status = "ready" /\ e.final = server[u].final
  BY <1>2 DEF Session
<1>4. server' \in [Uploads -> Session] /\ Grows(server, server') /\ SessionsOK(server')
  BY <1>2, <1>3, SessionSteps
<1>5. HonestReply(server', r)
  BY <1>2, <1>3 DEF HonestReply, Answer, Statuses, IInv, Types
<1>6. tasks[t].next # None
  BY DEF HandleCreate, At, IInv, HandlerOK, InRun
<1> QED BY <1>1, <1>4, <1>5, <1>6, AnswerKeeps DEF HandleCreate, Reply

LEMMA HandleStatusKeeps ==
  ASSUME IInv, NEW t \in Tasks, HandleStatus(t)
  PROVE  IInv'
<1> DEFINE u == tasks[t].next.upload
           r == [upload |-> u, status |-> server[u].status, confirmed |-> server[u].listed]
<1>1. tasks[t].next \in State /\ tasks[t].next # None /\ u \in Uploads
      /\ server[u].status # "absent"
  BY DEF HandleStatus, At, IInv, Types, Handler, HandlerOK, InRun, State, Honest
<1>2. server[u] \in Session
  BY <1>1 DEF IInv, Types
<1>3. HonestReply(server, r)
  BY <1>1, <1>2 DEF HonestReply, Answer, Statuses, Session, IInv, SessionsOK
<1> QED BY <1>1, <1>3, GrowsItself, AnswerKeeps DEF HandleStatus, Reply, IInv, Types

LEMMA HandlePutKeeps ==
  ASSUME IInv, NEW t \in Tasks, HandlePut(t)
  PROVE  IInv'
<1> DEFINE u == tasks[t].next.upload
           i == tasks[t].i
           e == [server[u] EXCEPT !.stored = @ \cup {i}, !.listed = @ \cup {i},
                                  !.status = "uploading"]
<1>1. /\ tasks[t].next \in State
      /\ tasks[t].next # None
      /\ u # None => u \in Uploads
      /\ i \in Chunks
  BY DEF HandlePut, At, IInv, Types, Handler, HandlerOK, InRun, OnChunk, State
<1>2. CASE To(t, "error") /\ UNCHANGED server
  BY <1>1, <1>2, GrowsItself, GoOnKeeps DEF HandlePut, IInv, Types
<1>3. CASE /\ u # None
           /\ server' = [server EXCEPT ![u].stored = @ \cup {i}, ![u].listed = @ \cup {i},
                                       ![u].status = "uploading"]
           /\ To(t, "putDone")
  <2>1. server[u] \in Session /\ server' = [server EXCEPT ![u] = e]
    BY <1>1, <1>3 DEF IInv, Types, Session
  <2>2. e \in Session /\ e.status = "uploading" /\ e.final = server[u].final
    BY <1>1, <2>1 DEF Session
  <2>3. server' \in [Uploads -> Session] /\ Grows(server, server') /\ SessionsOK(server')
    BY <1>1, <1>3, <2>1, <2>2, SessionSteps
  <2> QED BY <1>1, <1>3, <2>3, GoOnKeeps DEF HandlePut, IInv, Types
<1> QED BY <1>2, <1>3 DEF HandlePut

LEMMA HandleCompleteKeeps ==
  ASSUME IInv, NEW t \in Tasks, HandleComplete(t)
  PROVE  IInv'
<1> DEFINE u == tasks[t].next.upload
<1>1. /\ tasks[t].next \in State
      /\ tasks[t].next # None
      /\ u # None => u \in Uploads
  BY DEF HandleComplete, At, IInv, Types, Handler, HandlerOK, InRun, State
<1>2. CASE To(t, "error") /\ UNCHANGED server
  BY <1>1, <1>2, GrowsItself, GoOnKeeps DEF HandleComplete, IInv, Types
<1>3. CASE /\ u # None
           /\ server' = [server EXCEPT ![u].status = "uploaded", ![u].final = TRUE]
           /\ Reply(t, "completed", u, "uploaded", {})
  <2> DEFINE e == [server[u] EXCEPT !.status = "uploaded", !.final = TRUE]
             r == [upload |-> u, status |-> "uploaded", confirmed |-> {}]
  <2>1. server[u] \in Session /\ server' = [server EXCEPT ![u] = e]
    BY <1>1, <1>3 DEF IInv, Types, Session
  <2>2. e \in Session /\ e.status = "uploaded" /\ e.final
    BY <1>1, <2>1 DEF Session
  <2>3. server' \in [Uploads -> Session] /\ Grows(server, server') /\ SessionsOK(server')
    BY <1>1, <1>3, <2>1, <2>2, SessionSteps
  <2>4. HonestReply(server', r)
    BY <1>1, <1>3, <2>1, <2>2 DEF HonestReply, Answer, Statuses, IInv, Types
  <2> QED BY <1>1, <1>3, <2>3, <2>4, AnswerKeeps DEF HandleComplete, Reply
<1>4. CASE /\ u # None
           /\ server' = [server EXCEPT ![u].status = "incomplete"]
           /\ Reply(t, "completed", u, "incomplete", {})
  <2> DEFINE e == [server[u] EXCEPT !.status = "incomplete"]
             r == [upload |-> u, status |-> "incomplete", confirmed |-> {}]
  <2>1. server[u] \in Session /\ server' = [server EXCEPT ![u] = e]
    BY <1>1, <1>4 DEF IInv, Types, Session
  <2>2. e \in Session /\ e.status = "incomplete" /\ e.final = server[u].final
    BY <1>1, <2>1 DEF Session
  <2>3. server' \in [Uploads -> Session] /\ Grows(server, server') /\ SessionsOK(server')
    BY <1>1, <1>4, <2>1, <2>2, SessionSteps
  <2>4. HonestReply(server', r)
    BY <1>1, <1>4, <2>1, <2>2 DEF HonestReply, Answer, Statuses, IInv, Types
  <2> QED BY <1>1, <1>4, <2>3, <2>4, AnswerKeeps DEF HandleComplete, Reply
<1> QED BY <1>2, <1>3, <1>4 DEF HandleComplete

LEMMA HandleCancelKeeps ==
  ASSUME IInv, NEW t \in Tasks, HandleCancel(t)
  PROVE  IInv'
<1> DEFINE u == tasks[t].next.upload
           e == [server[u] EXCEPT !.status = "canceled"]
<1>1. u \in Uploads
  BY DEF HandleCancel, At, IInv, Types, Handler, HandlerOK, State
<1>2. server[u] \in Session /\ server' = [server EXCEPT ![u] = e]
  BY <1>1 DEF HandleCancel, IInv, Types
<1>3. e \in Session /\ e.status = "canceled" /\ e.final = server[u].final
  BY <1>2 DEF Session
<1>4. server' \in [Uploads -> Session] /\ Grows(server, server') /\ SessionsOK(server')
  BY <1>1, <1>2, <1>3, SessionSteps
<1>5. OnlyOf(t) /\ HandlerOK(server', tasks'[t])
  BY IdleIsOK DEF HandleCancel, IInv, Types, OnlyOf
<1> QED BY <1>4, <1>5, ServiceKeeps DEF HandleCancel, IInv, Types

LEMMA TaskStepKeeps ==
  ASSUME IInv, NEW t \in Tasks, TaskStep(t)
  PROVE  IInv'
BY SaveInterruptionKeeps, LoadStateKeeps, ResolveStartKeeps, SaveInitialKeeps,
   SaveAllKeeps, SavedKeeps, AfterReplyKeeps, ApplyReplyKeeps, SendChunkKeeps,
   SendCompleteKeeps, FailureKeeps, HandleCreateKeeps, HandleStatusKeeps,
   HandlePutKeeps, HandleCompleteKeeps, HandleCancelKeeps DEF TaskStep

LEMMA NetworkFailsKeeps ==
  ASSUME IInv, NEW t \in Tasks, NetworkFails(t)
  PROVE  IInv'
<1>1. faults' \in 0 .. MaxFaults
  BY QueueAssumption DEF NetworkFails, Fault, IInv, Types
<1>2. CASE tasks[t].pc \in Replies \cup (Requests \ {"cancel"}) /\ To(t, "error")
  <2>1. tasks[t].next # None
    BY <1>2 DEF IInv, HandlerOK, InRun, Replies, Requests
  <2> QED BY <1>1, <1>2, <2>1, GrowsItself, GoOnKeeps DEF NetworkFails, IInv, Types
<1>3. CASE tasks' = [tasks EXCEPT ![t] = IdleTask]
  <2>1. OnlyOf(t) /\ HandlerOK(server', tasks'[t])
    BY <1>3, IdleIsOK DEF IInv, Types, OnlyOf
  <2> QED BY <1>1, <2>1, GrowsItself, ServiceKeeps DEF NetworkFails, IInv, Types
<1> QED BY <1>2, <1>3 DEF NetworkFails

LEMMA LateRequestKeeps ==
  ASSUME IInv, NEW u \in Uploads, LateRequest(u)
  PROVE  IInv'
<1>1. PICK e \in Session :
        /\ server' = [server EXCEPT ![u] = e]
        /\ e.status # "absent"
        /\ server[u].final => e.final
        /\ e.status = "uploaded" => e.final
  <2> DEFINE s == server[u]
  <2>1. s \in Session /\ s.status # "absent" /\ (s.status = "uploaded" => s.final)
    BY DEF IInv, Types, SessionsOK, LateRequest
  <2>2. CASE \E i \in Chunks :
               server' = [server EXCEPT ![u].stored = @ \cup {i}, ![u].late = TRUE]
    <3>1. PICK i \in Chunks :
               server' = [server EXCEPT ![u].stored = @ \cup {i}, ![u].late = TRUE]
      BY <2>2
    <3> DEFINE e == [s EXCEPT !.stored = @ \cup {i}, !.late = TRUE]
    <3>2. /\ e \in Session /\ e.status = s.status /\ e.final = s.final
          /\ server' = [server EXCEPT ![u] = e]
      BY <2>1, <3>1 DEF Session
    <3> QED BY <2>1, <3>2
  <2>3. CASE \E listed \in SUBSET s.stored,
               status \in {"uploading", "incomplete", "uploaded", "canceled"} :
               server' = [server EXCEPT ![u].listed = listed, ![u].status = status,
                                        ![u].final = @ \/ status = "uploaded",
                                        ![u].late = TRUE]
    <3>1. PICK listed \in SUBSET s.stored,
               status \in {"uploading", "incomplete", "uploaded", "canceled"} :
               server' = [server EXCEPT ![u].listed = listed, ![u].status = status,
                                        ![u].final = @ \/ status = "uploaded",
                                        ![u].late = TRUE]
      BY <2>3
    <3> DEFINE e == [s EXCEPT !.listed = listed, !.status = status,
                              !.final = @ \/ status = "uploaded", !.late = TRUE]
    <3>2. /\ e \in Session /\ e.status = status
          /\ e.final = (s.final \/ status = "uploaded")
          /\ server' = [server EXCEPT ![u] = e]
      BY <2>1, <3>1 DEF Session
    <3> QED BY <2>1, <3>1, <3>2
  <2> QED BY <2>2, <2>3 DEF LateRequest
<1>2. server' \in [Uploads -> Session] /\ Grows(server, server') /\ SessionsOK(server')
  BY <1>1, SessionSteps
<1>3. faults' \in 0 .. MaxFaults /\ UNCHANGED <<db, shown, listing, token, tasks>>
  <2>1. Fault /\ UNCHANGED <<db, shown, listing, token, tasks>>
    BY ONLY LateRequest(u) DEF LateRequest
  <2>2. faults \in 0 .. MaxFaults
    BY DEF IInv, Types
  <2> QED BY ONLY <2>1, <2>2, QueueAssumption DEF Fault
<1>4. Types'
  BY <1>2, <1>3 DEF IInv, Types
<1>5. \A t \in Tasks : HandlerOK(server', tasks[t])
  BY <1>2, HonestStays DEF IInv, Types
<1>6. Honest(server', db) /\ Honest(server', shown) /\ Honest(server', listing.value)
  BY <1>2, HonestStays DEF IInv, Types
<1> QED BY <1>2, <1>3, <1>4, <1>5, <1>6 DEF IInv

LEMMA PageKeeps ==
  ASSUME IInv, BeginListing \/ FinishListing \/ Reload
  PROVE  IInv'
<1>1. Honest(server, None)
  BY DEF Honest
<1>2. CASE BeginListing
  BY <1>2, QueueAssumption DEF BeginListing, Fault, IInv, Types
<1>3. CASE FinishListing
  BY <1>1, <1>3 DEF FinishListing, IInv, Types
<1>4. CASE Reload
  BY <1>1, <1>4, IdleIsOK, QueueAssumption DEF Reload, Fault, IInv, Types
<1> QED BY <1>2, <1>3, <1>4

-----------------------------------------------------------------------------
(* The invariant                                                           *)

LEMMA InitHolds == Init => IInv
<1> SUFFICES ASSUME Init PROVE IInv
  OBVIOUS
<1>1. Honest(server, None)
  BY DEF Honest
<1>2. Types
  BY IdleIsOK, QueueAssumption DEF Init, Types, Session, NoSession
<1> QED BY <1>1, <1>2, IdleIsOK DEF Init, IInv, SessionsOK, NoSession

LEMMA NextKeeps == IInv /\ [Next]_vars => IInv'
<1> SUFFICES ASSUME IInv, [Next]_vars PROVE IInv'
  OBVIOUS
<1>1. CASE Next
  BY <1>1, ClickKeeps, TaskStepKeeps, NetworkFailsKeeps, LateRequestKeeps, PageKeeps DEF Next
<1>2. CASE UNCHANGED vars
  BY <1>2 DEF vars, IInv, Types
<1> QED BY <1>1, <1>2

(* The patient user and the quiet service do nothing that others do not.   *)
LEMMA PatientStep == [PatientNext]_vars => [Next]_vars
BY DEF PatientNext, Next, PatientClick, Click

(* All of this is an invariant, with the patient user and without.         *)
THEOREM Invariance == (Spec => []IInv) /\ (PatientSpec => []IInv)
<1>1. Spec => []IInv
  BY InitHolds, NextKeeps, PTL DEF Spec
<1>2. PatientSpec => []IInv
  BY InitHolds, NextKeeps, PatientStep, PTL DEF PatientSpec
<1> QED BY <1>1, <1>2

(* Every reachable state is well typed, for any number of handlers,        *)
(* sessions, chunks and faults.                                            *)
THEOREM TypeCorrectness == (Spec => []TypeOK) /\ (PatientSpec => []TypeOK)
<1>1. IInv => TypeOK
  BY DEF IInv, Types, TypeOK, Handler, Thens
<1> QED BY <1>1, Invariance, PTL

(* A record says uploaded only of a session the service has finalized: no  *)
(* run, click, listing, reload or late answer, in whatever order they come *)
(* (runUpload, pauseUpload, cancelUpload), puts these words anywhere else. *)
THEOREM UploadedFinal ==
  (Spec => []UploadedWasFinal) /\ (PatientSpec => []UploadedWasFinal)
<1>1. IInv => UploadedWasFinal
  BY DEF IInv, Honest, UploadedWasFinal
<1> QED BY <1>1, Invariance, PTL

-----------------------------------------------------------------------------
(* One run at a time (PatientSpec)                                         *)

(* What a state counts as done is stored for the session it names.         *)
Sound(sv, s) ==
  s # None =>
    /\ s.status # "canceled"
    /\ s.done # {} => s.upload # None /\ s.done \subseteq sv[s.upload].stored

SessionsSound(sv) ==
  \A u \in Uploads :
    /\ sv[u].listed \subseteq sv[u].stored
    /\ sv[u].status # "canceled"
    /\ sv[u].status = "absent" => sv[u].listed = {}

(* Where a run goes through the chunks, or saves what takes it there.      *)
Looping(k) == k.pc \in OnChunk \/ (k.pc \in Saving /\ k.then \in {"first", "next", "put"})

(* Where the handler has read the record and nobody has written it since.  *)
HasRead == {"load", "pauseRead", "createdRead", "statusRead", "putRead", "completedRead",
            "loopRead", "preComplete", "errorRead"}

(* The one handler at work, given the sessions, the record and the panel.  *)
RunOK(sv, d, sh, k) ==
  /\ k.pc \notin {"cancelRead", "cancel"}
  /\ k.pc \in InRun \cup {"list", "load", "pauseRead"} => sh = d
  /\ k.pc \in InRun \cup {"saved"} => k.next = d
  /\ k.pc \in HasRead => k.seen = d
  /\ k.pc = "deleting" => d = None
  /\ k.pc \in Saving => k.then # "cancel" /\ Sound(sv, k.next)
  /\ k.pc \in Saving /\ k.then = "launch" /\ k.fresh => k.next.upload = None
  /\ k.pc \in {"create", "created", "createdRead"} => k.next.upload = None
  /\ k.pc \in {"created", "createdRead"} => sv[k.reply.upload].listed = {}
  /\ k.pc \in {"gotStatus", "statusRead"} =>
       k.reply.upload = k.next.upload /\ k.reply.confirmed = sv[k.reply.upload].listed
  /\ k.pc \in {"completed", "completedRead"} =>
       k.reply.upload = k.next.upload /\ k.reply.confirmed = {}
  /\ k.pc \in Answered => k.reply.status # "canceled"
  /\ Looping(k) =>
       /\ k.next.upload # None
       /\ sv[k.next.upload].listed \subseteq
            k.next.done \cup (IF k.pc \in {"putDone", "putRead"} THEN {k.i} ELSE {})
  /\ k.pc \in {"putDone", "putRead"} => k.i \in sv[k.next.upload].stored
  /\ k.pc = "put" \/ (k.pc \in Saving /\ k.then = "put") => k.i \notin k.next.done

(* What is left when nobody is at work: the panel shows the record, or     *)
(* reads it.                                                               *)
AtRest(d, sh, l) == IF l.on THEN l.value = d ELSE sh = d

Alone(t) == \A u \in Tasks \ {t} : At(u, "idle")

PInv ==
  /\ IInv
  /\ SessionsSound(server)
  /\ Sound(server, db)
  /\ Quiet => AtRest(db, shown, listing)
  /\ \A t \in Tasks : ~At(t, "idle") =>
       Alone(t) /\ ~listing.on /\ RunOK(server, db, shown, tasks[t])

(* The others rest, and go on resting.                                     *)
Apart(t) == Alone(t) /\ \A u \in Tasks \ {t} : tasks'[u] = tasks[u]

LEMMA WorkGoesOn ==
  ASSUME PInv, IInv', NEW t \in Tasks, Apart(t), ~listing.on,
         UNCHANGED <<server, listing>>,
         Sound(server, db'),
         tasks'[t].pc # "idle", RunOK(server, db', shown', tasks'[t])
  PROVE  PInv'
BY DEF PInv, Apart, Alone, Quiet, At

LEMMA WorkEnds ==
  ASSUME PInv, IInv', NEW t \in Tasks, Apart(t), ~listing.on,
         UNCHANGED <<server, listing>>,
         Sound(server, db'),
         tasks'[t].pc = "idle", shown' = db'
  PROVE  PInv'
BY DEF PInv, Apart, Alone, Quiet, At, AtRest

(* What is known of the handler at work.                                   *)
LEMMA AtWork ==
  ASSUME PInv, NEW t \in Tasks, ~At(t, "idle")
  PROVE  /\ Alone(t)
         /\ ~listing.on
         /\ RunOK(server, db, shown, tasks[t])
         /\ tasks[t] \in Handler
         /\ HandlerOK(server, tasks[t])
         /\ Sound(server, db)
         /\ SessionsSound(server)
         /\ db \in State \cup {None}
         /\ shown \in State \cup {None}
         /\ tasks \in [Tasks -> Handler]
         /\ server \in [Uploads -> Session]
BY DEF PInv, IInv, Types

LEMMA FinishEnds ==
  ASSUME PInv, IInv', NEW t \in Tasks, ~At(t, "idle"),
         Finish(t) \/ tasks' = [tasks EXCEPT ![t] = IdleTask],
         UNCHANGED <<server, listing, db>>,
         shown' = db
  PROVE  PInv'
<1>1. Apart(t) /\ tasks'[t].pc = "idle" /\ ~listing.on /\ Sound(server, db')
  BY AtWork DEF Apart, Finish, IdleTask
<1> QED BY <1>1, WorkEnds

(* persistState with the panel up to date, or with all chunks touched:     *)
(* what is stored is the state itself.                                     *)
LEMMA SaveGoesOn ==
  ASSUME PInv, IInv', NEW t \in Tasks, ~At(t, "idle"),
         NEW s \in State, NEW touched, NEW then \in Thens \ {"cancel"},
         Save(t, s, touched, then),
         Sound(server, s),
         shown = db \/ touched = Chunks,
         then = "launch" /\ tasks[t].fresh => s.upload = None,
         then \in {"first", "next", "put"} =>
           s.upload # None /\ server[s.upload].listed \subseteq s.done,
         then = "put" => tasks[t].i \notin s.done,
         UNCHANGED <<server, shown, listing>>
  PROVE  PInv'
<1>1. tasks[t] \in Handler /\ tasks \in [Tasks -> Handler]
  BY AtWork
<1>2. PICK pc \in Saving :
        /\ tasks' = [tasks EXCEPT ![t].pc = pc, ![t].next = s, ![t].then = then,
                                  ![t].seen = None, ![t].reply = None]
        /\ pc = "keys" => ~SameUpload(s) /\ db' = db
        /\ pc = "saved" => SameUpload(s)
  BY DEF Save, Saving
<1> DEFINE k == tasks'[t]
<1>3. /\ k.pc = pc /\ k.next = s /\ k.then = then
      /\ k.i = tasks[t].i /\ k.fresh = tasks[t].fresh
      /\ \A u \in Tasks \ {t} : tasks'[u] = tasks[u]
  BY <1>1, <1>2 DEF Handler
<1>4. Apart(t) /\ ~listing.on
  BY <1>3, AtWork DEF Apart
<1>5. pc = "saved" => db' = s
  <2> SUFFICES ASSUME pc = "saved" PROVE db' = s
    OBVIOUS
  <2>1. SameUpload(s)
    BY <1>2
  <2>2. PICK kept \in SUBSET LooksUnchanged(s, touched) :
          db' = [s EXCEPT !.done =
                   (@ \ kept) \cup (IF db = None THEN {} ELSE db.done \cap kept)]
    BY <2>1 DEF Save
  <2>3. \A i \in kept : db # None /\ (i \in db.done <=> i \in s.done)
    BY <2>2 DEF LooksUnchanged
  <2>4. (s.done \ kept) \cup (IF db = None THEN {} ELSE db.done \cap kept) = s.done
    BY <2>3
  <2> QED BY <2>2, <2>4 DEF State
<1>6. Sound(server, db')
  BY <1>2, <1>5, AtWork DEF Saving
<1>7. RunOK(server, db', shown', k)
  BY <1>2, <1>3, <1>5 DEF RunOK, Saving, InRun, Replies, HasRead, Answered, Looping, OnChunk
<1>8. k.pc # "idle"
  BY <1>3 DEF Saving
<1> QED BY <1>4, <1>6, <1>7, <1>8, WorkGoesOn

(* A read of the record in a run, or its end when the run is old.          *)
LEMMA ReadGoesOn ==
  ASSUME PInv, IInv', NEW t \in Tasks, ~At(t, "idle"), NEW pc, Read(t, pc),
         pc \in {"load", "createdRead", "statusRead", "putRead", "completedRead", "errorRead"},
         \A k \in Handler :
           /\ k.next = tasks[t].next /\ k.seen = db /\ k.pc = pc
           /\ k.i = tasks[t].i /\ k.reply = tasks[t].reply
           => RunOK(server, db, shown, k),
         UNCHANGED <<server, shown, listing, db>>
  PROVE  PInv'
<1>1. tasks[t] \in Handler /\ tasks \in [Tasks -> Handler]
  BY AtWork
<1> DEFINE k == [tasks[t] EXCEPT !.pc = pc, !.seen = db]
<1>2. k \in Handler /\ tasks' = [tasks EXCEPT ![t] = k]
  BY <1>1, AtWork DEF Read, Handler, Places, InRun
<1>3. /\ k.pc = pc /\ k.seen = db /\ k.next = tasks[t].next
      /\ k.i = tasks[t].i /\ k.reply = tasks[t].reply
  BY <1>1 DEF Handler
<1>4. RunOK(server, db, shown, k)
  BY <1>2, <1>3
<1>5. tasks'[t] = k /\ \A u \in Tasks \ {t} : tasks'[u] = tasks[u]
  BY <1>1, <1>2
<1>6. Apart(t) /\ ~listing.on /\ Sound(server, db')
  BY <1>5, AtWork DEF Apart
<1> QED BY <1>3, <1>4, <1>5, <1>6, WorkGoesOn

-----------------------------------------------------------------------------
(* The steps of the one run                                                *)

LEMMA PatientClickGoesOn ==
  ASSUME PInv, IInv', NEW t \in Tasks, PatientClick(t)
  PROVE  PInv'
<1>1. Quiet /\ ~listing.on /\ shown = db
  BY DEF PatientClick, ClickMain, CanClickMain, ClickPause, CanPause, PInv, AtRest
<1>2. Alone(t) /\ tasks \in [Tasks -> Handler]
  BY <1>1 DEF Quiet, Alone, PInv, IInv, Types
<1>3. CASE ClickMain(t)
  <2>1. /\ tasks'[t].pc = "list"
        /\ \A u \in Tasks \ {t} : tasks'[u] = tasks[u]
    BY <1>2, <1>3 DEF ClickMain, IdleTask
  <2>2. RunOK(server, db, shown, tasks'[t])
    BY <1>1, <2>1 DEF RunOK, Saving, InRun, Replies, HasRead, Answered, Looping, OnChunk
  <2> QED BY <1>1, <1>2, <1>3, <2>1, <2>2, WorkGoesOn DEF Apart, ClickMain, PInv
<1>4. CASE ClickPause(t)
  <2>1. /\ tasks'[t].pc = "pauseRead"
        /\ tasks'[t].seen = db
        /\ \A u \in Tasks \ {t} : tasks'[u] = tasks[u]
    BY <1>2, <1>4 DEF ClickPause, InvalidateAndRead, Read, Handler
  <2>2. RunOK(server, db, shown, tasks'[t])
    BY <1>1, <2>1 DEF RunOK, Saving, InRun, Replies, HasRead, Answered, Looping, OnChunk
  <2> QED BY <1>1, <1>2, <1>4, <2>1, <2>2, WorkGoesOn
          DEF Apart, ClickPause, InvalidateAndRead, PInv
<1> QED BY <1>3, <1>4 DEF PatientClick

(* The setters of the state that touch no chunk.                           *)
LEMMA StatusIsSound ==
  ASSUME NEW sv, NEW s \in State, Sound(sv, s), NEW status \in Statuses \ {"canceled"}
  PROVE  /\ WithStatus(s, status) \in State
         /\ Sound(sv, WithStatus(s, status))
         /\ WithStatus(s, status).upload = s.upload
         /\ WithStatus(s, status).done = s.done
BY NoneAssumption DEF WithStatus, IsTerminal, State, Sound

LEMMA FreshIsSound ==
  ASSUME NEW sv
  PROVE  /\ WithStatus(Fresh, "initializing") \in State
         /\ Sound(sv, WithStatus(Fresh, "initializing"))
         /\ WithStatus(Fresh, "initializing").upload = None
BY DEF Fresh, WithStatus, IsTerminal, State, Statuses, Sound

LEMMA InterruptionGoesOn ==
  ASSUME PInv, IInv', NEW t \in Tasks, SaveInterruption(t)
  PROVE  PInv'
<1>1. ~At(t, "idle")
  BY DEF SaveInterruption, At
<1>2. /\ tasks[t].pc = "pauseRead"
      /\ shown = db
      /\ tasks[t].seen = db
  BY <1>1, AtWork DEF SaveInterruption, RunOK, HasRead
<1>3. CASE tasks[t].seen = None /\ tasks' = [tasks EXCEPT ![t] = IdleTask] /\ UNCHANGED db
  BY <1>1, <1>2, <1>3, FinishEnds DEF SaveInterruption
<1>4. CASE tasks[t].seen # None /\ Save(t, WithStatus(db, "paused"), {}, "return")
  <2>1. db \in State /\ Sound(server, db)
    BY <1>1, <1>2, <1>4, AtWork
  <2>2. "paused" \in Statuses \ {"canceled"}
    BY DEF Statuses
  <2>3. /\ WithStatus(db, "paused") \in State
        /\ Sound(server, WithStatus(db, "paused"))
    BY <2>1, <2>2, StatusIsSound
  <2> QED BY <1>1, <1>2, <1>4, <2>3, SaveGoesOn DEF SaveInterruption, Thens
<1> QED BY <1>2, <1>3, <1>4 DEF SaveInterruption, At

LEMMA LoadGoesOn ==
  ASSUME PInv, IInv', NEW t \in Tasks, LoadState(t)
  PROVE  PInv'
<1>1. ~At(t, "idle") /\ tasks[t].pc = "list"
  BY DEF LoadState, At
<1>2. shown = db
  BY <1>1, AtWork DEF RunOK
<1>3. \A k \in Handler : k.pc = "load" /\ k.seen = db => RunOK(server, db, shown, k)
  BY <1>2 DEF RunOK, Saving, InRun, Replies, HasRead, Answered, Looping, OnChunk
<1> QED BY <1>1, <1>3, ReadGoesOn DEF LoadState

LEMMA StartGoesOn ==
  ASSUME PInv, IInv', NEW t \in Tasks, ResolveStart(t) \/ SaveInitial(t)
  PROVE  PInv'
<1>1. ~At(t, "idle") /\ tasks[t].pc \in {"load", "deleting"}
  BY DEF ResolveStart, SaveInitial, At
<1>2. CASE Save(t, WithStatus(Fresh, "initializing"), Chunks, "launch")
  BY <1>1, <1>2, FreshIsSound, SaveGoesOn DEF ResolveStart, SaveInitial, Thens
<1>3. ASSUME ResolveStart(t) PROVE shown = db /\ tasks[t].seen = db
  BY <1>1, <1>3, AtWork DEF ResolveStart, At, RunOK, HasRead
<1>4. CASE /\ ResolveStart(t) /\ Resumes(t)
           /\ Save(t, WithStatus(tasks[t].seen, "initializing"), {}, "launch")
  <2>1. db \in State /\ Sound(server, db) /\ ~tasks[t].fresh
    BY <1>1, <1>3, <1>4, AtWork DEF Resumes
  <2>2. "initializing" \in Statuses \ {"canceled"}
    BY DEF Statuses
  <2>3. /\ WithStatus(db, "initializing") \in State
        /\ Sound(server, WithStatus(db, "initializing"))
    BY <2>1, <2>2, StatusIsSound
  <2> QED BY <1>1, <1>3, <1>4, <2>1, <2>3, SaveGoesOn DEF ResolveStart, Thens
<1>5. CASE ResolveStart(t) /\ db' = None /\ To(t, "deleting")
  <2>1. /\ tasks'[t].pc = "deleting"
        /\ \A u \in Tasks \ {t} : tasks'[u] = tasks[u]
    BY <1>1, <1>5, AtWork DEF To, Handler
  <2>2. RunOK(server, db', shown', tasks'[t])
    BY <1>5, <2>1 DEF RunOK, Saving, InRun, Replies, HasRead, Answered, Looping, OnChunk
  <2>3. Apart(t) /\ ~listing.on /\ Sound(server, db')
    BY <1>1, <1>5, <2>1, AtWork DEF Apart, Sound
  <2> QED BY <1>5, <2>1, <2>2, <2>3, WorkGoesOn DEF ResolveStart
<1> QED BY <1>2, <1>4, <1>5 DEF ResolveStart, SaveInitial

LEMMA SaveAllGoesOn ==
  ASSUME PInv, IInv', NEW t \in Tasks, SaveAll(t)
  PROVE  PInv'
<1>1. ~At(t, "idle") /\ tasks[t].pc = "keys"
  BY DEF SaveAll, At
<1>2. /\ tasks'[t] = [tasks[t] EXCEPT !.pc = "saved"]
      /\ \A u \in Tasks \ {t} : tasks'[u] = tasks[u]
      /\ tasks[t] \in Handler
      /\ RunOK(server, db, shown, tasks[t])
  BY <1>1, AtWork DEF SaveAll, To, Handler
<1>3. db' = tasks[t].next /\ Sound(server, db')
  BY <1>1, <1>2 DEF SaveAll, RunOK, Saving
<1>4. RunOK(server, db', shown', tasks'[t])
  BY <1>1, <1>2, <1>3 DEF RunOK, Saving, InRun, Replies, HasRead, Answered, Looping,
     OnChunk, Handler
<1>5. tasks'[t].pc # "idle"
  BY <1>2 DEF Handler
<1>6. Apart(t) /\ ~listing.on
  BY <1>1, <1>2, AtWork DEF Apart
<1> QED BY <1>3, <1>4, <1>5, <1>6, WorkGoesOn DEF SaveAll

(* The loop goes on with a record that has all that is confirmed.          *)
LEMMA NextChunkGoesOn ==
  ASSUME PInv, IInv', NEW t \in Tasks, ~At(t, "idle"),
         NEW i \in 0 .. ChunkCount, NextChunk(t, i),
         tasks[t].next = db,
         db # None => db.upload # None /\ server[db.upload].listed \subseteq db.done,
         db # None,
         shown' = db, UNCHANGED <<server, listing, db>>
  PROVE  PInv'
<1>1. CASE Finish(t)
  BY <1>1, FinishEnds
<1>2. ASSUME NEW pc \in {"loopRead", "preComplete"},
             tasks' = [tasks EXCEPT ![t].pc = pc, ![t].i = i, ![t].seen = db]
      PROVE  PInv'
  <2>1. tasks[t] \in Handler /\ tasks \in [Tasks -> Handler]
    BY AtWork
  <2>2. /\ tasks'[t].pc = pc /\ tasks'[t].next = db /\ tasks'[t].seen = db
        /\ \A u \in Tasks \ {t} : tasks'[u] = tasks[u]
    BY <1>2, <2>1 DEF Handler
  <2>3. RunOK(server, db, shown', tasks'[t])
    BY <2>2 DEF RunOK, Saving, InRun, Replies, HasRead, Answered, Looping, OnChunk
  <2>4. Apart(t) /\ ~listing.on /\ Sound(server, db') /\ tasks'[t].pc # "idle"
    BY <2>2, AtWork DEF Apart
  <2> QED BY <2>3, <2>4, WorkGoesOn
<1> QED BY <1>1, <1>2 DEF NextChunk

LEMMA SavedGoesOn ==
  ASSUME PInv, IInv', NEW t \in Tasks, Saved(t)
  PROVE  PInv'
<1> DEFINE k == tasks[t]
<1>1. /\ ~At(t, "idle")
      /\ k.pc = "saved"
      /\ k.next # None
      /\ k \in Handler
      /\ RunOK(server, db, shown, k)
      /\ tasks \in [Tasks -> Handler]
  BY AtWork DEF Saved, At, HandlerOK, Saving
<1>2. /\ k.next = db /\ k.next \in State /\ shown' = db /\ k.then # "cancel"
      /\ Sound(server, db)
  BY <1>1 DEF Saved, RunOK, Saving, Handler
<1>3. k.then \in {"first", "next", "put"} =>
        db.upload # None /\ server[db.upload].listed \subseteq db.done
  BY <1>1, <1>2 DEF RunOK, Looping, Saving
<1>4. CASE k.then = "launch" /\ Launch(t)
  <2> DEFINE pc == IF k.fresh \/ k.next.upload = None THEN "create" ELSE "status"
  <2>1. /\ tasks'[t].pc = pc /\ tasks'[t].next = db
        /\ \A u \in Tasks \ {t} : tasks'[u] = tasks[u]
    BY <1>1, <1>2, <1>4 DEF Launch, Handler
  <2>2. pc = "create" => db.upload = None
    BY <1>1, <1>2, <1>4 DEF RunOK, Saving
  <2>3. RunOK(server, db, shown', tasks'[t])
    BY <1>2, <2>1, <2>2 DEF RunOK, Saving, InRun, Replies, HasRead, Answered, Looping, OnChunk
  <2>4. Apart(t) /\ ~listing.on /\ tasks'[t].pc # "idle"
    BY <1>1, <2>1, AtWork DEF Apart
  <2> QED BY <1>2, <2>3, <2>4, WorkGoesOn DEF Saved
<1>5. ASSUME NEW i \in 0 .. ChunkCount, NextChunk(t, i), k.then \in {"first", "next"}
      PROVE  PInv'
  BY <1>1, <1>2, <1>3, <1>5, NextChunkGoesOn DEF Saved
<1>6. 0 \in 0 .. ChunkCount /\ (k.then = "next" => k.i + 1 \in 0 .. ChunkCount)
  BY <1>1, QueueAssumption, AtWork DEF HandlerOK, Saving, Chunks
<1>7. CASE k.then = "put" /\ To(t, "put")
  <2>1. /\ tasks'[t].pc = "put" /\ tasks'[t].next = db /\ tasks'[t].i = k.i
        /\ \A u \in Tasks \ {t} : tasks'[u] = tasks[u]
    BY <1>1, <1>2, <1>7 DEF To, Handler
  <2>2. k.i \notin db.done
    BY <1>1, <1>2, <1>7 DEF RunOK, Saving
  <2>3. RunOK(server, db, shown', tasks'[t])
    BY <1>2, <1>3, <1>7, <2>1, <2>2 DEF RunOK, Saving, InRun, Replies, HasRead, Answered,
       Looping, OnChunk
  <2>4. Apart(t) /\ ~listing.on /\ tasks'[t].pc # "idle"
    BY <1>1, <2>1, AtWork DEF Apart
  <2> QED BY <1>2, <2>3, <2>4, WorkGoesOn DEF Saved
<1>8. CASE Finish(t) \/ tasks' = [tasks EXCEPT ![t] = IdleTask]
  BY <1>1, <1>2, <1>8, FinishEnds DEF Saved
<1> QED BY <1>2, <1>4, <1>5, <1>6, <1>7, <1>8 DEF Saved

LEMMA AfterReplyGoesOn ==
  ASSUME PInv, IInv', NEW t \in Tasks, AfterReply(t)
  PROVE  PInv'
<1> DEFINE k == tasks[t]
<1>1. /\ ~At(t, "idle")
      /\ k.pc \in Replies
      /\ RunOK(server, db, shown, k)
  BY AtWork DEF AfterReply, At, Replies
<1>2. shown = db /\ k.next = db
  BY <1>1 DEF RunOK, InRun
<1>3. CASE Finish(t)
  BY <1>1, <1>2, <1>3, FinishEnds DEF AfterReply
<1>4. ASSUME NEW pc, Read(t, pc),
             \/ k.pc = "created" /\ pc = "createdRead"
             \/ k.pc = "gotStatus" /\ pc = "statusRead"
             \/ k.pc = "putDone" /\ pc = "putRead"
             \/ k.pc = "completed" /\ pc = "completedRead"
      PROVE  PInv'
  <2>1. ASSUME NEW l \in Handler, l.next = k.next, l.seen = db, l.pc = pc,
               l.i = k.i, l.reply = k.reply
        PROVE  RunOK(server, db, shown, l)
    <3>1. CASE k.pc = "created" /\ pc = "createdRead"
      BY <1>1, <1>2, <2>1, <3>1 DEF RunOK, Saving, InRun, Replies, HasRead, Answered,
         Looping, OnChunk
    <3>2. CASE k.pc = "gotStatus" /\ pc = "statusRead"
      BY <1>1, <1>2, <2>1, <3>2 DEF RunOK, Saving, InRun, Replies, HasRead, Answered,
         Looping, OnChunk
    <3>3. CASE k.pc = "putDone" /\ pc = "putRead"
      BY <1>1, <1>2, <2>1, <3>3 DEF RunOK, Saving, InRun, Replies, HasRead, Answered,
         Looping, OnChunk
    <3>4. CASE k.pc = "completed" /\ pc = "completedRead"
      BY <1>1, <1>2, <2>1, <3>4 DEF RunOK, Saving, InRun, Replies, HasRead, Answered,
         Looping, OnChunk
    <3> QED BY <1>4, <3>1, <3>2, <3>3, <3>4
  <2> QED BY <1>1, <1>4, <2>1, ReadGoesOn DEF AfterReply
<1>5. CASE k.pc = "created"
  BY <1>3, <1>4, <1>5 DEF AfterReply, CheckRunThenRead, At
<1>6. CASE k.pc = "gotStatus"
  BY <1>3, <1>4, <1>6 DEF AfterReply, CheckRunThenRead, At
<1>7. CASE k.pc = "putDone"
  BY <1>3, <1>4, <1>7 DEF AfterReply, CheckRunThenRead, At
<1>8. CASE k.pc = "completed"
  BY <1>3, <1>4, <1>8 DEF AfterReply, CheckRunThenRead, At
<1> QED BY <1>1, <1>5, <1>6, <1>7, <1>8 DEF Replies

LEMMA ApplyReplyGoesOn ==
  ASSUME PInv, IInv', NEW t \in Tasks, ApplyReply(t)
  PROVE  PInv'
<1> DEFINE k == tasks[t]
<1>1. /\ ~At(t, "idle")
      /\ k.pc \in {"createdRead", "statusRead", "putRead", "completedRead"}
      /\ k \in Handler
      /\ k.next # None
      /\ HandlerOK(server, k)
      /\ RunOK(server, db, shown, k)
      /\ Sound(server, db)
      /\ SessionsSound(server)
      /\ IInv
  BY AtWork DEF ApplyReply, At, HandlerOK, InRun, PInv
<1>2. shown = db /\ k.next = db /\ k.seen = db /\ db \in State /\ Latest(t) = db
  BY <1>1 DEF RunOK, InRun, HasRead, Handler, Latest
<1>3. CASE Finish(t) /\ UNCHANGED db
  BY <1>1, <1>2, <1>3, FinishEnds DEF ApplyReply
<1>4. MayGoOn(db) => ~IsTerminal(db)
  BY <1>1, <1>2 DEF MayGoOn, CanApplyLate, IsTerminal
<1>5. k.pc \in Answered => /\ HonestReply(server, k.reply)
                           /\ k.reply \in Answer
                           /\ k.reply.upload \in Uploads
                           /\ k.reply.upload # None
                           /\ k.reply.status # "canceled"
  BY <1>1, NoneAssumption DEF HandlerOK, RunOK, HonestReply, Answer
<1>6. \A c \in SUBSET Chunks : db.done \cup c \in SUBSET Chunks
  BY <1>2 DEF State
<1>7. CASE /\ At(t, "createdRead") /\ ~IsTerminal(db)
           /\ Save(t, SessionReady(db, k.reply.upload), {}, "first")
  <2> DEFINE u == k.reply.upload
             s == SessionReady(db, u)
  <2>1. db.upload = None /\ db.done = {} /\ server[u].listed = {} /\ u \in Uploads /\ u # None
    BY <1>1, <1>2, <1>5, <1>7 DEF At, RunOK, Sound, Answered
  <2>2. s \in State /\ s.upload = u /\ s.done = {} /\ s.status = "ready"
    BY <1>2, <1>7, <2>1 DEF SessionReady, State, Statuses
  <2>3. Sound(server, s)
    BY <2>2 DEF Sound
  <2> QED BY <1>1, <1>2, <1>7, <2>1, <2>2, <2>3, SaveGoesOn DEF ApplyReply, Thens
<1>8. CASE /\ At(t, "statusRead")
           /\ Save(t, MergeServerStatus(db, k.reply.upload, k.reply.status,
                                        k.reply.confirmed), Chunks, "first")
  <2> DEFINE u == k.reply.upload
             s == MergeServerStatus(db, u, k.reply.status, k.reply.confirmed)
  <2>1. /\ u \in Uploads /\ u # None /\ u = db.upload
        /\ k.reply.confirmed = server[u].listed
        /\ k.reply.confirmed \in SUBSET Chunks
        /\ k.reply.status \in Statuses \ {"canceled"}
        /\ db.status # "canceled"
    BY <1>1, <1>2, <1>5, <1>8 DEF At, RunOK, Sound, Answered, Answer
  <2>2. /\ s \in State /\ s.upload = u /\ s.status # "canceled"
        /\ s.done = db.done \cup server[u].listed
    BY <1>2, <1>6, <2>1 DEF MergeServerStatus, State
  <2>3. Sound(server, s)
    BY <1>1, <1>2, <2>1, <2>2 DEF Sound, SessionsSound
  <2> QED BY <1>1, <1>2, <1>8, <2>1, <2>2, <2>3, SaveGoesOn DEF ApplyReply, Thens
<1>9. CASE /\ At(t, "putRead") /\ ~IsTerminal(db)
           /\ Save(t, WithChunk(db, k.i), {k.i}, "next")
  <2> DEFINE s == WithChunk(db, k.i)
  <2>1. /\ k.i \in Chunks
        /\ db.upload # None
        /\ k.i \in server[db.upload].stored
        /\ server[db.upload].listed \subseteq db.done \cup {k.i}
    BY <1>1, <1>2, <1>9 DEF At, RunOK, HandlerOK, OnChunk, Looping
  <2>2. /\ s \in State /\ s.upload = db.upload /\ s.status = "uploading"
        /\ s.done = db.done \cup {k.i}
    BY <1>2, <1>9, <2>1 DEF WithChunk, State, Statuses
  <2>3. Sound(server, s)
    BY <1>1, <1>2, <2>1, <2>2 DEF Sound
  <2> QED BY <1>1, <1>2, <1>9, <2>1, <2>2, <2>3, SaveGoesOn DEF ApplyReply, Thens
<1>10. CASE /\ At(t, "completedRead")
            /\ Save(t, MergeCompletion(db, k.reply.upload, k.reply.status), Chunks, "end")
  <2> DEFINE s == MergeCompletion(db, k.reply.upload, k.reply.status)
  <2>1. /\ k.reply.upload = db.upload
        /\ k.reply.status \in Statuses \ {"canceled"}
        /\ k.reply.upload \in Uploads
    BY <1>1, <1>2, <1>5, <1>10 DEF At, RunOK, Answered, Answer
  <2>2. /\ s \in State /\ s.upload = db.upload /\ s.status # "canceled"
        /\ s.done = db.done
    BY <1>1, <1>2, <2>1 DEF MergeCompletion, MergeServerStatus, State, Sound
  <2>3. Sound(server, s)
    BY <1>1, <1>2, <2>1, <2>2 DEF Sound
  <2> QED BY <1>1, <1>2, <1>10, <2>2, <2>3, SaveGoesOn DEF ApplyReply, Thens
<1> QED BY <1>2, <1>3, <1>4, <1>7, <1>8, <1>9, <1>10 DEF ApplyReply

LEMMA SendChunkGoesOn ==
  ASSUME PInv, IInv', NEW t \in Tasks, SendChunk(t)
  PROVE  PInv'
<1> DEFINE k == tasks[t]
<1>1. /\ ~At(t, "idle")
      /\ k.pc = "loopRead"
      /\ k \in Handler
      /\ k.next # None
      /\ k.i \in Chunks
      /\ RunOK(server, db, shown, k)
      /\ Sound(server, db)
  BY AtWork DEF SendChunk, At, HandlerOK, InRun, OnChunk
<1>2. /\ shown = db /\ k.next = db /\ db \in State /\ db # None /\ Latest(t) = db
      /\ db.upload # None
      /\ server[db.upload].listed \subseteq db.done
  BY <1>1 DEF RunOK, InRun, HasRead, Handler, Latest, Looping, OnChunk
<1>3. CASE Finish(t) /\ UNCHANGED db
  BY <1>1, <1>2, <1>3, FinishEnds DEF SendChunk
<1>4. CASE NextChunk(t, k.i + 1) /\ UNCHANGED db
  <2>1. k.i + 1 \in 0 .. ChunkCount
    BY <1>1, QueueAssumption DEF Chunks
  <2> QED BY <1>1, <1>2, <1>4, <2>1, NextChunkGoesOn DEF SendChunk
<1>5. CASE k.i \notin db.done /\ Save(t, WithStatus(db, "uploading"), {k.i}, "put")
  <2>1. "uploading" \in Statuses \ {"canceled"}
    BY DEF Statuses
  <2>2. /\ WithStatus(db, "uploading") \in State
        /\ Sound(server, WithStatus(db, "uploading"))
        /\ WithStatus(db, "uploading").upload = db.upload
        /\ WithStatus(db, "uploading").done = db.done
    BY <1>1, <1>2, <2>1, StatusIsSound
  <2> QED BY <1>1, <1>2, <1>5, <2>2, SaveGoesOn DEF SendChunk, Thens
<1> QED BY <1>2, <1>3, <1>4, <1>5 DEF SendChunk

LEMMA SendCompleteGoesOn ==
  ASSUME PInv, IInv', NEW t \in Tasks, SendComplete(t)
  PROVE  PInv'
<1>1. /\ ~At(t, "idle")
      /\ tasks[t].pc = "preComplete"
      /\ tasks[t] \in Handler
      /\ tasks \in [Tasks -> Handler]
      /\ RunOK(server, db, shown, tasks[t])
  BY AtWork DEF SendComplete, At
<1>2. shown = db /\ tasks[t].next = db
  BY <1>1 DEF RunOK, InRun
<1>3. CASE Finish(t)
  BY <1>1, <1>2, <1>3, FinishEnds DEF SendComplete
<1>4. CASE tasks' = [tasks EXCEPT ![t].pc = "complete", ![t].seen = None]
  <2>1. /\ tasks'[t].pc = "complete" /\ tasks'[t].next = db
        /\ \A u \in Tasks \ {t} : tasks'[u] = tasks[u]
    BY <1>1, <1>2, <1>4 DEF Handler
  <2>2. RunOK(server, db, shown, tasks'[t])
    BY <1>2, <2>1 DEF RunOK, Saving, InRun, Replies, HasRead, Answered, Looping, OnChunk
  <2>3. Apart(t) /\ ~listing.on /\ Sound(server, db) /\ tasks'[t].pc # "idle"
    BY <1>1, <2>1, AtWork DEF Apart
  <2> QED BY <2>2, <2>3, WorkGoesOn DEF SendComplete
<1> QED BY <1>3, <1>4 DEF SendComplete

LEMMA FailureGoesOn ==
  ASSUME PInv, IInv', NEW t \in Tasks, CatchError(t) \/ SaveFailure(t)
  PROVE  PInv'
<1> DEFINE k == tasks[t]
<1>1. /\ ~At(t, "idle")
      /\ k.pc \in {"error", "errorRead"}
      /\ k \in Handler
      /\ k.next # None
      /\ RunOK(server, db, shown, k)
      /\ Sound(server, db)
  BY AtWork DEF CatchError, SaveFailure, At, HandlerOK, InRun
<1>2. shown = db /\ k.next = db /\ db \in State
  BY <1>1 DEF RunOK, InRun, Handler
<1>3. CASE Finish(t) /\ UNCHANGED db
  BY <1>1, <1>2, <1>3, FinishEnds DEF CatchError, SaveFailure
<1>4. CASE CatchError(t) /\ Read(t, "errorRead")
  <2>1. \A l \in Handler : l.next = k.next /\ l.seen = db /\ l.pc = "errorRead"
                             => RunOK(server, db, shown, l)
    BY <1>2 DEF RunOK, Saving, InRun, Replies, HasRead, Answered, Looping, OnChunk
  <2> QED BY <1>1, <1>4, <2>1, ReadGoesOn DEF CatchError
<1>5. CASE SaveFailure(t) /\ Save(t, WithStatus(Latest(t), "failed"), {}, "end")
  <2>1. Latest(t) = db
    BY <1>1, <1>2, <1>5 DEF SaveFailure, At, RunOK, HasRead, Latest
  <2>2. "failed" \in Statuses \ {"canceled"}
    BY DEF Statuses
  <2>3. /\ WithStatus(db, "failed") \in State
        /\ Sound(server, WithStatus(db, "failed"))
    BY <1>1, <1>2, <2>2, StatusIsSound
  <2> QED BY <1>1, <1>2, <1>5, <2>1, <2>3, SaveGoesOn DEF SaveFailure, Thens
<1> QED BY <1>3, <1>4, <1>5 DEF CatchError, CheckRunThenRead, SaveFailure

-----------------------------------------------------------------------------
(* What the service makes of the requests of the one run                   *)

LEMMA ServiceGoesOn ==
  ASSUME PInv, IInv', NEW t \in Tasks, ~At(t, "idle"), Apart(t),
         UNCHANGED <<db, shown, listing>>,
         SessionsSound(server'), Sound(server', db),
         tasks'[t].pc # "idle", RunOK(server', db, shown, tasks'[t])
  PROVE  PInv'
BY AtWork DEF PInv, Apart, Alone, Quiet, At

(* A failed request, and an answer that changes no session.                *)
LEMMA ErrorGoesOn ==
  ASSUME PInv, IInv', NEW t \in Tasks, tasks[t].pc \in InRun, To(t, "error"),
         UNCHANGED <<server, db, shown, listing>>
  PROVE  PInv'
<1>1. ~At(t, "idle")
  BY DEF At, InRun, Replies
<1>2. shown = db /\ tasks[t].next = db
  BY <1>1, AtWork DEF RunOK
<1>3. /\ tasks'[t].pc = "error" /\ tasks'[t].next = db
      /\ \A u \in Tasks \ {t} : tasks'[u] = tasks[u]
  BY <1>1, <1>2, AtWork DEF To, Handler
<1>4. RunOK(server, db, shown, tasks'[t])
  BY <1>2, <1>3 DEF RunOK, Saving, InRun, Replies, HasRead, Answered, Looping, OnChunk
<1>5. Apart(t) /\ SessionsSound(server) /\ Sound(server, db)
  BY <1>1, <1>3, AtWork DEF Apart
<1> QED BY <1>1, <1>3, <1>4, <1>5, ServiceGoesOn

(* One session changes, and keeps what it stores.                          *)
LEMMA OneSession ==
  ASSUME NEW sv \in [Uploads -> Session], NEW u \in Uploads, NEW e \in Session,
         SessionsSound(sv),
         NEW s \in State \cup {None}, Sound(sv, s),
         sv[u].stored \subseteq e.stored, e.listed \subseteq e.stored,
         e.status \notin {"canceled", "absent"}
  PROVE  /\ SessionsSound([sv EXCEPT ![u] = e])
         /\ Sound([sv EXCEPT ![u] = e], s)
<1> DEFINE sv2 == [sv EXCEPT ![u] = e]
<1>1. \A v \in Uploads : sv[v].stored \subseteq sv2[v].stored
  OBVIOUS
<1>2. SessionsSound(sv2)
  BY DEF SessionsSound
<1>3. Sound(sv2, s)
  BY <1>1 DEF Sound, State
<1> QED BY <1>2, <1>3

LEMMA HandleCreateGoesOn ==
  ASSUME PInv, IInv', NEW t \in Tasks, HandleCreate(t)
  PROVE  PInv'
<1> DEFINE k == tasks[t]
<1>1. ~At(t, "idle") /\ k.pc = "create"
  BY DEF HandleCreate, At
<1>2. /\ shown = db /\ k.next = db /\ k.next.upload = None
      /\ tasks \in [Tasks -> Handler] /\ k \in Handler
      /\ server \in [Uploads -> Session]
      /\ SessionsSound(server) /\ Sound(server, db) /\ db \in State \cup {None}
  BY <1>1, AtWork DEF RunOK, InRun
<1>3. PICK u \in Uploads :
        /\ server[u].status = "absent"
        /\ server' = [server EXCEPT ![u].status = "ready"]
        /\ Reply(t, "created", u, "ready", {})
  BY DEF HandleCreate
<1> DEFINE e == [server[u] EXCEPT !.status = "ready"]
<1>4. /\ server' = [server EXCEPT ![u] = e]
      /\ e \in Session /\ e.status = "ready" /\ e.stored = server[u].stored
      /\ e.listed = {} /\ e.listed \subseteq e.stored
  BY <1>2, <1>3 DEF Session, SessionsSound
<1>5. SessionsSound(server') /\ Sound(server', db)
  BY <1>2, <1>4, OneSession
<1>6. /\ tasks'[t].pc = "created" /\ tasks'[t].next = db
      /\ tasks'[t].reply = [upload |-> u, status |-> "ready", confirmed |-> {}]
      /\ \A v \in Tasks \ {t} : tasks'[v] = tasks[v]
  BY <1>2, <1>3 DEF Reply, Handler
<1>7. server'[u].listed = {}
  BY <1>2, <1>4
<1>8. RunOK(server', db, shown, tasks'[t])
  BY <1>2, <1>6, <1>7 DEF RunOK, Saving, InRun, Replies, HasRead, Answered, Looping, OnChunk
<1>9. Apart(t)
  BY <1>1, <1>6, AtWork DEF Apart
<1> QED BY <1>1, <1>5, <1>6, <1>8, <1>9, ServiceGoesOn DEF HandleCreate

LEMMA HandleStatusGoesOn ==
  ASSUME PInv, IInv', NEW t \in Tasks, HandleStatus(t)
  PROVE  PInv'
<1> DEFINE k == tasks[t]
           u == k.next.upload
<1>1. ~At(t, "idle") /\ k.pc = "status"
  BY DEF HandleStatus, At
<1>2. /\ shown = db /\ k.next = db /\ k.next # None /\ u # None /\ u \in Uploads
      /\ tasks \in [Tasks -> Handler] /\ k \in Handler
      /\ SessionsSound(server) /\ Sound(server, db)
  BY <1>1, AtWork DEF RunOK, InRun, HandlerOK, Handler, State
<1>3. /\ tasks'[t].pc = "gotStatus" /\ tasks'[t].next = db
      /\ tasks'[t].reply = [upload |-> u, status |-> server[u].status,
                            confirmed |-> server[u].listed]
      /\ \A v \in Tasks \ {t} : tasks'[v] = tasks[v]
  BY <1>2 DEF HandleStatus, Reply, Handler
<1>4. server[u].status # "canceled"
  BY <1>2 DEF SessionsSound
<1>5. RunOK(server, db, shown, tasks'[t])
  BY <1>2, <1>3, <1>4 DEF RunOK, Saving, InRun, Replies, HasRead, Answered, Looping, OnChunk
<1>6. Apart(t)
  BY <1>1, <1>3, AtWork DEF Apart
<1> QED BY <1>1, <1>2, <1>3, <1>5, <1>6, ServiceGoesOn DEF HandleStatus

LEMMA HandlePutGoesOn ==
  ASSUME PInv, IInv', NEW t \in Tasks, HandlePut(t)
  PROVE  PInv'
<1> DEFINE k == tasks[t]
           u == k.next.upload
           e == [server[u] EXCEPT !.stored = @ \cup {k.i}, !.listed = @ \cup {k.i},
                                  !.status = "uploading"]
<1>1. ~At(t, "idle") /\ k.pc = "put"
  BY DEF HandlePut, At
<1>2. CASE To(t, "error") /\ UNCHANGED server
  BY <1>1, <1>2, ErrorGoesOn DEF HandlePut, InRun
<1>3. CASE /\ u # None
           /\ server' = [server EXCEPT ![u].stored = @ \cup {k.i},
                                       ![u].listed = @ \cup {k.i},
                                       ![u].status = "uploading"]
           /\ To(t, "putDone")
  <2>1. /\ shown = db /\ k.next = db /\ k.next # None /\ k.i \in Chunks
        /\ k \in Handler /\ tasks \in [Tasks -> Handler]
        /\ server \in [Uploads -> Session]
        /\ SessionsSound(server) /\ Sound(server, db) /\ db \in State \cup {None}
        /\ server[u].listed \subseteq k.next.done
    BY <1>1, AtWork DEF RunOK, InRun, HandlerOK, OnChunk, Looping
  <2>2. u \in Uploads
    BY <1>3, <2>1 DEF Handler, State
  <2>3. /\ server[u] \in Session
        /\ server' = [server EXCEPT ![u] = e]
    BY <1>3, <2>1, <2>2 DEF Session
  <2>4. /\ e \in Session /\ e.status = "uploading"
        /\ e.stored = server[u].stored \cup {k.i}
        /\ e.listed = server[u].listed \cup {k.i}
    BY <2>1, <2>3 DEF Session
  <2>5. SessionsSound(server') /\ Sound(server', db)
    <3>1. server[u].listed \subseteq server[u].stored
      BY <2>1, <2>2 DEF SessionsSound
    <3> QED BY <2>1, <2>2, <2>3, <2>4, <3>1, OneSession
  <2>6. /\ tasks'[t].pc = "putDone" /\ tasks'[t].next = db /\ tasks'[t].i = k.i
        /\ \A v \in Tasks \ {t} : tasks'[v] = tasks[v]
    BY <1>3, <2>1 DEF To, Handler
  <2>7. /\ k.i \in server'[u].stored
        /\ server'[u].listed \subseteq k.next.done \cup {k.i}
    BY <2>1, <2>2, <2>3, <2>4
  <2>8. RunOK(server', db, shown, tasks'[t])
    BY <1>3, <2>1, <2>6, <2>7 DEF RunOK, Saving, InRun, Replies, HasRead, Answered,
       Looping, OnChunk
  <2>9. Apart(t)
    BY <1>1, <2>6, AtWork DEF Apart
  <2> QED BY <1>1, <2>5, <2>6, <2>8, <2>9, ServiceGoesOn DEF HandlePut
<1> QED BY <1>2, <1>3 DEF HandlePut

LEMMA HandleCompleteGoesOn ==
  ASSUME PInv, IInv', NEW t \in Tasks, HandleComplete(t)
  PROVE  PInv'
<1> DEFINE k == tasks[t]
           u == k.next.upload
<1>1. ~At(t, "idle") /\ k.pc = "complete"
  BY DEF HandleComplete, At
<1>2. CASE To(t, "error") /\ UNCHANGED server
  BY <1>1, <1>2, ErrorGoesOn DEF HandleComplete, InRun
<1>3. /\ shown = db /\ k.next = db /\ k.next # None
      /\ k \in Handler /\ tasks \in [Tasks -> Handler]
      /\ server \in [Uploads -> Session]
      /\ SessionsSound(server) /\ Sound(server, db) /\ db \in State \cup {None}
  BY <1>1, AtWork DEF RunOK, InRun, HandlerOK
<1>4. ASSUME NEW e \in Session, NEW status \in {"uploaded", "incomplete"},
             u # None,
             server' = [server EXCEPT ![u] = e], e.status = status,
             e.stored = server[u].stored, e.listed = server[u].listed,
             Reply(t, "completed", u, status, {})
      PROVE  PInv'
  <2>1. u \in Uploads
    BY <1>3, <1>4 DEF Handler, State
  <2>2. SessionsSound(server') /\ Sound(server', db)
    <3>1. server[u].listed \subseteq server[u].stored
      BY <1>3, <2>1 DEF SessionsSound
    <3> QED BY <1>3, <1>4, <2>1, <3>1, OneSession
  <2>3. /\ tasks'[t].pc = "completed" /\ tasks'[t].next = db
        /\ tasks'[t].reply = [upload |-> u, status |-> status, confirmed |-> {}]
        /\ \A v \in Tasks \ {t} : tasks'[v] = tasks[v]
    BY <1>3, <1>4 DEF Reply, Handler
  <2>4. RunOK(server', db, shown, tasks'[t])
    BY <1>3, <2>3 DEF RunOK, Saving, InRun, Replies, HasRead, Answered, Looping, OnChunk
  <2>5. Apart(t)
    BY <1>1, <2>3, AtWork DEF Apart
  <2> QED BY <1>1, <2>2, <2>3, <2>4, <2>5, ServiceGoesOn DEF HandleComplete
<1>5. u # None => u \in Uploads /\ server[u] \in Session
  BY <1>3 DEF Handler, State
<1>6. CASE /\ u # None
           /\ server' = [server EXCEPT ![u].status = "uploaded", ![u].final = TRUE]
           /\ Reply(t, "completed", u, "uploaded", {})
  <2> DEFINE e == [server[u] EXCEPT !.status = "uploaded", !.final = TRUE]
  <2>1. /\ e \in Session /\ e.status = "uploaded"
        /\ e.stored = server[u].stored /\ e.listed = server[u].listed
        /\ server' = [server EXCEPT ![u] = e]
    BY <1>3, <1>5, <1>6 DEF Session
  <2> QED BY <1>4, <1>6, <2>1
<1>7. CASE /\ u # None
           /\ server' = [server EXCEPT ![u].status = "incomplete"]
           /\ Reply(t, "completed", u, "incomplete", {})
  <2> DEFINE e == [server[u] EXCEPT !.status = "incomplete"]
  <2>1. /\ e \in Session /\ e.status = "incomplete"
        /\ e.stored = server[u].stored /\ e.listed = server[u].listed
        /\ server' = [server EXCEPT ![u] = e]
    BY <1>3, <1>5, <1>7 DEF Session
  <2> QED BY <1>4, <1>7, <2>1
<1> QED BY <1>2, <1>6, <1>7 DEF HandleComplete

(* A patient user does not cancel.                                         *)
LEMMA NoCancel ==
  ASSUME PInv, NEW t \in Tasks
  PROVE  ~HandleCancel(t) /\ ~At(t, "cancel")
BY AtWork DEF HandleCancel, At, RunOK

LEMMA NetworkFailsGoesOn ==
  ASSUME PInv, IInv', NEW t \in Tasks, NetworkFails(t)
  PROVE  PInv'
<1>1. tasks[t].pc \in InRun /\ To(t, "error")
  BY NoCancel DEF NetworkFails, InRun, Replies, Requests
<1> QED BY <1>1, ErrorGoesOn DEF NetworkFails

-----------------------------------------------------------------------------
(* The page, and the invariant                                             *)

LEMMA PageGoesOn ==
  ASSUME PInv, IInv', FinishListing \/ Reload
  PROVE  PInv'
<1>1. CASE FinishListing
  <2>1. /\ Quiet /\ listing.value = db /\ Quiet'
        /\ shown' = db /\ listing' = [on |-> FALSE, value |-> None]
    BY <1>1 DEF FinishListing, PInv, Quiet, AtRest, At
  <2> QED BY <1>1, <2>1 DEF FinishListing, PInv, Quiet, AtRest, At
<1>2. CASE Reload
  <2>1. \A t \in Tasks : tasks'[t].pc = "idle"
    BY <1>2 DEF Reload, IdleTask
  <2>2. listing'.on /\ listing'.value = db
    BY <1>2 DEF Reload
  <2> QED BY <1>2, <2>1, <2>2 DEF Reload, PInv, AtRest, At
<1> QED BY <1>1, <1>2

LEMMA PatientInit == Init => PInv
<1> SUFFICES ASSUME Init PROVE PInv
  OBVIOUS
<1>1. IInv
  BY InitHolds
<1>2. \A t \in Tasks : At(t, "idle")
  BY DEF Init, At, IdleTask
<1> QED BY <1>1, <1>2 DEF Init, PInv, SessionsSound, NoSession, Sound, AtRest

LEMMA TaskStepGoesOn ==
  ASSUME PInv, IInv', NEW t \in Tasks, TaskStep(t)
  PROVE  PInv'
BY InterruptionGoesOn, LoadGoesOn, StartGoesOn, SaveAllGoesOn, SavedGoesOn,
   AfterReplyGoesOn, ApplyReplyGoesOn, SendChunkGoesOn, SendCompleteGoesOn,
   FailureGoesOn, HandleCreateGoesOn, HandleStatusGoesOn, HandlePutGoesOn,
   HandleCompleteGoesOn, NoCancel DEF TaskStep

LEMMA PatientNextKeeps == PInv /\ [PatientNext]_vars => PInv'
<1> SUFFICES ASSUME PInv, [PatientNext]_vars PROVE PInv'
  OBVIOUS
<1>1. IInv'
  BY NextKeeps, PatientStep DEF PInv
<1>2. CASE PatientNext
  BY <1>1, <1>2, PatientClickGoesOn, TaskStepGoesOn, NetworkFailsGoesOn, PageGoesOn
     DEF PatientNext
<1>3. CASE UNCHANGED vars
  BY <1>1, <1>3 DEF vars, PInv, Quiet, At, Alone
<1> QED BY <1>2, <1>3

(* With one run at a time, at most one handler is at work; the panel, the  *)
(* run and the store agree on the record wherever runUpload decides by it; *)
(* and what the record counts as done lies between what the session's      *)
(* manifest lists and what the session stores, but for the chunk whose     *)
(* answer is on its way.                                                   *)
THEOREM PatientInvariance == PatientSpec => []PInv
BY PatientInit, PatientNextKeeps, PTL DEF PatientSpec

(* A chunk that resuming skips is stored: no lost request, lost answer or  *)
(* reload between the saves of the loop of runUpload makes the record run  *)
(* ahead of the service, for any number of chunks, sessions and faults.    *)
THEOREM DoneStored == PatientSpec => []DoneIsStored
<1>1. PInv => DoneIsStored
  BY DEF PInv, Sound, DoneIsStored
<1> QED BY <1>1, PatientInvariance, PTL

(* A chunk the service has confirmed is not sent again: a run learns from  *)
(* the status what its lost answers said before its loop decides.          *)
THEOREM ConfirmedNotResent == PatientSpec => []ConfirmedIsNotResent
<1>1. PInv => ConfirmedIsNotResent
  BY AtWork DEF ConfirmedIsNotResent, At, RunOK, Looping, OnChunk
<1> QED BY <1>1, PatientInvariance, PTL

-----------------------------------------------------------------------------
(* The service of the model and UploadPromise                              *)

(* The queue is shown right beside every service that keeps UploadPromise, *)
(* which UploadService does: any step the promise allows an open session,  *)
(* at any time, is a LateRequest (storage.rs:504-553, requests the browser *)
(* no longer waits for), and none overwrites a chunk.  late is the model's *)
(* own mark of such a step.  UploadedFinal holds with them.                *)
THEOREM PromisedStepIsAllowed ==
  ASSUME IInv, NEW u \in Uploads,
         server' \in [Uploads -> Session],
         \A v \in Uploads \ {u} : server'[v] = server[v],
         \/ /\ Promise(u)!Store
            /\ server'[u].status = server[u].status
            /\ server'[u].final = server[u].final
         \/ Promise(u)!Overwrite
         \/ /\ Promise(u)!Publish
            /\ server'[u].status # "ready"
            /\ server'[u].final
                  = (server[u].final \/ server'[u].status = "uploaded"),
         server'[u].late,
         faults < MaxFaults,
         faults' = faults + 1,
         UNCHANGED <<db, shown, listing, token, tasks>>
  PROVE  LateRequest(u)
<1> DEFINE s == server[u]
           e == server'[u]
<1>1. /\ s \in Session /\ e \in Session
      /\ server' = [server EXCEPT ![u] = e]
  BY DEF IInv, Types
<1>2. Promise(u)!Store \/ Promise(u)!Publish
  BY <1>1 DEF Promise!Overwrite, Session
<1>5. s.status # "absent"
  BY <1>1, <1>2 DEF Promise!Store, Promise!Publish, Phase
<1>3. CASE Promise(u)!Store /\ e.status = s.status /\ e.final = s.final
  <2>1. PICK i \in Chunks \ s.stored : e.stored = s.stored \cup {i}
    BY <1>3 DEF Promise!Store
  <2>2. e.listed = s.listed
    BY <1>3 DEF Promise!Store
  <2>3. e = [s EXCEPT !.stored = @ \cup {i}, !.late = TRUE]
    BY <1>1, <1>3, <2>1, <2>2 DEF Session
  <2>4. server' = [server EXCEPT ![u].stored = @ \cup {i}, ![u].late = TRUE]
    BY <1>1, <2>3 DEF IInv, Types
  <2> QED BY <1>5, <2>4 DEF LateRequest, Fault
<1>4. CASE /\ Promise(u)!Publish
           /\ e.status # "ready"
           /\ e.final = (s.final \/ e.status = "uploaded")
  <2>1. /\ e.listed \in SUBSET s.stored
        /\ e.stored = s.stored
        /\ Phase(e.status) \in {"open", "canceled", "final"}
        /\ Phase(e.status) = "final" => e.listed = Chunks
    BY <1>4 DEF Promise!Publish
  <2>2. e.status \in {"uploading", "incomplete", "uploaded", "canceled"}
    BY <1>1, <1>4, <2>1 DEF Session, Phase
  <2>3. e.status = "uploaded" => e.listed = Chunks
    BY <2>1 DEF Phase
  <2>4. e = [s EXCEPT !.listed = e.listed, !.status = e.status,
                      !.final = @ \/ e.status = "uploaded", !.late = TRUE]
    BY <1>1, <1>4, <2>1 DEF Session
  <2>5. server' = [server EXCEPT ![u].listed = e.listed, ![u].status = e.status,
                                 ![u].final = @ \/ e.status = "uploaded",
                                 ![u].late = TRUE]
    BY <1>1, <2>4 DEF IInv, Types
  <2>6. \E listed \in SUBSET s.stored,
           status \in {"uploading", "incomplete", "uploaded", "canceled"} :
          /\ status = "uploaded" => listed = Chunks
          /\ server' = [server EXCEPT ![u].listed = listed,
                                      ![u].status = status,
                                      ![u].final = @ \/ status = "uploaded",
                                      ![u].late = TRUE]
    <3> USE <2>1, <2>2
    <3> WITNESS e.listed \in SUBSET s.stored
    <3> WITNESS e.status \in {"uploading", "incomplete", "uploaded", "canceled"}
    <3> QED BY <2>3, <2>5
  <2> QED BY <1>5, <2>6 DEF LateRequest, Fault
<1> QED BY <1>2, <1>3, <1>4 DEF Promise!Overwrite, Session
=============================================================================

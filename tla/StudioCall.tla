----------------------------- MODULE StudioCall -----------------------------
(***************************************************************************)
(* Two studio pages, the host's and the guest's, that meet in one room of  *)
(* the signaling service and negotiate a WebRTC call.  Each page runs the  *)
(* panel (components/SignalingPanel.tsx) over a signaling client           *)
(* (signaling/client.ts) and a peer connection controller                  *)
(* (webrtc/peerConnection.ts).                                             *)
(*                                                                         *)
(* What the panel keeps in refs and in React state is one record per page, *)
(* the controller another.  A WebSocket has an inbox (the frames on their  *)
(* way to the page), an outbox (the frames on their way to the service)    *)
(* and the service's handler behind it, of which SignalingRooms has the    *)
(* detail.  The browser runs the operations of one peer connection one at  *)
(* a time, in the order they were asked for: the controller's asynchronous *)
(* functions are tasks in that chain, and what follows an await runs as    *)
(* its operation ends.  Closing the peer connection drops the chain.       *)
(***************************************************************************)
EXTENDS Integers, Sequences, SequencesExt

CONSTANTS
  MaxConnects,      \* sockets the two pages open between them
  MaxStarts,        \* calls the host starts
  MaxCandidates,    \* ICE candidates each controller gathers
  MaxTrouble,       \* disconnects, hang-ups, rejoins and broken sockets
  Previewing,       \* pages whose local preview runs
  Gathering         \* pages whose browser finds ICE candidates

ASSUME CallAssumption ==
  /\ MaxConnects \in Nat \ {0}
  /\ MaxStarts \in Nat
  /\ MaxCandidates \in Nat
  /\ MaxTrouble \in Nat
  /\ Previewing \subseteq {"host", "guest"}
  /\ Gathering \subseteq {"host", "guest"}

VARIABLES
  panel,      \* what each page shows and holds
  ctrl,       \* the controller of each page
  sockets,    \* every signaling socket, with the service behind it
  made,       \* controllers created so far
  starts,     \* calls started
  trouble     \* disturbances so far

vars == <<panel, ctrl, sockets, made, starts, trouble>>

Roles == {"host", "guest"}
Other(p) == IF p = "host" THEN "guest" ELSE "host"
Sockets == 1..MaxConnects
Owned(p) == {s \in Sockets : sockets[s].owner = p /\ sockets[s].state # "unused"}

Disturb == trouble < MaxTrouble /\ trouble' = trouble + 1

-----------------------------------------------------------------------------
(* Records                                                                 *)

\* conn is connectionRef, 0 for null.
IdlePanel == [conn |-> 0, status |-> "idle", presence |-> "unknown",
              stream |-> FALSE]

\* left tells that its page joined anew before the socket had closed.
UnusedSocket == [owner |-> "host", state |-> "unused", inbox |-> <<>>,
                 outbox |-> <<>>, handler |-> "none", snapshot |-> FALSE,
                 left |-> FALSE]

Message(kind, gen, of, tracks) ==
  [kind |-> kind, gen |-> gen, of |-> of, tracks |-> tracks]

Presence(kind) == Message(kind, 0, 0, FALSE)

\* A controller is known by its number: gen is its own and remote that of
\* the controller whose description it has set, 0 while there is none.
\* received and applied are histories of the candidates.
Controller(gen) ==
  [gen |-> gen, pc |-> FALSE, signaling |-> "stable", local |-> FALSE,
   remote |-> 0, tracks |-> FALSE, gathered |-> 0, pending |-> <<>>,
   chain |-> <<>>, received |-> {}, applied |-> {}]

NoController == Controller(0)
HasController(p) == ctrl[p].gen # 0

Init ==
  /\ panel = [p \in Roles |-> IdlePanel]
  /\ ctrl = [p \in Roles |-> NoController]
  /\ sockets = [s \in Sockets |-> UnusedSocket]
  /\ made = 0
  /\ starts = 0
  /\ trouble = 0

-----------------------------------------------------------------------------
(* The signaling client                                                    *)

IsOpen(s) == s # 0 /\ sockets[s].state = "open"

\* sendSignal throws without an open connection.
CanSend(p) == IsOpen(panel[p].conn)

Sent(p, m) == [sockets EXCEPT ![panel[p].conn].outbox = Append(@, m)]

\* close() of the client; a frame that comes later is dropped.
CloseSocket(s) ==
  IF s # 0 /\ sockets[s].state \in {"connecting", "open"}
  THEN [sockets EXCEPT ![s].state = "closing", ![s].inbox = <<>>]
  ELSE sockets

-----------------------------------------------------------------------------
(* The controller: what runs up to the next await                          *)

WithPc(c) == [c EXCEPT !.pc = TRUE]

Ask(c, task) == [c EXCEPT !.chain = Append(@, task)]

\* of is the controller a description belongs to or answers, rest are the
\* candidates a flush has still to add, then is what follows it.
Task(op, m, rest, then) == [op |-> op, m |-> m, rest |-> rest, then |-> then]
Step(op, m) == Task(op, m, <<>>, "end")

\* The stream of the preview is read as the description is made.
attachLocalMediaTracks(c, p) == [c EXCEPT !.tracks = p \in Previewing]

\* What follows a flush that has nothing left to add; only the guest's is
\* followed by an answer.
Continue(c, then) ==
  CASE then = "answer" -> Ask(attachLocalMediaTracks(c, "guest"),
                              Step("createAnswer", Presence("none")))
    [] then = "end" -> c

\* Mutant of Flush: with nothing to add, what follows is not asked for.
FlushOnly(c, then) ==
  IF c.remote = 0 \/ c.pending = <<>> THEN c
  ELSE Ask([c EXCEPT !.pending = <<>>],
           Task("add", Head(c.pending), Tail(c.pending), then))

\* Mutant of Flush: the list is emptied, the first one added.
FlushFirst(c, then) ==
  IF c.remote = 0 \/ c.pending = <<>>
  THEN Continue(c, then)
  ELSE Ask([c EXCEPT !.pending = <<>>], Task("add", Head(c.pending), <<>>, then))

\* The candidates that wait are taken out and added one after the other.
Flush(c, then) ==
  IF c.remote = 0 \/ c.pending = <<>>
  THEN Continue(c, then)
  ELSE Ask([c EXCEPT !.pending = <<>>],
           Task("add", Head(c.pending), Tail(c.pending), then))

addRemoteIceCandidate(c, m) ==
  LET heard == [c EXCEPT !.received = @ \cup {m}]
  IN IF ~c.pc \/ c.remote = 0
     THEN [heard EXCEPT !.pending = Append(@, m)]
     ELSE Ask(heard, Task("add", m, <<>>, "flush"))

handleSignal(c, m) ==
  CASE m.kind = "offer" -> Ask(WithPc(c), Step("remoteOffer", m))
    [] m.kind = "answer" -> Ask(WithPc(c), Step("remoteAnswer", m))
    [] m.kind = "candidate" -> addRemoteIceCandidate(c, m)

-----------------------------------------------------------------------------
(* The panel                                                               *)

\* closeWebRtcPeerConnection: the controller's close() also takes the remote
\* stream away.  shown is what the caller makes of the panel.
closeCall(p, shown) ==
  /\ ctrl' = [ctrl EXCEPT ![p] = NoController]
  /\ panel' = [panel EXCEPT ![p] = [shown EXCEPT !.stream = FALSE]]

canConnect(p) == panel[p].status \notin {"connecting", "open", "closing"}

\* No connection, or one that has closed.
Gone(p) == panel[p].conn \notin {s \in Owned(p) : sockets[s].state # "closed"}

NextSocket == CHOOSE s \in Sockets :
  sockets[s].state = "unused" /\ \A t \in 1..(s - 1) : sockets[t].state # "unused"

connectToSignalingRoom(p) ==
  /\ \E s \in Sockets : sockets[s].state = "unused"
  /\ panel' = [panel EXCEPT ![p].conn = NextSocket, ![p].status = "connecting",
                            ![p].presence = "unknown"]
  /\ sockets' = [sockets EXCEPT ![NextSocket] =
                   [UnusedSocket EXCEPT !.owner = p, !.state = "connecting"]]
  /\ UNCHANGED <<ctrl, made, starts, trouble>>

\* Mutant of handleConnect: the status alone is asked.
handleConnectByStatus(p) == canConnect(p) /\ connectToSignalingRoom(p)

\* A connection that is held and has not closed refuses another one.
handleConnect(p) ==
  /\ canConnect(p)
  /\ Gone(p)
  /\ connectToSignalingRoom(p)

\* The refusal, which only the status shows.
handleConnectRefused(p) ==
  /\ canConnect(p)
  /\ ~Gone(p)
  /\ panel' = [panel EXCEPT ![p].status = "error"]
  /\ UNCHANGED <<ctrl, sockets, made, starts, trouble>>

handleDisconnect(p) ==
  /\ panel[p].status \in {"connecting", "open", "closing"}
  /\ \/ /\ Gone(p)
        /\ panel' = [panel EXCEPT ![p].status = "error"]
        /\ UNCHANGED <<ctrl, sockets, trouble>>
     \/ /\ ~Gone(p)
        /\ Disturb
        /\ sockets' = CloseSocket(panel[p].conn)
        /\ closeCall(p, [panel[p] EXCEPT !.status = "closing", !.presence = "unknown"])
  /\ UNCHANGED <<made, starts>>

\* A test signal that gets through is only logged at the other side.
handleSendTestSignal(p) ==
  /\ panel[p].status = "open"
  /\ ~CanSend(p)
  /\ panel' = [panel EXCEPT ![p].status = "error"]
  /\ UNCHANGED <<ctrl, sockets, made, starts, trouble>>

handleStartWebRtc ==
  /\ panel["host"].status = "open"
  /\ panel["host"].presence = "connected"
  /\ ~HasController("host")
  /\ starts < MaxStarts
  /\ ctrl' = [ctrl EXCEPT !["host"] =
                Ask(attachLocalMediaTracks(WithPc(Controller(made + 1)), "host"),
                    Step("createOffer", Presence("none")))]
  /\ made' = made + 1
  /\ starts' = starts + 1
  /\ UNCHANGED <<panel, sockets, trouble>>

handleCloseWebRtc(p) ==
  /\ HasController(p)
  /\ Disturb
  /\ closeCall(p, panel[p])
  /\ UNCHANGED <<sockets, made, starts>>

\* The guest joins the session again: the participant is another one and the
\* panel starts over.  Nothing is held of the old socket, which has its
\* handlers still.
Rejoin ==
  LET s == panel["guest"].conn
  IN /\ Disturb
     /\ s # 0
     /\ sockets' = [CloseSocket(s) EXCEPT ![s].left = TRUE]
     /\ closeCall("guest", IdlePanel)
     /\ UNCHANGED <<made, starts>>

-----------------------------------------------------------------------------
(* Frames and events of a socket                                           *)

FrameAt(s, kind) ==
  IsOpen(s) /\ sockets[s].inbox # <<>> /\ Head(sockets[s].inbox).kind = kind

Heard(s) == sockets' = [sockets EXCEPT ![s].inbox = Tail(@)]

RoomStateHeard(s) ==
  LET p == sockets[s].owner
  IN /\ FrameAt(s, "room-state")
     /\ panel' = [panel EXCEPT ![p].presence =
                    IF Head(sockets[s].inbox).tracks THEN "connected" ELSE "waiting"]
     /\ Heard(s)
     /\ UNCHANGED <<ctrl, made, starts, trouble>>

PeerJoinedHeard(s) ==
  /\ FrameAt(s, "peer-joined")
  /\ panel' = [panel EXCEPT ![sockets[s].owner].presence = "connected"]
  /\ Heard(s)
  /\ UNCHANGED <<ctrl, made, starts, trouble>>

\* Mutant of PeerLeftHeard: the call outlives the other one's leaving.
PeerLeftNoted(s) ==
  /\ FrameAt(s, "peer-left")
  /\ panel' = [panel EXCEPT ![sockets[s].owner].presence = "disconnected"]
  /\ Heard(s)
  /\ UNCHANGED <<ctrl, made, starts, trouble>>

PeerLeftHeard(s) ==
  LET p == sockets[s].owner
  IN /\ FrameAt(s, "peer-left")
     /\ closeCall(p, [panel[p] EXCEPT !.presence = "disconnected"])
     /\ Heard(s)
     /\ UNCHANGED <<made, starts, trouble>>

\* A payload makes a controller where there is none, whatever its kind.
SignalHeard(s) ==
  LET p == sockets[s].owner
      m == Head(sockets[s].inbox)
      c == IF HasController(p) THEN ctrl[p] ELSE Controller(made + 1)
  IN /\ \E kind \in {"offer", "answer", "candidate"} : FrameAt(s, kind)
     /\ ctrl' = [ctrl EXCEPT ![p] = handleSignal(c, m)]
     /\ made' = IF HasController(p) THEN made ELSE made + 1
     /\ Heard(s)
     /\ UNCHANGED <<panel, starts, trouble>>

\* onClose: the connection that is held is forgotten and the call closed,
\* even when it is another socket that closed.
SocketClosed(s) ==
  LET p == sockets[s].owner
  IN /\ sockets[s].state = "closing"
     /\ sockets' = [sockets EXCEPT ![s].state = "closed"]
     /\ closeCall(p, [panel[p] EXCEPT !.conn = 0, !.status = "closed"])
     /\ UNCHANGED <<made, starts, trouble>>

\* The connection breaks or the service closes it; its close event is to
\* come.  A handler that has ended closes its socket.  Frames on their way
\* out may get lost.
SocketBreaks(s) ==
  /\ sockets[s].state \in {"connecting", "open"}
  /\ \/ sockets[s].handler = "ended" /\ UNCHANGED trouble
     \/ sockets[s].handler # "ended" /\ Disturb
  /\ \E kept \in {<<>>, sockets[s].outbox} :
       sockets' = [sockets EXCEPT ![s].state = "closing", ![s].inbox = <<>>,
                                  ![s].outbox = kept]
  /\ UNCHANGED <<panel, ctrl, made, starts>>

-----------------------------------------------------------------------------
(* The service: one handler per socket (SignalingRooms has its detail)     *)

InRoom(s) == sockets[s].handler \in {"write", "notify", "loop", "leave"}

\* The other one's socket in the room, 0 while there is none.
PeerOf(s) ==
  LET peers == {t \in Owned(Other(sockets[s].owner)) : InRoom(t)}
  IN IF peers = {} THEN 0 ELSE CHOOSE t \in peers : TRUE

ServiceOnly == UNCHANGED <<panel, ctrl, made, starts, trouble>>

SetHandler(ss, s, at) == [ss EXCEPT ![s].handler = at]

\* A write reaches a page whose socket is open; one that is closing swallows
\* it or fails it, one that has closed fails it.
Write(s, t, m, done, failed) ==
  \/ /\ IsOpen(t)
     /\ sockets' = [SetHandler(sockets, s, done) EXCEPT ![t].inbox = Append(@, m)]
  \/ sockets[t].state = "closing" /\ sockets' = SetHandler(sockets, s, done)
  \/ ~IsOpen(t) /\ sockets' = SetHandler(sockets, s, failed)

\* Mutant of Join: a second one of a role is let in.
JoinTwice(s) ==
  /\ sockets[s].state = "connecting"
  /\ panel' = [panel EXCEPT ![sockets[s].owner].status = "open"]
  /\ sockets' = [sockets EXCEPT ![s].state = "open", ![s].handler = "write",
                                ![s].snapshot = PeerOf(s) # 0]
  /\ UNCHANGED <<ctrl, made, starts, trouble>>

\* The socket opens and its handler joins the room, unless another of its
\* role is there: it is refused and closed.
Join(s) ==
  LET p     == sockets[s].owner
      taken == \E t \in Owned(p) : InRoom(t)
  IN /\ sockets[s].state = "connecting"
     /\ panel' = [panel EXCEPT ![p].status = "open"]
     /\ sockets' = [sockets EXCEPT
          ![s].state = "open",
          ![s].handler = IF taken THEN "ended" ELSE "write",
          ![s].snapshot = PeerOf(s) # 0]
     /\ UNCHANGED <<ctrl, made, starts, trouble>>

\* A failed write ends the handler before it promises to tell its leaving.
WriteRoomState(s) ==
  /\ sockets[s].handler = "write"
  /\ Write(s, s, Message("room-state", 0, 0, sockets[s].snapshot), "notify", "ended")
  /\ ServiceOnly

NotifyPeerJoined(s) ==
  /\ sockets[s].handler = "notify"
  /\ \/ PeerOf(s) = 0 /\ sockets' = SetHandler(sockets, s, "loop")
     \/ PeerOf(s) # 0 /\ Write(s, PeerOf(s), Presence("peer-joined"), "loop", "ended")
  /\ ServiceOnly

\* Without a peer the sender gets an error, which its page logs.  A relay
\* that fails ends the handler of the sender.
Relay(s) ==
  LET m    == Head(sockets[s].outbox)
      read == [sockets EXCEPT ![s].outbox = Tail(@)]
      t    == PeerOf(s)
  IN /\ sockets[s].handler = "loop"
     /\ sockets[s].outbox # <<>>
     /\ \/ t = 0 /\ sockets' = read
        \/ t # 0 /\ IsOpen(t) /\ sockets' = [read EXCEPT ![t].inbox = Append(@, m)]
        \/ t # 0 /\ sockets[t].state = "closing" /\ sockets' = read
        \/ t # 0 /\ ~IsOpen(t) /\ sockets' = SetHandler(read, s, "leave")
     /\ ServiceOnly

ReadFails(s) ==
  /\ sockets[s].handler = "loop"
  /\ sockets[s].state \in {"closing", "closed"}
  /\ sockets[s].outbox = <<>>
  /\ sockets' = SetHandler(sockets, s, "leave")
  /\ ServiceOnly

Leave(s) ==
  /\ sockets[s].handler = "leave"
  /\ \/ PeerOf(s) = 0 /\ sockets' = SetHandler(sockets, s, "ended")
     \/ PeerOf(s) # 0 /\ Write(s, PeerOf(s), Presence("peer-left"), "ended", "ended")
  /\ ServiceOnly

-----------------------------------------------------------------------------
(* The controller: the operations of its peer connection                   *)

\* The first operation of the chain, and the controller once it is over.
Running(p, op) == ctrl[p].chain # <<>> /\ Head(ctrl[p].chain).op = op
Over(p) == [ctrl[p] EXCEPT !.chain = Tail(@)]
Asked(p) == Head(ctrl[p].chain)

Becomes(p, c) == ctrl' = [ctrl EXCEPT ![p] = c]
PcOnly == UNCHANGED <<panel, sockets, made, starts, trouble>>

OfferCreated ==
  /\ Running("host", "createOffer")
  /\ Becomes("host", Ask(Over("host"), Step("localOffer", Presence("none"))))
  /\ PcOnly

\* An offer that cannot be sent closes the call.
OfferSet ==
  LET c == [Over("host") EXCEPT !.signaling = "have-local-offer", !.local = TRUE]
  IN /\ Running("host", "localOffer")
     /\ \/ /\ CanSend("host")
           /\ sockets' = Sent("host", Message("offer", c.gen, 0, c.tracks))
           /\ Becomes("host", Flush(c, "end"))
           /\ UNCHANGED panel
        \/ /\ ~CanSend("host")
           /\ closeCall("host", panel["host"])
           /\ UNCHANGED sockets
     /\ UNCHANGED <<made, starts, trouble>>

\* The description of the other one is set; its tracks make a stream.
TakeDescription(p, c, then) ==
  LET m == Asked(p).m
  IN /\ Becomes(p, Flush([c EXCEPT !.remote = m.gen], then))
     /\ panel' = [panel EXCEPT ![p].stream = @ \/ m.tracks]
     /\ UNCHANGED <<sockets, made, starts, trouble>>

OfferTaken ==
  /\ Running("guest", "remoteOffer")
  /\ TakeDescription("guest",
       [Over("guest") EXCEPT !.signaling = "have-remote-offer"], "answer")

AnswerCreated ==
  LET c == Over("guest")
  IN /\ Running("guest", "createAnswer")
     /\ Becomes("guest",
          IF c.signaling = "have-remote-offer"
          THEN Ask(c, Step("localAnswer", Message("of", 0, c.remote, FALSE)))
          ELSE c)
     /\ PcOnly

\* An answer that cannot be set or sent is given up; the call stays.
AnswerSet ==
  LET c   == Over("guest")
      set == [c EXCEPT !.signaling = "stable", !.local = TRUE]
  IN /\ Running("guest", "localAnswer")
     /\ \/ /\ c.signaling # "have-remote-offer"
           /\ Becomes("guest", c)
           /\ UNCHANGED sockets
        \/ /\ c.signaling = "have-remote-offer"
           /\ CanSend("guest")
           /\ sockets' = Sent("guest",
                Message("answer", c.gen, Asked("guest").m.of, c.tracks))
           /\ Becomes("guest", Flush(set, "end"))
        \/ /\ c.signaling = "have-remote-offer"
           /\ ~CanSend("guest")
           /\ Becomes("guest", set)
           /\ UNCHANGED sockets
     /\ UNCHANGED <<panel, made, starts, trouble>>

\* The browser refuses an answer to no offer.
AnswerTaken ==
  /\ Running("host", "remoteAnswer")
  /\ \/ /\ ctrl["host"].signaling = "have-local-offer"
        /\ TakeDescription("host", [Over("host") EXCEPT !.signaling = "stable"], "end")
     \/ /\ ctrl["host"].signaling # "have-local-offer"
        /\ Becomes("host", Over("host"))
        /\ PcOnly

\* What follows an operation of a flush or of a candidate.
AfterAdd(c, t) ==
  CASE t.rest # <<>> -> Ask(c, Task("add", Head(t.rest), Tail(t.rest), t.then))
    [] t.rest = <<>> /\ t.then = "flush" -> Flush(c, "end")
    [] OTHER -> Continue(c, t.then)

Applied(c, m) == [c EXCEPT !.applied = @ \cup {m}]

\* A candidate of another call than the one described may be refused: it
\* waits again.
CandidateAdded(p) ==
  LET t == Asked(p)
      c == Over(p)
  IN /\ Running(p, "add")
     /\ \/ Becomes(p, AfterAdd(Applied(c, t.m), t))
        \/ /\ t.m.gen # c.remote
           /\ Becomes(p, AfterAdd([c EXCEPT !.pending = Append(@, t.m)], t))
     /\ PcOnly

\* onicecandidate: one that cannot be sent is logged and lost.
LocalCandidate(p) ==
  LET c == ctrl[p]
  IN /\ p \in Gathering
     /\ c.local
     /\ c.gathered < MaxCandidates
     /\ Becomes(p, [c EXCEPT !.gathered = @ + 1])
     /\ sockets' = IF CanSend(p)
                   THEN Sent(p, Message("candidate", c.gen, c.gathered + 1, FALSE))
                   ELSE sockets
     /\ UNCHANGED <<panel, made, starts, trouble>>

-----------------------------------------------------------------------------
(* The system                                                              *)

Press(p) ==
  \/ handleConnect(p) \/ handleConnectRefused(p) \/ handleDisconnect(p)
  \/ handleSendTestSignal(p) \/ handleCloseWebRtc(p)

Hear(s) ==
  \/ RoomStateHeard(s) \/ PeerJoinedHeard(s) \/ PeerLeftHeard(s) \/ SignalHeard(s)

Serve(s) ==
  \/ Join(s) \/ WriteRoomState(s) \/ NotifyPeerJoined(s) \/ Relay(s)
  \/ ReadFails(s) \/ Leave(s)

Negotiate(p) ==
  \/ p = "host" /\ (OfferCreated \/ OfferSet \/ AnswerTaken)
  \/ p = "guest" /\ (OfferTaken \/ AnswerCreated \/ AnswerSet)
  \/ CandidateAdded(p)

Next ==
  \/ \E p \in Roles : Press(p) \/ Negotiate(p) \/ LocalCandidate(p)
  \/ handleStartWebRtc
  \/ Rejoin
  \/ \E s \in Sockets : Hear(s) \/ Serve(s) \/ SocketClosed(s) \/ SocketBreaks(s)

Spec == Init /\ [][Next]_vars

-----------------------------------------------------------------------------
(* Properties                                                              *)

\* Every record keeps its shape, a connection that is held is a socket of
\* its page, and each role has at most one handler in the room.
TypeOK ==
  /\ \A p \in Roles :
       /\ panel[p].conn \in {0} \cup Owned(p)
       /\ panel[p].status \in {"idle", "connecting", "open", "closing", "closed", "error"}
       /\ panel[p].presence \in {"unknown", "waiting", "connected", "disconnected"}
       /\ panel[p].stream \in BOOLEAN
       /\ ctrl[p].gen \in 0..made
       /\ ctrl[p].remote \in 0..made
       /\ ctrl[p].signaling \in {"stable", "have-local-offer", "have-remote-offer"}
       /\ ctrl[p].gathered \in 0..MaxCandidates
       /\ \A s, t \in Owned(p) : InRoom(s) /\ InRoom(t) => s = t
  /\ starts \in 0..MaxStarts
  /\ trouble \in 0..MaxTrouble

\* A page holds every socket it has open, so that its panel can close it,
\* unless it opened it while one from before a rejoin was still to close.
OpenSocketIsHeld ==
  \A p \in Roles : \A s \in Owned(p) :
    sockets[s].state \in {"connecting", "open"} /\ panel[p].conn # s
      => \E t \in Owned(p) : t < s /\ sockets[t].left

InChain(c) ==
  UNION {{c.chain[i].m} \cup ToSet(c.chain[i].rest) : i \in DOMAIN c.chain}

\* A candidate that waits with the description of its call set and no
\* operation to come would never be added.
Forgotten(c, m) == c.remote = m.gen /\ c.chain = <<>>

\* A candidate that reached the controller has been applied, or is on its way
\* to the browser, or waits for something that is still to come: no failure
\* and no order of messages loses it.
NoCandidateIsLost ==
  \A p \in Roles : \A m \in ctrl[p].received \ ctrl[p].applied :
    \/ m \in InChain(ctrl[p])
    \/ m \in ToSet(ctrl[p].pending) /\ ~Forgotten(ctrl[p], m)

\* There is no call with somebody who has left the room, unless the page
\* joined anew before a socket had closed: the frames that wait in a socket
\* it no longer holds are taken as if they were of today.  The other one's
\* stream is shown only while there is a call.
NeverLeft(p) == \A s \in Owned(p) : ~sockets[s].left

GoneHasNoCall ==
  \A p \in Roles :
    /\ panel[p].presence = "disconnected" /\ NeverLeft(p) => ~HasController(p)
    /\ panel[p].stream => HasController(p)

\* Nothing is under way: no frame, handler, close event or operation.
AtRest ==
  /\ \A p \in Roles : ctrl[p].chain = <<>>
  /\ \A s \in Sockets :
       /\ sockets[s].state \in {"unused", "open", "closed"}
       /\ sockets[s].handler \in {"none", "loop", "ended"}
       /\ sockets[s].inbox = <<>> /\ sockets[s].outbox = <<>>

\* An offer that is out gets its answer before everything comes to rest, if
\* nobody hung up, left or lost the connection: whatever the order of the
\* frames, no page is left waiting for the other.
OfferIsAnswered ==
  AtRest /\ trouble = 0 => ctrl["host"].signaling # "have-local-offer"
=============================================================================

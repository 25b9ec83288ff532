--------------------------- MODULE SignalingRooms ---------------------------
(***************************************************************************)
(* The Go signaling service (services/signaling): the rooms of one session *)
(* and the WebSocket handlers that join, announce, relay and leave.  Room  *)
(* objects belong to one session and the manager's map is keyed by it, so  *)
(* one session is enough.                                                  *)
(*                                                                         *)
(* There are two locks: the manager's guards the map, a room's guards its  *)
(* two slots.  They are never held together, except that removeIfEmpty     *)
(* holds the manager's while isEmpty reads both slots under no lock of the *)
(* room.  A critical section, a read and a write to a socket are a step    *)
(* each.                                                                   *)
(***************************************************************************)
EXTENDS Naturals, FiniteSets

CONSTANTS
  Hosts, Guests,   \* the connections opened with role=host and role=guest
  Rooms,           \* room objects
  None

Conns == Hosts \cup Guests

ASSUME ConnsAssumption ==
  /\ Hosts \cap Guests = {}
  /\ None \notin Conns \cup Rooms
  /\ IsFiniteSet(Conns) /\ IsFiniteSet(Rooms)
  /\ Cardinality(Rooms) > Cardinality(Conns)

Roles == {"host", "guest"}

RoleOf(c) == IF c \in Hosts THEN "host" ELSE "guest"

Opposite(role) == IF role = "host" THEN "guest" ELSE "host"

VARIABLES
  current,    \* rooms[sessionID] of the manager, or None
  slots,      \* per room: its host and its guest membership
  handlers,   \* per connection: where its handler is, its room, and the peer
              \* it has read and is about to write to
  closed,     \* the connections whose socket is closed, by either side
  views       \* what each browser was last told of its peer

vars == <<current, slots, handlers, closed, views>>

(* Where a handler is while its membership is in the room's slot (from     *)
(* "loop" on, notifyPeerOnLeave is set) ...                                *)
Seated == {"readState", "writeState", "readJoined", "writeJoined", "loop",
           "relay", "readLeft", "writeLeft", "leave"}

(* ... and while it can still reach the room at all.                       *)
InProgress == Seated \cup {"join", "remove", "removing"}

Places == InProgress \cup {"new", "ended"}

Outside(pc) == [pc |-> pc, room |-> None, peer |-> None]

View(presence, peer) == [presence |-> presence, peer |-> peer]

EmptyRoom == [role \in Roles |-> None]

Init ==
  /\ current = None
  /\ slots = [r \in Rooms |-> EmptyRoom]
  /\ handlers = [c \in Conns |-> Outside("new")]
  /\ closed = {}
  /\ views = [c \in Conns |-> View("unknown", None)]

At(c, pc) == handlers[c].pc = pc

To(c, pc) ==
  handlers' = [handlers EXCEPT ![c] = [@ EXCEPT !.pc = pc, !.peer = None]]

\* Mutant of PeerOf: peer() switches on the role the wrong way round.
OwnSlot(c) == slots[handlers[c].room][RoleOf(c)]

PeerOf(c) == slots[handlers[c].room][Opposite(RoleOf(c))]

Hear(c, view) == views' = [views EXCEPT ![c] = view]

(* A write to a socket that is closed may fail; once its handler has ended *)
(* it must.                                                                *)
WriteFails(c) == c \in closed

WriteArrives(c) == ~At(c, "ended")

\* Mutant of End: the membership of a handler outlives it.
EndInRoom(c) == To(c, "ended") /\ closed' = closed \cup {c}

(* The handler returns and CloseNow closes the socket.                     *)
End(c) ==
  /\ handlers' = [handlers EXCEPT ![c] = Outside("ended")]
  /\ closed' = closed \cup {c}

-----------------------------------------------------------------------------
(* Joining (roomManager.join, room.join)                                   *)

(* Room objects nobody refers to any more are free to be allocated again.  *)
Unreferenced ==
  {r \in Rooms \ {current} : \A c \in Conns : handlers[c].room # r}

NewRoom == CHOOSE r \in Unreferenced : TRUE

ManagerIsFree == \A c \in Conns : ~At(c, "removing")

FetchRoom(c) ==
  /\ At(c, "new")
  /\ ManagerIsFree
  /\ \/ current # None /\ UNCHANGED <<current, slots>>
     \/ /\ current = None
        /\ current' = NewRoom
        /\ slots' = [slots EXCEPT ![NewRoom] = EmptyRoom]
  /\ handlers' = [handlers EXCEPT ![c] = [@ EXCEPT !.pc = "join",
                                                   !.room = current']]
  /\ UNCHANGED <<closed, views>>

\* Mutant of JoinRoom: a second connection takes the slot over.
TakeSlot(c) ==
  LET r == handlers[c].room
  IN /\ At(c, "join")
     /\ slots' = [slots EXCEPT ![r][RoleOf(c)] = c]
     /\ To(c, "readState")
     /\ UNCHANGED <<current, closed, views>>

(* A duplicate is told so and its connection ends.                         *)
JoinRoom(c) ==
  LET r == handlers[c].room
  IN /\ At(c, "join")
     /\ \/ /\ slots[r][RoleOf(c)] = None
           /\ slots' = [slots EXCEPT ![r][RoleOf(c)] = c]
           /\ To(c, "readState")
           /\ UNCHANGED closed
        \/ /\ slots[r][RoleOf(c)] # None
           /\ End(c)
           /\ UNCHANGED slots
     /\ UNCHANGED <<current, views>>

-----------------------------------------------------------------------------
(* Announcing (writeRoomState, notifyPeerJoined)                           *)

ReadPeer(c, pc, next) ==
  /\ At(c, pc)
  /\ handlers' = [handlers EXCEPT ![c] = [@ EXCEPT !.pc = next,
                                                   !.peer = PeerOf(c)]]
  /\ UNCHANGED <<current, slots, closed, views>>

ReadRoomState(c) == ReadPeer(c, "readState", "writeState")

(* An error here, as in WriteJoined, returns before notifyPeerOnLeave is   *)
(* set.                                                                    *)
WriteRoomState(c) ==
  LET peer == handlers[c].peer
  IN /\ At(c, "writeState")
     /\ \/ /\ Hear(c, IF peer = None THEN View("waiting", None)
                                     ELSE View("connected", peer))
           /\ To(c, "readJoined")
        \/ /\ WriteFails(c)
           /\ To(c, "leave")
           /\ UNCHANGED views
     /\ UNCHANGED <<current, slots, closed>>

ReadJoined(c) ==
  /\ At(c, "readJoined")
  /\ \/ PeerOf(c) # None /\ ReadPeer(c, "readJoined", "writeJoined")
     \/ /\ PeerOf(c) = None
        /\ To(c, "loop")
        /\ UNCHANGED <<current, slots, closed, views>>

WriteJoined(c) ==
  LET peer == handlers[c].peer
  IN /\ At(c, "writeJoined")
     /\ \/ /\ WriteArrives(peer)
           /\ Hear(peer, View("connected", c))
           /\ To(c, "loop")
        \/ /\ WriteFails(peer)
           /\ To(c, "leave")
           /\ UNCHANGED views
     /\ UNCHANGED <<current, slots, closed>>

-----------------------------------------------------------------------------
(* Relaying (the read loop of roomHandler)                                 *)

(* A signal arrives; without a peer the sender gets an error and the loop  *)
(* goes on, which changes nothing.                                         *)
ReadSignal(c) ==
  /\ At(c, "loop")
  /\ c \notin closed
  /\ PeerOf(c) # None
  /\ ReadPeer(c, "loop", "relay")

RelaySignal(c) ==
  /\ At(c, "relay")
  /\ \/ WriteArrives(handlers[c].peer) /\ To(c, "loop")
     \/ WriteFails(handlers[c].peer) /\ To(c, "readLeft")
  /\ UNCHANGED <<current, slots, closed, views>>

(* A message that is not text or not JSON ends the connection.             *)
ReadInvalid(c) ==
  /\ At(c, "loop")
  /\ c \notin closed
  /\ To(c, "readLeft")
  /\ UNCHANGED <<current, slots, closed, views>>

\* Mutant of ReadClosed: a read error is taken for an odd message.
ReadOnAfterError(c) ==
  /\ At(c, "loop")
  /\ c \in closed
  /\ UNCHANGED vars

ReadClosed(c) ==
  /\ At(c, "loop")
  /\ c \in closed
  /\ To(c, "readLeft")
  /\ UNCHANGED <<current, slots, closed, views>>

-----------------------------------------------------------------------------
(* Leaving (notifyPeerLeft, room.leave, removeIfEmpty)                     *)

ReadLeft(c) == ReadPeer(c, "readLeft", "writeLeft")

WriteLeft(c) ==
  LET peer == handlers[c].peer
  IN /\ At(c, "writeLeft")
     /\ \/ /\ peer # None
           /\ WriteArrives(peer)
           /\ Hear(peer, View("disconnected", c))
        \/ /\ peer = None \/ WriteFails(peer)
           /\ UNCHANGED views
     /\ To(c, "leave")
     /\ UNCHANGED <<current, slots, closed>>

\* Mutant of LeaveRoom: only the last host asks for the room's removal.
LeaveAsHost(c) ==
  LET r    == handlers[c].room
      left == [slots[r] EXCEPT ![RoleOf(c)] = IF @ = c THEN None ELSE @]
  IN /\ At(c, "leave")
     /\ slots' = [slots EXCEPT ![r] = left]
     /\ \/ left = EmptyRoom /\ c \in Hosts
           /\ To(c, "remove") /\ UNCHANGED closed
        \/ ~(left = EmptyRoom /\ c \in Hosts) /\ End(c)
     /\ UNCHANGED <<current, views>>

LeaveRoom(c) ==
  LET r    == handlers[c].room
      left == [slots[r] EXCEPT ![RoleOf(c)] = IF @ = c THEN None ELSE @]
  IN /\ At(c, "leave")
     /\ slots' = [slots EXCEPT ![r] = left]
     /\ \/ left = EmptyRoom /\ To(c, "remove") /\ UNCHANGED closed
        \/ left # EmptyRoom /\ End(c)
     /\ UNCHANGED <<current, views>>

(* removeIfEmpty takes the manager's lock, compares the room and reads the *)
(* host slot ...                                                           *)
LockAndReadHost(c) ==
  LET r == handlers[c].room
  IN /\ At(c, "remove")
     /\ ManagerIsFree
     /\ \/ /\ current = r
           /\ slots[r]["host"] = None
           /\ To(c, "removing")
           /\ UNCHANGED closed
        \/ /\ current # r \/ slots[r]["host"] # None
           /\ End(c)
     /\ UNCHANGED <<current, slots, views>>

(* ... then the guest slot, and deletes the map's entry.                   *)
ReadGuestAndDelete(c) ==
  /\ At(c, "removing")
  /\ \/ slots[handlers[c].room]["guest"] = None /\ current' = None
     \/ slots[handlers[c].room]["guest"] # None /\ UNCHANGED current
  /\ End(c)
  /\ UNCHANGED <<slots, views>>

(* The browser closes the socket or loses it, at any time.                 *)
Disconnect(c) ==
  /\ handlers[c].pc \in InProgress
  /\ c \notin closed
  /\ closed' = closed \cup {c}
  /\ UNCHANGED <<current, slots, handlers, views>>

HandlerStep(c) ==
  \/ JoinRoom(c)
  \/ ReadRoomState(c)
  \/ WriteRoomState(c)
  \/ ReadJoined(c)
  \/ WriteJoined(c)
  \/ RelaySignal(c)
  \/ ReadClosed(c)
  \/ ReadLeft(c)
  \/ WriteLeft(c)
  \/ LeaveRoom(c)
  \/ LockAndReadHost(c)
  \/ ReadGuestAndDelete(c)

Next ==
  \E c \in Conns :
    \/ FetchRoom(c)
    \/ HandlerStep(c)
    \/ ReadSignal(c)
    \/ ReadInvalid(c)
    \/ Disconnect(c)

Spec == Init /\ [][Next]_vars

(* Go schedules every runnable goroutine, gives a waiting one the manager's*)
(* lock in the end, and a socket write returns.  Browsers owe nothing.     *)
FairSpec == Spec /\ \A c \in Conns : WF_vars(HandlerStep(c))

-----------------------------------------------------------------------------
(* Properties                                                              *)

Handler == [pc : Places, room : Rooms \cup {None}, peer : Conns \cup {None}]

TypeOK ==
  /\ current \in Rooms \cup {None}
  /\ slots \in [Rooms -> [Roles -> Conns \cup {None}]]
  /\ handlers \in [Conns -> Handler]
  /\ \A c \in Conns :
       handlers[c].room # None <=> handlers[c].pc \in InProgress
  /\ closed \in SUBSET Conns
  /\ views \in [Conns -> [presence : {"unknown", "waiting", "connected",
                                      "disconnected"},
                          peer : Conns \cup {None}]]

(* A slot is taken exactly by the handler that sits in it: none is left to *)
(* a connection that is gone, which would refuse the role for ever, and no *)
(* connection loses its slot to another, in rooms in and out of the map.   *)
SlotsAreHeld ==
  \A c \in Conns, r \in Rooms :
    slots[r][RoleOf(c)] = c <=>
      handlers[c].pc \in Seated /\ handlers[c].room = r

(* The map holds a room only while some handler is going to join it, sits  *)
(* in it or is about to remove it: however joins, leaves and the unlocked  *)
(* reads of isEmpty interleave, no entry stays when everyone has gone.     *)
RoomsAreReclaimed ==
  current # None =>
    \E c \in Conns : /\ handlers[c].pc \in InProgress
                     /\ handlers[c].room = current

InLoop(c) == At(c, "loop") /\ c \notin closed

(* Of two connections that settled in the same room at least one was told  *)
(* of the other, so that negotiation can start: the room-state of the later*)
(* one and the peer-joined of the earlier do not both get lost.            *)
OneOfThemKnows ==
  \A h \in Hosts, g \in Guests :
    InLoop(h) /\ InLoop(g) /\ handlers[h].room = handlers[g].room =>
      \/ views[h] = View("connected", g)
      \/ views[g] = View("connected", h)

(* A socket that closes gives its role back: neither a peer that closes at *)
(* the same time nor the locks keep its handler from leaving the room.     *)
RoleIsFreed ==
  \A c \in Conns : c \in closed ~> At(c, "ended")
=============================================================================

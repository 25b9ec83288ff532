------------------------ MODULE SignalingRoomsProofs ------------------------
(***************************************************************************)
(* Proofs about SignalingRooms for any number of connections of each role. *)
(* That the map's room is never abandoned rests on who holds the slots: a  *)
(* handler that goes without deleting the entry leaves because another one *)
(* sits in the room, and a slot names a handler only while it sits there.  *)
(* The same slot is how the later of two learns of the earlier.            *)
(***************************************************************************)
EXTENDS SignalingRooms, FiniteSetTheorems, TLAPS

Views == [presence : {"unknown", "waiting", "connected", "disconnected"},
          peer : Conns \cup {None}]

(* room.join writes a membership to the slot of its role only.             *)
SlotsKeepRoles ==
  \A r \in Rooms, role \in Roles :
    slots[r][role] # None => RoleOf(slots[r][role]) = role

IInv ==
  /\ TypeOK
  /\ SlotsKeepRoles
  /\ SlotsAreHeld
  /\ RoomsAreReclaimed

-----------------------------------------------------------------------------
(* Lemmas                                                                  *)

(* There is a room object to allocate for a handler that has none yet,     *)
(* which is all that the number of Rooms is for.                           *)
LEMMA RoomIsFree ==
  ASSUME TypeOK, current = None
  PROVE  /\ NewRoom \in Rooms
         /\ \A d \in Conns : handlers[d].room # NewRoom
<1> DEFINE f == [d \in Conns |-> handlers[d].room]
           T == {f[d] : d \in Conns}
<1>1. f \in Surjection(Conns, T)
  BY DEF Surjection
<1>2. IsFiniteSet(T) /\ Cardinality(T) <= Cardinality(Conns)
  <2> HIDE DEF f, T
  <2> QED BY <1>1, FS_Surjection, ConnsAssumption
<1>3. ~(Rooms \subseteq T)
  <2> HIDE DEF f, T
  <2> SUFFICES ASSUME Rooms \subseteq T PROVE FALSE
    OBVIOUS
  <2>1. Cardinality(Rooms) <= Cardinality(T)
    BY <1>2, FS_Subset
  <2>2. /\ Cardinality(Rooms) \in Nat
        /\ Cardinality(T) \in Nat
        /\ Cardinality(Conns) \in Nat
    BY <1>2, FS_CardinalityType, ConnsAssumption
  <2> QED BY <1>2, <2>1, <2>2, ConnsAssumption
<1>4. PICK r \in Rooms : r \notin T
  BY <1>3
<1>5. r \in Unreferenced
  BY <1>4, ConnsAssumption DEF Unreferenced
<1>6. NewRoom \in Unreferenced
  BY <1>5 DEF NewRoom
<1> QED BY <1>6 DEF Unreferenced

(* The handler goes on from place, about to write to peer.                 *)
MovesTo(c, place, peer) ==
  handlers' = [handlers EXCEPT
    ![c] = [pc |-> place, room |-> handlers[c].room, peer |-> peer]]

(* A handler that moves on within its seat disturbs nothing.               *)
LEMMA StaysSeated ==
  ASSUME IInv, UNCHANGED <<current, slots>>,
         NEW c \in Conns, handlers[c].pc \in Seated,
         NEW place \in Seated, NEW peer \in Conns \cup {None},
         MovesTo(c, place, peer),
         closed' \in SUBSET Conns, views' \in [Conns -> Views]
  PROVE  IInv'
<1>1. /\ handlers'[c] = [pc |-> place, room |-> handlers[c].room, peer |-> peer]
      /\ \A d \in Conns \ {c} : handlers'[d] = handlers[d]
  BY DEF IInv, TypeOK, MovesTo
<1>2. /\ handlers'[c].pc = place
      /\ handlers'[c].room = handlers[c].room
      /\ handlers'[c] \in Handler
      /\ place \in InProgress
  <2>1. place \in InProgress /\ place \in Places
    BY DEF InProgress, Places
  <2>2. handlers[c].room \in Rooms \cup {None}
    BY DEF IInv, TypeOK, Handler
  <2> QED BY <1>1, <2>1, <2>2 DEF Handler
<1>3. handlers' \in [Conns -> Handler]
  BY <1>2 DEF IInv, TypeOK, MovesTo
<1>4. \A d \in Conns :
        /\ handlers'[d].room = handlers[d].room
        /\ handlers'[d].pc \in Seated <=> handlers[d].pc \in Seated
        /\ handlers'[d].pc \in InProgress <=> handlers[d].pc \in InProgress
  BY <1>1, <1>2 DEF InProgress
<1>5. TypeOK'
  BY <1>3, <1>4 DEF IInv, TypeOK, Views
<1>6. SlotsKeepRoles'
  BY DEF IInv, SlotsKeepRoles
<1>7. SlotsAreHeld'
  BY <1>4 DEF IInv, SlotsAreHeld
<1>8. RoomsAreReclaimed'
  BY <1>4 DEF IInv, RoomsAreReclaimed
<1> QED BY <1>5, <1>6, <1>7, <1>8 DEF IInv

(* A handler that ends without a seat may leave the map's entry behind only*)
(* if another one is still in that room.                                   *)
LEMMA EndsUnseated ==
  ASSUME IInv, UNCHANGED <<slots, views>>,
         NEW c \in Conns, handlers[c].pc \notin Seated, End(c),
         \/ current' = None
         \/ /\ current' = current
            /\ current = handlers[c].room =>
                 \E d \in Conns \ {c} : /\ handlers[d].pc \in InProgress
                                        /\ handlers[d].room = current
  PROVE  IInv'
<1>1. /\ handlers'[c] = Outside("ended")
      /\ \A d \in Conns \ {c} : handlers'[d] = handlers[d]
  BY DEF IInv, TypeOK, End
<1>2. /\ handlers'[c] \in Handler
      /\ handlers'[c].pc = "ended"
      /\ handlers'[c].room = None
      /\ "ended" \notin InProgress
      /\ "ended" \notin Seated
  BY <1>1 DEF Outside, Handler, Places, InProgress, Seated
<1>3. TypeOK'
  <2>1. handlers' \in [Conns -> Handler]
    BY <1>2 DEF IInv, TypeOK, End
  <2> QED BY <1>1, <1>2, <2>1 DEF IInv, TypeOK, End
<1>4. SlotsKeepRoles'
  BY DEF IInv, SlotsKeepRoles
<1>5. SlotsAreHeld'
  BY <1>1, <1>2 DEF IInv, SlotsAreHeld
<1>6. RoomsAreReclaimed'
  BY <1>1 DEF IInv, RoomsAreReclaimed
<1> QED BY <1>3, <1>4, <1>5, <1>6 DEF IInv

(* Whoever is in a slot sits in that room.                                 *)
LEMMA SlotMeansSeated ==
  ASSUME IInv, NEW r \in Rooms, NEW role \in Roles, slots[r][role] # None
  PROVE  /\ slots[r][role] \in Conns
         /\ handlers[slots[r][role]].pc \in Seated
         /\ handlers[slots[r][role]].pc \in InProgress
         /\ handlers[slots[r][role]].room = r
<1>1. slots[r][role] \in Conns
  BY DEF IInv, TypeOK
<1>2. slots[r][RoleOf(slots[r][role])] = slots[r][role]
  BY DEF IInv, SlotsKeepRoles
<1> QED BY <1>1, <1>2 DEF IInv, SlotsAreHeld, InProgress

-----------------------------------------------------------------------------
(* The inductive invariant                                                 *)

(* No connection has a handler, no room is in the map.                     *)
LEMMA InitEstablishes == Init => IInv
<1> SUFFICES ASSUME Init PROVE IInv
  OBVIOUS
<1>1. \A c \in Conns : /\ handlers[c] = Outside("new")
                       /\ handlers[c] \in Handler
                       /\ handlers[c].room = None
                       /\ handlers[c].pc = "new"
  BY DEF Init, Outside, Handler, Places
<1>2. "new" \notin InProgress /\ "new" \notin Seated
  BY DEF InProgress, Seated
<1>3. slots \in [Rooms -> [Roles -> Conns \cup {None}]]
  BY DEF Init, EmptyRoom
<1>4. TypeOK
  BY <1>1, <1>2, <1>3 DEF Init, TypeOK, View
<1>5. \A r \in Rooms, role \in Roles : slots[r][role] = None
  BY DEF Init, EmptyRoom
<1>6. SlotsKeepRoles
  BY <1>5 DEF SlotsKeepRoles
<1>7. SlotsAreHeld
  BY <1>1, <1>2, <1>5, ConnsAssumption DEF SlotsAreHeld, RoleOf, Roles
<1>8. RoomsAreReclaimed
  BY DEF Init, RoomsAreReclaimed
<1> QED BY <1>4, <1>6, <1>7, <1>8 DEF IInv

(* Fetching gives the handler a room, a new one if the map has none, in    *)
(* which nobody can be sitting.                                            *)
LEMMA FetchRoomKeeps ==
  ASSUME IInv, NEW c \in Conns, FetchRoom(c)
  PROVE  IInv'
<1> USE DEF FetchRoom
<1>1. /\ handlers' = [handlers EXCEPT ![c] = [handlers[c] EXCEPT
                                                !.pc = "join", !.room = current']]
      /\ handlers[c].pc = "new"
      /\ handlers[c] \in Handler
  BY DEF IInv, TypeOK, At
<1>2. /\ current' \in Rooms
      /\ \/ slots' = slots
         \/ /\ \A d \in Conns : handlers[d].room # current'
            /\ slots' = [slots EXCEPT ![current'] = EmptyRoom]
  <2>1. CASE current # None
    BY <2>1 DEF IInv, TypeOK
  <2>2. CASE current = None
    BY <2>2, RoomIsFree DEF IInv
  <2> QED BY <2>1, <2>2
<1>3. /\ handlers'[c] = [handlers[c] EXCEPT !.pc = "join", !.room = current']
      /\ \A d \in Conns \ {c} : handlers'[d] = handlers[d]
  BY <1>1 DEF IInv, TypeOK
<1>4. /\ handlers'[c].pc = "join"
      /\ handlers'[c].room = current'
      /\ handlers'[c] \in Handler
      /\ "join" \in InProgress
      /\ "join" \notin Seated
      /\ "new" \notin Seated
  BY <1>1, <1>2, <1>3 DEF Handler, Places, InProgress, Seated
<1>5. current' # None
  BY <1>2, ConnsAssumption
<1>6. slots' \in [Rooms -> [Roles -> Conns \cup {None}]]
  BY <1>2 DEF IInv, TypeOK, EmptyRoom
<1>7. TypeOK'
  <2>1. handlers' \in [Conns -> Handler]
    BY <1>1, <1>4 DEF IInv, TypeOK
  <2> QED BY <1>2, <1>3, <1>4, <1>5, <1>6, <2>1 DEF IInv, TypeOK
<1>8. \A r \in Rooms, role \in Roles :
        \/ slots'[r][role] = slots[r][role]
        \/ /\ r = current'
           /\ slots'[r][role] = None
           /\ \A d \in Conns : handlers[d].room # r
  BY <1>2 DEF IInv, TypeOK, EmptyRoom
<1>9. SlotsKeepRoles'
  BY <1>8 DEF IInv, SlotsKeepRoles
<1>10. SlotsAreHeld'
  <2> SUFFICES ASSUME NEW d \in Conns, NEW r \in Rooms
               PROVE  slots'[r][RoleOf(d)] = d <=>
                        handlers'[d].pc \in Seated /\ handlers'[d].room = r
    BY DEF SlotsAreHeld
  <2>1. RoleOf(d) \in Roles /\ d # None
    BY ConnsAssumption DEF RoleOf, Roles
  <2>2. slots[r][RoleOf(d)] = d <=>
          handlers[d].pc \in Seated /\ handlers[d].room = r
    BY DEF IInv, SlotsAreHeld
  <2>3. slots'[r][RoleOf(d)] = d <=> slots[r][RoleOf(d)] = d
    BY <1>8, <2>1, <2>2
  <2> QED BY <1>1, <1>3, <1>4, <2>2, <2>3
<1>11. RoomsAreReclaimed'
  BY <1>4 DEF RoomsAreReclaimed
<1> QED BY <1>7, <1>9, <1>10, <1>11 DEF IInv

(* Joining takes a free slot, or ends beside the one who has it.           *)
LEMMA JoinRoomKeeps ==
  ASSUME IInv, NEW c \in Conns, JoinRoom(c)
  PROVE  IInv'
<1> DEFINE r == handlers[c].room
           role == RoleOf(c)
<1>1. /\ handlers[c].pc = "join"
      /\ handlers[c].pc \notin Seated
      /\ handlers[c].pc \in InProgress
      /\ handlers[c] \in Handler
  BY DEF JoinRoom, At, Seated, InProgress, IInv, TypeOK
<1>2. r \in Rooms /\ r # None /\ role \in Roles
  BY <1>1 DEF IInv, TypeOK, Handler, RoleOf, Roles
<1> HIDE DEF role
<1>3. CASE slots[r][role] # None
  <2>1. End(c) /\ UNCHANGED <<current, slots, views>>
    BY <1>3 DEF JoinRoom, role
  <2>2. /\ slots[r][role] \in Conns
        /\ handlers[slots[r][role]].pc \in Seated
        /\ handlers[slots[r][role]].pc \in InProgress
        /\ handlers[slots[r][role]].room = r
    BY <1>2, <1>3, SlotMeansSeated
  <2>3. slots[r][role] # c
    BY <1>1, <2>2
  <2> QED BY <1>1, <2>1, <2>2, <2>3, EndsUnseated
<1>4. CASE slots[r][role] = None
  <2>1. /\ slots' = [slots EXCEPT ![r][role] = c]
        /\ To(c, "readState")
        /\ UNCHANGED <<current, closed, views>>
    BY <1>4, <1>2, ConnsAssumption DEF JoinRoom, role
  <2>2. /\ handlers'[c] = [handlers[c] EXCEPT !.pc = "readState", !.peer = None]
        /\ \A d \in Conns \ {c} : handlers'[d] = handlers[d]
        /\ handlers' \in [Conns -> Handler]
    BY <2>1, <1>1 DEF IInv, TypeOK, To, Handler, Places, InProgress, Seated
  <2>3. /\ handlers'[c].pc = "readState"
        /\ handlers'[c].room = r
        /\ "readState" \in Seated
        /\ "readState" \in InProgress
    BY <2>2, <1>1 DEF Handler, Seated, InProgress
  <2>4. /\ slots' \in [Rooms -> [Roles -> Conns \cup {None}]]
        /\ slots'[r][role] = c
        /\ \A q \in Rooms, o \in Roles :
             q # r \/ o # role => slots'[q][o] = slots[q][o]
    BY <2>1, <1>2 DEF IInv, TypeOK
  <2>5. TypeOK'
    BY <2>1, <2>2, <2>3, <2>4, <1>2 DEF IInv, TypeOK
  <2>6. SlotsKeepRoles'
    BY <2>4, <1>2 DEF IInv, SlotsKeepRoles, role
  <2>7. SlotsAreHeld'
    <3> SUFFICES ASSUME NEW d \in Conns, NEW q \in Rooms
                 PROVE  slots'[q][RoleOf(d)] = d <=>
                          handlers'[d].pc \in Seated /\ handlers'[d].room = q
      BY DEF SlotsAreHeld
    <3>1. RoleOf(d) \in Roles /\ d # None
      BY ConnsAssumption DEF RoleOf, Roles
    <3>2. slots[q][RoleOf(d)] = d <=>
            handlers[d].pc \in Seated /\ handlers[d].room = q
      BY DEF IInv, SlotsAreHeld
    <3>3. CASE d = c
      BY <3>3, <3>2, <2>3, <2>4, <1>1, <1>2 DEF role
    <3>4. CASE d # c
      BY <3>4, <3>1, <3>2, <2>2, <2>4, <1>4, <1>2
    <3> QED BY <3>3, <3>4
  <2>8. RoomsAreReclaimed'
    BY <2>1, <2>2, <2>3, <1>1 DEF IInv, RoomsAreReclaimed
  <2> QED BY <2>5, <2>6, <2>7, <2>8 DEF IInv
<1> QED BY <1>3, <1>4

(* What an update of place and peer makes of a handler.                    *)
LEMMA HandlerUpdate ==
  ASSUME NEW h \in Handler, NEW place, NEW other,
         NEW updated, updated = [h EXCEPT !.pc = place, !.peer = other]
  PROVE  updated = [pc |-> place, room |-> h.room, peer |-> other]
BY DEF Handler

(* To moves a handler on and forgets the peer it had read.                 *)
LEMMA ToMoves ==
  ASSUME IInv, NEW c \in Conns, NEW place, To(c, place)
  PROVE  MovesTo(c, place, None)
<1>1. handlers[c] \in Handler
  BY DEF IInv, TypeOK
<1>2. [handlers[c] EXCEPT !.pc = place, !.peer = None]
        = [pc |-> place, room |-> handlers[c].room, peer |-> None]
  BY <1>1, HandlerUpdate
<1> QED BY <1>2 DEF To, MovesTo

(* Reading the other slot of the room, under its lock, changes no seat.    *)
LEMMA ReadPeerMoves ==
  ASSUME IInv, NEW c \in Conns, NEW pc \in Seated, NEW next \in Seated,
         ReadPeer(c, pc, next)
  PROVE  IInv'
<1>1. /\ handlers[c] \in Handler
      /\ handlers[c].pc \in Seated
      /\ handlers[c].pc \in InProgress
  BY DEF IInv, TypeOK, ReadPeer, At, InProgress
<1>2. handlers[c].room \in Rooms /\ Opposite(RoleOf(c)) \in Roles
  BY <1>1 DEF IInv, TypeOK, Handler, Opposite, RoleOf, Roles
<1>3. PeerOf(c) \in Conns \cup {None}
  BY <1>2 DEF IInv, TypeOK, PeerOf
<1>4. [handlers[c] EXCEPT !.pc = next, !.peer = PeerOf(c)]
        = [pc |-> next, room |-> handlers[c].room, peer |-> PeerOf(c)]
  BY <1>1, HandlerUpdate
<1>5. MovesTo(c, next, PeerOf(c))
  BY <1>4 DEF ReadPeer, MovesTo
<1>6. /\ UNCHANGED <<current, slots>>
      /\ closed' \in SUBSET Conns
      /\ views' \in [Conns -> Views]
  BY DEF ReadPeer, IInv, TypeOK, Views
<1> QED BY <1>1, <1>3, <1>5, <1>6, StaysSeated

(* What a browser is told of its peer.                                     *)
LEMMA HearTyped ==
  ASSUME IInv, NEW d, NEW q \in Conns \cup {None},
         NEW presence \in {"unknown", "waiting", "connected", "disconnected"},
         Hear(d, View(presence, q))
  PROVE  views' \in [Conns -> Views]
BY DEF IInv, TypeOK, Hear, View, Views

(* A write, or a decision, and the handler goes on in its seat.            *)
LEMMA GoesOn ==
  ASSUME IInv, UNCHANGED <<current, slots, closed>>,
         NEW c \in Conns, handlers[c].pc \in Seated,
         NEW place \in Seated, To(c, place),
         views' \in [Conns -> Views]
  PROVE  IInv'
<1>1. MovesTo(c, place, None)
  BY ToMoves
<1>2. closed' \in SUBSET Conns
  BY DEF IInv, TypeOK
<1> QED BY <1>1, <1>2, StaysSeated

(* A room-state arrives or fails; the handler keeps its seat.              *)
LEMMA WriteRoomStateKeeps ==
  ASSUME IInv, NEW c \in Conns, WriteRoomState(c)
  PROVE  IInv'
<1>1. /\ handlers[c].pc \in Seated
      /\ {"readJoined", "leave"} \subseteq Seated
      /\ handlers[c].peer \in Conns \cup {None}
      /\ None \in Conns \cup {None}
      /\ views \in [Conns -> Views]
  BY DEF WriteRoomState, At, Seated, IInv, TypeOK, Handler, Views
<1>2. UNCHANGED <<current, slots, closed>>
  BY DEF WriteRoomState
<1>3. CASE /\ Hear(c, IF handlers[c].peer = None THEN View("waiting", None)
                      ELSE View("connected", handlers[c].peer))
           /\ To(c, "readJoined")
  <2>1. views' \in [Conns -> Views]
    BY <1>1, <1>3, HearTyped
  <2> QED BY <1>1, <1>2, <1>3, <2>1, GoesOn
<1>4. CASE To(c, "leave") /\ UNCHANGED views
  BY <1>1, <1>2, <1>4, GoesOn
<1> QED BY <1>3, <1>4 DEF WriteRoomState

(* A peer-joined arrives or fails; the handler keeps its seat.             *)
LEMMA WriteJoinedKeeps ==
  ASSUME IInv, NEW c \in Conns, WriteJoined(c)
  PROVE  IInv'
<1>1. /\ handlers[c].pc \in Seated
      /\ {"loop", "leave"} \subseteq Seated
      /\ c \in Conns \cup {None}
      /\ views \in [Conns -> Views]
  BY DEF WriteJoined, At, Seated, IInv, TypeOK, Views
<1>2. UNCHANGED <<current, slots, closed>>
  BY DEF WriteJoined
<1>3. CASE Hear(handlers[c].peer, View("connected", c)) /\ To(c, "loop")
  <2>1. views' \in [Conns -> Views]
    BY <1>1, <1>3, HearTyped
  <2> QED BY <1>1, <1>2, <1>3, <2>1, GoesOn
<1>4. CASE To(c, "leave") /\ UNCHANGED views
  BY <1>1, <1>2, <1>4, GoesOn
<1> QED BY <1>3, <1>4 DEF WriteJoined

(* A peer-left arrives or fails; the handler is still seated.              *)
LEMMA WriteLeftKeeps ==
  ASSUME IInv, NEW c \in Conns, WriteLeft(c)
  PROVE  IInv'
<1>1. /\ handlers[c].pc \in Seated
      /\ "leave" \in Seated
      /\ c \in Conns \cup {None}
      /\ views \in [Conns -> Views]
  BY DEF WriteLeft, At, Seated, IInv, TypeOK, Views
<1>2. UNCHANGED <<current, slots, closed>> /\ To(c, "leave")
  BY DEF WriteLeft
<1>3. views' \in [Conns -> Views]
  <2>1. CASE Hear(handlers[c].peer, View("disconnected", c))
    BY <1>1, <2>1, HearTyped
  <2>2. CASE UNCHANGED views
    BY <1>1, <2>2
  <2> QED BY <2>1, <2>2 DEF WriteLeft
<1> QED BY <1>1, <1>2, <1>3, GoesOn

(* Leaving gives the slot back, and the handler ends at once only beside   *)
(* the other one of the room.                                              *)
LEMMA LeaveRoomKeeps ==
  ASSUME IInv, NEW c \in Conns, LeaveRoom(c)
  PROVE  IInv'
<1> DEFINE r == handlers[c].room
           role == RoleOf(c)
           left == [slots[r] EXCEPT ![role] = IF @ = c THEN None ELSE @]
<1>1. /\ handlers[c].pc = "leave"
      /\ handlers[c].pc \in Seated
      /\ handlers[c].pc \in InProgress
      /\ handlers[c] \in Handler
  BY DEF LeaveRoom, At, Seated, InProgress, IInv, TypeOK
<1>2. r \in Rooms /\ r # None /\ role \in Roles
  BY <1>1 DEF IInv, TypeOK, Handler, RoleOf, Roles
<1>3. slots[r][role] = c
  BY <1>1, <1>2 DEF IInv, SlotsAreHeld
<1>4. /\ slots' = [slots EXCEPT ![r] = left]
      /\ UNCHANGED <<current, views>>
      /\ \/ left = EmptyRoom /\ To(c, "remove") /\ UNCHANGED closed
         \/ left # EmptyRoom /\ End(c)
  BY DEF LeaveRoom
<1>5. /\ left \in [Roles -> Conns \cup {None}]
      /\ left[role] = None
      /\ \A o \in Roles \ {role} : left[o] = slots[r][o]
  BY <1>2, <1>3 DEF IInv, TypeOK
<1> HIDE DEF role, left
<1>6. /\ slots' \in [Rooms -> [Roles -> Conns \cup {None}]]
      /\ slots'[r][role] = None
      /\ \A q \in Rooms, o \in Roles :
           q # r \/ o # role => slots'[q][o] = slots[q][o]
  BY <1>2, <1>4, <1>5 DEF IInv, TypeOK
<1>7. /\ handlers' \in [Conns -> Handler]
      /\ \A d \in Conns \ {c} : handlers'[d] = handlers[d]
      /\ closed' \in SUBSET Conns
      /\ handlers'[c].pc \notin Seated
      /\ handlers'[c].room # None <=> handlers'[c].pc \in InProgress
      /\ left = EmptyRoom => /\ handlers'[c].room = r
                             /\ handlers'[c].pc \in InProgress
  <2>1. CASE left = EmptyRoom /\ To(c, "remove") /\ UNCHANGED closed
    <3>1. MovesTo(c, "remove", None)
      BY <2>1, ToMoves
    <3>2. /\ handlers'[c] = [pc |-> "remove", room |-> r, peer |-> None]
          /\ \A d \in Conns \ {c} : handlers'[d] = handlers[d]
      BY <3>1 DEF MovesTo, IInv, TypeOK
    <3>3. handlers'[c] \in Handler
      BY <3>2, <1>2 DEF Handler, Places, InProgress
    <3>4. "remove" \in InProgress /\ "remove" \notin Seated
      BY DEF InProgress, Seated
    <3>5. handlers' \in [Conns -> Handler]
      BY <3>1, <3>3 DEF MovesTo, IInv, TypeOK
    <3>6. closed' \in SUBSET Conns
      BY <2>1 DEF IInv, TypeOK
    <3> QED BY <3>2, <3>4, <3>5, <3>6, <1>2
  <2>2. CASE left # EmptyRoom /\ End(c)
    <3>1. /\ handlers'[c] = Outside("ended")
          /\ \A d \in Conns \ {c} : handlers'[d] = handlers[d]
      BY <2>2 DEF End, IInv, TypeOK
    <3>2. /\ handlers'[c] \in Handler
          /\ handlers'[c].room = None
          /\ handlers'[c].pc = "ended"
          /\ "ended" \notin InProgress
          /\ "ended" \notin Seated
      BY <3>1 DEF Outside, Handler, Places, InProgress, Seated
    <3>3. handlers' \in [Conns -> Handler] /\ closed' \in SUBSET Conns
      BY <2>2, <3>2 DEF End, IInv, TypeOK
    <3> QED BY <2>2, <3>1, <3>2, <3>3
  <2> QED BY <1>4, <2>1, <2>2
<1>8. TypeOK'
  BY <1>4, <1>6, <1>7 DEF IInv, TypeOK
<1>9. SlotsKeepRoles'
  BY <1>2, <1>6 DEF IInv, SlotsKeepRoles
<1>10. SlotsAreHeld'
  <2> SUFFICES ASSUME NEW d \in Conns, NEW q \in Rooms
               PROVE  slots'[q][RoleOf(d)] = d <=>
                        handlers'[d].pc \in Seated /\ handlers'[d].room = q
    BY DEF SlotsAreHeld
  <2>1. RoleOf(d) \in Roles /\ d # None
    BY ConnsAssumption DEF RoleOf, Roles
  <2>2. slots[q][RoleOf(d)] = d <=>
          handlers[d].pc \in Seated /\ handlers[d].room = q
    BY DEF IInv, SlotsAreHeld
  <2>3. CASE d = c
    BY <2>1, <2>2, <2>3, <1>1, <1>2, <1>6, <1>7 DEF role
  <2>4. CASE d # c
    BY <2>1, <2>2, <2>4, <1>2, <1>3, <1>6, <1>7
  <2> QED BY <2>3, <2>4
<1>11. RoomsAreReclaimed'
  <2> SUFFICES ASSUME current # None
               PROVE  \E d \in Conns : /\ handlers'[d].pc \in InProgress
                                       /\ handlers'[d].room = current
    BY <1>4 DEF RoomsAreReclaimed
  <2>1. PICK d \in Conns : /\ handlers[d].pc \in InProgress
                           /\ handlers[d].room = current
    BY DEF IInv, RoomsAreReclaimed
  <2>2. CASE d # c
    BY <2>1, <2>2, <1>7
  <2>3. CASE d = c /\ left = EmptyRoom
    BY <2>1, <2>3, <1>7
  <2>4. CASE d = c /\ left # EmptyRoom
    <3>1. PICK o \in Roles : left[o] # None
      BY <2>4, <1>5 DEF EmptyRoom
    <3>2. slots[r][o] # None /\ slots[r][o] # c
      BY <3>1, <1>2, <1>5, SlotMeansSeated DEF IInv, SlotsKeepRoles, role
    <3> QED BY <3>2, <2>1, <2>4, <1>2, <1>7, SlotMeansSeated
  <2> QED BY <2>2, <2>3, <2>4
<1> QED BY <1>8, <1>9, <1>10, <1>11 DEF IInv

(* removeIfEmpty gives up only where someone else holds the host's slot.   *)
LEMMA LockAndReadHostKeeps ==
  ASSUME IInv, NEW c \in Conns, LockAndReadHost(c)
  PROVE  IInv'
<1> DEFINE r == handlers[c].room
<1>1. /\ handlers[c].pc = "remove"
      /\ handlers[c].pc \notin Seated
      /\ handlers[c].pc \in InProgress
      /\ handlers[c] \in Handler
  BY DEF LockAndReadHost, At, Seated, InProgress, IInv, TypeOK
<1>2. r \in Rooms /\ r # None /\ "host" \in Roles
  BY <1>1 DEF IInv, TypeOK, Handler, Roles
<1>3. UNCHANGED <<current, slots, views>>
  BY DEF LockAndReadHost
<1>4. CASE To(c, "removing") /\ UNCHANGED closed
  <2>1. MovesTo(c, "removing", None)
    BY <1>4, ToMoves
  <2>2. /\ handlers'[c] = [pc |-> "removing", room |-> r, peer |-> None]
        /\ \A d \in Conns \ {c} : handlers'[d] = handlers[d]
    BY <2>1 DEF MovesTo, IInv, TypeOK
  <2>3. handlers'[c] \in Handler
    BY <2>2, <1>2 DEF Handler, Places, InProgress
  <2>4. "removing" \in InProgress /\ "removing" \notin Seated
    BY DEF InProgress, Seated
  <2>5. handlers' \in [Conns -> Handler]
    BY <2>1, <2>3 DEF MovesTo, IInv, TypeOK
  <2>6. TypeOK'
    BY <1>2, <1>3, <1>4, <2>2, <2>4, <2>5 DEF IInv, TypeOK
  <2>7. SlotsKeepRoles' /\ SlotsAreHeld'
    BY <1>1, <1>3, <2>2, <2>4 DEF IInv, SlotsKeepRoles, SlotsAreHeld
  <2>8. RoomsAreReclaimed'
    BY <1>3, <2>2, <2>4 DEF IInv, RoomsAreReclaimed
  <2> QED BY <2>6, <2>7, <2>8 DEF IInv
<1>5. CASE (current # r \/ slots[r]["host"] # None) /\ End(c)
  <2>1. CASE current # r
    BY <2>1, <1>1, <1>3, <1>5, EndsUnseated
  <2>2. CASE slots[r]["host"] # None
    <3>1. /\ slots[r]["host"] \in Conns \ {c}
          /\ handlers[slots[r]["host"]].pc \in InProgress
          /\ handlers[slots[r]["host"]].room = r
      BY <2>2, <1>1, <1>2, SlotMeansSeated
    <3> QED BY <3>1, <1>1, <1>3, <1>5, EndsUnseated
  <2> QED BY <1>5, <2>1, <2>2
<1> QED BY <1>4, <1>5 DEF LockAndReadHost

(* removeIfEmpty keeps the entry only where someone sits as guest.         *)
LEMMA ReadGuestAndDeleteKeeps ==
  ASSUME IInv, NEW c \in Conns, ReadGuestAndDelete(c)
  PROVE  IInv'
<1> DEFINE r == handlers[c].room
<1>1. /\ handlers[c].pc = "removing"
      /\ handlers[c].pc \notin Seated
      /\ handlers[c].pc \in InProgress
      /\ handlers[c] \in Handler
  BY DEF ReadGuestAndDelete, At, Seated, InProgress, IInv, TypeOK
<1>2. r \in Rooms /\ r # None /\ "guest" \in Roles
  BY <1>1 DEF IInv, TypeOK, Handler, Roles
<1>3. UNCHANGED <<slots, views>> /\ End(c)
  BY DEF ReadGuestAndDelete
<1>4. CASE current' = None
  BY <1>1, <1>3, <1>4, EndsUnseated
<1>5. CASE slots[r]["guest"] # None /\ UNCHANGED current
  <2>1. /\ slots[r]["guest"] \in Conns \ {c}
        /\ handlers[slots[r]["guest"]].pc \in InProgress
        /\ handlers[slots[r]["guest"]].room = r
    BY <1>5, <1>1, <1>2, SlotMeansSeated
  <2> QED BY <2>1, <1>1, <1>3, <1>5, EndsUnseated
<1> QED BY <1>4, <1>5 DEF ReadGuestAndDelete

(* A socket that closes takes nothing from the room by itself.             *)
LEMMA DisconnectKeeps ==
  ASSUME IInv, NEW c \in Conns, Disconnect(c)
  PROVE  IInv'
BY DEF Disconnect, IInv, TypeOK, SlotsKeepRoles, SlotsAreHeld, RoomsAreReclaimed

(* Every step of a handler or a browser keeps the invariant.               *)
LEMMA StepKeeps ==
  ASSUME IInv, [Next]_vars
  PROVE  IInv'
<1>1. CASE UNCHANGED vars
  BY <1>1 DEF vars, IInv, TypeOK, SlotsKeepRoles, SlotsAreHeld, RoomsAreReclaimed
<1>2. CASE Next
  <2>1. PICK c \in Conns : \/ FetchRoom(c)
                           \/ HandlerStep(c)
                           \/ ReadSignal(c)
                           \/ ReadInvalid(c)
                           \/ Disconnect(c)
    BY <1>2 DEF Next
  <2>2. {"readState", "writeState", "readJoined", "writeJoined", "loop",
         "relay", "readLeft", "writeLeft", "leave"} \subseteq Seated
    BY DEF Seated
  <2>3. views \in [Conns -> Views]
    BY DEF IInv, TypeOK, Views
  <2>4. CASE FetchRoom(c)
    BY <2>4, FetchRoomKeeps
  <2>5. CASE JoinRoom(c)
    BY <2>5, JoinRoomKeeps
  <2>6. CASE ReadRoomState(c)
    BY <2>2, <2>6, ReadPeerMoves DEF ReadRoomState
  <2>7. CASE WriteRoomState(c)
    BY <2>7, WriteRoomStateKeeps
  <2>8. CASE ReadJoined(c)
    <3>1. CASE ReadPeer(c, "readJoined", "writeJoined")
      BY <2>2, <3>1, ReadPeerMoves
    <3>2. CASE To(c, "loop") /\ UNCHANGED <<current, slots, closed, views>>
      <4>1. handlers[c].pc \in Seated
        BY <2>2, <2>8 DEF ReadJoined, At
      <4> QED BY <2>2, <2>3, <3>2, <4>1, GoesOn
    <3> QED BY <2>8, <3>1, <3>2 DEF ReadJoined
  <2>9. CASE WriteJoined(c)
    BY <2>9, WriteJoinedKeeps
  <2>10. CASE ReadSignal(c)
    <3>1. ReadPeer(c, "loop", "relay")
      BY <2>10 DEF ReadSignal
    <3> QED BY <2>2, <3>1, ReadPeerMoves
  <2>11. CASE RelaySignal(c)
    <3>1. /\ handlers[c].pc \in Seated
          /\ To(c, "loop") \/ To(c, "readLeft")
          /\ UNCHANGED <<current, slots, closed, views>>
      BY <2>2, <2>11 DEF RelaySignal, At
    <3> QED BY <2>2, <2>3, <3>1, GoesOn
  <2>12. CASE ReadInvalid(c) \/ ReadClosed(c)
    <3>1. /\ handlers[c].pc \in Seated
          /\ To(c, "readLeft")
          /\ UNCHANGED <<current, slots, closed, views>>
      BY <2>2, <2>12 DEF ReadInvalid, ReadClosed, At
    <3> QED BY <2>2, <2>3, <3>1, GoesOn
  <2>13. CASE ReadLeft(c)
    BY <2>2, <2>13, ReadPeerMoves DEF ReadLeft
  <2>14. CASE WriteLeft(c)
    BY <2>14, WriteLeftKeeps
  <2>15. CASE LeaveRoom(c)
    BY <2>15, LeaveRoomKeeps
  <2>16. CASE LockAndReadHost(c)
    BY <2>16, LockAndReadHostKeeps
  <2>17. CASE ReadGuestAndDelete(c)
    BY <2>17, ReadGuestAndDeleteKeeps
  <2>18. CASE Disconnect(c)
    BY <2>18, DisconnectKeeps
  <2> QED BY <2>1, <2>4, <2>5, <2>6, <2>7, <2>8, <2>9, <2>10, <2>11, <2>12,
             <2>13, <2>14, <2>15, <2>16, <2>17, <2>18 DEF HandlerStep
<1> QED BY <1>1, <1>2

-----------------------------------------------------------------------------
(* Theorems                                                                *)

(* The inductive invariant holds in every reachable state.                 *)
THEOREM InductiveInvariant == Spec => []IInv
<1>1. Init => IInv
  BY InitEstablishes
<1>2. IInv /\ [Next]_vars => IInv'
  BY StepKeeps
<1> QED BY <1>1, <1>2, PTL DEF Spec

(* The manager, the rooms and the handlers are well typed, and a handler   *)
(* has a room exactly while it is in progress.                             *)
THEOREM TypeCorrectness == Spec => []TypeOK
<1>1. IInv => TypeOK
  BY DEF IInv
<1> QED BY <1>1, InductiveInvariant, PTL

(* A slot is taken exactly by the handler that sits in it: join refuses a  *)
(* duplicate, and leave, which every handler that joined reaches, removes  *)
(* its own membership and no other.                                        *)
THEOREM SlotsHeld == Spec => []SlotsAreHeld
<1>1. IInv => SlotsAreHeld
  BY DEF IInv
<1> QED BY <1>1, InductiveInvariant, PTL

(* The manager's map keeps no room that everyone has left, although        *)
(* isEmpty reads the two slots without the room's lock.                    *)
THEOREM RoomsReclaimed == Spec => []RoomsAreReclaimed
<1>1. IInv => RoomsAreReclaimed
  BY DEF IInv
<1> QED BY <1>1, InductiveInvariant, PTL

-----------------------------------------------------------------------------
(* Who knows of whom                                                       *)

(* A handler that may stay: it announces itself, or has done so.           *)
Announced == {"readJoined", "writeJoined", "loop", "relay"}

Staying == Announced \cup {"readState", "writeState"}

(* The peer a handler has read is of the other role, and is in the same    *)
(* room while it is in one.                                                *)
PeersAreRead ==
  \A c \in Conns : LET d == handlers[c].peer IN
    d # None => /\ handlers[c].pc \in Seated
                /\ RoleOf(d) # RoleOf(c)
                /\ handlers[d].pc \notin {"new", "join"}
                /\ handlers[d].room \in {None, handlers[c].room}

(* c has been told of d, or is going to be by its own room-state.          *)
Told(c, d) ==
  \/ handlers[c].pc = "readState"
  \/ handlers[c].pc = "writeState" /\ handlers[c].peer = d
  \/ handlers[c].pc \in Announced /\ views[c] = View("connected", d)

(* The later of the two in a room finds the earlier one there, and what it *)
(* is told is not taken back while both stay.                              *)
TheLaterIsTold ==
  \A c, d \in Conns :
    /\ RoleOf(c) # RoleOf(d)
    /\ handlers[c].pc \in Staying /\ handlers[d].pc \in Staying
    /\ handlers[c].room = handlers[d].room
    => Told(c, d) \/ Told(d, c)

KInv == PeersAreRead /\ TheLaterIsTold

(* How a step moves the handler of c, as far as the two parts of KInv can  *)
(* tell.                                                                   *)
PeerMoves(c) ==
  /\ \A d \in Conns \ {c} : handlers'[d] = handlers[d]
  /\ handlers'[c].peer # None =>
       /\ handlers[c].pc \in Seated /\ handlers'[c].pc \in Seated
       /\ handlers'[c].room = handlers[c].room
       /\ handlers'[c].peer = PeerOf(c)
  /\ handlers[c].pc \notin {"new", "join"} =>
       /\ handlers'[c].pc \notin {"new", "join"}
       /\ handlers'[c].room \in {None, handlers[c].room}

PlaceMoves(c) ==
  handlers'[c].pc \in Staying =>
    /\ handlers'[c].room = handlers[c].room
    /\ \/ handlers'[c].pc = "readState"
       \/ /\ handlers[c].pc = "readState"
          /\ handlers'[c].pc = "writeState" /\ handlers'[c].peer = PeerOf(c)
       \/ /\ handlers[c].pc = "writeState" /\ handlers'[c].pc \in Announced
          /\ handlers[c].peer # None => views'[c] = View("connected", handlers[c].peer)
       \/ handlers[c].pc \in Announced /\ handlers'[c].pc \in Announced

ViewMoves(c) ==
  \A d \in Conns : views'[d] # views[d] =>
    \/ d = c /\ handlers[c].pc = "writeState"
    \/ /\ d = handlers[c].peer
       /\ handlers'[c].pc \in Staying => views'[d] = View("connected", c)

(* What the other slot of a room names.                                    *)
LEMMA PeerIsThere ==
  ASSUME IInv, NEW c \in Conns, handlers[c].pc \in Seated
  PROVE  /\ PeerOf(c) # None =>
              /\ PeerOf(c) \in Conns
              /\ RoleOf(PeerOf(c)) # RoleOf(c)
              /\ handlers[PeerOf(c)].pc \in Seated
              /\ handlers[PeerOf(c)].room = handlers[c].room
         /\ \A d \in Conns :
              /\ RoleOf(d) # RoleOf(c) /\ handlers[d].pc \in Seated
              /\ handlers[d].room = handlers[c].room
              => PeerOf(c) = d
<1>1. handlers[c].room \in Rooms /\ Opposite(RoleOf(c)) \in Roles
  BY ConnsAssumption DEF IInv, TypeOK, Handler, Opposite, RoleOf, Roles, InProgress
<1>2. PeerOf(c) # None =>
        /\ PeerOf(c) \in Conns
        /\ RoleOf(PeerOf(c)) = Opposite(RoleOf(c))
        /\ handlers[PeerOf(c)].pc \in Seated
        /\ handlers[PeerOf(c)].room = handlers[c].room
  BY <1>1, SlotMeansSeated DEF PeerOf, IInv, SlotsKeepRoles
<1>3. \A d \in Conns : RoleOf(d) # RoleOf(c) <=> RoleOf(d) = Opposite(RoleOf(c))
  BY DEF RoleOf, Opposite
<1>4. ASSUME NEW d \in Conns, RoleOf(d) # RoleOf(c), handlers[d].pc \in Seated,
             handlers[d].room = handlers[c].room
      PROVE  PeerOf(c) = d
  BY <1>1, <1>3, <1>4 DEF PeerOf, IInv, SlotsAreHeld
<1> QED BY <1>2, <1>3, <1>4

(* Two of one role do not sit in one room.                                 *)
LEMMA OneOfARole ==
  ASSUME IInv, NEW c \in Conns, NEW d \in Conns, RoleOf(c) = RoleOf(d),
         handlers[c].pc \in Seated, handlers[d].pc \in Seated,
         handlers[c].room = handlers[d].room
  PROVE  c = d
<1>1. handlers[c].room \in Rooms
  BY ConnsAssumption DEF IInv, TypeOK, Handler, InProgress
<1> QED BY <1>1 DEF IInv, SlotsAreHeld

LEMMA PeersStayRead ==
  ASSUME IInv, PeersAreRead, NEW c \in Conns, PeerMoves(c)
  PROVE  PeersAreRead'
<1> SUFFICES ASSUME NEW x \in Conns, NEW d, d = handlers'[x].peer, d # None
             PROVE  /\ handlers'[x].pc \in Seated
                    /\ RoleOf(d) # RoleOf(x)
                    /\ handlers'[d].pc \notin {"new", "join"}
                    /\ handlers'[d].room \in {None, handlers'[x].room}
  BY DEF PeersAreRead
<1>1. Seated \cap {"new", "join"} = {}
  BY DEF Seated
<1>2. CASE x # c
  <2>1. handlers'[x] = handlers[x] /\ d \in Conns
    BY <1>2 DEF PeerMoves, IInv, TypeOK, Handler
  <2>2. /\ handlers[x].pc \in Seated /\ RoleOf(d) # RoleOf(x)
        /\ handlers[d].pc \notin {"new", "join"}
        /\ handlers[d].room \in {None, handlers[x].room}
    BY <2>1 DEF PeersAreRead
  <2> QED BY <2>1, <2>2 DEF PeerMoves
<1>3. CASE x = c
  <2>1. /\ d = PeerOf(c) /\ handlers[c].pc \in Seated /\ handlers'[c].pc \in Seated
        /\ handlers'[c].room = handlers[c].room
    BY <1>3 DEF PeerMoves
  <2>2. /\ d \in Conns /\ RoleOf(d) # RoleOf(c)
        /\ handlers[d].pc \in Seated /\ handlers[d].room = handlers[c].room
    BY <2>1, PeerIsThere
  <2>3. handlers'[d] = handlers[d]
    BY <2>2 DEF PeerMoves
  <2> QED BY <1>1, <1>3, <2>1, <2>2, <2>3
<1> QED BY <1>2, <1>3

LEMMA LaterStaysTold ==
  ASSUME IInv, KInv, NEW c \in Conns, PeerMoves(c), PlaceMoves(c), ViewMoves(c)
  PROVE  TheLaterIsTold'
<1>1. Staying \subseteq Seated /\ Announced \subseteq Staying
      /\ {"readState", "writeState"} \cap Announced = {}
  BY DEF Staying, Announced, Seated
<1>2. ASSUME NEW d \in Conns, RoleOf(d) # RoleOf(c),
             handlers'[c].pc \in Staying, handlers'[d].pc \in Staying,
             handlers'[c].room = handlers'[d].room
      PROVE  Told(c, d)' \/ Told(d, c)'
  <2>1. /\ handlers'[d] = handlers[d] /\ d # c /\ d # None
        /\ handlers'[c].room = handlers[c].room
    BY <1>2, ConnsAssumption DEF PeerMoves, PlaceMoves
  <2>2. CASE handlers'[c].pc = "readState"
    BY <2>2 DEF Told
  <2>3. CASE /\ handlers[c].pc = "readState"
             /\ handlers'[c].pc = "writeState" /\ handlers'[c].peer = PeerOf(c)
    <3>1. PeerOf(c) = d
      BY <1>1, <1>2, <2>1, <2>3, PeerIsThere DEF Staying
    <3> QED BY <2>3, <3>1 DEF Told
  <2>4. CASE /\ handlers[c].pc \in Announced \cup {"writeState"}
             /\ handlers'[c].pc \in Announced
             /\ handlers[c].pc = "writeState" /\ handlers[c].peer # None
                  => views'[c] = View("connected", handlers[c].peer)
    <3>1. handlers[c].pc \in Staying
      BY <1>1, <2>4 DEF Staying
    <3>2. Told(c, d) \/ Told(d, c)
      BY <1>2, <2>1, <3>1 DEF KInv, TheLaterIsTold
    <3>3. CASE Told(c, d)
      <4>1. CASE handlers[c].pc = "writeState"
        BY <1>1, <2>1, <2>4, <3>3, <4>1 DEF Told
      <4>2. CASE handlers[c].pc \in Announced
        <5>1. views[c] = View("connected", d)
          BY <1>1, <3>3, <4>2 DEF Told
        <5>2. handlers[c].peer # c
          BY ConnsAssumption DEF KInv, PeersAreRead
        <5>3. views'[c] = views[c]
          BY <1>1, <4>2, <5>2 DEF ViewMoves
        <5> QED BY <2>4, <5>1, <5>3 DEF Told
      <4> QED BY <2>4, <4>1, <4>2
    <3>4. CASE Told(d, c)
      <4>1. views'[d] = views[d] \/ views'[d] = View("connected", c)
        BY <1>2, <2>1 DEF ViewMoves
      <4> QED BY <2>1, <3>4, <4>1 DEF Told
    <3> QED BY <3>2, <3>3, <3>4
  <2>5. CASE /\ handlers[c].pc = "writeState" /\ handlers'[c].pc \in Announced
             /\ handlers[c].peer # None => views'[c] = View("connected", handlers[c].peer)
    BY <2>4, <2>5
  <2>6. CASE handlers[c].pc \in Announced /\ handlers'[c].pc \in Announced
    <3>1. handlers[c].pc # "writeState"
      BY <1>1, <2>6
    <3> QED BY <2>4, <2>6, <3>1
  <2> QED BY <1>2, <2>2, <2>3, <2>5, <2>6 DEF PlaceMoves
<1>3. ASSUME NEW x \in Conns \ {c}, NEW y \in Conns \ {c}, RoleOf(x) # RoleOf(y),
             handlers[x].pc \in Staying, handlers[y].pc \in Staying,
             handlers[x].room = handlers[y].room
      PROVE  views'[x] = views[x]
  <2> SUFFICES ASSUME views'[x] # views[x] PROVE FALSE
    OBVIOUS
  <2>1. x = handlers[c].peer /\ x # None
    BY ConnsAssumption DEF ViewMoves
  <2>2. /\ handlers[c].pc \in Seated /\ RoleOf(x) # RoleOf(c)
        /\ handlers[x].room \in {None, handlers[c].room}
    BY <2>1 DEF KInv, PeersAreRead
  <2>3. handlers[x].room # None
    BY <1>1, <1>3 DEF IInv, TypeOK, InProgress
  <2>4. RoleOf(y) = RoleOf(c)
    BY <1>3, <2>2 DEF RoleOf
  <2> QED BY <1>1, <1>3, <2>2, <2>3, <2>4, OneOfARole
<1> SUFFICES ASSUME NEW x \in Conns, NEW y \in Conns, RoleOf(x) # RoleOf(y),
                    handlers'[x].pc \in Staying, handlers'[y].pc \in Staying,
                    handlers'[x].room = handlers'[y].room
             PROVE  Told(x, y)' \/ Told(y, x)'
  BY DEF TheLaterIsTold, Told
<1>4. CASE x = c \/ y = c
  BY <1>2, <1>4
<1>5. CASE x # c /\ y # c
  <2>1. handlers'[x] = handlers[x] /\ handlers'[y] = handlers[y]
    BY <1>5 DEF PeerMoves
  <2>2. Told(x, y) \/ Told(y, x)
    BY <2>1 DEF KInv, TheLaterIsTold
  <2>3. views'[x] = views[x] /\ views'[y] = views[y]
    BY <1>3, <1>5, <2>1
  <2> QED BY <2>1, <2>2, <2>3 DEF Told
<1> QED BY <1>4, <1>5

LEMMA MovesKeepTold ==
  ASSUME IInv, KInv, NEW c \in Conns, PeerMoves(c), PlaceMoves(c), ViewMoves(c)
  PROVE  KInv'
BY PeersStayRead, LaterStaysTold DEF KInv

Moves(c) == PeerMoves(c) /\ PlaceMoves(c) /\ ViewMoves(c)

(* A handler that forgets the peer it had read and goes on to a place.     *)
LEMMA GoesToMoves ==
  ASSUME IInv, NEW c \in Conns, NEW place, To(c, place),
         place \notin {"new", "join"}, UNCHANGED views,
         \/ place \notin Staying
         \/ place = "readState"
         \/ handlers[c].pc \in Announced /\ place \in Announced
  PROVE  Moves(c)
<1>1. /\ handlers'[c] = [pc |-> place, room |-> handlers[c].room, peer |-> None]
      /\ \A d \in Conns \ {c} : handlers'[d] = handlers[d]
  BY ToMoves DEF MovesTo, IInv, TypeOK
<1>2. PeerMoves(c)
  BY <1>1 DEF PeerMoves
<1>3. PlaceMoves(c)
  BY <1>1 DEF PlaceMoves
<1> QED BY <1>2, <1>3 DEF Moves, ViewMoves

LEMMA EndMoves ==
  ASSUME IInv, NEW c \in Conns, End(c), UNCHANGED views
  PROVE  Moves(c)
<1>1. /\ handlers'[c].pc = "ended"
      /\ handlers'[c].room = None
      /\ handlers'[c].peer = None
      /\ \A d \in Conns \ {c} : handlers'[d] = handlers[d]
  BY DEF End, Outside, IInv, TypeOK
<1>2. "ended" \notin Staying
  BY DEF Staying, Announced
<1>3. PeerMoves(c)
  BY <1>1 DEF PeerMoves
<1>4. PlaceMoves(c)
  BY <1>1, <1>2 DEF PlaceMoves
<1> QED BY <1>3, <1>4 DEF Moves, ViewMoves

(* A handler that reads the other slot of its room.                        *)
LEMMA ReadMoves ==
  ASSUME IInv, NEW c \in Conns, NEW pc \in Seated, NEW next \in Seated,
         ReadPeer(c, pc, next),
         \/ next \notin Staying
         \/ pc = "readState" /\ next = "writeState"
         \/ pc \in Announced /\ next \in Announced
  PROVE  Moves(c)
<1>1. /\ handlers[c] \in Handler
      /\ handlers[c].pc = pc
      /\ UNCHANGED views
  BY DEF IInv, TypeOK, ReadPeer, At
<1>2. [handlers[c] EXCEPT !.pc = next, !.peer = PeerOf(c)]
        = [pc |-> next, room |-> handlers[c].room, peer |-> PeerOf(c)]
  BY <1>1, HandlerUpdate
<1>3. /\ handlers'[c] = [pc |-> next, room |-> handlers[c].room, peer |-> PeerOf(c)]
      /\ \A d \in Conns \ {c} : handlers'[d] = handlers[d]
  BY <1>2 DEF ReadPeer, IInv, TypeOK
<1>4. next \notin {"new", "join"}
  BY DEF Seated
<1>5. PeerMoves(c)
  BY <1>1, <1>3, <1>4 DEF PeerMoves
<1>6. PlaceMoves(c)
  BY <1>1, <1>3 DEF PlaceMoves
<1> QED BY <1>1, <1>5, <1>6 DEF Moves, ViewMoves

(* Before it sits a handler has read no peer.                              *)
LEMMA FetchRoomMoves ==
  ASSUME IInv, KInv, NEW c \in Conns, FetchRoom(c)
  PROVE  Moves(c)
<1>1. /\ handlers[c].pc = "new"
      /\ handlers[c] \in Handler
      /\ UNCHANGED views
  BY DEF FetchRoom, At, IInv, TypeOK
<1>2. handlers[c].peer = None
  BY <1>1 DEF KInv, PeersAreRead, Seated
<1>3. /\ handlers'[c].pc = "join"
      /\ handlers'[c].peer = None
      /\ \A d \in Conns \ {c} : handlers'[d] = handlers[d]
  BY <1>1, <1>2 DEF FetchRoom, IInv, TypeOK, Handler
<1>4. "join" \notin Staying
  BY DEF Staying, Announced
<1>5. PeerMoves(c)
  BY <1>1, <1>3 DEF PeerMoves
<1>6. PlaceMoves(c)
  BY <1>3, <1>4 DEF PlaceMoves
<1> QED BY <1>1, <1>5, <1>6 DEF Moves, ViewMoves

(* The room-state tells the handler's browser of the peer it had read.     *)
LEMMA WriteRoomStateMoves ==
  ASSUME IInv, NEW c \in Conns, WriteRoomState(c)
  PROVE  Moves(c)
<1>1. handlers[c].pc = "writeState"
  BY DEF WriteRoomState, At
<1>2. "leave" \notin Staying /\ "readJoined" \in Announced
  BY DEF Staying, Announced
<1>3. CASE To(c, "leave") /\ UNCHANGED views
  BY <1>2, <1>3, GoesToMoves
<1>4. CASE /\ To(c, "readJoined")
           /\ Hear(c, IF handlers[c].peer = None THEN View("waiting", None)
                      ELSE View("connected", handlers[c].peer))
  <2>1. /\ handlers'[c] = [pc |-> "readJoined", room |-> handlers[c].room, peer |-> None]
        /\ \A d \in Conns \ {c} : handlers'[d] = handlers[d]
    BY <1>4, ToMoves DEF MovesTo, IInv, TypeOK
  <2>2. /\ handlers[c].peer # None => views'[c] = View("connected", handlers[c].peer)
        /\ \A d \in Conns \ {c} : views'[d] = views[d]
    BY <1>4 DEF Hear, IInv, TypeOK
  <2>3. PeerMoves(c)
    BY <2>1 DEF PeerMoves
  <2>4. PlaceMoves(c)
    BY <1>1, <1>2, <2>1, <2>2 DEF PlaceMoves
  <2>5. ViewMoves(c)
    BY <1>1, <2>2 DEF ViewMoves
  <2> QED BY <2>3, <2>4, <2>5 DEF Moves
<1> QED BY <1>3, <1>4 DEF WriteRoomState

(* The announcement tells the peer of the handler's browser.               *)
LEMMA WriteJoinedMoves ==
  ASSUME IInv, NEW c \in Conns, WriteJoined(c)
  PROVE  Moves(c)
<1>1. handlers[c].pc = "writeJoined"
  BY DEF WriteJoined, At
<1>2. /\ "leave" \notin Staying
      /\ "writeJoined" \in Announced /\ "loop" \in Announced
  BY DEF Staying, Announced
<1>3. CASE To(c, "leave") /\ UNCHANGED views
  BY <1>2, <1>3, GoesToMoves
<1>4. CASE To(c, "loop") /\ Hear(handlers[c].peer, View("connected", c))
  <2>1. /\ handlers'[c] = [pc |-> "loop", room |-> handlers[c].room, peer |-> None]
        /\ \A d \in Conns \ {c} : handlers'[d] = handlers[d]
    BY <1>4, ToMoves DEF MovesTo, IInv, TypeOK
  <2>2. \A d \in Conns : views'[d] # views[d] =>
          d = handlers[c].peer /\ views'[d] = View("connected", c)
    BY <1>4 DEF Hear, IInv, TypeOK
  <2>3. PeerMoves(c)
    BY <2>1 DEF PeerMoves
  <2>4. PlaceMoves(c)
    BY <1>1, <1>2, <2>1 DEF PlaceMoves
  <2>5. ViewMoves(c)
    BY <2>2 DEF ViewMoves
  <2> QED BY <2>3, <2>4, <2>5 DEF Moves
<1> QED BY <1>3, <1>4 DEF WriteJoined

(* The departure is told by a handler that does not stay.                  *)
LEMMA WriteLeftMoves ==
  ASSUME IInv, NEW c \in Conns, WriteLeft(c)
  PROVE  Moves(c)
<1>1. To(c, "leave")
  BY DEF WriteLeft
<1>2. "leave" \notin Staying
  BY DEF Staying, Announced
<1>3. CASE UNCHANGED views
  BY <1>1, <1>2, <1>3, GoesToMoves
<1>4. CASE Hear(handlers[c].peer, View("disconnected", c))
  <2>1. /\ handlers'[c] = [pc |-> "leave", room |-> handlers[c].room, peer |-> None]
        /\ \A d \in Conns \ {c} : handlers'[d] = handlers[d]
    BY <1>1, ToMoves DEF MovesTo, IInv, TypeOK
  <2>2. \A d \in Conns : views'[d] # views[d] => d = handlers[c].peer
    BY <1>4 DEF Hear, IInv, TypeOK
  <2>3. PeerMoves(c)
    BY <2>1 DEF PeerMoves
  <2>4. PlaceMoves(c)
    BY <1>2, <2>1 DEF PlaceMoves
  <2>5. ViewMoves(c)
    BY <1>2, <2>1, <2>2 DEF ViewMoves
  <2> QED BY <2>3, <2>4, <2>5 DEF Moves
<1> QED BY <1>3, <1>4 DEF WriteLeft

LEMMA InitKnows == Init => KInv
<1> SUFFICES ASSUME Init PROVE KInv
  OBVIOUS
<1>1. \A c \in Conns : handlers[c].pc = "new" /\ handlers[c].peer = None
  BY DEF Init, Outside
<1>2. "new" \notin Staying
  BY DEF Staying, Announced
<1> QED BY <1>1, <1>2 DEF KInv, PeersAreRead, TheLaterIsTold

(* Each step of a handler is one of these moves, or moves no handler.      *)
LEMMA StepKeepsTold == IInv /\ KInv /\ [Next]_vars => KInv'
<1> SUFFICES ASSUME IInv, KInv, [Next]_vars PROVE KInv'
  OBVIOUS
<1>1. ASSUME UNCHANGED <<handlers, views>> PROVE KInv'
  BY <1>1 DEF KInv, PeersAreRead, TheLaterIsTold, Told
<1>2. CASE UNCHANGED vars
  BY <1>1, <1>2 DEF vars
<1>3. ASSUME NEW c \in Conns,
             FetchRoom(c) \/ HandlerStep(c) \/ ReadSignal(c) \/ ReadInvalid(c)
      PROVE  Moves(c)
  <2>1. /\ {"readState", "readJoined", "loop", "readLeft"} \subseteq Seated
        /\ {"writeState", "writeJoined", "relay", "writeLeft", "leave"} \subseteq Seated
        /\ {"readJoined", "writeJoined", "loop", "relay"} = Announced
        /\ {"readLeft", "writeLeft", "leave", "remove", "removing"} \cap Staying = {}
    BY DEF Seated, Staying, Announced
  <2>2. CASE FetchRoom(c)
    BY <2>2, FetchRoomMoves
  <2>3. CASE JoinRoom(c)
    <3>1. CASE To(c, "readState")
      BY <2>3, <3>1, GoesToMoves DEF JoinRoom
    <3>2. CASE End(c)
      BY <2>3, <3>2, EndMoves DEF JoinRoom
    <3> QED BY <2>3, <3>1, <3>2 DEF JoinRoom
  <2>4. CASE ReadRoomState(c)
    <3>1. ReadPeer(c, "readState", "writeState")
      BY <2>4 DEF ReadRoomState
    <3> QED BY <2>1, <3>1, ReadMoves
  <2>5. CASE WriteRoomState(c)
    BY <2>5, WriteRoomStateMoves
  <2>6. CASE ReadJoined(c)
    <3>1. CASE ReadPeer(c, "readJoined", "writeJoined")
      BY <2>1, <3>1, ReadMoves
    <3>2. CASE To(c, "loop") /\ UNCHANGED views
      <4>1. handlers[c].pc = "readJoined"
        BY <2>6 DEF ReadJoined, At
      <4> QED BY <2>1, <3>2, <4>1, GoesToMoves
    <3> QED BY <2>6, <3>1, <3>2 DEF ReadJoined
  <2>7. CASE WriteJoined(c)
    BY <2>7, WriteJoinedMoves
  <2>8. CASE ReadSignal(c)
    <3>1. ReadPeer(c, "loop", "relay")
      BY <2>8 DEF ReadSignal
    <3> QED BY <2>1, <3>1, ReadMoves
  <2>9. CASE RelaySignal(c)
    <3>1. /\ handlers[c].pc = "relay"
          /\ To(c, "loop") \/ To(c, "readLeft")
          /\ UNCHANGED views
      BY <2>9 DEF RelaySignal, At
    <3> QED BY <2>1, <3>1, GoesToMoves
  <2>10. CASE ReadInvalid(c) \/ ReadClosed(c)
    <3>1. To(c, "readLeft") /\ UNCHANGED views
      BY <2>10 DEF ReadInvalid, ReadClosed
    <3> QED BY <2>1, <3>1, GoesToMoves
  <2>11. CASE ReadLeft(c)
    <3>1. ReadPeer(c, "readLeft", "writeLeft")
      BY <2>11 DEF ReadLeft
    <3> QED BY <2>1, <3>1, ReadMoves
  <2>12. CASE WriteLeft(c)
    BY <2>12, WriteLeftMoves
  <2>13. CASE LeaveRoom(c)
    <3>1. UNCHANGED views /\ (To(c, "remove") \/ End(c))
      BY <2>13 DEF LeaveRoom
    <3> QED BY <2>1, <3>1, GoesToMoves, EndMoves
  <2>14. CASE LockAndReadHost(c)
    <3>1. UNCHANGED views /\ (To(c, "removing") \/ End(c))
      BY <2>14 DEF LockAndReadHost
    <3> QED BY <2>1, <3>1, GoesToMoves, EndMoves
  <2>15. CASE ReadGuestAndDelete(c)
    BY <2>15, EndMoves DEF ReadGuestAndDelete
  <2> QED BY <1>3, <2>2, <2>3, <2>4, <2>5, <2>6, <2>7, <2>8, <2>9, <2>10, <2>11,
             <2>12, <2>13, <2>14, <2>15 DEF HandlerStep
<1>4. ASSUME NEW c \in Conns, Disconnect(c) PROVE KInv'
  BY <1>1, <1>4 DEF Disconnect
<1>5. ASSUME NEW c \in Conns, Moves(c) PROVE KInv'
  BY <1>5, MovesKeepTold DEF Moves
<1> QED BY <1>2, <1>3, <1>4, <1>5 DEF Next

(* Of two that settled in one room at least one was told of the other,     *)
(* however room-states, announcements and departures interleave: the later *)
(* of the two to join finds the earlier one in its slot, and nobody else   *)
(* writes to a browser of that room while both stay.                       *)
THEOREM OneKnows == Spec => []OneOfThemKnows
<1>1. Init => IInv /\ KInv
  BY InitEstablishes, InitKnows
<1>2. IInv /\ KInv /\ [Next]_vars => (IInv /\ KInv)'
  BY StepKeeps, StepKeepsTold
<1>3. KInv => OneOfThemKnows
  <2> SUFFICES ASSUME KInv,
                      NEW h \in Hosts, NEW g \in Guests, InLoop(h), InLoop(g),
                      handlers[h].room = handlers[g].room
               PROVE  \/ views[h] = View("connected", g)
                      \/ views[g] = View("connected", h)
    BY DEF OneOfThemKnows
  <2>1. "loop" \in Staying /\ "loop" \in Announced
    BY DEF Staying, Announced
  <2>2. h \in Conns /\ g \in Conns /\ RoleOf(h) # RoleOf(g)
    BY ConnsAssumption DEF Conns, RoleOf
  <2>3. handlers[h].pc = "loop" /\ handlers[g].pc = "loop"
    BY DEF InLoop, At
  <2>4. Told(h, g) \/ Told(g, h)
    BY <2>1, <2>2, <2>3 DEF KInv, TheLaterIsTold
  <2> QED BY <2>3, <2>4 DEF Told
<1> QED BY <1>1, <1>2, <1>3, PTL DEF Spec
=============================================================================

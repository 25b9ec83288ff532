--------------------------- MODULE StudioCallProofs ---------------------------
(***************************************************************************)
(* Proofs about StudioCall for any number of sockets, calls, candidates    *)
(* and disturbances.  Three things make up the invariant: a controller     *)
(* keeps each candidate somewhere, and none that could be added waits;     *)
(* a page's sockets have an order, and the one it holds is the last; and   *)
(* no frame on its way makes a call with somebody whose leaving comes      *)
(* before it, because the other one's handler announces itself before it   *)
(* relays and says its leaving last.                                       *)
(* A second invariant, for the calls nobody disturbed, follows the host's  *)
(* offer from frame to operation to frame until its answer is set.         *)
(***************************************************************************)
EXTENDS StudioCall, SequenceTheorems, TLAPS

-----------------------------------------------------------------------------
(* Types.  n bounds the numbers of controllers.                            *)

Signals == {"offer", "answer", "candidate"}
Kinds == {"none", "of", "room-state", "peer-joined", "peer-left"} \cup Signals

Msg(n) ==
  {m \in [kind : Kinds, gen : 0..n, of : Nat, tracks : BOOLEAN] :
     m.kind = "candidate" => m.gen # 0}

Signal(n) == {m \in Msg(n) : m.kind \in Signals}
Candidate(n) == {m \in Msg(n) : m.kind = "candidate"}

Ops == {"createOffer", "localOffer", "remoteOffer", "createAnswer", "localAnswer",
        "remoteAnswer", "add"}

Tasks(n) ==
  {t \in [op : Ops, m : Msg(n), rest : Seq(Candidate(n)),
          then : {"answer", "end", "flush"}] :
     IF t.op = "add" THEN t.m.kind = "candidate"
     ELSE t.m.kind # "candidate" /\ t.rest = <<>>}

Ctrl(n) ==
  [gen : 0..n, pc : BOOLEAN,
   signaling : {"stable", "have-local-offer", "have-remote-offer"},
   local : BOOLEAN, remote : 0..n, tracks : BOOLEAN, gathered : 0..MaxCandidates,
   pending : Seq(Candidate(n)), chain : Seq(Tasks(n)),
   received : SUBSET Candidate(n), applied : SUBSET Candidate(n)]

Panel ==
  [conn : Nat, status : {"idle", "connecting", "open", "closing", "closed", "error"},
   presence : {"unknown", "waiting", "connected", "disconnected"}, stream : BOOLEAN]

Socket(n) ==
  [owner : Roles, state : {"unused", "connecting", "open", "closing", "closed"},
   inbox : Seq(Msg(n)), outbox : Seq(Signal(n)),
   handler : {"none", "write", "notify", "loop", "leave", "ended"},
   snapshot : BOOLEAN, left : BOOLEAN]

Types ==
  /\ made \in Nat
  /\ panel \in [Roles -> Panel]
  /\ ctrl \in [Roles -> Ctrl(made)]
  /\ sockets \in [Sockets -> Socket(made)]
  /\ starts \in 0..MaxStarts
  /\ trouble \in 0..MaxTrouble

-----------------------------------------------------------------------------
(* A controller                                                            *)

(* The candidates of a chain.                                              *)
Held(chain) ==
  UNION {{chain[i].m} \cup ToSet(chain[i].rest) : i \in DOMAIN chain}

(* No candidate is lost, but for the descriptions just set.                *)
NothingLost(c) ==
  c.received \ c.applied \subseteq Held(c.chain) \cup ToSet(c.pending)

CtrlOK(c) ==
  /\ c.gen = 0 => c.chain = <<>> /\ ~c.local
  /\ ~c.pc => c.chain = <<>> /\ c.remote = 0
  /\ \A m \in ToSet(c.pending) : m.gen # c.remote
  /\ NothingLost(c)

-----------------------------------------------------------------------------
(* The sockets                                                             *)

SocketsOK ==
  /\ \E n \in 0..MaxConnects : \A s \in Sockets : sockets[s].state = "unused" <=> s > n
  /\ \A s \in Sockets :
       /\ sockets[s].state \in {"unused", "connecting"} => sockets[s].handler = "none"
       /\ sockets[s].state # "open" => sockets[s].inbox = <<>>
       /\ sockets[s].left => sockets[s].state \in {"closing", "closed"}
  /\ \A p \in Roles : \A s, t \in Owned(p) : InRoom(s) /\ InRoom(t) => s = t

(* The socket that is held is the last, and one that is not held and has   *)
(* not closed came with one that was left.                                 *)
HeldOK(p) ==
  /\ panel[p].conn \in {0} \cup Owned(p)
  /\ panel[p].conn # 0 => \A t \in Owned(p) : t <= panel[p].conn
  /\ \A s \in Owned(p) :
       sockets[s].state # "closed" /\ panel[p].conn # s
         => \E t \in Owned(p) : t <= s /\ sockets[t].left

-----------------------------------------------------------------------------
(* The frames on their way                                                 *)

(* After the first k frames the page knows that the other one has gone.    *)
GoneBy(inbox, k, presence) ==
  \E j \in 0..k :
    /\ IF j = 0 THEN presence = "disconnected" ELSE inbox[j].kind = "peer-left"
    /\ \A i \in (j + 1)..k : inbox[i].kind \notin {"room-state", "peer-joined"}

(* No signal comes from one who has gone.                                  *)
FramesOK(inbox, presence) ==
  \A k \in 1..Len(inbox) :
    inbox[k].kind \in Signals => ~GoneBy(inbox, k - 1, presence)

(* The other one's handler that relays has announced itself.               *)
Announced(p, s) ==
  InRoom(s) /\ (\E t \in Owned(Other(p)) : sockets[t].handler = "loop")
    => ~GoneBy(sockets[s].inbox, Len(sockets[s].inbox), panel[p].presence)

CallOK(p) ==
  NeverLeft(p) =>
    /\ panel[p].presence = "disconnected" => ~HasController(p)
    /\ \A s \in Owned(p) :
         /\ sockets[s].state = "connecting" => panel[p].presence # "disconnected"
         /\ sockets[s].state = "open" =>
              /\ FramesOK(sockets[s].inbox, panel[p].presence)
              /\ Announced(p, s)

IInv ==
  /\ Types
  /\ \A p \in Roles : CtrlOK(ctrl[p])
  /\ SocketsOK
  /\ \A p \in Roles : HeldOK(p)
  /\ \A p \in Roles : CallOK(p)
  /\ \A p \in Roles : panel[p].stream => HasController(p)

-----------------------------------------------------------------------------
(* Lemmas on sequences                                                     *)

LEMMA AppendSet ==
  ASSUME NEW S, NEW q \in Seq(S), NEW e \in S
  PROVE  ToSet(Append(q, e)) = ToSet(q) \cup {e}
<1>1. /\ DOMAIN Append(q, e) = 1..(Len(q) + 1)
      /\ DOMAIN q = 1..Len(q) /\ Len(q) \in Nat
  BY AppendProperties, LenProperties
<1>2. /\ \A i \in 1..Len(q) : Append(q, e)[i] = q[i]
      /\ Append(q, e)[Len(q) + 1] = e
  BY AppendProperties
<1>3. 1..(Len(q) + 1) = 1..Len(q) \cup {Len(q) + 1}
  BY <1>1
<1> QED BY <1>1, <1>2, <1>3 DEF ToSet

LEMMA EmptySet == ToSet(<<>>) = {}
<1>1. Len(<<>>) = 0 /\ <<>> \in Seq({})
  BY EmptySeq
<1>2. DOMAIN <<>> = {}
  BY <1>1, LenProperties
<1> QED BY <1>2 DEF ToSet

(* The elements of a sequence are its head and those of its tail.          *)
LEMMA TailIndex ==
  ASSUME NEW S, NEW q \in Seq(S), q # <<>>
  PROVE  /\ Len(q) \in Nat \ {0}
         /\ Head(q) = q[1] /\ Head(q) \in S
         /\ Tail(q) \in Seq(S) /\ Len(Tail(q)) = Len(q) - 1
         /\ \A i \in 1..(Len(q) - 1) : Tail(q)[i] = q[i + 1]
         /\ DOMAIN q = 1..Len(q) /\ DOMAIN Tail(q) = 1..(Len(q) - 1)
<1>1. Len(q) \in Nat \ {0} /\ DOMAIN q = 1..Len(q)
  BY EmptySeq, LenProperties
<1>2. /\ Head(q) \in S /\ Tail(q) \in Seq(S) /\ Len(Tail(q)) = Len(q) - 1
      /\ \A i \in 1..Len(Tail(q)) : Tail(q)[i] = q[i + 1]
  BY HeadTailProperties
<1>3. DOMAIN Tail(q) = 1..(Len(q) - 1)
  BY <1>2, LenProperties
<1>4. Head(q) = q[1]
  OBVIOUS
<1> QED BY <1>1, <1>2, <1>3, <1>4

LEMMA HeadTailSet ==
  ASSUME NEW S, NEW q \in Seq(S), q # <<>>
  PROVE  ToSet(q) = {Head(q)} \cup ToSet(Tail(q))
<1>1. /\ Len(q) \in Nat \ {0} /\ Head(q) = q[1]
      /\ \A i \in 1..(Len(q) - 1) : Tail(q)[i] = q[i + 1]
      /\ DOMAIN q = 1..Len(q) /\ DOMAIN Tail(q) = 1..(Len(q) - 1)
  BY TailIndex
<1>2. ASSUME NEW x \in ToSet(q) PROVE x \in {Head(q)} \cup ToSet(Tail(q))
  <2>1. PICK i \in 1..Len(q) : x = q[i]
    BY <1>1, <1>2 DEF ToSet
  <2>2. CASE i = 1
    BY <1>1, <2>1, <2>2
  <2>3. CASE i # 1
    <3>1. i - 1 \in 1..(Len(q) - 1) /\ Tail(q)[i - 1] = q[(i - 1) + 1] /\ (i - 1) + 1 = i
      BY <1>1, <2>3
    <3> QED BY <1>1, <2>1, <3>1 DEF ToSet
  <2> QED BY <2>2, <2>3
<1>3. ASSUME NEW x \in {Head(q)} \cup ToSet(Tail(q)) PROVE x \in ToSet(q)
  <2>1. CASE x = Head(q)
    BY <1>1, <2>1 DEF ToSet
  <2>2. CASE x \in ToSet(Tail(q))
    <3>1. PICK i \in 1..(Len(q) - 1) : x = Tail(q)[i]
      BY <1>1, <2>2 DEF ToSet
    <3>2. i + 1 \in 1..Len(q)
      BY <1>1
    <3> QED BY <1>1, <3>1, <3>2 DEF ToSet
  <2> QED BY <1>3, <2>1, <2>2
<1> QED BY <1>2, <1>3

LEMMA SetOfSeq ==
  ASSUME NEW S, NEW q \in Seq(S)
  PROVE  ToSet(q) \subseteq S
BY LenProperties, ElementOfSeq DEF ToSet

(* The candidates of a task.                                               *)
Of(t) == {t.m} \cup ToSet(t.rest)

LEMMA HeldIsOf ==
  ASSUME NEW q
  PROVE  Held(q) = UNION {Of(q[i]) : i \in DOMAIN q}
BY DEF Held, Of

LEMMA HeldAppend ==
  ASSUME NEW S, NEW q \in Seq(S), NEW t \in S
  PROVE  Held(Append(q, t)) = Held(q) \cup Of(t)
<1>1. /\ DOMAIN Append(q, t) = 1..(Len(q) + 1)
      /\ DOMAIN q = 1..Len(q) /\ Len(q) \in Nat
  BY AppendProperties, LenProperties
<1>2. /\ \A i \in 1..Len(q) : Append(q, t)[i] = q[i]
      /\ Append(q, t)[Len(q) + 1] = t
  BY AppendProperties
<1>3. 1..(Len(q) + 1) = 1..Len(q) \cup {Len(q) + 1}
  BY <1>1
<1>4. {Of(Append(q, t)[i]) : i \in DOMAIN Append(q, t)}
        = {Of(q[i]) : i \in DOMAIN q} \cup {Of(t)}
  BY <1>1, <1>2, <1>3
<1> QED BY <1>4, HeldIsOf

LEMMA HeldTail ==
  ASSUME NEW S, NEW q \in Seq(S), q # <<>>
  PROVE  Held(q) = Of(Head(q)) \cup Held(Tail(q))
<1>1. /\ Len(q) \in Nat \ {0} /\ Head(q) = q[1]
      /\ \A i \in 1..(Len(q) - 1) : Tail(q)[i] = q[i + 1]
      /\ DOMAIN q = 1..Len(q) /\ DOMAIN Tail(q) = 1..(Len(q) - 1)
  BY TailIndex
<1>2. ASSUME NEW x PROVE x \in Held(q) <=> x \in Of(Head(q)) \/ x \in Held(Tail(q))
  <2>1. x \in Held(q) <=> \E i \in 1..Len(q) : x \in Of(q[i])
    BY <1>1, HeldIsOf
  <2>2. x \in Held(Tail(q)) <=> \E i \in 1..(Len(q) - 1) : x \in Of(Tail(q)[i])
    BY <1>1, HeldIsOf
  <2>3. ASSUME NEW i \in 1..Len(q), x \in Of(q[i])
        PROVE  x \in Of(Head(q)) \/ \E j \in 1..(Len(q) - 1) : x \in Of(Tail(q)[j])
    <3>1. CASE i = 1
      BY <1>1, <2>3, <3>1
    <3>2. CASE i # 1
      <4>1. i - 1 \in 1..(Len(q) - 1) /\ Tail(q)[i - 1] = q[(i - 1) + 1] /\ (i - 1) + 1 = i
        BY <1>1, <3>2
      <4> QED BY <2>3, <4>1
    <3> QED BY <3>1, <3>2
  <2>4. ASSUME NEW j \in 1..(Len(q) - 1), x \in Of(Tail(q)[j])
        PROVE  \E i \in 1..Len(q) : x \in Of(q[i])
    <3>1. j + 1 \in 1..Len(q) /\ Tail(q)[j] = q[j + 1]
      BY <1>1
    <3> QED BY <2>4, <3>1
  <2>5. x \in Of(Head(q)) => \E i \in 1..Len(q) : x \in Of(q[i])
    BY <1>1
  <2> QED BY <2>1, <2>2, <2>3, <2>4, <2>5
<1> QED BY <1>2

LEMMA HeldEmpty == Held(<<>>) = {}
<1>1. DOMAIN <<>> = {}
  BY EmptySeq, LenProperties
<1> QED BY <1>1 DEF Held

-----------------------------------------------------------------------------
(* What a page will have been told                                         *)

LEMMA GoneAppend ==
  ASSUME NEW S, NEW q \in Seq(S), NEW m \in S, NEW presence
  PROVE  /\ \A k \in 0..Len(q) : GoneBy(Append(q, m), k, presence) <=> GoneBy(q, k, presence)
         /\ GoneBy(Append(q, m), Len(q) + 1, presence) =>
              m.kind = "peer-left" \/
                (m.kind \notin {"room-state", "peer-joined"} /\ GoneBy(q, Len(q), presence))
<1> DEFINE a == Append(q, m)
<1>1. /\ Len(q) \in Nat /\ Len(a) = Len(q) + 1
      /\ \A i \in 1..Len(q) : a[i] = q[i]
      /\ a[Len(q) + 1] = m
  BY AppendProperties, LenProperties
<1> HIDE DEF a
<1>2. \A k \in 0..Len(q) : GoneBy(a, k, presence) <=> GoneBy(q, k, presence)
  <2> SUFFICES ASSUME NEW k \in 0..Len(q)
               PROVE  GoneBy(a, k, presence) <=> GoneBy(q, k, presence)
    OBVIOUS
  <2>1. \A j \in 0..k : j # 0 => a[j] = q[j]
    BY <1>1
  <2>2. \A j \in 0..k : \A i \in (j + 1)..k : a[i] = q[i]
    BY <1>1
  <2> QED BY <2>1, <2>2 DEF GoneBy
<1>3. ASSUME GoneBy(a, Len(q) + 1, presence), m.kind # "peer-left"
      PROVE  m.kind \notin {"room-state", "peer-joined"} /\ GoneBy(q, Len(q), presence)
  <2>1. PICK j \in 0..(Len(q) + 1) :
          /\ IF j = 0 THEN presence = "disconnected" ELSE a[j].kind = "peer-left"
          /\ \A i \in (j + 1)..(Len(q) + 1) : a[i].kind \notin {"room-state", "peer-joined"}
    BY <1>3 DEF GoneBy
  <2>2. j # Len(q) + 1
    BY <1>1, <1>3, <2>1
  <2>3. j \in 0..Len(q) /\ Len(q) + 1 \in (j + 1)..(Len(q) + 1)
    BY <1>1, <2>2
  <2>4. m.kind \notin {"room-state", "peer-joined"}
    BY <1>1, <2>1, <2>3
  <2>5. \A i \in (j + 1)..Len(q) : a[i].kind \notin {"room-state", "peer-joined"}
    BY <1>1, <2>1, <2>3
  <2>6. GoneBy(a, Len(q), presence)
    BY <2>1, <2>3, <2>5 DEF GoneBy
  <2>7. Len(q) \in 0..Len(q)
    BY <1>1
  <2> QED BY <1>2, <2>4, <2>6, <2>7
<1> QED BY <1>1, <1>2, <1>3 DEF a

(* The page hears the first frame, and takes its presence from it.         *)
LEMMA GoneTail ==
  ASSUME NEW S, NEW q \in Seq(S), q # <<>>, NEW before, NEW after,
         after = "disconnected" =>
           \/ Head(q).kind = "peer-left"
           \/ before = "disconnected" /\ Head(q).kind \notin {"room-state", "peer-joined"},
         NEW k \in 0..(Len(q) - 1), GoneBy(Tail(q), k, after)
  PROVE  GoneBy(q, k + 1, before)
<1>1. /\ Len(q) \in Nat \ {0} /\ Head(q) = q[1]
      /\ \A i \in 1..(Len(q) - 1) : Tail(q)[i] = q[i + 1]
  BY TailIndex
<1>2. PICK j \in 0..k :
        /\ IF j = 0 THEN after = "disconnected" ELSE Tail(q)[j].kind = "peer-left"
        /\ \A i \in (j + 1)..k : Tail(q)[i].kind \notin {"room-state", "peer-joined"}
  BY DEF GoneBy
<1>3. \A i \in (j + 2)..(k + 1) : q[i].kind \notin {"room-state", "peer-joined"}
  <2> SUFFICES ASSUME NEW i \in (j + 2)..(k + 1)
               PROVE  q[i].kind \notin {"room-state", "peer-joined"}
    OBVIOUS
  <2>1. i - 1 \in (j + 1)..k /\ i - 1 \in 1..(Len(q) - 1) /\ (i - 1) + 1 = i
    BY <1>1
  <2> QED BY <1>1, <1>2, <2>1
<1>4. CASE j # 0
  <2>1. j + 1 \in 0..(k + 1) /\ j + 1 # 0 /\ q[j + 1].kind = "peer-left"
    BY <1>1, <1>2, <1>4
  <2>2. (j + 1) + 1 = j + 2
    OBVIOUS
  <2> QED BY <1>3, <2>1, <2>2 DEF GoneBy
<1>5. CASE j = 0 /\ Head(q).kind = "peer-left"
  <2>1. 1 \in 0..(k + 1) /\ q[1].kind = "peer-left" /\ 1 + 1 = j + 2
    BY <1>1, <1>5
  <2> QED BY <1>3, <2>1 DEF GoneBy
<1>6. CASE j = 0 /\ before = "disconnected" /\ Head(q).kind \notin {"room-state", "peer-joined"}
  <2>1. \A i \in 1..(k + 1) : q[i].kind \notin {"room-state", "peer-joined"}
    BY <1>1, <1>3, <1>6
  <2>2. 0 \in 0..(k + 1) /\ 0 + 1 = 1
    OBVIOUS
  <2> QED BY <1>6, <2>1, <2>2 DEF GoneBy
<1> QED BY <1>2, <1>4, <1>5, <1>6

-----------------------------------------------------------------------------
(* The controller                                                          *)

Good(n, c) == c \in Ctrl(n) /\ CtrlOK(c)

(* It has a peer connection, and nothing that waits could be added.        *)
Alive(c) == c.gen # 0 /\ c.pc
NoneForgotten(c) == \A m \in ToSet(c.pending) : m.gen # c.remote

LEMMA AliveIsOK ==
  ASSUME NEW c, Alive(c), NoneForgotten(c), NothingLost(c)
  PROVE  CtrlOK(c)
BY DEF Alive, NoneForgotten, CtrlOK

LEMMA PresenceIsMsg ==
  ASSUME NEW n \in Nat
  PROVE  /\ Presence("none") \in Msg(n) /\ Presence("none").kind # "candidate"
         /\ Step("createOffer", Presence("none")) \in Tasks(n)
         /\ Step("localOffer", Presence("none")) \in Tasks(n)
         /\ Step("createAnswer", Presence("none")) \in Tasks(n)
BY EmptySeq DEF Presence, Message, Msg, Kinds, Step, Task, Tasks, Ops

LEMMA AskIsOK ==
  ASSUME NEW n \in Nat, NEW c \in Ctrl(n), Alive(c), NoneForgotten(c), NEW t \in Tasks(n),
         c.received \ c.applied \subseteq Held(c.chain) \cup Of(t) \cup ToSet(c.pending)
  PROVE  Good(n, Ask(c, t)) /\ Ask(c, t).gen = c.gen
<1> DEFINE d == Ask(c, t)
<1>1. /\ d.gen = c.gen /\ d.pc = c.pc /\ d.remote = c.remote /\ d.pending = c.pending
      /\ d.received = c.received /\ d.applied = c.applied /\ d.local = c.local
      /\ d.chain = Append(c.chain, t)
      /\ c.chain \in Seq(Tasks(n))
  BY DEF Ask, Ctrl
<1>2. Append(c.chain, t) \in Seq(Tasks(n))
  BY <1>1, AppendProperties
<1>3. d \in Ctrl(n)
  BY <1>1, <1>2 DEF Ask, Ctrl
<1>4. Held(d.chain) = Held(c.chain) \cup Of(t)
  BY <1>1, HeldAppend
<1> QED BY <1>1, <1>3, <1>4, AliveIsOK DEF Good, Alive, NoneForgotten, NothingLost

LEMMA StepHasNone ==
  ASSUME NEW n \in Nat, NEW t \in Tasks(n), t.op # "add"
  PROVE  Of(t) = {t.m} /\ \A S \in SUBSET Candidate(n) : t.m \notin S
BY EmptySet DEF Of, Tasks, Candidate

LEMMA AttachIsOK ==
  ASSUME NEW n \in Nat, NEW c \in Ctrl(n), NEW p
  PROVE  LET d == attachLocalMediaTracks(c, p)
         IN /\ d \in Ctrl(n) /\ d.gen = c.gen /\ d.pc = c.pc /\ d.remote = c.remote
            /\ d.pending = c.pending /\ d.chain = c.chain /\ d.local = c.local
            /\ d.received = c.received /\ d.applied = c.applied
<1> DEFINE x == p \in Previewing
<1>1. x \in BOOLEAN /\ attachLocalMediaTracks(c, p) = [c EXCEPT !.tracks = x]
  BY DEF attachLocalMediaTracks
<1> HIDE DEF x
<1> QED BY <1>1 DEF Ctrl

LEMMA ContinueIsOK ==
  ASSUME NEW n \in Nat, NEW c \in Ctrl(n), Alive(c), NoneForgotten(c), NothingLost(c),
         NEW then \in {"answer", "end"}
  PROVE  Good(n, Continue(c, then)) /\ Continue(c, then).gen = c.gen
<1>1. CASE then = "end"
  BY <1>1, AliveIsOK DEF Continue, Good
<1>2. CASE then = "answer"
  <2> DEFINE d == attachLocalMediaTracks(c, "guest")
             t == Step("createAnswer", Presence("none"))
  <2>1. d \in Ctrl(n) /\ d.gen = c.gen /\ Alive(d) /\ NoneForgotten(d) /\ NothingLost(d)
    BY AttachIsOK DEF Alive, NoneForgotten, NothingLost
  <2>2. Continue(c, then) = Ask(d, t) /\ t \in Tasks(n)
    BY <1>2, PresenceIsMsg DEF Continue
  <2>3. d.received \ d.applied \subseteq Held(d.chain) \cup Of(t) \cup ToSet(d.pending)
    BY <2>1 DEF NothingLost
  <2> HIDE DEF d, t
  <2> QED BY <2>1, <2>2, <2>3, AskIsOK
<1> QED BY <1>1, <1>2

(* A flush leaves nothing that could be added waiting.                     *)
LEMMA FlushIsOK ==
  ASSUME NEW n \in Nat, NEW c \in Ctrl(n), Alive(c), NothingLost(c),
         NEW then \in {"answer", "end"}
  PROVE  Good(n, Flush(c, then)) /\ Flush(c, then).gen = c.gen
<1>1. c.pending \in Seq(Candidate(n)) /\ ToSet(c.pending) \subseteq Candidate(n)
  BY SetOfSeq DEF Ctrl
<1>2. CASE c.remote = 0 \/ c.pending = <<>>
  <2>1. NoneForgotten(c)
    BY <1>1, <1>2, EmptySet DEF NoneForgotten, Candidate, Msg
  <2> QED BY <1>2, <2>1, ContinueIsOK DEF Flush
<1>3. CASE ~(c.remote = 0 \/ c.pending = <<>>)
  <2> DEFINE d == [c EXCEPT !.pending = <<>>]
             t == Task("add", Head(c.pending), Tail(c.pending), then)
  <2>1. /\ Head(c.pending) \in Candidate(n) /\ Tail(c.pending) \in Seq(Candidate(n))
        /\ ToSet(c.pending) = {Head(c.pending)} \cup ToSet(Tail(c.pending))
    BY <1>1, <1>3, TailIndex, HeadTailSet
  <2>2. t \in Tasks(n) /\ Of(t) = ToSet(c.pending)
    BY <2>1 DEF Task, Tasks, Ops, Candidate, Of
  <2>3. /\ d \in Ctrl(n) /\ d.gen = c.gen /\ d.pc = c.pc /\ d.remote = c.remote
        /\ d.pending = <<>> /\ d.chain = c.chain
        /\ d.received = c.received /\ d.applied = c.applied
    BY EmptySeq DEF Ctrl
  <2>4. NoneForgotten(d) /\ Alive(d)
    BY <2>3, EmptySet DEF NoneForgotten, Alive
  <2>5. Flush(c, then) = Ask(d, t)
    BY <1>3 DEF Flush
  <2> HIDE DEF d, t
  <2> QED BY <2>2, <2>3, <2>4, <2>5, AskIsOK DEF NothingLost
<1> QED BY <1>2, <1>3

(* An operation is over: what it held is to be taken care of.              *)
LEMMA OverIsOK ==
  ASSUME NEW n \in Nat, NEW c \in Ctrl(n), CtrlOK(c), c.chain # <<>>
  PROVE  LET o == [c EXCEPT !.chain = Tail(@)]
             t == Head(c.chain)
         IN /\ o \in Ctrl(n) /\ t \in Tasks(n)
            /\ Alive(o) /\ NoneForgotten(o)
            /\ o.gen = c.gen /\ o.pending = c.pending /\ o.remote = c.remote
            /\ o.signaling = c.signaling
            /\ o.received \ o.applied \subseteq Held(o.chain) \cup Of(t) \cup ToSet(o.pending)
            /\ t.op # "add" => NothingLost(o)
<1> DEFINE o == [c EXCEPT !.chain = Tail(@)]
           t == Head(c.chain)
<1>1. c.chain \in Seq(Tasks(n))
  BY DEF Ctrl
<1>2. t \in Tasks(n) /\ Tail(c.chain) \in Seq(Tasks(n))
      /\ Held(c.chain) = Of(t) \cup Held(Tail(c.chain))
  BY <1>1, TailIndex, HeldTail
<1>3. /\ o \in Ctrl(n) /\ o.gen = c.gen /\ o.pc = c.pc /\ o.remote = c.remote
      /\ o.pending = c.pending /\ o.chain = Tail(c.chain) /\ o.signaling = c.signaling
      /\ o.received = c.received /\ o.applied = c.applied /\ o.received \in SUBSET Candidate(n)
  BY <1>2 DEF Ctrl
<1>4. Alive(o) /\ NoneForgotten(o)
  BY <1>3 DEF CtrlOK, Alive, NoneForgotten, Ctrl
<1>5. o.received \ o.applied \subseteq Held(o.chain) \cup Of(t) \cup ToSet(o.pending)
  BY <1>2, <1>3 DEF CtrlOK, NothingLost
<1>6. t.op # "add" => NothingLost(o)
  BY <1>2, <1>3, <1>5, StepHasNone DEF NothingLost
<1> QED BY <1>2, <1>3, <1>4, <1>5, <1>6

LEMMA AfterAddIsOK ==
  ASSUME NEW n \in Nat, NEW c \in Ctrl(n), Alive(c), NoneForgotten(c), NEW t \in Tasks(n),
         c.received \ c.applied \subseteq
           Held(c.chain) \cup ToSet(t.rest) \cup ToSet(c.pending)
  PROVE  Good(n, AfterAdd(c, t)) /\ AfterAdd(c, t).gen = c.gen
<1>1. t.rest \in Seq(Candidate(n)) /\ t.then \in {"answer", "end", "flush"}
  BY DEF Tasks
<1>2. CASE t.rest # <<>>
  <2> DEFINE u == Task("add", Head(t.rest), Tail(t.rest), t.then)
  <2>1. /\ Head(t.rest) \in Candidate(n) /\ Tail(t.rest) \in Seq(Candidate(n))
        /\ ToSet(t.rest) = {Head(t.rest)} \cup ToSet(Tail(t.rest))
    BY <1>1, <1>2, TailIndex, HeadTailSet
  <2>2. u \in Tasks(n) /\ Of(u) = ToSet(t.rest)
    BY <1>1, <2>1 DEF Task, Tasks, Ops, Candidate, Of
  <2>3. AfterAdd(c, t) = Ask(c, u)
    BY <1>2 DEF AfterAdd
  <2> HIDE DEF u
  <2> QED BY <2>2, <2>3, AskIsOK
<1>3. CASE t.rest = <<>>
  <2>1. NothingLost(c)
    BY <1>3, EmptySet DEF NothingLost
  <2>2. CASE t.then = "flush"
    BY <1>3, <2>1, <2>2, FlushIsOK DEF AfterAdd
  <2>3. CASE t.then # "flush"
    BY <1>1, <1>3, <2>1, <2>3, ContinueIsOK DEF AfterAdd
  <2> QED BY <2>2, <2>3
<1> QED BY <1>2, <1>3

(* handleSignal of the controller, with one that is there or a new one.    *)
LEMMA SignalIsOK ==
  ASSUME NEW n \in Nat, NEW c, Good(n, c), c.gen # 0, NEW m \in Signal(n)
  PROVE  Good(n, handleSignal(c, m)) /\ handleSignal(c, m).gen = c.gen
<1>1. CASE m.kind \in {"offer", "answer"}
  <2> DEFINE d == WithPc(c)
             op == IF m.kind = "offer" THEN "remoteOffer" ELSE "remoteAnswer"
  <2>1. /\ d \in Ctrl(n) /\ d.gen = c.gen /\ d.pc /\ d.remote = c.remote
        /\ d.pending = c.pending /\ d.chain = c.chain
        /\ d.received = c.received /\ d.applied = c.applied
    BY DEF WithPc, Ctrl, Good
  <2>2. Step(op, m) \in Tasks(n)
    BY <1>1, EmptySeq DEF Step, Task, Tasks, Ops, Signal
  <2>3. handleSignal(c, m) = Ask(d, Step(op, m))
    BY <1>1 DEF handleSignal
  <2>4. Alive(d) /\ NoneForgotten(d) /\ NothingLost(d)
    BY <2>1 DEF Good, CtrlOK, Alive, NoneForgotten, NothingLost
  <2> HIDE DEF d, op
  <2> QED BY <2>1, <2>2, <2>3, <2>4, AskIsOK DEF NothingLost
<1>2. CASE m.kind = "candidate"
  <2> DEFINE d == [c EXCEPT !.received = @ \cup {m}]
  <2>1. /\ d \in Ctrl(n) /\ d.gen = c.gen /\ d.pc = c.pc /\ d.remote = c.remote
        /\ d.pending = c.pending /\ d.chain = c.chain /\ d.local = c.local
        /\ d.received = c.received \cup {m} /\ d.applied = c.applied
        /\ m \in Candidate(n) /\ c.pending \in Seq(Candidate(n))
    BY <1>2 DEF Ctrl, Good, Signal, Candidate
  <2>2. CASE ~c.pc \/ c.remote = 0
    <3> DEFINE e == [d EXCEPT !.pending = Append(@, m)]
    <3>1. handleSignal(c, m) = e
      BY <1>2, <2>2 DEF handleSignal, addRemoteIceCandidate
    <3>2. Append(c.pending, m) \in Seq(Candidate(n))
          /\ ToSet(Append(c.pending, m)) = ToSet(c.pending) \cup {m}
      BY <2>1, AppendProperties, AppendSet
    <3>3. /\ e \in Ctrl(n) /\ e.gen = c.gen /\ e.pc = c.pc /\ e.remote = c.remote
          /\ e.pending = Append(c.pending, m) /\ e.chain = c.chain /\ e.local = c.local
          /\ e.received = c.received \cup {m} /\ e.applied = c.applied
      BY <2>1, <3>2 DEF Ctrl
    <3>4. c.remote = 0 /\ m.gen # 0
      BY <2>1, <2>2 DEF Good, CtrlOK, Candidate, Msg
    <3> HIDE DEF e, d
    <3> QED BY <3>1, <3>2, <3>3, <3>4 DEF Good, CtrlOK, NothingLost
  <2>3. CASE ~(~c.pc \/ c.remote = 0)
    <3> DEFINE t == Task("add", m, <<>>, "flush")
    <3>1. handleSignal(c, m) = Ask(d, t)
      BY <1>2, <2>3 DEF handleSignal, addRemoteIceCandidate
    <3>2. t \in Tasks(n) /\ m \in Of(t)
      BY <1>2, <2>1, EmptySeq DEF Task, Tasks, Ops, Candidate, Of
    <3>3. Alive(d) /\ NoneForgotten(d)
      BY <2>1, <2>3 DEF Good, CtrlOK, Alive, NoneForgotten
    <3> HIDE DEF d, t
    <3> QED BY <2>1, <3>1, <3>2, <3>3, AskIsOK DEF Good, CtrlOK, NothingLost
  <2> QED BY <2>2, <2>3
<1> QED BY <1>1, <1>2 DEF Signal, Signals

LEMMA NewIsOK ==
  ASSUME NEW n \in Nat, NEW gen \in 0..n
  PROVE  Good(n, Controller(gen)) /\ Controller(gen).gen = gen
BY EmptySeq, EmptySet, CallAssumption DEF Controller, Good, Ctrl, CtrlOK, NothingLost

(* A larger bound on the numbers admits all that a smaller one did.        *)
LEMMA MoreControllers ==
  ASSUME NEW n \in Nat, NEW k \in Nat, n <= k
  PROVE  /\ Ctrl(n) \subseteq Ctrl(k)
         /\ Socket(n) \subseteq Socket(k)
         /\ \A c : Good(n, c) => Good(k, c)
         /\ Signal(n) \subseteq Signal(k)
<1>1. Msg(n) \subseteq Msg(k)
  BY DEF Msg
<1>2. Signal(n) \subseteq Signal(k) /\ Candidate(n) \subseteq Candidate(k)
  BY <1>1 DEF Signal, Candidate
<1>3. \A S, T : S \subseteq T => Seq(S) \subseteq Seq(T)
  BY SeqMonotonic
<1>4. Seq(Candidate(n)) \subseteq Seq(Candidate(k))
  BY <1>2, <1>3
<1>5. Tasks(n) \subseteq Tasks(k)
  BY <1>1, <1>4 DEF Tasks
<1>6. Seq(Tasks(n)) \subseteq Seq(Tasks(k))
  BY <1>3, <1>5
<1>7. Seq(Msg(n)) \subseteq Seq(Msg(k)) /\ Seq(Signal(n)) \subseteq Seq(Signal(k))
  BY <1>1, <1>2, <1>3
<1>8. 0..n \subseteq 0..k /\ SUBSET Candidate(n) \subseteq SUBSET Candidate(k)
  BY <1>2
<1>9. Ctrl(n) \subseteq Ctrl(k)
  BY <1>4, <1>6, <1>8 DEF Ctrl
<1>10. Socket(n) \subseteq Socket(k)
  BY <1>7 DEF Socket
<1> QED BY <1>2, <1>9, <1>10 DEF Good

-----------------------------------------------------------------------------
(* The sockets                                                             *)

(* No socket appears, and none that is left comes back.                    *)
Steady ==
  \A s \in Sockets :
    /\ sockets'[s].owner = sockets[s].owner
    /\ sockets'[s].state = "unused" <=> sockets[s].state = "unused"
    /\ sockets'[s].state # "closed" => sockets[s].state # "closed"
    /\ sockets[s].left => sockets'[s].left
    /\ sockets'[s].left => sockets'[s].state \in {"closing", "closed"}

(* Nor does one open, hear a frame or get a handler that relays.           *)
Calm ==
  /\ Steady
  /\ \A s \in Sockets :
       /\ sockets'[s].state = "connecting" => sockets[s].state = "connecting"
       /\ sockets'[s].state = "open" =>
            sockets[s].state = "open" /\ sockets'[s].inbox = sockets[s].inbox
       /\ sockets'[s].state # "open" => sockets'[s].inbox = <<>>
       /\ sockets[s].handler = "none" => sockets'[s].handler = "none"
       /\ InRoom(s)' => InRoom(s)
       /\ sockets'[s].handler = "loop" => sockets[s].handler = "loop"

LEMMA SteadyHeld ==
  ASSUME NEW p \in Roles, HeldOK(p), Steady, panel'[p].conn = panel[p].conn
  PROVE  HeldOK(p)'
BY DEF HeldOK, Steady, Owned

LEMMA OwnedStays ==
  ASSUME Steady, NEW p \in Roles
  PROVE  Owned(p)' = Owned(p) /\ (NeverLeft(p)' => NeverLeft(p))
BY DEF Steady, Owned, NeverLeft

LEMMA CalmSockets ==
  ASSUME SocketsOK, Calm
  PROVE  SocketsOK'
<1>1. \E n \in 0..MaxConnects : \A s \in Sockets : sockets'[s].state = "unused" <=> s > n
  BY DEF SocketsOK, Calm, Steady
<1>2. \A s \in Sockets :
        /\ sockets'[s].state \in {"unused", "connecting"} => sockets'[s].handler = "none"
        /\ sockets'[s].state # "open" => sockets'[s].inbox = <<>>
        /\ sockets'[s].left => sockets'[s].state \in {"closing", "closed"}
  BY DEF SocketsOK, Calm, Steady
<1>3. \A p \in Roles : \A s, t \in Owned(p) : InRoom(s)' /\ InRoom(t)' => s = t
  BY DEF SocketsOK, Calm, Owned
<1>4. \A p \in Roles : Owned(p)' = Owned(p)
  BY OwnedStays DEF Calm
<1> QED BY <1>1, <1>2, <1>3, <1>4 DEF SocketsOK

(* Hearing nothing of it, a page is not told more of the other's leaving.  *)
LEMMA LessGone ==
  ASSUME NEW q, NEW k, NEW before, NEW after,
         after = before \/ after # "disconnected", GoneBy(q, k, after)
  PROVE  GoneBy(q, k, before)
BY DEF GoneBy

LEMMA CalmCall ==
  ASSUME NEW p \in Roles, CallOK(p), Calm,
         \/ panel'[p].presence = panel[p].presence
         \/ panel'[p].presence # "disconnected",
         HasController(p)' => HasController(p) \/ panel'[p].presence # "disconnected"
  PROVE  CallOK(p)'
<1> SUFFICES ASSUME NeverLeft(p)'
             PROVE  /\ panel'[p].presence = "disconnected" => ~HasController(p)'
                    /\ \A s \in Owned(p) :
                         /\ sockets'[s].state = "connecting" =>
                              panel'[p].presence # "disconnected"
                         /\ sockets'[s].state = "open" =>
                              /\ FramesOK(sockets'[s].inbox, panel'[p].presence)
                              /\ Announced(p, s)'
  BY OwnedStays DEF CallOK, Calm
<1>1. NeverLeft(p)
  BY OwnedStays DEF Calm
<1>2. panel'[p].presence = "disconnected" => ~HasController(p)'
  BY <1>1 DEF CallOK
<1>3. ASSUME NEW s \in Owned(p), sockets'[s].state = "open"
      PROVE  FramesOK(sockets'[s].inbox, panel'[p].presence) /\ Announced(p, s)'
  <2>1. s \in Sockets /\ sockets[s].state = "open" /\ sockets'[s].inbox = sockets[s].inbox
    BY <1>3 DEF Calm, Owned
  <2>2. FramesOK(sockets[s].inbox, panel[p].presence) /\ Announced(p, s)
    BY <1>1, <2>1 DEF CallOK
  <2>3. FramesOK(sockets[s].inbox, panel'[p].presence)
    BY <2>2, LessGone DEF FramesOK
  <2>4. Other(p) \in Roles /\ Owned(Other(p))' = Owned(Other(p))
    BY OwnedStays DEF Calm, Other, Roles
  <2>5. InRoom(s)' /\ (\E t \in Owned(Other(p)) : sockets'[t].handler = "loop")
          => InRoom(s) /\ (\E t \in Owned(Other(p)) : sockets[t].handler = "loop")
    BY <2>1 DEF Calm, Owned
  <2>6. Announced(p, s)'
    BY <2>1, <2>2, <2>4, <2>5, LessGone DEF Announced
  <2> QED BY <2>1, <2>3, <2>6
<1>4. ASSUME NEW s \in Owned(p), sockets'[s].state = "connecting"
      PROVE  panel'[p].presence # "disconnected"
  BY <1>1, <1>4 DEF CallOK, Calm, Owned
<1> QED BY <1>2, <1>3, <1>4

(* A page that was never left has one live socket at most.                 *)
LEMMA OneLive ==
  ASSUME IInv, NEW p \in Roles, NeverLeft(p), NEW s \in Owned(p), NEW t \in Owned(p),
         sockets[s].state \in {"connecting", "open"},
         sockets[t].state \in {"connecting", "open"}
  PROVE  s = t
<1>1. HeldOK(p)
  BY DEF IInv
<1> QED BY <1>1 DEF HeldOK, NeverLeft

LEMMA PeerIsThere ==
  ASSUME NEW s \in Sockets
  PROVE  /\ PeerOf(s) # 0 => PeerOf(s) \in Owned(Other(sockets[s].owner)) /\ InRoom(PeerOf(s))
         /\ PeerOf(s) = 0 => \A t \in Owned(Other(sockets[s].owner)) : ~InRoom(t)
<1>1. \A p : \A t \in Owned(p) : t # 0
  BY DEF Owned, Sockets
<1> QED BY <1>1 DEF PeerOf

LEMMA Roles2 ==
  /\ "host" \in Roles /\ "guest" \in Roles
  /\ \A p \in Roles : Other(p) \in Roles /\ Other(p) # p /\ Other(Other(p)) = p
  /\ \A p, q \in Roles : q = p \/ q = Other(p)
BY DEF Roles, Other

-----------------------------------------------------------------------------
(* Steps that are calm                                                     *)

(* The call of one page goes on.                                           *)
LEMMA CalmStep ==
  ASSUME IInv, Calm,
         made' \in Nat, panel' \in [Roles -> Panel], ctrl' \in [Roles -> Ctrl(made')],
         sockets' \in [Sockets -> Socket(made')], starts' \in 0..MaxStarts,
         trouble' \in 0..MaxTrouble,
         \A p \in Roles :
           /\ CtrlOK(ctrl'[p])
           /\ panel'[p].conn = panel[p].conn
           /\ \/ panel'[p].presence = panel[p].presence
              \/ panel'[p].presence # "disconnected"
           /\ HasController(p)' => HasController(p) \/ panel'[p].presence # "disconnected"
           /\ panel'[p].stream => HasController(p)'
  PROVE  IInv'
<1>1. \A p \in Roles : HeldOK(p)'
  BY SteadyHeld DEF Calm, IInv
<1>2. \A p \in Roles : CallOK(p)'
  BY CalmCall DEF IInv
<1> QED BY <1>1, <1>2, CalmSockets DEF IInv, Types

LEMMA SocketsAreCalm ==
  ASSUME IInv, UNCHANGED sockets
  PROVE  Calm
BY DEF Calm, Steady, InRoom, IInv, SocketsOK

(* An operation of the peer connection of p.                               *)
LEMMA CtrlStep ==
  ASSUME IInv, NEW p \in Roles, HasController(p),
         NEW c, Good(made, c), c.gen = ctrl[p].gen, ctrl' = [ctrl EXCEPT ![p] = c],
         panel' \in [Roles -> Panel],
         \A q \in Roles : panel'[q].conn = panel[q].conn
                          /\ panel'[q].presence = panel[q].presence
                          /\ (q # p => panel'[q].stream = panel[q].stream),
         Calm, sockets' \in [Sockets -> Socket(made)],
         UNCHANGED <<made, starts, trouble>>
  PROVE  IInv'
<1>1. ctrl' \in [Roles -> Ctrl(made)] /\ ctrl'[p] = c /\ \A q \in Roles \ {p} : ctrl'[q] = ctrl[q]
  BY DEF IInv, Types, Good
<1>2. \A q \in Roles :
        /\ CtrlOK(ctrl'[q])
        /\ HasController(q)' <=> HasController(q)
        /\ panel'[q].stream => HasController(q)'
  BY <1>1 DEF IInv, Good, HasController
<1> QED BY <1>1, <1>2, CalmStep DEF IInv, Types

(* A signal that goes out waits in the outbox of the socket that is held.  *)
LEMMA SendIsCalm ==
  ASSUME IInv, NEW p \in Roles, CanSend(p), NEW m \in Signal(made), sockets' = Sent(p, m)
  PROVE  Calm /\ sockets' \in [Sockets -> Socket(made)]
<1>1. PICK s \in Sockets : s = panel[p].conn
  BY DEF IInv, HeldOK, Owned, CanSend, IsOpen
<1>2. /\ sockets \in [Sockets -> Socket(made)] /\ sockets[s] \in Socket(made)
      /\ sockets[s].outbox \in Seq(Signal(made))
  BY DEF IInv, Types, Socket
<1>3. Append(sockets[s].outbox, m) \in Seq(Signal(made))
  BY <1>2, AppendProperties
<1>4. sockets' = [sockets EXCEPT ![s].outbox = Append(sockets[s].outbox, m)]
  BY <1>1 DEF Sent
<1>5. sockets' \in [Sockets -> Socket(made)]
  BY <1>2, <1>3, <1>4 DEF Socket
<1>6. \A t \in Sockets :
        /\ sockets'[t].owner = sockets[t].owner /\ sockets'[t].state = sockets[t].state
        /\ sockets'[t].inbox = sockets[t].inbox /\ sockets'[t].handler = sockets[t].handler
        /\ sockets'[t].left = sockets[t].left
  BY <1>2, <1>4 DEF Socket
<1> QED BY <1>5, <1>6 DEF Calm, Steady, InRoom, IInv, SocketsOK

(* The operation that a running chain begins with, and the one it leaves.  *)
LEMMA RunningIsOK ==
  ASSUME IInv, NEW p \in Roles, NEW op, Running(p, op)
  PROVE  /\ made \in Nat /\ HasController(p)
         /\ Over(p) \in Ctrl(made) /\ Asked(p) \in Tasks(made)
         /\ Alive(Over(p)) /\ NoneForgotten(Over(p))
         /\ Over(p).gen = ctrl[p].gen /\ Over(p).signaling = ctrl[p].signaling
         /\ Over(p).received \ Over(p).applied \subseteq
              Held(Over(p).chain) \cup Of(Asked(p)) \cup ToSet(Over(p).pending)
         /\ Asked(p).op = op
         /\ op # "add" => NothingLost(Over(p))
<1>1. made \in Nat /\ ctrl[p] \in Ctrl(made) /\ CtrlOK(ctrl[p])
  BY DEF IInv, Types
<1>2. ctrl[p].chain # <<>> /\ Asked(p).op = op
  BY DEF Running, Asked
<1>3. HasController(p)
  BY <1>1, <1>2 DEF CtrlOK, HasController
<1> QED BY <1>1, <1>2, <1>3, OverIsOK DEF Over, Asked

-----------------------------------------------------------------------------
(* The operations of a peer connection                                     *)

LEMMA OfferCreatedStep == ASSUME IInv, OfferCreated PROVE IInv'
<1> DEFINE c == Over("host")
           t == Step("localOffer", Presence("none"))
<1>1. Running("host", "createOffer") /\ "host" \in Roles
  BY Roles2 DEF OfferCreated
<1>2. /\ c \in Ctrl(made) /\ Alive(c) /\ NoneForgotten(c) /\ NothingLost(c)
      /\ c.gen = ctrl["host"].gen /\ HasController("host") /\ made \in Nat
  BY <1>1, RunningIsOK
<1>3. t \in Tasks(made)
  BY <1>2, PresenceIsMsg
<1>4. Good(made, Ask(c, t)) /\ Ask(c, t).gen = c.gen
  BY <1>2, <1>3, AskIsOK DEF NothingLost
<1>5. ctrl' = [ctrl EXCEPT !["host"] = Ask(c, t)]
  BY DEF OfferCreated, Becomes
<1> HIDE DEF c, t
<1> QED BY <1>1, <1>2, <1>4, <1>5, SocketsAreCalm, CtrlStep DEF OfferCreated, PcOnly, IInv, Types

(* A controller that has set its own description sends it.                 *)
LEMMA LocalIsOK ==
  ASSUME NEW n \in Nat, NEW c \in Ctrl(n), Alive(c), NothingLost(c),
         NEW signaling \in {"stable", "have-local-offer", "have-remote-offer"}
  PROVE  LET d == [c EXCEPT !.signaling = signaling, !.local = TRUE]
         IN /\ d \in Ctrl(n) /\ Alive(d) /\ NothingLost(d) /\ d.gen = c.gen
            /\ d.pending = c.pending /\ d.remote = c.remote
            /\ Good(n, Flush(d, "end")) /\ Flush(d, "end").gen = c.gen
<1> DEFINE d == [c EXCEPT !.signaling = signaling, !.local = TRUE]
<1>1. /\ d \in Ctrl(n) /\ d.gen = c.gen /\ d.pc = c.pc /\ d.remote = c.remote
      /\ d.pending = c.pending /\ d.chain = c.chain
      /\ d.received = c.received /\ d.applied = c.applied
  BY DEF Ctrl
<1>2. Alive(d) /\ NothingLost(d)
  BY <1>1 DEF Alive, NothingLost
<1> HIDE DEF d
<1>3. Good(n, Flush(d, "end")) /\ Flush(d, "end").gen = c.gen
  BY <1>1, <1>2, FlushIsOK
<1> QED BY <1>1, <1>2, <1>3 DEF d

(* Closing a call.                                                         *)
LEMMA CallCloses ==
  ASSUME IInv, NEW p \in Roles, NEW shown \in Panel, closeCall(p, shown)
  PROVE  /\ ctrl' \in [Roles -> Ctrl(made)] /\ panel' \in [Roles -> Panel]
         /\ ~HasController(p)'
         /\ panel'[p].conn = shown.conn /\ panel'[p].presence = shown.presence
         /\ \A q \in Roles : q # p => panel'[q] = panel[q] /\ ctrl'[q] = ctrl[q]
         /\ \A q \in Roles : /\ CtrlOK(ctrl'[q])
                             /\ HasController(q)' => HasController(q)
                             /\ panel'[q].stream => HasController(q)'
<1> DEFINE idle == [shown EXCEPT !.stream = FALSE]
<1>1. idle \in Panel /\ idle.conn = shown.conn /\ idle.presence = shown.presence /\ ~idle.stream
  BY DEF Panel
<1>2. panel' = [panel EXCEPT ![p] = idle] /\ ctrl' = [ctrl EXCEPT ![p] = NoController]
  BY DEF closeCall
<1>3. made \in Nat /\ panel \in [Roles -> Panel] /\ ctrl \in [Roles -> Ctrl(made)]
  BY DEF IInv, Types
<1>4. NoController \in Ctrl(made) /\ CtrlOK(NoController) /\ NoController.gen = 0
  BY <1>3, NewIsOK DEF NoController, Good
<1> HIDE DEF idle
<1> QED BY <1>1, <1>2, <1>3, <1>4 DEF HasController, IInv

LEMMA CloseStep ==
  ASSUME IInv, NEW p \in Roles, NEW shown \in Panel, closeCall(p, shown),
         shown.conn = panel[p].conn,
         shown.presence = panel[p].presence \/ shown.presence # "disconnected",
         Calm, sockets' \in [Sockets -> Socket(made)],
         UNCHANGED <<made, starts>>, trouble' \in 0..MaxTrouble
  PROVE  IInv'
<1>1. \A q \in Roles :
        /\ panel'[q].conn = panel[q].conn
        /\ panel'[q].presence = panel[q].presence \/ panel'[q].presence # "disconnected"
  BY CallCloses
<1>2. made' \in Nat /\ starts' \in 0..MaxStarts
  BY DEF IInv, Types
<1> QED BY <1>1, <1>2, CallCloses, CalmStep

LEMMA OfferSetStep == ASSUME IInv, OfferSet PROVE IInv'
<1> DEFINE o == Over("host")
           c == [o EXCEPT !.signaling = "have-local-offer", !.local = TRUE]
           m == Message("offer", c.gen, 0, c.tracks)
<1>1. Running("host", "localOffer") /\ "host" \in Roles
  BY Roles2 DEF OfferSet
<1>2. /\ o \in Ctrl(made) /\ Alive(o) /\ NothingLost(o) /\ made \in Nat
      /\ o.gen = ctrl["host"].gen /\ HasController("host")
  BY <1>1, RunningIsOK
<1>3. /\ c \in Ctrl(made) /\ c.gen = o.gen
      /\ Good(made, Flush(c, "end")) /\ Flush(c, "end").gen = c.gen
  BY <1>2, LocalIsOK
<1>4. CASE CanSend("host") /\ sockets' = Sent("host", m)
           /\ Becomes("host", Flush(c, "end")) /\ UNCHANGED panel
  <2>1. m \in Signal(made)
    BY <1>2, <1>3 DEF Message, Signal, Msg, Kinds, Signals, Ctrl
  <2>2. Calm /\ sockets' \in [Sockets -> Socket(made)]
    BY <1>1, <1>4, <2>1, SendIsCalm
  <2>3. ctrl' = [ctrl EXCEPT !["host"] = Flush(c, "end")]
    BY <1>4 DEF Becomes
  <2> HIDE DEF c, m, o
  <2> QED BY <1>1, <1>2, <1>3, <1>4, <2>2, <2>3, CtrlStep DEF OfferSet, IInv, Types
<1>5. CASE closeCall("host", panel["host"]) /\ UNCHANGED sockets
  <2>1. panel["host"] \in Panel /\ sockets' \in [Sockets -> Socket(made)]
        /\ UNCHANGED <<made, starts>> /\ trouble' \in 0..MaxTrouble
    BY <1>1, <1>5 DEF IInv, Types, OfferSet
  <2> QED BY <1>1, <1>5, <2>1, SocketsAreCalm, CloseStep
<1> QED BY <1>4, <1>5 DEF OfferSet

(* The description of the other one is set.                                *)
LEMMA DescriptionStep ==
  ASSUME IInv, NEW p \in Roles, NEW op, Running(p, op), op # "add",
         NEW signaling \in {"stable", "have-local-offer", "have-remote-offer"},
         NEW then \in {"answer", "end"},
         TakeDescription(p, [Over(p) EXCEPT !.signaling = signaling], then)
  PROVE  IInv'
<1> DEFINE o == Over(p)
           c == [o EXCEPT !.signaling = signaling]
           d == [c EXCEPT !.remote = Asked(p).m.gen]
           x == panel[p].stream \/ Asked(p).m.tracks
<1>1. /\ o \in Ctrl(made) /\ Alive(o) /\ NothingLost(o) /\ made \in Nat
      /\ o.gen = ctrl[p].gen /\ HasController(p) /\ Asked(p) \in Tasks(made)
  BY RunningIsOK
<1>2. Asked(p).m.gen \in 0..made /\ Asked(p).m.tracks \in BOOLEAN
  BY <1>1 DEF Tasks, Msg
<1>3. /\ d \in Ctrl(made) /\ d.gen = o.gen /\ d.pc = o.pc /\ d.pending = o.pending
      /\ d.chain = o.chain /\ d.received = o.received /\ d.applied = o.applied
  BY <1>1, <1>2 DEF Ctrl
<1>4. Alive(d) /\ NothingLost(d)
  BY <1>1, <1>3 DEF Alive, NothingLost
<1>5. /\ ctrl' = [ctrl EXCEPT ![p] = Flush(d, then)]
      /\ panel' = [panel EXCEPT ![p].stream = x]
      /\ UNCHANGED <<sockets, made, starts, trouble>>
  BY DEF TakeDescription, Becomes
<1>6. panel \in [Roles -> Panel] /\ panel[p] \in Panel /\ x \in BOOLEAN
  BY <1>2 DEF IInv, Types, Panel
<1> HIDE DEF d, x, o
<1>7. Good(made, Flush(d, then)) /\ Flush(d, then).gen = d.gen
  BY <1>1, <1>3, <1>4, FlushIsOK
<1>8. /\ panel' \in [Roles -> Panel]
      /\ \A q \in Roles : panel'[q].conn = panel[q].conn
                          /\ panel'[q].presence = panel[q].presence
                          /\ (q # p => panel'[q].stream = panel[q].stream)
  BY <1>5, <1>6 DEF Panel
<1>9. sockets' \in [Sockets -> Socket(made)]
  BY <1>5 DEF IInv, Types
<1> QED BY <1>1, <1>3, <1>5, <1>7, <1>8, <1>9, SocketsAreCalm, CtrlStep

LEMMA OfferTakenStep == ASSUME IInv, OfferTaken PROVE IInv'
BY Roles2, DescriptionStep DEF OfferTaken

LEMMA AnswerTakenStep == ASSUME IInv, AnswerTaken PROVE IInv'
<1>1. Running("host", "remoteAnswer") /\ "host" \in Roles
  BY Roles2 DEF AnswerTaken
<1>2. CASE TakeDescription("host", [Over("host") EXCEPT !.signaling = "stable"], "end")
  BY <1>1, <1>2, DescriptionStep
<1>3. CASE Becomes("host", Over("host")) /\ PcOnly
  <2>1. /\ Good(made, Over("host")) /\ HasController("host")
        /\ Over("host").gen = ctrl["host"].gen
    BY <1>1, RunningIsOK, AliveIsOK DEF Good
  <2>2. ctrl' = [ctrl EXCEPT !["host"] = Over("host")]
    BY <1>3 DEF Becomes
  <2> QED BY <1>1, <1>3, <2>1, <2>2, SocketsAreCalm, CtrlStep DEF PcOnly, IInv, Types
<1> QED BY <1>2, <1>3 DEF AnswerTaken

LEMMA AnswerCreatedStep == ASSUME IInv, AnswerCreated PROVE IInv'
<1> DEFINE c == Over("guest")
           t == Step("localAnswer", Message("of", 0, c.remote, FALSE))
           d == IF c.signaling = "have-remote-offer" THEN Ask(c, t) ELSE c
<1>1. Running("guest", "createAnswer") /\ "guest" \in Roles
  BY Roles2 DEF AnswerCreated
<1>2. /\ c \in Ctrl(made) /\ Alive(c) /\ NoneForgotten(c) /\ NothingLost(c)
      /\ c.gen = ctrl["guest"].gen /\ HasController("guest") /\ made \in Nat
  BY <1>1, RunningIsOK
<1>3. t \in Tasks(made)
  BY <1>2, EmptySeq DEF Step, Task, Tasks, Ops, Message, Msg, Kinds, Ctrl
<1>4. Good(made, c) /\ Good(made, Ask(c, t)) /\ Ask(c, t).gen = c.gen
  BY <1>2, <1>3, AskIsOK, AliveIsOK DEF NothingLost, Good
<1>5. Good(made, d) /\ d.gen = c.gen
  BY <1>4
<1>6. ctrl' = [ctrl EXCEPT !["guest"] = d]
  BY DEF AnswerCreated, Becomes
<1> HIDE DEF c, t, d
<1> QED BY <1>1, <1>2, <1>5, <1>6, SocketsAreCalm, CtrlStep
        DEF AnswerCreated, PcOnly, IInv, Types

LEMMA AnswerSetStep == ASSUME IInv, AnswerSet PROVE IInv'
<1> DEFINE c == Over("guest")
           set == [c EXCEPT !.signaling = "stable", !.local = TRUE]
           m == Message("answer", c.gen, Asked("guest").m.of, c.tracks)
<1>1. Running("guest", "localAnswer") /\ "guest" \in Roles
  BY Roles2 DEF AnswerSet
<1>2. /\ c \in Ctrl(made) /\ Alive(c) /\ NothingLost(c) /\ NoneForgotten(c) /\ made \in Nat
      /\ c.gen = ctrl["guest"].gen /\ HasController("guest")
      /\ Asked("guest") \in Tasks(made)
  BY <1>1, RunningIsOK
<1>3. /\ set \in Ctrl(made) /\ set.gen = c.gen /\ Alive(set) /\ NothingLost(set)
      /\ set.pending = c.pending /\ set.remote = c.remote
      /\ Good(made, Flush(set, "end")) /\ Flush(set, "end").gen = set.gen
  BY <1>2, LocalIsOK
<1>4. Good(made, c) /\ Good(made, set)
  BY <1>2, <1>3, AliveIsOK DEF Good, NoneForgotten
<1>5. m \in Signal(made)
  BY <1>2 DEF Message, Signal, Msg, Kinds, Signals, Ctrl, Tasks
<1>6. PICK d \in {c, set, Flush(set, "end")} :
        /\ Becomes("guest", d)
        /\ UNCHANGED sockets \/ (CanSend("guest") /\ sockets' = Sent("guest", m))
  BY DEF AnswerSet
<1>7. Good(made, d) /\ d.gen = ctrl["guest"].gen /\ ctrl' = [ctrl EXCEPT !["guest"] = d]
  BY <1>2, <1>3, <1>4, <1>6 DEF Becomes
<1> HIDE DEF c, set, m
<1>8. Calm /\ sockets' \in [Sockets -> Socket(made)]
  BY <1>1, <1>5, <1>6, SendIsCalm, SocketsAreCalm DEF IInv, Types
<1> QED BY <1>1, <1>2, <1>7, <1>8, CtrlStep DEF AnswerSet, IInv, Types

LEMMA CandidateAddedStep ==
  ASSUME IInv, NEW p \in Roles, CandidateAdded(p)
  PROVE  IInv'
<1> DEFINE o == Over(p)
           t == Asked(p)
           a == Applied(o, t.m)
           w == [o EXCEPT !.pending = Append(@, t.m)]
<1>1. Running(p, "add")
  BY DEF CandidateAdded
<1>2. /\ o \in Ctrl(made) /\ Alive(o) /\ NoneForgotten(o) /\ made \in Nat
      /\ o.gen = ctrl[p].gen /\ HasController(p) /\ t \in Tasks(made) /\ t.op = "add"
      /\ o.received \ o.applied \subseteq Held(o.chain) \cup Of(t) \cup ToSet(o.pending)
  BY <1>1, RunningIsOK
<1>3. t.m \in Candidate(made) /\ Of(t) = {t.m} \cup ToSet(t.rest)
      /\ o.pending \in Seq(Candidate(made))
  BY <1>2 DEF Tasks, Candidate, Of, Ctrl
<1>4. PICK d \in {a, w} : /\ ctrl' = [ctrl EXCEPT ![p] = AfterAdd(d, t)]
                          /\ d = w => t.m.gen # o.remote \/ d = a
  BY DEF CandidateAdded, Becomes
<1>5. CASE d = a
  <2>1. /\ a \in Ctrl(made) /\ a.gen = o.gen /\ a.pc = o.pc /\ a.remote = o.remote
        /\ a.pending = o.pending /\ a.chain = o.chain
        /\ a.received = o.received /\ a.applied = o.applied \cup {t.m}
    BY <1>2, <1>3 DEF Applied, Ctrl
  <2>2. Alive(a) /\ NoneForgotten(a)
    BY <1>2, <2>1 DEF Alive, NoneForgotten
  <2>3. a.received \ a.applied \subseteq Held(a.chain) \cup ToSet(t.rest) \cup ToSet(a.pending)
    BY <1>2, <1>3, <2>1
  <2> HIDE DEF a, o, t
  <2>4. Good(made, AfterAdd(d, t)) /\ AfterAdd(d, t).gen = ctrl[p].gen
    BY <1>2, <1>5, <2>1, <2>2, <2>3, AfterAddIsOK
  <2> QED BY <1>2, <1>4, <2>4, SocketsAreCalm, CtrlStep DEF CandidateAdded, PcOnly, IInv, Types
<1>6. CASE d = w /\ t.m.gen # o.remote
  <2>1. Append(o.pending, t.m) \in Seq(Candidate(made))
        /\ ToSet(Append(o.pending, t.m)) = ToSet(o.pending) \cup {t.m}
    BY <1>3, AppendProperties, AppendSet
  <2>2. /\ w \in Ctrl(made) /\ w.gen = o.gen /\ w.pc = o.pc /\ w.remote = o.remote
        /\ w.pending = Append(o.pending, t.m) /\ w.chain = o.chain
        /\ w.received = o.received /\ w.applied = o.applied
    BY <1>2, <2>1 DEF Ctrl
  <2>3. Alive(w) /\ NoneForgotten(w)
    BY <1>2, <1>6, <2>1, <2>2 DEF Alive, NoneForgotten
  <2>4. w.received \ w.applied \subseteq Held(w.chain) \cup ToSet(t.rest) \cup ToSet(w.pending)
    BY <1>2, <1>3, <2>1, <2>2
  <2> HIDE DEF w, o, t
  <2>5. Good(made, AfterAdd(d, t)) /\ AfterAdd(d, t).gen = ctrl[p].gen
    BY <1>2, <1>6, <2>2, <2>3, <2>4, AfterAddIsOK
  <2> QED BY <1>2, <1>4, <2>5, SocketsAreCalm, CtrlStep DEF CandidateAdded, PcOnly, IInv, Types
<1> QED BY <1>4, <1>5, <1>6

LEMMA LocalCandidateStep ==
  ASSUME IInv, NEW p \in Roles, LocalCandidate(p)
  PROVE  IInv'
<1> DEFINE c == ctrl[p]
           d == [c EXCEPT !.gathered = @ + 1]
           m == Message("candidate", c.gen, c.gathered + 1, FALSE)
<1>1. made \in Nat /\ Good(made, c) /\ c \in Ctrl(made) /\ CtrlOK(c)
  BY DEF IInv, Types, Good
<1>2. c.local /\ c.gathered < MaxCandidates /\ ctrl' = [ctrl EXCEPT ![p] = d]
  BY DEF LocalCandidate, Becomes
<1>3. c.gen # 0 /\ HasController(p)
  BY <1>1, <1>2 DEF CtrlOK, HasController
<1>4. /\ d \in Ctrl(made) /\ d.gen = c.gen /\ d.pc = c.pc /\ d.remote = c.remote
      /\ d.pending = c.pending /\ d.chain = c.chain /\ d.local = c.local
      /\ d.received = c.received /\ d.applied = c.applied
  <2>1. c.gathered \in 0..MaxCandidates /\ MaxCandidates \in Nat
    BY <1>1, CallAssumption DEF Ctrl
  <2>2. c.gathered + 1 \in 0..MaxCandidates
    BY <1>2, <2>1
  <2> HIDE DEF c
  <2> QED BY <1>1, <2>2 DEF Ctrl
<1>5. m \in Signal(made)
  BY <1>1, <1>3 DEF Message, Signal, Msg, Kinds, Signals, Ctrl
<1>6. UNCHANGED sockets \/ (CanSend(p) /\ sockets' = Sent(p, m))
  BY DEF LocalCandidate
<1>7. Good(made, d)
  BY <1>1, <1>4 DEF Good, CtrlOK, NothingLost
<1> HIDE DEF c, d, m
<1>8. Calm /\ sockets' \in [Sockets -> Socket(made)]
  BY <1>5, <1>6, SendIsCalm, SocketsAreCalm DEF IInv, Types
<1>9. c.gen = ctrl[p].gen
  BY DEF c
<1> QED BY <1>2, <1>3, <1>4, <1>7, <1>8, <1>9, CtrlStep DEF LocalCandidate, IInv, Types

-----------------------------------------------------------------------------
(* What a page is asked to do                                              *)

LEMMA Disturbed ==
  ASSUME IInv, Disturb
  PROVE  trouble' \in 0..MaxTrouble
BY CallAssumption DEF IInv, Types, Disturb

LEMMA StatusStep ==
  ASSUME IInv, NEW p \in Roles, panel' = [panel EXCEPT ![p].status = "error"],
         UNCHANGED <<ctrl, sockets, made, starts, trouble>>
  PROVE  IInv'
<1>1. made \in Nat /\ panel \in [Roles -> Panel]
  BY DEF IInv, Types
<1>2. /\ panel' \in [Roles -> Panel]
      /\ \A q \in Roles : panel'[q].conn = panel[q].conn
                          /\ panel'[q].presence = panel[q].presence
                          /\ panel'[q].stream = panel[q].stream
  BY <1>1 DEF Panel
<1>3. \A q \in Roles : CtrlOK(ctrl'[q]) /\ (HasController(q)' <=> HasController(q))
  BY DEF IInv, HasController
<1>4. \A q \in Roles : panel'[q].stream => HasController(q)'
  BY <1>2, <1>3 DEF IInv
<1> QED BY <1>1, <1>2, <1>3, <1>4, SocketsAreCalm, CalmStep DEF IInv, Types

LEMMA ConnectRefusedStep ==
  ASSUME IInv, NEW p \in Roles, handleConnectRefused(p)
  PROVE  IInv'
BY StatusStep DEF handleConnectRefused

LEMMA SendTestSignalStep ==
  ASSUME IInv, NEW p \in Roles, handleSendTestSignal(p)
  PROVE  IInv'
BY StatusStep DEF handleSendTestSignal

LEMMA CloseWebRtcStep ==
  ASSUME IInv, NEW p \in Roles, handleCloseWebRtc(p)
  PROVE  IInv'
<1>1. panel[p] \in Panel /\ sockets' \in [Sockets -> Socket(made)]
      /\ UNCHANGED <<sockets, made, starts>> /\ trouble' \in 0..MaxTrouble
  BY Disturbed DEF IInv, Types, handleCloseWebRtc
<1> QED BY <1>1, SocketsAreCalm, CloseStep DEF handleCloseWebRtc

(* A socket that is closed, or breaks, with what it had on its way out.    *)
LEMMA ClosingIsCalm ==
  ASSUME IInv, NEW s \in Sockets, sockets[s].state \in {"connecting", "open"},
         NEW kept \in {<<>>, sockets[s].outbox},
         sockets' = [sockets EXCEPT ![s].state = "closing", ![s].inbox = <<>>,
                                    ![s].outbox = kept]
  PROVE  Calm /\ sockets' \in [Sockets -> Socket(made)]
<1>1. /\ sockets \in [Sockets -> Socket(made)] /\ sockets[s] \in Socket(made)
      /\ kept \in Seq(Signal(made))
  BY EmptySeq DEF IInv, Types, Socket
<1>2. sockets' \in [Sockets -> Socket(made)]
  BY <1>1, EmptySeq DEF Socket
<1>3. /\ sockets'[s].state = "closing" /\ sockets'[s].inbox = <<>>
      /\ sockets'[s].owner = sockets[s].owner /\ sockets'[s].handler = sockets[s].handler
      /\ sockets'[s].left = sockets[s].left
      /\ \A t \in Sockets : t # s => sockets'[t] = sockets[t]
  BY <1>1 DEF Socket
<1> QED BY <1>2, <1>3 DEF Calm, Steady, InRoom, IInv, SocketsOK

LEMMA CloseSocketIsCalm ==
  ASSUME IInv, NEW s \in {0} \cup Sockets, sockets' = CloseSocket(s)
  PROVE  Calm /\ sockets' \in [Sockets -> Socket(made)]
<1>1. CASE s # 0 /\ sockets[s].state \in {"connecting", "open"}
  <2>1. s \in Sockets /\ sockets[s] \in Socket(made)
    BY <1>1 DEF IInv, Types
  <2>2. sockets' = [sockets EXCEPT ![s].state = "closing", ![s].inbox = <<>>,
                                   ![s].outbox = sockets[s].outbox]
    BY <1>1, <2>1 DEF CloseSocket, Socket, IInv, Types
  <2> QED BY <1>1, <2>1, <2>2, ClosingIsCalm
<1>2. CASE ~(s # 0 /\ sockets[s].state \in {"connecting", "open"})
  BY <1>2, SocketsAreCalm DEF CloseSocket, IInv, Types
<1> QED BY <1>1, <1>2

LEMMA DisconnectStep ==
  ASSUME IInv, NEW p \in Roles, handleDisconnect(p)
  PROVE  IInv'
<1> DEFINE shown == [panel[p] EXCEPT !.status = "closing", !.presence = "unknown"]
<1>1. CASE Gone(p) /\ panel' = [panel EXCEPT ![p].status = "error"]
           /\ UNCHANGED <<ctrl, sockets, trouble>>
  BY <1>1, StatusStep DEF handleDisconnect
<1>2. CASE Disturb /\ sockets' = CloseSocket(panel[p].conn) /\ closeCall(p, shown)
  <2>1. shown \in Panel /\ shown.conn = panel[p].conn /\ shown.presence = "unknown"
    BY DEF IInv, Types, Panel
  <2>2. Calm /\ sockets' \in [Sockets -> Socket(made)]
    BY <1>2, CloseSocketIsCalm DEF IInv, HeldOK, Owned
  <2>3. UNCHANGED <<made, starts>> /\ trouble' \in 0..MaxTrouble
    BY <1>2, Disturbed DEF handleDisconnect
  <2> HIDE DEF shown
  <2> QED BY <1>2, <2>1, <2>2, <2>3, CloseStep
<1> QED BY <1>1, <1>2 DEF handleDisconnect

LEMMA StartWebRtcStep == ASSUME IInv, handleStartWebRtc PROVE IInv'
<1> DEFINE n == made + 1
           c == WithPc(Controller(n))
           d == attachLocalMediaTracks(c, "host")
           t == Step("createOffer", Presence("none"))
<1>1. made \in Nat /\ n \in Nat /\ made <= n /\ n \in 0..n /\ n # 0 /\ "host" \in Roles
  BY Roles2 DEF IInv, Types
<1>2. Good(n, Controller(n)) /\ Controller(n).gen = n
  BY <1>1, NewIsOK
<1>3. /\ c \in Ctrl(n) /\ c.gen = n /\ c.pc /\ c.remote = Controller(n).remote
      /\ c.pending = Controller(n).pending /\ c.chain = Controller(n).chain
      /\ c.received = Controller(n).received /\ c.applied = Controller(n).applied
  BY <1>2 DEF WithPc, Ctrl, Good
<1>4. Alive(c) /\ NoneForgotten(c) /\ NothingLost(c)
  BY <1>1, <1>2, <1>3 DEF Good, CtrlOK, Alive, NoneForgotten, NothingLost
<1>5. d \in Ctrl(n) /\ d.gen = n /\ Alive(d) /\ NoneForgotten(d) /\ NothingLost(d)
  BY <1>1, <1>3, <1>4, AttachIsOK DEF Alive, NoneForgotten, NothingLost
<1>6. t \in Tasks(n)
  BY <1>1, PresenceIsMsg
<1>7. Good(n, Ask(d, t)) /\ Ask(d, t).gen = n
  BY <1>1, <1>5, <1>6, AskIsOK DEF NothingLost
<1>8. /\ ctrl' = [ctrl EXCEPT !["host"] = Ask(d, t)] /\ made' = n
      /\ panel["host"].presence = "connected" /\ UNCHANGED <<panel, sockets, trouble>>
      /\ starts < MaxStarts /\ starts' = starts + 1
  BY DEF handleStartWebRtc
<1> HIDE DEF n, c, d, t
<1>9. ctrl' \in [Roles -> Ctrl(n)] /\ sockets' \in [Sockets -> Socket(n)]
  BY <1>1, <1>7, <1>8, MoreControllers DEF IInv, Types, Good
<1>10. starts' \in 0..MaxStarts
  BY <1>8, CallAssumption DEF IInv, Types
<1>11. \A q \in Roles : /\ CtrlOK(ctrl'[q])
                        /\ HasController(q)' <=> HasController(q) \/ q = "host"
  BY <1>1, <1>7, <1>8 DEF IInv, Types, Good, HasController
<1>12. \A q \in Roles :
         /\ HasController(q)' => HasController(q) \/ panel'[q].presence # "disconnected"
         /\ panel'[q].stream => HasController(q)'
  BY <1>8, <1>11 DEF IInv
<1> QED BY <1>1, <1>8, <1>9, <1>10, <1>11, <1>12, SocketsAreCalm, CalmStep DEF IInv, Types

LEMMA RejoinStep == ASSUME IInv, Rejoin PROVE IInv'
<1>0. PICK s \in Sockets : s = panel["guest"].conn /\ s \in Owned("guest")
  BY Roles2 DEF IInv, HeldOK, Rejoin, Owned
<1> DEFINE closed == CloseSocket(s)
<1>1. "guest" \in Roles /\ s \in Owned("guest") /\ s \in Sockets /\ HeldOK("guest")
      /\ s # 0 /\ s = panel["guest"].conn
  BY <1>0, Roles2 DEF IInv, Rejoin
<1>2. /\ sockets \in [Sockets -> Socket(made)] /\ made \in Nat
      /\ starts \in 0..MaxStarts
  BY DEF IInv, Types
<1>3. /\ closed \in [Sockets -> Socket(made)]
      /\ \A t \in Sockets : t # s => closed[t] = sockets[t]
      /\ closed[s].owner = sockets[s].owner /\ closed[s].handler = sockets[s].handler
      /\ closed[s].state \in {"closing", "closed"} /\ closed[s].inbox = <<>>
      /\ closed[s].state # "closed" => sockets[s].state # "closed"
  <2>1. CASE sockets[s].state \in {"connecting", "open"}
    <3>1. closed = [sockets EXCEPT ![s].state = "closing", ![s].inbox = <<>>]
          /\ sockets[s] \in Socket(made)
      BY <1>1, <1>2, <2>1 DEF CloseSocket
    <3> HIDE DEF closed
    <3> QED BY <1>1, <1>2, <2>1, <3>1, EmptySeq DEF Socket
  <2>2. CASE sockets[s].state \notin {"connecting", "open"}
    <3>1. sockets[s].state \in {"closing", "closed"} /\ sockets[s].inbox = <<>>
      BY <1>1, <1>2, <2>2 DEF Socket, Owned, IInv, SocketsOK
    <3> QED BY <1>1, <1>2, <2>2, <3>1 DEF CloseSocket
  <2> QED BY <2>1, <2>2
<1>4. sockets' = [closed EXCEPT ![s].left = TRUE]
  BY <1>0 DEF Rejoin
<1> HIDE DEF closed
<1>5. sockets' \in [Sockets -> Socket(made)]
  <2>1. closed[s] \in Socket(made)
    BY <1>3
  <2>2. [closed[s] EXCEPT !.left = TRUE] \in Socket(made)
    BY <2>1 DEF Socket
  <2>3. sockets' = [closed EXCEPT ![s] = [closed[s] EXCEPT !.left = TRUE]]
    BY <1>4
  <2> QED BY <1>3, <2>2, <2>3
<1>6. /\ \A t \in Sockets : t # s => sockets'[t] = sockets[t]
      /\ sockets'[s].owner = sockets[s].owner /\ sockets'[s].handler = sockets[s].handler
      /\ sockets'[s].state \in {"closing", "closed"} /\ sockets'[s].inbox = <<>>
      /\ sockets'[s].left
      /\ sockets'[s].state # "closed" => sockets[s].state # "closed"
  BY <1>1, <1>3, <1>4 DEF Socket
<1>7. Calm
  BY <1>1, <1>6 DEF Calm, Steady, InRoom, IInv, SocketsOK, Owned
<1>8. IdlePanel \in Panel /\ IdlePanel.conn = 0 /\ IdlePanel.presence = "unknown"
  BY DEF IdlePanel, Panel
<1>9. /\ closeCall("guest", IdlePanel) /\ UNCHANGED <<made, starts>>
      /\ trouble' \in 0..MaxTrouble
  BY Disturbed DEF Rejoin
<1>10. /\ ctrl' \in [Roles -> Ctrl(made)] /\ panel' \in [Roles -> Panel]
       /\ panel'["guest"].conn = 0 /\ panel'["guest"].presence = "unknown"
       /\ \A q \in Roles : q # "guest" => panel'[q] = panel[q] /\ ctrl'[q] = ctrl[q]
       /\ \A q \in Roles : /\ CtrlOK(ctrl'[q])
                           /\ HasController(q)' => HasController(q)
                           /\ panel'[q].stream => HasController(q)'
  BY <1>1, <1>8, <1>9, CallCloses
<1>11. HeldOK("guest")'
  <2>1. Owned("guest")' = Owned("guest") /\ \A t \in Owned("guest") : t \in Sockets
    BY <1>1, <1>7, OwnedStays DEF Calm, Owned
  <2>2. ASSUME NEW u \in Owned("guest"), sockets'[u].state # "closed"
        PROVE  \E t \in Owned("guest") : t <= u /\ sockets'[t].left
    <3>1. CASE u = s
      BY <1>1, <1>6, <3>1 DEF Sockets
    <3>2. CASE u # s
      <4>1. PICK t \in Owned("guest") : t <= u /\ sockets[t].left
        BY <1>1, <2>1, <2>2, <3>2, <1>6 DEF HeldOK
      <4> QED BY <1>6, <2>1, <4>1
    <3> QED BY <3>1, <3>2
  <2> QED BY <1>10, <2>1, <2>2 DEF HeldOK
<1>12. \A q \in Roles : HeldOK(q)'
  BY <1>7, <1>10, <1>11, SteadyHeld DEF Calm, IInv
<1>13. \A q \in Roles : CallOK(q)'
  BY <1>7, <1>10, CalmCall DEF IInv
<1> QED BY <1>2, <1>5, <1>7, <1>9, <1>10, <1>12, <1>13, CalmSockets DEF IInv, Types

LEMMA SocketBreaksStep ==
  ASSUME IInv, NEW s \in Sockets, SocketBreaks(s)
  PROVE  IInv'
<1>1. Calm /\ sockets' \in [Sockets -> Socket(made)]
  BY ClosingIsCalm DEF SocketBreaks
<1>2. trouble' \in 0..MaxTrouble
  BY Disturbed DEF SocketBreaks, IInv, Types
<1>3. UNCHANGED <<panel, ctrl, made, starts>>
  BY DEF SocketBreaks
<1>4. \A q \in Roles : /\ CtrlOK(ctrl'[q]) /\ (HasController(q)' <=> HasController(q))
                       /\ panel'[q].stream => HasController(q)'
  BY <1>3 DEF IInv, HasController
<1> QED BY <1>1, <1>2, <1>3, <1>4, CalmStep DEF IInv, Types

LEMMA SocketClosedStep ==
  ASSUME IInv, NEW s \in Sockets, SocketClosed(s)
  PROVE  IInv'
<1>0. PICK p \in Roles : p = sockets[s].owner
  BY DEF IInv, Types, Socket
<1> DEFINE shown == [panel[p] EXCEPT !.conn = 0, !.status = "closed"]
<1>1. /\ sockets \in [Sockets -> Socket(made)] /\ made \in Nat /\ panel \in [Roles -> Panel]
      /\ starts \in 0..MaxStarts /\ trouble \in 0..MaxTrouble
  BY DEF IInv, Types
<1>2. p \in Roles /\ s \in Owned(p) /\ sockets[s].state = "closing" /\ HeldOK(p)
  BY <1>0, <1>1 DEF SocketClosed, Owned, IInv
<1>3. shown \in Panel /\ shown.conn = 0 /\ shown.presence = panel[p].presence
  BY <1>1, <1>2 DEF Panel
<1>4. /\ sockets' = [sockets EXCEPT ![s].state = "closed"] /\ closeCall(p, shown)
      /\ UNCHANGED <<made, starts, trouble>>
  BY <1>0 DEF SocketClosed
<1> HIDE DEF shown
<1>5. /\ sockets' \in [Sockets -> Socket(made)]
      /\ sockets'[s].state = "closed" /\ sockets'[s].inbox = sockets[s].inbox
      /\ sockets'[s].owner = sockets[s].owner /\ sockets'[s].handler = sockets[s].handler
      /\ sockets'[s].left = sockets[s].left
      /\ \A t \in Sockets : t # s => sockets'[t] = sockets[t]
  BY <1>1, <1>4 DEF Socket
<1>6. Calm
  BY <1>2, <1>5 DEF Calm, Steady, InRoom, IInv, SocketsOK
<1>7. /\ ctrl' \in [Roles -> Ctrl(made)] /\ panel' \in [Roles -> Panel]
      /\ panel'[p].conn = 0 /\ panel'[p].presence = panel[p].presence
      /\ \A q \in Roles : q # p => panel'[q] = panel[q] /\ ctrl'[q] = ctrl[q]
      /\ \A q \in Roles : /\ CtrlOK(ctrl'[q])
                          /\ HasController(q)' => HasController(q)
                          /\ panel'[q].stream => HasController(q)'
  BY <1>2, <1>3, <1>4, CallCloses
<1>8. HeldOK(p)'
  <2>1. Owned(p)' = Owned(p) /\ \A t \in Owned(p) : t \in Sockets
    BY <1>2, <1>6, OwnedStays DEF Calm, Owned
  <2>2. ASSUME NEW u \in Owned(p), sockets'[u].state # "closed"
        PROVE  \E t \in Owned(p) : t <= u /\ sockets'[t].left
    <3>1. u # s /\ sockets[u].state # "closed"
      BY <1>5, <2>1, <2>2
    <3>2. CASE panel[p].conn # u
      <4>1. PICK t \in Owned(p) : t <= u /\ sockets[t].left
        BY <1>2, <3>1, <3>2 DEF HeldOK
      <4> QED BY <1>5, <2>1, <4>1
    <3>3. CASE panel[p].conn = u
      <4>1. PICK t \in Owned(p) : t <= s /\ sockets[t].left
        BY <1>2, <3>1, <3>3 DEF HeldOK
      <4>2. s <= u
        BY <1>2, <2>1, <3>3 DEF HeldOK, Sockets
      <4>3. t <= u
        <5>1. t \in Int /\ s \in Int /\ u \in Int
          BY <2>1 DEF Sockets
        <5> QED BY <4>1, <4>2, <5>1
      <4> QED BY <1>5, <2>1, <4>1, <4>3
    <3> QED BY <3>2, <3>3
  <2> QED BY <1>7, <2>1, <2>2 DEF HeldOK
<1>9. \A q \in Roles : HeldOK(q)'
  BY <1>6, <1>7, <1>8, SteadyHeld DEF Calm, IInv
<1>10. \A q \in Roles : CallOK(q)'
  <2> SUFFICES ASSUME NEW q \in Roles PROVE CallOK(q)'
    OBVIOUS
  <2>1. panel'[q].presence = panel[q].presence
    BY <1>7
  <2> QED BY <1>6, <1>7, <2>1, CalmCall DEF IInv
<1> QED BY <1>1, <1>4, <1>5, <1>6, <1>7, <1>9, <1>10, CalmSockets DEF IInv, Types

-----------------------------------------------------------------------------
(* The service                                                             *)

(* A step of the service leaves the pages alone.                           *)
LEMMA ServedStep ==
  ASSUME IInv, ServiceOnly, sockets' \in [Sockets -> Socket(made)], SocketsOK', Steady,
         \A p \in Roles : CallOK(p)'
  PROVE  IInv'
<1>1. UNCHANGED <<panel, ctrl, made, starts, trouble>>
  BY DEF ServiceOnly
<1>2. \A p \in Roles : HeldOK(p)'
  BY <1>1, SteadyHeld DEF IInv
<1>3. \A p \in Roles : CtrlOK(ctrl'[p]) /\ (panel'[p].stream => HasController(p)')
  BY <1>1 DEF IInv, HasController
<1> QED BY <1>1, <1>2, <1>3 DEF IInv, Types

(* Handler s comes to at, and its outbox is q.                             *)
Moved(s, at, q) == [sockets EXCEPT ![s].handler = at, ![s].outbox = q]

LEMMA MovedIs ==
  ASSUME IInv, NEW s \in Sockets
  PROVE  /\ sockets[s].outbox \in Seq(Signal(made))
         /\ \A at : SetHandler(sockets, s, at) = Moved(s, at, sockets[s].outbox)
         /\ \A q : [sockets EXCEPT ![s].outbox = q] = Moved(s, sockets[s].handler, q)
BY DEF IInv, Types, Socket, SetHandler, Moved

(* A handler goes on, and no page is written to.                           *)
LEMMA QuietStep ==
  ASSUME IInv, NEW s \in Sockets, InRoom(s),
         NEW at \in {"notify", "loop", "leave", "ended"}, NEW q \in Seq(Signal(made)),
         sockets' = Moved(s, at, q), ServiceOnly,
         at = "loop" /\ sockets[s].handler # "loop" =>
           \A t \in Owned(Other(sockets[s].owner)) : InRoom(t) => sockets[t].state # "open"
  PROVE  IInv'
<1>1. sockets \in [Sockets -> Socket(made)] /\ sockets[s].owner \in Roles
  BY DEF IInv, Types, Socket
<1>2. /\ sockets' \in [Sockets -> Socket(made)]
      /\ sockets'[s].handler = at
      /\ \A t \in Sockets :
           /\ sockets'[t].owner = sockets[t].owner /\ sockets'[t].state = sockets[t].state
           /\ sockets'[t].inbox = sockets[t].inbox /\ sockets'[t].left = sockets[t].left
           /\ t # s => sockets'[t] = sockets[t]
  BY <1>1 DEF Moved, Socket
<1>3. Steady
  BY <1>2 DEF Steady, IInv, SocketsOK
<1>4. \A t \in Sockets : InRoom(t)' => InRoom(t)
  BY <1>2 DEF InRoom
<1>5. \A p \in Roles : Owned(p)' = Owned(p)
  BY <1>3, OwnedStays
<1>6. /\ \E n \in 0..MaxConnects : \A t \in Sockets : sockets'[t].state = "unused" <=> t > n
      /\ \A t \in Sockets :
           /\ sockets'[t].state \in {"unused", "connecting"} => sockets'[t].handler = "none"
           /\ sockets'[t].state # "open" => sockets'[t].inbox = <<>>
           /\ sockets'[t].left => sockets'[t].state \in {"closing", "closed"}
  <2>1. sockets[s].handler # "none"
    BY DEF InRoom
  <2> QED BY <1>2, <2>1 DEF IInv, SocketsOK
<1>7. \A p \in Roles : \A t, u \in Owned(p) : InRoom(t)' /\ InRoom(u)' => t = u
  BY <1>4 DEF IInv, SocketsOK, Owned
<1>8. SocketsOK'
  BY <1>5, <1>6, <1>7 DEF SocketsOK
<1>9. ASSUME NEW p \in Roles, NeverLeft(p)', NEW t \in Owned(p), sockets[t].state = "open"
      PROVE  FramesOK(sockets[t].inbox, panel[p].presence) /\ Announced(p, t)'
  <2>1. FramesOK(sockets[t].inbox, panel[p].presence) /\ Announced(p, t) /\ t \in Sockets
    BY <1>3, <1>9, OwnedStays DEF IInv, CallOK, Owned
  <2>2. ASSUME InRoom(t), NEW u \in Owned(Other(p)), sockets'[u].handler = "loop"
        PROVE  sockets[u].handler = "loop"
    <3>1. u \in Sockets /\ sockets[u].owner = Other(p)
      BY DEF Owned
    <3>2. CASE u = s
      BY <1>2, <1>9, <2>2, <3>1, <3>2, Roles2
    <3> QED BY <1>2, <2>2, <3>1, <3>2
  <2>3. UNCHANGED panel /\ Owned(Other(p))' = Owned(Other(p))
    BY <1>5, Roles2 DEF ServiceOnly
  <2>4. Announced(p, t)'
    BY <1>2, <1>4, <2>1, <2>2, <2>3 DEF Announced
  <2> QED BY <2>1, <2>4
<1>10. \A p \in Roles : CallOK(p)'
  <2> SUFFICES ASSUME NEW p \in Roles, NeverLeft(p)'
               PROVE  /\ panel'[p].presence = "disconnected" => ~HasController(p)'
                      /\ \A t \in Owned(p) :
                           /\ sockets'[t].state = "connecting" =>
                                panel'[p].presence # "disconnected"
                           /\ sockets'[t].state = "open" =>
                                /\ FramesOK(sockets'[t].inbox, panel'[p].presence)
                                /\ Announced(p, t)'
    BY <1>5 DEF CallOK
  <2>1. NeverLeft(p) /\ UNCHANGED <<panel, ctrl>>
    BY <1>3, OwnedStays DEF ServiceOnly
  <2>2. /\ panel'[p].presence = "disconnected" => ~HasController(p)'
        /\ \A t \in Owned(p) : t \in Sockets
             /\ (sockets[t].state = "connecting" => panel[p].presence # "disconnected")
    BY <2>1 DEF IInv, CallOK, HasController, Owned
  <2> QED BY <1>2, <1>9, <2>1, <2>2
<1> QED BY <1>2, <1>3, <1>8, <1>10, ServedStep

(* A handler goes on having written m to the page of t.                    *)
LEMMA WrittenStep ==
  ASSUME IInv, NEW s \in Sockets, InRoom(s), NEW t \in Sockets, sockets[t].state = "open",
         NEW at \in {"notify", "loop", "leave", "ended"}, NEW q \in Seq(Signal(made)),
         NEW m \in Msg(made),
         sockets' = [Moved(s, at, q) EXCEPT ![t].inbox = Append(@, m)], ServiceOnly,
         m.kind \in {"room-state", "peer-joined", "peer-left"} \cup Signals,
         t = s \/ (t \in Owned(Other(sockets[s].owner)) /\ InRoom(t)),
         m.kind \in Signals => t # s /\ sockets[s].handler = "loop",
         m.kind = "peer-left" => t # s /\ at = "ended",
         at = "loop" /\ sockets[s].handler # "loop" => t # s /\ m.kind = "peer-joined"
  PROVE  IInv'
<1>1. sockets \in [Sockets -> Socket(made)] /\ sockets[s].owner \in Roles
      /\ sockets[t].inbox \in Seq(Msg(made))
  BY DEF IInv, Types, Socket
<1> DEFINE a == Append(sockets[t].inbox, m)
           n == Len(sockets[t].inbox)
<1>2. Moved(s, at, q) \in [Sockets -> Socket(made)]
      /\ \A u \in Sockets :
           /\ Moved(s, at, q)[u].owner = sockets[u].owner
           /\ Moved(s, at, q)[u].state = sockets[u].state
           /\ Moved(s, at, q)[u].inbox = sockets[u].inbox
           /\ Moved(s, at, q)[u].left = sockets[u].left
           /\ Moved(s, at, q)[u].handler = IF u = s THEN at ELSE sockets[u].handler
  BY <1>1 DEF Moved, Socket
<1>3. a \in Seq(Msg(made)) /\ n \in Nat /\ Len(a) = n + 1
      /\ a[n + 1] = m /\ \A k \in 1..n : a[k] = sockets[t].inbox[k]
  BY <1>1, AppendProperties, LenProperties
<1>4. sockets' = [Moved(s, at, q) EXCEPT ![t].inbox = a]
  BY <1>2
<1> HIDE DEF a
<1>5. /\ sockets' \in [Sockets -> Socket(made)]
      /\ sockets'[t].inbox = a
      /\ \A u \in Sockets :
           /\ sockets'[u].owner = sockets[u].owner /\ sockets'[u].state = sockets[u].state
           /\ sockets'[u].left = sockets[u].left
           /\ u # t => sockets'[u].inbox = sockets[u].inbox
           /\ sockets'[u].handler = IF u = s THEN at ELSE sockets[u].handler
  <2> DEFINE v == Moved(s, at, q)
  <2>1. v \in [Sockets -> Socket(made)] /\ sockets' = [v EXCEPT ![t].inbox = a]
    BY <1>2, <1>4
  <2> HIDE DEF v
  <2>2. /\ sockets' \in [Sockets -> Socket(made)]
        /\ sockets'[t].inbox = a
        /\ \A u \in Sockets :
             /\ sockets'[u].owner = v[u].owner /\ sockets'[u].state = v[u].state
             /\ sockets'[u].left = v[u].left
             /\ u # t => sockets'[u].inbox = v[u].inbox
             /\ sockets'[u].handler = v[u].handler
    <3> DEFINE w == [v[t] EXCEPT !.inbox = a]
    <3>1. v[t] \in Socket(made)
      BY <2>1
    <3>2. /\ w \in Socket(made) /\ w.inbox = a /\ w.owner = v[t].owner
          /\ w.state = v[t].state /\ w.left = v[t].left /\ w.handler = v[t].handler
      BY <1>3, <3>1 DEF Socket
    <3>3. sockets' = [v EXCEPT ![t] = w]
      BY <2>1
    <3> HIDE DEF w
    <3> QED BY <2>1, <3>2, <3>3
  <2> QED BY <1>2, <2>2 DEF v
<1>6. Steady
  BY <1>5 DEF Steady, IInv, SocketsOK
<1>7. \A u \in Sockets : InRoom(u)' => InRoom(u)
  BY <1>5 DEF InRoom
<1>8. \A p \in Roles : Owned(p)' = Owned(p)
  BY <1>6, OwnedStays
<1>9. SocketsOK'
  <2>1. sockets[s].handler # "none"
    BY DEF InRoom
  <2>2. \A u \in Sockets :
          /\ sockets'[u].state \in {"unused", "connecting"} => sockets'[u].handler = "none"
          /\ sockets'[u].state # "open" => sockets'[u].inbox = <<>>
          /\ sockets'[u].left => sockets'[u].state \in {"closing", "closed"}
    BY <1>5, <2>1 DEF IInv, SocketsOK
  <2>3. \A p \in Roles : \A u, v \in Owned(p) : InRoom(u)' /\ InRoom(v)' => u = v
    BY <1>7 DEF IInv, SocketsOK, Owned
  <2>4. \E k \in 0..MaxConnects : \A u \in Sockets : sockets'[u].state = "unused" <=> u > k
    BY <1>6 DEF IInv, SocketsOK, Steady
  <2> QED BY <1>8, <2>2, <2>3, <2>4 DEF SocketsOK
<1>10. ASSUME NEW p \in Roles, NeverLeft(p), NEW u \in Owned(p), sockets[u].state = "open"
       PROVE  FramesOK(sockets'[u].inbox, panel[p].presence) /\ Announced(p, u)'
  <2>1. /\ FramesOK(sockets[u].inbox, panel[p].presence) /\ Announced(p, u)
        /\ u \in Sockets /\ sockets[u].owner = p /\ s \in Owned(sockets[s].owner)
        /\ UNCHANGED panel /\ Owned(Other(p))' = Owned(Other(p))
    BY <1>8, <1>10, Roles2 DEF IInv, CallOK, Owned, ServiceOnly, SocketsOK, InRoom
  <2>2. CASE u # t
    <3>1. sockets'[u].inbox = sockets[u].inbox
      BY <1>5, <2>1, <2>2
    <3>2. ASSUME InRoom(u), NEW v \in Owned(Other(p)), sockets'[v].handler = "loop"
          PROVE  sockets[v].handler = "loop"
      <4>1. v \in Sockets /\ sockets[v].owner = Other(p)
        BY DEF Owned
      <4>2. CASE v = s /\ sockets[s].handler # "loop"
        <5>1. t \in Owned(p) /\ InRoom(t)
          BY <1>5, <1>10, <3>2, <4>1, <4>2, Roles2
        <5> QED BY <2>2, <3>2, <5>1 DEF IInv, SocketsOK
      <4> QED BY <1>5, <3>2, <4>1, <4>2
    <3> QED BY <1>7, <2>1, <3>1, <3>2 DEF Announced
  <2>3. CASE u = t
    <3>1. sockets'[u].inbox = a
      BY <1>5, <2>3
    <3>2. (\E v \in Owned(Other(p)) : sockets[v].handler = "loop") /\ InRoom(u)
            => ~GoneBy(sockets[t].inbox, n, panel[p].presence)
      BY <2>1, <2>3 DEF Announced
    <3>3. /\ \A k \in 0..n : GoneBy(a, k, panel[p].presence) <=>
                               GoneBy(sockets[t].inbox, k, panel[p].presence)
          /\ GoneBy(a, n + 1, panel[p].presence) =>
               m.kind = "peer-left" \/
                 (m.kind \notin {"room-state", "peer-joined"}
                    /\ GoneBy(sockets[t].inbox, n, panel[p].presence))
      BY <1>1, GoneAppend DEF a
    <3>4. t # s => InRoom(u) /\ s \in Owned(Other(p))
      BY <1>1, <2>1, <2>3, Roles2 DEF Owned
    <3>5. FramesOK(a, panel[p].presence)
      <4> SUFFICES ASSUME NEW k \in 1..(n + 1), a[k].kind \in Signals
                   PROVE  ~GoneBy(a, k - 1, panel[p].presence)
        BY <1>3 DEF FramesOK
      <4>1. k - 1 \in 0..n
        BY <1>3
      <4>2. CASE k = n + 1
        <5>1. m.kind \in Signals /\ k - 1 = n
          BY <1>3, <4>2
        <5> QED BY <3>2, <3>3, <3>4, <4>1, <5>1
      <4>3. CASE k # n + 1
        <5>1. k \in 1..n /\ sockets[t].inbox[k].kind \in Signals
          BY <1>3, <4>3
        <5> QED BY <2>1, <2>3, <3>3, <4>1, <5>1 DEF FramesOK
      <4> QED BY <4>2, <4>3
    <3>6. Announced(p, u)'
      <4> SUFFICES ASSUME InRoom(u)', NEW v \in Owned(Other(p)), sockets'[v].handler = "loop",
                          GoneBy(a, n + 1, panel[p].presence)
                   PROVE  FALSE
        BY <1>3, <2>1, <3>1 DEF Announced
      <4>1. InRoom(u) /\ v \in Sockets
        BY <1>7, <2>1 DEF Owned
      <4>2. CASE m.kind = "peer-left"
        <5>1. s \in Owned(Other(p)) /\ v # s /\ InRoom(v) /\ Other(p) \in Roles
          BY <1>5, <3>4, <4>1, <4>2, Roles2 DEF InRoom
        <5> QED BY <5>1 DEF IInv, SocketsOK
      <4>3. CASE m.kind # "peer-left"
        <5>1. m.kind \in Signals /\ GoneBy(sockets[t].inbox, n, panel[p].presence)
          BY <3>3, <4>3
        <5>2. ~ \E w \in Owned(Other(p)) : sockets[w].handler = "loop"
          BY <3>2, <4>1, <5>1
        <5> QED BY <3>4, <5>1, <5>2
      <4> QED BY <4>2, <4>3
    <3> QED BY <3>1, <3>5, <3>6
  <2> QED BY <2>2, <2>3
<1>11. \A p \in Roles : CallOK(p)'
  <2> SUFFICES ASSUME NEW p \in Roles, NeverLeft(p)'
               PROVE  /\ panel'[p].presence = "disconnected" => ~HasController(p)'
                      /\ \A u \in Owned(p) :
                           /\ sockets'[u].state = "connecting" =>
                                panel'[p].presence # "disconnected"
                           /\ sockets'[u].state = "open" =>
                                /\ FramesOK(sockets'[u].inbox, panel'[p].presence)
                                /\ Announced(p, u)'
    BY <1>8 DEF CallOK
  <2>1. NeverLeft(p) /\ UNCHANGED <<panel, ctrl>>
    BY <1>6, OwnedStays DEF ServiceOnly
  <2>2. /\ panel'[p].presence = "disconnected" => ~HasController(p)'
        /\ \A u \in Owned(p) : u \in Sockets
             /\ (sockets[u].state = "connecting" => panel[p].presence # "disconnected")
    BY <2>1 DEF IInv, CallOK, HasController, Owned
  <2> QED BY <1>5, <1>10, <2>1, <2>2
<1> QED BY <1>5, <1>6, <1>9, <1>11, ServedStep

(* The one of the other role in the room, if there is one.                 *)
LEMMA PeerIsOne ==
  ASSUME IInv, NEW s \in Sockets, PeerOf(s) # 0
  PROVE  /\ PeerOf(s) \in Sockets /\ PeerOf(s) # s /\ InRoom(PeerOf(s))
         /\ PeerOf(s) \in Owned(Other(sockets[s].owner))
         /\ \A t \in Owned(Other(sockets[s].owner)) : InRoom(t) => t = PeerOf(s)
<1>1. sockets[s].owner \in Roles /\ Other(sockets[s].owner) \in Roles
      /\ Other(sockets[s].owner) # sockets[s].owner
  BY Roles2 DEF IInv, Types, Socket
<1>2. PeerOf(s) \in Owned(Other(sockets[s].owner)) /\ InRoom(PeerOf(s))
  BY PeerIsThere
<1> QED BY <1>1, <1>2 DEF Owned, IInv, SocketsOK

LEMMA WriteRoomStateStep ==
  ASSUME IInv, NEW s \in Sockets, WriteRoomState(s)
  PROVE  IInv'
<1> DEFINE m == Message("room-state", 0, 0, sockets[s].snapshot)
           q == sockets[s].outbox
<1>1. InRoom(s) /\ ServiceOnly /\ sockets[s].handler = "write"
  BY DEF WriteRoomState, InRoom
<1>2. m \in Msg(made) /\ m.kind = "room-state"
  <2>1. sockets[s].snapshot \in BOOLEAN /\ made \in Nat
    BY DEF IInv, Types, Socket
  <2> QED BY <2>1 DEF Message, Msg, Kinds
<1>3. /\ q \in Seq(Signal(made))
      /\ SetHandler(sockets, s, "notify") = Moved(s, "notify", q)
      /\ SetHandler(sockets, s, "ended") = Moved(s, "ended", q)
  BY MovedIs
<1>4. \/ /\ sockets[s].state = "open"
         /\ sockets' = [Moved(s, "notify", q) EXCEPT ![s].inbox = Append(@, m)]
      \/ sockets' = Moved(s, "notify", q)
      \/ sockets' = Moved(s, "ended", q)
  BY <1>3 DEF WriteRoomState, Write, IsOpen
<1> HIDE DEF m, q
<1>5. CASE /\ sockets[s].state = "open"
           /\ sockets' = [Moved(s, "notify", q) EXCEPT ![s].inbox = Append(@, m)]
  BY <1>1, <1>2, <1>3, <1>5, WrittenStep DEF Signals
<1>6. CASE sockets' = Moved(s, "notify", q) \/ sockets' = Moved(s, "ended", q)
  BY <1>1, <1>3, <1>6, QuietStep
<1> QED BY <1>4, <1>5, <1>6

LEMMA NotifyPeerJoinedStep ==
  ASSUME IInv, NEW s \in Sockets, NotifyPeerJoined(s)
  PROVE  IInv'
<1> DEFINE m == Presence("peer-joined")
           q == sockets[s].outbox
           t == PeerOf(s)
<1>1. InRoom(s) /\ ServiceOnly /\ sockets[s].handler = "notify"
  BY DEF NotifyPeerJoined, InRoom
<1>2. m \in Msg(made) /\ m.kind = "peer-joined"
  BY DEF Presence, Message, Msg, Kinds, IInv, Types
<1>3. /\ q \in Seq(Signal(made))
      /\ SetHandler(sockets, s, "loop") = Moved(s, "loop", q)
      /\ SetHandler(sockets, s, "ended") = Moved(s, "ended", q)
  BY MovedIs
<1>4. \/ t = 0 /\ sockets' = Moved(s, "loop", q)
      \/ /\ t # 0 /\ sockets[t].state = "open"
         /\ sockets' = [Moved(s, "loop", q) EXCEPT ![t].inbox = Append(@, m)]
      \/ t # 0 /\ sockets[t].state = "closing" /\ sockets' = Moved(s, "loop", q)
      \/ sockets' = Moved(s, "ended", q)
  BY <1>3 DEF NotifyPeerJoined, Write, IsOpen
<1>5. t = 0 => \A u \in Owned(Other(sockets[s].owner)) : ~InRoom(u)
  BY PeerIsThere
<1>6. t # 0 => /\ t \in Sockets /\ t # s /\ InRoom(t)
               /\ t \in Owned(Other(sockets[s].owner))
               /\ \A u \in Owned(Other(sockets[s].owner)) : InRoom(u) => u = t
  BY PeerIsOne
<1> HIDE DEF m, q, t
<1>7. CASE /\ t # 0 /\ sockets[t].state = "open"
           /\ sockets' = [Moved(s, "loop", q) EXCEPT ![t].inbox = Append(@, m)]
  BY <1>1, <1>2, <1>3, <1>6, <1>7, WrittenStep DEF Signals
<1>8. CASE t = 0 /\ sockets' = Moved(s, "loop", q)
  BY <1>1, <1>3, <1>5, <1>8, QuietStep
<1>9. CASE t # 0 /\ sockets[t].state = "closing" /\ sockets' = Moved(s, "loop", q)
  BY <1>1, <1>3, <1>6, <1>9, QuietStep
<1>10. CASE sockets' = Moved(s, "ended", q)
  BY <1>1, <1>3, <1>10, QuietStep
<1> QED BY <1>4, <1>7, <1>8, <1>9, <1>10

LEMMA LeaveStep ==
  ASSUME IInv, NEW s \in Sockets, Leave(s)
  PROVE  IInv'
<1> DEFINE m == Presence("peer-left")
           q == sockets[s].outbox
           t == PeerOf(s)
<1>1. InRoom(s) /\ ServiceOnly
  BY DEF Leave, InRoom
<1>2. m \in Msg(made) /\ m.kind = "peer-left"
  BY DEF Presence, Message, Msg, Kinds, IInv, Types
<1>3. q \in Seq(Signal(made)) /\ SetHandler(sockets, s, "ended") = Moved(s, "ended", q)
  BY MovedIs
<1>4. \/ sockets' = Moved(s, "ended", q)
      \/ /\ t # 0 /\ sockets[t].state = "open"
         /\ sockets' = [Moved(s, "ended", q) EXCEPT ![t].inbox = Append(@, m)]
  BY <1>3 DEF Leave, Write, IsOpen
<1>5. t # 0 => /\ t \in Sockets /\ t # s /\ InRoom(t)
               /\ t \in Owned(Other(sockets[s].owner))
  BY PeerIsOne
<1> HIDE DEF m, q, t
<1>6. CASE /\ t # 0 /\ sockets[t].state = "open"
           /\ sockets' = [Moved(s, "ended", q) EXCEPT ![t].inbox = Append(@, m)]
  BY <1>1, <1>2, <1>3, <1>5, <1>6, WrittenStep DEF Signals
<1>7. CASE sockets' = Moved(s, "ended", q)
  BY <1>1, <1>3, <1>7, QuietStep
<1> QED BY <1>4, <1>6, <1>7

LEMMA ReadFailsStep ==
  ASSUME IInv, NEW s \in Sockets, ReadFails(s)
  PROVE  IInv'
BY MovedIs, QuietStep DEF ReadFails, InRoom

LEMMA RelayStep ==
  ASSUME IInv, NEW s \in Sockets, Relay(s)
  PROVE  IInv'
<1> DEFINE m == Head(sockets[s].outbox)
           q == Tail(sockets[s].outbox)
           t == PeerOf(s)
           read == [sockets EXCEPT ![s].outbox = q]
<1>1. InRoom(s) /\ ServiceOnly /\ sockets[s].handler = "loop" /\ sockets[s].outbox # <<>>
  BY DEF Relay, InRoom
<1>2. sockets[s].outbox \in Seq(Signal(made))
  BY MovedIs
<1>3. m \in Signal(made) /\ q \in Seq(Signal(made))
  BY <1>1, <1>2, TailIndex
<1>4. m \in Msg(made) /\ m.kind \in Signals
  BY <1>3 DEF Signal
<1>5. read = Moved(s, "loop", q)
  BY <1>1, MovedIs
<1>6. SetHandler(read, s, "leave") = Moved(s, "leave", q)
  BY DEF SetHandler, Moved, IInv, Types, Socket
<1>7. \/ sockets' = read
      \/ t # 0 /\ sockets[t].state = "open"
           /\ sockets' = [read EXCEPT ![t].inbox = Append(@, m)]
      \/ sockets' = SetHandler(read, s, "leave")
  BY DEF Relay, IsOpen
<1>8. t # 0 => /\ t \in Sockets /\ t # s /\ InRoom(t)
               /\ t \in Owned(Other(sockets[s].owner))
  BY PeerIsOne
<1> HIDE DEF m, q, t, read
<1>9. CASE t # 0 /\ sockets[t].state = "open"
           /\ sockets' = [read EXCEPT ![t].inbox = Append(@, m)]
  <2>1. sockets' = [Moved(s, "loop", q) EXCEPT ![t].inbox = Append(@, m)]
    BY <1>5, <1>9
  <2>2. m.kind # "peer-left"
    BY <1>4 DEF Signals
  <2> QED BY <1>1, <1>3, <1>4, <1>8, <1>9, <2>1, <2>2, WrittenStep
<1>10. CASE sockets' = read \/ sockets' = SetHandler(read, s, "leave")
  BY <1>1, <1>3, <1>5, <1>6, <1>10, QuietStep
<1> QED BY <1>7, <1>9, <1>10

(* A socket opens, and its handler is in the room unless another is there. *)
LEMMA JoinStep ==
  ASSUME IInv, NEW s \in Sockets, Join(s)
  PROVE  IInv'
<1>1. PICK p \in Roles : p = sockets[s].owner
  BY DEF IInv, Types, Socket
<1> DEFINE taken == \E t \in Owned(p) : InRoom(t)
           at == IF taken THEN "ended" ELSE "write"
           x == PeerOf(s) # 0
<1>2. /\ sockets \in [Sockets -> Socket(made)] /\ made \in Nat /\ panel \in [Roles -> Panel]
      /\ sockets[s].state = "connecting" /\ sockets[s].handler = "none"
      /\ sockets[s].inbox = <<>> /\ ~sockets[s].left /\ s \in Owned(p)
  BY <1>1 DEF IInv, Types, SocketsOK, Join, Owned
<1>3. /\ panel' = [panel EXCEPT ![p].status = "open"]
      /\ sockets' = [sockets EXCEPT ![s].state = "open", ![s].handler = at, ![s].snapshot = x]
      /\ UNCHANGED <<ctrl, made, starts, trouble>>
  BY <1>1 DEF Join
<1>4. x \in BOOLEAN /\ at \in {"ended", "write"} /\ (at = "write" => ~taken)
  OBVIOUS
<1> HIDE DEF at, x
<1>5. /\ sockets' \in [Sockets -> Socket(made)]
      /\ sockets'[s].state = "open" /\ sockets'[s].handler = at
      /\ sockets'[s].owner = p /\ sockets'[s].inbox = <<>> /\ ~sockets'[s].left
      /\ \A t \in Sockets : t # s => sockets'[t] = sockets[t]
  BY <1>1, <1>2, <1>3, <1>4 DEF Socket
<1>6. /\ panel' \in [Roles -> Panel]
      /\ \A q \in Roles : /\ panel'[q].conn = panel[q].conn
                          /\ panel'[q].presence = panel[q].presence
                          /\ panel'[q].stream = panel[q].stream
  BY <1>2, <1>3 DEF Panel
<1>7. Steady
  BY <1>1, <1>2, <1>5 DEF Steady, IInv, SocketsOK
<1>8. \A q \in Roles : Owned(q)' = Owned(q)
  BY <1>7, OwnedStays
<1>9. SocketsOK'
  <2>1. \E n \in 0..MaxConnects : \A t \in Sockets : sockets'[t].state = "unused" <=> t > n
    BY <1>7 DEF IInv, SocketsOK, Steady
  <2>2. \A t \in Sockets :
          /\ sockets'[t].state \in {"unused", "connecting"} => sockets'[t].handler = "none"
          /\ sockets'[t].state # "open" => sockets'[t].inbox = <<>>
          /\ sockets'[t].left => sockets'[t].state \in {"closing", "closed"}
    BY <1>5 DEF IInv, SocketsOK
  <2>3. ASSUME NEW q \in Roles, NEW t \in Owned(q), NEW u \in Owned(q), InRoom(t)', InRoom(u)'
        PROVE  t = u
    <3>1. t \in Sockets /\ u \in Sockets /\ (t = s \/ InRoom(t)) /\ (u = s \/ InRoom(u))
      BY <1>5, <2>3 DEF Owned, InRoom
    <3>2. CASE t # s /\ u # s
      BY <3>1, <3>2 DEF IInv, SocketsOK
    <3>3. CASE t = s \/ u = s
      <4>1. q = p /\ at = "write"
        BY <1>1, <1>4, <1>5, <2>3, <3>3 DEF Owned, InRoom
      <4> QED BY <1>4, <2>3, <3>1, <4>1
    <3> QED BY <3>2, <3>3
  <2> QED BY <1>8, <2>1, <2>2, <2>3 DEF SocketsOK
<1>10. \A q \in Roles : HeldOK(q)'
  BY <1>6, <1>7, SteadyHeld DEF IInv
<1>11. ASSUME NEW q \in Roles, NeverLeft(q), NEW t \in Owned(q), sockets'[t].state = "open"
       PROVE  FramesOK(sockets'[t].inbox, panel[q].presence) /\ Announced(q, t)'
  <2>1. t \in Sockets /\ sockets[t].owner = q /\ Other(q) \in Roles
        /\ Owned(Other(q))' = Owned(Other(q))
    BY <1>8, Roles2 DEF Owned
  <2>2. \A u \in Owned(Other(q)) : sockets'[u].handler = "loop" => sockets[u].handler = "loop"
    BY <1>4, <1>5 DEF Owned
  <2>3. CASE t = s
    <3>1. panel[q].presence # "disconnected" /\ panel'[q].presence = panel[q].presence
      BY <1>2, <1>6, <1>11, <2>3 DEF IInv, CallOK
    <3>2. sockets'[t].inbox = <<>> /\ Len(<<>>) = 0
      BY <1>5, <2>3, EmptySeq
    <3>3. ~GoneBy(<<>>, 0, panel[q].presence)
      BY <3>1 DEF GoneBy
    <3> QED BY <3>1, <3>2, <3>3 DEF FramesOK, Announced
  <2>4. CASE t # s
    <3>1. sockets'[t] = sockets[t]
      BY <1>5, <2>1, <2>4
    <3>2. FramesOK(sockets[t].inbox, panel[q].presence) /\ Announced(q, t)
      BY <1>11, <3>1 DEF IInv, CallOK
    <3> QED BY <1>6, <2>1, <2>2, <3>1, <3>2 DEF Announced, InRoom
  <2> QED BY <2>3, <2>4
<1>12. \A q \in Roles : CallOK(q)'
  <2> SUFFICES ASSUME NEW q \in Roles, NeverLeft(q)'
               PROVE  /\ panel'[q].presence = "disconnected" => ~HasController(q)'
                      /\ \A t \in Owned(q) :
                           /\ sockets'[t].state = "connecting" =>
                                panel'[q].presence # "disconnected"
                           /\ sockets'[t].state = "open" =>
                                /\ FramesOK(sockets'[t].inbox, panel'[q].presence)
                                /\ Announced(q, t)'
    BY <1>8 DEF CallOK
  <2>1. NeverLeft(q) /\ UNCHANGED ctrl /\ panel'[q].presence = panel[q].presence
    BY <1>3, <1>6, <1>7, OwnedStays
  <2>2. /\ panel'[q].presence = "disconnected" => ~HasController(q)'
        /\ \A t \in Owned(q) :
             sockets'[t].state = "connecting" => panel[q].presence # "disconnected"
    BY <1>5, <2>1 DEF IInv, CallOK, HasController, Owned
  <2> QED BY <1>11, <2>1, <2>2
<1>13. \A q \in Roles : CtrlOK(ctrl'[q]) /\ (panel'[q].stream => HasController(q)')
  BY <1>3, <1>6 DEF IInv, HasController
<1> QED BY <1>3, <1>5, <1>6, <1>9, <1>10, <1>12, <1>13 DEF IInv, Types

-----------------------------------------------------------------------------
(* A page hears a frame                                                    *)

LEMMA HeardStep ==
  ASSUME IInv, NEW s \in Sockets, sockets[s].state = "open", sockets[s].inbox # <<>>,
         Heard(s), NEW p \in Roles, sockets[s].owner = p,
         made' \in Nat, made <= made',
         panel' \in [Roles -> Panel], ctrl' \in [Roles -> Ctrl(made')],
         UNCHANGED <<starts, trouble>>,
         \A q \in Roles : /\ CtrlOK(ctrl'[q])
                          /\ panel'[q].conn = panel[q].conn
                          /\ panel'[q].stream => HasController(q)'
                          /\ q # p => panel'[q] = panel[q] /\ ctrl'[q] = ctrl[q],
         panel'[p].presence = "disconnected" =>
           \/ Head(sockets[s].inbox).kind = "peer-left"
           \/ /\ panel[p].presence = "disconnected"
              /\ Head(sockets[s].inbox).kind \notin {"room-state", "peer-joined"},
         NeverLeft(p) /\ panel'[p].presence = "disconnected" => ~HasController(p)'
  PROVE  IInv'
<1> DEFINE inbox == sockets[s].inbox
           rest == Tail(inbox)
           n == Len(inbox)
<1>1. sockets \in [Sockets -> Socket(made)] /\ made \in Nat /\ inbox \in Seq(Msg(made))
      /\ sockets[s] \in Socket(made)
  BY DEF IInv, Types, Socket
<1>2. /\ n \in Nat \ {0} /\ rest \in Seq(Msg(made)) /\ Len(rest) = n - 1
      /\ \A i \in 1..(n - 1) : rest[i] = inbox[i + 1]
  BY <1>1, TailIndex
<1>3. /\ sockets' \in [Sockets -> Socket(made)]
      /\ sockets'[s].inbox = rest
      /\ \A t \in Sockets :
           /\ sockets'[t].owner = sockets[t].owner /\ sockets'[t].state = sockets[t].state
           /\ sockets'[t].left = sockets[t].left
           /\ sockets'[t].handler = sockets[t].handler
           /\ t # s => sockets'[t] = sockets[t]
  <2>1. sockets' = [sockets EXCEPT ![s].inbox = rest]
    BY DEF Heard
  <2> HIDE DEF inbox, rest, n
  <2> QED BY <1>1, <1>2, <2>1 DEF Socket
<1>4. sockets' \in [Sockets -> Socket(made')]
  BY <1>1, <1>3, MoreControllers
<1>5. Steady
  BY <1>3 DEF Steady, IInv, SocketsOK
<1>6. /\ \A q \in Roles : Owned(q)' = Owned(q)
      /\ \A q \in Roles : NeverLeft(q)' => NeverLeft(q)
      /\ \A t \in Sockets : InRoom(t)' <=> InRoom(t)
  BY <1>3, <1>5, OwnedStays DEF InRoom
<1>7. SocketsOK'
  <2>1. \E k \in 0..MaxConnects : \A t \in Sockets : sockets'[t].state = "unused" <=> t > k
    BY <1>5 DEF IInv, SocketsOK, Steady
  <2>2. \A t \in Sockets :
          /\ sockets'[t].state \in {"unused", "connecting"} => sockets'[t].handler = "none"
          /\ sockets'[t].state # "open" => sockets'[t].inbox = <<>>
          /\ sockets'[t].left => sockets'[t].state \in {"closing", "closed"}
    BY <1>3 DEF IInv, SocketsOK
  <2>3. \A q \in Roles : \A t, u \in Owned(q) : InRoom(t)' /\ InRoom(u)' => t = u
    BY <1>6 DEF IInv, SocketsOK, Owned
  <2> QED BY <1>6, <2>1, <2>2, <2>3 DEF SocketsOK
<1>8. \A q \in Roles : HeldOK(q)'
  BY <1>5, SteadyHeld DEF IInv
<1>9. \A q \in Roles : Other(q) \in Roles /\ Owned(Other(q))' = Owned(Other(q))
  BY <1>6, Roles2
<1>10. ASSUME NEW q \in Roles, q # p PROVE CallOK(q)'
  <2>1. panel'[q] = panel[q] /\ ctrl'[q] = ctrl[q] /\ Owned(q)' = Owned(q)
    BY <1>6, <1>10
  <2>2. \A t \in Owned(q) : t \in Sockets /\ t # s /\ sockets'[t] = sockets[t]
    BY <1>3, <1>10 DEF Owned
  <2>3. \A t \in Owned(q) : Announced(q, t) => Announced(q, t)'
    BY <1>3, <1>6, <1>9, <2>1, <2>2 DEF Announced, Owned
  <2> QED BY <1>6, <2>1, <2>2, <2>3 DEF IInv, CallOK, HasController
<1>11. CallOK(p)'
  <2> SUFFICES ASSUME NeverLeft(p)
               PROVE  /\ panel'[p].presence = "disconnected" => ~HasController(p)'
                      /\ \A t \in Owned(p) :
                           /\ sockets'[t].state = "connecting" =>
                                panel'[p].presence # "disconnected"
                           /\ sockets'[t].state = "open" =>
                                /\ FramesOK(sockets'[t].inbox, panel'[p].presence)
                                /\ Announced(p, t)'
    BY <1>6 DEF CallOK
  <2>1. s \in Owned(p)
    BY DEF Owned
  <2>2. \A t \in Owned(p) : sockets'[t].state \in {"connecting", "open"} => t = s
    BY <1>3, <2>1, OneLive DEF Owned
  <2>3. FramesOK(inbox, panel[p].presence) /\ Announced(p, s)
    BY <2>1 DEF IInv, CallOK
  <2>4. \A k \in 0..(n - 1) : GoneBy(rest, k, panel'[p].presence) =>
                                GoneBy(inbox, k + 1, panel[p].presence)
    BY <1>1, GoneTail
  <2> HIDE DEF inbox, rest, n
  <2>5. FramesOK(rest, panel'[p].presence)
    <3> SUFFICES ASSUME NEW k \in 1..(n - 1), rest[k].kind \in Signals
                 PROVE  ~GoneBy(rest, k - 1, panel'[p].presence)
      BY <1>2 DEF FramesOK
    <3>1. k + 1 \in 1..n /\ inbox[k + 1].kind \in Signals /\ k - 1 \in 0..(n - 1)
          /\ (k + 1) - 1 = k /\ (k - 1) + 1 = k
      BY <1>2
    <3>2. ~GoneBy(inbox, k, panel[p].presence)
      BY <2>3, <3>1 DEF FramesOK, n
    <3> QED BY <2>4, <3>1, <3>2
  <2>6. Announced(p, s)'
    <3>1. n - 1 \in 0..(n - 1) /\ (n - 1) + 1 = n
      BY <1>2
    <3>2. GoneBy(rest, Len(rest), panel'[p].presence) => GoneBy(inbox, Len(inbox), panel[p].presence)
      BY <1>2, <2>4, <3>1 DEF n
    <3>3. InRoom(s)' /\ (\E t \in Owned(Other(p)) : sockets'[t].handler = "loop")
            => InRoom(s) /\ (\E t \in Owned(Other(p)) : sockets[t].handler = "loop")
      BY <1>3, <1>6 DEF Owned
    <3> QED BY <1>3, <1>9, <2>3, <3>2, <3>3 DEF Announced, inbox
  <2> QED BY <1>3, <2>2, <2>5, <2>6
<1> QED BY <1>4, <1>7, <1>8, <1>10, <1>11 DEF IInv, Types

(* A frame that only tells of the other one.                               *)
LEMMA ToldStep ==
  ASSUME IInv, NEW s \in Sockets, sockets[s].state = "open", sockets[s].inbox # <<>>,
         Heard(s), NEW p \in Roles, sockets[s].owner = p,
         NEW presence \in {"waiting", "connected"},
         panel' = [panel EXCEPT ![p].presence = presence],
         UNCHANGED <<ctrl, made, starts, trouble>>
  PROVE  IInv'
<1>1. made \in Nat /\ panel \in [Roles -> Panel] /\ ctrl \in [Roles -> Ctrl(made)]
  BY DEF IInv, Types
<1>2. /\ panel' \in [Roles -> Panel] /\ panel'[p].presence = presence
      /\ \A q \in Roles : /\ panel'[q].conn = panel[q].conn
                          /\ panel'[q].stream = panel[q].stream
                          /\ q # p => panel'[q] = panel[q]
  BY <1>1 DEF Panel
<1>3. \A q \in Roles : CtrlOK(ctrl'[q]) /\ (panel'[q].stream => HasController(q)')
  BY <1>2 DEF IInv, HasController
<1>4. panel'[p].presence # "disconnected" /\ made' = made /\ ctrl' = ctrl /\ made <= made'
  BY <1>1, <1>2
<1> QED BY <1>1, <1>2, <1>3, <1>4, HeardStep

LEMMA RoomStateHeardStep ==
  ASSUME IInv, NEW s \in Sockets, RoomStateHeard(s)
  PROVE  IInv'
<1>1. PICK p \in Roles : p = sockets[s].owner
  BY DEF IInv, Types, Socket
<1>2. PICK presence \in {"waiting", "connected"} :
        panel' = [panel EXCEPT ![p].presence = presence]
  BY <1>1 DEF RoomStateHeard
<1> QED BY <1>1, <1>2, ToldStep DEF RoomStateHeard, FrameAt, IsOpen

LEMMA PeerJoinedHeardStep ==
  ASSUME IInv, NEW s \in Sockets, PeerJoinedHeard(s)
  PROVE  IInv'
<1>1. PICK p \in Roles : p = sockets[s].owner
  BY DEF IInv, Types, Socket
<1> QED BY <1>1, ToldStep DEF PeerJoinedHeard, FrameAt, IsOpen

LEMMA PeerLeftHeardStep ==
  ASSUME IInv, NEW s \in Sockets, PeerLeftHeard(s)
  PROVE  IInv'
<1>1. PICK p \in Roles : p = sockets[s].owner
  BY DEF IInv, Types, Socket
<1> DEFINE shown == [panel[p] EXCEPT !.presence = "disconnected"]
<1>2. made \in Nat /\ shown \in Panel /\ shown.conn = panel[p].conn
  BY DEF IInv, Types, Panel
<1>3. /\ sockets[s].state = "open" /\ sockets[s].inbox # <<>>
      /\ Head(sockets[s].inbox).kind = "peer-left"
      /\ closeCall(p, shown) /\ Heard(s) /\ UNCHANGED <<made, starts, trouble>>
  BY <1>1 DEF PeerLeftHeard, FrameAt, IsOpen
<1> HIDE DEF shown
<1>4. /\ ctrl' \in [Roles -> Ctrl(made)] /\ panel' \in [Roles -> Panel]
      /\ ~HasController(p)' /\ panel'[p].conn = shown.conn
      /\ \A q \in Roles : q # p => panel'[q] = panel[q] /\ ctrl'[q] = ctrl[q]
      /\ \A q \in Roles : CtrlOK(ctrl'[q]) /\ (panel'[q].stream => HasController(q)')
  BY <1>1, <1>2, <1>3, CallCloses
<1>5. \A q \in Roles : panel'[q].conn = panel[q].conn
  BY <1>2, <1>4
<1>6. made' = made /\ made <= made'
  BY <1>2, <1>3
<1> QED BY <1>1, <1>2, <1>3, <1>4, <1>5, <1>6, HeardStep

LEMMA SignalHeardStep ==
  ASSUME IInv, NEW s \in Sockets, SignalHeard(s)
  PROVE  IInv'
<1>1. PICK p \in Roles : p = sockets[s].owner
  BY DEF IInv, Types, Socket
<1> DEFINE m == Head(sockets[s].inbox)
           n == IF HasController(p) THEN made ELSE made + 1
           c == IF HasController(p) THEN ctrl[p] ELSE Controller(made + 1)
<1>2. /\ sockets[s].state = "open" /\ sockets[s].inbox # <<>> /\ m.kind \in Signals
      /\ Heard(s) /\ made' = n /\ UNCHANGED <<panel, starts, trouble>>
      /\ ctrl' = [ctrl EXCEPT ![p] = handleSignal(c, m)]
  BY <1>1 DEF SignalHeard, FrameAt, IsOpen, Signals
<1>3. /\ made \in Nat /\ n \in Nat /\ made <= n /\ ctrl \in [Roles -> Ctrl(made)]
      /\ sockets[s].inbox \in Seq(Msg(made)) /\ Good(made, ctrl[p])
  BY <1>1 DEF IInv, Types, Good, Socket
<1>4. m \in Signal(made)
  BY <1>2, <1>3, TailIndex DEF Signal
<1>5. m \in Signal(n)
  BY <1>3, <1>4, MoreControllers
<1>6. Good(n, c) /\ c.gen # 0
  <2>1. CASE HasController(p)
    BY <1>3, <2>1 DEF HasController
  <2>2. CASE ~HasController(p)
    <3>1. made + 1 \in 0..n /\ made + 1 # 0
      BY <1>3, <2>2
    <3> QED BY <1>3, <2>2, <3>1, NewIsOK
  <2> QED BY <2>1, <2>2
<1> HIDE DEF m, n, c
<1>7. Good(n, handleSignal(c, m)) /\ handleSignal(c, m).gen # 0
  BY <1>3, <1>5, <1>6, SignalIsOK
<1>8. /\ ctrl' \in [Roles -> Ctrl(n)] /\ ctrl'[p].gen # 0
      /\ \A q \in Roles : CtrlOK(ctrl'[q]) /\ (q # p => ctrl'[q] = ctrl[q])
  BY <1>2, <1>3, <1>7, MoreControllers DEF Good, IInv
<1>9. \A q \in Roles : panel'[q].stream => HasController(q)'
  BY <1>2, <1>8 DEF IInv, HasController
<1>10. NeverLeft(p) => panel[p].presence # "disconnected"
  <2> SUFFICES ASSUME NeverLeft(p) PROVE panel[p].presence # "disconnected"
    OBVIOUS
  <2>1. FramesOK(sockets[s].inbox, panel[p].presence)
    BY <1>1, <1>2 DEF IInv, CallOK, Owned
  <2>2. 1 \in 1..Len(sockets[s].inbox) /\ sockets[s].inbox[1] = m
    BY <1>2, <1>3, TailIndex DEF m
  <2>3. ~GoneBy(sockets[s].inbox, 0, panel[p].presence)
    BY <1>2, <2>1, <2>2 DEF FramesOK
  <2>4. 0 \in 0..0 /\ \A i \in 1..0 : FALSE
    OBVIOUS
  <2> QED BY <2>3, <2>4 DEF GoneBy
<1>11. m.kind \notin {"room-state", "peer-joined"}
  BY <1>2 DEF Signals
<1>12. panel' \in [Roles -> Panel] /\ made' \in Nat /\ made <= made'
  BY <1>2, <1>3 DEF IInv, Types
<1>13. panel'[p].presence = "disconnected" =>
         panel[p].presence = "disconnected"
           /\ Head(sockets[s].inbox).kind \notin {"room-state", "peer-joined"}
  BY <1>2, <1>11 DEF m
<1> QED BY <1>1, <1>2, <1>8, <1>9, <1>10, <1>12, <1>13, HeardStep

-----------------------------------------------------------------------------
(* A page connects                                                         *)

LEMMA NextSocketIs ==
  ASSUME IInv, \E s \in Sockets : sockets[s].state = "unused"
  PROVE  \E n \in 0..MaxConnects :
           /\ \A s \in Sockets : sockets[s].state = "unused" <=> s > n
           /\ n + 1 \in Sockets /\ n \in Nat /\ NextSocket = n + 1
<1>1. PICK n \in 0..MaxConnects : \A s \in Sockets : sockets[s].state = "unused" <=> s > n
  BY DEF IInv, SocketsOK
<1> DEFINE k == n + 1
<1>2. k \in Sockets /\ n \in Nat /\ \A s \in Sockets : s \in Nat
  <2>1. PICK s \in Sockets : sockets[s].state = "unused"
    OBVIOUS
  <2>2. s > n /\ s \in 1..MaxConnects
    BY <1>1, <2>1 DEF Sockets
  <2>3. n \in 0..MaxConnects /\ MaxConnects \in Nat
    BY CallAssumption
  <2> QED BY <2>2, <2>3 DEF Sockets
<1>3. NextSocket = k
  <2> DEFINE P(s) == sockets[s].state = "unused"
                     /\ \A t \in 1..(s - 1) : sockets[t].state # "unused"
  <2>1. P(k)
    <3>1. sockets[k].state = "unused" /\ k - 1 = n
      BY <1>1, <1>2
    <3>2. \A t \in 1..n : t \in Sockets /\ ~(t > n)
      <4>1. n \in Nat /\ n \in 0..MaxConnects /\ MaxConnects \in Nat
        BY <1>2, CallAssumption
      <4> HIDE DEF k
      <4> QED BY <4>1 DEF Sockets
    <3> QED BY <1>1, <3>1, <3>2
  <2>2. ASSUME NEW s \in Sockets, P(s) PROVE s = k
    <3>1. s > n /\ s \in Nat
      BY <1>1, <1>2, <2>2
    <3>2. CASE s > k
      <4>1. k \in 1..(s - 1)
        BY <1>2, <3>1, <3>2
      <4>2. sockets[k].state = "unused"
        BY <2>1
      <4> QED BY <2>2, <4>1, <4>2
    <3> QED BY <1>2, <3>1, <3>2
  <2>3. NextSocket = CHOOSE s \in Sockets : P(s)
    BY DEF NextSocket
  <2> HIDE DEF P, k
  <2> QED BY <1>2, <2>1, <2>2, <2>3
<1> QED BY <1>1, <1>2, <1>3

LEMMA ConnectStep ==
  ASSUME IInv, NEW p \in Roles, handleConnect(p)
  PROVE  IInv'
<1>1. PICK n \in 0..MaxConnects :
        /\ \A s \in Sockets : sockets[s].state = "unused" <=> s > n
        /\ n + 1 \in Sockets /\ n \in Nat /\ NextSocket = n + 1
  BY NextSocketIs DEF handleConnect, connectToSignalingRoom
<1> DEFINE k == n + 1
           new == [UnusedSocket EXCEPT !.owner = p, !.state = "connecting"]
<1>2. k \in Sockets /\ n \in Nat /\ \A s \in Sockets : s \in Nat /\ s # 0
  BY <1>1 DEF Sockets
<1>3. NextSocket = k
  BY <1>1
<1>4. /\ panel' = [panel EXCEPT ![p].conn = k, ![p].status = "connecting",
                                ![p].presence = "unknown"]
      /\ sockets' = [sockets EXCEPT ![k] = new]
      /\ UNCHANGED <<ctrl, made, starts, trouble>> /\ Gone(p)
  BY <1>3 DEF handleConnect, connectToSignalingRoom
<1>5. /\ made \in Nat /\ panel \in [Roles -> Panel]
      /\ sockets \in [Sockets -> Socket(made)]
  BY DEF IInv, Types
<1>6. /\ new \in Socket(made) /\ new.owner = p /\ new.state = "connecting"
      /\ new.inbox = <<>> /\ new.handler = "none" /\ ~new.left
  BY EmptySeq, <1>5 DEF UnusedSocket, Socket
<1>7. sockets[k].state = "unused" /\ \A s \in Sockets : s # k => (sockets[s].state = "unused" <=> s > k)
  BY <1>1, <1>2
<1> HIDE DEF new, k
<1>8. /\ sockets' \in [Sockets -> Socket(made)] /\ sockets'[k] = new
      /\ \A s \in Sockets : s # k => sockets'[s] = sockets[s]
  BY <1>2, <1>4, <1>5, <1>6
<1>9. /\ panel' \in [Roles -> Panel] /\ panel'[p].conn = k /\ panel'[p].presence = "unknown"
      /\ \A q \in Roles : panel'[q].stream = panel[q].stream
                          /\ (q # p => panel'[q] = panel[q])
  BY <1>2, <1>4, <1>5 DEF Panel
<1>10. /\ Owned(p)' = Owned(p) \cup {k} /\ k \notin Owned(p)
       /\ \A q \in Roles : q # p => Owned(q)' = Owned(q) /\ k \notin Owned(q)
  BY <1>2, <1>6, <1>7, <1>8 DEF Owned
<1>11. SocketsOK'
  <2>1. \E j \in 0..MaxConnects : \A s \in Sockets : sockets'[s].state = "unused" <=> s > j
    <3>1. k \in 0..MaxConnects
      BY <1>2 DEF Sockets
    <3>2. \A s \in Sockets : sockets'[s].state = "unused" <=> s > k
      BY <1>2, <1>6, <1>7, <1>8
    <3> QED BY <3>1, <3>2
  <2>2. \A s \in Sockets :
          /\ sockets'[s].state \in {"unused", "connecting"} => sockets'[s].handler = "none"
          /\ sockets'[s].state # "open" => sockets'[s].inbox = <<>>
          /\ sockets'[s].left => sockets'[s].state \in {"closing", "closed"}
    BY <1>6, <1>8 DEF IInv, SocketsOK
  <2>3. \A s \in Sockets : InRoom(s)' => s # k /\ InRoom(s)
    BY <1>6, <1>8 DEF InRoom
  <2>4. \A q \in Roles : \A s, t \in Owned(q)' : InRoom(s)' /\ InRoom(t)' => s = t
    BY <1>2, <1>10, <2>3 DEF IInv, SocketsOK, Owned
  <2> QED BY <2>1, <2>2, <2>4 DEF SocketsOK
<1>12. HeldOK(p)'
  <2>1. \A t \in Owned(p) : t \in Sockets /\ t <= k
    BY <1>1, <1>2 DEF Owned, k
  <2>2. ASSUME NEW s \in Owned(p), sockets'[s].state # "closed"
        PROVE  \E t \in Owned(p) : t <= s /\ sockets'[t].left
    <3>1. s # k /\ sockets[s].state # "closed"
      BY <1>8, <1>10, <2>1, <2>2
    <3>2. panel[p].conn # s
      BY <1>4, <3>1 DEF Gone
    <3>3. PICK t \in Owned(p) : t <= s /\ sockets[t].left
      BY <3>1, <3>2 DEF IInv, HeldOK
    <3> QED BY <1>8, <1>10, <2>1, <3>3
  <2>3. k <= k
    BY <1>2
  <2> QED BY <1>9, <1>10, <2>1, <2>2, <2>3 DEF HeldOK
<1>13. ASSUME NEW q \in Roles, q # p PROVE HeldOK(q)'
  <2>1. \A t \in Owned(q) : sockets'[t] = sockets[t]
    BY <1>8, <1>10, <1>13 DEF Owned
  <2> QED BY <1>9, <1>10, <1>13, <2>1 DEF IInv, HeldOK
<1>14. \A q \in Roles : NeverLeft(q)' => NeverLeft(q)
  BY <1>8, <1>10 DEF NeverLeft, Owned
<1>15. ASSUME NEW q \in Roles, NEW s \in Owned(q), NeverLeft(q), sockets[s].state = "open"
       PROVE  FramesOK(sockets'[s].inbox, panel'[q].presence) /\ Announced(q, s)'
  <2>1. s \in Sockets /\ s # k /\ sockets'[s] = sockets[s]
    BY <1>8, <1>10 DEF Owned
  <2>2. FramesOK(sockets[s].inbox, panel[q].presence) /\ Announced(q, s)
    BY <1>15 DEF IInv, CallOK
  <2>3. panel'[q].presence = panel[q].presence \/ panel'[q].presence # "disconnected"
    BY <1>9
  <2>4. FramesOK(sockets'[s].inbox, panel'[q].presence)
    BY <2>1, <2>2, <2>3, LessGone DEF FramesOK
  <2>5. \A t \in Owned(Other(q))' : sockets'[t].handler = "loop" =>
          t \in Owned(Other(q)) /\ sockets[t].handler = "loop"
    BY <1>6, <1>8, <1>10, Roles2 DEF Owned
  <2>6. Announced(q, s)'
    BY <2>1, <2>2, <2>3, <2>5, LessGone DEF Announced, InRoom
  <2> QED BY <2>4, <2>6
<1>16. \A q \in Roles : CallOK(q)'
  <2> SUFFICES ASSUME NEW q \in Roles, NeverLeft(q)'
               PROVE  /\ panel'[q].presence = "disconnected" => ~HasController(q)'
                      /\ \A t \in Owned(q)' :
                           /\ sockets'[t].state = "connecting" =>
                                panel'[q].presence # "disconnected"
                           /\ sockets'[t].state = "open" =>
                                /\ FramesOK(sockets'[t].inbox, panel'[q].presence)
                                /\ Announced(q, t)'
    BY DEF CallOK
  <2>1. NeverLeft(q) /\ CallOK(q)
    BY <1>14 DEF IInv
  <2>2. panel'[q].presence = "disconnected" => q # p /\ ~HasController(q)'
    BY <1>4, <1>9, <2>1 DEF CallOK, HasController
  <2>3. ASSUME NEW t \in Owned(q)'
        PROVE  /\ sockets'[t].state = "connecting" => panel'[q].presence # "disconnected"
               /\ sockets'[t].state = "open" => t \in Owned(q) /\ sockets[t].state = "open"
    <3>1. CASE t = k
      BY <1>6, <1>8, <1>9, <1>10, <2>2, <2>3, <3>1
    <3>2. CASE t # k
      BY <1>8, <1>9, <1>10, <2>1, <2>3, <3>2 DEF CallOK, Owned
    <3> QED BY <3>1, <3>2
  <2> QED BY <1>15, <2>1, <2>2, <2>3
<1>17. \A q \in Roles : CtrlOK(ctrl'[q]) /\ (panel'[q].stream => HasController(q)')
  BY <1>4, <1>9 DEF IInv, HasController
<1> QED BY <1>4, <1>8, <1>9, <1>11, <1>12, <1>13, <1>16, <1>17 DEF IInv, Types

-----------------------------------------------------------------------------
(* The invariant holds                                                     *)

LEMMA InitHolds == Init => IInv
<1> SUFFICES ASSUME Init PROVE IInv
  OBVIOUS
<1>1. NoController \in Ctrl(0) /\ CtrlOK(NoController) /\ NoController.gen = 0
  BY NewIsOK DEF NoController, Good
<1>2. IdlePanel \in Panel /\ UnusedSocket \in Socket(0)
  BY EmptySeq DEF IdlePanel, Panel, UnusedSocket, Socket, Roles
<1>3. /\ made = 0 /\ starts = 0 /\ trouble = 0
      /\ \A p \in Roles : panel[p] = IdlePanel /\ ctrl[p] = NoController
      /\ \A s \in Sockets : sockets[s] = UnusedSocket
  BY DEF Init
<1>4. Types
  BY <1>1, <1>2, CallAssumption DEF Init, Types
<1>5. \A p \in Roles : Owned(p) = {}
  BY <1>3 DEF Owned, UnusedSocket
<1>6. SocketsOK
  <2>1. 0 \in 0..MaxConnects /\ \A s \in Sockets : s > 0
    BY CallAssumption DEF Sockets
  <2>2. \A s \in Sockets : sockets[s].state = "unused" /\ sockets[s].handler = "none"
                           /\ sockets[s].inbox = <<>> /\ ~sockets[s].left
    BY <1>3 DEF UnusedSocket
  <2> QED BY <1>5, <2>1, <2>2 DEF SocketsOK
<1>7. \A p \in Roles : panel[p].conn = 0 /\ panel[p].presence = "unknown" /\ ~panel[p].stream
  BY <1>3 DEF IdlePanel
<1>8. \A p \in Roles : HeldOK(p) /\ CallOK(p)
  BY <1>5, <1>7 DEF HeldOK, CallOK
<1> QED BY <1>1, <1>3, <1>4, <1>6, <1>7, <1>8 DEF IInv

LEMMA NextKeeps == ASSUME IInv, Next PROVE IInv'
<1>1. ASSUME NEW p \in Roles, Press(p) PROVE IInv'
  BY <1>1, ConnectStep, ConnectRefusedStep, DisconnectStep, SendTestSignalStep, CloseWebRtcStep
     DEF Press
<1>2. ASSUME NEW p \in Roles, Negotiate(p) PROVE IInv'
  BY <1>2, OfferCreatedStep, OfferSetStep, AnswerTakenStep, OfferTakenStep,
     AnswerCreatedStep, AnswerSetStep, CandidateAddedStep DEF Negotiate
<1>3. ASSUME NEW s \in Sockets, Hear(s) PROVE IInv'
  BY <1>3, RoomStateHeardStep, PeerJoinedHeardStep, PeerLeftHeardStep, SignalHeardStep DEF Hear
<1>4. ASSUME NEW s \in Sockets, Serve(s) PROVE IInv'
  BY <1>4, JoinStep, WriteRoomStateStep, NotifyPeerJoinedStep, RelayStep, ReadFailsStep,
     LeaveStep DEF Serve
<1> QED BY <1>1, <1>2, <1>3, <1>4, LocalCandidateStep, StartWebRtcStep, RejoinStep,
           SocketClosedStep, SocketBreaksStep DEF Next

LEMMA StutterKeeps == ASSUME IInv, UNCHANGED vars PROVE IInv'
<1>1. UNCHANGED <<panel, ctrl, sockets, made, starts, trouble>>
  BY DEF vars
<1>2. \A p \in Roles : CtrlOK(ctrl'[p]) /\ (HasController(p)' <=> HasController(p))
  BY <1>1 DEF IInv, HasController
<1> QED BY <1>1, <1>2, SocketsAreCalm, CalmStep DEF IInv, Types

(* Whatever the two pages do and in whatever order frames, close events and *)
(* operations of the peer connections come, the invariant holds.           *)
THEOREM Invariance == Spec => []IInv
<1>1. IInv /\ [Next]_vars => IInv'
  BY NextKeeps, StutterKeeps
<1> QED BY InitHolds, <1>1, PTL DEF Spec

(* The panels, the controllers and the sockets keep their shape, the        *)
(* connection a page holds is a socket of its own, and the service has one  *)
(* handler of a role in the room (SignalingPanel.tsx, peerConnection.ts).   *)
THEOREM TypeCorrectness == Spec => []TypeOK
<1>1. IInv => TypeOK
  <2> SUFFICES ASSUME IInv PROVE TypeOK
    OBVIOUS
  <2>1. starts \in 0..MaxStarts /\ trouble \in 0..MaxTrouble
    BY DEF IInv, Types
  <2>2. ASSUME NEW p \in Roles
        PROVE  /\ panel[p].status \in {"idle", "connecting", "open", "closing", "closed", "error"}
               /\ panel[p].presence \in {"unknown", "waiting", "connected", "disconnected"}
               /\ panel[p].stream \in BOOLEAN
    BY DEF IInv, Types, Panel
  <2>3. ASSUME NEW p \in Roles
        PROVE  /\ ctrl[p].gen \in 0..made /\ ctrl[p].remote \in 0..made
               /\ ctrl[p].signaling \in {"stable", "have-local-offer", "have-remote-offer"}
               /\ ctrl[p].gathered \in 0..MaxCandidates
    BY DEF IInv, Types, Ctrl
  <2>4. ASSUME NEW p \in Roles
        PROVE  /\ panel[p].conn \in {0} \cup Owned(p)
               /\ \A s, t \in Owned(p) : InRoom(s) /\ InRoom(t) => s = t
    BY DEF IInv, HeldOK, SocketsOK
  <2> QED BY <2>1, <2>2, <2>3, <2>4 DEF TypeOK
<1> QED BY Invariance, <1>1, PTL

(* connectionRef names every socket the page has open, unless it opened it  *)
(* while one from before a rejoin was still to close: onClose of the old    *)
(* one clears the ref of the new one (SignalingPanel.tsx).                  *)
THEOREM OpenSocketHeld == Spec => []OpenSocketIsHeld
<1>1. IInv => OpenSocketIsHeld
  <2> SUFFICES ASSUME IInv, NEW p \in Roles, NEW s \in Owned(p),
                      sockets[s].state \in {"connecting", "open"}, panel[p].conn # s
               PROVE  \E t \in Owned(p) : t < s /\ sockets[t].left
    BY DEF OpenSocketIsHeld
  <2>1. PICK t \in Owned(p) : t <= s /\ sockets[t].left
    BY DEF IInv, HeldOK
  <2>2. t # s /\ t \in Int /\ s \in Int
    BY <2>1 DEF IInv, SocketsOK, Owned, Sockets
  <2> QED BY <2>1, <2>2
<1> QED BY Invariance, <1>1, PTL

(* A candidate the controller was given is applied, is in an operation of   *)
(* the browser, or waits in pendingIceCandidates for a description that is  *)
(* still to come (flushPendingIceCandidates of peerConnection.ts).          *)
THEOREM NoCandidateLost == Spec => []NoCandidateIsLost
<1>1. IInv => NoCandidateIsLost
  <2> SUFFICES ASSUME IInv, NEW p \in Roles, NEW m \in ctrl[p].received \ ctrl[p].applied
               PROVE  \/ m \in InChain(ctrl[p])
                      \/ m \in ToSet(ctrl[p].pending) /\ ~Forgotten(ctrl[p], m)
    BY DEF NoCandidateIsLost
  <2>1. CtrlOK(ctrl[p])
    BY DEF IInv
  <2>2. InChain(ctrl[p]) = Held(ctrl[p].chain)
    BY DEF InChain, Held
  <2> QED BY <2>1, <2>2 DEF CtrlOK, NothingLost, Forgotten
<1> QED BY Invariance, <1>1, PTL

(* A page that was told peer-left has no controller, and shows no stream     *)
(* without one, unless it joined anew before a socket had closed             *)
(* (onMessage and closeWebRtcPeerConnection of SignalingPanel.tsx).          *)
THEOREM GoneNoCall == Spec => []GoneHasNoCall
<1>1. IInv => GoneHasNoCall
  BY DEF IInv, CallOK, GoneHasNoCall
<1> QED BY Invariance, <1>1, PTL

-----------------------------------------------------------------------------
(* Without trouble: a page keeps the socket it has, and every offer is on   *)
(* its way to its answer                                                    *)

Has(q, kind) == \E m \in ToSet(q) : m.kind = kind

(* A frame that tells the host that the guest is there.                     *)
Tells(m) == m.kind # "room-state" \/ m.tracks

Does(c, op) == \E t \in ToSet(c.chain) : t.op = op

(* A task that an answer comes of.                                          *)
Answers(t) ==
  t.op \in {"createAnswer", "localAnswer"} \/ (t.op = "add" /\ t.then = "answer")

Answering(c) == \E t \in ToSet(c.chain) : Answers(t)

QuietSockets ==
  \A s \in Sockets :
    /\ sockets[s].state \in {"unused", "connecting", "open"}
    /\ sockets[s].state = "open" => sockets[s].handler \in {"write", "notify", "loop"}
    /\ ~Has(sockets[s].inbox, "peer-left")

(* A page that has a call, or shows itself open, has its socket open.       *)
QuietPages ==
  \A p \in Roles :
    panel[p].status = "open" \/ HasController(p) => IsOpen(panel[p].conn)

(* What the host has heard, or is to hear, is heard of a guest that is      *)
(* there.                                                                   *)
Told ==
  \/ panel["host"].presence = "connected"
  \/ HasController("host")
  \/ \E s \in Owned("host") :
       sockets[s].snapshot \/ \E m \in ToSet(sockets[s].inbox) : Tells(m)

GuestIsThere == \E t \in Owned("guest") : IsOpen(t)

(* From the offer's sending to the setting of the answer.                   *)
OnItsWay ==
  \/ \E s \in Owned("host") : Has(sockets[s].outbox, "offer")
  \/ \E s \in Owned("guest") : Has(sockets[s].inbox, "offer")
  \/ Does(ctrl["guest"], "remoteOffer")
  \/ ctrl["guest"].signaling = "have-remote-offer" /\ Answering(ctrl["guest"])
  \/ \E s \in Owned("guest") : Has(sockets[s].outbox, "answer")
  \/ \E s \in Owned("host") : Has(sockets[s].inbox, "answer")
  \/ Does(ctrl["host"], "remoteAnswer")

OfferGoesOn ==
  ctrl["host"].signaling = "have-local-offer" => HasController("host") /\ OnItsWay

Undisturbed == QuietSockets /\ QuietPages /\ (Told => GuestIsThere) /\ OfferGoesOn

Quiet == trouble = 0 => Undisturbed

LEMMA HasAppend ==
  ASSUME NEW S, NEW q \in Seq(S), NEW e \in S
  PROVE  \A kind : Has(Append(q, e), kind) <=> Has(q, kind) \/ e.kind = kind
BY AppendSet DEF Has

LEMMA HasTail ==
  ASSUME NEW S, NEW q \in Seq(S), q # <<>>
  PROVE  \A kind : Has(q, kind) <=> Head(q).kind = kind \/ Has(Tail(q), kind)
BY HeadTailSet DEF Has

LEMMA HasNone == \A kind : ~Has(<<>>, kind)
BY EmptySet DEF Has

(* What a controller does of its own leaves what it is asked to do.         *)
Goes(c, d) ==
  /\ ToSet(c.chain) \subseteq ToSet(d.chain)
  /\ d.signaling = c.signaling /\ d.gen = c.gen

LEMMA AskGoes ==
  ASSUME NEW n \in Nat, NEW c \in Ctrl(n), NEW t \in Tasks(n)
  PROVE  Goes(c, Ask(c, t)) /\ t \in ToSet(Ask(c, t).chain)
<1>1. /\ Ask(c, t).chain = Append(c.chain, t) /\ Ask(c, t).signaling = c.signaling
      /\ Ask(c, t).gen = c.gen
      /\ c.chain \in Seq(Tasks(n))
  BY DEF Ask, Ctrl
<1> QED BY <1>1, AppendSet DEF Goes

LEMMA ContinueGoes ==
  ASSUME NEW n \in Nat, NEW c \in Ctrl(n), NEW then \in {"answer", "end"}
  PROVE  Goes(c, Continue(c, then)) /\ (then = "answer" => Answering(Continue(c, then)))
<1>1. CASE then = "end"
  BY <1>1 DEF Continue, Goes
<1>2. CASE then = "answer"
  <2> DEFINE d == attachLocalMediaTracks(c, "guest")
             t == Step("createAnswer", Presence("none"))
  <2>1. d \in Ctrl(n) /\ d.chain = c.chain /\ d.signaling = c.signaling /\ d.gen = c.gen
    BY AttachIsOK DEF attachLocalMediaTracks, Ctrl
  <2>2. Continue(c, then) = Ask(d, t) /\ t \in Tasks(n) /\ t.op = "createAnswer"
    BY <1>2, PresenceIsMsg DEF Continue, Step, Task
  <2> HIDE DEF d, t
  <2> QED BY <2>1, <2>2, AskGoes DEF Goes, Answering, Answers
<1> QED BY <1>1, <1>2

LEMMA FlushGoes ==
  ASSUME NEW n \in Nat, NEW c \in Ctrl(n), NEW then \in {"answer", "end"}
  PROVE  Goes(c, Flush(c, then)) /\ (then = "answer" => Answering(Flush(c, then)))
<1>1. CASE c.remote = 0 \/ c.pending = <<>>
  BY <1>1, ContinueGoes DEF Flush
<1>2. CASE ~(c.remote = 0 \/ c.pending = <<>>)
  <2> DEFINE d == [c EXCEPT !.pending = <<>>]
             t == Task("add", Head(c.pending), Tail(c.pending), then)
  <2>1. c.pending \in Seq(Candidate(n))
    BY DEF Ctrl
  <2>2. Head(c.pending) \in Candidate(n) /\ Tail(c.pending) \in Seq(Candidate(n))
    BY <1>2, <2>1, TailIndex
  <2>3. t \in Tasks(n) /\ t.op = "add" /\ t.then = then
    BY <2>2 DEF Task, Tasks, Ops, Candidate
  <2>4. d \in Ctrl(n) /\ d.chain = c.chain /\ d.signaling = c.signaling /\ d.gen = c.gen
    BY EmptySeq DEF Ctrl
  <2>5. Flush(c, then) = Ask(d, t)
    BY <1>2 DEF Flush
  <2> HIDE DEF d, t
  <2> QED BY <2>3, <2>4, <2>5, AskGoes DEF Goes, Answering, Answers
<1> QED BY <1>1, <1>2

LEMMA AfterAddGoes ==
  ASSUME NEW n \in Nat, NEW c \in Ctrl(n), NEW t \in Tasks(n)
  PROVE  Goes(c, AfterAdd(c, t)) /\ (t.then = "answer" => Answering(AfterAdd(c, t)))
<1>1. t.rest \in Seq(Candidate(n)) /\ t.then \in {"answer", "end", "flush"}
  BY DEF Tasks
<1>2. CASE t.rest # <<>>
  <2> DEFINE u == Task("add", Head(t.rest), Tail(t.rest), t.then)
  <2>1. Head(t.rest) \in Candidate(n) /\ Tail(t.rest) \in Seq(Candidate(n))
    BY <1>1, <1>2, TailIndex
  <2>2. u \in Tasks(n) /\ u.op = "add" /\ u.then = t.then
    BY <1>1, <2>1 DEF Task, Tasks, Ops, Candidate
  <2>3. AfterAdd(c, t) = Ask(c, u)
    BY <1>2 DEF AfterAdd
  <2> HIDE DEF u
  <2> QED BY <2>2, <2>3, AskGoes DEF Answering, Answers
<1>3. CASE t.rest = <<>> /\ t.then = "flush"
  BY <1>3, FlushGoes DEF AfterAdd
<1>4. CASE t.rest = <<>> /\ t.then # "flush"
  BY <1>1, <1>4, ContinueGoes DEF AfterAdd
<1> QED BY <1>2, <1>3, <1>4

LEMMA SignalGoes ==
  ASSUME NEW n \in Nat, NEW c \in Ctrl(n), NEW m \in Signal(n)
  PROVE  /\ Goes(c, handleSignal(c, m))
         /\ m.kind = "offer" => Does(handleSignal(c, m), "remoteOffer")
         /\ m.kind = "answer" => Does(handleSignal(c, m), "remoteAnswer")
<1>1. CASE m.kind \in {"offer", "answer"}
  <2> DEFINE d == WithPc(c)
             op == IF m.kind = "offer" THEN "remoteOffer" ELSE "remoteAnswer"
  <2>1. d \in Ctrl(n) /\ d.chain = c.chain /\ d.signaling = c.signaling /\ d.gen = c.gen
    BY DEF WithPc, Ctrl
  <2>2. Step(op, m) \in Tasks(n) /\ Step(op, m).op = op
    BY <1>1, EmptySeq DEF Step, Task, Tasks, Ops, Signal
  <2>3. handleSignal(c, m) = Ask(d, Step(op, m))
    BY <1>1 DEF handleSignal
  <2>4. (m.kind = "offer" => op = "remoteOffer") /\ (m.kind = "answer" => op = "remoteAnswer")
    OBVIOUS
  <2> HIDE DEF d, op
  <2> QED BY <2>1, <2>2, <2>3, <2>4, AskGoes DEF Goes, Does
<1>2. CASE m.kind = "candidate"
  <2> DEFINE d == [c EXCEPT !.received = @ \cup {m}]
             e == [d EXCEPT !.pending = Append(@, m)]
             t == Task("add", m, <<>>, "flush")
  <2>1. /\ d \in Ctrl(n) /\ d.chain = c.chain /\ d.signaling = c.signaling /\ d.gen = c.gen
        /\ e.chain = c.chain /\ e.signaling = c.signaling /\ e.gen = c.gen
    BY <1>2 DEF Ctrl, Signal, Candidate
  <2>2. t \in Tasks(n)
    BY <1>2, EmptySeq DEF Task, Tasks, Ops, Candidate, Signal
  <2>3. handleSignal(c, m) = e \/ handleSignal(c, m) = Ask(d, t)
    BY <1>2 DEF handleSignal, addRemoteIceCandidate
  <2> HIDE DEF d, e, t
  <2> QED BY <1>2, <2>1, <2>2, <2>3, AskGoes DEF Goes
<1> QED BY <1>1, <1>2 DEF Signal, Signals

(* A page has one socket at most, and its handler is in the room once it is *)
(* open.                                                                    *)
LEMMA OneSocket ==
  ASSUME IInv, QuietSockets, NEW p \in Roles
  PROVE  /\ \A s \in Owned(p) : s = panel[p].conn
         /\ \A s \in Sockets : InRoom(s) <=> IsOpen(s)
<1>1. HeldOK(p) /\ SocketsOK
  BY DEF IInv
<1>2. \A s \in Owned(p) : sockets[s].state # "closed" /\ ~sockets[s].left
  BY <1>1 DEF QuietSockets, SocketsOK, Owned
<1>3. \A s \in Owned(p) : s = panel[p].conn
  BY <1>1, <1>2 DEF HeldOK
<1>4. \A s \in Sockets : s # 0
  BY DEF Sockets
<1>5. \A s \in Sockets : InRoom(s) <=> IsOpen(s)
  BY <1>1, <1>4 DEF QuietSockets, SocketsOK, InRoom, IsOpen
<1> QED BY <1>3, <1>5

LEMMA PeerIsOpen ==
  ASSUME IInv, QuietSockets, NEW s \in Sockets
  PROVE  /\ (\E t \in Owned(Other(sockets[s].owner)) : IsOpen(t)) => PeerOf(s) # 0
         /\ PeerOf(s) # 0 => IsOpen(PeerOf(s))
<1>1. \A t \in Sockets : InRoom(t) <=> IsOpen(t)
  BY Roles2, OneSocket
<1> QED BY <1>1, PeerIsThere DEF Owned

-----------------------------------------------------------------------------
(* The operations of the peer connections                                   *)

(* The sockets are what they were, but for their outboxes.                  *)
Alike ==
  \A s \in Sockets :
    /\ sockets'[s].owner = sockets[s].owner /\ sockets'[s].state = sockets[s].state
    /\ sockets'[s].handler = sockets[s].handler /\ sockets'[s].inbox = sockets[s].inbox
    /\ sockets'[s].snapshot = sockets[s].snapshot

LEMMA AlikeStays ==
  ASSUME IInv, Undisturbed, Alike,
         \A p \in Roles :
           /\ panel'[p].conn = panel[p].conn /\ panel'[p].presence = panel[p].presence
           /\ panel'[p].status = "open" \/ HasController(p)' =>
                panel[p].status = "open" \/ HasController(p),
         HasController("host")' => Told
  PROVE  /\ QuietSockets' /\ QuietPages' /\ (Told => GuestIsThere)'
         /\ \A p \in Roles : Owned(p)' = Owned(p)
<1>1. \A p \in Roles : Owned(p)' = Owned(p)
  BY DEF Alike, Owned
<1>2. QuietSockets'
  BY DEF Alike, Undisturbed, QuietSockets, Has
<1>3. \A p \in Roles : panel[p].conn \in {0} \cup Sockets
  BY DEF IInv, HeldOK, Owned
<1>4. \A s \in {0} \cup Sockets : IsOpen(s)' <=> IsOpen(s)
  BY DEF Alike, IsOpen
<1>5. QuietPages'
  BY <1>3, <1>4 DEF Undisturbed, QuietPages
<1>6. Told' => Told
  BY <1>1, Roles2 DEF Told, Alike, Owned
<1>7. GuestIsThere => GuestIsThere'
  BY <1>1, <1>4, Roles2 DEF GuestIsThere, Owned
<1> QED BY <1>1, <1>2, <1>5, <1>6, <1>7 DEF Undisturbed

(* The chain of p is what its first operation leaves and the others.        *)
LEMMA OverGoes ==
  ASSUME IInv, NEW p \in Roles, NEW op, Running(p, op)
  PROVE  /\ ToSet(ctrl[p].chain) = {Asked(p)} \cup ToSet(Over(p).chain)
         /\ Over(p).signaling = ctrl[p].signaling
         /\ made \in Nat /\ Over(p) \in Ctrl(made) /\ Asked(p) \in Tasks(made)
         /\ Over(p).gen = ctrl[p].gen /\ HasController(p) /\ Asked(p).op = op
<1>1. /\ ctrl[p].chain \in Seq(Tasks(made)) /\ ctrl[p].chain # <<>>
      /\ ctrl[p] \in Ctrl(made)
  BY DEF IInv, Types, Ctrl, Running
<1>2. Over(p).chain = Tail(ctrl[p].chain) /\ Asked(p) = Head(ctrl[p].chain)
  BY <1>1 DEF Over, Asked, Ctrl
<1> QED BY <1>1, <1>2, HeadTailSet, RunningIsOK

(* One page's operation is over, and it was none that takes a description.  *)
LEMMA OpKeeps ==
  ASSUME IInv, Undisturbed, NEW p \in Roles, NEW op, Running(p, op),
         op \notin {"remoteOffer", "remoteAnswer"},
         NEW c, Goes(Over(p), c), ctrl' = [ctrl EXCEPT ![p] = c],
         p = "guest" /\ Answers(Asked(p)) /\ ctrl[p].signaling = "have-remote-offer"
           => Answering(c),
         UNCHANGED <<panel, sockets>>
  PROVE  Undisturbed'
<1>1. /\ ctrl'[p] = c /\ \A q \in Roles \ {p} : ctrl'[q] = ctrl[q]
      /\ \A q \in Roles : HasController(q)' <=> HasController(q)
  <2>1. c.gen = ctrl[p].gen
    BY OverGoes DEF Goes
  <2> QED BY <2>1 DEF IInv, Types, HasController
<1>2. /\ ToSet(ctrl[p].chain) = {Asked(p)} \cup ToSet(Over(p).chain) /\ Asked(p).op = op
      /\ Over(p).signaling = ctrl[p].signaling
  BY OverGoes
<1>3. /\ QuietSockets' /\ QuietPages' /\ (Told => GuestIsThere)'
      /\ \A q \in Roles : Owned(q)' = Owned(q)
  BY <1>1, AlikeStays, Roles2 DEF Alike, Told
<1>4. /\ c.signaling = ctrl[p].signaling
      /\ \A t \in ToSet(ctrl[p].chain) : t = Asked(p) \/ t \in ToSet(c.chain)
  BY <1>2 DEF Goes
<1>5. \A q \in Roles : ctrl'[q].signaling = ctrl[q].signaling
  BY <1>1, <1>4
<1>6. /\ Does(ctrl["guest"], "remoteOffer") => Does(ctrl'["guest"], "remoteOffer")
      /\ Does(ctrl["host"], "remoteAnswer") => Does(ctrl'["host"], "remoteAnswer")
  BY <1>1, <1>2, <1>4, Roles2 DEF Does
<1>7. ctrl["guest"].signaling = "have-remote-offer" /\ Answering(ctrl["guest"])
        => Answering(ctrl'["guest"])
  BY <1>1, <1>4, Roles2 DEF Answering
<1>8. OnItsWay => OnItsWay'
  BY <1>3, <1>5, <1>6, <1>7, Roles2 DEF OnItsWay
<1> QED BY <1>1, <1>3, <1>5, <1>8, Roles2 DEF Undisturbed, OfferGoesOn

LEMMA OfferCreatedKeeps == ASSUME IInv, Undisturbed, OfferCreated PROVE Undisturbed'
<1> DEFINE c == Over("host")
           t == Step("localOffer", Presence("none"))
<1>1. Running("host", "createOffer") /\ "host" \in Roles /\ "host" # "guest"
  BY Roles2 DEF OfferCreated
<1>2. made \in Nat /\ c \in Ctrl(made) /\ c.gen = ctrl["host"].gen /\ t \in Tasks(made)
  BY <1>1, OverGoes, PresenceIsMsg
<1>3. Goes(c, Ask(c, t)) /\ Ask(c, t).gen = c.gen
  BY <1>2, AskGoes DEF Ask, Ctrl
<1>4. ctrl' = [ctrl EXCEPT !["host"] = Ask(c, t)] /\ UNCHANGED <<panel, sockets>>
  BY DEF OfferCreated, Becomes, PcOnly
<1> HIDE DEF t
<1> QED BY <1>1, <1>2, <1>3, <1>4, OpKeeps

LEMMA AnswerCreatedKeeps == ASSUME IInv, Undisturbed, AnswerCreated PROVE Undisturbed'
<1> DEFINE c == Over("guest")
           t == Step("localAnswer", Message("of", 0, c.remote, FALSE))
<1>1. Running("guest", "createAnswer") /\ "guest" \in Roles
  BY Roles2 DEF AnswerCreated
<1>2. /\ made \in Nat /\ c \in Ctrl(made) /\ c.gen = ctrl["guest"].gen
      /\ c.signaling = ctrl["guest"].signaling
  BY <1>1, OverGoes
<1>3. t \in Tasks(made) /\ t.op = "localAnswer"
  BY <1>2, EmptySeq DEF Message, Msg, Kinds, Step, Task, Tasks, Ops, Ctrl
<1>4. UNCHANGED <<panel, sockets>>
  BY DEF AnswerCreated, PcOnly
<1>5. CASE c.signaling = "have-remote-offer"
  <2>1. ctrl' = [ctrl EXCEPT !["guest"] = Ask(c, t)]
    BY <1>5 DEF AnswerCreated, Becomes
  <2>2. Goes(c, Ask(c, t)) /\ Ask(c, t).gen = c.gen /\ Answering(Ask(c, t))
    BY <1>2, <1>3, AskGoes DEF Ask, Ctrl, Answering, Answers
  <2> HIDE DEF t
  <2> QED BY <1>1, <1>2, <1>4, <2>1, <2>2, OpKeeps
<1>6. CASE c.signaling # "have-remote-offer"
  <2>1. ctrl' = [ctrl EXCEPT !["guest"] = c]
    BY <1>6 DEF AnswerCreated, Becomes
  <2> QED BY <1>1, <1>2, <1>4, <1>6, <2>1, OpKeeps DEF Goes
<1> QED BY <1>5, <1>6

LEMMA CandidateAddedKeeps ==
  ASSUME IInv, Undisturbed, NEW p \in Roles, CandidateAdded(p)
  PROVE  Undisturbed'
<1> DEFINE t == Asked(p)
           o == Over(p)
           d == Applied(o, t.m)
           e == [o EXCEPT !.pending = Append(@, t.m)]
<1>1. Running(p, "add") /\ UNCHANGED <<panel, sockets>>
  BY DEF CandidateAdded, PcOnly
<1>2. /\ made \in Nat /\ o \in Ctrl(made) /\ t \in Tasks(made) /\ t.op = "add"
      /\ o.gen = ctrl[p].gen
  BY <1>1, OverGoes
<1>3. t.m \in Candidate(made) /\ o.pending \in Seq(Candidate(made))
  BY <1>2 DEF Tasks, Candidate, Ctrl
<1>4. d \in Ctrl(made) /\ d.chain = o.chain /\ d.signaling = o.signaling /\ d.gen = o.gen
  BY <1>2, <1>3 DEF Applied, Ctrl
<1>5. e \in Ctrl(made) /\ e.chain = o.chain /\ e.signaling = o.signaling /\ e.gen = o.gen
  BY <1>2, <1>3, AppendProperties DEF Ctrl
<1>6. PICK c \in {d, e} : ctrl' = [ctrl EXCEPT ![p] = AfterAdd(c, t)]
  BY DEF CandidateAdded, Becomes
<1>7. c \in Ctrl(made) /\ c.chain = o.chain /\ c.signaling = o.signaling /\ c.gen = o.gen
  BY <1>4, <1>5, <1>6
<1> HIDE DEF d, e
<1>8. /\ Goes(o, AfterAdd(c, t))
      /\ t.then = "answer" => Answering(AfterAdd(c, t))
  BY <1>2, <1>7, AfterAddGoes DEF Goes
<1>9. Answers(t) => t.then = "answer"
  BY <1>2 DEF Answers
<1> QED BY <1>1, <1>2, <1>6, <1>7, <1>8, <1>9, OpKeeps DEF Goes

LEMMA SentIs ==
  ASSUME IInv, NEW p \in Roles, CanSend(p), NEW m \in Signal(made), sockets' = Sent(p, m)
  PROVE  /\ Alike
         /\ \E s \in Owned(p) : Has(sockets'[s].outbox, m.kind)
         /\ \A s \in Sockets, kind \in Kinds :
              Has(sockets[s].outbox, kind) => Has(sockets'[s].outbox, kind)
<1>1. PICK s \in Owned(p) : s = panel[p].conn /\ s \in Sockets
  BY DEF IInv, HeldOK, Owned, CanSend, IsOpen
<1>2. /\ sockets \in [Sockets -> Socket(made)] /\ sockets[s] \in Socket(made)
      /\ sockets[s].outbox \in Seq(Signal(made))
  BY <1>1 DEF IInv, Types, Socket
<1>3. sockets' = [sockets EXCEPT ![s].outbox = Append(sockets[s].outbox, m)]
  BY <1>1 DEF Sent
<1>4. Alike
  BY <1>2, <1>3 DEF Socket, Alike
<1>5. /\ sockets'[s].outbox = Append(sockets[s].outbox, m)
      /\ \A t \in Sockets \ {s} : sockets'[t].outbox = sockets[t].outbox
  BY <1>1, <1>2, <1>3 DEF Socket
<1>6. \A kind : Has(sockets'[s].outbox, kind) <=> Has(sockets[s].outbox, kind) \/ m.kind = kind
  BY <1>2, <1>5, HasAppend
<1>7. \A t \in Sockets, kind \in Kinds :
        Has(sockets[t].outbox, kind) => Has(sockets'[t].outbox, kind)
  BY <1>5, <1>6
<1> QED BY <1>1, <1>4, <1>6, <1>7

LEMMA CallCanSend ==
  ASSUME Undisturbed, NEW p \in Roles, HasController(p)
  PROVE  CanSend(p)
BY DEF Undisturbed, QuietPages, CanSend

LEMMA OfferSetKeeps == ASSUME IInv, Undisturbed, OfferSet PROVE Undisturbed'
<1> DEFINE c == [Over("host") EXCEPT !.signaling = "have-local-offer", !.local = TRUE]
           m == Message("offer", c.gen, 0, c.tracks)
<1>1. Running("host", "localOffer") /\ "host" \in Roles
  BY Roles2 DEF OfferSet
<1>2. /\ made \in Nat /\ Over("host") \in Ctrl(made)
      /\ Over("host").gen = ctrl["host"].gen /\ HasController("host")
  BY <1>1, OverGoes
<1>3. CanSend("host")
  BY <1>1, <1>2, CallCanSend
<1>4. c \in Ctrl(made) /\ c.gen = ctrl["host"].gen
  BY <1>2 DEF Ctrl
<1>5. m \in Signal(made) /\ m.kind = "offer"
  BY <1>4 DEF Message, Msg, Kinds, Signals, Signal, Ctrl
<1>6. /\ sockets' = Sent("host", m) /\ ctrl' = [ctrl EXCEPT !["host"] = Flush(c, "end")]
      /\ UNCHANGED panel
  BY <1>3 DEF OfferSet, Becomes
<1> HIDE DEF c, m
<1>7. Flush(c, "end").gen = c.gen
  BY <1>2, <1>4, FlushGoes DEF Goes
<1>8. \A q \in Roles : HasController(q)' <=> HasController(q)
  BY <1>4, <1>6, <1>7 DEF IInv, Types, HasController
<1>9. /\ Alike /\ \E s \in Owned("host") : Has(sockets'[s].outbox, "offer")
  BY <1>1, <1>3, <1>5, <1>6, SentIs
<1>10. /\ QuietSockets' /\ QuietPages' /\ (Told => GuestIsThere)'
       /\ \A q \in Roles : Owned(q)' = Owned(q)
  BY <1>1, <1>6, <1>8, <1>9, AlikeStays DEF Told
<1>11. OnItsWay'
  BY <1>1, <1>9, <1>10 DEF OnItsWay
<1> QED BY <1>1, <1>2, <1>8, <1>10, <1>11 DEF Undisturbed, OfferGoesOn

(* A description is taken: the page's chain goes on with what follows it.   *)
LEMMA TakenIs ==
  ASSUME IInv, Undisturbed, NEW p \in Roles, NEW op, Running(p, op),
         NEW signaling \in {"stable", "have-remote-offer"}, NEW then \in {"answer", "end"},
         TakeDescription(p, [Over(p) EXCEPT !.signaling = signaling], then)
  PROVE  /\ QuietSockets' /\ QuietPages' /\ (Told => GuestIsThere)'
         /\ \A q \in Roles : Owned(q)' = Owned(q)
         /\ \A q \in Roles : /\ HasController(q)' <=> HasController(q)
                             /\ q # p => ctrl'[q] = ctrl[q]
         /\ ctrl'[p].signaling = signaling
         /\ then = "answer" => Answering(ctrl'[p])
<1> DEFINE m == Asked(p).m
           c == [Over(p) EXCEPT !.signaling = signaling]
           d == [c EXCEPT !.remote = m.gen]
<1>1. made \in Nat /\ Over(p) \in Ctrl(made) /\ Over(p).gen = ctrl[p].gen
      /\ Asked(p) \in Tasks(made)
  BY OverGoes
<1>2. m.gen \in 0..made
  BY <1>1 DEF Tasks, Msg
<1>3. d \in Ctrl(made) /\ d.signaling = signaling /\ d.gen = ctrl[p].gen
  BY <1>1, <1>2 DEF Ctrl
<1>4. /\ ctrl' = [ctrl EXCEPT ![p] = Flush(d, then)]
      /\ panel' = [panel EXCEPT ![p].stream = @ \/ m.tracks]
      /\ UNCHANGED sockets
  BY DEF TakeDescription, Becomes
<1> HIDE DEF m, c, d
<1>5. /\ Flush(d, then).gen = ctrl[p].gen /\ Flush(d, then).signaling = signaling
      /\ then = "answer" => Answering(Flush(d, then))
  BY <1>1, <1>3, FlushGoes DEF Goes
<1>6. /\ ctrl'[p] = Flush(d, then)
      /\ \A q \in Roles : /\ HasController(q)' <=> HasController(q)
                          /\ q # p => ctrl'[q] = ctrl[q]
  BY <1>4, <1>5 DEF IInv, Types, HasController
<1>7. \A q \in Roles :
        /\ panel'[q].conn = panel[q].conn /\ panel'[q].presence = panel[q].presence
        /\ panel'[q].status = panel[q].status
  BY <1>4 DEF IInv, Types, Panel
<1>8. /\ QuietSockets' /\ QuietPages' /\ (Told => GuestIsThere)'
      /\ \A q \in Roles : Owned(q)' = Owned(q)
  BY <1>4, <1>6, <1>7, AlikeStays, Roles2 DEF Alike, Told
<1> QED BY <1>5, <1>6, <1>8

LEMMA OfferTakenKeeps == ASSUME IInv, Undisturbed, OfferTaken PROVE Undisturbed'
<1>1. /\ QuietSockets' /\ QuietPages' /\ (Told => GuestIsThere)'
      /\ ctrl'["guest"].signaling = "have-remote-offer" /\ Answering(ctrl'["guest"])
      /\ ctrl'["host"] = ctrl["host"]
  <2>1. /\ Running("guest", "remoteOffer")
        /\ TakeDescription("guest",
             [Over("guest") EXCEPT !.signaling = "have-remote-offer"], "answer")
    BY DEF OfferTaken
  <2>2. "guest" \in Roles /\ "host" \in Roles /\ "host" # "guest"
    BY Roles2
  <2> QED BY <2>1, <2>2, TakenIs
<1> QED BY <1>1 DEF HasController, Undisturbed, OfferGoesOn, OnItsWay

LEMMA AnswerTakenKeeps == ASSUME IInv, Undisturbed, AnswerTaken PROVE Undisturbed'
<1>1. Running("host", "remoteAnswer") /\ "host" \in Roles
  BY Roles2 DEF AnswerTaken
<1>2. CASE ctrl["host"].signaling = "have-local-offer"
  <2>1. TakeDescription("host", [Over("host") EXCEPT !.signaling = "stable"], "end")
    BY <1>2 DEF AnswerTaken
  <2>2. /\ QuietSockets' /\ QuietPages' /\ (Told => GuestIsThere)'
        /\ ctrl'["host"].signaling = "stable"
    BY <1>1, <2>1, TakenIs
  <2> QED BY <2>2 DEF Undisturbed, OfferGoesOn
<1>3. CASE ctrl["host"].signaling # "have-local-offer"
  <2>1. ctrl' = [ctrl EXCEPT !["host"] = Over("host")] /\ UNCHANGED <<panel, sockets>>
    BY <1>3 DEF AnswerTaken, Becomes, PcOnly
  <2>2. /\ Over("host").signaling = ctrl["host"].signaling
        /\ Over("host").gen = ctrl["host"].gen
    BY <1>1, OverGoes
  <2>3. /\ ctrl'["host"].signaling # "have-local-offer"
        /\ \A q \in Roles : HasController(q)' <=> HasController(q)
    BY <1>1, <1>3, <2>1, <2>2 DEF IInv, Types, HasController
  <2>4. QuietSockets' /\ QuietPages' /\ (Told => GuestIsThere)'
    BY <1>1, <2>1, <2>3, AlikeStays DEF Alike, Told
  <2> QED BY <2>3, <2>4 DEF Undisturbed, OfferGoesOn
<1> QED BY <1>2, <1>3

LEMMA AnswerSetKeeps == ASSUME IInv, Undisturbed, AnswerSet PROVE Undisturbed'
<1> DEFINE c == Over("guest")
           set == [c EXCEPT !.signaling = "stable", !.local = TRUE]
           m == Message("answer", c.gen, Asked("guest").m.of, c.tracks)
<1>1. Running("guest", "localAnswer") /\ "guest" \in Roles /\ UNCHANGED panel
  BY Roles2 DEF AnswerSet
<1>2. /\ made \in Nat /\ c \in Ctrl(made) /\ Asked("guest") \in Tasks(made)
      /\ c.gen = ctrl["guest"].gen /\ c.signaling = ctrl["guest"].signaling
      /\ HasController("guest")
  BY <1>1, OverGoes
<1>3. CanSend("guest")
  BY <1>1, <1>2, CallCanSend
<1>4. CASE c.signaling # "have-remote-offer"
  <2>1. ctrl' = [ctrl EXCEPT !["guest"] = c] /\ UNCHANGED sockets
    BY <1>4 DEF AnswerSet, Becomes
  <2> QED BY <1>1, <1>2, <1>4, <2>1, OpKeeps DEF Goes
<1>5. CASE c.signaling = "have-remote-offer"
  <2>1. sockets' = Sent("guest", m) /\ ctrl' = [ctrl EXCEPT !["guest"] = Flush(set, "end")]
    BY <1>3, <1>5 DEF AnswerSet, Becomes
  <2>2. set \in Ctrl(made) /\ set.gen = c.gen
    BY <1>2 DEF Ctrl
  <2>3. m \in Signal(made) /\ m.kind = "answer"
    BY <1>2 DEF Message, Msg, Kinds, Signals, Signal, Ctrl, Tasks
  <2> HIDE DEF set, m, c
  <2>4. Flush(set, "end").gen = c.gen
    BY <1>2, <2>2, FlushGoes DEF Goes
  <2>5. \A q \in Roles : ctrl'[q].gen = ctrl[q].gen /\ (q # "guest" => ctrl'[q] = ctrl[q])
    BY <1>2, <2>1, <2>4 DEF IInv, Types
  <2>6. Alike /\ \E s \in Owned("guest") : Has(sockets'[s].outbox, "answer")
    BY <1>1, <1>3, <2>1, <2>3, SentIs
  <2>7. /\ QuietSockets' /\ QuietPages' /\ (Told => GuestIsThere)'
        /\ \A q \in Roles : Owned(q)' = Owned(q)
    BY <1>1, <2>5, <2>6, AlikeStays, Roles2 DEF Told, HasController
  <2>8. OnItsWay'
    BY <1>1, <2>6, <2>7 DEF OnItsWay
  <2> QED BY <2>5, <2>7, <2>8, Roles2 DEF Undisturbed, OfferGoesOn, HasController
<1> QED BY <1>4, <1>5

(* What is on its way stays so where nothing is taken.                      *)
LEMMA WayStays ==
  ASSUME OnItsWay, \A p \in Roles : Owned(p)' = Owned(p),
         \A s \in Sockets, kind \in {"offer", "answer"} :
           /\ Has(sockets[s].outbox, kind) => Has(sockets'[s].outbox, kind)
           /\ Has(sockets[s].inbox, kind) => Has(sockets'[s].inbox, kind),
         \A p \in Roles : Goes(ctrl[p], ctrl'[p])
  PROVE  OnItsWay'
<1>1. /\ Does(ctrl["guest"], "remoteOffer") => Does(ctrl'["guest"], "remoteOffer")
      /\ Does(ctrl["host"], "remoteAnswer") => Does(ctrl'["host"], "remoteAnswer")
      /\ Answering(ctrl["guest"]) => Answering(ctrl'["guest"])
      /\ ctrl'["guest"].signaling = ctrl["guest"].signaling
  BY Roles2 DEF Goes, Does, Answering
<1>2. \A p \in Roles : Owned(p) \subseteq Sockets
  BY DEF Owned
<1> QED BY <1>1, <1>2, Roles2 DEF OnItsWay

LEMMA LocalCandidateKeeps ==
  ASSUME IInv, Undisturbed, NEW p \in Roles, LocalCandidate(p)
  PROVE  Undisturbed'
<1> DEFINE c == ctrl[p]
           m == Message("candidate", c.gen, c.gathered + 1, FALSE)
           d == [c EXCEPT !.gathered = @ + 1]
<1>1. /\ ctrl' = [ctrl EXCEPT ![p] = d] /\ UNCHANGED panel
      /\ sockets' = IF CanSend(p) THEN Sent(p, m) ELSE sockets
      /\ c.local
  BY DEF LocalCandidate, Becomes
<1>2. c \in Ctrl(made) /\ c.gen # 0 /\ made \in Nat
  BY <1>1 DEF IInv, Types, CtrlOK
<1>3. m \in Signal(made)
  BY <1>2 DEF Message, Msg, Kinds, Signals, Signal, Ctrl
<1>4. Goes(c, d)
  BY <1>2 DEF Goes, Ctrl
<1> HIDE DEF m, d
<1>5. \A q \in Roles : Goes(ctrl[q], ctrl'[q])
  BY <1>1, <1>4 DEF Goes, IInv, Types
<1>6. /\ Alike
      /\ \A s \in Sockets, kind \in Kinds :
           Has(sockets[s].outbox, kind) => Has(sockets'[s].outbox, kind)
  BY <1>1, <1>3, SentIs DEF Alike
<1>7. /\ QuietSockets' /\ QuietPages' /\ (Told => GuestIsThere)'
      /\ \A q \in Roles : Owned(q)' = Owned(q)
  BY <1>1, <1>5, <1>6, AlikeStays, Roles2 DEF Goes, Told, HasController
<1>8. OnItsWay => OnItsWay'
  BY <1>5, <1>6, <1>7, WayStays DEF Alike, Kinds, Signals
<1> QED BY <1>5, <1>7, <1>8, Roles2 DEF Undisturbed, OfferGoesOn, Goes, HasController

LEMMA StartKeeps == ASSUME IInv, Undisturbed, handleStartWebRtc PROVE Undisturbed'
<1> DEFINE d == WithPc(Controller(made + 1))
           e == attachLocalMediaTracks(d, "host")
           c == Ask(e, Step("createOffer", Presence("none")))
<1>1. made + 1 \in Nat
  BY DEF IInv, Types
<1>2. c.signaling = "stable"
  <2>1. d \in Ctrl(made + 1) /\ d.signaling = "stable"
    <3> DEFINE b == Controller(made + 1)
    <3>1. b \in Ctrl(made + 1)
      <4>1. made + 1 \in 0..(made + 1)
        BY <1>1
      <4> QED BY <1>1, <4>1, NewIsOK DEF Good
    <3>2. b.signaling = "stable"
      BY DEF Controller
    <3>3. d = WithPc(b)
      OBVIOUS
    <3> HIDE DEF b, d
    <3> QED BY <3>1, <3>2, <3>3 DEF WithPc, Ctrl
  <2>2. e \in Ctrl(made + 1) /\ e.signaling = d.signaling
    BY <1>1, <2>1, AttachIsOK DEF attachLocalMediaTracks, Ctrl
  <2> HIDE DEF d, e
  <2> QED BY <1>1, <2>1, <2>2, AskGoes, PresenceIsMsg DEF Goes
<1>3. /\ ctrl' = [ctrl EXCEPT !["host"] = c] /\ UNCHANGED <<panel, sockets>>
      /\ panel["host"].status = "open" /\ panel["host"].presence = "connected"
  BY DEF handleStartWebRtc
<1> HIDE DEF c
<1>4. /\ ctrl'["host"].signaling = "stable" /\ ctrl'["guest"] = ctrl["guest"]
  BY <1>2, <1>3, Roles2 DEF IInv, Types
<1>5. QuietSockets' /\ QuietPages' /\ (Told => GuestIsThere)'
  BY <1>3, <1>4, AlikeStays DEF Alike, Told, HasController, Roles
<1> QED BY <1>4, <1>5 DEF Undisturbed, OfferGoesOn

(* A press that only the status shows.                                      *)
LEMMA StatusKeeps ==
  ASSUME IInv, Undisturbed, NEW p \in Roles,
         panel' = [panel EXCEPT ![p].status = "error"], UNCHANGED <<ctrl, sockets>>
  PROVE  Undisturbed'
<1>1. \A q \in Roles :
        /\ panel'[q].conn = panel[q].conn /\ panel'[q].presence = panel[q].presence
        /\ panel'[q].status = "open" => panel[q].status = "open"
  BY DEF IInv, Types, Panel
<1>2. /\ QuietSockets' /\ QuietPages' /\ (Told => GuestIsThere)'
      /\ \A q \in Roles : Owned(q)' = Owned(q)
  BY <1>1, AlikeStays DEF Alike, Told, HasController
<1>3. OnItsWay => OnItsWay'
  BY <1>2, WayStays DEF Goes
<1> QED BY <1>2, <1>3 DEF Undisturbed, OfferGoesOn, HasController

-----------------------------------------------------------------------------
(* The service                                                              *)

(* Handler s is at another place; what it took from its outbox is in the    *)
(* inbox it wrote to.                                                       *)
LEMMA ServedKeeps ==
  ASSUME IInv, Undisturbed, UNCHANGED <<panel, ctrl>>,
         \A t \in Sockets :
           /\ sockets'[t].owner = sockets[t].owner /\ sockets'[t].state = sockets[t].state
           /\ sockets'[t].snapshot = sockets[t].snapshot
           /\ sockets'[t].handler \in {sockets[t].handler, "notify", "loop"}
           /\ \A m \in ToSet(sockets'[t].inbox) :
                \/ m \in ToSet(sockets[t].inbox)
                \/ m.kind # "peer-left" /\ (t \in Owned("host") /\ Tells(m) => GuestIsThere),
         HasController("host") /\ OnItsWay => OnItsWay'
  PROVE  Undisturbed'
<1>1. \A p \in Roles : Owned(p)' = Owned(p)
  BY DEF Owned
<1>2. QuietSockets'
  BY DEF Undisturbed, QuietSockets, Has
<1>3. \A p \in Roles : panel[p].conn \in {0} \cup Sockets
  BY DEF IInv, HeldOK, Owned
<1>4. \A s \in {0} \cup Sockets : IsOpen(s)' <=> IsOpen(s)
  BY DEF IsOpen
<1>5. QuietPages'
  BY <1>3, <1>4 DEF Undisturbed, QuietPages, HasController
<1>6. Told' => Told \/ GuestIsThere
  BY <1>1, Roles2 DEF Told, HasController, Owned
<1>7. GuestIsThere => GuestIsThere'
  BY <1>1, <1>4, Roles2 DEF GuestIsThere, Owned
<1> QED BY <1>2, <1>5, <1>6, <1>7 DEF Undisturbed, OfferGoesOn, HasController

LEMMA InboxIs ==
  ASSUME NEW n, NEW v \in [Sockets -> Socket(n)], NEW t \in Sockets, NEW m
  PROVE  LET w == [v EXCEPT ![t].inbox = Append(@, m)]
         IN \A u \in Sockets :
              /\ w[u].owner = v[u].owner /\ w[u].state = v[u].state
              /\ w[u].snapshot = v[u].snapshot
              /\ w[u].handler = v[u].handler /\ w[u].outbox = v[u].outbox
              /\ w[u].inbox = IF u = t THEN Append(v[u].inbox, m) ELSE v[u].inbox
<1> DEFINE a == Append(v[t].inbox, m)
<1> HIDE DEF a
<1>1. [v EXCEPT ![t].inbox = Append(@, m)] = [v EXCEPT ![t].inbox = a]
  BY DEF a
<1>2. LET w == [v EXCEPT ![t].inbox = a]
      IN \A u \in Sockets :
           /\ w[u].owner = v[u].owner /\ w[u].state = v[u].state
           /\ w[u].snapshot = v[u].snapshot
           /\ w[u].handler = v[u].handler /\ w[u].outbox = v[u].outbox
           /\ w[u].inbox = IF u = t THEN a ELSE v[u].inbox
  BY DEF Socket
<1> QED BY <1>1, <1>2 DEF a

(* A page whose socket is open is written to.                               *)
LEMMA WrittenKeeps ==
  ASSUME IInv, Undisturbed, ServiceOnly, NEW s \in Sockets, NEW at \in {"notify", "loop"},
         NEW q \in Seq(Signal(made)), NEW t \in Sockets, NEW m \in Msg(made),
         sockets' = [Moved(s, at, q) EXCEPT ![t].inbox = Append(@, m)],
         m.kind # "peer-left", t \in Owned("host") /\ Tells(m) => GuestIsThere,
         \A kind \in {"offer", "answer"} :
           Has(sockets[s].outbox, kind) =>
             \/ Has(q, kind)
             \/ m.kind = kind /\ \A p \in Roles : s \in Owned(p) => t \in Owned(Other(p))
  PROVE  Undisturbed'
<1>1. /\ sockets \in [Sockets -> Socket(made)] /\ sockets[t].inbox \in Seq(Msg(made))
      /\ UNCHANGED <<panel, ctrl>>
  BY DEF IInv, Types, Socket, ServiceOnly
<1>2. \A u \in Sockets :
        /\ sockets'[u].owner = sockets[u].owner /\ sockets'[u].state = sockets[u].state
        /\ sockets'[u].snapshot = sockets[u].snapshot
        /\ sockets'[u].handler \in {sockets[u].handler, at}
        /\ sockets'[u].inbox =
             IF u = t THEN Append(sockets[u].inbox, m) ELSE sockets[u].inbox
        /\ sockets'[u].outbox = IF u = s THEN q ELSE sockets[u].outbox
  <2> DEFINE v == Moved(s, at, q)
  <2>1. /\ v \in [Sockets -> Socket(made)]
        /\ \A u \in Sockets :
             /\ v[u].owner = sockets[u].owner /\ v[u].state = sockets[u].state
             /\ v[u].snapshot = sockets[u].snapshot
             /\ v[u].handler \in {sockets[u].handler, at}
             /\ v[u].inbox = sockets[u].inbox
             /\ v[u].outbox = IF u = s THEN q ELSE sockets[u].outbox
    BY <1>1 DEF Moved, Socket
  <2>2. \A u \in Sockets :
          /\ sockets'[u].owner = v[u].owner /\ sockets'[u].state = v[u].state
          /\ sockets'[u].snapshot = v[u].snapshot
          /\ sockets'[u].handler = v[u].handler /\ sockets'[u].outbox = v[u].outbox
          /\ sockets'[u].inbox = IF u = t THEN Append(v[u].inbox, m) ELSE v[u].inbox
    BY <2>1, InboxIs
  <2> HIDE DEF v
  <2> QED BY <2>1, <2>2
<1>3. ToSet(sockets'[t].inbox) = ToSet(sockets[t].inbox) \cup {m}
  BY <1>1, <1>2, AppendSet
<1>4. \A u \in Sockets : \A k \in ToSet(sockets'[u].inbox) :
        k \in ToSet(sockets[u].inbox) \/ (u = t /\ k = m)
  BY <1>2, <1>3
<1>5. \A p \in Roles : Owned(p)' = Owned(p) /\ Owned(p) \subseteq Sockets
  BY <1>2 DEF Owned
<1>6. \A u \in Sockets, kind \in {"offer", "answer"} :
        /\ Has(sockets[u].inbox, kind) => Has(sockets'[u].inbox, kind)
        /\ m.kind = kind => Has(sockets'[t].inbox, kind)
        /\ Has(sockets[u].outbox, kind) =>
             \/ Has(sockets'[u].outbox, kind)
             \/ /\ u = s /\ m.kind = kind
                /\ \A p \in Roles : s \in Owned(p) => t \in Owned(Other(p))
  BY <1>2, <1>3 DEF Has
<1>7. Other("host") = "guest" /\ Other("guest") = "host"
  BY DEF Other
<1>8. \A p \in Roles, kind \in {"offer", "answer"} :
        (\E u \in Owned(p) : Has(sockets[u].outbox, kind)) =>
          \/ \E u \in Owned(p)' : Has(sockets'[u].outbox, kind)
          \/ \E u \in Owned(Other(p))' : Has(sockets'[u].inbox, kind)
  BY <1>5, <1>6, Roles2
<1>9. \A p \in Roles, kind \in {"offer", "answer"} :
        (\E u \in Owned(p) : Has(sockets[u].inbox, kind)) =>
          \E u \in Owned(p)' : Has(sockets'[u].inbox, kind)
  BY <1>5, <1>6
<1>10. OnItsWay => OnItsWay'
  BY <1>1, <1>7, <1>8, <1>9, Roles2 DEF OnItsWay
<1> QED BY <1>1, <1>2, <1>4, <1>10, ServedKeeps

LEMMA WriteRoomStateKeeps ==
  ASSUME IInv, Undisturbed, NEW s \in Sockets, WriteRoomState(s)
  PROVE  Undisturbed'
<1> DEFINE m == Message("room-state", 0, 0, sockets[s].snapshot)
           q == sockets[s].outbox
<1>1. ServiceOnly /\ InRoom(s) /\ QuietSockets
  BY DEF WriteRoomState, InRoom, Undisturbed
<1>2. IsOpen(s)
  BY <1>1, OneSocket, Roles2
<1>3. m \in Msg(made) /\ m.kind = "room-state" /\ m.tracks = sockets[s].snapshot
  <2>1. sockets[s].snapshot \in BOOLEAN /\ made \in Nat
    BY DEF IInv, Types, Socket
  <2> QED BY <2>1 DEF Message, Msg, Kinds
<1>4. q \in Seq(Signal(made)) /\ SetHandler(sockets, s, "notify") = Moved(s, "notify", q)
  BY MovedIs
<1>5. sockets' = [Moved(s, "notify", q) EXCEPT ![s].inbox = Append(@, m)]
  BY <1>2, <1>4 DEF WriteRoomState, Write, IsOpen
<1>6. s \in Owned("host") /\ Tells(m) => GuestIsThere
  BY <1>3 DEF Tells, Undisturbed, Told
<1> HIDE DEF m
<1> QED BY <1>1, <1>3, <1>4, <1>5, <1>6, WrittenKeeps

(* A guest that is served is there.                                         *)
LEMMA GuestServed ==
  ASSUME IInv, QuietSockets, NEW s \in Sockets, InRoom(s), sockets[s].owner = "guest"
  PROVE  GuestIsThere
<1>1. IsOpen(s)
  BY OneSocket, Roles2
<1> QED BY <1>1 DEF GuestIsThere, Owned, IsOpen

LEMMA NotifyPeerJoinedKeeps ==
  ASSUME IInv, Undisturbed, NEW s \in Sockets, NotifyPeerJoined(s)
  PROVE  Undisturbed'
<1> DEFINE m == Presence("peer-joined")
           q == sockets[s].outbox
           t == PeerOf(s)
<1>0. sockets[s].owner \in Roles
  BY DEF IInv, Types, Socket
<1>1. ServiceOnly /\ InRoom(s) /\ QuietSockets
  BY DEF NotifyPeerJoined, InRoom, Undisturbed
<1>2. m \in Msg(made) /\ m.kind = "peer-joined"
  BY DEF Presence, Message, Msg, Kinds, IInv, Types
<1>3. q \in Seq(Signal(made)) /\ SetHandler(sockets, s, "loop") = Moved(s, "loop", q)
  BY MovedIs
<1>4. CASE t = 0
  <2>1. sockets' = Moved(s, "loop", q)
    BY <1>3, <1>4 DEF NotifyPeerJoined
  <2>2. \A u \in Sockets :
          /\ sockets'[u].owner = sockets[u].owner /\ sockets'[u].state = sockets[u].state
          /\ sockets'[u].snapshot = sockets[u].snapshot
          /\ sockets'[u].handler \in {sockets[u].handler, "loop"}
          /\ sockets'[u].inbox = sockets[u].inbox /\ sockets'[u].outbox = sockets[u].outbox
    BY <2>1 DEF Moved, IInv, Types, Socket
  <2>3. UNCHANGED <<panel, ctrl>>
    BY <1>1 DEF ServiceOnly
  <2>4. OnItsWay => OnItsWay'
    BY <2>2, <2>3, WayStays DEF Goes, Owned
  <2> QED BY <2>2, <2>3, <2>4, ServedKeeps
<1>5. CASE t # 0
  <2>1. t \in Sockets /\ t \in Owned(Other(sockets[s].owner))
    BY <1>5, PeerIsOne
  <2>2. IsOpen(t)
    BY <1>1, <1>5, PeerIsOpen
  <2>3. sockets' = [Moved(s, "loop", q) EXCEPT ![t].inbox = Append(@, m)]
    BY <1>3, <1>5, <2>2 DEF NotifyPeerJoined, Write, IsOpen
  <2>4. t \in Owned("host") => sockets[s].owner = "guest"
    BY <1>0, <2>1 DEF Owned, Other, Roles
  <2>5. t \in Owned("host") => GuestIsThere
    BY <1>1, <2>4, GuestServed
  <2> HIDE DEF m, t
  <2> QED BY <1>1, <1>2, <1>3, <2>1, <2>3, <2>5, WrittenKeeps
<1> QED BY <1>4, <1>5

LEMMA RelayKeeps ==
  ASSUME IInv, Undisturbed, NEW s \in Sockets, Relay(s)
  PROVE  Undisturbed'
<1> DEFINE m == Head(sockets[s].outbox)
           q == Tail(sockets[s].outbox)
           t == PeerOf(s)
           read == [sockets EXCEPT ![s].outbox = q]
<1>0. sockets[s].owner \in Roles
  BY DEF IInv, Types, Socket
<1>1. /\ ServiceOnly /\ InRoom(s) /\ QuietSockets /\ sockets[s].outbox # <<>>
      /\ sockets[s].handler = "loop"
  BY DEF Relay, InRoom, Undisturbed
<1>2. sockets[s].outbox \in Seq(Signal(made))
  BY MovedIs
<1>3. /\ m \in Signal(made) /\ q \in Seq(Signal(made))
      /\ \A kind : Has(sockets[s].outbox, kind) <=> m.kind = kind \/ Has(q, kind)
  BY <1>1, <1>2, TailIndex, HasTail
<1>4. m \in Msg(made) /\ m.kind # "peer-left"
  BY <1>3 DEF Signal, Signals
<1>5. read = Moved(s, "loop", q)
  BY <1>1, MovedIs
<1>6. \A p \in Roles : s \in Owned(p) => sockets[s].owner = p
  BY DEF Owned
<1>8. CASE t = 0
  <2>1. sockets' = Moved(s, "loop", q)
    BY <1>5, <1>8 DEF Relay
  <2>2. \A u \in Sockets :
          /\ sockets'[u].owner = sockets[u].owner /\ sockets'[u].state = sockets[u].state
          /\ sockets'[u].snapshot = sockets[u].snapshot
          /\ sockets'[u].handler \in {sockets[u].handler, "loop"}
          /\ sockets'[u].inbox = sockets[u].inbox
    BY <2>1 DEF Moved, IInv, Types, Socket
  <2>3. UNCHANGED <<panel, ctrl>>
    BY <1>1 DEF ServiceOnly
  <2>4. ~HasController("host")
    <3>1. \A u \in Owned(Other(sockets[s].owner)) : ~IsOpen(u)
      BY <1>1, <1>8, PeerIsOpen
    <3>2. CASE sockets[s].owner = "host"
      <4>1. ~GuestIsThere
        BY <3>1, <3>2 DEF GuestIsThere, Other
      <4> QED BY <4>1 DEF Undisturbed, Told
    <3>3. CASE sockets[s].owner = "guest"
      <4>1. panel["host"].conn \in {0} \cup Owned("host")
        BY Roles2 DEF IInv, HeldOK
      <4>2. ~IsOpen(panel["host"].conn)
        BY <3>1, <3>3, <4>1 DEF Other, IsOpen
      <4> QED BY <4>2, Roles2 DEF Undisturbed, QuietPages
    <3> QED BY <1>0, <3>2, <3>3 DEF Roles
  <2> QED BY <2>2, <2>3, <2>4, ServedKeeps
<1>9. CASE t # 0
  <2>1. t \in Sockets /\ t \in Owned(Other(sockets[s].owner))
    BY <1>9, PeerIsOne
  <2>2. IsOpen(t)
    BY <1>1, <1>9, PeerIsOpen
  <2>3. sockets' = [read EXCEPT ![t].inbox = Append(@, m)]
    BY <1>9, <2>2 DEF Relay, IsOpen
  <2>4. t \in Owned("host") => sockets[s].owner = "guest"
    BY <1>0, <2>1 DEF Owned, Other, Roles
  <2>5. t \in Owned("host") => GuestIsThere
    BY <1>1, <2>4, GuestServed
  <2> HIDE DEF m, t, q, read
  <2>6. sockets' = [Moved(s, "loop", q) EXCEPT ![t].inbox = Append(@, m)]
    BY <1>5, <2>3
  <2>7. \A kind : Has(sockets[s].outbox, kind) =>
          \/ Has(q, kind)
          \/ m.kind = kind /\ \A p \in Roles : s \in Owned(p) => t \in Owned(Other(p))
    BY <1>3, <1>6, <2>1
  <2> QED BY <1>1, <1>3, <1>4, <2>1, <2>5, <2>6, <2>7, WrittenKeeps
<1> QED BY <1>8, <1>9

(* A socket opens: no other one of its page is in the room.                 *)
LEMMA JoinKeeps ==
  ASSUME IInv, Undisturbed, NEW s \in Sockets, Join(s)
  PROVE  Undisturbed'
<1>1. PICK p \in Roles : p = sockets[s].owner
  BY DEF IInv, Types, Socket
<1> DEFINE x == PeerOf(s) # 0
<1>2. /\ sockets[s].state = "connecting" /\ s \in Owned(p) /\ ~InRoom(s) /\ QuietSockets
  BY <1>1 DEF Join, Owned, InRoom, IInv, SocketsOK, Undisturbed
<1>3. s = panel[p].conn /\ ~\E t \in Owned(p) : InRoom(t)
  BY <1>2, OneSocket
<1>4. /\ panel' = [panel EXCEPT ![p].status = "open"] /\ UNCHANGED ctrl
      /\ sockets' = [sockets EXCEPT ![s].state = "open", ![s].handler = "write",
                                     ![s].snapshot = x]
  BY <1>1, <1>3 DEF Join
<1>5. x /\ p = "host" => GuestIsThere
  <2>1. x => PeerOf(s) \in Owned(Other(p)) /\ IsOpen(PeerOf(s))
    BY <1>1, <1>2, PeerIsThere, PeerIsOpen
  <2> QED BY <2>1 DEF GuestIsThere, Other
<1> HIDE DEF x
<1>6. /\ sockets'[s].owner = p /\ sockets'[s].state = "open" /\ sockets'[s].handler = "write"
      /\ sockets'[s].snapshot = x /\ sockets'[s].inbox = sockets[s].inbox
      /\ sockets'[s].outbox = sockets[s].outbox
      /\ \A t \in Sockets \ {s} : sockets'[t] = sockets[t]
  BY <1>1, <1>4 DEF IInv, Types, Socket
<1>7. \A q \in Roles :
        /\ panel'[q].conn = panel[q].conn /\ panel'[q].presence = panel[q].presence
        /\ q # p => panel'[q].status = panel[q].status
  BY <1>4 DEF IInv, Types, Panel
<1>8. \A q \in Roles : Owned(q)' = Owned(q)
  BY <1>1, <1>2, <1>6 DEF Owned
<1>9. QuietSockets'
  BY <1>2, <1>6 DEF QuietSockets, Has
<1>10. \A t \in {0} \cup Sockets : IsOpen(t) => IsOpen(t)'
  BY <1>6 DEF IsOpen
<1>11. \A q \in Roles : panel[q].conn \in {0} \cup Sockets
  BY DEF IInv, HeldOK, Owned
<1>12. IsOpen(panel[p].conn)'
  BY <1>3, <1>6, <1>7 DEF IsOpen, Sockets
<1>13. QuietPages'
  BY <1>4, <1>7, <1>10, <1>11, <1>12 DEF Undisturbed, QuietPages, HasController
<1>14. Told' => Told \/ GuestIsThere
  <2>1. \A t \in Owned("host") :
          /\ sockets'[t].inbox = sockets[t].inbox
          /\ sockets'[t].snapshot => sockets[t].snapshot \/ GuestIsThere
    BY <1>1, <1>5, <1>6 DEF Owned
  <2> QED BY <1>4, <1>7, <1>8, <2>1, Roles2 DEF Told, HasController
<1>15. GuestIsThere => GuestIsThere'
  BY <1>8, <1>10, Roles2 DEF GuestIsThere, Owned
<1>16. OnItsWay => OnItsWay'
  BY <1>4, <1>6, <1>8, WayStays DEF Goes
<1> QED BY <1>4, <1>9, <1>13, <1>14, <1>15, <1>16 DEF Undisturbed, OfferGoesOn, HasController

-----------------------------------------------------------------------------
(* A page hears a frame, or connects                                        *)

LEMMA HeardKeeps ==
  ASSUME IInv, Undisturbed, NEW s \in Sockets, NEW p \in Roles, sockets[s].owner = p,
         IsOpen(s), sockets[s].inbox # <<>>, Heard(s),
         NEW m, m = Head(sockets[s].inbox),
         \A q \in Roles :
           /\ panel'[q].conn = panel[q].conn /\ panel'[q].status = panel[q].status
           /\ panel'[q].presence = "connected" =>
                panel[q].presence = "connected" \/ (q = p /\ Tells(m))
           /\ HasController(q)' => HasController(q) \/ (q = p /\ Tells(m))
  PROVE  /\ QuietSockets' /\ QuietPages' /\ (Told => GuestIsThere)'
         /\ \A q \in Roles : Owned(q)' = Owned(q)
         /\ \A t \in Sockets, kind \in {"offer", "answer"} :
              /\ sockets'[t].outbox = sockets[t].outbox
              /\ Has(sockets[t].inbox, kind) =>
                   Has(sockets'[t].inbox, kind) \/ (t = s /\ m.kind = kind)
<1>1. /\ sockets \in [Sockets -> Socket(made)] /\ sockets[s].inbox \in Seq(Msg(made))
  BY DEF IInv, Types, Socket
<1>2. \A t \in Sockets :
        /\ sockets'[t].owner = sockets[t].owner /\ sockets'[t].state = sockets[t].state
        /\ sockets'[t].snapshot = sockets[t].snapshot
        /\ sockets'[t].handler = sockets[t].handler /\ sockets'[t].outbox = sockets[t].outbox
        /\ sockets'[t].inbox = IF t = s THEN Tail(sockets[t].inbox) ELSE sockets[t].inbox
  BY <1>1 DEF Heard, Socket
<1>3. ToSet(sockets[s].inbox) = {m} \cup ToSet(sockets'[s].inbox)
  BY <1>1, <1>2, HeadTailSet
<1>4. \A t \in Sockets : ToSet(sockets'[t].inbox) \subseteq ToSet(sockets[t].inbox)
  BY <1>2, <1>3
<1>5. \A q \in Roles : Owned(q)' = Owned(q) /\ Owned(q) \subseteq Sockets
  BY <1>2 DEF Owned
<1>6. QuietSockets'
  BY <1>2, <1>4 DEF Undisturbed, QuietSockets, Has
<1>7. s \in Owned(p) /\ s = panel[p].conn
  BY OneSocket DEF Undisturbed, IsOpen, Owned
<1>8. \A q \in Roles : panel[q].conn \in {0} \cup Sockets
  BY DEF IInv, HeldOK, Owned
<1>9. \A t \in {0} \cup Sockets : IsOpen(t)' <=> IsOpen(t)
  BY <1>2 DEF IsOpen
<1>10. QuietPages'
  BY <1>7, <1>8, <1>9 DEF Undisturbed, QuietPages
<1>11. Told' => Told
  <2>1. p = "host" /\ Tells(m) => Told
    BY <1>3, <1>7 DEF Told
  <2>2. \A t \in Owned("host")' : t \in Owned("host") /\ t \in Sockets
    BY <1>5, Roles2
  <2> QED BY <1>2, <1>4, <2>1, <2>2, Roles2 DEF Told
<1>12. GuestIsThere => GuestIsThere'
  BY <1>5, <1>9, Roles2 DEF GuestIsThere
<1>13. \A t \in Sockets, kind \in {"offer", "answer"} :
         Has(sockets[t].inbox, kind) =>
           Has(sockets'[t].inbox, kind) \/ (t = s /\ m.kind = kind)
  BY <1>2, <1>3 DEF Has
<1> QED BY <1>2, <1>5, <1>6, <1>10, <1>11, <1>12, <1>13 DEF Undisturbed

(* room-state and peer-joined only tell of the other one.                   *)
LEMMA PresenceHeardKeeps ==
  ASSUME IInv, Undisturbed, NEW s \in Sockets, RoomStateHeard(s) \/ PeerJoinedHeard(s)
  PROVE  Undisturbed'
<1>1. PICK p \in Roles : p = sockets[s].owner
  BY DEF IInv, Types, Socket
<1> DEFINE m == Head(sockets[s].inbox)
<1>2. /\ IsOpen(s) /\ sockets[s].inbox # <<>> /\ Heard(s) /\ UNCHANGED ctrl
      /\ m.kind \in {"room-state", "peer-joined"}
      /\ \E x : /\ panel' = [panel EXCEPT ![p].presence = x]
                /\ x = "connected" => Tells(m)
  <2>1. CASE RoomStateHeard(s)
    <3> DEFINE x == IF m.tracks THEN "connected" ELSE "waiting"
    <3>1. /\ IsOpen(s) /\ sockets[s].inbox # <<>> /\ Heard(s) /\ UNCHANGED ctrl
          /\ m.kind = "room-state" /\ panel' = [panel EXCEPT ![p].presence = x]
      BY <1>1, <2>1 DEF RoomStateHeard, FrameAt
    <3>2. x = "connected" => Tells(m)
      BY DEF Tells
    <3> HIDE DEF x, m
    <3> QED BY <3>1, <3>2
  <2>2. CASE PeerJoinedHeard(s)
    <3>1. /\ IsOpen(s) /\ sockets[s].inbox # <<>> /\ Heard(s) /\ UNCHANGED ctrl
          /\ m.kind = "peer-joined" /\ panel' = [panel EXCEPT ![p].presence = "connected"]
      BY <1>1, <2>2 DEF PeerJoinedHeard, FrameAt
    <3>2. Tells(m)
      BY <3>1 DEF Tells
    <3> HIDE DEF m
    <3> QED BY <3>1, <3>2
  <2> QED BY <2>1, <2>2
<1> HIDE DEF m
<1>3. \A q \in Roles :
        /\ panel'[q].conn = panel[q].conn /\ panel'[q].status = panel[q].status
        /\ panel'[q].presence = "connected" =>
             panel[q].presence = "connected" \/ (q = p /\ Tells(m))
        /\ HasController(q)' => HasController(q) \/ (q = p /\ Tells(m))
  BY <1>2 DEF IInv, Types, Panel, HasController
<1>4. /\ QuietSockets' /\ QuietPages' /\ (Told => GuestIsThere)'
      /\ \A q \in Roles : Owned(q)' = Owned(q)
      /\ \A t \in Sockets, kind \in {"offer", "answer"} :
           /\ sockets'[t].outbox = sockets[t].outbox
           /\ Has(sockets[t].inbox, kind) =>
                Has(sockets'[t].inbox, kind) \/ (t = s /\ m.kind = kind)
  BY <1>1, <1>2, <1>3, HeardKeeps DEF m
<1>5. OnItsWay => OnItsWay'
  BY <1>2, <1>4, WayStays DEF Goes
<1> QED BY <1>2, <1>4, <1>5 DEF Undisturbed, OfferGoesOn, HasController

LEMMA SignalHeardKeeps ==
  ASSUME IInv, Undisturbed, NEW s \in Sockets, SignalHeard(s)
  PROVE  Undisturbed'
<1>1. PICK p \in Roles : p = sockets[s].owner
  BY DEF IInv, Types, Socket
<1> DEFINE m == Head(sockets[s].inbox)
           c == IF HasController(p) THEN ctrl[p] ELSE Controller(made + 1)
           n == made + 1
<1>2. /\ IsOpen(s) /\ sockets[s].inbox # <<>> /\ m.kind \in Signals
      /\ Heard(s) /\ UNCHANGED panel
      /\ ctrl' = [ctrl EXCEPT ![p] = handleSignal(c, m)]
  BY <1>1 DEF SignalHeard, FrameAt, Signals
<1>3. /\ made \in Nat /\ n \in Nat /\ made <= n /\ ctrl \in [Roles -> Ctrl(made)]
      /\ sockets[s].inbox \in Seq(Msg(made)) /\ CtrlOK(ctrl[p])
  BY <1>1 DEF IInv, Types, Socket
<1>4. m \in Signal(n)
  <2>1. m \in Signal(made)
    BY <1>2, <1>3, TailIndex DEF Signal
  <2> QED BY <1>3, <2>1, MoreControllers
<1>5. /\ c \in Ctrl(n) /\ c.gen # 0 /\ ToSet(ctrl[p].chain) \subseteq ToSet(c.chain)
      /\ HasController(p) => c = ctrl[p]
      /\ ~HasController(p) => c.signaling = "stable" /\ ToSet(ctrl[p].chain) = {}
  <2>1. CASE HasController(p)
    BY <1>3, <2>1, MoreControllers DEF HasController
  <2>2. CASE ~HasController(p)
    <3>1. n \in 0..n /\ c = Controller(n)
      BY <1>3, <2>2
    <3>2. c \in Ctrl(n)
      BY <1>3, <3>1, NewIsOK DEF Good
    <3>3. c.signaling = "stable" /\ c.gen # 0
      BY <1>3, <3>1 DEF Controller
    <3>4. ToSet(ctrl[p].chain) = {}
      BY <1>3, <2>2, EmptySet DEF CtrlOK, HasController
    <3> QED BY <2>2, <3>2, <3>3, <3>4
  <2> QED BY <2>1, <2>2
<1> HIDE DEF m, n, c
<1>6. /\ Goes(c, handleSignal(c, m))
      /\ m.kind = "offer" => Does(handleSignal(c, m), "remoteOffer")
      /\ m.kind = "answer" => Does(handleSignal(c, m), "remoteAnswer")
  BY <1>3, <1>4, <1>5, SignalGoes
<1>7. ctrl'[p] = handleSignal(c, m) /\ \A q \in Roles \ {p} : ctrl'[q] = ctrl[q]
  BY <1>2, <1>3
<1>8. Tells(m)
  BY <1>2 DEF Tells, Signals
<1>9. \A q \in Roles :
        /\ panel'[q].conn = panel[q].conn /\ panel'[q].status = panel[q].status
        /\ panel'[q].presence = "connected" =>
             panel[q].presence = "connected" \/ (q = p /\ Tells(m))
        /\ HasController(q)' => HasController(q) \/ (q = p /\ Tells(m))
  BY <1>2, <1>7, <1>8 DEF HasController
<1>10. /\ QuietSockets' /\ QuietPages' /\ (Told => GuestIsThere)'
       /\ \A q \in Roles : Owned(q)' = Owned(q)
       /\ \A t \in Sockets, kind \in {"offer", "answer"} :
            /\ sockets'[t].outbox = sockets[t].outbox
            /\ Has(sockets[t].inbox, kind) =>
                 Has(sockets'[t].inbox, kind) \/ (t = s /\ m.kind = kind)
  BY <1>1, <1>2, <1>9, HeardKeeps DEF m
<1>11. \A q \in Roles :
         /\ ToSet(ctrl[q].chain) \subseteq ToSet(ctrl'[q].chain)
         /\ ToSet(ctrl[q].chain) # {} \/ HasController(q) =>
              ctrl'[q].signaling = ctrl[q].signaling
         /\ HasController(q) => HasController(q)'
         /\ ~HasController(q) /\ HasController(q)' => ctrl'[q].signaling = "stable"
  BY <1>5, <1>6, <1>7 DEF Goes, HasController
<1>12. \A kind \in {"offer", "answer"} : m.kind = kind =>
         Does(ctrl'[p], IF kind = "offer" THEN "remoteOffer" ELSE "remoteAnswer")
  BY <1>6, <1>7
<1>13. \A q \in Roles : s \in Owned(q) => q = p
  BY <1>1 DEF Owned
<1>14. OnItsWay => OnItsWay'
  <2>1. /\ Does(ctrl["guest"], "remoteOffer") => Does(ctrl'["guest"], "remoteOffer")
        /\ Does(ctrl["host"], "remoteAnswer") => Does(ctrl'["host"], "remoteAnswer")
    BY <1>11, Roles2 DEF Does
  <2>2. ctrl["guest"].signaling = "have-remote-offer" /\ Answering(ctrl["guest"])
          => ctrl'["guest"].signaling = "have-remote-offer" /\ Answering(ctrl'["guest"])
    BY <1>11, Roles2 DEF Answering
  <2>3. \A q \in Roles : Owned(q) \subseteq Sockets
    BY DEF Owned
  <2>4. (\E t \in Owned("guest") : Has(sockets[t].inbox, "offer")) =>
          \/ \E t \in Owned("guest")' : Has(sockets'[t].inbox, "offer")
          \/ Does(ctrl'["guest"], "remoteOffer")
    BY <1>10, <1>12, <1>13, <2>3, Roles2
  <2>5. (\E t \in Owned("host") : Has(sockets[t].inbox, "answer")) =>
          \/ \E t \in Owned("host")' : Has(sockets'[t].inbox, "answer")
          \/ Does(ctrl'["host"], "remoteAnswer")
    BY <1>10, <1>12, <1>13, <2>3, Roles2
  <2> QED BY <1>10, <2>1, <2>2, <2>3, <2>4, <2>5, Roles2 DEF OnItsWay
<1>15. OfferGoesOn'
  <2>1. CASE p = "host"
    <3>1. HasController("host")'
      BY <1>5, <1>6, <1>7, <2>1 DEF Goes, HasController
    <3>2. ctrl'["host"].signaling = "have-local-offer" => HasController("host")
      BY <1>11, <3>1, Roles2
    <3> QED BY <1>11, <1>14, <3>1, <3>2, Roles2 DEF Undisturbed, OfferGoesOn
  <2>2. CASE p # "host"
    BY <1>7, <1>14, <2>2, Roles2 DEF Undisturbed, OfferGoesOn, HasController
  <2> QED BY <2>1, <2>2
<1> QED BY <1>10, <1>15 DEF Undisturbed

(* A page that connects has no socket, and the host no call.                *)
LEMMA ConnectKeeps ==
  ASSUME IInv, Undisturbed, NEW p \in Roles, handleConnect(p)
  PROVE  Undisturbed'
<1> DEFINE new == [UnusedSocket EXCEPT !.owner = p, !.state = "connecting"]
<1>0. OfferGoesOn
  BY DEF Undisturbed
<1>1. PICK k \in Sockets : k = NextSocket /\ sockets[k].state = "unused"
  <2>1. PICK n \in 0..MaxConnects :
          /\ \A s \in Sockets : sockets[s].state = "unused" <=> s > n
          /\ n + 1 \in Sockets /\ n \in Nat /\ NextSocket = n + 1
    BY NextSocketIs DEF handleConnect, connectToSignalingRoom
  <2>2. n + 1 > n
    BY <2>1
  <2> QED BY <2>1, <2>2
<1>2. /\ panel' = [panel EXCEPT ![p].conn = k, ![p].status = "connecting",
                                ![p].presence = "unknown"]
      /\ sockets' = [sockets EXCEPT ![k] = new]
      /\ UNCHANGED ctrl /\ Gone(p)
  BY <1>1 DEF handleConnect, connectToSignalingRoom
<1>3. /\ new.owner = p /\ new.state = "connecting" /\ new.inbox = <<>>
      /\ ~new.snapshot
  BY DEF UnusedSocket
<1> HIDE DEF new
<1>4. sockets'[k] = new /\ \A s \in Sockets \ {k} : sockets'[s] = sockets[s]
  BY <1>1, <1>2 DEF IInv, Types
<1>5. \A q \in Roles :
        /\ q # p => panel'[q] = panel[q]
        /\ q = p => panel'[q].status = "connecting" /\ panel'[q].presence = "unknown"
  BY <1>2 DEF IInv, Types, Panel
<1>6. Owned(p) = {} /\ ~IsOpen(panel[p].conn)
  <2>1. \A s \in Owned(p) : s = panel[p].conn /\ sockets[s].state # "closed"
    BY OneSocket DEF Undisturbed, QuietSockets, Owned
  <2>2. panel[p].conn \in {0} \cup Owned(p)
    BY DEF IInv, HeldOK
  <2> QED BY <1>2, <2>1, <2>2 DEF Gone, IsOpen
<1>7. ~HasController(p) /\ ~HasController("host") /\ (p = "guest" => ~Told)
  <2>1. ~HasController(p)
    BY <1>6 DEF Undisturbed, QuietPages
  <2>2. p = "guest" => ~Told
    BY <1>6 DEF Undisturbed, GuestIsThere
  <2> QED BY <2>1, <2>2 DEF Told, Roles
<1>8. /\ Owned(p)' = {k}
      /\ \A q \in Roles : q # p => Owned(q)' = Owned(q) /\ k \notin Owned(q)
  BY <1>1, <1>3, <1>4, <1>6 DEF Owned
<1>9. QuietSockets'
  BY <1>3, <1>4, HasNone DEF Undisturbed, QuietSockets
<1>10. \A s \in {0} \cup Sockets : IsOpen(s) <=> IsOpen(s)'
  BY <1>1, <1>3, <1>4 DEF IsOpen
<1>11. \A q \in Roles : panel[q].conn \in {0} \cup Sockets
  BY DEF IInv, HeldOK, Owned
<1>12. QuietPages'
  BY <1>2, <1>5, <1>7, <1>10, <1>11 DEF Undisturbed, QuietPages, HasController
<1>13. CASE p = "host"
  <2>1. panel'["host"].presence = "unknown" /\ Owned("host")' = {k} /\ ~HasController("host")'
    BY <1>2, <1>5, <1>7, <1>8, <1>13 DEF HasController
  <2>2. ~sockets'[k].snapshot /\ ToSet(sockets'[k].inbox) = {}
    BY <1>3, <1>4, EmptySet
  <2>3. ~Told'
    BY <2>1, <2>2 DEF Told
  <2> QED BY <1>0, <1>2, <1>7, <1>9, <1>12, <2>3 DEF Undisturbed, OfferGoesOn
<1>14. CASE p = "guest"
  <2>1. "host" \in Roles /\ "host" # p
    BY <1>14, Roles2
  <2>2. \A s \in Owned("host") : sockets'[s] = sockets[s]
    BY <1>4, <1>8, <2>1 DEF Owned
  <2>3. ~Told'
    BY <1>2, <1>5, <1>7, <1>8, <1>14, <2>1, <2>2 DEF Told, HasController
  <2> QED BY <1>2, <1>7, <1>9, <1>12, <2>3 DEF Undisturbed, OfferGoesOn
<1> QED BY <1>13, <1>14 DEF Roles

-----------------------------------------------------------------------------
(* Every step                                                               *)

(* What a socket that closes, a page that leaves or a handler that ends     *)
(* does is not done while there was no trouble.                             *)
LEMMA NoneCloses ==
  ASSUME IInv, Undisturbed, NEW s \in Sockets
  PROVE  /\ ~SocketClosed(s) /\ ~ReadFails(s) /\ ~Leave(s) /\ ~PeerLeftHeard(s)
         /\ sockets[s].state \in {"connecting", "open"} => sockets[s].handler # "ended"
<1>1. SocketsOK /\ sockets[s].inbox \in Seq(Msg(made))
  BY DEF IInv, Types, Socket
<1>2. ~FrameAt(s, "peer-left")
  BY <1>1, HeadTailSet DEF FrameAt, Undisturbed, QuietSockets, Has
<1> QED BY <1>1, <1>2 DEF Undisturbed, QuietSockets, SocketsOK, SocketClosed, ReadFails,
             Leave, PeerLeftHeard

LEMMA UndisturbedPress ==
  ASSUME IInv, Undisturbed, NEW p \in Roles, Press(p), trouble = 0, trouble' = 0
  PROVE  Undisturbed'
<1>1. ~Disturb
  BY DEF Disturb
<1>2. CASE handleDisconnect(p)
  BY <1>1, <1>2, StatusKeeps DEF handleDisconnect
<1> QED BY <1>1, <1>2, ConnectKeeps, StatusKeeps
        DEF Press, handleConnectRefused, handleSendTestSignal, handleCloseWebRtc

LEMMA UndisturbedNext ==
  ASSUME IInv, Undisturbed, Next, trouble = 0, trouble' = 0
  PROVE  Undisturbed'
<1>1. ASSUME NEW p \in Roles, Negotiate(p) PROVE Undisturbed'
  BY <1>1, OfferCreatedKeeps, OfferSetKeeps, AnswerTakenKeeps, OfferTakenKeeps,
     AnswerCreatedKeeps, AnswerSetKeeps, CandidateAddedKeeps DEF Negotiate
<1>2. ASSUME NEW s \in Sockets, Hear(s) PROVE Undisturbed'
  BY <1>2, PresenceHeardKeeps, SignalHeardKeeps, NoneCloses DEF Hear
<1>3. ASSUME NEW s \in Sockets, Serve(s) PROVE Undisturbed'
  BY <1>3, JoinKeeps, WriteRoomStateKeeps, NotifyPeerJoinedKeeps, RelayKeeps, NoneCloses
     DEF Serve
<1>4. ASSUME NEW s \in Sockets PROVE ~SocketClosed(s) /\ ~SocketBreaks(s)
  BY NoneCloses DEF SocketBreaks, Disturb
<1>5. ~Rejoin
  BY DEF Rejoin, Disturb
<1> QED BY <1>1, <1>2, <1>3, <1>4, <1>5, UndisturbedPress, LocalCandidateKeeps, StartKeeps
        DEF Next

(* Trouble is counted and never forgotten.                                  *)
LEMMA TroubleGrows ==
  ASSUME Next
  PROVE  trouble' = trouble \/ trouble' = trouble + 1
<1>1. ASSUME NEW p \in Roles, Press(p) PROVE trouble' = trouble \/ trouble' = trouble + 1
  BY <1>1 DEF Press, handleConnect, connectToSignalingRoom, handleConnectRefused,
     handleDisconnect, handleSendTestSignal, handleCloseWebRtc, Disturb
<1>2. ASSUME NEW p \in Roles, Negotiate(p) PROVE trouble' = trouble
  BY <1>2 DEF Negotiate, OfferCreated, OfferSet, AnswerTaken, OfferTaken, AnswerCreated,
     AnswerSet, CandidateAdded, TakeDescription, PcOnly
<1>3. ASSUME NEW s \in Sockets, Hear(s) \/ Serve(s) PROVE trouble' = trouble
  BY <1>3 DEF Hear, RoomStateHeard, PeerJoinedHeard, PeerLeftHeard, SignalHeard, Serve, Join,
     WriteRoomState, NotifyPeerJoined, Relay, ReadFails, Leave, ServiceOnly
<1>4. ASSUME NEW s \in Sockets, SocketClosed(s) \/ SocketBreaks(s)
      PROVE  trouble' = trouble \/ trouble' = trouble + 1
  BY <1>4 DEF SocketClosed, SocketBreaks, Disturb
<1> QED BY <1>1, <1>2, <1>3, <1>4
        DEF Next, LocalCandidate, handleStartWebRtc, Rejoin, Disturb

LEMMA QuietNext == ASSUME IInv, Quiet, Next PROVE Quiet'
<1>1. trouble \in Nat
  BY CallAssumption DEF IInv, Types
<1> QED BY <1>1, UndisturbedNext, TroubleGrows DEF Quiet

LEMMA QuietStutter == ASSUME Quiet, UNCHANGED vars PROVE Quiet'
BY DEF vars, Quiet, Undisturbed, QuietSockets, QuietPages, Told, GuestIsThere, OfferGoesOn,
       OnItsWay, Has, Does, Answering, HasController, IsOpen, Owned

LEMMA QuietInit == Init => Quiet
<1> SUFFICES ASSUME Init PROVE Undisturbed
  BY DEF Quiet
<1>1. /\ \A p \in Roles : panel[p] = IdlePanel /\ ctrl[p] = NoController
      /\ \A s \in Sockets : sockets[s] = UnusedSocket
  BY DEF Init
<1>2. QuietSockets
  BY <1>1, HasNone DEF QuietSockets, UnusedSocket
<1>3. \A p \in Roles : ~HasController(p) /\ panel[p].status = "idle"
                        /\ panel[p].presence = "unknown" /\ Owned(p) = {}
  BY <1>1 DEF IdlePanel, NoController, Controller, HasController, Owned, UnusedSocket
<1>4. ctrl["host"].signaling = "stable"
  BY <1>1, Roles2 DEF NoController, Controller
<1> QED BY <1>2, <1>3, <1>4, Roles2 DEF Undisturbed, QuietPages, Told, OfferGoesOn

(* With everything at rest nothing is on its way, so no offer waits.        *)
LEMMA RestIsAnswered == ASSUME IInv, Quiet PROVE OfferIsAnswered
<1> SUFFICES ASSUME AtRest, trouble = 0, ctrl["host"].signaling = "have-local-offer"
             PROVE  FALSE
  BY DEF OfferIsAnswered
<1>1. OnItsWay
  BY DEF Quiet, Undisturbed, OfferGoesOn
<1>2. \A p \in Roles : ToSet(ctrl[p].chain) = {} /\ Owned(p) \subseteq Sockets
  BY EmptySet DEF AtRest, Owned
<1>3. \A s \in Sockets, kind \in {"offer", "answer"} :
        ~Has(sockets[s].inbox, kind) /\ ~Has(sockets[s].outbox, kind)
  BY HasNone DEF AtRest
<1> QED BY <1>1, <1>2, <1>3, Roles2 DEF OnItsWay, Does, Answering

(* When nobody hung up, left or lost the connection, the host's offer is    *)
(* somewhere between its sending and the setting of its answer as long as   *)
(* the host waits for one, whatever the order of the frames and of the      *)
(* operations: it never comes to rest without (the relay of routes.go, the  *)
(* handlers of peerConnection.ts).                                          *)
THEOREM OfferAnswered == Spec => []OfferIsAnswered
<1>1. IInv /\ Quiet /\ [Next]_vars => Quiet'
  BY QuietNext, QuietStutter
<1>2. IInv /\ Quiet => OfferIsAnswered
  BY RestIsAnswered
<1> QED BY Invariance, QuietInit, <1>1, <1>2, PTL DEF Spec
=============================================================================

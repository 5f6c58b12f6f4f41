----------------------------- MODULE GatewayProofs -----------------------------
(***************************************************************************)
(* Proofs about WebsocketGateway: for every set of clients and any number  *)
(* of announcements, the gateway knows exactly the sockets that are        *)
(* connected, drops only peers that fell silent, leaves none behind when   *)
(* it has stopped, and sends whoever stays connected every message, once   *)
(* and in order.                                                           *)
(***************************************************************************)
EXTENDS WebsocketGateway, SequenceTheorems, TLAPS

Frame ==
  [type : {"ping", "block.new", "tip.update", "mempool.invalidate", "tx.new"}, event : Nat]

Types ==
  /\ TypeOK
  /\ events \in Seq({"block", "tx"}) /\ Len(events) <= MaxEvents
  /\ queue \in [Client -> Seq(Frame)]

\* Nothing is connected once the WebSocket server has closed.
StopLeavesNone ==
  state \in {"ownClosing", "stopped"} =>
    \A c \in Client : ready[c] \notin {"open", "closing"}

\* A peer that has not answered since the last heartbeat, and can, still has the ping to
\* read, or its pong is under way: this is why the next heartbeat spares it.
PingPending ==
  \A c \in Client :
    ready[c] = "open" /\ isAlive[c] = "false" /\ ~silent[c] =>
      pong[c] \/ Contains(queue[c], Ping)

IInv == Types /\ KnownIsConnected /\ StopLeavesNone /\ ResponsiveKept /\ PingPending

LEMMA PingIsFrame == Ping \in Frame
BY DEF Ping, Frame

LEMMA MessagesAreFrames ==
  ASSUME NEW e \in {"block", "tx"}, NEW n \in Nat
  PROVE  MessagesOf(e, n) \in Seq(Frame)
<1>1. \A t \in {"block.new", "tip.update", "mempool.invalidate", "tx.new"} :
        [type |-> t, event |-> n] \in Frame
  BY DEF Frame
<1>2. CASE e = "block"
  <2>1. \A x, y, z \in Frame : <<x, y, z>> \in Seq(Frame)
    OBVIOUS
  <2> QED BY <1>1, <1>2, <2>1 DEF MessagesOf
<1>3. CASE e = "tx"
  <2>1. \A x, y \in Frame : <<x, y>> \in Seq(Frame)
    OBVIOUS
  <2> QED BY <1>1, <1>3, <2>1 DEF MessagesOf
<1> QED BY <1>2, <1>3

\* A ping stays in a queue that grows, and one is in a queue that was pinged.
LEMMA ContainsAfterConcat ==
  ASSUME NEW q \in Seq(Frame), NEW r \in Seq(Frame), Contains(q, Ping)
  PROVE  Contains(q \o r, Ping)
<1>1. PICK i \in 1..Len(q) : q[i] = Ping
  BY DEF Contains
<1>2. i \in 1..Len(q \o r) /\ (q \o r)[i] = Ping
  BY <1>1, ConcatProperties, LenProperties
<1> QED BY <1>2 DEF Contains

LEMMA PingedProperties ==
  ASSUME NEW q \in Seq(Frame)
  PROVE  Pinged(q) \in Seq(Frame) /\ Contains(Pinged(q), Ping)
<1>1. CASE Contains(q, Ping)
  BY <1>1 DEF Pinged
<1>2. CASE ~Contains(q, Ping)
  <2>1. Pinged(q) = Append(q, Ping)
    BY <1>2 DEF Pinged
  <2>2. /\ Append(q, Ping) \in Seq(Frame)
        /\ Len(Append(q, Ping)) = Len(q) + 1 /\ Append(q, Ping)[Len(q) + 1] = Ping
    BY PingIsFrame, AppendProperties
  <2>3. Len(q) + 1 \in 1..Len(Append(q, Ping))
    BY <2>2, LenProperties
  <2> QED BY <2>1, <2>2, <2>3 DEF Contains
<1> QED BY <1>1, <1>2

\* A ping that is not the head of a queue is in its tail.
LEMMA ContainsAfterTail ==
  ASSUME NEW q \in Seq(Frame), q # <<>>, Contains(q, Ping), Head(q) # Ping
  PROVE  Contains(Tail(q), Ping)
<1>1. PICK i \in 1..Len(q) : q[i] = Ping
  BY DEF Contains
<1>2. i # 1
  BY <1>1
<1>3. i - 1 \in 1..Len(Tail(q)) /\ Tail(q)[i - 1] = Ping
  BY <1>1, <1>2, HeadTailProperties, LenProperties
<1> QED BY <1>3 DEF Contains

LEMMA EmptyHasNoPing == ~Contains(<<>>, Ping)
BY DEF Contains

LEMMA InitIInv == Init => IInv
<1> SUFFICES ASSUME Init PROVE IInv
  OBVIOUS
<1> USE DEF Init
<1>1. Types
  BY BoundsAssumption DEF Types, TypeOK
<1>2. KnownIsConnected
  BY DEF KnownIsConnected, WithState
<1>3. StopLeavesNone
  BY DEF StopLeavesNone
<1>4. ResponsiveKept
  BY DEF ResponsiveKept
<1>5. PingPending
  BY DEF PingPending
<1> QED BY <1>1, <1>2, <1>3, <1>4, <1>5 DEF IInv

(* One lemma for each action, or for those that disturb the same conjuncts. *)

LEMMA StartKeeps ==
  ASSUME IInv, Start
  PROVE  IInv'
<1> USE DEF IInv, Start, peerVars
<1>1. Types'
  BY DEF Types, TypeOK
<1>2. KnownIsConnected'
  BY DEF KnownIsConnected, WithState
<1>3. StopLeavesNone'
  BY DEF StopLeavesNone
<1>4. ResponsiveKept'
  BY DEF ResponsiveKept
<1>5. PingPending'
  BY DEF PingPending
<1> QED BY <1>1, <1>2, <1>3, <1>4, <1>5

LEMMA ListenKeeps ==
  ASSUME IInv, Listen
  PROVE  IInv'
<1> USE DEF IInv, Listen, peerVars
<1>1. Types'
  BY DEF Types, TypeOK
<1>2. KnownIsConnected'
  BY DEF KnownIsConnected, WithState
<1>3. StopLeavesNone'
  BY DEF StopLeavesNone
<1>4. ResponsiveKept'
  BY DEF ResponsiveKept
<1>5. PingPending'
  BY DEF PingPending
<1> QED BY <1>1, <1>2, <1>3, <1>4, <1>5

LEMMA ConnectKeeps ==
  ASSUME IInv, NEW c \in Client, Connect(c)
  PROVE  IInv'
<1> USE DEF IInv, Connect, NewIsAlive, peerVars
<1>1. Types'
  BY DEF Types, TypeOK
<1>2. KnownIsConnected'
  BY DEF Types, TypeOK, KnownIsConnected, WithState
<1>3. StopLeavesNone'
  BY DEF StopLeavesNone
<1>4. ResponsiveKept'
  BY DEF ResponsiveKept
<1>5. PingPending'
  BY DEF Types, TypeOK, PingPending
<1> QED BY <1>1, <1>2, <1>3, <1>4, <1>5

LEMMA AnnounceKeeps ==
  ASSUME IInv, NEW e \in {"block", "tx"}, Announce(e)
  PROVE  IInv'
<1> USE DEF IInv, Announce, Recipients, peerVars
<1>0. \A c \in Client :
        /\ queue'[c] \in Seq(Frame)
        /\ Contains(queue[c], Ping) => Contains(queue'[c], Ping)
  <2> TAKE c \in Client
  <2>1. Len(events') \in Nat
    BY AppendProperties, LenProperties DEF Types
  <2>2. queue[c] \in Seq(Frame) /\ MessagesOf(e, Len(events')) \in Seq(Frame)
    BY <2>1, MessagesAreFrames DEF Types
  <2>3. queue'[c] = queue[c] \/ queue'[c] = queue[c] \o MessagesOf(e, Len(events'))
    OBVIOUS
  <2> QED BY <2>2, <2>3, ContainsAfterConcat, ConcatProperties
<1>1. Types'
  <2>1. events' \in Seq({"block", "tx"}) /\ Len(events') <= MaxEvents
    BY BoundsAssumption, AppendProperties, LenProperties DEF Types
  <2>2. queue' \in [Client -> Seq(Frame)]
    BY <1>0
  <2> QED BY <2>1, <2>2 DEF Types, TypeOK
<1>2. KnownIsConnected'
  BY DEF KnownIsConnected, WithState
<1>3. StopLeavesNone'
  BY DEF StopLeavesNone
<1>4. ResponsiveKept'
  BY DEF ResponsiveKept
<1>5. PingPending'
  BY <1>0 DEF PingPending
<1> QED BY <1>1, <1>2, <1>3, <1>4, <1>5

LEMMA HeartbeatKeeps ==
  ASSUME IInv, Heartbeat
  PROVE  IInv'
<1> USE DEF IInv, Heartbeat, Missed, IntervalOver, peerVars
<1>0. \A c \in Client :
        /\ queue'[c] \in Seq(Frame)
        /\ c \in clients' => Contains(queue'[c], Ping)
  <2> TAKE c \in Client
  <2>1. queue[c] \in Seq(Frame)
    BY DEF Types
  <2> QED BY <2>1, PingedProperties
<1>1. Types'
  <2>1. queue' \in [Client -> Seq(Frame)]
    BY <1>0
  <2>2. clients' \subseteq Client /\ isAlive' \in [Client -> {"true", "false"}]
    BY DEF Types, TypeOK
  <2>3. ready' \in [Client -> {"none", "open", "closing", "closed"}]
    BY DEF Types, TypeOK
  <2> QED BY <2>1, <2>2, <2>3 DEF Types, TypeOK
<1>2. KnownIsConnected'
  BY DEF KnownIsConnected, WithState
<1>3. StopLeavesNone'
  BY DEF StopLeavesNone
<1>4. ResponsiveKept'
  <2>1. ASSUME NEW c \in Missed PROVE silent[c]
    <3>1. c \in Client /\ ready[c] = "open" /\ isAlive[c] = "false"
      BY <2>1 DEF Types, TypeOK
    <3>2. ~silent[c] => queue[c] = <<>> /\ ~pong[c]
      BY <3>1 DEF WithState
    <3> QED BY <3>1, <3>2, EmptyHasNoPing DEF PingPending
  <2>2. \A c \in Client : ready'[c] \in {"closing", "closed"} =>
          ready[c] \in {"closing", "closed"} \/ c \in Missed
    OBVIOUS
  <2> HIDE DEF Missed
  <2> QED BY <2>1, <2>2 DEF ResponsiveKept
<1>5. PingPending'
  <2>1. ASSUME NEW c \in Client, ready'[c] = "open" PROVE c \in clients'
    BY <2>1 DEF KnownIsConnected, WithState
  <2> QED BY <1>0, <2>1 DEF PingPending
<1> QED BY <1>1, <1>2, <1>3, <1>4, <1>5

LEMMA PongArrivesKeeps ==
  ASSUME IInv, NEW c \in Client, PongArrives(c)
  PROVE  IInv'
<1> USE DEF IInv, PongArrives, peerVars
<1>1. Types'
  BY DEF Types, TypeOK
<1>2. KnownIsConnected'
  BY DEF KnownIsConnected, WithState
<1>3. StopLeavesNone'
  BY DEF StopLeavesNone
<1>4. ResponsiveKept'
  BY DEF ResponsiveKept
<1>5. PingPending'
  BY DEF Types, TypeOK, PingPending
<1> QED BY <1>1, <1>2, <1>3, <1>4, <1>5

LEMMA PeerReadsKeeps ==
  ASSUME IInv, NEW c \in Client, PeerReads(c)
  PROVE  IInv'
<1> USE DEF IInv, PeerReads, peerVars
<1>0. /\ queue[c] \in Seq(Frame) /\ Tail(queue[c]) \in Seq(Frame)
      /\ Contains(queue[c], Ping) /\ Head(queue[c]) # Ping => Contains(Tail(queue[c]), Ping)
  <2>1. queue[c] \in Seq(Frame)
    BY DEF Types
  <2> QED BY <2>1, HeadTailProperties, ContainsAfterTail
<1>1. Types'
  <2>1. queue' \in [Client -> Seq(Frame)]
    BY <1>0 DEF Types
  <2>2. pong' \in [Client -> BOOLEAN]
    BY DEF Types, TypeOK
  <2> QED BY <2>1, <2>2 DEF Types, TypeOK
<1>2. KnownIsConnected'
  BY DEF KnownIsConnected, WithState
<1>3. StopLeavesNone'
  BY DEF StopLeavesNone
<1>4. ResponsiveKept'
  BY DEF ResponsiveKept
<1>5. PingPending'
  <2>1. \A d \in Client \ {c} : queue'[d] = queue[d] /\ pong'[d] = pong[d]
    BY DEF Types, TypeOK
  <2>2. queue'[c] = Tail(queue[c])
    BY DEF Types
  <2>3. CASE Head(queue[c]) = Ping
    <3>1. pong'[c] = TRUE
      BY <2>3 DEF Types, TypeOK
    <3> QED BY <2>1, <3>1 DEF PingPending
  <2>4. CASE Head(queue[c]) # Ping
    <3>1. pong'[c] = pong[c]
      BY <2>4
    <3> QED BY <1>0, <2>1, <2>2, <2>4, <3>1 DEF PingPending
  <2> QED BY <2>3, <2>4
<1> QED BY <1>1, <1>2, <1>3, <1>4, <1>5

LEMMA PeerFallsSilentKeeps ==
  ASSUME IInv, NEW c \in Client, PeerFallsSilent(c)
  PROVE  IInv'
<1> USE DEF IInv, PeerFallsSilent, peerVars
<1>1. Types'
  BY DEF Types, TypeOK
<1>2. KnownIsConnected'
  BY DEF KnownIsConnected, WithState
<1>3. StopLeavesNone'
  BY DEF StopLeavesNone
<1>4. ResponsiveKept'
  BY DEF ResponsiveKept
<1>5. PingPending'
  BY DEF PingPending
<1> QED BY <1>1, <1>2, <1>3, <1>4, <1>5

LEMMA PeerLeavesKeeps ==
  ASSUME IInv, NEW c \in Client, PeerLeaves(c)
  PROVE  IInv'
<1> USE DEF IInv, PeerLeaves, peerVars
<1>1. Types'
  BY DEF Types, TypeOK
<1>2. KnownIsConnected'
  BY DEF KnownIsConnected, WithState
<1>3. StopLeavesNone'
  BY DEF StopLeavesNone
<1>4. ResponsiveKept'
  BY DEF Types, TypeOK, ResponsiveKept
<1>5. PingPending'
  BY DEF PingPending
<1> QED BY <1>1, <1>2, <1>3, <1>4, <1>5

LEMMA SocketClosedKeeps ==
  ASSUME IInv, NEW c \in Client, SocketClosed(c)
  PROVE  IInv'
<1> USE DEF IInv, SocketClosed, Forget, peerVars
<1>1. Types'
  BY DEF Types, TypeOK
<1>2. KnownIsConnected'
  BY DEF KnownIsConnected, WithState
<1>3. StopLeavesNone'
  BY DEF StopLeavesNone
<1>4. ResponsiveKept'
  BY DEF ResponsiveKept
<1>5. PingPending'
  BY DEF PingPending
<1> QED BY <1>1, <1>2, <1>3, <1>4, <1>5

LEMMA StopKeeps ==
  ASSUME IInv, Stop
  PROVE  IInv'
<1> USE DEF IInv, Stop, Terminated, peerVars
<1>1. Types'
  BY DEF Types, TypeOK
<1>2. KnownIsConnected'
  BY DEF KnownIsConnected, WithState
<1>3. StopLeavesNone'
  BY DEF StopLeavesNone
<1>4. ResponsiveKept'
  BY DEF ResponsiveKept
<1>5. PingPending'
  BY DEF PingPending
<1> QED BY <1>1, <1>2, <1>3, <1>4, <1>5

LEMMA WssClosedKeeps ==
  ASSUME IInv, WssClosed
  PROVE  IInv'
<1> USE DEF IInv, WssClosed, Tracked, peerVars
<1>1. Types'
  BY DEF Types, TypeOK
<1>2. KnownIsConnected'
  BY DEF KnownIsConnected, WithState
<1>3. StopLeavesNone'
  BY DEF StopLeavesNone, WithState
<1>4. ResponsiveKept'
  BY DEF ResponsiveKept
<1>5. PingPending'
  BY DEF PingPending
<1> QED BY <1>1, <1>2, <1>3, <1>4, <1>5

LEMMA OwnServerClosedKeeps ==
  ASSUME IInv, OwnServerClosed
  PROVE  IInv'
<1> USE DEF IInv, OwnServerClosed, peerVars
<1>1. Types'
  BY DEF Types, TypeOK
<1>2. KnownIsConnected'
  BY DEF KnownIsConnected, WithState
<1>3. StopLeavesNone'
  BY DEF StopLeavesNone
<1>4. ResponsiveKept'
  BY DEF ResponsiveKept
<1>5. PingPending'
  BY DEF PingPending
<1> QED BY <1>1, <1>2, <1>3, <1>4, <1>5

(***************************************************************************)
(* The theorems.                                                           *)
(***************************************************************************)

LEMMA StepKeepsIInv == IInv /\ [Next]_vars => IInv'
<1> SUFFICES ASSUME IInv, [Next]_vars PROVE IInv'
  OBVIOUS
<1>1. CASE Start \/ Listen \/ Heartbeat
  BY <1>1, StartKeeps, ListenKeeps, HeartbeatKeeps
<1>2. CASE Stop \/ WssClosed \/ OwnServerClosed
  BY <1>2, StopKeeps, WssClosedKeeps, OwnServerClosedKeeps
<1>3. ASSUME NEW e \in {"block", "tx"}, Announce(e) PROVE IInv'
  BY <1>3, AnnounceKeeps
<1>4. ASSUME NEW c \in Client,
             \/ Connect(c) \/ PongArrives(c) \/ PeerReads(c)
             \/ PeerFallsSilent(c) \/ PeerLeaves(c) \/ SocketClosed(c)
      PROVE  IInv'
  BY <1>4, ConnectKeeps, PongArrivesKeeps, PeerReadsKeeps, PeerFallsSilentKeeps,
     PeerLeavesKeeps, SocketClosedKeeps
<1>5. CASE UNCHANGED vars
  BY <1>5 DEF vars, peerVars, IInv, Types, TypeOK, KnownIsConnected, WithState, StopLeavesNone,
     ResponsiveKept, PingPending
<1> QED BY <1>1, <1>2, <1>3, <1>4, <1>5 DEF Next

\* The inductive invariant holds in every reachable state.
THEOREM Invariance == Spec => []IInv
BY InitIInv, StepKeepsIInv, PTL DEF Spec

\* The gateway's set and the connected sockets agree, and a stop leaves none of either
\* (websocketGateway.js:98-111, 136-154, 177-196).
THEOREM KnownAndEmptied == Spec => []GatewayInvariant
<1>1. IInv => GatewayInvariant
  <2> SUFFICES ASSUME IInv PROVE GatewayInvariant
    OBVIOUS
  <2>1. StoppedIsEmpty
    BY DEF IInv, StopLeavesNone, KnownIsConnected, WithState, StoppedIsEmpty
  <2> QED BY <2>1 DEF IInv, Types, GatewayInvariant
<1> QED BY <1>1, Invariance, PTL

\* A peer that answers the pings is never dropped by the heartbeat, as long as what it is
\* sent and what it answers arrive within an interval (websocketGateway.js:121-154).
THEOREM AnsweringPeersStay == Spec => []ResponsiveKept
<1>1. IInv => ResponsiveKept
  BY DEF IInv
<1> QED BY <1>1, Invariance, PTL

(***************************************************************************)
(* No message is missed.  Next to IInv this needs what a socket has read   *)
(* to be of messages, nothing to be sent before it connects, and an        *)
(* announcement to be known by when it connected.                          *)
(***************************************************************************)

Faithful(c) ==
  /\ InOrder(Stream(c))
  /\ Carries(Stream(c)) \subseteq SentTo(c)
  /\ \A m \in SentTo(c) \ Carries(Stream(c)) :
       ready[c] # "open" /\ \A k \in Carries(Stream(c)) : Before(k, m)

StreamInv ==
  /\ got \in [Client -> Seq(Frame)]
  /\ \A c \in Client :
       /\ since[c] \in Nat /\ since[c] <= Len(events)
       /\ ready[c] = "none" => Stream(c) = <<>>
       /\ ready[c] # "none" => Faithful(c)

\* Lemmas about the streams, for any sequences of frames.

LEMMA StreamIndex ==
  ASSUME NEW s \in Seq(Frame), NEW t \in Seq(Frame)
  PROVE  /\ s \o t \in Seq(Frame) /\ Len(s \o t) = Len(s) + Len(t)
         /\ Len(s) \in Nat /\ Len(t) \in Nat
         /\ DOMAIN (s \o t) = 1..(Len(s) + Len(t))
         /\ \A i \in 1..Len(s) : (s \o t)[i] = s[i]
         /\ \A i \in 1..Len(t) : (s \o t)[Len(s) + i] = t[i]
         /\ \A i \in 1..(Len(s) + Len(t)) :
              i \in 1..Len(s) \/ \E j \in 1..Len(t) : i = Len(s) + j
<1>1. Len(s) \in Nat /\ Len(t) \in Nat
  BY LenProperties
<1>2. ASSUME NEW i \in 1..(Len(s) + Len(t)), i \notin 1..Len(s)
      PROVE  \E j \in 1..Len(t) : i = Len(s) + j
  <2>1. i - Len(s) \in 1..Len(t) /\ i = Len(s) + (i - Len(s))
    BY <1>1, <1>2
  <2> QED BY <2>1
<1>3. \A i \in 1..Len(s) : (s \o t)[i] = s[i]
  BY <1>1, ConcatProperties
<1>4. ASSUME NEW i \in 1..Len(t)
      PROVE  (s \o t)[Len(s) + i] = t[i]
  <2>1. Len(s) + i \in 1..(Len(s) + Len(t)) /\ ~(Len(s) + i <= Len(s)) /\ Len(s) + i - Len(s) = i
    BY <1>1, <1>4
  <2> QED BY <2>1, ConcatProperties
<1>5. s \o t \in Seq(Frame) /\ Len(s \o t) = Len(s) + Len(t)
  BY ConcatProperties
<1>6. DOMAIN (s \o t) = 1..(Len(s) + Len(t))
  BY <1>5, LenProperties
<1> QED BY <1>1, <1>2, <1>3, <1>4, <1>5, <1>6

\* A ping changes nothing of what a stream says.
LEMMA AddPing ==
  ASSUME NEW s \in Seq(Frame), NEW t, t = Append(s, Ping)
  PROVE  Carries(t) = Carries(s) /\ (InOrder(s) => InOrder(t))
<1>1. /\ Len(s) \in Nat /\ DOMAIN s = 1..Len(s) /\ DOMAIN t = 1..(Len(s) + 1)
      /\ \A i \in 1..Len(s) : t[i] = s[i]
      /\ t[Len(s) + 1] = Ping
  BY PingIsFrame, AppendProperties, LenProperties
<1>2. Messages(t) = Messages(s)
  BY <1>1 DEF Messages
<1>3. \A i \in Messages(s) : t[i] = s[i]
  BY <1>1 DEF Messages
<1> QED BY <1>2, <1>3 DEF Carries, InOrder

LEMMA DropPing ==
  ASSUME NEW g \in Seq(Frame), NEW q \in Seq(Frame), q # <<>>, Head(q) = Ping
  PROVE  /\ Carries(g \o Tail(q)) = Carries(g \o q)
         /\ InOrder(g \o q) => InOrder(g \o Tail(q))
<1> DEFINE n == Len(g)
           s == g \o q
           t == g \o Tail(q)
           at(i) == IF i <= n THEN i ELSE i + 1
<1>1. /\ Tail(q) \in Seq(Frame) /\ n \in Nat /\ Len(q) \in Nat /\ Len(q) >= 1
      /\ Len(Tail(q)) = Len(q) - 1 /\ Len(Tail(q)) \in Nat
      /\ q[1] = Ping /\ \A i \in 1..Len(Tail(q)) : Tail(q)[i] = q[i + 1]
  BY HeadTailProperties, LenProperties, EmptySeq
<1>2. /\ DOMAIN s = 1..(n + Len(q)) /\ DOMAIN t = 1..(n + Len(q) - 1)
      /\ \A i \in 1..n : s[i] = g[i] /\ t[i] = g[i]
      /\ \A i \in 1..Len(q) : s[n + i] = q[i]
      /\ \A i \in 1..Len(Tail(q)) : t[n + i] = Tail(q)[i]
  BY <1>1, StreamIndex
<1> HIDE DEF s, t, n
<1>3. \A i \in DOMAIN t : at(i) \in DOMAIN s /\ t[i] = s[at(i)]
  <2> TAKE i \in DOMAIN t
  <2>1. CASE i <= n
    BY <1>1, <1>2, <2>1
  <2>2. CASE ~(i <= n)
    <3>1. i - n \in 1..Len(Tail(q)) /\ i - n + 1 \in 1..Len(q)
      BY <1>1, <1>2, <2>2
    <3>2. t[n + (i - n)] = Tail(q)[i - n] /\ s[n + (i - n + 1)] = q[i - n + 1]
      BY <1>2, <3>1
    <3>3. n + (i - n) = i /\ n + (i - n + 1) = i + 1 /\ i + 1 \in DOMAIN s
      BY <1>1, <1>2, <2>2
    <3> QED BY <1>1, <2>2, <3>1, <3>2, <3>3
  <2> QED BY <2>1, <2>2
<1>4. \A j \in DOMAIN s : j = n + 1 \/ \E i \in DOMAIN t : j = at(i)
  <2> TAKE j \in DOMAIN s
  <2>1. CASE j <= n
    BY <1>1, <1>2, <2>1
  <2>2. CASE j > n + 1
    <3>1. j - 1 \in DOMAIN t /\ ~(j - 1 <= n) /\ j - 1 + 1 = j
      BY <1>1, <1>2, <2>2
    <3> QED BY <3>1
  <2> QED BY <1>1, <1>2, <2>1, <2>2
<1>5. s[n + 1] = Ping
  BY <1>1, <1>2
<1>6. \A i, j \in DOMAIN t : i < j => at(i) < at(j)
  BY <1>1, <1>2
<1>7. \A i \in Messages(t) : at(i) \in Messages(s) /\ t[i] = s[at(i)]
  BY <1>3 DEF Messages
<1>8. \A j \in Messages(s) : \E i \in Messages(t) : j = at(i)
  BY <1>3, <1>4, <1>5 DEF Messages
<1>9. \A i, j \in Messages(t) : i < j => at(i) < at(j)
  BY <1>6 DEF Messages
<1> HIDE DEF at
<1>10. Carries(t) = Carries(s)
  BY <1>7, <1>8 DEF Carries
<1>11. InOrder(s) => InOrder(t)
  BY <1>7, <1>9 DEF InOrder
<1> QED BY <1>10, <1>11 DEF s, t

LEMMA JoinFrames ==
  ASSUME NEW g \in Seq(Frame), NEW q \in Seq(Frame), NEW r \in Seq(Frame)
  PROVE  (g \o q) \o r = g \o (q \o r)
BY ConcatAssociative

\* Reading the next frame moves it and changes no stream.
LEMMA ReadOne ==
  ASSUME NEW g \in Seq(Frame), NEW q \in Seq(Frame), q # <<>>
  PROVE  Append(g, Head(q)) \o Tail(q) = g \o q
<1>1. Head(q) \in Frame /\ Tail(q) \in Seq(Frame) /\ q = <<Head(q)>> \o Tail(q)
  BY HeadTailProperties
<1>2. Append(g, Head(q)) = g \o <<Head(q)>>
  BY <1>1, AppendIsConcat
<1>3. <<Head(q)>> \in Seq(Frame)
  BY <1>1
<1>4. (g \o <<Head(q)>>) \o Tail(q) = g \o (<<Head(q)>> \o Tail(q))
  BY <1>1, <1>3, ConcatAssociative
<1> QED BY <1>1, <1>2, <1>4

\* What a socket that closes has not read comes after what it has.
LEMMA CutStream ==
  ASSUME NEW g \in Seq(Frame), NEW q \in Seq(Frame), InOrder(g \o q)
  PROVE  /\ InOrder(g)
         /\ Carries(g) \subseteq Carries(g \o q)
         /\ \A m \in Carries(g \o q) \ Carries(g), k \in Carries(g) : Before(k, m)
<1> DEFINE s == g \o q
<1>1. /\ Len(g) \in Nat /\ Len(q) \in Nat /\ DOMAIN g = 1..Len(g)
      /\ DOMAIN s = 1..(Len(g) + Len(q))
      /\ \A i \in 1..Len(g) : s[i] = g[i]
  BY StreamIndex, LenProperties
<1>0. InOrder(s)
  OBVIOUS
<1> HIDE DEF s
<1>2. \A i \in Messages(g) : i \in Messages(s) /\ s[i] = g[i]
  BY <1>1 DEF Messages
<1>3. \A j \in Messages(s) : j \in Messages(g) \/ j > Len(g)
  BY <1>1 DEF Messages
<1>4. \A i \in Messages(g), j \in Messages(s) : j > Len(g) => i < j
  BY <1>1 DEF Messages
<1>5. InOrder(g)
  BY <1>0, <1>2 DEF InOrder
<1>6. Carries(g) \subseteq Carries(s)
  BY <1>2 DEF Carries
<1>7. ASSUME NEW m \in Carries(s) \ Carries(g), NEW k \in Carries(g)
      PROVE  Before(k, m)
  <2>1. PICK i \in Messages(g) : k = g[i]
    BY DEF Carries
  <2>2. PICK j \in Messages(s) : m = s[j]
    BY DEF Carries
  <2>3. j > Len(g)
    BY <1>2, <1>3, <2>2 DEF Carries
  <2>4. i < j /\ i \in Messages(s) /\ s[i] = k
    BY <1>2, <1>4, <2>1, <2>3
  <2> QED BY <1>0, <2>2, <2>4 DEF InOrder
<1> QED BY <1>5, <1>6, <1>7 DEF s

\* The messages of one announcement: none is a ping, and each is found once.
LEMMA MessageFacts ==
  ASSUME NEW e \in {"block", "tx"}, NEW n \in Nat
  PROVE  /\ Len(MessagesOf(e, n)) \in Nat
         /\ DOMAIN MessagesOf(e, n) = 1..Len(MessagesOf(e, n))
         /\ \A i \in DOMAIN MessagesOf(e, n) :
              MessagesOf(e, n)[i].event = n /\ MessagesOf(e, n)[i] # Ping
<1>1. MessagesOf(e, n) \in Seq(Frame)
  BY MessagesAreFrames
<1>2. CASE e = "block"
  <2>1. \A x, y, z : DOMAIN <<x, y, z>> = 1..3 /\ \A i \in 1..3 : <<x, y, z>>[i] \in {x, y, z}
    OBVIOUS
  <2> QED BY <1>1, <1>2, <2>1, LenProperties DEF MessagesOf, Ping
<1>3. CASE e = "tx"
  <2>1. \A x, y : DOMAIN <<x, y>> = 1..2 /\ \A i \in 1..2 : <<x, y>>[i] \in {x, y}
    OBVIOUS
  <2> QED BY <1>1, <1>3, <2>1, LenProperties DEF MessagesOf, Ping
<1> QED BY <1>2, <1>3

LEMMA SentFacts ==
  ASSUME IInv, NEW c \in Client, since[c] \in Nat, NEW m \in SentTo(c)
  PROVE  m.event \in (since[c] + 1)..Len(events)
<1>1. PICK n \in (since[c] + 1)..Len(events) : m \in ToSet(MessagesOf(events[n], n))
  BY DEF SentTo
<1>2. events[n] \in {"block", "tx"} /\ n \in Nat
  <2>1. n \in 1..Len(events) /\ events \in Seq({"block", "tx"})
    BY <1>1, LenProperties DEF IInv, Types
  <2> QED BY <2>1, ElementOfSeq
<1>3. m.event = n
  <2>1. PICK i \in DOMAIN MessagesOf(events[n], n) : m = MessagesOf(events[n], n)[i]
    BY <1>1 DEF ToSet
  <2> QED BY <1>2, <2>1, MessageFacts
<1> QED BY <1>3

\* A client whose stream says the same as before is as well served as before.
LEMMA SameStream ==
  ASSUME NEW c \in Client, Faithful(c), UNCHANGED events, since'[c] = since[c],
         Carries(Stream(c)') = Carries(Stream(c)),
         InOrder(Stream(c)) => InOrder(Stream(c)'),
         ready[c] # "open" => ready'[c] # "open"
  PROVE  Faithful(c)'
<1>1. \A m, k : Before(m, k)' <=> Before(m, k)
  BY DEF Before
<1>2. SentTo(c)' = SentTo(c)
  BY DEF SentTo
<1>3. InOrder(Stream(c))'
  <2>1. InOrder(Stream(c)')
    BY DEF Faithful
  <2> QED BY <1>1, <2>1 DEF InOrder, Messages
<1>4. Carries(Stream(c))' = Carries(Stream(c))
  BY DEF Carries, Messages
<1> QED BY <1>1, <1>2, <1>3, <1>4 DEF Faithful

LEMMA QuietStep ==
  ASSUME IInv, StreamInv, UNCHANGED <<queue, got, since, events>>,
         \A c \in Client : /\ ready'[c] = "none" <=> ready[c] = "none"
                           /\ ready'[c] = "open" => ready[c] = "open"
  PROVE  StreamInv'
<1>1. \A c \in Client : Stream(c)' = Stream(c)
  BY DEF Stream
<1>2. ASSUME NEW c \in Client, ready[c] # "none" PROVE Faithful(c)'
  BY <1>1, <1>2, SameStream DEF StreamInv
<1> QED BY <1>1, <1>2 DEF StreamInv

LEMMA ConnectStream == ASSUME IInv, StreamInv, NEW c \in Client, Connect(c) PROVE StreamInv'
<1>1. /\ UNCHANGED <<queue, got, events>> /\ ready[c] = "none"
      /\ ready' = [ready EXCEPT ![c] = "open"] /\ since' = [since EXCEPT ![c] = Len(events)]
  BY DEF Connect, peerVars
<1>2. Len(events) \in Nat
  BY LenProperties DEF IInv, Types
<1>3. since'[c] = Len(events) /\ \A d \in Client \ {c} : since'[d] = since[d] /\ ready'[d] = ready[d]
  BY <1>1 DEF IInv, Types, TypeOK
<1>4. \A d \in Client : Stream(d)' = Stream(d)
  BY <1>1 DEF Stream
<1>5. Faithful(c)'
  <2>1. Stream(c)' = <<>>
    BY <1>1, <1>4 DEF StreamInv
  <2>2. SentTo(c)' = {}
    <3>1. (since'[c] + 1)..Len(events') = {}
      BY <1>1, <1>2, <1>3
    <3> QED BY <3>1 DEF SentTo
  <2>3. Messages(Stream(c))' = {}
    BY <2>1 DEF Messages
  <2> QED BY <2>2, <2>3 DEF Faithful, InOrder, Carries
<1>6. ASSUME NEW d \in Client \ {c}, ready[d] # "none" PROVE Faithful(d)'
  BY <1>1, <1>3, <1>4, <1>6, SameStream DEF StreamInv
<1>7. ready'[c] # "none"
  BY <1>1 DEF IInv, Types, TypeOK
<1> QED BY <1>1, <1>2, <1>3, <1>4, <1>5, <1>6, <1>7 DEF StreamInv

LEMMA HeartbeatStream == ASSUME IInv, StreamInv, Heartbeat PROVE StreamInv'
<1>1. /\ UNCHANGED <<got, since, events>>
      /\ clients' \subseteq WithState("open")
      /\ queue' = [c \in Client |-> IF c \in clients' THEN Pinged(queue[c]) ELSE queue[c]]
      /\ \A c \in Client : ready'[c] \in {"closing", ready[c]} /\ (ready'[c] = "none" <=> ready[c] = "none")
  <2>1. clients' \subseteq WithState("open")
    BY DEF Heartbeat, WithState, IInv, Types, TypeOK
  <2>2. \A c \in Client : ready'[c] = IF c \in Missed THEN "closing" ELSE ready[c]
    BY DEF Heartbeat
  <2>3. \A c \in Missed : ready[c] = "open"
    BY DEF Missed
  <2> QED BY <2>1, <2>2, <2>3 DEF Heartbeat, peerVars
<1>2. ASSUME NEW c \in Client
      PROVE  /\ Carries(Stream(c)') = Carries(Stream(c))
             /\ InOrder(Stream(c)) => InOrder(Stream(c)')
  <2>1. got[c] \in Seq(Frame) /\ queue[c] \in Seq(Frame)
    BY DEF StreamInv, IInv, Types
  <2>2. CASE queue'[c] = queue[c]
    BY <1>1, <2>2 DEF Stream
  <2>3. CASE queue'[c] = Append(queue[c], Ping)
    <3>1. Stream(c)' = Append(Stream(c), Ping)
      <4>1. Append(queue[c], Ping) = queue[c] \o <<Ping>> /\ <<Ping>> \in Seq(Frame)
        BY <2>1, PingIsFrame, AppendIsConcat
      <4>2. Stream(c) \in Seq(Frame)
        BY <2>1, ConcatProperties DEF Stream
      <4>3. Append(Stream(c), Ping) = Stream(c) \o <<Ping>>
        BY <4>2, PingIsFrame, AppendIsConcat
      <4>4. (got[c] \o queue[c]) \o <<Ping>> = got[c] \o (queue[c] \o <<Ping>>)
        BY <2>1, <4>1, JoinFrames, Zenon
      <4>5. got'[c] = got[c] /\ queue'[c] = queue[c] \o <<Ping>>
        BY <1>1, <2>3, <4>1
      <4> QED BY <4>3, <4>4, <4>5, Zenon DEF Stream
    <3>2. Stream(c) \in Seq(Frame)
      BY <2>1, ConcatProperties DEF Stream
    <3> QED BY <3>1, <3>2, AddPing
  <2> QED BY <1>1, <2>2, <2>3 DEF Pinged
<1>3. ASSUME NEW c \in Client, ready[c] # "none" PROVE Faithful(c)'
  BY <1>1, <1>2, <1>3, SameStream DEF StreamInv
<1>4. ASSUME NEW c \in Client, ready'[c] = "none" PROVE Stream(c)' = <<>>
  <2>1. ready[c] = "none" /\ c \notin clients'
    BY <1>1, <1>4 DEF WithState
  <2> QED BY <1>1, <2>1 DEF StreamInv, Stream
<1> QED BY <1>1, <1>3, <1>4 DEF StreamInv

LEMMA PeerReadsStream == ASSUME IInv, StreamInv, NEW c \in Client, PeerReads(c) PROVE StreamInv'
<1>1. /\ ready[c] = "open" /\ queue[c] # <<>> /\ queue' = [queue EXCEPT ![c] = Tail(@)]
      /\ UNCHANGED <<ready, since, events>>
      /\ \/ Head(queue[c]) = Ping /\ UNCHANGED got
         \/ /\ Head(queue[c]) # Ping
            /\ got' = [got EXCEPT ![c] = Append(@, Head(queue[c]))]
  BY DEF PeerReads
<1>2. /\ got[c] \in Seq(Frame) /\ queue[c] \in Seq(Frame)
      /\ Head(queue[c]) \in Frame
      /\ queue'[c] = Tail(queue[c]) /\ \A d \in Client \ {c} : queue'[d] = queue[d]
  BY <1>1, HeadTailProperties DEF StreamInv, IInv, Types
<1>3. got' \in [Client -> Seq(Frame)]
  <2>1. Append(got[c], Head(queue[c])) \in Seq(Frame)
    BY <1>2, AppendProperties
  <2> QED BY <1>1, <2>1 DEF StreamInv
<1>4. ASSUME NEW d \in Client
      PROVE  /\ Carries(Stream(d)') = Carries(Stream(d))
             /\ InOrder(Stream(d)) => InOrder(Stream(d)')
             /\ d # c => Stream(d)' = Stream(d)
  <2>1. CASE d # c
    <3>1. got'[d] = got[d]
      BY <1>1, <2>1 DEF StreamInv
    <3> QED BY <1>2, <2>1, <3>1 DEF Stream
  <2>2. CASE d = c /\ Head(queue[c]) = Ping /\ UNCHANGED got
    BY <1>1, <1>2, <2>2, DropPing DEF Stream
  <2>3. CASE d = c /\ got' = [got EXCEPT ![c] = Append(@, Head(queue[c]))]
    <3>1. got'[c] = Append(got[c], Head(queue[c]))
      BY <2>3 DEF StreamInv
    <3>2. Stream(c)' = Stream(c)
      BY <1>1, <1>2, <3>1, ReadOne DEF Stream
    <3> QED BY <2>3, <3>2
  <2> QED BY <1>1, <2>1, <2>2, <2>3
<1>5. ASSUME NEW d \in Client, ready[d] # "none" PROVE Faithful(d)'
  BY <1>1, <1>4, <1>5, SameStream DEF StreamInv
<1> QED BY <1>1, <1>3, <1>4, <1>5 DEF StreamInv

LEMMA SocketClosedStream ==
  ASSUME IInv, StreamInv, NEW c \in Client, SocketClosed(c)
  PROVE  StreamInv'
<1>1. /\ ready[c] = "closing" /\ ready' = [ready EXCEPT ![c] = "closed"]
      /\ queue' = [queue EXCEPT ![c] = <<>>] /\ UNCHANGED <<got, since, events>>
  BY DEF SocketClosed, peerVars
<1>2. /\ got[c] \in Seq(Frame) /\ queue[c] \in Seq(Frame)
      /\ queue'[c] = <<>> /\ ready'[c] = "closed"
      /\ \A d \in Client \ {c} : queue'[d] = queue[d] /\ ready'[d] = ready[d]
  BY <1>1 DEF StreamInv, IInv, Types, TypeOK
<1>3. \A d \in Client \ {c} : Stream(d)' = Stream(d)
  BY <1>1, <1>2 DEF Stream
<1>4. Stream(c)' = got[c]
  BY <1>1, <1>2, ConcatEmptySeq DEF Stream
<1>5. Faithful(c)'
  <2>1. Faithful(c)
    BY <1>1 DEF StreamInv
  <2>2. /\ InOrder(got[c])
        /\ Carries(got[c]) \subseteq Carries(Stream(c))
        /\ \A m \in Carries(Stream(c)) \ Carries(got[c]), k \in Carries(got[c]) : Before(k, m)
    BY <1>2, <2>1, CutStream DEF Faithful, Stream
  <2>3. \A m, k : Before(m, k)' <=> Before(m, k)
    BY <1>1 DEF Before
  <2>4. SentTo(c)' = SentTo(c)
    BY <1>1 DEF SentTo
  <2>5. Carries(Stream(c))' = Carries(got[c])
    BY <1>4 DEF Carries, Messages
  <2>6. InOrder(Stream(c))'
    BY <1>4, <2>2, <2>3 DEF InOrder, Messages
  <2>7. ASSUME NEW m \in SentTo(c) \ Carries(got[c]), NEW k \in Carries(got[c])
        PROVE  Before(k, m)
    <3>1. CASE m \in Carries(Stream(c))
      BY <2>2, <3>1
    <3>2. CASE m \notin Carries(Stream(c))
      BY <2>1, <2>2, <3>2 DEF Faithful
    <3> QED BY <3>1, <3>2
  <2>8. Carries(got[c]) \subseteq SentTo(c)
    BY <2>1, <2>2 DEF Faithful
  <2> QED BY <1>2, <2>3, <2>4, <2>5, <2>6, <2>7, <2>8 DEF Faithful
<1>6. ASSUME NEW d \in Client \ {c}, ready[d] # "none" PROVE Faithful(d)'
  BY <1>1, <1>2, <1>3, <1>6, SameStream DEF StreamInv
<1> QED BY <1>1, <1>2, <1>3, <1>5, <1>6 DEF StreamInv

-----------------------------------------------------------------------------
(* An announcement. *)

\* What an announcement adds to what is to be sent to a client, and what it leaves.
LEMMA AnnounceFacts ==
  ASSUME IInv, StreamInv, NEW e \in {"block", "tx"}, Announce(e)
  PROVE  /\ Len(events) \in Nat /\ Len(events') = Len(events) + 1
         /\ events'[Len(events) + 1] = e
         /\ \A n \in 1..Len(events) : events'[n] = events[n]
         /\ \A c \in Client :
              SentTo(c)' = SentTo(c) \cup ToSet(MessagesOf(e, Len(events) + 1))
         /\ \A c \in Client : \A m \in SentTo(c) : \A k : Before(m, k) => Before(m, k)'
<1>1. events \in Seq({"block", "tx"}) /\ events' = Append(events, e)
  BY DEF IInv, Types, Announce
<1>2. /\ Len(events) \in Nat /\ Len(events') = Len(events) + 1
      /\ events'[Len(events) + 1] = e
      /\ \A n \in 1..Len(events) : events'[n] = events[n]
  BY <1>1, LenProperties, AppendProperties
<1>3. ASSUME NEW c \in Client
      PROVE  SentTo(c)' = SentTo(c) \cup ToSet(MessagesOf(e, Len(events) + 1))
  <2>1. since[c] \in Nat /\ since[c] <= Len(events) /\ since' = since
    BY DEF StreamInv, Announce
  <2>2. (since[c] + 1)..Len(events') = ((since[c] + 1)..Len(events)) \cup {Len(events) + 1}
    BY <1>2, <2>1
  <2>3. \A n \in (since[c] + 1)..Len(events) : events'[n] = events[n]
    BY <1>2, <2>1
  <2> DEFINE F(n) == ToSet(MessagesOf(events[n], n))
             G(n) == ToSet(MessagesOf(events'[n], n))
  <2>4. \A n \in (since[c] + 1)..Len(events) : G(n) = F(n)
    BY <2>3
  <2>5. G(Len(events) + 1) = ToSet(MessagesOf(e, Len(events) + 1))
    BY <1>2
  <2>6. SentTo(c) = UNION {F(n) : n \in (since[c] + 1)..Len(events)}
    BY DEF SentTo
  <2>7. SentTo(c)' = UNION {G(n) : n \in (since[c] + 1)..Len(events')}
    BY <2>1 DEF SentTo, ToSet
  <2> HIDE DEF F, G
  <2> QED BY <2>2, <2>4, <2>5, <2>6, <2>7
<1>4. ASSUME NEW c \in Client, NEW m \in SentTo(c), NEW k, Before(m, k)
      PROVE  Before(m, k)'
  <2>1. m.event \in (since[c] + 1)..Len(events) /\ since[c] \in Nat
    BY SentFacts DEF StreamInv
  <2>2. m.event \in 1..Len(events)
    BY <1>2, <2>1
  <2>3. events'[m.event] = events[m.event]
    BY <1>2, <2>2
  <2> QED BY <1>4, <2>3 DEF Before
<1> QED BY <1>2, <1>3, <1>4

\* A recipient's stream takes the messages on, in their order.
LEMMA RecipientServed ==
  ASSUME IInv, StreamInv, NEW e \in {"block", "tx"}, Announce(e), NEW c \in Client,
         Faithful(c), ready[c] = "open",
         queue'[c] = queue[c] \o MessagesOf(e, Len(events) + 1)
  PROVE  Faithful(c)'
<1>n. PICK n : n = Len(events) + 1
  OBVIOUS
<1>m. PICK ms : ms = MessagesOf(e, n)
  OBVIOUS
<1>s. PICK s : s = Stream(c)
  OBVIOUS
<1>t. PICK t : t = s \o ms
  OBVIOUS
<1>a. /\ Len(events) \in Nat /\ n \in Nat /\ events'[n] = e
      /\ SentTo(c)' = SentTo(c) \cup ToSet(ms)
      /\ \A m \in SentTo(c) : \A k : Before(m, k) => Before(m, k)'
      /\ \A m \in SentTo(c) : m.event \in Nat /\ m.event < n
  <2>1. \A m \in SentTo(c) : m.event \in (since[c] + 1)..Len(events) /\ since[c] \in Nat
    BY SentFacts DEF StreamInv
  <2>2. Len(events) \in Nat
    BY AnnounceFacts
  <2>3. \A m \in SentTo(c) : m.event \in Nat /\ m.event < n
    BY <1>n, <2>1, <2>2
  <2> QED BY <1>n, <1>m, <2>2, <2>3, AnnounceFacts
<1>b. /\ Len(ms) \in Nat /\ DOMAIN ms = 1..Len(ms) /\ ms \in Seq(Frame)
      /\ \A i \in DOMAIN ms : ms[i].event = n /\ ms[i] # Ping
  <2>1. n \in Nat /\ ms = MessagesOf(e, n)
    BY <1>a, <1>m
  <2>2. ms \in Seq(Frame)
    BY <2>1, MessagesAreFrames
  <2>3. /\ Len(MessagesOf(e, n)) \in Nat
        /\ DOMAIN MessagesOf(e, n) = 1..Len(MessagesOf(e, n))
        /\ \A i \in DOMAIN MessagesOf(e, n) :
             MessagesOf(e, n)[i].event = n /\ MessagesOf(e, n)[i] # Ping
    BY <2>1, MessageFacts
  <2> QED BY <2>1, <2>2, <2>3, Zenon
<1>c. got[c] \in Seq(Frame) /\ queue[c] \in Seq(Frame) /\ s \in Seq(Frame) /\ got' = got
  BY <1>s, ConcatProperties DEF StreamInv, IInv, Types, Stream, Announce, peerVars
<1>d. Stream(c)' = t
  <2>1. (got[c] \o queue[c]) \o ms = got[c] \o (queue[c] \o ms)
    BY <1>b, <1>c, JoinFrames, Zenon
  <2>2. queue'[c] = queue[c] \o ms
    BY <1>n, <1>m
  <2> QED BY <1>c, <1>s, <1>t, <2>1, <2>2, Zenon DEF Stream
<1>e. InOrder(s) /\ Carries(s) \subseteq SentTo(c)
      /\ SentTo(c) \subseteq Carries(s)
  BY <1>s DEF Faithful
<1>1. /\ Len(s) \in Nat /\ DOMAIN s = 1..Len(s) /\ DOMAIN t = 1..(Len(s) + Len(ms))
      /\ \A i \in 1..Len(s) : t[i] = s[i]
      /\ \A i \in 1..Len(ms) : t[Len(s) + i] = ms[i]
      /\ \A i \in DOMAIN t : i \in 1..Len(s) \/ \E j \in 1..Len(ms) : i = Len(s) + j
  BY <1>b, <1>c, <1>t, StreamIndex, LenProperties
<1>2. \A i \in Messages(t) :
        \/ i \in Messages(s) /\ t[i] = s[i]
        \/ \E j \in 1..Len(ms) : i = Len(s) + j /\ t[i] = ms[j]
  BY <1>1 DEF Messages
<1>3. \A i \in Messages(s) : i \in Messages(t) /\ t[i] = s[i]
  BY <1>1, <1>b DEF Messages
<1>4. \A j \in 1..Len(ms) : Len(s) + j \in Messages(t) /\ t[Len(s) + j] = ms[j]
  BY <1>1, <1>b DEF Messages
<1>5. Carries(t) = Carries(s) \cup ToSet(ms)
  BY <1>2, <1>3, <1>4, <1>b DEF Carries, ToSet
<1>6. \A m \in SentTo(c), k \in ToSet(ms) : Before(m, k)'
  <2> TAKE m \in SentTo(c), k \in ToSet(ms)
  <2>1. k.event = n
    BY <1>b DEF ToSet
  <2> QED BY <1>a, <2>1 DEF Before
<1>7. \A i, j \in 1..Len(ms) : i < j => Before(ms[i], ms[j])'
  <2> SUFFICES ASSUME NEW i \in 1..Len(ms), NEW j \in 1..Len(ms), i < j
               PROVE  Before(ms[i], ms[j])'
    OBVIOUS
  <2>1. ms[i].event = n /\ ms[j].event = n
    BY <1>b
  <2>2. MessagesOf(events'[ms[i].event], ms[i].event) = ms
    BY <1>a, <1>m, <2>1
  <2> QED BY <1>b, <2>1, <2>2 DEF Before
<1>8. \A i, j \in Messages(t) : i < j => Before(t[i], t[j])'
  <2> SUFFICES ASSUME NEW i \in Messages(t), NEW j \in Messages(t), i < j
               PROVE  Before(t[i], t[j])'
    OBVIOUS
  <2>1. CASE i \in Messages(s) /\ t[i] = s[i]
    <3>1. s[i] \in SentTo(c)
      BY <1>e, <2>1 DEF Carries
    <3>2. CASE j \in Messages(s) /\ t[j] = s[j]
      BY <1>a, <1>e, <2>1, <3>1, <3>2 DEF InOrder
    <3>3. CASE \E x \in 1..Len(ms) : j = Len(s) + x /\ t[j] = ms[x]
      <4>1. t[j] \in ToSet(ms)
        BY <3>3, <1>b DEF ToSet
      <4> QED BY <1>6, <2>1, <3>1, <4>1
    <3> QED BY <1>2, <3>2, <3>3
  <2>2. CASE \E x \in 1..Len(ms) : i = Len(s) + x /\ t[i] = ms[x]
    <3>1. PICK x \in 1..Len(ms) : i = Len(s) + x /\ t[i] = ms[x]
      BY <2>2
    <3>2. j \in 1..(Len(s) + Len(ms)) /\ j \notin 1..Len(s)
      BY <1>1, <1>b, <3>1 DEF Messages
    <3>3. PICK y \in 1..Len(ms) : j = Len(s) + y
      BY <1>1, <3>2
    <3>4. x < y /\ t[j] = ms[y]
      BY <1>1, <1>b, <3>1, <3>3
    <3> QED BY <1>7, <3>1, <3>4
  <2> QED BY <1>2, <2>1, <2>2
<1>9. InOrder(Stream(c))'
  BY <1>d, <1>8 DEF InOrder, Messages
<1>10. Carries(Stream(c))' = Carries(t)
  BY <1>d DEF Carries, Messages
<1>11. SentTo(c)' = SentTo(c) \cup ToSet(ms)
  BY <1>a
<1> QED BY <1>5, <1>9, <1>10, <1>11, <1>e DEF Faithful

\* Another stream stays as it is, behind by what was announced.
LEMMA OthersBehind ==
  ASSUME IInv, StreamInv, NEW e \in {"block", "tx"}, Announce(e), NEW c \in Client,
         Faithful(c), ready[c] # "open", queue'[c] = queue[c]
  PROVE  Faithful(c)'
<1>n. PICK n : n = Len(events) + 1
  OBVIOUS
<1>m. PICK ms : ms = MessagesOf(e, n)
  OBVIOUS
<1>a. /\ Len(events) \in Nat /\ n \in Nat
      /\ SentTo(c)' = SentTo(c) \cup ToSet(ms)
      /\ \A m \in SentTo(c) : \A k : Before(m, k) => Before(m, k)'
      /\ \A m \in SentTo(c) : m.event \in Nat /\ m.event < n
  <2>1. \A m \in SentTo(c) : m.event \in (since[c] + 1)..Len(events) /\ since[c] \in Nat
    BY SentFacts DEF StreamInv
  <2>2. Len(events) \in Nat
    BY AnnounceFacts
  <2>3. \A m \in SentTo(c) : m.event \in Nat /\ m.event < n
    BY <1>n, <2>1, <2>2
  <2> QED BY <1>n, <1>m, <2>2, <2>3, AnnounceFacts
<1>b. \A k \in ToSet(ms) : k.event = n
  <2>1. n \in Nat /\ ms = MessagesOf(e, n)
    BY <1>a, <1>m
  <2>3. \A i \in DOMAIN MessagesOf(e, n) : MessagesOf(e, n)[i].event = n
    BY <2>1, MessageFacts
  <2>2. \A i \in DOMAIN ms : ms[i].event = n
    BY <2>1, <2>3, Zenon
  <2> QED BY <2>2, Zenon DEF ToSet
<1>c. Stream(c)' = Stream(c) /\ ready' = ready
  BY DEF Announce, peerVars, Stream
<1>1. InOrder(Stream(c))'
  <2>1. \A i \in Messages(Stream(c)) : Stream(c)[i] \in SentTo(c)
    BY DEF Faithful, Carries
  <2> QED BY <1>a, <1>c, <2>1 DEF Faithful, InOrder, Messages
<1>2. Carries(Stream(c))' = Carries(Stream(c))
  BY <1>c DEF Carries, Messages
<1>3. ASSUME NEW m \in SentTo(c)' \ Carries(Stream(c)), NEW k \in Carries(Stream(c))
      PROVE  Before(k, m)'
  <2>0. k \in SentTo(c)
    BY DEF Faithful
  <2>1. CASE m \in SentTo(c)
    BY <1>a, <2>0, <2>1 DEF Faithful
  <2>2. CASE m \in ToSet(ms)
    BY <1>a, <1>b, <2>0, <2>2 DEF Before
  <2> QED BY <1>a, <2>1, <2>2
<1> QED BY <1>1, <1>2, <1>3, <1>a, <1>c DEF Faithful

LEMMA AnnounceStream ==
  ASSUME IInv, StreamInv, NEW e \in {"block", "tx"}, Announce(e)
  PROVE  StreamInv'
<1>1. /\ UNCHANGED <<got, ready, since>>
      /\ events' = Append(events, e)
      /\ queue' = [c \in Client |->
           IF c \in Recipients THEN queue[c] \o MessagesOf(e, Len(events')) ELSE queue[c]]
  BY DEF Announce, peerVars
<1>2. Len(events) \in Nat /\ Len(events') = Len(events) + 1
  BY AnnounceFacts
<1>3. \A c \in Client : c \in Recipients <=> ready[c] = "open"
  BY DEF Recipients, IInv, KnownIsConnected, WithState
<1>4. ASSUME NEW c \in Client, ready[c] # "none" PROVE Faithful(c)'
  <2>1. Faithful(c)
    BY <1>4 DEF StreamInv
  <2> QED BY <1>1, <1>2, <1>3, <2>1, RecipientServed, OthersBehind
<1>5. ASSUME NEW c \in Client, ready[c] = "none" PROVE Stream(c)' = <<>>
  BY <1>1, <1>3, <1>5 DEF StreamInv, Stream
<1>6. \A c \in Client : since'[c] \in Nat /\ since'[c] <= Len(events')
  BY <1>1, <1>2 DEF StreamInv
<1> QED BY <1>1, <1>4, <1>5, <1>6 DEF StreamInv

LEMMA InitStream == Init => StreamInv
<1> SUFFICES ASSUME Init PROVE StreamInv
  OBVIOUS
<1>1. \A c \in Client : Stream(c) = <<>> \o <<>>
  BY DEF Init, Stream
<1>2. <<>> \o <<>> = <<>>
  BY ConcatEmptySeq
<1>3. got \in [Client -> Seq(Frame)] /\ Len(events) = 0
  BY DEF Init
<1> QED BY <1>1, <1>2, <1>3 DEF Init, StreamInv

LEMMA NextStream == ASSUME IInv, StreamInv, [Next]_vars PROVE StreamInv'
<1>1. CASE Start \/ Listen \/ Stop \/ WssClosed \/ OwnServerClosed \/ UNCHANGED vars
  <2>1. UNCHANGED <<queue, got, since, events>>
    BY <1>1 DEF Start, Listen, Stop, WssClosed, OwnServerClosed, vars, peerVars
  <2>2. \A c \in Client : /\ ready'[c] = "none" <=> ready[c] = "none"
                          /\ ready'[c] = "open" => ready[c] = "open"
    BY <1>1 DEF Start, Listen, Stop, Terminated, WssClosed, OwnServerClosed, vars
  <2> QED BY <2>1, <2>2, QuietStep
<1>2. ASSUME NEW c \in Client, PongArrives(c) \/ PeerFallsSilent(c) \/ PeerLeaves(c)
      PROVE  StreamInv'
  <2>1. UNCHANGED <<queue, got, since, events>>
    BY <1>2 DEF PongArrives, PeerFallsSilent, PeerLeaves, peerVars
  <2>2. \A d \in Client : /\ ready'[d] = "none" <=> ready[d] = "none"
                          /\ ready'[d] = "open" => ready[d] = "open"
    BY <1>2 DEF PongArrives, PeerFallsSilent, PeerLeaves, IInv, Types, TypeOK
  <2> QED BY <2>1, <2>2, QuietStep
<1> QED BY <1>1, <1>2, ConnectStream, HeartbeatStream, PeerReadsStream, SocketClosedStream,
           AnnounceStream
        DEF Next

\* Whoever stays connected is sent every block and transaction announced from then on, once
\* and in order, for any number of clients and announcements; what a closing socket lacks is
\* the end of it (websocketGateway.js:64-83).
THEOREM EveryMessageIsSent == Spec => []NoMessageMissed
<1>1. StreamInv => NoMessageMissed
  BY DEF StreamInv, Faithful, NoMessageMissed
<1>2. IInv /\ StreamInv /\ [Next]_vars => StreamInv'
  BY NextStream
<1> QED BY <1>1, <1>2, InitStream, Invariance, PTL DEF Spec
================================================================================

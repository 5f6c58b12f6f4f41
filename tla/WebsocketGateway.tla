---------------------------- MODULE WebsocketGateway ----------------------------
(***************************************************************************)
(* The WebSocket gateway (src/infra/websocketGateway.js): it passes block  *)
(* and transaction announcements on to its clients, drops the clients that *)
(* no longer answer its pings, and stops.  The ws library is external: it  *)
(* keeps its own set of sockets, each with a readyState, and closes a      *)
(* socket some time after it was asked to.  Frames a peer has not read     *)
(* wait in the socket's queue; a peer that falls silent reads no more.     *)
(*                                                                         *)
(* Definitions ending in _Fault are plausible mistakes in the definition   *)
(* that follows them.                                                      *)
(***************************************************************************)
EXTENDS Integers, Sequences, SequencesExt

CONSTANTS
  Client,      \* sockets that may connect, once each
  MaxEvents,   \* bound: announcements made
  QueueLimit   \* a length no queue should exceed

ASSUME BoundsAssumption == MaxEvents \in Nat /\ QueueLimit \in Nat

VARIABLES
  state,    \* "off", "listening", "running", "closing", "ownClosing", "stopped", "failed"
  own,      \* the gateway has a server of its own
  clients,  \* the gateway's set
  ready,    \* per socket: "none", or its readyState "open", "closing", "closed"
  isAlive,  \* per socket: "true" or, since the last ping, "false"
  queue,    \* per socket: frames sent and not yet read
  pong,     \* per socket: a pong is on its way
  silent,   \* per socket: the peer is gone without closing
  left,     \* history: the peer closed the socket
  got,      \* history: the messages the peer has read
  since,    \* history: announcements made before it connected
  events    \* the announcements, "block" or "tx"

peerVars == <<silent, left, got>>
vars == <<state, own, clients, ready, isAlive, queue, pong, peerVars, since, events>>

Init ==
  /\ state = "off" /\ own \in BOOLEAN
  /\ clients = {}
  /\ ready = [c \in Client |-> "none"]
  /\ isAlive = [c \in Client |-> "false"]
  /\ queue = [c \in Client |-> <<>>]
  /\ pong = [c \in Client |-> FALSE]
  /\ silent = [c \in Client |-> FALSE]
  /\ left = [c \in Client |-> FALSE]
  /\ got = [c \in Client |-> <<>>]
  /\ since = [c \in Client |-> 0]
  /\ events = <<>>

WithState(s) == {c \in Client : ready[c] = s}

\* wss.clients: sockets that have not closed yet.
Tracked == WithState("open") \cup WithState("closing")

--------------------------------------------------------------------------------
(* startWebsocketGateway *)

Start ==
  /\ state = "off"
  /\ state' = IF own THEN "listening" ELSE "running"
  /\ UNCHANGED <<own, clients, ready, isAlive, queue, pong, peerVars, since, events>>

\* The own server listens, or its port is taken.
Listen ==
  /\ state = "listening" /\ state' \in {"running", "failed"}
  /\ UNCHANGED <<own, clients, ready, isAlive, queue, pong, peerVars, since, events>>

\* wss.on("connection").
NewIsAlive_FalseFault(c) == isAlive' = [isAlive EXCEPT ![c] = "false"]
NewIsAlive(c) == isAlive' = [isAlive EXCEPT ![c] = "true"]

Connect(c) ==
  /\ state = "running" /\ ready[c] = "none"
  /\ ready' = [ready EXCEPT ![c] = "open"]
  /\ clients' = clients \cup {c}
  /\ NewIsAlive(c)
  /\ since' = [since EXCEPT ![c] = Len(events)]
  /\ UNCHANGED <<state, own, queue, pong, peerVars, events>>

--------------------------------------------------------------------------------
(* broadcast *)

\* The messages of the n-th announcement.
MessagesOf(e, n) ==
  IF e = "block"
    THEN <<[type |-> "block.new", event |-> n], [type |-> "tip.update", event |-> n],
           [type |-> "mempool.invalidate", event |-> n]>>
    ELSE <<[type |-> "tx.new", event |-> n], [type |-> "mempool.invalidate", event |-> n]>>

Recipients_AliveFault == {c \in clients : ready[c] = "open" /\ isAlive[c] = "true"}
Recipients == {c \in clients : ready[c] = "open"}

Announce(e) ==
  /\ state = "running" /\ Len(events) < MaxEvents
  /\ events' = Append(events, e)
  /\ queue' = [c \in Client |->
       IF c \in Recipients THEN queue[c] \o MessagesOf(e, Len(events')) ELSE queue[c]]
  /\ UNCHANGED <<state, own, clients, ready, isAlive, pong, peerVars, since>>

--------------------------------------------------------------------------------
(* The heartbeat. *)

Ping == [type |-> "ping", event |-> 0]

\* Timing: a peer that is not silent reads, and its pong arrives, within an interval.
IntervalOver ==
  \A c \in WithState("open") : ~silent[c] => queue[c] = <<>> /\ ~pong[c]

\* (a second unread ping would not be recorded; there is never one)
Pinged(q) == IF Contains(q, Ping) THEN q ELSE Append(q, Ping)

Missed_NobodyFault == {}
Missed == {c \in clients : ready[c] = "open" /\ isAlive[c] = "false"}

Heartbeat ==
  /\ state = "running" /\ IntervalOver
  /\ clients' = {c \in clients : ready[c] = "open"} \ Missed
  /\ ready' = [c \in Client |-> IF c \in Missed THEN "closing" ELSE ready[c]]
  /\ isAlive' = [c \in Client |-> IF c \in clients' THEN "false" ELSE isAlive[c]]
  /\ queue' = [c \in Client |-> IF c \in clients' THEN Pinged(queue[c]) ELSE queue[c]]
  /\ UNCHANGED <<state, own, pong, peerVars, since, events>>

PongArrives(c) ==
  /\ pong[c] /\ ready[c] = "open"
  /\ pong' = [pong EXCEPT ![c] = FALSE]
  /\ isAlive' = [isAlive EXCEPT ![c] = "true"]
  /\ UNCHANGED <<state, own, clients, ready, queue, peerVars, since, events>>

--------------------------------------------------------------------------------
(* The peers, and the sockets that close. *)

PeerReads(c) ==
  /\ ready[c] = "open" /\ ~silent[c] /\ queue[c] # <<>>
  /\ queue' = [queue EXCEPT ![c] = Tail(@)]
  /\ IF Head(queue[c]) = Ping
       THEN pong' = [pong EXCEPT ![c] = TRUE] /\ UNCHANGED got
       ELSE got' = [got EXCEPT ![c] = Append(@, Head(queue[c]))] /\ UNCHANGED pong
  /\ UNCHANGED <<state, own, clients, ready, isAlive, silent, left, since, events>>

PeerFallsSilent(c) ==
  /\ ready[c] = "open" /\ ~silent[c]
  /\ silent' = [silent EXCEPT ![c] = TRUE]
  /\ UNCHANGED <<state, own, clients, ready, isAlive, queue, pong, left, got, since, events>>

\* A close frame or the end of the connection; the close event comes later.
PeerLeaves(c) ==
  /\ ready[c] = "open" /\ ~silent[c]
  /\ ready' = [ready EXCEPT ![c] = "closing"]
  /\ left' = [left EXCEPT ![c] = TRUE]
  /\ UNCHANGED <<state, own, clients, isAlive, queue, pong, silent, got, since, events>>

\* socket.on("close"): after terminate(), the peer's end, or ws's own close timer.
Forget_KeptFault(c) == clients' = clients
Forget(c) == clients' = clients \ {c}

SocketClosed(c) ==
  /\ ready[c] = "closing"
  /\ ready' = [ready EXCEPT ![c] = "closed"]
  /\ queue' = [queue EXCEPT ![c] = <<>>]
  /\ pong' = [pong EXCEPT ![c] = FALSE]
  /\ Forget(c)
  /\ UNCHANGED <<state, own, isAlive, peerVars, since, events>>

--------------------------------------------------------------------------------
(* The stop function: no more heartbeats, announcements and connections. *)

Terminated == {c \in clients : ready[c] = "open"}

Stop ==
  /\ state = "running" /\ state' = "closing"
  /\ ready' = [c \in Client |-> IF c \in Terminated THEN "closing" ELSE ready[c]]
  /\ UNCHANGED <<own, clients, isAlive, queue, pong, peerVars, since, events>>

WssClosed ==
  /\ state = "closing" /\ Tracked = {}
  /\ state' = IF own THEN "ownClosing" ELSE "stopped"
  /\ UNCHANGED <<own, clients, ready, isAlive, queue, pong, peerVars, since, events>>

OwnServerClosed ==
  /\ state = "ownClosing" /\ state' = "stopped"
  /\ UNCHANGED <<own, clients, ready, isAlive, queue, pong, peerVars, since, events>>

Next ==
  \/ Start \/ Listen \/ Heartbeat \/ Stop \/ WssClosed \/ OwnServerClosed
  \/ \E e \in {"block", "tx"} : Announce(e)
  \/ \E c \in Client :
       \/ Connect(c) \/ PongArrives(c) \/ PeerReads(c)
       \/ PeerFallsSilent(c) \/ PeerLeaves(c) \/ SocketClosed(c)

Spec == Init /\ [][Next]_vars

\* The interval timer fires, peers that read do so, and sockets being closed close.
Fairness ==
  /\ WF_vars(Heartbeat) /\ WF_vars(WssClosed) /\ WF_vars(OwnServerClosed)
  /\ \A c \in Client : WF_vars(PeerReads(c)) /\ WF_vars(PongArrives(c)) /\ WF_vars(SocketClosed(c))

FairSpec == Spec /\ Fairness

--------------------------------------------------------------------------------
(* Properties. *)

TypeOK ==
  /\ state \in {"off", "listening", "running", "closing", "ownClosing", "stopped", "failed"}
  /\ own \in BOOLEAN
  /\ clients \subseteq Client
  /\ ready \in [Client -> {"none", "open", "closing", "closed"}]
  /\ isAlive \in [Client -> {"true", "false"}] /\ pong \in [Client -> BOOLEAN]
  /\ silent \in [Client -> BOOLEAN] /\ left \in [Client -> BOOLEAN]
  /\ since \in [Client -> 0..MaxEvents]

\* The gateway's set and ws's agree: an open socket is in it, a closed one is not,
\* in whatever order the close event, the heartbeat and a stop come
\* (websocketGateway.js:99, 109, 139, 144).
KnownIsConnected ==
  WithState("open") \subseteq clients /\ clients \subseteq WithState("open") \cup WithState("closing")

\* The messages of the announcements made since c connected.
SentTo(c) == UNION {ToSet(MessagesOf(events[n], n)) : n \in (since[c] + 1)..Len(events)}

\* The order of two messages: of their announcements, then within the announcement.
Before(m, k) ==
  \/ m.event < k.event
  \/ m.event = k.event /\ LET ms == MessagesOf(events[m.event], m.event) IN
       \E i, j \in DOMAIN ms : i < j /\ ms[i] = m /\ ms[j] = k

\* What has reached a peer or waits for it, and where in it the messages are.
Stream(c) == got[c] \o queue[c]
Messages(s) == {i \in DOMAIN s : s[i] # Ping}

InOrder(s) == \A i, j \in Messages(s) : i < j => Before(s[i], s[j])
Carries(s) == {s[i] : i \in Messages(s)}

\* A socket that stays open is sent every announcement made since it connected, once
\* and in order, also while a ping of it is unanswered; what another one lacks comes
\* after all that it was sent (websocketGateway.js:64-83).
NoMessageMissed ==
  \A c \in Client : ready[c] # "none" =>
    /\ InOrder(Stream(c))
    /\ Carries(Stream(c)) \subseteq SentTo(c)
    /\ \A m \in SentTo(c) \ Carries(Stream(c)) :
         ready[c] # "open" /\ \A k \in Carries(Stream(c)) : Before(k, m)

\* While the gateway runs, only the sockets of silent peers are terminated
\* (websocketGateway.js:121-125, 142-154).
ResponsiveKept ==
  \A c \in Client : ready[c] \in {"closing", "closed"} =>
    left[c] \/ silent[c] \/ state \in {"closing", "ownClosing", "stopped"}

\* Once the stop has returned no socket is left, even one that was closing and that
\* the heartbeat had taken from the gateway's set (websocketGateway.js:138-141, 177-196).
StoppedIsEmpty == state = "stopped" =>
  WithState("open") = {} /\ WithState("closing") = {} /\ clients = {}

\* Whoever is connected is known, and only they are, also across a stop
\* (websocketGateway.js:98-111, 136-154, 177-196).
GatewayInvariant ==
  /\ TypeOK
  /\ KnownIsConnected
  /\ StoppedIsEmpty

\* A peer that is gone without closing does not stay, and a stop ends whatever the peers
\* do (websocketGateway.js:142-154, 182-196).
SilentClientLeaves ==
  /\ \A c \in Client : silent[c] /\ c \in clients ~> c \notin clients
  /\ state = "closing" ~> state = "stopped"

\* Claimed by docs/design/websocket-updates.md:39, "Ensure broadcast queue is bounded;
\* drop or throttle if clients fall behind".
QueueBounded == \A c \in Client : Len(queue[c]) <= QueueLimit
================================================================================

---------------------------- MODULE ServerLifecycle ----------------------------
(***************************************************************************)
(* The explorer process from the end of startServer (src/server.js) to its *)
(* shutdown: the HTTP server and its requests, the WebSocket gateway on    *)
(* the HTTP server or on a port of its own, the ZMQ listener, and the      *)
(* address indexer, whose first users start it and which has signal        *)
(* handlers of its own.  What these parts do while they run is modelled    *)
(* elsewhere; here a part is up or not, and the order in which the parts   *)
(* start and stop is what matters.                                         *)
(*                                                                         *)
(* Definitions ending in _Fault are plausible mistakes in the definition   *)
(* that follows them.                                                      *)
(***************************************************************************)
EXTENDS Integers, FiniteSets

CONSTANTS
  GatewayModes,  \* of "off", "shared" (on the HTTP server) and "own" (its own port)
  BindFails,     \* whether the HTTP port may be taken
  ByName,        \* whether APP_BIND is a host name, so that listening takes a lookup
  MaxRequests,   \* bound: requests made to the address explorer
  MaxSockets     \* bound: WebSocket connections made on the HTTP server

ASSUME ModesAssumption == GatewayModes \subseteq {"off", "shared", "own"}
ASSUME BindAssumption == BindFails \in BOOLEAN /\ ByName \in BOOLEAN
ASSUME BoundsAssumption == MaxRequests \in Nat /\ MaxSockets \in Nat

VARIABLES
  mode,       \* where the gateway is, if there is one
  address,    \* config.address.enabled
  http,       \* "binding", "open", "failed", "closing", "closed"
  requests,   \* requests being served
  arrived,    \* requests made
  sockets,    \* upgraded connections on the HTTP server
  upgraded,   \* upgrades made
  gateway,    \* "off", "binding", "up", "stopped"
  zmq,        \* "off", "up", "stopped"
  pc,         \* shutdown: "none", or what it is waiting for
  signals,    \* signals received
  singleton,  \* singletonIndexer is set
  created,    \* AddressIndexers made
  db,         \* the last one's database: "none", "opening", "open", "closed", "failed"
  stopping,   \* the last one's flag
  handler,    \* its signal handler: "none", "draining", "closing", "done"
  closings,   \* how often closeInternal has been called
  before      \* history: what was up when the shutdown began

indexerVars == <<singleton, created, db, stopping, handler, closings>>
httpVars == <<http, requests, arrived, sockets, upgraded>>
vars == <<mode, address, httpVars, gateway, zmq, pc, signals, indexerVars, before>>

\* The synchronous part of startServer is over: createApp has made the indexer
\* (primeAddressIndexer), and the listener and a shared gateway need no more than
\* microtasks.
Init ==
  /\ mode \in GatewayModes /\ address \in BOOLEAN
  /\ http = "binding" /\ requests = 0 /\ arrived = 0 /\ sockets = 0 /\ upgraded = 0
  /\ gateway = CASE mode = "off" -> "off" [] mode = "shared" -> "up" [] mode = "own" -> "binding"
  /\ zmq \in {"off", "up"}
  /\ pc = "none" /\ signals = {} /\ before = {}
  /\ singleton = address /\ created = IF address THEN 1 ELSE 0
  /\ db = IF address THEN "opening" ELSE "none"
  /\ stopping = FALSE /\ handler = "none" /\ closings = 0

--------------------------------------------------------------------------------
(* Start-up and service. *)

\* Express hands an error of listen to the same callback: it is not looked at.
HttpBinds ==
  /\ http = "binding"
  /\ http' \in IF BindFails THEN {"open", "failed"} ELSE {"open"}
  /\ UNCHANGED <<mode, address, requests, arrived, sockets, upgraded, gateway, zmq, pc,
                 signals, indexerVars, before>>

GatewayBinds ==
  /\ gateway = "binding" /\ gateway' \in {"up", "off"}
  /\ UNCHANGED <<mode, address, httpVars, zmq, pc, signals, indexerVars, before>>

\* start() up to the registration of its signal handlers, or a database that does
\* not open: the singleton stays.
IndexerOpens ==
  /\ db = "opening" /\ db' \in {"open", "failed"}
  /\ UNCHANGED <<mode, address, httpVars, gateway, zmq, pc, signals, singleton, created,
                 stopping, handler, closings, before>>

\* ensureIndexerStarted and startAddressIndexer.
EnsureIndexer_SetWhenStartedFault ==
  IF singleton /\ db # "opening"
    THEN UNCHANGED indexerVars
    ELSE singleton' = TRUE /\ created' = created + 1 /\ UNCHANGED <<db, stopping, handler, closings>>
EnsureIndexer ==
  IF singleton
    THEN UNCHANGED indexerVars
    ELSE /\ singleton' = TRUE /\ created' = created + 1
         /\ db' = "opening" /\ stopping' = FALSE /\ handler' = "none"
         /\ UNCHANGED closings

\* A connection that has a request in progress may bring another one while the
\* server closes.
RequestBegins ==
  /\ address /\ arrived < MaxRequests
  /\ http = "open" \/ (http = "closing" /\ requests > 0)
  /\ arrived' = arrived + 1 /\ requests' = requests + 1
  /\ EnsureIndexer
  /\ UNCHANGED <<mode, address, http, sockets, upgraded, gateway, zmq, pc, signals, before>>

RequestEnds ==
  /\ requests > 0 /\ requests' = requests - 1
  /\ UNCHANGED <<mode, address, http, arrived, sockets, upgraded, gateway, zmq, pc, signals,
                 indexerVars, before>>

Upgrade ==
  /\ http = "open" /\ mode = "shared" /\ gateway = "up" /\ upgraded < MaxSockets
  /\ upgraded' = upgraded + 1 /\ sockets' = sockets + 1
  /\ UNCHANGED <<mode, address, http, requests, arrived, gateway, zmq, pc, signals,
                 indexerVars, before>>

PeerLeaves ==
  /\ sockets > 0 /\ sockets' = sockets - 1
  /\ UNCHANGED <<mode, address, http, requests, arrived, upgraded, gateway, zmq, pc, signals,
                 indexerVars, before>>

--------------------------------------------------------------------------------
(* shutdown, and the signal handler of the indexer. *)

Up ==
  {part \in {"http", "gateway", "zmq", "indexer"} :
     CASE part = "http"    -> http \in {"open", "closing"}
       [] part = "gateway" -> gateway = "up"
       [] part = "zmq"     -> zmq = "up"
       [] part = "indexer" -> db = "open"}

\* server.close of a server that does not listen (yet) fails, and the error ends
\* the shutdown.
BeginShutdown ==
  /\ before' = Up
  /\ IF http = "open"
       THEN http' = "closing" /\ pc' = "http"
       ELSE http' = (IF http = "binding" THEN "closed" ELSE http) /\ pc' = "error"

\* The handler that start() registers. A signal comes before the server listens only
\* while a host name is looked up.
HandlerDoesNotRun == db # "open" \/ stopping

HandlerBegins == handler' = "draining" /\ stopping' = TRUE

Signal(s) ==
  /\ http = "binding" => ByName
  /\ s \notin signals /\ signals' = signals \cup {s}
  /\ IF pc = "none" THEN BeginShutdown ELSE UNCHANGED <<http, pc, before>>
  /\ IF HandlerDoesNotRun
       THEN UNCHANGED <<stopping, handler>>
       ELSE HandlerBegins
  /\ UNCHANGED <<mode, address, requests, arrived, sockets, upgraded, gateway, zmq,
                 singleton, created, db, closings>>

\* A drain ends when no block is in progress, or after ten seconds.
HandlerDrained ==
  /\ handler = "draining" /\ handler' = "closing" /\ closings' = closings + 1
  /\ UNCHANGED <<mode, address, httpVars, gateway, zmq, pc, signals, singleton, created, db,
                 stopping, before>>

HandlerClosed ==
  /\ handler = "closing" /\ handler' = "done" /\ db' = "closed"
  /\ UNCHANGED <<mode, address, httpVars, gateway, zmq, pc, signals, singleton, created,
                 stopping, closings, before>>

\* The close callback: no connection is left. Idle ones were closed by the close.
Drained_GatewayFirstFault == requests = 0 /\ sockets = 0 /\ gateway # "up"
Drained == requests = 0 /\ sockets = 0

HttpClosed ==
  /\ pc = "http" /\ Drained
  /\ http' = "closed" /\ pc' = "gateway"
  /\ UNCHANGED <<mode, address, requests, arrived, sockets, upgraded, gateway, zmq, signals,
                 indexerVars, before>>

StopGateway ==
  /\ pc = "gateway" /\ pc' = "zmq"
  /\ gateway' = IF gateway = "up" THEN "stopped" ELSE gateway
  /\ UNCHANGED <<mode, address, httpVars, zmq, signals, indexerVars, before>>

ZmqAfterStop_ForgottenFault == zmq
ZmqAfterStop == IF zmq = "up" THEN "stopped" ELSE zmq

StopListener ==
  /\ pc = "zmq" /\ pc' = IF address THEN "indexer" ELSE "complete"
  /\ zmq' = ZmqAfterStop
  /\ UNCHANGED <<mode, address, httpVars, gateway, signals, indexerVars, before>>

\* stopAddressIndexer: shutdown() leaves the closing to a handler that has begun.
StopIndexer ==
  /\ pc = "indexer"
  /\ IF stopping
       THEN pc' = "drain" /\ UNCHANGED stopping
       ELSE pc' = "drainAndClose" /\ stopping' = TRUE
  /\ UNCHANGED <<mode, address, httpVars, gateway, zmq, signals, singleton, created, db,
                 handler, closings, before>>

DrainedOnly ==
  /\ pc = "drain" /\ pc' = "complete" /\ singleton' = FALSE
  /\ UNCHANGED <<mode, address, httpVars, gateway, zmq, signals, created, db, stopping,
                 handler, closings, before>>

DrainedToClose ==
  /\ pc = "drainAndClose" /\ pc' = "close" /\ closings' = closings + 1
  /\ UNCHANGED <<mode, address, httpVars, gateway, zmq, signals, singleton, created, db,
                 stopping, handler, before>>

\* Closing a database that is still opening makes start() fail.
IndexerClosed ==
  /\ pc = "close" /\ pc' = "complete" /\ singleton' = FALSE
  /\ db' = IF db \in {"opening", "open"} THEN "closed" ELSE db
  /\ UNCHANGED <<mode, address, httpVars, gateway, zmq, signals, created, stopping, handler,
                 closings, before>>

Shutdown ==
  \/ HttpClosed \/ StopGateway \/ StopListener \/ StopIndexer
  \/ DrainedOnly \/ DrainedToClose \/ IndexerClosed

Handler == HandlerDrained \/ HandlerClosed

Next ==
  \/ HttpBinds \/ GatewayBinds \/ IndexerOpens
  \/ RequestBegins \/ RequestEnds \/ Upgrade \/ PeerLeaves
  \/ \E s \in {"SIGINT", "SIGTERM"} : Signal(s)
  \/ Shutdown \/ Handler

Spec == Init /\ [][Next]_vars

\* The event loop runs what is ready, and a request is answered; a WebSocket peer
\* may stay as long as it likes.
Fairness ==
  /\ WF_vars(HttpBinds) /\ WF_vars(GatewayBinds) /\ WF_vars(IndexerOpens)
  /\ WF_vars(RequestEnds) /\ WF_vars(Shutdown) /\ WF_vars(Handler)

FairSpec == Spec /\ Fairness

--------------------------------------------------------------------------------
(* Properties. *)

TypeOK ==
  /\ mode \in GatewayModes /\ address \in BOOLEAN
  /\ http \in {"binding", "open", "failed", "closing", "closed"}
  /\ requests \in 0..MaxRequests /\ arrived \in 0..MaxRequests
  /\ sockets \in 0..MaxSockets /\ upgraded \in 0..MaxSockets
  /\ gateway \in {"off", "binding", "up", "stopped"} /\ zmq \in {"off", "up", "stopped"}
  /\ pc \in {"none", "http", "gateway", "zmq", "indexer", "drain", "drainAndClose", "close",
             "complete", "error"}
  /\ singleton \in BOOLEAN /\ stopping \in BOOLEAN
  /\ created \in Nat /\ closings \in Nat
  /\ db \in {"none", "opening", "open", "closed", "failed"}
  /\ handler \in {"none", "draining", "closing", "done"} /\ (handler # "none" => stopping)

\* However requests and the shutdown interleave, a process makes one indexer and opens
\* the database once: no late request finds the singleton gone and starts another
\* (server.js:288-299, addressExplorerService.js:12, addressIndexer.js:1402, 1420).
OneIndexer == created <= 1

\* The indexer's signal handler and stopAddressIndexer never both close the database,
\* with one signal or with two (addressIndexer.js:627, 1314-1317).
ClosedOnce == closings <= 1

\* The process has one indexer at most and closes it at most once.
ServerInvariant ==
  /\ TypeOK
  /\ OneIndexer
  /\ ClosedOnce

\* What was up when the shutdown began is down, or being closed, when it reports that it
\* is complete, and nothing is being served (server.js:288-300).
WhatRanIsStopped ==
  pc = "complete" =>
    /\ requests = 0 /\ sockets = 0
    /\ Up \cap before \subseteq {"indexer"}
    /\ "indexer" \in Up \cap before => handler # "none"

\* A shutdown that has begun to close a server that listened is completed, unless a
\* WebSocket is open on it, whatever the requests, the other signal and the indexer's
\* own handler do meanwhile (server.js:281-307, addressIndexer.js:625-650).
ShutdownEnds == pc = "http" /\ sockets = 0 ~> pc = "complete"

\* Claimed by docs/design/websocket-updates.md:63, "ensure shutdown closes sockets": a
\* shutdown ends with no WebSocket left.
SocketsAreClosed == pc # "none" ~> sockets = 0

\* Claimed by docs/design/near-term-phase1.md:34, "Graceful shutdown: close sockets on
\* SIGINT/SIGTERM", of the ZMQ listener.
ListenerIsClosed == signals # {} ~> zmq # "up"

\* Claimed by docs/RUNBOOK.md:109, "send SIGINT/SIGTERM, wait for
\* server.shutdown.complete": by then the indexer has closed its database.
CompleteMeansClosed == pc = "complete" => db # "open"
================================================================================

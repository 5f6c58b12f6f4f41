------------------------------ MODULE ServerProofs ------------------------------
(***************************************************************************)
(* Proofs about ServerLifecycle: for every choice of the gateway's place,  *)
(* of binding, and for any number of requests and connections, a process   *)
(* makes one indexer, closes it once, and a shutdown that reports that it  *)
(* is complete has stopped what was up when it began.                      *)
(***************************************************************************)
EXTENDS ServerLifecycle, TLAPS

Types ==
  /\ TypeOK
  /\ signals \subseteq {"SIGINT", "SIGTERM"}
  /\ before \subseteq {"http", "gateway", "zmq", "indexer"}

\* The steps of the shutdown that follow each of its awaits.
AfterHttp == {"gateway", "zmq", "indexer", "drain", "drainAndClose", "close", "complete"}
AfterGateway == AfterHttp \ {"gateway"}
AfterListener == AfterGateway \ {"zmq"}
AfterIndexer == AfterListener \ {"indexer"}

\* The server closes with the shutdown, and what is closed serves nobody.
HttpFollows ==
  /\ pc = "none" => http \in {"binding", "open", "failed"}
  /\ pc = "http" => http = "closing"
  /\ pc \in AfterHttp => http = "closed"
  /\ http \in {"binding", "failed", "closed"} => requests = 0 /\ sockets = 0
  /\ requests <= arrived /\ sockets <= upgraded

\* There is an indexer exactly when the address explorer is on, and its singleton stays
\* until the shutdown is over: no request is served by then.
IndexerFollows ==
  /\ created = IF address THEN 1 ELSE 0
  /\ address /\ pc # "complete" => singleton
  /\ ~address => db = "none" /\ ~stopping
  /\ pc \in AfterListener \ {"complete"} => address

\* Whoever sets stopping first closes the database: the signal handler, or the shutdown.
CloserFollows ==
  /\ stopping => handler # "none" \/ pc \in {"drainAndClose", "close", "complete"}
  /\ pc \in {"drainAndClose", "close"} => stopping /\ handler = "none"
  /\ pc = "drain" => stopping
  /\ closings = 0 \/ (closings = 1 /\ stopping)
  /\ handler = "draining" \/ pc = "drainAndClose" => closings = 0

\* What was up when the shutdown began is stopped in its turn.
PartsFollow ==
  /\ pc = "none" => before = {}
  /\ "gateway" \in before =>
       IF pc \in AfterGateway THEN gateway = "stopped" ELSE gateway \in {"up", "stopped"}
  /\ pc \in AfterListener => zmq # "up"
  /\ "indexer" \in before => handler # "none"

IInv == Types /\ HttpFollows /\ IndexerFollows /\ CloserFollows /\ PartsFollow

LEMMA InitIInv == Init => IInv
<1> SUFFICES ASSUME Init PROVE IInv
  OBVIOUS
<1> USE BoundsAssumption, ModesAssumption DEF Init
<1>0. gateway \in {"off", "binding", "up"}
  <2>1. CASE mode = "off"      BY <2>1
  <2>2. CASE mode = "shared"   BY <2>2
  <2>3. CASE mode = "own"      BY <2>3
  <2> QED BY <2>1, <2>2, <2>3
<1>1. Types
  <2>1. singleton \in BOOLEAN /\ stopping \in BOOLEAN /\ address \in BOOLEAN
    OBVIOUS
  <2>2. created \in Nat /\ db \in {"none", "opening"}
    OBVIOUS
  <2>3. 0 \in 0..MaxRequests /\ 0 \in 0..MaxSockets
    OBVIOUS
  <2>4. zmq \in {"off", "up", "stopped"} /\ mode \in GatewayModes
    OBVIOUS
  <2>5. /\ http = "binding" /\ pc = "none" /\ handler = "none" /\ closings = 0
        /\ requests = 0 /\ arrived = 0 /\ sockets = 0 /\ upgraded = 0
        /\ signals = {} /\ before = {}
    OBVIOUS
  <2> HIDE DEF Init
  <2> QED BY <1>0, <2>1, <2>2, <2>3, <2>4, <2>5 DEF Types, TypeOK
<1>2. HttpFollows
  BY DEF HttpFollows, AfterHttp
<1>3. IndexerFollows
  BY DEF IndexerFollows, AfterHttp, AfterGateway, AfterListener
<1>4. CloserFollows
  BY DEF CloserFollows
<1>5. PartsFollow
  BY DEF PartsFollow, AfterHttp, AfterGateway, AfterListener
<1> QED BY <1>1, <1>2, <1>3, <1>4, <1>5 DEF IInv

\* What Up says of each part.
LEMMA UpParts ==
  /\ Up \subseteq {"http", "gateway", "zmq", "indexer"}
  /\ "http" \in Up <=> http \in {"open", "closing"}
  /\ "gateway" \in Up <=> gateway = "up"
  /\ "zmq" \in Up <=> zmq = "up"
  /\ "indexer" \in Up <=> db = "open"
BY DEF Up

(* One lemma for each group of actions: a conjunct at a time. *)

LEMMA HttpBindsKeeps ==
  ASSUME IInv, HttpBinds
  PROVE  IInv'
<1> USE BoundsAssumption DEF IInv, HttpBinds, indexerVars, httpVars
<1>1. Types'
  BY DEF Types, TypeOK
<1>2. HttpFollows'
  BY DEF HttpFollows
<1>3. IndexerFollows'
  BY DEF IndexerFollows
<1>4. CloserFollows'
  BY DEF CloserFollows
<1>5. PartsFollow'
  BY DEF PartsFollow
<1> QED BY <1>1, <1>2, <1>3, <1>4, <1>5

LEMMA GatewayBindsKeeps ==
  ASSUME IInv, GatewayBinds
  PROVE  IInv'
<1> USE BoundsAssumption DEF IInv, GatewayBinds, indexerVars, httpVars
<1>1. Types'
  BY DEF Types, TypeOK
<1>2. HttpFollows'
  BY DEF HttpFollows
<1>3. IndexerFollows'
  BY DEF IndexerFollows
<1>4. CloserFollows'
  BY DEF CloserFollows
<1>5. PartsFollow'
  BY DEF PartsFollow
<1> QED BY <1>1, <1>2, <1>3, <1>4, <1>5

LEMMA IndexerOpensKeeps ==
  ASSUME IInv, IndexerOpens
  PROVE  IInv'
<1> USE BoundsAssumption DEF IInv, IndexerOpens, indexerVars, httpVars
<1>1. Types'
  BY DEF Types, TypeOK
<1>2. HttpFollows'
  BY DEF HttpFollows
<1>3. IndexerFollows'
  BY DEF IndexerFollows
<1>4. CloserFollows'
  BY DEF CloserFollows
<1>5. PartsFollow'
  BY DEF PartsFollow
<1> QED BY <1>1, <1>2, <1>3, <1>4, <1>5

LEMMA RequestBeginsKeeps ==
  ASSUME IInv, RequestBegins
  PROVE  IInv'
<1> USE BoundsAssumption DEF IInv, RequestBegins, EnsureIndexer, indexerVars, httpVars
<1>1. Types'
  BY DEF Types, TypeOK, IndexerFollows, HttpFollows, AfterHttp
<1>2. HttpFollows'
  BY DEF Types, TypeOK, HttpFollows
<1>3. IndexerFollows'
  BY DEF HttpFollows, IndexerFollows, AfterHttp
<1>4. CloserFollows'
  BY DEF HttpFollows, IndexerFollows, CloserFollows, AfterHttp
<1>5. PartsFollow'
  BY DEF HttpFollows, IndexerFollows, PartsFollow, AfterHttp
<1> QED BY <1>1, <1>2, <1>3, <1>4, <1>5

LEMMA RequestEndsKeeps ==
  ASSUME IInv, RequestEnds
  PROVE  IInv'
<1> USE BoundsAssumption DEF IInv, RequestEnds, indexerVars, httpVars
<1>1. Types'
  BY DEF Types, TypeOK
<1>2. HttpFollows'
  BY DEF Types, TypeOK, HttpFollows
<1>3. IndexerFollows'
  BY DEF IndexerFollows
<1>4. CloserFollows'
  BY DEF CloserFollows
<1>5. PartsFollow'
  BY DEF PartsFollow
<1> QED BY <1>1, <1>2, <1>3, <1>4, <1>5

LEMMA UpgradeKeeps ==
  ASSUME IInv, Upgrade
  PROVE  IInv'
<1> USE BoundsAssumption DEF IInv, Upgrade, indexerVars, httpVars
<1>1. Types'
  BY DEF Types, TypeOK, HttpFollows
<1>2. HttpFollows'
  BY DEF Types, TypeOK, HttpFollows
<1>3. IndexerFollows'
  BY DEF IndexerFollows
<1>4. CloserFollows'
  BY DEF CloserFollows
<1>5. PartsFollow'
  BY DEF PartsFollow
<1> QED BY <1>1, <1>2, <1>3, <1>4, <1>5

LEMMA PeerLeavesKeeps ==
  ASSUME IInv, PeerLeaves
  PROVE  IInv'
<1> USE BoundsAssumption DEF IInv, PeerLeaves, indexerVars, httpVars
<1>1. Types'
  BY DEF Types, TypeOK
<1>2. HttpFollows'
  BY DEF Types, TypeOK, HttpFollows
<1>3. IndexerFollows'
  BY DEF IndexerFollows
<1>4. CloserFollows'
  BY DEF CloserFollows
<1>5. PartsFollow'
  BY DEF PartsFollow
<1> QED BY <1>1, <1>2, <1>3, <1>4, <1>5

LEMMA HttpClosedKeeps ==
  ASSUME IInv, HttpClosed
  PROVE  IInv'
<1> USE BoundsAssumption DEF IInv, HttpClosed, Drained, indexerVars, httpVars
<1>1. Types'
  BY DEF Types, TypeOK
<1>2. HttpFollows'
  BY DEF HttpFollows
<1>3. IndexerFollows'
  BY DEF IndexerFollows, AfterGateway, AfterListener
<1>4. CloserFollows'
  BY DEF CloserFollows
<1>5. PartsFollow'
  BY DEF PartsFollow, AfterGateway, AfterListener
<1> QED BY <1>1, <1>2, <1>3, <1>4, <1>5

LEMMA StopGatewayKeeps ==
  ASSUME IInv, StopGateway
  PROVE  IInv'
<1> USE BoundsAssumption DEF IInv, StopGateway, indexerVars, httpVars
<1>1. Types'
  BY DEF Types, TypeOK
<1>2. HttpFollows'
  BY DEF HttpFollows, AfterHttp
<1>3. IndexerFollows'
  BY DEF IndexerFollows, AfterListener
<1>4. CloserFollows'
  BY DEF CloserFollows
<1>5. PartsFollow'
  BY DEF PartsFollow, AfterListener
<1> QED BY <1>1, <1>2, <1>3, <1>4, <1>5

LEMMA StopListenerKeeps ==
  ASSUME IInv, StopListener
  PROVE  IInv'
<1> USE BoundsAssumption DEF IInv, StopListener, ZmqAfterStop, indexerVars, httpVars
<1>1. Types'
  BY DEF Types, TypeOK
<1>2. HttpFollows'
  BY DEF HttpFollows, AfterHttp
<1>3. IndexerFollows'
  BY DEF IndexerFollows
<1>4. CloserFollows'
  BY DEF CloserFollows
<1>5. PartsFollow'
  BY DEF PartsFollow, AfterHttp, AfterGateway
<1> QED BY <1>1, <1>2, <1>3, <1>4, <1>5

LEMMA StopIndexerKeeps ==
  ASSUME IInv, StopIndexer
  PROVE  IInv'
<1> USE BoundsAssumption DEF IInv, StopIndexer, indexerVars, httpVars
<1>1. Types'
  BY DEF Types, TypeOK, CloserFollows, HttpFollows, AfterHttp, AfterGateway, AfterListener
<1>2. HttpFollows'
  BY DEF HttpFollows, AfterHttp
<1>3. IndexerFollows'
  BY DEF IndexerFollows, AfterHttp, AfterGateway, AfterListener
<1>4. CloserFollows'
  BY DEF Types, TypeOK, CloserFollows
<1>5. PartsFollow'
  BY DEF PartsFollow, AfterHttp, AfterGateway, AfterListener
<1> QED BY <1>1, <1>2, <1>3, <1>4, <1>5

LEMMA DrainedOnlyKeeps ==
  ASSUME IInv, DrainedOnly
  PROVE  IInv'
<1> USE BoundsAssumption DEF IInv, DrainedOnly, indexerVars, httpVars
<1>1. Types'
  BY DEF Types, TypeOK, HttpFollows, AfterHttp
<1>2. HttpFollows'
  BY DEF HttpFollows, AfterHttp
<1>3. IndexerFollows'
  BY DEF IndexerFollows
<1>4. CloserFollows'
  BY DEF CloserFollows
<1>5. PartsFollow'
  BY DEF PartsFollow, AfterHttp, AfterGateway, AfterListener
<1> QED BY <1>1, <1>2, <1>3, <1>4, <1>5

LEMMA DrainedToCloseKeeps ==
  ASSUME IInv, DrainedToClose
  PROVE  IInv'
<1> USE BoundsAssumption DEF IInv, DrainedToClose, indexerVars, httpVars
<1>1. Types'
  BY DEF Types, TypeOK
<1>2. HttpFollows'
  BY DEF HttpFollows, AfterHttp
<1>3. IndexerFollows'
  BY DEF IndexerFollows, CloserFollows
<1>4. CloserFollows'
  BY DEF CloserFollows
<1>5. PartsFollow'
  BY DEF PartsFollow, AfterHttp, AfterGateway, AfterListener
<1> QED BY <1>1, <1>2, <1>3, <1>4, <1>5

LEMMA IndexerClosedKeeps ==
  ASSUME IInv, IndexerClosed
  PROVE  IInv'
<1> USE BoundsAssumption DEF IInv, IndexerClosed, indexerVars, httpVars
<1>1. Types'
  BY DEF Types, TypeOK
<1>2. HttpFollows'
  BY DEF HttpFollows, AfterHttp
<1>3. IndexerFollows'
  BY DEF IndexerFollows
<1>4. CloserFollows'
  BY DEF CloserFollows
<1>5. PartsFollow'
  BY DEF PartsFollow, AfterHttp, AfterGateway, AfterListener
<1> QED BY <1>1, <1>2, <1>3, <1>4, <1>5

LEMMA HandlerDrainedKeeps ==
  ASSUME IInv, HandlerDrained
  PROVE  IInv'
<1> USE BoundsAssumption DEF IInv, HandlerDrained, indexerVars, httpVars
<1>1. Types'
  BY DEF Types, TypeOK
<1>2. HttpFollows'
  BY DEF HttpFollows
<1>3. IndexerFollows'
  BY DEF IndexerFollows
<1>4. CloserFollows'
  BY DEF Types, TypeOK, CloserFollows
<1>5. PartsFollow'
  BY DEF PartsFollow
<1> QED BY <1>1, <1>2, <1>3, <1>4, <1>5

LEMMA HandlerClosedKeeps ==
  ASSUME IInv, HandlerClosed
  PROVE  IInv'
<1> USE BoundsAssumption DEF IInv, HandlerClosed, indexerVars, httpVars
<1>1. Types'
  BY DEF Types, TypeOK
<1>2. HttpFollows'
  BY DEF HttpFollows
<1>3. IndexerFollows'
  BY DEF Types, TypeOK, IndexerFollows
<1>4. CloserFollows'
  BY DEF CloserFollows
<1>5. PartsFollow'
  BY DEF PartsFollow
<1> QED BY <1>1, <1>2, <1>3, <1>4, <1>5

LEMMA SignalKeeps ==
  ASSUME IInv, NEW s \in {"SIGINT", "SIGTERM"}, Signal(s)
  PROVE  IInv'
<1> USE BoundsAssumption, UpParts DEF IInv, Signal, BeginShutdown, HandlerDoesNotRun, HandlerBegins, indexerVars, httpVars
<1>1. Types'
  <2>1. before' \subseteq {"http", "gateway", "zmq", "indexer"}
    BY DEF Types
  <2>2. signals' \subseteq {"SIGINT", "SIGTERM"}
    BY DEF Types
  <2>3. /\ http' \in {"binding", "open", "failed", "closing", "closed"}
        /\ pc' \in {"none", "http", "gateway", "zmq", "indexer", "drain", "drainAndClose",
                   "close", "complete", "error"}
    BY DEF Types, TypeOK
  <2>4. /\ handler' \in {"none", "draining", "closing", "done"}
        /\ stopping' \in BOOLEAN /\ (handler' # "none" => stopping')
    BY DEF Types, TypeOK
  <2> QED BY <2>1, <2>2, <2>3, <2>4 DEF Types, TypeOK
<1>2. HttpFollows'
  BY DEF HttpFollows, AfterHttp
<1>3. IndexerFollows'
  BY DEF IndexerFollows, AfterHttp, AfterGateway, AfterListener
<1>4. CloserFollows'
  BY DEF CloserFollows
<1>5. PartsFollow'
  BY DEF CloserFollows, PartsFollow, AfterHttp, AfterGateway, AfterListener
<1> QED BY <1>1, <1>2, <1>3, <1>4, <1>5

(***************************************************************************)
(* The theorems.                                                           *)
(***************************************************************************)

LEMMA StepKeepsIInv == IInv /\ [Next]_vars => IInv'
<1> SUFFICES ASSUME IInv, [Next]_vars PROVE IInv'
  OBVIOUS
<1>1. CASE HttpBinds        BY <1>1, HttpBindsKeeps
<1>2. CASE GatewayBinds     BY <1>2, GatewayBindsKeeps
<1>3. CASE IndexerOpens     BY <1>3, IndexerOpensKeeps
<1>4. CASE RequestBegins    BY <1>4, RequestBeginsKeeps
<1>5. CASE RequestEnds      BY <1>5, RequestEndsKeeps
<1>6. CASE Upgrade          BY <1>6, UpgradeKeeps
<1>7. CASE PeerLeaves       BY <1>7, PeerLeavesKeeps
<1>8. ASSUME NEW s \in {"SIGINT", "SIGTERM"}, Signal(s) PROVE IInv'
  BY <1>8, SignalKeeps
<1>9. CASE Shutdown
  BY <1>9, HttpClosedKeeps, StopGatewayKeeps, StopListenerKeeps, StopIndexerKeeps,
     DrainedOnlyKeeps, DrainedToCloseKeeps, IndexerClosedKeeps DEF Shutdown
<1>10. CASE Handler
  BY <1>10, HandlerDrainedKeeps, HandlerClosedKeeps DEF Handler
<1>11. CASE UNCHANGED vars
  BY <1>11 DEF vars, httpVars, indexerVars, IInv, Types, TypeOK, HttpFollows, IndexerFollows,
     CloserFollows, PartsFollow
<1> QED
  BY <1>1, <1>2, <1>3, <1>4, <1>5, <1>6, <1>7, <1>8, <1>9, <1>10, <1>11 DEF Next

\* The inductive invariant holds in every reachable state.
THEOREM Invariance == Spec => []IInv
BY InitIInv, StepKeepsIInv, PTL DEF Spec

\* However requests, signals and the shutdown interleave, one indexer is made and its
\* database is closed once (server.js:288-299, addressIndexer.js:627, 1314, 1402).
THEOREM OneIndexerClosedOnce == Spec => []ServerInvariant
<1>1. IInv => ServerInvariant
  <2> SUFFICES ASSUME IInv PROVE ServerInvariant
    OBVIOUS
  <2>1. created <= 1
    BY DEF IInv, IndexerFollows
  <2>2. closings <= 1
    BY DEF IInv, CloserFollows
  <2> QED BY <2>1, <2>2 DEF IInv, Types, ServerInvariant, OneIndexer, ClosedOnce
<1> QED BY <1>1, Invariance, PTL

\* A shutdown that is complete has stopped what was up when it began: the listener, the
\* gateway and the server are down, and somebody has begun to close the index
\* (server.js:288-300).
THEOREM ShutdownStopsWhatRan == Spec => []WhatRanIsStopped
<1>1. IInv => WhatRanIsStopped
  <2> SUFFICES ASSUME IInv, pc = "complete" PROVE WhatRanIsStopped
    BY DEF WhatRanIsStopped
  <2>1. http = "closed" /\ requests = 0 /\ sockets = 0
    BY DEF IInv, HttpFollows, AfterHttp
  <2>2. "gateway" \in before => gateway # "up"
    BY DEF IInv, PartsFollow, AfterGateway, AfterHttp
  <2>3. zmq # "up" /\ ("indexer" \in before => handler # "none")
    BY DEF IInv, PartsFollow, AfterListener, AfterGateway, AfterHttp
  <2> QED BY <2>1, <2>2, <2>3, UpParts DEF WhatRanIsStopped
<1> QED BY <1>1, Invariance, PTL
================================================================================

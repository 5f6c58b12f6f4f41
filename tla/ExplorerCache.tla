----------------------------- MODULE ExplorerCache -----------------------------
(***************************************************************************)
(* The explorer's caches (src/cache.js) between its services               *)
(* (services/bitcoinService.js, services/mempoolService.js), Bitcoin Core  *)
(* and the ZMQ listener (infra/zmqListener.js), which invalidates them     *)
(* through the event bus (infra/cacheEvents.js).                           *)
(*                                                                         *)
(* A fetch that misses calls a loader; the loader awaits one or several    *)
(* calls to the node, each answered with what the node knows at that       *)
(* moment, and stores what it got.  Nothing ties a loader to the           *)
(* invalidations that happen while it waits.  An announcement reaches the  *)
(* listener over one socket per topic: it may be delayed or lost, and the  *)
(* two topics are not ordered with each other.                             *)
(*                                                                         *)
(* Time passes in ticks; every timer counts its own, so no clock grows.    *)
(* Definitions ending in _Fault are plausible mistakes in the definition   *)
(* that follows them.                                                      *)
(***************************************************************************)
EXTENDS Naturals, FiniteSets, SequencesExt

CONSTANTS
  Block, Genesis, Parent,  \* the block tree: Parent \in [Block \ {Genesis} -> Block]
  Tx,                      \* transactions
  Request,                 \* HTTP requests that may be in progress together
  Page,                    \* the keys they ask for
  TTL,                     \* ticks an entry of each cache stays fresh, 0 for ever
  MaxEntries,              \* the LRU limit of one cache (512 in the code)
  Timeout,                 \* ticks an RPC call may take, the retry of a 401 included
  Window,                  \* ticks a repeated block hash is ignored (100 ms)
  MaxEvents                \* bound: how often the node's state changes

Kinds == {"tip", "mempool", "block", "tx"}
Topics == {"rawblock", "rawtx"}
Keys == {"tip", "mempool"} \cup Block \cup Tx

ASSUME TreeAssumption ==
  Genesis \in Block /\ Parent \in [Block \ {Genesis} -> Block]
ASSUME PageAssumption == Page \subseteq Keys
ASSUME KeysAssumption ==
  Block \cap Tx = {} /\ {"tip", "mempool", "none"} \cap (Block \cup Tx) = {}
ASSUME TimeAssumption ==
  TTL \in [Kinds -> Nat] /\ {Timeout, Window, MaxEvents} \subseteq Nat
ASSUME SizeAssumption == MaxEntries \in Nat \ {0}

VARIABLES
  tip, known,     \* the node's best block, and every block it has
  pool, mined,    \* transactions in its mempool, and confirmed
  events,         \* how often the node's state has changed
  feed,           \* per topic, the announcements on their way
  lost,           \* history: an announcement was lost or not read
  reading,        \* the topics whose reader loop is running
  lastBlock, sinceBlock,  \* lastBlockHash and the age of lastBlockTimestamp
  cache,          \* per cache, its entries, the least recently used first
  req,            \* per request, how far it is
  handled         \* history: per key, the last node event it was invalidated for

node == <<tip, known, pool, mined, events>>
listener == <<reading, lastBlock, sinceBlock>>
vars == <<node, feed, lost, listener, cache, req, handled>>

NoBlock == "none"
KindOf(k) == IF k \in Block THEN "block" ELSE IF k \in Tx THEN "tx" ELSE k
AgeLimit(kind) == TTL[kind] + 1

\* The chain that ends in a block: what is in every set with it and the parents of its own.
HasParents(S) == \A b \in S \ {Genesis} : Parent[b] \in S
Ancestors(b) == {a \in Block : \A S \in SUBSET Block : b \in S /\ HasParents(S) => a \in S}

--------------------------------------------------------------------------------
(* The node. *)

\* The calls the loader of each cache awaits together (the summary's three fee
\* estimates are left out: nothing here depends on their value).
TipCalls == {"getblockchaininfo", "getmempoolinfo"}
BlockCalls == {"getblock"}
TxCalls == {"getrawtransaction"}
MempoolCalls == {"getmempoolinfo", "getrawmempool"}
Calls(kind) == CASE kind = "tip"     -> TipCalls
                 [] kind = "mempool" -> MempoolCalls
                 [] kind = "block"   -> BlockCalls
                 [] kind = "tx"      -> TxCalls

Exists(k) == CASE k \in Block -> k \in known
               [] k \in Tx    -> k \in pool \cup mined
               [] OTHER       -> TRUE

\* What the node answers: its tip; the size or the content of its mempool; the
\* block's next block hash; whether the transaction is confirmed.
Answer(call, k) ==
  CASE call = "getblockchaininfo" -> tip
    [] call = "getmempoolinfo"    -> Cardinality(pool)
    [] call = "getrawmempool"     -> pool
    [] call = "getrawtransaction" -> IF k \in mined THEN "confirmed" ELSE "unconfirmed"
    [] call = "getblock"          ->
         IF \E c \in Ancestors(tip) \ {Genesis} : Parent[c] = k
           THEN CHOOSE c \in Ancestors(tip) \ {Genesis} : Parent[c] = k
           ELSE NoBlock

Current(k) == [c \in Calls(KindOf(k)) |-> Answer(c, k)]

Announcement(id) == [id |-> id, at |-> events + 1]

\* Announcements are sent, or dropped at the publisher's high-water mark.
Publish(topic, ids) ==
  \/ /\ feed' = [feed EXCEPT ![topic] = @ \o ids]
     /\ lost' = (lost \/ topic \notin reading)
  \/ feed' = feed /\ lost' = TRUE

\* A new best block: the next one of its chain or the tip of another branch.
NewBlock(b, confirmed) ==
  /\ events < MaxEvents
  /\ b \notin Ancestors(tip)
  /\ b # Genesis /\ Parent[b] \in known
  /\ confirmed \subseteq pool
  /\ tip' = b /\ known' = known \cup {b}
  /\ pool' = pool \ confirmed /\ mined' = mined \cup confirmed
  /\ events' = events + 1
  /\ Publish("rawblock", <<Announcement(b)>>)
  /\ UNCHANGED <<listener, cache, req, handled>>

NewTx(t) ==
  /\ events < MaxEvents
  /\ t \notin pool \cup mined
  /\ pool' = pool \cup {t} /\ events' = events + 1
  /\ Publish("rawtx", <<Announcement(t)>>)
  /\ UNCHANGED <<tip, known, mined, listener, cache, req, handled>>

--------------------------------------------------------------------------------
(* cache.js.  An entry is stale once its age exceeds the time to live; the LRU *)
(* library keeps no time for a cache whose time to live is 0.                  *)

Expires(kind) == TTL[kind] # 0
Fresh(e) == Expires(KindOf(e.key)) => e.age <= TTL[KindOf(e.key)]
Entries(k) == {i \in DOMAIN cache[KindOf(k)] : cache[KindOf(k)][i].key = k}
Has_StaleFault(k) == Entries(k) # {}
Has(k) == \E i \in Entries(k) : Fresh(cache[KindOf(k)][i])
Get(k) == cache[KindOf(k)][CHOOSE i \in Entries(k) : TRUE]

\* A cache without its entry for one of these keys: it has at most one.
Deleted(kind, ks) ==
  LET at == {i \in DOMAIN cache[kind] : cache[kind][i].key \in ks} IN
  IF at = {} THEN cache[kind] ELSE RemoveAt(cache[kind], CHOOSE i \in at : TRUE)

Others(k) == Deleted(KindOf(k), {k})

\* A hit makes its entry the most recently used; its age stays.
Touch_RenewFault(k) ==
  [cache EXCEPT ![KindOf(k)] = Append(Others(k), [Get(k) EXCEPT !.age = 0])]
Touch(k) == [cache EXCEPT ![KindOf(k)] = Append(Others(k), Get(k))]

\* store.set: replaces the key's entry; beyond the limit the oldest use goes.
Store(e) ==
  LET kept == Others(e.key)
      room == IF Len(kept) >= MaxEntries THEN Tail(kept) ELSE kept
  IN  [cache EXCEPT ![KindOf(e.key)] = Append(room, e)]

\* delete and clear, for the keys an event concerns: one of each cache at most.
Without(ks) == [kind \in Kinds |-> Deleted(kind, ks)]

--------------------------------------------------------------------------------
(* Requests.  A request remembers, for the properties, what it was told when  *)
(* it began (seen), the node event its oldest answer is from (at), the ticks  *)
(* since (old), and whether its key was invalidated while it loaded (raced).  *)

Idle == [phase |-> "idle"]
Loading(k) == [phase |-> "loading", key |-> k, seen |-> handled[k], clock |-> 0,
               got |-> <<>>, at |-> events, old |-> 0, raced |-> FALSE]
Served(k, seen, val, at, old) ==
  [phase |-> "served", key |-> k, seen |-> seen, val |-> val, at |-> at, old |-> old]

Fetch(r, k) ==
  /\ req[r].phase = "idle"
  /\ IF Has(k)
       THEN LET e == Get(k) IN
            /\ cache' = Touch(k)
            /\ req' = [req EXCEPT ![r] = Served(k, handled[k], e.val, e.at, e.old)]
       ELSE /\ req' = [req EXCEPT ![r] = Loading(k)]
            /\ UNCHANGED cache
  /\ UNCHANGED <<node, feed, lost, listener, handled>>

\* The node answers one of the calls the loader awaits.
NodeAnswers(r, call) ==
  /\ req[r].phase = "loading" /\ Exists(req[r].key)
  /\ call \in Calls(KindOf(req[r].key)) \ DOMAIN req[r].got
  /\ req' = [req EXCEPT
       ![r].got = [c \in DOMAIN @ \cup {call} |->
                     IF c = call THEN Answer(call, req[r].key) ELSE @[c]],
       ![r].at = IF req[r].got = <<>> THEN events ELSE @,
       ![r].old = IF req[r].got = <<>> THEN 0 ELSE @]
  /\ UNCHANGED <<node, feed, lost, listener, cache, handled>>

\* The loader has all its answers: fetch stores the value and returns it.
LoadDone(r) ==
  LET q == req[r] IN
  /\ q.phase = "loading"
  /\ DOMAIN q.got = Calls(KindOf(q.key))
  /\ cache' = Store([key |-> q.key, val |-> q.got, age |-> 0, at |-> q.at,
                     old |-> q.old, raced |-> q.raced])
  /\ req' = [req EXCEPT ![r] = Served(q.key, q.seen, q.got, q.at, q.old)]
  /\ UNCHANGED <<node, feed, lost, listener, handled>>

\* A call fails (an RPC error, a timeout, an unknown block or transaction): the
\* loader rejects, nothing is stored and the request ends with the error.
LoadFails(r) ==
  /\ req[r].phase = "loading"
  /\ DOMAIN req[r].got # Calls(KindOf(req[r].key))
  /\ req' = [req EXCEPT ![r] = Idle]
  /\ UNCHANGED <<node, feed, lost, listener, cache, handled>>

Respond(r) ==
  /\ req[r].phase = "served"
  /\ req' = [req EXCEPT ![r] = Idle]
  /\ UNCHANGED <<node, feed, lost, listener, cache, handled>>

--------------------------------------------------------------------------------
(* The listener and the event bus.  emit runs every subscriber before it       *)
(* returns, the services' first: they subscribe when they are imported.        *)

\* What the subscribers of bitcoinService and mempoolService invalidate.
ConcernedByBlock_TipFault(b) == {"mempool", b}
ConcernedByBlock(b) == {"tip", "mempool", b}
ConcernedByTx(t) == {"mempool", t}

\* For the history: the keys whose answers a new block changes, its parent's page (which
\* stays, see PreviousTipRemoved) left aside, and those a transaction changes.
ChangedByBlock(b) == {"tip", "mempool", b}
ChangedByTx(t) == {"mempool", t}

Invalidate(ks, changed, n) ==
  /\ cache' = Without(ks)
  /\ req' = [r \in Request |->
       IF req[r].phase = "loading" /\ req[r].key \in ks
         THEN [req[r] EXCEPT !.raced = TRUE] ELSE req[r]]
  /\ handled' = [k \in Keys |->
       IF k \in changed /\ handled[k] < n THEN n ELSE handled[k]]

\* A block announced twice within the window is one event.
Repeated_AnyFault(b) == lastBlock # NoBlock /\ sinceBlock < Window
Repeated(b) == lastBlock = b /\ sinceBlock < Window

\* A reader loop takes the next message of its socket until the listener closes.
Reads(topic) == topic \in reading /\ feed[topic] # <<>>

ReceiveBlock ==
  /\ Reads("rawblock")
  /\ feed' = [feed EXCEPT !["rawblock"] = Tail(@)]
  /\ LET m == Head(feed["rawblock"]) IN
     IF Repeated(m.id)
       THEN UNCHANGED <<lastBlock, sinceBlock, cache, req, handled>>
       ELSE /\ lastBlock' = m.id /\ sinceBlock' = 0
            /\ Invalidate(ConcernedByBlock(m.id), ChangedByBlock(m.id), m.at)
  /\ UNCHANGED <<node, lost, reading>>

ReceiveTx ==
  /\ Reads("rawtx")
  /\ feed' = [feed EXCEPT !["rawtx"] = Tail(@)]
  /\ LET m == Head(feed["rawtx"]) IN Invalidate(ConcernedByTx(m.id), ChangedByTx(m.id), m.at)
  /\ UNCHANGED <<node, lost, listener>>

\* The stream of a socket ends with an error: its reader loop is over, and the
\* caches go on with their time to live.
StreamError(topic) ==
  /\ topic \in reading
  /\ reading' = reading \ {topic}
  /\ lost' = (lost \/ feed[topic] # <<>>)
  /\ UNCHANGED <<node, feed, lastBlock, sinceBlock, cache, req, handled>>

\* The stop function closes every socket.
StopListener ==
  /\ reading # {}
  /\ reading' = {}
  /\ lost' = (lost \/ \E topic \in reading : feed[topic] # <<>>)
  /\ UNCHANGED <<node, feed, lastBlock, sinceBlock, cache, req, handled>>

--------------------------------------------------------------------------------
Capped(n, limit) == IF n < limit THEN n + 1 ELSE limit
OldLimit(kind) == Timeout + AgeLimit(kind)

Aged(e) == [e EXCEPT !.age = Capped(@, AgeLimit(KindOf(e.key))),
                     !.old = Capped(@, OldLimit(KindOf(e.key)))]

\* Time passes, but for no call longer than its timeout; the event loop gets to
\* the ready callbacks long before the next tick.
Tick ==
  /\ \A r \in Request :
       /\ req[r].phase # "served"
       /\ req[r].phase = "loading" =>
            req[r].clock < Timeout /\ DOMAIN req[r].got # Calls(KindOf(req[r].key))
  /\ cache' = [kind \in Kinds |-> [i \in DOMAIN cache[kind] |-> Aged(cache[kind][i])]]
  /\ req' = [r \in Request |->
       IF req[r].phase # "loading" THEN req[r]
       ELSE [req[r] EXCEPT !.clock = @ + 1, !.old = Capped(@, OldLimit(KindOf(req[r].key)))]]
  /\ sinceBlock' = Capped(sinceBlock, Window)
  /\ UNCHANGED <<node, feed, lost, reading, lastBlock, handled>>

Init ==
  /\ tip = Genesis /\ known = {Genesis} /\ pool = {} /\ mined = {} /\ events = 0
  /\ feed = [topic \in Topics |-> <<>>]
  /\ reading \in SUBSET Topics  \* an endpoint may not be configured
  /\ lost = FALSE
  /\ lastBlock = NoBlock /\ sinceBlock = Window
  /\ cache = [kind \in Kinds |-> <<>>]
  /\ req = [r \in Request |-> Idle]
  /\ handled = [k \in Keys |-> 0]

Progress(r) ==
  \/ \E call \in UNION {Calls(kind) : kind \in Kinds} : NodeAnswers(r, call)
  \/ LoadDone(r)
  \/ LoadFails(r)
  \/ Respond(r)

Next ==
  \/ \E b \in Block, c \in SUBSET pool : NewBlock(b, c)
  \/ \E t \in Tx : NewTx(t)
  \/ \E r \in Request, k \in Page : Fetch(r, k)
  \/ \E r \in Request : Progress(r)
  \/ ReceiveBlock
  \/ ReceiveTx
  \/ \E topic \in Topics : StreamError(topic)
  \/ StopListener
  \/ Tick

Spec == Init /\ [][Next]_vars

\* Time passes however many requests come (hence SF: a tick waits for the ready
\* callbacks), and the event loop serves every request; announcements and
\* requests are up to the outside.
Fairness == SF_vars(Tick) /\ \A r \in Request : WF_vars(Progress(r))
FairSpec == Spec /\ Fairness

--------------------------------------------------------------------------------
(* Properties. *)

Cached == UNION {Range(cache[kind]) : kind \in Kinds}

\* Every variable has its type; a cache holds at most MaxEntries entries, one
\* per key, and each entry a whole answer of its loader (cache.js, LRUCache).
TypeOK ==
  /\ {tip} \cup known \subseteq Block /\ pool \cup mined \subseteq Tx
  /\ events \in 0..MaxEvents /\ lost \in BOOLEAN /\ reading \subseteq Topics
  /\ lastBlock \in Block \cup {NoBlock} /\ sinceBlock \in 0..Window
  /\ handled \in [Keys -> 0..MaxEvents]
  /\ \A r \in Request : req[r].phase \in {"idle", "loading", "served"}
  /\ \A kind \in Kinds :
       /\ Len(cache[kind]) <= MaxEntries
       /\ Cardinality({e.key : e \in Range(cache[kind])}) = Len(cache[kind])
       /\ \A e \in Range(cache[kind]) :
            KindOf(e.key) = kind /\ DOMAIN e.val = Calls(kind)

\* With or without announcements, no page of a cache that expires shows what the
\* node said longer ago than the time to live plus what an RPC call may take: hits
\* never renew an entry and stale entries are never served (cache.js:61-68).
TtlBoundsStaleness ==
  \A r \in Request : req[r].phase = "served" /\ Expires(KindOf(req[r].key)) =>
    req[r].old <= TTL[KindOf(req[r].key)] + Timeout

\* A cache within its bounds serves no answer that is too old (cache.js:33-75).
CacheInvariant ==
  /\ TypeOK
  /\ TtlBoundsStaleness

\* An entry that is older than an announcement already handled for its key comes
\* from a loader that was under way at that moment: every other one was removed
\* by the subscribers (bitcoinService.js:16-27, mempoolService.js:20-26).
OnlyRacedFillsAreStale ==
  \A e \in Cached : e.raced \/ e.at >= handled[e.key]

\* When every announcement has been delivered, the listener's last block is the
\* node's best one, and so is the cached summary's, unless its loader raced: the
\* filter of repeated hashes never swallows a reorganisation
\* (zmqListener.js:110-119).
NothingMissedNothingStale ==
  (~lost /\ "rawblock" \in reading /\ feed["rawblock"] = <<>> /\ events > 0) =>
    /\ lastBlock \in {tip, NoBlock} /\ (lastBlock = NoBlock => tip = Genesis)
    /\ \A e \in Range(cache["tip"]) :
         ~e.raced => e.val["getblockchaininfo"] \in {tip}

\* Without ZMQ the explorer falls back to expiry: once the node is quiet, what
\* the caches that expire would serve becomes and stays what the node says, however
\* many announcements were lost (README.md:107).
Converges ==
  <>[](\A e \in Cached : Expires(KindOf(e.key)) /\ Fresh(e) => e.val = Current(e.key))

\* Claimed by docs/design/near-term-phase1.md:337: a notification clears the
\* relevant caches, so a request that begins after a block was announced to the
\* caches is not answered with the summary of an older block.
AnnouncedBlockIsServed ==
  \A r \in Request : req[r].phase = "served" /\ req[r].key = "tip" =>
    req[r].at >= req[r].seen

\* Claimed by docs/design/near-term-phase1.md:52: the announcement of a block
\* removes the cached entry of the previous tip, whose next block it is.
PreviousTipRemoved ==
  \A e \in Range(cache["block"]) :
    e.raced \/ \A b \in Block \ {Genesis} : Parent[b] = e.key => e.at >= handled[b]
================================================================================

# Verification of Bitcoin Explorer

Bitcoin Explorer is an Express application in front of a Bitcoin Core node. It
answers from JSON-RPC through caches, pushes events to browsers, and keeps an
optional LevelDB index of addresses that it builds by scanning the chain and
then follows over ZMQ. This directory holds TLA+ models of it, the TLC
configurations that check them, and TLAPS proofs about thirteen of them. Paths
below are relative to the application's `src/`, those of documents to its root.

## Inventory

### Components, their state and their operations

| Component | State | Operations | Correct when |
|---|---|---|---|
| **Address indexer**, `infra/addressIndexer.js` (control) | `db`, `stopping`, `syncInProgress`, `lastProcessedHeight`, `syncChain`, `subscriptions`; the locals of `initialSync`; in LevelDB `meta:last_processed_*` | `start`, `initialSync`, `processBlockHash`, `commitOperations`, `watchZmq`, the signal handler, `shutdown`, `awaitSyncDrain`, `closeInternal` | rows and checkpoint move together; a scan resumes exactly above the checkpoint; a stop closes the database and loses nothing it need not lose |
| **Address ledger**, the same file (data) | `addr:`, `utxo:`, `tx:` rows; `batchSummaryCache` | `processBlockHash`, `getSummaryForMutation`, `applyOutbound`, `flushPending` | rows and summaries are those of the chain up to the checkpoint |
| **Indexer status**, the same file and `services/addressExplorerService.js` | `throughputSamples`, cached tip, gauges | `getStatus`, `getChainTip`, `recordBlockSample`, `computeThroughput` | what is said to remain is true of the node the request saw |
| **Address and xpub queries**, `services/addressExplorerService.js` | none | `getAddressDetails`, `getXpubDetails` | a page shows what the index held while it was put together |
| **Prevout fetch**, `infra/addressIndexer.js` | `prevoutCache`, the pool and whether it is disabled | `fetchPrevouts`, `fetchPrevoutsInline`, `runWithConcurrency` | every input gets its own prevout or null |
| **Prevout worker pool**, `infra/prevoutWorkerPool.js`, `prevoutWorker.js` | `workers`, `idleWorkers`, `queue`, `tasks`, `workerState`, `destroyed` | `spawnWorker`, `runTask`, `dispatch`, `handleMessage`, `handleExit`, `destroy` | every task is answered once; one task per worker; no more threads than configured and none forgotten; nothing outlives `destroy` |
| **Cache and invalidation**, `cache.js`, `infra/cacheEvents.js`, the services | one LRU with a time to live per kind of view | `fetch`, the BLOCK_NEW and TX_NEW subscribers | an announcement removes what it concerns; nothing outlives its time to live, unless that is 0, with which nothing expires |
| **ZMQ listener**, `infra/zmqListener.js` | sockets, the last hash seen | reading loops, duplicate filter, stop | each new tip is announced, repeats are not |
| **RPC client**, `rpc.js` | `client` (credentials) | `rpcCall`, `readCookie`, `refreshClient` | after a node restart calls heal by themselves |
| **WebSocket gateway**, `infra/websocketGateway.js` | client set, `isAlive` flags, interval | connect, broadcast, heartbeat, stop | silent peers leave, answering ones stay, nobody misses an announcement |
| **Server life cycle**, `server.js` | what has started, the shutdown promise | `startServer`, `shutdown` | every part that was up is stopped, once |
| **Pagination**, the services and views | none | page numbers, rows, links | a walk over the pages sees every row once |
| **Mempool snapshot**, `services/mempoolService.js` | none | `loadMempoolData` | histogram, median and order are those of the entries |
| **Search**, `services/bitcoinService.js` | none | `resolveSearchQuery` | "not found" is said only of what is not there |
| Configuration, logging, metrics, routes, views | none of interest | input and output | |

### Interactions

`server.js` starts the listener, the gateway and (through
`startAddressIndexer`) the indexer. The listener emits BLOCK_NEW and TX_NEW on
`cacheEvents`; the services drop cache entries, the gateway broadcasts, and the
indexer appends a link to its promise chain `syncChain`. The indexer calls
`rpcCall` for blocks, the worker pool (whose threads call `rpcCall` too) for
prevouts, and LevelDB for batches. The read paths call the services, which read
the caches, the node and the index. A signal starts the indexer's own shutdown
and the server's.

### What is hard here

* **Interleaving.** All code of the main thread runs between awaits. A scan, the
  live chain, a stop, requests and ZMQ events interleave at each of them; worker
  threads interleave with everything.
* **Crashes.** The process may die with a batch half collected or a `db.batch`
  under way; work goes on from LevelDB alone. The node restarts too, with a new
  cookie.
* **Lost, late and repeated messages.** ZMQ gives no guarantee; a WebSocket peer
  may stop reading without closing.
* **Timeouts.** `awaitSyncDrain` gives up after ten seconds and leaves the block
  running on; caches expire; heartbeats find peers that do not answer.
* **Partial failure.** RPC calls, prevout lookups, batches, workers, binding a
  port and reading a cookie fail one by one.
* **Reads without a snapshot.** A page is put together from several reads between
  which blocks are committed or transactions come and go.

`PROJECT.json` lists each hazard at its line with the properties that would
notice it. Where a property cannot hold because the code does something else
than a document promises, the note names the configuration that shows it.

## Modules

| Module | Models | Extends / composes |
|---|---|---|
| `AddressIndexer` | control of the indexer, the node, ZMQ and LevelDB around it | |
| `IndexStore` | the abstract promise of the indexer: a durable log with a checkpoint | refined by `AddressIndexer` (`INSTANCE ... WITH`) |
| `AddressLedger` | the rows a block writes | relies on the order that `AddressIndexer` establishes |
| `IndexerStatus` | `getStatus` and the window of samples | |
| `AddressQueries` | address and xpub pages beside commits | |
| `PrevoutFetch` | `fetchPrevouts` over cache, pool and inline calls | takes the pool at its interface |
| `PrevoutWorkerPool` | the worker pool and its threads | the inside of that interface |
| `ExplorerCache` | caches, their loaders, the listener and the subscribers | |
| `RpcClient` | calls over a node that restarts | |
| `WebsocketGateway` | the gateway, the `ws` sockets and the peers | |
| `ServerLifecycle` | start and shutdown of everything above | a part is up or down here |
| `PageWalk`, `MempoolView`, `SearchRouting` | the read paths | |
| `AddressIndexerProofs`, `LedgerProofs`, `CacheProofs`, `RpcProofs`, `GatewayProofs`, `ServerProofs` | theorems about one model each, and their proofs | extend their model and `TLAPS` |
| `PrevoutProofs` | theorems about the fetch and the worker pool | extends `PrevoutFetch`, `PrevoutWorkerPool` and `TLAPS` |
| `ReadProofs` | theorems about five read paths | extends `SearchRouting`, `IndexerStatus`, `AddressQueries`, `PageWalk`, `MempoolView` and `TLAPS` |
| `MCAddressIndexer`, `MCAddressLedger`, `MCExplorerCache` | instances for TLC | extend their model |
| `MCPrevouts`, `MCServices`, `MCReadPaths` | suites: several models checked side by side | extend the models they run, or `INSTANCE` them |

A definition that ends in `_Fault`, or `_...Fault`, is a plausible mistake in
the definition after it. No specification uses one; each shows, put in the
place of the right definition, that a property is able to notice the mistake.

A **suite** chooses at the start which of its models a behaviour is about and
leaves the variables of the others at one initial value. Its state space is the
sum of theirs, not the product: nothing is claimed about their interaction,
and nothing is lost of what each does alone. Each part keeps the fairness that
its own module states. A suite extends the models whose properties are also
proved, so that the run checks the very formula the theorem states; that is why
the names of `RpcClient`, `PrevoutFetch`, `SearchRouting`, `IndexerStatus`,
`AddressQueries`, `PageWalk` and `MempoolView` begin with `Rpc`, `Fetch`, `Search`,
`Status`, `Address`, `Pages` and `Mempool`
where they would be another model's too (`RpcInit`, `searchPhase`, ...).

### AddressIndexer

One step is what the event loop runs between two awaits. A block is
`[height, fork, prev]`, enough to tell hashes apart and follow
`previousblockhash`; `log` is the sequence of blocks whose rows are in LevelDB
and `ckpt` the metadata. `scan` says where `start()`/`initialSync()` is
suspended:

| `scan` | suspended in |
|---|---|
| `load` | `open`, `loadExistingProgress` |
| `tip` | `getblockcount` |
| `hash`, `block` | `processBlockHeight`, `processBlockHash` (block and prevouts) |
| `commit`, `flush` | `db.batch` of a full batch, of the last one |
| `watching` / `halted` / `failed` | `start` has returned with / without a subscription, or rejected |

`live` is the link of `syncChain` that runs, `queue` those that wait. Actions
`Start`, `LoadProgress`, `BeginScan`, `ResolveHash`, `BlockReady`, `BlockFails`,
`CommitSettles`, `FlushSettles` are the scan; `ZmqBlock`, `LiveBegin`,
`LiveBlockReady`, `LiveBlockFails`, `LiveCommitSettles` the live path;
`RequestStop`, `DrainDone`, `DrainTimeout`, `CloseDone` the stop; `DbWrite`,
`DbFail` LevelDB; `Mine`, `Reorg` the node; `Crash` the process. An announcement
may be lost when it is sent. A batch is atomic and may fail as a whole; a close
waits for the write under way, as LevelDB does. `MCAddressIndexer` adds a
constant of the behaviour, `settles`: whether the node answers every call in it.

### AddressLedger

LevelDB is a function on keys, and a batch of operations is written at once
(`Written`): of several operations on a key the last one counts. The code awaits
the database at every output and input of a transaction, so each of them is a
step: `NextTransaction`, `Inbound` for an output, `Outbound` for an input, whose
prevout may not have been fetched (`missed`), and `EndBlock`, which appends the
summaries that the block touched and the progress. `FlushPending` is the commit.
`Restart`, a crash or a rejected scan, comes between any two of these and goes
on from the stored progress with an empty cache.

`chain` is one of `Chains`, a constant of which only consensus is assumed
(`IsChain`): inputs spend outputs of earlier transactions, and none twice. The
properties say what the chain up to the checkpoint comes to, as sets of outputs
and inputs and the numbers of their elements; a value is the number of its
satoshis (`ValueOf`), which is what a sum over the outputs would give and can be
reasoned about. `MCAddressLedger` gives `Chains` its value for TLC.

Blocks come in order and from one branch: that is `ScanContiguous` and
`ScanOnlyIsPrefix` of `AddressIndexer`, and the reason the ledger is not followed
across the live gap and the reorganisation described under findings. An output
pays at most one address, as every output does that Core 22 or later describes.
Satoshis are unbounded integers: the code adds them well below 2^53.

### IndexerStatus and AddressQueries

Both put pages together from several awaits while blocks are processed or
committed. A status asks for the height, then for that block's hash, then reads
the progress. The route always refreshes the tip, so the tip that `getChainTip`
keeps is never read and is left out. Milliseconds stand for the seconds of the
estimate. The percentage is in hundredths and rounded to the nearest, as at
`infra/addressIndexer.js:557`; `Percents` leaves the choice open between two that are
as near, which the floating-point product decides. 100 percent is told therefore
of an index that is still behind, by up to one block in 20000 of the chain, and
`OneStory` says so much and no more. `Height` is the set of heights the node may
have and `Stored` those that may be processed at the start, so that a run can look
at a short chain and at one of 20000 blocks without the steps between them. A sum is the number of its units (`TotalDuration`, `TotalOf`: each
duration, each balance laid out in cells that are counted), which is what a fold
over it would give and can be reasoned about. `AddressQueries` makes every coin worth 1, so that a balance is a number of
coins and any two reads that disagree can be told apart; the networks for which a
key decodes, and the addresses derived from it, are constants: no address is
derived on two networks, whose encodings differ, and none is a network.

### PrevoutFetch and PrevoutWorkerPool

`PrevoutFetch` takes the transactions of a block one after the other: cache
lookups, the pool with its start that may fail, what the pool did not answer,
the inline loops of `runWithConcurrency` and the close that comes in between.
A task of the pool settles with an answer or an error (`WorkerSettles`), or is lost:
its worker exits with it, or no worker is left to take it (`WorkerLoses`). A lost
task settles only when the pool is destroyed. The history variable `broken` marks a pool whose
start failed half-way, the one case in which threads are forgotten. An outpoint is
none of the two values that stand for a coinbase input and for no prevout.

In `PrevoutWorkerPool` each thread reports `online`, answers and `exit` through
`events`, a queue per thread, because a worker's port keeps order and is drained
before `exit`; the main thread handles one event at a time. `current` is
`workerState`. The indexer processes one transaction at a time
(`OneBlockAtATime`), so one `fetchMany` call is outstanding. A worker that exits is
replaced by a thread or, when none can be created, by nothing: `handleExit` only logs
that (`prevoutWorkerPool.js:82-86`), and nothing makes up for it later (`Successors`;
`unspawned` counts). The pool may shrink until it is empty. `lost` has the tasks that
went with a worker (finding 2); both are why `PrevoutFetch` has lost tasks.

### ExplorerCache

A request looks in the cache of its view and, on a miss, runs its loader, one
call to the node after the other; each is answered with what the node knows at
that moment, or fails. Announcements go through one socket per topic, may be
lost or late, and reach the duplicate filter and the subscribers. Time is in
ticks. A time to live of 0, which `config.js:44-47` allows, makes `lru-cache` keep an
entry for good, and not drop it at once (`Expires`). `Timeout` bounds the whole of an
`rpcCall`, the calls that `rpc.js:154` makes again after a 401 included. What a block concerns is stated twice: as the code's subscribers
(`ConcernedByBlock`) and as the views an event changes (`ChangedByBlock`), and
the properties compare by the second. The parent's page, whose next hash a block
sets and whose entry the subscribers keep, is left out of the second: that is a
divergence listed below.

### RpcClient

A node that stops removes its cookie and writes a new secret when it starts.
Calls share the client; each may be answered, refused, time out or be rejected
with 401, upon which it reads the file, replaces the client and is made again.
`status` is the HTTP status the outcome becomes. How often a call is made again
is less obvious than it looks: one restart accounts for one retry, but from the
second on another call that read the file before it may put its older secret
into the shared client between this call's refresh and its retry. `RetryLimit`
is `(secret - 1) * Cardinality(Call) + 1` therefore, and not one per restart.

### WebsocketGateway

`clients` is the gateway's set, `ready` the library's state of a socket, `queue`
what a peer has not read. A heartbeat comes only when peers that are not silent
have read what was there at the last one: what is sent and answered takes less than an
interval. A second ping that waits unread in a queue behaves like the first and
is not recorded.

### ServerLifecycle

The parts come up in any order they can after `startServer`; `pc` is what the
shutdown waits for. Requests make the indexer (`ensureIndexerStarted`), both
signals may come, and the indexer's own handler runs beside the shutdown. A signal
repeated with the same kind, which only runs the same promise again, is left
out. Express 5 passes an error of `listen` to the callback, which the code takes
for success; `BindFails` allows it.

### Read paths

`PageWalk` walks over the three paged lists with page numbers in halves (the
routes accept fractions; infinity is left out) while the mempool's snapshot and an
address's history change between pages. `MempoolView` keeps a transaction's
rate and time, missing ones included; fee and size only ever enter as their
quotient. A sort is the one arrangement that the comparison and the order of the
node's answer allow (`Sorted`, `Ordered`), since JavaScript's is stable. `SearchRouting` knows a query by its form; strings of 26 to 40 digits,
which have two forms, are left out.

## Runs

All twelve runs, with `tlc -config <run>.cfg <module>`:

| Run | Module | Question | Result |
|---|---|---|---|
| `indexer_safety` | `AddressIndexer` | Are scan, stops and checkpoint right under every interleaving, with failed writes, drain timeouts, a reorganisation and two crashes? Does the index refine `IndexStore`? | holds |
| `indexer_progress` | `MCAddressIndexer` | Does a stop close the database even if a call never settles? When calls settle, does a start end and is every queued announcement taken? | holds |
| `ledger_batched` | `MCAddressLedger` | Do coins, summaries and history match the chain through batches, failed prevouts and crashes at any output or input? | holds |
| `prevouts` | `MCPrevouts` | Is every task in one place, every worker used once, the pool short of no worker but those that could not be replaced, destroy final? Does every input get its own output, counted once? Do calls and blocks end unless a task or every worker is lost, and is no pool forgotten? | holds |
| `cache_tip` | `MCExplorerCache` | Which entries may be older than a handled announcement? Does a reorganisation pass the duplicate filter? | holds |
| `cache_expiry` | `MCExplorerCache` | How old may an answer be, and do the caches converge by expiry alone? | holds |
| `services` | `MCServices` | Is what was up stopped, once, by a shutdown that ends? Do rejected calls heal over node restarts? Do silent peers leave? | holds |
| `read_paths` | `MCReadPaths` | Is every push delivered once and in order? Do pages, snapshots, searches, statuses and address pages say what was true? | holds |
| `indexer_gap` | `AddressIndexer` | Is every block up to the checkpoint indexed? | violated, finding 1 |
| `pool_lost_task` | `PrevoutWorkerPool` | Is the task of a worker that exits rejected? | violated, finding 2 |
| `cache_stale_fill` | `MCExplorerCache` | Is an announced block served at once? | violated, finding 3 |
| `server_open_socket` | `ServerLifecycle` | Does a shutdown close the sockets? | violated, finding 4 |

What the invariants named `...Invariant` contain:

* `PoolInvariant`: a pending task is in one place and a worker has no task but
  the one the pool knows of (`OnePlacePerTask`); a worker that is offered work
  is free and offered once (`IdleIsFree`); no task waits while a worker is idle
  (`WorkConserving`); the pool is short of exactly the workers that could not be
  replaced, and never runs more threads than configured (`ShortOfTheUnspawned`).
* `FetchInvariant`: hits and calls add up to the inputs asked for
  (`CountedOnce`) and no input is looked up twice at once (`NoInputTwice`).
* `CacheInvariant`: an answer is no older than its time to live plus what one
  call may take, if its kind has a time to live other than 0 (`TtlBoundsStaleness`).
* `ServerInvariant`: one indexer (`OneIndexer`), closed once (`ClosedOnce`).
* `RpcInvariant`: with the node's own cookie a call is made again at most once
  per restart and, from the second on, once more per other call, whose older read
  may replace the client (`RetriesBounded`).
* `GatewayInvariant`: the gateway knows exactly the connected sockets
  (`KnownIsConnected`), and none after a stop (`StoppedIsEmpty`).
* `PagesInvariant`: a straight walk sees every row once (`WalkIsExact`), a list
  that grows at its front may repeat rows but hides none
  (`GrowthHidesNothing`), and a page that is shown exists (`PageExists`).
* `SnapshotInvariant`: the buckets partition the entries, the median is the
  middle one, the youngest come first.
* `SearchInvariant`: "not found" only if it was absent (`AbsentOnlyIfAbsent`), and
  a failure is reported as one (`FailureIsReported`).
* `StatusInvariant`: the fields of a status tell one story (`OneStory`): nothing
  remains if and only if it is "synced", then with 100 percent and no estimate, and
  100 percent is otherwise told of at most one missing block in 20000. And the
  window holds the latest samples (`SamplesAreLatest`).
* `QueriesInvariant`: every line of a page was true at some moment of the request
  (`EveryLineWasTrue`), a page served without a commit agrees with itself
  (`QuietPagesAgree`), and the network of a key is the first with history, or the
  first that decodes when none had any (`NetworkIsRight`).

### Bounds, and why they are enough

* `indexer_safety`: batches of 2 on chains up to height 4 give a full batch, a
  partial last one, and a scan after a crash with a batch to come;
  `MaxReorgs = 1` replaces the tip once; `MaxRestarts = 2` crashes a scan that
  itself resumed. The theorems hold for every value of these constants.
* `indexer_progress`: height 3, one reorganisation, one restart: a full and a
  partial batch and live blocks in either order with the stop.
* `ledger_batched`: chains of three blocks, two addresses, transactions of two
  outputs, one or two inputs, and one that spends an output of its own block;
  three blocks in batches of at most two give a summary read from the cache, one read
  back after a commit, and one read back after a crash. Crashes are not bounded. The
  theorems hold for every chain.
* `prevouts`: two threads, three tasks, two deaths: more tasks than threads, a
  replacement that dies as well, and failed replacements down to an empty pool. Two transactions, the first with a coinbase
  input and three outpoints over two inline loops, the second repeating two of
  them from the cache; up to two pools, whose tasks settle, fail or are lost.
* `cache_tip`: two branches of one block each, three node events and two requests:
  a loader overtaken by an announcement, a tip that is reached, left for the other
  branch and reached again, so that a hash is announced twice.
  `cache_expiry`: every kind of view competes for one entry per cache, transactions
  with a time to live of 0 and the rest with 1; one event is enough, since the
  properties compare an answer with the last one.
* `services`: two requests, two sockets, both signals; two calls and three
  node restarts, so that a late refresh meets a new secret, and does so again; two
  peers.
* `read_paths`: two sockets and two announcements; lists of up to five rows in
  pages of one to three; mempools of up to three transactions over three
  buckets and their edges; two searches of two hashes; two status
  requests on the heights 0 to 2, one block more than the window holds, and on 19998 to
  20000 with 19998 processed, where one missing block is rounded away or is not; a key with two addresses on one network and one on the other,
  two coins, three commits.

Every counter that the code lets grow is capped by a constant named `Max...`, whose
comment says what it bounds. `CHECK_DEADLOCK FALSE` is set where the model may
stop by itself: bounds used up, or a stop that has closed everything.

### Fairness, and why the code justifies it

* `AddressIndexer`, `StopFairness`: LevelDB finishes a batch, and the event
  loop runs continuations and timers, among them the drain timeout. Nothing is
  assumed about RPC. `ProgressSpec` adds, only in behaviours with `settles`, that
  a block fetch succeeds or fails: `rpc.js` gives every request a timeout, and
  `fetchBlockWithRetry` a limit. Finding 2 is the exception: a worker that exits
  with a task breaks it, and so does a pool that has lost all its workers.
* `PrevoutWorkerPool`: threads come up and answer, and the event loop delivers.
  No thread has to die or to be replaced when it does, nobody has to call `destroy`:
  `CallReturns` excepts a lost task and an empty pool. `PrevoutFetch`: the fetch
  goes on when its await settles. A task that was lost in a living pool need not:
  `FetchEnds` excepts a fetch that awaits one (`Stuck`), for as long as it does.
* `ExplorerCache`: calls settle, for the same reason; time passes, strongly fair
  because a tick waits for calls that are due, again and again.
* `RpcClient`: calls settle. The node does not have to come back.
* `WebsocketGateway`: the interval fires, sockets that were asked to close do,
  and peers that are not silent read and answer. Nobody has to connect or leave.
* `ServerLifecycle`: binding and opening end, requests end, the shutdown and the
  handler go on. No peer has to close its WebSocket.

Nobody is assumed to mine, announce, stop or crash.

## Proofs

The proofs hold for every value of the constants; the named assumptions of each
model are all that is used. In each module a theorem named `Invariance`, or
`...Invariance` where the module is about several models, is `Spec => []IInv` for
an inductive invariant, and the other theorems follow from it.

### AddressIndexerProofs

For every `BatchBlocks >= 1`, `ZmqEnabled`, `MaxHeight`, `MaxReorgs` and
`MaxRestarts`:

| Theorem | Statement |
|---|---|
| `Invariance` | `Spec => []IInv` |
| `TypeCorrect` | `Spec => []TypeOK` |
| `ScanIsContiguous` | `Spec => []ScanContiguous` |
| `ProcessingIsExclusive` | `Spec => []OneBlockAtATime` |
| `StopFreezesIndex` | `Spec => StoppedIndexIsFrozen` |
| `IndexImplementsStore` | `Spec => ImplementsStore` |
| `LossIsBounded` | `Spec => []LossBounded` |
| `GracefulStopIsSafe` | `Spec => []GracefulStopKeepsWork` |
| `ScanBuildsPrefix` | `Spec => []ScanOnlyIsPrefix` |

None of these is inductive alone. `ScanContiguous` speaks of the log, and the
next batch is decided much earlier, in memory; so `IInv` carries it from there:

* `ScanPosition`: while the scan works on a block, `nextHeight` is the
  checkpoint plus the blocks collected plus one, and the blocks collected are
  the run right above the checkpoint. It holds at the first block because
  `start` has loaded the checkpoint (`scan = "tip" => mem = ckpt.height`), and
  that is why a scan must never resume from the height it reported;
* `BatchShape`: the batch in flight is such a run, or one live block;
* `Control`: the live path exists only after the scan has ended and a write is
  in flight exactly when somebody waits for it, so the checkpoint cannot move
  under the scan's feet; a closed database has no write in flight, which gives
  `StoppedIndexIsFrozen`;
* `CheckpointIsLast` ties the checkpoint to the log, `ChainShape` the node's
  chain to its heights, so that the scan's target exists.

There is one lemma per action, on top of frame lemmas (a step that leaves the
variables of a conjunct alone keeps it) and lemmas about the operators that
several actions share (`Loop`, `Commit`, `EndSync`, `CloseInternal`).
`IndexImplementsStore` needs that only `DbWrite` changes the log (`OnlyDbWrite`)
and that what it appends is one of the two kinds of `BatchShape`.

The last three rest on a second layer (`DurableInvariance`), proved beside `IInv`:

* `Ahead`: wherever the scan stands, what it reports is ahead of the checkpoint by
  no more than what it has collected, and a batch that is committed ends with the
  block that is reported;
* `Settled`: a failed batch is remembered, once a drain is over no block is in
  progress and none can arrive, and between two live blocks what is reported is
  durable;
* `Unforked`: as long as the node has not reorganised, what the scan has
  collected, works on and hands to LevelDB is on the chain, across crashes and
  rejected scans.

### LedgerProofs

For every set of addresses, every `Chains` whose members satisfy `IsChain`, of any
length and with any transactions, every `BatchBlocks >= 1`, any set of lookups that
fail and any number of crashes at any step:

| Theorem | Statement |
|---|---|
| `LedgerInvariance` | `Spec => []LedgerIInv` |
| `LedgerRows` | `Spec => []RowsMatchChain` |
| `LedgerSummaries` | `Spec => []SummaryMatchesChain` |
| `LedgerIsRight` | `Spec => []LedgerInvariant` |

The properties speak of the database at a checkpoint, and a commit makes many
blocks true at once. `LedgerIInv` follows the scan between the outputs and
inputs of one block:

* `View` is the database with the operations in hand written over it, `Place` the
  position of the scan, `OutputsPast` and `ResolvedPast` what lies before it. `RowsFollow`
  says that the database agrees with its own progress and `View` with what lies
  before `Place`; a commit makes one into the other, and a restart drops one for
  the other.
* `SummaryFollows` says where the summary of each address is: in the batch's cache,
  right for `Place`; else in the database, and still right there, which is why a
  batch may read it back. In `View` it is right unless the block in progress has
  touched the address, and an address has been counted for the current
  transaction exactly when it is in `seen`.
* `AtRest` is the state after a start, a commit or a restart: nothing collected and
  no transaction begun. It implies the whole invariant from the database's half.

`OutputSummary` and `InputSummary` are the centre: what `WithOutput` and `WithInput`
do to a summary is what one more output or input does to the chain's. That an
input spends a coin which is there (`IsChain`, and not an input missed) makes the
count and the value at least what is subtracted, so the clamps of
`applyOutbound` and, in `SummarySanitized`, of `sanitizeSummary` never act.
`OutputStep` and `InputStep` say that a step of the scan adds exactly one output or
input to what lies before it, `WrittenOn` what a few more operations change in `View`,
and `OthersFollow` that addresses which the step does not book keep their half of
the invariant. No induction over the chain is needed: the sets before `Place` grow by
one element per step, and cardinalities by what that element has.

The theorems make one more thing precise. A missed lookup costs exactly the rows of
the input that was missed: the coins, history and summary are those of a
chain without it, for every address and for ever after, also when it is of the
same transaction, block or batch as others that were resolved.

### PrevoutProofs

The pool, for every set of threads large enough for the deaths, every `Size >= 1`,
any number of tasks and any number of failed replacements: `PoolAgrees` (`Spec => []PoolInvariant`) and
`DestroyLeavesNothing` (`Spec => []DestroyIsFinal`).

* The parts of `PoolInvariant` need each other. That a task is in one place is
  kept by an answer only if the worker that answers holds the task it names and
  is not idle already. Both follow from `Shapes`: what a thread has reported and
  not been heard is one of six short sequences, determined by the task the pool
  knows it has.
* `Placed` is `OnePlacePerTask` without its cardinalities: the queue has no
  repetition, no worker's task is queued or another worker's, and every task that
  can still be answered is one of these. `DispatchKeeps` shows that giving out
  the first `n` tasks to the first `n` idle workers keeps it; `FetchMany`,
  `HandleOnline` and `HandleMessage` all end in it.
* `Membership` says that the pool's workers are the threads that have started
  and whose exit it has not handled, and that all of them are terminated once it
  is destroyed; `DestroyIsFinal` follows.
* The lemmas before it are about sequences: what `SubSeq` leaves of a queue and
  what `splice(indexOf(w), 1)` leaves of a sequence without repetitions.

The fetch, for every block of transactions, every `Concurrency >= 1` and any number of pools:

| Theorem | Statement |
|---|---|
| `CountsAndLookups` | `FetchSpec => []FetchInvariant` |
| `InputsGetTheirOutputs` | `FetchSpec => []EachInputItsOutput` |
| `PoolsAreHeld` | `FetchSpec => []NoOrphanPool` |

* `EachInputItsOutput` speaks of a fetch that is done. `NobodyForgotten` follows
  every input to that point: it is settled, or waits for the pool, for a loop or
  for a loop's own call.
* `NobodyCountedTwice` is the count in progress: hits, calls and what waits make
  the number of inputs that spend an output. It needs `OnePlaceEach`: places in
  `payloads` and `fallback` are not repeated, and a loop has a place that was
  taken.
* `DestroyedFirst`: a pool is dropped from the indexer's field only after its
  threads were destroyed, and none is made while one is being destroyed.
  `NoOrphanPool` alone does not say what a close in progress has done already.

### CacheProofs

For every tree of blocks and set of transactions, every time to live, 0 included,
every timeout and cache size and any number of requests:

| Theorem | Statement |
|---|---|
| `CacheSafe` | `Spec => []CacheInvariant` |
| `OnlyRacesLeaveStale` | `Spec => []OnlyRacedFillsAreStale` |
| `NothingMissed` | `Spec => []NothingMissedNothingStale` |

* `TtlBoundsStaleness` is about an answer, and an answer comes out of a loader
  whose calls settle at different times: `Ages` bounds the age of an entry by its
  time in the cache plus what its loader took. It bounds nothing for a kind whose
  time to live is 0.
* `InTime`: a loader that no announcement overtook holds only answers from after
  the last one handled for its key. That makes the race of finding 3 the only way
  to a stale entry, which no test that runs one interleaving can show.
* `NothingMissedNothingStale` speaks of the moment at which everything is
  delivered. `News` says what is on its way: of the announcements in the feed none
  repeats the one before it, the last names the node's tip, and once the feed is
  empty the summary is current. The duplicate filter cannot swallow a
  reorganisation back to an earlier block, in any tree, because another
  announcement lies between the two.

### RpcProofs

For any number of calls and restarts: `RetriesAccountedFor`
(`RpcSpec => []RpcInvariant`).

* The number of retries is not inductive: a rejection only promises one. `Due`
  counts what a call is bound to make from where it stands, `Overwriters` the
  other calls that may still replace the client by an older secret, and
  `RetriesPaidFor` bounds the sum. A restart pays for all of them at once, every
  other step moves an amount from one to the other.
* An attempt to prove the limit of one retry per restart plus one per other call
  failed at the third restart, where every other call may overwrite once again;
  TLC confirms it with three. `RetryLimit` is the bound that is kept, and the run
  has three restarts.

### ReadProofs

For any hashes, requests, coins, networks, addresses, page sizes, buckets and
finite mempools, and every bound:

| Theorem | Statement |
|---|---|
| `SearchesAnswerTruly` | `SearchSpec => []SearchInvariant` |
| `StatusAgrees` | `StatusSpec => []StatusInvariant` |
| `RemainingIsTrue` | `StatusSpec => RemainingIsHonest` |
| `PagesAreTrue` | `AddressSpec => []QueriesInvariant` |
| `WalksAreExact` | `PagesSpec => []PagesInvariant` |
| `SnapshotsAgree` | `MempoolSpec => []SnapshotInvariant` |

* A search is answered "not found" by its second lookup and justified by its
  first: `Heard` keeps that a hash which was no block is either a transaction
  still or has been absent.
* `OneStory` rests on what rounding does to a share (`PercentSays`): it is 100
  percent when nothing remains, and otherwise only as long as what remains is no more
  than half a hundredth of a percent of the chain, one block in 20000.
* `WindowIsTail` ties the samples to the end of the history of completed blocks.
  `InsideTheChain` puts the height that was fetched between the node's height when
  the request came and its height now; both ends of `RemainingIsHonest` come from
  it.
* `AddressIInv` has a request's reads and the index it reads from: a summary, once
  written, stays (`Growing`), so that some moment of the request knew the least
  and a candidate whose summaries were read one by one, all absent, was unused at
  that moment (`Empty`); each line read so far is one of some moment (`Lines`); the
  network chosen was the first such (`Chosen`). `SummaryRead` is the same for one
  address.
* That a quiet page adds up is a statement about numbers of coins:
  `TotalsCountCoins` lays the coins of each address beside its cells, by one
  bijection per address, and concludes that there are as many.
* What a walk has seen at its end says nothing of the pages between. `WalkSoFar`
  says it of every page: a reader who only follows Next stands at a whole page `k`
  and has seen, of a list that is as it was, the first `k` pages' rows
  (`QuietWalk`); of a history that grew, all that `k` pages reached when the last
  of them was shown, counted from the end of the list, where nothing moves
  (`GrowingWalk`). The arithmetic of pages is in `WholePage`, `RowsOfWholePage`
  and `FirstRows`; `FollowNextStep` shows that a link is cut to the last page only
  when the list became shorter after the link was rendered.
* A snapshot is a function of two answers, and `MempoolIInv` says that it is of the
  two that the load got, whatever came and went. The work is in the
  algorithms. `SortedIsOrder` shows that a sorted arrangement exists and uses every
  element once: each goes to the place that is the number of elements up to it.
  `MedianIs` counts by places (`BetweenPlaces`): rates below the median are before
  the upper middle place, rates above it behind the lower one. `TakesIs` needs the
  edges to ascend, or `find` could stop at a bucket too early.

### ServerProofs

For every choice of `GatewayModes`, `BindFails` and `ByName`, and any number of
requests and connections: `OneIndexerClosedOnce` (`Spec => []ServerInvariant`) and
`ShutdownStopsWhatRan` (`Spec => []WhatRanIsStopped`).

* `HttpFollows`: past its first await the shutdown finds the HTTP server closed
  with no request and no socket left, and it gets past it in no other way. This
  is why no request can make a second indexer after the first was stopped:
  `IndexerFollows` keeps the singleton until the shutdown is complete.
* `CloserFollows`: `stopping` is set by the signal handler or by the shutdown, and
  only who set it closes the database: `closings = 0` as long as that one is still
  draining. `closings <= 1` alone says nothing of who may still close.
* `PartsFollow`: what was up when the shutdown began is stopped once the await
  that stops it is past.

### GatewayProofs

For every set of clients and any number of announcements: `KnownAndEmptied`
(`Spec => []GatewayInvariant`) and `AnsweringPeersStay` (`Spec => []ResponsiveKept`).

* `ResponsiveKept` is not inductive: a heartbeat drops whoever has not answered.
  `PingPending` adds that such a peer, unless it fell silent, still has the ping in
  its queue or its pong under way, and a heartbeat waits for both. The lemmas on
  `Contains` say that a queue keeps its ping until it is read, whatever is appended.
* `EveryMessageIsSent` (`Spec => []NoMessageMissed`) is proved on top of these.
  `StreamInv` says of what a peer has read, followed by what waits for it, that it
  carries the messages since it connected once and in order (`Faithful`), and of
  a socket that is closing that only later ones are missing.
* `StopLeavesNone`: after `wss.close` has called back no socket is connected; with
  `KnownIsConnected` the gateway's own set is empty too.

### Only model-checked

* Liveness and `ENABLED` are out of the prover's reach: `ScanEndsIfSettled`,
  `LiveQueueDrainsIfSettled`, `StopCloses`, `CallReturns`, `FetchEnds`,
  `Converges`, `ShutdownEnds`, `RejectionsStop`, `SilentClientLeaves`.
  Fairness enters none of the theorems: they are about `Spec`, without it.

Every safety invariant and every action property of the passing runs is stated by
a theorem. None of them needs an induction over data, which the installed provers
cannot do with the library's theorems: sums and counts are cardinalities of sets
that a step changes by one element (`AddressLedger`, `AddressQueries`,
`IndexerStatus`, `MempoolView`), and what is left is that a set of numbers has a
least element.

## Findings

Runs that end in a violation, each of what a document or the code itself says:

1. `infra/addressIndexer.js:743` (`indexer_gap`): the target height is read before
   the scan, the subscription starts after it, and nothing polls. A block
   announced in between is never indexed, not even after a restart, because the
   next live block moves the checkpoint past it. A failed live block and a lost
   ZMQ message leave the same hole.
2. `infra/prevoutWorkerPool.js:61` (`pool_lost_task`): `handleExit` removes the
   worker's state before it reads the task from it, so the task is never rejected
   and `fetchMany` waits until the pool is destroyed. The scan then hangs, and a
   stop has to time out. The same comes of a pool whose last worker could not be
   replaced (line 82), which takes tasks and has nobody to give them to.
3. `cache.js:69` (`cache_stale_fill`): a loader that was under way while its key
   was invalidated stores its answer afterwards: the old tip is served for its
   time to live.
4. `server.js:288` (`server_open_socket`): the shutdown awaits the HTTP server
   before it stops the gateway, whose sockets keep the HTTP server open.

### Other divergences

Configurations kept beside the runs; each violates the one property it lists,
which states what a document promises and the code does not do.

| Configuration | Module | Property | Where, and what is promised |
|---|---|---|---|
| `indexer_reorg` | `AddressIndexer` | `AppliedOnParent` | `infra/addressIndexer.js:887` never looks at `previousblockhash`; `docs/design/address-explorer.md:92`: "handle reorgs with rollback log" |
| `indexer_status` | `AddressIndexer` | `StatusIsCheckpoint` | `infra/addressIndexer.js:1005` moves `lastProcessedHeight` although the batch failed; `docs/design/indexer-sync-status.md:33`: "current indexer checkpoint" |
| `indexer_no_zmq` | `AddressIndexer` | `FollowsWithoutZmq` | `infra/addressIndexer.js:1288`: without ZMQ nothing asks the node again; `docs/RUNBOOK.md:106`: "periodically polls new blocks during API usage" |
| `ledger_history` | `MCAddressLedger` | `HistoryComplete` | `infra/addressIndexer.js:1126`: two inputs that spend the same vout of two parents share a history row; `docs/design/address-explorer.md:49` |
| `ledger_spent` | `MCAddressLedger` | `SpentIsRemoved` | `infra/addressIndexer.js:1268`: a prevout that cannot be fetched is skipped; `docs/design/address-explorer.md:62`: "Remove spent UTXOs" |
| `fetch_after_close` | `MCPrevouts` | `ClosedHasNoThreads` | `infra/addressIndexer.js:613`: a block that runs on after the drain timeout makes a new pool; `docs/design/address-explorer.md:107`: "stop fetching" |
| `status_stale` | `IndexerStatus` | `NoStaleEstimate` | `infra/addressIndexer.js:509` never looks at the age of its samples; `docs/design/indexer-sync-status.md:59`: "return null" when stale |
| `status_gauges` | `IndexerStatus` | `LagIsShown` | `infra/addressIndexer.js:530` sets the gauges only when a status is asked for; `docs/RUNBOOK.md:94` alerts on them |
| `queries_total` | `MCReadPaths` | `TotalWasTrue` | `services/addressExplorerService.js:128` sums summaries without a snapshot; `docs/RUNBOOK.md:107`: "aggregate balances from the index" |
| `queries_balance` | `MCReadPaths` | `BalanceMatchesUtxos` | `services/addressExplorerService.js:46`: balance and outputs come from two reads; `docs/PRD.md:58` shows them on one page |
| `cache_previous_tip` | `MCExplorerCache` | `PreviousTipRemoved` | `services/bitcoinService.js:19` deletes the announced block's own key only; `docs/design/near-term-phase1.md:52`: "matching hash or previous tip" |
| `rpc_unmapped` | `RpcClient` | `FailuresAreMapped` | `rpc.js:148`: a cookie that cannot be read becomes a 500; `docs/PRD.md:177`: "graceful 404/400/503" |
| `rpc_storm` | `RpcClient` | `NoRetryStorm` | `rpc.js:154` retries every 401 without limit or delay; `docs/PRD.md:177`: "no retry storms" |
| `gateway_backlog` | `WebsocketGateway` | `QueueBounded` | `infra/websocketGateway.js:76` sends without a look at what waits; `docs/design/websocket-updates.md:39`: "Ensure broadcast queue is bounded" |
| `server_port_taken` | `ServerLifecycle` | `ListenerIsClosed` | `server.js:288`: closing a server that never listened skips the other stops; `docs/design/near-term-phase1.md:34`: "close sockets on SIGINT/SIGTERM" |
| `server_early_complete` | `ServerLifecycle` | `CompleteMeansClosed` | `infra/addressIndexer.js:1315`: "complete" is logged while the handler still closes the database; `docs/RUNBOOK.md:109` |
| `mempool_summary` | `MCReadPaths` | `SummaryMatchesEntries` | `services/mempoolService.js:128`: counts and entries come from two calls; `docs/API.md:153`: "a snapshot of the mempool" |
| `pages_size` | `PageWalk` | `EverySizeWalks` | `views/address.njk:79` (at the root): the links drop `pageSize`; `docs/design/address-explorer.md:87`: "recent transactions with pagination" |

Two documents also disagree with single expressions that need no model: an
invalid page number is clipped and not answered with 400 (`docs/API.md:197`), and
an invalid search is answered with 404 and not 400 (`docs/PRD.md:65`).

## Not modelled

* Configuration: read once from the environment; its values are CONSTANTS.
* Logging and metrics: output on which nothing in the modelled control depends.
  The gauges of the indexer are in `IndexerStatus`.
* HTTP routes and views, apart from page parameters, links and the statuses
  of the error handler: parameters and rendering around the services.
* The sums, the fee and the RBF flag of the transaction view: one expression
  each over floating-point amounts.
* Key derivation and address encoding: libraries, constants of `AddressQueries`.
* Data the properties do not tell apart: the encoding of keys and rows, satoshi
  conversion, wall-clock times.
* `scripts/`: the regtest smoke test and the benchmarks run the application from
  outside and keep no state of it.

## Plan

What is left is a refinement of `PrevoutWorkerPool` to the pool's interface as
`PrevoutFetch` takes it, so that the two are connected by more than their text, and
its proof on top of `PrevoutProofs`.

---------------------------- MODULE AddressIndexer ----------------------------
(***************************************************************************)
(* The life of one AddressIndexer (src/infra/addressIndexer.js): start,    *)
(* the batched initial scan, the ZMQ-driven live updates, the graceful     *)
(* stop with its drain timeout, and crashes with a restart from the        *)
(* LevelDB checkpoint.  A step is what the event loop runs between two     *)
(* awaits.  The node (Bitcoin Core) and LevelDB are external: the node     *)
(* extends or reorganises its chain and announces tips, LevelDB finishes   *)
(* one atomic batch or fails it as a whole.  The rows a block writes are   *)
(* abstracted to the block: `log' is the sequence of blocks whose rows     *)
(* have been applied to the database.                                      *)
(*                                                                         *)
(* A definition whose name ends in _Fault is a plausible mistake in the    *)
(* definition that follows it; none is used by the specification.  They    *)
(* show that the properties notice such a mistake.                         *)
(***************************************************************************)
EXTENDS Integers, Sequences

CONSTANTS
  BatchBlocks,   \* ADDRESS_INDEXER_BATCH_BLOCKS, at least 1
  ZmqEnabled,    \* whether a rawblock endpoint is configured
  MaxHeight,     \* bound: the node's chain stops growing at this height
  MaxReorgs,     \* bound: how often the node replaces its tip
  MaxRestarts    \* bound: how often the process dies and comes back

ASSUME BatchBlocksAssumption == BatchBlocks \in Nat \ {0}
ASSUME ZmqAssumption == ZmqEnabled \in BOOLEAN
ASSUME BoundsAssumption ==
  /\ MaxHeight \in Nat
  /\ MaxReorgs \in Nat
  /\ MaxRestarts \in Nat

VARIABLES
  chain,          \* the node's active chain, genesis first
  reorgs,         \* how many reorganisations have happened
  wire,           \* block announcements sent and not yet received
  log,            \* durable: the blocks applied to the index, in order
  ckpt,           \* durable: meta last_processed_height / _hash
  db,             \* this.db: "open", "closing", or "closed" (null)
  write,          \* the db.batch in flight: "none", "pending", "ok", "error"
  wblocks,        \* the blocks whose operations that batch holds
  scan,           \* where start() and initialSync() are suspended
  nextHeight,     \* initialSync: nextHeight
  bestHeight,     \* initialSync: bestHeight, read once
  pending,        \* initialSync: pendingOperations, as blocks
  cur,            \* the block processBlockHash is working on
  live,           \* the link of syncChain that runs: "idle", "block", "commit"
  queue,          \* the links of syncChain that have not run
  subscribed,     \* this.subscriptions holds the BLOCK_NEW handler
  mem,            \* this.lastProcessedHeight, -1 for null
  syncInProgress, \* this.syncInProgress
  stopping,       \* this.stopping
  stopper,        \* the stop in progress: "none", "draining", "closing", "closed"
  drainTimedOut,  \* history: awaitSyncDrain gave up
  writeFailed,    \* history: LevelDB failed a batch since the process began
  restarts        \* how often the process has died

nodeVars  == <<chain, reorgs, wire>>
dbVars    == <<log, ckpt, write, wblocks, writeFailed>>
scanVars  == <<scan, nextHeight, bestHeight, pending>>
liveVars  == <<live, queue, subscribed>>
stopVars  == <<stopping, stopper, db, drainTimedOut>>
vars == <<chain, reorgs, wire, log, ckpt, db, write, wblocks, scan, nextHeight,
          bestHeight, pending, cur, live, queue, subscribed, mem,
          syncInProgress, stopping, stopper, drainTimedOut, writeFailed, restarts>>

(***************************************************************************)
(* A block is known by its height, the branch it is on and the branch its  *)
(* parent is on: enough to tell two hashes apart and to follow             *)
(* previousblockhash.  `via' records which of the two paths applied it.    *)
(***************************************************************************)
Block == [height : Nat, fork : Nat, prev : Nat]
Entry == [height : Nat, fork : Nat, prev : Nat, via : {"scan", "live"}]
NoBlock == [height |-> -1, fork |-> 0, prev |-> 0]
Genesis == [height |-> 0, fork |-> 0, prev |-> 0]

BlockOf(e) == [height |-> e.height, fork |-> e.fork, prev |-> e.prev]
Via(b, path) == [height |-> b.height, fork |-> b.fork, prev |-> b.prev, via |-> path]
LastOf(s) == s[Len(s)]

Init ==
  /\ chain = <<Genesis>> /\ reorgs = 0 /\ wire = <<>>
  /\ log = <<>> /\ ckpt = NoBlock
  /\ db = "closed" /\ write = "none" /\ wblocks = <<>>
  /\ scan = "off" /\ nextHeight = 0 /\ bestHeight = 0 /\ pending = <<>>
  /\ cur = Genesis
  /\ live = "idle" /\ queue = <<>> /\ subscribed = FALSE
  /\ mem = -1 /\ syncInProgress = FALSE
  /\ stopping = FALSE /\ stopper = "none"
  /\ drainTimedOut = FALSE /\ writeFailed = FALSE
  /\ restarts = 0

-----------------------------------------------------------------------------
(* The node. *)

\* A new tip is announced on the rawblock socket; the message may be lost.
Announce(b) ==
  \/ ZmqEnabled /\ wire' = Append(wire, b)
  \/ wire' = wire

Mine ==
  /\ Len(chain) <= MaxHeight
  /\ LET tip == LastOf(chain)
         b   == [height |-> Len(chain), fork |-> tip.fork, prev |-> tip.fork]
     IN  chain' = Append(chain, b) /\ Announce(b)
  /\ UNCHANGED <<reorgs, dbVars, scanVars, cur, liveVars, mem, syncInProgress, stopVars, restarts>>

\* A longer branch that forks off below the tip takes over; only its tip is
\* announced.
Reorg ==
  /\ reorgs < MaxReorgs
  /\ Len(chain) \in 2..MaxHeight
  /\ LET n  == Len(chain)
         f  == reorgs + 1
         b1 == [height |-> n - 1, fork |-> f, prev |-> chain[n - 1].fork]
         b2 == [height |-> n, fork |-> f, prev |-> f]
     IN  chain' = Append([chain EXCEPT ![n] = b1], b2) /\ Announce(b2)
  /\ reorgs' = reorgs + 1
  /\ UNCHANGED <<dbVars, scanVars, cur, liveVars, mem, syncInProgress, stopVars, restarts>>

-----------------------------------------------------------------------------
(* LevelDB. *)

\* db.batch(operations) is called: the write is under way.
IssueBatch(blocks) == write' = "pending" /\ wblocks' = blocks

\* The batch is applied as a whole: the rows of every block and, because the
\* metadata operations of the last block come last, its height and hash.
DbWrite ==
  /\ write = "pending"
  /\ log' = log \o wblocks
  /\ ckpt' = BlockOf(LastOf(wblocks))
  /\ write' = "ok"
  /\ UNCHANGED <<nodeVars, wblocks, writeFailed, scanVars, cur, liveVars, mem,
                 syncInProgress, stopVars, restarts>>

\* The batch fails: none of its operations is applied.
DbFail ==
  /\ write = "pending"
  /\ write' = "error"
  /\ writeFailed' = TRUE
  /\ UNCHANGED <<nodeVars, log, ckpt, wblocks, scanVars, cur, liveVars, mem,
                 syncInProgress, stopVars, restarts>>

NoBatch == write' = "none" /\ wblocks' = <<>>

-----------------------------------------------------------------------------
(* start() and initialSync(). *)

\* startAddressIndexer in a fresh process: start() opens the database.
Start ==
  /\ scan = "off"
  /\ scan' = "load"
  /\ stopping' = FALSE
  /\ db' = "open"
  /\ UNCHANGED <<nodeVars, dbVars, nextHeight, bestHeight, pending, cur, liveVars, mem,
                 syncInProgress, stopper, drainTimedOut, restarts>>

\* start() or initialSync() rejects: nothing retries it in this process.
Abort ==
  /\ scan' = "failed"
  /\ pending' = <<>>
  /\ UNCHANGED <<nextHeight, bestHeight, subscribed>>

\* Fault: the stored height is taken for the next one to process.
LoadProgress_Fault ==
  /\ scan = "load" /\ db = "open"
  /\ mem' = ckpt.height - 1
  /\ scan' = "tip"
  /\ UNCHANGED <<nextHeight, bestHeight, pending, subscribed>>
  /\ UNCHANGED <<nodeVars, dbVars, cur, live, queue, syncInProgress, stopVars, restarts>>

\* Fault: watchZmq() is called before initialSync().
LoadProgress_SubscribesFault ==
  /\ scan = "load" /\ db = "open"
  /\ mem' = ckpt.height
  /\ scan' = "tip"
  /\ subscribed' = TRUE
  /\ UNCHANGED <<nextHeight, bestHeight, pending>>
  /\ UNCHANGED <<nodeVars, dbVars, cur, live, queue, syncInProgress, stopVars, restarts>>

\* loadExistingProgress: a database closed meanwhile yields null, a closing
\* one rejects.
LoadProgress ==
  /\ scan = "load"
  /\ \/ /\ db # "closing"
        /\ mem' = IF db = "open" THEN ckpt.height ELSE -1
        /\ scan' = "tip"
        /\ UNCHANGED <<nextHeight, bestHeight, pending, subscribed>>
     \/ /\ db = "closing"
        /\ Abort
        /\ UNCHANGED mem
  /\ UNCHANGED <<nodeVars, dbVars, cur, live, queue, syncInProgress, stopVars, restarts>>

\* The end of initialSync and of start(): watchZmq subscribes unless the
\* indexer is being stopped.
EndSync ==
  /\ scan' = IF stopping THEN "halted" ELSE "watching"
  /\ subscribed' = ~stopping

\* Fault: pendingOperations holds the operations of the last block only.
Commit_Fault(held, at) ==
  /\ db = "open"
  /\ IssueBatch(<<LastOf(held)>>)
  /\ scan' = at
  /\ pending' = held
  /\ UNCHANGED subscribed

\* commitOperations called from the scan, which then awaits it at `at'.  With
\* the database gone it returns at once (Skipped); a closing one rejects.
Commit(held, at) ==
  /\ db = "open"
  /\ IssueBatch(held)
  /\ scan' = at
  /\ pending' = held
  /\ UNCHANGED subscribed

\* From the head of the while loop at height n, with `held' collected and not
\* yet committed: take the next block, or leave the loop and flush the rest.
Loop(n, best, held) ==
  /\ nextHeight' = n
  /\ bestHeight' = best
  /\ \/ /\ ~stopping /\ n <= best
        /\ scan' = "hash"
        /\ syncInProgress' = TRUE
        /\ pending' = held
        /\ NoBatch
        /\ UNCHANGED subscribed
     \/ /\ stopping \/ n > best
        /\ syncInProgress' = FALSE
        /\ \/ /\ held = <<>> \/ db = "closed"
              /\ pending' = <<>>
              /\ NoBatch
              /\ EndSync
           \/ held # <<>> /\ Commit(held, "flush")
           \/ /\ held # <<>> /\ db = "closing"
              /\ NoBatch
              /\ scan' = "failed" /\ pending' = <<>> /\ UNCHANGED subscribed

\* Fault: the scan goes on with the last block again.
BeginScan_Fault ==
  /\ scan = "tip"
  /\ \/ Loop(IF mem < 0 THEN 0 ELSE mem, Len(chain) - 1, <<>>)
     \/ NoBatch /\ Abort /\ UNCHANGED syncInProgress
  /\ UNCHANGED <<nodeVars, log, ckpt, writeFailed, cur, live, queue, mem, stopVars, restarts>>

\* initialSync up to the loop: the target height is read once.
BeginScan ==
  /\ scan = "tip"
  /\ \/ Loop(mem + 1, Len(chain) - 1, <<>>)
     \/ NoBatch /\ Abort /\ UNCHANGED syncInProgress
  /\ UNCHANGED <<nodeVars, log, ckpt, writeFailed, cur, live, queue, mem, stopVars, restarts>>

\* processBlockHeight and the entry of processBlockHash, which skips the block
\* when the indexer is stopping.
ResolveHash ==
  /\ scan = "hash"
  /\ \/ /\ ~stopping /\ db # "closed"
        /\ cur' = chain[nextHeight + 1]
        /\ scan' = "block"
        /\ NoBatch
        /\ UNCHANGED <<nextHeight, bestHeight, pending, subscribed, syncInProgress>>
     \/ /\ stopping \/ db = "closed"
        /\ Loop(nextHeight + 1, bestHeight, pending)
        /\ UNCHANGED cur
     \/ /\ NoBatch /\ Abort
        /\ syncInProgress' = FALSE
        /\ UNCHANGED cur
  /\ UNCHANGED <<nodeVars, log, ckpt, writeFailed, live, queue, mem, stopVars, restarts>>

\* Fault: one block more than configured is kept in memory.
BatchFull_Fault(held) == Len(held) > BatchBlocks

\* pendingBlocks >= batchBlockCount; a batch of one commits every block.
BatchFull(held) == Len(held) >= BatchBlocks

\* processBlockHash has the block, its prevouts and the summaries it needs:
\* its operations join the batch, which is committed when it is full.  With
\* batches of one, recordBlockSample runs when the commit has settled.
BlockReady ==
  LET held == Append(pending, Via(cur, "scan"))
  IN
  /\ scan = "block"
  /\ \/ /\ ~BatchFull(held)
        /\ mem' = cur.height
        /\ Loop(nextHeight + 1, bestHeight, held)
     \/ /\ BatchFull(held)
        /\ Commit(held, "commit")
        /\ mem' = IF BatchBlocks > 1 THEN cur.height ELSE mem
        /\ UNCHANGED <<nextHeight, bestHeight, syncInProgress>>
     \/ /\ BatchFull(held) /\ db = "closed"
        /\ mem' = cur.height
        /\ Loop(nextHeight + 1, bestHeight, <<>>)
     \/ /\ BatchFull(held) /\ db = "closing"
        /\ mem' = cur.height
        /\ NoBatch /\ Abort
        /\ syncInProgress' = FALSE
  /\ UNCHANGED <<nodeVars, log, ckpt, writeFailed, cur, live, queue, stopVars, restarts>>

\* getblock, a prevout or a summary read fails: the scan rejects.
BlockFails ==
  /\ scan = "block"
  /\ NoBatch /\ Abort
  /\ syncInProgress' = FALSE
  /\ UNCHANGED <<nodeVars, log, ckpt, writeFailed, cur, live, queue, mem, stopVars, restarts>>

\* Fault: pendingOperations is not emptied by the commit.
CommitSettles_KeepsFault ==
  /\ scan = "commit" /\ write = "ok"
  /\ mem' = cur.height
  /\ Loop(nextHeight + 1, bestHeight, pending)
  /\ UNCHANGED <<nodeVars, log, ckpt, writeFailed, cur, live, queue, stopVars, restarts>>

\* Fault: a failed commit is retried for ever.
CommitSettles_RetryFault ==
  /\ scan = "commit"
  /\ mem' = cur.height
  /\ \/ /\ write = "ok"
        /\ Loop(nextHeight + 1, bestHeight, <<>>)
     \/ /\ write = "error"
        /\ IssueBatch(pending)
        /\ UNCHANGED <<scanVars, subscribed, syncInProgress>>
  /\ UNCHANGED <<nodeVars, log, ckpt, writeFailed, cur, live, queue, stopVars, restarts>>

\* The commit of a full batch has settled.
CommitSettles ==
  /\ scan = "commit"
  /\ mem' = cur.height
  /\ \/ /\ write = "ok"
        /\ Loop(nextHeight + 1, bestHeight, <<>>)
     \/ /\ write = "error"
        /\ NoBatch /\ Abort
        /\ syncInProgress' = FALSE
  /\ UNCHANGED <<nodeVars, log, ckpt, writeFailed, cur, live, queue, stopVars, restarts>>

\* The flush after the loop has settled.
FlushSettles ==
  /\ scan = "flush"
  /\ write \in {"ok", "error"}
  /\ NoBatch
  /\ \/ /\ write = "ok"
        /\ EndSync
        /\ pending' = <<>>
        /\ UNCHANGED <<nextHeight, bestHeight>>
     \/ write = "error" /\ Abort
  /\ UNCHANGED <<nodeVars, log, ckpt, writeFailed, cur, live, queue, mem, syncInProgress,
                 stopVars, restarts>>

-----------------------------------------------------------------------------
(* watchZmq() and the promise chain of live updates. *)

\* The listener emits BLOCK_NEW; without a subscriber the hash is forgotten.
ZmqBlock ==
  /\ scan # "off"
  /\ wire # <<>>
  /\ wire' = Tail(wire)
  /\ queue' = IF subscribed THEN Append(queue, Head(wire)) ELSE queue
  /\ UNCHANGED <<chain, reorgs, dbVars, scanVars, cur, live, subscribed, mem, syncInProgress,
                 stopVars, restarts>>

\* The next link of syncChain starts, or returns because of a stop.
LiveBegin ==
  /\ live = "idle" /\ queue # <<>>
  /\ queue' = Tail(queue)
  /\ \/ /\ stopping \/ db = "closed"
        /\ UNCHANGED <<live, cur, syncInProgress>>
     \/ /\ ~stopping /\ db # "closed"
        /\ live' = "block"
        /\ cur' = Head(queue)
        /\ syncInProgress' = TRUE
  /\ UNCHANGED <<nodeVars, dbVars, scanVars, subscribed, mem, stopVars, restarts>>

LiveEnd ==
  /\ live' = "idle"
  /\ syncInProgress' = FALSE

\* The announced block is processed and committed on its own.
LiveBlockReady ==
  /\ live = "block"
  /\ \/ /\ db = "open"
        /\ IssueBatch(<<Via(cur, "live")>>)
        /\ live' = "commit"
        /\ UNCHANGED <<mem, syncInProgress>>
     \/ /\ db # "open"
        /\ NoBatch
        /\ mem' = cur.height
        /\ LiveEnd
  /\ UNCHANGED <<nodeVars, log, ckpt, writeFailed, scanVars, cur, queue, subscribed, stopVars, restarts>>

\* Fault: the error is not caught, and no later link of the chain runs.
LiveBlockFails_Fault ==
  /\ live = "block"
  /\ live' = "rejected" /\ syncInProgress' = FALSE
  /\ UNCHANGED <<nodeVars, dbVars, scanVars, cur, queue, subscribed, mem, stopVars, restarts>>

\* It could not be fetched or decoded: the error is logged, the block dropped.
LiveBlockFails ==
  /\ live = "block"
  /\ LiveEnd
  /\ UNCHANGED <<nodeVars, dbVars, scanVars, cur, queue, subscribed, mem, stopVars, restarts>>

LiveCommitSettles ==
  /\ live = "commit"
  /\ write \in {"ok", "error"}
  /\ NoBatch
  /\ mem' = cur.height
  /\ LiveEnd
  /\ UNCHANGED <<nodeVars, log, ckpt, writeFailed, scanVars, cur, queue, subscribed, stopVars, restarts>>

-----------------------------------------------------------------------------
(* Stopping: the signal handler or shutdown(), whichever comes first. *)

RequestStop ==
  /\ scan # "off"
  /\ ~stopping
  /\ stopping' = TRUE
  /\ stopper' = "draining"
  /\ UNCHANGED <<nodeVars, dbVars, scanVars, cur, liveVars, mem, syncInProgress, db,
                 drainTimedOut, restarts>>

\* closeInternal up to its first await.
CloseInternal ==
  /\ stopper' = "closing"
  /\ subscribed' = FALSE
  /\ db' = "closing"

\* Fault: the stop does not wait for the block in progress.
DrainDone_Fault ==
  /\ stopper = "draining"
  /\ CloseInternal
  /\ UNCHANGED <<nodeVars, dbVars, scanVars, cur, live, queue, mem, syncInProgress, stopping,
                 drainTimedOut, restarts>>

\* awaitSyncDrain: a poll finds no block in progress, then syncChain settles.
DrainDone ==
  /\ stopper = "draining"
  /\ ~syncInProgress
  /\ live = "idle" /\ queue = <<>>
  /\ CloseInternal
  /\ UNCHANGED <<nodeVars, dbVars, scanVars, cur, live, queue, mem, syncInProgress, stopping,
                 drainTimedOut, restarts>>

\* Fault: the drain has no time limit.
DrainTimeout_Fault == FALSE /\ UNCHANGED vars

\* Ten seconds pass with a block in progress: the database is closed anyway.
DrainTimeout ==
  /\ stopper = "draining"
  /\ syncInProgress
  /\ CloseInternal
  /\ drainTimedOut' = TRUE
  /\ UNCHANGED <<nodeVars, dbVars, scanVars, cur, live, queue, mem, syncInProgress, stopping,
                 restarts>>

\* Fault: close does not wait for the batch in flight.
CloseDone_Fault ==
  /\ stopper = "closing"
  /\ db' = "closed"
  /\ stopper' = "closed"
  /\ UNCHANGED <<nodeVars, dbVars, scanVars, cur, liveVars, mem, syncInProgress, stopping,
                 drainTimedOut, restarts>>

\* Level's close waits for the batch it is writing.
CloseDone ==
  /\ stopper = "closing"
  /\ write # "pending"
  /\ db' = "closed"
  /\ stopper' = "closed"
  /\ UNCHANGED <<nodeVars, dbVars, scanVars, cur, liveVars, mem, syncInProgress, stopping,
                 drainTimedOut, restarts>>

\* The process dies, at any point, or exits; everything in memory is lost and
\* so is a batch that LevelDB has not written.
Crash ==
  /\ scan # "off"
  /\ restarts < MaxRestarts
  /\ restarts' = restarts + 1
  /\ wire' = <<>>
  /\ db' = "closed" /\ write' = "none" /\ wblocks' = <<>>
  /\ scan' = "off" /\ pending' = <<>>
  /\ live' = "idle" /\ queue' = <<>> /\ subscribed' = FALSE
  /\ mem' = -1 /\ syncInProgress' = FALSE
  /\ stopping' = FALSE /\ stopper' = "none"
  /\ drainTimedOut' = FALSE /\ writeFailed' = FALSE
  /\ UNCHANGED <<chain, reorgs, log, ckpt, nextHeight, bestHeight, cur>>

-----------------------------------------------------------------------------

Next ==
  \/ Mine \/ Reorg
  \/ DbWrite \/ DbFail
  \/ Start \/ LoadProgress \/ BeginScan \/ ResolveHash \/ BlockReady \/ BlockFails
  \/ CommitSettles \/ FlushSettles
  \/ ZmqBlock \/ LiveBegin \/ LiveBlockReady \/ LiveBlockFails \/ LiveCommitSettles
  \/ RequestStop \/ DrainDone \/ DrainTimeout \/ CloseDone
  \/ Crash

Spec == Init /\ [][Next]_vars

\* The event loop resumes what can be resumed, timers fire, and LevelDB
\* settles every batch; blocks and RPC answers are not promised.
StopFairness ==
  /\ WF_vars(DbWrite \/ DbFail)
  /\ WF_vars(CommitSettles \/ FlushSettles \/ LiveCommitSettles \/ LiveBegin)
  /\ WF_vars(DrainDone \/ DrainTimeout)
  /\ WF_vars(CloseDone)

\* Every RPC settles as well: the axios client has a timeout.
RpcFairness ==
  /\ WF_vars(LoadProgress)
  /\ WF_vars(BeginScan)
  /\ WF_vars(ResolveHash)
  /\ WF_vars(BlockReady \/ BlockFails)
  /\ WF_vars(LiveBlockReady \/ LiveBlockFails)

FairSpec == Spec /\ StopFairness /\ RpcFairness

-----------------------------------------------------------------------------
(* Types. *)

NodeTypes ==
  /\ chain \in Seq(Block) /\ Len(chain) > 0
  /\ reorgs \in Nat
  /\ wire \in Seq(Block)

StoreTypes ==
  /\ log \in Seq(Entry)
  /\ ckpt \in Block \cup {NoBlock}
  /\ write \in {"none", "pending", "ok", "error"}
  /\ wblocks \in Seq(Entry)

ScanTypes ==
  /\ scan \in {"off", "load", "tip", "hash", "block", "commit", "flush",
               "watching", "halted", "failed"}
  /\ nextHeight \in Nat
  /\ bestHeight \in Nat
  /\ pending \in Seq(Entry)
  /\ cur \in Block
  /\ mem \in Nat \cup {-1}

LiveTypes ==
  /\ live \in {"idle", "block", "commit"}
  /\ queue \in Seq(Block)

StopTypes ==
  /\ db \in {"open", "closing", "closed"}
  /\ stopper \in {"none", "draining", "closing", "closed"}
  /\ restarts \in Nat

FlagTypes ==
  /\ subscribed \in BOOLEAN
  /\ syncInProgress \in BOOLEAN
  /\ stopping \in BOOLEAN
  /\ drainTimedOut \in BOOLEAN
  /\ writeFailed \in BOOLEAN

TypeOK == NodeTypes /\ StoreTypes /\ ScanTypes /\ LiveTypes /\ StopTypes /\ FlagTypes

-----------------------------------------------------------------------------
(* Safety. *)

\* The scan neither skips nor repeats a height, whatever crashes, stops, failed
\* writes, batches and live blocks came before it: every block it applies is
\* one above the block applied just before (start(), initialSync()).
ScanContiguous ==
  \A i \in DOMAIN log :
    log[i].via = "scan" => log[i].height = IF i = 1 THEN 0 ELSE log[i - 1].height + 1

\* As long as the index was built by the scan alone and the node has not
\* reorganised its chain, the index holds exactly a prefix of the chain: no
\* block is applied twice, skipped or reordered across restarts.
ScanOnlyIsPrefix ==
  (reorgs = 0 /\ \A i \in DOMAIN log : log[i].via = "scan") =>
    /\ Len(log) <= Len(chain)
    /\ \A i \in DOMAIN log : BlockOf(log[i]) = chain[i]

\* While the process scans, or after the scan has stopped or failed, the
\* progress it reports is at most one batch ahead of what a crash preserves.
LossBounded ==
  scan \notin {"off", "load", "watching"} => mem <= ckpt.height + BatchBlocks

\* A stop that did not time out, with no failed write and no rejected scan, has
\* made every block durable that was reported as processed: the drain, which
\* only polls syncInProgress, misses neither a commit nor the last flush.
GracefulStopKeepsWork ==
  (stopper = "closed" /\ ~drainTimedOut /\ ~writeFailed /\ scan # "failed") =>
    mem <= ckpt.height

\* At most one block is being processed at any time, by the scan or by the
\* live chain, and syncInProgress, which the stop relies on, says when.
OneBlockAtATime ==
  /\ ~(scan \in {"load", "tip", "hash", "block", "commit", "flush"} /\ live # "idle")
  /\ syncInProgress <=> (scan \in {"hash", "block", "commit"} \/ live # "idle")

\* Once a stop has closed the database, a block still in flight after a drain
\* timeout no longer changes the index.
StoppedIndexIsFrozen == [][stopper = "closed" => UNCHANGED <<log, ckpt>>]_vars

\* The index is an implementation of the abstract store: batches are atomic,
\* data and checkpoint move together, and the scan resumes at the checkpoint.
Store == INSTANCE IndexStore
  WITH MaxBatch <- BatchBlocks, None <- NoBlock, checkpoint <- ckpt
ImplementsStore == Store!Spec

-----------------------------------------------------------------------------
(* Liveness. *)

\* A requested stop closes the database (or the process dies), even if the
\* block in flight never comes back: nothing is assumed about RPC answers.
StopCloses == stopping ~> (db = "closed")

\* A start ends: in live watching, in a halt or in a rejection.
ScanEnds == (scan = "load") ~> (scan \in {"watching", "halted", "failed", "off"})

\* Every announced block is taken from the chain of live updates.
LiveQueueDrains == (queue # <<>>) ~> (queue = <<>>)

-----------------------------------------------------------------------------
(* What the documents say, and the code does not do. *)

\* Startup reconciliation and resumable sequential scans: every block up to the
\* checkpoint is in the index.
NoGapBelowCheckpoint ==
  \A h \in 0..ckpt.height : \E i \in DOMAIN log : log[i].height = h

\* lastProcessedHeight is the current indexer checkpoint, when nothing is being
\* processed.
StatusIsCheckpoint ==
  (scan \in {"watching", "halted", "failed"} /\ live = "idle") => mem <= ckpt.height

\* Reorgs are handled: a block applied right above another one is its child.
AppliedOnParent ==
  \A i \in 2..Len(log) :
    log[i].height = log[i - 1].height + 1 => log[i].prev = log[i - 1].fork

\* Claimed by docs/RUNBOOK.md:106, "If ZMQ is disabled, the indexer periodically polls new
\* blocks during API usage": without ZMQ too, a running index catches up with the node.
Behind == scan = "watching" /\ ckpt.height < Len(chain) - 1
FollowsWithoutZmq == Behind ~> (~Behind \/ stopping)

-----------------------------------------------------------------------------
(* The inductive invariant behind the safety properties. *)

\* The blocks of a run the scan may append next.
RunAbove(s) ==
  \A i \in DOMAIN s : s[i].via = "scan" /\ s[i].height = ckpt.height + i

\* The node's chain is indexed by height, and has reached the scan's target.
ChainShape ==
  /\ \A i \in DOMAIN chain : chain[i].height = i - 1
  /\ bestHeight < Len(chain)

CheckpointIsLast ==
  ckpt = IF log = <<>> THEN NoBlock ELSE BlockOf(LastOf(log))

\* Where the scan stands with respect to the checkpoint.
ScanPosition ==
  /\ scan = "tip" /\ ~stopping => mem = ckpt.height
  /\ scan \in {"hash", "block"} =>
        /\ nextHeight = ckpt.height + Len(pending) + 1
        /\ nextHeight <= bestHeight
        /\ RunAbove(pending)
        /\ Len(pending) < BatchBlocks
  /\ scan \in {"block", "commit"} => cur.height = nextHeight
  /\ scan = "commit" /\ write = "pending" => LastOf(wblocks).height = nextHeight
  /\ scan = "commit" /\ write = "ok" => ckpt.height = nextHeight

\* What the batch in flight holds.
BatchShape ==
  write = "pending" =>
    /\ Len(wblocks) > 0
    /\ scan # "watching" => RunAbove(wblocks) /\ Len(wblocks) <= BatchBlocks
    /\ scan = "watching" => Len(wblocks) = 1 /\ wblocks[1].via = "live"

\* Who may be running, and what a stop has closed.
Control ==
  /\ (live # "idle" \/ queue # <<>> \/ subscribed) => scan = "watching"
  /\ write # "none" <=> (scan \in {"commit", "flush"} \/ live = "commit")
  /\ write = "pending" => db # "closed"
  /\ db # "open" => stopping \/ scan = "off"
  /\ stopper = "closed" => db = "closed"
  /\ stopper # "none" => stopping
  /\ stopping => stopper # "none"
  /\ stopper = "closing" => db = "closing"
  /\ stopper = "draining" => db = "open"
  /\ scan = "off" => stopper = "none" /\ db = "closed"

IInv ==
  /\ TypeOK
  /\ ChainShape
  /\ CheckpointIsLast
  /\ ScanContiguous
  /\ ScanPosition
  /\ BatchShape
  /\ Control
  /\ OneBlockAtATime

=============================================================================

------------------------------ MODULE PrevoutFetch ------------------------------
(***************************************************************************)
(* How the indexer finds the outputs that the inputs of a block spend      *)
(* (src/infra/addressIndexer.js, fetchPrevouts and what it calls): first   *)
(* its cache, then the pool of worker threads, and inline RPC calls for    *)
(* what the pool did not answer or when there is no pool.  The pool is     *)
(* taken at its interface here (PrevoutWorkerPool models its inside): a    *)
(* task settles with an answer or an error, or never if its worker exits   *)
(* with it or no worker is left; destroying the pool settles all that have *)
(* not with an error.                                                      *)
(*                                                                         *)
(* The indexer may be closed while a fetch is under way: a shutdown waits  *)
(* only ten seconds for the block in progress.                             *)
(*                                                                         *)
(* An outpoint stands for the output it names.  Definitions ending in      *)
(* _Fault are plausible mistakes in the definition that follows them.      *)
(***************************************************************************)
EXTENDS Integers, Sequences, FiniteSets

CONSTANTS
  Outpoint,     \* the outputs inputs may spend
  Transactions, \* the inputs of each transaction of the block, in order
  Concurrency,  \* this.prevoutConcurrency
  MaxPools      \* bound: how many pools may be created

Coinbase == "coinbase"
Null == "null"

ASSUME ConcurrencyAssumption == Concurrency \in Nat \ {0}
ASSUME PoolsAssumption == MaxPools \in Nat
ASSUME OutpointAssumption == Outpoint \cap {Coinbase, Null} = {}
ASSUME TransactionsAssumption == Transactions \in Seq(Seq(Outpoint \cup {Coinbase}))

VARIABLES
  parallel,    \* this.parallelPrevoutEnabled
  pool,        \* this.prevoutWorkerPool: its number, 0 for null
  ready,       \* this.prevoutWorkerPoolReady: "null", "pool", "none"
  disabled,    \* this.prevoutWorkerPoolDisabled
  created,     \* how many pools were created
  alive,       \* the pools that were not destroyed
  broken,      \* history: the initialisation of a pool failed
  cached,      \* this.prevoutCache
  block,       \* the transactions still to fetch for
  phase,       \* where fetchPrevouts is
  results,     \* its results
  payloads,    \* workerIndices: the inputs given to the pool, in order
  replies,     \* what the pool answered for them, by place in payloads
  fallback,    \* fallbackIndices: the inputs to look up inline
  next,        \* nextIndex of runWithConcurrency
  loop,        \* per inline loop, the input whose call it awaits, 0 for none
  hits, calls, \* cacheHits and rpcCalls
  failed,      \* history: the inputs whose last lookup had no output
  closing      \* how far closeInternal is: "open", "destroying", "closed"

poolVars == <<pool, ready, disabled, created, alive, broken>>
inline == <<next, loop>>
local == <<block, phase, results, payloads, replies, fallback, inline, hits, calls, failed>>
fetchVars == <<parallel, poolVars, cached, local, closing>>

vin == IF block = <<>> THEN <<>> ELSE Head(block)
Inputs == DOMAIN vin
Loops == 1..Concurrency

FetchInit ==
  /\ parallel \in BOOLEAN
  /\ pool = 0 /\ ready = "null" /\ disabled = FALSE
  /\ created = 0 /\ alive = {} /\ broken = FALSE
  /\ cached \in SUBSET Outpoint
  /\ block = Transactions /\ phase = "idle"
  /\ results = <<>> /\ payloads = <<>> /\ replies = <<>> /\ fallback = <<>>
  /\ next = 1 /\ loop = [w \in Loops |-> 0]
  /\ hits = 0 /\ calls = 0 /\ failed = {}
  /\ closing = "open"

--------------------------------------------------------------------------------
(* The pool's life. *)

\* ensurePrevoutWorkerPool creates a pool when there is neither one nor a promise
\* of one; closing the indexer does not disable it.
NeedsPool_AlwaysFault == ~disabled /\ parallel /\ Concurrency > 1
NeedsPool == ~disabled /\ parallel /\ Concurrency > 1 /\ ready = "null"

PoolStarts ==
  /\ ready' = "pool" /\ pool' = created'
  /\ alive' = alive \cup {pool'}
  /\ UNCHANGED <<disabled, broken>>

\* A thread cannot be created; the threads before it, if any, go on.
PoolFails ==
  /\ ready' = "none" /\ pool' = 0
  /\ disabled' = TRUE /\ broken' = TRUE
  /\ alive' \in {alive, alive \cup {created'}}

\* init() creates the threads without waiting for them, so its promise has settled
\* before the event loop serves anything else.
GetPool ==
  IF NeedsPool
    THEN /\ created < MaxPools /\ created' = created + 1
         /\ PoolStarts \/ PoolFails
    ELSE UNCHANGED poolVars

\* The end of destroyPrevoutWorkerPool, after its await.
ForgetPool == pool' = 0 /\ ready' = "null"

--------------------------------------------------------------------------------
(* fetchPrevouts. *)

\* The one sequence of these inputs in their order.
InOrder(S) ==
  {s \in [1..Cardinality(S) -> S] : \A i, j \in DOMAIN s : i < j => s[i] < s[j]}

\* Its first part: the pool, and the loop over the inputs. Cached outputs are
\* taken, the others are given to the pool or kept for the inline lookup.
Begin ==
  LET ins == Head(block)
      hit(i) == ins[i] \in cached
      usePool == ~disabled' /\ ready' = "pool"
  IN
  /\ phase = "idle" /\ block # <<>>
  /\ GetPool
  /\ results' = [i \in DOMAIN ins |-> IF hit(i) THEN ins[i] ELSE Null]
  /\ hits' = Cardinality({i \in DOMAIN ins : hit(i)})
  /\ \E missing \in InOrder({i \in DOMAIN ins : ins[i] # Coinbase /\ ~hit(i)}) :
       /\ payloads' = IF usePool THEN missing ELSE <<>>
       /\ fallback' = IF usePool THEN <<>> ELSE missing
  /\ replies' = [i \in DOMAIN payloads' |-> "none"]
  /\ phase' = IF payloads' # <<>> THEN "workers" ELSE "inline"
  /\ UNCHANGED <<parallel, cached, block, inline, calls, failed, closing>>

Unsettled == {i \in DOMAIN replies : replies[i] \in {"none", "lost"}}

\* A task settles: with its output, with none, or with an error (always, when the
\* pool has been destroyed). One that was lost waits for that.
WorkerSettles(i) ==
  /\ phase = "workers" /\ i \in Unsettled
  /\ \/ pool \in alive /\ replies[i] = "none"
        /\ \E answer \in {"output", "absent", "error"} :
             replies' = [replies EXCEPT ![i] = answer]
     \/ pool \notin alive /\ replies' = [replies EXCEPT ![i] = "error"]
  /\ UNCHANGED <<parallel, poolVars, cached, block, phase, results, payloads, fallback,
                 inline, hits, calls, failed, closing>>

\* A task has lost its worker, or the pool its last one: nobody will answer it.
WorkerLoses(i) ==
  /\ phase = "workers" /\ i \in DOMAIN replies /\ replies[i] = "none" /\ pool \in alive
  /\ replies' = [replies EXCEPT ![i] = "lost"]
  /\ UNCHANGED <<parallel, poolVars, cached, block, phase, results, payloads, fallback,
                 inline, hits, calls, failed, closing>>

\* The place in the results a reply belongs to.
Slot_PositionFault(i) == i
Slot(i) == payloads[i]

Answered == {i \in DOMAIN replies : replies[i] # "error"}

\* A task that failed is not counted: the inline lookup counts it.
Counted_AllFault == DOMAIN replies
Counted == Answered

\* Every task has settled (Promise.all in fetchMany).
WorkersDone ==
  LET found == {i \in DOMAIN replies : replies[i] = "output"} IN
  /\ phase = "workers" /\ Unsettled = {}
  /\ results' = [j \in Inputs |->
       IF \E i \in found : Slot(i) = j
         THEN vin[payloads[CHOOSE i \in found : Slot(i) = j]]
         ELSE results[j]]
  /\ cached' = cached \cup {vin[payloads[i]] : i \in found}
  /\ failed' = {payloads[i] : i \in {i \in DOMAIN replies : replies[i] = "absent"}}
  /\ \E again \in InOrder({payloads[i] : i \in DOMAIN replies \ Answered}) :
       fallback' = fallback \o again
  /\ calls' = calls + Cardinality(Counted)
  /\ phase' = "inline"
  /\ UNCHANGED <<parallel, poolVars, block, payloads, replies, inline, hits, closing>>

\* fetchMany rejects: the pool is destroyed and disabled, and every input it had
\* is looked up inline.
PoolRejects ==
  /\ phase = "workers"
  /\ phase' = "failing"
  /\ alive' = alive \ {pool}
  /\ UNCHANGED <<parallel, pool, ready, disabled, created, broken, cached, block, results,
                 payloads, replies, fallback, inline, hits, calls, failed, closing>>

FailureHandled ==
  /\ phase = "failing"
  /\ ForgetPool /\ disabled' = TRUE
  /\ fallback' = fallback \o payloads
  /\ phase' = "inline"
  /\ UNCHANGED <<parallel, created, alive, broken, cached, block, results, payloads,
                 replies, inline, hits, calls, failed, closing>>

--------------------------------------------------------------------------------
(* fetchPrevoutsInline over runWithConcurrency.                                *)

\* How many loops run: one by one when a pool exists, in parallel without it.
UseParallel == parallel /\ Concurrency > 1 /\ (pool = 0 \/ disabled)

\* A loop takes the next input; its call is made unless it is cached by now.
Advance == next + 1

Take(w) ==
  LET j == fallback[next] IN
  /\ phase \in {"inline", "parallel", "sequential"}
  /\ next <= Len(fallback) /\ loop[w] = 0
  /\ phase' = IF phase # "inline" THEN phase
              ELSE IF UseParallel THEN "parallel" ELSE "sequential"
  /\ phase' = "sequential" => w = 1
  /\ next' = Advance
  /\ IF vin[j] \in cached
       THEN /\ results' = [results EXCEPT ![j] = vin[j]]
            /\ hits' = hits + 1
            /\ UNCHANGED <<loop, calls>>
       ELSE /\ loop' = [loop EXCEPT ![w] = j]
            /\ calls' = calls + 1
            /\ UNCHANGED <<results, hits>>
  /\ UNCHANGED <<parallel, poolVars, cached, block, payloads, replies, fallback, failed,
                 closing>>

\* The call of a loop returns the output, returns without it, or fails.
InlineAnswer(w) ==
  LET j == loop[w] IN
  /\ j # 0
  /\ loop' = [loop EXCEPT ![w] = 0]
  /\ \/ /\ results' = [results EXCEPT ![j] = vin[j]]
        /\ cached' = cached \cup {vin[j]}
        /\ UNCHANGED failed
     \/ /\ results' = [results EXCEPT ![j] = Null]
        /\ failed' = failed \cup {j}
        /\ UNCHANGED cached
  /\ UNCHANGED <<parallel, poolVars, block, phase, payloads, replies, fallback, next, hits,
                 calls, closing>>

\* Every loop has ended (Promise.all in runWithConcurrency).
AllLooped_StrictFault == next > Len(fallback) + 1 /\ \A w \in Loops : loop[w] = 0
AllLooped == next > Len(fallback) /\ \A w \in Loops : loop[w] = 0

InlineDone ==
  /\ phase \in {"inline", "parallel", "sequential"}
  /\ AllLooped
  /\ phase' = "done"
  /\ UNCHANGED <<parallel, poolVars, cached, block, results, payloads, replies, fallback,
                 inline, hits, calls, failed, closing>>

\* Each call has an index of its own (let nextIndex in runWithConcurrency).
OwnIndex == next' = 1

\* processBlockHash goes on with the next transaction, whether or not the indexer
\* is being stopped.
Return ==
  /\ phase = "done"
  /\ block' = Tail(block) /\ phase' = "idle"
  /\ results' = <<>> /\ payloads' = <<>> /\ replies' = <<>> /\ fallback' = <<>>
  /\ OwnIndex /\ hits' = 0 /\ calls' = 0 /\ failed' = {}
  /\ UNCHANGED <<parallel, poolVars, cached, loop, closing>>

--------------------------------------------------------------------------------
(* The rest of the indexer, and time. *)

\* closeInternal destroys the pool, waits for its threads, and clears the cache.
CloseBegins ==
  /\ closing = "open" /\ pool # 0 /\ closing' = "destroying"
  /\ alive' = alive \ {pool}
  /\ UNCHANGED <<parallel, pool, ready, disabled, created, broken, cached, local>>

\* Without a pool there is nothing to wait for.
CloseEnds ==
  /\ closing = "destroying" \/ (closing = "open" /\ pool = 0)
  /\ closing' = "closed"
  /\ ForgetPool
  /\ cached' = {}
  /\ UNCHANGED <<parallel, disabled, created, alive, broken, local>>

\* An entry expires or makes room for another.
Expire(o) ==
  /\ o \in cached /\ cached' = cached \ {o}
  /\ UNCHANGED <<parallel, poolVars, local, closing>>

FetchStep ==
  \/ Begin
  \/ \E i \in DOMAIN replies : WorkerSettles(i)
  \/ WorkersDone \/ FailureHandled
  \/ \E w \in Loops : Take(w) \/ InlineAnswer(w)
  \/ InlineDone \/ Return

FetchNext ==
  \/ FetchStep
  \/ \E i \in DOMAIN replies : WorkerLoses(i)
  \/ PoolRejects
  \/ CloseBegins \/ CloseEnds
  \/ \E o \in Outpoint : Expire(o)

FetchSpec == FetchInit /\ [][FetchNext]_fetchVars

\* Every call is answered or times out, every thread that lives reports, and the
\* event loop serves what is ready. Nothing has to fail, to expire or to be closed,
\* and a task that was lost in a living pool need not settle.
FetchFairSpec == FetchSpec /\ WF_fetchVars(FetchStep)

--------------------------------------------------------------------------------
(* Properties. *)

\* Every variable has its type, and the pool that is used is one that was created.
FetchTypeOK ==
  /\ parallel \in BOOLEAN /\ disabled \in BOOLEAN /\ broken \in BOOLEAN
  /\ pool \in 0..created /\ created \in 0..MaxPools /\ alive \subseteq 1..created
  /\ ready \in {"null", "pool", "none"}
  /\ cached \subseteq Outpoint /\ failed \subseteq Inputs
  /\ phase \in {"idle", "workers", "failing", "inline", "parallel",
                "sequential", "done"}
  /\ next \in 1..(Len(fallback) + 1)
  /\ \A w \in Loops : loop[w] \in Inputs \cup {0}
  /\ closing \in {"open", "destroying", "closed"}

\* Whatever mix of cache, pool and inline calls served it, each input has the
\* output it spends, and none only if it is a coinbase or its last lookup failed
\* (results, workerIndices and fallbackIndices in fetchPrevouts).
EachInputItsOutput ==
  phase = "done" => \A i \in Inputs :
    \/ results[i] = vin[i]
    \/ results[i] = Null /\ (vin[i] = Coinbase \/ i \in failed)

\* Each input that spends an output is counted exactly once, as a cache hit or as
\* an RPC call, retries after a worker's error included (addressIndexer.js:1173
\* to 1221): the source label of the duration metric depends on it.
CountedOnce ==
  phase = "done" => hits + calls = Cardinality({i \in Inputs : vin[i] # Coinbase})

\* The loops of runWithConcurrency never look up the same input twice at a time.
NoInputTwice ==
  \A v, w \in Loops : v # w /\ loop[v] # 0 => loop[v] # loop[w]

\* No two lookups of one input overlap and none is left out of the count, on any of the
\* three ways (addressIndexer.js:41-58, 1166-1225).
FetchInvariant ==
  /\ FetchTypeOK
  /\ CountedOnce
  /\ NoInputTwice

\* A pool whose threads run is the one the indexer holds, so that closing it
\* reaches every thread, unless a pool failed half-way through its start.
NoOrphanPool == ~broken => alive \subseteq {pool}

\* Nobody will settle a task that the fetch awaits.
Stuck == phase = "workers" /\ pool \in alive /\ \E i \in DOMAIN replies : replies[i] = "lost"

\* The fetch of the whole block comes to an end, tasks and calls failing and the
\* indexer closing at any point of it. Only a task lost in a living pool stops it, and
\* destroying the pool sets it going again (addressIndexer.js:602-622, 1139-1282).
BlockDone == []<>(block = <<>> \/ Stuck)

\* Claimed by docs/design/address-explorer.md:107: a shutdown stops fetching.  A
\* closed indexer has no worker threads.
ClosedHasNoThreads == closing = "closed" => alive = {}
================================================================================

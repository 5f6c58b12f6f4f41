------------------------------ MODULE MempoolView ------------------------------
(***************************************************************************)
(* The snapshot behind the mempool page (loadMempoolData and what it calls *)
(* in src/services/mempoolService.js).  Two calls go to the node at once   *)
(* and transactions come and go between the moments at which it answers    *)
(* them.  A transaction is a fee rate, which may be missing, and the time  *)
(* at which it came, 0 if that is missing; fee and size are abstracted to  *)
(* the rate they give.  A median is doubled to keep it whole.              *)
(*                                                                         *)
(* Definitions ending in _Fault are plausible mistakes in the definition   *)
(* that follows them.                                                      *)
(***************************************************************************)
EXTENDS Integers, Sequences, FiniteSets

CONSTANTS
  Tx,            \* transactions, numbers: the order of the node's answer
  Edges,         \* the lower ends of FEE_BUCKETS, ascending, the first one 0
  MaxRate,       \* bound: fee rates
  MaxEntryTime,  \* bound: the times of transactions
  Clock,         \* the server's clock, which the node's may be ahead of
  MaxChanges     \* bound: transactions that come or go

ASSUME MempoolAssumption ==
  /\ Tx \subseteq Nat /\ IsFiniteSet(Tx)
  /\ Edges \in Seq(Nat) /\ Edges # <<>> /\ Edges[1] = 0
  /\ \A i, j \in DOMAIN Edges : i < j => Edges[i] < Edges[j]
  /\ MaxRate \in Nat /\ MaxEntryTime \in Nat /\ Clock \in 1..MaxEntryTime /\ MaxChanges \in Nat

NoRate == -1
NoMedian == -1
Details == [rate : NoRate..MaxRate, time : 0..MaxEntryTime]

VARIABLES
  mempool,     \* the node's mempool: its transactions and their details
  changes,     \* transactions that came or went
  loadPhase,   \* "idle", "loading" or "loaded"
  loadCalls,   \* the calls the node has not answered
  infoSize,    \* getmempoolinfo's answer
  rawEntries,  \* getrawmempool's answer: a function on the transactions
  snapshot     \* what the cache is given

mempoolVars == <<mempool, changes, loadPhase, loadCalls, infoSize, rawEntries, snapshot>>

NoEntries == <<>>    \* also the function on no transaction

MempoolInit ==
  /\ \E s \in SUBSET Tx : mempool \in [s -> Details]
  /\ changes = 0 /\ loadPhase = "idle" /\ loadCalls = {}
  /\ infoSize = 0 /\ rawEntries = NoEntries /\ snapshot = NoEntries

Comes(t) ==
  /\ changes < MaxChanges /\ t \notin DOMAIN mempool
  /\ \E d \in Details :
       mempool' = [u \in DOMAIN mempool \cup {t} |-> IF u = t THEN d ELSE mempool[u]]
  /\ changes' = changes + 1
  /\ UNCHANGED <<loadPhase, loadCalls, infoSize, rawEntries, snapshot>>

Goes(t) ==
  /\ changes < MaxChanges /\ t \in DOMAIN mempool
  /\ mempool' = [u \in DOMAIN mempool \ {t} |-> mempool[u]]
  /\ changes' = changes + 1
  /\ UNCHANGED <<loadPhase, loadCalls, infoSize, rawEntries, snapshot>>

--------------------------------------------------------------------------------
(* loadMempoolData *)

\* Fault: the comparison is forgotten.
Ordered_AsGivenFault(f, key) == \A i, j \in DOMAIN f : i < j => f[i] < f[j]

\* By the keys, and those of the same key as the node gave them: Array.prototype.sort is
\* stable.
Ordered(f, key) ==
  \A i, j \in DOMAIN f : i < j =>
    key[f[i]] < key[f[j]] \/ (key[f[i]] = key[f[j]] /\ f[i] < f[j])

\* sort()
Sorted(T, key) == CHOOSE f \in [1..Cardinality(T) -> T] : Ordered(f, key)

\* feerate is not null.
Rated(entries) == {t \in DOMAIN entries : entries[t].rate # NoRate}

\* buckets.find: the first bucket that takes the rate.
InBucket(rate, i) == rate >= Edges[i] /\ (i = Len(Edges) \/ rate < Edges[i + 1])

Takes(i, rate) == InBucket(rate, i) /\ \A j \in 1..(i - 1) : ~InBucket(rate, j)

Histogram(entries) ==
  [i \in DOMAIN Edges |-> Cardinality({t \in Rated(entries) : Takes(i, entries[t].rate)})]

\* rates[middle] counts from 0.
Median(entries) ==
  LET sorted == Sorted(Rated(entries), [t \in Rated(entries) |-> entries[t].rate])
      n == Cardinality(Rated(entries))
      m == n \div 2 + 1
      rate(i) == entries[sorted[i]].rate
  IN  IF n = 0 THEN NoMedian
      ELSE IF n % 2 = 0 THEN rate(m - 1) + rate(m) ELSE 2 * rate(m)

\* ageSeconds: 0 for a time still to come; without a time it counts as infinite.
Age(e) == IF e.time = 0 THEN MaxEntryTime ELSE IF e.time > Clock THEN 0 ELSE Clock - e.time

Entries(answer) ==
  LET sorted == Sorted(DOMAIN answer, [t \in DOMAIN answer |-> Age(answer[t])])
  IN  [i \in 1..Cardinality(DOMAIN answer) |->
         [txid |-> sorted[i], rate |-> answer[sorted[i]].rate, time |-> answer[sorted[i]].time]]

Load ==
  /\ loadPhase = "idle" /\ loadPhase' = "loading" /\ loadCalls' = {"info", "entries"}
  /\ UNCHANGED <<mempool, changes, infoSize, rawEntries, snapshot>>

GotInfo ==
  /\ "info" \in loadCalls /\ loadCalls' = loadCalls \ {"info"}
  /\ infoSize' = Cardinality(DOMAIN mempool)
  /\ UNCHANGED <<mempool, changes, loadPhase, rawEntries, snapshot>>

GotEntries ==
  /\ "entries" \in loadCalls /\ loadCalls' = loadCalls \ {"entries"}
  /\ rawEntries' = mempool
  /\ UNCHANGED <<mempool, changes, loadPhase, infoSize, snapshot>>

Build ==
  /\ loadPhase = "loading" /\ loadCalls = {} /\ loadPhase' = "loaded"
  /\ snapshot' = [txCount |-> infoSize, medianFee |-> Median(rawEntries),
                  histogram |-> Histogram(rawEntries), entries |-> Entries(rawEntries)]
  /\ UNCHANGED <<mempool, changes, loadCalls, infoSize, rawEntries>>

MempoolNext ==
  \/ \E t \in Tx : Comes(t) \/ Goes(t)
  \/ Load \/ GotInfo \/ GotEntries \/ Build

MempoolSpec == MempoolInit /\ [][MempoolNext]_mempoolVars

--------------------------------------------------------------------------------
(* Properties. *)

Loaded == loadPhase = "loaded"
RatedTx == Rated(rawEntries)
Rate(t) == rawEntries[t].rate

MempoolTypeOK ==
  /\ loadPhase \in {"idle", "loading", "loaded"} /\ loadCalls \subseteq {"info", "entries"}
  /\ DOMAIN mempool \subseteq Tx /\ infoSize \in 0..Cardinality(Tx)
  /\ Loaded => /\ snapshot.medianFee \in NoMedian..(2 * MaxRate)
               /\ snapshot.histogram \in [DOMAIN Edges -> Nat]

\* Every transaction with a fee rate is in one bucket, the one whose label has its rate,
\* rates that are an edge included (mempoolService.js:54-72).
BucketsPartition ==
  Loaded => \A i \in DOMAIN Edges :
    snapshot.histogram[i]
      = Cardinality({t \in RatedTx :
          Edges[i] <= Rate(t) /\ \A j \in DOMAIN Edges : j > i => Rate(t) < Edges[j]})

\* The median has as many rates below it as above it, and lies midway between the two
\* middle ones of an even number (mempoolService.js:78-92).
MedianIsMiddle ==
  Loaded =>
    /\ snapshot.medianFee = NoMedian <=> RatedTx = {}
    /\ RatedTx # {} =>
         LET m == snapshot.medianFee
             n == Cardinality(RatedTx)
         IN  /\ 2 * Cardinality({t \in RatedTx : 2 * Rate(t) < m}) <= n
             /\ 2 * Cardinality({t \in RatedTx : 2 * Rate(t) > m}) <= n
             /\ \E t, u \in RatedTx :
                  /\ Rate(t) + Rate(u) = m
                  /\ \A v \in RatedTx \ {t, u} : ~(Rate(t) < Rate(v) /\ Rate(v) < Rate(u))

\* The page's list has every transaction of the answer once, the youngest first, what the
\* server's clock has not reached among them, and those without a time at the end
\* (mempoolService.js:101-121).
YoungestFirst ==
  Loaded => LET es == snapshot.entries
            IN  /\ Len(es) = Cardinality(DOMAIN rawEntries)
                /\ {es[i].txid : i \in DOMAIN es} = DOMAIN rawEntries
                /\ \A i, j \in DOMAIN es : i < j /\ es[j].time # 0 =>
                     es[i].time >= es[j].time \/ es[i].time >= Clock

\* What a snapshot says of the answer it was made from.
SnapshotInvariant ==
  /\ MempoolTypeOK
  /\ BucketsPartition
  /\ MedianIsMiddle
  /\ YoungestFirst

\* Claimed by docs/API.md:153, "a snapshot of the mempool (summary + histogram + recent
\* transactions)": the count is that of the transactions listed.
SummaryMatchesEntries == Loaded => snapshot.txCount = Len(snapshot.entries)
================================================================================

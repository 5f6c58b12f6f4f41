----------------------------- MODULE AddressLedger -----------------------------
(***************************************************************************)
(* What the initial scan writes for a block (src/infra/addressIndexer.js:  *)
(* processBlockHash, getSummaryForMutation, applyOutbound): unspent        *)
(* outputs, history rows and address summaries, collected over a batch of  *)
(* blocks with the batch's summary cache and committed at once.  Blocks    *)
(* come in order, and after a crash again from the checkpoint: that is     *)
(* what AddressIndexer establishes.                                        *)
(*                                                                         *)
(* The code awaits the database at every output and input, so each is a    *)
(* step.  LevelDB is a function from keys to values.  A transaction is     *)
(* known by its height and position; an output pays at most one address.   *)
(*                                                                         *)
(* Definitions ending in _Fault are plausible mistakes in the definition   *)
(* that follows them.                                                      *)
(***************************************************************************)
EXTENDS Integers, Sequences, FiniteSets, FiniteSetsExt, SequencesExt

CONSTANTS
  Address,
  NoAddress,    \* an output without an address, such as OP_RETURN
  Chains,       \* the chains the node may have
  BatchBlocks   \* ADDRESS_INDEXER_BATCH_BLOCKS

VARIABLES
  chain,       \* the node's blocks, by height + 1
  db,          \* LevelDB
  operations,  \* pendingOperations, and then those of the block in progress
  blocks,      \* initialSync: pendingBlocks
  cache,       \* initialSync: batchSummaryCache, a function on addresses
  next,        \* initialSync: nextHeight
  tx,          \* processBlockHash: the transaction, 0 before the first
  io,          \* how many of its outputs and inputs have been handled
  seen,        \* addressesSeen, of the transaction
  touched,     \* localTouched, of the block: a Set, in the order of insertion
  missed       \* history: the inputs whose prevout could not be fetched

scanVars == <<operations, blocks, cache, next>>
blockVars == <<tx, io, seen, touched>>
vars == <<chain, db, scanVars, blockVars, missed>>

--------------------------------------------------------------------------------
(* The chain. *)

OutPoint(txid, n) == [txid |-> txid, vout |-> n]

\* Transactions are known by their positions, outputs by their outpoints.
Txids(c) == UNION {{<<h - 1, i>> : i \in DOMAIN c[h]} : h \in DOMAIN c}
TxAt(c, txid) == c[txid[1] + 1][txid[2]]

Outputs(c) == UNION {{OutPoint(t, n - 1) : n \in DOMAIN TxAt(c, t).vout} : t \in Txids(c)}
Inputs(c) ==
  UNION {{[txid |-> t, index |-> n - 1] : n \in DOMAIN TxAt(c, t).vin} : t \in Txids(c)}

\* The output, and the outpoint that an input spends.
OutputAt(c, p) == TxAt(c, p.txid).vout[p.vout + 1]
Prevout(c, q) == TxAt(c, q.txid).vin[q.index + 1]

Transactions ==
  [vin  : Seq([txid : Nat \X Nat, vout : Nat]),
   vout : Seq([address : Address \cup {NoAddress}, value : Nat])]

Earlier(s, t) == s[1] < t[1] \/ (s[1] = t[1] /\ s[2] < t[2])

\* Consensus: an input spends an output of an earlier transaction, and no output is
\* spent twice.
IsChain(c) ==
  /\ c \in Seq(Seq(Transactions))
  /\ \A q \in Inputs(c) : Prevout(c, q) \in Outputs(c) /\ Earlier(Prevout(c, q).txid, q.txid)
  /\ \A q, r \in Inputs(c) : Prevout(c, q) = Prevout(c, r) => q = r

ASSUME LedgerAssumption ==
  /\ BatchBlocks \in Nat \ {0}
  /\ NoAddress \notin Address
  /\ \A c \in Chains : IsChain(c)

--------------------------------------------------------------------------------
(* LevelDB *)

Empty == [x \in {} |-> 0]
Extend(f, k, v) == [x \in DOMAIN f \cup {k} |-> IF x = k THEN v ELSE f[x]]

\* Fault: the key of a coin does not name its output.
UtxoKey_Fault(a, txid, n) == <<"utxo", a, txid>>

UtxoKey(a, txid, n) == <<"utxo", a, txid, n>>

\* Fault: the key of a history row does not name the transaction.
TxKey_Fault(a, h, direction, index, txid) == <<"tx", a, h, direction, index, <<h, 0>>>>

TxKey(a, h, direction, index, txid) == <<"tx", a, h, direction, index, txid>>
SummaryKey(a) == <<"addr", a>>
MetaKey == <<"meta", "last_processed_height">>

Put(k, v) == [type |-> "put", key |-> k, value |-> v]
Del(k) == [type |-> "del", key |-> k, value |-> 0]

Keys(ops) == {ops[i].key : i \in DOMAIN ops}
LastFor(ops, k) == ops[Max({i \in DOMAIN ops : ops[i].key = k})]

\* A batch is atomic, and of its operations on a key the last one counts.
Written(d, ops) ==
  [k \in {k \in DOMAIN d \cup Keys(ops) : k \in Keys(ops) => LastFor(ops, k).type = "put"} |->
     IF k \in Keys(ops) THEN LastFor(ops, k).value ELSE d[k]]

\* The height to go on from, loadExistingProgress().
Resume == IF MetaKey \in DOMAIN db THEN db[MetaKey] + 1 ELSE 0

Init ==
  /\ chain \in Chains
  /\ db = Empty
  /\ operations = <<>> /\ blocks = 0 /\ cache = Empty /\ next = 0
  /\ tx = 0 /\ io = 0 /\ seen = {} /\ touched = <<>>
  /\ missed = {}

--------------------------------------------------------------------------------
(* processBlockHash *)

LowerOf(x, y) == IF x < y THEN x ELSE y
HigherOf(x, y) == IF x < y THEN y ELSE x

\* createSummary()
NewSummary(h) ==
  [first |-> h, last |-> h, received |-> 0, sent |-> 0, balance |-> 0,
   txCount |-> 0, utxoCount |-> 0, utxoValue |-> 0]

\* sanitizeSummary()
Sanitize(s) ==
  [s EXCEPT !.balance = HigherOf(0, @), !.utxoCount = HigherOf(0, @),
            !.utxoValue = HigherOf(0, @)]

\* The summary in the database.
Stored(a, h) ==
  IF SummaryKey(a) \in DOMAIN db
  THEN [db[SummaryKey(a)] EXCEPT !.first = LowerOf(@, h), !.last = HigherOf(@, h)]
  ELSE NewSummary(h)

\* Fault: the summary in the database is used although the batch has a newer one.
Summary_Fault(a, h) ==
  IF SummaryKey(a) \in DOMAIN db \/ a \notin DOMAIN cache THEN Stored(a, h) ELSE cache[a]

\* getSummaryForMutation()
Summary(a, h) == IF a \in DOMAIN cache THEN cache[a] ELSE Stored(a, h)

Counted(a) == IF a \in seen THEN 0 ELSE 1

\* A summary with one more output of the address, or, in applyOutbound(), input.
WithOutput(s, h, value, counted) ==
  [s EXCEPT !.txCount = @ + counted, !.first = LowerOf(@, h), !.last = HigherOf(@, h),
            !.received = @ + value, !.balance = @ + value,
            !.utxoCount = @ + 1, !.utxoValue = @ + value]
WithInput(s, h, value, counted) ==
  [s EXCEPT !.txCount = @ + counted, !.last = HigherOf(@, h),
            !.sent = @ + value, !.balance = @ - value,
            !.utxoCount = HigherOf(0, @ - 1), !.utxoValue = HigherOf(0, @ - value)]

Block == chain[next + 1]
Vout == Block[tx].vout
Vin == Block[tx].vin
Txid == <<next, tx>>

\* pendingBlocks >= batchBlockCount: the batch must be committed first.
Full == blocks >= BatchBlocks

\* Between the transactions of a block.
Handled == IF tx = 0 THEN TRUE ELSE io = Len(Vout) + Len(Vin)
Between == ~Full /\ next < Len(chain) /\ Handled

NextTransaction ==
  /\ Between /\ tx < Len(Block)
  /\ tx' = tx + 1 /\ io' = 0 /\ seen' = {}
  /\ UNCHANGED <<chain, db, scanVars, touched, missed>>

\* Two operations and the new summary of an address.
Book(a, coin, row, summary) ==
  /\ operations' = operations \o <<coin, row>>
  /\ cache' = Extend(cache, a, summary)
  /\ seen' = seen \cup {a}
  /\ touched' = IF a \in Range(touched) THEN touched ELSE Append(touched, a)

\* An output: the coin and its history row.
Inbound ==
  /\ tx > 0 /\ io < Len(Vout)
  /\ LET o == Vout[io + 1]
         a == o.address
     IN  \/ a = NoAddress /\ UNCHANGED <<operations, cache, seen, touched>>
         \/ /\ a # NoAddress
            /\ Book(a, Put(UtxoKey(a, Txid, io), [value |-> o.value, height |-> next]),
                    Put(TxKey(a, next, "in", io, Txid), o.value),
                    WithOutput(Summary(a, next), next, o.value, Counted(a)))
  /\ io' = io + 1
  /\ UNCHANGED <<chain, db, blocks, next, tx, missed>>

\* An input, applyOutbound(): skipped when its prevout could not be fetched.
Outbound ==
  /\ tx > 0 /\ Len(Vout) <= io /\ io < Len(Vout) + Len(Vin)
  /\ LET n == io - Len(Vout)
         p == Vin[n + 1]
         o == OutputAt(chain, p)
         a == o.address
     IN  \/ /\ missed' = missed \cup {[txid |-> Txid, index |-> n]}
            /\ UNCHANGED <<operations, cache, seen, touched>>
         \/ a = NoAddress /\ UNCHANGED <<operations, cache, seen, touched, missed>>
         \/ /\ a # NoAddress
            /\ Book(a, Del(UtxoKey(a, p.txid, p.vout)),
                    Put(TxKey(a, next, "out", p.vout, Txid), o.value),
                    WithInput(Summary(a, next), next, o.value, Counted(a)))
            /\ UNCHANGED missed
  /\ io' = io + 1
  /\ UNCHANGED <<chain, db, blocks, next, tx>>

\* The summaries that the block changed, and the progress.
EndBlock ==
  /\ Between /\ tx = Len(Block)
  /\ operations' = operations
       \o [i \in DOMAIN touched |-> Put(SummaryKey(touched[i]), Sanitize(cache[touched[i]]))]
       \o <<Put(MetaKey, next)>>
  /\ blocks' = blocks + 1 /\ next' = next + 1
  /\ tx' = 0 /\ io' = 0 /\ seen' = {} /\ touched' = <<>>
  /\ UNCHANGED <<chain, db, cache, missed>>

\* flushPending(): a full batch, or what there is when the scan ends or stops.
FlushPending ==
  /\ blocks > 0 /\ tx = 0
  /\ db' = Written(db, operations)
  /\ operations' = <<>> /\ blocks' = 0 /\ cache' = Empty
  /\ UNCHANGED <<chain, next, blockVars, missed>>

\* The process dies, or the scan rejects and the process is started again.
Restart ==
  /\ operations' = <<>> /\ blocks' = 0 /\ cache' = Empty /\ next' = Resume
  /\ tx' = 0 /\ io' = 0 /\ seen' = {} /\ touched' = <<>>
  /\ missed' = {q \in missed : q.txid[1] < Resume}
  /\ UNCHANGED <<chain, db>>

Next == NextTransaction \/ Inbound \/ Outbound \/ EndBlock \/ FlushPending \/ Restart

Spec == Init /\ [][Next]_vars

--------------------------------------------------------------------------------
(* What the database d should say of the outputs R and the inputs S of the chain c. *)

Received(c, a, R) == {p \in R : OutputAt(c, p).address = a}
Sent(c, a, S) == {q \in S : OutputAt(c, Prevout(c, q)).address = a}
Spent(c, a, S) == {Prevout(c, q) : q \in Sent(c, a, S)}
Unspent(c, a, R, S) == Received(c, a, R) \ Spent(c, a, S)

\* The value of outputs is the number of their satoshis.
Satoshis(c, P) == UNION {{<<p, n>> : n \in 1..OutputAt(c, p).value} : p \in P}
ValueOf(c, P) == Cardinality(Satoshis(c, P))

TxidsOf(c, a, R, S) == {p.txid : p \in Received(c, a, R)} \cup {q.txid : q \in Sent(c, a, S)}
Heights(T) == {t[1] : t \in T}

\* The summary of an address that has transactions.
SummaryOf(c, a, R, S) ==
  [first |-> Min(Heights(TxidsOf(c, a, R, S))), last |-> Max(Heights(TxidsOf(c, a, R, S))),
   received |-> ValueOf(c, Received(c, a, R)), sent |-> ValueOf(c, Spent(c, a, S)),
   balance |-> ValueOf(c, Received(c, a, R)) - ValueOf(c, Spent(c, a, S)),
   txCount |-> Cardinality(TxidsOf(c, a, R, S)),
   utxoCount |-> Cardinality(Unspent(c, a, R, S)), utxoValue |-> ValueOf(c, Unspent(c, a, R, S))]

SummaryMatches(c, d, a, R, S) ==
  IF TxidsOf(c, a, R, S) = {} THEN SummaryKey(a) \notin DOMAIN d
  ELSE SummaryKey(a) \in DOMAIN d /\ d[SummaryKey(a)] = SummaryOf(c, a, R, S)

RowsOf(d, kind, a) == {k \in DOMAIN d : k[1] = kind /\ k[2] = a}

CoinsMatch(c, d, a, R, S) ==
  /\ RowsOf(d, "utxo", a) = {UtxoKey(a, p.txid, p.vout) : p \in Unspent(c, a, R, S)}
  /\ \A p \in Unspent(c, a, R, S) :
       d[UtxoKey(a, p.txid, p.vout)] = [value |-> OutputAt(c, p).value, height |-> p.txid[1]]

\* The outputs up to the checkpoint, and the inputs among them that were resolved.
Indexed == {p \in Outputs(chain) : p.txid[1] < Resume}
Resolved == {q \in Inputs(chain) \ missed : q.txid[1] < Resume}

--------------------------------------------------------------------------------
(* Properties. *)

Summaries ==
  [first : Nat, last : Nat, received : Nat, sent : Nat, balance : Nat,
   txCount : Nat, utxoCount : Nat, utxoValue : Nat]

TypeOK ==
  /\ blocks \in 0..BatchBlocks /\ next \in 0..Len(chain)
  /\ tx \in Nat /\ io \in Nat
  /\ DOMAIN cache \subseteq Address
  /\ \A a \in DOMAIN cache : cache[a] \in Summaries
  /\ seen \subseteq Range(touched) /\ Range(touched) \subseteq DOMAIN cache
  /\ missed \subseteq Inputs(chain)

\* The unspent outputs stored for an address are exactly those of the chain up
\* to the checkpoint whose spending input was not resolved: no batch, crash or
\* spend within a block loses or keeps another one.
RowsMatchChain == \A a \in Address : CoinsMatch(chain, db, a, Indexed, Resolved)

\* The summary of an address, however it was carried through the caches of
\* batches and re-read after commits and crashes, is what the chain up to the
\* checkpoint gives: the clamps of sanitizeSummary and applyOutbound hide nothing.
SummaryMatchesChain == \A a \in Address : SummaryMatches(chain, db, a, Indexed, Resolved)

\* The history of an address names every transaction that paid it or spent
\* from it, with the direction and height, and no other.
HistoryNamesTransactions ==
  \A a \in Address :
    {<<k[3], k[4], k[6]>> : k \in RowsOf(db, "tx", a)}
      = {<<p.txid[1], "in", p.txid>> : p \in Received(chain, a, Indexed)}
          \cup {<<q.txid[1], "out", q.txid>> : q \in Sent(chain, a, Resolved)}

\* The history is right whenever the state is one the scan can be in.
LedgerInvariant ==
  /\ TypeOK
  /\ HistoryNamesTransactions

--------------------------------------------------------------------------------
(* What the documents say, and the code does not do. *)

\* The history has an entry for every input and output of an address.
HistoryComplete ==
  \A a \in Address :
    Cardinality(RowsOf(db, "tx", a))
      = Cardinality(Received(chain, a, Indexed)) + Cardinality(Sent(chain, a, Resolved))

\* A spent output is removed.
SpentIsRemoved ==
  \A q \in Inputs(chain) :
    LET p == Prevout(chain, q)
    IN  q.txid[1] < Resume => UtxoKey(OutputAt(chain, p).address, p.txid, p.vout) \notin DOMAIN db

================================================================================

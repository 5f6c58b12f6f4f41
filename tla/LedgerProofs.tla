------------------------------ MODULE LedgerProofs ------------------------------
(***************************************************************************)
(* Proofs about AddressLedger, for every chain that consensus allows, any  *)
(* size of the batches, any lookups that fail and any crashes: the coins,  *)
(* the history and the summaries in the database are those of the chain up *)
(* to the checkpoint.                                                      *)
(*                                                                         *)
(* The properties are about the database at a checkpoint; the invariant    *)
(* follows the scan inside a block.  It says what the database will be     *)
(* once the operations in hand are written (View), for the outputs and     *)
(* inputs before the scan's place, and where each address's summary is.    *)
(***************************************************************************)
EXTENDS AddressLedger, FiniteSetTheorems, FunctionTheorems, SequenceTheorems,
        WellFoundedInduction, TLAPS

--------------------------------------------------------------------------------
(* Sequences of operations, and what a batch of them writes. *)

\* A sequence, whatever it holds.
IsSeq(s) == s \in Seq(Range(s))

\* The domain of a sequence.
LEMMA SeqFacts ==
  ASSUME NEW s, IsSeq(s)
  PROVE  Len(s) \in Nat /\ DOMAIN s = 1..Len(s)
BY LenProperties DEF IsSeq

\* A function on 1..n is a sequence.
LEMMA FunctionIsSeq ==
  ASSUME NEW n \in Nat, NEW s, s = [i \in 1..n |-> s[i]]
  PROVE  IsSeq(s) /\ Len(s) = n
<1>1. s \in [1..n -> Range(s)]
  BY DEF Range
<1>2. s \in Seq(Range(s))
  BY <1>1
<1> QED BY <1>1, <1>2, LenProperties DEF IsSeq

\* The elements of a concatenation.
LEMMA ConcatFacts ==
  ASSUME NEW s, NEW t, IsSeq(s), IsSeq(t)
  PROVE  /\ IsSeq(s \o t) /\ Len(s \o t) = Len(s) + Len(t)
         /\ \A i \in 1..Len(s) : (s \o t)[i] = s[i]
         /\ \A i \in 1..Len(t) : (s \o t)[Len(s) + i] = t[i]
         /\ \A i \in 1..(Len(s) + Len(t)) : i > Len(s) => (s \o t)[i] = t[i - Len(s)]
<1> DEFINE U == Range(s) \cup Range(t)
           m == Len(s)
           n == Len(t)
           st == s \o t
<1>1. s \in Seq(U) /\ t \in Seq(U) /\ m \in Nat /\ n \in Nat /\ DOMAIN s = 1..m /\ DOMAIN t = 1..n
  <2>1. m \in Nat /\ n \in Nat /\ s \in [1..m -> Range(s)] /\ t \in [1..n -> Range(t)]
        /\ DOMAIN s = 1..m /\ DOMAIN t = 1..n
    BY LenProperties DEF IsSeq
  <2>2. s \in [1..m -> U] /\ t \in [1..n -> U]
    BY <2>1
  <2> QED BY <2>1, <2>2
<1>2. /\ st \in Seq(U) /\ Len(st) = m + n
      /\ \A i \in 1..(m + n) : st[i] = IF i <= m THEN s[i] ELSE t[i - m]
  BY <1>1, ConcatProperties
<1> HIDE DEF st
<1>3. st \in [1..(m + n) -> U] /\ DOMAIN st = 1..(m + n)
  BY <1>2, LenProperties
<1>4. m + n \in Nat /\ st = [i \in 1..(m + n) |-> st[i]]
  BY <1>1, <1>3
<1>5. IsSeq(st)
  BY <1>4, FunctionIsSeq
<1> HIDE DEF m, n
<1>6. \A i \in 1..m : st[i] = s[i]
  BY <1>1, <1>2
<1>7. \A i \in 1..n : st[m + i] = t[i]
  <2> SUFFICES ASSUME NEW i \in 1..n PROVE st[m + i] = t[i]
    OBVIOUS
  <2>1. m + i \in 1..(m + n) /\ ~(m + i <= m) /\ (m + i) - m = i
    BY <1>1
  <2> QED BY <1>2, <2>1
<1>8. \A i \in 1..(m + n) : i > m => st[i] = t[i - m]
  BY <1>1, <1>2
<1> QED BY <1>2, <1>5, <1>6, <1>7, <1>8 DEF st, m, n

\* Numbers up to a bound have a least and a greatest.
LEMMA Least ==
  ASSUME NEW S \in SUBSET Nat, S # {}
  PROVE  \E x \in S : \A y \in S : x <= y
<1>1. PICK x \in S : \A y \in S : ~(<<y, x>> \in OpToRel(<, Nat))
  BY NatLessThanWellFounded, WFMin
<1>2. \A y \in S : ~(y < x)
  BY <1>1 DEF OpToRel
<1> QED BY <1>2

\* Min and Max of a bounded set of naturals.
LEMMA MinMax ==
  ASSUME NEW n \in Nat, NEW S \in SUBSET 0..n, S # {}
  PROVE  /\ Min(S) \in S /\ \A y \in S : Min(S) <= y
         /\ Max(S) \in S /\ \A y \in S : y <= Max(S)
<1>1. S \subseteq Nat
  OBVIOUS
<1>2. Min(S) \in S /\ \A y \in S : Min(S) <= y
  BY <1>1, Least DEF Min
<1> DEFINE B == {m \in Nat : \A y \in S : y <= m}
<1>3. n \in B
  OBVIOUS
<1>4. PICK m \in B : \A k \in B : m <= k
  BY <1>3, Least
<1>5. m \in S
  <2> SUFFICES ASSUME m \notin S PROVE FALSE
    OBVIOUS
  <2>1. \A y \in S : y <= m /\ y # m /\ y \in Nat
    BY <1>4
  <2>2. PICK y \in S : TRUE
    OBVIOUS
  <2>3. m # 0 /\ m \in Nat
    BY <1>4, <2>1, <2>2
  <2>4. m - 1 \in B
    BY <2>1, <2>3
  <2> QED BY <1>4, <2>3, <2>4
<1>6. \A y \in S : y <= m
  BY <1>4
<1>7. Max(S) \in S /\ \A y \in S : Max(S) >= y
  BY <1>1, <1>5, <1>6 DEF Max
<1> QED BY <1>1, <1>2, <1>7

\* The last operation on a key.
LEMMA LastIs ==
  ASSUME NEW s, IsSeq(s), NEW i \in 1..Len(s),
         \A j \in 1..Len(s) : j > i => s[j].key # s[i].key
  PROVE  LastFor(s, s[i].key) = s[i]
<1> DEFINE K == {j \in DOMAIN s : s[j].key = s[i].key}
<1>1. Len(s) \in Nat /\ DOMAIN s = 1..Len(s)
  BY SeqFacts
<1>2. i \in K /\ \A j \in K : j <= i
  BY <1>1
<1>3. K \in SUBSET 0..Len(s) /\ K # {}
  BY <1>1, <1>2
<1>4. Max(K) \in K /\ \A y \in K : y <= Max(K)
  BY <1>1, <1>3, MinMax
<1>5. Max(K) = i
  <2>1. PICK m : m = Max(K)
    OBVIOUS
  <2>2. m \in K /\ i <= m /\ m <= i
    BY <1>2, <1>4, <2>1
  <2>3. m \in Nat /\ i \in Nat
    BY <1>1, <2>2
  <2> QED BY <2>1, <2>2, <2>3
<1> QED BY <1>5 DEF LastFor

\* Every key has a last operation.
LEMMA LastExists ==
  ASSUME NEW s, IsSeq(s), NEW k \in Keys(s)
  PROVE  \E i \in 1..Len(s) :
           s[i].key = k /\ LastFor(s, k) = s[i] /\ \A j \in 1..Len(s) : j > i => s[j].key # k
<1> DEFINE K == {j \in DOMAIN s : s[j].key = k}
<1>1. Len(s) \in Nat /\ DOMAIN s = 1..Len(s)
  BY SeqFacts
<1>2. K \in SUBSET 0..Len(s) /\ K # {}
  BY <1>1 DEF Keys
<1>3. Max(K) \in K /\ \A y \in K : y <= Max(K)
  BY <1>1, <1>2, MinMax
<1>4. PICK i : i = Max(K)
  OBVIOUS
<1>5. i \in 1..Len(s) /\ s[i].key = k
  BY <1>1, <1>3, <1>4
<1>6. ASSUME NEW j \in 1..Len(s), j > i PROVE s[j].key # k
  <2>1. j \in K => j <= i
    BY <1>3, <1>4
  <2>2. j \notin K
    BY <1>1, <1>5, <1>6, <2>1
  <2> QED BY <1>1, <2>2
<1> QED BY <1>4, <1>5, <1>6 DEF LastFor

\* A batch that goes on with the operations t writes what they write over the batch before.
LEMMA KeysOfBoth ==
  ASSUME NEW s, NEW t, IsSeq(s), IsSeq(t)
  PROVE  Keys(s \o t) = Keys(s) \cup Keys(t)
<1>1. /\ Len(s) \in Nat /\ DOMAIN s = 1..Len(s) /\ Len(t) \in Nat /\ DOMAIN t = 1..Len(t)
      /\ DOMAIN (s \o t) = 1..(Len(s) + Len(t))
  BY SeqFacts, ConcatFacts
<1>2. ASSUME NEW i \in 1..(Len(s) + Len(t)) PROVE (s \o t)[i].key \in Keys(s) \cup Keys(t)
  <2>1. CASE i <= Len(s)
    <3>1. i \in 1..Len(s)
      BY <1>1, <2>1
    <3> QED BY <1>1, <3>1, ConcatFacts DEF Keys
  <2>2. CASE i > Len(s)
    <3>1. i - Len(s) \in 1..Len(t)
      BY <1>1, <2>2
    <3> QED BY <1>1, <2>2, <3>1, ConcatFacts DEF Keys
  <2> QED BY <1>1, <2>1, <2>2
<1>3. ASSUME NEW i \in 1..Len(s) PROVE s[i].key \in Keys(s \o t)
  <2>1. i \in 1..(Len(s) + Len(t)) /\ (s \o t)[i] = s[i]
    BY <1>1, ConcatFacts
  <2> QED BY <1>1, <2>1 DEF Keys
<1>4. ASSUME NEW i \in 1..Len(t) PROVE t[i].key \in Keys(s \o t)
  <2>1. Len(s) + i \in 1..(Len(s) + Len(t)) /\ (s \o t)[Len(s) + i] = t[i]
    BY <1>1, ConcatFacts
  <2> QED BY <1>1, <2>1 DEF Keys
<1> QED BY <1>1, <1>2, <1>3, <1>4 DEF Keys

\* The last operation of a concatenation, for a key.
LEMMA LastOfBoth ==
  ASSUME NEW s, NEW t, IsSeq(s), IsSeq(t), NEW k
  PROVE  /\ k \in Keys(t) => LastFor(s \o t, k) = LastFor(t, k)
         /\ k \in Keys(s) /\ k \notin Keys(t) => LastFor(s \o t, k) = LastFor(s, k)
<1> DEFINE m == Len(s)
           n == Len(t)
           st == s \o t
<1>1. m \in Nat /\ n \in Nat /\ DOMAIN s = 1..m /\ DOMAIN t = 1..n
  BY SeqFacts
<1>2. /\ IsSeq(st) /\ Len(st) = m + n
      /\ \A i \in 1..m : st[i] = s[i]
      /\ \A i \in 1..n : st[m + i] = t[i]
      /\ \A i \in 1..(m + n) : i > m => st[i] = t[i - m]
  BY ConcatFacts
<1> HIDE DEF m, n, st
<1>3. ASSUME k \in Keys(t) PROVE LastFor(st, k) = LastFor(t, k)
  <2>1. PICK i \in 1..n : t[i].key = k /\ LastFor(t, k) = t[i]
          /\ \A j \in 1..n : j > i => t[j].key # k
    BY <1>3, LastExists DEF n
  <2>2. m + i \in 1..Len(st) /\ st[m + i] = t[i]
    BY <1>1, <1>2, <2>1
  <2>3. ASSUME NEW j \in 1..Len(st), j > m + i PROVE st[j].key # k
    <3>1. j > m /\ j - m \in 1..n /\ j - m > i /\ j \in 1..(m + n)
      BY <1>1, <1>2, <2>3
    <3> QED BY <1>2, <2>1, <3>1
  <2>4. LastFor(st, st[m + i].key) = st[m + i]
    BY <1>2, <2>1, <2>2, <2>3, LastIs
  <2> QED BY <2>1, <2>2, <2>4
<1>4. ASSUME k \in Keys(s), k \notin Keys(t) PROVE LastFor(st, k) = LastFor(s, k)
  <2>1. PICK i \in 1..m : s[i].key = k /\ LastFor(s, k) = s[i]
          /\ \A j \in 1..m : j > i => s[j].key # k
    BY <1>4, LastExists DEF m
  <2>2. i \in 1..Len(st) /\ st[i] = s[i]
    BY <1>1, <1>2, <2>1
  <2>3. ASSUME NEW j \in 1..Len(st), j > i PROVE st[j].key # k
    <3>1. CASE j <= m
      BY <1>1, <1>2, <2>1, <2>3, <3>1
    <3>2. CASE j > m
      <4>1. j - m \in 1..n /\ j \in 1..(m + n)
        BY <1>1, <1>2, <2>3, <3>2
      <4>2. t[j - m].key # k
        BY <1>1, <1>4, <4>1 DEF Keys
      <4> QED BY <1>2, <3>2, <4>1, <4>2
    <3> QED BY <1>1, <1>2, <3>1, <3>2
  <2>4. LastFor(st, st[i].key) = st[i]
    BY <1>2, <2>1, <2>2, <2>3, LastIs
  <2> QED BY <2>1, <2>2, <2>4
<1> QED BY <1>3, <1>4 DEF st

\* Writing s and then t is writing t over what s gave.
LEMMA WrittenOn ==
  ASSUME NEW d, NEW s, NEW t, IsSeq(s), IsSeq(t), NEW f, f = Written(d, s),
         NEW e, e = Written(d, s \o t)
  PROVE  /\ \A k : k \in Keys(t) => (k \in DOMAIN e <=> LastFor(t, k).type = "put")
         /\ \A k : k \notin Keys(t) => (k \in DOMAIN e <=> k \in DOMAIN f)
         /\ \A k \in DOMAIN e : k \in Keys(t) => e[k] = LastFor(t, k).value
         /\ \A k \in DOMAIN e : k \notin Keys(t) => e[k] = f[k]
<1>1. Keys(s \o t) = Keys(s) \cup Keys(t)
  BY KeysOfBoth
<1>2. \A k : /\ k \in Keys(t) => LastFor(s \o t, k) = LastFor(t, k)
             /\ k \in Keys(s) /\ k \notin Keys(t) => LastFor(s \o t, k) = LastFor(s, k)
  BY LastOfBoth
<1> QED BY <1>1, <1>2 DEF Written

--------------------------------------------------------------------------------
(* The invariant. *)

\* The place at is a height, a transaction of the block, and how many of its outputs and
\* inputs have been handled: what comes before it has been.
Before(txid, n, at) ==
  \/ txid[1] < at[1]
  \/ txid[1] = at[1] /\ (txid[2] < at[2] \/ (txid[2] = at[2] /\ n < at[3]))

OutputsBefore(c, at) == {p \in Outputs(c) : Before(p.txid, p.vout, at)}
InputsBefore(c, at) ==
  {q \in Inputs(c) : Before(q.txid, Len(TxAt(c, q.txid).vout) + q.index, at)}

HistoryMatches(c, d, a, R, S) ==
  RowsOf(d, "tx", a)
    = {TxKey(a, p.txid[1], "in", p.vout, p.txid) : p \in Received(c, a, R)}
        \cup {TxKey(a, q.txid[1], "out", Prevout(c, q).vout, q.txid) : q \in Sent(c, a, S)}

RowsMatch(c, d, R, S) ==
  \A a \in Address : CoinsMatch(c, d, a, R, S) /\ HistoryMatches(c, d, a, R, S)

Progress(d) == IF MetaKey \in DOMAIN d THEN d[MetaKey] + 1 ELSE 0

\* What the database will be when the operations have been written.
View == Written(db, operations)

Place == <<next, tx, io>>
OutputsPast == OutputsBefore(chain, Place)
ResolvedPast == InputsBefore(chain, Place) \ missed

\* Where the scan can be.
Position ==
  /\ chain \in Chains
  /\ blocks \in 0..BatchBlocks /\ next \in 0..Len(chain) /\ tx \in Nat /\ io \in Nat
  /\ tx = 0 => io = 0 /\ seen = {} /\ touched = <<>>
  /\ tx > 0 => /\ ~Full /\ next < Len(chain) /\ tx <= Len(Block)
               /\ io <= Len(Vout) + Len(Vin)

Collected ==
  /\ IsSeq(operations) /\ IsSeq(touched) /\ DOMAIN cache \subseteq Address
  /\ Range(touched) \subseteq DOMAIN cache /\ seen \subseteq Range(touched)
  /\ missed \subseteq InputsBefore(chain, Place)
  /\ db = [k \in DOMAIN db |-> db[k]]

\* The database agrees with its own progress, and what is going to be written over it
\* with what has been handled since.
RowsFollow ==
  /\ Resume \in 0..next /\ Progress(View) = next
  /\ RowsMatch(chain, db, Indexed, Resolved)
  /\ RowsMatch(chain, View, OutputsPast, ResolvedPast)

\* An address's summary is in the batch's cache, or the stored one is still right; what
\* is going to be written is right but for the addresses of the block in progress.
SummaryFollows(a) ==
  /\ SummaryMatches(chain, db, a, Indexed, Resolved)
  /\ IF a \in DOMAIN cache
     THEN /\ TxidsOf(chain, a, OutputsPast, ResolvedPast) # {}
          /\ cache[a] = SummaryOf(chain, a, OutputsPast, ResolvedPast)
     ELSE SummaryMatches(chain, db, a, OutputsPast, ResolvedPast)
  /\ a \notin Range(touched) => SummaryMatches(chain, View, a, OutputsPast, ResolvedPast)
  /\ tx > 0 => (a \in seen <=> <<next, tx>> \in TxidsOf(chain, a, OutputsPast, ResolvedPast))

SummariesFollow == \A a \in Address : SummaryFollows(a)

LedgerIInv == Position /\ Collected /\ RowsFollow /\ SummariesFollow

--------------------------------------------------------------------------------
(* The chain. *)

\* The lengths of a chain, of its blocks and of its transactions.
LEMMA ChainFacts ==
  ASSUME NEW c, IsChain(c)
  PROVE  /\ Len(c) \in Nat /\ DOMAIN c = 1..Len(c)
         /\ \A h \in 1..Len(c) : Len(c[h]) \in Nat /\ DOMAIN c[h] = 1..Len(c[h])
         /\ \A h \in 1..Len(c) : \A i \in 1..Len(c[h]) :
              /\ c[h][i] \in Transactions
              /\ Len(c[h][i].vout) \in Nat /\ DOMAIN c[h][i].vout = 1..Len(c[h][i].vout)
              /\ Len(c[h][i].vin) \in Nat /\ DOMAIN c[h][i].vin = 1..Len(c[h][i].vin)
<1>1. c \in Seq(Seq(Transactions))
  BY DEF IsChain
<1>2. \A h \in 1..Len(c) : c[h] \in Seq(Transactions)
  BY <1>1, ElementOfSeq
<1>3. \A h \in 1..Len(c) : \A i \in 1..Len(c[h]) : c[h][i] \in Transactions
  BY <1>2, ElementOfSeq
<1>4. \A x \in Transactions :
        /\ Len(x.vout) \in Nat /\ DOMAIN x.vout = 1..Len(x.vout)
        /\ Len(x.vin) \in Nat /\ DOMAIN x.vin = 1..Len(x.vin)
  BY LenProperties DEF Transactions
<1>5. \A h \in 1..Len(c) : Len(c[h]) \in Nat /\ DOMAIN c[h] = 1..Len(c[h])
  BY <1>2, LenProperties
<1>6. Len(c) \in Nat /\ DOMAIN c = 1..Len(c)
  BY <1>1, LenProperties
<1> QED BY <1>3, <1>4, <1>5, <1>6

\* A transaction is a position on the chain.
LEMMA TxidsAre ==
  ASSUME NEW c, IsChain(c), NEW t
  PROVE  t \in Txids(c) <=> /\ t = <<t[1], t[2]>> /\ t[1] \in 0..(Len(c) - 1)
                            /\ t[2] \in 1..Len(c[t[1] + 1])
<1>1. /\ Len(c) \in Nat /\ DOMAIN c = 1..Len(c)
      /\ \A h \in 1..Len(c) : Len(c[h]) \in Nat /\ DOMAIN c[h] = 1..Len(c[h])
  BY ChainFacts
<1>2. t \in Txids(c) <=> \E h \in 1..Len(c) : \E i \in 1..Len(c[h]) : t = <<h - 1, i>>
  <2>1. t \in Txids(c) <=> \E h \in DOMAIN c : t \in {<<h - 1, i>> : i \in DOMAIN c[h]}
    BY Zenon DEF Txids
  <2> QED BY <1>1, <2>1
<1>3. ASSUME NEW h \in 1..Len(c), NEW i \in 1..Len(c[h]), t = <<h - 1, i>>
      PROVE  /\ t = <<t[1], t[2]>> /\ t[1] \in 0..(Len(c) - 1)
             /\ t[2] \in 1..Len(c[t[1] + 1])
  <2>1. t[1] = h - 1 /\ t[2] = i /\ t[1] + 1 = h
    BY <1>1, <1>3
  <2> QED BY <1>1, <1>3, <2>1
<1>4. ASSUME t = <<t[1], t[2]>>, t[1] \in 0..(Len(c) - 1), t[2] \in 1..Len(c[t[1] + 1])
      PROVE  \E h \in 1..Len(c) : \E i \in 1..Len(c[h]) : t = <<h - 1, i>>
  <2>1. t[1] + 1 \in 1..Len(c) /\ (t[1] + 1) - 1 = t[1]
    BY <1>1, <1>4
  <2> QED BY <1>4, <2>1
<1> QED BY <1>2, <1>3, <1>4

\* What a transaction of the chain has.
LEMMA TxFacts ==
  ASSUME NEW c, IsChain(c), NEW t \in Txids(c)
  PROVE  /\ t[1] \in Nat /\ t[2] \in Nat /\ t[1] < Len(c) /\ t[2] > 0
         /\ TxAt(c, t) \in Transactions
         /\ Len(TxAt(c, t).vout) \in Nat /\ DOMAIN TxAt(c, t).vout = 1..Len(TxAt(c, t).vout)
         /\ Len(TxAt(c, t).vin) \in Nat /\ DOMAIN TxAt(c, t).vin = 1..Len(TxAt(c, t).vin)
<1>1. t[1] \in 0..(Len(c) - 1) /\ t[2] \in 1..Len(c[t[1] + 1])
  BY TxidsAre
<1>2. Len(c) \in Nat /\ \A h \in 1..Len(c) : Len(c[h]) \in Nat
  BY ChainFacts
<1>3. t[1] + 1 \in 1..Len(c)
  BY <1>1, <1>2
<1>4. t[1] \in Nat /\ t[2] \in Nat /\ t[1] < Len(c) /\ t[2] > 0
  BY <1>1, <1>2, <1>3
<1>5. PICK h : h = t[1] + 1
  OBVIOUS
<1>6. h \in 1..Len(c) /\ t[2] \in 1..Len(c[h])
  BY <1>1, <1>3, <1>5
<1>7. /\ c[h][t[2]] \in Transactions
      /\ Len(c[h][t[2]].vout) \in Nat /\ DOMAIN c[h][t[2]].vout = 1..Len(c[h][t[2]].vout)
      /\ Len(c[h][t[2]].vin) \in Nat /\ DOMAIN c[h][t[2]].vin = 1..Len(c[h][t[2]].vin)
  <2>1. \A g \in 1..Len(c) : \A i \in 1..Len(c[g]) :
          /\ c[g][i] \in Transactions
          /\ Len(c[g][i].vout) \in Nat /\ DOMAIN c[g][i].vout = 1..Len(c[g][i].vout)
          /\ Len(c[g][i].vin) \in Nat /\ DOMAIN c[g][i].vin = 1..Len(c[g][i].vin)
    BY ChainFacts
  <2>2. PICK i : i = t[2]
    OBVIOUS
  <2>3. i \in 1..Len(c[h])
    BY <1>6, <2>2
  <2> QED BY <1>6, <2>1, <2>2, <2>3
<1>8. TxAt(c, t) = c[h][t[2]]
  BY <1>5 DEF TxAt
<1> QED BY <1>4, <1>7, <1>8

\* An output is a position in a transaction.
LEMMA OutputsAre ==
  ASSUME NEW c, IsChain(c), NEW p
  PROVE  p \in Outputs(c) <=> /\ p = OutPoint(p.txid, p.vout) /\ p.txid \in Txids(c)
                              /\ p.vout \in Nat /\ p.vout < Len(TxAt(c, p.txid).vout)
<1>1. p \in Outputs(c)
        <=> \E t \in Txids(c) : \E n \in DOMAIN TxAt(c, t).vout : p = OutPoint(t, n - 1)
  BY DEF Outputs
<1>2. ASSUME NEW t \in Txids(c), NEW n \in DOMAIN TxAt(c, t).vout, p = OutPoint(t, n - 1)
      PROVE  /\ p = OutPoint(p.txid, p.vout) /\ p.txid \in Txids(c)
             /\ p.vout \in Nat /\ p.vout < Len(TxAt(c, p.txid).vout)
  <2>1. p.txid = t /\ p.vout = n - 1
    BY <1>2 DEF OutPoint
  <2>2. n \in 1..Len(TxAt(c, t).vout) /\ Len(TxAt(c, t).vout) \in Nat
    BY TxFacts
  <2>3. n - 1 \in Nat /\ n - 1 < Len(TxAt(c, t).vout)
    BY <2>2
  <2> QED BY <1>2, <2>1, <2>3
<1>3. ASSUME p = OutPoint(p.txid, p.vout), p.txid \in Txids(c),
             p.vout \in Nat, p.vout < Len(TxAt(c, p.txid).vout)
      PROVE  \E t \in Txids(c) : \E n \in DOMAIN TxAt(c, t).vout : p = OutPoint(t, n - 1)
  <2>1. PICK t \in Txids(c) : t = p.txid
    BY <1>3
  <2>2. DOMAIN TxAt(c, t).vout = 1..Len(TxAt(c, t).vout) /\ Len(TxAt(c, t).vout) \in Nat
    BY TxFacts
  <2>3. p.vout + 1 \in DOMAIN TxAt(c, t).vout /\ (p.vout + 1) - 1 = p.vout
    BY <1>3, <2>1, <2>2
  <2> QED BY <1>3, <2>1, <2>3
<1> QED BY <1>1, <1>2, <1>3

\* An input is a position in a transaction.
LEMMA InputsAre ==
  ASSUME NEW c, IsChain(c), NEW q
  PROVE  q \in Inputs(c) <=> /\ q = [txid |-> q.txid, index |-> q.index] /\ q.txid \in Txids(c)
                             /\ q.index \in Nat /\ q.index < Len(TxAt(c, q.txid).vin)
<1>1. q \in Inputs(c)
        <=> \E t \in Txids(c) : \E n \in DOMAIN TxAt(c, t).vin : q = [txid |-> t, index |-> n - 1]
  BY DEF Inputs
<1>2. ASSUME NEW t \in Txids(c), NEW n \in DOMAIN TxAt(c, t).vin, q = [txid |-> t, index |-> n - 1]
      PROVE  /\ q = [txid |-> q.txid, index |-> q.index] /\ q.txid \in Txids(c)
             /\ q.index \in Nat /\ q.index < Len(TxAt(c, q.txid).vin)
  <2>1. q.txid = t /\ q.index = n - 1
    BY <1>2
  <2>2. n \in 1..Len(TxAt(c, t).vin) /\ Len(TxAt(c, t).vin) \in Nat
    BY TxFacts
  <2>3. n - 1 \in Nat /\ n - 1 < Len(TxAt(c, t).vin)
    BY <2>2
  <2> QED BY <1>2, <2>1, <2>3
<1>3. ASSUME q = [txid |-> q.txid, index |-> q.index], q.txid \in Txids(c),
             q.index \in Nat, q.index < Len(TxAt(c, q.txid).vin)
      PROVE  \E t \in Txids(c) : \E n \in DOMAIN TxAt(c, t).vin : q = [txid |-> t, index |-> n - 1]
  <2>1. PICK t \in Txids(c) : t = q.txid
    BY <1>3
  <2>2. DOMAIN TxAt(c, t).vin = 1..Len(TxAt(c, t).vin) /\ Len(TxAt(c, t).vin) \in Nat
    BY TxFacts
  <2>3. q.index + 1 \in DOMAIN TxAt(c, t).vin /\ (q.index + 1) - 1 = q.index
    BY <1>3, <2>1, <2>2
  <2> QED BY <1>3, <2>1, <2>3
<1> QED BY <1>1, <1>2, <1>3

\* What an output of the chain holds.
LEMMA OutputFacts ==
  ASSUME NEW c, IsChain(c), NEW p \in Outputs(c)
  PROVE  /\ OutputAt(c, p).address \in Address \cup {NoAddress} /\ OutputAt(c, p).value \in Nat
         /\ p.txid \in Txids(c) /\ p.txid[1] \in Nat
<1>1. p.txid \in Txids(c) /\ p.vout \in Nat /\ p.vout < Len(TxAt(c, p.txid).vout)
  BY OutputsAre
<1>2. /\ TxAt(c, p.txid) \in Transactions /\ Len(TxAt(c, p.txid).vout) \in Nat
      /\ p.txid[1] \in Nat
  BY <1>1, TxFacts
<1>3. TxAt(c, p.txid).vout \in Seq([address : Address \cup {NoAddress}, value : Nat])
  BY <1>2 DEF Transactions
<1>4. p.vout + 1 \in 1..Len(TxAt(c, p.txid).vout)
  BY <1>1, <1>2
<1>5. OutputAt(c, p) \in [address : Address \cup {NoAddress}, value : Nat]
  BY <1>3, <1>4, ElementOfSeq DEF OutputAt
<1> QED BY <1>1, <1>2, <1>5

--------------------------------------------------------------------------------
(* There are finitely many, and what they are worth. *)

\* The image of a finite set.
LEMMA FiniteImage ==
  ASSUME NEW S, IsFiniteSet(S), NEW f, DOMAIN f = S
  PROVE  IsFiniteSet({f[x] : x \in S})
<1> DEFINE T == {f[x] : x \in S}
           g == [x \in S |-> f[x]]
<1>1. g \in [S -> T] /\ \A y \in T : \E x \in S : g[x] = y
  OBVIOUS
<1> HIDE DEF g, T
<1>2. g \in Surjection(S, T)
  BY <1>1, Fun_IsSurj
<1>3. IsFiniteSet(T)
  BY <1>2, FS_Surjection
<1> QED BY <1>3 DEF T

\* A chain has finitely many transactions.
LEMMA FiniteTxids ==
  ASSUME NEW c, IsChain(c)
  PROVE  IsFiniteSet(Txids(c))
<1>1. /\ Len(c) \in Nat /\ DOMAIN c = 1..Len(c)
      /\ \A h \in 1..Len(c) : Len(c[h]) \in Nat /\ DOMAIN c[h] = 1..Len(c[h])
  BY ChainFacts
<1> DEFINE T(h) == {<<h - 1, i>> : i \in DOMAIN c[h]}
           F == [h \in DOMAIN c |-> T(h)]
<1>2. ASSUME NEW h \in DOMAIN c PROVE IsFiniteSet(T(h))
  <2> DEFINE g == [i \in DOMAIN c[h] |-> <<h - 1, i>>]
  <2>1. IsFiniteSet(DOMAIN c[h])
    BY <1>1, FS_Interval
  <2>2. DOMAIN g = DOMAIN c[h] /\ {g[i] : i \in DOMAIN c[h]} = T(h)
    OBVIOUS
  <2> HIDE DEF g, T
  <2>3. IsFiniteSet({g[i] : i \in DOMAIN c[h]})
    BY <2>1, <2>2, FiniteImage
  <2> QED BY <2>2, <2>3
<1>3. IsFiniteSet(DOMAIN c)
  BY <1>1, FS_Interval
<1>4. DOMAIN F = DOMAIN c /\ {F[h] : h \in DOMAIN c} = {T(h) : h \in DOMAIN c}
  BY Zenon
<1> HIDE DEF F
<1>5. IsFiniteSet({F[h] : h \in DOMAIN c})
  BY <1>3, <1>4, FiniteImage
<1>6. IsFiniteSet({T(h) : h \in DOMAIN c})
  BY <1>4, <1>5
<1>7. \A x \in {T(h) : h \in DOMAIN c} : IsFiniteSet(x)
  BY <1>2, Zenon
<1>8. Txids(c) = UNION {T(h) : h \in DOMAIN c}
  BY DEF Txids
<1> HIDE DEF T
<1>9. IsFiniteSet(UNION {T(h) : h \in DOMAIN c})
  BY <1>6, <1>7, FS_UNION
<1> QED BY <1>8, <1>9

\* A chain has finitely many outputs.
LEMMA FiniteOutputs ==
  ASSUME NEW c, IsChain(c)
  PROVE  IsFiniteSet(Outputs(c))
<1> DEFINE T(t) == {OutPoint(t, n - 1) : n \in DOMAIN TxAt(c, t).vout}
           F == [t \in Txids(c) |-> T(t)]
<1>2. ASSUME NEW t \in Txids(c) PROVE IsFiniteSet(T(t))
  <2> DEFINE D == DOMAIN TxAt(c, t).vout
             g == [n \in D |-> OutPoint(t, n - 1)]
  <2>1. IsFiniteSet(D)
    BY TxFacts, FS_Interval
  <2>2. DOMAIN g = D /\ {g[n] : n \in D} = T(t)
    OBVIOUS
  <2> HIDE DEF g, T, D
  <2>3. IsFiniteSet({g[n] : n \in D})
    BY <2>1, <2>2, FiniteImage
  <2> QED BY <2>2, <2>3
<1>3. IsFiniteSet(Txids(c))
  BY FiniteTxids
<1>4. DOMAIN F = Txids(c) /\ {F[t] : t \in Txids(c)} = {T(t) : t \in Txids(c)}
  BY Zenon
<1> HIDE DEF F
<1>5. IsFiniteSet({F[t] : t \in Txids(c)})
  BY <1>3, <1>4, FiniteImage
<1>6. IsFiniteSet({T(t) : t \in Txids(c)})
  BY <1>4, <1>5
<1>7. \A x \in {T(t) : t \in Txids(c)} : IsFiniteSet(x)
  BY <1>2, Zenon
<1>8. Outputs(c) = UNION {T(t) : t \in Txids(c)}
  BY DEF Outputs
<1> HIDE DEF T
<1>9. IsFiniteSet(UNION {T(t) : t \in Txids(c)})
  BY <1>6, <1>7, FS_UNION
<1> QED BY <1>8, <1>9

\* The satoshis of an output.
LEMMA OneOutput ==
  ASSUME NEW p, NEW v \in Nat
  PROVE  IsFiniteSet({<<p, n>> : n \in 1..v}) /\ Cardinality({<<p, n>> : n \in 1..v}) = v
<1> DEFINE T == {<<p, n>> : n \in 1..v}
           f == [n \in 1..v |-> <<p, n>>]
<1>1. /\ f \in [1..v -> T]
      /\ \A m, n \in 1..v : f[m] = f[n] => m = n
      /\ \A y \in T : \E n \in 1..v : f[n] = y
  <2>1. f \in [1..v -> T] /\ \A y \in T : \E n \in 1..v : f[n] = y
    OBVIOUS
  <2>2. ASSUME NEW m \in 1..v, NEW n \in 1..v, f[m] = f[n] PROVE m = n
    <3>1. <<p, m>> = <<p, n>>
      BY <2>2
    <3> QED BY <3>1
  <2> QED BY <2>1, <2>2
<1>2. f \in Bijection(1..v, T)
  <2> HIDE DEF f, T
  <2> QED BY <1>1, Fun_IsBij
<1> HIDE DEF f, T
<1>3. ExistsBijection(1..v, T)
  BY <1>2, Fun_ExistsBij
<1>4. Cardinality(T) = v
  BY <1>3, FS_CountingElements
<1>5. IsFiniteSet(T)
  BY <1>3, FS_NatBijection
<1> QED BY <1>4, <1>5 DEF T

\* Finitely many outputs have a natural value.
LEMMA FiniteSatoshis ==
  ASSUME NEW c, NEW P, IsFiniteSet(P), \A p \in P : OutputAt(c, p).value \in Nat
  PROVE  IsFiniteSet(Satoshis(c, P)) /\ ValueOf(c, P) \in Nat
<1> DEFINE T(p) == {<<p, n>> : n \in 1..OutputAt(c, p).value}
           F == [p \in P |-> T(p)]
<1>1. \A p \in P : IsFiniteSet(T(p))
  BY OneOutput
<1>2. DOMAIN F = P /\ {F[p] : p \in P} = {T(p) : p \in P}
  BY Zenon
<1> HIDE DEF F
<1>3. IsFiniteSet({F[p] : p \in P})
  BY <1>2, FiniteImage
<1>4. IsFiniteSet({T(p) : p \in P})
  BY <1>2, <1>3
<1>5. \A x \in {T(p) : p \in P} : IsFiniteSet(x)
  BY <1>1, Zenon
<1>6. Satoshis(c, P) = UNION {T(p) : p \in P}
  BY DEF Satoshis
<1> HIDE DEF T
<1>7. IsFiniteSet(UNION {T(p) : p \in P})
  BY <1>4, <1>5, FS_UNION
<1>8. IsFiniteSet(Satoshis(c, P))
  BY <1>6, <1>7
<1> QED BY <1>8, FS_CardinalityType DEF ValueOf

\* No outputs have no value.
LEMMA ValueOfNone == \A c : ValueOf(c, {}) = 0
BY FS_EmptySet DEF ValueOf, Satoshis

\* One more output adds its value.
LEMMA ValueAdds ==
  ASSUME NEW c, NEW P, IsFiniteSet(P), \A r \in P : OutputAt(c, r).value \in Nat,
         NEW p, p \notin P, OutputAt(c, p).value \in Nat
  PROVE  ValueOf(c, P \cup {p}) = ValueOf(c, P) + OutputAt(c, p).value
<1> DEFINE v == OutputAt(c, p).value
           T == {<<p, n>> : n \in 1..v}
           S == Satoshis(c, P)
<1>1. Satoshis(c, P \cup {p}) = S \cup T
  BY DEF Satoshis
<1>2. S \cap T = {}
  <2> SUFFICES ASSUME NEW x \in S, x \in T PROVE FALSE
    OBVIOUS
  <2>1. PICK r \in P : \E n \in 1..OutputAt(c, r).value : x = <<r, n>>
    BY DEF Satoshis
  <2>2. x[1] = r
    BY <2>1
  <2>3. x[1] = p
    OBVIOUS
  <2> QED BY <2>2, <2>3
<1>3. IsFiniteSet(T) /\ Cardinality(T) = v
  BY OneOutput
<1>4. IsFiniteSet(S) /\ Cardinality(S) \in Nat
  BY FiniteSatoshis DEF ValueOf
<1>5. v \in Nat
  OBVIOUS
<1>6. ValueOf(c, P \cup {p}) = Cardinality(S \cup T) /\ ValueOf(c, P) = Cardinality(S)
  BY <1>1 DEF ValueOf
<1> HIDE DEF S, T, v
<1>7. Cardinality(S \cup T) = Cardinality(S) + Cardinality(T) - Cardinality(S \cap T)
  BY <1>3, <1>4, FS_Union
<1>8. Cardinality(S \cap T) = 0
  BY <1>2, FS_EmptySet
<1>9. ValueOf(c, P \cup {p}) = ValueOf(c, P) + v
  BY <1>3, <1>4, <1>5, <1>6, <1>7, <1>8
<1> QED BY <1>9 DEF v

\* Without an output, its value is gone.
LEMMA ValueTakes ==
  ASSUME NEW c, NEW P, IsFiniteSet(P), \A r \in P : OutputAt(c, r).value \in Nat, NEW p \in P
  PROVE  /\ ValueOf(c, P \ {p}) = ValueOf(c, P) - OutputAt(c, p).value
         /\ ValueOf(c, P) >= OutputAt(c, p).value
<1> DEFINE Q == P \ {p}
           v == OutputAt(c, p).value
<1>1. IsFiniteSet(Q) /\ p \notin Q /\ Q \cup {p} = P /\ \A r \in Q : OutputAt(c, r).value \in Nat
  BY FS_Subset
<1>2. v \in Nat
  OBVIOUS
<1> HIDE DEF Q
<1>3. ValueOf(c, Q \cup {p}) = ValueOf(c, Q) + v
  BY <1>1, <1>2, ValueAdds
<1>4. ValueOf(c, Q) \in Nat
  BY <1>1, FiniteSatoshis
<1>5. ValueOf(c, P) = ValueOf(c, Q) + v
  BY <1>1, <1>3
<1> HIDE DEF v
<1>6. ValueOf(c, Q) = ValueOf(c, P) - v /\ ValueOf(c, P) >= v
  BY <1>2, <1>4, <1>5
<1> QED BY <1>6 DEF Q, v

\* Fewer outputs are worth no more.
LEMMA ValueOfFewer ==
  ASSUME NEW c, NEW P, IsFiniteSet(P), \A r \in P : OutputAt(c, r).value \in Nat, NEW Q \in SUBSET P
  PROVE  ValueOf(c, Q) <= ValueOf(c, P)
<1>1. Satoshis(c, Q) \subseteq Satoshis(c, P)
  BY DEF Satoshis
<1>2. IsFiniteSet(Satoshis(c, P))
  BY FiniteSatoshis
<1> QED BY <1>1, <1>2, FS_Subset DEF ValueOf

--------------------------------------------------------------------------------
(* One more output or input. *)

\* Inputs spend outputs among R.
Among(c, R, S) ==
  /\ R \subseteq Outputs(c) /\ S \subseteq Inputs(c)
  /\ \A q \in S : Prevout(c, q) \in R

\* The sets of an address's outputs and inputs are finite and within one another.
LEMMA AmongFacts ==
  ASSUME NEW c, IsChain(c), NEW R, NEW S, Among(c, R, S), NEW a
  PROVE  /\ Received(c, a, R) \subseteq Outputs(c) /\ Spent(c, a, S) \subseteq Received(c, a, R)
         /\ Unspent(c, a, R, S) \subseteq Received(c, a, R)
         /\ IsFiniteSet(Received(c, a, R)) /\ IsFiniteSet(Spent(c, a, S))
         /\ IsFiniteSet(Unspent(c, a, R, S)) /\ IsFiniteSet(TxidsOf(c, a, R, S))
         /\ TxidsOf(c, a, R, S) \subseteq Txids(c)
         /\ \A p \in Outputs(c) : OutputAt(c, p).value \in Nat
<1>1. Received(c, a, R) \subseteq Outputs(c) /\ Spent(c, a, S) \subseteq Received(c, a, R)
      /\ Unspent(c, a, R, S) \subseteq Received(c, a, R)
  BY DEF Among, Received, Spent, Sent, Unspent
<1>2. \A p \in Outputs(c) : p.txid \in Txids(c) /\ OutputAt(c, p).value \in Nat
  BY OutputFacts
<1>3. \A q \in Sent(c, a, S) : q.txid \in Txids(c)
  BY InputsAre DEF Among, Sent
<1>4. TxidsOf(c, a, R, S) \subseteq Txids(c)
  BY <1>1, <1>2, <1>3 DEF TxidsOf
<1>5. IsFiniteSet(Outputs(c)) /\ IsFiniteSet(Txids(c))
  BY FiniteOutputs, FiniteTxids
<1>6. IsFiniteSet(Received(c, a, R)) /\ IsFiniteSet(Spent(c, a, S))
      /\ IsFiniteSet(Unspent(c, a, R, S)) /\ IsFiniteSet(TxidsOf(c, a, R, S))
  <2>1. IsFiniteSet(Received(c, a, R))
    BY <1>1, <1>5, FS_Subset
  <2> QED BY <1>1, <1>4, <1>5, <2>1, FS_Subset
<1> QED BY <1>1, <1>2, <1>4, <1>6

\* What an output adds to the sets of an address.
LEMMA OutputAdds ==
  ASSUME NEW c, NEW R, NEW S, Among(c, R, S), NEW a, NEW p, p \notin R,
         NEW R2, R2 = R \cup {p}
  PROVE  /\ OutputAt(c, p).address = a =>
              /\ Received(c, a, R2) = Received(c, a, R) \cup {p}
              /\ p \notin Received(c, a, R)
              /\ Unspent(c, a, R2, S) = Unspent(c, a, R, S) \cup {p}
              /\ p \notin Unspent(c, a, R, S) /\ p \notin Spent(c, a, S)
              /\ TxidsOf(c, a, R2, S) = TxidsOf(c, a, R, S) \cup {p.txid}
         /\ OutputAt(c, p).address # a =>
              /\ Received(c, a, R2) = Received(c, a, R)
              /\ Unspent(c, a, R2, S) = Unspent(c, a, R, S)
              /\ TxidsOf(c, a, R2, S) = TxidsOf(c, a, R, S)
<1>1. /\ OutputAt(c, p).address = a => Received(c, a, R2) = Received(c, a, R) \cup {p}
      /\ OutputAt(c, p).address # a => Received(c, a, R2) = Received(c, a, R)
      /\ p \notin Received(c, a, R)
  BY DEF Received
<1>2. p \notin Spent(c, a, S)
  BY DEF Among, Spent, Sent
<1> QED BY <1>1, <1>2 DEF Unspent, TxidsOf

\* What an input adds to them and takes from them.
LEMMA InputAdds ==
  ASSUME NEW c, IsChain(c), NEW R, NEW S, Among(c, R, S), NEW a,
         NEW q, q \in Inputs(c), q \notin S, NEW p, p \in R, p = Prevout(c, q),
         NEW S2, S2 = S \cup {q}
  PROVE  /\ OutputAt(c, p).address = a =>
              /\ Sent(c, a, S2) = Sent(c, a, S) \cup {q}
              /\ Spent(c, a, S2) = Spent(c, a, S) \cup {p} /\ p \notin Spent(c, a, S)
              /\ Unspent(c, a, R, S2) = Unspent(c, a, R, S) \ {p}
              /\ p \in Unspent(c, a, R, S) /\ p \in Received(c, a, R)
              /\ TxidsOf(c, a, R, S2) = TxidsOf(c, a, R, S) \cup {q.txid}
         /\ OutputAt(c, p).address # a =>
              /\ Sent(c, a, S2) = Sent(c, a, S)
              /\ Spent(c, a, S2) = Spent(c, a, S)
              /\ Unspent(c, a, R, S2) = Unspent(c, a, R, S)
              /\ TxidsOf(c, a, R, S2) = TxidsOf(c, a, R, S)
<1>1. /\ OutputAt(c, p).address = a => Sent(c, a, S2) = Sent(c, a, S) \cup {q}
      /\ OutputAt(c, p).address # a => Sent(c, a, S2) = Sent(c, a, S)
  BY DEF Sent
<1>2. /\ OutputAt(c, p).address = a => Spent(c, a, S2) = Spent(c, a, S) \cup {p}
      /\ OutputAt(c, p).address # a => Spent(c, a, S2) = Spent(c, a, S)
  BY <1>1 DEF Spent
<1>3. \A r \in S : Prevout(c, r) # p
  BY DEF Among, IsChain
<1>4. p \notin Spent(c, a, S)
  BY <1>3 DEF Spent, Sent
<1>5. OutputAt(c, p).address = a => p \in Received(c, a, R)
  BY DEF Received
<1> QED BY <1>1, <1>2, <1>4, <1>5 DEF Unspent, TxidsOf

\* The least and greatest height with one more transaction at the top.
LEMMA HeightsAdd ==
  ASSUME NEW T, \A t \in T : t[1] \in Nat, NEW u, u[1] \in Nat, \A t \in T : t[1] <= u[1]
  PROVE  /\ Max(Heights(T \cup {u})) = u[1]
         /\ Min(Heights(T \cup {u})) = IF T = {} THEN u[1] ELSE Min(Heights(T))
         /\ T # {} => /\ Min(Heights(T)) \in Nat /\ Min(Heights(T)) <= u[1]
                      /\ Max(Heights(T)) \in Nat /\ Max(Heights(T)) <= u[1]
<1> DEFINE H == Heights(T)
           G == Heights(T \cup {u})
<1>1. PICK h : h = u[1]
  OBVIOUS
<1>2. h \in Nat /\ H \in SUBSET 0..h /\ G = H \cup {h} /\ (T = {} <=> H = {})
  BY <1>1 DEF Heights
<1> HIDE DEF H, G
<1>3. G \in SUBSET 0..h /\ G # {}
  BY <1>2
<1>4. Min(G) \in G /\ Max(G) \in G /\ \A y \in G : Min(G) <= y /\ y <= Max(G)
  BY <1>2, <1>3, MinMax
<1>5. H # {} => Min(H) \in H /\ Max(H) \in H /\ \A y \in H : Min(H) <= y /\ y <= Max(H)
  BY <1>2, MinMax
<1>6. PICK mg, xg : mg = Min(G) /\ xg = Max(G)
  OBVIOUS
<1>7. PICK mh, xh : mh = Min(H) /\ xh = Max(H)
  OBVIOUS
<1>8. xg = h
  <2>1. xg \in 0..h /\ h <= xg
    BY <1>2, <1>3, <1>4, <1>6
  <2> QED BY <1>2, <2>1
<1>9. H # {} => mh \in 0..h /\ xh \in 0..h /\ mh \in G /\ \A y \in H : mh <= y
  BY <1>2, <1>5, <1>7
<1>10. mg \in G /\ mg \in 0..h /\ \A y \in G : mg <= y
  BY <1>3, <1>4, <1>6
<1>11. mg = IF H = {} THEN h ELSE mh
  <2>1. CASE H = {}
    BY <1>2, <1>10, <2>1
  <2>2. CASE H # {}
    <3>1. mg <= mh
      BY <1>9, <1>10, <2>2
    <3>2. mh <= mg
      BY <1>2, <1>9, <1>10, <2>2
    <3> QED BY <1>2, <1>9, <1>10, <2>2, <3>1, <3>2
  <2> QED BY <2>1, <2>2
<1>12. H # {} => mh \in Nat /\ mh <= h /\ xh \in Nat /\ xh <= h
  BY <1>2, <1>9
<1> QED BY <1>1, <1>2, <1>6, <1>7, <1>8, <1>11, <1>12 DEF H, G

\* What getSummaryForMutation() hands out: all but the last height is right.
Carries(s, c, a, R, S, h) ==
  LET T == TxidsOf(c, a, R, S)
  IN  /\ s = [first |-> IF T = {} THEN h ELSE Min(Heights(T)), last |-> s.last,
              received |-> ValueOf(c, Received(c, a, R)), sent |-> ValueOf(c, Spent(c, a, S)),
              balance |-> ValueOf(c, Received(c, a, R)) - ValueOf(c, Spent(c, a, S)),
              txCount |-> Cardinality(T),
              utxoCount |-> Cardinality(Unspent(c, a, R, S)),
              utxoValue |-> ValueOf(c, Unspent(c, a, R, S))]
      /\ HigherOf(s.last, h) = h

\* A new summary carries an address without transactions.
LEMMA NothingYet ==
  ASSUME NEW c, NEW a, NEW R, NEW S, TxidsOf(c, a, R, S) = {}
  PROVE  Received(c, a, R) = {} /\ Sent(c, a, S) = {} /\ Spent(c, a, S) = {}
         /\ Unspent(c, a, R, S) = {}
<1>1. Received(c, a, R) = {} /\ Sent(c, a, S) = {}
  BY DEF TxidsOf
<1> QED BY <1>1 DEF Spent, Unspent

\* createSummary() carries it.
LEMMA NewCarries ==
  ASSUME NEW c, NEW a, NEW R, NEW S, NEW h \in Nat, TxidsOf(c, a, R, S) = {}
  PROVE  Carries(NewSummary(h), c, a, R, S, h)
<1>1. Received(c, a, R) = {} /\ Spent(c, a, S) = {} /\ Unspent(c, a, R, S) = {}
  BY NothingYet
<1>2. ValueOf(c, {}) = 0 /\ Cardinality({}) = 0
  BY ValueOfNone, FS_EmptySet
<1> QED BY <1>1, <1>2 DEF Carries, NewSummary, HigherOf

\* The address's own summary carries it.
LEMMA OldCarries ==
  ASSUME NEW c, IsChain(c), NEW R, NEW S, Among(c, R, S), NEW a, NEW h \in Nat,
         TxidsOf(c, a, R, S) # {}, \A t \in TxidsOf(c, a, R, S) : t[1] <= h
  PROVE  LET s == SummaryOf(c, a, R, S)
         IN  /\ Carries(s, c, a, R, S, h)
             /\ Carries([s EXCEPT !.first = LowerOf(@, h), !.last = HigherOf(@, h)], c, a, R, S, h)
<1> DEFINE T == TxidsOf(c, a, R, S)
<1>1. \A t \in T : t[1] \in Nat
  BY AmongFacts, TxFacts
<1>2. PICK u : u = <<h, 0>>
  OBVIOUS
<1>3. u[1] = h
  BY <1>2
<1> HIDE DEF T
<1>4. /\ Min(Heights(T)) \in Nat /\ Min(Heights(T)) <= h
      /\ Max(Heights(T)) \in Nat /\ Max(Heights(T)) <= h
  <2>1. T # {} /\ \A t \in T : t[1] <= u[1]
    BY <1>3 DEF T
  <2> QED BY <1>1, <1>3, <2>1, HeightsAdd
<1>5. PICK m, x : m = Min(Heights(T)) /\ x = Max(Heights(T))
  OBVIOUS
<1>6. LowerOf(m, h) = m /\ HigherOf(x, h) = h /\ HigherOf(h, h) = h
  BY <1>4, <1>5 DEF LowerOf, HigherOf
<1>7. T # {}
  BY DEF T
<1>8. PICK r, e, b, n, k, v :
        /\ r = ValueOf(c, Received(c, a, R)) /\ e = ValueOf(c, Spent(c, a, S))
        /\ b = ValueOf(c, Received(c, a, R)) - ValueOf(c, Spent(c, a, S))
        /\ n = Cardinality(T) /\ k = Cardinality(Unspent(c, a, R, S))
        /\ v = ValueOf(c, Unspent(c, a, R, S))
  OBVIOUS
<1> DEFINE Rec(l) == [first |-> m, last |-> l, received |-> r, sent |-> e, balance |-> b,
                      txCount |-> n, utxoCount |-> k, utxoValue |-> v]
<1>9. SummaryOf(c, a, R, S) = Rec(x)
  BY <1>5, <1>8 DEF SummaryOf, T
<1>10. \A s : Carries(s, c, a, R, S, h) <=> s = Rec(s.last) /\ HigherOf(s.last, h) = h
  BY <1>5, <1>7, <1>8 DEF Carries, T
<1>11. \A s : s = Rec(x) => [s EXCEPT !.first = LowerOf(@, h), !.last = HigherOf(@, h)] = Rec(h)
  <2> SUFFICES ASSUME NEW s, s = Rec(x)
               PROVE  [s EXCEPT !.first = LowerOf(@, h), !.last = HigherOf(@, h)] = Rec(h)
    OBVIOUS
  <2>1. s.first = m /\ s.last = x
    OBVIOUS
  <2>2. PICK s1 : s1 = [s EXCEPT !.first = m]
    OBVIOUS
  <2>3. s1 = Rec(x)
    BY <2>2
  <2>4. [s1 EXCEPT !.last = h] = Rec(h)
    BY <2>3
  <2>5. [s EXCEPT !.first = m, !.last = h] = [s1 EXCEPT !.last = h]
    BY <2>2
  <2> QED BY <1>6, <2>1, <2>4, <2>5
<1>12. Rec(x).last = x /\ Rec(h).last = h
  OBVIOUS
<1> HIDE DEF Rec
<1> QED BY <1>6, <1>9, <1>10, <1>11, <1>12

\* What processBlockHash() and applyOutbound() make of it.
LEMMA InboundSummary ==
  ASSUME NEW s, NEW l, NEW h, NEW r, NEW e, NEW b, NEW n, NEW k, NEW v, NEW f, NEW i, NEW w,
         s = [first |-> f, last |-> l, received |-> r, sent |-> e, balance |-> b,
              txCount |-> n, utxoCount |-> k, utxoValue |-> v],
         LowerOf(f, h) = f, HigherOf(l, h) = h
  PROVE  WithOutput(s, h, w, i)
           = [first |-> f, last |-> h, received |-> r + w, sent |-> e, balance |-> b + w,
              txCount |-> n + i, utxoCount |-> k + 1, utxoValue |-> v + w]
<1>1. PICK s1 : s1 = [s EXCEPT !.txCount = @ + i]
  OBVIOUS
<1>2. s1 = [first |-> f, last |-> l, received |-> r, sent |-> e, balance |-> b,
            txCount |-> n + i, utxoCount |-> k, utxoValue |-> v]
  BY <1>1
<1>3. PICK s2 : s2 = [s1 EXCEPT !.first = LowerOf(@, h)]
  OBVIOUS
<1>4. s2 = [first |-> f, last |-> l, received |-> r, sent |-> e, balance |-> b,
            txCount |-> n + i, utxoCount |-> k, utxoValue |-> v]
  BY <1>2, <1>3
<1>5. PICK s3 : s3 = [s2 EXCEPT !.last = HigherOf(@, h)]
  OBVIOUS
<1>6. s3 = [first |-> f, last |-> h, received |-> r, sent |-> e, balance |-> b,
            txCount |-> n + i, utxoCount |-> k, utxoValue |-> v]
  BY <1>4, <1>5
<1>7. PICK s4 : s4 = [s3 EXCEPT !.received = @ + w]
  OBVIOUS
<1>8. s4 = [first |-> f, last |-> h, received |-> r + w, sent |-> e, balance |-> b,
            txCount |-> n + i, utxoCount |-> k, utxoValue |-> v]
  BY <1>6, <1>7
<1>9. PICK s5 : s5 = [s4 EXCEPT !.balance = @ + w]
  OBVIOUS
<1>10. s5 = [first |-> f, last |-> h, received |-> r + w, sent |-> e, balance |-> b + w,
             txCount |-> n + i, utxoCount |-> k, utxoValue |-> v]
  BY <1>8, <1>9
<1>11. PICK s6 : s6 = [s5 EXCEPT !.utxoCount = @ + 1]
  OBVIOUS
<1>12. s6 = [first |-> f, last |-> h, received |-> r + w, sent |-> e, balance |-> b + w,
             txCount |-> n + i, utxoCount |-> k + 1, utxoValue |-> v]
  BY <1>10, <1>11
<1>13. [s6 EXCEPT !.utxoValue = @ + w]
         = [first |-> f, last |-> h, received |-> r + w, sent |-> e, balance |-> b + w,
            txCount |-> n + i, utxoCount |-> k + 1, utxoValue |-> v + w]
  BY <1>12
<1> QED BY <1>1, <1>3, <1>5, <1>7, <1>9, <1>11, <1>13 DEF WithOutput

\* The fields that applyOutbound() gives.
LEMMA OutboundSummary ==
  ASSUME NEW s, NEW l, NEW h, NEW r, NEW e, NEW b, NEW n, NEW k, NEW v, NEW f, NEW i, NEW w,
         s = [first |-> f, last |-> l, received |-> r, sent |-> e, balance |-> b,
              txCount |-> n, utxoCount |-> k, utxoValue |-> v],
         HigherOf(l, h) = h, HigherOf(0, k - 1) = k - 1, HigherOf(0, v - w) = v - w
  PROVE  WithInput(s, h, w, i)
           = [first |-> f, last |-> h, received |-> r, sent |-> e + w, balance |-> b - w,
              txCount |-> n + i, utxoCount |-> k - 1, utxoValue |-> v - w]
<1>1. PICK s1 : s1 = [s EXCEPT !.txCount = @ + i]
  OBVIOUS
<1>2. s1 = [first |-> f, last |-> l, received |-> r, sent |-> e, balance |-> b,
            txCount |-> n + i, utxoCount |-> k, utxoValue |-> v]
  BY <1>1
<1>3. PICK s2 : s2 = [s1 EXCEPT !.last = HigherOf(@, h)]
  OBVIOUS
<1>4. s2 = [first |-> f, last |-> h, received |-> r, sent |-> e, balance |-> b,
            txCount |-> n + i, utxoCount |-> k, utxoValue |-> v]
  BY <1>2, <1>3
<1>5. PICK s3 : s3 = [s2 EXCEPT !.sent = @ + w]
  OBVIOUS
<1>6. s3 = [first |-> f, last |-> h, received |-> r, sent |-> e + w, balance |-> b,
            txCount |-> n + i, utxoCount |-> k, utxoValue |-> v]
  BY <1>4, <1>5
<1>7. PICK s4 : s4 = [s3 EXCEPT !.balance = @ - w]
  OBVIOUS
<1>8. s4 = [first |-> f, last |-> h, received |-> r, sent |-> e + w, balance |-> b - w,
            txCount |-> n + i, utxoCount |-> k, utxoValue |-> v]
  BY <1>6, <1>7
<1>9. PICK s5 : s5 = [s4 EXCEPT !.utxoCount = HigherOf(0, @ - 1)]
  OBVIOUS
<1>10. s5 = [first |-> f, last |-> h, received |-> r, sent |-> e + w, balance |-> b - w,
             txCount |-> n + i, utxoCount |-> k - 1, utxoValue |-> v]
  BY <1>8, <1>9
<1>11. [s5 EXCEPT !.utxoValue = HigherOf(0, @ - w)]
         = [first |-> f, last |-> h, received |-> r, sent |-> e + w, balance |-> b - w,
            txCount |-> n + i, utxoCount |-> k - 1, utxoValue |-> v - w]
  BY <1>10
<1> QED BY <1>1, <1>3, <1>5, <1>7, <1>9, <1>11 DEF WithInput

\* sanitizeSummary() of what is not negative.
LEMMA SanitizedIsSame ==
  ASSUME NEW s, NEW l, NEW r, NEW e, NEW b \in Nat, NEW n, NEW k \in Nat, NEW v \in Nat, NEW f,
         s = [first |-> f, last |-> l, received |-> r, sent |-> e, balance |-> b,
              txCount |-> n, utxoCount |-> k, utxoValue |-> v]
  PROVE  Sanitize(s) = s
<1>1. HigherOf(0, b) = b /\ HigherOf(0, k) = k /\ HigherOf(0, v) = v
  BY DEF HigherOf
<1>2. PICK s1 : s1 = [s EXCEPT !.balance = HigherOf(0, @)]
  OBVIOUS
<1>3. s1 = s
  BY <1>1, <1>2
<1>4. PICK s2 : s2 = [s1 EXCEPT !.utxoCount = HigherOf(0, @)]
  OBVIOUS
<1>5. s2 = s
  BY <1>1, <1>3, <1>4
<1>6. [s2 EXCEPT !.utxoValue = HigherOf(0, @)] = s
  BY <1>1, <1>5
<1> QED BY <1>2, <1>4, <1>6 DEF Sanitize

\* An output adds to the summary of its address what processBlockHash() adds.
LEMMA OutputSummary ==
  ASSUME NEW c, IsChain(c), NEW R, NEW S, Among(c, R, S),
         NEW p, p \in Outputs(c), p \notin R, NEW R2, R2 = R \cup {p},
         NEW a, OutputAt(c, p).address = a,
         NEW h \in Nat, p.txid[1] = h, \A t \in TxidsOf(c, a, R, S) : t[1] <= h,
         NEW s, Carries(s, c, a, R, S, h),
         NEW i, i = IF p.txid \in TxidsOf(c, a, R, S) THEN 0 ELSE 1,
         NEW w, w = OutputAt(c, p).value
  PROVE  WithOutput(s, h, w, i) = SummaryOf(c, a, R2, S)
<1> DEFINE T == TxidsOf(c, a, R, S)
           P == Received(c, a, R)
           Q == Spent(c, a, S)
           U == Unspent(c, a, R, S)
           u == p.txid
<1>1. /\ Received(c, a, R2) = P \cup {p} /\ p \notin P
      /\ Unspent(c, a, R2, S) = U \cup {p} /\ p \notin U
      /\ TxidsOf(c, a, R2, S) = T \cup {u}
  <2>1. Received(c, a, R2) = P \cup {p}
    BY DEF Received
  <2>5. p \notin P
    BY DEF Received
  <2>2. TxidsOf(c, a, R2, S) = T \cup {u}
    BY <2>1 DEF TxidsOf
  <2>3. p \notin Q
    BY OutputAdds
  <2>4. Unspent(c, a, R2, S) = U \cup {p} /\ p \notin U
    BY <2>1, <2>3, <2>5 DEF Unspent
  <2> QED BY <2>1, <2>5, <2>2, <2>4
<1>2. /\ P \subseteq Outputs(c) /\ Q \subseteq P /\ U \subseteq P
      /\ IsFiniteSet(P) /\ IsFiniteSet(Q) /\ IsFiniteSet(U)
      /\ IsFiniteSet(T) /\ T \subseteq Txids(c)
      /\ \A o \in Outputs(c) : OutputAt(c, o).value \in Nat
  BY AmongFacts
<1>3. w \in Nat /\ u[1] \in Nat /\ h \in Nat
  BY <1>2, OutputFacts
<1>4. \A t \in T : t[1] \in Nat
  BY <1>2, TxFacts
<1>5. \A t \in T : t[1] <= u[1]
  OBVIOUS
<1> HIDE DEF T, P, Q, U, u
<1>6. ValueOf(c, P \cup {p}) = ValueOf(c, P) + w /\ ValueOf(c, U \cup {p}) = ValueOf(c, U) + w
  <2>1. OutputAt(c, p).value \in Nat /\ \A x \in P : OutputAt(c, x).value \in Nat
    BY <1>2
  <2>2. \A x \in U : OutputAt(c, x).value \in Nat
    BY <1>2
  <2>3. ValueOf(c, P \cup {p}) = ValueOf(c, P) + OutputAt(c, p).value
    BY <1>1, <1>2, <2>1, ValueAdds
  <2>4. ValueOf(c, U \cup {p}) = ValueOf(c, U) + OutputAt(c, p).value
    BY <1>1, <1>2, <2>1, <2>2, ValueAdds
  <2> QED BY <2>3, <2>4
<1>7. Cardinality(U \cup {p}) = Cardinality(U) + 1
  BY <1>1, <1>2, FS_AddElement
<1>8. Cardinality(T \cup {u}) = Cardinality(T) + i
  <2>1. Cardinality(T \cup {u}) = IF u \in T THEN Cardinality(T) ELSE Cardinality(T) + 1
    BY <1>2, FS_AddElement
  <2>2. Cardinality(T) \in Nat /\ i = IF u \in T THEN 0 ELSE 1
    BY <1>2, FS_CardinalityType DEF T, u
  <2> QED BY <2>1, <2>2
<1>9. /\ Max(Heights(T \cup {u})) = h
      /\ Min(Heights(T \cup {u})) = IF T = {} THEN h ELSE Min(Heights(T))
      /\ T # {} => Min(Heights(T)) \in Nat /\ Min(Heights(T)) <= h
  <2>1. u[1] = h
    BY DEF u
  <2> QED BY <1>3, <1>4, <1>5, <2>1, HeightsAdd
<1>10. PICK f, l, r, e, b, n, k, v :
         /\ f = IF T = {} THEN h ELSE Min(Heights(T))
         /\ l = s.last /\ r = ValueOf(c, P) /\ e = ValueOf(c, Q)
         /\ b = ValueOf(c, P) - ValueOf(c, Q)
         /\ n = Cardinality(T) /\ k = Cardinality(U) /\ v = ValueOf(c, U)
  OBVIOUS
<1>11. /\ s = [first |-> f, last |-> l, received |-> r, sent |-> e, balance |-> b,
               txCount |-> n, utxoCount |-> k, utxoValue |-> v]
       /\ HigherOf(l, h) = h
  BY <1>10 DEF Carries, T, P, Q, U
<1>12. LowerOf(f, h) = f
  BY <1>3, <1>9, <1>10 DEF LowerOf
<1>13. WithOutput(s, h, w, i)
         = [first |-> f, last |-> h, received |-> r + w, sent |-> e, balance |-> b + w,
            txCount |-> n + i, utxoCount |-> k + 1, utxoValue |-> v + w]
  BY <1>11, <1>12, InboundSummary
<1>14. r \in Nat /\ e \in Nat /\ (r + w) - e = b + w
  <2>1. r \in Nat
    BY <1>2, <1>10, FiniteSatoshis
  <2>2. \A x \in Q : OutputAt(c, x).value \in Nat
    BY <1>2
  <2>3. e \in Nat
    BY <1>2, <1>10, <2>2, FiniteSatoshis
  <2> QED BY <1>3, <1>10, <2>1, <2>3
<1>15. SummaryOf(c, a, R2, S)
         = [first |-> f, last |-> h, received |-> r + w, sent |-> e, balance |-> (r + w) - e,
            txCount |-> n + i, utxoCount |-> k + 1, utxoValue |-> v + w]
  <2>1. /\ Received(c, a, R2) = P \cup {p} /\ Spent(c, a, S) = Q
        /\ Unspent(c, a, R2, S) = U \cup {p}
        /\ TxidsOf(c, a, R2, S) = T \cup {u}
    BY <1>1 DEF Q
  <2>2. /\ ValueOf(c, P \cup {p}) = r + w /\ ValueOf(c, Q) = e /\ ValueOf(c, U \cup {p}) = v + w
        /\ Cardinality(U \cup {p}) = k + 1 /\ Cardinality(T \cup {u}) = n + i
        /\ Max(Heights(T \cup {u})) = h /\ Min(Heights(T \cup {u})) = f
    BY <1>6, <1>7, <1>8, <1>9, <1>10
  <2> QED BY <2>1, <2>2 DEF SummaryOf
<1> QED BY <1>13, <1>14, <1>15

\* An input takes from it what applyOutbound() takes, and clamps nothing.
LEMMA InputSummary ==
  ASSUME NEW c, IsChain(c), NEW R, NEW S, Among(c, R, S),
         NEW q, q \in Inputs(c), q \notin S, NEW p, p \in R, p = Prevout(c, q),
         NEW S2, S2 = S \cup {q},
         NEW a, OutputAt(c, p).address = a,
         NEW h \in Nat, q.txid[1] = h, \A t \in TxidsOf(c, a, R, S) : t[1] <= h,
         NEW s, Carries(s, c, a, R, S, h),
         NEW i, i = IF q.txid \in TxidsOf(c, a, R, S) THEN 0 ELSE 1,
         NEW w, w = OutputAt(c, p).value
  PROVE  WithInput(s, h, w, i)
           = SummaryOf(c, a, R, S2)
<1> DEFINE T == TxidsOf(c, a, R, S)
           P == Received(c, a, R)
           Q == Spent(c, a, S)
           U == Unspent(c, a, R, S)
           u == q.txid
<1>1. /\ Spent(c, a, S2) = Q \cup {p} /\ p \notin Q
      /\ Unspent(c, a, R, S2) = U \ {p} /\ p \in U /\ p \in P
      /\ TxidsOf(c, a, R, S2) = T \cup {u}
  BY InputAdds
<1>2. /\ P \subseteq Outputs(c) /\ Q \subseteq P /\ U \subseteq P
      /\ IsFiniteSet(P) /\ IsFiniteSet(Q) /\ IsFiniteSet(U)
      /\ IsFiniteSet(T) /\ T \subseteq Txids(c)
      /\ \A o \in Outputs(c) : OutputAt(c, o).value \in Nat
  BY AmongFacts
<1>3. p.txid \in T
  BY <1>1 DEF TxidsOf
<1>4. \A t \in T : t[1] \in Nat
  BY <1>2, TxFacts
<1>5. \A t \in T : t[1] <= u[1]
  OBVIOUS
<1> HIDE DEF T, P, Q, U, u
<1>6. w \in Nat /\ \A x \in Q \cup U : OutputAt(c, x).value \in Nat
  BY <1>1, <1>2
<1>7. ValueOf(c, Q \cup {p}) = ValueOf(c, Q) + w
  <2>1. OutputAt(c, p).value \in Nat /\ \A x \in Q : OutputAt(c, x).value \in Nat
    BY <1>6
  <2>2. ValueOf(c, Q \cup {p}) = ValueOf(c, Q) + OutputAt(c, p).value
    BY <1>1, <1>2, <2>1, ValueAdds
  <2> QED BY <2>2
<1>8. ValueOf(c, U \ {p}) = ValueOf(c, U) - w /\ ValueOf(c, U) >= w
  <2>1. \A x \in U : OutputAt(c, x).value \in Nat
    BY <1>6
  <2>2. /\ ValueOf(c, U \ {p}) = ValueOf(c, U) - OutputAt(c, p).value
        /\ ValueOf(c, U) >= OutputAt(c, p).value
    BY <1>1, <1>2, <2>1, ValueTakes
  <2> QED BY <2>2
<1>9. Cardinality(U \ {p}) = Cardinality(U) - 1 /\ Cardinality(U) \in Nat /\ Cardinality(U) # 0
  BY <1>1, <1>2, FS_RemoveElement, FS_CardinalityType, FS_EmptySet
<1>10. Cardinality(T \cup {u}) = Cardinality(T) + i
  <2>1. Cardinality(T \cup {u}) = IF u \in T THEN Cardinality(T) ELSE Cardinality(T) + 1
    BY <1>2, FS_AddElement
  <2>2. Cardinality(T) \in Nat /\ i = IF u \in T THEN 0 ELSE 1
    BY <1>2, FS_CardinalityType DEF T, u
  <2> QED BY <2>1, <2>2
<1>11. T # {} /\ Max(Heights(T \cup {u})) = h /\ Min(Heights(T \cup {u})) = Min(Heights(T))
  <2>1. u[1] = h /\ u[1] \in Nat
    BY DEF u
  <2> QED BY <1>3, <1>4, <1>5, <2>1, HeightsAdd
<1>12. PICK f, l, r, e, b, n, k, v :
         /\ f = Min(Heights(T))
         /\ l = s.last /\ r = ValueOf(c, P) /\ e = ValueOf(c, Q)
         /\ b = ValueOf(c, P) - ValueOf(c, Q)
         /\ n = Cardinality(T) /\ k = Cardinality(U) /\ v = ValueOf(c, U)
  OBVIOUS
<1>13. /\ s = [first |-> f, last |-> l, received |-> r, sent |-> e, balance |-> b,
               txCount |-> n, utxoCount |-> k, utxoValue |-> v]
       /\ HigherOf(l, h) = h
  BY <1>11, <1>12 DEF Carries, T, P, Q, U
<1>14. v \in Nat /\ k \in Nat
  BY <1>2, <1>6, <1>9, <1>12, FiniteSatoshis
<1>15. HigherOf(0, k - 1) = k - 1 /\ HigherOf(0, v - w) = v - w
  <2>1. k - 1 >= 0 /\ k - 1 \in Int
    BY <1>9, <1>12, <1>14
  <2>2. v - w >= 0 /\ v - w \in Int
    BY <1>6, <1>8, <1>12, <1>14
  <2> QED BY <2>1, <2>2 DEF HigherOf
<1>16. WithInput(s, h, w, i)
         = [first |-> f, last |-> h, received |-> r, sent |-> e + w, balance |-> b - w,
            txCount |-> n + i, utxoCount |-> k - 1, utxoValue |-> v - w]
  BY <1>13, <1>15, OutboundSummary
<1>17. r \in Nat /\ e \in Nat /\ r - (e + w) = b - w
  <2>1. r \in Nat
    BY <1>2, <1>12, FiniteSatoshis
  <2>2. \A x \in Q : OutputAt(c, x).value \in Nat
    BY <1>2
  <2>3. e \in Nat
    BY <1>2, <1>12, <2>2, FiniteSatoshis
  <2> QED BY <1>6, <1>12, <2>1, <2>3
<1>18. SummaryOf(c, a, R, S2)
         = [first |-> f, last |-> h, received |-> r, sent |-> e + w, balance |-> r - (e + w),
            txCount |-> n + i, utxoCount |-> k - 1, utxoValue |-> v - w]
  <2>1. /\ Received(c, a, R) = P /\ Spent(c, a, S2) = Q \cup {p}
        /\ Unspent(c, a, R, S2) = U \ {p}
        /\ TxidsOf(c, a, R, S2) = T \cup {u}
    BY <1>1 DEF P
  <2>2. /\ ValueOf(c, Q \cup {p}) = e + w /\ ValueOf(c, P) = r /\ ValueOf(c, U \ {p}) = v - w
        /\ Cardinality(U \ {p}) = k - 1 /\ Cardinality(T \cup {u}) = n + i
        /\ Max(Heights(T \cup {u})) = h /\ Min(Heights(T \cup {u})) = f
    BY <1>7, <1>8, <1>9, <1>10, <1>11, <1>12
  <2> QED BY <2>1, <2>2 DEF SummaryOf
<1> QED BY <1>16, <1>17, <1>18

\* sanitizeSummary() changes nothing.
LEMMA SummarySanitized ==
  ASSUME NEW c, IsChain(c), NEW R, NEW S, Among(c, R, S), NEW a, TxidsOf(c, a, R, S) # {}
  PROVE  /\ Sanitize(SummaryOf(c, a, R, S)) = SummaryOf(c, a, R, S)
         /\ SummaryOf(c, a, R, S) \in Summaries
<1> DEFINE T == TxidsOf(c, a, R, S)
           P == Received(c, a, R)
           Q == Spent(c, a, S)
           U == Unspent(c, a, R, S)
<1>1. /\ P \subseteq Outputs(c) /\ Q \subseteq P /\ U \subseteq P
      /\ IsFiniteSet(P) /\ IsFiniteSet(Q) /\ IsFiniteSet(U)
      /\ IsFiniteSet(T) /\ T \subseteq Txids(c)
      /\ \A o \in Outputs(c) : OutputAt(c, o).value \in Nat
  BY AmongFacts
<1>2. /\ \A t \in T : t[1] \in Nat /\ t[1] < Len(c)
      /\ Len(c) \in Nat
  BY <1>1, TxFacts, ChainFacts
<1>3. T # {}
  OBVIOUS
<1> HIDE DEF T, P, Q, U
<1>4. PICK f, l, r, e, b, n, k, v :
        /\ f = Min(Heights(T)) /\ l = Max(Heights(T))
        /\ r = ValueOf(c, P) /\ e = ValueOf(c, Q) /\ b = ValueOf(c, P) - ValueOf(c, Q)
        /\ n = Cardinality(T) /\ k = Cardinality(U) /\ v = ValueOf(c, U)
  OBVIOUS
<1>5. SummaryOf(c, a, R, S)
        = [first |-> f, last |-> l, received |-> r, sent |-> e, balance |-> b,
           txCount |-> n, utxoCount |-> k, utxoValue |-> v]
  BY <1>4 DEF SummaryOf, T, P, Q, U
<1>6. /\ \A x \in P : OutputAt(c, x).value \in Nat
      /\ \A x \in Q : OutputAt(c, x).value \in Nat
      /\ \A x \in U : OutputAt(c, x).value \in Nat
  BY <1>1
<1>7. r \in Nat /\ e \in Nat /\ v \in Nat
  BY <1>1, <1>4, <1>6, FiniteSatoshis
<1>8. e <= r
  BY <1>1, <1>4, <1>6, ValueOfFewer
<1>9. b \in Nat
  BY <1>4, <1>7, <1>8
<1>10. n \in Nat /\ k \in Nat
  BY <1>1, <1>4, FS_CardinalityType
<1>11. f \in Nat /\ l \in Nat
  <2>1. PICK u : u = <<Len(c), 0>>
    OBVIOUS
  <2>2. u[1] \in Nat /\ \A t \in T : t[1] \in Nat /\ t[1] <= u[1]
    BY <1>2, <2>1
  <2> QED BY <1>3, <1>4, <2>2, HeightsAdd
<1>12. Sanitize(SummaryOf(c, a, R, S)) = SummaryOf(c, a, R, S)
  BY <1>5, <1>7, <1>9, <1>10, SanitizedIsSame
<1> QED BY <1>5, <1>7, <1>9, <1>10, <1>11, <1>12 DEF Summaries

--------------------------------------------------------------------------------
(* How far the scan has come. *)

\* At the start of a block all below it has been handled.
LEMMA BlockStart ==
  ASSUME NEW c, IsChain(c), NEW n \in Nat
  PROVE  /\ OutputsBefore(c, <<n, 0, 0>>) = {p \in Outputs(c) : p.txid[1] < n}
         /\ InputsBefore(c, <<n, 0, 0>>) = {q \in Inputs(c) : q.txid[1] < n}
<1>1. ASSUME NEW t \in Txids(c), NEW j PROVE Before(t, j, <<n, 0, 0>>) <=> t[1] < n
  <2>1. t[1] \in Nat /\ t[2] \in Nat /\ t[2] > 0
    BY TxFacts
  <2> QED BY <2>1 DEF Before
<1>2. \A p \in Outputs(c) : p.txid \in Txids(c)
  BY OutputsAre
<1>3. \A q \in Inputs(c) : q.txid \in Txids(c)
  BY InputsAre
<1>4. \A p \in Outputs(c) : Before(p.txid, p.vout, <<n, 0, 0>>) <=> p.txid[1] < n
  BY <1>1, <1>2
<1>5. \A q \in Inputs(c) :
        Before(q.txid, Len(TxAt(c, q.txid).vout) + q.index, <<n, 0, 0>>) <=> q.txid[1] < n
  BY <1>1, <1>3
<1> QED BY <1>4, <1>5 DEF OutputsBefore, InputsBefore

\* Nothing of the next transaction has been handled.
LEMMA BeforeTransaction ==
  ASSUME NEW c, IsChain(c), NEW n \in Nat, NEW t \in Nat, NEW a, NEW m
  PROVE  <<n, t + 1>> \notin TxidsOf(c, a, OutputsBefore(c, <<n, t + 1, 0>>),
                                       InputsBefore(c, <<n, t + 1, 0>>) \ m)
<1>1. ASSUME NEW u \in Txids(c), NEW j \in Nat, Before(u, j, <<n, t + 1, 0>>)
      PROVE  u # <<n, t + 1>>
  <2>1. u[1] \in Nat /\ u[2] \in Nat
    BY TxFacts
  <2>2. u[1] < n \/ (u[1] = n /\ u[2] < t + 1)
    BY <1>1, <2>1 DEF Before
  <2> QED BY <2>1, <2>2
<1>2. \A p \in OutputsBefore(c, <<n, t + 1, 0>>) : p.txid # <<n, t + 1>>
  BY <1>1, OutputsAre DEF OutputsBefore
<1>3. ASSUME NEW q \in InputsBefore(c, <<n, t + 1, 0>>) PROVE q.txid # <<n, t + 1>>
  <2>1. /\ q.txid \in Txids(c) /\ q.index \in Nat
        /\ Before(q.txid, Len(TxAt(c, q.txid).vout) + q.index, <<n, t + 1, 0>>)
    BY InputsAre DEF InputsBefore
  <2>2. Len(TxAt(c, q.txid).vout) + q.index \in Nat
    BY <2>1, TxFacts
  <2> QED BY <1>1, <2>1, <2>2
<1> QED BY <1>2, <1>3 DEF TxidsOf, Received, Sent

\* What an input spends has been handled before it, and no height is above the place.
LEMMA BeforeIsAmong ==
  ASSUME NEW c, IsChain(c), NEW n \in Nat, NEW t \in Nat, NEW i \in Nat, NEW m, NEW a
  PROVE  /\ Among(c, OutputsBefore(c, <<n, t, i>>), InputsBefore(c, <<n, t, i>>) \ m)
         /\ \A u \in TxidsOf(c, a, OutputsBefore(c, <<n, t, i>>),
                                InputsBefore(c, <<n, t, i>>) \ m) : u[1] <= n
<1> DEFINE at == <<n, t, i>>
<1>1. ASSUME NEW q \in InputsBefore(c, at) PROVE Prevout(c, q) \in OutputsBefore(c, at)
  <2>1. /\ q \in Inputs(c) /\ q.txid \in Txids(c) /\ q.index \in Nat
        /\ Before(q.txid, Len(TxAt(c, q.txid).vout) + q.index, at)
    BY InputsAre DEF InputsBefore
  <2>2. PICK p : p = Prevout(c, q)
    OBVIOUS
  <2>3. p \in Outputs(c) /\ Earlier(p.txid, q.txid)
    BY <2>1, <2>2 DEF IsChain
  <2>4. p.txid \in Txids(c)
    BY <2>3, OutputsAre
  <2>5. p.txid[1] \in Nat /\ p.txid[2] \in Nat /\ q.txid[1] \in Nat /\ q.txid[2] \in Nat
    BY <2>1, <2>4, TxFacts
  <2>6. q.txid[1] < n \/ (q.txid[1] = n /\ q.txid[2] <= t)
    BY <2>1, <2>5 DEF Before
  <2>7. p.txid[1] < n \/ (p.txid[1] = n /\ p.txid[2] < t)
    BY <2>3, <2>5, <2>6 DEF Earlier
  <2>8. Before(p.txid, p.vout, at)
    BY <2>7 DEF Before
  <2> QED BY <2>2, <2>3, <2>8 DEF OutputsBefore
<1>2. ASSUME NEW u \in Txids(c), NEW j, Before(u, j, at) PROVE u[1] <= n
  <2>1. u[1] \in Nat
    BY TxFacts
  <2> QED BY <1>2, <2>1 DEF Before
<1>3. \A p \in OutputsBefore(c, at) : p.txid[1] <= n
  BY <1>2, OutputsAre DEF OutputsBefore
<1>4. \A q \in InputsBefore(c, at) : q.txid[1] <= n
  BY <1>2, InputsAre DEF InputsBefore
<1>5. Among(c, OutputsBefore(c, at), InputsBefore(c, at) \ m)
  BY <1>1 DEF Among, OutputsBefore, InputsBefore
<1> HIDE DEF at
<1>6. \A u \in TxidsOf(c, a, OutputsBefore(c, at), InputsBefore(c, at) \ m) : u[1] <= n
  BY <1>3, <1>4 DEF TxidsOf, Received, Sent
<1> QED BY <1>5, <1>6 DEF at

\* The steps of processBlockHash().
LEMMA OutputStep ==
  ASSUME NEW c, IsChain(c), NEW n \in Nat, NEW t \in Nat, <<n, t>> \in Txids(c),
         NEW i \in Nat, i < Len(TxAt(c, <<n, t>>).vout), NEW p, p = OutPoint(<<n, t>>, i)
  PROVE  /\ p \in Outputs(c) /\ p \notin OutputsBefore(c, <<n, t, i>>)
         /\ OutputsBefore(c, <<n, t, i + 1>>) = OutputsBefore(c, <<n, t, i>>) \cup {p}
         /\ InputsBefore(c, <<n, t, i + 1>>) = InputsBefore(c, <<n, t, i>>)
<1> DEFINE x == <<n, t>>
<1>1. p.txid = x /\ p.vout = i
  BY DEF OutPoint
<1>2. p \in Outputs(c)
  BY <1>1, OutputsAre
<1>3. ~Before(p.txid, p.vout, <<n, t, i>>) /\ Before(p.txid, p.vout, <<n, t, i + 1>>)
  BY <1>1 DEF Before
<1>4. ASSUME NEW r \in Outputs(c), r # p
      PROVE  Before(r.txid, r.vout, <<n, t, i + 1>>) <=> Before(r.txid, r.vout, <<n, t, i>>)
  <2>1. r = OutPoint(r.txid, r.vout) /\ r.txid \in Txids(c) /\ r.vout \in Nat
    BY OutputsAre
  <2>2. r.txid[1] \in Nat /\ r.txid[2] \in Nat /\ r.txid = <<r.txid[1], r.txid[2]>>
    BY <2>1, TxFacts, TxidsAre
  <2>3. ~(r.txid[1] = n /\ r.txid[2] = t /\ r.vout = i)
    BY <1>4, <2>1, <2>2
  <2> QED BY <2>1, <2>2, <2>3 DEF Before
<1>5. ASSUME NEW q \in Inputs(c)
      PROVE  Before(q.txid, Len(TxAt(c, q.txid).vout) + q.index, <<n, t, i + 1>>)
               <=> Before(q.txid, Len(TxAt(c, q.txid).vout) + q.index, <<n, t, i>>)
  <2>1. q.txid \in Txids(c) /\ q.index \in Nat
    BY InputsAre
  <2>2. /\ q.txid[1] \in Nat /\ q.txid[2] \in Nat /\ q.txid = <<q.txid[1], q.txid[2]>>
        /\ Len(TxAt(c, q.txid).vout) \in Nat
    BY <2>1, TxFacts, TxidsAre
  <2>3. PICK k : k = Len(TxAt(c, q.txid).vout) + q.index
    OBVIOUS
  <2>4. k \in Nat /\ (q.txid = x => k # i)
    BY <2>1, <2>2, <2>3
  <2>5. q.txid[1] = n /\ q.txid[2] = t => k # i
    BY <2>2, <2>4
  <2>6. Before(q.txid, k, <<n, t, i + 1>>) <=> Before(q.txid, k, <<n, t, i>>)
    BY <2>2, <2>4, <2>5 DEF Before
  <2> QED BY <2>3, <2>6
<1>6. InputsBefore(c, <<n, t, i + 1>>) = InputsBefore(c, <<n, t, i>>)
  BY <1>5 DEF InputsBefore
<1>7. OutputsBefore(c, <<n, t, i + 1>>) = OutputsBefore(c, <<n, t, i>>) \cup {p}
  BY <1>2, <1>3, <1>4 DEF OutputsBefore
<1>8. p \notin OutputsBefore(c, <<n, t, i>>)
  BY <1>3 DEF OutputsBefore
<1> QED BY <1>2, <1>6, <1>7, <1>8

\* After an input.
LEMMA InputStep ==
  ASSUME NEW c, IsChain(c), NEW q \in Inputs(c), NEW n, NEW t, q.txid = <<n, t>>,
         NEW i, i = Len(TxAt(c, q.txid).vout) + q.index
  PROVE  /\ q \notin InputsBefore(c, <<n, t, i>>)
         /\ InputsBefore(c, <<n, t, i + 1>>) = InputsBefore(c, <<n, t, i>>) \cup {q}
         /\ OutputsBefore(c, <<n, t, i + 1>>) = OutputsBefore(c, <<n, t, i>>)
         /\ Prevout(c, q) \in OutputsBefore(c, <<n, t, i>>)
<1> DEFINE Nth(r) == Len(TxAt(c, r.txid).vout) + r.index
<1>1. PICK x, l, k : x = <<n, t>> /\ l = Len(TxAt(c, x).vout) /\ k = q.index
  OBVIOUS
<1>2. q.txid = x /\ q.index = k /\ i = l + k /\ Nth(q) = i
  BY <1>1
<1>3. /\ n \in Nat /\ t \in Nat /\ l \in Nat /\ k \in Nat /\ i \in Nat /\ x \in Txids(c)
      /\ q = [txid |-> x, index |-> k]
  <2>1. q = [txid |-> q.txid, index |-> q.index] /\ q.txid \in Txids(c) /\ q.index \in Nat
    BY InputsAre
  <2>2. x[1] \in Nat /\ x[2] \in Nat /\ l \in Nat
    BY <1>1, <2>1, TxFacts
  <2> QED BY <1>1, <1>2, <2>1, <2>2
<1>4. ~Before(x, i, <<n, t, i>>) /\ Before(x, i, <<n, t, i + 1>>)
  BY <1>1, <1>3 DEF Before
<1>5. ASSUME NEW r \in Inputs(c), r # q
      PROVE  Before(r.txid, Nth(r), <<n, t, i + 1>>) <=> Before(r.txid, Nth(r), <<n, t, i>>)
  <2>1. r = [txid |-> r.txid, index |-> r.index] /\ r.txid \in Txids(c) /\ r.index \in Nat
    BY InputsAre
  <2>2. /\ r.txid[1] \in Nat /\ r.txid[2] \in Nat /\ r.txid = <<r.txid[1], r.txid[2]>>
        /\ Len(TxAt(c, r.txid).vout) \in Nat
    BY <2>1, TxFacts, TxidsAre
  <2>3. PICK j : j = Nth(r)
    OBVIOUS
  <2>4. j \in Nat
    BY <2>1, <2>2, <2>3
  <2>5. ~(r.txid = x /\ j = i)
    <3> SUFFICES ASSUME r.txid = x, j = i PROVE FALSE
      OBVIOUS
    <3>1. l + r.index = l + k
      BY <1>1, <1>2, <2>3
    <3>2. r.index = k
      BY <1>3, <2>1, <3>1
    <3> QED BY <1>3, <1>5, <2>1, <3>2
  <2>6. ~(r.txid[1] = n /\ r.txid[2] = t /\ j = i)
    BY <1>1, <2>2, <2>5
  <2>7. Before(r.txid, j, <<n, t, i + 1>>) <=> Before(r.txid, j, <<n, t, i>>)
    BY <1>3, <2>2, <2>4, <2>6 DEF Before
  <2> QED BY <2>3, <2>7
<1>6. ASSUME NEW p \in Outputs(c)
      PROVE  Before(p.txid, p.vout, <<n, t, i + 1>>) <=> Before(p.txid, p.vout, <<n, t, i>>)
  <2>1. p.txid \in Txids(c) /\ p.vout \in Nat /\ p.vout < Len(TxAt(c, p.txid).vout)
    BY OutputsAre
  <2>2. p.txid[1] \in Nat /\ p.txid[2] \in Nat /\ p.txid = <<p.txid[1], p.txid[2]>>
    BY <2>1, TxFacts, TxidsAre
  <2>3. p.txid[1] = n /\ p.txid[2] = t => p.vout < i
    <3>1. SUFFICES ASSUME p.txid = x PROVE p.vout < i
      BY <1>1, <2>2
    <3>2. p.vout < l /\ p.vout \in Nat
      BY <1>1, <2>1, <3>1
    <3> QED BY <1>2, <1>3, <3>2
  <2> QED BY <1>3, <2>1, <2>2, <2>3 DEF Before
<1>7. OutputsBefore(c, <<n, t, i + 1>>) = OutputsBefore(c, <<n, t, i>>)
  BY <1>6 DEF OutputsBefore
<1>8. Before(q.txid, Nth(q), <<n, t, i + 1>>) /\ ~Before(q.txid, Nth(q), <<n, t, i>>)
  BY <1>2, <1>4
<1>10. /\ \A at : InputsBefore(c, at) = {r \in Inputs(c) : Before(r.txid, Nth(r), at)}
       /\ q \in Inputs(c)
       /\ Before(q.txid, Nth(q), <<n, t, i + 1>>) /\ ~Before(q.txid, Nth(q), <<n, t, i>>)
       /\ \A r \in Inputs(c) :
            r # q => (Before(r.txid, Nth(r), <<n, t, i + 1>>)
              <=> Before(r.txid, Nth(r), <<n, t, i>>))
  BY <1>5, <1>8 DEF InputsBefore
<1>11. /\ InputsBefore(c, <<n, t, i + 1>>) = InputsBefore(c, <<n, t, i>>) \cup {q}
       /\ q \notin InputsBefore(c, <<n, t, i>>)
  <2> HIDE DEF Nth
  <2>1. PICK D, E, U : D = InputsBefore(c, <<n, t, i>>)
          /\ E = InputsBefore(c, <<n, t, i + 1>>) /\ U = D \cup {q}
    OBVIOUS
  <2>2. \A r : r \in E <=> r \in U
    BY <1>10, <2>1
  <2> QED BY <1>10, <2>1, <2>2
<1>12. Prevout(c, q) \in OutputsBefore(c, <<n, t, i>>)
  <2>1. PICK m, j : m = {} /\ j = i + 1
    OBVIOUS
  <2>2. j \in Nat
    BY <1>3, <2>1
  <2>3. Among(c, OutputsBefore(c, <<n, t, j>>), InputsBefore(c, <<n, t, j>>) \ m)
    BY <1>3, <2>2, BeforeIsAmong
  <2>4. q \in InputsBefore(c, <<n, t, j>>) \ m
    BY <1>11, <2>1
  <2>5. Prevout(c, q) \in OutputsBefore(c, <<n, t, j>>)
    BY <2>3, <2>4 DEF Among
  <2> QED BY <1>7, <2>1, <2>5
<1> QED BY <1>7, <1>11, <1>12

\* All of transaction t of block n has been handled (t = 0: none has been begun).
Done(c, n, t, i) ==
  \/ t = 0 /\ i = 0
  \/ <<n, t>> \in Txids(c) /\ i = Len(TxAt(c, <<n, t>>).vout) + Len(TxAt(c, <<n, t>>).vin)

\* The end of a transaction is the start of the next, or of the next block.
LEMMA OtherTransaction ==
  ASSUME NEW c, IsChain(c), NEW n \in Nat, NEW t \in Nat, NEW i \in Nat, Done(c, n, t, i),
         NEW at, \/ at = <<n, t + 1, 0>>
                 \/ at = <<n + 1, 0, 0>> /\ n < Len(c) /\ t = Len(c[n + 1])
  PROVE  /\ OutputsBefore(c, at) = OutputsBefore(c, <<n, t, i>>)
         /\ InputsBefore(c, at) = InputsBefore(c, <<n, t, i>>)
<1>1. ASSUME NEW u \in Txids(c), NEW k \in Nat,
             k < Len(TxAt(c, u).vout) + Len(TxAt(c, u).vin)
      PROVE  Before(u, k, at) <=> Before(u, k, <<n, t, i>>)
  <2>1. /\ u = <<u[1], u[2]>> /\ u[1] \in Nat /\ u[2] \in Nat /\ u[2] > 0
        /\ u[2] \in 1..Len(c[u[1] + 1])
    BY TxidsAre, TxFacts
  <2>2. u[1] = n /\ u[2] = t => k < i
    <3> SUFFICES ASSUME u[1] = n, u[2] = t PROVE k < i
      OBVIOUS
    <3>1. u = <<n, t>> /\ t # 0
      BY <2>1
    <3> QED BY <1>1, <3>1 DEF Done
  <2>3. CASE at = <<n, t + 1, 0>>
    BY <2>1, <2>2, <2>3 DEF Before
  <2>4. CASE at = <<n + 1, 0, 0>> /\ n < Len(c) /\ t = Len(c[n + 1])
    <3>1. u[1] = n => u[2] <= t
      <4> SUFFICES ASSUME u[1] = n PROVE u[2] <= t
        OBVIOUS
      <4>1. u[2] \in 1..t
        BY <2>1, <2>4
      <4> QED BY <2>1, <4>1
    <3>2. Before(u, k, at) <=> u[1] < n + 1
      BY <2>1, <2>4 DEF Before
    <3>3. Before(u, k, <<n, t, i>>) <=> u[1] <= n
      BY <2>1, <2>2, <3>1 DEF Before
    <3> QED BY <2>1, <3>2, <3>3
  <2> QED BY <2>3, <2>4
<1>2. ASSUME NEW p \in Outputs(c)
      PROVE  Before(p.txid, p.vout, at) <=> Before(p.txid, p.vout, <<n, t, i>>)
  <2>1. p.txid \in Txids(c) /\ p.vout \in Nat /\ p.vout < Len(TxAt(c, p.txid).vout)
    BY OutputsAre
  <2>2. Len(TxAt(c, p.txid).vout) \in Nat /\ Len(TxAt(c, p.txid).vin) \in Nat
    BY <2>1, TxFacts
  <2>3. p.vout < Len(TxAt(c, p.txid).vout) + Len(TxAt(c, p.txid).vin)
    <3>1. PICK j, k, l : j = p.vout /\ k = Len(TxAt(c, p.txid).vout) /\ l = Len(TxAt(c, p.txid).vin)
      OBVIOUS
    <3>2. j \in Nat /\ k \in Nat /\ l \in Nat /\ j < k
      BY <2>1, <2>2, <3>1
    <3>3. j < k + l
      BY <3>2
    <3> QED BY <3>1, <3>3
  <2> QED BY <1>1, <2>1, <2>3
<1>3. ASSUME NEW q \in Inputs(c)
      PROVE  Before(q.txid, Len(TxAt(c, q.txid).vout) + q.index, at)
               <=> Before(q.txid, Len(TxAt(c, q.txid).vout) + q.index, <<n, t, i>>)
  <2>1. q.txid \in Txids(c) /\ q.index \in Nat /\ q.index < Len(TxAt(c, q.txid).vin)
    BY InputsAre
  <2>2. Len(TxAt(c, q.txid).vout) \in Nat /\ Len(TxAt(c, q.txid).vin) \in Nat
    BY <2>1, TxFacts
  <2>3. /\ Len(TxAt(c, q.txid).vout) + q.index \in Nat
        /\ Len(TxAt(c, q.txid).vout) + q.index
           < Len(TxAt(c, q.txid).vout) + Len(TxAt(c, q.txid).vin)
    <3>1. PICK j, k, l : j = q.index /\ k = Len(TxAt(c, q.txid).vout)
            /\ l = Len(TxAt(c, q.txid).vin)
      OBVIOUS
    <3>2. j \in Nat /\ k \in Nat /\ l \in Nat /\ j < l
      BY <2>1, <2>2, <3>1
    <3>3. k + j \in Nat /\ k + j < k + l
      BY <3>2
    <3> QED BY <3>1, <3>3
  <2> QED BY <1>1, <2>1, <2>3
<1> QED BY <1>2, <1>3 DEF OutputsBefore, InputsBefore

--------------------------------------------------------------------------------
(* What the operations do to the rows. *)

\* Keys of different rows differ.
LEMMA KeyFacts ==
  /\ \A a, t, n : UtxoKey(a, t, n)[1] = "utxo" /\ UtxoKey(a, t, n)[2] = a
  /\ \A a, h, x, n, t : TxKey(a, h, x, n, t)[1] = "tx" /\ TxKey(a, h, x, n, t)[2] = a
  /\ \A a : SummaryKey(a)[1] = "addr" /\ SummaryKey(a)[2] = a
  /\ MetaKey[1] = "meta"
  /\ \A a, t, n, u, m : UtxoKey(a, t, n) = UtxoKey(a, u, m) => t = u /\ n = m
<1>1. \A a, t, n : UtxoKey(a, t, n)[1] = "utxo" /\ UtxoKey(a, t, n)[2] = a
  BY DEF UtxoKey
<1>2. \A a, h, x, n, t : TxKey(a, h, x, n, t)[1] = "tx" /\ TxKey(a, h, x, n, t)[2] = a
  BY DEF TxKey
<1>3. \A a : SummaryKey(a)[1] = "addr" /\ SummaryKey(a)[2] = a
  BY DEF SummaryKey
<1>4. MetaKey[1] = "meta"
  BY DEF MetaKey
<1>5. ASSUME NEW a, NEW t, NEW n, NEW u, NEW m, UtxoKey(a, t, n) = UtxoKey(a, u, m)
      PROVE  t = u /\ n = m
  <2>1. <<"utxo", a, t, n>>[3] = <<"utxo", a, u, m>>[3]
          /\ <<"utxo", a, t, n>>[4] = <<"utxo", a, u, m>>[4]
    BY <1>5 DEF UtxoKey
  <2> QED BY <2>1
<1> QED BY <1>1, <1>2, <1>3, <1>4, <1>5

\* The key k is the same for both.
SameAt(d, e, k) == (k \in DOMAIN d <=> k \in DOMAIN e) /\ (k \in DOMAIN d => d[k] = e[k])

\* One operation.
LEMMA SingleOp ==
  ASSUME NEW x
  PROVE  IsSeq(<<x>>) /\ Keys(<<x>>) = {x.key} /\ LastFor(<<x>>, x.key) = x
<1> DEFINE t == <<x>>
<1>1. t = [i \in 1..1 |-> t[i]] /\ t[1] = x /\ DOMAIN t = 1..1
  OBVIOUS
<1> HIDE DEF t
<1>2. IsSeq(t) /\ Len(t) = 1
  BY <1>1, FunctionIsSeq
<1>3. Keys(t) = {x.key}
  BY <1>1 DEF Keys
<1>4. LastFor(t, t[1].key) = t[1]
  BY <1>2, LastIs
<1> QED BY <1>1, <1>2, <1>3, <1>4 DEF t

\* Two operations on two keys.
LEMMA TwoOps ==
  ASSUME NEW x, NEW y, x.key # y.key
  PROVE  /\ IsSeq(<<x, y>>) /\ Keys(<<x, y>>) = {x.key, y.key}
         /\ LastFor(<<x, y>>, x.key) = x /\ LastFor(<<x, y>>, y.key) = y
<1> DEFINE t == <<x, y>>
<1>1. t = [i \in 1..2 |-> t[i]] /\ t[1] = x /\ t[2] = y /\ DOMAIN t = 1..2
  OBVIOUS
<1> HIDE DEF t
<1>2. IsSeq(t) /\ Len(t) = 2
  BY <1>1, FunctionIsSeq
<1>3. Keys(t) = {x.key, y.key}
  BY <1>1 DEF Keys
<1>4. LastFor(t, t[2].key) = t[2]
  BY <1>2, LastIs
<1>5. LastFor(t, t[1].key) = t[1]
  <2>1. \A j \in 1..Len(t) : j > 1 => t[j].key # t[1].key
    BY <1>1, <1>2
  <2>2. 1 \in 1..Len(t)
    BY <1>2
  <2> QED BY <1>2, <2>1, <2>2, LastIs
<1> QED BY <1>1, <1>2, <1>3, <1>4, <1>5 DEF t

\* A coin and a row are put.
LEMMA PutBoth ==
  ASSUME NEW d, NEW s, IsSeq(s), NEW c, NEW v, NEW r, NEW w, c # r,
         NEW t, t = <<Put(c, v), Put(r, w)>>, NEW e, e = Written(d, s \o t),
         NEW f, f = Written(d, s)
  PROVE  /\ DOMAIN e = DOMAIN f \cup {c, r}
         /\ e[c] = v
         /\ \A k : k # c /\ k # r => SameAt(f, e, k)
<1> DEFINE x == Put(c, v)
           y == Put(r, w)
<1>1. x.key = c /\ x.type = "put" /\ x.value = v /\ y.key = r /\ y.type = "put" /\ y.value = w
  BY DEF Put
<1>2. t = <<x, y>> /\ f = Written(d, s)
  OBVIOUS
<1> HIDE DEF x, y
<1>3. /\ IsSeq(t) /\ Keys(t) = {c, r} /\ LastFor(t, c) = x /\ LastFor(t, r) = y
  BY <1>1, <1>2, TwoOps
<1>4. /\ \A k : k \in Keys(t) => (k \in DOMAIN e <=> LastFor(t, k).type = "put")
      /\ \A k : k \notin Keys(t) => (k \in DOMAIN e <=> k \in DOMAIN f)
      /\ \A k \in DOMAIN e : k \in Keys(t) => e[k] = LastFor(t, k).value
      /\ \A k \in DOMAIN e : k \notin Keys(t) => e[k] = f[k]
  BY <1>2, <1>3, WrittenOn
<1>5. DOMAIN e = DOMAIN f \cup {c, r}
  BY <1>1, <1>3, <1>4
<1>6. e[c] = v
  BY <1>1, <1>3, <1>4, <1>5
<1>7. ASSUME NEW k, k # c, k # r PROVE SameAt(f, e, k)
  BY <1>3, <1>4, <1>5, <1>7 DEF SameAt
<1> QED BY <1>5, <1>6, <1>7

\* A coin is deleted, and a row put.
LEMMA DelAndPut ==
  ASSUME NEW d, NEW s, IsSeq(s), NEW c, NEW r, NEW w, c # r,
         NEW t, t = <<Del(c), Put(r, w)>>, NEW e, e = Written(d, s \o t),
         NEW f, f = Written(d, s)
  PROVE  /\ DOMAIN e = (DOMAIN f \ {c}) \cup {r}
         /\ \A k : k # c /\ k # r => SameAt(f, e, k)
<1> DEFINE x == Del(c)
           y == Put(r, w)
<1>1. x.key = c /\ x.type = "del" /\ y.key = r /\ y.type = "put" /\ y.value = w
  BY DEF Put, Del
<1>2. t = <<x, y>> /\ f = Written(d, s)
  OBVIOUS
<1> HIDE DEF x, y
<1>3. /\ IsSeq(t) /\ Keys(t) = {c, r} /\ LastFor(t, c) = x /\ LastFor(t, r) = y
  BY <1>1, <1>2, TwoOps
<1>4. /\ \A k : k \in Keys(t) => (k \in DOMAIN e <=> LastFor(t, k).type = "put")
      /\ \A k : k \notin Keys(t) => (k \in DOMAIN e <=> k \in DOMAIN f)
      /\ \A k \in DOMAIN e : k \in Keys(t) => e[k] = LastFor(t, k).value
      /\ \A k \in DOMAIN e : k \notin Keys(t) => e[k] = f[k]
  BY <1>2, <1>3, WrittenOn
<1>5. DOMAIN e = (DOMAIN f \ {c}) \cup {r}
  BY <1>1, <1>3, <1>4
<1>6. ASSUME NEW k, k # c, k # r PROVE SameAt(f, e, k)
  BY <1>3, <1>4, <1>5, <1>6 DEF SameAt
<1> QED BY <1>5, <1>6

\* What is said of the rows and summaries depends on their keys only.
LEMMA SameRows ==
  ASSUME NEW d, NEW e, NEW a, NEW kind, \A k : k[1] = kind /\ k[2] = a => SameAt(d, e, k)
  PROVE  RowsOf(e, kind, a) = RowsOf(d, kind, a)
BY DEF RowsOf, SameAt

\* The coins of an address whose rows and sets are the same.
LEMMA SameCoins ==
  ASSUME NEW c, NEW d, NEW e, NEW a, NEW R, NEW S, NEW R2, NEW S2, CoinsMatch(c, d, a, R, S),
         \A k : k[1] = "utxo" /\ k[2] = a => SameAt(d, e, k),
         Unspent(c, a, R2, S2) = Unspent(c, a, R, S)
  PROVE  CoinsMatch(c, e, a, R2, S2)
<1> DEFINE U == Unspent(c, a, R, S)
<1>1. RowsOf(e, "utxo", a) = RowsOf(d, "utxo", a)
  BY SameRows
<1>2. /\ RowsOf(d, "utxo", a) = {UtxoKey(a, p.txid, p.vout) : p \in U}
      /\ \A p \in U : d[UtxoKey(a, p.txid, p.vout)]
                        = [value |-> OutputAt(c, p).value, height |-> p.txid[1]]
  BY DEF CoinsMatch
<1>3. ASSUME NEW p \in U PROVE e[UtxoKey(a, p.txid, p.vout)] = d[UtxoKey(a, p.txid, p.vout)]
  <2>1. PICK k : k = UtxoKey(a, p.txid, p.vout)
    OBVIOUS
  <2>2. k[1] = "utxo" /\ k[2] = a
    BY <2>1, KeyFacts
  <2>3. k \in DOMAIN d
    BY <1>2, <2>1 DEF RowsOf
  <2> QED BY <2>1, <2>2, <2>3 DEF SameAt
<1> QED BY <1>1, <1>2, <1>3 DEF CoinsMatch

\* Its history.
LEMMA SameHistory ==
  ASSUME NEW c, NEW d, NEW e, NEW a, NEW R, NEW S, NEW R2, NEW S2, HistoryMatches(c, d, a, R, S),
         \A k : k[1] = "tx" /\ k[2] = a => SameAt(d, e, k),
         Received(c, a, R2) = Received(c, a, R), Sent(c, a, S2) = Sent(c, a, S)
  PROVE  HistoryMatches(c, e, a, R2, S2)
<1>1. RowsOf(e, "tx", a) = RowsOf(d, "tx", a)
  BY SameRows
<1> QED BY <1>1 DEF HistoryMatches

\* Its summary.
LEMMA SameSummary ==
  ASSUME NEW c, NEW d, NEW e, NEW a, NEW R, NEW S, NEW R2, NEW S2, SummaryMatches(c, d, a, R, S),
         SameAt(d, e, SummaryKey(a)),
         Received(c, a, R2) = Received(c, a, R), Spent(c, a, S2) = Spent(c, a, S),
         Unspent(c, a, R2, S2) = Unspent(c, a, R, S),
         TxidsOf(c, a, R2, S2) = TxidsOf(c, a, R, S)
  PROVE  SummaryMatches(c, e, a, R2, S2)
<1>1. SummaryOf(c, a, R2, S2) = SummaryOf(c, a, R, S)
  BY DEF SummaryOf
<1> QED BY <1>1 DEF SummaryMatches, SameAt

\* An output's coin and row are what the rows lack.
LEMMA RowsWithOutput ==
  ASSUME NEW c, IsChain(c), NEW R, NEW S, Among(c, R, S),
         NEW p, p \in Outputs(c), p \notin R, NEW R2, R2 = R \cup {p},
         NEW a, OutputAt(c, p).address = a, NEW d, NEW e, RowsMatch(c, d, R, S),
         NEW ck, ck = UtxoKey(a, p.txid, p.vout),
         NEW rk, rk = TxKey(a, p.txid[1], "in", p.vout, p.txid),
         DOMAIN e = DOMAIN d \cup {ck, rk},
         e[ck] = [value |-> OutputAt(c, p).value, height |-> p.txid[1]],
         \A k : k # ck /\ k # rk => SameAt(d, e, k)
  PROVE  RowsMatch(c, e, R2, S)
<1>1. ck[1] = "utxo" /\ ck[2] = a /\ rk[1] = "tx" /\ rk[2] = a
  BY KeyFacts
<1>2. ASSUME NEW b \in Address, b # a
      PROVE  CoinsMatch(c, e, b, R2, S) /\ HistoryMatches(c, e, b, R2, S)
  <2>1. CoinsMatch(c, d, b, R, S) /\ HistoryMatches(c, d, b, R, S)
    BY DEF RowsMatch
  <2>2. Received(c, b, R2) = Received(c, b, R) /\ Unspent(c, b, R2, S) = Unspent(c, b, R, S)
    BY <1>2, OutputAdds
  <2>3. \A k : k[2] = b => SameAt(d, e, k)
    BY <1>1, <1>2
  <2>4. CoinsMatch(c, e, b, R2, S)
    BY <2>1, <2>2, <2>3, SameCoins
  <2>5. HistoryMatches(c, e, b, R2, S)
    BY <2>1, <2>2, <2>3, SameHistory
  <2> QED BY <2>4, <2>5
<1>3. CASE a \in Address
  <2> DEFINE U == Unspent(c, a, R, S)
             P == Received(c, a, R)
  <2>1. CoinsMatch(c, d, a, R, S) /\ HistoryMatches(c, d, a, R, S)
    BY <1>3 DEF RowsMatch
  <2>2. Received(c, a, R2) = P \cup {p} /\ Unspent(c, a, R2, S) = U \cup {p} /\ p \notin U
    BY OutputAdds
  <2>3. /\ RowsOf(d, "utxo", a) = {UtxoKey(a, o.txid, o.vout) : o \in U}
        /\ \A o \in U : d[UtxoKey(a, o.txid, o.vout)]
                          = [value |-> OutputAt(c, o).value, height |-> o.txid[1]]
    BY <2>1 DEF CoinsMatch
  <2>4. RowsOf(e, "utxo", a) = RowsOf(d, "utxo", a) \cup {ck}
    BY <1>1 DEF RowsOf
  <2>5. RowsOf(e, "tx", a) = RowsOf(d, "tx", a) \cup {rk}
    BY <1>1 DEF RowsOf
  <2>6. ASSUME NEW o \in U
        PROVE  e[UtxoKey(a, o.txid, o.vout)]
          = [value |-> OutputAt(c, o).value, height |-> o.txid[1]]
    <3>1. PICK k : k = UtxoKey(a, o.txid, o.vout)
      OBVIOUS
    <3>2. o \in Outputs(c) /\ o # p
      BY <2>2 DEF Among, Unspent, Received
    <3>3. o = OutPoint(o.txid, o.vout) /\ p = OutPoint(p.txid, p.vout)
      BY <3>2, OutputsAre
    <3>4. k # ck
      BY <3>1, <3>2, <3>3, KeyFacts
    <3>5. k[1] = "utxo"
      BY <3>1, KeyFacts
    <3>6. k \in DOMAIN d
      BY <2>3, <3>1 DEF RowsOf
    <3>7. e[k] = d[k]
      BY <1>1, <3>4, <3>5, <3>6 DEF SameAt
    <3> QED BY <2>3, <3>1, <3>7
  <2>7. CoinsMatch(c, e, a, R2, S)
    <3>1. RowsOf(e, "utxo", a) = {UtxoKey(a, o.txid, o.vout) : o \in U \cup {p}}
      BY <2>3, <2>4
    <3>2. \A o \in U \cup {p} : e[UtxoKey(a, o.txid, o.vout)]
                                  = [value |-> OutputAt(c, o).value, height |-> o.txid[1]]
      BY <2>6
    <3> HIDE DEF U
    <3> QED BY <2>2, <3>1, <3>2 DEF CoinsMatch
  <2>8. HistoryMatches(c, e, a, R2, S)
    <3>1. RowsOf(d, "tx", a)
            = {TxKey(a, o.txid[1], "in", o.vout, o.txid) : o \in P}
                \cup {TxKey(a, q.txid[1], "out", Prevout(c, q).vout, q.txid) : q \in Sent(c, a, S)}
      BY <2>1 DEF HistoryMatches
    <3>2. RowsOf(e, "tx", a)
            = {TxKey(a, o.txid[1], "in", o.vout, o.txid) : o \in P \cup {p}}
                \cup {TxKey(a, q.txid[1], "out", Prevout(c, q).vout, q.txid) : q \in Sent(c, a, S)}
      BY <2>5, <3>1
    <3> HIDE DEF P
    <3> QED BY <2>2, <3>2 DEF HistoryMatches
  <2> QED BY <1>2, <2>7, <2>8 DEF RowsMatch
<1> QED BY <1>2, <1>3 DEF RowsMatch

\* An input's row is what the rows lack, and its coin what they have too much.
LEMMA RowsWithInput ==
  ASSUME NEW c, IsChain(c), NEW R, NEW S, Among(c, R, S),
         NEW q, q \in Inputs(c), q \notin S, NEW p, p \in R, p = Prevout(c, q),
         NEW S2, S2 = S \cup {q},
         NEW a, OutputAt(c, p).address = a, NEW d, NEW e, RowsMatch(c, d, R, S),
         NEW ck, ck = UtxoKey(a, p.txid, p.vout),
         NEW rk, rk = TxKey(a, q.txid[1], "out", p.vout, q.txid),
         DOMAIN e = (DOMAIN d \ {ck}) \cup {rk},
         \A k : k # ck /\ k # rk => SameAt(d, e, k)
  PROVE  RowsMatch(c, e, R, S2)
<1>1. ck[1] = "utxo" /\ ck[2] = a /\ rk[1] = "tx" /\ rk[2] = a
  BY KeyFacts
<1>2. ASSUME NEW b \in Address, b # a
      PROVE  CoinsMatch(c, e, b, R, S2) /\ HistoryMatches(c, e, b, R, S2)
  <2>1. CoinsMatch(c, d, b, R, S) /\ HistoryMatches(c, d, b, R, S)
    BY DEF RowsMatch
  <2>2. Sent(c, b, S2) = Sent(c, b, S) /\ Unspent(c, b, R, S2) = Unspent(c, b, R, S)
    BY <1>2, InputAdds
  <2>3. \A k : k[2] = b => SameAt(d, e, k)
    BY <1>1, <1>2
  <2>4. CoinsMatch(c, e, b, R, S2)
    BY <2>1, <2>2, <2>3, SameCoins
  <2>5. HistoryMatches(c, e, b, R, S2)
    BY <2>1, <2>2, <2>3, SameHistory
  <2> QED BY <2>4, <2>5
<1>3. CASE a \in Address
  <2> DEFINE U == Unspent(c, a, R, S)
             Q == Sent(c, a, S)
  <2>1. CoinsMatch(c, d, a, R, S) /\ HistoryMatches(c, d, a, R, S)
    BY <1>3 DEF RowsMatch
  <2>2. Sent(c, a, S2) = Q \cup {q} /\ Unspent(c, a, R, S2) = U \ {p}
    BY InputAdds
  <2>3. /\ RowsOf(d, "utxo", a) = {UtxoKey(a, o.txid, o.vout) : o \in U}
        /\ \A o \in U : d[UtxoKey(a, o.txid, o.vout)]
                          = [value |-> OutputAt(c, o).value, height |-> o.txid[1]]
    BY <2>1 DEF CoinsMatch
  <2>4. RowsOf(e, "utxo", a) = RowsOf(d, "utxo", a) \ {ck}
    BY <1>1 DEF RowsOf
  <2>5. RowsOf(e, "tx", a) = RowsOf(d, "tx", a) \cup {rk}
    BY <1>1 DEF RowsOf
  <2>6. ASSUME NEW o \in U, o # p
        PROVE  /\ UtxoKey(a, o.txid, o.vout) # ck
               /\ e[UtxoKey(a, o.txid, o.vout)]
                  = [value |-> OutputAt(c, o).value, height |-> o.txid[1]]
    <3>1. PICK k : k = UtxoKey(a, o.txid, o.vout)
      OBVIOUS
    <3>2. o \in Outputs(c) /\ p \in Outputs(c)
      BY DEF Among, Unspent, Received
    <3>3. o = OutPoint(o.txid, o.vout) /\ p = OutPoint(p.txid, p.vout)
      BY <3>2, OutputsAre
    <3>4. k # ck
      BY <2>6, <3>1, <3>3, KeyFacts
    <3>5. k[1] = "utxo"
      BY <3>1, KeyFacts
    <3>6. k \in DOMAIN d
      BY <2>3, <3>1 DEF RowsOf
    <3>7. e[k] = d[k]
      BY <1>1, <3>4, <3>5, <3>6 DEF SameAt
    <3> QED BY <2>3, <3>1, <3>4, <3>7
  <2>7. CoinsMatch(c, e, a, R, S2)
    <3>1. RowsOf(e, "utxo", a) = {UtxoKey(a, o.txid, o.vout) : o \in U \ {p}}
      <4>1. ASSUME NEW k \in RowsOf(e, "utxo", a)
            PROVE  k \in {UtxoKey(a, o.txid, o.vout) : o \in U \ {p}}
        <5>1. k # ck /\ k \in RowsOf(d, "utxo", a)
          BY <2>4
        <5>2. PICK o \in U : k = UtxoKey(a, o.txid, o.vout)
          BY <2>3, <5>1
        <5>3. o # p
          BY <5>1, <5>2
        <5> QED BY <5>2, <5>3
      <4>2. ASSUME NEW o \in U, o # p PROVE UtxoKey(a, o.txid, o.vout) \in RowsOf(e, "utxo", a)
        BY <2>3, <2>4, <2>6, <4>2
      <4> QED BY <4>1, <4>2
    <3>2. \A o \in U \ {p} : e[UtxoKey(a, o.txid, o.vout)]
                               = [value |-> OutputAt(c, o).value, height |-> o.txid[1]]
      BY <2>6
    <3> HIDE DEF U
    <3> QED BY <2>2, <3>1, <3>2 DEF CoinsMatch
  <2>8. HistoryMatches(c, e, a, R, S2)
    <3>1. RowsOf(d, "tx", a)
            = {TxKey(a, o.txid[1], "in", o.vout, o.txid) : o \in Received(c, a, R)}
                \cup {TxKey(a, x.txid[1], "out", Prevout(c, x).vout, x.txid) : x \in Q}
      BY <2>1 DEF HistoryMatches
    <3>2. RowsOf(e, "tx", a)
            = {TxKey(a, o.txid[1], "in", o.vout, o.txid) : o \in Received(c, a, R)}
                \cup {TxKey(a, x.txid[1], "out", Prevout(c, x).vout, x.txid) : x \in Q \cup {q}}
      BY <2>5, <3>1
    <3> HIDE DEF Q
    <3> QED BY <2>2, <3>2 DEF HistoryMatches
  <2> QED BY <1>2, <2>7, <2>8 DEF RowsMatch
<1> QED BY <1>2, <1>3 DEF RowsMatch

\* Outputs and inputs without an address leave no trace.
LEMMA RowsUnchanged ==
  ASSUME NEW c, NEW R, NEW S, NEW R2, NEW S2, NEW d, NEW e, RowsMatch(c, d, R, S),
         \A k : k[1] \in {"utxo", "tx"} => SameAt(d, e, k),
         \A a \in Address : /\ Received(c, a, R2) = Received(c, a, R)
                            /\ Sent(c, a, S2) = Sent(c, a, S)
                            /\ Unspent(c, a, R2, S2) = Unspent(c, a, R, S)
  PROVE  RowsMatch(c, e, R2, S2)
<1> SUFFICES ASSUME NEW a \in Address
             PROVE  CoinsMatch(c, e, a, R2, S2) /\ HistoryMatches(c, e, a, R2, S2)
  BY DEF RowsMatch
<1>1. CoinsMatch(c, d, a, R, S) /\ HistoryMatches(c, d, a, R, S)
  BY DEF RowsMatch
<1>2. /\ Received(c, a, R2) = Received(c, a, R) /\ Sent(c, a, S2) = Sent(c, a, S)
      /\ Unspent(c, a, R2, S2) = Unspent(c, a, R, S)
  OBVIOUS
<1>3. CoinsMatch(c, e, a, R2, S2)
  BY <1>1, <1>2, SameCoins
<1>4. HistoryMatches(c, e, a, R2, S2)
  BY <1>1, <1>2, SameHistory
<1> QED BY <1>3, <1>4

--------------------------------------------------------------------------------
(* The place of the scan, and the summaries in hand. *)

\* Where the scan is, the chain has a transaction.
LEMMA PlaceFacts ==
  ASSUME Position
  PROVE  /\ IsChain(chain) /\ next \in Nat /\ tx \in Nat /\ io \in Nat /\ Len(chain) \in Nat
         /\ Among(chain, OutputsPast, ResolvedPast)
         /\ \A a : \A u \in TxidsOf(chain, a, OutputsPast, ResolvedPast) : u[1] <= next
         /\ tx > 0 => /\ <<next, tx>> \in Txids(chain)
                      /\ Vout = TxAt(chain, <<next, tx>>).vout
                      /\ Vin = TxAt(chain, <<next, tx>>).vin
                      /\ Len(Vout) \in Nat /\ Len(Vin) \in Nat
<1>1. IsChain(chain)
  BY LedgerAssumption DEF Position
<1>2. Len(chain) \in Nat /\ \A h \in 1..Len(chain) : Len(chain[h]) \in Nat
  BY <1>1, ChainFacts
<1>3. next \in Nat /\ tx \in Nat /\ io \in Nat
  BY <1>2 DEF Position
<1>4. Among(chain, OutputsPast, ResolvedPast)
  BY <1>1, <1>3, BeforeIsAmong DEF OutputsPast, ResolvedPast, Place
<1>5. \A a : \A u \in TxidsOf(chain, a, OutputsPast, ResolvedPast) : u[1] <= next
  BY <1>1, <1>3, BeforeIsAmong DEF OutputsPast, ResolvedPast, Place
<1>6. ASSUME tx > 0
      PROVE  /\ <<next, tx>> \in Txids(chain)
             /\ Vout = TxAt(chain, <<next, tx>>).vout
             /\ Vin = TxAt(chain, <<next, tx>>).vin
             /\ Len(Vout) \in Nat /\ Len(Vin) \in Nat
  <2>1. next < Len(chain) /\ tx <= Len(Block) /\ Block = chain[next + 1]
    BY <1>6 DEF Position, Block
  <2>2. PICK u : u = <<next, tx>>
    OBVIOUS
  <2>3. u[1] = next /\ u[2] = tx /\ u = <<u[1], u[2]>>
    BY <2>2
  <2>4. u[1] \in 0..(Len(chain) - 1) /\ u[2] \in 1..Len(chain[u[1] + 1])
    <3>1. next \in 0..(Len(chain) - 1) /\ next + 1 \in 1..Len(chain)
      BY <1>2, <1>3, <2>1
    <3>2. Len(chain[next + 1]) \in Nat
      BY <1>2, <3>1
    <3>3. tx \in 1..Len(chain[next + 1])
      BY <1>3, <1>6, <2>1, <3>2
    <3> QED BY <2>3, <3>1, <3>3
  <2>5. u \in Txids(chain)
    BY <1>1, <2>3, <2>4, TxidsAre
  <2>6. Vout = TxAt(chain, u).vout /\ Vin = TxAt(chain, u).vin
    BY <2>3 DEF Vout, Vin, Block, TxAt
  <2>7. Len(TxAt(chain, u).vout) \in Nat /\ Len(TxAt(chain, u).vin) \in Nat
    BY <1>1, <2>5, TxFacts
  <2> QED BY <2>2, <2>5, <2>6, <2>7
<1> QED BY <1>1, <1>2, <1>3, <1>4, <1>5, <1>6

\* getSummaryForMutation(), from the cache or from the database.
LEMMA SummaryIsCarried ==
  ASSUME LedgerIInv, NEW a \in Address
  PROVE  Carries(Summary(a, next), chain, a, OutputsPast, ResolvedPast, next)
<1> DEFINE T == TxidsOf(chain, a, OutputsPast, ResolvedPast)
<1>1. /\ IsChain(chain) /\ next \in Nat /\ Among(chain, OutputsPast, ResolvedPast)
      /\ \A u \in T : u[1] <= next
  BY PlaceFacts DEF LedgerIInv
<1>2. SummaryFollows(a)
  BY DEF LedgerIInv, SummariesFollow
<1>3. PICK c, R, S, h, s : c = chain /\ R = OutputsPast /\ S = ResolvedPast /\ h = next
                           /\ s = SummaryOf(chain, a, OutputsPast, ResolvedPast)
  OBVIOUS
<1>4. IsChain(c) /\ Among(c, R, S) /\ h \in Nat /\ \A u \in TxidsOf(c, a, R, S) : u[1] <= h
  BY <1>1, <1>3
<1>5. CASE a \in DOMAIN cache
  <2>1. cache[a] = s /\ TxidsOf(c, a, R, S) # {}
    BY <1>2, <1>3, <1>5 DEF SummaryFollows
  <2>2. Carries(SummaryOf(c, a, R, S), c, a, R, S, h)
    BY <1>4, <2>1, OldCarries
  <2>3. Summary(a, next) = SummaryOf(c, a, R, S)
    BY <1>3, <1>5, <2>1 DEF Summary
  <2> QED BY <1>3, <2>2, <2>3
<1>6. CASE a \notin DOMAIN cache
  <2>1. SummaryMatches(c, db, a, R, S)
    BY <1>2, <1>3, <1>6 DEF SummaryFollows
  <2>2. Summary(a, next) = Stored(a, h)
    BY <1>3, <1>6 DEF Summary
  <2>3. CASE TxidsOf(c, a, R, S) = {}
    <3>1. Stored(a, h) = NewSummary(h)
      BY <2>1, <2>3 DEF SummaryMatches, Stored
    <3>2. Carries(NewSummary(h), c, a, R, S, h)
      BY <1>4, <2>3, NewCarries
    <3> QED BY <1>3, <2>2, <3>1, <3>2
  <2>4. CASE TxidsOf(c, a, R, S) # {}
    <3>1. SummaryKey(a) \in DOMAIN db /\ db[SummaryKey(a)] = s
      BY <1>3, <2>1, <2>4 DEF SummaryMatches
    <3>2. Stored(a, h) = [s EXCEPT !.first = LowerOf(@, h), !.last = HigherOf(@, h)]
      BY <3>1, Zenon DEF Stored
    <3>3. s = SummaryOf(c, a, R, S)
      BY <1>3
    <3>4. Carries([s EXCEPT !.first = LowerOf(@, h), !.last = HigherOf(@, h)], c, a, R, S, h)
      BY <1>4, <2>4, <3>3, OldCarries
    <3> QED BY <1>3, <2>2, <3>2, <3>4
  <2> QED BY <2>3, <2>4
<1> QED BY <1>5, <1>6

--------------------------------------------------------------------------------
(* An output or an input is handled. *)

\* The address b has no part in it.
SameSets(c, b, R, S, R2, S2) ==
  /\ Received(c, b, R2) = Received(c, b, R) /\ Sent(c, b, S2) = Sent(c, b, S)
  /\ Spent(c, b, S2) = Spent(c, b, S) /\ Unspent(c, b, R2, S2) = Unspent(c, b, R, S)
  /\ TxidsOf(c, b, R2, S2) = TxidsOf(c, b, R, S)

\* An address that the output or input is not of.
LEMMA OthersFollow ==
  ASSUME NEW b \in Address, SummaryFollows(b), UNCHANGED <<chain, db, next, tx>>, tx > 0,
         Resolved' = Resolved,
         SameSets(chain, b, OutputsPast, ResolvedPast, OutputsPast', ResolvedPast'),
         b \in DOMAIN cache' <=> b \in DOMAIN cache, b \in DOMAIN cache => cache'[b] = cache[b],
         b \in Range(touched') <=> b \in Range(touched), b \in seen' <=> b \in seen,
         SameAt(View, View', SummaryKey(b))
  PROVE  SummaryFollows(b)'
<1>1. PICK c, d, R, S, R2, S2, e, f, I, J :
        /\ c = chain /\ d = db /\ R = OutputsPast /\ S = ResolvedPast
        /\ R2 = OutputsPast' /\ S2 = ResolvedPast' /\ e = View /\ f = View'
        /\ I = Indexed /\ J = Resolved
  OBVIOUS
<1>2. chain' = c /\ db' = d /\ Indexed' = I /\ Resolved' = J /\ next' = next /\ tx' = tx
  BY <1>1 DEF Indexed, Resume
<1>3. /\ SummaryMatches(c, d, b, I, J)
      /\ IF b \in DOMAIN cache
         THEN TxidsOf(c, b, R, S) # {} /\ cache[b] = SummaryOf(c, b, R, S)
         ELSE SummaryMatches(c, d, b, R, S)
      /\ b \notin Range(touched) => SummaryMatches(c, e, b, R, S)
      /\ b \in seen <=> <<next, tx>> \in TxidsOf(c, b, R, S)
  BY <1>1 DEF SummaryFollows
<1>4. /\ Received(c, b, R2) = Received(c, b, R) /\ Spent(c, b, S2) = Spent(c, b, S)
      /\ Unspent(c, b, R2, S2) = Unspent(c, b, R, S)
      /\ TxidsOf(c, b, R2, S2) = TxidsOf(c, b, R, S)
  BY <1>1 DEF SameSets
<1>5. SummaryOf(c, b, R2, S2) = SummaryOf(c, b, R, S)
  BY <1>4 DEF SummaryOf
<1>6. b \notin DOMAIN cache => SummaryMatches(c, d, b, R2, S2)
  <2>1. SameAt(d, d, SummaryKey(b))
    BY DEF SameAt
  <2> QED BY <1>3, <1>4, <2>1, SameSummary
<1>7. b \notin Range(touched) => SummaryMatches(c, f, b, R2, S2)
  <2>1. SameAt(e, f, SummaryKey(b))
    BY <1>1
  <2> QED BY <1>3, <1>4, <2>1, SameSummary
<1>8. /\ SummaryMatches(c, d, b, I, J)
      /\ IF b \in DOMAIN cache'
         THEN TxidsOf(c, b, R2, S2) # {} /\ cache'[b] = SummaryOf(c, b, R2, S2)
         ELSE SummaryMatches(c, d, b, R2, S2)
      /\ b \notin Range(touched') => SummaryMatches(c, f, b, R2, S2)
      /\ tx > 0 => (b \in seen' <=> <<next, tx>> \in TxidsOf(c, b, R2, S2))
  BY <1>3, <1>4, <1>5, <1>6, <1>7
<1> QED BY <1>1, <1>2, <1>8 DEF SummaryFollows

\* The address that it is of.
LEMMA OwnFollows ==
  ASSUME NEW a \in Address, SummaryFollows(a), UNCHANGED <<chain, db, next, tx>>,
         Resolved' = Resolved, a \in DOMAIN cache', a \in Range(touched'), a \in seen',
         cache'[a] = SummaryOf(chain, a, OutputsPast', ResolvedPast'),
         <<next, tx>> \in TxidsOf(chain, a, OutputsPast', ResolvedPast')
  PROVE  SummaryFollows(a)'
<1>1. PICK c, d, R2, S2, I, J :
        /\ c = chain /\ d = db /\ R2 = OutputsPast' /\ S2 = ResolvedPast'
        /\ I = Indexed /\ J = Resolved
  OBVIOUS
<1>2. chain' = c /\ db' = d /\ Indexed' = I /\ Resolved' = J /\ next' = next /\ tx' = tx
  BY <1>1 DEF Indexed, Resume
<1>3. SummaryMatches(c, d, a, I, J)
  BY <1>1 DEF SummaryFollows
<1>4. /\ TxidsOf(c, a, R2, S2) # {} /\ cache'[a] = SummaryOf(c, a, R2, S2)
      /\ <<next, tx>> \in TxidsOf(c, a, R2, S2)
  BY <1>1
<1> QED BY <1>1, <1>2, <1>3, <1>4 DEF SummaryFollows

\* What remains of the invariant.
LEMMA ItemStep ==
  ASSUME LedgerIInv, UNCHANGED <<chain, db, blocks, next, tx>>, tx > 0,
         io < Len(Vout) + Len(Vin), io' = io + 1, Resolved' = Resolved,
         IsSeq(operations'), IsSeq(touched'), DOMAIN cache' \subseteq Address,
         Range(touched') \subseteq DOMAIN cache', seen' \subseteq Range(touched'),
         missed' \subseteq InputsBefore(chain, <<next, tx, io'>>), Progress(View') = next,
         RowsMatch(chain, View', OutputsPast', ResolvedPast'),
         \A b \in Address : SummaryFollows(b)'
  PROVE  LedgerIInv'
<1>1. /\ chain' = chain /\ db' = db /\ blocks' = blocks /\ next' = next /\ tx' = tx
      /\ Vout' = Vout /\ Vin' = Vin /\ Block' = Block /\ (Full' <=> Full)
      /\ Resume' = Resume /\ Indexed' = Indexed
  BY DEF Vout, Vin, Block, Full, Resume, Indexed
<1>2. Position'
  <2>1. Position
    BY DEF LedgerIInv
  <2>2. io \in Nat /\ Len(Vout) \in Nat /\ Len(Vin) \in Nat
    BY <2>1, PlaceFacts
  <2>3. io' \in Nat /\ io' <= Len(Vout) + Len(Vin)
    BY <2>2
  <2>4. tx # 0
    BY <2>1 DEF Position
  <2> HIDE DEF Vout, Vin, Block, Full
  <2> QED BY <1>1, <2>1, <2>3, <2>4 DEF Position
<1>3. Collected'
  <2>1. db = [k \in DOMAIN db |-> db[k]]
    BY DEF LedgerIInv, Collected
  <2>2. missed' \subseteq InputsBefore(chain', Place')
    BY <1>1 DEF Place
  <2>3. db' = [k \in DOMAIN db' |-> db'[k]]
    BY <1>1, <2>1
  <2> QED BY <2>2, <2>3 DEF Collected
<1>4. RowsFollow'
  <2>1. Resume \in 0..next /\ RowsMatch(chain, db, Indexed, Resolved)
    BY DEF LedgerIInv, RowsFollow
  <2> QED BY <1>1, <2>1 DEF RowsFollow
<1>5. SummariesFollow'
  BY DEF SummariesFollow
<1> QED BY <1>2, <1>3, <1>4, <1>5 DEF LedgerIInv

\* Nothing is collected.
LEMMA UnbookedStep ==
  ASSUME LedgerIInv, UNCHANGED <<chain, db, blocks, next, tx>>, tx > 0,
         io < Len(Vout) + Len(Vin), io' = io + 1, Resolved' = Resolved,
         UNCHANGED <<operations, cache, seen, touched>>,
         missed' \subseteq InputsBefore(chain, <<next, tx, io'>>),
         \A b \in Address :
           SameSets(chain, b, OutputsPast, ResolvedPast, OutputsPast', ResolvedPast')
  PROVE  LedgerIInv'
<1>1. View' = View
  BY DEF View
<1>2. \A b \in Address : SummaryFollows(b)'
  <2> SUFFICES ASSUME NEW b \in Address PROVE SummaryFollows(b)'
    OBVIOUS
  <2>1. SummaryFollows(b)
    BY DEF LedgerIInv, SummariesFollow
  <2>2. SameAt(View, View', SummaryKey(b))
    BY <1>1 DEF SameAt
  <2>3. SameSets(chain, b, OutputsPast, ResolvedPast, OutputsPast', ResolvedPast')
    OBVIOUS
  <2> QED BY <2>1, <2>2, <2>3, OthersFollow
<1>3. RowsMatch(chain, View', OutputsPast', ResolvedPast')
  <2>1. PICK R, S, R2, S2, e : /\ R = OutputsPast /\ S = ResolvedPast
                               /\ R2 = OutputsPast' /\ S2 = ResolvedPast' /\ e = View
    OBVIOUS
  <2>2. RowsMatch(chain, e, R, S)
    BY <2>1 DEF LedgerIInv, RowsFollow
  <2>3. \A b \in Address : /\ Received(chain, b, R2) = Received(chain, b, R)
                           /\ Sent(chain, b, S2) = Sent(chain, b, S)
                           /\ Unspent(chain, b, R2, S2) = Unspent(chain, b, R, S)
    BY <2>1 DEF SameSets
  <2>4. \A k : k[1] \in {"utxo", "tx"} => SameAt(e, e, k)
    BY DEF SameAt
  <2>5. RowsMatch(chain, e, R2, S2)
    BY <2>2, <2>3, <2>4, RowsUnchanged
  <2> QED BY <1>1, <2>1, <2>5
<1>4. Progress(View') = next
  BY <1>1 DEF LedgerIInv, RowsFollow
<1>5. /\ IsSeq(operations') /\ IsSeq(touched') /\ DOMAIN cache' \subseteq Address
      /\ Range(touched') \subseteq DOMAIN cache' /\ seen' \subseteq Range(touched')
  BY DEF LedgerIInv, Collected
<1> QED BY <1>2, <1>3, <1>4, <1>5, ItemStep

\* localTouched.add().
LEMMA TouchedAdds ==
  ASSUME NEW s, IsSeq(s), NEW a, NEW t, t = IF a \in Range(s) THEN s ELSE Append(s, a)
  PROVE  IsSeq(t) /\ Range(t) = Range(s) \cup {a}
<1>1. CASE a \in Range(s)
  BY <1>1
<1>2. CASE a \notin Range(s)
  <2> DEFINE U == Range(s) \cup {a}
             n == Len(s)
  <2>1. n \in Nat /\ DOMAIN s = 1..n /\ s \in [1..n -> Range(s)]
    BY SeqFacts, LenProperties DEF IsSeq
  <2>2. s \in [1..n -> U]
    BY <2>1
  <2>3. s \in Seq(U) /\ a \in U
    BY <2>1, <2>2
  <2>4. t = Append(s, a)
    BY <1>2
  <2>5. /\ t \in Seq(U) /\ Len(t) = n + 1
        /\ \A i \in 1..n : t[i] = s[i]
        /\ t[n + 1] = a
    BY <2>3, <2>4, AppendProperties
  <2> HIDE DEF U
  <2>6. DOMAIN t = 1..(n + 1) /\ t \in [1..(n + 1) -> U]
    BY <2>5, LenProperties
  <2> HIDE DEF n
  <2>7. n + 1 \in Nat /\ t = [i \in 1..(n + 1) |-> t[i]]
    BY <2>1, <2>6
  <2>8. IsSeq(t)
    BY <2>7, FunctionIsSeq
  <2>9. Range(t) = Range(s) \cup {a}
    <3>1. \A i \in 1..(n + 1) : i \in 1..n \/ i = n + 1
      BY <2>1
    <3>2. 1..n \subseteq 1..(n + 1) /\ n + 1 \in 1..(n + 1)
      BY <2>1
    <3> QED BY <2>1, <2>5, <2>6, <3>1, <3>2 DEF Range
  <2> QED BY <2>8, <2>9
<1> QED BY <1>1, <1>2

\* A coin and a row are collected, and the summary is the address's.
LEMMA BookedStep ==
  ASSUME LedgerIInv, UNCHANGED <<chain, db, blocks, next, tx>>, tx > 0,
         io < Len(Vout) + Len(Vin), io' = io + 1, Resolved' = Resolved,
         NEW a \in Address, NEW coin, NEW row, NEW summary, Book(a, coin, row, summary),
         missed' \subseteq InputsBefore(chain, <<next, tx, io'>>),
         summary = SummaryOf(chain, a, OutputsPast', ResolvedPast'),
         <<next, tx>> \in TxidsOf(chain, a, OutputsPast', ResolvedPast'),
         \A b \in Address \ {a} :
           SameSets(chain, b, OutputsPast, ResolvedPast, OutputsPast', ResolvedPast'),
         \A b \in Address : SameAt(View, View', SummaryKey(b)),
         SameAt(View, View', MetaKey),
         RowsMatch(chain, View', OutputsPast', ResolvedPast')
  PROVE  LedgerIInv'
<1>1. /\ IsSeq(operations) /\ IsSeq(touched) /\ DOMAIN cache \subseteq Address
      /\ Range(touched) \subseteq DOMAIN cache /\ seen \subseteq Range(touched)
  BY DEF LedgerIInv, Collected
<1>2. IsSeq(operations')
  <2>1. operations' = operations \o <<coin, row>>
    BY DEF Book
  <2>2. <<coin, row>> = [i \in 1..2 |-> <<coin, row>>[i]]
    OBVIOUS
  <2>3. IsSeq(<<coin, row>>)
    BY <2>2, FunctionIsSeq
  <2> QED BY <1>1, <2>1, <2>3, ConcatFacts
<1>3. IsSeq(touched') /\ Range(touched') = Range(touched) \cup {a}
  BY <1>1, TouchedAdds DEF Book
<1>4. /\ DOMAIN cache' = DOMAIN cache \cup {a} /\ cache'[a] = summary
      /\ \A b \in DOMAIN cache : b # a => cache'[b] = cache[b]
  BY DEF Book, Extend
<1>5. seen' = seen \cup {a}
  BY DEF Book
<1>6. ASSUME NEW b \in Address PROVE SummaryFollows(b)'
  <2>1. SummaryFollows(b)
    BY DEF LedgerIInv, SummariesFollow
  <2>2. CASE b = a
    BY <1>3, <1>4, <1>5, <2>1, <2>2, OwnFollows
  <2>3. CASE b # a
    <3>1. /\ b \in DOMAIN cache' <=> b \in DOMAIN cache
          /\ b \in DOMAIN cache => cache'[b] = cache[b]
          /\ b \in Range(touched') <=> b \in Range(touched)
          /\ b \in seen' <=> b \in seen
      BY <1>3, <1>4, <1>5, <2>3
    <3>2. SameSets(chain, b, OutputsPast, ResolvedPast, OutputsPast', ResolvedPast')
      BY <2>3
    <3>3. SameAt(View, View', SummaryKey(b))
      OBVIOUS
    <3> QED BY <2>1, <3>1, <3>2, <3>3, OthersFollow
  <2> QED BY <2>2, <2>3
<1>7. Progress(View') = next
  <2>1. Progress(View) = next
    BY DEF LedgerIInv, RowsFollow
  <2> QED BY <2>1 DEF Progress, SameAt
<1>8. /\ DOMAIN cache' \subseteq Address /\ Range(touched') \subseteq DOMAIN cache'
      /\ seen' \subseteq Range(touched')
  BY <1>1, <1>3, <1>4, <1>5
<1> QED BY <1>2, <1>3, <1>6, <1>7, <1>8, ItemStep

\* An output adds its coin, its row and its value.
LEMMA InboundStep == LedgerIInv /\ Inbound => LedgerIInv'
<1> SUFFICES ASSUME LedgerIInv, Inbound PROVE LedgerIInv'
  OBVIOUS
<1>1. Position
  BY DEF LedgerIInv
<1>2. tx > 0 /\ io < Len(Vout) /\ io' = io + 1 /\ UNCHANGED <<chain, db, blocks, next, tx, missed>>
  BY DEF Inbound
<1>3. /\ IsChain(chain) /\ next \in Nat /\ tx \in Nat /\ io \in Nat
      /\ Among(chain, OutputsPast, ResolvedPast)
      /\ \A b : \A u \in TxidsOf(chain, b, OutputsPast, ResolvedPast) : u[1] <= next
      /\ <<next, tx>> \in Txids(chain) /\ Vout = TxAt(chain, <<next, tx>>).vout
      /\ Len(Vout) \in Nat /\ Len(Vin) \in Nat
  BY <1>1, <1>2, PlaceFacts
<1>4. PICK c, R, S, R2, S2, p, o, a :
        /\ c = chain /\ R = OutputsPast /\ S = ResolvedPast
        /\ R2 = OutputsPast' /\ S2 = ResolvedPast'
        /\ p = OutPoint(<<next, tx>>, io) /\ o = Vout[io + 1] /\ a = o.address
  OBVIOUS
<1>5. /\ p \in Outputs(c) /\ p \notin R /\ R2 = R \cup {p} /\ S2 = S
      /\ InputsBefore(c, <<next, tx, io + 1>>) = InputsBefore(c, <<next, tx, io>>)
  <2>1. io < Len(TxAt(c, <<next, tx>>).vout)
    BY <1>2, <1>3, <1>4
  <2>2. /\ p \in Outputs(c) /\ p \notin OutputsBefore(c, <<next, tx, io>>)
        /\ OutputsBefore(c, <<next, tx, io + 1>>) = OutputsBefore(c, <<next, tx, io>>) \cup {p}
        /\ InputsBefore(c, <<next, tx, io + 1>>) = InputsBefore(c, <<next, tx, io>>)
    <3>1. PICK n, t, i : n = next /\ t = tx /\ i = io
      OBVIOUS
    <3>2. /\ IsChain(c) /\ n \in Nat /\ t \in Nat /\ i \in Nat /\ <<n, t>> \in Txids(c)
          /\ i < Len(TxAt(c, <<n, t>>).vout) /\ p = OutPoint(<<n, t>>, i)
      BY <1>3, <1>4, <2>1, <3>1
    <3>3. /\ p \in Outputs(c) /\ p \notin OutputsBefore(c, <<n, t, i>>)
          /\ OutputsBefore(c, <<n, t, i + 1>>) = OutputsBefore(c, <<n, t, i>>) \cup {p}
          /\ InputsBefore(c, <<n, t, i + 1>>) = InputsBefore(c, <<n, t, i>>)
      BY <3>2, OutputStep
    <3> QED BY <3>1, <3>3
  <2>3. /\ R = OutputsBefore(c, <<next, tx, io>>) /\ S = InputsBefore(c, <<next, tx, io>>) \ missed
        /\ R2 = OutputsBefore(c, <<next, tx, io + 1>>)
        /\ S2 = InputsBefore(c, <<next, tx, io + 1>>) \ missed
    BY <1>2, <1>4 DEF OutputsPast, ResolvedPast, Place
  <2> QED BY <2>2, <2>3
<1>6. /\ p.txid = <<next, tx>> /\ p.vout = io /\ OutputAt(c, p) = o
      /\ p.txid[1] = next
  BY <1>3, <1>4 DEF OutPoint, OutputAt
<1>7. Resolved' = Resolved
  BY <1>2 DEF Resolved, Resume
<1>8. missed' \subseteq InputsBefore(chain, <<next, tx, io'>>)
  BY <1>2, <1>4, <1>5 DEF LedgerIInv, Collected, Place
<1>9. io < Len(Vout) + Len(Vin)
  BY <1>2, <1>3
<1>10. \A b \in Address : b # a => SameSets(c, b, R, S, R2, S2)
  <2> SUFFICES ASSUME NEW b \in Address, b # a PROVE SameSets(c, b, R, S, R2, S2)
    OBVIOUS
  <2>1. Among(c, R, S) /\ OutputAt(c, p).address # b
    BY <1>3, <1>4, <1>6
  <2>2. /\ Received(c, b, R2) = Received(c, b, R) /\ Unspent(c, b, R2, S) = Unspent(c, b, R, S)
        /\ TxidsOf(c, b, R2, S) = TxidsOf(c, b, R, S)
    BY <1>5, <2>1, OutputAdds
  <2> QED BY <1>5, <2>2 DEF SameSets
<1>11. \/ a = NoAddress /\ UNCHANGED <<operations, cache, seen, touched>>
       \/ /\ a # NoAddress
          /\ Book(a, Put(UtxoKey(a, <<next, tx>>, io), [value |-> o.value, height |-> next]),
                  Put(TxKey(a, next, "in", io, <<next, tx>>), o.value),
                  WithOutput(Summary(a, next), next, o.value, Counted(a)))
  BY <1>4 DEF Inbound, Txid
<1>12. CASE a = NoAddress /\ UNCHANGED <<operations, cache, seen, touched>>
  <2>1. \A b \in Address :
          SameSets(chain, b, OutputsPast, ResolvedPast, OutputsPast', ResolvedPast')
    BY <1>4, <1>10, <1>12, LedgerAssumption
  <2> QED BY <1>2, <1>7, <1>8, <1>9, <1>12, <2>1, UnbookedStep
<1>13. CASE /\ a # NoAddress
            /\ Book(a, Put(UtxoKey(a, <<next, tx>>, io), [value |-> o.value, height |-> next]),
                    Put(TxKey(a, next, "in", io, <<next, tx>>), o.value),
                    WithOutput(Summary(a, next), next, o.value, Counted(a)))
  <2>1. a \in Address
    <3>1. OutputAt(c, p).address \in Address \cup {NoAddress}
      BY <1>3, <1>4, <1>5, OutputFacts
    <3> QED BY <1>4, <1>6, <1>13, <3>1
  <2>2. PICK ck, rk, cv, s, w :
          /\ ck = UtxoKey(a, <<next, tx>>, io) /\ cv = [value |-> o.value, height |-> next]
          /\ rk = TxKey(a, next, "in", io, <<next, tx>>) /\ w = o.value
          /\ s = WithOutput(Summary(a, next), next, o.value, Counted(a))
    OBVIOUS
  <2>3. Book(a, Put(ck, cv), Put(rk, w), s)
    BY <1>13, <2>2
  <2>4. /\ c = chain /\ IsChain(c) /\ Among(c, R, S) /\ OutputAt(c, p).address = a
        /\ \A u \in TxidsOf(c, a, R, S) : u[1] <= next
    BY <1>3, <1>4, <1>6
  <2>5. s = SummaryOf(c, a, R2, S)
    <3>1. PICK h, old, i : h = next /\ old = Summary(a, next) /\ i = Counted(a)
      OBVIOUS
    <3>2. Carries(old, c, a, R, S, h)
      BY <1>4, <2>1, <3>1, SummaryIsCarried
    <3>3. SummaryFollows(a)
      BY <2>1 DEF LedgerIInv, SummariesFollow
    <3>4. i = IF p.txid \in TxidsOf(c, a, R, S) THEN 0 ELSE 1
      BY <1>2, <1>4, <1>6, <3>1, <3>3 DEF SummaryFollows, Counted
    <3>5. h \in Nat /\ p.txid[1] = h /\ \A u \in TxidsOf(c, a, R, S) : u[1] <= h
      BY <1>3, <1>6, <2>4, <3>1
    <3>6. p \in Outputs(c) /\ p \notin R /\ R2 = R \cup {p} /\ w = OutputAt(c, p).value
      BY <1>5, <1>6, <2>2
    <3>7. WithOutput(old, h, w, i) = SummaryOf(c, a, R2, S)
      BY <2>4, <3>2, <3>4, <3>5, <3>6, OutputSummary
    <3> QED BY <2>2, <3>1, <3>7
  <2>6. <<next, tx>> \in TxidsOf(c, a, R2, S)
    <3>1. TxidsOf(c, a, R2, S) = TxidsOf(c, a, R, S) \cup {p.txid}
      BY <1>5, <2>4, OutputAdds
    <3> QED BY <1>6, <3>1
  <2>7. PICK d, e : d = View /\ e = View'
    OBVIOUS
  <2>8. /\ DOMAIN e = DOMAIN d \cup {ck, rk} /\ e[ck] = cv
        /\ \A k : k # ck /\ k # rk => SameAt(d, e, k)
    <3>1. View' = Written(db, operations \o <<Put(ck, cv), Put(rk, w)>>)
      BY <1>2, <2>3 DEF Book, View
    <3>2. IsSeq(operations)
      BY DEF LedgerIInv, Collected
    <3>3. ck # rk
      BY <2>2, KeyFacts
    <3>4. PICK x, ops, t : x = db /\ ops = operations /\ t = <<Put(ck, cv), Put(rk, w)>>
      OBVIOUS
    <3>5. d = Written(x, ops) /\ e = Written(x, ops \o t) /\ IsSeq(ops)
      BY <2>7, <3>1, <3>2, <3>4 DEF View
    <3> QED BY <3>3, <3>4, <3>5, PutBoth
  <2>9. RowsMatch(c, e, R2, S)
    <3>1. RowsMatch(c, d, R, S)
      BY <1>4, <2>7 DEF LedgerIInv, RowsFollow
    <3>2. ck = UtxoKey(a, p.txid, p.vout) /\ rk = TxKey(a, p.txid[1], "in", p.vout, p.txid)
      BY <1>6, <2>2
    <3>3. e[ck] = [value |-> OutputAt(c, p).value, height |-> p.txid[1]]
      BY <1>6, <2>2, <2>8
    <3> QED BY <1>5, <2>4, <2>8, <3>1, <3>2, <3>3, RowsWithOutput
  <2>10. (\A b \in Address : SameAt(View, View', SummaryKey(b))) /\ SameAt(View, View', MetaKey)
    BY <2>2, <2>7, <2>8, KeyFacts
  <2>11. /\ s = SummaryOf(chain, a, OutputsPast', ResolvedPast')
         /\ <<next, tx>> \in TxidsOf(chain, a, OutputsPast', ResolvedPast')
         /\ RowsMatch(chain, View', OutputsPast', ResolvedPast')
         /\ \A b \in Address \ {a} :
              SameSets(chain, b, OutputsPast, ResolvedPast, OutputsPast', ResolvedPast')
    BY <1>4, <1>5, <1>10, <2>5, <2>6, <2>7, <2>9
  <2> QED BY <1>2, <1>7, <1>8, <1>9, <2>1, <2>3, <2>10, <2>11, BookedStep
<1> QED BY <1>11, <1>12, <1>13

\* An input takes the coin it spends; one whose lookup failed is counted as missed.
LEMMA OutboundStep == LedgerIInv /\ Outbound => LedgerIInv'
<1> SUFFICES ASSUME LedgerIInv, Outbound PROVE LedgerIInv'
  OBVIOUS
<1>1. Position
  BY DEF LedgerIInv
<1>2. /\ tx > 0 /\ Len(Vout) <= io /\ io < Len(Vout) + Len(Vin) /\ io' = io + 1
      /\ UNCHANGED <<chain, db, blocks, next, tx>>
  BY DEF Outbound
<1>3. /\ IsChain(chain) /\ next \in Nat /\ tx \in Nat /\ io \in Nat
      /\ Among(chain, OutputsPast, ResolvedPast)
      /\ \A b : \A u \in TxidsOf(chain, b, OutputsPast, ResolvedPast) : u[1] <= next
      /\ <<next, tx>> \in Txids(chain)
      /\ Vout = TxAt(chain, <<next, tx>>).vout /\ Vin = TxAt(chain, <<next, tx>>).vin
      /\ Len(Vout) \in Nat /\ Len(Vin) \in Nat
  BY <1>1, <1>2, PlaceFacts
<1>4. PICK c, R, S, R2, S2, n, q, p, o, a, B, B2 :
        /\ c = chain /\ R = OutputsPast /\ S = ResolvedPast
        /\ R2 = OutputsPast' /\ S2 = ResolvedPast'
        /\ n = io - Len(Vout) /\ q = [txid |-> <<next, tx>>, index |-> n]
        /\ p = Vin[n + 1] /\ o = OutputAt(chain, p) /\ a = o.address
        /\ B = InputsBefore(c, <<next, tx, io>>) /\ B2 = InputsBefore(c, <<next, tx, io + 1>>)
  OBVIOUS
<1>5. /\ q \in Inputs(c) /\ q \notin B /\ B2 = B \cup {q}
      /\ OutputsBefore(c, <<next, tx, io + 1>>) = OutputsBefore(c, <<next, tx, io>>)
      /\ Prevout(c, q) \in OutputsBefore(c, <<next, tx, io>>)
  <2>1. PICK h, t, i, x, l, m :
          /\ h = next /\ t = tx /\ i = io /\ x = <<h, t>> /\ l = Len(Vout) /\ m = Len(Vin)
    OBVIOUS
  <2>2. /\ x \in Txids(c) /\ l = Len(TxAt(c, x).vout) /\ m = Len(TxAt(c, x).vin)
        /\ q = [txid |-> x, index |-> n] /\ q.txid = x /\ q.index = n
    BY <1>3, <1>4, <2>1
  <2>3. n \in Nat /\ n < m /\ i = l + n
    <3>1. i \in Nat /\ l \in Nat /\ m \in Nat /\ l <= i /\ i < l + m /\ n = i - l
      BY <1>2, <1>3, <1>4, <2>1
    <3> QED BY <3>1
  <2>4. IsChain(c) /\ q \in Inputs(c)
    BY <1>3, <1>4, <2>2, <2>3, InputsAre
  <2>5. q.txid = <<h, t>> /\ i = Len(TxAt(c, q.txid).vout) + q.index
    BY <2>1, <2>2, <2>3
  <2>6. /\ q \notin InputsBefore(c, <<h, t, i>>)
        /\ InputsBefore(c, <<h, t, i + 1>>) = InputsBefore(c, <<h, t, i>>) \cup {q}
        /\ OutputsBefore(c, <<h, t, i + 1>>) = OutputsBefore(c, <<h, t, i>>)
        /\ Prevout(c, q) \in OutputsBefore(c, <<h, t, i>>)
    BY <2>4, <2>5, InputStep
  <2> QED BY <1>4, <2>1, <2>4, <2>6
<1>6. /\ q.txid = <<next, tx>> /\ q.txid[1] = next /\ p = Prevout(c, q) /\ OutputAt(c, p) = o
  BY <1>3, <1>4 DEF Prevout
<1>7. R2 = R /\ p \in R /\ S = B \ missed /\ S2 = B2 \ missed'
  BY <1>2, <1>4, <1>5, <1>6 DEF OutputsPast, ResolvedPast, Place
<1>8. missed \subseteq B /\ q \notin missed
  BY <1>4, <1>5 DEF LedgerIInv, Collected, Place
<1>9. missed' \subseteq missed \cup {q} => missed' \subseteq InputsBefore(chain, <<next, tx, io'>>)
  BY <1>2, <1>4, <1>5, <1>8
<1>10. \/ /\ missed' = missed \cup {q}
          /\ UNCHANGED <<operations, cache, seen, touched>>
       \/ a = NoAddress /\ UNCHANGED <<operations, cache, seen, touched, missed>>
       \/ /\ a # NoAddress
          /\ Book(a, Del(UtxoKey(a, p.txid, p.vout)),
                  Put(TxKey(a, next, "out", p.vout, <<next, tx>>), o.value),
                  WithInput(Summary(a, next), next, o.value, Counted(a)))
          /\ UNCHANGED missed
  BY <1>4 DEF Outbound, Txid
<1>11. CASE /\ missed' = missed \cup {q}
            /\ UNCHANGED <<operations, cache, seen, touched>>
  <2>1. S2 = S
    BY <1>5, <1>7, <1>8, <1>11
  <2>2. \A b \in Address :
          SameSets(chain, b, OutputsPast, ResolvedPast, OutputsPast', ResolvedPast')
    BY <1>4, <1>7, <2>1 DEF SameSets
  <2>3. Resolved' = Resolved
    <3>1. Resume \in 0..next /\ Resume' = Resume
      BY <1>2 DEF LedgerIInv, RowsFollow, Resume
    <3>2. ~(q.txid[1] < Resume)
      BY <1>3, <1>6, <3>1
    <3> QED BY <1>2, <1>11, <3>1, <3>2 DEF Resolved
  <2>4. missed' \subseteq InputsBefore(chain, <<next, tx, io'>>)
    BY <1>9, <1>11
  <2> QED BY <1>2, <1>11, <2>2, <2>3, <2>4, UnbookedStep
<1>12. ASSUME UNCHANGED missed
       PROVE  /\ q \notin S /\ S2 = S \cup {q} /\ Resolved' = Resolved
              /\ missed' \subseteq InputsBefore(chain, <<next, tx, io'>>)
  <2>1. q \notin S /\ S2 = S \cup {q}
    BY <1>5, <1>7, <1>8, <1>12
  <2>2. Resolved' = Resolved
    BY <1>2, <1>12 DEF Resolved, Resume
  <2> QED BY <1>9, <1>12, <2>1, <2>2
<1>13. ASSUME UNCHANGED missed, NEW b \in Address, b # a
       PROVE  SameSets(c, b, R, S, R2, S2)
  <2>1. /\ IsChain(c) /\ Among(c, R, S) /\ OutputAt(c, p).address # b
        /\ q \in Inputs(c) /\ q \notin S /\ p \in R /\ p = Prevout(c, q) /\ S2 = S \cup {q}
    BY <1>3, <1>4, <1>5, <1>6, <1>7, <1>12, <1>13
  <2>2. /\ Sent(c, b, S2) = Sent(c, b, S) /\ Spent(c, b, S2) = Spent(c, b, S)
        /\ Unspent(c, b, R, S2) = Unspent(c, b, R, S)
        /\ TxidsOf(c, b, R, S2) = TxidsOf(c, b, R, S)
    BY <2>1, InputAdds
  <2> QED BY <1>7, <2>2 DEF SameSets
<1>14. CASE a = NoAddress /\ UNCHANGED <<operations, cache, seen, touched, missed>>
  <2>1. \A b \in Address :
          SameSets(chain, b, OutputsPast, ResolvedPast, OutputsPast', ResolvedPast')
    BY <1>4, <1>13, <1>14, LedgerAssumption
  <2> QED BY <1>2, <1>12, <1>14, <2>1, UnbookedStep
<1>15. CASE /\ a # NoAddress
            /\ Book(a, Del(UtxoKey(a, p.txid, p.vout)),
                    Put(TxKey(a, next, "out", p.vout, <<next, tx>>), o.value),
                    WithInput(Summary(a, next), next, o.value, Counted(a)))
            /\ UNCHANGED missed
  <2>0. /\ q \notin S /\ S2 = S \cup {q} /\ Resolved' = Resolved
        /\ missed' \subseteq InputsBefore(chain, <<next, tx, io'>>)
    BY <1>12, <1>15
  <2>1. a \in Address
    <3>1. p \in Outputs(c)
      BY <1>4, <1>7 DEF OutputsPast, OutputsBefore
    <3>2. OutputAt(c, p).address \in Address \cup {NoAddress}
      BY <1>3, <1>4, <3>1, OutputFacts
    <3> QED BY <1>4, <1>6, <1>15, <3>2
  <2>2. PICK ck, rk, s, w :
          /\ ck = UtxoKey(a, p.txid, p.vout) /\ w = o.value
          /\ rk = TxKey(a, next, "out", p.vout, <<next, tx>>)
          /\ s = WithInput(Summary(a, next), next, o.value, Counted(a))
    OBVIOUS
  <2>3. Book(a, Del(ck), Put(rk, w), s)
    BY <1>15, <2>2
  <2>4. /\ c = chain /\ IsChain(c) /\ Among(c, R, S) /\ OutputAt(c, p).address = a
        /\ \A u \in TxidsOf(c, a, R, S) : u[1] <= next
        /\ q \in Inputs(c) /\ q \notin S /\ p \in R /\ p = Prevout(c, q) /\ S2 = S \cup {q}
    BY <1>3, <1>4, <1>5, <1>6, <1>7, <2>0
  <2>5. s = SummaryOf(c, a, R, S2)
    <3>1. PICK h, old, i : h = next /\ old = Summary(a, next) /\ i = Counted(a)
      OBVIOUS
    <3>2. Carries(old, c, a, R, S, h)
      BY <1>4, <2>1, <3>1, SummaryIsCarried
    <3>3. SummaryFollows(a)
      BY <2>1 DEF LedgerIInv, SummariesFollow
    <3>4. i = IF q.txid \in TxidsOf(c, a, R, S) THEN 0 ELSE 1
      BY <1>2, <1>4, <1>6, <3>1, <3>3 DEF SummaryFollows, Counted
    <3>5. h \in Nat /\ q.txid[1] = h /\ \A u \in TxidsOf(c, a, R, S) : u[1] <= h
      BY <1>3, <1>6, <2>4, <3>1
    <3>6. w = OutputAt(c, p).value
      BY <1>6, <2>2
    <3>7. WithInput(old, h, w, i) = SummaryOf(c, a, R, S2)
      BY <2>4, <3>2, <3>4, <3>5, <3>6, InputSummary
    <3> QED BY <2>2, <3>1, <3>7
  <2>6. <<next, tx>> \in TxidsOf(c, a, R, S2)
    <3>1. TxidsOf(c, a, R, S2) = TxidsOf(c, a, R, S) \cup {q.txid}
      BY <2>4, InputAdds
    <3> QED BY <1>6, <3>1
  <2>7. PICK d, e : d = View /\ e = View'
    OBVIOUS
  <2>8. /\ DOMAIN e = (DOMAIN d \ {ck}) \cup {rk}
        /\ \A k : k # ck /\ k # rk => SameAt(d, e, k)
    <3>1. View' = Written(db, operations \o <<Del(ck), Put(rk, w)>>)
      BY <1>2, <2>3 DEF Book, View
    <3>2. IsSeq(operations)
      BY DEF LedgerIInv, Collected
    <3>3. ck # rk
      BY <2>2, KeyFacts
    <3>4. PICK x, ops, t : x = db /\ ops = operations /\ t = <<Del(ck), Put(rk, w)>>
      OBVIOUS
    <3>5. d = Written(x, ops) /\ e = Written(x, ops \o t) /\ IsSeq(ops)
      BY <2>7, <3>1, <3>2, <3>4 DEF View
    <3> QED BY <3>3, <3>4, <3>5, DelAndPut
  <2>9. RowsMatch(c, e, R, S2)
    <3>1. RowsMatch(c, d, R, S)
      BY <1>4, <2>7 DEF LedgerIInv, RowsFollow
    <3>2. rk = TxKey(a, q.txid[1], "out", p.vout, q.txid)
      BY <1>6, <2>2
    <3> QED BY <2>2, <2>4, <2>8, <3>1, <3>2, RowsWithInput
  <2>10. (\A b \in Address : SameAt(View, View', SummaryKey(b))) /\ SameAt(View, View', MetaKey)
    BY <2>2, <2>7, <2>8, KeyFacts
  <2>11. /\ s = SummaryOf(chain, a, OutputsPast', ResolvedPast')
         /\ <<next, tx>> \in TxidsOf(chain, a, OutputsPast', ResolvedPast')
         /\ RowsMatch(chain, View', OutputsPast', ResolvedPast')
         /\ \A b \in Address \ {a} :
              SameSets(chain, b, OutputsPast, ResolvedPast, OutputsPast', ResolvedPast')
    BY <1>4, <1>7, <1>13, <1>15, <2>5, <2>6, <2>7, <2>9
  <2> QED BY <1>2, <2>0, <2>1, <2>3, <2>10, <2>11, BookedStep
<1> QED BY <1>10, <1>11, <1>14, <1>15

--------------------------------------------------------------------------------
(* Between the transactions of a block. *)

\* Between the transactions all of the one before has been handled.
LEMMA BetweenIsDone ==
  ASSUME Position, Between
  PROVE  Done(chain, next, tx, io)
<1>1. CASE tx = 0
  BY <1>1 DEF Position, Done
<1>2. CASE tx # 0
  <2>1. tx > 0
    BY <1>2, PlaceFacts
  <2>2. io = Len(Vout) + Len(Vin)
    BY <1>2 DEF Between, Handled
  <2> QED BY <2>1, <2>2, PlaceFacts DEF Done
<1> QED BY <1>1, <1>2

\* The next transaction begins with no address seen, and none of it has been handled.
LEMMA NextTransactionStep == LedgerIInv /\ NextTransaction => LedgerIInv'
<1> SUFFICES ASSUME LedgerIInv, NextTransaction PROVE LedgerIInv'
  OBVIOUS
<1>1. /\ Between /\ tx < Len(Block) /\ tx' = tx + 1 /\ io' = 0 /\ seen' = {}
      /\ UNCHANGED <<chain, db, operations, blocks, cache, next, touched, missed>>
  BY DEF NextTransaction, scanVars
<1>2. Position
  BY DEF LedgerIInv
<1>3. /\ IsChain(chain) /\ next \in Nat /\ tx \in Nat /\ io \in Nat /\ Len(chain) \in Nat
      /\ Done(chain, next, tx, io) /\ next < Len(chain) /\ ~Full
  BY <1>1, <1>2, PlaceFacts, BetweenIsDone DEF Between
<1>4. /\ Resume' = Resume /\ Indexed' = Indexed /\ Resolved' = Resolved /\ View' = View
      /\ Block' = Block /\ (Full' <=> Full) /\ Place' = <<next, tx + 1, 0>>
  BY <1>1 DEF Resume, Indexed, Resolved, View, Block, Full, Place
<1>5. /\ OutputsBefore(chain, <<next, tx + 1, 0>>) = OutputsBefore(chain, <<next, tx, io>>)
      /\ InputsBefore(chain, <<next, tx + 1, 0>>) = InputsBefore(chain, <<next, tx, io>>)
  BY <1>3, OtherTransaction
<1>6. /\ OutputsPast' = OutputsPast /\ ResolvedPast' = ResolvedPast
      /\ InputsBefore(chain', Place') = InputsBefore(chain, Place)
  BY <1>1, <1>4, <1>5 DEF OutputsPast, ResolvedPast, Place
<1>7. Position'
  <2>1. PICK u : u = <<next, tx + 1>>
    OBVIOUS
  <2>2. u \in Txids(chain)
    <3>1. next + 1 \in 1..Len(chain)
      BY <1>3
    <3>2. Len(chain[next + 1]) \in Nat
      BY <1>3, <3>1, ChainFacts
    <3>3. tx + 1 \in 1..Len(chain[next + 1]) /\ next \in 0..(Len(chain) - 1)
      BY <1>1, <1>3, <3>2 DEF Block
    <3>4. u[1] = next /\ u[2] = tx + 1 /\ u = <<u[1], u[2]>>
      BY <2>1
    <3> QED BY <1>3, <3>3, <3>4, TxidsAre
  <2>3. Vout' = TxAt(chain, u).vout /\ Vin' = TxAt(chain, u).vin
    BY <1>1, <1>4, <2>1 DEF Vout, Vin, Block, TxAt
  <2>4. Len(Vout') \in Nat /\ Len(Vin') \in Nat
    BY <1>3, <2>2, <2>3, TxFacts
  <2>5. io' <= Len(Vout') + Len(Vin')
    BY <1>1, <2>4
  <2>6. tx' \in Nat /\ tx' # 0 /\ io' \in Nat /\ tx' <= Len(Block)
    <3>1. Len(Block) \in Nat
      BY <1>3, ChainFacts DEF Block
    <3> QED BY <1>1, <1>3, <3>1
  <2> HIDE DEF Vout, Vin, Block, Full
  <2> QED BY <1>1, <1>2, <1>3, <1>4, <2>5, <2>6 DEF Position
<1>8. Collected'
  <2>1. Collected
    BY DEF LedgerIInv
  <2> QED BY <1>1, <1>6, <2>1 DEF Collected
<1>9. RowsFollow'
  <2>1. RowsFollow
    BY DEF LedgerIInv
  <2> QED BY <1>1, <1>4, <1>6, <2>1 DEF RowsFollow
<1>10. ASSUME NEW a \in Address PROVE SummaryFollows(a)'
  <2>1. SummaryFollows(a)
    BY DEF LedgerIInv, SummariesFollow
  <2>2. <<next', tx'>> \notin TxidsOf(chain', a, OutputsPast', ResolvedPast')
    BY <1>1, <1>3, <1>4, BeforeTransaction DEF OutputsPast, ResolvedPast
  <2>3. a \notin seen'
    BY <1>1
  <2> QED BY <1>1, <1>4, <1>6, <2>1, <2>2, <2>3 DEF SummaryFollows
<1> QED BY <1>7, <1>8, <1>9, <1>10 DEF LedgerIInv, SummariesFollow

--------------------------------------------------------------------------------
(* The end of a block. *)

\* The empty sequence.
LEMMA NothingCollected == IsSeq(<<>>) /\ Range(<<>>) = {} /\ Keys(<<>>) = {}
<1>1. IsSeq(<<>>)
  BY DEF IsSeq
<1>2. PICK s : s = <<>>
  OBVIOUS
<1>3. Len(s) = 0 /\ IsSeq(s)
  BY <1>1, <1>2
<1>4. DOMAIN s = {}
  BY <1>3, SeqFacts
<1>5. Range(s) = {} /\ Keys(s) = {}
  BY <1>4 DEF Range, Keys
<1> QED BY <1>1, <1>2, <1>5

\* The rows of the summaries that a block changed.
LEMMA SummaryRows ==
  ASSUME NEW s, IsSeq(s), NEW f,
         NEW t, t = [i \in DOMAIN s |-> Put(SummaryKey(s[i]), Sanitize(f[s[i]]))]
  PROVE  /\ IsSeq(t)
         /\ \A k : k \in Keys(t) <=> \E b \in Range(s) : k = SummaryKey(b)
         /\ \A b \in Range(s) : /\ LastFor(t, SummaryKey(b)).type = "put"
                                /\ LastFor(t, SummaryKey(b)).value = Sanitize(f[b])
<1>1. PICK n : n = Len(s)
  OBVIOUS
<1>2. n \in Nat /\ DOMAIN s = 1..n
  BY <1>1, SeqFacts
<1>3. t = [i \in 1..n |-> t[i]] /\ DOMAIN t = 1..n
  BY <1>2
<1>4. IsSeq(t) /\ Len(t) = n
  BY <1>2, <1>3, FunctionIsSeq
<1>5. ASSUME NEW i \in 1..n
      PROVE  /\ t[i].key = SummaryKey(s[i]) /\ t[i].type = "put"
             /\ t[i].value = Sanitize(f[s[i]]) /\ s[i] \in Range(s)
  <2>1. t[i] = Put(SummaryKey(s[i]), Sanitize(f[s[i]]))
    BY <1>2
  <2>2. s[i] \in Range(s)
    BY <1>2 DEF Range
  <2> QED BY <2>1, <2>2 DEF Put
<1>6. \A b \in Range(s) : \E i \in 1..n : s[i] = b
  BY <1>2 DEF Range
<1>7. ASSUME NEW k PROVE k \in Keys(t) <=> \E b \in Range(s) : k = SummaryKey(b)
  <2>1. k \in Keys(t) <=> \E i \in 1..n : k = t[i].key
    BY <1>3 DEF Keys
  <2>2. ASSUME NEW i \in 1..n, k = t[i].key PROVE \E b \in Range(s) : k = SummaryKey(b)
    BY <1>5, <2>2
  <2>3. ASSUME NEW b \in Range(s), k = SummaryKey(b) PROVE \E i \in 1..n : k = t[i].key
    <3>1. PICK i \in 1..n : s[i] = b
      BY <1>6
    <3>2. t[i].key = SummaryKey(b)
      BY <1>5, <3>1
    <3> QED BY <2>3, <3>2
  <2> QED BY <2>1, <2>2, <2>3
<1>8. ASSUME NEW b \in Range(s)
      PROVE  /\ LastFor(t, SummaryKey(b)).type = "put"
             /\ LastFor(t, SummaryKey(b)).value = Sanitize(f[b])
  <2>1. PICK k : k = SummaryKey(b)
    OBVIOUS
  <2>2. k \in Keys(t)
    BY <1>7, <2>1
  <2>3. PICK i \in 1..n : t[i].key = k /\ LastFor(t, k) = t[i]
    BY <1>4, <2>2, LastExists
  <2>4. SummaryKey(s[i]) = SummaryKey(b)
    BY <1>5, <2>1, <2>3
  <2>5. s[i] = b
    BY <2>4, KeyFacts
  <2> QED BY <1>5, <2>1, <2>3, <2>5
<1> QED BY <1>4, <1>7, <1>8

\* What the end of a block writes: the summaries of the set T from f, and the progress n.
LEMMA BlockWritten ==
  ASSUME NEW x, NEW ops, IsSeq(ops), NEW s, IsSeq(s), NEW f, NEW n,
         NEW t, t = [i \in DOMAIN s |-> Put(SummaryKey(s[i]), Sanitize(f[s[i]]))],
         NEW m, m = <<Put(MetaKey, n)>>,
         NEW d, d = Written(x, ops), NEW e, e = Written(x, (ops \o t) \o m)
  PROVE  /\ IsSeq((ops \o t) \o m)
         /\ \A b \in Range(s) : SummaryKey(b) \in DOMAIN e /\ e[SummaryKey(b)] = Sanitize(f[b])
         /\ MetaKey \in DOMAIN e /\ e[MetaKey] = n
         /\ \A k : k # MetaKey /\ (\A b \in Range(s) : k # SummaryKey(b)) => SameAt(d, e, k)
<1>1. /\ IsSeq(t)
      /\ \A k : k \in Keys(t) <=> \E b \in Range(s) : k = SummaryKey(b)
      /\ \A b \in Range(s) : /\ LastFor(t, SummaryKey(b)).type = "put"
                             /\ LastFor(t, SummaryKey(b)).value = Sanitize(f[b])
  BY SummaryRows
<1>2. IsSeq(m) /\ Keys(m) = {MetaKey} /\ LastFor(m, MetaKey) = Put(MetaKey, n)
  <2>1. PICK y : y = Put(MetaKey, n)
    OBVIOUS
  <2>2. y.key = MetaKey
    BY <2>1 DEF Put
  <2> QED BY <2>1, <2>2, SingleOp
<1>3. LastFor(m, MetaKey).type = "put" /\ LastFor(m, MetaKey).value = n
  BY <1>2 DEF Put
<1>4. PICK u, v, w : u = ops \o t /\ v = u \o m /\ w = Written(x, u)
  OBVIOUS
<1>5. IsSeq(u)
  BY <1>1, <1>4, ConcatFacts
<1>6. IsSeq(v)
  BY <1>2, <1>4, <1>5, ConcatFacts
<1>7. /\ \A k : k \in Keys(t) => (k \in DOMAIN w <=> LastFor(t, k).type = "put")
      /\ \A k : k \notin Keys(t) => (k \in DOMAIN w <=> k \in DOMAIN d)
      /\ \A k \in DOMAIN w : k \in Keys(t) => w[k] = LastFor(t, k).value
      /\ \A k \in DOMAIN w : k \notin Keys(t) => w[k] = d[k]
  <2>1. w = Written(x, ops \o t)
    BY <1>4
  <2> QED BY <1>1, <2>1, WrittenOn
<1>8. /\ \A k : k \in Keys(m) => (k \in DOMAIN e <=> LastFor(m, k).type = "put")
      /\ \A k : k \notin Keys(m) => (k \in DOMAIN e <=> k \in DOMAIN w)
      /\ \A k \in DOMAIN e : k \in Keys(m) => e[k] = LastFor(m, k).value
      /\ \A k \in DOMAIN e : k \notin Keys(m) => e[k] = w[k]
  <2>1. w = Written(x, u) /\ e = Written(x, u \o m)
    BY <1>4
  <2>2. IsSeq(u) /\ IsSeq(m)
    BY <1>2, <1>5
  <2>3. \A k : k \in Keys(m) => (k \in DOMAIN e <=> LastFor(m, k).type = "put")
    BY <2>1, <2>2, WrittenOn
  <2>4. \A k : k \notin Keys(m) => (k \in DOMAIN e <=> k \in DOMAIN w)
    BY <2>1, <2>2, WrittenOn
  <2>5. \A k \in DOMAIN e : k \in Keys(m) => e[k] = LastFor(m, k).value
    BY <2>1, <2>2, WrittenOn
  <2>6. \A k \in DOMAIN e : k \notin Keys(m) => e[k] = w[k]
    BY <2>1, <2>2, WrittenOn
  <2> QED BY <2>3, <2>4, <2>5, <2>6
<1>9. MetaKey \in DOMAIN e /\ e[MetaKey] = n
  BY <1>2, <1>3, <1>8
<1>10. ASSUME NEW b \in Range(s)
       PROVE  SummaryKey(b) \in DOMAIN e /\ e[SummaryKey(b)] = Sanitize(f[b])
  <2>1. PICK k : k = SummaryKey(b)
    OBVIOUS
  <2>2. k # MetaKey
    BY <2>1, KeyFacts
  <2>3. k \in Keys(t) /\ LastFor(t, k).type = "put" /\ LastFor(t, k).value = Sanitize(f[b])
    BY <1>1, <2>1
  <2>4. k \in DOMAIN w /\ w[k] = Sanitize(f[b])
    BY <1>7, <2>3
  <2>5. k \in DOMAIN e /\ e[k] = w[k]
    BY <1>2, <1>8, <2>2, <2>4
  <2> QED BY <2>1, <2>4, <2>5
<1>11. ASSUME NEW k, k # MetaKey, \A b \in Range(s) : k # SummaryKey(b) PROVE SameAt(d, e, k)
  <2>1. k \notin Keys(t) /\ k \notin Keys(m)
    BY <1>1, <1>2, <1>11
  <2> QED BY <1>7, <1>8, <2>1 DEF SameAt
<1> QED BY <1>4, <1>6, <1>9, <1>10, <1>11

\* The summaries of a block's addresses are written as they are in the cache, and the
\* progress with them.
LEMMA EndBlockStep == LedgerIInv /\ EndBlock => LedgerIInv'
<1> SUFFICES ASSUME LedgerIInv, EndBlock PROVE LedgerIInv'
  OBVIOUS
<1>1. /\ Between /\ tx = Len(Block) /\ blocks' = blocks + 1 /\ next' = next + 1
      /\ tx' = 0 /\ io' = 0 /\ seen' = {} /\ touched' = <<>>
      /\ UNCHANGED <<chain, db, cache, missed>>
  BY DEF EndBlock
<1>2. Position /\ Collected
  BY DEF LedgerIInv
<1>3. /\ IsChain(chain) /\ next \in Nat /\ tx \in Nat /\ io \in Nat /\ Len(chain) \in Nat
      /\ Done(chain, next, tx, io) /\ next < Len(chain) /\ ~Full
      /\ Among(chain, OutputsPast, ResolvedPast)
  BY <1>1, <1>2, PlaceFacts, BetweenIsDone DEF Between
<1>4. /\ Resume' = Resume /\ Indexed' = Indexed /\ Resolved' = Resolved
      /\ Place' = <<next + 1, 0, 0>>
  BY <1>1 DEF Resume, Indexed, Resolved, Place
<1>5. /\ OutputsBefore(chain, <<next + 1, 0, 0>>) = OutputsBefore(chain, <<next, tx, io>>)
      /\ InputsBefore(chain, <<next + 1, 0, 0>>) = InputsBefore(chain, <<next, tx, io>>)
  <2>1. tx = Len(chain[next + 1])
    BY <1>1 DEF Block
  <2> QED BY <1>3, <2>1, OtherTransaction
<1>6. /\ OutputsPast' = OutputsPast /\ ResolvedPast' = ResolvedPast
      /\ InputsBefore(chain', Place') = InputsBefore(chain, Place)
  BY <1>1, <1>4, <1>5 DEF OutputsPast, ResolvedPast, Place
<1>7. PICK c, R, S, x, ops, s, f, n, t, m, d, e :
        /\ c = chain /\ R = OutputsPast /\ S = ResolvedPast
        /\ x = db /\ ops = operations /\ s = touched /\ f = cache /\ n = next
        /\ t = [i \in DOMAIN touched |-> Put(SummaryKey(touched[i]), Sanitize(cache[touched[i]]))]
        /\ m = <<Put(MetaKey, next)>> /\ d = View /\ e = View'
  OBVIOUS
<1>8. /\ IsSeq(operations')
      /\ \A b \in Range(s) : SummaryKey(b) \in DOMAIN e /\ e[SummaryKey(b)] = Sanitize(f[b])
      /\ MetaKey \in DOMAIN e /\ e[MetaKey] = n
      /\ \A k : k # MetaKey /\ (\A b \in Range(s) : k # SummaryKey(b)) => SameAt(d, e, k)
  <2>1. IsSeq(ops) /\ IsSeq(s)
    BY <1>2, <1>7 DEF Collected
  <2>2. operations' = (ops \o t) \o m
    BY <1>7 DEF EndBlock
  <2>3. d = Written(x, ops) /\ e = Written(x, (ops \o t) \o m)
    BY <1>1, <1>7, <2>2 DEF View
  <2>4. t = [i \in DOMAIN s |-> Put(SummaryKey(s[i]), Sanitize(f[s[i]]))] /\ m = <<Put(MetaKey, n)>>
    BY <1>7
  <2>5. /\ IsSeq((ops \o t) \o m)
        /\ \A b \in Range(s) : SummaryKey(b) \in DOMAIN e /\ e[SummaryKey(b)] = Sanitize(f[b])
        /\ MetaKey \in DOMAIN e /\ e[MetaKey] = n
        /\ \A k : k # MetaKey /\ (\A b \in Range(s) : k # SummaryKey(b)) => SameAt(d, e, k)
    BY <2>1, <2>3, <2>4, BlockWritten
  <2> QED BY <2>2, <2>5
<1>9. Position'
  <2>1. blocks' \in 0..BatchBlocks
    BY <1>1, <1>2, <1>3, LedgerAssumption DEF Position, Full
  <2>2. next' \in 0..Len(chain)
    BY <1>1, <1>3
  <2> QED BY <1>1, <1>2, <2>1, <2>2 DEF Position
<1>10. Collected'
  <2>1. IsSeq(touched') /\ Range(touched') = {}
    BY <1>1, NothingCollected
  <2>2. DOMAIN cache' \subseteq Address /\ missed' \subseteq InputsBefore(chain', Place')
    BY <1>1, <1>2, <1>6 DEF Collected
  <2>3. db' = [k \in DOMAIN db' |-> db'[k]]
    BY <1>1, <1>2 DEF Collected
  <2>4. Range(touched') \subseteq DOMAIN cache' /\ seen' \subseteq Range(touched')
    BY <1>1, <2>1
  <2> QED BY <1>8, <2>1, <2>2, <2>3, <2>4 DEF Collected
<1>11. RowsFollow'
  <2>1. RowsFollow
    BY DEF LedgerIInv
  <2>2. Resume' \in 0..next'
    BY <1>1, <1>3, <1>4, <2>1 DEF RowsFollow
  <2>3. Progress(View') = next'
    BY <1>1, <1>7, <1>8 DEF Progress
  <2>4. RowsMatch(c, d, R, S)
    BY <1>7, <2>1 DEF RowsFollow
  <2>5. \A k : k[1] \in {"utxo", "tx"} => SameAt(d, e, k)
    BY <1>8, KeyFacts
  <2>6. RowsMatch(c, e, R, S)
    BY <2>4, <2>5, RowsUnchanged
  <2> QED BY <1>1, <1>4, <1>6, <1>7, <2>1, <2>2, <2>3, <2>6 DEF RowsFollow
<1>12. ASSUME NEW a \in Address PROVE SummaryFollows(a)'
  <2>1. SummaryFollows(a)
    BY DEF LedgerIInv, SummariesFollow
  <2>2. SummaryMatches(c, e, a, R, S)
    <3>1. CASE a \in Range(s)
      <4>1. TxidsOf(c, a, R, S) # {} /\ f[a] = SummaryOf(c, a, R, S)
        BY <1>2, <1>7, <2>1, <3>1 DEF SummaryFollows, Collected
      <4>2. Sanitize(SummaryOf(c, a, R, S)) = SummaryOf(c, a, R, S)
        BY <1>3, <1>7, <4>1, SummarySanitized
      <4>3. SummaryKey(a) \in DOMAIN e /\ e[SummaryKey(a)] = SummaryOf(c, a, R, S)
        BY <1>8, <3>1, <4>1, <4>2
      <4> QED BY <4>1, <4>3 DEF SummaryMatches
    <3>2. CASE a \notin Range(s)
      <4>1. SummaryMatches(c, d, a, R, S)
        BY <1>7, <2>1, <3>2 DEF SummaryFollows
      <4>2. SameAt(d, e, SummaryKey(a))
        BY <1>8, <3>2, KeyFacts
      <4> QED BY <4>1, <4>2, SameSummary
    <3> QED BY <3>1, <3>2
  <2>3. ~(tx' > 0)
    BY <1>1
  <2> QED BY <1>1, <1>4, <1>6, <1>7, <2>1, <2>2, <2>3 DEF SummaryFollows
<1> QED BY <1>9, <1>10, <1>11, <1>12 DEF LedgerIInv, SummariesFollow

--------------------------------------------------------------------------------
(* Commits and restarts. *)

\* Nothing has been collected since the progress in the database.
AtRest ==
  /\ chain \in Chains /\ db = [k \in DOMAIN db |-> db[k]]
  /\ operations = <<>> /\ blocks = 0 /\ cache = Empty /\ next = Resume
  /\ tx = 0 /\ io = 0 /\ seen = {} /\ touched = <<>>
  /\ next \in 0..Len(chain) /\ missed \subseteq {q \in Inputs(chain) : q.txid[1] < next}
  /\ RowsMatch(chain, db, Indexed, Resolved)
  /\ \A a \in Address : SummaryMatches(chain, db, a, Indexed, Resolved)

\* A batch of nothing.
LEMMA NothingWritten ==
  ASSUME NEW d, d = [k \in DOMAIN d |-> d[k]]
  PROVE  Written(d, <<>>) = d
<1>1. PICK t : t = <<>>
  OBVIOUS
<1>2. Keys(t) = {}
  BY <1>1, NothingCollected
<1>3. Written(d, t) = [k \in DOMAIN d |-> d[k]]
  BY <1>2 DEF Written
<1> QED BY <1>1, <1>3

\* At rest the database is all there is.
LEMMA AtRestFollows == AtRest => LedgerIInv
<1> SUFFICES ASSUME AtRest PROVE LedgerIInv
  OBVIOUS
<1>1. /\ chain \in Chains /\ db = [k \in DOMAIN db |-> db[k]]
      /\ operations = <<>> /\ blocks = 0 /\ cache = Empty /\ next = Resume
      /\ tx = 0 /\ io = 0 /\ seen = {} /\ touched = <<>>
      /\ next \in 0..Len(chain) /\ missed \subseteq {q \in Inputs(chain) : q.txid[1] < next}
      /\ RowsMatch(chain, db, Indexed, Resolved)
  BY DEF AtRest
<1>2. IsChain(chain) /\ next \in Nat
  BY <1>1, LedgerAssumption
<1>3. Place = <<next, 0, 0>>
  BY <1>1 DEF Place
<1>4. /\ OutputsBefore(chain, Place) = {p \in Outputs(chain) : p.txid[1] < next}
      /\ InputsBefore(chain, Place) = {q \in Inputs(chain) : q.txid[1] < next}
  BY <1>2, <1>3, BlockStart
<1>5. OutputsPast = Indexed /\ ResolvedPast = Resolved
  <2>1. OutputsPast = Indexed
    BY <1>1, <1>4 DEF OutputsPast, Indexed
  <2>2. PICK r, I, m : r = Resume /\ I = Inputs(chain) /\ m = missed
    OBVIOUS
  <2>3. ResolvedPast = {q \in I : q.txid[1] < r} \ m
    BY <1>1, <1>4, <2>2 DEF ResolvedPast
  <2>4. Resolved = {q \in I \ m : q.txid[1] < r}
    BY <2>2 DEF Resolved
  <2>5. {q \in I : q.txid[1] < r} \ m = {q \in I \ m : q.txid[1] < r}
    OBVIOUS
  <2> QED BY <2>1, <2>3, <2>4, <2>5
<1>6. View = db
  BY <1>1, NothingWritten DEF View
<1>7. Position
  BY <1>1, LedgerAssumption DEF Position
<1>8. DOMAIN cache = {}
  BY <1>1 DEF Empty
<1>9. IsSeq(operations) /\ IsSeq(touched) /\ Range(touched) = {}
  BY <1>1, NothingCollected
<1>10. Collected
  BY <1>1, <1>4, <1>8, <1>9 DEF Collected
<1>11. RowsFollow
  <2>1. Progress(View) = next
    BY <1>1, <1>6 DEF Progress, Resume
  <2> QED BY <1>1, <1>2, <1>5, <1>6, <2>1 DEF RowsFollow
<1>12. ASSUME NEW a \in Address PROVE SummaryFollows(a)
  <2>1. SummaryMatches(chain, db, a, Indexed, Resolved)
    BY DEF AtRest
  <2>2. a \notin DOMAIN cache /\ ~(tx > 0)
    BY <1>1, <1>8
  <2> QED BY <1>5, <1>6, <2>1, <2>2 DEF SummaryFollows
<1> QED BY <1>7, <1>10, <1>11, <1>12 DEF LedgerIInv, SummariesFollow

\* The empty database is right for no blocks.
LEMMA LedgerInit == Init => AtRest
<1> SUFFICES ASSUME Init PROVE AtRest
  OBVIOUS
<1>1. /\ chain \in Chains /\ db = Empty
      /\ operations = <<>> /\ blocks = 0 /\ cache = Empty /\ next = 0
      /\ tx = 0 /\ io = 0 /\ seen = {} /\ touched = <<>> /\ missed = {}
  BY DEF Init
<1>2. IsChain(chain)
  BY <1>1, LedgerAssumption
<1>3. DOMAIN db = {} /\ db = [k \in DOMAIN db |-> db[k]]
  BY <1>1 DEF Empty
<1>4. Resume = 0
  BY <1>3 DEF Resume
<1>5. Indexed = {} /\ Resolved = {}
  <2>1. \A p \in Outputs(chain) : ~(p.txid[1] < 0)
    BY <1>2, OutputsAre, TxFacts
  <2>2. \A q \in Inputs(chain) : ~(q.txid[1] < 0)
    BY <1>2, InputsAre, TxFacts
  <2> QED BY <1>4, <2>1, <2>2 DEF Indexed, Resolved
<1>6. PICK c, d : c = chain /\ d = db
  OBVIOUS
<1>7. ASSUME NEW a
      PROVE  CoinsMatch(c, d, a, {}, {}) /\ HistoryMatches(c, d, a, {}, {})
             /\ SummaryMatches(c, d, a, {}, {})
  <2>1. Received(c, a, {}) = {} /\ Sent(c, a, {}) = {}
    BY DEF Received, Sent
  <2>2. Unspent(c, a, {}, {}) = {}
    BY <2>1 DEF Unspent
  <2>3. TxidsOf(c, a, {}, {}) = {}
    BY <2>1 DEF TxidsOf
  <2>4. \A kind : RowsOf(d, kind, a) = {}
    BY <1>3, <1>6 DEF RowsOf
  <2>5. CoinsMatch(c, d, a, {}, {})
    BY <2>2, <2>4 DEF CoinsMatch
  <2>6. HistoryMatches(c, d, a, {}, {})
    BY <2>1, <2>4 DEF HistoryMatches
  <2>7. SummaryMatches(c, d, a, {}, {})
    BY <1>3, <1>6, <2>3 DEF SummaryMatches
  <2> QED BY <2>5, <2>6, <2>7
<1>8. RowsMatch(chain, db, Indexed, Resolved)
  BY <1>5, <1>6, <1>7 DEF RowsMatch
<1>9. \A a \in Address : SummaryMatches(chain, db, a, Indexed, Resolved)
  BY <1>5, <1>6, <1>7
<1>10. next \in 0..Len(chain) /\ next = Resume
  BY <1>1, <1>2, <1>4, ChainFacts
<1> QED BY <1>1, <1>3, <1>8, <1>9, <1>10 DEF AtRest

\* A commit makes what was going to be written the database.
LEMMA FlushPendingStep == LedgerIInv /\ FlushPending => AtRest'
<1> SUFFICES ASSUME LedgerIInv, FlushPending PROVE AtRest'
  OBVIOUS
<1>1. /\ tx = 0 /\ db' = View /\ operations' = <<>> /\ blocks' = 0 /\ cache' = Empty
      /\ UNCHANGED <<chain, next, tx, io, seen, touched, missed>>
  BY DEF FlushPending, blockVars, View
<1>2. Position /\ Collected /\ RowsFollow
  BY DEF LedgerIInv
<1>3. /\ IsChain(chain) /\ next \in Nat /\ next \in 0..Len(chain)
      /\ io = 0 /\ seen = {} /\ touched = <<>>
  BY <1>1, <1>2, PlaceFacts DEF Position
<1>4. Resume' = next
  <2>1. Progress(View) = next
    BY <1>2 DEF RowsFollow
  <2> QED BY <1>1, <2>1 DEF Resume, Progress
<1>5. Place = <<next, 0, 0>>
  BY <1>1, <1>3 DEF Place
<1>6. /\ OutputsBefore(chain, Place) = {p \in Outputs(chain) : p.txid[1] < next}
      /\ InputsBefore(chain, Place) = {q \in Inputs(chain) : q.txid[1] < next}
  BY <1>3, <1>5, BlockStart
<1>7. Indexed' = OutputsPast /\ Resolved' = ResolvedPast
  <2>1. Indexed' = OutputsPast
    BY <1>1, <1>4, <1>6 DEF OutputsPast, Indexed
  <2>2. PICK n, I, m : n = next /\ I = Inputs(chain) /\ m = missed
    OBVIOUS
  <2>3. ResolvedPast = {q \in I : q.txid[1] < n} \ m
    BY <1>6, <2>2 DEF ResolvedPast
  <2>4. Resolved' = {q \in I \ m : q.txid[1] < n}
    BY <1>1, <1>4, <2>2 DEF Resolved
  <2>5. {q \in I : q.txid[1] < n} \ m = {q \in I \ m : q.txid[1] < n}
    OBVIOUS
  <2> QED BY <2>1, <2>3, <2>4, <2>5
<1>8. db' = [k \in DOMAIN db' |-> db'[k]]
  <2>1. PICK x, ops : x = db /\ ops = operations
    OBVIOUS
  <2>2. PICK e : e = Written(x, ops)
    OBVIOUS
  <2>3. e = [k \in DOMAIN e |-> e[k]]
    BY <2>2 DEF Written
  <2> QED BY <1>1, <2>1, <2>2, <2>3 DEF View
<1>9. RowsMatch(chain', db', Indexed', Resolved')
  BY <1>1, <1>2, <1>7 DEF RowsFollow
<1>10. ASSUME NEW a \in Address PROVE SummaryMatches(chain', db', a, Indexed', Resolved')
  <2>1. SummaryFollows(a)
    BY DEF LedgerIInv, SummariesFollow
  <2>2. a \notin Range(touched)
    BY <1>3, NothingCollected
  <2> QED BY <1>1, <1>7, <2>1, <2>2 DEF SummaryFollows
<1>11. missed' \subseteq {q \in Inputs(chain') : q.txid[1] < next'}
  BY <1>1, <1>2, <1>6 DEF Collected
<1> QED BY <1>1, <1>2, <1>3, <1>4, <1>8, <1>9, <1>10, <1>11 DEF AtRest, Position

\* A crash leaves the database and its progress, which agree.
LEMMA RestartStep == LedgerIInv /\ Restart => AtRest'
<1> SUFFICES ASSUME LedgerIInv, Restart PROVE AtRest'
  OBVIOUS
<1>1. /\ operations' = <<>> /\ blocks' = 0 /\ cache' = Empty /\ next' = Resume
      /\ tx' = 0 /\ io' = 0 /\ seen' = {} /\ touched' = <<>>
      /\ missed' = {q \in missed : q.txid[1] < Resume}
      /\ UNCHANGED <<chain, db>>
  BY DEF Restart
<1>2. Position /\ Collected /\ RowsFollow
  BY DEF LedgerIInv
<1>3. Resume' = Resume /\ Indexed' = Indexed
  BY <1>1 DEF Resume, Indexed
<1>4. Resolved' = Resolved
  <2>1. PICK r, I, m, m2 : r = Resume /\ I = Inputs(chain) /\ m = missed /\ m2 = missed'
    OBVIOUS
  <2>2. m2 = {q \in m : q.txid[1] < r}
    BY <1>1, <2>1
  <2>3. {q \in I \ m2 : q.txid[1] < r} = {q \in I \ m : q.txid[1] < r}
    BY <2>2
  <2> QED BY <1>1, <1>3, <2>1, <2>3 DEF Resolved
<1>5. next' \in 0..Len(chain)
  <2>1. Resume \in 0..next /\ next \in 0..Len(chain) /\ Len(chain) \in Nat
    BY <1>2, PlaceFacts DEF RowsFollow, Position
  <2> QED BY <1>1, <2>1
<1>6. missed' \subseteq {q \in Inputs(chain') : q.txid[1] < next'}
  BY <1>1, <1>2 DEF Collected, InputsBefore
<1>7. RowsMatch(chain', db', Indexed', Resolved')
  BY <1>1, <1>2, <1>3, <1>4 DEF RowsFollow
<1>8. ASSUME NEW a \in Address PROVE SummaryMatches(chain', db', a, Indexed', Resolved')
  <2>1. SummaryFollows(a)
    BY DEF LedgerIInv, SummariesFollow
  <2> QED BY <1>1, <1>3, <1>4, <2>1 DEF SummaryFollows
<1>9. chain' \in Chains /\ db' = [k \in DOMAIN db' |-> db'[k]]
  BY <1>1, <1>2 DEF Position, Collected
<1> QED BY <1>1, <1>3, <1>5, <1>6, <1>7, <1>8, <1>9 DEF AtRest

--------------------------------------------------------------------------------
(* The invariants. *)

\* A step of nothing.
LEMMA LedgerUnchanged == LedgerIInv /\ UNCHANGED vars => LedgerIInv'
<1> SUFFICES ASSUME LedgerIInv, UNCHANGED vars PROVE LedgerIInv'
  OBVIOUS
<1>1. UNCHANGED <<chain, db, operations, blocks, cache, next, tx, io, seen, touched, missed>>
  BY DEF vars, scanVars, blockVars
<1>2. /\ Resume' = Resume /\ Indexed' = Indexed /\ Resolved' = Resolved /\ View' = View
      /\ Place' = Place /\ Block' = Block /\ (Full' <=> Full)
  BY <1>1 DEF Resume, Indexed, Resolved, View, Place, Block, Full
<1>3. /\ OutputsPast' = OutputsPast /\ ResolvedPast' = ResolvedPast /\ Vout' = Vout /\ Vin' = Vin
  BY <1>1, <1>2 DEF OutputsPast, ResolvedPast, Vout, Vin
<1>4. Position'
  <2> HIDE DEF Vout, Vin, Block, Full
  <2> QED BY <1>1, <1>2, <1>3 DEF LedgerIInv, Position
<1>5. Collected'
  BY <1>1, <1>2 DEF LedgerIInv, Collected
<1>6. RowsFollow'
  BY <1>1, <1>2, <1>3 DEF LedgerIInv, RowsFollow
<1>7. ASSUME NEW a \in Address PROVE SummaryFollows(a)'
  <2>1. SummaryFollows(a)
    BY DEF LedgerIInv, SummariesFollow
  <2> QED BY <1>1, <1>2, <1>3, <2>1 DEF SummaryFollows
<1> QED BY <1>4, <1>5, <1>6, <1>7 DEF LedgerIInv, SummariesFollow

\* The inductive invariant holds in every reachable state, whatever the chain, the size of
\* the batches, the lookups that failed and the crashes (addressIndexer.js: initialSync,
\* processBlockHash, flushPending).
THEOREM LedgerInvariance == Spec => []LedgerIInv
<1>1. Init => LedgerIInv
  BY LedgerInit, AtRestFollows
<1>2. LedgerIInv /\ [Next]_vars => LedgerIInv'
  <2>1. LedgerIInv /\ NextTransaction => LedgerIInv'
    BY NextTransactionStep
  <2>2. LedgerIInv /\ Inbound => LedgerIInv'
    BY InboundStep
  <2>3. LedgerIInv /\ Outbound => LedgerIInv'
    BY OutboundStep
  <2>4. LedgerIInv /\ EndBlock => LedgerIInv'
    BY EndBlockStep
  <2>5. LedgerIInv /\ FlushPending => LedgerIInv'
    BY FlushPendingStep, AtRestFollows, PTL
  <2>6. LedgerIInv /\ Restart => LedgerIInv'
    BY RestartStep, AtRestFollows, PTL
  <2>7. LedgerIInv /\ UNCHANGED vars => LedgerIInv'
    BY LedgerUnchanged
  <2> QED BY <2>1, <2>2, <2>3, <2>4, <2>5, <2>6, <2>7 DEF Next
<1> QED BY <1>1, <1>2, PTL DEF Spec

\* The unspent outputs stored are those of the chain up to the checkpoint that no input
\* spends, or only one whose lookup failed (processBlockHash, applyOutbound: utxoKey).
THEOREM LedgerRows == Spec => []RowsMatchChain
<1>1. LedgerIInv => RowsMatchChain
  BY DEF LedgerIInv, RowsFollow, RowsMatch, RowsMatchChain
<1> QED BY <1>1, LedgerInvariance, PTL

\* A stored summary is what the chain up to the checkpoint gives, however it came through
\* the batch's cache and the database: Math.max in sanitizeSummary and applyOutbound never
\* changes a value.
THEOREM LedgerSummaries == Spec => []SummaryMatchesChain
<1>1. LedgerIInv => SummaryMatchesChain
  BY DEF LedgerIInv, SummariesFollow, SummaryFollows, SummaryMatchesChain
<1> QED BY <1>1, LedgerInvariance, PTL

\* What a history row's key says of its transaction.
LEMMA KeysAsTriples ==
  \A a, h, x, n, t : TxKey(a, h, x, n, t)[3] = h /\ TxKey(a, h, x, n, t)[4] = x
                     /\ TxKey(a, h, x, n, t)[6] = t
BY DEF TxKey

\* The invariant names the keys of the history, and so its transactions.
LEMMA HistoryFollows == LedgerIInv => HistoryNamesTransactions
<1> SUFFICES ASSUME LedgerIInv, NEW a \in Address
             PROVE  {<<k[3], k[4], k[6]>> : k \in RowsOf(db, "tx", a)}
                      = {<<p.txid[1], "in", p.txid>> : p \in Received(chain, a, Indexed)}
                          \cup {<<q.txid[1], "out", q.txid>> : q \in Sent(chain, a, Resolved)}
  BY DEF HistoryNamesTransactions
<1>1. PICK K, P, Q, c : /\ K = RowsOf(db, "tx", a) /\ P = Received(chain, a, Indexed)
                        /\ Q = Sent(chain, a, Resolved) /\ c = chain
  OBVIOUS
<1>2. K = {TxKey(a, p.txid[1], "in", p.vout, p.txid) : p \in P}
            \cup {TxKey(a, q.txid[1], "out", Prevout(c, q).vout, q.txid) : q \in Q}
  BY <1>1 DEF LedgerIInv, RowsFollow, RowsMatch, HistoryMatches
<1>3. ASSUME NEW k \in K
      PROVE  <<k[3], k[4], k[6]>> \in {<<p.txid[1], "in", p.txid>> : p \in P}
                                        \cup {<<q.txid[1], "out", q.txid>> : q \in Q}
  <2>1. CASE \E p \in P : k = TxKey(a, p.txid[1], "in", p.vout, p.txid)
    <3>1. PICK p \in P : k = TxKey(a, p.txid[1], "in", p.vout, p.txid)
      BY <2>1
    <3>2. k[3] = p.txid[1] /\ k[4] = "in" /\ k[6] = p.txid
      BY <3>1, KeysAsTriples
    <3> QED BY <3>2
  <2>2. CASE \E q \in Q : k = TxKey(a, q.txid[1], "out", Prevout(c, q).vout, q.txid)
    <3>1. PICK q \in Q : k = TxKey(a, q.txid[1], "out", Prevout(c, q).vout, q.txid)
      BY <2>2
    <3>2. k[3] = q.txid[1] /\ k[4] = "out" /\ k[6] = q.txid
      BY <3>1, KeysAsTriples
    <3> QED BY <3>2
  <2> QED BY <1>2, <2>1, <2>2
<1>4. ASSUME NEW p \in P
      PROVE  <<p.txid[1], "in", p.txid>> \in {<<k[3], k[4], k[6]>> : k \in K}
  <2>1. PICK k : k = TxKey(a, p.txid[1], "in", p.vout, p.txid)
    OBVIOUS
  <2>2. k \in K
    BY <1>2, <2>1
  <2>3. k[3] = p.txid[1] /\ k[4] = "in" /\ k[6] = p.txid
    BY <2>1, KeysAsTriples
  <2> QED BY <2>2, <2>3
<1>5. ASSUME NEW q \in Q
      PROVE  <<q.txid[1], "out", q.txid>> \in {<<k[3], k[4], k[6]>> : k \in K}
  <2>1. PICK k : k = TxKey(a, q.txid[1], "out", Prevout(c, q).vout, q.txid)
    OBVIOUS
  <2>2. k \in K
    BY <1>2, <2>1
  <2>3. k[3] = q.txid[1] /\ k[4] = "out" /\ k[6] = q.txid
    BY <2>1, KeysAsTriples
  <2> QED BY <2>2, <2>3
<1> QED BY <1>1, <1>3, <1>4, <1>5

\* The invariant types every variable: a summary in the cache is that of a set of outputs.
LEMMA TypesFollow == LedgerIInv => TypeOK
<1> SUFFICES ASSUME LedgerIInv PROVE TypeOK
  OBVIOUS
<1>1. Position /\ Collected
  BY DEF LedgerIInv
<1>2. IsChain(chain) /\ Among(chain, OutputsPast, ResolvedPast)
  BY <1>1, PlaceFacts
<1>3. ASSUME NEW a \in DOMAIN cache PROVE cache[a] \in Summaries
  <2>1. a \in Address
    BY <1>1 DEF Collected
  <2>2. SummaryFollows(a)
    BY <2>1 DEF LedgerIInv, SummariesFollow
  <2>3. PICK c, R, S : c = chain /\ R = OutputsPast /\ S = ResolvedPast
    OBVIOUS
  <2>4. TxidsOf(c, a, R, S) # {} /\ cache[a] = SummaryOf(c, a, R, S)
    BY <2>2, <2>3 DEF SummaryFollows
  <2>5. SummaryOf(c, a, R, S) \in Summaries
    BY <1>2, <2>3, <2>4, SummarySanitized
  <2> QED BY <2>4, <2>5
<1>4. missed \subseteq Inputs(chain)
  BY <1>1 DEF Collected, InputsBefore
<1> QED BY <1>1, <1>3, <1>4 DEF TypeOK, Position, Collected

\* The history of an address names its transactions with their heights and directions
\* (processBlockHash and applyOutbound: txKey), and every variable keeps its type.
THEOREM LedgerIsRight == Spec => []LedgerInvariant
<1>1. LedgerIInv => LedgerInvariant
  BY HistoryFollows, TypesFollow DEF LedgerInvariant
<1> QED BY <1>1, LedgerInvariance, PTL
=================================================================================

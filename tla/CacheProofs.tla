------------------------------ MODULE CacheProofs ------------------------------
(***************************************************************************)
(* Proofs about ExplorerCache: for every block tree, set of transactions,  *)
(* number of requests, time to live and cache size, a cache stays within   *)
(* its limit with one entry per key, no page is older than it may be, an   *)
(* entry older than a handled announcement comes from a load that raced    *)
(* it, and a listener that missed nothing leaves no other stale summary.   *)
(***************************************************************************)
EXTENDS ExplorerCache, FiniteSetTheorems, SequenceTheorems, TLAPS

AnyCall == UNION {Calls(kind) : kind \in Kinds}

\* What the node may answer, and the answers a loader may hold.
Value ==
  Block \cup {NoBlock} \cup {Cardinality(p) : p \in SUBSET Tx} \cup (SUBSET Tx)
    \cup {"confirmed", "unconfirmed"}
Answers == UNION {[calls -> Value] : calls \in SUBSET AnyCall}

Message == [id : Block \cup Tx, at : Nat]
Entry == [key : Keys, val : Answers, age : Nat, at : Nat, old : Nat, raced : BOOLEAN]
LoadingState == [phase : {"loading"}, key : Keys, seen : Nat, clock : Nat,
                 got : Answers, at : Nat, old : Nat, raced : BOOLEAN]
ServedState == [phase : {"served"}, key : Keys, seen : Nat, val : Answers, at : Nat, old : Nat]

Types ==
  /\ tip \in Block /\ known \subseteq Block /\ pool \subseteq Tx /\ mined \subseteq Tx
  /\ events \in 0..MaxEvents /\ lost \in BOOLEAN /\ reading \subseteq Topics
  /\ feed \in [Topics -> Seq(Message)]
  /\ lastBlock \in Block \cup {NoBlock} /\ sinceBlock \in 0..Window
  /\ handled \in [Keys -> 0..MaxEvents]
  /\ cache \in [Kinds -> Seq(Entry)]
  /\ req \in [Request -> {Idle} \cup LoadingState \cup ServedState]

\* An announcement is of something that has happened, and each topic has its own.
Announced ==
  /\ \A k \in Keys : handled[k] <= events
  /\ \A topic \in Topics : \A i \in DOMAIN feed[topic] : feed[topic][i].at <= events
  /\ \A i \in DOMAIN feed["rawblock"] : feed["rawblock"][i].id \in Block
  /\ \A i \in DOMAIN feed["rawtx"] : feed["rawtx"][i].id \in Tx

OneEach(s) == \A i, j \in DOMAIN s : s[i].key = s[j].key => i = j

SlotsOf(c) ==
  \A kind \in Kinds :
    /\ Len(c[kind]) <= MaxEntries /\ OneEach(c[kind])
    /\ \A e \in Range(c[kind]) : KindOf(e.key) = kind /\ DOMAIN e.val = Calls(kind)

\* Loaders hold answers of their own calls.
Slots ==
  /\ SlotsOf(cache)
  /\ \A r \in Request :
       req[r].phase = "loading" => DOMAIN req[r].got \subseteq Calls(KindOf(req[r].key))

\* The age of an answer: what a load adds to it is bounded by the timeout of its calls.
Ages ==
  /\ \A kind \in Kinds : \A e \in Range(cache[kind]) :
       e.age <= TTL[kind] => e.old <= e.age + Timeout
  /\ \A r \in Request :
       /\ req[r].phase = "loading" => req[r].old <= req[r].clock /\ req[r].clock <= Timeout
       /\ req[r].phase = "served" /\ Expires(KindOf(req[r].key)) =>
            req[r].old <= TTL[KindOf(req[r].key)] + Timeout

\* A load that was not raced has answers from after all that was handled for its key.
InTime ==
  /\ \A kind \in Kinds : \A e \in Range(cache[kind]) : e.raced \/ e.at >= handled[e.key]
  /\ \A r \in Request :
       req[r].phase = "loading" => req[r].raced \/ req[r].at >= handled[req[r].key]

IInv == Types /\ Announced /\ Slots /\ Ages /\ InTime

--------------------------------------------------------------------------------
(* Sequences of entries. *)

LEMMA RangeOf ==
  ASSUME NEW S, NEW s \in Seq(S)
  PROVE  Range(s) \subseteq S /\ DOMAIN s = 1..Len(s) /\ Len(s) \in Nat
         /\ \A i \in 1..Len(s) : s[i] \in S
BY LenProperties, ElementOfSeq DEF Range

LEMMA Removed ==
  ASSUME NEW s \in Seq(Entry), NEW n \in DOMAIN s
  PROVE  /\ RemoveAt(s, n) \in Seq(Entry) /\ Len(RemoveAt(s, n)) = Len(s) - 1
         /\ \A i \in 1..(Len(s) - 1) : RemoveAt(s, n)[i] = s[IF i < n THEN i ELSE i + 1]
<1>1. Len(s) \in Nat /\ n \in 1..Len(s) /\ \A i \in 1..Len(s) : s[i] \in Entry
  BY RangeOf
<1>a. PICK a : a = SubSeq(s, 1, n - 1)
  OBVIOUS
<1>b. PICK b : b = SubSeq(s, n + 1, Len(s))
  OBVIOUS
<1>c. PICK c : c = a \o b
  OBVIOUS
<1>2. a \in Seq(Entry) /\ Len(a) = n - 1 /\ \A i \in 1..(n - 1) : a[i] = s[i]
  <2>1. 1 \in Int /\ n - 1 \in Int /\ \A i \in 1..(n - 1) : s[i] \in Entry
    BY <1>1
  <2>2. /\ a \in Seq(Entry) /\ Len(a) = IF 1 <= n - 1 THEN n - 1 - 1 + 1 ELSE 0
        /\ \A i \in 1..(n - 1 - 1 + 1) : a[i] = s[1 + i - 1]
    BY <1>a, <2>1, SubSeqProperties
  <2>3. Len(a) = n - 1
    BY <1>1, <2>2
  <2>4. \A i \in 1..(n - 1) : i \in 1..(n - 1 - 1 + 1) /\ 1 + i - 1 = i
    BY <1>1
  <2> QED BY <2>2, <2>3, <2>4
<1>3. b \in Seq(Entry) /\ Len(b) = Len(s) - n /\ \A i \in 1..(Len(s) - n) : b[i] = s[n + i]
  <2>1. n + 1 \in Int /\ Len(s) \in Int /\ \A i \in (n + 1)..Len(s) : s[i] \in Entry
    BY <1>1
  <2>2. /\ b \in Seq(Entry) /\ Len(b) = IF n + 1 <= Len(s) THEN Len(s) - (n + 1) + 1 ELSE 0
        /\ \A i \in 1..(Len(s) - (n + 1) + 1) : b[i] = s[n + 1 + i - 1]
    BY <1>b, <2>1, SubSeqProperties
  <2>3. Len(b) = Len(s) - n
    BY <1>1, <2>2
  <2>4. ASSUME NEW i \in 1..(Len(s) - n) PROVE b[i] = s[n + i]
    <3>1. i \in 1..(Len(s) - (n + 1) + 1) /\ n + 1 + i - 1 = n + i
      BY <1>1
    <3>2. b[i] = s[n + 1 + i - 1]
      BY <2>2, <3>1
    <3> QED BY <3>1, <3>2
  <2> QED BY <2>2, <2>3, <2>4
<1>4. RemoveAt(s, n) = c
  BY <1>a, <1>b, <1>c DEF RemoveAt
<1>5. /\ c \in Seq(Entry) /\ Len(c) = Len(a) + Len(b)
      /\ \A i \in 1..(Len(a) + Len(b)) : c[i] = IF i <= Len(a) THEN a[i] ELSE b[i - Len(a)]
  BY <1>2, <1>3, <1>c, ConcatProperties
<1>6. Len(c) = Len(s) - 1
  <2>1. Len(a) + Len(b) = Len(s) - 1
    BY <1>1, <1>2, <1>3
  <2> QED BY <1>5, <2>1
<1>7. ASSUME NEW i \in 1..(Len(s) - 1)
      PROVE  c[i] = s[IF i < n THEN i ELSE i + 1]
  <2>3. i \in 1..(Len(a) + Len(b)) /\ Len(a) = n - 1
    BY <1>1, <1>2, <1>3
  <2>0. c[i] = IF i <= n - 1 THEN a[i] ELSE b[i - (n - 1)]
    BY <1>5, <2>3
  <2>1. CASE i < n
    <3>1. i \in 1..(n - 1) /\ i <= n - 1
      BY <1>1, <2>1
    <3> QED BY <1>2, <2>0, <2>1, <3>1
  <2>2. CASE ~(i < n)
    <3>1. i - (n - 1) \in 1..(Len(s) - n) /\ n + (i - (n - 1)) = i + 1 /\ ~(i <= n - 1)
      BY <1>1, <2>2
    <3>2. c[i] = b[i - (n - 1)]
      BY <2>0, <3>1
    <3>3. b[i - (n - 1)] = s[n + (i - (n - 1))]
      BY <1>3, <3>1
    <3> QED BY <2>2, <3>1, <3>2, <3>3
  <2> QED BY <2>1, <2>2
<1> QED BY <1>4, <1>5, <1>6, <1>7

\* A deletion takes out the entries of its keys, when there is one at most.
OneAmong(s, ks) == \A i, j \in DOMAIN s : s[i].key \in ks /\ s[j].key \in ks => i = j
Spared(s, ks) == {e \in Range(s) : e.key \notin ks}

LEMMA DeletedFacts ==
  ASSUME NEW kind, NEW ks, NEW s \in Seq(Entry), s = cache[kind], OneEach(s),
         OneAmong(s, ks)
  PROVE  /\ Deleted(kind, ks) \in Seq(Entry) /\ OneEach(Deleted(kind, ks))
         /\ Len(Deleted(kind, ks)) <= Len(s)
         /\ (\E i \in DOMAIN s : s[i].key \in ks) => Len(Deleted(kind, ks)) = Len(s) - 1
         /\ Range(Deleted(kind, ks)) = Spared(s, ks)
<1> DEFINE at == {i \in DOMAIN s : s[i].key \in ks}
<1>0. Len(s) \in Nat /\ DOMAIN s = 1..Len(s)
  BY RangeOf
<1>1. CASE at = {}
  <2>1. Deleted(kind, ks) = s
    BY <1>1 DEF Deleted
  <2> QED BY <1>0, <1>1, <2>1 DEF Range, Spared
<1>2. CASE at # {}
  <2>1. PICK n : n = CHOOSE i \in at : TRUE
    OBVIOUS
  <2>2. n \in at
    BY <1>2, <2>1
  <2>3. Deleted(kind, ks) = RemoveAt(s, n)
    BY <1>2, <2>1 DEF Deleted
  <2>4. PICK d : d = RemoveAt(s, n)
    OBVIOUS
  <2>5. /\ d \in Seq(Entry) /\ Len(d) = Len(s) - 1
        /\ \A i \in 1..(Len(s) - 1) : d[i] = s[IF i < n THEN i ELSE i + 1]
    BY <2>2, <2>4, Removed
  <2>6. DOMAIN d = 1..(Len(s) - 1)
    BY <2>5, RangeOf
  <2>7. n \in 1..Len(s) /\ s[n].key \in ks /\ \A i \in 1..Len(s) : i # n => s[i].key \notin ks
    BY <1>0, <2>2 DEF OneAmong
  <2> DEFINE old(i) == IF i < n THEN i ELSE i + 1
  <2>a. \A i \in DOMAIN d : old(i) \in 1..Len(s) /\ old(i) # n /\ d[i] = s[old(i)]
    BY <1>0, <2>5, <2>6, <2>7
  <2>b. \A i, j \in DOMAIN d : old(i) = old(j) => i = j
    BY <1>0, <2>6, <2>7
  <2>c. \A j \in 1..Len(s) : j # n => \E i \in DOMAIN d : j = old(i)
    <3> SUFFICES ASSUME NEW j \in 1..Len(s), j # n PROVE \E i \in DOMAIN d : j = old(i)
      OBVIOUS
    <3>1. CASE j < n
      <4>1. j \in DOMAIN d /\ j = old(j)
        BY <1>0, <2>6, <2>7, <3>1
      <4> QED BY <4>1
    <3>2. CASE j > n
      <4>1. j - 1 \in DOMAIN d /\ ~(j - 1 < n) /\ j - 1 + 1 = j
        BY <1>0, <2>6, <2>7, <3>2
      <4> QED BY <4>1
    <3> QED BY <1>0, <2>7, <3>1, <3>2
  <2> HIDE DEF old
  <2>8. OneEach(d)
    BY <1>0, <2>a, <2>b DEF OneEach
  <2>9. Range(d) = Spared(s, ks)
    BY <1>0, <2>7, <2>a, <2>c DEF Range, Spared
  <2> QED BY <1>0, <2>3, <2>4, <2>5, <2>8, <2>9
<1> QED BY <1>1, <1>2

LEMMA Appended ==
  ASSUME NEW s \in Seq(Entry), NEW e \in Entry, OneEach(s), \A x \in Range(s) : x.key # e.key
  PROVE  /\ Append(s, e) \in Seq(Entry) /\ OneEach(Append(s, e))
         /\ Len(Append(s, e)) = Len(s) + 1
         /\ Range(Append(s, e)) = Range(s) \cup {e}
<1>1. /\ Len(s) \in Nat /\ DOMAIN s = 1..Len(s)
      /\ Append(s, e) \in Seq(Entry) /\ Len(Append(s, e)) = Len(s) + 1
      /\ \A i \in 1..Len(s) : Append(s, e)[i] = s[i]
      /\ Append(s, e)[Len(s) + 1] = e
  BY RangeOf, AppendProperties
<1>2. PICK t : t = Append(s, e)
  OBVIOUS
<1>3. DOMAIN t = 1..(Len(s) + 1)
  BY <1>1, <1>2, LenProperties
<1>4. \A i \in 1..(Len(s) + 1) : i \in 1..Len(s) \/ i = Len(s) + 1
  BY <1>1
<1>5. \A i \in 1..Len(s) : t[i] = s[i] /\ s[i].key # e.key
  BY <1>1, <1>2 DEF Range
<1>6. OneEach(t)
  BY <1>1, <1>2, <1>3, <1>4, <1>5 DEF OneEach
<1>7. Range(t) = Range(s) \cup {e}
  BY <1>1, <1>2, <1>3, <1>4, <1>5 DEF Range
<1> QED BY <1>1, <1>2, <1>6, <1>7

LEMMA TailFacts ==
  ASSUME NEW s \in Seq(Entry), s # <<>>, OneEach(s)
  PROVE  /\ Tail(s) \in Seq(Entry) /\ OneEach(Tail(s))
         /\ Len(Tail(s)) = Len(s) - 1
         /\ Range(Tail(s)) \subseteq Range(s)
<1>1. /\ Len(s) \in Nat /\ Len(s) >= 1 /\ DOMAIN s = 1..Len(s)
      /\ Tail(s) \in Seq(Entry) /\ Len(Tail(s)) = Len(s) - 1
      /\ \A i \in 1..(Len(s) - 1) : Tail(s)[i] = s[i + 1]
  BY RangeOf, HeadTailProperties, EmptySeq
<1>2. PICK t : t = Tail(s)
  OBVIOUS
<1>3. DOMAIN t = 1..(Len(s) - 1)
  BY <1>1, <1>2, RangeOf
<1>4. \A i \in 1..(Len(s) - 1) : t[i] = s[i + 1] /\ i + 1 \in 1..Len(s)
  BY <1>1, <1>2
<1>5. OneEach(t)
  <2> SUFFICES ASSUME NEW i \in DOMAIN t, NEW j \in DOMAIN t, t[i].key = t[j].key PROVE i = j
    BY DEF OneEach
  <2>1. i + 1 = j + 1
    BY <1>1, <1>3, <1>4 DEF OneEach
  <2> QED BY <1>3, <2>1
<1>6. Range(t) \subseteq Range(s)
  BY <1>1, <1>3, <1>4 DEF Range
<1> QED BY <1>1, <1>2, <1>5, <1>6
--------------------------------------------------------------------------------
(* The operations of the caches. *)

LEMMA KindsOf == ASSUME NEW k \in Keys PROVE KindOf(k) \in Kinds
BY DEF Keys, KindOf, Kinds

LEMMA CacheAt ==
  ASSUME Types, SlotsOf(cache), NEW kind \in Kinds
  PROVE  /\ cache[kind] \in Seq(Entry) /\ OneEach(cache[kind])
         /\ Len(cache[kind]) \in Nat /\ Len(cache[kind]) <= MaxEntries
         /\ DOMAIN cache[kind] = 1..Len(cache[kind])
         /\ Range(cache[kind]) \subseteq Entry
         /\ \A i \in DOMAIN cache[kind] : cache[kind][i] \in Range(cache[kind])
BY RangeOf DEF Types, SlotsOf, Range

LEMMA OthersFacts ==
  ASSUME Types, SlotsOf(cache), NEW k \in Keys
  PROVE  /\ Others(k) \in Seq(Entry) /\ OneEach(Others(k))
         /\ Len(Others(k)) \in Nat /\ Len(Others(k)) <= MaxEntries
         /\ Entries(k) # {} => Len(Others(k)) < MaxEntries
         /\ Range(Others(k)) = {e \in Range(cache[KindOf(k)]) : e.key # k}
<1>k. PICK kind : kind = KindOf(k)
  OBVIOUS
<1>s. PICK s : s = cache[kind]
  OBVIOUS
<1>d. PICK ks : ks = {k}
  OBVIOUS
<1>1. s \in Seq(Entry) /\ OneEach(s) /\ Len(s) \in Nat /\ Len(s) <= MaxEntries
  BY <1>k, <1>s, KindsOf, CacheAt
<1>2. OneAmong(s, ks)
  BY <1>1, <1>d DEF OneEach, OneAmong
<1>3. /\ Deleted(kind, ks) \in Seq(Entry) /\ OneEach(Deleted(kind, ks))
      /\ Len(Deleted(kind, ks)) <= Len(s)
      /\ (\E i \in DOMAIN s : s[i].key \in ks) => Len(Deleted(kind, ks)) = Len(s) - 1
      /\ Range(Deleted(kind, ks)) = Spared(s, ks)
  BY <1>1, <1>2, <1>s, DeletedFacts
<1>4. PICK d : d = Deleted(kind, ks)
  OBVIOUS
<1>5. Others(k) = d
  BY <1>k, <1>d, <1>4 DEF Others
<1>6. Entries(k) # {} => \E i \in DOMAIN s : s[i].key \in ks
  BY <1>k, <1>s, <1>d DEF Entries
<1>7. d \in Seq(Entry) /\ OneEach(d) /\ Len(d) \in Nat /\ Len(d) <= Len(s)
  BY <1>3, <1>4, LenProperties
<1>8. Entries(k) # {} => Len(d) < MaxEntries
  BY <1>1, <1>3, <1>4, <1>6, <1>7, SizeAssumption
<1>9. Len(d) <= MaxEntries
  BY <1>1, <1>7, SizeAssumption
<1>10. Range(d) = {e \in Range(cache[KindOf(k)]) : e.key # k}
  BY <1>3, <1>4, <1>k, <1>s, <1>d DEF Spared
<1> QED BY <1>5, <1>7, <1>8, <1>9, <1>10

\* What a hit serves is the one entry of its key, and fresh.
LEMMA GetFacts ==
  ASSUME Types, SlotsOf(cache), NEW k \in Keys, Has(k)
  PROVE  /\ Entries(k) # {}
         /\ Get(k) \in Range(cache[KindOf(k)]) /\ Get(k) \in Entry
         /\ Get(k).key = k /\ Fresh(Get(k))
<1>1. PICK i \in Entries(k) : Fresh(cache[KindOf(k)][i])
  BY DEF Has
<1>2. /\ OneEach(cache[KindOf(k)]) /\ Range(cache[KindOf(k)]) \subseteq Entry
      /\ \A j \in DOMAIN cache[KindOf(k)] : cache[KindOf(k)][j] \in Range(cache[KindOf(k)])
  BY KindsOf, CacheAt
<1>3. \A j \in Entries(k) : j = i
  BY <1>2 DEF Entries, OneEach
<1>4. Get(k) = cache[KindOf(k)][i]
  BY <1>3 DEF Get
<1> QED BY <1>1, <1>2, <1>4 DEF Entries

LEMMA TouchFacts ==
  ASSUME Types, SlotsOf(cache), NEW k \in Keys, Has(k)
  PROVE  /\ Touch(k) \in [Kinds -> Seq(Entry)] /\ SlotsOf(Touch(k))
         /\ \A kind \in Kinds : Range(Touch(k)[kind]) = Range(cache[kind])
<1> DEFINE d == Append(Others(k), Get(k))
<1>1. /\ Others(k) \in Seq(Entry) /\ OneEach(Others(k))
      /\ Len(Others(k)) \in Nat /\ Len(Others(k)) < MaxEntries
      /\ Range(Others(k)) = {e \in Range(cache[KindOf(k)]) : e.key # k}
  BY GetFacts, OthersFacts
<1>2. Get(k) \in Range(cache[KindOf(k)]) /\ Get(k) \in Entry /\ Get(k).key = k
  BY GetFacts
<1>3. \A x \in Range(Others(k)) : x.key # Get(k).key
  BY <1>1, <1>2
<1>4. /\ d \in Seq(Entry) /\ OneEach(d) /\ Len(d) = Len(Others(k)) + 1
      /\ Range(d) = Range(Others(k)) \cup {Get(k)}
  BY <1>1, <1>2, <1>3, Appended
<1>5. \A e \in Range(cache[KindOf(k)]) : e.key = k => e = Get(k)
  <2>1. OneEach(cache[KindOf(k)])
    BY KindsOf, CacheAt
  <2> QED BY <1>2, <2>1 DEF Range, OneEach
<1>6. Range(d) = Range(cache[KindOf(k)])
  BY <1>1, <1>2, <1>4, <1>5
<1>7. Len(d) <= MaxEntries
  BY <1>1, <1>4, SizeAssumption
<1> HIDE DEF d
<1>8. Touch(k) = [cache EXCEPT ![KindOf(k)] = d]
  BY DEF Touch, d
<1>9. \A kind \in Kinds : Touch(k)[kind] = IF kind = KindOf(k) THEN d ELSE cache[kind]
  BY <1>8 DEF Types
<1> QED BY <1>4, <1>6, <1>7, <1>8, <1>9, KindsOf DEF SlotsOf, Types

LEMMA StoreFacts ==
  ASSUME Types, SlotsOf(cache), NEW e \in Entry, DOMAIN e.val = Calls(KindOf(e.key))
  PROVE  /\ Store(e) \in [Kinds -> Seq(Entry)] /\ SlotsOf(Store(e))
         /\ \A kind \in Kinds : Range(Store(e)[kind]) \subseteq Range(cache[kind]) \cup {e}
         /\ \A kind \in Kinds \ {KindOf(e.key)} : Store(e)[kind] = cache[kind]
<1> DEFINE k == e.key
           room == IF Len(Others(k)) >= MaxEntries THEN Tail(Others(k)) ELSE Others(k)
<1>0. k \in Keys
  BY DEF Entry
<1>1. /\ Others(k) \in Seq(Entry) /\ OneEach(Others(k))
      /\ Len(Others(k)) \in Nat /\ Len(Others(k)) <= MaxEntries
      /\ Range(Others(k)) = {x \in Range(cache[KindOf(k)]) : x.key # k}
  BY <1>0, OthersFacts
<1>2. /\ room \in Seq(Entry) /\ OneEach(room) /\ Len(room) < MaxEntries /\ Len(room) \in Nat
      /\ Range(room) \subseteq Range(Others(k))
  <2>1. CASE Len(Others(k)) >= MaxEntries
    <3>1. Others(k) # <<>>
      BY <1>1, <2>1, SizeAssumption, EmptySeq
    <3>2. /\ Tail(Others(k)) \in Seq(Entry) /\ OneEach(Tail(Others(k)))
          /\ Len(Tail(Others(k))) = Len(Others(k)) - 1
          /\ Range(Tail(Others(k))) \subseteq Range(Others(k))
      BY <1>1, <3>1, TailFacts
    <3>3. Len(Others(k)) - 1 < MaxEntries /\ Len(Others(k)) - 1 \in Nat
      BY <1>1, <2>1, SizeAssumption
    <3> QED BY <2>1, <3>2, <3>3
  <2>2. CASE ~(Len(Others(k)) >= MaxEntries)
    BY <1>1, <2>2, SizeAssumption
  <2> QED BY <2>1, <2>2
<1>3. \A x \in Range(room) : x.key # k /\ x \in Range(cache[KindOf(k)])
  BY <1>1, <1>2
<1> DEFINE d == Append(room, e)
<1>4. Store(e) = [cache EXCEPT ![KindOf(k)] = d]
  BY DEF Store
<1> HIDE DEF room
<1>5. /\ d \in Seq(Entry) /\ OneEach(d) /\ Len(d) = Len(room) + 1
      /\ Range(d) = Range(room) \cup {e}
  BY <1>2, <1>3, Appended
<1>6. Len(d) <= MaxEntries
  BY <1>2, <1>5, SizeAssumption
<1> HIDE DEF d
<1>7. \A kind \in Kinds : Store(e)[kind] = IF kind = KindOf(k) THEN d ELSE cache[kind]
  BY <1>4 DEF Types
<1>8. Store(e) \in [Kinds -> Seq(Entry)]
  BY <1>4, <1>5 DEF Types
<1>9. SlotsOf(Store(e))
  <2> SUFFICES ASSUME NEW kind \in Kinds
               PROVE  /\ Len(Store(e)[kind]) <= MaxEntries /\ OneEach(Store(e)[kind])
                      /\ \A x \in Range(Store(e)[kind]) :
                           KindOf(x.key) = kind /\ DOMAIN x.val = Calls(kind)
    BY DEF SlotsOf
  <2>1. CASE kind # KindOf(k)
    BY <1>7, <2>1 DEF SlotsOf
  <2>2. CASE kind = KindOf(k)
    BY <1>3, <1>5, <1>6, <1>7, <2>2 DEF SlotsOf
  <2> QED BY <2>1, <2>2
<1> QED BY <1>3, <1>5, <1>7, <1>8, <1>9

\* An event removes every entry of what it concerns.
LEMMA WithoutFacts ==
  ASSUME Types, SlotsOf(cache), NEW ks, \A j, k \in ks : KindOf(j) = KindOf(k) => j = k
  PROVE  /\ Without(ks) \in [Kinds -> Seq(Entry)] /\ SlotsOf(Without(ks))
         /\ \A kind \in Kinds :
              Range(Without(ks)[kind]) = {e \in Range(cache[kind]) : e.key \notin ks}
<1>1. ASSUME NEW kind \in Kinds
      PROVE  /\ Deleted(kind, ks) \in Seq(Entry) /\ OneEach(Deleted(kind, ks))
             /\ Len(Deleted(kind, ks)) <= MaxEntries
             /\ Range(Deleted(kind, ks)) = Spared(cache[kind], ks)
  <2>s. PICK s : s = cache[kind]
    OBVIOUS
  <2>1. s \in Seq(Entry) /\ OneEach(s) /\ Len(s) \in Nat /\ Len(s) <= MaxEntries
    BY <2>s, CacheAt
  <2>2. \A i \in DOMAIN s : KindOf(s[i].key) = kind
    BY <2>s DEF SlotsOf, Range
  <2>3. OneAmong(s, ks)
    BY <2>1, <2>2 DEF OneEach, OneAmong
  <2>4. /\ Deleted(kind, ks) \in Seq(Entry) /\ OneEach(Deleted(kind, ks))
        /\ Len(Deleted(kind, ks)) <= Len(s)
        /\ Range(Deleted(kind, ks)) = Spared(s, ks)
    BY <2>s, <2>1, <2>3, DeletedFacts
  <2>5. Len(Deleted(kind, ks)) \in Nat
    BY <2>4, LenProperties
  <2> QED BY <2>s, <2>1, <2>4, <2>5, SizeAssumption
<1>2. \A kind \in Kinds : \A e \in Spared(cache[kind], ks) : e \in Range(cache[kind])
  BY DEF Spared
<1>3. Without(ks) \in [Kinds -> Seq(Entry)] /\ \A kind \in Kinds : Without(ks)[kind] = Deleted(kind, ks)
  BY <1>1 DEF Without
<1>4. SlotsOf(Without(ks))
  <2> SUFFICES ASSUME NEW kind \in Kinds
               PROVE  /\ Len(Without(ks)[kind]) <= MaxEntries /\ OneEach(Without(ks)[kind])
                      /\ \A e \in Range(Without(ks)[kind]) :
                           KindOf(e.key) = kind /\ DOMAIN e.val = Calls(kind)
    BY DEF SlotsOf
  <2>1. Without(ks)[kind] = Deleted(kind, ks)
    BY <1>3
  <2>2. \A e \in Range(Deleted(kind, ks)) : KindOf(e.key) = kind /\ DOMAIN e.val = Calls(kind)
    BY <1>1, <1>2 DEF SlotsOf
  <2> QED BY <1>1, <2>1, <2>2
<1>5. ASSUME NEW kind \in Kinds
      PROVE  Range(Without(ks)[kind]) = {e \in Range(cache[kind]) : e.key \notin ks}
  <2>1. Range(Without(ks)[kind]) = Spared(cache[kind], ks)
    BY <1>1, <1>3
  <2> QED BY <2>1 DEF Spared
<1> QED BY <1>3, <1>4, <1>5

\* A tick makes every entry older, and moves none.
AgedCache == [kind \in Kinds |-> [i \in DOMAIN cache[kind] |-> Aged(cache[kind][i])]]

LEMMA AgedEntry ==
  ASSUME NEW e \in Entry
  PROVE  /\ Aged(e) \in Entry /\ Aged(e).key = e.key /\ Aged(e).val = e.val
         /\ Aged(e).at = e.at /\ Aged(e).raced = e.raced
         /\ Aged(e).age = Capped(e.age, AgeLimit(KindOf(e.key)))
         /\ Aged(e).old = Capped(e.old, OldLimit(KindOf(e.key)))
<1>1. \A n, m \in Nat : Capped(n, m) \in Nat
  BY DEF Capped
<1>2. e.age \in Nat /\ e.old \in Nat /\ KindOf(e.key) \in Kinds
  BY KindsOf DEF Entry
<1>3. AgeLimit(KindOf(e.key)) \in Nat /\ OldLimit(KindOf(e.key)) \in Nat
  BY <1>2, TimeAssumption DEF AgeLimit, OldLimit
<1>4. Capped(e.age, AgeLimit(KindOf(e.key))) \in Nat /\ Capped(e.old, OldLimit(KindOf(e.key))) \in Nat
  BY <1>1, <1>2, <1>3
<1> HIDE DEF Capped, AgeLimit, OldLimit, KindOf
<1> QED BY <1>4 DEF Aged, Entry

LEMMA TickFacts ==
  ASSUME Types, SlotsOf(cache)
  PROVE  /\ AgedCache \in [Kinds -> Seq(Entry)] /\ SlotsOf(AgedCache)
         /\ \A kind \in Kinds : \A x \in Range(AgedCache[kind]) :
              \E e \in Range(cache[kind]) : x = Aged(e)
<1>1. ASSUME NEW kind \in Kinds
      PROVE  /\ AgedCache[kind] \in Seq(Entry) /\ OneEach(AgedCache[kind])
             /\ Len(AgedCache[kind]) = Len(cache[kind])
             /\ \A x \in Range(AgedCache[kind]) : \E e \in Range(cache[kind]) : x = Aged(e)
  <2> DEFINE s == cache[kind]
             t == [i \in DOMAIN s |-> Aged(s[i])]
  <2>1. /\ s \in Seq(Entry) /\ OneEach(s) /\ Len(s) \in Nat /\ DOMAIN s = 1..Len(s)
        /\ \A i \in DOMAIN s : s[i] \in Entry /\ s[i] \in Range(s)
    BY CacheAt
  <2>2. \A i \in DOMAIN s : Aged(s[i]) \in Entry /\ Aged(s[i]).key = s[i].key
    BY <2>1, AgedEntry
  <2>3. t \in Seq(Entry) /\ Len(t) = Len(s) /\ DOMAIN t = DOMAIN s
        /\ \A i \in DOMAIN s : t[i] = Aged(s[i])
    <3>1. t \in [1..Len(s) -> Entry]
      BY <2>1, <2>2
    <3>2. t \in Seq(Entry)
      BY <2>1, <3>1, IsASeq
    <3> QED BY <2>1, <3>2, LenProperties
  <2>4. AgedCache[kind] = t
    BY DEF AgedCache
  <2> HIDE DEF t, s
  <2>5. OneEach(t)
    BY <2>1, <2>2, <2>3 DEF OneEach
  <2>6. \A x \in Range(t) : \E e \in Range(s) : x = Aged(e)
    BY <2>1, <2>3 DEF Range
  <2> QED BY <2>3, <2>4, <2>5, <2>6 DEF s
<1>2. AgedCache \in [Kinds -> Seq(Entry)]
  BY <1>1 DEF AgedCache
<1>3. \A kind \in Kinds : \A e \in Range(cache[kind]) :
        Aged(e).key = e.key /\ Aged(e).val = e.val
  BY CacheAt, AgedEntry
<1>4. SlotsOf(AgedCache)
  BY <1>1, <1>3 DEF SlotsOf
<1> QED BY <1>1, <1>2, <1>4

--------------------------------------------------------------------------------
(* What the node answers, and what requests hold. *)

LEMMA RequestFacts ==
  ASSUME Types, NEW r \in Request
  PROVE  /\ req[r].phase = "loading" => req[r] \in LoadingState
         /\ req[r].phase = "served" => req[r] \in ServedState
         /\ req[r].phase = "idle" => req[r] = Idle
<1>1. req[r] \in {Idle} \cup LoadingState \cup ServedState
  BY DEF Types
<1>2. CASE req[r] = Idle
  BY <1>2 DEF Idle
<1>3. CASE req[r] \in LoadingState
  BY <1>3 DEF LoadingState
<1>4. CASE req[r] \in ServedState
  BY <1>4 DEF ServedState
<1> QED BY <1>1, <1>2, <1>3, <1>4

LEMMA NoAnswers == <<>> \in Answers /\ DOMAIN <<>> = {}
<1>1. <<>> \in [{} -> Value]
  OBVIOUS
<1> QED BY <1>1 DEF Answers

LEMMA OneMoreAnswer ==
  ASSUME NEW g \in Answers, NEW call \in AnyCall, NEW v \in Value
  PROVE  /\ [c \in DOMAIN g \cup {call} |-> IF c = call THEN v ELSE g[c]] \in Answers
         /\ DOMAIN g \subseteq AnyCall
<1>1. PICK calls \in SUBSET AnyCall : g \in [calls -> Value]
  BY DEF Answers
<1>2. [c \in DOMAIN g \cup {call} |-> IF c = call THEN v ELSE g[c]] \in [calls \cup {call} -> Value]
  BY <1>1
<1>3. calls \cup {call} \in SUBSET AnyCall
  OBVIOUS
<1> QED BY <1>1, <1>2, <1>3 DEF Answers

LEMMA AnswerIsValue ==
  ASSUME Types, NEW kind \in Kinds, NEW call \in Calls(kind), NEW k
  PROVE  Answer(call, k) \in Value /\ call \in AnyCall
<1>1. call \in {"getblockchaininfo", "getmempoolinfo", "getrawmempool", "getrawtransaction", "getblock"}
  BY DEF Kinds, Calls, TipCalls, MempoolCalls, BlockCalls, TxCalls
<1>2. call \in AnyCall
  BY DEF AnyCall
<1> SUFFICES Answer(call, k) \in Value
  BY <1>2
<1>3. CASE call = "getblockchaininfo"
  BY <1>3 DEF Answer, Value, Types
<1>4. CASE call = "getmempoolinfo"
  BY <1>4 DEF Answer, Value, Types
<1>5. CASE call = "getrawmempool"
  BY <1>5 DEF Answer, Value, Types
<1>6. CASE call = "getrawtransaction"
  BY <1>6 DEF Answer, Value
<1>7. CASE call = "getblock"
  BY <1>7 DEF Answer, Value, Ancestors
<1> QED BY <1>1, <1>2, <1>3, <1>4, <1>5, <1>6, <1>7

LEMMA InitInv == Init => IInv
<1> SUFFICES ASSUME Init PROVE IInv
  OBVIOUS
<1>1. \A S : <<>> \in Seq(S) /\ Len(<<>>) = 0 /\ DOMAIN <<>> = {} /\ Range(<<>>) = {}
  BY EmptySeq DEF Range
<1>2. Types
  <2>1. tip \in Block /\ known \subseteq Block /\ pool \subseteq Tx /\ mined \subseteq Tx
    BY TreeAssumption DEF Init
  <2>6. events \in 0..MaxEvents
    BY TimeAssumption DEF Init
  <2>7. lost \in BOOLEAN
    BY DEF Init
  <2>4. reading \subseteq Topics
    BY DEF Init
  <2>5. lastBlock \in Block \cup {NoBlock} /\ sinceBlock \in 0..Window
    BY TimeAssumption DEF Init
  <2>2. feed \in [Topics -> Seq(Message)] /\ cache \in [Kinds -> Seq(Entry)]
    BY <1>1 DEF Init
  <2>3. handled \in [Keys -> 0..MaxEvents] /\ req \in [Request -> {Idle}]
    BY TimeAssumption DEF Init
  <2> QED BY <2>1, <2>2, <2>3, <2>4, <2>5, <2>6, <2>7 DEF Types
<1>3. SlotsOf(cache)
  BY <1>1, SizeAssumption DEF Init, SlotsOf, OneEach
<1>4. \A r \in Request : req[r].phase = "idle"
  BY DEF Init, Idle
<1>5. Announced
  BY <1>1 DEF Init, Announced, Topics
<1>6. \A kind \in Kinds : Range(cache[kind]) = {}
  BY <1>1 DEF Init
<1> QED BY <1>2, <1>3, <1>4, <1>5, <1>6 DEF IInv, Slots, Ages, InTime

--------------------------------------------------------------------------------
(* Every step keeps IInv. *)

\* A step that leaves the caches, the requests and what was handled alone.
LEMMA SameEntries ==
  ASSUME IInv, UNCHANGED <<cache, req, handled>>
  PROVE  Slots' /\ Ages' /\ InTime'
BY DEF IInv, Slots, SlotsOf, Ages, InTime

LEMMA Published ==
  ASSUME IInv, NEW topic \in Topics, NEW m \in Message, Publish(topic, <<m>>)
  PROVE  /\ feed' \in [Topics -> Seq(Message)] /\ lost' \in BOOLEAN
         /\ \A t \in Topics : \A i \in DOMAIN feed'[t] :
              \/ i \in DOMAIN feed[t] /\ feed'[t][i] = feed[t][i]
              \/ t = topic /\ feed'[t][i] = m
<1>1. /\ feed \in [Topics -> Seq(Message)] /\ lost \in BOOLEAN
  BY DEF IInv, Types
<1>2. CASE feed' = feed /\ lost' = TRUE
  BY <1>1, <1>2
<1>3. CASE feed' = [feed EXCEPT ![topic] = @ \o <<m>>] /\ lost' = (lost \/ topic \notin reading)
  <2>1. lost' \in BOOLEAN
    BY <1>1, <1>3, Zenon
  <2>2. feed[topic] \in Seq(Message) /\ Append(feed[topic], m) = feed[topic] \o <<m>>
    BY <1>1, AppendIsConcat
  <2>3. PICK s : s = feed[topic]
    OBVIOUS
  <2>4. PICK t : t = Append(s, m)
    OBVIOUS
  <2>5. /\ t \in Seq(Message) /\ DOMAIN t = 1..(Len(s) + 1) /\ DOMAIN s = 1..Len(s)
        /\ Len(s) \in Nat /\ t[Len(s) + 1] = m /\ \A i \in 1..Len(s) : t[i] = s[i]
    BY <2>2, <2>3, <2>4, AppendProperties, LenProperties
  <2>6. \A i \in DOMAIN t : (i \in DOMAIN s /\ t[i] = s[i]) \/ t[i] = m
    BY <2>5
  <2>7. feed' = [feed EXCEPT ![topic] = t]
    BY <1>3, <2>2, <2>3, <2>4
  <2> QED BY <1>1, <2>1, <2>3, <2>5, <2>6, <2>7
<1> QED BY <1>2, <1>3 DEF Publish

LEMMA NewBlockStep ==
  ASSUME IInv, NEW b \in Block, NEW confirmed \in SUBSET pool, NewBlock(b, confirmed)
  PROVE  IInv'
<1>1. /\ events \in 0..MaxEvents /\ events < MaxEvents /\ events' = events + 1
      /\ UNCHANGED <<reading, lastBlock, sinceBlock, cache, req, handled>>
      /\ tip' = b /\ known' = known \cup {b}
      /\ pool' = pool \ confirmed /\ mined' = mined \cup confirmed
  BY DEF IInv, Types, NewBlock, listener
<1>2. PICK m : m = Announcement(b)
  OBVIOUS
<1>3. m \in Message /\ m.id = b /\ m.at = events'
  BY <1>1, <1>2, TimeAssumption DEF Announcement, Message
<1>4. Publish("rawblock", <<m>>) /\ "rawblock" \in Topics
  BY <1>2 DEF NewBlock, Topics
<1>5. /\ feed' \in [Topics -> Seq(Message)] /\ lost' \in BOOLEAN
      /\ \A t \in Topics : \A i \in DOMAIN feed'[t] :
           \/ i \in DOMAIN feed[t] /\ feed'[t][i] = feed[t][i]
           \/ t = "rawblock" /\ feed'[t][i] = m
  BY <1>3, <1>4, Published
<1>6. events' \in 0..MaxEvents /\ \A n : n \in Int /\ n <= events => n <= events'
  BY <1>1, TimeAssumption
<1>7. Types'
  BY <1>1, <1>5, <1>6 DEF IInv, Types
<1>8. Announced'
  <2>1. \A t \in Topics : \A i \in DOMAIN feed[t] : feed[t][i].at \in Nat
    <3>1. \A t \in Topics : \A i \in DOMAIN feed[t] : feed[t][i] \in Message
      BY ElementOfSeq, LenProperties DEF IInv, Types
    <3> QED BY <3>1 DEF Message
  <2>2. \A k \in Keys : handled'[k] <= events'
    BY <1>1, <1>6 DEF IInv, Types, Announced
  <2>3. \A t \in Topics : \A i \in DOMAIN feed'[t] : feed'[t][i].at <= events'
    BY <1>1, <1>3, <1>5, <1>6, <2>1 DEF IInv, Announced
  <2> QED BY <1>3, <1>5, <2>2, <2>3 DEF IInv, Announced, Topics
<1> QED BY <1>1, <1>7, <1>8, SameEntries DEF IInv

LEMMA NewTxStep == ASSUME IInv, NEW t \in Tx, NewTx(t) PROVE IInv'
<1>1. /\ events \in 0..MaxEvents /\ events < MaxEvents /\ events' = events + 1
      /\ UNCHANGED <<tip, known, mined, reading, lastBlock, sinceBlock, cache, req, handled>>
      /\ pool' = pool \cup {t}
  BY DEF IInv, Types, NewTx, listener
<1>2. PICK m : m = Announcement(t)
  OBVIOUS
<1>3. m \in Message /\ m.id = t /\ m.at = events'
  BY <1>1, <1>2, TimeAssumption DEF Announcement, Message
<1>4. Publish("rawtx", <<m>>) /\ "rawtx" \in Topics
  BY <1>2 DEF NewTx, Topics
<1>5. /\ feed' \in [Topics -> Seq(Message)] /\ lost' \in BOOLEAN
      /\ \A p \in Topics : \A i \in DOMAIN feed'[p] :
           \/ i \in DOMAIN feed[p] /\ feed'[p][i] = feed[p][i]
           \/ p = "rawtx" /\ feed'[p][i] = m
  BY <1>3, <1>4, Published
<1>6. events' \in 0..MaxEvents /\ \A n : n \in Int /\ n <= events => n <= events'
  BY <1>1, TimeAssumption
<1>7. Types'
  BY <1>1, <1>5, <1>6 DEF IInv, Types
<1>8. Announced'
  <2>1. \A p \in Topics : \A i \in DOMAIN feed[p] : feed[p][i].at \in Nat
    <3>1. \A p \in Topics : \A i \in DOMAIN feed[p] : feed[p][i] \in Message
      BY ElementOfSeq, LenProperties DEF IInv, Types
    <3> QED BY <3>1 DEF Message
  <2>2. \A k \in Keys : handled'[k] <= events'
    BY <1>1, <1>6 DEF IInv, Types, Announced
  <2>3. \A p \in Topics : \A i \in DOMAIN feed'[p] : feed'[p][i].at <= events'
    BY <1>1, <1>3, <1>5, <1>6, <2>1 DEF IInv, Announced
  <2> QED BY <1>3, <1>5, <2>2, <2>3 DEF IInv, Announced, Topics
<1> QED BY <1>1, <1>7, <1>8, SameEntries DEF IInv

LEMMA Bounds ==
  /\ Timeout \in Nat /\ Window \in Nat /\ MaxEvents \in Nat
  /\ \A kind \in Kinds : TTL[kind] \in Nat
BY TimeAssumption

\* A step of a request that asks the node or hears from it, and touches nothing else.
LEMMA OwnStep ==
  ASSUME IInv, NEW r \in Request, UNCHANGED <<node, feed, lost, listener, cache, handled>>,
         NEW q, req' = [req EXCEPT ![r] = q],
         \/ q = Idle
         \/ /\ q \in LoadingState /\ DOMAIN q.got \subseteq Calls(KindOf(q.key))
            /\ q.old <= q.clock /\ q.clock <= Timeout
            /\ q.raced \/ q.at >= handled[q.key]
  PROVE  IInv'
<1>1. /\ UNCHANGED <<tip, known, pool, mined, events, reading, lastBlock, sinceBlock>>
      /\ \A p \in Request : req'[p] = IF p = r THEN q ELSE req[p]
      /\ q.phase \in {"idle", "loading"}
      /\ q.phase = "loading" =>
           /\ DOMAIN q.got \subseteq Calls(KindOf(q.key))
           /\ q.old <= q.clock /\ q.clock <= Timeout
           /\ q.raced \/ q.at >= handled[q.key]
  BY DEF IInv, Types, node, listener, Idle, LoadingState
<1>2. Types'
  <2>1. req' \in [Request -> {Idle} \cup LoadingState \cup ServedState]
    BY DEF IInv, Types
  <2> QED BY <1>1, <2>1 DEF IInv, Types
<1>3. Announced'
  BY <1>1 DEF IInv, Announced
<1>4. Slots'
  BY <1>1 DEF IInv, Slots, SlotsOf
<1>5. Ages'
  BY <1>1 DEF IInv, Ages
<1>6. InTime'
  BY <1>1 DEF IInv, InTime
<1> QED BY <1>2, <1>3, <1>4, <1>5, <1>6 DEF IInv

LEMMA FetchStep == ASSUME IInv, NEW r \in Request, NEW k \in Page, Fetch(r, k) PROVE IInv'
<1>0. k \in Keys /\ KindOf(k) \in Kinds /\ TTL[KindOf(k)] \in Nat /\ Timeout \in Nat
  BY PageAssumption, KindsOf, Bounds
<1>1. CASE Has(k)
  <2> DEFINE e == Get(k)
             q == Served(k, handled[k], e.val, e.at, e.old)
  <2>1. /\ UNCHANGED <<tip, known, pool, mined, events, feed, lost, reading, lastBlock,
                        sinceBlock, handled>>
        /\ cache' = Touch(k) /\ req' = [req EXCEPT ![r] = q]
    BY <1>1 DEF Fetch, node, listener
  <2>2. /\ Touch(k) \in [Kinds -> Seq(Entry)] /\ SlotsOf(Touch(k))
        /\ \A kind \in Kinds : Range(Touch(k)[kind]) = Range(cache[kind])
    BY <1>0, <1>1, TouchFacts DEF IInv, Slots
  <2>3. e \in Range(cache[KindOf(k)]) /\ e \in Entry /\ e.key = k /\ Fresh(e)
    BY <1>0, <1>1, GetFacts DEF IInv, Slots
  <2>4. e.val \in Answers /\ e.at \in Nat /\ e.old \in Nat /\ e.age \in Nat
    BY <2>3 DEF Entry
  <2>5. ASSUME Expires(KindOf(k)) PROVE e.old <= TTL[KindOf(k)] + Timeout
    <3>1. e.age <= TTL[KindOf(k)]
      BY <2>3, <2>5 DEF Fresh
    <3>2. e.old <= e.age + Timeout
      BY <1>0, <2>3, <3>1 DEF IInv, Ages
    <3> QED BY <1>0, <2>4, <3>1, <3>2
  <2>6. q \in ServedState /\ q.phase = "served" /\ q.key = k /\ q.old = e.old
    <3>1. handled[k] \in Nat
      BY <1>0, TimeAssumption DEF IInv, Types
    <3> QED BY <1>0, <2>4, <3>1 DEF Served, ServedState
  <2>7. PICK v : v = q
    OBVIOUS
  <2>8. /\ req' = [req EXCEPT ![r] = v] /\ v \in ServedState /\ v.phase = "served"
        /\ Expires(KindOf(v.key)) => v.old <= TTL[KindOf(v.key)] + Timeout
    BY <2>1, <2>5, <2>6, <2>7
  <2>9. \A p \in Request : req'[p] = IF p = r THEN v ELSE req[p]
    BY <2>8 DEF IInv, Types
  <2>10. Types'
    <3>1. req' \in [Request -> {Idle} \cup LoadingState \cup ServedState]
      BY <2>8 DEF IInv, Types
    <3> QED BY <2>1, <2>2, <3>1 DEF IInv, Types
  <2>11. Announced'
    BY <2>1 DEF IInv, Announced
  <2>12. Slots'
    <3>1. SlotsOf(cache)'
      BY <2>1, <2>2 DEF SlotsOf
    <3> QED BY <2>8, <2>9, <3>1 DEF IInv, Slots
  <2>13. Ages'
    BY <2>1, <2>2, <2>8, <2>9 DEF IInv, Ages
  <2>14. InTime'
    BY <2>1, <2>2, <2>8, <2>9 DEF IInv, InTime
  <2> QED BY <2>10, <2>11, <2>12, <2>13, <2>14 DEF IInv
<1>2. CASE ~Has(k)
  <2>1. UNCHANGED <<node, feed, lost, listener, cache, handled>>
        /\ req' = [req EXCEPT ![r] = Loading(k)]
    BY <1>2 DEF Fetch
  <2>2. handled[k] \in Nat /\ events \in Nat /\ handled[k] <= events
    BY <1>0, TimeAssumption DEF IInv, Types, Announced
  <2>3. PICK q : q = Loading(k)
    OBVIOUS
  <2>4. /\ q \in LoadingState /\ DOMAIN q.got = {} /\ q.old = 0 /\ q.clock = 0
        /\ q.at = events /\ q.key = k
    BY <1>0, <2>2, <2>3, NoAnswers DEF Loading, LoadingState
  <2>5. /\ DOMAIN q.got \subseteq Calls(KindOf(q.key)) /\ q.old <= q.clock /\ q.clock <= Timeout
        /\ q.at >= handled[q.key]
    BY <1>0, <2>2, <2>4
  <2> QED BY <2>1, <2>3, <2>4, <2>5, OwnStep
<1> QED BY <1>1, <1>2

LEMMA NodeAnswersStep == ASSUME IInv, NEW r \in Request, NEW call, NodeAnswers(r, call) PROVE IInv'
<1>1. PICK p : p = req[r]
  OBVIOUS
<1>2. PICK v : v = Answer(call, p.key)
  OBVIOUS
<1> DEFINE g == [c \in DOMAIN p.got \cup {call} |-> IF c = call THEN v ELSE p.got[c]]
           q == [p EXCEPT !.got = g, !.at = IF p.got = <<>> THEN events ELSE p.at,
                          !.old = IF p.got = <<>> THEN 0 ELSE p.old]
<1>3. /\ p \in LoadingState /\ p.phase = "loading" /\ p.key \in Keys
      /\ call \in Calls(KindOf(p.key)) /\ KindOf(p.key) \in Kinds
      /\ DOMAIN p.got \subseteq Calls(KindOf(p.key))
  <2>1. p.phase = "loading" /\ call \in Calls(KindOf(p.key))
    BY <1>1 DEF NodeAnswers
  <2>2. p \in LoadingState
    BY <1>1, <2>1, RequestFacts DEF IInv
  <2>3. p.key \in Keys
    BY <2>2 DEF LoadingState
  <2> QED BY <1>1, <2>1, <2>2, <2>3, KindsOf DEF IInv, Slots
<1>4. v \in Value /\ call \in AnyCall
  BY <1>2, <1>3, AnswerIsValue DEF IInv
<1>5. g \in Answers /\ DOMAIN g \subseteq Calls(KindOf(p.key))
  BY <1>3, <1>4, OneMoreAnswer DEF LoadingState
<1>6. UNCHANGED <<node, feed, lost, listener, cache, handled>> /\ req' = [req EXCEPT ![r] = q]
  BY <1>1, <1>2 DEF NodeAnswers
<1> HIDE DEF g
<1>7. /\ p.old \in Nat /\ p.clock \in Nat /\ p.at \in Nat /\ p.old <= p.clock /\ p.clock <= Timeout
      /\ p.raced \/ p.at >= handled[p.key]
      /\ events \in Nat /\ handled[p.key] \in Nat /\ handled[p.key] <= events
  <2>1. p.old \in Nat /\ p.clock \in Nat /\ p.at \in Nat
    BY <1>3 DEF LoadingState
  <2>2. p.old <= p.clock /\ p.clock <= Timeout /\ (p.raced \/ p.at >= handled[p.key])
    BY <1>1, <1>3 DEF IInv, Ages, InTime
  <2>3. events \in Nat /\ handled[p.key] \in Nat /\ handled[p.key] <= events
    BY <1>3, Bounds DEF IInv, Types, Announced
  <2> QED BY <2>1, <2>2, <2>3
<1>8. PICK u : u = q
  OBVIOUS
<1>9. /\ u \in LoadingState /\ u.key = p.key /\ u.got = g /\ u.clock = p.clock /\ u.raced = p.raced
      /\ u.old \in {0, p.old} /\ u.at \in {events, p.at}
  BY <1>3, <1>5, <1>7, <1>8 DEF LoadingState
<1>10. u.old <= u.clock /\ u.clock <= Timeout /\ (u.raced \/ u.at >= handled[u.key])
  BY <1>7, <1>9
<1>11. req' = [req EXCEPT ![r] = u]
  BY <1>6, <1>8
<1> QED BY <1>5, <1>6, <1>9, <1>10, <1>11, OwnStep

LEMMA EndStep == ASSUME IInv, NEW r \in Request, LoadFails(r) \/ Respond(r) PROVE IInv'
BY OwnStep DEF LoadFails, Respond

LEMMA LoadDoneStep == ASSUME IInv, NEW r \in Request, LoadDone(r) PROVE IInv'
<1>1. PICK p : p = req[r]
  OBVIOUS
<1>2. /\ p \in LoadingState /\ p.phase = "loading" /\ DOMAIN p.got = Calls(KindOf(p.key))
      /\ p.key \in Keys /\ KindOf(p.key) \in Kinds
  <2>1. p.phase = "loading" /\ DOMAIN p.got = Calls(KindOf(p.key))
    BY <1>1 DEF LoadDone
  <2>2. p \in LoadingState
    BY <1>1, <2>1, RequestFacts DEF IInv
  <2>3. p.key \in Keys
    BY <2>2 DEF LoadingState
  <2> QED BY <2>1, <2>2, <2>3, KindsOf
<1>3. /\ p.got \in Answers /\ p.at \in Nat /\ p.old \in Nat /\ p.clock \in Nat
      /\ p.raced \in BOOLEAN /\ p.seen \in Nat
  BY <1>2 DEF LoadingState
<1>4. /\ p.old <= p.clock /\ p.clock <= Timeout
      /\ (p.raced \/ p.at >= handled[p.key])
  BY <1>1, <1>2 DEF IInv, Ages, InTime
<1>5. PICK e : e = [key |-> p.key, val |-> p.got, age |-> 0, at |-> p.at, old |-> p.old,
                    raced |-> p.raced]
  OBVIOUS
<1>6. /\ e \in Entry /\ e.key = p.key /\ e.val = p.got /\ e.age = 0 /\ e.at = p.at
      /\ e.old = p.old /\ e.raced = p.raced
  BY <1>2, <1>3, <1>5 DEF Entry
<1>7. PICK v : v = Served(p.key, p.seen, p.got, p.at, p.old)
  OBVIOUS
<1>8. v \in ServedState /\ v.phase = "served" /\ v.key = p.key /\ v.old = p.old
  BY <1>2, <1>3, <1>7 DEF Served, ServedState
<1>9. /\ UNCHANGED <<tip, known, pool, mined, events, feed, lost, reading, lastBlock,
                      sinceBlock, handled>>
      /\ cache' = Store(e) /\ req' = [req EXCEPT ![r] = v]
  BY <1>1, <1>5, <1>7 DEF LoadDone, node, listener
<1>10. /\ Store(e) \in [Kinds -> Seq(Entry)] /\ SlotsOf(Store(e))
       /\ \A kind \in Kinds : Range(Store(e)[kind]) \subseteq Range(cache[kind]) \cup {e}
       /\ \A kind \in Kinds \ {KindOf(e.key)} : Store(e)[kind] = cache[kind]
  BY <1>2, <1>6, StoreFacts DEF IInv, Slots
<1>11. \A q \in Request : req'[q] = IF q = r THEN v ELSE req[q]
  BY <1>9 DEF IInv, Types
<1>12. p.old <= Timeout /\ Timeout \in Nat /\ TTL[KindOf(p.key)] \in Nat
  BY <1>2, <1>3, <1>4, Bounds
<1>13. \A kind \in Kinds : \A x \in Range(cache'[kind]) :
         x \in Range(cache[kind]) \/ (x = e /\ kind = KindOf(e.key))
  BY <1>9, <1>10
<1>14. Types'
  <2>1. req' \in [Request -> {Idle} \cup LoadingState \cup ServedState]
    BY <1>8, <1>9 DEF IInv, Types
  <2> QED BY <1>9, <1>10, <2>1 DEF IInv, Types
<1>15. Announced'
  BY <1>9 DEF IInv, Announced
<1>16. Slots'
  <2>1. SlotsOf(cache)'
    BY <1>9, <1>10 DEF SlotsOf
  <2> QED BY <1>8, <1>11, <2>1 DEF IInv, Slots
<1>17. Ages'
  <2>1. \A kind \in Kinds : \A x \in Range(cache'[kind]) : x.age <= TTL[kind] => x.old <= x.age + Timeout
    BY <1>3, <1>6, <1>12, <1>13 DEF IInv, Ages
  <2>2. v.old <= TTL[KindOf(v.key)] + Timeout
    BY <1>3, <1>8, <1>12
  <2> QED BY <1>8, <1>11, <2>1, <2>2 DEF IInv, Ages
<1>18. InTime'
  <2>1. \A kind \in Kinds : \A x \in Range(cache'[kind]) : x.raced \/ x.at >= handled[x.key]
    BY <1>4, <1>6, <1>13 DEF IInv, InTime
  <2> QED BY <1>8, <1>9, <1>11, <2>1 DEF IInv, InTime
<1> QED BY <1>14, <1>15, <1>16, <1>17, <1>18 DEF IInv

\* An event of the bus: what changes is invalidated, and only that is.
LEMMA InvalidateStep ==
  ASSUME IInv, NEW ks, NEW changed \in SUBSET ks, NEW n \in Nat, n <= events,
         \A j, k \in ks : KindOf(j) = KindOf(k) => j = k,
         Invalidate(ks, changed, n), UNCHANGED events
  PROVE  /\ cache' \in [Kinds -> Seq(Entry)] /\ handled' \in [Keys -> 0..MaxEvents]
         /\ req' \in [Request -> {Idle} \cup LoadingState \cup ServedState]
         /\ \A k \in Keys : handled'[k] <= events
         /\ \A kind \in Kinds :
              Range(cache'[kind]) = {e \in Range(cache[kind]) : e.key \notin ks}
         /\ Slots' /\ Ages' /\ InTime'
<1>1. /\ cache' = Without(ks)
      /\ req' = [r \in Request |->
           IF req[r].phase = "loading" /\ req[r].key \in ks
             THEN [req[r] EXCEPT !.raced = TRUE] ELSE req[r]]
      /\ handled' = [k \in Keys |-> IF k \in changed /\ handled[k] < n THEN n ELSE handled[k]]
  BY DEF Invalidate
<1>2. /\ Without(ks) \in [Kinds -> Seq(Entry)] /\ SlotsOf(Without(ks))
      /\ \A kind \in Kinds :
           Range(Without(ks)[kind]) = {e \in Range(cache[kind]) : e.key \notin ks}
  BY WithoutFacts DEF IInv, Slots
<1>3. handled' \in [Keys -> 0..MaxEvents] /\ \A k \in Keys : handled'[k] <= events
  <2>1. /\ handled \in [Keys -> 0..MaxEvents] /\ \A k \in Keys : handled[k] <= events
        /\ events \in 0..MaxEvents
    BY DEF IInv, Types, Announced
  <2>2. n \in 0..MaxEvents
    BY <2>1, Bounds
  <2> QED BY <1>1, <2>1, <2>2
<1>4. \A k \in Keys : k \notin ks => handled'[k] = handled[k]
  BY <1>1
<1>5. ASSUME NEW r \in Request
      PROVE  /\ req'[r].phase = req[r].phase /\ req'[r] \in {Idle} \cup LoadingState \cup ServedState
             /\ req[r].phase # "loading" => req'[r] = req[r]
             /\ req[r].phase = "loading" =>
                  /\ req'[r].key = req[r].key /\ req'[r].got = req[r].got
                  /\ req'[r].old = req[r].old /\ req'[r].clock = req[r].clock
                  /\ req'[r].at = req[r].at
                  /\ req'[r].raced = (req[r].raced \/ req[r].key \in ks)
  <2>1. CASE req[r].phase = "loading"
    <3>1. PICK p : p = req[r]
      OBVIOUS
    <3>2. p \in LoadingState /\ p.phase = "loading"
      BY <2>1, <3>1, RequestFacts DEF IInv
    <3>3. PICK q : q = [p EXCEPT !.raced = TRUE]
      OBVIOUS
    <3>4. /\ q \in LoadingState /\ q.phase = "loading" /\ q.key = p.key /\ q.got = p.got
          /\ q.old = p.old /\ q.clock = p.clock /\ q.at = p.at /\ q.raced = TRUE
      BY <3>2, <3>3 DEF LoadingState
    <3>5. req'[r] = IF p.key \in ks THEN q ELSE p
      BY <1>1, <3>1, <3>2, <3>3
    <3>6. p.raced \in BOOLEAN
      BY <3>2 DEF LoadingState
    <3>7. CASE p.key \in ks
      BY <3>1, <3>2, <3>4, <3>5, <3>7
    <3>8. CASE p.key \notin ks
      BY <3>1, <3>2, <3>5, <3>6, <3>8
    <3> QED BY <3>7, <3>8
  <2>2. CASE req[r].phase # "loading"
    BY <1>1, <2>2 DEF IInv, Types
  <2> QED BY <2>1, <2>2
<1>6. req' \in [Request -> {Idle} \cup LoadingState \cup ServedState]
  BY <1>1, <1>5
<1>7. Slots'
  <2>1. SlotsOf(cache)'
    BY <1>1, <1>2 DEF SlotsOf
  <2> QED BY <1>5, <2>1 DEF IInv, Slots
<1>8. Ages'
  BY <1>1, <1>2, <1>5 DEF IInv, Ages
<1>9. InTime'
  <2>1. \A kind \in Kinds : \A e \in Range(cache'[kind]) : e.raced \/ e.at >= handled'[e.key]
    <3> SUFFICES ASSUME NEW kind \in Kinds, NEW e \in Range(cache'[kind])
                 PROVE  e.raced \/ e.at >= handled'[e.key]
      OBVIOUS
    <3>1. e \in Range(cache[kind]) /\ e.key \notin ks
      BY <1>1, <1>2
    <3>2. e.key \in Keys
      BY <3>1, CacheAt DEF IInv, Slots, Entry
    <3> QED BY <1>4, <3>1, <3>2 DEF IInv, InTime
  <2>2. \A r \in Request : req'[r].phase = "loading" => req'[r].raced \/ req'[r].at >= handled'[req'[r].key]
    <3> SUFFICES ASSUME NEW r \in Request, req[r].phase = "loading", req[r].key \notin ks
                 PROVE  req'[r].raced \/ req'[r].at >= handled'[req'[r].key]
      BY <1>5
    <3>1. req[r].key \in Keys
      BY RequestFacts DEF IInv, LoadingState
    <3> QED BY <1>4, <1>5, <3>1 DEF IInv, InTime
  <2> QED BY <2>1, <2>2 DEF InTime
<1> QED BY <1>1, <1>2, <1>3, <1>6, <1>7, <1>8, <1>9

\* A reader takes the next message of its socket.
LEMMA Taken ==
  ASSUME IInv, NEW topic \in Topics, Reads(topic), feed' = [feed EXCEPT ![topic] = Tail(@)]
  PROVE  /\ feed' \in [Topics -> Seq(Message)]
         /\ \A t \in Topics : \A i \in DOMAIN feed'[t] :
              \E j \in DOMAIN feed[t] : feed'[t][i] = feed[t][j]
         /\ Head(feed[topic]) \in Message
         /\ \E j \in DOMAIN feed[topic] : Head(feed[topic]) = feed[topic][j]
<1>1. feed[topic] \in Seq(Message) /\ feed[topic] # <<>>
  BY DEF IInv, Types, Reads
<1>2. PICK s : s = feed[topic]
  OBVIOUS
<1>3. PICK t : t = Tail(s)
  OBVIOUS
<1>4. /\ t \in Seq(Message) /\ Len(s) \in Nat /\ Len(s) >= 1 /\ DOMAIN s = 1..Len(s)
      /\ Len(t) = Len(s) - 1 /\ \A i \in 1..(Len(s) - 1) : t[i] = s[i + 1]
      /\ Head(s) \in Message /\ Head(s) = s[1]
  BY <1>1, <1>2, <1>3, HeadTailProperties, LenProperties, EmptySeq
<1>5. DOMAIN t = 1..(Len(s) - 1)
  BY <1>4, LenProperties
<1>6. \A i \in DOMAIN t : i + 1 \in DOMAIN s /\ t[i] = s[i + 1]
  BY <1>4, <1>5
<1>7. 1 \in DOMAIN s
  BY <1>4
<1>8. feed' = [feed EXCEPT ![topic] = t]
  BY <1>2, <1>3
<1>9. ASSUME NEW p \in Topics, NEW i \in DOMAIN feed'[p]
      PROVE  \E j \in DOMAIN feed[p] : feed'[p][i] = feed[p][j]
  <2>1. CASE p = topic
    BY <1>2, <1>6, <1>8, <2>1 DEF IInv, Types
  <2>2. CASE p # topic
    BY <1>8, <2>2 DEF IInv, Types
  <2> QED BY <2>1, <2>2
<1> QED BY <1>2, <1>4, <1>7, <1>8, <1>9 DEF IInv, Types

LEMMA BlockConcerns ==
  ASSUME NEW b \in Block
  PROVE  /\ ChangedByBlock(b) \in SUBSET ConcernedByBlock(b)
         /\ \A j, k \in ConcernedByBlock(b) : KindOf(j) = KindOf(k) => j = k
         /\ "tip" \in ConcernedByBlock(b) /\ KindOf("tip") = "tip"
<1>1. "tip" \notin Block /\ "tip" \notin Tx /\ "mempool" \notin Block /\ "mempool" \notin Tx
  BY KeysAssumption
<1>2. KindOf("tip") = "tip" /\ KindOf("mempool") = "mempool" /\ KindOf(b) = "block"
  BY <1>1 DEF KindOf
<1> QED BY <1>2 DEF ChangedByBlock, ConcernedByBlock

LEMMA TxConcerns ==
  ASSUME NEW t \in Tx
  PROVE  /\ ChangedByTx(t) \in SUBSET ConcernedByTx(t)
         /\ \A j, k \in ConcernedByTx(t) : KindOf(j) = KindOf(k) => j = k
<1>1. "mempool" \notin Block /\ "mempool" \notin Tx /\ t \notin Block
  BY KeysAssumption
<1>2. KindOf("mempool") = "mempool" /\ KindOf(t) = "tx"
  BY <1>1 DEF KindOf
<1> QED BY <1>2 DEF ChangedByTx, ConcernedByTx

LEMMA ReceiveBlockStep == ASSUME IInv, ReceiveBlock PROVE IInv'
<1>1. /\ feed' = [feed EXCEPT !["rawblock"] = Tail(@)] /\ Reads("rawblock")
      /\ UNCHANGED <<tip, known, pool, mined, events, lost, reading>>
  BY DEF ReceiveBlock, node
<1>2. PICK m : m = Head(feed["rawblock"])
  OBVIOUS
<1>3. /\ feed' \in [Topics -> Seq(Message)]
      /\ \A t \in Topics : \A i \in DOMAIN feed'[t] :
           \E j \in DOMAIN feed[t] : feed'[t][i] = feed[t][j]
      /\ m \in Message /\ \E j \in DOMAIN feed["rawblock"] : m = feed["rawblock"][j]
  BY <1>1, <1>2, Taken DEF Topics
<1>4. m.at \in Nat /\ m.at <= events /\ m.id \in Block
  <2>1. m.at \in Nat
    BY <1>3 DEF Message
  <2>2. m.at <= events /\ m.id \in Block
    BY <1>3 DEF IInv, Announced, Topics
  <2> QED BY <2>1, <2>2
<1>5. CASE UNCHANGED <<lastBlock, sinceBlock, cache, req, handled>>
  <2>1. Types'
    BY <1>1, <1>3, <1>5 DEF IInv, Types
  <2>2. Announced'
    BY <1>1, <1>3, <1>5 DEF IInv, Announced, Topics
  <2>3. Slots' /\ Ages' /\ InTime'
    BY <1>5, SameEntries
  <2> QED BY <2>1, <2>2, <2>3 DEF IInv
<1>6. CASE /\ lastBlock' = m.id /\ sinceBlock' = 0
           /\ Invalidate(ConcernedByBlock(m.id), ChangedByBlock(m.id), m.at)
  <2>1. /\ cache' \in [Kinds -> Seq(Entry)] /\ handled' \in [Keys -> 0..MaxEvents]
        /\ req' \in [Request -> {Idle} \cup LoadingState \cup ServedState]
        /\ \A k \in Keys : handled'[k] <= events
        /\ Slots' /\ Ages' /\ InTime'
    BY <1>1, <1>4, <1>6, BlockConcerns, InvalidateStep
  <2>2. 0 \in 0..Window
    BY Bounds
  <2>3. Types'
    BY <1>1, <1>3, <1>4, <1>6, <2>1, <2>2 DEF IInv, Types
  <2>4. Announced'
    BY <1>1, <1>3, <2>1 DEF IInv, Announced, Topics
  <2> QED BY <2>1, <2>3, <2>4 DEF IInv
<1> QED BY <1>2, <1>5, <1>6 DEF ReceiveBlock

LEMMA ReceiveTxStep == ASSUME IInv, ReceiveTx PROVE IInv'
<1>1. /\ feed' = [feed EXCEPT !["rawtx"] = Tail(@)] /\ Reads("rawtx")
      /\ UNCHANGED <<tip, known, pool, mined, events, lost, reading, lastBlock, sinceBlock>>
  BY DEF ReceiveTx, node, listener
<1>2. PICK m : m = Head(feed["rawtx"])
  OBVIOUS
<1>3. /\ feed' \in [Topics -> Seq(Message)]
      /\ \A t \in Topics : \A i \in DOMAIN feed'[t] :
           \E j \in DOMAIN feed[t] : feed'[t][i] = feed[t][j]
      /\ m \in Message /\ \E j \in DOMAIN feed["rawtx"] : m = feed["rawtx"][j]
  BY <1>1, <1>2, Taken DEF Topics
<1>4. m.at \in Nat /\ m.at <= events /\ m.id \in Tx
  <2>1. m.at \in Nat
    BY <1>3 DEF Message
  <2>2. m.at <= events /\ m.id \in Tx
    BY <1>3 DEF IInv, Announced, Topics
  <2> QED BY <2>1, <2>2
<1>5. Invalidate(ConcernedByTx(m.id), ChangedByTx(m.id), m.at)
  BY <1>2 DEF ReceiveTx
<1>6. /\ cache' \in [Kinds -> Seq(Entry)] /\ handled' \in [Keys -> 0..MaxEvents]
      /\ req' \in [Request -> {Idle} \cup LoadingState \cup ServedState]
      /\ \A k \in Keys : handled'[k] <= events
      /\ Slots' /\ Ages' /\ InTime'
  BY <1>1, <1>4, <1>5, TxConcerns, InvalidateStep
<1>7. Types'
  BY <1>1, <1>3, <1>6 DEF IInv, Types
<1>8. Announced'
  BY <1>1, <1>3, <1>6 DEF IInv, Announced, Topics
<1> QED BY <1>6, <1>7, <1>8 DEF IInv

LEMMA ReadersStopStep ==
  ASSUME IInv, StopListener \/ \E topic \in Topics : StreamError(topic)
  PROVE  IInv'
<1>1. /\ UNCHANGED <<tip, known, pool, mined, events, feed, lastBlock, sinceBlock, cache, req, handled>>
      /\ reading' \subseteq reading
  BY DEF StopListener, StreamError, node
<1>2. lost' \in BOOLEAN
  <2>1. CASE StopListener
    BY <2>1, Zenon DEF StopListener
  <2>2. ASSUME NEW topic \in Topics, StreamError(topic) PROVE lost' \in BOOLEAN
    BY <2>2, Zenon DEF StreamError
  <2> QED BY <2>1, <2>2
<1>3. Types'
  BY <1>1, <1>2 DEF IInv, Types
<1>4. Announced'
  BY <1>1 DEF IInv, Announced
<1> QED BY <1>1, <1>3, <1>4, SameEntries DEF IInv

LEMMA CappedFacts ==
  ASSUME NEW n \in Nat, NEW limit \in Nat
  PROVE  /\ Capped(n, limit) \in 0..limit /\ Capped(n, limit) \in Nat
         /\ Capped(n, limit) <= n + 1
         /\ Capped(n, limit) < limit => Capped(n, limit) = n + 1
BY DEF Capped

LEMMA TickStep == ASSUME IInv, Tick PROVE IInv'
<1>1. /\ cache' = AgedCache
      /\ UNCHANGED <<tip, known, pool, mined, events, feed, lost, reading, lastBlock, handled>>
      /\ sinceBlock' = Capped(sinceBlock, Window)
      /\ \A r \in Request : /\ req[r].phase # "served"
                            /\ req[r].phase = "loading" => req[r].clock < Timeout
      /\ req' = [r \in Request |->
           IF req[r].phase # "loading" THEN req[r]
           ELSE [req[r] EXCEPT !.clock = @ + 1,
                               !.old = Capped(@, OldLimit(KindOf(req[r].key)))]]
  BY DEF Tick, AgedCache, node
<1>2. /\ AgedCache \in [Kinds -> Seq(Entry)] /\ SlotsOf(AgedCache)
      /\ \A kind \in Kinds : \A x \in Range(AgedCache[kind]) :
           \E e \in Range(cache[kind]) : x = Aged(e)
  BY TickFacts DEF IInv, Slots
<1>3. ASSUME NEW r \in Request
      PROVE  /\ req'[r].phase = req[r].phase /\ req'[r] \in {Idle} \cup LoadingState \cup ServedState
             /\ req[r].phase # "loading" => req'[r] = req[r]
             /\ req[r].phase = "loading" =>
                  /\ req'[r].key = req[r].key /\ req'[r].got = req[r].got
                  /\ req'[r].at = req[r].at /\ req'[r].raced = req[r].raced
                  /\ req'[r].old <= req'[r].clock /\ req'[r].clock <= Timeout
  <2>1. CASE req[r].phase = "loading"
    <3>1. PICK p : p = req[r]
      OBVIOUS
    <3>2. p \in LoadingState /\ p.phase = "loading"
      BY <2>1, <3>1, RequestFacts DEF IInv
    <3>3. p.key \in Keys /\ p.clock \in Nat /\ p.old \in Nat
      BY <3>2 DEF LoadingState
    <3>4. PICK o : o = Capped(p.old, OldLimit(KindOf(p.key)))
      OBVIOUS
    <3>5. o \in Nat /\ o <= p.old + 1
      <4>1. OldLimit(KindOf(p.key)) \in Nat
        BY <3>3, KindsOf, Bounds DEF OldLimit, AgeLimit
      <4> QED BY <3>3, <3>4, <4>1, CappedFacts
    <3>c. PICK n : n = p.clock + 1
      OBVIOUS
    <3>n. n \in Nat
      BY <3>3, <3>c
    <3>6. PICK q : q = [p EXCEPT !.clock = n, !.old = o]
      OBVIOUS
    <3>7. /\ q \in LoadingState /\ q.phase = "loading" /\ q.key = p.key /\ q.got = p.got
          /\ q.old = o /\ q.clock = n /\ q.at = p.at /\ q.raced = p.raced
      BY <3>2, <3>n, <3>5, <3>6 DEF LoadingState
    <3>8. req'[r] = q
      BY <1>1, <3>1, <3>2, <3>4, <3>6, <3>c
    <3>9. p.old <= p.clock /\ p.clock < Timeout
      BY <1>1, <3>1, <3>2 DEF IInv, Ages
    <3>10. q.old <= q.clock /\ q.clock <= Timeout
      BY <3>3, <3>5, <3>7, <3>9, <3>c, Bounds
    <3> QED BY <3>1, <3>2, <3>7, <3>8, <3>10
  <2>2. CASE req[r].phase # "loading"
    BY <1>1, <2>2 DEF IInv, Types
  <2> QED BY <2>1, <2>2
<1>4. Types'
  <2>1. req' \in [Request -> {Idle} \cup LoadingState \cup ServedState]
    BY <1>1, <1>3
  <2>2. sinceBlock' \in 0..Window
    <3>1. sinceBlock \in Nat
      BY Bounds DEF IInv, Types
    <3> QED BY <1>1, <3>1, CappedFacts, Bounds
  <2> QED BY <1>1, <1>2, <2>1, <2>2 DEF IInv, Types
<1>5. Announced'
  BY <1>1 DEF IInv, Announced
<1>6. Slots'
  <2>1. SlotsOf(cache)'
    BY <1>1, <1>2 DEF SlotsOf
  <2> QED BY <1>3, <2>1 DEF IInv, Slots
<1>7. ASSUME NEW kind \in Kinds, NEW x \in Range(cache'[kind])
      PROVE  /\ x.age <= TTL[kind] => x.old <= x.age + Timeout
             /\ x.raced \/ x.at >= handled'[x.key]
  <2>1. PICK e \in Range(cache[kind]) : x = Aged(e)
    BY <1>1, <1>2
  <2>2. e \in Entry /\ KindOf(e.key) = kind
    BY CacheAt DEF IInv, Slots, SlotsOf
  <2>3. /\ x.key = e.key /\ x.at = e.at /\ x.raced = e.raced
        /\ x.age = Capped(e.age, AgeLimit(kind)) /\ x.old = Capped(e.old, OldLimit(kind))
    BY <2>1, <2>2, AgedEntry
  <2>4. /\ e.age \in Nat /\ e.old \in Nat /\ AgeLimit(kind) \in Nat /\ OldLimit(kind) \in Nat
        /\ AgeLimit(kind) = TTL[kind] + 1 /\ TTL[kind] \in Nat /\ Timeout \in Nat
    BY <2>2, Bounds DEF Entry, AgeLimit, OldLimit
  <2>5. /\ x.age \in Nat /\ x.old \in Nat /\ x.old <= e.old + 1
        /\ x.age < AgeLimit(kind) => x.age = e.age + 1
    BY <2>3, <2>4, CappedFacts
  <2>6. e.age <= TTL[kind] => e.old <= e.age + Timeout
    BY DEF IInv, Ages
  <2>7. x.age <= TTL[kind] => x.old <= x.age + Timeout
    BY <2>4, <2>5, <2>6
  <2> QED BY <1>1, <2>3, <2>7 DEF IInv, InTime
<1>8. Ages'
  BY <1>1, <1>3, <1>7 DEF IInv, Ages
<1>9. InTime'
  BY <1>1, <1>3, <1>7 DEF IInv, InTime
<1> QED BY <1>4, <1>5, <1>6, <1>8, <1>9 DEF IInv

LEMMA NextInv == ASSUME IInv, [Next]_vars PROVE IInv'
<1>1. CASE UNCHANGED vars
  BY <1>1 DEF vars, node, listener, IInv, Types, Announced, Slots, SlotsOf, Ages, InTime
<1>2. ASSUME NEW r \in Request, Progress(r) PROVE IInv'
  BY <1>2, NodeAnswersStep, LoadDoneStep, EndStep DEF Progress
<1> QED BY <1>1, <1>2, NewBlockStep, NewTxStep, FetchStep, ReceiveBlockStep, ReceiveTxStep,
           ReadersStopStep, TickStep
        DEF Next

LEMMA Invariance == Spec => []IInv
BY InitInv, NextInv, PTL DEF Spec

--------------------------------------------------------------------------------
(* What follows from it. *)

LEMMA TypesHold == ASSUME IInv PROVE TypeOK
<1>1. /\ {tip} \cup known \subseteq Block /\ pool \cup mined \subseteq Tx
      /\ events \in 0..MaxEvents /\ lost \in BOOLEAN /\ reading \subseteq Topics
      /\ lastBlock \in Block \cup {NoBlock} /\ sinceBlock \in 0..Window
      /\ handled \in [Keys -> 0..MaxEvents]
  BY DEF IInv, Types
<1>2. \A r \in Request : req[r].phase \in {"idle", "loading", "served"}
  <2> TAKE r \in Request
  <2>1. req[r] \in {Idle} \cup LoadingState \cup ServedState
    BY DEF IInv, Types
  <2> QED BY <2>1 DEF Idle, LoadingState, ServedState
<1>3. ASSUME NEW kind \in Kinds
      PROVE  Cardinality({e.key : e \in Range(cache[kind])}) = Len(cache[kind])
  <2>1. PICK s : s = cache[kind]
    OBVIOUS
  <2>2. OneEach(s) /\ Len(s) \in Nat /\ DOMAIN s = 1..Len(s)
    BY <2>1, CacheAt DEF IInv, Slots
  <2> DEFINE ks == {e.key : e \in Range(s)}
             f == [i \in 1..Len(s) |-> s[i].key]
  <2>3. f \in [1..Len(s) -> ks] /\ \A i \in 1..Len(s) : f[i] = s[i].key
    BY <2>2 DEF Range
  <2>4. \A k \in ks : \E i \in 1..Len(s) : f[i] = k
    BY <2>2 DEF Range
  <2>5. \A i, j \in 1..Len(s) : f[i] = f[j] => i = j
    BY <2>2, <2>3 DEF OneEach
  <2> HIDE DEF ks, f
  <2>6. f \in Bijection(1..Len(s), ks)
    BY <2>3, <2>4, <2>5 DEF Bijection, Injection, Surjection, IsInjective
  <2>7. ExistsBijection(1..Len(s), ks)
    BY <2>6 DEF ExistsBijection
  <2>8. Cardinality(ks) = Len(s)
    BY <2>2, <2>7, FS_CountingElements
  <2> QED BY <2>1, <2>8 DEF ks
<1> QED BY <1>1, <1>2, <1>3 DEF TypeOK, IInv, Slots, SlotsOf

\* Every cache keeps to its limit with one entry per key, and no page shows what the node
\* said longer ago than the time to live of its cache plus one RPC timeout, for every
\* size, time to live and number of requests (cache.js:33-75).
THEOREM CacheSafe == Spec => []CacheInvariant
<1>1. IInv => TtlBoundsStaleness
  BY DEF IInv, Ages, TtlBoundsStaleness
<1>2. IInv => CacheInvariant
  BY <1>1, TypesHold DEF CacheInvariant
<1> QED BY <1>2, Invariance, PTL

\* What is older than an announcement its cache was told of was being loaded at that
\* moment, whatever the order of answers, announcements and evictions
\* (bitcoinService.js:16-27, mempoolService.js:20-26).
THEOREM OnlyRacesLeaveStale == Spec => []OnlyRacedFillsAreStale
<1>1. IInv => OnlyRacedFillsAreStale
  BY DEF IInv, InTime, OnlyRacedFillsAreStale, Cached
<1> QED BY <1>1, Invariance, PTL

--------------------------------------------------------------------------------
(* A listener that missed nothing.  Its blocks, the last one it handled and the      *)
(* announced ones, differ from one to the next, so that none is taken for a repeated *)
(* hash, and end in the node's tip; once there is nothing left to read, the summary  *)
(* and its loads know that tip.                                                      *)

Blocks == feed["rawblock"]
PriorBlock(i) == IF i = 1 THEN lastBlock ELSE Blocks[i - 1].id
LatestBlock == IF Blocks = <<>> THEN lastBlock ELSE Blocks[Len(Blocks)].id

SummaryIsCurrent ==
  /\ \A e \in Range(cache["tip"]) : e.raced \/ e.val["getblockchaininfo"] = tip
  /\ \A r \in Request :
       req[r].phase = "loading" /\ req[r].key = "tip" /\ ~req[r].raced
         /\ "getblockchaininfo" \in DOMAIN req[r].got
       => req[r].got["getblockchaininfo"] = tip

News ==
  ~lost /\ "rawblock" \in reading =>
    /\ \A i \in DOMAIN Blocks : Blocks[i].id # PriorBlock(i)
    /\ LatestBlock = tip \/ (LatestBlock = NoBlock /\ tip = Genesis)
    /\ Blocks = <<>> => SummaryIsCurrent

LEMMA TipKind ==
  /\ "tip" \in Keys /\ KindOf("tip") = "tip" /\ "tip" \in Kinds
  /\ "getblockchaininfo" \in Calls("tip")
  /\ \A k \in Keys : KindOf(k) = "tip" => k = "tip"
BY KeysAssumption DEF Keys, KindOf, Kinds, Calls, TipCalls

LEMMA BlocksFacts ==
  ASSUME Types
  PROVE  /\ Blocks \in Seq(Message) /\ Len(Blocks) \in Nat /\ DOMAIN Blocks = 1..Len(Blocks)
         /\ Blocks = <<>> <=> Len(Blocks) = 0
BY LenProperties, EmptySeq DEF Types, Blocks, Topics

\* Between two blocks the summary stays current.
LEMMA FetchSummary ==
  ASSUME IInv, SummaryIsCurrent, NEW r \in Request, NEW k \in Page, Fetch(r, k)
  PROVE  SummaryIsCurrent'
<1>1. tip' = tip
  BY DEF Fetch, node
<1>2. Range(cache'["tip"]) = Range(cache["tip"])
  <2>1. CASE Has(k)
    BY <2>1, TouchFacts, PageAssumption DEF Fetch, IInv, Slots, Kinds
  <2>2. CASE ~Has(k)
    BY <2>2 DEF Fetch
  <2> QED BY <2>1, <2>2
<1>3. \A p \in Request : p # r => req'[p] = req[p]
  BY DEF Fetch, IInv, Types
<1>4. req'[r].phase = "served" \/ DOMAIN req'[r].got = {}
  <2>1. CASE Has(k)
    <3>1. req'[r] = Served(k, handled[k], Get(k).val, Get(k).at, Get(k).old)
      BY <2>1 DEF Fetch, IInv, Types
    <3> QED BY <3>1 DEF Served
  <2>2. CASE ~Has(k)
    <3>1. req'[r] = Loading(k)
      BY <2>2 DEF Fetch, IInv, Types
    <3> QED BY <3>1, NoAnswers DEF Loading
  <2> QED BY <2>1, <2>2
<1> QED BY <1>1, <1>2, <1>3, <1>4 DEF SummaryIsCurrent

LEMMA AnswerSummary ==
  ASSUME IInv, SummaryIsCurrent, NEW r \in Request, NEW call, NodeAnswers(r, call)
  PROVE  SummaryIsCurrent'
<1>1. PICK p : p = req[r]
  OBVIOUS
<1>2. PICK v : v = Answer(call, p.key)
  OBVIOUS
<1>3. PICK g : g = [c \in DOMAIN p.got \cup {call} |-> IF c = call THEN v ELSE p.got[c]]
  OBVIOUS
<1>4. p \in LoadingState /\ p.phase = "loading"
  BY <1>1, RequestFacts DEF IInv, NodeAnswers
<1>5. tip' = tip /\ cache' = cache /\ \A q \in Request : q # r => req'[q] = req[q]
  BY DEF NodeAnswers, node, IInv, Types
<1>6. req'[r] = [p EXCEPT !.got = g, !.at = IF p.got = <<>> THEN events ELSE p.at,
                          !.old = IF p.got = <<>> THEN 0 ELSE p.old]
  BY <1>1, <1>2, <1>3 DEF NodeAnswers, IInv, Types
<1>7. req'[r].key = p.key /\ req'[r].raced = p.raced /\ req'[r].got = g
  BY <1>4, <1>6 DEF LoadingState
<1>8. ASSUME p.key = "tip", ~p.raced, "getblockchaininfo" \in DOMAIN g
      PROVE  g["getblockchaininfo"] = tip
  <2>1. CASE call = "getblockchaininfo"
    BY <1>2, <1>3, <2>1 DEF Answer
  <2>2. CASE call # "getblockchaininfo"
    BY <1>1, <1>3, <1>4, <1>8, <2>2 DEF SummaryIsCurrent
  <2> QED BY <2>1, <2>2
<1> QED BY <1>5, <1>7, <1>8 DEF SummaryIsCurrent

LEMMA LoadSummary ==
  ASSUME IInv, SummaryIsCurrent, NEW r \in Request, LoadDone(r)
  PROVE  SummaryIsCurrent'
<1>1. PICK p : p = req[r]
  OBVIOUS
<1>2. p \in LoadingState /\ p.phase = "loading" /\ DOMAIN p.got = Calls(KindOf(p.key))
  BY <1>1, RequestFacts DEF IInv, LoadDone
<1>3. PICK e : e = [key |-> p.key, val |-> p.got, age |-> 0, at |-> p.at, old |-> p.old,
                    raced |-> p.raced]
  OBVIOUS
<1>4. e \in Entry /\ e.key = p.key /\ e.val = p.got /\ e.raced = p.raced
  BY <1>2, <1>3 DEF Entry, LoadingState
<1>5. /\ Range(Store(e)["tip"]) \subseteq Range(cache["tip"]) \cup {e}
      /\ "tip" # KindOf(e.key) => Store(e)["tip"] = cache["tip"]
  BY <1>2, <1>4, StoreFacts, TipKind DEF IInv, Slots
<1>6. tip' = tip /\ cache' = Store(e)
  BY <1>1, <1>3 DEF LoadDone, node
<1>7. \A q \in Request : req'[q].phase = "loading" => req'[q] = req[q]
  <2>1. req'[r] = Served(p.key, p.seen, p.got, p.at, p.old)
        /\ \A q \in Request : q # r => req'[q] = req[q]
    BY <1>1 DEF LoadDone, IInv, Types
  <2>2. req'[r].phase = "served"
    BY <2>1 DEF Served
  <2> QED BY <2>1, <2>2
<1>8. KindOf(e.key) = "tip" => e.raced \/ e.val["getblockchaininfo"] = tip
  <2> SUFFICES ASSUME KindOf(p.key) = "tip", ~p.raced PROVE p.got["getblockchaininfo"] = tip
    BY <1>4
  <2>1. p.key = "tip" /\ "getblockchaininfo" \in DOMAIN p.got
    BY <1>2, TipKind DEF LoadingState
  <2> QED BY <1>1, <1>2, <2>1 DEF SummaryIsCurrent
<1>9. \A x \in Range(cache'["tip"]) : x.raced \/ x.val["getblockchaininfo"] = tip
  BY <1>5, <1>6, <1>8 DEF SummaryIsCurrent
<1> QED BY <1>6, <1>7, <1>9 DEF SummaryIsCurrent

LEMMA TickSummary == ASSUME IInv, SummaryIsCurrent, Tick PROVE SummaryIsCurrent'
<1>1. cache' = AgedCache /\ tip' = tip
  BY DEF Tick, AgedCache, node
<1>2. ASSUME NEW x \in Range(cache'["tip"]) PROVE x.raced \/ x.val["getblockchaininfo"] = tip
  <2>1. PICK e \in Range(cache["tip"]) : x = Aged(e)
    BY <1>1, TickFacts, TipKind DEF IInv, Slots
  <2>2. e \in Entry
    BY CacheAt, TipKind DEF IInv, Slots
  <2> QED BY <2>1, <2>2, AgedEntry DEF SummaryIsCurrent
<1>3. ASSUME NEW r \in Request, req'[r].phase = "loading"
      PROVE  /\ req[r].phase = "loading" /\ req'[r].key = req[r].key
             /\ req'[r].raced = req[r].raced /\ req'[r].got = req[r].got
  <2>1. req'[r] = IF req[r].phase # "loading" THEN req[r]
                  ELSE [req[r] EXCEPT !.clock = @ + 1,
                                      !.old = Capped(@, OldLimit(KindOf(req[r].key)))]
    BY DEF Tick
  <2>2. CASE req[r].phase # "loading"
    BY <1>3, <2>1, <2>2
  <2>3. CASE req[r].phase = "loading"
    <3>1. PICK p : p = req[r]
      OBVIOUS
    <3>2. p \in LoadingState
      BY <2>3, <3>1, RequestFacts DEF IInv
    <3>3. PICK n : n = p.clock + 1
      OBVIOUS
    <3>4. PICK o : o = Capped(p.old, OldLimit(KindOf(p.key)))
      OBVIOUS
    <3>5. req'[r] = [p EXCEPT !.clock = n, !.old = o]
      BY <2>1, <2>3, <3>1, <3>3, <3>4
    <3> QED BY <2>3, <3>1, <3>2, <3>5 DEF LoadingState
  <2> QED BY <2>2, <2>3
<1> QED BY <1>1, <1>2, <1>3 DEF SummaryIsCurrent

\* A transaction event invalidates no summary.
LEMMA TxSummary == ASSUME IInv, SummaryIsCurrent, ReceiveTx PROVE SummaryIsCurrent'
<1>1. PICK m : m = Head(feed["rawtx"])
  OBVIOUS
<1>2. tip' = tip /\ Invalidate(ConcernedByTx(m.id), ChangedByTx(m.id), m.at)
  BY <1>1 DEF ReceiveTx, node
<1>3. m.id \in Tx
  <2>1. feed' = [feed EXCEPT !["rawtx"] = Tail(@)] /\ Reads("rawtx") /\ "rawtx" \in Topics
    BY DEF ReceiveTx, Topics
  <2>2. \E j \in DOMAIN feed["rawtx"] : m = feed["rawtx"][j]
    BY <1>1, <2>1, Taken
  <2> QED BY <2>2 DEF IInv, Announced
<1>4. Range(cache'["tip"]) \subseteq Range(cache["tip"])
  <2>1. PICK ks : ks = ConcernedByTx(m.id)
    OBVIOUS
  <2>2. \A j, k \in ks : KindOf(j) = KindOf(k) => j = k
    BY <1>3, <2>1, TxConcerns
  <2>3. Range(Without(ks)["tip"]) = {e \in Range(cache["tip"]) : e.key \notin ks}
    BY <2>2, WithoutFacts, TipKind DEF IInv, Slots
  <2>4. cache' = Without(ks)
    BY <1>2, <2>1 DEF Invalidate
  <2> QED BY <2>3, <2>4
<1>5. ASSUME NEW r \in Request, req'[r].phase = "loading"
      PROVE  /\ req[r].phase = "loading" /\ req'[r].key = req[r].key
             /\ req'[r].raced \/ req'[r] = req[r]
  <2>1. CASE req'[r] = req[r]
    BY <1>5, <2>1
  <2>2. CASE req[r].phase = "loading" /\ req'[r] = [req[r] EXCEPT !.raced = TRUE]
    <3>1. PICK p : p = req[r]
      OBVIOUS
    <3>2. p \in LoadingState
      BY <2>2, <3>1, RequestFacts DEF IInv
    <3>3. req'[r] = [p EXCEPT !.raced = TRUE]
      BY <2>2, <3>1
    <3> QED BY <2>2, <3>1, <3>2, <3>3 DEF LoadingState
  <2> QED BY <1>2, <2>1, <2>2 DEF Invalidate
<1> QED BY <1>2, <1>4, <1>5 DEF SummaryIsCurrent

--------------------------------------------------------------------------------
(* Every step keeps News. *)

\* A step that announces no block and handles none.
LEMMA NoNews ==
  ASSUME News, UNCHANGED <<tip, lastBlock>>, feed'["rawblock"] = feed["rawblock"],
         reading' \subseteq reading, ~lost' => ~lost,
         SummaryIsCurrent => SummaryIsCurrent'
  PROVE  News'
BY DEF News, Blocks, PriorBlock, LatestBlock

LEMMA SameSummary ==
  ASSUME SummaryIsCurrent, UNCHANGED <<tip, cache, req>>
  PROVE  SummaryIsCurrent'
BY DEF SummaryIsCurrent

LEMMA EndSummary ==
  ASSUME IInv, SummaryIsCurrent, NEW r \in Request, LoadFails(r) \/ Respond(r)
  PROVE  SummaryIsCurrent'
<1>1. UNCHANGED <<tip, cache>> /\ req' = [req EXCEPT ![r] = Idle]
  BY DEF LoadFails, Respond, node
<1>2. \A q \in Request : req'[q].phase = "loading" => req'[q] = req[q]
  BY <1>1 DEF IInv, Types, Idle
<1> QED BY <1>1, <1>2 DEF SummaryIsCurrent

LEMMA NewBlockNews ==
  ASSUME IInv, News, NEW b \in Block, NEW confirmed \in SUBSET pool, NewBlock(b, confirmed)
  PROVE  News'
<1>1. /\ tip' = b /\ UNCHANGED <<reading, lastBlock>> /\ b # tip /\ b # NoBlock
  <2>1. tip \in Ancestors(tip)
    BY DEF Ancestors, IInv, Types
  <2> QED BY <2>1, KeysAssumption DEF NewBlock, listener, NoBlock
<1>2. PICK m : m = Announcement(b)
  OBVIOUS
<1>3. m.id = b /\ m \in Message
  BY <1>2, Bounds DEF Announcement, Message, IInv, Types
<1>4. SUFFICES ASSUME ~lost', "rawblock" \in reading
      PROVE  /\ (\A i \in DOMAIN Blocks : Blocks[i].id # PriorBlock(i))'
             /\ LatestBlock' = tip' /\ Blocks' # <<>>
  BY <1>1 DEF News
<1>5. ~lost /\ feed' = [feed EXCEPT !["rawblock"] = @ \o <<m>>]
  BY <1>2, <1>4 DEF NewBlock, Publish
<1>6. PICK s : s = Blocks
  OBVIOUS
<1>7. PICK t : t = Append(s, m)
  OBVIOUS
<1>8. /\ s \in Seq(Message) /\ Len(s) \in Nat /\ DOMAIN s = 1..Len(s) /\ (s = <<>> <=> Len(s) = 0)
  BY <1>6, BlocksFacts DEF IInv
<1>9. /\ Len(t) = Len(s) + 1 /\ DOMAIN t = 1..(Len(s) + 1) /\ t \in Seq(Message)
      /\ t[Len(s) + 1] = m /\ \A i \in 1..Len(s) : t[i] = s[i]
  BY <1>3, <1>7, <1>8, AppendProperties, LenProperties
<1>10. Blocks' = t
  <2>1. Append(s, m) = s \o <<m>>
    BY <1>3, <1>8, AppendIsConcat
  <2> QED BY <1>5, <1>6, <1>7, <2>1 DEF Blocks, IInv, Types, Topics
<1>11. t # <<>> /\ t[Len(t)].id = b
  BY <1>3, <1>8, <1>9, EmptySeq
<1>12. LatestBlock' = b
  BY <1>10, <1>11 DEF LatestBlock
<1>13. LatestBlock # b
  BY <1>1, <1>4, <1>5 DEF News
<1>14. ASSUME NEW i \in DOMAIN t PROVE t[i].id # IF i = 1 THEN lastBlock ELSE t[i - 1].id
  <2>1. CASE i \in 1..Len(s)
    <3>1. s[i].id # IF i = 1 THEN lastBlock ELSE s[i - 1].id
      BY <1>4, <1>5, <1>6, <1>8, <2>1 DEF News, PriorBlock
    <3>2. i # 1 => i - 1 \in 1..Len(s)
      BY <1>8, <2>1
    <3> QED BY <1>9, <2>1, <3>1, <3>2
  <2>2. CASE i = Len(s) + 1
    <3>1. CASE Len(s) = 0
      BY <1>3, <1>6, <1>8, <1>9, <1>13, <2>2, <3>1 DEF LatestBlock
    <3>2. CASE Len(s) # 0
      <4>1. i # 1 /\ i - 1 = Len(s) /\ Len(s) \in 1..Len(s) /\ s # <<>>
        BY <1>8, <2>2, <3>2
      <4>2. LatestBlock = s[Len(s)].id
        BY <1>6, <4>1 DEF LatestBlock
      <4>3. t[i].id = b /\ t[i - 1].id = s[Len(s)].id
        BY <1>3, <1>9, <2>2, <4>1
      <4> QED BY <1>13, <4>1, <4>2, <4>3
    <3> QED BY <3>1, <3>2
  <2> QED BY <1>8, <1>9, <2>1, <2>2
<1>15. (\A i \in DOMAIN Blocks : Blocks[i].id # PriorBlock(i))'
  BY <1>1, <1>10, <1>14 DEF PriorBlock
<1> QED BY <1>1, <1>10, <1>11, <1>12, <1>15

LEMMA NewTxNews == ASSUME IInv, News, NEW x \in Tx, NewTx(x) PROVE News'
<1>1. /\ UNCHANGED <<tip, lastBlock, reading, cache, req>>
      /\ feed'["rawblock"] = feed["rawblock"] /\ (~lost' => ~lost)
  BY DEF NewTx, Publish, listener, IInv, Types, Topics
<1>2. SummaryIsCurrent => SummaryIsCurrent'
  BY <1>1, SameSummary
<1> QED BY <1>1, <1>2, NoNews

\* The block that is read is not the last one handled, so it is handled.
LEMMA ReceiveBlockNews == ASSUME IInv, News, ReceiveBlock PROVE News'
<1> SUFFICES ASSUME ~lost, "rawblock" \in reading
             PROVE  /\ (\A i \in DOMAIN Blocks : Blocks[i].id # PriorBlock(i))'
                    /\ (LatestBlock = tip \/ (LatestBlock = NoBlock /\ tip = Genesis))'
                    /\ SummaryIsCurrent'
  BY DEF News, ReceiveBlock
<1>1. PICK s : s = Blocks
  OBVIOUS
<1>2. PICK t : t = Tail(s)
  OBVIOUS
<1>3. PICK m : m = Head(feed["rawblock"])
  OBVIOUS
<1>4. /\ s \in Seq(Message) /\ Len(s) \in Nat /\ DOMAIN s = 1..Len(s) /\ s # <<>> /\ Len(s) >= 1
  BY <1>1, BlocksFacts DEF IInv, ReceiveBlock, Reads, Blocks
<1>5. /\ t \in Seq(Message) /\ Len(t) = Len(s) - 1 /\ \A i \in 1..(Len(s) - 1) : t[i] = s[i + 1]
      /\ m = s[1]
  BY <1>1, <1>2, <1>3, <1>4, HeadTailProperties DEF Blocks
<1>6. DOMAIN t = 1..(Len(s) - 1) /\ (t = <<>> <=> Len(t) = 0)
  BY <1>4, <1>5, LenProperties, EmptySeq
<1>7. Blocks' = t
  BY <1>1, <1>2 DEF Blocks, ReceiveBlock, IInv, Types, Topics
<1>8. \A i \in 1..Len(s) : s[i].id # IF i = 1 THEN lastBlock ELSE s[i - 1].id
  BY <1>1, <1>4 DEF News, PriorBlock
<1>9. m.id # lastBlock
  BY <1>4, <1>5, <1>8
<1>10. ~Repeated(m.id)
  BY <1>9 DEF Repeated
<1>11. /\ lastBlock' = m.id /\ UNCHANGED <<tip, reading>>
       /\ Invalidate(ConcernedByBlock(m.id), ChangedByBlock(m.id), m.at)
  BY <1>3, <1>10 DEF ReceiveBlock, node
<1>12. (\A i \in DOMAIN Blocks : Blocks[i].id # PriorBlock(i))'
  <2>1. ASSUME NEW i \in DOMAIN t PROVE t[i].id # IF i = 1 THEN m.id ELSE t[i - 1].id
    <3>1. i + 1 \in 1..Len(s) /\ i + 1 # 1 /\ i + 1 - 1 = i /\ i \in 1..Len(s)
      BY <1>4, <1>6
    <3>2. t[i] = s[i + 1] /\ s[i + 1].id # s[i].id
      BY <1>5, <1>6, <1>8, <3>1
    <3>3. CASE i = 1
      BY <1>5, <3>2, <3>3
    <3>4. CASE i # 1
      <4>1. i - 1 \in 1..(Len(s) - 1) /\ i - 1 + 1 = i
        BY <1>4, <1>6, <3>4
      <4>2. t[i - 1] = s[i]
        BY <1>5, <4>1
      <4> QED BY <3>2, <3>4, <4>2
    <3> QED BY <3>3, <3>4
  <2> QED BY <1>7, <1>11, <2>1 DEF PriorBlock
<1>13. LatestBlock' = LatestBlock
  <2>1. LatestBlock = s[Len(s)].id
    BY <1>1, <1>4 DEF LatestBlock
  <2>2. CASE Len(s) = 1
    BY <1>5, <1>6, <1>7, <1>11, <2>1, <2>2 DEF LatestBlock
  <2>3. CASE Len(s) # 1
    <3>1. Len(s) - 1 \in 1..(Len(s) - 1) /\ Len(s) - 1 + 1 = Len(s) /\ t # <<>>
      BY <1>4, <1>5, <1>6, <2>3
    <3>2. t[Len(t)] = s[Len(s)]
      BY <1>5, <3>1
    <3> QED BY <1>7, <2>1, <3>1, <3>2 DEF LatestBlock
  <2> QED BY <2>2, <2>3
<1>14. SummaryIsCurrent'
  <2>0. m.id \in Block
    BY <1>1, <1>4, <1>5 DEF IInv, Announced, Blocks
  <2>1. PICK ks : ks = ConcernedByBlock(m.id)
    OBVIOUS
  <2>2. (\A j, k \in ks : KindOf(j) = KindOf(k) => j = k) /\ "tip" \in ks
    BY <2>0, <2>1, BlockConcerns
  <2>3. Range(Without(ks)["tip"]) = {e \in Range(cache["tip"]) : e.key \notin ks}
    BY <2>2, WithoutFacts, TipKind DEF IInv, Slots
  <2>4. cache' = Without(ks)
    BY <1>11, <2>1 DEF Invalidate
  <2>5. ASSUME NEW e \in Range(cache["tip"]) PROVE e.key = "tip"
    BY TipKind, CacheAt DEF IInv, Slots, SlotsOf, Entry
  <2>6. Range(cache'["tip"]) = {}
    BY <2>2, <2>3, <2>4, <2>5
  <2>7. ASSUME NEW r \in Request, req'[r].phase = "loading", req'[r].key = "tip"
        PROVE  req'[r].raced
    <3>1. req'[r] = IF req[r].phase = "loading" /\ req[r].key \in ks
                      THEN [req[r] EXCEPT !.raced = TRUE] ELSE req[r]
      BY <1>11, <2>1 DEF Invalidate
    <3>2. CASE req[r].phase = "loading"
      <4>1. PICK p : p = req[r]
        OBVIOUS
      <4>2. p \in LoadingState /\ p.phase = "loading"
        BY <3>2, <4>1, RequestFacts DEF IInv
      <4>3. req'[r] = IF p.key \in ks THEN [p EXCEPT !.raced = TRUE] ELSE p
        BY <3>1, <3>2, <4>1
      <4> QED BY <2>2, <2>7, <4>2, <4>3 DEF LoadingState
    <3>3. CASE req[r].phase # "loading"
      BY <2>7, <3>1, <3>3
    <3> QED BY <3>2, <3>3
  <2> QED BY <2>6, <2>7 DEF SummaryIsCurrent
<1> QED BY <1>11, <1>12, <1>13, <1>14 DEF News

LEMMA ReadersStopNews ==
  ASSUME News, StopListener \/ \E topic \in Topics : StreamError(topic)
  PROVE  News'
<1>1. /\ UNCHANGED <<tip, lastBlock, feed, cache, req>> /\ reading' \subseteq reading
      /\ (~lost' => ~lost)
  BY DEF StopListener, StreamError, node
<1>2. SummaryIsCurrent => SummaryIsCurrent'
  BY <1>1, SameSummary
<1> QED BY <1>1, <1>2, NoNews

LEMMA NextNews == ASSUME IInv, News, [Next]_vars PROVE News'
<1>1. CASE UNCHANGED vars
  <2>1. UNCHANGED <<tip, lastBlock, feed, cache, req, reading, lost>>
    BY <1>1 DEF vars, node, listener
  <2> QED BY <2>1, SameSummary, NoNews
<1>2. CASE Tick
  <2>1. UNCHANGED <<tip, lastBlock, feed, reading, lost>>
    BY <1>2 DEF Tick, node
  <2> QED BY <1>2, <2>1, TickSummary, NoNews
<1>3. CASE ReceiveTx
  <2>1. /\ UNCHANGED <<tip, lastBlock, reading, lost>> /\ feed'["rawblock"] = feed["rawblock"]
    BY <1>3 DEF ReceiveTx, node, listener, IInv, Types, Topics
  <2> QED BY <1>3, <2>1, TxSummary, NoNews
<1>4. ASSUME NEW r \in Request, Progress(r) \/ \E k \in Page : Fetch(r, k) PROVE News'
  <2>1. UNCHANGED <<tip, lastBlock, feed, reading, lost>>
    BY <1>4 DEF Progress, NodeAnswers, LoadDone, LoadFails, Respond, Fetch, node, listener
  <2>2. SummaryIsCurrent => SummaryIsCurrent'
    BY <1>4, FetchSummary, AnswerSummary, LoadSummary, EndSummary DEF Progress
  <2> QED BY <2>1, <2>2, NoNews
<1> QED BY <1>1, <1>2, <1>3, <1>4, NewBlockNews, NewTxNews, ReceiveBlockNews, ReadersStopNews
        DEF Next

LEMMA InitNews == Init => News
<1> SUFFICES ASSUME Init PROVE News
  OBVIOUS
<1>1. Blocks = <<>> /\ lastBlock = NoBlock /\ tip = Genesis
  BY DEF Init, Blocks, Topics
<1>2. DOMAIN <<>> = {}
  OBVIOUS
<1>3. Range(cache["tip"]) = {} /\ \A r \in Request : req[r].phase = "idle"
  BY <1>2, TipKind DEF Init, Range, Idle
<1> QED BY <1>1, <1>2, <1>3 DEF News, LatestBlock, SummaryIsCurrent

\* A listener that lost nothing ends at the node's tip, and so does the cached summary unless
\* its load raced the announcement: the filter of repeated hashes swallows no
\* reorganisation, in any tree of blocks and however they are announced
\* (zmqListener.js:110-119).
THEOREM NothingMissed == Spec => []NothingMissedNothingStale
<1>1. ASSUME IInv, News PROVE NothingMissedNothingStale
  <2>1. tip # NoBlock
    <3>1. tip \in Block
      BY <1>1 DEF IInv, Types
    <3>2. NoBlock \notin Block
      BY KeysAssumption DEF NoBlock
    <3> QED BY <3>1, <3>2
  <2> QED BY <1>1, <2>1
          DEF News, Blocks, LatestBlock, SummaryIsCurrent, NothingMissedNothingStale
<1>2. IInv /\ News /\ [Next]_vars => News'
  BY NextNews
<1> QED BY <1>1, <1>2, InitNews, Invariance, PTL DEF Spec
================================================================================

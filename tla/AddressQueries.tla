---------------------------- MODULE AddressQueries ----------------------------
(***************************************************************************)
(* The address and xpub pages (getAddressDetails, getXpubDetails and what  *)
(* they call in src/services/addressExplorerService.js, the query methods  *)
(* of src/infra/addressIndexer.js) while the indexer commits blocks.  A    *)
(* commit is atomic; a page is put together from several reads, with       *)
(* awaits between them or in parallel.  Every coin is worth 1, so that a   *)
(* summary's balance is a number of coins, and an address has a summary *)
(* from its first coin on.  A page of history comes from one iterator,     *)
(* which LevelDB serves from a snapshot; PageWalk has its paging.          *)
(*                                                                         *)
(* Definitions ending in _Fault are plausible mistakes in the definition   *)
(* that follows them.                                                      *)
(***************************************************************************)
EXTENDS Integers, Sequences, FiniteSets

CONSTANTS
  Coin,        \* outputs
  Networks,    \* XPUB_NETWORK_CANDIDATES, in order
  Derived,     \* per network, the addresses derived from the key: both branches
  MaxCommits   \* bound: blocks committed

Network == {Networks[i] : i \in DOMAIN Networks}
Address == UNION {Derived[n] : n \in Network}

Nobody == "nobody"

ASSUME CoinsAssumption == IsFiniteSet(Coin) /\ MaxCommits \in Nat
ASSUME NetworksAssumption == Networks \in Seq(Network)
ASSUME DerivedAssumption ==
  /\ \A n \in Network : Derived[n] # {}
  /\ \A m, n \in Network : m # n => Derived[m] \cap Derived[n] = {}
ASSUME SubjectAssumption ==
  Address \cap Network = {} /\ Nobody \notin Address \cup Network

VARIABLES
  owner,     \* the index: who has each coin
  known,     \* the index: addresses that have a summary
  commits,   \* blocks committed
  pc,        \* what the request waits for, or how it ended
  subject,   \* the address, or the network that was chosen
  decodes,   \* the networks for which the key can be decoded, in order
  tried,     \* how many of them have been tried
  pending,   \* addresses whose summary is being read
  balance,   \* the balances that were read, NoSummary where there is no summary
  coins,     \* the unspent outputs that were read
  had        \* history: the index's balances at each moment of the request

indexVars == <<owner, known, commits>>
requestVars == <<pc, subject, decodes, tried, pending, balance, coins, had>>
addressVars == <<indexVars, requestVars>>

NoSummary == -1

CoinsOf(a) == {c \in Coin : owner[c] = a}
Balances == [a \in Address |-> IF a \in known THEN Cardinality(CoinsOf(a)) ELSE NoSummary]

AddressInit ==
  /\ owner = [c \in Coin |-> Nobody] /\ known = {} /\ commits = 0
  /\ pc = "idle" /\ subject = Nobody /\ decodes = <<>> /\ tried = 0
  /\ pending = {} /\ balance = [a \in Address |-> NoSummary] /\ coins = {} /\ had = {}

\* Rows are written for outputs that pay an address.
KnownAfter(a) == known \cup ({a} \ {Nobody})

\* db.batch: coins change hands, to an address of this key or away from all of them.
Commit ==
  /\ commits < MaxCommits /\ commits' = commits + 1
  /\ \E c \in Coin, a \in Address \cup {Nobody} :
       /\ a # owner[c] /\ owner' = [owner EXCEPT ![c] = a]
       /\ known' = KnownAfter(a)
  /\ had' = IF pc = "idle" THEN {} ELSE had \cup {Balances'}
  /\ UNCHANGED <<pc, subject, decodes, tried, pending, balance, coins>>

--------------------------------------------------------------------------------
(* getAddressDetails *)

AskAddress(a) ==
  /\ pc = "idle" /\ pc' = "summary" /\ subject' = a /\ had' = {Balances}
  /\ UNCHANGED <<indexVars, decodes, tried, pending, balance, coins>>

ReadSummary ==
  /\ pc = "summary"
  /\ pc' = IF subject \in known THEN "history" ELSE "notFound"
  /\ balance' = [balance EXCEPT ![subject] = Balances[subject]]
  /\ UNCHANGED <<indexVars, subject, decodes, tried, pending, coins, had>>

ReadHistory ==
  /\ pc = "history" /\ pc' = "utxos"
  /\ UNCHANGED <<indexVars, subject, decodes, tried, pending, balance, coins, had>>

\* getAddressUtxos: one iterator over the address's rows.
Utxos_AllFault == {c \in Coin : owner[c] # Nobody}
Utxos == CoinsOf(subject)

ReadUtxos ==
  /\ pc = "utxos" /\ pc' = "done"
  /\ coins' = Utxos
  /\ UNCHANGED <<indexVars, subject, decodes, tried, pending, balance, had>>

--------------------------------------------------------------------------------
(* getXpubDetails *)

AskXpub(s) ==
  /\ pc = "idle" /\ pc' = "next" /\ decodes' = s /\ had' = {Balances}
  /\ UNCHANGED <<indexVars, subject, tried, pending, balance, coins>>

\* Both branches of the key are read.
Reads(n) ==
  /\ pending' = Derived[n]
  /\ balance' = [a \in Address |-> NoSummary]

Choose(n) == pc' = "totals" /\ subject' = n /\ Reads(n)

\* deriveAddressesFromXpub: the next network, then the first one.
Fallback == decodes[1]

NextCandidate ==
  /\ pc = "next"
  /\ \/ /\ tried < Len(decodes) /\ tried' = tried + 1
        /\ pc' = "probe" /\ Reads(decodes[tried']) /\ UNCHANGED subject
     \/ /\ tried = Len(decodes) /\ tried > 0
        /\ Choose(Fallback) /\ UNCHANGED tried
     \/ /\ decodes = <<>> /\ pc' = "badRequest"
        /\ UNCHANGED <<subject, tried, pending, balance>>
  /\ UNCHANGED <<indexVars, decodes, coins, had>>

\* Promise.all over the summaries: they are read in any order.
ReadOne(a) ==
  /\ pc \in {"probe", "totals"} /\ a \in pending
  /\ pending' = pending \ {a}
  /\ balance' = [balance EXCEPT ![a] = Balances[a]]
  /\ UNCHANGED <<indexVars, pc, subject, decodes, tried, coins, had>>

\* The first network one of whose addresses has a summary is taken.
HasHistory == \E a \in Address : balance[a] # NoSummary

Probed ==
  /\ pc = "probe" /\ pending = {}
  /\ IF HasHistory
       THEN Choose(decodes[tried])
       ELSE pc' = "next" /\ UNCHANGED <<subject, pending, balance>>
  /\ UNCHANGED <<indexVars, decodes, tried, coins, had>>

Totalled ==
  /\ pc = "totals" /\ pending = {} /\ pc' = "done"
  /\ UNCHANGED <<indexVars, subject, decodes, tried, pending, balance, coins, had>>

Respond ==
  /\ pc \in {"done", "notFound", "badRequest"} /\ pc' = "idle"
  /\ subject' = Nobody /\ decodes' = <<>> /\ tried' = 0 /\ pending' = {}
  /\ balance' = [a \in Address |-> NoSummary] /\ coins' = {} /\ had' = {}
  /\ UNCHANGED indexVars

Serve ==
  \/ ReadSummary \/ ReadHistory \/ ReadUtxos \/ NextCandidate \/ Probed \/ Totalled
  \/ \E a \in Address : ReadOne(a)

\* The candidates the key decodes for are a subsequence of the list, named by their places.
Places ==
  {at \in UNION {[1..n -> DOMAIN Networks] : n \in 0..Len(Networks)} :
     \A i, j \in DOMAIN at : i < j => at[i] < at[j]}
Decodable == {[i \in DOMAIN at |-> Networks[at[i]]] : at \in Places}

AddressNext ==
  \/ Commit \/ Serve \/ Respond
  \/ \E a \in Address : AskAddress(a)
  \/ \E s \in Decodable : AskXpub(s)

AddressSpec == AddressInit /\ [][AddressNext]_addressVars

--------------------------------------------------------------------------------
(* Properties. *)

Statuses ==
  {"idle", "summary", "history", "utxos", "next", "probe", "totals", "done", "notFound",
   "badRequest"}

AddressTypeOK ==
  /\ owner \in [Coin -> Address \cup {Nobody}] /\ known \subseteq Address
  /\ pc \in Statuses
  /\ subject \in Address \cup Network \cup {Nobody}
  /\ decodes \in Decodable /\ tried \in 0..Len(decodes)
  /\ pending \subseteq Address
  /\ balance \in [Address -> NoSummary..Cardinality(Coin)] /\ coins \subseteq Coin

XpubDone == pc = "done" /\ subject \in Network
AddressDone == pc = "done" /\ subject \in Address

Value(b) == IF b = NoSummary THEN 0 ELSE b

\* The sum of the balances, each one laid out beside its address and all of them counted.
TotalOf(f, A) == Cardinality({cell \in A \X (1..Cardinality(Coin)) : cell[2] <= f[cell[1]]})

\* However the reads of a request and the commits interleave, every line of a page shows
\* what the index held at some moment of the request (addressExplorerService.js:104,
\* 126-150, addressIndexer.js:1325-1335).
EveryLineWasTrue ==
  /\ XpubDone => \A a \in Derived[subject] : \E h \in had : balance[a] = h[a]
  /\ AddressDone => \E h \in had : Cardinality(coins) = Value(h[subject])

\* When nothing is committed during the request the page adds up
\* (addressExplorerService.js:40-60, 131-160).
QuietPagesAgree ==
  Cardinality(had) = 1 =>
    /\ AddressDone => balance[subject] = Cardinality(coins)
    /\ XpubDone => TotalOf(balance, Derived[subject]) = Cardinality({c \in Coin : owner[c] \in Derived[subject]})

\* The network of an xpub page has a history that the ones before it lacked, or it is the
\* first and none had any; a moved-out wallet counts as history. Only a key that cannot be
\* decoded is refused (addressExplorerService.js:84-116).
Unused(n) == \E h \in had : \A a \in Derived[n] : h[a] = NoSummary
Used(n) == \E h \in had : \E a \in Derived[n] : h[a] # NoSummary

NetworkIsRight ==
  /\ XpubDone => \E i \in DOMAIN decodes :
       /\ decodes[i] = subject
       /\ \/ Used(subject) /\ \A j \in 1..(i - 1) : Unused(decodes[j])
          \/ i = 1 /\ \A j \in DOMAIN decodes : Unused(decodes[j])
  /\ pc = "badRequest" => decodes = <<>>

\* What a page of an address or of a key shows.
QueriesInvariant ==
  /\ AddressTypeOK
  /\ EveryLineWasTrue
  /\ QuietPagesAgree
  /\ NetworkIsRight

\* Claimed by docs/RUNBOOK.md:107, "Xpub views ... aggregate balances from the index": the
\* total is one the index had.
TotalWasTrue ==
  XpubDone => \E h \in had : TotalOf(balance, Derived[subject]) = TotalOf(h, Derived[subject])

\* Claimed by docs/PRD.md:58, "Render: balance, totals, ... UTXO list": they are of one page.
BalanceMatchesUtxos == AddressDone => balance[subject] = Cardinality(coins)
================================================================================

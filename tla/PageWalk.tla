------------------------------- MODULE PageWalk -------------------------------
(***************************************************************************)
(* A reader walks the pages of a list: the transactions of a block, the    *)
(* mempool, the history of an address (getBlockData in                     *)
(* src/services/bitcoinService.js, getMempoolViewModel in                  *)
(* src/services/mempoolService.js, getAddressTransactions in               *)
(* src/infra/addressIndexer.js, the routes and the links of the views).    *)
(* The routes take any number for a page, fractions too: page numbers are  *)
(* counted in halves here, so that page 1 is 2.  A block does not change;  *)
(* the mempool's snapshot and an address's history, both newest first, do. *)
(*                                                                         *)
(* Definitions ending in _Fault are plausible mistakes in the definition   *)
(* that follows them.                                                      *)
(***************************************************************************)
EXTENDS Integers, Sequences, SequencesExt

CONSTANTS
  DefaultSize,   \* BLOCK_PAGE_SIZE, MEMPOOL_PAGE_SIZE and the default of pageSize
  Sizes,         \* values of pageSize, which the address page takes
  MaxItems,      \* bound: how many items there ever are
  MaxHalves      \* bound: the number of a page that is asked for, in halves

ASSUME PagesAssumption ==
  /\ DefaultSize \in Sizes /\ Sizes \subseteq Nat \ {0}
  /\ MaxItems \in Nat /\ MaxHalves \in Nat

Views == {"block", "mempool", "address"}
One == 2    \* page 1

VARIABLES
  view,      \* which list
  items,     \* the list now
  fresh,     \* items there have been
  asked,     \* what the reader typed: a page and a size
  page,      \* the page he is shown, 0 before the first
  count,     \* the length of the list when it was shown
  shown,     \* its rows
  more,      \* it has a Next link
  seen,      \* history: the rows he saw since he opened the list
  began,     \* history: the list when he opened it
  straight,  \* history: he opened page 1 and only followed Next since
  moved      \* history: the list changed since he opened it

listVars == <<view, items, fresh>>
readerVars == <<asked, page, count, shown, more, seen, began, straight>>
pageVars == <<listVars, readerVars, moved>>

AtMost(a, b) == IF a < b THEN a ELSE b
AtLeast(a, b) == IF a > b THEN a ELSE b

PagesInit ==
  /\ view \in Views
  /\ \E n \in 0..(MaxItems - 1) : fresh = n /\ items = [i \in 1..n |-> n + 1 - i]
  /\ asked = [page |-> One, size |-> DefaultSize]
  /\ page = 0 /\ count = 0 /\ shown = <<>> /\ more = FALSE
  /\ seen = <<>> /\ began = <<>> /\ straight = FALSE /\ moved = FALSE

--------------------------------------------------------------------------------
(* The list changes. *)

\* A transaction enters the mempool, or a block adds a row to the history.
Arrives ==
  /\ view # "block" /\ fresh < MaxItems
  /\ fresh' = fresh + 1 /\ items' = <<fresh'>> \o items
  /\ moved' = TRUE
  /\ UNCHANGED <<view, readerVars>>

\* A transaction is mined.
Leaves ==
  /\ view = "mempool"
  /\ \E i \in DOMAIN items : items' = RemoveAt(items, i)
  /\ moved' = TRUE
  /\ UNCHANGED <<view, fresh, readerVars>>

--------------------------------------------------------------------------------
(* A page *)

\* At least one, the last of them perhaps partly filled.
TotalPages == AtLeast(1, (Len(items) + DefaultSize - 1) \div DefaultSize)

\* Number(req.query.page) || 1
Parsed(p) == IF p = 0 THEN One ELSE p

SafePage(p) ==
  IF view = "address" THEN AtLeast(One, p) ELSE AtMost(AtLeast(One, p), 2 * TotalPages)

\* (page - 1) * pageSize, rounded down by slice and by the iterator's count alike.
Skipped_FromZeroFault(p, size) == (p * size) \div 2
Skipped(p, size) == ((p - One) * size) \div 2

Taken(p, size) == SubSeq(items, Skipped(p, size) + 1, AtMost(Len(items), Skipped(p, size) + size))

\* totalRows of an address: the iterator stops one row after the page.
Counted(p, size) == AtMost(Len(items), Skipped(p, size) + size + 1)

\* The view's condition for a Next link.
HasNext(p, size) ==
  IF view = "address" THEN p * size < 2 * Counted(p, size) ELSE p < 2 * TotalPages

Show(p, size) ==
  LET q == SafePage(Parsed(p))
  IN  /\ page' = q /\ shown' = Taken(q, size) /\ more' = HasNext(q, size)
      /\ count' = Len(items)
      /\ UNCHANGED listVars

SizesOf(v) == IF v = "address" THEN Sizes ELSE {DefaultSize}

Open(p, size) ==
  /\ size \in SizesOf(view)
  /\ Show(p, size) /\ asked' = [page |-> p, size |-> size]
  /\ seen' = shown' /\ began' = items /\ straight' = (page' = One)
  /\ moved' = FALSE

\* The links name a page and nothing else.
FollowNext ==
  /\ more /\ Show(page + 2, DefaultSize)
  /\ seen' = IF straight THEN seen \o shown' ELSE seen
  /\ UNCHANGED <<asked, began, straight, moved>>

FollowPrevious ==
  /\ page > One /\ Show(page - 2, DefaultSize)
  /\ straight' = FALSE
  /\ UNCHANGED <<asked, seen, began, moved>>

PagesNext ==
  \/ Arrives \/ Leaves
  \/ \E p \in -1..MaxHalves, size \in Sizes : Open(p, size)
  \/ FollowNext \/ FollowPrevious

PagesSpec == PagesInit /\ [][PagesNext]_pageVars

--------------------------------------------------------------------------------
(* Properties. *)

PagesTypeOK ==
  /\ view \in Views /\ Range(items) \subseteq 1..MaxItems /\ fresh \in 0..MaxItems
  /\ page \in Nat /\ more \in BOOLEAN /\ straight \in BOOLEAN /\ moved \in BOOLEAN
  /\ Len(shown) <= AtLeast(DefaultSize, asked.size)
  /\ Range(seen) \subseteq 1..MaxItems

\* From page 1 to the page without a Next link: every row is seen once and in order, if
\* the list stays as it is (bitcoinService.js:115-120, mempoolService.js:138-143,
\* addressIndexer.js:1345-1358, views/*.njk).
WalkIsExact ==
  straight /\ ~more /\ ~moved /\ asked.size = DefaultSize => seen = items

\* A history that grows during the walk shows rows twice, but it hides none of those that
\* were there (addressIndexer.js:1341).
GrowthHidesNothing ==
  straight /\ ~more /\ view = "address" /\ asked.size = DefaultSize
    => Range(began) \subseteq Range(seen)

\* Whatever page of a block or of the mempool is asked for, also by a link that was
\* offered before the list became shorter: the page exists and is not empty.
PageExists ==
  page # 0 /\ view # "address" /\ count > 0 =>
    shown # <<>> /\ 2 * count > (page - One) * DefaultSize

\* The pages of every list.
PagesInvariant ==
  /\ PagesTypeOK
  /\ WalkIsExact
  /\ GrowthHidesNothing
  /\ PageExists

\* Claimed by docs/design/address-explorer.md:87, "recent transactions with pagination",
\* for a page size of the reader's choice too.
EverySizeWalks == straight /\ ~more /\ ~moved => seen = items
================================================================================

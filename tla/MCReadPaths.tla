------------------------------- MODULE MCReadPaths -------------------------------
(***************************************************************************)
(* What a browser gets of the explorer, pushes and pages, for TLC, side by *)
(* side: what a behaviour is about is chosen at its start and the other    *)
(* paths stay idle, so the state spaces add up instead of multiplying.     *)
(***************************************************************************)
EXTENDS WebsocketGateway, PageWalk, MempoolView, SearchRouting, IndexerStatus,
        AddressQueries

Paths == {"push", "pages", "mempool", "search", "status", "address"}

VARIABLE path    \* which of them

--------------------------------------------------------------------------------
(* The pages of a list. *)

NoList == view = "block" /\ items = <<>>

--------------------------------------------------------------------------------
(* The snapshot of the mempool. *)

\* Buckets [0, 1), [1, 2) and [2, infinity), laid out as the code's six.
ThreeBuckets == <<0, 1, 2>>

NoMempool == mempool = NoEntries

--------------------------------------------------------------------------------
(* A search. *)

NothingNamed == names = [h \in Hash |-> Nothing] /\ hash = CHOOSE h \in Hash : TRUE

--------------------------------------------------------------------------------
(* An address or xpub page: the key has two addresses on its first network and one on *)
(* its second. *)

CONSTANTS main, test, a1, a2, b1

TwoNetworks == <<main, test>>
TwoAndOne == [n \in {main, test} |-> IF n = main THEN {a1, a2} ELSE {b1}]

--------------------------------------------------------------------------------
otherVars == <<pageVars, mempoolVars, searchVars, statusVars, addressVars>>

ReadInit ==
  /\ path \in Paths
  /\ Init
  /\ path # "push" => own
  /\ path # "pages" => NoList
  /\ PagesInit
  /\ path # "mempool" => NoMempool
  /\ MempoolInit
  /\ path # "search" => NothingNamed
  /\ SearchInit
  /\ path # "status" => tip = 0 /\ last = None
  /\ StatusInit
  /\ AddressInit

Pushes == path = "push" /\ Next /\ UNCHANGED <<path, otherVars>>

ReadPages ==
  /\ path = "pages" /\ PagesNext
  /\ UNCHANGED <<path, vars, mempoolVars, searchVars, statusVars, addressVars>>

ReadMempool ==
  /\ path = "mempool" /\ MempoolNext
  /\ UNCHANGED <<path, vars, pageVars, searchVars, statusVars, addressVars>>

Searching ==
  /\ path = "search" /\ SearchNext
  /\ UNCHANGED <<path, vars, pageVars, mempoolVars, statusVars, addressVars>>

ReadStatus ==
  /\ path = "status" /\ StatusNext
  /\ UNCHANGED <<path, vars, pageVars, mempoolVars, searchVars, addressVars>>

ReadAddress ==
  /\ path = "address" /\ AddressNext
  /\ UNCHANGED <<path, vars, pageVars, mempoolVars, searchVars, statusVars>>

ReadNext == Pushes \/ ReadPages \/ ReadMempool \/ Searching \/ ReadStatus \/ ReadAddress

ReadSpec == ReadInit /\ [][ReadNext]_<<path, vars, otherVars>>
================================================================================

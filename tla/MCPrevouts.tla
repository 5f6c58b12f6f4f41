------------------------------- MODULE MCPrevouts -------------------------------
(***************************************************************************)
(* The prevout worker pool and the fetch that uses one, for TLC, side by   *)
(* side: what a behaviour is about is chosen at its start and the other    *)
(* stays idle, so the state spaces add up instead of multiplying.          *)
(***************************************************************************)
EXTENDS PrevoutWorkerPool, PrevoutFetch

CONSTANTS a, b, c    \* outpoints

VARIABLE part    \* "pool" or "fetch"

\* A coinbase, an output spent by two inputs' transactions, and one after it.
TwoTransactions == << <<Coinbase, a, b, c>>, <<a, b>> >>
OneTransaction == << <<a, Coinbase, b>>, <<c>> >>

--------------------------------------------------------------------------------
partVars == <<part, vars, fetchVars>>

PartsInit ==
  /\ part \in {"pool", "fetch"}
  /\ Init
  /\ part = "fetch" => workers = CHOOSE W \in SUBSET Worker : Cardinality(W) = Size
  /\ FetchInit
  /\ part = "pool" => parallel /\ cached = {}

PoolRuns == part = "pool" /\ Next /\ UNCHANGED <<part, fetchVars>>
FetchRuns == part = "fetch" /\ FetchNext /\ UNCHANGED <<part, vars>>

PartsNext == PoolRuns \/ FetchRuns

\* Each part has the fairness that its own module states.
PartsSpec ==
  /\ PartsInit /\ [][PartsNext]_partVars
  /\ \A w \in Worker :
       /\ WF_vars(part = "pool" /\ ThreadStarts(w))
       /\ WF_vars(part = "pool" /\ WorkerReplies(w))
       /\ WF_vars(part = "pool" /\ Handle(w))
  /\ WF_fetchVars(part = "fetch" /\ FetchStep)

--------------------------------------------------------------------------------
\* The fetch of a block ends (PrevoutFetch).
FetchEnds == part = "fetch" => BlockDone
================================================================================

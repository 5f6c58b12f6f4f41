---------------------------- MODULE MCExplorerCache ----------------------------
(* Instances of ExplorerCache for TLC. *)
EXTENDS ExplorerCache, TLC

CONSTANTS g, b1, b2

\* Two branches of one block each: the tip can move from one to the other and back.
Fork == [b \in {b1, b2} |-> g]

\* The summary and the mempool expire before blocks and transactions do.
ShortTTL == [kind \in Kinds |-> IF kind \in {"tip", "mempool"} THEN 1 ELSE 2]
Line == [b \in {b1} |-> g]
TickTTL == [kind \in Kinds |-> 1]

\* Transactions never expire.
SomeForever == [kind \in Kinds |-> IF kind = "tx" THEN 0 ELSE 1]

\* Requests are told apart by nothing but their name.
AnyRequest == Permutations(Request)

================================================================================

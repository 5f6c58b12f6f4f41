------------------------------ MODULE IndexStore ------------------------------
(***************************************************************************)
(* What the address indexer promises about its database: a durable log of  *)
(* applied blocks whose checkpoint always names the last one.  The log     *)
(* grows by one atomic batch at a time, either by a run of at most         *)
(* MaxBatch blocks that starts right above the checkpoint, or by a single  *)
(* announced block, about whose height nothing is promised.  Nothing is    *)
(* ever removed, and no crash is visible.                                  *)
(***************************************************************************)
EXTENDS Integers, Sequences

CONSTANTS MaxBatch, None

VARIABLES log, checkpoint

Name(e) == [height |-> e.height, fork |-> e.fork, prev |-> e.prev]

Init == log = <<>> /\ checkpoint = None

Added == SubSeq(log', Len(log) + 1, Len(log'))

Grow ==
  /\ Len(log') > Len(log)
  /\ SubSeq(log', 1, Len(log)) = log
  /\ checkpoint' = Name(log'[Len(log')])

\* A batch of the initial scan.
AppendRun ==
  /\ Grow
  /\ Len(Added) <= MaxBatch
  /\ \A i \in DOMAIN Added :
        Added[i].via = "scan" /\ Added[i].height = checkpoint.height + i

\* A block that ZMQ announced.
AppendLive ==
  /\ Grow
  /\ Len(Added) = 1 /\ Added[1].via = "live"

Next == AppendRun \/ AppendLive

Spec == Init /\ [][Next]_<<log, checkpoint>>

=============================================================================

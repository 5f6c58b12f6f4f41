--------------------------- MODULE MCAddressIndexer ---------------------------
(* Instances of AddressIndexer for TLC. *)
EXTENDS AddressIndexer

(***************************************************************************)
(* Progress with and without answers of the node: settles says whether     *)
(* every RPC call settles in this behaviour.  When it does not, one that   *)
(* never comes back is among the behaviours; the rest of the fairness is   *)
(* the same.                                                               *)
(***************************************************************************)
VARIABLE settles

ProgressSpec ==
  /\ Init /\ settles \in BOOLEAN
  /\ [][Next /\ UNCHANGED settles]_<<vars, settles>>
  /\ StopFairness
  /\ WF_vars(settles /\ LoadProgress)
  /\ WF_vars(settles /\ BeginScan)
  /\ WF_vars(settles /\ ResolveHash)
  /\ WF_vars(settles /\ (BlockReady \/ BlockFails))
  /\ WF_vars(settles /\ (LiveBlockReady \/ LiveBlockFails))

\* When calls settle, a start ends (addressIndexer.js:698-745).
ScanEndsIfSettled == settles => ScanEnds

\* When calls settle, every announced block is taken from the chain of live updates
\* (addressIndexer.js:1287-1310).
LiveQueueDrainsIfSettled == settles => LiveQueueDrains
=============================================================================

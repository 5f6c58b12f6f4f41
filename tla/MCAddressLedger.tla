---------------------------- MODULE MCAddressLedger ----------------------------
(***************************************************************************)
(* Chains for AddressLedger: blocks of a coinbase, a transaction that      *)
(* spends one or two coins into two outputs, and one that passes the first *)
(* of these on to its own address within the same block.                   *)
(***************************************************************************)
EXTENDS AddressLedger

CONSTANTS
  Miner,       \* the address that the coinbases pay
  MaxBlocks    \* bound: blocks on the chain

ASSUME MinerAssumption == Miner \in Address /\ MaxBlocks \in Nat

Tx(vin, vout) == [vin |-> vin, vout |-> vout]
Output(a, v) == [address |-> a, value |-> v]

Coins(c) == Outputs(c) \ {Prevout(c, q) : q \in Inputs(c)}
Spends(c) == {SetToSeq(s) : s \in {x \in SUBSET Coins(c) : Cardinality(x) \in 1..2}}
Payments ==
  {<<Output(a, 1), Output(b, 2)>> : a \in Address, b \in Address \cup {NoAddress}}

\* The blocks that may follow the chain c.
NextBlocks(c) ==
  LET coinbase == Tx(<<>>, <<Output(Miner, 3)>>)
      child(t) == Tx(<<OutPoint(<<Len(c), 2>>, 0)>>, <<Output(t.vout[1].address, 1)>>)
      plain    == {Tx(s, p) : s \in Spends(c), p \in Payments}
  IN  {<<coinbase>>}
        \cup {<<coinbase, t>> : t \in plain}
        \cup {<<coinbase, t, child(t)>> : t \in plain}

SmallChains ==
  LET ofLength[n \in 0..MaxBlocks] ==
        IF n = 0 THEN {<<>>}
        ELSE UNION {{Append(c, b) : b \in NextBlocks(c)} : c \in ofLength[n - 1]}
  IN  ofLength[MaxBlocks]
================================================================================

------------------------- MODULE AddressIndexerProofs -------------------------
(***************************************************************************)
(* Proofs about AddressIndexer, for every batch size, bound and ZMQ        *)
(* setting.                                                                *)
(***************************************************************************)
EXTENDS AddressIndexer, TLAPS

LEMMA InitIInv == Init => IInv
<1> SUFFICES ASSUME Init PROVE IInv
  OBVIOUS
<1> USE BatchBlocksAssumption DEF Init
<1>0. Genesis \in Block /\ Genesis.height = 0
  BY DEF Genesis, Block
<1>1. NodeTypes
  BY <1>0 DEF NodeTypes
<1>2. StoreTypes
  BY DEF StoreTypes
<1>3. ScanTypes
  BY <1>0 DEF ScanTypes
<1>4. LiveTypes /\ StopTypes
  BY DEF LiveTypes, StopTypes
<1>7. FlagTypes
  BY DEF FlagTypes
<1>5. ChainShape /\ CheckpointIsLast /\ ScanContiguous
  BY <1>0 DEF ChainShape, CheckpointIsLast, ScanContiguous
<1>6. ScanPosition /\ BatchShape /\ Control /\ OneBlockAtATime
  BY DEF ScanPosition, BatchShape, Control, OneBlockAtATime
<1> QED BY <1>1, <1>2, <1>3, <1>4, <1>5, <1>6, <1>7 DEF IInv, TypeOK

LEMMA LastInSeq ==
  ASSUME NEW S, NEW s \in Seq(S), Len(s) > 0
  PROVE  LastOf(s) \in S
  BY DEF LastOf

LEMMA BlockIntro ==
  ASSUME NEW h \in Nat, NEW f \in Nat, NEW q \in Nat
  PROVE  /\ [height |-> h, fork |-> f, prev |-> q] \in Block
         /\ [height |-> h, fork |-> f, prev |-> q].height = h
  BY DEF Block

LEMMA BlockFields ==
  ASSUME NEW b \in Block
  PROVE  b.height \in Nat /\ b.fork \in Nat /\ b.prev \in Nat
  BY DEF Block

LEMMA AppendInSeq ==
  ASSUME NEW S, NEW s \in Seq(S), NEW x \in S
  PROVE  Append(s, x) \in Seq(S) /\ Len(Append(s, x)) > 0
  OBVIOUS

LEMMA ReplaceLast ==
  ASSUME NEW S, NEW s \in Seq(S), NEW n, n = Len(s), n > 0, NEW x \in S
  PROVE  /\ [s EXCEPT ![n] = x] \in Seq(S)
         /\ Len([s EXCEPT ![n] = x]) = n
         /\ \A i \in 1..n : [s EXCEPT ![n] = x][i] = IF i = n THEN x ELSE s[i]
  OBVIOUS

-----------------------------------------------------------------------------
(* A step that leaves the variables of a conjunct alone preserves it. *)

LEMMA StoreTypesFrame ==
  ASSUME StoreTypes, UNCHANGED <<log, ckpt, write, wblocks>>
  PROVE  StoreTypes'
  BY DEF StoreTypes

LEMMA LogFrame ==
  ASSUME CheckpointIsLast, ScanContiguous, UNCHANGED <<log, ckpt>>
  PROVE  CheckpointIsLast' /\ ScanContiguous'
  BY DEF CheckpointIsLast, ScanContiguous, LastOf, BlockOf

LEMMA ControlFrame ==
  ASSUME Control, OneBlockAtATime,
         UNCHANGED <<live, queue, subscribed, scan, write, db, stopping, stopper, syncInProgress>>
  PROVE  Control' /\ OneBlockAtATime'
  BY DEF Control, OneBlockAtATime

LEMMA PositionFrame ==
  ASSUME ScanPosition, BatchShape,
         UNCHANGED <<scan, stopping, mem, ckpt, nextHeight, bestHeight, pending, cur, write, wblocks>>
  PROVE  ScanPosition' /\ BatchShape'
  BY DEF ScanPosition, BatchShape, RunAbove, LastOf

LEMMA ScanTypesFrame ==
  ASSUME ScanTypes, UNCHANGED <<scan, nextHeight, bestHeight, pending, cur, mem>>
  PROVE  ScanTypes'
  BY DEF ScanTypes

LEMMA LiveTypesFrame ==
  ASSUME LiveTypes, UNCHANGED <<live, queue>>
  PROVE  LiveTypes'
  BY DEF LiveTypes

LEMMA StopTypesFrame ==
  ASSUME StopTypes, UNCHANGED <<db, stopper, restarts>>
  PROVE  StopTypes'
  BY DEF StopTypes

LEMMA FlagTypesFrame ==
  ASSUME FlagTypes, UNCHANGED <<subscribed, syncInProgress, stopping, drainTimedOut, writeFailed>>
  PROVE  FlagTypes'
  BY DEF FlagTypes

LEMMA NodeFrame ==
  ASSUME NodeTypes, ChainShape, UNCHANGED <<chain, reorgs, wire, bestHeight>>
  PROVE  NodeTypes' /\ ChainShape'
  BY DEF NodeTypes, ChainShape

-----------------------------------------------------------------------------
(* The node. *)

LEMMA MineStep == ASSUME IInv, Mine PROVE IInv'
<1>a. chain \in Seq(Block) /\ Len(chain) > 0 /\ LastOf(chain) \in Block
  BY LastInSeq DEF IInv, TypeOK, NodeTypes
<1>1. PICK b \in Block : /\ b.height = Len(chain)
                        /\ chain' = Append(chain, b)
                        /\ Announce(b)
  <2> DEFINE b == [height |-> Len(chain), fork |-> LastOf(chain).fork, prev |-> LastOf(chain).fork]
  <2>1. b \in Block /\ b.height = Len(chain)
    BY <1>a DEF Block
  <2>2. chain' = Append(chain, b) /\ Announce(b)
    BY DEF Mine
  <2> QED BY <2>1, <2>2
<1>2. UNCHANGED <<reorgs, dbVars, scanVars, cur, liveVars, mem, syncInProgress, stopVars, restarts>>
  BY DEF Mine
<1>3. NodeTypes'
  BY <1>1, <1>2 DEF IInv, TypeOK, NodeTypes, Announce
<1>4. ChainShape'
  <2>1. /\ Len(chain') = Len(chain) + 1
        /\ \A i \in 1..Len(chain) : chain'[i] = chain[i]
        /\ chain'[Len(chain) + 1] = b
    BY <1>a, <1>1
  <2>2. \A i \in 1..Len(chain) : chain[i].height = i - 1
    BY <1>a DEF IInv, ChainShape
  <2>3. chain' \in Seq(Block)
    BY <1>3 DEF NodeTypes
  <2>4. \A i \in 1..Len(chain') : chain'[i].height = i - 1
    BY <1>a, <1>1, <2>1, <2>2
  <2>5. bestHeight' < Len(chain')
    BY <1>a, <1>2, <2>1 DEF IInv, TypeOK, ScanTypes, ChainShape, scanVars
  <2> QED BY <2>3, <2>4, <2>5 DEF ChainShape
<1> QED BY <1>2, <1>3, <1>4, StoreTypesFrame, ScanTypesFrame,
           LiveTypesFrame, StopTypesFrame, FlagTypesFrame, LogFrame, ControlFrame, PositionFrame
        DEF IInv, TypeOK, dbVars, scanVars, liveVars, stopVars

LEMMA ReorgStep == ASSUME IInv, Reorg PROVE IInv'
<1> DEFINE n == Len(chain)
<1>a. /\ chain \in Seq(Block) /\ n \in Nat /\ n >= 2 /\ reorgs \in Nat
      /\ chain[n - 1] \in Block
      /\ \A i \in 1..n : chain[i].height = i - 1
  <2>1. chain \in Seq(Block) /\ n \in Nat /\ reorgs \in Nat
    BY DEF IInv, TypeOK, NodeTypes
  <2>2. n >= 2
    BY <2>1, BoundsAssumption DEF Reorg
  <2>3. chain[n - 1] \in Block
    BY <2>1, <2>2
  <2>4. \A i \in 1..n : chain[i].height = i - 1
    BY <2>1 DEF IInv, ChainShape
  <2> QED BY <2>1, <2>2, <2>3, <2>4
<1>1. PICK b1 \in Block, b2 \in Block :
         /\ b1.height = n - 1 /\ b2.height = n
         /\ chain' = Append([chain EXCEPT ![n] = b1], b2)
         /\ Announce(b2)
  <2> DEFINE f == reorgs + 1
             x == [height |-> n - 1, fork |-> f, prev |-> chain[n - 1].fork]
             y == [height |-> n, fork |-> f, prev |-> f]
  <2>0. chain[n - 1].fork \in Nat /\ f \in Nat /\ n - 1 \in Nat
    <3>1. chain[n - 1].fork \in Nat
      BY <1>a, BlockFields
    <3>2. f \in Nat /\ n - 1 \in Nat
      <4>1. n \in Nat /\ n >= 2 /\ reorgs \in Nat
        BY <1>a
      <4> HIDE DEF n
      <4> QED BY <4>1
    <3> QED BY <3>1, <3>2
  <2>1. x \in Block /\ x.height = n - 1
    BY <2>0, BlockIntro
  <2>2. y \in Block /\ y.height = n
    BY <1>a, <2>0, BlockIntro
  <2>3. chain' = Append([chain EXCEPT ![n] = x], y) /\ Announce(y)
    BY DEF Reorg
  <2> QED BY <2>1, <2>2, <2>3
<1>2. UNCHANGED <<dbVars, scanVars, cur, liveVars, mem, syncInProgress, stopVars, restarts>>
  BY DEF Reorg
<1> DEFINE c == [chain EXCEPT ![n] = b1]
<1>3. c \in Seq(Block) /\ Len(c) = n /\ \A i \in 1..n : c[i] = IF i = n THEN b1 ELSE chain[i]
  BY <1>a, <1>1, ReplaceLast
<1> HIDE DEF c
<1>x. chain' = Append(c, b2)
  BY <1>1 DEF c
<1>4. NodeTypes'
  <2>1. chain' \in Seq(Block) /\ Len(chain') > 0
    <3>1. b2 \in Block /\ c \in Seq(Block)
      BY <1>1, <1>3
    <3> QED BY <3>1, <1>x, AppendInSeq
  <2>2. wire' \in Seq(Block)
    <3>1. wire \in Seq(Block)
      BY DEF IInv, TypeOK, NodeTypes
    <3>2. b2 \in Block /\ (wire' = Append(wire, b2) \/ wire' = wire)
      BY <1>1 DEF Announce
    <3> QED BY <3>1, <3>2, AppendInSeq
  <2>3. reorgs' \in Nat
    BY <1>a DEF Reorg
  <2> QED BY <2>1, <2>2, <2>3 DEF NodeTypes
<1>5. ChainShape'
  <2>1. Len(chain') = n + 1
    BY <1>a, <1>1, <1>x, <1>3
  <2>2. \A i \in 1..(n + 1) :
          chain'[i] = IF i = n + 1 THEN b2 ELSE IF i = n THEN b1 ELSE chain[i]
    BY <1>a, <1>1, <1>x, <1>3
  <2>3. \A i \in 1..Len(chain') : chain'[i].height = i - 1
    BY <1>a, <1>1, <2>1, <2>2
  <2>4. bestHeight' < Len(chain')
    BY <1>a, <1>2, <2>1 DEF IInv, TypeOK, ScanTypes, ChainShape, scanVars
  <2> QED BY <1>4, <2>3, <2>4 DEF ChainShape, NodeTypes
<1> QED BY <1>2, <1>4, <1>5, StoreTypesFrame, ScanTypesFrame,
           LiveTypesFrame, StopTypesFrame, FlagTypesFrame, LogFrame, ControlFrame, PositionFrame
        DEF IInv, TypeOK, dbVars, scanVars, liveVars, stopVars

-----------------------------------------------------------------------------
(* LevelDB. *)

LEMMA DbWriteStep == ASSUME IInv, DbWrite PROVE IInv'
<1>a. /\ log \in Seq(Entry) /\ wblocks \in Seq(Entry) /\ Len(wblocks) > 0
      /\ Len(log) \in Nat /\ Len(wblocks) \in Nat
      /\ LastOf(wblocks) \in Entry
  BY LastInSeq DEF DbWrite, IInv, TypeOK, StoreTypes, BatchShape
<1>b. /\ log' = log \o wblocks /\ ckpt' = BlockOf(LastOf(wblocks)) /\ write' = "ok"
      /\ write = "pending"
      /\ UNCHANGED <<nodeVars, wblocks, writeFailed, scanVars, cur, liveVars, mem,
                     syncInProgress, stopVars, restarts>>
  BY DEF DbWrite
<1>c. /\ log' \in Seq(Entry) /\ Len(log') = Len(log) + Len(wblocks)
      /\ \A i \in 1..Len(log') :
            log'[i] = IF i <= Len(log) THEN log[i] ELSE wblocks[i - Len(log)]
  BY <1>a, <1>b
<1>1. StoreTypes'
  <2>1. ckpt' \in Block
    BY <1>a, <1>b DEF BlockOf, Block, Entry
  <2> QED BY <2>1, <1>b, <1>c DEF IInv, TypeOK, StoreTypes
<1>2. CheckpointIsLast'
  <2>1. LastOf(log') = LastOf(wblocks) /\ log' # <<>>
    BY <1>a, <1>c DEF LastOf
  <2> QED BY <2>1, <1>b DEF CheckpointIsLast
<1>3. ScanContiguous'
  <2>1. scan = "watching" => Len(wblocks) = 1 /\ wblocks[1].via = "live"
    BY <1>b DEF IInv, BatchShape
  <2>2. scan # "watching" => \A i \in 1..Len(wblocks) : wblocks[i].height = ckpt.height + i
    BY <1>a, <1>b DEF IInv, BatchShape, RunAbove
  <2>3. ckpt.height = IF Len(log) = 0 THEN -1 ELSE log[Len(log)].height
    BY <1>a DEF IInv, CheckpointIsLast, LastOf, BlockOf, NoBlock
  <2>4. ckpt.height \in Int
    BY DEF IInv, TypeOK, StoreTypes, Block, NoBlock
  <2> SUFFICES ASSUME NEW i \in 1..Len(log'), log'[i].via = "scan"
               PROVE  log'[i].height = IF i = 1 THEN 0 ELSE log'[i - 1].height + 1
    BY <1>c DEF ScanContiguous
  <2>5. CASE i <= Len(log)
    <3>0. i \in 1..Len(log) /\ (i # 1 => i - 1 \in 1..Len(log))
      BY <2>5, <1>a, <1>c
    <3>1. log'[i] = log[i] /\ (i # 1 => log'[i - 1] = log[i - 1])
      BY <3>0, <1>a, <1>c
    <3> QED BY <3>0, <3>1, <2>5, <1>a DEF IInv, ScanContiguous
  <2>6. CASE i > Len(log)
    <3>1. log'[i] = wblocks[i - Len(log)] /\ i - Len(log) \in 1..Len(wblocks)
      BY <2>6, <1>a, <1>c
    <3>2. scan # "watching"
      BY <3>1, <2>1
    <3>3. log'[i].height = ckpt.height + (i - Len(log))
      BY <3>1, <3>2, <2>2
    <3>4. CASE i = Len(log) + 1
      BY <3>3, <3>4, <2>3, <2>4, <1>a, <1>c
    <3>5. CASE i > Len(log) + 1
      <4>1. log'[i - 1] = wblocks[i - 1 - Len(log)] /\ i - 1 - Len(log) \in 1..Len(wblocks)
        BY <3>5, <1>a, <1>c
      <4>2. log'[i - 1].height = ckpt.height + (i - 1 - Len(log))
        BY <4>1, <3>2, <2>2
      <4>3. i # 1
        BY <3>5, <1>a, <1>c
      <4>4. ckpt.height + (i - Len(log)) = ckpt.height + (i - 1 - Len(log)) + 1
        BY <2>4, <1>a, <1>c
      <4> QED BY <4>2, <4>3, <4>4, <3>3
    <3> QED BY <2>6, <3>4, <3>5, <1>a
  <2> QED BY <2>5, <2>6, <1>a
<1>4. ScanPosition' /\ BatchShape'
  <2>1. scan \in {"commit", "flush", "watching"}
    BY <1>b DEF IInv, Control
  <2>2. scan = "commit" => ckpt'.height = nextHeight
    BY <1>b DEF IInv, ScanPosition, BlockOf
  <2> QED BY <1>b, <2>1, <2>2 DEF IInv, ScanPosition, BatchShape, scanVars
<1>5. Control' /\ OneBlockAtATime'
  BY <1>b DEF IInv, Control, OneBlockAtATime, scanVars, liveVars, stopVars
<1> QED BY <1>b, <1>1, <1>2, <1>3, <1>4, <1>5, NodeFrame, ScanTypesFrame, LiveTypesFrame,
           StopTypesFrame, FlagTypesFrame
        DEF IInv, TypeOK, nodeVars, scanVars, liveVars, stopVars

LEMMA DbFailStep == ASSUME IInv, DbFail PROVE IInv'
<1>b. /\ write = "pending" /\ write' = "error" /\ writeFailed' = TRUE
      /\ UNCHANGED <<nodeVars, log, ckpt, wblocks, scanVars, cur, liveVars, mem,
                     syncInProgress, stopVars, restarts>>
  BY DEF DbFail
<1>1. StoreTypes'
  BY <1>b DEF IInv, TypeOK, StoreTypes
<1>2. FlagTypes'
  BY <1>b DEF IInv, TypeOK, FlagTypes, liveVars, stopVars
<1>3. ScanPosition' /\ BatchShape'
  BY <1>b DEF IInv, Control, ScanPosition, BatchShape, RunAbove, scanVars, stopVars
<1>4. Control' /\ OneBlockAtATime'
  BY <1>b DEF IInv, Control, OneBlockAtATime, scanVars, liveVars, stopVars
<1> QED BY <1>b, <1>1, <1>2, <1>3, <1>4, NodeFrame, ScanTypesFrame, LiveTypesFrame,
           StopTypesFrame, LogFrame
        DEF IInv, TypeOK, nodeVars, scanVars, liveVars, stopVars

-----------------------------------------------------------------------------
(* The five ways the scan goes on.  Everywhere, only the scan's own        *)
(* variables, the batch and syncInProgress change.                         *)

Rest == <<nodeVars, log, ckpt, writeFailed, live, queue, stopVars, restarts>>
Scanning == {"load", "tip", "hash", "block", "commit", "flush"}

\* While the scan runs nothing is subscribed, and no live block is processed.
LEMMA ScanAlone ==
  ASSUME IInv, scan \in Scanning
  PROVE  live = "idle" /\ queue = <<>> /\ subscribed = FALSE
  BY DEF IInv, Control, TypeOK, FlagTypes, Scanning

\* What such a step keeps.
LEMMA RestKept ==
  ASSUME IInv, UNCHANGED Rest, bestHeight' \in Nat, bestHeight' < Len(chain)
  PROVE  /\ NodeTypes' /\ ChainShape'
         /\ LiveTypes' /\ StopTypes'
         /\ CheckpointIsLast' /\ ScanContiguous'
<1>1. NodeTypes'
  BY DEF IInv, TypeOK, NodeTypes, Rest, nodeVars
<1>2. ChainShape'
  BY DEF IInv, ChainShape, Rest, nodeVars
<1> QED BY <1>1, <1>2, LiveTypesFrame, StopTypesFrame, LogFrame
        DEF IInv, TypeOK, Rest, stopVars

LEMMA RestFlags ==
  ASSUME IInv, UNCHANGED Rest, subscribed' \in BOOLEAN, syncInProgress' \in BOOLEAN
  PROVE  FlagTypes'
  BY DEF IInv, TypeOK, FlagTypes, Rest, stopVars

LEMMA FailStep ==
  ASSUME IInv, UNCHANGED Rest, scan \in Scanning,
         write' = "none", wblocks' \in Seq(Entry),
         scan' = "failed", pending' = <<>>, syncInProgress' = FALSE,
         subscribed' = subscribed,
         nextHeight' \in Nat, bestHeight' \in Nat, bestHeight' < Len(chain),
         cur' \in Block, mem' \in Nat \cup {-1}
  PROVE  IInv'
<1>1. live = "idle" /\ queue = <<>> /\ subscribed = FALSE
  BY ScanAlone
<1>2. StoreTypes'
  BY DEF IInv, TypeOK, StoreTypes, Rest
<1>3. ScanTypes'
  BY DEF ScanTypes
<1>4. FlagTypes'
  BY <1>1, RestFlags
<1>5. ScanPosition' /\ BatchShape'
  BY DEF ScanPosition, BatchShape
<1>6. Control'
  BY <1>1 DEF IInv, Control, Rest, stopVars, Scanning
<1>7. OneBlockAtATime'
  BY <1>1 DEF OneBlockAtATime, Rest
<1> QED BY <1>2, <1>3, <1>4, <1>5, <1>6, <1>7, RestKept DEF IInv, TypeOK

LEMMA EndStep ==
  ASSUME IInv, UNCHANGED Rest, scan \in Scanning,
         NoBatch, EndSync, pending' = <<>>, syncInProgress' = FALSE,
         nextHeight' \in Nat, bestHeight' \in Nat, bestHeight' < Len(chain),
         cur' \in Block, mem' \in Nat \cup {-1}
  PROVE  IInv'
<1>1. live = "idle" /\ queue = <<>> /\ subscribed = FALSE
  BY ScanAlone
<1>0. stopping \in BOOLEAN
  BY DEF IInv, TypeOK, FlagTypes
<1>2. StoreTypes'
  BY DEF IInv, TypeOK, StoreTypes, Rest, NoBatch
<1>3. ScanTypes'
  BY DEF ScanTypes, EndSync
<1>a. subscribed' \in BOOLEAN
  BY <1>0 DEF EndSync
<1>4. FlagTypes'
  BY <1>a, RestFlags
<1>5. ScanPosition' /\ BatchShape'
  BY DEF ScanPosition, BatchShape, EndSync, NoBatch
<1>6. Control'
  BY <1>0, <1>1 DEF IInv, Control, Rest, stopVars, Scanning, EndSync, NoBatch
<1>7. OneBlockAtATime'
  BY <1>1 DEF OneBlockAtATime, Rest, EndSync
<1> QED BY <1>2, <1>3, <1>4, <1>5, <1>6, <1>7, RestKept DEF IInv, TypeOK

LEMMA HashStep ==
  ASSUME IInv, UNCHANGED Rest, scan \in Scanning,
         NoBatch, scan' = "hash", syncInProgress' = TRUE, subscribed' = subscribed,
         pending' \in Seq(Entry), RunAbove(pending'), Len(pending') < BatchBlocks,
         nextHeight' \in Nat, bestHeight' \in Nat, bestHeight' < Len(chain),
         nextHeight' = ckpt.height + Len(pending') + 1, nextHeight' <= bestHeight',
         cur' \in Block, mem' \in Nat \cup {-1}
  PROVE  IInv'
<1>1. live = "idle" /\ queue = <<>> /\ subscribed = FALSE
  BY ScanAlone
<1>2. StoreTypes'
  BY DEF IInv, TypeOK, StoreTypes, Rest, NoBatch
<1>3. ScanTypes'
  BY DEF ScanTypes
<1>4. FlagTypes'
  BY <1>1, RestFlags
<1>5. ScanPosition' /\ BatchShape'
  BY DEF ScanPosition, BatchShape, NoBatch, RunAbove, Rest
<1>6. Control'
  BY <1>1 DEF IInv, Control, Rest, stopVars, Scanning, NoBatch
<1>7. OneBlockAtATime'
  BY <1>1 DEF OneBlockAtATime, Rest
<1> QED BY <1>2, <1>3, <1>4, <1>5, <1>6, <1>7, RestKept DEF IInv, TypeOK

LEMMA CommitStep ==
  ASSUME IInv, UNCHANGED Rest, scan \in Scanning,
         NEW held \in Seq(Entry), NEW at \in {"commit", "flush"},
         Commit(held, at),
         RunAbove(held), Len(held) \in 1..BatchBlocks,
         at = "commit" => /\ syncInProgress' = TRUE
                          /\ LastOf(held).height = nextHeight'
                          /\ cur'.height = nextHeight',
         at = "flush" => syncInProgress' = FALSE,
         nextHeight' \in Nat, bestHeight' \in Nat, bestHeight' < Len(chain),
         cur' \in Block, mem' \in Nat \cup {-1}
  PROVE  IInv'
<1>1. live = "idle" /\ queue = <<>> /\ subscribed = FALSE
  BY ScanAlone
<1>0. /\ db = "open" /\ write' = "pending" /\ wblocks' = held /\ scan' = at
      /\ pending' = held /\ subscribed' = subscribed
  BY DEF Commit, IssueBatch
<1>2. StoreTypes'
  BY <1>0 DEF IInv, TypeOK, StoreTypes, Rest
<1>3. ScanTypes'
  BY <1>0 DEF ScanTypes
<1>a. syncInProgress' \in BOOLEAN
  OBVIOUS
<1>4. FlagTypes'
  BY <1>0, <1>1, <1>a, RestFlags
<1>b. Len(held) > 0 /\ Len(held) <= BatchBlocks
  BY BatchBlocksAssumption
<1>5. BatchShape'
  BY <1>0, <1>b DEF BatchShape, RunAbove, Rest
<1>c. ScanPosition'
  BY <1>0 DEF ScanPosition, LastOf
<1>6. Control'
  BY <1>0, <1>1 DEF IInv, Control, Rest, stopVars, Scanning
<1>7. OneBlockAtATime'
  BY <1>0, <1>1 DEF OneBlockAtATime, Rest
<1> QED BY <1>2, <1>3, <1>4, <1>5, <1>6, <1>7, <1>c, RestKept DEF IInv, TypeOK

\* The head of the while loop, wherever it is reached from.
LEMMA LoopStep ==
  ASSUME IInv, UNCHANGED Rest, scan \in Scanning,
         NEW n \in Nat, NEW best \in Nat, NEW held \in Seq(Entry),
         Loop(n, best, held), best < Len(chain),
         ~stopping => n = ckpt.height + Len(held) + 1,
         RunAbove(held), Len(held) < BatchBlocks,
         cur' \in Block, mem' \in Nat \cup {-1}
  PROVE  IInv'
<1>0. nextHeight' = n /\ bestHeight' = best
  BY DEF Loop
<1>1. CASE /\ ~stopping /\ n <= best
           /\ scan' = "hash"
           /\ syncInProgress' = TRUE
           /\ pending' = held
           /\ NoBatch
           /\ UNCHANGED subscribed
  BY <1>0, <1>1, HashStep
<1>2. CASE /\ syncInProgress' = FALSE
           /\ pending' = <<>> /\ NoBatch /\ EndSync
  BY <1>0, <1>2, EndStep
<1>3. CASE syncInProgress' = FALSE /\ held # <<>> /\ Commit(held, "flush")
  <2>1. Len(held) \in 1..BatchBlocks
    BY <1>3, BatchBlocksAssumption
  <2> QED BY <1>0, <1>3, <2>1, CommitStep
<1>4. CASE /\ syncInProgress' = FALSE
           /\ NoBatch /\ scan' = "failed" /\ pending' = <<>> /\ UNCHANGED subscribed
  <2>1. write' = "none" /\ wblocks' \in Seq(Entry)
    BY <1>4 DEF NoBatch
  <2> QED BY <1>0, <1>4, <2>1, FailStep
<1> QED BY <1>1, <1>2, <1>3, <1>4 DEF Loop

-----------------------------------------------------------------------------
(* The actions of the scan. *)

LEMMA ScanFacts ==
  ASSUME IInv
  PROVE  /\ nextHeight \in Nat /\ bestHeight \in Nat /\ bestHeight < Len(chain)
         /\ pending \in Seq(Entry) /\ cur \in Block /\ cur.height \in Nat
         /\ mem \in Nat \cup {-1}
         /\ chain \in Seq(Block) /\ Len(chain) \in Nat /\ Len(chain) > 0
         /\ wblocks \in Seq(Entry)
  BY DEF IInv, TypeOK, NodeTypes, StoreTypes, ScanTypes, ChainShape, Block

LEMMA CkptHeight ==
  ASSUME IInv
  PROVE  /\ ckpt.height \in Int /\ ckpt.height >= -1
         /\ mem \in Int /\ cur.height \in Int /\ nextHeight \in Int /\ BatchBlocks \in Int
         /\ BatchBlocks >= 1
         /\ Len(pending) \in Int /\ Len(pending) >= 0
<1>1. ckpt.height \in Int /\ ckpt.height >= -1
  BY DEF IInv, TypeOK, StoreTypes, Block, NoBlock
<1>2. mem \in Int /\ cur.height \in Int /\ nextHeight \in Int /\ pending \in Seq(Entry)
  BY ScanFacts
<1>3. Len(pending) \in Int /\ Len(pending) >= 0
  BY <1>2
<1> QED BY <1>1, <1>2, <1>3, BatchBlocksAssumption

LEMMA EmptyRun == RunAbove(<<>>) /\ <<>> \in Seq(Entry) /\ Len(<<>>) = 0
  BY DEF RunAbove

\* The height of a run's last block.
LEMMA RunTop ==
  ASSUME IInv, NEW held \in Seq(Entry), held # <<>>, RunAbove(held)
  PROVE  LastOf(held).height = ckpt.height + Len(held)
<1>1. Len(held) \in DOMAIN held
  OBVIOUS
<1> QED BY <1>1 DEF RunAbove, LastOf

\* The blocks held once the current one has joined them.
LEMMA HeldRun ==
  ASSUME IInv, scan = "block",
         NEW held, held = Append(pending, Via(cur, "scan"))
  PROVE  /\ held \in Seq(Entry) /\ held # <<>>
         /\ Len(held) = Len(pending) + 1 /\ Len(held) <= BatchBlocks
         /\ RunAbove(held) /\ LastOf(held).height = ckpt.height + Len(held)
         /\ cur.height = ckpt.height + Len(held)
<1>1. /\ cur.height = ckpt.height + Len(pending) + 1
      /\ RunAbove(pending) /\ Len(pending) < BatchBlocks
  BY DEF IInv, ScanPosition
<1> DEFINE e == Via(cur, "scan")
<1>2. e \in Entry /\ e.via = "scan" /\ e.height = cur.height
  BY ScanFacts DEF Via, Entry, Block
<1> HIDE DEF e
<1>3. /\ held \in Seq(Entry) /\ Len(held) = Len(pending) + 1
      /\ \A i \in 1..Len(held) : held[i] = IF i = Len(held) THEN e ELSE pending[i]
  <2>1. held = Append(pending, e)
    BY DEF e
  <2> QED BY <1>2, <2>1, ScanFacts
<1>4. \A i \in 1..Len(pending) : pending[i].via = "scan" /\ pending[i].height = ckpt.height + i
  BY <1>1, ScanFacts DEF RunAbove
<1>5. ASSUME NEW i \in 1..Len(held)
      PROVE  held[i].via = "scan" /\ held[i].height = ckpt.height + i
  <2>1. CASE i = Len(held)
    <3>1. held[i] = e /\ i = Len(pending) + 1
      BY <1>3, <2>1
    <3>2. cur.height = ckpt.height + i
      BY <1>1, <3>1, CkptHeight
    <3> QED BY <1>2, <3>1, <3>2
  <2>2. CASE i # Len(held)
    <3>1. i \in 1..Len(pending) /\ held[i] = pending[i]
      BY <1>3, <2>2, CkptHeight
    <3> QED BY <1>4, <3>1
  <2> QED BY <2>1, <2>2
<1>6. RunAbove(held)
  BY <1>3, <1>5 DEF RunAbove
<1>7. Len(held) <= BatchBlocks /\ cur.height = ckpt.height + Len(held) /\ Len(held) # 0
  BY <1>1, <1>3, CkptHeight
<1> QED BY <1>3, <1>6, <1>7, EmptyRun, RunTop

LEMMA StartStep == ASSUME IInv, Start PROVE IInv'
<1>1. /\ scan = "off" /\ scan' = "load" /\ stopping' = FALSE /\ db' = "open"
      /\ UNCHANGED <<nodeVars, dbVars, nextHeight, bestHeight, pending, cur, liveVars, mem,
                     syncInProgress, stopper, drainTimedOut, restarts>>
  BY DEF Start
<1>2. ScanTypes'
  BY <1>1 DEF IInv, TypeOK, ScanTypes
<1>3. StopTypes'
  BY <1>1 DEF IInv, TypeOK, StopTypes
<1>4. FlagTypes'
  BY <1>1 DEF IInv, TypeOK, FlagTypes, dbVars, liveVars
<1>5. ScanPosition' /\ BatchShape'
  BY <1>1 DEF IInv, Control, ScanPosition, BatchShape, dbVars
<1>6. Control' /\ OneBlockAtATime'
  BY <1>1 DEF IInv, Control, OneBlockAtATime, dbVars, liveVars
<1> QED BY <1>1, <1>2, <1>3, <1>4, <1>5, <1>6, NodeFrame, StoreTypesFrame, LiveTypesFrame,
           LogFrame
        DEF IInv, TypeOK, nodeVars, dbVars, liveVars

LEMMA LoadProgressStep == ASSUME IInv, LoadProgress PROVE IInv'
<1>1. /\ scan = "load"
      /\ UNCHANGED <<nodeVars, dbVars, cur, live, queue, syncInProgress, stopVars, restarts>>
  BY DEF LoadProgress
<1>a. ckpt.height \in Nat \cup {-1}
  BY DEF IInv, TypeOK, StoreTypes, Block, NoBlock
<1>b. live = "idle" /\ queue = <<>> /\ subscribed = FALSE /\ syncInProgress = FALSE
  <2>1. live = "idle" /\ queue = <<>> /\ subscribed = FALSE
    BY <1>1, ScanAlone DEF Scanning
  <2> QED BY <1>1, <2>1 DEF IInv, OneBlockAtATime, TypeOK, FlagTypes
<1>2. CASE /\ db # "closing"
           /\ mem' = IF db = "open" THEN ckpt.height ELSE -1
           /\ scan' = "tip"
           /\ UNCHANGED <<nextHeight, bestHeight, pending, subscribed>>
  <2>1. ScanTypes'
    BY <1>1, <1>2, <1>a DEF IInv, TypeOK, ScanTypes
  <2>2. FlagTypes'
    BY <1>1, <1>2, FlagTypesFrame DEF IInv, TypeOK, dbVars, stopVars
  <2>3. ~stopping => db = "open"
    BY <1>1, <1>2 DEF IInv, Control, TypeOK, StopTypes
  <2>4. ScanPosition' /\ BatchShape'
    BY <1>1, <1>2, <2>3 DEF IInv, Control, ScanPosition, BatchShape, dbVars, stopVars
  <2>5. Control' /\ OneBlockAtATime'
    BY <1>1, <1>2, <1>b DEF IInv, Control, OneBlockAtATime, dbVars, stopVars
  <2> QED BY <1>1, <1>2, <2>1, <2>2, <2>4, <2>5, NodeFrame, StoreTypesFrame, LiveTypesFrame,
             StopTypesFrame, LogFrame
          DEF IInv, TypeOK, nodeVars, dbVars, stopVars
<1>3. CASE Abort /\ UNCHANGED mem
  <2>1. write = "none"
    BY <1>1, <1>b DEF IInv, Control
  <2>2. write' = "none" /\ wblocks' \in Seq(Entry)
    BY <1>1, <2>1, ScanFacts DEF dbVars
  <2>3. UNCHANGED Rest
    BY <1>1 DEF Rest, dbVars
  <2>4. cur' = cur /\ mem' = mem /\ syncInProgress' = FALSE
    BY <1>1, <1>3, <1>b
  <2> QED BY <1>1, <1>3, <2>2, <2>3, <2>4, ScanFacts, FailStep DEF Abort, Scanning
<1> QED BY <1>2, <1>3 DEF LoadProgress

LEMMA BeginScanStep == ASSUME IInv, BeginScan PROVE IInv'
<1>1. scan = "tip" /\ UNCHANGED Rest /\ UNCHANGED <<cur, mem>>
  BY DEF BeginScan, Rest
<1>2. CASE Loop(mem + 1, Len(chain) - 1, <<>>)
  <2>1. mem + 1 \in Nat /\ Len(chain) - 1 \in Nat /\ Len(chain) - 1 < Len(chain)
    BY ScanFacts
  <2>2. ~stopping => mem + 1 = ckpt.height + Len(<<>>) + 1
    BY <1>1, EmptyRun, ScanFacts DEF IInv, ScanPosition
  <2>3. Len(<<>>) < BatchBlocks
    BY BatchBlocksAssumption, EmptyRun
  <2> QED BY <1>1, <1>2, <2>1, <2>2, <2>3, EmptyRun, ScanFacts, LoopStep DEF Scanning
<1>3. CASE NoBatch /\ Abort /\ UNCHANGED syncInProgress
  <2>1. syncInProgress' = FALSE
    <3>1. live = "idle"
      BY <1>1, ScanAlone DEF Scanning
    <3> QED BY <1>1, <1>3, <3>1 DEF IInv, OneBlockAtATime, TypeOK, FlagTypes
  <2>2. write' = "none" /\ wblocks' \in Seq(Entry)
    BY <1>3 DEF NoBatch
  <2> QED BY <1>1, <1>3, <2>1, <2>2, ScanFacts, FailStep DEF Abort, Scanning
<1> QED BY <1>2, <1>3 DEF BeginScan

LEMMA ResolveHashStep == ASSUME IInv, ResolveHash PROVE IInv'
<1>1. scan = "hash" /\ UNCHANGED Rest /\ UNCHANGED mem
  BY DEF ResolveHash, Rest
<1>a. /\ nextHeight = ckpt.height + Len(pending) + 1
      /\ nextHeight <= bestHeight /\ RunAbove(pending) /\ Len(pending) < BatchBlocks
  BY <1>1 DEF IInv, ScanPosition
<1>b. live = "idle" /\ queue = <<>> /\ subscribed = FALSE
  BY <1>1, ScanAlone DEF Scanning
<1>2. CASE /\ ~stopping /\ db # "closed"
           /\ cur' = chain[nextHeight + 1]
           /\ scan' = "block"
           /\ NoBatch
           /\ UNCHANGED <<nextHeight, bestHeight, pending, subscribed, syncInProgress>>
  <2>1. nextHeight + 1 \in 1..Len(chain)
    BY <1>a, ScanFacts
  <2>2. cur' \in Block /\ cur'.height = nextHeight
    BY <1>2, <2>1, ScanFacts DEF IInv, ChainShape
  <2>3. ScanTypes'
    BY <1>1, <1>2, <2>2 DEF IInv, TypeOK, ScanTypes
  <2>4. StoreTypes'
    BY <1>1, <1>2 DEF IInv, TypeOK, StoreTypes, Rest, NoBatch
  <2>5. subscribed' \in BOOLEAN /\ syncInProgress' \in BOOLEAN
    BY <1>2 DEF IInv, TypeOK, FlagTypes
  <2>6. BatchShape'
    BY <1>2 DEF BatchShape, NoBatch
  <2>7. ScanPosition'
    BY <1>1, <1>2, <1>a, <2>2 DEF ScanPosition, RunAbove, Rest, NoBatch
  <2>8. Control'
    BY <1>1, <1>2, <1>b DEF IInv, Control, Rest, stopVars, NoBatch
  <2>9. OneBlockAtATime'
    BY <1>1, <1>2, <1>b DEF IInv, OneBlockAtATime, Rest
  <2>10. bestHeight' \in Nat /\ bestHeight' < Len(chain)
    BY <1>2, ScanFacts
  <2> QED BY <1>1, <2>3, <2>4, <2>5, <2>6, <2>7, <2>8, <2>9, <2>10, RestKept, RestFlags
          DEF IInv, TypeOK
<1>3. CASE /\ stopping \/ db = "closed"
           /\ Loop(nextHeight + 1, bestHeight, pending)
           /\ UNCHANGED cur
  <2>1. stopping
    BY <1>1, <1>3 DEF IInv, Control
  <2>2. nextHeight + 1 \in Nat /\ cur' = cur /\ mem' = mem
    BY <1>1, <1>3, ScanFacts
  <2> QED BY <1>1, <1>3, <1>a, <2>1, <2>2, ScanFacts, LoopStep DEF Scanning
<1>4. CASE NoBatch /\ Abort /\ syncInProgress' = FALSE /\ UNCHANGED cur
  <2>2. write' = "none" /\ wblocks' \in Seq(Entry)
    BY <1>4 DEF NoBatch
  <2> QED BY <1>1, <1>4, <2>2, ScanFacts, FailStep DEF Abort, Scanning
<1> QED BY <1>2, <1>3, <1>4 DEF ResolveHash

LEMMA BlockReadyStep == ASSUME IInv, BlockReady PROVE IInv'
<1> DEFINE held == Append(pending, Via(cur, "scan"))
<1>1. scan = "block" /\ UNCHANGED Rest /\ UNCHANGED cur
  BY DEF BlockReady, Rest
<1>c. /\ held \in Seq(Entry) /\ held # <<>>
      /\ Len(held) <= BatchBlocks
      /\ RunAbove(held) /\ LastOf(held).height = ckpt.height + Len(held)
      /\ cur.height = ckpt.height + Len(held)
  BY <1>1, HeldRun
<1>a. cur.height = nextHeight
  BY <1>1 DEF IInv, ScanPosition
<1>6. \/ ~BatchFull(held) /\ mem' = cur.height /\ Loop(nextHeight + 1, bestHeight, held)
      \/ /\ BatchFull(held)
         /\ Commit(held, "commit")
         /\ mem' = IF BatchBlocks > 1 THEN cur.height ELSE mem
         /\ UNCHANGED <<nextHeight, bestHeight, syncInProgress>>
      \/ db = "closed" /\ mem' = cur.height /\ Loop(nextHeight + 1, bestHeight, <<>>)
      \/ mem' = cur.height /\ NoBatch /\ Abort /\ syncInProgress' = FALSE
  BY Zenon DEF BlockReady
<1> HIDE DEF held
<1>f. Len(held) \in 1..BatchBlocks
  BY <1>c, BatchBlocksAssumption
<1>g. nextHeight + 1 \in Nat /\ nextHeight + 1 = ckpt.height + Len(held) + 1
  BY <1>a, <1>c, ScanFacts
<1>2. CASE ~BatchFull(held) /\ mem' = cur.height /\ Loop(nextHeight + 1, bestHeight, held)
  <2>1. Len(held) < BatchBlocks
    BY <1>2, <1>f, BatchBlocksAssumption DEF BatchFull
  <2> QED BY <1>1, <1>2, <1>c, <1>g, <2>1, ScanFacts, LoopStep DEF Scanning
<1>3. CASE /\ BatchFull(held)
           /\ Commit(held, "commit")
           /\ mem' = IF BatchBlocks > 1 THEN cur.height ELSE mem
           /\ UNCHANGED <<nextHeight, bestHeight, syncInProgress>>
  <2>1. syncInProgress' = TRUE
    BY <1>1, <1>3 DEF IInv, OneBlockAtATime, TypeOK, FlagTypes
  <2>2. mem' \in Nat \cup {-1}
    BY <1>3, ScanFacts
  <2>4. cur' \in Block /\ cur'.height = nextHeight' /\ LastOf(held).height = nextHeight'
    BY <1>1, <1>3, <1>a, <1>c, ScanFacts
  <2> QED BY <1>1, <1>3, <1>c, <1>f, <2>1, <2>2, <2>4, ScanFacts, CommitStep DEF Scanning
<1>4. CASE db = "closed" /\ mem' = cur.height /\ Loop(nextHeight + 1, bestHeight, <<>>)
  <2>1. stopping
    BY <1>1, <1>4 DEF IInv, Control
  <2>2. Len(<<>>) < BatchBlocks
    BY BatchBlocksAssumption, EmptyRun
  <2>3. cur' \in Block /\ mem' \in Nat \cup {-1}
    BY <1>1, <1>4, ScanFacts
  <2> QED BY <1>1, <1>4, <1>g, <2>1, <2>2, <2>3, EmptyRun, ScanFacts, LoopStep DEF Scanning
<1>5. CASE mem' = cur.height /\ NoBatch /\ Abort /\ syncInProgress' = FALSE
  <2>2. write' = "none" /\ wblocks' \in Seq(Entry)
    BY <1>5 DEF NoBatch
  <2>3. cur' \in Block /\ mem' \in Nat \cup {-1}
    BY <1>1, <1>5, ScanFacts
  <2> QED BY <1>1, <1>5, <2>2, <2>3, ScanFacts, FailStep DEF Abort, Scanning
<1> QED BY <1>2, <1>3, <1>4, <1>5, <1>6

LEMMA BlockFailsStep == ASSUME IInv, BlockFails PROVE IInv'
<1>1. /\ scan = "block" /\ UNCHANGED Rest /\ UNCHANGED <<cur, mem>>
      /\ NoBatch /\ Abort /\ syncInProgress' = FALSE
  BY DEF BlockFails, Rest
<1>2. write' = "none" /\ wblocks' \in Seq(Entry)
  BY <1>1 DEF NoBatch
<1> QED BY <1>1, <1>2, ScanFacts, FailStep DEF Abort, Scanning

LEMMA CommitSettlesStep == ASSUME IInv, CommitSettles PROVE IInv'
<1>1. scan = "commit" /\ UNCHANGED Rest /\ cur' \in Block /\ mem' \in Nat \cup {-1}
  BY ScanFacts DEF CommitSettles, Rest
<1>2. CASE write = "ok" /\ Loop(nextHeight + 1, bestHeight, <<>>)
  <2>1. nextHeight + 1 \in Nat /\ nextHeight + 1 = ckpt.height + Len(<<>>) + 1
    BY <1>1, <1>2, EmptyRun, ScanFacts DEF IInv, ScanPosition
  <2>2. Len(<<>>) < BatchBlocks
    BY BatchBlocksAssumption, EmptyRun
  <2> QED BY <1>1, <1>2, <2>1, <2>2, EmptyRun, ScanFacts, LoopStep DEF Scanning
<1>3. CASE NoBatch /\ Abort /\ syncInProgress' = FALSE
  <2>2. write' = "none" /\ wblocks' \in Seq(Entry)
    BY <1>3 DEF NoBatch
  <2> QED BY <1>1, <1>3, <2>2, ScanFacts, FailStep DEF Abort, Scanning
<1> QED BY <1>2, <1>3 DEF CommitSettles

LEMMA FlushSettlesStep == ASSUME IInv, FlushSettles PROVE IInv'
<1>1. /\ scan = "flush" /\ UNCHANGED Rest /\ UNCHANGED <<cur, mem, syncInProgress>>
      /\ NoBatch
  BY DEF FlushSettles, Rest
<1>2. syncInProgress' = FALSE
  <2>1. live = "idle"
    BY <1>1, ScanAlone DEF Scanning
  <2> QED BY <1>1, <2>1 DEF IInv, OneBlockAtATime, TypeOK, FlagTypes
<1>3. CASE EndSync /\ pending' = <<>> /\ UNCHANGED <<nextHeight, bestHeight>>
  BY <1>1, <1>2, <1>3, ScanFacts, EndStep DEF Scanning
<1>4. CASE Abort
  <2>2. write' = "none" /\ wblocks' \in Seq(Entry)
    BY <1>1 DEF NoBatch
  <2> QED BY <1>1, <1>2, <1>4, <2>2, ScanFacts, FailStep DEF Abort, Scanning
<1> QED BY <1>3, <1>4 DEF FlushSettles

-----------------------------------------------------------------------------
(* Live updates. *)

LEMMA ZmqBlockStep == ASSUME IInv, ZmqBlock PROVE IInv'
<1>1. /\ wire # <<>> /\ wire' = Tail(wire)
      /\ queue' = IF subscribed THEN Append(queue, Head(wire)) ELSE queue
      /\ UNCHANGED <<chain, reorgs, dbVars, scanVars, cur, live, subscribed, mem,
                     syncInProgress, stopVars, restarts>>
  BY DEF ZmqBlock
<1>2. wire' \in Seq(Block) /\ Head(wire) \in Block
  BY <1>1 DEF IInv, TypeOK, NodeTypes
<1>3. NodeTypes'
  BY <1>1, <1>2 DEF IInv, TypeOK, NodeTypes
<1>4. ChainShape'
  BY <1>1 DEF IInv, ChainShape, scanVars
<1>5. queue' \in Seq(Block)
  BY <1>1, <1>2 DEF IInv, TypeOK, LiveTypes
<1>6. LiveTypes'
  BY <1>1, <1>5 DEF IInv, TypeOK, LiveTypes
<1>7. Control' /\ OneBlockAtATime'
  BY <1>1 DEF IInv, Control, OneBlockAtATime, scanVars, dbVars, stopVars
<1> QED BY <1>1, <1>3, <1>4, <1>6, <1>7, StoreTypesFrame, ScanTypesFrame, StopTypesFrame,
           FlagTypesFrame, LogFrame, PositionFrame
        DEF IInv, TypeOK, dbVars, scanVars, stopVars

LEMMA LiveBeginStep == ASSUME IInv, LiveBegin PROVE IInv'
<1>1. /\ live = "idle" /\ queue # <<>> /\ queue' = Tail(queue)
      /\ UNCHANGED <<nodeVars, dbVars, scanVars, subscribed, mem, stopVars, restarts>>
      /\ \/ UNCHANGED <<live, cur, syncInProgress>>
         \/ live' = "block" /\ cur' = Head(queue) /\ syncInProgress' = TRUE
  BY DEF LiveBegin
<1>2. queue' \in Seq(Block) /\ Head(queue) \in Block
  BY <1>1 DEF IInv, TypeOK, LiveTypes
<1>3. scan = "watching"
  BY <1>1 DEF IInv, Control
<1>4. LiveTypes'
  BY <1>1, <1>2 DEF IInv, TypeOK, LiveTypes
<1>5. ScanTypes'
  BY <1>1, <1>2 DEF IInv, TypeOK, ScanTypes, scanVars
<1>6. FlagTypes'
  <2>1. syncInProgress' \in BOOLEAN
    BY <1>1 DEF IInv, TypeOK, FlagTypes
  <2> QED BY <1>1, <2>1 DEF IInv, TypeOK, FlagTypes, dbVars, stopVars
<1>7. ScanPosition' /\ BatchShape'
  BY <1>1, <1>3 DEF IInv, ScanPosition, BatchShape, dbVars, scanVars
<1>8. Control'
  BY <1>1, <1>3 DEF IInv, Control, dbVars, scanVars, stopVars
<1>9. OneBlockAtATime'
  BY <1>1, <1>3 DEF IInv, OneBlockAtATime, scanVars
<1> QED BY <1>1, <1>4, <1>5, <1>6, <1>7, <1>8, <1>9, NodeFrame, StoreTypesFrame, StopTypesFrame,
           LogFrame
        DEF IInv, TypeOK, nodeVars, dbVars, scanVars, stopVars

\* The end of a live block: nothing is being processed any more.
LEMMA LiveEndStep ==
  ASSUME IInv, live # "idle", LiveEnd,
         write' # "pending", wblocks' \in Seq(Entry), write' = "none",
         mem' \in Nat \cup {-1},
         UNCHANGED <<nodeVars, log, ckpt, writeFailed, scanVars, cur, queue, subscribed,
                     stopVars, restarts>>
  PROVE  IInv'
<1>1. scan = "watching"
  BY DEF IInv, Control
<1>2. live' = "idle" /\ syncInProgress' = FALSE
  BY DEF LiveEnd
<1>3. StoreTypes'
  BY DEF IInv, TypeOK, StoreTypes
<1>4. ScanTypes'
  BY DEF IInv, TypeOK, ScanTypes, scanVars
<1>5. LiveTypes'
  BY <1>2 DEF IInv, TypeOK, LiveTypes
<1>6. FlagTypes'
  BY <1>2 DEF IInv, TypeOK, FlagTypes, stopVars
<1>7. ScanPosition' /\ BatchShape'
  BY <1>1 DEF ScanPosition, BatchShape, scanVars
<1>8. Control'
  BY <1>1, <1>2 DEF IInv, Control, scanVars, stopVars
<1>9. OneBlockAtATime'
  BY <1>1, <1>2 DEF OneBlockAtATime, scanVars
<1> QED BY <1>3, <1>4, <1>5, <1>6, <1>7, <1>8, <1>9, NodeFrame, StopTypesFrame, LogFrame
        DEF IInv, TypeOK, nodeVars, scanVars, stopVars

LEMMA LiveBlockReadyStep == ASSUME IInv, LiveBlockReady PROVE IInv'
<1>1. /\ live = "block"
      /\ UNCHANGED <<nodeVars, log, ckpt, writeFailed, scanVars, cur, queue, subscribed,
                     stopVars, restarts>>
  BY DEF LiveBlockReady
<1>2. scan = "watching"
  BY <1>1 DEF IInv, Control
<1>3. CASE NoBatch /\ mem' = cur.height /\ LiveEnd
  <2>1. write' = "none" /\ wblocks' \in Seq(Entry)
    BY <1>3 DEF NoBatch
  <2>2. mem' \in Nat \cup {-1}
    BY <1>3, ScanFacts
  <2> QED BY <1>1, <1>3, <2>1, <2>2, LiveEndStep
<1>4. CASE /\ db = "open"
           /\ IssueBatch(<<Via(cur, "live")>>)
           /\ live' = "commit"
           /\ UNCHANGED <<mem, syncInProgress>>
  <2> DEFINE e == Via(cur, "live")
  <2>1. e \in Entry /\ e.via = "live"
    BY ScanFacts DEF Via, Entry, Block
  <2> HIDE DEF e
  <2>2. write' = "pending" /\ wblocks' = <<e>>
    BY <1>4 DEF IssueBatch, e
  <2>3. wblocks' \in Seq(Entry) /\ Len(wblocks') = 1 /\ wblocks'[1].via = "live"
    BY <2>1, <2>2
  <2>4. StoreTypes'
    BY <1>1, <2>2, <2>3 DEF IInv, TypeOK, StoreTypes
  <2>5. LiveTypes'
    BY <1>1, <1>4 DEF IInv, TypeOK, LiveTypes
  <2>6. ScanPosition' /\ BatchShape'
    BY <1>1, <1>2, <2>3 DEF ScanPosition, BatchShape, scanVars
  <2>7. Control'
    BY <1>1, <1>2, <1>4, <2>2 DEF IInv, Control, scanVars, stopVars
  <2>8. OneBlockAtATime'
    BY <1>1, <1>2, <1>4 DEF IInv, OneBlockAtATime, scanVars
  <2> QED BY <1>1, <1>4, <2>4, <2>5, <2>6, <2>7, <2>8, NodeFrame, ScanTypesFrame, StopTypesFrame,
             FlagTypesFrame, LogFrame
          DEF IInv, TypeOK, nodeVars, scanVars, stopVars
<1> QED BY <1>3, <1>4 DEF LiveBlockReady

LEMMA LiveBlockFailsStep == ASSUME IInv, LiveBlockFails PROVE IInv'
<1>1. /\ live = "block" /\ LiveEnd
      /\ UNCHANGED <<nodeVars, dbVars, scanVars, cur, queue, subscribed, mem, stopVars, restarts>>
  BY DEF LiveBlockFails
<1>2. write = "none"
  BY <1>1 DEF IInv, Control
<1>3. write' = "none" /\ wblocks' \in Seq(Entry) /\ mem' \in Nat \cup {-1}
  BY <1>1, <1>2, ScanFacts DEF dbVars
<1> QED BY <1>1, <1>3, LiveEndStep DEF dbVars

LEMMA LiveCommitSettlesStep == ASSUME IInv, LiveCommitSettles PROVE IInv'
<1>1. /\ live = "commit" /\ LiveEnd /\ NoBatch /\ mem' = cur.height
      /\ UNCHANGED <<nodeVars, log, ckpt, writeFailed, scanVars, cur, queue, subscribed,
                     stopVars, restarts>>
  BY DEF LiveCommitSettles
<1>2. write' = "none" /\ wblocks' \in Seq(Entry)
  BY <1>1 DEF NoBatch
<1>3. mem' \in Nat \cup {-1}
  BY <1>1, ScanFacts
<1> QED BY <1>1, <1>2, <1>3, LiveEndStep

-----------------------------------------------------------------------------
(* Stopping. *)

LEMMA RequestStopStep == ASSUME IInv, RequestStop PROVE IInv'
<1>1. /\ scan # "off" /\ ~stopping /\ stopping' = TRUE /\ stopper' = "draining"
      /\ UNCHANGED <<nodeVars, dbVars, scanVars, cur, liveVars, mem, syncInProgress, db,
                     drainTimedOut, restarts>>
  BY DEF RequestStop
<1>2. StopTypes'
  BY <1>1 DEF IInv, TypeOK, StopTypes
<1>3. FlagTypes'
  BY <1>1 DEF IInv, TypeOK, FlagTypes, dbVars, liveVars
<1>4. ScanPosition' /\ BatchShape'
  BY <1>1 DEF IInv, ScanPosition, BatchShape, RunAbove, LastOf, dbVars, scanVars
<1>5. db = "open"
  BY <1>1 DEF IInv, Control, TypeOK, StopTypes
<1>6. Control' /\ OneBlockAtATime'
  BY <1>1, <1>5 DEF IInv, Control, OneBlockAtATime, dbVars, scanVars, liveVars
<1> QED BY <1>1, <1>2, <1>3, <1>4, <1>6, NodeFrame, StoreTypesFrame, ScanTypesFrame,
           LiveTypesFrame, LogFrame
        DEF IInv, TypeOK, nodeVars, dbVars, scanVars, liveVars

\* Whatever the drain found, the database is closed after it.
LEMMA CloseInternalStep ==
  ASSUME IInv, stopper = "draining", CloseInternal, drainTimedOut' \in BOOLEAN,
         UNCHANGED <<nodeVars, dbVars, scanVars, cur, live, queue, mem, syncInProgress,
                     stopping, restarts>>
  PROVE  IInv'
<1>1. stopper' = "closing" /\ subscribed' = FALSE /\ db' = "closing"
  BY DEF CloseInternal
<1>2. StopTypes'
  BY <1>1 DEF IInv, TypeOK, StopTypes
<1>3. FlagTypes'
  BY <1>1 DEF IInv, TypeOK, FlagTypes, dbVars
<1>4. ScanPosition' /\ BatchShape'
  BY PositionFrame DEF IInv, dbVars, scanVars
<1>5. stopping /\ db = "open"
  BY DEF IInv, Control
<1>6. Control' /\ OneBlockAtATime'
  BY <1>1, <1>5 DEF IInv, Control, OneBlockAtATime, dbVars, scanVars
<1> QED BY <1>2, <1>3, <1>4, <1>6, NodeFrame, StoreTypesFrame, ScanTypesFrame,
           LiveTypesFrame, LogFrame
        DEF IInv, TypeOK, nodeVars, dbVars, scanVars

LEMMA DrainStep == ASSUME IInv, DrainDone \/ DrainTimeout PROVE IInv'
<1>1. drainTimedOut \in BOOLEAN
  BY DEF IInv, TypeOK, FlagTypes
<1> QED BY <1>1, CloseInternalStep DEF DrainDone, DrainTimeout

LEMMA CloseDoneStep == ASSUME IInv, CloseDone PROVE IInv'
<1>1. /\ stopper = "closing" /\ write # "pending" /\ db' = "closed" /\ stopper' = "closed"
      /\ UNCHANGED <<nodeVars, dbVars, scanVars, cur, liveVars, mem, syncInProgress, stopping,
                     drainTimedOut, restarts>>
  BY DEF CloseDone
<1>2. StopTypes'
  BY <1>1 DEF IInv, TypeOK, StopTypes
<1>3. ScanPosition' /\ BatchShape'
  BY <1>1, PositionFrame DEF IInv, dbVars, scanVars
<1>4. Control' /\ OneBlockAtATime'
  BY <1>1 DEF IInv, Control, OneBlockAtATime, dbVars, scanVars, liveVars
<1> QED BY <1>1, <1>2, <1>3, <1>4, NodeFrame, StoreTypesFrame, ScanTypesFrame,
           LiveTypesFrame, FlagTypesFrame, LogFrame
        DEF IInv, TypeOK, nodeVars, dbVars, scanVars, liveVars

LEMMA CrashStep == ASSUME IInv, Crash PROVE IInv'
<1>1. /\ restarts' = restarts + 1 /\ wire' = <<>>
      /\ db' = "closed" /\ write' = "none" /\ wblocks' = <<>>
      /\ scan' = "off" /\ pending' = <<>>
      /\ live' = "idle" /\ queue' = <<>> /\ subscribed' = FALSE
      /\ mem' = -1 /\ syncInProgress' = FALSE
      /\ stopping' = FALSE /\ stopper' = "none"
      /\ drainTimedOut' = FALSE /\ writeFailed' = FALSE
      /\ UNCHANGED <<chain, reorgs, log, ckpt, nextHeight, bestHeight, cur>>
  BY DEF Crash
<1>2. NodeTypes'
  BY <1>1 DEF IInv, TypeOK, NodeTypes
<1>3. StoreTypes'
  BY <1>1 DEF IInv, TypeOK, StoreTypes
<1>4. ScanTypes'
  BY <1>1 DEF IInv, TypeOK, ScanTypes
<1>5. LiveTypes' /\ StopTypes'
  BY <1>1 DEF IInv, TypeOK, LiveTypes, StopTypes
<1>6. FlagTypes'
  BY <1>1 DEF FlagTypes
<1>7. ChainShape'
  BY <1>1 DEF IInv, ChainShape
<1>8. ScanPosition' /\ BatchShape' /\ Control' /\ OneBlockAtATime'
  BY <1>1 DEF ScanPosition, BatchShape, Control, OneBlockAtATime
<1> QED BY <1>1, <1>2, <1>3, <1>4, <1>5, <1>6, <1>7, <1>8, LogFrame DEF IInv, TypeOK

-----------------------------------------------------------------------------
(* The theorems. *)

LEMMA NextIInv == ASSUME IInv, [Next]_vars PROVE IInv'
<1>1. CASE UNCHANGED vars
  <2>1. NodeTypes' /\ ChainShape' /\ CheckpointIsLast' /\ ScanContiguous'
    BY <1>1, NodeFrame, LogFrame DEF IInv, TypeOK, vars
  <2>2. StoreTypes' /\ ScanTypes' /\ LiveTypes' /\ StopTypes' /\ FlagTypes'
    BY <1>1, StoreTypesFrame, ScanTypesFrame, LiveTypesFrame, StopTypesFrame, FlagTypesFrame
       DEF IInv, TypeOK, vars
  <2>3. ScanPosition' /\ BatchShape' /\ Control' /\ OneBlockAtATime'
    BY <1>1, PositionFrame, ControlFrame DEF IInv, vars
  <2> QED BY <2>1, <2>2, <2>3 DEF IInv, TypeOK
<1>2. CASE Mine \/ Reorg \/ DbWrite \/ DbFail
  BY <1>2, MineStep, ReorgStep, DbWriteStep, DbFailStep
<1>3. CASE Start \/ LoadProgress \/ BeginScan \/ ResolveHash \/ BlockReady \/ BlockFails
  BY <1>3, StartStep, LoadProgressStep, BeginScanStep, ResolveHashStep, BlockReadyStep,
     BlockFailsStep
<1>4. CASE CommitSettles \/ FlushSettles
  BY <1>4, CommitSettlesStep, FlushSettlesStep
<1>5. CASE ZmqBlock \/ LiveBegin \/ LiveBlockReady \/ LiveBlockFails \/ LiveCommitSettles
  BY <1>5, ZmqBlockStep, LiveBeginStep, LiveBlockReadyStep, LiveBlockFailsStep,
     LiveCommitSettlesStep
<1>6. CASE RequestStop \/ DrainDone \/ DrainTimeout \/ CloseDone \/ Crash
  BY <1>6, RequestStopStep, DrainStep, CloseDoneStep, CrashStep
<1> QED BY <1>1, <1>2, <1>3, <1>4, <1>5, <1>6 DEF Next

\* The inductive invariant holds in every reachable state of the indexer,
\* for every batch size, with and without ZMQ.
THEOREM Invariance == Spec => []IInv
<1>1. Init => IInv
  BY InitIInv
<1>2. IInv /\ [Next]_vars => IInv'
  BY NextIInv
<1> QED BY <1>1, <1>2, PTL DEF Spec

\* Every variable keeps its type.
THEOREM TypeCorrect == Spec => []TypeOK
<1>1. IInv => TypeOK
  BY DEF IInv
<1> QED BY <1>1, Invariance, PTL

\* The scan applies one height after the other, across crashes, failed
\* batches, stops and live blocks (initialSync, commitOperations).
THEOREM ScanIsContiguous == Spec => []ScanContiguous
<1>1. IInv => ScanContiguous
  BY DEF IInv
<1> QED BY <1>1, Invariance, PTL

\* The scan and the chain of live updates never process blocks at the same
\* time, and syncInProgress says whether a stop must wait (awaitSyncDrain).
THEOREM ProcessingIsExclusive == Spec => []OneBlockAtATime
<1>1. IInv => OneBlockAtATime
  BY DEF IInv
<1> QED BY <1>1, Invariance, PTL

\* After closeInternal has closed the database nothing changes the index, not
\* even a block that a timed-out drain left in flight.
THEOREM StopFreezesIndex == Spec => StoppedIndexIsFrozen
<1>1. IInv /\ [Next]_vars => (stopper = "closed" => UNCHANGED <<log, ckpt>>)
  <2> SUFFICES ASSUME IInv, [Next]_vars, stopper = "closed"
               PROVE  UNCHANGED <<log, ckpt>>
    OBVIOUS
  <2>1. write # "pending"
    BY DEF IInv, Control
  <2>2. CASE UNCHANGED vars
    BY <2>2 DEF vars
  <2>3. CASE Next
    BY <2>1, <2>3
       DEF Next, dbVars, Mine, Reorg, DbWrite, DbFail, Start, LoadProgress, BeginScan,
           ResolveHash, BlockReady, BlockFails, CommitSettles, FlushSettles, ZmqBlock, LiveBegin,
           LiveBlockReady, LiveBlockFails, LiveCommitSettles, RequestStop, DrainDone,
           DrainTimeout, CloseDone, Crash
  <2> QED BY <2>2, <2>3
<1>2. IInv /\ [Next]_vars => [stopper = "closed" => UNCHANGED <<log, ckpt>>]_vars
  BY <1>1
<1> QED BY <1>2, Invariance, PTL DEF Spec, StoppedIndexIsFrozen

-----------------------------------------------------------------------------
(* The index implements the abstract store.  Only DbWrite touches it, and  *)
(* what the batch in flight may hold is BatchShape.                        *)

LEMMA OnlyDbWrite == ASSUME Next PROVE DbWrite \/ UNCHANGED <<log, ckpt>>
  BY DEF Next, dbVars, Mine, Reorg, DbFail, Start, LoadProgress, BeginScan,
         ResolveHash, BlockReady, BlockFails, CommitSettles, FlushSettles, ZmqBlock, LiveBegin,
         LiveBlockReady, LiveBlockFails, LiveCommitSettles, RequestStop, DrainDone,
         DrainTimeout, CloseDone, Crash

LEMMA AddedBlocks ==
  ASSUME NEW S, NEW s \in Seq(S), NEW t \in Seq(S), NEW u, u = s \o t
  PROVE  /\ SubSeq(u, Len(s) + 1, Len(u)) = t
         /\ SubSeq(u, 1, Len(s)) = s
         /\ Len(u) = Len(s) + Len(t)
         /\ Len(t) > 0 => u[Len(u)] = t[Len(t)]
<1>1. /\ u \in Seq(S) /\ Len(u) = Len(s) + Len(t)
      /\ \A i \in 1..Len(u) : u[i] = IF i <= Len(s) THEN s[i] ELSE t[i - Len(s)]
  OBVIOUS
<1>2. SubSeq(u, 1, Len(s)) = s
  BY <1>1
<1>3. SubSeq(u, Len(s) + 1, Len(u)) = t
  BY <1>1
<1>4. Len(t) > 0 => u[Len(u)] = t[Len(t)]
  BY <1>1
<1> QED BY <1>1, <1>2, <1>3, <1>4

LEMMA StoreStep ==
  ASSUME IInv, DbWrite
  PROVE  Store!Next
<1>1. /\ log \in Seq(Entry) /\ wblocks \in Seq(Entry) /\ Len(wblocks) > 0
  BY DEF DbWrite, IInv, TypeOK, StoreTypes, BatchShape
<1>2. log' = log \o wblocks /\ ckpt' = BlockOf(wblocks[Len(wblocks)])
  BY DEF DbWrite, LastOf
<1>3. /\ SubSeq(log', Len(log) + 1, Len(log')) = wblocks
      /\ SubSeq(log', 1, Len(log)) = log
      /\ Len(log') = Len(log) + Len(wblocks)
      /\ log'[Len(log')] = wblocks[Len(wblocks)]
  BY <1>1, <1>2, AddedBlocks
<1>4. Store!Added = wblocks
  BY <1>3 DEF Store!Added
<1>5. Store!Grow
  <2>1. Len(log') > Len(log)
    BY <1>1, <1>3
  <2>2. ckpt' = Store!Name(log'[Len(log')])
    BY <1>2, <1>3 DEF BlockOf, Store!Name
  <2> QED BY <1>3, <2>1, <2>2 DEF Store!Grow
<1>6. CASE scan = "watching"
  <2>1. Len(wblocks) = 1 /\ wblocks[1].via = "live"
    BY <1>6 DEF IInv, BatchShape, DbWrite
  <2> QED BY <1>4, <1>5, <2>1 DEF Store!Next, Store!AppendLive
<1>7. CASE scan # "watching"
  <2>1. RunAbove(wblocks) /\ Len(wblocks) <= BatchBlocks
    BY <1>7 DEF IInv, BatchShape, DbWrite
  <2> QED BY <1>4, <1>5, <2>1 DEF Store!Next, Store!AppendRun, RunAbove
<1> QED BY <1>6, <1>7

\* The LevelDB index of the code, with its scan, live updates, failures and
\* crashes, is an implementation of IndexStore.
THEOREM IndexImplementsStore == Spec => ImplementsStore
<1>1. Init => Store!Init
  BY DEF Init, Store!Init
<1>2. IInv /\ [Next]_vars => [Store!Next]_<<log, ckpt>>
  BY OnlyDbWrite, StoreStep DEF vars
<1> QED BY <1>1, <1>2, Invariance, PTL DEF Spec, ImplementsStore, Store!Spec

-----------------------------------------------------------------------------
(* How far the reported progress may be ahead of the checkpoint, wherever  *)
(* the scan stands: what makes LossBounded inductive.                      *)

Ahead ==
  /\ scan \in {"off", "load"} => mem = -1
  /\ scan = "tip" => mem <= ckpt.height
  /\ scan \in {"hash", "block"} => mem <= ckpt.height + Len(pending)
  /\ scan = "commit" => mem <= cur.height /\ cur.height <= ckpt.height + BatchBlocks
  /\ scan \in {"flush", "halted", "failed"} => mem <= ckpt.height + BatchBlocks
  /\ scan = "flush" /\ write = "pending" => mem <= LastOf(wblocks).height
  /\ scan = "flush" /\ write = "ok" => mem <= ckpt.height

LEMMA AheadFrame ==
  ASSUME Ahead, UNCHANGED <<scan, mem, ckpt, pending, cur, write, wblocks>>
  PROVE  Ahead'
  BY DEF Ahead, LastOf

\* The scan gives up, or ends, with at most a batch reported and not durable.
LEMMA AheadAtEnd ==
  ASSUME scan' \in {"halted", "watching", "failed"}, UNCHANGED ckpt,
         mem' <= ckpt.height + BatchBlocks
  PROVE  Ahead'
  BY DEF Ahead

\* Before its end the scan is never further ahead than the blocks it holds.
LEMMA AheadFacts ==
  ASSUME IInv, Ahead, scan \in Scanning \ {"load"}
  PROVE  mem <= ckpt.height + BatchBlocks
<1>1. scan = "tip" => mem <= ckpt.height
  BY DEF Ahead
<1>2. scan \in {"hash", "block"} => mem <= ckpt.height + Len(pending) /\ Len(pending) < BatchBlocks
  BY DEF Ahead, IInv, ScanPosition
<1>3. scan = "commit" => mem <= cur.height /\ cur.height <= ckpt.height + BatchBlocks
  BY DEF Ahead
<1>4. scan = "flush" => mem <= ckpt.height + BatchBlocks
  BY DEF Ahead
<1> QED BY <1>1, <1>2, <1>3, <1>4, CkptHeight DEF Scanning

LEMMA AheadLoop ==
  ASSUME IInv, UNCHANGED ckpt, mem' \in Int,
         NEW n, NEW best, NEW held \in Seq(Entry), Loop(n, best, held), RunAbove(held),
         mem' <= ckpt.height + BatchBlocks,
         ~stopping \/ held # <<>> => mem' <= ckpt.height + Len(held)
  PROVE  Ahead'
<1>1. CASE ~stopping /\ scan' = "hash" /\ pending' = held
  BY <1>1 DEF Ahead
<1>2. CASE EndSync
  BY <1>2, AheadAtEnd DEF EndSync
<1>3. CASE held # <<>> /\ Commit(held, "flush")
  <2>1. scan' = "flush" /\ write' = "pending" /\ wblocks' = held
    BY <1>3 DEF Commit, IssueBatch
  <2>2. LastOf(held).height = ckpt.height + Len(held)
    BY <1>3, RunTop
  <2>3. LastOf(wblocks)' = LastOf(held)
    BY <2>1 DEF LastOf
  <2> QED BY <1>3, <2>1, <2>2, <2>3 DEF Ahead
<1>4. CASE scan' = "failed"
  BY <1>4, AheadAtEnd
<1> QED BY <1>1, <1>2, <1>3, <1>4 DEF Loop

LEMMA AheadDbWrite == ASSUME IInv, Ahead, DbWrite PROVE Ahead'
<1>1. /\ write = "pending" /\ write' = "ok" /\ ckpt'.height = LastOf(wblocks).height
      /\ UNCHANGED <<scan, mem, pending, cur, nextHeight, wblocks>>
  BY DEF DbWrite, scanVars, BlockOf
<1>2. scan \in {"commit", "flush", "watching"}
  BY <1>1 DEF IInv, Control
<1>3. CASE scan = "commit"
  <2>1. ckpt'.height = cur.height
    BY <1>1, <1>3 DEF IInv, ScanPosition
  <2>2. mem <= cur.height /\ cur.height <= cur.height + BatchBlocks
    BY <1>3, CkptHeight DEF Ahead
  <2> QED BY <1>1, <1>3, <2>1, <2>2 DEF Ahead
<1>4. CASE scan = "flush"
  <2>1. mem <= ckpt'.height
    BY <1>1, <1>4 DEF Ahead
  <2>2. ckpt'.height \in Int
    <3>1. wblocks \in Seq(Entry) /\ Len(wblocks) > 0
      BY <1>1, ScanFacts DEF IInv, BatchShape
    <3>2. LastOf(wblocks) \in Entry
      BY <3>1, LastInSeq
    <3> QED BY <1>1, <3>2 DEF Entry
  <2>3. mem <= ckpt'.height + BatchBlocks
    BY <2>1, <2>2, CkptHeight
  <2> QED BY <1>1, <1>4, <2>1, <2>3 DEF Ahead
<1> QED BY <1>1, <1>2, <1>3, <1>4 DEF Ahead

LEMMA AheadScan ==
  ASSUME IInv, Ahead, BeginScan \/ ResolveHash \/ BlockFails \/ CommitSettles \/ FlushSettles
  PROVE  Ahead'
<1>0. /\ scan \in {"tip", "hash", "block", "commit", "flush"}
      /\ ckpt' = ckpt
  BY DEF BeginScan, ResolveHash, BlockFails, CommitSettles, FlushSettles
<1>a. mem <= ckpt.height + BatchBlocks
  BY <1>0, AheadFacts DEF Scanning
<1>1. ASSUME Abort, mem' = mem PROVE Ahead'
  BY <1>0, <1>a, <1>1, AheadAtEnd DEF Abort
<1>2. CASE BeginScan
  <2>1. scan = "tip" /\ mem' = mem /\ (Abort \/ Loop(mem + 1, Len(chain) - 1, <<>>))
    BY <1>2 DEF BeginScan
  <2>2. mem <= ckpt.height + Len(<<>>)
    BY <2>1, EmptyRun, CkptHeight DEF Ahead
  <2> QED BY <1>0, <1>a, <1>1, <2>1, <2>2, EmptyRun, CkptHeight, AheadLoop
<1>3. CASE ResolveHash
  <2>1. scan = "hash" /\ mem' = mem
    BY <1>3 DEF ResolveHash
  <2>2. mem <= ckpt.height + Len(pending) /\ RunAbove(pending)
    BY <2>1 DEF Ahead, IInv, ScanPosition
  <2>3. CASE scan' = "block" /\ UNCHANGED pending
    BY <1>0, <2>1, <2>2, <2>3 DEF Ahead
  <2>4. CASE Loop(nextHeight + 1, bestHeight, pending)
    BY <1>0, <1>a, <2>1, <2>2, <2>4, CkptHeight, ScanFacts, AheadLoop
  <2> QED BY <1>1, <1>3, <2>1, <2>3, <2>4 DEF ResolveHash
<1>4. CASE BlockFails
  BY <1>1, <1>4 DEF BlockFails
<1>5. CASE CommitSettles
  <2>1. scan = "commit" /\ mem' = cur.height
    BY <1>5 DEF CommitSettles
  <2>2. cur.height <= ckpt.height + BatchBlocks
    BY <2>1 DEF Ahead
  <2>3. CASE write = "ok" /\ Loop(nextHeight + 1, bestHeight, <<>>)
    <3>1. cur.height <= ckpt.height + Len(<<>>)
      BY <2>1, <2>3, EmptyRun, CkptHeight DEF IInv, ScanPosition
    <3> QED BY <1>0, <2>1, <2>2, <2>3, <3>1, EmptyRun, CkptHeight, AheadLoop
  <2>4. CASE Abort
    BY <1>0, <2>1, <2>2, <2>4, AheadAtEnd DEF Abort
  <2> QED BY <1>5, <2>3, <2>4 DEF CommitSettles
<1>6. CASE FlushSettles
  <2>1. mem' = mem /\ (EndSync \/ Abort)
    BY <1>6 DEF FlushSettles
  <2> QED BY <1>0, <1>a, <1>1, <2>1, AheadAtEnd DEF EndSync
<1> QED BY <1>2, <1>3, <1>4, <1>5, <1>6

LEMMA AheadBlockReady == ASSUME IInv, Ahead, BlockReady PROVE Ahead'
<1> DEFINE held == Append(pending, Via(cur, "scan"))
<1>1. scan = "block" /\ ckpt' = ckpt /\ cur' = cur
  BY DEF BlockReady
<1>2. /\ held \in Seq(Entry) /\ held # <<>>
      /\ Len(held) = Len(pending) + 1 /\ Len(held) <= BatchBlocks
      /\ RunAbove(held)
      /\ cur.height = ckpt.height + Len(held)
  BY <1>1, HeldRun
<1>x. \/ mem' = cur.height /\ Loop(nextHeight + 1, bestHeight, held)
      \/ /\ Commit(held, "commit")
         /\ mem' = IF BatchBlocks > 1 THEN cur.height ELSE mem
      \/ db = "closed" /\ mem' = cur.height /\ Loop(nextHeight + 1, bestHeight, <<>>)
      \/ mem' = cur.height /\ Abort
  BY Zenon DEF BlockReady
<1> HIDE DEF held
<1>3. cur.height <= ckpt.height + BatchBlocks /\ mem <= cur.height
  <2>1. mem <= ckpt.height + Len(pending)
    BY <1>1 DEF Ahead
  <2> QED BY <1>2, <2>1, CkptHeight
<1>4. CASE mem' = cur.height /\ Loop(nextHeight + 1, bestHeight, held)
  <2>1. mem' <= ckpt.height + Len(held)
    BY <1>2, <1>4, CkptHeight
  <2> QED BY <1>1, <1>2, <1>3, <1>4, <2>1, CkptHeight, AheadLoop
<1>5. CASE Commit(held, "commit") /\ mem' = IF BatchBlocks > 1 THEN cur.height ELSE mem
  <2>1. scan' = "commit" /\ mem' <= cur.height
    BY <1>3, <1>5, CkptHeight DEF Commit
  <2> QED BY <1>1, <1>3, <2>1 DEF Ahead
<1>6. CASE db = "closed" /\ mem' = cur.height /\ Loop(nextHeight + 1, bestHeight, <<>>)
  <2>1. stopping
    BY <1>1, <1>6 DEF IInv, Control
  <2> QED BY <1>1, <1>3, <1>6, <2>1, EmptyRun, CkptHeight, AheadLoop
<1>7. CASE mem' = cur.height /\ Abort
  BY <1>1, <1>3, <1>7, AheadAtEnd DEF Abort
<1> QED BY <1>x, <1>4, <1>5, <1>6, <1>7

LEMMA NextAhead == ASSUME IInv, Ahead, [Next]_vars PROVE Ahead'
<1>1. CASE UNCHANGED vars
  BY <1>1, AheadFrame DEF vars
<1>2. CASE Mine \/ Reorg \/ ZmqBlock \/ RequestStop \/ DrainDone \/ DrainTimeout \/ CloseDone
  <2>1. UNCHANGED <<dbVars, scanVars, cur, mem>>
    BY <1>2 DEF Mine, Reorg, ZmqBlock, RequestStop, DrainDone, DrainTimeout, CloseDone
  <2> QED BY <2>1, AheadFrame DEF dbVars, scanVars
<1>3. CASE DbFail
  <2>1. write' = "error" /\ UNCHANGED <<scan, mem, ckpt, pending, cur>>
    BY <1>3 DEF DbFail, scanVars
  <2> QED BY <2>1 DEF Ahead
<1>4. CASE Start
  <2>1. scan' = "load" /\ mem' = -1
    <3>1. scan = "off"
      BY <1>4 DEF Start
    <3> QED BY <1>4, <3>1 DEF Start, Ahead
  <2> QED BY <2>1 DEF Ahead
<1>5. CASE LoadProgress
  <2>1. scan = "load" /\ mem = -1 /\ ckpt' = ckpt
    BY <1>5 DEF LoadProgress, dbVars, Ahead
  <2>2. CASE scan' = "tip" /\ mem' = IF db = "open" THEN ckpt.height ELSE -1
    BY <2>1, <2>2, CkptHeight DEF Ahead
  <2>3. CASE scan' = "failed" /\ mem' = mem
    BY <2>1, <2>3, CkptHeight DEF Ahead
  <2> QED BY <1>5, <2>2, <2>3 DEF LoadProgress, Abort
<1>6. CASE LiveBegin \/ LiveBlockReady \/ LiveBlockFails \/ LiveCommitSettles
  <2>1. scan = "watching" /\ scan' = "watching"
    BY <1>6 DEF LiveBegin, LiveBlockReady, LiveBlockFails, LiveCommitSettles, IInv, Control,
                scanVars
  <2> QED BY <2>1 DEF Ahead
<1>7. CASE Crash
  BY <1>7 DEF Crash, Ahead
<1> QED BY <1>1, <1>2, <1>3, <1>4, <1>5, <1>6, <1>7, AheadDbWrite, AheadScan, AheadBlockReady
        DEF Next

-----------------------------------------------------------------------------
(* What a stop may rely on once it has stopped waiting: what makes         *)
(* GracefulStopKeepsWork inductive.                                        *)

\* A failed batch is remembered; a live block's batch ends with that block.
SettledBatch ==
  /\ write = "error" => writeFailed
  /\ live = "commit" /\ write = "pending" => LastOf(wblocks).height = cur.height
  /\ live = "commit" /\ write = "ok" => ckpt.height = cur.height

\* Once a drain is over no block is in progress and none can arrive.
SettledStop ==
  stopper \in {"closing", "closed"} =>
    /\ ~subscribed
    /\ drainTimedOut \/ (~syncInProgress /\ queue = <<>>)

\* After the scan, what is reported is durable between two live blocks.
SettledProgress ==
  ~writeFailed /\ ~drainTimedOut =>
    (scan = "halted" \/ (scan = "watching" /\ live # "commit") => mem <= ckpt.height)

Settled == SettledBatch /\ SettledStop /\ SettledProgress

LEMMA SettledFrame ==
  ASSUME Settled,
         UNCHANGED <<write, writeFailed, live, wblocks, cur, ckpt, stopper, subscribed,
                     drainTimedOut, syncInProgress, queue, scan, mem>>
  PROVE  Settled'
  BY DEF Settled, SettledBatch, SettledStop, SettledProgress, LastOf

\* A step of the scan that does not end it.
LEMMA SettledScan ==
  ASSUME IInv, Settled, UNCHANGED Rest, scan \in Scanning,
         scan' \notin {"halted", "watching"}, write' \in {"none", "pending", write},
         subscribed' = subscribed, syncInProgress' \in {FALSE, syncInProgress}
  PROVE  Settled'
<1>1. /\ live = "idle" /\ live' = "idle" /\ queue' = queue
      /\ UNCHANGED <<writeFailed, stopper, drainTimedOut>>
  BY ScanAlone DEF Rest, stopVars
<1>2. SettledBatch'
  BY <1>1 DEF Settled, SettledBatch
<1>3. SettledStop'
  <2>1. syncInProgress' => syncInProgress
    OBVIOUS
  <2> QED BY <1>1, <2>1 DEF Settled, SettledStop
<1>4. SettledProgress'
  BY DEF SettledProgress
<1> QED BY <1>2, <1>3, <1>4 DEF Settled

\* A step that ends it.
LEMMA SettledEnd ==
  ASSUME IInv, Settled, UNCHANGED Rest, scan \in Scanning, NoBatch, EndSync,
         syncInProgress' = FALSE,
         ~writeFailed /\ ~drainTimedOut => mem' <= ckpt.height
  PROVE  Settled'
<1>1. /\ live' = "idle" /\ queue' = <<>> /\ write' = "none"
      /\ UNCHANGED <<writeFailed, stopper, stopping, drainTimedOut, ckpt>>
  BY ScanAlone DEF Rest, stopVars, NoBatch
<1>2. SettledBatch'
  BY <1>1 DEF SettledBatch
<1>3. SettledStop'
  <2>1. stopper \in {"closing", "closed"} => stopping
    BY DEF IInv, Control
  <2> QED BY <1>1, <2>1 DEF SettledStop, EndSync
<1>4. SettledProgress'
  BY <1>1 DEF SettledProgress
<1> QED BY <1>2, <1>3, <1>4 DEF Settled

\* A closed database under a scan: only a stop closes one, so it has stopped waiting.
LEMMA ClosedUnderScan ==
  ASSUME IInv, Settled, scan \in {"hash", "block", "commit"}, db = "closed"
  PROVE  drainTimedOut
<1>1. stopping /\ stopper = "closed"
  <2>1. stopping
    BY DEF IInv, Control
  <2> QED BY <2>1 DEF IInv, Control, TypeOK, StopTypes
<1>2. syncInProgress
  BY DEF IInv, OneBlockAtATime
<1> QED BY <1>1, <1>2 DEF Settled, SettledStop

LEMMA SettledLoop ==
  ASSUME IInv, Settled, UNCHANGED Rest, scan \in Scanning,
         NEW n, NEW best, NEW held, Loop(n, best, held),
         ~writeFailed /\ ~drainTimedOut /\ (held = <<>> \/ db = "closed") =>
            mem' <= ckpt.height
  PROVE  Settled'
<1>1. CASE ~stopping /\ scan' = "hash" /\ NoBatch /\ UNCHANGED subscribed
  <2>1. /\ live = "idle" /\ live' = "idle" /\ write' = "none"
        /\ stopper' = stopper
    BY <1>1, ScanAlone DEF Rest, NoBatch, stopVars
  <2>2. stopper \notin {"closing", "closed"}
    BY <1>1 DEF IInv, Control
  <2> QED BY <1>1, <2>1, <2>2 DEF Settled, SettledBatch, SettledStop, SettledProgress
<1>2. CASE /\ syncInProgress' = FALSE
           /\ held = <<>> \/ db = "closed"
           /\ NoBatch /\ EndSync
  <2>1. ~writeFailed /\ ~drainTimedOut => mem' <= ckpt.height
    BY <1>2
  <2> QED BY <1>2, <2>1, SettledEnd
<1>3. CASE syncInProgress' = FALSE /\ Commit(held, "flush")
  BY <1>3, SettledScan DEF Commit, IssueBatch
<1>4. CASE syncInProgress' = FALSE /\ NoBatch /\ scan' = "failed" /\ UNCHANGED subscribed
  BY <1>4, SettledScan DEF NoBatch
<1> QED BY <1>1, <1>2, <1>3, <1>4 DEF Loop

LEMMA SettledScanSteps ==
  ASSUME IInv, Ahead, Settled,
         BeginScan \/ ResolveHash \/ BlockReady \/ BlockFails \/ CommitSettles \/ FlushSettles
  PROVE  Settled'
<1>0. UNCHANGED Rest /\ scan \in Scanning
  BY DEF BeginScan, ResolveHash, BlockReady, BlockFails, CommitSettles, FlushSettles, Rest,
         Scanning
<1>1. ASSUME Abort, NoBatch, syncInProgress' \in {FALSE, syncInProgress} PROVE Settled'
  BY <1>0, <1>1, SettledScan DEF Abort, NoBatch
<1>2. CASE BeginScan
  <2>1. scan = "tip" /\ mem' = mem
    BY <1>2 DEF BeginScan
  <2>2. CASE Loop(mem + 1, Len(chain) - 1, <<>>)
    <3>1. mem' <= ckpt.height
      BY <2>1 DEF Ahead
    <3> QED BY <1>0, <2>2, <3>1, SettledLoop
  <2> QED BY <1>1, <1>2, <2>2 DEF BeginScan
<1>3. CASE ResolveHash
  <2>1. scan = "hash" /\ mem' = mem
    BY <1>3 DEF ResolveHash
  <2>2. CASE Loop(nextHeight + 1, bestHeight, pending)
    <3>1. mem <= ckpt.height + Len(pending)
      BY <2>1 DEF Ahead
    <3>2. pending = <<>> => mem <= ckpt.height
      BY <3>1, EmptyRun, CkptHeight
    <3>3. db = "closed" => drainTimedOut
      BY <2>1, ClosedUnderScan
    <3> QED BY <1>0, <2>1, <2>2, <3>2, <3>3, SettledLoop
  <2>3. CASE scan' = "block" /\ NoBatch /\ UNCHANGED <<subscribed, syncInProgress>>
    BY <1>0, <2>3, SettledScan DEF NoBatch
  <2> QED BY <1>1, <1>3, <2>2, <2>3 DEF ResolveHash
<1>4. CASE BlockReady
  <2> DEFINE held == Append(pending, Via(cur, "scan"))
  <2>1. scan = "block"
    BY <1>4 DEF BlockReady
  <2>2. held # <<>>
    BY <2>1, HeldRun
  <2>3. db = "closed" => drainTimedOut
    BY <2>1, ClosedUnderScan
  <2>x. \/ Loop(nextHeight + 1, bestHeight, held)
        \/ Commit(held, "commit") /\ UNCHANGED syncInProgress
        \/ db = "closed" /\ Loop(nextHeight + 1, bestHeight, <<>>)
        \/ NoBatch /\ Abort /\ syncInProgress' = FALSE
    BY <1>4, Zenon DEF BlockReady
  <2> HIDE DEF held
  <2>4. CASE Loop(nextHeight + 1, bestHeight, held)
    BY <1>0, <2>2, <2>3, <2>4, SettledLoop
  <2>5. CASE Commit(held, "commit") /\ UNCHANGED syncInProgress
    BY <1>0, <2>5, SettledScan DEF Commit, IssueBatch
  <2>6. CASE db = "closed" /\ Loop(nextHeight + 1, bestHeight, <<>>)
    BY <1>0, <2>3, <2>6, SettledLoop
  <2> QED BY <1>1, <2>x, <2>4, <2>5, <2>6
<1>5. CASE BlockFails
  BY <1>1, <1>5 DEF BlockFails
<1>6. CASE CommitSettles
  <2>1. CASE write = "ok" /\ Loop(nextHeight + 1, bestHeight, <<>>)
    <3>1. scan = "commit" /\ mem' = cur.height
      BY <1>6 DEF CommitSettles
    <3>2. mem' <= ckpt.height
      BY <2>1, <3>1, CkptHeight DEF IInv, ScanPosition
    <3> QED BY <1>0, <2>1, <3>2, SettledLoop
  <2> QED BY <1>1, <1>6, <2>1 DEF CommitSettles
<1>7. CASE FlushSettles
  <2>1. scan = "flush" /\ mem' = mem /\ NoBatch /\ UNCHANGED syncInProgress
    BY <1>7 DEF FlushSettles
  <2>2. CASE write = "ok" /\ EndSync
    <3>1. mem' <= ckpt.height
      BY <2>1, <2>2 DEF Ahead
    <3>2. syncInProgress' = FALSE
      <4>1. live = "idle"
        BY <1>0, ScanAlone
      <4> QED BY <2>1, <4>1 DEF IInv, OneBlockAtATime, TypeOK, FlagTypes
    <3> QED BY <1>0, <2>1, <2>2, <3>1, <3>2, SettledEnd
  <2> QED BY <1>1, <1>7, <2>1, <2>2 DEF FlushSettles
<1> QED BY <1>2, <1>3, <1>4, <1>5, <1>6, <1>7

LEMMA SettledBatchSteps == ASSUME IInv, Settled, DbWrite \/ DbFail PROVE Settled'
<1>1. /\ write = "pending" /\ write' \in {"ok", "error"}
      /\ UNCHANGED <<wblocks, scan, cur, live, subscribed, queue, mem, syncInProgress,
                     stopper, drainTimedOut>>
  BY DEF DbWrite, DbFail, scanVars, liveVars, stopVars
<1>2. SettledStop'
  BY <1>1 DEF Settled, SettledStop
<1>3. SettledBatch'
  <2>1. CASE DbWrite
    BY <1>1, <2>1 DEF Settled, SettledBatch, DbWrite, BlockOf
  <2>2. CASE DbFail
    BY <1>1, <2>2 DEF SettledBatch, DbFail
  <2> QED BY <2>1, <2>2
<1>4. SettledProgress'
  <2>1. scan \in {"commit", "flush"} \/ live = "commit"
    BY <1>1 DEF IInv, Control
  <2>2. live = "commit" => scan = "watching"
    BY DEF IInv, Control
  <2> QED BY <1>1, <2>1, <2>2 DEF SettledProgress
<1> QED BY <1>2, <1>3, <1>4 DEF Settled

\* A live block has ended: what it reports is durable, unless its batch failed
\* or the database was closed under it.
LEMMA SettledLiveEnd ==
  ASSUME IInv, Settled, live # "idle", LiveEnd, write' = "none",
         UNCHANGED <<ckpt, writeFailed, scanVars, queue, subscribed, stopVars>>,
         ~writeFailed /\ ~drainTimedOut => mem' <= ckpt.height
  PROVE  Settled'
<1>1. live' = "idle" /\ syncInProgress' = FALSE
  BY DEF LiveEnd
<1>2. SettledBatch'
  BY <1>1 DEF SettledBatch
<1>3. SettledStop'
  BY <1>1 DEF Settled, SettledStop, stopVars
<1>4. SettledProgress'
  BY DEF SettledProgress, stopVars
<1> QED BY <1>2, <1>3, <1>4 DEF Settled

LEMMA SettledLiveSteps ==
  ASSUME IInv, Settled, LiveBegin \/ LiveBlockReady \/ LiveBlockFails \/ LiveCommitSettles
  PROVE  Settled'
<1>1. CASE LiveBegin
  <2>1. /\ live = "idle" /\ queue # <<>> /\ live' \in {"idle", "block"}
        /\ UNCHANGED <<dbVars, scanVars, subscribed, mem, stopVars>>
    BY <1>1 DEF LiveBegin
  <2>2. SettledBatch'
    BY <2>1 DEF Settled, SettledBatch, dbVars
  <2>3. SettledStop'
    BY <2>1 DEF Settled, SettledStop, stopVars
  <2>4. SettledProgress'
    BY <2>1 DEF Settled, SettledProgress, dbVars, scanVars, stopVars
  <2> QED BY <2>2, <2>3, <2>4 DEF Settled
<1>2. CASE LiveBlockReady
  <2>1. /\ live = "block"
        /\ UNCHANGED <<ckpt, writeFailed, scanVars, cur, queue, subscribed, stopVars>>
    BY <1>2 DEF LiveBlockReady
  <2>2. syncInProgress
    BY <2>1 DEF IInv, OneBlockAtATime
  <2>3. CASE db # "open" /\ NoBatch /\ LiveEnd
    <3>1. stopper \in {"closing", "closed"}
      <4>1. stopping
        BY <2>1, <2>3 DEF IInv, Control
      <4> QED BY <2>3, <4>1 DEF IInv, Control, TypeOK, StopTypes
    <3>2. drainTimedOut
      BY <2>2, <3>1 DEF Settled, SettledStop
    <3> QED BY <2>1, <2>3, <3>2, SettledLiveEnd DEF NoBatch
  <2>4. CASE IssueBatch(<<Via(cur, "live")>>) /\ live' = "commit" /\ UNCHANGED syncInProgress
    <3>1. write' = "pending" /\ wblocks' = <<Via(cur, "live")>>
      BY <2>4 DEF IssueBatch
    <3>2. LastOf(wblocks)'.height = cur'.height
      BY <2>1, <3>1 DEF LastOf, Via
    <3>3. SettledBatch'
      BY <3>1, <3>2 DEF SettledBatch
    <3>4. SettledStop'
      BY <2>1, <2>4 DEF Settled, SettledStop, stopVars
    <3>5. scan' = "watching" /\ live' = "commit"
      BY <2>1, <2>4 DEF IInv, Control, scanVars
    <3>6. SettledProgress'
      BY <3>5 DEF SettledProgress
    <3> QED BY <3>3, <3>4, <3>6 DEF Settled
  <2> QED BY <1>2, <2>3, <2>4 DEF LiveBlockReady
<1>3. CASE LiveBlockFails
  <2>1. /\ live = "block" /\ LiveEnd /\ mem' = mem
        /\ UNCHANGED <<dbVars, scanVars, queue, subscribed, stopVars>>
    BY <1>3 DEF LiveBlockFails
  <2>2. write' = "none" /\ scan = "watching"
    BY <2>1 DEF IInv, Control, dbVars
  <2>3. ~writeFailed /\ ~drainTimedOut => mem' <= ckpt.height
    BY <2>1, <2>2 DEF Settled, SettledProgress
  <2> QED BY <2>1, <2>2, <2>3, SettledLiveEnd DEF dbVars
<1>4. CASE LiveCommitSettles
  <2>1. /\ live = "commit" /\ write \in {"ok", "error"} /\ LiveEnd /\ mem' = cur.height
        /\ write' = "none"
        /\ UNCHANGED <<ckpt, writeFailed, scanVars, queue, subscribed, stopVars>>
    BY <1>4 DEF LiveCommitSettles, NoBatch
  <2>2. ~writeFailed => mem' <= ckpt.height
    BY <2>1, CkptHeight DEF Settled, SettledBatch
  <2> QED BY <2>1, <2>2, SettledLiveEnd
<1> QED BY <1>1, <1>2, <1>3, <1>4

LEMMA SettledStopSteps ==
  ASSUME IInv, Settled, RequestStop \/ DrainDone \/ DrainTimeout \/ CloseDone
  PROVE  Settled'
<1>1. UNCHANGED <<dbVars, scanVars, cur, live, queue, mem, syncInProgress>>
  BY DEF RequestStop, DrainDone, DrainTimeout, CloseDone, liveVars
<1>2. SettledBatch'
  BY <1>1 DEF Settled, SettledBatch, dbVars, LastOf
<1>3. drainTimedOut => drainTimedOut'
  BY DEF RequestStop, DrainDone, DrainTimeout, CloseDone
<1>4. SettledProgress'
  BY <1>1, <1>3 DEF Settled, SettledProgress, dbVars, scanVars
<1>5. SettledStop'
  <2>1. CASE RequestStop
    BY <2>1 DEF RequestStop, SettledStop
  <2>2. CASE DrainDone
    BY <1>1, <2>2 DEF DrainDone, CloseInternal, SettledStop
  <2>3. CASE DrainTimeout
    BY <2>3 DEF DrainTimeout, CloseInternal, SettledStop
  <2>4. CASE CloseDone
    BY <2>4 DEF CloseDone, Settled, SettledStop, liveVars
  <2> QED BY <2>1, <2>2, <2>3, <2>4
<1> QED BY <1>2, <1>4, <1>5 DEF Settled

LEMMA NextSettled == ASSUME IInv, Ahead, Settled, [Next]_vars PROVE Settled'
<1>1. CASE UNCHANGED vars \/ Mine \/ Reorg
  BY <1>1, SettledFrame DEF vars, Mine, Reorg, dbVars, scanVars, liveVars, stopVars
<1>2. CASE Start
  <2>1. /\ scan = "off" /\ scan' = "load"
        /\ UNCHANGED <<dbVars, liveVars, cur, stopper, drainTimedOut, syncInProgress>>
    BY <1>2 DEF Start
  <2>2. SettledBatch' /\ SettledStop'
    BY <2>1 DEF Settled, SettledBatch, SettledStop, dbVars, liveVars, LastOf
  <2>3. SettledProgress'
    BY <2>1 DEF SettledProgress
  <2> QED BY <2>2, <2>3 DEF Settled
<1>3. CASE LoadProgress
  <2>1. /\ scan = "load" /\ scan' \in {"tip", "failed"} /\ UNCHANGED Rest
        /\ write' = write /\ UNCHANGED <<subscribed, syncInProgress>>
    BY <1>3 DEF LoadProgress, Abort, Rest, dbVars
  <2> QED BY <2>1, SettledScan DEF Scanning
<1>4. CASE ZmqBlock
  <2>1. /\ queue' = IF subscribed THEN Append(queue, Head(wire)) ELSE queue
        /\ UNCHANGED <<dbVars, scanVars, cur, live, subscribed, mem, syncInProgress, stopVars>>
    BY <1>4 DEF ZmqBlock
  <2>2. SettledBatch' /\ SettledProgress'
    BY <2>1 DEF Settled, SettledBatch, SettledProgress, dbVars, scanVars, stopVars, LastOf
  <2>3. SettledStop'
    BY <2>1 DEF Settled, SettledStop, stopVars
  <2> QED BY <2>2, <2>3 DEF Settled
<1>5. CASE Crash
  <2>1. /\ write' = "none" /\ scan' = "off" /\ stopper' = "none"
    BY <1>5 DEF Crash
  <2> QED BY <2>1 DEF Settled, SettledBatch, SettledStop, SettledProgress
<1> QED BY <1>1, <1>2, <1>3, <1>4, <1>5, SettledScanSteps, SettledBatchSteps, SettledLiveSteps,
           SettledStopSteps
        DEF Next

-----------------------------------------------------------------------------
(* While the node has not reorganised: what the scan holds, works on and    *)
(* hands to LevelDB is on the chain, which makes ScanOnlyIsPrefix inductive.*)

OnChain(s) ==
  \A i \in DOMAIN s : /\ s[i].height < Len(chain)
                      /\ BlockOf(s[i]) = chain[s[i].height + 1]

Unforked ==
  reorgs = 0 =>
    /\ scan \in {"hash", "block"} => OnChain(pending)
    /\ scan = "block" => cur = chain[cur.height + 1]
    /\ write = "pending" /\ scan # "watching" => OnChain(wblocks)
    /\ ScanOnlyIsPrefix

LEMMA UnforkedFrame ==
  ASSUME Unforked, UNCHANGED <<reorgs, chain, log, scan, pending, cur, write, wblocks>>
  PROVE  Unforked'
  BY DEF Unforked, OnChain, ScanOnlyIsPrefix, BlockOf

LEMMA PrefixFrame ==
  ASSUME Unforked, UNCHANGED <<reorgs, chain, log>>
  PROVE  reorgs' = 0 => ScanOnlyIsPrefix'
  BY DEF Unforked, ScanOnlyIsPrefix, BlockOf

\* Blocks on the chain stay on it when it grows.
LEMMA StillOnChain ==
  ASSUME chain \in Seq(Block), NEW s \in Seq(Entry), OnChain(s),
         NEW b, chain' = Append(chain, b)
  PROVE  \A i \in DOMAIN s : /\ s[i].height < Len(chain')
                             /\ BlockOf(s[i]) = chain'[s[i].height + 1]
<1>1. /\ Len(chain) \in Nat /\ Len(chain') = Len(chain) + 1
      /\ \A k \in 1..Len(chain) : chain'[k] = chain[k]
  OBVIOUS
<1>2. ASSUME NEW i \in DOMAIN s
      PROVE  s[i].height < Len(chain') /\ BlockOf(s[i]) = chain'[s[i].height + 1]
  <2>1. s[i].height \in Nat
    <3>1. s[i] \in Entry
      BY <1>2
    <3> QED BY <3>1 DEF Entry
  <2>2. s[i].height < Len(chain) /\ BlockOf(s[i]) = chain[s[i].height + 1]
    BY <1>2 DEF OnChain
  <2>3. s[i].height + 1 \in 1..Len(chain)
    BY <1>1, <2>1, <2>2
  <2> QED BY <1>1, <2>1, <2>2, <2>3
<1> QED BY <1>2

LEMMA UnforkedMine == ASSUME IInv, Unforked, Mine PROVE Unforked'
<1>1. PICK b : chain' = Append(chain, b)
  BY DEF Mine
<1>2. /\ UNCHANGED <<reorgs, log, scan, pending, cur, write, wblocks, nextHeight, bestHeight>>
  BY DEF Mine, dbVars, scanVars
<1>3. /\ chain \in Seq(Block) /\ Len(chain) \in Nat
      /\ Len(chain') = Len(chain) + 1
      /\ \A k \in 1..Len(chain) : chain'[k] = chain[k]
  BY <1>1, ScanFacts
<1> SUFFICES ASSUME reorgs = 0
             PROVE  /\ scan \in {"hash", "block"} => OnChain(pending)'
                    /\ scan = "block" => cur = chain'[cur.height + 1]
                    /\ write = "pending" /\ scan # "watching" => OnChain(wblocks)'
                    /\ ScanOnlyIsPrefix'
  BY <1>2 DEF Unforked
<1>4. scan \in {"hash", "block"} => OnChain(pending)'
  BY <1>1, <1>2, <1>3, ScanFacts, StillOnChain DEF Unforked, OnChain
<1>5. write = "pending" /\ scan # "watching" => OnChain(wblocks)'
  BY <1>1, <1>2, <1>3, ScanFacts, StillOnChain DEF Unforked, OnChain
<1>6. scan = "block" => cur = chain'[cur.height + 1]
  <2> HAVE scan = "block"
  <2>1. cur.height = nextHeight /\ nextHeight <= bestHeight /\ bestHeight < Len(chain)
    BY DEF IInv, ScanPosition, ChainShape
  <2>2. cur.height + 1 \in 1..Len(chain)
    BY <1>3, <2>1, ScanFacts
  <2> QED BY <1>3, <2>2 DEF Unforked
<1>7. ScanOnlyIsPrefix'
  <2> SUFFICES ASSUME \A i \in DOMAIN log : log[i].via = "scan"
               PROVE  /\ Len(log) <= Len(chain')
                      /\ \A i \in DOMAIN log : BlockOf(log[i]) = chain'[i]
    BY <1>2 DEF ScanOnlyIsPrefix, BlockOf
  <2>1. /\ Len(log) <= Len(chain)
        /\ \A i \in DOMAIN log : BlockOf(log[i]) = chain[i]
    BY DEF Unforked, ScanOnlyIsPrefix
  <2>2. log \in Seq(Entry) /\ Len(log) \in Nat
    BY DEF IInv, TypeOK, StoreTypes
  <2>3. \A i \in DOMAIN log : i \in 1..Len(chain)
    BY <1>3, <2>1, <2>2
  <2> QED BY <1>3, <2>1, <2>2, <2>3
<1> QED BY <1>4, <1>5, <1>6, <1>7

LEMMA UnforkedDbWrite == ASSUME IInv, Unforked, DbWrite PROVE Unforked'
<1>1. /\ write = "pending" /\ write' = "ok" /\ log' = log \o wblocks
      /\ UNCHANGED <<reorgs, chain, scan, pending, cur, wblocks>>
  BY DEF DbWrite, nodeVars, scanVars
<1>2. /\ log \in Seq(Entry) /\ wblocks \in Seq(Entry)
      /\ Len(log) \in Nat /\ Len(wblocks) \in Nat /\ Len(wblocks) > 0
      /\ chain \in Seq(Block) /\ Len(chain) \in Nat
  BY <1>1, ScanFacts DEF IInv, TypeOK, StoreTypes, BatchShape
<1>3. /\ Len(log') = Len(log) + Len(wblocks)
      /\ \A i \in 1..Len(log') :
            log'[i] = IF i <= Len(log) THEN log[i] ELSE wblocks[i - Len(log)]
      /\ log' \in Seq(Entry)
  BY <1>1, <1>2
<1>4. ASSUME reorgs = 0, \A i \in DOMAIN log' : log'[i].via = "scan"
      PROVE  /\ Len(log') <= Len(chain)
             /\ \A i \in DOMAIN log' : BlockOf(log'[i]) = chain[i]
  <2>1. scan # "watching"
    <3>1. SUFFICES ASSUME scan = "watching" PROVE FALSE
      OBVIOUS
    <3>2. wblocks[1].via = "live"
      BY <1>1, <3>1 DEF IInv, BatchShape
    <3>3. /\ Len(log) + 1 \in 1..Len(log') /\ ~(Len(log) + 1 <= Len(log))
          /\ (Len(log) + 1) - Len(log) = 1
      BY <1>2, <1>3
    <3>4. log'[Len(log) + 1] = wblocks[1] /\ Len(log) + 1 \in DOMAIN log'
      BY <1>3, <3>3
    <3> QED BY <1>4, <3>2, <3>4
  <2>2. RunAbove(wblocks) /\ OnChain(wblocks)
    BY <1>1, <1>4, <2>1 DEF IInv, BatchShape, Unforked
  <2>3. \A i \in DOMAIN log : log[i].via = "scan"
    BY <1>2, <1>3, <1>4
  <2>4. Len(log) <= Len(chain) /\ \A i \in DOMAIN log : BlockOf(log[i]) = chain[i]
    BY <1>4, <2>3 DEF Unforked, ScanOnlyIsPrefix
  <2>5. ckpt.height = Len(log) - 1
    <3>1. CASE log = <<>>
      BY <3>1, EmptyRun DEF IInv, CheckpointIsLast, NoBlock
    <3>2. CASE log # <<>>
      <4>1. Len(log) \in DOMAIN log /\ Len(log) \in DOMAIN chain
        BY <1>2, <2>4, <3>2
      <4>2. ckpt = chain[Len(log)]
        BY <2>4, <3>2, <4>1 DEF IInv, CheckpointIsLast, LastOf
      <4> QED BY <4>1, <4>2 DEF IInv, ChainShape
    <3> QED BY <3>1, <3>2
  <2>6. ASSUME NEW i \in 1..Len(wblocks)
        PROVE  Len(log) + i \in 1..Len(chain) /\ BlockOf(wblocks[i]) = chain[Len(log) + i]
    <3>1. wblocks[i].height = ckpt.height + i /\ i \in DOMAIN wblocks
      BY <1>2, <2>2 DEF RunAbove
    <3>2. wblocks[i].height = Len(log) + i - 1
      BY <1>2, <2>5, <3>1
    <3>3. wblocks[i].height < Len(chain) /\ BlockOf(wblocks[i]) = chain[wblocks[i].height + 1]
      BY <2>2, <3>1 DEF OnChain
    <3>4. wblocks[i].height + 1 = Len(log) + i
      BY <1>2, <3>2
    <3>5. Len(log) + i \in 1..Len(chain)
      BY <1>2, <3>2, <3>3
    <3> QED BY <3>3, <3>4, <3>5
  <2>7. Len(log') <= Len(chain)
    <3>1. Len(wblocks) \in 1..Len(wblocks)
      BY <1>2
    <3>2. Len(log) + Len(wblocks) \in 1..Len(chain)
      BY <2>6, <3>1
    <3> QED BY <1>2, <1>3, <3>2
  <2>8. ASSUME NEW i \in 1..Len(log')
        PROVE  BlockOf(log'[i]) = chain[i]
    <3>1. CASE i <= Len(log)
      BY <1>2, <1>3, <2>4, <3>1
    <3>2. CASE i > Len(log)
      <4>1. i - Len(log) \in 1..Len(wblocks) /\ Len(log) + (i - Len(log)) = i
        BY <1>2, <1>3, <3>2
      <4>2. log'[i] = wblocks[i - Len(log)]
        BY <1>2, <1>3, <3>2
      <4>3. BlockOf(wblocks[i - Len(log)]) = chain[Len(log) + (i - Len(log))]
        BY <2>6, <4>1
      <4> QED BY <4>1, <4>2, <4>3
    <3> QED BY <1>2, <1>3, <3>1, <3>2
  <2> QED BY <1>3, <2>7, <2>8
<1>5. reorgs' = 0 => ScanOnlyIsPrefix'
  BY <1>1, <1>4 DEF ScanOnlyIsPrefix, BlockOf
<1>6. reorgs' = 0 => /\ scan' \in {"hash", "block"} => OnChain(pending)'
                     /\ scan' = "block" => cur' = chain'[cur'.height + 1]
  BY <1>1 DEF Unforked, OnChain, BlockOf
<1> QED BY <1>1, <1>5, <1>6 DEF Unforked

\* The scan collects blocks, or gives what it has to LevelDB.
LEMMA UnforkedScan ==
  ASSUME Unforked, UNCHANGED <<reorgs, chain, log>>,
         reorgs = 0 =>
           /\ scan' \in {"hash", "block"} => OnChain(pending')
           /\ scan' = "block" => cur' = chain[cur'.height + 1]
           /\ write' = "pending" => OnChain(wblocks')
  PROVE  Unforked'
<1>1. reorgs' = 0 => ScanOnlyIsPrefix'
  BY PrefixFrame
<1> QED BY <1>1 DEF Unforked, OnChain, BlockOf

LEMMA UnforkedLoop ==
  ASSUME Unforked, UNCHANGED <<reorgs, chain, log>>,
         NEW n, NEW best, NEW held, Loop(n, best, held), reorgs = 0 => OnChain(held)
  PROVE  Unforked'
<1>1. CASE scan' = "hash" /\ pending' = held /\ NoBatch
  BY <1>1, UnforkedScan DEF NoBatch
<1>2. CASE NoBatch /\ EndSync
  BY <1>2, UnforkedScan DEF NoBatch, EndSync
<1>3. CASE Commit(held, "flush")
  BY <1>3, UnforkedScan DEF Commit, IssueBatch
<1>4. CASE NoBatch /\ scan' = "failed"
  BY <1>4, UnforkedScan DEF NoBatch
<1> QED BY <1>1, <1>2, <1>3, <1>4 DEF Loop

\* The block the scan is working on is the chain's, and joins the blocks it holds.
LEMMA HeldOnChain ==
  ASSUME IInv, Unforked, scan = "block", reorgs = 0,
         NEW held, held = Append(pending, Via(cur, "scan"))
  PROVE  OnChain(held)
<1>1. OnChain(pending) /\ cur = chain[cur.height + 1]
  BY DEF Unforked
<1>2. cur.height < Len(chain)
  <2>1. cur.height = nextHeight /\ nextHeight <= bestHeight /\ bestHeight < Len(chain)
    BY DEF IInv, ScanPosition, ChainShape
  <2> QED BY <2>1, ScanFacts
<1> DEFINE e == Via(cur, "scan")
<1>3. e \in Entry /\ e.height = cur.height /\ BlockOf(e) = cur
  BY ScanFacts DEF Via, Entry, Block, BlockOf
<1> HIDE DEF e
<1>4. /\ held \in Seq(Entry) /\ Len(held) = Len(pending) + 1 /\ Len(pending) \in Nat
      /\ \A i \in 1..Len(held) : held[i] = IF i = Len(held) THEN e ELSE pending[i]
  <2>1. held = Append(pending, e)
    BY DEF e
  <2> QED BY <1>3, <2>1, ScanFacts
<1>5. ASSUME NEW i \in 1..Len(held)
      PROVE  held[i].height < Len(chain) /\ BlockOf(held[i]) = chain[held[i].height + 1]
  <2>1. CASE i = Len(held)
    BY <1>1, <1>2, <1>3, <1>4, <2>1
  <2>2. CASE i # Len(held)
    <3>1. i \in DOMAIN pending /\ held[i] = pending[i]
      BY <1>4, <2>2, ScanFacts
    <3> QED BY <1>1, <3>1 DEF OnChain
  <2> QED BY <2>1, <2>2
<1> QED BY <1>4, <1>5 DEF OnChain

LEMMA NothingHeld == OnChain(<<>>)
  BY DEF OnChain

LEMMA UnforkedScanSteps ==
  ASSUME IInv, Unforked,
         BeginScan \/ ResolveHash \/ BlockReady \/ BlockFails \/ CommitSettles \/ FlushSettles
  PROVE  Unforked'
<1>0. UNCHANGED <<reorgs, chain, log>>
  BY DEF BeginScan, ResolveHash, BlockReady, BlockFails, CommitSettles, FlushSettles, nodeVars
<1>1. ASSUME Abort, NoBatch PROVE Unforked'
  BY <1>0, <1>1, UnforkedScan DEF Abort, NoBatch
<1>2. CASE BeginScan \/ CommitSettles
  BY <1>0, <1>1, <1>2, NothingHeld, UnforkedLoop DEF BeginScan, CommitSettles
<1>3. CASE ResolveHash
  <2>1. scan = "hash"
    BY <1>3 DEF ResolveHash
  <2>2. reorgs = 0 => OnChain(pending)
    BY <2>1 DEF Unforked
  <2>3. CASE cur' = chain[nextHeight + 1] /\ scan' = "block" /\ NoBatch /\ UNCHANGED pending
    <3>1. nextHeight + 1 \in DOMAIN chain
      <4>1. nextHeight <= bestHeight /\ bestHeight < Len(chain)
        BY <2>1 DEF IInv, ScanPosition, ChainShape
      <4> QED BY <4>1, ScanFacts
    <3>2. cur'.height = nextHeight
      BY <2>3, <3>1, ScanFacts DEF IInv, ChainShape
    <3> QED BY <1>0, <2>2, <2>3, <3>2, UnforkedScan DEF NoBatch
  <2>4. CASE Loop(nextHeight + 1, bestHeight, pending)
    BY <1>0, <2>2, <2>4, UnforkedLoop
  <2> QED BY <1>1, <1>3, <2>3, <2>4 DEF ResolveHash
<1>4. CASE BlockReady
  <2> DEFINE held == Append(pending, Via(cur, "scan"))
  <2>1. scan = "block"
    BY <1>4 DEF BlockReady
  <2>2. reorgs = 0 => OnChain(held)
    BY <2>1, HeldOnChain
  <2>x. \/ Loop(nextHeight + 1, bestHeight, held)
        \/ Commit(held, "commit")
        \/ Loop(nextHeight + 1, bestHeight, <<>>)
        \/ NoBatch /\ Abort
    BY <1>4, Zenon DEF BlockReady
  <2> HIDE DEF held
  <2>3. CASE Loop(nextHeight + 1, bestHeight, held)
    BY <1>0, <2>2, <2>3, UnforkedLoop
  <2>4. CASE Commit(held, "commit")
    BY <1>0, <2>2, <2>4, UnforkedScan DEF Commit, IssueBatch
  <2>5. CASE Loop(nextHeight + 1, bestHeight, <<>>)
    BY <1>0, <2>5, NothingHeld, UnforkedLoop
  <2> QED BY <1>1, <2>x, <2>3, <2>4, <2>5
<1>5. CASE BlockFails
  BY <1>1, <1>5 DEF BlockFails
<1>6. CASE FlushSettles
  BY <1>0, <1>1, <1>6, UnforkedScan DEF FlushSettles, EndSync, NoBatch
<1> QED BY <1>2, <1>3, <1>4, <1>5, <1>6

LEMMA NextUnforked == ASSUME IInv, Unforked, [Next]_vars PROVE Unforked'
<1>1. CASE UNCHANGED vars \/ ZmqBlock \/ RequestStop \/ DrainDone \/ DrainTimeout \/ CloseDone
  <2>1. UNCHANGED <<reorgs, chain, log, scan, pending, cur, write, wblocks>>
    BY <1>1 DEF vars, ZmqBlock, RequestStop, DrainDone, DrainTimeout, CloseDone, nodeVars, dbVars,
                scanVars
  <2> QED BY <2>1, UnforkedFrame
<1>2. CASE Reorg
  <2>1. reorgs' = reorgs + 1 /\ reorgs \in Nat
    BY <1>2 DEF Reorg, IInv, TypeOK, NodeTypes
  <2>2. reorgs' # 0
    BY <2>1
  <2> QED BY <2>2 DEF Unforked
<1>3. CASE Start \/ LoadProgress
  <2>1. /\ scan \in {"off", "load"} /\ scan' \in {"load", "tip", "failed"}
        /\ UNCHANGED <<reorgs, chain, log, write>>
    BY <1>3 DEF Start, LoadProgress, Abort, nodeVars, dbVars
  <2>2. write' # "pending"
    BY <2>1 DEF IInv, Control
  <2> QED BY <2>1, <2>2, UnforkedScan
<1>4. CASE LiveBegin \/ LiveBlockReady \/ LiveBlockFails \/ LiveCommitSettles
  <2>1. scan = "watching" /\ UNCHANGED <<reorgs, chain, log, scan>>
    BY <1>4 DEF LiveBegin, LiveBlockReady, LiveBlockFails, LiveCommitSettles, IInv, Control,
                nodeVars, dbVars, scanVars
  <2> QED BY <2>1, PrefixFrame DEF Unforked
<1>5. CASE DbFail \/ Crash
  <2>1. /\ UNCHANGED <<reorgs, chain, log>> /\ write' # "pending"
        /\ scan' = "off" \/ UNCHANGED <<scan, pending, cur>>
    BY <1>5 DEF DbFail, Crash, nodeVars, scanVars
  <2> QED BY <2>1, UnforkedScan DEF Unforked
<1> QED BY <1>1, <1>2, <1>3, <1>4, <1>5, UnforkedMine, UnforkedDbWrite, UnforkedScanSteps
        DEF Next

-----------------------------------------------------------------------------
(* The theorems. *)

LEMMA InitDurable == Init => Ahead /\ Settled /\ Unforked
<1> SUFFICES ASSUME Init PROVE Ahead /\ Settled /\ Unforked
  OBVIOUS
<1>1. Ahead
  BY DEF Init, Ahead
<1>2. Settled
  BY DEF Init, Settled, SettledBatch, SettledStop, SettledProgress
<1>3. Unforked
  BY DEF Init, Unforked, ScanOnlyIsPrefix, Genesis
<1> QED BY <1>1, <1>2, <1>3

\* What the indexer reports, what a stop keeps, and what the scan has built
\* follow from one more layer of invariants, on top of IInv.
THEOREM DurableInvariance == Spec => [](Ahead /\ Settled /\ Unforked)
<1>1. IInv /\ (Ahead /\ Settled /\ Unforked) /\ [Next]_vars => (Ahead /\ Settled /\ Unforked)'
  BY NextAhead, NextSettled, NextUnforked
<1> QED BY <1>1, InitDurable, Invariance, PTL DEF Spec

\* Whatever crashes, fails or stops, the progress reported by a scan is at most one
\* batch ahead of the checkpoint a restart finds (pendingOperations, recordBlockSample).
THEOREM LossIsBounded == Spec => []LossBounded
<1>1. IInv /\ Ahead => LossBounded
  <2> SUFFICES ASSUME IInv, Ahead, scan \notin {"off", "load", "watching"}
               PROVE  mem <= ckpt.height + BatchBlocks
    BY DEF LossBounded
  <2>1. scan \in Scanning \ {"load"} \/ scan \in {"halted", "failed"}
    BY DEF IInv, TypeOK, ScanTypes, Scanning
  <2> QED BY <2>1, AheadFacts DEF Ahead
<1> QED BY <1>1, Invariance, DurableInvariance, PTL

\* A drained stop loses nothing: the poll of syncInProgress and the wait for
\* syncChain, in awaitSyncDrain, miss neither a commit nor the last flush.
THEOREM GracefulStopIsSafe == Spec => []GracefulStopKeepsWork
<1>1. IInv /\ Ahead /\ Settled => GracefulStopKeepsWork
  <2> SUFFICES ASSUME IInv, Ahead, Settled, stopper = "closed", ~drainTimedOut, ~writeFailed,
                      scan # "failed"
               PROVE  mem <= ckpt.height
    BY DEF GracefulStopKeepsWork
  <2>1. ~syncInProgress /\ db = "closed"
    BY DEF Settled, SettledStop, IInv, Control
  <2>2. scan \in {"off", "load", "tip", "flush", "watching", "halted"} /\ live = "idle"
    BY <2>1 DEF IInv, OneBlockAtATime, TypeOK, ScanTypes
  <2>3. CASE scan = "flush"
    <3>1. write = "ok"
      BY <2>1, <2>2, <2>3 DEF IInv, Control, TypeOK, StoreTypes, Settled, SettledBatch
    <3> QED BY <2>3, <3>1 DEF Ahead
  <2>4. CASE scan \in {"watching", "halted"}
    BY <2>2, <2>4 DEF Settled, SettledProgress
  <2>5. CASE scan \in {"off", "load", "tip"}
    BY <2>5, CkptHeight DEF Ahead
  <2> QED BY <2>2, <2>3, <2>4, <2>5
<1> QED BY <1>1, Invariance, DurableInvariance, PTL

\* Until a live update or a reorganisation, the index is a prefix of the node's
\* chain, for every batch size and across every crash, failed batch and restart.
THEOREM ScanBuildsPrefix == Spec => []ScanOnlyIsPrefix
<1>1. Unforked => ScanOnlyIsPrefix
  BY DEF Unforked, ScanOnlyIsPrefix
<1> QED BY <1>1, DurableInvariance, PTL

=============================================================================

------------------------------- MODULE ReadProofs -------------------------------
(***************************************************************************)
(* Theorems about five of the paths a page is read over: searches          *)
(* (SearchRouting), the status of the indexer (IndexerStatus), address and *)
(* xpub pages (AddressQueries), walks over the pages of a list (PageWalk), *)
(* and the snapshot of the mempool (MempoolView).  The five share nothing; *)
(* each part has its inductive invariant, its preservation and its         *)
(* theorems.                                                               *)
(***************************************************************************)
EXTENDS SearchRouting, IndexerStatus, AddressQueries, PageWalk, MempoolView,
        FiniteSetTheorems, FunctionTheorems, SequenceTheorems, TLAPS

--------------------------------------------------------------------------------
(* Searches. *)

\* What a search has heard of its hash. A hash that is no block by the time the
\* transaction is looked up has been absent, or still names a transaction.
Heard ==
  /\ searchPhase # "idle" => names[hash] \in named
  /\ searchPhase \in {"block", "tx"} => query = "hash"
  /\ searchPhase = "tx" => Nothing \in named \/ names[hash] = "tx"
  /\ failed => searchPhase = "answered"

SearchIInv == SearchInvariant /\ Heard

LEMMA SearchStarts == SearchInit => SearchIInv
BY DEF SearchInit, SearchIInv, SearchInvariant, SearchTypeOK, AbsentOnlyIfAbsent,
       FailureIsReported, Heard, Forms, SearchAnswers, Nothing

\* What happens to a hash outside of the search.
LEMMA HashChanges ==
  ASSUME SearchIInv, NEW h \in Hash, Appears(h) \/ Dropped(h) \/ Expires(h)
  PROVE  SearchIInv'
<1> USE DEF SearchIInv, SearchInvariant, SearchTypeOK, AbsentOnlyIfAbsent, FailureIsReported,
            Heard, Nothing
<1>1. CASE Appears(h)
  BY <1>1 DEF Appears, Hears
<1>2. CASE Dropped(h)
  BY <1>2 DEF Dropped, Hears
<1>3. CASE Expires(h)
  BY <1>3 DEF Expires, queryVars
<1> QED BY <1>1, <1>2, <1>3

LEMMA SearchSteps ==
  ASSUME SearchIInv, [SearchNext]_searchVars PROVE SearchIInv'
<1> USE DEF SearchIInv, SearchInvariant, SearchTypeOK, AbsentOnlyIfAbsent, FailureIsReported,
            Heard, Nothing
<1>1. CASE \E h \in Hash : Appears(h) \/ Dropped(h) \/ Expires(h)
  BY <1>1, HashChanges
<1>2. ASSUME NEW f \in Forms, NEW h \in Hash, BeginSearch(f, h) PROVE SearchIInv'
  BY <1>2 DEF BeginSearch, SearchAnswers
<1>3. CASE Classify
  BY <1>3 DEF Classify, ByForm, SearchAnswers, Forms
<1>4. CASE LookUpBlock
  <2> USE <1>4 DEF LookUpBlock
  <2>1. CASE Found("block")
    BY <2>1 DEF Found, SearchAnswers
  <2>2. CASE searchPhase' = "tx"
    BY <2>2 DEF AfterBlockError, Found, Holds, SearchAnswers
  <2>3. CASE searchPhase' = "answered" /\ failed' = TRUE /\ searchAnswer' = "unavailable"
             /\ UNCHANGED cached
    BY <2>3 DEF SearchAnswers
  <2> QED BY <2>1, <2>2, <2>3 DEF AfterBlockError
<1>5. CASE LookUpTx
  <2> USE <1>5 DEF LookUpTx
  <2>1. CASE Found("tx")
    BY <2>1 DEF Found, SearchAnswers
  <2>2. CASE ~Holds("tx") /\ searchAnswer' = "notFound" /\ searchPhase' = "answered"
             /\ UNCHANGED <<cached, failed>>
    BY <2>2 DEF Holds, SearchAnswers
  <2>3. CASE searchAnswer' = "unavailable" /\ searchPhase' = "answered" /\ failed' = TRUE
             /\ UNCHANGED cached
    BY <2>3 DEF SearchAnswers
  <2>4. ~failed
    OBVIOUS
  <2> QED BY <2>1, <2>2, <2>3, <2>4 DEF AnswerOfTxError
<1>6. CASE EndSearch
  BY <1>6 DEF EndSearch, SearchAnswers
<1>7. CASE UNCHANGED searchVars
  BY <1>7 DEF searchVars, queryVars
<1> QED BY <1>1, <1>2, <1>3, <1>4, <1>5, <1>6, <1>7 DEF SearchNext, Resolve

\* However hashes come and go between the two lookups and whatever fails, "not found" is
\* said only of a hash that was absent at some moment of the search, and a failure is never
\* taken for absence (bitcoinService.js:236-254).
THEOREM SearchesAnswerTruly == SearchSpec => []SearchInvariant
<1>1. SearchIInv => SearchInvariant
  BY DEF SearchIInv
<1> QED BY <1>1, SearchStarts, SearchSteps, PTL DEF SearchSpec

--------------------------------------------------------------------------------
(* The status of the indexer. *)

Sample == [at : Nat, duration : 0..MaxDuration]

\* The window is the end of the history, one sample for each of its moments.
WindowIsTail ==
  /\ samples \in Seq(Sample) /\ done \in Seq(Nat)
  /\ Len(samples) = IF Len(done) > SampleLimit THEN SampleLimit ELSE Len(done)
  /\ \A i \in 1..Len(samples) : samples[i].at = done[Len(done) - Len(samples) + i]

\* A request knows a height that the node had since it began, and nothing that is
\* processed is above the node's height.
InsideTheChain ==
  /\ last <= tip
  /\ \A r \in Request :
       /\ statusPhase[r] = "height" => tipAsked[r] \in 0..tip
       /\ statusPhase[r] = "hash" => tipAsked[r] \in 0..height[r] /\ height[r] \in 0..tip

StatusIInv == StatusTypeOK /\ OneStory /\ WindowIsTail /\ InsideTheChain

\* A window has a length, and one above 0 if a block in it took time.
LEMMA WindowLength ==
  ASSUME WindowIsTail
  PROVE  /\ WindowMs \in Int
         /\ (\E i \in DOMAIN samples : samples[i].duration > 0) => WindowMs > 0
<1> DEFINE cells == {ms \in (DOMAIN samples) \X (1..MaxDuration) :
                       ms[2] <= samples[ms[1]].duration}
<1>1. Len(samples) \in Nat /\ DOMAIN samples = 1..Len(samples)
  BY LenProperties DEF WindowIsTail
<1>2. IsFiniteSet((DOMAIN samples) \X (1..MaxDuration))
  <2>1. IsFiniteSet(1..Len(samples)) /\ IsFiniteSet(1..MaxDuration)
    BY <1>1, StatusAssumption, FS_Interval
  <2> QED BY <1>1, <2>1, FS_Product
<1>3. IsFiniteSet(cells) /\ Cardinality(cells) \in Nat
  BY <1>2, FS_Subset, FS_CardinalityType
<1>4. ASSUME NEW i \in DOMAIN samples, samples[i].duration > 0 PROVE Cardinality(cells) > 0
  <2>1. samples[i] \in Sample
    BY <1>1, ElementOfSeq DEF WindowIsTail
  <2>2. <<i, 1>> \in cells
    BY <2>1, <1>4, StatusAssumption DEF Sample
  <2> QED BY <2>2, <1>3, FS_EmptySet
<1>5. ASSUME samples # <<>> PROVE Last(samples).at - samples[1].at \in Int
  <2>1. 1 \in 1..Len(samples) /\ Len(samples) \in 1..Len(samples)
    BY <1>1, <1>5, EmptySeq DEF WindowIsTail
  <2>2. samples[1] \in Sample /\ samples[Len(samples)] \in Sample
    BY <2>1, ElementOfSeq DEF WindowIsTail
  <2> QED BY <2>2 DEF Sample, Last
<1>6. samples = <<>> => DOMAIN samples = {}
  OBVIOUS
<1> HIDE DEF cells
<1>7. TotalDuration = Cardinality(cells)
  BY DEF TotalDuration, cells
<1> QED BY <1>3, <1>4, <1>5, <1>6, <1>7 DEF WindowMs

\* The heights are numbers, and None is not one of them.
LEMMA Heights ==
  /\ Height \subseteq Nat /\ None = -1 /\ None \notin Height /\ None \in MaybeHeight
  /\ \A h \in MaybeHeight : h \in Int /\ (h # None => h \in Height /\ h \in Nat)
BY StatusAssumption DEF None, MaybeHeight

\* The percentage is 100 when nothing remains, and not while more than a 20000th does.
LEMMA PercentSays ==
  ASSUME last \in MaybeHeight, NEW h \in MaybeHeight, NEW p \in Percents(h)
  PROVE  /\ p \in Int /\ (p = None <=> h = None \/ last = None)
         /\ h # None /\ last # None =>
              /\ last >= h => p = Complete
              /\ p = Complete => 2 * Complete * Larger(0, h - last) <= h + 1
<1>1. CASE h = None \/ last = None
  BY <1>1 DEF Percents, None
<1>2. CASE h # None /\ last # None
  <2>1. h \in Nat /\ last \in Nat /\ None = -1
    BY <1>2, Heights
  <2> DEFINE blocks == h + 1
             processed == 1 + IF last < h THEN last ELSE h
  <2>2. PICK below : below = (Complete * processed) \div blocks
    OBVIOUS
  <2>3. /\ blocks \in Nat /\ blocks >= 1 /\ processed \in Nat /\ processed >= 1
        /\ processed <= blocks /\ (last >= h <=> processed = blocks)
        /\ blocks - processed = Larger(0, h - last)
    BY <2>1 DEF Larger
  <2>4. p \in {below, below + 1} /\ 2 * (p * blocks - Complete * processed) \in (-blocks)..blocks
    BY <1>2, <2>2 DEF Percents
  <2> HIDE DEF blocks, processed
  <2>5. below \in Nat
    BY <2>2, <2>3 DEF Complete
  <2>6. p \in Nat
    BY <2>4, <2>5
  <2>7. ASSUME last >= h PROVE p = Complete
    <3>1. 2 * (p * blocks - Complete * blocks) \in (-blocks)..blocks
      BY <2>3, <2>4, <2>7
    <3>2. PICK d \in Int : d = p - 10000
      BY <2>6
    <3>3. p * blocks - 10000 * blocks = d * blocks /\ d * blocks \in Int
      BY <2>3, <2>6, <3>2
    <3>4. 2 * (d * blocks) <= blocks /\ -blocks <= 2 * (d * blocks)
      BY <2>3, <3>1, <3>3 DEF Complete
    <3>5. ~(d >= 1)
      <4>1. d >= 1 => d * blocks >= blocks
        BY <2>3, <3>2
      <4> QED BY <2>3, <3>3, <3>4, <4>1
    <3>6. ~(d <= -1)
      <4>1. d <= -1 => d * blocks <= -blocks
        BY <2>3, <3>2
      <4> QED BY <2>3, <3>3, <3>4, <4>1
    <3> QED BY <2>6, <3>2, <3>5, <3>6 DEF Complete
  <2>8. ASSUME p = Complete PROVE 2 * Complete * Larger(0, h - last) <= h + 1
    <3>1. 2 * (10000 * blocks - 10000 * processed) <= blocks
      BY <2>3, <2>4, <2>8 DEF Complete
    <3>2. 2 * 10000 * (blocks - processed) <= blocks
      BY <2>3, <3>1
    <3> QED BY <2>3, <3>2 DEF Complete, blocks
  <2>9. p # None
    BY <2>1, <2>6
  <2> QED BY <1>2, <2>6, <2>7, <2>8, <2>9
<1> QED BY <1>1, <1>2

\* What OneStory says of one answer.
TellsOneStory(answer) ==
  /\ answer.state = "synced" <=> answer.remaining = 0
  /\ answer.state = "synced" => answer.percent = Complete
  /\ answer.percent = None <=> answer.remaining = None
  /\ answer.percent = Complete => 2 * Complete * answer.remaining <= answer.tip + 1
  /\ answer.eta # None => answer.state = "catching_up" /\ answer.eta >= 0

\* What getStatus makes of a height: one story, and an estimate where it owes one.
LEMMA StatusSays ==
  ASSUME StatusTypeOK, WindowIsTail, NEW h \in MaybeHeight, NEW p \in Percents(h)
  PROVE  /\ Status(h, p) \in Report
         /\ Status(h, p).state \notin {"none", "error"}
         /\ TellsOneStory(Status(h, p))
         /\ Status(h, p).remaining # None => h # None /\ last # None
                                          /\ Status(h, p).remaining = Larger(0, h - last)
         /\ Status(h, p).state = "catching_up" /\ WindowMs > 0 => Status(h, p).eta # None
<1>1. last \in MaybeHeight /\ last \in Int /\ h \in Int /\ None = -1
  BY Heights DEF StatusTypeOK
<1>2. BlocksRemaining(h) \in Int /\ (BlocksRemaining(h) > 0 \/ BlocksRemaining(h) = 0
                                      \/ BlocksRemaining(h) = None)
  BY <1>1 DEF BlocksRemaining, Larger, None
<1>3. BlocksRemaining(h) = None <=> h = None \/ last = None
  BY <1>1 DEF BlocksRemaining, Larger
<1>4. BlocksRemaining(h) = 0 => h # None /\ last # None /\ last >= h
  BY <1>1 DEF BlocksRemaining, Larger
<1>5. StateOf(h) \in States \ {"none", "error"}
  BY DEF StateOf, States
<1>6. StateOf(h) = "synced" <=> BlocksRemaining(h) = 0
  BY <1>3 DEF StateOf, None
<1>7. StateOf(h) = "catching_up" <=> BlocksRemaining(h) > 0
  BY <1>2, <1>3 DEF StateOf, None
<1>8. Eta(h) \in Nat \cup {None} /\ (Eta(h) # None <=> BlocksRemaining(h) > 0 /\ WindowMs > 0)
  <2>1. CASE BlocksRemaining(h) > 0 /\ WindowMs > 0
    <3>1. samples # <<>> /\ Len(samples) \in Nat \ {0}
      BY <2>1, LenProperties, EmptySeq DEF WindowMs, WindowIsTail
    <3>2. BlocksRemaining(h) * WindowMs \in Nat
      BY <1>2, <2>1, WindowLength
    <3>3. Eta(h) \in Nat
      BY <2>1, <3>1, <3>2 DEF Eta
    <3> QED BY <2>1, <3>3 DEF None
  <2>2. CASE ~(BlocksRemaining(h) > 0 /\ WindowMs > 0)
    BY <2>2 DEF Eta
  <2> QED BY <2>1, <2>2
<1>9. /\ p \in Int /\ (p = None <=> h = None \/ last = None)
      /\ h # None /\ last # None =>
           /\ last >= h => p = Complete
           /\ p = Complete => 2 * Complete * Larger(0, h - last) <= h + 1
  BY <1>1, PercentSays
<1>10. /\ Status(h, p).state = StateOf(h) /\ Status(h, p).remaining = BlocksRemaining(h)
       /\ Status(h, p).percent = p /\ Status(h, p).eta = Eta(h) /\ Status(h, p).tip = h
  BY DEF Status
<1>11. Status(h, p) \in Report
  BY <1>1, <1>2, <1>5, <1>8, <1>9 DEF Status, Report
<1>12. BlocksRemaining(h) # None => BlocksRemaining(h) = Larger(0, h - last)
  BY DEF BlocksRemaining
<1>13. Eta(h) # None => Eta(h) >= 0
  BY <1>8
<1>14. p = Complete => h # None /\ last # None /\ 2 * Complete * BlocksRemaining(h) <= h + 1
  <2>1. Complete # None
    BY DEF Complete, None
  <2> QED BY <1>3, <1>9, <1>12, <2>1
<1> HIDE DEF None
<1>15. TellsOneStory(Status(h, p))
  BY <1>3, <1>4, <1>6, <1>7, <1>8, <1>9, <1>10, <1>13, <1>14 DEF TellsOneStory
<1> QED BY <1>3, <1>5, <1>7, <1>8, <1>10, <1>11, <1>12, <1>15

LEMMA StatusStarts == StatusInit => StatusIInv
<1> SUFFICES ASSUME StatusInit PROVE StatusIInv
  OBVIOUS
<1>1. StatusTypeOK
  BY StatusAssumption DEF StatusInit, StatusTypeOK, NoAnswer, Report, States, None, MaybeHeight
<1>2. OneStory
  BY DEF StatusInit, OneStory, NoAnswer
<1>3. WindowIsTail
  BY StatusAssumption DEF StatusInit, WindowIsTail
<1>4. InsideTheChain
  BY StatusAssumption DEF StatusInit, InsideTheChain, None
<1> QED BY <1>1, <1>2, <1>3, <1>4 DEF StatusIInv

\* A block that is processed moves the window on.
LEMMA ProcessedStep ==
  ASSUME StatusIInv, NEW duration \in 0..MaxDuration, BlockProcessed(duration)
  PROVE  StatusIInv'
<1> DEFINE x == [at |-> now, duration |-> duration]
           n == Len(done)
           k == Len(samples)
           long == Append(samples, x)
<1>1. now \in Nat /\ x \in Sample
  BY StatusAssumption DEF StatusIInv, StatusTypeOK, Sample
<1>2. samples \in Seq(Sample) /\ done \in Seq(Nat) /\ n \in Nat /\ k \in Nat
  BY LenProperties DEF StatusIInv, WindowIsTail
<1>3. long \in Seq(Sample) /\ Len(long) = k + 1
      /\ \A i \in 1..k : long[i] = samples[i]
  BY <1>1, <1>2, AppendProperties
<1>4. long[k + 1] = x
  BY <1>1, <1>2, AppendProperties
<1>5. done' \in Seq(Nat) /\ Len(done') = n + 1 /\ done'[n + 1] = now
      /\ \A i \in 1..n : done'[i] = done[i]
  BY <1>1, <1>2, AppendProperties DEF BlockProcessed
<1>6. samples' = IF k + 1 > SampleLimit THEN Tail(long) ELSE long
  BY <1>3 DEF BlockProcessed, Window
<1>7. k = IF n > SampleLimit THEN SampleLimit ELSE n
  BY DEF StatusIInv, WindowIsTail
<1>8. \A i \in 1..k : samples[i].at = done[n - k + i]
  BY DEF StatusIInv, WindowIsTail
<1>9. SampleLimit \in Nat \ {0}
  BY StatusAssumption
<1>10. \A i \in 1..(k + 1) : long[i].at = done'[n - k + i]
  <2> SUFFICES ASSUME NEW i \in 1..(k + 1) PROVE long[i].at = done'[n - k + i]
    OBVIOUS
  <2>1. CASE i = k + 1
    BY <2>1, <1>2, <1>4, <1>5
  <2>2. CASE i \in 1..k
    <3>1. n - k + i \in 1..n
      BY <2>2, <1>2, <1>7, <1>9
    <3> QED BY <2>2, <3>1, <1>3, <1>5, <1>8
  <2> QED BY <2>1, <2>2, <1>2
<1> HIDE DEF x, n, k, long
<1>11. WindowIsTail'
  <2>1. CASE k + 1 > SampleLimit
    <3>1. samples' = Tail(long) /\ long # <<>> /\ k = SampleLimit
      BY <2>1, <1>2, <1>3, <1>6, <1>7, <1>9, EmptySeq
    <3>2. samples' \in Seq(Sample) /\ Len(samples') = k
          /\ \A i \in 1..k : samples'[i] = long[i + 1]
      BY <3>1, <1>2, <1>3, HeadTailProperties
    <3>3. n >= SampleLimit
      BY <3>1, <1>2, <1>7
    <3>4. \A i \in 1..k : samples'[i].at = done'[(n + 1) - k + i]
      <4> SUFFICES ASSUME NEW i \in 1..k PROVE samples'[i].at = done'[(n + 1) - k + i]
        OBVIOUS
      <4>1. i + 1 \in 1..(k + 1) /\ n - k + (i + 1) = (n + 1) - k + i
        BY <1>2
      <4> QED BY <4>1, <3>2, <1>10
    <3>5. \A i \in 1..Len(samples') : samples'[i].at = done'[Len(done') - Len(samples') + i]
      BY <1>5, <3>2, <3>4
    <3>6. Len(samples') = IF Len(done') > SampleLimit THEN SampleLimit ELSE Len(done')
      BY <1>2, <1>5, <1>9, <3>1, <3>2, <3>3
    <3> QED BY <1>5, <3>2, <3>5, <3>6 DEF WindowIsTail
  <2>2. CASE ~(k + 1 > SampleLimit)
    <3>1. samples' = long /\ k = n
      BY <2>2, <1>2, <1>6, <1>7, <1>9
    <3>2. \A i \in 1..(k + 1) : samples'[i].at = done'[(n + 1) - (k + 1) + i]
      BY <3>1, <1>2, <1>10
    <3> QED BY <1>2, <1>3, <1>5, <1>9, <2>2, <3>1, <3>2 DEF WindowIsTail
  <2> QED BY <2>1, <2>2
<1>12. StatusTypeOK'
  <2>1. Len(samples') <= SampleLimit
    BY <1>5, <1>9, <1>11 DEF WindowIsTail
  <2> QED BY <2>1, StatusAssumption
          DEF StatusIInv, StatusTypeOK, BlockProcessed, answerVars, MaybeHeight
<1>13. OneStory' /\ InsideTheChain'
  <2>1. last' <= tip'
    BY Heights DEF StatusIInv, StatusTypeOK, BlockProcessed, answerVars
  <2> QED BY <2>1 DEF StatusIInv, BlockProcessed, answerVars, OneStory, InsideTheChain
<1> QED BY <1>11, <1>12, <1>13 DEF StatusIInv

\* What holds of a new answer.
LEMMA AnswerStep ==
  ASSUME StatusIInv, NEW r \in Request, NEW h \in MaybeHeight, Answers(r, h)
  PROVE  StatusIInv'
<1>0. PICK p \in Percents(h) :
        /\ statusAnswer' = [statusAnswer EXCEPT ![r] = Status(h, p)]
        /\ gauges' = Shown(Status(h, p))
  BY DEF Answers
<1>1. Status(h, p) \in Report
  BY StatusSays DEF StatusIInv
<1>2. Shown(Status(h, p)).state \in States /\ Shown(Status(h, p)).remaining \in Nat
  BY <1>1 DEF Shown, Larger, Report
<1>3. StatusTypeOK'
  BY <1>0, <1>1, <1>2 DEF StatusIInv, StatusTypeOK, Answers
<1>4. OneStory'
  <2> SUFFICES ASSUME NEW q \in Request, statusAnswer'[q].state \notin {"none", "error"}
               PROVE  TellsOneStory(statusAnswer'[q])
    BY DEF OneStory, TellsOneStory
  <2>1. statusAnswer'[q] = IF q = r THEN Status(h, p) ELSE statusAnswer[q]
    BY <1>0 DEF StatusIInv, StatusTypeOK
  <2>2. CASE q = r
    BY <2>1, <2>2, StatusSays DEF StatusIInv
  <2>3. CASE q # r
    BY <2>1, <2>3 DEF StatusIInv, OneStory, TellsOneStory
  <2> QED BY <2>2, <2>3
<1>5. WindowIsTail'
  BY DEF StatusIInv, WindowIsTail, Answers
<1>6. InsideTheChain'
  BY DEF StatusIInv, StatusTypeOK, InsideTheChain, Answers
<1> QED BY <1>3, <1>4, <1>5, <1>6 DEF StatusIInv

\* A step that leaves the answers, the window and the chain alone.
LEMMA RequestStep ==
  ASSUME StatusIInv, UNCHANGED <<now, tip, last, samples, done>>, StatusTypeOK', OneStory',
         \A r \in Request :
           /\ statusPhase'[r] = "height" => tipAsked'[r] \in 0..tip
           /\ statusPhase'[r] = "hash" => tipAsked'[r] \in 0..height'[r] /\ height'[r] \in 0..tip
  PROVE  StatusIInv'
BY DEF StatusIInv, WindowIsTail, InsideTheChain

LEMMA StatusSteps ==
  ASSUME StatusIInv, [StatusNext]_statusVars PROVE StatusIInv'
<1>0. /\ tip \in Height /\ tip \in Nat /\ last \in MaybeHeight /\ last \in Int
      /\ now \in 0..MaxTime /\ MaxTime \in Nat /\ None = -1
      /\ height \in [Request -> MaybeHeight] /\ tipAsked \in [Request -> MaybeHeight]
      /\ statusPhase \in [Request -> {"idle", "height", "hash", "answered"}]
  BY StatusAssumption, Heights DEF StatusIInv, StatusTypeOK
<1>1. CASE Tick
  <2>1. StatusTypeOK'
    BY <1>0, <1>1 DEF StatusIInv, StatusTypeOK, Tick, answerVars
  <2> QED BY <1>1, <2>1
          DEF StatusIInv, OneStory, WindowIsTail, InsideTheChain, Tick, answerVars
<1>2. CASE NodeMines
  <2>1. StatusTypeOK'
    BY <1>0, <1>2 DEF StatusIInv, StatusTypeOK, NodeMines, answerVars
  <2>2. InsideTheChain'
    BY <1>0, <1>2 DEF StatusIInv, InsideTheChain, NodeMines, answerVars
  <2> QED BY <1>2, <2>1, <2>2 DEF StatusIInv, OneStory, WindowIsTail, NodeMines, answerVars
<1>3. CASE \E d \in 0..MaxDuration : BlockProcessed(d)
  BY <1>3, ProcessedStep
<1>4. ASSUME NEW r \in Request, AskStatus(r) PROVE StatusIInv'
  <2>1. tip \in MaybeHeight
    BY <1>0 DEF MaybeHeight
  <2>2. StatusTypeOK'
    BY <1>4, <2>1 DEF StatusIInv, StatusTypeOK, AskStatus
  <2>3. OneStory'
    BY <1>4 DEF StatusIInv, OneStory, AskStatus
  <2> QED BY <1>0, <1>4, <2>2, <2>3, RequestStep DEF StatusIInv, InsideTheChain, AskStatus
<1>5. ASSUME NEW r \in Request, GotHeight(r) PROVE StatusIInv'
  <2>1. tip \in MaybeHeight
    BY <1>0 DEF MaybeHeight
  <2>2. StatusTypeOK'
    BY <1>5, <2>1 DEF StatusIInv, StatusTypeOK, GotHeight
  <2>3. OneStory'
    BY <1>5 DEF StatusIInv, OneStory, GotHeight
  <2> QED BY <1>0, <1>5, <2>2, <2>3, RequestStep DEF StatusIInv, InsideTheChain, GotHeight
<1>6. ASSUME NEW r \in Request, HeightFails(r) PROVE StatusIInv'
  <2>1. None \in MaybeHeight
    BY Heights
  <2> QED BY <1>6, <2>1, AnswerStep DEF HeightFails
<1>7. ASSUME NEW r \in Request, GotHash(r) PROVE StatusIInv'
  <2>1. height[r] \in MaybeHeight
    BY <1>0
  <2> QED BY <1>7, <2>1, AnswerStep DEF GotHash, TipUsed
<1>8. NoAnswer \in Report /\ [NoAnswer EXCEPT !.state = "error"] \in Report
  <2>1. NoAnswer \in Report
    BY Heights DEF NoAnswer, Report, States
  <2>2. "error" \in States
    BY DEF States
  <2> QED BY <2>1, <2>2 DEF Report
<1>9. ASSUME NEW r \in Request, Return(r) PROVE StatusIInv'
  <2>1. None \in MaybeHeight
    BY Heights
  <2>2. StatusTypeOK'
    BY <1>8, <1>9, <2>1 DEF StatusIInv, StatusTypeOK, Return
  <2>3. OneStory'
    BY <1>9 DEF StatusIInv, StatusTypeOK, OneStory, Return, NoAnswer
  <2> QED BY <1>0, <1>9, <2>2, <2>3, RequestStep DEF StatusIInv, InsideTheChain, Return
<1>10. ASSUME NEW r \in Request, NotStarted(r) PROVE StatusIInv'
  <2> DEFINE refusal == [NoAnswer EXCEPT !.state = "error"]
  <2>1. refusal.state = "error" /\ refusal \in Report
    BY <1>8 DEF NoAnswer
  <2>2. Shown(refusal).state \in States /\ Shown(refusal).remaining \in Nat
    BY <2>1 DEF Shown, Larger, Report
  <2> HIDE DEF refusal
  <2>3. statusAnswer' = [statusAnswer EXCEPT ![r] = refusal] /\ gauges' = Shown(refusal)
    BY <1>10, <2>1 DEF NotStarted, refusal, StatusIInv, StatusTypeOK
  <2>4. StatusTypeOK'
    BY <1>10, <2>1, <2>2, <2>3 DEF StatusIInv, StatusTypeOK, NotStarted
  <2>5. OneStory'
    <3>1. ASSUME NEW q \in Request, statusAnswer'[q].state # "error"
          PROVE  statusAnswer'[q] = statusAnswer[q]
      BY <2>1, <2>3, <3>1 DEF StatusIInv, StatusTypeOK
    <3> QED BY <3>1 DEF StatusIInv, OneStory
  <2> QED BY <1>0, <1>10, <2>4, <2>5, RequestStep DEF StatusIInv, InsideTheChain, NotStarted
<1>11. CASE UNCHANGED statusVars
  BY <1>11 DEF StatusIInv, StatusTypeOK, OneStory, WindowIsTail, InsideTheChain, statusVars,
               answerVars
<1> QED BY <1>1, <1>2, <1>3, <1>4, <1>5, <1>6, <1>7, <1>9, <1>10, <1>11
        DEF StatusNext, Proceeds

\* The inductive invariant of the status holds in every reachable state.
THEOREM StatusInvariance == StatusSpec => []StatusIInv
BY StatusStarts, StatusSteps, PTL DEF StatusSpec

\* One answer tells one story, and the throughput is of the latest blocks, for every limit
\* of the window and any number of requests that overlap (addressIndexer.js:404-412, 489-528).
THEOREM StatusAgrees == StatusSpec => []StatusInvariant
<1>1. StatusIInv => SamplesAreLatest
  <2> SUFFICES ASSUME StatusIInv PROVE SamplesAreLatest
    OBVIOUS
  <2> DEFINE n == Len(done)
             k == Len(samples)
             from == Larger(1, n - SampleLimit + 1)
  <2>1. n \in Nat /\ k \in Nat /\ DOMAIN samples = 1..k /\ SampleLimit \in Nat \ {0}
    BY StatusAssumption, LenProperties DEF StatusIInv, WindowIsTail
  <2>2. k = IF n > SampleLimit THEN SampleLimit ELSE n
    BY DEF StatusIInv, WindowIsTail
  <2>3. \A i \in 1..k : samples[i].at = done[n - k + i]
    BY DEF StatusIInv, WindowIsTail
  <2> HIDE DEF n, k
  <2>4. from \in Nat /\ 1 + n - from = k /\ \A i \in 1..k : i + from - 1 = n - k + i
    BY <2>1, <2>2 DEF Larger
  <2> HIDE DEF from
  <2>5. \A i \in from..n : done[i] \in Nat
    BY <2>1, <2>4, ElementOfSeq DEF StatusIInv, WindowIsTail, Larger, from, n
  <2>6. /\ SubSeq(done, from, n) \in Seq(Nat) /\ Len(SubSeq(done, from, n)) = k
        /\ \A i \in 1..k : SubSeq(done, from, n)[i] = done[from + i - 1]
    BY <2>1, <2>4, <2>5, SubSeqProperties
  <2>7. SubSeq(done, from, n) = [i \in 1..k |-> SubSeq(done, from, n)[i]]
    BY <2>6, LenProperties
  <2>8. ASSUME NEW i \in 1..k PROVE samples[i].at = SubSeq(done, from, n)[i]
    <3>1. i \in Int /\ i + from - 1 = n - k + i /\ i + from - 1 = from + i - 1
      BY <2>1, <2>4
    <3>2. samples[i].at = done[n - k + i]
      BY <2>3
    <3>3. SubSeq(done, from, n)[i] = done[from + i - 1]
      BY <2>6
    <3> QED BY <3>1, <3>2, <3>3
  <2>9. [i \in DOMAIN samples |-> samples[i].at] = SubSeq(done, from, n)
    BY <2>1, <2>7, <2>8
  <2> QED BY <2>9 DEF SamplesAreLatest, from, n
<1>2. StatusIInv => StatusInvariant
  BY <1>1 DEF StatusIInv, StatusInvariant
<1> QED BY <1>2, StatusInvariance, PTL

\* However much is mined and processed while a request waits, what it is told to remain is
\* between what was missing when it came and what is missing now, "synced" is true of the
\* height it came at, and a window in which a block took time gives an estimate
\* (addressIndexer.js:98-110, 446-464, 482-528).
THEOREM RemainingIsTrue == StatusSpec => RemainingIsHonest
<1>1. ASSUME StatusIInv, StatusNext, NEW r \in Request, JustAnswered(r),
             statusAnswer'[r].remaining # None
      PROVE  /\ statusAnswer'[r].remaining >= Larger(0, tipAsked[r] - last)
             /\ statusAnswer'[r].remaining <= Larger(0, tip - last)
             /\ statusAnswer'[r].state = "synced" => last >= tipAsked[r]
             /\ statusAnswer'[r].state = "catching_up"
                  /\ (\E i \in DOMAIN samples : samples[i].duration > 0)
                  => statusAnswer'[r].eta # None
  <2>1. statusPhase[r] # "answered" /\ statusPhase'[r] = "answered"
        /\ statusAnswer'[r].state # "error"
    BY <1>1 DEF JustAnswered
  <2>2. HeightFails(r) \/ GotHash(r)
    <3>1. ASSUME NEW q \in Request, AskStatus(q) \/ GotHeight(q) \/ Return(q) PROVE FALSE
      BY <1>1, <2>1, <3>1 DEF StatusIInv, StatusTypeOK, AskStatus, GotHeight, Return
    <3>2. ASSUME NEW q \in Request, NotStarted(q) PROVE FALSE
      <4>1. statusAnswer'[q].state = "error"
        BY <1>1, <3>2 DEF NotStarted, StatusIInv, StatusTypeOK, Report, NoAnswer
      <4> QED BY <1>1, <2>1, <3>2, <4>1 DEF StatusIInv, StatusTypeOK, NotStarted
    <3>3. ASSUME NEW q \in Request, HeightFails(q) \/ GotHash(q) PROVE q = r
      BY <1>1, <2>1, <3>3 DEF StatusIInv, StatusTypeOK, HeightFails, GotHash, Answers
    <3>4. statusPhase' # statusPhase
      BY <2>1
    <3> QED BY <1>1, <3>1, <3>2, <3>3, <3>4
            DEF StatusNext, Proceeds, Tick, NodeMines, BlockProcessed, answerVars
  <2>3. CASE HeightFails(r)
    <3>1. PICK p : statusAnswer'[r] = Status(None, p)
      <4>1. PICK p \in Percents(None) :
              statusAnswer' = [statusAnswer EXCEPT ![r] = Status(None, p)]
        BY <2>3 DEF HeightFails, Answers
      <4> QED BY <1>1, <4>1 DEF StatusIInv, StatusTypeOK
    <3> QED BY <1>1, <3>1 DEF Status, BlocksRemaining
  <2>4. CASE GotHash(r)
    <3>1. PICK p \in Percents(height[r]) :
            statusAnswer'[r] = Status(height[r], p) /\ statusPhase[r] = "hash"
      <4>1. PICK p \in Percents(height[r]) :
              statusAnswer' = [statusAnswer EXCEPT ![r] = Status(height[r], p)]
        BY <2>4 DEF GotHash, TipUsed, Answers
      <4> QED BY <1>1, <2>4, <4>1 DEF StatusIInv, StatusTypeOK, GotHash
    <3>2. tipAsked[r] \in 0..height[r] /\ height[r] \in 0..tip
      BY <1>1, <3>1 DEF StatusIInv, InsideTheChain
    <3>0. /\ height[r] \in MaybeHeight /\ height[r] \in Int /\ tip \in Nat /\ last \in Int
          /\ last \in MaybeHeight
      BY <1>1, Heights DEF StatusIInv, StatusTypeOK
    <3>3. statusAnswer'[r].remaining = Larger(0, height[r] - last)
          /\ (statusAnswer'[r].state = "synced" <=> statusAnswer'[r].remaining = 0)
      BY <1>1, <3>0, <3>1, StatusSays DEF StatusIInv, TellsOneStory
    <3>4. statusAnswer'[r].state = "catching_up"
            /\ (\E i \in DOMAIN samples : samples[i].duration > 0)
            => statusAnswer'[r].eta # None
      BY <1>1, <3>0, <3>1, StatusSays, WindowLength DEF StatusIInv
    <3> QED BY <3>0, <3>2, <3>3, <3>4 DEF Larger, None
  <2> QED BY <2>2, <2>3, <2>4
<1>2. ASSUME UNCHANGED statusVars, NEW r \in Request PROVE ~JustAnswered(r)
  BY <1>2 DEF JustAnswered, statusVars, answerVars
<1>3. StatusIInv /\ [StatusNext]_statusVars =>
        [\A r \in Request : JustAnswered(r) /\ statusAnswer'[r].remaining # None =>
           /\ statusAnswer'[r].remaining >= Larger(0, tipAsked[r] - last)
           /\ statusAnswer'[r].remaining <= Larger(0, tip - last)
           /\ statusAnswer'[r].state = "synced" => last >= tipAsked[r]
           /\ statusAnswer'[r].state = "catching_up"
                /\ (\E i \in DOMAIN samples : samples[i].duration > 0)
                => statusAnswer'[r].eta # None]_statusVars
  BY <1>1, <1>2
<1> QED BY <1>3, StatusInvariance, PTL DEF StatusSpec, RemainingIsHonest

--------------------------------------------------------------------------------
(* Address and xpub pages. *)

\* What has coins is known, and a request has seen the index grow: its balances of now are
\* the latest it had, and those it began with are the least known.
Growing ==
  /\ \A c \in Coin : owner[c] \in known \cup {Nobody}
  /\ IsFiniteSet(had) /\ (pc = "idle" <=> had = {})
  /\ pc # "idle" => Balances \in had
  /\ \A h \in had : \A a \in Address \ known : h[a] = NoSummary
  /\ pc # "idle" => \E first \in had : \A h \in had : \A a \in Address :
                      h[a] = NoSummary => first[a] = NoSummary

\* The lines of a network: what is still pending has none, every other is one the index had.
Lines(n) ==
  /\ pending \subseteq Derived[n]
  /\ \A a \in Derived[n] \ pending : \E h \in had : balance[a] = h[a]
  /\ \A a \in Address \ Derived[n] : balance[a] = NoSummary

\* The first candidates had no history, and the one that was chosen for it had.
Empty(k) == \A j \in 1..k : Unused(decodes[j])
Chosen ==
  \E i \in DOMAIN decodes :
    /\ decodes[i] = subject
    /\ \/ Used(subject) /\ Empty(i - 1)
       \/ i = 1 /\ \A j \in DOMAIN decodes : Unused(decodes[j])

\* What a request knows at each of its awaits.
ReadSoFar ==
  /\ pc \in {"summary", "history", "utxos", "notFound"} => subject \in Address
  /\ pc \in {"idle", "next", "probe"} => subject = Nobody
  /\ pc = "totals" => subject \in Network
  /\ pc = "next" => Empty(tried)
  /\ pc = "probe" => tried > 0 /\ Empty(tried - 1) /\ Lines(decodes[tried])
  /\ pc = "totals" \/ XpubDone => Chosen /\ Lines(subject)
  /\ XpubDone => pending = {}
  /\ pc = "idle" => tried = 0
  /\ pc = "badRequest" => decodes = <<>>

\* What an address page knows once it has its summary.
SummaryRead ==
  /\ pc \in {"history", "utxos"} \/ AddressDone =>
       subject \in known /\ \E h \in had : balance[subject] = h[subject]
  /\ AddressDone => \E h \in had : Cardinality(coins) = Value(h[subject])

AddressIInv == AddressTypeOK /\ Growing /\ ReadSoFar /\ SummaryRead

LEMMA CoinsCount ==
  ASSUME NEW O, NEW a
  PROVE  /\ IsFiniteSet({c \in Coin : O[c] = a})
         /\ Cardinality({c \in Coin : O[c] = a}) \in 0..Cardinality(Coin)
<1> DEFINE S == {c \in Coin : O[c] = a}
<1>1. S \in SUBSET Coin
  OBVIOUS
<1> HIDE DEF S
<1>2. IsFiniteSet(S) /\ Cardinality(S) <= Cardinality(Coin)
  BY <1>1, CoinsAssumption, FS_Subset
<1>3. Cardinality(S) \in Nat /\ Cardinality(Coin) \in Nat
  BY <1>2, CoinsAssumption, FS_CardinalityType
<1>4. Cardinality(S) \in 0..Cardinality(Coin)
  BY <1>2, <1>3
<1> QED BY <1>2, <1>4 DEF S

LEMMA BalancesNow ==
  ASSUME known \subseteq Address
  PROVE  /\ Balances \in [Address -> NoSummary..Cardinality(Coin)]
         /\ \A a \in Address : Balances[a] = NoSummary <=> a \notin known
         /\ \A a \in known : Balances[a] = Cardinality(CoinsOf(a))
<1>1. Cardinality(Coin) \in Nat
  BY CoinsAssumption, FS_CardinalityType
<1>2. \A a : Cardinality(CoinsOf(a)) \in 0..Cardinality(Coin)
  BY CoinsCount DEF CoinsOf
<1> QED BY <1>1, <1>2 DEF Balances, NoSummary

LEMMA BalancesNext ==
  ASSUME known' \subseteq Address
  PROVE  /\ Balances' \in [Address -> NoSummary..Cardinality(Coin)]
         /\ \A a \in Address : Balances'[a] = NoSummary <=> a \notin known'
<1>1. Cardinality(Coin) \in Nat
  BY CoinsAssumption, FS_CardinalityType
<1>2. \A a : Cardinality(CoinsOf(a)') \in 0..Cardinality(Coin)
  BY CoinsCount DEF CoinsOf
<1> QED BY <1>1, <1>2 DEF Balances, NoSummary

\* Candidates are networks, and a key may decode for none.
LEMMA Candidates == /\ \A s \in Decodable : s \in Seq(Network)
                    /\ <<>> \in Decodable
<1>1. Len(Networks) \in Nat /\ DOMAIN Networks = 1..Len(Networks)
  BY NetworksAssumption, LenProperties
<1>2. ASSUME NEW s \in Decodable PROVE s \in Seq(Network)
  <2>0. PICK n \in 0..Len(Networks) : \E at \in [1..n -> DOMAIN Networks] :
          s = [i \in DOMAIN at |-> Networks[at[i]]]
    BY DEF Decodable, Places
  <2>1. PICK at \in [1..n -> DOMAIN Networks] : s = [i \in DOMAIN at |-> Networks[at[i]]]
    BY <2>0
  <2>2. s \in [1..n -> Network] /\ n \in Nat
    BY <1>1, <2>1 DEF Network
  <2> QED BY <2>2
<1>3. <<>> \in Decodable
  <2>1. <<>> \in [1..0 -> DOMAIN Networks]
    OBVIOUS
  <2>2. <<>> \in Places
    BY <1>1, <2>1 DEF Places
  <2>3. <<>> = [i \in DOMAIN <<>> |-> Networks[<<>>[i]]]
    OBVIOUS
  <2> QED BY <2>2, <2>3 DEF Decodable
<1> QED BY <1>2, <1>3

\* A candidate that was tried is a network.
LEMMA Tried ==
  ASSUME AddressTypeOK
  PROVE  /\ decodes \in Seq(Network) /\ Len(decodes) \in Nat /\ DOMAIN decodes = 1..Len(decodes)
         /\ \A i \in 1..Len(decodes) : decodes[i] \in Network /\ Derived[decodes[i]] \subseteq Address
         /\ tried \in 0..Len(decodes)
<1>1. decodes \in Seq(Network)
  BY Candidates DEF AddressTypeOK
<1>2. Len(decodes) \in Nat /\ DOMAIN decodes = 1..Len(decodes)
      /\ \A i \in 1..Len(decodes) : decodes[i] \in Network
  BY <1>1, LenProperties, ElementOfSeq
<1>3. \A n \in Network : Derived[n] \subseteq Address
  BY DEF Address
<1> QED BY <1>1, <1>2, <1>3 DEF AddressTypeOK

\* What the index had stays what it had.
LEMMA MoreHad ==
  ASSUME had \subseteq had', UNCHANGED decodes
  PROVE  /\ \A n : Unused(n) => Unused(n)'
         /\ \A n : Used(n) => Used(n)'
         /\ \A k : Empty(k) => Empty(k)'
         /\ UNCHANGED subject /\ Chosen => Chosen'
         /\ UNCHANGED <<pending, balance>> => \A n : Lines(n) => Lines(n)'
<1>1. \A n : Unused(n) => Unused(n)'
  BY DEF Unused
<1>2. \A n : Used(n) => Used(n)'
  BY DEF Used
<1>3. \A k : Empty(k) => Empty(k)'
  BY <1>1 DEF Empty
<1>4. UNCHANGED subject /\ Chosen => Chosen'
  BY <1>1, <1>2, <1>3 DEF Chosen
<1>5. UNCHANGED <<pending, balance>> => \A n : Lines(n) => Lines(n)'
  BY DEF Lines
<1> QED BY <1>1, <1>2, <1>3, <1>4, <1>5

LEMMA AddressStarts == AddressInit => AddressIInv
<1> SUFFICES ASSUME AddressInit PROVE AddressIInv
  OBVIOUS
<1>1. AddressTypeOK
  <2>1. Cardinality(Coin) \in Nat
    BY CoinsAssumption, FS_CardinalityType
  <2> QED BY <2>1, Candidates DEF AddressInit, AddressTypeOK, Statuses, NoSummary
<1>2. Growing
  BY FS_EmptySet DEF AddressInit, Growing
<1>3. ReadSoFar /\ SummaryRead
  BY DEF AddressInit, ReadSoFar, SummaryRead, XpubDone, AddressDone
<1> QED BY <1>1, <1>2, <1>3 DEF AddressIInv

\* A block is committed, during a request or not.
LEMMA CommitStep == ASSUME AddressIInv, Commit PROVE AddressIInv'
<1>1. PICK c \in Coin, a \in Address \cup {Nobody} :
        a # owner[c] /\ owner' = [owner EXCEPT ![c] = a] /\ known' = KnownAfter(a)
  BY DEF Commit
<1>2. known' = known \cup ({a} \ {Nobody}) /\ known \subseteq known' /\ known' \subseteq Address
      /\ known \subseteq Address
  BY <1>1 DEF KnownAfter, AddressIInv, AddressTypeOK
<1>3. UNCHANGED <<pc, subject, decodes, tried, pending, balance, coins>>
      /\ had' = IF pc = "idle" THEN {} ELSE had \cup {Balances'}
  BY DEF Commit
<1>4. AddressTypeOK'
  BY <1>1, <1>2, <1>3 DEF AddressIInv, AddressTypeOK
<1>5. had \subseteq had'
  BY <1>3 DEF AddressIInv, Growing
<1>6. Growing'
  <2>1. \A d \in Coin : owner'[d] \in known' \cup {Nobody}
    BY <1>1, <1>2 DEF AddressIInv, AddressTypeOK, Growing
  <2>2. \A h \in had' : \A b \in Address \ known' : h[b] = NoSummary
    BY <1>2, <1>3, BalancesNext DEF AddressIInv, Growing
  <2>3. ASSUME pc # "idle"
        PROVE  \E first \in had' : \A h \in had' : \A b \in Address :
                 h[b] = NoSummary => first[b] = NoSummary
    <3>1. PICK first \in had : \A h \in had : \A b \in Address :
            h[b] = NoSummary => first[b] = NoSummary
      BY <2>3 DEF AddressIInv, Growing
    <3>2. Balances \in had
      BY <2>3 DEF AddressIInv, Growing
    <3>3. ASSUME NEW b \in Address, Balances'[b] = NoSummary PROVE first[b] = NoSummary
      <4>1. Balances[b] = NoSummary
        BY <1>2, <3>3, BalancesNow, BalancesNext
      <4> QED BY <3>1, <3>2, <4>1
    <3> QED BY <1>3, <1>5, <2>3, <3>1, <3>3
  <2>4. IsFiniteSet(had')
    BY <1>3, FS_EmptySet, FS_AddElement DEF AddressIInv, Growing
  <2> QED BY <1>3, <2>1, <2>2, <2>3, <2>4 DEF AddressIInv, Growing
<1>7. ReadSoFar'
  BY <1>3, <1>5, MoreHad DEF AddressIInv, ReadSoFar, XpubDone
<1>8. SummaryRead'
  BY <1>2, <1>3, <1>5 DEF AddressIInv, SummaryRead, AddressDone
<1> QED BY <1>4, <1>6, <1>7, <1>8 DEF AddressIInv

\* A step of the request itself: the index stays.
LEMMA RequestGrows ==
  ASSUME AddressTypeOK, Growing, owner' = owner, known' = known
  PROVE  /\ pc = "idle" /\ pc' # "idle" /\ had' = {Balances} => Growing'
         /\ pc # "idle" /\ pc' # "idle" /\ had' = had => Growing'
         /\ pc' = "idle" /\ had' = {} => Growing'
<1>1. Balances' = Balances /\ known \subseteq Address
  BY DEF Balances, CoinsOf, AddressTypeOK
<1>2. \A a \in Address \ known : Balances[a] = NoSummary
  BY <1>1, BalancesNow
<1>3. IsFiniteSet({Balances}) /\ IsFiniteSet({})
  BY FS_Singleton, FS_EmptySet
<1> QED BY <1>1, <1>2, <1>3 DEF Growing

\* Every other step is one of the request.
LEMMA AddressSteps == ASSUME AddressIInv, AddressNext, ~Commit PROVE AddressIInv'
<1> USE DEF AddressIInv
<1>0. /\ \A a \in Address : a \notin Network
      /\ Nobody \notin Address /\ Nobody \notin Network
      /\ known \subseteq Address /\ Cardinality(Coin) \in Nat
  BY SubjectAssumption, CoinsAssumption, FS_CardinalityType DEF AddressTypeOK
<1>1. ASSUME NEW a \in Address, AskAddress(a) PROVE AddressIInv'
  <2>1. AddressTypeOK'
    BY <1>1 DEF AddressTypeOK, AskAddress, indexVars, Statuses
  <2>2. Growing'
    BY <1>1, RequestGrows DEF AskAddress, indexVars
  <2>3. ReadSoFar' /\ SummaryRead'
    BY <1>1 DEF AskAddress, ReadSoFar, SummaryRead, XpubDone, AddressDone
  <2> QED BY <2>1, <2>2, <2>3
<1>2. ASSUME NEW s \in Decodable, AskXpub(s) PROVE AddressIInv'
  <2>1. s \in Seq(Network) /\ tried = 0
    BY <1>2, Candidates DEF ReadSoFar, AskXpub
  <2>2. AddressTypeOK'
    BY <1>2, <2>1, LenProperties DEF AddressTypeOK, AskXpub, indexVars, Statuses
  <2>3. Growing'
    BY <1>2, RequestGrows DEF AskXpub, indexVars
  <2>4. ReadSoFar' /\ SummaryRead'
    BY <1>2, <2>1 DEF AskXpub, ReadSoFar, SummaryRead, XpubDone, AddressDone, Empty
  <2> QED BY <2>2, <2>3, <2>4
<1>3. CASE ReadSummary
  <2>1. subject \in Address /\ Balances[subject] \in NoSummary..Cardinality(Coin)
        /\ Balances \in had /\ Balances[subject] = balance'[subject]
    BY <1>0, <1>3, BalancesNow DEF ReadSummary, ReadSoFar, Growing, AddressTypeOK
  <2>2. AddressTypeOK'
    BY <1>3, <2>1 DEF AddressTypeOK, ReadSummary, indexVars, Statuses
  <2>3. Growing'
    BY <1>3, RequestGrows DEF ReadSummary, indexVars
  <2>4. ReadSoFar' /\ SummaryRead'
    BY <1>3, <2>1 DEF ReadSummary, ReadSoFar, SummaryRead, XpubDone, AddressDone, indexVars
  <2> QED BY <2>2, <2>3, <2>4
<1>4. CASE ReadHistory
  <2>1. AddressTypeOK'
    BY <1>4 DEF AddressTypeOK, ReadHistory, indexVars, Statuses
  <2>2. Growing'
    BY <1>4, RequestGrows DEF ReadHistory, indexVars
  <2>3. ReadSoFar' /\ SummaryRead'
    BY <1>4 DEF ReadHistory, ReadSoFar, SummaryRead, XpubDone, AddressDone, indexVars
  <2> QED BY <2>1, <2>2, <2>3
<1>5. CASE ReadUtxos
  <2>1. subject \in known /\ subject \in Address /\ Balances \in had
        /\ \E h \in had : balance[subject] = h[subject]
    BY <1>5 DEF ReadUtxos, ReadSoFar, SummaryRead, Growing
  <2>2. Balances[subject] = Cardinality(coins') /\ Balances[subject] # NoSummary
    BY <1>0, <1>5, <2>1, BalancesNow DEF ReadUtxos, Utxos
  <2>3. AddressTypeOK'
    BY <1>5 DEF AddressTypeOK, ReadUtxos, Utxos, CoinsOf, indexVars, Statuses
  <2>4. Growing'
    BY <1>5, RequestGrows DEF ReadUtxos, indexVars
  <2>5. ReadSoFar'
    BY <1>0, <1>5, <2>1 DEF ReadUtxos, ReadSoFar, XpubDone
  <2>6. SummaryRead'
    BY <1>5, <2>1, <2>2 DEF ReadUtxos, SummaryRead, AddressDone, Value, indexVars
  <2> QED BY <2>3, <2>4, <2>5, <2>6
<1>6. CASE NextCandidate
  <2>0. pc = "next" /\ subject = Nobody /\ Empty(tried) /\ UNCHANGED <<owner, known, commits, decodes, coins, had>>
    BY <1>6 DEF NextCandidate, ReadSoFar, indexVars
  <2>1. CASE tried < Len(decodes) /\ tried' = tried + 1 /\ pc' = "probe" /\ Reads(decodes[tried'])
             /\ UNCHANGED subject
    <3>1. tried' \in 1..Len(decodes) /\ tried' \in 0..Len(decodes) /\ tried' - 1 = tried
          /\ Derived[decodes[tried']] \subseteq Address
      BY <2>1, Tried
    <3>2. pending' = Derived[decodes[tried']] /\ balance' = [a \in Address |-> NoSummary]
      BY <2>1 DEF Reads
    <3>3. AddressTypeOK'
      BY <1>0, <2>0, <2>1, <3>1, <3>2 DEF AddressTypeOK, Statuses, NoSummary
    <3>4. Growing'
      BY <2>0, <2>1, RequestGrows
    <3>5. Empty(tried - 1)' /\ Lines(decodes[tried])'
      BY <2>0, <3>1, <3>2 DEF Empty, Unused, Lines
    <3>6. ReadSoFar' /\ SummaryRead'
      BY <2>0, <2>1, <3>1, <3>5 DEF ReadSoFar, SummaryRead, XpubDone, AddressDone
    <3> QED BY <3>3, <3>4, <3>6
  <2>2. CASE tried = Len(decodes) /\ tried > 0 /\ Choose(decodes[1]) /\ UNCHANGED tried
    <3>1. 1 \in DOMAIN decodes /\ decodes[1] \in Network /\ Derived[decodes[1]] \subseteq Address
      BY <2>2, Tried
    <3>2. pending' = Derived[decodes[1]] /\ balance' = [a \in Address |-> NoSummary]
          /\ pc' = "totals" /\ subject' = decodes[1]
      BY <2>2 DEF Choose, Reads
    <3>3. AddressTypeOK'
      BY <1>0, <2>0, <2>2, <3>1, <3>2 DEF AddressTypeOK, Statuses, NoSummary
    <3>4. Growing'
      BY <2>0, <3>2, RequestGrows
    <3>5. \A j \in DOMAIN decodes : Unused(decodes[j])
      BY <2>0, <2>2, Tried DEF Empty
    <3>6. Chosen' /\ Lines(subject)'
      BY <2>0, <3>1, <3>2, <3>5 DEF Chosen, Lines, Unused
    <3>7. ReadSoFar' /\ SummaryRead'
      BY <1>0, <3>1, <3>2, <3>6 DEF ReadSoFar, SummaryRead, XpubDone, AddressDone
    <3> QED BY <3>3, <3>4, <3>7
  <2>3. CASE decodes = <<>> /\ pc' = "badRequest" /\ UNCHANGED <<subject, tried, pending, balance>>
    <3>1. AddressTypeOK'
      BY <2>0, <2>3 DEF AddressTypeOK, Statuses
    <3>2. Growing'
      BY <2>0, <2>3, RequestGrows
    <3>3. ReadSoFar' /\ SummaryRead'
      BY <2>0, <2>3 DEF ReadSoFar, SummaryRead, XpubDone, AddressDone
    <3> QED BY <3>1, <3>2, <3>3
  <2> QED BY <1>6, <2>1, <2>2, <2>3 DEF NextCandidate, Fallback
<1>7. ASSUME NEW a \in Address, ReadOne(a) PROVE AddressIInv'
  <2>0. /\ pc \in {"probe", "totals"} /\ a \in pending /\ pending' = pending \ {a}
        /\ balance' = [balance EXCEPT ![a] = Balances[a]]
        /\ UNCHANGED <<owner, known, commits, pc, subject, decodes, tried, coins, had>>
    BY <1>7 DEF ReadOne, indexVars
  <2>1. Balances[a] \in NoSummary..Cardinality(Coin) /\ Balances \in had
    BY <1>0, <2>0, BalancesNow DEF Growing
  <2>2. AddressTypeOK'
    BY <2>0, <2>1 DEF AddressTypeOK
  <2>3. Growing'
    BY <2>0, RequestGrows
  <2>4. ASSUME NEW n, Lines(n) PROVE Lines(n)'
    <3>1. a \in Derived[n] /\ pending' \subseteq Derived[n]
      BY <2>0, <2>4 DEF Lines
    <3>2. \A b \in Address : balance'[b] = IF b = a THEN Balances[a] ELSE balance[b]
      BY <2>0 DEF AddressTypeOK
    <3>3. pending \subseteq Address
      BY DEF AddressTypeOK
    <3>4. ASSUME NEW b \in Derived[n] \ pending' PROVE \E h \in had : balance'[b] = h[b]
      <4>1. CASE b = a
        BY <2>1, <3>2, <4>1
      <4>2. CASE b # a
        <5>1. PICK h \in had : balance[b] = h[b]
          BY <2>0, <2>4, <3>4, <4>2 DEF Lines
        <5>2. balance'[b] = balance[b]
          BY <2>0, <4>2 DEF AddressTypeOK
        <5> QED BY <5>1, <5>2
      <4> QED BY <4>1, <4>2
    <3>5. \A b \in Address \ Derived[n] : balance'[b] = NoSummary
      BY <2>4, <3>1, <3>2 DEF Lines
    <3> QED BY <2>0, <3>1, <3>4, <3>5 DEF Lines
  <2>5. had \subseteq had' /\ UNCHANGED decodes
    BY <2>0
  <2>6. ReadSoFar'
    BY <2>0, <2>4, <2>5, MoreHad DEF ReadSoFar, XpubDone
  <2>7. SummaryRead'
    BY <2>0 DEF SummaryRead, AddressDone
  <2> QED BY <2>2, <2>3, <2>6, <2>7
<1>8. CASE Probed
  <2>0. /\ pc = "probe" /\ pending = {} /\ subject = Nobody /\ tried > 0
        /\ Empty(tried - 1) /\ Lines(decodes[tried])
        /\ UNCHANGED <<owner, known, commits, decodes, tried, coins, had>>
    BY <1>8 DEF Probed, ReadSoFar, indexVars
  <2>1. tried \in DOMAIN decodes /\ decodes[tried] \in Network /\ tried \in Nat
        /\ Derived[decodes[tried]] \subseteq Address
    BY <2>0, Tried
  <2>2. CASE HasHistory
    <3>1. pc' = "totals" /\ subject' = decodes[tried] /\ pending' = Derived[decodes[tried]]
          /\ balance' = [b \in Address |-> NoSummary]
      BY <1>8, <2>2 DEF Probed, Choose, Reads
    <3>2. Used(decodes[tried])
      <4>1. PICK a \in Address : balance[a] # NoSummary
        BY <2>2 DEF HasHistory
      <4>2. a \in Derived[decodes[tried]] /\ \E h \in had : balance[a] = h[a]
        BY <2>0, <4>1 DEF Lines
      <4> QED BY <4>1, <4>2 DEF Used
    <3>3. AddressTypeOK'
      BY <1>0, <2>0, <2>1, <3>1 DEF AddressTypeOK, Statuses, NoSummary
    <3>4. Growing'
      BY <2>0, <3>1, RequestGrows
    <3>5. Chosen' /\ Lines(subject)'
      BY <2>0, <2>1, <3>1, <3>2 DEF Chosen, Lines, Used, Empty, Unused
    <3>6. ReadSoFar' /\ SummaryRead'
      BY <1>0, <2>1, <3>1, <3>5 DEF ReadSoFar, SummaryRead, XpubDone, AddressDone
    <3> QED BY <3>3, <3>4, <3>6
  <2>3. CASE ~HasHistory
    <3>1. pc' = "next" /\ UNCHANGED <<subject, pending, balance>>
      BY <1>8, <2>3 DEF Probed
    <3>2. PICK first \in had : \A h \in had : \A a \in Address :
            h[a] = NoSummary => first[a] = NoSummary
      BY <2>0 DEF Growing
    <3>3. ASSUME NEW a \in Derived[decodes[tried]] PROVE first[a] = NoSummary
      <4>1. a \in Address
        BY <2>1
      <4>2. balance[a] = NoSummary /\ \E h \in had : balance[a] = h[a]
        BY <2>0, <2>3, <4>1 DEF HasHistory, Lines
      <4> QED BY <3>2, <4>1, <4>2
    <3>4. Unused(decodes[tried])
      BY <3>2, <3>3 DEF Unused
    <3>5. Empty(tried)
      BY <2>0, <2>1, <3>4 DEF Empty
    <3>6. AddressTypeOK'
      BY <2>0, <3>1 DEF AddressTypeOK, Statuses
    <3>7. Growing'
      BY <2>0, <3>1, RequestGrows
    <3>8. Empty(tried)'
      BY <2>0, <3>5 DEF Empty, Unused
    <3>9. ReadSoFar' /\ SummaryRead'
      BY <2>0, <3>1, <3>8 DEF ReadSoFar, SummaryRead, XpubDone, AddressDone
    <3> QED BY <3>6, <3>7, <3>9
  <2> QED BY <2>2, <2>3
<1>9. CASE Totalled
  <2>0. /\ pc = "totals" /\ pending = {} /\ pc' = "done" /\ subject \in Network
        /\ Chosen /\ Lines(subject)
        /\ UNCHANGED <<owner, known, commits, subject, decodes, tried, pending, balance, coins, had>>
    BY <1>9 DEF Totalled, ReadSoFar, indexVars
  <2>1. AddressTypeOK'
    BY <2>0 DEF AddressTypeOK, Statuses
  <2>2. Growing'
    BY <2>0, RequestGrows
  <2>3. Chosen' /\ Lines(subject)'
    BY <2>0, MoreHad
  <2>4. ReadSoFar' /\ SummaryRead'
    BY <1>0, <2>0, <2>3 DEF ReadSoFar, SummaryRead, XpubDone, AddressDone
  <2> QED BY <2>1, <2>2, <2>4
<1>10. CASE Respond
  <2>1. AddressTypeOK'
    BY <1>0, <1>10, Candidates DEF AddressTypeOK, Respond, indexVars, Statuses, NoSummary
  <2>2. Growing'
    BY <1>10, RequestGrows DEF Respond, indexVars
  <2>3. ReadSoFar' /\ SummaryRead'
    BY <1>10 DEF Respond, ReadSoFar, SummaryRead, XpubDone, AddressDone
  <2> QED BY <2>1, <2>2, <2>3
<1> QED BY <1>1, <1>2, <1>3, <1>4, <1>5, <1>6, <1>7, <1>8, <1>9, <1>10 DEF Serve, AddressNext

\* The state of an address or xpub request is within its invariant whatever is committed
\* meanwhile (addressExplorerService.js:84-160).
THEOREM AddressInvariance == AddressSpec => []AddressIInv
<1>1. AddressIInv /\ [AddressNext]_addressVars => AddressIInv'
  <2>1. ASSUME AddressIInv, UNCHANGED addressVars PROVE AddressIInv'
    BY <2>1 DEF addressVars, indexVars, requestVars, AddressIInv, AddressTypeOK, Growing, ReadSoFar,
                SummaryRead, XpubDone, AddressDone, Chosen, Empty, Unused, Used, Lines, Balances, CoinsOf
  <2> QED BY <2>1, CommitStep, AddressSteps
<1> QED BY <1>1, AddressStarts, PTL DEF AddressSpec

\* An address's cells are as many as its coins, so that a total of balances is a number of coins.
LEMMA TotalsCountCoins ==
  ASSUME known \subseteq Address, \A c \in Coin : owner[c] \in known \cup {Nobody},
         NEW A \in SUBSET Address, NEW f, \A a \in A : f[a] = Balances[a]
  PROVE  TotalOf(f, A) = Cardinality({c \in Coin : owner[c] \in A})
<1> DEFINE N == Cardinality(Coin)
           S(a) == {c \in Coin : owner[c] = a}
           Paid == {c \in Coin : owner[c] \in A}
           Cells == {cell \in A \X (1..N) : cell[2] <= f[cell[1]]}
           B == [a \in A |-> CHOOSE g : g \in Bijection(1..Cardinality(S(a)), S(a))]
           F == [cell \in Cells |-> B[cell[1]][cell[2]]]
<1>1. N \in Nat /\ IsFiniteSet(Paid)
  BY CoinsAssumption, FS_CardinalityType, FS_Subset
<1>2. \A a : IsFiniteSet(S(a)) /\ Cardinality(S(a)) \in 0..N
  BY CoinsCount
<1>3. ASSUME NEW a \in A PROVE B[a] \in Bijection(1..Cardinality(S(a)), S(a))
  <2>1. ExistsBijection(1..Cardinality(S(a)), S(a))
    BY <1>2, FS_CardinalityType
  <2>2. \E g : g \in Bijection(1..Cardinality(S(a)), S(a))
    BY <2>1, Fun_ExistsBij
  <2> QED BY <2>2
<1>4. ASSUME NEW a \in A, NEW k \in 1..N PROVE k <= f[a] <=> k \in 1..Cardinality(S(a))
  <2>1. CASE a \in known
    <3>1. f[a] = Cardinality(S(a))
      BY <2>1, BalancesNow DEF CoinsOf
    <3> QED BY <1>1, <1>2, <3>1
  <2>2. CASE a \notin known
    <3>1. f[a] = -1
      BY <2>2, BalancesNow DEF NoSummary
    <3>2. S(a) = {}
      BY <2>2, SubjectAssumption
    <3>3. Cardinality(S(a)) = 0
      BY <3>2, FS_EmptySet
    <3> QED BY <1>1, <3>1, <3>3
  <2> QED BY <2>1, <2>2
<1> HIDE DEF N, S, B
<1>5. \A a \in A : /\ \A k \in 1..Cardinality(S(a)) : B[a][k] \in S(a)
                   /\ \A k, l \in 1..Cardinality(S(a)) : B[a][k] = B[a][l] => k = l
                   /\ \A c \in S(a) : \E k \in 1..Cardinality(S(a)) : B[a][k] = c
  <2> SUFFICES ASSUME NEW a \in A
               PROVE  /\ \A k \in 1..Cardinality(S(a)) : B[a][k] \in S(a)
                      /\ \A k, l \in 1..Cardinality(S(a)) : B[a][k] = B[a][l] => k = l
                      /\ \A c \in S(a) : \E k \in 1..Cardinality(S(a)) : B[a][k] = c
    OBVIOUS
  <2> DEFINE K == 1..Cardinality(S(a))
             g == B[a]
  <2>1. g \in Bijection(K, S(a))
    BY <1>3
  <2> HIDE DEF K, g
  <2>2. /\ g \in [K -> S(a)]
        /\ \A k, l \in K : g[k] = g[l] => k = l
        /\ \A c \in S(a) : \E k \in K : g[k] = c
    BY <2>1, Fun_BijectionProperties
  <2> QED BY <2>2 DEF K, g
<1>6. \A cell \in Cells : /\ cell[1] \in A /\ cell[2] \in 1..Cardinality(S(cell[1]))
                          /\ F[cell] = B[cell[1]][cell[2]]
                          /\ cell = <<cell[1], cell[2]>>
  BY <1>4
<1>7. \A a \in A : \A k \in 1..Cardinality(S(a)) : <<a, k>> \in Cells
  <2>1. \A a \in A : \A k \in 1..Cardinality(S(a)) : k \in 1..N
    BY <1>1, <1>2
  <2> QED BY <1>4, <2>1
<1>8. \A c : c \in Paid <=> c \in Coin /\ owner[c] \in A
  OBVIOUS
<1>9. \A a, c : c \in S(a) <=> c \in Coin /\ owner[c] = a
  BY DEF S
<1>10. F \in [Cells -> Paid]
  <2>1. \A cell \in Cells : B[cell[1]][cell[2]] \in Paid
    BY <1>5, <1>6, <1>8, <1>9
  <2> QED BY <2>1
<1>11. ASSUME NEW c1 \in Cells, NEW c2 \in Cells, F[c1] = F[c2] PROVE c1 = c2
  <2>1. c1[1] = c2[1]
    BY <1>5, <1>6, <1>9, <1>11
  <2>2. c1[2] = c2[2]
    BY <1>5, <1>6, <1>11, <2>1
  <2> QED BY <1>6, <2>1, <2>2
<1>12. ASSUME NEW c \in Paid PROVE \E cell \in Cells : F[cell] = c
  <2>1. owner[c] \in A /\ c \in S(owner[c])
    BY <1>8, <1>9
  <2>2. PICK k \in 1..Cardinality(S(owner[c])) : B[owner[c]][k] = c
    BY <1>5, <2>1
  <2>3. <<owner[c], k>> \in Cells
    BY <1>7, <2>1, <2>2
  <2>4. F[<<owner[c], k>>] = c
    BY <2>2, <2>3
  <2> QED BY <2>3, <2>4
<1> HIDE DEF F, Cells, Paid
<1>13. F \in Bijection(Cells, Paid)
  BY <1>10, <1>11, <1>12, Fun_IsBij
<1>14. ExistsBijection(Paid, Cells)
  BY <1>13, Fun_ExistsBij, Fun_ExistsBijSymmetric
<1>15. Cardinality(Cells) = Cardinality(Paid)
  BY <1>1, <1>14, FS_Bijection
<1> QED BY <1>15 DEF TotalOf, Cells, Paid, N

\* The unspent outputs of an address page are those of the balance it shows, an xpub page's
\* total is the number of coins its network has, when the index stood still.
LEMMA QuietPages == ASSUME AddressIInv PROVE QuietPagesAgree
<1> SUFFICES ASSUME Cardinality(had) = 1
             PROVE  /\ AddressDone => balance[subject] = Cardinality(coins)
                    /\ XpubDone => TotalOf(balance, Derived[subject])
                                     = Cardinality({c \in Coin : owner[c] \in Derived[subject]})
  BY DEF QuietPagesAgree
<1>1. pc = "done" => had = {Balances}
  <2>1. PICK h : had = {h}
    BY FS_Singleton DEF AddressIInv, Growing
  <2> QED BY <2>1 DEF AddressIInv, Growing
<1>2. known \subseteq Address /\ \A c \in Coin : owner[c] \in known \cup {Nobody}
  BY DEF AddressIInv, AddressTypeOK, Growing
<1>3. ASSUME AddressDone PROVE balance[subject] = Cardinality(coins)
  <2>1. /\ subject \in known /\ balance[subject] = Balances[subject]
        /\ Cardinality(coins) = Value(Balances[subject])
    BY <1>1, <1>3 DEF AddressIInv, SummaryRead, AddressDone
  <2>2. Balances[subject] # NoSummary
    BY <1>2, <2>1, BalancesNow
  <2> QED BY <2>1, <2>2 DEF Value
<1>4. ASSUME XpubDone
      PROVE  TotalOf(balance, Derived[subject])
               = Cardinality({c \in Coin : owner[c] \in Derived[subject]})
  <2>1. \A a \in Derived[subject] : balance[a] = Balances[a]
    BY <1>1, <1>4 DEF AddressIInv, ReadSoFar, Lines, XpubDone
  <2>2. Derived[subject] \in SUBSET Address
    BY <1>4 DEF XpubDone, Address
  <2> QED BY <1>2, <2>1, <2>2, TotalsCountCoins
<1> QED BY <1>3, <1>4

\* However a request's reads and the commits interleave, every line of an address or xpub page
\* is one the index had; when nothing is committed the page adds up; an xpub page is of the
\* first network that has a history, or of the first (addressExplorerService.js:40-60, 84-160).
THEOREM PagesAreTrue == AddressSpec => []QueriesInvariant
<1>1. ASSUME AddressIInv PROVE QueriesInvariant
  <2>1. EveryLineWasTrue
    BY <1>1 DEF AddressIInv, EveryLineWasTrue, ReadSoFar, SummaryRead, Lines
  <2>2. NetworkIsRight
    BY <1>1 DEF AddressIInv, NetworkIsRight, ReadSoFar, Chosen, Empty
  <2> QED BY <1>1, <2>1, <2>2, QuietPages DEF AddressIInv, QueriesInvariant
<1> QED BY <1>1, AddressInvariance, PTL

--------------------------------------------------------------------------------
(* Walks over the pages of a list. *)

RowSeq == Seq(1..MaxItems)

RowTypes ==
  /\ PagesTypeOK
  /\ items \in RowSeq /\ began \in RowSeq /\ shown \in RowSeq /\ seen \in RowSeq
  /\ asked.size \in Sizes /\ count \in Nat

\* While the list is as it was: what k pages hold has been seen, and Next leads on as long
\* as there is more.
QuietWalk(k) ==
  ~moved =>
    /\ began = items /\ (more <=> HasNext(page, DefaultSize))
    /\ seen = SubSeq(items, 1, AtMost(Len(items), k * DefaultSize))

\* A history only grows at its front: what it was is its tail, and of that tail everything
\* has been seen that k pages of it reached when the last of them was shown.
GrowingWalk(k) ==
  view = "address" =>
    /\ Len(began) <= count /\ count <= Len(items)
    /\ \A j \in 1..Len(began) : items[j + (Len(items) - Len(began))] = began[j]
    /\ \A j \in 1..Len(began) :
         j + (count - Len(began)) <= k * DefaultSize => began[j] \in Range(seen)
    /\ more \/ k * DefaultSize >= count

\* A reader who only follows Next has walked over whole pages.
WalkSoFar ==
  straight =>
    \E k \in Nat \ {0} :
      page = 2 * k /\ (asked.size = DefaultSize => QuietWalk(k) /\ GrowingWalk(k))

PagesIInv == RowTypes /\ WalkSoFar /\ PageExists

\* Halves, rounded down.
LEMMA Halved == ASSUME NEW n \in Int
  PROVE /\ (2 * n) \div 2 = n
        /\ n \div 2 \in Int /\ 2 * (n \div 2) <= n /\ n <= 2 * (n \div 2) + 1
OBVIOUS

\* Whole pages fit, and one more does not.
LEMMA Quotient == ASSUME NEW n \in Nat, NEW d \in Nat \ {0}
  PROVE n \div d \in Nat /\ (n \div d) * d <= n /\ n < (n \div d) * d + d
OBVIOUS

\* k pages are one more than k - 1.
LEMMA OnePageMore ==
  ASSUME NEW k \in Nat
  PROVE  /\ k * DefaultSize \in Nat /\ (k + 1) * DefaultSize = k * DefaultSize + DefaultSize
         /\ (2 * (k + 1) - One) * DefaultSize = 2 * (k * DefaultSize)
         /\ (2 * k) * DefaultSize = 2 * (k * DefaultSize)
BY PagesAssumption DEF One

\* The last page is not empty, and nothing is behind it.
LEMMA LastPage ==
  ASSUME items \in RowSeq
  PROVE  /\ TotalPages \in Nat \ {0} /\ TotalPages * DefaultSize >= Len(items)
         /\ Len(items) > 0 => (TotalPages - 1) * DefaultSize < Len(items)
<1> DEFINE N == Len(items) + DefaultSize - 1
           T == N \div DefaultSize
<1>1. Len(items) \in Nat /\ DefaultSize \in Nat \ {0}
  BY PagesAssumption, LenProperties DEF RowSeq
<1>2. N \in Nat
  BY <1>1
<1>3. T \in Nat /\ T * DefaultSize <= N /\ N < T * DefaultSize + DefaultSize
  BY <1>1, <1>2, Quotient
<1>4. TotalPages = IF 1 > T THEN 1 ELSE T
  BY DEF TotalPages, AtLeast
<1> HIDE DEF T
<1>5. CASE T = 0
  BY <1>1, <1>3, <1>4, <1>5
<1>6. CASE T # 0
  <2>1. TotalPages = T /\ (T - 1) * DefaultSize = T * DefaultSize - DefaultSize
    BY <1>1, <1>3, <1>4, <1>6
  <2> QED BY <1>1, <1>3, <1>6, <2>1
<1> QED BY <1>5, <1>6

\* The page that is shown is a page of the list.
LEMMA SafePages ==
  ASSUME items \in RowSeq, NEW p \in Int, NEW q, q = SafePage(Parsed(p))
  PROVE  /\ q \in Nat /\ q >= One
         /\ view # "address" => q <= 2 * TotalPages
         /\ view = "address" /\ p >= One => q = p
         /\ view # "address" /\ p >= One => q = IF p < 2 * TotalPages THEN p ELSE 2 * TotalPages
BY LastPage DEF SafePage, Parsed, AtLeast, AtMost, One

\* The rows of a page.
LEMMA RowsOfPage ==
  ASSUME items \in RowSeq, NEW q \in Nat, q >= One, NEW size \in Sizes, NEW rows, rows = Taken(q, size)
  PROVE  /\ Skipped(q, size) \in Nat
         /\ rows \in RowSeq /\ Len(rows) <= size
         /\ Len(rows) = IF Skipped(q, size) >= Len(items) THEN 0
                        ELSE AtMost(Len(items), Skipped(q, size) + size) - Skipped(q, size)
         /\ \A i \in 1..Len(rows) : rows[i] = items[Skipped(q, size) + i]
<1> DEFINE s == Skipped(q, size)
           t == AtMost(Len(items), s + size)
<1>1. size \in Nat \ {0} /\ Len(items) \in Nat /\ \A i \in 1..Len(items) : items[i] \in 1..MaxItems
  BY PagesAssumption, LenProperties, ElementOfSeq DEF RowSeq
<1>2. s \in Nat
  <2>1. (q - One) * size \in Nat
    BY <1>1 DEF One
  <2> QED BY <2>1, Halved DEF Skipped
<1>3. t \in Nat /\ t <= Len(items) /\ t <= s + size /\ (t = Len(items) \/ t = s + size)
  BY <1>1, <1>2 DEF AtMost
<1>4. rows = SubSeq(items, s + 1, t)
  BY DEF Taken
<1> HIDE DEF s, t
<1>5. \A i \in (s + 1)..t : items[i] \in 1..MaxItems
  BY <1>1, <1>2, <1>3
<1>6. /\ rows \in RowSeq /\ Len(rows) = IF s + 1 <= t THEN t - (s + 1) + 1 ELSE 0
      /\ \A i \in 1..(t - (s + 1) + 1) : rows[i] = items[s + 1 + i - 1]
  BY <1>2, <1>3, <1>4, <1>5, SubSeqProperties DEF RowSeq
<1>7. Len(rows) = (IF s >= Len(items) THEN 0 ELSE t - s) /\ Len(rows) <= size
  BY <1>1, <1>2, <1>3, <1>6
<1>8. \A i \in 1..Len(rows) : rows[i] = items[s + i]
  BY <1>1, <1>2, <1>3, <1>6
<1> QED BY <1>2, <1>6, <1>7, <1>8 DEF s, t

\* What k + 1 whole pages show and lead to.
LEMMA WholePage ==
  ASSUME items \in RowSeq, NEW k \in Nat, NEW q, q = 2 * (k + 1)
  PROVE  /\ Skipped(q, DefaultSize) = k * DefaultSize
         /\ HasNext(q, DefaultSize) \/ (k + 1) * DefaultSize >= Len(items)
<1>1. DefaultSize \in Nat \ {0} /\ Len(items) \in Nat
  BY PagesAssumption, LenProperties DEF RowSeq
<1>2. k * DefaultSize \in Nat /\ (k + 1) * DefaultSize = k * DefaultSize + DefaultSize
  BY OnePageMore
<1>3. Skipped(q, DefaultSize) = k * DefaultSize
  BY <1>2, OnePageMore, Halved DEF Skipped
<1>4. CASE view = "address"
  <2>1. q * DefaultSize = 2 * ((k + 1) * DefaultSize)
    BY OnePageMore
  <2> QED BY <1>1, <1>2, <1>3, <1>4, <2>1 DEF HasNext, Counted, AtMost
<1>5. CASE view # "address"
  <2>1. ASSUME ~HasNext(q, DefaultSize) PROVE (k + 1) * DefaultSize >= Len(items)
    <3>1. k + 1 >= TotalPages /\ TotalPages \in Nat
      BY <1>5, <2>1, LastPage DEF HasNext
    <3>2. (k + 1) * DefaultSize >= TotalPages * DefaultSize
      BY <1>1, <3>1
    <3> QED BY <1>1, <1>2, <3>1, <3>2, LastPage
  <2> QED BY <1>3, <2>1
<1> QED BY <1>4, <1>5

\* Rows are items, alone and behind others.
LEMMA RangeOfRows == ASSUME NEW s \in RowSeq PROVE Range(s) \subseteq 1..MaxItems
<1>1. DOMAIN s = 1..Len(s) /\ \A i \in 1..Len(s) : s[i] \in 1..MaxItems
  BY LenProperties, ElementOfSeq DEF RowSeq
<1> QED BY <1>1 DEF Range

LEMMA RangeOfBoth ==
  ASSUME NEW s \in RowSeq, NEW t \in RowSeq
  PROVE  /\ s \o t \in RowSeq /\ Range(s) \subseteq Range(s \o t)
         /\ \A i \in 1..Len(t) : t[i] \in Range(s \o t)
<1>1. /\ s \o t \in RowSeq /\ Len(s \o t) = Len(s) + Len(t)
      /\ \A i \in 1..(Len(s) + Len(t)) : (s \o t)[i] = IF i <= Len(s) THEN s[i] ELSE t[i - Len(s)]
  BY ConcatProperties DEF RowSeq
<1>2. /\ Len(s) \in Nat /\ Len(t) \in Nat /\ DOMAIN s = 1..Len(s)
      /\ DOMAIN (s \o t) = 1..(Len(s) + Len(t))
  BY <1>1, LenProperties DEF RowSeq
<1>3. ASSUME NEW i \in 1..Len(s) PROVE s[i] \in Range(s \o t)
  <2>1. i \in 1..(Len(s) + Len(t)) /\ (s \o t)[i] = s[i]
    BY <1>1, <1>2
  <2> QED BY <1>2, <2>1 DEF Range
<1>4. ASSUME NEW i \in 1..Len(t) PROVE t[i] \in Range(s \o t)
  <2>1. Len(s) + i \in 1..(Len(s) + Len(t)) /\ (s \o t)[Len(s) + i] = t[i]
    BY <1>1, <1>2
  <2> QED BY <1>2, <2>1 DEF Range
<1>5. Range(s) \subseteq Range(s \o t)
  BY <1>2, <1>3 DEF Range
<1> QED BY <1>1, <1>4, <1>5

\* A page exists when it is shown, and is as long as it may be.
LEMMA ShowsPage ==
  ASSUME RowTypes, NEW p \in Int, NEW size \in Sizes, view # "address" => size = DefaultSize,
         Show(p, size)
  PROVE  /\ page' = SafePage(Parsed(p)) /\ page' \in Nat /\ page' >= One
         /\ shown' = Taken(page', size) /\ shown' \in RowSeq /\ Len(shown') <= size
         /\ more' = HasNext(page', size) /\ more' \in BOOLEAN
         /\ count' = Len(items) /\ count' \in Nat
         /\ UNCHANGED <<view, items, fresh>>
         /\ PageExists'
<1>1. PICK q : q = SafePage(Parsed(p))
  OBVIOUS
<1>2. /\ page' = q /\ shown' = Taken(q, size) /\ more' = HasNext(q, size) /\ count' = Len(items)
      /\ UNCHANGED <<view, items, fresh>>
  BY <1>1 DEF Show, listVars
<1>3. items \in RowSeq /\ Len(items) \in Nat /\ DefaultSize \in Nat \ {0}
  BY PagesAssumption, LenProperties DEF RowTypes, RowSeq
<1>4. q \in Nat /\ q >= One /\ (view # "address" => q <= 2 * TotalPages)
  BY <1>1, <1>3, SafePages
<1>5. /\ Taken(q, size) \in RowSeq /\ Len(Taken(q, size)) <= size
      /\ Len(Taken(q, size)) = IF Skipped(q, size) >= Len(items) THEN 0
                               ELSE AtMost(Len(items), Skipped(q, size) + size) - Skipped(q, size)
      /\ Skipped(q, size) \in Nat
  BY <1>3, <1>4, RowsOfPage
<1>6. HasNext(q, size) \in BOOLEAN
  <2>1. size \in Nat /\ TotalPages \in Nat /\ Counted(q, size) \in Int
    BY <1>3, <1>5, LastPage, PagesAssumption DEF Counted, AtMost
  <2>2. q * size \in Int
    BY <1>4, <2>1
  <2>3. (q * size < 2 * Counted(q, size)) \in BOOLEAN /\ (q < 2 * TotalPages) \in BOOLEAN
    BY <1>4, <2>1, <2>2
  <2> QED BY <2>3 DEF HasNext
<1>7. ASSUME view # "address", Len(items) > 0
      PROVE  Taken(q, size) # <<>> /\ 2 * Len(items) > (q - One) * DefaultSize
  <2>1. TotalPages \in Nat \ {0} /\ (TotalPages - 1) * DefaultSize < Len(items)
    BY <1>3, <1>7, LastPage
  <2>2. (q - One) * DefaultSize <= (2 * TotalPages - One) * DefaultSize
    BY <1>3, <1>4, <1>7, <2>1 DEF One
  <2>3. (2 * TotalPages - One) * DefaultSize = 2 * ((TotalPages - 1) * DefaultSize)
    BY <1>3, <2>1 DEF One
  <2>4. (q - One) * DefaultSize \in Nat /\ (TotalPages - 1) * DefaultSize \in Nat
    BY <1>3, <1>4, <2>1 DEF One
  <2>5. 2 * Len(items) > (q - One) * DefaultSize
    BY <1>3, <2>1, <2>2, <2>3, <2>4
  <2>6. Skipped(q, size) < Len(items)
    BY <1>3, <1>7, <2>4, <2>5, Halved DEF Skipped
  <2>7. Len(Taken(q, size)) > 0
    BY <1>3, <1>5, <1>7, <2>6 DEF AtMost
  <2> QED BY <2>5, <2>7
<1>8. PageExists'
  BY <1>2, <1>7 DEF PageExists
<1> QED BY <1>1, <1>2, <1>3, <1>4, <1>5, <1>6, <1>8

\* Nobody walks yet.
LEMMA PagesStart == PagesInit => PagesIInv
<1> SUFFICES ASSUME PagesInit PROVE PagesIInv
  OBVIOUS
<1>1. PICK n \in 0..(MaxItems - 1) : fresh = n /\ items = [i \in 1..n |-> n + 1 - i]
  BY DEF PagesInit
<1>2. MaxItems \in Nat /\ DefaultSize \in Sizes /\ DefaultSize \in Nat \ {0} /\ n \in Nat
  BY <1>1, PagesAssumption
<1>3. \A i \in 1..n : n + 1 - i \in 1..MaxItems
  BY <1>2
<1>4. items \in RowSeq
  <2>1. items \in [1..n -> 1..MaxItems]
    BY <1>1, <1>3
  <2> QED BY <1>2, <2>1 DEF RowSeq
<1>5. <<>> \in RowSeq /\ Range(<<>>) = {} /\ Len(<<>>) = 0
  BY DEF RowSeq, Range
<1>6. Range(items) \subseteq 1..MaxItems
  BY <1>4, RangeOfRows
<1>7. RowTypes
  <2>1. PagesTypeOK
    <3>1. /\ view \in Views /\ page = 0 /\ more = FALSE /\ straight = FALSE /\ moved = FALSE
          /\ shown = <<>> /\ seen = <<>> /\ asked.size = DefaultSize
      BY DEF PagesInit
    <3>2. Len(shown) <= AtLeast(DefaultSize, asked.size)
      BY <1>2, <1>5, <3>1 DEF AtLeast
    <3>3. fresh \in 0..MaxItems
      BY <1>1, <1>2
    <3> QED BY <1>5, <1>6, <3>1, <3>2, <3>3 DEF PagesTypeOK
  <2> QED BY <1>2, <1>4, <1>5, <2>1 DEF PagesInit, RowTypes
<1> QED BY <1>7 DEF PagesInit, PagesIInv, WalkSoFar, PageExists

\* The list changes under the reader.
LEMMA ListSteps == ASSUME PagesIInv, Arrives \/ Leaves PROVE PagesIInv'
<1>1. /\ UNCHANGED <<view, asked, page, count, shown, more, seen, began, straight>> /\ moved' = TRUE
  BY DEF Arrives, Leaves, readerVars
<1>2. items \in RowSeq /\ Len(items) \in Nat /\ MaxItems \in Nat /\ fresh \in 0..MaxItems
  BY PagesAssumption, LenProperties DEF PagesIInv, RowTypes, PagesTypeOK, RowSeq
<1>3. ASSUME items' \in RowSeq, fresh' \in 0..MaxItems PROVE RowTypes' /\ PageExists'
  <2>1. Range(items') \subseteq 1..MaxItems
    BY <1>3, RangeOfRows
  <2> QED BY <1>1, <1>3, <2>1 DEF PagesIInv, RowTypes, PagesTypeOK, PageExists
<1>4. CASE Arrives
  <2>1. fresh' \in 1..MaxItems /\ items' = <<fresh'>> \o items
    BY <1>2, <1>4 DEF Arrives
  <2>2. <<fresh'>> \in RowSeq /\ Len(<<fresh'>>) = 1
    BY <2>1 DEF RowSeq
  <2>3. /\ items' \in RowSeq /\ Len(items') = Len(items) + 1
        /\ \A i \in 1..(1 + Len(items)) : items'[i] = IF i <= 1 THEN <<fresh'>>[i] ELSE items[i - 1]
    BY <1>2, <2>1, <2>2, ConcatProperties DEF RowSeq
  <2>4. ASSUME NEW k \in Nat, GrowingWalk(k) PROVE GrowingWalk(k)'
    <3>1. SUFFICES ASSUME view = "address" PROVE GrowingWalk(k)'
      BY <1>1 DEF GrowingWalk
    <3>2. Len(began) \in Nat /\ count \in Nat
      BY LenProperties DEF PagesIInv, RowTypes, RowSeq
    <3>3. Len(began) <= count /\ count <= Len(items) /\ count <= Len(items')
      BY <1>2, <2>3, <2>4, <3>1, <3>2 DEF GrowingWalk
    <3>4. ASSUME NEW j \in 1..Len(began) PROVE items'[j + (Len(items') - Len(began))] = began[j]
      <4>1. items[j + (Len(items) - Len(began))] = began[j]
        BY <2>4, <3>1 DEF GrowingWalk
      <4>2. j + (Len(items') - Len(began)) \in 2..(1 + Len(items))
            /\ j + (Len(items') - Len(began)) - 1 = j + (Len(items) - Len(began))
        BY <1>2, <2>3, <3>2, <3>3
      <4>3. items'[j + (Len(items') - Len(began))] = items[j + (Len(items') - Len(began)) - 1]
        BY <1>2, <2>3, <4>2
      <4> QED BY <4>1, <4>2, <4>3
    <3> QED BY <1>1, <2>4, <3>1, <3>3, <3>4 DEF GrowingWalk
  <2>5. WalkSoFar'
    BY <1>1, <2>4 DEF PagesIInv, WalkSoFar, QuietWalk
  <2>6. fresh' \in 0..MaxItems
    BY <2>1
  <2> QED BY <1>3, <2>3, <2>5, <2>6 DEF PagesIInv
<1>5. CASE Leaves
  <2>1. PICK i \in DOMAIN items : items' = RemoveAt(items, i)
    BY <1>5 DEF Leaves
  <2>2. i \in 1..Len(items)
    BY <2>1, LenProperties, <1>2 DEF RowSeq
  <2>3. \A j \in 1..Len(items) : items[j] \in 1..MaxItems
    BY <1>2, ElementOfSeq DEF RowSeq
  <2>4. SubSeq(items, 1, i - 1) \in RowSeq
    <3>1. \A j \in 1..(i - 1) : items[j] \in 1..MaxItems
      BY <1>2, <2>2, <2>3
    <3> QED BY <2>2, <3>1, SubSeqProperties DEF RowSeq
  <2>5. SubSeq(items, i + 1, Len(items)) \in RowSeq
    <3>1. \A j \in (i + 1)..Len(items) : items[j] \in 1..MaxItems
      BY <1>2, <2>2, <2>3
    <3> QED BY <1>2, <2>2, <3>1, SubSeqProperties DEF RowSeq
  <2>6. items' \in RowSeq
    BY <2>1, <2>4, <2>5, RangeOfBoth DEF RemoveAt
  <2>7. view = "mempool" /\ fresh' \in 0..MaxItems
    BY <1>2, <1>5 DEF Leaves
  <2>8. WalkSoFar'
    BY <1>1, <2>7 DEF PagesIInv, WalkSoFar, QuietWalk, GrowingWalk
  <2> QED BY <1>3, <2>6, <2>7, <2>8 DEF PagesIInv
<1> QED BY <1>4, <1>5

\* What the end of a page is cut to.
LEMMA Least ==
  ASSUME NEW a \in Nat, NEW b \in Nat
  PROVE  /\ AtMost(a, b) \in Nat
         /\ a <= b => AtMost(a, b) = a
         /\ b <= a => AtMost(a, b) = b
BY DEF AtMost

\* The rows of a page follow those of the pages before it.
LEMMA FirstRows ==
  ASSUME items \in RowSeq, NEW r \in Nat, NEW s \in Nat, r <= s
  PROVE  SubSeq(items, 1, AtMost(Len(items), r)) \o SubSeq(items, r + 1, AtMost(Len(items), s))
           = SubSeq(items, 1, AtMost(Len(items), s))
<1> DEFINE n == Len(items)
<1>1. n \in Nat
  BY LenProperties DEF RowSeq
<1>2. CASE r <= n
  <2>1. AtMost(n, r) = r
    BY <1>1, <1>2, Least
  <2>2. AtMost(n, s) \in r..n
    <3>1. CASE n <= s
      BY <1>1, <1>2, <3>1, Least
    <3>2. CASE s <= n
      BY <1>1, <3>2, Least
    <3> QED BY <1>1, <3>1, <3>2
  <2>3. 1 \in 1..(n + 1) /\ r \in (1 - 1)..n
    BY <1>1, <1>2
  <2>4. SubSeq(items, 1, r) \o SubSeq(items, r + 1, AtMost(n, s)) = SubSeq(items, 1, AtMost(n, s))
    BY <2>2, <2>3, ConcatAdjacentSubSeq DEF RowSeq
  <2> QED BY <2>1, <2>4
<1>3. CASE ~(r <= n)
  <2>1. n <= r /\ n <= s /\ n < r + 1 /\ r + 1 \in Int /\ n \in Int
    BY <1>1, <1>3
  <2>2. AtMost(n, r) = n /\ AtMost(n, s) = n
    BY <1>1, <2>1, Least
  <2>3. SubSeq(items, r + 1, n) = <<>>
    BY <2>1, SubSeqEmpty
  <2>4. SubSeq(items, 1, n) \in RowSeq
    BY SubSeqFull DEF RowSeq
  <2>5. SubSeq(items, 1, n) \o <<>> = SubSeq(items, 1, n)
    BY <2>4, ConcatEmptySeq DEF RowSeq
  <2> QED BY <2>2, <2>3, <2>5
<1> QED BY <1>2, <1>3

\* A page of whole pages: its rows, and where they are in the list.
LEMMA RowsOfWholePage ==
  ASSUME items \in RowSeq, NEW k \in Nat, NEW q, q = 2 * (k + 1), NEW rows, rows = Taken(q, DefaultSize)
  PROVE  /\ rows = SubSeq(items, k * DefaultSize + 1, AtMost(Len(items), (k + 1) * DefaultSize))
         /\ \A i \in Nat : k * DefaultSize < i /\ i <= (k + 1) * DefaultSize /\ i <= Len(items)
              => items[i] \in Range(rows)
<1> DEFINE r == k * DefaultSize
           s == (k + 1) * DefaultSize
           n == Len(items)
<1>1. n \in Nat /\ DefaultSize \in Nat /\ DefaultSize \in Sizes /\ q \in Nat /\ q >= One
  BY PagesAssumption, LenProperties DEF RowSeq, One
<1>2. r \in Nat /\ s = r + DefaultSize
  BY OnePageMore
<1>3. Skipped(q, DefaultSize) = r
  BY WholePage
<1>4. rows = SubSeq(items, r + 1, AtMost(n, s))
  BY <1>2, <1>3 DEF Taken
<1>5. /\ rows \in RowSeq
      /\ Len(rows) = IF r >= n THEN 0 ELSE AtMost(n, s) - r
      /\ \A i \in 1..Len(rows) : rows[i] = items[r + i]
  <2>1. /\ rows \in RowSeq
        /\ Len(rows) = IF Skipped(q, DefaultSize) >= Len(items) THEN 0
                       ELSE AtMost(Len(items), Skipped(q, DefaultSize) + DefaultSize) - Skipped(q, DefaultSize)
        /\ \A i \in 1..Len(rows) : rows[i] = items[Skipped(q, DefaultSize) + i]
    BY <1>1, RowsOfPage
  <2> QED BY <1>2, <1>3, <2>1
<1>6. DOMAIN rows = 1..Len(rows)
  BY <1>5, LenProperties DEF RowSeq
<1> HIDE DEF r, s, n
<1>7. ASSUME NEW i \in Nat, r < i, i <= s, i <= n PROVE items[i] \in Range(rows)
  <2>1. i <= AtMost(n, s) /\ AtMost(n, s) \in Nat
    BY <1>1, <1>2, <1>7 DEF AtMost
  <2>2. i - r \in 1..Len(rows) /\ r + (i - r) = i
    BY <1>1, <1>2, <1>5, <1>7, <2>1
  <2>3. rows[i - r] = items[i]
    BY <1>5, <2>2
  <2> QED BY <1>6, <2>2, <2>3 DEF Range
<1> QED BY <1>4, <1>7 DEF r, s, n

\* A Next link of the page after a step.
LEMMA LinkFrame ==
  ASSUME UNCHANGED <<view, items>>
  PROVE  HasNext(page, DefaultSize)' <=> HasNext(page', DefaultSize)
BY DEF HasNext, Counted, Skipped, TotalPages

\* A link keeps the size that was asked for, and shows no more than the default.
LEMMA AtLeastDefault ==
  ASSUME RowTypes, asked' = asked, shown' \in RowSeq, Len(shown') <= DefaultSize
  PROVE  Len(shown') <= AtLeast(DefaultSize, asked'.size)
<1>1. Len(shown') \in Nat /\ DefaultSize \in Nat
  BY PagesAssumption, LenProperties DEF RowSeq
<1>2. asked.size \in Nat
  BY PagesAssumption DEF RowTypes
<1>3. Len(shown') <= AtLeast(DefaultSize, asked.size)
  BY <1>1, <1>2 DEF AtLeast
<1> QED BY <1>3

\* The first page of a straight walk is page 1, and its rows are what one page holds.
LEMMA OpenStep ==
  ASSUME PagesIInv, NEW p \in -1..MaxHalves, NEW size \in Sizes, Open(p, size)
  PROVE  PagesIInv'
<1>1. /\ Show(p, size) /\ asked' = [page |-> p, size |-> size] /\ seen' = shown' /\ began' = items
      /\ straight' = (page' = One) /\ moved' = FALSE /\ size \in SizesOf(view)
  BY DEF Open
<1>2. p \in Int /\ (view # "address" => size = DefaultSize) /\ RowTypes
  BY <1>1, PagesAssumption DEF SizesOf, PagesIInv
<1>3. /\ page' \in Nat /\ page' >= One /\ shown' = Taken(page', size) /\ shown' \in RowSeq
      /\ Len(shown') <= size /\ more' = HasNext(page', size) /\ more' \in BOOLEAN
      /\ count' = Len(items) /\ count' \in Nat /\ UNCHANGED <<view, items, fresh>> /\ PageExists'
  BY <1>1, <1>2, ShowsPage
<1>4. asked'.size = size /\ (straight' \in BOOLEAN) /\ (straight' => page' = One)
  <2>1. asked'.size = size
    BY <1>1
  <2>2. straight' = (page' = One)
    BY <1>1
  <2>3. (straight' \in BOOLEAN) /\ (straight' => page' = One)
    BY <2>2, Zenon
  <2> QED BY <2>1, <2>3
<1>5. RowTypes'
  <2>1. Range(seen') \subseteq 1..MaxItems
    BY <1>1, <1>3, RangeOfRows
  <2>2. Len(shown') <= AtLeast(DefaultSize, asked'.size)
    BY <1>3, <1>4, PagesAssumption, LenProperties DEF AtLeast, RowSeq
  <2> QED BY <1>1, <1>2, <1>3, <1>4, <2>1, <2>2 DEF RowTypes, PagesTypeOK
<1>6. items \in RowSeq /\ Len(items) \in Nat /\ DefaultSize \in Nat
  BY <1>2, PagesAssumption, LenProperties DEF RowTypes, RowSeq
<1>7. ASSUME straight', asked'.size = DefaultSize PROVE QuietWalk(1)' /\ GrowingWalk(1)'
  <2>1. page' = 2 * (0 + 1) /\ size = DefaultSize
    BY <1>4, <1>7 DEF One
  <2>2. 0 * DefaultSize = 0 /\ (0 + 1) * DefaultSize = DefaultSize /\ 1 * DefaultSize = DefaultSize
    BY <1>6
  <2>3. HasNext(page', DefaultSize) \/ DefaultSize >= Len(items)
    BY <1>6, <2>1, <2>2, WholePage
  <2>4. /\ shown' = SubSeq(items, 0 * DefaultSize + 1, AtMost(Len(items), (0 + 1) * DefaultSize))
        /\ \A i \in Nat : 0 * DefaultSize < i /\ i <= (0 + 1) * DefaultSize /\ i <= Len(items)
             => items[i] \in Range(shown')
    <3>1. shown' = Taken(page', DefaultSize)
      BY <1>3, <2>1
    <3> QED BY <1>6, <2>1, <3>1, RowsOfWholePage
  <2>5. seen' = SubSeq(items, 1, AtMost(Len(items), 1 * DefaultSize))
    <3>1. 0 * DefaultSize + 1 = 1 /\ (0 + 1) * DefaultSize = 1 * DefaultSize
      BY <2>2
    <3> QED BY <1>1, <2>4, <3>1
  <2>6. QuietWalk(1)'
    BY <1>1, <1>3, <2>1, <2>5, LinkFrame DEF QuietWalk
  <2>7. ASSUME NEW j \in 1..Len(items), j <= DefaultSize PROVE items[j] \in Range(shown')
    <3>1. j \in Nat /\ 0 * DefaultSize < j /\ j <= (0 + 1) * DefaultSize /\ j <= Len(items)
      BY <1>6, <2>2, <2>7
    <3> QED BY <2>4, <3>1
  <2>8. Len(items) - Len(items) = 0 /\ \A j \in 1..Len(items) : j + 0 = j
    BY <1>6
  <2>9. GrowingWalk(1)'
    BY <1>1, <1>3, <1>6, <2>1, <2>2, <2>3, <2>7, <2>8 DEF GrowingWalk
  <2> QED BY <2>6, <2>9
<1>8. WalkSoFar'
  <2>1. straight' => page' = 2 * 1
    BY <1>4 DEF One
  <2> QED BY <1>7, <2>1 DEF WalkSoFar
<1> QED BY <1>3, <1>5, <1>8 DEF PagesIInv

\* A reader who turns back no longer walks straight.
LEMMA FollowPreviousStep == ASSUME PagesIInv, FollowPrevious PROVE PagesIInv'
<1>1. /\ Show(page - 2, DefaultSize) /\ straight' = FALSE /\ UNCHANGED <<asked, seen, began, moved>>
  BY DEF FollowPrevious
<1>2. page - 2 \in Int /\ DefaultSize \in Sizes /\ DefaultSize \in Nat /\ RowTypes
  BY PagesAssumption DEF PagesIInv, RowTypes, PagesTypeOK
<1>3. /\ page' \in Nat /\ shown' \in RowSeq /\ Len(shown') <= DefaultSize /\ more' \in BOOLEAN
      /\ count' \in Nat /\ UNCHANGED <<view, items, fresh>> /\ PageExists'
  BY <1>1, <1>2, ShowsPage
<1>4. RowTypes'
  <2>1. Len(shown') <= AtLeast(DefaultSize, asked'.size)
    BY <1>1, <1>2, <1>3, AtLeastDefault
  <2> QED BY <1>1, <1>2, <1>3, <2>1 DEF RowTypes, PagesTypeOK
<1> QED BY <1>1, <1>3, <1>4 DEF PagesIInv, WalkSoFar

\* The next page of a straight walk: its rows follow those of the k pages before it.
LEMMA NextRows ==
  ASSUME PagesIInv, NEW k \in Nat \ {0}, page = 2 * k, more, Show(page + 2, DefaultSize),
         straight, asked.size = DefaultSize, QuietWalk(k), GrowingWalk(k),
         seen' = seen \o shown', UNCHANGED <<asked, began, straight, moved>>,
         page' = 2 * (k + 1)
  PROVE  QuietWalk(k + 1)' /\ GrowingWalk(k + 1)'
<1> DEFINE r == k * DefaultSize
           s == (k + 1) * DefaultSize
           n == Len(items)
           b == Len(began)
<1>1. /\ items \in RowSeq /\ seen \in RowSeq /\ began \in RowSeq
      /\ DefaultSize \in Sizes /\ RowTypes /\ page + 2 \in Int
  BY PagesAssumption DEF PagesIInv, RowTypes
<1>2. /\ n \in Nat /\ b \in Nat /\ count \in Nat /\ r \in Nat /\ s \in Nat /\ r <= s /\ k + 1 \in Nat
  <2>1. DefaultSize \in Nat
    BY PagesAssumption
  <2>2. r \in Nat /\ s = r + DefaultSize
    BY OnePageMore
  <2>3. r <= s /\ s \in Nat /\ k + 1 \in Nat
    BY <2>1, <2>2
  <2> QED BY <1>1, <2>2, <2>3, LenProperties DEF RowSeq, RowTypes
<1>3. /\ shown' = Taken(page', DefaultSize) /\ shown' \in RowSeq
      /\ more' = HasNext(page', DefaultSize) /\ count' = n /\ UNCHANGED <<view, items, fresh>>
  BY <1>1, ShowsPage
<1>4. /\ shown' = SubSeq(items, r + 1, AtMost(n, s))
      /\ \A i \in Nat : r < i /\ i <= s /\ i <= n => items[i] \in Range(shown')
  BY <1>1, <1>3, RowsOfWholePage
<1>5. more' \/ s >= n
  BY <1>1, <1>3, WholePage
<1>6. \A x \in Range(seen) : x \in Range(seen')
  BY <1>1, <1>3, RangeOfBoth
<1>7. \A x \in Range(shown') : x \in Range(seen')
  <2>1. Range(shown') = {shown'[i] : i \in 1..Len(shown')}
    BY <1>3, LenProperties DEF RowSeq, Range
  <2>2. \A i \in 1..Len(shown') : shown'[i] \in Range(seen')
    BY <1>1, <1>3, RangeOfBoth
  <2> QED BY <2>1, <2>2
<1>8. QuietWalk(k + 1)'
  <2>1. ASSUME ~moved
        PROVE  began' = items' /\ seen' = SubSeq(items, 1, AtMost(n, s))
    <3>1. began = items /\ seen = SubSeq(items, 1, AtMost(n, r))
      BY <2>1 DEF QuietWalk
    <3>2. SubSeq(items, 1, AtMost(n, r)) \o SubSeq(items, r + 1, AtMost(n, s)) = SubSeq(items, 1, AtMost(n, s))
      BY <1>1, <1>2, FirstRows
    <3> QED BY <1>3, <1>4, <3>1, <3>2
  <2>2. more' <=> HasNext(page, DefaultSize)'
    BY <1>3, LinkFrame
  <2> QED BY <1>3, <2>1, <2>2 DEF QuietWalk
<1>9. GrowingWalk(k + 1)'
  <2>1. CASE view # "address"
    BY <1>3, <2>1 DEF GrowingWalk
  <2>2. CASE view = "address"
    <3>1. /\ b <= count /\ count <= n
          /\ \A j \in 1..b : items[j + (n - b)] = began[j]
          /\ \A j \in 1..b : j + (count - b) <= r => began[j] \in Range(seen)
      BY <2>2 DEF GrowingWalk
    <3> HIDE DEF r, s, n, b
    <3>2. ASSUME NEW j \in 1..b, j + (n - b) <= s PROVE began[j] \in Range(seen')
      <4>1. CASE j + (count - b) <= r
        BY <1>6, <3>1, <4>1
      <4>2. CASE ~(j + (count - b) <= r)
        <5>1. /\ j + (n - b) \in Nat /\ r < j + (n - b) /\ j + (n - b) <= n
          BY <1>2, <3>1, <3>2, <4>2
        <5>2. items[j + (n - b)] \in Range(shown')
          BY <1>4, <3>2, <5>1
        <5> QED BY <1>7, <3>1, <5>2
      <4> QED BY <4>1, <4>2
    <3>3. b <= n
      BY <1>2, <3>1
    <3>4. n <= n
      BY <1>2
    <3> QED BY <1>3, <1>5, <3>1, <3>2, <3>3, <3>4 DEF GrowingWalk, r, s, n, b
  <2> QED BY <2>1, <2>2
<1> QED BY <1>8, <1>9

\* Next leads to the page after, unless the list became shorter and the link was old.
LEMMA FollowNextStep == ASSUME PagesIInv, FollowNext PROVE PagesIInv'
<1>1. /\ more /\ Show(page + 2, DefaultSize) /\ seen' = (IF straight THEN seen \o shown' ELSE seen)
      /\ UNCHANGED <<asked, began, straight, moved>>
  BY DEF FollowNext
<1>2. /\ page \in Nat /\ page + 2 \in Int /\ DefaultSize \in Sizes /\ RowTypes
      /\ items \in RowSeq /\ seen \in RowSeq
  BY PagesAssumption DEF PagesIInv, RowTypes, PagesTypeOK
<1>3. /\ page' = SafePage(Parsed(page + 2)) /\ page' \in Nat /\ shown' \in RowSeq
      /\ Len(shown') <= DefaultSize /\ more' \in BOOLEAN
      /\ count' \in Nat /\ UNCHANGED <<view, items, fresh>> /\ PageExists'
  BY <1>1, <1>2, ShowsPage
<1>4. RowTypes'
  <2>1. Len(shown') <= AtLeast(DefaultSize, asked'.size)
    BY <1>1, <1>2, <1>3, AtLeastDefault
  <2>2. seen' \in RowSeq
    BY <1>1, <1>2, <1>3, RangeOfBoth
  <2>3. Range(seen') \subseteq 1..MaxItems
    BY <2>2, RangeOfRows
  <2> QED BY <1>1, <1>2, <1>3, <2>1, <2>2, <2>3 DEF RowTypes, PagesTypeOK
<1>5. WalkSoFar'
  <2>1. SUFFICES ASSUME straight PROVE WalkSoFar'
    BY <1>1 DEF WalkSoFar
  <2>2. PICK k \in Nat \ {0} :
          page = 2 * k /\ (asked.size = DefaultSize => QuietWalk(k) /\ GrowingWalk(k))
    BY <2>1 DEF PagesIInv, WalkSoFar
  <2>3. TotalPages \in Nat \ {0}
    BY <1>2, LastPage
  <2>4. /\ view = "address" => page' = page + 2
        /\ view # "address" => page' = IF page + 2 < 2 * TotalPages THEN page + 2 ELSE 2 * TotalPages
    <3>1. page + 2 >= One
      BY <1>2 DEF One
    <3> QED BY <1>2, <1>3, <3>1, SafePages
  <2>5. CASE page' = 2 * (k + 1)
    <3>1. ASSUME asked.size = DefaultSize PROVE QuietWalk(k + 1)' /\ GrowingWalk(k + 1)'
      BY <1>1, <2>1, <2>2, <2>5, <3>1, NextRows
    <3>2. k + 1 \in Nat \ {0}
      OBVIOUS
    <3> QED BY <1>1, <2>5, <3>1, <3>2 DEF WalkSoFar
  <2>6. CASE page' # 2 * (k + 1)
    <3>1. page + 2 = 2 * (k + 1)
      BY <2>2
    <3>2. view # "address" /\ page' = 2 * TotalPages /\ ~(page + 2 < 2 * TotalPages)
      BY <2>4, <2>6, <3>1
    <3>3. ~(page < 2 * TotalPages)
      BY <2>2, <2>3, <2>6, <3>1, <3>2
    <3>4. asked.size = DefaultSize => moved
      BY <1>1, <2>2, <3>2, <3>3 DEF QuietWalk, HasNext
    <3>5. asked.size = DefaultSize => QuietWalk(TotalPages)' /\ GrowingWalk(TotalPages)'
      BY <1>1, <1>3, <3>2, <3>4 DEF QuietWalk, GrowingWalk
    <3>6. PICK t \in Nat \ {0} : t = TotalPages
      BY <2>3
    <3>7. asked.size = DefaultSize => QuietWalk(t)' /\ GrowingWalk(t)'
      BY <1>1, <1>3, <3>2, <3>4 DEF QuietWalk, GrowingWalk
    <3> QED BY <1>1, <3>2, <3>6, <3>7 DEF WalkSoFar
  <2> QED BY <2>5, <2>6
<1> QED BY <1>3, <1>4, <1>5 DEF PagesIInv

\* The inductive invariant of the walks: what k pages have shown of the list, and of the
\* list as it was when the reader opened it.
THEOREM PagesInvariance == PagesSpec => []PagesIInv
<1>1. ASSUME PagesIInv, [PagesNext]_pageVars PROVE PagesIInv'
  <2>1. CASE Arrives \/ Leaves
    BY <1>1, <2>1, ListSteps
  <2>2. CASE \E p \in -1..MaxHalves, size \in Sizes : Open(p, size)
    BY <1>1, <2>2, OpenStep
  <2>3. CASE FollowNext
    BY <1>1, <2>3, FollowNextStep
  <2>4. CASE FollowPrevious
    BY <1>1, <2>4, FollowPreviousStep
  <2>5. CASE UNCHANGED pageVars
    BY <1>1, <2>5 DEF pageVars, listVars, readerVars, PagesIInv, RowTypes, PagesTypeOK, WalkSoFar,
       QuietWalk, GrowingWalk, HasNext, Counted, Skipped, TotalPages, PageExists
  <2> QED BY <1>1, <2>1, <2>2, <2>3, <2>4, <2>5 DEF PagesNext
<1> QED BY <1>1, PagesStart, PTL DEF PagesSpec

\* A reader who opens page 1 of a list and follows the Next links to the last page has seen
\* every row once and in order, if the list stayed as it was; of a history that grew he has
\* seen all that was there; and a page of a block or of the mempool exists and is not empty.
THEOREM WalksAreExact == PagesSpec => []PagesInvariant
<1>1. ASSUME PagesIInv PROVE PagesInvariant
  <2>1. items \in RowSeq /\ began \in RowSeq /\ count \in Nat /\ more \in BOOLEAN
    BY <1>1 DEF PagesIInv, RowTypes, PagesTypeOK
  <2>2. Len(items) \in Nat /\ Len(began) \in Nat /\ DOMAIN began = 1..Len(began)
    BY <2>1, LenProperties DEF RowSeq
  <2>3. ASSUME straight, ~more, ~moved, asked.size = DefaultSize PROVE seen = items
    <3>1. PICK k \in Nat \ {0} : page = 2 * k /\ QuietWalk(k)
      BY <1>1, <2>3 DEF PagesIInv, WalkSoFar
    <3>2. ~HasNext(page, DefaultSize) /\ seen = SubSeq(items, 1, AtMost(Len(items), k * DefaultSize))
      BY <2>3, <3>1 DEF QuietWalk
    <3>3. PICK m \in Nat : k = m + 1
      <4>1. k - 1 \in Nat /\ k = (k - 1) + 1
        OBVIOUS
      <4> QED BY <4>1
    <3>4. k * DefaultSize >= Len(items) /\ k * DefaultSize \in Nat
      BY <2>1, <3>1, <3>2, <3>3, WholePage, OnePageMore
    <3>5. AtMost(Len(items), k * DefaultSize) = Len(items)
      BY <2>2, <3>4, Least
    <3> QED BY <2>1, <3>2, <3>5, SubSeqFull DEF RowSeq
  <2>4. ASSUME straight, ~more, view = "address", asked.size = DefaultSize
        PROVE  Range(began) \subseteq Range(seen)
    <3>1. PICK k \in Nat \ {0} : GrowingWalk(k)
      BY <1>1, <2>4 DEF PagesIInv, WalkSoFar
    <3>2. /\ Len(began) <= count /\ k * DefaultSize >= count
          /\ \A j \in 1..Len(began) : j + (count - Len(began)) <= k * DefaultSize => began[j] \in Range(seen)
      BY <2>4, <3>1 DEF GrowingWalk
    <3>3. k * DefaultSize \in Nat
      BY OnePageMore
    <3>4. ASSUME NEW j \in 1..Len(began) PROVE began[j] \in Range(seen)
      <4>1. j + (count - Len(began)) <= k * DefaultSize
        BY <2>1, <2>2, <3>2, <3>3
      <4> QED BY <3>2, <4>1
    <3> QED BY <2>2, <3>4 DEF Range
  <2> QED BY <1>1, <2>3, <2>4 DEF PagesInvariant, PagesIInv, RowTypes, WalkIsExact, GrowthHidesNothing
<1> QED BY <1>1, PagesInvariance, PTL

--------------------------------------------------------------------------------
(* The snapshot of the mempool. *)

\* Before in the order that sorts by the keys, ties by number.
Precedes(key, u, t) == key[u] < key[t] \/ (key[u] = key[t] /\ u < t)

\* Sorting is possible, and gives every element one place: its rank.
LEMMA SortedIsOrder ==
  ASSUME NEW T \in SUBSET Nat, IsFiniteSet(T), NEW key \in [T -> Nat],
         NEW n, n = Cardinality(T), NEW f, f = Sorted(T, key)
  PROVE  /\ n \in Nat /\ f \in [1..n -> T]
         /\ \A i, j \in 1..n : i < j => key[f[i]] <= key[f[j]] /\ f[i] # f[j]
         /\ \A t \in T : \E i \in 1..n : f[i] = t
<1> DEFINE UpTo(t) == {u \in T : u = t \/ Precedes(key, u, t)}
           rank == [t \in T |-> Cardinality(UpTo(t))]
<1>1. n \in Nat
  BY FS_CardinalityType
<1>0. \A t \in T : t \in Nat /\ key[t] \in Nat
  OBVIOUS
<1>2. \A t \in T : /\ IsFiniteSet(UpTo(t)) /\ rank[t] \in Nat
                   /\ rank[t] <= n
  BY FS_Subset, FS_CardinalityType
<1>3. \A t \in T : rank[t] # 0
  BY <1>2, FS_EmptySet
<1>4. rank \in [T -> 1..n]
  BY <1>1, <1>2, <1>3
<1>5. ASSUME NEW u \in T, NEW t \in T, Precedes(key, u, t) PROVE rank[u] < rank[t]
  <2>1. ASSUME NEW v \in UpTo(u) PROVE v \in UpTo(t)
    <3>1. v \in T /\ (v = u \/ Precedes(key, v, u))
      OBVIOUS
    <3>2. Precedes(key, v, t)
      BY <1>0, <1>5, <3>1 DEF Precedes
    <3> QED BY <3>1, <3>2
  <2>2. t \in UpTo(t) /\ t \notin UpTo(u)
    BY <1>0, <1>5 DEF Precedes
  <2>3. UpTo(u) \subseteq UpTo(t) /\ UpTo(u) # UpTo(t)
    BY <2>1, <2>2
  <2> HIDE DEF UpTo
  <2>4. Cardinality(UpTo(u)) < Cardinality(UpTo(t))
    <3>1. Cardinality(UpTo(u)) <= Cardinality(UpTo(t))
          /\ Cardinality(UpTo(u)) # Cardinality(UpTo(t))
      BY <1>2, <2>3, FS_Subset
    <3> QED BY <1>2, <3>1
  <2> QED BY <2>4
<1>6. \A u, t \in T : u = t \/ Precedes(key, u, t) \/ Precedes(key, t, u)
  BY <1>0 DEF Precedes
<1>7. ASSUME NEW u \in T, NEW t \in T, rank[u] = rank[t] PROVE u = t
  BY <1>4, <1>5, <1>6, <1>7
<1>8. ASSUME NEW i \in 1..n PROVE \E t \in T : rank[t] = i
  <2>1. IsFiniteSet(1..n) /\ Cardinality(1..n) = n
    BY <1>1, FS_Interval
  <2>2. rank \in Injection(T, 1..n)
    BY <1>4, <1>7 DEF Injection, IsInjective
  <2>3. rank \in Surjection(T, 1..n)
    BY <2>1, <2>2, FS_Injection DEF Injection, Bijection
  <2> QED BY <2>3 DEF Surjection
<1> HIDE DEF rank, UpTo
<1> DEFINE place == [i \in 1..n |-> CHOOSE t \in T : rank[t] = i]
<1>9. \A i \in 1..n : place[i] \in T /\ rank[place[i]] = i
  BY <1>8
<1>10. ASSUME NEW i \in 1..n, NEW j \in 1..n, i < j
       PROVE  Precedes(key, place[i], place[j])
  <2>1. /\ place[i] \in T /\ rank[place[i]] = i
        /\ place[j] \in T /\ rank[place[j]] = j
    BY <1>9
  <2>2. place[i] # place[j]
    BY <1>10, <2>1
  <2>3. ~Precedes(key, place[j], place[i])
    <3> SUFFICES ASSUME Precedes(key, place[j], place[i]) PROVE FALSE
      OBVIOUS
    <3>1. rank[place[j]] < rank[place[i]]
      BY <1>5, <2>1
    <3>2. j < i
      BY <2>1, <3>1
    <3> QED BY <1>1, <1>10, <3>2
  <2> QED BY <1>6, <2>1, <2>2, <2>3
<1> HIDE DEF place
<1>11. place \in [1..Cardinality(T) -> T] /\ DOMAIN place = 1..n
  BY <1>9 DEF place
<1>12. f \in [1..n -> T] /\ \A i, j \in 1..n : i < j => Precedes(key, f[i], f[j])
  <2>1. Ordered(place, key)
    BY <1>10, <1>11 DEF Precedes, Ordered
  <2>2. f \in [1..Cardinality(T) -> T] /\ Ordered(f, key)
    BY <1>11, <2>1, Zenon DEF Sorted
  <2> QED BY <2>2 DEF Precedes, Ordered
<1>13. \A i, j \in 1..n : i < j => key[f[i]] <= key[f[j]] /\ f[i] # f[j]
  <2> SUFFICES ASSUME NEW i \in 1..n, NEW j \in 1..n, i < j
               PROVE  key[f[i]] <= key[f[j]] /\ f[i] # f[j]
    OBVIOUS
  <2>1. f[i] \in T /\ f[j] \in T /\ Precedes(key, f[i], f[j])
    BY <1>12
  <2>2. key[f[i]] \in Nat /\ key[f[j]] \in Nat /\ f[i] \in Nat /\ f[j] \in Nat
    BY <2>1
  <2> QED BY <2>1, <2>2 DEF Precedes
<1>14. ASSUME NEW t \in T PROVE \E i \in 1..n : f[i] = t
  <2>1. IsFiniteSet(1..n) /\ Cardinality(1..n) = n
    BY <1>1, FS_Interval
  <2>2. \A i, j \in 1..n : f[i] = f[j] => i = j
    BY <1>1, <1>13
  <2>3. f \in Injection(1..n, T)
    BY <1>12, <2>2 DEF Injection, IsInjective
  <2>4. f \in Surjection(1..n, T)
    BY <2>1, <2>3, FS_Injection DEF Injection, Bijection
  <2> QED BY <2>4 DEF Surjection
<1> QED BY <1>1, <1>12, <1>13, <1>14

\* What the node can answer.
NodeAnswers == UNION {[s -> Details] : s \in SUBSET Tx}

\* A load's state, and that a snapshot is of the answers that it was made from.
MempoolIInv ==
  /\ loadPhase \in {"idle", "loading", "loaded"} /\ loadCalls \subseteq {"info", "entries"}
  /\ mempool \in NodeAnswers /\ rawEntries \in NodeAnswers /\ infoSize \in 0..Cardinality(Tx)
  /\ loadPhase # "loading" => loadCalls = {}
  /\ Loaded => snapshot = [txCount |-> infoSize, medianFee |-> Median(rawEntries),
                           histogram |-> Histogram(rawEntries), entries |-> Entries(rawEntries)]

LEMMA AnswerFacts ==
  ASSUME NEW e \in NodeAnswers
  PROVE  /\ DOMAIN e \in SUBSET Tx /\ DOMAIN e \in SUBSET Nat /\ IsFiniteSet(DOMAIN e)
         /\ \A t \in DOMAIN e : e[t].rate \in NoRate..MaxRate /\ e[t].time \in 0..MaxEntryTime
         /\ Rated(e) \in SUBSET Nat /\ IsFiniteSet(Rated(e)) /\ Rated(e) \subseteq DOMAIN e
         /\ \A t \in Rated(e) : e[t].rate \in 0..MaxRate
         /\ Cardinality(DOMAIN e) \in 0..Cardinality(Tx)
<1>1. DOMAIN e \in SUBSET Tx /\ \A t \in DOMAIN e : e[t] \in Details
  BY DEF NodeAnswers
<1>2. /\ DOMAIN e \in SUBSET Nat /\ IsFiniteSet(DOMAIN e)
      /\ Cardinality(DOMAIN e) \in Nat /\ Cardinality(Tx) \in Nat
      /\ Cardinality(DOMAIN e) <= Cardinality(Tx)
  BY <1>1, MempoolAssumption, FS_Subset, FS_CardinalityType
<1>3. Rated(e) \subseteq DOMAIN e
  BY DEF Rated
<1>4. IsFiniteSet(Rated(e))
  BY <1>2, <1>3, FS_Subset
<1>5. \A t \in Rated(e) : e[t].rate \in 0..MaxRate
  BY <1>1, MempoolAssumption DEF Rated, Details, NoRate
<1> QED BY <1>1, <1>2, <1>3, <1>4, <1>5 DEF Details

LEMMA MempoolStarts == MempoolInit => MempoolIInv
<1> SUFFICES ASSUME MempoolInit PROVE MempoolIInv
  OBVIOUS
<1>1. mempool \in NodeAnswers
  BY DEF MempoolInit, NodeAnswers
<1>2. rawEntries \in NodeAnswers
  <2>1. NoEntries \in [{} -> Details]
    BY DEF NoEntries
  <2> QED BY <2>1 DEF MempoolInit, NodeAnswers
<1>3. infoSize \in 0..Cardinality(Tx)
  BY MempoolAssumption, FS_CardinalityType DEF MempoolInit
<1> QED BY <1>1, <1>2, <1>3 DEF MempoolInit, MempoolIInv, Loaded

LEMMA MempoolSteps == ASSUME MempoolIInv, [MempoolNext]_mempoolVars PROVE MempoolIInv'
<1> USE DEF MempoolIInv, Loaded
<1>1. ASSUME NEW t \in Tx, Comes(t) PROVE MempoolIInv'
  <2>1. PICK d \in Details :
          mempool' = [u \in DOMAIN mempool \cup {t} |-> IF u = t THEN d ELSE mempool[u]]
    BY <1>1 DEF Comes
  <2>2. DOMAIN mempool \in SUBSET Tx /\ \A u \in DOMAIN mempool : mempool[u] \in Details
    BY DEF NodeAnswers
  <2>3. mempool' \in [DOMAIN mempool \cup {t} -> Details] /\ DOMAIN mempool \cup {t} \in SUBSET Tx
    BY <2>1, <2>2
  <2>4. mempool' \in NodeAnswers
    BY <2>3 DEF NodeAnswers
  <2> QED BY <1>1, <2>4 DEF Comes
<1>2. ASSUME NEW t \in Tx, Goes(t) PROVE MempoolIInv'
  <2>1. mempool' = [u \in DOMAIN mempool \ {t} |-> mempool[u]]
    BY <1>2 DEF Goes
  <2>2. DOMAIN mempool \in SUBSET Tx /\ \A u \in DOMAIN mempool : mempool[u] \in Details
    BY DEF NodeAnswers
  <2>3. mempool' \in [DOMAIN mempool \ {t} -> Details] /\ DOMAIN mempool \ {t} \in SUBSET Tx
    BY <2>1, <2>2
  <2>4. mempool' \in NodeAnswers
    BY <2>3 DEF NodeAnswers
  <2> QED BY <1>2, <2>4 DEF Goes
<1>3. CASE Load
  BY <1>3 DEF Load
<1>4. CASE GotInfo
  <2>1. Cardinality(DOMAIN mempool) \in 0..Cardinality(Tx)
    BY AnswerFacts
  <2> QED BY <1>4, <2>1 DEF GotInfo
<1>5. CASE GotEntries
  BY <1>5 DEF GotEntries
<1>6. CASE Build
  BY <1>6 DEF Build
<1>7. CASE UNCHANGED mempoolVars
  BY <1>7 DEF mempoolVars
<1> QED BY <1>1, <1>2, <1>3, <1>4, <1>5, <1>6, <1>7 DEF MempoolNext

\* A set whose members have their places between two others is no larger than what is
\* between.
LEMMA BetweenPlaces ==
  ASSUME NEW n \in Nat, NEW T, NEW f \in [1..n -> T], \A t \in T : \E i \in 1..n : f[i] = t,
         NEW S \in SUBSET T, NEW lo \in Nat, NEW hi \in Nat, lo <= hi + 1,
         \A i \in 1..n : f[i] \in S => lo <= i /\ i <= hi
  PROVE  Cardinality(S) \in Nat /\ Cardinality(S) <= hi - lo + 1
<1> DEFINE g == [t \in S |-> CHOOSE i \in 1..n : f[i] = t]
<1>1. \A t \in S : g[t] \in lo..hi /\ f[g[t]] = t
  <2> SUFFICES ASSUME NEW t \in S PROVE g[t] \in lo..hi /\ f[g[t]] = t
    OBVIOUS
  <2>1. g[t] \in 1..n /\ f[g[t]] = t
    OBVIOUS
  <2> HIDE DEF g
  <2> QED BY <2>1
<1>2. g \in [S -> lo..hi]
  BY <1>1
<1> HIDE DEF g
<1>3. g \in Injection(S, lo..hi)
  BY <1>1, <1>2 DEF Injection, IsInjective
<1>4. IsFiniteSet(lo..hi) /\ Cardinality(lo..hi) = hi - lo + 1
  <2>1. IsFiniteSet(lo..hi) /\ Cardinality(lo..hi) = IF lo > hi THEN 0 ELSE hi - lo + 1
    BY FS_Interval
  <2> QED BY <2>1
<1> QED BY <1>3, <1>4, FS_Injection, FS_CardinalityType

\* What the median is of any answer: half of the rates at most are below, and above.
LEMMA MedianIs ==
  ASSUME NEW e \in NodeAnswers, NEW n, n = Cardinality(Rated(e)), NEW m, m = Median(e)
  PROVE  /\ Rated(e) = {} => m = NoMedian
         /\ Rated(e) # {} =>
              /\ m \in 0..(2 * MaxRate)
              /\ 2 * Cardinality({t \in Rated(e) : 2 * e[t].rate < m}) <= n
              /\ 2 * Cardinality({t \in Rated(e) : 2 * e[t].rate > m}) <= n
              /\ \E t, u \in Rated(e) :
                   /\ e[t].rate + e[u].rate = m
                   /\ \A v \in Rated(e) \ {t, u} :
                        ~(e[t].rate < e[v].rate /\ e[v].rate < e[u].rate)
<1> DEFINE R == Rated(e)
           key == [t \in R |-> e[t].rate]
           f == Sorted(R, key)
           rate(i) == e[f[i]].rate
<1>1. /\ R \in SUBSET Nat /\ IsFiniteSet(R) /\ \A t \in R : e[t].rate \in 0..MaxRate
      /\ key \in [R -> Nat]
  BY AnswerFacts
<1>2. MaxRate \in Nat
  BY MempoolAssumption
<1>3. /\ n \in Nat /\ f \in [1..n -> R]
      /\ \A i, j \in 1..n : i < j => key[f[i]] <= key[f[j]] /\ f[i] # f[j]
      /\ \A t \in R : \E i \in 1..n : f[i] = t
  <2>1. n = Cardinality(R) /\ f = Sorted(R, key)
    OBVIOUS
  <2> HIDE DEF f, key, R
  <2> QED BY <1>1, <2>1, SortedIsOrder
<1>4. \A i \in 1..n : f[i] \in R /\ rate(i) \in 0..MaxRate /\ key[f[i]] = rate(i)
  BY <1>1, <1>3
<1>5. \A i, j \in 1..n : i <= j => rate(i) <= rate(j)
  <2> SUFFICES ASSUME NEW i \in 1..n, NEW j \in 1..n, i <= j PROVE rate(i) <= rate(j)
    OBVIOUS
  <2>1. CASE i = j
    BY <1>2, <1>4, <2>1
  <2>2. CASE i < j
    BY <1>3, <1>4, <2>2
  <2> QED BY <1>3, <2>1, <2>2
<1>6. m = IF n = 0 THEN NoMedian
          ELSE IF n % 2 = 0 THEN rate(n \div 2) + rate(n \div 2 + 1) ELSE 2 * rate(n \div 2 + 1)
  <2>1. n \div 2 \in Nat /\ (n \div 2 + 1) - 1 = n \div 2
    BY <1>3
  <2> QED BY <2>1 DEF Median
<1>7. n = 0 <=> R = {}
  BY <1>1, FS_EmptySet
<1> HIDE DEF f, key, R, rate
<1>8. CASE n = 0
  BY <1>6, <1>7, <1>8 DEF R
<1>9. CASE n # 0
  <2> DEFINE Below == {t \in R : 2 * e[t].rate < m}
             Above == {t \in R : 2 * e[t].rate > m}
  <2>1. PICK p \in 1..n, q \in 1..n :
          /\ p <= q /\ q <= p + 1 /\ 2 * (q - 1) <= n /\ 2 * (n - p) <= n
          /\ m = rate(p) + rate(q)
    <3>1. CASE n % 2 = 0
      <4>1. /\ n \div 2 \in 1..n /\ n \div 2 + 1 \in 1..n
            /\ 2 * (n \div 2) = n
        BY <1>3, <1>9, <3>1
      <4>2. m = rate(n \div 2) + rate(n \div 2 + 1)
        BY <1>6, <1>9, <3>1
      <4> QED BY <1>3, <4>1, <4>2
    <3>2. CASE n % 2 # 0
      <4>1. n \div 2 + 1 \in 1..n /\ 2 * (n \div 2) = n - 1
        BY <1>3, <1>9, <3>2
      <4>2. m = rate(n \div 2 + 1) + rate(n \div 2 + 1)
        BY <1>2, <1>4, <1>6, <1>9, <3>2, <4>1
      <4> QED BY <1>3, <4>1, <4>2
    <3> QED BY <3>1, <3>2
  <2>2. rate(p) \in 0..MaxRate /\ rate(q) \in 0..MaxRate /\ rate(p) <= rate(q)
    BY <1>4, <1>5, <2>1
  <2>3. m \in 0..(2 * MaxRate)
    BY <1>2, <2>1, <2>2
  <2>4. ASSUME NEW i \in 1..n, f[i] \in Below PROVE 1 <= i /\ i <= q - 1
    <3>1. 2 * rate(i) < m /\ rate(i) \in 0..MaxRate
      BY <1>4, <2>4 DEF rate
    <3>2. rate(i) < rate(q)
      BY <1>2, <2>1, <2>2, <3>1
    <3>3. ~(q <= i)
      BY <1>2, <1>5, <2>2, <3>1, <3>2
    <3> QED BY <1>3, <3>3
  <2>5. ASSUME NEW i \in 1..n, f[i] \in Above PROVE p + 1 <= i /\ i <= n
    <3>1. 2 * rate(i) > m /\ rate(i) \in 0..MaxRate
      BY <1>4, <2>5 DEF rate
    <3>2. rate(i) > rate(p)
      BY <1>2, <2>1, <2>2, <3>1
    <3>3. ~(i <= p)
      BY <1>2, <1>5, <2>2, <3>1, <3>2
    <3> QED BY <1>3, <3>3
  <2>6. 2 * Cardinality(Below) <= n
    <3>1. Below \in SUBSET R /\ 1 \in Nat /\ q - 1 \in Nat /\ 1 <= (q - 1) + 1
      BY <1>3
    <3> HIDE DEF Below
    <3>2. Cardinality(Below) \in Nat /\ Cardinality(Below) <= (q - 1) - 1 + 1
      BY <1>3, <2>4, <3>1, BetweenPlaces
    <3> QED BY <1>3, <2>1, <3>2
  <2>7. 2 * Cardinality(Above) <= n
    <3>1. Above \in SUBSET R /\ p + 1 \in Nat /\ n \in Nat /\ p + 1 <= n + 1
      BY <1>3
    <3> HIDE DEF Above
    <3>2. Cardinality(Above) \in Nat /\ Cardinality(Above) <= n - (p + 1) + 1
      BY <1>3, <2>5, <3>1, BetweenPlaces
    <3> QED BY <1>3, <2>1, <3>2
  <2>8. ASSUME NEW v \in R PROVE ~(rate(p) < e[v].rate /\ e[v].rate < rate(q))
    <3>1. PICK i \in 1..n : f[i] = v
      BY <1>3
    <3>2. e[v].rate = rate(i)
      BY <3>1 DEF rate
    <3>3. i <= p \/ q <= i
      BY <1>3, <2>1
    <3>4. rate(i) <= rate(p) \/ rate(q) <= rate(i)
      BY <1>5, <3>3
    <3> QED BY <1>2, <1>4, <2>2, <3>2, <3>4
  <2>9. \E t, u \in R :
          /\ e[t].rate + e[u].rate = m
          /\ \A v \in R \ {t, u} : ~(e[t].rate < e[v].rate /\ e[v].rate < e[u].rate)
    <3>1. f[p] \in R /\ f[q] \in R
      BY <1>4
    <3> QED BY <2>1, <2>8, <3>1 DEF rate
  <2> QED BY <1>7, <1>9, <2>3, <2>6, <2>7, <2>9 DEF R
<1> QED BY <1>8, <1>9

\* The edges ascend, so the first bucket that takes a rate is the last whose lower end it has
\* reached.
LEMMA TakesIs ==
  ASSUME NEW i \in DOMAIN Edges, NEW r \in Nat
  PROVE  Takes(i, r) <=> Edges[i] <= r /\ \A j \in DOMAIN Edges : j > i => r < Edges[j]
<1>1. DOMAIN Edges = 1..Len(Edges) /\ Len(Edges) \in Nat /\ \A j \in DOMAIN Edges : Edges[j] \in Nat
  BY MempoolAssumption
<1> DEFINE L == Len(Edges)
<1>6. L \in Nat /\ \A j : j \in DOMAIN Edges <=> j \in Nat /\ 1 <= j /\ j <= L
  BY <1>1
<1> HIDE DEF L
<1>2. \A j, k \in DOMAIN Edges : j < k => Edges[j] < Edges[k]
  BY MempoolAssumption
<1>3. ASSUME Takes(i, r), NEW j \in DOMAIN Edges, j > i PROVE r < Edges[j]
  <2>1. i + 1 \in DOMAIN Edges /\ i + 1 <= j /\ i # L
    BY <1>3, <1>6
  <2>3. r < Edges[i + 1]
    BY <1>3, <2>1 DEF Takes, InBucket, L
  <2>2. Edges[i + 1] <= Edges[j]
    BY <1>1, <1>2, <2>1
  <2> QED BY <1>1, <2>1, <2>2, <2>3
<1>4. ASSUME Edges[i] <= r, \A j \in DOMAIN Edges : j > i => r < Edges[j] PROVE Takes(i, r)
  <2>1. InBucket(r, i)
    <3>1. i # Len(Edges) => i + 1 \in DOMAIN Edges /\ i + 1 > i
      BY <1>6 DEF L
    <3> QED BY <1>1, <1>4, <3>1 DEF InBucket
  <2>2. ASSUME NEW j \in 1..(i - 1) PROVE ~InBucket(r, j)
    <3>1. j \in DOMAIN Edges /\ j + 1 \in DOMAIN Edges /\ j # Len(Edges) /\ j + 1 <= i
      <4>1. i \in Nat /\ i <= L /\ j \in Nat /\ 1 <= j /\ j < i
        BY <1>6
      <4> QED BY <1>6, <4>1 DEF L
    <3>2. Edges[j + 1] <= Edges[i]
      BY <1>1, <1>2, <3>1
    <3> QED BY <1>1, <1>4, <3>1, <3>2 DEF InBucket
  <2> QED BY <2>1, <2>2 DEF Takes
<1>5. Takes(i, r) => Edges[i] <= r
  BY <1>1 DEF Takes, InBucket
<1> QED BY <1>3, <1>4, <1>5

LEMMA Buckets == ASSUME MempoolIInv PROVE BucketsPartition
<1> SUFFICES ASSUME Loaded, NEW i \in DOMAIN Edges
             PROVE  snapshot.histogram[i]
                      = Cardinality({t \in RatedTx : Edges[i] <= Rate(t)
                          /\ \A j \in DOMAIN Edges : j > i => Rate(t) < Edges[j]})
  BY DEF BucketsPartition
<1>1. snapshot.histogram[i] = Cardinality({t \in RatedTx : Takes(i, Rate(t))})
  BY DEF MempoolIInv, Histogram, RatedTx, Rate
<1>2. \A t \in RatedTx : Rate(t) \in Nat
  BY AnswerFacts, MempoolAssumption DEF MempoolIInv, RatedTx, Rate
<1>3. {t \in RatedTx : Takes(i, Rate(t))}
        = {t \in RatedTx : Edges[i] <= Rate(t)
             /\ \A j \in DOMAIN Edges : j > i => Rate(t) < Edges[j]}
  BY <1>2, TakesIs
<1> QED BY <1>1, <1>3

LEMMA Medians == ASSUME MempoolIInv PROVE MedianIsMiddle
<1> SUFFICES ASSUME Loaded PROVE MedianIsMiddle
  BY DEF MedianIsMiddle
<1>1. rawEntries \in NodeAnswers /\ snapshot.medianFee = Median(rawEntries)
  BY DEF MempoolIInv
<1>2. \A x \in 0..(2 * MaxRate) : x # NoMedian
  BY MempoolAssumption DEF NoMedian
<1> QED BY <1>1, <1>2, MedianIs DEF MedianIsMiddle, RatedTx, Rate

LEMMA Youngest == ASSUME MempoolIInv PROVE YoungestFirst
<1> SUFFICES ASSUME Loaded PROVE YoungestFirst
  BY DEF YoungestFirst
<1> DEFINE T == DOMAIN rawEntries
           n == Cardinality(T)
           key == [t \in T |-> Age(rawEntries[t])]
           f == Sorted(T, key)
           es == [i \in 1..n |-> [txid |-> f[i], rate |-> rawEntries[f[i]].rate,
                                  time |-> rawEntries[f[i]].time]]
<1>1. rawEntries \in NodeAnswers /\ snapshot.entries = es
  BY DEF MempoolIInv, Entries
<1>2. /\ T \in SUBSET Nat /\ IsFiniteSet(T)
      /\ \A t \in T : rawEntries[t].time \in 0..MaxEntryTime
  BY <1>1, AnswerFacts
<1>3. key \in [T -> Nat]
  BY <1>2, MempoolAssumption DEF Age
<1>4. /\ n \in Nat /\ f \in [1..n -> T]
      /\ \A i, j \in 1..n : i < j => key[f[i]] <= key[f[j]] /\ f[i] # f[j]
      /\ \A t \in T : \E i \in 1..n : f[i] = t
  <2>1. n = Cardinality(T) /\ f = Sorted(T, key)
    OBVIOUS
  <2> HIDE DEF f, key, T
  <2> QED BY <1>2, <1>3, <2>1, SortedIsOrder
<1>5. \A i \in 1..n : f[i] \in T /\ key[f[i]] = Age(rawEntries[f[i]])
  BY <1>4
<1> HIDE DEF f, key
<1>6. DOMAIN es = 1..n /\ \A i \in 1..n : es[i].txid = f[i] /\ es[i].time = rawEntries[f[i]].time
  OBVIOUS
<1>7. Len(es) = n
  <2>1. es \in Seq({es[i] : i \in 1..n})
    BY <1>4, IsASeq
  <2> HIDE DEF es
  <2> QED BY <1>4, <1>6, <2>1, LenProperties
<1> HIDE DEF es
<1>8. {es[i].txid : i \in DOMAIN es} = T
  <2>1. {es[i].txid : i \in DOMAIN es} = {f[i] : i \in 1..n}
    BY <1>6
  <2>2. \A i \in 1..n : f[i] \in T
    BY <1>5
  <2>3. \A t \in T : \E i \in 1..n : f[i] = t
    BY <1>4
  <2> HIDE DEF T, n, es
  <2> QED BY <2>1, <2>2, <2>3
<1>9. ASSUME NEW i \in DOMAIN es, NEW j \in DOMAIN es, i < j, es[j].time # 0
      PROVE  es[i].time >= es[j].time \/ es[i].time >= Clock
  <2> DEFINE x == rawEntries[f[i]]
             y == rawEntries[f[j]]
  <2>1. x.time \in 0..MaxEntryTime /\ y.time \in 0..MaxEntryTime /\ y.time # 0
        /\ es[i].time = x.time /\ es[j].time = y.time
    BY <1>2, <1>5, <1>6, <1>9
  <2>2. Age(x) <= Age(y) /\ x.time \in Int /\ y.time \in Int
    BY <1>4, <1>5, <1>6, <1>9, <2>1
  <2> HIDE DEF x, y
  <2> QED BY <2>1, <2>2, MempoolAssumption DEF Age
<1> QED BY <1>1, <1>7, <1>8, <1>9 DEF YoungestFirst

LEMMA MempoolTyped == ASSUME MempoolIInv PROVE MempoolTypeOK
<1>1. DOMAIN mempool \subseteq Tx
  BY AnswerFacts DEF MempoolIInv
<1>2. ASSUME Loaded PROVE snapshot.medianFee \in NoMedian..(2 * MaxRate)
  <2>1. rawEntries \in NodeAnswers /\ snapshot.medianFee = Median(rawEntries)
    BY <1>2 DEF MempoolIInv
  <2>2. CASE Rated(rawEntries) = {}
    <3>1. snapshot.medianFee = NoMedian
      BY <2>1, <2>2, MedianIs
    <3>2. NoMedian \in NoMedian..(2 * MaxRate)
      BY MempoolAssumption DEF NoMedian
    <3> QED BY <3>1, <3>2
  <2>3. CASE Rated(rawEntries) # {}
    <3>1. snapshot.medianFee \in 0..(2 * MaxRate)
      BY <2>1, <2>3, MedianIs
    <3> QED BY <3>1, MempoolAssumption DEF NoMedian
  <2> QED BY <2>2, <2>3
<1>3. ASSUME Loaded PROVE snapshot.histogram \in [DOMAIN Edges -> Nat]
  <2>1. rawEntries \in NodeAnswers /\ snapshot.histogram = Histogram(rawEntries)
    BY <1>3 DEF MempoolIInv
  <2>2. ASSUME NEW i \in DOMAIN Edges
        PROVE  Cardinality({t \in Rated(rawEntries) : Takes(i, rawEntries[t].rate)}) \in Nat
    BY <2>1, AnswerFacts, FS_Subset, FS_CardinalityType
  <2> QED BY <2>1, <2>2 DEF Histogram
<1> QED BY <1>1, <1>2, <1>3 DEF MempoolIInv, MempoolTypeOK, Loaded

\* The invariant holds.
THEOREM MempoolInvariance == MempoolSpec => []MempoolIInv
BY MempoolStarts, MempoolSteps, PTL DEF MempoolSpec

\* Whatever comes and goes between the two calls, the snapshot is that of the answer it was
\* made from: every rate in the bucket of its label, the median in the middle, every
\* transaction listed once and the youngest first (mempoolService.js:47-134).
THEOREM SnapshotsAgree == MempoolSpec => []SnapshotInvariant
<1>1. MempoolIInv => SnapshotInvariant
  BY Buckets, Medians, Youngest, MempoolTyped DEF SnapshotInvariant
<1> QED BY <1>1, MempoolInvariance, PTL
================================================================================

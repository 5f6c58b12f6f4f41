----------------------------- MODULE IndexerStatus -----------------------------
(***************************************************************************)
(* What the address indexer reports of its progress (getStatus and what it *)
(* is computed from, in src/infra/addressIndexer.js; getIndexerStatus in   *)
(* src/services/addressExplorerService.js; the gauges of                   *)
(* src/infra/metrics.js).  A status request asks the node for its height   *)
(* and then for the hash of that block; blocks are mined and processed     *)
(* while it waits.  The route always asks for a fresh tip, so the tip that *)
(* was cached is never read; it is left out.  The height of a tip stands   *)
(* for its hash too, and milliseconds for seconds.                         *)
(*                                                                         *)
(* Definitions ending in _Fault are plausible mistakes in the definition   *)
(* that follows them.                                                      *)
(***************************************************************************)
EXTENDS Integers, FiniteSets, SequencesExt

CONSTANTS
  Request,      \* status requests that may overlap
  SampleLimit,  \* THROUGHPUT_SAMPLE_LIMIT
  MaxDuration,  \* bound: how long a block takes
  Height,       \* bound: the heights the node may have
  Stored,       \* the heights that may be processed before the indexer starts
  MaxTime,      \* bound: the clock
  StaleAfter    \* an age at which a throughput is certainly stale

ASSUME StatusAssumption ==
  /\ SampleLimit \in Nat \ {0}
  /\ Stored \subseteq Height /\ Height \subseteq Nat
  /\ MaxDuration \in Nat /\ MaxTime \in Nat /\ StaleAfter \in Nat

None == -1
MaybeHeight == Height \cup {None}

VARIABLES
  now,      \* the clock
  tip,      \* the node's height
  last,     \* lastProcessedHeight, None before the first block
  samples,  \* throughputSamples
  done,     \* history: the times at which blocks were completed
  statusPhase, \* per request: "idle", "height", "hash", "answered"
  height,   \* per request: what getblockcount returned
  tipAsked, \* history, per request: the node's height when it began
  statusAnswer, \* per request: the status it was given
  gauges    \* the state and the blocks remaining that the exporter shows

answerVars == <<statusPhase, height, tipAsked, statusAnswer, gauges>>
statusVars == <<now, tip, last, samples, done, answerVars>>

NoAnswer == [state |-> "none", remaining |-> None, percent |-> None, eta |-> None, tip |-> None]

StatusInit ==
  /\ now = 0 /\ tip \in Height /\ last \in Stored \cup {None} /\ last <= tip
  /\ samples = <<>> /\ done = <<>>
  /\ statusPhase = [r \in Request |-> "idle"]
  /\ height = [r \in Request |-> None]
  /\ tipAsked = [r \in Request |-> None]
  /\ statusAnswer = [r \in Request |-> NoAnswer]
  /\ gauges = [state |-> "none", remaining |-> 0]

Larger(a, b) == IF a > b THEN a ELSE b

--------------------------------------------------------------------------------
Tick ==
  /\ now < MaxTime /\ now' = now + 1
  /\ UNCHANGED <<tip, last, samples, done, answerVars>>

NodeMines ==
  /\ tip + 1 \in Height /\ tip' = tip + 1
  /\ UNCHANGED <<now, last, samples, done, answerVars>>

\* recordBlockSample
Window_NewestFirstFault(s) == IF Len(s) > SampleLimit THEN SubSeq(s, 1, SampleLimit) ELSE s
Window(s) == IF Len(s) > SampleLimit THEN Tail(s) ELSE s

BlockProcessed(duration) ==
  /\ last < tip /\ last + 1 \in Height /\ last' = last + 1
  /\ samples' = Window(Append(samples, [at |-> now, duration |-> duration]))
  /\ done' = Append(done, now)
  /\ UNCHANGED <<now, tip, answerVars>>

--------------------------------------------------------------------------------
(* getStatus *)

\* The sum of the durations, its milliseconds counted one by one.
TotalDuration ==
  Cardinality({ms \in (DOMAIN samples) \X (1..MaxDuration) : ms[2] <= samples[ms[1]].duration})

\* computeThroughput: the length of the window, 0 if there is no throughput.
WindowMs ==
  IF samples = <<>> THEN 0
  ELSE LET span == Last(samples).at - samples[1].at
       IN  IF span > 0 THEN span ELSE TotalDuration

BlocksRemaining(h) == IF h = None \/ last = None THEN None ELSE Larger(0, h - last)

\* What progressPercent may be, in hundredths: the share of the blocks, rounded to the
\* nearest hundredth. Between two that are as near the floating-point product decides.
Complete == 10000
Percents(h) ==
  IF h = None \/ last = None THEN {None}
  ELSE LET blocks == h + 1
           processed == 1 + IF last < h THEN last ELSE h
           below == (Complete * processed) \div blocks
       IN  {p \in {below, below + 1} :
              2 * (p * blocks - Complete * processed) \in (-blocks)..blocks}

\* blocksRemaining / blocksPerSecond, in the unit of the clock.
Eta(h) ==
  IF BlocksRemaining(h) > 0 /\ WindowMs > 0
    THEN (BlocksRemaining(h) * WindowMs) \div Len(samples)
    ELSE None

StateOf(h) ==
  CASE h = None                  -> "degraded"
    [] h # None /\ last = None   -> "unknown"
    [] BlocksRemaining(h) = 0    -> "synced"
    [] OTHER                     -> "catching_up"

\* h is the height that was fetched, None if that failed.
Status(h, p) ==
  [state |-> StateOf(h), remaining |-> BlocksRemaining(h), percent |-> p, eta |-> Eta(h),
   tip |-> h]

\* recordAddressIndexerSyncStatus: what is not a number is shown as 0.
Shown(status) == [state |-> status.state, remaining |-> Larger(0, status.remaining)]

Answers(r, h) ==
  /\ statusPhase' = [statusPhase EXCEPT ![r] = "answered"]
  /\ \E p \in Percents(h) :
       /\ statusAnswer' = [statusAnswer EXCEPT ![r] = Status(h, p)]
       /\ gauges' = Shown(Status(h, p))
  /\ UNCHANGED <<now, tip, last, samples, done, height, tipAsked>>

AskStatus(r) ==
  /\ statusPhase[r] = "idle"
  /\ statusPhase' = [statusPhase EXCEPT ![r] = "height"]
  /\ tipAsked' = [tipAsked EXCEPT ![r] = tip]
  /\ UNCHANGED <<now, tip, last, samples, done, height, statusAnswer, gauges>>

\* getChainTip: getblockcount.
GotHeight(r) ==
  /\ statusPhase[r] = "height"
  /\ statusPhase' = [statusPhase EXCEPT ![r] = "hash"]
  /\ height' = [height EXCEPT ![r] = tip]
  /\ UNCHANGED <<now, tip, last, samples, done, tipAsked, statusAnswer, gauges>>

HeightFails(r) == statusPhase[r] = "height" /\ Answers(r, None)

\* getblockhash, whose failure does not matter.
TipUsed_LastFault(r) == last
TipUsed(r) == height[r]

GotHash(r) == statusPhase[r] = "hash" /\ Answers(r, TipUsed(r))

Return(r) ==
  /\ statusPhase[r] = "answered"
  /\ statusPhase' = [statusPhase EXCEPT ![r] = "idle"]
  /\ height' = [height EXCEPT ![r] = None]
  /\ tipAsked' = [tipAsked EXCEPT ![r] = None]
  /\ statusAnswer' = [statusAnswer EXCEPT ![r] = NoAnswer]
  /\ UNCHANGED <<now, tip, last, samples, done, gauges>>

\* getIndexerStatus when the indexer could not be started.
NotStarted(r) ==
  /\ statusPhase[r] = "idle" /\ last = None
  /\ statusPhase' = [statusPhase EXCEPT ![r] = "answered"]
  /\ statusAnswer' = [statusAnswer EXCEPT ![r] = [NoAnswer EXCEPT !.state = "error"]]
  /\ gauges' = Shown(statusAnswer'[r])
  /\ UNCHANGED <<now, tip, last, samples, done, height, tipAsked>>

Proceeds(r) == GotHeight(r) \/ HeightFails(r) \/ GotHash(r)

StatusNext ==
  \/ Tick \/ NodeMines
  \/ \E d \in 0..MaxDuration : BlockProcessed(d)
  \/ \E r \in Request : AskStatus(r) \/ Proceeds(r) \/ Return(r) \/ NotStarted(r)

StatusSpec == StatusInit /\ [][StatusNext]_statusVars

\* A request that has begun is answered. Nobody need make one, and the indexer need
\* not get on.
StatusFairSpec == StatusSpec /\ \A r \in Request : WF_statusVars(Proceeds(r))

--------------------------------------------------------------------------------
(* Properties. *)

States == {"none", "error", "degraded", "unknown", "synced", "catching_up"}

Report ==
  [state : States, remaining : Int, percent : Int, eta : Int, tip : MaybeHeight]

StatusTypeOK ==
  /\ now \in 0..MaxTime /\ tip \in Height /\ last \in MaybeHeight
  /\ Len(samples) <= SampleLimit
  /\ statusPhase \in [Request -> {"idle", "height", "hash", "answered"}]
  /\ height \in [Request -> MaybeHeight] /\ tipAsked \in [Request -> MaybeHeight]
  /\ statusAnswer \in [Request -> Report]
  /\ gauges.state \in States /\ gauges.remaining \in Nat

JustAnswered(r) == statusPhase[r] # "answered" /\ statusPhase'[r] = "answered" /\ statusAnswer'[r].state # "error"

\* "synced" is said only of an index that has reached the height the node had when the
\* request came, whatever is mined and processed during it; and what is said to remain is
\* between what is missing to that height and to the height now, never below 0. Once
\* blocks have been seen to take time there is an estimate for what remains, even when
\* they were all completed in one instant (addressIndexer.js:98-110, 446-464, 482-528).
RemainingIsHonest ==
  [][\A r \in Request : JustAnswered(r) /\ statusAnswer'[r].remaining # None =>
       /\ statusAnswer'[r].remaining >= Larger(0, tipAsked[r] - last)
       /\ statusAnswer'[r].remaining <= Larger(0, tip - last)
       /\ statusAnswer'[r].state = "synced" => last >= tipAsked[r]
       /\ statusAnswer'[r].state = "catching_up" /\ (\E i \in DOMAIN samples : samples[i].duration > 0)
            => statusAnswer'[r].eta # None]_statusVars

\* One answer does not contradict itself. No block remaining and "synced" go together, and
\* are never told with less than 100 percent or with an estimate. The converse holds up to
\* the rounding only: 100 percent is told while blocks remain, but not for more of them than
\* one in 20000 of the chain (addressIndexer.js:489-528, 557).
OneStory ==
  \A r \in Request : LET answer == statusAnswer[r] IN
    answer.state \notin {"none", "error"} =>
      /\ answer.state = "synced" <=> answer.remaining = 0
      /\ answer.state = "synced" => answer.percent = Complete
      /\ answer.percent = None <=> answer.remaining = None
      /\ answer.percent = Complete => 2 * Complete * answer.remaining <= answer.tip + 1
      /\ answer.eta # None => answer.state = "catching_up" /\ answer.eta >= 0

\* The throughput is of the latest blocks, as many as the limit admits
\* (addressIndexer.js:404-412).
SamplesAreLatest ==
  [i \in DOMAIN samples |-> samples[i].at]
    = SubSeq(done, Larger(1, Len(done) - SampleLimit + 1), Len(done))

\* What is told at once, and what it is computed from, agree.
StatusInvariant ==
  /\ StatusTypeOK
  /\ OneStory
  /\ SamplesAreLatest

\* Claimed by docs/design/indexer-sync-status.md:59, "safeguards when throughput is zero
\* or stale (return null instead of infinity)".
NoStaleEstimate ==
  [][\A r \in Request :
       JustAnswered(r) /\ statusAnswer'[r].eta # None => now - Last(samples).at <= StaleAfter]_statusVars

\* Claimed by docs/RUNBOOK.md:94, "monitor blocks_remaining, ... to detect stalls (alert
\* if blocks remaining is non-zero for >15 minutes": an index that stays behind shows.
LagIsShown == (last < tip) ~> (last = tip \/ gauges.remaining > 0)
================================================================================

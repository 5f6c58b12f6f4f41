------------------------------- MODULE RpcProofs -------------------------------
(***************************************************************************)
(* Proofs about RpcClient: for any number of calls and restarts, a call    *)
(* over the node's own cookie file is made again only as often as the      *)
(* restarts so far account for.                                            *)
(***************************************************************************)
EXTENDS RpcClient, FiniteSetTheorems, TLAPS

\* A new secret needs a start, and a start a stop before it.
StartsFollowStops == secret + (IF node = "up" THEN 0 ELSE 1) <= restarts

\* Nothing is refreshed and nothing made again with a static password, and what begins
\* has not been made again.
RetriesFollowRejections ==
  \A c \in Call :
    /\ phase[c] = "idle" => retries[c] = 0
    /\ ~useCookie => phase[c] \in {"idle", "sent", "done"} /\ retries[c] = 0

OwnCookie == RightPath /\ useCookie

\* The file holds the newest secret or none, and everything read from it is a secret the
\* node has had; what a rejected call reads is none of the first.
SecretsAreTheNodes ==
  OwnCookie =>
    /\ file \in {secret, Missing, Empty}
    /\ node = "up" => file = secret
    /\ client \in 0..secret
    /\ \A c \in Call : cred[c] \in 0..secret
    /\ \A c \in Call : phase[c] = "read" => cred[c] # 0

\* The retries a call is bound to make if nothing else happens: one after a rejection,
\* and another one if it is going to be sent with an old secret.
Due(c) ==
  CASE phase[c] \in {"idle", "done"} -> 0
    [] phase[c] = "sent"             -> IF cred[c] = secret THEN 0 ELSE 1
    [] phase[c] = "refreshing"       -> 1
    [] phase[c] = "read"             -> IF cred[c] = secret THEN 1 ELSE 2
    [] phase[c] = "retry"            -> IF client = secret THEN 1 ELSE 2

\* The other calls that are about to replace the client by an older one.
Overwriters(c) == {d \in Call \ {c} : phase[d] = "read" /\ cred[d] # secret}

\* The retries made, due and still to be caused by the others are paid for by restarts.
Spent(c) == retries[c] + Due(c) + Cardinality(Overwriters(c))

RetriesPaidFor == OwnCookie => \A c \in Call : Spent(c) <= RetryLimit

IInv ==
  /\ RpcTypeOK
  /\ StartsFollowStops
  /\ RetriesFollowRejections
  /\ SecretsAreTheNodes
  /\ RetriesPaidFor

--------------------------------------------------------------------------------
(* Counting.                                                                    *)

LEMMA CallsCounted == Cardinality(Call) \in Nat
BY CallsAssumption, FS_CardinalityType

\* The first restart pays for one retry, every other one for a retry and an
\* overwriting by each other call.
LEMMA LimitOfRestarts ==
  ASSUME secret \in Nat
  PROVE  /\ RetryLimit \in Nat
         /\ secret = 0 => RetryLimit = 0
         /\ secret = 1 => RetryLimit = 1
         /\ secret > 1 => RetryLimit >= Cardinality(Call) + 1
<1> DEFINE N == Cardinality(Call)
<1>1. N \in Nat
  BY CallsCounted
<1> HIDE DEF N
<1>2. CASE secret = 0
  BY <1>2 DEF RetryLimit
<1>3. CASE secret = 1
  <2>1. (secret - 1) * N = 0
    BY <1>1, <1>3
  <2> QED BY <1>3, <2>1 DEF RetryLimit, N
<1>4. CASE secret > 1
  <2>1. PICK k \in Nat : secret - 1 = k + 1
    BY <1>4
  <2>2. (k + 1) * N = k * N + N /\ k * N \in Nat
    BY <1>1
  <2> QED BY <1>4, <2>1, <2>2, <1>1 DEF RetryLimit, N
<1> QED BY <1>2, <1>3, <1>4

LEMMA LimitGrows ==
  ASSUME secret \in Nat, secret # 0, secret' = secret + 1
  PROVE  RetryLimit' = RetryLimit + Cardinality(Call)
<1> DEFINE N == Cardinality(Call)
           k == secret - 1
<1>1. N \in Nat /\ k \in Nat
  BY CallsCounted
<1>2. RetryLimit = k * N + 1
  BY DEF RetryLimit
<1>3. RetryLimit' = (k + 1) * N + 1
  <2>1. secret' # 0 /\ secret' - 1 = k + 1
    OBVIOUS
  <2> QED BY <2>1 DEF RetryLimit
<1> HIDE DEF N, k
<1>4. (k + 1) * N = k * N + N
  BY <1>1
<1>5. k * N \in Nat
  BY <1>1
<1> QED BY <1>1, <1>2, <1>3, <1>4, <1>5 DEF N

LEMMA OverwritersCounted ==
  ASSUME NEW c \in Call
  PROVE  /\ IsFiniteSet(Overwriters(c))
         /\ Cardinality(Overwriters(c)) \in Nat
         /\ Cardinality(Overwriters(c)) <= Cardinality(Call) - 1
<1>1. IsFiniteSet(Call \ {c}) /\ Cardinality(Call \ {c}) = Cardinality(Call) - 1
  BY CallsAssumption, FS_RemoveElement
<1>2. Overwriters(c) \subseteq Call \ {c}
  BY DEF Overwriters
<1>3. IsFiniteSet(Overwriters(c)) /\ Cardinality(Overwriters(c)) <= Cardinality(Call \ {c})
  BY <1>1, <1>2, FS_Subset
<1> QED BY <1>1, <1>3, FS_CardinalityType

LEMMA OverwritersCountedNext ==
  ASSUME NEW c \in Call
  PROVE  /\ IsFiniteSet(Overwriters(c)')
         /\ Cardinality(Overwriters(c))' \in Nat
         /\ Cardinality(Overwriters(c))' <= Cardinality(Call) - 1
<1>1. IsFiniteSet(Call \ {c}) /\ Cardinality(Call \ {c}) = Cardinality(Call) - 1
  BY CallsAssumption, FS_RemoveElement
<1>2. Overwriters(c)' \subseteq Call \ {c}
  BY DEF Overwriters
<1>3. IsFiniteSet(Overwriters(c)') /\ Cardinality(Overwriters(c)') <= Cardinality(Call \ {c})
  BY <1>1, <1>2, FS_Subset
<1>4. Cardinality(Overwriters(c)') \in Nat
  BY <1>3, FS_CardinalityType
<1> QED BY <1>1, <1>3, <1>4

Phases == {"idle", "sent", "refreshing", "read", "retry", "done"}

LEMMA DueIsSmall ==
  ASSUME NEW c \in Call, phase \in [Call -> Phases]
  PROVE  Due(c) \in 0..2
<1>1. phase[c] \in Phases
  OBVIOUS
<1> QED BY <1>1 DEF Due, Phases

--------------------------------------------------------------------------------
(* Types, and the conjuncts that hold as long as the values do.                 *)

LEMMA InitIInv == RpcInit => IInv
<1> SUFFICES ASSUME RpcInit PROVE IInv
  OBVIOUS
<1>1. RpcTypeOK
  BY PathAssumption, CountsAssumption DEF RpcInit, RpcTypeOK, Missing, Empty, Foreign
<1>2. StartsFollowStops
  BY DEF RpcInit, StartsFollowStops
<1>3. RetriesFollowRejections
  BY DEF RpcInit, RetriesFollowRejections
<1>4. SecretsAreTheNodes
  BY DEF RpcInit, SecretsAreTheNodes, OwnCookie
<1>5. RetriesPaidFor
  <2> SUFFICES ASSUME NEW c \in Call PROVE Spent(c) <= RetryLimit
    BY DEF RetriesPaidFor
  <2>1. Due(c) = 0
    BY DEF RpcInit, Due
  <2>2. Overwriters(c) = {}
    BY DEF RpcInit, Overwriters
  <2>3. Cardinality(Overwriters(c)) = 0
    BY <2>2, FS_EmptySet
  <2>4. retries[c] = 0 /\ RetryLimit = 0
    BY DEF RpcInit, RetryLimit
  <2> QED BY <2>1, <2>3, <2>4 DEF Spent
<1> QED BY <1>1, <1>2, <1>3, <1>4, <1>5 DEF IInv

LEMMA TypesKept ==
  ASSUME RpcTypeOK, StartsFollowStops, [RpcNext]_rpcVars
  PROVE  RpcTypeOK'
<1> USE DEF RpcTypeOK
<1>1. CASE NodeStops
  BY <1>1, CountsAssumption DEF NodeStops
<1>2. CASE NodeStarts
  BY <1>2 DEF NodeStarts
<1>3. CASE NodeIsUp
  <2>1. secret' \in 0..MaxRestarts
    BY <1>3, CountsAssumption DEF NodeIsUp, StartsFollowStops
  <2> QED BY <1>3, <2>1 DEF NodeIsUp
<1>4. ASSUME NEW c \in Call, Post(c) PROVE RpcTypeOK'
  BY <1>4 DEF Post, nodeVars
<1>5. ASSUME NEW c \in Call, Answered(c) PROVE RpcTypeOK'
  <2>1. PICK s \in {200, 400, 404, 503} : Ends(c, s)
    BY <1>5 DEF Answered, StatusOf, mapRpcJsonError, RpcCodes
  <2> QED BY <1>5, <2>1 DEF Answered, Ends, nodeVars
<1>6. ASSUME NEW c \in Call, Rejected(c) PROVE RpcTypeOK'
  BY <1>6 DEF Rejected, Ends, StatusOf, mapAxiosError, nodeVars
<1>7. ASSUME NEW c \in Call, Unreachable(c) PROVE RpcTypeOK'
  BY <1>7 DEF Unreachable, Ends, StatusOf, mapAxiosError, nodeVars
<1>8. ASSUME NEW c \in Call, ReadCookie(c) PROVE RpcTypeOK'
  <2>1. CASE file \in {Missing, Empty}
    BY <1>8, <2>1 DEF ReadCookie, Ends, StatusOf, ReadFailure, Missing, Empty, nodeVars
  <2>2. CASE file \notin {Missing, Empty}
    BY <1>8, <2>2 DEF ReadCookie, nodeVars
  <2> QED BY <2>1, <2>2
<1>9. ASSUME NEW c \in Call, Refreshed(c) PROVE RpcTypeOK'
  BY <1>9 DEF Refreshed, NewClient, nodeVars
<1>10. ASSUME NEW c \in Call, Retry(c) PROVE RpcTypeOK'
  <2>1. retries' \in [Call -> 0..MaxRetries]
    BY <1>10, CountsAssumption DEF Retry
  <2> QED BY <1>10, <2>1 DEF Retry, nodeVars
<1>11. ASSUME NEW c \in Call, Return(c) PROVE RpcTypeOK'
  <2>1. 0 \in 0..MaxRetries /\ 0 \in 0..MaxRestarts
    BY CountsAssumption
  <2> QED BY <1>11, <2>1 DEF Return, nodeVars
<1>12. CASE UNCHANGED rpcVars
  BY <1>12 DEF rpcVars, nodeVars
<1> QED
  BY <1>1, <1>2, <1>3, <1>4, <1>5, <1>6, <1>7, <1>8, <1>9, <1>10, <1>11, <1>12
  DEF RpcNext, Progress

LEMMA StartsKept ==
  ASSUME RpcTypeOK, StartsFollowStops, [RpcNext]_rpcVars
  PROVE  StartsFollowStops'
<1> USE DEF StartsFollowStops
<1>0. secret \in Nat /\ restarts \in Nat
  BY CountsAssumption DEF RpcTypeOK
<1>1. CASE NodeStops
  BY <1>0, <1>1 DEF NodeStops
<1>2. CASE NodeStarts
  BY <1>0, <1>2 DEF NodeStarts
<1>3. CASE NodeIsUp
  BY <1>0, <1>3 DEF NodeIsUp
<1>4. ASSUME NEW c \in Call, Post(c) \/ Progress(c) \/ Return(c)
      PROVE  UNCHANGED nodeVars
  BY <1>4 DEF Post, Progress, Return, Answered, Rejected, Unreachable, ReadCookie,
              Refreshed, Retry
<1>5. CASE UNCHANGED nodeVars
  BY <1>5 DEF nodeVars
<1>6. CASE UNCHANGED rpcVars
  BY <1>6 DEF rpcVars, nodeVars
<1> QED BY <1>1, <1>2, <1>3, <1>4, <1>5, <1>6 DEF RpcNext

LEMMA RejectionsKept ==
  ASSUME RpcTypeOK, RetriesFollowRejections, [RpcNext]_rpcVars
  PROVE  RetriesFollowRejections'
<1> USE DEF RetriesFollowRejections, RpcTypeOK
<1>1. CASE NodeStops \/ NodeStarts \/ NodeIsUp
  BY <1>1 DEF NodeStops, NodeStarts, NodeIsUp
<1>2. ASSUME NEW c \in Call, Post(c) PROVE RetriesFollowRejections'
  BY <1>2 DEF Post, nodeVars
<1>3. ASSUME NEW c \in Call, Answered(c) PROVE RetriesFollowRejections'
  <2>1. phase' = [phase EXCEPT ![c] = "done"]
    BY <1>3 DEF Answered, Ends
  <2> QED BY <1>3, <2>1 DEF Answered, nodeVars
<1>4. ASSUME NEW c \in Call, Rejected(c) PROVE RetriesFollowRejections'
  BY <1>4 DEF Rejected, Ends, nodeVars
<1>5. ASSUME NEW c \in Call, Unreachable(c) PROVE RetriesFollowRejections'
  BY <1>5 DEF Unreachable, Ends, nodeVars
<1>6. ASSUME NEW c \in Call, ReadCookie(c) PROVE RetriesFollowRejections'
  BY <1>6 DEF ReadCookie, Ends, nodeVars
<1>7. ASSUME NEW c \in Call, Refreshed(c) PROVE RetriesFollowRejections'
  BY <1>7 DEF Refreshed, nodeVars
<1>8. ASSUME NEW c \in Call, Retry(c) PROVE RetriesFollowRejections'
  <2>1. \A d \in Call : d # c => retries'[d] = retries[d] /\ phase'[d] = phase[d]
    BY <1>8 DEF Retry
  <2>2. phase'[c] = "sent" /\ useCookie /\ useCookie' = useCookie
    BY <1>8 DEF Retry, nodeVars
  <2> QED BY <2>1, <2>2
<1>9. ASSUME NEW c \in Call, Return(c) PROVE RetriesFollowRejections'
  BY <1>9 DEF Return, nodeVars
<1>10. CASE UNCHANGED rpcVars
  BY <1>10 DEF rpcVars, nodeVars
<1> QED BY <1>1, <1>2, <1>3, <1>4, <1>5, <1>6, <1>7, <1>8, <1>9, <1>10 DEF RpcNext, Progress

\* Before the first restart no call is rejected: nothing is due.
LEMMA RefreshNeedsRestart ==
  ASSUME IInv, OwnCookie, NEW c \in Call, phase[c] \in {"refreshing", "read", "retry"}
  PROVE  secret # 0
<1>1. Due(c) >= 1
  BY DEF Due
<1>2. Spent(c) <= RetryLimit
  BY DEF IInv, RetriesPaidFor
<1>3. Due(c) \in 0..2 /\ retries[c] \in Nat /\ Cardinality(Overwriters(c)) \in Nat
  BY DueIsSmall, OverwritersCounted, CountsAssumption DEF IInv, RpcTypeOK, Phases
<1>4. secret = 0 => RetryLimit = 0
  BY DEF RetryLimit
<1> QED BY <1>1, <1>2, <1>3, <1>4 DEF Spent

LEMMA SecretsKept ==
  ASSUME IInv, [RpcNext]_rpcVars
  PROVE  SecretsAreTheNodes'
<1> SUFFICES ASSUME OwnCookie' PROVE
      /\ file' \in {secret', Missing, Empty}
      /\ node' = "up" => file' = secret'
      /\ client' \in 0..secret'
      /\ \A d \in Call : cred'[d] \in 0..secret'
      /\ \A d \in Call : phase'[d] = "read" => cred'[d] # 0
  BY DEF SecretsAreTheNodes
<1>0. OwnCookie
  BY DEF OwnCookie, RpcNext, NodeStops, NodeStarts, NodeIsUp, Post, Progress, Return, Answered,
         Rejected, Unreachable, ReadCookie, Refreshed, Retry, nodeVars, rpcVars
<1>1. /\ file \in {secret, Missing, Empty}
      /\ node = "up" => file = secret
      /\ client \in 0..secret
      /\ \A d \in Call : cred[d] \in 0..secret
      /\ \A d \in Call : phase[d] = "read" => cred[d] # 0
  BY <1>0 DEF IInv, SecretsAreTheNodes
<1>2. /\ secret \in Nat /\ cred \in [Call -> 0..MaxRestarts \cup {Foreign}]
      /\ phase \in [Call -> Phases]
  BY DEF IInv, RpcTypeOK, Phases
<1>3. CASE NodeStops
  BY <1>1, <1>3 DEF NodeStops
<1>4. CASE NodeStarts
  BY <1>1, <1>4 DEF NodeStarts
<1>5. CASE NodeIsUp
  <2>1. secret' = secret + 1 /\ file' = secret'
    BY <1>0, <1>5 DEF NodeIsUp, OwnCookie
  <2>2. UNCHANGED <<client, cred, phase>>
    BY <1>5 DEF NodeIsUp
  <2>3. 0..secret \subseteq 0..secret'
    BY <1>2, <2>1
  <2> QED BY <1>1, <2>1, <2>2, <2>3
<1>6. ASSUME NEW c \in Call, Post(c) \/ Retry(c) PROVE SecretsAreTheNodes'
  <2>1. /\ UNCHANGED <<nodeVars, client>>
        /\ cred' = [cred EXCEPT ![c] = client]
        /\ phase' = [phase EXCEPT ![c] = "sent"]
    BY <1>6 DEF Post, Retry
  <2> QED BY <1>1, <1>2, <2>1 DEF SecretsAreTheNodes, nodeVars
<1>7. ASSUME NEW c \in Call, Answered(c) \/ Rejected(c) \/ Unreachable(c)
      PROVE  SecretsAreTheNodes'
  <2>1. PICK p \in {"done", "refreshing"} : phase' = [phase EXCEPT ![c] = p]
    BY <1>7 DEF Answered, Rejected, Unreachable, Ends
  <2>2. UNCHANGED <<nodeVars, client, cred>>
    BY <1>7 DEF Answered, Rejected, Unreachable
  <2> QED BY <1>1, <1>2, <2>1, <2>2 DEF SecretsAreTheNodes, nodeVars
<1>8. ASSUME NEW c \in Call, ReadCookie(c) PROVE SecretsAreTheNodes'
  <2>1. UNCHANGED <<nodeVars, client>>
    BY <1>8 DEF ReadCookie
  <2>2. CASE file \in {Missing, Empty}
    <3>1. phase' = [phase EXCEPT ![c] = "done"] /\ cred' = cred
      BY <1>8, <2>2 DEF ReadCookie, Ends
    <3> QED BY <1>1, <1>2, <2>1, <3>1 DEF SecretsAreTheNodes, nodeVars
  <2>3. CASE file \notin {Missing, Empty}
    <3>1. phase' = [phase EXCEPT ![c] = "read"] /\ cred' = [cred EXCEPT ![c] = secret]
      BY <1>1, <1>8, <2>3 DEF ReadCookie
    <3>2. secret # 0
      BY <1>0, <1>8, RefreshNeedsRestart DEF ReadCookie
    <3> QED BY <1>1, <1>2, <2>1, <3>1, <3>2 DEF SecretsAreTheNodes, nodeVars
  <2> QED BY <2>2, <2>3
<1>9. ASSUME NEW c \in Call, Refreshed(c) PROVE SecretsAreTheNodes'
  BY <1>1, <1>2, <1>9 DEF Refreshed, NewClient, SecretsAreTheNodes, nodeVars
<1>10. ASSUME NEW c \in Call, Return(c) PROVE SecretsAreTheNodes'
  BY <1>1, <1>2, <1>10 DEF Return, SecretsAreTheNodes, nodeVars
<1>11. CASE UNCHANGED rpcVars
  BY <1>1, <1>11 DEF rpcVars, nodeVars
<1> QED
  BY <1>3, <1>4, <1>5, <1>6, <1>7, <1>8, <1>9, <1>10, <1>11
  DEF RpcNext, Progress, SecretsAreTheNodes

--------------------------------------------------------------------------------
(* What the retries cost.                                                       *)

\* While the secret stays, nothing is spent if no overwriter appears and what is due
\* falls by what was retried.
LEMMA NothingSpent ==
  ASSUME NEW c \in Call, IInv, RpcTypeOK',
         Overwriters(c)' \subseteq Overwriters(c),
         retries'[c] + Due(c)' <= retries[c] + Due(c)
  PROVE  Spent(c)' <= Spent(c)
<1>1. /\ IsFiniteSet(Overwriters(c)) /\ Cardinality(Overwriters(c)) \in Nat
      /\ Cardinality(Overwriters(c))' \in Nat
  BY OverwritersCounted, OverwritersCountedNext
<1>2. Cardinality(Overwriters(c)') <= Cardinality(Overwriters(c))
  BY <1>1, FS_Subset
<1>3. Due(c) \in 0..2 /\ retries[c] \in Nat
  BY DueIsSmall, CountsAssumption DEF IInv, RpcTypeOK, Phases
<1>4. phase' \in [Call -> Phases] /\ retries'[c] \in Nat
  BY CountsAssumption DEF RpcTypeOK, Phases
<1>5. Due(c)' \in 0..2
  <2>1. phase'[c] \in Phases
    BY <1>4
  <2> QED BY <2>1 DEF Due, Phases
<1> QED BY <1>1, <1>2, <1>3, <1>4, <1>5 DEF Spent

\* What one call does to itself.
Costless(c) ==
  /\ retries'[c] + Due(c)' <= retries[c] + Due(c)
  /\ phase'[c] = "read" /\ cred'[c] # secret' => phase[c] = "read" /\ cred[c] # secret

\* A call that leaves the secret and the client, and the other calls, costs nothing.
LEMMA OneCallActs ==
  ASSUME IInv, RpcTypeOK', NEW c \in Call, secret' = secret, client' = client,
         \A d \in Call \ {c} : /\ phase'[d] = phase[d] /\ cred'[d] = cred[d]
                               /\ retries'[d] = retries[d],
         Costless(c)
  PROVE  \A d \in Call : Spent(d)' <= Spent(d)
<1> SUFFICES ASSUME NEW d \in Call PROVE Spent(d)' <= Spent(d)
  OBVIOUS
<1>1. Overwriters(d)' \subseteq Overwriters(d)
  BY DEF Overwriters, Costless
<1>2. CASE d = c
  BY <1>1, <1>2, NothingSpent DEF Costless
<1>3. CASE d # c
  <2>1. Due(d)' = Due(d) /\ retries'[d] = retries[d]
    BY <1>3 DEF Due
  <2>2. Due(d) \in 0..2 /\ retries[d] \in Nat
    BY DueIsSmall, CountsAssumption DEF IInv, RpcTypeOK, Phases
  <2>3. retries'[d] + Due(d)' <= retries[d] + Due(d)
    BY <2>1, <2>2
  <2> QED BY <1>1, <2>3, NothingSpent
<1> QED BY <1>2, <1>3

LEMMA PaidWhileSteady ==
  ASSUME IInv, OwnCookie, RpcTypeOK', secret' = secret,
         \A d \in Call : Spent(d)' <= Spent(d)
  PROVE  \A d \in Call : Spent(d)' <= RetryLimit'
<1> SUFFICES ASSUME NEW d \in Call PROVE Spent(d)' <= RetryLimit'
  OBVIOUS
<1>1. RetryLimit' = RetryLimit
  BY DEF RetryLimit
<1>2. RetryLimit \in Nat
  BY LimitOfRestarts DEF IInv, RpcTypeOK
<1>3. Spent(d) <= RetryLimit
  BY DEF IInv, RetriesPaidFor
<1>4. retries[d] \in Nat /\ Due(d) \in 0..2 /\ Cardinality(Overwriters(d)) \in Nat
  BY DueIsSmall, OverwritersCounted, CountsAssumption DEF IInv, RpcTypeOK, Phases
<1>5. retries'[d] \in Nat /\ Cardinality(Overwriters(d))' \in Nat
  BY OverwritersCountedNext, CountsAssumption DEF RpcTypeOK
<1>6. Due(d)' \in 0..2
  <2>1. phase'[d] \in Phases
    BY DEF RpcTypeOK, Phases
  <2> QED BY <2>1 DEF Due, Phases
<1>7. Spent(d) \in Nat /\ Spent(d)' \in Nat
  BY <1>4, <1>5, <1>6 DEF Spent
<1> QED BY <1>1, <1>2, <1>3, <1>7

\* A restart makes every secret that was read an old one: one more retry for this call,
\* and one for each other call that may overwrite the client.
LEMMA RestartPays ==
  ASSUME IInv, OwnCookie, RpcTypeOK', NodeIsUp
  PROVE  \A c \in Call : Spent(c)' <= RetryLimit'
<1> SUFFICES ASSUME NEW c \in Call PROVE Spent(c)' <= RetryLimit'
  OBVIOUS
<1>1. /\ secret \in Nat /\ secret' = secret + 1
      /\ UNCHANGED <<client, phase, cred, retries>>
  BY DEF NodeIsUp, OwnCookie, IInv, RpcTypeOK
<1>2. Spent(c) <= RetryLimit
  BY DEF IInv, RetriesPaidFor
<1>3. retries[c] \in Nat /\ Due(c) \in 0..2 /\ phase[c] \in Phases
  BY DueIsSmall, CountsAssumption DEF IInv, RpcTypeOK, Phases
<1>4. client \in 0..secret /\ cred[c] \in 0..secret
  BY DEF IInv, SecretsAreTheNodes
<1>5. Due(c)' <= Due(c) + 1 /\ Due(c)' \in 0..2
  BY <1>1, <1>3, <1>4 DEF Due, Phases
<1>6. /\ Cardinality(Overwriters(c)) \in Nat /\ Cardinality(Overwriters(c))' \in Nat
      /\ Cardinality(Overwriters(c))' <= Cardinality(Call) - 1
  BY OverwritersCounted, OverwritersCountedNext
<1>7. CASE secret = 0
  <2>1. Overwriters(c)' = {}
    <3>1. \A d \in Call : phase[d] # "read"
      BY <1>7, RefreshNeedsRestart
    <3> QED BY <1>1, <3>1 DEF Overwriters
  <2>2. Cardinality(Overwriters(c))' = 0
    BY <2>1, FS_EmptySet
  <2>3. RetryLimit = 0
    BY <1>7 DEF RetryLimit
  <2>4. RetryLimit' = 1
    <3>1. secret' = 1 /\ (secret' - 1) * Cardinality(Call) = 0
      BY <1>1, <1>7, CallsCounted
    <3> QED BY <3>1 DEF RetryLimit
  <2>5. retries[c] = 0 /\ Due(c) = 0
    BY <1>2, <1>3, <1>6, <2>3 DEF Spent
  <2> QED BY <1>1, <1>5, <2>2, <2>4, <2>5 DEF Spent
<1>8. CASE secret # 0
  <2>1. RetryLimit' = RetryLimit + Cardinality(Call)
    BY <1>1, <1>8, LimitGrows
  <2>2. RetryLimit \in Nat
    BY <1>1, LimitOfRestarts
  <2>3. retries'[c] = retries[c]
    BY <1>1
  <2> QED BY <1>2, <1>3, <1>5, <1>6, <2>1, <2>2, <2>3, CallsCounted DEF Spent
<1> QED BY <1>7, <1>8

\* A call that begins with an old client is paid for by the restart that made it old, and
\* what may still overwrite it by another one.
LEMMA PostIsPaid ==
  ASSUME IInv, OwnCookie, RpcTypeOK', NEW c \in Call, Post(c)
  PROVE  \A d \in Call : Spent(d)' <= RetryLimit'
<1>1. /\ secret \in Nat /\ secret' = secret /\ client' = client
      /\ phase[c] = "idle" /\ phase' = [phase EXCEPT ![c] = "sent"]
      /\ cred' = [cred EXCEPT ![c] = client] /\ retries' = retries
      /\ phase \in [Call -> Phases] /\ cred \in [Call -> 0..MaxRestarts \cup {Foreign}]
  BY DEF Post, nodeVars, IInv, RpcTypeOK, Phases
<1>2. \A d \in Call : Overwriters(d)' \subseteq Overwriters(d)
  BY <1>1 DEF Overwriters
<1>3. RetryLimit' = RetryLimit /\ RetryLimit \in Nat
  BY <1>1, LimitOfRestarts DEF RetryLimit
<1>4. ASSUME NEW d \in Call, d # c PROVE Spent(d)' <= RetryLimit'
  <2>1. Due(d)' = Due(d) /\ retries'[d] = retries[d]
    BY <1>1, <1>4 DEF Due
  <2>2. Due(d) \in 0..2 /\ retries[d] \in Nat
    BY DueIsSmall, CountsAssumption DEF IInv, RpcTypeOK, Phases
  <2>3. retries'[d] + Due(d)' <= retries[d] + Due(d)
    BY <2>1, <2>2
  <2>4. Spent(d)' <= Spent(d)
    BY <1>2, <2>3, NothingSpent
  <2>5. Spent(d) <= RetryLimit
    BY DEF IInv, RetriesPaidFor
  <2>6. Cardinality(Overwriters(d)) \in Nat /\ Cardinality(Overwriters(d))' \in Nat
    BY OverwritersCounted, OverwritersCountedNext
  <2>7. Spent(d) \in Nat /\ Spent(d)' \in Nat
    BY <2>1, <2>2, <2>6 DEF Spent
  <2> QED BY <1>3, <2>4, <2>5, <2>7
<1>5. Spent(c)' <= RetryLimit'
  <2>1. retries'[c] = 0
    BY <1>1 DEF IInv, RetriesFollowRejections
  <2>2. /\ IsFiniteSet(Overwriters(c)) /\ Cardinality(Overwriters(c)) \in Nat
        /\ Cardinality(Overwriters(c)) <= Cardinality(Call) - 1
        /\ Cardinality(Overwriters(c))' \in Nat
    BY OverwritersCounted, OverwritersCountedNext
  <2>3. Cardinality(Overwriters(c))' <= Cardinality(Overwriters(c))
    BY <1>2, <2>2, FS_Subset
  <2>4. CASE client = secret
    <3>1. Due(c)' = 0
      BY <1>1, <2>4 DEF Due
    <3>2. Due(c) = 0 /\ retries[c] = 0
      BY <1>1, <2>1 DEF Due
    <3>3. Spent(c) <= RetryLimit
      BY DEF IInv, RetriesPaidFor
    <3> QED BY <1>3, <2>1, <2>2, <2>3, <3>1, <3>2, <3>3 DEF Spent
  <2>5. CASE client # secret
    <3>1. Due(c)' = 1
      BY <1>1, <2>5 DEF Due
    <3>2. secret # 0
      BY <2>5 DEF IInv, SecretsAreTheNodes
    <3>3. CASE Overwriters(c) = {}
      <4>1. Cardinality(Overwriters(c)) = 0
        BY <3>3, FS_EmptySet
      <4>2. RetryLimit >= 1
        BY <1>1, <3>2, LimitOfRestarts, CallsCounted
      <4> QED BY <1>3, <2>1, <2>2, <2>3, <3>1, <4>1, <4>2 DEF Spent
    <3>4. CASE Overwriters(c) # {}
      <4>1. PICK d \in Call : phase[d] = "read" /\ cred[d] # secret
        BY <3>4 DEF Overwriters
      <4>2. cred[d] \in 0..secret /\ cred[d] # 0
        BY <4>1 DEF IInv, SecretsAreTheNodes
      <4>3. secret > 1
        BY <1>1, <4>1, <4>2
      <4>4. RetryLimit >= Cardinality(Call) + 1
        BY <1>1, <4>3, LimitOfRestarts
      <4> QED BY <1>3, <2>1, <2>2, <2>3, <3>1, <4>4, CallsCounted DEF Spent
    <3> QED BY <3>3, <3>4
  <2> QED BY <2>4, <2>5
<1> QED BY <1>4, <1>5

\* An older secret in the client costs each other call at most what the overwriter was
\* counted for; a new one costs nothing.
LEMMA RefreshIsPaid ==
  ASSUME IInv, RpcTypeOK', NEW c \in Call, Refreshed(c)
  PROVE  \A d \in Call : Spent(d)' <= Spent(d)
<1> SUFFICES ASSUME NEW d \in Call PROVE Spent(d)' <= Spent(d)
  OBVIOUS
<1>1. /\ secret' = secret /\ client' = cred[c]
      /\ phase[c] = "read" /\ phase' = [phase EXCEPT ![c] = "retry"]
      /\ cred' = cred /\ retries' = retries
      /\ phase \in [Call -> Phases]
  BY DEF Refreshed, NewClient, nodeVars, IInv, RpcTypeOK, Phases
<1>2. Overwriters(d)' = Overwriters(d) \ {c}
  BY <1>1 DEF Overwriters
<1>3. Due(d) \in 0..2 /\ retries[d] \in Nat /\ phase[d] \in Phases
  BY DueIsSmall, CountsAssumption DEF IInv, RpcTypeOK, Phases
<1>4. CASE d = c
  <2>1. Due(d)' = Due(d)
    BY <1>1, <1>4 DEF Due
  <2>2. retries'[d] + Due(d)' <= retries[d] + Due(d)
    BY <1>1, <1>3, <2>1
  <2> QED BY <1>2, <2>2, NothingSpent
<1>5. CASE d # c /\ cred[c] = secret
  <2>1. Due(d)' <= Due(d) /\ Due(d)' \in 0..2
    BY <1>1, <1>3, <1>5 DEF Due, Phases
  <2>2. retries'[d] + Due(d)' <= retries[d] + Due(d)
    BY <1>1, <1>3, <2>1
  <2> QED BY <1>2, <2>2, NothingSpent
<1>6. CASE d # c /\ cred[c] # secret
  <2>1. Due(d)' <= Due(d) + 1 /\ Due(d)' \in 0..2
    BY <1>1, <1>3, <1>6 DEF Due, Phases
  <2>2. c \in Overwriters(d)
    BY <1>1, <1>6 DEF Overwriters
  <2>3. Cardinality(Overwriters(d) \ {c}) = Cardinality(Overwriters(d)) - 1
    BY <2>2, OverwritersCounted, FS_RemoveElement
  <2>4. Cardinality(Overwriters(d))' = Cardinality(Overwriters(d)) - 1
    BY <1>2, <2>3
  <2>5. Cardinality(Overwriters(d)) \in Nat
    BY OverwritersCounted
  <2>6. retries'[d] = retries[d]
    BY <1>1
  <2> QED BY <1>3, <2>1, <2>4, <2>5, <2>6 DEF Spent
<1> QED BY <1>4, <1>5, <1>6

\* Every other step of a call moves it on for what was due, and no more.
LEMMA OthersCostNothing ==
  ASSUME IInv, OwnCookie, RpcTypeOK', NEW c \in Call,
         \/ Answered(c) \/ Rejected(c) \/ Unreachable(c)
         \/ ReadCookie(c) \/ Retry(c) \/ Return(c)
  PROVE  \A d \in Call : Spent(d)' <= Spent(d)
<1>1. secret' = secret /\ client' = client
  BY DEF Answered, Rejected, Unreachable, ReadCookie, Retry, Return, nodeVars
<1>2. /\ phase \in [Call -> Phases] /\ cred \in [Call -> 0..MaxRestarts \cup {Foreign}]
      /\ retries \in [Call -> 0..MaxRetries] /\ status \in [Call -> {0, 200, 400, 404, 500, 503}]
      /\ useCookie
  BY DEF IInv, RpcTypeOK, Phases, OwnCookie
<1>3. retries[c] \in Nat /\ 0 \in Nat
  BY <1>2, CountsAssumption
<1>4. \A d \in Call \ {c} : /\ phase'[d] = phase[d] /\ cred'[d] = cred[d]
                            /\ retries'[d] = retries[d]
  BY <1>2 DEF Answered, Rejected, Unreachable, ReadCookie, Retry, Return, Ends
<1>5. CASE Answered(c) \/ Unreachable(c)
  <2>1. phase'[c] = "done" /\ phase[c] = "sent" /\ retries'[c] = retries[c]
    BY <1>2, <1>5 DEF Answered, Unreachable, Ends
  <2>2. Due(c)' = 0 /\ Due(c) \in {0, 1}
    BY <2>1 DEF Due
  <2>3. Costless(c)
    BY <1>3, <2>1, <2>2 DEF Costless
  <2> QED BY <1>1, <1>4, <2>3, OneCallActs
<1>6. CASE Rejected(c)
  <2>1. phase'[c] = "refreshing" /\ phase[c] = "sent" /\ cred[c] # secret
        /\ retries'[c] = retries[c]
    BY <1>2, <1>6 DEF Rejected
  <2>2. Due(c)' = 1 /\ Due(c) = 1
    BY <2>1 DEF Due
  <2>3. Costless(c)
    BY <1>3, <2>1, <2>2 DEF Costless
  <2> QED BY <1>1, <1>4, <2>3, OneCallActs
<1>7. CASE ReadCookie(c)
  <2>1. phase[c] = "refreshing" /\ retries'[c] = retries[c]
    BY <1>7 DEF ReadCookie
  <2>2. Due(c) = 1
    BY <2>1 DEF Due
  <2>3. CASE file \in {Missing, Empty}
    <3>1. phase'[c] = "done"
      BY <1>2, <1>7, <2>3 DEF ReadCookie, Ends
    <3>2. Due(c)' = 0
      BY <3>1 DEF Due
    <3>3. Costless(c)
      BY <1>3, <2>1, <2>2, <3>1, <3>2 DEF Costless
    <3> QED BY <1>1, <1>4, <3>3, OneCallActs
  <2>4. CASE file \notin {Missing, Empty}
    <3>1. phase'[c] = "read" /\ cred'[c] = file
      BY <1>2, <1>7, <2>4 DEF ReadCookie
    <3>2. file = secret
      BY <2>4 DEF IInv, SecretsAreTheNodes
    <3>3. Due(c)' = 1
      BY <1>1, <3>1, <3>2 DEF Due
    <3>4. Costless(c)
      BY <1>1, <1>3, <2>1, <2>2, <3>1, <3>2, <3>3 DEF Costless
    <3> QED BY <1>1, <1>4, <3>4, OneCallActs
  <2> QED BY <2>3, <2>4
<1>8. CASE Retry(c)
  <2>1. phase'[c] = "sent" /\ phase[c] = "retry" /\ cred'[c] = client
    BY <1>2, <1>8 DEF Retry
  <2>2. retries'[c] <= retries[c] + 1 /\ retries'[c] \in Nat
    <3>1. retries'[c] = IF retries[c] < MaxRetries THEN retries[c] + 1 ELSE retries[c]
      BY <1>2, <1>8 DEF Retry
    <3> QED BY <1>3, <3>1
  <2>3. Due(c) = Due(c)' + 1 /\ Due(c)' \in {0, 1}
    BY <1>1, <2>1 DEF Due
  <2>4. retries'[c] + Due(c)' <= retries[c] + Due(c)
    BY <1>3, <2>2, <2>3
  <2>5. Costless(c)
    BY <2>1, <2>4 DEF Costless
  <2> QED BY <1>1, <1>4, <2>5, OneCallActs
<1>9. CASE Return(c)
  <2>1. phase'[c] = "idle" /\ phase[c] = "done" /\ retries'[c] = 0
    BY <1>2, <1>9 DEF Return
  <2>2. Due(c)' = 0 /\ Due(c) = 0
    BY <2>1 DEF Due
  <2>3. Costless(c)
    BY <1>3, <2>1, <2>2 DEF Costless
  <2> QED BY <1>1, <1>4, <2>3, OneCallActs
<1> QED BY <1>5, <1>6, <1>7, <1>8, <1>9

LEMMA SpendingKept ==
  ASSUME IInv, RpcTypeOK', [RpcNext]_rpcVars
  PROVE  RetriesPaidFor'
<1> SUFFICES ASSUME OwnCookie' PROVE \A c \in Call : Spent(c)' <= RetryLimit'
  BY DEF RetriesPaidFor
<1>0. OwnCookie
  BY DEF OwnCookie, RpcNext, NodeStops, NodeStarts, NodeIsUp, Post, Progress, Return, Answered,
         Rejected, Unreachable, ReadCookie, Refreshed, Retry, nodeVars, rpcVars
<1>1. CASE NodeStops \/ NodeStarts \/ UNCHANGED rpcVars
  <2>1. UNCHANGED <<secret, client, phase, cred, retries>>
    BY <1>1 DEF NodeStops, NodeStarts, rpcVars, nodeVars
  <2>2. \A c \in Call : Spent(c)' = Spent(c)
    BY <2>1 DEF Spent, Due, Overwriters
  <2>3. RetryLimit' = RetryLimit
    BY <2>1 DEF RetryLimit
  <2> QED BY <1>0, <2>2, <2>3 DEF IInv, RetriesPaidFor
<1>2. CASE NodeIsUp
  BY <1>0, <1>2, RestartPays
<1>3. ASSUME NEW c \in Call, Post(c)
      PROVE  \A d \in Call : Spent(d)' <= RetryLimit'
  BY <1>0, <1>3, PostIsPaid
<1>4. ASSUME NEW c \in Call, Progress(c) \/ Return(c)
      PROVE  \A d \in Call : Spent(d)' <= RetryLimit'
  <2>1. \A d \in Call : Spent(d)' <= Spent(d)
    BY <1>0, <1>4, RefreshIsPaid, OthersCostNothing DEF Progress
  <2>2. secret' = secret
    BY <1>4 DEF Progress, Answered, Rejected, Unreachable, ReadCookie, Refreshed, Retry, Return,
                nodeVars
  <2> QED BY <1>0, <2>1, <2>2, PaidWhileSteady
<1> QED BY <1>1, <1>2, <1>3, <1>4 DEF RpcNext

--------------------------------------------------------------------------------
(* The theorems.                                                                *)

\* The inductive invariant holds in every reachable state (rpc.js:21-160).
THEOREM Invariance == RpcSpec => []IInv
<1>1. RpcInit => IInv
  BY InitIInv
<1>2. IInv /\ [RpcNext]_rpcVars => IInv'
  <2> SUFFICES ASSUME IInv, [RpcNext]_rpcVars PROVE IInv'
    OBVIOUS
  <2>1. RpcTypeOK'
    BY TypesKept DEF IInv
  <2>2. StartsFollowStops' /\ RetriesFollowRejections'
    BY StartsKept, RejectionsKept DEF IInv
  <2>3. SecretsAreTheNodes'
    BY SecretsKept
  <2>4. RetriesPaidFor'
    BY <2>1, SpendingKept
  <2> QED BY <2>1, <2>2, <2>3, <2>4 DEF IInv
<1> QED BY <1>1, <1>2, PTL DEF RpcSpec

\* Whatever number of calls share the client and however often the node restarts, a call
\* over the node's own cookie file is made again no more often than the restarts account
\* for (rpc.js:62-64, 147-154).
THEOREM RetriesAccountedFor == RpcSpec => []RpcInvariant
<1>1. IInv => RpcInvariant
  <2> SUFFICES ASSUME IInv, RightPath, NEW c \in Call PROVE retries[c] <= RetryLimit
    BY DEF IInv, RpcInvariant, RetriesBounded
  <2>1. retries[c] \in Nat /\ Due(c) \in 0..2 /\ Cardinality(Overwriters(c)) \in Nat
    BY DueIsSmall, OverwritersCounted, CountsAssumption DEF IInv, RpcTypeOK, Phases
  <2>2. RetryLimit \in Nat
    BY LimitOfRestarts DEF IInv, RpcTypeOK
  <2>3. CASE useCookie
    <3>1. Spent(c) <= RetryLimit
      BY <2>3 DEF IInv, RetriesPaidFor, OwnCookie
    <3> QED BY <2>1, <2>2, <3>1 DEF Spent
  <2>4. CASE ~useCookie
    <3>1. retries[c] = 0
      BY <2>4 DEF IInv, RetriesFollowRejections
    <3> QED BY <2>2, <3>1
  <2> QED BY <2>3, <2>4
<1> QED BY <1>1, Invariance, PTL
================================================================================

----------------------------- MODULE PrevoutProofs -----------------------------
(***************************************************************************)
(* Proofs about PrevoutWorkerPool, for any number of threads, tasks and    *)
(* deaths: the queue, the idle workers and the tasks they hold always      *)
(* agree, and destroy() leaves nothing behind.                             *)
(*                                                                         *)
(* And about PrevoutFetch, which uses such a pool: for every block, number *)
(* of inline loops and number of pools, each input gets the output it      *)
(* spends and is counted once, no two lookups of one input overlap, and no *)
(* pool is forgotten.                                                      *)
(***************************************************************************)
EXTENDS PrevoutWorkerPool, PrevoutFetch, FiniteSetTheorems, SequenceTheorems, TLAPS

(***************************************************************************)
(* Sequences.                                                              *)
(***************************************************************************)

Injective(s) == \A i, j \in 1..Len(s) : s[i] = s[j] => i = j

LEMMA ShortSequences ==
  ASSUME NEW a, NEW b
  PROVE  /\ Append(<<>>, a) = <<a>> /\ Append(<<a>>, b) = <<a, b>>
         /\ Head(<<a>>) = a /\ Head(<<a, b>>) = a
         /\ Tail(<<a>>) = <<>> /\ Tail(<<a, b>>) = <<b>>
<1>1. <<a>> \in Seq({a, b}) /\ <<a, b>> \in Seq({a, b}) /\ <<b>> \in Seq({a, b})
  OBVIOUS
<1>2. Head(<<a>>) = a /\ Head(<<a, b>>) = a
  OBVIOUS
<1>3. Append(<<>>, a) = <<a>>
  OBVIOUS
<1>4. Append(<<a>>, b) = <<a, b>>
  <2> DEFINE t == Append(<<a>>, b)
  <2>1. t \in Seq({a, b}) /\ Len(t) = 2 /\ t[1] = a /\ t[2] = b
    BY <1>1, AppendProperties
  <2>2. Len(<<a, b>>) = 2 /\ <<a, b>>[1] = a /\ <<a, b>>[2] = b
    OBVIOUS
  <2> HIDE DEF t
  <2>3. t = <<a, b>>
    BY <1>1, <2>1, <2>2, SeqEqual
  <2> QED BY <2>3 DEF t
<1>5. Tail(<<a>>) = <<>>
  BY <1>1, HeadTailProperties, EmptySeq
<1>6. Tail(<<a, b>>) = <<b>>
  BY <1>1, HeadTailProperties, SeqEqual
<1> QED BY <1>2, <1>3, <1>4, <1>5, <1>6

LEMMA AppendedElements ==
  ASSUME NEW S, NEW s \in Seq(S), NEW x \in S
  PROVE  /\ Append(s, x) \in Seq(S) /\ Len(Append(s, x)) = Len(s) + 1
         /\ \A i \in 1..Len(s) : Append(s, x)[i] = s[i]
         /\ Append(s, x)[Len(s) + 1] = x
         /\ Injective(s) /\ (\A i \in 1..Len(s) : s[i] # x) => Injective(Append(s, x))
BY DEF Injective

\* What remains of s after its first n elements.
IsRest(r, s, n) ==
  /\ Len(r) = Len(s) - n
  /\ \A i \in 1..Len(r) : r[i] = s[n + i] /\ n + i \in 1..Len(s)
  /\ n = Len(s) => r = <<>>
  /\ Injective(s) => Injective(r) /\ \A i \in 1..n, j \in 1..Len(r) : s[i] # r[j]

LEMMA RestElements ==
  ASSUME NEW S, NEW s \in Seq(S), NEW n \in 0..Len(s)
  PROVE  SubSeq(s, n + 1, Len(s)) \in Seq(S) /\ IsRest(SubSeq(s, n + 1, Len(s)), s, n)
<1> DEFINE r == SubSeq(s, n + 1, Len(s))
<1>1. r \in Seq(S) /\ Len(r) = Len(s) - n /\ \A i \in 1..(Len(s) - n) : r[i] = s[n + i]
  OBVIOUS
<1> HIDE DEF r
<1>2. \A i \in 1..Len(r) : r[i] = s[n + i] /\ n + i \in 1..Len(s)
  BY <1>1
<1>3. n = Len(s) => r = <<>>
  BY <1>1, EmptySeq
<1>4. ASSUME Injective(s) PROVE Injective(r)
  <2> SUFFICES ASSUME NEW i \in 1..Len(r), NEW j \in 1..Len(r), r[i] = r[j] PROVE i = j
    BY DEF Injective
  <2>1. /\ r[i] = s[n + i] /\ n + i \in 1..Len(s)
        /\ r[j] = s[n + j] /\ n + j \in 1..Len(s)
    BY <1>2
  <2>2. n + i = n + j
    BY <1>4, <2>1 DEF Injective
  <2>3. i \in Nat /\ j \in Nat
    BY <1>1
  <2> QED BY <2>2, <2>3
<1>5. ASSUME Injective(s), NEW i \in 1..n, NEW j \in 1..Len(r) PROVE s[i] # r[j]
  <2>1. r[j] = s[n + j] /\ n + j \in 1..Len(s)
    BY <1>2
  <2>2. j \in Nat /\ j >= 1
    BY <1>1
  <2>3. i \in 1..Len(s) /\ i # n + j
    BY <2>2
  <2> QED BY <1>5, <2>1, <2>3 DEF Injective
<1> QED BY <1>1, <1>2, <1>3, <1>4, <1>5 DEF IsRest, r

LEMMA RemovedAt ==
  ASSUME NEW S, NEW s \in Seq(S), NEW k \in 1..Len(s)
  PROVE  /\ RemoveAt(s, k) \in Seq(S) /\ Len(RemoveAt(s, k)) = Len(s) - 1
         /\ \A i \in 1..(Len(s) - 1) : RemoveAt(s, k)[i] = IF i < k THEN s[i] ELSE s[i + 1]
<1> DEFINE p == SubSeq(s, 1, k - 1)
           q == SubSeq(s, k + 1, Len(s))
<1>1. RemoveAt(s, k) = p \o q
  BY DEF RemoveAt
<1>2. p \in Seq(S) /\ Len(p) = k - 1 /\ \A i \in 1..(k - 1) : p[i] = s[i]
  BY SubSeqProperties
<1>3. q \in Seq(S) /\ Len(q) = Len(s) - k /\ \A i \in 1..(Len(s) - k) : q[i] = s[k + i]
  BY SubSeqProperties
<1> HIDE DEF p, q
<1>4. /\ p \o q \in Seq(S) /\ Len(p \o q) = Len(s) - 1
      /\ \A i \in 1..(Len(s) - 1) :
            (p \o q)[i] = IF i <= k - 1 THEN p[i] ELSE q[i - (k - 1)]
  BY <1>2, <1>3, ConcatProperties
<1>5. ASSUME NEW i \in 1..(Len(s) - 1)
      PROVE  (p \o q)[i] = IF i < k THEN s[i] ELSE s[i + 1]
  <2>1. CASE i < k
    BY <1>2, <1>4, <2>1
  <2>2. CASE ~(i < k)
    <3>1. i - (k - 1) \in 1..(Len(s) - k) /\ k + (i - (k - 1)) = i + 1
      BY <2>2
    <3>2. (p \o q)[i] = q[i - (k - 1)]
      BY <1>4, <2>2
    <3> QED BY <1>3, <2>2, <3>1, <3>2
  <2> QED BY <2>1, <2>2
<1> QED BY <1>1, <1>4, <1>5

\* What splice(indexOf(w), 1) leaves of a sequence without repetitions.
LEMMA RemovedFirst ==
  ASSUME NEW S, NEW s \in Seq(S), Injective(s), NEW w
  PROVE  LET r == RemoveFirst(s, w)
         IN  /\ r \in Seq(S) /\ Injective(r)
             /\ \A i \in 1..Len(r) : r[i] # w /\ \E j \in 1..Len(s) : r[i] = s[j]
             /\ s = <<>> => r = <<>>
<1> DEFINE r == RemoveFirst(s, w)
<1>1. CASE \A i \in 1..Len(s) : s[i] # w
  <2>1. r = s
    BY <1>1 DEF RemoveFirst
  <2> QED BY <1>1, <2>1
<1>2. CASE \E i \in 1..Len(s) : s[i] = w
  <2> DEFINE I == {i \in 1..Len(s) : s[i] = w}
  <2>1. PICK k \in 1..Len(s) : s[k] = w /\ I = {k}
    BY <1>2 DEF Injective
  <2>2. SelectInSeq(s, LAMBDA v : v = w) = k
    <3>1. SelectInSeq(s, LAMBDA v : v = w) = Min(I)
      BY <2>1 DEF SelectInSeq
    <3>2. Min(I) = k
      BY <2>1 DEF Min
    <3> QED BY <3>1, <3>2
  <2>3. r = RemoveAt(s, k)
    BY <1>2, <2>2 DEF RemoveFirst
  <2> HIDE DEF r, I
  <2>4. r \in Seq(S) /\ Len(r) = Len(s) - 1
        /\ \A i \in 1..Len(r) : r[i] = IF i < k THEN s[i] ELSE s[i + 1]
    BY <2>3, RemovedAt
  <2>5. \A i \in 1..Len(r) : r[i] # w /\ \E j \in 1..Len(s) : r[i] = s[j]
    BY <2>1, <2>4 DEF Injective
  <2>6. Injective(r)
    BY <2>4 DEF Injective
  <2> QED BY <2>1, <2>4, <2>5, <2>6 DEF r
<1> QED BY <1>1, <1>2

(***************************************************************************)
(* The inductive invariant.                                                *)
(***************************************************************************)

Event == [type : {"online", "message", "exit"}, id : 0..MaxTasks]

Types ==
  /\ TypeOK
  /\ events \in [Worker -> Seq(Event)]
  /\ inbox \in [Worker -> SUBSET Task]

\* A thread belongs to the pool from its start until its exit has been handled, and
\* destroy() has terminated every one that belongs to it.
Membership ==
  /\ workers = {w \in Worker : thread[w] \in {"starting", "running", "exited"}}
  /\ destroyed => workers \subseteq terminated
  /\ closed => destroyed /\ workers = {}

\* A thread has one task at most, the pool knows which, and it is either being worked on
\* or answered.
ShapeOf(th, ev, box, cur) ==
  /\ th \in {"none", "starting", "gone"} => ev = <<>> /\ box = {} /\ cur = 0
  /\ th = "running" => \/ ev = <<>> /\ box \subseteq {cur}
                       \/ ev \in {<<Online>>, <<Reply(cur)>>} /\ box = {}
  /\ th = "exited" => ev \in {<<Exit>>, <<Online, Exit>>, <<Reply(cur), Exit>>} /\ box = {}
  /\ ev \in {<<Online>>, <<Online, Exit>>} => cur = 0

Shapes == \A w \in Worker : ShapeOf(thread[w], events[w], inbox[w], current[w])

\* Workers that are offered work have come up, hold no task and have said nothing but,
\* perhaps, that they exited.
FreeOf(free, ev, box, cur) ==
  /\ Injective(free)
  /\ \A i \in 1..Len(free) :
       /\ thread[free[i]] \in {"running", "exited"}
       /\ ev[free[i]] \in {<<>>, <<Exit>>}
       /\ box[free[i]] = {} /\ cur[free[i]] = 0

IdleFree == FreeOf(idle, events, inbox, current)

\* Every task that can still be answered is queued once or held by one worker.
Placed(jobs, cur, T, L) ==
  /\ Injective(jobs)
  /\ \A i \in 1..Len(jobs) : jobs[i] \in T \ L
  /\ \A w \in Worker : cur[w] # 0 =>
       /\ cur[w] \in T \ L
       /\ \A i \in 1..Len(jobs) : jobs[i] # cur[w]
       /\ \A v \in Worker : cur[v] = cur[w] => v = w
  /\ \A t \in T \ L :
       (\E i \in 1..Len(jobs) : jobs[i] = t) \/ (\E w \in Worker : cur[w] = t)

Tasks ==
  /\ waiting \subseteq tasks
  /\ tasks \cup lost \subseteq 1..nextTaskId
  /\ destroyed => tasks = {} /\ queue = <<>>
  /\ ~destroyed => Placed(queue, current, tasks, lost)

RightSize ==
  /\ Cardinality(workers) <= Size
  /\ ~destroyed => Cardinality(workers) + unspawned = Size

PoolIInv ==
  /\ Types /\ Membership /\ Shapes /\ IdleFree /\ Tasks /\ WorkConserving /\ RightSize

(***************************************************************************)
(* dispatch().                                                             *)
(***************************************************************************)

\* The first n idle workers get the first n queued tasks, and one of the two is used up.
GivesOut(n, free, jobs, cur) ==
  /\ n <= Len(jobs) /\ (n = Len(free) \/ n = Len(jobs))
  /\ idle' = SubSeq(free, n + 1, Len(free))
  /\ queue' = SubSeq(jobs, n + 1, Len(jobs))
  /\ current' \in [Worker -> 0..MaxTasks] /\ inbox' \in [Worker -> SUBSET Task]
  /\ \A i \in 1..n :
       /\ current'[free[i]] = jobs[i]
       /\ inbox'[free[i]] = IF thread[free[i]] = "exited" THEN {} ELSE inbox[free[i]] \cup {jobs[i]}
  /\ \A w \in Worker : (\A i \in 1..n : free[i] # w) =>
       /\ current'[w] = cur[w]
       /\ inbox'[w] = IF thread[w] = "exited" THEN {} ELSE inbox[w]

LEMMA DispatchEffect ==
  ASSUME NEW free \in Seq(Worker), Injective(free),
         NEW jobs \in Seq(Task), Injective(jobs), NEW cur \in [Worker -> 0..MaxTasks],
         inbox \in [Worker -> SUBSET Task],
         Dispatch(free, jobs, cur)
  PROVE  \E n \in 0..Len(free) : GivesOut(n, free, jobs, cur)
<1> DEFINE n == IF Len(free) < Len(jobs) THEN Len(free) ELSE Len(jobs)
           Given(w) == {jobs[i] : i \in {j \in 1..n : free[j] = w}}
<1>1. n \in 0..Len(free) /\ n <= Len(jobs) /\ (n = Len(free) \/ n = Len(jobs))
  OBVIOUS
<1>2. /\ idle' = SubSeq(free, n + 1, Len(free))
      /\ queue' = SubSeq(jobs, n + 1, Len(jobs))
      /\ inbox' = [w \in Worker |-> IF thread[w] = "exited" THEN {} ELSE inbox[w] \cup Given(w)]
      /\ current' = [w \in Worker |-> IF Given(w) = {} THEN cur[w]
                       ELSE CHOOSE t \in Given(w) : \A u \in Given(w) : u <= t]
  BY DEF Dispatch
<1> HIDE DEF n
<1>3. ASSUME NEW i \in 1..n
      PROVE  free[i] \in Worker /\ jobs[i] \in Task /\ Given(free[i]) = {jobs[i]}
  <2>1. i \in 1..Len(free) /\ i \in 1..Len(jobs)
    BY <1>1
  <2>2. {j \in 1..n : free[j] = free[i]} = {i}
    BY <1>1, <2>1 DEF Injective
  <2> QED BY <2>1, <2>2
<1>4. \A w \in Worker : (\A i \in 1..n : free[i] # w) => Given(w) = {}
  OBVIOUS
<1> HIDE DEF Given
<1>5. ASSUME NEW i \in 1..n
      PROVE  /\ current'[free[i]] = jobs[i]
             /\ inbox'[free[i]] =
                  IF thread[free[i]] = "exited" THEN {} ELSE inbox[free[i]] \cup {jobs[i]}
  <2>1. jobs[i] \in Nat
    BY <1>3, BoundsAssumption DEF Task
  <2>2. \E t \in {jobs[i]} : \A u \in {jobs[i]} : u <= t
    BY <2>1
  <2>3. (CHOOSE t \in {jobs[i]} : \A u \in {jobs[i]} : u <= t) = jobs[i]
    BY <2>2
  <2> QED BY <1>2, <1>3, <2>3
<1>6. ASSUME NEW w \in Worker, \A i \in 1..n : free[i] # w
      PROVE  /\ current'[w] = cur[w]
             /\ inbox'[w] = IF thread[w] = "exited" THEN {} ELSE inbox[w]
  BY <1>2, <1>4, <1>6
<1>7. current' \in [Worker -> 0..MaxTasks] /\ inbox' \in [Worker -> SUBSET Task]
  <2>1. ASSUME NEW w \in Worker
        PROVE  current'[w] \in 0..MaxTasks /\ inbox'[w] \in SUBSET Task
    <3>1. CASE \A i \in 1..n : free[i] # w
      BY <1>6, <3>1
    <3>2. CASE \E i \in 1..n : free[i] = w
      <4>1. PICK i \in 1..n : free[i] = w
        BY <3>2
      <4>2. current'[w] = jobs[i] /\ jobs[i] \in Task /\ inbox'[w] \subseteq inbox[w] \cup {jobs[i]}
        BY <1>3, <1>5, <4>1
      <4>3. Task \subseteq 0..MaxTasks
        BY BoundsAssumption DEF Task
      <4> QED BY <4>2, <4>3
    <3> QED BY <3>1, <3>2
  <2>2. current' = [w \in Worker |-> current'[w]] /\ inbox' = [w \in Worker |-> inbox'[w]]
    BY <1>2
  <2> QED BY <2>1, <2>2
<1> QED BY <1>1, <1>2, <1>5, <1>6, <1>7 DEF GivesOut

\* What a thread reports is told apart by its type.
LEMMA EventsDiffer ==
  /\ Online # Exit
  /\ \A t : Reply(t) # Online /\ Reply(t) # Exit /\ Reply(t).id = t
  /\ Online.type = "online" /\ Exit.type = "exit" /\ \A t : Reply(t).type = "message"
  /\ Online \in Event /\ Exit \in Event
  /\ \A t \in 0..MaxTasks : Reply(t) \in Event
BY BoundsAssumption DEF Online, Exit, Reply, Event

LEMMA ReportsDiffer ==
  /\ <<Exit>> # <<Online>> /\ <<Exit>> # <<>> /\ <<Online>> # <<>>
  /\ \A t : <<Exit>> # <<Reply(t)>> /\ <<Online>> # <<Reply(t)>> /\ <<Reply(t)>> # <<>>
  /\ <<Online, Exit>> \notin {<<>>, <<Exit>>, <<Online>>}
  /\ \A t : <<Reply(t), Exit>> \notin {<<>>, <<Exit>>, <<Online>>, <<Online, Exit>>}
  /\ \A t : <<Reply(t)>> \notin {<<Online, Exit>>}
<1>1. \A x, y : <<x>> # <<>> /\ <<x, y>> # <<>> /\ (\A z : <<x>> # <<y, z>>)
  OBVIOUS
<1>2. \A x, y : <<x>> = <<y>> => x = y
  OBVIOUS
<1>3. \A x, y, u, v : <<x, y>> = <<u, v>> => x = u
  OBVIOUS
<1> QED BY <1>1, <1>2, <1>3, EventsDiffer

LEMMA DispatchKeeps ==
  ASSUME NEW free \in Seq(Worker), NEW jobs \in Seq(Task), NEW cur \in [Worker -> 0..MaxTasks],
         inbox \in [Worker -> SUBSET Task],
         NEW ev, NEW T \in SUBSET Task, NEW L,
         FreeOf(free, ev, inbox, cur), Placed(jobs, cur, T, L),
         \A w \in Worker : ShapeOf(thread[w], ev[w], inbox[w], cur[w]),
         Dispatch(free, jobs, cur)
  PROVE  /\ idle' \in Seq(Worker) /\ queue' \in Seq(Task)
         /\ current' \in [Worker -> 0..MaxTasks] /\ inbox' \in [Worker -> SUBSET Task]
         /\ FreeOf(idle', ev, inbox', current') /\ Placed(queue', current', T, L)
         /\ \A w \in Worker : ShapeOf(thread[w], ev[w], inbox'[w], current'[w])
         /\ idle' = <<>> \/ queue' = <<>>
<1>1. Injective(free) /\ Injective(jobs)
  BY DEF FreeOf, Placed
<1>2. PICK n \in 0..Len(free) : GivesOut(n, free, jobs, cur)
  BY <1>1, DispatchEffect
<1>0. n \in 0..Len(jobs) /\ (n = Len(free) \/ n = Len(jobs))
  BY <1>2 DEF GivesOut
<1>3. /\ idle' \in Seq(Worker) /\ Injective(idle')
      /\ \A i \in 1..Len(idle') : idle'[i] = free[n + i] /\ n + i \in 1..Len(free)
      /\ \A i \in 1..n, j \in 1..Len(idle') : free[i] # idle'[j]
  <2>1. idle' = SubSeq(free, n + 1, Len(free))
    BY <1>2 DEF GivesOut
  <2>2. idle' \in Seq(Worker) /\ IsRest(idle', free, n)
    BY <2>1, RestElements
  <2> QED BY <1>1, <2>2 DEF IsRest
<1>4. /\ queue' \in Seq(Task) /\ Injective(queue') /\ Len(queue') = Len(jobs) - n
      /\ \A i \in 1..Len(queue') : queue'[i] = jobs[n + i] /\ n + i \in 1..Len(jobs)
      /\ \A i \in 1..n, j \in 1..Len(queue') : jobs[i] # queue'[j]
  <2>1. queue' = SubSeq(jobs, n + 1, Len(jobs))
    BY <1>2 DEF GivesOut
  <2>2. queue' \in Seq(Task) /\ IsRest(queue', jobs, n)
    BY <1>0, <2>1, RestElements
  <2> QED BY <1>1, <2>2 DEF IsRest
<1>5. idle' = <<>> \/ queue' = <<>>
  <2>1. idle' = SubSeq(free, n + 1, Len(free)) /\ queue' = SubSeq(jobs, n + 1, Len(jobs))
    BY <1>2 DEF GivesOut
  <2> QED BY <1>0, <2>1, RestElements DEF IsRest
<1>a. ASSUME NEW w \in Worker
      PROVE  \/ \E i \in 1..n : /\ free[i] = w /\ i \in 1..Len(jobs) /\ i \in 1..Len(free)
                                /\ current'[w] = jobs[i]
                                /\ inbox'[w] = IF thread[w] = "exited" THEN {}
                                               ELSE inbox[w] \cup {jobs[i]}
             \/ /\ \A i \in 1..n : free[i] # w
                /\ current'[w] = cur[w]
                /\ inbox'[w] = IF thread[w] = "exited" THEN {} ELSE inbox[w]
  <2>1. CASE \A i \in 1..n : free[i] # w
    BY <1>2, <2>1 DEF GivesOut
  <2>2. ASSUME NEW i \in 1..n, free[i] = w
        PROVE  /\ i \in 1..Len(jobs) /\ i \in 1..Len(free) /\ current'[w] = jobs[i]
               /\ inbox'[w] = IF thread[w] = "exited" THEN {} ELSE inbox[w] \cup {jobs[i]}
    <3>1. i \in 1..Len(jobs) /\ i \in 1..Len(free)
      BY <1>0
    <3> QED BY <1>2, <2>2, <3>1 DEF GivesOut
  <2> QED BY <2>1, <2>2
<1>6. FreeOf(idle', ev, inbox', current')
  <2>1. ASSUME NEW i \in 1..Len(idle')
        PROVE  /\ thread[idle'[i]] \in {"running", "exited"} /\ ev[idle'[i]] \in {<<>>, <<Exit>>}
               /\ inbox'[idle'[i]] = {} /\ current'[idle'[i]] = 0
    <3>1. idle'[i] \in Worker /\ \A j \in 1..n : free[j] # idle'[i]
      BY <1>3
    <3>2. PICK k \in 1..Len(free) : idle'[i] = free[k]
      BY <1>3
    <3>3. /\ thread[free[k]] \in {"running", "exited"} /\ ev[free[k]] \in {<<>>, <<Exit>>}
          /\ inbox[free[k]] = {} /\ cur[free[k]] = 0
      BY DEF FreeOf
    <3>4. current'[idle'[i]] = cur[free[k]] /\ inbox'[idle'[i]] \subseteq inbox[free[k]]
      BY <1>a, <3>1, <3>2
    <3> QED BY <3>2, <3>3, <3>4
  <2> QED BY <1>3, <2>1 DEF FreeOf
<1>7. ASSUME NEW w \in Worker
      PROVE  ShapeOf(thread[w], ev[w], inbox'[w], current'[w])
  <2>1. CASE \A i \in 1..n : free[i] # w
    BY <1>a, <2>1 DEF ShapeOf
  <2>2. CASE \E i \in 1..n : free[i] = w
    <3>1. PICK i \in 1..Len(free) :
            /\ free[i] = w /\ current'[w] = jobs[i]
            /\ inbox'[w] = IF thread[w] = "exited" THEN {} ELSE inbox[w] \cup {jobs[i]}
      BY <1>a, <2>2
    <3>2. /\ thread[w] \in {"running", "exited"} /\ ev[w] \in {<<>>, <<Exit>>} /\ inbox[w] = {}
          /\ inbox'[w] = IF thread[w] = "exited" THEN {} ELSE {current'[w]}
      BY <3>1 DEF FreeOf
    <3>3. thread[w] = "running" => ev[w] = <<>>
      BY <3>2, ReportsDiffer DEF ShapeOf
    <3>4. thread[w] = "exited" => ev[w] = <<Exit>>
      BY <3>2, ReportsDiffer DEF ShapeOf
    <3>5. ev[w] \notin {<<Online>>, <<Online, Exit>>}
      BY <3>2, ReportsDiffer
    <3> QED BY <3>2, <3>3, <3>4, <3>5 DEF ShapeOf
  <2> QED BY <2>1, <2>2
<1>8. Placed(queue', current', T, L)
  <2>1. Injective(queue') /\ \A i \in 1..Len(queue') : queue'[i] \in T \ L
    BY <1>4 DEF Placed
  <2>2. ASSUME NEW w \in Worker
        PROVE  \/ \E i \in 1..n : /\ free[i] = w /\ i \in 1..Len(jobs) /\ i \in 1..Len(free)
                                  /\ current'[w] = jobs[i] /\ cur[w] = 0
               \/ current'[w] = cur[w] /\ \A i \in 1..n : free[i] # w
    <3>1. \A i \in 1..Len(free) : cur[free[i]] = 0
      BY DEF FreeOf
    <3> QED BY <1>a, <3>1
  <2>3. ASSUME NEW w \in Worker, current'[w] # 0
        PROVE  current'[w] \in T \ L /\ \A i \in 1..Len(queue') : queue'[i] # current'[w]
    <3>1. CASE \E i \in 1..n : i \in 1..Len(jobs) /\ current'[w] = jobs[i]
      BY <1>4, <3>1 DEF Placed
    <3>2. CASE current'[w] = cur[w]
      BY <1>4, <2>3, <3>2 DEF Placed
    <3> QED BY <2>2, <3>1, <3>2
  <2>4. ASSUME NEW w \in Worker, NEW v \in Worker, current'[w] # 0, current'[v] = current'[w]
        PROVE  v = w
    <3>1. CASE \E i, j \in 1..n : /\ free[i] = w /\ i \in 1..Len(jobs) /\ current'[w] = jobs[i]
                                  /\ free[j] = v /\ j \in 1..Len(jobs) /\ current'[v] = jobs[j]
      BY <1>1, <2>4, <3>1 DEF Injective
    <3>2. CASE current'[w] = cur[w] /\ current'[v] = cur[v]
      BY <2>4, <3>2 DEF Placed
    <3>3. CASE /\ \E i \in 1..Len(jobs) : current'[w] = jobs[i]
               /\ current'[v] = cur[v]
      BY <2>4, <3>3 DEF Placed
    <3>4. CASE /\ \E i \in 1..Len(jobs) : current'[v] = jobs[i]
               /\ current'[w] = cur[w]
      BY <2>4, <3>4 DEF Placed
    <3> QED BY <2>2, <3>1, <3>2, <3>3, <3>4
  <2>5. ASSUME NEW t \in T \ L
        PROVE  (\E i \in 1..Len(queue') : queue'[i] = t) \/ (\E w \in Worker : current'[w] = t)
    <3>1. CASE \E i \in 1..Len(jobs) : jobs[i] = t
      <4>1. PICK i \in 1..Len(jobs) : jobs[i] = t
        BY <3>1
      <4>2. CASE i <= n
        <5>1. i \in 1..n /\ i \in 1..Len(free)
          BY <1>0, <4>2
        <5>2. free[i] \in Worker
          BY <5>1
        <5>3. current'[free[i]] = jobs[i]
          BY <1>2, <5>1 DEF GivesOut
        <5> QED BY <4>1, <5>2, <5>3
      <4>3. CASE i > n
        <5>1. i - n \in 1..Len(queue') /\ n + (i - n) = i
          BY <1>0, <1>4, <4>3
        <5> QED BY <1>4, <4>1, <5>1
      <4> QED BY <4>2, <4>3
    <3>2. CASE \E w \in Worker : cur[w] = t
      <4>1. PICK w \in Worker : cur[w] = t
        BY <3>2
      <4>2. cur[w] # 0
        BY <4>1, BoundsAssumption DEF Task
      <4> QED BY <2>2, <4>1, <4>2
    <3> QED BY <3>1, <3>2 DEF Placed
  <2> QED BY <2>1, <2>3, <2>4, <2>5 DEF Placed
<1>9. current' \in [Worker -> 0..MaxTasks] /\ inbox' \in [Worker -> SUBSET Task]
  BY <1>2 DEF GivesOut
<1> QED BY <1>3, <1>4, <1>5, <1>6, <1>7, <1>8, <1>9

(***************************************************************************)
(* The initial states, and what a thread may have reported.                *)
(***************************************************************************)

LEMMA InitPoolIInv == Init => PoolIInv
<1> SUFFICES ASSUME Init PROVE PoolIInv
  OBVIOUS
<1> USE SizeAssumption, BoundsAssumption DEF Init
<1>1. Types
  <2>1. thread \in [Worker -> {"none", "starting", "running", "exited", "gone"}]
    OBVIOUS
  <2>2. events \in [Worker -> Seq(Event)] /\ inbox \in [Worker -> SUBSET Task]
    OBVIOUS
  <2>3. current \in [Worker -> 0..MaxTasks] /\ nextTaskId \in 0..MaxTasks
    OBVIOUS
  <2>4. idle \in Seq(Worker) /\ queue \in Seq(Task)
    OBVIOUS
  <2>5. workers \subseteq Worker /\ terminated \subseteq Worker
    OBVIOUS
  <2>6. tasks \subseteq Task /\ waiting \subseteq Task /\ lost \subseteq Task
    OBVIOUS
  <2>7. deaths \in 0..MaxDeaths /\ unspawned \in 0..Size
    OBVIOUS
  <2>8. destroyed \in BOOLEAN /\ closed \in BOOLEAN
    BY Zenon
  <2> QED BY <2>1, <2>2, <2>3, <2>4, <2>5, <2>6, <2>7, <2>8 DEF Types, TypeOK, Event
<1>2. Membership
  BY DEF Membership
<1>3. Shapes
  BY ReportsDiffer DEF Shapes, ShapeOf
<1>4. IdleFree
  BY DEF IdleFree, FreeOf, Injective
<1>5. Tasks
  BY DEF Tasks, Placed, Injective
<1>6. WorkConserving /\ RightSize
  BY DEF WorkConserving, RightSize
<1> QED BY <1>1, <1>2, <1>3, <1>4, <1>5, <1>6 DEF PoolIInv

LEMMA IdleWorkers ==
  ASSUME PoolIInv, NEW i \in 1..Len(idle)
  PROVE  /\ idle[i] \in Worker /\ thread[idle[i]] \in {"running", "exited"}
         /\ events[idle[i]] \in {<<>>, <<Exit>>}
         /\ inbox[idle[i]] = {} /\ current[idle[i]] = 0
<1>1. idle \in Seq(Worker)
  BY DEF PoolIInv, Types, TypeOK
<1>2. idle[i] \in Worker
  BY <1>1
<1> QED BY <1>2 DEF PoolIInv, IdleFree, FreeOf

LEMMA HeadOnline ==
  ASSUME PoolIInv, NEW w \in Worker, events[w] # <<>>, Head(events[w]).type = "online"
  PROVE  /\ current[w] = 0 /\ inbox[w] = {} /\ thread[w] \in {"running", "exited"}
         /\ Tail(events[w]) = IF thread[w] = "exited" THEN <<Exit>> ELSE <<>>
         /\ events[w] \notin {<<>>, <<Exit>>}
<1>1. ShapeOf(thread[w], events[w], inbox[w], current[w])
  BY DEF PoolIInv, Shapes
<1>2. thread[w] \in {"running", "exited"}
  BY <1>1 DEF ShapeOf, PoolIInv, Types, TypeOK
<1>3. events[w] = IF thread[w] = "exited" THEN <<Online, Exit>> ELSE <<Online>>
  BY <1>1, <1>2, EventsDiffer, ShortSequences DEF ShapeOf
<1> QED BY <1>1, <1>2, <1>3, ShortSequences, ReportsDiffer DEF ShapeOf

LEMMA HeadMessage ==
  ASSUME PoolIInv, NEW w \in Worker, events[w] # <<>>, Head(events[w]).type = "message"
  PROVE  /\ Head(events[w]).id = current[w] /\ inbox[w] = {}
         /\ thread[w] \in {"running", "exited"}
         /\ Tail(events[w]) = IF thread[w] = "exited" THEN <<Exit>> ELSE <<>>
         /\ events[w] \notin {<<>>, <<Exit>>}
<1>1. ShapeOf(thread[w], events[w], inbox[w], current[w])
  BY DEF PoolIInv, Shapes
<1>2. thread[w] \in {"running", "exited"}
  BY <1>1 DEF ShapeOf, PoolIInv, Types, TypeOK
<1>3. events[w] = IF thread[w] = "exited" THEN <<Reply(current[w]), Exit>>
                  ELSE <<Reply(current[w])>>
  BY <1>1, <1>2, EventsDiffer, ShortSequences DEF ShapeOf
<1>4. Head(events[w]) = Reply(current[w])
      /\ Tail(events[w]) = IF thread[w] = "exited" THEN <<Exit>> ELSE <<>>
  BY <1>3, ShortSequences
<1> QED BY <1>1, <1>2, <1>3, <1>4, EventsDiffer, ReportsDiffer DEF ShapeOf

LEMMA HeadExit ==
  ASSUME PoolIInv, NEW w \in Worker, events[w] # <<>>, Head(events[w]).type = "exit"
  PROVE  thread[w] = "exited" /\ inbox[w] = {} /\ Tail(events[w]) = <<>>
<1>1. ShapeOf(thread[w], events[w], inbox[w], current[w])
  BY DEF PoolIInv, Shapes
<1>2. thread[w] \in {"running", "exited"}
  BY <1>1 DEF ShapeOf, PoolIInv, Types, TypeOK
<1>3. thread[w] = "exited" /\ events[w] = <<Exit>>
  BY <1>1, <1>2, EventsDiffer, ShortSequences DEF ShapeOf
<1> QED BY <1>1, <1>3, ShortSequences DEF ShapeOf

\* A worker that has been heard has one report left at most, its exit.
LEMMA HeardShape ==
  ASSUME NEW th \in {"running", "exited"}, NEW cur
  PROVE  ShapeOf(th, IF th = "exited" THEN <<Exit>> ELSE <<>>, {}, cur)
BY ReportsDiffer DEF ShapeOf

(***************************************************************************)
(* One lemma for each action.                                              *)
(***************************************************************************)

LEMMA ThreadStartsKeeps ==
  ASSUME PoolIInv, NEW w \in Worker, ThreadStarts(w)
  PROVE  PoolIInv'
<1> USE DEF ThreadStarts
<1>1. events[w] = <<>> /\ current[w] = 0 /\ inbox[w] = {}
  BY DEF PoolIInv, Shapes, ShapeOf
<1>2. events'[w] = <<Online>> /\ thread'[w] = "running"
      /\ \A v \in Worker \ {w} : events'[v] = events[v] /\ thread'[v] = thread[v]
  BY <1>1, ShortSequences DEF PoolIInv, Types, TypeOK
<1>3. Types'
  <2>1. Append(events[w], Online) \in Seq(Event)
    BY EventsDiffer, AppendProperties DEF PoolIInv, Types
  <2> QED BY <2>1 DEF PoolIInv, Types, TypeOK, Event
<1>4. Membership'
  BY <1>2 DEF PoolIInv, Membership
<1>5. Shapes'
  BY <1>1, <1>2, ReportsDiffer DEF PoolIInv, Shapes, ShapeOf
<1>6. IdleFree'
  <2>1. \A i \in 1..Len(idle) : idle[i] \in Worker \ {w}
    BY IdleWorkers
  <2> QED BY <1>2, <2>1 DEF PoolIInv, IdleFree, FreeOf
<1>7. Tasks' /\ WorkConserving' /\ RightSize'
  BY DEF PoolIInv, Tasks, Placed, WorkConserving, RightSize
<1> QED BY <1>3, <1>4, <1>5, <1>6, <1>7 DEF PoolIInv

LEMMA WorkerRepliesKeeps ==
  ASSUME PoolIInv, NEW w \in Worker, WorkerReplies(w)
  PROVE  PoolIInv'
<1> USE DEF WorkerReplies
<1>1. PICK t \in inbox[w] :
        /\ inbox' = [inbox EXCEPT ![w] = @ \ {t}]
        /\ events' = [events EXCEPT ![w] = Append(@, Reply(t))]
  OBVIOUS
<1>2. events[w] = <<>> /\ inbox[w] = {current[w]} /\ t = current[w]
  BY DEF PoolIInv, Shapes, ShapeOf
<1>3. events'[w] = <<Reply(current[w])>> /\ inbox'[w] = {}
      /\ \A v \in Worker \ {w} : events'[v] = events[v] /\ inbox'[v] = inbox[v]
  BY <1>1, <1>2, ShortSequences DEF PoolIInv, Types
<1>4. Types'
  <2>1. t \in 0..MaxTasks
    BY <1>2 DEF PoolIInv, Types, TypeOK
  <2>2. Append(events[w], Reply(t)) \in Seq(Event)
    BY <2>1, EventsDiffer, AppendProperties DEF PoolIInv, Types
  <2>3. events' \in [Worker -> Seq(Event)] /\ inbox' \in [Worker -> SUBSET Task]
    BY <1>1, <2>2 DEF PoolIInv, Types
  <2> QED BY <2>3 DEF PoolIInv, Types, TypeOK, Event
<1>5. Membership'
  BY DEF PoolIInv, Membership
<1>6. Shapes'
  BY <1>2, <1>3, ReportsDiffer DEF PoolIInv, Shapes, ShapeOf
<1>7. IdleFree'
  <2>1. \A i \in 1..Len(idle) : idle[i] \in Worker \ {w}
    BY <1>2, IdleWorkers
  <2> QED BY <1>3, <2>1 DEF PoolIInv, IdleFree, FreeOf
<1>8. Tasks' /\ WorkConserving' /\ RightSize'
  BY DEF PoolIInv, Tasks, Placed, WorkConserving, RightSize
<1> QED BY <1>4, <1>5, <1>6, <1>7, <1>8 DEF PoolIInv

LEMMA WorkerEndsKeeps ==
  ASSUME PoolIInv, NEW w \in Worker, WorkerEnds(w)
  PROVE  PoolIInv'
<1> USE DEF WorkerEnds
<1>1. thread'[w] = "exited" /\ inbox'[w] = {} /\ events'[w] = Append(events[w], Exit)
      /\ \A v \in Worker \ {w} :
           events'[v] = events[v] /\ inbox'[v] = inbox[v] /\ thread'[v] = thread[v]
  BY DEF PoolIInv, Types, TypeOK
<1>2. \/ events[w] = <<>> /\ events'[w] = <<Exit>>
      \/ events[w] = <<Online>> /\ events'[w] = <<Online, Exit>> /\ current[w] = 0
      \/ events[w] = <<Reply(current[w])>> /\ events'[w] = <<Reply(current[w]), Exit>>
  <2>1. ShapeOf(thread[w], events[w], inbox[w], current[w])
    BY DEF PoolIInv, Shapes
  <2>2. \/ events[w] = <<>>
        \/ events[w] = <<Online>> /\ current[w] = 0
        \/ events[w] = <<Reply(current[w])>>
    BY <2>1 DEF ShapeOf
  <2> DEFINE ev == events[w]
  <2>3. events'[w] = Append(ev, Exit)
    BY <1>1
  <2> HIDE DEF ev
  <2>4. ev = <<>> => events'[w] = <<Exit>>
    BY <2>3, ShortSequences
  <2>5. ev = <<Online>> => events'[w] = <<Online, Exit>>
    BY <2>3, ShortSequences
  <2>6. \A c : ev = <<Reply(c)>> => events'[w] = <<Reply(c), Exit>>
    BY <2>3, ShortSequences
  <2> QED BY <2>2, <2>4, <2>5, <2>6 DEF ev
<1>3. Types'
  <2>1. Append(events[w], Exit) \in Seq(Event)
    BY EventsDiffer, AppendProperties DEF PoolIInv, Types
  <2>2. events' \in [Worker -> Seq(Event)] /\ inbox' \in [Worker -> SUBSET Task]
    BY <2>1 DEF PoolIInv, Types
  <2>3. deaths' \in 0..MaxDeaths
    BY BoundsAssumption DEF PoolIInv, Types, TypeOK
  <2> QED BY <2>2, <2>3 DEF PoolIInv, Types, TypeOK, Event
<1>4. Membership'
  BY <1>1 DEF PoolIInv, Membership
<1>5. Shapes'
  BY <1>1, <1>2, ReportsDiffer DEF PoolIInv, Shapes, ShapeOf
<1>6. IdleFree'
  <2>1. ASSUME NEW i \in 1..Len(idle), idle[i] = w PROVE events'[w] = <<Exit>>
    BY <1>2, <2>1, IdleWorkers, ReportsDiffer
  <2>2. ASSUME NEW i \in 1..Len(idle)
        PROVE  /\ thread'[idle[i]] \in {"running", "exited"}
               /\ events'[idle[i]] \in {<<>>, <<Exit>>}
               /\ inbox'[idle[i]] = {} /\ current[idle[i]] = 0
    <3>1. CASE idle[i] = w
      BY <1>1, <2>1, <3>1, IdleWorkers
    <3>2. CASE idle[i] # w
      BY <1>1, <3>2, IdleWorkers
    <3> QED BY <3>1, <3>2
  <2> QED BY <2>2 DEF PoolIInv, IdleFree, FreeOf
<1>7. Tasks' /\ WorkConserving' /\ RightSize'
  BY DEF PoolIInv, Tasks, Placed, WorkConserving, RightSize
<1> QED BY <1>3, <1>4, <1>5, <1>6, <1>7 DEF PoolIInv

\* A worker whose report has been taken off, and that has said nothing else but its exit.
LEMMA HeardKeeps ==
  ASSUME PoolIInv, NEW w \in Worker, thread[w] \in {"running", "exited"}, inbox[w] = {},
         events[w] \notin {<<>>, <<Exit>>},
         events' = [events EXCEPT ![w] = IF thread[w] = "exited" THEN <<Exit>> ELSE <<>>]
  PROVE  /\ events' \in [Worker -> Seq(Event)]
         /\ \A c : ShapeOf(thread[w], events'[w], inbox[w], c)
         /\ \A v \in Worker \ {w} : ShapeOf(thread[v], events'[v], inbox[v], current[v])
         /\ events'[w] \in {<<>>, <<Exit>>}
         /\ \A i \in 1..Len(idle) : idle[i] # w
         /\ FreeOf(idle, events', inbox, current)
<1>1. <<Exit>> \in Seq(Event) /\ <<>> \in Seq(Event)
  BY EventsDiffer
<1>2. events' \in [Worker -> Seq(Event)]
  BY <1>1 DEF PoolIInv, Types
<1>3. /\ events'[w] = IF thread[w] = "exited" THEN <<Exit>> ELSE <<>>
      /\ \A v \in Worker \ {w} : events'[v] = events[v]
  BY DEF PoolIInv, Types
<1>4. \A c : ShapeOf(thread[w], events'[w], inbox[w], c)
  BY <1>3, HeardShape
<1>5. \A v \in Worker \ {w} : ShapeOf(thread[v], events'[v], inbox[v], current[v])
  BY <1>3 DEF PoolIInv, Shapes
<1>6. \A i \in 1..Len(idle) : idle[i] # w
  BY IdleWorkers
<1>7. FreeOf(idle, events', inbox, current)
  BY <1>3, <1>6, IdleWorkers DEF PoolIInv, IdleFree, FreeOf
<1> QED BY <1>2, <1>3, <1>4, <1>5, <1>6, <1>7

\* dispatch() with a heard worker as the last idle one.
LEMMA OfferKeeps ==
  ASSUME PoolIInv, NEW w \in Worker, thread[w] \in {"running", "exited"}, inbox[w] = {},
         events[w] \notin {<<>>, <<Exit>>},
         events' = [events EXCEPT ![w] = IF thread[w] = "exited" THEN <<Exit>> ELSE <<>>],
         NEW cur, cur = [current EXCEPT ![w] = 0],
         NEW T \in SUBSET Task, Placed(queue, cur, T, lost),
         Dispatch(Append(idle, w), queue, cur)
  PROVE  /\ idle' \in Seq(Worker) /\ queue' \in Seq(Task)
         /\ current' \in [Worker -> 0..MaxTasks] /\ inbox' \in [Worker -> SUBSET Task]
         /\ FreeOf(idle', events', inbox', current') /\ Placed(queue', current', T, lost)
         /\ \A v \in Worker : ShapeOf(thread[v], events'[v], inbox'[v], current'[v])
         /\ idle' = <<>> \/ queue' = <<>>
<1> DEFINE free == Append(idle, w)
<1>1. idle \in Seq(Worker) /\ queue \in Seq(Task) /\ current \in [Worker -> 0..MaxTasks]
      /\ inbox \in [Worker -> SUBSET Task]
  BY DEF PoolIInv, Types, TypeOK
<1>2. cur \in [Worker -> 0..MaxTasks] /\ cur[w] = 0 /\ \A v \in Worker \ {w} : cur[v] = current[v]
  BY <1>1, BoundsAssumption
<1>3. /\ \A v \in Worker \ {w} : ShapeOf(thread[v], events'[v], inbox[v], current[v])
      /\ \A c : ShapeOf(thread[w], events'[w], inbox[w], c)
      /\ events'[w] \in {<<>>, <<Exit>>}
      /\ \A i \in 1..Len(idle) : idle[i] # w
      /\ FreeOf(idle, events', inbox, current)
  BY HeardKeeps
<1>4. /\ free \in Seq(Worker) /\ Len(free) = Len(idle) + 1 /\ Injective(free)
      /\ \A i \in 1..Len(idle) : free[i] = idle[i]
      /\ free[Len(idle) + 1] = w
  <2>1. Injective(idle)
    BY <1>3 DEF FreeOf
  <2> QED BY <1>1, <1>3, <2>1, AppendedElements
<1>5. FreeOf(free, events', inbox, cur)
  <2> HIDE DEF free
  <2>1. ASSUME NEW i \in 1..Len(free)
        PROVE  /\ thread[free[i]] \in {"running", "exited"} /\ events'[free[i]] \in {<<>>, <<Exit>>}
               /\ inbox[free[i]] = {} /\ cur[free[i]] = 0
    <3>1. CASE i = Len(idle) + 1
      BY <1>2, <1>3, <1>4, <3>1
    <3>2. CASE i # Len(idle) + 1
      <4>1. i \in 1..Len(idle) /\ free[i] = idle[i]
        BY <1>1, <1>4, <3>2
      <4>2. idle[i] \in Worker \ {w} /\ current[idle[i]] = 0
        BY <1>3, <4>1, IdleWorkers
      <4> QED BY <1>2, <1>3, <4>1, <4>2 DEF FreeOf
    <3> QED BY <3>1, <3>2
  <2> QED BY <1>4, <2>1 DEF FreeOf
<1>6. \A v \in Worker : ShapeOf(thread[v], events'[v], inbox[v], cur[v])
  BY <1>2, <1>3
<1> HIDE DEF free
<1>7. Dispatch(free, queue, cur)
  BY DEF free
<1>8. /\ free \in Seq(Worker) /\ queue \in Seq(Task) /\ cur \in [Worker -> 0..MaxTasks]
      /\ inbox \in [Worker -> SUBSET Task] /\ T \in SUBSET Task
      /\ Placed(queue, cur, T, lost)
  BY <1>1, <1>2, <1>4
<1> QED BY ONLY <1>5, <1>6, <1>7, <1>8, DispatchKeeps

LEMMA HandleOnlineKeeps ==
  ASSUME PoolIInv, NEW w \in Worker, HandleOnline(w)
  PROVE  PoolIInv'
<1> USE DEF HandleOnline, Handles
<1>1. /\ current[w] = 0 /\ inbox[w] = {} /\ thread[w] \in {"running", "exited"}
      /\ Tail(events[w]) = IF thread[w] = "exited" THEN <<Exit>> ELSE <<>>
      /\ events[w] \notin {<<>>, <<Exit>>}
  BY HeadOnline
<1>2. events' = [events EXCEPT ![w] = IF thread[w] = "exited" THEN <<Exit>> ELSE <<>>]
  BY <1>1
<1>3. events' \in [Worker -> Seq(Event)]
  BY <1>1, <1>2, HeardKeeps
<1>4. CASE ~destroyed /\ Dispatch(Append(idle, w), queue, current) /\ UNCHANGED terminated
  <2>1. current = [current EXCEPT ![w] = 0] /\ tasks \in SUBSET Task
        /\ Placed(queue, current, tasks, lost)
    BY <1>1, <1>4 DEF PoolIInv, Types, TypeOK, Tasks
  <2>2. /\ idle' \in Seq(Worker) /\ queue' \in Seq(Task)
        /\ current' \in [Worker -> 0..MaxTasks] /\ inbox' \in [Worker -> SUBSET Task]
        /\ FreeOf(idle', events', inbox', current') /\ Placed(queue', current', tasks, lost)
        /\ \A v \in Worker : ShapeOf(thread[v], events'[v], inbox'[v], current'[v])
        /\ idle' = <<>> \/ queue' = <<>>
    BY <1>1, <1>2, <1>4, <2>1, OfferKeeps
  <2>3. Types'
    BY <1>3, <1>4, <2>2 DEF PoolIInv, Types, TypeOK, Event
  <2>4. Membership' /\ Shapes' /\ IdleFree'
    BY <1>4, <2>2 DEF PoolIInv, Membership, Shapes, IdleFree, FreeOf
  <2>5. Tasks' /\ WorkConserving' /\ RightSize'
    BY <1>4, <2>2 DEF PoolIInv, Tasks, Placed, WorkConserving, RightSize
  <2> QED BY <2>3, <2>4, <2>5 DEF PoolIInv
<1>5. CASE /\ destroyed /\ terminated' = terminated \cup {w}
           /\ UNCHANGED <<inbox, idle, queue, current>>
  <2>1. Types'
    BY <1>3, <1>5 DEF PoolIInv, Types, TypeOK, Event
  <2>2. Membership'
    BY <1>5 DEF PoolIInv, Membership
  <2>3. /\ \A v \in Worker : ShapeOf(thread[v], events'[v], inbox[v], current[v])
        /\ FreeOf(idle, events', inbox, current)
    BY <1>1, <1>2, HeardKeeps
  <2>4. Shapes' /\ IdleFree'
    BY <1>5, <2>3 DEF Shapes, IdleFree, FreeOf
  <2>5. Tasks' /\ WorkConserving' /\ RightSize'
    BY <1>5 DEF PoolIInv, Tasks, Placed, WorkConserving, RightSize
  <2> QED BY <2>1, <2>2, <2>4, <2>5 DEF PoolIInv
<1> QED BY <1>4, <1>5

LEMMA HandleMessageKeeps ==
  ASSUME PoolIInv, NEW w \in Worker, HandleMessage(w)
  PROVE  PoolIInv'
<1> USE DEF HandleMessage, Handles
<1>1. /\ Head(events[w]).id = current[w] /\ inbox[w] = {}
      /\ thread[w] \in {"running", "exited"}
      /\ Tail(events[w]) = IF thread[w] = "exited" THEN <<Exit>> ELSE <<>>
      /\ events[w] \notin {<<>>, <<Exit>>}
  BY HeadMessage
<1>2. events' = [events EXCEPT ![w] = IF thread[w] = "exited" THEN <<Exit>> ELSE <<>>]
  BY <1>1
<1>3. events' \in [Worker -> Seq(Event)]
  BY <1>1, <1>2, HeardKeeps
<1>4. CASE UNCHANGED <<inbox, idle, queue, tasks, current, waiting>>
  <2>1. Types' /\ Membership'
    BY <1>3, <1>4 DEF PoolIInv, Types, TypeOK, Event, Membership
  <2>2. /\ \A v \in Worker : ShapeOf(thread[v], events'[v], inbox[v], current[v])
        /\ FreeOf(idle, events', inbox, current)
    BY <1>1, <1>2, HeardKeeps
  <2>3. Shapes' /\ IdleFree'
    BY <1>4, <2>2 DEF Shapes, IdleFree, FreeOf
  <2>4. Tasks' /\ WorkConserving' /\ RightSize'
    BY <1>4 DEF PoolIInv, Tasks, Placed, WorkConserving, RightSize
  <2> QED BY <2>1, <2>3, <2>4 DEF PoolIInv
<1>5. CASE /\ current[w] \in tasks
           /\ tasks' = tasks \ {current[w]}
           /\ waiting' = waiting \ {current[w]}
           /\ Dispatch(Append(idle, w), queue, [current EXCEPT ![w] = 0])
  <2> DEFINE cur == [current EXCEPT ![w] = 0]
  <2>1. ~destroyed /\ Placed(queue, current, tasks, lost) /\ tasks \subseteq Task
    BY <1>5 DEF PoolIInv, Types, TypeOK, Tasks
  <2>2. current[w] # 0
    BY <1>5, <2>1, BoundsAssumption DEF Task
  <2>3. cur[w] = 0 /\ \A v \in Worker \ {w} : cur[v] = current[v]
    BY DEF PoolIInv, Types, TypeOK
  <2> HIDE DEF cur
  <2>4. Placed(queue, cur, tasks', lost)
    <3>1. \A i \in 1..Len(queue) : queue[i] \in tasks' \ lost
      BY <1>5, <2>1, <2>2 DEF Placed
    <3>2. ASSUME NEW v \in Worker, cur[v] # 0
          PROVE  /\ cur[v] \in tasks' \ lost
                 /\ \A i \in 1..Len(queue) : queue[i] # cur[v]
                 /\ \A x \in Worker : cur[x] = cur[v] => x = v
      <4>1. v # w /\ cur[v] = current[v]
        BY <2>3, <3>2
      <4>2. current[v] # current[w]
        BY <2>1, <2>2, <4>1 DEF Placed
      <4>3. \A x \in Worker : cur[x] = cur[v] => cur[x] = current[x]
        BY <2>3, <3>2
      <4> QED BY <1>5, <2>1, <3>2, <4>1, <4>2, <4>3 DEF Placed
    <3>3. ASSUME NEW t \in tasks' \ lost
          PROVE  (\E i \in 1..Len(queue) : queue[i] = t) \/ (\E v \in Worker : cur[v] = t)
      BY <1>5, <2>1, <2>3 DEF Placed
    <3> QED BY <2>1, <3>1, <3>2, <3>3 DEF Placed
  <2>5. tasks' \in SUBSET Task /\ cur = [current EXCEPT ![w] = 0]
        /\ Dispatch(Append(idle, w), queue, cur)
    BY <1>5, <2>1 DEF cur
  <2>6. /\ idle' \in Seq(Worker) /\ queue' \in Seq(Task)
        /\ current' \in [Worker -> 0..MaxTasks] /\ inbox' \in [Worker -> SUBSET Task]
        /\ FreeOf(idle', events', inbox', current') /\ Placed(queue', current', tasks', lost)
        /\ \A v \in Worker : ShapeOf(thread[v], events'[v], inbox'[v], current'[v])
        /\ idle' = <<>> \/ queue' = <<>>
    BY <1>1, <1>2, <2>4, <2>5, OfferKeeps
  <2>7. Types'
    BY <1>3, <1>5, <2>6 DEF PoolIInv, Types, TypeOK, Event
  <2>8. Membership' /\ Shapes' /\ IdleFree'
    BY <2>6 DEF PoolIInv, Membership, Shapes, IdleFree, FreeOf
  <2>9. Tasks' /\ WorkConserving' /\ RightSize'
    BY <1>5, <2>1, <2>6 DEF PoolIInv, Tasks, Placed, WorkConserving, RightSize
  <2> QED BY <2>7, <2>8, <2>9 DEF PoolIInv
<1> QED BY <1>1, <1>4, <1>5

LEMMA HandleExitKeeps ==
  ASSUME PoolIInv, NEW w \in Worker, HandleExit(w)
  PROVE  PoolIInv'
<1> USE DEF HandleExit, Handles
<1>1. thread[w] = "exited" /\ inbox[w] = {} /\ Tail(events[w]) = <<>>
  BY HeadExit
<1>2. PICK new \in Successors :
        /\ Replace(w, new)
        /\ unspawned' = IF ~destroyed /\ new = {} THEN unspawned + 1 ELSE unspawned
  OBVIOUS
<1>3. /\ new \subseteq {v \in Worker : thread[v] = "none"}
      /\ destroyed => new = {}
      /\ new = {} \/ \E v \in Worker : new = {v}
  BY DEF Successors, Fresh
<1>4. /\ workers' = (workers \ {w}) \cup new
      /\ thread' = [v \in Worker |->
                      IF v = w THEN "gone" ELSE IF v \in new THEN "starting" ELSE thread[v]]
      /\ idle' = RemoveFirst(idle, w)
      /\ current' = [current EXCEPT ![w] = 0]
      /\ events' = [events EXCEPT ![w] = <<>>]
  BY <1>1, <1>2 DEF Replace
<1>5. /\ idle' \in Seq(Worker) /\ Injective(idle')
      /\ \A i \in 1..Len(idle') : idle'[i] # w /\ \E j \in 1..Len(idle) : idle'[i] = idle[j]
      /\ idle = <<>> => idle' = <<>>
  <2>1. idle \in Seq(Worker) /\ Injective(idle)
    BY DEF PoolIInv, Types, TypeOK, IdleFree, FreeOf
  <2> QED BY <1>4, <2>1, RemovedFirst
<1>6. /\ current' \in [Worker -> 0..MaxTasks] /\ current'[w] = 0
      /\ \A v \in Worker \ {w} : current'[v] = current[v]
      /\ events' \in [Worker -> Seq(Event)] /\ events'[w] = <<>>
      /\ \A v \in Worker \ {w} : events'[v] = events[v]
  <2>1. current \in [Worker -> 0..MaxTasks] /\ events \in [Worker -> Seq(Event)]
    BY DEF PoolIInv, Types, TypeOK
  <2>2. 0 \in 0..MaxTasks /\ <<>> \in Seq(Event)
    BY BoundsAssumption
  <2> QED BY <1>4, <2>1, <2>2
<1> DEFINE Left == workers \ {w}
<1>7. /\ IsFiniteSet(Left) /\ Cardinality(workers) = Cardinality(Left) + 1
      /\ Cardinality(Left) \in Nat /\ Size \in Nat /\ unspawned \in 0..Size
      /\ Cardinality(workers) <= Size
      /\ ~destroyed => Cardinality(workers) + unspawned = Size
  <2>1. IsFiniteSet(workers) /\ w \in workers
    BY <1>1, WorkerAssumption, FS_Subset DEF PoolIInv, Types, TypeOK, Membership
  <2>2. /\ IsFiniteSet(Left) /\ Cardinality(Left) = Cardinality(workers) - 1
        /\ Cardinality(Left) \in Nat /\ Cardinality(workers) \in Nat
    BY <2>1, FS_RemoveElement, FS_CardinalityType
  <2> QED BY <2>2, SizeAssumption DEF PoolIInv, Types, TypeOK, RightSize
<1> HIDE DEF Left
<1>8. Types'
  <2>1. thread' \in [Worker -> {"none", "starting", "running", "exited", "gone"}]
    BY <1>4 DEF PoolIInv, Types, TypeOK
  <2>2. workers' \subseteq Worker /\ lost' \subseteq Task
    BY <1>3, <1>4 DEF PoolIInv, Types, TypeOK
  <2>3. unspawned' \in 0..Size
    BY <1>2, <1>7
  <2> QED BY <1>5, <1>6, <2>1, <2>2, <2>3 DEF PoolIInv, Types, TypeOK, Event
<1>9. Membership'
  <2>1. \A v \in new : v \in Worker /\ thread[v] = "none"
    BY <1>3
  <2>2. workers' = {v \in Worker : thread'[v] \in {"starting", "running", "exited"}}
    BY <1>1, <1>4, <2>1 DEF PoolIInv, Membership
  <2>3. w \in workers
    BY <1>1 DEF PoolIInv, Membership
  <2> QED BY <1>3, <1>4, <2>2, <2>3 DEF PoolIInv, Membership
<1>10. Shapes'
  <2>1. ASSUME NEW v \in Worker
        PROVE  ShapeOf(thread'[v], events'[v], inbox[v], current'[v])
    <3>1. CASE v = w
      BY <1>1, <1>4, <1>6, <3>1, ReportsDiffer DEF ShapeOf
    <3>2. CASE v # w /\ v \notin new
      BY <1>4, <1>6, <3>2 DEF PoolIInv, Shapes
    <3>3. CASE v # w /\ v \in new
      <4>1. thread[v] = "none" /\ thread'[v] = "starting"
        BY <1>3, <1>4, <3>3
      <4>2. events[v] = <<>> /\ inbox[v] = {} /\ current[v] = 0
        BY <4>1 DEF PoolIInv, Shapes, ShapeOf
      <4> QED BY <1>6, <3>3, <4>1, <4>2 DEF ShapeOf
    <3> QED BY <3>1, <3>2, <3>3
  <2> QED BY <2>1 DEF Shapes
<1>11. IdleFree'
  <2>1. ASSUME NEW i \in 1..Len(idle')
        PROVE  /\ thread'[idle'[i]] \in {"running", "exited"}
               /\ events'[idle'[i]] \in {<<>>, <<Exit>>}
               /\ inbox[idle'[i]] = {} /\ current'[idle'[i]] = 0
    <3>1. PICK j \in 1..Len(idle) : idle'[i] = idle[j] /\ idle[j] # w
      BY <1>5
    <3>2. /\ idle[j] \in Worker /\ thread[idle[j]] \in {"running", "exited"}
          /\ events[idle[j]] \in {<<>>, <<Exit>>}
          /\ inbox[idle[j]] = {} /\ current[idle[j]] = 0
      BY IdleWorkers
    <3>3. idle[j] \notin new
      BY <1>3, <3>2
    <3> QED BY <1>4, <1>6, <3>1, <3>2, <3>3
  <2> QED BY <1>5, <2>1 DEF IdleFree, FreeOf
<1>12. Tasks'
  <2>1. ASSUME ~destroyed
        PROVE  Placed(queue, current', tasks, lost')
    <3>1. Placed(queue, current, tasks, lost) /\ 0 \notin tasks
      BY <2>1, BoundsAssumption DEF PoolIInv, Types, TypeOK, Tasks, Task
    <3>2. tasks \ lost' = (tasks \ lost) \ {current[w]}
      OBVIOUS
    <3>3. \A i \in 1..Len(queue) : queue[i] \in tasks \ lost'
      BY <3>1, <3>2 DEF Placed
    <3>4. ASSUME NEW v \in Worker, current'[v] # 0
          PROVE  /\ current'[v] \in tasks \ lost'
                 /\ \A i \in 1..Len(queue) : queue[i] # current'[v]
                 /\ \A x \in Worker : current'[x] = current'[v] => x = v
      <4>1. v # w /\ current'[v] = current[v]
        BY <1>6, <3>4
      <4>2. current[v] # current[w]
        BY <3>1, <3>4, <4>1 DEF Placed
      <4>3. \A x \in Worker : current'[x] = current'[v] => current'[x] = current[x]
        BY <1>6, <3>4
      <4> QED BY <3>1, <3>2, <3>4, <4>1, <4>2, <4>3 DEF Placed
    <3>5. ASSUME NEW t \in tasks \ lost'
          PROVE  (\E i \in 1..Len(queue) : queue[i] = t) \/ (\E v \in Worker : current'[v] = t)
      BY <1>6, <3>1, <3>2 DEF Placed
    <3> QED BY <3>1, <3>3, <3>4, <3>5 DEF Placed
  <2>2. tasks \cup lost' \subseteq 1..nextTaskId
    BY DEF PoolIInv, Tasks
  <2> QED BY <2>1, <2>2 DEF PoolIInv, Tasks, Placed
<1>13. WorkConserving'
  BY <1>5 DEF PoolIInv, WorkConserving
<1>14. RightSize'
  <2>1. CASE new = {}
    <3>1. workers' = Left
      BY <1>4, <2>1 DEF Left
    <3>2. ~destroyed => unspawned' = unspawned + 1
      BY <1>2, <2>1
    <3> QED BY <1>7, <3>1, <3>2 DEF RightSize
  <2>2. CASE new # {}
    <3>1. PICK v \in Worker : new = {v}
      BY <1>3, <2>2
    <3>2. v \notin Left
      BY <1>3, <3>1 DEF PoolIInv, Membership, Left
    <3>3. workers' = Left \cup {v}
      BY <1>4, <3>1 DEF Left
    <3>4. Cardinality(workers') = Cardinality(Left) + 1
      BY <1>7, <3>2, <3>3, FS_AddElement
    <3>5. unspawned' = unspawned
      BY <1>2, <2>2
    <3> QED BY <1>7, <3>4, <3>5 DEF RightSize
  <2> QED BY <2>1, <2>2
<1> QED BY <1>8, <1>9, <1>10, <1>11, <1>12, <1>13, <1>14 DEF PoolIInv

LEMMA DestroyKeeps ==
  ASSUME PoolIInv, Destroy
  PROVE  PoolIInv'
<1> USE DEF Destroy
<1>1. Types'
  <2>1. destroyed' \in BOOLEAN
    BY Zenon
  <2>2. queue' \in Seq(Task) /\ tasks' \subseteq Task
    OBVIOUS
  <2>3. waiting' \subseteq Task /\ terminated' \subseteq Worker
    BY DEF PoolIInv, Types, TypeOK
  <2> QED BY <2>1, <2>2, <2>3 DEF PoolIInv, Types, TypeOK, Event
<1>2. Membership' /\ Shapes' /\ IdleFree'
  BY DEF PoolIInv, Membership, Shapes, IdleFree, FreeOf
<1>3. Tasks'
  BY DEF PoolIInv, Tasks
<1>4. WorkConserving' /\ RightSize'
  BY DEF PoolIInv, WorkConserving, RightSize
<1> QED BY <1>1, <1>2, <1>3, <1>4 DEF PoolIInv

LEMMA DestroyDoneKeeps ==
  ASSUME PoolIInv, DestroyDone
  PROVE  PoolIInv'
<1> USE DEF DestroyDone
<1>1. workers = {}
  BY DEF PoolIInv, Membership
<1>2. current' \in [Worker -> 0..MaxTasks] /\ \A w \in Worker : current'[w] = 0
  BY BoundsAssumption
<1>3. Types'
  <2>1. idle' \in Seq(Worker) /\ workers' \subseteq Worker
    OBVIOUS
  <2>2. closed' \in BOOLEAN
    BY Zenon
  <2> QED BY <1>2, <2>1, <2>2 DEF PoolIInv, Types, TypeOK, Event
<1>4. Membership'
  BY <1>1 DEF PoolIInv, Membership
<1>5. Shapes'
  <2>1. \A w \in Worker : thread[w] \in {"none", "gone"}
    BY <1>1 DEF PoolIInv, Types, TypeOK, Membership
  <2>2. \A w \in Worker : events[w] = <<>> /\ inbox[w] = {}
    BY <2>1 DEF PoolIInv, Shapes, ShapeOf
  <2> QED BY <1>2, <2>1, <2>2 DEF Shapes, ShapeOf
<1>6. IdleFree'
  BY DEF IdleFree, FreeOf, Injective
<1>7. Tasks' /\ WorkConserving'
  BY DEF PoolIInv, Tasks, WorkConserving
<1>8. RightSize'
  BY <1>1, SizeAssumption, FS_EmptySet DEF PoolIInv, RightSize
<1> QED BY <1>3, <1>4, <1>5, <1>6, <1>7, <1>8 DEF PoolIInv

LEMMA FetchManyKeeps ==
  ASSUME PoolIInv, NEW n \in Task, FetchMany(n)
  PROVE  PoolIInv'
<1> USE DEF FetchMany
<1> DEFINE jobs == queue \o NewIds(n)
           T == tasks \cup (nextTaskId + 1)..(nextTaskId + n)
<1>1. /\ n \in Nat /\ nextTaskId \in Nat /\ nextTaskId + n <= MaxTasks /\ MaxTasks \in Nat
      /\ queue \in Seq(Task) /\ idle \in Seq(Worker) /\ current \in [Worker -> 0..MaxTasks]
      /\ inbox \in [Worker -> SUBSET Task] /\ tasks \subseteq Task
  BY BoundsAssumption DEF PoolIInv, Types, TypeOK, Task
<1>2. T \in SUBSET Task
  BY <1>1 DEF Task
<1>3. Placed(queue, current, tasks, lost) /\ tasks \cup lost \subseteq 1..nextTaskId
  BY DEF PoolIInv, Tasks
<1>4. /\ NewIds(n) \in Seq(Task) /\ Len(NewIds(n)) = n
      /\ \A i \in 1..n : NewIds(n)[i] = nextTaskId + i
  <2>1. \A i \in 1..n : nextTaskId + i \in Task
    BY <1>1 DEF Task
  <2> QED BY <1>1, <2>1 DEF NewIds
<1>5. /\ jobs \in Seq(Task) /\ Len(jobs) = Len(queue) + n
      /\ \A i \in 1..Len(queue) : jobs[i] = queue[i]
      /\ \A i \in 1..Len(jobs) : i > Len(queue) => jobs[i] = nextTaskId + (i - Len(queue))
  <2> DEFINE ids == NewIds(n)
  <2>0. ids \in Seq(Task) /\ Len(ids) = n /\ jobs = queue \o ids
    BY <1>4
  <2> HIDE DEF ids, jobs
  <2>1. /\ jobs \in Seq(Task) /\ Len(jobs) = Len(queue) + n
        /\ \A i \in 1..Len(jobs) :
             jobs[i] = IF i <= Len(queue) THEN queue[i] ELSE ids[i - Len(queue)]
    BY <1>1, <2>0, ConcatProperties
  <2>2. \A i \in 1..Len(jobs) : i > Len(queue) => i - Len(queue) \in 1..n
    BY <1>1, <2>1
  <2>3. \A i \in 1..Len(jobs) : i > Len(queue) => jobs[i] = nextTaskId + (i - Len(queue))
    BY <1>1, <1>4, <2>1, <2>2 DEF ids
  <2>4. \A i \in 1..Len(queue) : jobs[i] = queue[i]
    BY <1>1, <2>1
  <2> QED BY <2>1, <2>3, <2>4
<1> HIDE DEF jobs
<1>6. Placed(jobs, current, T, lost)
  <2>1. \A i \in 1..Len(queue) : queue[i] \in tasks \ lost /\ queue[i] \in 1..nextTaskId
    BY <1>3 DEF Placed
  <2>2. ASSUME NEW i \in 1..Len(jobs)
        PROVE  \/ i \in 1..Len(queue) /\ jobs[i] = queue[i]
               \/ /\ i - Len(queue) \in 1..n /\ jobs[i] = nextTaskId + (i - Len(queue))
                  /\ jobs[i] \in (nextTaskId + 1)..(nextTaskId + n)
    BY <1>1, <1>5
  <2>3. Injective(jobs)
    <3>1. Injective(queue)
      BY <1>3 DEF Placed
    <3>2. \A i \in 1..Len(jobs) :
             jobs[i] \in 1..nextTaskId <=> i \in 1..Len(queue)
      <4>1. ASSUME NEW i \in 1..Len(jobs) PROVE jobs[i] \in 1..nextTaskId <=> i \in 1..Len(queue)
        <5>1. CASE i \in 1..Len(queue) /\ jobs[i] = queue[i]
          BY <2>1, <5>1
        <5>2. CASE /\ i - Len(queue) \in 1..n
                   /\ jobs[i] \in (nextTaskId + 1)..(nextTaskId + n)
          <6>1. Len(queue) \in Nat /\ i \in Nat
            BY <1>1
          <6> QED BY <1>1, <5>2, <6>1
        <5> QED BY <2>2, <5>1, <5>2
      <4> QED BY <4>1
    <3>3. ASSUME NEW i \in 1..Len(jobs), NEW j \in 1..Len(jobs), jobs[i] = jobs[j]
          PROVE  i = j
      <4>1. CASE i \in 1..Len(queue) /\ j \in 1..Len(queue)
        BY <1>5, <3>1, <3>3, <4>1 DEF Injective
      <4>2. CASE i \notin 1..Len(queue) /\ j \notin 1..Len(queue)
        <5>1. /\ i - Len(queue) \in 1..n /\ jobs[i] = nextTaskId + (i - Len(queue))
              /\ j - Len(queue) \in 1..n /\ jobs[j] = nextTaskId + (j - Len(queue))
          BY <2>2, <4>2
        <5>2. i \in Nat /\ j \in Nat /\ Len(queue) \in Nat
          BY <1>1
        <5>3. \A a, b, c, d \in Nat : d + (a - c) = d + (b - c) => a = b
          OBVIOUS
        <5>4. nextTaskId + (i - Len(queue)) = nextTaskId + (j - Len(queue))
          BY <3>3, <5>1
        <5> QED BY ONLY <1>1, <5>2, <5>3, <5>4
      <4> QED BY <3>2, <3>3, <4>1, <4>2
    <3> QED BY <3>3 DEF Injective
  <2>4. \A x \in (nextTaskId + 1)..(nextTaskId + n) : x \in T \ lost /\ x \notin 1..nextTaskId
    BY <1>1, <1>3
  <2>5. \A i \in 1..Len(jobs) : jobs[i] \in T \ lost
    BY <2>1, <2>2, <2>4
  <2>6. ASSUME NEW w \in Worker, current[w] # 0
        PROVE  /\ current[w] \in T \ lost
               /\ \A i \in 1..Len(jobs) : jobs[i] # current[w]
               /\ \A v \in Worker : current[v] = current[w] => v = w
    <3>1. current[w] \in tasks \ lost /\ current[w] \in 1..nextTaskId
      BY <1>3, <2>6 DEF Placed
    <3>2. \A i \in 1..Len(jobs) : jobs[i] # current[w]
      BY <1>3, <2>2, <2>4, <2>6, <3>1 DEF Placed
    <3> QED BY <1>3, <2>6, <3>1, <3>2 DEF Placed
  <2>7. ASSUME NEW t \in T \ lost
        PROVE  (\E i \in 1..Len(jobs) : jobs[i] = t) \/ (\E w \in Worker : current[w] = t)
    <3>1. CASE t \in tasks
      <4>1. (\E i \in 1..Len(queue) : queue[i] = t) \/ (\E w \in Worker : current[w] = t)
        BY <1>3, <3>1 DEF Placed
      <4>2. 1..Len(queue) \subseteq 1..Len(jobs)
        BY <1>1, <1>5
      <4> QED BY <1>5, <4>1, <4>2
    <3>2. CASE t \in (nextTaskId + 1)..(nextTaskId + n)
      <4> DEFINE i == Len(queue) + (t - nextTaskId)
      <4>1. i \in 1..Len(jobs) /\ i > Len(queue) /\ nextTaskId + (i - Len(queue)) = t
        BY <1>1, <1>5, <3>2
      <4> HIDE DEF i
      <4>2. jobs[i] = t
        BY <1>5, <4>1
      <4> QED BY <4>1, <4>2
    <3> QED BY <3>1, <3>2
  <2> QED BY <2>3, <2>5, <2>6, <2>7 DEF Placed
<1>7. /\ idle' \in Seq(Worker) /\ queue' \in Seq(Task)
      /\ current' \in [Worker -> 0..MaxTasks] /\ inbox' \in [Worker -> SUBSET Task]
      /\ FreeOf(idle', events, inbox', current') /\ Placed(queue', current', T, lost)
      /\ \A w \in Worker : ShapeOf(thread[w], events[w], inbox'[w], current'[w])
      /\ idle' = <<>> \/ queue' = <<>>
  <2>1. FreeOf(idle, events, inbox, current)
        /\ \A w \in Worker : ShapeOf(thread[w], events[w], inbox[w], current[w])
    BY DEF PoolIInv, IdleFree, Shapes
  <2>2. Dispatch(idle, jobs, current)
    BY DEF jobs
  <2>3. idle \in Seq(Worker) /\ jobs \in Seq(Task) /\ current \in [Worker -> 0..MaxTasks]
        /\ inbox \in [Worker -> SUBSET Task]
    BY <1>1, <1>5
  <2> HIDE DEF T
  <2> QED BY ONLY <1>2, <1>6, <2>1, <2>2, <2>3, DispatchKeeps
<1>8. Types'
  <2>1. nextTaskId' \in 0..MaxTasks
    BY <1>1
  <2>2. waiting' \subseteq Task /\ tasks' \subseteq Task
    BY <1>2
  <2> QED BY <1>7, <2>1, <2>2 DEF PoolIInv, Types, TypeOK, Event
<1>9. Membership' /\ Shapes' /\ IdleFree'
  BY <1>7 DEF PoolIInv, Membership, Shapes, IdleFree, FreeOf
<1>10. Tasks'
  <2>1. waiting' \subseteq tasks' /\ tasks' = T
    OBVIOUS
  <2>2. tasks' \cup lost' \subseteq 1..nextTaskId'
    BY <1>1, <1>3
  <2> QED BY <1>7, <2>1, <2>2 DEF Tasks, Placed
<1>11. WorkConserving' /\ RightSize'
  BY <1>7 DEF PoolIInv, WorkConserving, RightSize
<1> QED BY <1>8, <1>9, <1>10, <1>11 DEF PoolIInv

LEMMA StepKeepsIInv == PoolIInv /\ [Next]_vars => PoolIInv'
<1> SUFFICES ASSUME PoolIInv, [Next]_vars PROVE PoolIInv'
  OBVIOUS
<1>1. ASSUME NEW w \in Worker, ThreadStep(w) PROVE PoolIInv'
  BY <1>1, ThreadStartsKeeps, WorkerRepliesKeeps, WorkerEndsKeeps DEF ThreadStep
<1>2. ASSUME NEW w \in Worker, Handle(w) PROVE PoolIInv'
  BY <1>2, HandleOnlineKeeps, HandleMessageKeeps, HandleExitKeeps DEF Handle
<1>3. ASSUME NEW n \in Task, FetchMany(n) PROVE PoolIInv'
  BY <1>3, FetchManyKeeps
<1>4. CASE UNCHANGED vars
  <2>1. Types' /\ Membership' /\ Shapes' /\ IdleFree'
    BY <1>4 DEF vars, PoolIInv, Types, TypeOK, Event, Membership, Shapes, IdleFree, FreeOf
  <2>2. Tasks' /\ WorkConserving' /\ RightSize'
    BY <1>4 DEF vars, PoolIInv, Tasks, Placed, WorkConserving, RightSize
  <2> QED BY <2>1, <2>2 DEF PoolIInv
<1> QED BY <1>1, <1>2, <1>3, <1>4, DestroyKeeps, DestroyDoneKeeps DEF Next

(***************************************************************************)
(* What the inductive invariant says about the pool.                       *)
(***************************************************************************)

\* What a worker has not answered, or has answered unheard, is its current task.
LEMMA OutstandingIsCurrent ==
  ASSUME PoolIInv, NEW w \in Worker
  PROVE  /\ Outstanding(w) \subseteq {current[w]}
         /\ inbox[w] = {} /\ events[w] \in {<<>>, <<Exit>>} => Outstanding(w) = {}
<1>1. ShapeOf(thread[w], events[w], inbox[w], current[w])
      /\ thread[w] \in {"none", "starting", "running", "exited", "gone"}
  BY DEF PoolIInv, Shapes, Types, TypeOK
<1>2. /\ inbox[w] \subseteq {current[w]}
      /\ events[w] \in {<<>>, <<Exit>>, <<Online>>, <<Online, Exit>>,
                        <<Reply(current[w])>>, <<Reply(current[w]), Exit>>}
  BY <1>1 DEF ShapeOf
<1>3. \A i \in DOMAIN events[w] : events[w][i].type = "message" =>
        events[w][i].id = current[w] /\ events[w] \notin {<<>>, <<Exit>>}
  <2>1. \A i \in DOMAIN events[w] :
          \/ events[w][i] = Exit \/ events[w][i] = Online
          \/ events[w][i] = Reply(current[w]) /\ events[w] \notin {<<>>, <<Exit>>}
    <3>1. CASE events[w] = <<>>
      BY <3>1
    <3>2. CASE events[w] = <<Exit>>
      BY <3>2
    <3>3. CASE events[w] = <<Online>>
      BY <3>3
    <3>4. CASE events[w] = <<Online, Exit>>
      BY <3>4
    <3>5. CASE events[w] = <<Reply(current[w])>>
      BY <3>5, ReportsDiffer
    <3>6. CASE events[w] = <<Reply(current[w]), Exit>>
      BY <3>6, ReportsDiffer
    <3> QED BY <1>2, <3>1, <3>2, <3>3, <3>4, <3>5, <3>6
  <2> QED BY <2>1, EventsDiffer
<1> QED BY <1>2, <1>3 DEF Outstanding

LEMMA OnePlace ==
  ASSUME PoolIInv
  PROVE  OnePlacePerTask
<1>1. ASSUME NEW t \in tasks
      PROVE  Cardinality({i \in DOMAIN queue : queue[i] = t})
               + Cardinality({w \in workers : current[w] = t})
               + Cardinality({t} \cap lost) = 1
  <2> DEFINE Q == {i \in DOMAIN queue : queue[i] = t}
             W == {w \in workers : current[w] = t}
  <2> SUFFICES Cardinality(Q) + Cardinality(W) + Cardinality({t} \cap lost) = 1
    OBVIOUS
  <2>0. Cardinality({}) = 0 /\ \A x : Cardinality({x}) = 1
    BY FS_EmptySet, FS_Singleton
  <2>1. /\ Placed(queue, current, tasks, lost) /\ t # 0
        /\ queue \in Seq(Task) /\ DOMAIN queue = 1..Len(queue)
    BY BoundsAssumption DEF PoolIInv, Types, TypeOK, Tasks, Task
  <2>2. \A w \in Worker : current[w] # 0 => w \in workers
    <3>1. \A w \in Worker : current[w] # 0 => thread[w] \in {"running", "exited"}
      BY DEF PoolIInv, Shapes, ShapeOf, Types, TypeOK
    <3> QED BY <3>1 DEF PoolIInv, Membership
  <2>3. workers \subseteq Worker
    BY DEF PoolIInv, Types, TypeOK
  <2>4. CASE t \in lost
    <3>1. Q = {} /\ W = {} /\ {t} \cap lost = {t}
      BY <2>1, <2>3, <2>4 DEF Placed
    <3> HIDE DEF Q, W
    <3>2. Cardinality(Q) = 0 /\ Cardinality(W) = 0 /\ Cardinality({t} \cap lost) = 1
      BY <2>0, <3>1
    <3> QED BY ONLY <3>2
  <2>5. CASE t \notin lost /\ \E i \in 1..Len(queue) : queue[i] = t
    <3>1. PICK i \in 1..Len(queue) : queue[i] = t
      BY <2>5
    <3>2. Q = {i}
      BY <2>1, <3>1 DEF Placed, Injective
    <3>3. W = {} /\ {t} \cap lost = {}
      BY <2>1, <2>3, <2>5, <3>1 DEF Placed
    <3> HIDE DEF Q, W
    <3>4. Cardinality(Q) = 1 /\ Cardinality(W) = 0 /\ Cardinality({t} \cap lost) = 0
      BY <2>0, <3>2, <3>3
    <3> QED BY ONLY <3>4
  <2>6. CASE t \notin lost /\ ~\E i \in 1..Len(queue) : queue[i] = t
    <3>1. PICK w \in Worker : current[w] = t
      BY <2>1, <2>6 DEF Placed
    <3>2. W = {w}
      BY <2>1, <2>2, <2>3, <3>1 DEF Placed
    <3>3. Q = {} /\ {t} \cap lost = {}
      BY <2>1, <2>6
    <3> HIDE DEF Q, W
    <3>4. Cardinality(Q) = 0 /\ Cardinality(W) = 1 /\ Cardinality({t} \cap lost) = 0
      BY <2>0, <3>2, <3>3
    <3> QED BY ONLY <3>4
  <2> QED BY <2>4, <2>5, <2>6
<1>2. \A w \in workers : Outstanding(w) \subseteq {current[w]}
  BY OutstandingIsCurrent DEF PoolIInv, Types, TypeOK
<1> QED BY <1>1, <1>2 DEF OnePlacePerTask

LEMMA InvariantAgrees ==
  ASSUME PoolIInv
  PROVE  PoolInvariant /\ DestroyIsFinal
<1>1. TypeOK /\ WorkConserving
  BY DEF PoolIInv, Types
<1>2. IdleIsFree
  <2>1. DOMAIN idle = 1..Len(idle)
    BY DEF PoolIInv, Types, TypeOK
  <2>2. Injective(idle)
    BY DEF PoolIInv, IdleFree, FreeOf
  <2>3. ASSUME NEW i \in 1..Len(idle)
        PROVE  /\ idle[i] \in workers /\ current[idle[i]] = 0
               /\ Outstanding(idle[i]) = {}
    <3>1. idle[i] \in workers
      BY IdleWorkers DEF PoolIInv, Membership
    <3> QED BY <3>1, IdleWorkers, OutstandingIsCurrent
  <2> QED BY <2>1, <2>2, <2>3 DEF IdleIsFree, Injective
<1>3. ShortOfTheUnspawned
  <2> DEFINE R == {w \in Worker : thread[w] \in {"starting", "running"}}
  <2>1. R \subseteq workers
    BY DEF PoolIInv, Membership
  <2>2. IsFiniteSet(workers)
    BY WorkerAssumption, FS_Subset DEF PoolIInv, Types, TypeOK
  <2>3. Cardinality(R) <= Cardinality(workers) /\ Cardinality(workers) <= Size
    BY <2>1, <2>2, FS_Subset DEF PoolIInv, RightSize
  <2>4. Cardinality(R) \in Nat /\ Cardinality(workers) \in Nat
    BY <2>1, <2>2, FS_Subset, FS_CardinalityType
  <2>5. Cardinality(R) <= Size
    BY <2>3, <2>4, SizeAssumption
  <2> QED BY <2>5 DEF ShortOfTheUnspawned, PoolIInv, RightSize
<1>4. DestroyIsFinal
  <2>1. destroyed => waiting = {}
    BY DEF PoolIInv, Tasks
  <2>2. closed => \A w \in Worker : thread[w] \in {"none", "gone"}
    BY DEF PoolIInv, Types, TypeOK, Membership
  <2> QED BY <2>1, <2>2 DEF DestroyIsFinal
<1> QED BY <1>1, <1>2, <1>3, <1>4, OnePlace DEF PoolInvariant

(***************************************************************************)
(* Theorems.                                                               *)
(***************************************************************************)

\* Whatever the threads, the caller and destroy() do, the invariant holds.
THEOREM PoolInvariance == Spec => []PoolIInv
BY InitPoolIInv, StepKeepsIInv, PTL DEF Spec

\* In every state, for any number of threads, tasks, deaths and failed respawns: a
\* task that can still be answered is queued once or held by one worker, idle
\* workers are free, no task waits while a worker is idle, and the pool is short of
\* exactly the workers that could not be replaced
\* (prevoutWorkerPool.js dispatch, handleMessage, handleExit, destroy).
THEOREM PoolAgrees == Spec => []PoolInvariant
<1>1. PoolIInv => PoolInvariant
  BY InvariantAgrees
<1> QED BY <1>1, PoolInvariance, PTL

\* Once destroy() has begun nobody waits for a task, and once it has returned
\* no thread of the pool is left (prevoutWorkerPool.js destroy, spawnWorker).
THEOREM DestroyLeavesNothing == Spec => []DestroyIsFinal
<1>1. PoolIInv => DestroyIsFinal
  BY InvariantAgrees
<1> QED BY <1>1, PoolInvariance, PTL

(***************************************************************************)
(* The fetch of a block's prevouts.                                        *)
(***************************************************************************)

Scripts == Outpoint \cup {Coinbase}
Phases == {"idle", "workers", "failing", "inline", "parallel", "sequential", "done"}
Replies == {"none", "lost", "output", "absent", "error"}

--------------------------------------------------------------------------------
(* The pool.                                                                    *)

PoolTypes ==
  /\ parallel \in BOOLEAN /\ disabled \in BOOLEAN /\ broken \in BOOLEAN
  /\ created \in 0..MaxPools /\ pool \in 0..created /\ alive \subseteq 1..created
  /\ ready \in {"null", "pool", "none"}
  /\ closing \in {"open", "destroying", "closed"}

\* A pool is forgotten only when it has been destroyed, and none is made while one is
\* being destroyed: this is what keeps every thread within reach of a close.
DestroyedFirst ==
  /\ ready = "null" => pool = 0
  /\ phase = "failing" => pool \notin alive
  /\ closing = "destroying" => pool \notin alive /\ (ready # "null" \/ disabled)

PoolInv == PoolTypes /\ DestroyedFirst /\ NoOrphanPool

--------------------------------------------------------------------------------
(* The inputs of the transaction in progress.                                   *)

\* The inputs that spend an output.
Spending == {i \in Inputs : vin[i] # Coinbase}

LocalTypes ==
  /\ block \in Seq(Seq(Scripts))
  /\ phase \in Phases /\ (block = <<>> => phase = "idle")
  /\ cached \subseteq Outpoint /\ failed \subseteq Inputs
  /\ phase # "idle" => results \in [Inputs -> Scripts \cup {Null}]
  /\ payloads \in Seq(Spending) /\ fallback \in Seq(Spending)
  /\ replies \in [DOMAIN payloads -> Replies]
  /\ next \in 1..(Len(fallback) + 1) /\ loop \in [Loops -> Spending \cup {0}]
  /\ hits \in Nat /\ calls \in Nat

LookingUp == phase \in {"inline", "parallel", "sequential"}

\* Before the inline lookup nothing of it has happened.
BeforeLookup ==
  /\ phase \in {"idle", "workers", "failing"} =>
       fallback = <<>> /\ next = 1 /\ calls = 0 /\ failed = {}
  /\ ~LookingUp => loop = [w \in Loops |-> 0]

OneEach(s) == \A i, j \in DOMAIN s : s[i] = s[j] => i = j

\* An input is looked up at one place only, and the loops have taken different places.
OnePlaceEach ==
  /\ OneEach(payloads) /\ OneEach(fallback)
  /\ \A w \in Loops : loop[w] # 0 => \E k \in 1..(next - 1) : fallback[k] = loop[w]
  /\ NoInputTwice

Settled(i) ==
  \/ results[i] = vin[i]
  \/ results[i] = Null /\ (vin[i] = Coinbase \/ i \in failed)

\* What is not settled is waiting: for the pool, for a loop, or for a loop's call.
WaitsForPool(i) == \E k \in DOMAIN payloads : payloads[k] = i
WaitsForLoop(i) == \E k \in next..Len(fallback) : fallback[k] = i
WaitsForCall(i) == \E w \in Loops : loop[w] = i

NobodyForgotten ==
  \A i \in Inputs :
    /\ phase \in {"workers", "failing"} =>
         results[i] \in {vin[i], Null} /\ (Settled(i) \/ WaitsForPool(i))
    /\ LookingUp => Settled(i) \/ WaitsForLoop(i) \/ WaitsForCall(i)
    /\ phase = "done" => Settled(i)

\* What is counted and what waits to be, together, is what there is to count.
NobodyCountedTwice ==
  /\ phase \in {"workers", "failing"} => hits + Len(payloads) = Cardinality(Spending)
  /\ LookingUp => hits + calls + (Len(fallback) + 1 - next) = Cardinality(Spending)
  /\ phase = "done" => hits + calls = Cardinality(Spending)

LocalInv ==
  /\ LocalTypes
  /\ BeforeLookup
  /\ OnePlaceEach
  /\ NobodyForgotten
  /\ NobodyCountedTwice

FetchIInv == PoolInv /\ LocalInv

--------------------------------------------------------------------------------
(* The pool is never forgotten.                                                 *)

LEMMA PoolNext ==
  ASSUME PoolInv, phase \in Phases, [FetchNext]_fetchVars
  PROVE  PoolInv'
<1> USE DEF PoolInv, PoolTypes, DestroyedFirst, NoOrphanPool
<1>1. CASE Begin
  <2>1. UNCHANGED <<parallel, closing>> /\ phase' # "failing"
    BY <1>1 DEF Begin
  <2>2. CASE UNCHANGED poolVars
    BY <2>1, <2>2 DEF poolVars
  <2>3. CASE NeedsPool /\ created < MaxPools /\ created' = created + 1 /\ PoolStarts
    <3>1. created \in Nat /\ created' \in 1..MaxPools /\ pool' = created' /\ ready' = "pool"
      BY <2>3, PoolsAssumption DEF PoolStarts
    <3>2. pool = 0 /\ closing # "destroying"
      BY <2>3 DEF NeedsPool
    <3>3. alive' = alive \cup {pool'} /\ UNCHANGED <<disabled, broken>>
      BY <2>3 DEF PoolStarts
    <3>4. ~broken => alive = {}
      BY <3>1, <3>2
    <3>5. alive' \subseteq 1..created'
      BY <2>3, <3>1, <3>3
    <3> QED BY <2>1, <3>1, <3>2, <3>3, <3>4, <3>5
  <2>4. CASE NeedsPool /\ created < MaxPools /\ created' = created + 1 /\ PoolFails
    <3>1. created \in Nat /\ created' \in 1..MaxPools /\ pool' = 0 /\ ready' = "none"
      BY <2>4, PoolsAssumption DEF PoolFails
    <3>2. closing # "destroying" /\ disabled' = TRUE /\ broken' = TRUE
      BY <2>4 DEF NeedsPool, PoolFails
    <3>3. alive' \subseteq 1..created'
      BY <2>4, <3>1 DEF PoolFails
    <3> QED BY <2>1, <3>1, <3>2, <3>3
  <2> QED BY <1>1, <2>2, <2>3, <2>4 DEF Begin, GetPool
<1>2. ASSUME \/ \E i \in DOMAIN replies : WorkerSettles(i) \/ WorkerLoses(i)
             \/ WorkersDone \/ InlineDone \/ Return
             \/ \E w \in Loops : Take(w) \/ InlineAnswer(w)
             \/ \E o \in Outpoint : Expire(o)
      PROVE  UNCHANGED <<parallel, poolVars, closing>> /\ (phase' = "failing" => phase = "failing")
  BY <1>2 DEF WorkerSettles, WorkerLoses, WorkersDone, InlineDone, Return, Take, InlineAnswer, Expire, local
<1>3. CASE UNCHANGED <<parallel, poolVars, closing>> /\ (phase' = "failing" => phase = "failing")
  BY <1>3 DEF poolVars
<1>4. CASE PoolRejects
  BY <1>4 DEF PoolRejects
<1>5. CASE FailureHandled
  BY <1>5 DEF FailureHandled, ForgetPool
<1>6. CASE CloseBegins
  BY <1>6 DEF CloseBegins, local
<1>7. CASE CloseEnds
  BY <1>7 DEF CloseEnds, ForgetPool, local
<1>8. CASE UNCHANGED fetchVars
  BY <1>8 DEF fetchVars, poolVars, local
<1> QED BY <1>1, <1>2, <1>3, <1>4, <1>5, <1>6, <1>7, <1>8 DEF FetchNext, FetchStep

--------------------------------------------------------------------------------
(* Inputs in order.                                                             *)

LEMMA InputsFinite ==
  ASSUME block \in Seq(Seq(Scripts))
  PROVE  /\ vin \in Seq(Scripts) /\ Inputs = 1..Len(vin) /\ Inputs \subseteq Nat \ {0}
         /\ IsFiniteSet(Inputs)
<1>1. vin \in Seq(Scripts)
  BY DEF vin
<1>2. Inputs = 1..Len(vin) /\ Len(vin) \in Nat
  BY <1>1 DEF Inputs
<1>3. IsFiniteSet(1..Len(vin))
  BY <1>2, FS_Interval
<1>4. 1..Len(vin) \subseteq Nat \ {0}
  BY <1>2
<1> QED BY <1>1, <1>2, <1>3, <1>4

\* InOrder lists each member of a finite set of numbers once.
LEMMA InOrderLists ==
  ASSUME NEW S, S \subseteq Nat, IsFiniteSet(S), NEW s \in InOrder(S)
  PROVE  /\ s \in Seq(S) /\ Len(s) = Cardinality(S) /\ DOMAIN s = 1..Cardinality(S)
         /\ OneEach(s)
         /\ \A x \in S : \E k \in DOMAIN s : s[k] = x
<1> DEFINE n == Cardinality(S)
<1>1. n \in Nat
  BY FS_CardinalityType
<1>2. s \in [1..n -> S] /\ \A i, j \in 1..n : i < j => s[i] < s[j]
  BY DEF InOrder
<1> HIDE DEF n
<1>3. s \in Seq(S) /\ Len(s) = n /\ DOMAIN s = 1..n
  BY <1>1, <1>2
<1>4. \A i, j \in 1..n : s[i] = s[j] => i = j
  <2> SUFFICES ASSUME NEW i \in 1..n, NEW j \in 1..n, i # j PROVE s[i] # s[j]
    OBVIOUS
  <2>1. s[i] \in Nat /\ s[j] \in Nat
    BY <1>2
  <2>2. i < j \/ j < i
    BY <1>1
  <2>3. CASE i < j
    BY <1>2, <2>1, <2>3
  <2>4. CASE j < i
    BY <1>2, <2>1, <2>4
  <2> QED BY <2>2, <2>3, <2>4
<1>5. s \in Injection(1..n, S)
  BY <1>2, <1>4 DEF Injection, IsInjective
<1>6. Cardinality(1..n) = n
  BY <1>1, FS_Interval
<1>7. s \in Surjection(1..n, S)
  BY <1>5, <1>6, FS_Injection DEF n
<1>8. \A x \in S : \E k \in 1..n : s[k] = x
  BY <1>7 DEF Surjection
<1> QED BY <1>3, <1>4, <1>8 DEF OneEach, n

LEMMA NothingListedTwice == OneEach(<<>>)
BY DEF OneEach

\* Two disjoint parts of a finite set that make it up count what it counts.
LEMMA PartsCount ==
  ASSUME NEW S, IsFiniteSet(S), NEW A, NEW B, A \cup B = S, A \cap B = {}
  PROVE  /\ Cardinality(A) \in Nat /\ Cardinality(B) \in Nat
         /\ Cardinality(A) + Cardinality(B) = Cardinality(S)
<1>1. IsFiniteSet(A) /\ IsFiniteSet(B)
  BY FS_Subset
<1>2. Cardinality(A) \in Nat /\ Cardinality(B) \in Nat
  BY <1>1, FS_CardinalityType
<1>3. Cardinality(A \cup B) = Cardinality(A) + Cardinality(B) - Cardinality(A \cap B)
  BY <1>1, FS_Union
<1>4. Cardinality(A \cap B) = 0
  BY FS_EmptySet
<1> QED BY <1>2, <1>3, <1>4

\* As many places of a sequence without repetitions as inputs at them.
LEMMA PlacesCount ==
  ASSUME NEW X, NEW s \in Seq(X), OneEach(s), NEW D \in SUBSET DOMAIN s
  PROVE  /\ IsFiniteSet(D) /\ IsFiniteSet({s[i] : i \in D})
         /\ Cardinality({s[i] : i \in D}) = Cardinality(D)
<1> DEFINE T == {s[i] : i \in D}
           f == [i \in D |-> s[i]]
<1>1. IsFiniteSet(DOMAIN s)
  BY FS_Interval
<1>2. IsFiniteSet(D)
  BY <1>1, FS_Subset
<1>3. f \in [D -> T]
  OBVIOUS
<1>4. \A i, j \in D : f[i] = f[j] => i = j
  BY DEF OneEach
<1>5. \A t \in T : \E i \in D : f[i] = t
  OBVIOUS
<1> HIDE DEF f, T
<1>6. f \in Injection(D, T) /\ f \in Surjection(D, T)
  BY <1>3, <1>4, <1>5 DEF Injection, IsInjective, Surjection
<1>7. ExistsBijection(D, T)
  BY <1>6 DEF ExistsBijection, Bijection
<1>8. IsFiniteSet(T) /\ Cardinality(T) = Cardinality(D)
  BY <1>2, <1>7, FS_Bijection
<1> QED BY <1>2, <1>8 DEF T

--------------------------------------------------------------------------------
(* Beginning and settling.                                                      *)

LEMMA SpendingCounted ==
  ASSUME block \in Seq(Seq(Scripts))
  PROVE  IsFiniteSet(Spending) /\ Cardinality(Spending) \in Nat /\ Spending \subseteq Nat
<1>1. IsFiniteSet(Inputs) /\ Inputs \subseteq Nat
  BY InputsFinite
<1>2. Spending \subseteq Inputs
  BY DEF Spending
<1> QED BY <1>1, <1>2, FS_Subset, FS_CardinalityType

LEMMA InitFetchIInv == FetchInit => FetchIInv
<1> SUFFICES ASSUME FetchInit PROVE FetchIInv
  OBVIOUS
<1>1. PoolInv
  <2>1. PoolTypes
    <3>1. parallel \in BOOLEAN /\ disabled \in BOOLEAN /\ broken \in BOOLEAN
      BY Zenon DEF FetchInit
    <3>2. created \in 0..MaxPools /\ pool \in 0..created /\ alive \subseteq 1..created
      BY PoolsAssumption DEF FetchInit
    <3> QED BY <3>1, <3>2 DEF FetchInit, PoolTypes
  <2>2. DestroyedFirst /\ NoOrphanPool
    BY DEF FetchInit, DestroyedFirst, NoOrphanPool
  <2> QED BY <2>1, <2>2 DEF PoolInv
<1>2. LocalTypes
  <2>1. block \in Seq(Seq(Scripts))
    BY TransactionsAssumption DEF FetchInit, Scripts
  <2>2. loop \in [Loops -> Spending \cup {0}]
    BY DEF FetchInit
  <2>3. /\ payloads \in Seq(Spending) /\ fallback \in Seq(Spending) /\ next \in 1..(Len(fallback) + 1)
        /\ DOMAIN payloads = {}
    BY DEF FetchInit
  <2>4. replies \in [DOMAIN payloads -> Replies]
    BY <2>3 DEF FetchInit
  <2> QED BY <2>1, <2>2, <2>3, <2>4 DEF FetchInit, LocalTypes, Phases
<1>3. BeforeLookup
  BY DEF FetchInit, BeforeLookup
<1>4. OnePlaceEach
  <2>1. OneEach(payloads) /\ OneEach(fallback)
    BY NothingListedTwice DEF FetchInit
  <2> QED BY <2>1 DEF FetchInit, OnePlaceEach, NoInputTwice
<1>5. NobodyForgotten /\ NobodyCountedTwice
  BY DEF FetchInit, NobodyForgotten, NobodyCountedTwice, LookingUp
<1> QED BY <1>1, <1>2, <1>3, <1>4, <1>5 DEF FetchIInv, LocalInv

\* What leaves the fetch alone, and fills or empties only the cache, keeps it.
LEMMA LocalFrame ==
  ASSUME LocalInv, UNCHANGED local, cached' \subseteq Outpoint
  PROVE  LocalInv'
<1> USE DEF local, inline
<1>1. vin' = vin /\ Inputs' = Inputs /\ Spending' = Spending
  BY DEF vin, Inputs, Spending
<1>2. LocalTypes'
  BY <1>1 DEF LocalInv, LocalTypes
<1>3. BeforeLookup'
  BY DEF LocalInv, BeforeLookup, LookingUp
<1>4. OnePlaceEach'
  BY DEF LocalInv, OnePlaceEach, OneEach, NoInputTwice
<1>5. NobodyForgotten'
  BY <1>1 DEF LocalInv, NobodyForgotten, Settled, WaitsForPool, WaitsForLoop, WaitsForCall,
              LookingUp
<1>6. NobodyCountedTwice'
  BY <1>1 DEF LocalInv, NobodyCountedTwice, LookingUp
<1> QED BY <1>2, <1>3, <1>4, <1>5, <1>6 DEF LocalInv

LEMMA BeginLocal ==
  ASSUME LocalInv, Begin
  PROVE  LocalInv'
<1> DEFINE rest == {i \in Inputs : vin[i] # Coinbase /\ vin[i] \notin cached}
           found == {i \in Inputs : vin[i] \in cached}
<1>1. /\ vin = Head(block) /\ vin' = vin /\ Inputs' = Inputs /\ block' = block
      /\ block # <<>> /\ phase = "idle" /\ block \in Seq(Seq(Scripts)) /\ cached \subseteq Outpoint
  BY DEF Begin, LocalInv, LocalTypes, vin, Inputs
<1>2. /\ fallback = <<>> /\ next = 1 /\ calls = 0 /\ failed = {} /\ loop = [w \in Loops |-> 0]
  BY <1>1 DEF LocalInv, BeforeLookup, LookingUp
<1>3. /\ vin \in Seq(Scripts) /\ Inputs = 1..Len(vin) /\ Inputs \subseteq Nat
      /\ IsFiniteSet(Inputs)
  BY <1>1, InputsFinite
<1>4. /\ results' = [i \in Inputs |-> IF vin[i] \in cached THEN vin[i] ELSE Null]
      /\ hits' = Cardinality(found)
      /\ \E missing \in InOrder(rest) :
           \/ payloads' = missing /\ fallback' = <<>>
           \/ payloads' = <<>> /\ fallback' = missing
      /\ replies' = [i \in DOMAIN payloads' |-> "none"]
      /\ phase' = IF payloads' # <<>> THEN "workers" ELSE "inline"
      /\ UNCHANGED <<cached, next, loop, calls, failed>>
  BY <1>1 DEF Begin, inline, Inputs
<1>5. PICK missing \in InOrder(rest) :
        \/ payloads' = missing /\ fallback' = <<>>
        \/ payloads' = <<>> /\ fallback' = missing
  BY <1>4
<1>6. rest \subseteq Nat /\ IsFiniteSet(rest)
  BY <1>3, FS_Subset
<1>7. /\ missing \in Seq(rest) /\ Len(missing) = Cardinality(rest)
      /\ DOMAIN missing = 1..Cardinality(rest) /\ OneEach(missing)
      /\ \A x \in rest : \E k \in DOMAIN missing : missing[k] = x
  <2> HIDE DEF rest
  <2> QED BY <1>6, InOrderLists
<1>8. missing \in Seq(Spending) /\ Len(missing) \in Nat
  <2>1. rest \subseteq Spending
    BY DEF Spending
  <2> HIDE DEF rest
  <2> QED BY <1>7, <2>1
<1>9. Cardinality(found) \in Nat /\ Cardinality(found) + Len(missing) = Cardinality(Spending)
  <2>1. found \cup rest = Spending /\ found \cap rest = {}
    BY <1>1, OutpointAssumption DEF Spending
  <2>2. IsFiniteSet(Spending)
    BY <1>1, SpendingCounted
  <2> HIDE DEF found, rest
  <2> QED BY <1>7, <2>1, <2>2, PartsCount
<1>10. Spending' = Spending
  BY <1>1 DEF Spending
<1>11. \A i \in Inputs : vin[i] \in Scripts
  BY <1>3
<1>12. \A i \in Inputs : Settled(i)' \/ \E k \in DOMAIN missing : missing[k] = i
  <2> SUFFICES ASSUME NEW i \in Inputs, i \notin rest PROVE Settled(i)'
    BY <1>7
  <2>1. vin[i] \in cached \/ vin[i] = Coinbase
    OBVIOUS
  <2>2. results'[i] = IF vin[i] \in cached THEN vin[i] ELSE Null
    BY <1>4
  <2> QED BY <1>1, <2>1, <2>2 DEF Settled
<1>13. results' \in [Inputs -> Scripts \cup {Null}]
  BY <1>4, <1>11
<1> HIDE DEF found, rest
<1>14. CASE payloads' = missing /\ fallback' = <<>>
  <2>1. LocalTypes'
    <3>1. replies' \in [DOMAIN payloads' -> Replies]
      BY <1>4 DEF Replies
    <3>2. next' \in 1..(Len(fallback') + 1)
      BY <1>2, <1>4, <1>14
    <3>3. loop' \in [Loops -> Spending' \cup {0}]
      BY <1>2, <1>4
    <3>4. payloads' \in Seq(Spending') /\ fallback' \in Seq(Spending')
      BY <1>8, <1>10, <1>14
    <3>5. hits' \in Nat /\ calls' \in Nat /\ failed' \subseteq Inputs'
      BY <1>2, <1>4, <1>9
    <3>6. phase' \in Phases
      BY <1>4 DEF Phases
    <3> QED BY <1>1, <1>4, <1>13, <3>1, <3>2, <3>3, <3>4, <3>5, <3>6 DEF LocalTypes
  <2>2. BeforeLookup'
    BY <1>2, <1>4, <1>14 DEF BeforeLookup
  <2>3. OnePlaceEach'
    <3>1. OneEach(payloads)' /\ OneEach(fallback)'
      BY <1>7, <1>14, NothingListedTwice DEF OneEach
    <3> QED BY <1>2, <1>4, <3>1 DEF OnePlaceEach, NoInputTwice
  <2>4. NobodyForgotten'
    <3>1. CASE missing = <<>>
      <4>1. \A i \in Inputs : Settled(i)'
        BY <1>12, <3>1
      <4>2. phase' = "inline"
        BY <1>4, <1>14, <3>1
      <4> QED BY <1>1, <4>1, <4>2 DEF NobodyForgotten
    <3>2. CASE missing # <<>>
      <4>1. phase' = "workers"
        BY <1>4, <1>14, <3>2
      <4>2. \A i \in Inputs : Settled(i)' \/ WaitsForPool(i)'
        BY <1>12, <1>14 DEF WaitsForPool
      <4>3. \A i \in Inputs : results'[i] \in {vin'[i], Null}
        BY <1>1, <1>4
      <4> QED BY <1>1, <4>1, <4>2, <4>3 DEF NobodyForgotten, LookingUp
    <3> QED BY <3>1, <3>2
  <2>5. NobodyCountedTwice'
    <3>1. hits' + Len(missing) = Cardinality(Spending)
      BY <1>4, <1>9
    <3>2. CASE missing = <<>>
      <4>1. /\ phase' = "inline" /\ calls' = 0 /\ next' = 1 /\ Len(fallback') = 0
            /\ Len(missing) = 0
        BY <1>2, <1>4, <1>14, <3>2
      <4>2. hits' \in Nat
        BY <1>4, <1>9
      <4> QED BY <1>10, <3>1, <4>1, <4>2 DEF NobodyCountedTwice, LookingUp
    <3>3. CASE missing # <<>>
      <4>1. phase' = "workers"
        BY <1>4, <1>14, <3>3
      <4> QED BY <1>10, <1>14, <3>1, <4>1 DEF NobodyCountedTwice, LookingUp
    <3> QED BY <3>2, <3>3
  <2> QED BY <2>1, <2>2, <2>3, <2>4, <2>5 DEF LocalInv
<1>15. CASE payloads' = <<>> /\ fallback' = missing
  <2>0. phase' = "inline"
    BY <1>4, <1>15
  <2>1. LocalTypes'
    <3>1. replies' \in [DOMAIN payloads' -> Replies]
      BY <1>4 DEF Replies
    <3>2. next' \in 1..(Len(fallback') + 1)
      BY <1>2, <1>4, <1>8, <1>15
    <3>3. loop' \in [Loops -> Spending' \cup {0}]
      BY <1>2, <1>4
    <3>4. payloads' \in Seq(Spending') /\ fallback' \in Seq(Spending')
      BY <1>8, <1>10, <1>15
    <3>5. hits' \in Nat /\ calls' \in Nat /\ failed' \subseteq Inputs'
      BY <1>2, <1>4, <1>9
    <3> QED BY <1>1, <1>4, <1>13, <2>0, <3>1, <3>2, <3>3, <3>4, <3>5 DEF LocalTypes, Phases
  <2>2. BeforeLookup'
    BY <2>0 DEF BeforeLookup, LookingUp
  <2>3. OnePlaceEach'
    <3>1. OneEach(payloads)' /\ OneEach(fallback)'
      BY <1>7, <1>15, NothingListedTwice DEF OneEach
    <3> QED BY <1>2, <1>4, <3>1 DEF OnePlaceEach, NoInputTwice
  <2>4. NobodyForgotten'
    <3>1. DOMAIN missing = 1..Len(fallback') /\ next' = 1
      BY <1>2, <1>4, <1>7, <1>15
    <3>2. \A i \in Inputs : Settled(i)' \/ WaitsForLoop(i)'
      BY <1>12, <1>15, <3>1 DEF WaitsForLoop
    <3> QED BY <1>1, <2>0, <3>2 DEF NobodyForgotten
  <2>5. NobodyCountedTwice'
    <3>1. hits' + Len(missing) = Cardinality(Spending) /\ hits' \in Nat
      BY <1>4, <1>9
    <3>2. calls' = 0 /\ next' = 1
      BY <1>2, <1>4
    <3>3. hits' + calls' + (Len(fallback') + 1 - next') = Cardinality(Spending)
      BY <1>8, <1>15, <3>1, <3>2
    <3> QED BY <1>10, <2>0, <3>3 DEF NobodyCountedTwice, LookingUp
  <2> QED BY <2>1, <2>2, <2>3, <2>4, <2>5 DEF LocalInv
<1> QED BY <1>5, <1>14, <1>15

LEMMA SettlesLocal ==
  ASSUME LocalInv, NEW k \in DOMAIN replies, WorkerSettles(k) \/ WorkerLoses(k)
  PROVE  LocalInv'
<1>1. /\ vin' = vin /\ Inputs' = Inputs /\ Spending' = Spending
      /\ UNCHANGED <<cached, block, phase, results, payloads, fallback, next, loop, hits, calls,
                     failed>>
  BY DEF WorkerSettles, WorkerLoses, inline, vin, Inputs, Spending
<1>2. LocalTypes'
  <2>1. PICK a \in Replies : replies' = [replies EXCEPT ![k] = a]
    BY DEF WorkerSettles, WorkerLoses, Replies
  <2>2. replies' \in [DOMAIN payloads -> Replies]
    BY <2>1 DEF LocalInv, LocalTypes
  <2> QED BY <1>1, <2>2 DEF LocalInv, LocalTypes
<1>3. BeforeLookup' /\ OnePlaceEach'
  BY <1>1 DEF LocalInv, BeforeLookup, LookingUp, OnePlaceEach, OneEach, NoInputTwice
<1>4. NobodyForgotten'
  BY <1>1 DEF LocalInv, NobodyForgotten, Settled, WaitsForPool, WaitsForLoop, WaitsForCall,
              LookingUp
<1>5. NobodyCountedTwice'
  BY <1>1 DEF LocalInv, NobodyCountedTwice, LookingUp
<1> QED BY <1>2, <1>3, <1>4, <1>5 DEF LocalInv

LEMMA WorkersDoneLocal ==
  ASSUME LocalInv, WorkersDone
  PROVE  LocalInv'
<1> DEFINE found == {i \in DOMAIN replies : replies[i] = "output"}
           absent == {i \in DOMAIN replies : replies[i] = "absent"}
           erred == DOMAIN replies \ Answered
           back == {payloads[i] : i \in erred}
<1>1. /\ phase = "workers" /\ phase' = "inline" /\ block # <<>>
      /\ \A i \in DOMAIN replies : replies[i] \notin {"none", "lost"}
      /\ vin' = vin /\ Inputs' = Inputs /\ Spending' = Spending
      /\ UNCHANGED <<block, payloads, replies, next, loop, hits>>
  BY DEF WorkersDone, Unsettled, inline, vin, Inputs, Spending, LocalInv, LocalTypes
<1>2. /\ fallback = <<>> /\ next = 1 /\ calls = 0 /\ failed = {} /\ loop = [w \in Loops |-> 0]
  BY <1>1 DEF LocalInv, BeforeLookup, LookingUp
<1>3. /\ block \in Seq(Seq(Scripts)) /\ payloads \in Seq(Spending) /\ cached \subseteq Outpoint
      /\ replies \in [DOMAIN payloads -> Replies] /\ DOMAIN replies = DOMAIN payloads
      /\ results \in [Inputs -> Scripts \cup {Null}]
      /\ hits \in Nat /\ OneEach(payloads)
  BY <1>1 DEF LocalInv, LocalTypes, OnePlaceEach
<1>4. vin \in Seq(Scripts) /\ Inputs = 1..Len(vin) /\ Inputs \subseteq Nat /\ IsFiniteSet(Inputs)
  BY <1>3, InputsFinite
<1>5. \A j \in Inputs : results'[j] = IF \E i \in found : payloads[i] = j THEN vin[j]
                                                                       ELSE results[j]
  <2> SUFFICES ASSUME NEW j \in Inputs
               PROVE  results'[j] = IF \E i \in found : payloads[i] = j THEN vin[j]
                                                                       ELSE results[j]
    OBVIOUS
  <2>1. results'[j] = IF \E i \in found : payloads[i] = j
                        THEN vin[payloads[CHOOSE i \in found : payloads[i] = j]]
                        ELSE results[j]
    BY DEF WorkersDone, Slot
  <2> HIDE DEF found
  <2>2. CASE \E i \in found : payloads[i] = j
    <3>1. payloads[CHOOSE i \in found : payloads[i] = j] = j
      BY <2>2
    <3> QED BY <2>1, <2>2, <3>1
  <2> QED BY <2>1, <2>2
<1>6. results' \in [Inputs -> Scripts \cup {Null}]
  <2>1. DOMAIN results' = Inputs /\ results' = [j \in Inputs |-> results'[j]]
    BY DEF WorkersDone
  <2>2. \A j \in Inputs : results'[j] \in Scripts \cup {Null}
    <3>1. \A j \in Inputs : vin[j] \in Scripts /\ results[j] \in Scripts \cup {Null}
      BY <1>3, <1>4
    <3>2. \A j \in Inputs : results'[j] = vin[j] \/ results'[j] = results[j]
      BY <1>5
    <3> QED BY <3>1, <3>2
  <2> QED BY <2>1, <2>2
<1>7. failed' = {payloads[i] : i \in absent}
  BY DEF WorkersDone
<1>8. PICK again \in InOrder(back) : fallback' = fallback \o again
  BY DEF WorkersDone
<1>9. back \subseteq Spending /\ Spending \subseteq Inputs
  BY <1>3 DEF Spending
<1>10. /\ again \in Seq(back) /\ Len(again) = Cardinality(back)
       /\ DOMAIN again = 1..Cardinality(back) /\ OneEach(again)
       /\ \A x \in back : \E k \in DOMAIN again : again[k] = x
  <2> HIDE DEF back
  <2>1. back \subseteq Nat /\ IsFiniteSet(back)
    BY <1>4, <1>9, FS_Subset
  <2> QED BY <2>1, InOrderLists
<1>11. again \in Seq(Spending) /\ Len(again) \in Nat
  <2> HIDE DEF back
  <2> QED BY <1>9, <1>10
<1>12. fallback' = again
  BY <1>2, <1>8, <1>11
<1>13. calls' = Cardinality(Answered)
       /\ Cardinality(Answered) \in Nat /\ Cardinality(Answered) + Len(again) = Len(payloads)
  <2>1. Answered \cup erred = DOMAIN payloads /\ Answered \cap erred = {}
    BY <1>3 DEF Answered
  <2>2. IsFiniteSet(DOMAIN payloads) /\ Cardinality(DOMAIN payloads) = Len(payloads)
    <3>1. DOMAIN payloads = 1..Len(payloads) /\ Len(payloads) \in Nat
      BY <1>3
    <3>2. \A n \in Nat : IsFiniteSet(1..n) /\ Cardinality(1..n) = n
      BY FS_Interval
    <3> QED BY <3>1, <3>2
  <2>3. Cardinality(back) = Cardinality(erred)
    <3>1. erred \in SUBSET DOMAIN payloads
      BY <1>3
    <3> HIDE DEF erred
    <3> QED BY <1>3, <3>1, PlacesCount
  <2>4. /\ Cardinality(Answered) \in Nat
        /\ Cardinality(Answered) + Cardinality(erred) = Len(payloads)
    <3> HIDE DEF erred
    <3> QED BY <2>1, <2>2, PartsCount
  <2>5. calls' = calls + Cardinality(Answered)
    BY DEF WorkersDone, Counted
  <2> HIDE DEF back, erred
  <2> QED BY <1>2, <1>10, <2>3, <2>4, <2>5
<1>14. LocalTypes'
  <2>1. cached' \subseteq Outpoint
    <3>1. \A i \in found : vin[payloads[i]] \in Outpoint
      BY <1>3, <1>4 DEF Spending, Scripts
    <3> QED BY <1>3, <3>1 DEF WorkersDone
  <2>2. failed' \subseteq Inputs'
    BY <1>1, <1>3, <1>7, <1>9
  <2>3. next' \in 1..(Len(fallback') + 1)
    BY <1>1, <1>2, <1>11, <1>12
  <2>4. loop' \in [Loops -> Spending' \cup {0}]
    BY <1>1, <1>2
  <2>5. calls' \in Nat /\ hits' \in Nat
    BY <1>1, <1>3, <1>13
  <2> HIDE DEF found, absent, erred, back
  <2> QED BY <1>1, <1>3, <1>6, <1>11, <1>12, <2>1, <2>2, <2>3, <2>4, <2>5 DEF LocalTypes, Phases
<1>15. BeforeLookup'
  BY <1>1 DEF BeforeLookup, LookingUp
<1>16. OnePlaceEach'
  <2>1. OneEach(payloads)' /\ OneEach(fallback)'
    BY <1>1, <1>3, <1>10, <1>12 DEF OneEach
  <2> QED BY <1>1, <1>2, <2>1 DEF OnePlaceEach, NoInputTwice
<1>17. ASSUME NEW j \in Inputs PROVE Settled(j)' \/ WaitsForLoop(j)'
  <2>1. results[j] \in {vin[j], Null} /\ (Settled(j) \/ WaitsForPool(j))
    BY <1>1 DEF LocalInv, NobodyForgotten
  <2>2. CASE \E i \in found : payloads[i] = j
    BY <1>1, <1>5, <2>2 DEF Settled
  <2>3. CASE Settled(j) /\ ~\E i \in found : payloads[i] = j
    <3>1. results'[j] = results[j]
      BY <1>5, <2>3
    <3> QED BY <1>1, <1>2, <2>3, <3>1 DEF Settled
  <2>4. CASE WaitsForPool(j) /\ ~\E i \in found : payloads[i] = j
    <3>1. PICK k \in DOMAIN payloads : payloads[k] = j
      BY <2>4 DEF WaitsForPool
    <3>2. k \in absent \/ k \in erred
      BY <1>1, <1>3, <2>4, <3>1 DEF Answered, Replies
    <3>3. CASE k \in absent
      <4>1. j \in failed'
        BY <1>7, <3>1, <3>3
      <4>2. results'[j] = results[j]
        BY <1>5, <2>4
      <4> QED BY <1>1, <2>1, <4>1, <4>2 DEF Settled
    <3>4. CASE k \in erred
      <4>1. j \in back
        BY <3>1, <3>4
      <4>2. PICK m \in DOMAIN again : again[m] = j
        BY <1>10, <4>1
      <4>3. m \in next'..Len(fallback')
        BY <1>1, <1>2, <1>11, <1>12, <4>2
      <4> QED BY <1>12, <4>2, <4>3 DEF WaitsForLoop
    <3> QED BY <3>2, <3>3, <3>4
  <2> QED BY <2>1, <2>2, <2>3, <2>4
<1>18. NobodyForgotten'
  BY <1>1, <1>17 DEF NobodyForgotten
<1>19. NobodyCountedTwice'
  <2>1. hits + Len(payloads) = Cardinality(Spending)
    BY <1>1 DEF LocalInv, NobodyCountedTwice
  <2>2. calls' + Len(again) = Len(payloads) /\ calls' \in Nat
    BY <1>13
  <2>3. next' = 1 /\ hits' = hits /\ hits \in Nat
    BY <1>1, <1>2, <1>3
  <2>4. Len(fallback') = Len(again) /\ Len(again) \in Nat /\ Len(payloads) \in Nat
    BY <1>3, <1>11, <1>12
  <2>5. hits' + calls' + (Len(fallback') + 1 - next') = Cardinality(Spending)
    <3>1. hits' + calls' + (Len(fallback') + 1 - next') = hits + (calls' + Len(again))
      <4> HIDE DEF found, absent, erred, back
      <4> QED BY <2>2, <2>3, <2>4
    <3> QED BY <2>1, <2>2, <3>1
  <2> QED BY <1>1, <2>5 DEF NobodyCountedTwice
<1> QED BY <1>14, <1>15, <1>16, <1>18, <1>19 DEF LocalInv

LEMMA PoolRejectsLocal ==
  ASSUME LocalInv, PoolRejects
  PROVE  LocalInv'
<1>1. /\ phase = "workers" /\ phase' = "failing"
      /\ vin' = vin /\ Inputs' = Inputs /\ Spending' = Spending
      /\ UNCHANGED <<cached, block, results, payloads, replies, fallback, next, loop, hits, calls,
                     failed>>
  BY DEF PoolRejects, inline, vin, Inputs, Spending
<1>2. LocalTypes'
  BY <1>1 DEF LocalInv, LocalTypes, Phases
<1>3. BeforeLookup' /\ OnePlaceEach'
  BY <1>1 DEF LocalInv, BeforeLookup, LookingUp, OnePlaceEach, OneEach, NoInputTwice
<1>4. NobodyForgotten'
  BY <1>1 DEF LocalInv, NobodyForgotten, Settled, WaitsForPool, LookingUp
<1>5. NobodyCountedTwice'
  BY <1>1 DEF LocalInv, NobodyCountedTwice, LookingUp
<1> QED BY <1>2, <1>3, <1>4, <1>5 DEF LocalInv

LEMMA FailureLocal ==
  ASSUME LocalInv, FailureHandled
  PROVE  LocalInv'
<1>1. /\ phase = "failing" /\ phase' = "inline"
      /\ vin' = vin /\ Inputs' = Inputs /\ Spending' = Spending
      /\ UNCHANGED <<cached, block, results, payloads, replies, next, loop, hits, calls, failed>>
  BY DEF FailureHandled, inline, vin, Inputs, Spending
<1>2. /\ fallback = <<>> /\ next = 1 /\ calls = 0 /\ failed = {} /\ loop = [w \in Loops |-> 0]
  BY <1>1 DEF LocalInv, BeforeLookup, LookingUp
<1>3. payloads \in Seq(Spending) /\ OneEach(payloads) /\ hits \in Nat
  BY DEF LocalInv, LocalTypes, OnePlaceEach
<1>4. fallback' = payloads
  BY <1>2, <1>3 DEF FailureHandled
<1>5. LocalTypes'
  <2>1. next' \in 1..(Len(fallback') + 1)
    BY <1>1, <1>2, <1>3, <1>4
  <2> QED BY <1>1, <1>4, <2>1 DEF LocalInv, LocalTypes, Phases
<1>6. BeforeLookup'
  BY <1>1 DEF BeforeLookup, LookingUp
<1>7. OnePlaceEach'
  <2>1. OneEach(payloads)' /\ OneEach(fallback)'
    BY <1>1, <1>3, <1>4 DEF OneEach
  <2> QED BY <1>1, <1>2, <2>1 DEF OnePlaceEach, NoInputTwice
<1>8. NobodyForgotten'
  <2>1. ASSUME NEW j \in Inputs PROVE Settled(j)' \/ WaitsForLoop(j)'
    <3>1. Settled(j) \/ WaitsForPool(j)
      BY <1>1 DEF LocalInv, NobodyForgotten
    <3>2. Settled(j) => Settled(j)'
      BY <1>1 DEF Settled
    <3>3. DOMAIN payloads = next'..Len(fallback')
      BY <1>1, <1>2, <1>3, <1>4
    <3>4. WaitsForPool(j) => WaitsForLoop(j)'
      BY <1>4, <3>3 DEF WaitsForPool, WaitsForLoop
    <3> QED BY <3>1, <3>2, <3>4
  <2> QED BY <1>1, <2>1 DEF NobodyForgotten
<1>9. NobodyCountedTwice'
  <2>1. hits + Len(payloads) = Cardinality(Spending)
    BY <1>1 DEF LocalInv, NobodyCountedTwice
  <2>2. hits' + calls' + (Len(fallback') + 1 - next') = Cardinality(Spending)
    BY <1>1, <1>2, <1>3, <1>4, <2>1
  <2> QED BY <1>1, <2>2 DEF NobodyCountedTwice
<1> QED BY <1>5, <1>6, <1>7, <1>8, <1>9 DEF LocalInv

--------------------------------------------------------------------------------
(* The inline lookup.                                                           *)

LEMMA TakeLocal ==
  ASSUME LocalInv, NEW w \in Loops, Take(w)
  PROVE  LocalInv'
<1> DEFINE j == fallback[next]
<1>1. /\ LookingUp /\ phase' \in {"parallel", "sequential"} /\ LookingUp'
      /\ next <= Len(fallback) /\ loop[w] = 0 /\ next' = next + 1
      /\ vin' = vin /\ Inputs' = Inputs /\ Spending' = Spending
      /\ UNCHANGED <<cached, block, payloads, replies, fallback, failed>>
  <2>1. phase' \in {"parallel", "sequential"}
    BY DEF Take
  <2> QED BY <2>1 DEF Take, Advance, vin, Inputs, Spending, LookingUp
<1>2. /\ block \in Seq(Seq(Scripts)) /\ block # <<>>
      /\ fallback \in Seq(Spending) /\ OneEach(fallback)
      /\ results \in [Inputs -> Scripts \cup {Null}] /\ hits \in Nat /\ calls \in Nat
      /\ next \in 1..Len(fallback) /\ next \in Nat /\ Len(fallback) \in Nat
      /\ loop \in [Loops -> Spending \cup {0}]
  <2>1. phase # "idle" /\ next \in 1..(Len(fallback) + 1)
    BY <1>1 DEF LookingUp, LocalInv, LocalTypes
  <2> QED BY <1>1, <2>1 DEF LocalInv, LocalTypes, OnePlaceEach
<1>3. j \in Spending /\ j \in Inputs /\ j # 0
  <2>1. j \in Spending
    BY <1>2
  <2>2. Inputs \subseteq Nat \ {0}
    BY <1>2, InputsFinite
  <2> QED BY <2>1, <2>2 DEF Spending
<1>4. vin[j] \in Scripts
  BY <1>2, <1>3, InputsFinite
<1>5. next' \in 1..(Len(fallback') + 1)
  BY <1>1, <1>2
<1>6. BeforeLookup'
  BY <1>1 DEF BeforeLookup, LookingUp
<1>7. OneEach(payloads)' /\ OneEach(fallback)'
  BY <1>1 DEF LocalInv, OnePlaceEach, OneEach
<1>8. \A v \in Loops : loop[v] # 0 => \E k \in 1..(next - 1) : fallback[k] = loop[v]
  BY DEF LocalInv, OnePlaceEach
<1>9. \A i \in Inputs : Settled(i) \/ WaitsForLoop(i) \/ WaitsForCall(i)
  BY <1>1 DEF LocalInv, NobodyForgotten
<1>10. \A i \in Inputs : WaitsForLoop(i) => i = j \/ WaitsForLoop(i)'
  <2> SUFFICES ASSUME NEW i \in Inputs, NEW k \in next..Len(fallback), fallback[k] = i, i # j
               PROVE  WaitsForLoop(i)'
    BY DEF WaitsForLoop
  <2>1. k \in next'..Len(fallback')
    BY <1>1, <1>2
  <2> QED BY <1>1, <2>1 DEF WaitsForLoop
<1>11. hits + calls + (Len(fallback) + 1 - next) = Cardinality(Spending)
  BY <1>1 DEF LocalInv, NobodyCountedTwice
<1>12. CASE vin[j] \in cached
  <2>1. /\ results' = [results EXCEPT ![j] = vin[j]] /\ hits' = hits + 1
        /\ UNCHANGED <<loop, calls>>
    BY <1>1, <1>12 DEF Take
  <2>2. LocalTypes'
    <3>1. results' \in [Inputs -> Scripts \cup {Null}]
      BY <1>2, <1>4, <2>1
    <3>2. phase' # "idle" /\ phase' \in Phases
      BY <1>1 DEF Phases
    <3>3. hits' \in Nat
      BY <1>2, <2>1
    <3> QED BY <1>1, <1>2, <1>5, <2>1, <3>1, <3>2, <3>3 DEF LocalInv, LocalTypes
  <2>3. OnePlaceEach'
    <3>1. ASSUME NEW v \in Loops, loop[v] # 0
          PROVE  \E k \in 1..(next' - 1) : fallback[k] = loop[v]
      <4>1. 1..(next - 1) \subseteq 1..(next' - 1)
        BY <1>1, <1>2
      <4> QED BY <1>8, <3>1, <4>1
    <3> QED BY <1>1, <1>7, <2>1, <3>1 DEF LocalInv, OnePlaceEach, NoInputTwice
  <2>4. NobodyForgotten'
    <3>1. ASSUME NEW i \in Inputs
          PROVE  Settled(i)' \/ WaitsForLoop(i)' \/ WaitsForCall(i)'
      <4>1. CASE i = j
        <5>1. results'[i] = vin'[i]
          BY <1>1, <1>2, <2>1, <4>1
        <5> QED BY <5>1 DEF Settled
      <4>2. CASE i # j
        <5>1. results'[i] = results[i]
          BY <1>2, <2>1, <4>2
        <5>2. Settled(i) => Settled(i)'
          BY <1>1, <5>1 DEF Settled
        <5>3. WaitsForCall(i) => WaitsForCall(i)'
          BY <2>1 DEF WaitsForCall
        <5> QED BY <1>9, <1>10, <4>2, <5>2, <5>3
      <4> QED BY <4>1, <4>2
    <3> QED BY <1>1, <3>1 DEF NobodyForgotten, LookingUp
  <2>5. NobodyCountedTwice'
    <3>1. hits' + calls' + (Len(fallback') + 1 - next') = Cardinality(Spending)
      BY <1>1, <1>2, <1>11, <2>1
    <3> QED BY <1>1, <3>1 DEF NobodyCountedTwice, LookingUp
  <2> QED BY <1>6, <2>2, <2>3, <2>4, <2>5 DEF LocalInv
<1>13. CASE vin[j] \notin cached
  <2>1. /\ loop' = [loop EXCEPT ![w] = j] /\ calls' = calls + 1
        /\ UNCHANGED <<results, hits>>
    BY <1>1, <1>13 DEF Take
  <2>2. LocalTypes'
    <3>1. loop' \in [Loops -> Spending \cup {0}]
      BY <1>2, <1>3, <2>1
    <3>2. phase' # "idle" /\ phase' \in Phases
      BY <1>1 DEF Phases
    <3>3. calls' \in Nat
      BY <1>2, <2>1
    <3> QED BY <1>1, <1>2, <1>5, <2>1, <3>1, <3>2, <3>3 DEF LocalInv, LocalTypes
  <2>3. OnePlaceEach'
    <3>1. ASSUME NEW v \in Loops, loop'[v] # 0
          PROVE  \E k \in 1..(next' - 1) : fallback[k] = loop'[v]
      <4>1. CASE v = w
        <5>1. next \in 1..(next' - 1) /\ loop'[v] = fallback[next]
          BY <1>1, <1>2, <2>1, <4>1
        <5> QED BY <5>1
      <4>2. CASE v # w
        <5>1. 1..(next - 1) \subseteq 1..(next' - 1) /\ loop'[v] = loop[v]
          BY <1>1, <1>2, <2>1, <4>2
        <5> QED BY <1>8, <3>1, <5>1
      <4> QED BY <4>1, <4>2
    <3>2. ASSUME NEW v \in Loops, loop[v] # 0 PROVE loop[v] # j
      <4>1. PICK k \in 1..(next - 1) : fallback[k] = loop[v]
        BY <1>8, <3>2
      <4>2. k \in DOMAIN fallback /\ next \in DOMAIN fallback /\ k # next
        BY <1>2
      <4> QED BY <1>2, <4>1, <4>2 DEF OneEach
    <3>3. NoInputTwice'
      <4> SUFFICES ASSUME NEW u \in Loops, NEW v \in Loops, u # v, loop'[u] # 0
                   PROVE  loop'[u] # loop'[v]
        BY DEF NoInputTwice
      <4>1. CASE u # w /\ v # w
        BY <1>2, <2>1, <4>1 DEF LocalInv, OnePlaceEach, NoInputTwice
      <4>2. CASE u = w
        <5>1. loop'[u] = j /\ loop'[v] = loop[v]
          BY <1>2, <2>1, <4>2
        <5> QED BY <1>3, <3>2, <5>1
      <4>3. CASE v = w
        <5>1. loop'[v] = j /\ loop'[u] = loop[u]
          BY <1>2, <2>1, <4>3
        <5> QED BY <3>2, <5>1
      <4> QED BY <4>1, <4>2, <4>3
    <3> QED BY <1>1, <1>7, <3>1, <3>3 DEF OnePlaceEach
  <2>4. NobodyForgotten'
    <3>1. ASSUME NEW i \in Inputs
          PROVE  Settled(i)' \/ WaitsForLoop(i)' \/ WaitsForCall(i)'
      <4>1. CASE i = j
        <5>1. loop'[w] = i
          BY <1>2, <2>1, <4>1
        <5> QED BY <5>1 DEF WaitsForCall
      <4>2. CASE i # j
        <5>1. Settled(i) => Settled(i)'
          BY <1>1, <2>1 DEF Settled
        <5>2. WaitsForCall(i) => WaitsForCall(i)'
          <6> SUFFICES ASSUME NEW v \in Loops, loop[v] = i PROVE WaitsForCall(i)'
            BY DEF WaitsForCall
          <6>1. Inputs \subseteq Nat \ {0}
            BY <1>2, InputsFinite
          <6>2. v # w
            BY <1>1, <6>1
          <6>3. loop'[v] = i
            BY <1>2, <2>1, <6>2
          <6> QED BY <6>3 DEF WaitsForCall
        <5> QED BY <1>9, <1>10, <4>2, <5>1, <5>2
      <4> QED BY <4>1, <4>2
    <3> QED BY <1>1, <3>1 DEF NobodyForgotten, LookingUp
  <2>5. NobodyCountedTwice'
    <3>1. hits' + calls' + (Len(fallback') + 1 - next') = Cardinality(Spending)
      BY <1>1, <1>2, <1>11, <2>1
    <3> QED BY <1>1, <3>1 DEF NobodyCountedTwice, LookingUp
  <2> QED BY <1>6, <2>2, <2>3, <2>4, <2>5 DEF LocalInv
<1> QED BY <1>12, <1>13

LEMMA AnswerLocal ==
  ASSUME LocalInv, NEW w \in Loops, InlineAnswer(w)
  PROVE  LocalInv'
<1> DEFINE j == loop[w]
<1>1. /\ j # 0 /\ loop' = [loop EXCEPT ![w] = 0]
      /\ vin' = vin /\ Inputs' = Inputs /\ Spending' = Spending
      /\ UNCHANGED <<block, phase, payloads, replies, fallback, next, hits, calls>>
  BY DEF InlineAnswer, vin, Inputs, Spending
<1>2. LookingUp /\ LookingUp'
  <2>1. LookingUp
    BY <1>1 DEF LocalInv, BeforeLookup
  <2> QED BY <1>1, <2>1 DEF LookingUp
<1>3. /\ block \in Seq(Seq(Scripts)) /\ block # <<>> /\ phase # "idle"
      /\ results \in [Inputs -> Scripts \cup {Null}] /\ failed \subseteq Inputs
      /\ loop \in [Loops -> Spending \cup {0}] /\ cached \subseteq Outpoint
  BY <1>2 DEF LocalInv, LocalTypes, LookingUp
<1>4. j \in Spending /\ j \in Inputs
  BY <1>1, <1>3 DEF Spending
<1>5. vin[j] \in Scripts /\ vin[j] # Coinbase /\ Inputs \subseteq Nat \ {0}
  BY <1>3, <1>4, InputsFinite DEF Spending
<1>6. \/ results' = [results EXCEPT ![j] = vin[j]] /\ cached' = cached \cup {vin[j]}
         /\ failed' = failed
      \/ results' = [results EXCEPT ![j] = Null] /\ failed' = failed \cup {j}
         /\ cached' = cached
  BY DEF InlineAnswer
<1>7. LocalTypes'
  <2>1. results' \in [Inputs -> Scripts \cup {Null}]
    BY <1>3, <1>5, <1>6
  <2>2. cached' \subseteq Outpoint /\ failed' \subseteq Inputs
    BY <1>3, <1>4, <1>5, <1>6 DEF Scripts
  <2>3. loop' \in [Loops -> Spending \cup {0}]
    BY <1>1, <1>3
  <2> QED BY <1>1, <2>1, <2>2, <2>3 DEF LocalInv, LocalTypes
<1>8. BeforeLookup'
  BY <1>1, <1>2 DEF BeforeLookup, LookingUp
<1>9. OnePlaceEach'
  <2>1. \A v \in Loops : loop'[v] # 0 => loop'[v] = loop[v] /\ loop[v] # 0
    BY <1>1, <1>3
  <2>2. OneEach(payloads)' /\ OneEach(fallback)'
    BY <1>1 DEF LocalInv, OnePlaceEach, OneEach
  <2>3. \A v \in Loops : loop'[v] # 0 => \E k \in 1..(next' - 1) : fallback'[k] = loop'[v]
    BY <1>1, <2>1 DEF LocalInv, OnePlaceEach
  <2>4. NoInputTwice'
    <3> SUFFICES ASSUME NEW u \in Loops, NEW v \in Loops, u # v, loop'[u] # 0
                 PROVE  loop'[u] # loop'[v]
      BY DEF NoInputTwice
    <3>1. loop'[u] = loop[u] /\ loop[u] # 0 /\ loop[u] # loop[v]
      BY <2>1 DEF LocalInv, OnePlaceEach, NoInputTwice
    <3>2. CASE loop'[v] = 0
      BY <3>2
    <3>3. CASE loop'[v] # 0
      BY <2>1, <3>1, <3>3
    <3> QED BY <3>2, <3>3
  <2> QED BY <2>2, <2>3, <2>4 DEF OnePlaceEach
<1>10. NobodyForgotten'
  <2>1. ASSUME NEW i \in Inputs
        PROVE  Settled(i)' \/ WaitsForLoop(i)' \/ WaitsForCall(i)'
    <3>1. CASE i = j
      <4>1. results'[j] = vin[j] \/ (results'[j] = Null /\ j \in failed')
        BY <1>3, <1>4, <1>6
      <4> QED BY <1>1, <3>1, <4>1 DEF Settled
    <3>2. CASE i # j
      <4>1. Settled(i) \/ WaitsForLoop(i) \/ WaitsForCall(i)
        BY <1>2 DEF LocalInv, NobodyForgotten
      <4>2. Settled(i) => Settled(i)'
        <5>1. results'[i] = results[i] /\ failed \subseteq failed'
          BY <1>3, <1>6, <3>2
        <5> QED BY <1>1, <5>1 DEF Settled
      <4>3. WaitsForLoop(i) => WaitsForLoop(i)'
        BY <1>1 DEF WaitsForLoop
      <4>4. WaitsForCall(i) => WaitsForCall(i)'
        <5> SUFFICES ASSUME NEW v \in Loops, loop[v] = i PROVE WaitsForCall(i)'
          BY DEF WaitsForCall
        <5>1. loop'[v] = i
          BY <1>1, <1>3, <3>2
        <5> QED BY <5>1 DEF WaitsForCall
      <4> QED BY <4>1, <4>2, <4>3, <4>4
    <3> QED BY <3>1, <3>2
  <2> QED BY <1>1, <1>2, <2>1 DEF NobodyForgotten, LookingUp
<1>11. NobodyCountedTwice'
  BY <1>1, <1>2 DEF LocalInv, NobodyCountedTwice, LookingUp
<1> QED BY <1>7, <1>8, <1>9, <1>10, <1>11 DEF LocalInv

LEMMA InlineDoneLocal ==
  ASSUME LocalInv, InlineDone
  PROVE  LocalInv'
<1>1. /\ LookingUp /\ phase' = "done" /\ next > Len(fallback) /\ \A w \in Loops : loop[w] = 0
      /\ vin' = vin /\ Inputs' = Inputs /\ Spending' = Spending
      /\ UNCHANGED <<cached, block, results, payloads, replies, fallback, next, loop, hits, calls,
                     failed>>
  BY DEF InlineDone, AllLooped, LookingUp, inline, vin, Inputs, Spending
<1>2. block # <<>> /\ block \in Seq(Seq(Scripts)) /\ loop \in [Loops -> Spending \cup {0}]
      /\ next \in 1..(Len(fallback) + 1) /\ fallback \in Seq(Spending)
  BY <1>1 DEF LocalInv, LocalTypes, LookingUp
<1>3. LocalTypes'
  <2>1. phase' \in Phases /\ block' # <<>>
    BY <1>1, <1>2 DEF Phases
  <2>2. results \in [Inputs -> Scripts \cup {Null}]
    BY <1>1 DEF LocalInv, LocalTypes, LookingUp
  <2> QED BY <1>1, <2>1, <2>2 DEF LocalInv, LocalTypes
<1>4. BeforeLookup'
  <2>1. loop = [w \in Loops |-> 0]
    BY <1>1, <1>2
  <2> QED BY <1>1, <2>1 DEF BeforeLookup
<1>5. OnePlaceEach'
  BY <1>1 DEF LocalInv, OnePlaceEach, OneEach, NoInputTwice
<1>6. next = Len(fallback) + 1 /\ Len(fallback) \in Nat
  BY <1>1, <1>2
<1>7. NobodyForgotten'
  <2>1. ASSUME NEW i \in Inputs PROVE Settled(i)
    <3>1. Settled(i) \/ WaitsForLoop(i) \/ WaitsForCall(i)
      BY <1>1 DEF LocalInv, NobodyForgotten
    <3>2. ~WaitsForLoop(i)
      BY <1>6 DEF WaitsForLoop
    <3>3. ~WaitsForCall(i)
      <4>1. i # 0
        BY <1>2, InputsFinite
      <4> QED BY <1>1, <4>1 DEF WaitsForCall
    <3> QED BY <3>1, <3>2, <3>3
  <2>2. \A i \in Inputs : Settled(i)'
    BY <1>1, <2>1 DEF Settled
  <2> QED BY <1>1, <2>2 DEF NobodyForgotten, LookingUp
<1>8. NobodyCountedTwice'
  <2>1. hits + calls + (Len(fallback) + 1 - next) = Cardinality(Spending)
    BY <1>1 DEF LocalInv, NobodyCountedTwice
  <2>2. hits \in Nat /\ calls \in Nat
    BY DEF LocalInv, LocalTypes
  <2>3. hits + calls = Cardinality(Spending)
    BY <1>6, <2>1, <2>2
  <2> QED BY <1>1, <2>3 DEF NobodyCountedTwice, LookingUp
<1> QED BY <1>3, <1>4, <1>5, <1>7, <1>8 DEF LocalInv

LEMMA ReturnLocal ==
  ASSUME LocalInv, Return
  PROVE  LocalInv'
<1>1. /\ phase = "done" /\ phase' = "idle" /\ block' = Tail(block)
      /\ payloads' = <<>> /\ replies' = <<>> /\ fallback' = <<>> /\ next' = 1
      /\ hits' = 0 /\ calls' = 0 /\ failed' = {} /\ UNCHANGED <<cached, loop>>
  BY DEF Return, OwnIndex
<1>2. block # <<>> /\ loop = [w \in Loops |-> 0] /\ block' \in Seq(Seq(Scripts))
  BY <1>1 DEF LocalInv, LocalTypes, BeforeLookup, LookingUp
<1>3. LocalTypes'
  <2>1. /\ payloads' \in Seq(Spending') /\ fallback' \in Seq(Spending')
        /\ DOMAIN payloads' = {} /\ next' \in 1..(Len(fallback') + 1)
    BY <1>1
  <2>2. replies' \in [DOMAIN payloads' -> Replies]
    BY <1>1, <2>1
  <2>3. loop' \in [Loops -> Spending' \cup {0}]
    BY <1>1, <1>2
  <2> QED BY <1>1, <1>2, <2>1, <2>2, <2>3 DEF LocalInv, LocalTypes, Phases
<1>4. BeforeLookup'
  BY <1>1, <1>2 DEF BeforeLookup
<1>5. OnePlaceEach'
  <2>1. OneEach(payloads)' /\ OneEach(fallback)'
    BY <1>1, NothingListedTwice DEF OneEach
  <2> QED BY <1>1, <1>2, <2>1 DEF OnePlaceEach, NoInputTwice
<1>6. NobodyForgotten' /\ NobodyCountedTwice'
  BY <1>1 DEF NobodyForgotten, NobodyCountedTwice, LookingUp
<1> QED BY <1>3, <1>4, <1>5, <1>6 DEF LocalInv

LEMMA LocalNext ==
  ASSUME LocalInv, [FetchNext]_fetchVars
  PROVE  LocalInv'
<1>0. cached \subseteq Outpoint
  BY DEF LocalInv, LocalTypes
<1>1. CASE Begin
  BY <1>1, BeginLocal
<1>2. ASSUME NEW k \in DOMAIN replies, WorkerSettles(k) \/ WorkerLoses(k) PROVE LocalInv'
  BY <1>2, SettlesLocal
<1>3. CASE WorkersDone
  BY <1>3, WorkersDoneLocal
<1>4. CASE FailureHandled
  BY <1>4, FailureLocal
<1>5. ASSUME NEW w \in Loops, Take(w) PROVE LocalInv'
  BY <1>5, TakeLocal
<1>6. ASSUME NEW w \in Loops, InlineAnswer(w) PROVE LocalInv'
  BY <1>6, AnswerLocal
<1>7. CASE InlineDone
  BY <1>7, InlineDoneLocal
<1>8. CASE Return
  BY <1>8, ReturnLocal
<1>9. CASE PoolRejects
  BY <1>9, PoolRejectsLocal
<1>10. CASE CloseBegins \/ CloseEnds
  <2>1. UNCHANGED local /\ cached' \subseteq Outpoint
    BY <1>0, <1>10 DEF CloseBegins, CloseEnds
  <2> QED BY <2>1, LocalFrame
<1>11. ASSUME NEW o \in Outpoint, Expire(o) PROVE LocalInv'
  <2>1. UNCHANGED local /\ cached' \subseteq Outpoint
    BY <1>0, <1>11 DEF Expire
  <2> QED BY <2>1, LocalFrame
<1>12. CASE UNCHANGED fetchVars
  <2>1. UNCHANGED local /\ cached' \subseteq Outpoint
    BY <1>0, <1>12 DEF fetchVars
  <2> QED BY <2>1, LocalFrame
<1> QED
  BY <1>1, <1>2, <1>3, <1>4, <1>5, <1>6, <1>7, <1>8, <1>9, <1>10, <1>11, <1>12
  DEF FetchNext, FetchStep

--------------------------------------------------------------------------------
(* The theorems.                                                                *)

\* The inductive invariant holds in every reachable state (addressIndexer.js:569-622,
\* 1139-1282).
THEOREM FetchInvariance == FetchSpec => []FetchIInv
<1>1. FetchInit => FetchIInv
  BY InitFetchIInv
<1>2. FetchIInv /\ [FetchNext]_fetchVars => FetchIInv'
  <2> SUFFICES ASSUME FetchIInv, [FetchNext]_fetchVars PROVE FetchIInv'
    OBVIOUS
  <2>1. PoolInv'
    BY PoolNext DEF FetchIInv, LocalInv, LocalTypes
  <2>2. LocalInv'
    BY LocalNext DEF FetchIInv
  <2> QED BY <2>1, <2>2 DEF FetchIInv
<1> QED BY <1>1, <1>2, PTL DEF FetchSpec

\* Each input is counted once, as a hit or as a call, and no two lookups of it overlap,
\* whichever of cache, pool and loops served it (addressIndexer.js:41-58, 1166-1225).
THEOREM CountsAndLookups == FetchSpec => []FetchInvariant
<1>1. FetchIInv => FetchInvariant
  <2> SUFFICES ASSUME FetchIInv PROVE FetchInvariant
    OBVIOUS
  <2>1. FetchTypeOK
    <3>1. Spending \subseteq Inputs
      BY DEF Spending
    <3>2. \A w \in Loops : loop[w] \in Inputs \cup {0}
      BY <3>1 DEF FetchIInv, LocalInv, LocalTypes
    <3> QED BY <3>2 DEF FetchIInv, PoolInv, PoolTypes, LocalInv, LocalTypes, Phases, FetchTypeOK
  <2>2. CountedOnce
    BY DEF FetchIInv, LocalInv, NobodyCountedTwice, CountedOnce, Spending
  <2>3. NoInputTwice
    BY DEF FetchIInv, LocalInv, OnePlaceEach
  <2> QED BY <2>1, <2>2, <2>3 DEF FetchInvariant
<1> QED BY <1>1, FetchInvariance, PTL

\* Whatever mix of cache, pool and inline calls served it, each input has the output it
\* spends, and none only if it is a coinbase or its last lookup failed
\* (addressIndexer.js:1139-1241).
THEOREM InputsGetTheirOutputs == FetchSpec => []EachInputItsOutput
<1>1. FetchIInv => EachInputItsOutput
  BY DEF FetchIInv, LocalInv, NobodyForgotten, Settled, EachInputItsOutput
<1> QED BY <1>1, FetchInvariance, PTL

\* A pool whose threads run is the one the indexer holds (addressIndexer.js:569-622).
THEOREM PoolsAreHeld == FetchSpec => []NoOrphanPool
<1>1. FetchIInv => NoOrphanPool
  BY DEF FetchIInv, PoolInv
<1> QED BY <1>1, FetchInvariance, PTL
================================================================================

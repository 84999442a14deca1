---------------------------- MODULE TaskPoolProofs ----------------------------
(***************************************************************************)
(* Two invariants of the pools, for any pools, workers and tasks.          *)
(*                                                                         *)
(* QueueInv: no task is forgotten in the queue of a pool.  NoTaskForgotten *)
(* is not inductive: what makes it so is that a worker about to wait holds *)
(* the mutex over an empty queue, and that a worker leaves its loop only   *)
(* when its pool is stopped.                                               *)
(*                                                                         *)
(* HandleInv: every handle is held once, a pool's borrowedCount_ is what   *)
(* it has more than it made, and a stop leaves nobody running behind it.   *)
(***************************************************************************)
EXTENDS TaskPool, FiniteSetTheorems, TLAPS

LoopTypeOK == /\ queue \in [Pools -> Seq(Tasks)]
              /\ stopFlag \in [Pools -> BOOLEAN]
              /\ pc \in [Workers -> {"test", "block", "wait", "run", "exit"}]
              /\ job \in [Workers -> Tasks \cup {NoTask}]
              /\ \A w \in Workers : pc[w] = "run" => job[w] \in Tasks

BlockedOverNothing == \A w \in Workers : pc[w] = "block" => queue[Home[w]] = <<>>

ExitOnlyWhenStopped == \A w \in Workers : pc[w] = "exit" => stopFlag[Home[w]]

QueueInv == LoopTypeOK /\ BlockedOverNothing /\ ExitOnlyWhenStopped /\ NoTaskForgotten

loop == <<queue, stopFlag, pc, job>>

\* A step that leaves the queues, the flags and the workers' places alone.
LEMMA IdleKeepsQueueInv == QueueInv /\ UNCHANGED loop => QueueInv'
BY DEF QueueInv, loop, LoopTypeOK, BlockedOverNothing, ExitOnlyWhenStopped, NoTaskForgotten, AtHome

\* submit, whoever calls it: the queue grows, and somebody is awake or is woken.
LEMMA EnqueueKeepsQueueInv ==
  ASSUME QueueInv, NEW t \in Tasks, Enqueue(t)
  PROVE  QueueInv'
<1> DEFINE p0 == PoolOf[t]
<1>1. p0 \in Pools BY TasksAssumption
<1>2. \A w \in Workers : Home[w] \in Pools BY PoolsAssumption
<1>3. /\ queue' = [queue EXCEPT ![p0] = Append(@, t)]
      /\ stopFlag' = stopFlag /\ job' = job
      /\ ~Locked(p0)
  BY DEF Enqueue, Excluded
<1>4. \/ pc' = pc /\ \A w \in AtHome(p0) : pc[w] # "wait"
      \/ \E w \in AtHome(p0) : pc[w] = "wait" /\ pc' = [pc EXCEPT ![w] = "test"]
  BY DEF Enqueue, WakeOne
<1>5. \A w \in Workers : pc'[w] = pc[w] \/ pc'[w] = "test"
  BY <1>4 DEF QueueInv, LoopTypeOK, AtHome
<1>6. LoopTypeOK'
  <2>1. queue' \in [Pools -> Seq(Tasks)]
    BY <1>1, <1>3 DEF QueueInv, LoopTypeOK
  <2>2. pc' \in [Workers -> {"test", "block", "wait", "run", "exit"}]
    BY <1>4 DEF QueueInv, LoopTypeOK, AtHome
  <2>3. \A w \in Workers : pc'[w] = "run" => job'[w] \in Tasks
    BY <1>3, <1>5 DEF QueueInv, LoopTypeOK
  <2> QED BY <1>3, <2>1, <2>2, <2>3 DEF QueueInv, LoopTypeOK
<1>7. BlockedOverNothing'
  <2> SUFFICES ASSUME NEW w \in Workers, pc'[w] = "block" PROVE queue'[Home[w]] = <<>>
    BY DEF BlockedOverNothing
  <2>1. pc[w] = "block" BY <1>5
  <2>2. Home[w] # p0 BY <2>1, <1>3 DEF Locked, AtHome
  <2> QED BY <2>1, <2>2, <1>2, <1>3 DEF QueueInv, LoopTypeOK, BlockedOverNothing
<1>8. ExitOnlyWhenStopped'
  BY <1>3, <1>5 DEF QueueInv, ExitOnlyWhenStopped
<1>9. NoTaskForgotten'
  <2> SUFFICES ASSUME NEW p \in Pools, queue'[p] # <<>>, ~stopFlag'[p], AtHome(p) # {}
               PROVE  \E w \in AtHome(p) : pc'[w] \in {"test", "run"}
    BY DEF NoTaskForgotten, AtHome
  <2>1. CASE p # p0
    <3>1. queue[p] # <<>> BY <2>1, <1>1, <1>3 DEF QueueInv, LoopTypeOK
    <3>2. PICK w \in AtHome(p) : pc[w] \in {"test", "run"}
      BY <3>1, <1>3 DEF QueueInv, NoTaskForgotten
    <3> QED BY <3>2, <1>5 DEF AtHome
  <2>2. CASE p = p0
    <3>1. CASE pc' = pc /\ \A w \in AtHome(p0) : pc[w] # "wait"
      <4>1. PICK w \in AtHome(p) : TRUE OBVIOUS
      <4>2. w \in Workers /\ Home[w] = p BY <4>1 DEF AtHome
      <4>3. pc[w] # "wait" BY <2>2, <3>1, <4>1
      <4>4. pc[w] # "block" BY <2>2, <4>1, <1>3 DEF Locked
      <4>5. pc[w] # "exit" BY <4>2, <1>3 DEF QueueInv, ExitOnlyWhenStopped
      <4> QED BY <3>1, <4>2, <4>3, <4>4, <4>5 DEF QueueInv, LoopTypeOK, AtHome
    <3>2. CASE \E w \in AtHome(p0) : pc[w] = "wait" /\ pc' = [pc EXCEPT ![w] = "test"]
      BY <2>2, <3>2 DEF QueueInv, LoopTypeOK, AtHome
    <3> QED BY <1>4, <3>1, <3>2
  <2> QED BY <2>1, <2>2
<1> QED BY <1>6, <1>7, <1>8, <1>9 DEF QueueInv

\* A worker looks at the queue under the mutex.
LEMMA TestKeepsQueueInv ==
  ASSUME QueueInv, NEW v \in Workers, Test(v)
  PROVE  QueueInv'
<1> DEFINE p0 == Home[v]
<1>1. \A w \in Workers : Home[w] \in Pools BY PoolsAssumption
<1>2. pc[v] = "test" /\ stopFlag' = stopFlag /\ ~Locked(p0) BY DEF Test, WorkerFrame
<1>3. CASE /\ queue[p0] # <<>> /\ pc' = [pc EXCEPT ![v] = "run"]
           /\ queue' = [queue EXCEPT ![p0] = Tail(@)]
           /\ job' = [job EXCEPT ![v] = Head(queue[p0])]
  <2>1. LoopTypeOK'
    <3>1. Tail(queue[p0]) \in Seq(Tasks) /\ Head(queue[p0]) \in Tasks
      BY <1>1, <1>3 DEF QueueInv, LoopTypeOK
    <3>2. queue' \in [Pools -> Seq(Tasks)] BY <1>3, <3>1 DEF QueueInv, LoopTypeOK
    <3>3. /\ job' \in [Workers -> Tasks \cup {NoTask}]
          /\ pc' \in [Workers -> {"test", "block", "wait", "run", "exit"}]
      BY <1>3, <3>1 DEF QueueInv, LoopTypeOK
    <3>4. \A w \in Workers : pc'[w] = "run" => job'[w] \in Tasks
      BY <1>3, <3>1 DEF QueueInv, LoopTypeOK
    <3> QED BY <1>2, <3>2, <3>3, <3>4 DEF QueueInv, LoopTypeOK
  <2>2. BlockedOverNothing'
    <3> SUFFICES ASSUME NEW w \in Workers, pc'[w] = "block" PROVE queue'[Home[w]] = <<>>
      BY DEF BlockedOverNothing
    <3>1. pc[w] = "block" BY <1>3 DEF QueueInv, LoopTypeOK
    <3>2. Home[w] # p0 BY <3>1, <1>2 DEF Locked, AtHome
    <3> QED BY <3>1, <3>2, <1>1, <1>3 DEF QueueInv, LoopTypeOK, BlockedOverNothing
  <2>3. ExitOnlyWhenStopped'
    BY <1>2, <1>3 DEF QueueInv, LoopTypeOK, ExitOnlyWhenStopped
  <2>4. NoTaskForgotten'
    <3> SUFFICES ASSUME NEW p \in Pools, queue'[p] # <<>>, ~stopFlag'[p], AtHome(p) # {}
                 PROVE  \E w \in AtHome(p) : pc'[w] \in {"test", "run"}
      BY DEF NoTaskForgotten, AtHome
    <3>1. CASE p = p0 BY <3>1, <1>3 DEF QueueInv, LoopTypeOK, AtHome
    <3>2. CASE p # p0
      <4>1. queue[p] # <<>> BY <3>2, <1>3 DEF QueueInv, LoopTypeOK
      <4>2. PICK w \in AtHome(p) : pc[w] \in {"test", "run"}
        BY <4>1, <1>2 DEF QueueInv, NoTaskForgotten
      <4> QED BY <4>2, <3>2, <1>3 DEF QueueInv, LoopTypeOK, AtHome
    <3> QED BY <3>1, <3>2
  <2> QED BY <2>1, <2>2, <2>3, <2>4 DEF QueueInv
<1>4. CASE /\ queue[p0] = <<>> /\ queue' = queue /\ job' = job
           /\ pc' = [pc EXCEPT ![v] = IF stopFlag[p0] THEN "exit" ELSE "block"]
  <2>1. LoopTypeOK' BY <1>2, <1>4 DEF QueueInv, LoopTypeOK
  <2>2. BlockedOverNothing' /\ ExitOnlyWhenStopped'
    BY <1>2, <1>4 DEF QueueInv, LoopTypeOK, BlockedOverNothing, ExitOnlyWhenStopped
  <2>3. NoTaskForgotten'
    <3> SUFFICES ASSUME NEW p \in Pools, queue'[p] # <<>>, ~stopFlag'[p], AtHome(p) # {}
                 PROVE  \E w \in AtHome(p) : pc'[w] \in {"test", "run"}
      BY DEF NoTaskForgotten, AtHome
    <3>1. p # p0 BY <1>4
    <3>2. PICK w \in AtHome(p) : pc[w] \in {"test", "run"}
      BY <1>2, <1>4 DEF QueueInv, NoTaskForgotten
    <3> QED BY <3>1, <3>2, <1>4 DEF QueueInv, LoopTypeOK, AtHome
  <2> QED BY <2>1, <2>2, <2>3 DEF QueueInv
<1> QED BY <1>3, <1>4 DEF Test

\* A worker that does not look at the queue: it goes to wait, comes from it, or ends its task.
LEMMA WaitKeepsQueueInv ==
  ASSUME QueueInv, NEW v \in Workers, Block(v) \/ SpuriousWakeup(v) \/ Finish(v)
  PROVE  QueueInv'
<1>1. /\ queue' = queue /\ stopFlag' = stopFlag
      /\ \/ pc[v] = "block" /\ pc' = [pc EXCEPT ![v] = "wait"]
         \/ pc[v] \in {"wait", "run"} /\ pc' = [pc EXCEPT ![v] = "test"]
      /\ job' = job \/ job' = [job EXCEPT ![v] = NoTask]
  BY DEF Block, SpuriousWakeup, Finish, WorkerFrame
<1>2. LoopTypeOK' BY <1>1 DEF QueueInv, LoopTypeOK
<1>3. BlockedOverNothing' /\ ExitOnlyWhenStopped'
  BY <1>1 DEF QueueInv, LoopTypeOK, BlockedOverNothing, ExitOnlyWhenStopped
<1>4. NoTaskForgotten'
  <2> SUFFICES ASSUME NEW p \in Pools, queue'[p] # <<>>, ~stopFlag'[p], AtHome(p) # {}
               PROVE  \E w \in AtHome(p) : pc'[w] \in {"test", "run"}
    BY DEF NoTaskForgotten, AtHome
  <2>1. PICK w \in AtHome(p) : pc[w] \in {"test", "run"}
    BY <1>1 DEF QueueInv, NoTaskForgotten
  <2> QED BY <2>1, <1>1 DEF QueueInv, LoopTypeOK, AtHome
<1> QED BY <1>2, <1>3, <1>4 DEF QueueInv

\* Stopping a pool empties its queue, raises its flag and wakes its workers.
LEMMA StopKeepsQueueInv ==
  ASSUME QueueInv, StopClear \/ StopFlag \/ StopNotify
  PROVE  QueueInv'
<1> DEFINE p0 == Stopping
<1>1. \A w \in Workers : Home[w] \in Pools BY PoolsAssumption
<1>2. CASE StopClear
  <2>1. /\ stopFlag' = stopFlag /\ pc' = pc /\ job' = job
        /\ queue' = [queue EXCEPT ![p0] = <<>>]
    BY <1>2 DEF StopClear, DownFrame
  <2>2. LoopTypeOK'
    <3>1. <<>> \in Seq(Tasks) OBVIOUS
    <3>2. queue' \in [Pools -> Seq(Tasks)] BY <2>1, <3>1 DEF QueueInv, LoopTypeOK
    <3> QED BY <2>1, <3>2 DEF QueueInv, LoopTypeOK
  <2>3. BlockedOverNothing' /\ ExitOnlyWhenStopped'
    BY <1>1, <2>1 DEF QueueInv, LoopTypeOK, BlockedOverNothing, ExitOnlyWhenStopped
  <2>4. NoTaskForgotten'
    BY <2>1 DEF QueueInv, LoopTypeOK, NoTaskForgotten, AtHome
  <2> QED BY <2>2, <2>3, <2>4 DEF QueueInv
<1>3. CASE StopFlag
  <2>1. /\ queue' = queue /\ pc' = pc /\ job' = job
        /\ stopFlag' = [stopFlag EXCEPT ![p0] = TRUE]
    BY <1>3 DEF StopFlag, DownFrame
  <2>2. LoopTypeOK' BY <2>1 DEF QueueInv, LoopTypeOK
  <2>3. BlockedOverNothing' /\ ExitOnlyWhenStopped'
    BY <1>1, <2>1 DEF QueueInv, LoopTypeOK, BlockedOverNothing, ExitOnlyWhenStopped
  <2>4. NoTaskForgotten'
    BY <2>1 DEF QueueInv, LoopTypeOK, NoTaskForgotten, AtHome
  <2> QED BY <2>2, <2>3, <2>4 DEF QueueInv
<1>4. CASE StopNotify
  <2>1. /\ queue' = queue /\ stopFlag' = stopFlag /\ job' = job
        /\ pc' = [w \in Workers |-> IF Home[w] = p0 /\ pc[w] = "wait" THEN "test" ELSE pc[w]]
    BY <1>4 DEF StopNotify, WakeAll, DownFrame
  <2>2. LoopTypeOK' BY <2>1 DEF QueueInv, LoopTypeOK
  <2>3. BlockedOverNothing' /\ ExitOnlyWhenStopped'
    BY <2>1 DEF QueueInv, LoopTypeOK, BlockedOverNothing, ExitOnlyWhenStopped
  <2>4. NoTaskForgotten'
    <3> SUFFICES ASSUME NEW p \in Pools, queue'[p] # <<>>, ~stopFlag'[p], AtHome(p) # {}
                 PROVE  \E w \in AtHome(p) : pc'[w] \in {"test", "run"}
      BY DEF NoTaskForgotten, AtHome
    <3>1. PICK w \in AtHome(p) : pc[w] \in {"test", "run"}
      BY <2>1 DEF QueueInv, NoTaskForgotten
    <3> QED BY <3>1, <2>1 DEF AtHome
  <2> QED BY <2>2, <2>3, <2>4 DEF QueueInv
<1> QED BY <1>2, <1>3, <1>4

\* Every reachable state satisfies the invariant.
THEOREM QueueInvariant == Spec => []QueueInv
<1>1. Init => QueueInv
  BY DEF Init, QueueInv, LoopTypeOK, BlockedOverNothing, ExitOnlyWhenStopped, NoTaskForgotten
<1>2. QueueInv /\ [Next]_vars => QueueInv'
  <2> SUFFICES ASSUME QueueInv, [Next]_vars PROVE QueueInv' OBVIOUS
  <2>1. CASE \E t \in Tasks : Submit(t)
    BY <2>1, EnqueueKeepsQueueInv DEF Submit
  <2>2. ASSUME NEW w \in Workers, Push(w) PROVE QueueInv'
    <3>1. PICK i \in DOMAIN Subs[job[w]] : Enqueue(Subs[job[w]][i]) BY <2>2 DEF Push
    <3>2. Subs[job[w]][i] \in Tasks
      <4>1. job[w] \in Tasks BY <2>2 DEF Push, QueueInv, LoopTypeOK
      <4>2. Subs[job[w]] \in Seq(Tasks) BY <4>1, TasksAssumption
      <4> QED BY <3>1, <4>2
    <3> QED BY <3>1, <3>2, EnqueueKeepsQueueInv
  <2>3. CASE \E w \in Workers : Test(w) BY <2>3, TestKeepsQueueInv
  <2>4. CASE \E w \in Workers : Block(w) \/ SpuriousWakeup(w) \/ Finish(w)
    BY <2>4, WaitKeepsQueueInv
  <2>5. CASE StopClear \/ StopFlag \/ StopNotify BY <2>5, StopKeepsQueueInv
  <2>6. CASE MonitorStep \/ Shutdown \/ JoinMonitor \/ StopJoin \/ UNCHANGED vars
    <3>1. UNCHANGED loop
      BY <2>6 DEF MonitorStep, Wake, Reassign, MonitorEnds, MonitorFrame, Shutdown, JoinMonitor,
                  StopJoin, DownFrame, vars, poolVars, loop
    <3> QED BY <3>1, IdleKeepsQueueInv
  <2> QED BY <2>1, <2>2, <2>3, <2>4, <2>5, <2>6 DEF Next, WorkerStep, StopStep
<1> QED BY <1>1, <1>2, PTL DEF Spec

\* No task is ever forgotten in a queue: submit, the loop of the workers, lending and stopping
\* lose no wake-up that a queued task needs.
THEOREM NoTaskForgottenHolds == Spec => []NoTaskForgotten
<1>1. QueueInv => NoTaskForgotten BY DEF QueueInv
<1> QED BY <1>1, QueueInvariant, PTL

-----------------------------------------------------------------------------
(* The handles of the workers.                                              *)

\* Everything but the loop of the workers keeps its type.
RestTypeOK ==
  /\ threads \in [Pools -> Seq(Workers)]
  /\ borrowed \in [Pools -> Int]
  /\ task \in [Tasks -> {"new", "queued", "running", "done", "dropped"}]
  /\ pressure \in BOOLEAN
  /\ monitor \in [pc : {"wait", "reassign", "exit"}, pair : Nat, ratio : [Pools -> Nat]]
  /\ down \in [pc : {"no", "monitor", "clear", "flag", "notify", "join", "done"}, at : Nat]
  /\ down.pc \in {"clear", "flag", "notify", "join"} => down.at \in DOMAIN StopOrder

\* Workers are lent until the monitor is joined.
Lent == down.pc \in {"no", "monitor"}

MonitorGone == ~Lent => monitor.pc = "exit"

\* No handle is held twice, and none is lost as long as workers are lent.
NoneTwice ==
  \A p, q \in Pools : \A i \in DOMAIN threads[p], k \in DOMAIN threads[q] :
     threads[p][i] = threads[q][k] => p = q /\ i = k

Holds(p, w) == \E i \in DOMAIN threads[p] : threads[p][i] = w

AllHeld == Lent => \A w \in Workers : \E p \in Pools : Holds(p, w)

\* The counter of a pool is what it has more than it made; a pool that is hungry owes nothing.
Lengths == Lent => \A p \in Pools : Len(threads[p]) = Cardinality(AtHome(p)) + borrowed[p]

HungryOwesNothing == Lent => \A i \in DOMAIN Lending : borrowed[Lending[i][1]] >= 0

\* What stop lets go of has ended, and nothing is left behind it.
HeldOrEnded == \A w \in Workers : pc[w] = "exit" \/ \E p \in Pools : Holds(p, w)

EmptyBehind ==
  \A i \in DOMAIN StopOrder :
     down.pc = "done" \/ (~Lent /\ i < down.at) => threads[StopOrder[i]] = <<>>

HandleInv == /\ RestTypeOK /\ MonitorGone /\ NoneTwice /\ AllHeld /\ Lengths /\ HungryOwesNothing
             /\ HeldOrEnded /\ EmptyBehind

\* A finite set is listed without repetition.
LEMMA ListedOnce ==
  ASSUME NEW S, IsFiniteSet(S)
  PROVE  /\ SetToSeq(S) \in Seq(S) /\ Len(SetToSeq(S)) = Cardinality(S)
         /\ \A i, j \in 1 .. Len(SetToSeq(S)) : SetToSeq(S)[i] = SetToSeq(S)[j] => i = j
         /\ \A x \in S : \E i \in 1 .. Len(SetToSeq(S)) : SetToSeq(S)[i] = x
<1> DEFINE n == Cardinality(S)
           s == SetToSeq(S)
<1>1. n \in Nat
  BY FS_CardinalityType
<1>2. \E g \in [1 .. n -> S] : IsInjective(g)
  <2>1. PICK g : g \in Bijection(1 .. n, S)
    BY FS_CardinalityType DEF ExistsBijection
  <2>2. g \in [1 .. n -> S] /\ IsInjective(g)
    BY <2>1 DEF Bijection, Injection, IsInjective
  <2> QED
    BY <2>2
<1>3. s \in [1 .. n -> S] /\ IsInjective(s)
  BY <1>2 DEF SetToSeq
<1> HIDE DEF s
<1>4. s \in Seq(S) /\ Len(s) = n
  BY <1>1, <1>3
<1>5. \A i, j \in 1 .. n : s[i] = s[j] => i = j
  BY <1>3 DEF IsInjective
<1>6. \A x \in S : \E i \in 1 .. n : s[i] = x
  <2>1. s \in Injection(1 .. n, S)
    BY <1>3, <1>5 DEF Injection
  <2>2. IsFiniteSet(1 .. n) /\ Cardinality(1 .. n) = n
    BY <1>1, FS_Interval
  <2>3. s \in Surjection(1 .. n, S)
    BY <2>1, <2>2, FS_Injection
  <2> QED
    BY <2>3 DEF Surjection
<1> QED
  BY <1>4, <1>5, <1>6 DEF s

\* The workers of a pool are finitely many.
LEMMA HomesAreFinite ==
  \A p : IsFiniteSet(AtHome(p)) /\ AtHome(p) \in SUBSET Workers /\ Cardinality(AtHome(p)) \in Nat
<1>1. \A p : AtHome(p) \in SUBSET Workers
  BY DEF AtHome
<1> QED
  BY <1>1, WorkersAssumption, FS_Subset, FS_CardinalityType

LEMMA InitHandles == Init => HandleInv
<1> SUFFICES ASSUME Init PROVE HandleInv
  OBVIOUS
<1>1. \A p \in Pools :
         /\ threads[p] \in Seq(AtHome(p)) /\ Len(threads[p]) = Cardinality(AtHome(p))
         /\ \A i, j \in 1 .. Len(threads[p]) : threads[p][i] = threads[p][j] => i = j
         /\ \A w \in AtHome(p) : \E i \in 1 .. Len(threads[p]) : threads[p][i] = w
  BY HomesAreFinite, ListedOnce DEF Init
<1>2. ASSUME NEW p \in Pools
      PROVE  /\ threads[p] \in Seq(Workers) /\ DOMAIN threads[p] = 1 .. Len(threads[p])
             /\ \A i \in DOMAIN threads[p] :
                   threads[p][i] \in Workers /\ Home[threads[p][i]] = p
  <2>1. threads[p] \in Seq(AtHome(p))
    BY <1>1
  <2>2. \A i \in DOMAIN threads[p] : threads[p][i] \in AtHome(p)
    BY <2>1
  <2>3. AtHome(p) \in SUBSET Workers
    BY HomesAreFinite
  <2>4. threads[p] \in Seq(Workers) /\ DOMAIN threads[p] = 1 .. Len(threads[p])
    BY <2>1, <2>3
  <2> QED
    BY <2>2, <2>4 DEF AtHome
<1>3. threads \in [Pools -> Seq(Workers)]
  BY <1>2 DEF Init
<1>4. /\ borrowed = [p \in Pools |-> 0] /\ task = [t \in Tasks |-> "new"] /\ pressure = FALSE
      /\ monitor = [pc |-> "wait", pair |-> 1, ratio |-> [p \in Pools |-> 0]]
      /\ down = [pc |-> "no", at |-> 1]
  BY DEF Init
<1>5. RestTypeOK
  <2>1. monitor \in [pc : {"wait", "reassign", "exit"}, pair : Nat, ratio : [Pools -> Nat]]
    BY <1>4
  <2>2. /\ down \in [pc : {"no", "monitor", "clear", "flag", "notify", "join", "done"}, at : Nat]
        /\ down.pc = "no"
    BY <1>4
  <2>3. borrowed \in [Pools -> Int]
    BY <1>4
  <2>4. /\ task \in [Tasks -> {"new", "queued", "running", "done", "dropped"}]
        /\ pressure \in BOOLEAN
    BY <1>4
  <2> QED
    BY <1>3, <2>1, <2>2, <2>3, <2>4 DEF RestTypeOK
<1>7. NoneTwice
  <2> SUFFICES ASSUME NEW p \in Pools, NEW q \in Pools, NEW i \in DOMAIN threads[p],
                      NEW k \in DOMAIN threads[q], threads[p][i] = threads[q][k]
               PROVE  p = q /\ i = k
    BY DEF NoneTwice
  <2>1. p = q
    <3>1. Home[threads[p][i]] = p
      BY <1>2
    <3>2. Home[threads[q][k]] = q
      BY <1>2
    <3> QED
      BY <3>1, <3>2
  <2> QED
    BY <1>1, <1>2, <2>1
<1>8. \A w \in Workers : \E p \in Pools : Holds(p, w)
  <2> SUFFICES ASSUME NEW w \in Workers PROVE \E p \in Pools : Holds(p, w)
    OBVIOUS
  <2>1. Home[w] \in Pools /\ w \in AtHome(Home[w])
    BY PoolsAssumption DEF AtHome
  <2>2. PICK i \in 1 .. Len(threads[Home[w]]) : threads[Home[w]][i] = w
    BY <1>1, <2>1
  <2> QED
    BY <1>2, <2>1, <2>2 DEF Holds
<1>9. \A i \in DOMAIN Lending : Lending[i][1] \in Pools
  BY PoolsAssumption
<1>10. Lengths /\ HungryOwesNothing
  BY <1>1, <1>4, <1>9, HomesAreFinite DEF Lengths, HungryOwesNothing
<1>11. AllHeld /\ HeldOrEnded /\ MonitorGone /\ EmptyBehind
  BY <1>4, <1>8 DEF AllHeld, HeldOrEnded, MonitorGone, EmptyBehind, Lent
<1> QED
  BY <1>5, <1>7, <1>10, <1>11 DEF HandleInv

\* A step that touches no handle and brings no worker back from the end of its loop.
LEMMA HandlesStay ==
  ASSUME HandleInv, UNCHANGED <<threads, borrowed>>, RestTypeOK', MonitorGone', Lent' => Lent,
         \A w \in Workers : pc[w] = "exit" => pc'[w] = "exit",
         \A i \in DOMAIN StopOrder :
            down'.pc = "done" \/ (~Lent' /\ i < down'.at) =>
               down.pc = "done" \/ (~Lent /\ i < down.at) \/ threads[StopOrder[i]] = <<>>
  PROVE  HandleInv'
<1>1. \A p, w : Holds(p, w)' <=> Holds(p, w)
  BY DEF Holds
<1>2. AllHeld' /\ HeldOrEnded'
  BY <1>1 DEF HandleInv, AllHeld, HeldOrEnded
<1>3. NoneTwice' /\ Lengths' /\ HungryOwesNothing'
  BY DEF HandleInv, NoneTwice, Lengths, HungryOwesNothing, AtHome
<1>4. EmptyBehind'
  BY DEF HandleInv, EmptyBehind
<1> QED
  BY <1>2, <1>3, <1>4 DEF HandleInv

\* Submitting and running tasks moves no handle.
LEMMA WorkersKeepHandles ==
  ASSUME LoopTypeOK, HandleInv,
         \/ \E t \in Tasks : Submit(t)
         \/ \E w \in Workers : WorkerStep(w) \/ SpuriousWakeup(w)
  PROVE  HandleInv'
<1>1. RestTypeOK /\ MonitorGone
  BY DEF HandleInv
<1>2. ASSUME NEW t \in Tasks, Enqueue(t) PROVE HandleInv'
  <2>1. /\ UNCHANGED <<threads, borrowed, monitor, down>> /\ pressure' = TRUE
        /\ task' = [task EXCEPT ![t] = "queued"]
    BY <1>2 DEF Enqueue
  <2>2. RestTypeOK'
    BY <1>1, <2>1 DEF RestTypeOK
  <2>3. \A w \in Workers : pc[w] = "exit" => pc'[w] = "exit"
    BY <1>2 DEF Enqueue, WakeOne, LoopTypeOK
  <2>4. MonitorGone' /\ (Lent' <=> Lent)
    BY <1>1, <2>1 DEF MonitorGone, Lent
  <2> QED
    BY <2>1, <2>2, <2>3, <2>4, HandlesStay
<1>3. ASSUME NEW w \in Workers, Test(w) \/ Block(w) \/ SpuriousWakeup(w) \/ Finish(w)
      PROVE  HandleInv'
  <2>1. UNCHANGED <<threads, borrowed, monitor, down, pressure>>
    BY <1>3 DEF Test, Block, SpuriousWakeup, Finish, WorkerFrame
  <2>2. Home[w] \in Pools /\ queue[Home[w]] \in Seq(Tasks)
    BY PoolsAssumption DEF LoopTypeOK
  <2>3. queue[Home[w]] # <<>> => Head(queue[Home[w]]) \in Tasks
    BY <2>2
  <2>4. task' \in [Tasks -> {"new", "queued", "running", "done", "dropped"}]
    BY <1>1, <1>3, <2>3 DEF Test, Block, SpuriousWakeup, Finish, RestTypeOK
  <2>5. RestTypeOK'
    BY <1>1, <2>1, <2>4 DEF RestTypeOK
  <2>6. \A v \in Workers : pc[v] = "exit" => pc'[v] = "exit"
    BY <1>3 DEF Test, Block, SpuriousWakeup, Finish, LoopTypeOK
  <2>7. MonitorGone' /\ (Lent' <=> Lent)
    BY <1>1, <2>1 DEF MonitorGone, Lent
  <2> QED
    BY <2>1, <2>5, <2>6, <2>7, HandlesStay
<1>4. ASSUME NEW w \in Workers, Push(w) PROVE HandleInv'
  <2>1. PICK i \in DOMAIN Subs[job[w]] : Enqueue(Subs[job[w]][i])
    BY <1>4 DEF Push
  <2>2. job[w] \in Tasks
    BY <1>4 DEF Push, LoopTypeOK
  <2>3. Subs[job[w]] \in Seq(Tasks)
    BY <2>2, TasksAssumption
  <2> QED
    BY <1>2, <2>1, <2>3
<1> QED
  BY <1>2, <1>3, <1>4 DEF Submit, WorkerStep

\* The monitor moves a handle from a pool that has one, and counts it.
LEMMA MovesOneHandle ==
  ASSUME HandleInv, Lent, NEW from \in Pools, NEW to \in Pools, from # to,
         Len(threads[from]) > 0, Move(from, to)
  PROVE  /\ threads' \in [Pools -> Seq(Workers)] /\ borrowed' \in [Pools -> Int]
         /\ NoneTwice'
         /\ \A w \in Workers : (\E p \in Pools : Holds(p, w)) => (\E p \in Pools : Holds(p, w))'
         /\ \A p \in Pools : Len(threads'[p]) - borrowed'[p] = Len(threads[p]) - borrowed[p]
         /\ \A p \in Pools : borrowed'[p] = borrowed[p] + (IF p = to THEN 1 ELSE 0)
                                                        - (IF p = from THEN 1 ELSE 0)
<1> DEFINE n == Len(threads[from])
           m == Len(threads[to])
           x == threads[from][n]
<1>1. threads \in [Pools -> Seq(Workers)] /\ borrowed \in [Pools -> Int] /\ NoneTwice
  BY DEF HandleInv, RestTypeOK
<1>2. threads[from] \in Seq(Workers) /\ threads[to] \in Seq(Workers)
      /\ n \in Nat /\ n > 0 /\ m \in Nat /\ n \in DOMAIN threads[from] /\ x \in Workers
  BY <1>1
<1>3. /\ Front(threads[from]) = [i \in 1 .. n - 1 |-> threads[from][i]]
      /\ Last(threads[from]) = x
  <2>1. Front(threads[from]) = SubSeq(threads[from], 1, n - 1)
    BY DEF Front
  <2> QED
    BY <1>2, <2>1 DEF Last
<1>4. /\ Front(threads[from]) \in Seq(Workers) /\ Len(Front(threads[from])) = n - 1
      /\ \A i \in 1 .. n - 1 : Front(threads[from])[i] = threads[from][i]
  <2>1. n - 1 \in Nat
    BY <1>2
  <2> HIDE DEF n
  <2>2. \A i \in 1 .. n - 1 : threads[from][i] \in Workers
    BY <1>2 DEF n
  <2> QED
    BY <1>3, <2>1, <2>2
<1>5. /\ Append(threads[to], x) \in Seq(Workers) /\ Len(Append(threads[to], x)) = m + 1
      /\ Append(threads[to], x)[m + 1] = x
      /\ \A i \in 1 .. m : Append(threads[to], x)[i] = threads[to][i]
  BY <1>2
<1>6. /\ threads' = [threads EXCEPT ![from] = Front(@), ![to] = Append(@, Last(threads[from]))]
      /\ borrowed' = [borrowed EXCEPT ![from] = @ - 1, ![to] = @ + 1]
  BY DEF Move, Counted
<1>7. /\ threads'[from] = Front(threads[from]) /\ threads'[to] = Append(threads[to], x)
      /\ \A p \in Pools \ {from, to} : threads'[p] = threads[p]
      /\ threads' \in [Pools -> Seq(Workers)]
  BY <1>1, <1>3, <1>4, <1>5, <1>6
<1>8. /\ borrowed'[from] = borrowed[from] - 1 /\ borrowed'[to] = borrowed[to] + 1
      /\ \A p \in Pools \ {from, to} : borrowed'[p] = borrowed[p]
      /\ borrowed' \in [Pools -> Int]
  BY <1>1, <1>6
<1> HIDE DEF n, m, x
<1>9. \A p \in Pools : threads[p] \in Seq(Workers) /\ threads'[p] \in Seq(Workers)
  BY <1>1, <1>7
<1>10. /\ DOMAIN threads'[from] = 1 .. n - 1 /\ DOMAIN threads[from] = 1 .. n
       /\ DOMAIN threads'[to] = 1 .. m + 1 /\ DOMAIN threads[to] = 1 .. m
  BY <1>2, <1>4, <1>5, <1>7 DEF n, m
\* Where the handle at place i of p was before.
<1> DEFINE was(p, i) == IF p = to /\ i = m + 1 THEN <<from, n>> ELSE <<p, i>>
<1>11. ASSUME NEW p \in Pools, NEW i \in DOMAIN threads'[p]
       PROVE  /\ was(p, i)[1] \in Pools /\ was(p, i)[2] \in DOMAIN threads[was(p, i)[1]]
              /\ threads'[p][i] = threads[was(p, i)[1]][was(p, i)[2]]
  <2>1. CASE p = to /\ i = m + 1
    BY <1>2, <1>5, <1>7, <2>1 DEF x
  <2>2. CASE p = to /\ i # m + 1
    <3>1. i \in 1 .. m
      BY <1>2, <1>10, <1>11, <2>2
    <3> QED
      BY <1>5, <1>7, <1>10, <2>2, <3>1
  <2>3. CASE p = from
    <3>1. i \in 1 .. n - 1 /\ i \in 1 .. n
      BY <1>2, <1>10, <1>11, <2>3
    <3> QED
      BY <1>4, <1>7, <1>10, <2>3, <3>1
  <2>4. CASE p # to /\ p # from
    BY <1>7, <1>11, <2>4
  <2> QED
    BY <2>1, <2>2, <2>3, <2>4
<1>12. NoneTwice'
  <2> SUFFICES ASSUME NEW p \in Pools, NEW q \in Pools, NEW i \in DOMAIN threads'[p],
                      NEW k \in DOMAIN threads'[q], threads'[p][i] = threads'[q][k]
               PROVE  p = q /\ i = k
    BY DEF NoneTwice
  <2>1. was(p, i)[1] = was(q, k)[1] /\ was(p, i)[2] = was(q, k)[2]
    <3>1. threads[was(p, i)[1]][was(p, i)[2]] = threads[was(q, k)[1]][was(q, k)[2]]
      BY <1>11
    <3>2. /\ was(p, i)[1] \in Pools /\ was(p, i)[2] \in DOMAIN threads[was(p, i)[1]]
          /\ was(q, k)[1] \in Pools /\ was(q, k)[2] \in DOMAIN threads[was(q, k)[1]]
      BY <1>11
    <3> DEFINE a == was(p, i)[1]
               b == was(p, i)[2]
               c == was(q, k)[1]
               d == was(q, k)[2]
    <3>3. /\ a \in Pools /\ b \in DOMAIN threads[a] /\ c \in Pools /\ d \in DOMAIN threads[c]
          /\ threads[a][b] = threads[c][d]
      BY <3>1, <3>2
    <3> HIDE DEF a, b, c, d
    <3>4. a = c /\ b = d
      BY <1>1, <3>3 DEF NoneTwice
    <3> QED
      BY <3>4 DEF a, b, c, d
  <2>2. ~(p = from /\ i = n) /\ ~(q = from /\ k = n)
    BY <1>2, <1>10
  <2> QED
    BY <2>1, <2>2
<1>13. ASSUME NEW w \in Workers, NEW p \in Pools, Holds(p, w)
       PROVE  \E q \in Pools : \E k \in DOMAIN threads'[q] : threads'[q][k] = w
  <2>1. PICK i \in DOMAIN threads[p] : threads[p][i] = w
    BY <1>13 DEF Holds
  <2>2. CASE p = from /\ i = n
    BY <1>2, <1>5, <1>7, <1>10, <2>1, <2>2 DEF x
  <2>3. CASE p = from /\ i # n
    <3>1. i \in 1 .. n - 1
      BY <1>2, <1>10, <2>1, <2>3
    <3> QED
      BY <1>4, <1>7, <1>10, <2>1, <2>3, <3>1
  <2>4. CASE p = to
    <3>1. i \in 1 .. m /\ i \in 1 .. m + 1
      BY <1>2, <1>10, <2>1, <2>4
    <3> QED
      BY <1>5, <1>7, <1>10, <2>1, <2>4, <3>1
  <2>5. CASE p # from /\ p # to
    BY <1>7, <2>1, <2>5
  <2> QED
    BY <2>2, <2>3, <2>4, <2>5
<1>14. \A w \in Workers : (\E p \in Pools : Holds(p, w)) => (\E p \in Pools : Holds(p, w))'
  BY <1>13 DEF Holds
<1>15. /\ Len(threads'[from]) = Len(threads[from]) - 1 /\ Len(threads'[to]) = Len(threads[to]) + 1
       /\ \A p \in Pools : Len(threads[p]) \in Nat /\ borrowed[p] \in Int
  BY <1>1, <1>4, <1>5, <1>7, <1>9 DEF n, m
<1>16. \A p \in Pools : Len(threads'[p]) - borrowed'[p] = Len(threads[p]) - borrowed[p]
  <2> SUFFICES ASSUME NEW p \in Pools
               PROVE  Len(threads'[p]) - borrowed'[p] = Len(threads[p]) - borrowed[p]
    OBVIOUS
  <2>1. CASE p = from
    <3>1. Len(threads[from]) \in Int /\ borrowed[from] \in Int
      BY <1>15
    <3>2. Len(threads'[from]) = Len(threads[from]) - 1
      BY <1>15
    <3>3. borrowed'[from] = borrowed[from] - 1
      BY <1>8
    <3>4. Len(threads'[from]) - borrowed'[from] = Len(threads[from]) - borrowed[from]
      BY <3>1, <3>2, <3>3
    <3> QED
      BY <2>1, <3>4
  <2>2. CASE p = to
    <3>1. Len(threads[to]) \in Int /\ borrowed[to] \in Int
      BY <1>15
    <3>2. Len(threads'[to]) = Len(threads[to]) + 1
      BY <1>15
    <3>3. borrowed'[to] = borrowed[to] + 1
      BY <1>8
    <3>4. Len(threads'[to]) - borrowed'[to] = Len(threads[to]) - borrowed[to]
      BY <3>1, <3>2, <3>3
    <3> QED
      BY <2>2, <3>4
  <2>3. CASE p # from /\ p # to
    BY <1>7, <1>8, <2>3
  <2> QED
    BY <2>1, <2>2, <2>3
<1>17. \A p \in Pools : borrowed'[p] = borrowed[p] + (IF p = to THEN 1 ELSE 0)
                                                   - (IF p = from THEN 1 ELSE 0)
  BY <1>8, <1>15
<1> QED
  BY <1>7, <1>8, <1>12, <1>14, <1>16, <1>17

\* What the monitor does keeps the handles in balance: it takes from a pool that is hungry only
\* what that pool has borrowed.
LEMMA MonitorKeepsHandles ==
  ASSUME LoopTypeOK, HandleInv, MonitorStep
  PROVE  HandleInv'
<1>1. RestTypeOK /\ MonitorGone
  BY DEF HandleInv
<1>2. /\ UNCHANGED <<queue, stopFlag, pc, job, task, down>> /\ (Lent' <=> Lent)
      /\ monitor.pc # "exit"
  BY DEF MonitorStep, Wake, Reassign, MonitorEnds, MonitorFrame, Lent
<1>3. CASE Wake
  <2>1. /\ UNCHANGED <<threads, borrowed>> /\ pressure' = FALSE /\ Lent
        /\ monitor' = [pc |-> "reassign", pair |-> 1, ratio |-> [p \in Pools |-> Ratio(p)]]
    BY <1>3 DEF Wake, Lent
  <2>2. \A p \in Pools : Ratio(p) \in Nat
    <3> SUFFICES ASSUME NEW p \in Pools PROVE Ratio(p) \in Nat
      OBVIOUS
    <3>1. queue[p] \in Seq(Tasks) /\ threads[p] \in Seq(Workers)
      BY <1>1 DEF LoopTypeOK, RestTypeOK
    <3>2. Len(queue[p]) \in Nat /\ Len(threads[p]) \in Nat
          /\ (threads[p] # <<>> => Len(threads[p]) > 0)
      BY <3>1
    <3> DEFINE d == IF threads[p] = <<>> THEN 1 ELSE Len(threads[p])
    <3>3. d \in Nat /\ d > 0
      BY <3>2
    <3>4. Ratio(p) = Len(queue[p]) \div d
      BY DEF Ratio
    <3> HIDE DEF d
    <3>5. \A n \in Nat : n \div d \in Nat
      BY <3>3
    <3> QED
      BY <3>2, <3>4, <3>5
  <2>3. monitor' \in [pc : {"wait", "reassign", "exit"}, pair : Nat, ratio : [Pools -> Nat]]
    BY <2>1, <2>2
  <2>4. RestTypeOK'
    BY <1>1, <1>2, <2>1, <2>3 DEF RestTypeOK
  <2>5. MonitorGone'
    BY <1>2, <2>1 DEF MonitorGone
  <2> QED
    BY <1>2, <2>1, <2>4, <2>5, HandlesStay DEF Lent
<1>4. CASE MonitorEnds
  <2>1. UNCHANGED <<threads, borrowed, pressure>>
    BY <1>4 DEF MonitorEnds
  <2>2. monitor' \in [pc : {"wait", "reassign", "exit"}, pair : Nat, ratio : [Pools -> Nat]]
    <3>1. CASE monitor' = [pc |-> "wait", pair |-> 1, ratio |-> [p \in Pools |-> 0]]
      BY <3>1
    <3>2. CASE monitor' = [monitor EXCEPT !.pc = "exit"]
      BY <1>1, <3>2 DEF RestTypeOK
    <3> QED
      BY <1>4, <3>1, <3>2 DEF MonitorEnds
  <2>3. RestTypeOK'
    BY <1>1, <1>2, <2>1, <2>2 DEF RestTypeOK
  <2>4. MonitorGone'
    BY <1>1, <1>2 DEF MonitorGone
  <2> QED
    BY <1>2, <2>1, <2>3, <2>4, HandlesStay DEF Lent
<1>5. CASE Reassign
  <2>1. Lent /\ monitor.pair \in DOMAIN Lending
    BY <1>1, <1>2, <1>5 DEF MonitorGone, Reassign
  <2> DEFINE hungry == Lending[monitor.pair][1]
             donor  == Lending[monitor.pair][2]
  <2>2. hungry \in Pools /\ donor \in Pools /\ hungry # donor
    BY <2>1, PoolsAssumption, OrderAssumption
  <2>3. /\ \A p \in Pools : Len(threads[p]) = Cardinality(AtHome(p)) + borrowed[p]
        /\ \A i \in DOMAIN Lending : borrowed[Lending[i][1]] >= 0
        /\ \A w \in Workers : \E p \in Pools : Holds(p, w)
    BY <2>1 DEF HandleInv, Lengths, HungryOwesNothing, AllHeld
  <2>4. /\ \A p \in Pools : threads[p] \in Seq(Workers) /\ borrowed[p] \in Int
        /\ \A p \in Pools : Cardinality(AtHome(p)) \in Nat
    BY <1>1, HomesAreFinite DEF RestTypeOK
  <2>5. pressure' = pressure /\ monitor' = [monitor EXCEPT !.pair = @ + 1]
    BY <1>5 DEF Reassign
  <2>6. monitor' \in [pc : {"wait", "reassign", "exit"}, pair : Nat, ratio : [Pools -> Nat]]
    <3>1. /\ monitor.pc \in {"wait", "reassign", "exit"} /\ monitor.ratio \in [Pools -> Nat]
          /\ monitor.pair + 1 \in Nat
          /\ monitor = [pc |-> monitor.pc, pair |-> monitor.pair, ratio |-> monitor.ratio]
      BY <1>1 DEF RestTypeOK
    <3>2. monitor' = [pc |-> monitor.pc, pair |-> monitor.pair + 1, ratio |-> monitor.ratio]
      BY <2>5, <3>1
    <3> QED
      BY <3>1, <3>2
  <2>7. MonitorGone'
    BY <1>2, <2>1 DEF MonitorGone
  <2>8. \/ HasIdle(donor) /\ Move(donor, hungry)
        \/ borrowed[hungry] # 0 /\ Move(hungry, donor)
        \/ UNCHANGED <<threads, borrowed>>
    BY <1>5 DEF Reassign
  <2> HIDE DEF hungry, donor
  <2>9. ASSUME NEW from \in Pools, NEW to \in Pools, from # to, Len(threads[from]) > 0,
               Move(from, to),
               \A i \in DOMAIN Lending : Lending[i][1] = from => borrowed[from] > 0
        PROVE  HandleInv'
    <3>1. /\ threads' \in [Pools -> Seq(Workers)] /\ borrowed' \in [Pools -> Int]
          /\ NoneTwice'
          /\ \A w \in Workers : (\E p \in Pools : Holds(p, w)) => (\E p \in Pools : Holds(p, w))'
          /\ \A p \in Pools : Len(threads'[p]) - borrowed'[p] = Len(threads[p]) - borrowed[p]
          /\ \A p \in Pools : borrowed'[p] = borrowed[p] + (IF p = to THEN 1 ELSE 0)
                                                         - (IF p = from THEN 1 ELSE 0)
      BY <2>1, <2>9, MovesOneHandle
    <3>2. RestTypeOK'
      BY <1>1, <1>2, <2>5, <2>6, <3>1 DEF RestTypeOK
    <3>3. AllHeld' /\ HeldOrEnded'
      BY <2>3, <3>1 DEF AllHeld, HeldOrEnded
    <3>4. Lengths'
      <4> SUFFICES ASSUME NEW p \in Pools
                   PROVE  Len(threads'[p]) = Cardinality(AtHome(p)) + borrowed'[p]
        BY DEF Lengths, AtHome
      <4>1. /\ Len(threads'[p]) \in Int /\ borrowed'[p] \in Int
            /\ Len(threads[p]) \in Int /\ borrowed[p] \in Int /\ Cardinality(AtHome(p)) \in Int
        BY <2>4, <3>1
      <4>2. /\ Len(threads[p]) = Cardinality(AtHome(p)) + borrowed[p]
            /\ Len(threads'[p]) - borrowed'[p] = Len(threads[p]) - borrowed[p]
        BY <2>3, <3>1
      <4> QED
        BY <4>1, <4>2
    <3>5. HungryOwesNothing'
      <4> SUFFICES ASSUME NEW i \in DOMAIN Lending PROVE borrowed'[Lending[i][1]] >= 0
        BY DEF HungryOwesNothing
      <4>1. PICK p : p = Lending[i][1] /\ p \in Pools
        BY PoolsAssumption
      <4>2. borrowed[p] \in Int /\ borrowed[p] >= 0 /\ (p = from => borrowed[p] > 0)
        BY <2>3, <2>4, <2>9, <4>1
      <4>3. borrowed'[p] = borrowed[p] + (IF p = to THEN 1 ELSE 0) - (IF p = from THEN 1 ELSE 0)
        BY <3>1, <4>1
      <4> QED
        BY <4>1, <4>2, <4>3
    <3>6. EmptyBehind'
      BY <1>2, <2>1 DEF EmptyBehind, Lent
    <3> QED
      BY <2>7, <3>1, <3>2, <3>3, <3>4, <3>5, <3>6 DEF HandleInv
  <2>10. CASE HasIdle(donor) /\ Move(donor, hungry)
    <3>1. threads[donor] \in Seq(Workers) /\ \E w : w \in Range(threads[donor])
      BY <2>2, <2>4, <2>10 DEF HasIdle
    <3>2. Len(threads[donor]) > 0
      BY <3>1 DEF Range
    <3>3. \A i \in DOMAIN Lending : Lending[i][1] # donor
      BY <2>1, OrderAssumption DEF donor
    <3> QED
      BY <2>2, <2>9, <2>10, <3>2, <3>3
  <2>11. CASE borrowed[hungry] # 0 /\ Move(hungry, donor)
    <3>1. borrowed[hungry] > 0
      BY <2>1, <2>2, <2>3, <2>4, <2>11 DEF hungry
    <3>2. Len(threads[hungry]) > 0
      <4>1. Cardinality(AtHome(hungry)) \in Nat /\ borrowed[hungry] \in Int
            /\ Len(threads[hungry]) = Cardinality(AtHome(hungry)) + borrowed[hungry]
        BY <2>2, <2>3, <2>4
      <4> QED
        BY <3>1, <4>1
    <3> QED
      BY <2>2, <2>9, <2>11, <3>1, <3>2
  <2>12. CASE UNCHANGED <<threads, borrowed>>
    <3>1. RestTypeOK'
      BY <1>1, <1>2, <2>5, <2>6, <2>12 DEF RestTypeOK
    <3> QED
      BY <1>2, <2>7, <2>12, <3>1, HandlesStay DEF Lent
  <2> QED
    BY <2>8, <2>10, <2>11, <2>12
<1> QED
  BY <1>3, <1>4, <1>5 DEF MonitorStep

\* The next pool that is stopped, or the end, is a place of shutdown.
LEMMA ToPoolType ==
  ASSUME NEW i \in Nat
  PROVE  /\ ToPool(i) \in [pc : {"no", "monitor", "clear", "flag", "notify", "join", "done"},
                           at : Nat]
         /\ ToPool(i).at = i /\ ToPool(i).pc \in {"clear", "done"}
         /\ ToPool(i).pc = "clear" <=> i \in DOMAIN StopOrder
BY DEF ToPool

\* Stopping lets go of a handle only when its worker has ended, and of a pool only when it has
\* none left.
LEMMA StopKeepsHandles ==
  ASSUME LoopTypeOK, HandleInv, Shutdown \/ StopStep
  PROVE  HandleInv'
<1>1. RestTypeOK /\ MonitorGone /\ EmptyBehind
  BY DEF HandleInv
<1>2. UNCHANGED <<borrowed, job, pressure, monitor>>
  BY DEF Shutdown, StopStep, JoinMonitor, StopClear, StopFlag, StopNotify, StopJoin, DownFrame
<1>3. /\ down \in [pc : {"no", "monitor", "clear", "flag", "notify", "join", "done"}, at : Nat]
      /\ down.pc \in {"clear", "flag", "notify", "join"} => down.at \in DOMAIN StopOrder
      /\ task \in [Tasks -> {"new", "queued", "running", "done", "dropped"}]
      /\ threads \in [Pools -> Seq(Workers)]
  BY <1>1 DEF RestTypeOK
<1>4. \A w \in Workers : pc[w] = "exit" => pc'[w] = "exit"
  BY DEF Shutdown, StopStep, JoinMonitor, StopClear, StopFlag, StopNotify, StopJoin, WakeAll
<1>5. ASSUME UNCHANGED threads,
             task' \in [Tasks -> {"new", "queued", "running", "done", "dropped"}],
             down' \in [pc : {"no", "monitor", "clear", "flag", "notify", "join", "done"}, at : Nat],
             down'.pc \in {"clear", "flag", "notify", "join"} => down'.at \in DOMAIN StopOrder,
             MonitorGone', Lent' => Lent,
             \A i \in DOMAIN StopOrder :
                down'.pc = "done" \/ (~Lent' /\ i < down'.at) =>
                   down.pc = "done" \/ (~Lent /\ i < down.at) \/ threads[StopOrder[i]] = <<>>
      PROVE  HandleInv'
  <2>1. RestTypeOK'
    BY <1>1, <1>2, <1>5 DEF RestTypeOK
  <2> QED
    BY <1>2, <1>4, <1>5, <2>1, HandlesStay
<1>6. DOMAIN StopOrder = 1 .. Len(StopOrder) /\ Len(StopOrder) \in Nat
  BY PoolsAssumption
<1>7. CASE Shutdown
  <2>1. UNCHANGED <<threads, task>> /\ down.pc = "no" /\ down' = [down EXCEPT !.pc = "monitor"]
    BY <1>7 DEF Shutdown
  <2>2. down'.pc = "monitor" /\ Lent /\ Lent'
        /\ down' \in [pc : {"no", "monitor", "clear", "flag", "notify", "join", "done"}, at : Nat]
    BY <1>3, <2>1 DEF Lent
  <2> QED
    BY <1>3, <1>5, <2>1, <2>2 DEF MonitorGone
<1>8. CASE JoinMonitor
  <2>1. UNCHANGED <<threads, task>> /\ down.pc = "monitor" /\ monitor.pc = "exit"
        /\ down' = ToPool(1)
    BY <1>8 DEF JoinMonitor
  <2>2. /\ down' \in [pc : {"no", "monitor", "clear", "flag", "notify", "join", "done"}, at : Nat]
        /\ down'.at = 1 /\ down'.pc \in {"clear", "done"}
        /\ down'.pc = "clear" <=> 1 \in DOMAIN StopOrder
    BY <2>1, ToPoolType
  <2>3. ~Lent' /\ Lent /\ MonitorGone'
    BY <1>2, <2>1, <2>2 DEF Lent, MonitorGone
  <2>4. \A i \in DOMAIN StopOrder : ~(down'.pc = "done") /\ ~(i < down'.at)
    BY <1>6, <2>2
  <2> QED
    BY <1>3, <1>5, <2>1, <2>2, <2>3, <2>4
<1>9. ASSUME down.pc \in {"clear", "flag", "notify"}, NEW next \in {"flag", "notify", "join"},
             down' = [down EXCEPT !.pc = next], UNCHANGED threads,
             task' \in [Tasks -> {"new", "queued", "running", "done", "dropped"}]
      PROVE  HandleInv'
  <2>1. /\ down' \in [pc : {"no", "monitor", "clear", "flag", "notify", "join", "done"}, at : Nat]
        /\ down'.pc = next /\ down'.at = down.at /\ down.at \in DOMAIN StopOrder
    BY <1>3, <1>9
  <2>2. ~Lent' /\ ~Lent /\ MonitorGone'
    BY <1>1, <1>2, <1>9, <2>1 DEF Lent, MonitorGone
  <2> QED
    BY <1>5, <1>9, <2>1, <2>2
<1>10. CASE StopClear
  <2>1. down.pc = "clear" /\ down' = [down EXCEPT !.pc = "flag"] /\ UNCHANGED threads
        /\ task' = [t \in Tasks |-> IF t \in Range(queue[Stopping]) THEN "dropped" ELSE task[t]]
    BY <1>10 DEF StopClear
  <2>2. task' \in [Tasks -> {"new", "queued", "running", "done", "dropped"}]
    BY <1>3, <2>1
  <2> QED
    BY <1>9, <2>1, <2>2
<1>11. CASE StopFlag
  BY <1>3, <1>9, <1>11 DEF StopFlag
<1>12. CASE StopNotify
  BY <1>3, <1>9, <1>12 DEF StopNotify
<1>13. CASE StopJoin
  <2>1. /\ down.pc = "join" /\ UNCHANGED <<pc, task>> /\ ~Lent
        /\ down.at \in DOMAIN StopOrder /\ Stopping \in Pools
    BY <1>3, <1>13, PoolsAssumption DEF StopJoin, Lent, Stopping
  <2>2. PICK s \in Pools : s = Stopping
    BY <2>1
  <2>3. CASE threads[s] = <<>> /\ down' = ToPool(down.at + 1) /\ UNCHANGED threads
    <3>1. down.at \in Nat /\ down.at + 1 \in Nat
      BY <1>6, <2>1
    <3>2. /\ down' \in [pc : {"no", "monitor", "clear", "flag", "notify", "join", "done"}, at : Nat]
          /\ down'.at = down.at + 1 /\ down'.pc \in {"clear", "done"}
          /\ down'.pc = "clear" <=> down.at + 1 \in DOMAIN StopOrder
      BY <2>3, <3>1, ToPoolType
    <3>3. ~Lent' /\ MonitorGone'
      BY <1>1, <1>2, <2>1, <3>2 DEF Lent, MonitorGone
    <3>4. \A i \in DOMAIN StopOrder :
             down'.pc = "done" \/ i < down'.at => i < down.at \/ i = down.at
      BY <1>6, <2>1, <3>1, <3>2
    <3>5. threads[StopOrder[down.at]] = <<>>
      BY <2>2, <2>3 DEF Stopping
    <3> QED
      BY <1>3, <1>5, <2>1, <2>3, <3>2, <3>3, <3>4, <3>5
  <2>4. CASE /\ threads[s] # <<>> /\ Joined(Head(threads[s]))
             /\ threads' = [threads EXCEPT ![s] = Tail(@)] /\ UNCHANGED down
    <3> DEFINE n == Len(threads[s])
    <3>1. /\ threads[s] \in Seq(Workers) /\ n \in Nat /\ n > 0 /\ DOMAIN threads[s] = 1 .. n
          /\ Tail(threads[s]) \in Seq(Workers) /\ DOMAIN Tail(threads[s]) = 1 .. n - 1
          /\ \A i \in 1 .. n - 1 : Tail(threads[s])[i] = threads[s][i + 1]
          /\ Head(threads[s]) = threads[s][1]
      BY <1>3, <2>4
    <3>2. /\ threads'[s] = Tail(threads[s]) /\ \A p \in Pools : p # s => threads'[p] = threads[p]
          /\ threads' \in [Pools -> Seq(Workers)]
      BY <1>3, <2>4, <3>1
    <3> HIDE DEF n
    <3>3. ~Lent' /\ MonitorGone'
      BY <1>1, <1>2, <2>1, <2>4 DEF Lent, MonitorGone
    <3>4. RestTypeOK'
      BY <1>1, <1>2, <2>1, <2>4, <3>2 DEF RestTypeOK
    <3>5. NoneTwice'
      <4> DEFINE was(p, i) == IF p = s THEN i + 1 ELSE i
      <4>1. ASSUME NEW p \in Pools, NEW i \in DOMAIN threads'[p]
            PROVE  /\ was(p, i) \in DOMAIN threads[p] /\ threads'[p][i] = threads[p][was(p, i)]
        <5>1. CASE p = s
          <6>1. i \in 1 .. n - 1
            BY <3>1, <3>2, <5>1
          <6>2. i + 1 \in 1 .. n
            BY <3>1, <6>1
          <6> QED
            BY <3>1, <3>2, <5>1, <6>1, <6>2
        <5>2. CASE p # s
          BY <3>2, <5>2
        <5> QED
          BY <5>1, <5>2
      <4> SUFFICES ASSUME NEW p \in Pools, NEW q \in Pools, NEW i \in DOMAIN threads'[p],
                          NEW k \in DOMAIN threads'[q], threads'[p][i] = threads'[q][k]
                   PROVE  p = q /\ i = k
        BY DEF NoneTwice
      <4>2. p = q /\ was(p, i) = was(q, k)
        <5>1. /\ was(p, i) \in DOMAIN threads[p] /\ was(q, k) \in DOMAIN threads[q]
              /\ threads[p][was(p, i)] = threads[q][was(q, k)]
          BY <4>1
        <5> HIDE DEF was
        <5> QED
          BY <5>1 DEF HandleInv, NoneTwice
      <4>3. p = s => i \in Int /\ k \in Int
        BY <3>1, <3>2, <4>2
      <4> QED
        BY <4>2, <4>3
    <3>6. \A w \in Workers : pc'[w] = "exit" \/ \E p \in Pools : Holds(p, w)'
      <4> SUFFICES ASSUME NEW w \in Workers, pc[w] # "exit"
                   PROVE  \E p \in Pools : Holds(p, w)'
        BY <1>4
      <4>1. PICK p \in Pools : \E i \in DOMAIN threads[p] : threads[p][i] = w
        BY DEF HandleInv, HeldOrEnded, Holds
      <4>2. PICK i \in DOMAIN threads[p] : threads[p][i] = w
        BY <4>1
      <4>3. CASE p = s
        <5>1. w # threads[s][1]
          BY <2>4, <3>1 DEF Joined
        <5>2. i - 1 \in 1 .. n - 1 /\ (i - 1) + 1 = i
          BY <3>1, <4>2, <4>3, <5>1
        <5>3. threads'[s][i - 1] = w /\ i - 1 \in DOMAIN threads'[s]
          BY <3>1, <3>2, <4>2, <4>3, <5>2
        <5> QED
          BY <5>3 DEF Holds
      <4>4. CASE p # s
        BY <3>2, <4>2, <4>4 DEF Holds
      <4> QED
        BY <4>3, <4>4
    <3>7. EmptyBehind'
      <4>1. \A i \in DOMAIN StopOrder : StopOrder[i] \in Pools
        BY PoolsAssumption
      <4>2. \A p \in Pools : threads[p] = <<>> => threads'[p] = <<>>
        BY <2>4, <3>2
      <4> QED
        BY <1>1, <2>1, <2>4, <3>3, <4>1, <4>2 DEF EmptyBehind
    <3>8. AllHeld' /\ Lengths' /\ HungryOwesNothing' /\ HeldOrEnded'
      BY <3>3, <3>6 DEF AllHeld, Lengths, HungryOwesNothing, HeldOrEnded
    <3> QED
      BY <3>3, <3>4, <3>5, <3>7, <3>8 DEF HandleInv
  <2> QED
    BY <1>13, <2>2, <2>3, <2>4 DEF StopJoin
<1> QED
  BY <1>7, <1>8, <1>10, <1>11, <1>12, <1>13 DEF StopStep

\* The invariant of the queues and that of the handles.
PoolInv == QueueInv /\ HandleInv

LEMMA PoolInvHolds == Spec => []PoolInv
<1>1. Init => HandleInv
  BY InitHandles
<1>2. PoolInv /\ [Next]_vars => HandleInv'
  <2> SUFFICES ASSUME PoolInv, [Next]_vars PROVE HandleInv'
    OBVIOUS
  <2>1. LoopTypeOK /\ HandleInv
    BY DEF PoolInv, QueueInv
  <2>2. CASE Next
    BY <2>1, <2>2, WorkersKeepHandles, MonitorKeepsHandles, StopKeepsHandles DEF Next
  <2>3. CASE UNCHANGED vars
    <3>1. UNCHANGED <<threads, borrowed, monitor, down, task, pressure, pc>>
      BY <2>3 DEF vars, poolVars
    <3>2. RestTypeOK' /\ MonitorGone' /\ (Lent' <=> Lent)
      BY <2>1, <3>1 DEF HandleInv, RestTypeOK, MonitorGone, Lent
    <3> QED
      BY <2>1, <3>1, <3>2, HandlesStay
  <2> QED
    BY <2>2, <2>3
<1> QED
  BY <1>1, <1>2, QueueInvariant, PTL DEF Spec, PoolInv

\* Every reachable state of the pools is well typed: a ratio is never taken of a pool without
\* workers, and shutdown never stops a pool that is not one.
THEOREM TypeCorrect == Spec => []TypeOK
<1>1. PoolInv => TypeOK
  BY DEF PoolInv, QueueInv, LoopTypeOK, HandleInv, RestTypeOK, TypeOK
<1> QED
  BY <1>1, PoolInvHolds, PTL

\* A handle that is held in one place is counted once.
LEMMA HeldOnce ==
  ASSUME HandleInv, NEW w \in Workers, \E p \in Pools : Holds(p, w)
  PROVE  Times(w) = 1
<1> DEFINE Places == {x \in Pools \X (1 .. Cardinality(Workers)) :
                        x[2] \in DOMAIN threads[x[1]] /\ threads[x[1]][x[2]] = w}
<1>1. PICK p \in Pools : \E i \in DOMAIN threads[p] : threads[p][i] = w
  BY DEF Holds
<1>2. PICK i \in DOMAIN threads[p] : threads[p][i] = w
  BY <1>1
<1>3. threads[p] \in Seq(Workers) /\ Len(threads[p]) \in Nat
      /\ DOMAIN threads[p] = 1 .. Len(threads[p]) /\ NoneTwice
  BY DEF HandleInv, RestTypeOK
<1>4. Len(threads[p]) <= Cardinality(Workers) /\ Cardinality(Workers) \in Nat
  <2> DEFINE n == Len(threads[p])
             s == threads[p]
             T == {s[k] : k \in 1 .. n}
  <2>1. /\ DOMAIN s = 1 .. n /\ s = [k \in 1 .. n |-> s[k]]
        /\ \A k, l \in 1 .. n : s[k] = s[l] => k = l
    BY <1>3 DEF NoneTwice
  <2>2. n \in Nat /\ \A k \in 1 .. n : s[k] \in Workers
    BY <1>3
  <2> HIDE DEF n, s
  <2>3. s \in Surjection(1 .. n, T) /\ s \in Injection(1 .. n, T)
    <3>1. s \in [1 .. n -> T] /\ \A t \in T : \E k \in 1 .. n : s[k] = t
      BY <2>1
    <3> HIDE DEF T
    <3> QED
      BY <2>1, <3>1 DEF Injection, Surjection, IsInjective
  <2>4. IsFiniteSet(T) /\ Cardinality(T) = n
    <3>1. IsFiniteSet(1 .. n) /\ Cardinality(1 .. n) = n
      BY <2>2, FS_Interval
    <3> HIDE DEF T
    <3> QED
      BY <2>3, <3>1, FS_Surjection
  <2>5. T \in SUBSET Workers
    BY <2>2
  <2> HIDE DEF T
  <2>6. Cardinality(T) <= Cardinality(Workers) /\ Cardinality(Workers) \in Nat
    BY <2>5, WorkersAssumption, FS_Subset, FS_CardinalityType
  <2> QED
    BY <2>4, <2>6 DEF n
<1>5. Places = {<<p, i>>}
  <2>1. <<p, i>> \in Places
    <3>1. i \in 1 .. Cardinality(Workers)
      BY <1>3, <1>4
    <3> QED
      BY <1>2, <3>1
  <2>2. ASSUME NEW q \in Pools, NEW k \in DOMAIN threads[q], threads[q][k] = w
        PROVE  q = p /\ k = i
    BY <1>2, <1>3, <2>2 DEF NoneTwice
  <2>3. \A x \in Places : /\ x = <<x[1], x[2]>> /\ x[1] \in Pools
                          /\ x[2] \in DOMAIN threads[x[1]] /\ threads[x[1]][x[2]] = w
    OBVIOUS
  <2> HIDE DEF Places
  <2>4. ASSUME NEW x \in Places PROVE x = <<p, i>>
    <3>1. x[1] = p /\ x[2] = i
      BY <2>2, <2>3
    <3> QED
      BY <2>3, <3>1
  <2> QED
    BY <2>1, <2>4
<1>6. Cardinality({<<p, i>>}) = 1
  BY FS_Singleton
<1> QED
  BY <1>5, <1>6 DEF Times

\* Lending neither loses nor copies a handle, and borrowedCount_ is what a pool has more than it
\* made: so giveWorker never pops from a pool that has none, for any pools, workers and pairs of
\* which no giver is hungry.
THEOREM HandlesBalancedHolds == Spec => []HandlesBalanced
<1>1. PoolInv => HandlesBalanced
  <2> SUFFICES ASSUME PoolInv, down.pc \in {"no", "monitor"}
               PROVE  /\ \A w \in Workers : Times(w) = 1
                      /\ \A p \in Pools : Len(threads[p]) = Cardinality(AtHome(p)) + borrowed[p]
    BY DEF HandlesBalanced
  <2>1. HandleInv /\ Lent
    BY DEF PoolInv, Lent
  <2>2. \A w \in Workers : \E p \in Pools : Holds(p, w)
    BY <2>1 DEF HandleInv, AllHeld
  <2>3. \A w \in Workers : Times(w) = 1
    BY <2>1, <2>2, HeldOnce
  <2> QED
    BY <2>1, <2>3 DEF HandleInv, Lengths
<1> QED
  BY <1>1, PoolInvHolds, PTL

\* When shutdown returns every worker has left its loop, wherever it was lent.
THEOREM NobodyLeftBehindHolds == Spec => []NobodyLeftBehind
<1>1. PoolInv => NobodyLeftBehind
  <2> SUFFICES ASSUME PoolInv, down.pc = "done", NEW w \in Workers
               PROVE  pc[w] = "exit"
    BY DEF NobodyLeftBehind
  <2>1. \A i \in DOMAIN StopOrder : threads[StopOrder[i]] = <<>>
    BY DEF PoolInv, HandleInv, EmptyBehind
  <2>2. \A p \in Pools : threads[p] = <<>>
    BY <2>1, OrderAssumption
  <2>3. \A p \in Pools : ~Holds(p, w)
    BY <2>2 DEF Holds
  <2> QED
    BY <2>3 DEF PoolInv, HandleInv, HeldOrEnded
<1> QED
  BY <1>1, PoolInvHolds, PTL
===============================================================================

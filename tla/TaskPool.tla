------------------------------- MODULE TaskPool -------------------------------
(***************************************************************************)
(* The thread pools of the daemon (vh::concurrency::ThreadPool), the       *)
(* manager that lends workers from one to another, and the shutdown that   *)
(* stops them one by one.                                                  *)
(*                                                                         *)
(* A worker stays in the loop of the pool that made it, its home; what is  *)
(* lent is its std::thread handle and its idle flag.  A task may be a run  *)
(* that submits sub-tasks to its own pool and waits for their futures, as  *)
(* a sync run does in processFutures.                                      *)
(***************************************************************************)
EXTENDS Integers, Sequences, FiniteSets, SequencesExt

CONSTANTS Pools,
          StopOrder,  \* the order in which shutdown stops them: fuse, sync, thumb, http, stats
          Lending,    \* pairs of the pool that is hungry and the one that gives, in this order:
                      \* fuse and http, fuse and stats, sync and thumb
          Workers, Home,     \* Home[w] is the pool whose constructor spawned w
          Tasks, PoolOf,     \* PoolOf[t] is the pool that t is submitted to
          Subs,              \* Subs[t] is the sequence of sub-tasks that t submits and waits for
          NoTask

ASSUME PoolsAssumption == /\ StopOrder \in Seq(Pools) /\ Lending \in Seq(Pools \X Pools)
                          /\ Home \in [Workers -> Pools]
\* Every pool is stopped, and none that gives is hungry in another pair.
ASSUME OrderAssumption == /\ \A p \in Pools : \E i \in DOMAIN StopOrder : StopOrder[i] = p
                          /\ \A i, j \in DOMAIN Lending : Lending[i][1] # Lending[j][2]
ASSUME WorkersAssumption == IsFiniteSet(Workers)
ASSUME TasksAssumption == /\ PoolOf \in [Tasks -> Pools] /\ Subs \in [Tasks -> Seq(Tasks)]
                          /\ NoTask \notin Tasks

VARIABLES queue,     \* ThreadPool::queue
          threads,   \* ThreadPool::threads_ with idleFlags_, which are always changed together
          borrowed,  \* ThreadPool::borrowedCount_, an unsigned number that wraps around
          stopFlag,  \* ThreadPool::stopFlag
          pc, job,   \* where each worker is in its loop, and the task it runs
          task,      \* what has become of every task
          pressure,  \* ThreadPoolManager::pressureFlag_
          monitor,   \* the thread of rebalanceLoop
          down       \* the thread in ThreadPoolManager::shutdown

poolVars == <<queue, threads, borrowed, stopFlag>>
vars == <<poolVars, pc, job, task, pressure, monitor, down>>

AtHome(p) == {w \in Workers : Home[w] = p}

TypeOK ==
  /\ queue \in [Pools -> Seq(Tasks)]
  /\ threads \in [Pools -> Seq(Workers)]
  /\ borrowed \in [Pools -> Int]
  /\ stopFlag \in [Pools -> BOOLEAN]
  /\ pc \in [Workers -> {"test", "block", "wait", "run", "exit"}]
  /\ job \in [Workers -> Tasks \cup {NoTask}]
  /\ task \in [Tasks -> {"new", "queued", "running", "done", "dropped"}]
  /\ pressure \in BOOLEAN
  /\ monitor \in [pc : {"wait", "reassign", "exit"}, pair : Nat, ratio : [Pools -> Nat]]
  /\ down \in [pc : {"no", "monitor", "clear", "flag", "notify", "join", "done"}, at : Nat]
  /\ down.pc \in {"clear", "flag", "notify", "join"} => down.at \in DOMAIN StopOrder

Init ==
  /\ queue = [p \in Pools |-> <<>>]
  /\ threads = [p \in Pools |-> SetToSeq(AtHome(p))]
  /\ borrowed = [p \in Pools |-> 0]
  /\ stopFlag = [p \in Pools |-> FALSE]
  /\ pc = [w \in Workers |-> "test"] /\ job = [w \in Workers |-> NoTask]
  /\ task = [t \in Tasks |-> "new"]
  /\ pressure = FALSE
  /\ monitor = [pc |-> "wait", pair |-> 1, ratio |-> [p \in Pools |-> 0]]
  /\ down = [pc |-> "no", at |-> 1]

-------------------------------------------------------------------------------
(* submit and the loop of a worker.                                        *)

\* A worker holds the mutex of its pool from its test of the condition until it waits.
Locked(p) == \E w \in AtHome(p) : pc[w] = "block"

\* Slip: the mutex is not taken.
NotLocked(p) == FALSE

Excluded(p) == Locked(p)

\* Slip: nobody is told of the new task.
WakeNobody(p) == UNCHANGED pc

\* notify_one: one of the workers that wait, if there is one.
WakeOne(p) ==
  LET waiting == {w \in AtHome(p) : pc[w] = "wait"}
  IN IF waiting = {} THEN UNCHANGED pc
                     ELSE \E w \in waiting : pc' = [pc EXCEPT ![w] = "test"]

\* submit: the task is queued under the mutex, one worker is notified, then the manager.
Enqueue(t) ==
  /\ task[t] = "new" /\ ~Excluded(PoolOf[t])
  /\ queue' = [queue EXCEPT ![PoolOf[t]] = Append(@, t)]
  /\ task' = [task EXCEPT ![t] = "queued"]
  /\ WakeOne(PoolOf[t])
  /\ pressure' = TRUE
  /\ UNCHANGED <<threads, borrowed, stopFlag, job, monitor, down>>

IsSub(t) == \E r \in Tasks : t \in Range(Subs[r])

\* A service submits a task; the services are stopped before the pools.
Submit(t) == down.pc = "no" /\ ~IsSub(t) /\ Enqueue(t)

\* A run submits the next of its sub-tasks.
Push(w) ==
  /\ pc[w] = "run"
  /\ \E i \in DOMAIN Subs[job[w]] :
       /\ \A j \in 1..i - 1 : task[Subs[job[w]][j]] # "new"
       /\ Enqueue(Subs[job[w]][i])

WorkerFrame == UNCHANGED <<threads, borrowed, stopFlag, pressure, monitor, down>>

\* The worker takes the mutex and tests the condition: it takes the oldest task, or leaves the
\* loop when the pool is stopped, or is about to wait, with the mutex in its hands.
Test(w) ==
  LET p == Home[w]
  IN /\ pc[w] = "test" /\ ~Locked(p)
     /\ \/ /\ queue[p] # <<>>
           /\ pc' = [pc EXCEPT ![w] = "run"] /\ job' = [job EXCEPT ![w] = Head(queue[p])]
           /\ task' = [task EXCEPT ![Head(queue[p])] = "running"]
           /\ queue' = [queue EXCEPT ![p] = Tail(@)]
        \/ /\ queue[p] = <<>>
           /\ pc' = [pc EXCEPT ![w] = IF stopFlag[p] THEN "exit" ELSE "block"]
           /\ UNCHANGED <<job, task, queue>>
     /\ WorkerFrame

\* wait gives the mutex back.
Block(w) ==
  /\ pc[w] = "block" /\ pc' = [pc EXCEPT ![w] = "wait"]
  /\ UNCHANGED <<queue, job, task>> /\ WorkerFrame

\* A wait may end without a notification.
SpuriousWakeup(w) ==
  /\ pc[w] = "wait" /\ pc' = [pc EXCEPT ![w] = "test"]
  /\ UNCHANGED <<queue, job, task>> /\ WorkerFrame

\* The futures are got in the order of the sub-tasks; one that was dropped throws.
FuturesDone(t) ==
  \/ \A i \in DOMAIN Subs[t] : task[Subs[t][i]] = "done"
  \/ \E i \in DOMAIN Subs[t] : /\ task[Subs[t][i]] = "dropped"
                               /\ \A j \in 1..i - 1 : task[Subs[t][j]] = "done"

\* The task returns or throws, which the loop swallows.
Finish(w) ==
  /\ pc[w] = "run"
  /\ \A i \in DOMAIN Subs[job[w]] : task[Subs[job[w]][i]] # "new"
  /\ FuturesDone(job[w])
  /\ task' = [task EXCEPT ![job[w]] = "done"]
  /\ pc' = [pc EXCEPT ![w] = "test"] /\ job' = [job EXCEPT ![w] = NoTask]
  /\ UNCHANGED queue /\ WorkerFrame

-------------------------------------------------------------------------------
(* rebalanceLoop.                                                          *)

Ratio(p) == Len(queue[p]) \div (IF threads[p] = <<>> THEN 1 ELSE Len(threads[p]))

MonitorFrame == UNCHANGED <<queue, stopFlag, pc, job, task, down>>

\* Pressure was signalled: the ratios are taken before anything is moved.
Wake ==
  /\ monitor.pc = "wait" /\ pressure /\ down.pc = "no"
  /\ pressure' = FALSE
  /\ monitor' = [pc |-> "reassign", pair |-> 1, ratio |-> [p \in Pools |-> Ratio(p)]]
  /\ UNCHANGED <<threads, borrowed>> /\ MonitorFrame

HasIdle(p) == \E w \in Range(threads[p]) : pc[w] # "run"

\* Slip: the counter of the pool that gives is left alone.
GiveOnly(from, to) == [borrowed EXCEPT ![to] = @ + 1]

Counted(from, to) == [borrowed EXCEPT ![from] = @ - 1, ![to] = @ + 1]

\* giveWorker and acceptWorker: the handle that was put there last, idle or not.
Move(from, to) ==
  /\ threads' = [threads EXCEPT ![from] = Front(@), ![to] = Append(@, Last(threads[from]))]
  /\ borrowed' = Counted(from, to)

\* maybeReassign of one pair.
Reassign ==
  /\ monitor.pc = "reassign" /\ monitor.pair \in DOMAIN Lending
  /\ LET hungry == Lending[monitor.pair][1]
         donor  == Lending[monitor.pair][2]
         steal  == monitor.ratio[hungry] > 4 * monitor.ratio[donor] /\ HasIdle(donor)
         calm   == monitor.ratio[hungry] < 2 /\ borrowed[hungry] # 0
     IN \/ steal /\ Move(donor, hungry)
        \/ ~steal /\ calm /\ Move(hungry, donor)
        \/ ~steal /\ ~calm /\ UNCHANGED <<threads, borrowed>>
  /\ monitor' = [monitor EXCEPT !.pair = @ + 1]
  /\ UNCHANGED pressure /\ MonitorFrame

\* Slip: the condition of the wait is the pressure alone.
PressureOnly == pressure /\ down.pc # "no"

StopSeen == down.pc # "no"

\* All pairs are done; or the manager is being shut down while nothing is moved.
MonitorEnds ==
  /\ \/ /\ monitor.pc = "reassign" /\ monitor.pair \notin DOMAIN Lending
        /\ monitor' = [pc |-> "wait", pair |-> 1, ratio |-> [p \in Pools |-> 0]]
     \/ /\ monitor.pc = "wait" /\ StopSeen
        /\ monitor' = [monitor EXCEPT !.pc = "exit"]
  /\ UNCHANGED <<threads, borrowed, pressure>> /\ MonitorFrame

-------------------------------------------------------------------------------
(* shutdown, and stop of each pool in turn.                                *)

DownFrame == UNCHANGED <<borrowed, job, pressure, monitor>>

Shutdown ==
  /\ down.pc = "no" /\ down' = [down EXCEPT !.pc = "monitor"]
  /\ UNCHANGED <<queue, threads, stopFlag, pc, task>> /\ DownFrame

\* The pool that is being stopped.
Stopping == StopOrder[down.at]

\* The next pool, or the end.
ToPool(i) == [pc |-> IF i \in DOMAIN StopOrder THEN "clear" ELSE "done", at |-> i]

JoinMonitor ==
  /\ down.pc = "monitor" /\ monitor.pc = "exit" /\ down' = ToPool(1)
  /\ UNCHANGED <<queue, threads, stopFlag, pc, task>> /\ DownFrame

\* The queue is swapped for an empty one, under the mutex.
StopClear ==
  /\ down.pc = "clear" /\ ~Locked(Stopping)
  /\ task' = [t \in Tasks |-> IF t \in Range(queue[Stopping]) THEN "dropped" ELSE task[t]]
  /\ queue' = [queue EXCEPT ![Stopping] = <<>>]
  /\ down' = [down EXCEPT !.pc = "flag"]
  /\ UNCHANGED <<threads, stopFlag, pc>> /\ DownFrame

\* The flag is stored without the mutex.
StopFlag ==
  /\ down.pc = "flag" /\ stopFlag' = [stopFlag EXCEPT ![Stopping] = TRUE]
  /\ down' = [down EXCEPT !.pc = "notify"]
  /\ UNCHANGED <<queue, threads, pc, task>> /\ DownFrame

\* notify_all.
WakeAll(p) == pc' = [w \in Workers |-> IF Home[w] = p /\ pc[w] = "wait" THEN "test" ELSE pc[w]]

StopNotify ==
  /\ down.pc = "notify" /\ WakeAll(Stopping)
  /\ down' = [down EXCEPT !.pc = "join"]
  /\ UNCHANGED <<queue, threads, stopFlag, task>> /\ DownFrame

\* Slip: the time that stop is given bounds the join.
TimedOut(w) == TRUE

\* join returns when the thread has ended; the time is only looked at before it.
Joined(w) == pc[w] = "exit"

\* The handles are joined in turn; after the last one the next pool is stopped.
StopJoin ==
  /\ down.pc = "join"
  /\ \/ /\ threads[Stopping] # <<>> /\ Joined(Head(threads[Stopping]))
        /\ threads' = [threads EXCEPT ![Stopping] = Tail(@)] /\ UNCHANGED down
     \/ /\ threads[Stopping] = <<>> /\ down' = ToPool(down.at + 1) /\ UNCHANGED threads
  /\ UNCHANGED <<queue, stopFlag, pc, task>> /\ DownFrame

WorkerStep(w) == Test(w) \/ Block(w) \/ Push(w) \/ Finish(w)
MonitorStep   == Wake \/ Reassign \/ MonitorEnds
StopStep      == JoinMonitor \/ StopClear \/ StopFlag \/ StopNotify \/ StopJoin

Next == \/ \E t \in Tasks : Submit(t)
        \/ \E w \in Workers : WorkerStep(w) \/ SpuriousWakeup(w)
        \/ MonitorStep \/ Shutdown \/ StopStep

Spec == Init /\ [][Next]_vars

\* Workers, the monitor and the thread that shuts down run when they can; a mutex that is free
\* again and again is had in the end.
Fairness == /\ \A w \in Workers : SF_vars(WorkerStep(w))
            /\ WF_vars(MonitorStep) /\ SF_vars(StopStep)

FairSpec == Spec /\ Fairness

-------------------------------------------------------------------------------
(* Properties.                                                             *)

\* How often the handle of w is held.
Times(w) ==
  Cardinality({x \in Pools \X (1..Cardinality(Workers)) :
                 x[2] \in DOMAIN threads[x[1]] /\ threads[x[1]][x[2]] = w})

\* Lending neither loses nor copies a handle, and a pool has as many as it made and has
\* borrowed: so no pool that owes a worker has none to give, which would end the monitor and
\* the process with an exception, and shutdown joins every thread.
HandlesBalanced ==
  down.pc \in {"no", "monitor"} =>
    /\ \A w \in Workers : Times(w) = 1
    /\ \A p \in Pools : Len(threads[p]) = Cardinality(AtHome(p)) + borrowed[p]

\* A task in the queue of a pool that is not stopped is never forgotten: some worker is awake
\* that will look at the queue, whatever wake-ups and tests interleave.
NoTaskForgotten ==
  \A p \in Pools : queue[p] # <<>> /\ ~stopFlag[p] /\ AtHome(p) # {} =>
                     \E w \in AtHome(p) : pc[w] \in {"test", "run"}

\* After shutdown no worker is alive, and none is still in a task.
NobodyLeftBehind == down.pc = "done" => \A w \in Workers : pc[w] = "exit"

\* A run that waits for a sub-task that is not done.
Waiting(w) == /\ pc[w] = "run" /\ ~FuturesDone(job[w])
              /\ \A i \in DOMAIN Subs[job[w]] : task[Subs[job[w]][i]] # "new"

\* All workers of a pool wait for tasks in its queue, or have left.
Starved(p) == /\ \E w \in AtHome(p) : Waiting(w)
              /\ \A w \in AtHome(p) : Waiting(w) \/ pc[w] = "exit"

\* What is submitted is run, unless all workers of the pool wait for sub-tasks, or the pools are
\* shut down.
SubmittedIsRun ==
  \A t \in Tasks : task[t] = "queued" ~>
                     task[t] \in {"done", "dropped"} \/ Starved(PoolOf[t]) \/ down.pc # "no"

\* The three ways in which stop may wait for ever in join: for a worker that another pool has
\* lent, for one that missed the notification, and for a run that nobody is left to serve.
LentAway     == \E p \in Pools : \E w \in Range(threads[p]) : Home[w] # p
MissedWakeup == \E w \in Workers : pc[w] = "wait" /\ stopFlag[Home[w]]

\* Shutdown comes to its end otherwise.
ShutdownEndsOrHangs ==
  down.pc # "no" ~> \/ down.pc = "done" \/ LentAway \/ MissedWakeup
                    \/ \E p \in Pools : Starved(p)

===============================================================================

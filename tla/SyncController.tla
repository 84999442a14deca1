---------------------------- MODULE SyncController ----------------------------
(***************************************************************************)
(* The scheduler of vault synchronisation: vh::sync::Controller (one       *)
(* service thread), the per-vault task objects it schedules                *)
(* (vh::sync::Local and its subclass Cloud, run by workers of the sync     *)
(* thread pool), the sync event every run of a vault shares through its    *)
(* storage::Engine, and the threads that call runNow.                      *)
(*                                                                         *)
(* What a run does to files is left to other modules: here a run is a      *)
(* number of stages, each followed by a look at the interrupt flag; one    *)
(* that ends well and is not the last changes nothing.  Time is the        *)
(* predicate due[t]: next_run of task t has been reached.                  *)
(***************************************************************************)
EXTENDS Naturals, FiniteSets

CONSTANTS Vaults,        \* vault ids the database may hand out
          InitialVaults, \* those that exist when the daemon starts
          Tasks,         \* task objects that may be created
          Events,        \* sync event objects that may be live at once
          Callers,       \* threads that call runNow
          NoTask, NoEvent, NoVault,
          Workers,       \* workers of the sync pool
          MaxFaults,     \* bound: failures injected in one behaviour
          MaxRequests,   \* bound: calls of runNow in one behaviour
          VaultOps       \* bound: whether vaults are added and removed at all

ASSUME VaultsAssumption == Vaults \subseteq Nat \ {0} /\ InitialVaults \subseteq Vaults
ASSUME NullAssumption == NoTask \notin Tasks /\ NoEvent \notin Events /\ NoVault \notin Vaults
ASSUME BoundsAssumption == /\ Workers \in Nat \ {0} /\ MaxFaults \in Nat /\ MaxRequests \in Nat
                           /\ VaultOps \in BOOLEAN

VARIABLES engines,     \* storage::Manager::engines_, the vaults getEngines lists
          rows,        \* the vault table
          nextId,      \* its id sequence
          aborted,     \* the process has died on an assertion
          taskMap,     \* Controller::taskMap_
          heap,        \* Controller::pq, how often each task is in it
          ctl,         \* where the service thread is
          hand,        \* the task it has popped and not yet disposed of
          todo,        \* engines that refreshEngines has still to process
          pool,        \* queue of the sync thread pool
          vaultOf,     \* the vault a task was created for
          due,         \* next_run <= now
          interrupted, \* Local::interruptFlag
          running,     \* Local::runningFlag
          pc,          \* where a worker is in Local::operator()
          evOf,        \* Local::event, while a run uses it
          latest,      \* Engine::latestSyncEvent
          status,      \* Event::status
          spoiled,     \* error_message is set, or an operation failed
          caller,      \* where each caller of runNow is
          faults, requests

adminVars == <<engines, rows, nextId, aborted>>
loopVars  == <<taskMap, ctl, todo>>
queueVars == <<heap, hand, pool>>
taskVars  == <<vaultOf, due, interrupted>>
runVars   == <<running, pc, evOf>>
eventVars == <<latest, status, spoiled>>
vars == <<adminVars, loopVars, queueVars, taskVars, runVars, eventVars, caller, faults, requests>>

Terminal == {"success", "error"}   \* Event::Status; nothing ever sets CANCELLED

NoCall == [pc |-> "idle", vault |-> NoVault, task |-> NoTask]

\* Where a worker can be in Local::operator(), and "idle": no worker is in it.
Labels == {"idle", "event", "create", "adopt", "stages", "subtasks", "stop", "parse", "finish"}

TypeOK ==
  /\ engines \subseteq Vaults /\ rows \subseteq Vaults /\ nextId \in Nat
  /\ aborted \in BOOLEAN
  /\ taskMap \in [Vaults -> Tasks \cup {NoTask}]
  /\ heap \in [Tasks -> Nat] /\ pool \in [Tasks -> Nat]
  /\ ctl \in {"start", "create", "loop", "hand", "down"}
  /\ hand \in Tasks \cup {NoTask}
  /\ todo \subseteq Vaults
  /\ vaultOf \in [Tasks -> Vaults \cup {NoVault}]
  /\ due \in [Tasks -> BOOLEAN]
  /\ interrupted \in [Tasks -> BOOLEAN]
  /\ running \in [Tasks -> BOOLEAN]
  /\ pc \in [Tasks -> Labels]
  /\ evOf \in [Tasks -> Events \cup {NoEvent}]
  /\ latest \in [Vaults -> Events \cup {NoEvent}]
  /\ status \in [Events -> {"pending", "running"} \cup Terminal]
  /\ spoiled \in [Events -> BOOLEAN]
  /\ caller \in [Callers -> [pc : {"idle", "interrupt", "wait", "insert"},
                             vault : Vaults \cup {NoVault}, task : Tasks \cup {NoTask}]]
  /\ faults \in Nat /\ requests \in Nat

\* The daemon has started: initStorageEngines has listed every vault, nothing is scheduled.
Init ==
  /\ engines = InitialVaults /\ rows = InitialVaults
  /\ nextId \in InitialVaults \cup {0} /\ \A v \in InitialVaults : v <= nextId
  /\ aborted = FALSE
  /\ taskMap = [v \in Vaults |-> NoTask]
  /\ heap = [t \in Tasks |-> 0] /\ pool = [t \in Tasks |-> 0] /\ hand = NoTask
  /\ ctl = "start" /\ todo = {}
  /\ vaultOf = [t \in Tasks |-> NoVault]
  /\ due = [t \in Tasks |-> FALSE]
  /\ interrupted = [t \in Tasks |-> FALSE]
  /\ running = [t \in Tasks |-> FALSE]
  /\ pc = [t \in Tasks |-> "idle"]
  /\ evOf = [t \in Tasks |-> NoEvent] /\ latest = [v \in Vaults |-> NoEvent]
  /\ status = [e \in Events |-> "pending"] /\ spoiled = [e \in Events |-> FALSE]
  /\ caller = [c \in Callers |-> NoCall]
  /\ faults = 0 /\ requests = 0

Fault == faults < MaxFaults /\ faults' = faults + 1

\* createTask: a new object for vault v, put in the map and in the heap.
Schedule(v, isDue) ==
  /\ \E t \in Tasks : vaultOf[t] = NoVault
  /\ LET t == CHOOSE new \in Tasks : vaultOf[new] = NoVault
     IN /\ vaultOf' = [vaultOf EXCEPT ![t] = v]
        /\ due' = [due EXCEPT ![t] = isDue]
        /\ taskMap' = [taskMap EXCEPT ![v] = t]
        /\ heap' = [heap EXCEPT ![t] = @ + 1]

-------------------------------------------------------------------------------
(* The service thread: Controller::runLoop.                                *)

LoopFrame == UNCHANGED <<engines, rows, nextId, interrupted, runVars, eventVars, caller, requests>>

\* maxVaultId() + 1 is the size of the bitset that pruneStaleTasks indexes by vault id.
BitsetTooSmall == \E v \in engines : \A r \in rows : r < v

\* refreshEngines up to the loop over the engines.  It runs when the loop starts, when the
\* heap is empty and every five minutes; a set outside the bitset fails boost's assertion.
Refresh ==
  /\ ctl \in {"start", "loop"} /\ rows # {}
  /\ IF BitsetTooSmall
     THEN aborted' = TRUE /\ UNCHANGED loopVars
     ELSE /\ taskMap' = [v \in Vaults |-> IF v \in engines THEN taskMap[v] ELSE NoTask]
          /\ todo' = engines
          /\ ctl' = IF engines = {} THEN "loop" ELSE "create"
          /\ UNCHANGED aborted
  /\ UNCHANGED <<queueVars, vaultOf, due, faults>> /\ LoopFrame

\* The query for the largest id throws out of runLoop, always when the table is empty (the
\* maximum is NULL), and the service is down.
RefreshFails ==
  /\ ctl \in {"start", "loop"} /\ ctl' = "down"
  /\ \/ rows = {} /\ UNCHANGED faults
     \/ Fault
  /\ UNCHANGED <<aborted, taskMap, todo, queueVars, vaultOf, due>> /\ LoopFrame

\* The watchdog starts the service again; the heap and the map are members and survive.
WatchdogRestart ==
  /\ ctl = "down" /\ ctl' = "start"
  /\ UNCHANGED <<aborted, taskMap, todo, queueVars, vaultOf, due, faults>> /\ LoopFrame

\* Slip: a vault that has a task is queued once more.
QueueAgain(v) == /\ heap' = [heap EXCEPT ![taskMap[v]] = @ + 1]
                 /\ UNCHANGED <<taskMap, vaultOf, due>>

\* A vault that has a task keeps it.
KeepTask(v) == UNCHANGED <<heap, taskMap, vaultOf, due>>

\* processTask for one engine: a vault without a task gets one, due an interval after its
\* last_sync_at.
ProcessTask(v) ==
  /\ ctl = "create" /\ v \in todo
  /\ todo' = todo \ {v}
  /\ ctl' = IF todo = {v} THEN "loop" ELSE "create"
  /\ IF taskMap[v] # NoTask THEN KeepTask(v) ELSE Schedule(v, FALSE)
  /\ UNCHANGED <<aborted, hand, pool, faults>> /\ LoopFrame

\* Slip: pop without having looked whether the heap is empty.
TopUnchecked(t) == TRUE

\* The top of the heap has the smallest next_run: it is due whenever any task in the heap is.
Top(t) == heap[t] > 0 /\ (due[t] \/ \A u \in Tasks : heap[u] > 0 => ~due[u])

\* Slip: the loop does not ask whether the task was cancelled.
DiscardNone(t) == FALSE

Discard(t) == interrupted[t]

PopTop(t) ==
  /\ ctl = "loop" /\ Top(t)
  /\ heap' = [heap EXCEPT ![t] = @ - 1]
  /\ IF Discard(t) THEN UNCHANGED <<hand, ctl>> ELSE hand' = t /\ ctl' = "hand"
  /\ UNCHANGED <<aborted, taskMap, todo, pool, vaultOf, due, faults>> /\ LoopFrame

\* Slip: a task that is not due is forgotten.
Forget(t) == UNCHANGED heap

PutBack(t) == heap' = [heap EXCEPT ![t] = @ + 1]

\* Slip: the comparison with the clock is the wrong way round.
NotReady(t) == ~due[t]

Ready(t) == due[t]

\* A due task goes to the pool, another one back into the heap.
Dispatch ==
  /\ ctl = "hand"
  /\ IF Ready(hand) THEN pool' = [pool EXCEPT ![hand] = @ + 1] /\ UNCHANGED heap
                    ELSE PutBack(hand) /\ UNCHANGED pool
  /\ hand' = NoTask /\ ctl' = "loop"
  /\ UNCHANGED <<aborted, taskMap, todo, vaultOf, due, faults>> /\ LoopFrame

\* The clock reaches next_run of a task that waits for it.
Elapse(t) ==
  /\ heap[t] > 0 \/ hand = t
  /\ ~due[t] /\ due' = [due EXCEPT ![t] = TRUE]
  /\ UNCHANGED <<aborted, loopVars, queueVars, vaultOf, faults>> /\ LoopFrame

-------------------------------------------------------------------------------
(* A worker of the sync pool: Local::operator() of task t.                 *)

RunFrame == UNCHANGED <<adminVars, loopVars, hand, vaultOf, interrupted, caller, requests>>

\* A statement of a run throws: the database refuses it, or it names a vault that is gone.
Throws(t) == (vaultOf[t] \notin rows /\ UNCHANGED faults) \/ Fault

\* The worker is done with t, whose event matters to nobody until its next run.  Its catch-all
\* swallows what startTask and shutdown throw, and nothing lowers runningFlag then.
Leave(t) == pc' = [pc EXCEPT ![t] = "idle"] /\ evOf' = [evOf EXCEPT ![t] = NoEvent]

Goto(t, label) == pc' = [pc EXCEPT ![t] = label] /\ UNCHANGED evOf

\* A run keeps its worker from startTask to the end of shutdown, whatever it waits for.
FreeWorker == Cardinality({u \in Tasks : pc[u] # "idle"}) < Workers

\* A worker takes t from the queue; startTask raises runningFlag.
StartRun(t) ==
  /\ pool[t] > 0 /\ FreeWorker
  /\ pool' = [pool EXCEPT ![t] = @ - 1]
  /\ Goto(t, "event") /\ running' = [running EXCEPT ![t] = TRUE]
  /\ UNCHANGED <<heap, due, eventVars, faults>> /\ RunFrame

\* The object behind a new event of v: the one that latest[v] lets go, unless a run holds it.
Held(v) == {evOf[u] : u \in Tasks} \cup {latest[w] : w \in Vaults \ {v}}
NewEvent(v) == IF latest[v] \in Events \ Held(v) THEN latest[v]
                                                 ELSE CHOOSE e \in Events : e \notin Held(v)

\* reportSyncStarted, then the first half of Engine::newSyncEvent: the last event is saved, and
\* kept unless it ended well.
NewSyncEvent(t) ==
  /\ pc[t] = "event"
  /\ LET v == vaultOf[t]
         last == latest[v]
     IN \/ (Fault \/ (last # NoEvent /\ Throws(t))) /\ Leave(t)
        \/ /\ last # NoEvent /\ v \in rows /\ status[last] # "success"
           /\ Goto(t, "adopt") /\ UNCHANGED faults
        \/ /\ last # NoEvent => v \in rows /\ status[last] = "success"
           /\ Goto(t, "create") /\ UNCHANGED faults
  /\ UNCHANGED <<heap, pool, due, running, eventVars>> /\ RunFrame

\* The second half: a new event becomes the latest one, whatever another run of the vault has
\* made of it meanwhile, and is then created in the database.
CreateEvent(t) ==
  /\ pc[t] = "create"
  /\ LET v == vaultOf[t]
     IN /\ \E e \in Events : e \notin Held(v)
        /\ latest' = [latest EXCEPT ![v] = NewEvent(v)]
        /\ status' = [status EXCEPT ![NewEvent(v)] = "pending"]
        /\ spoiled' = [spoiled EXCEPT ![NewEvent(v)] = FALSE]
        /\ \/ v \in rows /\ Goto(t, "adopt") /\ UNCHANGED faults
           \/ Throws(t) /\ Leave(t)
  /\ UNCHANGED <<heap, pool, due, running>> /\ RunFrame

\* The rest of startTask: the run takes the engine's latest event and marks it running.
AdoptEvent(t) ==
  /\ pc[t] = "adopt"
  /\ status' = [status EXCEPT ![latest[vaultOf[t]]] = "running"]
  /\ \/ /\ vaultOf[t] \in rows /\ UNCHANGED faults
        /\ pc' = [pc EXCEPT ![t] = "stages"]
        /\ evOf' = [evOf EXCEPT ![t] = latest[vaultOf[t]]]
     \/ Throws(t) /\ Leave(t)
  /\ UNCHANGED <<heap, pool, due, running, latest, spoiled>> /\ RunFrame

\* handleError, on the event of the run.
HandleError(t) == /\ spoiled' = [spoiled EXCEPT ![evOf[t]] = TRUE]
                  /\ status' = [status EXCEPT ![evOf[t]] = "error"]

\* A stage that deletes, moves or rotates files pushes its sub-tasks into the queue of the sync
\* pool and blocks in processFutures; the interrupt flag is not looked at there.
AwaitSubtasks(t) ==
  /\ pc[t] = "stages" /\ Goto(t, "subtasks")
  /\ UNCHANGED <<heap, pool, due, running, eventVars, faults>> /\ RunFrame

\* The sub-tasks need a worker other than those that are in a run; then the last future is set.
SubtasksDone(t) ==
  /\ pc[t] = "subtasks" /\ FreeWorker /\ Goto(t, "stages")
  /\ UNCHANGED <<heap, pool, due, running, eventVars, faults>> /\ RunFrame

\* The last stage ends, or handleInterrupt sees the flag after any stage.
StageEnds(t) ==
  /\ pc[t] = "stages" /\ Goto(t, "stop")
  /\ IF interrupted[t] THEN HandleError(t) ELSE UNCHANGED <<status, spoiled>>
  /\ UNCHANGED <<heap, pool, due, running, latest, faults>> /\ RunFrame

\* A stage fails.  An exception is recorded by handleError and ends the run, except that a
\* Cloud run goes on after its shared stage.  A sub-task or a pending operation that is not
\* marked successful is only counted.  An exception of the key rotation lowers runningFlag
\* and is recorded nowhere.
StageFails(t) ==
  /\ pc[t] = "stages" /\ Fault
  /\ \/ HandleError(t) /\ Goto(t, "stop") /\ UNCHANGED running
     \/ HandleError(t) /\ ~interrupted[t] /\ UNCHANGED runVars
     \/ spoiled' = [spoiled EXCEPT ![evOf[t]] = TRUE] /\ UNCHANGED <<runVars, status>>
     \/ /\ running' = [running EXCEPT ![t] = FALSE] /\ Goto(t, "stop")
        /\ UNCHANGED <<status, spoiled>>
  /\ UNCHANGED <<heap, pool, due, latest>> /\ RunFrame

\* Slip: shutdown leaves runningFlag up.
LeaveFlag(t) == UNCHANGED running

LowerFlag(t) == running' = [running EXCEPT ![t] = FALSE]

\* shutdown lowers runningFlag first.
StopRunning(t) ==
  /\ pc[t] = "stop" /\ Goto(t, "parse") /\ LowerFlag(t)
  /\ UNCHANGED <<heap, pool, due, eventVars, faults>> /\ RunFrame

\* parseCurrentStatus of an event that has begun and ended, then saveSyncEvent.
ParseStatus(t) ==
  /\ pc[t] = "parse"
  /\ LET e == evOf[t]
     IN status' = [status EXCEPT ![e] = IF @ \in Terminal THEN @
                                        ELSE IF spoiled[e] THEN "error" ELSE "success"]
  /\ \/ vaultOf[t] \in rows /\ Goto(t, "finish") /\ UNCHANGED faults
     \/ Throws(t) /\ Leave(t)
  /\ UNCHANGED <<heap, pool, due, running, latest, spoiled>> /\ RunFrame

\* The end of shutdown: only a run whose event says success puts its task back in the heap.
FinishRun(t) ==
  /\ pc[t] = "finish" /\ Leave(t)
  /\ \/ /\ status[evOf[t]] = "success"
        /\ heap' = [heap EXCEPT ![t] = @ + 1] /\ due' = [due EXCEPT ![t] = FALSE]
        /\ UNCHANGED faults
     \/ status[evOf[t]] = "success" /\ Fault /\ UNCHANGED <<heap, due>>
     \/ status[evOf[t]] # "success" /\ UNCHANGED <<heap, due, faults>>
  /\ UNCHANGED <<pool, running, eventVars>> /\ RunFrame

RunStep(t) == \/ NewSyncEvent(t) \/ CreateEvent(t) \/ AdoptEvent(t)
              \/ AwaitSubtasks(t) \/ SubtasksDone(t) \/ StageEnds(t) \/ StageFails(t)
              \/ StopRunning(t) \/ ParseStatus(t) \/ FinishRun(t)

-------------------------------------------------------------------------------
(* Controller::runNow, called by request handlers and the shell.           *)

CallFrame == UNCHANGED <<adminVars, ctl, todo, hand, pool, runVars, eventVars, faults>>

\* The task of the vault is looked up; a vault without one is an error and nothing happens.
RunNowLookup(c, v) ==
  /\ caller[c].pc = "idle" /\ taskMap[v] # NoTask /\ requests < MaxRequests
  /\ caller' = [caller EXCEPT ![c] = [pc |-> "interrupt", vault |-> v, task |-> taskMap[v]]]
  /\ requests' = requests + 1
  /\ UNCHANGED <<taskMap, heap, taskVars>> /\ CallFrame

\* Slip: runNow only waits for the run to end.
LetRun(t) == UNCHANGED interrupted

Interrupt(t) == interrupted' = [interrupted EXCEPT ![t] = TRUE]

RunNowInterrupt(c) ==
  /\ caller[c].pc = "interrupt"
  /\ Interrupt(caller[c].task)
  /\ caller' = [caller EXCEPT ![c].pc = "wait"]
  /\ UNCHANGED <<taskMap, heap, vaultOf, due, requests>> /\ CallFrame

\* The polling loop sees runningFlag lowered.
RunNowWaited(c) ==
  /\ caller[c].pc = "wait" /\ ~running[caller[c].task]
  /\ caller' = [caller EXCEPT ![c].pc = "insert"]
  /\ UNCHANGED <<taskMap, heap, taskVars, requests>> /\ CallFrame

\* A new task, due at once, replaces the one in the map.
RunNowInsert(c) ==
  /\ caller[c].pc = "insert"
  /\ Schedule(caller[c].vault, TRUE)
  /\ caller' = [caller EXCEPT ![c] = NoCall]
  /\ UNCHANGED <<interrupted, requests>> /\ CallFrame

RunNowStep(c) == RunNowInterrupt(c) \/ RunNowWaited(c) \/ RunNowInsert(c)

-------------------------------------------------------------------------------
(* storage::Manager, called by request handlers and the shell.             *)

AdminFrame == UNCHANGED <<aborted, loopVars, queueVars, taskVars, runVars, eventVars, caller,
                          faults, requests>>

\* The id sequence gives the next vault its id; addVault lists its engine, initUserStorage
\* (the vault of a new user) enters only the id map, which getEngines does not read.
AddVault(v, listed) ==
  /\ VaultOps /\ v = nextId + 1 /\ nextId' = v /\ rows' = rows \cup {v}
  /\ engines' = IF listed THEN engines \cup {v} ELSE engines
  /\ AdminFrame

\* removeVault deletes the row and the entry of the id map; the engine stays listed.
RemoveVault(v) ==
  /\ VaultOps /\ v \in rows /\ rows' = rows \ {v}
  /\ UNCHANGED <<engines, nextId>> /\ AdminFrame

Next ==
  /\ ~aborted
  /\ \/ Refresh \/ RefreshFails \/ WatchdogRestart \/ Dispatch
     \/ \E t \in Tasks : PopTop(t) \/ Elapse(t) \/ StartRun(t) \/ RunStep(t)
     \/ \E c \in Callers : RunNowStep(c)
     \/ \E v \in Vaults : \/ ProcessTask(v) \/ RemoveVault(v)
                          \/ \E c \in Callers : RunNowLookup(c, v)
                          \/ \E listed \in BOOLEAN : AddVault(v, listed)

Spec == Init /\ [][Next]_vars

\* The service thread never stays in one step, time passes, a pool worker that may go on goes
\* on, and a waiting caller polls again and again.  The heap serves the smallest next_run and
\* the pool is first in, first out, so neither passes over one task, or its sub-tasks, for ever
\* while workers come free; a run has a fixed number of stages, so one of them is the last.
Fairness ==
  /\ WF_vars(~aborted /\ (\/ ctl = "start" /\ Refresh
                          \/ WatchdogRestart \/ Dispatch
                          \/ \E v \in Vaults : ProcessTask(v)))
  /\ \A t \in Tasks : /\ SF_vars(~aborted /\ (PopTop(t) \/ StartRun(t) \/ SubtasksDone(t)))
                      /\ SF_vars(~aborted /\ StageEnds(t))
                      /\ WF_vars(~aborted /\ (Elapse(t) \/ RunStep(t)))
  /\ \A c \in Callers : WF_vars(~aborted /\ RunNowStep(c))

FairSpec == Spec /\ Fairness

-------------------------------------------------------------------------------
(* Properties.                                                             *)

\* In how many places of the scheduler a task is.
Copies(t) == heap[t] + pool[t] + (IF hand = t THEN 1 ELSE 0) + (IF pc[t] = "idle" THEN 0 ELSE 1)

\* A task object is scheduled once: it is never in the heap, in the loop's hand, in the pool's
\* queue or under a worker at the same time or twice, whatever races with requeue and runNow.
\* Two workers in one Local object would share its futures and its event.
SinglePlace == \A t \in Tasks : Copies(t) <= 1

\* The place of a task, and the promise of TaskLifecycle about it.
PlaceOf(t) == IF vaultOf[t] = NoVault THEN "none"
              ELSE IF heap[t] > 0         THEN "heap"
              ELSE IF hand = t            THEN "hand"
              ELSE IF pool[t] > 0         THEN "pool"
              ELSE IF pc[t] # "idle"      THEN "run"
              ELSE "gone"

Life == INSTANCE TaskLifecycle WITH place <- [t \in Tasks |-> PlaceOf(t)],
                                    cancelled <- interrupted

\* The scheduler keeps what TaskLifecycle promises: every task follows heap, hand, pool, worker
\* and back, and one that was cancelled while it waited in the heap is never started again.
LifecycleKept == Life!LifeSpec

\* As long as no two calls of runNow for one vault overlap, a scheduled task that is not
\* cancelled is the one the map knows: no vault has a second task that nothing can interrupt.
SoleLiveTask == \A t \in Tasks : Copies(t) > 0 /\ ~interrupted[t] => taskMap[vaultOf[t]] = t

\* Where nothing fails and no two calls of runNow for one vault overlap, a mapped task of an
\* existing vault leaves the schedule only because it was cancelled, or its event carries an
\* error, or a cancelled task of the vault is in a run that will put an error there.
DroppedOnlyBehindAnError ==
  faults = 0 =>
    \A v \in rows :
      LET t == taskMap[v]
      IN t # NoTask /\ Copies(t) = 0 =>
           \/ interrupted[t]
           \/ latest[v] # NoEvent /\ spoiled[latest[v]]
           \/ \E u \in Tasks : vaultOf[u] = v /\ interrupted[u]
                               /\ pc[u] \in {"adopt", "stages", "subtasks"}

\* A run of vault v ends well.
Synced(v) == \E t \in Tasks : /\ vaultOf[t] = v /\ pc[t] = "finish"
                             /\ status[evOf[t]] = "success"

\* The task that the map knows for v is somewhere in the schedule.
Scheduled(v) == taskMap[v] # NoTask /\ Copies(taskMap[v]) > 0

\* Every worker is in a run that waits for its sub-tasks: nobody is left to do them.
Starved == Cardinality({t \in Tasks : pc[t] = "subtasks"}) = Workers

\* A vault whose task stays in the schedule is synchronised again and again, whatever runNow,
\* failures and a restart of the service do to it and to the other vaults, unless from some
\* time on all workers of the pool wait for sub-tasks: one that waits alone does no harm.
ScheduledIsServed ==
  \A v \in InitialVaults : []<>Synced(v) \/ <>[]~Scheduled(v) \/ <>aborted \/ <>[]Starved

\* runNow returns, its polling of runningFlag ends, unless something failed before or all
\* workers wait for sub-tasks: a run that waits for its own does not see that it is cancelled.
RunNowReturns ==
  \A c \in Callers : caller[c].pc # "idle" ~> caller[c].pc = "idle" \/ faults > 0 \/ Starved

===============================================================================

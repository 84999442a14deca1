------------------------ MODULE SyncControllerProofs ------------------------
(***************************************************************************)
(* What holds of SyncController for every number of vaults, tasks, events, *)
(* workers and callers: every task is in one place (PlaceInv), and the     *)
(* scheduler implements TaskLifecycle.  If no two calls of runNow overlap, *)
(* a live task that is not cancelled is the mapped one (SoleInv), and      *)
(* requeueing drops one only behind an error (DropInv).                    *)
(***************************************************************************)
EXTENDS SyncController, TLAPS

\* createTask finds an object that has not been created yet.
LEMMA NewTaskIsFresh ==
  ASSUME \E t \in Tasks : vaultOf[t] = NoVault
  PROVE  LET t == CHOOSE new \in Tasks : vaultOf[new] = NoVault
         IN t \in Tasks /\ vaultOf[t] = NoVault
  OBVIOUS

\* The object behind a new event is one of Events.
LEMMA NewEventIsEvent ==
  ASSUME NEW v, \E e \in Events : e \notin Held(v)
  PROVE  NewEvent(v) \in Events
  BY DEF NewEvent

\* A counter of the heap or of the pool stays a counter.
LEMMA OneMore ==
  ASSUME NEW count \in [Tasks -> Nat], NEW t \in Tasks
  PROVE  [count EXCEPT ![t] = @ + 1] \in [Tasks -> Nat]
  OBVIOUS

USE VaultsAssumption, NullAssumption, BoundsAssumption DEF VaultsAssumption, NullAssumption, BoundsAssumption

-----------------------------------------------------------------------------
(* Types.                                                                   *)

LEMMA InitTypeOK == Init => TypeOK
<1> SUFFICES ASSUME Init PROVE TypeOK
  OBVIOUS
<1>1. nextId \in Nat
  BY DEF Init
<1>2. caller \in [Callers -> [pc : {"idle", "interrupt", "wait", "insert"},
                             vault : Vaults \cup {NoVault}, task : Tasks \cup {NoTask}]]
  BY DEF Init, NoCall
<1> QED
  BY <1>1, <1>2 DEF Init, TypeOK, Terminal, Labels

\* A step of the service thread keeps the types.
LEMMA LoopTypeOK ==
  ASSUME TypeOK,
         \/ Refresh \/ RefreshFails \/ WatchdogRestart \/ Dispatch
         \/ \E t \in Tasks : PopTop(t) \/ Elapse(t)
         \/ \E v \in Vaults : ProcessTask(v)
  PROVE  TypeOK'
<1> USE DEF TypeOK, LoopFrame, loopVars, queueVars, taskVars, runVars, eventVars
<1>1. CASE Refresh
  <2>1. CASE BitsetTooSmall
    <3>1. aborted' = TRUE /\ UNCHANGED <<taskMap, todo, ctl>>
      BY <1>1, <2>1 DEF Refresh
    <3> QED
      BY <1>1, <3>1 DEF Refresh
  <2>2. CASE ~BitsetTooSmall
    <3>3. /\ taskMap' = [v \in Vaults |-> IF v \in engines THEN taskMap[v] ELSE NoTask]
          /\ todo' = engines
      BY <1>1, <2>2 DEF Refresh
    <3>1. taskMap' \in [Vaults -> Tasks \cup {NoTask}] /\ todo' \subseteq Vaults
      BY <3>3
    <3>2. ctl' \in {"start", "create", "loop", "hand", "down"} /\ aborted' \in BOOLEAN
      BY <1>1, <2>2 DEF Refresh
    <3> QED
      BY <1>1, <3>1, <3>2 DEF Refresh
  <2> QED
    BY <2>1, <2>2
<1>2. CASE RefreshFails
  BY <1>2 DEF RefreshFails, Fault
<1>3. CASE WatchdogRestart
  BY <1>3 DEF WatchdogRestart
<1>4. CASE Dispatch
  <2>1. heap' \in [Tasks -> Nat] /\ pool' \in [Tasks -> Nat]
    BY <1>4 DEF Dispatch, PutBack
  <2> QED
    BY <1>4, <2>1 DEF Dispatch
<1>5. ASSUME NEW t \in Tasks, PopTop(t) PROVE TypeOK'
  BY <1>5 DEF PopTop, Top
<1>6. ASSUME NEW t \in Tasks, Elapse(t) PROVE TypeOK'
  BY <1>6 DEF Elapse
<1>7. ASSUME NEW v \in Vaults, ProcessTask(v) PROVE TypeOK'
  <2>1. CASE KeepTask(v)
    BY <1>7, <2>1 DEF ProcessTask, KeepTask
  <2>2. CASE Schedule(v, FALSE)
    BY <1>7, <2>2, NewTaskIsFresh DEF ProcessTask, Schedule
  <2> QED
    BY <1>7, <2>1, <2>2 DEF ProcessTask
<1> QED
  BY <1>1, <1>2, <1>3, <1>4, <1>5, <1>6, <1>7

\* A step of a worker keeps the types.
LEMMA RunTypeOK ==
  ASSUME TypeOK, NEW t \in Tasks, StartRun(t) \/ RunStep(t)
  PROVE  TypeOK'
<1> USE DEF TypeOK, RunFrame, adminVars, loopVars, eventVars, runVars, Goto, Leave, Fault, Throws,
            Terminal, Labels
<1>1. CASE StartRun(t)
  BY <1>1 DEF StartRun
<1>2. CASE NewSyncEvent(t)
  BY <1>2 DEF NewSyncEvent
<1>9. CASE CreateEvent(t)
  <2> DEFINE v == vaultOf[t]
  <2>1. /\ \E e \in Events : e \notin Held(v)
        /\ latest' = [latest EXCEPT ![v] = NewEvent(v)]
        /\ status' = [status EXCEPT ![NewEvent(v)] = "pending"]
        /\ spoiled' = [spoiled EXCEPT ![NewEvent(v)] = FALSE]
    BY <1>9 DEF CreateEvent
  <2>2. NewEvent(v) \in Events
    BY <2>1, NewEventIsEvent
  <2>3. /\ latest' \in [Vaults -> Events \cup {NoEvent}]
        /\ status' \in [Events -> {"pending", "running"} \cup Terminal]
        /\ spoiled' \in [Events -> BOOLEAN]
    BY <2>1, <2>2
  <2>4. /\ pc' \in [Tasks -> Labels]
        /\ evOf' \in [Tasks -> Events \cup {NoEvent}]
        /\ faults' \in Nat
    BY <1>9 DEF CreateEvent
  <2> QED
    BY <1>9, <2>3, <2>4 DEF CreateEvent
<1>10. CASE AwaitSubtasks(t) \/ SubtasksDone(t)
  BY <1>10 DEF AwaitSubtasks, SubtasksDone
<1>3. CASE AdoptEvent(t)
  <2>1. status' \in [Events -> {"pending", "running"} \cup Terminal]
    BY <1>3 DEF AdoptEvent
  <2>2. vaultOf[t] \in rows => latest[vaultOf[t]] \in Events \cup {NoEvent}
    OBVIOUS
  <2>3. evOf' \in [Tasks -> Events \cup {NoEvent}]
    BY <1>3, <2>2 DEF AdoptEvent
  <2>4. /\ pc' \in [Tasks -> Labels]
        /\ faults' \in Nat
    BY <1>3 DEF AdoptEvent
  <2> QED
    BY <1>3, <2>1, <2>3, <2>4 DEF AdoptEvent
<1>4. CASE StageEnds(t)
  BY <1>4 DEF StageEnds, HandleError
<1>5. CASE StageFails(t)
  <2>1. /\ status' \in [Events -> {"pending", "running"} \cup Terminal]
        /\ spoiled' \in [Events -> BOOLEAN]
    BY <1>5 DEF StageFails, HandleError
  <2>2. pc' \in [Tasks -> Labels]
    BY <1>5 DEF StageFails
  <2>3. /\ evOf' \in [Tasks -> Events \cup {NoEvent}]
        /\ running' \in [Tasks -> BOOLEAN]
    BY <1>5 DEF StageFails
  <2>4. faults' \in Nat
    BY <1>5 DEF StageFails
  <2> QED
    BY <1>5, <2>1, <2>2, <2>3, <2>4 DEF StageFails
<1>6. CASE StopRunning(t)
  BY <1>6 DEF StopRunning, LowerFlag
<1>7. CASE ParseStatus(t)
  <2>1. status' \in [Events -> {"pending", "running"} \cup Terminal]
    BY <1>7 DEF ParseStatus
  <2>2. /\ pc' \in [Tasks -> Labels]
        /\ evOf' \in [Tasks -> Events \cup {NoEvent}]
        /\ faults' \in Nat
    BY <1>7 DEF ParseStatus
  <2> QED
    BY <1>7, <2>1, <2>2 DEF ParseStatus
<1>8. CASE FinishRun(t)
  <2>1. heap' = [heap EXCEPT ![t] = @ + 1] \/ heap' = heap
    BY <1>8 DEF FinishRun
  <2>3. due' = [due EXCEPT ![t] = FALSE] \/ due' = due
    BY <1>8 DEF FinishRun
  <2>4. heap' \in [Tasks -> Nat]
    BY <2>1, OneMore
  <2>5. due' \in [Tasks -> BOOLEAN]
    BY <2>3
  <2>2. /\ pc' \in [Tasks -> Labels]
        /\ evOf' \in [Tasks -> Events \cup {NoEvent}]
        /\ faults' \in Nat
    BY <1>8 DEF FinishRun
  <2> QED
    BY <1>8, <2>2, <2>4, <2>5 DEF FinishRun
<1> QED
  BY <1>1, <1>2, <1>3, <1>4, <1>5, <1>6, <1>7, <1>8, <1>9, <1>10 DEF RunStep

\* A step of runNow, or of the storage manager, keeps the types.
LEMMA RequestTypeOK ==
  ASSUME TypeOK,
         \/ \E c \in Callers : RunNowStep(c) \/ \E v \in Vaults : RunNowLookup(c, v)
         \/ \E v \in Vaults : RemoveVault(v) \/ \E listed \in BOOLEAN : AddVault(v, listed)
  PROVE  TypeOK'
<1> USE DEF TypeOK, CallFrame, AdminFrame, adminVars, loopVars, queueVars, taskVars, runVars, eventVars
<1>1. ASSUME NEW c \in Callers, NEW v \in Vaults, RunNowLookup(c, v) PROVE TypeOK'
  BY <1>1 DEF RunNowLookup
<1>2. ASSUME NEW c \in Callers, RunNowInterrupt(c) PROVE TypeOK'
  <2>1. interrupted' \in [Tasks -> BOOLEAN]
    BY <1>2 DEF RunNowInterrupt, Interrupt
  <2>2. caller' \in [Callers -> [pc : {"idle", "interrupt", "wait", "insert"},
                                 vault : Vaults \cup {NoVault}, task : Tasks \cup {NoTask}]]
    BY <1>2 DEF RunNowInterrupt
  <2> QED
    BY <1>2, <2>1, <2>2 DEF RunNowInterrupt
<1>3. ASSUME NEW c \in Callers, RunNowWaited(c) PROVE TypeOK'
  BY <1>3 DEF RunNowWaited
<1>4. ASSUME NEW c \in Callers, RunNowInsert(c) PROVE TypeOK'
  <2>1. caller' \in [Callers -> [pc : {"idle", "interrupt", "wait", "insert"},
                                 vault : Vaults \cup {NoVault}, task : Tasks \cup {NoTask}]]
    BY <1>4 DEF RunNowInsert, NoCall
  <2>2. caller[c].vault \in Vaults \cup {NoVault}
    OBVIOUS
  <2>3. /\ vaultOf' \in [Tasks -> Vaults \cup {NoVault}] /\ due' \in [Tasks -> BOOLEAN]
        /\ taskMap' \in [Vaults -> Tasks \cup {NoTask}] /\ heap' \in [Tasks -> Nat]
    <3> DEFINE t == CHOOSE new \in Tasks : vaultOf[new] = NoVault
    <3>1. t \in Tasks
      BY <1>4, NewTaskIsFresh DEF RunNowInsert, Schedule
    <3>2. /\ vaultOf' = [vaultOf EXCEPT ![t] = caller[c].vault]
          /\ due' = [due EXCEPT ![t] = TRUE]
          /\ taskMap' = [taskMap EXCEPT ![caller[c].vault] = t]
          /\ heap' = [heap EXCEPT ![t] = @ + 1]
      BY <1>4 DEF RunNowInsert, Schedule
    <3> HIDE DEF t
    <3>3. vaultOf' \in [Tasks -> Vaults \cup {NoVault}] /\ due' \in [Tasks -> BOOLEAN]
      BY <2>2, <3>2
    <3>4. taskMap' \in [Vaults -> Tasks \cup {NoTask}]
      BY <3>1, <3>2
    <3>5. heap' \in [Tasks -> Nat]
      BY <3>1, <3>2, OneMore
    <3> QED
      BY <3>3, <3>4, <3>5
  <2> QED
    BY <1>4, <2>1, <2>3 DEF RunNowInsert
<1>5. ASSUME NEW v \in Vaults, NEW listed \in BOOLEAN, AddVault(v, listed) PROVE TypeOK'
  BY <1>5 DEF AddVault
<1>6. ASSUME NEW v \in Vaults, RemoveVault(v) PROVE TypeOK'
  BY <1>6 DEF RemoveVault
<1> QED
  BY <1>1, <1>2, <1>3, <1>4, <1>5, <1>6 DEF RunNowStep

\* Every variable keeps its type, whatever the number of vaults, tasks, events and callers.
THEOREM TypeCorrect == Spec => []TypeOK
<1>1. TypeOK /\ [Next]_vars => TypeOK'
  <2> SUFFICES ASSUME TypeOK, [Next]_vars PROVE TypeOK'
    OBVIOUS
  <2>1. CASE UNCHANGED vars
    BY <2>1 DEF TypeOK, vars, adminVars, loopVars, queueVars, taskVars, runVars, eventVars
  <2>2. CASE Next
    BY <2>2, LoopTypeOK, RunTypeOK, RequestTypeOK DEF Next
  <2> QED
    BY <2>1, <2>2
<1> QED
  BY <1>1, InitTypeOK, PTL DEF Spec

-----------------------------------------------------------------------------
(* A task is in one place.                                                  *)

\* The loop has a task in its hand exactly between pop and dispatch.
HandHeld == ctl = "hand" <=> hand # NoTask

\* What has not been created is nowhere.
FreshIsNowhere == \A t \in Tasks : vaultOf[t] = NoVault => Copies(t) = 0

\* A caller of runNow inside the call knows a vault and a task that has been created.
CallersKnow == \A c \in Callers :
  caller[c].pc # "idle" => /\ caller[c].vault \in Vaults
                           /\ caller[c].task \in Tasks /\ vaultOf[caller[c].task] # NoVault

\* The map holds tasks of the right vault.
MapKnows == \A v \in Vaults : taskMap[v] # NoTask => vaultOf[taskMap[v]] = v

PlaceInv == TypeOK /\ HandHeld /\ FreshIsNowhere /\ CallersKnow /\ MapKnows /\ SinglePlace

\* Steps that move tasks: the object that leaves one place is the one that enters the next.
Moving == \/ Dispatch \/ \E t \in Tasks : PopTop(t) \/ StartRun(t) \/ RunStep(t)

\* A move never makes a second entry for a task.
LEMMA MovesNeverCopy ==
  ASSUME PlaceInv, Moving
  PROVE  \A u \in Tasks : Copies(u)' <= Copies(u)
<1> SUFFICES ASSUME NEW u \in Tasks PROVE Copies(u)' <= Copies(u)
  OBVIOUS
<1> USE DEF Copies
<1>1. /\ heap[u] \in Nat /\ pool[u] \in Nat /\ heap \in [Tasks -> Nat] /\ pool \in [Tasks -> Nat]
      /\ DOMAIN pc = Tasks /\ hand \in Tasks \cup {NoTask}
  BY DEF PlaceInv, TypeOK
<1>2. CASE Dispatch
  <2>1. hand \in Tasks /\ hand' = NoTask /\ pc' = pc
    BY <1>1, <1>2 DEF Dispatch, LoopFrame, runVars, PlaceInv, HandHeld
  <2>2. CASE heap' = [heap EXCEPT ![hand] = @ + 1] /\ pool' = pool
    BY <1>1, <2>1, <2>2
  <2>3. CASE pool' = [pool EXCEPT ![hand] = @ + 1] /\ heap' = heap
    BY <1>1, <2>1, <2>3
  <2> QED
    BY <1>2, <2>2, <2>3 DEF Dispatch, PutBack
<1>3. ASSUME NEW t \in Tasks, PopTop(t) PROVE Copies(u)' <= Copies(u)
  <2>1. /\ hand = NoTask /\ hand' \in {t, NoTask} /\ pc' = pc /\ pool' = pool
        /\ heap' = [heap EXCEPT ![t] = @ - 1] /\ heap[t] > 0
    BY <1>3 DEF PopTop, Top, LoopFrame, runVars, PlaceInv, HandHeld
  <2> QED
    BY <1>1, <2>1
<1>4. ASSUME NEW t \in Tasks, StartRun(t) PROVE Copies(u)' <= Copies(u)
  <2>1. /\ pool[t] > 0 /\ pool' = [pool EXCEPT ![t] = @ - 1] /\ heap' = heap /\ hand' = hand
        /\ pc' = [pc EXCEPT ![t] = "event"]
    BY <1>4 DEF StartRun, Goto, RunFrame
  <2> QED
    BY <1>1, <2>1
<1>5. ASSUME NEW t \in Tasks, RunStep(t) PROVE Copies(u)' <= Copies(u)
  <2>1. /\ pc[t] # "idle" /\ pool' = pool /\ hand' = hand
        /\ \/ heap' = heap /\ pc' = pc
           \/ heap' = heap /\ \E label : pc' = [pc EXCEPT ![t] = label]
           \/ heap' = [heap EXCEPT ![t] = @ + 1] /\ pc' = [pc EXCEPT ![t] = "idle"]
    BY <1>5 DEF RunStep, NewSyncEvent, CreateEvent, AdoptEvent, AwaitSubtasks, SubtasksDone, StageEnds, StageFails, StopRunning, ParseStatus,
                FinishRun, RunFrame, Goto, Leave, runVars
  <2> QED
    BY <1>1, <2>1
<1> QED
  BY <1>2, <1>3, <1>4, <1>5 DEF Moving

\* createTask makes one entry, of an object that was nowhere, for a vault.
LEMMA CreationMakesOneEntry ==
  ASSUME PlaceInv, NEW v \in Vaults, NEW isDue \in BOOLEAN, Schedule(v, isDue),
         UNCHANGED <<hand, pool, pc>>
  PROVE  \E t \in Tasks : /\ vaultOf[t] = NoVault /\ Copies(t)' = 1
                          /\ vaultOf' = [vaultOf EXCEPT ![t] = v]
                          /\ taskMap' = [taskMap EXCEPT ![v] = t]
                          /\ heap' = [heap EXCEPT ![t] = @ + 1]
                          /\ \A u \in Tasks \ {t} : Copies(u)' = Copies(u)
<1>1. PICK t \in Tasks : /\ vaultOf[t] = NoVault
                         /\ vaultOf' = [vaultOf EXCEPT ![t] = v]
                         /\ taskMap' = [taskMap EXCEPT ![v] = t]
                         /\ heap' = [heap EXCEPT ![t] = @ + 1]
  BY NewTaskIsFresh DEF Schedule
<1>2. heap \in [Tasks -> Nat] /\ pool \in [Tasks -> Nat]
  BY DEF PlaceInv, TypeOK
<1>3. Copies(t) = 0
  BY <1>1 DEF PlaceInv, FreshIsNowhere
<1>4. Copies(t)' = 1
  <2>1. heap'[t] = heap[t] + 1 /\ heap[t] \in Nat /\ pool[t] \in Nat
    BY <1>1, <1>2
  <2> QED
    BY <1>3, <2>1 DEF Copies
<1>5. \A u \in Tasks \ {t} : Copies(u)' = Copies(u)
  BY <1>1, <1>2 DEF Copies
<1> QED
  BY <1>1, <1>4, <1>5

\* Copies is a number, whatever the state.
LEMMA CopiesIsNat == ASSUME TypeOK, NEW t \in Tasks PROVE Copies(t) \in Nat
  BY DEF TypeOK, Copies

\* A step that creates a task keeps the invariant.
LEMMA CreationKeepsPlaceInv ==
  ASSUME PlaceInv, TypeOK', HandHeld',
         NEW v \in Vaults, NEW isDue \in BOOLEAN, Schedule(v, isDue), UNCHANGED <<hand, pool, pc>>,
         \A c \in Callers : caller'[c] = caller[c] \/ caller'[c] = NoCall
  PROVE  PlaceInv'
<1>1. PICK t \in Tasks : /\ vaultOf[t] = NoVault /\ Copies(t)' = 1
                         /\ vaultOf' = [vaultOf EXCEPT ![t] = v]
                         /\ taskMap' = [taskMap EXCEPT ![v] = t]
                         /\ \A u \in Tasks \ {t} : Copies(u)' = Copies(u)
  BY CreationMakesOneEntry
<1>2. /\ vaultOf \in [Tasks -> Vaults \cup {NoVault}] /\ taskMap \in [Vaults -> Tasks \cup {NoTask}]
  BY DEF PlaceInv, TypeOK
<1>3. SinglePlace'
  BY <1>1, <1>2 DEF PlaceInv, SinglePlace
<1>4. FreshIsNowhere'
  BY <1>1, <1>2 DEF PlaceInv, FreshIsNowhere
<1>5. CallersKnow'
  BY <1>1, <1>2 DEF PlaceInv, CallersKnow, NoCall
<1>6. MapKnows'
  BY <1>1, <1>2 DEF PlaceInv, MapKnows
<1> QED
  BY <1>3, <1>4, <1>5, <1>6 DEF PlaceInv

\* A move of a task keeps the invariant.
LEMMA MovingKeepsPlaceInv ==
  ASSUME PlaceInv, Moving, TypeOK'
  PROVE  PlaceInv'
<1>1. \A u \in Tasks : Copies(u)' <= Copies(u) /\ Copies(u) \in Nat /\ Copies(u)' \in Nat
  <2>1. \A u \in Tasks : Copies(u) \in Nat
    BY CopiesIsNat DEF PlaceInv
  <2>2. \A u \in Tasks : Copies(u)' \in Nat
    BY DEF TypeOK, Copies
  <2> QED
    BY MovesNeverCopy, <2>1, <2>2
<1>2. UNCHANGED <<vaultOf, taskMap, caller>>
  BY DEF Moving, Dispatch, PopTop, StartRun, RunStep, NewSyncEvent, CreateEvent, AdoptEvent, AwaitSubtasks, SubtasksDone, StageEnds,
         StageFails, StopRunning, ParseStatus, FinishRun, RunFrame, LoopFrame, loopVars
<1>3. HandHeld'
  <2>1. CASE Dispatch
    BY <2>1 DEF Dispatch, HandHeld
  <2>2. ASSUME NEW t \in Tasks, PopTop(t) PROVE HandHeld'
    BY <2>2 DEF PopTop, PlaceInv, HandHeld
  <2>3. ASSUME NEW t \in Tasks, StartRun(t) \/ RunStep(t) PROVE UNCHANGED <<ctl, hand>>
    BY <2>3 DEF StartRun, RunStep, NewSyncEvent, CreateEvent, AdoptEvent, AwaitSubtasks, SubtasksDone, StageEnds, StageFails, StopRunning,
                ParseStatus, FinishRun, RunFrame, loopVars
  <2> QED
    BY <2>1, <2>2, <2>3 DEF Moving, PlaceInv, HandHeld
<1>4. SinglePlace' /\ FreshIsNowhere'
  BY <1>1, <1>2 DEF PlaceInv, SinglePlace, FreshIsNowhere
<1>5. CallersKnow' /\ MapKnows'
  BY <1>2 DEF PlaceInv, CallersKnow, MapKnows
<1> QED
  BY <1>3, <1>4, <1>5 DEF PlaceInv

\* A step that moves no task keeps what is said of their places.
LEMMA StillKeepsPlaces ==
  ASSUME PlaceInv, UNCHANGED <<heap, pool, hand, pc, vaultOf>>
  PROVE  SinglePlace' /\ FreshIsNowhere'
  BY DEF PlaceInv, SinglePlace, FreshIsNowhere, Copies

\* A step of the service thread that moves no task keeps the invariant.
LEMMA LoopKeepsPlaceInv ==
  ASSUME PlaceInv, TypeOK',
         \/ Refresh \/ RefreshFails \/ WatchdogRestart \/ \E t \in Tasks : Elapse(t)
         \/ \E v \in Vaults : ProcessTask(v)
  PROVE  PlaceInv'
<1> USE DEF LoopFrame, queueVars, loopVars, runVars
<1>1. CASE Refresh \/ RefreshFails \/ WatchdogRestart \/ \E t \in Tasks : Elapse(t)
  <2>1. UNCHANGED <<heap, pool, hand, pc, vaultOf, caller>>
    BY <1>1 DEF Refresh, RefreshFails, WatchdogRestart, Elapse
  <2>2. HandHeld'
    BY <1>1 DEF Refresh, RefreshFails, WatchdogRestart, Elapse, PlaceInv, HandHeld
  <2>3. MapKnows'
    BY <1>1, <2>1 DEF Refresh, RefreshFails, WatchdogRestart, Elapse, PlaceInv, MapKnows
  <2>4. CallersKnow'
    BY <2>1 DEF PlaceInv, CallersKnow
  <2> QED
    BY <2>1, <2>2, <2>3, <2>4, StillKeepsPlaces DEF PlaceInv
<1>2. ASSUME NEW v \in Vaults, ProcessTask(v) PROVE PlaceInv'
  <2>1. HandHeld' /\ UNCHANGED <<hand, pool, pc, caller>>
    BY <1>2 DEF ProcessTask, PlaceInv, HandHeld
  <2>2. CASE Schedule(v, FALSE)
    BY <2>1, <2>2, CreationKeepsPlaceInv
  <2>3. CASE KeepTask(v)
    <3>1. UNCHANGED <<heap, taskMap, vaultOf>>
      BY <2>3 DEF KeepTask
    <3>2. MapKnows' /\ CallersKnow'
      BY <2>1, <3>1 DEF PlaceInv, MapKnows, CallersKnow
    <3> QED
      BY <2>1, <3>1, <3>2, StillKeepsPlaces DEF PlaceInv
  <2> QED
    BY <1>2, <2>2, <2>3 DEF ProcessTask
<1> QED
  BY <1>1, <1>2

\* A step of runNow or of the storage manager keeps the invariant.
LEMMA RequestKeepsPlaceInv ==
  ASSUME PlaceInv, TypeOK',
         \/ \E c \in Callers : RunNowStep(c) \/ \E v \in Vaults : RunNowLookup(c, v)
         \/ \E v \in Vaults : RemoveVault(v) \/ \E listed \in BOOLEAN : AddVault(v, listed)
  PROVE  PlaceInv'
<1> USE DEF CallFrame, AdminFrame, adminVars, queueVars, loopVars, runVars, taskVars
<1>1. HandHeld' /\ UNCHANGED <<hand, pool, pc>>
  BY DEF RunNowStep, RunNowLookup, RunNowInterrupt, RunNowWaited, RunNowInsert, AddVault,
         RemoveVault, PlaceInv, HandHeld
<1>2. caller \in [Callers -> [pc : {"idle", "interrupt", "wait", "insert"},
                             vault : Vaults \cup {NoVault}, task : Tasks \cup {NoTask}]]
  BY DEF PlaceInv, TypeOK
<1>3. ASSUME UNCHANGED <<heap, taskMap, vaultOf>>, CallersKnow' PROVE PlaceInv'
  <2>1. MapKnows'
    BY <1>3 DEF PlaceInv, MapKnows
  <2> QED
    BY <1>1, <1>3, <2>1, StillKeepsPlaces DEF PlaceInv
<1>4. ASSUME NEW c \in Callers, NEW v \in Vaults, RunNowLookup(c, v) PROVE PlaceInv'
  <2>1. UNCHANGED <<heap, taskMap, vaultOf>>
    BY <1>4 DEF RunNowLookup
  <2>2. caller' = [caller EXCEPT ![c] = [pc |-> "interrupt", vault |-> v, task |-> taskMap[v]]]
    BY <1>4 DEF RunNowLookup
  <2>3. taskMap[v] \in Tasks /\ vaultOf[taskMap[v]] # NoVault
    BY <1>4 DEF RunNowLookup, PlaceInv, TypeOK, MapKnows
  <2>4. CallersKnow'
    BY <1>2, <2>1, <2>2, <2>3 DEF PlaceInv, CallersKnow
  <2> QED
    BY <1>3, <2>1, <2>4
<1>5. ASSUME NEW c \in Callers, RunNowInterrupt(c) \/ RunNowWaited(c) PROVE PlaceInv'
  <2>1. UNCHANGED <<heap, taskMap, vaultOf>> /\ caller[c].pc # "idle"
    BY <1>5 DEF RunNowInterrupt, RunNowWaited
  <2>2. \/ caller' = [caller EXCEPT ![c].pc = "wait"]
        \/ caller' = [caller EXCEPT ![c].pc = "insert"]
    BY <1>5 DEF RunNowInterrupt, RunNowWaited
  <2>3. \A d \in Callers : caller'[d].vault = caller[d].vault /\ caller'[d].task = caller[d].task
    BY <1>2, <2>2
  <2>4. \A d \in Callers : caller'[d].pc # "idle" => caller[d].pc # "idle"
    BY <1>2, <2>1, <2>2
  <2>5. CallersKnow'
    BY <2>1, <2>3, <2>4 DEF PlaceInv, CallersKnow
  <2> QED
    BY <1>3, <2>1, <2>5
<1>6. ASSUME NEW c \in Callers, RunNowInsert(c) PROVE PlaceInv'
  <2>1. caller[c].vault \in Vaults /\ Schedule(caller[c].vault, TRUE)
    BY <1>6 DEF RunNowInsert, PlaceInv, CallersKnow
  <2>2. \A d \in Callers : caller'[d] = caller[d] \/ caller'[d] = NoCall
    BY <1>2, <1>6 DEF RunNowInsert
  <2> QED
    BY <1>1, <2>1, <2>2, CreationKeepsPlaceInv
<1>7. ASSUME NEW v \in Vaults, NEW listed \in BOOLEAN, AddVault(v, listed) \/ RemoveVault(v)
      PROVE  PlaceInv'
  <2>1. UNCHANGED <<heap, taskMap, vaultOf, caller>>
    BY <1>7 DEF AddVault, RemoveVault
  <2>2. CallersKnow'
    BY <2>1 DEF PlaceInv, CallersKnow
  <2> QED
    BY <1>3, <2>1, <2>2
<1> QED
  BY <1>4, <1>5, <1>6, <1>7 DEF RunNowStep

\* The invariant of the places holds throughout.
THEOREM PlaceInvariant == Spec => []PlaceInv
<1>1. Init => PlaceInv
  <2> SUFFICES ASSUME Init PROVE PlaceInv
    OBVIOUS
  <2>1. HandHeld /\ MapKnows
    BY DEF Init, HandHeld, MapKnows
  <2>2. CallersKnow
    BY DEF Init, CallersKnow, NoCall
  <2>3. \A t \in Tasks : Copies(t) = 0
    BY DEF Init, Copies
  <2> QED
    BY InitTypeOK, <2>1, <2>2, <2>3 DEF PlaceInv, SinglePlace, FreshIsNowhere
<1>2. PlaceInv /\ TypeOK' /\ [Next]_vars => PlaceInv'
  <2> SUFFICES ASSUME PlaceInv, TypeOK', [Next]_vars PROVE PlaceInv'
    OBVIOUS
  <2>1. CASE UNCHANGED vars
    <3>1. UNCHANGED <<heap, pool, hand, pc, vaultOf, taskMap, ctl, caller>>
      BY <2>1 DEF vars, loopVars, queueVars, taskVars, runVars
    <3> QED
      BY <3>1, StillKeepsPlaces DEF PlaceInv, HandHeld, CallersKnow, MapKnows
  <2>2. CASE Next
    BY <2>2, MovingKeepsPlaceInv, LoopKeepsPlaceInv, RequestKeepsPlaceInv DEF Next, Moving
  <2> QED
    BY <2>1, <2>2
<1> QED
  BY <1>1, <1>2, TypeCorrect, PTL DEF Spec

\* No task is ever scheduled twice, whatever the number of vaults, tasks, workers and callers,
\* and however requeue, runNow, refreshes and failures interleave.
THEOREM SinglePlaceHolds == Spec => []SinglePlace
<1>1. PlaceInv => SinglePlace
  BY DEF PlaceInv
<1> QED
  BY <1>1, PlaceInvariant, PTL

-----------------------------------------------------------------------------
(* The scheduler implements TaskLifecycle.                                  *)

\* A step that takes one task from a place to another is a move of the lifecycle.
LEMMA OneTaskMoves ==
  ASSUME NEW t \in Tasks, NEW from, NEW to, PlaceOf(t) = from, PlaceOf(t)' = to,
         \A u \in Tasks \ {t} : PlaceOf(u)' = PlaceOf(u), interrupted' = interrupted
  PROVE  Life!Move(t, from, to)
<1> DEFINE place == [u \in Tasks |-> PlaceOf(u)]
<1>1. place[t] = from
  OBVIOUS
<1>2. place' = [place EXCEPT ![t] = to]
  <2>1. \A u \in Tasks : place'[u] = [place EXCEPT ![t] = to][u]
    OBVIOUS
  <2> QED
    BY <2>1
<1> QED
  BY <1>1, <1>2 DEF Life!Move

\* In a state of the invariant a task is where any one of its entries says.
LEMMA PlaceIsUnique ==
  ASSUME PlaceInv, NEW t \in Tasks
  PROVE  /\ heap[t] > 0 => /\ PlaceOf(t) = "heap" /\ heap[t] = 1
                           /\ pool[t] = 0 /\ hand # t /\ pc[t] = "idle"
         /\ hand = t => PlaceOf(t) = "hand" /\ heap[t] = 0 /\ pool[t] = 0 /\ pc[t] = "idle"
         /\ pool[t] > 0 => /\ PlaceOf(t) = "pool" /\ pool[t] = 1
                           /\ heap[t] = 0 /\ hand # t /\ pc[t] = "idle"
         /\ pc[t] # "idle" => PlaceOf(t) = "run" /\ heap[t] = 0 /\ hand # t /\ pool[t] = 0
         /\ PlaceOf(t) = "hand" <=> hand = t
<1>1. heap[t] \in Nat /\ pool[t] \in Nat
  BY DEF PlaceInv, TypeOK
<1>2. Copies(t) <= 1 /\ (vaultOf[t] = NoVault => Copies(t) = 0)
  BY DEF PlaceInv, SinglePlace, FreshIsNowhere
<1> QED
  BY <1>1, <1>2 DEF Copies, PlaceOf

\* A move of the scheduler is a step of the lifecycle, or none.
LEMMA MovingRefines ==
  ASSUME PlaceInv, Moving
  PROVE  Life!LifeNext \/ UNCHANGED Life!lifeVars
<1> DEFINE Same(t) == \A u \in Tasks \ {t} : PlaceOf(u)' = PlaceOf(u)
<1>1. heap \in [Tasks -> Nat] /\ pool \in [Tasks -> Nat] /\ DOMAIN pc = Tasks
      /\ hand \in Tasks \cup {NoTask}
  BY DEF PlaceInv, TypeOK
<1>2. CASE Dispatch
  <2> PICK t \in Tasks : t = hand
    BY <1>1, <1>2 DEF Dispatch, PlaceInv, HandHeld
  <2>1. /\ hand' = NoTask /\ UNCHANGED <<pc, vaultOf, interrupted>>
    BY <1>2 DEF Dispatch, LoopFrame, runVars
  <2>2. PlaceOf(t) = "hand" /\ heap[t] = 0 /\ vaultOf[t] # NoVault
    BY PlaceIsUnique DEF PlaceOf
  <2>3. CASE heap' = [heap EXCEPT ![t] = @ + 1] /\ pool' = pool
    <3>1. PlaceOf(t)' = "heap" /\ Same(t)
      BY <1>1, <2>1, <2>2, <2>3 DEF PlaceOf
    <3>2. Life!PutBack(t)
      BY <2>1, <2>2, <3>1, OneTaskMoves DEF Life!PutBack
    <3> QED
      BY <3>2 DEF Life!LifeNext
  <2>4. CASE pool' = [pool EXCEPT ![t] = @ + 1] /\ heap' = heap
    <3>1. PlaceOf(t)' = "pool" /\ Same(t)
      BY <1>1, <2>1, <2>2, <2>4 DEF PlaceOf
    <3>2. Life!Submit(t)
      BY <2>1, <2>2, <3>1, OneTaskMoves DEF Life!Submit
    <3> QED
      BY <3>2 DEF Life!LifeNext
  <2> QED
    BY <1>2, <2>3, <2>4 DEF Dispatch, PutBack
<1>3. ASSUME NEW t \in Tasks, PopTop(t) PROVE Life!LifeNext
  <2>1. /\ hand = NoTask /\ hand' = (IF interrupted[t] THEN NoTask ELSE t)
        /\ heap' = [heap EXCEPT ![t] = @ - 1] /\ heap[t] > 0
        /\ UNCHANGED <<pool, pc, vaultOf, interrupted>>
    BY <1>3 DEF PopTop, Top, Discard, LoopFrame, runVars, PlaceInv, HandHeld
  <2>2. PlaceOf(t) = "heap" /\ heap[t] = 1 /\ pool[t] = 0 /\ pc[t] = "idle" /\ vaultOf[t] # NoVault
    BY <2>1, PlaceIsUnique DEF PlaceOf
  <2>3. PlaceOf(t)' = (IF interrupted[t] THEN "gone" ELSE "hand") /\ Same(t)
    BY <1>1, <2>1, <2>2 DEF PlaceOf
  <2>4. \A u \in Tasks : [x \in Tasks |-> PlaceOf(x)][u] # "hand"
    BY <2>1, PlaceIsUnique
  <2>5. Life!Move(t, "heap", IF interrupted[t] THEN "gone" ELSE "hand")
    BY <2>1, <2>2, <2>3, OneTaskMoves
  <2>6. Life!Take(t)
    BY <2>4, <2>5 DEF Life!Take
  <2> QED
    BY <2>6 DEF Life!LifeNext
<1>4. ASSUME NEW t \in Tasks, StartRun(t) PROVE Life!LifeNext
  <2>1. /\ pool[t] > 0 /\ pool' = [pool EXCEPT ![t] = @ - 1]
        /\ pc' = [pc EXCEPT ![t] = "event"]
        /\ UNCHANGED <<heap, hand, vaultOf, interrupted>>
    BY <1>4 DEF StartRun, Goto, RunFrame
  <2>2. PlaceOf(t) = "pool" /\ pool[t] = 1 /\ heap[t] = 0 /\ hand # t /\ vaultOf[t] # NoVault
    BY <2>1, PlaceIsUnique DEF PlaceOf
  <2>3. PlaceOf(t)' = "run" /\ Same(t)
    BY <1>1, <2>1, <2>2 DEF PlaceOf
  <2>4. Life!Begin(t)
    BY <2>1, <2>2, <2>3, OneTaskMoves DEF Life!Begin
  <2> QED
    BY <2>4 DEF Life!LifeNext
<1>5. ASSUME NEW t \in Tasks, RunStep(t) PROVE Life!LifeNext \/ UNCHANGED Life!lifeVars
  <2>1. /\ pc[t] # "idle" /\ UNCHANGED <<pool, hand, vaultOf, interrupted>>
        /\ \/ heap' = heap /\ pc' = pc
           \/ heap' = heap /\ \E label : pc' = [pc EXCEPT ![t] = label]
           \/ heap' = [heap EXCEPT ![t] = @ + 1] /\ pc' = [pc EXCEPT ![t] = "idle"]
    BY <1>5 DEF RunStep, NewSyncEvent, CreateEvent, AdoptEvent, AwaitSubtasks, SubtasksDone, StageEnds, StageFails, StopRunning, ParseStatus,
                FinishRun, RunFrame, Goto, Leave, runVars
  <2>2. PlaceOf(t) = "run" /\ pool[t] = 0 /\ heap[t] = 0 /\ hand # t /\ vaultOf[t] # NoVault
    BY <2>1, PlaceIsUnique DEF PlaceOf
  <2>3. Same(t)
    BY <1>1, <2>1 DEF PlaceOf
  <2>4. PlaceOf(t)' \in {"run", "heap", "gone"}
    BY <1>1, <2>1, <2>2 DEF PlaceOf
  <2>8. UNCHANGED interrupted
    BY <2>1
  <2>5. CASE PlaceOf(t)' = "run"
    <3>1. [u \in Tasks |-> PlaceOf(u)]' = [u \in Tasks |-> PlaceOf(u)]
      BY <2>2, <2>3, <2>5
    <3> QED
      BY <2>1, <3>1 DEF Life!lifeVars
  <2>6. CASE PlaceOf(t)' = "heap"
    <3>1. Life!Requeue(t)
      BY <2>2, <2>3, <2>6, <2>8, OneTaskMoves DEF Life!Requeue
    <3> QED
      BY <3>1 DEF Life!LifeNext
  <2>7. CASE PlaceOf(t)' = "gone"
    <3>1. Life!Drop(t)
      BY <2>2, <2>3, <2>7, <2>8, OneTaskMoves DEF Life!Drop
    <3> QED
      BY <3>1 DEF Life!LifeNext
  <2> QED
    BY <2>4, <2>5, <2>6, <2>7
<1> QED
  BY <1>2, <1>3, <1>4, <1>5 DEF Moving

\* A step that creates a task is one of the lifecycle.
LEMMA CreationRefines ==
  ASSUME PlaceInv, NEW v \in Vaults, NEW isDue \in BOOLEAN, Schedule(v, isDue),
         UNCHANGED <<hand, pool, pc, interrupted>>
  PROVE  Life!LifeNext
<1>1. PICK t \in Tasks : /\ vaultOf[t] = NoVault
                         /\ vaultOf' = [vaultOf EXCEPT ![t] = v]
                         /\ heap' = [heap EXCEPT ![t] = @ + 1]
  BY CreationMakesOneEntry
<1>2. vaultOf \in [Tasks -> Vaults \cup {NoVault}] /\ heap \in [Tasks -> Nat]
  BY DEF PlaceInv, TypeOK
<1>3. PlaceOf(t) = "none" /\ PlaceOf(t)' = "heap"
  BY <1>1, <1>2 DEF PlaceOf
<1>4. \A u \in Tasks \ {t} : PlaceOf(u)' = PlaceOf(u)
  BY <1>1, <1>2 DEF PlaceOf
<1>5. Life!Create(t)
  BY <1>3, <1>4, OneTaskMoves DEF Life!Create
<1> QED
  BY <1>5 DEF Life!LifeNext

\* A step that neither moves, creates nor cancels a task is none of the lifecycle.
LEMMA StillRefines ==
  ASSUME UNCHANGED <<heap, pool, hand, pc, vaultOf, interrupted>>
  PROVE  UNCHANGED Life!lifeVars
  BY DEF Life!lifeVars, PlaceOf

\* The other steps are steps of the lifecycle, or none.
LEMMA OthersRefine ==
  ASSUME PlaceInv,
         \/ Refresh \/ RefreshFails \/ WatchdogRestart \/ \E t \in Tasks : Elapse(t)
         \/ \E c \in Callers : RunNowStep(c) \/ \E v \in Vaults : RunNowLookup(c, v)
         \/ \E v \in Vaults : \/ ProcessTask(v) \/ RemoveVault(v)
                              \/ \E listed \in BOOLEAN : AddVault(v, listed)
  PROVE  Life!LifeNext \/ UNCHANGED Life!lifeVars
<1> USE DEF LoopFrame, CallFrame, AdminFrame, queueVars, runVars, taskVars
<1>1. CASE \/ Refresh \/ RefreshFails \/ WatchdogRestart \/ \E t \in Tasks : Elapse(t)
           \/ \E v \in Vaults : RemoveVault(v) \/ \E listed \in BOOLEAN : AddVault(v, listed)
  BY <1>1, StillRefines DEF Refresh, RefreshFails, WatchdogRestart, Elapse, RemoveVault, AddVault
<1>2. ASSUME NEW v \in Vaults, ProcessTask(v) PROVE Life!LifeNext \/ UNCHANGED Life!lifeVars
  BY <1>2, CreationRefines, StillRefines DEF ProcessTask, KeepTask
<1>3. ASSUME NEW c \in Callers, RunNowInsert(c) PROVE Life!LifeNext
  <2>1. caller[c].vault \in Vaults /\ Schedule(caller[c].vault, TRUE)
    BY <1>3 DEF RunNowInsert, PlaceInv, CallersKnow
  <2>2. UNCHANGED <<hand, pool, pc, interrupted>>
    BY <1>3 DEF RunNowInsert
  <2> QED
    BY <2>1, <2>2, CreationRefines
<1>4. ASSUME NEW c \in Callers, RunNowInterrupt(c) PROVE Life!LifeNext
  <2> PICK t \in Tasks : t = caller[c].task /\ vaultOf[t] # NoVault
    BY <1>4 DEF RunNowInterrupt, PlaceInv, CallersKnow
  <2>1. PlaceOf(t) # "none"
    BY DEF PlaceOf
  <2>2. UNCHANGED <<heap, pool, hand, pc, vaultOf>>
    BY <1>4 DEF RunNowInterrupt
  <2>3. [u \in Tasks |-> PlaceOf(u)]' = [u \in Tasks |-> PlaceOf(u)]
    BY <2>2 DEF PlaceOf
  <2>4. interrupted' = [interrupted EXCEPT ![t] = TRUE]
    BY <1>4 DEF RunNowInterrupt, Interrupt
  <2>5. Life!Cancel(t)
    BY <2>1, <2>3, <2>4 DEF Life!Cancel
  <2> QED
    BY <2>5 DEF Life!LifeNext
<1>5. ASSUME NEW c \in Callers, RunNowWaited(c) \/ \E v \in Vaults : RunNowLookup(c, v)
      PROVE  UNCHANGED Life!lifeVars
  BY <1>5, StillRefines DEF RunNowWaited, RunNowLookup
<1> QED
  BY <1>1, <1>2, <1>3, <1>4, <1>5 DEF RunNowStep

\* The scheduler implements TaskLifecycle: what no interleaving of requeue, runNow, refreshes
\* and failures makes it break is proved for every number of vaults, tasks and callers.
THEOREM LifecycleRefined == Spec => LifecycleKept
<1>1. Init => Life!LifeInit
  <2> SUFFICES ASSUME Init PROVE Life!LifeInit
    OBVIOUS
  <2>1. \A t \in Tasks : PlaceOf(t) = "none"
    BY DEF Init, PlaceOf
  <2>2. interrupted = [t \in Tasks |-> FALSE]
    BY DEF Init
  <2> QED
    BY <2>1, <2>2 DEF Life!LifeInit
<1>2. PlaceInv /\ [Next]_vars => [Life!LifeNext]_(Life!lifeVars)
  <2> SUFFICES ASSUME PlaceInv, [Next]_vars PROVE Life!LifeNext \/ UNCHANGED Life!lifeVars
    OBVIOUS
  <2>1. CASE UNCHANGED vars
    BY <2>1, StillRefines DEF vars, queueVars, taskVars, runVars
  <2>2. CASE Next
    BY <2>2, MovingRefines, OthersRefine DEF Next, Moving
  <2> QED
    BY <2>1, <2>2
<1> QED
  BY <1>1, <1>2, PlaceInvariant, PTL DEF Spec, LifecycleKept, Life!LifeSpec

-----------------------------------------------------------------------------
(* Calls of runNow that are each for a vault of its own.                    *)

\* A hypothesis, not a fact of the code: no two calls of runNow for one vault overlap.
CallsApart ==
  \A c, d \in Callers :
     c # d /\ caller[c].pc # "idle" /\ caller[d].pc # "idle" => caller[c].vault # caller[d].vault

\* Every vault that has a task is listed, and no id is above the last one that was given.
KnownVaults ==
  /\ todo \subseteq engines
  /\ \A v \in engines \cup rows : v \in Nat /\ v <= nextId
  /\ \A v \in Vaults : taskMap[v] # NoTask => v \in engines
  /\ \A t \in Tasks : vaultOf[t] # NoVault => vaultOf[t] \in engines

\* The task that runNow looked up is still the one of the vault, and is cancelled before it is
\* waited for.
CallHolds == \A c \in Callers :
  caller[c].pc # "idle" => /\ taskMap[caller[c].vault] = caller[c].task
                           /\ caller[c].pc # "interrupt" => interrupted[caller[c].task]

SoleInv == KnownVaults /\ CallHolds /\ SoleLiveTask

LEMMA InitSole == Init => SoleInv
<1> SUFFICES ASSUME Init PROVE SoleInv
  OBVIOUS
<1>1. KnownVaults
  BY DEF Init, KnownVaults
<1>2. CallHolds
  BY DEF Init, CallHolds, NoCall
<1>3. SoleLiveTask
  BY DEF Init, SoleLiveTask, Copies
<1> QED
  BY <1>1, <1>2, <1>3 DEF SoleInv

\* What names no task anew and cancels none keeps the invariant.
LEMMA StillSole ==
  ASSUME PlaceInv, TypeOK', SoleInv, UNCHANGED <<taskMap, vaultOf, caller, interrupted>>,
         engines \subseteq engines', todo' \subseteq engines',
         \A v \in engines' \cup rows' : v \in Nat /\ v <= nextId',
         \A t \in Tasks : Copies(t)' <= Copies(t)
  PROVE  SoleInv'
<1>1. KnownVaults'
  BY DEF SoleInv, KnownVaults
<1>2. CallHolds'
  BY DEF SoleInv, CallHolds
<1>3. \A t \in Tasks : Copies(t) \in Nat /\ Copies(t)' \in Nat
  <2>1. \A t \in Tasks : Copies(t)' \in Nat
    BY DEF TypeOK, Copies
  <2> QED
    BY <2>1, CopiesIsNat DEF PlaceInv
<1>4. SoleLiveTask'
  BY <1>3 DEF SoleInv, SoleLiveTask
<1> QED
  BY <1>1, <1>2, <1>4 DEF SoleInv

\* createTask keeps it, if the task the map knew is cancelled and nobody waits for it.
LEMMA CreationKeepsSole ==
  ASSUME PlaceInv, TypeOK', SoleInv, NEW v \in Vaults, NEW isDue \in BOOLEAN, Schedule(v, isDue),
         UNCHANGED <<hand, pool, pc, interrupted, engines, rows, nextId>>,
         v \in engines, todo' \subseteq todo,
         taskMap[v] # NoTask => interrupted[taskMap[v]],
         \A c \in Callers : \/ caller'[c] = NoCall
                            \/ /\ caller'[c] = caller[c]
                               /\ caller[c].pc # "idle" => caller[c].vault # v
  PROVE  SoleInv'
<1>1. PICK t \in Tasks : /\ vaultOf[t] = NoVault /\ Copies(t)' = 1
                         /\ vaultOf' = [vaultOf EXCEPT ![t] = v]
                         /\ taskMap' = [taskMap EXCEPT ![v] = t]
                         /\ \A u \in Tasks \ {t} : Copies(u)' = Copies(u)
  BY CreationMakesOneEntry
<1>2. vaultOf \in [Tasks -> Vaults \cup {NoVault}] /\ taskMap \in [Vaults -> Tasks \cup {NoTask}]
  BY DEF PlaceInv, TypeOK
<1>3. KnownVaults'
  BY <1>1, <1>2 DEF SoleInv, KnownVaults
<1>4. CallHolds'
  <2>1. \A c \in Callers : caller[c].pc # "idle" => caller[c].vault \in Vaults
    BY DEF PlaceInv, CallersKnow
  <2> QED
    BY <1>1, <1>2, <2>1 DEF SoleInv, CallHolds, NoCall
<1>5. SoleLiveTask'
  <2> SUFFICES ASSUME NEW u \in Tasks, Copies(u)' > 0, ~interrupted[u]
               PROVE  taskMap'[vaultOf'[u]] = u
    BY DEF SoleLiveTask
  <2>1. CASE u = t
    BY <1>1, <1>2, <2>1
  <2>2. CASE u # t
    <3>1. Copies(u) > 0 /\ vaultOf'[u] = vaultOf[u]
      BY <1>1, <1>2, <2>2
    <3>2. vaultOf[u] # NoVault /\ taskMap[vaultOf[u]] = u
      BY <3>1 DEF PlaceInv, FreshIsNowhere, SoleInv, SoleLiveTask
    <3>3. vaultOf[u] # v /\ vaultOf[u] \in Vaults
      BY <1>2, <3>2
    <3> QED
      BY <1>1, <1>2, <3>1, <3>2, <3>3
  <2> QED
    BY <2>1, <2>2
<1> QED
  BY <1>3, <1>4, <1>5 DEF SoleInv

\* The steps of the scheduler and of the runs keep it.
LEMMA SchedulerKeepsSole ==
  ASSUME PlaceInv, TypeOK', SoleInv,
         \/ Moving
         \/ Refresh \/ RefreshFails \/ WatchdogRestart \/ \E t \in Tasks : Elapse(t)
         \/ \E v \in Vaults : ProcessTask(v)
  PROVE  SoleInv'
<1> USE DEF LoopFrame, loopVars, queueVars, runVars, adminVars
<1>1. \A v \in engines \cup rows : v \in Nat /\ v <= nextId
  BY DEF SoleInv, KnownVaults
<1>2. todo \subseteq engines
  BY DEF SoleInv, KnownVaults
<1>3. CASE Moving
  <2>1. UNCHANGED <<taskMap, vaultOf, caller, interrupted, engines, rows, nextId, todo>>
    BY <1>3 DEF Moving, Dispatch, PopTop, StartRun, RunStep, NewSyncEvent, CreateEvent, AdoptEvent, AwaitSubtasks, SubtasksDone, StageEnds,
                StageFails, StopRunning, ParseStatus, FinishRun, RunFrame
  <2> QED
    BY <1>1, <1>2, <1>3, <2>1, MovesNeverCopy, StillSole
<1>4. CASE Refresh \/ RefreshFails \/ WatchdogRestart \/ \E t \in Tasks : Elapse(t)
  <2>1. UNCHANGED <<vaultOf, caller, interrupted, engines, rows, nextId, heap, pool, hand, pc>>
    BY <1>4 DEF Refresh, RefreshFails, WatchdogRestart, Elapse
  <2>2. taskMap' = taskMap /\ todo' \subseteq engines
    <3>1. taskMap = [v \in Vaults |-> IF v \in engines THEN taskMap[v] ELSE NoTask]
      BY DEF PlaceInv, TypeOK, SoleInv, KnownVaults
    <3> QED
      BY <1>2, <1>4, <3>1 DEF Refresh, RefreshFails, WatchdogRestart, Elapse
  <2>3. \A t \in Tasks : Copies(t)' <= Copies(t)
    <3>1. \A t \in Tasks : Copies(t)' = Copies(t) /\ Copies(t) \in Nat
      BY <2>1, CopiesIsNat DEF PlaceInv, Copies
    <3> QED
      BY <3>1
  <2> QED
    BY <1>1, <2>1, <2>2, <2>3, StillSole
<1>5. ASSUME NEW v \in Vaults, ProcessTask(v) PROVE SoleInv'
  <2>1. /\ UNCHANGED <<hand, pool, pc, caller, interrupted, engines, rows, nextId>>
        /\ todo' \subseteq todo /\ v \in todo
    BY <1>5 DEF ProcessTask
  <2>2. CASE taskMap[v] = NoTask
    <3>1. \A c \in Callers : caller[c].pc # "idle" => caller[c].vault # v
      BY <2>2 DEF PlaceInv, CallersKnow, SoleInv, CallHolds
    <3>2. Schedule(v, FALSE)
      BY <1>5, <2>2 DEF ProcessTask
    <3> QED
      BY <1>2, <2>1, <2>2, <3>1, <3>2, CreationKeepsSole
  <2>3. CASE taskMap[v] # NoTask
    <3>1. UNCHANGED <<heap, taskMap, vaultOf>>
      BY <1>5, <2>3 DEF ProcessTask, KeepTask
    <3>2. \A t \in Tasks : Copies(t)' = Copies(t) /\ Copies(t) \in Nat
      BY <2>1, <3>1, CopiesIsNat DEF PlaceInv, Copies
    <3>3. \A t \in Tasks : Copies(t)' <= Copies(t)
      BY <3>2
    <3> QED
      BY <1>1, <1>2, <2>1, <3>1, <3>3, StillSole
  <2> QED
    BY <2>2, <2>3
<1> QED
  BY <1>3, <1>4, <1>5

\* So do those of the storage manager, and those of runNow if its calls are apart.
LEMMA RequestsKeepSole ==
  ASSUME CallsApart, PlaceInv, TypeOK', SoleInv,
         \/ \E c \in Callers : RunNowStep(c) \/ \E v \in Vaults : RunNowLookup(c, v)
         \/ \E v \in Vaults : RemoveVault(v) \/ \E listed \in BOOLEAN : AddVault(v, listed)
  PROVE  SoleInv'
<1> USE DEF CallFrame, AdminFrame, loopVars, queueVars, taskVars, runVars, adminVars
<1>1. \A v \in engines \cup rows : v \in Nat /\ v <= nextId
  BY DEF SoleInv, KnownVaults
<1>2. todo \subseteq engines
  BY DEF SoleInv, KnownVaults
<1>3. caller \in [Callers -> [pc : {"idle", "interrupt", "wait", "insert"},
                             vault : Vaults \cup {NoVault}, task : Tasks \cup {NoTask}]]
  BY DEF PlaceInv, TypeOK
<1>4. interrupted \in [Tasks -> BOOLEAN] /\ nextId \in Nat
  BY DEF PlaceInv, TypeOK
<1>5. ASSUME UNCHANGED <<engines, rows, nextId, todo, taskMap, vaultOf, heap, pool, hand, pc>>,
             CallHolds', \A t \in Tasks : interrupted[t] => interrupted'[t]
      PROVE  SoleInv'
  <2>1. KnownVaults'
    BY <1>5 DEF SoleInv, KnownVaults
  <2>2. SoleLiveTask'
    BY <1>5 DEF SoleInv, SoleLiveTask, Copies
  <2> QED
    BY <1>5, <2>1, <2>2 DEF SoleInv
<1>6. ASSUME NEW c \in Callers, NEW v \in Vaults, RunNowLookup(c, v) PROVE SoleInv'
  <2>1. UNCHANGED <<engines, rows, nextId, todo, taskMap, vaultOf, heap, pool, hand, pc, interrupted>>
    BY <1>6 DEF RunNowLookup
  <2>2. caller' = [caller EXCEPT ![c] = [pc |-> "interrupt", vault |-> v, task |-> taskMap[v]]]
    BY <1>6 DEF RunNowLookup
  <2>3. CallHolds'
    BY <1>3, <2>1, <2>2 DEF SoleInv, CallHolds
  <2> QED
    BY <1>5, <2>1, <2>3
<1>7. ASSUME NEW c \in Callers, RunNowInterrupt(c) \/ RunNowWaited(c) PROVE SoleInv'
  <2>1. UNCHANGED <<engines, rows, nextId, todo, taskMap, vaultOf, heap, pool, hand, pc>>
    BY <1>7 DEF RunNowInterrupt, RunNowWaited
  <2>2. caller[c].task \in Tasks
    BY <1>7 DEF RunNowInterrupt, RunNowWaited, PlaceInv, CallersKnow
  <2>3. /\ \A t \in Tasks : interrupted[t] => interrupted'[t]
        /\ interrupted'[caller[c].task]
    <3>1. CASE RunNowInterrupt(c)
      BY <1>4, <2>2, <3>1 DEF RunNowInterrupt, Interrupt
    <3>2. CASE RunNowWaited(c)
      BY <3>2 DEF RunNowWaited, SoleInv, CallHolds
    <3> QED
      BY <1>7, <3>1, <3>2
  <2>4. \/ caller' = [caller EXCEPT ![c].pc = "wait"]
        \/ caller' = [caller EXCEPT ![c].pc = "insert"]
    BY <1>7 DEF RunNowInterrupt, RunNowWaited
  <2>5. caller[c].pc # "idle"
    BY <1>7 DEF RunNowInterrupt, RunNowWaited
  <2>6. caller'[c].vault = caller[c].vault /\ caller'[c].task = caller[c].task
    BY <1>3, <2>4
  <2>7. CallHolds'
    <3>1. \A d \in Callers \ {c} : caller'[d] = caller[d]
      BY <1>3, <2>4
    <3>2. \A d \in Callers : caller[d].pc # "idle" => caller[d].task \in Tasks
      BY DEF PlaceInv, CallersKnow
    <3> QED
      BY <2>1, <2>3, <2>5, <2>6, <3>1, <3>2 DEF SoleInv, CallHolds
  <2> QED
    BY <1>5, <2>1, <2>3, <2>7
<1>8. ASSUME NEW c \in Callers, RunNowInsert(c) PROVE SoleInv'
  <2> DEFINE v == caller[c].vault
  <2>1. /\ v \in Vaults /\ Schedule(v, TRUE) /\ taskMap[v] \in Tasks /\ interrupted[taskMap[v]]
        /\ v \in engines
    <3>1. caller[c].pc = "insert" /\ Schedule(v, TRUE)
      BY <1>8 DEF RunNowInsert
    <3>2. v \in Vaults /\ caller[c].task \in Tasks
      BY <3>1 DEF PlaceInv, CallersKnow
    <3>3. taskMap[v] = caller[c].task /\ interrupted[caller[c].task]
      BY <3>1 DEF SoleInv, CallHolds
    <3>4. v \in engines
      BY <3>2, <3>3 DEF SoleInv, KnownVaults
    <3> QED
      BY <3>1, <3>2, <3>3, <3>4
  <2>2. UNCHANGED <<hand, pool, pc, interrupted, engines, rows, nextId, todo>>
    BY <1>8 DEF RunNowInsert
  <2>3. \A d \in Callers : \/ caller'[d] = NoCall
                            \/ /\ caller'[d] = caller[d]
                               /\ caller[d].pc # "idle" => caller[d].vault # v
    <3>1. caller[c].pc = "insert" /\ caller' = [caller EXCEPT ![c] = NoCall]
      BY <1>8 DEF RunNowInsert
    <3> QED
      BY <1>3, <3>1 DEF CallsApart
  <2> HIDE DEF v
  <2> QED
    BY <2>1, <2>2, <2>3, CreationKeepsSole
<1>9. ASSUME NEW v \in Vaults, NEW listed \in BOOLEAN, AddVault(v, listed) \/ RemoveVault(v)
      PROVE  SoleInv'
  <2>1. UNCHANGED <<taskMap, vaultOf, caller, interrupted, heap, pool, hand, pc, todo>>
    BY <1>9 DEF AddVault, RemoveVault
  <2>2. /\ engines \subseteq engines'
        /\ \A w \in engines' \cup rows' : w \in Nat /\ w <= nextId'
    BY <1>1, <1>4, <1>9 DEF AddVault, RemoveVault
  <2>3. \A t \in Tasks : Copies(t)' <= Copies(t)
    <3>1. \A t \in Tasks : Copies(t)' = Copies(t) /\ Copies(t) \in Nat
      BY <2>1, CopiesIsNat DEF PlaceInv, Copies
    <3> QED
      BY <3>1
  <2> QED
    BY <1>2, <2>1, <2>2, <2>3, StillSole
<1> QED
  BY <1>6, <1>7, <1>8, <1>9 DEF RunNowStep

\* The two invariants hold together as long as the calls of runNow are apart.
LEMMA SoleInvariant == Spec /\ []CallsApart => [](PlaceInv /\ SoleInv)
<1>1. CallsApart /\ PlaceInv /\ TypeOK' /\ SoleInv /\ [Next]_vars => SoleInv'
  <2> SUFFICES ASSUME CallsApart, PlaceInv, TypeOK', SoleInv, [Next]_vars PROVE SoleInv'
    OBVIOUS
  <2>1. CASE UNCHANGED vars
    BY <2>1 DEF vars, adminVars, loopVars, queueVars, taskVars, runVars, SoleInv, KnownVaults,
                      CallHolds, SoleLiveTask, Copies
  <2>2. CASE Next
    BY <2>2, SchedulerKeepsSole, RequestsKeepSole DEF Next, Moving
  <2> QED
    BY <2>1, <2>2
<1> QED
  BY <1>1, InitSole, PlaceInvariant, TypeCorrect, PTL DEF Spec

\* A scheduled task that is not cancelled is the one the map knows: runNow cancels the task it
\* replaces, refreshes never unmap one, and no vault gets a second task that nothing can
\* interrupt, for any vaults, tasks, callers and workers and any failures, as long as no two
\* calls of runNow for one vault overlap.
THEOREM SoleLiveTaskHolds == Spec /\ []CallsApart => []SoleLiveTask
<1>1. PlaceInv /\ SoleInv => SoleLiveTask
  BY DEF SoleInv
<1> QED
  BY <1>1, SoleInvariant, PTL

-----------------------------------------------------------------------------
(* What drops a task out of the schedule.                                   *)

\* The labels of a run that has its event.
WithEvent == {"stages", "subtasks", "stop", "parse", "finish"}

\* An event is of one vault.
EventsApart ==
  /\ \A v, w \in Vaults : latest[v] = latest[w] /\ latest[v] # NoEvent => v = w
  /\ \A t \in Tasks, v \in Vaults : evOf[t] # NoEvent /\ evOf[t] = latest[v] => vaultOf[t] = v

\* A run has the event it works on, and an event that says error has a reason.
RunsHaveEvents ==
  /\ \A t \in Tasks : pc[t] \in WithEvent <=> evOf[t] # NoEvent
  /\ \A t \in Tasks : pc[t] = "adopt" => latest[vaultOf[t]] # NoEvent
  /\ \A e \in Events : status[e] = "error" => spoiled[e]

\* The labels of a run that is in its stages.
AtWork == {"stages", "subtasks"}

\* The latest event of v carries an error, or a cancelled run is about to put one there.
Doomed(v) ==
  \/ latest[v] # NoEvent /\ spoiled[latest[v]]
  \/ \E u \in Tasks : /\ vaultOf[u] = v /\ interrupted[u]
                      /\ pc[u] = "adopt" \/ (pc[u] \in AtWork /\ evOf[u] = latest[v])

\* The event of a run that is not cancelled is no longer the latest one, or says something else
\* than success at its end, only behind a cancelled run.
RunsEndWell == \A t \in Tasks, v \in rows :
  /\ vaultOf[t] = v /\ ~interrupted[t] /\ pc[t] \in WithEvent
  /\ evOf[t] # latest[v] \/ (pc[t] = "finish" /\ status[evOf[t]] # "success")
  => Doomed(v)

\* So does a mapped task that has left the schedule.
DropsAreDoomed == \A t \in Tasks, v \in rows :
  taskMap[v] = t /\ Copies(t) = 0 /\ ~interrupted[t] => Doomed(v)

DropInv == /\ EventsApart /\ RunsHaveEvents
           /\ faults = 0 => RunsEndWell /\ DropsAreDoomed

LEMMA InitDrop == Init => DropInv
<1> SUFFICES ASSUME Init PROVE DropInv
  OBVIOUS
<1>1. EventsApart
  BY DEF Init, EventsApart
<1>2. RunsHaveEvents
  BY DEF Init, RunsHaveEvents, WithEvent
<1>3. RunsEndWell
  BY DEF Init, RunsEndWell, WithEvent
<1>4. DropsAreDoomed
  BY DEF Init, DropsAreDoomed
<1> QED
  BY <1>1, <1>2, <1>3, <1>4 DEF DropInv

\* A step that touches no event and no run with one keeps the invariant, if it lets no task of
\* the map out of the schedule but a cancelled one.
LEMMA QuietKeepsDrop ==
  ASSUME PlaceInv, SoleInv, DropInv, UNCHANGED <<latest, status, spoiled, evOf>>,
         faults' \in Nat, faults \in Nat, faults <= faults',
         \A u \in Tasks : \/ pc'[u] = pc[u] /\ vaultOf'[u] = vaultOf[u]
                          \/ pc[u] = "idle" /\ pc'[u] \in {"idle", "event"},
         \A u \in Tasks : interrupted[u] => interrupted'[u],
         \A v \in engines : v \in rows' => v \in rows,
         \A t \in Tasks, v \in rows' :
            taskMap'[v] = t /\ Copies(t)' = 0 /\ ~interrupted'[t]
            => v \in rows /\ taskMap[v] = t /\ Copies(t) = 0 /\ ~interrupted[t]
  PROVE  DropInv'
<1>1. /\ vaultOf \in [Tasks -> Vaults \cup {NoVault}]
      /\ \A u \in Tasks : Copies(u) = 0 => pc[u] = "idle"
  <2>1. \A u \in Tasks : heap[u] \in Nat /\ pool[u] \in Nat
    BY DEF PlaceInv, TypeOK
  <2> QED
    BY <2>1 DEF PlaceInv, TypeOK, Copies
<1>2. \A u \in Tasks : pc[u] # "idle" => pc'[u] = pc[u] /\ vaultOf'[u] = vaultOf[u]
  OBVIOUS
<1>3. \A u \in Tasks : pc[u] = "idle" => pc'[u] \in {"idle", "event"}
  OBVIOUS
<1>4. EventsApart' /\ RunsHaveEvents'
  <2>1. \A u \in Tasks : evOf[u] # NoEvent => vaultOf'[u] = vaultOf[u]
    BY <1>2 DEF DropInv, RunsHaveEvents, WithEvent
  <2>2. EventsApart'
    BY <2>1 DEF DropInv, EventsApart
  <2>3. RunsHaveEvents'
    BY <1>2, <1>3 DEF DropInv, RunsHaveEvents, WithEvent
  <2> QED
    BY <2>2, <2>3
<1>5. \A v \in Vaults : Doomed(v) => Doomed(v)'
  BY <1>2 DEF Doomed, AtWork
<1>6. ASSUME faults' = 0 PROVE RunsEndWell'
  <2>1. faults = 0
    BY <1>6
  <2> SUFFICES ASSUME NEW t \in Tasks, NEW v \in rows', vaultOf'[t] = v, ~interrupted'[t],
                      pc'[t] \in WithEvent,
                      evOf[t] # latest[v] \/ (pc'[t] = "finish" /\ status[evOf[t]] # "success")
               PROVE  Doomed(v)'
    BY DEF RunsEndWell
  <2>2. pc'[t] = pc[t] /\ vaultOf[t] = v /\ pc[t] # "idle" /\ ~interrupted[t]
    BY <1>2, <1>3 DEF WithEvent
  <2>3. v # NoVault /\ v \in Vaults
    BY <1>1, <2>2 DEF PlaceInv, FreshIsNowhere
  <2>4. v \in engines
    BY <2>2, <2>3 DEF SoleInv, KnownVaults
  <2>5. v \in rows
    BY <2>4
  <2>6. Doomed(v)
    BY <2>1, <2>2, <2>5 DEF DropInv, RunsEndWell
  <2> QED
    BY <1>5, <2>3, <2>6
<1>7. ASSUME faults' = 0 PROVE DropsAreDoomed'
  <2>1. faults = 0
    BY <1>7
  <2>2. DropsAreDoomed /\ rows \subseteq Vaults
    BY <2>1 DEF DropInv, PlaceInv, TypeOK
  <2> SUFFICES ASSUME NEW t \in Tasks, NEW v \in rows', taskMap'[v] = t, Copies(t)' = 0,
                      ~interrupted'[t]
               PROVE  Doomed(v)'
    BY DEF DropsAreDoomed
  <2>3. v \in rows /\ taskMap[v] = t /\ Copies(t) = 0 /\ ~interrupted[t]
    OBVIOUS
  <2> QED
    BY <1>5, <2>2, <2>3 DEF DropsAreDoomed
<1> QED
  BY <1>4, <1>6, <1>7 DEF DropInv

\* createTask keeps the invariant: the new task is in the heap.
LEMMA CreationKeepsDrop ==
  ASSUME PlaceInv, SoleInv, DropInv, faults \in Nat, faults' \in Nat, faults <= faults',
         NEW v \in Vaults, NEW isDue \in BOOLEAN, Schedule(v, isDue),
         UNCHANGED <<hand, pool, pc, rows, interrupted, latest, status, spoiled, evOf>>
  PROVE  DropInv'
<1>1. PICK t \in Tasks : /\ vaultOf[t] = NoVault /\ Copies(t)' = 1
                         /\ vaultOf' = [vaultOf EXCEPT ![t] = v]
                         /\ taskMap' = [taskMap EXCEPT ![v] = t]
                         /\ \A u \in Tasks \ {t} : Copies(u)' = Copies(u)
  BY CreationMakesOneEntry
<1>2. /\ vaultOf \in [Tasks -> Vaults \cup {NoVault}] /\ taskMap \in [Vaults -> Tasks \cup {NoTask}]
      /\ rows \subseteq Vaults /\ heap[t] \in Nat /\ pool[t] \in Nat
  BY DEF PlaceInv, TypeOK
<1>3. pc[t] = "idle"
  <2>1. Copies(t) = 0
    BY <1>1 DEF PlaceInv, FreshIsNowhere
  <2> QED
    BY <1>2, <2>1 DEF Copies
<1>4. \A u \in Tasks : \/ pc'[u] = pc[u] /\ vaultOf'[u] = vaultOf[u]
                       \/ pc[u] = "idle" /\ pc'[u] \in {"idle", "event"}
  BY <1>1, <1>2, <1>3
<1>5. \A u \in Tasks, w \in rows :
         taskMap'[w] = u /\ Copies(u)' = 0 => taskMap[w] = u /\ Copies(u) = 0
  BY <1>1, <1>2
<1> QED
  BY <1>4, <1>5, QuietKeepsDrop

\* The service thread's own moves lose no task but the cancelled ones.
LEMMA LoopLosesNone ==
  ASSUME PlaceInv, NEW u \in Tasks, Dispatch \/ \E t \in Tasks : PopTop(t) \/ StartRun(t)
  PROVE  Copies(u)' = Copies(u) \/ interrupted[u]
<1> USE DEF Copies
<1>1. /\ heap[u] \in Nat /\ pool[u] \in Nat /\ heap \in [Tasks -> Nat] /\ pool \in [Tasks -> Nat]
      /\ DOMAIN pc = Tasks /\ hand \in Tasks \cup {NoTask}
  BY DEF PlaceInv, TypeOK
<1>2. CASE Dispatch
  <2>1. hand \in Tasks /\ hand' = NoTask /\ pc' = pc
    BY <1>1, <1>2 DEF Dispatch, LoopFrame, runVars, PlaceInv, HandHeld
  <2>2. \/ heap' = [heap EXCEPT ![hand] = @ + 1] /\ pool' = pool
        \/ pool' = [pool EXCEPT ![hand] = @ + 1] /\ heap' = heap
    BY <1>2 DEF Dispatch, PutBack
  <2> QED
    BY <1>1, <2>1, <2>2
<1>3. ASSUME NEW t \in Tasks, PopTop(t) PROVE Copies(u)' = Copies(u) \/ interrupted[u]
  <2>1. /\ hand = NoTask /\ (hand' = t \/ (interrupted[t] /\ hand' = hand)) /\ pc' = pc /\ pool' = pool
        /\ heap' = [heap EXCEPT ![t] = @ - 1] /\ heap[t] > 0
    BY <1>3 DEF PopTop, Top, Discard, LoopFrame, runVars, PlaceInv, HandHeld
  <2> QED
    BY <1>1, <2>1
<1>4. ASSUME NEW t \in Tasks, StartRun(t) PROVE Copies(u)' = Copies(u)
  <2>1. pc[t] = "idle"
    <3>1. pool[t] > 0 /\ pool[t] \in Nat /\ heap[t] \in Nat
      BY <1>1, <1>4 DEF StartRun
    <3>2. Copies(t) <= 1
      BY DEF PlaceInv, SinglePlace
    <3> QED
      BY <3>1, <3>2
  <2>2. /\ pool[t] > 0 /\ pool' = [pool EXCEPT ![t] = @ - 1] /\ heap' = heap /\ hand' = hand
        /\ pc' = [pc EXCEPT ![t] = "event"]
    BY <1>4 DEF StartRun, Goto, RunFrame
  <2> QED
    BY <1>1, <2>1, <2>2
<1> QED
  BY <1>2, <1>3, <1>4

\* The steps of the service thread keep the invariant.
LEMMA LoopKeepsDrop ==
  ASSUME PlaceInv, TypeOK', SoleInv, DropInv,
         \/ Dispatch \/ \E t \in Tasks : PopTop(t) \/ StartRun(t)
         \/ Refresh \/ RefreshFails \/ WatchdogRestart \/ \E t \in Tasks : Elapse(t)
         \/ \E v \in Vaults : ProcessTask(v)
  PROVE  DropInv'
<1> USE DEF LoopFrame, RunFrame, queueVars, loopVars, runVars, eventVars, adminVars
<1>1. /\ faults \in Nat /\ faults' \in Nat /\ faults <= faults'
      /\ UNCHANGED <<rows, interrupted, latest, status, spoiled, evOf>>
  <2>1. faults \in Nat /\ faults' \in Nat
    BY DEF PlaceInv, TypeOK
  <2>2. faults' = faults \/ faults' = faults + 1
    BY DEF Dispatch, PopTop, StartRun, Refresh, RefreshFails, WatchdogRestart, Elapse, ProcessTask,
           Fault
  <2>3. UNCHANGED <<rows, interrupted, latest, status, spoiled, evOf>>
    BY DEF Dispatch, PopTop, StartRun, Refresh, RefreshFails, WatchdogRestart, Elapse, ProcessTask,
           Goto
  <2> QED
    BY <2>1, <2>2, <2>3
<1>2. pc \in [Tasks -> Labels]
  BY DEF PlaceInv, TypeOK
<1>3. CASE Dispatch \/ \E t \in Tasks : PopTop(t) \/ StartRun(t)
  <2>1. UNCHANGED <<vaultOf, taskMap>>
    BY <1>3 DEF Dispatch, PopTop, StartRun
  <2>2. \A u \in Tasks : pc'[u] = pc[u] \/ (pc[u] = "idle" /\ pc'[u] \in {"idle", "event"})
    <3>1. CASE UNCHANGED pc
      BY <3>1
    <3>2. ASSUME NEW t \in Tasks, StartRun(t)
          PROVE  pc' = [pc EXCEPT ![t] = "event"] /\ pc[t] = "idle"
      <4>1. pool[t] > 0 /\ pool[t] \in Nat /\ heap[t] \in Nat /\ Copies(t) <= 1
        BY <3>2 DEF StartRun, PlaceInv, TypeOK, SinglePlace
      <4> QED
        BY <3>2, <4>1 DEF StartRun, Goto, Copies
    <3> QED
      BY <1>2, <1>3, <3>1, <3>2 DEF Dispatch, PopTop
  <2>3. \A t \in Tasks : Copies(t)' = Copies(t) \/ interrupted[t]
    BY <1>3, LoopLosesNone
  <2> QED
    BY <1>1, <2>1, <2>2, <2>3, QuietKeepsDrop
<1>4. CASE Refresh \/ RefreshFails \/ WatchdogRestart \/ \E t \in Tasks : Elapse(t)
  <2>1. UNCHANGED <<vaultOf, heap, pool, hand, pc>>
    BY <1>4 DEF Refresh, RefreshFails, WatchdogRestart, Elapse
  <2>2. taskMap' = taskMap
    <3>1. taskMap = [v \in Vaults |-> IF v \in engines THEN taskMap[v] ELSE NoTask]
      BY DEF PlaceInv, TypeOK, SoleInv, KnownVaults
    <3> QED
      BY <1>4, <3>1 DEF Refresh, RefreshFails, WatchdogRestart, Elapse
  <2>3. \A t \in Tasks : Copies(t)' = Copies(t)
    BY <2>1 DEF Copies
  <2> QED
    BY <1>1, <2>1, <2>2, <2>3, QuietKeepsDrop
<1>5. ASSUME NEW v \in Vaults, ProcessTask(v) PROVE DropInv'
  <2>1. UNCHANGED <<hand, pool, pc>>
    BY <1>5 DEF ProcessTask
  <2>2. CASE Schedule(v, FALSE)
    BY <1>1, <2>1, <2>2, CreationKeepsDrop
  <2>3. CASE KeepTask(v)
    <3>1. UNCHANGED <<heap, taskMap, vaultOf>>
      BY <2>3 DEF KeepTask
    <3>2. \A t \in Tasks : Copies(t)' = Copies(t)
      BY <2>1, <3>1 DEF Copies
    <3> QED
      BY <1>1, <2>1, <3>1, <3>2, QuietKeepsDrop
  <2> QED
    BY <1>5, <2>2, <2>3 DEF ProcessTask
<1> QED
  BY <1>3, <1>4, <1>5

\* The steps of runNow and of the storage manager keep the invariant.
LEMMA RequestsKeepDrop ==
  ASSUME PlaceInv, TypeOK', SoleInv, DropInv,
         \/ \E c \in Callers : RunNowStep(c) \/ \E v \in Vaults : RunNowLookup(c, v)
         \/ \E v \in Vaults : RemoveVault(v) \/ \E listed \in BOOLEAN : AddVault(v, listed)
  PROVE  DropInv'
<1> USE DEF CallFrame, AdminFrame, queueVars, loopVars, taskVars, runVars, eventVars, adminVars
<1>1. /\ faults \in Nat /\ interrupted \in [Tasks -> BOOLEAN]
      /\ nextId \in Nat /\ \A v \in engines : v \in Nat /\ v <= nextId
  BY DEF PlaceInv, TypeOK, SoleInv, KnownVaults
<1>2. UNCHANGED <<faults, latest, status, spoiled, evOf, pc, pool, hand>>
  BY DEF RunNowStep, RunNowLookup, RunNowInterrupt, RunNowWaited, RunNowInsert, AddVault, RemoveVault
<1>3. CASE \/ \E c \in Callers : \/ RunNowInterrupt(c) \/ RunNowWaited(c)
                                 \/ \E v \in Vaults : RunNowLookup(c, v)
           \/ \E v \in Vaults : RemoveVault(v) \/ \E listed \in BOOLEAN : AddVault(v, listed)
  <2>1. UNCHANGED <<heap, taskMap, vaultOf>>
    BY <1>3 DEF RunNowLookup, RunNowInterrupt, RunNowWaited, AddVault, RemoveVault
  <2>2. \A t \in Tasks : interrupted[t] => interrupted'[t]
    BY <1>1, <1>3 DEF RunNowLookup, RunNowInterrupt, Interrupt, RunNowWaited, AddVault, RemoveVault
  <2>3. \A t \in Tasks : Copies(t)' = Copies(t)
    BY <1>2, <2>1 DEF Copies
  <2>4. \A v \in engines : v \in rows' => v \in rows
    BY <1>1, <1>3 DEF RunNowLookup, RunNowInterrupt, RunNowWaited, AddVault, RemoveVault
  <2>5. \A t \in Tasks : \A v \in Vaults : taskMap[v] = t => v \in engines
    BY DEF SoleInv, KnownVaults
  <2>6. rows' \subseteq Vaults
    BY DEF TypeOK
  <2> QED
    BY <1>1, <1>2, <2>1, <2>2, <2>3, <2>4, <2>5, <2>6, QuietKeepsDrop
<1>4. ASSUME NEW c \in Callers, RunNowInsert(c) PROVE DropInv'
  <2>1. caller[c].vault \in Vaults /\ Schedule(caller[c].vault, TRUE)
    BY <1>4 DEF RunNowInsert, PlaceInv, CallersKnow
  <2>2. UNCHANGED <<rows, interrupted>>
    BY <1>4 DEF RunNowInsert
  <2>3. faults' \in Nat /\ faults <= faults'
    BY <1>1, <1>2
  <2> HIDE DEF RunNowInsert
  <2> QED
    BY <1>1, <1>2, <2>1, <2>2, <2>3, CreationKeepsDrop
<1> QED
  BY <1>3, <1>4 DEF RunNowStep

\* A new event is in nobody's hands.
LEMMA NewEventIsNobodys ==
  ASSUME PlaceInv, NEW v \in Vaults, \E e \in Events : e \notin Held(v)
  PROVE  /\ NewEvent(v) \in Events
         /\ \A u \in Tasks : evOf[u] # NewEvent(v)
         /\ \A w \in Vaults \ {v} : latest[w] # NewEvent(v)
<1>1. NewEvent(v) \in Events /\ NewEvent(v) \notin Held(v)
  BY DEF NewEvent
<1> QED
  BY <1>1 DEF Held

\* What a step of a run leaves alone, whatever it does.
LEMMA RunTouches ==
  ASSUME PlaceInv, NEW t \in Tasks, RunStep(t)
  PROVE  /\ UNCHANGED <<vaultOf, taskMap, interrupted, rows, engines>>
         /\ pc[t] # "idle" /\ faults <= faults'
         /\ \A u \in Tasks \ {t} : pc'[u] = pc[u] /\ evOf'[u] = evOf[u]
<1> USE DEF RunStep, NewSyncEvent, CreateEvent, AdoptEvent, AwaitSubtasks, SubtasksDone, StageEnds, StageFails, StopRunning, ParseStatus,
            FinishRun, RunFrame, Goto, Leave, Throws, Fault, runVars, adminVars, loopVars, eventVars
<1>1. faults \in Nat
  BY DEF PlaceInv, TypeOK
<1>2. faults' = faults \/ faults' = faults + 1
  OBVIOUS
<1>3. UNCHANGED <<vaultOf, taskMap, interrupted, rows, engines>> /\ pc[t] # "idle"
  OBVIOUS
<1>4. /\ pc' = pc \/ \E label : pc' = [pc EXCEPT ![t] = label]
      /\ evOf' = evOf \/ \E e : evOf' = [evOf EXCEPT ![t] = e]
  OBVIOUS
<1>5. DOMAIN pc = Tasks /\ DOMAIN evOf = Tasks
  BY DEF PlaceInv, TypeOK
<1>6. \A u \in Tasks \ {t} : pc'[u] = pc[u] /\ evOf'[u] = evOf[u]
  BY <1>4, <1>5
<1> QED
  BY <1>1, <1>2, <1>3, <1>6

\* A run whose task exists is of a vault.
LEMMA RunsHaveVaults ==
  ASSUME PlaceInv, NEW u \in Tasks, pc[u] # "idle"
  PROVE  vaultOf[u] \in Vaults /\ Copies(u) > 0
<1>1. heap[u] \in Nat /\ pool[u] \in Nat /\ vaultOf[u] \in Vaults \cup {NoVault}
  BY DEF PlaceInv, TypeOK
<1>2. Copies(u) > 0
  BY <1>1 DEF Copies
<1> QED
  BY <1>1, <1>2 DEF PlaceInv, FreshIsNowhere

\* A step of a run keeps the events of the vaults apart.
LEMMA RunKeepsEvents ==
  ASSUME PlaceInv, TypeOK', DropInv, NEW t \in Tasks, RunStep(t)
  PROVE  EventsApart' /\ RunsHaveEvents'
<1>1. /\ EventsApart /\ RunsHaveEvents
      /\ UNCHANGED <<vaultOf>> /\ pc[t] # "idle" /\ vaultOf[t] \in Vaults
      /\ \A u \in Tasks \ {t} : pc'[u] = pc[u] /\ evOf'[u] = evOf[u]
  BY RunTouches, RunsHaveVaults DEF DropInv
<1>2. /\ pc \in [Tasks -> Labels]
      /\ evOf \in [Tasks -> Events \cup {NoEvent}] /\ latest \in [Vaults -> Events \cup {NoEvent}]
      /\ status \in [Events -> {"pending", "running"} \cup Terminal] /\ spoiled \in [Events -> BOOLEAN]
  BY DEF PlaceInv, TypeOK
<1>3. ASSUME UNCHANGED latest, evOf'[t] \in {NoEvent, evOf[t], latest[vaultOf[t]]}
      PROVE  EventsApart'
  <2>1. \A w, x \in Vaults : latest[w] = latest[x] /\ latest[w] # NoEvent => w = x
    BY <1>1 DEF EventsApart
  <2>2. \A u \in Tasks, w \in Vaults : evOf'[u] # NoEvent /\ evOf'[u] = latest[w] => vaultOf[u] = w
    <3> SUFFICES ASSUME NEW u \in Tasks, NEW w \in Vaults, evOf'[u] # NoEvent,
                        evOf'[u] = latest[w]
                 PROVE  vaultOf[u] = w
      OBVIOUS
    <3>1. CASE evOf'[u] = evOf[u]
      BY <1>1, <3>1 DEF EventsApart
    <3>2. CASE u = t /\ evOf'[u] = latest[vaultOf[t]]
      BY <1>1, <2>1, <3>2
    <3> QED
      BY <1>1, <1>3, <3>1, <3>2
  <2> QED
    BY <1>1, <1>3, <2>1, <2>2 DEF EventsApart
<1>4. ASSUME UNCHANGED latest, pc'[t] \in WithEvent <=> evOf'[t] # NoEvent,
             pc'[t] = "adopt" => latest[vaultOf[t]] # NoEvent,
             \A e \in Events : status'[e] = "error" => spoiled'[e]
      PROVE  RunsHaveEvents'
  BY <1>1, <1>4 DEF RunsHaveEvents
<1>5. CASE NewSyncEvent(t)
  <2>1. UNCHANGED <<latest, status, spoiled>> /\ pc[t] = "event"
    BY <1>5 DEF eventVars, NewSyncEvent
  <2>2. \/ pc'[t] \in {"idle", "create"}
        \/ pc'[t] = "adopt" /\ latest[vaultOf[t]] # NoEvent
    BY <1>2, <1>5 DEF NewSyncEvent, Goto, Leave
  <2>3. evOf[t] = NoEvent
    BY <1>1, <2>1 DEF RunsHaveEvents, WithEvent
  <2>4. evOf'[t] = NoEvent
    BY <1>2, <1>5, <2>3 DEF NewSyncEvent, Goto, Leave
  <2> QED
    BY <1>1, <1>3, <1>4, <2>1, <2>2, <2>4 DEF RunsHaveEvents, WithEvent
<1>9. CASE CreateEvent(t)
  <2> DEFINE v == vaultOf[t]
             e == NewEvent(v)
  <2>1. /\ \E f \in Events : f \notin Held(v)
        /\ latest' = [latest EXCEPT ![v] = e]
        /\ status' = [status EXCEPT ![e] = "pending"]
        /\ spoiled' = [spoiled EXCEPT ![e] = FALSE]
        /\ \/ pc'[t] = "idle" /\ evOf'[t] = NoEvent
           \/ pc'[t] = "adopt" /\ evOf'[t] = evOf[t]
        /\ pc[t] = "create"
    BY <1>2, <1>9 DEF CreateEvent, Goto, Leave
  <2>2. /\ e \in Events /\ \A u \in Tasks : evOf[u] # e
        /\ \A w \in Vaults \ {v} : latest[w] # e
    BY <1>1, <2>1, NewEventIsNobodys
  <2>3. evOf[t] = NoEvent /\ v \in Vaults
    BY <1>1, <2>1 DEF RunsHaveEvents, WithEvent
  <2> HIDE DEF e
  <2>4. evOf'[t] = NoEvent
    BY <2>1, <2>3
  <2>5. EventsApart'
    <3>1. \A u \in Tasks : evOf'[u] = evOf[u]
      BY <1>1, <2>3, <2>4
    <3>2. latest'[v] = e /\ \A w \in Vaults \ {v} : latest'[w] = latest[w]
      BY <1>2, <2>1, <2>3
    <3> HIDE DEF v
    <3> QED
      BY <1>1, <2>2, <3>1, <3>2 DEF EventsApart
  <2>6. RunsHaveEvents'
    <3>1. \A w \in Vaults : latest[w] # NoEvent => latest'[w] # NoEvent
      BY <1>2, <2>1, <2>2
    <3>2. latest'[v] # NoEvent
      BY <1>2, <2>1, <2>2, <2>3
    <3>3. \A f \in Events : status'[f] = "error" => spoiled'[f]
      BY <1>1, <1>2, <2>1, <2>2 DEF RunsHaveEvents
    <3>4. \A u \in Tasks : pc[u] = "adopt" => vaultOf[u] \in Vaults
      BY RunsHaveVaults
    <3> QED
      BY <1>1, <2>1, <2>4, <3>1, <3>2, <3>3, <3>4 DEF RunsHaveEvents, WithEvent
  <2> QED
    BY <2>5, <2>6
<1>10. CASE AwaitSubtasks(t) \/ SubtasksDone(t)
  <2>1. UNCHANGED <<latest, status, spoiled, evOf>> /\ pc[t] \in AtWork /\ pc'[t] \in AtWork
    BY <1>2, <1>10 DEF AwaitSubtasks, SubtasksDone, Goto, eventVars, AtWork
  <2> QED
    BY <1>1, <1>3, <1>4, <2>1 DEF RunsHaveEvents, WithEvent, AtWork
<1>6. CASE AdoptEvent(t)
  <2>1. UNCHANGED <<latest, spoiled>> /\ pc[t] = "adopt"
    BY <1>6 DEF AdoptEvent
  <2>2. latest[vaultOf[t]] # NoEvent
    BY <1>1, <2>1 DEF RunsHaveEvents
  <2>3. \/ pc'[t] = "stages" /\ evOf'[t] = latest[vaultOf[t]]
        \/ pc'[t] = "idle" /\ evOf'[t] = NoEvent
    BY <1>2, <1>6 DEF AdoptEvent, Leave
  <2>4. \A e \in Events : status'[e] = "error" => spoiled'[e]
    BY <1>1, <1>2, <1>6, <2>1 DEF AdoptEvent, RunsHaveEvents
  <2> QED
    BY <1>3, <1>4, <2>1, <2>2, <2>3, <2>4 DEF WithEvent
<1>7. CASE StageEnds(t) \/ StageFails(t)
  <2>1. UNCHANGED latest /\ pc[t] \in AtWork /\ evOf' = evOf
    BY <1>7 DEF StageEnds, StageFails, Goto, runVars, AtWork
  <2>2. pc'[t] \in {"stages", "stop"}
    BY <1>2, <1>7 DEF StageEnds, StageFails, Goto, runVars
  <2>3. evOf[t] \in Events /\ evOf[t] # NoEvent
    BY <1>1, <1>2, <2>1 DEF RunsHaveEvents, WithEvent, AtWork
  <2>4. \A e \in Events : status'[e] = "error" => spoiled'[e]
    <3>1. CASE HandleError(t)
      BY <1>1, <1>2, <2>3, <3>1 DEF HandleError, RunsHaveEvents
    <3>2. CASE status' = status /\ (spoiled' = spoiled \/ spoiled' = [spoiled EXCEPT ![evOf[t]] = TRUE])
      BY <1>1, <1>2, <2>3, <3>2 DEF RunsHaveEvents
    <3> QED
      BY <1>7, <3>1, <3>2 DEF StageEnds, StageFails
  <2> QED
    BY <1>3, <1>4, <2>1, <2>2, <2>3, <2>4 DEF WithEvent
<1>8. CASE StopRunning(t) \/ ParseStatus(t) \/ FinishRun(t)
  <2>1. UNCHANGED <<latest, spoiled>> /\ pc[t] \in {"stop", "parse", "finish"}
    BY <1>8 DEF StopRunning, ParseStatus, FinishRun, eventVars
  <2>2. evOf[t] \in Events /\ evOf[t] # NoEvent
    BY <1>1, <1>2, <2>1 DEF RunsHaveEvents, WithEvent
  <2>3. \/ pc'[t] \in {"parse", "finish"} /\ evOf'[t] = evOf[t]
        \/ pc'[t] = "idle" /\ evOf'[t] = NoEvent
    BY <1>2, <1>8 DEF StopRunning, ParseStatus, FinishRun, Goto, Leave
  <2>4. \A e \in Events : status'[e] = "error" => spoiled'[e]
    <3>1. CASE status' = status
      BY <1>1, <2>1, <3>1 DEF RunsHaveEvents
    <3>2. CASE ParseStatus(t)
      BY <1>1, <1>2, <2>1, <2>2, <3>2 DEF ParseStatus, RunsHaveEvents, Terminal
    <3> QED
      BY <1>8, <3>1, <3>2 DEF StopRunning, FinishRun, eventVars
  <2> QED
    BY <1>3, <1>4, <2>1, <2>2, <2>3, <2>4 DEF WithEvent
<1> QED
  BY <1>5, <1>6, <1>7, <1>8, <1>9, <1>10 DEF RunStep

\* Where nothing fails, the latest event of a vault stays doomed, unless a run that is not
\* cancelled begins a new one.
LEMMA DoomStays ==
  ASSUME PlaceInv, SoleInv, DropInv, NEW t \in Tasks, RunStep(t), faults' = 0,
         NEW v \in rows, Doomed(v), CreateEvent(t) => vaultOf[t] # v \/ interrupted[t]
  PROVE  Doomed(v)'
<1>1. /\ EventsApart /\ RunsHaveEvents /\ v \in Vaults
      /\ UNCHANGED <<vaultOf, interrupted>> /\ pc[t] # "idle" /\ vaultOf[t] \in Vaults
      /\ \A u \in Tasks \ {t} : pc'[u] = pc[u] /\ evOf'[u] = evOf[u]
  BY RunTouches, RunsHaveVaults DEF DropInv, PlaceInv, TypeOK
<1>2. /\ pc \in [Tasks -> Labels]
      /\ evOf \in [Tasks -> Events \cup {NoEvent}] /\ latest \in [Vaults -> Events \cup {NoEvent}]
      /\ status \in [Events -> {"pending", "running"} \cup Terminal] /\ spoiled \in [Events -> BOOLEAN]
      /\ faults \in Nat
  BY DEF PlaceInv, TypeOK
<1>3. ~Fault
  BY <1>2 DEF Fault
<1>4. ASSUME latest'[v] = latest[v],
             latest[v] # NoEvent /\ spoiled[latest[v]] => spoiled'[latest[v]],
             vaultOf[t] = v /\ interrupted[t]
                /\ (pc[t] = "adopt" \/ (pc[t] \in AtWork /\ evOf[t] = latest[v]))
             => \/ latest[v] # NoEvent /\ spoiled'[latest[v]]
                \/ pc'[t] = "adopt" \/ (pc'[t] \in AtWork /\ evOf'[t] = latest[v])
      PROVE  Doomed(v)'
  <2>1. CASE latest[v] # NoEvent /\ spoiled'[latest[v]]
    BY <1>4, <2>1 DEF Doomed
  <2>2. CASE ~(latest[v] # NoEvent /\ spoiled'[latest[v]])
    <3>1. PICK u \in Tasks : /\ vaultOf[u] = v /\ interrupted[u]
                             /\ pc[u] = "adopt" \/ (pc[u] \in AtWork /\ evOf[u] = latest[v])
      BY <1>4, <2>2 DEF Doomed
    <3>2. pc'[u] = "adopt" \/ (pc'[u] \in AtWork /\ evOf'[u] = latest[v])
      BY <1>1, <1>4, <2>2, <3>1
    <3> QED
      BY <1>1, <1>4, <3>1, <3>2 DEF Doomed
  <2> QED
    BY <2>1, <2>2
<1>5. CASE NewSyncEvent(t)
  <2>1. pc[t] = "event" /\ UNCHANGED <<latest, spoiled>>
    BY <1>5 DEF NewSyncEvent, eventVars
  <2> QED
    BY <1>4, <2>1 DEF AtWork
<1>9. CASE CreateEvent(t)
  <2> DEFINE w == vaultOf[t]
             e == NewEvent(w)
  <2>1. /\ \E f \in Events : f \notin Held(w)
        /\ latest' = [latest EXCEPT ![w] = e]
        /\ spoiled' = [spoiled EXCEPT ![e] = FALSE]
        /\ w \in rows => pc'[t] = "adopt"
        /\ pc[t] = "create"
    BY <1>2, <1>3, <1>9 DEF CreateEvent, Goto, Throws
  <2>2. /\ e \in Events /\ \A x \in Vaults \ {w} : latest[x] # e
    BY <1>1, <2>1, NewEventIsNobodys
  <2> HIDE DEF e
  <2>3. CASE v = w
    BY <1>1, <1>9, <2>1, <2>3 DEF Doomed
  <2>4. CASE v # w
    <3>1. latest'[v] = latest[v] /\ latest[v] # e
      BY <1>1, <1>2, <2>1, <2>2, <2>4
    <3>2. latest[v] # NoEvent => spoiled'[latest[v]] = spoiled[latest[v]]
      BY <1>1, <1>2, <2>1, <3>1
    <3> QED
      BY <1>4, <2>1, <3>1, <3>2 DEF AtWork
  <2> QED
    BY <2>3, <2>4
<1>10. CASE AwaitSubtasks(t) \/ SubtasksDone(t)
  <2>1. UNCHANGED <<latest, spoiled, evOf>> /\ pc[t] \in AtWork /\ pc'[t] \in AtWork
    BY <1>2, <1>10 DEF AwaitSubtasks, SubtasksDone, Goto, eventVars, AtWork
  <2> QED
    BY <1>4, <2>1 DEF AtWork
<1>6. CASE AdoptEvent(t)
  <2>1. UNCHANGED <<latest, spoiled>> /\ pc[t] = "adopt"
    BY <1>6 DEF AdoptEvent
  <2>2. vaultOf[t] \in rows => pc'[t] = "stages" /\ evOf'[t] = latest[vaultOf[t]]
    BY <1>2, <1>3, <1>6 DEF AdoptEvent, Throws
  <2> QED
    BY <1>4, <2>1, <2>2 DEF AtWork
<1>7. CASE StageEnds(t)
  <2>1. UNCHANGED latest /\ pc[t] \in AtWork /\ evOf[t] \in Events
    BY <1>1, <1>2, <1>7 DEF StageEnds, RunsHaveEvents, WithEvent, AtWork
  <2>2. /\ interrupted[t] => spoiled' = [spoiled EXCEPT ![evOf[t]] = TRUE]
        /\ ~interrupted[t] => spoiled' = spoiled
    BY <1>7 DEF StageEnds, HandleError
  <2>3. \A e \in Events : spoiled[e] => spoiled'[e]
    BY <1>2, <2>1, <2>2
  <2>4. interrupted[t] => spoiled'[evOf[t]]
    BY <1>2, <2>1, <2>2
  <2>5. latest[v] \in Events \cup {NoEvent}
    BY <1>1, <1>2
  <2>6. latest[v] # NoEvent /\ spoiled[latest[v]] => spoiled'[latest[v]]
    BY <2>3, <2>5
  <2>7. interrupted[t] /\ evOf[t] = latest[v] => latest[v] # NoEvent /\ spoiled'[latest[v]]
    BY <2>1, <2>4
  <2>8. latest'[v] = latest[v] /\ pc[t] # "adopt"
    BY <2>1 DEF AtWork
  <2> QED
    BY <1>4, <2>6, <2>7, <2>8
<1>8. CASE StopRunning(t) \/ ParseStatus(t) \/ FinishRun(t)
  <2>1. UNCHANGED <<latest, spoiled>> /\ pc[t] \in {"stop", "parse", "finish"}
    BY <1>8 DEF StopRunning, ParseStatus, FinishRun, eventVars
  <2> QED
    BY <1>4, <2>1 DEF AtWork
<1> QED
  BY <1>3, <1>5, <1>6, <1>7, <1>8, <1>9, <1>10 DEF RunStep, StageFails

\* Where nothing fails, a run that is not cancelled still ends well unless its vault is doomed.
LEMMA RunKeepsEndings ==
  ASSUME PlaceInv, SoleInv, DropInv, NEW t \in Tasks, RunStep(t), faults' = 0, faults = 0
  PROVE  RunsEndWell'
<1>1. /\ EventsApart /\ RunsHaveEvents /\ RunsEndWell
      /\ UNCHANGED <<vaultOf, interrupted, rows>> /\ pc[t] # "idle" /\ vaultOf[t] \in Vaults
      /\ \A u \in Tasks \ {t} : pc'[u] = pc[u] /\ evOf'[u] = evOf[u]
  BY RunTouches, RunsHaveVaults DEF DropInv
<1>2. /\ pc \in [Tasks -> Labels]
      /\ evOf \in [Tasks -> Events \cup {NoEvent}] /\ latest \in [Vaults -> Events \cup {NoEvent}]
      /\ status \in [Events -> {"pending", "running"} \cup Terminal] /\ spoiled \in [Events -> BOOLEAN]
      /\ rows \subseteq Vaults
  BY DEF PlaceInv, TypeOK
<1>3. ~Fault
  BY DEF Fault
<1> SUFFICES ASSUME NEW u \in Tasks, NEW v \in rows, vaultOf[u] = v, ~interrupted[u],
                    pc'[u] \in WithEvent,
                    evOf'[u] # latest'[v] \/ (pc'[u] = "finish" /\ status'[evOf'[u]] # "success")
             PROVE  Doomed(v)'
  BY <1>1 DEF RunsEndWell
<1> DEFINE Bad == evOf[u] # latest[v] \/ (pc[u] = "finish" /\ status[evOf[u]] # "success")
<1>4. v \in Vaults
  BY <1>2
<1>5. CASE u = t
  <2>1. CASE AdoptEvent(t)
    BY <1>1, <1>2, <1>3, <1>5, <2>1 DEF AdoptEvent, Throws
  <2>2. CASE NewSyncEvent(t) \/ CreateEvent(t) \/ FinishRun(t)
    BY <1>2, <1>5, <2>2 DEF NewSyncEvent, CreateEvent, FinishRun, Goto, Leave, WithEvent
  <2>3. CASE \/ AwaitSubtasks(t) \/ SubtasksDone(t) \/ StageEnds(t) \/ StopRunning(t)
             \/ ParseStatus(t)
    <3>1. UNCHANGED latest /\ pc[t] \in WithEvent /\ (evOf'[t] = evOf[t] \/ pc'[t] = "idle")
      BY <1>2, <2>3 DEF AwaitSubtasks, SubtasksDone, StageEnds, StopRunning, ParseStatus, Goto, Leave,
                        eventVars, WithEvent
    <3>2. evOf'[t] = evOf[t] /\ evOf[t] \in Events /\ evOf[t] # NoEvent
      BY <1>1, <1>2, <1>5, <3>1 DEF WithEvent, RunsHaveEvents
    <3>3. CASE evOf[t] # latest[v]
      <4>1. Doomed(v)
        BY <1>1, <1>5, <3>1, <3>3 DEF RunsEndWell
      <4>2. ~CreateEvent(t)
        BY <3>1 DEF CreateEvent, WithEvent
      <4> QED
        BY <4>1, <4>2, DoomStays
    <3>4. CASE evOf[t] = latest[v]
      <4>1. pc'[t] = "finish" /\ status'[evOf[t]] # "success"
        BY <1>5, <3>1, <3>2, <3>4
      <4>2. ParseStatus(t)
        BY <1>2, <2>3, <4>1 DEF AwaitSubtasks, SubtasksDone, StageEnds, StopRunning, Goto
      <4>3. spoiled' = spoiled /\ spoiled[evOf[t]]
        <5>1. status[evOf[t]] = "success" => status'[evOf[t]] = "success"
          BY <1>2, <3>2, <4>2 DEF ParseStatus, Terminal
        <5>2. status[evOf[t]] \notin Terminal /\ ~spoiled[evOf[t]] => status'[evOf[t]] = "success"
          BY <1>2, <3>2, <4>2 DEF ParseStatus, Terminal
        <5> QED
          BY <1>1, <1>2, <3>2, <4>1, <4>2, <5>1, <5>2 DEF ParseStatus, RunsHaveEvents, Terminal
      <4> QED
        BY <3>1, <3>2, <3>4, <4>3 DEF Doomed
    <3> QED
      BY <3>3, <3>4
  <2> QED
    BY <1>3, <2>1, <2>2, <2>3 DEF RunStep, StageFails
<1>6. CASE u # t
  <2>1. pc'[u] = pc[u] /\ evOf'[u] = evOf[u] /\ evOf[u] \in Events /\ pc[u] \in WithEvent
        /\ pc[u] # "idle"
    BY <1>1, <1>2, <1>6 DEF RunsHaveEvents, WithEvent
  <2>2. vaultOf[t] = v => interrupted[t]
    BY <1>1, <1>6, <2>1, RunsHaveVaults DEF SoleInv, SoleLiveTask
  <2>3. CASE Bad
    <3>1. Doomed(v)
      BY <1>1, <2>1, <2>3 DEF RunsEndWell
    <3> QED
      BY <2>2, <3>1, DoomStays
  <2>4. CASE ~Bad
    <3> DEFINE e == latest[v]
    <3>1. evOf[u] = e /\ (pc[u] = "finish" => status[e] = "success") /\ e \in Events
      BY <2>1, <2>4
    <3>2. CASE CreateEvent(t)
      <4> DEFINE w == vaultOf[t]
                 new == NewEvent(w)
      <4>2. /\ \E f \in Events : f \notin Held(w)
            /\ latest' = [latest EXCEPT ![w] = new]
            /\ status' = [status EXCEPT ![new] = "pending"]
            /\ w \in rows => pc'[t] = "adopt"
        BY <1>2, <1>3, <3>2 DEF CreateEvent, Goto, Throws
      <4>3. new \in Events /\ \A x \in Tasks : evOf[x] # new
        BY <1>1, <4>2, NewEventIsNobodys
      <4> HIDE DEF new
      <4>4. status'[e] = status[e]
        BY <1>2, <3>1, <4>2, <4>3
      <4>5. v = w
        BY <1>2, <1>4, <2>1, <3>1, <4>2, <4>4
      <4> QED
        BY <1>1, <2>2, <4>2, <4>5 DEF Doomed
    <3>3. CASE ~CreateEvent(t)
      <4>1. latest' = latest
        BY <1>3, <3>3 DEF RunStep, NewSyncEvent, AdoptEvent, AwaitSubtasks, SubtasksDone, StageEnds, StageFails, StopRunning, ParseStatus,
                          FinishRun, eventVars
      <4>2. pc[u] = "finish" /\ status[e] = "success" /\ status'[e] # "success"
        BY <2>1, <3>1, <4>1
      <4>3. CASE AdoptEvent(t)
        <5>1. latest[vaultOf[t]] = e
          BY <1>2, <3>1, <4>2, <4>3 DEF AdoptEvent
        <5>2. vaultOf[t] = v /\ pc[t] = "adopt"
          BY <1>1, <1>2, <1>4, <3>1, <4>3, <5>1 DEF EventsApart, AdoptEvent
        <5>3. Doomed(v)
          BY <2>2, <5>2 DEF Doomed
        <5> QED
          BY <2>2, <5>3, DoomStays
      <4>4. CASE StageEnds(t)
        <5>1. interrupted[t] /\ evOf[t] = e /\ pc[t] \in AtWork
          BY <1>2, <3>1, <4>2, <4>4 DEF AtWork, StageEnds, HandleError
        <5>2. vaultOf[t] = v
          <6>1. evOf[t] # NoEvent /\ evOf[t] = latest[v]
            BY <3>1, <5>1
          <6> QED
            BY <1>1, <1>4, <6>1 DEF EventsApart
        <5>3. Doomed(v)
          BY <5>1, <5>2 DEF Doomed
        <5> QED
          BY <2>2, <5>3, DoomStays
      <4>5. CASE \/ NewSyncEvent(t) \/ AwaitSubtasks(t) \/ SubtasksDone(t) \/ StopRunning(t)
                 \/ ParseStatus(t) \/ FinishRun(t)
        <5>1. CASE UNCHANGED status
          BY <4>2, <5>1
        <5>2. CASE ParseStatus(t)
          <6>1. status' = [status EXCEPT ![evOf[t]] = IF status[evOf[t]] \in Terminal
                                                      THEN status[evOf[t]]
                                                      ELSE IF spoiled[evOf[t]] THEN "error"
                                                                               ELSE "success"]
            BY <5>2 DEF ParseStatus
          <6>2. status'[e] = status[e]
            BY <1>2, <3>1, <4>2, <6>1 DEF Terminal
          <6> QED
            BY <4>2, <6>2
        <5> QED
          BY <4>5, <5>1, <5>2 DEF NewSyncEvent, AwaitSubtasks, SubtasksDone, StopRunning, FinishRun,
                                 eventVars
      <4> QED
        BY <1>3, <3>3, <4>3, <4>4, <4>5 DEF RunStep, StageFails
    <3> QED
      BY <3>2, <3>3
  <2> QED
    BY <2>3, <2>4
<1> QED
  BY <1>5, <1>6

\* Where nothing fails, a step of a run lets a mapped task go only if its vault is doomed.
LEMMA RunKeepsDrops ==
  ASSUME PlaceInv, SoleInv, DropInv, NEW t \in Tasks, RunStep(t), faults' = 0, faults = 0
  PROVE  DropsAreDoomed'
<1>1. /\ RunsHaveEvents /\ RunsEndWell /\ DropsAreDoomed
      /\ UNCHANGED <<vaultOf, taskMap, interrupted, rows>> /\ pc[t] # "idle" /\ Copies(t) > 0
      /\ \A u \in Tasks \ {t} : pc'[u] = pc[u] /\ evOf'[u] = evOf[u]
  BY RunTouches, RunsHaveVaults DEF DropInv
<1>2. /\ pc \in [Tasks -> Labels]
      /\ heap \in [Tasks -> Nat] /\ pool \in [Tasks -> Nat] /\ rows \subseteq Vaults
  BY DEF PlaceInv, TypeOK
<1>3. ~Fault
  BY DEF Fault
<1> SUFFICES ASSUME NEW x \in Tasks, NEW v \in rows, taskMap[v] = x, Copies(x)' = 0,
                    ~interrupted[x]
             PROVE  Doomed(v)'
  BY <1>1 DEF DropsAreDoomed
<1>4. vaultOf[x] = v /\ v \in Vaults
  BY <1>2 DEF PlaceInv, MapKnows
<1>5. CASE x # t
  <2>1. Copies(x) = 0
    <3>1. pool' = pool /\ hand' = hand /\ heap'[x] = heap[x]
      BY <1>2, <1>5 DEF RunStep, NewSyncEvent, CreateEvent, AdoptEvent, AwaitSubtasks, SubtasksDone, StageEnds, StageFails, StopRunning,
                        ParseStatus, FinishRun, RunFrame
    <3> QED
      BY <1>1, <1>5, <3>1 DEF Copies
  <2>2. Doomed(v)
    BY <1>1, <2>1 DEF DropsAreDoomed
  <2>3. vaultOf[t] # v \/ interrupted[t]
    BY <1>1, <1>5 DEF SoleInv, SoleLiveTask
  <2> QED
    BY <2>2, <2>3, DoomStays
<1>6. CASE x = t
  <2>1. heap[t] \in Nat /\ pool[t] \in Nat
    BY <1>2
  <2>2. pc'[t] = "idle"
    <3>1. heap'[t] \in Nat
      BY <2>1, <1>2 DEF RunStep, NewSyncEvent, CreateEvent, AdoptEvent, AwaitSubtasks, SubtasksDone, StageEnds, StageFails, StopRunning,
                        ParseStatus, FinishRun
    <3>2. pool'[t] \in Nat
      BY <2>1 DEF RunStep, NewSyncEvent, CreateEvent, AdoptEvent, AwaitSubtasks, SubtasksDone, StageEnds, StageFails, StopRunning,
                        ParseStatus, FinishRun
    <3> QED
      BY <1>6, <3>1, <3>2 DEF Copies
  <2>3. FinishRun(t)
    <3>1. ~NewSyncEvent(t) /\ ~CreateEvent(t)
      BY <1>2, <1>3, <1>4, <1>6, <2>2 DEF NewSyncEvent, CreateEvent, Goto, Throws
    <3>2. ~AdoptEvent(t)
      BY <1>2, <1>3, <1>4, <1>6, <2>2 DEF AdoptEvent, Throws
    <3>3. /\ ~AwaitSubtasks(t) /\ ~SubtasksDone(t)
          /\ ~StageEnds(t) /\ ~StageFails(t) /\ ~StopRunning(t)
      BY <1>2, <1>3, <2>2 DEF AwaitSubtasks, SubtasksDone, StageEnds, StageFails, StopRunning, Goto
    <3>4. ~ParseStatus(t)
      BY <1>2, <1>3, <1>4, <1>6, <2>2 DEF ParseStatus, Goto, Throws
    <3> QED
      BY <3>1, <3>2, <3>3, <3>4 DEF RunStep
  <2>4. status[evOf[t]] # "success"
    <3>1. SUFFICES ASSUME status[evOf[t]] = "success" PROVE FALSE
      OBVIOUS
    <3>2. heap' = [heap EXCEPT ![t] = @ + 1] /\ pool' = pool
      BY <1>3, <2>3, <3>1 DEF FinishRun
    <3>3. heap'[t] = heap[t] + 1 /\ pool'[t] \in Nat
      BY <1>2, <2>1, <3>2
    <3> QED
      BY <1>6, <2>1, <3>3 DEF Copies
  <2>5. Doomed(v)
    BY <1>1, <1>4, <1>6, <2>3, <2>4 DEF RunsEndWell, FinishRun, WithEvent
  <2>6. ~CreateEvent(t)
    BY <2>3 DEF CreateEvent, FinishRun
  <2> QED
    BY <2>5, <2>6, DoomStays
<1> QED
  BY <1>5, <1>6

\* The invariant holds throughout, as long as the calls of runNow are apart.
LEMMA DropInvariant == Spec /\ []CallsApart => []DropInv
<1>1. PlaceInv /\ TypeOK' /\ SoleInv /\ DropInv /\ [Next]_vars => DropInv'
  <2> SUFFICES ASSUME PlaceInv, TypeOK', SoleInv, DropInv, [Next]_vars PROVE DropInv'
    OBVIOUS
  <2>1. CASE UNCHANGED vars
    <3>1. UNCHANGED <<latest, status, spoiled, evOf, faults, pc, vaultOf, interrupted, rows, taskMap,
                      heap, pool, hand>>
      BY <2>1 DEF vars, adminVars, loopVars, queueVars, taskVars, runVars, eventVars
    <3>2. faults \in Nat /\ faults' \in Nat /\ faults <= faults'
      BY <3>1 DEF PlaceInv, TypeOK
    <3>3. \A u \in Tasks : Copies(u)' = Copies(u)
      BY <3>1 DEF Copies
    <3> QED
      BY <3>1, <3>2, <3>3, QuietKeepsDrop
  <2>2. ASSUME NEW t \in Tasks, RunStep(t) PROVE DropInv'
    <3>1. EventsApart' /\ RunsHaveEvents'
      BY <2>2, RunKeepsEvents
    <3>2. faults' = 0 => faults = 0
      <4>1. faults \in Nat /\ faults <= faults'
        BY <2>2, RunTouches DEF PlaceInv, TypeOK
      <4> QED
        BY <4>1
    <3>3. faults' = 0 => RunsEndWell' /\ DropsAreDoomed'
      BY <2>2, <3>2, RunKeepsEndings, RunKeepsDrops
    <3> QED
      BY <3>1, <3>3 DEF DropInv
  <2>3. CASE Next
    BY <2>2, <2>3, LoopKeepsDrop, RequestsKeepDrop DEF Next
  <2> QED
    BY <2>1, <2>3
<1> QED
  BY <1>1, InitDrop, SoleInvariant, TypeCorrect, PTL DEF Spec

\* Where nothing fails, requeueing drops a mapped task of an existing vault only behind an error:
\* its own, or that of a cancelled run of the vault, on whichever event the two runs share, for
\* any vaults, tasks, events, callers and workers, as long as no two calls of runNow for one
\* vault overlap.
THEOREM DroppedOnlyBehindAnErrorHolds == Spec /\ []CallsApart => []DroppedOnlyBehindAnError
<1>1. PlaceInv /\ DropInv => DroppedOnlyBehindAnError
  <2> SUFFICES ASSUME PlaceInv, DropInv, faults = 0, NEW v \in rows, taskMap[v] # NoTask,
                      Copies(taskMap[v]) = 0, ~interrupted[taskMap[v]]
               PROVE  \/ latest[v] # NoEvent /\ spoiled[latest[v]]
                      \/ \E u \in Tasks : vaultOf[u] = v /\ interrupted[u] /\ pc[u] \in {"adopt", "stages", "subtasks"}
    BY DEF DroppedOnlyBehindAnError
  <2>1. taskMap[v] \in Tasks
    BY DEF PlaceInv, TypeOK
  <2>2. Doomed(v)
    BY <2>1 DEF DropInv, DropsAreDoomed
  <2> QED
    BY <2>2 DEF Doomed, AtWork
<1> QED
  BY <1>1, PlaceInvariant, DropInvariant, PTL

=============================================================================

------------------------- MODULE ServiceManagerProofs -------------------------
(***************************************************************************)
(* What holds of ServiceManager for every number of services, in every     *)
(* order, however often loops end and threads cannot be created.           *)
(***************************************************************************)
EXTENDS ServiceManager, TLAPS

USE ServicesAssumption DEF ServicesAssumption

-----------------------------------------------------------------------------
(* Types.                                                                   *)

\* A thread that goes somewhere is at a place, with services to go through.
LEMMA GotoTypes ==
  ASSUME ServicesOK, ControlOK, NEW t, NEW place \in Places, NEW services \in SUBSET Services, Goto(t, place, services)
  PROVE  at' \in [Threads -> Places] /\ left' \in [Threads -> SUBSET Services]
  BY DEF Goto, Places, ServicesOK, ControlOK


LEMMA InitTypeOK == Init => TypeOK
<1> SUFFICES ASSUME Init PROVE ServicesOK /\ ControlOK
  BY DEF TypeOK
<1>1. ServicesOK
  BY DEF Init, ServicesOK
<1>2. ControlOK
  <2>1. at \in [Threads -> Places] /\ left \in [Threads -> SUBSET Services]
    BY DEF Init, Places
  <2>2. failing \in [Threads -> BOOLEAN] /\ failures \in 0 .. MaxFailures
    BY DEF Init
  <2> QED
    BY <2>1, <2>2 DEF Init, ControlOK
<1> QED
  BY <1>1, <1>2

\* A step of a loop keeps the types.
LEMMA LoopTypeOK ==
  ASSUME ServicesOK, ControlOK, NEW s \in Services, LoopEnds(s) \/ LoopFails(s) \/ WorkerFinishes(s)
  PROVE  TypeOK'
<1>1. ServicesOK'
  <2>1. CASE LoopEnds(s)
    BY <2>1 DEF LoopEnds, ServicesOK, ControlOK
  <2>2. CASE LoopFails(s)
    <3>1. ended' \in [Services -> 0 .. MaxEnds]
      BY <2>2 DEF LoopFails, ServicesOK, ControlOK
    <3> QED
      BY <2>2, <3>1 DEF LoopFails, ServicesOK, ControlOK
  <2>3. CASE WorkerFinishes(s)
    BY <2>3 DEF WorkerFinishes, ServicesOK, ControlOK
  <2> QED
    BY <2>1, <2>2, <2>3
<1>2. ControlOK'
  BY DEF LoopEnds, LoopFails, WorkerFinishes, ControlOK
<1> QED
  BY <1>1, <1>2 DEF TypeOK

\* What a thread does for one service keeps the types.
LEMMA TurnTypeOK ==
  ASSUME ServicesOK, ControlOK, NEW t \in Threads, NEW s \in Services,
         StartService(t, s) \/ StartFails(t, s) \/ StopService(t, s) \/ JoinWorker(t, s)
  PROVE  TypeOK'
<1>0. left[t] \in SUBSET Services /\ failures \in 0 .. MaxFailures /\ DOMAIN at = Threads
  BY DEF ControlOK
<1>1. ServicesOK'
  <2>1. CASE StartService(t, s)
    BY <2>1 DEF StartService, ServicesOK, svcs
  <2>2. CASE StartFails(t, s)
    BY <2>2 DEF StartFails, ServicesOK, ControlOK
  <2>3. CASE StopService(t, s)
    BY <2>3 DEF StopService, ServicesOK, ControlOK
  <2>4. CASE JoinWorker(t, s)
    BY <2>4 DEF JoinWorker, ServicesOK, ControlOK
  <2> QED
    BY <2>1, <2>2, <2>3, <2>4
<1>2. \E place \in {"start", "stop", "halt", "join"}, services \in SUBSET Services : Goto(t, place, services)
  <2>1. CASE StartService(t, s)
    BY <1>0, <2>1 DEF StartService, Started
  <2>2. CASE StartFails(t, s)
    BY <2>2 DEF StartFails
  <2>3. CASE StopService(t, s)
    BY <1>0, <2>3 DEF StopService, Stopped
  <2>4. CASE JoinWorker(t, s)
    BY <1>0, <2>4 DEF JoinWorker, Stopped
  <2> QED
    BY <2>1, <2>2, <2>3, <2>4
<1>3. at' \in [Threads -> Places] /\ left' \in [Threads -> SUBSET Services]
  <2>1. {"start", "stop", "halt", "join"} \subseteq Places
    BY DEF Places
  <2> QED
    BY <1>2, <2>1, GotoTypes
<1>4. watching' => at'["dog"] \notin {"off", "done"}
  <2>1. watching' = watching
    BY DEF StartService, StartFails, StopService, JoinWorker
  <2>2. at'["dog"] = at["dog"] \/ at'["dog"] \in {"start", "stop", "halt", "join"}
    BY <1>0, <1>2 DEF Goto, Threads
  <2> QED
    BY <2>1, <2>2 DEF ControlOK
<1>5. /\ watching' \in BOOLEAN /\ failing' \in [Threads -> BOOLEAN]
      /\ process' \in {"up", "terminated", "failed", "exited"} /\ failures' \in 0 .. MaxFailures
  <2>1. CASE StartFails(t, s)
    BY <1>0, <2>1 DEF StartFails, ServicesOK, ControlOK
  <2>2. CASE StartService(t, s) \/ StopService(t, s) \/ JoinWorker(t, s)
    BY <2>2 DEF StartService, StopService, JoinWorker, ServicesOK, ControlOK
  <2> QED
    BY <2>1, <2>2
<1> QED
  BY <1>1, <1>3, <1>4, <1>5 DEF ControlOK, TypeOK

\* The other steps of the main thread and of the watchdog keep the types.
LEMMA ControlTypeOK ==
  ASSUME ServicesOK, ControlOK,
         \/ StartWatchdog \/ Signal \/ WatchdogJoined \/ Collect \/ Sleep \/ Wake
         \/ \E t \in Threads : Halt(t) \/ Leave(t)
  PROVE  TypeOK'
<1> USE DEF svcs, Threads
<1>0. DOMAIN at = Threads
  BY DEF ControlOK
<1>1. ServicesOK'
  BY DEF StartWatchdog, Signal, WatchdogJoined, Collect, Sleep, Wake, Halt, Leave, ServicesOK, ControlOK
<1>2. CASE StartWatchdog
  <2>1. ControlOK'
    BY <1>2 DEF StartWatchdog, ControlOK, Places, ServicesOK
  <2> QED
    BY <1>1, <2>1 DEF TypeOK
<1>3. CASE Signal \/ WatchdogJoined
  <2>1. PICK place \in {"halt", "stop"}, services \in SUBSET Services : Goto("main", place, services)
    BY <1>3 DEF Signal, WatchdogJoined
  <2>2. at' \in [Threads -> Places] /\ left' \in [Threads -> SUBSET Services]
    <3>1. place \in Places
      BY DEF Places
    <3> QED
      BY <2>1, <3>1, GotoTypes
  <2>3. at'["dog"] = at["dog"]
    BY <1>0, <2>1 DEF Goto
  <2>4. ControlOK'
    BY <1>3, <2>2, <2>3 DEF Signal, WatchdogJoined, ControlOK, ServicesOK
  <2> QED
    BY <1>1, <2>4 DEF TypeOK
<1>4. CASE Collect \/ Sleep \/ Wake
  <2>1. PICK place \in {"stop", "sleep", "collect", "done"}, services \in SUBSET Services :
          Goto("dog", place, services) /\ (watching => place # "done")
    BY <1>4 DEF Collect, Sleep, Wake, NextRound
  <2>2. at' \in [Threads -> Places] /\ left' \in [Threads -> SUBSET Services]
    <3>1. place \in Places
      BY DEF Places
    <3> QED
      BY <2>1, <3>1, GotoTypes
  <2>3. at'["dog"] = place
    BY <1>0, <2>1 DEF Goto
  <2>4. ControlOK'
    BY <1>4, <2>1, <2>2, <2>3 DEF Collect, Sleep, Wake, ControlOK, ServicesOK
  <2> QED
    BY <1>1, <2>4 DEF TypeOK
<1>5. ASSUME NEW t \in Threads, Halt(t) PROVE TypeOK'
  <2>1. at' \in [Threads -> Places] /\ left' \in [Threads -> SUBSET Services]
    <3>1. CASE UNCHANGED <<at, left>>
      BY <3>1 DEF Places, ServicesOK, ControlOK
    <3>2. ASSUME NEW place \in {"stop", "await"}, NEW services \in SUBSET Services, Goto(t, place, services)
          PROVE  at' \in [Threads -> Places] /\ left' \in [Threads -> SUBSET Services]
      <4>1. place \in Places
        BY DEF Places
      <4> QED
        BY <3>2, <4>1, GotoTypes
    <3> QED
      BY <1>5, <3>1, <3>2 DEF Halt, JoinWatchdog
  <2>2. watching' = FALSE /\ process' \in {"up", "terminated", "failed", "exited"} /\ UNCHANGED <<failing, failures>>
    BY <1>5 DEF Halt, JoinWatchdog, ServicesOK, ControlOK
  <2>3. ControlOK'
    BY <2>1, <2>2 DEF ControlOK, ServicesOK
  <2> QED
    BY <1>1, <2>3 DEF TypeOK
<1>6. ASSUME NEW t \in Threads, Leave(t) PROVE TypeOK'
  <2>1. ControlOK'
    BY <1>6 DEF Leave, ControlOK, ServicesOK
  <2> QED
    BY <1>1, <2>1 DEF TypeOK
<1> QED
  BY <1>2, <1>3, <1>4, <1>5, <1>6

\* Every variable keeps its type, whatever the number of services.
THEOREM TypeCorrect == Spec => []TypeOK
<1>1. TypeOK /\ [Next]_vars => TypeOK'
  <2> SUFFICES ASSUME TypeOK, [Next]_vars PROVE TypeOK'
    OBVIOUS
  <2>1. CASE UNCHANGED vars
    BY <2>1 DEF vars, TypeOK, ServicesOK, ControlOK
  <2>2. CASE Gone
    BY <2>1, <2>2 DEF Gone
  <2> QED
    BY <2>1, <2>2, LoopTypeOK, TurnTypeOK, ControlTypeOK DEF TypeOK, Next, ThreadStep, WatchdogStep
<1> QED
  BY <1>1, InitTypeOK, PTL DEF Spec

-----------------------------------------------------------------------------
(* Starting and stopping while the process is up.                           *)

\* A thread that stops the services for good: the main thread, or the watchdog in hardFail.
Closing(t) == at[t] \in {"stop", "join"} /\ (t = "main" \/ failing[t])

\* Where the two threads can be together.
Control ==
    /\ at["main"] \in {"start", "serve", "halt", "await", "stop", "join"}
    /\ at["dog"] \in {"off", "collect", "stop", "join", "start", "sleep", "halt", "done"}
    /\ at["main"] = "start" => at["dog"] = "off"
    /\ at["main"] = "serve" => watching
    /\ at["main"] = "halt" => watching \/ at["dog"] = "off"
    /\ at["main"] = "await" => ~watching
    /\ at["main"] \in {"stop", "join"} => at["dog"] \in {"off", "done"}
    /\ at["dog"] = "halt" => failing["dog"]
    /\ failing["dog"] => at["dog"] \in {"halt", "stop", "join"}
    /\ Closing("dog") => at["main"] = "await"

\* What has been stopped for good stays stopped.
StoppedStay ==
    \A t \in Threads : Closing(t) =>
        \A s \in Services \ left[t] : worker[s] \notin {"loop", "leaving"}

\* What the main thread has not started has no thread.
NotStartedYet == at["main"] = "start" => \A s \in left["main"] : worker[s] = "none" /\ ~running[s]

\* What the watchdog has still to restart is down.
DownStay ==
    at["dog"] \in {"stop", "join", "start"} /\ ~failing["dog"] => \A s \in left["dog"] : ~running[s]

First(t, s) == s \in left[t] /\ \A u \in left[t] : Order[s] <= Order[u]

\* The service the watchdog is about to start has been joined, or is FUSE.
JoinedFirst ==
    at["dog"] = "start" =>
        \A s \in left["dog"] : First("dog", s) => worker[s] = "none" \/ (s = FUSE /\ ended[FUSE] > 0)

\* FUSE is interrupted for good only; otherwise its loop has ended by itself.
FuseEnded ==
    /\ interrupt[FUSE] => Closing("main") \/ Closing("dog")
    /\ worker[FUSE] \in {"leaving", "finished"} => ended[FUSE] > 0 \/ Closing("main") \/ Closing("dog")

UpInv == Control /\ StoppedStay /\ NotStartedYet /\ DownStay /\ JoinedFirst /\ FuseEnded

\* Where a thread goes, the other stays.
LEMMA GotoEffect ==
  ASSUME ControlOK, NEW t \in Threads, NEW place, NEW services, Goto(t, place, services)
  PROVE  /\ at'[t] = place /\ left'[t] = services
         /\ \A u \in Threads \ {t} : at'[u] = at[u] /\ left'[u] = left[u]
  BY DEF ControlOK, Goto

\* A step of a loop keeps the invariant.
LEMMA LoopUpInv ==
  ASSUME ServicesOK, ControlOK, UpInv, NEW s \in Services,
         LoopEnds(s) \/ LoopFails(s) \/ WorkerFinishes(s)
  PROVE  UpInv'
<1>0. UNCHANGED <<interrupt, at, left, failing, watching>>
  BY DEF LoopEnds, LoopFails, WorkerFinishes
<1>1. /\ worker[s] \in {"loop", "leaving"} /\ \E w \in {"leaving", "finished"} : worker' = [worker EXCEPT ![s] = w]
      /\ running' = running \/ running' = [running EXCEPT ![s] = FALSE]
      /\ worker[s] = "loop" => interrupt[s] \/ ended' = [ended EXCEPT ![s] = @ + 1]
      /\ ended' = ended \/ ended' = [ended EXCEPT ![s] = @ + 1]
  BY DEF LoopEnds, LoopFails, WorkerFinishes
<1>2. running[s]
  BY <1>1 DEF ServicesOK
<1>3. \A u \in Services : /\ u # s => worker'[u] = worker[u] /\ ended'[u] = ended[u]
                          /\ ~running[u] => ~running'[u]
                          /\ ended'[u] >= ended[u] /\ ended[u] >= 0
  BY <1>1 DEF ServicesOK
<1>4. worker[s] = "loop" => interrupt[s] \/ ended'[s] > 0
  BY <1>1 DEF ServicesOK
<1>5. Control'
  BY <1>0 DEF UpInv, Control, Closing
<1>6. StoppedStay'
  BY <1>0, <1>1, <1>3 DEF UpInv, StoppedStay, Closing
<1>7. NotStartedYet' /\ DownStay'
  BY <1>0, <1>1, <1>2, <1>3 DEF UpInv, NotStartedYet, DownStay, ControlOK, Threads
<1>8. JoinedFirst'
  <2>1. ASSUME at["dog"] = "start", NEW u \in left["dog"], First("dog", u)
        PROVE  worker'[u] = "none" \/ (u = FUSE /\ ended'[FUSE] > 0)
    <3>1. u \in Services
      BY DEF ControlOK, Threads
    <3>2. (u = FUSE /\ ended[FUSE] > 0) \/ worker[u] = "none"
      BY <2>1 DEF UpInv, JoinedFirst
    <3>3. ended'[FUSE] >= ended[FUSE] /\ ended'[FUSE] \in Nat /\ ended[FUSE] \in Nat
      BY <1>1, <1>3 DEF ServicesOK
    <3> QED
      BY <1>1, <1>3, <3>1, <3>2, <3>3
  <2> QED
    BY <1>0, <2>1 DEF JoinedFirst, First
<1>9. FuseEnded'
  <2>1. Closing("main")' = Closing("main") /\ Closing("dog")' = Closing("dog")
    BY <1>0 DEF Closing
  <2>2. ended'[FUSE] >= ended[FUSE] /\ ended'[FUSE] \in Nat /\ ended[FUSE] \in Nat
    BY <1>1, <1>3 DEF ServicesOK
  <2>3. s = FUSE /\ worker[FUSE] = "loop" => interrupt[FUSE] \/ ended'[FUSE] > 0
    BY <1>4
  <2>4. worker'[FUSE] = worker[FUSE] \/ s = FUSE
    BY <1>3
  <2> QED
    BY <1>0, <1>1, <2>1, <2>2, <2>3, <2>4 DEF UpInv, FuseEnded
<1> QED
  BY <1>5, <1>6, <1>7, <1>8, <1>9 DEF UpInv

\* Starting a service keeps the invariant; the process is terminated over FUSE only.
LEMMA StartUpInv ==
  ASSUME ServicesOK, ControlOK, UpInv, NEW t \in Threads, NEW s \in Services, StartService(t, s)
  PROVE  /\ process' = "up" => UpInv'
         /\ process' = "terminated" => ended'[FUSE] > 0
<1> USE DEF Threads
<1>0. /\ UNCHANGED <<watching, failing, ended, failures>> /\ process = "up"
      /\ at[t] = "start" /\ First(t, s)
  BY DEF StartService, Serves, First
<1>a. s \in left[t] /\ left["main"] \subseteq Services /\ left["dog"] \subseteq Services
  BY <1>0 DEF ControlOK, First
<1>b. /\ at'[t] = IF t = "main" THEN "start" ELSE "stop"
      /\ left'[t] = left[t] \ {s}
      /\ \A u \in Threads \ {t} : at'[u] = at[u] /\ left'[u] = left[u]
  BY GotoEffect DEF StartService, Started
<1>c. ~running[s]
  BY <1>0, <1>a DEF UpInv, NotStartedYet, DownStay, Control
<1>d. ~Closing("main") /\ ~Closing("dog") /\ ~failing["dog"]
  BY <1>0 DEF UpInv, Control, Closing
<1>e. ~Closing("main")' /\ ~Closing("dog")'
  BY <1>0, <1>b, <1>d DEF Closing, UpInv, Control
<1>1. CASE process' = "terminated"
  <2>1. worker[s] # "none" /\ t = "dog"
    BY <1>0, <1>1, <1>a DEF StartService, Joinable, UpInv, NotStartedYet
  <2> QED
    BY <1>0, <1>1, <1>a, <2>1 DEF UpInv, JoinedFirst
<1>2. CASE process' = "up"
  <2>1. /\ running' = [running EXCEPT ![s] = TRUE] /\ interrupt' = [interrupt EXCEPT ![s] = FALSE]
        /\ worker' = [worker EXCEPT ![s] = "loop"]
    BY <1>0, <1>2, <1>c DEF StartService
  <2>2. \A u \in Services : /\ u # s => worker'[u] = worker[u] /\ running'[u] = running[u]
                            /\ interrupt'[u] => interrupt[u]
                            /\ worker'[u] \in {"leaving", "finished"} => worker'[u] = worker[u]
    BY <2>1 DEF ServicesOK
  <2>3. Control'
    <3>1. CASE t = "main"
      BY <1>0, <1>b, <1>e, <3>1 DEF UpInv, Control
    <3>2. CASE t = "dog"
      BY <1>0, <1>b, <1>d, <1>e, <3>2 DEF UpInv, Control
    <3> QED
      BY <3>1, <3>2
  <2>4. StoppedStay'
    BY <1>e DEF StoppedStay
  <2>5. NotStartedYet'
    BY <1>0, <1>a, <1>b, <2>2 DEF UpInv, NotStartedYet, Control
  <2>6. DownStay'
    BY <1>0, <1>a, <1>b, <2>2 DEF UpInv, DownStay, Control
  <2>7. JoinedFirst'
    BY <1>0, <1>b DEF JoinedFirst, UpInv, Control
  <2>8. FuseEnded'
    BY <1>0, <1>d, <1>e, <2>2 DEF UpInv, FuseEnded
  <2>9. UpInv'
    BY <2>3, <2>4, <2>5, <2>6, <2>7, <2>8 DEF UpInv
  <2> QED
    BY <1>2, <2>9
<1>3. process' \in {"up", "terminated"}
  BY <1>0 DEF StartService
<1> QED
  BY <1>1, <1>2, <1>3

\* A thread that cannot be created sends its caller to hardFail.
LEMMA FailUpInv ==
  ASSUME ServicesOK, ControlOK, UpInv, NEW t \in Threads, NEW s \in Services, StartFails(t, s)
  PROVE  UpInv'
<1> USE DEF Threads
<1>0. /\ UNCHANGED <<worker, watching, process, ended>>
      /\ at[t] = "start" /\ failing' = [failing EXCEPT ![t] = TRUE]
      /\ interrupt' = [interrupt EXCEPT ![s] = FALSE]
  BY DEF StartFails, Serves
<1>b. at'[t] = "halt" /\ \A u \in Threads \ {t} : at'[u] = at[u] /\ left'[u] = left[u]
  BY GotoEffect DEF StartFails
<1>c. failing'[t] /\ \A u \in Threads \ {t} : failing'[u] = failing[u]
  BY <1>0 DEF ControlOK
<1>d. ~Closing("main") /\ ~Closing("dog")
  BY <1>0 DEF UpInv, Control, Closing
<1>e. ~Closing("main")' /\ ~Closing("dog")'
  BY <1>b, <1>c, <1>d DEF Closing
<1>1. Control'
  <2>1. CASE t = "main"
    BY <1>0, <1>b, <1>c, <1>e, <2>1 DEF UpInv, Control
  <2>2. CASE t = "dog"
    BY <1>0, <1>b, <1>c, <1>e, <2>2 DEF UpInv, Control
  <2> QED
    BY <2>1, <2>2
<1>2. StoppedStay'
  BY <1>e DEF StoppedStay
<1>3. NotStartedYet' /\ DownStay' /\ JoinedFirst'
  BY <1>0, <1>b, <1>c DEF UpInv, Control, NotStartedYet, DownStay, JoinedFirst
<1>4. FuseEnded'
  <2>1. interrupt'[FUSE] => interrupt[FUSE]
    BY <1>0 DEF ServicesOK
  <2> QED
    BY <1>0, <1>d, <1>e, <2>1 DEF UpInv, FuseEnded
<1> QED
  BY <1>1, <1>2, <1>3, <1>4 DEF UpInv

\* Where a thread is once it has stopped a service, and what of the invariant follows for
\* every service: the service has no loop, and that of the watchdog is joined or FUSE.
LEMMA StoppedUpInv ==
  ASSUME ServicesOK, ControlOK, UpInv, NEW t \in Threads, NEW s \in Services,
         at[t] \in {"stop", "join"}, First(t, s), Stopped(t, s),
         UNCHANGED <<interrupt, watching, failing, ended>>,
         worker' = worker \/ worker' = [worker EXCEPT ![s] = "none"],
         running' = running \/ running' = [running EXCEPT ![s] = FALSE],
         worker'[s] = "none" \/ (s = FUSE /\ worker[s] = "finished" /\ worker' = worker)
  PROVE  UpInv'
<1> USE DEF Threads
<1>a. s \in left[t] /\ left["main"] \subseteq Services /\ left["dog"] \subseteq Services
  BY DEF ControlOK, First
<1>b. /\ \A u \in Threads \ {t} : at'[u] = at[u] /\ left'[u] = left[u]
      /\ t = "dog" /\ ~failing[t] => at'[t] = "start" /\ left'[t] = left[t]
      /\ t = "main" \/ failing[t] => at'[t] = "stop" /\ left'[t] = left[t] \ {s}
  BY GotoEffect DEF Stopped
<1>c. \A u \in Services : /\ u # s => worker'[u] = worker[u]
                          /\ ~running[u] => ~running'[u]
                          /\ worker'[u] = "none" \/ worker'[u] = worker[u]
  BY DEF ServicesOK
<1>d. Closing("main")' = Closing("main") /\ Closing("dog")' = Closing("dog")
  BY <1>b DEF Closing
<1>1. Control'
  <2>1. CASE t = "main"
    BY <1>b, <1>d, <2>1 DEF UpInv, Control
  <2>2. CASE t = "dog" /\ failing[t]
    BY <1>b, <1>d, <2>2 DEF UpInv, Control
  <2>3. CASE t = "dog" /\ ~failing[t]
    BY <1>b, <1>d, <2>3 DEF UpInv, Control
  <2> QED
    BY <2>1, <2>2, <2>3
<1>2. StoppedStay'
  <2> SUFFICES ASSUME NEW u \in Threads, Closing(u)', NEW w \in Services \ left'[u]
               PROVE  worker'[w] \notin {"loop", "leaving"}
    BY DEF StoppedStay
  <2>1. Closing(u)
    BY <1>d
  <2>2. w = s \/ w \notin left[u]
    BY <1>b
  <2>3. worker'[s] \notin {"loop", "leaving"}
    OBVIOUS
  <2> QED
    BY <1>c, <2>1, <2>2, <2>3 DEF UpInv, StoppedStay
<1>3. NotStartedYet'
  BY <1>b, <1>c DEF UpInv, NotStartedYet, Control
<1>4. DownStay'
  BY <1>a, <1>b, <1>c DEF UpInv, DownStay, Control
<1>5. JoinedFirst'
  <2> SUFFICES ASSUME at'["dog"] = "start", NEW u \in left'["dog"], First("dog", u)'
               PROVE  worker'[u] = "none" \/ (u = FUSE /\ ended'[FUSE] > 0)
    BY DEF JoinedFirst
  <2>1. CASE t = "dog"
    <3>1. ~failing["dog"] /\ left'["dog"] = left["dog"]
      BY <1>b, <2>1
    <3>2. u = s
      <4>1. u \in left["dog"] /\ s \in left["dog"]
        BY <1>a, <2>1, <3>1
      <4>2. Order[u] <= Order[s] /\ Order[s] <= Order[u]
        BY <2>1, <3>1, <4>1 DEF First
      <4>3. Order[u] \in Nat /\ Order[s] \in Nat /\ u \in Services
        BY <1>a, <4>1
      <4>4. Order[u] = Order[s]
        BY <4>2, <4>3
      <4> QED
        BY <4>3, <4>4
    <3>3. ~Closing("dog") /\ ~Closing("main")
      BY <2>1, <3>1 DEF UpInv, Control, Closing
    <3> QED
      BY <3>2, <3>3 DEF UpInv, FuseEnded
  <2>2. CASE t = "main"
    BY <1>b, <2>2 DEF UpInv, Control
  <2> QED
    BY <2>1, <2>2
<1>6. FuseEnded'
  BY <1>c, <1>d DEF UpInv, FuseEnded
<1> QED
  BY <1>1, <1>2, <1>3, <1>4, <1>5, <1>6 DEF UpInv

\* Stopping a service keeps the invariant.
LEMMA StopUpInv ==
  ASSUME ServicesOK, ControlOK, UpInv, NEW t \in Threads, NEW s \in Services,
         StopService(t, s) \/ JoinWorker(t, s)
  PROVE  UpInv'
<1> USE DEF Threads
<1>1. CASE JoinWorker(t, s)
  <2>1. worker'[s] = "none"
    BY <1>1 DEF JoinWorker, ServicesOK
  <2> QED
    BY <1>1, <2>1, StoppedUpInv DEF JoinWorker, Serves, First
<1>2. CASE StopService(t, s) /\ Quiet(s)
  <2>1. worker[s] = "none" \/ (s = FUSE /\ worker[s] = "finished")
    BY <1>2 DEF Quiet, Joinable, ServicesOK
  <2> QED
    BY <1>2, <2>1, StoppedUpInv DEF StopService, Serves, First
<1>3. CASE StopService(t, s) /\ ~Quiet(s)
  <2>0. /\ UNCHANGED <<running, worker, watching, failing, process, ended, failures>>
        /\ at[t] = "stop" /\ s \in left[t]
        /\ interrupt' = [interrupt EXCEPT ![s] = TRUE]
    BY <1>3 DEF StopService, Serves
  <2>b. /\ at'[t] = "join" /\ left'[t] = left[t]
        /\ \A u \in Threads \ {t} : at'[u] = at[u] /\ left'[u] = left[u]
    BY <1>3, GotoEffect DEF StopService
  <2>d. Closing("main")' = Closing("main") /\ Closing("dog")' = Closing("dog")
    BY <2>0, <2>b DEF Closing
  <2>1. Control'
    <3>1. CASE t = "main"
      BY <2>0, <2>b, <2>d, <3>1 DEF UpInv, Control
    <3>2. CASE t = "dog"
      BY <2>0, <2>b, <2>d, <3>2 DEF UpInv, Control
    <3> QED
      BY <3>1, <3>2
  <2>2. left'["main"] = left["main"] /\ left'["dog"] = left["dog"]
    BY <2>b
  <2>3. StoppedStay'
    BY <2>0, <2>2, <2>d DEF UpInv, StoppedStay
  <2>4. NotStartedYet' /\ DownStay' /\ JoinedFirst'
    BY <2>0, <2>2, <2>b DEF UpInv, NotStartedYet, DownStay, JoinedFirst, First
  <2>5. FuseEnded'
    <3>1. CASE s = FUSE
      <4>1. running[FUSE]
        BY <1>3, <3>1 DEF Quiet
      <4>2. t = "main" \/ failing["dog"]
        BY <2>0, <3>1, <4>1 DEF UpInv, DownStay
      <4>3. Closing("main") \/ Closing("dog")
        BY <2>0, <4>2 DEF Closing
      <4> QED
        BY <2>0, <2>d, <4>3 DEF FuseEnded
    <3>2. CASE s # FUSE
      BY <2>0, <2>d, <3>2 DEF UpInv, FuseEnded, ServicesOK
    <3> QED
      BY <3>1, <3>2
  <2> QED
    BY <2>1, <2>3, <2>4, <2>5 DEF UpInv
<1> QED
  BY <1>1, <1>2, <1>3

\* The steps of the main thread and of the watchdog around these keep the invariant.
LEMMA ControlUpInv ==
  ASSUME ServicesOK, ControlOK, UpInv,
         \/ StartWatchdog \/ Signal \/ WatchdogJoined \/ Collect \/ Sleep \/ Wake
  PROVE  UpInv'
<1> USE DEF Threads
<1>0. UNCHANGED <<svcs, failing, ended>>
  BY DEF StartWatchdog, Signal, WatchdogJoined, Collect, Sleep, Wake
<1>1. ASSUME ~Closing("dog"), ~Closing("dog")', ~Closing("main"),
             at'["main"] \in {"start", "stop"} =>
               left'["main"] = IF at'["main"] = "start" THEN left["main"] ELSE Services,
             at'["main"] = "start" => at["main"] = "start",
             at'["dog"] \in {"stop", "join", "start"} => \A s \in left'["dog"] : ~running[s],
             at'["dog"] # "start", at'["main"] # "join"
      PROVE  StoppedStay' /\ NotStartedYet' /\ DownStay' /\ JoinedFirst' /\ FuseEnded'
  <2>1. StoppedStay'
    BY <1>0, <1>1 DEF StoppedStay, Closing
  <2>2. NotStartedYet' /\ DownStay' /\ JoinedFirst'
    BY <1>0, <1>1 DEF UpInv, NotStartedYet, DownStay, JoinedFirst, svcs
  <2>3. FuseEnded'
    BY <1>0, <1>1 DEF UpInv, FuseEnded, svcs
  <2> QED
    BY <2>1, <2>2, <2>3
<1>2. CASE StartWatchdog
  <2>1. /\ at["main"] = "start" /\ at'["main"] = "serve" /\ at'["dog"] = "collect"
        /\ left' = left /\ watching' = TRUE
    BY <1>2 DEF StartWatchdog, ControlOK
  <2>2. ~Closing("dog") /\ ~Closing("dog")' /\ ~Closing("main") /\ ~failing["dog"]
    BY <1>0, <2>1 DEF Closing, UpInv, Control
  <2>3. Control'
    BY <1>0, <2>1, <2>2 DEF UpInv, Control
  <2> QED
    BY <1>1, <2>1, <2>2, <2>3 DEF UpInv
<1>3. CASE Signal
  <2>1. /\ at["main"] = "serve" /\ at'["main"] = "halt" /\ at'["dog"] = at["dog"]
        /\ left'["dog"] = left["dog"] /\ watching' = watching
    BY <1>3, GotoEffect DEF Signal
  <2>2. ~Closing("dog") /\ ~Closing("dog")' /\ ~Closing("main") /\ ~Closing("main")'
    BY <1>0, <2>1 DEF Closing, UpInv, Control
  <2>3. Control'
    BY <1>0, <2>1, <2>2 DEF UpInv, Control
  <2>4. StoppedStay' /\ NotStartedYet'
    BY <2>1, <2>2 DEF StoppedStay, NotStartedYet
  <2>5. DownStay' /\ JoinedFirst'
    BY <1>0, <2>1 DEF UpInv, DownStay, JoinedFirst, First, svcs
  <2>6. FuseEnded'
    BY <1>0, <2>2 DEF UpInv, FuseEnded, svcs
  <2> QED
    BY <2>3, <2>4, <2>5, <2>6 DEF UpInv
<1>4. CASE WatchdogJoined
  <2>1. /\ at["main"] = "await" /\ at["dog"] = "done" /\ at'["main"] = "stop" /\ at'["dog"] = "done"
        /\ left'["main"] = Services /\ watching' = watching
    BY <1>4, GotoEffect DEF WatchdogJoined
  <2>2. ~Closing("dog") /\ ~Closing("dog")' /\ ~Closing("main")
    BY <1>0, <2>1 DEF Closing
  <2>3. Control'
    BY <1>0, <2>1, <2>2 DEF UpInv, Control
  <2> QED
    BY <1>1, <2>1, <2>2, <2>3 DEF UpInv
<1>5. CASE Collect \/ Sleep \/ Wake
  <2>1. PICK place \in {"stop", "sleep", "collect", "done"} :
          /\ at["dog"] \in {"collect", "stop", "sleep"} /\ ~failing["dog"]
          /\ \E services : Goto("dog", place, services) /\ \A s \in services : ~running[s]
          /\ watching' = watching
    BY <1>5 DEF Collect, Sleep, Wake, NextRound, Down, UpInv, Control
  <2>2. /\ at'["dog"] = place /\ at'["main"] = at["main"] /\ left'["main"] = left["main"]
        /\ \A s \in left'["dog"] : ~running[s]
    BY <2>1, GotoEffect
  <2>3. at["main"] \notin {"start", "stop", "join"}
    BY <2>1 DEF UpInv, Control
  <2>4. ~Closing("dog") /\ ~Closing("dog")' /\ ~Closing("main")
    BY <1>0, <2>1, <2>3 DEF Closing
  <2>5. at["main"] = "halt" => watching
    BY <2>1 DEF UpInv, Control
  <2>6. Control'
    BY <1>0, <2>1, <2>2, <2>3, <2>4, <2>5 DEF UpInv, Control
  <2> QED
    BY <1>1, <2>2, <2>3, <2>4, <2>6 DEF UpInv
<1> QED
  BY <1>2, <1>3, <1>4, <1>5

\* Telling the watchdog to stop keeps the invariant, and only a failing watchdog joins itself.
LEMMA HaltUpInv ==
  ASSUME ServicesOK, ControlOK, UpInv, NEW t \in Threads, Halt(t)
  PROVE  /\ process' = "up" => UpInv'
         /\ process' = "terminated" => failing'["dog"]
<1> USE DEF Threads
<1>0. /\ UNCHANGED <<svcs, failing, ended, failures>> /\ process = "up"
      /\ at[t] = "halt" /\ watching' = FALSE
  BY DEF Halt
<1>1. CASE watching /\ t = "dog"
  <2>1. process' = "terminated" /\ failing["dog"]
    BY <1>0, <1>1 DEF Halt, JoinWatchdog, UpInv, Control
  <2> QED
    BY <1>0, <2>1
<1>2. CASE ~(watching /\ t = "dog")
  <2>1. PICK place \in {"await", "stop"} :
          /\ \E services : Goto(t, place, services) /\ (place = "stop" => services = Services)
          /\ (place = "await" <=> watching)
          /\ process' = "up"
    BY <1>0, <1>2 DEF Halt, JoinWatchdog
  <2>b. /\ at'[t] = place
        /\ place = "stop" => left'[t] = Services
        /\ \A u \in Threads \ {t} : at'[u] = at[u] /\ left'[u] = left[u]
    BY <2>1, GotoEffect
  <2>2. ~Closing("dog") /\ ~Closing("main")
    BY <1>0 DEF Closing, UpInv, Control
  <2>3. Control'
    <3>1. CASE t = "main"
      BY <1>0, <2>1, <2>2, <2>b, <3>1 DEF UpInv, Control, Closing
    <3>2. CASE t = "dog"
      BY <1>0, <1>2, <2>1, <2>b, <3>2 DEF UpInv, Control, Closing
    <3> QED
      BY <3>1, <3>2
  <2>4. StoppedStay'
    <3> SUFFICES ASSUME NEW u \in Threads, Closing(u)' PROVE left'[u] = Services
      BY DEF StoppedStay
    <3>1. u = t
      BY <1>0, <2>2, <2>b DEF Closing
    <3>2. place = "stop"
      BY <2>b, <3>1 DEF Closing
    <3> QED
      BY <2>b, <3>1, <3>2
  <2>5. NotStartedYet'
    BY <1>0, <2>b DEF UpInv, NotStartedYet, svcs
  <2>6. DownStay' /\ JoinedFirst'
    BY <1>0, <2>b DEF UpInv, DownStay, JoinedFirst, First, svcs, Control
  <2>7. FuseEnded'
    BY <1>0, <2>2 DEF UpInv, FuseEnded, svcs
  <2>8. UpInv'
    BY <2>3, <2>4, <2>5, <2>6, <2>7 DEF UpInv
  <2> QED
    BY <2>1, <2>8
<1> QED
  BY <1>1, <1>2

-----------------------------------------------------------------------------
(* How the process ends.                                                    *)

\* While the process is up its threads are where they can be, and it ends as it may.
EndInv == (process = "up" => UpInv) /\ NoneOutlivesTheStop /\ TerminatedByWatchdog

LEMMA InitEndInv == Init => EndInv
<1> SUFFICES ASSUME Init PROVE EndInv
  OBVIOUS
<1>1. at["main"] = "start" /\ at["dog"] = "off" /\ ~failing["dog"] /\ process = "up" /\ left["main"] = Services
  BY DEF Init, Threads
<1>2. ~Closing("main") /\ ~Closing("dog")
  BY <1>1 DEF Closing
<1>3. Control /\ DownStay /\ JoinedFirst
  BY <1>1, <1>2 DEF Control, DownStay, JoinedFirst
<1>4. StoppedStay /\ FuseEnded
  BY <1>2 DEF Init, StoppedStay, FuseEnded, Threads
<1>5. NotStartedYet
  BY <1>1 DEF Init, NotStartedYet
<1> QED
  BY <1>1, <1>3, <1>4, <1>5 DEF EndInv, UpInv, NoneOutlivesTheStop, TerminatedByWatchdog

\* A thread leaves the process when it has stopped everything.
LEMMA LeaveEnds ==
  ASSUME UpInv, NEW t \in Threads, Leave(t)
  PROVE  process' \in {"failed", "exited"} /\ \A s \in Services : worker'[s] \notin {"loop", "leaving"}
<1>1. Closing(t) /\ left[t] = {}
  BY DEF Leave, Closing
<1> QED
  BY <1>1 DEF Leave, UpInv, StoppedStay, svcs

\* Every step keeps the invariant.
LEMMA KeepsEndInv ==
  ASSUME TypeOK, EndInv, [Next]_vars
  PROVE  EndInv'
<1>0. ServicesOK /\ ControlOK
  BY DEF TypeOK
<1>a. ASSUME process = "up", process' = "up", UpInv' PROVE EndInv'
  BY <1>a DEF EndInv, NoneOutlivesTheStop, TerminatedByWatchdog
<1>b. process = "up" => UpInv
  BY DEF EndInv
<1>1. CASE UNCHANGED vars \/ Gone
  <2>1. UNCHANGED vars
    BY <1>1 DEF Gone
  <2> QED
    BY <2>1 DEF EndInv, NoneOutlivesTheStop, TerminatedByWatchdog, UpInv, Control, Closing, StoppedStay,
                NotStartedYet, DownStay, JoinedFirst, First, FuseEnded, vars
<1>2. ASSUME NEW s \in Services, LoopEnds(s) \/ LoopFails(s) \/ WorkerFinishes(s) PROVE EndInv'
  <2>1. process = "up" /\ process' = "up"
    BY <1>2 DEF LoopEnds, LoopFails, WorkerFinishes
  <2> QED
    BY <1>0, <1>2, <1>a, <1>b, <2>1, LoopUpInv
<1>3. ASSUME NEW t \in Threads, NEW s \in Services, StartService(t, s) PROVE EndInv'
  <2>1. process = "up" /\ process' \in {"up", "terminated"}
    BY <1>3 DEF StartService, Serves
  <2>2. process' = "up" => UpInv'
    BY <1>0, <1>3, <1>b, <2>1, StartUpInv
  <2>3. process' = "terminated" => ended'[FUSE] > 0
    BY <1>0, <1>3, <1>b, <2>1, StartUpInv
  <2> QED
    BY <2>1, <2>2, <2>3 DEF EndInv, NoneOutlivesTheStop, TerminatedByWatchdog
<1>4. ASSUME NEW t \in Threads, NEW s \in Services,
             StartFails(t, s) \/ StopService(t, s) \/ JoinWorker(t, s)
      PROVE  EndInv'
  <2>1. process = "up" /\ process' = "up"
    BY <1>4 DEF StartFails, StopService, JoinWorker, Serves
  <2> QED
    BY <1>0, <1>4, <1>a, <1>b, <2>1, FailUpInv, StopUpInv
<1>5. CASE StartWatchdog \/ Signal \/ WatchdogJoined \/ Collect \/ Sleep \/ Wake
  <2>1. process = "up" /\ process' = "up"
    BY <1>5 DEF StartWatchdog, Signal, WatchdogJoined, Collect, Sleep, Wake
  <2> QED
    BY <1>0, <1>5, <1>a, <1>b, <2>1, ControlUpInv
<1>6. ASSUME NEW t \in Threads, Halt(t) PROVE EndInv'
  <2>1. process = "up" /\ process' \in {"up", "terminated"}
    BY <1>6 DEF Halt, JoinWatchdog
  <2>2. process' = "up" => UpInv'
    BY <1>0, <1>6, <1>b, <2>1, HaltUpInv
  <2>3. process' = "terminated" => failing'["dog"]
    BY <1>0, <1>6, <1>b, <2>1, HaltUpInv
  <2> QED
    BY <2>1, <2>2, <2>3 DEF EndInv, NoneOutlivesTheStop, TerminatedByWatchdog
<1>7. ASSUME NEW t \in Threads, Leave(t) PROVE EndInv'
  <2>1. process = "up"
    BY <1>7 DEF Leave
  <2>2. process' \in {"failed", "exited"} /\ \A s \in Services : worker'[s] \notin {"loop", "leaving"}
    BY <1>7, <1>b, <2>1, LeaveEnds
  <2> QED
    BY <2>2 DEF EndInv, NoneOutlivesTheStop, TerminatedByWatchdog
<1> QED
  BY <1>1, <1>2, <1>3, <1>4, <1>5, <1>6, <1>7 DEF Next, ThreadStep, WatchdogStep

LEMMA EndInvAlways == Spec => []EndInv
<1>1. TypeOK /\ EndInv /\ [Next]_vars => EndInv'
  BY KeepsEndInv
<1> QED
  BY <1>1, InitEndInv, TypeCorrect, PTL DEF Spec

\* When the process ends in an orderly way no loop is left, for every number of services in
\* every order: the watchdog brings nothing back that has been stopped (stopAll, hardFail).
THEOREM NoneOutlivesCorrect == Spec => []NoneOutlivesTheStop
<1>1. EndInv => NoneOutlivesTheStop
  BY DEF EndInv
<1> QED
  BY <1>1, EndInvAlways, PTL

\* The process is terminated only when the watchdog restarts FUSE after its loop has ended by
\* itself, or fails (AsyncService::start, Manager::hardFail on the thread of the watchdog).
THEOREM TerminatedByWatchdogCorrect == Spec => []TerminatedByWatchdog
<1>1. EndInv => TerminatedByWatchdog
  BY DEF EndInv
<1> QED
  BY <1>1, EndInvAlways, PTL
===============================================================================

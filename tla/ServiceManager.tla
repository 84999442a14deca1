--------------------------- MODULE ServiceManager ---------------------------
(***************************************************************************)
(* The services of the server and who starts, watches and stops them:      *)
(* runtime::Manager, concurrency::AsyncService and main().                 *)
(*                                                                         *)
(* Each service runs its loop on a thread of its own.  The main thread     *)
(* starts all services, then the watchdog, waits for a signal and stops    *)
(* everything.  The watchdog thread looks every two seconds which services *)
(* are down, and restarts these.  What a loop does is left out: it runs    *)
(* until it is interrupted, or ends by itself (an exception, a mount that  *)
(* goes away), and then its thread is finished but not joined.             *)
(***************************************************************************)
EXTENDS Naturals

CONSTANTS
    Services,     \* the services
    Order,        \* their places in the order of the map services_
    FUSE,         \* the service with a stop() of its own
    MaxEnds,      \* how often each loop ends by itself
    MaxFailures   \* how often a thread cannot be created

ASSUME ServicesAssumption ==
    /\ FUSE \in Services /\ MaxEnds \in Nat /\ MaxFailures \in Nat
    /\ Order \in [Services -> Nat]
    /\ \A s, u \in Services : Order[s] = Order[u] => s = u

VARIABLES
    running,    \* AsyncService::running_
    interrupt,  \* AsyncService::interruptFlag_
    worker,     \* AsyncService::worker_: no thread, in the loop, past it, finished
    watching,   \* Manager::watchdogRunning
    at,         \* where the main thread and the watchdog are
    left,       \* the services they still have to start or stop
    failing,    \* whether they are in hardFail
    process,    \* whether the process is there, and how it ended
    ended,      \* the services whose loop has ended by itself
    failures    \* the threads that could not be created

vars == <<running, interrupt, worker, watching, at, left, failing, process, ended, failures>>
svcs == <<running, interrupt, worker>>

Threads == {"main", "dog"}

Places == {"off", "start", "serve", "collect", "halt", "await", "stop", "join", "sleep", "done"}

ServicesOK ==
    /\ running \in [Services -> BOOLEAN]
    /\ interrupt \in [Services -> BOOLEAN]
    /\ worker \in [Services -> {"none", "loop", "leaving", "finished"}]
    /\ ended \in [Services -> 0 .. MaxEnds]
    /\ \A s \in Services : worker[s] \in {"loop", "leaving"} => running[s]

ControlOK ==
    /\ watching \in BOOLEAN
    /\ at \in [Threads -> Places]
    /\ left \in [Threads -> SUBSET Services]
    /\ failing \in [Threads -> BOOLEAN]
    /\ process \in {"up", "terminated", "failed", "exited"}
    /\ failures \in 0 .. MaxFailures
    /\ watching => at["dog"] \notin {"off", "done"}

TypeOK == ServicesOK /\ ControlOK

Init ==
    /\ running   = [s \in Services |-> FALSE]
    /\ interrupt = [s \in Services |-> FALSE]
    /\ worker    = [s \in Services |-> "none"]
    /\ watching  = FALSE
    /\ at        = [t \in Threads |-> IF t = "main" THEN "start" ELSE "off"]
    /\ left      = [t \in Threads |-> IF t = "main" THEN Services ELSE {}]
    /\ failing   = [t \in Threads |-> FALSE]
    /\ process   = "up"
    /\ ended     = [s \in Services |-> 0]
    /\ failures  = 0

Joinable(s) == worker[s] # "none"

Goto(t, place, services) ==
    /\ at' = [at EXCEPT ![t] = place]
    /\ left' = [left EXCEPT ![t] = services]

(* A thread at a place of a service's turn: it takes them in the order of the map. *)
Serves(t, place, s) ==
    /\ process = "up"
    /\ at[t] = place
    /\ s \in left[t] /\ \A u \in left[t] : Order[s] <= Order[u]

-----------------------------------------------------------------------------
(* Threads of services. *)

(* A loop that is told to stop, or ends by itself. *)
LoopEnds(s) ==
    /\ process = "up"
    /\ worker[s] = "loop" /\ interrupt[s]
    /\ worker' = [worker EXCEPT ![s] = "leaving"]
    /\ UNCHANGED <<running, interrupt, watching, at, left, failing, process, ended, failures>>

LoopFails(s) ==
    /\ process = "up"
    /\ worker[s] = "loop" /\ ~interrupt[s]
    /\ ended[s] < MaxEnds
    /\ worker' = [worker EXCEPT ![s] = "leaving"]
    /\ ended' = [ended EXCEPT ![s] = @ + 1]
    /\ UNCHANGED <<running, interrupt, watching, at, left, failing, process, failures>>

(* The last thing the thread does. *)
WorkerFinishes(s) ==
    /\ process = "up"
    /\ worker[s] = "leaving"
    /\ worker' = [worker EXCEPT ![s] = "finished"]
    /\ running' = [running EXCEPT ![s] = FALSE]
    /\ UNCHANGED <<interrupt, watching, at, left, failing, process, ended, failures>>

-----------------------------------------------------------------------------
(* AsyncService::start and stop, as the main thread and the watchdog call them. *)

Started(t, s) == Goto(t, IF t = "main" THEN "start" ELSE "stop", left[t] \ {s})

(* The assignment to worker_ terminates the process when the thread it replaces
   has not been joined. *)
StartService(t, s) ==
    /\ Serves(t, "start", s)
    /\ Started(t, s)
    /\ \/ running[s] /\ UNCHANGED <<svcs, process>>
       \/ /\ ~running[s] /\ ~Joinable(s)
          /\ running'   = [running EXCEPT ![s] = TRUE]
          /\ interrupt' = [interrupt EXCEPT ![s] = FALSE]
          /\ worker'    = [worker EXCEPT ![s] = "loop"]
          /\ UNCHANGED process
       \/ /\ ~running[s] /\ Joinable(s)
          /\ process' = "terminated"
          /\ UNCHANGED svcs
    /\ UNCHANGED <<watching, failing, ended, failures>>

(* tryStart catches the exception of a thread that cannot be created. *)
StartFails(t, s) ==
    /\ Serves(t, "start", s)
    /\ failures < MaxFailures
    /\ ~running[s] /\ ~Joinable(s)
    /\ running'   = [running EXCEPT ![s] = TRUE]
    /\ interrupt' = [interrupt EXCEPT ![s] = FALSE]
    /\ failing'   = [failing EXCEPT ![t] = TRUE]
    /\ failures'  = failures + 1
    /\ Goto(t, "halt", {})
    /\ UNCHANGED <<worker, watching, process, ended>>

\* Mutant: every service leaves its stop() early, like FUSE.
QuietLikeFuse(s) == ~running[s]

(* When stop() returns at once; that of FUSE asks for running_ only. *)
Quiet(s) == ~running[s] /\ (s = FUSE \/ ~Joinable(s))

Stopped(t, s) ==
    IF t = "dog" /\ ~failing[t] THEN Goto(t, "start", left[t]) ELSE Goto(t, "stop", left[t] \ {s})

StopService(t, s) ==
    /\ Serves(t, "stop", s)
    /\ IF Quiet(s) THEN Stopped(t, s) /\ UNCHANGED interrupt
       ELSE Goto(t, "join", left[t]) /\ interrupt' = [interrupt EXCEPT ![s] = TRUE]
    /\ UNCHANGED <<running, worker, watching, failing, process, ended, failures>>

JoinWorker(t, s) ==
    /\ Serves(t, "join", s)
    /\ worker[s] \in {"none", "finished"}
    /\ worker'  = [worker EXCEPT ![s] = "none"]
    /\ running' = [running EXCEPT ![s] = FALSE]
    /\ Stopped(t, s)
    /\ UNCHANGED <<interrupt, watching, failing, process, ended, failures>>

-----------------------------------------------------------------------------
(* The main thread. *)

StartWatchdog ==
    /\ process = "up"
    /\ at["main"] = "start" /\ left["main"] = {}
    /\ watching' = TRUE
    /\ at' = [at EXCEPT !["main"] = "serve", !["dog"] = "collect"]
    /\ UNCHANGED <<svcs, left, failing, process, ended, failures>>

(* SIGINT or SIGTERM ends the wait in main(). *)
Signal ==
    /\ process = "up"
    /\ at["main"] = "serve"
    /\ Goto("main", "halt", {})
    /\ UNCHANGED <<svcs, watching, failing, process, ended, failures>>

\* Mutant: the watchdog is told to stop, and not waited for.
HaltAtOnce(t) == Goto(t, "stop", Services) /\ UNCHANGED process

(* Joining the watchdog: its own thread gets an exception, which nobody catches. *)
JoinWatchdog(t) ==
    IF t = "main" THEN Goto(t, "await", {}) /\ UNCHANGED process
    ELSE process' = "terminated" /\ UNCHANGED <<at, left>>

(* stopAll, at first stopWatchdog. *)
Halt(t) ==
    /\ process = "up"
    /\ at[t] = "halt"
    /\ watching' = FALSE
    /\ IF watching THEN JoinWatchdog(t) ELSE Goto(t, "stop", Services) /\ UNCHANGED process
    /\ UNCHANGED <<svcs, failing, ended, failures>>

WatchdogJoined ==
    /\ process = "up"
    /\ at["main"] = "await" /\ at["dog"] = "done"
    /\ Goto("main", "stop", Services)
    /\ UNCHANGED <<svcs, watching, failing, process, ended, failures>>

(* All are stopped: main() returns, or hardFail leaves the process. *)
Leave(t) ==
    /\ process = "up"
    /\ at[t] = "stop" /\ left[t] = {}
    /\ t = "main" \/ failing[t]
    /\ process' = IF failing[t] THEN "failed" ELSE "exited"
    /\ UNCHANGED <<svcs, watching, at, left, failing, ended, failures>>

-----------------------------------------------------------------------------
(* The watchdog. *)

Down(s) == ~running[s]

Collect ==
    /\ process = "up"
    /\ at["dog"] = "collect"
    /\ Goto("dog", "stop", {s \in Services : Down(s)})
    /\ UNCHANGED <<svcs, watching, failing, process, ended, failures>>

Sleep ==
    /\ process = "up"
    /\ at["dog"] = "stop" /\ left["dog"] = {} /\ ~failing["dog"]
    /\ Goto("dog", "sleep", {})
    /\ UNCHANGED <<svcs, watching, failing, process, ended, failures>>

\* Mutant: one round and no more.
OneRound == "done"

\* Mutant: it does not look whether it is to stop.
AnotherRound == "collect"

NextRound == IF watching THEN "collect" ELSE "done"

Wake ==
    /\ process = "up"
    /\ at["dog"] = "sleep"
    /\ Goto("dog", NextRound, {})
    /\ UNCHANGED <<svcs, watching, failing, process, ended, failures>>

-----------------------------------------------------------------------------
Gone == process # "up" /\ UNCHANGED vars

ThreadStep(t) ==
    \/ \E s \in Services : StartService(t, s) \/ StopService(t, s) \/ JoinWorker(t, s)
    \/ Halt(t)
    \/ Leave(t)

WatchdogStep == Collect \/ Sleep \/ Wake

Next ==
    \/ \E s \in Services : LoopEnds(s) \/ LoopFails(s) \/ WorkerFinishes(s)
    \/ \E t \in Threads : ThreadStep(t)
    \/ \E t \in Threads, s \in Services : StartFails(t, s)
    \/ StartWatchdog \/ Signal \/ WatchdogJoined
    \/ WatchdogStep
    \/ Gone

Spec == Init /\ [][Next]_vars

(* Threads that can go on do, and a loop that is interrupted ends: onStop unblocks
   it, and unmounting unblocks that of FUSE. *)
FairSpec ==
    /\ Spec
    /\ \A s \in Services : WF_vars(LoopEnds(s)) /\ WF_vars(WorkerFinishes(s))
    /\ \A t \in Threads : WF_vars(ThreadStep(t))
    /\ WF_vars(StartWatchdog) /\ WF_vars(WatchdogJoined) /\ WF_vars(WatchdogStep)

-----------------------------------------------------------------------------
(* When the process ends in an orderly way no loop is left: the watchdog has not
   brought a service back that had been stopped, although it does not look at the
   order to end while it goes through the services that were down. *)
NoneOutlivesTheStop ==
    process \in {"exited", "failed"} => \A s \in Services : worker[s] \notin {"loop", "leaving"}

(* The process is terminated only by what the watchdog cannot do: restart FUSE once
   its loop has ended by itself, and fail. *)
TerminatedByWatchdog ==
    process = "terminated" =>
        \/ ended[FUSE] > 0
        \/ failing["dog"]

(* The server that is told to stop does: the main thread waits for the watchdog and
   the watchdog for the threads of the services it restarts. *)
StopEnds == at["main"] = "halt" ~> process # "up"

(* A service that is down comes back while the server serves.  FUSE may not: its stop
   never joins a worker that has ended by itself. *)
Serving == process = "up" /\ at["main"] = "serve"

DownIsRestarted ==
    \A s \in Services \ {FUSE} : (Serving /\ Down(s)) ~> (running[s] \/ ~Serving)

=============================================================================

---------------------------- MODULE TaskLifecycle ----------------------------
(***************************************************************************)
(* What the synchronisation scheduler promises about its task objects.  A  *)
(* task is in one place at a time; it is put in the heap when it is        *)
(* created and when a run of it ends well, and reaches a worker only       *)
(* through the hand of the service thread and the queue of the pool.  A    *)
(* task that is taken from the heap after it was cancelled is gone: it     *)
(* never runs.                                                             *)
(***************************************************************************)
CONSTANT Tasks

VARIABLES place,     \* where each task is
          cancelled  \* which tasks have been cancelled

lifeVars == <<place, cancelled>>

LifeTypeOK == /\ place \in [Tasks -> {"none", "heap", "hand", "pool", "run", "gone"}]
              /\ cancelled \in [Tasks -> BOOLEAN]

LifeInit == /\ place = [t \in Tasks |-> "none"]
            /\ cancelled = [t \in Tasks |-> FALSE]

Move(t, from, to) == /\ place[t] = from
                     /\ place' = [place EXCEPT ![t] = to]
                     /\ UNCHANGED cancelled

Create(t) == Move(t, "none", "heap")

\* The service thread has one hand.
Take(t) == /\ \A u \in Tasks : place[u] # "hand"
           /\ Move(t, "heap", IF cancelled[t] THEN "gone" ELSE "hand")

PutBack(t) == Move(t, "hand", "heap")
Submit(t)  == Move(t, "hand", "pool")
Begin(t)   == Move(t, "pool", "run")
Requeue(t) == Move(t, "run", "heap")
Drop(t)    == Move(t, "run", "gone")

Cancel(t) == /\ place[t] # "none"
             /\ cancelled' = [cancelled EXCEPT ![t] = TRUE]
             /\ UNCHANGED place

LifeNext == \E t \in Tasks : \/ Create(t) \/ Take(t) \/ PutBack(t) \/ Submit(t)
                             \/ Begin(t) \/ Requeue(t) \/ Drop(t) \/ Cancel(t)

LifeSpec == LifeInit /\ [][LifeNext]_lifeVars
==============================================================================

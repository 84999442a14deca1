------------------------- MODULE MCSyncController -------------------------
(* Small instances of SyncController for TLC; the .cfg files give the bounds. *)
EXTENDS SyncController

(* For what must happen in the end, two scenarios: all the vaults and nobody *)
(* who calls runNow, or vault 1 alone and as many calls as there may be.     *)
One == INSTANCE SyncController WITH InitialVaults <- {1}

OneOrAllSpec ==
  /\ Init \/ One!Init
  /\ [][Next /\ (engines = InitialVaults => UNCHANGED requests)]_vars
  /\ Fairness
===========================================================================

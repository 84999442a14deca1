---------------------------- MODULE MCSessionIndex ----------------------------
(* Small instances of SessionIndex for TLC; the .cfg files give the bounds. *)
EXTENDS SessionIndex
===============================================================================

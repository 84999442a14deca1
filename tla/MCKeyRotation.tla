------------------------------ MODULE MCKeyRotation ------------------------------
(* Small instances of KeyRotation for TLC; the .cfg files give the bounds. *)
EXTENDS KeyRotation
=================================================================================

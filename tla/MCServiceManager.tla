-------------------------- MODULE MCServiceManager --------------------------
(* Three services in the order they are stopped in, for TLC. *)
EXTENDS ServiceManager

MCServices == {"FUSE", "ProtocolService", "ShellServer"}

MCOrder == [s \in MCServices |-> CASE s = "FUSE" -> 1 [] s = "ProtocolService" -> 2 [] OTHER -> 3]
=============================================================================

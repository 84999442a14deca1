------------------------------ MODULE MCCloudSync ------------------------------
(* Small instances of CloudSync for TLC: a file of the top directory and one of the *)
(* same name in a directory, and two plaintexts of the same length.                 *)
EXTENDS CloudSync, TLC

CONSTANTS top, nested, c1, c2

Lengths      == [c \in Bodies |-> IF c = Garble THEN 5 ELSE 1]
FileNameOnly == [f \in Files |-> top]
EveryMode    == AllModes
KeepRemote   == {[strategy |-> "Mirror", policy |-> "KeepRemote", seals |-> FALSE]}
SameLength   == Permutations({c1, c2})
================================================================================

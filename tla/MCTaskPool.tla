------------------------------ MODULE MCTaskPool ------------------------------
(* Small instances of TaskPool for TLC: a pool of sync runs that borrows from a pool of thumbnails. *)
EXTENDS TaskPool

CONSTANTS s1, s2, h1, r1, r2, a1, b1, x1

SyncAndThumb  == {"sync", "thumb"}
InStopOrder   == <<"sync", "thumb">>
SyncBorrows   == << <<"sync", "thumb">> >>
TwoAndOne     == [w \in Workers |-> IF w = h1 THEN "thumb" ELSE "sync"]
OneThumbnail  == [t \in Tasks |-> IF t = x1 THEN "thumb" ELSE "sync"]
RunsOfOne     == [t \in Tasks |-> IF t = r1 THEN <<a1>> ELSE IF t = r2 THEN <<b1>> ELSE <<>>]
===============================================================================

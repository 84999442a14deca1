---------------------------- MODULE MCShareLinks ----------------------------
(* Two visitors and one link: a link that wants email, is rotated and      *)
(* revoked; one that takes two uploads of one name; and one upload across  *)
(* a restart.                                                              *)
EXTENDS ShareLinks

MCScenarios ==
    {[email |-> TRUE, begun |-> FALSE, sessions |-> 2, uploads |-> 0,
      changes |-> 1, restarts |-> 0],
     [email |-> FALSE, begun |-> TRUE, sessions |-> 2, uploads |-> 2,
      changes |-> 1, restarts |-> 0],
     [email |-> FALSE, begun |-> FALSE, sessions |-> 1, uploads |-> 1,
      changes |-> 1, restarts |-> 1],
     [email |-> FALSE, begun |-> FALSE, sessions |-> 2, uploads |-> 0,
      changes |-> 1, restarts |-> 1]}
=============================================================================

---------------------------- MODULE MCCurrentWalk ----------------------------
(* Three accessions: enough for a fork, for a circle of two and of three, for a
   circle beside a tip, and for two ways to one deed. *)
EXTENDS CurrentWalk

MCIds == 1..3
=============================================================================

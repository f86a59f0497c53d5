---------------------------- MODULE MCCharServer ----------------------------
(***************************************************************************)
(* Instance of CharServer for TLC: one account with two characters, one of *)
(* which has an id with low byte zero; two client sessions, so that a      *)
(* session number outlives its client and two clients of the account meet; *)
(* two map-servers, so that one claims what the other has.                 *)
(***************************************************************************)
EXTENDS CharServer
CONSTANTS a1, a2, l1, l2

OwnerDef == [c \in Chars |-> IF c < 151000 THEN a1 ELSE a2]
=============================================================================

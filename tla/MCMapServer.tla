---------------------------- MODULE MCMapServer -----------------------------
(***************************************************************************)
(* Instance of MapServer for TLC: one account with two characters, so that *)
(* a login meets the node of another character, or two accounts that share *)
(* the session numbers; two client sessions, so that two clients of an     *)
(* account meet; at most one other map-server and one pending quit timer.  *)
(***************************************************************************)
EXTENDS MapServer
CONSTANTS a1, a2, c1, c2, l1, l2

OwnerDef == [c \in Chars |-> a1]
OwnerTwo == [c \in Chars |-> IF c = c1 THEN a1 ELSE a2]
=============================================================================

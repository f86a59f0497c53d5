------------------------------- MODULE MCTimer ------------------------------
(* An instance of Timer for TLC: three ids and a tick that counts modulo 12. *)
EXTENDS Timer

MCDelays == {1, 2}
MCIntervals == {2}
=============================================================================

------------------------------ MODULE MCTrade -------------------------------
(***************************************************************************)
(* Three players, all alike, so that one can ask a second while it trades  *)
(* with a third, and one kind of item.  A player carries one unit: loot    *)
(* that arrives after an offer makes a transfer of the exchange fail.      *)
(***************************************************************************)
EXTENDS Trade, TLC
CONSTANTS p1, p2, p3, i1
Symmetry == Permutations(Players)
=============================================================================

------------------------------ MODULE MCHandles ------------------------------
(* Values for the constants of Handles. *)
EXTENDS Handles

CONSTANTS p1, p2, p3

ThreePads == {p1, p2, p3}

(* Two share an address. *)
P1AliasesP2 == [c \in Pads |-> IF c = p2 THEN p1 ELSE c]

(* One more than the list has entries. *)
ThreeFiles == 4 .. 6
=============================================================================

----------------------------- MODULE MCDevList ------------------------------
(* Values for the constants of DevList. *)
EXTENDS DevList

CONSTANTS p1, p2, p3, p4

ThreePads == {p1, p2, p3}
FourPads == {p1, p2, p3, p4}

(* Every Joy-Con with its own address, and two that share theirs. *)
Distinct == [c \in Pads |-> c]
P1AliasesP2 == [c \in Pads |-> IF c = p2 THEN p1 ELSE c]
=============================================================================

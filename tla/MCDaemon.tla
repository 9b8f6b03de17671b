------------------------------ MODULE MCDaemon ------------------------------
(* Values for the constants of Daemon. *)
EXTENDS Daemon

CONSTANTS a, b, rest, held, simple

TwoPads == {a, b}

Own == [p \in Pads |-> p]

(* One of each half. *)
LeftAndRight == [p \in Pads |-> IF p = a THEN "L" ELSE "R"]

(* Reports that differ, and reports that do not. *)
Buttons == {rest, held, simple}
Idle == {rest}
=============================================================================

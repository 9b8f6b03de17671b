----------------------------- MODULE MCHandshake -----------------------------
(* Handshake for TLC. *)
EXTENDS Handshake

OneNumber == {2}
TwoNumbers == {1, 2}
=============================================================================

------------------------------- MODULE MCStick -------------------------------
(* Stick for TLC. *)
EXTENDS Stick

(* Three bytes that read, by Low and by High, as 0, 2048 and 4095. *)
Nothing == <<0, 0, 0>>
Middle  == <<0, 8, 128>>
Most    == <<255, 255, 255>>

(* The 18 bytes as six such triples, the centres, the distances below and  *)
(* the distances above of both sticks: ends that coincide, that are in     *)
(* order, and that wrap.                                                   *)
Triples ==
  {[k \in 0 .. 17 |-> t[1 + (k \div 3)][1 + (k % 3)]] :
     t \in [1 .. 6 -> {Nothing, Middle, Most}]}

SomeRaws == {0, 1000, 3000, 4095}
=============================================================================

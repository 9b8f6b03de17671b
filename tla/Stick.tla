-------------------------------- MODULE Stick --------------------------------
(***************************************************************************)
(* The analog sticks of one Joy-Con: jc_calibrate turns 18 bytes into the  *)
(* ends of each axis, in 16-bit unsigned arithmetic, jc_apply_input_packet *)
(* puts a raw 12-bit position between them, and main scales the result to  *)
(* the range of the gamepad's axes.                                        *)
(*                                                                         *)
(* The bytes are those that lie where the answer to the SPI read should:   *)
(* nothing checks that they are its data (module Handshake).  Floating     *)
(* point is taken to be exact.                                             *)
(***************************************************************************)
EXTENDS Integers

CONSTANTS
  Data,  \* what jc_calibrate may find in the buffer
  Raws   \* the raw positions a report may hold

RAW_MAX    == 4095
UINT16_MAX == 65535

Byte   == 0 .. 255
Raw    == 0 .. RAW_MAX
UInt16 == 0 .. UINT16_MAX

ASSUME StickAssumption ==
  /\ Data \subseteq [0 .. 17 -> Byte]
  /\ Raws \subseteq Raw

VARIABLES
  ready, \* has jc_calibrate been called?
  data,  \* the bytes it found
  cal,   \* the ends of each axis of each stick
  axis   \* what main writes to the gamepad for each

vars == <<ready, data, cal, axis>>

Axes == {"l_x", "l_y", "r_x", "r_y"}

INT8_MAX == 127

(* calloc: no end is set and every axis rests. *)
Init ==
  /\ ready = FALSE
  /\ data = [k \in 0 .. 17 |-> 0]
  /\ cal = [a \in Axes |-> [min |-> 0, max |-> 0]]
  /\ axis = [a \in Axes |-> 0]

-----------------------------------------------------------------------------
(* jc_calibrate *)

(* Mutant: the shift is not followed by the mask. *)
Low_NoMask(d, k) == (d[k + 1] * 256) + d[k]

(* 12 bits: byte k and the low half of the next; the high half of byte k   *)
(* and byte j.                                                             *)
Low(d, k) == ((d[k + 1] % 16) * 256) + d[k]

High(d, j, k) == (d[j] * 16) + (d[k] \div 16)

(* The ends of an axis from its centre and its distances to them. *)
Ends(cen, below, above) ==
  [min |-> (cen - below) % (UINT16_MAX + 1),
   max |-> (cen + above) % (UINT16_MAX + 1)]

(* The left stick's vertical centre takes its low half from data[10], a    *)
(* byte of the right stick, where its own is in data[4].                   *)
Calibration(d) ==
  [a \in Axes |->
    CASE a = "l_x" -> Ends(Low(d, 3), Low(d, 6), Low(d, 0))
      [] a = "l_y" -> Ends(High(d, 5, 10), High(d, 8, 7), High(d, 2, 1))
      [] a = "r_x" -> Ends(Low(d, 9), Low(d, 12), Low(d, 15))
      [] a = "r_y" -> Ends(High(d, 11, 10), High(d, 14, 13), High(d, 17, 16))]

(* Once, before the Joy-Con is polled. *)
jc_calibrate ==
  /\ ~ ready /\ ready' = TRUE
  /\ data' \in Data
  /\ cal' = Calibration(data')
  /\ UNCHANGED axis

-----------------------------------------------------------------------------
(* jc_apply_input_packet and main *)

(* fmax(u, 0) and fmin *)
Clamp(u) == IF u < 0 THEN 0 ELSE u

Least(m, n) == IF m < n THEN m ELSE n

(* Conversion to an integer drops the fraction. *)
Toward0(n, d) == IF n >= 0 THEN n \div d ELSE - ((- n) \div d)

(* Mutants: without fmin; counted from the upper end; without * 2 - 1. *)
Position_NoFmin(u, c) ==
  LET n == Clamp(u - c.min)
      d == c.max - c.min
  IN  IF d > 0 THEN Toward0(INT8_MAX * ((2 * n) - d), d)
      ELSE IF d = 0 THEN INT8_MAX
      ELSE - Toward0(INT8_MAX * ((2 * n) - d), - d)

Position_Down(u, c) ==
  LET n == Least(Clamp(c.max - u), c.max - c.min)
      d == c.max - c.min
  IN  IF d > 0 THEN Toward0(INT8_MAX * ((2 * n) - d), d)
      ELSE IF d = 0 THEN INT8_MAX
      ELSE - INT8_MAX

Position_ZeroToOne(u, c) ==
  LET n == Clamp(u - c.min)
      d == c.max - c.min
  IN  IF d > 0 THEN Toward0(INT8_MAX * Least(n, d), d) ELSE INT8_MAX

(* (fmin(fmax(u - min, 0) / (max - min), 1) * 2 - 1) * INT8_MAX.  Between  *)
(* ends that coincide the quotient is infinite or not a number, and fmin   *)
(* makes 1 of either.  Where the lower end wrapped round below zero they   *)
(* are the wrong way about, and the quotient would have no lower bound if  *)
(* any position reached that end.                                          *)
Position(u, c) ==
  LET n == Clamp(u - c.min)
      d == c.max - c.min
  IN  IF d > 0 THEN Toward0(INT8_MAX * ((2 * Least(n, d)) - d), d)
      ELSE IF d = 0 THEN INT8_MAX
      ELSE - Toward0(INT8_MAX * ((2 * n) - d), - d)

StickOf(a) == IF a \in {"l_x", "l_y"} THEN {"l_x", "l_y"} ELSE {"r_x", "r_y"}

(* A stick of which either raw value is zero keeps its position: so a      *)
(* report says that the Joy-Con has no such stick.                         *)
jc_apply_input_packet(raw) ==
  axis' = [a \in Axes |-> IF \A b \in StickOf(a) : raw[b] # 0
                          THEN Position(raw[a], cal[a])
                          ELSE axis[a]]

Report ==
  /\ ready
  /\ \E raw \in [Axes -> Raws] : jc_apply_input_packet(raw)
  /\ UNCHANGED <<ready, data, cal>>

Next == jc_calibrate \/ Report

Spec == Init /\ [][Next]_vars
-----------------------------------------------------------------------------
(* Properties *)

(* The ends are 16-bit unsigned integers. *)
TypeOK ==
  /\ ready \in BOOLEAN
  /\ data \in [0 .. 17 -> Byte]
  /\ cal \in [Axes -> [min : UInt16, max : UInt16]]
  /\ axis \in [Axes -> Int]

(* Three bytes are 24 bits, the lowest first: the lower twelve are for the *)
(* horizontal axis, the upper for the vertical one.                        *)
Packed(d, k) == d[k] + (256 * d[k + 1]) + (65536 * d[k + 2])

Field(a, d, k) == IF a \in {"l_x", "r_x"} THEN Packed(d, k) % 4096 ELSE Packed(d, k) \div 4096

(* Where the three bytes are that hold the centre, the distance below it   *)
(* and the distance above it.                                              *)
Places(a) ==
  IF a \in StickOf("l_x") THEN [cen |-> 3, below |-> 6, above |-> 0]
                          ELSE [cen |-> 9, below |-> 12, above |-> 15]

(* The shifts and masks take the eighteen bytes apart as they were put     *)
(* together, but for the byte of the other stick in the left vertical      *)
(* centre: both ends of that axis are off, by the same, by at most 15.     *)
Decoded ==
  ready =>
    \A a \in Axes : \E e \in IF a = "l_y" THEN -15 .. 15 ELSE {0} :
      LET at == Places(a)
      IN  cal[a] = Ends(Field(a, data, at.cen) + e, Field(a, data, at.below),
                        Field(a, data, at.above))

(* Every axis stays in the range vg_ui_create declares to the host, so it  *)
(* also fits an int8_t, negated or not; whatever bytes the calibration was *)
(* made from.                                                              *)
AxisInRange == \A a \in Axes : axis[a] \in - INT8_MAX .. INT8_MAX

(* Pushing a stick further never moves its axis back, whatever the bytes.  *)
Monotone ==
  \A a \in Axes : \A u, v \in Raws :
    u <= v => Position(u, cal[a]) <= Position(v, cal[a])

(* Where the ends are in order the stick's travel between them is the      *)
(* whole travel of the axis, and half way is zero.                         *)
FullTravel ==
  \A a \in Axes :
    LET c == cal[a]
    IN  c.min < c.max =>
          /\ Position(c.min, c) = - INT8_MAX
          /\ Position(c.max, c) = INT8_MAX
          /\ (c.max - c.min) % 2 = 0 => Position((c.min + c.max) \div 2, c) = 0
=============================================================================

----------------------------- MODULE StickProofs -----------------------------
(***************************************************************************)
(* That the axes stay in their range, for any 18 bytes and any reports,    *)
(* and that the bytes are taken apart as they were put together.           *)
(* The arithmetic of one axis comes first; the invariant is that its ends  *)
(* are in order, coincide, or lie the wrong way about with the lower one   *)
(* beyond every position a stick can report.                               *)
(***************************************************************************)
EXTENDS Stick, TLAPS

(* A pair of ends that jc_calibrate can leave. *)
Sound(c) ==
  /\ c.min \in UInt16 /\ c.max \in UInt16
  /\ c.min <= c.max \/ c.min > RAW_MAX

AxisRange == - INT8_MAX .. INT8_MAX

(* The sets of numbers, by their bounds. *)
LEMMA Numbers ==
  /\ \A n : n \in Raw <=> n \in Int /\ 0 <= n /\ n <= 4095
  /\ \A n : n \in UInt16 <=> n \in Int /\ 0 <= n /\ n <= 65535
  /\ \A n : n \in Byte <=> n \in Int /\ 0 <= n /\ n <= 255
  /\ \A n : n \in AxisRange <=> n \in Int /\ -127 <= n /\ n <= 127
<1>1. RAW_MAX = 4095 /\ UINT16_MAX = 65535 /\ INT8_MAX = 127
  BY DEF RAW_MAX, UINT16_MAX, INT8_MAX
<1>2. \A n : n \in Raw <=> n \in Int /\ 0 <= n /\ n <= 4095
  <2>1. RAW_MAX \in Int
    BY <1>1
  <2>2. \A n : n \in Raw <=> n \in Int /\ 0 <= n /\ n <= RAW_MAX
    BY <2>1 DEF Raw
  <2>3. QED
    BY <1>1, <2>2
<1>3. \A n : n \in UInt16 <=> n \in Int /\ 0 <= n /\ n <= 65535
  <2>1. UINT16_MAX \in Int
    BY <1>1
  <2>2. \A n : n \in UInt16 <=> n \in Int /\ 0 <= n /\ n <= UINT16_MAX
    BY <2>1 DEF UInt16
  <2>3. QED
    BY <1>1, <2>2
<1>4. \A n : n \in Byte <=> n \in Int /\ 0 <= n /\ n <= 255
  BY DEF Byte
<1>5. \A n : n \in AxisRange <=> n \in Int /\ -127 <= n /\ n <= 127
  BY <1>1 DEF AxisRange
<1>6. QED
  BY <1>2, <1>3, <1>4, <1>5

(* A number of twelve bits is a raw position. *)
LEMMA InRaw ==
  ASSUME NEW n, n \in Int, 0 <= n, n <= 4095
  PROVE  n \in Raw
BY Numbers

(* The 12-bit fields are 12-bit numbers. *)
LEMMA Fields ==
  ASSUME NEW d \in [0 .. 17 -> Byte], NEW j \in 0 .. 17, NEW k \in 0 .. 16
  PROVE  Low(d, k) \in Raw /\ High(d, j, k) \in Raw
<1>1. d[k] \in Byte /\ d[k + 1] \in Byte /\ d[j] \in Byte
  OBVIOUS
<1>2. \A b \in Byte : (b % 16) \in 0 .. 15 /\ (b \div 16) \in 0 .. 15
  BY Numbers
<1>3. \A b, h \in Byte : ((b % 16) * 256) + h \in Raw /\ (h * 16) + (b \div 16) \in Raw
  BY <1>2, Numbers
<1>4. QED
  BY <1>1, <1>3 DEF Low, High

(* Whatever the centre and the distances, the ends are sound: if the lower *)
(* one wraps round it is at least 65536 - 4095.                            *)
LEMMA EndsSound ==
  ASSUME NEW cen \in Raw, NEW below \in Raw, NEW above \in Raw
  PROVE  /\ Sound(Ends(cen, below, above))
         /\ Ends(cen, below, above) \in [min : UInt16, max : UInt16]
<1>1. /\ cen \in Int /\ 0 <= cen /\ cen <= 4095
      /\ below \in Int /\ 0 <= below /\ below <= 4095
      /\ above \in Int /\ 0 <= above /\ above <= 4095
  BY Numbers
<1>2. /\ ((cen - below) % 65536) = IF cen - below >= 0 THEN cen - below
                                                       ELSE (cen - below) + 65536
      /\ ((cen + above) % 65536) = cen + above
  BY <1>1
<1>3. UINT16_MAX + 1 = 65536 /\ RAW_MAX = 4095
  BY DEF UINT16_MAX, RAW_MAX
<1>4. /\ Ends(cen, below, above).min = ((cen - below) % 65536)
      /\ Ends(cen, below, above).max = ((cen + above) % 65536)
  BY <1>3 DEF Ends
<1>5. Sound(Ends(cen, below, above))
  BY <1>1, <1>2, <1>3, <1>4, Numbers DEF Sound
<1>6. Ends(cen, below, above) \in [min : UInt16, max : UInt16]
  BY <1>5 DEF Sound, Ends
<1>7. QED
  BY <1>5, <1>6

(* Division by d of what lies within 127 * d keeps within 127. *)
LEMMA Toward0Bound ==
  ASSUME NEW n \in Int, NEW d \in Int, d > 0, n <= 127 * d, - n <= 127 * d
  PROVE  Toward0(n, d) \in AxisRange
<1>1. CASE n >= 0
  <2>1. (n \div d) \in Int /\ (n \div d) >= 0 /\ (n \div d) <= 127
    BY <1>1, Z3
  <2>2. QED
    BY <1>1, <2>1, Numbers DEF Toward0
<1>2. CASE n < 0
  <2> DEFINE m == - n
  <2>1. m \in Nat /\ m <= 127 * d
    BY <1>2
  <2>2. (m \div d) \in Int /\ (m \div d) >= 0 /\ (m \div d) <= 127
    BY <2>1, Z3
  <2>3. Toward0(n, d) = - (m \div d)
    BY <1>2 DEF Toward0
  <2> HIDE DEF m
  <2>4. QED
    BY <2>2, <2>3, Numbers
<1>3. QED
  BY <1>1, <1>2

(* A position between sound ends is in the range of the axis. *)
LEMMA PositionInRange ==
  ASSUME NEW u \in Raw, NEW c, Sound(c)
  PROVE  Position(u, c) \in AxisRange
<1> DEFINE n == Clamp(u - c.min)
           d == c.max - c.min
           m == Least(n, d)
<1>1. /\ c.min \in Int /\ c.max \in Int /\ u \in Int /\ u <= 4095
      /\ c.min <= c.max \/ c.min > 4095
  BY Numbers DEF Sound, RAW_MAX
<1>2. n \in Nat /\ d \in Int
  BY <1>1 DEF Clamp
<1>3. CASE d > 0
  <2> DEFINE v == 127 * ((2 * m) - d)
  <2>1. Position(u, c) = Toward0(v, d)
    BY <1>3 DEF Position, INT8_MAX
  <2>2. m \in Int /\ 0 <= m /\ m <= d
    BY <1>2, <1>3 DEF Least
  <2> HIDE DEF m, n, d
  <2>3. v \in Int /\ v <= 127 * d /\ - v <= 127 * d
    BY <1>2, <2>2
  <2> HIDE DEF v
  <2>4. QED
    BY <1>2, <1>3, <2>1, <2>3, Toward0Bound
<1>4. CASE d = 0
  BY <1>4, Numbers DEF Position, INT8_MAX
<1>5. CASE d < 0
  <2> DEFINE v == 127 * ((2 * n) - d)
             e == - d
  <2>1. Position(u, c) = - Toward0(v, e)
    BY <1>2, <1>5 DEF Position, INT8_MAX
  <2>2. n = 0
    BY <1>1, <1>5 DEF Clamp
  <2>3. e \in Int /\ e > 0 /\ v = 127 * e
    BY <1>2, <1>5, <2>2
  <2> HIDE DEF n, d, e, v
  <2>4. v \in Int /\ v <= 127 * e /\ - v <= 127 * e
    BY <2>3
  <2>5. Toward0(v, e) \in AxisRange
    BY <2>3, <2>4, Toward0Bound
  <2>6. QED
    BY <2>1, <2>5, Numbers
<1>6. QED
  BY <1>2, <1>3, <1>4, <1>5

-----------------------------------------------------------------------------

StickInv ==
  /\ cal \in [Axes -> [min : UInt16, max : UInt16]]
  /\ \A a \in Axes : Sound(cal[a])
  /\ axis \in [Axes -> AxisRange]

(* The zeros of calloc are ends that coincide. *)
LEMMA StickInit == Init => StickInv
<1>1. 0 \in UInt16 /\ 0 \in AxisRange
  BY Numbers
<1>2. QED
  BY <1>1 DEF Init, StickInv, Sound

LEMMA CalibrationSound ==
  ASSUME NEW d \in [0 .. 17 -> Byte]
  PROVE  /\ Calibration(d) \in [Axes -> [min : UInt16, max : UInt16]]
         /\ \A a \in Axes : Sound(Calibration(d)[a])
<1>1. /\ \A k \in 0 .. 16 : Low(d, k) \in Raw
      /\ \A j \in 0 .. 17, k \in 0 .. 16 : High(d, j, k) \in Raw
  BY Fields
<1>2. /\ Low(d, 3) \in Raw /\ Low(d, 6) \in Raw /\ Low(d, 0) \in Raw
      /\ Low(d, 9) \in Raw /\ Low(d, 12) \in Raw /\ Low(d, 15) \in Raw
      /\ High(d, 5, 10) \in Raw /\ High(d, 8, 7) \in Raw /\ High(d, 2, 1) \in Raw
      /\ High(d, 11, 10) \in Raw /\ High(d, 14, 13) \in Raw /\ High(d, 17, 16) \in Raw
  BY <1>1
<1>3. ASSUME NEW a \in Axes
      PROVE  \E cen, below, above \in Raw : Calibration(d)[a] = Ends(cen, below, above)
  <2>1. CASE a = "l_x"
    BY <1>2, <2>1 DEF Calibration, Axes
  <2>2. CASE a = "l_y"
    BY <1>2, <2>2 DEF Calibration, Axes
  <2>3. CASE a = "r_x"
    BY <1>2, <2>3 DEF Calibration, Axes
  <2>4. CASE a = "r_y"
    BY <1>2, <2>4 DEF Calibration, Axes
  <2>5. QED
    BY <2>1, <2>2, <2>3, <2>4 DEF Axes
<1>4. \A a \in Axes : Sound(Calibration(d)[a])
  BY <1>3, EndsSound
<1>5. \A a \in Axes : Calibration(d)[a] \in [min : UInt16, max : UInt16]
  BY <1>3, EndsSound
<1>6. QED
  BY <1>4, <1>5 DEF Calibration

LEMMA StickStep == StickInv /\ [Next]_vars => StickInv'
<1> SUFFICES ASSUME StickInv, [Next]_vars
             PROVE  StickInv'
  OBVIOUS
<1>1. CASE jc_calibrate
  <2>1. data' \in [0 .. 17 -> Byte] /\ cal' = Calibration(data')
    BY <1>1, StickAssumption DEF jc_calibrate
  <2>2. QED
    BY <1>1, <2>1, CalibrationSound DEF StickInv, jc_calibrate
<1>2. CASE Report
  <2>1. PICK raw \in [Axes -> Raw] : jc_apply_input_packet(raw)
    BY <1>2, StickAssumption DEF Report
  <2>2. \A a \in Axes : Position(raw[a], cal[a]) \in AxisRange
    BY PositionInRange DEF StickInv
  <2>3. axis' \in [Axes -> AxisRange]
    BY <2>1, <2>2 DEF jc_apply_input_packet, StickInv
  <2>4. QED
    BY <1>2, <2>3 DEF StickInv, Report
<1>3. CASE UNCHANGED vars
  BY <1>3 DEF StickInv, vars
<1>4. QED
  BY <1>1, <1>2, <1>3 DEF Next

(* Whatever calibration was read, and whatever the sticks report, every    *)
(* axis shown to the host is within the range it was told.                 *)
THEOREM StickInRange == Spec => []AxisInRange
<1>1. Init => StickInv
  BY StickInit
<1>2. StickInv => AxisInRange
  BY DEF StickInv, AxisInRange, AxisRange
<1>3. QED
  BY <1>1, <1>2, StickStep, PTL DEF Spec
-----------------------------------------------------------------------------
(* The bytes *)

(* Two halves of a byte lie on either side of the border of the fields.    *)
LEMMA Unpacked ==
  ASSUME NEW d \in [0 .. 17 -> Byte], NEW k \in 0 .. 15
  PROVE  /\ (Packed(d, k) % 4096) = Low(d, k)
         /\ (Packed(d, k) \div 4096) = High(d, k + 2, k + 1)
         /\ Low(d, k) \in Raw /\ High(d, k + 2, k + 1) \in Raw
<1> DEFINE b == d[k]
           l == d[k + 1] % 16
           h == d[k + 1] \div 16
           c == d[k + 2]
           low == (l * 256) + b
           high == (c * 16) + h
<1>1. b \in Byte /\ d[k + 1] \in Byte /\ c \in Byte
  OBVIOUS
<1>2. \A n \in Byte : (n % 16) \in 0 .. 15 /\ (n \div 16) \in 0 .. 15
                     /\ n = (16 * (n \div 16)) + (n % 16)
  BY Numbers
<1>3. l \in 0 .. 15 /\ h \in 0 .. 15 /\ d[k + 1] = (16 * h) + l
  BY <1>1, <1>2
<1>4. Low(d, k) = low /\ High(d, k + 2, k + 1) = high
  BY DEF Low, High
<1>5. Packed(d, k) = b + (256 * d[k + 1]) + (65536 * c)
  BY DEF Packed
<1> HIDE DEF b, l, h, c
<1>6. b \in Int /\ 0 <= b /\ b <= 255 /\ c \in Int /\ 0 <= c /\ c <= 255
  BY <1>1, Numbers
<1>7. low \in 0 .. 4095 /\ high \in 0 .. 4095
  BY <1>3, <1>6
<1>8. Packed(d, k) = low + (4096 * high)
  BY <1>3, <1>5, <1>6
<1> HIDE DEF low, high
<1>9. ((low + (4096 * high)) % 4096) = low /\ ((low + (4096 * high)) \div 4096) = high
  BY <1>7
<1>10. low \in Raw /\ high \in Raw
  <2>1. /\ low \in Int /\ 0 <= low /\ low <= 4095
        /\ high \in Int /\ 0 <= high /\ high <= 4095
    BY <1>7
  <2>2. low \in Raw
    BY <2>1, InRaw
  <2>3. high \in Raw
    BY <2>1, InRaw
  <2>4. QED
    BY <2>2, <2>3
<1>11. QED
  BY <1>4, <1>8, <1>9, <1>10

(* The vertical centre of the left stick, with the low half of another     *)
(* byte.                                                                   *)
LEMMA CentreOff ==
  ASSUME NEW d \in [0 .. 17 -> Byte]
  PROVE  \E e \in -15 .. 15 : High(d, 5, 10) = High(d, 5, 4) + e
<1>1. d[5] \in Byte /\ (d[10] \div 16) \in 0 .. 15 /\ (d[4] \div 16) \in 0 .. 15
  <2>1. \A n \in Byte : (n \div 16) \in 0 .. 15
    BY Numbers
  <2>2. d[5] \in Byte /\ d[10] \in Byte /\ d[4] \in Byte
    OBVIOUS
  <2>3. QED
    BY <2>1, <2>2
<1>2. \A m, n \in 0 .. 15 : m - n \in -15 .. 15
  OBVIOUS
<1>3. \A m, n \in 0 .. 15, b \in Byte : (b * 16) + m = ((b * 16) + n) + (m - n)
  BY Numbers
<1>4. \A m, n \in 0 .. 15, b \in Byte :
        \E e \in -15 .. 15 : (b * 16) + m = ((b * 16) + n) + e
  BY <1>2, <1>3
<1>5. QED
  BY <1>1, <1>4, Zenon DEF High

LEMMA CalibrationDecoded ==
  ASSUME NEW d \in [0 .. 17 -> Byte], NEW a \in Axes
  PROVE  \E e \in IF a = "l_y" THEN -15 .. 15 ELSE {0} :
           Calibration(d)[a] = Ends(Field(a, d, Places(a).cen) + e,
                                    Field(a, d, Places(a).below),
                                    Field(a, d, Places(a).above))
<1>1. \A k \in 0 .. 15 : /\ (Packed(d, k) % 4096) = Low(d, k)
                         /\ (Packed(d, k) \div 4096) = High(d, k + 2, k + 1)
                         /\ Low(d, k) \in Int /\ High(d, k + 2, k + 1) \in Int
  BY Unpacked, Numbers
<1>2. CASE a = "l_x"
  <2>1. Calibration(d)[a] = Ends(Low(d, 3), Low(d, 6), Low(d, 0))
    BY <1>2 DEF Calibration
  <2>2. Places(a) = [cen |-> 3, below |-> 6, above |-> 0]
    BY <1>2 DEF Places, StickOf
  <2>3. Low(d, 3) = Field(a, d, 3) /\ Low(d, 6) = Field(a, d, 6)
        /\ Low(d, 0) = Field(a, d, 0) /\ Low(d, 3) = Low(d, 3) + 0
    BY <1>1, <1>2 DEF Field
  <2>4. QED
    BY <1>2, <2>1, <2>2, <2>3
<1>3. CASE a = "r_x"
  <2>1. Calibration(d)[a] = Ends(Low(d, 9), Low(d, 12), Low(d, 15))
    BY <1>3 DEF Calibration
  <2>2. Places(a) = [cen |-> 9, below |-> 12, above |-> 15]
    BY <1>3 DEF Places, StickOf
  <2>3. Low(d, 9) = Field(a, d, 9) /\ Low(d, 12) = Field(a, d, 12)
        /\ Low(d, 15) = Field(a, d, 15) /\ Low(d, 9) = Low(d, 9) + 0
    BY <1>1, <1>3 DEF Field
  <2>4. QED
    BY <1>3, <2>1, <2>2, <2>3
<1>4. CASE a = "r_y"
  <2>1. Calibration(d)[a] = Ends(High(d, 11, 10), High(d, 14, 13), High(d, 17, 16))
    BY <1>4 DEF Calibration
  <2>2. Places(a) = [cen |-> 9, below |-> 12, above |-> 15]
    BY <1>4 DEF Places, StickOf
  <2>3. High(d, 11, 10) = Field(a, d, 9) /\ High(d, 14, 13) = Field(a, d, 12)
        /\ High(d, 17, 16) = Field(a, d, 15) /\ High(d, 11, 10) = High(d, 11, 10) + 0
    BY <1>1, <1>4 DEF Field
  <2>4. QED
    BY <1>4, <2>1, <2>2, <2>3
<1>5. CASE a = "l_y"
  <2>1. Calibration(d)[a] = Ends(High(d, 5, 10), High(d, 8, 7), High(d, 2, 1))
    BY <1>5 DEF Calibration
  <2>2. Places(a) = [cen |-> 3, below |-> 6, above |-> 0]
    BY <1>5 DEF Places, StickOf
  <2>3. High(d, 5, 4) = Field(a, d, 3) /\ High(d, 8, 7) = Field(a, d, 6)
        /\ High(d, 2, 1) = Field(a, d, 0)
    BY <1>1, <1>5 DEF Field
  <2>4. PICK e \in -15 .. 15 : High(d, 5, 10) = High(d, 5, 4) + e
    BY CentreOff
  <2>5. QED
    BY <1>5, <2>1, <2>2, <2>3, <2>4
<1>6. QED
  BY <1>2, <1>3, <1>4, <1>5 DEF Axes

(* For any eighteen bytes the ends of each axis are those the bytes give,  *)
(* but for the left vertical axis, whose ends are off by at most 15.       *)
THEOREM StickDecoded == Spec => []Decoded
<1> DEFINE Inv == (ready => data \in [0 .. 17 -> Byte] /\ cal = Calibration(data))
<1>1. Init => Inv
  BY DEF Init
<1>2. Inv /\ [Next]_vars => Inv'
  BY StickAssumption DEF Next, jc_calibrate, Report, vars
<1>3. Inv => Decoded
  BY CalibrationDecoded DEF Decoded
<1>4. QED
  BY <1>1, <1>2, <1>3, PTL DEF Spec

(* The ends are 16-bit numbers.                                            *)
THEOREM StickTypeCorrect == Spec => []TypeOK
<1>1. Init => StickInv /\ TypeOK
  <2>1. 0 \in UInt16 /\ 0 \in AxisRange /\ 0 \in Byte
    BY Numbers
  <2>2. Init => StickInv
    BY StickInit
  <2>3. ASSUME Init PROVE TypeOK
    <3>1. [min |-> 0, max |-> 0] \in [min : UInt16, max : UInt16]
      BY <2>1
    <3>2. ready \in BOOLEAN
      BY <2>3 DEF Init
    <3>3. data \in [0 .. 17 -> Byte]
      BY <2>1, <2>3 DEF Init
    <3>4. cal \in [Axes -> [min : UInt16, max : UInt16]]
      BY <2>3, <3>1 DEF Init
    <3>5. axis \in [Axes -> Int]
      BY <2>3 DEF Init
    <3>6. QED
      BY <3>2, <3>3, <3>4, <3>5 DEF TypeOK
  <2>4. QED
    BY <2>2, <2>3
<1>2. AxisRange \subseteq Int
  BY Numbers
<1>3. StickInv /\ TypeOK /\ [Next]_vars => StickInv' /\ TypeOK'
  BY <1>2, StickStep, StickAssumption DEF StickInv, TypeOK, Next, jc_calibrate, Report, vars
<1>4. QED
  BY <1>1, <1>3, PTL DEF Spec
-----------------------------------------------------------------------------
(* The course of one axis *)

(* Division by d keeps the order, whatever the signs. *)
LEMMA Toward0Order ==
  ASSUME NEW m \in Int, NEW n \in Int, NEW d \in Int, d > 0, m <= n
  PROVE  Toward0(m, d) <= Toward0(n, d)
<1>1. \A j, k \in Nat : j <= k => (j \div d) <= (k \div d) /\ (j \div d) \in Nat /\ (k \div d) \in Nat
  BY Z3
<1>2. CASE m >= 0
  <2>1. (m \div d) <= (n \div d)
    BY <1>1, <1>2
  <2>2. QED
    BY <1>2, <2>1 DEF Toward0
<1>3. CASE m < 0 /\ n >= 0
  <2> DEFINE j == - m
  <2>1. j \in Nat /\ n \in Nat
    BY <1>3
  <2>2. (j \div d) \in Nat /\ (n \div d) \in Nat
    BY <1>1, <2>1
  <2>3. Toward0(m, d) = - (j \div d) /\ Toward0(n, d) = n \div d
    BY <1>3 DEF Toward0
  <2> HIDE DEF j
  <2>4. QED
    BY <2>2, <2>3
<1>4. CASE n < 0
  <2> DEFINE j == - m
             k == - n
  <2>1. j \in Nat /\ k \in Nat /\ k <= j
    BY <1>4
  <2>2. (k \div d) <= (j \div d) /\ (j \div d) \in Nat /\ (k \div d) \in Nat
    BY <1>1, <2>1
  <2>3. Toward0(m, d) = - (j \div d) /\ Toward0(n, d) = - (k \div d)
    BY <1>4 DEF Toward0
  <2> HIDE DEF j, k
  <2>4. QED
    BY <2>2, <2>3
<1>5. QED
  BY <1>2, <1>3, <1>4

(* Between sound ends a position further up is no further down. *)
LEMMA PositionOrder ==
  ASSUME NEW u \in Raw, NEW v \in Raw, u <= v, NEW c, Sound(c)
  PROVE  Position(u, c) <= Position(v, c)
<1> DEFINE d == c.max - c.min
           n(w) == Clamp(w - c.min)
<1>1. /\ c.min \in Int /\ c.max \in Int /\ u \in Int /\ v \in Int
      /\ u <= 4095 /\ v <= 4095
      /\ c.min <= c.max \/ c.min > 4095
  BY Numbers DEF Sound, RAW_MAX
<1>2. n(u) \in Nat /\ n(v) \in Nat /\ n(u) <= n(v) /\ d \in Int
  BY <1>1 DEF Clamp
<1>3. CASE d > 0
  <2> DEFINE x(w) == 127 * ((2 * Least(n(w), d)) - d)
  <2>1. Position(u, c) = Toward0(x(u), d) /\ Position(v, c) = Toward0(x(v), d)
    BY <1>3 DEF Position, INT8_MAX
  <2>2. /\ Least(n(u), d) \in Int /\ Least(n(v), d) \in Int
        /\ Least(n(u), d) <= Least(n(v), d)
    BY <1>2, <1>3 DEF Least
  <2>3. x(u) \in Int /\ x(v) \in Int /\ x(u) <= x(v)
    BY <1>2, <2>2
  <2>4. QED
    BY <1>2, <1>3, <2>1, <2>3, Toward0Order
<1>4. CASE d = 0
  BY <1>4 DEF Position, INT8_MAX
<1>5. CASE d < 0
  <2>1. n(u) = 0 /\ n(v) = 0
    BY <1>1, <1>5 DEF Clamp
  <2>2. Position(u, c) = Position(v, c)
    BY <1>5, <2>1 DEF Position
  <2>3. Position(u, c) \in AxisRange
    BY PositionInRange
  <2>4. QED
    BY <2>2, <2>3, Numbers
<1>6. QED
  BY <1>2, <1>3, <1>4, <1>5

(* The ends and the middle of the travel.                                  *)
LEMMA TravelEnds ==
  ASSUME NEW c, c.min \in UInt16, c.max \in UInt16, c.min < c.max
  PROVE  /\ Position(c.min, c) = - INT8_MAX
         /\ Position(c.max, c) = INT8_MAX
         /\ (c.max - c.min) % 2 = 0 => Position((c.min + c.max) \div 2, c) = 0
<1> DEFINE d == c.max - c.min
           e == 127 * d
<1>1. c.min \in Int /\ c.max \in Int
  BY Numbers
<1>2. d \in Int /\ d > 0 /\ e \in Nat
  BY <1>1
<1>3. e \div d = 127
  <2> HIDE DEF d
  <2>1. QED
    BY <1>2, Z3
<1>4. Position(c.min, c) = - INT8_MAX
  <2>1. Least(Clamp(c.min - c.min), d) = 0
    BY <1>1, <1>2 DEF Clamp, Least
  <2>2. Position(c.min, c) = Toward0(127 * ((2 * 0) - d), d)
    BY <1>2, <2>1 DEF Position, INT8_MAX
  <2>3. 127 * ((2 * 0) - d) = - e /\ - (- e) = e /\ ~ (- e >= 0)
    BY <1>2
  <2> HIDE DEF d, e
  <2>4. Toward0(- e, d) = - (e \div d)
    BY <2>3 DEF Toward0
  <2>5. QED
    BY <1>3, <2>2, <2>3, <2>4 DEF INT8_MAX
<1>5. Position(c.max, c) = INT8_MAX
  <2>1. Least(Clamp(c.max - c.min), d) = d
    BY <1>1, <1>2 DEF Clamp, Least
  <2>2. Position(c.max, c) = Toward0(127 * ((2 * d) - d), d)
    BY <1>2, <2>1 DEF Position, INT8_MAX
  <2>3. 127 * ((2 * d) - d) = e /\ e >= 0
    BY <1>2
  <2> HIDE DEF d, e
  <2>4. QED
    BY <1>3, <2>2, <2>3 DEF Toward0, INT8_MAX
<1>6. ASSUME (c.max - c.min) % 2 = 0
      PROVE  Position((c.min + c.max) \div 2, c) = 0
  <2> DEFINE n == ((c.min + c.max) \div 2) - c.min
  <2>1. n \in Nat /\ 2 * n = d /\ n < d
    BY <1>1, <1>2, <1>6
  <2>2. Least(Clamp(n), d) = n
    BY <2>1 DEF Clamp, Least
  <2>3. Position((c.min + c.max) \div 2, c) = Toward0(127 * ((2 * n) - d), d)
    BY <1>2, <2>2 DEF Position, INT8_MAX
  <2> HIDE DEF d, n
  <2>4. 127 * ((2 * n) - d) = 0
    BY <1>2, <2>1
  <2>5. 0 \div d = 0
    BY <1>2, Z3
  <2>6. QED
    BY <2>3, <2>4, <2>5 DEF Toward0
<1>7. QED
  BY <1>4, <1>5, <1>6

(* For any eighteen bytes, pushing a stick further never moves its axis    *)
(* back: also where the lower end wrapped round, or the ends coincide.     *)
THEOREM StickMonotone == Spec => []Monotone
<1>1. Init => StickInv
  BY StickInit
<1>2. StickInv => Monotone
  <2>1. \A u \in Raws : u \in Raw
    BY StickAssumption
  <2>2. QED
    BY <2>1, PositionOrder DEF StickInv, Monotone
<1>3. QED
  BY <1>1, <1>2, StickStep, PTL DEF Spec

(* For any eighteen bytes that leave the ends in order, the stick's travel *)
(* is the whole travel of the axis.                                        *)
THEOREM StickFullTravel == Spec => []FullTravel
<1>1. Init => StickInv
  BY StickInit
<1>2. StickInv => FullTravel
  BY TravelEnds DEF StickInv, FullTravel, Sound
<1>3. QED
  BY <1>1, <1>2, StickStep, PTL DEF Spec
=============================================================================

---------------------------- MODULE RosterLemmas -----------------------------
(***************************************************************************)
(* What Roster's Leave does to a sequence, for the proofs of the two       *)
(* arrays that implement it: DevList's, and the one of Shutdown.           *)
(***************************************************************************)
EXTENDS Integers, Sequences, SequenceTheorems, TLAPS

(* The definition of RemoveAt.                                             *)
Without(s, i) == SubSeq(s, 1, i - 1) \o SubSeq(s, i + 1, Len(s))

(* One element is taken out, those above it move one place down.           *)
LEMMA WithoutElements ==
  ASSUME NEW S, NEW s \in Seq(S), NEW i \in 1 .. Len(s)
  PROVE  /\ Without(s, i) \in Seq(S)
         /\ Len(Without(s, i)) = Len(s) - 1
         /\ \A k \in 1 .. i - 1 : Without(s, i)[k] = s[k]
         /\ \A k \in i .. Len(s) - 1 : Without(s, i)[k] = s[k + 1]
<1> DEFINE a == SubSeq(s, 1, i - 1)
           b == SubSeq(s, i + 1, Len(s))
<1>1. /\ Len(s) \in Nat /\ i \in Int
      /\ \A k \in 1 .. Len(s) : s[k] \in S
  OBVIOUS
<1>2. /\ a \in Seq(S) /\ Len(a) = i - 1
      /\ \A k \in 1 .. i - 1 : a[k] = s[k]
  <2>1. \A k \in 1 .. i - 1 : s[k] \in S
    BY <1>1
  <2>2. /\ a \in Seq(S)
        /\ Len(a) = IF 1 <= i - 1 THEN i - 1 - 1 + 1 ELSE 0
        /\ \A k \in 1 .. i - 1 - 1 + 1 : a[k] = s[1 + k - 1]
    BY <1>1, <2>1, SubSeqProperties
  <2>3. QED
    BY <1>1, <2>2
<1>3. /\ b \in Seq(S) /\ Len(b) = Len(s) - i
      /\ \A k \in 1 .. Len(s) - i : b[k] = s[k + i]
  <2>1. \A k \in i + 1 .. Len(s) : s[k] \in S
    BY <1>1
  <2>2. /\ b \in Seq(S)
        /\ Len(b) = IF i + 1 <= Len(s) THEN Len(s) - (i + 1) + 1 ELSE 0
        /\ \A k \in 1 .. Len(s) - (i + 1) + 1 : b[k] = s[i + 1 + k - 1]
    BY <1>1, <2>1, SubSeqProperties
  <2>3. QED
    BY <1>1, <2>2
<1> DEFINE r == a \o b
<1> HIDE DEF a, b
<1>4. /\ r \in Seq(S) /\ Len(r) = Len(a) + Len(b)
      /\ \A k \in 1 .. Len(a) + Len(b) :
           r[k] = IF k <= Len(a) THEN a[k] ELSE b[k - Len(a)]
  BY <1>2, <1>3, ConcatProperties
<1> HIDE DEF r
<1>5. ASSUME NEW k \in 1 .. i - 1
      PROVE  r[k] = s[k]
  <2>1. k \in 1 .. Len(a) + Len(b) /\ k <= Len(a)
    BY <1>1, <1>2, <1>3
  <2>2. QED
    BY <1>2, <1>4, <2>1
<1>6. ASSUME NEW k \in i .. Len(s) - 1
      PROVE  r[k] = s[k + 1]
  <2>1. r[k] = b[k - (i - 1)]
    <3>1. k \in 1 .. Len(a) + Len(b) /\ ~ (k <= Len(a)) /\ Len(a) = i - 1
      BY <1>1, <1>2, <1>3
    <3>2. QED
      BY <1>4, <3>1
  <2>2. b[k - (i - 1)] = s[k - (i - 1) + i]
    BY <1>1, <1>3
  <2>3. QED
    BY <1>1, <2>1, <2>2
<1>7. Len(r) = Len(s) - 1
  BY <1>1, <1>2, <1>3, <1>4
<1>8. Without(s, i) = r
  BY DEF Without, a, b, r
<1>9. QED
  BY <1>4, <1>5, <1>6, <1>7, <1>8, Zenon

LEMMA WithoutOne ==
  ASSUME NEW S, NEW s \in Seq(S), NEW i \in 1 .. Len(s)
  PROVE  Without(s, i) = [k \in 1 .. Len(s) - 1 |-> s[IF k < i THEN k ELSE k + 1]]
<1> DEFINE r == Without(s, i)
<1>1. /\ r \in Seq(S) /\ Len(r) = Len(s) - 1
      /\ \A k \in 1 .. i - 1 : r[k] = s[k]
      /\ \A k \in i .. Len(s) - 1 : r[k] = s[k + 1]
  BY WithoutElements
<1> HIDE DEF r
<1>2. r = [k \in 1 .. Len(s) - 1 |-> r[k]]
  BY <1>1
<1>3. \A k \in 1 .. Len(s) - 1 : r[k] = s[IF k < i THEN k ELSE k + 1]
  BY <1>1
<1>4. QED
  BY <1>2, <1>3 DEF r
=============================================================================

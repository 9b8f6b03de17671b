--------------------------- MODULE HandshakeProofs ---------------------------
(***************************************************************************)
(* Proofs about Handshake, for any length of the kernel's queue, any         *)
(* number of inputs, and any change of the player number.                    *)
(***************************************************************************)
EXTENDS Handshake, FiniteSetTheorems, TLAPS

(* After the drain, and before the polling. *)
SettingUp == pc \in {"write", "read"} /\ step >= 2

(* The last subcommand of the script that was written. *)
Written == IF pc = "read" THEN step ELSE step - 1

(* The reports in the order of the reads that return them, those that will   *)
(* included: the k-th is the answer to subcommand k, or waits its turn.      *)
Item(k) == IF k < step THEN answer[k] ELSE inbox[k - step + 1]

(* How far they are known.  The last subcommand wakes the Joy-Con, and of    *)
(* the reports that come then only the first will be an answer.              *)
Top == IF mode = Simple THEN step - 1 + Len(inbox) ELSE 5

InputsTo(n) == {k \in 2 .. n : Item(k) = Input(Simple)}

(* What the read for subcommand k may return. *)
Fits(k, r) ==
  r = Input(Simple) \/ \E t \in 2 .. k : k - t <= presses /\ r = Reply(Script[t])

(* What the Joy-Con has still to execute is the end of what was written. *)
SentInOrder ==
  /\ Len(sent) <= Written - 1
  /\ \A m \in 1 .. Len(sent) : sent[m] = Script[Written - Len(sent) + m]

(* Each subcommand in one of the channels beyond the one whose answer is     *)
(* awaited was put there by an input.                                        *)
NoneToSpare ==
  IF mode = Simple
  THEN Len(inbox) + Len(sent) <= presses + Written - step + 1
  ELSE step = 5 /\ pc = "read" /\ inbox # <<>> /\ sent = <<>>

Aligned ==
  SettingUp =>
    /\ SentInOrder
    /\ NoneToSpare
    /\ \A k \in 2 .. Top : Fits(k, Item(k))
    /\ Cardinality(InputsTo(Top)) <= presses

(* Until a read has returned it there is no answer, and the number stays     *)
(* as it is until the polling.                                               *)
Unread ==
  pc \in {"write", "read", "drain"} =>
    /\ relights = 0 /\ (pc = "drain" => step = 1)
    /\ \A s \in 2 .. 5 : s >= step => answer[s] = None

(* The buffer is not written so far before the calibration is read. *)
Kept == step <= 3 => tail \in Leftovers

(* The subcommands rubusd ever sends. *)
Sendable ==
  {Sub("mode", Full), Sub("mode", Simple), Sub("spi", 0)}
    \cup {Sub("lights", n) : n \in Numbers \cup {15}}

TypeInv == TypeOK /\ sent \in Seq(Sendable)

SessionInv == TypeInv /\ Aligned /\ Unread /\ Kept /\ Slip /\ Calibrated
-----------------------------------------------------------------------------
(* Types *)

LEMMA ScriptSendable ==
  ASSUME number \in Numbers
  PROVE  \A s \in Steps : Script[s] \in Sendable
BY DEF Steps, Script, Sendable

LEMMA SendableTypes ==
  /\ Sendable \subseteq Subs
  /\ \A sub \in Sendable :
       /\ sub.sc = "mode" => sub.arg \in {Full, Simple}
       /\ sub.sc = "lights" => sub.arg \in 0 .. 15
BY SessionAssumption DEF Sendable, Subs, Sub, Full, Simple

LEMMA ReportTypes ==
  /\ Input(Simple) \in Reports /\ Input(Full) \in Reports
  /\ \A sub \in Subs : Reply(sub) \in Reports
BY DEF Reports, Input, Reply

(* Subcommands and reports are put at the end of a channel, and taken from   *)
(* its head.                                                                 *)
LEMMA SentTypes ==
  ASSUME TypeInv
  PROVE  /\ \A sub \in Sendable : Append(sent, sub) \in Seq(Sendable)
         /\ sent # <<>> => Head(sent) \in Sendable /\ Tail(sent) \in Seq(Sendable)
BY DEF TypeInv

LEMMA InboxTypes ==
  ASSUME TypeOK
  PROVE  /\ inbox # <<>> =>
              /\ Head(inbox) \in Reports
              /\ Tail(inbox) \in Seq(Reports) /\ Len(Tail(inbox)) <= InboxLimit
         /\ \A r \in Reports : Queued(r) \in Seq(Reports) /\ Len(Queued(r)) <= InboxLimit
<1>1. inbox \in Seq(Reports) /\ Len(inbox) <= InboxLimit /\ InboxLimit \in Nat
  BY SessionAssumption DEF TypeOK
<1>2. ASSUME inbox # <<>>
      PROVE  /\ Head(inbox) \in Reports
             /\ Tail(inbox) \in Seq(Reports) /\ Len(Tail(inbox)) <= InboxLimit
  BY <1>1, <1>2
<1>3. ASSUME NEW r \in Reports
      PROVE  Queued(r) \in Seq(Reports) /\ Len(Queued(r)) <= InboxLimit
  BY <1>1 DEF Queued
<1>4. QED
  BY <1>2, <1>3

LEMMA TypeStep == TypeInv /\ [Next]_vars => TypeInv'
<1>1. SUFFICES ASSUME TypeInv, [Next]_vars
               PROVE  TypeInv'
  OBVIOUS
<1>2. TypeOK /\ sent \in Seq(Subs)
  BY <1>1 DEF TypeInv, TypeOK
<1>3. \A q \in Seq(Sendable) : q \in Seq(Subs)
  BY SendableTypes
<1>4. CASE Write
  <2>1. Script[step] \in Sendable
    BY <1>2, ScriptSendable DEF TypeOK
  <2>2. sent' \in Seq(Sendable)
    BY <1>1, <1>4, <2>1, SentTypes DEF Write, TypeInv
  <2>3. pc' \in Places
    BY <1>4 DEF Write, Failure, Places
  <2>4. QED
    BY <1>2, <1>3, <1>4, <2>2, <2>3 DEF Write, TypeInv, TypeOK, pad
<1>5. CASE Read
  <2>1. pc' \in Places /\ step' \in Steps
    BY <1>2, <1>5 DEF Read, NextPlace, NextStep, Failure, Places, TypeOK, Steps
  <2>2. inbox' \in Seq(Reports) /\ Len(inbox') <= InboxLimit
    BY <1>2, <1>5, InboxTypes DEF Read, TypeOK
  <2>3. answer' \in [Steps -> Reports \cup {None}]
    BY <1>2, <1>5, InboxTypes DEF Read, TypeOK
  <2>4. tail' \in Reports \cup Leftovers
    BY <1>2, <1>5, InboxTypes DEF Read, TailAfter, TypeOK
  <2>5. QED
    BY <1>1, <1>2, <1>5, <2>1, <2>2, <2>3, <2>4 DEF Read, TypeInv, TypeOK, pad
<1>6. CASE Drain
  BY <1>1, <1>2, <1>6, InboxTypes DEF Drain, TypeInv, TypeOK, program, pad
<1>7. CASE Drained
  <2>1. step' \in Steps /\ pc' \in Places /\ presses' \in 0 .. MaxPresses
    BY <1>7, SessionAssumption DEF Drained, Steps, Places
  <2>2. QED
    BY <1>1, <1>2, <1>7, <2>1 DEF Drained, TypeInv, TypeOK, pad
<1>8. CASE Poll
  <2>1. inbox' \in Seq(Reports) /\ Len(inbox') <= InboxLimit
    BY <1>2, <1>8, InboxTypes DEF Poll, TypeOK
  <2>2. QED
    BY <1>1, <1>2, <1>8, <2>1 DEF Poll, TypeInv, TypeOK, pad
<1>9. CASE GiveUp
  BY <1>1, <1>2, <1>9 DEF GiveUp, TypeInv, TypeOK, pad, Places
<1>10. CASE Relight
  <2>1. number' \in Numbers
    BY <1>10 DEF Relight, Renumber
  <2>2. sent' \in Seq(Sendable)
    BY <1>1, <1>10, <2>1, SentTypes DEF Relight, Sendable
  <2>3. relights' \in 0 .. MaxRelights
    BY <1>2, <1>10, SessionAssumption DEF Relight, Renumber, TypeOK
  <2>4. inbox' \in Seq(Reports) /\ Len(inbox') <= InboxLimit
    BY <1>2, <1>10, InboxTypes DEF Relight, TypeOK
  <2>5. pc' \in Places
    BY <1>10 DEF Relight, Places
  <2>6. QED
    BY <1>2, <1>3, <1>10, <2>1, <2>2, <2>3, <2>4, <2>5 DEF Relight, TypeInv, TypeOK, pad
<1>11. CASE ReadRelit
  <2>1. inbox' \in Seq(Reports) /\ Len(inbox') <= InboxLimit
    BY <1>2, <1>11, InboxTypes DEF ReadRelit, TypeOK
  <2>2. QED
    BY <1>1, <1>2, <1>11, <2>1 DEF ReadRelit, TypeInv, TypeOK, pad, Places
<1>12. CASE Execute
  <2>1. Head(sent) \in Sendable /\ sent' \in Seq(Sendable)
    BY <1>1, <1>12, SentTypes DEF Execute
  <2>2. mode' \in {Full, Simple} /\ lamps' \in 0 .. 15
    BY <1>2, <1>12, <2>1, SendableTypes DEF Execute, TypeOK
  <2>3. inbox' \in Seq(Reports) /\ Len(inbox') <= InboxLimit
    BY <1>2, <1>12, <2>1, SendableTypes, ReportTypes, InboxTypes DEF Execute
  <2>4. QED
    BY <1>2, <1>3, <1>12, <2>1, <2>2, <2>3 DEF Execute, TypeInv, TypeOK, program
<1>13. CASE Press
  <2>1. inbox' \in Seq(Reports) /\ Len(inbox') <= InboxLimit
    BY <1>2, <1>13, ReportTypes, InboxTypes DEF Press
  <2>2. presses' \in 0 .. MaxPresses
    BY <1>2, <1>13, SessionAssumption DEF Press, TypeOK
  <2>3. QED
    BY <1>1, <1>2, <1>13, <2>1, <2>2 DEF Press, TypeInv, TypeOK, program, pad
<1>14. CASE Report
  <2>1. inbox' \in Seq(Reports) /\ Len(inbox') <= InboxLimit
    BY <1>2, <1>14, ReportTypes, InboxTypes DEF Report
  <2>2. QED
    BY <1>1, <1>2, <1>14, <2>1 DEF Report, TypeInv, TypeOK, program, pad
<1>15. CASE RelightFails
  <2>1. number' \in Numbers /\ relights' \in 0 .. MaxRelights
    BY <1>2, <1>15, SessionAssumption DEF RelightFails, Renumber, TypeOK
  <2>2. QED
    BY <1>1, <1>2, <1>15, <2>1 DEF RelightFails, TypeInv, TypeOK, pad
<1>16. CASE Disconnect \/ UNCHANGED vars
  BY <1>1, <1>2, <1>16 DEF Disconnect, TypeInv, TypeOK, vars, program, pad
<1>17. QED
  BY <1>1, <1>4, <1>5, <1>6, <1>7, <1>8, <1>9, <1>10, <1>11, <1>12, <1>13, <1>14, <1>15,
     <1>16 DEF Next, Program

LEMMA InitTypes == Init => TypeInv
<1>1. <<>> \in Seq(Sendable) /\ <<>> \in Seq(Subs) /\ <<>> \in Seq(Reports) /\ Len(<<>>) = 0
  OBVIOUS
<1>2. Init => /\ 0 \in 0 .. MaxPresses /\ 0 \in 0 .. MaxRelights
              /\ 0 <= InboxLimit
  BY SessionAssumption
<1>3. QED
  BY <1>1, <1>2 DEF Init, TypeInv, TypeOK, Places, Steps

(* Every variable of a session keeps its type: reports and subcommands are   *)
(* of the known kinds and the queue stays within its length.                 *)
THEOREM HandshakeTypeCorrect == Spec => []TypeOK
<1>1. Spec => []TypeInv
  BY InitTypes, TypeStep, PTL DEF Spec
<1>2. QED
  BY <1>1, PTL DEF TypeInv

-----------------------------------------------------------------------------
(* The order of the two channels *)

LEMMA KindsDiffer ==
  /\ \A sub : Reply(sub) # Input(Simple)
  /\ Input(Full) # Input(Simple)
BY DEF Input, Reply, Full, Simple

LEMMA InputsFinite ==
  ASSUME NEW n \in Int
  PROVE  IsFiniteSet(InputsTo(n)) /\ Cardinality(InputsTo(n)) \in Nat
<1>1. IsFiniteSet(2 .. n)
  BY FS_Interval
<1>2. QED
  BY <1>1, FS_Subset, FS_CardinalityType DEF InputsTo

LEMMA PartFinite ==
  ASSUME NEW n \in Int, NEW T \in SUBSET (2 .. n)
  PROVE  Cardinality(T) \in Nat
<1>1. IsFiniteSet(2 .. n)
  BY FS_Interval
<1>2. QED
  BY <1>1, FS_Subset, FS_CardinalityType

LEMMA PressesFinite == Cardinality(Presses) \in Nat
<1>1. 5 \in Int /\ Presses \in SUBSET (2 .. 5)
  BY DEF Presses, After
<1>2. \A n \in Int : \A T \in SUBSET (2 .. n) : Cardinality(T) \in Nat
  BY PartFinite, Zenon
<1>3. QED
  BY <1>1, <1>2, Zenon

(* Numbers, for the provers: what TypeInv says of the counters. *)
LEMMA Counters ==
  ASSUME TypeInv
  PROVE  /\ step \in 1 .. 5 /\ presses \in Nat /\ relights \in Nat
         /\ Len(inbox) \in Nat /\ Len(sent) \in Nat
         /\ inbox \in Seq(Reports) /\ sent \in Seq(Sendable)
         /\ Written \in Int /\ Top \in Int
BY SessionAssumption DEF TypeInv, TypeOK, Steps, Written, Top

(* A report joins the queue during the set-up. *)
LEMMA Enqueue ==
  ASSUME TypeInv, TypeInv', SettingUp, Aligned, mode = Simple, mode' = Simple,
         step' = step, answer' = answer, number' = number, presses <= presses',
         NEW r \in Reports, inbox' = Queued(r),
         NEW last \in Nat, last = step + Len(inbox), Fits(last, r)',
         r = Input(Simple) => presses' = presses + 1
  PROVE  /\ \A k \in 2 .. Top' : Fits(k, Item(k))'
         /\ Cardinality(InputsTo(Top))' <= presses'
<1>1. step \in 2 .. 5 /\ presses \in Nat /\ presses' \in Nat /\ inbox \in Seq(Reports)
      /\ Len(inbox) \in Nat /\ Top = step - 1 + Len(inbox)
  BY Counters, SessionAssumption DEF SettingUp, Top, TypeInv, TypeOK
<1>2. PICK top \in Nat : top = Top
  BY <1>1
<1>3. \A k \in 2 .. top : Item(k)' = Item(k)
  BY <1>1, <1>2 DEF Item, Queued
<1>4. \A k \in 2 .. top : Fits(k, Item(k))'
  <2>1. SUFFICES ASSUME NEW k \in 2 .. top
                 PROVE  Fits(k, Item(k))'
    OBVIOUS
  <2>2. k \in Nat /\ Item(k)' = Item(k) /\ Fits(k, Item(k))
    BY <1>2, <1>3 DEF Aligned
  <2>3. Script' = Script
    BY DEF Script
  <2>4. QED
    BY <1>1, <2>2, <2>3 DEF Fits
<1>5. Cardinality(InputsTo(top)) <= presses
  BY <1>2 DEF Aligned
<1>6. IsFiniteSet(InputsTo(top)) /\ Cardinality(InputsTo(top)) \in Nat
  BY InputsFinite
<1>7. CASE Len(inbox) >= InboxLimit
  <2>1. Top' = top
    BY <1>1, <1>2, <1>7, SessionAssumption DEF Queued, Top
  <2>2. InputsTo(Top)' = InputsTo(top)
    BY <1>3, <2>1 DEF InputsTo
  <2>3. QED
    BY <1>1, <1>4, <1>5, <1>6, <2>1, <2>2
<1>8. CASE Len(inbox) < InboxLimit
  <2>1. inbox' = Append(inbox, r) /\ Top' = top + 1 /\ top + 1 = step + Len(inbox)
    <3>1. inbox' = Append(inbox, r) /\ Len(inbox') = Len(inbox) + 1
      BY <1>1, <1>8 DEF Queued
    <3>2. top = step - 1 + Len(inbox)
      BY <1>1, <1>2
    <3>3. Top' = step - 1 + Len(inbox')
      BY DEF Top
    <3>4. QED
      BY <1>1, <3>1, <3>2, <3>3
  <2>2. Item(top + 1)' = r
    BY <1>1, <2>1 DEF Item
  <2>3. \A k \in 2 .. Top' : k \in 2 .. top \/ k = top + 1
    BY <2>1
  <2>4. Fits(top + 1, Item(top + 1))'
    <3>1. top + 1 = last
      BY <2>1
    <3>2. QED
      BY <2>2, <3>1 DEF Fits
  <2>5. \A k \in 2 .. Top' : Fits(k, Item(k))'
    BY <1>4, <2>3, <2>4
  <2>6. CASE r = Input(Simple)
    <3>1. InputsTo(Top)' \subseteq InputsTo(top) \cup {top + 1}
      BY <1>3, <2>3 DEF InputsTo
    <3>2. IsFiniteSet(InputsTo(top) \cup {top + 1})
          /\ Cardinality(InputsTo(top) \cup {top + 1}) <= Cardinality(InputsTo(top)) + 1
      <4>1. /\ IsFiniteSet(InputsTo(top) \cup {top + 1})
            /\ Cardinality(InputsTo(top) \cup {top + 1})
                 \in {Cardinality(InputsTo(top)), Cardinality(InputsTo(top)) + 1}
        BY <1>6, FS_AddElement, Zenon
      <4>2. QED
        BY <1>6, <4>1
    <3>3. Cardinality(InputsTo(Top)') <= Cardinality(InputsTo(top) \cup {top + 1})
          /\ Cardinality(InputsTo(Top)') \in Nat
          /\ Cardinality(InputsTo(top) \cup {top + 1}) \in Nat
      BY <3>1, <3>2, FS_Subset, FS_CardinalityType
    <3>4. Cardinality(InputsTo(Top)') <= presses'
      BY <1>1, <1>5, <1>6, <2>6, <3>2, <3>3
    <3>5. QED
      BY <2>5, <3>4
  <2>7. CASE r # Input(Simple)
    <3>1. InputsTo(Top)' \subseteq InputsTo(top)
      <4>1. ASSUME NEW k \in 2 .. Top', Item(k)' = Input(Simple)
            PROVE  k \in 2 .. top /\ Item(k) = Input(Simple)
        BY <1>3, <2>2, <2>3, <2>7, <4>1
      <4>2. QED
        BY <4>1 DEF InputsTo
    <3>2. Cardinality(InputsTo(Top)') <= Cardinality(InputsTo(top))
          /\ Cardinality(InputsTo(Top)') \in Nat
      BY <1>6, <3>1, FS_Subset, FS_CardinalityType
    <3>3. Cardinality(InputsTo(Top)') <= presses'
      BY <1>1, <1>5, <1>6, <3>2
    <3>4. QED
      BY <2>5, <3>3
  <2>8. QED
    BY <2>6, <2>7
<1>9. QED
  BY <1>1, <1>7, <1>8, SessionAssumption

LEMMA UnreadStep == TypeInv /\ Unread /\ [Next]_vars => Unread'
<1>1. SUFFICES ASSUME TypeInv, Unread, [Next]_vars, pc' \in {"write", "read", "drain"}
               PROVE  /\ relights' = 0 /\ (pc' = "drain" => step' = 1)
                      /\ \A s \in 2 .. 5 : s >= step' => answer'[s] = None
  BY DEF Unread
<1>2. step \in 1 .. 5 /\ answer \in [Steps -> Reports \cup {None}]
  BY <1>1, Counters DEF TypeInv, TypeOK
<1>3. CASE Write
  BY <1>1, <1>3 DEF Unread, Write, Failure
<1>4. CASE Read
  <2>1. inbox # <<>> /\ step # 5 /\ relights' = 0 /\ pc = "read"
    BY <1>1, <1>4 DEF Unread, Read, NextPlace, Failure
  <2>2. step' = (IF step = 1 THEN step ELSE step + 1)
        /\ answer' = [answer EXCEPT ![step] = Head(inbox)]
    BY <1>4, <2>1 DEF Read, NextStep
  <2>3. \A s \in 2 .. 5 : s >= step => answer[s] = None
    BY <1>1, <2>1 DEF Unread
  <2>4. \A s \in 2 .. 5 : s >= step' => s \in Steps /\ s # step /\ s >= step
    BY <1>2, <2>1, <2>2 DEF Steps
  <2>5. pc' = "drain" => step' = 1
    BY <1>2, <1>4, <2>1, <2>2 DEF Read, NextPlace
  <2>6. QED
    BY <1>2, <2>1, <2>2, <2>3, <2>4, <2>5
<1>5. CASE Drain
  BY <1>1, <1>5 DEF Unread, Drain, program
<1>6. CASE Drained
  <2>1. answer' = answer /\ relights' = relights /\ pc = "drain" /\ step' = 2
    BY <1>6 DEF Drained
  <2>2. step = 1 /\ pc' = "write"
    BY <1>1, <1>6, <2>1 DEF Unread, Drained
  <2>3. QED
    BY <1>1, <2>1, <2>2 DEF Unread
<1>7. CASE Poll \/ GiveUp \/ Relight \/ RelightFails \/ ReadRelit
  BY <1>1, <1>7 DEF Poll, GiveUp, Relight, RelightFails, Renumber, ReadRelit
<1>8. CASE Execute \/ Press \/ Report \/ Disconnect \/ UNCHANGED vars
  BY <1>1, <1>8 DEF Unread, Execute, Press, Report, Disconnect, vars, program
<1>9. QED
  BY <1>1, <1>3, <1>4, <1>5, <1>6, <1>7, <1>8 DEF Next, Program

(* A subcommand is written. *)
LEMMA AlignedWrite == TypeInv /\ TypeInv' /\ Aligned /\ Write => Aligned'
<1>1. SUFFICES ASSUME TypeInv, TypeInv', Aligned, Write, SettingUp'
               PROVE  Aligned'
  BY DEF Aligned
<1>2. /\ pc = "write" /\ pc' = "read" /\ step' = step /\ step \in 2 .. 5
      /\ sent' = Append(sent, Script[step])
      /\ UNCHANGED <<answer, inbox, mode, presses, number, relights>>
  BY <1>1, Counters DEF Write, SettingUp, Failure, pad
<1>3. SettingUp /\ mode = Simple /\ Script' = Script
  BY <1>1, <1>2 DEF SettingUp, Aligned, NoneToSpare, Script
<1>4. Written = step - 1 /\ Written' = step
  BY <1>2 DEF Written
<1>5. Len(sent) \in Nat /\ Len(inbox) \in Nat /\ presses \in Nat /\ sent \in Seq(Sendable)
  BY <1>1, Counters
<1>6. SentInOrder'
  <2>1. Len(sent') = Len(sent) + 1 /\ Len(sent) <= Written - 1
    BY <1>1, <1>2, <1>3, <1>5 DEF Aligned, SentInOrder
  <2>2. ASSUME NEW m \in 1 .. Len(sent')
        PROVE  sent'[m] = Script[step - Len(sent') + m]
    <3>1. CASE m \in 1 .. Len(sent)
      <4>1. sent'[m] = sent[m]
        BY <1>2, <1>5, <3>1
      <4>2. sent[m] = Script[Written - Len(sent) + m]
        BY <1>1, <1>3, <3>1 DEF Aligned, SentInOrder
      <4>3. Written - Len(sent) + m = step - Len(sent') + m
        BY <1>2, <1>4, <1>5, <2>1, <3>1
      <4>4. QED
        BY <4>1, <4>2, <4>3
    <3>2. CASE m = Len(sent) + 1
      <4>1. sent'[m] = Script[step] /\ step - Len(sent') + m = step
        BY <1>2, <1>5, <2>1, <3>2
      <4>2. QED
        BY <4>1
    <3>3. QED
      BY <1>5, <2>1, <3>1, <3>2
  <2>3. QED
    BY <1>2, <1>3, <1>4, <1>5, <2>1, <2>2 DEF SentInOrder
<1>7. NoneToSpare'
  <2>1. Len(sent') = Len(sent) + 1
    BY <1>2, <1>5
  <2>2. QED
    BY <1>1, <1>2, <1>3, <1>4, <1>5, <2>1 DEF Aligned, NoneToSpare
<1>8. Top' = Top /\ \A k : Item(k)' = Item(k)
  BY <1>2 DEF Top, Item
<1>9. \A k \in 2 .. Top' : Fits(k, Item(k))'
  <2>1. \A k \in 2 .. Top : Fits(k, Item(k))
    BY <1>1, <1>3 DEF Aligned
  <2>2. QED
    BY <1>2, <1>3, <1>8, <2>1 DEF Fits
<1>10. InputsTo(Top)' = InputsTo(Top)
  BY <1>8 DEF InputsTo
<1>11. Cardinality(InputsTo(Top)') <= presses'
  BY <1>1, <1>2, <1>3, <1>10 DEF Aligned
<1>12. QED
  BY <1>6, <1>7, <1>9, <1>11 DEF Aligned

(* A report is read. *)
LEMMA AlignedRead == TypeInv /\ TypeInv' /\ Aligned /\ Read => Aligned'
<1>1. SUFFICES ASSUME TypeInv, TypeInv', Aligned, Read, SettingUp'
               PROVE  Aligned'
  BY DEF Aligned
<1>2. /\ pc = "read" /\ pc' = "write" /\ step' = step + 1 /\ step \in 2 .. 4
      /\ inbox # <<>> /\ inbox' = Tail(inbox)
      /\ answer' = [answer EXCEPT ![step] = Head(inbox)]
      /\ UNCHANGED <<sent, mode, presses, number, relights>>
  BY <1>1, Counters DEF Read, SettingUp, Failure, NextPlace, NextStep, pad
<1>3. SettingUp /\ mode = Simple /\ Script' = Script
  BY <1>1, <1>2 DEF SettingUp, Aligned, NoneToSpare, Script
<1>4. Written = step /\ Written' = step
  BY <1>2 DEF Written
<1>5. Len(sent) \in Nat /\ Len(inbox) \in Nat \ {0} /\ presses \in Nat /\ inbox \in Seq(Reports)
      /\ answer \in [Steps -> Reports \cup {None}] /\ Len(inbox') = Len(inbox) - 1
  BY <1>1, <1>2, Counters DEF TypeInv, TypeOK
<1>6. SentInOrder'
  BY <1>1, <1>2, <1>3, <1>4 DEF Aligned, SentInOrder
<1>7. NoneToSpare'
  BY <1>1, <1>2, <1>3, <1>4, <1>5 DEF Aligned, NoneToSpare
<1>8. Top' = Top /\ Top \in Nat /\ \A k \in 2 .. Top : Item(k)' = Item(k)
  <2>1. Top' = Top /\ Top = step - 1 + Len(inbox)
    BY <1>2, <1>3, <1>5 DEF Top
  <2>2. ASSUME NEW k \in 2 .. Top
        PROVE  Item(k)' = Item(k)
    <3>1. CASE k < step
      BY <1>2, <1>5, <3>1 DEF Item, Steps
    <3>2. CASE k = step
      BY <1>2, <1>5, <3>2 DEF Item, Steps
    <3>3. CASE k > step
      <4>1. k - step \in 1 .. Len(Tail(inbox)) /\ ~ (k < step) /\ ~ (k < step + 1)
        BY <1>2, <1>5, <2>1, <3>3
      <4>2. Tail(inbox)[k - step] = inbox[k - step + 1]
        BY <1>5, <4>1
      <4>3. k - step' + 1 = k - step
        BY <1>2
      <4>4. QED
        BY <1>2, <4>1, <4>2, <4>3 DEF Item
    <3>4. QED
      BY <1>2, <3>1, <3>2, <3>3
  <2>3. QED
    BY <1>2, <1>5, <2>1, <2>2
<1>9. \A k \in 2 .. Top' : Fits(k, Item(k))'
  <2>1. \A k \in 2 .. Top : Fits(k, Item(k))
    BY <1>1, <1>3 DEF Aligned
  <2>2. QED
    BY <1>2, <1>3, <1>8, <2>1 DEF Fits
<1>10. InputsTo(Top)' = InputsTo(Top)
  BY <1>8 DEF InputsTo
<1>11. Cardinality(InputsTo(Top)') <= presses'
  BY <1>1, <1>2, <1>3, <1>10 DEF Aligned
<1>12. QED
  BY <1>6, <1>7, <1>9, <1>11 DEF Aligned

(* The Joy-Con executes a subcommand and answers. *)
LEMMA AlignedExecute == TypeInv /\ TypeInv' /\ Aligned /\ Execute => Aligned'
<1>1. SUFFICES ASSUME TypeInv, TypeInv', Aligned, Execute, SettingUp'
               PROVE  Aligned'
  BY DEF Aligned
<1>2. /\ sent # <<>> /\ sent' = Tail(sent) /\ inbox' = Queued(Reply(Head(sent)))
      /\ mode' = IF Head(sent).sc = "mode" THEN Head(sent).arg ELSE mode
      /\ UNCHANGED <<pc, step, answer, number, presses, relights>>
  BY <1>1 DEF Execute, program
<1>3. SettingUp /\ mode = Simple /\ step \in 2 .. 5 /\ Script' = Script /\ Written' = Written
  BY <1>1, <1>2, Counters DEF SettingUp, Aligned, NoneToSpare, Script, Written
<1>4. /\ presses \in Nat /\ inbox \in Seq(Reports) /\ sent \in Seq(Sendable)
      /\ Len(inbox) \in Nat /\ Len(sent) \in Nat \ {0} /\ Len(sent') = Len(sent) - 1
      /\ Written \in Int /\ Written <= step
  BY <1>1, <1>2, Counters DEF Written
<1>5. SentInOrder /\ Len(inbox) + Len(sent) <= presses + Written - step + 1
  BY <1>1, <1>3 DEF Aligned, NoneToSpare
<1>6. PICK t \in 2 .. 5 : /\ t = Written - Len(sent) + 1 /\ Head(sent) = Script[t]
                          /\ t <= step
  <2>1. Written - Len(sent) + 1 \in 2 .. 5 /\ Written - Len(sent) + 1 <= step
    <3>1. Len(sent) <= Written - 1
      BY <1>5 DEF SentInOrder
    <3>2. \A n, w, k \in Int : n >= 1 /\ n <= w - 1 /\ w <= k /\ k <= 5
                              => w - n + 1 \in 2 .. 5 /\ w - n + 1 <= k
      OBVIOUS
    <3>3. Len(sent) \in Int /\ Len(sent) >= 1 /\ step \in Int /\ step <= 5
      BY <1>3, <1>4
    <3>4. QED
      BY <1>4, <3>1, <3>2, <3>3
  <2>2. Head(sent) = sent[1] /\ 1 \in 1 .. Len(sent)
    BY <1>4
  <2>3. sent[1] = Script[Written - Len(sent) + 1]
    BY <1>5, <2>2 DEF SentInOrder
  <2>4. QED
    BY <2>1, <2>2, <2>3
<1>7. SentInOrder'
  <2>1. ASSUME NEW m \in 1 .. Len(sent')
        PROVE  sent'[m] = Script[Written - Len(sent') + m]
    <3>1. m + 1 \in 1 .. Len(sent) /\ sent'[m] = sent[m + 1]
      BY <1>2, <1>4
    <3>2. sent[m + 1] = Script[Written - Len(sent) + (m + 1)]
      BY <1>5, <3>1 DEF SentInOrder
    <3>3. Written - Len(sent) + (m + 1) = Written - Len(sent') + m
      BY <1>3, <1>4
    <3>4. QED
      BY <3>1, <3>2, <3>3
  <2>2. Len(sent') <= Written - 1
    BY <1>3, <1>4, <1>5 DEF SentInOrder
  <2>3. QED
    BY <1>3, <2>1, <2>2 DEF SentInOrder
<1>8. PICK r \in Reports : r = Reply(Script[t])
  <2>1. Script[t] \in Subs
    BY <1>1, ScriptSendable, SendableTypes DEF TypeInv, TypeOK, Steps
  <2>2. QED
    BY <2>1, ReportTypes
<1>9. r # Input(Simple) /\ inbox' = Queued(r)
  BY <1>2, <1>6, <1>8, KindsDiffer
<1>10. CASE t # 5
  <2>1. mode' = Simple
    BY <1>2, <1>3, <1>6, <1>10 DEF Script, Sub
  <2>2. PICK last \in Nat : last = step + Len(inbox)
    BY <1>3, <1>4
  <2>3. last - t <= presses /\ t \in 2 .. last
    BY <1>3, <1>4, <1>5, <1>6, <2>2
  <2>4. Fits(last, r)'
    BY <1>2, <1>3, <1>8, <2>3 DEF Fits
  <2>5. (\A k \in 2 .. Top' : Fits(k, Item(k))') /\ Cardinality(InputsTo(Top))' <= presses'
    <3>1. presses <= presses'
      BY <1>2, <1>4
    <3>2. QED
      BY <1>1, <1>2, <1>3, <1>9, <2>1, <2>2, <2>4, <3>1, Enqueue
  <2>6. NoneToSpare'
    <3>1. Len(inbox') \in Nat /\ Len(inbox') <= Len(inbox) + 1
      BY <1>4, <1>9 DEF Queued
    <3>2. Len(inbox') + Len(sent') <= presses' + Written' - step' + 1
      BY <1>2, <1>3, <1>4, <1>5, <3>1
    <3>3. QED
      BY <2>1, <3>2 DEF NoneToSpare
  <2>7. QED
    BY <1>7, <2>5, <2>6 DEF Aligned
<1>11. CASE t = 5
  <2>1. mode' = Full /\ Full # Simple
    BY <1>2, <1>6, <1>11 DEF Script, Sub, Full, Simple
  <2>2. step = 5 /\ pc = "read" /\ sent' = <<>>
    <3>1. step = 5 /\ Written = 5 /\ Len(sent) = 1
      BY <1>3, <1>4, <1>6, <1>11
    <3>2. pc = "read"
      BY <3>1 DEF Written
    <3>3. QED
      BY <1>2, <1>4, <3>1, <3>2
  <2>3. inbox' # <<>> /\ inbox'[1] = IF inbox = <<>> THEN r ELSE inbox[1]
    BY <1>4, <1>9, SessionAssumption DEF Queued
  <2>4. NoneToSpare' /\ Top' = 5
    BY <1>2, <2>1, <2>2, <2>3 DEF NoneToSpare, Top
  <2>5. /\ \A k \in 2 .. 4 : k \in 2 .. Top /\ Item(k)' = Item(k)
        /\ inbox # <<>> => 5 \in 2 .. Top /\ Item(5)' = Item(5)
        /\ inbox = <<>> => Item(5)' = r
    BY <1>2, <1>3, <1>4, <2>2, <2>3 DEF Item, Top
  <2>6. ASSUME NEW k \in 2 .. 5
        PROVE  Fits(k, Item(k))'
    <3>1. CASE k \in 2 .. Top /\ Item(k)' = Item(k)
      <4>1. Fits(k, Item(k))
        BY <1>1, <1>3, <3>1 DEF Aligned
      <4>2. QED
        BY <1>2, <1>3, <3>1, <4>1 DEF Fits
    <3>2. CASE k = 5 /\ Item(5)' = r
      <4>1. 5 \in 2 .. 5 /\ 5 - 5 <= presses
        BY <1>4
      <4>2. QED
        BY <1>2, <1>3, <1>8, <1>11, <3>2, <4>1 DEF Fits
    <3>3. QED
      <4>1. k \in 2 .. 4 \/ k = 5
        OBVIOUS
      <4>2. QED
        BY <2>5, <3>1, <3>2, <4>1
  <2>7. InputsTo(Top)' \subseteq InputsTo(Top)
    <3>1. ASSUME NEW k \in 2 .. 5, Item(k)' = Input(Simple)
          PROVE  k \in 2 .. Top /\ Item(k) = Input(Simple)
      <4>1. k \in 2 .. 4 \/ k = 5
        OBVIOUS
      <4>2. QED
        BY <1>9, <2>5, <3>1, <4>1
    <3>2. QED
      BY <2>4, <3>1 DEF InputsTo
  <2>8. Cardinality(InputsTo(Top)') <= presses'
    <3>1. IsFiniteSet(InputsTo(Top)) /\ Cardinality(InputsTo(Top)) \in Nat
      <4>1. PICK top \in Int : top = Top
        BY <1>1, Counters
      <4>2. QED
        BY <4>1, InputsFinite
    <3>2. Cardinality(InputsTo(Top)') <= Cardinality(InputsTo(Top))
          /\ Cardinality(InputsTo(Top)') \in Nat
      BY <2>7, <3>1, FS_Subset, FS_CardinalityType
    <3>3. Cardinality(InputsTo(Top)) <= presses
      BY <1>1, <1>3 DEF Aligned
    <3>4. QED
      BY <1>2, <1>4, <3>1, <3>2, <3>3
  <2>9. QED
    BY <1>7, <2>4, <2>6, <2>8 DEF Aligned
<1>12. QED
  BY <1>10, <1>11

(* An input is reported. *)
LEMMA AlignedPress == TypeInv /\ TypeInv' /\ Aligned /\ Press => Aligned'
<1>1. SUFFICES ASSUME TypeInv, TypeInv', Aligned, Press, SettingUp'
               PROVE  Aligned'
  BY DEF Aligned
<1>2. /\ mode = Simple /\ mode' = Simple /\ presses' = presses + 1
      /\ inbox' = Queued(Input(Simple))
      /\ UNCHANGED <<pc, step, answer, number, relights, sent>>
  BY <1>1 DEF Press, program, pad
<1>3. SettingUp /\ step \in 2 .. 5 /\ Script' = Script /\ Written' = Written
  BY <1>1, <1>2, Counters DEF SettingUp, Script, Written
<1>4. /\ presses \in Nat /\ Len(inbox) \in Nat /\ inbox \in Seq(Reports)
      /\ Len(sent) \in Nat /\ Written \in Int
  BY <1>1, Counters
<1>5. SentInOrder'
  BY <1>1, <1>2, <1>3 DEF Aligned, SentInOrder
<1>6. NoneToSpare'
  <2>1. Len(inbox) + Len(sent) <= presses + Written - step + 1
    BY <1>1, <1>2, <1>3 DEF Aligned, NoneToSpare
  <2>2. Len(inbox') \in Nat /\ Len(inbox') <= Len(inbox) + 1
    BY <1>2, <1>4 DEF Queued
  <2>3. Len(inbox') + Len(sent') <= presses' + Written' - step' + 1
    BY <1>2, <1>3, <1>4, <2>1, <2>2
  <2>4. QED
    BY <1>2, <2>3 DEF NoneToSpare
<1>7. (\A k \in 2 .. Top' : Fits(k, Item(k))') /\ Cardinality(InputsTo(Top))' <= presses'
  <2>1. PICK last \in Nat : last = step + Len(inbox)
    BY <1>3, <1>4
  <2>2. PICK r \in Reports : r = Input(Simple)
    BY ReportTypes
  <2>3. Fits(last, r)'
    BY <2>2 DEF Fits
  <2>4. presses <= presses'
    BY <1>2, <1>4
  <2>5. QED
    BY <1>1, <1>2, <1>3, <2>1, <2>2, <2>3, <2>4, Enqueue
<1>8. QED
  BY <1>5, <1>6, <1>7 DEF Aligned

(* A report in full mode comes behind the one that will be read. *)
LEMMA AlignedReport == TypeInv /\ TypeInv' /\ Aligned /\ Report => Aligned'
<1>1. SUFFICES ASSUME TypeInv, TypeInv', Aligned, Report, SettingUp'
               PROVE  Aligned'
  BY DEF Aligned
<1>2. /\ mode = Full /\ mode' = Full /\ Full # Simple
      /\ inbox' = Queued(Input(Full))
      /\ UNCHANGED <<pc, step, answer, number, presses, relights, sent>>
  BY <1>1 DEF Report, program, pad, Full, Simple
<1>3. SettingUp /\ Script' = Script /\ Written' = Written /\ Top = 5 /\ Top' = 5
  BY <1>1, <1>2 DEF SettingUp, Script, Written, Top
<1>4. step = 5 /\ inbox # <<>> /\ inbox \in Seq(Reports) /\ NoneToSpare
  BY <1>1, <1>2, <1>3, Counters DEF Aligned, NoneToSpare
<1>5. inbox' # <<>> /\ inbox'[1] = inbox[1]
  BY <1>2, <1>4 DEF Queued
<1>6. NoneToSpare'
  BY <1>2, <1>4, <1>5 DEF NoneToSpare
<1>7. SentInOrder'
  BY <1>1, <1>2, <1>3 DEF Aligned, SentInOrder
<1>8. \A k \in 2 .. 5 : Item(k)' = Item(k)
  BY <1>2, <1>4, <1>5 DEF Item
<1>9. \A k \in 2 .. Top' : Fits(k, Item(k))'
  <2>1. \A k \in 2 .. 5 : Fits(k, Item(k))
    BY <1>1, <1>3 DEF Aligned
  <2>2. QED
    BY <1>2, <1>3, <1>8, <2>1 DEF Fits
<1>10. InputsTo(Top)' = InputsTo(Top)
  BY <1>3, <1>8 DEF InputsTo
<1>11. Cardinality(InputsTo(Top)') <= presses'
  BY <1>1, <1>2, <1>3, <1>10 DEF Aligned
<1>12. QED
  BY <1>6, <1>7, <1>9, <1>11 DEF Aligned

(* The drain ends with both channels empty. *)
LEMMA AlignedDrained == TypeInv /\ Drained => Aligned'
<1>1. SUFFICES ASSUME TypeInv, Drained
               PROVE  Aligned'
  OBVIOUS
<1>2. /\ step' = 2 /\ pc' = "write" /\ presses' = 0
      /\ mode' = Simple /\ inbox' = <<>> /\ sent' = <<>>
  BY <1>1 DEF Drained, pad
<1>3. Len(inbox') = 0 /\ Len(sent') = 0 /\ Written' = 1 /\ Top' = 1
  BY <1>2 DEF Written, Top
<1>4. 2 .. Top' = {}
  BY <1>3
<1>5. InputsTo(Top)' = {}
  BY <1>4 DEF InputsTo
<1>6. Cardinality(InputsTo(Top)') <= presses'
  BY <1>2, <1>5, FS_EmptySet
<1>7. SentInOrder' /\ NoneToSpare'
  BY <1>2, <1>3 DEF SentInOrder, NoneToSpare
<1>8. QED
  BY <1>4, <1>6, <1>7 DEF Aligned

LEMMA AlignedStep == TypeInv /\ TypeInv' /\ Aligned /\ [Next]_vars => Aligned'
<1>1. SUFFICES ASSUME TypeInv, TypeInv', Aligned, [Next]_vars
               PROVE  Aligned'
  OBVIOUS
<1>2. CASE Drain \/ Poll \/ GiveUp \/ Relight \/ RelightFails \/ ReadRelit
  <2>1. pc' \notin {"write", "read"}
    BY <1>2 DEF Drain, Poll, GiveUp, Relight, RelightFails, Renumber, ReadRelit, program
  <2>2. QED
    BY <2>1 DEF Aligned, SettingUp
<1>3. CASE Disconnect \/ UNCHANGED vars
  <2>1. UNCHANGED <<pc, step, number, answer, inbox, sent, mode, presses, relights>>
    BY <1>3 DEF Disconnect, vars, program, pad
  <2>2. /\ SettingUp' = SettingUp /\ SentInOrder' = SentInOrder
        /\ NoneToSpare' = NoneToSpare
    BY <2>1 DEF SettingUp, SentInOrder, NoneToSpare, Written, Script
  <2>3. Top' = Top /\ \A k : Item(k)' = Item(k) /\ (Fits(k, Item(k))' <=> Fits(k, Item(k)))
    BY <2>1 DEF Top, Item, Fits, Script
  <2>4. InputsTo(Top)' = InputsTo(Top)
    BY <2>3 DEF InputsTo
  <2>5. QED
    BY <1>1, <2>1, <2>2, <2>3, <2>4 DEF Aligned
<1>4. QED
  BY <1>1, <1>2, <1>3, AlignedWrite, AlignedRead, AlignedDrained, AlignedExecute,
     AlignedPress, AlignedReport DEF Next, Program

-----------------------------------------------------------------------------
(* The answers *)

LEMMA SlipRead ==
  ASSUME TypeInv, TypeInv', Aligned, Unread, Read, inbox # <<>>
  PROVE  Slip'
<1>1. /\ pc = "read" /\ answer' = [answer EXCEPT ![step] = Head(inbox)]
      /\ UNCHANGED <<number, presses, relights>>
  BY DEF Read
<1>2. step \in 1 .. 5 /\ answer \in [Steps -> Reports \cup {None}] /\ presses \in Nat
      /\ inbox \in Seq(Reports) /\ Len(inbox) \in Nat \ {0}
  BY Counters DEF TypeInv, TypeOK
<1>3. \A s \in 2 .. 5 : s >= step => answer[s] = None
  BY <1>1 DEF Unread
<1>4. CASE step = 1
  <2>1. \A s \in 2 .. 5 : answer'[s] = None
    BY <1>1, <1>2, <1>3, <1>4 DEF Steps
  <2>2. After' = {} /\ Presses' = {}
    BY <2>1 DEF After, Presses
  <2>3. Cardinality(Presses') <= presses'
    BY <1>1, <1>2, <2>2, FS_EmptySet
  <2>4. QED
    BY <2>2, <2>3 DEF Slip
<1>5. CASE step # 1
  <2>1. SettingUp /\ step \in 2 .. 5 /\ Script' = Script
    BY <1>1, <1>2, <1>5 DEF SettingUp, Script
  <2>2. \A s \in After' : s \in 2 .. step
    BY <1>1, <1>2, <1>3 DEF After, Steps
  <2>3. PICK top \in Int : top = Top
    BY Counters
  <2>4. step <= top
    BY <1>2, <2>1, <2>3 DEF Top, Aligned, NoneToSpare
  <2>5. \A s \in 2 .. step : s \in 2 .. top /\ answer'[s] = Item(s)
    <3>1. ASSUME NEW s \in 2 .. step
          PROVE  answer'[s] = Item(s)
      <4>1. CASE s < step
        BY <1>1, <1>2, <2>1, <4>1 DEF Item, Steps
      <4>2. CASE s = step
        BY <1>1, <1>2, <2>1, <4>2 DEF Item, Steps
      <4>3. QED
        BY <2>1, <4>1, <4>2
    <3>2. QED
      BY <2>1, <2>4, <3>1
  <2>6. \A s \in 2 .. top : Fits(s, Item(s))
    BY <2>1, <2>3 DEF Aligned
  <2>7. Presses' \subseteq InputsTo(top)
    BY <2>2, <2>5 DEF Presses, InputsTo
  <2>8. Cardinality(Presses') <= presses'
    <3>1. IsFiniteSet(InputsTo(top)) /\ Cardinality(InputsTo(top)) \in Nat
      BY InputsFinite
    <3>2. Cardinality(Presses') <= Cardinality(InputsTo(top)) /\ Cardinality(Presses') \in Nat
      BY <2>7, <3>1, FS_Subset, FS_CardinalityType
    <3>3. Cardinality(InputsTo(top)) <= presses
      BY <2>1, <2>3 DEF Aligned
    <3>4. QED
      BY <1>1, <1>2, <3>1, <3>2, <3>3
  <2>9. ASSUME NEW s \in After' \ Presses'
        PROVE  \E t \in 2 .. s : s - t <= presses' /\ answer'[s] = Reply(Script'[t])
    <3>1. answer'[s] = Item(s) /\ Fits(s, Item(s)) /\ answer'[s] # Input(Simple)
      BY <2>2, <2>5, <2>6 DEF Presses
    <3>2. QED
      BY <1>1, <2>1, <3>1 DEF Fits
  <2>10. QED
    BY <2>8, <2>9 DEF Slip
<1>6. QED
  BY <1>4, <1>5

LEMMA SlipStep ==
  TypeInv /\ TypeInv' /\ Aligned /\ Unread /\ Slip /\ [Next]_vars => Slip'
<1>1. SUFFICES ASSUME TypeInv, TypeInv', Aligned, Unread, Slip, [Next]_vars
               PROVE  Slip'
  OBVIOUS
<1>2. presses \in Nat /\ presses' \in Nat /\ relights \in Nat
  BY <1>1, SessionAssumption DEF TypeInv, TypeOK
<1>3. CASE Read /\ inbox # <<>>
  BY <1>1, <1>3, SlipRead
<1>4. CASE Drained
  <2>1. answer' = answer /\ presses' = 0 /\ pc = "drain"
    BY <1>4 DEF Drained
  <2>2. \A s \in 2 .. 5 : answer'[s] = None
    BY <1>1, <2>1 DEF Unread
  <2>3. After' = {} /\ Presses' = {}
    BY <2>2 DEF After, Presses
  <2>4. Cardinality(Presses') <= presses'
    BY <2>1, <2>3, FS_EmptySet
  <2>5. QED
    BY <2>3, <2>4 DEF Slip
<1>5. CASE Relight \/ RelightFails
  <2>1. relights' # 0
    BY <1>2, <1>5 DEF Relight, RelightFails, Renumber
  <2>2. QED
    BY <2>1 DEF Slip
<1>6. CASE /\ answer' = answer /\ number' = number /\ relights' = relights
           /\ presses <= presses'
  <2>1. Script' = Script /\ After' = After /\ Presses' = Presses
    BY <1>6 DEF Script, After, Presses
  <2>2. CASE relights # 0
    BY <1>6, <2>2 DEF Slip
  <2>3. CASE relights = 0
    <3>1. Cardinality(Presses') <= presses'
      <4>1. Cardinality(Presses) <= presses
        BY <1>1, <2>3 DEF Slip
      <4>2. Cardinality(Presses) \in Nat
        BY PressesFinite
      <4>3. QED
        BY <1>2, <1>6, <2>1, <4>1, <4>2
    <3>2. \A s \in After' \ Presses' :
            \E t \in 2 .. s : s - t <= presses' /\ answer'[s] = Reply(Script'[t])
      <4>1. ASSUME NEW s \in After \ Presses
            PROVE  \E t \in 2 .. s : s - t <= presses' /\ answer[s] = Reply(Script[t])
        <5>1. PICK t \in 2 .. s : s - t <= presses /\ answer[s] = Reply(Script[t])
          BY <1>1, <2>3 DEF Slip
        <5>2. s \in Int /\ t \in Int
          BY DEF After
        <5>3. s - t <= presses'
          BY <1>2, <1>6, <5>1, <5>2
        <5>4. QED
          BY <5>1, <5>3
      <4>2. QED
        BY <1>6, <2>1, <4>1
    <3>3. QED
      BY <3>1, <3>2 DEF Slip
  <2>4. QED
    BY <2>2, <2>3
<1>7. CASE Write \/ Drain \/ Poll \/ GiveUp \/ ReadRelit \/ Execute \/ Report
           \/ Disconnect \/ UNCHANGED vars
  <2>1. answer' = answer /\ number' = number /\ relights' = relights /\ presses' = presses
    BY <1>7 DEF Write, Drain, Poll, GiveUp, ReadRelit, Execute, Report, Disconnect, vars, program
  <2>2. QED
    BY <1>2, <1>6, <2>1
<1>8. CASE Press
  <2>1. answer' = answer /\ number' = number /\ relights' = relights /\ presses <= presses'
    BY <1>2, <1>8 DEF Press, program
  <2>2. QED
    BY <1>6, <2>1
<1>9. CASE Read /\ inbox = <<>>
  <2>1. answer' = answer /\ number' = number /\ relights' = relights /\ presses' = presses
    BY <1>9 DEF Read
  <2>2. QED
    BY <1>2, <1>6, <2>1
<1>10. QED
  BY <1>1, <1>3, <1>4, <1>5, <1>7, <1>8, <1>9 DEF Next, Program

-----------------------------------------------------------------------------
(* The calibration *)

(* Only the third read reaches as far as the calibration, and not if it      *)
(* returns an input.                                                         *)
LEMMA HowFar ==
  ASSUME TypeInv, NEW r
  PROVE  /\ step # 3 => TailAfter(r) = tail
         /\ step = 3 => TailAfter(r) = IF r = Input(Simple) THEN tail ELSE r
<1>1. step \in 1 .. 5
  BY Counters
<1>2. step # 3 => Length(step, r) <= 15
  BY <1>1 DEF Length
<1>3. step = 3 => Length(step, r) = IF r = Input(Simple) THEN 12 ELSE 38
  BY DEF Length
<1>4. step # 3 => Length(step, r) \in Int
  BY <1>1 DEF Length
<1>5. QED
  BY <1>2, <1>3, <1>4 DEF TailAfter

LEMMA KeptStep == TypeInv /\ Unread /\ Kept /\ [Next]_vars => Kept'
<1>1. SUFFICES ASSUME TypeInv, Unread, Kept, [Next]_vars, step' <= 3
               PROVE  tail' \in Leftovers
  BY DEF Kept
<1>2. step \in 1 .. 5
  BY <1>1, Counters
<1>3. CASE Read
  <2>1. step <= 3
    BY <1>1, <1>2, <1>3 DEF Read, NextStep
  <2>2. tail' = tail
    <3>1. CASE inbox = <<>>
      BY <1>3, <3>1 DEF Read
    <3>2. CASE inbox # <<>>
      <4>1. step # 3
        BY <1>1, <1>2, <1>3, <3>2 DEF Read, NextStep
      <4>2. tail' = TailAfter(Head(inbox))
        BY <1>3, <3>2 DEF Read
      <4>3. QED
        BY <1>1, <4>1, <4>2, HowFar
    <3>3. QED
      BY <3>1, <3>2
  <2>3. QED
    BY <1>1, <2>1, <2>2 DEF Kept
<1>4. CASE Drained
  <2>1. tail' = tail /\ step = 1
    BY <1>1, <1>4 DEF Drained, Unread
  <2>2. QED
    BY <1>1, <2>1 DEF Kept
<1>5. CASE ~ Read /\ ~ Drained
  <2>1. step' = step /\ tail' = tail
    BY <1>1, <1>5 DEF Next, Program, Write, Drain, Poll, GiveUp, Relight, RelightFails,
       Renumber, ReadRelit, Execute, Press, Report, Disconnect, vars, program
  <2>2. QED
    BY <1>1, <2>1 DEF Kept
<1>6. QED
  BY <1>3, <1>4, <1>5

LEMMA CalibratedStep ==
  TypeInv /\ TypeInv' /\ Aligned /\ Unread /\ Kept /\ Calibrated /\ [Next]_vars
    => Calibrated'
<1>1. SUFFICES ASSUME TypeInv, TypeInv', Aligned, Unread, Kept, Calibrated, [Next]_vars,
                      answer'[3] # None
               PROVE  \/ tail' = Reply(Sub("spi", 0))
                      \/ /\ presses' > 0
                         /\ tail' \in {Reply(Sub("lights", 15))} \cup Leftovers
  BY DEF Calibrated
<1>2. step \in 1 .. 5 /\ presses \in Nat /\ presses' \in Nat
      /\ answer \in [Steps -> Reports \cup {None}] /\ 3 \in Steps
  BY <1>1, Counters, SessionAssumption DEF TypeInv, TypeOK, Steps
<1>3. CASE Read /\ inbox # <<>> /\ step = 3
  <2>1. /\ pc = "read" /\ presses' = presses
        /\ tail' = IF Head(inbox) = Input(Simple) THEN tail ELSE Head(inbox)
    BY <1>1, <1>3, HowFar DEF Read
  <2>2. SettingUp /\ inbox \in Seq(Reports) /\ Len(inbox) \in Nat \ {0}
    BY <1>1, <1>3, <2>1, Counters DEF SettingUp
  <2>3. PICK top \in Int : top = Top
    BY <1>1, Counters
  <2>4. 3 \in 2 .. top /\ Item(3) = Head(inbox)
    BY <1>1, <1>3, <2>2, <2>3 DEF Top, Item
  <2>5. Fits(3, Head(inbox))
    BY <1>1, <2>2, <2>3, <2>4 DEF Aligned
  <2>6. CASE Head(inbox) = Input(Simple)
    <3>1. tail' \in Leftovers
      BY <1>1, <1>3, <2>1, <2>6 DEF Kept
    <3>2. InputsTo(top) # {}
      BY <2>4, <2>6 DEF InputsTo
    <3>3. Cardinality(InputsTo(top)) \in Nat /\ Cardinality(InputsTo(top)) # 0
      BY <3>2, InputsFinite, FS_EmptySet
    <3>4. Cardinality(InputsTo(top)) <= presses
      BY <1>1, <2>2, <2>3 DEF Aligned
    <3>5. presses' > 0
      BY <1>2, <2>1, <3>3, <3>4
    <3>6. QED
      BY <3>1, <3>5
  <2>7. CASE Head(inbox) # Input(Simple)
    <3>1. PICK t \in 2 .. 3 : 3 - t <= presses /\ Head(inbox) = Reply(Script[t])
      BY <2>5, <2>7 DEF Fits
    <3>2. CASE t = 3
      BY <2>1, <2>7, <3>1, <3>2 DEF Script
    <3>3. CASE t = 2
      <4>1. presses' > 0
        BY <1>2, <2>1, <3>1, <3>3
      <4>2. QED
        BY <2>1, <2>7, <3>1, <3>3, <4>1 DEF Script
    <3>4. QED
      BY <3>2, <3>3
  <2>8. QED
    BY <2>6, <2>7
<1>4. CASE Read /\ inbox # <<>> /\ step # 3
  <2>1. tail' = tail /\ presses' = presses /\ answer'[3] = answer[3]
    BY <1>1, <1>2, <1>4, HowFar DEF Read
  <2>2. QED
    BY <1>1, <2>1 DEF Calibrated
<1>5. CASE Read /\ inbox = <<>>
  BY <1>1, <1>5 DEF Read, Calibrated
<1>6. CASE Drained
  <2>1. answer' = answer /\ pc = "drain"
    BY <1>6 DEF Drained
  <2>2. answer[3] = None
    BY <1>1, <2>1 DEF Unread
  <2>3. QED
    BY <1>1, <2>1, <2>2
<1>7. CASE ~ Read /\ ~ Drained
  <2>1. answer' = answer /\ tail' = tail
    BY <1>1, <1>7 DEF Next, Program, Write, Drain, Poll, GiveUp, Relight, RelightFails,
       Renumber, ReadRelit, Execute, Press, Report, Disconnect, vars, program
  <2>2. presses' = presses \/ presses' = presses + 1
    BY <1>1, <1>7 DEF Next, Program, Write, Drain, Poll, GiveUp, Relight, RelightFails,
       Renumber, ReadRelit, Execute, Press, Report, Disconnect, vars, program
  <2>3. presses > 0 => presses' > 0
    BY <1>2, <2>2
  <2>4. QED
    BY <1>1, <2>1, <2>3 DEF Calibrated
<1>8. QED
  BY <1>3, <1>4, <1>5, <1>6, <1>7

LEMMA SessionInvariant == Spec => []SessionInv
<1>1. Init => SessionInv
  <2>1. ASSUME Init
        PROVE  SessionInv
    <3>1. step = 1 /\ \A s \in 1 .. 5 : answer[s] = None
      BY <2>1 DEF Init, Steps
    <3>2. Aligned /\ Unread
      BY <2>1, <3>1 DEF Init, Aligned, SettingUp, Unread
    <3>3. Kept /\ Calibrated
      BY <2>1, <3>1 DEF Init, Kept, Calibrated
    <3>4. After = {} /\ Presses = {}
      BY <3>1 DEF After, Presses
    <3>5. Cardinality(Presses) <= presses
      BY <2>1, <3>4, FS_EmptySet DEF Init
    <3>6. Slip
      BY <3>4, <3>5 DEF Slip
    <3>7. QED
      BY <2>1, <3>2, <3>3, <3>6, InitTypes DEF SessionInv
  <2>2. QED
    BY <2>1
<1>2. SessionInv /\ [Next]_vars => SessionInv'
  BY TypeStep, AlignedStep, UnreadStep, KeptStep, SlipStep, CalibratedStep DEF SessionInv
<1>3. QED
  BY <1>1, <1>2, PTL DEF Spec

(* For a queue of any length and any number of inputs: the reads after the   *)
(* drain fall behind the subcommands by no more than the inputs reported     *)
(* since, and no more of them return inputs.                                 *)
THEOREM HandshakeSlip == Spec => []Slip
<1>1. SessionInv => Slip
  BY DEF SessionInv
<1>2. QED
  BY <1>1, SessionInvariant, PTL

(* The calibration is made from this Joy-Con's own data, or an input was     *)
(* reported since the drain; and never from an input.                        *)
THEOREM HandshakeCalibrated == Spec => []Calibrated
<1>1. SessionInv => Calibrated
  BY DEF SessionInv
<1>2. QED
  BY <1>1, SessionInvariant, PTL

-----------------------------------------------------------------------------
(* What the Joy-Con obeys *)

(* During the set-up it has executed all but the last of what was written. *)
Done == Written - Len(sent)

Obeyed ==
  SettingUp =>
    /\ Done >= 4 => lamps = number
    /\ Done = 5 => mode = Full

Polling == pc \in {"poll", "relit"}

WakesUp == \E m \in 1 .. Len(sent) : sent[m].sc = "mode"

NoLights(first) == \A m \in first .. Len(sent) : sent[m].sc # "lights"

(* While it is connected: of what it has still to execute nothing sets it  *)
(* to simple mode, and the last number is the one rubusd has for it.       *)
DueMode ==
  /\ \A m \in 1 .. Len(sent) : sent[m].sc = "mode" => sent[m].arg = Full
  /\ mode = Full \/ WakesUp

DueLights ==
  \/ lamps = number /\ NoLights(1)
  \/ \E m \in 1 .. Len(sent) : sent[m] = Sub("lights", number) /\ NoLights(m + 1)

Due == Polling /\ up => DueMode /\ DueLights

LEMMA ExecuteTail ==
  ASSUME TypeInv, Execute
  PROVE  /\ Len(sent) \in Nat /\ Len(sent) > 0
         /\ sent' \in Seq(Sendable) /\ Len(sent') = Len(sent) - 1
         /\ \A m \in 1 .. Len(sent) - 1 : sent'[m] = sent[m + 1]
         /\ mode' = IF sent[1].sc = "mode" THEN sent[1].arg ELSE mode
         /\ lamps' = IF sent[1].sc = "lights" THEN sent[1].arg ELSE lamps
         /\ up /\ UNCHANGED <<pc, step, number, up>>
<1>1. sent \in Seq(Sendable) /\ sent # <<>> /\ sent' = Tail(sent)
  BY DEF Execute, TypeInv
<1>2. /\ Len(sent) \in Nat /\ Len(sent) > 0
      /\ sent' \in Seq(Sendable) /\ Len(sent') = Len(sent) - 1
      /\ \A m \in 1 .. Len(sent) - 1 : sent'[m] = sent[m + 1]
      /\ Head(sent) = sent[1]
  BY <1>1
<1>3. QED
  BY <1>2 DEF Execute, program

LEMMA ExecuteObeys ==
  ASSUME SessionInv, Obeyed, Due, Execute
  PROVE  Obeyed' /\ Due'
<1>1. TypeInv
  BY DEF SessionInv
<1>2. /\ Len(sent) \in Nat /\ Len(sent) > 0
      /\ sent' \in Seq(Sendable) /\ Len(sent') = Len(sent) - 1
      /\ \A m \in 1 .. Len(sent) - 1 : sent'[m] = sent[m + 1]
      /\ mode' = IF sent[1].sc = "mode" THEN sent[1].arg ELSE mode
      /\ lamps' = IF sent[1].sc = "lights" THEN sent[1].arg ELSE lamps
      /\ up /\ UNCHANGED <<pc, step, number, up>>
  BY <1>1, ExecuteTail
<1>3. Obeyed'
  <2>1. SUFFICES ASSUME SettingUp
                 PROVE  /\ Done' >= 4 => lamps' = number
                        /\ Done' = 5 => mode' = Full
    BY <1>2 DEF Obeyed, SettingUp
  <2>2. PICK n \in Int : n = Done
    BY <1>1, <1>2, Counters DEF Done
  <2>3. Done' = n + 1
    BY <1>1, <1>2, <2>2, Counters DEF Done, Written
  <2>4. sent[1] = Script[n + 1]
    BY <1>1, <1>2, <2>1, <2>2, Counters DEF SessionInv, Aligned, SentInOrder, Done
  <2>5. (n >= 4 => lamps = number) /\ (n = 5 => mode = Full)
    BY <2>1, <2>2 DEF Obeyed
  <2>6. n \in 1 .. 4
    <3>1. Len(sent) <= Written - 1 /\ Written \in 1 .. 5
      BY <1>1, <2>1, Counters DEF SessionInv, Aligned, SentInOrder, SettingUp, Written
    <3>2. n = Written - Len(sent)
      BY <2>2 DEF Done
    <3>3. QED
      BY <1>2, <3>1, <3>2
  <2>7. CASE n \in 1 .. 2
    BY <2>3, <2>7
  <2>8. CASE n = 3
    <3>1. sent[1] = Sub("lights", number)
      BY <2>4, <2>8 DEF Script
    <3>2. QED
      BY <1>2, <2>3, <2>8, <3>1 DEF Sub
  <2>9. CASE n = 4
    <3>1. sent[1] = Sub("mode", Full)
      BY <2>4, <2>9 DEF Script
    <3>2. QED
      BY <1>2, <2>3, <2>5, <2>9, <3>1 DEF Sub
  <2>10. QED
    BY <2>6, <2>7, <2>8, <2>9
<1>4. ASSUME Polling
      PROVE  DueMode'
  <2>1. DueMode
    BY <1>2, <1>4 DEF Due
  <2>2. CASE sent[1].sc = "mode"
    BY <1>2, <2>1, <2>2 DEF DueMode
  <2>3. CASE sent[1].sc # "mode" /\ mode = Full
    BY <1>2, <2>1, <2>3 DEF DueMode
  <2>4. CASE sent[1].sc # "mode" /\ mode # Full
    <3>1. PICK m \in 1 .. Len(sent) : sent[m].sc = "mode"
      BY <2>1, <2>4 DEF DueMode, WakesUp
    <3>2. m - 1 \in 1 .. Len(sent') /\ sent'[m - 1] = sent[m]
      BY <1>2, <2>4, <3>1
    <3>3. WakesUp'
      BY <3>1, <3>2 DEF WakesUp
    <3>4. QED
      BY <1>2, <2>1, <3>3 DEF DueMode
  <2>5. QED
    BY <2>2, <2>3, <2>4
<1>5. ASSUME Polling
      PROVE  DueLights'
  <2>1. CASE lamps = number /\ NoLights(1)
    <3>1. sent[1].sc # "lights"
      BY <1>2, <2>1 DEF NoLights
    <3>2. NoLights(1)'
      BY <1>2, <2>1 DEF NoLights
    <3>3. QED
      BY <1>2, <2>1, <3>1, <3>2 DEF DueLights
  <2>2. ASSUME NEW m \in 1 .. Len(sent), sent[m] = Sub("lights", number), NoLights(m + 1)
        PROVE  DueLights'
    <3>1. CASE m = 1
      <4>1. lamps' = number'
        BY <1>2, <2>2, <3>1 DEF Sub
      <4>2. NoLights(1)'
        BY <1>2, <2>2, <3>1 DEF NoLights
      <4>3. QED
        BY <4>1, <4>2 DEF DueLights
    <3>2. CASE m # 1
      <4>1. PICK l \in 1 .. Len(sent') : l + 1 = m
        <5>1. m - 1 \in 1 .. Len(sent') /\ (m - 1) + 1 = m
          BY <1>2, <3>2
        <5>2. QED
          BY <5>1
      <4>2. sent'[l] = Sub("lights", number')
        <5>1. sent'[l] = sent[m]
          BY <1>2, <4>1
        <5>2. QED
          BY <1>2, <2>2, <5>1
      <4>3. ASSUME NEW k \in l + 1 .. Len(sent')
            PROVE  sent'[k].sc # "lights"
        <5>1. k \in 1 .. Len(sent) - 1 /\ k + 1 \in m + 1 .. Len(sent)
          BY <1>2, <4>1
        <5>2. QED
          BY <1>2, <2>2, <5>1 DEF NoLights
      <4>4. QED
        BY <4>2, <4>3 DEF DueLights, NoLights, Sub
    <3>3. QED
      BY <3>1, <3>2
  <2>3. QED
    BY <1>2, <1>5, <2>1, <2>2 DEF Due, DueLights
<1>6. Due'
  BY <1>2, <1>4, <1>5 DEF Due, Polling
<1>7. QED
  BY <1>3, <1>6

LEMMA WriteObeys ==
  ASSUME SessionInv, Obeyed, Write
  PROVE  Obeyed' /\ Due'
<1>1. TypeInv
  BY DEF SessionInv
<1>2. Due'
  BY DEF Write, Failure, Due, Polling
<1>3. CASE pc' = "read"
  <2>1. /\ pc = "write" /\ sent' = Append(sent, Script[step])
        /\ UNCHANGED <<step, number, mode, lamps>>
    BY <1>3 DEF Write, Failure, pad
  <2>2. Len(sent') = Len(sent) + 1 /\ Len(sent) \in Nat /\ step \in Int
    BY <1>1, <2>1, Counters
  <2>3. Written' = Written + 1 /\ Written \in Int
    BY <1>3, <2>1, <2>2 DEF Written
  <2>4. Done' = Done
    BY <2>2, <2>3 DEF Done
  <2>5. QED
    BY <1>2, <1>3, <2>1, <2>4 DEF Obeyed, SettingUp
<1>4. CASE pc' # "read"
  BY <1>2, <1>4 DEF Write, Failure, Obeyed, SettingUp
<1>5. QED
  BY <1>3, <1>4

(* The read for the last subcommand ends the set-up: what is then on its   *)
(* way is the end of the script.                                           *)
LEMMA ReadObeys ==
  ASSUME SessionInv, Obeyed, Read
  PROVE  Obeyed' /\ Due'
<1>1. TypeInv /\ step \in 1 .. 5
  BY Counters DEF SessionInv
<1>2. pc = "read" /\ UNCHANGED <<number, mode, lamps, sent>>
  BY DEF Read, pad
<1>3. CASE inbox = <<>>
  BY <1>3 DEF Read, Failure, Obeyed, SettingUp, Due, Polling
<1>4. CASE inbox # <<>> /\ step = 1
  BY <1>4 DEF Read, NextPlace, Obeyed, SettingUp, Due, Polling
<1>5. CASE inbox # <<>> /\ step \in 2 .. 4
  <2>1. pc' = "write" /\ step' = step + 1
    BY <1>5 DEF Read, NextPlace, NextStep
  <2>2. Written' = Written
    BY <1>1, <1>2, <2>1 DEF Written
  <2>3. Done' = Done
    BY <1>2, <2>2 DEF Done
  <2>4. QED
    BY <1>2, <1>5, <2>1, <2>3 DEF Obeyed, SettingUp, Due, Polling
<1>6. CASE inbox # <<>> /\ step = 5
  <2>1. pc' = "poll"
    BY <1>6 DEF Read, NextPlace
  <2>2. SettingUp /\ Written = 5
    BY <1>2, <1>6 DEF SettingUp, Written
  <2>3. PICK n \in Nat : n = Len(sent)
    BY <1>1, Counters
  <2>4. n <= 4 /\ \A m \in 1 .. n : sent[m] = Script[5 - n + m]
    BY <2>2, <2>3 DEF SessionInv, Aligned, SentInOrder
  <2>5. /\ 5 - n >= 4 => lamps = number
        /\ 5 - n = 5 => mode = Full
    BY <2>2, <2>3 DEF Obeyed, Done
  <2>6. DueMode
    <3>1. \A m \in 1 .. n : sent[m].sc = "mode" => m = n
      BY <2>4 DEF Script, Sub
    <3>2. n > 0 => sent[n] = Sub("mode", Full)
      BY <2>4 DEF Script
    <3>3. QED
      BY <2>3, <2>5, <3>1, <3>2 DEF DueMode, WakesUp, Sub
  <2>7. DueLights
    <3>1. CASE n \in 0 .. 1
      BY <2>3, <2>4, <2>5, <3>1 DEF DueLights, NoLights, Script, Sub
    <3>2. CASE n \in 2 .. 4
      <4>1. sent[n - 1] = Sub("lights", number) /\ sent[n].sc # "lights"
        BY <2>4, <3>2 DEF Script, Sub
      <4>2. n - 1 \in 1 .. Len(sent) /\ \A k \in n - 1 + 1 .. Len(sent) : k = n
        BY <2>3, <3>2
      <4>3. QED
        BY <4>1, <4>2 DEF DueLights, NoLights
    <3>3. QED
      BY <2>4, <3>1, <3>2
  <2>8. DueMode' /\ DueLights'
    BY <1>2, <2>6, <2>7 DEF DueMode, WakesUp, DueLights, NoLights
  <2>9. QED
    BY <2>1, <2>8 DEF Obeyed, SettingUp, Due
<1>7. QED
  BY <1>1, <1>3, <1>4, <1>5, <1>6

(* A new number is the last that is on its way. *)
LEMMA RelightObeys ==
  ASSUME SessionInv, Due, Relight
  PROVE  Obeyed' /\ Due'
<1>1. TypeInv
  BY DEF SessionInv
<1>2. /\ pc = "poll" /\ pc' \in {"poll", "relit"} /\ number' \in Numbers
      /\ sent' = Append(sent, Sub("lights", number')) /\ mode' = mode
      /\ up
  BY DEF Relight, Renumber, pad
<1>3. PICK l \in Nat : l = Len(sent)
  BY <1>1, Counters
<1>4. /\ Len(sent') = l + 1 /\ sent'[l + 1] = Sub("lights", number')
      /\ \A m \in 1 .. l : sent'[m] = sent[m]
  BY <1>1, <1>2, <1>3, Counters
<1>5. DueMode
  BY <1>2 DEF Due, Polling
<1>6. DueMode'
  <2>1. \A m \in 1 .. l + 1 : sent'[m].sc = "mode" => m \in 1 .. l
    BY <1>3, <1>4 DEF Sub
  <2>2. \A m \in 1 .. l : m \in 1 .. l + 1
    BY <1>3
  <2>3. QED
    BY <1>2, <1>3, <1>4, <1>5, <2>1, <2>2 DEF DueMode, WakesUp
<1>7. DueLights'
  <2>1. \A k \in l + 1 + 1 .. l + 1 : FALSE
    BY <1>3
  <2>2. l + 1 \in 1 .. Len(sent')
    BY <1>3, <1>4
  <2>3. \E m \in 1 .. Len(sent') :
          /\ sent'[m] = Sub("lights", number')
          /\ \A k \in m + 1 .. Len(sent') : sent'[k].sc # "lights"
    BY <1>4, <2>1, <2>2
  <2>4. QED
    BY <2>3 DEF DueLights, NoLights, Sub
<1>8. QED
  BY <1>2, <1>6, <1>7 DEF Obeyed, SettingUp, Due

LEMMA OthersObey ==
  ASSUME SessionInv, Obeyed, Due, [Next]_vars, ~ Execute, ~ Write, ~ Read, ~ Relight
  PROVE  Obeyed' /\ Due'
<1>1. CASE Drained
  <2>1. sent' = <<>> /\ step' = 2 /\ pc' = "write"
    BY <1>1 DEF Drained
  <2>2. Done' = 1
    BY <2>1 DEF Done, Written
  <2>3. QED
    BY <2>1, <2>2 DEF Obeyed, Due, Polling
<1>2. CASE RelightFails
  BY <1>2 DEF RelightFails, Renumber, Obeyed, SettingUp, Due
<1>3. CASE ~ Drained /\ ~ RelightFails
  <2>1. UNCHANGED <<step, number, sent, mode, lamps>> /\ (up' => up)
    BY <1>3 DEF Next, Program, Drain, Poll, GiveUp, ReadRelit, Press, Report, Disconnect,
       vars, program, pad
  <2>2. pc' = pc \/ pc' = "removed" \/ (pc = "relit" /\ pc' = "poll")
    BY <1>3 DEF Next, Program, Drain, Poll, GiveUp, ReadRelit, Press, Report, Disconnect,
       vars, program, pad
  <2>3. DueMode' = DueMode /\ DueLights' = DueLights
    BY <2>1 DEF DueMode, WakesUp, DueLights, NoLights
  <2>4. Obeyed'
    <3>1. CASE pc' = pc
      BY <2>1, <3>1 DEF Obeyed, SettingUp, Done, Written
    <3>2. CASE pc' # pc
      BY <2>2, <3>2 DEF Obeyed, SettingUp
    <3>3. QED
      BY <3>1, <3>2
  <2>5. Due'
    <3>1. Polling' => Polling
      BY <2>2 DEF Polling
    <3>2. QED
      BY <2>1, <2>3, <3>1 DEF Due
  <2>6. QED
    BY <2>4, <2>5
<1>4. QED
  BY <1>1, <1>2, <1>3

(* A Joy-Con that is polled, connected, and has executed all it was sent   *)
(* reports in full mode and shows its number, for any number of changes of *)
(* it, inputs and reports lost to a full queue.                            *)
THEOREM HandshakeSettled == Spec => []Settled
<1>1. Init => Obeyed /\ Due
  BY DEF Init, Obeyed, SettingUp, Due, Polling
<1>2. SessionInv /\ (Obeyed /\ Due) /\ [Next]_vars => (Obeyed /\ Due)'
  BY ExecuteObeys, WriteObeys, ReadObeys, RelightObeys, OthersObey
<1>3. Due => Settled
  BY DEF Due, Polling, DueMode, WakesUp, DueLights, Settled
<1>4. QED
  BY <1>1, <1>2, <1>3, SessionInvariant, PTL DEF Spec
=============================================================================

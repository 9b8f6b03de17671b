---------------------------- MODULE DevListProofs ----------------------------
(***************************************************************************)
(* Proofs about DevList for any set of Joy-Cons, any addresses, and any    *)
(* MAX_CONNECTIONS up to the fifteen the player lights can show.           *)
(***************************************************************************)
EXTENDS DevList, RosterLemmas, FiniteSetTheorems, SequenceTheorems, TLAPS

(* The inductive invariant.  Newcomer is what NoDuplicate and LightsMatch  *)
(* lack: it carries the outcome of dev_list_contains and the number sent   *)
(* to the Joy-Con over the steps of the connection sequence.               *)
ListInv ==
  ListTypeOK /\ Compact /\ NoDuplicate /\ LightsMatch /\ Newcomer

-----------------------------------------------------------------------------
(* The array *)

(* With no gap below the count, the loop of dev_list_remove runs to the    *)
(* last entry in use.                                                      *)
LEMMA GapEndIsLast ==
  ASSUME ListTypeOK, Compact, NEW i \in Used
  PROVE  GapEnd(i) = joycon_count - 1
<1> DEFINE n == joycon_count - 1
           Stop(j) == /\ j = n \/ joycon[j + 1] = NULL
                      /\ \A m \in i .. j - 1 : joycon[m + 1] # NULL
<1>1. \A k \in Used : k \in Slots /\ joycon[k] # NULL
  BY MaxAssumption DEF ListTypeOK, Compact, Used, Slots
<1>2. n \in i .. n /\ Stop(n)
  BY <1>1, MaxAssumption DEF ListTypeOK, Used
<1>3. ASSUME NEW j \in i .. n, Stop(j)
      PROVE  j = n
  BY <1>1, <1>3, MaxAssumption DEF ListTypeOK, Used
<1>4. QED
  BY <1>2, <1>3 DEF GapEnd

(* A list the kernel returns is a sequence of Joy-Cons. *)
LEMMA EnumerationType ==
  ASSUME ListTypeOK
  PROVE  Enumeration \subseteq Seq(Pads)
<1> DEFINE present == {c \in Pads : linked[c]}
<1>1. Cardinality(present) \in Nat
  BY PadsAssumption, FS_Subset, FS_CardinalityType
<1>2. \A f \in Bijection(1 .. Cardinality(present), present) :
         f \in [1 .. Cardinality(present) -> Pads]
  BY DEF Bijection, Injection
<1>3. [1 .. Cardinality(present) -> Pads] \subseteq Seq(Pads)
  BY <1>1, SeqDef
<1>4. QED
  BY <1>2, <1>3 DEF Enumeration

-----------------------------------------------------------------------------
(* Every step keeps the invariant *)

LEMMA InitInv == ListInit => ListInv
BY PadsAssumption, MaxAssumption
   DEF ListInit, ListInv, ListTypeOK, Compact, NoDuplicate, LightsMatch, Newcomer,
       Used, Slots, Location, Creating, Setup, Stopped

(* The steps of dev_list_connect_new that only move its cursor or location. *)
LEMMA CursorInv ==
  ASSUME ListInv,
         \/ Scan \/ SkipKnown \/ NewFound \/ ScanDone \/ OpenFails \/ StringFails
         \/ Flush \/ Drain \/ Calibrate \/ SetupFails \/ Abort
  PROVE  ListInv'
<1> USE PadsAssumption, MaxAssumption
    DEF ListInv, ListTypeOK, Compact, NoDuplicate, LightsMatch, Newcomer,
        Used, Slots, Location, Creating, Setup, Stopped, dev_list_contains, Cur
<1>1. CASE Scan
  BY <1>1, EnumerationType DEF Scan, Enumerate, EnumerateFails
<1>2. CASE SkipKnown
  BY <1>2 DEF SkipKnown
<1>3. CASE NewFound
  BY <1>3 DEF NewFound
<1>4. CASE ScanDone
  BY <1>4 DEF ScanDone
<1>5. CASE OpenFails \/ StringFails
  BY <1>5 DEF OpenFails, StringFails
<1>6. CASE Flush
  BY <1>6 DEF Flush
<1>7. CASE Drain
  BY <1>7 DEF Drain
<1>8. CASE Calibrate
  BY <1>8 DEF Calibrate
<1>9. CASE SetupFails
  BY <1>9 DEF SetupFails
<1>10. CASE Abort
  BY <1>10 DEF Abort
<1>11. QED
  BY <1>1, <1>2, <1>3, <1>4, <1>5, <1>6, <1>7, <1>8, <1>9, <1>10

(* The Joy-Con being created is not in the list.                           *)
CurOutside == Cur \in Pads /\ \A k \in Used : joycon[k] \in Pads \ {Cur}

LEMMA CreatingOutside ==
  ASSUME ListInv, pc \in Creating
  PROVE  CurOutside
BY PadsAssumption, MaxAssumption
   DEF ListInv, ListTypeOK, Compact, Newcomer, CurOutside, Used, Slots,
       Creating, Cur, dev_list_contains

(* The steps that open a handle, number its Joy-Con and enter it. *)
LEMMA JoinInv ==
  ASSUME ListInv, Open \/ AllOn \/ CreateFails \/ Number \/ Mode
  PROVE  ListInv'
<1> USE PadsAssumption, MaxAssumption
    DEF ListInv, ListTypeOK, Compact, NoDuplicate, LightsMatch, Newcomer,
        Used, Slots, Location, Creating, Setup, Stopped, dev_list_contains, Cur
<1>1. CASE Open
  BY <1>1 DEF Open
<1>2. CASE AllOn
  <2>1. CurOutside /\ joycon' \in [Slots -> Pads \cup {NULL}]
    BY <1>2, CreatingOutside DEF AllOn, CurOutside
  <2>2. ASSUME NEW k \in Used
        PROVE  joycon'[k] = joycon[k] /\ Used' = Used
    <3>1. k \in Slots /\ k # joycon_count
      OBVIOUS
    <3>2. CASE joycon_count \in Slots
      BY <1>2, <3>1, <3>2 DEF AllOn
    <3>3. CASE joycon_count \notin Slots
      BY <1>2, <3>3 DEF AllOn
    <3>4. QED
      BY <3>2, <3>3
  <2>3. ListTypeOK'
    BY <1>2, <2>1 DEF AllOn
  <2>4. Compact'
    BY <1>2, <2>1 DEF AllOn, CurOutside
  <2>5. NoDuplicate'
    BY <1>2, <2>2 DEF AllOn
  <2>6. LightsMatch'
    BY <1>2, <2>1, <2>2 DEF AllOn, CurOutside
  <2>7. Newcomer'
    BY <1>2, <2>1, <2>2 DEF AllOn, CurOutside
  <2>8. QED
    BY <2>3, <2>4, <2>5, <2>6, <2>7
<1>3. CASE CreateFails
  <2>1. CurOutside /\ joycon' \in [Slots -> Pads \cup {NULL}]
    BY <1>3, CreatingOutside DEF CreateFails, CurOutside
  <2>2. ASSUME NEW k \in Used
        PROVE  joycon'[k] = joycon[k] /\ Used' = Used
    <3>1. k \in Slots /\ k # joycon_count
      OBVIOUS
    <3>2. CASE joycon_count \in Slots
      BY <1>3, <3>1, <3>2 DEF CreateFails
    <3>3. CASE joycon_count \notin Slots
      BY <1>3, <3>3 DEF CreateFails
    <3>4. QED
      BY <3>2, <3>3
  <2>3. ListTypeOK'
    <3>1. cur_dev \in Seq(Pads) /\ cur_dev # <<>>
      BY <1>3 DEF CreateFails
    <3>2. Tail(cur_dev) \in Seq(Pads)
      BY <3>1
    <3>3. cur_dev' \in Seq(Pads)
      BY <1>3, <3>1, <3>2 DEF CreateFails
    <3>4. QED
      BY <1>3, <2>1, <3>3 DEF CreateFails
  <2>4. Compact'
    BY <1>3, <2>1 DEF CreateFails, CurOutside
  <2>5. NoDuplicate'
    BY <1>3, <2>2 DEF CreateFails
  <2>6. LightsMatch'
    BY <1>3, <2>1, <2>2 DEF CreateFails, CurOutside
  <2>7. Newcomer'
    BY <1>3, <2>1, <2>2 DEF CreateFails, CurOutside
  <2>8. QED
    BY <2>3, <2>4, <2>5, <2>6, <2>7
<1>4. CASE Number
  BY <1>4 DEF Number
<1>5. CASE Mode
  BY <1>5 DEF Mode
<1>6. QED
  BY <1>1, <1>2, <1>3, <1>4, <1>5

-----------------------------------------------------------------------------
(* dev_list_remove *)

(* The array without entry i, those above it one place lower. *)
LEMMA ClosedArray ==
  ASSUME ListTypeOK, Compact, pc = "idle", NEW i \in Used
  PROVE  LET n == joycon_count - 1
         IN  /\ Closed(i, n) \in [Slots -> Pads \cup {NULL}]
             /\ \A k \in 0 .. n - 1 :
                  Closed(i, n)[k] = joycon[IF k < i THEN k ELSE k + 1]
             /\ \A k \in Slots : k >= n => Closed(i, n)[k] = NULL
BY MaxAssumption
   DEF ListTypeOK, Compact, Closed, Used, Slots, Setup, Stopped

LEMMA RemoveInv == ListInv /\ Remove => ListInv'
<1> SUFFICES ASSUME ListInv, pc = "idle", NEW i \in Used, dev_list_remove(i)
             PROVE  ListInv'
  BY DEF Remove
<1> USE PadsAssumption, MaxAssumption
<1> DEFINE n == joycon_count - 1
           Old(k) == IF k < i THEN k ELSE k + 1
<1>1. /\ joycon' = Closed(i, n)
      /\ lights' = Renumbered(i, n)
      /\ joycon_count' = n
      /\ live' = [live EXCEPT ![joycon[i]] = FALSE]
      /\ UNCHANGED <<cur_dev, pc, linked>>
  BY GapEndIsLast DEF ListInv, dev_list_remove
<1>2. /\ n \in 0 .. MaxConnections - 1
      /\ \A k \in Used : k \in Slots /\ joycon[k] \in Pads
      /\ \A j, k \in Used : joycon[j] = joycon[k] => j = k
  BY DEF ListInv, ListTypeOK, Compact, NoDuplicate, Used, Slots
<1>3. /\ joycon' \in [Slots -> Pads \cup {NULL}]
      /\ \A k \in 0 .. n - 1 : joycon'[k] = joycon[Old(k)]
      /\ \A k \in Slots : k >= n => joycon'[k] = NULL
  BY <1>1, ClosedArray DEF ListInv
<1>4. ASSUME NEW k \in 0 .. n - 1
      PROVE  Old(k) \in Used \ {i}
  BY <1>2 DEF Used
<1>5. ASSUME NEW j \in i .. n - 1
      PROVE  /\ live[joycon[j + 1]] => lights'[joycon[j + 1]] = j + 1
             /\ ~ live[joycon[j + 1]] => lights'[joycon[j + 1]] = lights[joycon[j + 1]]
  <2>1. /\ j + 1 \in Used /\ joycon[j + 1] \in Pads
        /\ \A m \in i .. n - 1 : m + 1 \in Used
    BY <1>2 DEF Used
  <2>2. \A m \in i .. n - 1 : joycon[m + 1] = joycon[j + 1] => m = j
    BY <1>2, <2>1
  <2> DEFINE place == CHOOSE m \in i .. n - 1 : joycon[m + 1] = joycon[j + 1]
  <2>3. place = j
    BY <2>2
  <2>4. lights'[joycon[j + 1]] = IF live[joycon[j + 1]]
                                THEN 1 + place
                                ELSE lights[joycon[j + 1]]
    BY <1>1, <2>1 DEF Renumbered
  <2>5. j \in Int
    BY <1>2 DEF Used
  <2> HIDE DEF place
  <2>6. QED
    BY <2>3, <2>4, <2>5
<1>6. ASSUME NEW j \in 0 .. i - 1
      PROVE  lights'[joycon[j]] = lights[joycon[j]]
  <2>1. /\ j \in Used /\ joycon[j] \in Pads
        /\ \A m \in i .. n - 1 : m + 1 \in Used /\ m + 1 # j
    BY <1>2 DEF Used
  <2>2. \A m \in i .. n - 1 : joycon[m + 1] # joycon[j]
    BY <1>2, <2>1
  <2>3. QED
    BY <1>1, <2>1, <2>2 DEF Renumbered
<1>7. lights' \in [Pads -> 0 .. 15]
  <2>1. ASSUME NEW c \in Pads, \E j \in i .. n - 1 : joycon[j + 1] = c
        PROVE  1 + (CHOOSE j \in i .. n - 1 : joycon[j + 1] = c) \in 0 .. 15
    BY <1>2, <2>1 DEF Used
  <2>2. QED
    BY <1>1, <2>1 DEF Renumbered, ListInv, ListTypeOK
<1>8. ListTypeOK'
  BY <1>1, <1>2, <1>3, <1>7 DEF ListInv, ListTypeOK
<1>9. Compact'
  <2>1. \A k \in 0 .. n - 1 : joycon'[k] # NULL
    BY <1>2, <1>3, <1>4
  <2>2. QED
    BY <1>1, <1>2, <1>3, <2>1 DEF Compact, Slots
<1>10. NoDuplicate'
  BY <1>1, <1>2, <1>3, <1>4 DEF ListInv, NoDuplicate, Used
<1>11. LightsMatch'
  <2>1. ASSUME NEW k \in 0 .. n - 1, live'[joycon'[k]]
        PROVE  lights'[joycon'[k]] = k + 1
    <3>1. joycon'[k] = joycon[Old(k)] /\ joycon[Old(k)] \in Pads \ {joycon[i]}
      BY <1>2, <1>3, <1>4
    <3>2. live[joycon[Old(k)]]
      BY <1>1, <2>1, <3>1 DEF ListInv, ListTypeOK
    <3>3. CASE k < i
      <4>1. Old(k) = k /\ k \in 0 .. i - 1 /\ k \in Used
        BY <1>2, <3>3 DEF Used
      <4>2. lights[joycon[k]] = k + 1
        BY <3>2, <4>1 DEF ListInv, LightsMatch
      <4>3. QED
        BY <1>6, <3>1, <4>1, <4>2
    <3>4. CASE k >= i
      <4>1. Old(k) = k + 1 /\ k \in i .. n - 1
        BY <1>2, <3>4 DEF Used
      <4>2. QED
        BY <1>5, <3>1, <3>2, <4>1
    <3>5. QED
      BY <1>2, <3>3, <3>4 DEF Used
  <2>2. QED
    BY <1>1, <2>1 DEF LightsMatch, Used
<1>12. Newcomer'
  BY <1>1 DEF Newcomer, Creating, Setup
<1>13. QED
  BY <1>8, <1>9, <1>10, <1>11, <1>12 DEF ListInv

-----------------------------------------------------------------------------
(* The Joy-Cons come and go *)

LEMMA LinkInv ==
  ASSUME ListInv, NEW c \in Pads, LinkUp(c) \/ Drop(c)
  PROVE  ListInv'
<1> USE PadsAssumption, MaxAssumption DEF ListInv
<1>1. /\ UNCHANGED <<joycon, joycon_count, cur_dev, pc, lights>>
      /\ live' \in [Pads -> BOOLEAN]
      /\ linked' \in [Pads -> BOOLEAN]
      /\ \A d \in Pads : live'[d] => live[d]
  BY DEF LinkUp, Drop, ListTypeOK
<1>2. ListTypeOK' /\ Compact' /\ NoDuplicate'
  BY <1>1 DEF ListTypeOK, Compact, NoDuplicate, Used, Slots
<1>3. LightsMatch'
  <2>1. \A k \in Used : joycon[k] \in Pads
    BY DEF ListTypeOK, Compact, Used, Slots
  <2>2. QED
    BY <1>1, <2>1 DEF LightsMatch, Used
<1>4. Newcomer'
  <2>1. pc = "mode" => Cur \in Pads
    BY DEF Newcomer, ListTypeOK, Setup, Cur
  <2>2. QED
    BY <1>1, <2>1 DEF Newcomer, Cur, dev_list_contains, Used
<1>5. QED
  BY <1>2, <1>3, <1>4

-----------------------------------------------------------------------------
(* The theorems *)

LEMMA StepInv == ListInv /\ [ListNext]_listVars => ListInv'
<1> SUFFICES ASSUME ListInv, [ListNext]_listVars
             PROVE  ListInv'
  OBVIOUS
<1>1. CASE ListNext
  <2>1. CASE \E c \in Pads : LinkUp(c) \/ Drop(c)
    BY <2>1, LinkInv
  <2>2. CASE Remove
    BY <2>2, RemoveInv
  <2>3. CASE Scan \/ ConnectStep \/ Abort
    BY <2>3, CursorInv, JoinInv DEF ConnectStep
  <2>4. QED
    BY <1>1, <2>1, <2>2, <2>3 DEF ListNext
<1>2. CASE UNCHANGED listVars
  BY <1>2 DEF listVars, ListInv, ListTypeOK, Compact, NoDuplicate, LightsMatch,
              Newcomer, Used, Cur, dev_list_contains
<1>3. QED
  BY <1>1, <1>2

(* Every reachable state of the device list satisfies the invariant,       *)
(* whatever Joy-Cons connect, fail and leave, in any order.                *)
THEOREM ListInvariant == ListSpec => []ListInv
BY InitInv, StepInv, PTL DEF ListSpec

(* joycon_count stays between zero and MAX_CONNECTIONS and the other       *)
(* variables keep their types.                                             *)
THEOREM ListTypeCorrect == ListSpec => []ListTypeOK
<1>1. ListInv => ListTypeOK
  BY DEF ListInv
<1>2. QED
  BY <1>1, ListInvariant, PTL

(* The entries main dereferences below joycon_count are never NULL.        *)
THEOREM ListCompact == ListSpec => []Compact
<1>1. ListInv => Compact
  BY DEF ListInv
<1>2. QED
  BY <1>1, ListInvariant, PTL

(* No Joy-Con is opened twice: dev_list_contains is asked before the long  *)
(* connection sequence, and its answer holds until the entry counts.       *)
THEOREM ListNoDuplicate == ListSpec => []NoDuplicate
<1>1. ListInv => NoDuplicate
  BY DEF ListInv
<1>2. QED
  BY <1>1, ListInvariant, PTL

(* No step between the question to dev_list_contains and joycon_count++    *)
(* makes the newcomer's address a known one, or its number a wrong one.    *)
THEOREM ListNewcomer == ListSpec => []Newcomer
<1>1. ListInv => Newcomer
  BY DEF ListInv
<1>2. QED
  BY <1>1, ListInvariant, PTL

(* A Joy-Con rubusd can reach shows its place in the list: the loop of     *)
(* dev_list_remove renumbers every Joy-Con it moves and no other.          *)
THEOREM ListLightsMatch == ListSpec => []LightsMatch
<1>1. ListInv => LightsMatch
  BY DEF ListInv
<1>2. QED
  BY <1>1, ListInvariant, PTL

-----------------------------------------------------------------------------
(* The bound of the array *)

(* The entries in use and the newcomer have as many addresses between them. *)
LEMMA FullListHasAllAddresses ==
  ASSUME ListInv, EnoughRoom, pc \in Creating
  PROVE  joycon_count < MaxConnections
<1> DEFINE f == [k \in 0 .. joycon_count |->
                   IF k = joycon_count THEN AddressOf[Cur] ELSE AddressOf[joycon[k]]]
<1>1. /\ joycon_count \in Nat
      /\ CurOutside
      /\ \A k \in Used : AddressOf[joycon[k]] # AddressOf[Cur]
  <2>1. CurOutside
    BY CreatingOutside
  <2>2. QED
    BY <2>1, PadsAssumption, MaxAssumption
       DEF ListInv, ListTypeOK, Newcomer, dev_list_contains, CurOutside
<1>2. f \in Injection(0 .. joycon_count, Range(AddressOf))
  <2>1. \A k \in 0 .. joycon_count : k # joycon_count => k \in Used
    BY <1>1 DEF Used
  <2>2. f \in [0 .. joycon_count -> Range(AddressOf)]
    BY <1>1, <2>1, PadsAssumption DEF CurOutside
  <2>3. ASSUME NEW j \in 0 .. joycon_count, NEW k \in 0 .. joycon_count, f[j] = f[k]
        PROVE  j = k
    BY <1>1, <2>1, <2>3 DEF ListInv, NoDuplicate
  <2>4. QED
    BY <2>2, <2>3 DEF Injection, IsInjective
<1>3. IsFiniteSet(Range(AddressOf)) /\ Cardinality(Range(AddressOf)) \in Nat
  <2>1. AddressOf \in Surjection(Pads, Range(AddressOf))
    BY PadsAssumption DEF Surjection, Range
  <2>2. QED
    BY <2>1, PadsAssumption, FS_Surjection, FS_CardinalityType
<1>4. Cardinality(0 .. joycon_count) <= Cardinality(Range(AddressOf))
  BY <1>2, <1>3, FS_Injection
<1>5. Cardinality(0 .. joycon_count) = joycon_count + 1
  <2>1. 0 \in Int /\ joycon_count \in Int /\ ~ (0 > joycon_count)
    BY <1>1
  <2>2. Cardinality(0 .. joycon_count) = joycon_count - 0 + 1
    BY <2>1, FS_Interval, Zenon
  <2>3. QED
    BY <1>1, <2>2
<1>6. QED
  BY <1>1, <1>3, <1>4, <1>5, MaxAssumption DEF EnoughRoom

(* As long as the Joy-Cons paired with the host have at most               *)
(* MAX_CONNECTIONS addresses, the array is never written past its end,     *)
(* failed connections included.                                            *)
THEOREM ListNoOverrun == EnoughRoom => (ListSpec => []NoOverrun)
<1> SUFFICES ASSUME EnoughRoom
             PROVE  ListSpec => []NoOverrun
  OBVIOUS
<1>1. ListInit => NoOverrun
  BY DEF ListInit, NoOverrun
<1>2. ListInv /\ NoOverrun /\ [ListNext]_listVars => NoOverrun'
  <2> SUFFICES ASSUME ListInv, NoOverrun, [ListNext]_listVars
               PROVE  NoOverrun'
    OBVIOUS
  <2>1. CASE AllOn \/ CreateFails
    <3>1. joycon_count \in Slots
      BY <2>1, FullListHasAllAddresses, MaxAssumption
         DEF AllOn, CreateFails, Creating, Slots, ListInv, ListTypeOK
    <3>2. QED
      BY <2>1, <3>1 DEF AllOn, CreateFails, NoOverrun
  <2>2. CASE ~ (AllOn \/ CreateFails)
    BY <2>2 DEF NoOverrun, ListNext, ConnectStep, listVars, Scan, Enumerate,
         EnumerateFails, SkipKnown, NewFound, ScanDone, Open, OpenFails, StringFails,
         Flush, Drain, Calibrate, Number, Mode, SetupFails, Remove, dev_list_remove, Abort, LinkUp, Drop
  <2>3. QED
    BY <2>1, <2>2
<1>3. QED
  BY <1>1, <1>2, ListInvariant, PTL DEF ListSpec

-----------------------------------------------------------------------------
(* The list implements Roster *)

LEMMA RosterLen ==
  ASSUME ListTypeOK, Compact
  PROVE  /\ RosterOfList \in Seq(Pads)
         /\ Len(RosterOfList) = joycon_count
         /\ DOMAIN RosterOfList = 1 .. joycon_count
<1>1. \A k \in 1 .. joycon_count : joycon[k - 1] \in Pads
  BY MaxAssumption DEF ListTypeOK, Compact, Slots
<1>2. joycon_count \in Nat
  BY MaxAssumption DEF ListTypeOK
<1>3. RosterOfList \in Seq(Pads)
  BY <1>1, <1>2, SeqDef DEF RosterOfList
<1>4. QED
  BY <1>2, <1>3 DEF RosterOfList

(* joycon_count++ appends the newcomer. *)
LEMMA ModeJoins ==
  ASSUME ListInv, Mode
  PROVE  Abstract!Join(Cur)
<1>1. /\ joycon_count \in 0 .. MaxConnections - 1
      /\ joycon[joycon_count] = Cur /\ Cur \in Pads
      /\ joycon' = joycon /\ joycon_count' = joycon_count + 1
      /\ \A k \in Used : AddressOf[joycon[k]] # AddressOf[Cur]
  BY MaxAssumption
     DEF ListInv, ListTypeOK, Newcomer, Mode, Setup, Slots, Cur
<1>2. ListTypeOK /\ Compact /\ ListTypeOK' /\ Compact'
  BY JoinInv DEF ListInv
<1>3. RosterOfList' = Append(RosterOfList, Cur)
  BY <1>1, <1>2, RosterLen DEF RosterOfList
<1>4. \A k \in 1 .. joycon_count : AddressOf[RosterOfList[k]] # AddressOf[Cur]
  BY <1>1, <1>2, MaxAssumption
     DEF RosterOfList, Used, Compact, Slots
<1>5. QED
  BY <1>1, <1>2, <1>3, <1>4, RosterLen, MaxAssumption DEF Abstract!Join

(* dev_list_remove takes one Joy-Con out of the sequence. *)
LEMMA RemoveLeaves ==
  ASSUME ListInv, pc = "idle", NEW i \in Used, dev_list_remove(i)
  PROVE  Abstract!Leave(i + 1)
<1> DEFINE n == joycon_count - 1
<1>1. joycon_count \in Nat /\ i \in 0 .. n
  BY MaxAssumption DEF ListInv, ListTypeOK, Used
<1>2. /\ joycon' = Closed(i, n) /\ joycon_count' = n
      /\ \A k \in 0 .. n - 1 : Closed(i, n)[k] = joycon[IF k < i THEN k ELSE k + 1]
  BY GapEndIsLast, ClosedArray DEF ListInv, dev_list_remove
<1>3. RosterOfList \in Seq(Pads) /\ Len(RosterOfList) = joycon_count
  BY RosterLen DEF ListInv
<1>4. i + 1 \in 1 .. Len(RosterOfList)
  BY <1>1, <1>3
<1> DEFINE r == Without(RosterOfList, i + 1)
<1>5. r = [k \in 1 .. n |-> RosterOfList[IF k < i + 1 THEN k ELSE k + 1]]
  <2> DEFINE s == RosterOfList
             m == i + 1
  <2>1. s \in Seq(Pads) /\ m \in 1 .. Len(s) /\ Len(s) - 1 = n
    BY <1>3, <1>4
  <2> HIDE DEF s, m, n
  <2>2. Without(s, m) = [k \in 1 .. Len(s) - 1 |-> s[IF k < m THEN k ELSE k + 1]]
    BY <2>1, WithoutOne
  <2>3. QED
    BY <2>1, <2>2 DEF s, m
<1>6. ASSUME NEW k \in 1 .. n
      PROVE  RosterOfList[IF k < i + 1 THEN k ELSE k + 1] = joycon'[k - 1]
  BY <1>1, <1>2 DEF RosterOfList
<1>7. RosterOfList' = r
  BY <1>2, <1>5, <1>6 DEF RosterOfList
<1>8. QED
  BY <1>7 DEF Abstract!Leave, Abstract!RemoveAt, Without

(* The array with its counter, its NULLs and its connection sequence       *)
(* implements the sequence of players that Roster promises: a newcomer     *)
(* gets the last number, a removal keeps the others in order.              *)
THEOREM ListImplementsRoster == ListSpec => ImplementsRoster
<1>1. ListInit => Abstract!Init
  BY DEF ListInit, Abstract!Init, RosterOfList
<1>2. ListInv /\ [ListNext]_listVars => [Abstract!Next]_RosterOfList
  <2> SUFFICES ASSUME ListInv, [ListNext]_listVars
               PROVE  [Abstract!Next]_RosterOfList
    OBVIOUS
  <2>1. CASE Mode
    <3>1. Cur \in Pads
      BY <2>1 DEF ListInv, ListTypeOK, Newcomer, Setup, Mode, Cur
    <3>2. QED
      BY <2>1, <3>1, ModeJoins DEF Abstract!Next
  <2>2. CASE Remove
    <3>1. PICK i \in Used : dev_list_remove(i)
      BY <2>2 DEF Remove
    <3>2. Abstract!Leave(i + 1)
      BY <2>2, <3>1, RemoveLeaves DEF Remove
    <3>3. i + 1 \in DOMAIN RosterOfList
      BY RosterLen, MaxAssumption DEF ListInv, ListTypeOK, Used
    <3>4. QED
      BY <3>2, <3>3 DEF Abstract!Next
  <2>3. CASE ~ (Mode \/ Remove)
    <3>1. /\ joycon_count' = joycon_count
          /\ \A k \in Used : joycon'[k] = joycon[k]
      BY <2>3, MaxAssumption
         DEF ListNext, ConnectStep, listVars, Scan, Enumerate, EnumerateFails,
             SkipKnown, NewFound, ScanDone, Open, OpenFails, StringFails, Flush,
             Drain, AllOn, CreateFails, Calibrate, Number, SetupFails, Abort,
             LinkUp, Drop, ListInv, ListTypeOK, Used, Slots
    <3>2. UNCHANGED RosterOfList
      BY <3>1 DEF RosterOfList, Used, ListInv, ListTypeOK
    <3>3. QED
      BY <3>2
  <2>4. QED
    BY <2>1, <2>2, <2>3
<1>3. QED
  BY <1>1, <1>2, ListInvariant, PTL DEF ListSpec, ImplementsRoster, Abstract!Spec

-----------------------------------------------------------------------------
(* dev_list_connect_new comes to an end *)

(* It has steps left, and before an entry is done with there is one.       *)
LEMMA EntryLeft ==
  ASSUME ListInv, pc \notin {"idle"} \cup Stopped
  PROVE  /\ Len(cur_dev) \in Nat /\ StepsLeft \in Nat /\ StepsLeft > 0
         /\ pc # "scan" => cur_dev # <<>>
         /\ cur_dev # <<>> =>
              /\ Len(cur_dev) >= 1 /\ Len(Tail(cur_dev)) = Len(cur_dev) - 1
              /\ StepsLeft >= 8 * Len(cur_dev) - 6
<1>1. /\ cur_dev \in Seq(Pads)
      /\ pc \in {"scan", "open", "flush", "drain", "all_on", "calibrate", "number", "mode"}
      /\ pc # "scan" => cur_dev # <<>>
  BY DEF ListInv, ListTypeOK, Newcomer, Location, Creating, Setup
<1>2. Len(cur_dev) \in Nat /\ (cur_dev # <<>> => Len(cur_dev) >= 1)
  BY <1>1
<1>3. cur_dev # <<>> => Len(Tail(cur_dev)) = Len(cur_dev) - 1
  BY <1>1
<1>4. /\ StepsLeft \in Int
      /\ 8 * Len(cur_dev) - 6 <= StepsLeft
      /\ pc = "scan" => StepsLeft = 8 * Len(cur_dev) + 1
  BY <1>1, <1>2 DEF StepsLeft, Stopped
<1>5. StepsLeft > 0
  BY <1>1, <1>2, <1>4
<1>6. QED
  BY <1>1, <1>2, <1>3, <1>4, <1>5

(* The entry is left behind, or the function with it, or one step of its   *)
(* set-up is.                                                              *)
LEMMA ConnectAdvances ==
  ASSUME ListInv, ConnectStep
  PROVE  0 <= StepsLeft' /\ StepsLeft' < StepsLeft
<1>1. pc \notin {"idle"} \cup Stopped
  BY DEF ConnectStep, SkipKnown, NewFound, ScanDone, Open, OpenFails, StringFails, Flush,
         Drain, AllOn, CreateFails, Calibrate, Number, Mode, SetupFails, Stopped, Setup
<1>2. PICK l \in Nat : l = Len(cur_dev)
  BY <1>1, EntryLeft
<1>3. /\ StepsLeft \in Nat /\ StepsLeft > 0
      /\ pc # "scan" => cur_dev # <<>>
      /\ cur_dev # <<>> => l >= 1 /\ Len(Tail(cur_dev)) = l - 1 /\ StepsLeft >= 8 * l - 6
  BY <1>1, <1>2, EntryLeft
<1>4. CASE pc' \in {"idle"} \cup Stopped
  <2>1. StepsLeft' = 0
    BY <1>4 DEF StepsLeft
  <2>2. QED
    BY <1>3, <2>1
<1>5. CASE cur_dev # <<>> /\ pc' = "scan" /\ cur_dev' = Tail(cur_dev)
  <2>1. Len(cur_dev') = l - 1 /\ l >= 1
    BY <1>3, <1>5
  <2>2. StepsLeft' = 8 * (l - 1) + 1
    BY <1>5, <2>1 DEF StepsLeft, Stopped
  <2>3. QED
    BY <1>3, <1>5, <2>1, <2>2
<1>6. CASE /\ cur_dev' = cur_dev /\ cur_dev # <<>>
           /\ <<pc, pc'>> \in {<<"scan", "open">>, <<"open", "flush">>, <<"flush", "drain">>,
                <<"drain", "all_on">>, <<"all_on", "calibrate">>, <<"calibrate", "number">>,
                <<"number", "mode">>}
  <2>1. Len(cur_dev') = l /\ Len(cur_dev) = l /\ l >= 1
    BY <1>2, <1>3, <1>6
  <2>2. \E r \in -6 .. 0 : StepsLeft' = 8 * l + r /\ StepsLeft = 8 * l + (r + 1)
    BY <1>6, <2>1 DEF StepsLeft, Stopped
  <2>3. QED
    BY <1>2, <2>1, <2>2
<1>7. CASE SkipKnown \/ Mode \/ CreateFails
  BY <1>3, <1>4, <1>5, <1>7 DEF SkipKnown, Mode, CreateFails, Stopped
<1>8. CASE ScanDone \/ OpenFails \/ StringFails \/ SetupFails
  BY <1>4, <1>8 DEF ScanDone, OpenFails, StringFails, SetupFails, Stopped
<1>9. CASE NewFound \/ Open \/ Flush \/ Drain \/ AllOn \/ Calibrate \/ Number
  BY <1>3, <1>4, <1>6, <1>9
     DEF NewFound, Open, Flush, Drain, AllOn, Calibrate, Number, Stopped
<1>10. QED
  BY <1>7, <1>8, <1>9 DEF ConnectStep

(* However many Joy-Cons are found and whatever becomes of each, the scan  *)
(* takes no more than eight steps for each of them.  That it takes them,   *)
(* but for the drain loop on a dead handle, is what ConnectEnds adds under *)
(* fairness.                                                               *)
THEOREM ListScanAdvances == ListSpec => ScanAdvances
<1>1. ASSUME ListInv, ListNext, pc \notin {"idle"} \cup Stopped
      PROVE  \/ 0 <= StepsLeft' /\ StepsLeft' < StepsLeft
             \/ UNCHANGED <<joycon, joycon_count, cur_dev, pc, lights>>
  <2>1. CASE ConnectStep
    BY <1>1, <2>1, ConnectAdvances
  <2>2. CASE \E c \in Pads : LinkUp(c) \/ Drop(c)
    BY <2>2 DEF LinkUp, Drop
  <2>3. QED
    BY <1>1, <2>1, <2>2 DEF ListNext, Scan, Enumerate, EnumerateFails, Remove, Abort
<1>2. ListInv /\ [ListNext]_listVars =>
        [pc \notin {"idle"} \cup Stopped =>
           \/ 0 <= StepsLeft' /\ StepsLeft' < StepsLeft
           \/ UNCHANGED <<joycon, joycon_count, cur_dev, pc, lights>>]_listVars
  BY <1>1
<1>3. QED
  BY <1>2, ListInvariant, PTL DEF ListSpec, ScanAdvances
=============================================================================

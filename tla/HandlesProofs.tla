---------------------------- MODULE HandlesProofs ----------------------------
(***************************************************************************)
(* Proofs about the files behind the device list.                          *)
(***************************************************************************)
EXTENDS Handles, DevListProofs

-----------------------------------------------------------------------------
(* What happens to the files is a behaviour of DevList *)

LEMMA HandlesListStep == [HandlesNext]_handlesVars => [ListNext]_listVars
BY DEF HandlesNext, ConnectFiles, OpenFile, OpenFileFails, CreateForgets, UseFile,
       RemoveCloses, handlesVars, ListNext, ConnectStep, Remove

(* Whatever is proved of the list holds of it here. *)
THEOREM HandlesImplementsList == HandlesSpec => ListSpec
<1>1. HandlesInit => ListInit
  BY DEF HandlesInit
<1>2. QED
  BY <1>1, HandlesListStep, PTL DEF HandlesSpec, ListSpec

-----------------------------------------------------------------------------
(* The Joy-Cons rubusd works with *)

Working == Listed \cup InSetUp

LEMMA SetUpCount ==
  /\ Cardinality(InSetUp) = IF pc \in Opened THEN 1 ELSE 0
  /\ Cardinality(InSetUp)' = IF pc' \in Opened THEN 1 ELSE 0
<1>1. Cardinality({}) = 0 /\ Cardinality({Cur}) = 1 /\ Cardinality({Cur'}) = 1
  BY FS_EmptySet, FS_Singleton
<1>2. InSetUp = (IF pc \in Opened THEN {Cur} ELSE {})
      /\ InSetUp' = (IF pc' \in Opened THEN {Cur'} ELSE {})
  BY DEF InSetUp, Opened, Setup
<1>3. QED
  BY <1>1, <1>2

(* The list holds Joy-Cons, and not the one that is being connected. *)
LEMMA WorkingPads ==
  ASSUME ListInv
  PROVE  /\ Working \subseteq Pads
         /\ joycon_count \in Nat
         /\ pc \in Creating \cup Setup => Cur \in Pads /\ Cur \notin Listed
<1> USE MaxAssumption
    DEF ListInv, ListTypeOK, Compact, Newcomer, Listed, Used, Slots, Creating, Setup, Cur
<1>1. joycon_count \in Nat /\ Listed \subseteq Pads
  OBVIOUS
<1>2. pc \in Creating \cup Setup => Cur \in Pads /\ Cur \notin Listed
  OBVIOUS
<1>3. QED
  BY <1>1, <1>2 DEF Working, InSetUp, Opened

(* Between the opening of a file and its closing the Joy-Con moves from    *)
(* the set-up to the list.                                                 *)
LEMMA WorkingStays ==
  ASSUME ListInv,
         \/ UseFile \/ OpenFails \/ Scan \/ Abort \/ UNCHANGED listVars
         \/ \E c \in Pads : LinkUp(c) \/ Drop(c)
  PROVE  /\ Working' \subseteq Working
         /\ \/ pc' \in Stopped
            \/ joycon_count' + Cardinality(InSetUp)' = joycon_count + Cardinality(InSetUp)
<1>1. joycon_count \in Nat /\ joycon \in [Slots -> Pads \cup {NULL}]
      /\ Used \subseteq Slots /\ joycon_count \notin Used
  BY MaxAssumption DEF ListInv, ListTypeOK, Used, Slots
<1>2. CASE AllOn
  <2>1. Listed' = Listed
    BY <1>1, <1>2 DEF AllOn, Listed, Used
  <2>2. UNCHANGED <<joycon_count, cur_dev>> /\ pc \in Opened /\ pc' \in Setup \cup Stopped
    BY <1>2 DEF AllOn, Opened, Setup, Stopped
  <2>3. Cardinality(InSetUp) = 1 /\ (pc' \in Setup => Cardinality(InSetUp)' = 1)
    BY <2>2, SetUpCount DEF Opened
  <2>4. QED
    BY <2>1, <2>2, <2>3 DEF Working, InSetUp, Cur
<1>3. CASE Mode
  <2>1. joycon_count' = joycon_count + 1 /\ joycon' = joycon /\ pc = "mode" /\ pc' = "scan"
    BY <1>3 DEF Mode
  <2>2. joycon[joycon_count] = Cur
    BY <2>1 DEF ListInv, Newcomer, Setup
  <2>3. Used' = Used \cup {joycon_count}
    BY <1>1, <2>1 DEF Used
  <2>4. Listed' = Listed \cup {Cur}
    BY <2>1, <2>2, <2>3 DEF Listed
  <2>5. InSetUp = {Cur} /\ InSetUp' = {}
    BY <2>1 DEF InSetUp, Opened, Setup
  <2>6. Cardinality(InSetUp) = 1 /\ Cardinality(InSetUp)' = 0
    BY <2>1, SetUpCount DEF Opened, Setup
  <2>7. QED
    BY <1>1, <2>1, <2>4, <2>5, <2>6 DEF Working
<1>4. CASE \/ SkipKnown \/ NewFound \/ ScanDone \/ Flush \/ Drain \/ Calibrate \/ Number
           \/ Enumerate \/ UNCHANGED listVars
           \/ \E c \in Pads : LinkUp(c) \/ Drop(c)
  <2>1. UNCHANGED <<joycon, joycon_count>>
    BY <1>4 DEF SkipKnown, NewFound, ScanDone, Flush, Drain, Calibrate, Number,
         Enumerate, LinkUp, Drop, listVars
  <2>2. (pc \in Opened <=> pc' \in Opened) /\ (pc \in Opened => cur_dev' = cur_dev)
    BY <1>4 DEF SkipKnown, NewFound, ScanDone, Flush, Drain, Calibrate, Number,
         Enumerate, LinkUp, Drop, listVars, Opened, Setup
  <2>3. Listed' = Listed /\ InSetUp' = InSetUp
    BY <2>1, <2>2 DEF Listed, Used, InSetUp, Cur
  <2>4. QED
    BY <2>1, <2>3 DEF Working
<1>5. CASE OpenFails \/ StringFails \/ SetupFails \/ EnumerateFails \/ Abort
  <2>1. UNCHANGED <<joycon, joycon_count>> /\ pc' \in Stopped
    BY <1>5 DEF OpenFails, StringFails, SetupFails, EnumerateFails, Abort, Stopped
  <2>2. Listed' = Listed /\ InSetUp' = {}
    BY <2>1 DEF Listed, Used, InSetUp, Opened, Setup, Stopped
  <2>3. QED
    BY <2>1, <2>2 DEF Working
<1>6. QED
  BY <1>2, <1>3, <1>4, <1>5 DEF UseFile, Scan

(* dev_list_remove takes one Joy-Con out of the list. *)
LEMMA RemoveListed ==
  ASSUME ListInv, pc = "idle", NEW i \in Used, dev_list_remove(i)
  PROVE  /\ joycon[i] \in Working
         /\ Working' \subseteq Working \ {joycon[i]}
         /\ joycon_count' = joycon_count - 1 /\ pc' = "idle"
<1> DEFINE n == joycon_count - 1
           Old(k) == IF k < i THEN k ELSE k + 1
<1>1. /\ joycon' = Closed(i, n) /\ joycon_count' = n /\ pc' = pc
      /\ \A k \in 0 .. n - 1 : Closed(i, n)[k] = joycon[Old(k)]
  BY GapEndIsLast, ClosedArray DEF ListInv, dev_list_remove
<1>2. joycon_count \in Nat /\ i \in 0 .. n
  BY MaxAssumption DEF ListInv, ListTypeOK, Used
<1>3. \A k \in 0 .. n - 1 : Old(k) \in Used /\ Old(k) # i
  BY <1>2 DEF Used
<1>4. \A k \in Used : k # i => joycon[k] # joycon[i]
  BY DEF ListInv, NoDuplicate
<1>5. Used' = 0 .. n - 1
  BY <1>1 DEF Used
<1> HIDE DEF Old
<1>6. \A k \in Used' : joycon'[k] \in Listed \ {joycon[i]}
  BY <1>1, <1>3, <1>4, <1>5 DEF Listed
<1>7. InSetUp' = {} /\ joycon[i] \in Listed
  BY <1>1 DEF InSetUp, Opened, Setup, Listed
<1>8. QED
  BY <1>1, <1>6, <1>7 DEF Working, Listed

-----------------------------------------------------------------------------
(* The files *)

(* No two structures hold the same file, and what they hold is open. *)
Apart ==
  \A c \in Pads : handle[c] # NULL =>
    /\ handle[c] \in open
    /\ \A d \in Pads : handle[d] = handle[c] => d = c

FilesInv ==
  /\ HandlesTypeOK
  /\ Apart
  /\ \A c \in Working : handle[c] # NULL
  /\ Accounted

LEMMA OpenCount ==
  ASSUME HandlesTypeOK
  PROVE  IsFiniteSet(open) /\ Cardinality(open) \in Nat
BY FilesAssumption, FS_Subset, FS_CardinalityType DEF HandlesTypeOK

LEMMA FilesStep ==
  ASSUME ListInv, FilesInv, [HandlesNext]_handlesVars
  PROVE  FilesInv'
<1> USE DEF FilesInv
<1>1. IsFiniteSet(open) /\ Cardinality(open) \in Nat /\ failures \in Nat
  BY OpenCount DEF HandlesTypeOK
<1>2. CASE OpenFile
  <2>1. PICK f \in Free : /\ open' = open \cup {f}
                          /\ handle' = [handle EXCEPT ![Cur] = f]
    BY <1>2 DEF OpenFile
  <2>2. /\ pc = "open" /\ pc' = "flush" /\ failures' = failures
        /\ UNCHANGED <<joycon, joycon_count, cur_dev>>
        /\ Cur \in Pads /\ f \in Files /\ f \notin open /\ f # NULL
    BY <1>2, <2>1, WorkingPads, FilesAssumption DEF OpenFile, Open, Creating, Free
  <2>3. HandlesTypeOK'
    BY <2>1, <2>2 DEF HandlesTypeOK
  <2>4. Apart'
    BY <2>1, <2>2 DEF Apart, HandlesTypeOK
  <2>5. Working' = Working \cup {Cur}
    BY <2>2 DEF Working, Listed, Used, InSetUp, Opened, Setup, Cur
  <2>6. \A c \in Working' : handle'[c] # NULL
    BY <2>1, <2>2, <2>5, WorkingPads DEF HandlesTypeOK
  <2>7. Cardinality(open') = Cardinality(open) + 1
    BY <1>1, <2>1, <2>2, FS_AddElement
  <2>8. Cardinality(InSetUp) = 0 /\ Cardinality(InSetUp)' = 1
    BY <2>2, SetUpCount DEF Opened, Setup
  <2>9. Cardinality(open) = joycon_count + 0 + failures
    BY <2>2, <2>8 DEF Accounted, Stopped
  <2>10. Accounted'
    BY <1>1, <2>2, <2>7, <2>8, <2>9, WorkingPads DEF Accounted
  <2>11. QED
    BY <2>3, <2>4, <2>6, <2>10
<1>3. CASE CreateForgets
  <2>1. /\ CreateFails /\ handle' = [handle EXCEPT ![Cur] = NULL]
        /\ failures' = failures + 1 /\ open' = open
    BY <1>3 DEF CreateForgets, Forgotten
  <2>2. pc \in {"flush", "all_on"} /\ pc' \in {"scan", "overrun"} /\ UNCHANGED joycon_count
    BY <2>1 DEF CreateFails
  <2>3. Cur \in Pads /\ Cur \notin Listed
    BY <2>2, WorkingPads DEF Creating
  <2>4. HandlesTypeOK' /\ Apart'
    BY <1>1, <2>1, <2>3 DEF HandlesTypeOK, Apart
  <2>5. Used' = Used /\ \A k \in Used : joycon'[k] = joycon[k]
    <3>1. joycon \in [Slots -> Pads \cup {NULL}] /\ joycon_count \notin Used
          /\ Used \subseteq Slots
      BY MaxAssumption DEF ListInv, ListTypeOK, Used, Slots
    <3>2. QED
      BY <2>1, <2>2, <3>1 DEF CreateFails, Used
  <2>6. Working' = Listed
    BY <2>2, <2>5 DEF Working, Listed, InSetUp, Opened, Setup
  <2>7. \A c \in Working' : handle'[c] # NULL
    BY <2>1, <2>3, <2>6, WorkingPads DEF Working, HandlesTypeOK
  <2>8. Cardinality(InSetUp) = 1 /\ Cardinality(InSetUp)' = 0
    BY <2>2, SetUpCount DEF Opened, Setup
  <2>9. Cardinality(open) = joycon_count + 1 + failures
    BY <2>2, <2>8 DEF Accounted, Stopped
  <2>10. Accounted'
    BY <1>1, <2>1, <2>2, <2>8, <2>9, WorkingPads DEF Accounted
  <2>11. QED
    BY <2>4, <2>7, <2>10
<1>4. CASE RemoveCloses
  <2>1. PICK i \in Used : /\ dev_list_remove(i)
                          /\ open' = open \ {handle[joycon[i]]}
                          /\ handle' = [handle EXCEPT ![joycon[i]] = NULL]
    BY <1>4 DEF RemoveCloses, Closing
  <2>2. pc = "idle" /\ failures' = failures
    BY <1>4 DEF RemoveCloses
  <2>3. /\ joycon[i] \in Working /\ Working' \subseteq Working \ {joycon[i]}
        /\ joycon_count' = joycon_count - 1 /\ pc' = "idle"
    BY <2>1, <2>2, RemoveListed
  <2>4. joycon[i] \in Pads /\ handle[joycon[i]] # NULL /\ handle[joycon[i]] \in open
    BY <2>3, WorkingPads DEF Apart
  <2>5. HandlesTypeOK' /\ Apart'
    BY <2>1, <2>2, <2>4 DEF HandlesTypeOK, Apart
  <2>6. \A c \in Working' : handle'[c] # NULL
    BY <2>1, <2>3, <2>4, WorkingPads DEF HandlesTypeOK
  <2>7. Cardinality(open') = Cardinality(open) - 1
    BY <1>1, <2>1, <2>4, FS_RemoveElement
  <2>8. Cardinality(InSetUp) = 0 /\ Cardinality(InSetUp)' = 0
    BY <2>2, <2>3, SetUpCount DEF Opened, Setup
  <2>9. Cardinality(open) = joycon_count + 0 + failures
    BY <2>2, <2>8 DEF Accounted, Stopped
  <2>10. Accounted'
    BY <1>1, <2>2, <2>3, <2>7, <2>8, <2>9, WorkingPads DEF Accounted
  <2>11. QED
    BY <2>5, <2>6, <2>10
<1>5. CASE /\ UNCHANGED filesVars
           /\ \/ UseFile \/ OpenFails \/ Scan \/ Abort \/ UNCHANGED listVars
              \/ \E c \in Pads : LinkUp(c) \/ Drop(c)
  <2>1. UNCHANGED <<open, handle, failures>>
    BY <1>5 DEF filesVars
  <2>2. Working' \subseteq Working
    BY <1>5, WorkingStays
  <2>3. HandlesTypeOK' /\ Apart' /\ \A c \in Working' : handle'[c] # NULL
    BY <2>1, <2>2 DEF HandlesTypeOK, Apart
  <2>4. \/ pc' \in Stopped
        \/ joycon_count' + Cardinality(InSetUp)' = joycon_count + Cardinality(InSetUp)
    BY <1>5, WorkingStays
  <2>5. pc \in Stopped => pc' \in Stopped
    BY <1>5 DEF Stopped, UseFile, SkipKnown, NewFound, ScanDone, StringFails, Flush,
         Drain, AllOn, Calibrate, Number, Mode, SetupFails, OpenFails, Scan, Enumerate,
         EnumerateFails, Abort, LinkUp, Drop, listVars, Setup
  <2>6. Accounted'
    BY <2>1, <2>4, <2>5 DEF Accounted
  <2>7. QED
    BY <2>3, <2>6
<1>6. QED
  BY <1>2, <1>3, <1>4, <1>5
     DEF HandlesNext, ConnectFiles, OpenFileFails, handlesVars

LEMMA FilesInvariant == HandlesSpec => [](ListInv /\ FilesInv)
<1>1. HandlesInit => ListInv /\ FilesInv
  <2> SUFFICES ASSUME HandlesInit
               PROVE  ListInv /\ FilesInv
    OBVIOUS
  <2>1. ListInv
    BY InitInv DEF HandlesInit
  <2>2. open = {} /\ handle = [c \in Pads |-> NULL] /\ failures = 0
        /\ pc = "idle" /\ joycon_count = 0
    BY DEF HandlesInit, ListInit
  <2>3. Working = {}
    BY <2>2 DEF Working, Listed, Used, InSetUp, Opened, Setup
  <2>4. Accounted
    <3>1. Cardinality(open) = 0 /\ Cardinality(InSetUp) = 0
      BY <2>2, FS_EmptySet, SetUpCount DEF Opened, Setup
    <3>2. QED
      BY <2>2, <3>1 DEF Accounted
  <2>5. QED
    BY <2>1, <2>2, <2>3, <2>4 DEF FilesInv, HandlesTypeOK, Apart
<1>2. ListInv /\ FilesInv /\ [HandlesNext]_handlesVars => (ListInv /\ FilesInv)'
  BY FilesStep, HandlesListStep, StepInv
<1>3. QED
  BY <1>1, <1>2, PTL DEF HandlesSpec

(* The files have numbers the process was given, or no structure.          *)
THEOREM HandlesTypeCorrect == HandlesSpec => []HandlesTypeOK
<1>1. FilesInv => HandlesTypeOK
  BY DEF FilesInv
<1>2. QED
  BY <1>1, FilesInvariant, PTL

(* Every Joy-Con rubusd works with has an open file of its own, for any    *)
(* number of them and of files.                                            *)
THEOREM HandlesOwnFile == HandlesSpec => []OwnFile
<1>1. ListInv /\ FilesInv => OwnFile
  BY WorkingPads DEF FilesInv, Apart, OwnFile, Working
<1>2. QED
  BY <1>1, FilesInvariant, PTL

(* jc_create's failures lose a file each, and nothing else loses any. *)
THEOREM HandlesAccounted == HandlesSpec => []Accounted
<1>1. FilesInv => Accounted
  BY DEF FilesInv
<1>2. QED
  BY <1>1, FilesInvariant, PTL

(* Where the array has room for every address, rubusd survives as many     *)
(* failures of jc_create as it has files more than entries.                *)
THEOREM HandlesRunOutLate == EnoughRoom => (HandlesSpec => []RunsOutLate)
<1> SUFFICES ASSUME EnoughRoom
             PROVE  HandlesSpec => []RunsOutLate
  OBVIOUS
<1>1. ASSUME ListInv, FilesInv, pc = "open", Free = {}
      PROVE  failures > Cardinality(Files) - MaxConnections
  <2>1. open = Files
    BY <1>1 DEF Free, FilesInv, HandlesTypeOK
  <2>2. joycon_count < MaxConnections
    BY <1>1, FullListHasAllAddresses DEF Creating
  <2>3. Cardinality(open) = joycon_count + 0 + failures
    BY <1>1, SetUpCount DEF FilesInv, Accounted, Stopped, Opened, Setup
  <2>4. QED
    BY <1>1, <2>1, <2>2, <2>3, WorkingPads, OpenCount, MaxAssumption
       DEF FilesInv, HandlesTypeOK
<1>2. ListInv /\ FilesInv => RunsOutLate
  BY <1>1 DEF RunsOutLate
<1>3. QED
  BY <1>2, FilesInvariant, PTL
=============================================================================

--------------------------- MODULE ShutdownProofs ----------------------------
(***************************************************************************)
(* Proofs about the process and its signals, for an array of any size and  *)
(* any number of structures.                                               *)
(*                                                                         *)
(* Until the first signal the invariant is the shape of the list at each   *)
(* place of the program.  A handler is never resumed once another runs     *)
(* within it, so that of a single one it says what lies ahead of its       *)
(* index: structures that are live, each of them once.                     *)
(***************************************************************************)
EXTENDS Shutdown, RosterLemmas, FiniteSetTheorems, TLAPS

(* The entries that are in use, at each place of the program. *)
Filled ==
  (0 .. (IF pc \in {"setup", "shift", "moved"} THEN joycon_count ELSE joycon_count - 1))
    \ (IF pc \in {"cleared", "shift"} THEN {j} ELSE {})

Twice == IF pc = "moved" THEN {j} ELSE {}

Destroyed == IF pc = "freed" THEN {j} ELSE {}

Shape ==
  /\ \A k \in Slots : joycon[k] # NULL <=> k \in Filled
  /\ \A k, l \in Filled \ Twice : joycon[k] = joycon[l] => k = l
  /\ pc = "moved" => joycon[j] = joycon[j + 1]
  /\ \A k \in Filled \ Destroyed : heap[joycon[k]] = "live"
  /\ \A s \in Structs : heap[s] = "live" =>
       (pc = "store" /\ s = con) \/ \E k \in Filled \ Destroyed : joycon[k] = s
  /\ pc = "freed" => heap[joycon[j]] # "live"
  /\ pc = "store" => con \in Structs /\ heap[con] = "live" /\ \A k \in Slots : joycon[k] # con
  /\ pc \in {"args", "start"} => joycon_count = 0

Bounds ==
  /\ pc \in {"store", "setup", "shift", "moved"} => joycon_count < MaxConnections
  /\ pc \in {"freed", "cleared", "moved"} => j < joycon_count
  /\ pc = "shift" => j <= joycon_count

(* No signal has come. *)
ProgramInv ==
  frames = <<>> =>
    /\ ended \in {"no", "exit 1"}
    /\ gamepad = IF pc \in {"args", "start"} THEN "none" ELSE "made"
    /\ Bounds
    /\ Shape

Step == Head(frames).at

(* What the handler has still to look at. *)
From == IF Step \in {"gamepad", "empty"} THEN Index ELSE Index + 1

Ahead ==
  \A k \in Slots : k >= From /\ joycon[k] # NULL =>
    /\ heap[joycon[k]] = "live"
    /\ \A l \in Slots : l >= From /\ joycon[l] = joycon[k] => l = k

Half ==
  /\ joycon_count = listed - Index
  /\ 2 * Index <= listed + 1
  /\ \A k \in Slots : k < listed => (Live(k) <=> k >= From)

(* Any handler. *)
HandlerInv ==
  frames # <<>> =>
    /\ Step = "gamepad" => Index = 0
    /\ Step \in {"clear", "count"} => Index < joycon_count
    /\ ended = "exit 0" => Step = "empty" /\ Index >= joycon_count

(* One handler. *)
SingleInv ==
  Len(frames) = 1 =>
    /\ Step = "gamepad" => gamepad = "made" \/ place \in {"args", "start"}
    /\ place \notin {"freed", "moved"} => Ahead
    /\ place = "loop" => Half
    /\ ended = "fault" => place \in {"args", "start", "freed", "moved"}

Inv == TypeOK /\ ProgramInv /\ HandlerInv /\ SingleInv

-----------------------------------------------------------------------------
(* The program *)

(* Before the first signal. *)
Quiet == TypeOK /\ frames = <<>> /\ ended = "no" /\ ProgramInv

Kept == TypeOK /\ frames = <<>> /\ ProgramInv

LEMMA InitInv == Init => Inv
<1> SUFFICES ASSUME Init PROVE Inv
  OBVIOUS
<1> USE ProcessAssumption
<1>1. TypeOK
  BY DEF Init, TypeOK, Places
<1>2. ProgramInv
  BY DEF Init, ProgramInv, Bounds, Shape, Filled, Twice, Destroyed, Slots
<1>3. HandlerInv /\ SingleInv
  BY DEF Init, HandlerInv, SingleInv
<1>4. QED
  BY <1>1, <1>2, <1>3 DEF Inv

(* Where the process ends, or the list stays. *)
LEMMA OutsideStep ==
  ASSUME Quiet, ParseArgs \/ CreateGamepad \/ WriteFails
  PROVE  Kept'
<1> USE DEF Quiet, Kept, ParseArgs, CreateGamepad, vg_ui_create, vg_usb_create, Unwrap,
     WriteFails, At, Exit, list, history
<1>1. TypeOK' /\ frames' = <<>>
  BY DEF TypeOK, Places, parse_args
<1>2. Bounds'
  BY DEF ProgramInv, Bounds
<1>3. Shape'
  <2>1. Filled' = Filled /\ Twice' = Twice /\ Destroyed' = Destroyed
    BY DEF Filled, Twice, Destroyed
  <2>2. pc' # pc => pc \in {"args", "start"} /\ pc' \in {"start", "loop"}
    OBVIOUS
  <2>3. UNCHANGED list
    OBVIOUS
  <2>4. QED
    BY <2>1, <2>2, <2>3 DEF ProgramInv, Shape
<1>4. QED
  BY <1>1, <1>2, <1>3 DEF ProgramInv

LEMMA CreateStep ==
  ASSUME Quiet, Create \/ CreateFails \/ Store \/ SetUp
  PROVE  Kept'
<1> USE ProcessAssumption
    DEF Quiet, Kept, At, Continue, Exit, list, history, Slots
<1>1. CASE Create
  <2> USE <1>1 DEF Create
  <2>1. TypeOK' /\ frames' = <<>>
    BY DEF TypeOK, Places
  <2>2. Bounds'
    BY DEF Bounds
  <2>3. Shape'
    BY DEF ProgramInv, Shape, Filled, Twice, Destroyed, TypeOK
  <2>4. QED
    BY <2>1, <2>2, <2>3 DEF ProgramInv
<1>2. CASE CreateFails
  <2> USE <1>2 DEF CreateFails
  <2>1. joycon' = joycon
    BY DEF ProgramInv, Shape, Filled, TypeOK
  <2>2. QED
    BY <2>1 DEF TypeOK, Places, ProgramInv, Bounds, Shape, Filled, Twice, Destroyed
<1>3. CASE Store
  <2> USE <1>3 DEF Store
  <2>1. TypeOK' /\ frames' = <<>>
    BY DEF TypeOK, Places, ProgramInv, Bounds, Shape
  <2>2. Bounds'
    BY DEF ProgramInv, Bounds
  <2>3. Shape'
    BY DEF ProgramInv, Bounds, Shape, Filled, Twice, Destroyed, TypeOK
  <2>4. QED
    BY <2>1, <2>2, <2>3 DEF ProgramInv
<1>4. CASE SetUp
  <2>1. Quiet /\ pc = "setup"
    BY <1>4 DEF SetUp
  <2>2. CASE UNCHANGED <<pc, target, gamepad, list, frames>> /\ ended' = "exit 1"
             /\ UNCHANGED history
    <3> USE <2>1, <2>2
    <3>1. TypeOK' /\ frames' = <<>> /\ Bounds'
      BY DEF TypeOK, ProgramInv, Bounds
    <3>2. Filled' = Filled /\ Twice' = Twice /\ Destroyed' = Destroyed
      BY DEF Filled, Twice, Destroyed
    <3>3. Shape'
      BY <3>2 DEF ProgramInv, Shape
    <3>4. QED
      BY <3>1, <3>3 DEF ProgramInv
  <2>3. CASE joycon_count' = joycon_count + 1 /\ Continue("loop")
             /\ UNCHANGED <<joycon, con, j, heap>>
    <3> USE <2>1, <2>3
    <3>1. TypeOK' /\ frames' = <<>>
      BY DEF TypeOK, Places, ProgramInv, Bounds
    <3>2. Bounds'
      BY DEF ProgramInv, Bounds
    <3>3. Filled' = Filled /\ Twice' = Twice /\ Destroyed' = Destroyed
      BY DEF Filled, Twice, Destroyed, TypeOK
    <3>4. Shape'
      BY <3>3 DEF ProgramInv, Shape
    <3>5. QED
      BY <3>1, <3>2, <3>4 DEF ProgramInv
  <2>4. QED
    <3> HIDE DEF Kept, Quiet
    <3>1. QED
      BY <1>4, <2>2, <2>3 DEF SetUp
<1>5. QED
  BY <1>1, <1>2, <1>3, <1>4

LEMMA RemoveStep ==
  ASSUME Quiet, Destroy \/ Clear \/ CountDown \/ Move \/ Moved \/ Shifted
  PROVE  Kept'
<1> USE ProcessAssumption
    DEF Quiet, Kept, At, Continue, list, history, Slots
<1>1. CASE Destroy
  <2> USE <1>1 DEF Destroy
  <2>1. TypeOK' /\ frames' = <<>>
    <3>1. PICK i \in 0 .. joycon_count - 1 :
            heap' = [heap EXCEPT ![joycon[i]] = "freed"] /\ j' = i
      OBVIOUS
    <3>2. heap' \in [Structs -> {"none", "live", "freed"}]
      BY <3>1 DEF TypeOK
    <3>3. j' \in 0 .. MaxConnections
      BY <3>1 DEF TypeOK
    <3>4. QED
      BY <3>2, <3>3 DEF TypeOK, Places
  <2>2. Bounds'
    BY DEF Bounds, TypeOK
  <2>3. Shape'
    BY DEF ProgramInv, Shape, Filled, Twice, Destroyed, TypeOK
  <2>4. QED
    BY <2>1, <2>2, <2>3 DEF ProgramInv
<1>2. CASE Clear
  <2> USE <1>2 DEF Clear
  <2>1. TypeOK' /\ frames' = <<>>
    BY DEF TypeOK, Places
  <2>2. Bounds'
    BY DEF ProgramInv, Bounds
  <2>3. Shape'
    BY DEF ProgramInv, Bounds, Shape, Filled, Twice, Destroyed, TypeOK
  <2>4. QED
    BY <2>1, <2>2, <2>3 DEF ProgramInv
<1>3. CASE CountDown
  <2> USE <1>3 DEF CountDown
  <2>1. TypeOK' /\ frames' = <<>>
    BY DEF TypeOK, Places, ProgramInv, Bounds
  <2>2. Bounds'
    BY DEF ProgramInv, Bounds, TypeOK
  <2>3. Shape'
    BY DEF ProgramInv, Bounds, Shape, Filled, Twice, Destroyed, TypeOK
  <2>4. QED
    BY <2>1, <2>2, <2>3 DEF ProgramInv
<1>4. CASE Move
  <2> USE <1>4 DEF Move, Movable
  <2>1. TypeOK' /\ frames' = <<>>
    BY DEF TypeOK, Places, ProgramInv, Bounds
  <2>2. Bounds'
    BY DEF ProgramInv, Bounds
  <2>3. Shape'
    BY DEF ProgramInv, Bounds, Shape, Filled, Twice, Destroyed, TypeOK
  <2>4. QED
    BY <2>1, <2>2, <2>3 DEF ProgramInv
<1>5. CASE Moved
  <2> USE <1>5 DEF Moved
  <2>1. TypeOK' /\ frames' = <<>>
    BY DEF TypeOK, Places, ProgramInv, Bounds
  <2>2. Bounds'
    BY DEF ProgramInv, Bounds, TypeOK
  <2>3. Shape'
    BY DEF ProgramInv, Bounds, Shape, Filled, Twice, Destroyed, TypeOK
  <2>4. QED
    BY <2>1, <2>2, <2>3 DEF ProgramInv
<1>6. CASE Shifted
  <2> USE <1>6 DEF Shifted, Movable
  <2>1. TypeOK' /\ frames' = <<>>
    BY DEF TypeOK, Places
  <2>2. Bounds'
    BY DEF Bounds
  <2>3. j = joycon_count
    BY DEF ProgramInv, Bounds, Shape, Filled, TypeOK
  <2>4. Shape'
    BY <2>3 DEF ProgramInv, Bounds, Shape, Filled, Twice, Destroyed, TypeOK
  <2>5. QED
    BY <2>1, <2>2, <2>4 DEF ProgramInv
<1>7. QED
  BY <1>1, <1>2, <1>3, <1>4, <1>5, <1>6

LEMMA ProgramStep == ASSUME Inv, Program PROVE Inv'
<1>1. frames = <<>> /\ ended = "no"
  BY DEF Program, ParseArgs, CreateGamepad, vg_ui_create, vg_usb_create, Unwrap,
       WriteFails, Create, CreateFails, Store, SetUp, Destroy,
       Clear, CountDown, Move, Moved, Shifted, At
<1>2. Quiet
  BY <1>1 DEF Quiet, Inv
<1>3. Kept'
  BY <1>2, OutsideStep, CreateStep, RemoveStep DEF Program
<1>4. HandlerInv' /\ SingleInv'
  BY <1>3 DEF Kept, HandlerInv, SingleInv
<1>5. QED
  BY <1>3, <1>4 DEF Kept, Inv

-----------------------------------------------------------------------------
(* The handler *)

(* The innermost call moves on. *)
LEMMA GoFrames ==
  ASSUME frames \in Seq(Frame), frames # <<>>,
         NEW at \in {"gamepad", "empty", "clear", "count"}, NEW i \in 0 .. MaxConnections,
         Go(at, i)
  PROVE  /\ frames' \in Seq(Frame) /\ frames' # <<>> /\ Len(frames') = Len(frames)
         /\ Step' = at /\ Index' = i
<1> DEFINE g == [frames[1] EXCEPT !.at = at, !.i = i]
<1>1. Len(frames) \in Nat /\ 1 \in 1 .. Len(frames) /\ frames[1] \in Frame
  OBVIOUS
<1>2. g \in Frame /\ g.at = at /\ g.i = i
  BY <1>1 DEF Frame
<1>3. frames' = [frames EXCEPT ![1] = g]
  BY <1>1 DEF Go, Frame
<1> HIDE DEF g
<1>4. frames' \in Seq(Frame) /\ Len(frames') = Len(frames) /\ frames'[1] = g
  BY <1>1, <1>2, <1>3
<1>5. frames' # <<>> /\ Head(frames') = g
  BY <1>1, <1>4
<1>6. QED
  BY <1>2, <1>4, <1>5 DEF Step, Index

(* A handler that has not ended. *)
Handled == Inv /\ frames # <<>> /\ ended = "no"

LEMMA HandledTypes ==
  ASSUME Handled
  PROVE  /\ frames \in Seq(Frame) /\ Len(frames) \in Nat
         /\ Step \in {"gamepad", "empty", "clear", "count"} /\ Index \in 0 .. MaxConnections
         /\ joycon_count \in 0 .. MaxConnections /\ listed \in 0 .. MaxConnections
<1>1. TypeOK
  BY DEF Handled, Inv
<1>2. frames \in Seq(Frame) /\ frames # <<>>
  BY <1>1 DEF Handled, TypeOK
<1>3. Head(frames) \in Frame /\ Len(frames) \in Nat
  BY <1>2
<1>4. Step \in {"gamepad", "empty", "clear", "count"} /\ Index \in 0 .. MaxConnections
  BY <1>3 DEF Frame, Step, Index
<1>5. QED
  BY <1>1, <1>2, <1>3, <1>4 DEF TypeOK

(* The process ends. *)
LEMMA StopStep ==
  ASSUME Handled, UNCHANGED <<pc, target, gamepad, list, frames, history>>,
         \/ ended' = "exit 1"
         \/ ended' = "exit 0" /\ Step = "empty" /\ Index >= joycon_count
         \/ /\ ended' = "fault"
            /\ Len(frames) = 1 => place \in {"args", "start", "freed", "moved"}
  PROVE  Inv'
<1> USE DEF Handled, Inv, list, history
<1>1. TypeOK'
  BY DEF TypeOK
<1>2. ProgramInv' /\ HandlerInv'
  BY DEF ProgramInv, HandlerInv, Step, Index
<1>3. SingleInv'
  BY DEF SingleInv, Ahead, Half, From, Live, Step, Index
<1>4. QED
  BY <1>1, <1>2, <1>3

LEMMA GamepadStep ==
  ASSUME Handled, Handling("gamepad"), gamepad' = "gone", Go("empty", 0),
         UNCHANGED <<pc, target, list, ended, history>>
  PROVE  Inv'
<1> USE ProcessAssumption DEF Handled, Inv, list, history
<1>1. /\ frames' \in Seq(Frame) /\ frames' # <<>> /\ Len(frames') = Len(frames)
      /\ Step' = "empty" /\ Index' = 0
  BY GoFrames DEF TypeOK
<1>2. Step = "gamepad" /\ Index = 0
  BY DEF Handling, Step, HandlerInv
<1>3. From' = From
  BY <1>1, <1>2 DEF From
<1>4. TypeOK'
  BY <1>1 DEF TypeOK
<1>5. ProgramInv' /\ HandlerInv'
  BY <1>1 DEF ProgramInv, HandlerInv
<1>6. Ahead => Ahead'
  BY <1>3 DEF Ahead
<1>7. Half => Half'
  BY <1>1, <1>2, <1>3 DEF Half, Live
<1>8. SingleInv'
  BY <1>1, <1>6, <1>7 DEF SingleInv
<1>9. QED
  BY <1>4, <1>5, <1>8

(* An entry is destroyed: the ones ahead of it are others. *)
LEMMA DestroyStep ==
  ASSUME Handled, Handling("empty"), Index < joycon_count, joycon[Index] # NULL,
         heap' = [heap EXCEPT ![joycon[Index]] = "freed"], Go("clear", Index),
         UNCHANGED <<pc, target, gamepad, joycon, joycon_count, con, j, ended, history>>
  PROVE  Inv'
<1> USE ProcessAssumption DEF history, Slots
<1>1. /\ frames' \in Seq(Frame) /\ frames' # <<>> /\ Len(frames') = Len(frames)
      /\ Step' = "clear" /\ Index' = Index
  BY HandledTypes, GoFrames DEF Handled
<1>2. Step = "empty" /\ From = Index /\ From' = Index + 1
  BY <1>1 DEF Handling, Step, From
<1>3. Index \in Slots /\ joycon[Index] \in Structs
  BY HandledTypes DEF Handled, Inv, TypeOK
<1>4. TypeOK'
  BY <1>1 DEF Handled, Inv, TypeOK
<1>5. ProgramInv' /\ HandlerInv'
  BY <1>1 DEF Handled, Inv, ProgramInv, HandlerInv
<1>6. heap \in [Structs -> {"none", "live", "freed"}] /\ joycon \in [Slots -> Structs \cup {NULL}]
  BY DEF Handled, Inv, TypeOK
<1>7. Ahead => Ahead'
  BY <1>2, <1>3, <1>6, HandledTypes DEF Ahead
<1>8. Ahead /\ Half => Half'
  <2> SUFFICES ASSUME Ahead, Half PROVE Half'
    OBVIOUS
  <2>1. joycon_count' = listed' - Index' /\ 2 * Index' <= listed' + 1
    BY <1>1 DEF Half
  <2>2. ASSUME NEW k \in Slots, k < listed
        PROVE  Live(k)' <=> k >= Index + 1
    <3>1. Live(k) <=> k >= Index
      BY <1>2, <2>2 DEF Half
    <3>2. k >= Index + 1 => joycon[k] # joycon[Index]
      BY <1>2, <1>3, HandledTypes DEF Ahead
    <3>3. joycon[k] # NULL => joycon[k] \in Structs
      BY <1>6
    <3>4. CASE k = Index
      BY <1>3, <1>6, <3>4, HandledTypes DEF Live
    <3>5. CASE k # Index
      BY <1>3, <1>6, <3>1, <3>2, <3>3, <3>5, HandledTypes DEF Live
    <3>6. QED
      BY <3>4, <3>5
  <2>3. QED
    BY <1>2, <2>1, <2>2 DEF Half
<1>9. SingleInv'
  BY <1>1, <1>7, <1>8 DEF Handled, Inv, SingleInv
<1>10. QED
  BY <1>4, <1>5, <1>9 DEF Inv

LEMMA ClearStep ==
  ASSUME Handled, EmptyClear
  PROVE  Inv'
<1> USE ProcessAssumption DEF history, Slots, EmptyClear
<1>1. /\ frames' \in Seq(Frame) /\ frames' # <<>> /\ Len(frames') = Len(frames)
      /\ Step' = "count" /\ Index' = Index
  BY HandledTypes, GoFrames DEF Handled
<1>2. Step = "clear" /\ From = Index + 1 /\ From' = Index + 1 /\ Index < joycon_count
  BY <1>1 DEF Handling, Step, From, Handled, Inv, HandlerInv
<1>3. Index \in Slots /\ joycon \in [Slots -> Structs \cup {NULL}]
  BY <1>2, HandledTypes DEF Handled, Inv, TypeOK
<1>4. TypeOK'
  BY <1>1, <1>3 DEF Handled, Inv, TypeOK
<1>5. ProgramInv' /\ HandlerInv'
  BY <1>1, <1>2 DEF Handled, Inv, ProgramInv, HandlerInv
<1>6. \A k \in Slots : k # Index => joycon'[k] = joycon[k]
  BY <1>3
<1>7. joycon'[Index] = NULL
  BY <1>3
<1>8. Ahead => Ahead'
  BY <1>2, <1>6, HandledTypes DEF Ahead
<1>9. Half => Half'
  <2> SUFFICES ASSUME Half PROVE Half'
    OBVIOUS
  <2>1. ASSUME NEW k \in Slots, k < listed
        PROVE  Live(k)' <=> k >= Index + 1
    <3>1. Live(k) <=> k >= Index + 1
      BY <1>2, <2>1 DEF Half
    <3>2. QED
      BY <1>6, <1>7, <3>1, HandledTypes DEF Live
  <2>2. QED
    BY <1>1, <1>2, <2>1 DEF Half
<1>10. SingleInv'
  BY <1>1, <1>8, <1>9 DEF Handled, Inv, SingleInv
<1>11. QED
  BY <1>4, <1>5, <1>10 DEF Inv

LEMMA CountStep ==
  ASSUME Handled, EmptyCount
  PROVE  Inv'
<1> USE ProcessAssumption DEF history, Slots, EmptyCount
<1>1. Step = "count" /\ From = Index + 1 /\ Index < joycon_count
  BY DEF Handling, Step, From, Handled, Inv, HandlerInv
<1>2. /\ frames' \in Seq(Frame) /\ frames' # <<>> /\ Len(frames') = Len(frames)
      /\ Step' = "empty" /\ Index' = Index + 1
  BY <1>1, HandledTypes, GoFrames DEF Handled
<1>3. From' = From
  BY <1>1, <1>2 DEF From
<1>4. TypeOK'
  BY <1>1, <1>2, HandledTypes DEF Handled, Inv, TypeOK
<1>5. ProgramInv' /\ HandlerInv'
  BY <1>2 DEF Handled, Inv, ProgramInv, HandlerInv
<1>6. Ahead => Ahead'
  BY <1>3 DEF Ahead
<1>7. Half => Half'
  <2> SUFFICES ASSUME Half PROVE Half'
    OBVIOUS
  <2>1. joycon_count = listed - Index /\ joycon_count' = joycon_count - 1 /\ listed' = listed
    BY DEF Half
  <2>2. joycon_count' = listed' - Index' /\ 2 * Index' <= listed' + 1
    <3> HIDE DEF EmptyCount
    <3>1. /\ joycon_count \in Int /\ listed \in Int /\ Index \in Int
          /\ Index < joycon_count
      BY <1>1, HandledTypes
    <3>2. joycon_count' = listed - (Index + 1) /\ 2 * (Index + 1) <= listed + 1
      BY <2>1, <3>1
    <3>3. QED
      BY <1>2, <2>1, <3>2
  <2>3. QED
    BY <1>3, <2>2 DEF Half, Live
<1>8. SingleInv'
  BY <1>2, <1>6, <1>7 DEF Handled, Inv, SingleInv
<1>9. QED
  BY <1>4, <1>5, <1>8 DEF Inv

(* An entry is passed over that is NULL, or freed already: of the latter   *)
(* there is none ahead of a single handler, and of neither where Half says *)
(* how many are live.                                                      *)
LEMMA SkipStep ==
  ASSUME Handled, Handling("empty"), Index < joycon_count,
         joycon[Index] = NULL \/ heap[joycon[Index]] = "freed",
         Go("empty", Index + 1),
         UNCHANGED <<pc, target, gamepad, list, ended, history>>
  PROVE  Inv'
<1> USE ProcessAssumption DEF list, history, Slots
<1>1. Step = "empty" /\ From = Index
  BY DEF Handling, Step, From
<1>2. /\ frames' \in Seq(Frame) /\ frames' # <<>> /\ Len(frames') = Len(frames)
      /\ Step' = "empty" /\ Index' = Index + 1
  BY HandledTypes, GoFrames DEF Handled
<1>3. From' = From + 1
  BY <1>1, <1>2 DEF From
<1>4. TypeOK'
  BY <1>2 DEF Handled, Inv, TypeOK
<1>5. ProgramInv' /\ HandlerInv'
  BY <1>2 DEF Handled, Inv, ProgramInv, HandlerInv
<1>6. Ahead => Ahead'
  BY <1>1, <1>3, HandledTypes DEF Ahead
<1>7. ~ Half
  <2> SUFFICES ASSUME Half PROVE FALSE
    OBVIOUS
  <2>1. Index \in Slots /\ Index < listed
    BY HandledTypes DEF Half
  <2>2. Live(Index)
    BY <1>1, <2>1, HandledTypes DEF Half
  <2>3. QED
    BY <2>2 DEF Live
<1>8. SingleInv'
  BY <1>2, <1>6, <1>7 DEF Handled, Inv, SingleInv
<1>9. QED
  BY <1>4, <1>5, <1>8 DEF Inv

LEMMA HandlerStep == ASSUME Inv, Handler PROVE Inv'
<1>1. Handled
  BY DEF Handled, Handler, DestroyGamepad, EmptyDestroy, EmptyClear, EmptyCount,
         EmptySkip, Emptied, Handling
<1>2. CASE DestroyGamepad
  <2>1. Len(frames) = 1 /\ gamepad # "made" => place \in {"args", "start"}
    BY <1>1, <1>2 DEF DestroyGamepad, Handling, Handled, Inv, SingleInv, Step
  <2>2. QED
    BY <1>1, <1>2, <2>1, GamepadStep, StopStep DEF DestroyGamepad, Stop
<1>3. CASE EmptyDestroy
  <2>1. Index < joycon_count /\ joycon[Index] # NULL /\ Handling("empty")
    BY <1>3 DEF EmptyDestroy
  <2>2. Len(frames) = 1 /\ heap[joycon[Index]] = "freed" => place \in {"freed", "moved"}
    <3>1. Index \in Slots /\ From = Index
      BY <1>1, <2>1, HandledTypes, ProcessAssumption DEF Slots, Handling, From, Step
    <3>2. QED
      BY <1>1, <2>1, <3>1, HandledTypes DEF Handled, Inv, SingleInv, Ahead
  <2>3. CASE heap' = [heap EXCEPT ![joycon[Index]] = "freed"] /\ Go("clear", Index)
             /\ UNCHANGED ended
    BY <1>1, <1>3, <2>1, <2>3, DestroyStep DEF EmptyDestroy, history
  <2>4. CASE heap[joycon[Index]] = "freed" /\ Go("empty", Index + 1) /\ UNCHANGED <<heap, ended>>
    BY <1>1, <1>3, <2>1, <2>4, SkipStep DEF EmptyDestroy, list, history
  <2>5. CASE heap[joycon[Index]] = "freed" /\ Stop("fault") /\ UNCHANGED heap
    BY <1>1, <1>3, <2>2, <2>5, StopStep DEF EmptyDestroy, Stop, list, history
  <2>6. QED
    BY <1>3, <2>3, <2>4, <2>5 DEF EmptyDestroy
<1>4. CASE EmptySkip
  BY <1>1, <1>4, SkipStep DEF EmptySkip
<1>5. CASE Emptied
  BY <1>1, <1>5, StopStep DEF Emptied, Stop, Handling, Step
<1>6. QED
  BY <1>1, <1>2, <1>3, <1>4, <1>5, ClearStep, CountStep DEF Handler

(* A call of the handler begins. *)
LEMMA SignalStep ==
  ASSUME Inv, NEW sig \in Signals, Signal(sig)
  PROVE  Inv'
<1> DEFINE f == [sig |-> sig, at |-> "gamepad", i |-> 0]
<1> USE ProcessAssumption DEF Signal, list, history
<1>1. frames \in Seq(Frame) /\ f \in Frame
  BY DEF Inv, TypeOK, Frame
<1>2. /\ frames' \in Seq(Frame) /\ frames' # <<>> /\ Len(frames') = Len(frames) + 1
      /\ Head(frames') = f
  <2> HIDE DEF f
  <2>1. frames' = <<f>> \o frames
    BY DEF f
  <2>2. QED
    BY <1>1, <2>1
<1>3. Step' = "gamepad" /\ Index' = 0 /\ From' = 0
  BY <1>2 DEF Step, Index, From
<1>4. TypeOK'
  BY <1>2 DEF Inv, TypeOK
<1>5. ProgramInv' /\ HandlerInv'
  BY <1>2, <1>3 DEF Inv, ProgramInv, HandlerInv
<1>6. ASSUME Len(frames') = 1
      PROVE  frames = <<>> /\ place' = pc /\ listed' = joycon_count
  BY <1>1, <1>2, <1>6
<1>7. ASSUME frames = <<>>, pc \notin {"freed", "moved"}
      PROVE  Ahead'
  BY <1>3, <1>7 DEF Inv, ProgramInv, Bounds, Shape, Ahead, Filled, Twice, Destroyed, Slots, TypeOK
<1>8. ASSUME frames = <<>>, pc = "loop", listed' = joycon_count
      PROVE  Half'
  BY <1>3, <1>8 DEF Inv, ProgramInv, Bounds, Shape, Half, Live, Filled, Twice, Destroyed, Slots, TypeOK
<1>9. SingleInv'
  BY <1>3, <1>6, <1>7, <1>8 DEF Inv, ProgramInv, SingleInv
<1>10. QED
  BY <1>4, <1>5, <1>9 DEF Inv

-----------------------------------------------------------------------------
(* Theorems *)

LEMMA Invariant == Spec => []Inv
<1>1. ASSUME Inv, UNCHANGED vars PROVE Inv'
  <2> USE <1>1 DEF vars, list, history
  <2>1. Filled' = Filled /\ Twice' = Twice /\ Destroyed' = Destroyed
    BY DEF Filled, Twice, Destroyed
  <2>2. Step' = Step /\ Index' = Index
    BY DEF Step, Index
  <2>3. From' = From
    BY <2>2 DEF From
  <2>4. TypeOK'
    BY DEF Inv, TypeOK
  <2>5. ProgramInv'
    BY <2>1 DEF Inv, ProgramInv, Bounds, Shape
  <2>6. HandlerInv'
    BY <2>2 DEF Inv, HandlerInv
  <2>7. SingleInv'
    BY <2>2, <2>3 DEF Inv, SingleInv, Ahead, Half, Live
  <2>8. QED
    BY <2>4, <2>5, <2>6, <2>7 DEF Inv
<1>2. Inv /\ [Next]_vars => Inv'
  BY <1>1, ProgramStep, HandlerStep, SignalStep DEF Next
<1>3. QED
  BY <1>2, InitInv, PTL DEF Spec

LEMMA Counted ==
  ASSUME Inv, frames # <<>>
  PROVE  /\ Len(frames) > 1 \/ Len(frames) = 1
         /\ Index \in Nat /\ listed \in 0 .. MaxConnections
<1>1. frames \in Seq(Frame)
  BY DEF Inv, TypeOK
<1>2. Head(frames) \in Frame /\ Len(frames) \in Nat /\ Len(frames) >= 1
  BY <1>1
<1>3. Index \in Nat
  BY <1>2, ProcessAssumption DEF Frame, Index
<1>4. Len(frames) > 1 \/ Len(frames) = 1
  BY <1>2
<1>5. QED
  BY <1>3, <1>4 DEF Inv, TypeOK

(* No counter or index leaves its range, in the program or in the handler  *)
(* that interrupts it, or in the one that interrupts that.                 *)
THEOREM ShutdownTypeCorrect == Spec => []TypeOK
<1>1. Inv => TypeOK
  BY DEF Inv
<1>2. QED
  BY <1>1, Invariant, PTL

(* Between two operations the entries are different live structures, and   *)
(* every live structure is an entry.                                       *)
THEOREM ShutdownIntact == Spec => []Intact
<1>1. Inv => Intact
  BY ProcessAssumption
     DEF Inv, Intact, At, ProgramInv, Bounds, Shape, Filled, Twice, Destroyed, Slots, TypeOK
<1>2. QED
  BY <1>1, Invariant, PTL

(* A single signal faults only at the places named.                        *)
THEOREM ShutdownSafeElsewhere == Spec => []SafeElsewhere
<1>1. ASSUME Inv PROVE SafeElsewhere
  <2>1. frames = <<>> => ended # "fault"
    BY <1>1 DEF Inv, ProgramInv
  <2>2. frames # <<>> => Nested \/ Len(frames) = 1
    BY <1>1, Counted, Zenon DEF Nested
  <2>3. QED
    BY <1>1, <2>1, <2>2 DEF Inv, SafeElsewhere, SingleInv
<1>2. QED
  BY <1>1, Invariant, PTL

(* A signal in the loop closes half of the handles, of any number.         *)
THEOREM ShutdownHalfClosed == Spec => []HalfClosed
<1>1. ASSUME Inv, ended = "exit 0", place = "loop", ~ Nested,
             NEW k \in 0 .. listed - 1
      PROVE  Live(k) <=> k >= listed - (listed \div 2)
  <2>1. frames # <<>>
    BY <1>1 DEF Inv, ProgramInv
  <2>2. Len(frames) = 1
    BY <1>1, <2>1, Counted, Zenon DEF Nested
  <2>3. Step = "empty" /\ Index >= joycon_count /\ Half
    BY <1>1, <2>1, <2>2 DEF Inv, HandlerInv, SingleInv
  <2>4. listed \in 0 .. MaxConnections /\ k \in 0 .. listed - 1
    BY <1>1, <2>1, Counted
  <2>5. Index \in Nat
    BY <1>1, <2>1, Counted
  <2>6. Index = listed - (listed \div 2)
    BY <2>3, <2>4, <2>5 DEF Half
  <2>7. k \in Slots /\ k < listed
    BY <2>4, ProcessAssumption DEF Slots
  <2>8. From = Index
    BY <2>3 DEF From
  <2>9. QED
    BY <2>3, <2>6, <2>7, <2>8 DEF Half
<1>2. Inv => HalfClosed
  BY <1>1 DEF HalfClosed
<1>3. QED
  BY <1>2, Invariant, PTL

-----------------------------------------------------------------------------
(* The list, pointer by pointer, keeps to Roster *)

Size == IF pc \in {"freed", "cleared"} THEN joycon_count - 1 ELSE joycon_count

(* The n-th entry. *)
Shown(n) == Entry(IF Gap /\ n > j THEN n ELSE n - 1)

LEMMA EntriesShown == Entries = [n \in 1 .. Size |-> Shown(n)]
BY DEF Entries, Size, Shown

(* Whatever the program is about, the entries it shows are live and no two *)
(* are the same.                                                           *)
LEMMA ShownLive ==
  ASSUME Quiet
  PROVE  /\ Size \in 0 .. MaxConnections
         /\ \A n \in 1 .. Size :
              LET k == IF Gap /\ n > j THEN n ELSE n - 1
              IN  /\ k \in Slots /\ k \in Filled \ (Destroyed \cup Twice)
                  /\ Shown(n) = joycon[k] /\ Shown(n) \in Structs
                  /\ heap[Shown(n)] = "live"
<1> USE ProcessAssumption DEF Quiet
<1>1. TypeOK /\ Bounds /\ Shape
  BY DEF ProgramInv
<1>2. Size \in 0 .. MaxConnections
  BY <1>1 DEF TypeOK, Bounds, Size
<1>3. ASSUME NEW n \in 1 .. Size, NEW k, k = IF Gap /\ n > j THEN n ELSE n - 1
      PROVE  /\ k \in Slots /\ k \in Filled \ (Destroyed \cup Twice)
             /\ Shown(n) = joycon[k] /\ Shown(n) \in Structs
             /\ heap[Shown(n)] = "live"
  <2>1. k \in Slots /\ k \in Filled \ (Destroyed \cup Twice)
    BY <1>1, <1>3 DEF TypeOK, Bounds, Size, Gap, Slots, Filled, Destroyed, Twice
  <2>2. joycon[k] \in Structs /\ joycon[k] # NULL /\ heap[joycon[k]] = "live"
    BY <1>1, <2>1 DEF TypeOK, Shape
  <2>3. Shown(n) = joycon[k]
    BY <1>3, <2>2 DEF Shown, Entry, Live
  <2>4. QED
    BY <2>1, <2>2, <2>3
<1>4. QED
  BY <1>2, <1>3

LEMMA EntriesSeq ==
  ASSUME Quiet
  PROVE  /\ Entries \in Seq(Structs) /\ Len(Entries) = Size
         /\ \A n \in 1 .. Size : Entries[n] = Shown(n)
<1>1. Size \in Nat /\ \A n \in 1 .. Size : Shown(n) \in Structs
  BY ShownLive, ProcessAssumption
<1>2. QED
  BY <1>1, EntriesShown

(* What a step has to leave alone for the entries to stay. *)
LEMMA EntriesStay ==
  ASSUME Size' = Size, \A n \in 1 .. Size : Shown(n)' = Shown(n)
  PROVE  UNCHANGED Entries
<1>1. Entries' = [n \in 1 .. Size' |-> Shown(n)']
  BY DEF Entries, Size, Shown
<1>2. QED
  BY <1>1, EntriesShown

LEMMA OutsideStays ==
  ASSUME Quiet, ParseArgs \/ CreateGamepad \/ WriteFails
  PROVE  UNCHANGED Entries
<1>1. /\ UNCHANGED list
      /\ pc' = pc \/ {pc, pc'} \subseteq {"args", "start", "loop"}
  BY DEF ParseArgs, CreateGamepad, vg_ui_create, vg_usb_create, Unwrap, WriteFails, At, Exit
<1>2. Size' = Size /\ Gap' = Gap
  BY <1>1 DEF Size, Gap, list
<1>3. \A n \in 1 .. Size : Shown(n)' = Shown(n)
  BY <1>1, <1>2 DEF Shown, Entry, Live, list
<1>4. QED
  BY <1>2, <1>3, EntriesStay

(* A new structure is not in the list before it is counted. *)
LEMMA CreateStays ==
  ASSUME Quiet, Create \/ CreateFails \/ Store
  PROVE  UNCHANGED Entries
<1> USE ProcessAssumption
<1>1. /\ Size' = joycon_count /\ Size = joycon_count /\ ~ Gap /\ ~ Gap'
      /\ joycon_count \in Nat
  BY DEF Create, CreateFails, Store, At, Continue, Size, Gap, Quiet, TypeOK
<1>2. ASSUME NEW n \in 1 .. Size
      PROVE  Shown(n)' = Shown(n)
  <2>1. /\ n - 1 \in Slots /\ n - 1 # joycon_count /\ joycon[n - 1] \in Structs
        /\ Shown(n) = joycon[n - 1] /\ heap[joycon[n - 1]] = "live"
    BY <1>1, ShownLive
  <2>2. joycon'[n - 1] = joycon[n - 1] /\ heap'[joycon[n - 1]] = "live"
    BY <1>1, <2>1 DEF Create, CreateFails, Store, Quiet, TypeOK
  <2>3. QED
    BY <1>1, <2>1, <2>2 DEF Shown, Entry, Live
<1>3. QED
  BY <1>1, <1>2, EntriesStay

(* joycon_count++ appends it. *)
LEMMA SetUpJoins ==
  ASSUME Quiet, SetUp
  PROVE  Abstract!Next \/ UNCHANGED Entries
<1> USE ProcessAssumption
<1>1. CASE UNCHANGED <<pc, list>>
  <2>1. Entries' = Entries
    BY <1>1 DEF Entries, Gap, Entry, Live, list
  <2>2. QED
    BY <2>1
<1>2. CASE joycon_count' = joycon_count + 1 /\ Continue("loop") /\ UNCHANGED <<joycon, con, j, heap>>
  <2> DEFINE c == joycon[joycon_count]
  <2>1. /\ pc = "setup" /\ pc' = "loop" /\ joycon_count \in 0 .. MaxConnections - 1
        /\ UNCHANGED <<joycon, heap>>
    BY <1>2 DEF SetUp, At, Continue, Quiet, ProgramInv, Bounds, TypeOK
  <2>2. c \in Structs /\ c # NULL /\ heap[c] = "live"
    BY <2>1 DEF Quiet, ProgramInv, TypeOK, Shape, Filled, Twice, Destroyed, Slots
  <2>3. Size = joycon_count /\ Size' = joycon_count + 1 /\ ~ Gap /\ ~ Gap'
    BY <1>2, <2>1 DEF Size, Gap
  <2>4. ASSUME NEW n \in 1 .. joycon_count
        PROVE  Shown(n)' = Shown(n) /\ Shown(n) # c
    <3>1. Shown(n) = joycon[n - 1] /\ n - 1 \in Filled /\ n - 1 # joycon_count
      BY <2>1, <2>3, ShownLive
    <3>2. joycon_count \in Filled /\ Twice = {}
      BY <2>1 DEF Filled, Twice
    <3>3. Shown(n) # c
      BY <3>1, <3>2 DEF Quiet, ProgramInv, Shape
    <3>4. QED
      BY <2>1, <2>3, <3>3 DEF Shown, Entry, Live
  <2>5. ASSUME NEW n, n = joycon_count + 1
        PROVE  Shown(n)' = c
    <3>1. n - 1 = joycon_count
      BY <2>1, <2>5
    <3>2. QED
      BY <2>1, <2>2, <2>3, <3>1 DEF Shown, Entry, Live
  <2>6. Entries' = [n \in 1 .. joycon_count + 1 |-> Shown(n)']
    BY <2>3 DEF Entries, Size, Shown
  <2>7. Entries \in Seq(Structs) /\ Len(Entries) = joycon_count
        /\ \A n \in 1 .. joycon_count : Entries[n] = Shown(n)
    BY <2>3, EntriesSeq
  <2> HIDE DEF c
  <2>8. Entries' = Append(Entries, c)
    <3>1. ASSUME NEW n \in 1 .. joycon_count + 1
          PROVE  Shown(n)' = IF n = joycon_count + 1 THEN c ELSE Entries[n]
      BY <2>1, <2>4, <2>5, <2>7
    <3>2. Append(Entries, c) =
            [n \in 1 .. joycon_count + 1 |-> IF n = joycon_count + 1 THEN c ELSE Entries[n]]
      <4> DEFINE s == Append(Entries, c)
      <4>1. /\ s \in Seq(Structs) /\ Len(s) = joycon_count + 1
            /\ \A n \in 1 .. joycon_count : s[n] = Entries[n]
            /\ s[joycon_count + 1] = c
        BY <2>2, <2>7, AppendProperties
      <4> HIDE DEF s
      <4>2. s = [n \in 1 .. joycon_count + 1 |-> s[n]]
        BY <4>1
      <4>3. ASSUME NEW n \in 1 .. joycon_count + 1
            PROVE  s[n] = IF n = joycon_count + 1 THEN c ELSE Entries[n]
        BY <2>1, <4>1
      <4>4. QED
        BY <4>2, <4>3 DEF s
    <3>3. QED
      BY <2>6, <3>1, <3>2
  <2>9. \A n \in DOMAIN Entries : Entries[n] \in Structs /\ Entries[n] # c
    BY <2>4, <2>7
  <2>10. Abstract!Join(c)
    BY <2>1, <2>2, <2>7, <2>8, <2>9 DEF Abstract!Join
  <2>11. QED
    BY <2>2, <2>10 DEF Abstract!Next
<1>3. QED
  BY <1>1, <1>2 DEF SetUp, Exit

(* jc_destroy takes the entry out of the list, ... *)
LEMMA DestroyLeaves ==
  ASSUME Quiet, Destroy
  PROVE  Abstract!Next
<1> USE ProcessAssumption
<1>1. PICK i \in 0 .. joycon_count - 1 :
        heap' = [heap EXCEPT ![joycon[i]] = "freed"] /\ j' = i
  BY DEF Destroy
<1>2. /\ pc = "loop" /\ pc' = "freed" /\ UNCHANGED <<joycon, joycon_count>>
      /\ joycon_count \in 0 .. MaxConnections /\ i \in Slots
  BY <1>1 DEF Destroy, At, Continue, Quiet, TypeOK, Slots
<1>3. Size = joycon_count /\ Size' = joycon_count - 1 /\ ~ Gap /\ Gap'
  BY <1>2 DEF Size, Gap
<1>4. ASSUME NEW n \in 1 .. joycon_count - 1
      PROVE  Shown(n)' = Shown(IF n < i + 1 THEN n ELSE n + 1)
  <2> DEFINE m == IF n < i + 1 THEN n ELSE n + 1
             k == m - 1
  <2>1. m \in 1 .. joycon_count /\ k = (IF n > i THEN n ELSE n - 1) /\ k # i
    BY <1>1, <1>2
  <2> HIDE DEF m
  <2>2. /\ k \in Filled /\ Shown(m) = joycon[k] /\ joycon[k] \in Structs
        /\ heap[joycon[k]] = "live"
    BY <1>2, <1>3, <2>1, ShownLive
  <2>3. i \in Filled /\ Twice = {}
    BY <1>1, <1>2 DEF Filled, Twice
  <2> HIDE DEF k
  <2>4. joycon[k] # joycon[i]
    BY <2>1, <2>2, <2>3 DEF Quiet, ProgramInv, Shape
  <2>5. heap'[joycon[k]] = "live"
    BY <1>1, <2>2, <2>4 DEF Quiet, TypeOK
  <2>6. Shown(n)' = joycon[k]
    BY <1>1, <1>2, <1>3, <2>1, <2>2, <2>5 DEF Shown, Entry, Live
  <2>7. QED
    BY <2>2, <2>6 DEF m
<1>5. Entries' = [n \in 1 .. joycon_count - 1 |-> Shown(n)']
  BY <1>3 DEF Entries, Size, Shown
<1>6. Entries \in Seq(Structs) /\ Len(Entries) = joycon_count
      /\ \A n \in 1 .. joycon_count : Entries[n] = Shown(n)
  BY <1>3, EntriesSeq
<1> DEFINE s == Entries
           p == i + 1
<1>7. s \in Seq(Structs) /\ p \in 1 .. Len(s) /\ Len(s) - 1 = joycon_count - 1
  BY <1>2, <1>6
<1> HIDE DEF s, p
<1>8. Without(s, p) = [n \in 1 .. Len(s) - 1 |-> s[IF n < p THEN n ELSE n + 1]]
  BY <1>7, WithoutOne
<1>9. ASSUME NEW n \in 1 .. joycon_count - 1
      PROVE  Shown(n)' = s[IF n < p THEN n ELSE n + 1]
  BY <1>2, <1>4, <1>6 DEF s, p
<1>10. Entries' = Without(s, p)
  BY <1>5, <1>7, <1>8, <1>9
<1>11. Abstract!Leave(p)
  BY <1>10 DEF s, Abstract!Leave, Abstract!RemoveAt, Without
<1>12. p \in DOMAIN Entries
  BY <1>7 DEF s
<1>13. QED
  BY <1>11, <1>12 DEF Abstract!Next

(* ... and what follows closes the gap under it. *)
LEMMA RemoveStays ==
  ASSUME Quiet, Clear \/ CountDown \/ Move \/ Moved \/ Shifted
  PROVE  UNCHANGED Entries
<1> USE ProcessAssumption
<1>1. Bounds /\ Shape /\ TypeOK
  BY DEF Quiet, ProgramInv
<1>2. /\ pc \in {"freed", "cleared", "shift", "moved"}
      /\ j \in 0 .. MaxConnections /\ joycon_count \in 0 .. MaxConnections
      /\ j <= joycon_count
  <2>1. pc \in {"freed", "cleared", "shift", "moved"}
    BY DEF Clear, CountDown, Move, Moved, Shifted, At
  <2>2. j \in 0 .. MaxConnections /\ joycon_count \in 0 .. MaxConnections
    BY <1>1 DEF TypeOK
  <2>3. QED
    BY <1>1, <2>1, <2>2 DEF Bounds
<1>3. Size' = Size
  BY <1>2 DEF Clear, CountDown, Move, Moved, Shifted, At, Continue, list, Size
<1>4. heap' = heap
  BY DEF Clear, CountDown, Move, Moved, Shifted, list
<1>5. ASSUME NEW n \in 1 .. Size, NEW k, k = (IF n > j THEN n ELSE n - 1)
      PROVE  /\ k \in Slots /\ k # j /\ n \in Int
             /\ Shown(n) = joycon[k] /\ joycon[k] \in Structs /\ heap[joycon[k]] = "live"
  BY <1>2, <1>5, ShownLive DEF Gap
<1>6. CASE Clear \/ CountDown \/ Move
  <2>1. Gap /\ Gap' /\ j' = j
    BY <1>6 DEF Clear, CountDown, Move, At, Continue, Gap
  <2>2. \A k \in Slots : k # j => joycon'[k] = joycon[k]
    BY <1>1, <1>6 DEF Clear, CountDown, Move, TypeOK
  <2>3. \A n \in 1 .. Size : Shown(n)' = Shown(n)
    BY <1>4, <1>5, <2>1, <2>2 DEF Shown, Entry, Live
  <2>4. QED
    BY <1>3, <2>3, EntriesStay
<1>7. CASE Moved
  <2>1. /\ Gap /\ Gap' /\ j' = j + 1 /\ j < joycon_count /\ joycon_count < MaxConnections
        /\ joycon[j] = joycon[j + 1] /\ joycon' = [joycon EXCEPT ![j + 1] = NULL]
    BY <1>1, <1>7 DEF Moved, At, Continue, Gap, Bounds, Shape
  <2>2. j \in Slots /\ j \in Int
    <3>1. j \in 0 .. MaxConnections /\ joycon_count \in 0 .. MaxConnections /\ j < joycon_count
      BY <1>2, <2>1
    <3>2. QED
      BY <3>1 DEF Slots
  <2>3. ASSUME NEW n \in 1 .. Size
        PROVE  Shown(n)' = Shown(n)
    <3> DEFINE k == IF n > j THEN n ELSE n - 1
               l == IF n > j + 1 THEN n ELSE n - 1
    <3>1. /\ k \in Slots /\ n \in Int
          /\ Shown(n) = joycon[k] /\ joycon[k] \in Structs /\ heap[joycon[k]] = "live"
      <4>1. k = IF n > j THEN n ELSE n - 1
        OBVIOUS
      <4> HIDE DEF k
      <4>2. QED
        BY <1>5, <4>1
    <3>2. l \in Slots /\ l # j + 1 /\ (l = k \/ (l = j /\ k = j + 1))
      BY <2>2, <3>1
    <3> HIDE DEF k
    <3>3. joycon'[l] = joycon[k]
      BY <1>1, <2>1, <3>2 DEF TypeOK
    <3>4. Shown(n)' = joycon[k]
      BY <1>4, <2>1, <3>1, <3>3 DEF Shown, Entry, Live
    <3>5. QED
      BY <3>1, <3>4
  <2>4. QED
    BY <1>3, <2>3, EntriesStay
<1>8. CASE Shifted
  <2>1. /\ pc = "shift" /\ Gap /\ ~ Gap' /\ UNCHANGED <<joycon, joycon_count>>
        /\ ~ Movable
    BY <1>8 DEF Shifted, At, Continue, Gap, list
  <2>2. j = joycon_count
    BY <1>1, <1>2, <2>1 DEF Movable, Bounds, Shape, Filled, Slots
  <2>3. Size = joycon_count
    BY <2>1 DEF Size
  <2>4. ASSUME NEW n \in 1 .. Size
        PROVE  Shown(n)' = Shown(n)
    <3>1. ~ (n > j)
      BY <1>2, <2>2, <2>3
    <3>2. QED
      BY <1>4, <2>1, <3>1 DEF Shown, Entry, Live
  <2>5. QED
    BY <1>3, <2>4, EntriesStay
<1>9. QED
  BY <1>6, <1>7, <1>8

(* As long as no signal comes, the array does no more than Roster says,    *)
(* for a list of any length: jc_destroy is the removal, the assignments    *)
(* that follow it close the gap unseen, and joycon_count++ is the arrival. *)
THEOREM ShutdownKeepsRoster == Spec => KeepsRoster
<1>1. ASSUME Inv, Next, frames' = <<>>
      PROVE  Abstract!Next \/ UNCHANGED Entries
  <2>1. ~ Handler
    <3>1. ASSUME Handler PROVE FALSE
      <4>1. frames # <<>>
        BY <3>1 DEF Handler, DestroyGamepad, EmptyDestroy, EmptyClear, EmptyCount,
               EmptySkip, Emptied, Handling
      <4>2. frames' = frames \/ \E at, i : Go(at, i)
        BY <3>1 DEF Handler, DestroyGamepad, EmptyDestroy, EmptyClear, EmptyCount,
               EmptySkip, Emptied, Stop
      <4>3. DOMAIN frames' = DOMAIN frames
        BY <4>2 DEF Go
      <4>4. frames \in Seq(Frame)
        BY <1>1 DEF Inv, TypeOK
      <4>5. QED
        BY <1>1, <4>1, <4>3, <4>4
    <3>2. QED
      BY <3>1
  <2>2. ASSUME NEW sig \in Signals, Signal(sig)
        PROVE  FALSE
    <3> DEFINE f == [sig |-> sig, at |-> "gamepad", i |-> 0]
    <3>1. frames \in Seq(Frame)
      BY <1>1 DEF Inv, TypeOK
    <3>2. f \in Frame
      BY ProcessAssumption DEF Frame
    <3>3. frames' = <<f>> \o frames
      BY <2>2 DEF Signal
    <3> HIDE DEF f
    <3>4. Len(frames') = Len(frames) + 1
      BY <3>1, <3>2, <3>3
    <3>5. QED
      BY <1>1, <3>1, <3>4
  <2>3. Program
    BY <1>1, <2>1, <2>2 DEF Next
  <2>4. Quiet
    BY <1>1, <2>3
       DEF Program, ParseArgs, CreateGamepad, vg_ui_create, vg_usb_create, Unwrap,
            WriteFails, Create, CreateFails, Store, SetUp, Destroy,
            Clear, CountDown, Move, Moved, Shifted, At, Quiet, Inv
  <2>5. QED
    BY <2>3, <2>4, OutsideStays, CreateStays, SetUpJoins, DestroyLeaves, RemoveStays
       DEF Program
<1>2. Inv /\ [Next]_vars => [frames' = <<>> => Abstract!Next \/ UNCHANGED Entries]_vars
  BY <1>1
<1>3. QED
  BY <1>2, Invariant, PTL DEF Spec, KeepsRoster

-----------------------------------------------------------------------------
(* A signal ends the process in so many steps *)

(* No two calls are for the same signal. *)
OncePerSignal ==
  \A m, n \in DOMAIN frames : frames[m].sig = frames[n].sig => m = n

LEMMA FrameSeq ==
  ASSUME Inv
  PROVE  /\ frames \in Seq(Frame) /\ Len(frames) \in Nat /\ DOMAIN frames = 1 .. Len(frames)
         /\ \A n \in DOMAIN frames : frames[n] \in Frame
<1>1. frames \in Seq(Frame)
  BY DEF Inv, TypeOK
<1>2. QED
  BY <1>1

LEMMA OnceStep ==
  ASSUME Inv, OncePerSignal, Next
  PROVE  OncePerSignal'
<1>1. /\ frames \in Seq(Frame) /\ Len(frames) \in Nat /\ DOMAIN frames = 1 .. Len(frames)
      /\ \A n \in DOMAIN frames : frames[n] \in Frame
  BY FrameSeq
<1>2. CASE UNCHANGED frames
  BY <1>2 DEF OncePerSignal
<1>3. ASSUME frames # <<>>, NEW at, NEW i, Go(at, i)
      PROVE  OncePerSignal'
  <2>1. /\ DOMAIN frames' = DOMAIN frames /\ 1 \in DOMAIN frames
        /\ \A n \in DOMAIN frames : frames[n] \in Frame
    BY <1>1, <1>3 DEF Go
  <2>2. \A n \in DOMAIN frames : frames'[n].sig = frames[n].sig
    BY <1>3, <2>1 DEF Go, Frame
  <2>3. QED
    BY <2>1, <2>2 DEF OncePerSignal
<1>4. ASSUME NEW sig \in Signals, Signal(sig)
      PROVE  OncePerSignal'
  <2> DEFINE f == [sig |-> sig, at |-> "gamepad", i |-> 0]
  <2>1. frames' = <<f>> \o frames /\ \A n \in DOMAIN frames : frames[n].sig # f.sig
    BY <1>4 DEF Signal
  <2> HIDE DEF f
  <2>2. /\ DOMAIN frames' = 1 .. Len(frames) + 1 /\ frames'[1] = f
        /\ \A n \in 2 .. Len(frames) + 1 : n - 1 \in DOMAIN frames /\ frames'[n] = frames[n - 1]
    BY <1>1, <2>1
  <2>3. QED
    BY <1>1, <2>1, <2>2 DEF OncePerSignal
<1>5. CASE Program
  BY <1>2, <1>5
     DEF Program, ParseArgs, CreateGamepad, vg_ui_create, vg_usb_create, Unwrap,
          WriteFails, Create, CreateFails, Store, SetUp, Destroy,
          Clear, CountDown, Move, Moved, Shifted, Continue, Exit
<1>6. CASE Handler
  <2>1. frames # <<>> /\ (frames' = frames \/ \E at, i : Go(at, i))
    BY <1>6 DEF Handler, DestroyGamepad, EmptyDestroy, EmptyClear, EmptyCount,
           EmptySkip, Emptied, Stop, Handling
  <2>2. QED
    BY <1>2, <1>3, <2>1
<1>7. QED
  BY <1>4, <1>5, <1>6 DEF Next

LEMMA AsManyAsSignals ==
  ASSUME Inv, OncePerSignal
  PROVE  Cardinality(Signals) \in Nat /\ Len(frames) <= Cardinality(Signals)
<1>1. /\ frames \in Seq(Frame) /\ Len(frames) \in Nat /\ DOMAIN frames = 1 .. Len(frames)
      /\ \A n \in DOMAIN frames : frames[n] \in Frame
  BY FrameSeq
<1> DEFINE sigs == [n \in 1 .. Len(frames) |-> frames[n].sig]
<1>2. \A n \in 1 .. Len(frames) : frames[n].sig \in Signals
  <2>1. \A f \in Frame : f.sig \in Signals
    BY DEF Frame
  <2>2. QED
    BY <1>1, <2>1
<1>3. sigs \in Injection(1 .. Len(frames), Signals)
  <2>1. sigs \in [1 .. Len(frames) -> Signals]
    BY <1>2
  <2>2. \A m, n \in 1 .. Len(frames) : sigs[m] = sigs[n] => m = n
    BY <1>1 DEF OncePerSignal
  <2>3. QED
    BY <2>1, <2>2 DEF Injection, IsInjective
<1>4. IsFiniteSet(Signals) /\ Cardinality(Signals) \in Nat
  BY ProcessAssumption, FS_CardinalityType
<1>5. Cardinality(1 .. Len(frames)) <= Cardinality(Signals)
  <2> HIDE DEF sigs
  <2>1. QED
    BY <1>3, <1>4, FS_Injection
<1>6. Cardinality(1 .. Len(frames)) = Len(frames)
  <2>1. \A n \in Nat : Cardinality(1 .. n) = n
    BY FS_Interval
  <2>2. QED
    BY <1>1, <2>1
<1>7. QED
  BY <1>4, <1>5, <1>6

(* StepsLeft for each place of the handler. *)
LEMMA StepsLeftValue ==
  ASSUME Inv, frames # <<>>
  PROVE  /\ ended # "no" => StepsLeft = 0
         /\ ended = "no" =>
              /\ Step = "gamepad" => StepsLeft = 3 * MaxConnections + 2
              /\ Step = "empty" => StepsLeft = 3 * (MaxConnections - Index) + 1
              /\ Step = "clear" => StepsLeft = 3 * (MaxConnections - Index)
              /\ Step = "count" => StepsLeft = 3 * (MaxConnections - Index) - 1
<1>1. ended # "no" => StepsLeft = 0
  BY DEF StepsLeft
<1>2. ASSUME ended = "no", Step = "gamepad"
      PROVE  StepsLeft = 3 * MaxConnections + 2
  <2>1. Index = 0
    BY <1>2 DEF Inv, HandlerInv
  <2>2. StepsLeft = 3 * (MaxConnections - 0) + 2
    BY <1>2, <2>1 DEF StepsLeft, Step
  <2>3. QED
    BY <2>2, ProcessAssumption
<1>3. ended = "no" /\ Step = "empty" => StepsLeft = 3 * (MaxConnections - Index) + 1
  BY DEF StepsLeft, Step
<1>4. ASSUME ended = "no", Step = "clear" \/ Step = "count"
      PROVE  StepsLeft = 3 * (MaxConnections - Index) + (IF Step = "clear" THEN 0 ELSE -1)
  BY <1>4 DEF StepsLeft, Step
<1>5. QED
  BY <1>1, <1>2, <1>3, <1>4, Counted, ProcessAssumption

LEMMA StepsLeftNat ==
  ASSUME Inv, frames # <<>>
  PROVE  StepsLeft \in Nat
<1>1. MaxConnections \in Nat
  BY ProcessAssumption
<1>2. CASE ended # "no"
  BY <1>2, StepsLeftValue
<1>3. CASE ended = "no"
  <2>1. /\ Step \in {"gamepad", "empty", "clear", "count"} /\ Index \in 0 .. MaxConnections
        /\ joycon_count \in 0 .. MaxConnections
    BY <1>3, HandledTypes DEF Handled
  <2>2. Step \in {"clear", "count"} => Index < joycon_count
    BY DEF Inv, HandlerInv
  <2>3. CASE Step \in {"clear", "count"}
    <3>1. Index < MaxConnections /\ Index \in Int
      BY <1>1, <2>1, <2>2, <2>3
    <3>2. QED
      BY <1>1, <1>3, <2>3, <3>1, StepsLeftValue
  <2>4. CASE Step \in {"gamepad", "empty"}
    BY <1>1, <1>3, <2>1, <2>4, StepsLeftValue
  <2>5. QED
    BY <2>1, <2>3, <2>4
<1>4. QED
  BY <1>2, <1>3

(* Where the innermost call may go from where it is. *)
Onward(at, i) ==
  \/ Step = "gamepad" /\ at = "empty" /\ i = 0
  \/ Step = "empty" /\ at = "clear" /\ i = Index
  \/ Step = "clear" /\ at = "count" /\ i = Index
  \/ Step \in {"count", "empty"} /\ at = "empty" /\ i = Index + 1 /\ Index < joycon_count

LEMMA HandlerOnward ==
  ASSUME Inv, Handler
  PROVE  \/ frames' = frames /\ ended' # "no"
         \/ /\ ended' = "no"
            /\ \E at \in {"gamepad", "empty", "clear", "count"}, i \in 0 .. MaxConnections :
                 Go(at, i) /\ Onward(at, i)
<1> DEFINE Stops == frames' = frames /\ ended' # "no"
           Goes == \E at \in {"gamepad", "empty", "clear", "count"}, i \in 0 .. MaxConnections :
                     Go(at, i) /\ Onward(at, i)
<1>1. Handled
  BY DEF Handled, Handler, DestroyGamepad, EmptyDestroy, EmptyClear, EmptyCount,
         EmptySkip, Emptied, Handling
<1>2. /\ Index \in 0 .. MaxConnections /\ joycon_count \in 0 .. MaxConnections
      /\ MaxConnections \in Nat /\ ended = "no"
      /\ Step \in {"clear", "count"} => Index < joycon_count
  BY <1>1, HandledTypes, ProcessAssumption DEF Handled, Inv, HandlerInv
<1>3. 0 \in 0 .. MaxConnections /\ (Index < joycon_count => Index + 1 \in 0 .. MaxConnections)
  BY <1>2
<1>4. CASE DestroyGamepad
  <2>1. Step = "gamepad"
    BY <1>4 DEF DestroyGamepad, Handling, Step
  <2>2. Onward("empty", 0)
    BY <2>1 DEF Onward
  <2>3. Stops \/ (Go("empty", 0) /\ ended' = "no")
    BY <1>2, <1>4 DEF DestroyGamepad, Stop
  <2>4. QED
    BY <1>3, <2>2, <2>3
<1>5. CASE EmptyDestroy
  <2>1. Step = "empty" /\ Index < joycon_count
    BY <1>5 DEF EmptyDestroy, Handling, Step
  <2>2. Onward("clear", Index) /\ Onward("empty", Index + 1)
    BY <2>1 DEF Onward
  <2>3. Stops \/ ((Go("clear", Index) \/ Go("empty", Index + 1)) /\ ended' = "no")
    BY <1>2, <1>5 DEF EmptyDestroy, Stop
  <2>4. QED
    BY <1>2, <1>3, <2>1, <2>2, <2>3
<1>6. CASE EmptyClear
  <2>1. Onward("count", Index) /\ Go("count", Index) /\ ended' = "no"
    BY <1>2, <1>6 DEF EmptyClear, Handling, Onward, Step
  <2>2. QED
    BY <1>2, <2>1
<1>7. CASE EmptyCount \/ EmptySkip
  <2>1. /\ Index < joycon_count
        /\ Onward("empty", Index + 1) /\ Go("empty", Index + 1) /\ ended' = "no"
    BY <1>2, <1>7 DEF EmptyCount, EmptySkip, Handling, Onward, Step
  <2>2. QED
    BY <1>3, <2>1
<1>8. CASE Emptied
  BY <1>8 DEF Emptied, Stop
<1>9. QED
  BY <1>4, <1>5, <1>6, <1>7, <1>8 DEF Handler

(* The innermost call takes a step. *)
LEMMA CallAdvances ==
  ASSUME Inv, Inv', Handler
  PROVE  /\ frames # <<>> /\ frames' # <<>> /\ Len(frames') = Len(frames)
         /\ StepsLeft' < StepsLeft
<1>1. Handled
  BY DEF Handled, Handler, DestroyGamepad, EmptyDestroy, EmptyClear, EmptyCount,
         EmptySkip, Emptied, Handling
<1>2. /\ frames \in Seq(Frame) /\ frames # <<>> /\ Index \in 0 .. MaxConnections
      /\ joycon_count \in 0 .. MaxConnections /\ MaxConnections \in Nat
  BY <1>1, HandledTypes, ProcessAssumption DEF Handled
<1>3. CASE frames' = frames /\ ended' # "no"
  <2>1. StepsLeft' = 0
    BY <1>3 DEF StepsLeft
  <2>2. StepsLeft \in Nat /\ StepsLeft # 0
    <3>1. StepsLeft \in Nat
      BY <1>2, StepsLeftNat
    <3>2. Step = "gamepad" \/ Step = "empty"
      BY <1>1, <1>3 DEF Handler, DestroyGamepad, EmptyDestroy, EmptyClear, EmptyCount,
         EmptySkip, Emptied, Handling, Handled, Step
    <3>3. QED
      BY <1>1, <1>2, <3>1, <3>2, StepsLeftValue DEF Handled
  <2>3. QED
    BY <1>2, <1>3, <2>1, <2>2
<1>4. ASSUME NEW at \in {"gamepad", "empty", "clear", "count"}, NEW i \in 0 .. MaxConnections,
             Go(at, i), Onward(at, i), ended' = "no"
      PROVE  frames' # <<>> /\ Len(frames') = Len(frames) /\ StepsLeft' < StepsLeft
  <2>1. /\ frames' # <<>> /\ Len(frames') = Len(frames)
        /\ Step' = at /\ Index' = i
    BY <1>2, <1>4, GoFrames
  <2>2. /\ at = "empty" => StepsLeft' = 3 * (MaxConnections - i) + 1
        /\ at = "clear" => StepsLeft' = 3 * (MaxConnections - i)
        /\ at = "count" => StepsLeft' = 3 * (MaxConnections - i) - 1
    <3>1. frames' # <<>> /\ ended' = "no" /\ Inv'
      BY <1>4, <2>1
    <3>2. /\ Head(frames').at = at /\ Index' = i
      BY <2>1 DEF Step
    <3>3. StepsLeft' =
            3 * (MaxConnections - i)
              + CASE at = "gamepad" -> 2 [] at = "empty" -> 1 [] at = "clear" -> 0
                  [] at = "count" -> -1
      BY <3>1, <3>2 DEF StepsLeft
    <3>4. QED
      BY <1>2, <3>3
  <2>3. QED
    BY <1>1, <1>2, <1>4, <2>1, <2>2, StepsLeftValue DEF Handled, Onward
<1>5. QED
  BY <1>2, <1>3, <1>4, HandlerOnward

(* The product, in the two forms that are needed: the prover is not asked  *)
(* to multiply anywhere else.                                              *)
LEMMA OneRoundLess ==
  ASSUME NEW c \in Nat, NEW n \in Nat, NEW k \in Nat
  PROVE  (c - (n + 1)) * k = (c - n) * k - k
OBVIOUS

LEMMA RoundsNat ==
  ASSUME NEW c \in Nat, NEW n \in Nat, NEW k \in Nat, n <= c
  PROVE  (c - n) * k \in Nat
<1>1. c - n \in Nat
  OBVIOUS
<1>2. \A m \in Nat : m * k \in Nat
  OBVIOUS
<1>3. QED
  BY <1>1, <1>2

(* There is a round for each call and the signals still to come. *)
Few ==
  /\ Cardinality(Signals) \in Nat
  /\ Len(frames) \in Nat /\ Len(frames) <= Cardinality(Signals)
  /\ frames # <<>> => StepsLeft \in Nat

LEMMA FewCalls == Spec => [](Inv /\ Few)
<1>1. Init => OncePerSignal
  BY DEF Init, OncePerSignal
<1>2. Inv /\ OncePerSignal /\ [Next]_vars => OncePerSignal'
  <2>1. OncePerSignal /\ UNCHANGED vars => OncePerSignal'
    BY DEF OncePerSignal, vars
  <2>2. QED
    BY <2>1, OnceStep
<1>3. Inv /\ OncePerSignal => Few
  BY AsManyAsSignals, FrameSeq, StepsLeftNat DEF Few
<1>4. QED
  BY <1>1, <1>2, <1>3, Invariant, PTL DEF Spec

(* From the first signal on the process takes no more steps than three for *)
(* each entry of the array and three more, as often as there are signals,  *)
(* whatever structures were freed and however the calls of the handler are *)
(* nested.  That it takes them is what SignalEnds adds under fairness.     *)
THEOREM ShutdownWindsDown == Spec => WindsDown
<1> DEFINE k == 3 * MaxConnections + 3
           c == Cardinality(Signals)
           n == Len(frames)
<1>1. ASSUME Inv, Inv', Few, Few', Next, frames # <<>>
      PROVE  0 <= ProcessLeft' /\ ProcessLeft' < ProcessLeft
  <2>1. /\ c \in Nat /\ k \in Nat /\ n \in Nat /\ n <= c
        /\ StepsLeft \in Nat
    BY <1>1, ProcessAssumption DEF Few
  <2>2. ProcessLeft = (c - n) * k + StepsLeft
    BY DEF ProcessLeft
  <2>3. CASE Handler
    <3>1. Len(frames') = n /\ StepsLeft' < StepsLeft /\ StepsLeft' \in Nat
      BY <1>1, <2>3, CallAdvances DEF Few
    <3>2. ProcessLeft' = (c - n) * k + StepsLeft'
      BY <3>1 DEF ProcessLeft
    <3>3. (c - n) * k \in Nat
      BY <2>1, RoundsNat
    <3> DEFINE rounds == (c - n) * k
    <3> HIDE DEF rounds
    <3>4. rounds \in Nat /\ ProcessLeft' = rounds + StepsLeft' /\ ProcessLeft = rounds + StepsLeft
      BY <2>2, <3>2, <3>3 DEF rounds
    <3>5. StepsLeft \in Nat /\ StepsLeft' \in Nat /\ StepsLeft' < StepsLeft
      BY <2>1, <3>1
    <3>6. \A r, a, b \in Nat : b < a => 0 <= r + b /\ r + b < r + a
      OBVIOUS
    <3>7. QED
      BY <3>4, <3>5, <3>6, Zenon
  <2>4. ASSUME NEW sig \in Signals, Signal(sig)
        PROVE  0 <= ProcessLeft' /\ ProcessLeft' < ProcessLeft
    <3>1. Len(frames') = n + 1 /\ StepsLeft' = k - 1
      <4> DEFINE f == [sig |-> sig, at |-> "gamepad", i |-> 0]
      <4>1. f \in Frame /\ frames' = <<f>> \o frames /\ ended' = "no"
        <5>1. f \in Frame
          BY ProcessAssumption DEF Frame
        <5>2. QED
          BY <2>4, <5>1 DEF Signal
      <4>2. f.at = "gamepad" /\ f.i = 0
        OBVIOUS
      <4> HIDE DEF f
      <4>3. Len(frames') = n + 1 /\ Head(frames') = f
        BY <1>1, <4>1, FrameSeq
      <4>4. StepsLeft' = 3 * (MaxConnections - 0) + 2
        BY <4>1, <4>2, <4>3 DEF StepsLeft, Index
      <4>5. QED
        BY <4>3, <4>4, ProcessAssumption
    <3>2. n + 1 <= c
      BY <1>1, <3>1 DEF Few
    <3>3. ProcessLeft' = (c - (n + 1)) * k + (k - 1)
      BY <3>1 DEF ProcessLeft
    <3>4. (c - (n + 1)) * k = (c - n) * k - k /\ (c - n) * k \in Nat
      BY <2>1, OneRoundLess, RoundsNat
    <3>5. (c - (n + 1)) * k \in Nat
      <4>1. n + 1 \in Nat
        BY <2>1
      <4> HIDE DEF n, c, k
      <4>2. QED
        BY <2>1, <3>2, <4>1, RoundsNat
    <3> DEFINE rounds == (c - n) * k
               later == (c - (n + 1)) * k
    <3>6. k >= 3 /\ k \in Nat
      BY ProcessAssumption
    <3> HIDE DEF rounds, later
    <3>7. /\ rounds \in Nat /\ later \in Nat /\ later = rounds - k
          /\ ProcessLeft' = later + (k - 1) /\ ProcessLeft = rounds + StepsLeft
      BY <2>2, <3>3, <3>4, <3>5 DEF rounds, later
    <3> HIDE DEF n, c, k
    <3>8. QED
      BY <2>1, <3>6, <3>7
  <2>5. ~ Program
    BY <1>1 DEF Program, ParseArgs, CreateGamepad, vg_ui_create, vg_usb_create, Unwrap,
         WriteFails, Create, CreateFails, Store, SetUp, Destroy,
         Clear, CountDown, Move, Moved, Shifted, At
  <2>6. QED
    BY <1>1, <2>3, <2>4, <2>5 DEF Next
<1>2. (Inv /\ Few) /\ (Inv /\ Few)' /\ [Next]_vars =>
        [frames # <<>> => 0 <= ProcessLeft' /\ ProcessLeft' < ProcessLeft]_vars
  BY <1>1
<1>3. QED
  BY <1>2, FewCalls, PTL DEF Spec, WindsDown
=============================================================================

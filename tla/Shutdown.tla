------------------------------ MODULE Shutdown -------------------------------
(***************************************************************************)
(* The life of rubusd's process, pointer by pointer: the command line is   *)
(* read, the gamepad created, the device list grows and shrinks, and a     *)
(* signal may interrupt any of it. signal_handler destroys the gamepad and *)
(* the entries of the list as it finds them, and never returns.            *)
(*                                                                         *)
(* DevList takes dev_list_remove for one step.  Here it is as many as it   *)
(* has assignments.  What happens to the Joy-Cons meanwhile is left out,   *)
(* and SIGHUP, whose handler does nothing.                                 *)
(***************************************************************************)
EXTENDS Integers, SequencesExt

CONSTANTS
  Structs,        \* the JoyConDevice structures malloc may return
  MaxConnections, \* the size of the array; no more are ever created
  Signals,        \* SIGINT and SIGTERM
  Arguments,      \* what rubusd may be called with
  NULL

ASSUME ProcessAssumption ==
  /\ MaxConnections \in Nat \ {0}
  /\ NULL \notin Structs
  /\ IsFiniteSet(Signals)

VARIABLES
  pc,           \* where the program stands
  target,       \* conf.target
  gamepad,      \* what vg_ui or vg_usb points to: "none", "made" or "gone"
  joycon,       \* the array
  joycon_count,
  con,          \* the result of jc_create before it is stored
  j,            \* the index of dev_list_remove
  heap,         \* each structure: "none", "live" or "freed"
  frames,       \* the running calls of signal_handler, innermost first
  ended,        \* how the process ended, "no" before
  place,        \* history: where the first signal interrupted the program
  listed        \* history: and what joycon_count was then

list    == <<joycon, joycon_count, con, j, heap>>
history == <<place, listed>>
vars    == <<pc, target, gamepad, list, frames, ended, history>>

Slots == 0 .. MaxConnections - 1

Init ==
  /\ pc = "args"
  /\ target = "uinput"
  /\ gamepad = "none"
  /\ joycon = [k \in Slots |-> NULL] /\ joycon_count = 0
  /\ con = NULL /\ j = 0
  /\ heap = [s \in Structs |-> "none"]
  /\ frames = <<>>
  /\ ended = "no"
  /\ place = "none" /\ listed = 0

-----------------------------------------------------------------------------
(* The program *)

(* The program is at this place, and no signal is being handled. *)
At(p) == pc = p /\ frames = <<>> /\ ended = "no"

Continue(p) == pc' = p /\ UNCHANGED <<target, gamepad, frames, ended, history>>

Exit(how) == ended' = how /\ UNCHANGED <<target, gamepad, frames, history>>

(* The last argument that names a target counts; others are reported, or   *)
(* silence the log.                                                        *)
parse_args(argv) ==
  LET named == SelectSeq(argv, LAMBDA arg : arg \in {"--uinput", "--usb"})
  IN  IF named # <<>> /\ Last(named) = "--usb" THEN "usb" ELSE "uinput"

ParseArgs ==
  /\ At("args")
  /\ pc' = "start"
  /\ \E argv \in Arguments : target' = parse_args(argv)
  /\ UNCHANGED <<gamepad, list, frames, ended, history>>

(* VG_UNWRAP: main has the gamepad only when its creation has returned. *)
Unwrap ==
  \/ /\ gamepad' = "made" /\ pc' = "loop"
     /\ UNCHANGED <<target, list, frames, ended, history>>
  \/ Exit("exit 1") /\ UNCHANGED <<pc, list>>

vg_ui_create  == target = "uinput" /\ Unwrap
vg_usb_create == target = "usb" /\ Unwrap

CreateGamepad == At("start") /\ (vg_ui_create \/ vg_usb_create)

(* dev_list_connect_new calls jc_create, which returns a structure, ... *)
Create ==
  /\ At("loop")
  /\ joycon_count < MaxConnections
  /\ \E s \in Structs :
       /\ heap[s] # "live"
       /\ heap' = [heap EXCEPT ![s] = "live"]
       /\ con' = s
  /\ Continue("store")
  /\ UNCHANGED <<joycon, joycon_count, j>>

(* ... or frees it and returns NULL, which goes into the array too. *)
CreateFails ==
  /\ At("loop")
  /\ joycon_count < MaxConnections
  /\ joycon' = [joycon EXCEPT ![joycon_count] = NULL]
  /\ Continue("loop")
  /\ UNCHANGED <<joycon_count, con, j, heap>>

Store ==
  /\ At("store")
  /\ joycon' = [joycon EXCEPT ![joycon_count] = con]
  /\ con' = NULL
  /\ Continue("setup")
  /\ UNCHANGED <<joycon_count, j, heap>>

(* joycon_count++, or JC_EXPECT. *)
SetUp ==
  /\ At("setup")
  /\ \/ /\ joycon_count' = joycon_count + 1
        /\ Continue("loop")
        /\ UNCHANGED <<joycon, con, j, heap>>
     \/ Exit("exit 1") /\ UNCHANGED <<pc, list>>

(* dev_list_remove(i): jc_destroy, ... *)
Destroy ==
  /\ At("loop")
  /\ \E i \in 0 .. joycon_count - 1 :
       /\ heap' = [heap EXCEPT ![joycon[i]] = "freed"]
       /\ j' = i
  /\ Continue("freed")
  /\ UNCHANGED <<joycon, joycon_count, con>>

(* Mutant: joycon[i] keeps its pointer. *)
Clear_Kept == At("freed") /\ Continue("cleared") /\ UNCHANGED list

(* ... joycon[i] = 0, ... *)
Clear ==
  /\ At("freed")
  /\ joycon' = [joycon EXCEPT ![j] = NULL]
  /\ Continue("cleared")
  /\ UNCHANGED <<joycon_count, con, j, heap>>

(* Mutant: the caller counts down too. *)
CountDown_Twice ==
  /\ At("cleared")
  /\ joycon_count' = joycon_count - 2
  /\ Continue("shift")
  /\ UNCHANGED <<joycon, con, j, heap>>

(* ... joycon_count--, ... *)
CountDown ==
  /\ At("cleared")
  /\ joycon_count' = joycon_count - 1
  /\ Continue("shift")
  /\ UNCHANGED <<joycon, con, j, heap>>

Movable == j < joycon_count /\ joycon[j] = NULL /\ joycon[j + 1] # NULL

(* Mutant: the last entry fills the gap. *)
Move_Last ==
  /\ At("shift") /\ Movable
  /\ joycon' = [joycon EXCEPT ![j] = joycon[joycon_count]]
  /\ Continue("moved")
  /\ UNCHANGED <<joycon_count, con, j, heap>>

(* ... and the loop: joycon[j] = joycon[j + 1], ... *)
Move ==
  /\ At("shift") /\ Movable
  /\ joycon' = [joycon EXCEPT ![j] = joycon[j + 1]]
  /\ Continue("moved")
  /\ UNCHANGED <<joycon_count, con, j, heap>>

(* Mutant: the index stays. *)
Moved_Stays ==
  /\ At("moved")
  /\ joycon' = [joycon EXCEPT ![j + 1] = NULL]
  /\ Continue("shift")
  /\ UNCHANGED <<joycon_count, con, j, heap>>

(* ... joycon[j + 1] = 0, the new number is sent, and j++. *)
Moved ==
  /\ At("moved")
  /\ joycon' = [joycon EXCEPT ![j + 1] = NULL]
  /\ j' = j + 1
  /\ Continue("shift")
  /\ UNCHANGED <<joycon_count, con, heap>>

Shifted ==
  /\ At("shift") /\ ~ Movable
  /\ Continue("loop")
  /\ UNCHANGED list

(* A write to the gamepad fails: VG_EXPECT. *)
WriteFails ==
  /\ At("loop")
  /\ Exit("exit 1")
  /\ UNCHANGED <<pc, list>>

Program ==
  \/ ParseArgs \/ CreateGamepad \/ WriteFails
  \/ Create \/ CreateFails \/ Store \/ SetUp
  \/ Destroy \/ Clear \/ CountDown \/ Move \/ Moved \/ Shifted

-----------------------------------------------------------------------------
(* signal_handler *)

(* Mutant: the handler may be interrupted by its own signal. *)
Signal_Unmasked(sig) ==
  /\ ended = "no"
  /\ frames' = <<[sig |-> sig, at |-> "gamepad", i |-> 0]>> \o frames
  /\ IF frames = <<>> THEN place' = pc /\ listed' = joycon_count
                      ELSE UNCHANGED history
  /\ UNCHANGED <<pc, target, gamepad, list, ended>>

(* A signal is not delivered while its own handler runs; the other is. *)
Signal(sig) ==
  /\ ended = "no"
  /\ \A f \in DOMAIN frames : frames[f].sig # sig
  /\ frames' = <<[sig |-> sig, at |-> "gamepad", i |-> 0]>> \o frames
  /\ IF frames = <<>> THEN place' = pc /\ listed' = joycon_count
                      ELSE UNCHANGED history
  /\ UNCHANGED <<pc, target, gamepad, list, ended>>

Handling(at) == ended = "no" /\ frames # <<>> /\ Head(frames).at = at

Go(at, i) == frames' = [frames EXCEPT ![1].at = at, ![1].i = i]

Stop(how) == ended' = how /\ UNCHANGED frames

(* vg_ui_destroy or vg_usb_destroy.  The first may fail, and VG_EXPECT     *)
(* then ends the process; the second always returns VG_OK.  The pointer    *)
(* may be NULL, which faults, or lead to a structure already freed, with   *)
(* any outcome.                                                            *)
DestroyGamepad ==
  /\ Handling("gamepad")
  /\ \/ /\ gamepad # "none"
        /\ gamepad' = "gone" /\ Go("empty", 0) /\ UNCHANGED ended
     \/ /\ gamepad # "none" /\ target = "uinput"
        /\ Stop("exit 1") /\ UNCHANGED gamepad
     \/ /\ gamepad # "made"
        /\ Stop("fault") /\ UNCHANGED gamepad
  /\ UNCHANGED <<pc, target, list, history>>

Index == Head(frames).i

(* dev_list_empty: an entry that is not NULL is looked into and destroyed, *)
(* ...  If it is freed already, its handle may read as NULL, or not, and   *)
(* to destroy it again may fault, or not.                                  *)
EmptyDestroy ==
  /\ Handling("empty")
  /\ Index < joycon_count /\ joycon[Index] # NULL
  /\ \/ /\ heap' = [heap EXCEPT ![joycon[Index]] = "freed"]
        /\ Go("clear", Index) /\ UNCHANGED ended
     \/ /\ heap[joycon[Index]] = "freed"
        /\ Go("empty", Index + 1) /\ UNCHANGED <<heap, ended>>
     \/ /\ heap[joycon[Index]] = "freed"
        /\ Stop("fault") /\ UNCHANGED heap
  /\ UNCHANGED <<pc, target, gamepad, joycon, joycon_count, con, j, history>>

(* ... set to NULL, ... *)
EmptyClear ==
  /\ Handling("clear")
  /\ joycon' = [joycon EXCEPT ![Index] = NULL]
  /\ Go("count", Index)
  /\ UNCHANGED <<pc, target, gamepad, joycon_count, con, j, heap, ended, history>>

(* Mutant: the count is left alone. *)
EmptyCount_Uncounted ==
  /\ Handling("count")
  /\ Go("empty", Index + 1)
  /\ UNCHANGED <<pc, target, gamepad, list, ended, history>>

(* ... and taken off the count the loop goes up to. *)
EmptyCount ==
  /\ Handling("count")
  /\ joycon_count' = joycon_count - 1
  /\ Go("empty", Index + 1)
  /\ UNCHANGED <<pc, target, gamepad, joycon, con, j, heap, ended, history>>

(* Mutant: a NULL entry is not passed over. *)
EmptySkip_Waits ==
  /\ Handling("empty")
  /\ Index < joycon_count /\ joycon[Index] = NULL
  /\ UNCHANGED vars

EmptySkip ==
  /\ Handling("empty")
  /\ Index < joycon_count /\ joycon[Index] = NULL
  /\ Go("empty", Index + 1)
  /\ UNCHANGED <<pc, target, gamepad, list, ended, history>>

(* exit(0) *)
Emptied ==
  /\ Handling("empty")
  /\ Index >= joycon_count
  /\ Stop("exit 0")
  /\ UNCHANGED <<pc, target, gamepad, list, history>>

Handler ==
  DestroyGamepad \/ EmptyDestroy \/ EmptyClear \/ EmptyCount \/ EmptySkip \/ Emptied

Next == Program \/ Handler \/ \E sig \in Signals : Signal(sig)

Spec == Init /\ [][Next]_vars

(* A handler that was called runs. *)
FairSpec == Spec /\ WF_vars(Handler)
-----------------------------------------------------------------------------
(* Properties *)

Places == {"args", "start", "loop", "store", "setup", "freed", "cleared", "shift", "moved"}

Frame == [sig : Signals, at : {"gamepad", "empty", "clear", "count"}, i : 0 .. MaxConnections]

(* The types of the variables. *)
TypeOK ==
  /\ pc \in Places
  /\ target \in {"uinput", "usb"}
  /\ gamepad \in {"none", "made", "gone"}
  /\ joycon \in [Slots -> Structs \cup {NULL}]
  /\ joycon_count \in 0 .. MaxConnections
  /\ con \in Structs \cup {NULL}
  /\ j \in 0 .. MaxConnections
  /\ heap \in [Structs -> {"none", "live", "freed"}]
  /\ frames \in Seq(Frame)
  /\ ended \in {"no", "exit 0", "exit 1", "fault"}
  /\ place \in Places \cup {"none"} /\ listed \in 0 .. MaxConnections

Live(k) == joycon[k] # NULL /\ heap[joycon[k]] = "live"

(* Whenever the program is between two operations on the list, its entries *)
(* are different live structures, and there is no other live structure: a  *)
(* removal neither loses one nor leaves a pointer to one that is freed.    *)
Intact ==
  At("loop") =>
    /\ \A k \in Slots : k < joycon_count <=> joycon[k] # NULL
    /\ \A s \in Structs : heap[s] = "live" <=>
         \E k \in 0 .. joycon_count - 1 : joycon[k] = s
    /\ \A k, l \in 0 .. joycon_count - 1 : joycon[k] = joycon[l] => k = l

Gap == pc \in {"freed", "cleared", "shift", "moved"}

Entry(k) == IF Live(k) THEN joycon[k] ELSE NULL

(* The entries in use, in order: from the destruction of one until the gap *)
(* is closed, whatever stands at index j of the array is left out.         *)
Entries ==
  LET size == IF pc \in {"freed", "cleared"} THEN joycon_count - 1 ELSE joycon_count
  IN  [n \in 1 .. size |-> Entry(IF Gap /\ n > j THEN n ELSE n - 1)]

Abstract ==
  INSTANCE Roster WITH Pads <- Structs, AddressOf <- [s \in Structs |-> s],
                       roster <- Entries

(* As long as no signal comes, the list with its pointers moved one by one *)
(* does no more than Roster says: a removal takes effect in one step.      *)
KeepsRoster == [][frames' = <<>> => Abstract!Next \/ UNCHANGED Entries]_vars

(* A signal ends the process. *)
SignalEnds == frames # <<>> ~> ended # "no"

(* How many steps the innermost call has left, at most: the gamepad, three *)
(* for each entry of the array, and exit.                                  *)
StepsLeft ==
  IF ended # "no" THEN 0
  ELSE 3 * (MaxConnections - Index)
         + CASE Head(frames).at = "gamepad" -> 2
             [] Head(frames).at = "empty"   -> 1
             [] Head(frames).at = "clear"   -> 0
             [] Head(frames).at = "count"   -> -1

(* How many the process has: the signals that may still come are those not *)
(* being handled, and each is a call more.                                 *)
ProcessLeft ==
  (Cardinality(Signals) - Len(frames)) * (3 * MaxConnections + 3) + StepsLeft

(* From the first signal on every step brings the end of the process       *)
(* nearer, whatever the handler finds, and however often it is interrupted *)
(* itself.                                                                 *)
WindsDown == [][frames # <<>> => 0 <= ProcessLeft' /\ ProcessLeft' < ProcessLeft]_vars

Nested == Len(frames) > 1

(* A single signal is safe wherever it comes but for three places: before  *)
(* there is a gamepad, and in dev_list_remove between the destruction of   *)
(* an entry and the assignment of NULL, and while an entry is there twice. *)
SafeElsewhere ==
  ended = "fault" => Nested \/ place \in {"args", "start", "freed", "moved"}

(* A signal in the loop closes the first half of the handles, rounded up,  *)
(* and leaves the others to the end of the process.                        *)
HalfClosed ==
  ended = "exit 0" /\ place = "loop" /\ ~ Nested =>
    \A k \in 0 .. listed - 1 : Live(k) <=> k >= listed - (listed \div 2)
=============================================================================

---------------------------- MODULE DaemonProofs -----------------------------
(***************************************************************************)
(* Proofs about the main loop.  That it uses the device list only as       *)
(* DevList allows gives it the invariants of DevListProofs; on them rest   *)
(* the proofs of what the host is shown.                                   *)
(***************************************************************************)
EXTENDS Daemon, DevListProofs

-----------------------------------------------------------------------------
(* The loop uses the list as DevList says *)

(* What main does with the list is a step of DevList or leaves it alone.   *)
LEMMA DaemonListStep ==
  ASSUME ListTypeOK, i \in Nat, [DaemonNext]_daemonVars
  PROVE  [ListNext]_listVars
<1>1. CASE Heard \/ Quiet \/ Clock \/ UNCHANGED daemonVars
  BY <1>1 DEF Heard, Quiet, Clock, Tick, SetForward, SetBack, daemonVars
<1>2. CASE Lose
  <2>1. i \in Used
    BY <1>2, MaxAssumption DEF Lose, Sweeping, ListTypeOK, Used
  <2>2. QED
    BY <1>2, <2>1 DEF Lose, Sweeping, ListNext, Remove
<1>3. CASE SweepDone
  BY <1>3 DEF SweepDone, ListNext
<1>4. CASE Connect \/ (Abort /\ UNCHANGED loopVars)
  BY <1>4 DEF Connect, ListNext
<1>5. ASSUME NEW c \in Pads, Push(c) \/ GoneFor(c) \/ (LinkUp(c) /\ UNCHANGED loopVars)
      PROVE  [ListNext]_listVars
  BY <1>5 DEF Push, GoneFor, ListNext
<1>6. QED
  BY <1>1, <1>2, <1>3, <1>4, <1>5 DEF DaemonNext, Program

(* The list is in order and the index counts. *)
LoopInv == ListInv /\ i \in Nat

LEMMA LoopStep == LoopInv /\ [DaemonNext]_daemonVars => LoopInv' /\ [ListNext]_listVars
<1> SUFFICES ASSUME LoopInv, [DaemonNext]_daemonVars
             PROVE  LoopInv' /\ [ListNext]_listVars
  OBVIOUS
<1>1. [ListNext]_listVars
  BY DaemonListStep DEF LoopInv, ListInv
<1>2. ListInv'
  BY <1>1, StepInv DEF LoopInv
<1>3. i' \in Nat
  BY DEF LoopInv, DaemonNext, Program, Heard, Quiet, Lose, SweepDone, Connect,
         Push, Clock, Tick, SetForward, SetBack, GoneFor, loopVars, daemonVars
<1>4. QED
  BY <1>1, <1>2, <1>3 DEF LoopInv

LEMMA LoopInvariant == DaemonSpec => []LoopInv
<1>1. DaemonInit => LoopInv
  BY InitInv DEF DaemonInit, LoopInv
<1>2. QED
  BY <1>1, LoopStep, PTL DEF DaemonSpec

(* The loop, with the clock and the reports, is a behaviour of DevList: it *)
(* removes only entries in use, and scans only between two sweeps.         *)
THEOREM DaemonImplementsList == DaemonSpec => ListSpec
<1>1. DaemonInit => ListInit
  BY DEF DaemonInit
<1>2. QED
  BY <1>1, LoopInvariant, LoopStep, PTL DEF DaemonSpec, ListSpec

(* Players keep their order through the whole of main: it adds nothing to  *)
(* what Roster promises of the list.                                       *)
THEOREM DaemonImplementsRoster == DaemonSpec => ImplementsRoster
BY DaemonImplementsList, ListImplementsRoster, PTL

(* Every entry the sweep dereferences is a Joy-Con that was set up, and no *)
(* other entry is the same one.                                            *)
THEOREM DaemonKeepsList == DaemonSpec => []ListInv
BY DaemonImplementsList, ListInvariant, PTL

-----------------------------------------------------------------------------
(* What a step of the loop does to the entries in use *)

(* An entry in use is a Joy-Con, and no other entry is the same. *)
LEMMA Entries ==
  ASSUME ListInv
  PROVE  /\ joycon_count \in Nat
         /\ \A k \in Used : k \in Nat /\ joycon[k] \in Pads
         /\ \A j, k \in Used : joycon[j] = joycon[k] => j = k
BY MaxAssumption DEF ListInv, ListTypeOK, Compact, NoDuplicate, Used, Slots

(* Outside dev_list_remove the entries in use stay where they are. *)
LEMMA EntriesStay ==
  ASSUME ListInv, ConnectStep \/ Scan \/ Abort \/ UNCHANGED listVars
                  \/ \E c \in Pads : LinkUp(c) \/ Drop(c)
  PROVE  /\ Used \subseteq Used'
         /\ \A k \in Used : joycon'[k] = joycon[k]
<1>1. joycon_count \in Nat /\ joycon \in [Slots -> Pads \cup {NULL}]
      /\ Used \subseteq Slots /\ joycon_count \notin Used
  BY MaxAssumption DEF ListInv, ListTypeOK, Used, Slots
<1>2. CASE UNCHANGED <<joycon, joycon_count>>
  BY <1>2 DEF Used
<1>3. CASE AllOn \/ CreateFails
  <2>1. UNCHANGED joycon_count
    BY <1>3 DEF AllOn, CreateFails
  <2>2. \A k \in Used : joycon'[k] = joycon[k]
    BY <1>1, <1>3 DEF AllOn, CreateFails
  <2>3. QED
    BY <2>1, <2>2 DEF Used
<1>4. CASE Mode
  BY <1>1, <1>4 DEF Mode, Used
<1>5. QED
  BY <1>2, <1>3, <1>4
     DEF listVars, ConnectStep, Scan, Enumerate, EnumerateFails, Abort, LinkUp,
         Drop, SkipKnown, NewFound, ScanDone, Open, OpenFails, StringFails,
         Flush, Drain, Calibrate, Number, SetupFails

-----------------------------------------------------------------------------
(* The variables of the loop *)

(* During a scan no sweep is under way. *)
Between == pc \notin {"idle"} \cup Stopped => i = 0 /\ ~ lost

TypeInv == DaemonTypeOK /\ Between

LEMMA TypeStep ==
  ASSUME ListInv, TypeInv, [DaemonNext]_daemonVars, ListInv'
  PROVE  TypeInv'
<1> USE DaemonAssumption DEF TypeInv, DaemonTypeOK, Between
<1>1. ListTypeOK /\ ListTypeOK'
  BY DEF ListInv
<1>2. CASE Heard
  <2>1. Turn \in Pads /\ inbox[Turn] \in Seq(Inputs) /\ inbox[Turn] # <<>>
    BY <1>1, <1>2, Entries DEF Heard, Sweeping, Readable, Turn, Used, ListTypeOK
  <2>2. Head(inbox[Turn]) \in Inputs /\ Tail(inbox[Turn]) \in Seq(Inputs)
        /\ Len(Tail(inbox[Turn])) <= Len(inbox[Turn])
    BY <2>1
  <2>3. jc_apply_input_packet(Turn, Head(inbox[Turn])) \in States
    BY <2>1, <2>2 DEF jc_apply_input_packet, States
  <2>4. inbox' \in [Pads -> Seq(Inputs)] /\ \A c \in Pads : Len(inbox'[c]) <= InboxLimit
    BY <1>2, <2>1, <2>2 DEF Heard
  <2>5. state' \in [Pads -> States] /\ gamepad' \in [Sides -> States]
    BY <1>2, <2>1, <2>3 DEF Heard, Write
  <2>6. i' \in 0 .. joycon_count' + 1
    BY <1>1, <1>2 DEF Heard, Sweeping, listVars, ListTypeOK
  <2>7. QED
    BY <1>1, <1>2, <2>1, <2>4, <2>5, <2>6 DEF Heard, Ages, Never, listVars, Sweeping
<1>3. CASE Quiet
  <2>1. Turn \in Pads
    BY <1>1, <1>3, Entries DEF Quiet, Sweeping, Turn, Used, ListTypeOK
  <2>2. gamepad' \in [Sides -> States]
    BY <1>3, <2>1 DEF Quiet, Write
  <2>3. i' \in 0 .. joycon_count' + 1
    BY <1>1, <1>3 DEF Quiet, Sweeping, listVars, ListTypeOK
  <2>4. QED
    BY <1>1, <1>3, <2>2, <2>3 DEF Quiet, listVars, clockVars, Sweeping
<1>4. CASE Lose
  <2>1. Turn \in Pads /\ joycon_count' = joycon_count - 1 /\ pc' = pc /\ pc = "idle"
    BY <1>1, <1>4, Entries
       DEF Lose, Sweeping, Turn, Used, ListTypeOK, dev_list_remove
  <2>2. ASSUME NEW q \in Seq(Inputs), Len(q) <= InboxLimit
        PROVE  /\ q # <<>> => Tail(q) \in Seq(Inputs) /\ Len(Tail(q)) <= InboxLimit
               /\ <<>> \in Seq(Inputs) /\ Len(<<>>) <= InboxLimit
    BY <2>2
  <2>3. inbox' \in [Pads -> Seq(Inputs)] /\ \A c \in Pads : Len(inbox'[c]) <= InboxLimit
    BY <1>4, <2>2 DEF Lose
  <2>4. gamepad' \in [Sides -> States] /\ state' \in [Pads -> States]
        /\ last_seen' \in [Pads -> Ages]
    BY <1>4, <2>1 DEF Lose, Zeroed, States, Ages, Never
  <2>5. i' \in 0 .. joycon_count' + 1
    BY <1>1, <1>4, <2>1 DEF Lose, Sweeping, ListTypeOK
  <2>6. QED
    BY <1>1, <1>4, <2>1, <2>3, <2>4, <2>5 DEF Lose
<1>5. CASE SweepDone
  <2>1. joycon_count' = joycon_count /\ joycon_count \in Nat
    BY <1>1, <1>5, MaxAssumption
       DEF SweepDone, Scan, Enumerate, EnumerateFails, listVars, ListTypeOK
  <2>2. host' \in [Sides -> States] /\ usb_timeout' \in 0 .. 1 /\ flushed' \in BOOLEAN
    <3>1. Frame \/ (flushed' = TRUE /\ UNCHANGED <<host, usb_timeout>>)
      BY <1>5 DEF SweepDone
    <3>2. CASE Frame
      <4>1. host' \in [Sides -> States]
        BY <3>2 DEF Frame, vg_usb_send, vg_ui_flush
      <4>2. usb_timeout' \in 0 .. 1
        BY <3>2 DEF Frame, FrameDue
      <4>3. flushed' \in BOOLEAN
        BY <3>2, Zenon DEF Frame, vg_usb_send, vg_ui_flush
      <4>4. QED
        BY <4>1, <4>2, <4>3
    <3>3. CASE flushed' = TRUE /\ UNCHANGED <<host, usb_timeout>>
      BY <3>3
    <3>4. QED
      BY <3>1, <3>2, <3>3
  <2>3. connect_timeout' \in 0 .. RescanPeriod
    BY <1>5 DEF SweepDone, RescanDue
  <2>4. UNCHANGED <<inbox, last_seen, state, gamepad, settings, stale>>
        /\ i' = 0 /\ lost' = FALSE
    BY <1>5 DEF SweepDone, clockVars
  <2>5. i' \in 0 .. joycon_count' + 1
    BY <2>1, <2>4
  <2>6. lost' \in BOOLEAN /\ Between'
    BY <2>4
  <2>7. QED
    BY <1>1, <2>2, <2>3, <2>4, <2>5, <2>6
<1>6. CASE Connect
  <2>1. i = 0 /\ ~ lost /\ joycon_count' \in Nat
    BY <1>1, <1>6, MaxAssumption
       DEF Connect, ConnectStep, SkipKnown, NewFound, ScanDone, Open, OpenFails,
           StringFails, Flush, Drain, AllOn, CreateFails, Calibrate, Number,
           Mode, SetupFails, Setup, Stopped, ListTypeOK
  <2>2. UNCHANGED loopVars
    BY <1>6 DEF Connect
  <2>3. i' \in 0 .. joycon_count' + 1
    <3>1. i' = 0 /\ joycon_count' \in Nat
      BY <2>1, <2>2 DEF loopVars
    <3>2. \A n \in Nat : 0 \in 0 .. n + 1
      OBVIOUS
    <3>3. QED
      BY <3>1, <3>2, Zenon
  <2>4. lost' \in BOOLEAN /\ Between'
    BY <2>1, <2>2 DEF loopVars
  <2>5. QED
    BY <1>1, <2>2, <2>3, <2>4 DEF loopVars, clockVars
<1>7. CASE Clock
  <2>1. last_seen' \in [Pads -> Ages] /\ settings' \in 0 .. MaxSettings /\ stale' \subseteq Pads
    <3>1. \A age \in Ages : age - 1 \in Ages /\ (age < SilenceLimit => age + 1 \in Ages)
      BY DEF Ages, Never
    <3>2. SilenceLimit \in Ages /\ Never \in Ages /\ Seen \subseteq Pads
      BY DEF Ages, Never, Seen
    <3>3. last_seen' \in [Pads -> Ages]
      <4>1. CASE Tick
        BY <3>1, <4>1 DEF Tick
      <4>2. CASE SetForward
        BY <3>2, <4>2 DEF SetForward
      <4>3. CASE SetBack
        BY <3>1, <4>3 DEF SetBack
      <4>4. QED
        BY <1>7, <4>1, <4>2, <4>3 DEF Clock
    <3>4. settings' \in 0 .. MaxSettings /\ stale' \subseteq Pads
      BY <1>7, <3>2 DEF Clock, Tick, SetForward, SetBack, clockVars
    <3>5. QED
      BY <3>3, <3>4
  <2>2. UNCHANGED <<listVars, i, inbox, state, gamepad, host, connect_timeout,
                    usb_timeout, flushed, lost>>
    BY <1>7 DEF Clock, Tick, SetForward, SetBack
  <2>3. QED
    BY <1>1, <2>1, <2>2 DEF listVars
<1>8. ASSUME NEW c \in Pads, Push(c)
      PROVE  TypeInv'
  <2>1. inbox' \in [Pads -> Seq(Inputs)] /\ \A d \in Pads : Len(inbox'[d]) <= InboxLimit
    <3>1. PICK r \in Inputs : inbox' = [inbox EXCEPT ![c] = Append(@, r)]
      BY <1>8 DEF Push
    <3>2. Append(inbox[c], r) \in Seq(Inputs)
          /\ Len(Append(inbox[c], r)) = Len(inbox[c]) + 1 /\ Len(inbox[c]) \in Nat
      OBVIOUS
    <3>3. QED
      BY <1>8, <3>1, <3>2 DEF Push
  <2>2. QED
    BY <1>1, <1>8, <2>1 DEF Push, listVars, clockVars
<1>9. ASSUME NEW c \in Pads, GoneFor(c)
      PROVE  TypeInv'
  <2>1. <<>> \in Seq(Inputs) /\ Len(<<>>) <= InboxLimit
    OBVIOUS
  <2>2. inbox' \in [Pads -> Seq(Inputs)] /\ \A d \in Pads : Len(inbox'[d]) <= InboxLimit
    BY <1>9, <2>1 DEF GoneFor
  <2>3. QED
    BY <1>1, <1>9, <2>2 DEF GoneFor, Drop, clockVars
<1>10. CASE \/ Abort /\ UNCHANGED loopVars
            \/ UNCHANGED daemonVars
            \/ \E c \in Pads : LinkUp(c) /\ UNCHANGED loopVars
  BY <1>1, <1>10 DEF Abort, LinkUp, loopVars, listVars, daemonVars, clockVars, Stopped
<1>11. QED
  BY <1>2, <1>3, <1>4, <1>5, <1>6, <1>7, <1>8, <1>9, <1>10 DEF DaemonNext, Program

LEMMA DaemonTypeInv == DaemonSpec => []TypeInv
<1>1. DaemonInit => TypeInv
  <2>1. <<>> \in Seq(Inputs) /\ Len(<<>>) = 0
    OBVIOUS
  <2>2. DaemonInit => ListTypeOK
    BY InitInv DEF DaemonInit, ListInv
  <2>3. DaemonInit => inbox \in [Pads -> Seq(Inputs)] /\ \A c \in Pads : Len(inbox[c]) = 0
    BY <2>1 DEF DaemonInit
  <2>4. DaemonInit => Between /\ i \in 0 .. joycon_count + 1
    BY DEF DaemonInit, ListInit, Between
  <2>5. DaemonInit => lost \in BOOLEAN /\ connect_timeout \in 0 .. RescanPeriod
    <3>1. 0 \in 0 .. RescanPeriod
      BY DaemonAssumption
    <3>2. QED
      BY <3>1, Zenon DEF DaemonInit
  <2>6. DaemonInit => last_seen \in [Pads -> Ages] /\ state \in [Pads -> States]
    <3>1. Never \in Ages /\ Rest \in States
      BY DaemonAssumption DEF Ages, Never, States
    <3>2. QED
      BY <3>1 DEF DaemonInit
  <2>7. QED
    BY <2>2, <2>3, <2>4, <2>5, <2>6, DaemonAssumption
       DEF DaemonInit, TypeInv, DaemonTypeOK, States
<1>2. ListInv /\ TypeInv /\ [DaemonNext]_daemonVars /\ ListInv' => TypeInv'
  BY TypeStep
<1>3. QED
  BY <1>1, <1>2, DaemonKeepsList, PTL DEF DaemonSpec

(* The counters stay in their ranges: the index at most one beyond the     *)
(* count, usb_timeout at most one, connect_timeout at most the period.     *)
THEOREM DaemonTypeCorrect == DaemonSpec => []DaemonTypeOK
<1>1. TypeInv => DaemonTypeOK
  BY DEF TypeInv
<1>2. QED
  BY <1>1, DaemonTypeInv, PTL

-----------------------------------------------------------------------------
(* What the host is shown *)

(* Every input held on the gamepad is held on a Joy-Con of that half. *)
Held ==
  Target = "usb" =>
    \A s \in Sides : gamepad[s] # Rest =>
      \E k \in Used : SideOf[joycon[k]] = s /\ state[joycon[k]] = gamepad[s]

(* Of the entries of a half the sweep has passed, the last has left its    *)
(* state on the gamepad, unless a removal broke the order of the sweep.    *)
Swept ==
  ~ lost =>
    \A k \in Used :
      /\ k < i
      /\ \A j \in Used : SideOf[joycon[j]] = SideOf[joycon[k]] /\ j < i => j <= k
      => gamepad[SideOf[joycon[k]]] = state[joycon[k]]

ShownInv == Held /\ Swept

(* A poll writes the state of the Joy-Con whose turn it is to its half and *)
(* changes no other Joy-Con's state.                                       *)
LEMMA PollShown ==
  ASSUME ListInv, TypeInv, ShownInv, Sweeping, NEW new,
         UNCHANGED listVars, UNCHANGED lost, i' = i + 1,
         state' = [state EXCEPT ![Turn] = new],
         gamepad' = [gamepad EXCEPT ![SideOf[Turn]] = new]
  PROVE  ShownInv'
<1>1. /\ i \in Used /\ Turn = joycon[i] /\ Turn \in Pads /\ SideOf[Turn] \in Sides
      /\ gamepad \in [Sides -> States] /\ state \in [Pads -> States]
  <2>1. /\ i \in 0 .. joycon_count + 1 /\ i < joycon_count
        /\ joycon_count \in 0 .. MaxConnections
        /\ gamepad \in [Sides -> States] /\ state \in [Pads -> States]
    BY DEF Sweeping, TypeInv, DaemonTypeOK, ListTypeOK
  <2>2. i \in Used
    BY <2>1, MaxAssumption DEF Used
  <2>3. Turn = joycon[i] /\ Turn \in Pads
    BY <2>2, Entries DEF Turn
  <2>4. SideOf[Turn] \in Sides
    BY <2>3, DaemonAssumption
  <2>5. QED
    BY <2>1, <2>2, <2>3, <2>4
<1>2. /\ \A k \in Used : joycon[k] \in Pads /\ SideOf[joycon[k]] \in Sides
      /\ \A k \in Used : k # i => joycon[k] # Turn
  BY <1>1, Entries, DaemonAssumption
<1>3. UNCHANGED <<joycon, joycon_count>> /\ Used' = Used
  BY DEF listVars, Used
<1>4. Held'
  <2> SUFFICES ASSUME Target = "usb", NEW s \in Sides, gamepad'[s] # Rest
               PROVE  \E k \in Used : SideOf[joycon[k]] = s /\ state'[joycon[k]] = gamepad'[s]
    BY <1>3 DEF Held
  <2>1. CASE s = SideOf[Turn]
    BY <1>1, <2>1
  <2>2. CASE s # SideOf[Turn]
    <3>1. gamepad'[s] = gamepad[s]
      BY <1>1, <2>2
    <3>2. PICK k \in Used : SideOf[joycon[k]] = s /\ state[joycon[k]] = gamepad[s]
      BY <3>1 DEF ShownInv, Held
    <3>3. state'[joycon[k]] = state[joycon[k]]
      BY <1>1, <1>2, <2>2, <3>2
    <3>4. QED
      BY <3>1, <3>2, <3>3
  <2>3. QED
    BY <2>1, <2>2
<1>5. Swept'
  <2> SUFFICES ASSUME ~ lost, NEW k \in Used, k < i + 1,
                      \A j \in Used : SideOf[joycon[j]] = SideOf[joycon[k]] /\ j < i + 1
                                      => j <= k
               PROVE  gamepad'[SideOf[joycon[k]]] = state'[joycon[k]]
    BY <1>3 DEF Swept
  <2>1. CASE k = i
    BY <1>1, <2>1
  <2>2. CASE k # i
    <3>1. k < i /\ \A j \in Used : j < i => j < i + 1
      BY <1>1, <2>2, Entries
    <3>2. SideOf[joycon[k]] # SideOf[Turn]
      BY <1>1, <3>1, Entries
    <3>3. gamepad[SideOf[joycon[k]]] = state[joycon[k]]
      BY <3>1 DEF ShownInv, Swept
    <3>4. QED
      BY <1>1, <1>2, <2>2, <3>2, <3>3
  <2>3. QED
    BY <2>1, <2>2
<1>6. QED
  BY <1>4, <1>5 DEF ShownInv

(* Where neither states nor gamepad change and the entries stay, neither   *)
(* does the invariant.                                                     *)
LEMMA KeepShown ==
  ASSUME ListInv, TypeInv, ShownInv, UNCHANGED <<state, gamepad>>,
         Used \subseteq Used', \A k \in Used : joycon'[k] = joycon[k],
         i' = 0 \/ (UNCHANGED <<i, lost, joycon_count>>),
         Used' \subseteq Nat
  PROVE  ShownInv'
<1>1. Held'
  BY DEF ShownInv, Held
<1>2. CASE i' = 0
  BY <1>1, <1>2 DEF ShownInv, Swept
<1>3. CASE UNCHANGED <<i, lost, joycon_count>>
  <2>1. Used' = Used
    BY <1>3 DEF Used
  <2>2. QED
    BY <1>1, <1>3, <2>1 DEF ShownInv, Swept
<1>4. QED
  BY <1>2, <1>3

LEMMA ShownStep ==
  ASSUME ListInv, TypeInv, ShownInv, [DaemonNext]_daemonVars, ListInv'
  PROVE  ShownInv'
<1>1. CASE Heard
  BY <1>1, PollShown DEF Heard, Write
<1>2. CASE Quiet
  <2>1. state = [state EXCEPT ![Turn] = state[Turn]]
    BY DEF TypeInv, DaemonTypeOK
  <2>2. QED
    BY <1>2, <2>1, PollShown DEF Quiet, Write
<1>3. CASE Lose
  BY <1>3 DEF Lose, Zeroed, ShownInv, Held, Swept
<1>4. Used' \subseteq Nat
  <2>1. (joycon_count \in 0 .. MaxConnections)'
    BY DEF ListInv, ListTypeOK
  <2>2. joycon_count' \in Int
    BY <2>1, MaxAssumption
  <2>3. ASSUME NEW k \in 0 .. joycon_count' - 1
        PROVE  k \in Nat
    BY <2>2, <2>3
  <2>4. QED
    BY <2>3 DEF Used
<1>5. CASE SweepDone
  <2>1. UNCHANGED <<state, gamepad>> /\ i' = 0 /\ (Scan \/ UNCHANGED listVars)
    BY <1>5 DEF SweepDone
  <2>2. QED
    BY <1>4, <2>1, EntriesStay, KeepShown
<1>6. CASE Connect
  <2>1. UNCHANGED <<state, gamepad>> /\ i' = i /\ ConnectStep
    BY <1>6 DEF Connect, loopVars
  <2>2. i = 0
    BY <2>1 DEF TypeInv, Between, ConnectStep, SkipKnown, NewFound, ScanDone, Open,
         OpenFails, StringFails, Flush, Drain, AllOn, CreateFails, Calibrate, Number,
         Mode, SetupFails, Setup, Stopped
  <2>3. QED
    BY <1>4, <2>1, <2>2, EntriesStay, KeepShown
<1>7. CASE \/ Clock
           \/ UNCHANGED daemonVars
           \/ Abort /\ UNCHANGED loopVars
           \/ \E c \in Pads : Push(c) \/ GoneFor(c) \/ (LinkUp(c) /\ UNCHANGED loopVars)
  <2>1. UNCHANGED <<state, gamepad, i, lost>>
    BY <1>7 DEF Clock, Tick, SetForward, SetBack, daemonVars, loopVars, Push, GoneFor
  <2>2. /\ UNCHANGED joycon_count
        /\ Abort \/ UNCHANGED listVars \/ \E c \in Pads : LinkUp(c) \/ Drop(c)
    BY <1>7 DEF Clock, Tick, SetForward, SetBack, daemonVars, listVars, Push, GoneFor,
         Abort, LinkUp, Drop
  <2>3. QED
    BY <1>4, <2>1, <2>2, EntriesStay, KeepShown
<1>8. QED
  BY <1>1, <1>2, <1>3, <1>5, <1>6, <1>7 DEF DaemonNext, Program

LEMMA ShownInvariant == DaemonSpec => []ShownInv
<1>1. DaemonInit => ShownInv
  BY MaxAssumption
     DEF DaemonInit, ListInit, ShownInv, Held, Swept, Used
<1>2. ListInv /\ TypeInv /\ ShownInv /\ [DaemonNext]_daemonVars /\ ListInv' => ShownInv'
  BY ShownStep
<1>3. QED
  BY <1>1, <1>2, DaemonKeepsList, DaemonTypeInv, PTL DEF DaemonSpec

(* Only the end of a sweep shows the host a frame, and the frame is what   *)
(* has been written to the gamepad.                                        *)
LEMMA ShowsGamepad ==
  ASSUME TypeInv, [DaemonNext]_daemonVars, Shows
  PROVE  host' = gamepad
<1>1. i \in Nat /\ joycon_count \in Nat /\ i # 0
  BY MaxAssumption DEF Shows, TypeInv, DaemonTypeOK, ListTypeOK
<1>2. SweepDone
  BY <1>1 DEF Shows, DaemonNext, Program, Heard, Quiet, Lose, Sweeping, Connect,
       Clock, Tick, SetForward, SetBack, Push, GoneFor, loopVars, daemonVars
<1>3. Frame
  BY <1>1, <1>2 DEF SweepDone, Shows
<1>4. QED
  BY <1>3 DEF Frame, FrameDue, vg_usb_send, vg_ui_flush, Shows, TypeInv, DaemonTypeOK

(* On USB no frame holds an input that no Joy-Con of the list holds, for   *)
(* any number of Joy-Cons of either half: the reset of vg_usb_state at a   *)
(* removal is enough.                                                      *)
THEOREM DaemonNoPhantom == DaemonSpec => NoPhantom
<1>1. ASSUME TypeInv, ShownInv, [DaemonNext]_daemonVars, Shows, Target = "usb",
             NEW s \in Sides, host'[s] # Rest
      PROVE  \E k \in Players(s) : state[joycon[k]] = host'[s]
  BY <1>1, ShowsGamepad DEF ShownInv, Held, Players
<1>2. TypeInv /\ ShownInv /\ [DaemonNext]_daemonVars
      => [Shows /\ Target = "usb" =>
            \A s \in Sides : host'[s] # Rest =>
              \E k \in Players(s) : state[joycon[k]] = host'[s]]_daemonVars
  BY <1>1
<1>3. QED
  BY <1>2, DaemonTypeInv, ShownInvariant, PTL DEF DaemonSpec, NoPhantom

(* Every frame after a sweep without a removal shows of each half the      *)
(* state of the last Joy-Con of it in the list.                            *)
THEOREM DaemonFrameFresh == DaemonSpec => FrameFresh
<1>1. ASSUME ListInv, TypeInv, ShownInv, [DaemonNext]_daemonVars, Shows, ~ lost,
             NEW k \in Used, LastWord(k)
      PROVE  host'[SideOf[joycon[k]]] = state[joycon[k]]
  <2>1. k < i /\ \A j \in Used : SideOf[joycon[j]] = SideOf[joycon[k]] => j <= k
    BY <1>1, MaxAssumption
       DEF Shows, LastWord, Players, Used, ListInv, ListTypeOK, TypeInv, DaemonTypeOK
  <2>2. QED
    BY <1>1, <2>1, ShowsGamepad DEF ShownInv, Swept
<1>2. ListInv /\ TypeInv /\ ShownInv /\ [DaemonNext]_daemonVars
      => [Shows /\ ~ lost =>
            \A k \in Used : LastWord(k) =>
              host'[SideOf[joycon[k]]] = state[joycon[k]]]_daemonVars
  BY <1>1
<1>3. QED
  BY <1>2, DaemonKeepsList, DaemonTypeInv, ShownInvariant, PTL DEF DaemonSpec, FrameFresh

-----------------------------------------------------------------------------
(* Who leaves *)

(* A queue that holds a report for each entry of the list, and a limit     *)
(* that one tick of the clock does not reach.                              *)
QueueHolds == MaxConnections <= InboxLimit /\ SilenceLimit >= 2

Aged(c) == last_seen[c] # Never /\ last_seen[c] >= 2

(* A Joy-Con last heard seconds ago, though it reports, has more reports   *)
(* waiting than there are entries before it: each of these may leave, and  *)
(* take one with it.                                                       *)
Waiting ==
  /\ \A c \in Pads : last_seen[c] # Never => Registered(c)
  /\ \A k \in Used :
       Aged(joycon[k]) /\ live[joycon[k]] /\ joycon[k] \notin stale
       => Len(inbox[joycon[k]]) >= k + 1

(* What is left to show of a step that keeps the entries where they are:   *)
(* that those it had still wait, and that one it adds was not heard yet.   *)
LEMMA KeepWaiting ==
  ASSUME ListInv, ListInv', Waiting,
         Used \subseteq Used', \A k \in Used : joycon'[k] = joycon[k],
         \A c \in Pads : last_seen'[c] # Never => last_seen[c] # Never \/ Registered(c),
         \A k \in Used, c \in Pads :
           c = joycon[k] /\ Aged(c)' /\ live'[c] /\ c \notin stale'
           => Len(inbox'[c]) >= k + 1,
         \A k \in Used' \ Used : last_seen'[joycon'[k]] = Never
  PROVE  Waiting'
<1>1. Never' = Never
  BY DEF Never
<1>2. \A c \in Pads : Registered(c) => Registered(c)'
  BY DEF Registered
<1>3. \A c \in Pads : last_seen'[c] # Never => Registered(c)'
  BY <1>2 DEF Waiting
<1>4. ASSUME NEW k \in Used', Aged(joycon[k])', live'[joycon'[k]], joycon'[k] \notin stale'
      PROVE  Len(inbox'[joycon'[k]]) >= k + 1
  <2>1. k \in Used
    BY <1>1, <1>4 DEF Aged
  <2>2. joycon'[k] = joycon[k] /\ joycon[k] \in Pads
    BY <2>1, Entries
  <2>3. QED
    BY <1>4, <2>1, <2>2 DEF Aged
<1>5. QED
  BY <1>1, <1>3, <1>4 DEF Waiting

(* A removal moves those behind down by one and reads a report of each.    *)
LEMMA LoseWaiting ==
  ASSUME ListInv, ListInv', TypeInv, Waiting, Lose
  PROVE  Waiting'
<1> DEFINE n == joycon_count - 1
           Old(k) == IF k < i THEN k ELSE k + 1
<1>1. i \in Used /\ Turn = joycon[i] /\ Turn \in Pads
  BY Entries DEF Lose, Sweeping, Turn, Used, TypeInv, DaemonTypeOK
<1>2. /\ joycon' = Closed(i, n) /\ joycon_count' = n /\ pc = "idle"
      /\ live' = [live EXCEPT ![Turn] = FALSE]
  BY <1>1, GapEndIsLast DEF Lose, Sweeping, dev_list_remove, ListInv
<1>3. \A k \in 0 .. n - 1 : joycon'[k] = joycon[Old(k)]
  BY <1>1, <1>2, ClosedArray DEF ListInv
<1>4. /\ Used' = 0 .. n - 1
      /\ \A k \in 0 .. n - 1 : Old(k) \in Used /\ Old(k) # i /\ k \in Nat
      /\ \A k \in Used : k # i => \E m \in 0 .. n - 1 : Old(m) = k
  <2>1. n \in Int /\ i \in Nat /\ i <= n
    BY <1>1, Entries DEF Used
  <2>2. Used' = 0 .. n - 1
    BY <1>2 DEF Used
  <2>3. \A k \in 0 .. n - 1 : Old(k) \in Used /\ Old(k) # i /\ k \in Nat
    BY <2>1 DEF Used
  <2>4. ASSUME NEW k \in Used, k # i
        PROVE  \E m \in 0 .. n - 1 : Old(m) = k
    <3>1. CASE k < i
      BY <2>1, <2>4, <3>1 DEF Used
    <3>2. CASE k > i
      <4>1. k - 1 \in 0 .. n - 1 /\ Old(k - 1) = k
        BY <2>1, <2>4, <3>2 DEF Used
      <4>2. QED
        BY <4>1
    <3>3. QED
      BY <2>1, <2>4, <3>1, <3>2 DEF Used
  <2>5. QED
    BY <2>2, <2>3, <2>4
<1>5. Never' = Never /\ last_seen' = [last_seen EXCEPT ![Turn] = Never]
      /\ last_seen \in [Pads -> Ages] /\ live \in [Pads -> BOOLEAN]
      /\ inbox \in [Pads -> Seq(Inputs)] /\ stale' = stale \ {Turn}
  BY DEF Never, Lose, TypeInv, DaemonTypeOK, ListTypeOK
<1>6. \A c \in Pads : last_seen'[c] # Never => Registered(c)'
  <2> SUFFICES ASSUME NEW c \in Pads, last_seen'[c] # Never
               PROVE  Registered(c)'
    OBVIOUS
  <2>1. c # Turn /\ last_seen[c] # Never
    BY <1>1, <1>5
  <2>2. PICK k \in Used : joycon[k] = c
    BY <2>1 DEF Waiting, Registered
  <2>3. PICK m \in 0 .. n - 1 : Old(m) = k
    BY <1>1, <1>4, <2>1, <2>2
  <2>4. m \in Used' /\ joycon'[m] = c
    BY <1>3, <1>4, <2>2, <2>3
  <2>5. QED
    BY <2>4 DEF Registered
<1>7. ASSUME NEW k \in Used', Aged(joycon[k])', live'[joycon'[k]], joycon'[k] \notin stale'
      PROVE  Len(inbox'[joycon'[k]]) >= k + 1
  <2> DEFINE c == joycon'[k]
  <2>1. /\ k \in 0 .. n - 1 /\ k \in Nat /\ i \in Nat
        /\ Old(k) \in Used /\ c = joycon[Old(k)] /\ c \in Pads /\ c # Turn
    BY <1>1, <1>3, <1>4, <1>7, Entries
  <2>2. Aged(c) /\ live[c] /\ c \notin stale
    BY <1>2, <1>5, <1>7, <2>1 DEF Aged
  <2>3. Len(inbox[c]) >= Old(k) + 1
    BY <2>1, <2>2 DEF Waiting
  <2>4. inbox'[c] = IF Relit(c) /\ inbox[c] # <<>> THEN Tail(inbox[c]) ELSE inbox[c]
    BY <2>1 DEF Lose
  <2>5. /\ Len(inbox[c]) \in Nat
        /\ inbox[c] # <<>> => Len(Tail(inbox[c])) = Len(inbox[c]) - 1
    BY <1>5, <2>1
  <2>6. CASE k < i
    <3>1. ~ Relit(c)
      BY <1>1, <2>1, <2>6, Entries DEF Relit, Used
    <3>2. QED
      BY <2>3, <2>4, <2>6, <3>1
  <2>7. CASE ~ (k < i)
    BY <2>1, <2>3, <2>4, <2>5, <2>7
  <2>8. QED
    BY <2>6, <2>7
<1>8. QED
  BY <1>5, <1>6, <1>7 DEF Waiting

(* The tick that brings an age to two seconds. *)
LEMMA SecondTick ==
  \A age \in Int, limit \in Nat : \A older :
    /\ older = IF age < limit THEN age + 1 ELSE age
    /\ older # limit + 1
    /\ older >= 2
    /\ age = limit + 1 \/ age < 2
    => age = 1
OBVIOUS

(* Entries, of the state after a step. *)
LEMMA EntriesAfter ==
  ASSUME ListInv'
  PROVE  /\ \A k \in Used' : joycon'[k] \in Pads
         /\ \A j, k \in Used' : joycon'[j] = joycon'[k] => j = k
<1>1. /\ joycon' \in [Slots -> Pads \cup {NULL}]
      /\ \A k \in Used' : k \in Slots /\ joycon'[k] # NULL
  <2>1. /\ joycon' \in [Slots -> Pads \cup {NULL}] /\ joycon_count' \in 0 .. MaxConnections
        /\ \A k \in Slots : k < joycon_count' => joycon'[k] # NULL
    BY DEF ListInv, ListTypeOK, Compact
  <2>2. ASSUME NEW n \in 0 .. MaxConnections, NEW k \in 0 .. n - 1
        PROVE  k \in Slots /\ k < n
    BY MaxAssumption DEF Slots
  <2>3. \A k \in Used' : k \in 0 .. joycon_count' - 1
    BY DEF Used
  <2>4. QED
    BY <2>1, <2>2, <2>3
<1>2. NoDuplicate'
  BY DEF ListInv
<1>3. QED
  BY <1>1, <1>2 DEF NoDuplicate

LEMMA WaitingStep ==
  ASSUME QueueHolds, ListInv, ListInv', TypeInv, TypeInv', Waiting, [DaemonNext]_daemonVars
  PROVE  Waiting'
<1> USE DEF TypeInv, DaemonTypeOK
<1>1. CASE Heard
  <2>1. Turn \in Pads /\ Registered(Turn)
    BY <1>1, Entries DEF Heard, Sweeping, Turn, Used, Registered
  <2>2. UNCHANGED <<joycon, joycon_count, live>>
    BY <1>1 DEF Heard, listVars
  <2>3. Used' = Used
    BY <2>2 DEF Used
  <2>4. \A c \in Pads : c # Turn => /\ inbox'[c] = inbox[c] /\ last_seen'[c] = last_seen[c]
                                    /\ c \in stale' <=> c \in stale
    BY <1>1 DEF Heard
  <2>5. last_seen'[Turn] = 0 /\ Never' = Never
    BY <1>1, <2>1 DEF Heard, Never
  <2>6. ASSUME NEW k \in Used, NEW c \in Pads, c = joycon[k], Aged(c)', live'[c],
               c \notin stale'
        PROVE  Len(inbox'[c]) >= k + 1
    <3>1. c # Turn
      BY <2>5, <2>6 DEF Aged
    <3>2. Aged(c) /\ live[c] /\ c \notin stale /\ inbox'[c] = inbox[c]
      BY <2>2, <2>4, <2>5, <2>6, <3>1 DEF Aged
    <3>3. QED
      BY <2>6, <3>2 DEF Waiting
  <2>7. QED
    BY <2>1, <2>2, <2>3, <2>4, <2>6, KeepWaiting
<1>2. CASE Lose
  BY <1>2, LoseWaiting
<1>3. CASE Tick
  <2>1. UNCHANGED <<joycon, joycon_count, live, inbox, stale>>
    BY <1>3 DEF Tick, listVars, clockVars
  <2>2. Used' = Used /\ Never' = Never
    BY <2>1 DEF Used, Never
  <2>3. ASSUME NEW k \in Used, NEW c \in Pads, c = joycon[k], Aged(c)', live'[c],
               c \notin stale'
        PROVE  Len(inbox'[c]) >= k + 1
    <3>1. CASE Aged(c)
      BY <2>1, <2>3, <3>1 DEF Waiting
    <3>2. CASE ~ Aged(c)
      <4>1. last_seen[c] = 1
        <5>1. last_seen[c] \in Int /\ SilenceLimit \in Nat
          BY DaemonAssumption DEF Ages
        <5>2. last_seen'[c] = IF last_seen[c] < SilenceLimit
                              THEN last_seen[c] + 1 ELSE last_seen[c]
          BY <1>3 DEF Tick
        <5>3. last_seen'[c] # Never /\ last_seen'[c] >= 2
              /\ (last_seen[c] = Never \/ last_seen[c] < 2)
          BY <2>2, <2>3, <3>2, <5>1 DEF Aged
        <5>4. Never = SilenceLimit + 1
          BY DEF Never
        <5>5. last_seen'[c] # SilenceLimit + 1
              /\ (last_seen[c] = SilenceLimit + 1 \/ last_seen[c] < 2)
          BY <5>3, <5>4, Zenon
        <5>6. QED
          BY <5>1, <5>2, <5>3, <5>5, SecondTick, Zenon
      <4>2. Len(inbox[c]) = InboxLimit
        <5>1. Registered(c) /\ live[c]
          BY <2>1, <2>3 DEF Registered
        <5>2. last_seen[c] <= 0 \/ Len(inbox[c]) = InboxLimit
          BY <1>3, <5>1 DEF Tick
        <5>3. QED
          BY <4>1, <5>2
      <4>3. k + 1 <= MaxConnections
        BY MaxAssumption DEF Used, ListTypeOK
      <4>4. QED
        BY <2>1, <4>2, <4>3, DaemonAssumption, MaxAssumption DEF QueueHolds, Used, ListTypeOK
    <3>3. QED
      BY <3>1, <3>2
  <2>4. \A c \in Pads : last_seen'[c] # Never => last_seen[c] # Never
    BY <1>3, DaemonAssumption DEF Tick, Never
  <2>5. QED
    BY <2>1, <2>2, <2>3, <2>4, KeepWaiting
<1>4. CASE SetForward \/ SetBack
  <2>1. UNCHANGED <<joycon, joycon_count, live, inbox>>
    BY <1>4 DEF SetForward, SetBack, listVars
  <2>2. Used' = Used /\ Never' = Never
    BY <2>1 DEF Used, Never
  <2>3. \A c \in Pads : last_seen'[c] # Never => last_seen[c] # Never
    BY <1>4 DEF SetForward, SetBack, Seen
  <2>4. \A c \in Pads : Aged(c)' /\ c \notin stale' => Aged(c) /\ c \notin stale
    <3>1. CASE SetForward
      BY <2>2, <3>1 DEF SetForward, Aged, Seen
    <3>2. CASE SetBack
      <4>1. stale' = stale /\ \A c \in Pads : last_seen'[c] <= last_seen[c] /\ last_seen[c] \in Int
        BY <3>2 DEF SetBack, Ages
      <4>2. QED
        BY <2>2, <2>3, <4>1 DEF Aged, Ages
    <3>3. QED
      BY <1>4, <3>1, <3>2
  <2>5. QED
    BY <2>1, <2>2, <2>3, <2>4, KeepWaiting DEF Waiting
<1>5. ASSUME NEW d \in Pads, Push(d)
      PROVE  Waiting'
  <2>1. UNCHANGED <<joycon, joycon_count, live, last_seen, stale>>
    BY <1>5 DEF Push, listVars, clockVars
  <2>2. Used' = Used /\ Never' = Never
    BY <2>1 DEF Used, Never
  <2>3. \A c \in Pads : Len(inbox'[c]) \in Nat /\ Len(inbox[c]) \in Nat
                        /\ Len(inbox'[c]) >= Len(inbox[c])
    BY <1>5 DEF Push
  <2>4. \A k \in Used : k \in Nat
    BY Entries
  <2>5. ASSUME NEW k \in Used, NEW c \in Pads, c = joycon[k], Aged(c)', live'[c],
               c \notin stale'
        PROVE  Len(inbox'[c]) >= k + 1
    <3>1. Aged(c) /\ live[c] /\ c \notin stale
      BY <2>1, <2>2, <2>5 DEF Aged
    <3>2. Len(inbox[c]) >= k + 1
      BY <2>5, <3>1 DEF Waiting
    <3>3. QED
      BY <2>3, <2>4, <3>2
  <2>6. QED
    BY <2>1, <2>2, <2>5, KeepWaiting
<1>6. CASE \/ Quiet \/ SweepDone \/ Connect \/ UNCHANGED daemonVars
           \/ Abort /\ UNCHANGED loopVars
           \/ \E c \in Pads : GoneFor(c) \/ (LinkUp(c) /\ UNCHANGED loopVars)
  <2>1. UNCHANGED <<last_seen, stale>> /\ Never' = Never
    BY <1>6 DEF Quiet, SweepDone, Connect, GoneFor, loopVars, daemonVars, clockVars, Never
  <2>2. ConnectStep \/ Scan \/ Abort \/ UNCHANGED listVars \/ \E c \in Pads : LinkUp(c) \/ Drop(c)
    BY <1>6 DEF Quiet, SweepDone, Connect, GoneFor, daemonVars
  <2>3. Used \subseteq Used' /\ \A k \in Used : joycon'[k] = joycon[k]
    BY <2>2, EntriesStay
  <2>4. \A k \in Used : live'[joycon[k]] => live[joycon[k]]
    <3>1. CASE Open
      <4>1. CurOutside
        BY <3>1, CreatingOutside DEF Open, Creating
      <4>2. ASSUME NEW k \in Used
            PROVE  live'[joycon[k]] = live[joycon[k]]
        <5>1. joycon[k] # Cur
          BY <4>1 DEF CurOutside
        <5>2. live' = [live EXCEPT ![Cur] = TRUE] /\ joycon[k] \in Pads /\ live \in [Pads -> BOOLEAN]
          BY <3>1, Entries DEF Open, ListTypeOK
        <5>3. QED
          BY <5>1, <5>2
      <4>3. QED
        BY <4>2
    <3>2. CASE ~ Open
      <4>1. \A c \in Pads : live'[c] => live[c]
        BY <2>2, <3>2
           DEF ListTypeOK, listVars, ConnectStep, Scan, Enumerate, EnumerateFails, Abort,
               LinkUp, Drop, SkipKnown, NewFound, ScanDone, OpenFails, StringFails,
               Flush, Drain, AllOn, CreateFails, Calibrate, Number, Mode, SetupFails
      <4>2. QED
        BY <4>1, Entries
    <3>3. QED
      BY <3>1, <3>2
  <2>5. \A c \in Pads : live'[c] => inbox'[c] = inbox[c]
    BY <1>6 DEF Quiet, SweepDone, Connect, GoneFor, Drop, loopVars, daemonVars, ListTypeOK
  <2>6. \A k \in Used, c \in Pads :
           c = joycon[k] /\ Aged(c)' /\ live'[c] /\ c \notin stale'
           => Len(inbox'[c]) >= k + 1
    BY <2>1, <2>4, <2>5 DEF Aged, Waiting
  <2>7. \A k \in Used' \ Used : last_seen'[joycon'[k]] = Never
    <3> SUFFICES ASSUME NEW k \in Used', k \notin Used
                 PROVE  last_seen[joycon'[k]] = Never
      BY <2>1
    <3>1. /\ \A j \in Used' : joycon'[j] \in Pads
          /\ \A j, m \in Used' : joycon'[j] = joycon'[m] => j = m
      BY EntriesAfter
    <3>2. \A j \in Used : joycon[j] # joycon'[k]
      BY <2>3, <3>1
    <3>3. ~ Registered(joycon'[k]) /\ joycon'[k] \in Pads
      BY <3>1, <3>2 DEF Registered
    <3>4. QED
      BY <3>3 DEF Waiting
  <2>8. QED
    BY <2>1, <2>3, <2>6, <2>7, KeepWaiting
<1>7. QED
  BY <1>1, <1>2, <1>3, <1>4, <1>5, <1>6 DEF DaemonNext, Program, Clock

LEMMA WaitingInvariant == QueueHolds => (DaemonSpec => []Waiting)
<1>1. DaemonInit => Waiting
  BY DEF DaemonInit, ListInit, Waiting, Used, Aged
<1>2. QueueHolds /\ ListInv /\ ListInv' /\ TypeInv /\ TypeInv' /\ Waiting
      /\ [DaemonNext]_daemonVars => Waiting'
  BY WaitingStep
<1>3. ASSUME QueueHolds
      PROVE  DaemonSpec => []Waiting
  <2>1. ListInv /\ ListInv' /\ TypeInv /\ TypeInv' /\ Waiting
        /\ [DaemonNext]_daemonVars => Waiting'
    BY <1>2, <1>3
  <2>2. QED
    BY <1>1, <2>1, DaemonKeepsList, DaemonTypeInv, PTL DEF DaemonSpec
<1>4. QED
  BY <1>3

(* The entries after a step, but for the one whose turn it is to leave. *)
LEMMA OthersStay ==
  ASSUME ListInv, TypeInv, [DaemonNext]_daemonVars, NEW k \in Used,
         ~ \E j \in 0 .. joycon_count' - 1 : joycon'[j] = joycon[k]
  PROVE  Lose /\ k = i
<1>1. CASE Lose
  <2>1. i \in Used
    BY <1>1, Entries DEF Lose, Sweeping, Used, TypeInv, DaemonTypeOK
  <2>2. joycon' = Closed(i, joycon_count - 1) /\ joycon_count' = joycon_count - 1 /\ pc = "idle"
    BY <1>1, <2>1, GapEndIsLast DEF Lose, Sweeping, dev_list_remove, ListInv
  <2>3. \A m \in 0 .. joycon_count' - 1 : joycon'[m] = joycon[IF m < i THEN m ELSE m + 1]
    BY <2>1, <2>2, ClosedArray DEF ListInv
  <2>4. joycon_count \in Nat /\ i \in Nat /\ k \in Nat
    BY <2>1, Entries
  <2>5. CASE k < i
    BY <2>1, <2>2, <2>3, <2>4, <2>5 DEF Used
  <2>6. CASE k > i
    <3>1. k - 1 \in 0 .. joycon_count' - 1 /\ ~ (k - 1 < i) /\ (k - 1) + 1 = k
      BY <2>1, <2>2, <2>4, <2>6 DEF Used
    <3>2. joycon'[k - 1] = joycon[k]
      BY <2>3, <3>1
    <3>3. QED
      BY <3>1, <3>2
  <2>7. QED
    BY <1>1, <2>4, <2>5, <2>6
<1>2. CASE ~ Lose
  <2>1. ConnectStep \/ Scan \/ Abort \/ UNCHANGED listVars \/ \E c \in Pads : LinkUp(c) \/ Drop(c)
    BY <1>2 DEF DaemonNext, Program, Heard, Quiet, SweepDone, Connect, Clock, Tick,
         SetForward, SetBack, Push, GoneFor, daemonVars
  <2>2. k \in Used' /\ joycon'[k] = joycon[k]
    BY <2>1, EntriesStay
  <2>3. QED
    BY <2>2 DEF Used
<1>3. QED
  BY <1>1, <1>2

(* Only a Joy-Con that is gone, or was silent when the clock was set       *)
(* forward, is removed: whatever time rubusd spends on others, and however *)
(* many leave before it, as long as the queue holds a report for each.     *)
THEOREM DaemonOnlyGoneLeave == QueueHolds => (DaemonSpec => OnlyGoneLeave)
<1>1. ASSUME QueueHolds, ListInv, TypeInv, Waiting, [DaemonNext]_daemonVars, NEW k \in Used,
             ~ \E j \in 0 .. joycon_count' - 1 : joycon'[j] = joycon[k]
      PROVE  ~ live[joycon[k]] \/ joycon[k] \in stale
  <2>1. Lose /\ k = i
    BY <1>1, OthersStay
  <2>2. Turn = joycon[k] /\ ~ Readable(Turn) /\ Aged(Turn)
    <3>1. Turn = joycon[k] /\ Turn \in Pads /\ Overdue(Turn)
      BY <2>1, <1>1, Entries DEF Lose, Turn
    <3>2. last_seen[Turn] \in Int /\ SilenceLimit \in Nat /\ SilenceLimit >= 2
      BY <1>1, <3>1, DaemonAssumption DEF QueueHolds, TypeInv, DaemonTypeOK, Ages
    <3>3. ~ Readable(Turn) /\ last_seen[Turn] # Never /\ last_seen[Turn] >= SilenceLimit
      BY <3>1 DEF Overdue
    <3>4. last_seen[Turn] >= 2
      BY <3>2, <3>3
    <3>5. QED
      BY <3>1, <3>3, <3>4 DEF Aged
  <2>3. ASSUME live[Turn], Turn \notin stale
        PROVE  FALSE
    <3>1. Len(inbox[Turn]) >= k + 1 /\ inbox[Turn] = <<>> /\ k \in Nat
      BY <1>1, <2>2, <2>3, Entries DEF Waiting, Readable
    <3>2. QED
      BY <3>1
  <2>4. QED
    BY <2>2, <2>3
<1>2. QueueHolds /\ ListInv /\ TypeInv /\ Waiting /\ [DaemonNext]_daemonVars
      => [\A k \in Used : (\E j \in 0 .. joycon_count' - 1 : joycon'[j] = joycon[k])
                          \/ ~ live[joycon[k]] \/ joycon[k] \in stale]_daemonVars
  BY <1>1
<1>3. ASSUME QueueHolds
      PROVE  DaemonSpec => OnlyGoneLeave
  <2>1. ListInv /\ TypeInv /\ Waiting /\ [DaemonNext]_daemonVars
        => [\A k \in Used : (\E j \in 0 .. joycon_count' - 1 : joycon'[j] = joycon[k])
                            \/ ~ live[joycon[k]] \/ joycon[k] \in stale]_daemonVars
    BY <1>2, <1>3
  <2>2. DaemonSpec => []Waiting
    BY <1>3, WaitingInvariant
  <2>3. QED
    BY <2>1, <2>2, DaemonKeepsList, DaemonTypeInv, PTL DEF DaemonSpec, OnlyGoneLeave
<1>4. QED
  BY <1>3
=============================================================================

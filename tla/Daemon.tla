------------------------------- MODULE Daemon --------------------------------
(***************************************************************************)
(* The main loop of rubusd: a sweep over the device list that polls every  *)
(* Joy-Con once and copies its state to the virtual gamepad, then a frame  *)
(* for the host, then, now and then, a scan for new Joy-Cons.              *)
(*                                                                         *)
(* One poll is one step: jc_input_maybe does not wait.  A scan is the many *)
(* steps of DevList, and while it waits for one Joy-Con the others go on   *)
(* reporting, disconnect, or fall silent, and the clock goes on.           *)
(***************************************************************************)
EXTENDS DevList

CONSTANTS
  Target,        \* conf.target: "uinput" or "usb"
  SideOf,        \* which half of the gamepad each Joy-Con is
  Inputs,        \* what a report may say: an input state, or Simple
  Rest,          \* the input state of a zeroed structure
  Simple,        \* a report that is neither full nor a reply
  InboxLimit,    \* how many reports the kernel keeps for a handle
  SilenceLimit,  \* seconds without a report, 5 in the source
  MaxSettings,   \* bound: how often the clock is set
  RescanPeriod   \* sweeps between two scans, 300 in the source

Sides == {"L", "R"}

States == {Rest} \cup (Inputs \ {Simple})

ASSUME DaemonAssumption ==
  /\ Target \in {"uinput", "usb"}
  /\ SideOf \in [Pads -> Sides]
  /\ Rest # Simple
  /\ InboxLimit \in Nat \ {0}
  /\ SilenceLimit \in Nat \ {0}
  /\ MaxSettings \in Nat
  /\ RescanPeriod \in Nat

VARIABLES
  i,               \* the index of the sweep
  inbox,           \* the reports waiting in the kernel for each open handle
  last_seen,       \* seconds since a report was read, Never if none was
  settings,        \* how often the clock was set
  stale,           \* history: not heard since the clock was set forward
  state,           \* the input state kept for each Joy-Con
  gamepad,         \* what was last written to each half of the gamepad
  host,            \* what the host was last shown of each half
  connect_timeout,
  usb_timeout,
  flushed,         \* history: FALSE after a sweep whose frame got lost
  lost             \* history: did this sweep remove a Joy-Con?

clockVars == <<settings, stale>>

loopVars == <<i, inbox, last_seen, state, gamepad, host, connect_timeout,
              usb_timeout, flushed, lost, clockVars>>

daemonVars == <<listVars, loopVars>>

(* Ages beyond SilenceLimit are all alike; Never is the one zero stands    *)
(* for in the source.  Once the clock was set back an age may be negative. *)
Never == SilenceLimit + 1

Ages == {age \in Int : age <= Never}

DaemonInit ==
  /\ ListInit
  /\ i = 0
  /\ inbox = [c \in Pads |-> <<>>]
  /\ last_seen = [c \in Pads |-> Never]
  /\ state = [c \in Pads |-> Rest]
  /\ gamepad = [s \in Sides |-> Rest]
  /\ host = [s \in Sides |-> Rest]
  /\ connect_timeout = 0
  /\ usb_timeout = 0
  /\ flushed = TRUE
  /\ lost = FALSE
  /\ settings = 0
  /\ stale = {}

Registered(c) == \E k \in Used : joycon[k] = c

-----------------------------------------------------------------------------
(* The sweep *)

Sweeping == pc = "idle" /\ i < joycon_count

(* The Joy-Con whose turn it is. *)
Turn == joycon[i]

(* hid_read returns a report: not on a dead handle, where poll reports a   *)
(* hang-up and hid_read_timeout returns -1 whatever is still queued.       *)
Readable(c) == live[c] /\ inbox[c] # <<>>

(* Mutant: the kind of the report is not looked at. *)
apply_AnyKind(c, r) == r

(* jc_apply_input_packet: reports of other kinds change nothing. *)
jc_apply_input_packet(c, r) == IF r = Simple THEN state[c] ELSE r

(* The buttons and axes of this half go to the uinput device or into       *)
(* vg_usb_state.                                                           *)
Write(c, new) == gamepad' = [gamepad EXCEPT ![SideOf[c]] = new]

(* jc_input_maybe reads a report. *)
Heard ==
  /\ Sweeping
  /\ Readable(Turn)
  /\ LET new == jc_apply_input_packet(Turn, Head(inbox[Turn]))
     IN  /\ state' = [state EXCEPT ![Turn] = new]
         /\ Write(Turn, new)
  /\ inbox' = [inbox EXCEPT ![Turn] = Tail(@)]
  /\ last_seen' = [last_seen EXCEPT ![Turn] = 0]
  /\ stale' = stale \ {Turn}
  /\ i' = i + 1
  /\ UNCHANGED <<listVars, host, connect_timeout, usb_timeout, flushed, lost, settings>>

(* Mutant: the silence is measured before the report is read; an error of  *)
(* hid_read passes for a report.                                           *)
Overdue_NotRead(c) == last_seen[c] # Never /\ last_seen[c] >= SilenceLimit

Overdue_ErrorHeard(c) ==
  live[c] /\ inbox[c] = <<>> /\ last_seen[c] # Never /\ last_seen[c] >= SilenceLimit

(* No report, and the last one is too long ago.  A Joy-Con of which no     *)
(* report was ever read is never overdue.                                  *)
Overdue(c) ==
  ~ Readable(c) /\ last_seen[c] # Never /\ last_seen[c] >= SilenceLimit

(* Mutant: only what has just been read is written. *)
Quiet_WritesNothing ==
  /\ Sweeping
  /\ ~ Readable(Turn)
  /\ ~ Overdue(Turn)
  /\ i' = i + 1
  /\ UNCHANGED <<listVars, inbox, last_seen, state, gamepad, host,
                 connect_timeout, usb_timeout, flushed, lost, clockVars>>

(* No report: the state kept is written again. *)
Quiet ==
  /\ Sweeping
  /\ ~ Readable(Turn)
  /\ ~ Overdue(Turn)
  /\ Write(Turn, state[Turn])
  /\ i' = i + 1
  /\ UNCHANGED <<listVars, inbox, last_seen, state, host, connect_timeout,
                 usb_timeout, flushed, lost, clockVars>>

(* Mutant: vg_usb_state is left as it is. *)
Zeroed_Kept == gamepad

(* vg_usb_state = { 0 }.  Nothing of the kind is done to uinput. *)
Zeroed == IF Target = "usb" THEN [s \in Sides |-> Rest] ELSE gamepad

(* The Joy-Cons dev_list_remove moves down and tells their new number read *)
(* one report each in answer, which is dropped.  (One that was not polled  *)
(* before waits for its report, see Handshake; here its queue is empty     *)
(* then, and stays so.)                                                    *)
Relit(c) == live[c] /\ \E k \in i + 1 .. joycon_count - 1 : joycon[k] = c

(* jc_input_maybe returns JC_ERR.  The loop's "continue" goes on to i + 1: *)
(* the Joy-Con that moved to i is not polled in this sweep.  The structure *)
(* is freed, and jc_create zeroes the next: the values of a Joy-Con that   *)
(* is not in the list are those of a new one.                              *)
Lose ==
  /\ Sweeping
  /\ Overdue(Turn)
  /\ dev_list_remove(i)
  /\ gamepad' = Zeroed
  /\ last_seen' = [last_seen EXCEPT ![Turn] = Never]
  /\ state' = [state EXCEPT ![Turn] = Rest]
  /\ inbox' = [c \in Pads |-> IF c = Turn THEN <<>>
                              ELSE IF Relit(c) /\ inbox[c] # <<>> THEN Tail(inbox[c])
                              ELSE inbox[c]]
  /\ i' = i + 1
  /\ lost' = TRUE
  /\ stale' = stale \ {Turn}
  /\ UNCHANGED <<host, connect_timeout, usb_timeout, flushed, settings>>

-----------------------------------------------------------------------------
(* After the sweep *)

(* Mutant: usb_timeout is never counted up. *)
Frame_NeverDue ==
  /\ usb_timeout' = usb_timeout
  /\ flushed' = TRUE
  /\ UNCHANGED host

FrameDue == Target = "usb" => usb_timeout >= 1

vg_ui_flush == host' = gamepad /\ flushed' = TRUE

(* Nobody looks whether fflush fails, as it does while the host is asleep: *)
(* the packet is lost, or stays in the stream and goes out right before    *)
(* the next.                                                               *)
vg_usb_send == vg_ui_flush \/ (flushed' = FALSE /\ UNCHANGED host)

(* At the end of each sweep, or of every second one. *)
Frame ==
  IF FrameDue
  THEN usb_timeout' = 0 /\ IF Target = "usb" THEN vg_usb_send ELSE vg_ui_flush
  ELSE usb_timeout' = usb_timeout + 1 /\ flushed' = TRUE /\ UNCHANGED host

RescanDue == joycon_count = 0 \/ connect_timeout >= RescanPeriod

SweepDone ==
  /\ pc = "idle"
  /\ i >= joycon_count
  /\ i' = 0
  /\ lost' = FALSE
  /\ IF joycon_count > 0 THEN Frame ELSE flushed' = TRUE /\ UNCHANGED <<host, usb_timeout>>
  /\ IF RescanDue THEN Scan ELSE UNCHANGED listVars
  /\ connect_timeout' = IF joycon_count = 0 THEN connect_timeout
                        ELSE IF RescanDue THEN 0
                        ELSE connect_timeout + 1
  /\ UNCHANGED <<inbox, last_seen, state, gamepad, clockVars>>

-----------------------------------------------------------------------------

(* A step of dev_list_connect_new.  What the Joy-Con sends until it is in  *)
(* the list answers the connection sequence.                               *)
Connect == ConnectStep /\ UNCHANGED loopVars

(* A Joy-Con of the list sends a report; a full inbox would drop it. *)
Push(c) ==
  /\ Registered(c) /\ live[c]
  /\ Len(inbox[c]) < InboxLimit
  /\ \E r \in Inputs : inbox' = [inbox EXCEPT ![c] = Append(@, r)]
  /\ UNCHANGED <<listVars, i, last_seen, state, gamepad, host,
                 connect_timeout, usb_timeout, flushed, lost, clockVars>>

(* The clock reaches the next second.  A Joy-Con that is there reports     *)
(* sixty times a second: by then one of its reports was read, or as many   *)
(* wait as the kernel keeps.                                               *)
Tick ==
  /\ \A c \in Pads :
       Registered(c) /\ live[c] => last_seen[c] <= 0 \/ Len(inbox[c]) = InboxLimit
  /\ last_seen' = [c \in Pads |-> IF last_seen[c] < SilenceLimit
                                  THEN last_seen[c] + 1 ELSE last_seen[c]]
  /\ UNCHANGED <<listVars, i, inbox, state, gamepad, host,
                 connect_timeout, usb_timeout, flushed, lost, clockVars>>

Seen == {c \in Pads : last_seen[c] # Never}

(* time(NULL) is the wall clock, which may be set: forward, by more than   *)
(* the limit, ...                                                          *)
SetForward ==
  /\ settings < MaxSettings
  /\ settings' = settings + 1
  /\ last_seen' = [c \in Pads |-> IF c \in Seen THEN SilenceLimit ELSE Never]
  /\ stale' = Seen
  /\ UNCHANGED <<listVars, i, inbox, state, gamepad, host,
                 connect_timeout, usb_timeout, flushed, lost>>

(* ... or back, by a second.  Of an age beyond the limit it may, or may    *)
(* not, leave one within it.                                               *)
SetBack ==
  /\ settings < MaxSettings
  /\ settings' = settings + 1
  /\ \E older \in SUBSET {c \in Seen : last_seen[c] = SilenceLimit} :
       last_seen' = [c \in Pads |-> IF c \in Seen \ older
                                   THEN last_seen[c] - 1 ELSE last_seen[c]]
  /\ UNCHANGED <<listVars, i, inbox, state, gamepad, host,
                 connect_timeout, usb_timeout, flushed, lost, stale>>

Clock == Tick \/ SetForward \/ SetBack

(* What a dead handle has queued can no longer be read. *)
GoneFor(c) ==
  /\ Drop(c)
  /\ inbox' = [inbox EXCEPT ![c] = <<>>]
  /\ UNCHANGED <<i, last_seen, state, gamepad, host,
                 connect_timeout, usb_timeout, flushed, lost, clockVars>>

Program == Heard \/ Quiet \/ Lose \/ SweepDone \/ Connect

DaemonNext ==
  \/ Program
  \/ Abort /\ UNCHANGED loopVars
  \/ Clock
  \/ \E c \in Pads : Push(c) \/ GoneFor(c) \/ (LinkUp(c) /\ UNCHANGED loopVars)

DaemonSpec == DaemonInit /\ [][DaemonNext]_daemonVars

(* The loop goes on, the clock too, and a Joy-Con that is there reports.   *)
DaemonFairSpec ==
  /\ DaemonSpec
  /\ WF_daemonVars(Program)
  /\ WF_daemonVars(Tick)
  /\ \A c \in Pads : WF_daemonVars(Push(c))
-----------------------------------------------------------------------------
(* Properties *)

(* The types of the variables of the loop.  A removal at the last index    *)
(* leaves i one beyond the count.                                          *)
DaemonTypeOK ==
  /\ ListTypeOK
  /\ i \in 0 .. joycon_count + 1
  /\ inbox \in [Pads -> Seq(Inputs)]
  /\ \A c \in Pads : Len(inbox[c]) <= InboxLimit
  /\ last_seen \in [Pads -> Ages]
  /\ state \in [Pads -> States]
  /\ gamepad \in [Sides -> States]
  /\ host \in [Sides -> States]
  /\ connect_timeout \in 0 .. RescanPeriod
  /\ usb_timeout \in 0 .. 1
  /\ flushed \in BOOLEAN
  /\ lost \in BOOLEAN
  /\ settings \in 0 .. MaxSettings
  /\ stale \subseteq Pads

(* This step shows the host a frame. *)
Shows ==
  /\ pc = "idle" /\ i >= joycon_count /\ i' = 0
  /\ joycon_count > 0
  /\ Target = "usb" => usb_timeout' = 0 /\ flushed'

(* The entries of a half; the last of them has the last word. *)
Players(s) == {k \in Used : SideOf[joycon[k]] = s}

LastWord(k) == \A j \in Players(SideOf[joycon[k]]) : j <= k

(* A frame shows of each half what its last Joy-Con in the list has said   *)
(* by then, unless the sweep removed one: then the Joy-Con moved into its  *)
(* place was passed over.                                                  *)
FrameFresh ==
  [][Shows /\ ~ lost =>
       \A k \in Used : LastWord(k) => host'[SideOf[joycon[k]]] = state[joycon[k]]
    ]_daemonVars

(* On USB no frame shows an input of a Joy-Con that has left: whatever is  *)
(* held in it is held, as far as rubusd knows, on a Joy-Con of the list.   *)
NoPhantom ==
  [][Shows /\ Target = "usb" =>
       \A s \in Sides : host'[s] # Rest =>
         \E k \in Players(s) : state[joycon[k]] = host'[s]
    ]_daemonVars

(* Only a Joy-Con that is gone is removed: one that goes on reporting is   *)
(* not taken for silent because rubusd was busy with another, nor because  *)
(* the clock was set, but once each time it is set forward.                *)
OnlyGoneLeave ==
  [][\A k \in Used : (\E j \in 0 .. joycon_count' - 1 : joycon'[j] = joycon[k])
                     \/ ~ live[joycon[k]] \/ joycon[k] \in stale
    ]_daemonVars

(* Nothing more is to be expected of rubusd. *)
Over == pc \in Stopped \/ Spinning

(* A Joy-Con that is gone leaves the list, if a report of it was ever read *)
(* (jc_input_maybe waits for ever for the first).                          *)
Ghost(c) == Registered(c) /\ ~ live[c] /\ last_seen[c] = Never

GoneLeave ==
  \A c \in Pads :
    Registered(c) /\ ~ live[c] /\ ~ Ghost(c) ~> ~ Registered(c) \/ Over

(* A Joy-Con that stays connected ends up in the list, with a handle that  *)
(* reaches it, however often it and others came and went before; unless an *)
(* old handle on it is a ghost.                                            *)
LinkedJoin ==
  \A c \in Supported :
    <>[]linked[c] => <>[]((Registered(c) /\ live[c]) \/ Ghost(c) \/ Over)

(* The host comes to show what the last Joy-Con of a half keeps saying; on *)
(* USB a half without one comes to rest.  Not while Joy-Cons keep leaving: *)
(* the frame after each removal may show rest.  Nor without any Joy-Con in *)
(* the list: then no frame is sent.  What of the frames on the way was     *)
(* lost is made up for, as long as they get through in the end.            *)
Says(s, v) ==
  /\ joycon_count > 0
  /\ IF Players(s) = {} THEN Target = "usb" /\ v = Rest
                        ELSE \E k \in Players(s) : LastWord(k) /\ state[joycon[k]] = v

HostFollows ==
  \A s \in Sides, v \in States :
    <>[](Says(s, v) /\ ~ lost /\ flushed) => <>[](host[s] = v \/ Over)
=============================================================================

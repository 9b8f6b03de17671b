------------------------------- MODULE DevList -------------------------------
(***************************************************************************)
(* The device list of rubusd (main.c): the array joycon, its length        *)
(* joycon_count, and the three functions that change them,                 *)
(* dev_list_connect_new, dev_list_remove and dev_list_contains, with every *)
(* call into joycon.c and hid.c they make.                                 *)
(*                                                                         *)
(* rubusd has one thread.  Its steps here are cut where it waits: each     *)
(* subcommand of the connection sequence is written to the controller and  *)
(* its answer awaited, and between two of them the controller may go out   *)
(* of range (Drop) or others come into range (LinkUp).  What main does     *)
(* with the list in between, the sweep that polls the controllers, is      *)
(* module Daemon; here it only removes a controller now and then.          *)
(***************************************************************************)
EXTENDS Integers, Sequences, FiniteSets, Functions

CONSTANTS
  Pads,           \* the Joy-Cons that may ever be paired with the host
  AddressOf,      \* the 32 address bits jc_parse_address keeps of each one
  Supported,      \* those whose product string reads "Joy-Con (L)" or "(R)"
  MaxConnections, \* MAX_CONNECTIONS, the size of the array
  NULL            \* the null pointer

ASSUME PadsAssumption ==
  /\ IsFiniteSet(Pads)
  /\ NULL \notin Pads
  /\ Supported \subseteq Pads
  /\ AddressOf \in [Pads -> Range(AddressOf)]

(* The player lights are four bits, and each entry's number goes there. *)
ASSUME MaxAssumption == MaxConnections \in 1 .. 15

VARIABLES
  joycon,         \* the array: a Joy-Con's handle, named by the Joy-Con, or NULL
  joycon_count,   \* how many entries of it are in use
  cur_dev,        \* the entries of the enumeration still to be visited
  pc,             \* where dev_list_connect_new stands, "idle" outside it
  linked,         \* is the Joy-Con connected to the host now?
  live,           \* does the open handle on it still reach the Joy-Con?
  lights          \* the player lights each Joy-Con was last told to show

listVars == <<joycon, joycon_count, cur_dev, pc, linked, live, lights>>

Slots == 0 .. MaxConnections - 1

(* The locations of dev_list_connect_new.  Creating is jc_create, before   *)
(* its result is stored in the array; Setup follows, before joycon_count   *)
(* counts the entry.  rubusd never leaves the locations in Stopped.        *)
Creating == {"open", "flush", "drain", "all_on"}
Setup    == {"calibrate", "number", "mode"}
Stopped  == {"crash", "overrun", "exit"}
Location == {"idle", "scan"} \cup Creating \cup Setup \cup Stopped

ListInit ==
  /\ joycon = [k \in Slots |-> NULL]
  /\ joycon_count = 0
  /\ cur_dev = <<>>
  /\ pc = "idle"
  /\ linked \in [Pads -> BOOLEAN]
  /\ live = [c \in Pads |-> FALSE]
  /\ lights = [c \in Pads |-> 0]

Used == 0 .. joycon_count - 1

(* Mutant: the loop stops one entry early. *)
contains_ShortLoop(address) ==
  \E k \in 0 .. joycon_count - 2 :
    joycon[k] # NULL /\ AddressOf[joycon[k]] = address

dev_list_contains(address) ==
  \E k \in Used : joycon[k] # NULL /\ AddressOf[joycon[k]] = address

-----------------------------------------------------------------------------
(* dev_list_connect_new *)

(* hid_enumerate: a list of what is linked at this moment, in no order     *)
(* rubusd can rely on.  The entries whose product is no Joy-Con, which the *)
(* loop passes over, are left out.                                         *)
Enumeration ==
  LET present == {c \in Pads : linked[c]}
  IN  Bijection(1 .. Cardinality(present), present)

Enumerate ==
  /\ pc = "idle"
  /\ pc' = "scan"
  /\ cur_dev' \in Enumeration
  /\ UNCHANGED <<joycon, joycon_count, linked, live, lights>>

(* Some HID device, of whatever make, disconnects between two steps of     *)
(* hid_enumerate, which reads through NULL then (see HidEnumerate).        *)
EnumerateFails ==
  /\ pc = "idle"
  /\ pc' = "crash"
  /\ UNCHANGED <<joycon, joycon_count, cur_dev, linked, live, lights>>

Scan == Enumerate \/ EnumerateFails

(* The entry under the loop's cursor. *)
Cur == Head(cur_dev)

(* Mutant: "continue" without cur_dev = cur_dev->next. *)
SkipKnown_NoAdvance ==
  /\ pc = "scan"
  /\ cur_dev # <<>>
  /\ dev_list_contains(AddressOf[Cur])
  /\ UNCHANGED listVars

SkipKnown ==
  /\ pc = "scan"
  /\ cur_dev # <<>>
  /\ dev_list_contains(AddressOf[Cur])
  /\ cur_dev' = Tail(cur_dev)
  /\ UNCHANGED <<joycon, joycon_count, pc, linked, live, lights>>

(* A new address: usleep, then jc_create opens the path of the entry. *)
NewFound ==
  /\ pc = "scan"
  /\ cur_dev # <<>>
  /\ ~ dev_list_contains(AddressOf[Cur])
  /\ pc' = "open"
  /\ UNCHANGED <<joycon, joycon_count, cur_dev, linked, live, lights>>

ScanDone ==
  /\ pc = "scan"
  /\ cur_dev = <<>>
  /\ pc' = "idle"
  /\ UNCHANGED <<joycon, joycon_count, cur_dev, linked, live, lights>>

Open ==
  /\ pc = "open"
  /\ linked[Cur]
  /\ live' = [live EXCEPT ![Cur] = TRUE]
  /\ pc' = "flush"
  /\ UNCHANGED <<joycon, joycon_count, cur_dev, linked, lights>>

(* The Joy-Con is gone since the enumeration, or it is there and the       *)
(* process has no file left for it (Handles has the guard) or may not open *)
(* the node: hid_open_path returns NULL, which the test                    *)
(* "con->dev < 0" lets through to hid_get_product_string, which reads      *)
(* dev->device_handle.                                                     *)
OpenFails ==
  /\ pc = "open"
  /\ pc' = "crash"
  /\ UNCHANGED <<joycon, joycon_count, cur_dev, linked, live, lights>>

(* hid_get_product_string finds the node of the file, but not its uevent,  *)
(* because the Joy-Con disconnects in between, and reads through NULL.     *)
StringFails ==
  /\ pc = "flush"
  /\ ~ live[Cur]
  /\ pc' = "crash"
  /\ UNCHANGED <<joycon, joycon_count, cur_dev, linked, live, lights>>

(* jc_flush_input: the input mode is set to simple, one report read, ... *)
Flush ==
  /\ pc = "flush"
  /\ live[Cur]
  /\ Cur \in Supported
  /\ pc' = "drain"
  /\ UNCHANGED <<joycon, joycon_count, cur_dev, linked, live, lights>>

(* ... and reports are read until none comes for 100 ms.  On a handle that *)
(* is dead hid_read_timeout returns -1, which keeps the loop spinning: no  *)
(* action leaves "drain" then.                                             *)
Drain ==
  /\ pc = "drain"
  /\ live[Cur]
  /\ pc' = "all_on"
  /\ UNCHANGED <<joycon, joycon_count, cur_dev, linked, live, lights>>

(* jc_set_player_lights(0xf) ends jc_create, whose result goes into        *)
(* joycon[joycon_count] whether or not there is such an entry.             *)
AllOn ==
  /\ pc = "all_on"
  /\ live[Cur]
  /\ lights' = [lights EXCEPT ![Cur] = 15]
  /\ IF joycon_count \in Slots
     THEN /\ joycon' = [joycon EXCEPT ![joycon_count] = Cur]
          /\ pc' = "calibrate"
     ELSE /\ pc' = "overrun"
          /\ UNCHANGED joycon
  /\ UNCHANGED <<joycon_count, cur_dev, linked, live>>

(* Mutant: "continue" without cur_dev = cur_dev->next. *)
CreateFails_SameEntry ==
  /\ \/ pc \in {"flush", "all_on"} /\ ~ live[Cur]
     \/ pc = "flush" /\ Cur \notin Supported
  /\ live' = [live EXCEPT ![Cur] = FALSE]
  /\ IF joycon_count \in Slots
     THEN /\ joycon' = [joycon EXCEPT ![joycon_count] = NULL]
          /\ pc' = "scan"
     ELSE /\ pc' = "overrun"
          /\ UNCHANGED joycon
  /\ UNCHANGED <<joycon_count, cur_dev, linked, lights>>

(* jc_create returns JC_ERR: NULL goes into the array and the loop turns   *)
(* to the next entry.  The hid handle is never closed.                     *)
CreateFails ==
  /\ \/ pc \in {"flush", "all_on"} /\ ~ live[Cur]
     \/ pc = "flush" /\ Cur \notin Supported
  /\ live' = [live EXCEPT ![Cur] = FALSE]
  /\ IF joycon_count \in Slots
     THEN /\ joycon' = [joycon EXCEPT ![joycon_count] = NULL]
          /\ pc' = "scan"
          /\ cur_dev' = Tail(cur_dev)
     ELSE /\ pc' = "overrun"
          /\ UNCHANGED <<joycon, cur_dev>>
  /\ UNCHANGED <<joycon_count, linked, lights>>

Calibrate ==
  /\ pc = "calibrate"
  /\ live[Cur]
  /\ pc' = "number"
  /\ UNCHANGED <<joycon, joycon_count, cur_dev, linked, live, lights>>

(* jc_set_player_lights(next + 1) *)
Number ==
  /\ pc = "number"
  /\ live[Cur]
  /\ lights' = [lights EXCEPT ![Cur] = joycon_count + 1]
  /\ pc' = "mode"
  /\ UNCHANGED <<joycon, joycon_count, cur_dev, linked, live>>

(* jc_set_input_mode(JC_INPUT_MODE_FULL), then joycon_count++ *)
Mode ==
  /\ pc = "mode"
  /\ live[Cur]
  /\ joycon_count' = joycon_count + 1
  /\ cur_dev' = Tail(cur_dev)
  /\ pc' = "scan"
  /\ UNCHANGED <<joycon, linked, live, lights>>

(* JC_EXPECT: an error in the setup of one Joy-Con ends rubusd. *)
SetupFails ==
  /\ pc \in Setup
  /\ ~ live[Cur]
  /\ pc' = "exit"
  /\ UNCHANGED <<joycon, joycon_count, cur_dev, linked, live, lights>>

ConnectStep ==
  \/ SkipKnown \/ NewFound \/ ScanDone
  \/ Open \/ OpenFails \/ StringFails \/ Flush \/ Drain \/ AllOn \/ CreateFails
  \/ Calibrate \/ Number \/ Mode \/ SetupFails

-----------------------------------------------------------------------------
(* dev_list_remove *)

(* Where the loop that closes the gap at i stops: at the last entry in     *)
(* use, or earlier if the next one is NULL.                                *)
GapEnd(i) ==
  CHOOSE j \in i .. joycon_count - 1 :
    /\ j = joycon_count - 1 \/ joycon[j + 1] = NULL
    /\ \A m \in i .. j - 1 : joycon[m + 1] # NULL

(* Mutants: the gap is left open; the last entry is moved into it. *)
Closed_LeavesGap(i, e) == [joycon EXCEPT ![i] = NULL]

Closed_MovesLast(i, e) ==
  [k \in Slots |-> IF k = joycon_count - 1 THEN NULL
                   ELSE IF k = i THEN joycon[joycon_count - 1]
                   ELSE joycon[k]]

(* The array with entry i gone and those up to e moved down by one. *)
Closed(i, e) ==
  [k \in Slots |-> IF k \in i .. e - 1 THEN joycon[k + 1]
                   ELSE IF k = e THEN NULL
                   ELSE joycon[k]]

(* Mutant: those moved down keep their old number. *)
Renumbered_NotTold(i, e) == lights

(* jc_set_player_lights(j + 1) for each Joy-Con moved down to entry j.     *)
(* Its result is ignored: on a dead handle nothing changes.                *)
Renumbered(i, e) ==
  [c \in Pads |->
     IF live[c] /\ \E j \in i .. e - 1 : joycon[j + 1] = c
     THEN 1 + CHOOSE j \in i .. e - 1 : joycon[j + 1] = c
     ELSE lights[c]]

(* Mutant: the count is decremented in jc_destroy too. *)
remove_CountsTwice(i) ==
  /\ joycon' = Closed(i, GapEnd(i))
  /\ lights' = Renumbered(i, GapEnd(i))
  /\ joycon_count' = joycon_count - 2
  /\ live' = [live EXCEPT ![joycon[i]] = FALSE]
  /\ UNCHANGED <<cur_dev, pc, linked>>

dev_list_remove(i) ==
  /\ joycon' = Closed(i, GapEnd(i))
  /\ lights' = Renumbered(i, GapEnd(i))
  /\ joycon_count' = joycon_count - 1
  /\ live' = [live EXCEPT ![joycon[i]] = FALSE]
  /\ UNCHANGED <<cur_dev, pc, linked>>

(* The sweep of main removes an entry (jc_input_maybe returned JC_ERR). *)
Remove ==
  /\ pc = "idle"
  /\ \E i \in Used : dev_list_remove(i)

(* A VG_EXPECT of main fails: exit(1). *)
Abort ==
  /\ pc = "idle"
  /\ pc' = "exit"
  /\ UNCHANGED <<joycon, joycon_count, cur_dev, linked, live, lights>>

-----------------------------------------------------------------------------
(* The Joy-Cons *)

(* A Joy-Con connects to the host.  An older handle on it stays dead. *)
LinkUp(c) ==
  /\ ~ linked[c]
  /\ linked' = [linked EXCEPT ![c] = TRUE]
  /\ UNCHANGED <<joycon, joycon_count, cur_dev, pc, live, lights>>

(* A Joy-Con disconnects, and with it every handle on it. *)
Drop(c) ==
  /\ linked[c]
  /\ linked' = [linked EXCEPT ![c] = FALSE]
  /\ live' = [live EXCEPT ![c] = FALSE]
  /\ UNCHANGED <<joycon, joycon_count, cur_dev, pc, lights>>

-----------------------------------------------------------------------------

ListNext ==
  \/ Scan
  \/ ConnectStep
  \/ Remove
  \/ Abort
  \/ \E c \in Pads : LinkUp(c) \/ Drop(c)

ListSpec == ListInit /\ [][ListNext]_listVars

(* rubusd does not pause for ever inside dev_list_connect_new: it is never *)
(* blocked but on a Joy-Con, which answers or disconnects.                 *)
ListFairSpec == ListSpec /\ WF_listVars(ConnectStep)
-----------------------------------------------------------------------------
(* Properties *)

(* The types of the variables; joycon_count never leaves the array. *)
ListTypeOK ==
  /\ joycon \in [Slots -> Pads \cup {NULL}]
  /\ joycon_count \in 0 .. MaxConnections
  /\ cur_dev \in Seq(Pads)
  /\ pc \in Location
  /\ linked \in [Pads -> BOOLEAN]
  /\ live \in [Pads -> BOOLEAN]
  /\ lights \in [Pads -> 0 .. 15]

(* The entries in use are the first joycon_count, without a gap, and every *)
(* later one is NULL but for the Joy-Con being set up.  The sweep of main  *)
(* dereferences joycon[i] for every i below the count without a test.      *)
Compact ==
  \A k \in Slots :
    /\ k < joycon_count => joycon[k] # NULL
    /\ k > joycon_count => joycon[k] = NULL
    /\ k = joycon_count /\ pc \notin Setup \cup {"exit"} => joycon[k] = NULL

(* No two entries have the same address, through any sequence of scans,    *)
(* connections, failures and removals: no Joy-Con is opened twice.         *)
NoDuplicate ==
  \A j, k \in Used : AddressOf[joycon[j]] = AddressOf[joycon[k]] => j = k

(* While a Joy-Con is being connected, over a dozen exchanges with it, its *)
(* address stays absent from the list: what dev_list_contains found before *)
(* still holds when joycon_count++ makes the entry count.  During setup    *)
(* the entry after the last is the newcomer's, and once told its number    *)
(* is the one the entry will have.                                         *)
Newcomer ==
  /\ pc \in Creating \cup Setup =>
       cur_dev # <<>> /\ \A k \in Used : AddressOf[joycon[k]] # AddressOf[Cur]
  /\ pc \in Setup => joycon_count \in Slots /\ joycon[joycon_count] = Cur
  /\ pc = "mode" /\ live[Cur] => lights[Cur] = joycon_count + 1

(* Every Joy-Con rubusd can reach shows its place in the list as its       *)
(* player number, also after others before it have left.                   *)
LightsMatch ==
  \A k \in Used : live[joycon[k]] => lights[joycon[k]] = k + 1

(* The array is never written past its end.  Nothing compares joycon_count *)
(* with MAX_CONNECTIONS: it takes EnoughRoom.                              *)
NoOverrun == pc # "overrun"

(* There are no more addresses than entries in the array. *)
EnoughRoom == Cardinality(Range(AddressOf)) <= MaxConnections

(* The list keeps the promises of Roster. *)
RosterOfList == [k \in 1 .. joycon_count |-> joycon[k - 1]]

Abstract == INSTANCE Roster WITH roster <- RosterOfList

ImplementsRoster == Abstract!Spec

(* dev_list_connect_new returns, or stops rubusd, or spins in the drain    *)
(* loop on a Joy-Con that has disconnected; nothing else holds it up.      *)
Spinning == pc = "drain" /\ ~ live[Cur]

ConnectEnds ==
  pc # "idle" ~> pc \in {"idle"} \cup Stopped \/ Spinning

(* How many steps of dev_list_connect_new are left, at most: eight for     *)
(* each entry of the enumeration, and the return.                          *)
StepsLeft ==
  IF pc \in {"idle"} \cup Stopped THEN 0
  ELSE 8 * Len(cur_dev)
         + CASE pc = "scan"      -> 1
             [] pc = "open"      -> 0
             [] pc = "flush"     -> -1
             [] pc = "drain"     -> -2
             [] pc = "all_on"    -> -3
             [] pc = "calibrate" -> -4
             [] pc = "number"    -> -5
             [] pc = "mode"      -> -6

(* Every step of dev_list_connect_new brings its return nearer: no entry   *)
(* is tried twice, whatever of its set-up fails.  Only Joy-Cons that come  *)
(* and go meanwhile change something without that.                         *)
ScanAdvances ==
  [][pc \notin {"idle"} \cup Stopped =>
       \/ 0 <= StepsLeft' /\ StepsLeft' < StepsLeft
       \/ UNCHANGED <<joycon, joycon_count, cur_dev, pc, lights>>]_listVars

(* The drain loop ends when hid_read_timeout has no more reports: when it  *)
(* "returns 0", or "-1 on error".                                          *)
ScanEnds == pc # "idle" ~> pc \in {"idle"} \cup Stopped

(* jc_create reports the path of a Joy-Con that has left since the         *)
(* enumeration ("Failed to open device"), and the scan goes on to the next *)
(* entry.                                                                  *)
OpenFailureReported == [][pc = "open" /\ ~ linked[Cur] => pc' # "crash"]_listVars
=============================================================================

------------------------------ MODULE Handles -------------------------------
(***************************************************************************)
(* The files behind the device list: hid_open_path opens one for each      *)
(* Joy-Con and hid_close closes it.  The kernel gives out the lowest       *)
(* number that is free, so that a number soon stands for another Joy-Con   *)
(* than before; and jc_create, where it fails, forgets the file it has     *)
(* opened.                                                                 *)
(*                                                                         *)
(* DevList with two more variables: each of its actions is here what it is *)
(* there, and what it does to the files.                                   *)
(***************************************************************************)
EXTENDS DevList

CONSTANT Files  \* the numbers the process has left for Joy-Cons

(* hid_open_path takes 0 for an error, but the service never gives it out: *)
(* it is standard input.                                                   *)
ASSUME FilesAssumption ==
  /\ IsFiniteSet(Files)
  /\ Files \subseteq Nat \ {0}
  /\ NULL \notin Files

VARIABLES
  open,     \* the files that are open
  handle,   \* con->dev->device_handle, NULL where there is no structure
  failures  \* history: how often jc_create has returned JC_ERR

filesVars == <<open, handle, failures>>

handlesVars == <<listVars, filesVars>>

HandlesInit ==
  /\ ListInit
  /\ open = {}
  /\ handle = [c \in Pads |-> NULL]
  /\ failures = 0

Free == Files \ open

-----------------------------------------------------------------------------
(* hid_open_path: the structure is kept with its file, or freed. *)
OpenFile ==
  /\ Open
  /\ \E f \in Free :
       /\ \A g \in Free : f <= g
       /\ open' = open \cup {f}
       /\ handle' = [handle EXCEPT ![Cur] = f]
  /\ UNCHANGED failures

OpenFileFails ==
  /\ OpenFails
  /\ ~ linked[Cur] \/ Free = {}
  /\ UNCHANGED filesVars

(* The failures of jc_create free the structure and call no hid_close. *)
Forgotten == [handle EXCEPT ![Cur] = NULL]

CreateForgets ==
  /\ CreateFails
  /\ handle' = Forgotten
  /\ failures' = failures + 1
  /\ UNCHANGED open

(* Mutants: the structure is freed and its file left open; what is closed  *)
(* is the file of the Joy-Con that moves to i.                             *)
Closing_Nothing(i) == {}

Closing_AfterMove(i) ==
  {handle[joycon[IF i < joycon_count - 1 THEN i + 1 ELSE i]]}

(* jc_destroy: hid_close of the handle in the structure. *)
Closing(i) == {handle[joycon[i]]}

RemoveCloses ==
  /\ pc = "idle"
  /\ \E i \in Used :
       /\ dev_list_remove(i)
       /\ open' = open \ Closing(i)
       /\ handle' = [handle EXCEPT ![joycon[i]] = NULL]
  /\ UNCHANGED failures

(* The other exchanges with a Joy-Con use its file as it is. *)
UseFile ==
  \/ SkipKnown \/ NewFound \/ ScanDone \/ StringFails \/ Flush \/ Drain
  \/ AllOn \/ Calibrate \/ Number \/ Mode \/ SetupFails

ConnectFiles ==
  OpenFile \/ OpenFileFails \/ CreateForgets \/ (UseFile /\ UNCHANGED filesVars)

HandlesNext ==
  \/ ConnectFiles
  \/ RemoveCloses
  \/ Scan /\ UNCHANGED filesVars
  \/ Abort /\ UNCHANGED filesVars
  \/ \E c \in Pads : (LinkUp(c) \/ Drop(c)) /\ UNCHANGED filesVars

HandlesSpec == HandlesInit /\ [][HandlesNext]_handlesVars

(* As in DevList. *)
HandlesFairSpec == HandlesSpec /\ WF_handlesVars(ConnectFiles)
-----------------------------------------------------------------------------
(* Properties *)

(* The Joy-Con that is being connected has a file but no entry yet. *)
Opened == {"flush", "drain", "all_on"} \cup Setup

InSetUp == IF pc \in Opened THEN {Cur} ELSE {}

Listed == {joycon[k] : k \in Used}

(* The types of the variables. *)
HandlesTypeOK ==
  /\ open \subseteq Files
  /\ handle \in [Pads -> Files \cup {NULL}]
  /\ failures \in Nat

(* Every Joy-Con rubusd works with has a file of its own that is open: no  *)
(* read or write reaches another Joy-Con or a closed file, however often   *)
(* numbers were given back and given out again.                            *)
OwnFile ==
  \A c \in Listed \cup InSetUp :
    /\ handle[c] \in open
    /\ \A d \in Listed \cup InSetUp : handle[d] = handle[c] => d = c

(* A file is open for each entry, one for the Joy-Con being connected, and *)
(* one for each failure of jc_create: nothing else loses any.              *)
Accounted ==
  pc \notin Stopped =>
    Cardinality(open) = joycon_count + Cardinality(InSetUp) + failures

(* rubusd runs out of files only after as many failures of jc_create as    *)
(* there are files more than the other entries of a full list need.        *)
RunsOutLate ==
  pc = "open" /\ Free = {} => failures > Cardinality(Files) - MaxConnections
=============================================================================

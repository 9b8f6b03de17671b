---------------------------- MODULE HidEnumerate -----------------------------
(***************************************************************************)
(* hid_enumerate of the hidraw backend: the linked list it builds of the   *)
(* HID devices of one vendor, the loop of dev_list_connect_new that walks  *)
(* it, and hid_free_enumeration.                                           *)
(*                                                                         *)
(* The kernel's devices are looked at one by one, and may come and go in   *)
(* between.  A record is named by the device it was made for.  What DevList *)
(* takes for one step, a scan, is here a step per look at a device.        *)
(***************************************************************************)
EXTENDS Sequences, SequencesExt, FiniteSets, FiniteSetsExt

CONSTANTS
  Devices, \* the hidraw devices that may ever be there
  KindOf,  \* what hid_enumerate sees of each
  NULL

(* Other devices have no HID parent, say too little of themselves, are on  *)
(* another bus, or of another vendor; an orphan claims to be on the USB    *)
(* but has no USB parent.                                                  *)
Kinds == {"bluetooth", "usb", "orphan", "other"}

ASSUME HidAssumption ==
  /\ IsFiniteSet(Devices)
  /\ KindOf \in [Devices -> Kinds]
  /\ NULL \notin Devices

VARIABLES
  present,  \* the devices the kernel has now
  devices,  \* those the udev enumerator found, still to be looked at
  pc,
  heap,     \* the devices that have a record, made and not yet freed
  next,     \* the field of that name of each record
  root, cur_dev, prev_dev,
  d,        \* the cursor of the loops over the finished list
  order,    \* history: what the enumerator found, in order
  gone      \* history: the devices that left since

list == <<root, cur_dev, prev_dev, next, heap>>

vars == <<present, devices, pc, list, d, order, gone>>

Locations == {"idle", "look", "read", "parent", "walk", "free", "crash"}

Init ==
  /\ present \in SUBSET Devices
  /\ devices = <<>> /\ order = <<>> /\ gone = {}
  /\ pc = "idle"
  /\ heap = {}
  /\ next = [n \in Devices |-> NULL]
  /\ root = NULL /\ cur_dev = NULL /\ prev_dev = NULL /\ d = NULL

-----------------------------------------------------------------------------
(* hid_enumerate *)

(* Without a udev context there is no list to walk, nor to free. *)
NoContext ==
  /\ pc = "idle"
  /\ pc' = "walk" /\ d' = NULL
  /\ devices' = <<>> /\ order' = <<>>
  /\ UNCHANGED <<present, list, gone>>

(* udev_enumerate_scan_devices *)
Enumerate ==
  /\ pc = "idle"
  /\ pc' = "look"
  /\ devices' \in SetToSeqs(present)
  /\ order' = devices'
  /\ UNCHANGED <<present, list, d, gone>>

Device == Head(devices)

(* next: *)
Advance == pc' = "look" /\ devices' = Tail(devices)

(* The udev device and its HID parent are looked up.  Of a device that is  *)
(* gone there is neither, and NULL is passed through both calls.           *)
Look ==
  /\ pc = "look" /\ devices # <<>>
  /\ IF Device \in present THEN pc' = "read" /\ UNCHANGED devices ELSE Advance
  /\ UNCHANGED <<present, list, d, order, gone>>

(* Mutant: cur_dev moves on before its field is set. *)
Linked_Late(tmp) ==
  /\ next' = [next EXCEPT ![tmp] = NULL]
  /\ root' = IF cur_dev = NULL THEN tmp ELSE root

(* The new record goes behind cur_dev, or becomes the root. *)
Linked(tmp) ==
  IF cur_dev # NULL
  THEN next' = [next EXCEPT ![cur_dev] = tmp, ![tmp] = NULL] /\ UNCHANGED root
  ELSE next' = [next EXCEPT ![tmp] = NULL] /\ root' = tmp

(* Mutant: the vendor is not compared. *)
Matches_Any(n) == TRUE

Matches(n) == KindOf[n] # "other"

(* The bus of the device, its vendor and its product are read from its     *)
(* uevent; if they are those asked for, a record is made.                  *)
Read ==
  /\ pc = "read" /\ Device \in present
  /\ IF ~ Matches(Device)
     THEN Advance /\ UNCHANGED list
     ELSE /\ heap' = heap \cup {Device}
          /\ Linked(Device)
          /\ prev_dev' = cur_dev
          /\ cur_dev' = Device
          /\ IF KindOf[Device] \notin {"usb", "orphan"} THEN Advance
             ELSE pc' = "parent" /\ UNCHANGED devices
  /\ UNCHANGED <<present, d, order, gone>>

(* The device is gone since it was looked up: there is no uevent, and      *)
(* parse_uevent_info copies the string at NULL.                            *)
ReadFails ==
  /\ pc = "read" /\ Device \notin present
  /\ pc' = "crash"
  /\ UNCHANGED <<present, devices, list, d, order, gone>>

(* Mutants: cur_dev is not taken back; the record before keeps its link.   *)
Unlinked_CurKept ==
  IF prev_dev # NULL
  THEN next' = [next EXCEPT ![prev_dev] = NULL] /\ UNCHANGED <<cur_dev, root>>
  ELSE UNCHANGED <<next, cur_dev>> /\ root' = NULL

Unlinked_NextKept ==
  IF prev_dev # NULL
  THEN cur_dev' = prev_dev /\ UNCHANGED <<next, root>>
  ELSE cur_dev' = NULL /\ root' = NULL /\ UNCHANGED next

(* The record just linked is taken off the list again. *)
Unlinked ==
  IF prev_dev # NULL
  THEN next' = [next EXCEPT ![prev_dev] = NULL] /\ cur_dev' = prev_dev /\ UNCHANGED root
  ELSE cur_dev' = NULL /\ root' = NULL /\ UNCHANGED next

(* A USB device has its strings from its USB parent; without one, or when  *)
(* it can no longer be found, the record is freed.                         *)
Parent ==
  /\ pc = "parent"
  /\ \/ KindOf[Device] = "usb" /\ UNCHANGED list
     \/ /\ KindOf[Device] = "orphan" \/ Device \notin present
        /\ heap' = heap \ {Device}
        /\ Unlinked
        /\ UNCHANGED prev_dev
  /\ Advance
  /\ UNCHANGED <<present, d, order, gone>>

Enumerated ==
  /\ pc = "look" /\ devices = <<>>
  /\ pc' = "walk"
  /\ d' = root
  /\ UNCHANGED <<present, devices, list, order, gone>>

-----------------------------------------------------------------------------
(* The loops over the list *)

(* dev_list_connect_new looks at a record, and perhaps connects what it    *)
(* stands for.                                                             *)
Walk ==
  /\ pc = "walk"
  /\ IF d # NULL THEN d' = next[d] /\ UNCHANGED pc ELSE pc' = "free" /\ d' = root
  /\ UNCHANGED <<present, devices, list, order, gone>>

(* hid_free_enumeration *)
Free ==
  /\ pc = "free" /\ d # NULL
  /\ heap' = heap \ {d}
  /\ d' = next[d]
  /\ UNCHANGED <<present, devices, pc, root, cur_dev, prev_dev, next, order, gone>>

(* The local variables are no more, and the histories end. *)
Freed ==
  /\ pc = "free" /\ d = NULL
  /\ pc' = "idle"
  /\ root' = NULL /\ cur_dev' = NULL /\ prev_dev' = NULL
  /\ next' = [n \in Devices |-> NULL]
  /\ order' = <<>> /\ gone' = {}
  /\ UNCHANGED <<present, devices, heap, d>>

-----------------------------------------------------------------------------
(* The kernel *)

Unplug(n) ==
  /\ n \in present
  /\ present' = present \ {n}
  /\ gone' = IF pc = "idle" THEN gone ELSE gone \cup {n}
  /\ UNCHANGED <<devices, pc, list, d, order>>

Plug(n) ==
  /\ n \notin present
  /\ present' = present \cup {n}
  /\ UNCHANGED <<devices, pc, list, d, order, gone>>

Next ==
  \/ NoContext \/ Enumerate \/ Look \/ Read \/ ReadFails \/ Parent \/ Enumerated
  \/ Walk \/ Free \/ Freed
  \/ \E n \in Devices : Unplug(n) \/ Plug(n)

Spec == Init /\ [][Next]_vars
-----------------------------------------------------------------------------
(* Properties *)

(* The types of the variables; while the list is in use, no pointer to a   *)
(* record points to one that was freed.                                    *)
TypeOK ==
  /\ present \subseteq Devices /\ gone \subseteq Devices
  /\ devices \in Seq(Devices) /\ order \in Seq(Devices)
  /\ pc \in Locations
  /\ heap \subseteq Devices
  /\ next \in [Devices -> Devices \cup {NULL}]
  /\ {root, cur_dev, prev_dev, d} \subseteq Devices \cup {NULL}
  /\ pc # "free" => {root, cur_dev, prev_dev, d} \subseteq heap \cup {NULL}

(* Where the enumerator found a device. *)
At(n) == CHOOSE k \in DOMAIN order : order[k] = n

(* The pointer p leads to the first record behind place k, if there is one. *)
FirstBehind(k, p) ==
  \/ p = NULL /\ \A n \in heap : At(n) <= k
  \/ p \in heap /\ At(p) > k /\ \A n \in heap : At(n) > k => At(p) <= At(n)

(* The pointer p leads to the last of these records, if there is one. *)
LastOf(records, p) ==
  \/ p = NULL /\ records = {}
  \/ p \in records /\ \A n \in records : At(n) <= At(p)

(* While the list is built and walked, the records that are live hang from *)
(* root in the order of the devices, each followed by the next one, and    *)
(* cur_dev is the last: no freed record is reached and none is lost,       *)
(* whichever were taken off again on the way.                              *)
InOrder ==
  pc \in {"look", "read", "parent", "walk"} =>
    /\ heap \subseteq ToSet(order)
    /\ FirstBehind(0, root)
    /\ \A n \in heap : FirstBehind(At(n), next[n])
    /\ LastOf(heap, cur_dev)

(* The finished list has every device of the vendor that was found and     *)
(* stayed, and no device of which it should say nothing.               *)
Complete ==
  pc = "walk" =>
    /\ \A n \in heap : KindOf[n] \in {"bluetooth", "usb"}
    /\ \A n \in ToSet(order) \ gone : KindOf[n] \in {"bluetooth", "usb"} => n \in heap

(* The loops only follow records that have not been freed, and when the    *)
(* scan is over all have been.                                             *)
FreedOnce ==
  /\ pc \in {"walk", "free"} /\ d # NULL => d \in heap
  /\ pc = "idle" => heap = {}
=============================================================================

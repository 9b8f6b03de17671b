------------------------- MODULE HidEnumerateProofs -------------------------
(***************************************************************************)
(* Proofs about HidEnumerate, for any number of devices of any kinds that  *)
(* come and go at any time.                                                *)
(***************************************************************************)
EXTENDS HidEnumerate, FiniteSetTheorems, TLAPS

Building == {"look", "read", "parent"}

(* How many of the devices found are done with. *)
Done == Len(order) - Len(devices)

(* Of what was found, each device is there once, and what is still to be   *)
(* looked at is the end of it.                                             *)
Numbered ==
  pc # "idle" =>
    /\ \A k, l \in 1 .. Len(order) : order[k] = order[l] => k = l
    /\ Len(devices) <= Len(order)
    /\ \A k \in 1 .. Len(devices) : devices[k] = order[Done + k]
    /\ pc \in {"read", "parent"} => devices # <<>>
    /\ pc \in {"walk", "free"} => devices = <<>>

(* The records are of devices that are done with, but for the one whose    *)
(* USB parent is looked for: it is the last, and prev_dev the one before.  *)
Behind ==
  /\ pc \in {"look", "read"} => \A n \in heap : At(n) <= Done
  /\ pc = "parent" => cur_dev = Device /\ LastOf(heap \ {Device}, prev_dev)

(* The cursor is at rest, or on the records that are left. *)
Cursor ==
  /\ pc \in {"idle"} \cup Building => d = NULL
  /\ pc = "free" =>
       /\ heap \subseteq ToSet(order)
       /\ FirstBehind(0, d)
       /\ \A n \in heap : FirstBehind(At(n), next[n])

(* Between two scans there is nothing. *)
Empty == pc = "idle" => heap = {} /\ root = NULL /\ cur_dev = NULL /\ prev_dev = NULL

(* A device that was found is there, or has left since. *)
Noticed == pc # "idle" => ToSet(order) \subseteq present \cup gone

(* Which devices have a record, and which have none. *)
Sorted ==
  /\ \A n \in heap : KindOf[n] \in {"bluetooth", "usb"} \/ (pc = "parent" /\ n = Device)
  /\ pc = "parent" => KindOf[Device] \in {"usb", "orphan"}
  /\ pc \in Building \cup {"walk"} =>
       \A k \in 1 .. Done :
         order[k] \in heap \cup gone \/ KindOf[order[k]] \in {"orphan", "other"}

EnumInv ==
  TypeOK /\ Numbered /\ InOrder /\ Behind /\ Cursor /\ Empty /\ Noticed /\ Sorted
-----------------------------------------------------------------------------
(* Places *)

LEMMA Places ==
  ASSUME TypeOK, Numbered, pc # "idle"
  PROVE  /\ Len(order) \in Nat /\ Len(devices) \in Nat /\ Done \in Nat
         /\ \A n \in ToSet(order) : At(n) \in 1 .. Len(order) /\ order[At(n)] = n
         /\ \A k \in 1 .. Len(order) : order[k] \in ToSet(order) /\ At(order[k]) = k
<1>1. order \in Seq(Devices) /\ devices \in Seq(Devices)
  BY DEF TypeOK
<1>2. DOMAIN order = 1 .. Len(order) /\ Len(order) \in Nat /\ Len(devices) \in Nat
  BY <1>1
<1>3. Done \in Nat
  BY <1>2 DEF Numbered, Done
<1>4. ASSUME NEW n \in ToSet(order)
      PROVE  At(n) \in 1 .. Len(order) /\ order[At(n)] = n
  BY <1>2 DEF ToSet, At
<1>5. ASSUME NEW k \in 1 .. Len(order)
      PROVE  order[k] \in ToSet(order) /\ At(order[k]) = k
  <2>1. order[k] \in ToSet(order)
    BY <1>2 DEF ToSet
  <2>2. QED
    BY <1>4, <2>1 DEF Numbered
<1>6. QED
  BY <1>2, <1>3, <1>4, <1>5

(* The device looked at is the first of what is left. *)
LEMMA DevicePlace ==
  ASSUME TypeOK, Numbered, pc # "idle", devices # <<>>
  PROVE  /\ Device \in Devices /\ Device \in ToSet(order)
         /\ Device = order[Done + 1] /\ At(Device) = Done + 1
         /\ Done + 1 \in 1 .. Len(order)
         /\ Tail(devices) \in Seq(Devices) /\ Len(Tail(devices)) = Len(devices) - 1
         /\ \A k \in 1 .. Len(devices) - 1 : Tail(devices)[k] = devices[k + 1]
<1>1. devices \in Seq(Devices) /\ Len(devices) \in Nat /\ Len(devices) # 0
  BY DEF TypeOK
<1>2. Device = devices[1] /\ Device \in Devices
  BY <1>1 DEF Device
<1>3. Device = order[Done + 1]
  BY <1>1, <1>2 DEF Numbered
<1>4. Done + 1 \in 1 .. Len(order)
  BY <1>1, Places DEF Done, Numbered
<1>5. Device \in ToSet(order) /\ At(Device) = Done + 1
  BY <1>3, <1>4, Places
<1>6. /\ Tail(devices) \in Seq(Devices) /\ Len(Tail(devices)) = Len(devices) - 1
      /\ \A k \in 1 .. Len(devices) - 1 : Tail(devices)[k] = devices[k + 1]
  BY <1>1
<1>7. QED
  BY <1>2, <1>3, <1>4, <1>5, <1>6

(* A device is done with. *)
LEMMA AdvancePlace ==
  ASSUME TypeOK, Numbered, pc # "idle", devices # <<>>,
         Advance, order' = order
  PROVE  Numbered' /\ Done' = Done + 1 /\ devices' \in Seq(Devices)
<1>1. devices' = Tail(devices) /\ Len(devices') = Len(devices) - 1 /\ pc' = "look"
  BY DevicePlace DEF Advance
<1>2. Done' = Done + 1
  BY <1>1, Places DEF Done
<1>3. \A k \in 1 .. Len(devices') : devices'[k] = order[Done + 1 + k]
  <2>1. SUFFICES ASSUME NEW k \in 1 .. Len(devices')
                 PROVE  devices'[k] = order[Done + 1 + k]
    OBVIOUS
  <2>2. k \in 1 .. Len(devices) - 1 /\ k + 1 \in 1 .. Len(devices)
    BY <1>1, Places
  <2>3. devices'[k] = devices[k + 1] /\ devices[k + 1] = order[Done + (k + 1)]
    BY <1>1, <2>2, DevicePlace DEF Numbered
  <2>4. Done + (k + 1) = Done + 1 + k
    BY <2>2, Places
  <2>5. QED
    BY <2>3, <2>4
<1>4. Len(devices') <= Len(order)
  BY <1>1, Places DEF Numbered
<1>5. QED
  BY <1>1, <1>2, <1>3, <1>4, DevicePlace DEF Numbered

(* Places are those of the order, and a record's device was found. *)
LEMMA SameOrder ==
  ASSUME order' = order
  PROVE  \A n : At(n)' = At(n)
BY DEF At

LEMMA SameList ==
  ASSUME order' = order, heap' = heap, next' = next
  PROVE  /\ \A k, p : FirstBehind(k, p)' = FirstBehind(k, p)
         /\ \A n : At(n)' = At(n)
         /\ \A records, p : LastOf(records, p)' = LastOf(records, p)
<1>1. \A n : At(n)' = At(n)
  BY SameOrder
<1>2. QED
  BY <1>1 DEF FirstBehind, LastOf

-----------------------------------------------------------------------------
(* hid_enumerate *)

LEMMA EnumerateStep == EnumInv /\ Enumerate => EnumInv'
<1> SUFFICES ASSUME EnumInv, Enumerate
             PROVE  EnumInv'
  OBVIOUS
<1>1. /\ pc = "idle" /\ pc' = "look" /\ order' = devices' /\ present' = present /\ gone' = gone
      /\ heap' = heap /\ root' = root /\ cur_dev' = cur_dev /\ prev_dev' = prev_dev
      /\ next' = next /\ d' = d
  BY DEF Enumerate, list
<1>2. TypeOK /\ heap = {} /\ root = NULL /\ cur_dev = NULL /\ prev_dev = NULL /\ d = NULL
  BY <1>1 DEF EnumInv, Empty, Cursor
<1>3. /\ devices' \in [1 .. Cardinality(present) -> present]
      /\ \A k, l \in 1 .. Cardinality(present) : k # l => devices'[k] # devices'[l]
  BY DEF Enumerate, SetToSeqs
<1>4. Cardinality(present) \in Nat
  BY <1>2, HidAssumption, FS_Subset, FS_CardinalityType DEF TypeOK
<1>5. devices' \in Seq(Devices) /\ Len(devices') = Cardinality(present)
  BY <1>2, <1>3, <1>4 DEF TypeOK
<1>6. TypeOK'
  BY <1>1, <1>2, <1>5 DEF TypeOK, Locations
<1>7. Done' = 0 /\ Numbered'
  BY <1>1, <1>3, <1>4, <1>5 DEF Done, Numbered
<1>8. InOrder' /\ Behind' /\ Cursor' /\ Empty'
  BY <1>1, <1>2 DEF InOrder, Behind, Cursor, Empty, FirstBehind, LastOf, Building
<1>9. Noticed'
  <2>1. ToSet(order)' \subseteq present
    BY <1>1, <1>3, <1>5 DEF ToSet
  <2>2. QED
    BY <1>1, <2>1 DEF Noticed
<1>10. Sorted'
  BY <1>1, <1>2, <1>7 DEF Sorted
<1>11. QED
  BY <1>6, <1>7, <1>8, <1>9, <1>10 DEF EnumInv

(* Nothing was found, and nothing is missed. *)
LEMMA NoContextStep == EnumInv /\ NoContext => EnumInv'
<1> SUFFICES ASSUME EnumInv, NoContext
             PROVE  EnumInv'
  OBVIOUS
<1>1. /\ pc = "idle" /\ pc' = "walk" /\ d' = NULL /\ devices' = <<>> /\ order' = <<>>
      /\ present' = present /\ gone' = gone /\ heap' = heap /\ next' = next
      /\ root' = root /\ cur_dev' = cur_dev /\ prev_dev' = prev_dev
  BY DEF NoContext, list
<1>2. TypeOK /\ heap = {} /\ root = NULL /\ cur_dev = NULL /\ prev_dev = NULL
  BY <1>1 DEF EnumInv, Empty
<1>3. <<>> \in Seq(Devices) /\ Len(<<>>) = 0 /\ ToSet(<<>>) = {}
  BY DEF ToSet
<1>4. TypeOK'
  BY <1>1, <1>2, <1>3 DEF TypeOK, Locations
<1>5. Done' = 0 /\ Numbered'
  BY <1>1, <1>3 DEF Done, Numbered
<1>6. InOrder' /\ Behind' /\ Cursor' /\ Empty' /\ Noticed'
  BY <1>1, <1>2, <1>3
     DEF InOrder, Behind, Cursor, Empty, Noticed, FirstBehind, LastOf, Building
<1>7. Sorted'
  BY <1>1, <1>2, <1>5 DEF Sorted
<1>8. QED
  BY <1>4, <1>5, <1>6, <1>7 DEF EnumInv

(* A device that is gone is passed over, and any other one is to be read.  *)
LEMMA LookStep == EnumInv /\ Look => EnumInv'
<1> SUFFICES ASSUME EnumInv, Look
             PROVE  EnumInv'
  OBVIOUS
<1>1. /\ pc = "look" /\ devices # <<>> /\ order' = order /\ present' = present /\ gone' = gone
      /\ heap' = heap /\ root' = root /\ cur_dev' = cur_dev /\ prev_dev' = prev_dev
      /\ next' = next /\ d' = d
  BY DEF Look, list
<1>2. TypeOK /\ Numbered /\ InOrder /\ Behind /\ Cursor /\ Noticed /\ Sorted
  BY DEF EnumInv
<1>3. CASE Device \in present
  <2>1. pc' = "read" /\ devices' = devices
    BY <1>3 DEF Look
  <2>2. TypeOK' /\ Done' = Done /\ Numbered' /\ Cursor' /\ Empty' /\ Noticed'
    BY <1>1, <1>2, <2>1 DEF TypeOK, Locations, Done, Numbered, Cursor, Empty, Noticed, Building
  <2>3. InOrder' /\ Behind'
    BY <1>1, <1>2, <2>1, <2>2, SameList DEF InOrder, Behind
  <2>4. Sorted'
    BY <1>1, <1>2, <2>1, <2>2 DEF Sorted, Building
  <2>5. QED
    BY <2>2, <2>3, <2>4 DEF EnumInv
<1>4. CASE Device \notin present
  <2>1. Advance /\ pc' = "look"
    BY <1>4 DEF Look, Advance
  <2>2. Numbered' /\ Done' = Done + 1 /\ devices' \in Seq(Devices)
    BY <1>1, <1>2, <2>1, AdvancePlace
  <2>3. TypeOK' /\ Cursor' /\ Empty' /\ Noticed'
    BY <1>1, <1>2, <2>1, <2>2 DEF TypeOK, Locations, Cursor, Empty, Noticed, Building
  <2>4. InOrder'
    BY <1>1, <1>2, <2>1, SameList DEF InOrder
  <2>5. Behind'
    <3>1. \A n \in heap : At(n) \in Nat /\ At(n) <= Done
      BY <1>1, <1>2, Places DEF Behind, InOrder
    <3>2. \A n \in heap' : At(n)' <= Done'
      BY <1>1, <1>2, <2>2, <3>1, SameList, Places
    <3>3. QED
      BY <2>1, <3>2 DEF Behind
  <2>6. Sorted'
    <3>1. Device = order[Done + 1] /\ Device \in gone
      BY <1>1, <1>2, <1>4, DevicePlace DEF Noticed
    <3>2. \A k \in 1 .. Done + 1 : k \in 1 .. Done \/ k = Done + 1
      BY <1>1, <1>2, Places
    <3>3. \A k \in 1 .. Done + 1 :
            order[k] \in heap \cup gone \/ KindOf[order[k]] \in {"orphan", "other"}
      BY <1>1, <1>2, <3>1, <3>2 DEF Sorted, Building
    <3>4. QED
      BY <1>1, <1>2, <2>1, <2>2, <3>3 DEF Sorted
  <2>7. QED
    BY <2>2, <2>3, <2>4, <2>5, <2>6 DEF EnumInv
<1>5. QED
  BY <1>3, <1>4

(* A record is put behind the last. *)
LEMMA Linking ==
  ASSUME TypeOK, Numbered, InOrder, Behind, pc = "read", order' = order,
         heap' = heap \cup {Device}, Linked(Device), cur_dev' = Device, prev_dev' = cur_dev,
         NEW new, new = Device, NEW last, last = cur_dev
  PROVE  /\ heap' \subseteq ToSet(order')
         /\ FirstBehind(0, root)'
         /\ \A n \in heap' : FirstBehind(At(n), next[n])'
         /\ LastOf(heap, cur_dev)'
         /\ heap' \ {new} = heap /\ LastOf(heap, cur_dev)
         /\ next' \in [Devices -> Devices \cup {NULL}] /\ root' \in heap'
         /\ At(new)' = Done + 1
<1>1. devices # <<>> /\ new \in Devices /\ new \in ToSet(order) /\ At(new) = Done + 1
  BY DevicePlace DEF Numbered
<1>2. \A n \in heap : At(n) \in Nat /\ At(n) <= Done /\ n \in Devices /\ n \in ToSet(order)
  BY Places DEF InOrder, Behind, TypeOK
<1>3. Done \in Nat /\ new \notin heap
  BY <1>1, <1>2, Places
<1>4. \A n : At(n)' = At(n)
  BY SameOrder
<1>5. heap' \subseteq ToSet(order') /\ heap' \ {new} = heap /\ LastOf(heap, cur_dev)
  BY <1>1, <1>2, <1>3 DEF InOrder
<1>6. LastOf(heap, cur_dev)'
  BY <1>1, <1>2, <1>3, <1>4 DEF LastOf
<1>7. CASE cur_dev = NULL
  <2>1. heap = {}
    BY <1>5, <1>7, HidAssumption DEF LastOf, TypeOK
  <2>2. next' = [next EXCEPT ![new] = NULL] /\ root' = new /\ next'[new] = NULL
    BY <1>1, <1>7 DEF Linked, TypeOK
  <2>3. FirstBehind(0, root)' /\ \A n \in heap' : FirstBehind(At(n), next[n])'
    BY <1>1, <1>3, <1>4, <2>1, <2>2 DEF FirstBehind
  <2>4. QED
    BY <1>1, <1>4, <1>5, <1>6, <2>2, <2>3 DEF TypeOK
<1>8. CASE cur_dev # NULL
  <2>1. cur_dev \in heap /\ cur_dev \in Devices /\ cur_dev # new
        /\ \A n \in heap : At(n) <= At(cur_dev)
    BY <1>2, <1>3, <1>5, <1>8 DEF LastOf
  <2>2. /\ next' = [next EXCEPT ![cur_dev] = new, ![new] = NULL] /\ root' = root
        /\ next'[cur_dev] = new /\ next'[new] = NULL
        /\ \A n \in heap : n # cur_dev => next'[n] = next[n]
    BY <1>1, <1>2, <1>3, <1>8, <2>1 DEF Linked, TypeOK
  <2>3. \A n \in heap : At(n) >= 1
    BY <1>2, Places
  <2>4. root \in heap /\ FirstBehind(0, root)'
    <3>1. FirstBehind(0, root)
      BY DEF InOrder
    <3>2. root \in heap /\ At(root) > 0 /\ \A n \in heap : At(n) > 0 => At(root) <= At(n)
      BY <1>2, <2>1, <2>3, <3>1 DEF FirstBehind
    <3>3. QED
      BY <1>1, <1>2, <1>3, <1>4, <2>2, <3>2 DEF FirstBehind
  <2>5. FirstBehind(At(last), new)'
    BY <1>1, <1>2, <1>3, <1>4, <2>1 DEF FirstBehind
  <2>6. FirstBehind(At(new), NULL)'
    BY <1>1, <1>2, <1>3, <1>4 DEF FirstBehind
  <2>7. ASSUME NEW n \in heap, n # cur_dev
        PROVE  FirstBehind(At(n), next[n])'
    <3>1. At(n) < At(cur_dev)
      BY <1>2, <2>1, <2>7, Places
    <3>2. FirstBehind(At(n), next[n])
      BY DEF InOrder
    <3>3. /\ next[n] \in heap /\ At(next[n]) > At(n)
          /\ \A m \in heap : At(m) > At(n) => At(next[n]) <= At(m)
      BY <1>2, <2>1, <3>1, <3>2 DEF FirstBehind
    <3>4. next'[n] = next[n]
      BY <2>2, <2>7
    <3>5. QED
      BY <1>1, <1>2, <1>3, <1>4, <3>3, <3>4 DEF FirstBehind
  <2>8. \A n \in heap' : FirstBehind(At(n), next[n])'
    <3>1. SUFFICES ASSUME NEW n \in heap'
                   PROVE  FirstBehind(At(n), next[n])'
      OBVIOUS
    <3>2. n = new \/ n = last \/ (n \in heap /\ n # cur_dev)
      OBVIOUS
    <3>3. CASE n = new
      <4>1. next'[n] = NULL /\ At(n)' = At(new)'
        BY <2>2, <3>3
      <4>2. QED
        BY <2>6, <4>1 DEF FirstBehind
    <3>4. CASE n = last
      <4>1. next'[n] = new /\ At(n)' = At(last)'
        BY <2>2, <3>4
      <4>2. QED
        BY <2>5, <4>1 DEF FirstBehind
    <3>5. QED
      BY <2>7, <3>2, <3>3, <3>4
  <2>9. QED
    BY <1>1, <1>4, <1>5, <1>6, <2>1, <2>2, <2>4, <2>8 DEF TypeOK
<1>9. QED
  BY <1>7, <1>8

(* A device is done with, and has its record or needs none. *)
LEMMA AdvanceSorted ==
  ASSUME TypeOK, Numbered, Sorted, pc \in Building, devices # <<>>, order' = order,
         Advance, gone' = gone, heap \ {Device} \subseteq heap', heap' \subseteq heap \cup {Device},
         Device \in heap' => KindOf[Device] \in {"bluetooth", "usb"},
         Device \in heap' \cup gone \/ KindOf[Device] \in {"orphan", "other"}
  PROVE  Sorted'
<1>1. pc' = "look" /\ Done' = Done + 1
  BY AdvancePlace DEF Advance, Building
<1>2. \A n \in heap' : KindOf[n] \in {"bluetooth", "usb"}
  BY DEF Sorted
<1>3. ASSUME NEW k \in 1 .. Done + 1
      PROVE  order[k] \in heap' \cup gone \/ KindOf[order[k]] \in {"orphan", "other"}
  <2>1. Done \in Nat /\ Device = order[Done + 1]
    BY Places, DevicePlace DEF Building
  <2>2. CASE k = Done + 1
    BY <2>1, <2>2
  <2>3. CASE k # Done + 1
    <3>1. k \in 1 .. Done
      BY <2>1, <2>3
    <3>2. k \in 1 .. Len(order) /\ Done + 1 \in 1 .. Len(order)
      BY <2>1, <3>1, DevicePlace, Places DEF Building
    <3>3. order[k] # Device
      BY <2>1, <2>3, <3>2 DEF Numbered, Building
    <3>4. order[k] \in heap \cup gone \/ KindOf[order[k]] \in {"orphan", "other"}
      BY <3>1 DEF Sorted
    <3>5. QED
      BY <3>3, <3>4
  <2>4. QED
    BY <2>2, <2>3
<1>4. QED
  BY <1>1, <1>2, <1>3 DEF Sorted

LEMMA ReadStep == EnumInv /\ Read => EnumInv'
<1> SUFFICES ASSUME EnumInv, Read
             PROVE  EnumInv'
  OBVIOUS
<1>1. /\ pc = "read" /\ order' = order /\ present' = present /\ gone' = gone /\ d' = d
      /\ Device \in present
  BY DEF Read
<1>2. TypeOK /\ Numbered /\ InOrder /\ Behind /\ Cursor /\ Noticed /\ Sorted /\ devices # <<>>
  BY <1>1 DEF EnumInv, Numbered
<1>3. PICK new \in Devices : new = Device
  BY <1>1, <1>2, DevicePlace
<1>4. CASE ~ Matches(Device)
  <2>1. Advance /\ pc' = "look" /\ heap' = heap /\ root' = root /\ cur_dev' = cur_dev
        /\ prev_dev' = prev_dev /\ next' = next
    BY <1>4 DEF Read, Advance, list
  <2>2. Numbered' /\ Done' = Done + 1 /\ devices' \in Seq(Devices)
    BY <1>1, <1>2, <2>1, AdvancePlace
  <2>3. TypeOK' /\ Cursor' /\ Empty' /\ Noticed'
    BY <1>1, <1>2, <2>1, <2>2 DEF TypeOK, Locations, Cursor, Empty, Noticed, Building
  <2>4. InOrder'
    BY <1>1, <1>2, <2>1, SameList DEF InOrder
  <2>5. \A n \in heap : At(n) \in Nat /\ At(n) <= Done
    BY <1>1, <1>2, Places DEF Behind, InOrder
  <2>6. Behind'
    BY <1>1, <1>2, <2>1, <2>2, <2>5, SameList, Places DEF Behind
  <2>7. Device \notin heap
    BY <1>1, <1>2, <2>5, DevicePlace, Places
  <2>8. Sorted'
    BY <1>1, <1>2, <1>4, <2>1, <2>7, AdvanceSorted DEF Matches, Building
  <2>9. QED
    BY <2>2, <2>3, <2>4, <2>6, <2>8 DEF EnumInv
<1>5. CASE Matches(Device)
  <2>1. heap' = heap \cup {Device} /\ Linked(Device) /\ prev_dev' = cur_dev /\ cur_dev' = Device
    BY <1>5 DEF Read
  <2>2. /\ heap' \subseteq ToSet(order')
        /\ FirstBehind(0, root)'
        /\ \A n \in heap' : FirstBehind(At(n), next[n])'
        /\ LastOf(heap, cur_dev)'
        /\ heap' \ {new} = heap /\ LastOf(heap, cur_dev)
        /\ next' \in [Devices -> Devices \cup {NULL}] /\ root' \in heap'
        /\ At(new)' = Done + 1
    BY <1>1, <1>2, <1>3, <2>1, Linking
  <2>3. cur_dev \in heap \cup {NULL} /\ heap \subseteq Devices /\ d = NULL
    BY <1>1, <1>2 DEF TypeOK, Cursor, Building
  <2>4. CASE KindOf[Device] \in {"usb", "orphan"}
    <3>1. pc' = "parent" /\ devices' = devices /\ Done' = Done /\ Device' = Device
      BY <1>5, <2>4 DEF Read, Done, Device
    <3>2. TypeOK'
      BY <1>1, <1>2, <1>3, <2>1, <2>2, <2>3, <3>1 DEF TypeOK, Locations
    <3>3. Numbered' /\ Cursor' /\ Empty' /\ Noticed'
      BY <1>1, <1>2, <2>3, <3>1 DEF Numbered, Cursor, Empty, Noticed, Building
    <3>4. InOrder'
      BY <2>2 DEF InOrder
    <3>5. Behind'
      <4>1. (heap \ {Device})' = heap /\ prev_dev' = cur_dev
        BY <1>3, <2>1, <2>2, <3>1
      <4>2. \A n : At(n)' = At(n)
        BY <1>1, SameOrder
      <4>3. LastOf(heap \ {Device}, prev_dev)'
        BY <2>2, <4>1, <4>2 DEF LastOf
      <4>4. QED
        BY <2>1, <3>1, <4>3 DEF Behind
    <3>6. Sorted'
      BY <1>1, <1>2, <2>1, <2>4, <3>1 DEF Sorted, Building
    <3>7. QED
      BY <3>2, <3>3, <3>4, <3>5, <3>6 DEF EnumInv
  <2>5. CASE KindOf[Device] \notin {"usb", "orphan"}
    <3>1. Advance /\ pc' = "look"
      BY <1>5, <2>5 DEF Read, Advance
    <3>2. Numbered' /\ Done' = Done + 1 /\ devices' \in Seq(Devices)
      BY <1>1, <1>2, <3>1, AdvancePlace
    <3>3. TypeOK'
      BY <1>1, <1>2, <1>3, <2>1, <2>2, <2>3, <3>1, <3>2 DEF TypeOK, Locations
    <3>4. Cursor' /\ Empty' /\ Noticed'
      BY <1>1, <1>2, <2>3, <3>1 DEF Cursor, Empty, Noticed, Building
    <3>5. InOrder'
      BY <2>2 DEF InOrder
    <3>6. Behind'
      <4>1. \A n : At(n)' = At(n)
        BY <1>1, SameOrder
      <4>2. \A n \in heap : At(n) \in Nat /\ At(n) <= Done
        BY <1>1, <1>2, Places DEF Behind, InOrder
      <4>3. \A n \in heap' : n \in heap \/ n = new
        BY <2>2
      <4>4. \A n \in heap' : At(n)' <= Done + 1
        BY <1>1, <1>2, <2>2, <4>1, <4>2, <4>3, Places
      <4>5. QED
        BY <3>1, <3>2, <4>4 DEF Behind
    <3>7. Sorted'
      <4>1. KindOf[Device] = "bluetooth"
        BY <1>3, <1>5, <2>5, HidAssumption DEF Matches, Kinds
      <4>2. QED
        BY <1>1, <1>2, <2>1, <3>1, <4>1, AdvanceSorted DEF Building
    <3>8. QED
      BY <3>2, <3>3, <3>4, <3>5, <3>6, <3>7 DEF EnumInv
  <2>6. QED
    BY <2>4, <2>5
<1>6. QED
  BY <1>4, <1>5

(* The last record is taken off again. *)
LEMMA Unlinking ==
  ASSUME TypeOK, Numbered, InOrder, Behind, pc = "parent", order' = order,
         NEW old, old = Device, NEW last, last = prev_dev,
         heap' = heap \ {Device}, Unlinked
  PROVE  /\ heap' \subseteq ToSet(order')
         /\ FirstBehind(0, root)'
         /\ \A n \in heap' : FirstBehind(At(n), next[n])'
         /\ LastOf(heap, cur_dev)'
         /\ next' \in [Devices -> Devices \cup {NULL}]
         /\ root' \in heap' \cup {NULL} /\ cur_dev' = prev_dev /\ prev_dev \in heap' \cup {NULL}
<1>1. cur_dev = old /\ LastOf(heap \ {old}, last) /\ LastOf(heap, old)
  BY DEF Behind, InOrder
<1>2. devices # <<>> /\ old \in Devices /\ heap \subseteq Devices /\ NULL \notin Devices
  BY DevicePlace, HidAssumption DEF Numbered, TypeOK
<1>3. old \in heap /\ \A n \in heap : At(n) <= At(old)
  BY <1>1, <1>2 DEF LastOf
<1>4. \A n \in heap : At(n) \in Nat /\ At(n) >= 1 /\ order[At(n)] = n
  BY Places DEF InOrder
<1>5. \A n : At(n)' = At(n)
  BY SameOrder
<1>6. heap' = heap \ {old} /\ heap' \subseteq ToSet(order')
  BY DEF InOrder
<1>7. \A n \in heap : n # old => At(n) < At(old)
  BY <1>3, <1>4
<1>8. CASE last = NULL
  <2>1. heap' = {} /\ cur_dev' = NULL /\ root' = NULL /\ next' = next
    BY <1>1, <1>2, <1>6, <1>8 DEF Unlinked, LastOf
  <2>2. QED
    BY <1>6, <1>8, <2>1 DEF FirstBehind, LastOf, TypeOK
<1>9. CASE last # NULL
  <2>1. last \in heap' /\ last \in heap /\ last # old /\ \A n \in heap' : At(n) <= At(last)
    BY <1>1, <1>6, <1>9 DEF LastOf
  <2>2. /\ next' = [next EXCEPT ![last] = NULL] /\ cur_dev' = last /\ root' = root
        /\ next'[last] = NULL /\ \A n \in heap : n # last => next'[n] = next[n]
    BY <1>2, <1>9, <2>1 DEF Unlinked, TypeOK
  <2>3. LastOf(heap, cur_dev)'
    BY <1>5, <2>1, <2>2 DEF LastOf
  <2>4. root \in heap' /\ FirstBehind(0, root)'
    <3>1. FirstBehind(0, root)
      BY DEF InOrder
    <3>2. root \in heap /\ \A n \in heap : At(root) <= At(n)
      BY <1>4, <2>1, <3>1 DEF FirstBehind
    <3>3. root # old
      BY <1>4, <1>7, <2>1, <3>2
    <3>4. QED
      BY <1>4, <1>5, <1>6, <2>2, <3>2, <3>3 DEF FirstBehind
  <2>5. ASSUME NEW n \in heap', n # last
        PROVE  FirstBehind(At(n), next[n])'
    <3>1. n \in heap /\ At(n) < At(last)
      BY <1>4, <1>6, <2>1, <2>5
    <3>2. FirstBehind(At(n), next[n])
      BY <3>1 DEF InOrder
    <3>3. /\ next[n] \in heap /\ At(next[n]) > At(n)
          /\ \A m \in heap : At(m) > At(n) => At(next[n]) <= At(m)
      BY <1>4, <2>1, <3>1, <3>2 DEF FirstBehind
    <3>4. next[n] # old
      BY <1>4, <1>7, <2>1, <3>1, <3>3
    <3>5. next'[n] = next[n]
      BY <2>2, <2>5, <3>1
    <3>6. QED
      BY <1>4, <1>5, <1>6, <3>3, <3>4, <3>5 DEF FirstBehind
  <2>6. FirstBehind(At(last), NULL)'
    BY <1>5, <2>1 DEF FirstBehind
  <2>7. ASSUME NEW n \in heap'
        PROVE  FirstBehind(At(n), next[n])'
    <3>1. CASE n = last
      <4>1. next'[n] = NULL /\ At(n)' = At(last)'
        BY <2>2, <3>1
      <4>2. QED
        BY <2>6, <4>1 DEF FirstBehind
    <3>2. QED
      BY <2>5, <3>1
  <2>8. QED
    BY <1>6, <2>1, <2>2, <2>3, <2>4, <2>7 DEF TypeOK
<1>10. QED
  BY <1>8, <1>9

LEMMA ParentStep == EnumInv /\ Parent => EnumInv'
<1> SUFFICES ASSUME EnumInv, Parent
             PROVE  EnumInv'
  OBVIOUS
<1>1. /\ pc = "parent" /\ order' = order /\ present' = present /\ gone' = gone /\ d' = d
      /\ Advance /\ pc' = "look"
  BY DEF Parent, Advance
<1>2. TypeOK /\ Numbered /\ InOrder /\ Behind /\ Cursor /\ Noticed /\ Sorted /\ devices # <<>>
  BY <1>1 DEF EnumInv, Numbered
<1>3. PICK old \in Devices : old = Device
  BY <1>1, <1>2, DevicePlace
<1>4. Numbered' /\ Done' = Done + 1 /\ devices' \in Seq(Devices)
  BY <1>1, <1>2, AdvancePlace
<1>5. /\ cur_dev = old /\ old \in heap /\ heap \subseteq Devices /\ d = NULL
      /\ At(old) = Done + 1 /\ Done \in Nat
      /\ \A n \in heap : At(n) \in Nat /\ At(n) <= At(old)
  <2>1. cur_dev = old /\ LastOf(heap, old) /\ heap \subseteq Devices /\ d = NULL
    BY <1>1, <1>2, <1>3 DEF Behind, InOrder, TypeOK, Cursor, Building
  <2>2. old \in heap /\ \A n \in heap : At(n) <= At(old)
    BY <1>3, <2>1, HidAssumption DEF LastOf
  <2>3. QED
    BY <1>1, <1>2, <1>3, <2>1, <2>2, Places, DevicePlace DEF InOrder
<1>6. \A n : At(n)' = At(n)
  BY <1>1, SameOrder
<1>7. ASSUME heap' \subseteq heap
      PROVE  Cursor' /\ Empty' /\ Noticed' /\ Behind'
  <2>1. Cursor' /\ Empty' /\ Noticed'
    BY <1>1, <1>2, <1>5 DEF Cursor, Empty, Noticed, Building
  <2>2. Behind'
    BY <1>1, <1>4, <1>5, <1>6, <1>7 DEF Behind
  <2>3. QED
    BY <2>1, <2>2
<1>8. CASE KindOf[Device] = "usb" /\ UNCHANGED list
  <2>1. heap' = heap /\ root' = root /\ cur_dev' = cur_dev /\ prev_dev' = prev_dev /\ next' = next
    BY <1>8 DEF list
  <2>2. TypeOK'
    BY <1>1, <1>2, <1>4, <2>1 DEF TypeOK, Locations
  <2>3. InOrder'
    BY <1>1, <1>2, <2>1, SameList DEF InOrder
  <2>4. Sorted'
    BY <1>1, <1>2, <1>3, <1>5, <1>8, <2>1, AdvanceSorted DEF Building
  <2>5. QED
    BY <1>4, <1>7, <2>1, <2>2, <2>3, <2>4 DEF EnumInv
<1>9. CASE /\ KindOf[Device] = "orphan" \/ Device \notin present
           /\ heap' = heap \ {Device} /\ Unlinked /\ UNCHANGED prev_dev
  <2>1. /\ heap' \subseteq ToSet(order')
        /\ FirstBehind(0, root)'
        /\ \A n \in heap' : FirstBehind(At(n), next[n])'
        /\ LastOf(heap, cur_dev)'
        /\ next' \in [Devices -> Devices \cup {NULL}]
        /\ root' \in heap' \cup {NULL} /\ cur_dev' = prev_dev /\ prev_dev \in heap' \cup {NULL}
    BY <1>1, <1>2, <1>9, Unlinking
  <2>2. TypeOK'
    BY <1>1, <1>2, <1>4, <1>5, <1>9, <2>1 DEF TypeOK, Locations
  <2>3. InOrder'
    BY <2>1 DEF InOrder
  <2>4. Device \in gone \/ KindOf[Device] = "orphan"
    BY <1>1, <1>2, <1>9, DevicePlace DEF Noticed
  <2>5. Sorted'
    BY <1>1, <1>2, <1>9, <2>4, AdvanceSorted DEF Building
  <2>6. QED
    BY <1>4, <1>7, <1>9, <2>2, <2>3, <2>5 DEF EnumInv
<1>10. QED
  BY <1>8, <1>9 DEF Parent

-----------------------------------------------------------------------------
(* The loops over the list, and the kernel *)

LEMMA EnumeratedStep == EnumInv /\ Enumerated => EnumInv'
<1> SUFFICES ASSUME EnumInv, Enumerated
             PROVE  EnumInv'
  OBVIOUS
<1>1. /\ pc = "look" /\ devices = <<>> /\ pc' = "walk" /\ d' = root
      /\ UNCHANGED <<present, devices, order, gone, heap, root, cur_dev, prev_dev, next>>
  BY DEF Enumerated, list
<1>2. TypeOK /\ Numbered /\ InOrder /\ Noticed /\ Sorted
  BY DEF EnumInv
<1>3. TypeOK' /\ Numbered' /\ Behind' /\ Cursor' /\ Empty' /\ Noticed' /\ Done' = Done
  BY <1>1, <1>2 DEF TypeOK, Locations, Numbered, Behind, Cursor, Empty, Noticed, Done, Building
<1>4. InOrder'
  BY <1>1, <1>2, SameList DEF InOrder
<1>5. Sorted'
  BY <1>1, <1>2, <1>3 DEF Sorted, Building
<1>6. QED
  BY <1>3, <1>4, <1>5 DEF EnumInv

LEMMA WalkStep == EnumInv /\ Walk => EnumInv'
<1> SUFFICES ASSUME EnumInv, Walk
             PROVE  EnumInv'
  OBVIOUS
<1>1. /\ pc = "walk"
      /\ UNCHANGED <<present, devices, order, gone, heap, root, cur_dev, prev_dev, next>>
  BY DEF Walk, list
<1>2. TypeOK /\ Numbered /\ InOrder /\ Noticed /\ Sorted
  BY DEF EnumInv
<1>3. Done' = Done /\ Noticed' /\ (pc' \in {"walk", "free"} => Numbered' /\ Behind' /\ Empty')
  BY <1>1, <1>2 DEF Done, Noticed, Numbered, Behind, Empty
<1>4. CASE d # NULL
  <2>1. pc' = pc /\ d' = next[d] /\ d \in heap /\ heap \subseteq Devices
    BY <1>1, <1>2, <1>4 DEF Walk, TypeOK
  <2>2. next[d] \in heap \cup {NULL}
    BY <1>1, <1>2, <2>1 DEF InOrder, FirstBehind
  <2>3. TypeOK'
    BY <1>1, <1>2, <2>1, <2>2 DEF TypeOK
  <2>4. InOrder'
    BY <1>1, <1>2, <2>1, SameList DEF InOrder
  <2>5. Cursor' /\ Sorted'
    BY <1>1, <1>2, <1>3, <2>1 DEF Cursor, Sorted, Building
  <2>6. QED
    BY <1>1, <1>3, <2>1, <2>3, <2>4, <2>5 DEF EnumInv
<1>5. CASE d = NULL
  <2>1. pc' = "free" /\ d' = root
    BY <1>5 DEF Walk
  <2>2. TypeOK' /\ InOrder' /\ Sorted'
    BY <1>1, <1>2, <1>3, <2>1 DEF TypeOK, Locations, InOrder, Sorted, Building
  <2>3. Cursor'
    <3>1. /\ heap' \subseteq ToSet(order') /\ FirstBehind(0, root)'
          /\ \A n \in heap' : FirstBehind(At(n), next[n])'
      BY <1>1, <1>2, SameList DEF InOrder
    <3>2. FirstBehind(0, d)'
      BY <1>1, <2>1, <3>1 DEF FirstBehind
    <3>3. QED
      BY <2>1, <3>1, <3>2 DEF Cursor, Building
  <2>4. QED
    BY <1>3, <2>1, <2>2, <2>3 DEF EnumInv
<1>6. QED
  BY <1>4, <1>5

(* The record that is freed is the first, and the next of it the first of  *)
(* the others.                                                             *)
LEMMA FreeStep == EnumInv /\ Free => EnumInv'
<1> SUFFICES ASSUME EnumInv, Free
             PROVE  EnumInv'
  OBVIOUS
<1>1. /\ pc = "free" /\ d # NULL /\ heap' = heap \ {d} /\ d' = next[d]
      /\ UNCHANGED <<present, devices, pc, order, gone, root, cur_dev, prev_dev, next>>
  BY DEF Free
<1>2. TypeOK /\ Numbered /\ Cursor /\ Noticed /\ Sorted
  BY DEF EnumInv
<1>3. PICK first : first = d
  OBVIOUS
<1>4. \A n : At(n)' = At(n)
  BY <1>1, SameOrder
<1>5. \A n \in heap : At(n) \in Nat /\ order[At(n)] = n
  BY <1>1, <1>2, Places DEF Cursor
<1>6. first \in heap /\ heap \subseteq Devices /\ \A n \in heap : At(first) <= At(n)
  <2>1. FirstBehind(0, d)
    BY <1>1, <1>2 DEF Cursor
  <2>2. first \in heap /\ \A n \in heap : At(n) > 0 => At(first) <= At(n)
    BY <1>1, <1>3, <2>1 DEF FirstBehind
  <2>3. \A n \in heap : At(n) > 0
    BY <1>1, <1>2, Places DEF Cursor
  <2>4. QED
    BY <1>2, <2>2, <2>3 DEF TypeOK
<1>7. \A n \in heap' : n \in heap /\ At(n) > At(first)
  BY <1>1, <1>3, <1>5, <1>6
<1>8. FirstBehind(At(first), next[first]) /\ next[first] \in heap \cup {NULL}
  BY <1>1, <1>2, <1>6 DEF Cursor, FirstBehind
<1>9. FirstBehind(0, d)'
  <2>1. d' = next[first] /\ heap' = heap \ {first}
    BY <1>1, <1>3
  <2>2. CASE next[first] = NULL /\ \A n \in heap : At(n) <= At(first)
    <3>1. heap' = {}
      BY <1>5, <1>6, <1>7, <2>2
    <3>2. QED
      BY <2>1, <2>2, <3>1 DEF FirstBehind
  <2>3. CASE /\ next[first] \in heap /\ At(next[first]) > At(first)
             /\ \A n \in heap : At(n) > At(first) => At(next[first]) <= At(n)
    <3>1. next[first] \in heap'
      BY <1>5, <1>6, <2>1, <2>3
    <3>2. \A n \in heap' : At(next[first]) <= At(n)
      BY <1>7, <2>3
    <3>3. At(next[first]) > 0
      BY <1>5, <1>6, <2>3
    <3>4. QED
      BY <1>4, <2>1, <3>1, <3>2, <3>3 DEF FirstBehind
  <2>4. QED
    BY <1>8, <2>2, <2>3 DEF FirstBehind
<1>10. ASSUME NEW n \in heap'
       PROVE  FirstBehind(At(n), next[n])'
  <2>1. n \in heap /\ At(n) > At(first) /\ FirstBehind(At(n), next[n])
    BY <1>1, <1>2, <1>7 DEF Cursor
  <2>2. next[n] # first
    BY <1>5, <1>6, <2>1, HidAssumption DEF FirstBehind
  <2>3. QED
    BY <1>1, <1>3, <1>4, <2>1, <2>2 DEF FirstBehind
<1>11. TypeOK'
  BY <1>1, <1>2, <1>3, <1>6, <1>8 DEF TypeOK
<1>12. Numbered' /\ InOrder' /\ Behind' /\ Empty' /\ Noticed' /\ Sorted'
  BY <1>1, <1>2 DEF Numbered, InOrder, Behind, Empty, Noticed, Sorted, Done, Building
<1>13. Cursor'
  BY <1>1, <1>2, <1>9, <1>10 DEF Cursor, Building
<1>14. QED
  BY <1>11, <1>12, <1>13 DEF EnumInv

LEMMA FreedStep == EnumInv /\ Freed => EnumInv'
<1> SUFFICES ASSUME EnumInv, Freed
             PROVE  EnumInv'
  OBVIOUS
<1>1. /\ pc = "free" /\ d = NULL /\ pc' = "idle"
      /\ root' = NULL /\ cur_dev' = NULL /\ prev_dev' = NULL
      /\ next' = [n \in Devices |-> NULL] /\ order' = <<>> /\ gone' = {}
      /\ UNCHANGED <<present, devices, heap, d>>
  BY DEF Freed
<1>2. TypeOK /\ Numbered /\ Cursor
  BY DEF EnumInv
<1>3. heap' = {}
  <2>1. FirstBehind(0, NULL) /\ \A n \in heap : At(n) >= 1
    BY <1>1, <1>2, Places DEF Cursor
  <2>2. NULL \notin heap
    BY <1>2, HidAssumption DEF TypeOK
  <2>3. QED
    BY <1>1, <1>2, <2>1, <2>2, Places DEF FirstBehind, Cursor
<1>4. TypeOK'
  BY <1>1, <1>2, <1>3 DEF TypeOK, Locations
<1>5. Numbered' /\ InOrder' /\ Behind' /\ Cursor' /\ Empty' /\ Noticed' /\ Sorted'
  BY <1>1, <1>3 DEF Numbered, InOrder, Behind, Cursor, Empty, Noticed, Sorted, Building
<1>6. QED
  BY <1>4, <1>5 DEF EnumInv

(* A device comes or goes. *)
LEMMA KernelStep ==
  ASSUME EnumInv, UNCHANGED <<devices, pc, list, d, order>>,
         present' \subseteq Devices, gone' \subseteq Devices, gone \subseteq gone',
         pc # "idle" => present \cup gone \subseteq present' \cup gone'
  PROVE  EnumInv'
<1>1. UNCHANGED <<heap, root, cur_dev, prev_dev, next>> /\ Done' = Done /\ Device' = Device
  BY DEF list, Done, Device
<1>2. TypeOK' /\ Numbered' /\ Empty' /\ Noticed' /\ Sorted'
  BY <1>1 DEF EnumInv, TypeOK, Numbered, Empty, Noticed, Sorted
<1>3. InOrder'
  BY <1>1, SameList DEF EnumInv, InOrder
<1>4. Behind' /\ Cursor'
  <2>1. LastOf(heap \ {Device}, prev_dev)' <=> LastOf(heap \ {Device}, prev_dev)
    BY <1>1, SameList DEF LastOf
  <2>2. \A n : At(n)' = At(n)
    BY SameOrder
  <2>3. FirstBehind(0, d)' <=> FirstBehind(0, d)
    BY <1>1, <2>2 DEF FirstBehind
  <2>4. \A n \in heap : FirstBehind(At(n), next[n])' <=> FirstBehind(At(n), next[n])
    BY <1>1, <2>2 DEF FirstBehind
  <2>5. Behind'
    BY <1>1, <2>1, <2>2 DEF EnumInv, Behind
  <2>6. Cursor'
    BY <1>1, <2>3, <2>4 DEF EnumInv, Cursor
  <2>7. QED
    BY <2>5, <2>6
<1>5. QED
  BY <1>2, <1>3, <1>4 DEF EnumInv

(* rubusd ends where it reads from a device that has gone. *)
LEMMA ReadFailsStep == EnumInv /\ ReadFails => EnumInv'
<1> SUFFICES ASSUME EnumInv, ReadFails
             PROVE  EnumInv'
  OBVIOUS
<1>1. /\ pc = "read" /\ pc' = "crash"
      /\ UNCHANGED <<present, devices, order, gone, d, heap, root, cur_dev, prev_dev, next>>
  BY DEF ReadFails, list
<1>2. QED
  BY <1>1 DEF EnumInv, TypeOK, Locations, Numbered, InOrder, Behind, Cursor, Empty, Noticed,
              Sorted, Done, Building

LEMMA EnumStep == EnumInv /\ [Next]_vars => EnumInv'
<1> SUFFICES ASSUME EnumInv, [Next]_vars
             PROVE  EnumInv'
  OBVIOUS
<1>1. TypeOK
  BY DEF EnumInv
<1>2. ASSUME NEW n \in Devices, Unplug(n)
      PROVE  EnumInv'
  BY <1>1, <1>2, KernelStep DEF Unplug, TypeOK
<1>3. ASSUME NEW n \in Devices, Plug(n)
      PROVE  EnumInv'
  BY <1>1, <1>3, KernelStep DEF Plug, TypeOK
<1>4. CASE UNCHANGED vars
  BY <1>1, <1>4, KernelStep DEF vars, TypeOK
<1>5. QED
  BY <1>2, <1>3, <1>4, EnumerateStep, LookStep, ReadStep, ReadFailsStep, ParentStep,
     NoContextStep, EnumeratedStep, WalkStep, FreeStep, FreedStep DEF Next

LEMMA EnumInit == Init => EnumInv
<1> SUFFICES ASSUME Init
             PROVE  EnumInv
  OBVIOUS
<1>1. TypeOK
  BY DEF Init, TypeOK, Locations
<1>2. QED
  BY <1>1 DEF Init, EnumInv, Numbered, InOrder, Behind, Cursor, Empty, Noticed, Sorted, Building

LEMMA EnumInvariant == Spec => []EnumInv
BY EnumInit, EnumStep, PTL DEF Spec

-----------------------------------------------------------------------------
(* Theorems *)

(* No pointer of hid_enumerate leads to a record that was freed, for any   *)
(* devices that come and go.                                               *)
THEOREM EnumerateTypeCorrect == Spec => []TypeOK
<1>1. EnumInv => TypeOK
  BY DEF EnumInv
<1>2. QED
  BY <1>1, EnumInvariant, PTL

(* The list hid_enumerate builds is whole at every step: from root along   *)
(* the next fields all records are reached, in the order of the devices,   *)
(* whichever were taken off again.                                         *)
THEOREM EnumerateInOrder == Spec => []InOrder
<1>1. EnumInv => InOrder
  BY DEF EnumInv
<1>2. QED
  BY <1>1, EnumInvariant, PTL

(* A device that stayed during the scan is in the list, and none is there  *)
(* that hid_enumerate should have taken off.                               *)
THEOREM EnumerateComplete == Spec => []Complete
<1>1. EnumInv => Complete
  <2> SUFFICES ASSUME EnumInv, pc = "walk"
               PROVE  /\ \A n \in heap : KindOf[n] \in {"bluetooth", "usb"}
                      /\ \A n \in ToSet(order) \ gone :
                           KindOf[n] \in {"bluetooth", "usb"} => n \in heap
    BY DEF Complete
  <2>1. \A n \in heap : KindOf[n] \in {"bluetooth", "usb"}
    BY DEF EnumInv, Sorted
  <2>2. Done = Len(order) /\ TypeOK /\ Numbered
    BY Places DEF EnumInv, Numbered, Done
  <2>3. ASSUME NEW n \in ToSet(order) \ gone, KindOf[n] \in {"bluetooth", "usb"}
        PROVE  n \in heap
    <3>1. At(n) \in 1 .. Done /\ order[At(n)] = n
      BY <2>2, Places
    <3>2. QED
      BY <2>3, <3>1 DEF EnumInv, Sorted, Building
  <2>4. QED
    BY <2>1, <2>3
<1>2. QED
  BY <1>1, EnumInvariant, PTL

(* The walk and hid_free_enumeration follow live records only, and leave   *)
(* none behind.                                                            *)
THEOREM EnumerateFreedOnce == Spec => []FreedOnce
<1>1. EnumInv => FreedOnce
  <2> SUFFICES ASSUME EnumInv
               PROVE  FreedOnce
    OBVIOUS
  <2>1. pc = "walk" /\ d # NULL => d \in heap
    BY DEF EnumInv, TypeOK
  <2>2. pc = "free" /\ d # NULL => d \in heap
    BY DEF EnumInv, Cursor, FirstBehind
  <2>3. QED
    BY <2>1, <2>2 DEF EnumInv, Empty, FreedOnce
<1>2. QED
  BY <1>1, EnumInvariant, PTL
=============================================================================

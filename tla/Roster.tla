------------------------------- MODULE Roster --------------------------------
(***************************************************************************)
(* What the device list of rubusd promises, whatever array it is kept in:  *)
(* the connected Joy-Cons stand in the order in which they joined, the     *)
(* k-th is player k, a newcomer goes to the end, and when one leaves the   *)
(* others close the gap without changing order.  No address has two seats  *)
(* and there are never more than MaxConnections.                           *)
(***************************************************************************)
EXTENDS Integers, SequencesExt

CONSTANTS Pads, AddressOf, MaxConnections

VARIABLE roster

Init == roster = <<>>

Join(c) ==
  /\ Len(roster) < MaxConnections
  /\ \A k \in DOMAIN roster : AddressOf[roster[k]] # AddressOf[c]
  /\ roster' = Append(roster, c)

Leave(k) == roster' = RemoveAt(roster, k)

Next ==
  \/ \E c \in Pads : Join(c)
  \/ \E k \in DOMAIN roster : Leave(k)

Spec == Init /\ [][Next]_roster
=============================================================================

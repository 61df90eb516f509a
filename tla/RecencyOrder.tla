--------------------------- MODULE RecencyOrder ---------------------------
(***************************************************************************)
(* What the linked list of lrucache/cache.go stands for: the stored        *)
(* entries from the most to the least recently used one.                   *)
(***************************************************************************)
EXTENDS Sequences, SequencesExt

CONSTANT Entry

VARIABLE order

Init == order = <<>>

(* The entry at place i has been used: it is in front, the others keep     *)
(* their order.                                                            *)
Hit(i) == order' = <<order[i]>> \o RemoveAt(order, i)

(* A new entry is in front of the others. *)
Store(e) ==
  /\ e \notin ToSet(order)
  /\ order' = <<e>> \o order

(* The entry at place i is removed and the others keep their order. *)
Drop(i) == order' = RemoveAt(order, i)

Next == \/ \E i \in DOMAIN order : Hit(i) \/ Drop(i)
        \/ \E e \in Entry : Store(e)

Spec == Init /\ [][Next]_order
=============================================================================

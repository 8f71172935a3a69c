--------------------------- MODULE BoundedQueue ---------------------------
(***************************************************************************)
(* What a queue of the kernel promises: items in order, at most Length.    *)
(***************************************************************************)
EXTENDS Integers, Sequences

CONSTANTS Items, Length

VARIABLE items

PutBack == \E v \in Items : Len(items) < Length /\ items' = Append(items, v)
PutFront == \E v \in Items : Len(items) < Length /\ items' = <<v>> \o items
Get == items # <<>> /\ items' = Tail(items)

Spec == items = <<>> /\ [][PutBack \/ PutFront \/ Get]_items
=============================================================================

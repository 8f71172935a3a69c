---------------------------- MODULE ByteChannel ----------------------------
(***************************************************************************)
(* What a byte buffer between a producer and a consumer promises: bytes    *)
(* come out in the order in which they went in, each at most once, and     *)
(* none is missing but for the losses allowed.  A byte is its number in    *)
(* the order of arrival.                                                   *)
(***************************************************************************)
EXTENDS Integers, Sequences

CONSTANTS
  Capacity,   \* bytes the channel holds at most
  Burst,      \* bytes that arrive at a time at most
  Loss        \* where bytes may get lost: at the "entry" of a full channel,
              \* or anywhere "inside" it

VARIABLES
  inside,     \* the bytes in the channel, oldest first
  arrived,    \* how many have been put in so far
  out         \* the bytes that have come out, in that order

vars == <<inside, arrived, out>>

Init == inside = <<>> /\ arrived = 0 /\ out = <<>>

\* The next n bytes arrive; the first k of them go in.
Enter ==
  \E n \in 1..Burst : \E k \in 0..n :
    /\ k < n => \/ "inside" \in Loss
                \/ "entry" \in Loss /\ Len(inside) + k = Capacity
    /\ Len(inside) + k <= Capacity
    /\ inside' = inside \o [i \in 1..k |-> arrived + i]
    /\ arrived' = arrived + n
    /\ UNCHANGED out

Leave ==
  /\ \E n \in 1..Len(inside) :
       /\ inside' = SubSeq(inside, n + 1, Len(inside))
       /\ out' = out \o SubSeq(inside, 1, n)
  /\ UNCHANGED arrived

Lose ==
  /\ "inside" \in Loss
  /\ \E i \in 1..Len(inside) :
       inside' = SubSeq(inside, 1, i - 1) \o SubSeq(inside, i + 1, Len(inside))
  /\ UNCHANGED <<arrived, out>>

Next == Enter \/ Leave \/ Lose

Spec == Init /\ [][Next]_vars
=============================================================================

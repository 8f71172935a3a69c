----------------------------- MODULE EventList ----------------------------
(***************************************************************************)
(* The event lists of the kernel, as sequences of tasks ordered by a rank  *)
(* that each task is given.                                                *)
(***************************************************************************)
EXTENDS Integers, Sequences

\* vListInsert(): the walk passes every task of the same or a higher rank, and
\* the first of a lower one ends it.
Insert(list, t, rank) ==
  LET Passed(i) == i <= Len(list) /\ \A j \in 1..i : rank[list[j]] >= rank[t]
  IN [i \in 1..(Len(list) + 1) |-> IF Passed(i) THEN list[i]
                                   ELSE IF Passed(i - 1) THEN t ELSE list[i - 1]]

\* uxListRemove() of a task that may be in the list: those behind it move up.
Without(list, t) ==
  LET Gone(i) == \E j \in 1..i : list[j] = t
      n == IF Gone(Len(list)) THEN Len(list) - 1 ELSE Len(list)
  IN [i \in 1..n |-> IF Gone(i) THEN list[i + 1] ELSE list[i]]
=============================================================================

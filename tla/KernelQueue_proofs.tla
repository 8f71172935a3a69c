------------------------- MODULE KernelQueue_proofs -----------------------
(***************************************************************************)
(* No wake-up of a queue is lost, whatever interrupts do between the       *)
(* critical sections of the calls, and the ring is a bounded queue: for    *)
(* any length, tasks, priorities, items and time-outs.                     *)
(***************************************************************************)
EXTENDS KernelQueue, EventList_proofs

WaitersOf(s) == {waiting[s][i] : i \in 1..Len(waiting[s])}
Woke(s) == {t \in woken : Side(t) = s}

\* A call between its try and its place on an event list.
Trying == {"suspend", "lock", "check", "ask", "place"}
Inside == {"lock", "check", "ask", "place", "tx", "rx", "resume"}

QueueTypes ==
  /\ uxMessagesWaiting \in 0..Length
  /\ lock \in [Sides -> -1..NumberOfTasks]
  /\ waiting \in [Sides -> Seq(Tasks)]
  /\ woken \subseteq Tasks /\ DOMAIN pc = Tasks /\ DOMAIN ticks = Tasks

\* Who is on an event list is blocked there, once, and has not been woken.
Lists == \A s \in Sides :
  /\ Once(waiting[s])
  /\ \A t \in WaitersOf(s) : /\ Side(t) = s /\ t \in blocked /\ t \notin woken
                             /\ pc[t] \in {"tx", "rx", "resume", "try"} /\ ticks[t] # "none"

\* While a task goes to the list the queue is locked, and the lock counts what
\* has come since the task found the queue empty (or full).
Counted(s) == lock[s] = NumberOfTasks \/ Available(s) <= lock[s]
Calls ==
  /\ pending \subseteq woken /\ (suspender = Nobody => pending = {})
  /\ \A t \in Tasks :
     /\ pc[t] \in Trying => ticks[t] # "none" /\ t \notin woken
     /\ pc[t] \in Inside => suspender = t
     /\ pc[t] \in {"check", "ask", "place"} => \A s \in Sides : lock[s] >= 0
     /\ pc[t] = "place" => Counted(Side(t))

Places == QueueTypes /\ Lists /\ Calls

LEMMA SideIs == \A t : Side(t) \in Sides
BY DEF Side, Sides

\* The first k of a list with no task twice are k tasks.
FirstOf(list, k) == {list[i] : i \in 1..k}

LEMMA FirstOfList ==
  ASSUME NEW S, NEW list \in Seq(S), Once(list), NEW k \in 0..Len(list)
  PROVE  IsFiniteSet(FirstOf(list, k)) /\ Cardinality(FirstOf(list, k)) = k
<1> DEFINE T == FirstOf(list, k)
           f == [i \in 1..k |-> list[i]]
<1>1. k \in Nat /\ IsFiniteSet(1..k) /\ Cardinality(1..k) = k
  BY FS_Interval
<1>2. f \in Bijection(1..k, T)
  <2>1. f \in [1..k -> T] /\ (\A y \in T : \E x \in 1..k : f[x] = y)
    BY DEF FirstOf
  <2>2. \A x, y \in 1..k : f[x] = f[y] => x = y
    BY DEF Once
  <2> QED BY <2>1, <2>2 DEF Bijection, Injection, Surjection, IsInjective
<1>3. ExistsBijection(1..k, T)
  BY <1>2 DEF ExistsBijection
<1> QED BY <1>1, <1>3, FS_Bijection

\* No list is longer than there are tasks.
LEMMA ListLength ==
  ASSUME QueueTypes, Lists, IsFiniteSet(Tasks), NEW s \in Sides
  PROVE  Len(waiting[s]) <= NumberOfTasks /\ NumberOfTasks \in Nat
<1>1. waiting[s] \in Seq(Tasks) /\ Once(waiting[s])
  BY DEF QueueTypes, Lists
<1>2. Cardinality(WaitersOf(s)) = Len(waiting[s])
  <2>1. Len(waiting[s]) \in 0..Len(waiting[s])
    BY <1>1
  <2>2. Cardinality(FirstOf(waiting[s], Len(waiting[s]))) = Len(waiting[s])
    BY <1>1, <2>1, FirstOfList
  <2> QED BY <2>2 DEF WaitersOf, FirstOf
<1>3. WaitersOf(s) \subseteq Tasks
  BY <1>1 DEF WaitersOf
<1> QED BY <1>2, <1>3, FS_Subset, FS_CardinalityType DEF NumberOfTasks

\* Waking the first k of a side, by tasks that are on no list.
LEMMA WakeFirst ==
  ASSUME QueueTypes, Lists, pending \subseteq woken, IsFiniteSet(Tasks),
         NEW s \in Sides, NEW k \in 0..Len(waiting[s]),
         NEW run, run \subseteq Tasks, \A u \in Sides : run \cap WaitersOf(u) = {},
         suspender # Nobody \/ pending = {}, run = {} \/ suspender = Nobody,
         Wake(s, k, run)
  PROVE  /\ waiting' \in [Sides -> Seq(Tasks)] /\ woken' \subseteq Tasks
         /\ Len(waiting'[s]) = Len(waiting[s]) - k
         /\ \A u \in Sides \ {s} : waiting'[u] = waiting[u]
         /\ pending' \subseteq woken' /\ (suspender = Nobody => pending' = {})
         /\ \A t \in Tasks : t \in woken' => t \in woken \/ t \in WaitersOf(s)
         /\ \A u \in Sides : Once(waiting'[u])
         /\ \A u \in Sides : \A t \in WaitersOf(u)' :
              t \in WaitersOf(u) /\ t \notin woken' /\ (t \in blocked => t \in blocked')
         /\ \A u \in Sides \ {s} : Woke(u)' = Woke(u) \ run
         /\ Cardinality(Woke(s)') = Cardinality(Woke(s) \ run) + k
<1> DEFINE first == FirstOf(waiting[s], k)
<1>1. /\ waiting' = [waiting EXCEPT ![s] = SubSeq(waiting[s], k + 1, Len(waiting[s]))]
      /\ woken' = (woken \ run) \cup first
      /\ blocked' = blocked \ first \/ blocked' = blocked
      /\ IF suspender = Nobody THEN pending' = pending ELSE pending' = pending \cup first
  BY DEF Wake, FirstOf
<1>2. waiting[s] \in Seq(Tasks) /\ Len(waiting[s]) \in Nat /\ Once(waiting[s])
      /\ waiting \in [Sides -> Seq(Tasks)] /\ woken \subseteq Tasks
  BY DEF QueueTypes, Lists
<1>3. first \subseteq WaitersOf(s) /\ WaitersOf(s) \subseteq Tasks
  BY <1>2 DEF WaitersOf, FirstOf
<1>4. /\ SubSeq(waiting[s], k + 1, Len(waiting[s])) \in Seq(Tasks)
      /\ Len(SubSeq(waiting[s], k + 1, Len(waiting[s]))) = Len(waiting[s]) - k
      /\ \A i \in 1..(Len(waiting[s]) - k) :
           SubSeq(waiting[s], k + 1, Len(waiting[s]))[i] = waiting[s][k + i]
  BY <1>2
<1>5. /\ waiting'[s] = SubSeq(waiting[s], k + 1, Len(waiting[s]))
      /\ \A u \in Sides \ {s} : waiting'[u] = waiting[u]
      /\ waiting' \in [Sides -> Seq(Tasks)]
  BY <1>1, <1>2, <1>4
<1>6. /\ Len(waiting'[s]) = Len(waiting[s]) - k
      /\ \A i \in 1..Len(waiting'[s]) : waiting'[s][i] = waiting[s][k + i]
                                       /\ k + i \in 1..Len(waiting[s]) /\ k + i > k
  BY <1>2, <1>4, <1>5, SMTT(30)
<1>7. Once(waiting'[s])
  <2>1. \A i, j \in 1..Len(waiting'[s]) : i < j => k + i < k + j
    BY <1>2, <1>6
  <2> QED BY <1>2, <1>6, <2>1 DEF Once
<1>8. \A t \in WaitersOf(s)' : t \in WaitersOf(s) /\ t \notin first
  <2> SUFFICES ASSUME NEW i \in 1..Len(waiting'[s])
               PROVE  waiting'[s][i] \in WaitersOf(s) /\ waiting'[s][i] \notin first
    BY DEF WaitersOf
  <2>1. \A j \in 1..k : j \in 1..Len(waiting[s]) /\ j < k + i
    BY <1>2
  <2>2. waiting'[s][i] = waiting[s][k + i] /\ k + i \in 1..Len(waiting[s])
    BY <1>6
  <2>3. \A j \in 1..k : waiting[s][j] # waiting[s][k + i]
    BY <1>2, <2>1, <2>2 DEF Once
  <2> QED BY <2>2, <2>3 DEF WaitersOf, FirstOf
<1>9. \A u \in Sides \ {s} : WaitersOf(u)' = WaitersOf(u) /\ WaitersOf(u) \cap first = {}
  <2>1. \A u \in Sides \ {s} : WaitersOf(u)' = WaitersOf(u)
    BY <1>5 DEF WaitersOf
  <2>2. \A u \in Sides \ {s} : WaitersOf(u) \cap WaitersOf(s) = {}
    BY DEF Lists
  <2> QED BY <1>3, <2>1, <2>2
<1>10. \A u \in Sides : \A t \in WaitersOf(u)' :
         t \in WaitersOf(u) /\ t \notin first /\ t \notin woken
  BY <1>8, <1>9 DEF Lists
<1>11. \A u \in Sides \ {s} : Woke(u)' = Woke(u) \ run
  BY <1>1, <1>3 DEF Woke, Lists
<1>12. Woke(s)' = (Woke(s) \ run) \cup first /\ (Woke(s) \ run) \cap first = {}
  BY <1>1, <1>3 DEF Woke, Lists
<1>13. Cardinality(Woke(s)') = Cardinality(Woke(s) \ run) + k
  <2>1. IsFiniteSet(first) /\ Cardinality(first) = k
    BY <1>2, FirstOfList
  <2>2. IsFiniteSet(Woke(s) \ run)
    BY <1>2, FS_Subset DEF Woke
  <2> HIDE DEF first
  <2>3. Cardinality((Woke(s) \ run) \cup first) = Cardinality(Woke(s) \ run) + Cardinality(first)
                                                  - Cardinality({})
    BY <1>12, <2>1, <2>2, FS_Union
  <2>4. Cardinality(Woke(s) \ run) \in Nat /\ Cardinality({}) = 0
    BY <2>2, FS_CardinalityType, FS_EmptySet
  <2> QED BY <1>12, <2>1, <2>3, <2>4
<1>14. pending' \subseteq woken' /\ (suspender = Nobody => pending' = {})
  BY <1>1
<1>15. woken' \subseteq Tasks /\ \A t \in Tasks : t \in woken' => t \in woken \/ t \in WaitersOf(s)
  BY <1>1, <1>2, <1>3
<1>16. \A u \in Sides : Once(waiting'[u])
  BY <1>5, <1>7 DEF Lists
<1>17. \A u \in Sides : \A t \in WaitersOf(u)' :
         t \in WaitersOf(u) /\ t \notin woken' /\ (t \in blocked => t \in blocked')
  BY <1>1, <1>10
<1> QED BY <1>5, <1>6, <1>11, <1>13, <1>14, <1>15, <1>16, <1>17

\* What that does to the counts.
CountsMove(s, k, run) ==
  /\ waiting' \in [Sides -> Seq(Tasks)]
  /\ Len(waiting'[s]) = Len(waiting[s]) - k
  /\ \A u \in Sides \ {s} : waiting'[u] = waiting[u]
  /\ \A u \in Sides \ {s} : Woke(u)' = Woke(u) \ run
  /\ Cardinality(Woke(s)') = Cardinality(Woke(s) \ run) + k

LEMMA WakeCounts ==
  ASSUME QueueTypes, Lists, pending \subseteq woken, IsFiniteSet(Tasks),
         NEW s \in Sides, NEW k \in 0..Len(waiting[s]),
         NEW run, run \subseteq Tasks, \A u \in Sides : run \cap WaitersOf(u) = {},
         suspender # Nobody \/ pending = {}, run = {} \/ suspender = Nobody,
         Wake(s, k, run)
  PROVE  CountsMove(s, k, run)
BY WakeFirst, ZenonT(40) DEF CountsMove

LEMMA SameWaiters ==
  ASSUME UNCHANGED waiting PROVE \A s : WaitersOf(s)' = WaitersOf(s)
BY DEF WaitersOf

LEMMA WaitersAreTasks ==
  ASSUME QueueTypes PROVE \A s \in Sides : WaitersOf(s) \subseteq Tasks
BY DEF QueueTypes, WaitersOf

\* A step of a task that wakes none and leaves the ring alone.
LEMMA QuietPlaces ==
  ASSUME Places, IsFiniteSet(Tasks), NEW t \in Tasks,
         Call(t) \/ (Runs(t, "try") /\ Fail(t)) \/ SuspendAll(t) \/ LockQueue(t) \/ Check(t)
         \/ Ask(t) \/ ResumeAll(t) \/ Recheck(t)
  PROVE  Places'
<1> USE DEF Places, Runs, Alone, Goto, ring, lists
<1>0. UNCHANGED waiting /\ UNCHANGED uxMessagesWaiting /\ \A s : WaitersOf(s)' = WaitersOf(s)
  BY SameWaiters DEF Call, Fail, SuspendAll, LockQueue, Check, Ask, ResumeAll, Recheck
<1>1. CASE Call(t)
  <2>1. QueueTypes'
    BY <1>0, <1>1 DEF Call, QueueTypes
  <2>2. Lists'
    BY <1>0, <1>1, WaitersAreTasks DEF Call, Lists, QueueTypes
  <2>3. Calls'
    BY <1>0, <1>1 DEF Call, Calls, QueueTypes, Trying, Inside, Counted, Available
  <2> QED BY <2>1, <2>2, <2>3
<1>2. CASE Runs(t, "try") /\ Fail(t)
  <2>1. QueueTypes'
    BY <1>0, <1>2 DEF Fail, QueueTypes
  <2>2. Lists'
    BY <1>0, <1>2, WaitersAreTasks DEF Fail, Lists, QueueTypes
  <2>3. Calls'
    BY <1>0, <1>2 DEF Fail, Calls, QueueTypes, Trying, Inside, Counted, Available
  <2> QED BY <2>1, <2>2, <2>3
<1>3. CASE SuspendAll(t)
  <2>1. QueueTypes'
    BY <1>0, <1>3 DEF SuspendAll, QueueTypes
  <2>2. Lists'
    BY <1>0, <1>3, WaitersAreTasks DEF SuspendAll, Lists, QueueTypes
  <2>3. Calls'
    BY <1>0, <1>3, QueueAssumption DEF SuspendAll, Calls, QueueTypes, Trying, Inside, Counted, Available
  <2> QED BY <2>1, <2>2, <2>3
<1>4. CASE LockQueue(t)
  <2>1. QueueTypes' /\ \A s \in Sides : lock'[s] >= 0
    BY <1>0, <1>4, FS_CardinalityType DEF LockQueue, Locked, QueueTypes, queueUNLOCKED, queueLOCKED_UNMODIFIED, NumberOfTasks
  <2>2. Lists'
    BY <1>0, <1>4, WaitersAreTasks DEF LockQueue, Lists, QueueTypes
  <2>3. Calls'
    BY <1>0, <1>4, <2>1, QueueAssumption DEF LockQueue, Calls, QueueTypes, Trying, Inside, Counted, Available
  <2> QED BY <2>1, <2>2, <2>3
<1>5. CASE Check(t)
  <2>1. QueueTypes'
    BY <1>0, <1>5 DEF Check, QueueTypes
  <2>2. Lists'
    BY <1>0, <1>5, WaitersAreTasks DEF Check, Lists, QueueTypes
  <2>3. Calls'
    BY <1>0, <1>5 DEF Check, Calls, QueueTypes, Trying, Inside, Counted, Available
  <2> QED BY <2>1, <2>2, <2>3
<1>6. CASE Ask(t)
  <2>1. QueueTypes'
    BY <1>0, <1>6 DEF Ask, QueueTypes
  <2>2. Lists'
    BY <1>0, <1>6, WaitersAreTasks DEF Ask, Lists, QueueTypes
  <2>3. pc'[t] = "place" => Counted(Side(t))'
    <3>1. Stuck(t) => Available(Side(t))' = 0
      BY <1>0, QueueAssumption DEF Stuck, Available, Full, Empty, QueueTypes
    <3>2. Side(t) \in Sides /\ pc[t] = "ask" /\ pc' = [pc EXCEPT ![t] = IF Stuck(t) THEN "place" ELSE "tx"]
          /\ UNCHANGED lock
      BY <1>6, SideIs DEF Ask
    <3> QED BY <3>1, <3>2 DEF Counted, Calls, QueueTypes
  <2>4. Calls'
    BY <1>0, <1>6, <2>3 DEF Ask, Calls, QueueTypes, Trying, Inside, Counted, Available
  <2> QED BY <2>1, <2>2, <2>4
<1>7. CASE ResumeAll(t)
  <2>1. QueueTypes'
    BY <1>0, <1>7 DEF ResumeAll, QueueTypes
  <2>2. Lists'
    BY <1>0, <1>7, WaitersAreTasks DEF ResumeAll, Lists, QueueTypes, Calls
  <2>3. Calls'
    BY <1>0, <1>7, QueueAssumption DEF ResumeAll, Calls, QueueTypes, Trying, Inside, Counted, Available
  <2> QED BY <2>1, <2>2, <2>3
<1>8. CASE Recheck(t)
  <2>1. QueueTypes'
    BY <1>0, <1>8 DEF Recheck, QueueTypes
  <2>2. Lists'
    BY <1>0, <1>8, WaitersAreTasks DEF Recheck, Lists, QueueTypes
  <2>3. Calls'
    BY <1>0, <1>8 DEF Recheck, Calls, QueueTypes, Trying, Inside, Counted, Available
  <2> QED BY <2>1, <2>2, <2>3
<1> QED BY <1>1, <1>2, <1>3, <1>4, <1>5, <1>6, <1>7, <1>8

\* What NoLostWake says of one side.
Spoken(s) == waiting[s] # <<>> =>
  \/ lock[s] >= Len(waiting[s])
  \/ Available(s) <= Cardinality(Woke(s)) + (IF lock[s] > 0 THEN lock[s] ELSE 0)

LEMMA NoLostWakeIs == NoLostWake <=> \A s \in Sides : Spoken(s)
BY DEF NoLostWake, Spoken, Woke

LEMMA NoLostWakeNext == (\A s \in Sides : Spoken(s))' => NoLostWake'
BY NoLostWakeIs, PTL

LEMMA WokeCount ==
  ASSUME QueueTypes, IsFiniteSet(Tasks)
  PROVE  \A s : IsFiniteSet(Woke(s)) /\ Cardinality(Woke(s)) \in Nat
<1> SUFFICES ASSUME NEW s PROVE IsFiniteSet(Woke(s)) /\ Cardinality(Woke(s)) \in Nat
  OBVIOUS
<1>1. Woke(s) \subseteq Tasks
  BY DEF Woke, QueueTypes
<1> QED BY <1>1, FS_Subset, FS_CardinalityType

LEMMA WokeWithout ==
  ASSUME QueueTypes, IsFiniteSet(Tasks), NEW s, NEW t
  PROVE  /\ Cardinality(Woke(s) \ {t}) \in Nat
         /\ Cardinality(Woke(s) \ {t}) >= Cardinality(Woke(s)) - (IF s = Side(t) THEN 1 ELSE 0)
<1>1. IsFiniteSet(Woke(s)) /\ Cardinality(Woke(s)) \in Nat
  BY WokeCount
<1>2. s # Side(t) => t \notin Woke(s)
  BY DEF Woke
<1>3. IsFiniteSet(Woke(s) \ {t}) /\ Cardinality(Woke(s) \ {t}) \in Nat
  BY <1>1, FS_RemoveElement, FS_CardinalityType
<1> QED BY <1>1, <1>2, <1>3, FS_RemoveElement

\* The same steps leave no wake-up lost: who finds nothing has nothing coming.
LEMMA QuietWake ==
  ASSUME Places, NoLostWake, IsFiniteSet(Tasks), NEW t \in Tasks,
         Call(t) \/ (Stuck(t) /\ Fail(t)) \/ SuspendAll(t) \/ LockQueue(t) \/ Check(t)
         \/ Ask(t) \/ ResumeAll(t) \/ Recheck(t)
  PROVE  NoLostWake'
<1>1. /\ UNCHANGED <<waiting, uxMessagesWaiting>>
      /\ \A s \in Sides : lock'[s] = lock[s] \/ (lock[s] < 0 /\ lock'[s] = 0)
  <2>1. UNCHANGED <<waiting, uxMessagesWaiting>>
    BY DEF Call, Fail, SuspendAll, LockQueue, Check, Ask, ResumeAll, Recheck, ring, lists
  <2>2. lock' = lock \/ lock' = Locked
    BY DEF Call, Fail, SuspendAll, LockQueue, Check, Ask, ResumeAll, Recheck
  <2>3. ASSUME NEW s \in Sides PROVE Locked[s] = lock[s] \/ (lock[s] < 0 /\ Locked[s] = 0)
    <3>1. Locked[s] = IF lock[s] = queueUNLOCKED THEN queueLOCKED_UNMODIFIED ELSE lock[s]
      BY DEF Locked
    <3>2. queueUNLOCKED < 0 /\ queueLOCKED_UNMODIFIED = 0
      BY DEF queueUNLOCKED, queueLOCKED_UNMODIFIED
    <3> QED BY <3>1, <3>2
  <2> QED BY <2>1, <2>2, <2>3
<1>0. \A s \in Sides : Spoken(s)
  BY NoLostWakeIs
<1>2. \A s \in Sides : lock[s] \in Int /\ Len(waiting[s]) \in Nat /\ (waiting[s] # <<>> => Len(waiting[s]) > 0)
                       /\ Available(s)' = Available(s) /\ Available(s) \in Nat
  <2>1. \A s \in Sides : Available(s)' = Available(s) /\ Available(s) \in Nat
    BY <1>1, QueueAssumption DEF Available, Places, QueueTypes, Sides
  <2>2. \A s \in Sides : lock[s] \in Int /\ waiting[s] \in Seq(Tasks)
    BY FS_CardinalityType DEF Places, QueueTypes, NumberOfTasks
  <2>3. \A s \in Sides : Len(waiting[s]) \in Nat /\ (waiting[s] # <<>> => Len(waiting[s]) > 0)
    BY <2>2
  <2> QED BY <2>1, <2>2, <2>3
<1>3. \A s : Cardinality(Woke(s)) \in Nat
  BY WokeCount DEF Places
<1>4. CASE UNCHANGED woken
  <2>1. \A s : Woke(s)' = Woke(s)
    BY <1>4 DEF Woke, Side
  <2>2. ASSUME NEW s \in Sides PROVE Spoken(s)'
    <3>1. Cardinality(Woke(s)') = Cardinality(Woke(s)) /\ waiting'[s] = waiting[s]
      BY <1>1, <2>1
    <3>2. SUFFICES ASSUME waiting[s] # <<>>, ~(lock'[s] >= Len(waiting[s]))
                   PROVE Available(s)' <= Cardinality(Woke(s)') + (IF lock'[s] > 0 THEN lock'[s] ELSE 0)
      BY <3>1 DEF Spoken
    <3>3. ~(lock[s] >= Len(waiting[s]))
      BY <1>1, <1>2, <3>2
    <3>4. Available(s) <= Cardinality(Woke(s)) + (IF lock[s] > 0 THEN lock[s] ELSE 0)
      BY <1>0, <3>2, <3>3 DEF Spoken
    <3> QED BY <1>1, <1>2, <1>3, <3>1, <3>4
  <2> QED BY <2>2, NoLostWakeNext
<1>5. CASE Stuck(t) /\ Fail(t)
  <2>0. woken' = woken \ {t} /\ Available(Side(t)) = 0
    BY <1>5, QueueAssumption DEF Fail, Stuck, Full, Empty, Available, Places, QueueTypes
  <2>1. \A s \in Sides : s # Side(t) => Woke(s)' = Woke(s)
    BY <2>0 DEF Woke, Side
  <2>2. \A s : Cardinality(Woke(s)') \in Nat
    <3>1. \A s : Woke(s)' = Woke(s) \ {t}
      BY <2>0 DEF Woke, Side
    <3> QED BY <3>1, WokeWithout DEF Places
  <2>3. ASSUME NEW s \in Sides PROVE Spoken(s)'
    <3>1. waiting'[s] = waiting[s] /\ (s # Side(t) => Cardinality(Woke(s)') = Cardinality(Woke(s)))
      BY <1>1, <2>1
    <3>2. UNCHANGED lock
      BY <1>5 DEF Fail
    <3>3. CASE s # Side(t)
      BY <1>0, <1>2, <3>1, <3>2, <3>3 DEF Spoken
    <3>4. CASE s = Side(t)
      BY <1>2, <2>0, <2>2, <3>2, <3>4 DEF Spoken
    <3> QED BY <3>3, <3>4
  <2> QED BY <2>3, NoLostWakeNext
<1>6. UNCHANGED woken \/ (Stuck(t) /\ Fail(t))
  BY DEF Call, SuspendAll, LockQueue, Check, Ask, ResumeAll, Recheck, lists
<1> QED BY <1>4, <1>5, <1>6

\* The lists after a step that only wakes: nobody else moves.
LEMMA WakePlaces ==
  ASSUME Places, IsFiniteSet(Tasks), NEW s \in Sides, NEW k \in 0..Len(waiting[s]),
         NEW run, run \subseteq Tasks, \A u \in Sides : run \cap WaitersOf(u) = {},
         run = {} \/ suspender = Nobody, Wake(s, k, run),
         DOMAIN pc' = Tasks, UNCHANGED <<ticks, suspender>>,
         \A t \in Tasks : pc'[t] = pc[t] \/ pc'[t] = "idle" \/ pc'[t] \in {"rx", "resume"},
         \A t \in Tasks : t \notin run => pc'[t] = pc[t] \/ pc[t] \in {"tx", "rx"},
         \A t \in Tasks : pc'[t] \in {"rx", "resume"} => suspender = t /\ pc'[t] # "place",
         \A t \in Tasks : pc'[t] = "idle" => pc[t] = "idle" \/ t \in run,
         uxMessagesWaiting' \in 0..Length, lock' \in [Sides -> -1..NumberOfTasks],
         \A t \in Tasks : pc'[t] \in {"check", "ask", "place"} => \A u \in Sides : lock'[u] >= 0,
         \A t \in Tasks : pc'[t] = "place" => Counted(Side(t))'
  PROVE  Places'
<1>1. QueueTypes /\ Lists /\ Calls
  BY DEF Places
<1>2. suspender # Nobody \/ pending = {}
  BY <1>1 DEF Calls
<1>3. /\ waiting' \in [Sides -> Seq(Tasks)] /\ woken' \subseteq Tasks
      /\ pending' \subseteq woken' /\ (suspender = Nobody => pending' = {})
      /\ \A t \in Tasks : t \in woken' => t \in woken \/ t \in WaitersOf(s)
      /\ \A u \in Sides : Once(waiting'[u])
      /\ \A u \in Sides : \A t \in WaitersOf(u)' :
           t \in WaitersOf(u) /\ t \notin woken' /\ (t \in blocked => t \in blocked')
  BY <1>1, <1>2, WakeFirst DEF Calls
<1>4. \A u \in Sides : WaitersOf(u) \subseteq Tasks
  BY <1>1, WaitersAreTasks
<1>5. QueueTypes'
  BY <1>1, <1>3 DEF QueueTypes
<1>6. Lists'
  <2>1. \A u \in Sides : \A t \in WaitersOf(u)' : pc'[t] \in {"tx", "rx", "resume", "try"}
    BY <1>1, <1>3, <1>4 DEF Lists
  <2> QED BY <1>1, <1>3, <2>1 DEF Lists, Side
<1>7. Calls'
  <2>1. \A t \in Tasks : pc'[t] \in Trying => pc'[t] = pc[t] /\ t \notin WaitersOf(s)
    BY <1>1 DEF Trying, Lists
  <2>2. \A t \in Tasks : pc'[t] \in Trying => ticks'[t] # "none" /\ t \notin woken'
    BY <1>1, <1>3, <2>1 DEF Calls
  <2>3. \A t \in Tasks : pc'[t] \in Inside => suspender' = t
    BY <1>1 DEF Calls, Inside
  <2> QED BY <1>3, <2>2, <2>3 DEF Calls, Side
<1> QED BY <1>5, <1>6, <1>7 DEF Places

LEMMA AtMostIs ==
  ASSUME QueueTypes, NEW s \in Sides
  PROVE  /\ waiting[s] \in Seq(Tasks) /\ Len(waiting[s]) \in Nat /\ lock[s] \in Int
         /\ (waiting[s] # <<>> => Len(waiting[s]) > 0)
         /\ AtMost(1, s) \in 0..Len(waiting[s])
         /\ AtMost(1, s) = (IF waiting[s] = <<>> THEN 0 ELSE 1)
         /\ lock[s] > 0 => AtMost(lock[s], s) \in 0..Len(waiting[s])
<1>1. waiting[s] \in Seq(Tasks) /\ lock[s] \in Int
  BY DEF QueueTypes
<1> QED BY <1>1 DEF AtMost

\* What a task took or put, it took or put for itself, and one of the other
\* side is woken for it; who peeks wakes another of its own side.
LEMMA TryStep ==
  ASSUME Places, NoLostWake, IsFiniteSet(Tasks), NEW t \in Tasks, NEW s \in Sides,
         Runs(t, "try"), Wake(s, AtMost(1, s), {t}), Goto(t, "idle"),
         UNCHANGED <<lock, suspender, ticks>>, uxMessagesWaiting' \in 0..Length,
         \A u \in Sides : Available(u)' = Available(u) + (IF u = s THEN 1 ELSE 0)
                                          - (IF u = Side(t) THEN 1 ELSE 0)
  PROVE  Places' /\ NoLostWake'
<1>1. QueueTypes /\ Lists /\ Calls
  BY DEF Places
<1>2. t \notin blocked /\ suspender = Nobody /\ pc[t] = "try" /\ pc' = [pc EXCEPT ![t] = "idle"]
      /\ DOMAIN pc = Tasks
  BY <1>1 DEF Runs, Goto, QueueTypes
<1>3. \A u \in Sides : {t} \cap WaitersOf(u) = {}
  BY <1>1, <1>2 DEF Lists
<1>4. \A u \in Tasks : pc[u] \notin Inside
  BY <1>1, <1>2, QueueAssumption DEF Calls
<1>5. AtMost(1, s) \in 0..Len(waiting[s])
  BY <1>1, AtMostIs
<1>6. Places'
  <2>1. \A u \in Tasks : pc'[u] = pc[u] \/ (u = t /\ pc'[u] = "idle")
    BY <1>2
  <2>2. \A u \in Tasks : pc'[u] \notin {"check", "ask", "place", "rx", "resume"}
    BY <1>4, <2>1 DEF Inside
  <2>3. lock' \in [Sides -> -1..NumberOfTasks] /\ DOMAIN pc' = Tasks
    BY <1>1, <1>2 DEF QueueTypes
  <2> QED BY <1>2, <1>3, <1>5, <2>1, <2>2, <2>3, WakePlaces
<1>7. /\ Len(waiting'[s]) = Len(waiting[s]) - AtMost(1, s)
      /\ waiting' \in [Sides -> Seq(Tasks)]
      /\ \A u \in Sides \ {s} : waiting'[u] = waiting[u] /\ Woke(u)' = Woke(u) \ {t}
      /\ Cardinality(Woke(s)') = Cardinality(Woke(s) \ {t}) + AtMost(1, s)
  <2>1. PICK run : run = {t}
    OBVIOUS
  <2>2. PICK k \in 0..Len(waiting[s]) : k = AtMost(1, s)
    BY <1>5
  <2>3. /\ QueueTypes /\ Lists /\ pending \subseteq woken /\ run \subseteq Tasks
        /\ suspender # Nobody \/ pending = {}
        /\ run = {} \/ suspender = Nobody
        /\ \A u \in Sides : run \cap WaitersOf(u) = {}
    BY <1>1, <1>2, <1>3, <2>1 DEF Calls
  <2>4. Wake(s, k, run)
    BY <2>1, <2>2
  <2>5. CountsMove(s, k, run)
    BY <2>3, <2>4, WakeCounts
  <2> QED BY <2>1, <2>2, <2>5 DEF CountsMove
<1>8. \A u \in Sides : /\ lock[u] \in Int /\ Len(waiting[u]) \in Nat /\ Len(waiting'[u]) \in Nat
                       /\ (waiting[u] # <<>> => Len(waiting[u]) > 0)
                       /\ (waiting'[u] # <<>> => Len(waiting'[u]) > 0)
                       /\ Available(u) \in Int
                       /\ Cardinality(Woke(u)) \in Nat /\ Cardinality(Woke(u) \ {t}) \in Nat
                       /\ Cardinality(Woke(u) \ {t}) >= Cardinality(Woke(u)) - (IF u = Side(t) THEN 1 ELSE 0)
  <2>1. \A u \in Sides : Available(u) \in Int
    BY <1>1, QueueAssumption DEF Available, QueueTypes
  <2>2. \A u \in Sides : /\ lock[u] \in Int /\ Len(waiting[u]) \in Nat
                         /\ (waiting[u] # <<>> => Len(waiting[u]) > 0)
    BY <1>1, AtMostIs
  <2>3. \A u \in Sides : waiting'[u] \in Seq(Tasks)
    BY <1>7
  <2>4. \A u \in Sides : Len(waiting'[u]) \in Nat /\ (waiting'[u] # <<>> => Len(waiting'[u]) > 0)
    BY <2>3
  <2>5. \A u \in Sides : /\ Cardinality(Woke(u)) \in Nat /\ Cardinality(Woke(u) \ {t}) \in Nat
                         /\ Cardinality(Woke(u) \ {t}) >= Cardinality(Woke(u)) - (IF u = Side(t) THEN 1 ELSE 0)
    BY <1>1, WokeCount, WokeWithout
  <2> QED BY <2>1, <2>2, <2>4, <2>5
<1>9. ASSUME NEW u \in Sides PROVE Spoken(u)'
  <2>1. Spoken(u)
    BY NoLostWakeIs
  <2>2. CASE u = s
    <3>1. SUFFICES ASSUME waiting'[s] # <<>>
                   PROVE  Spoken(s)'
      BY <2>2 DEF Spoken
    <3>2. waiting[s] # <<>> /\ AtMost(1, s) = 1
      BY <1>1, <1>7, <1>8, <3>1, AtMostIs
    <3>3. Len(waiting'[s]) = Len(waiting[s]) - 1 /\ Cardinality(Woke(s)') = Cardinality(Woke(s) \ {t}) + 1
      BY <1>7, <3>2
    <3>a. /\ lock[s] \in Int /\ Len(waiting[s]) \in Nat /\ Available(s) \in Int
          /\ Cardinality(Woke(s)) \in Nat /\ Cardinality(Woke(s) \ {t}) \in Nat
      BY <1>8
    <3>b. lock'[s] = lock[s]
      OBVIOUS
    <3>4. lock[s] >= Len(waiting[s]) => lock'[s] >= Len(waiting'[s])
      BY <3>3, <3>a, <3>b
    <3>c. Available(s)' = Available(s) + 1 - (IF s = Side(t) THEN 1 ELSE 0)
      OBVIOUS
    <3>5. Available(s)' <= Available(s) + 1 - (IF s = Side(t) THEN 1 ELSE 0)
      BY <3>a, <3>c
    <3> QED BY <1>8, <2>1, <2>2, <3>2, <3>3, <3>4, <3>5 DEF Spoken
  <2>3. CASE u # s
    <3>1. waiting'[u] = waiting[u] /\ Cardinality(Woke(u)') = Cardinality(Woke(u) \ {t})
      BY <1>7, <2>3
    <3> QED BY <1>8, <2>1, <2>3, <3>1, SMTT(30) DEF Spoken
  <2> QED BY <2>2, <2>3
<1> QED BY <1>6, <1>9, NoLostWakeNext

LEMMA TryStepOf ==
  ASSUME Places, NoLostWake, IsFiniteSet(Tasks), NEW t \in Tasks,
         TrySend(t) \/ TryReceive(t) \/ TryPeek(t)
  PROVE  Places' /\ NoLostWake'
<1>1. /\ uxMessagesWaiting \in 0..Length /\ Length \in Nat /\ Length > 0
      /\ Available("send") = Length - uxMessagesWaiting /\ Available("recv") = uxMessagesWaiting
      /\ Available("send")' = Length - uxMessagesWaiting' /\ Available("recv")' = uxMessagesWaiting'
      /\ \A u \in Sides : u = "send" \/ u = "recv"
  BY QueueAssumption DEF Places, QueueTypes, Available, Sides
<1>2. /\ t \in Senders => Side(t) = "send"
      /\ t \in Receivers \cup Peekers => Side(t) = "recv"
  BY QueueAssumption DEF Side
<1>3. CASE Runs(t, "try") /\ Stuck(t) /\ Fail(t)
  BY <1>3, QuietPlaces, QuietWake
<1>4. CASE TrySend(t) /\ ~Full
  <2>1. uxMessagesWaiting' = uxMessagesWaiting + 1 /\ uxMessagesWaiting' \in 0..Length
    BY <1>1, <1>4 DEF TrySend, CopyTo, Full
  <2>2. \A u \in Sides : Available(u)' = Available(u) + (IF u = "recv" THEN 1 ELSE 0)
                                            - (IF u = Side(t) THEN 1 ELSE 0)
    BY <1>1, <1>2, <1>4, <2>1 DEF TrySend
  <2>3. /\ Runs(t, "try") /\ Wake("recv", AtMost(1, "recv"), {t}) /\ Goto(t, "idle")
        /\ UNCHANGED <<lock, suspender, ticks>> /\ "recv" \in Sides
    BY <1>4 DEF TrySend, Sides
  <2> QED BY <2>1, <2>2, <2>3, TryStep
<1>5. CASE TryReceive(t) /\ ~Empty
  <2>1. uxMessagesWaiting' = uxMessagesWaiting - 1 /\ uxMessagesWaiting' \in 0..Length
    BY <1>1, <1>5 DEF TryReceive, CopyFrom, Empty
  <2>2. \A u \in Sides : Available(u)' = Available(u) + (IF u = "send" THEN 1 ELSE 0)
                                            - (IF u = Side(t) THEN 1 ELSE 0)
    BY <1>1, <1>2, <1>5, <2>1 DEF TryReceive
  <2>3. /\ Runs(t, "try") /\ Wake("send", AtMost(1, "send"), {t}) /\ Goto(t, "idle")
        /\ UNCHANGED <<lock, suspender, ticks>> /\ "send" \in Sides
    BY <1>5 DEF TryReceive, Sides
  <2> QED BY <2>1, <2>2, <2>3, TryStep
<1>6. CASE TryPeek(t) /\ ~Empty
  <2>1. uxMessagesWaiting' = uxMessagesWaiting
    BY <1>6 DEF TryPeek, ring
  <2>2. \A u \in Sides : Available(u)' = Available(u) + (IF u = "recv" THEN 1 ELSE 0)
                                            - (IF u = Side(t) THEN 1 ELSE 0)
    BY <1>1, <1>2, <1>6, <2>1 DEF TryPeek
  <2>3. /\ Runs(t, "try") /\ Wake("recv", AtMost(1, "recv"), {t}) /\ Goto(t, "idle")
        /\ UNCHANGED <<lock, suspender, ticks>> /\ "recv" \in Sides
    BY <1>6 DEF TryPeek, AfterPeek, Sides
  <2>4. uxMessagesWaiting' \in 0..Length
    BY <1>1, <2>1
  <2> QED BY <2>2, <2>3, <2>4, TryStep
<1> QED BY <1>2, <1>3, <1>4, <1>5, <1>6 DEF TrySend, TryReceive, TryPeek, Stuck

\* The numbers that NoLostWake compares, before a step and after one that keeps
\* the lists lists.
LEMMA Numbers ==
  ASSUME QueueTypes, IsFiniteSet(Tasks), waiting' \in [Sides -> Seq(Tasks)]
  PROVE  \A u \in Sides : /\ lock[u] \in Int /\ Len(waiting[u]) \in Nat /\ Len(waiting'[u]) \in Nat
                          /\ (waiting[u] # <<>> => Len(waiting[u]) > 0)
                          /\ (waiting'[u] # <<>> => Len(waiting'[u]) > 0)
                          /\ Available(u) \in Int /\ Cardinality(Woke(u)) \in Nat
<1>1. \A u \in Sides : Available(u) \in Int
  BY QueueAssumption DEF Available, QueueTypes
<1>2. \A u \in Sides : /\ lock[u] \in Int /\ Len(waiting[u]) \in Nat
                       /\ (waiting[u] # <<>> => Len(waiting[u]) > 0)
  BY AtMostIs
<1>3. \A u \in Sides : waiting'[u] \in Seq(Tasks)
  OBVIOUS
<1>4. \A u \in Sides : Len(waiting'[u]) \in Nat /\ (waiting'[u] # <<>> => Len(waiting'[u]) > 0)
  BY <1>3
<1> QED BY <1>1, <1>2, <1>4, WokeCount

\* Waking without running: what an interrupt and prvUnlockQueue() do.
LEMMA WakeAlone ==
  ASSUME Places, IsFiniteSet(Tasks), NEW s \in Sides, NEW k \in 0..Len(waiting[s]), Wake(s, k, {})
  PROVE  CountsMove(s, k, {})
<1>1. PICK run : run = {}
  OBVIOUS
<1>2. /\ QueueTypes /\ Lists /\ pending \subseteq woken /\ run \subseteq Tasks
      /\ suspender # Nobody \/ pending = {}
      /\ run = {} \/ suspender = Nobody
      /\ \A u \in Sides : run \cap WaitersOf(u) = {}
  BY <1>1 DEF Places, Calls
<1>3. Wake(s, k, run)
  BY <1>1
<1>4. CountsMove(s, k, run)
  BY <1>2, <1>3, WakeCounts
<1> QED BY <1>1, <1>4

\* prvUnlockQueue() wakes as many as were counted, or all.
LEMMA UnlockStep ==
  ASSUME Places, NoLostWake, IsFiniteSet(Tasks), NEW t \in Tasks, NEW s \in Sides,
         Alone(t, "tx") \/ Alone(t, "rx"), Unlock(t, s),
         NEW at \in {"rx", "resume"}, Goto(t, at)
  PROVE  Places' /\ NoLostWake'
<1>1. QueueTypes /\ Lists /\ Calls
  BY DEF Places
<1>2. /\ suspender = t /\ pc[t] \in {"tx", "rx"} /\ pc' = [pc EXCEPT ![t] = at] /\ DOMAIN pc = Tasks
      /\ suspender # Nobody
  BY <1>1, QueueAssumption DEF Alone, Goto, QueueTypes
<1>3. /\ lock' = [lock EXCEPT ![s] = -1] /\ UNCHANGED <<suspender, ticks, uxMessagesWaiting>>
      /\ \A u : Available(u)' = Available(u)
  BY DEF Unlock, queueUNLOCKED, ring, Available
<1>4. NumberOfTasks \in Nat /\ lock \in [Sides -> -1..NumberOfTasks]
  BY <1>1, FS_CardinalityType DEF QueueTypes, NumberOfTasks
<1>5. /\ lock' \in [Sides -> -1..NumberOfTasks] /\ lock'[s] = -1
      /\ \A u \in Sides \ {s} : lock'[u] = lock[u]
  BY <1>3, <1>4
<1>6. \A u \in Tasks : (pc'[u] = pc[u] /\ u # t) \/ (u = t /\ pc'[u] = at)
  BY <1>2
<1>7. \A u \in Tasks : pc'[u] \notin {"check", "ask", "place"}
  BY <1>1, <1>2, <1>6 DEF Calls, Inside
<1>8. \A u \in Sides : Spoken(u)
  BY NoLostWakeIs
<1>9. CASE lock[s] > 0
  <2>1. PICK k \in 0..Len(waiting[s]) : k = AtMost(lock[s], s)
    BY <1>1, <1>9, AtMostIs
  <2>2. Wake(s, k, {})
    BY <1>9, <2>1 DEF Unlock, Woken, queueLOCKED_UNMODIFIED
  <2>3. Places'
    <3>1. PICK run : run = {}
      OBVIOUS
    <3>2. Wake(s, k, run) /\ run \subseteq Tasks /\ (\A u \in Sides : run \cap WaitersOf(u) = {})
          /\ (run = {} \/ suspender = Nobody)
      BY <2>2, <3>1
    <3>3. DOMAIN pc' = Tasks /\ UNCHANGED <<ticks, suspender>> /\ uxMessagesWaiting' \in 0..Length
      BY <1>1, <1>2, <1>3 DEF QueueTypes
    <3>4. /\ \A u \in Tasks : pc'[u] = pc[u] \/ pc'[u] = "idle" \/ pc'[u] \in {"rx", "resume"}
          /\ \A u \in Tasks : u \notin run => pc'[u] = pc[u] \/ pc[u] \in {"tx", "rx"}
      BY <1>2, <1>6
    <3>5. /\ \A u \in Tasks : pc'[u] \in {"rx", "resume"} => suspender = u /\ pc'[u] # "place"
          /\ \A u \in Tasks : pc'[u] = "idle" => pc[u] = "idle" \/ u \in run
      BY <1>1, <1>2, <1>6 DEF Calls, Inside
    <3>6. /\ \A u \in Tasks : pc'[u] \in {"check", "ask", "place"} => \A v \in Sides : lock'[v] >= 0
          /\ \A u \in Tasks : pc'[u] = "place" => Counted(Side(u))'
      BY <1>7
    <3> QED BY <1>5, <3>2, <3>3, <3>4, <3>5, <3>6, WakePlaces
  <2>4. CountsMove(s, k, {})
    BY <2>1, <2>2, WakeAlone
  <2>5. ASSUME NEW u \in Sides PROVE Spoken(u)'
    <3>1. /\ lock[u] \in Int /\ Len(waiting[u]) \in Nat /\ Len(waiting'[u]) \in Nat
          /\ (waiting[u] # <<>> => Len(waiting[u]) > 0) /\ (waiting'[u] # <<>> => Len(waiting'[u]) > 0)
          /\ Available(u) \in Int /\ Cardinality(Woke(u)) \in Nat /\ Available(u)' = Available(u)
      BY <1>1, <1>3, <2>4, Numbers DEF CountsMove
    <3>2. CASE u = s
      <4>1. /\ Len(waiting'[s]) = Len(waiting[s]) - k
            /\ Cardinality(Woke(s)') = Cardinality(Woke(s)) + k
        <5>1. Woke(s) \ {} = Woke(s)
          OBVIOUS
        <5> QED BY <2>4, <5>1 DEF CountsMove
      <4>2. k = IF lock[s] < Len(waiting[s]) THEN lock[s] ELSE Len(waiting[s])
        BY <2>1 DEF AtMost
      <4>3. CASE lock[s] >= Len(waiting[s])
        BY <3>1, <3>2, <4>1, <4>2, <4>3 DEF Spoken
      <4>4. CASE lock[s] < Len(waiting[s])
        <5>1. waiting[s] # <<>> /\ ~(lock[s] >= Len(waiting[s]))
          BY <1>9, <3>1, <3>2, <4>4
        <5>2. Available(s) <= Cardinality(Woke(s)) + lock[s]
          BY <1>8, <1>9, <5>1 DEF Spoken
        <5>3. Cardinality(Woke(s)') = Cardinality(Woke(s)) + lock[s] /\ lock'[s] = -1
          BY <1>5, <4>1, <4>2, <4>4
        <5> QED BY <3>1, <3>2, <5>2, <5>3 DEF Spoken
      <4> QED BY <3>1, <3>2, <4>3, <4>4
    <3>3. CASE u # s
      <4>1. waiting'[u] = waiting[u] /\ Woke(u)' = Woke(u) \ {} /\ lock'[u] = lock[u]
        BY <1>5, <2>4, <3>3 DEF CountsMove
      <4>2. Cardinality(Woke(u)') = Cardinality(Woke(u))
        BY <4>1
      <4> QED BY <1>8, <3>1, <4>1, <4>2 DEF Spoken
    <3> QED BY <3>2, <3>3
  <2> QED BY <2>3, <2>5, NoLostWakeNext
<1>10. CASE ~(lock[s] > 0)
  <2>1. UNCHANGED <<waiting, blocked, pending, woken>>
    BY <1>10 DEF Unlock, lists, queueLOCKED_UNMODIFIED
  <2>2. \A u : WaitersOf(u)' = WaitersOf(u) /\ Woke(u)' = Woke(u)
    BY <2>1, SameWaiters DEF Woke, Side
  <2>3. QueueTypes'
    BY <1>1, <1>2, <1>3, <1>5, <2>1 DEF QueueTypes
  <2>4. Lists'
    <3>1. \A u \in Sides : WaitersOf(u) \subseteq Tasks
      BY <1>1, WaitersAreTasks
    <3>2. \A u \in Tasks : pc[u] \in {"tx", "rx", "resume", "try"} => pc'[u] \in {"tx", "rx", "resume", "try"}
      BY <1>6
    <3> QED BY <1>1, <1>3, <2>1, <2>2, <3>1, <3>2 DEF Lists, Side
  <2>5. Calls'
    <3>1. \A u \in Tasks : pc'[u] \in Trying => pc'[u] = pc[u]
      BY <1>6 DEF Trying
    <3>2. \A u \in Tasks : pc'[u] \in Inside => suspender' = u
      BY <1>1, <1>2, <1>3, <1>6 DEF Calls, Inside
    <3> QED BY <1>1, <1>3, <1>7, <2>1, <3>1, <3>2 DEF Calls
  <2>6. ASSUME NEW u \in Sides PROVE Spoken(u)'
    <3>1. /\ lock[u] \in Int /\ Len(waiting[u]) \in Nat /\ waiting'[u] = waiting[u]
          /\ (waiting[u] # <<>> => Len(waiting[u]) > 0)
          /\ Available(u) \in Int /\ Cardinality(Woke(u)) \in Nat /\ Available(u)' = Available(u)
          /\ Cardinality(Woke(u)') = Cardinality(Woke(u))
      BY <1>1, <1>3, <2>1, <2>2, AtMostIs, WokeCount, QueueAssumption DEF Available, QueueTypes
    <3>2. lock'[u] = lock[u] \/ (~(lock[u] > 0) /\ lock'[u] = -1)
      BY <1>5, <1>10
    <3> QED BY <1>8, <3>1, <3>2 DEF Spoken
  <2> QED BY <2>3, <2>4, <2>5, <2>6, NoLostWakeNext DEF Places
<1> QED BY <1>9, <1>10

\* An event wakes a task, or is counted for prvUnlockQueue(); a count that is at
\* its limit already stands for every task there is.
LEMMA EventStep ==
  ASSUME Places, NoLostWake, IsFiniteSet(Tasks), NEW s \in Sides, Event(s),
         UNCHANGED <<suspender, pc, ticks>>, uxMessagesWaiting' \in 0..Length,
         \A u \in Sides : Available(u)' = Available(u) + (IF u = s THEN 1 ELSE -1)
  PROVE  Places' /\ NoLostWake'
<1>1. QueueTypes /\ Lists /\ Calls
  BY DEF Places
<1>2. NumberOfTasks \in Nat /\ lock \in [Sides -> -1..NumberOfTasks] /\ pc' = pc
  BY <1>1, FS_CardinalityType DEF QueueTypes, NumberOfTasks
<1>3. \A u \in Sides : Spoken(u)
  BY NoLostWakeIs
<1>4. CASE lock[s] = -1
  <2>1. PICK k \in 0..Len(waiting[s]) : k = AtMost(1, s)
    BY <1>1, AtMostIs
  <2>2. Wake(s, k, {}) /\ lock' = lock
    BY <1>4, <2>1 DEF Event, queueUNLOCKED
  <2>3. Places'
    <3>1. PICK run : run = {}
      OBVIOUS
    <3>2. Wake(s, k, run) /\ run \subseteq Tasks /\ (\A u \in Sides : run \cap WaitersOf(u) = {})
          /\ (run = {} \/ suspender = Nobody)
      BY <2>2, <3>1
    <3>3. DOMAIN pc' = Tasks /\ UNCHANGED <<ticks, suspender>> /\ lock' \in [Sides -> -1..NumberOfTasks]
      BY <1>1, <1>2, <2>2 DEF QueueTypes
    <3>4. /\ \A u \in Tasks : pc'[u] = pc[u] \/ pc'[u] = "idle" \/ pc'[u] \in {"rx", "resume"}
          /\ \A u \in Tasks : u \notin run => pc'[u] = pc[u] \/ pc[u] \in {"tx", "rx"}
          /\ \A u \in Tasks : pc'[u] = "idle" => pc[u] = "idle" \/ u \in run
      BY <1>2
    <3>5. \A u \in Tasks : pc'[u] \in {"rx", "resume"} => suspender = u /\ pc'[u] # "place"
      BY <1>1, <1>2 DEF Calls, Inside
    <3>6. \A u \in Tasks : pc'[u] \notin {"check", "ask", "place"}
      BY <1>1, <1>2, <1>4 DEF Calls
    <3>7. /\ \A u \in Tasks : pc'[u] \in {"check", "ask", "place"} => \A v \in Sides : lock'[v] >= 0
          /\ \A u \in Tasks : pc'[u] = "place" => Counted(Side(u))'
      BY <3>6
    <3> QED BY <3>2, <3>3, <3>4, <3>5, <3>7, WakePlaces
  <2>4. CountsMove(s, k, {})
    BY <2>1, <2>2, WakeAlone
  <2>5. ASSUME NEW u \in Sides PROVE Spoken(u)'
    <3>1. /\ lock[u] \in Int /\ Len(waiting[u]) \in Nat /\ Len(waiting'[u]) \in Nat
          /\ (waiting[u] # <<>> => Len(waiting[u]) > 0) /\ (waiting'[u] # <<>> => Len(waiting'[u]) > 0)
          /\ Available(u) \in Int /\ Cardinality(Woke(u)) \in Nat
      BY <1>1, <2>4, Numbers DEF CountsMove
    <3>2. Woke(u) \ {} = Woke(u)
      OBVIOUS
    <3>3. CASE u = s
      <4>1. /\ Len(waiting'[s]) = Len(waiting[s]) - k
            /\ Cardinality(Woke(s)') = Cardinality(Woke(s)) + k
        BY <2>4, <3>2, <3>3 DEF CountsMove
      <4>2. SUFFICES ASSUME waiting'[s] # <<>> PROVE Spoken(s)'
        BY <3>3 DEF Spoken
      <4>3. waiting[s] # <<>> /\ k = 1
        BY <1>1, <2>1, <3>1, <3>3, <4>1, <4>2, AtMostIs
      <4>4. Available(s) <= Cardinality(Woke(s))
        BY <1>3, <1>4, <3>1, <3>3, <4>3 DEF Spoken
      <4>5. Available(s)' = Available(s) + 1
        OBVIOUS
      <4>6. Available(s)' <= Cardinality(Woke(s)') /\ lock'[s] = -1
        BY <1>4, <2>2, <3>1, <3>3, <4>1, <4>3, <4>4, <4>5
      <4>7. Cardinality(Woke(s)') \in Int /\ ~(lock'[s] > 0)
        BY <2>2, <3>1, <3>3, <4>1, <4>6
      <4>8. Available(s)' <= Cardinality(Woke(s)') + 0
        BY <4>6, <4>7
      <4> QED BY <4>7, <4>8 DEF Spoken
    <3>4. CASE u # s
      <4>1. waiting'[u] = waiting[u] /\ Cardinality(Woke(u)') = Cardinality(Woke(u)) /\ lock'[u] = lock[u]
        BY <2>2, <2>4, <3>2, <3>4 DEF CountsMove
      <4>2. Available(u)' <= Available(u)
        BY <3>1, <3>4
      <4>3. SUFFICES ASSUME waiting[u] # <<>>, ~(lock[u] >= Len(waiting[u]))
                     PROVE  Available(u)' <= Cardinality(Woke(u)') + (IF lock'[u] > 0 THEN lock'[u] ELSE 0)
        BY <4>1 DEF Spoken
      <4>4. Available(u) <= Cardinality(Woke(u)) + (IF lock[u] > 0 THEN lock[u] ELSE 0)
        BY <1>3, <4>3 DEF Spoken
      <4>5. Available(u)' \in Int
        BY <3>1, <3>4
      <4> QED BY <3>1, <4>1, <4>2, <4>4, <4>5
    <3> QED BY <3>3, <3>4
  <2> QED BY <2>3, <2>5, NoLostWakeNext
<1>5. CASE lock[s] # -1
  <2>1. /\ UNCHANGED <<waiting, blocked, pending, woken>>
        /\ lock' = [lock EXCEPT ![s] = IF lock[s] < NumberOfTasks THEN lock[s] + 1 ELSE lock[s]]
    BY <1>5 DEF Event, lists, queueUNLOCKED
  <2>2. /\ lock[s] \in 0..NumberOfTasks /\ \A u \in Sides \ {s} : lock'[u] = lock[u]
        /\ lock'[s] = IF lock[s] < NumberOfTasks THEN lock[s] + 1 ELSE NumberOfTasks
    BY <1>2, <1>5, <2>1
  <2>3. lock' \in [Sides -> -1..NumberOfTasks] /\ \A u \in Sides : lock'[u] >= lock[u]
    BY <1>2, <2>1, <2>2
  <2>4. \A u : WaitersOf(u)' = WaitersOf(u) /\ Woke(u)' = Woke(u)
    BY <2>1, SameWaiters DEF Woke, Side
  <2>5. \A u \in Sides : Available(u) \in Int /\ lock[u] \in Int /\ lock'[u] \in Int
    BY <1>1, <1>2, <2>3, QueueAssumption DEF Available, QueueTypes
  <2>6. QueueTypes'
    BY <1>1, <2>1, <2>3 DEF QueueTypes
  <2>7. Lists'
    BY <1>1, <2>1, <2>4 DEF Lists, Side
  <2>8. ASSUME NEW u \in Sides, Counted(u) PROVE Counted(u)'
    <3>1. CASE u = s
      <4>1. Available(s)' = Available(s) + 1
        OBVIOUS
      <4> QED BY <1>2, <2>2, <2>5, <2>8, <3>1, <4>1 DEF Counted
    <3>2. CASE u # s
      <4>1. Available(u)' = Available(u) - 1 /\ lock'[u] = lock[u]
        BY <2>2, <2>5, <3>2
      <4> QED BY <2>5, <2>8, <4>1 DEF Counted
    <3> QED BY <3>1, <3>2
  <2>9. Calls'
    <3>1. \A t \in Tasks : pc[t] \in {"check", "ask", "place"} => \A u \in Sides : lock'[u] >= 0
      BY <1>1, <2>3, <2>5 DEF Calls
    <3>2. \A t \in Tasks : pc[t] = "place" => Counted(Side(t))'
      BY <1>1, <2>8, SideIs DEF Calls
    <3> QED BY <1>1, <1>2, <2>1, <3>1, <3>2 DEF Calls, Side
  <2>10. ASSUME NEW u \in Sides PROVE Spoken(u)'
    <3>1. /\ Len(waiting[u]) \in Nat /\ waiting'[u] = waiting[u] /\ Len(waiting[u]) <= NumberOfTasks
          /\ Cardinality(Woke(u)) \in Nat /\ Cardinality(Woke(u)') = Cardinality(Woke(u))
      BY <1>1, <2>1, <2>4, AtMostIs, WokeCount, ListLength
    <3>2. CASE u = s
      <4>1. Available(s)' = Available(s) + 1
        OBVIOUS
      <4>2. CASE lock[s] = NumberOfTasks
        BY <1>2, <2>2, <3>1, <3>2, <4>2 DEF Spoken
      <4>3. CASE lock[s] < NumberOfTasks
        BY <1>2, <1>3, <2>2, <2>5, <3>1, <3>2, <4>1, <4>3, SMTT(30) DEF Spoken
      <4> QED BY <1>2, <2>2, <4>2, <4>3
    <3>3. CASE u # s
      <4>1. Available(u)' = Available(u) - 1 /\ lock'[u] = lock[u]
        BY <2>2, <2>5, <3>3
      <4> QED BY <1>3, <2>5, <3>1, <4>1 DEF Spoken
    <3> QED BY <3>2, <3>3
  <2> QED BY <2>6, <2>7, <2>9, <2>10, NoLostWakeNext DEF Places
<1> QED BY <1>4, <1>5

LEMMA EventStepOf ==
  ASSUME Places, NoLostWake, IsFiniteSet(Tasks), SendFromISR \/ ReceiveFromISR
  PROVE  Places' /\ NoLostWake'
<1>1. /\ uxMessagesWaiting \in 0..Length /\ Length \in Nat /\ Length > 0
      /\ Available("send") = Length - uxMessagesWaiting /\ Available("recv") = uxMessagesWaiting
      /\ Available("send")' = Length - uxMessagesWaiting' /\ Available("recv")' = uxMessagesWaiting'
      /\ \A u \in Sides : u = "send" \/ u = "recv"
      /\ "send" \in Sides /\ "recv" \in Sides
  BY QueueAssumption DEF Places, QueueTypes, Available, Sides
<1>2. CASE SendFromISR
  <2>1. uxMessagesWaiting' = uxMessagesWaiting + 1 /\ uxMessagesWaiting' \in 0..Length
    BY <1>1, <1>2 DEF SendFromISR, CopyTo, Full
  <2>2. \A u \in Sides : Available(u)' = Available(u) + (IF u = "recv" THEN 1 ELSE -1)
    BY <1>1, <2>1
  <2> QED BY <1>1, <1>2, <2>1, <2>2, EventStep DEF SendFromISR
<1>3. CASE ReceiveFromISR
  <2>1. uxMessagesWaiting' = uxMessagesWaiting - 1 /\ uxMessagesWaiting' \in 0..Length
    BY <1>1, <1>3 DEF ReceiveFromISR, CopyFrom, Empty
  <2>2. \A u \in Sides : Available(u)' = Available(u) + (IF u = "send" THEN 1 ELSE -1)
    BY <1>1, <2>1
  <2> QED BY <1>1, <1>3, <2>1, <2>2, EventStep DEF ReceiveFromISR
<1> QED BY <1>2, <1>3

\* A task on no list leaves room in it.
LEMMA ListRoom ==
  ASSUME QueueTypes, Lists, IsFiniteSet(Tasks), NEW s \in Sides, NEW t \in Tasks, t \notin WaitersOf(s)
  PROVE  Len(waiting[s]) + 1 <= NumberOfTasks
<1>1. waiting[s] \in Seq(Tasks) /\ Once(waiting[s])
  BY DEF QueueTypes, Lists
<1>2. IsFiniteSet(WaitersOf(s)) /\ Cardinality(WaitersOf(s)) = Len(waiting[s])
  <2>1. Len(waiting[s]) \in 0..Len(waiting[s])
    BY <1>1
  <2>2. /\ IsFiniteSet(FirstOf(waiting[s], Len(waiting[s])))
        /\ Cardinality(FirstOf(waiting[s], Len(waiting[s]))) = Len(waiting[s])
    BY <1>1, <2>1, FirstOfList
  <2> QED BY <2>2 DEF WaitersOf, FirstOf
<1>3. WaitersOf(s) \cup {t} \subseteq Tasks
  BY <1>1 DEF WaitersOf
<1>4. Cardinality(WaitersOf(s) \cup {t}) = Len(waiting[s]) + 1
  BY <1>2, FS_AddElement
<1> QED BY <1>3, <1>4, FS_Subset DEF NumberOfTasks

\* A task goes to the list only while what has come since it looked is counted.
LEMMA PlaceStep ==
  ASSUME Places, NoLostWake, IsFiniteSet(Tasks), NEW t \in Tasks, PlaceOnEventList(t)
  PROVE  Places' /\ NoLostWake'
<1>1. QueueTypes /\ Lists /\ Calls
  BY DEF Places
<1>2. PICK s \in Sides : s = Side(t)
  BY SideIs
<1>3. /\ pc[t] = "place" /\ suspender = t /\ pc' = [pc EXCEPT ![t] = "tx"] /\ DOMAIN pc = Tasks
      /\ waiting' = [waiting EXCEPT ![s] = Insert(waiting[s], t, Prio)]
      /\ blocked' = blocked \cup {t}
      /\ UNCHANGED <<uxMessagesWaiting, lock, pending, woken, suspender, ticks>>
  BY <1>1, <1>2 DEF PlaceOnEventList, Alone, Goto, QueueTypes, ring
<1>4. waiting[s] \in Seq(Tasks) /\ Once(waiting[s]) /\ waiting \in [Sides -> Seq(Tasks)]
  BY <1>1 DEF QueueTypes, Lists
<1>5. ticks[t] # "none" /\ t \notin woken /\ Counted(s)
  BY <1>1, <1>2, <1>3 DEF Calls, Trying
<1>6. \A u \in Sides : t \notin WaitersOf(u)
  BY <1>1, <1>3 DEF Lists
<1>7. \A i \in 1..Len(waiting[s]) : waiting[s][i] # t
  BY <1>6 DEF WaitersOf
<1>8. /\ Insert(waiting[s], t, Prio) \in Seq(Tasks)
      /\ Len(Insert(waiting[s], t, Prio)) = Len(waiting[s]) + 1
      /\ \A i \in 1..(Len(waiting[s]) + 1) :
           Insert(waiting[s], t, Prio)[i] \in {waiting[s][j] : j \in 1..Len(waiting[s])} \cup {t}
  BY <1>4, InsertElements
<1>9. Once(Insert(waiting[s], t, Prio))
  BY <1>4, <1>7, InsertOnce
<1> DEFINE new == Insert(waiting[s], t, Prio)
<1> HIDE DEF new
<1>10. /\ waiting' \in [Sides -> Seq(Tasks)] /\ Len(waiting'[s]) = Len(waiting[s]) + 1
       /\ waiting'[s] = new /\ Once(new) /\ \A u \in Sides \ {s} : waiting'[u] = waiting[u]
  BY <1>3, <1>4, <1>8, <1>9 DEF new
<1>11. \A u \in Sides : \A x \in WaitersOf(u)' : x \in WaitersOf(u) \/ (u = s /\ x = t)
  <2>1. \A u \in Sides \ {s} : WaitersOf(u)' = WaitersOf(u)
    BY <1>10 DEF WaitersOf
  <2>2. \A x \in WaitersOf(s)' : x \in WaitersOf(s) \/ x = t
    BY <1>8, <1>10 DEF WaitersOf, new
  <2> QED BY <2>1, <2>2
<1>12. \A u \in Tasks : (u # t /\ pc'[u] = pc[u]) \/ (u = t /\ pc'[u] = "tx")
  BY <1>3
<1>13. QueueTypes'
  BY <1>1, <1>3, <1>10 DEF QueueTypes
<1>14. Lists'
  <2>1. \A u \in Sides : Once(waiting'[u])
    BY <1>1, <1>10 DEF Lists
  <2>2. \A u \in Sides : WaitersOf(u) \subseteq Tasks
    BY <1>1, WaitersAreTasks
  <2>3. ASSUME NEW u \in Sides, NEW x \in WaitersOf(u)'
        PROVE  /\ Side(x) = u /\ x \in blocked' /\ x \notin woken'
               /\ pc'[x] \in {"tx", "rx", "resume", "try"} /\ ticks'[x] # "none"
    <3>1. CASE x \in WaitersOf(u)
      BY <1>1, <1>3, <1>12, <2>2, <3>1 DEF Lists
    <3>2. CASE u = s /\ x = t
      BY <1>2, <1>3, <1>5, <1>12, <3>2
    <3> QED BY <1>11, <2>3, <3>1, <3>2
  <2> QED BY <2>1, <2>3 DEF Lists, Side
<1>15. Calls'
  <2>1. \A u \in Tasks : pc'[u] \in Trying => pc'[u] = pc[u]
    BY <1>12 DEF Trying
  <2>2. \A u \in Tasks : pc'[u] \in Inside => suspender' = u
    BY <1>1, <1>3, <1>12 DEF Calls, Inside
  <2>3. \A u \in Tasks : pc'[u] \notin {"check", "ask", "place"}
    BY <1>1, <1>3, <1>12 DEF Calls, Inside
  <2> QED BY <1>1, <1>3, <2>1, <2>2, <2>3 DEF Calls
<1>16. ASSUME NEW u \in Sides PROVE Spoken(u)'
  <2>1. UNCHANGED <<lock, uxMessagesWaiting, woken>>
    BY <1>3
  <2>2. Available(u)' = Available(u) /\ Woke(u)' = Woke(u)
    BY <2>1 DEF Available, Woke, Side
  <2>3. Cardinality(Woke(u)') = Cardinality(Woke(u)) /\ lock'[u] = lock[u]
    BY <2>1, <2>2
  <2>4. /\ lock[u] \in Int /\ Len(waiting[u]) \in Nat /\ Available(u) \in Int
        /\ Cardinality(Woke(u)) \in Nat
    BY <1>1, <1>10, Numbers
  <2>5. CASE u = s
    <3>1. Len(waiting'[s]) <= NumberOfTasks
      BY <1>1, <1>6, <1>10, ListRoom
    <3>2. CASE lock[s] = NumberOfTasks
      BY <2>3, <2>4, <2>5, <3>1, <3>2 DEF Spoken
    <3>3. CASE Available(s) <= lock[s]
      <4>1. Available(s) <= Cardinality(Woke(s)) + (IF lock[s] > 0 THEN lock[s] ELSE 0)
        BY <2>4, <2>5, <3>3
      <4> QED BY <2>2, <2>3, <2>5, <4>1 DEF Spoken
    <3> QED BY <1>5, <3>2, <3>3 DEF Counted
  <2>6. CASE u # s
    <3>1. Spoken(u) /\ waiting'[u] = waiting[u]
      BY <1>10, <2>6, NoLostWakeIs
    <3> QED BY <2>2, <2>3, <3>1 DEF Spoken
  <2> QED BY <2>5, <2>6
<1> QED BY <1>13, <1>14, <1>15, <1>16, NoLostWakeNext DEF Places

\* A time-out takes a task off its list; what was spoken for stays so.
LEMMA ElapseStep ==
  ASSUME Places, NoLostWake, IsFiniteSet(Tasks), NEW t \in Tasks, Elapse(t)
  PROVE  Places' /\ NoLostWake'
<1>1. QueueTypes /\ Lists /\ Calls
  BY DEF Places
<1>2. /\ suspender = Nobody /\ blocked' = blocked \ {t}
      /\ waiting' = [s \in Sides |-> Without(waiting[s], t)]
      /\ UNCHANGED <<uxMessagesWaiting, lock, pending, woken, suspender, pc, ticks>>
  BY DEF Elapse, ring
<1>3. ASSUME NEW s \in Sides
      PROVE  /\ waiting'[s] \in Seq(Tasks) /\ Once(waiting'[s])
             /\ \A i \in 1..Len(waiting'[s]) : waiting'[s][i] \in WaitersOf(s) \ {t}
             /\ Len(waiting'[s]) <= Len(waiting[s])
  <2>1. PICK list \in Seq(Tasks) : list = waiting[s]
    BY <1>1 DEF QueueTypes
  <2>2. Once(list)
    BY <1>1, <2>1 DEF Lists
  <2>4. /\ Without(list, t) \in Seq(Tasks) /\ Once(Without(list, t))
        /\ Len(Without(list, t)) <= Len(list)
        /\ \A i \in 1..Len(Without(list, t)) :
             Without(list, t)[i] # t /\ \E k \in 1..Len(list) : Without(list, t)[i] = list[k]
    BY <2>2, WithoutOnce
  <2>5. waiting'[s] = Without(list, t)
    BY <1>2, <2>1
  <2> QED BY <2>1, <2>4, <2>5 DEF WaitersOf
<1>4. waiting' \in [Sides -> Seq(Tasks)]
  BY <1>2, <1>3
<1>5. \A s \in Sides : \A x \in WaitersOf(s)' : x \in WaitersOf(s) /\ x # t
  BY <1>3 DEF WaitersOf
<1>6. QueueTypes'
  BY <1>1, <1>2, <1>4 DEF QueueTypes
<1>7. Lists'
  BY <1>1, <1>2, <1>3, <1>5 DEF Lists, Side
<1>8. Calls'
  BY <1>1, <1>2 DEF Calls, Counted, Available, Side
<1>9. ASSUME NEW u \in Sides PROVE Spoken(u)'
  <2>1. Available(u)' = Available(u) /\ Woke(u)' = Woke(u) /\ lock' = lock
    BY <1>2 DEF Available, Woke, Side
  <2>2. /\ lock[u] \in Int /\ Len(waiting[u]) \in Nat /\ Len(waiting'[u]) \in Nat
        /\ (waiting'[u] # <<>> => Len(waiting'[u]) > 0) /\ Len(waiting'[u]) <= Len(waiting[u])
    BY <1>1, <1>3, <1>4, Numbers
  <2>3. waiting'[u] # <<>> => waiting[u] # <<>>
    BY <2>2
  <2>4. Spoken(u) /\ lock'[u] = lock[u] /\ Cardinality(Woke(u)') = Cardinality(Woke(u))
    BY <2>1, NoLostWakeIs
  <2> QED BY <2>1, <2>2, <2>3, <2>4 DEF Spoken
<1> QED BY <1>6, <1>7, <1>8, <1>9, NoLostWakeNext DEF Places
---------------------------------------------------------------------------
WakeInv == Places /\ NoLostWake

LEMMA WakeInit ==
  ASSUME IsFiniteSet(Tasks), Init PROVE WakeInv
<1>1. NumberOfTasks \in Nat
  BY FS_CardinalityType DEF NumberOfTasks
<1>2. /\ uxMessagesWaiting = 0 /\ lock = [s \in Sides |-> -1] /\ waiting = [s \in Sides |-> <<>>]
      /\ suspender = Nobody /\ pending = {} /\ woken = {}
      /\ pc = [t \in Tasks |-> "idle"] /\ ticks = [t \in Tasks |-> "none"]
  BY DEF Init, queueUNLOCKED
<1>3. QueueTypes
  BY <1>1, <1>2, QueueAssumption DEF QueueTypes
<1>4. Lists
  BY <1>2 DEF Lists, Once, WaitersOf
<1>5. Calls
  BY <1>2 DEF Calls, Trying, Inside
<1>6. NoLostWake
  BY <1>2 DEF NoLostWake
<1> QED BY <1>3, <1>4, <1>5, <1>6 DEF WakeInv, Places

LEMMA WakeNext ==
  ASSUME IsFiniteSet(Tasks), WakeInv, [Next]_vars PROVE WakeInv'
<1> SUFFICES Places' /\ NoLostWake'
  BY DEF WakeInv
<1>1. Places /\ NoLostWake
  BY DEF WakeInv
<1>2. ASSUME NEW t \in Tasks, Call(t) \/ Step(t) \/ Elapse(t) PROVE Places' /\ NoLostWake'
  <2>1. CASE Call(t) \/ SuspendAll(t) \/ LockQueue(t) \/ Check(t) \/ Ask(t) \/ ResumeAll(t) \/ Recheck(t)
    BY <1>1, <2>1, QuietPlaces, QuietWake
  <2>2. CASE TrySend(t) \/ TryReceive(t) \/ TryPeek(t)
    BY <1>1, <2>2, TryStepOf
  <2>3. CASE PlaceOnEventList(t)
    BY <1>1, <2>3, PlaceStep
  <2>4. CASE UnlockTx(t)
    <3>1. "recv" \in Sides /\ "rx" \in {"rx", "resume"}
      BY DEF Sides
    <3> QED BY <1>1, <2>4, <3>1, UnlockStep DEF UnlockTx
  <2>5. CASE UnlockRx(t)
    <3>1. "send" \in Sides /\ "resume" \in {"rx", "resume"}
      BY DEF Sides
    <3> QED BY <1>1, <2>5, <3>1, UnlockStep DEF UnlockRx
  <2>6. CASE Elapse(t)
    BY <1>1, <2>6, ElapseStep
  <2> QED BY <1>2, <2>1, <2>2, <2>3, <2>4, <2>5, <2>6 DEF Step
<1>3. CASE SendFromISR \/ ReceiveFromISR
  BY <1>1, <1>3, EventStepOf
<1>4. CASE UNCHANGED vars
  <2>1. UNCHANGED <<uxMessagesWaiting, lock, waiting, blocked, pending, woken, suspender, pc, ticks>>
    BY <1>4 DEF vars, ring, lists
  <2>2. Places'
    <3>1. \A s : WaitersOf(s)' = WaitersOf(s)
      BY <2>1, SameWaiters
    <3> QED BY <1>1, <2>1, <3>1 DEF Places, QueueTypes, Lists, Calls, Counted, Available, Side
  <2>3. NoLostWake'
    <3>1. \A s : Woke(s)' = Woke(s) /\ Available(s)' = Available(s)
      BY <2>1 DEF Woke, Available, Side
    <3>2. \A s \in Sides : Spoken(s)
      BY <1>1, NoLostWakeIs
    <3>3. ASSUME NEW s \in Sides PROVE Spoken(s)'
      BY <2>1, <3>1, <3>2 DEF Spoken
    <3> QED BY <3>3, NoLostWakeNext
  <2> QED BY <2>2, <2>3
<1> QED BY <1>2, <1>3, <1>4, Zenon DEF Next

\* A task sleeps on the queue only while what it waits for is spoken for: by a
\* task that was woken and still has to run, or by the count of a lock.
THEOREM NoLostWakeCorrect ==
  ASSUME IsFiniteSet(Tasks) PROVE Spec => []NoLostWake
<1>1. Init => WakeInv
  BY WakeInit
<1>2. WakeInv /\ [Next]_vars => WakeInv'
  BY WakeNext
<1>3. WakeInv => NoLostWake
  BY DEF WakeInv
<1> QED BY <1>1, <1>2, <1>3, PTL DEF Spec
---------------------------------------------------------------------------
\* The ring: the next item to read is behind pcReadFrom, and pcWriteTo is
\* uxMessagesWaiting places behind that one.
Slots == 0..(Length - 1)
Wrap(x) == IF x < Length THEN x ELSE x - Length
Before(x) == IF x = 0 THEN Length - 1 ELSE x - 1
Values == Items \cup {NoItem}

RingInv ==
  /\ store \in [Slots -> Values]
  /\ uxMessagesWaiting \in 0..Length
  /\ pcReadFrom \in Slots
  /\ pcWriteTo = Wrap(Wrap(pcReadFrom + 1) + uxMessagesWaiting)

\* The items of a ring of u items, in the order in which they are read.
Of(st, r, u) == [i \in 1..u |-> st[Wrap(r + i)]]

LEMMA Wrapped ==
  ASSUME NEW x \in 0..(2 * Length - 1) PROVE x % Length = Wrap(x)
<1> USE QueueAssumption DEF Wrap
<1>1. CASE x < Length
  BY <1>1, SMTT(20)
<1>2. CASE ~(x < Length)
  BY <1>2, SMTT(20)
<1> QED BY <1>1, <1>2

LEMMA OfSeq ==
  ASSUME NEW S, NEW st \in [Slots -> S], NEW r \in Slots, NEW u \in 0..Length
  PROVE  Of(st, r, u) \in Seq(S) /\ Len(Of(st, r, u)) = u
<1>1. \A i \in 1..u : Wrap(r + i) \in Slots
  BY QueueAssumption DEF Wrap, Slots
<1>2. \A i \in 1..u : st[Wrap(r + i)] \in S
  BY <1>1
<1> HIDE DEF Wrap, Slots
<1>3. u \in Nat
  BY QueueAssumption
<1> QED BY <1>2, <1>3 DEF Of

\* An item put behind the others is the last.
LEMMA OfBack ==
  ASSUME NEW S, NEW st \in [Slots -> S], NEW r \in Slots, NEW u \in 0..(Length - 1), NEW v \in S
  PROVE  Of([st EXCEPT ![Wrap(r + (u + 1))] = v], r, u + 1) = Append(Of(st, r, u), v)
<1> DEFINE w == Wrap(r + (u + 1))
           new == [st EXCEPT ![w] = v]
<1>1. w \in Slots /\ u \in 0..Length /\ u + 1 \in 0..Length /\ u \in Nat
  BY QueueAssumption DEF Wrap, Slots
<1>2. \A i \in 1..u : Wrap(r + i) \in Slots /\ Wrap(r + i) # w
  BY QueueAssumption DEF Wrap, Slots
<1>3. new \in [Slots -> S] /\ new[w] = v /\ \A i \in 1..u : new[Wrap(r + i)] = st[Wrap(r + i)]
  BY <1>1, <1>2
<1>a. Of(st, r, u) \in Seq(S) /\ Len(Of(st, r, u)) = u
  BY <1>1, OfSeq
<1>b. PICK n \in 0..Length : n = u + 1
  BY <1>1
<1>c. PICK after \in [Slots -> S] : after = new
  BY <1>3
<1>d. Of(after, r, n) \in Seq(S) /\ Len(Of(after, r, n)) = n
  BY OfSeq
<1>4. /\ Of(new, r, u + 1) \in Seq(S) /\ Len(Of(new, r, u + 1)) = u + 1
      /\ Of(st, r, u) \in Seq(S) /\ Len(Of(st, r, u)) = u
  BY <1>a, <1>b, <1>c, <1>d
<1>5. \A i \in 1..u : Of(new, r, u + 1)[i] = Of(st, r, u)[i]
  BY <1>1, <1>3 DEF Of
<1>6. Of(new, r, u + 1)[u + 1] = v
  BY <1>1, <1>3 DEF Of
<1> HIDE DEF w, new
<1>7. /\ Append(Of(st, r, u), v) \in Seq(S) /\ Len(Append(Of(st, r, u), v)) = u + 1
      /\ \A i \in 1..u : Append(Of(st, r, u), v)[i] = Of(st, r, u)[i]
      /\ Append(Of(st, r, u), v)[u + 1] = v
  BY <1>1, <1>4
<1>8. \A i \in 1..(u + 1) : Of(new, r, u + 1)[i] = Append(Of(st, r, u), v)[i]
  BY <1>1, <1>5, <1>6, <1>7
<1>9. Of(new, r, u + 1) = Append(Of(st, r, u), v)
  BY <1>4, <1>7, <1>8, SeqEqual
<1> QED BY <1>9 DEF new, w

\* An item put in front of the others is the first.
LEMMA OfFront ==
  ASSUME NEW S, NEW st \in [Slots -> S], NEW r \in Slots, NEW u \in 0..(Length - 1), NEW v \in S
  PROVE  Of([st EXCEPT ![r] = v], Before(r), u + 1) = <<v>> \o Of(st, r, u)
<1>0. PICK q \in Slots : q = Before(r) /\ q = IF r = 0 THEN Length - 1 ELSE r - 1
  BY QueueAssumption DEF Before, Slots
<1>1. u \in 0..Length /\ u + 1 \in 0..Length /\ u \in Nat
  BY QueueAssumption
<1>2. /\ \A i \in 1..u : Wrap(r + i) \in Slots /\ Wrap(r + i) # r /\ Wrap(q + (i + 1)) = Wrap(r + i)
      /\ Wrap(q + 1) = r
  BY <1>0, QueueAssumption DEF Wrap, Slots
<1>3. PICK after \in [Slots -> S] : after = [st EXCEPT ![r] = v]
  OBVIOUS
<1>4. PICK n \in 0..Length : n = u + 1
  BY <1>1
<1>5. after[r] = v /\ \A i \in 1..u : after[Wrap(r + i)] = st[Wrap(r + i)]
  BY <1>2, <1>3
<1>6. Of(st, r, u) \in Seq(S) /\ Len(Of(st, r, u)) = u
  BY <1>1, OfSeq
<1>7. Of(after, q, n) \in Seq(S) /\ Len(Of(after, q, n)) = n
  BY OfSeq
<1>8. Of(after, q, n)[1] = v
  BY <1>1, <1>2, <1>4, <1>5 DEF Of
<1>9. \A i \in 1..u : Of(after, q, n)[i + 1] = Of(st, r, u)[i]
  BY <1>1, <1>2, <1>4, <1>5 DEF Of
<1>10. /\ <<v>> \o Of(st, r, u) \in Seq(S) /\ Len(<<v>> \o Of(st, r, u)) = u + 1
       /\ (<<v>> \o Of(st, r, u))[1] = v
       /\ \A i \in 1..u : (<<v>> \o Of(st, r, u))[i + 1] = Of(st, r, u)[i]
  BY <1>1, <1>6
<1>11. \A i \in 1..(u + 1) : i = 1 \/ (i - 1 \in 1..u /\ i = (i - 1) + 1)
  BY <1>1
<1>12. \A i \in 1..n : Of(after, q, n)[i] = (<<v>> \o Of(st, r, u))[i]
  BY <1>4, <1>8, <1>9, <1>10, <1>11
<1>13. Of(after, q, n) = <<v>> \o Of(st, r, u)
  BY <1>4, <1>7, <1>10, <1>12, SeqEqual
<1> QED BY <1>0, <1>3, <1>4, <1>13

\* What is taken is the first, and the others stay in their order.
LEMMA OfTaken ==
  ASSUME NEW S, NEW st \in [Slots -> S], NEW r \in Slots, NEW u \in 1..Length, NEW v \in S
  PROVE  /\ Of(st, r, u) # <<>>
         /\ Of([st EXCEPT ![Wrap(r + 1)] = v], Wrap(r + 1), u - 1) = Tail(Of(st, r, u))
<1>0. PICK q \in Slots : q = Wrap(r + 1)
  <2>1. Wrap(r + 1) \in Slots
    BY QueueAssumption DEF Wrap, Slots
  <2> QED BY <2>1
<1>1. u \in 0..Length /\ u - 1 \in 0..Length /\ u \in Nat
  BY QueueAssumption
<1>2. \A i \in 1..(u - 1) : /\ Wrap(q + i) \in Slots /\ Wrap(q + i) # q
                            /\ Wrap(q + i) = Wrap(r + (i + 1)) /\ i + 1 \in 1..u
  BY <1>0, QueueAssumption DEF Wrap, Slots
<1>3. PICK after \in [Slots -> S] : after = [st EXCEPT ![q] = v]
  OBVIOUS
<1>4. PICK n \in 0..Length : n = u - 1
  BY <1>1
<1>5. \A i \in 1..n : after[Wrap(q + i)] = st[Wrap(r + (i + 1))]
  BY <1>2, <1>3, <1>4
<1>6. Of(st, r, u) \in Seq(S) /\ Len(Of(st, r, u)) = u
  BY <1>1, OfSeq
<1>7. Of(after, q, n) \in Seq(S) /\ Len(Of(after, q, n)) = n
  BY OfSeq
<1>8. \A i \in 1..n : Of(after, q, n)[i] = Of(st, r, u)[i + 1]
  BY <1>2, <1>4, <1>5 DEF Of
<1>9. Of(st, r, u) # <<>>
  BY <1>6
<1>10. /\ Tail(Of(st, r, u)) \in Seq(S) /\ Len(Tail(Of(st, r, u))) = n
       /\ \A i \in 1..n : Tail(Of(st, r, u))[i] = Of(st, r, u)[i + 1]
  BY <1>4, <1>6, <1>9
<1>11. Of(after, q, n) = Tail(Of(st, r, u))
  BY <1>7, <1>8, <1>10, SeqEqual
<1> QED BY <1>0, <1>3, <1>4, <1>9, <1>11

ContentsAreOf == Contents = Of(store, pcReadFrom, uxMessagesWaiting)

LEMMA ContentsIs == RingInv => ContentsAreOf
<1> SUFFICES ASSUME RingInv PROVE Contents = Of(store, pcReadFrom, uxMessagesWaiting)
  BY DEF ContentsAreOf
<1>1. \A i \in 1..uxMessagesWaiting : pcReadFrom + i \in 0..(2 * Length - 1)
  BY QueueAssumption DEF RingInv, Slots
<1>2. \A i \in 1..uxMessagesWaiting : (pcReadFrom + i) % Length = Wrap(pcReadFrom + i)
  BY <1>1, Wrapped
<1> QED BY <1>2 DEF Contents, Of

LEMMA ContentsNext == RingInv' => ContentsAreOf'
BY ContentsIs, PTL

\* prvCopyDataToQueue() puts an item behind the others or in front of them.
LEMMA CopyToRing ==
  ASSUME RingInv, ~Full, NEW v \in Items, NEW pos, CopyTo(v, pos)
  PROVE  RingInv' /\ (Abstract!PutBack \/ Abstract!PutFront)
<1>1. /\ store \in [Slots -> Values] /\ pcReadFrom \in Slots /\ v \in Values
      /\ uxMessagesWaiting \in 0..(Length - 1) /\ uxMessagesWaiting \in 0..Length
      /\ uxMessagesWaiting' = uxMessagesWaiting + 1
      /\ uxMessagesWaiting' \in 0..Length
  BY QueueAssumption DEF RingInv, Full, CopyTo, Values
<1>2. /\ pcWriteTo = Wrap(pcReadFrom + (uxMessagesWaiting + 1))
      /\ pcWriteTo \in Slots
  BY <1>1, QueueAssumption DEF RingInv, Wrap, Slots
<1>3. Len(Contents) < Length
  <2>1. Len(Contents) = uxMessagesWaiting
    <3>1. PICK S : S = Values
      OBVIOUS
    <3>2. PICK st \in [Slots -> S] : st = store
      BY <1>1, <3>1
    <3>3. PICK r \in Slots : r = pcReadFrom
      BY <1>1
    <3>4. PICK u \in 0..Length : u = uxMessagesWaiting
      BY <1>1
    <3>5. Len(Of(st, r, u)) = u
      BY OfSeq
    <3> QED BY <3>2, <3>3, <3>4, <3>5, ContentsIs DEF ContentsAreOf
  <2> QED BY <1>1, <2>1, QueueAssumption
<1>4. CASE pos = "back"
  <2>1. /\ store' = [store EXCEPT ![pcWriteTo] = v] /\ pcReadFrom' = pcReadFrom
        /\ pcWriteTo' = Wrap(pcWriteTo + 1)
    <3>1. /\ store' = [store EXCEPT ![pcWriteTo] = v] /\ pcReadFrom' = pcReadFrom
          /\ pcWriteTo' = IF pcWriteTo + 1 = Length THEN 0 ELSE pcWriteTo + 1
      BY <1>4 DEF CopyTo
    <3> QED BY <1>2, <3>1, QueueAssumption DEF Wrap, Slots
  <2>2. pcWriteTo' = Wrap(Wrap(pcReadFrom + 1) + (uxMessagesWaiting + 1))
    BY <1>1, <1>2, <2>1, QueueAssumption, SMTT(30) DEF Wrap, Slots
  <2>3. RingInv'
    BY <1>1, <1>2, <2>1, <2>2 DEF RingInv
  <2>4. Of(store', pcReadFrom, uxMessagesWaiting + 1) = Append(Of(store, pcReadFrom, uxMessagesWaiting), v)
    <3>0. PICK S : S = Values /\ v \in S
      BY <1>1
    <3>1. PICK st \in [Slots -> S] : st = store
      BY <1>1, <3>0
    <3>2. PICK r \in Slots : r = pcReadFrom
      BY <1>1
    <3>3. PICK u \in 0..(Length - 1) : u = uxMessagesWaiting
      BY <1>1
    <3>4. Of([st EXCEPT ![Wrap(r + (u + 1))] = v], r, u + 1) = Append(Of(st, r, u), v)
      BY <3>0, OfBack, ZenonT(40)
    <3> QED BY <1>2, <2>1, <3>1, <3>2, <3>3, <3>4
  <2>5. Contents' = Append(Contents, v)
    BY <1>1, <2>1, <2>3, <2>4, ContentsIs, ContentsNext DEF ContentsAreOf
  <2> QED BY <1>3, <2>3, <2>5 DEF Abstract!PutBack
<1>5. CASE pos # "back"
  <2>1. /\ store' = [store EXCEPT ![pcReadFrom] = v] /\ pcReadFrom' = Front /\ pcWriteTo' = pcWriteTo
    BY <1>5 DEF CopyTo
  <2>2. pcReadFrom' \in Slots /\ pcReadFrom' = IF pcReadFrom = 0 THEN Length - 1 ELSE pcReadFrom - 1
    BY <1>1, <2>1, QueueAssumption DEF Front, Slots
  <2>3. pcWriteTo' = Wrap(Wrap(pcReadFrom' + 1) + (uxMessagesWaiting + 1))
    BY <1>1, <1>2, <2>1, <2>2, QueueAssumption DEF Wrap, Slots
  <2>4. RingInv'
    BY <1>1, <2>1, <2>2, <2>3 DEF RingInv
  <2>5. Of(store', pcReadFrom', uxMessagesWaiting + 1) = <<v>> \o Of(store, pcReadFrom, uxMessagesWaiting)
    <3>0. PICK S : S = Values /\ v \in S
      BY <1>1
    <3>1. PICK st \in [Slots -> S] : st = store
      BY <1>1, <3>0
    <3>2. PICK r \in Slots : r = pcReadFrom
      BY <1>1
    <3>3. PICK u \in 0..(Length - 1) : u = uxMessagesWaiting
      BY <1>1
    <3>4. pcReadFrom' = Before(r)
      BY <2>2, <3>2 DEF Before
    <3>5. Of([st EXCEPT ![r] = v], Before(r), u + 1) = <<v>> \o Of(st, r, u)
      BY <3>0, OfFront
    <3> QED BY <2>1, <3>1, <3>2, <3>3, <3>4, <3>5
  <2>6. Contents' = <<v>> \o Contents
    BY <1>1, <2>4, <2>5, ContentsIs, ContentsNext DEF ContentsAreOf
  <2> QED BY <1>3, <2>4, <2>6 DEF Abstract!PutFront
<1> QED BY <1>4, <1>5

\* prvCopyDataFromQueue() takes the first.
LEMMA CopyFromRing ==
  ASSUME RingInv, ~Empty, CopyFrom
  PROVE  RingInv' /\ Abstract!Get
<1>1. /\ store \in [Slots -> Values] /\ pcReadFrom \in Slots /\ NoItem \in Values
      /\ uxMessagesWaiting \in 1..Length /\ uxMessagesWaiting \in 0..Length
      /\ uxMessagesWaiting' = uxMessagesWaiting - 1
      /\ uxMessagesWaiting' \in 0..Length
  BY QueueAssumption DEF RingInv, Empty, CopyFrom, Values
<1>2. /\ pcReadFrom' = IF pcReadFrom + 1 = Length THEN 0 ELSE pcReadFrom + 1
      /\ store' = [store EXCEPT ![pcReadFrom'] = NoItem] /\ pcWriteTo' = pcWriteTo
  BY DEF CopyFrom
<1>3. pcReadFrom' = Wrap(pcReadFrom + 1) /\ pcReadFrom' \in Slots
  BY <1>1, <1>2, QueueAssumption DEF Wrap, Slots
<1>4. pcWriteTo' = Wrap(Wrap(pcReadFrom' + 1) + (uxMessagesWaiting - 1))
  <2>1. pcWriteTo = Wrap(pcReadFrom' + uxMessagesWaiting)
    BY <1>3 DEF RingInv
  <2> QED BY <1>1, <1>2, <1>3, <2>1, QueueAssumption DEF Wrap, Slots
<1>5. RingInv'
  BY <1>1, <1>2, <1>3, <1>4 DEF RingInv
<1>6. /\ Of(store, pcReadFrom, uxMessagesWaiting) # <<>>
      /\ Of(store', pcReadFrom', uxMessagesWaiting - 1) = Tail(Of(store, pcReadFrom, uxMessagesWaiting))
  <2>0. PICK S : S = Values
    OBVIOUS
  <2>1. PICK st \in [Slots -> S] : st = store
    BY <1>1, <2>0
  <2>2. PICK r \in Slots : r = pcReadFrom
    BY <1>1
  <2>3. PICK u \in 1..Length : u = uxMessagesWaiting
    BY <1>1
  <2>4. PICK v \in S : v = NoItem
    BY <1>1, <2>0
  <2>5. /\ Of(st, r, u) # <<>>
        /\ Of([st EXCEPT ![Wrap(r + 1)] = v], Wrap(r + 1), u - 1) = Tail(Of(st, r, u))
    BY OfTaken
  <2> QED BY <1>2, <1>3, <2>1, <2>2, <2>3, <2>4, <2>5
<1>7. Contents # <<>> /\ Contents' = Tail(Contents)
  BY <1>1, <1>5, <1>6, ContentsIs, ContentsNext DEF ContentsAreOf
<1> QED BY <1>5, <1>7 DEF Abstract!Get

LEMMA RingInit == ASSUME Init PROVE RingInv /\ Contents = <<>>
<1>1. /\ store \in [Slots -> Values] /\ uxMessagesWaiting = 0 /\ pcReadFrom = Length - 1 /\ pcWriteTo = 0
  BY DEF Init, Slots, Values
<1>2. RingInv
  BY <1>1, QueueAssumption DEF RingInv, Slots, Wrap
<1>3. Contents = <<>>
  BY <1>1 DEF Contents
<1> QED BY <1>2, <1>3

LEMMA RingNext ==
  ASSUME RingInv, [Next]_vars
  PROVE  RingInv' /\ (Abstract!PutBack \/ Abstract!PutFront \/ Abstract!Get \/ UNCHANGED Contents)
<1>1. CASE UNCHANGED ring
  BY <1>1 DEF ring, RingInv, Contents
<1>2. CASE ~Full /\ \E v \in Items : \E pos \in Positions : CopyTo(v, pos)
  BY <1>2, CopyToRing
<1>3. CASE ~Empty /\ CopyFrom
  BY <1>3, CopyFromRing
<1>4. ASSUME NEW t \in Tasks, Call(t) \/ Step(t) \/ Elapse(t)
      PROVE  \/ UNCHANGED ring
             \/ ~Full /\ \E v \in Items : \E pos \in Positions : CopyTo(v, pos)
             \/ ~Empty /\ CopyFrom
  <2>1. CASE Call(t) \/ Elapse(t) \/ SuspendAll(t) \/ LockQueue(t) \/ Check(t) \/ Ask(t)
             \/ PlaceOnEventList(t) \/ ResumeAll(t) \/ Recheck(t)
    BY <2>1 DEF Call, Elapse, SuspendAll, LockQueue, Check, Ask, PlaceOnEventList, ResumeAll, Recheck
  <2>2. CASE UnlockTx(t) \/ UnlockRx(t)
    BY <2>2 DEF UnlockTx, UnlockRx, Unlock
  <2>3. CASE TrySend(t)
    BY <2>3 DEF TrySend, Fail
  <2>4. CASE TryReceive(t)
    BY <2>4 DEF TryReceive, Fail
  <2>5. CASE TryPeek(t)
    BY <2>5 DEF TryPeek, Fail
  <2> QED BY <1>4, <2>1, <2>2, <2>3, <2>4, <2>5 DEF Step
<1>5. SendFromISR => ~Full /\ \E v \in Items : \E pos \in Positions : CopyTo(v, pos)
  BY DEF SendFromISR
<1>6. ReceiveFromISR => ~Empty /\ CopyFrom
  BY DEF ReceiveFromISR
<1>7. UNCHANGED vars => UNCHANGED ring
  BY DEF vars
<1> QED BY <1>1, <1>2, <1>3, <1>4, <1>5, <1>6, <1>7 DEF Next

\* The ring with its indices and its count is a bounded queue: nothing is lost,
\* repeated or passed, whatever interrupts do between the critical sections.
THEOREM ImplementsQueueCorrect == Spec => ImplementsQueue
<1>1. Init => RingInv /\ Contents = <<>>
  BY RingInit
<1>2. RingInv /\ [Next]_vars =>
        RingInv' /\ [Abstract!PutBack \/ Abstract!PutFront \/ Abstract!Get]_Contents
  BY RingNext
<1> QED BY <1>1, <1>2, PTL DEF Spec, ImplementsQueue, Abstract!Spec
=============================================================================

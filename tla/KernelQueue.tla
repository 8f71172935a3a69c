---------------------------- MODULE KernelQueue ---------------------------
(***************************************************************************)
(* A queue of the kernel: tasks that send, receive and peek with a time-   *)
(* out, and interrupts that send and receive.  A step of a task ends where *)
(* interrupts or other tasks may come in: at the end of a critical section *)
(* or of a call that suspends or resumes the scheduler.                    *)
(***************************************************************************)
EXTENDS EventList, FiniteSets

CONSTANTS
  Senders, Receivers, Peekers,
  Nobody,
  Prio,        \* priority of each task
  Length,      \* uxLength
  Items,
  Positions,   \* where senders put: "back", "front"
  Ticks        \* block times each task calls with: "none", "some", "forever"

Tasks == Senders \union Receivers \union Peekers

ASSUME QueueAssumption ==
  /\ Length \in Nat \ {0} /\ Nobody \notin Tasks
  /\ Senders \cap (Receivers \union Peekers) = {}  \* each task keeps to a side
  /\ Prio \in [Tasks -> Nat]
  /\ Ticks \in [Tasks -> SUBSET {"none", "some", "forever"}]

VARIABLES
  store, uxMessagesWaiting, pcWriteTo, pcReadFrom,  \* the ring, in items
  lock,       \* cTxLock as lock["recv"], cRxLock as lock["send"]: the side
              \* that the counted events will wake
  waiting,    \* xTasksWaitingToSend and xTasksWaitingToReceive
  suspender,  \* the task that has suspended the scheduler
  blocked,    \* tasks whose xStateListItem is in a delayed list
  pending,    \* xPendingReadyList
  pc, ticks,  \* of each call: place and xTicksToWait
  late,       \* the time of its xTimeOut is over
  woken       \* history: removed from an event list, has not run since

ring == <<store, uxMessagesWaiting, pcWriteTo, pcReadFrom>>
lists == <<waiting, blocked, pending, woken>>
vars == <<ring, lock, lists, suspender, pc, ticks, late>>

Sides == {"send", "recv"}
Side(t) == IF t \in Senders THEN "send" ELSE "recv"
NoItem == "none"
queueUNLOCKED == -1
queueLOCKED_UNMODIFIED == 0
NumberOfTasks == Cardinality(Tasks)

Init ==
  /\ store = [i \in 0..(Length - 1) |-> NoItem] /\ uxMessagesWaiting = 0
  /\ pcWriteTo = 0 /\ pcReadFrom = Length - 1
  /\ lock = [s \in Sides |-> queueUNLOCKED]
  /\ waiting = [s \in Sides |-> <<>>]
  /\ suspender = Nobody /\ blocked = {} /\ pending = {} /\ woken = {}
  /\ pc = [t \in Tasks |-> "idle"] /\ ticks = [t \in Tasks |-> "none"]
  /\ late = [t \in Tasks |-> FALSE]

\* What stops a call of this side, and what it would take.
Full == uxMessagesWaiting = Length
Empty == uxMessagesWaiting = 0
Stuck(t) == IF Side(t) = "send" THEN Full ELSE Empty
Available(s) == IF s = "send" THEN Length - uxMessagesWaiting ELSE uxMessagesWaiting
---------------------------------------------------------------------------
\* prvCopyDataToQueue().
SlipFront == pcReadFrom
Front == IF pcReadFrom = 0 THEN Length - 1 ELSE pcReadFrom - 1

CopyTo(v, pos) ==
  /\ IF pos = "back"
     THEN /\ store' = [store EXCEPT ![pcWriteTo] = v]
          /\ pcWriteTo' = IF pcWriteTo + 1 = Length THEN 0 ELSE pcWriteTo + 1
          /\ UNCHANGED pcReadFrom
     ELSE /\ store' = [store EXCEPT ![pcReadFrom] = v]
          /\ pcReadFrom' = Front
          /\ UNCHANGED pcWriteTo
  /\ uxMessagesWaiting' = uxMessagesWaiting + 1

\* prvCopyDataFromQueue(), and the count that its callers lower.  What stays in
\* the place is taken for nothing, so that handing it out again would show.
CopyFrom ==
  /\ pcReadFrom' = IF pcReadFrom + 1 = Length THEN 0 ELSE pcReadFrom + 1
  /\ store' = [store EXCEPT ![pcReadFrom'] = NoItem]
  /\ uxMessagesWaiting' = uxMessagesWaiting - 1
  /\ UNCHANGED pcWriteTo

\* xTaskRemoveFromEventList() for the first k tasks of a side, by a caller of
\* the set run.
Wake(s, k, run) ==
  LET first == {waiting[s][i] : i \in 1..k} IN
  /\ waiting' = [waiting EXCEPT ![s] = SubSeq(@, k + 1, Len(@))]
  /\ IF suspender = Nobody
     THEN blocked' = blocked \ first /\ UNCHANGED pending
     ELSE pending' = pending \union first /\ UNCHANGED blocked
  /\ woken' = (woken \ run) \union first

AtMost(k, s) == IF k < Len(waiting[s]) THEN k ELSE Len(waiting[s])

\* A task runs unless it is blocked or another has suspended the scheduler.
Runs(t, at) == pc[t] = at /\ t \notin blocked /\ suspender = Nobody
Alone(t, at) == pc[t] = at /\ suspender = t
Goto(t, at) == pc' = [pc EXCEPT ![t] = at]

Call(t) ==
  /\ Runs(t, "idle") /\ Goto(t, "try")
  /\ \E w \in Ticks[t] : ticks' = [ticks EXCEPT ![t] = w]
  /\ late' = [late EXCEPT ![t] = FALSE]
  /\ UNCHANGED <<ring, lock, lists, suspender>>

\* The first critical section when there is nothing to be done.
Fail(t) ==
  /\ Goto(t, IF ticks[t] = "none" THEN "idle" ELSE "suspend")
  /\ woken' = woken \ {t}
  /\ UNCHANGED <<ring, lock, waiting, blocked, pending, suspender, ticks, late>>

TrySend(t) ==
  /\ Runs(t, "try") /\ t \in Senders
  /\ IF Full THEN Fail(t)
     ELSE /\ \E v \in Items : \E pos \in Positions : CopyTo(v, pos)
          /\ Wake("recv", AtMost(1, "recv"), {t})
          /\ Goto(t, "idle")
          /\ UNCHANGED <<lock, suspender, ticks, late>>

TryReceive(t) ==
  /\ Runs(t, "try") /\ t \in Receivers
  /\ IF Empty THEN Fail(t)
     ELSE /\ CopyFrom
          /\ Wake("send", AtMost(1, "send"), {t})
          /\ Goto(t, "idle")
          /\ UNCHANGED <<lock, suspender, ticks, late>>

\* The item stays, and another task that waits for it is woken.
SlipAfterPeek == 0
AfterPeek == AtMost(1, "recv")

TryPeek(t) ==
  /\ Runs(t, "try") /\ t \in Peekers
  /\ IF Empty THEN Fail(t)
     ELSE /\ Wake("recv", AfterPeek, {t})
          /\ Goto(t, "idle")
          /\ UNCHANGED <<ring, lock, suspender, ticks, late>>

SuspendAll(t) ==
  /\ Runs(t, "suspend") /\ Goto(t, "lock")
  /\ suspender' = t
  /\ UNCHANGED <<ring, lock, lists, ticks, late>>

Locked == [s \in Sides |-> IF lock[s] = queueUNLOCKED THEN queueLOCKED_UNMODIFIED ELSE lock[s]]

LockQueue(t) ==
  /\ Alone(t, "lock") /\ Goto(t, "check")
  /\ lock' = Locked
  /\ UNCHANGED <<ring, lists, suspender, ticks, late>>

\* xTaskCheckForTimeOut().
TimeIsUp(t) == late[t]

Check(t) ==
  /\ Alone(t, "check")
  /\ IF TimeIsUp(t) THEN Goto(t, "tx") /\ ticks' = [ticks EXCEPT ![t] = "none"]
                ELSE Goto(t, "ask") /\ UNCHANGED ticks
  /\ UNCHANGED <<ring, lock, lists, suspender, late>>

\* prvIsQueueFull() or prvIsQueueEmpty(), a critical section of its own.
Ask(t) ==
  /\ Alone(t, "ask") /\ Goto(t, IF Stuck(t) THEN "place" ELSE "tx")
  /\ UNCHANGED <<ring, lock, lists, suspender, ticks, late>>

PlaceOnEventList(t) ==
  /\ Alone(t, "place") /\ Goto(t, "tx")
  /\ waiting' = [waiting EXCEPT ![Side(t)] = Insert(@, t, Prio)]
  /\ blocked' = blocked \union {t}
  /\ UNCHANGED <<ring, lock, pending, woken, suspender, ticks, late>>

\* prvUnlockQueue(): a critical section for each lock.
Woken(s) == AtMost(lock[s], s)

Unlock(t, s) ==
  /\ IF lock[s] > queueLOCKED_UNMODIFIED THEN Wake(s, Woken(s), {})
     ELSE UNCHANGED lists
  /\ lock' = [lock EXCEPT ![s] = queueUNLOCKED]
  /\ UNCHANGED <<ring, suspender, ticks, late>>

UnlockTx(t) == Alone(t, "tx") /\ Goto(t, "rx") /\ Unlock(t, "recv")
UnlockRx(t) == Alone(t, "rx") /\ Goto(t, "resume") /\ Unlock(t, "send")

\* xTaskResumeAll(), and where the call goes on: a sender whose time is over
\* returns, a receiver looks again.
ResumeAll(t) ==
  /\ Alone(t, "resume")
  /\ suspender' = Nobody
  /\ blocked' = blocked \ pending /\ pending' = {}
  /\ Goto(t, IF ticks[t] # "none" THEN "try"
             ELSE IF t \in Senders THEN "idle" ELSE "recheck")
  /\ UNCHANGED <<ring, lock, waiting, woken, ticks, late>>

Recheck(t) ==
  /\ Runs(t, "recheck") /\ Goto(t, IF Empty THEN "idle" ELSE "try")
  /\ UNCHANGED <<ring, lock, lists, suspender, ticks, late>>

\* The tick at which the time of a call is over; a suspended scheduler pends it.
Elapse(t) ==
  /\ pc[t] # "idle" /\ ticks[t] = "some" /\ ~late[t] /\ suspender = Nobody
  /\ late' = [late EXCEPT ![t] = TRUE]
  /\ blocked' = blocked \ {t}
  /\ waiting' = [s \in Sides |-> Without(waiting[s], t)]
  /\ UNCHANGED <<ring, lock, pending, woken, suspender, pc, ticks>>
---------------------------------------------------------------------------
\* An interrupt wakes a task itself unless the queue is locked.
SlipEvent(s) == /\ Wake(s, AtMost(1, s), {})
                /\ UNCHANGED lock
Event(s) ==
  IF lock[s] = queueUNLOCKED THEN Wake(s, AtMost(1, s), {}) /\ UNCHANGED lock
  ELSE /\ lock' = [lock EXCEPT ![s] = IF @ < NumberOfTasks THEN @ + 1 ELSE @]
       /\ UNCHANGED lists

SendFromISR ==
  /\ ~Full /\ \E v \in Items : \E pos \in Positions : CopyTo(v, pos)
  /\ Event("recv")
  /\ UNCHANGED <<suspender, pc, ticks, late>>

ReceiveFromISR ==
  /\ ~Empty /\ CopyFrom
  /\ Event("send")
  /\ UNCHANGED <<suspender, pc, ticks, late>>

Step(t) ==
  \/ TrySend(t) \/ TryReceive(t) \/ TryPeek(t)
  \/ SuspendAll(t) \/ LockQueue(t) \/ Check(t) \/ Ask(t) \/ PlaceOnEventList(t)
  \/ UnlockTx(t) \/ UnlockRx(t) \/ ResumeAll(t) \/ Recheck(t)

Next == \/ \E t \in Tasks : Call(t) \/ Step(t) \/ Elapse(t)
        \/ SendFromISR \/ ReceiveFromISR

\* Each task gets the processor again and again.
Fairness == \A t \in Tasks : SF_vars(Step(t))

Spec == Init /\ [][Next]_vars /\ Fairness
---------------------------------------------------------------------------
\* A task waits only while what it waits for is spoken for: every item (or
\* place) that has come has a task that was woken for it and still has to run,
\* or is counted in the lock of the queue.
NoLostWake == \A s \in Sides : waiting[s] # <<>> =>
  \/ lock[s] >= Len(waiting[s])
  \/ Available(s) <= Cardinality({t \in woken : Side(t) = s})
                     + (IF lock[s] > 0 THEN lock[s] ELSE 0)

\* The queue is a bounded queue, whatever interrupts do between the critical
\* sections of the calls.
Contents == [i \in 1..uxMessagesWaiting |-> store[(pcReadFrom + i) % Length]]
Abstract == INSTANCE BoundedQueue WITH items <- Contents
ImplementsQueue == Abstract!Spec

\* A task does not sleep for ever on a queue that has what it waits for.
Served == \A s \in Sides :
  waiting[s] # <<>> /\ Available(s) > 0 ~> waiting[s] = <<>> \/ Available(s) = 0
=============================================================================

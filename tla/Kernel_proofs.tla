--------------------------- MODULE Kernel_proofs --------------------------
(***************************************************************************)
(* What tasks rely on when they wait for the kernel.  The notification of  *)
(* a task, for any values and clear bits: why none is slept on, why the    *)
(* task is on no list twice, and that xTaskNotifyWait() is a mailbox;      *)
(* Blinker inherits what holds of TaskNotify.  Then the mutexes, for any   *)
(* tasks, priorities, time-outs, nesting and calls of vTaskPrioritySet():  *)
(* a lent priority is given back with the last mutex, a holder runs no     *)
(* lower than who waits for it, and no higher than who lends to it.        *)
(***************************************************************************)
EXTENDS KernelMutex, Blinker, NotifyWait, EventList_proofs

\* The task waits inside ulTaskNotifyTake() or xTaskNotifyWait() only, it is
\* held in xPendingReadyList only while the scheduler is suspended, and a task
\* that sleeps has either been told nothing or is in that list.
Places ==
  /\ place = "delayed" \/ ucNotifyState = "waiting" \/ event => stage = "exit"
  /\ event => suspended
  /\ place = "delayed" /\ ~event => ucNotifyState = "waiting"

NInv == TypeOK /\ Places /\ EventItemFree

\* A notification, whoever gives it.
LEMMA NotifyNInv ==
  ASSUME NInv, NEW v \in Nat, NEW inIsr \in BOOLEAN, Notify(v, inIsr)
  PROVE  NInv'
<1> USE DEF NInv, TypeOK, Places, EventItemFree, Notify, Wakes, States
<1>1. TypeOK'
  BY NotifyAssumption
<1>2. Places' /\ EventItemFree'
  OBVIOUS
<1> QED BY <1>1, <1>2

\* The tick, the scheduler and the caller.
LEMMA SchedulerNInv ==
  ASSUME NInv, Tick \/ SuspendAll \/ ResumeAll \/ CallAgain
  PROVE  NInv'
<1> USE DEF NInv, TypeOK, Places, EventItemFree, Scheduled
<1>1. CASE Tick
  BY <1>1 DEF Tick
<1>2. CASE SuspendAll
  BY <1>2 DEF SuspendAll
<1>3. CASE ResumeAll
  BY <1>3 DEF ResumeAll
<1>4. CASE CallAgain
  BY <1>4 DEF CallAgain
<1> QED BY <1>1, <1>2, <1>3, <1>4

\* The two critical sections of ulTaskNotifyTake().
LEMMA TakeNInv ==
  ASSUME NInv, TakeEnter \/ TakeExit
  PROVE  NInv'
<1> USE DEF NInv, TypeOK, Places, EventItemFree, Scheduled, States
<1>1. CASE TakeEnter
  BY <1>1 DEF TakeEnter, MayBlock
<1>2. CASE TakeExit
  BY <1>2 DEF TakeExit, Left
<1> QED BY <1>1, <1>2

\* Every step of a task that uses ulTaskNotifyTake() keeps the invariant.
LEMMA StepNInv ==
  ASSUME NInv, [NotifyNext]_nvars
  PROVE  NInv'
<1>1. CASE KernelNext \/ CallAgain
  BY <1>1, SchedulerNInv, TakeNInv DEF KernelNext
<1>2. CASE SetValue
  <2>1. PICK v \in Values, inIsr \in BOOLEAN : Notify(v, inIsr)
    BY <1>2 DEF SetValue
  <2> QED BY <2>1, NotifyNInv, NotifyAssumption
<1>3. CASE Increment
  <2>1. PICK inIsr \in BOOLEAN : Notify(ulNotifiedValue + 1, inIsr)
    BY <1>3 DEF Increment
  <2>2. ulNotifiedValue + 1 \in Nat
    BY DEF NInv, TypeOK
  <2> QED BY <2>1, <2>2, NotifyNInv
<1>4. CASE UNCHANGED nvars
  BY <1>4 DEF nvars, NInv, TypeOK, Places, EventItemFree
<1> QED BY <1>1, <1>2, <1>3, <1>4 DEF NotifyNext

LEMMA InitNInv == NotifyInit => NInv
<1> SUFFICES ASSUME NotifyInit PROVE NInv
  OBVIOUS
<1>1. TypeOK
  BY DEF NotifyInit, TypeOK, States
<1>2. Places /\ EventItemFree
  BY DEF NotifyInit, Places, EventItemFree
<1> QED BY <1>1, <1>2 DEF NInv

\* A value that is there is not slept on: the first critical section blocks
\* only if there is none, and a notification of a waiting task readies it or
\* puts it into xPendingReadyList.
LEMMA StepNoLostWake ==
  ASSUME NInv, NoLostWake, [NotifyNext]_nvars
  PROVE  NoLostWake'
<1> USE DEF NInv, Places, NoLostWake, Scheduled
<1>1. CASE TakeEnter
  BY <1>1 DEF TakeEnter, MayBlock
<1>2. CASE TakeExit
  BY <1>2 DEF TakeExit
<1>3. CASE Tick
  BY <1>3 DEF Tick
<1>4. CASE SuspendAll
  BY <1>4 DEF SuspendAll
<1>5. CASE ResumeAll
  BY <1>5 DEF ResumeAll
<1>6. CASE CallAgain
  BY <1>6 DEF CallAgain
<1>7. CASE SetValue \/ Increment
  <2>1. PICK v, inIsr : Notify(v, inIsr)
    BY <1>7 DEF SetValue, Increment
  <2> QED BY <2>1 DEF Notify, Wakes
<1>8. CASE UNCHANGED nvars
  BY <1>8 DEF nvars
<1> QED BY <1>1, <1>2, <1>3, <1>4, <1>5, <1>6, <1>7, <1>8 DEF NotifyNext, KernelNext

\* A call that found no value and whose time is not over sleeps and has not
\* been told anything: so it cannot come back with 0.
Untold == stage = "exit" /\ ulNotifiedValue = 0 /\ ~timedOut => place = "delayed" /\ ~event

ZInv == Untold /\ ZeroMeansTimedOut

LEMMA StepZInv ==
  ASSUME 0 \notin Values, NInv, ZInv, [NotifyNext]_nvars
  PROVE  ZInv'
<1> USE DEF NInv, TypeOK, Places, ZInv, Untold, ZeroMeansTimedOut, Scheduled
<1>1. CASE TakeEnter
  BY <1>1 DEF TakeEnter, MayBlock
<1>2. CASE TakeExit
  BY <1>2 DEF TakeExit
<1>3. CASE Tick
  BY <1>3 DEF Tick
<1>4. CASE SuspendAll
  BY <1>4 DEF SuspendAll
<1>5. CASE ResumeAll
  BY <1>5 DEF ResumeAll
<1>6. CASE CallAgain
  BY <1>6 DEF CallAgain
<1>7. CASE SetValue \/ Increment
  <2>1. PICK v \in Nat \ {0}, inIsr \in BOOLEAN : Notify(v, inIsr)
    BY <1>7, NotifyAssumption DEF SetValue, Increment
  <2> QED BY <2>1 DEF Notify
<1>8. CASE UNCHANGED nvars
  BY <1>8 DEF nvars
<1> QED BY <1>1, <1>2, <1>3, <1>4, <1>5, <1>6, <1>7, <1>8 DEF NotifyNext, KernelNext

\* xTaskGenericNotify() and its interrupt form find the task on no event list
\* (their configASSERT), whatever comes between the critical sections.
THEOREM EventItemFreeCorrect == NotifySpec => [](TypeOK /\ EventItemFree)
<1>1. NInv => TypeOK /\ EventItemFree
  BY DEF NInv
<1> QED BY <1>1, InitNInv, StepNInv, PTL DEF NotifySpec

\* The notification of the blinking task is one of TaskNotify.
LEMMA BlinkerStep == [BNext]_bvars => [NotifyNext]_nvars
<1> SUFFICES ASSUME [BNext]_bvars PROVE [NotifyNext]_nvars
  OBVIOUS
<1>1. CASE \E v \in Values : Command(v)
  BY <1>1 DEF Command, NotifyNext, SetValue
<1>2. CASE Obey
  BY <1>2 DEF Obey, NotifyNext
<1>3. CASE KernelNext
  BY <1>3 DEF NotifyNext
<1>4. CASE UNCHANGED bvars
  BY <1>4 DEF bvars
<1> QED BY <1>1, <1>2, <1>3, <1>4 DEF BNext

THEOREM BlinkerNotified == BSpec => NotifySpec
<1>1. BInit => NotifyInit
  BY DEF BInit
<1> QED BY <1>1, BlinkerStep, PTL DEF BSpec, NotifySpec

\* No notification is slept on (ulTaskNotifyTake, xTaskNotify, xTaskResumeAll);
\* with BlinkerNotified, no command to the Blinker is.
THEOREM NoLostWakeCorrect == NotifySpec => []NoLostWake
<1>1. NotifyInit => NoLostWake
  BY DEF NotifyInit, NoLostWake
<1> QED BY <1>1, InitNInv, StepNInv, StepNoLostWake, PTL DEF NotifySpec

\* "timed out --> do nothing" of Blinker::run() is right unless 0 is a command.
THEOREM ZeroMeansTimedOutCorrect ==
  ASSUME 0 \notin Values PROVE NotifySpec => []ZeroMeansTimedOut
<1>1. NotifyInit => ZInv
  BY DEF NotifyInit, ZInv, Untold, ZeroMeansTimedOut
<1>2. ZInv => ZeroMeansTimedOut
  BY DEF ZInv
<1>3. NInv /\ ZInv /\ [NotifyNext]_nvars => ZInv'
  BY StepZInv
<1> QED BY <1>1, <1>2, <1>3, InitNInv, StepNInv, PTL DEF NotifySpec

(***************************************************************************)
(* xTaskNotifyWait() and eSetValueWithoutOverwrite.                        *)
(***************************************************************************)
MInv == /\ NInv /\ Mailbox
        /\ accepted \in Seq(Nat) /\ delivered \in Seq(Nat)

LEMMA StepMInv ==
  ASSUME MInv, [WNext]_wvars
  PROVE  MInv'
<1>1. NInv'
  <2>1. CASE WaitEnter
    <3>3. ulNotifiedValue' = 0 \/ ulNotifiedValue' = ulNotifiedValue
      BY <2>1, Zenon DEF WaitEnter
    <3> USE <2>1, <3>3 DEF WaitEnter, Pending, Scheduled, MInv, NInv, TypeOK, Places, EventItemFree, States
    <3>1. /\ stage' = "exit" /\ place' \in {"ready", "delayed"} /\ ~event'
          /\ place' = "delayed" => ucNotifyState' = "waiting"
      OBVIOUS
    <3>2. ulNotifiedValue' \in Nat
      BY <3>3 DEF MInv, NInv, TypeOK
    <3>4. CASE Pending
      BY <3>1, <3>2, <3>4
    <3>5. CASE ~Pending
      <4>1. ucNotifyState' = "waiting"
        BY <2>1, <3>5, Zenon DEF WaitEnter
      <4> QED BY <3>1, <3>2, <4>1
    <3> QED BY <3>4, <3>5
  <2>2. CASE WaitExit
    BY <2>2 DEF WaitExit, Scheduled, MInv, NInv, TypeOK, Places, EventItemFree, States
  <2>3. CASE Scheduler
    BY <2>3, SchedulerNInv DEF Scheduler, MInv
  <2>4. CASE \E v \in Values : \E inIsr \in BOOLEAN : Post(v, inIsr)
    <3>1. PICK v \in Values, inIsr \in BOOLEAN : Post(v, inIsr)
      BY <2>4
    <3>2. (IF Room THEN v ELSE ulNotifiedValue) \in Nat
      BY NotifyAssumption DEF MInv, NInv, TypeOK
    <3> QED BY <3>1, <3>2, NotifyNInv DEF Post, MInv
  <2>5. CASE UNCHANGED wvars
    BY <2>5 DEF wvars, nvars, MInv, NInv, TypeOK, Places, EventItemFree
  <2> QED BY <2>1, <2>2, <2>3, <2>4, <2>5 DEF WNext
<1>2. (Mailbox /\ accepted \in Seq(Nat) /\ delivered \in Seq(Nat))'
  <2> USE DEF MInv, NInv, TypeOK, Mailbox
  <2>1. CASE WaitEnter
    BY <2>1 DEF WaitEnter, Pending, mail
  <2>2. CASE WaitExit
    BY <2>2 DEF WaitExit, Notified
  <2>3. CASE Scheduler
    BY <2>3 DEF Scheduler, mail, Tick, SuspendAll, ResumeAll, CallAgain
  <2>4. CASE \E v \in Values : \E inIsr \in BOOLEAN : Post(v, inIsr)
    <3>1. PICK v \in Values, inIsr \in BOOLEAN : Post(v, inIsr)
      BY <2>4
    <3>2. v \in Nat
      BY NotifyAssumption
    <3>3. CASE Room
      BY <3>1, <3>2, <3>3 DEF Post, Notify, Room
    <3>4. CASE ~Room
      BY <3>1, <3>4 DEF Post, Notify, Room
    <3> QED BY <3>3, <3>4
  <2>5. CASE UNCHANGED wvars
    BY <2>5 DEF wvars, nvars
  <2> QED BY <2>1, <2>2, <2>3, <2>4, <2>5 DEF WNext
<1> QED BY <1>1, <1>2 DEF MInv

\* What xTaskNotify() accepts is returned by xTaskNotifyWait() once and in
\* order, though a time-out may come with the value.
THEOREM MailboxCorrect == WSpec => [](Mailbox /\ EventItemFree)
<1>1. WInit => MInv
  <2> SUFFICES ASSUME WInit PROVE MInv
    OBVIOUS
  <2>1. accepted = <<>> /\ delivered = <<>> /\ ucNotifyState = "not_waiting"
    BY DEF WInit, NotifyInit
  <2> QED BY <2>1, InitNInv DEF WInit, MInv, Mailbox
<1>2. MInv => Mailbox /\ EventItemFree
  BY DEF MInv, NInv
<1> QED BY <1>1, <1>2, StepMInv, PTL DEF WSpec
---------------------------------------------------------------------------
(***************************************************************************)
(* Mutexes.                                                                *)
(***************************************************************************)
HeldBy(t) == {m \in Mutexes : holder[m] = t}

\* uxMutexesHeld counts the mutexes that name the task, and a call is one for a
\* mutex: without the count, a holder might already have given back its last.
Books ==
  /\ DOMAIN uxPriority = Tasks /\ DOMAIN uxBasePriority = Tasks
  /\ uxMutexesHeld \in [Tasks -> Nat]
  /\ holder \in [Mutexes -> Tasks \cup {Nobody}]
  /\ pc \in [Tasks -> {"away", "run"} \cup Calling]
  /\ DOMAIN mutex = Tasks
  /\ \A t \in Tasks : pc[t] \in Calling => mutex[t] \in Mutexes
  /\ \A t \in Tasks : uxMutexesHeld[t] = Cardinality(HeldBy(t))

MutexInv == Books /\ PriorityRestored

\* What a task holds is finite, and counted.
LEMMA HolderCounts ==
  ASSUME Books, IsFiniteSet(Mutexes), NEW m \in Mutexes, holder[m] # Nobody
  PROVE  holder[m] \in Tasks /\ uxMutexesHeld[holder[m]] > 0
<1>1. holder[m] \in Tasks
  BY DEF Books
<1>2. IsFiniteSet(HeldBy(holder[m])) /\ m \in HeldBy(holder[m])
  BY FS_Subset DEF HeldBy
<1>3. Cardinality(HeldBy(holder[m])) # 0 /\ Cardinality(HeldBy(holder[m])) \in Nat
  BY <1>2, FS_EmptySet, FS_CardinalityType
<1> QED BY <1>1, <1>3 DEF Books

\* The first critical section of a take: one more mutex names the task, or none.
LEMMA TakeMutexInv ==
  ASSUME MutexInv, IsFiniteSet(Mutexes), NEW t \in Tasks, Take(t)
  PROVE  MutexInv'
<1> DEFINE m == mutex[t]
<1>1. m \in Mutexes /\ pc[t] = "try"
  BY DEF MutexInv, Books, Take, Runs, Calling
<1>2. CASE holder[m] = Nobody
  <2>1. /\ holder' = [holder EXCEPT ![m] = t] /\ UNCHANGED priorities
        /\ uxMutexesHeld' = [uxMutexesHeld EXCEPT ![t] = uxMutexesHeld[t] + 1]
        /\ pc' = [pc EXCEPT ![t] = "run"] /\ mutex' = [mutex EXCEPT ![t] = NoMutex]
    BY <1>2 DEF Take, Return, Goto, HeldCount
  <2>2. HeldBy(t)' = HeldBy(t) \cup {m} /\ m \notin HeldBy(t)
    BY <1>1, <1>2, <2>1, MutexAssumption DEF HeldBy, MutexInv, Books
  <2>3. \A u \in Tasks \ {t} : HeldBy(u)' = HeldBy(u)
    BY <1>1, <1>2, <2>1, MutexAssumption DEF HeldBy, MutexInv, Books
  <2>4. Cardinality(HeldBy(t)') = Cardinality(HeldBy(t)) + 1
    BY <2>2, FS_Subset, FS_AddElement DEF HeldBy
  <2>5. Books'
    <3>1. \A u \in Tasks : uxMutexesHeld'[u] = Cardinality(HeldBy(u)')
      BY <2>1, <2>3, <2>4 DEF MutexInv, Books
    <3> QED BY <1>1, <2>1, <3>1 DEF MutexInv, Books, priorities, Calling
  <2>6. PriorityRestored'
    BY <2>1 DEF MutexInv, Books, PriorityRestored, priorities
  <2> QED BY <2>5, <2>6 DEF MutexInv
<1>3. CASE holder[m] # Nobody
  <2>1. /\ UNCHANGED <<priorities, holder, uxMutexesHeld>>
        /\ \/ pc' = [pc EXCEPT ![t] = "block"] /\ UNCHANGED mutex
           \/ pc' = [pc EXCEPT ![t] = "run"] /\ mutex' = [mutex EXCEPT ![t] = NoMutex]
    BY <1>3 DEF Take, Return, Continue, Goto, call
  <2>2. \A u : HeldBy(u)' = HeldBy(u)
    BY <2>1 DEF HeldBy
  <2> QED BY <1>1, <2>1, <2>2 DEF MutexInv, Books, PriorityRestored, priorities, Calling
<1> QED BY <1>2, <1>3

\* A give: the last mutex takes the inherited priority with it.
LEMMA GiveMutexInv ==
  ASSUME MutexInv, IsFiniteSet(Mutexes), NEW t \in Tasks, NEW m \in Mutexes, Give(t, m)
  PROVE  MutexInv'
<1>1. /\ holder[m] = t /\ holder' = [holder EXCEPT ![m] = Nobody]
      /\ uxMutexesHeld' = [uxMutexesHeld EXCEPT ![t] = uxMutexesHeld[t] - 1]
      /\ UNCHANGED <<uxBasePriority, pc, mutex>>
  BY DEF Give, call
<1>2. HeldBy(t)' = HeldBy(t) \ {m} /\ m \in HeldBy(t)
  BY <1>1, MutexAssumption DEF HeldBy, MutexInv, Books
<1>3. \A u \in Tasks \ {t} : HeldBy(u)' = HeldBy(u)
  BY <1>1, MutexAssumption DEF HeldBy, MutexInv, Books
<1>4. Cardinality(HeldBy(t)') = Cardinality(HeldBy(t)) - 1
  BY <1>2, FS_Subset, FS_RemoveElement DEF HeldBy
<1>5. uxMutexesHeld[t] > 0
  BY <1>1, HolderCounts, MutexAssumption DEF MutexInv
<1>6. /\ DOMAIN uxPriority' = Tasks
      /\ \A u \in Tasks \ {t} : uxPriority'[u] = uxPriority[u]
      /\ uxMutexesHeld[t] = 1 => uxPriority'[t] = uxBasePriority[t]
  BY DEF Give, Disinherits, MutexInv, Books
<1>7. Books'
  <2>1. \A u \in Tasks : uxMutexesHeld'[u] = Cardinality(HeldBy(u)')
    BY <1>1, <1>3, <1>4 DEF MutexInv, Books
  <2> QED BY <1>1, <1>5, <1>6, <2>1 DEF MutexInv, Books
<1>8. PriorityRestored'
  BY <1>1, <1>5, <1>6 DEF MutexInv, Books, PriorityRestored
<1> QED BY <1>7, <1>8 DEF MutexInv

\* Where neither a count nor a holder changes, a priority changes only together
\* with its base, or for a holder.
LEMMA BooksKept ==
  ASSUME MutexInv, UNCHANGED <<uxMutexesHeld, holder>>,
         DOMAIN uxPriority' = Tasks, DOMAIN uxBasePriority' = Tasks,
         pc' \in [Tasks -> {"away", "run"} \cup Calling], DOMAIN mutex' = Tasks,
         \A t \in Tasks : pc'[t] \in Calling => mutex'[t] \in Mutexes,
         \A t \in Tasks : uxMutexesHeld[t] = 0 => uxPriority'[t] = uxBasePriority'[t]
  PROVE  MutexInv'
<1>1. \A u : HeldBy(u)' = HeldBy(u)
  BY DEF HeldBy
<1> QED BY <1>1 DEF MutexInv, Books, PriorityRestored

LEMMA CallMutexInv ==
  ASSUME MutexInv, NEW t \in Tasks,
         Arrive(t) \/ Sleep(t) \/ (\E m \in Mutexes : Call(t, m)) \/ TimeOut(t) \/ Recheck(t)
  PROVE  MutexInv'
<1> USE DEF MutexInv, Books, PriorityRestored, priorities, call, Goto, Runs, Calling
<1>1. CASE Arrive(t)
  BY <1>1, BooksKept DEF Arrive
<1>2. CASE Sleep(t)
  BY <1>2, BooksKept DEF Sleep
<1>3. CASE \E m \in Mutexes : Call(t, m)
  BY <1>3, BooksKept DEF Call
<1>4. CASE TimeOut(t)
  BY <1>4, BooksKept DEF TimeOut
<1>5. CASE Recheck(t)
  BY <1>5, BooksKept DEF Recheck, Return, Continue
<1> QED BY <1>1, <1>2, <1>3, <1>4, <1>5

\* A priority is inherited by a holder, which has a mutex to give back.
LEMMA BlockMutexInv ==
  ASSUME MutexInv, IsFiniteSet(Mutexes), NEW t \in Tasks, Block(t)
  PROVE  MutexInv'
<1> DEFINE m == mutex[t]  h == holder[m]
<1>1. m \in Mutexes /\ pc[t] = "block"
  BY DEF MutexInv, Books, Block, Runs, Calling
<1>2. UNCHANGED <<uxMutexesHeld, holder, uxBasePriority, mutex>>
  BY DEF Block
<1>3. pc' \in [Tasks -> {"away", "run"} \cup Calling] /\ \A u \in Tasks \ {t} : pc'[u] = pc[u]
  BY DEF Block, Goto, MutexInv, Books, Calling
<1>4. CASE uxPriority' = uxPriority
  BY <1>1, <1>2, <1>3, <1>4, BooksKept DEF MutexInv, Books, PriorityRestored, Calling
<1>5. CASE uxPriority' # uxPriority
  <2>1. h # Nobody /\ uxPriority' = [uxPriority EXCEPT ![h] = uxPriority[t]]
    BY <1>5 DEF Block
  <2>2. h \in Tasks /\ uxMutexesHeld[h] > 0
    BY <1>1, <2>1, HolderCounts DEF MutexInv
  <2>3. DOMAIN uxPriority' = Tasks
        /\ \A u \in Tasks \ {h} : uxPriority'[u] = uxPriority[u]
    BY <2>1, <2>2 DEF MutexInv, Books
  <2>4. \A u \in Tasks : uxMutexesHeld[u] = 0 => uxPriority'[u] = uxBasePriority'[u]
    BY <1>2, <2>2, <2>3 DEF MutexInv, PriorityRestored
  <2> QED BY <1>1, <1>2, <1>3, <2>3, <2>4, BooksKept DEF MutexInv, Books, Calling
<1> QED BY <1>4, <1>5

\* After a time-out the priority of a holder drops, while it holds the mutex.
LEMMA DisinheritMutexInv ==
  ASSUME MutexInv, NEW t \in Tasks, DisinheritAfterTimeout(t)
  PROVE  MutexInv'
<1> DEFINE m == mutex[t]  h == holder[m]
<1>1. m \in Mutexes /\ pc[t] = "disinherit"
  BY DEF MutexInv, Books, DisinheritAfterTimeout, Runs, Calling
<1>2. UNCHANGED <<uxMutexesHeld, holder, uxBasePriority>>
      /\ pc' = [pc EXCEPT ![t] = "run"] /\ mutex' = [mutex EXCEPT ![t] = NoMutex]
  BY DEF DisinheritAfterTimeout, Return, Goto
<1>3. CASE Drops(m)
  <2>1. h \in Tasks /\ uxMutexesHeld[h] = 1
    BY <1>1, <1>3 DEF Drops, MutexInv, Books
  <2>2. uxPriority' = [uxPriority EXCEPT ![h] = PriorityToUse(m)]
    BY <1>3 DEF DisinheritAfterTimeout
  <2>3. \A u \in Tasks : uxMutexesHeld[u] = 0 => uxPriority'[u] = uxBasePriority'[u]
    BY <1>2, <2>1, <2>2 DEF MutexInv, Books, PriorityRestored
  <2> QED BY <1>1, <1>2, <2>1, <2>2, <2>3, BooksKept DEF MutexInv, Books, Calling
<1>4. CASE ~Drops(m)
  BY <1>1, <1>2, <1>4, BooksKept DEF DisinheritAfterTimeout, MutexInv, Books, PriorityRestored, Calling
<1> QED BY <1>3, <1>4

\* A new base is the priority too, unless one was inherited.
LEMMA PrioritySetMutexInv ==
  ASSUME MutexInv, NEW t \in Tasks, NEW p \in NewPriorities, PrioritySet(t, p)
  PROVE  MutexInv'
<1> USE MutexAssumption DEF MutexInv, Books, PriorityRestored
<1>1. UNCHANGED <<uxMutexesHeld, holder, pc, mutex>>
  BY DEF PrioritySet, call
<1>2. /\ DOMAIN uxPriority' = Tasks /\ DOMAIN uxBasePriority' = Tasks
      /\ \A u \in Tasks \ {t} : uxPriority'[u] = uxPriority[u]
                                /\ uxBasePriority'[u] = uxBasePriority[u]
      /\ uxPriority[t] = uxBasePriority[t] => uxPriority'[t] = uxBasePriority'[t]
  BY DEF PrioritySet
<1> QED BY <1>1, <1>2, BooksKept

LEMMA StepMutexInv ==
  ASSUME MutexInv, IsFiniteSet(Mutexes), [Next]_vars
  PROVE  MutexInv'
<1>1. CASE Next
  <2>1. PICK t \in Tasks :
          \/ Arrive(t) \/ Sleep(t) \/ Step(t) \/ TimeOut(t)
          \/ \E m \in Mutexes : Call(t, m) \/ Give(t, m)
          \/ \E p \in NewPriorities : PrioritySet(t, p)
    BY <1>1 DEF Next
  <2>2. CASE Arrive(t) \/ Sleep(t) \/ (\E m \in Mutexes : Call(t, m)) \/ TimeOut(t) \/ Recheck(t)
    BY <2>2, CallMutexInv
  <2>3. CASE Take(t)
    BY <2>3, TakeMutexInv
  <2>4. CASE Block(t)
    BY <2>4, BlockMutexInv
  <2>5. CASE DisinheritAfterTimeout(t)
    BY <2>5, DisinheritMutexInv
  <2>6. CASE \E m \in Mutexes : Give(t, m)
    BY <2>6, GiveMutexInv
  <2>7. CASE \E p \in NewPriorities : PrioritySet(t, p)
    BY <2>7, PrioritySetMutexInv
  <2> QED BY <2>1, <2>2, <2>3, <2>4, <2>5, <2>6, <2>7 DEF Step
<1>2. CASE UNCHANGED vars
  BY <1>2, BooksKept DEF vars, MutexInv, Books, PriorityRestored
<1> QED BY <1>1, <1>2

LEMMA InitMutexInv == Init => MutexInv
<1> SUFFICES ASSUME Init PROVE MutexInv
  OBVIOUS
<1>1. \A t \in Tasks : HeldBy(t) = {}
  BY MutexAssumption DEF Init, HeldBy
<1>2. \A t \in Tasks : Cardinality(HeldBy(t)) = 0
  BY <1>1, FS_EmptySet
<1>3. DOMAIN Base = Tasks
  BY MutexAssumption
<1>4. Books
  BY <1>2, <1>3 DEF Init, Books, Calling
<1>5. PriorityRestored
  BY DEF Init, PriorityRestored
<1> QED BY <1>4, <1>5 DEF MutexInv

\* A priority that was inherited is given back with the last mutex, whatever
\* time-outs, gives and vTaskPrioritySet() do meanwhile (xTaskPriorityDisinherit
\* restores it only when uxMutexesHeld falls to 0, which the books make exact).
THEOREM PriorityRestoredCorrect ==
  ASSUME IsFiniteSet(Mutexes) PROVE Spec => []PriorityRestored
<1>1. Init => MutexInv
  BY InitMutexInv
<1>2. MutexInv => PriorityRestored
  BY DEF MutexInv
<1>3. MutexInv /\ [Next]_vars => MutexInv'
  BY StepMutexInv
<1> QED BY <1>1, <1>2, <1>3, PTL DEF Spec
---------------------------------------------------------------------------
\* Priorities lent, for any nesting of the mutexes.

LendTypes ==
  /\ uxPriority \in [Tasks -> Nat] /\ uxBasePriority \in [Tasks -> Nat] /\ item \in [Tasks -> Nat]
  /\ waiting \in [Mutexes -> Seq(Tasks)] /\ DOMAIN inherited = Tasks /\ DOMAIN limit = Tasks

\* Who waits does so in one list, once, and has time left, as who is about to.
Lists ==
  /\ \A m \in Mutexes : Once(waiting[m])
  /\ \A m \in Mutexes : \A t \in WaitersOf(m) : pc[t] = "try" /\ mutex[t] = m /\ limit[t] # "none"
  /\ \A t \in Tasks : pc[t] = "block" => limit[t] # "none"

Nests == \A t \in Tasks \ nested : uxMutexesHeld[t] <= 1

\* The holder runs no lower than any waiter; a waiter above its base has lent it
\* a priority, and what is lent was lent by a call still to end, if it has not
\* nested; and when the mutex is free, who was woken for it is as high as any
\* that still wait.
Below(m) == holder[m] # Nobody =>
  \A t \in WaitersOf(m) : uxPriority[holder[m]] >= uxPriority[t]
Owed(m) == \A t \in WaitersOf(m) : uxPriority[t] > uxBasePriority[holder[m]] => inherited[t]
Lent(m) == uxPriority[holder[m]] # uxBasePriority[holder[m]] =>
  \E t \in Tasks : Lends(t, m) /\ uxPriority[t] >= uxPriority[holder[m]]
Repaid(m) == holder[m] \in Tasks \ nested =>
  uxPriority[holder[m]] >= uxBasePriority[holder[m]] /\ Owed(m) /\ Lent(m)
Woken(t, m) == pc[t] = "try" /\ mutex[t] = m /\ ~Waits(t)
NextUp(m) == holder[m] = Nobody /\ waiting[m] # <<>> =>
  \E t \in Tasks : Woken(t, m) /\ \A u \in WaitersOf(m) : uxPriority[t] >= uxPriority[u]
Placed(m) == Ordered(waiting[m], uxPriority) /\ \A t \in WaitersOf(m) : item[t] = uxPriority[t]

Sound(m) == Placed(m) /\ Below(m) /\ Repaid(m) /\ NextUp(m)

LendInv == LendTypes /\ Lists /\ Nests /\ \A m \in Mutexes \ spoiled : Sound(m)

LEMMA WaitersAreTasks ==
  ASSUME LendTypes PROVE \A m \in Mutexes : WaitersOf(m) \subseteq Tasks
BY DEF LendTypes, WaitersOf

\* A task that holds one mutex holds no other.
LEMMA HoldsOnly ==
  ASSUME MutexInv, IsFiniteSet(Mutexes), NEW m \in Mutexes, NEW n \in Mutexes,
         holder[m] # Nobody, holder[n] = holder[m], uxMutexesHeld[holder[m]] <= 1
  PROVE  n = m
<1>1. holder[m] \in Tasks /\ uxMutexesHeld[holder[m]] > 0
  BY HolderCounts DEF MutexInv
<1>2. uxMutexesHeld[holder[m]] = 1
  BY <1>1 DEF MutexInv, Books
<1>3. IsFiniteSet(HeldBy(holder[m])) /\ Cardinality(HeldBy(holder[m])) = 1
  BY <1>1, <1>2, FS_Subset DEF HeldBy, MutexInv, Books
<1>4. PICK x : HeldBy(holder[m]) = {x}
  BY <1>3, FS_Singleton
<1> QED BY <1>4 DEF HeldBy

\* A holder that has not nested after a step had not before, and holds one.
LEMMA NotNested ==
  ASSUME MutexInv, MutexInv', LendInv, IsFiniteSet(Mutexes), History,
         NEW m \in Mutexes, holder[m] # Nobody, holder'[m] = holder[m], holder[m] \notin nested'
  PROVE  /\ holder[m] \in Tasks \ nested /\ uxMutexesHeld[holder[m]] = 1
         /\ \A n \in Mutexes : holder[n] = holder[m] => n = m
<1> DEFINE h == holder[m]
<1>1. h \in Tasks /\ uxMutexesHeld[h] > 0
  BY HolderCounts DEF MutexInv
<1>2. uxMutexesHeld'[h] > 0
  <2>1. IsFiniteSet(HeldBy(h)') /\ m \in HeldBy(h)'
    BY FS_Subset DEF HeldBy
  <2>2. Cardinality(HeldBy(h)') # 0 /\ Cardinality(HeldBy(h)') \in Nat
    BY <2>1, FS_EmptySet, FS_CardinalityType
  <2> QED BY <1>1, <2>2 DEF MutexInv, Books
<1>3. h \notin nested
  BY <1>1, <1>2 DEF History
<1>4. uxMutexesHeld[h] = 1
  BY <1>1, <1>3 DEF LendInv, Nests, MutexInv, Books
<1> QED BY <1>1, <1>3, <1>4, HoldsOnly

\* A step that does not spoil m.
LEMMA CalmStep ==
  ASSUME LendInv, MutexInv, NEW m \in Mutexes, ~Spoils(m)
  PROVE  /\ \A u \in Tasks : pc[u] \in Calling /\ mutex[u] = m => uxPriority'[u] = uxPriority[u]
         /\ \A u \in WaitersOf(m) : uxPriority'[u] = uxPriority[u]
         /\ holder[m] # Nobody => uxBasePriority'[holder[m]] = uxBasePriority[holder[m]]
         /\ \A u \in WaitersOf(m)' \cap Tasks : item'[u] = uxPriority'[u]
<1>1. \A u \in Tasks : pc[u] \in Calling /\ mutex[u] = m => uxPriority'[u] = uxPriority[u]
  BY DEF Spoils
<1>2. \A u \in WaitersOf(m) : u \in Tasks /\ pc[u] = "try" /\ mutex[u] = m
  BY WaitersAreTasks DEF LendInv, Lists
<1>3. \A u \in WaitersOf(m) : uxPriority'[u] = uxPriority[u]
  BY <1>1, <1>2 DEF Calling
<1>4. holder[m] # Nobody => uxBasePriority'[holder[m]] = uxBasePriority[holder[m]]
  BY DEF Spoils, MutexInv, Books
<1> QED BY <1>1, <1>3, <1>4 DEF Spoils

\* A step that keeps the holder keeps what is lent, when no list gains or
\* reorders a task, the holder falls no lower and no call that has lent ends.
LEMMA KeepsSound ==
  ASSUME LendInv, LendTypes', MutexInv, NEW m \in Mutexes, Sound(m), ~Spoils(m),
         holder'[m] = holder[m], WaitersOf(m)' \subseteq WaitersOf(m),
         Ordered(waiting[m], uxPriority) => Ordered(waiting'[m], uxPriority),
         \A u \in WaitersOf(m) : inherited'[u] = inherited[u],
         holder[m] # Nobody => uxPriority'[holder[m]] >= uxPriority[holder[m]],
         holder[m] # Nobody /\ holder[m] \notin nested' =>
           /\ holder[m] \notin nested /\ uxPriority'[holder[m]] = uxPriority[holder[m]]
           /\ \A u \in Tasks : Lends(u, m) => Lends(u, m)',
         holder[m] = Nobody =>
           \A u \in Tasks : Woken(u, m) => pc'[u] = "try" /\ mutex'[u] = m /\ ~Waits(u)'
  PROVE  Sound(m)'
<1>1. /\ WaitersOf(m) \subseteq Tasks /\ holder[m] \in Tasks \cup {Nobody}
      /\ uxPriority \in [Tasks -> Nat] /\ uxPriority' \in [Tasks -> Nat]
      /\ waiting[m] \in Seq(Tasks) /\ waiting'[m] \in Seq(Tasks)
  BY WaitersAreTasks DEF LendInv, LendTypes, MutexInv, Books
<1>2. /\ \A u \in WaitersOf(m) : uxPriority'[u] = uxPriority[u]
      /\ \A u \in Tasks : pc[u] \in Calling /\ mutex[u] = m => uxPriority'[u] = uxPriority[u]
      /\ holder[m] # Nobody => uxBasePriority'[holder[m]] = uxBasePriority[holder[m]]
      /\ \A u \in WaitersOf(m)' : item'[u] = uxPriority'[u]
  BY <1>1, CalmStep
<1>3. Placed(m)'
  <2>1. \A i \in 1..Len(waiting'[m]) : uxPriority'[waiting'[m][i]] = uxPriority[waiting'[m][i]]
    BY <1>2 DEF WaitersOf
  <2>2. Ordered(waiting'[m], uxPriority)
    BY DEF Sound, Placed
  <2> QED BY <1>2, <2>1, <2>2 DEF Placed, Ordered
<1>4. Below(m)'
  <2>1. SUFFICES ASSUME holder[m] # Nobody, NEW u \in WaitersOf(m)'
                 PROVE  uxPriority'[holder[m]] >= uxPriority'[u]
    BY DEF Below
  <2>2. uxPriority[holder[m]] >= uxPriority[u] /\ uxPriority'[u] = uxPriority[u] /\ u \in Tasks
    BY <1>1, <1>2, <2>1 DEF Sound, Below
  <2>3. holder[m] \in Tasks
    BY <1>1, <2>1
  <2> QED BY <1>1, <2>1, <2>2, <2>3
<1>5. Repaid(m)'
  <2>1. SUFFICES ASSUME holder[m] \in Tasks \ nested'
                 PROVE  uxPriority'[holder[m]] >= uxBasePriority'[holder[m]] /\ Owed(m)' /\ Lent(m)'
    BY DEF Repaid
  <2>2. /\ holder[m] # Nobody /\ holder[m] \in Tasks \ nested
        /\ uxPriority'[holder[m]] = uxPriority[holder[m]]
        /\ uxBasePriority'[holder[m]] = uxBasePriority[holder[m]]
        /\ \A u \in Tasks : Lends(u, m) => Lends(u, m)'
    BY <1>2, <2>1, MutexAssumption
  <2>3. uxPriority[holder[m]] >= uxBasePriority[holder[m]] /\ Owed(m) /\ Lent(m)
    BY <2>2 DEF Sound, Repaid
  <2>4. Owed(m)'
    BY <1>2, <2>2, <2>3 DEF Owed
  <2>5. Lent(m)'
    BY <1>2, <2>2, <2>3 DEF Lent, Lends
  <2> QED BY <2>2, <2>3, <2>4, <2>5
<1>6. NextUp(m)'
  <2>1. SUFFICES ASSUME holder[m] = Nobody, waiting'[m] # <<>>
                 PROVE  \E t \in Tasks : Woken(t, m)' /\ \A u \in WaitersOf(m)' : uxPriority'[t] >= uxPriority'[u]
    BY DEF NextUp
  <2>2. waiting[m] # <<>>
    <3>1. waiting'[m][1] \in WaitersOf(m)'
      BY <1>1, <2>1 DEF WaitersOf
    <3>2. WaitersOf(m) # {}
      BY <3>1
    <3> QED BY <3>2 DEF WaitersOf
  <2>3. PICK t \in Tasks : Woken(t, m) /\ \A u \in WaitersOf(m) : uxPriority[t] >= uxPriority[u]
    BY <2>1, <2>2 DEF Sound, NextUp
  <2>4. Woken(t, m)' /\ uxPriority'[t] = uxPriority[t]
    BY <1>2, <2>1, <2>3 DEF Woken, Calling
  <2>5. \A u \in WaitersOf(m)' : uxPriority'[t] >= uxPriority'[u]
    BY <1>2, <2>3, <2>4
  <2> QED BY <2>4, <2>5
<1> QED BY <1>3, <1>4, <1>5, <1>6 DEF Sound

\* A step in which no priority, list or holder changes keeps what is lent.
LEMMA QuietSound ==
  ASSUME LendInv, LendTypes', MutexInv, NEW m \in Mutexes, Sound(m), ~Spoils(m),
         UNCHANGED <<priorities, holder, waiting>>,
         holder[m] # Nobody /\ holder[m] \notin nested' => holder[m] \notin nested,
         \A u \in WaitersOf(m) : inherited'[u] = inherited[u],
         holder[m] # Nobody => \A u \in Tasks : Lends(u, m) => Lends(u, m)',
         holder[m] = Nobody => \A u \in Tasks : Woken(u, m) => pc'[u] = "try" /\ mutex'[u] = m
  PROVE  Sound(m)'
<1>1. UNCHANGED <<uxPriority, holder, waiting>>
  BY DEF priorities
<1>2. \A n \in Mutexes : WaitersOf(n)' = WaitersOf(n)
  BY <1>1 DEF WaitersOf
<1>3. \A u \in Tasks : Woken(u, m) => ~Waits(u)'
  BY <1>2 DEF Woken, Waits
<1>4. holder[m] # Nobody => uxPriority'[holder[m]] >= uxPriority[holder[m]]
  BY <1>1 DEF LendInv, LendTypes, MutexInv, Books
<1> QED BY <1>1, <1>2, <1>3, <1>4, KeepsSound

\* A delay begins or ends, a call begins, or checks again.
LEMMA CallLend ==
  ASSUME MutexInv, LendInv, NEW t \in Tasks,
         Arrive(t) \/ Sleep(t) \/ (\E m \in Mutexes : Call(t, m)) \/ Recheck(t)
  PROVE  /\ UNCHANGED <<priorities, holder, waiting>> /\ pc[t] # "try"
         /\ \A u \in Tasks \ {t} : pc'[u] = pc[u] /\ mutex'[u] = mutex[u]
                                   /\ limit'[u] = limit[u] /\ inherited'[u] = inherited[u]
         /\ \A m \in Mutexes : holder[m] # Nobody /\ Lends(t, m) => Lends(t, m)'
         /\ LendTypes' /\ Lists'
<1> USE DEF LendInv, LendTypes, MutexInv, Books, Calling
<1>1. /\ UNCHANGED <<priorities, holder, waiting>> /\ pc[t] # "try" /\ pc'[t] # "block"
      /\ \A u \in Tasks \ {t} : pc'[u] = pc[u] /\ mutex'[u] = mutex[u]
                                /\ limit'[u] = limit[u] /\ inherited'[u] = inherited[u]
      /\ DOMAIN inherited' = Tasks /\ DOMAIN limit' = Tasks
  BY DEF Arrive, Sleep, Call, Recheck, Return, Continue, Runs, Goto, call
<1>2. \A m \in Mutexes : holder[m] # Nobody /\ Lends(t, m) => Lends(t, m)'
  <2>1. CASE Recheck(t)
    BY <2>1 DEF Recheck, Continue, Runs, Goto, call, Lends
  <2>2. CASE pc[t] \in {"away", "run"}
    BY <2>2 DEF Lends
  <2> QED BY <2>1, <2>2 DEF Arrive, Sleep, Call, Runs
<1>3. LendTypes'
  BY <1>1 DEF priorities
<1>4. Lists'
  <2>1. \A m \in Mutexes : WaitersOf(m)' = WaitersOf(m) /\ t \notin WaitersOf(m) /\ WaitersOf(m) \subseteq Tasks
    <3>1. \A m \in Mutexes : WaitersOf(m)' = WaitersOf(m)
      BY <1>1 DEF WaitersOf
    <3>2. \A m \in Mutexes : t \notin WaitersOf(m)
      BY <1>1 DEF Lists
    <3> QED BY <3>1, <3>2, WaitersAreTasks
  <2>2. \A m \in Mutexes : Once(waiting'[m])
    BY <1>1 DEF Lists
  <2>3. \A m \in Mutexes : \A u \in WaitersOf(m) : pc'[u] = "try" /\ mutex'[u] = m /\ limit'[u] # "none"
    BY <1>1, <2>1 DEF Lists
  <2>4. \A u \in Tasks : pc'[u] = "block" => limit'[u] # "none"
    BY <1>1 DEF Lists
  <2> HIDE DEF LendInv, LendTypes, MutexInv, Books, Calling
  <2> QED BY <2>1, <2>2, <2>3, <2>4 DEF Lists
<1> QED BY <1>1, <1>2, <1>3, <1>4

\* The time of a call is over, and the task leaves the list.
LEMMA TimeOutLend ==
  ASSUME MutexInv, LendInv, NEW t \in Tasks, TimeOut(t)
  PROVE  /\ LendTypes' /\ Lists'
         /\ \A m \in Mutexes : /\ WaitersOf(m)' \subseteq WaitersOf(m)
                               /\ Ordered(waiting[m], uxPriority) => Ordered(waiting'[m], uxPriority)
<1>1. /\ UNCHANGED <<priorities, holder, pc, mutex, inherited>>
      /\ waiting' = [m \in Mutexes |-> Without(waiting[m], t)]
      /\ limit' = [limit EXCEPT ![t] = "over"]
  BY DEF TimeOut
<1>2. uxPriority \in [Tasks -> Nat] /\ \A m \in Mutexes : waiting[m] \in Seq(Tasks)
  BY DEF LendInv, LendTypes
<1>3. \A m \in Mutexes : /\ waiting'[m] \in Seq(Tasks)
                         /\ \A i \in 1..Len(waiting'[m]) : \E k \in 1..Len(waiting[m]) : waiting'[m][i] = waiting[m][k]
                         /\ Once(waiting[m]) => Once(waiting'[m])
                         /\ Ordered(waiting[m], uxPriority) => Ordered(waiting'[m], uxPriority)
  <2> SUFFICES ASSUME NEW m \in Mutexes
               PROVE  /\ waiting'[m] \in Seq(Tasks)
                      /\ \A i \in 1..Len(waiting'[m]) : \E k \in 1..Len(waiting[m]) :
                           waiting'[m][i] = waiting[m][k]
                      /\ Once(waiting[m]) => Once(waiting'[m])
                      /\ Ordered(waiting[m], uxPriority) => Ordered(waiting'[m], uxPriority)
    OBVIOUS
  <2> DEFINE new == Without(waiting[m], t)
  <2>1. waiting'[m] = new
    BY <1>1
  <2>2. /\ new \in Seq(Tasks)
        /\ \A i \in 1..Len(new) : \E k \in 1..Len(waiting[m]) : new[i] = waiting[m][k]
        /\ Once(waiting[m]) => Once(new)
        /\ Ordered(waiting[m], uxPriority) => Ordered(new, uxPriority)
    BY <1>2, WithoutList
  <2> HIDE DEF new
  <2> QED BY <2>1, <2>2
<1>4. \A m \in Mutexes : WaitersOf(m)' \subseteq WaitersOf(m)
  <2> SUFFICES ASSUME NEW m \in Mutexes, NEW i \in 1..Len(waiting'[m])
               PROVE  waiting'[m][i] \in WaitersOf(m)
    BY DEF WaitersOf
  <2>1. PICK k \in 1..Len(waiting[m]) : waiting'[m][i] = waiting[m][k]
    BY <1>3
  <2> QED BY <2>1 DEF WaitersOf
<1>5. waiting' \in [Mutexes -> Seq(Tasks)]
  BY <1>1, <1>3
<1>6. LendTypes'
  BY <1>1, <1>5 DEF LendInv, LendTypes, priorities
<1>7. \A u \in Tasks : limit[u] # "none" => limit'[u] # "none"
  BY <1>1 DEF LendInv, LendTypes
<1>8. \A m \in Mutexes : WaitersOf(m) \subseteq Tasks
  BY WaitersAreTasks DEF LendInv
<1>9. Lists'
  BY <1>1, <1>3, <1>4, <1>7, <1>8 DEF LendInv, Lists
<1> QED BY <1>3, <1>4, <1>6, <1>9

LEMMA TimeOutSound ==
  ASSUME MutexInv, LendInv, NEW t \in Tasks, TimeOut(t),
         NEW m \in Mutexes, Sound(m), ~Spoils(m),
         holder[m] # Nobody /\ holder[m] \notin nested' => holder[m] \notin nested
  PROVE  Sound(m)'
<1>1. /\ UNCHANGED <<uxPriority, holder, pc, mutex, inherited>>
      /\ limit' = [limit EXCEPT ![t] = "over"]
  BY DEF TimeOut, priorities
<1>2. LendTypes' /\ \A n \in Mutexes : WaitersOf(n)' \subseteq WaitersOf(n)
      /\ (Ordered(waiting[m], uxPriority) => Ordered(waiting'[m], uxPriority))
  BY TimeOutLend
<1>3. \A u \in Tasks : Lends(u, m) => Lends(u, m)'
  BY <1>1 DEF Lends, LendInv, LendTypes
<1>4. \A u \in Tasks : Woken(u, m) => Woken(u, m)'
  BY <1>1, <1>2 DEF Woken, Waits
<1>5. holder[m] # Nobody => uxPriority'[holder[m]] >= uxPriority[holder[m]]
  BY <1>1 DEF LendInv, LendTypes, MutexInv, Books
<1> QED BY <1>1, <1>2, <1>3, <1>4, <1>5, KeepsSound DEF Woken
\* A take: the task gets a free mutex, waits for the holder, or gives up.
LEMMA TakeLend ==
  ASSUME MutexInv, LendInv, NEW t \in Tasks, Take(t)
  PROVE  /\ UNCHANGED <<priorities, waiting>> /\ pc[t] = "try" /\ mutex[t] \in Mutexes
         /\ \A m \in Mutexes : t \notin WaitersOf(m)
         /\ \A u \in Tasks \ {t} : pc'[u] = pc[u] /\ mutex'[u] = mutex[u]
                                   /\ limit'[u] = limit[u] /\ inherited'[u] = inherited[u]
         /\ \A u \in Tasks : pc[u] # "away" /\ ~Waits(u) => uxPriority[u] <= uxPriority[t]
         /\ IF holder[mutex[t]] = Nobody
            THEN holder' = [holder EXCEPT ![mutex[t]] = t] /\ pc'[t] = "run"
                 /\ uxMutexesHeld'[t] = uxMutexesHeld[t] + 1
            ELSE UNCHANGED holder /\ \A m \in Mutexes : Lends(t, m) => Lends(t, m)'
         /\ LendTypes' /\ Lists'
<1>1. /\ UNCHANGED <<priorities, waiting>> /\ pc[t] = "try" /\ mutex[t] \in Mutexes /\ ~Waits(t)
      /\ \A u \in Tasks : pc[u] # "away" /\ ~Waits(u) => uxPriority[u] <= uxPriority[t]
  BY DEF Take, Runs, Ready, MutexInv, Books, Calling
<1>2. /\ \A u \in Tasks \ {t} : pc'[u] = pc[u] /\ mutex'[u] = mutex[u]
                                /\ limit'[u] = limit[u] /\ inherited'[u] = inherited[u]
      /\ DOMAIN inherited' = Tasks /\ DOMAIN limit' = Tasks
      /\ pc'[t] = "run" \/ (pc'[t] = "block" /\ limit'[t] # "none")
  BY DEF Take, Return, Returns, Continue, Goto, call, MutexInv, Books, LendInv, LendTypes, Calling
<1>3. \A m \in Mutexes : WaitersOf(m)' = WaitersOf(m) /\ t \notin WaitersOf(m) /\ WaitersOf(m) \subseteq Tasks
  <2>1. \A m \in Mutexes : WaitersOf(m)' = WaitersOf(m)
    BY <1>1 DEF WaitersOf
  <2>2. \A m \in Mutexes : t \notin WaitersOf(m)
    BY <1>1 DEF Waits
  <2> QED BY <2>1, <2>2, WaitersAreTasks DEF LendInv
<1>4. LendTypes'
  BY <1>1, <1>2 DEF LendInv, LendTypes, priorities
<1>5. Lists'
  <2>1. \A m \in Mutexes : Once(waiting'[m])
    BY <1>1 DEF LendInv, Lists
  <2>2. \A m \in Mutexes : \A u \in WaitersOf(m)' : pc'[u] = "try" /\ mutex'[u] = m /\ limit'[u] # "none"
    BY <1>2, <1>3 DEF LendInv, Lists
  <2>3. \A u \in Tasks : pc'[u] = "block" => limit'[u] # "none"
    BY <1>2 DEF LendInv, Lists
  <2> QED BY <2>1, <2>2, <2>3 DEF Lists
<1>6. CASE holder[mutex[t]] = Nobody
  <2>1. holder' = [holder EXCEPT ![mutex[t]] = t] /\ pc'[t] = "run"
        /\ uxMutexesHeld'[t] = uxMutexesHeld[t] + 1
    BY <1>6 DEF Take, Return, Goto, HeldCount, MutexInv, Books
  <2> QED BY <1>1, <1>2, <1>3, <1>4, <1>5, <1>6, <2>1
<1>7. CASE holder[mutex[t]] # Nobody
  <2>1. UNCHANGED holder /\ (limit[t] # "none" => pc'[t] = "block" /\ UNCHANGED <<mutex, limit, inherited>>)
    BY <1>7 DEF Take, Returns, Continue, Goto, call, MutexInv, Books
  <2>2. \A m \in Mutexes : Lends(t, m) => Lends(t, m)'
    BY <1>1, <2>1 DEF Lends, Calling
  <2> QED BY <1>1, <1>2, <1>3, <1>4, <1>5, <1>7, <2>1, <2>2
<1> QED BY <1>6, <1>7

\* The task that gets a free mutex is as high as who was woken for it.
LEMMA TakeSound ==
  ASSUME MutexInv, MutexInv', LendInv, IsFiniteSet(Mutexes), History, NEW t \in Tasks, Take(t),
         NEW m \in Mutexes, Sound(m), ~Spoils(m)
  PROVE  Sound(m)'
<1>1. /\ UNCHANGED <<priorities, waiting, uxPriority, uxBasePriority, item>> /\ mutex[t] \in Mutexes
      /\ \A u \in Tasks \ {t} : pc'[u] = pc[u] /\ mutex'[u] = mutex[u]
                                /\ limit'[u] = limit[u] /\ inherited'[u] = inherited[u]
      /\ LendTypes' /\ \A n \in Mutexes : t \notin WaitersOf(n)
  BY TakeLend DEF priorities
<1>2. WaitersOf(m)' = WaitersOf(m) /\ WaitersOf(m) \subseteq Tasks
  BY <1>1, WaitersAreTasks DEF WaitersOf, LendInv
<1>3. CASE m # mutex[t] \/ holder[m] # Nobody
  <2>1. holder'[m] = holder[m]
    BY <1>1, <1>3, TakeLend DEF MutexInv, Books
  <2>2. holder[m] # Nobody => \A u \in Tasks : Lends(u, m) => Lends(u, m)'
    BY <1>1, <1>3, TakeLend DEF Lends
  <2>3. holder[m] = Nobody => \A u \in Tasks : Woken(u, m) => pc'[u] = "try" /\ mutex'[u] = m /\ ~Waits(u)'
    <3>1. \A u \in Tasks : Woken(u, m) => ~Waits(u)'
      BY <1>1 DEF Woken, Waits, WaitersOf
    <3> QED BY <1>1, <1>3, <3>1 DEF Woken
  <2>4. holder[m] # Nobody /\ holder[m] \notin nested' => holder[m] \notin nested
    BY <2>1, NotNested
  <2>5. holder[m] # Nobody => uxPriority'[holder[m]] >= uxPriority[holder[m]]
    BY <1>1 DEF LendInv, LendTypes, MutexInv, Books
  <2>6. \A u \in WaitersOf(m) : inherited'[u] = inherited[u]
    BY <1>1, <1>2
  <2> QED BY <1>1, <1>2, <2>1, <2>2, <2>3, <2>4, <2>5, <2>6, KeepsSound
<1>4. CASE m = mutex[t] /\ holder[m] = Nobody
  <2>1. holder'[m] = t /\ uxMutexesHeld'[t] = uxMutexesHeld[t] + 1 /\ t # Nobody
    BY <1>4, TakeLend, MutexAssumption DEF MutexInv, Books
  <2>2. \A w \in WaitersOf(m) : uxPriority[t] >= uxPriority[w]
    <3>1. SUFFICES ASSUME NEW w \in WaitersOf(m) PROVE uxPriority[t] >= uxPriority[w]
      OBVIOUS
    <3>2. waiting[m] # <<>>
      BY <3>1 DEF WaitersOf
    <3>3. PICK u \in Tasks : Woken(u, m) /\ uxPriority[u] >= uxPriority[w]
      BY <1>4, <3>2 DEF Sound, NextUp
    <3>4. uxPriority[u] <= uxPriority[t]
      BY <3>3, TakeLend DEF Woken
    <3>5. uxPriority[u] \in Nat /\ uxPriority[w] \in Nat /\ uxPriority[t] \in Nat
      BY <1>2 DEF LendInv, LendTypes
    <3> QED BY <3>3, <3>4, <3>5
  <2>3. t \notin nested' => uxPriority[t] = uxBasePriority[t]
    <3>1. t \notin nested' => uxMutexesHeld[t] = 0
      BY <2>1 DEF History, MutexInv, Books
    <3> QED BY <3>1 DEF MutexInv, PriorityRestored
  <2>4. t \notin nested' => \A w \in WaitersOf(m) : ~(uxPriority[w] > uxBasePriority[t])
    BY <1>2, <2>2, <2>3 DEF LendInv, LendTypes
  <2>5. Repaid(m)'
    BY <1>1, <1>2, <2>1, <2>3, <2>4 DEF Repaid, Owed, Lent, LendInv, LendTypes
  <2>6. Placed(m)' /\ Below(m)' /\ NextUp(m)'
    BY <1>1, <1>2, <2>1, <2>2 DEF Sound, Placed, Below, NextUp
  <2> QED BY <2>5, <2>6 DEF Sound
<1> QED BY <1>3, <1>4
\* With the scheduler suspended: the call goes on, or the task lends the holder
\* its priority and goes to its place in the list.
LEMMA BlockLend ==
  ASSUME MutexInv, LendInv, NEW t \in Tasks, Block(t)
  PROVE  /\ pc[t] = "block" /\ mutex[t] \in Mutexes
         /\ UNCHANGED <<uxBasePriority, uxMutexesHeld, holder, mutex>>
         /\ \A u \in Tasks \ {t} : pc'[u] = pc[u] /\ limit'[u] = limit[u] /\ inherited'[u] = inherited[u]
         /\ \A m \in Mutexes : t \notin WaitersOf(m) /\ WaitersOf(m)' \subseteq WaitersOf(m) \cup {t}
         /\ \/ /\ UNCHANGED <<uxPriority, item, waiting, inherited>>
               /\ pc'[t] = "recheck" \/ holder[mutex[t]] = Nobody
            \/ /\ holder[mutex[t]] # Nobody /\ pc'[t] = "try" /\ limit'[t] # "none"
               /\ inherited'[t] = InheritanceOccurred(holder[mutex[t]], t)
               /\ waiting' = [waiting EXCEPT ![mutex[t]] = Insert(waiting[mutex[t]], t, item)]
               /\ IF Inherits(holder[mutex[t]], t)
                  THEN /\ uxPriority' = [uxPriority EXCEPT ![holder[mutex[t]]] = uxPriority[t]]
                       /\ item' = [item EXCEPT ![holder[mutex[t]]] = uxPriority[t]]
                  ELSE UNCHANGED <<uxPriority, item>>
         /\ LendTypes' /\ Lists'
<1> DEFINE m == mutex[t]  h == holder[m]
<1>1. /\ pc[t] = "block" /\ m \in Mutexes /\ limit[t] # "none"
      /\ UNCHANGED <<uxBasePriority, uxMutexesHeld, holder, mutex>>
      /\ \A u \in Tasks \ {t} : pc'[u] = pc[u] /\ limit'[u] = limit[u] /\ inherited'[u] = inherited[u]
      /\ DOMAIN inherited' = Tasks /\ DOMAIN limit' = Tasks
      /\ limit'[t] = IF limit[t] = "over" THEN "none" ELSE limit[t]
  BY DEF Block, Runs, Goto, MutexInv, Books, Calling, LendInv, LendTypes, Lists
<1>2. \A n \in Mutexes : t \notin WaitersOf(n) /\ WaitersOf(n) \subseteq Tasks
  BY <1>1, WaitersAreTasks DEF LendInv, Lists
<1>3. CASE limit[t] = "over" \/ h = Nobody
  <2>1. /\ UNCHANGED <<uxPriority, item, waiting, inherited>>
        /\ pc'[t] \in {"try", "recheck"} /\ (pc'[t] = "recheck" \/ h = Nobody)
    BY <1>3 DEF Block, Goto, MutexInv, Books
  <2>2. LendTypes'
    BY <1>1, <2>1 DEF LendInv, LendTypes
  <2>3. Lists'
    <3>1. \A n \in Mutexes : WaitersOf(n)' = WaitersOf(n)
      BY <2>1 DEF WaitersOf
    <3>2. \A n \in Mutexes : Once(waiting'[n])
      BY <2>1 DEF LendInv, Lists
    <3>3. \A n \in Mutexes : \A u \in WaitersOf(n)' : pc'[u] = "try" /\ mutex'[u] = n /\ limit'[u] # "none"
      BY <1>1, <1>2, <3>1 DEF LendInv, Lists
    <3>4. \A u \in Tasks : pc'[u] = "block" => limit'[u] # "none"
      BY <1>1, <2>1 DEF LendInv, Lists
    <3> QED BY <3>2, <3>3, <3>4 DEF Lists
  <2>4. \A n \in Mutexes : WaitersOf(n)' = WaitersOf(n)
    BY <2>1 DEF WaitersOf
  <2> QED BY <1>1, <1>2, <2>1, <2>2, <2>3, <2>4
<1>4. CASE limit[t] # "over" /\ h # Nobody
  <2>1. /\ h # Nobody /\ pc'[t] = "try" /\ limit'[t] # "none"
        /\ inherited'[t] = InheritanceOccurred(h, t)
        /\ waiting' = [waiting EXCEPT ![m] = Insert(waiting[m], t, item)]
        /\ IF Inherits(h, t) THEN /\ uxPriority' = [uxPriority EXCEPT ![h] = uxPriority[t]]
                                  /\ item' = [item EXCEPT ![h] = uxPriority[t]]
           ELSE UNCHANGED <<uxPriority, item>>
    BY <1>1, <1>4 DEF Block, Goto, MutexInv, Books, LendInv, LendTypes
  <2>2. /\ waiting'[m] = Insert(waiting[m], t, item) /\ waiting[m] \in Seq(Tasks)
        /\ \A n \in Mutexes \ {m} : waiting'[n] = waiting[n]
    BY <1>1, <2>1 DEF LendInv, LendTypes
  <2>3. /\ waiting'[m] \in Seq(Tasks) /\ Len(waiting'[m]) = Len(waiting[m]) + 1
        /\ \A i \in 1..(Len(waiting[m]) + 1) :
             waiting'[m][i] \in {waiting[m][j] : j \in 1..Len(waiting[m])} \cup {t}
    BY <2>2, InsertElements
  <2>4. \A n \in Mutexes : WaitersOf(n)' \subseteq WaitersOf(n) \cup (IF n = m THEN {t} ELSE {})
    <3>1. WaitersOf(m)' \subseteq WaitersOf(m) \cup {t}
      BY <1>1, <2>3 DEF WaitersOf
    <3>2. \A n \in Mutexes \ {m} : WaitersOf(n)' = WaitersOf(n)
      BY <2>2 DEF WaitersOf
    <3> QED BY <1>1, <3>1, <3>2
  <2>5. LendTypes'
    <3>1. waiting' \in [Mutexes -> Seq(Tasks)]
      BY <2>1, <2>2, <2>3 DEF LendInv, LendTypes
    <3>2. uxPriority' \in [Tasks -> Nat] /\ item' \in [Tasks -> Nat]
      BY <2>1 DEF LendInv, LendTypes
    <3> QED BY <1>1, <3>1, <3>2 DEF LendInv, LendTypes
  <2>6. Lists'
    <3>1. Once(waiting'[m])
      <4>1. Once(waiting[m]) /\ \A i \in 1..Len(waiting[m]) : waiting[m][i] # t
        BY <1>1, <1>2, SMTT(30) DEF LendInv, Lists, WaitersOf
      <4> QED BY <2>2, <4>1, InsertOnce
    <3>2. \A n \in Mutexes : Once(waiting'[n])
      BY <2>2, <3>1 DEF LendInv, Lists
    <3>3. \A n \in Mutexes : \A u \in WaitersOf(n)' : pc'[u] = "try" /\ mutex[u] = n /\ limit'[u] # "none"
      BY <1>1, <1>2, <2>1, <2>4 DEF LendInv, Lists
    <3>4. \A u \in Tasks : pc'[u] = "block" => limit'[u] # "none"
      BY <1>1, <2>1 DEF LendInv, Lists
    <3> QED BY <1>1, <3>2, <3>3, <3>4 DEF Lists
  <2> QED BY <1>1, <1>2, <2>1, <2>4, <2>5, <2>6
<1> QED BY <1>3, <1>4

\* A priority lent for another mutex changes nothing here but to raise the
\* holder, which then has nested.
LEMMA BlockElsewhere ==
  ASSUME MutexInv, MutexInv', LendInv, IsFiniteSet(Mutexes), History, NEW t \in Tasks, Block(t),
         NEW m \in Mutexes, Sound(m), ~Spoils(m), m # mutex[t] \/ UNCHANGED <<uxPriority, item, waiting, inherited>>
  PROVE  Sound(m)'
<1> DEFINE n == mutex[t]
<1>1. /\ pc[t] = "block" /\ n \in Mutexes /\ UNCHANGED <<uxBasePriority, uxMutexesHeld, holder, mutex>>
      /\ \A u \in Tasks \ {t} : pc'[u] = pc[u] /\ limit'[u] = limit[u] /\ inherited'[u] = inherited[u]
      /\ \A k \in Mutexes : t \notin WaitersOf(k)
      /\ LendTypes'
  BY BlockLend
<1>2. waiting'[m] = waiting[m] /\ WaitersOf(m)' = WaitersOf(m) /\ WaitersOf(m) \subseteq Tasks
  <2>1. waiting'[m] = waiting[m]
    BY BlockLend DEF LendInv, LendTypes
  <2> QED BY <2>1, WaitersAreTasks DEF WaitersOf, LendInv
<1>3. \A u \in WaitersOf(m) : inherited'[u] = inherited[u]
  BY <1>1, <1>2
<1>4. holder[m] # Nobody => /\ uxPriority'[holder[m]] >= uxPriority[holder[m]]
                            /\ holder[m] # holder[n] => uxPriority'[holder[m]] = uxPriority[holder[m]]
  <2>1. uxPriority \in [Tasks -> Nat] /\ (holder[m] # Nobody => holder[m] \in Tasks)
        /\ (holder[n] # Nobody => holder[n] \in Tasks)
    BY <1>1 DEF LendInv, LendTypes, MutexInv, Books
  <2>2. UNCHANGED uxPriority \/ (holder[n] # Nobody /\ uxPriority[holder[n]] < uxPriority[t]
                                 /\ uxPriority' = [uxPriority EXCEPT ![holder[n]] = uxPriority[t]])
    BY BlockLend DEF Inherits
  <2> QED BY <2>1, <2>2
<1>5. ASSUME holder[m] # Nobody, holder[m] \notin nested'
      PROVE  /\ holder[m] \notin nested /\ uxPriority'[holder[m]] = uxPriority[holder[m]]
             /\ \A u \in Tasks : Lends(u, m) => Lends(u, m)'
  <2>1. holder[m] \notin nested /\ (holder[n] = holder[m] => n = m)
    BY <1>1, <1>5, NotNested
  <2>2. uxPriority'[holder[m]] = uxPriority[holder[m]]
    BY <1>1, <1>4, <1>5, <2>1 DEF LendInv
  <2>3. \A u \in Tasks \ {t} : Lends(u, m) => Lends(u, m)'
    BY <1>1 DEF Lends
  <2>4. Lends(t, m) => Lends(t, m)'
    BY <1>1, <1>5, BlockLend DEF Lends, Calling
  <2> QED BY <2>1, <2>2, <2>3, <2>4
<1>6. holder[m] = Nobody =>
        \A u \in Tasks : Woken(u, m) => pc'[u] = "try" /\ mutex'[u] = m /\ ~Waits(u)'
  <2>1. ASSUME NEW u \in Tasks, Woken(u, m) PROVE u # t /\ ~Waits(u)'
    <3>1. u # t
      BY <1>1, <2>1 DEF Woken
    <3>2. \A k \in Mutexes : u \notin WaitersOf(k)'
      <4>1. \A k \in Mutexes : WaitersOf(k)' \subseteq WaitersOf(k) \cup {t}
        BY BlockLend
      <4> QED BY <2>1, <3>1, <4>1 DEF Woken, Waits
    <3> QED BY <3>1, <3>2 DEF Waits
  <2> QED BY <1>1, <2>1 DEF Woken
<1> QED BY <1>1, <1>2, <1>3, <1>4, <1>5, <1>6, KeepsSound
\* A task that waits lends its priority, if it is higher, to the holder.
LEMMA WaitSound ==
  ASSUME MutexInv, MutexInv', LendInv, IsFiniteSet(Mutexes), History, NEW t \in Tasks, Block(t),
         NEW m \in Mutexes, Sound(m), ~Spoils(m), m = mutex[t],
         ~UNCHANGED <<uxPriority, item, waiting, inherited>>
  PROVE  Sound(m)'
<1> DEFINE h == holder[m]
<1>1. /\ pc[t] = "block" /\ UNCHANGED <<uxBasePriority, holder, mutex>>
      /\ \A u \in Tasks \ {t} : pc'[u] = pc[u] /\ limit'[u] = limit[u] /\ inherited'[u] = inherited[u]
      /\ t \notin WaitersOf(m) /\ WaitersOf(m)' \subseteq WaitersOf(m) \cup {t}
      /\ h # Nobody /\ pc'[t] = "try" /\ limit'[t] # "none"
      /\ inherited'[t] = InheritanceOccurred(h, t)
      /\ waiting' = [waiting EXCEPT ![m] = Insert(waiting[m], t, item)]
      /\ IF Inherits(h, t) THEN /\ uxPriority' = [uxPriority EXCEPT ![h] = uxPriority[t]]
                                /\ item' = [item EXCEPT ![h] = uxPriority[t]]
         ELSE UNCHANGED <<uxPriority, item>>
      /\ LendTypes'
  BY BlockLend
<1>2. /\ waiting[m] \in Seq(Tasks) /\ uxPriority \in [Tasks -> Nat] /\ uxBasePriority \in [Tasks -> Nat]
      /\ item \in [Tasks -> Nat] /\ uxPriority' \in [Tasks -> Nat] /\ WaitersOf(m) \subseteq Tasks
      /\ h \in Tasks
  BY <1>1, WaitersAreTasks DEF LendInv, LendTypes, MutexInv, Books
<1>3. /\ uxPriority'[t] = uxPriority[t] /\ uxBasePriority'[h] = uxBasePriority[h]
      /\ \A u \in WaitersOf(m) : uxPriority'[u] = uxPriority[u]
      /\ \A u \in WaitersOf(m)' : item'[u] = uxPriority'[u]
  BY <1>1, <1>2, CalmStep DEF Calling
<1>4. /\ uxPriority'[h] >= uxPriority[h] /\ uxPriority'[h] >= uxPriority[t]
      /\ Inherits(h, t) => uxPriority'[h] = uxPriority[t]
      /\ ~Inherits(h, t) => uxPriority'[h] = uxPriority[h]
  BY <1>1, <1>2 DEF Inherits
<1>5. Placed(m)'
  <2>1. \A u \in WaitersOf(m) \cup {t} : item'[u] = item[u]
    <3>1. Inherits(h, t) => h # t /\ h \notin WaitersOf(m)
      BY <1>2, <1>3, <1>4 DEF Inherits
    <3>2. \A u \in Tasks : (u = h /\ Inherits(h, t)) \/ item'[u] = item[u]
      <4>1. item' = IF Inherits(h, t) THEN [item EXCEPT ![h] = uxPriority[t]] ELSE item
        BY <1>1
      <4> QED BY <1>2, <4>1
    <3> QED BY <1>2, <3>1, <3>2
  <2>2. Ordered(waiting[m], item)
    BY DEF Sound, Placed, Ordered, WaitersOf
  <2>3. Ordered(Insert(waiting[m], t, item), item)
    BY <1>2, <2>2, InsertOrdered
  <2>4. waiting'[m] = Insert(waiting[m], t, item)
    BY <1>1 DEF LendInv, LendTypes
  <2>5. Ordered(waiting'[m], item)
    BY <2>3, <2>4
  <2>6. \A i \in 1..Len(waiting'[m]) : uxPriority'[waiting'[m][i]] = item[waiting'[m][i]]
    <3>1. \A u \in WaitersOf(m)' : uxPriority'[u] = item[u]
      BY <1>1, <1>3, <2>1
    <3> QED BY <3>1 DEF WaitersOf
  <2>7. Ordered(waiting'[m], uxPriority')
    BY <2>5, <2>6 DEF Ordered
  <2> QED BY <1>3, <2>7 DEF Placed
<1>6. Below(m)'
  <2>1. \A u \in WaitersOf(m) : uxPriority[h] >= uxPriority[u] /\ uxPriority[u] \in Nat
    BY <1>1, <1>2 DEF Sound, Below
  <2>2. \A u \in WaitersOf(m) \cup {t} : uxPriority'[h] >= uxPriority'[u]
    BY <1>2, <1>3, <1>4, <2>1
  <2> QED BY <1>1, <2>2 DEF Below
<1>7. Repaid(m)'
  <2>1. SUFFICES ASSUME h \in Tasks \ nested'
                 PROVE  uxPriority'[h] >= uxBasePriority[h] /\ Owed(m)' /\ Lent(m)'
    BY <1>1, <1>3 DEF Repaid
  <2>2. h \in Tasks \ nested
    BY <1>1, <2>1, NotNested
  <2>3. uxPriority[h] >= uxBasePriority[h] /\ Owed(m) /\ Lent(m)
    BY <2>2 DEF Sound, Repaid
  <2>4. uxPriority'[h] >= uxBasePriority[h]
    BY <1>2, <1>4, <2>3
  <2>5. Owed(m)'
    <3>1. \A u \in WaitersOf(m) \cup {t} : uxPriority'[u] > uxBasePriority[h] => inherited'[u]
      BY <1>1, <1>2, <1>3, <2>3 DEF Owed, InheritanceOccurred
    <3> QED BY <1>1, <3>1 DEF Owed
  <2>6. Lent(m)'
    <3>1. SUFFICES ASSUME uxPriority'[h] # uxBasePriority[h]
                   PROVE  \E u \in Tasks : Lends(u, m)' /\ uxPriority'[u] >= uxPriority'[h]
      BY <1>1 DEF Lent
    <3>2. inherited'[t] => Lends(t, m)'
      BY <1>1 DEF Lends, Calling
    <3>3. CASE Inherits(h, t)
      BY <1>1, <1>2, <1>3, <1>4, <3>2, <3>3 DEF InheritanceOccurred
    <3>4. CASE ~Inherits(h, t)
      <4>1. PICK u \in Tasks : Lends(u, m) /\ uxPriority[u] >= uxPriority[h]
        BY <1>4, <2>3, <3>1, <3>4 DEF Lent
      <4>2. uxPriority'[u] = uxPriority[u] /\ uxPriority'[h] = uxPriority[h]
        BY <1>1, <1>4, <3>4
      <4>3. Lends(u, m)'
        <5>1. CASE u = t
          <6>1. uxBasePriority[h] < uxPriority[t]
            BY <1>2, <1>4, <2>3, <3>1, <3>4, <4>1, <5>1
          <6> QED BY <1>1, <3>2, <5>1, <6>1 DEF InheritanceOccurred
        <5>2. CASE u # t
          BY <1>1, <4>1, <5>2 DEF Lends
        <5> QED BY <5>1, <5>2
      <4> QED BY <4>1, <4>2, <4>3
    <3> QED BY <3>3, <3>4
  <2> QED BY <2>4, <2>5, <2>6
<1>8. NextUp(m)'
  BY <1>1 DEF NextUp
<1> QED BY <1>5, <1>6, <1>7, <1>8 DEF Sound

\* After a time-out a priority may drop, and the call ends.
LEMMA DisinheritLend ==
  ASSUME MutexInv, LendInv, NEW t \in Tasks, DisinheritAfterTimeout(t)
  PROVE  /\ pc[t] = "disinherit" /\ mutex[t] \in Mutexes
         /\ UNCHANGED <<uxBasePriority, uxMutexesHeld, holder, waiting>>
         /\ \A u \in Tasks \ {t} : pc'[u] = pc[u] /\ mutex'[u] = mutex[u]
                                   /\ limit'[u] = limit[u] /\ inherited'[u] = inherited[u]
         /\ \A m \in Mutexes : t \notin WaitersOf(m) /\ WaitersOf(m)' = WaitersOf(m)
                               /\ WaitersOf(m) \subseteq Tasks
         /\ \/ ~Drops(mutex[t]) /\ UNCHANGED <<uxPriority, item>>
            \/ Drops(mutex[t]) /\ uxPriority' = [uxPriority EXCEPT ![holder[mutex[t]]] = PriorityToUse(mutex[t])]
         /\ LendTypes' /\ Lists'
<1> DEFINE m == mutex[t]  h == holder[m]
<1>1. /\ pc[t] = "disinherit" /\ m \in Mutexes /\ pc'[t] = "run"
      /\ UNCHANGED <<uxBasePriority, uxMutexesHeld, holder, waiting>>
      /\ \A u \in Tasks \ {t} : pc'[u] = pc[u] /\ mutex'[u] = mutex[u]
                                /\ limit'[u] = limit[u] /\ inherited'[u] = inherited[u]
      /\ DOMAIN inherited' = Tasks /\ DOMAIN limit' = Tasks
  BY DEF DisinheritAfterTimeout, Return, Runs, Goto, MutexInv, Books, Calling, LendInv, LendTypes
<1>2. \A n \in Mutexes : t \notin WaitersOf(n) /\ WaitersOf(n)' = WaitersOf(n) /\ WaitersOf(n) \subseteq Tasks
  <2>1. \A n \in Mutexes : WaitersOf(n)' = WaitersOf(n)
    BY <1>1 DEF WaitersOf
  <2>2. \A n \in Mutexes : t \notin WaitersOf(n)
    BY <1>1 DEF LendInv, Lists
  <2> QED BY <2>1, <2>2, WaitersAreTasks DEF LendInv
<1>3. \/ ~Drops(m) /\ UNCHANGED <<uxPriority, item>>
      \/ Drops(m) /\ uxPriority' = [uxPriority EXCEPT ![h] = PriorityToUse(m)]
                  /\ item' = [item EXCEPT ![h] = PriorityToUse(m)]
  BY DEF DisinheritAfterTimeout
<1>4. LendTypes'
  <2>1. h # Nobody => PriorityToUse(m) \in Nat
    <3>1. waiting[m] \in Seq(Tasks) /\ item \in [Tasks -> Nat] /\ uxBasePriority \in [Tasks -> Nat]
      BY <1>1 DEF LendInv, LendTypes
    <3>2. waiting[m] # <<>> => Head(waiting[m]) \in Tasks
      BY <3>1
    <3>3. HighestWaiting(m) \in Nat /\ (h # Nobody => uxBasePriority[h] \in Nat)
      BY <1>1, <3>1, <3>2 DEF HighestWaiting, tskIDLE_PRIORITY, MutexInv, Books
    <3> QED BY <3>3 DEF PriorityToUse
  <2>2. uxPriority' \in [Tasks -> Nat] /\ item' \in [Tasks -> Nat]
    <3>1. uxPriority \in [Tasks -> Nat] /\ item \in [Tasks -> Nat]
      BY DEF LendInv, LendTypes
    <3>2. CASE UNCHANGED <<uxPriority, item>>
      BY <3>1, <3>2
    <3>3. CASE Drops(m) /\ uxPriority' = [uxPriority EXCEPT ![h] = PriorityToUse(m)]
                       /\ item' = [item EXCEPT ![h] = PriorityToUse(m)]
      <4>1. PriorityToUse(m) \in Nat
        BY <2>1, <3>3 DEF Drops
      <4> QED BY <3>1, <3>3, <4>1
    <3> QED BY <1>3, <3>2, <3>3
  <2> QED BY <1>1, <2>2 DEF LendInv, LendTypes
<1>5. Lists'
  <2>1. \A n \in Mutexes : Once(waiting'[n])
    BY <1>1 DEF LendInv, Lists
  <2>2. \A n \in Mutexes : \A u \in WaitersOf(n)' : pc'[u] = "try" /\ mutex'[u] = n /\ limit'[u] # "none"
    BY <1>1, <1>2 DEF LendInv, Lists
  <2>3. \A u \in Tasks : pc'[u] = "block" => limit'[u] # "none"
    BY <1>1 DEF LendInv, Lists
  <2> QED BY <2>1, <2>2, <2>3 DEF Lists
<1> QED BY <1>1, <1>2, <1>3, <1>4, <1>5

\* It drops to what the first of the list still lends.
LEMMA DisinheritSound ==
  ASSUME MutexInv, MutexInv', LendInv, IsFiniteSet(Mutexes), History,
         NEW t \in Tasks, DisinheritAfterTimeout(t), NEW m \in Mutexes, Sound(m), ~Spoils(m)
  PROVE  Sound(m)'
<1> DEFINE n == mutex[t]  h == holder[m]  p == PriorityToUse(m)
<1>1. /\ pc[t] = "disinherit" /\ n \in Mutexes /\ LendTypes'
      /\ UNCHANGED <<uxBasePriority, uxMutexesHeld, holder, waiting>>
      /\ \A u \in Tasks \ {t} : pc'[u] = pc[u] /\ mutex'[u] = mutex[u]
                                /\ limit'[u] = limit[u] /\ inherited'[u] = inherited[u]
      /\ \A k \in Mutexes : t \notin WaitersOf(k) /\ WaitersOf(k)' = WaitersOf(k)
                            /\ WaitersOf(k) \subseteq Tasks
  BY DisinheritLend
<1>2. /\ waiting[m] \in Seq(Tasks) /\ uxPriority \in [Tasks -> Nat] /\ uxBasePriority \in [Tasks -> Nat]
      /\ item \in [Tasks -> Nat] /\ (h # Nobody => h \in Tasks)
  BY DEF LendInv, LendTypes, MutexInv, Books
<1>3. \A u \in Tasks : Woken(u, m) => pc'[u] = "try" /\ mutex'[u] = m /\ ~Waits(u)'
  BY <1>1 DEF Woken, Waits
<1>4. CASE n # m \/ h = Nobody
  <2>1. h # Nobody => uxPriority'[h] = uxPriority[h] /\ \A u \in Tasks : Lends(u, m) => Lends(u, m)'
    <3>1. SUFFICES ASSUME h # Nobody, n # m
                   PROVE  uxPriority'[h] = uxPriority[h] /\ \A u \in Tasks : Lends(u, m) => Lends(u, m)'
      BY <1>4
    <3>2. Drops(n) => holder[n] # h
      BY <1>1, <3>1, HoldsOnly DEF Drops
    <3>3. uxPriority'[h] = uxPriority[h]
      BY <1>2, <3>1, <3>2, DisinheritLend
    <3>4. \A u \in Tasks : Lends(u, m) => Lends(u, m)'
      BY <1>1, <3>1 DEF Lends
    <3> QED BY <3>3, <3>4
  <2>2. h # Nobody /\ h \notin nested' => h \notin nested
    BY <1>1, NotNested
  <2>3. h # Nobody => uxPriority'[h] >= uxPriority[h]
    BY <1>2, <2>1
  <2>4. \A u \in WaitersOf(m) : inherited'[u] = inherited[u]
    BY <1>1
  <2> QED BY <1>1, <1>3, <2>1, <2>2, <2>3, <2>4, KeepsSound
<1>5. CASE n = m /\ h # Nobody
  <2>1. /\ \A u \in WaitersOf(m) : uxPriority'[u] = uxPriority[u]
        /\ \A u \in WaitersOf(m) : item'[u] = uxPriority'[u] /\ item[u] = uxPriority[u]
        /\ Ordered(waiting[m], uxPriority)
    BY <1>1, CalmStep DEF Sound, Placed
  <2>2. HighestWaiting(m) \in Nat /\ \A w \in WaitersOf(m) : HighestWaiting(m) >= uxPriority[w]
    <3>0. waiting[m] # <<>> => /\ 1 \in 1..Len(waiting[m])
                               /\ Head(waiting[m]) = waiting[m][1]
      <4>1. waiting[m] \in Seq(Tasks)
        BY <1>2
      <4> QED BY <4>1
    <3>1. waiting[m] # <<>> => Head(waiting[m]) = waiting[m][1] /\ waiting[m][1] \in WaitersOf(m)
      BY <3>0 DEF WaitersOf
    <3>2. waiting[m] # <<>> => HighestWaiting(m) = uxPriority[waiting[m][1]] /\ waiting[m][1] \in Tasks
      BY <1>1, <2>1, <3>1 DEF HighestWaiting
    <3>3. ASSUME NEW i \in 1..Len(waiting[m]) PROVE HighestWaiting(m) >= uxPriority[waiting[m][i]]
      <4>1. waiting[m] # <<>> /\ i \in Nat /\ (i = 1 \/ 1 < i)
        BY <3>3
      <4>2. uxPriority[waiting[m][i]] \in Nat
        <5>1. waiting[m][i] \in WaitersOf(m)
          BY DEF WaitersOf
        <5> QED BY <1>1, <1>2, <5>1
      <4> QED BY <2>1, <3>0, <3>2, <4>1, <4>2 DEF Ordered
    <3>4. HighestWaiting(m) \in Nat
      BY <1>2, <3>2 DEF HighestWaiting, tskIDLE_PRIORITY
    <3> QED BY <3>3, <3>4 DEF WaitersOf
  <2>3. /\ p \in Nat /\ p >= uxBasePriority[h] /\ \A w \in WaitersOf(m) : p >= uxPriority[w]
        /\ p = uxBasePriority[h] \/ (p = HighestWaiting(m) /\ p > uxBasePriority[h])
    BY <1>1, <1>2, <1>5, <2>2 DEF PriorityToUse
  <2> HIDE DEF p
  <2>4. uxPriority'[h] = IF Drops(m) THEN p ELSE uxPriority[h]
    BY <1>2, <1>5, DisinheritLend DEF p
  <2>5. Placed(m)'
    <3>1. \A i \in 1..Len(waiting[m]) : uxPriority'[waiting[m][i]] = uxPriority[waiting[m][i]]
      BY <2>1 DEF WaitersOf
    <3> QED BY <1>1, <2>1, <3>1 DEF Placed, Ordered
  <2>6. Below(m)'
    BY <1>1, <1>5, <2>1, <2>3, <2>4 DEF Sound, Below
  <2>7. Repaid(m)'
    <3>1. SUFFICES ASSUME h \in Tasks \ nested'
                   PROVE  uxPriority'[h] >= uxBasePriority[h] /\ Owed(m)' /\ Lent(m)'
      BY <1>1 DEF Repaid
    <3>2. h \in Tasks \ nested /\ uxMutexesHeld[h] = 1
      BY <1>1, <1>5, <3>1, NotNested
    <3>3. Owed(m)
      BY <3>2 DEF Sound, Repaid
    <3>4. uxPriority'[h] = p
      BY <1>5, <2>4, <3>2 DEF Drops, p
    <3>5. Owed(m)'
      BY <1>1, <2>1, <3>3 DEF Owed
    <3>6. Lent(m)'
      <4>1. SUFFICES ASSUME p # uxBasePriority[h]
                     PROVE  \E u \in Tasks : Lends(u, m)' /\ uxPriority'[u] >= p
        BY <1>1, <3>4 DEF Lent
      <4>2. p = HighestWaiting(m) /\ p > uxBasePriority[h]
        BY <2>3, <4>1
      <4>3. waiting[m] # <<>>
        BY <1>2, <3>2, <4>2 DEF HighestWaiting, tskIDLE_PRIORITY
      <4>4. PICK w \in WaitersOf(m) : w = Head(waiting[m])
        BY <1>2, <4>3 DEF WaitersOf
      <4>5. w \in Tasks /\ uxPriority[w] = p /\ uxPriority'[w] = p
        BY <1>1, <2>1, <4>2, <4>3, <4>4 DEF HighestWaiting
      <4>6. inherited[w] /\ pc[w] = "try" /\ mutex[w] = m /\ limit[w] # "none"
        BY <3>3, <4>2, <4>4, <4>5 DEF Owed, LendInv, Lists
      <4>7. Lends(w, m)'
        BY <1>1, <4>5, <4>6 DEF Lends, Calling
      <4> QED BY <2>3, <4>5, <4>7
    <3> QED BY <2>3, <3>4, <3>5, <3>6
  <2>8. NextUp(m)'
    BY <1>1, <1>5 DEF NextUp
  <2> QED BY <2>5, <2>6, <2>7, <2>8 DEF Sound
<1> QED BY <1>4, <1>5
\* A give: the first of the list is woken, and a last mutex takes what was lent.
LEMMA GiveLend ==
  ASSUME MutexInv, LendInv, NEW t \in Tasks, NEW n \in Mutexes, Give(t, n)
  PROVE  /\ pc[t] = "run" /\ holder[n] = t /\ holder'[n] = Nobody
         /\ UNCHANGED <<uxBasePriority, pc, mutex, limit, inherited>>
         /\ \A m \in Mutexes \ {n} : holder'[m] = holder[m] /\ waiting'[m] = waiting[m]
         /\ waiting'[n] = IF waiting[n] = <<>> THEN waiting[n] ELSE Tail(waiting[n])
         /\ \A u \in Tasks : u # t \/ uxMutexesHeld[t] # 1 => uxPriority'[u] = uxPriority[u]
         /\ \A m \in Mutexes : WaitersOf(m)' \subseteq WaitersOf(m) /\ WaitersOf(m) \subseteq Tasks
         /\ LendTypes' /\ Lists'
<1>1. /\ pc[t] = "run" /\ holder[n] = t /\ holder'[n] = Nobody
      /\ UNCHANGED <<uxBasePriority, pc, mutex, limit, inherited>>
      /\ \A m \in Mutexes \ {n} : holder'[m] = holder[m] /\ waiting'[m] = waiting[m]
      /\ waiting' = [waiting EXCEPT ![n] = IF waiting[n] = <<>> THEN waiting[n] ELSE Tail(waiting[n])]
  BY DEF Give, Runs, call, MutexInv, Books, LendInv, LendTypes
<1>2. /\ waiting[n] \in Seq(Tasks) /\ waiting \in [Mutexes -> Seq(Tasks)]
      /\ uxPriority \in [Tasks -> Nat] /\ uxBasePriority \in [Tasks -> Nat] /\ item \in [Tasks -> Nat]
  BY DEF LendInv, LendTypes
<1>3. waiting'[n] = IF waiting[n] = <<>> THEN waiting[n] ELSE Tail(waiting[n])
  BY <1>1, <1>2
<1>4. /\ waiting'[n] \in Seq(Tasks)
      /\ \A i \in 1..Len(waiting'[n]) : i + 1 \in 1..Len(waiting[n]) /\ waiting'[n][i] = waiting[n][i + 1]
  BY <1>2, <1>3
<1>5. \A m \in Mutexes : WaitersOf(m)' \subseteq WaitersOf(m) /\ WaitersOf(m) \subseteq Tasks
  <2>1. WaitersOf(n)' \subseteq WaitersOf(n)
    BY <1>4 DEF WaitersOf
  <2>2. \A m \in Mutexes \ {n} : WaitersOf(m)' = WaitersOf(m)
    BY <1>1 DEF WaitersOf
  <2> QED BY <2>1, <2>2, WaitersAreTasks DEF LendInv
<1>6. /\ uxPriority' \in [Tasks -> Nat] /\ item' \in [Tasks -> Nat]
      /\ \A u \in Tasks : u # t \/ uxMutexesHeld[t] # 1 => uxPriority'[u] = uxPriority[u]
  BY <1>2 DEF Give, Disinherits
<1>7. LendTypes'
  <2>1. waiting' \in [Mutexes -> Seq(Tasks)]
    BY <1>1, <1>2, <1>3, <1>4
  <2> QED BY <1>1, <1>2, <1>6, <2>1 DEF LendInv, LendTypes
<1>8. Lists'
  <2>1. Once(waiting'[n])
    <3>1. \A i, j \in 1..Len(waiting'[n]) : i < j => i + 1 < j + 1
      BY <1>4
    <3> QED BY <1>4, <3>1 DEF Once, LendInv, Lists
  <2>2. \A m \in Mutexes : Once(waiting'[m])
    BY <1>1, <2>1 DEF LendInv, Lists
  <2>3. \A m \in Mutexes : \A u \in WaitersOf(m)' : pc'[u] = "try" /\ mutex'[u] = m /\ limit'[u] # "none"
    BY <1>1, <1>5 DEF LendInv, Lists
  <2>4. \A u \in Tasks : pc'[u] = "block" => limit'[u] # "none"
    BY <1>1 DEF LendInv, Lists
  <2> QED BY <2>2, <2>3, <2>4 DEF Lists
<1> QED BY <1>1, <1>3, <1>5, <1>6, <1>7, <1>8

LEMMA GiveSound ==
  ASSUME MutexInv, MutexInv', LendInv, IsFiniteSet(Mutexes), History,
         NEW t \in Tasks, NEW n \in Mutexes, Give(t, n), NEW m \in Mutexes, Sound(m), ~Spoils(m)
  PROVE  Sound(m)'
<1>1. /\ pc[t] = "run" /\ holder[n] = t /\ LendTypes' /\ t # Nobody
      /\ UNCHANGED <<uxBasePriority, pc, mutex, limit, inherited>>
      /\ \A k \in Mutexes : WaitersOf(k)' \subseteq WaitersOf(k) /\ WaitersOf(k) \subseteq Tasks
      /\ \A u \in Tasks : u # t \/ uxMutexesHeld[t] # 1 => uxPriority'[u] = uxPriority[u]
  BY GiveLend, MutexAssumption
<1>2. CASE m # n
  <2>1. holder'[m] = holder[m] /\ waiting'[m] = waiting[m]
    BY <1>2, GiveLend
  <2>2. holder[m] # Nobody => uxPriority'[holder[m]] = uxPriority[holder[m]]
    <3>1. holder[m] = t => uxMutexesHeld[t] # 1
      BY <1>1, <1>2, HoldsOnly
    <3> QED BY <1>1, <3>1 DEF MutexInv, Books
  <2>3. \A u \in Tasks : Lends(u, m) => Lends(u, m)'
    BY <1>1 DEF Lends
  <2>4. \A u \in Tasks : Woken(u, m) => pc'[u] = "try" /\ mutex'[u] = m /\ ~Waits(u)'
    BY <1>1 DEF Woken, Waits
  <2>5. holder[m] # Nobody /\ holder[m] \notin nested' => holder[m] \notin nested
    BY <2>1, NotNested
  <2>6. holder[m] # Nobody => uxPriority'[holder[m]] >= uxPriority[holder[m]]
    BY <2>2 DEF LendInv, LendTypes, MutexInv, Books
  <2> QED BY <1>1, <2>1, <2>2, <2>3, <2>4, <2>5, <2>6, KeepsSound
<1>3. CASE m = n
  <2>1. /\ holder'[m] = Nobody /\ waiting[m] \in Seq(Tasks)
        /\ waiting'[m] = IF waiting[m] = <<>> THEN waiting[m] ELSE Tail(waiting[m])
    BY <1>3, GiveLend DEF LendInv, LendTypes
  <2>2. /\ waiting'[m] \in Seq(Tasks)
        /\ \A i \in 1..Len(waiting'[m]) : i + 1 \in 1..Len(waiting[m]) /\ waiting'[m][i] = waiting[m][i + 1]
    BY <2>1
  <2>3. /\ \A u \in WaitersOf(m) : uxPriority'[u] = uxPriority[u]
        /\ \A u \in WaitersOf(m)' : item'[u] = uxPriority'[u]
        /\ Ordered(waiting[m], uxPriority)
    BY <1>1, CalmStep DEF Sound, Placed
  <2>4. Placed(m)'
    <3>1. \A i, j \in 1..Len(waiting'[m]) : i < j => i + 1 < j + 1
      BY <2>2
    <3>2. Ordered(waiting'[m], uxPriority)
      BY <2>2, <2>3, <3>1 DEF Ordered
    <3>3. \A i \in 1..Len(waiting'[m]) : uxPriority'[waiting'[m][i]] = uxPriority[waiting'[m][i]]
      BY <1>1, <2>3 DEF WaitersOf
    <3> QED BY <2>3, <3>2, <3>3 DEF Placed, Ordered
  <2>5. Below(m)' /\ Repaid(m)'
    BY <2>1, MutexAssumption DEF Below, Repaid
  <2>6. NextUp(m)'
    <3>1. SUFFICES ASSUME waiting'[m] # <<>>
                   PROVE  \E u \in Tasks : Woken(u, m)' /\ \A w \in WaitersOf(m)' : uxPriority'[u] >= uxPriority'[w]
      BY DEF NextUp
    <3>2. waiting[m] # <<>> /\ 1 \in 1..Len(waiting[m])
      BY <2>1, <2>2, <3>1
    <3>3. PICK w \in WaitersOf(m) : w = waiting[m][1]
      BY <3>2 DEF WaitersOf
    <3>4. w \in Tasks /\ pc[w] = "try" /\ mutex[w] = m
      BY <1>1, <3>3 DEF LendInv, Lists
    <3>5. \A i \in 1..Len(waiting'[m]) : i + 1 \in 1..Len(waiting[m]) /\ 1 < i + 1
      BY <2>2
    <3>6. w \notin WaitersOf(m)'
      BY <2>2, <3>2, <3>3, <3>5 DEF LendInv, Lists, Once, WaitersOf
    <3>7. \A k \in Mutexes \ {m} : w \notin WaitersOf(k)'
      BY <1>1, <3>4 DEF LendInv, Lists
    <3>8. Woken(w, m)'
      BY <1>1, <3>4, <3>6, <3>7 DEF Woken, Waits
    <3>9. \A u \in WaitersOf(m)' : uxPriority[w] >= uxPriority[u]
      <4>1. \A i \in 1..Len(waiting'[m]) : uxPriority[w] >= uxPriority[waiting[m][i + 1]]
        BY <2>3, <3>2, <3>3, <3>5 DEF Ordered
      <4> QED BY <2>2, <4>1 DEF WaitersOf
    <3>10. \A u \in WaitersOf(m)' : uxPriority'[w] >= uxPriority'[u]
      BY <1>1, <2>3, <3>3, <3>9
    <3> QED BY <3>4, <3>8, <3>10
  <2> QED BY <2>4, <2>5, <2>6 DEF Sound
<1> QED BY <1>2, <1>3

\* vTaskPrioritySet() may change the priority of the holder only with its base.
LEMMA PrioritySetLend ==
  ASSUME MutexInv, LendInv, NEW t \in Tasks, NEW p \in NewPriorities, PrioritySet(t, p)
  PROVE  LendTypes' /\ Lists'
<1>1. UNCHANGED <<waiting, pc, mutex, limit, inherited>> /\ p \in Nat
  BY MutexAssumption DEF PrioritySet, call
<1>2. LendTypes'
  BY <1>1 DEF PrioritySet, LendInv, LendTypes
<1>3. Lists'
  BY <1>1 DEF LendInv, Lists, WaitersOf
<1> QED BY <1>2, <1>3

LEMMA PrioritySetSound ==
  ASSUME MutexInv, MutexInv', LendInv, IsFiniteSet(Mutexes), History,
         NEW t \in Tasks, NEW p \in NewPriorities, PrioritySet(t, p),
         NEW m \in Mutexes, Sound(m), ~Spoils(m)
  PROVE  Sound(m)'
<1>1. UNCHANGED <<waiting, holder, uxMutexesHeld, pc, mutex, limit, inherited>> /\ p \in Nat
      /\ uxBasePriority[t] # p /\ LendTypes'
  BY PrioritySetLend, MutexAssumption DEF PrioritySet, call
<1>2. holder[m] # t
  <2>1. uxBasePriority'[t] = p
    BY DEF PrioritySet, LendInv, LendTypes
  <2> QED BY <1>1, <2>1 DEF Spoils
<1>3. holder[m] # Nobody => uxPriority'[holder[m]] = uxPriority[holder[m]]
  BY <1>2 DEF PrioritySet, LendInv, LendTypes
<1>4. holder[m] # Nobody => uxPriority'[holder[m]] >= uxPriority[holder[m]]
  BY <1>3 DEF LendInv, LendTypes, MutexInv, Books
<1>5. \A n \in Mutexes : WaitersOf(n)' = WaitersOf(n)
  BY <1>1 DEF WaitersOf
<1>6. /\ \A u \in Tasks : Lends(u, m) => Lends(u, m)'
      /\ \A u \in Tasks : Woken(u, m) => pc'[u] = "try" /\ mutex'[u] = m /\ ~Waits(u)'
  BY <1>1, <1>5 DEF Lends, Woken, Waits
<1>7. holder[m] # Nobody /\ holder[m] \notin nested' => holder[m] \notin nested
  BY <1>1, NotNested
<1> QED BY <1>1, <1>3, <1>4, <1>5, <1>6, <1>7, KeepsSound

\* A mutex that is free and called for by nobody has an empty list.
LEMMA IdleSound ==
  ASSUME LendTypes', Lists', NEW m \in Mutexes, Idle(m)' PROVE Sound(m)'
<1>1. WaitersOf(m)' = {}
  <2>1. WaitersOf(m)' \subseteq Tasks
    BY DEF LendTypes, WaitersOf
  <2> QED BY <2>1 DEF Lists, Idle, Calling
<1>2. waiting'[m] = <<>>
  <2>1. waiting'[m] \in Seq(Tasks)
    BY DEF LendTypes
  <2>2. waiting'[m] # <<>> => waiting'[m][1] \in WaitersOf(m)'
    BY <2>1 DEF WaitersOf
  <2> QED BY <1>1, <2>2
<1>3. holder'[m] = Nobody
  BY DEF Idle
<1> QED BY <1>1, <1>2, <1>3, MutexAssumption DEF Sound, Placed, Ordered, Below, Repaid, NextUp

LEMMA ActionLend ==
  ASSUME MutexInv, MutexInv', LendInv, IsFiniteSet(Mutexes), Next
  PROVE  /\ History /\ LendTypes' /\ Lists'
         /\ \A m \in Mutexes : Sound(m) /\ ~Spoils(m) => Sound(m)'
<1>1. PICK t \in Tasks :
        \/ Arrive(t) \/ Sleep(t) \/ Step(t) \/ TimeOut(t)
        \/ \E m \in Mutexes : Call(t, m) \/ Give(t, m)
        \/ \E p \in NewPriorities : PrioritySet(t, p)
  BY DEF Next
<1>2. History
  BY <1>1 DEF Arrive, Sleep, Step, TimeOut, Call, Give, PrioritySet, Take, Block, Recheck, DisinheritAfterTimeout
<1>3. CASE Arrive(t) \/ Sleep(t) \/ (\E m \in Mutexes : Call(t, m)) \/ Recheck(t)
  <2>1. /\ UNCHANGED <<priorities, holder, waiting>> /\ pc[t] # "try"
        /\ \A u \in Tasks \ {t} : pc'[u] = pc[u] /\ mutex'[u] = mutex[u]
                                  /\ limit'[u] = limit[u] /\ inherited'[u] = inherited[u]
        /\ \A m \in Mutexes : holder[m] # Nobody /\ Lends(t, m) => Lends(t, m)'
        /\ LendTypes' /\ Lists'
    BY <1>3, CallLend
  <2>2. ASSUME NEW m \in Mutexes, Sound(m), ~Spoils(m) PROVE Sound(m)'
    <3>1. holder[m] # Nobody => \A u \in Tasks : Lends(u, m) => Lends(u, m)'
      BY <2>1 DEF Lends
    <3>2. \A u \in Tasks : Woken(u, m) => pc'[u] = "try" /\ mutex'[u] = m
      BY <2>1 DEF Woken
    <3>3. \A u \in WaitersOf(m) : inherited'[u] = inherited[u]
      BY <2>1, WaitersAreTasks DEF LendInv, Lists
    <3>4. holder[m] # Nobody /\ holder[m] \notin nested' => holder[m] \notin nested
      BY <1>2, <2>1, NotNested
    <3> QED BY <2>1, <2>2, <3>1, <3>2, <3>3, <3>4, QuietSound
  <2> QED BY <1>2, <2>1, <2>2
<1>4. CASE TimeOut(t)
  <2>1. ASSUME NEW m \in Mutexes
        PROVE  holder[m] # Nobody /\ holder[m] \notin nested' => holder[m] \notin nested
    <3>1. UNCHANGED holder
      BY <1>4 DEF TimeOut
    <3> QED BY <1>2, <3>1, NotNested
  <2> QED BY <1>2, <1>4, <2>1, TimeOutLend, TimeOutSound
<1>5. CASE Take(t)
  BY <1>2, <1>5, TakeLend, TakeSound
<1>6. CASE Block(t)
  <2>1. \A m \in Mutexes : Sound(m) /\ ~Spoils(m) => Sound(m)'
    BY <1>2, <1>6, BlockElsewhere, WaitSound
  <2> QED BY <1>2, <1>6, <2>1, BlockLend
<1>7. CASE DisinheritAfterTimeout(t)
  BY <1>2, <1>7, DisinheritLend, DisinheritSound
<1>8. CASE \E m \in Mutexes : Give(t, m)
  BY <1>2, <1>8, GiveLend, GiveSound
<1>9. CASE \E p \in NewPriorities : PrioritySet(t, p)
  BY <1>2, <1>9, PrioritySetLend, PrioritySetSound
<1> QED BY <1>1, <1>3, <1>4, <1>5, <1>6, <1>7, <1>8, <1>9 DEF Step

LEMMA StepLendInv ==
  ASSUME MutexInv, LendInv, IsFiniteSet(Mutexes), [Next]_vars
  PROVE  LendInv'
<1>0. MutexInv'
  BY StepMutexInv
<1>1. CASE Next
  <2>1. /\ History /\ LendTypes' /\ Lists'
        /\ \A m \in Mutexes : Sound(m) /\ ~Spoils(m) => Sound(m)'
    BY <1>0, <1>1, ActionLend
  <2>2. Nests'
    BY <1>0, <2>1 DEF History, Nests, MutexInv, Books
  <2>3. ASSUME NEW m \in Mutexes, m \notin spoiled' PROVE Sound(m)'
    <3>1. Idle(m)' \/ (m \notin spoiled /\ ~Spoils(m))
      BY <2>1, <2>3 DEF History
    <3> QED BY <2>1, <3>1, IdleSound DEF LendInv
  <2> QED BY <2>1, <2>2, <2>3 DEF LendInv
<1>2. CASE UNCHANGED vars
  <2>1. UNCHANGED <<uxPriority, uxBasePriority, uxMutexesHeld, item, holder, waiting,
                    pc, mutex, limit, inherited, spoiled, nested>>
    BY <1>2 DEF vars
  <2>2. \A m \in Mutexes : WaitersOf(m)' = WaitersOf(m)
    BY <2>1 DEF WaitersOf
  <2>3. \A u : Waits(u)' = Waits(u)
    BY <2>2 DEF Waits
  <2>4. LendTypes' /\ Lists' /\ Nests'
    BY <2>1, <2>2 DEF LendInv, LendTypes, Lists, Nests
  <2>5. ASSUME NEW m \in Mutexes, Sound(m) PROVE Sound(m)'
    <3>1. \A u : Lends(u, m)' = Lends(u, m) /\ Woken(u, m)' = Woken(u, m)
      BY <2>1, <2>3 DEF Lends, Woken
    <3> QED BY <2>1, <2>2, <2>5, <3>1 DEF Sound, Placed, Below, Repaid, Owed, Lent, NextUp
  <2> QED BY <2>1, <2>4, <2>5 DEF LendInv
<1> QED BY <1>1, <1>2

LEMMA LendInvariant ==
  ASSUME IsFiniteSet(Mutexes)
  PROVE  Spec => [](MutexInv /\ LendInv)
<1>1. Init => MutexInv
  BY InitMutexInv
<1>2. Init => LendInv
  <2> SUFFICES ASSUME Init PROVE LendInv
    OBVIOUS
  <2>1. \A m \in Mutexes : waiting[m] = <<>> /\ WaitersOf(m) = {} /\ holder[m] = Nobody
    BY DEF Init, WaitersOf
  <2>2. LendTypes
    <3>1. Base \in [Tasks -> Nat]
      BY MutexAssumption
    <3> QED BY <3>1 DEF Init, LendTypes
  <2>3. Lists /\ Nests
    BY <2>1 DEF Init, Lists, Nests, Once
  <2>4. \A m \in Mutexes : Sound(m)
    BY <2>1, MutexAssumption DEF Sound, Placed, Ordered, Below, Repaid, NextUp
  <2> QED BY <2>2, <2>3, <2>4 DEF LendInv
<1>3. MutexInv /\ LendInv /\ [Next]_vars => MutexInv' /\ LendInv'
  BY StepMutexInv, StepLendInv
<1> QED BY <1>1, <1>2, <1>3, PTL DEF Spec

\* A task that waits is not kept waiting by a holder of lower priority, for any
\* number of tasks and mutexes, any nesting and any priorities, also set while
\* the program runs (xTaskPriorityInherit(), vTaskPriorityDisinheritAfterTimeout()),
\* but for mutexes whose list the kernel does not reorder (spoiled).
THEOREM NoInversionCorrect ==
  ASSUME IsFiniteSet(Mutexes) PROVE Spec => []NoInversion
<1>1. LendInv => NoInversion
  BY DEF LendInv, Sound, Below, NoInversion
<1> QED BY <1>1, LendInvariant, PTL

\* A holder that has not nested mutexes runs above its base only while a call
\* of at least that priority still lends it: who times out first leaves what
\* the others lend, and takes back the rest.
THEOREM NoPriorityLeftCorrect ==
  ASSUME IsFiniteSet(Mutexes) PROVE Spec => []NoPriorityLeft
<1>1. LendInv => NoPriorityLeft
  BY DEF LendInv, Sound, Repaid, Lent, NoPriorityLeft
<1> QED BY <1>1, LendInvariant, PTL
=============================================================================

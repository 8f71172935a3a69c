---------------------------- MODULE KernelMutex ---------------------------
(***************************************************************************)
(* Mutexes of the kernel: xSemaphoreTake() with a time-out, give, and the  *)
(* inheritance of priorities.  Only tasks use mutexes, and of those only   *)
(* one of the highest priority that is ready runs; any task may come back  *)
(* from a delay between two critical sections.  What a call does with the  *)
(* scheduler suspended is one step.                                        *)
(***************************************************************************)
EXTENDS EventList, FiniteSets

CONSTANTS
  Tasks, Mutexes,
  Nobody,
  Base,           \* priority each task is created with
  Limits,         \* block times of the calls: "none", "some", "forever"
  Programs,       \* of a program: does it call vTaskPrioritySet() (resets), what
                  \* does it take (uses), and for which <<m, n>> does it take n
                  \* while it holds m (nesting)?
  NewPriorities   \* arguments of vTaskPrioritySet()

ASSUME MutexAssumption ==
  /\ Nobody \notin Tasks /\ Base \in [Tasks -> Nat \ {0}]
  /\ Limits \subseteq {"none", "some", "forever"}
  /\ Programs \subseteq [resets : BOOLEAN, uses : SUBSET Mutexes,
                         nesting : SUBSET (Mutexes \X Mutexes)]
  /\ NewPriorities \subseteq Nat \ {0}

tskIDLE_PRIORITY == 0

VARIABLES
  uxPriority, uxBasePriority, uxMutexesHeld,
  item,       \* value of xEventListItem, as a priority
  holder,     \* xMutexHolder; Nobody when the count of the mutex is 1
  waiting,    \* xTasksWaitingToReceive
  pc,         \* of each task: place
  mutex, limit,  \* and, in a call, its arguments: xTicksToWait is "over" when the
              \* tick has come, and "none" when it is known to be 0
  inherited,  \* and its xInheritanceOccurred
  program,    \* one of Programs
  spoiled,    \* history: see Spoils
  nested      \* history: who has held two mutexes since it held none

vars == <<uxPriority, uxBasePriority, uxMutexesHeld, item, holder, waiting,
          pc, mutex, limit, inherited, program, spoiled, nested>>
priorities == <<uxPriority, uxBasePriority, item>>
call == <<mutex, limit, inherited, program>>
NoMutex == "none"
Calling == {"try", "block", "recheck", "disinherit"}

Init ==
  /\ uxPriority = Base /\ uxBasePriority = Base /\ item = Base
  /\ uxMutexesHeld = [t \in Tasks |-> 0]
  /\ holder = [m \in Mutexes |-> Nobody]
  /\ waiting = [m \in Mutexes |-> <<>>]
  /\ pc = [t \in Tasks |-> "away"]
  /\ mutex = [t \in Tasks |-> NoMutex] /\ limit = [t \in Tasks |-> "none"]
  /\ inherited = [t \in Tasks |-> FALSE]
  /\ program \in Programs
  /\ spoiled = {} /\ nested = {}

WaitersOf(m) == {waiting[m][i] : i \in 1..Len(waiting[m])}
Waits(t) == \E m \in Mutexes : t \in WaitersOf(m)
Ready(t) == pc[t] # "away" /\ ~Waits(t)
Runs(t, at) == pc[t] = at /\ Ready(t)
               /\ \A u \in Tasks : Ready(u) => uxPriority[u] <= uxPriority[t]
Goto(t, at) == pc' = [pc EXCEPT ![t] = at]

Continue(t, at) == Goto(t, at) /\ UNCHANGED call
Return(t) == /\ Goto(t, "run") /\ UNCHANGED program
             /\ mutex' = [mutex EXCEPT ![t] = NoMutex] /\ limit' = [limit EXCEPT ![t] = "none"]
             /\ inherited' = [inherited EXCEPT ![t] = FALSE]

\* A list is ordered by priorities that were true when its tasks were inserted,
\* and nothing looks beyond the holder of the one mutex: a step spoils m when it
\* changes the priority of a task in a call for m, or the base of its holder, or
\* when a task is in the list with another priority than its own.
Spoils(m) ==
  \/ \E u \in Tasks : pc[u] \in Calling /\ mutex[u] = m /\ uxPriority'[u] # uxPriority[u]
  \/ \E u \in Tasks : holder[m] = u /\ uxBasePriority'[u] # uxBasePriority[u]
  \/ \E u \in WaitersOf(m)' : item'[u] # uxPriority'[u]

\* It stays so until m is free and nobody calls for it.
Idle(m) == holder[m] = Nobody /\ \A u \in Tasks : pc[u] \in Calling => mutex[u] # m

History ==
  /\ spoiled' = {m \in Mutexes : (m \in spoiled \/ Spoils(m)) /\ ~Idle(m)'}
  /\ nested' = {t \in Tasks : uxMutexesHeld'[t] > 1 \/ (t \in nested /\ uxMutexesHeld'[t] > 0)}

\* A delay ends, or begins, with or without mutexes held.
Arrive(t) == /\ pc[t] = "away" /\ Goto(t, "run")
             /\ UNCHANGED <<priorities, uxMutexesHeld, holder, waiting, call>>
             /\ History
Sleep(t) == /\ Runs(t, "run") /\ Goto(t, "away")
            /\ UNCHANGED <<priorities, uxMutexesHeld, holder, waiting, call>>
            /\ History

Call(t, m) ==
  /\ Runs(t, "run")
  /\ m \in program.uses
  /\ \A k \in Mutexes : holder[k] = t => <<k, m>> \in program.nesting
  /\ Goto(t, "try")
  /\ mutex' = [mutex EXCEPT ![t] = m]
  /\ \E w \in Limits : limit' = [limit EXCEPT ![t] = w]
  /\ UNCHANGED <<priorities, uxMutexesHeld, holder, waiting, inherited, program>>
  /\ History

\* pvTaskIncrementMutexHeldCount().
HeldCount(t) == uxMutexesHeld[t] + 1

\* The first critical section of xQueueSemaphoreTake(): without time left the
\* call ends, and what it has lent is not asked back.
Returns(t) == limit[t] = "none"
Take(t) ==
  LET m == mutex[t] IN
  /\ Runs(t, "try")
  /\ IF holder[m] = Nobody
     THEN /\ holder' = [holder EXCEPT ![m] = t]
          /\ uxMutexesHeld' = [uxMutexesHeld EXCEPT ![t] = HeldCount(t)]
          /\ Return(t)
     ELSE /\ IF Returns(t) THEN Return(t) ELSE Continue(t, "block")
          /\ UNCHANGED <<holder, uxMutexesHeld>>
  /\ UNCHANGED <<priorities, waiting>>
  /\ History

\* xTaskPriorityInherit() by the task t.
SlipInherits(h, t) == uxPriority[h] < uxPriority[t] /\ uxMutexesHeld[h] > 1
Inherits(h, t) == uxPriority[h] < uxPriority[t]

\* What xQueueSemaphoreTake() remembers: the holder owes its priority to t, or
\* would if no other had raised it before.
SlipOccurred(h, t) == Inherits(h, t)
InheritanceOccurred(h, t) == Inherits(h, t) \/ uxBasePriority[h] < uxPriority[t]

\* With the scheduler suspended: the time is over, the mutex is back, or the
\* holder inherits and the task waits.
Block(t) ==
  LET m == mutex[t]  h == holder[m] IN
  /\ Runs(t, "block")
  /\ IF limit[t] = "over" \/ h = Nobody
     THEN /\ Goto(t, IF limit[t] = "over" THEN "recheck" ELSE "try")
          /\ UNCHANGED <<uxPriority, item, waiting, inherited>>
     ELSE /\ IF Inherits(h, t)
             THEN /\ uxPriority' = [uxPriority EXCEPT ![h] = uxPriority[t]]
                  /\ item' = [item EXCEPT ![h] = uxPriority[t]]
             ELSE UNCHANGED <<uxPriority, item>>
          /\ inherited' = [inherited EXCEPT ![t] = InheritanceOccurred(h, t)]
          /\ waiting' = [waiting EXCEPT ![m] = Insert(@, t, item)]
          /\ Goto(t, "try")
  /\ limit' = [limit EXCEPT ![t] = IF @ = "over" THEN "none" ELSE @]
  /\ UNCHANGED <<uxBasePriority, uxMutexesHeld, holder, mutex, program>>
  /\ History

\* The tick at which the time of a call is over.
TimeOut(t) ==
  /\ pc[t] \in {"try", "block"} /\ limit[t] = "some"
  /\ limit' = [limit EXCEPT ![t] = "over"]
  /\ waiting' = [m \in Mutexes |-> Without(waiting[m], t)]
  /\ UNCHANGED <<priorities, uxMutexesHeld, holder, pc, mutex, inherited, program>>
  /\ History

\* prvIsQueueEmpty() after a time-out, a critical section of its own.
Recheck(t) ==
  /\ Runs(t, "recheck")
  /\ IF holder[mutex[t]] = Nobody THEN Continue(t, "try")
     ELSE IF inherited[t] THEN Continue(t, "disinherit") ELSE Return(t)
  /\ UNCHANGED <<priorities, uxMutexesHeld, holder, waiting>>
  /\ History

\* vTaskPriorityDisinheritAfterTimeout(): down to the first of the list, unless
\* other mutexes are held.
HighestWaiting(m) == IF waiting[m] = <<>> THEN tskIDLE_PRIORITY ELSE item[Head(waiting[m])]

SlipPriorityToUse(m) == uxBasePriority[holder[m]]
PriorityToUse(m) ==
  IF uxBasePriority[holder[m]] < HighestWaiting(m) THEN HighestWaiting(m)
  ELSE uxBasePriority[holder[m]]

Drops(m) == /\ holder[m] # Nobody
            /\ uxPriority[holder[m]] # PriorityToUse(m)
            /\ uxMutexesHeld[holder[m]] = 1

DisinheritAfterTimeout(t) ==
  LET m == mutex[t] IN
  /\ Runs(t, "disinherit") /\ Return(t)
  /\ IF Drops(m) THEN /\ uxPriority' = [uxPriority EXCEPT ![holder[m]] = PriorityToUse(m)]
                      /\ item' = [item EXCEPT ![holder[m]] = PriorityToUse(m)]
                 ELSE UNCHANGED <<uxPriority, item>>
  /\ UNCHANGED <<uxBasePriority, uxMutexesHeld, holder, waiting>>
  /\ History

\* Give: prvCopyDataToQueue() with xTaskPriorityDisinherit(), and the first of
\* the list is woken.
SlipDisinherits(t) == uxMutexesHeld[t] = 2
Disinherits(t) == uxMutexesHeld[t] = 1 /\ uxPriority[t] # uxBasePriority[t]

Give(t, m) ==
  /\ Runs(t, "run") /\ holder[m] = t
  /\ holder' = [holder EXCEPT ![m] = Nobody]
  /\ uxMutexesHeld' = [uxMutexesHeld EXCEPT ![t] = @ - 1]
  /\ IF Disinherits(t) THEN /\ uxPriority' = [uxPriority EXCEPT ![t] = uxBasePriority[t]]
                            /\ item' = [item EXCEPT ![t] = uxBasePriority[t]]
                       ELSE UNCHANGED <<uxPriority, item>>
  /\ waiting' = [waiting EXCEPT ![m] = IF @ = <<>> THEN @ ELSE Tail(@)]
  /\ UNCHANGED <<uxBasePriority, pc, call>>
  /\ History

\* vTaskPrioritySet() of any task: an inherited priority stays.
PrioritySet(t, p) ==
  /\ program.resets /\ uxBasePriority[t] # p
  /\ uxPriority' = [uxPriority EXCEPT ![t] = IF uxBasePriority[t] = @ THEN p ELSE @]
  /\ uxBasePriority' = [uxBasePriority EXCEPT ![t] = p]
  /\ item' = [item EXCEPT ![t] = p]
  /\ UNCHANGED <<uxMutexesHeld, holder, waiting, pc, call>>
  /\ History

Step(t) == Take(t) \/ Block(t) \/ Recheck(t) \/ DisinheritAfterTimeout(t)

Next == \E t \in Tasks :
  \/ Arrive(t) \/ Sleep(t) \/ Step(t) \/ TimeOut(t)
  \/ \E m \in Mutexes : Call(t, m) \/ Give(t, m)
  \/ \E p \in NewPriorities : PrioritySet(t, p)

\* A task that may run goes on, and a holder gives back; nothing makes a task
\* that holds no mutex leave the processor.
Fairness == \A t \in Tasks :
  /\ WF_vars(Step(t)) /\ WF_vars(Arrive(t))
  /\ SF_vars(\E m \in Mutexes : Give(t, m))

Spec == Init /\ [][Next]_vars /\ Fairness
---------------------------------------------------------------------------
\* A task that waits is not kept waiting by a holder of lower priority, however
\* calls, time-outs and gives interleave and mutexes nest: except where the
\* kernel does not pass a change on to the list (spoiled).
NoInversion == \A m \in Mutexes \ spoiled : \A t \in WaitersOf(m) :
  holder[m] # Nobody => uxPriority[holder[m]] >= uxPriority[t]

\* A priority that was inherited is given back with the last mutex, whatever
\* priorities are set meanwhile.
PriorityRestored == \A t \in Tasks :
  uxMutexesHeld[t] = 0 => uxPriority[t] = uxBasePriority[t]

\* A call for m lends its priority until it takes m, or disinherits after its
\* time-out.
Lends(t, m) == /\ pc[t] \in Calling /\ mutex[t] = m /\ inherited[t]
               /\ ~(pc[t] = "try" /\ limit[t] = "none")

\* A holder that has not nested runs above its base only as high as some call
\* lends it: who times out leaves what the others ask for, and no more.
NoPriorityLeft == \A m \in Mutexes \ spoiled : holder[m] \in Tasks \ nested =>
  \/ uxPriority[holder[m]] = uxBasePriority[holder[m]]
  \/ \E t \in Tasks : Lends(t, m) /\ uxPriority[t] >= uxPriority[holder[m]]

\* The task of the highest priority gets the mutex, even if a task between it
\* and the holder never leaves the processor.
HighestServed == \A t \in {t \in Tasks : \A u \in Tasks : Base[u] <= Base[t]} :
  ~program.resets /\ program.nesting = {} /\ Waits(t) ~> ~Waits(t)
=============================================================================

---------------------------- MODULE TaskNotify ----------------------------
(***************************************************************************)
(* The notification of one task in the kernel: ulTaskNotifyTake() in its   *)
(* two critical sections, xTaskNotify() from tasks and from interrupts,    *)
(* the tick that ends the wait, and a task that suspends the scheduler     *)
(* meanwhile.                                                              *)
(***************************************************************************)
EXTENDS Integers

CONSTANTS
  Values,      \* values that notifications set (eSetValueWithOverwrite)
  MaxGiven,    \* bound on the number of notifications
  ClearOnExit  \* xClearCountOnExit

ASSUME NotifyAssumption ==
  Values \subseteq Nat /\ MaxGiven \in Nat /\ ClearOnExit \in BOOLEAN

VARIABLES
  stage,         \* the task: "enter", "exit" (inside ulTaskNotifyTake), "caller"
  ulNotifiedValue, ucNotifyState,
  place,      \* the list of its xStateListItem: "ready" or "delayed"
  event,      \* its xEventListItem is in xPendingReadyList
  suspended,  \* another task has called vTaskSuspendAll()
  taken,      \* what the latest call returned
  timedOut,   \* history: the tick has ended the wait of this call
  given       \* notifications so far

nvars == <<stage, ulNotifiedValue, ucNotifyState, place, event, suspended,
           taken, timedOut, given>>

States == {"not_waiting", "waiting", "received"}

NotifyInit ==
  /\ stage = "enter" /\ ulNotifiedValue = 0 /\ ucNotifyState = "not_waiting"
  /\ place = "ready" /\ event = FALSE /\ suspended = FALSE
  /\ taken = 0 /\ timedOut = FALSE /\ given = 0

\* The task runs only from the ready list, and no other task runs while one
\* has suspended the scheduler.
Scheduled == place = "ready" /\ ~suspended

\* The first critical section: block only if the value is zero.
SlipMayBlock == ulNotifiedValue # 0
MayBlock == ulNotifiedValue = 0

TakeEnter ==
  /\ stage = "enter" /\ Scheduled
  /\ stage' = "exit" /\ timedOut' = FALSE
  /\ IF MayBlock THEN place' = "delayed" /\ ucNotifyState' = "waiting"
                 ELSE UNCHANGED <<place, ucNotifyState>>
  /\ UNCHANGED <<ulNotifiedValue, event, suspended, taken, given>>

\* The second: the value is taken, whatever woke the task.
Left == IF ClearOnExit \/ ulNotifiedValue = 0 THEN 0 ELSE ulNotifiedValue - 1

TakeExit ==
  /\ stage = "exit" /\ Scheduled
  /\ stage' = "caller"
  /\ taken' = ulNotifiedValue
  /\ ulNotifiedValue' = Left
  /\ ucNotifyState' = "not_waiting"
  /\ UNCHANGED <<place, event, suspended, timedOut, given>>

\* xTaskIncrementTick() when the wake time has come; ticks of a suspended
\* scheduler wait for xTaskResumeAll().
Tick ==
  /\ place = "delayed" /\ ~suspended
  /\ place' = "ready" /\ timedOut' = TRUE
  /\ UNCHANGED <<stage, ulNotifiedValue, ucNotifyState, event, suspended, taken, given>>

\* A notification from a task, or from an interrupt when inIsr.  With the
\* scheduler suspended the lists may not be touched and the task is held in
\* xPendingReadyList.
Wakes == ucNotifyState = "waiting"

Notify(v, inIsr) ==
  /\ given < MaxGiven /\ given' = given + 1
  /\ ~inIsr => ~suspended
  /\ ucNotifyState' = "received"
  /\ ulNotifiedValue' = v
  /\ event' = (event \/ (Wakes /\ suspended))
  /\ place' = IF Wakes /\ ~suspended THEN "ready" ELSE place
  /\ UNCHANGED <<stage, suspended, taken, timedOut>>

\* eSetValueWithOverwrite for each value, and eIncrement (vTaskNotifyGive).
SetValue == \E v \in Values : \E inIsr \in BOOLEAN : Notify(v, inIsr)
Increment == \E inIsr \in BOOLEAN : Notify(ulNotifiedValue + 1, inIsr)

SuspendAll ==
  /\ ~suspended
  /\ suspended' = TRUE
  /\ UNCHANGED <<stage, ulNotifiedValue, ucNotifyState, place, event, taken, timedOut, given>>

\* xTaskResumeAll() empties xPendingReadyList into the ready list.
ResumeAll ==
  /\ suspended
  /\ suspended' = FALSE /\ event' = FALSE
  /\ place' = IF event THEN "ready" ELSE place
  /\ UNCHANGED <<stage, ulNotifiedValue, ucNotifyState, taken, timedOut, given>>

\* The caller goes on and calls again.
CallAgain ==
  /\ stage = "caller" /\ Scheduled
  /\ stage' = "enter"
  /\ UNCHANGED <<ulNotifiedValue, ucNotifyState, place, event, suspended, taken, timedOut, given>>

KernelNext == TakeEnter \/ TakeExit \/ Tick \/ SuspendAll \/ ResumeAll
NotifyNext == KernelNext \/ CallAgain \/ SetValue \/ Increment

NotifySpec == NotifyInit /\ [][NotifyNext]_nvars
---------------------------------------------------------------------------
TypeOK ==
  /\ stage \in {"enter", "exit", "caller"}
  /\ ulNotifiedValue \in Nat /\ taken \in Nat /\ given \in Nat
  /\ ucNotifyState \in States
  /\ place \in {"ready", "delayed"}
  /\ {event, suspended, timedOut} \subseteq BOOLEAN

\* The assertion of xTaskGenericNotify() and of its interrupt form: a task that
\* waits for a notification is on no event list, so it is never put on one twice.
EventItemFree == ucNotifyState = "waiting" => ~event

\* A task does not sleep on a value that is there to be taken: it is ready, or
\* on its way to be when the scheduler resumes.
NoLostWake == ulNotifiedValue # 0 /\ place = "delayed" => event /\ suspended

\* 0 is returned only after a time-out, when 0 is never set as a value.
ZeroMeansTimedOut == stage = "caller" /\ taken = 0 => timedOut
=============================================================================

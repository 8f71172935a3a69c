---------------------------- MODULE NotifyWait ----------------------------
(***************************************************************************)
(* The notification of a task as a mailbox: xTaskNotifyWait() by the task, *)
(* and xTaskNotify() with eSetValueWithoutOverwrite by the others.         *)
(***************************************************************************)
EXTENDS TaskNotify, Sequences

CONSTANT ClearOnEntry   \* ulBitsToClearOnEntry is all bits, or none

VARIABLES
  accepted,   \* history: the values whose xTaskNotify() returned pdPASS
  delivered   \* and those whose xTaskNotifyWait() returned pdTRUE

wvars == <<nvars, accepted, delivered>>
mail == <<accepted, delivered>>

WInit == NotifyInit /\ accepted = <<>> /\ delivered = <<>>

\* The first critical section: block unless a notification is pending.
Pending == ucNotifyState = "received"

WaitEnter ==
  /\ stage = "enter" /\ Scheduled
  /\ stage' = "exit" /\ timedOut' = FALSE
  /\ IF Pending THEN UNCHANGED <<place, ucNotifyState, ulNotifiedValue>>
     ELSE /\ ulNotifiedValue' = IF ClearOnEntry THEN 0 ELSE ulNotifiedValue
          /\ ucNotifyState' = "waiting"
          /\ place' \in {"delayed", "ready"}   \* xTicksToWait may be 0
  /\ UNCHANGED <<event, suspended, taken, given, mail>>

\* The second: the state tells a notification from a time-out.
Notified == ucNotifyState = "received"

WaitExit ==
  /\ stage = "exit" /\ Scheduled
  /\ stage' = "caller"
  /\ taken' = ulNotifiedValue
  /\ delivered' = IF Notified THEN Append(delivered, ulNotifiedValue) ELSE delivered
  /\ ulNotifiedValue' = IF Notified /\ ClearOnExit THEN 0 ELSE ulNotifiedValue
  /\ ucNotifyState' = "not_waiting"
  /\ UNCHANGED <<place, event, suspended, timedOut, given, accepted>>

\* eSetValueWithoutOverwrite.
Room == ucNotifyState # "received"

Post(v, inIsr) ==
  /\ Notify(IF Room THEN v ELSE ulNotifiedValue, inIsr)
  /\ accepted' = IF Room THEN Append(accepted, v) ELSE accepted
  /\ UNCHANGED delivered

Scheduler == (Tick \/ SuspendAll \/ ResumeAll \/ CallAgain) /\ UNCHANGED mail

WNext == \/ WaitEnter \/ WaitExit \/ Scheduler
         \/ \E v \in Values : \E inIsr \in BOOLEAN : Post(v, inIsr)

WSpec == WInit /\ [][WNext]_wvars
---------------------------------------------------------------------------
\* A mailbox of one place: what was accepted is delivered once and in order,
\* whether a wait times out as a value comes or the scheduler is suspended.
Mailbox ==
  accepted = delivered \o (IF ucNotifyState = "received" THEN <<ulNotifiedValue>> ELSE <<>>)
=============================================================================

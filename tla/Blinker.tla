------------------------------ MODULE Blinker -----------------------------
(***************************************************************************)
(* Blinker: a task that blinks an LED, commanded by on() and off() from    *)
(* other tasks through its notification (module TaskNotify, cleared on     *)
(* exit).                                                                  *)
(***************************************************************************)
EXTENDS TaskNotify

CONSTANTS
  Off,     \* the command 0xFFFFFFFF; the other Values are delays
  Initial  \* the delay of the constructor

ASSUME BlinkerAssumption == Off \in Values \ {0} /\ Initial \in Nat

VARIABLES
  on, delay,  \* of run()
  led,
  last        \* history: the latest command

bvars == <<nvars, on, delay, led, last>>

BInit == /\ NotifyInit
        /\ on = FALSE /\ delay = Initial /\ led = FALSE
        /\ last = Off

\* on(d) for a delay d, off() for Off.
Command(v) ==
  /\ Notify(v, FALSE)
  /\ last' = v
  /\ UNCHANGED <<on, delay, led>>

\* One round of the loop, with what ulTaskNotifyTake() has returned.
SlipObeyed == IF taken = 0 THEN <<on, delay>>
              ELSE <<TRUE, IF taken = Off THEN delay ELSE taken>>
Obeyed == CASE taken = 0 -> <<on, delay>>
            [] taken = Off -> <<FALSE, delay>>
            [] OTHER -> <<TRUE, taken>>

SlipLight == on' \/ ~led
Light == on' /\ ~led

Obey ==
  /\ CallAgain
  /\ on' = Obeyed[1] /\ delay' = Obeyed[2]
  /\ led' = Light
  /\ UNCHANGED last

BNext == \/ KernelNext /\ UNCHANGED <<on, delay, led, last>>
         \/ Obey
         \/ \E v \in Values : Command(v)

\* A suspended scheduler resumes, the tick goes on, and the task is scheduled.
Quiet(A) == A /\ UNCHANGED <<on, delay, led, last>>
BFairness == /\ SF_bvars(Quiet(TakeEnter)) /\ SF_bvars(Quiet(TakeExit))
             /\ SF_bvars(Quiet(Tick)) /\ WF_bvars(Quiet(ResumeAll)) /\ SF_bvars(Obey)

BSpec == BInit /\ [][BNext]_bvars /\ BFairness
---------------------------------------------------------------------------
\* The latest command is obeyed, however many came before it and whenever it
\* comes: an overwritten value is never put back.
LastCommandObeyed ==
  /\ \A v \in Values \ {0, Off} : (last = v) ~> (on /\ delay = v) \/ last # v
  /\ (last = Off) ~> ~on \/ last # Off

\* A blinker left on keeps changing its LED, one left off stays dark.
KeepsBlinking ==
  /\ <>[](last \notin {0, Off}) => []<>led /\ []<>~led
  /\ <>[](last = Off) => <>[]~led
=============================================================================

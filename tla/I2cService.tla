---------------------------- MODULE I2cService ----------------------------
(***************************************************************************)
(* What PicoI2C::transaction() promises its callers (EEPROM, RTC): one     *)
(* call at a time; bytes are stored only while the call that owns the      *)
(* buffer is running, each later than the one before it on the wire; the   *)
(* result never exceeds the sum of the lengths, and a call with a read     *)
(* part returns that sum only when it was served completely.  It does not  *)
(* promise that the bus is at rest when a call returns.                    *)
(***************************************************************************)
EXTENDS Integers, Sequences

CONSTANTS Tasks, NoTask, Requests

VARIABLES
  caller,   \* the task whose call is running, or NoTask
  req,      \* the lengths of the latest call
  acked,    \* commands the slave has acknowledged since that call began
  buffer,   \* positions of the bytes stored in its read buffer
  answer    \* its result, once it has returned

vars == <<caller, req, acked, buffer, answer>>

Init ==
  /\ caller = NoTask
  /\ req = [w |-> 0, r |-> 0]
  /\ acked = 0 /\ buffer = <<>> /\ answer = 0

Call(t) ==
  /\ caller = NoTask
  /\ caller' = t
  /\ req' \in Requests
  /\ acked' = 0 /\ buffer' = <<>> /\ answer' = 0

\* The slave may go on when the call has returned early.
Acknowledge ==
  /\ acked < req.w + req.r
  /\ acked' = acked + 1
  /\ UNCHANGED <<caller, req, buffer, answer>>

Store ==
  /\ caller # NoTask
  /\ Len(buffer) < req.r
  /\ \E k \in 1..(acked - req.w) :
       /\ buffer # <<>> => k > buffer[Len(buffer)]
       /\ buffer' = Append(buffer, k)
  /\ UNCHANGED <<caller, req, acked, answer>>

Served == acked = req.w + req.r /\ buffer = [i \in 1..req.r |-> i]

Return ==
  /\ caller # NoTask
  /\ caller' = NoTask
  /\ answer' \in 0..(req.w + req.r)
  /\ (answer' = req.w + req.r /\ req.r > 0) => Served
  /\ UNCHANGED <<req, acked, buffer>>

Next == Acknowledge \/ Store \/ Return \/ \E t \in Tasks : Call(t)

Spec == Init /\ [][Next]_vars
=============================================================================

------------------------------ MODULE PicoI2C ------------------------------
(***************************************************************************)
(* The interrupt driven I2C master (src/i2c/PicoI2C.cpp).  A task calls    *)
(* transaction() under the mutex `access`, fills the command FIFO, enables *)
(* the interrupt and sleeps on its task notification for at most 1000 ms.  *)
(* isr() drains received bytes, refills commands and notifies on STOP.     *)
(*                                                                         *)
(* One core runs tasks and interrupt handler: a pending enabled interrupt  *)
(* preempts every task, and isr() runs to its end before a task moves.     *)
(* The I2C block and the slaves (Bus actions) move at any time.            *)
(* A byte of a buffer is its 1-based index in that buffer.                 *)
(***************************************************************************)
EXTENDS Integers, Sequences

CONSTANTS
  Tasks,        \* tasks that share the object
  NoTask,       \* nullptr for task_to_notify, and the free mutex
  FifoDepth,    \* commands (bytes) the TX (RX) FIFO holds: 16 on the RP2040
  RxTl,         \* rx_tl: RX_FULL is raised above this level (14)
  Requests,     \* pairs of lengths [w, r] that callers ask for
  Paces,        \* what a behaviour may assume of bus and handler, see `pace`
  MayNack,      \* a slave may refuse its address or a byte
  StopOnDisable \* `enable = 0` may end a running transfer with a STOP

ASSUME FifoAssumption == /\ FifoDepth \in Nat \ {0}
                         /\ RxTl \in 0..(FifoDepth - 1)
ASSUME TaskAssumption == NoTask \notin Tasks
\* assert((wbuffer && wlength > 0) || (rbuffer && rlength > 0))
ASSUME RequestAssumption ==
  Requests \subseteq {q \in [w : Nat, r : Nat] : q.w > 0 \/ q.r > 0}
ASSUME SwitchAssumption ==
  {MayNack, StopOnDisable} \subseteq BOOLEAN /\ Paces \subseteq {"late", "timely", "prompt"}

VARIABLES
  \* the calling tasks and the kernel
  pc,               \* where each task is in transaction()
  owner,            \* holder of the mutex `access`
  req,              \* wlength and rlength of the current call
  count,            \* its result, as computed so far
  notified,         \* ulNotifiedValue of each task
  \* the object's fields; rbuf points behind the bytes stored in rbuffer
  task_to_notify, wbuf, wctr, rbuffer, rctr, rcnt, restart_on_next,
  \* the interrupt controller and the handler
  nvic,             \* irq_set_enabled(irqn, ...)
  isr,              \* "off", or where isr() is
  \* the I2C block
  intr_mask, stop_det, txfifo, rxfifo,
  shift,            \* command on the wire, a STOP being sent, or nothing
  aborted,          \* TX_ABRT: the TX FIFO ignores writes until re-enabled
  \* observations that nothing in the code reads
  cmds,             \* all values written to data_cmd in this call
  done,             \* commands the slave has acknowledged in this call
  nread,            \* how many of them were reads
  lost,             \* bytes that found the RX FIFO full (RX_OVER)
  stopped,          \* this call's own STOP has been seen on the bus
  pace              \* "late": the bus may need longer than the 1000 ms of the
                    \* wait, "timely": it does not, "prompt": and the handler is
                    \* entered and left within two bus events; "behind" is
                    \* prompt with one event since the processor was due

object == <<task_to_notify, wbuf, wctr, rbuffer, rctr, rcnt, restart_on_next>>
block  == <<intr_mask, stop_det, txfifo, rxfifo, shift, aborted>>
seen   == <<cmds, done, nread, lost, stopped>>
vars   == <<pc, owner, req, count, notified, object, nvic, isr, block, seen, pace>>

Bit(b) == IF b THEN 1 ELSE 0   \* bool_to_bit()

NoCmd    == [op |-> "none"]
SendStop == [op |-> "stop"]
NoReq    == [w |-> 0, r |-> 0]

(***************************************************************************)
(* Interrupt state.                                                        *)
(***************************************************************************)
Raised == [TX_EMPTY |-> txfifo = <<>>,
           RX_FULL  |-> Len(rxfifo) > RxTl,
           STOP_DET |-> stop_det]

intr_stat == {i \in intr_mask : Raised[i]}

IrqPending == nvic /\ isr = "off" /\ intr_stat # {}

\* A task executes only when no handler runs and none is about to.
TaskRuns(t, at) == pc[t] = at /\ isr = "off" /\ ~IrqPending

GoTo(t, at) == pc' = [pc EXCEPT ![t] = at]

Init ==
  /\ pc = [t \in Tasks |-> "idle"] /\ owner = NoTask
  /\ req = NoReq /\ count = 0 /\ notified = [t \in Tasks |-> 0]
  /\ task_to_notify = NoTask /\ wbuf = 1 /\ wctr = 0 /\ rbuffer = <<>>
  /\ rctr = 0 /\ rcnt = 0 /\ restart_on_next = 0
  /\ nvic = FALSE /\ isr = "off"
  /\ intr_mask = {"TX_EMPTY", "RX_FULL"} /\ stop_det = FALSE
  /\ txfifo = <<>> /\ rxfifo = <<>> /\ shift = NoCmd /\ aborted = FALSE
  /\ cmds = <<>> /\ done = 0 /\ nread = 0 /\ lost = 0 /\ stopped = FALSE
  /\ pace \in Paces

(***************************************************************************)
(* The loop bodies of tx_fill_fifo() and rx_fill_fifo().                   *)
(***************************************************************************)
\* A definition named Slip... is a mistake the properties must notice; it
\* stands before the definition it would replace.
SlipAvailable == Len(txfifo) <= FifoDepth
WriteAvailable == Len(txfifo) < FifoDepth

DataCmd(c) ==
  /\ cmds' = Append(cmds, c)
  /\ txfifo' = IF aborted THEN txfifo ELSE Append(txfifo, c)

\* The write that is followed by reads asks for a RESTART in its successor.
SlipRestart == 0
RestartAfterWrite == Bit(wctr = 1 /\ rctr > 0)

PushWrite ==
  /\ wctr > 0 /\ WriteAvailable
  /\ DataCmd([op |-> "write", data |-> wbuf, restart |-> restart_on_next,
              stop |-> Bit(wctr = 1 /\ rctr = 0)])
  /\ wbuf' = wbuf + 1
  /\ wctr' = wctr - 1
  /\ restart_on_next' = RestartAfterWrite
  /\ UNCHANGED rctr

StopWithRead == Bit(rctr = 1)

PushRead ==
  /\ rctr > 0 /\ WriteAvailable
  /\ DataCmd([op |-> "read", data |-> 0, restart |-> restart_on_next,
              stop |-> StopWithRead])
  /\ restart_on_next' = 0
  /\ rctr' = rctr - 1
  /\ UNCHANGED <<wbuf, wctr>>

Push(at) == IF at = "tx_fill" THEN PushWrite ELSE PushRead

FillOver(at) == ~WriteAvailable \/ (IF at = "tx_fill" THEN wctr ELSE rctr) = 0

(***************************************************************************)
(* transaction(), one action per step another actor can come between.      *)
(***************************************************************************)
\* Everything up to the first fill: the NVIC line is off and `enable = 0`
\* empties the FIFOs and ends a transfer still on the wire, whose STOP may
\* yet be latched.  Nothing clears an old STOP_DET or an old notification.
Begin(t) ==
  /\ TaskRuns(t, "idle") /\ owner = NoTask
  /\ owner' = t /\ task_to_notify' = t
  /\ txfifo' = <<>> /\ rxfifo' = <<>> /\ shift' = NoCmd /\ aborted' = FALSE
  /\ stop_det' \in {stop_det, stop_det \/ (StopOnDisable /\ shift # NoCmd)}
  /\ intr_mask' = {"STOP_DET", "TX_EMPTY", "RX_FULL"}
  /\ restart_on_next' = 0
  /\ \E q \in Requests :
       /\ req' = q /\ count' = q.w + q.r
       /\ wbuf' = 1 /\ wctr' = q.w
       /\ rbuffer' = <<>> /\ rctr' = q.r /\ rcnt' = q.r
       /\ GoTo(t, IF q.w > 0 THEN "tx_fill" ELSE "rx_fill")
  /\ cmds' = <<>> /\ done' = 0 /\ nread' = 0 /\ lost' = 0 /\ stopped' = FALSE
  /\ pace' = IF pace = "behind" THEN "prompt" ELSE pace
  /\ UNCHANGED <<notified, nvic, isr>>

\* The initial fill, and irq_set_enabled(irqn, true) when it is over.
Fill(t) ==
  /\ pc[t] \in {"tx_fill", "rx_fill"} /\ TaskRuns(t, pc[t])
  /\ \/ Push(pc[t]) /\ UNCHANGED <<pc, nvic>>
     \/ /\ FillOver(pc[t])
        /\ nvic' = TRUE /\ GoTo(t, "take")
        /\ UNCHANGED <<wbuf, wctr, rctr, restart_on_next, cmds, txfifo>>
  /\ UNCHANGED <<owner, req, count, notified, task_to_notify, rbuffer, rcnt,
                 isr, intr_mask, stop_det, rxfifo, shift, aborted,
                 done, nread, lost, stopped, pace>>

\* ulTaskNotifyTake(pdTRUE, ...) with a notification there.
Take(t) ==
  /\ TaskRuns(t, "take") /\ notified[t] > 0
  /\ notified' = [notified EXCEPT ![t] = 0]
  /\ GoTo(t, "count")
  /\ UNCHANGED <<owner, req, count, object, nvic, isr, block, seen, pace>>

\* ulTaskNotifyTake() returns 0 after 1000 ms.
TimeOut(t) ==
  /\ pace = "late" /\ TaskRuns(t, "take") /\ notified[t] = 0
  /\ count' = 0
  /\ GoTo(t, "irq_off")
  /\ UNCHANGED <<owner, req, notified, object, nvic, isr, block, seen, pace>>

SlipMissing == wctr
Missing == rcnt + wctr

Count(t) ==
  /\ TaskRuns(t, "count")
  /\ count' = count - Missing
  /\ GoTo(t, "irq_off")
  /\ UNCHANGED <<owner, req, notified, object, nvic, isr, block, seen, pace>>

SlipNvic == nvic
NvicAfterCall == FALSE

\* irq_set_enabled(irqn, false), the return and ~lock_guard().
Return(t) ==
  /\ TaskRuns(t, "irq_off")
  /\ nvic' = NvicAfterCall
  /\ owner' = NoTask
  /\ GoTo(t, "idle")
  /\ UNCHANGED <<req, count, notified, object, isr, block, seen, pace>>

(***************************************************************************)
(* isr()                                                                   *)
(***************************************************************************)
IsrEnter ==
  /\ IrqPending
  /\ isr' = "drain"
  /\ UNCHANGED <<pc, owner, req, count, notified, object, nvic, block, seen, pace>>

IsrDrain ==
  /\ isr = "drain" /\ rcnt > 0 /\ rxfifo # <<>>
  /\ rbuffer' = Append(rbuffer, Head(rxfifo))
  /\ rxfifo' = Tail(rxfifo)
  /\ rcnt' = rcnt - 1
  /\ UNCHANGED <<pc, owner, req, count, notified, task_to_notify, wbuf, wctr,
                 rctr, restart_on_next, nvic, isr, intr_mask, stop_det, txfifo,
                 shift, aborted, seen, pace>>

\* The loop ends; TX_EMPTY is tested and decides which fill, if any, runs.
IsrDrained ==
  /\ isr = "drain" /\ (rcnt = 0 \/ rxfifo = <<>>)
  /\ isr' = IF "TX_EMPTY" \notin intr_stat THEN "stop"
            ELSE IF wctr > 0 THEN "tx_fill" ELSE "rx_fill"
  /\ UNCHANGED <<pc, owner, req, count, notified, object, nvic, block, seen, pace>>

\* With both counters at zero TX_EMPTY is masked for the rest of the call.
SlipMaskNothing == intr_mask
MaskWhenAllSent == {"STOP_DET", "RX_FULL"}

IsrFill ==
  /\ isr \in {"tx_fill", "rx_fill"}
  /\ \/ Push(isr) /\ UNCHANGED <<isr, intr_mask>>
     \/ /\ FillOver(isr)
        /\ isr' = "stop"
        /\ intr_mask' = IF wctr = 0 /\ rctr = 0 THEN MaskWhenAllSent ELSE intr_mask
        /\ UNCHANGED <<wbuf, wctr, rctr, restart_on_next, cmds, txfifo>>
  /\ UNCHANGED <<pc, owner, req, count, notified, task_to_notify, rbuffer, rcnt,
                 nvic, stop_det, rxfifo, shift, aborted,
                 done, nread, lost, stopped, pace>>

SlipDone == intr_stat # {}
StopDetected == "STOP_DET" \in intr_stat

\* eSetValueWithOverwrite sets the value to 1.
Notify == /\ intr_mask' = {}
          /\ stop_det' = FALSE
          /\ notified' = [notified EXCEPT ![task_to_notify] = 1]

\* The STOP test and the return.
IsrStop ==
  /\ isr = "stop"
  /\ isr' = "off"
  /\ IF StopDetected THEN Notify ELSE UNCHANGED <<intr_mask, stop_det, notified>>
  /\ UNCHANGED <<pc, owner, req, count, object, nvic, txfifo, rxfifo, shift,
                 aborted, seen, pace>>

(***************************************************************************)
(* The I2C block and the slave.                                            *)
(***************************************************************************)
\* A prompt processor lets at most one event pass while it has work to do.
CpuDue == \/ isr # "off" \/ IrqPending
          \/ \E t \in Tasks : pc[t] \in {"tx_fill", "rx_fill"}

Paced == /\ CpuDue => pace # "behind"
         /\ pace' = IF pace \notin {"prompt", "behind"} THEN pace
                    ELSE IF CpuDue THEN "behind" ELSE "prompt"

BusUnchanged == UNCHANGED <<pc, owner, req, count, notified, object, nvic, isr,
                            intr_mask, cmds>>

BusFetch ==
  /\ shift = NoCmd /\ txfifo # <<>>
  /\ shift' = Head(txfifo)
  /\ txfifo' = Tail(txfifo)
  /\ UNCHANGED <<stop_det, rxfifo, aborted, done, nread, lost, stopped, pace>>
  /\ BusUnchanged

\* The command completes; a byte read is dropped when the RX FIFO is full.
BusAck ==
  /\ shift.op \in {"write", "read"} /\ Paced
  /\ done' = done + 1
  /\ shift' = IF shift.stop = 1 THEN SendStop ELSE NoCmd
  /\ IF shift.op = "read"
     THEN /\ nread' = nread + 1
          /\ IF Len(rxfifo) < FifoDepth
             THEN rxfifo' = Append(rxfifo, nread + 1) /\ UNCHANGED lost
             ELSE lost' = lost + 1 /\ UNCHANGED rxfifo
     ELSE UNCHANGED <<nread, rxfifo, lost>>
  /\ UNCHANGED <<stop_det, txfifo, aborted, stopped>>
  /\ BusUnchanged

\* A refused byte, or a refused address (first command of a write or read
\* part): the block empties its TX FIFO and sends STOP.
BusNack ==
  /\ MayNack /\ Paced
  /\ shift.op = "write" \/ (shift.op = "read" /\ nread = 0)
  /\ shift' = SendStop
  /\ txfifo' = <<>>
  /\ aborted' = TRUE
  /\ UNCHANGED <<stop_det, rxfifo, done, nread, lost, stopped>>
  /\ BusUnchanged

BusStop ==
  /\ shift = SendStop /\ Paced
  /\ shift' = NoCmd
  /\ stop_det' = TRUE
  /\ stopped' = TRUE
  /\ UNCHANGED <<txfifo, rxfifo, aborted, done, nread, lost>>
  /\ BusUnchanged

Task(t) == Begin(t) \/ Fill(t) \/ Take(t) \/ TimeOut(t) \/ Count(t) \/ Return(t)

Isr == IsrEnter \/ IsrDrain \/ IsrDrained \/ IsrFill \/ IsrStop

Bus == BusFetch \/ BusAck \/ BusNack \/ BusStop

Next == Isr \/ Bus \/ \E t \in Tasks : Task(t)

Spec == Init /\ [][Next]_vars

\* The scheduler runs whichever task is ready, the core takes every enabled
\* interrupt, and the kernel ends the wait when its time is up.
Scheduled ==
  /\ WF_vars(Isr)
  /\ \A t \in Tasks : WF_vars(Fill(t) \/ Take(t) \/ TimeOut(t) \/ Count(t) \/ Return(t))

\* Unless it is late the bus goes on: no slave stretches the clock for ever.
FairSpec == Spec /\ Scheduled /\ WF_vars(pace # "late" /\ Bus)

(***************************************************************************)
(* Properties.                                                             *)
(***************************************************************************)
\* A value of data_cmd in a call that writes n bytes.
Byte(n) == [op : {"write", "read"}, data : 0..n, restart : {0, 1}, stop : {0, 1}]

CallType ==
  /\ pc \in [Tasks -> {"idle", "tx_fill", "rx_fill", "take", "count", "irq_off"}]
  /\ owner \in Tasks \cup {NoTask} /\ task_to_notify \in Tasks \cup {NoTask}
  /\ req \in Requests \cup {NoReq}
  /\ count \in 0..(req.w + req.r)
  /\ notified \in [Tasks -> {0, 1}]
  /\ isr \in {"off", "drain", "tx_fill", "rx_fill", "stop"}
  /\ nvic \in BOOLEAN /\ pace \in {"late", "timely", "prompt", "behind"}

ObjectType ==
  /\ wctr \in 0..req.w /\ wbuf = req.w - wctr + 1
  /\ rctr \in 0..req.r /\ rcnt \in 0..req.r
  /\ restart_on_next \in {0, 1}
  /\ rbuffer \in Seq(1..req.r) /\ Len(rbuffer) = req.r - rcnt

BlockType ==
  /\ intr_mask \subseteq {"STOP_DET", "TX_EMPTY", "RX_FULL"}
  /\ txfifo \in Seq(Byte(req.w)) /\ Len(txfifo) <= FifoDepth
  /\ rxfifo \in Seq(1..req.r) /\ Len(rxfifo) <= FifoDepth
  /\ shift \in Byte(req.w) \cup {NoCmd, SendStop}
  /\ stop_det \in BOOLEAN /\ aborted \in BOOLEAN

SeenType ==
  /\ cmds \in Seq(Byte(req.w))
  /\ done \in 0..(req.w + req.r) /\ nread \in 0..req.r /\ lost \in 0..req.r
  /\ stopped \in BOOLEAN

\* Every field keeps its range: the unsigned counters of the object never
\* pass below zero, the buffer is never overrun, no FIFO exceeds its depth.
TypeOK == CallType /\ ObjectType /\ BlockType /\ SeenType

Complete == count = req.w + req.r

\* The i-th value a call should write to data_cmd: first the bytes to write,
\* then the read commands, RESTART where the direction turns, STOP at the end.
Expected(i) ==
  IF i <= req.w
  THEN [op |-> "write", data |-> i, restart |-> 0,
        stop |-> Bit(i = req.w + req.r)]
  ELSE [op |-> "read", data |-> 0,
        restart |-> Bit(req.w > 0 /\ i = req.w + 1),
        stop |-> Bit(i = req.w + req.r)]

\* However the fills of the task and of isr() share the work, the commands
\* given to the block are the expected ones, none left out or repeated
\* (tx_fill_fifo, rx_fill_fifo, restart_on_next).
CommandStream ==
  /\ Len(cmds) = (req.w - wctr) + (req.r - rctr)
  /\ \A i \in 1..Len(cmds) : cmds[i] = Expected(i)

\* isr() runs only while the call whose buffers it uses has not returned, and
\* it notifies the task that made the call (rbuf, wbuf, task_to_notify).
BuffersLive ==
  isr # "off" => /\ task_to_notify = owner
                 /\ owner # NoTask
                 /\ pc[owner] \in {"take", "count", "irq_off"}

\* When a call with a read part returns the sum of its lengths, the slave has
\* acknowledged every command and the caller's buffer holds the bytes of this
\* call, in order: no overrun, race or stale notification hides in it.
FullReadIsTrue ==
  \A t \in Tasks : (pc[t] = "irq_off" /\ Complete /\ req.r > 0) =>
    /\ done = req.w + req.r
    /\ rbuffer = [i \in 1..req.r |-> i]

\* "wait for stop interrupt": a call that was notified has ended on the bus.
OwnStop == \A t \in Tasks : pc[t] = "count" => stopped

\* A call is one of I2cService: calls do not overlap, their buffers are left
\* alone once they have returned, and a full count of a read is true.
Service == INSTANCE I2cService WITH
  caller <- owner, acked <- done, buffer <- rbuffer,
  answer <- IF owner = NoTask THEN count ELSE 0

\* transaction() and isr() together implement that service.
ImplementsService == Service!Spec

\* With a slave that answers in time and a processor that keeps up, every
\* call returns the sum of its lengths unless the slave refuses.
EveryCallComplete ==
  pace \in {"prompt", "behind"} => \A t \in Tasks : pc[t] = "irq_off" => Complete \/ aborted

\* A call returns: no interrupt stays raised for ever and, where the wait has
\* no time limit, the notification is never lost.
CallReturns == \A t \in Tasks : pc[t] # "idle" ~> pc[t] = "idle"

(***************************************************************************)
(* Why the safety properties hold: the invariant that every step preserves.*)
(***************************************************************************)
OnWire == IF shift.op \in {"write", "read"} THEN 1 ELSE 0

\* The mutex, the interrupt and the handler follow the running call.
CallInv ==
  /\ \A t \in Tasks : pc[t] # "idle" <=> owner = t
  /\ owner # NoTask => task_to_notify = owner /\ req \in Requests
  /\ nvic => owner # NoTask /\ pc[owner] \in {"take", "count", "irq_off"}
  /\ isr # "off" => nvic
  /\ \A t \in Tasks : pc[t] \in {"tx_fill", "rx_fill", "take", "count"}
                         => count = req.w + req.r

\* The counters tell which command comes next and whether it restarts.
FillInv ==
  /\ wctr > 0 => rctr = req.r
  /\ restart_on_next = Bit(req.w > 0 /\ wctr = 0 /\ req.r > 0 /\ rctr = req.r)
  /\ isr = "rx_fill" => wctr = 0
  /\ \A t \in Tasks : pc[t] = "rx_fill" => wctr = 0

\* The wire is at command `done`, followed by the FIFO; what is behind it is
\* ignored once the transfer is aborted.
WireInv ==
  /\ done + OnWire + Len(txfifo) <= Len(cmds)
  /\ aborted => OnWire = 0 /\ txfifo = <<>>
  /\ ~aborted => done + OnWire + Len(txfifo) = Len(cmds)
  /\ OnWire = 1 => shift = Expected(done + 1)
  /\ \A i \in 1..Len(txfifo) : txfifo[i] = Expected(done + OnWire + i)

\* A byte read is in the caller's buffer, in the RX FIFO, or lost.
ReadInv ==
  /\ nread = IF done > req.w THEN done - req.w ELSE 0
  /\ nread = Len(rbuffer) + Len(rxfifo) + lost
  /\ lost = 0 => /\ \A i \in 1..Len(rbuffer) : rbuffer[i] = i
                 /\ \A i \in 1..Len(rxfifo) : rxfifo[i] = Len(rbuffer) + i

\* Lost or not, the bytes are in the order of the wire: those in the RX FIFO
\* are later than the one stored last, and none is later than `nread`.
ByteOrder ==
  /\ \A i \in 1..Len(rxfifo) : rxfifo[i] <= nread
  /\ \A i, j \in 1..Len(rxfifo) : i < j => rxfifo[i] < rxfifo[j]
  /\ rbuffer # <<>> => /\ rbuffer[Len(rbuffer)] <= nread
                       /\ \A i \in 1..Len(rxfifo) : rbuffer[Len(rbuffer)] < rxfifo[i]

\* The inductive invariant behind CommandStream, BuffersLive, FullReadIsTrue
\* and ImplementsService (transaction, isr and the fills together).
IInv == /\ TypeOK /\ CallInv /\ FillInv /\ CommandStream /\ WireInv /\ ReadInv
        /\ ByteOrder /\ FullReadIsTrue
\* While the bus is not late a call ends by its own STOP, and leaves the bus at
\* rest, no STOP_DET and no notification behind.
EndsByStop ==
  /\ stop_det => stopped
  /\ stopped => shift = NoCmd
  /\ stopped \/ shift = SendStop => aborted \/ done = req.w + req.r
  /\ owner = NoTask => shift = NoCmd /\ txfifo = <<>> /\ ~stop_det
  /\ owner # NoTask /\ ~stopped => "RX_FULL" \in intr_mask
  /\ \A t \in Tasks :
       /\ pc[t] \in {"take", "count", "irq_off"} => nvic
       /\ pc[t] \in {"count", "irq_off"} => stopped /\ ~stop_det
       /\ notified[t] > 0 => pc[t] = "take" /\ stopped /\ ~stop_det

\* While the processor keeps up as well, the RX FIFO never overflows, and the
\* STOP that notifies the task finds no byte behind it.
KeepsUp ==
  /\ lost = 0
  /\ Len(rxfifo) <= RxTl + 1 + Bit(pace = "behind")
  /\ isr \in {"tx_fill", "rx_fill", "stop"} /\ rxfifo # <<>> => pace = "behind" /\ ~stop_det
  /\ \A t \in Tasks : notified[t] > 0 \/ pc[t] = "count" => aborted \/ Missing = 0

\* The inductive invariant behind EveryCallComplete.
PaceInv == /\ pace # "late" => EndsByStop
           /\ pace \in {"prompt", "behind"} => KeepsUp
           /\ EveryCallComplete
=============================================================================

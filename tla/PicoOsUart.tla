----------------------------- MODULE PicoOsUart -----------------------------
(***************************************************************************)
(* The interrupt driven UART (src/uart/PicoOsUart.cpp).  write() puts      *)
(* bytes into the queue `tx` and, with the interrupt off, fills the TX     *)
(* FIFO and enables the transmit interrupt for the rest; the handler moves *)
(* bytes between the queues and the FIFOs; read() and flush() take from    *)
(* the queue `rx`.  All three hold the mutex `access`.                     *)
(*                                                                         *)
(* One core runs tasks and handler: a pending enabled interrupt preempts   *)
(* every task, and the handler runs to its end before a task moves.  The   *)
(* UART and the line (Line actions) move at any time.                      *)
(* A byte is its number in the order in which write() accepted it, or in   *)
(* which it arrived on the line.                                           *)
(***************************************************************************)
EXTENDS Integers, Sequences

CONSTANTS
  Tasks,        \* tasks that share the object
  NoTask,       \* the free mutex
  FifoDepth,    \* bytes the TX (RX) FIFO holds: 32 on the RP2040
  TxTrig,       \* the TX interrupt is raised when the level falls to this (4)
  RxTrig,       \* the RX interrupt is raised when the level reaches this (4)
  TxSize,       \* tx_size, the length of the queue tx (256)
  RxSize,       \* rx_size (256)
  Sizes,        \* lengths that callers read and write
  MaxTx, MaxRx  \* bounds: bytes accepted, bytes that arrive

ASSUME FifoAssumption == /\ FifoDepth \in Nat \ {0}
                         /\ TxTrig \in 0..(FifoDepth - 1)
                         /\ RxTrig \in 1..FifoDepth
ASSUME QueueAssumption == TxSize \in Nat \ {0} /\ RxSize \in Nat \ {0}
ASSUME UartTaskAssumption == NoTask \notin Tasks
ASSUME SizeAssumption == Sizes \subseteq Nat /\ MaxTx \in Nat /\ MaxRx \in Nat

VARIABLES
  stage,    \* where each task is in write(), read() or flush()
  owner,    \* holder of the mutex `access`
  todo,     \* size - count of the running call
  ch,       \* the byte a task has in `ch`, as a sequence
  tx, rx,   \* the queues
  nvic,     \* irq_set_enabled(irqn, ...)
  txim,     \* the TX bit of imsc; the RX bits are always on
  isr,      \* "off", or where the handler is
  c,        \* the byte the handler has in `ch` or `c`, as a sequence
  txris, rxris,     \* raised transmit, and receive or receive time-out
  txfifo, rxfifo,
  \* observations that nothing in the code reads
  accepted, \* bytes taken by xQueueSendToBack
  sent,     \* the bytes that have left on the line, in that order
  received, \* bytes that arrived on the line
  taken,    \* the bytes that read() and flush() have taken, in that order
  lost      \* bytes that found the RX FIFO or the queue rx full

task == <<stage, owner, todo>>
txway == <<ch, tx, txim, txris, txfifo, accepted, sent>>
rxway == <<rx, rxris, rxfifo, received, taken, lost>>
uart_vars == <<task, txway, rxway, nvic, isr, c>>

IrqPending == nvic /\ isr = "off" /\ (rxris \/ (txim /\ txris))

\* A task executes only when no handler runs and none is about to.
TaskRuns(t, at) == stage[t] = at /\ isr = "off" /\ ~IrqPending

GoTo(t, at) == stage' = [stage EXCEPT ![t] = at]

UartInit ==
  /\ stage = [t \in Tasks |-> "idle"] /\ owner = NoTask /\ todo = 0
  /\ ch = <<>> /\ c = <<>> /\ tx = <<>> /\ rx = <<>>
  /\ nvic = TRUE /\ txim = FALSE /\ isr = "off"
  /\ txris = FALSE /\ rxris = FALSE /\ txfifo = <<>> /\ rxfifo = <<>>
  /\ accepted = 0 /\ sent = <<>> /\ received = 0 /\ taken = <<>> /\ lost = 0

(***************************************************************************)
(* write()                                                                 *)
(***************************************************************************)
Enter(t, at, n) ==
  /\ TaskRuns(t, "idle") /\ owner = NoTask
  /\ owner' = t /\ todo' = n /\ GoTo(t, at)
  /\ UNCHANGED <<txway, rxway, nvic, isr, c>>

Leave(t) == GoTo(t, "idle") /\ owner' = NoTask /\ UNCHANGED todo

WriteCall(t) == \E n \in Sizes : accepted + n <= MaxTx /\ Enter(t, "send", n)

\* xQueueSendToBack() finds room.
SendByte(t) ==
  /\ TaskRuns(t, "send") /\ todo > 0 /\ Len(tx) < TxSize
  /\ accepted' = accepted + 1
  /\ tx' = Append(tx, accepted + 1)
  /\ todo' = todo - 1
  /\ UNCHANGED <<stage, owner, ch, txim, txris, txfifo, sent, rxway, nvic, isr, c>>

SlipNvicOff == nvic
NvicWhileFilling == FALSE

\* All is in the queue, or it stayed full for the time given: the loop ends
\* and irq_set_enabled(irqn, false) comes next.
SendOver(t) ==
  /\ TaskRuns(t, "send") /\ (todo = 0 \/ Len(tx) = TxSize)
  /\ nvic' = NvicWhileFilling
  /\ GoTo(t, IF txim THEN "irq_on" ELSE "fill")
  /\ UNCHANGED <<owner, todo, txway, rxway, isr, c>>

Writable == Len(txfifo) < FifoDepth

\* Writing the data register clears the interrupt above the trigger level.
PutFifo(b) ==
  /\ txfifo' = txfifo \o b
  /\ txris' = (txris /\ Len(txfifo) + 1 <= TxTrig)

\* uart_is_writable() and xQueueReceive() of the initial fill ...
FillTake(t) ==
  /\ TaskRuns(t, "fill") /\ Writable /\ tx # <<>>
  /\ ch' = <<Head(tx)>> /\ tx' = Tail(tx)
  /\ GoTo(t, "fill_put")
  /\ UNCHANGED <<owner, todo, txim, txris, txfifo, accepted, sent, rxway, nvic, isr, c>>

\* ... and the assignment to dr.
FillPut(t) ==
  /\ TaskRuns(t, "fill_put")
  /\ PutFifo(ch) /\ ch' = <<>>
  /\ GoTo(t, "fill")
  /\ UNCHANGED <<owner, todo, tx, txim, accepted, sent, rxway, nvic, isr, c>>

TximForRest == tx # <<>>

\* The transmit interrupt is enabled if the queue still holds data.
FillOver(t) ==
  /\ TaskRuns(t, "fill") /\ (~Writable \/ tx = <<>>)
  /\ txim' = TximForRest
  /\ GoTo(t, "irq_on")
  /\ UNCHANGED <<owner, todo, ch, tx, txris, txfifo, accepted, sent, rxway, nvic, isr, c>>

SlipNvicOn == nvic
NvicAfterFill == TRUE

\* irq_set_enabled(irqn, true), the return and ~lock_guard().
WriteReturn(t) ==
  /\ TaskRuns(t, "irq_on")
  /\ nvic' = NvicAfterFill
  /\ Leave(t)
  /\ UNCHANGED <<txway, rxway, isr, c>>

(***************************************************************************)
(* read() and flush()                                                      *)
(***************************************************************************)
ReadCall(t) == \E n \in Sizes : Enter(t, "recv", n)

FlushCall(t) == Enter(t, "flush", 0)

\* xQueueReceive() finds a byte.
TakeByte(t) ==
  /\ \/ TaskRuns(t, "recv") /\ todo > 0 /\ todo' = todo - 1
     \/ TaskRuns(t, "flush") /\ UNCHANGED todo
  /\ rx # <<>>
  /\ rx' = Tail(rx) /\ taken' = taken \o <<Head(rx)>>
  /\ UNCHANGED <<stage, owner, txway, rxris, rxfifo, received, lost, nvic, isr, c>>

\* The buffer is full, or the queue stayed empty for the time given (for no
\* time in flush()).
TakeOver(t) ==
  /\ \/ TaskRuns(t, "recv") /\ (todo = 0 \/ rx = <<>>)
     \/ TaskRuns(t, "flush") /\ rx = <<>>
  /\ Leave(t)
  /\ UNCHANGED <<txway, rxway, nvic, isr, c>>

(***************************************************************************)
(* The handler: uart_irq_rx() and then uart_irq_tx().                      *)
(***************************************************************************)
IsrEnter ==
  /\ IrqPending
  /\ isr' = "rx"
  /\ UNCHANGED <<task, txway, rxway, nvic, c>>

\* uart_getc(); the receive interrupts end with an empty FIFO.
IsrGet ==
  /\ isr = "rx" /\ rxfifo # <<>>
  /\ c' = <<Head(rxfifo)>> /\ rxfifo' = Tail(rxfifo)
  /\ rxris' = (rxris /\ Len(rxfifo) > 1)
  /\ isr' = "rx_put"
  /\ UNCHANGED <<task, txway, rx, received, taken, lost, nvic>>

SlipToFront(b) == b \o rx
ToBack(b) == rx \o b

\* xQueueSendToBackFromISR(); its result is ignored.
IsrQueue ==
  /\ isr = "rx_put"
  /\ IF Len(rx) < RxSize
     THEN rx' = ToBack(c) /\ UNCHANGED lost
     ELSE lost' = lost + 1 /\ UNCHANGED rx
  /\ c' = <<>> /\ isr' = "rx"
  /\ UNCHANGED <<task, txway, rxris, rxfifo, received, taken, nvic>>

IsrRxOver ==
  /\ isr = "rx" /\ rxfifo = <<>>
  /\ isr' = "tx"
  /\ UNCHANGED <<task, txway, rxway, nvic, c>>

IsrTake ==
  /\ isr = "tx" /\ Writable /\ tx # <<>>
  /\ c' = <<Head(tx)>> /\ tx' = Tail(tx)
  /\ isr' = "tx_put"
  /\ UNCHANGED <<task, ch, txim, txris, txfifo, accepted, sent, rxway, nvic>>

IsrPut ==
  /\ isr = "tx_put"
  /\ PutFifo(c) /\ c' = <<>>
  /\ isr' = "tx"
  /\ UNCHANGED <<task, ch, tx, txim, accepted, sent, rxway, nvic>>

SlipKeepTxim == txim
SlipMaskAlways == FALSE
TximAfterIsr == IF tx = <<>> THEN FALSE ELSE txim

IsrTxOver ==
  /\ isr = "tx" /\ (~Writable \/ tx = <<>>)
  /\ txim' = TximAfterIsr
  /\ isr' = "off"
  /\ UNCHANGED <<task, ch, tx, txris, txfifo, accepted, sent, rxway, nvic, c>>

(***************************************************************************)
(* The UART and the line.                                                  *)
(***************************************************************************)
\* The transmit interrupt is raised when the level falls to the trigger, not
\* while it is there: an empty FIFO raises nothing.
LineSend ==
  /\ txfifo # <<>>
  /\ sent' = sent \o <<Head(txfifo)>> /\ txfifo' = Tail(txfifo)
  /\ txris' = (txris \/ Len(txfifo) = TxTrig + 1)
  /\ UNCHANGED <<task, ch, tx, txim, accepted, rxway, nvic, isr, c>>

LineReceive ==
  /\ received < MaxRx
  /\ received' = received + 1
  /\ IF Len(rxfifo) < FifoDepth
     THEN /\ rxfifo' = Append(rxfifo, received + 1)
          /\ rxris' = (rxris \/ Len(rxfifo) + 1 >= RxTrig)
          /\ UNCHANGED lost
     ELSE lost' = lost + 1 /\ UNCHANGED <<rxfifo, rxris>>
  /\ UNCHANGED <<task, txway, rx, taken, nvic, isr, c>>

\* The receive time-out: bytes wait and the line is quiet.
LineQuiet ==
  /\ rxfifo # <<>> /\ ~rxris
  /\ rxris' = TRUE
  /\ UNCHANGED <<task, txway, rx, rxfifo, received, taken, lost, nvic, isr, c>>

Progress(t) == \/ SendByte(t) \/ SendOver(t) \/ FillTake(t) \/ FillPut(t)
               \/ FillOver(t) \/ WriteReturn(t) \/ TakeByte(t) \/ TakeOver(t)

Call(t) == WriteCall(t) \/ ReadCall(t) \/ FlushCall(t)

Isr == \/ IsrEnter \/ IsrGet \/ IsrQueue \/ IsrRxOver
       \/ IsrTake \/ IsrPut \/ IsrTxOver

Line == LineSend \/ LineReceive \/ LineQuiet

UartNext == Isr \/ Line \/ \E t \in Tasks : Call(t) \/ Progress(t)

UartSpec == UartInit /\ [][UartNext]_uart_vars

\* The core takes every enabled interrupt, the scheduler runs the task that
\* is in a call, the kernel ends its waits, and the UART shifts bytes out and
\* raises the receive time-out.
FairUartSpec ==
  /\ UartSpec
  /\ WF_uart_vars(Isr) /\ WF_uart_vars(LineSend) /\ WF_uart_vars(LineQuiet)
  /\ \A t \in Tasks : WF_uart_vars(Progress(t))

(***************************************************************************)
(* Properties.                                                             *)
(***************************************************************************)
InHand(at) == IF isr = at THEN c ELSE <<>>

TxChannel == INSTANCE ByteChannel WITH
  Capacity <- FifoDepth + TxSize, Burst <- 1, Loss <- {},
  inside <- txfifo \o InHand("tx_put") \o ch \o tx, arrived <- accepted,
  out <- sent

\* What write() accepts leaves on the line in that order, all of it and once,
\* although task and handler both move bytes from the queue to the FIFO.
TxInOrder == TxChannel!Spec

RxChannel == INSTANCE ByteChannel WITH
  Capacity <- FifoDepth + RxSize + 1, Burst <- 1, Loss <- {"entry", "inside"},
  inside <- rx \o InHand("rx_put") \o rxfifo, arrived <- received,
  out <- taken

\* What read() and flush() take has arrived in that order and is taken once,
\* though bytes may be missing (uart_irq_rx ignores a full queue).
RxInOrder == RxChannel!Spec

\* Every byte that write() accepted leaves on the line.
AllSent == \A n \in 1..MaxTx : accepted >= n ~> Len(sent) >= n

\* Every byte that arrives gets into the queue rx unless one is lost.
AllQueued == \A n \in 1..MaxRx : received >= n ~> Len(taken) + Len(rx) + lost >= n

\* Every call returns: no interrupt stays raised for ever, and no wait of a
\* call under the mutex lasts for ever.
CallReturns == \A t \in Tasks : stage[t] # "idle" ~> stage[t] = "idle"
=============================================================================

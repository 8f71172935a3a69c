# A TLA+ model of pico-drone

pico-drone is firmware for a Raspberry Pi Pico W: FreeRTOS 10.6 on one core of
an RP2040, lwIP over the cyw43 WLAN chip, and a set of C++ drivers and network
helpers. This directory holds TLA+ specifications of the parts in which order
matters, TLC configurations that check them on small instances, and TLAPS
proofs of the results that hold for every instance.

Paths below are relative to the root of the repository; the application is
under `src/`, the kernel under `FreeRTOS-KernelV10.6.2/`.

## 1. The system

### Components

| component | state it keeps | operations | hard behaviour | what makes it correct |
|---|---|---|---|---|
| I2C master (`src/i2c/PicoI2C`) | mutex `access`, `task_to_notify`, `wbuf/wctr`, `rbuf/rctr/rcnt`, `restart_on_next`; the block's FIFOs, mask and STOP_DET | `transaction`, `write`, `read`; `isr` | a handler and a task fill one FIFO; time-out against a late STOP; refused bytes | command stream exact; a full count of a read is true; calls return |
| UART (`src/uart/PicoOsUart`) | mutex, queues `tx`, `rx`, `imsc`; the FIFOs | `write`, `send`, `read`, `flush`; handler | task and handler both move bytes; the TX interrupt is edge-like | order, no stranded byte, no interrupt storm |
| TCP client (`src/ipstack/IPStack`) | `buffer`, `count`, `wr`, `rd`, `dropped`, `tcp_pcb` | `connect`, `write`, `read`, `disconnect`; five lwIP callbacks | ring wrap and overflow; callbacks against the task | the ring is a byte channel; no copy leaves it |
| DHCP server (`src/ipstack/dhcpserver`) | `lease[8]` of `mac`, `expiry` | `dhcp_server_init`, `dhcp_server_process` | 16 bits of a 32-bit clock that wraps; offers not recorded; lost datagrams | one client per address; clients are served |
| DNS responder (`src/ipstack/dnsserver`) | none between requests | `dns_server_process` | reply built in the 300-byte request buffer | the reply fits; the walk stays in the message |
| EEPROM (`src/src/eeprom`) | blocks of 64 bytes with CRC | `writeToMemory`, `readFromMemory` | refused or cut I2C transfers, power loss in a write cycle | a block written stays whole; a read is of one block |
| TLS client (`src/ipstack/tls_common.c`) | `TLS_CLIENT_T`: `complete`, `error`, `pcb`; `tls_config` | run, close, callbacks | task and lwIP share the state; failed DNS or connect | no use after free, a time-out is reported, the call returns |
| TCP servers (`src/ipstack/picow_access_point.c`) | `con_state` and pcb of each connection | accept, recv, sent, poll, err | requests in pieces, a second request, buffers lwIP refers to | state lives with its connection; bytes live until acknowledged |
| provisioning (`NetworkClass`, `MQTTClient`, `main.cpp`) | credentials, flag, MQTT client | access point, form, join, connect, subscribe | httpd's thread against `internet_task`; a broker that answers late | the join has credentials, of one form; a form gets the task on |
| `Blinker` | on, delay; one notification value | `on`, `off`, `run` | the value is overwritten; the wait times out | the last command is obeyed |
| kernel: task notifications (`tasks.c`) | value, state and list items of a task | take, wait, notify, from tasks and interrupts | tick, notification and suspended scheduler together | no lost wake-up |
| kernel: queues (`queue.c`) | ring, two locks, two event lists | send, receive, peek; from interrupts | interrupts between a failed call and its wait | a bounded queue; no lost wake-up |
| kernel: mutexes (`queue.c`, `tasks.c`) | holder, waiters, priority and base priority | take, give, time-out, `vTaskPrioritySet` | inheritance against time-outs | no inversion; the priority is given back |

RTC, buttons and encoder, `SharedResources`, `Fmutex`, `CriticalSection` and the
rest of the kernel are in section 6.

### Interaction

* EEPROM and RTC call `PicoI2C::transaction` (mutex, then the FIFO, then a task
  notification from `isr`). `main.cpp` makes an object for each (lines 71 and 101).
* UART callers share one mutex; handler and task share two kernel queues.
* lwIP calls back into IPStack, the TLS client, the TCP servers, DHCP and DNS.
  The build links `pico_cyw43_arch_lwip_sys_freertos`, in which callbacks run in
  a task of lwIP under its lock, so they interleave with any task that does not
  take the lock.
* `cgi_handler` (httpd, lwIP's task) hands credentials to `internet_task`
  through `NetworkClass` fields.
* The blinking task is driven by `xTaskNotify`; `Blinker` is composed with
  `TaskNotify`. Mutexes and queues of the kernel appear in the driver modules as
  their abstract behaviour: an `owner`, a sequence with a bound. `KernelQueue`
  is what shows that a kernel queue is such a sequence.

`main()` at this commit starts `blink_led` only; the other tasks are commented
out, and the build list comments out `IPStack.cpp`. The specifications model
the components as their interfaces allow them to be used.

`PROJECT.json` lists every component, the hazards with the line at which each
bites and the properties that cover it, and the source lines of every definition.

## 2. Modules

| module | models | kind |
|---|---|---|
| `PicoI2C`, `MCPicoI2C`, `PicoI2C_proofs` | the I2C master with the RP2040 block, the NVIC and a slave | detailed, instance, proofs |
| `I2cService` | what `transaction()` promises | abstract; `PicoI2C` implements it |
| `PicoOsUart` | the UART driver with the PL011 FIFOs and the NVIC | detailed |
| `ByteChannel` | a byte buffer with named places of loss | abstract; implemented by both directions of the UART and by the ring of `IPStack` |
| `IPStack` | the TCP client, its ring and the life of its pcb | detailed |
| `ByteChannel_proofs` | both directions of `PicoOsUart` and the ring of `IPStack` | proofs |
| `DhcpServer` | the lease table, the clock, lossy clients | detailed |
| `DnsServer` | the reply as offsets in its buffer | detailed |
| `TcpServer` | connections of the access point's web server | detailed |
| `Provisioning` | from the access point to publish | composition |
| `AccessPoint_proofs` | the four modules above | proofs |
| `Eeprom`, `Eeprom_proofs` | blocks on a memory with pages and a write cycle | detailed, proofs |
| `TlsClient`, `TlsClient_proofs` | the waiting task and the callbacks | detailed, proofs |
| `TaskNotify`, `NotifyWait` | `ulTaskNotifyTake` and `xTaskNotifyWait` of one task | detailed |
| `Blinker` | `Blinker` over `TaskNotify` | composition |
| `KernelMutex`, `MCKernelMutex` | mutexes with inheritance, under the scheduler | detailed, instance |
| `Kernel_proofs` | the four modules above | proofs |
| `EventList`, `EventList_proofs` | an event list: `vListInsert`, `uxListRemove` | operators, their lemmas |
| `KernelQueue`, `MCKernelQueue`, `KernelQueue_proofs` | a queue with its locks and event lists | detailed, instance, proofs |
| `BoundedQueue` | a sequence with a bound | abstract; `KernelQueue` implements it |

Specifications that are proved in one module have names of their own: `DhcpSpec`,
`TcpSpec`, `ProvSpec`, `NotifySpec`, `WSpec` (`NotifyWait`), `BSpec` (`Blinker`)
and `UartSpec`; elsewhere it is `Spec`.

A definition named `Slip...` stands in front of the definition it resembles. It
is a plausible mistake in that line of the code: put in its place, it makes the
property named with it in `PROJECT.json` fail.

Some modules have *frozen variables*, chosen in `Init` and never changed, so that
one run covers several environments: `pace` of `PicoI2C` (which besides marks, as
`behind`, that a bus event came while a prompt processor had one to handle), `patient` of
`TcpServer`, `atomic` of `TlsClient`, `program` of `KernelMutex`. *History* variables
record what nothing in the code reads (`given`, `cause`, `overlapped`, `spoiled`); each is
explained with its module. A variable `wild` marks that the code has done something whose outcome C does not define (a freed
pcb closed, freed state written): nothing is modelled after it, and
the properties say when they hold in spite of it.

### PicoI2C

One action per stretch of `transaction()` that an interrupt, another task or
the bus can come between: `Begin` (lines 124–149, NVIC line off), `Fill` (one
loop body of `tx_fill_fifo` or `rx_fill_fifo`), `Take`/`TimeOut`
(`ulTaskNotifyTake`), `Count`, `Return`. `isr()` is `IsrEnter`, `IsrDrain` (one
byte), `IsrDrained`, `IsrFill` (one command), `IsrStop`. The two fill functions
are shared operators (`PushWrite`, `PushRead`), as they are shared in the code.
`BusFetch`, `BusAck`, `BusNack`, `BusStop` are the hardware and the slave, and
may come between any two of the above.

On one core a pending, enabled interrupt preempts each task and the handler
runs to its end: `TaskRuns`, `IrqPending`. A byte is its index in its buffer,
so that a duplicate, lost or reordered byte shows.

What is assumed of the hardware, since its source is not in the repository:

* `enable = 0` and `1` in `Begin` empties both FIFOs, clears an abort, and ends a
  byte on the wire at once. Whether this produces a STOP is left open
  (`StopOnDisable`).
* TX_EMPTY and RX_FULL follow the FIFO levels; STOP_DET is latched until `clr_stop_det`
  is read. An abort empties the TX FIFO and ends in STOP; until the block is
  enabled again writes to `data_cmd` are ignored.

`pace` is how late slave and processor may be: `late` (any time-out may happen),
`timely` (nobody waits out the 1000 ms), `prompt` (besides, the handler is entered
and left within two byte times, and no byte is refused).

### PicoOsUart

`write()` is `WriteCall`, `SendByte`, `SendOver`, `FillTake`, `FillPut`,
`FillOver`, `WriteReturn`: the step between `xQueueReceive` and the assignment
to `dr` is where a handler could overtake, so the two are separate. `read()` and
`flush()` are `ReadCall`/`FlushCall`, `TakeByte`, `TakeOver`. The handler is
`uart_irq_rx` (`IsrGet`, `IsrQueue`, `IsrRxOver`), then `uart_irq_tx` (`IsrTake`,
`IsrPut`, `IsrTxOver`). A wait on a queue may end early only when it cannot go on
(queue full, queue empty). `send()` is `write()` with the length of its string.

Assumed of the PL011: the transmit interrupt is raised when the level *falls to*
the trigger and cleared when a write lifts it above; it is not raised by being
empty. The receive interrupt is raised at the trigger, and by the receive time-out
while bytes wait. A byte that finds the RX FIFO full is lost.

### IPStack

`read()` is split where it touches `count` (`LoadCount`, `StoreCount` are the two
halves of `count -= n`), and callbacks, which are atomic for the task, may come
between any two of its steps, as they do in the linked `sys_freertos` build. The history
`given` is what `read()` has copied to its callers. `forgot` is set when
`StoreCount` stores over what a callback has added since `LoadCount`: from then on
`count` is too small, the ring's contents are no longer those of the channel, and
`CountIsTrue` and `RingIsChannel` say nothing. `CopiesInRing` holds on. In
`RingIsChannel` the `out` of `ByteChannel` is `given`, so a copy from a wrong
place or of a wrong length violates it. `pcb` is the life of lwIP's memory: `free`, `new`,
`connecting`, `open`, `peer_closed`. The task connects, writes, reads any number
of times and disconnects, as in `http_test.cpp`, which ignores what `write()`
returns.

### DhcpServer and DnsServer

`Discover` and `Request`/`Refused` are the two cases of `dhcp_server_process`,
which lwIP calls without interruption. The loop over the leases is written as
sets: the slots scanned before the client's own (`Scanned`), those of them that
can be reused, the first of these, which is cleared even when the client's own
slot follows (`Cleared`), and the slot answered (`Choice`). `Until` is
`(expiry << 16 | 0xffff) - now` as a 32-bit number, `Expired` its sign.
(`expiry << 16` on a promoted `uint16_t` leaves the range of `int` for the upper
half of the values; every compiler the SDK supports gives the wrapped result,
which is what is modelled.)

`left` is the client's view: the time for which a client that received an ACK
may still use the address. It counts down with the clock, so the model needs no
bound on time: the clock wraps as often as it likes. Both datagrams from the
server may be lost, a client may ask at any time and, with `Reboot`, for any
address. Clients with the hardware address 0 do not occur.

`DnsServer` walks the labels of a name as offsets (`Label`, `EndOfName`), then
rejects a name that is too long or writes the answer behind the question. Histories
say what was touched: `lastRead` the byte of the walk, `written` the offsets of the
answer, `sent` the length of the reply, and `stray` the bytes of the reply that nobody
has written. The reply starts at the buffer's beginning, so that when the last label or
the question leads past the message it contains what was on the stack there.

### Eeprom

A unit stands for two bytes and carries the write it comes from, its page and its
place, so the CRC is exact: `CrcMatches` says that all units are of one write.
`Send` hands any number of units to the memory (refused or timed out earlier),
`Program` ends the write cycle, `LosePower` may come at any step and leaves each
unit of a running cycle old, new or destroyed. While the memory programs it
refuses everything (`Busy`). `DelayCovers` says whether the delay after a write
(`EEPROM.cpp:52`) is always longer than the write cycle. The stack buffer of a
read starts with anything, or with what an earlier call left.

### TlsClient, TcpServer, Provisioning

`TlsClient`: a callback is a sequence of steps (`Close`, `ErrSteps`,
`PollSteps`: the order in which `complete`, the pcb and `error` are
written); unless `atomic`, the task may run between them. `Free` sets `wild` when a
callback is still running, since it then writes freed memory, and so does
`tls_client_err`, which closes a pcb that lwIP frees itself (`close_freed`). The history
`cause` is what made a callback, or `altcp_connect()` in the task, end the
call: a failed lookup, connect or write, the server's end, the poll's time-out, an
error of lwIP.

`TcpServer`: `unacked` holds for every byte that lwIP has not seen acknowledged
the copy it was written from, because `tcp_write` is called without
`TCP_WRITE_FLAG_COPY`: a second request overwrites `headers` and `result`, and
closing frees them. `patient` clients send one request in one segment and
acknowledge within the poll interval; the others do what they like.

`Provisioning`: `cgi_handler` copies SSID, password and flag in three steps
against `internet_task`, which copies them one after the other, joins, resolves
the broker, connects and subscribes without looking at any result. `request` is
the subscription: `asked` when `mqtt_subscribe()` has queued it, `granted` or
`refused` by the broker, which `mqtt_subscribe_cb` only prints. So nothing
says that a connected client is subscribed, and no property claims it. The
history `overlapped` marks a handler that was at its copies while the join read.

### The kernel

`TaskNotify` has one step per critical section of `ulTaskNotifyTake()`. `place`
and `event` are the two list items of the task; `suspended` is a task that has
called `vTaskSuspendAll()`, during which notifications from interrupts go to
`xPendingReadyList` and ticks are held back. `NotifyWait` is the same
state under `xTaskNotifyWait()` and `eSetValueWithoutOverwrite`.

`KernelQueue` follows a blocking call through `vTaskSuspendAll`, `prvLockQueue`,
`xTaskCheckForTimeOut`, the second look at the queue, `vTaskPlaceOnEventList`,
`prvUnlockQueue` (two critical sections) and `xTaskResumeAll`. Interrupts may come
between any two of these and count their events in the lock. `woken` is history:
the tasks that were woken and have not looked at the queue yet.

`KernelMutex` adds the scheduler's choice: only a ready task of the highest
priority runs. What a call does with the scheduler suspended is one step, since
mutexes are not used from interrupts. `limit` is what is left of the block time:
`some` becomes `over` with the tick, and `none` when the call has found
out; a call without block time starts with `none`. A `try` that finds the mutex taken
with `none` left returns at once (`queue.c:1653`), without asking back what it lent.
`DisinheritAfterTimeout` is the step of its own that the code makes of the
other way out. `program` says which mutexes the tasks use, which they take
while they hold which, and whether they call `vTaskPrioritySet()`.

Two histories mark where the kernel does not promise what one would like. It changes the
priority of a task that waits (by `vTaskPrioritySet()`, or because the task holds another
mutex and inherits there) without moving it in the list it waits in and without passing
the change on to the holder. `spoiled` holds the mutexes this has happened to, until they
are free and nobody calls for them. And a priority is given back only with the last
mutex a task holds: `nested` holds the tasks that have held two since they held none.

## 3. Runs

Every cfg runs on two workers within three minutes.

| run | question | result |
|---|---|---|
| `i2c` | Two tasks, every interleaving of calls, interrupts, time-outs, refusals: what can a caller rely on, at each `pace`? | commands exact, a full count of a read true, every call returns, `I2cService` implemented; when all are prompt every call is complete |
| `i2c_stale_stop` | "wait for stop interrupt" (`PicoI2C.cpp:158`) | **violated**: what a timed-out call left behind ends a later one |
| `uart` | Two tasks and the line: order, loss, stranding? | order both ways, every accepted byte sent, every arrival queued or lost, no interrupt storm |
| `ipstack` | Callbacks at any step: is the ring right over its wrap, in overflow and over connections? | it implements `ByteChannel`, and `count` is right, until a callback falls into `count -= n`; no copy ever leaves the buffer |
| `dhcp` | Colliding offers, lost datagrams, a wrapping clock: can two clients share an address, can one be kept out? | no |
| `eeprom_power` | Two tasks, two pages, power lost at any step: does a block stay whole, does a read mix two? | whole; never mixed |
| `tls_calls` | Does every call return, which calls fail, and when callbacks run whole, is nothing freed too early? | every call returns; of those that waited, the ones that time out fail, and *only* these; nothing |
| `tcp` | Clients in pieces, repeated, resetting, silent: does state live with its connection, does each end? | yes; for patient clients every byte lives until acknowledged |
| `prov_form` | Forms in any order at any step: is the join tried with what no form stored, does the task go on? | never; it goes on past its join; the join mixes two forms only when a handler is at its copies while it reads |
| `blinker` | Commands at any step of the kernel's wait: is one slept on or put back? | no; the last one is obeyed |
| `queue` | Sends to both ends, receives, peeks and interrupts: is it a queue, is a wake-up lost? | a queue; none |
| `mutex` | Three priorities, all block times, nested mutexes or `vTaskPrioritySet`: inversion, a priority kept, starvation? | none, except on a `spoiled` mutex or for a `nested` holder; the highest task is served where one mutex is used |

`CHECK_DEADLOCK FALSE` stands in three cfgs: the number of forms, connections or
calls is bounded there, or the system is `wild`, and then nothing is left to do.

### Bounds

* `i2c`: FIFO of 3 and RX threshold 1 stand for 16 and 14. Requests are 1 to 6
  bytes: shorter than the FIFO, equal, longer, write only, read only, and write
  followed by read with the turn inside and outside the first filling. Number of
  calls unbounded, two tasks.
* `uart`: FIFO 2, triggers 0 and 2, queues of 2, writes of 1 and 3 bytes, `MaxTx` 3
  and `MaxRx` 4 bytes: FIFO and queue are full together both ways, a write
  is cut, the receive time-out and both places of loss occur.
* `ipstack`: ring of 4, packets of 1, 3 and 6 bytes, reads of up to 0, 1, 3 and 5,
  ten bytes in all: packets larger than the ring, copies that end at its end and
  wrap round it twice, callbacks inside `count -= n`, two pcbs so that memory runs out.
* `dhcp`: a clock of 16 ticks with grain 2 and a lease of 3 ticks: the shape of
  2^32, 2^16 and 86 400 000, where a lease is well below half the clock and the
  grain makes rounding matter. Two clients on two slots. Time and number of
  messages are unbounded.
* `eeprom_power`: two pages of 4 units, blocks of 2 data units and a CRC, two
  writes. Two writes are what it takes to mix blocks of one page, or to find a
  block of the other page.
* `tls_calls`: three calls, so that a call follows each kind of failure.
* `tcp`: two connections, pages of 0 (the redirect) and 2 bytes behind a header
  of one, two segments each.
* `prov_form`: two forms, the second at any step of the first.
* `blinker`: two delays and `Off`, up to three notifications, so that two
  overwrite one. The bound ends the commands, not the blinking.
* `queue`: length 2, one sender, receiver and peeker each, one of them with a block
  time; sends of two items to both ends; calls and interrupts unbounded.
* `mutex`: three tasks, two mutexes, block times none, some and forever, calls
  unbounded, and three programs: one mutex; one mutex with `vTaskPrioritySet` to the
  middle priority; and one mutex inside another, as `EEPROM` takes `i2c_mutex` and then
  `PicoI2C` its own. They nest in a fixed order, so that there is no deadlock.
  `vTaskPrioritySet` and nesting are not combined in the run; in the theorems they are.

### Fairness

* `PicoI2C!Scheduled`: weak fairness of the handler (the core takes each enabled
  interrupt) and of each task inside a call (FreeRTOS runs the ready task; the
  kernel ends a timed wait). Nothing is assumed of the bus.
* `PicoOsUart!FairUartSpec`: the same, with the hardware's sending and its receive
  time-out. Callers and the line's other end owe nothing.
* `DhcpServer!DhcpFairness`: a client without an address asks again and again, and
  of infinitely many answers some arrive. Strong fairness, because the network
  may lose any finite number. Time and the other clients are not constrained.
* `TlsClient!Fairness`: the task is scheduled, a callback is finished, a DNS query
  is answered (lwIP's own timer ends it), an open connection is polled.
* `TcpServer!TcpFairness`: lwIP polls connections; only `patient` clients owe
  their acknowledgements.
* `Provisioning!ProvFairness`: lwIP's thread runs, and the task up to its join, which
  ends with its own time-out. Nothing says that there is ever memory for the client or
  that a name is resolved; clients and broker owe nothing.
* `Blinker!BFairness`: strong, because another task may suspend the scheduler
  again and again; it resumes each time.
* `KernelQueue!Fairness`: each task gets the processor again and again (strong:
  others run between).
* `KernelMutex!Fairness`: a ready task of the highest priority goes on; a holder that
  gets the processor again and again gives back. A middle task may run for ever.

## 4. Proofs

TLAPS checks all steps with Z3, Zenon and LS4; nothing is assumed beyond the
named assumptions on the constants, which TLC evaluates in the runs, and what a
theorem states after `ASSUME`. Every invariant, action property and refinement that
a passing run checks is a theorem for all values of the constants. Each proof
module states its inductive invariant first, has one lemma per action or group of
actions, and ends in the theorems. A refinement is proved step by step: each
action maps to one action of the abstract module, or leaves its variables alone.

**`PicoI2C_proofs`** (any tasks, FIFO depth, threshold, requests, paces):
`TypeCorrect`, `CommandStreamCorrect`, `BuffersLiveCorrect`, `FullReadCorrect`,
`ImplementsServiceCorrect`, `EveryCallCompleteCorrect`. None of the properties is
inductive alone. `FullReadIsTrue` speaks of the moment before the return, and
rests on where each byte is; `IInv` therefore adds

* `CallInv`: mutex, NVIC line and handler follow the call in progress;
* `FillInv`: what the counters say about the next command and its RESTART;
* `WireInv`: the command on the wire and those in the FIFO are the commands
  numbered `done + 1` onwards, unless the transfer was aborted;
* `ReadInv`: each byte that was read is in the caller's buffer, the RX FIFO, or
  lost.

A full count means `rcnt = 0` and `wctr = 0`, so by `ReadInv` nothing was lost
and by `WireInv` everything was acknowledged.

`ImplementsService`: `Begin` is the service's `Call`, `BusAck` its
`Acknowledge`, `IsrDrain` its `Store`, `Return` its `Return`; the other actions
stutter. It needs `ByteOrder` besides: what is read is numbered in order.

`EveryCallComplete` (`ASSUME RxTl + 2 <= FifoDepth`; the code has 14 and 16): two
bytes may arrive between the interrupt at `RxTl` and the end of the drain. With a
FIFO of 2 and a threshold of 1 the property is false, as TLC shows, so the premise
is needed. `EndsByStop` says that no call ends but by its own STOP, `KeepsUp` that a
prompt processor loses no byte; its parts `Drained` and `Settled` are the two
moments at which a byte could be left behind.

**`ByteChannel_proofs`**, the three byte buffers, over lemmas about sequences in
which bytes enter, move between buffers or leave:

* Ring (no assumption; a ring, packets and reads of any size, callbacks between any
  two steps): `CountIsTrueCorrect` and `RingIsChannelCorrect`, both until
  `forgot`, and `CopiesInRingCorrect` without that condition. `RingInv` says for each step of
  `read()` what `count` will be when the pending subtraction is done, and
  its lemmas for `RingIsChannel` add that the bytes a copy has just handed out are the
  first of those `count` still holds; `Reaches` is the relation of `rd`, `count` and `wr` without the modulus. `ReceivedBytes`
  says which bytes a packet leaves in the ring in terms of the distance behind `wr`,
  whichever of the two copies placed them. `ReceiveEnters` shows too that only a
  full ring drops.
* UART (no assumption; any queues, FIFOs, triggers, writes and tasks):
  `TxInOrderCorrect`, `RxInOrderCorrect`. `Exclusive`: each call holds the mutex,
  the initial fill runs with the NVIC line off and the handler only with it on.
  `Hands`: a byte is in a local variable exactly between taking and putting it.
  `Bounds`: the TX FIFO has room for the byte on its way, so that no put loses one.
  The contents of a direction are FIFO, hand and queue joined (`TxFlow`, `RxFlow`):
  a byte that moves among these leaves the whole unchanged, and the byte that a full
  queue refuses is the one that the channel's `Lose` removes.

**`AccessPoint_proofs`**:

* DHCP (any clients, table and clock with `2 * (Lease + 2 * Grain) <= Ticks`, so
  also 2^32, 2^16 and 86 400 000): `ExclusiveCorrect`, `LeaseKnownCorrect`,
  `DhcpTypeCorrect`. `Exclusive` says nothing of the table, so `LeaseKnown` ties the
  client's clock to it: its slot carries its name, and shows at least the client's
  time left and less than half of the clock. The lemmas `UntilNear`, `UntilTick` and
  `StampUntil` are the arithmetic of the wrap. `OneSlotCorrect`: with `~Reboot` a
  client has at most one slot; `OfferKept` (a client is offered one slot, the one it
  has if it has one) makes it inductive.
* DNS (`ASSUME Dns!SizesFit`, which the sizes of the source satisfy: 12 + 255 + 4 +
  16 <= 300): `DnsBoundsCorrect` and `DnsTypeCorrect`, whatever labels a datagram has.
  `DnsBoundsCorrect` has three parts: answer and reply stay in the buffer (`ReplyFits`), the
  walk reads only what was received (`WalkInMessage`), and of what is *sent* at most
  one label and the question were not (`StrayBounded`).
* TCP server (any connections, pages and segments; requests up to `MaxRecv`):
  `StateWithConnectionCorrect`, `BytesLiveCorrect`. `TcpInv` adds, of a
  patient client, that what is queued is the answer written last, and that
  `sent_len` and the queue together are its length: when `sent_len` reaches `len`
  nothing is left that closing would free.
* Provisioning (any forms): `JoinHasCredentialsCorrect` and `JoinUsesOneFormCorrect`,
  by the order in which the handler fills the buffers and the task reads them (`ProvInv`).

**`Eeprom_proofs`** (`ASSUME DelayCovers`; any tasks, pages and block length):
`DurableCorrect` and `ReadIsCurrentCorrect`. Added to `Durable`: the mutex is held while
the memory programs, it programs the page of the running write only (`PagesApart` is
the arithmetic), and a write that was taken whole is in the memory or in the running
cycle. For what a read gives, `SourceInv` says that each unit of a page is of the
last whole write of that page, of one begun since, or destroyed, and that a read
that was not cut has exactly its page in its buffer.

**`TlsClient_proofs`** (any number of calls): `StateAliveCorrect`, about callbacks that
run whole: while lwIP has anything to do for the task, the task waits.
`OnlyTimeoutFailsCorrect`, also for interrupted callbacks: the error of the poll is on
its way to the state before `complete` is, in the state, or read, and no other error
gets there before the call is over or `wild`.

**`Kernel_proofs`**:

* Notifications (any values and bits): `EventItemFreeCorrect`, the `configASSERT`
  of `xTaskGenericNotify`; `NoLostWakeCorrect`; `ZeroMeansTimedOutCorrect`
  (`ASSUME 0 \notin Values`); `BlinkerNotified`, that the `Blinker` refines
  `TaskNotify`, so that these hold of its task; `MailboxCorrect` of `NotifyWait`.
* `PriorityRestoredCorrect` (`ASSUME IsFiniteSet(Mutexes)`; any tasks, priorities and
  nesting), by counting: `uxMutexesHeld` is the number of mutexes whose holder is the
  task, and a priority differs from its base only while that is positive.
* `NoInversionCorrect`, `NoPriorityLeftCorrect` (`ASSUME IsFiniteSet(Mutexes)`; any tasks,
  priorities, programs and nesting). `LendInv` follows a priority from lender to
  holder, of each mutex that is not `spoiled`: the list is in order of the priorities
  the tasks have (`Placed`), no waiter is above the holder (`Below`), and of a free mutex
  the woken task is as high as those that still wait (`NextUp`), because the list is
  ordered. Of a holder that has not nested, a waiter above its base has lent (`Owed`),
  and what it has was lent by a call still to end (`Lent`). Each action leaves a mutex
  sound or spoils it (`ActionLend`), and a mutex that is free and called for by nobody
  is sound whatever was before.

The exceptions are the kernel's, not the model's. Its inheritance does not pass on: a
task that waits for one mutex and inherits through another does not raise the
holder of the first. `EEPROM` and `RTC` hold `i2c_mutex` while they call
`PicoI2C`, which takes its own (`EEPROM.cpp:43`): for a task that waits for the inner
mutex while it holds the outer one, `NoInversion` holds until a third task
raises it; and who held both keeps a priority until both are given back.

**`EventList_proofs`**: what `vListInsert` and `uxListRemove` do to a list of tasks:
each stands in it once (`Once`), in order of priority (`Ordered`), the rest keep
their order.

**`KernelQueue_proofs`** (any length, items, priorities and time-outs; no task is on
both sides):

* `NoLostWakeCorrect` (`ASSUME IsFiniteSet(Tasks)`). It is not inductive alone: between
  its second look at the queue and its place in the list a task sees nothing. `Counted`
  closes the gap: in that time the queue is locked, and the lock counts at least what
  came since the look, or is at its limit, the number of tasks.
* `ImplementsQueueCorrect`: the ring with `pcWriteTo`, `pcReadFrom` and
  `uxMessagesWaiting` is the sequence of `BoundedQueue`. `RingInv` places `pcWriteTo`
  as many slots behind the next item as there are items; a send to the front
  moves `pcReadFrom` instead.

The type invariants of `TaskNotify`, `DhcpServer` and `DnsServer`, `OfferKept`,
`BuffersLive`, `Mailbox`, `ReplyFits`, `WalkInMessage`, `StrayBounded` and `EventItemFree`
are proved and are in no run.

**Left to TLC**: liveness (`CallReturns`, `AllSent`, `AllQueued`, `EachServed`,
`WaitEnds`, `ConnectionsEnd`, `StoredIsUsed`, `LastCommandObeyed`, `KeepsBlinking`,
`Served`, `HighestServed`), which rests on fairness and so on ENABLED.

## 5. Findings and observations

`i2c_stale_stop` is a finding: after a time-out nothing clears STOP_DET or the
notification (`PicoI2C.cpp:159`), so the next call may end before its transfer. It
then returns a short count for a read (`FullReadIsTrue` holds), but may return a
full one for a write.

Met while modelling. Each is in a model, in a switch or in a premise of a property,
but has no run of its own:

* I2C: a write the slave refuses returns its full length (`PicoI2C.cpp:163`):
  `wctr` counts bytes given to the FIFO. `FullReadIsTrue` is about reads for this
  reason. `main.cpp:71` and `:101` make two objects for bus 0, each with its own mutex.
* UART: nothing empties the queue before `PicoOsUart.cpp:90`, so a `write()` longer
  than `tx_size` waits out its 500 ms and is cut (`SendOver` with `todo > 0`).
* IPStack: `read()` changes `count` without the lwIP lock (`IPStack.cpp:217`, `227`): a
  callback between its load and its store is forgotten, `count` stays too small and later
  reads are short or out of step (the condition `~forgot`). `tcp_client_err` keeps a
  pcb that lwIP has freed (`132`), a failed `tcp_connect` leaves one (`61`), and
  `disconnect()` leaves unread bytes in the ring for the next connection (`258`).
* DHCP: 2^31 ms after its end a lease looks unexpired again (`dhcpserver.c:225`).
* EEPROM: 62 bytes, the length `main.cpp:68` uses, and 4 bytes of frame exceed the
  buffer of 64 that the guard admits (`EEPROM.cpp:36`). The results of the transfers
  are ignored: after a refused address `readFromMemory` may return an intact block of
  another page, hence the premise `~cut` of `ReadIsCurrent`.
* TLS: a name that is not found, a connection or a request that fails, and an end
  without an answer close with error 0, so the call passes (`tls_common.c:164`, `150`,
  `76`): `OnlyTimeoutFails` says exactly this. `tls_client_err` writes its error after
  `complete`, so a task that preempts it passes too (`100`), and closes a pcb that
  lwIP frees: `wild`.
* DNS: a reply contains bytes of the stack that nobody wrote when the last label leads
  past the message (`dnsserver.c:214`): `stray`, bounded by `StrayBounded`.
* TCP: a second request, or one cut in two, restarts `sent_len` while bytes
  are unacknowledged, and overwrites what lwIP may still send
  (`picow_access_point.c:176`); the error callback closes a freed pcb (`208`): the
  premise `patient`.
* Provisioning: a second form may be copied while the first is read: SSID and password
  may be of different forms (`overlapped`). A connected client need not be subscribed:
  the result and the broker's answer are printed at most (`MQTTClient.cpp:80`, `83`). A join that failed is followed by name
  resolution without end (`MQTTClient.cpp:24`), and `mqtt_*` is called without
  lwIP's lock.
* Blinker: `on(0)` cannot be told from a time-out: the premise of `ZeroMeansTimedOut`.
* Kernel: taking a mutex that one holds, with a time-out, would meet the assertion
  at `tasks.c:4341`; no program of the run nests a mutex in itself. `vTaskPrioritySet`
  during a wait, or a waiter that inherits elsewhere, may leave a holder below its waiter
  (`spoiled`).
* RTC: `get_time()` converts its buffer when the transaction failed (`RTC.cpp:70`).
* Buttons: the queue of ten drops events that do not fit (`irqs.cpp:25`).

## 6. Not modelled

* `Fmutex`, `CriticalSection`: wrappers of one kernel call each; the mutex is
  `owner` in the modules that lock it.
* RTC: each call is one I2C transaction and the conversion of single registers,
  with no state that outlives the call.
* Buttons and encoder: one comparison with a time that all pins share, and one send
  from an interrupt, which is `SendFromISR` of `KernelQueue`.
* `SharedResources`: getters and setters under a mutex; nothing in the build calls
  them concurrently.
* `MqttWifiManager` and the alternative programs (`mainExtra.cpp`, `mqttTEST.c`,
  `Network/MQTTClient.cpp`, `lwiphttpdserver.cpp`, `MCP79410.cpp`, `http_test.cpp`):
  not in the build, or with a `main()` of their own.
* Kernel: of notifications, eSetBits, eNoAction and the calls that clear state or
  value; of queues, overwrite, reset, delete, queue sets and the registry; recursive
  mutexes; task creation and deletion; software timers, event groups, stream and
  message buffers, which the application does not use. `list.c` is sets and
  sequences in the modules that use lists. Other ports and heaps are not compiled.
* The WLAN driver, lwIP and TLS themselves: external, as the callers see them.

By lines most of the repository has no behaviour to model: `htmldata.c` (twice)
is generated file contents, `mpu_wrappers*.c` forward calls for ports
that use an MPU, which the RP2040's does not, and half of the kernel's
headers is documentation. The map covers the application's concurrent code nearly
whole, and of the kernel what that code depends on.

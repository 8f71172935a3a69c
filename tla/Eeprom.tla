------------------------------ MODULE Eeprom ------------------------------
(***************************************************************************)
(* EEPROM::writeToMemory() and readFromMemory(): blocks with a CRC on an   *)
(* I2C memory whose pages take a write cycle of their own after the STOP.  *)
(* A unit stands for two bytes: the address, the CRC, and each pair of     *)
(* data bytes.  A unit in memory is known by the write it comes from and   *)
(* its place in the block; the CRC is right when all units of a block come *)
(* from one write, each at its place.                                      *)
(***************************************************************************)
EXTENDS Integers, Sequences

CONSTANTS
  Tasks, NoTask,
  Pages,        \* number of pages of the device
  Block,        \* units of a page, and of buffer[64]
  Length,       \* units of data of every call
  MaxWrites,    \* bound on the calls of writeToMemory()
  DelayCovers   \* does vTaskDelay(5) always last as long as the write cycle?

ASSUME EepromAssumption ==
  /\ Pages \in Nat \ {0} /\ Block \in Nat \ {0}
  /\ Length \in 1..(Block - 1) /\ NoTask \notin Tasks
  /\ DelayCovers \in BOOLEAN

VARIABLES
  owner,    \* the task that holds i2c_mutex
  pc,       \* where each task's call is
  page,     \* memory_address of the call that has the mutex, as a page
  buffer,   \* the stack array of its readFromMemory()
  data,     \* what it copied out
  mem,      \* the device: its units,
  pointer,  \* its address counter,
  cycle,    \* the units it is programming (address -> unit)
  writes,   \* calls of writeToMemory() so far
  latest,   \* history: the last write of each page that was taken whole and
            \* has returned,
  begun,    \* those begun since then,
  cut       \* was a transfer of the running call refused or cut short?

vars == <<owner, pc, page, buffer, data, mem, pointer, cycle, writes, latest, begun, cut>>
device == <<mem, pointer, cycle>>
history == <<writes, latest, begun>>

Crc == 1
AddressUnits == 1
Garbage == [write |-> -1, page |-> -1, at |-> 0]
Unit(n, p, i) == [write |-> n, page |-> p, at |-> i]
Unread == [i \in 1..(Length + Crc) |-> Garbage]
Zeros == <<>>

SlipBase(p) == p * (Block - 2)
Base(p) == p * Block
Size == Pages * Block
NoUnits == [a \in {} |-> Garbage]
Busy == DOMAIN cycle # {}

Init ==
  /\ owner = NoTask
  /\ pc = [t \in Tasks |-> "idle"] /\ page = 0
  /\ buffer = Unread /\ data = Zeros
  /\ mem = [a \in 0..(Size - 1) |-> Garbage]
  /\ pointer = 0 /\ cycle = NoUnits
  /\ writes = 0 /\ cut = FALSE
  /\ latest = [p \in 0..(Pages - 1) |-> 0]
  /\ begun = [p \in 0..(Pages - 1) |-> {}]

Locked == owner # NoTask

\* The guard of both calls (line 36), and the units the write puts in buffer[64].
LengthAccepted == Length + Crc <= Block
FrameUnits == AddressUnits + Length + Crc

BeginWrite(t, p) ==
  /\ pc[t] = "idle" /\ ~Locked /\ LengthAccepted
  /\ writes < MaxWrites
  /\ owner' = t
  /\ pc' = [pc EXCEPT ![t] = "send"] /\ page' = p
  /\ writes' = writes + 1
  /\ begun' = [begun EXCEPT ![p] = @ \union {writes + 1}]
  /\ cut' = FALSE
  /\ UNCHANGED <<buffer, data, latest, device>>

AfterPageWrite(p, n) == Base(p) + (n % Block)

\* How many of n units are transferred: none while the device programs a page,
\* all, or fewer when a byte is refused or the transaction times out.
Taken(n) == IF Busy THEN {0} ELSE 0..n
Cut(k, n) == cut' = (cut \/ k < n)

\* i2c->write() of address, data and CRC; the counter stays in its page.
Send(t) ==
  /\ pc[t] = "send"
  /\ \E k \in Taken(FrameUnits) :
       /\ Cut(k, FrameUnits)
       /\ IF k < AddressUnits THEN UNCHANGED <<cycle, pointer>>
          ELSE LET n == k - AddressUnits IN
               /\ cycle' = [a \in {Base(page) + (i - 1) : i \in 1..n} |->
                              Unit(writes, page, a - Base(page) + 1)]
               /\ pointer' = AfterPageWrite(page, n)
  /\ pc' = [pc EXCEPT ![t] = "delay"]
  /\ UNCHANGED <<owner, page, buffer, data, mem, history>>

\* vTaskDelay() is over; the mutex is given back.
Wake(t) ==
  /\ pc[t] = "delay"
  /\ DelayCovers => ~Busy
  /\ owner' = NoTask /\ pc' = [pc EXCEPT ![t] = "idle"]
  /\ IF cut THEN UNCHANGED <<latest, begun>>
     ELSE /\ latest' = [latest EXCEPT ![page] = writes]
          /\ begun' = [begun EXCEPT ![page] = {}]
  /\ UNCHANGED <<page, buffer, data, writes, cut, device>>

\* buffer is not initialised: it holds what an earlier call left on the stack,
\* or anything.
BeginRead(t, p) ==
  /\ pc[t] = "idle" /\ ~Locked /\ LengthAccepted
  /\ owner' = t
  /\ pc' = [pc EXCEPT ![t] = "locate"] /\ page' = p
  /\ buffer' \in {buffer, Unread} /\ data' = Zeros
  /\ cut' = FALSE
  /\ UNCHANGED <<device, history>>

Locate(t) ==
  /\ pc[t] = "locate"
  /\ \E k \in Taken(AddressUnits) :
       /\ Cut(k, AddressUnits)
       /\ pointer' = IF k = AddressUnits THEN Base(page) ELSE pointer
  /\ pc' = [pc EXCEPT ![t] = "fetch"]
  /\ UNCHANGED <<owner, page, buffer, data, mem, cycle, history>>

\* A read goes on from the address counter, over the end of a page and of the
\* device.
AfterRead(k) == (pointer + k) % Size

Fetch(t) ==
  /\ pc[t] = "fetch"
  /\ \E k \in Taken(Length + Crc) :
       /\ Cut(k, Length + Crc)
       /\ buffer' = [i \in DOMAIN buffer |->
                       IF i <= k THEN mem[(pointer + (i - 1)) % Size] ELSE buffer[i]]
       /\ pointer' = AfterRead(k)
  /\ pc' = [pc EXCEPT ![t] = "check"]
  /\ UNCHANGED <<owner, page, data, mem, cycle, history>>

SlipCrcMatches(b) == b[1].at = 1
CrcMatches(b) == \E n \in 1..writes : \E p \in 0..(Pages - 1) :
                   b = [i \in 1..(Length + Crc) |-> Unit(n, p, i)]

Check(t) ==
  /\ pc[t] = "check"
  /\ data' = IF CrcMatches(buffer) THEN SubSeq(buffer, 1, Length) ELSE Zeros
  /\ owner' = NoTask /\ pc' = [pc EXCEPT ![t] = "idle"]
  /\ UNCHANGED <<page, buffer, cut, device, history>>

\* The end of the write cycle.
Program ==
  /\ Busy
  /\ mem' = [a \in DOMAIN mem |-> IF a \in DOMAIN cycle THEN cycle[a] ELSE mem[a]]
  /\ cycle' = NoUnits
  /\ UNCHANGED <<owner, pc, page, buffer, data, pointer, cut, history>>

\* In a write cycle that is cut each unit is old, new, or neither.
LosePower ==
  /\ \E new \in SUBSET DOMAIN cycle : \E lost \in SUBSET (DOMAIN cycle \ new) :
       mem' = [a \in DOMAIN mem |-> IF a \in new THEN cycle[a]
                                    ELSE IF a \in lost THEN Garbage ELSE mem[a]]
  /\ cycle' = NoUnits /\ pointer' = 0
  /\ owner' = NoTask
  /\ pc' = [t \in Tasks |-> "idle"]
  /\ buffer' = Unread /\ data' = Zeros /\ cut' = FALSE
  /\ UNCHANGED <<page, history>>

Step(t) ==
  \/ \E p \in 0..(Pages - 1) : BeginWrite(t, p) \/ BeginRead(t, p)
  \/ Send(t) \/ Wake(t) \/ Locate(t) \/ Fetch(t) \/ Check(t)

Next == Program \/ LosePower \/ \E t \in Tasks : Step(t)

Spec == Init /\ [][Next]_vars
---------------------------------------------------------------------------
\* A block whose write was taken whole and has returned is in the memory whole,
\* and stays there through writes of other pages, refused transfers and power
\* losses, until a write of its own page begins.
Durable == \A p \in 0..(Pages - 1) :
  latest[p] > 0 /\ begun[p] = {} =>
    \A i \in 1..(Length + Crc) : mem[Base(p) + i - 1] = Unit(latest[p], p, i)

\* Unless a transfer of its own is refused, a read of a page gives the last
\* block written there.  When writes of that page were refused or cut by a power
\* loss it may also give a block of theirs or zeros, but never parts of two.
ReadIsCurrent == [][\A t \in Tasks : Check(t) /\ ~cut =>
  IF data' = Zeros THEN latest[page] = 0 \/ begun[page] # {}
  ELSE \E n \in {latest[page]} \union begun[page] :
         data' = [i \in 1..Length |-> Unit(n, page, i)]]_vars
=============================================================================

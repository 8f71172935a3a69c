--------------------------- MODULE Eeprom_proofs --------------------------
(***************************************************************************)
(* Why a block that was written stays whole, whatever transfer is refused  *)
(* or cut and whenever power is lost: for a memory of any size and any     *)
(* number of tasks, if the delay of writeToMemory() covers a write cycle.  *)
(***************************************************************************)
EXTENDS Eeprom, SequenceTheorems, TLAPS

PageNumbers == 0..(Pages - 1)
Places == 1..(Length + Crc)

Types ==
  /\ owner \in Tasks \cup {NoTask} /\ page \in PageNumbers
  /\ pc \in [Tasks -> {"idle", "send", "delay", "locate", "fetch", "check"}]
  /\ writes \in Nat /\ cut \in BOOLEAN
  /\ DOMAIN mem = 0..(Size - 1)
  /\ DOMAIN latest = PageNumbers /\ DOMAIN begun = PageNumbers

\* The mutex, and the memory programs only while the writer sleeps.
Alone ==
  /\ \A t \in Tasks : pc[t] # "idle" => owner = t
  /\ Busy => owner \in Tasks /\ pc[owner] = "delay"

\* The memory programs units of the running write, in its page.
Cycle == DOMAIN cycle \subseteq {Base(page) + (i - 1) : i \in Places}

\* A write that is under way has begun, and once it was taken whole its block is
\* in the memory or about to be.
Written ==
  \A t \in Tasks : pc[t] \in {"send", "delay"} =>
    /\ begun[page] # {}
    /\ pc[t] = "delay" /\ ~cut => \A i \in Places :
         IF Busy THEN /\ Base(page) + (i - 1) \in DOMAIN cycle
                      /\ cycle[Base(page) + (i - 1)] = Unit(writes, page, i)
         ELSE mem[Base(page) + (i - 1)] = Unit(writes, page, i)

EInv == Types /\ Alone /\ Cycle /\ Written /\ Durable

\* The blocks of two pages have no address in common.
LEMMA PagesApart ==
  ASSUME NEW p \in PageNumbers, NEW q \in PageNumbers, NEW i \in Places, NEW j \in Places
  PROVE  /\ Base(p) + (i - 1) \in 0..(Size - 1)
         /\ Base(p) + (i - 1) = Base(q) + (j - 1) => p = q /\ i = j
<1>1. /\ Block \in Nat \ {0} /\ Pages \in Nat \ {0} /\ p \in 0..(Pages - 1) /\ q \in 0..(Pages - 1)
      /\ i \in 1..Block /\ j \in 1..Block
  BY EepromAssumption DEF PageNumbers, Places, Crc
<1>2. ASSUME NEW a \in Nat, NEW b \in Nat, a < b PROVE a * Block + Block <= b * Block
  BY <1>1, <1>2, SMTT(20)
<1>3. p * Block \in Nat /\ q * Block \in Nat /\ Pages * Block \in Nat
  BY <1>1, SMTT(20)
<1>4. p * Block + Block <= Pages * Block
  BY <1>1, <1>2
<1>5. p # q => p * Block + Block <= q * Block \/ q * Block + Block <= p * Block
  BY <1>1, <1>2
<1> QED BY <1>1, <1>3, <1>4, <1>5 DEF Base, Size

LEMMA InitEInv == Init => EInv
BY EepromAssumption DEF Init, EInv, Types, Alone, Cycle, Written, Durable, Busy, NoUnits, PageNumbers

\* The end of a write cycle changes the running write's block only.
LEMMA ProgramEInv ==
  ASSUME EInv, Program
  PROVE  EInv'
<1>1. /\ UNCHANGED <<owner, pc, page, cut, history>> /\ Busy /\ ~Busy'
      /\ DOMAIN cycle' = {} /\ DOMAIN mem' = DOMAIN mem
      /\ \A a \in DOMAIN mem : mem'[a] = IF a \in DOMAIN cycle THEN cycle[a] ELSE mem[a]
  BY DEF Program, Busy, NoUnits
<1>2. PICK t \in Tasks : owner = t /\ pc[t] = "delay"
  BY <1>1 DEF EInv, Alone
<1>3. begun[page] # {} /\ page \in PageNumbers
  BY <1>2 DEF EInv, Written, Types
<1>4. Types' /\ Alone' /\ Cycle'
  BY <1>1 DEF EInv, Types, Alone, Cycle, history
<1>5. Written'
  <2> SUFFICES ASSUME NEW s \in Tasks, pc[s] \in {"send", "delay"}
               PROVE  /\ begun[page] # {}
                      /\ pc[s] = "delay" /\ ~cut => \A i \in Places :
                           mem'[Base(page) + (i - 1)] = Unit(writes, page, i)
    BY <1>1 DEF Written, history, Unit
  <2> QED BY <1>1, <1>3, PagesApart DEF EInv, Types, Written
<1>6. Durable'
  <2> SUFFICES ASSUME NEW p \in PageNumbers, latest[p] > 0, begun[p] = {}, NEW i \in Places
               PROVE  mem'[Base(p) + i - 1] = Unit(latest[p], p, i)
    BY <1>1 DEF Durable, history, PageNumbers, Places, Unit
  <2>1. mem[Base(p) + i - 1] = Unit(latest[p], p, i)
    BY DEF EInv, Durable, PageNumbers, Places
  <2>2. Base(p) + i - 1 = Base(p) + (i - 1)
    BY EepromAssumption DEF Base, PageNumbers, Places, Crc
  <2>3. Base(p) + (i - 1) \notin DOMAIN cycle
    BY <1>3, PagesApart DEF EInv, Cycle
  <2> QED BY <1>1, <2>1, <2>2, <2>3, <1>3, PagesApart DEF EInv, Types
<1> QED BY <1>4, <1>5, <1>6 DEF EInv

\* Power is lost: what has not been programmed is of a write that had not returned.
LEMMA PowerEInv ==
  ASSUME EInv, LosePower
  PROVE  EInv'
<1>1. /\ UNCHANGED <<page, history>> /\ ~Busy' /\ owner' = NoTask /\ cut' = FALSE
      /\ pc' = [t \in Tasks |-> "idle"]
      /\ DOMAIN cycle' = {} /\ DOMAIN mem' = DOMAIN mem
      /\ \A a \in DOMAIN mem : a \notin DOMAIN cycle => mem'[a] = mem[a]
  BY DEF LosePower, Busy, NoUnits
<1>2. Types' /\ Alone' /\ Cycle' /\ Written'
  BY <1>1 DEF EInv, Types, Alone, Cycle, Written, history
<1>3. DOMAIN cycle # {} => begun[page] # {}
  BY DEF EInv, Alone, Written, Busy
<1>4. Durable'
  <2> SUFFICES ASSUME NEW p \in PageNumbers, latest[p] > 0, begun[p] = {}, NEW i \in Places
               PROVE  mem'[Base(p) + i - 1] = Unit(latest[p], p, i)
    BY <1>1 DEF Durable, history, PageNumbers, Places, Unit
  <2>1. mem[Base(p) + i - 1] = Unit(latest[p], p, i)
    BY DEF EInv, Durable, PageNumbers, Places
  <2>2. Base(p) + i - 1 = Base(p) + (i - 1)
    BY EepromAssumption DEF Base, PageNumbers, Places, Crc
  <2>3. Base(p) + (i - 1) \notin DOMAIN cycle
    BY <1>3, PagesApart DEF EInv, Cycle, Types
  <2>4. Base(p) + (i - 1) \in DOMAIN mem
    BY PagesApart DEF EInv, Types
  <2> QED BY <1>1, <2>1, <2>2, <2>3, <2>4
<1> QED BY <1>2, <1>4 DEF EInv

\* A call of readFromMemory() changes no block, nor one that begins.
LEMMA QuietEInv ==
  ASSUME EInv, NEW t \in Tasks,
         Locate(t) \/ Fetch(t) \/ Check(t) \/ \E p \in PageNumbers : BeginRead(t, p)
  PROVE  EInv'
<1>1. /\ UNCHANGED <<mem, cycle, history>> /\ ~Busy /\ Busy' = Busy
      /\ \A s \in Tasks : pc[s] # "idle" => s = t
      /\ \A s \in Tasks \ {t} : pc'[s] = pc[s]
      /\ pc'[t] \in {"idle", "locate", "fetch", "check"}
      /\ owner' = (IF pc'[t] = "idle" THEN NoTask ELSE t)
      /\ pc' \in [Tasks -> {"idle", "send", "delay", "locate", "fetch", "check"}]
      /\ page' \in PageNumbers /\ cut' \in BOOLEAN
  BY EepromAssumption DEF EInv, Types, Alone, Locate, Fetch, Check, BeginRead, Cut, Busy, history, device, Locked, PageNumbers
<1>2. Types' /\ Alone' /\ Cycle' /\ Written'
  BY <1>1 DEF EInv, Types, Alone, Cycle, Written, history, Busy
<1>3. Durable'
  BY <1>1 DEF EInv, Durable, history
<1> QED BY <1>2, <1>3 DEF EInv

\* writeToMemory() up to its i2c->write().
LEMMA BeginEInv ==
  ASSUME EInv, NEW t \in Tasks, NEW p \in PageNumbers, BeginWrite(t, p)
  PROVE  EInv'
<1>1. /\ UNCHANGED <<mem, cycle, latest>> /\ ~Busy /\ ~Busy'
      /\ \A s \in Tasks \ {t} : pc'[s] = "idle"
      /\ pc'[t] = "send" /\ owner' = t /\ page' = p /\ cut' = FALSE /\ writes' \in Nat
      /\ pc' \in [Tasks -> {"idle", "send", "delay", "locate", "fetch", "check"}]
      /\ DOMAIN begun' = PageNumbers /\ begun'[p] # {}
      /\ \A q \in PageNumbers \ {p} : begun'[q] = begun[q]
  BY EepromAssumption DEF EInv, Types, Alone, BeginWrite, Busy, device, Locked
<1>2. DOMAIN cycle = {} /\ DOMAIN cycle' = {}
  BY <1>1 DEF Busy
<1>3. Types' /\ Alone' /\ Cycle' /\ Written'
  BY <1>1, <1>2 DEF EInv, Types, Alone, Cycle, Written
<1>4. Durable'
  BY <1>1 DEF EInv, Durable, PageNumbers
<1> QED BY <1>3, <1>4 DEF EInv

\* i2c->write(): a transfer that is not cut gives the memory the whole block.
LEMMA SendEInv ==
  ASSUME EInv, NEW t \in Tasks, Send(t)
  PROVE  EInv'
<1>1. /\ UNCHANGED <<owner, page, mem, history>> /\ pc[t] = "send" /\ ~Busy
      /\ pc' = [pc EXCEPT ![t] = "delay"]
      /\ page \in PageNumbers /\ begun[page] # {} /\ owner = t
      /\ \A s \in Tasks \ {t} : pc[s] = "idle"
  BY EepromAssumption DEF EInv, Types, Alone, Written, Send
<1>2. PICK k \in 0..FrameUnits :
        /\ cut' = (cut \/ k < FrameUnits)
        /\ k < AddressUnits => cycle' = cycle
        /\ ~(k < AddressUnits) =>
             cycle' = [a \in {Base(page) + (i - 1) : i \in 1..(k - AddressUnits)} |->
                         Unit(writes, page, a - Base(page) + 1)]
  BY <1>1 DEF Send, Cut, Taken
<1>3. Length \in Nat \ {0} /\ Base(page) \in Nat /\ FrameUnits = Length + Crc + 1
      /\ Length + Crc \in Nat /\ AddressUnits = 1
  BY EepromAssumption, <1>1, SMTT(20) DEF Base, PageNumbers, FrameUnits, AddressUnits, Crc
<1>4. Cycle'
  <2>1. CASE k < AddressUnits
    BY <1>1, <1>2, <2>1 DEF Cycle, Busy
  <2>2. CASE ~(k < AddressUnits)
    <3>1. 1..(k - AddressUnits) \subseteq Places
      BY <1>2, <1>3, <2>2 DEF Places
    <3>2. DOMAIN cycle' = {Base(page) + (i - 1) : i \in 1..(k - AddressUnits)}
      BY <1>2, <2>2
    <3>3. \A a \in DOMAIN cycle' : \E i \in Places : a = Base(page) + (i - 1)
      BY <3>1, <3>2
    <3> QED BY <1>1, <3>3 DEF Cycle, Base
  <2> QED BY <2>1, <2>2
<1>5. Types' /\ Alone'
  BY <1>1, <1>2 DEF EInv, Types, Alone, history
<1>6. Written'
  <2>1. ASSUME ~cut', NEW i \in Places
        PROVE  /\ Base(page) + (i - 1) \in DOMAIN cycle'
               /\ cycle'[Base(page) + (i - 1)] = Unit(writes, page, i)
    <3>1. k = FrameUnits
      <4>1. ~(k < FrameUnits)
        BY <1>2, <2>1, Zenon
      <4> QED BY <1>3, <4>1
    <3>2. k - AddressUnits = Length + Crc /\ ~(k < AddressUnits)
      BY <1>3, <3>1
    <3>3. cycle' = [a \in {Base(page) + (j - 1) : j \in Places} |->
                      Unit(writes, page, a - Base(page) + 1)]
      BY <1>2, <3>2 DEF Places
    <3> DEFINE b == Base(page)
               x == b + (i - 1)
    <3>4. x - b + 1 = i
      BY <1>3 DEF Places
    <3>5. x \in DOMAIN cycle' /\ cycle'[x] = Unit(writes, page, x - b + 1)
      BY <3>3
    <3> QED BY <3>4, <3>5
  <2>2. ~cut' => Busy'
    <3>1. 1 \in Places
      BY <1>3 DEF Places, Crc
    <3> QED BY <2>1, <3>1 DEF Busy
  <2> QED BY <1>1, <2>1, <2>2 DEF Written, history, Base, Unit
<1>7. Durable'
  BY <1>1 DEF EInv, Durable, history
<1> QED BY <1>4, <1>5, <1>6, <1>7 DEF EInv

\* The end of writeToMemory(), when the delay has covered the write cycle.
LEMMA WakeEInv ==
  ASSUME DelayCovers, EInv, NEW t \in Tasks, Wake(t)
  PROVE  EInv'
<1>1. /\ UNCHANGED <<page, cut, mem, cycle, writes>> /\ pc[t] = "delay" /\ ~Busy /\ ~Busy'
      /\ owner' = NoTask /\ pc' = [pc EXCEPT ![t] = "idle"]
      /\ page \in PageNumbers /\ writes \in Nat
      /\ \A s \in Tasks \ {t} : pc[s] = "idle"
  BY EepromAssumption DEF EInv, Types, Alone, Wake, device, Busy
<1>2. /\ DOMAIN latest' = PageNumbers /\ DOMAIN begun' = PageNumbers
      /\ \A q \in PageNumbers \ {page} : latest'[q] = latest[q] /\ begun'[q] = begun[q]
      /\ cut => latest' = latest /\ begun' = begun
      /\ ~cut => latest'[page] = writes
  BY <1>1 DEF Wake, EInv, Types
<1>3. DOMAIN cycle' = {}
  BY <1>1 DEF Busy
<1>4. Types' /\ Alone' /\ Cycle' /\ Written'
  BY <1>1, <1>2, <1>3 DEF EInv, Types, Alone, Cycle, Written
<1>5. ASSUME ~cut, NEW i \in Places PROVE mem[Base(page) + (i - 1)] = Unit(writes, page, i)
  BY <1>1, <1>5 DEF EInv, Written
<1>6. ASSUME NEW i \in Places PROVE Base(page) + i - 1 = Base(page) + (i - 1)
  BY <1>1, EepromAssumption, SMTT(20) DEF Base, PageNumbers, Places, Crc
<1>7. Durable'
  <2> SUFFICES ASSUME NEW p \in PageNumbers, latest'[p] > 0, begun'[p] = {}, NEW i \in Places
               PROVE  mem[Base(p) + i - 1] = Unit(latest'[p], p, i)
    BY <1>1 DEF Durable, PageNumbers, Places, Unit
  <2>1. CASE p = page /\ ~cut
    BY <1>2, <1>5, <1>6, <2>1
  <2>2. CASE p # page \/ cut
    BY <1>2, <2>2 DEF EInv, Durable, PageNumbers, Places
  <2> QED BY <2>1, <2>2
<1> QED BY <1>4, <1>7 DEF EInv

LEMMA StepEInv ==
  ASSUME DelayCovers, EInv, [Next]_vars
  PROVE  EInv'
<1>1. CASE UNCHANGED vars
  BY <1>1 DEF vars, EInv, Types, Alone, Cycle, Written, Durable, Busy
<1> QED BY <1>1, ProgramEInv, PowerEInv, QuietEInv, BeginEInv, SendEInv, WakeEInv
        DEF Next, Step, PageNumbers

\* A block whose writeToMemory() has returned is in the memory whole, through
\* writes of other pages, refused transfers and power losses.
THEOREM DurableCorrect ==
  ASSUME DelayCovers PROVE Spec => []Durable
<1>1. EInv => Durable
  BY DEF EInv
<1> QED BY <1>1, InitEInv, StepEInv, PTL DEF Spec
---------------------------------------------------------------------------
(***************************************************************************)
(* What a read gives: where the units of the memory and of buffer[64] come *)
(* from.                                                                   *)
(***************************************************************************)
\* Writes are counted, and a page knows those of its own.
Numbers == \A p \in PageNumbers : latest[p] \in 0..writes /\ begun[p] \subseteq 1..writes

\* The writes whose units page p may hold.
Known(p) == {latest[p]} \union begun[p]

\* A unit of the memory is from the last whole write of its page or from one
\* begun since, and stands at its place; or it has been lost.
Sources == \A p \in PageNumbers : \A i \in Places :
  \/ mem[Base(p) + (i - 1)] = Garbage
  \/ \E n \in Known(p) : mem[Base(p) + (i - 1)] = Unit(n, p, i)

\* What is being programmed is of the running write, which has begun.
Programmed == \A t \in Tasks : pc[t] \in {"send", "delay"} =>
  /\ writes \in begun[page]
  /\ \A i \in Places : Base(page) + (i - 1) \in DOMAIN cycle =>
       cycle[Base(page) + (i - 1)] = Unit(writes, page, i)

\* A read that was not cut has the block of its page in its buffer.
Fetched ==
  /\ buffer = [i \in Places |-> buffer[i]]
  /\ \A t \in Tasks : ~cut =>
       /\ pc[t] = "fetch" => pointer = Base(page)
       /\ pc[t] = "check" => \A i \in Places : buffer[i] = mem[Base(page) + (i - 1)]

SourceInv == Numbers /\ Sources /\ Programmed /\ Fetched

\* Sources in the next state, when the memory does not change.
LEMMA SourcesNow ==
  ASSUME mem' = mem,
         \A q \in PageNumbers : \A i \in Places :
           \/ mem[Base(q) + (i - 1)] = Garbage
           \/ \E n \in {latest'[q]} \union begun'[q] : mem[Base(q) + (i - 1)] = Unit(n, q, i)
  PROVE  Sources'
<1> SUFFICES ASSUME NEW q \in PageNumbers, NEW i \in Places
             PROVE  \/ mem'[Base(q) + (i - 1)] = Garbage
                    \/ \E n \in {latest'[q]} \union begun'[q] : mem'[Base(q) + (i - 1)] = Unit(n, q, i)
  BY DEF Sources, Known, Unit, Garbage
<1> QED OBVIOUS

LEMMA InitSourceInv == Init => SourceInv
<1> SUFFICES ASSUME Init PROVE SourceInv
  OBVIOUS
<1>1. Numbers
  BY DEF Init, Numbers, PageNumbers
<1>2. Sources
  BY PagesApart DEF Init, Sources
<1>3. Programmed /\ Fetched
  BY DEF Init, Programmed, Fetched, Unread, Places
<1> QED BY <1>1, <1>2, <1>3 DEF SourceInv

\* A unit that is programmed, or was when power failed, has its source.
LEMMA CycleSource ==
  ASSUME EInv, SourceInv, NEW p \in PageNumbers, NEW i \in Places,
         Base(p) + (i - 1) \in DOMAIN cycle
  PROVE  \E n \in Known(p) : cycle[Base(p) + (i - 1)] = Unit(n, p, i)
<1>1. Busy
  BY DEF Busy
<1>2. owner \in Tasks /\ pc[owner] = "delay" /\ page \in PageNumbers
  BY <1>1 DEF EInv, Alone, Types
<1>3. PICK j \in Places : Base(p) + (i - 1) = Base(page) + (j - 1)
  BY DEF EInv, Cycle
<1>4. p = page /\ i = j
  BY <1>2, <1>3, PagesApart
<1> QED BY <1>2, <1>4 DEF SourceInv, Programmed, Known

\* The end of a write cycle, and its end by a loss of power.
LEMMA CycleOverSource ==
  ASSUME EInv, SourceInv, Program \/ LosePower
  PROVE  SourceInv'
<1>1. /\ UNCHANGED history /\ DOMAIN cycle' = {} /\ UNCHANGED page
      /\ \A a \in DOMAIN mem : \/ mem'[a] \in {mem[a], Garbage}
                               \/ a \in DOMAIN cycle /\ mem'[a] = cycle[a]
  <2>1. CASE Program
    BY <2>1 DEF Program, NoUnits
  <2>2. CASE LosePower
    BY <2>2 DEF LosePower, NoUnits
  <2> QED BY <2>1, <2>2
<1>2. Numbers'
  BY <1>1 DEF SourceInv, Numbers, history
<1>3. Sources'
  <2> SUFFICES ASSUME NEW p \in PageNumbers, NEW i \in Places
               PROVE  \/ mem'[Base(p) + (i - 1)] = Garbage
                      \/ \E n \in Known(p) : mem'[Base(p) + (i - 1)] = Unit(n, p, i)
    BY <1>1 DEF Sources, Known, history, Unit, Garbage
  <2>1. Base(p) + (i - 1) \in DOMAIN mem
    BY PagesApart DEF EInv, Types
  <2>2. \/ mem[Base(p) + (i - 1)] = Garbage
        \/ \E n \in Known(p) : mem[Base(p) + (i - 1)] = Unit(n, p, i)
    BY DEF SourceInv, Sources
  <2> QED BY <1>1, <2>1, <2>2, CycleSource
<1>4. Programmed'
  <2>1. \A t \in Tasks : pc'[t] \in {"send", "delay"} => pc[t] \in {"send", "delay"}
    BY DEF Program, LosePower
  <2> QED BY <1>1, <2>1 DEF SourceInv, Programmed, history
<1>5. Fetched'
  <2>1. CASE Program
    <3>1. /\ Busy /\ UNCHANGED <<pc, page, buffer, pointer, cut>>
      BY <2>1 DEF Program
    <3>2. \A t \in Tasks : pc[t] \notin {"fetch", "check"}
      BY <3>1 DEF EInv, Alone
    <3> QED BY <3>1, <3>2 DEF SourceInv, Fetched
  <2>2. CASE LosePower
    <3>1. buffer' = Unread /\ pc' = [t \in Tasks |-> "idle"]
      BY <2>2 DEF LosePower
    <3> QED BY <3>1 DEF Fetched, Unread, Places
  <2> QED BY <2>1, <2>2
<1> QED BY <1>2, <1>3, <1>4, <1>5 DEF SourceInv

\* The beginning of a call: its number is new, its transfers are to come.
LEMMA BeginSource ==
  ASSUME EInv, SourceInv, NEW t \in Tasks, NEW p \in PageNumbers,
         BeginWrite(t, p) \/ BeginRead(t, p)
  PROVE  SourceInv'
<1>1. /\ owner = NoTask /\ UNCHANGED <<mem, cycle, pointer, latest>> /\ page' = p
      /\ \A s \in Tasks : pc[s] = "idle"
  BY EepromAssumption DEF EInv, Alone, Types, BeginWrite, BeginRead, device, history, Locked
<1>2. ~Busy /\ DOMAIN cycle' = {}
  BY <1>1, EepromAssumption DEF EInv, Alone, Busy
<1>3. /\ \A q \in PageNumbers : begun[q] \subseteq begun'[q]
      /\ \A q \in PageNumbers : begun'[q] \subseteq begun[q] \union {writes'}
      /\ writes \in Nat /\ writes' \in {writes, writes + 1}
      /\ \A s \in Tasks : pc'[s] \in {"send", "delay"} => writes' \in begun'[page'] /\ writes' = writes + 1
      /\ (\E q \in PageNumbers : begun'[q] # begun[q]) => writes' = writes + 1
  <2>0. writes \in Nat /\ DOMAIN begun = PageNumbers
    BY DEF EInv, Types
  <2>1. CASE BeginWrite(t, p)
    <3>1. writes' = writes + 1 /\ begun' = [begun EXCEPT ![p] = @ \union {writes + 1}]
      BY <2>1 DEF BeginWrite
    <3>2. begun'[p] = begun[p] \union {writes + 1}
          /\ \A q \in PageNumbers \ {p} : begun'[q] = begun[q]
      BY <2>0, <3>1
    <3> QED BY <1>1, <2>0, <3>1, <3>2
  <2>2. CASE BeginRead(t, p)
    <3>1. UNCHANGED <<writes, begun>> /\ pc' = [pc EXCEPT ![t] = "locate"]
      BY <2>2 DEF BeginRead, history
    <3>2. \A s \in Tasks : pc'[s] \notin {"send", "delay"}
      BY <1>1, <3>1 DEF EInv, Types
    <3> QED BY <2>0, <3>1, <3>2
  <2> QED BY <2>1, <2>2
<1>4. Numbers'
  <2>1. ASSUME NEW q \in PageNumbers
        PROVE  latest[q] \in 0..writes' /\ begun'[q] \subseteq 1..writes'
    <3>1. latest[q] \in 0..writes /\ begun[q] \subseteq 1..writes
      BY DEF SourceInv, Numbers
    <3>2. 0..writes \subseteq 0..writes' /\ 1..writes \subseteq 1..writes'
      BY <1>3
    <3>3. begun'[q] = begun[q] \/ (writes' = writes + 1 /\ begun'[q] \subseteq begun[q] \union {writes'})
      BY <1>3
    <3>4. writes' = writes + 1 => writes' \in 1..writes'
      BY <1>3
    <3> QED BY <3>1, <3>2, <3>3, <3>4
  <2> QED BY <1>1, <2>1 DEF Numbers
<1>5. Sources'
  <2>1. \A q \in PageNumbers : Known(q) \subseteq {latest'[q]} \union begun'[q]
    BY <1>1, <1>3 DEF Known
  <2>2. ASSUME NEW q \in PageNumbers, NEW i \in Places
        PROVE  \/ mem[Base(q) + (i - 1)] = Garbage
               \/ \E n \in {latest'[q]} \union begun'[q] : mem[Base(q) + (i - 1)] = Unit(n, q, i)
    BY <2>1 DEF SourceInv, Sources
  <2> QED BY <1>1, <2>2, SourcesNow
<1>6. Programmed'
  BY <1>2, <1>3 DEF Programmed
<1>7. Fetched'
  <2>1. buffer' = [i \in Places |-> buffer'[i]]
    BY DEF BeginWrite, BeginRead, SourceInv, Fetched, Unread, Places
  <2>2. PICK at \in {"send", "locate"} : pc' = [pc EXCEPT ![t] = at]
    BY DEF BeginWrite, BeginRead
  <2>3. \A s \in Tasks : pc'[s] \notin {"fetch", "check"}
    BY <1>1, <2>2 DEF EInv, Types
  <2> QED BY <2>1, <2>3 DEF Fetched
<1> QED BY <1>4, <1>5, <1>6, <1>7 DEF SourceInv

\* i2c->write(): the memory begins to program units of the running write.
LEMMA SendSource ==
  ASSUME EInv, SourceInv, NEW t \in Tasks, Send(t)
  PROVE  SourceInv'
<1>1. /\ UNCHANGED <<page, mem, buffer, history>> /\ pc[t] = "send" /\ ~Busy
      /\ pc' = [pc EXCEPT ![t] = "delay"] /\ page \in PageNumbers
      /\ \A s \in Tasks \ {t} : pc[s] = "idle"
  BY EepromAssumption DEF EInv, Types, Alone, Send
<1>2. PICK k \in 0..FrameUnits :
        \/ cycle' = cycle
        \/ cycle' = [a \in {Base(page) + (i - 1) : i \in 1..(k - AddressUnits)} |->
                       Unit(writes, page, a - Base(page) + 1)]
  BY <1>1 DEF Send, Taken
<1>3. Base(page) \in Int
  BY EepromAssumption, <1>1, SMTT(20) DEF Base, PageNumbers
<1>4. ASSUME NEW i \in Places, Base(page) + (i - 1) \in DOMAIN cycle'
      PROVE  cycle'[Base(page) + (i - 1)] = Unit(writes, page, i)
  <2> DEFINE b == Base(page)
             x == b + (i - 1)
  <2>1. cycle' # cycle
    BY <1>1, <1>4 DEF Busy
  <2>2. cycle'[x] = Unit(writes, page, x - b + 1)
    BY <1>2, <1>4, <2>1
  <2>3. x - b + 1 = i
    BY <1>3 DEF Places
  <2> QED BY <2>2, <2>3
<1>5. Programmed'
  <2>1. writes \in begun[page]
    BY <1>1 DEF SourceInv, Programmed
  <2> QED BY <1>1, <1>4, <2>1 DEF Programmed, history, Base, Unit
<1>6. Fetched'
  <2>1. \A s \in Tasks : pc'[s] \notin {"fetch", "check"}
    BY <1>1 DEF EInv, Types
  <2> QED BY <1>1, <2>1 DEF SourceInv, Fetched
<1> QED BY <1>1, <1>5, <1>6 DEF SourceInv, Numbers, Sources, Known, history, Base, Unit, Garbage

\* The end of writeToMemory(): a page that was taken whole has the units of
\* this write only.
LEMMA WakeSource ==
  ASSUME DelayCovers, EInv, SourceInv, NEW t \in Tasks, Wake(t)
  PROVE  SourceInv'
<1>1. /\ UNCHANGED <<page, cut, mem, buffer, pointer, writes>> /\ pc[t] = "delay" /\ ~Busy
      /\ pc' = [pc EXCEPT ![t] = "idle"] /\ page \in PageNumbers /\ writes \in Nat
      /\ \A s \in Tasks \ {t} : pc[s] = "idle"
  BY EepromAssumption DEF EInv, Types, Alone, Wake, device
<1>2. \A s \in Tasks : pc'[s] = "idle"
  BY <1>1 DEF EInv, Types
<1>3. /\ \A q \in PageNumbers \ {page} : latest'[q] = latest[q] /\ begun'[q] = begun[q]
      /\ cut => latest' = latest /\ begun' = begun
      /\ ~cut => latest'[page] = writes /\ begun'[page] = {}
  BY <1>1 DEF Wake, EInv, Types
<1>4. Numbers'
  <2>1. ASSUME NEW q \in PageNumbers PROVE latest'[q] \in 0..writes /\ begun'[q] \subseteq 1..writes
    <3>1. latest[q] \in 0..writes /\ begun[q] \subseteq 1..writes
      BY DEF SourceInv, Numbers
    <3> QED BY <1>1, <1>3, <3>1
  <2> QED BY <1>1, <2>1 DEF Numbers
<1>5. Sources'
  <2>1. ASSUME NEW q \in PageNumbers, NEW i \in Places
        PROVE  \/ mem[Base(q) + (i - 1)] = Garbage
               \/ \E n \in {latest'[q]} \union begun'[q] : mem[Base(q) + (i - 1)] = Unit(n, q, i)
    <3>1. CASE q = page /\ ~cut
      <4>1. mem[Base(page) + (i - 1)] = Unit(writes, page, i)
        BY <1>1, <3>1 DEF EInv, Written
      <4> QED BY <1>3, <3>1, <4>1
    <3>2. CASE q # page \/ cut
      BY <1>3, <3>2 DEF SourceInv, Sources, Known
    <3> QED BY <3>1, <3>2
  <2> QED BY <1>1, <2>1, SourcesNow
<1>6. Programmed'
  BY <1>2 DEF Programmed
<1>7. Fetched'
  BY <1>1, <1>2 DEF SourceInv, Fetched
<1> QED BY <1>4, <1>5, <1>6, <1>7 DEF SourceInv

\* An address of the device is its own remainder.
LEMMA Inside ==
  ASSUME NEW n \in Nat \ {0}, NEW x \in 0..(n - 1)
  PROVE  x % n = x
BY SMTT(20)

\* readFromMemory() after its beginning: the address, the block, the CRC.
LEMMA ReadSource ==
  ASSUME EInv, SourceInv, NEW t \in Tasks, Locate(t) \/ Fetch(t) \/ Check(t)
  PROVE  SourceInv'
<1>1. /\ UNCHANGED <<page, mem, cycle, history>> /\ pc[t] \in {"locate", "fetch", "check"}
      /\ ~Busy /\ page \in PageNumbers
      /\ \A s \in Tasks \ {t} : pc[s] = "idle" /\ pc'[s] = "idle"
  BY EepromAssumption DEF EInv, Types, Alone, Locate, Fetch, Check, device
<1>2. Numbers' /\ Sources'
  BY <1>1 DEF SourceInv, Numbers, Sources, Known, history, Base, Unit, Garbage
<1>3. pc'[t] \in {"fetch", "check", "idle"}
  BY DEF EInv, Types, Locate, Fetch, Check
<1>4. Programmed'
  BY <1>1, <1>3 DEF Programmed
<1>5. Fetched'
  <2>1. CASE Locate(t)
    <3>1. PICK k \in 0..AddressUnits :
            /\ cut' = (cut \/ k < AddressUnits)
            /\ pointer' = IF k = AddressUnits THEN Base(page) ELSE pointer
      BY <1>1, <2>1 DEF Locate, Taken, Cut
    <3>2. ~cut' => pointer' = Base(page)
      <4>1. ~cut' => ~(k < AddressUnits)
        BY <3>1, Zenon
      <4> QED BY <3>1, <4>1 DEF AddressUnits
    <3>3. buffer' = buffer /\ pc'[t] = "fetch"
      BY <2>1 DEF Locate, EInv, Types
    <3> QED BY <1>1, <3>2, <3>3 DEF SourceInv, Fetched, Base
  <2>2. CASE Fetch(t)
    <3>1. PICK k \in 0..(Length + Crc) :
            /\ cut' = (cut \/ k < Length + Crc)
            /\ buffer' = [i \in DOMAIN buffer |->
                            IF i <= k THEN mem[(pointer + (i - 1)) % Size] ELSE buffer[i]]
      BY <1>1, <2>2 DEF Fetch, Taken, Cut
    <3>2. DOMAIN buffer = Places
      BY DEF SourceInv, Fetched
    <3>3. buffer' = [i \in Places |-> buffer'[i]]
      BY <3>1, <3>2
    <3>4. ASSUME ~cut', NEW i \in Places PROVE buffer'[i] = mem[Base(page) + (i - 1)]
      <4>1. ~cut /\ k = Length + Crc
        <5>1. ~cut /\ ~(k < Length + Crc)
          BY <3>1, <3>4, Zenon
        <5> QED BY <5>1, EepromAssumption DEF Crc
      <4>2. pointer = Base(page)
        BY <2>2, <4>1 DEF Fetch, SourceInv, Fetched
      <4>3. Base(page) + (i - 1) \in 0..(Size - 1)
        BY <1>1, PagesApart
      <4>4. Size \in Nat \ {0}
        BY EepromAssumption, SMTT(20) DEF Size
      <4>5. (Base(page) + (i - 1)) % Size = Base(page) + (i - 1)
        BY <4>3, <4>4, Inside
      <4>6. i <= k
        BY <4>1 DEF Places
      <4> QED BY <3>1, <3>2, <4>2, <4>5, <4>6
    <3>5. pc'[t] = "check"
      BY <2>2 DEF Fetch, EInv, Types
    <3> QED BY <1>1, <3>3, <3>4, <3>5 DEF Fetched, Base
  <2>3. CASE Check(t)
    <3>1. buffer' = buffer /\ pc'[t] = "idle"
      BY <2>3 DEF Check, EInv, Types
    <3> QED BY <1>1, <3>1 DEF SourceInv, Fetched
  <2> QED BY <2>1, <2>2, <2>3
<1> QED BY <1>2, <1>4, <1>5 DEF SourceInv

LEMMA StepSourceInv ==
  ASSUME DelayCovers, EInv, SourceInv, [Next]_vars
  PROVE  SourceInv'
<1>1. CASE UNCHANGED vars
  <2>1. Numbers' /\ Fetched'
    BY <1>1 DEF vars, SourceInv, Numbers, Fetched, Base
  <2>2. Programmed'
    BY <1>1 DEF vars, SourceInv, Programmed, Base, Unit
  <2>3. Sources'
    BY <1>1, SourcesNow DEF vars, SourceInv, Sources, Known
  <2> QED BY <2>1, <2>2, <2>3 DEF SourceInv
<1> QED BY <1>1, CycleOverSource, BeginSource, SendSource, WakeSource, ReadSource
        DEF Next, Step, PageNumbers

\* A block whose CRC is right is copied out whole.
LEMMA Copied ==
  ASSUME NEW n, NEW p, buffer = [i \in Places |-> Unit(n, p, i)]
  PROVE  /\ SubSeq(buffer, 1, Length) = [i \in 1..Length |-> Unit(n, p, i)]
         /\ SubSeq(buffer, 1, Length) # Zeros
<1> DEFINE S == {Unit(n, p, i) : i \in Places}
<1>1. Length \in Nat \ {0} /\ Length + Crc \in Nat /\ Length + Crc = Length + 1
  BY EepromAssumption DEF Crc
<1>2. buffer \in Seq(S) /\ Len(buffer) = Length + Crc
  BY <1>1 DEF Places
<1>3. 1 \in 1..(Len(buffer) + 1) /\ Length \in (1 - 1)..Len(buffer)
  BY <1>1, <1>2
<1>4. /\ SubSeq(buffer, 1, Length) \in Seq(S)
      /\ Len(SubSeq(buffer, 1, Length)) = Length
      /\ \A i \in 1..Length : SubSeq(buffer, 1, Length)[i] = buffer[i]
  <2>1. \A i \in 1..(Length - 1 + 1) : SubSeq(buffer, 1, Length)[i] = buffer[1 + i - 1]
    BY <1>2, <1>3, SubSeqProperties
  <2>2. /\ SubSeq(buffer, 1, Length) \in Seq(S)
        /\ Len(SubSeq(buffer, 1, Length)) = Length - 1 + 1
    BY <1>1, <1>2, <1>3, SubSeqProperties
  <2> QED BY <1>1, <2>1, <2>2
<1>5. \A i \in 1..Length : i \in Places
  BY <1>1 DEF Places
<1>6. SubSeq(buffer, 1, Length) = [i \in 1..Length |-> Unit(n, p, i)]
  BY <1>4, <1>5
<1>7. SubSeq(buffer, 1, Length) # <<>>
  BY <1>1, <1>4
<1> QED BY <1>6, <1>7 DEF Zeros

\* What Check() gives when no transfer of the read was cut.
LEMMA CheckIsCurrent ==
  ASSUME EInv, SourceInv, NEW t \in Tasks, Check(t), ~cut
  PROVE  IF data' = Zeros THEN latest[page] = 0 \/ begun[page] # {}
         ELSE \E n \in {latest[page]} \union begun[page] :
                data' = [i \in 1..Length |-> Unit(n, page, i)]
<1>1. /\ page \in PageNumbers /\ pc[t] = "check" /\ writes \in Nat
      /\ data' = IF CrcMatches(buffer) THEN SubSeq(buffer, 1, Length) ELSE Zeros
  BY DEF Check, EInv, Types
<1>2. /\ buffer = [i \in Places |-> buffer[i]]
      /\ \A i \in Places : buffer[i] = mem[Base(page) + (i - 1)]
  BY <1>1 DEF SourceInv, Fetched
<1>3. 1 \in Places
  BY EepromAssumption DEF Places, Crc
<1>4. CASE CrcMatches(buffer)
  <2>1. PICK n \in 1..writes, p \in PageNumbers : buffer = [i \in Places |-> Unit(n, p, i)]
    BY <1>4 DEF CrcMatches, Places, PageNumbers
  <2>2. mem[Base(page) + (1 - 1)] = Unit(n, p, 1)
    BY <1>2, <1>3, <2>1
  <2>3. Unit(n, p, 1) # Garbage
    BY <2>1 DEF Unit, Garbage
  <2>4. PICK m \in Known(page) : mem[Base(page) + (1 - 1)] = Unit(m, page, 1)
    BY <1>1, <1>3, <2>2, <2>3 DEF SourceInv, Sources
  <2>5. n = m /\ p = page
    BY <2>2, <2>4 DEF Unit
  <2>6. data' = [i \in 1..Length |-> Unit(n, page, i)] /\ data' # Zeros
    <3>1. /\ SubSeq(buffer, 1, Length) = [i \in 1..Length |-> Unit(n, p, i)]
          /\ SubSeq(buffer, 1, Length) # Zeros
      BY <2>1, Copied
    <3>2. data' = SubSeq(buffer, 1, Length)
      BY <1>1, <1>4
    <3> QED BY <2>5, <3>1, <3>2
  <2> QED BY <2>4, <2>5, <2>6 DEF Known
<1>5. CASE ~CrcMatches(buffer)
  <2>1. SUFFICES ASSUME latest[page] # 0, begun[page] = {} PROVE FALSE
    BY <1>1, <1>5
  <2>2. latest[page] \in 1..writes
    <3>1. latest[page] \in 0..writes
      BY <1>1 DEF SourceInv, Numbers
    <3> QED BY <1>1, <2>1, <3>1
  <2>3. \A i \in Places : mem[Base(page) + i - 1] = Unit(latest[page], page, i)
    BY <1>1, <2>1, <2>2 DEF EInv, Durable, PageNumbers, Places
  <2>4. \A i \in Places : Base(page) + i - 1 = Base(page) + (i - 1)
    BY <1>1, EepromAssumption, SMTT(20) DEF Base, PageNumbers, Places, Crc
  <2>5. buffer = [i \in Places |-> Unit(latest[page], page, i)]
    BY <1>2, <2>3, <2>4
  <2>6. CrcMatches(buffer)
    BY <1>1, <2>2, <2>5 DEF CrcMatches, Places, PageNumbers
  <2> QED BY <1>5, <2>6
<1> QED BY <1>4, <1>5

\* Unless a transfer of its own is cut, readFromMemory() gives the last whole
\* block of the page or one written since, never parts of two: the CRC and the
\* delay together make a write of a page atomic to its readers.
THEOREM ReadIsCurrentCorrect ==
  ASSUME DelayCovers PROVE Spec => ReadIsCurrent
<1> DEFINE Current == \A t \in Tasks : Check(t) /\ ~cut =>
             IF data' = Zeros THEN latest[page] = 0 \/ begun[page] # {}
             ELSE \E n \in {latest[page]} \union begun[page] :
                    data' = [i \in 1..Length |-> Unit(n, page, i)]
<1>1. EInv /\ SourceInv /\ [Next]_vars => EInv' /\ SourceInv'
  BY StepEInv, StepSourceInv
<1>2. EInv /\ SourceInv /\ [Next]_vars => [Current]_vars
  BY CheckIsCurrent
<1> HIDE DEF Current
<1>3. Spec => [][Current]_vars
  BY <1>1, <1>2, InitEInv, InitSourceInv, PTL DEF Spec
<1> QED BY <1>3 DEF ReadIsCurrent, Current
=============================================================================

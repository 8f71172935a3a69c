------------------------------ MODULE IPStack ------------------------------
(***************************************************************************)
(* The TCP client and its receive ring (src/ipstack/IPStack.cpp).  A task  *)
(* connects, writes, reads and disconnects as test_task does               *)
(* (src/ipstack/http_test.cpp); lwIP calls back for data, connection and   *)
(* error.  A callback is atomic for the task and comes between any two of  *)
(* its steps, as in the linked sys_freertos variant of cyw43_arch, whose   *)
(* own task makes the calls.                                               *)
(*                                                                         *)
(* A byte of the stream is its number in the order of arrival.             *)
(***************************************************************************)
EXTENDS Integers, Sequences

CONSTANTS
  BufSize,     \* BUF_SIZE (2048)
  Packets,     \* tot_len of the buffers that arrive
  Lens,        \* lengths the task reads
  MaxArrived,  \* bound: bytes that arrive
  Pcbs, NoPcb, \* lwIP's memory for connections, and nullptr
  MayReset,    \* a connection may be reset or time out
  MayFail      \* tcp_connect() may fail

ASSUME RingAssumption ==
  /\ BufSize \in Nat \ {0} /\ MaxArrived \in Nat
  /\ Packets \subseteq Nat \ {0} /\ Lens \subseteq Nat
ASSUME PcbAssumption == NoPcb \notin Pcbs
ASSUME VariantAssumption == {MayReset, MayFail} \subseteq BOOLEAN

VARIABLES
  \* the object
  tcp_pcb, connected, buffer, count, dropped, wr, rd,
  \* the task: where it is, how much it wants to read, and its locals
  pc, len, bytes_to_copy, first_copy, loaded,
  \* lwIP
  pcb,       \* state of each connection's memory
  \* observations that nothing in the code reads
  arrived,   \* bytes that have arrived
  stored,    \* how many of them went into the ring
  given,     \* the bytes that read() has copied out, over all reads
  forgot     \* a store to count has undone what a callback added to it

ring  == <<buffer, count, dropped, wr>>
local == <<len, bytes_to_copy, first_copy, loaded>>
conn  == <<tcp_pcb, connected, pcb>>
seen  == <<arrived, stored, given, forgot>>
vars  == <<ring, rd, local, conn, pc, seen>>

Smaller(a, b) == IF a < b THEN a ELSE b

Init ==
  /\ tcp_pcb = NoPcb /\ connected = FALSE
  /\ buffer = [i \in 0..(BufSize - 1) |-> 0]
  /\ count = 0 /\ dropped = 0 /\ wr = 0 /\ rd = 0
  /\ pc = "idle" /\ len = 0
  /\ bytes_to_copy = 0 /\ first_copy = 0 /\ loaded = 0
  /\ pcb = [p \in Pcbs |-> "free"]
  /\ arrived = 0 /\ stored = 0 /\ given = <<>> /\ forgot = FALSE

(***************************************************************************)
(* The task.                                                               *)
(***************************************************************************)
\* connect(): tcp_new_ip_type() may find no memory, tcp_connect() may fail.
Connect ==
  /\ pc = "idle"
  /\ \/ /\ \A p \in Pcbs : pcb[p] # "free"
        /\ tcp_pcb' = NoPcb
        /\ UNCHANGED <<pcb, pc>>
     \/ \E p \in Pcbs :
          /\ pcb[p] = "free" /\ tcp_pcb' = p
          /\ \/ pcb' = [pcb EXCEPT ![p] = "connecting"] /\ pc' = "write"
             \/ MayFail /\ pcb' = [pcb EXCEPT ![p] = "new"] /\ UNCHANGED pc
  /\ UNCHANGED <<ring, rd, local, connected, seen>>

\* write(): whatever tcp_write() and tcp_output() answer, test_task reads.
Write ==
  /\ pc = "write"
  /\ pc' = "called"
  /\ UNCHANGED <<ring, rd, local, tcp_pcb, connected, pcb, seen>>

Read ==
  /\ pc = "called"
  /\ pc' = "wait"
  /\ len' \in Lens
  /\ UNCHANGED <<ring, rd, bytes_to_copy, first_copy, loaded, conn, seen>>

\* The wait ends with enough bytes or with the time-out.
WaitOver ==
  /\ pc = "wait"
  /\ bytes_to_copy' = Smaller(count, len) /\ first_copy' = 0
  /\ pc' = IF bytes_to_copy' = 0 THEN "done" ELSE "copy"
  /\ UNCHANGED <<ring, rd, len, loaded, conn, seen>>

Chunk(from, n) == [i \in 1..n |-> buffer[from + i - 1]]

\* rd_end > BUF_SIZE: the first memcpy(), up to the end of the ring.
CopyFirst ==
  /\ pc = "copy" /\ rd + bytes_to_copy > BufSize
  /\ first_copy' = BufSize - rd
  /\ given' = given \o Chunk(rd, first_copy')
  /\ bytes_to_copy' = bytes_to_copy - first_copy'
  /\ pc' = "sub1"
  /\ UNCHANGED <<ring, rd, len, loaded, conn, arrived, stored, forgot>>

SlipCopyRest(n) == rd + n
CopyRest(n) == n

SlipBeginning == first_copy
Beginning == 0

\* The memcpy() of the rest from the beginning of the ring.
CopySecond ==
  /\ pc = "copy2"
  /\ given' = given \o Chunk(Beginning, bytes_to_copy)
  /\ rd' = CopyRest(bytes_to_copy)
  /\ pc' = "sub2"
  /\ UNCHANGED <<ring, len, bytes_to_copy, first_copy, loaded, conn, arrived, stored, forgot>>

\* The memcpy() of a read that does not wrap.
CopyWhole ==
  /\ pc = "copy" /\ rd + bytes_to_copy <= BufSize
  /\ given' = given \o Chunk(rd, bytes_to_copy)
  /\ rd' = (rd + bytes_to_copy) % BufSize
  /\ pc' = "sub2"
  /\ UNCHANGED <<ring, len, bytes_to_copy, first_copy, loaded, conn, arrived, stored, forgot>>

\* `count -= n` loads count ...
LoadCount ==
  /\ pc \in {"sub1", "sub2"}
  /\ loaded' = count
  /\ pc' = IF pc = "sub1" THEN "store1" ELSE "store2"
  /\ UNCHANGED <<ring, rd, len, bytes_to_copy, first_copy, conn, seen>>

\* ... and stores what is left, over what came in between.
StoreCount ==
  /\ \/ pc = "store1" /\ count' = loaded - first_copy /\ pc' = "copy2"
     \/ pc = "store2" /\ count' = loaded - bytes_to_copy /\ pc' = "done"
  /\ forgot' = (forgot \/ count # loaded)
  /\ UNCHANGED <<buffer, dropped, wr, rd, local, conn, arrived, stored, given>>

\* read() returns bytes_to_copy + first_copy; its locals are gone.
ReadReturn ==
  /\ pc = "done"
  /\ pc' = "called"
  /\ bytes_to_copy' = 0 /\ first_copy' = 0 /\ loaded' = 0
  /\ UNCHANGED <<ring, rd, len, conn, seen>>

\* disconnect(): tcp_close(), or tcp_abort() when that fails, frees the pcb.
Disconnect ==
  /\ pc = "called"
  /\ pcb' = [p \in Pcbs |-> IF p = tcp_pcb THEN "free" ELSE pcb[p]]
  /\ tcp_pcb' = NoPcb
  /\ pc' = "idle"
  /\ UNCHANGED <<ring, rd, local, connected, seen>>

(***************************************************************************)
(* lwIP and its callbacks.                                                 *)
(***************************************************************************)
\* tcp_client_connected()
Connected(p) ==
  /\ pcb[p] = "connecting"
  /\ pcb' = [pcb EXCEPT ![p] = "open"]
  /\ connected' = TRUE
  /\ UNCHANGED <<ring, rd, local, tcp_pcb, pc, seen>>

SlipAvailable == BufSize - count + 1
Available == BufSize - count

SecondOffset(n) == n

\* The ring after n bytes of the packet, from its offset off, are copied to
\* position from.
Filled(b, from, n, off) ==
  [i \in 0..(BufSize - 1) |-> IF i \in from..(from + n - 1)
                              THEN arrived + off + (i - from) + 1 ELSE b[i]]

\* tcp_client_recv() with a buffer of n bytes: as much as fits goes into the
\* ring, in two parts where it wraps.
Receive(p) ==
  /\ pcb[p] = "open"
  /\ \E n \in Packets :
       LET k     == Smaller(Available, n)
           wraps == wr + k > BufSize
           first == IF wraps THEN BufSize - wr ELSE 0
           start == IF wraps THEN 0 ELSE wr
           rest  == k - first
       IN /\ arrived + n <= MaxArrived
          /\ buffer' = Filled(Filled(buffer, wr, first, 0), start, rest,
                              SecondOffset(first))
          /\ wr' = (start + rest) % BufSize
          /\ count' = count + first + rest
          /\ dropped' = dropped + (n - k)
          /\ arrived' = arrived + n
          /\ stored' = stored + k
  /\ UNCHANGED <<rd, local, conn, pc, given, forgot>>

\* tcp_client_recv() without a buffer: the peer has closed, nothing is done.
PeerClosed(p) ==
  /\ pcb[p] = "open"
  /\ pcb' = [pcb EXCEPT ![p] = "peer_closed"]
  /\ UNCHANGED <<ring, rd, local, tcp_pcb, connected, pc, seen>>

\* tcp_client_err(): lwIP has freed the pcb; the callback only prints.
Error(p) ==
  /\ MayReset
  /\ pcb[p] \in {"connecting", "open", "peer_closed"}
  /\ pcb' = [pcb EXCEPT ![p] = "free"]
  /\ UNCHANGED <<ring, rd, local, tcp_pcb, connected, pc, seen>>

Reading == \/ WaitOver \/ CopyFirst \/ CopySecond \/ CopyWhole
           \/ LoadCount \/ StoreCount \/ ReadReturn

Lwip == \E p \in Pcbs : Connected(p) \/ Receive(p) \/ PeerClosed(p) \/ Error(p)

Next == Connect \/ Write \/ Read \/ Reading \/ Disconnect \/ Lwip

Spec == Init /\ [][Next]_vars

(***************************************************************************)
(* Properties.                                                             *)
(***************************************************************************)
\* The bytes a memcpy() of read() has taken that count still holds.
Copied ==
  CASE pc \in {"sub1", "store1"} -> first_copy
    [] pc \in {"sub2", "store2"} -> bytes_to_copy
    [] OTHER -> 0

\* The bytes of the ring are the last count before wr.
Inside == [i \in 1..count |-> buffer[(wr + BufSize - count + (i - 1)) % BufSize]]

Out == SubSeq(given, 1, Len(given) - Copied)

Channel == INSTANCE ByteChannel WITH
  Capacity <- BufSize, Burst <- MaxArrived, Loss <- {"entry"},
  inside <- Inside, out <- Out

\* What read() copies out are the bytes that arrived, in order and once, over
\* the wrap of the ring and in reads and packets of any size, and only the end
\* of a packet gets lost, when the ring is full -- as long as no callback of
\* lwIP comes between the load and the store of `count -= n`.
RingIsChannel ==
  Channel!Init /\ [][~forgot' => Channel!Next]_(Channel!vars)

\* read() is not between a memcpy() and the end of its `count -= n`.
Settled == pc \in {"idle", "write", "called", "wait", "copy", "done"}

\* "reduce count by copied bytes", "increment count by copied bytes": outside
\* these steps of read(), count bytes lie between rd and wr -- until such a
\* callback.
CountIsTrue == ~forgot /\ Settled => (rd + count) % BufSize = wr

\* No copy of read() or tcp_client_recv() leaves the buffer, whatever step a
\* callback comes between: also when count has lost bytes it is not below what
\* the running read() has yet to subtract, and never above the ring's size.
CopiesInRing ==
  /\ count \in 0..BufSize /\ {rd, wr} \subseteq 0..(BufSize - 1)
  /\ pc = "copy" => bytes_to_copy \in 1..count
  /\ pc \in {"sub1", "store1"} => first_copy + bytes_to_copy <= count
  /\ pc \in {"copy2", "sub2", "store2"} => bytes_to_copy <= count
=============================================================================

--------------------------- MODULE PicoI2C_proofs ---------------------------
(***************************************************************************)
(* The safety properties of PicoI2C for every value of its constants: any  *)
(* set of tasks, FIFO depth, RX threshold and set of requests, and any of  *)
(* the hazards the switches allow.  IInv is inductive; one lemma per part  *)
(* shows that [Next]_vars preserves it, with one step per action.          *)
(***************************************************************************)
EXTENDS PicoI2C, SequenceTheorems, TLAPS

\* The lengths of a call are numbers, and a caller asks for at least one byte
\* (the assertion of transaction()).
LEMMA ReqType ==
  ASSUME req \in Requests \cup {NoReq}
  PROVE  req.w \in Nat /\ req.r \in Nat /\ (req \in Requests => req.w + req.r > 0)
BY RequestAssumption DEF NoReq

\* Every step of transaction(), isr() and the block keeps the ranges of the
\* call, mutex, kernel and interrupt variables.
LEMMA CallTypeStep ==
  ASSUME IInv, [Next]_vars
  PROVE  CallType'
<1> USE DEF IInv, TypeOK, CallType, GoTo, object, block, seen
<1>1. ASSUME NEW t \in Tasks, Begin(t) PROVE CallType'
  <2>1. PICK q \in Requests : /\ req' = q /\ count' = q.w + q.r
                              /\ GoTo(t, IF q.w > 0 THEN "tx_fill" ELSE "rx_fill")
    BY <1>1 DEF Begin
  <2>2. q.w \in Nat /\ q.r \in Nat
    BY RequestAssumption
  <2>3. count' \in 0..(req'.w + req'.r)
    BY <2>1, <2>2
  <2>4. /\ owner' = t /\ task_to_notify' = t /\ pace' = IF pace = "behind" THEN "prompt" ELSE pace
        /\ notified' = notified /\ nvic' = nvic /\ isr' = isr
    BY <1>1 DEF Begin
  <2> QED BY <2>1, <2>3, <2>4
<1>2. ASSUME NEW t \in Tasks, Fill(t) PROVE CallType'
  BY <1>2 DEF Fill
<1>3. ASSUME NEW t \in Tasks, Take(t) PROVE CallType'
  BY <1>3 DEF Take
<1>4. ASSUME NEW t \in Tasks, TimeOut(t) PROVE CallType'
  BY <1>4, ReqType DEF TimeOut
<1>5. ASSUME NEW t \in Tasks, Count(t) PROVE CallType'
  <2>1. count = req.w + req.r
    BY <1>5 DEF Count, TaskRuns, CallInv
  <2>2. /\ req.w \in Nat /\ req.r \in Nat
        /\ wctr \in 0..req.w /\ rcnt \in 0..req.r
    BY ReqType DEF ObjectType
  <2>3. count' = count - (rcnt + wctr)
    BY <1>5 DEF Count, Missing
  <2>4. count' \in 0..(req.w + req.r)
    BY <2>1, <2>2, <2>3
  <2> QED BY <1>5, <2>4 DEF Count
<1>6. ASSUME NEW t \in Tasks, Return(t) PROVE CallType'
  BY <1>6 DEF Return, NvicAfterCall
<1>7. CASE IsrEnter BY <1>7 DEF IsrEnter
<1>8. CASE IsrDrain BY <1>8 DEF IsrDrain
<1>9. CASE IsrDrained BY <1>9 DEF IsrDrained
<1>10. CASE IsrFill BY <1>10 DEF IsrFill
<1>11. CASE IsrStop BY <1>11 DEF IsrStop, Notify
<1>12. CASE BusFetch BY <1>12 DEF BusFetch, BusUnchanged
<1>13. CASE BusAck BY <1>13 DEF BusAck, BusUnchanged, Paced
<1>14. CASE BusNack BY <1>14 DEF BusNack, BusUnchanged, Paced
<1>15. CASE BusStop BY <1>15 DEF BusStop, BusUnchanged, Paced
<1>16. CASE UNCHANGED vars BY <1>16 DEF vars
<1> QED BY <1>1, <1>2, <1>3, <1>4, <1>5, <1>6, <1>7, <1>8, <1>9, <1>10,
           <1>11, <1>12, <1>13, <1>14, <1>15, <1>16 DEF Next, Task, Isr, Bus

\* Every step keeps the mutex, task_to_notify, the NVIC line and the handler
\* tied to the running call (lock_guard, irq_set_enabled in transaction()).
LEMMA CallInvStep ==
  ASSUME IInv, [Next]_vars
  PROVE  CallInv'
<1> USE DEF IInv, CallInv, GoTo, object, block, seen, TaskRuns
<1>0. CallType BY DEF TypeOK
<1>1. ASSUME NEW t \in Tasks, Begin(t) PROVE CallInv'
  <2>1. PICK q \in Requests : /\ req' = q /\ count' = q.w + q.r
                              /\ GoTo(t, IF q.w > 0 THEN "tx_fill" ELSE "rx_fill")
    BY <1>1 DEF Begin
  <2>2. /\ owner = NoTask /\ owner' = t /\ task_to_notify' = t
        /\ nvic' = nvic /\ isr' = isr /\ isr = "off"
    BY <1>1 DEF Begin
  <2> QED BY <2>1, <2>2, <1>0, TaskAssumption DEF CallType
<1>2. ASSUME NEW t \in Tasks, Fill(t) PROVE CallInv'
  BY <1>0, <1>2, TaskAssumption DEF Fill, CallType
<1>3. ASSUME NEW t \in Tasks, Take(t) PROVE CallInv'
  BY <1>0, <1>3 , TaskAssumption DEF Take, CallType
<1>4. ASSUME NEW t \in Tasks, TimeOut(t) PROVE CallInv'
  BY <1>0, <1>4, TaskAssumption DEF TimeOut, CallType
<1>5. ASSUME NEW t \in Tasks, Count(t) PROVE CallInv'
  BY <1>0, <1>5, TaskAssumption DEF Count, CallType
<1>6. ASSUME NEW t \in Tasks, Return(t) PROVE CallInv'
  BY <1>0, <1>6, TaskAssumption DEF Return, NvicAfterCall, CallType
<1>7. CASE IsrEnter BY <1>7 DEF IsrEnter, IrqPending
<1>8. CASE IsrDrain BY <1>8 DEF IsrDrain
<1>9. CASE IsrDrained BY <1>9 DEF IsrDrained
<1>10. CASE IsrFill BY <1>10 DEF IsrFill
<1>11. CASE IsrStop BY <1>11 DEF IsrStop, Notify
<1>12. CASE Bus BY <1>12 DEF Bus, BusFetch, BusAck, BusNack, BusStop, BusUnchanged
<1>16. CASE UNCHANGED vars BY <1>16 DEF vars
<1> QED BY <1>1, <1>2, <1>3, <1>4, <1>5, <1>6, <1>7, <1>8, <1>9, <1>10,
           <1>11, <1>12, <1>16 DEF Next, Task, Isr

\* The counters of the object and the commands given so far, as numbers.
LEMMA Counters ==
  ASSUME IInv
  PROVE  /\ req.w \in Nat /\ req.r \in Nat
         /\ wctr \in Nat /\ rctr \in Nat /\ rcnt \in Nat
         /\ wctr <= req.w /\ rctr <= req.r /\ rcnt <= req.r
         /\ wbuf = req.w - wctr + 1
         /\ Len(cmds) \in Nat
         /\ Len(cmds) = (req.w - wctr) + (req.r - rctr)
         /\ wctr > 0 => rctr = req.r
<1>1. req.w \in Nat /\ req.r \in Nat
  BY ReqType DEF IInv, TypeOK, CallType
<1> QED BY <1>1 DEF IInv, TypeOK, ObjectType, CommandStream, FillInv

\* The value the next command should have.
NextCmd == Expected(Len(cmds) + 1)

\* The next command is a value of data_cmd.
LEMMA NextCmdType ==
  ASSUME IInv, Len(cmds) < req.w + req.r
  PROVE  NextCmd \in Byte(req.w)
<1>1. req.w \in Nat /\ req.r \in Nat /\ Len(cmds) \in Nat
  BY Counters
<1>2. CASE Len(cmds) + 1 <= req.w
  BY <1>1, <1>2 DEF NextCmd, Expected, Byte, Bit
<1>3. CASE ~(Len(cmds) + 1 <= req.w)
  BY <1>1, <1>3 DEF NextCmd, Expected, Byte, Bit
<1> QED BY <1>2, <1>3

\* One iteration of a fill gives the expected command to the block, and the
\* counters follow (tx_fill_fifo, rx_fill_fifo).
LEMMA PushExpected ==
  ASSUME IInv, PushWrite \/ (wctr = 0 /\ PushRead)
  PROVE  /\ Len(cmds) < req.w + req.r
         /\ Len(txfifo) < FifoDepth
         /\ DataCmd(NextCmd)
         /\ (req.w - wctr') + (req.r - rctr') = Len(cmds) + 1
         /\ wctr' \in 0..req.w /\ rctr' \in 0..req.r
         /\ wbuf' = req.w - wctr' + 1
         /\ wctr' > 0 => rctr' = req.r
         /\ wctr = 0 => wctr' = 0
         /\ restart_on_next' = Bit(req.w > 0 /\ wctr' = 0 /\ req.r > 0 /\ rctr' = req.r)
<1>0. restart_on_next = Bit(req.w > 0 /\ wctr = 0 /\ req.r > 0 /\ rctr = req.r)
  BY DEF IInv, FillInv
<1>1. CASE PushWrite
  <2>1. wctr > 0 /\ Len(txfifo) < FifoDepth
    BY <1>1 DEF PushWrite, WriteAvailable
  <2>2. /\ DataCmd([op |-> "write", data |-> wbuf, restart |-> restart_on_next,
                    stop |-> Bit(wctr = 1 /\ rctr = 0)])
    BY <1>1 DEF PushWrite
  <2>3. /\ wbuf' = wbuf + 1 /\ wctr' = wctr - 1 /\ rctr' = rctr
        /\ restart_on_next' = Bit(wctr = 1 /\ rctr > 0)
    BY <1>1 DEF PushWrite, RestartAfterWrite
  <2>4. Len(cmds) + 1 <= req.w /\ wbuf = Len(cmds) + 1 /\ rctr = req.r
    BY <2>1, Counters
  <2>5. (wctr = 1 /\ rctr = 0) <=> (Len(cmds) + 1 = req.w + req.r)
    BY <2>1, Counters, SMTT(30)
  <2>6. restart_on_next = 0
    BY <2>1, <1>0, Counters DEF Bit
  <2>7. NextCmd = [op |-> "write", data |-> wbuf, restart |-> restart_on_next,
                   stop |-> Bit(wctr = 1 /\ rctr = 0)]
    BY <2>4, <2>5, <2>6 DEF NextCmd, Expected, Bit
  <2>8. /\ Len(cmds) < req.w + req.r
        /\ (req.w - wctr') + (req.r - rctr') = Len(cmds) + 1
    BY <2>1, <2>3, <2>4, Counters, SMTT(30)
  <2>9. wctr' \in 0..req.w /\ rctr' \in 0..req.r
    BY <2>1, <2>3, Counters, SMTT(30)
  <2>12. wbuf' = req.w - wctr' + 1
    BY <2>3, Counters
  <2>10. (wctr = 1 /\ rctr > 0)
           <=> (req.w > 0 /\ wctr' = 0 /\ req.r > 0 /\ rctr' = req.r)
    BY <2>1, <2>3, <2>4, Counters
  <2>11. restart_on_next' = Bit(req.w > 0 /\ wctr' = 0 /\ req.r > 0 /\ rctr' = req.r)
    BY <2>3, <2>10 DEF Bit
  <2> QED BY <2>1, <2>2, <2>3, <2>4, <2>7, <2>8, <2>9, <2>11, <2>12
<1>2. CASE wctr = 0 /\ PushRead
  <2>1. rctr > 0 /\ Len(txfifo) < FifoDepth
    BY <1>2 DEF PushRead, WriteAvailable
  <2>2. DataCmd([op |-> "read", data |-> 0, restart |-> restart_on_next,
                 stop |-> Bit(rctr = 1)])
    BY <1>2 DEF PushRead, StopWithRead
  <2>3. wbuf' = wbuf /\ wctr' = wctr /\ rctr' = rctr - 1 /\ restart_on_next' = 0
    BY <1>2 DEF PushRead
  <2>4. ~(Len(cmds) + 1 <= req.w)
    BY <1>2, <2>1, Counters
  <2>5. (rctr = 1) <=> (Len(cmds) + 1 = req.w + req.r)
    BY <1>2, <2>1, Counters, SMTT(30)
  <2>6. (req.w > 0 /\ wctr = 0 /\ req.r > 0 /\ rctr = req.r)
             <=> (req.w > 0 /\ Len(cmds) + 1 = req.w + 1)
    BY <1>2, <2>1, Counters, SMTT(30)
  <2>7. NextCmd = [op |-> "read", data |-> 0, restart |-> restart_on_next,
                   stop |-> Bit(rctr = 1)]
    BY <1>0, <2>4, <2>5, <2>6 DEF NextCmd, Expected, Bit
  <2>8. Len(cmds) < req.w + req.r
    BY <1>2, <2>1, Counters
  <2>11. (req.w - wctr') + (req.r - rctr') = Len(cmds) + 1
    BY <2>3, Counters, SMTT(30)
  <2>9. /\ wctr' = 0 /\ wctr' \in 0..req.w /\ rctr' \in 0..req.r /\ rctr' # req.r
        /\ wbuf' = req.w - wctr' + 1
    BY <1>2, <2>1, <2>3, Counters
  <2>10. restart_on_next' = Bit(req.w > 0 /\ wctr' = 0 /\ req.r > 0 /\ rctr' = req.r)
    BY <2>3, <2>9 DEF Bit
  <2> QED BY <2>1, <2>2, <2>7, <2>8, <2>9, <2>10, <2>11
<1> QED BY <1>1, <1>2

\* A fill runs with the counters it is meant for: rx_fill_fifo() only when
\* all the bytes to write have been given.
LEMMA FillStep ==
  ASSUME IInv, (\E t \in Tasks : Fill(t)) \/ IsrFill
  PROVE  \/ PushWrite \/ (wctr = 0 /\ PushRead)
         \/ UNCHANGED <<wbuf, wctr, rctr, restart_on_next, cmds, txfifo>>
<1> USE DEF IInv, FillInv, Push
<1>1. CASE IsrFill
  BY <1>1 DEF IsrFill
<1>2. CASE \E t \in Tasks : Fill(t)
  BY <1>2 DEF Fill
<1> QED BY <1>1, <1>2

\* Where the wire and the RX FIFO stand, as numbers.
LEMMA WireFacts ==
  ASSUME IInv
  PROVE  /\ done \in Nat /\ nread \in Nat /\ lost \in Nat /\ OnWire \in {0, 1}
         /\ Len(txfifo) \in Nat /\ Len(rxfifo) \in Nat /\ Len(rbuffer) \in Nat
         /\ done + OnWire + Len(txfifo) <= Len(cmds)
         /\ Len(cmds) <= req.w + req.r
         /\ Len(rbuffer) = req.r - rcnt
         /\ nread = Len(rbuffer) + Len(rxfifo) + lost
<1>1. done \in Nat /\ nread \in Nat /\ lost \in Nat
  BY Counters DEF IInv, TypeOK, SeenType
<1>2. OnWire \in {0, 1}
  BY DEF OnWire
<1>3. Len(txfifo) \in Nat /\ Len(rxfifo) \in Nat /\ Len(rbuffer) \in Nat
  BY DEF IInv, TypeOK, BlockType, ObjectType
<1>4. Len(cmds) <= req.w + req.r
  <2>1. /\ req.w \in Nat /\ req.r \in Nat /\ wctr \in Nat /\ rctr \in Nat
        /\ Len(cmds) = (req.w - wctr) + (req.r - rctr)
    BY Counters
  <2> QED BY <2>1
<1> QED BY <1>1, <1>2, <1>3, <1>4 DEF IInv, WireInv, ReadInv, TypeOK, ObjectType

\* Every step keeps the unsigned counters and the buffer of the object in
\* their ranges (wctr, rctr, rcnt, rbuf).
LEMMA ObjectTypeStep == ASSUME IInv, [Next]_vars PROVE ObjectType'
<1> USE DEF IInv, TypeOK, object, block, seen
<1>0. CallType /\ ObjectType /\ CallInv
  OBVIOUS
<1>1. ASSUME NEW t \in Tasks, Begin(t) PROVE ObjectType'
  <2>1. PICK q \in Requests : /\ req' = q /\ wbuf' = 1 /\ wctr' = q.w
                              /\ rbuffer' = <<>> /\ rctr' = q.r /\ rcnt' = q.r
    BY <1>1 DEF Begin
  <2>2. q.w \in Nat /\ q.r \in Nat
    BY RequestAssumption
  <2>3. restart_on_next' = 0
    BY <1>1 DEF Begin
  <2>4. rbuffer' \in Seq(1..req'.r) /\ Len(rbuffer') = 0
    BY <2>1
  <2> QED BY <2>1, <2>2, <2>3, <2>4 DEF ObjectType
<1>2. CASE (\E t \in Tasks : Fill(t)) \/ IsrFill
  <2>1. UNCHANGED <<req, rcnt, rbuffer>>
    BY <1>2 DEF Fill, IsrFill
  <2>2. CASE PushWrite \/ (wctr = 0 /\ PushRead)
    <3>1. /\ wctr' \in 0..req.w /\ rctr' \in 0..req.r
          /\ wbuf' = req.w - wctr' + 1
      BY <2>2, PushExpected
    <3>2. restart_on_next' \in {0, 1}
      BY <2>2, PushExpected DEF Bit
    <3> QED BY <2>1, <3>1, <3>2 DEF ObjectType
  <2>3. CASE UNCHANGED <<wbuf, wctr, rctr, restart_on_next, cmds, txfifo>>
    BY <2>1, <2>3 DEF ObjectType
  <2> QED BY <1>2, <2>2, <2>3, FillStep
<1>3. CASE IsrDrain
  <2>1. /\ rcnt > 0 /\ rxfifo # <<>> /\ rcnt' = rcnt - 1
        /\ rbuffer' = Append(rbuffer, Head(rxfifo))
        /\ UNCHANGED <<req, wbuf, wctr, rctr, restart_on_next>>
    BY <1>3 DEF IsrDrain
  <2>2. Head(rxfifo) \in 1..req.r
    <3>1. rxfifo \in Seq(1..req.r)
      BY DEF BlockType
    <3> QED BY <2>1, <3>1, HeadTailProperties
  <2>3. rbuffer' \in Seq(1..req.r) /\ Len(rbuffer') = Len(rbuffer) + 1
    BY <2>1, <2>2 DEF ObjectType
  <2>4. Len(rbuffer') = req.r - rcnt'
    <3>1. Len(rbuffer) = req.r - rcnt /\ rcnt \in Nat /\ req.r \in Nat
      BY Counters, WireFacts
    <3>2. Len(rbuffer') = Len(rbuffer) + 1 /\ rcnt' = rcnt - 1
      BY <2>1, <2>3
    <3> QED BY <3>1, <3>2
  <2>5. rcnt' \in 0..req.r
    <3>1. rcnt \in Nat /\ req.r \in Nat /\ rcnt <= req.r
      BY Counters
    <3> QED BY <2>1, <3>1
  <2> QED BY <2>1, <2>3, <2>4, <2>5 DEF ObjectType
<1>4. CASE UNCHANGED <<req, wctr, wbuf, rctr, rcnt, restart_on_next, rbuffer>>
  BY <1>4 DEF ObjectType
<1>5. ASSUME NEW t \in Tasks, Take(t) \/ TimeOut(t) \/ Count(t) \/ Return(t)
      PROVE  ObjectType'
  BY <1>4, <1>5 DEF Take, TimeOut, Count, Return
<1>6. CASE IsrEnter \/ IsrDrained \/ IsrStop
  BY <1>4, <1>6 DEF IsrEnter, IsrDrained, IsrStop
<1>7. CASE Bus
  BY <1>4, <1>7 DEF Bus, BusFetch, BusAck, BusNack, BusStop, BusUnchanged
<1>8. CASE UNCHANGED vars
  BY <1>4, <1>8 DEF vars
<1> QED BY <1>1, <1>2, <1>3, <1>5, <1>6, <1>7, <1>8 DEF Next, Task, Isr

\* Every step keeps the commands given so far the expected ones.
LEMMA CommandStep == ASSUME IInv, [Next]_vars PROVE CommandStream'
<1> USE DEF IInv, TypeOK, object, block, seen
<1>1. ASSUME NEW t \in Tasks, Begin(t) PROVE CommandStream'
  <2>1. PICK q \in Requests : req' = q /\ wctr' = q.w /\ rctr' = q.r
    BY <1>1 DEF Begin
  <2>2. q.w \in Nat /\ q.r \in Nat
    BY RequestAssumption
  <2>3. cmds' = <<>>
    BY <1>1 DEF Begin
  <2> QED BY <2>1, <2>2, <2>3 DEF CommandStream
<1>2. CASE (\E t \in Tasks : Fill(t)) \/ IsrFill
  <2>1. UNCHANGED req
    BY <1>2 DEF Fill, IsrFill
  <2>2. CASE PushWrite \/ (wctr = 0 /\ PushRead)
    <3>1. /\ cmds' = Append(cmds, NextCmd)
          /\ (req.w - wctr') + (req.r - rctr') = Len(cmds) + 1
      BY <2>2, PushExpected DEF DataCmd
    <3>2. NextCmd \in Byte(req.w) /\ cmds \in Seq(Byte(req.w))
      BY <2>2, PushExpected, NextCmdType DEF SeenType
    <3>3. \A i \in 1..Len(cmds') : cmds'[i] = Expected(i)
      BY <3>1, <3>2 DEF CommandStream, NextCmd
    <3>4. \A i \in 1..Len(cmds') : Expected(i)' = Expected(i)
      BY <2>1 DEF Expected
    <3>5. Len(cmds') = Len(cmds) + 1
      BY <3>1, <3>2
    <3> QED BY <2>1, <3>1, <3>3, <3>4, <3>5 DEF CommandStream
  <2>3. CASE UNCHANGED <<wbuf, wctr, rctr, restart_on_next, cmds, txfifo>>
    BY <2>1, <2>3 DEF CommandStream, Expected
  <2> QED BY <1>2, <2>2, <2>3, FillStep
<1>4. CASE UNCHANGED <<req, wctr, rctr, cmds>>
  BY <1>4 DEF CommandStream, Expected
<1>5. ASSUME NEW t \in Tasks, Take(t) \/ TimeOut(t) \/ Count(t) \/ Return(t)
      PROVE  CommandStream'
  BY <1>4, <1>5 DEF Take, TimeOut, Count, Return
<1>6. CASE IsrEnter \/ IsrDrain \/ IsrDrained \/ IsrStop
  BY <1>4, <1>6 DEF IsrEnter, IsrDrain, IsrDrained, IsrStop
<1>7. CASE Bus
  BY <1>4, <1>7 DEF Bus, BusFetch, BusAck, BusNack, BusStop, BusUnchanged
<1>8. CASE UNCHANGED vars
  BY <1>4, <1>8 DEF vars
<1> QED BY <1>1, <1>2, <1>5, <1>6, <1>7, <1>8 DEF Next, Task, Isr

\* The command on the wire is the expected one, and a read on the wire means
\* that all writes are done.
LEMMA OnWireCmd ==
  ASSUME IInv, shift.op \in {"write", "read"}
  PROVE  /\ OnWire = 1
         /\ shift = Expected(done + 1)
         /\ ~aborted
         /\ done < req.w + req.r
         /\ shift.op = "write" => done < req.w
         /\ shift.op = "read" => req.w <= done /\ nread = done - req.w /\ nread < req.r
         /\ shift.stop = 1 <=> done + 1 = req.w + req.r
<1>0. OnWire = 1
  BY DEF OnWire
<1>1. shift = Expected(done + 1)
  BY <1>0 DEF IInv, WireInv
<1>2. ~aborted
  BY <1>0 DEF IInv, WireInv
<1>n. done \in Nat /\ req.w \in Nat /\ req.r \in Nat
  BY WireFacts, Counters
<1>3. done < req.w + req.r
  <2>1. Len(cmds) \in Nat /\ Len(txfifo) \in Nat /\ Len(cmds) <= req.w + req.r
        /\ done + OnWire + Len(txfifo) <= Len(cmds)
    BY WireFacts
  <2> QED BY <1>0, <1>n, <2>1
<1>4. shift.op = "write" <=> done + 1 <= req.w
  BY <1>1 DEF Expected
<1>5. shift.op = "write" => done < req.w
  BY <1>4, <1>n
<1>6. shift.op = "read" => req.w <= done
  BY <1>4, <1>n
<1>7. shift.op = "read" => nread = done - req.w
  <2>1. nread = IF done > req.w THEN done - req.w ELSE 0
    BY DEF IInv, ReadInv
  <2>2. req.w \in Nat /\ done \in Nat
    BY WireFacts, Counters
  <2> QED BY <1>6, <2>1, <2>2
<1>8. shift.op = "read" => nread < req.r
  <2>1. req.w \in Nat /\ req.r \in Nat /\ done \in Nat
    BY WireFacts, Counters
  <2> QED BY <1>3, <1>6, <1>7, <2>1
<1>9. shift.stop = Bit(done + 1 = req.w + req.r)
  <2>1. CASE done + 1 <= req.w
    BY <1>1, <2>1 DEF Expected
  <2>2. CASE ~(done + 1 <= req.w)
    BY <1>1, <2>2 DEF Expected
  <2> QED BY <2>1, <2>2
<1>10. shift.stop = 1 <=> done + 1 = req.w + req.r
  BY <1>9 DEF Bit
<1> QED BY <1>0, <1>1, <1>2, <1>3, <1>5, <1>6, <1>7, <1>8, <1>10

\* Every step keeps what the slave has seen within what the call asked for.
LEMMA SeenTypeStep == ASSUME IInv, [Next]_vars PROVE SeenType'
<1> USE DEF IInv, TypeOK, object, block, seen
<1>0. SeenType /\ req.w \in Nat /\ req.r \in Nat
  BY Counters
<1>1. ASSUME NEW t \in Tasks, Begin(t) PROVE SeenType'
  <2>1. PICK q \in Requests : req' = q
    BY <1>1 DEF Begin
  <2>2. q.w \in Nat /\ q.r \in Nat
    BY RequestAssumption
  <2>3. cmds' = <<>> /\ done' = 0 /\ nread' = 0 /\ lost' = 0
    BY <1>1 DEF Begin
  <2>4. stopped' \in BOOLEAN
    BY <1>1 DEF Begin
  <2> QED BY <2>1, <2>2, <2>3, <2>4 DEF SeenType
<1>2. CASE (\E t \in Tasks : Fill(t)) \/ IsrFill
  <2>1. UNCHANGED <<req, done, nread, lost, stopped>>
    BY <1>2 DEF Fill, IsrFill
  <2>2. CASE PushWrite \/ (wctr = 0 /\ PushRead)
    <3>1. cmds' = Append(cmds, NextCmd) /\ NextCmd \in Byte(req.w)
      BY <2>2, PushExpected, NextCmdType DEF DataCmd
    <3>2. cmds' \in Seq(Byte(req.w))
      BY <3>1 DEF SeenType
    <3>3. Byte(req.w)' = Byte(req.w)
      BY <2>1 DEF Byte
    <3> QED BY <2>1, <3>2, <3>3 DEF SeenType
  <2>3. CASE UNCHANGED <<wbuf, wctr, rctr, restart_on_next, cmds, txfifo>>
    BY <2>1, <2>3 DEF SeenType, Byte
  <2> QED BY <1>2, <2>2, <2>3, FillStep
<1>3. CASE BusAck
  <2>1. UNCHANGED <<req, cmds, stopped>>
    BY <1>3 DEF BusAck, BusUnchanged
  <2>2. done' = done + 1 /\ done < req.w + req.r
    BY <1>3, OnWireCmd DEF BusAck
  <2>n. done \in Nat /\ nread \in Nat /\ lost \in Nat /\ req.w \in Nat /\ req.r \in Nat
    BY WireFacts, Counters
  <2>3. done' \in 0..(req.w + req.r)
    BY <2>2, <2>n
  <2>4. nread' \in 0..req.r
    <3>1. CASE shift.op = "read"
      <4>1. nread' = nread + 1 /\ nread < req.r
        BY <1>3, <3>1, OnWireCmd DEF BusAck
      <4> QED BY <4>1, <2>n
    <3>2. CASE shift.op # "read"
      BY <1>3, <3>2 DEF BusAck, SeenType
    <3> QED BY <3>1, <3>2
  <2>5. lost' \in 0..req.r
    <3>1. CASE shift.op = "read"
      <4>1. lost' \in {lost, lost + 1} /\ nread < req.r
        BY <1>3, <3>1, OnWireCmd DEF BusAck
      <4>2. lost <= nread
        BY WireFacts
      <4> QED BY <4>1, <4>2, <2>n
    <3>2. CASE shift.op # "read"
      BY <1>3, <3>2 DEF BusAck, SeenType
    <3> QED BY <3>1, <3>2
  <2> QED BY <2>1, <2>3, <2>4, <2>5 DEF SeenType, Byte
<1>4. CASE BusStop
  <2>1. UNCHANGED <<req, cmds, done, nread, lost>> /\ stopped' \in BOOLEAN
    BY <1>4 DEF BusStop, BusUnchanged
  <2> QED BY <2>1 DEF SeenType, Byte
<1>5. CASE UNCHANGED <<req, cmds, done, nread, lost, stopped>>
  BY <1>5 DEF SeenType, Byte
<1>6. ASSUME NEW t \in Tasks, Take(t) \/ TimeOut(t) \/ Count(t) \/ Return(t)
      PROVE  SeenType'
  BY <1>5, <1>6 DEF Take, TimeOut, Count, Return
<1>7. CASE IsrEnter \/ IsrDrain \/ IsrDrained \/ IsrStop
  BY <1>5, <1>7 DEF IsrEnter, IsrDrain, IsrDrained, IsrStop
<1>8. CASE BusFetch \/ BusNack
  BY <1>5, <1>8 DEF BusFetch, BusNack, BusUnchanged
<1>9. CASE UNCHANGED vars
  BY <1>5, <1>9 DEF vars
<1> QED BY <1>1, <1>2, <1>3, <1>4, <1>6, <1>7, <1>8, <1>9 DEF Next, Task, Isr, Bus

\* Every step keeps the FIFOs within their depth and the registers of the
\* block in their ranges.
LEMMA BlockTypeStep == ASSUME IInv, [Next]_vars PROVE BlockType'
<1> USE DEF IInv, TypeOK, object, block, seen
<1>0. /\ BlockType /\ req.w \in Nat /\ req.r \in Nat
      /\ Len(txfifo) \in Nat /\ Len(rxfifo) \in Nat /\ FifoDepth \in Nat
  BY Counters, WireFacts, FifoAssumption
<1>1. ASSUME NEW t \in Tasks, Begin(t) PROVE BlockType'
  <2>1. txfifo' = <<>> /\ rxfifo' = <<>> /\ shift' = NoCmd
    BY <1>1 DEF Begin
  <2>2. intr_mask' = {"STOP_DET", "TX_EMPTY", "RX_FULL"}
    BY <1>1 DEF Begin
  <2>3. stop_det' \in BOOLEAN /\ aborted' \in BOOLEAN
    BY <1>1 DEF Begin, BlockType
  <2>4. Len(txfifo') <= FifoDepth /\ Len(rxfifo') <= FifoDepth
    BY <2>1, <1>0
  <2> QED BY <2>1, <2>2, <2>3, <2>4 DEF BlockType
<1>2. CASE (\E t \in Tasks : Fill(t)) \/ IsrFill
  <2>1. UNCHANGED <<req, rxfifo, shift, stop_det, aborted>>
    BY <1>2 DEF Fill, IsrFill
  <2>2. intr_mask' \subseteq {"STOP_DET", "TX_EMPTY", "RX_FULL"}
    BY <1>2 DEF Fill, IsrFill, BlockType, MaskWhenAllSent
  <2>3. Byte(req.w)' = Byte(req.w)
    BY <2>1 DEF Byte
  <2>4. txfifo' \in Seq(Byte(req.w)) /\ Len(txfifo') <= FifoDepth
    <3>1. CASE PushWrite \/ (wctr = 0 /\ PushRead)
      <4>1. /\ NextCmd \in Byte(req.w) /\ Len(txfifo) < FifoDepth
            /\ txfifo' = IF aborted THEN txfifo ELSE Append(txfifo, NextCmd)
        BY <3>1, PushExpected, NextCmdType DEF DataCmd
      <4>2. txfifo \in Seq(Byte(req.w)) /\ Len(txfifo) <= FifoDepth
        BY DEF BlockType
      <4>3. CASE aborted
        BY <4>1, <4>2, <4>3, Zenon
      <4>4. CASE ~aborted
        <5>1. txfifo' = Append(txfifo, NextCmd)
          BY <4>1, <4>4
        <5>2. txfifo' \in Seq(Byte(req.w)) /\ Len(txfifo') = Len(txfifo) + 1
          <6>1. NextCmd \in Byte(req.w) /\ txfifo \in Seq(Byte(req.w))
            BY <4>1, <4>2
          <6> QED BY <5>1, <6>1, AppendProperties
        <5> QED BY <1>0, <4>1, <5>2
      <4> QED BY <4>3, <4>4
    <3>2. CASE UNCHANGED <<wbuf, wctr, rctr, restart_on_next, cmds, txfifo>>
      BY <3>2 DEF BlockType
    <3> QED BY <1>2, <3>1, <3>2, FillStep
  <2> QED BY <2>1, <2>2, <2>3, <2>4 DEF BlockType
<1>3. CASE IsrDrain
  <2>1. /\ rxfifo # <<>> /\ rxfifo' = Tail(rxfifo)
        /\ UNCHANGED <<req, intr_mask, txfifo, shift, stop_det, aborted>>
    BY <1>3 DEF IsrDrain
  <2>2. rxfifo \in Seq(1..req.r) /\ Len(rxfifo) <= FifoDepth
    BY DEF BlockType
  <2>3. rxfifo' \in Seq(1..req.r) /\ Len(rxfifo') = Len(rxfifo) - 1
    BY <2>1, <2>2, HeadTailProperties
  <2>4. Len(rxfifo') <= FifoDepth
    BY <1>0, <2>2, <2>3
  <2> QED BY <2>1, <2>3, <2>4 DEF BlockType, Byte
<1>4. CASE IsrStop
  <2>1. UNCHANGED <<req, txfifo, rxfifo, shift, aborted>>
    BY <1>4 DEF IsrStop
  <2>2. intr_mask' \subseteq {"STOP_DET", "TX_EMPTY", "RX_FULL"}
    BY <1>4 DEF IsrStop, Notify, BlockType
  <2>3. stop_det' \in BOOLEAN
    BY <1>4 DEF IsrStop, Notify, BlockType
  <2> QED BY <2>1, <2>2, <2>3 DEF BlockType, Byte
<1>5. CASE BusFetch
  <2>1. /\ txfifo # <<>> /\ txfifo' = Tail(txfifo) /\ shift' = Head(txfifo)
        /\ UNCHANGED <<req, intr_mask, rxfifo, stop_det, aborted>>
    BY <1>5 DEF BusFetch, BusUnchanged
  <2>2. txfifo \in Seq(Byte(req.w)) /\ Len(txfifo) <= FifoDepth
    BY DEF BlockType
  <2>3. /\ txfifo' \in Seq(Byte(req.w)) /\ shift' \in Byte(req.w)
        /\ Len(txfifo') = Len(txfifo) - 1
    BY <2>1, <2>2, HeadTailProperties
  <2>4. Len(txfifo') <= FifoDepth
    BY <1>0, <2>2, <2>3
  <2> QED BY <2>1, <2>3, <2>4 DEF BlockType, Byte
<1>6. CASE BusAck
  <2>1. /\ shift' \in {NoCmd, SendStop}
        /\ UNCHANGED <<req, intr_mask, txfifo, stop_det, aborted>>
    BY <1>6 DEF BusAck, BusUnchanged
  <2>2. rxfifo \in Seq(1..req.r) /\ Len(rxfifo) <= FifoDepth
    BY DEF BlockType
  <2>3. rxfifo' \in Seq(1..req.r) /\ Len(rxfifo') <= FifoDepth
    <3>1. CASE shift.op = "read" /\ Len(rxfifo) < FifoDepth
      <4>1. rxfifo' = Append(rxfifo, nread + 1)
        BY <1>6, <3>1 DEF BusAck
      <4>2. nread \in Nat /\ nread < req.r
        BY <3>1, OnWireCmd, WireFacts
      <4>3. nread + 1 \in 1..req.r
        BY <1>0, <4>2
      <4>4. rxfifo' \in Seq(1..req.r) /\ Len(rxfifo') = Len(rxfifo) + 1
        BY <2>2, <4>1, <4>3
      <4> QED BY <1>0, <3>1, <4>4
    <3>2. CASE ~(shift.op = "read" /\ Len(rxfifo) < FifoDepth)
      BY <1>6, <2>2, <3>2 DEF BusAck
    <3> QED BY <3>1, <3>2
  <2> QED BY <2>1, <2>3 DEF BlockType, Byte
<1>7. CASE BusNack
  <2>1. /\ txfifo' = <<>> /\ shift' = SendStop /\ aborted' \in BOOLEAN
        /\ UNCHANGED <<req, intr_mask, rxfifo, stop_det>>
    BY <1>7 DEF BusNack, BusUnchanged
  <2>2. Len(txfifo') <= FifoDepth
    BY <1>0, <2>1
  <2> QED BY <2>1, <2>2 DEF BlockType, Byte
<1>8. CASE BusStop
  <2>1. /\ shift' = NoCmd /\ stop_det' \in BOOLEAN
        /\ UNCHANGED <<req, intr_mask, txfifo, rxfifo, aborted>>
    BY <1>8 DEF BusStop, BusUnchanged
  <2> QED BY <2>1 DEF BlockType, Byte
<1>9. CASE UNCHANGED <<req, intr_mask, txfifo, rxfifo, shift, stop_det, aborted>>
  BY <1>9 DEF BlockType, Byte
<1>10. ASSUME NEW t \in Tasks, Take(t) \/ TimeOut(t) \/ Count(t) \/ Return(t)
       PROVE  BlockType'
  BY <1>9, <1>10 DEF Take, TimeOut, Count, Return
<1>11. CASE IsrEnter \/ IsrDrained
  BY <1>9, <1>11 DEF IsrEnter, IsrDrained
<1>12. CASE UNCHANGED vars
  BY <1>9, <1>12 DEF vars
<1> QED BY <1>1, <1>2, <1>3, <1>4, <1>5, <1>6, <1>7, <1>8, <1>10, <1>11, <1>12
        DEF Next, Task, Isr, Bus

\* Every step keeps the relation of wctr, rctr and restart_on_next.
LEMMA FillInvStep == ASSUME IInv, [Next]_vars PROVE FillInv'
<1> USE DEF IInv, TypeOK, object, block, seen
<1>0. CallType /\ FillInv
  OBVIOUS
<1>1. ASSUME NEW t \in Tasks, Begin(t) PROVE FillInv'
  <2>1. PICK q \in Requests :
          /\ req' = q /\ wctr' = q.w /\ rctr' = q.r
          /\ pc' = [pc EXCEPT ![t] = IF q.w > 0 THEN "tx_fill" ELSE "rx_fill"]
    BY <1>1 DEF Begin, GoTo
  <2>2. q.w \in Nat /\ q.r \in Nat
    BY RequestAssumption
  <2>3. restart_on_next' = 0 /\ isr' = "off" /\ owner = NoTask
    BY <1>1 DEF Begin, TaskRuns
  <2>4. \A u \in Tasks : pc'[u] = "rx_fill" => wctr' = 0
    BY <1>0, <2>1, <2>2, <2>3, TaskAssumption DEF CallType, CallInv
  <2>5. restart_on_next' = Bit(req'.w > 0 /\ wctr' = 0 /\ req'.r > 0 /\ rctr' = req'.r)
    BY <2>1, <2>2, <2>3 DEF Bit
  <2> QED BY <2>1, <2>3, <2>4, <2>5 DEF FillInv
<1>2. CASE (\E t \in Tasks : Fill(t)) \/ IsrFill
  <2>1. UNCHANGED req
    BY <1>2 DEF Fill, IsrFill
  <2>2. isr' = "rx_fill" => isr = "rx_fill"
    BY <1>2 DEF Fill, IsrFill
  <2>3. \A u \in Tasks : pc'[u] = "rx_fill" => pc[u] = "rx_fill"
    BY <1>0, <1>2 DEF Fill, IsrFill, GoTo, CallType
  <2>4. CASE PushWrite \/ (wctr = 0 /\ PushRead)
    <3>1. /\ wctr' > 0 => rctr' = req.r
          /\ wctr = 0 => wctr' = 0
          /\ restart_on_next' = Bit(req.w > 0 /\ wctr' = 0 /\ req.r > 0 /\ rctr' = req.r)
      BY <2>4, PushExpected
    <3> QED BY <2>1, <2>2, <2>3, <3>1 DEF FillInv
  <2>5. CASE UNCHANGED <<wbuf, wctr, rctr, restart_on_next, cmds, txfifo>>
    BY <2>1, <2>2, <2>3, <2>5 DEF FillInv
  <2> QED BY <1>2, <2>4, <2>5, FillStep
<1>3. CASE /\ UNCHANGED <<req, wctr, rctr, restart_on_next>>
           /\ isr' = "rx_fill" => wctr = 0
           /\ \A u \in Tasks : pc'[u] = "rx_fill" => pc[u] = "rx_fill"
  BY <1>3 DEF FillInv
<1>4. ASSUME NEW t \in Tasks, Take(t) \/ TimeOut(t) \/ Count(t) \/ Return(t)
      PROVE  FillInv'
  <2>1. UNCHANGED <<req, wctr, rctr, restart_on_next, isr>>
    BY <1>4 DEF Take, TimeOut, Count, Return
  <2>2. \A u \in Tasks : pc'[u] = "rx_fill" => pc[u] = "rx_fill"
    BY <1>0, <1>4 DEF Take, TimeOut, Count, Return, GoTo, CallType
  <2> QED BY <2>1, <2>2, <1>3 DEF FillInv
<1>5. CASE IsrEnter \/ IsrDrain \/ IsrStop
  BY <1>3, <1>5 DEF IsrEnter, IsrDrain, IsrStop
<1>6. CASE IsrDrained
  <2>1. UNCHANGED <<req, wctr, rctr, restart_on_next, pc>>
    BY <1>6 DEF IsrDrained
  <2>2. isr' = "rx_fill" => ~(wctr > 0)
    BY <1>6 DEF IsrDrained
  <2>3. isr' = "rx_fill" => wctr = 0
    BY <2>2, Counters
  <2> QED BY <2>1, <2>3, <1>3
<1>7. CASE Bus
  BY <1>3, <1>7 DEF Bus, BusFetch, BusAck, BusNack, BusStop, BusUnchanged, FillInv
<1>8. CASE UNCHANGED vars
  BY <1>3, <1>8 DEF vars, FillInv
<1> QED BY <1>1, <1>2, <1>4, <1>5, <1>6, <1>7, <1>8 DEF Next, Task, Isr

\* Every step keeps the TX FIFO and the wire at the commands that follow the
\* acknowledged ones.
LEMMA WireInvStep == ASSUME IInv, [Next]_vars PROVE WireInv'
<1> USE DEF object, block, seen
<1>0. WireInv /\ TypeOK
  BY DEF IInv
<1>n. done \in Nat /\ OnWire \in Nat /\ Len(txfifo) \in Nat /\ Len(cmds) \in Nat
  <2>1. OnWire \in Nat
    BY WireFacts
  <2> QED BY <2>1, WireFacts, Counters
<1>1. ASSUME NEW t \in Tasks, Begin(t) PROVE WireInv'
  <2>1. cmds' = <<>> /\ done' = 0 /\ txfifo' = <<>> /\ shift' = NoCmd /\ aborted' = FALSE
    BY <1>1 DEF Begin
  <2>2. OnWire' = 0
    BY <2>1 DEF OnWire, NoCmd
  <2>3. Len(cmds') = 0 /\ Len(txfifo') = 0
    BY <2>1
  <2>4. done' + OnWire' + Len(txfifo') = Len(cmds')
    BY <2>1, <2>2, <2>3
  <2> QED BY <2>1, <2>2, <2>3, <2>4 DEF WireInv
<1>2. CASE (\E t \in Tasks : Fill(t)) \/ IsrFill
  <2>1. UNCHANGED <<req, done, shift, aborted>>
    BY <1>2 DEF Fill, IsrFill
  <2>2. OnWire' = OnWire /\ \A i : Expected(i)' = Expected(i)
    BY <2>1 DEF OnWire, Expected
  <2>3. CASE PushWrite \/ (wctr = 0 /\ PushRead)
    <3>1. /\ NextCmd \in Byte(req.w)
          /\ cmds' = Append(cmds, NextCmd)
          /\ txfifo' = IF aborted THEN txfifo ELSE Append(txfifo, NextCmd)
      BY <2>3, PushExpected, NextCmdType DEF DataCmd
    <3>2. cmds \in Seq(Byte(req.w)) /\ txfifo \in Seq(Byte(req.w))
      BY <1>0 DEF TypeOK, SeenType, BlockType
    <3>3. Len(cmds') = Len(cmds) + 1
      BY <3>1, <3>2, AppendProperties
    <3>4. CASE aborted
      <4>1. txfifo' = txfifo
        BY <3>1, <3>4
      <4>2. done + OnWire + Len(txfifo) <= Len(cmds')
        <5>1. done + OnWire + Len(txfifo) <= Len(cmds)
          BY <1>0 DEF WireInv
        <5> QED BY <1>n, <3>3, <5>1
      <4> QED BY <1>0, <2>1, <2>2, <3>4, <4>1, <4>2 DEF WireInv
    <3>5. CASE ~aborted
      <4>1. txfifo' = Append(txfifo, NextCmd)
        BY <3>1, <3>5
      <4>2. /\ Len(txfifo') = Len(txfifo) + 1
            /\ \A i \in 1..Len(txfifo) : txfifo'[i] = txfifo[i]
            /\ txfifo'[Len(txfifo) + 1] = NextCmd
        BY <3>1, <3>2, <4>1, AppendProperties
      <4>3. Len(cmds) = done + OnWire + Len(txfifo)
        BY <1>0, <3>5 DEF WireInv
      <4>4. done' + OnWire' + Len(txfifo') = Len(cmds')
        BY <1>n, <2>1, <2>2, <3>3, <4>2, <4>3
      <4>5. NextCmd = Expected(done + OnWire + (Len(txfifo) + 1))
        <5>1. Len(cmds) + 1 = done + OnWire + (Len(txfifo) + 1)
          BY <1>n, <4>3
        <5> QED BY <5>1 DEF NextCmd
      <4>6. ASSUME NEW i \in 1..Len(txfifo') PROVE txfifo'[i] = Expected(done + OnWire + i)
        <5>1. CASE i \in 1..Len(txfifo)
          BY <1>0, <4>2, <5>1 DEF WireInv
        <5>2. CASE i = Len(txfifo) + 1
          BY <4>2, <4>5, <5>2
        <5>3. i \in 1..Len(txfifo) \/ i = Len(txfifo) + 1
          BY <1>n, <4>2
        <5> QED BY <5>1, <5>2, <5>3
      <4>7. OnWire = 1 => shift = Expected(done + 1)
        BY <1>0 DEF WireInv
      <4> QED BY <1>n, <2>1, <2>2, <3>3, <3>5, <4>4, <4>6, <4>7 DEF WireInv
    <3> QED BY <3>4, <3>5
  <2>4. CASE UNCHANGED <<wbuf, wctr, rctr, restart_on_next, cmds, txfifo>>
    BY <1>0, <2>1, <2>2, <2>4 DEF WireInv
  <2> QED BY <1>2, <2>3, <2>4, FillStep
<1>3. CASE BusFetch
  <2>1. /\ shift = NoCmd /\ txfifo # <<>> /\ txfifo' = Tail(txfifo)
        /\ shift' = Head(txfifo)
        /\ UNCHANGED <<req, cmds, done, aborted>>
    BY <1>3 DEF BusFetch, BusUnchanged
  <2>2. OnWire = 0
    BY <2>1 DEF OnWire, NoCmd
  <2>3. txfifo \in Seq(Byte(req.w))
    BY <1>0 DEF TypeOK, BlockType
  <2>4. /\ Head(txfifo) \in Byte(req.w)
        /\ Len(txfifo') = Len(txfifo) - 1
        /\ \A i \in 1..Len(txfifo') : txfifo'[i] = txfifo[i + 1]
    BY <2>1, <2>3, HeadTailProperties
  <2>5. Len(txfifo) > 0 /\ Head(txfifo) = txfifo[1]
    BY <2>1, <2>3
  <2>6. OnWire' = 1
    BY <2>1, <2>4 DEF OnWire, Byte
  <2>7. ~aborted
    BY <1>0, <2>1 DEF WireInv
  <2>8. done + 1 + Len(txfifo') = Len(cmds)
    <3>1. done + 0 + Len(txfifo) = Len(cmds)
      BY <1>0, <2>2, <2>7 DEF WireInv
    <3>2. Len(txfifo') = Len(txfifo) - 1
      BY <2>4
    <3> QED BY <1>n, <3>1, <3>2
  <2>9. \A i \in 1..Len(txfifo) : txfifo[i] = Expected(done + 0 + i)
    BY <1>0, <2>2 DEF WireInv
  <2>10. shift' = Expected(done + 1)
    BY <2>1, <2>5, <2>9, WireFacts
  <2>11. \A i \in 1..Len(txfifo') : txfifo'[i] = Expected(done + 1 + i)
    <3> TAKE i \in 1..Len(txfifo')
    <3>1. i + 1 \in 1..Len(txfifo)
      BY <1>n, <2>4
    <3>2. done + 0 + (i + 1) = done + 1 + i
      BY <1>n
    <3> QED BY <2>4, <2>9, <3>1, <3>2
  <2>12. \A i : Expected(i)' = Expected(i)
    BY <2>1 DEF Expected
  <2>13. done' + OnWire' + Len(txfifo') = Len(cmds')
    BY <2>1, <2>6, <2>8
  <2> QED BY <1>n, <2>1, <2>6, <2>7, <2>10, <2>11, <2>12, <2>13 DEF WireInv
<1>4. CASE BusAck
  <2>1. /\ done' = done + 1 /\ shift' \in {NoCmd, SendStop}
        /\ UNCHANGED <<req, cmds, txfifo, aborted>>
    BY <1>4 DEF BusAck, BusUnchanged
  <2>2. OnWire = 1 /\ ~aborted
    BY <1>4, OnWireCmd DEF BusAck
  <2>3. OnWire' = 0
    BY <2>1 DEF OnWire, NoCmd, SendStop
  <2>4. \A i : Expected(i)' = Expected(i)
    BY <2>1 DEF Expected
  <2>5. done + 1 + Len(txfifo) = Len(cmds)
    BY <1>0, <2>2 DEF WireInv
  <2>6. done' + OnWire' + Len(txfifo') = Len(cmds')
    BY <1>n, <2>1, <2>3, <2>5
  <2>7. \A i \in 1..Len(txfifo) : txfifo[i] = Expected(done + 1 + i)
    BY <1>0, <2>2 DEF WireInv
  <2>8. \A i \in 1..Len(txfifo') : txfifo'[i] = Expected(done' + OnWire' + i)
    <3> TAKE i \in 1..Len(txfifo')
    <3>1. i \in 1..Len(txfifo) /\ i \in Int
      BY <2>1
    <3>2. done' + OnWire' + i = done + 1 + i
      BY <1>n, <2>1, <2>3, <3>1
    <3>3. txfifo'[i] = Expected(done + 1 + i)
      BY <2>1, <2>7, <3>1
    <3> QED BY <3>2, <3>3
  <2> QED BY <1>n, <2>1, <2>2, <2>3, <2>4, <2>6, <2>8 DEF WireInv
<1>5. CASE BusNack
  <2>1. /\ txfifo' = <<>> /\ shift' = SendStop /\ aborted' = TRUE
        /\ UNCHANGED <<req, cmds, done>>
    BY <1>5 DEF BusNack, BusUnchanged
  <2>2. OnWire' = 0 /\ Len(txfifo') = 0
    BY <2>1 DEF OnWire, SendStop
  <2>3. done' + OnWire' + Len(txfifo') <= Len(cmds')
    <3>1. done + OnWire + Len(txfifo) <= Len(cmds)
      BY <1>0 DEF WireInv
    <3> QED BY <1>n, <2>1, <2>2, <3>1
  <2> QED BY <2>1, <2>2, <2>3 DEF WireInv
<1>6. CASE BusStop
  <2>1. /\ shift = SendStop /\ shift' = NoCmd
        /\ UNCHANGED <<req, cmds, done, txfifo, aborted>>
    BY <1>6 DEF BusStop, BusUnchanged
  <2>2. OnWire = 0 /\ OnWire' = 0
    BY <2>1 DEF OnWire, SendStop, NoCmd
  <2>3. \A i : Expected(i)' = Expected(i)
    BY <2>1 DEF Expected
  <2> QED BY <1>0, <2>1, <2>2, <2>3 DEF WireInv
<1>7. CASE UNCHANGED <<req, cmds, done, txfifo, shift, aborted>>
  BY <1>0, <1>7 DEF WireInv, OnWire, Expected
<1>8. ASSUME NEW t \in Tasks, Take(t) \/ TimeOut(t) \/ Count(t) \/ Return(t)
      PROVE  WireInv'
  BY <1>7, <1>8 DEF Take, TimeOut, Count, Return
<1>9. CASE IsrEnter \/ IsrDrain \/ IsrDrained \/ IsrStop
  BY <1>7, <1>9 DEF IsrEnter, IsrDrain, IsrDrained, IsrStop
<1>10. CASE UNCHANGED vars
  BY <1>7, <1>10 DEF vars
<1> QED BY <1>1, <1>2, <1>3, <1>4, <1>5, <1>6, <1>8, <1>9, <1>10
        DEF Next, Task, Isr, Bus

\* Every step keeps the bytes read either in the buffer, in the RX FIFO, or
\* counted as lost, and in order while none is lost.
LEMMA ReadInvStep == ASSUME IInv, [Next]_vars PROVE ReadInv'
<1> USE DEF object, block, seen
<1>0. ReadInv /\ TypeOK
  BY DEF IInv
<1>n. /\ done \in Nat /\ nread \in Nat /\ lost \in Nat /\ req.w \in Nat
      /\ Len(rbuffer) \in Nat /\ Len(rxfifo) \in Nat
  BY WireFacts, Counters
<1>s. rxfifo \in Seq(1..req.r) /\ rbuffer \in Seq(1..req.r)
  BY <1>0 DEF TypeOK, ObjectType, BlockType
<1>1. ASSUME NEW t \in Tasks, Begin(t) PROVE ReadInv'
  <2>1. PICK q \in Requests : req' = q
    BY <1>1 DEF Begin
  <2>2. q.w \in Nat
    BY RequestAssumption
  <2>3. nread' = 0 /\ done' = 0 /\ rbuffer' = <<>> /\ rxfifo' = <<>> /\ lost' = 0
    BY <1>1 DEF Begin
  <2> QED BY <2>1, <2>2, <2>3 DEF ReadInv
<1>2. CASE IsrDrain
  <2>1. /\ rxfifo # <<>> /\ rxfifo' = Tail(rxfifo)
        /\ rbuffer' = Append(rbuffer, Head(rxfifo))
        /\ UNCHANGED <<req, done, nread, lost>>
    BY <1>2 DEF IsrDrain
  <2>2. /\ Head(rxfifo) \in 1..req.r
        /\ Len(rxfifo') = Len(rxfifo) - 1
        /\ \A i \in 1..Len(rxfifo') : rxfifo'[i] = rxfifo[i + 1]
    BY <1>s, <2>1, HeadTailProperties
  <2>3. Head(rxfifo) = rxfifo[1] /\ Len(rxfifo) > 0
    BY <1>s, <2>1
  <2>4. /\ Len(rbuffer') = Len(rbuffer) + 1
        /\ \A i \in 1..Len(rbuffer) : rbuffer'[i] = rbuffer[i]
        /\ rbuffer'[Len(rbuffer) + 1] = Head(rxfifo)
    BY <1>s, <2>1, <2>2, AppendProperties
  <2>5. nread' = Len(rbuffer') + Len(rxfifo') + lost'
    <3>1. nread = Len(rbuffer) + Len(rxfifo) + lost
      BY <1>0 DEF ReadInv
    <3>2. Len(rxfifo') = Len(rxfifo) - 1 /\ Len(rbuffer') = Len(rbuffer) + 1
      BY <2>2, <2>4
    <3> QED BY <1>n, <2>1, <3>1, <3>2
  <2>6. ASSUME lost = 0
        PROVE  /\ \A i \in 1..Len(rbuffer') : rbuffer'[i] = i
               /\ \A i \in 1..Len(rxfifo') : rxfifo'[i] = Len(rbuffer') + i
    <3>1. /\ \A i \in 1..Len(rbuffer) : rbuffer[i] = i
          /\ \A i \in 1..Len(rxfifo) : rxfifo[i] = Len(rbuffer) + i
      BY <1>0, <2>6 DEF ReadInv
    <3>2. ASSUME NEW i \in 1..Len(rbuffer') PROVE rbuffer'[i] = i
      <4>1. CASE i \in 1..Len(rbuffer)
        BY <2>4, <3>1, <4>1
      <4>2. CASE i = Len(rbuffer) + 1
        BY <1>n, <2>3, <2>4, <3>1, <4>2
      <4>3. i \in 1..Len(rbuffer) \/ i = Len(rbuffer) + 1
        BY <1>n, <2>4
      <4> QED BY <4>1, <4>2, <4>3
    <3>3. ASSUME NEW i \in 1..Len(rxfifo') PROVE rxfifo'[i] = Len(rbuffer') + i
      <4>1. Len(rxfifo') = Len(rxfifo) - 1 /\ Len(rbuffer') = Len(rbuffer) + 1
        BY <2>2, <2>4
      <4>2. i + 1 \in 1..Len(rxfifo)
        BY <1>n, <4>1
      <4>3. rxfifo[i + 1] = Len(rbuffer) + (i + 1)
        BY <3>1, <4>2
      <4>4. rxfifo'[i] = rxfifo[i + 1]
        BY <2>2
      <4> QED BY <1>n, <4>1, <4>3, <4>4
    <3> QED BY <3>2, <3>3
  <2>7. nread' = IF done' > req'.w THEN done' - req'.w ELSE 0
    BY <1>0, <2>1 DEF ReadInv
  <2> QED BY <2>1, <2>5, <2>6, <2>7 DEF ReadInv
<1>3. CASE BusAck
  <2>1. /\ done' = done + 1
        /\ UNCHANGED <<req, rbuffer>>
        /\ shift.op \in {"write", "read"}
    BY <1>3 DEF BusAck, BusUnchanged
  <2>2. CASE shift.op = "write"
    <3>1. UNCHANGED <<nread, rxfifo, lost>> /\ done < req.w
      BY <1>3, <2>1, <2>2, OnWireCmd DEF BusAck
    <3>2. nread = IF done > req.w THEN done - req.w ELSE 0
      BY <1>0 DEF ReadInv
    <3>3. nread' = IF done' > req'.w THEN done' - req'.w ELSE 0
      BY <1>n, <2>1, <3>1, <3>2
    <3> QED BY <1>0, <2>1, <3>1, <3>3 DEF ReadInv
  <2>3. CASE shift.op = "read"
    <3>1. /\ nread' = nread + 1 /\ req.w <= done /\ nread = done - req.w
      BY <1>3, <2>1, <2>3, OnWireCmd DEF BusAck
    <3>2. nread' = IF done' > req'.w THEN done' - req'.w ELSE 0
      BY <1>n, <2>1, <3>1
    <3>3. nread = Len(rbuffer) + Len(rxfifo) + lost
      BY <1>0 DEF ReadInv
    <3>4. CASE Len(rxfifo) < FifoDepth
      <4>1. rxfifo' = Append(rxfifo, nread + 1) /\ lost' = lost
        BY <1>3, <2>3, <3>4 DEF BusAck
      <4>2. nread + 1 \in 1..req.r
        <5>1. nread < req.r /\ req.r \in Nat
          BY <2>1, <2>3, OnWireCmd, Counters
        <5> QED BY <1>n, <5>1
      <4>3. /\ Len(rxfifo') = Len(rxfifo) + 1
            /\ \A i \in 1..Len(rxfifo) : rxfifo'[i] = rxfifo[i]
            /\ rxfifo'[Len(rxfifo) + 1] = nread + 1
        BY <1>s, <4>1, <4>2, AppendProperties
      <4>4. nread' = Len(rbuffer') + Len(rxfifo') + lost'
        BY <1>n, <2>1, <3>1, <3>3, <4>1, <4>3
      <4>5. ASSUME lost = 0, NEW i \in 1..Len(rxfifo') PROVE rxfifo'[i] = Len(rbuffer) + i
        <5>1. CASE i \in 1..Len(rxfifo)
          BY <1>0, <4>3, <4>5, <5>1 DEF ReadInv
        <5>2. CASE i = Len(rxfifo) + 1
          BY <1>n, <3>3, <4>3, <4>5, <5>2
        <5>3. i \in 1..Len(rxfifo) \/ i = Len(rxfifo) + 1
          BY <1>n, <4>3
        <5> QED BY <5>1, <5>2, <5>3
      <4>6. lost = 0 => \A i \in 1..Len(rbuffer) : rbuffer[i] = i
        BY <1>0 DEF ReadInv
      <4> QED BY <2>1, <3>2, <4>1, <4>4, <4>5, <4>6 DEF ReadInv
    <3>5. CASE ~(Len(rxfifo) < FifoDepth)
      <4>1. rxfifo' = rxfifo /\ lost' = lost + 1
        BY <1>3, <2>3, <3>5 DEF BusAck
      <4>2. nread' = Len(rbuffer') + Len(rxfifo') + lost' /\ lost' # 0
        BY <1>n, <2>1, <3>1, <3>3, <4>1
      <4> QED BY <3>2, <4>2 DEF ReadInv
    <3> QED BY <3>4, <3>5
  <2> QED BY <2>1, <2>2, <2>3
<1>4. CASE UNCHANGED <<req, done, nread, lost, rbuffer, rxfifo>>
  BY <1>0, <1>4 DEF ReadInv
<1>5. ASSUME NEW t \in Tasks, Fill(t) \/ Take(t) \/ TimeOut(t) \/ Count(t) \/ Return(t)
      PROVE  ReadInv'
  BY <1>4, <1>5 DEF Fill, Take, TimeOut, Count, Return
<1>6. CASE IsrEnter \/ IsrDrained \/ IsrFill \/ IsrStop
  BY <1>4, <1>6 DEF IsrEnter, IsrDrained, IsrFill, IsrStop
<1>7. CASE BusFetch \/ BusNack \/ BusStop
  BY <1>4, <1>7 DEF BusFetch, BusNack, BusStop, BusUnchanged
<1>8. CASE UNCHANGED vars
  BY <1>4, <1>8 DEF vars
<1> QED BY <1>1, <1>2, <1>3, <1>5, <1>6, <1>7, <1>8 DEF Next, Task, Isr, Bus

\* Every step keeps the bytes in the order they had on the wire: isr() stores
\* the earliest one in the RX FIFO, and the block appends a later one.
LEMMA ByteOrderStep == ASSUME IInv, [Next]_vars PROVE ByteOrder'
<1> USE DEF object, block, seen
<1>0. ByteOrder /\ TypeOK
  BY DEF IInv
<1>n. nread \in Nat /\ Len(rbuffer) \in Nat /\ Len(rxfifo) \in Nat
  BY WireFacts
<1>s. rxfifo \in Seq(1..req.r) /\ rbuffer \in Seq(1..req.r)
  BY <1>0 DEF TypeOK, ObjectType, BlockType
<1>1. ASSUME NEW t \in Tasks, Begin(t) PROVE ByteOrder'
  <2>1. rbuffer' = <<>> /\ rxfifo' = <<>>
    BY <1>1 DEF Begin
  <2> QED BY <2>1 DEF ByteOrder
<1>2. CASE IsrDrain
  <2>1. /\ rxfifo # <<>> /\ rxfifo' = Tail(rxfifo) /\ nread' = nread
        /\ rbuffer' = Append(rbuffer, Head(rxfifo))
    BY <1>2 DEF IsrDrain
  <2>2. /\ Head(rxfifo) \in 1..req.r
        /\ Len(rxfifo') = Len(rxfifo) - 1
        /\ \A i \in 1..Len(rxfifo') : rxfifo'[i] = rxfifo[i + 1]
    BY <1>s, <2>1, HeadTailProperties
  <2>3. Head(rxfifo) = rxfifo[1] /\ Len(rxfifo) > 0
    BY <1>s, <2>1
  <2>4. rbuffer'[Len(rbuffer')] = rxfifo[1]
    <3>1. /\ Len(rbuffer') = Len(rbuffer) + 1
          /\ rbuffer'[Len(rbuffer) + 1] = Head(rxfifo)
      BY <1>s, <2>1, <2>2, AppendProperties
    <3> QED BY <2>3, <3>1
  <2>5. 1 \in 1..Len(rxfifo) /\ \A i \in 1..Len(rxfifo') : i + 1 \in 1..Len(rxfifo)
    BY <1>n, <2>2, <2>3
  <2>6. \A i \in 1..Len(rxfifo') : rxfifo'[i] <= nread' /\ rxfifo[1] < rxfifo'[i]
    <3>1. ASSUME NEW i \in 1..Len(rxfifo') PROVE rxfifo[i + 1] <= nread /\ rxfifo[1] < rxfifo[i + 1]
      <4>1. i + 1 \in 1..Len(rxfifo) /\ 1 < i + 1
        BY <2>5
      <4> QED BY <1>0, <2>5, <4>1 DEF ByteOrder
    <3> QED BY <2>1, <2>2, <3>1
  <2>7. \A i, j \in 1..Len(rxfifo') : i < j => rxfifo'[i] < rxfifo'[j]
    <3>1. ASSUME NEW i \in 1..Len(rxfifo'), NEW j \in 1..Len(rxfifo'), i < j
          PROVE  rxfifo[i + 1] < rxfifo[j + 1]
      <4>1. i + 1 \in 1..Len(rxfifo) /\ j + 1 \in 1..Len(rxfifo) /\ i + 1 < j + 1
        BY <2>5, <3>1
      <4> QED BY <1>0, <4>1 DEF ByteOrder
    <3> QED BY <2>2, <3>1
  <2>8. rxfifo[1] <= nread'
    BY <1>0, <2>1, <2>5 DEF ByteOrder
  <2> QED BY <2>4, <2>6, <2>7, <2>8 DEF ByteOrder
<1>3. CASE BusAck
  <2>1. rbuffer' = rbuffer /\ shift.op \in {"write", "read"}
    BY <1>3 DEF BusAck, BusUnchanged
  <2>2. CASE shift.op = "write"
    BY <1>0, <1>3, <2>1, <2>2 DEF BusAck, ByteOrder
  <2>3. CASE shift.op = "read"
    <3>1. nread' = nread + 1
      BY <1>3, <2>3 DEF BusAck
    <3>2. rbuffer # <<>> => rbuffer[Len(rbuffer)] \in Int /\ rbuffer[Len(rbuffer)] <= nread
      <4>1. ASSUME rbuffer # <<>> PROVE rbuffer[Len(rbuffer)] \in Int
        <5>1. Len(rbuffer) \in 1..Len(rbuffer) /\ req.r \in Nat
          BY <1>s, <1>n, <4>1, Counters
        <5> QED BY <1>s, <5>1
      <4> QED BY <1>0, <4>1 DEF ByteOrder
    <3>3. \A i \in 1..Len(rxfifo) : rxfifo[i] \in Int /\ rxfifo[i] <= nread
      <4>1. req.r \in Nat
        BY Counters
      <4>2. \A i \in 1..Len(rxfifo) : rxfifo[i] \in Int
        BY <1>s, <4>1
      <4> QED BY <1>0, <4>2 DEF ByteOrder
    <3>4. CASE Len(rxfifo) < FifoDepth
      <4>1. rxfifo' = Append(rxfifo, nread + 1)
        BY <1>3, <2>3, <3>4 DEF BusAck
      <4>2. nread + 1 \in 1..req.r
        <5>1. nread < req.r /\ req.r \in Nat
          BY <2>1, <2>3, OnWireCmd, Counters
        <5> QED BY <1>n, <5>1
      <4>3. /\ Len(rxfifo') = Len(rxfifo) + 1
            /\ \A i \in 1..Len(rxfifo) : rxfifo'[i] = rxfifo[i]
            /\ rxfifo'[Len(rxfifo) + 1] = nread + 1
        BY <1>s, <4>1, <4>2, AppendProperties
      <4>4. ASSUME NEW i \in 1..Len(rxfifo')
            PROVE  \/ i \in 1..Len(rxfifo) /\ rxfifo'[i] = rxfifo[i]
                   \/ i = Len(rxfifo) + 1 /\ rxfifo'[i] = nread + 1
        BY <1>n, <4>3
      <4>5. \A i \in 1..Len(rxfifo') : rxfifo'[i] <= nread'
        BY <1>n, <3>1, <3>3, <4>4
      <4>6. ASSUME NEW i \in 1..Len(rxfifo'), NEW j \in 1..Len(rxfifo'), i < j
            PROVE  rxfifo'[i] < rxfifo'[j]
        <5>1. i \in 1..Len(rxfifo)
          BY <1>n, <4>3, <4>6
        <5>2. CASE j \in 1..Len(rxfifo)
          BY <1>0, <4>3, <4>6, <5>1, <5>2 DEF ByteOrder
        <5>3. CASE j = Len(rxfifo) + 1
          BY <1>n, <3>3, <4>3, <5>1, <5>3
        <5> QED BY <4>4, <5>2, <5>3
      <4>7. ASSUME rbuffer # <<>>
            PROVE  /\ rbuffer[Len(rbuffer)] <= nread'
                   /\ \A i \in 1..Len(rxfifo') : rbuffer[Len(rbuffer)] < rxfifo'[i]
        <5>1. rbuffer[Len(rbuffer)] <= nread'
          BY <1>n, <3>1, <3>2, <4>7
        <5>2. ASSUME NEW i \in 1..Len(rxfifo') PROVE rbuffer[Len(rbuffer)] < rxfifo'[i]
          <6>1. CASE i \in 1..Len(rxfifo) /\ rxfifo'[i] = rxfifo[i]
            BY <1>0, <4>7, <6>1 DEF ByteOrder
          <6>2. CASE i = Len(rxfifo) + 1 /\ rxfifo'[i] = nread + 1
            BY <1>n, <3>2, <4>7, <6>2
          <6> QED BY <4>4, <6>1, <6>2
        <5> QED BY <5>1, <5>2
      <4> QED BY <2>1, <4>5, <4>6, <4>7 DEF ByteOrder
    <3>5. CASE ~(Len(rxfifo) < FifoDepth)
      <4>1. rxfifo' = rxfifo
        BY <1>3, <2>3, <3>5 DEF BusAck
      <4>2. \A i \in 1..Len(rxfifo) : rxfifo[i] <= nread'
        BY <1>n, <3>1, <3>3
      <4>3. rbuffer # <<>> => rbuffer[Len(rbuffer)] <= nread'
        BY <1>n, <3>1, <3>2
      <4> QED BY <1>0, <2>1, <4>1, <4>2, <4>3 DEF ByteOrder
    <3> QED BY <3>4, <3>5
  <2> QED BY <2>1, <2>2, <2>3
<1>4. CASE UNCHANGED <<nread, rbuffer, rxfifo>>
  BY <1>0, <1>4 DEF ByteOrder
<1>5. ASSUME NEW t \in Tasks, Fill(t) \/ Take(t) \/ TimeOut(t) \/ Count(t) \/ Return(t)
      PROVE  ByteOrder'
  BY <1>4, <1>5 DEF Fill, Take, TimeOut, Count, Return
<1>6. CASE IsrEnter \/ IsrDrained \/ IsrFill \/ IsrStop
  BY <1>4, <1>6 DEF IsrEnter, IsrDrained, IsrFill, IsrStop
<1>7. CASE BusFetch \/ BusNack \/ BusStop
  BY <1>4, <1>7 DEF BusFetch, BusNack, BusStop, BusUnchanged
<1>8. CASE UNCHANGED vars
  BY <1>4, <1>8 DEF vars
<1> QED BY <1>1, <1>2, <1>3, <1>5, <1>6, <1>7, <1>8 DEF Next, Task, Isr, Bus

\* A full count of a call with a read part stays true: neither a late byte
\* nor a late acknowledgement can change what the caller was told.
LEMMA FullReadStep == ASSUME IInv, [Next]_vars PROVE FullReadIsTrue'
<1> USE DEF object, block, seen
<1>0. FullReadIsTrue /\ CallType /\ CallInv
  BY DEF IInv, TypeOK
<1>1. ASSUME NEW t \in Tasks, Begin(t) \/ Fill(t) \/ Take(t) \/ Return(t)
      PROVE  FullReadIsTrue'
  <2>1. \A u \in Tasks \ {t} : pc[u] = "idle"
    BY <1>0, <1>1, TaskAssumption DEF Begin, Fill, Take, Return, TaskRuns, CallInv
  <2>2. PICK p \in {"idle", "tx_fill", "rx_fill", "take", "count"} :
          pc' = [pc EXCEPT ![t] = p]
    <3>1. CASE Begin(t) BY <3>1 DEF Begin, GoTo
    <3>2. CASE Fill(t)
      <4>1. pc' = pc \/ pc' = [pc EXCEPT ![t] = "take"]
        BY <3>2 DEF Fill, GoTo
      <4>2. pc[t] \in {"tx_fill", "rx_fill"} /\ pc = [pc EXCEPT ![t] = pc[t]]
        BY <1>0, <3>2 DEF Fill, CallType
      <4> QED BY <4>1, <4>2
    <3>3. CASE Take(t) BY <3>3 DEF Take, GoTo
    <3>4. CASE Return(t) BY <3>4 DEF Return, GoTo
    <3> QED BY <1>1, <3>1, <3>2, <3>3, <3>4
  <2>3. \A u \in Tasks : pc'[u] # "irq_off"
    BY <1>0, <2>1, <2>2 DEF CallType
  <2> QED BY <2>3 DEF FullReadIsTrue
<1>2. ASSUME NEW t \in Tasks, TimeOut(t) PROVE FullReadIsTrue'
  <2>1. count' = 0 /\ req' = req
    BY <1>2 DEF TimeOut
  <2>2. req \in Requests
    BY <1>0, <1>2, TaskAssumption DEF TimeOut, TaskRuns, CallInv
  <2>3. req.w + req.r > 0
    BY <2>2, ReqType
  <2>4. ~Complete'
    BY <2>1, <2>3, Counters DEF Complete
  <2> QED BY <2>4 DEF FullReadIsTrue
<1>3. ASSUME NEW t \in Tasks, Count(t) PROVE FullReadIsTrue'
  <2>1. UNCHANGED <<req, done, rbuffer>> /\ count' = count - (rcnt + wctr)
    BY <1>3 DEF Count, Missing
  <2>2. count = req.w + req.r
    BY <1>0, <1>3 DEF Count, TaskRuns, CallInv
  <2>3. ASSUME Complete', req.r > 0
        PROVE  done = req.w + req.r /\ rbuffer = [i \in 1..req.r |-> i]
    <3>1. rcnt + wctr = 0
      <4>1. count' = req.w + req.r
        BY <2>1, <2>3 DEF Complete
      <4>2. req.w \in Nat /\ req.r \in Nat /\ rcnt \in Nat /\ wctr \in Nat
        BY Counters
      <4> QED BY <2>1, <2>2, <4>1, <4>2
    <3>2. rcnt = 0
      BY <3>1, Counters
    <3>3. Len(rbuffer) = req.r
      BY <3>2, WireFacts, Counters
    <3>4. /\ nread \in Nat /\ Len(rxfifo) \in Nat /\ lost \in Nat
          /\ req.w \in Nat /\ req.r \in Nat /\ done \in Nat
      BY WireFacts, Counters
    <3>5. nread = req.r + Len(rxfifo) + lost
      BY <3>3, WireFacts
    <3>6. done <= req.w + req.r
      BY DEF IInv, TypeOK, SeenType
    <3>7. nread = IF done > req.w THEN done - req.w ELSE 0
      BY DEF IInv, ReadInv
    <3>8. done = req.w + req.r /\ lost = 0
      BY <2>3, <3>4, <3>5, <3>6, <3>7, SMTT(30)
    <3>9. \A i \in 1..Len(rbuffer) : rbuffer[i] = i
      BY <3>8 DEF IInv, ReadInv
    <3>10. rbuffer \in Seq(1..req.r)
      BY DEF IInv, TypeOK, ObjectType
    <3>11. rbuffer = [i \in 1..req.r |-> i]
      BY <3>3, <3>9, <3>10
    <3> QED BY <3>8, <3>11
  <2> QED BY <2>1, <2>3 DEF FullReadIsTrue
<1>4. CASE IsrDrain
  <2>1. /\ rcnt > 0
        /\ UNCHANGED <<pc, count, req, done>>
    BY <1>4 DEF IsrDrain
  <2>2. ASSUME NEW u \in Tasks, pc[u] = "irq_off", Complete, req.r > 0 PROVE FALSE
    <3>1. rbuffer = [i \in 1..req.r |-> i]
      BY <1>0, <2>2 DEF FullReadIsTrue
    <3>2. Len(rbuffer) = req.r
      BY <3>1, Counters
    <3>3. Len(rbuffer) = req.r - rcnt /\ rcnt \in Nat /\ req.r \in Nat
      BY WireFacts, Counters
    <3> QED BY <2>1, <3>2, <3>3
  <2> QED BY <2>1, <2>2 DEF FullReadIsTrue, Complete
<1>5. CASE BusAck
  <2>1. UNCHANGED <<pc, count, req, rbuffer>> /\ done < req.w + req.r
    BY <1>5, OnWireCmd DEF BusAck, BusUnchanged
  <2>2. ASSUME NEW u \in Tasks, pc[u] = "irq_off", Complete, req.r > 0 PROVE FALSE
    <3>1. done = req.w + req.r
      BY <1>0, <2>2 DEF FullReadIsTrue
    <3> QED BY <2>1, <3>1, Counters
  <2> QED BY <2>1, <2>2 DEF FullReadIsTrue, Complete
<1>6. CASE UNCHANGED <<pc, count, req, done, rbuffer>>
  BY <1>0, <1>6 DEF FullReadIsTrue, Complete
<1>7. CASE IsrEnter \/ IsrDrained \/ IsrFill \/ IsrStop
  BY <1>6, <1>7 DEF IsrEnter, IsrDrained, IsrFill, IsrStop
<1>8. CASE BusFetch \/ BusNack \/ BusStop
  BY <1>6, <1>8 DEF BusFetch, BusNack, BusStop, BusUnchanged
<1>9. CASE UNCHANGED vars
  BY <1>6, <1>9 DEF vars
<1> QED BY <1>1, <1>2, <1>3, <1>4, <1>5, <1>7, <1>8, <1>9 DEF Next, Task, Isr, Bus

\* The state before the first call satisfies the inductive invariant.
LEMMA InitIInv == Init => IInv
<1> SUFFICES ASSUME Init PROVE IInv
  OBVIOUS
<1>q. req = NoReq /\ req.w = 0 /\ req.r = 0
  BY DEF Init, NoReq
<1>o. /\ wctr = 0 /\ wbuf = 1 /\ rctr = 0 /\ rcnt = 0 /\ restart_on_next = 0
      /\ rbuffer = <<>> /\ rxfifo = <<>> /\ txfifo = <<>> /\ cmds = <<>>
      /\ done = 0 /\ nread = 0 /\ lost = 0 /\ count = 0
  BY DEF Init
<1>p. /\ pc = [t \in Tasks |-> "idle"] /\ owner = NoTask /\ isr = "off"
      /\ ~nvic /\ ~aborted /\ shift = NoCmd
  BY DEF Init
<1>1. CallType
  <2>1. count \in 0..(req.w + req.r)
    BY <1>q, <1>o
  <2> QED BY <2>1, <1>q, SwitchAssumption DEF Init, CallType
<1>2. ObjectType
  BY <1>q, <1>o DEF ObjectType
<1>3. BlockType
  <2>1. rxfifo \in Seq(1..req.r) /\ Len(rxfifo) <= FifoDepth
    BY <1>o, FifoAssumption
  <2>2. txfifo \in Seq(Byte(req.w)) /\ Len(txfifo) <= FifoDepth
    BY <1>o, FifoAssumption
  <2>3. /\ intr_mask \subseteq {"STOP_DET", "TX_EMPTY", "RX_FULL"}
        /\ shift \in Byte(req.w) \cup {NoCmd, SendStop}
    BY DEF Init
  <2>4. stop_det \in BOOLEAN /\ aborted \in BOOLEAN
    BY DEF Init
  <2> QED BY <2>1, <2>2, <2>3, <2>4 DEF BlockType
<1>4. SeenType
  <2>1. cmds \in Seq(Byte(req.w))
    BY <1>o
  <2>2. done \in 0..(req.w + req.r) /\ nread \in 0..req.r /\ lost \in 0..req.r
    BY <1>q, <1>o
  <2>3. stopped \in BOOLEAN
    BY DEF Init
  <2> QED BY <2>1, <2>2, <2>3 DEF SeenType
<1>5. CallInv
  BY <1>p, TaskAssumption DEF CallInv
<1>6. FillInv
  BY <1>q, <1>o, <1>p DEF FillInv, Bit
<1>7. CommandStream
  BY <1>q, <1>o DEF CommandStream
<1>8. WireInv
  <2>1. OnWire = 0
    BY <1>p DEF OnWire, NoCmd
  <2> QED BY <1>o, <1>p, <2>1 DEF WireInv
<1>9. ReadInv
  BY <1>q, <1>o DEF ReadInv
<1>10. FullReadIsTrue
  BY <1>p DEF FullReadIsTrue
<1>11. ByteOrder
  BY <1>o DEF ByteOrder
<1> QED BY <1>1, <1>2, <1>3, <1>4, <1>5, <1>6, <1>7, <1>8, <1>9, <1>10, <1>11 DEF IInv, TypeOK

\* Every step of the tasks, the handler and the block preserves it.
LEMMA IInvStep == IInv /\ [Next]_vars => IInv'
<1> SUFFICES ASSUME IInv, [Next]_vars PROVE IInv'
  OBVIOUS
<1>1. TypeOK'
  BY CallTypeStep, ObjectTypeStep, BlockTypeStep, SeenTypeStep DEF TypeOK
<1> QED BY <1>1, CallInvStep, FillInvStep, CommandStep, WireInvStep, ReadInvStep,
           ByteOrderStep, FullReadStep DEF IInv

\* The inductive invariant holds in every reachable state, for any number of
\* tasks, any FIFO depth and any requests (transaction, isr).
THEOREM Invariance == Spec => []IInv
BY InitIInv, IInvStep, PTL DEF Spec

\* No counter of PicoI2C passes below zero, the receive buffer is not overrun
\* and no FIFO is written beyond its depth.
THEOREM TypeCorrect == Spec => []TypeOK
<1>1. IInv => TypeOK
  BY DEF IInv
<1> QED BY <1>1, Invariance, PTL

\* Whatever the split of the work between transaction() and isr(), the block
\* is given the expected commands with RESTART and STOP where they belong.
THEOREM CommandStreamCorrect == Spec => []CommandStream
<1>1. IInv => CommandStream
  BY DEF IInv
<1> QED BY <1>1, Invariance, PTL

\* isr() only runs for a call that has not returned, and would notify the
\* task that made it: the caller's buffers are never used after the return.
THEOREM BuffersLiveCorrect == Spec => []BuffersLive
<1>1. IInv => BuffersLive
  BY DEF IInv, CallInv, BuffersLive
<1> QED BY <1>1, Invariance, PTL

\* transaction() returns the sum of its lengths for a call with a read part
\* only when the slave acknowledged every command and the buffer holds the
\* bytes of this call in order.
THEOREM FullReadCorrect == Spec => []FullReadIsTrue
<1>1. IInv => FullReadIsTrue
  BY DEF IInv
<1> QED BY <1>1, Invariance, PTL
(***************************************************************************)
(* The refinement of I2cService.                                           *)
(***************************************************************************)
\* The sum of the lengths of the running or latest call bounds its result.
LEMMA Answers ==
  ASSUME IInv
  PROVE  count \in 0..(req.w + req.r) /\ req.w \in Nat /\ req.r \in Nat
BY Counters DEF IInv, TypeOK, CallType

\* Every step of the tasks, the handler and the block is a step of the
\* service or invisible to it: Begin is Call, BusAck is Acknowledge, IsrDrain
\* is Store and Return is Return.
LEMMA ServiceStep == ASSUME IInv, [Next]_vars PROVE [Service!Next]_Service!vars
<1> USE DEF object, block, seen
<1>0. TypeOK /\ CallInv /\ ReadInv /\ ByteOrder /\ FullReadIsTrue
  BY DEF IInv
<1>t. pc \in [Tasks -> {"idle", "tx_fill", "rx_fill", "take", "count", "irq_off"}]
  BY <1>0 DEF TypeOK, CallType
<1>1. ASSUME NEW t \in Tasks, Begin(t) PROVE Service!Next
  <2>1. /\ owner = NoTask /\ owner' = t /\ req' \in Requests
        /\ done' = 0 /\ rbuffer' = <<>>
    BY <1>1 DEF Begin
  <2>2. owner' # NoTask
    BY <2>1, TaskAssumption
  <2>3. Service!Call(t)
    BY <2>1, <2>2 DEF Service!Call
  <2> QED BY <2>3 DEF Service!Next
<1>2. ASSUME NEW t \in Tasks, Return(t) PROVE Service!Next
  <2>1. /\ owner' = NoTask /\ UNCHANGED <<req, count, done, rbuffer>> /\ pc[t] = "irq_off"
    BY <1>2 DEF Return, TaskRuns
  <2>2. owner = t /\ owner # NoTask
    BY <1>0, <2>1, TaskAssumption DEF CallInv
  <2>3. count = req.w + req.r /\ req.r > 0 => Service!Served
    BY <1>0, <2>1 DEF FullReadIsTrue, Complete, Service!Served
  <2>4. count \in 0..(req.w + req.r)
    BY Answers
  <2>5. Service!Return
    BY <2>1, <2>2, <2>3, <2>4 DEF Service!Return
  <2> QED BY <2>5 DEF Service!Next
<1>3. CASE BusAck
  <2>1. done < req.w + req.r
    BY <1>3, OnWireCmd DEF BusAck
  <2>2. done' = done + 1 /\ UNCHANGED <<owner, req, count, rbuffer>>
    BY <1>3 DEF BusAck, BusUnchanged
  <2>3. Service!Acknowledge
    BY <2>1, <2>2 DEF Service!Acknowledge
  <2> QED BY <2>3 DEF Service!Next
<1>4. CASE IsrDrain
  <2>1. /\ isr = "drain" /\ rcnt > 0 /\ rxfifo # <<>>
        /\ rbuffer' = Append(rbuffer, Head(rxfifo))
        /\ UNCHANGED <<owner, req, count, done>>
    BY <1>4 DEF IsrDrain
  <2>2. owner # NoTask
    BY <1>0, <2>1 DEF CallInv
  <2>3. Len(rbuffer) < req.r
    <3>1. Len(rbuffer) = req.r - rcnt /\ rcnt \in Nat /\ req.r \in Nat
      BY <1>0, Counters DEF TypeOK, ObjectType
    <3> QED BY <2>1, <3>1
  <2>4. Head(rxfifo) \in Int /\ Head(rxfifo) >= 1 /\ Head(rxfifo) <= nread
    <3>1. rxfifo \in Seq(1..req.r) /\ req.r \in Nat
      BY <1>0, Counters DEF TypeOK, BlockType
    <3>2. Head(rxfifo) = rxfifo[1] /\ 1 \in 1..Len(rxfifo)
      BY <2>1, <3>1
    <3>3. rxfifo[1] \in 1..req.r
      BY <3>1, <3>2
    <3>4. rxfifo[1] <= nread
      BY <1>0, <3>2 DEF ByteOrder
    <3> QED BY <3>1, <3>2, <3>3, <3>4
  <2>5. Head(rxfifo) \in 1..(done - req.w)
    <3>1. nread = IF done > req.w THEN done - req.w ELSE 0
      BY <1>0 DEF ReadInv
    <3>2. done \in Nat /\ req.w \in Nat
      BY WireFacts, Counters
    <3> QED BY <2>4, <3>1, <3>2
  <2>6. rbuffer # <<>> => Head(rxfifo) > rbuffer[Len(rbuffer)]
    <3>1. rxfifo \in Seq(1..req.r) /\ rbuffer \in Seq(1..req.r)
      BY <1>0 DEF TypeOK, BlockType, ObjectType
    <3>2. Head(rxfifo) = rxfifo[1] /\ 1 \in 1..Len(rxfifo)
      BY <2>1, <3>1
    <3>3. rbuffer # <<>> => rbuffer[Len(rbuffer)] < rxfifo[1]
      BY <1>0, <3>2 DEF ByteOrder
    <3> QED BY <3>1, <3>2, <3>3
  <2>7. Service!Store
    BY <2>1, <2>2, <2>3, <2>5, <2>6 DEF Service!Store
  <2> QED BY <2>7 DEF Service!Next
<1>6. ASSUME NEW t \in Tasks, Fill(t) \/ Take(t)
      PROVE  UNCHANGED Service!vars
  BY <1>6 DEF Fill, Take, Service!vars
<1>7. ASSUME NEW t \in Tasks, TimeOut(t) \/ Count(t)
      PROVE  UNCHANGED Service!vars
  <2>1. UNCHANGED <<owner, req, done, rbuffer>> /\ pc[t] # "idle"
    BY <1>7 DEF TimeOut, Count, TaskRuns
  <2>2. owner # NoTask
    BY <1>0, <2>1, TaskAssumption DEF CallInv
  <2> QED BY <2>1, <2>2 DEF Service!vars
<1>8. CASE IsrEnter \/ IsrDrained \/ IsrFill \/ IsrStop
  BY <1>8 DEF IsrEnter, IsrDrained, IsrFill, IsrStop, Service!vars
<1>9. CASE BusFetch \/ BusNack \/ BusStop
  BY <1>9 DEF BusFetch, BusNack, BusStop, BusUnchanged, Service!vars
<1>10. CASE UNCHANGED vars
  BY <1>10 DEF vars, Service!vars
<1> QED BY <1>1, <1>2, <1>3, <1>4, <1>6, <1>7, <1>8, <1>9, <1>10 DEF Next, Task, Isr, Bus

\* transaction() and isr() implement the service: calls of different tasks do
\* not overlap, bytes reach a buffer only while its call runs and in the order
\* of the wire, and a full result of a call with a read part is true.
THEOREM ImplementsServiceCorrect == Spec => ImplementsService
<1>1. Init => Service!Init
  BY DEF Init, Service!Init, NoReq
<1>2. IInv /\ [Next]_vars => [Service!Next]_Service!vars
  BY ServiceStep
<1> QED BY <1>1, <1>2, Invariance, PTL DEF Spec, ImplementsService, Service!Spec
(***************************************************************************)
(* Calls that are served in time: the invariant behind EveryCallComplete.  *)
(***************************************************************************)
\* How late the bus and the processor may be is decided once.
LEMMA PaceStep ==
  ASSUME [Next]_vars
  PROVE  /\ pace' # "late" => pace # "late"
         /\ pace' \in {"prompt", "behind"} => pace \in {"prompt", "behind"}
<1> USE DEF object, block, seen
<1>1. ASSUME NEW t \in Tasks, Task(t)
      PROVE  pace' = pace \/ (pace = "behind" /\ pace' = "prompt")
  BY <1>1 DEF Task, Begin, Fill, Take, TimeOut, Count, Return
<1>2. CASE Isr
  BY <1>2 DEF Isr, IsrEnter, IsrDrain, IsrDrained, IsrFill, IsrStop
<1>3. CASE Bus
  BY <1>3 DEF Bus, BusFetch, BusAck, BusNack, BusStop, Paced
<1>4. CASE UNCHANGED vars
  BY <1>4 DEF vars
<1> QED BY <1>1, <1>2, <1>3, <1>4 DEF Next

\* What is on the wire, and what it means for the transfer.
LEMMA WireKinds ==
  ASSUME IInv
  PROVE  /\ shift = NoCmd \/ shift = SendStop \/ shift.op \in {"write", "read"}
         /\ NoCmd # SendStop
         /\ shift.op \in {"write", "read"} => shift # NoCmd /\ shift # SendStop
<1>1. shift \in Byte(req.w) \cup {NoCmd, SendStop}
  BY DEF IInv, TypeOK, BlockType
<1>2. shift \in Byte(req.w) => shift.op \in {"write", "read"}
  BY DEF Byte
<1>3. NoCmd.op = "none" /\ SendStop.op = "stop"
  BY DEF NoCmd, SendStop
<1> QED BY <1>1, <1>2, <1>3

\* A transfer that is over has nothing left in the TX FIFO.
LEMMA OverIsEmpty ==
  ASSUME IInv, aborted \/ done = req.w + req.r
  PROVE  txfifo = <<>> /\ (done = req.w + req.r => wctr = 0 /\ rctr = 0)
<1>n. /\ req.w \in Nat /\ req.r \in Nat /\ wctr \in Nat /\ rctr \in Nat
      /\ wctr <= req.w /\ rctr <= req.r
      /\ Len(cmds) = (req.w - wctr) + (req.r - rctr)
      /\ done \in Nat /\ Len(txfifo) \in Nat /\ OnWire \in {0, 1}
      /\ Len(cmds) \in Nat
      /\ done + OnWire + Len(txfifo) <= Len(cmds)
  BY Counters, WireFacts DEF OnWire
<1>1. ASSUME done = req.w + req.r PROVE Len(txfifo) = 0 /\ wctr = 0 /\ rctr = 0
  <2>1. Len(txfifo) + wctr + rctr <= 0
    <3>1. OnWire \in Nat
      BY <1>n
    <3>2. req.w + req.r + OnWire + Len(txfifo) <= (req.w - wctr) + (req.r - rctr)
      BY <1>n, <1>1
    <3> QED BY <1>n, <3>1, <3>2, SMTT(30)
  <2> QED BY <1>n, <2>1
<1>2. Len(txfifo) = 0 => txfifo = <<>>
  BY DEF IInv, TypeOK, BlockType
<1>3. aborted => txfifo = <<>>
  BY DEF IInv, WireInv
<1> QED BY <1>1, <1>2, <1>3

\* A call ends by its own STOP, and leaves nothing behind for the next one:
\* each step of the tasks, the handler and the block, while the bus is not late.
LEMMA EndsByStopStep ==
  ASSUME IInv, EndsByStop, pace # "late", [Next]_vars
  PROVE  EndsByStop'
<1> USE DEF object, block, seen
<1>0. /\ \A t \in Tasks : pc[t] # "idle" <=> owner = t
      /\ owner # NoTask => task_to_notify = owner
      /\ nvic => owner # NoTask /\ pc[owner] \in {"take", "count", "irq_off"}
      /\ isr # "off" => nvic
  BY DEF IInv, CallInv
<1>t. /\ pc \in [Tasks -> {"idle", "tx_fill", "rx_fill", "take", "count", "irq_off"}]
      /\ notified \in [Tasks -> {0, 1}]
      /\ owner \in Tasks \cup {NoTask} /\ task_to_notify \in Tasks \cup {NoTask}
  BY DEF IInv, TypeOK, CallType
<1>1. ASSUME NEW t \in Tasks, Begin(t) PROVE EndsByStop'
  <2>1. /\ owner = NoTask /\ owner' = t /\ notified' = notified /\ nvic' = nvic
        /\ shift' = NoCmd /\ txfifo' = <<>> /\ stopped' = FALSE
        /\ intr_mask' = {"STOP_DET", "TX_EMPTY", "RX_FULL"}
        /\ stop_det' \in {stop_det, stop_det \/ (StopOnDisable /\ shift # NoCmd)}
    BY <1>1 DEF Begin
  <2>2. shift = NoCmd /\ stop_det = FALSE
    BY <2>1 DEF EndsByStop, IInv, TypeOK, BlockType
  <2>3. ~stop_det'
    BY <2>1, <2>2
  <2>4. \A u \in Tasks : pc[u] = "idle"
    BY <1>0, <2>1, TaskAssumption
  <2>5. PICK p \in {"tx_fill", "rx_fill"} : pc' = [pc EXCEPT ![t] = p]
    BY <1>1 DEF Begin, GoTo
  <2>6. \A u \in Tasks : pc'[u] \in {"idle", "tx_fill", "rx_fill"}
    BY <1>t, <2>4, <2>5
  <2>7. \A u \in Tasks : ~(notified'[u] > 0)
    BY <2>1, <2>4 DEF EndsByStop
  <2>8. owner' # NoTask
    BY <2>1, TaskAssumption
  <2>9. shift' # SendStop
    BY <2>1, WireKinds
  <2> QED BY <2>1, <2>3, <2>6, <2>7, <2>8, <2>9 DEF EndsByStop
<1>2. ASSUME NEW t \in Tasks, Fill(t) PROVE EndsByStop'
  <2>1. /\ UNCHANGED <<owner, req, notified, intr_mask, stop_det, shift, aborted, done, stopped>>
        /\ pc[t] \in {"tx_fill", "rx_fill"}
    BY <1>2 DEF Fill
  <2>2. owner = t /\ owner # NoTask
    BY <1>0, <2>1, TaskAssumption
  <2>3. \/ pc' = pc /\ nvic' = nvic
        \/ pc' = [pc EXCEPT ![t] = "take"] /\ nvic' = TRUE
    BY <1>2 DEF Fill, GoTo
  <2>4. \A u \in Tasks : pc'[u] \in {"take", "count", "irq_off"} => nvic'
    BY <1>t, <2>3 DEF EndsByStop
  <2>5. \A u \in Tasks : /\ pc'[u] \in {"count", "irq_off"} => pc[u] \in {"count", "irq_off"}
                         /\ pc[u] = "take" => pc'[u] = "take"
    BY <1>t, <2>1, <2>3
  <2> QED BY <2>1, <2>2, <2>4, <2>5 DEF EndsByStop
<1>3. ASSUME NEW t \in Tasks, Take(t) PROVE EndsByStop'
  <2>1. /\ pc[t] = "take" /\ notified[t] > 0
        /\ notified' = [notified EXCEPT ![t] = 0] /\ pc' = [pc EXCEPT ![t] = "count"]
        /\ UNCHANGED <<owner, req, nvic, intr_mask, stop_det, txfifo, shift, aborted, done, stopped>>
    BY <1>3 DEF Take, TaskRuns, GoTo
  <2>2. stopped /\ ~stop_det
    BY <2>1 DEF EndsByStop
  <2>3. \A u \in Tasks \ {t} : notified'[u] = notified[u] /\ pc'[u] = pc[u]
    BY <1>t, <2>1
  <2>4. notified'[t] = 0 /\ pc'[t] = "count"
    BY <1>t, <2>1
  <2>5. \A u \in Tasks : pc'[u] \in {"take", "count", "irq_off"} => nvic'
    BY <2>1, <2>3, <2>4 DEF EndsByStop
  <2>6. \A u \in Tasks : notified'[u] > 0 => pc'[u] = "take"
    BY <2>3, <2>4 DEF EndsByStop
  <2> QED BY <2>1, <2>2, <2>5, <2>6 DEF EndsByStop
<1>4. ASSUME NEW t \in Tasks, TimeOut(t) PROVE EndsByStop'
  BY <1>4 DEF TimeOut
<1>5. ASSUME NEW t \in Tasks, Count(t) PROVE EndsByStop'
  <2>1. /\ pc[t] = "count" /\ pc' = [pc EXCEPT ![t] = "irq_off"]
        /\ UNCHANGED <<owner, req, notified, nvic, intr_mask, stop_det, txfifo, shift, aborted, done, stopped>>
    BY <1>5 DEF Count, TaskRuns, GoTo
  <2>2. stopped /\ ~stop_det /\ nvic
    BY <2>1 DEF EndsByStop
  <2>3. \A u \in Tasks : notified[u] > 0 => u # t /\ pc'[u] = "take"
    BY <1>t, <2>1 DEF EndsByStop
  <2> QED BY <2>1, <2>2, <2>3 DEF EndsByStop
<1>6. ASSUME NEW t \in Tasks, Return(t) PROVE EndsByStop'
  <2>1. /\ pc[t] = "irq_off" /\ pc' = [pc EXCEPT ![t] = "idle"] /\ owner' = NoTask
        /\ UNCHANGED <<req, notified, intr_mask, stop_det, txfifo, shift, aborted, done, stopped>>
    BY <1>6 DEF Return, TaskRuns, GoTo
  <2>2. stopped /\ ~stop_det /\ shift = NoCmd /\ (aborted \/ done = req.w + req.r)
    BY <2>1 DEF EndsByStop
  <2>3. txfifo = <<>>
    BY <2>2, OverIsEmpty
  <2>4. owner = t
    BY <1>0, <2>1
  <2>5. \A u \in Tasks : pc'[u] = "idle"
    BY <1>0, <1>t, <2>1, <2>4
  <2>6. \A u \in Tasks : ~(notified[u] > 0)
    BY <1>0, <2>1, <2>4 DEF EndsByStop
  <2> QED BY <2>1, <2>2, <2>3, <2>5, <2>6 DEF EndsByStop
<1>7. CASE IsrEnter \/ IsrDrain \/ IsrDrained
  BY <1>7 DEF IsrEnter, IsrDrain, IsrDrained, EndsByStop
<1>8. CASE IsrFill
  <2>1. /\ isr # "off"
        /\ UNCHANGED <<pc, owner, req, notified, nvic, stop_det, shift, aborted, done, stopped>>
    BY <1>8 DEF IsrFill
  <2>2. owner # NoTask
    BY <1>0, <2>1
  <2>3. intr_mask' = intr_mask \/ intr_mask' = {"STOP_DET", "RX_FULL"}
    BY <1>8 DEF IsrFill, MaskWhenAllSent
  <2> QED BY <2>1, <2>2, <2>3 DEF EndsByStop
<1>9. CASE IsrStop
  <2>1. /\ isr # "off"
        /\ UNCHANGED <<pc, owner, req, nvic, txfifo, shift, aborted, done, stopped>>
    BY <1>9 DEF IsrStop
  <2>2. owner # NoTask /\ task_to_notify = owner /\ owner \in Tasks
        /\ pc[owner] \in {"take", "count", "irq_off"}
    BY <1>0, <1>t, <2>1
  <2>3. CASE ~StopDetected
    BY <1>9, <2>1, <2>3 DEF IsrStop, EndsByStop
  <2>4. CASE StopDetected
    <3>1. stop_det
      BY <2>4 DEF StopDetected, intr_stat, Raised
    <3>2. stopped /\ pc[owner] = "take"
      BY <2>2, <3>1 DEF EndsByStop
    <3>3. stop_det' = FALSE /\ notified' = [notified EXCEPT ![owner] = 1]
      BY <1>9, <2>2, <2>4 DEF IsrStop, Notify
    <3>4. \A u \in Tasks : notified'[u] > 0 => pc[u] = "take"
      BY <1>t, <3>2, <3>3 DEF EndsByStop
    <3> QED BY <2>1, <2>2, <3>2, <3>3, <3>4 DEF EndsByStop
  <2> QED BY <2>3, <2>4
<1>10. CASE BusFetch
  <2>1. /\ shift = NoCmd /\ txfifo # <<>> /\ shift' = Head(txfifo) /\ txfifo' = Tail(txfifo)
        /\ UNCHANGED <<pc, owner, req, notified, nvic, intr_mask, stop_det, aborted, done, stopped>>
    BY <1>10 DEF BusFetch, BusUnchanged
  <2>2. ~stopped /\ owner # NoTask
    BY <2>1, OverIsEmpty DEF EndsByStop
  <2>3. Head(txfifo) \in Byte(req.w)
    BY <2>1 DEF IInv, TypeOK, BlockType
  <2>4. shift' # SendStop
    <3>1. shift'.op \in {"write", "read"}
      BY <2>1, <2>3 DEF Byte
    <3> QED BY <3>1 DEF SendStop
  <2> QED BY <2>1, <2>2, <2>4 DEF EndsByStop
<1>11. CASE BusAck
  <2>1. /\ shift.op \in {"write", "read"} /\ done' = done + 1
        /\ shift' = IF shift.stop = 1 THEN SendStop ELSE NoCmd
        /\ UNCHANGED <<pc, owner, req, notified, nvic, intr_mask, stop_det, txfifo, aborted, stopped>>
    BY <1>11 DEF BusAck, BusUnchanged
  <2>2. shift # NoCmd
    BY <2>1, WireKinds
  <2>3. ~stopped /\ owner # NoTask
    BY <2>2 DEF EndsByStop
  <2>4. shift' = SendStop => done' = req'.w + req'.r
    <3>1. shift.stop = 1 <=> done + 1 = req.w + req.r
      BY <2>1, OnWireCmd
    <3>2. NoCmd # SendStop
      BY WireKinds
    <3> QED BY <2>1, <3>1, <3>2
  <2> QED BY <2>1, <2>3, <2>4 DEF EndsByStop
<1>12. CASE BusNack
  <2>1. /\ shift' = SendStop /\ txfifo' = <<>> /\ aborted' = TRUE
        /\ shift.op \in {"write", "read"}
        /\ UNCHANGED <<pc, owner, req, notified, nvic, intr_mask, stop_det, done, stopped>>
    BY <1>12 DEF BusNack, BusUnchanged
  <2>2. shift # NoCmd
    BY <2>1, WireKinds
  <2>3. ~stopped /\ owner # NoTask
    BY <2>2 DEF EndsByStop
  <2> QED BY <2>1, <2>3 DEF EndsByStop
<1>13. CASE BusStop
  <2>1. /\ shift = SendStop /\ shift' = NoCmd /\ stop_det' = TRUE /\ stopped' = TRUE
        /\ UNCHANGED <<pc, owner, req, notified, nvic, intr_mask, txfifo, aborted, done>>
    BY <1>13 DEF BusStop, BusUnchanged
  <2>2. shift # NoCmd
    BY <2>1, WireKinds
  <2>3. /\ ~stopped /\ owner # NoTask /\ (aborted \/ done = req.w + req.r)
        /\ \A u \in Tasks : pc[u] \notin {"count", "irq_off"} /\ ~(notified[u] > 0)
    BY <2>1, <2>2 DEF EndsByStop
  <2> QED BY <2>1, <2>3 DEF EndsByStop
<1>14. CASE UNCHANGED vars
  BY <1>14 DEF vars, EndsByStop
<1> QED BY <1>1, <1>2, <1>3, <1>4, <1>5, <1>6, <1>7, <1>8, <1>9, <1>10, <1>11,
           <1>12, <1>13, <1>14 DEF Next, Task, Isr, Bus
\* A processor that is not due has no command waiting for it: while a call is
\* on the wire the RX FIFO is not above its level (isr, RX_FULL).
LEMMA NotDue ==
  ASSUME IInv, EndsByStop, ~CpuDue, shift # NoCmd
  PROVE  Len(rxfifo) <= RxTl
<1>1. owner # NoTask /\ ~stopped
  BY DEF EndsByStop
<1>2. owner \in Tasks /\ pc[owner] # "idle"
  BY <1>1 DEF IInv, TypeOK, CallType, CallInv
<1>3. pc[owner] \in {"take", "count", "irq_off"}
  BY <1>2 DEF CpuDue, IInv, TypeOK, CallType
<1>4. nvic /\ "RX_FULL" \in intr_mask
  BY <1>1, <1>2, <1>3 DEF EndsByStop
<1>5. ~Raised["RX_FULL"]
  BY <1>4 DEF CpuDue, IrqPending, intr_stat
<1>6. ~(Len(rxfifo) > RxTl)
  BY <1>5 DEF Raised
<1>7. Len(rxfifo) \in Nat
  BY WireFacts
<1> QED BY <1>6, <1>7, FifoAssumption

\* An event of the bus while the processor keeps up: it is entered in `pace`
\* exactly when the processor was due.
LEMMA EventPace ==
  ASSUME Paced, pace \in {"prompt", "behind"}
  PROVE  \/ CpuDue /\ pace = "prompt" /\ pace' = "behind"
         \/ ~CpuDue /\ pace' = "prompt"
BY DEF Paced

\* The bytes of a call that is over: unless one was lost, those not stored
\* yet are in the RX FIFO.
LEMMA MissingAtEnd ==
  ASSUME IInv, lost = 0, done = req.w + req.r
  PROVE  Missing = Len(rxfifo)
<1>1. wctr = 0 /\ req.w \in Nat /\ req.r \in Nat /\ rcnt \in Nat
  BY OverIsEmpty, Counters
<1>2. Len(rbuffer) = req.r - rcnt /\ Len(rxfifo) \in Nat
  BY WireFacts DEF IInv, TypeOK, ObjectType
<1>3. /\ nread = Len(rbuffer) + Len(rxfifo)
      /\ nread = IF done > req.w THEN done - req.w ELSE 0
  BY <1>2, WireFacts DEF IInv, ReadInv
<1>4. nread = req.r
  BY <1>1, <1>3
<1> QED BY <1>1, <1>2, <1>3, <1>4 DEF Missing

\* While the processor keeps up the RX FIFO has room for every byte: above its
\* level the interrupt is pending, and one event later nothing more arrives.
LEMMA RoomStep ==
  ASSUME RxTl + 2 <= FifoDepth,
         IInv, EndsByStop, KeepsUp, pace \in {"prompt", "behind"}, [Next]_vars
  PROVE  lost' = 0 /\ Len(rxfifo') <= RxTl + 1 + Bit(pace' = "behind")
<1> DEFINE Room(p) == RxTl + 1 + Bit(p = "behind")
<1> SUFFICES lost' = 0 /\ Len(rxfifo') <= Room(pace')
  OBVIOUS
<1>r. /\ Room("prompt") = RxTl + 1 /\ Room("behind") = RxTl + 2
      /\ \A p : Room(p) \in Nat /\ RxTl + 1 <= Room(p)
  BY FifoAssumption DEF Bit
<1>0. lost = 0 /\ Len(rxfifo) <= Room(pace)
  BY DEF KeepsUp
<1>n. Len(rxfifo) \in Nat /\ RxTl \in Nat /\ FifoDepth \in Nat
  BY WireFacts, FifoAssumption
<1>s. rxfifo \in Seq(1..req.r)
  BY DEF IInv, TypeOK, BlockType
<1> HIDE DEF Room
<1> USE DEF object, block, seen
<1>1. ASSUME NEW t \in Tasks, Begin(t) PROVE lost' = 0 /\ Len(rxfifo') <= Room(pace')
  <2>1. lost' = 0 /\ rxfifo' = <<>>
    BY <1>1 DEF Begin
  <2>2. Len(rxfifo') = 0
    BY <2>1
  <2> QED BY <1>n, <1>r, <2>1, <2>2
<1>2. CASE IsrDrain
  <2>1. rxfifo # <<>> /\ rxfifo' = Tail(rxfifo) /\ lost' = lost /\ pace' = pace
    BY <1>2 DEF IsrDrain
  <2>2. Len(rxfifo') = Len(rxfifo) - 1
    BY <1>s, <2>1, HeadTailProperties
  <2> QED BY <1>0, <1>n, <1>r, <2>1, <2>2
<1>3. CASE BusAck
  <2>1. shift # NoCmd /\ Paced
    BY <1>3, WireKinds DEF BusAck
  <2>2. \/ Len(rxfifo) <= RxTl + 1 /\ pace' = "behind"
        \/ Len(rxfifo) <= RxTl /\ pace' = "prompt"
    BY <1>0, <1>r, <2>1, NotDue, EventPace
  <2>3. Len(rxfifo) < FifoDepth
    BY <1>n, <2>2
  <2>4. lost' = lost /\ (rxfifo' = rxfifo \/ rxfifo' = Append(rxfifo, nread + 1))
    BY <1>3, <2>3 DEF BusAck
  <2>5. Len(rxfifo') \in {Len(rxfifo), Len(rxfifo) + 1}
    BY <1>s, <2>4, AppendProperties
  <2> QED BY <1>0, <1>n, <1>r, <2>2, <2>4, <2>5
<1>4. CASE BusNack \/ BusStop
  <2>1. Paced /\ lost' = lost /\ rxfifo' = rxfifo
    BY <1>4 DEF BusNack, BusStop
  <2>2. shift # NoCmd
    BY <1>4, WireKinds DEF BusNack, BusStop
  <2>3. \/ Len(rxfifo) <= RxTl + 1 /\ pace' = "behind"
        \/ Len(rxfifo) <= RxTl /\ pace' = "prompt"
    BY <1>0, <1>r, <2>1, <2>2, NotDue, EventPace
  <2> QED BY <1>0, <1>n, <1>r, <2>1, <2>3
<1>5. CASE UNCHANGED <<lost, rxfifo, pace>>
  BY <1>0, <1>5
<1>6. ASSUME NEW t \in Tasks, Fill(t) \/ Take(t) \/ TimeOut(t) \/ Count(t) \/ Return(t)
      PROVE  lost' = 0 /\ Len(rxfifo') <= Room(pace')
  BY <1>5, <1>6 DEF Fill, Take, TimeOut, Count, Return
<1>7. CASE IsrEnter \/ IsrDrained \/ IsrFill \/ IsrStop
  BY <1>5, <1>7 DEF IsrEnter, IsrDrained, IsrFill, IsrStop
<1>8. CASE BusFetch
  BY <1>5, <1>8 DEF BusFetch, BusUnchanged
<1>9. CASE UNCHANGED vars
  BY <1>5, <1>9 DEF vars
<1> QED BY <1>1, <1>2, <1>3, <1>4, <1>6, <1>7, <1>8, <1>9 DEF Next, Task, Isr, Bus

\* The conjunct of KeepsUp about what isr() has drained.
Drained == isr \in {"tx_fill", "rx_fill", "stop"} /\ rxfifo # <<>>
             => pace = "behind" /\ ~stop_det

\* A byte that arrives after isr() has drained the RX FIFO is the one event a
\* processor that keeps up allows: the STOP behind it waits until isr() is over.
LEMMA DrainedStep ==
  ASSUME IInv, EndsByStop, KeepsUp, pace \in {"prompt", "behind"}, [Next]_vars
  PROVE  Drained'
<1> USE DEF object, block, seen
<1>0. Drained
  BY DEF Drained, KeepsUp
<1>1. CASE isr' \in {"off", "drain"}
  BY <1>1 DEF Drained
<1>2. CASE UNCHANGED <<isr, rxfifo, pace, stop_det>>
  BY <1>0, <1>2 DEF Drained
<1>3. ASSUME NEW t \in Tasks, Begin(t) PROVE Drained'
  BY <1>3 DEF Begin, Drained, TaskRuns
<1>4. ASSUME NEW t \in Tasks, Fill(t) \/ Take(t) \/ TimeOut(t) \/ Count(t) \/ Return(t)
      PROVE  Drained'
  BY <1>2, <1>4 DEF Fill, Take, TimeOut, Count, Return
<1>5. CASE IsrEnter \/ IsrDrain \/ IsrStop
  BY <1>1, <1>5 DEF IsrEnter, IsrDrain, IsrStop
<1>6. CASE IsrDrained
  <2>1. (rcnt = 0 \/ rxfifo = <<>>) /\ rxfifo' = rxfifo
    BY <1>6 DEF IsrDrained
  <2>2. ASSUME rcnt = 0 PROVE rxfifo = <<>>
    <3>1. /\ Len(rbuffer) = req.r /\ nread = Len(rbuffer) + Len(rxfifo) + lost
          /\ nread <= req.r /\ req.r \in Nat /\ nread \in Nat /\ lost \in Nat /\ Len(rxfifo) \in Nat
      BY <2>2, WireFacts, Counters DEF IInv, TypeOK, SeenType
    <3>2. Len(rxfifo) = 0
      BY <3>1
    <3> QED BY <3>2 DEF IInv, TypeOK, BlockType
  <2> QED BY <2>1, <2>2 DEF Drained
<1>7. CASE IsrFill
  <2>1. /\ isr \in {"tx_fill", "rx_fill"} /\ UNCHANGED <<rxfifo, pace, stop_det>>
    BY <1>7 DEF IsrFill
  <2> QED BY <1>0, <2>1 DEF Drained
<1>8. CASE BusFetch
  BY <1>2, <1>8 DEF BusFetch, BusUnchanged
<1>9. CASE BusAck
  <2>1. /\ isr' = isr /\ stop_det' = stop_det /\ Paced /\ shift.op \in {"write", "read"}
    BY <1>9 DEF BusAck, BusUnchanged
  <2>2. ~stop_det
    BY <2>1, WireKinds DEF EndsByStop
  <2>3. isr # "off" => pace' = "behind"
    BY <2>1, EventPace DEF CpuDue
  <2> QED BY <2>1, <2>2, <2>3 DEF Drained
<1>10. CASE BusNack \/ BusStop
  <2>1. isr' = isr /\ rxfifo' = rxfifo /\ Paced
    BY <1>10 DEF BusNack, BusStop, BusUnchanged
  <2>2. ASSUME isr \in {"tx_fill", "rx_fill", "stop"}, rxfifo # <<>> PROVE FALSE
    <3>1. CpuDue /\ pace = "behind"
      BY <1>0, <2>2 DEF Drained, CpuDue
    <3> QED BY <2>1, <3>1, EventPace
  <2> QED BY <2>1, <2>2 DEF Drained
<1>11. CASE UNCHANGED vars
  BY <1>2, <1>11 DEF vars
<1> QED BY <1>3, <1>4, <1>5, <1>6, <1>7, <1>8, <1>9, <1>10, <1>11 DEF Next, Task, Isr, Bus

\* The conjunct of KeepsUp about a call whose STOP has been notified.
Settled == \A t \in Tasks : notified[t] > 0 \/ pc[t] = "count" => aborted \/ Missing = 0

\* When isr() notifies the task, the bytes of the call are in its buffer or the
\* slave refused; nothing that happens until the task has counted changes that.
LEMMA SettledStep ==
  ASSUME IInv, EndsByStop, KeepsUp, pace \in {"prompt", "behind"}, [Next]_vars
  PROVE  Settled'
<1> USE DEF object, block, seen
<1>0. Settled
  BY DEF Settled, KeepsUp
<1>c. \A u \in Tasks : notified[u] > 0 => owner = u /\ pc[u] = "take"
  BY DEF EndsByStop, IInv, CallInv
<1>p. \A u \in Tasks : pc[u] # "idle" <=> owner = u
  BY DEF IInv, CallInv
<1>t. /\ pc \in [Tasks -> {"idle", "tx_fill", "rx_fill", "take", "count", "irq_off"}]
      /\ notified \in [Tasks -> {0, 1}]
  BY DEF IInv, TypeOK, CallType
<1>m. wctr \in Nat /\ rctr \in Nat /\ rcnt \in Nat
  BY Counters
<1>1. CASE UNCHANGED <<notified, pc, rcnt, wctr>> /\ (aborted => aborted')
  BY <1>0, <1>1 DEF Settled, Missing
<1>2. ASSUME NEW t \in Tasks, Begin(t) PROVE Settled'
  <2>1. owner = NoTask /\ notified' = notified
    BY <1>2 DEF Begin
  <2>2. PICK p \in {"tx_fill", "rx_fill"} : pc' = [pc EXCEPT ![t] = p]
    BY <1>2 DEF Begin, GoTo
  <2>3. \A u \in Tasks : pc[u] = "idle" /\ ~(notified'[u] > 0)
    BY <1>c, <1>p, <2>1, TaskAssumption
  <2>4. \A u \in Tasks : pc'[u] # "count"
    BY <1>t, <2>2, <2>3
  <2> QED BY <2>3, <2>4 DEF Settled
<1>3. ASSUME NEW t \in Tasks, Fill(t) PROVE Settled'
  <2>1. pc[t] \in {"tx_fill", "rx_fill"} /\ notified' = notified
    BY <1>3 DEF Fill
  <2>2. pc' = pc \/ pc' = [pc EXCEPT ![t] = "take"]
    BY <1>3 DEF Fill, GoTo
  <2>3. \A u \in Tasks : pc[u] # "count" /\ ~(notified'[u] > 0)
    BY <1>c, <1>p, <2>1
  <2>4. \A u \in Tasks : pc'[u] # "count"
    BY <1>t, <2>2, <2>3
  <2> QED BY <2>3, <2>4 DEF Settled
<1>4. ASSUME NEW t \in Tasks, Take(t) PROVE Settled'
  <2>1. notified[t] > 0 /\ UNCHANGED <<rcnt, wctr, aborted>>
    BY <1>4 DEF Take
  <2>2. aborted \/ Missing = 0
    BY <1>0, <2>1 DEF Settled
  <2> QED BY <2>1, <2>2 DEF Settled, Missing
<1>5. ASSUME NEW t \in Tasks, TimeOut(t) PROVE Settled'
  BY <1>5 DEF TimeOut
<1>6. ASSUME NEW t \in Tasks, Count(t) \/ Return(t) PROVE Settled'
  <2>1. UNCHANGED <<notified, rcnt, wctr, aborted>>
    BY <1>6 DEF Count, Return
  <2>2. PICK p \in {"irq_off", "idle"} : pc' = [pc EXCEPT ![t] = p]
    BY <1>6 DEF Count, Return, GoTo
  <2>3. \A u \in Tasks : pc'[u] = "count" => pc[u] = "count"
    BY <1>t, <2>2
  <2> QED BY <1>0, <2>1, <2>3 DEF Settled, Missing
<1>7. CASE IsrEnter \/ IsrDrained
  BY <1>1, <1>7 DEF IsrEnter, IsrDrained
<1>8. CASE IsrDrain
  <2>1. rcnt > 0 /\ UNCHANGED <<notified, pc, aborted>>
    BY <1>8 DEF IsrDrain
  <2>2. Missing # 0
    BY <1>m, <2>1 DEF Missing
  <2> QED BY <1>0, <2>1, <2>2 DEF Settled
<1>9. CASE IsrFill
  <2>1. UNCHANGED <<notified, pc, aborted, rcnt>>
    BY <1>9 DEF IsrFill
  <2>2. wctr > 0 \/ wctr' = wctr
    BY <1>9 DEF IsrFill, Push, PushWrite, PushRead
  <2>3. CASE wctr > 0
    <3>1. Missing # 0
      BY <1>m, <2>3 DEF Missing
    <3> QED BY <1>0, <2>1, <3>1 DEF Settled
  <2> QED BY <1>1, <2>1, <2>2, <2>3
<1>10. CASE IsrStop
  <2>1. isr = "stop" /\ UNCHANGED <<pc, rcnt, wctr, aborted, owner>>
    BY <1>10 DEF IsrStop
  <2>2. CASE ~StopDetected
    BY <1>1, <1>10, <2>1, <2>2 DEF IsrStop
  <2>3. CASE StopDetected
    <3>1. stop_det
      BY <2>3 DEF StopDetected, intr_stat, Raised
    <3>2. rxfifo = <<>> /\ lost = 0
      BY <2>1, <3>1 DEF KeepsUp
    <3>3. aborted \/ done = req.w + req.r
      BY <3>1 DEF EndsByStop
    <3>4. aborted \/ Missing = 0
      BY <3>2, <3>3, MissingAtEnd
    <3> QED BY <2>1, <3>4 DEF Settled, Missing
  <2> QED BY <2>2, <2>3
<1>11. CASE Bus
  BY <1>1, <1>11 DEF Bus, BusFetch, BusAck, BusNack, BusStop, BusUnchanged
<1>12. CASE UNCHANGED vars
  BY <1>1, <1>12 DEF vars
<1> QED BY <1>2, <1>3, <1>4, <1>5, <1>6, <1>7, <1>8, <1>9, <1>10, <1>11, <1>12
        DEF Next, Task, Isr

\* A call in time counts what it was promised, and its result stays.
LEMMA CompleteStep ==
  ASSUME IInv, KeepsUp, EveryCallComplete, pace \in {"prompt", "behind"}, [Next]_vars
  PROVE  EveryCallComplete'
<1> USE DEF object, block, seen
<1>0. \A u \in Tasks : pc[u] = "irq_off" => Complete \/ aborted
  BY DEF EveryCallComplete
<1>p. \A u \in Tasks : pc[u] # "idle" <=> owner = u
  BY DEF IInv, CallInv
<1>t. pc \in [Tasks -> {"idle", "tx_fill", "rx_fill", "take", "count", "irq_off"}]
  BY DEF IInv, TypeOK, CallType
<1>1. CASE /\ \A u \in Tasks : pc'[u] = "irq_off" => pc[u] = "irq_off"
           /\ UNCHANGED <<req, count>>
           /\ aborted => aborted'
  BY <1>0, <1>1 DEF EveryCallComplete, Complete
<1>2. ASSUME NEW t \in Tasks, Begin(t) PROVE EveryCallComplete'
  <2>1. owner = NoTask
    BY <1>2 DEF Begin
  <2>2. PICK p \in {"tx_fill", "rx_fill"} : pc' = [pc EXCEPT ![t] = p]
    BY <1>2 DEF Begin, GoTo
  <2>3. \A u \in Tasks : pc[u] = "idle"
    BY <1>p, <2>1, TaskAssumption
  <2>4. \A u \in Tasks : pc'[u] # "irq_off"
    BY <1>t, <2>2, <2>3
  <2> QED BY <2>4 DEF EveryCallComplete
<1>3. ASSUME NEW t \in Tasks, Fill(t) \/ Take(t) \/ Return(t) PROVE EveryCallComplete'
  <2>1. UNCHANGED <<req, count, aborted>>
    BY <1>3 DEF Fill, Take, Return
  <2>2. pc' = pc \/ \E p \in {"take", "count", "idle"} : pc' = [pc EXCEPT ![t] = p]
    BY <1>3 DEF Fill, Take, Return, GoTo
  <2>3. \A u \in Tasks : pc'[u] = "irq_off" => pc[u] = "irq_off"
    BY <1>t, <2>2
  <2> QED BY <1>1, <2>1, <2>3
<1>4. ASSUME NEW t \in Tasks, TimeOut(t) PROVE EveryCallComplete'
  BY <1>4 DEF TimeOut
<1>5. ASSUME NEW t \in Tasks, Count(t) PROVE EveryCallComplete'
  <2>1. /\ pc[t] = "count" /\ count' = count - Missing
        /\ UNCHANGED <<req, aborted>>
    BY <1>5 DEF Count, TaskRuns
  <2>2. count = req.w + req.r
    BY <2>1 DEF IInv, CallInv
  <2>3. aborted \/ Missing = 0
    BY <2>1 DEF KeepsUp
  <2>4. count' = req'.w + req'.r \/ aborted'
    <3>1. req.w \in Nat /\ req.r \in Nat
      BY Counters
    <3> QED BY <2>1, <2>2, <2>3, <3>1
  <2> QED BY <2>4 DEF EveryCallComplete, Complete
<1>6. CASE Isr
  BY <1>1, <1>6 DEF Isr, IsrEnter, IsrDrain, IsrDrained, IsrFill, IsrStop
<1>7. CASE Bus
  BY <1>1, <1>7 DEF Bus, BusFetch, BusAck, BusNack, BusStop, BusUnchanged
<1>8. CASE UNCHANGED vars
  BY <1>1, <1>8 DEF vars
<1> QED BY <1>2, <1>3, <1>4, <1>5, <1>6, <1>7, <1>8 DEF Next, Task

\* Before the first call nothing is due and nothing is left behind.
LEMMA InitPaceInv == Init => PaceInv
<1> SUFFICES ASSUME Init PROVE PaceInv
  OBVIOUS
<1>1. /\ pc = [t \in Tasks |-> "idle"] /\ notified = [t \in Tasks |-> 0] /\ owner = NoTask
      /\ isr = "off" /\ ~stop_det /\ ~stopped /\ shift = NoCmd
      /\ txfifo = <<>> /\ rxfifo = <<>> /\ lost = 0
  BY DEF Init
<1>2. NoCmd # SendStop
  BY DEF NoCmd, SendStop
<1>3. EndsByStop
  BY <1>1, <1>2 DEF EndsByStop
<1>4. Len(rxfifo) <= RxTl + 1 + Bit(pace = "behind")
  BY <1>1, FifoAssumption DEF Bit
<1>5. KeepsUp
  BY <1>1, <1>4 DEF KeepsUp
<1>6. EveryCallComplete
  BY <1>1 DEF EveryCallComplete
<1> QED BY <1>3, <1>5, <1>6 DEF PaceInv

\* Every step preserves it, when the FIFO has two places above its level.
LEMMA PaceInvStep ==
  ASSUME RxTl + 2 <= FifoDepth
  PROVE  IInv /\ PaceInv /\ [Next]_vars => PaceInv'
<1> SUFFICES ASSUME IInv, PaceInv, [Next]_vars PROVE PaceInv'
  OBVIOUS
<1>1. ASSUME pace' # "late" PROVE EndsByStop'
  BY <1>1, PaceStep, EndsByStopStep DEF PaceInv
<1>2. ASSUME pace' \in {"prompt", "behind"} PROVE KeepsUp' /\ EveryCallComplete'
  <2>1. pace \in {"prompt", "behind"}
    BY <1>2, PaceStep
  <2>2. EndsByStop /\ KeepsUp /\ EveryCallComplete
    BY <2>1 DEF PaceInv
  <2>3. lost' = 0 /\ Len(rxfifo') <= RxTl + 1 + Bit(pace' = "behind")
    BY <2>1, <2>2, RoomStep
  <2>4. Drained' /\ Settled'
    BY <2>1, <2>2, DrainedStep, SettledStep
  <2>5. KeepsUp'
    BY <2>3, <2>4 DEF KeepsUp, Drained, Settled
  <2>6. EveryCallComplete'
    BY <2>1, <2>2, CompleteStep
  <2> QED BY <2>5, <2>6
<1>3. EveryCallComplete'
  <2>1. CASE pace' \in {"prompt", "behind"}
    BY <1>2, <2>1
  <2>2. CASE pace' \notin {"prompt", "behind"}
    BY <2>2 DEF EveryCallComplete
  <2> QED BY <2>1, <2>2
<1> QED BY <1>1, <1>2, <1>3 DEF PaceInv

\* When the slave answers in time and the processor keeps up, transaction()
\* returns the sum of its lengths unless the slave refused: for every FIFO
\* with two places above the level of RX_FULL (16 and 14 in the code).
THEOREM EveryCallCompleteCorrect ==
  ASSUME RxTl + 2 <= FifoDepth
  PROVE  Spec => []EveryCallComplete
<1>1. IInv /\ PaceInv /\ [Next]_vars => PaceInv'
  BY PaceInvStep
<1>2. Spec => []PaceInv
  BY <1>1, InitPaceInv, Invariance, PTL DEF Spec
<1>3. PaceInv => EveryCallComplete
  BY DEF PaceInv
<1> QED BY <1>2, <1>3, PTL
=============================================================================

------------------------ MODULE AccessPoint_proofs -----------------------
(***************************************************************************)
(* The programs of the access point: the TCP server, the form that         *)
(* provisions the device with the task that waits for it, the DHCP server  *)
(* and the DNS responder, for any connections, forms, clients, addresses,  *)
(* clocks, sizes and datagrams.                                            *)
(***************************************************************************)
EXTENDS TcpServer, Provisioning, DhcpServer, SequenceTheorems, TLAPS

\* DnsServer shares names with the others: its state is named apart.
CONSTANTS Header, MaxMsg, MaxLabel, MaxName, Question, Answer, Messages
VARIABLES at, msg_len, question_ptr, lastRead, written, replied, stray
Dns == INSTANCE DnsServer WITH pc <- at, sent <- replied

---------------------------------------------------------------------------
(***************************************************************************)
(* The TCP server.                                                         *)
(***************************************************************************)

\* A con_state is there while its connection may call back; of a patient
\* client it is there no longer, what is queued is the answer that was written
\* last, and sent_len and the queue make up its length.
TcpInv ==
  /\ pcb \in [Conns -> {"none", "active", "closing", "gone"}]
  /\ state \in [Conns -> {"none", "live", "freed"}]
  /\ sent \in [Conns -> Nat] /\ len \in [Conns -> Nat]
  /\ recvs \in [Conns -> Nat] /\ pages \in [Conns -> Nat]
  /\ unacked \in [Conns -> Seq({"headers", "result"} \X Nat)]
  /\ patient \in BOOLEAN
  /\ StateWithConnection
  /\ \A c \in Conns : pcb[c] = "none" => state[c] # "live"
  /\ \A c \in Conns : recvs[c] = 0 \/ pcb[c] = "none" => unacked[c] = <<>>
  /\ patient => \A c \in Conns : unacked[c] # <<>> =>
       /\ state[c] = "live"
       /\ sent[c] + Len(unacked[c]) = len[c]
       /\ \A i \in DOMAIN unacked[c] :
            unacked[c][i] \in {<<"headers", recvs[c]>>, <<"result", pages[c]>>}

\* One element in front of a sequence.
LEMMA OneInFront ==
  ASSUME NEW S, NEW s \in Seq(S), NEW t \in Seq(S), Len(s) = 1
  PROVE  /\ Len(s \o t) = 1 + Len(t)
         /\ DOMAIN (s \o t) = 1..(1 + Len(t))
         /\ (s \o t)[1] = s[1]
         /\ \A i \in 2..(1 + Len(t)) : (s \o t)[i] = t[i - 1]
<1>1. /\ s \o t \in Seq(S) /\ Len(s \o t) = Len(s) + Len(t)
      /\ \A i \in 1..(Len(s) + Len(t)) :
           (s \o t)[i] = IF i <= Len(s) THEN s[i] ELSE t[i - Len(s)]
  BY ConcatProperties
<1>2. Len(t) \in Nat
  BY LenProperties
<1>3. DOMAIN (s \o t) = 1..Len(s \o t)
  BY <1>1, LenProperties
<1> QED BY <1>1, <1>2, <1>3

\* The answer as it is queued: the header, then the result.
LEMMA AnswerQueued ==
  ASSUME NEW S, NEW h \in S, NEW r \in S, NEW n \in Nat, NEW queue \in Seq(S),
         NEW header \in Seq(S), Len(header) = 1, header[1] = h,
         NEW result \in Seq(S), Len(result) = n, \A i \in 1..n : result[i] = r
  PROVE  /\ queue \o header \in Seq(S)
         /\ queue \o header \o result \in Seq(S)
         /\ queue = <<>> =>
              /\ Len(queue \o header \o result) = 1 + n
              /\ \A i \in DOMAIN (queue \o header \o result) :
                   (queue \o header \o result)[i] \in {h, r}
<1>1. queue \o header \in Seq(S) /\ queue \o header \o result \in Seq(S)
  OBVIOUS
<1>2. ASSUME queue = <<>>
      PROVE  /\ Len(queue \o header \o result) = 1 + n
             /\ \A i \in DOMAIN (queue \o header \o result) :
                  (queue \o header \o result)[i] \in {h, r}
  <2>1. queue \o header = header
    BY <1>2, ConcatEmptySeq, Zenon
  <2>2. /\ Len(header \o result) = 1 + n
        /\ DOMAIN (header \o result) = 1..(1 + n)
        /\ (header \o result)[1] = h
        /\ \A i \in 2..(1 + n) : (header \o result)[i] = result[i - 1]
    BY OneInFront
  <2>3. ASSUME NEW i \in 1..(1 + n)
        PROVE  (header \o result)[i] \in {h, r}
    <3>1. CASE i = 1
      BY <2>2, <3>1
    <3>2. CASE i # 1
      <4>1. i \in 2..(1 + n) /\ i - 1 \in 1..n
        BY <3>2
      <4>2. (header \o result)[i] = result[i - 1] /\ result[i - 1] = r
        BY <2>2, <4>1
      <4> QED BY <4>2
    <3> QED BY <3>1, <3>2
  <2> QED BY <2>1, <2>2, <2>3
<1> QED BY <1>1, <1>2

\* tcp_close_client_connection() with what may still be queued.
LEMMA CloseTcpInv ==
  ASSUME TcpInv, NEW c \in Conns, pcb[c] = "active",
         NEW queue \in Seq({"headers", "result"} \X Nat),
         patient => queue = <<>>, Close(c, queue),
         recvs' \in [Conns -> Nat], pages' \in [Conns -> Nat],
         sent' \in [Conns -> Nat], len' \in [Conns -> Nat],
         recvs'[c] = 0 => queue = <<>>,
         \A d \in Conns \ {c} : /\ recvs'[d] = recvs[d] /\ pages'[d] = pages[d]
                                /\ sent'[d] = sent[d] /\ len'[d] = len[d],
         patient' = patient
  PROVE  TcpInv'
<1>1. /\ pcb'[c] \in {"gone", "closing"} /\ state' = [state EXCEPT ![c] = "freed"]
      /\ pcb' \in [Conns -> {"none", "active", "closing", "gone"}]
      /\ unacked'[c] \in {queue, <<>>}
      /\ unacked' \in [Conns -> Seq({"headers", "result"} \X Nat)]
      /\ \A d \in Conns \ {c} : pcb'[d] = pcb[d] /\ unacked'[d] = unacked[d]
  <2>1. <<>> \in Seq({"headers", "result"} \X Nat)
    BY EmptySeq
  <2>2. PICK q \in {queue, <<>>}, p \in {"gone", "closing"} :
          pcb' = [pcb EXCEPT ![c] = p] /\ unacked' = [unacked EXCEPT ![c] = q]
    BY DEF Close
  <2>3. state' = [state EXCEPT ![c] = "freed"]
    BY DEF Close
  <2> QED BY <2>1, <2>2, <2>3 DEF TcpInv
<1>2. StateWithConnection'
  BY <1>1 DEF TcpInv, StateWithConnection
<1> QED BY <1>1, <1>2, ZenonT(40) DEF TcpInv

\* What Sent leaves queued.
LEMMA RestQueued ==
  ASSUME NEW S, NEW queue \in Seq(S), NEW n \in 1..Len(queue)
  PROVE  LET rest == SubSeq(queue, n + 1, Len(queue)) IN
         /\ rest \in Seq(S) /\ Len(rest) = Len(queue) - n
         /\ \A i \in DOMAIN rest : i + n \in DOMAIN queue /\ rest[i] = queue[i + n]
         /\ Len(rest) = 0 => rest = <<>>
<1>1. /\ Len(queue) \in Nat /\ DOMAIN queue = 1..Len(queue)
      /\ \A i \in (n + 1)..Len(queue) : queue[i] \in S
  BY LenProperties, ElementOfSeq
<1> DEFINE rest == SubSeq(queue, n + 1, Len(queue))
<1>2. /\ rest \in Seq(S) /\ Len(rest) = IF n + 1 <= Len(queue) THEN Len(queue) - (n + 1) + 1 ELSE 0
      /\ \A i \in 1..(Len(queue) - (n + 1) + 1) : rest[i] = queue[(n + 1) + i - 1]
  BY <1>1, SubSeqProperties
<1>3. DOMAIN rest = 1..Len(rest) /\ (Len(rest) = 0 => rest = <<>>)
  BY <1>2, LenProperties, EmptySeq
<1> QED BY <1>1, <1>2, <1>3, SMTT(30)

LEMMA TcpStep ==
  ASSUME TcpInv, [TcpNext]_tcp_vars
  PROVE  TcpInv'
<1>1. CASE Open \/ Shutdown \/ UNCHANGED tcp_vars
  BY <1>1 DEF Open, Shutdown, tcp_vars, TcpInv, StateWithConnection
<1>2. ASSUME NEW c \in Conns, Accept(c) PROVE TcpInv'
  <2>1. /\ pcb[c] = "none"
        /\ pcb' \in [Conns -> {"none", "active", "closing", "gone"}]
        /\ state' \in [Conns -> {"none", "live", "freed"}]
        /\ \/ pcb'[c] = "active" /\ state'[c] = "live"
           \/ pcb'[c] = "gone" /\ state'[c] = state[c]
        /\ \A d \in Conns \ {c} : pcb'[d] = pcb[d] /\ state'[d] = state[d]
        /\ UNCHANGED <<sent, len, recvs, pages, unacked, patient>>
    BY <1>2 DEF Accept, TcpInv
  <2>2. StateWithConnection'
    BY <2>1 DEF TcpInv, StateWithConnection
  <2> QED BY <2>1, <2>2 DEF TcpInv
<1>3. ASSUME NEW c \in Conns, Recv(c) PROVE TcpInv'
  <2>1. /\ recvs' = [recvs EXCEPT ![c] = recvs[c] + 1] /\ pcb[c] = "active"
        /\ UNCHANGED <<sent, len, pages, pcb, state, unacked, patient>>
        /\ patient => recvs[c] < 1
    BY <1>3 DEF Recv, MayCall
  <2>2. patient => unacked[c] = <<>>
    BY <2>1 DEF TcpInv
  <2>3. StateWithConnection'
    BY <2>1 DEF TcpInv, StateWithConnection
  <2> QED BY <2>1, <2>2, <2>3 DEF TcpInv
<1>4. ASSUME NEW c \in Conns, RecvGet(c) PROVE TcpInv'
  <2> DEFINE header == [i \in 1..HeaderLen |-> <<"headers", recvs[c] + 1>>]
             result(n) == [i \in 1..n |-> <<"result", pages[c] + 1>>]
             queue(n) == unacked[c] \o header \o result(n)
  <2>1. PICK n \in Results :
          /\ len' = [len EXCEPT ![c] = HeaderLen + n]
          /\ \/ /\ unacked' = [unacked EXCEPT ![c] = queue(n)]
                /\ UNCHANGED <<pcb, state>>
             \/ Close(c, unacked[c])
             \/ ~patient /\ n > 0 /\ Close(c, unacked[c] \o header)
    BY <1>4 DEF RecvGet
  <2>2. /\ recvs' = [recvs EXCEPT ![c] = recvs[c] + 1] /\ pages' = [pages EXCEPT ![c] = pages[c] + 1]
        /\ sent' = [sent EXCEPT ![c] = 0] /\ patient' = patient
        /\ pcb[c] = "active" /\ (patient => recvs[c] < 1)
    BY <1>4 DEF RecvGet, MayCall
  <2>3. /\ recvs' \in [Conns -> Nat] /\ pages' \in [Conns -> Nat] /\ sent' \in [Conns -> Nat]
        /\ len' \in [Conns -> Nat] /\ recvs'[c] # 0 /\ n \in Nat
        /\ \A d \in Conns \ {c} : /\ recvs'[d] = recvs[d] /\ pages'[d] = pages[d]
                                  /\ sent'[d] = sent[d] /\ len'[d] = len[d]
    BY <2>1, <2>2, TcpServerAssumption, SMTT(30) DEF TcpInv, HeaderLen
  <2>4. (patient => unacked[c] = <<>>) /\ unacked[c] \in Seq({"headers", "result"} \X Nat)
    BY <2>2 DEF TcpInv
  <2>5. /\ unacked[c] \o header \in Seq({"headers", "result"} \X Nat)
        /\ queue(n) \in Seq({"headers", "result"} \X Nat)
        /\ unacked[c] = <<>> =>
             /\ Len(queue(n)) = HeaderLen + n
             /\ \A i \in DOMAIN queue(n) :
                  queue(n)[i] \in {<<"headers", recvs[c] + 1>>, <<"result", pages[c] + 1>>}
    <3> DEFINE S == {"headers", "result"} \X Nat
               h == <<"headers", recvs[c] + 1>>
               r == <<"result", pages[c] + 1>>
    <3>0. n \in Nat
      BY <2>3
    <3>1. h \in S /\ r \in S
      BY DEF TcpInv
    <3>2. header \in Seq(S) /\ Len(header) = 1 /\ header[1] = h
      BY <3>1 DEF HeaderLen
    <3>3. result(n) \in Seq(S) /\ Len(result(n)) = n /\ \A i \in 1..n : result(n)[i] = r
      BY <2>3, <3>1
    <3>4. unacked[c] \in Seq(S)
      BY <2>4
    <3> HIDE DEF S, h, r, header, result
    <3>5. /\ unacked[c] \o header \in Seq(S) /\ queue(n) \in Seq(S)
          /\ unacked[c] = <<>> => /\ Len(queue(n)) = 1 + n
                                  /\ \A i \in DOMAIN queue(n) : queue(n)[i] \in {h, r}
      BY <3>0, <3>1, <3>2, <3>3, <3>4, AnswerQueued, SMTT(30)
    <3> QED BY <3>5 DEF S, h, r, HeaderLen
  <2>6. CASE unacked' = [unacked EXCEPT ![c] = queue(n)] /\ UNCHANGED <<pcb, state>>
    <3> HIDE DEF queue
    <3>1. StateWithConnection'
      BY <2>2, <2>6 DEF TcpInv, StateWithConnection
    <3>2. /\ unacked' \in [Conns -> Seq({"headers", "result"} \X Nat)]
          /\ \A d \in Conns \ {c} : unacked'[d] = unacked[d]
          /\ unacked'[c] = queue(n) /\ state[c] = "live"
      BY <2>2, <2>5, <2>6 DEF TcpInv, StateWithConnection
    <3>3. patient => /\ sent'[c] + Len(unacked'[c]) = len'[c]
                     /\ \A i \in DOMAIN unacked'[c] :
                          unacked'[c][i] \in {<<"headers", recvs'[c]>>, <<"result", pages'[c]>>}
      <4>1. recvs'[c] = recvs[c] + 1 /\ pages'[c] = pages[c] + 1 /\ sent'[c] = 0
            /\ len'[c] = HeaderLen + n
        BY <2>1, <2>2 DEF TcpInv
      <4> QED BY <2>3, <2>4, <2>5, <3>2, <4>1 DEF HeaderLen
    <3> QED BY <2>2, <2>3, <2>6, <3>1, <3>2, <3>3, ZenonT(40) DEF TcpInv
  <2>7. CASE Close(c, unacked[c])
    BY <2>2, <2>3, <2>4, <2>7, CloseTcpInv
  <2>8. CASE ~patient /\ Close(c, unacked[c] \o header)
    <3> HIDE DEF header
    <3> QED BY <2>2, <2>3, <2>5, <2>8, CloseTcpInv
  <2> QED BY <2>1, <2>6, <2>7, <2>8
<1>5. ASSUME NEW c \in Conns, RecvEnd(c) \/ Poll(c) PROVE TcpInv'
  <2>1. /\ pcb[c] = "active" /\ (patient => unacked[c] = <<>>) /\ Close(c, unacked[c])
        /\ UNCHANGED <<sent, len, recvs, pages, patient>>
    BY <1>5 DEF RecvEnd, Poll, PollCloses, MayCall
  <2> QED BY <2>1, CloseTcpInv DEF TcpInv
<1>6. ASSUME NEW c \in Conns, Sent(c) PROVE TcpInv'
  <2> DEFINE rest(n) == SubSeq(unacked[c], n + 1, Len(unacked[c]))
  <2>1. PICK n \in 1..Len(unacked[c]) :
          /\ sent' = [sent EXCEPT ![c] = sent[c] + n]
          /\ IF AllSent(c, n) THEN Close(c, rest(n))
             ELSE unacked' = [unacked EXCEPT ![c] = rest(n)] /\ UNCHANGED <<pcb, state>>
    BY <1>6 DEF Sent
  <2>2. pcb[c] = "active" /\ UNCHANGED <<len, recvs, pages, patient>>
    BY <1>6 DEF Sent, MayCall
  <2>3. /\ unacked[c] \in Seq({"headers", "result"} \X Nat) /\ unacked[c] # <<>>
        /\ Len(unacked[c]) \in Nat /\ n \in Nat
    BY DEF TcpInv
  <2>4. /\ rest(n) \in Seq({"headers", "result"} \X Nat) /\ Len(rest(n)) = Len(unacked[c]) - n
        /\ \A i \in DOMAIN rest(n) : i + n \in DOMAIN unacked[c] /\ rest(n)[i] = unacked[c][i + n]
        /\ Len(rest(n)) = 0 => rest(n) = <<>>
    BY <2>3, RestQueued, ZenonT(40)
  <2> HIDE DEF rest
  <2>5. /\ sent' \in [Conns -> Nat] /\ sent'[c] = sent[c] + n
        /\ \A d \in Conns \ {c} : sent'[d] = sent[d]
        /\ recvs[c] # 0
    BY <2>1, <2>3 DEF TcpInv
  <2>6. CASE AllSent(c, n)
    <3>1. patient => rest(n) = <<>>
      BY <2>3, <2>4, <2>6 DEF AllSent, TcpInv
    <3> QED BY <2>1, <2>2, <2>4, <2>5, <2>6, <3>1, CloseTcpInv DEF TcpInv
  <2>7. CASE ~AllSent(c, n)
    <3>1. /\ unacked' \in [Conns -> Seq({"headers", "result"} \X Nat)]
          /\ \A d \in Conns \ {c} : unacked'[d] = unacked[d]
          /\ unacked'[c] = rest(n) /\ state' = state /\ pcb' = pcb
      BY <2>1, <2>4, <2>7 DEF TcpInv
    <3>2. StateWithConnection'
      BY <2>2, <3>1 DEF TcpInv, StateWithConnection
    <3>3. patient => /\ state[c] = "live" /\ sent'[c] + Len(rest(n)) = len[c]
                     /\ \A i \in DOMAIN rest(n) :
                          rest(n)[i] \in {<<"headers", recvs[c]>>, <<"result", pages[c]>>}
      <4>1. patient => /\ state[c] = "live" /\ sent[c] + Len(unacked[c]) = len[c]
                       /\ \A i \in DOMAIN unacked[c] :
                            unacked[c][i] \in {<<"headers", recvs[c]>>, <<"result", pages[c]>>}
        BY <2>3 DEF TcpInv
      <4>2. sent[c] \in Nat /\ len[c] \in Nat
        BY DEF TcpInv
      <4>3. sent'[c] + Len(rest(n)) = sent[c] + Len(unacked[c])
        BY <2>3, <2>4, <2>5, <4>2
      <4>4. ASSUME patient, NEW i \in DOMAIN rest(n)
            PROVE  rest(n)[i] \in {<<"headers", recvs[c]>>, <<"result", pages[c]>>}
        BY <2>4, <4>1, <4>4, Zenon
      <4> QED BY <4>1, <4>3, <4>4
    <3> QED BY <2>2, <2>5, <3>1, <3>2, <3>3 DEF TcpInv
  <2> QED BY <2>6, <2>7
<1>7. ASSUME NEW c \in Conns, ErrReset(c) \/ ErrAbort(c) \/ Finish(c) PROVE TcpInv'
  <2>1. /\ pcb' = [pcb EXCEPT ![c] = "gone"] /\ unacked' = [unacked EXCEPT ![c] = <<>>]
        /\ UNCHANGED <<sent, len, recvs, pages, patient>>
        /\ \/ state' = [state EXCEPT ![c] = "freed"]
           \/ state' = state /\ (patient => pcb[c] = "closing")
    BY <1>7 DEF ErrReset, ErrAbort, Finish
  <2>2. state' \in [Conns -> {"none", "live", "freed"}]
        /\ \A d \in Conns \ {c} : state'[d] = state[d]
    BY <2>1 DEF TcpInv
  <2>3. <<>> \in Seq({"headers", "result"} \X Nat)
    BY EmptySeq
  <2>4. /\ unacked' \in [Conns -> Seq({"headers", "result"} \X Nat)]
        /\ unacked'[c] = <<>> /\ \A d \in Conns \ {c} : unacked'[d] = unacked[d]
    BY <2>1, <2>3 DEF TcpInv
  <2>5. StateWithConnection'
    BY <2>1, <2>2 DEF TcpInv, StateWithConnection
  <2> QED BY <2>1, <2>2, <2>4, <2>5 DEF TcpInv
<1> QED BY <1>1, <1>2, <1>3, <1>4, <1>5, <1>6, <1>7 DEF TcpNext

LEMMA TcpInvariance == TcpSpec => []TcpInv
<1>1. TcpInit => TcpInv
  <2> SUFFICES ASSUME TcpInit PROVE TcpInv
    OBVIOUS
  <2>1. <<>> \in Seq({"headers", "result"} \X Nat)
    BY EmptySeq
  <2> QED BY <2>1 DEF TcpInit, TcpInv, StateWithConnection
<1>2. TcpInv /\ [TcpNext]_tcp_vars => TcpInv'
  BY TcpStep
<1> QED BY <1>1, <1>2, PTL DEF TcpSpec

\* The assertions of lines 47 and 122 hold, and no state outlives the
\* connection of a patient client, for any number of connections and segments
\* and pages of any lengths.
THEOREM StateWithConnectionCorrect == TcpSpec => []StateWithConnection
<1>1. TcpInv => StateWithConnection
  BY DEF TcpInv
<1> QED BY <1>1, TcpInvariance, PTL

\* lwIP never sends a patient client a byte that was freed or overwritten,
\* although tcp_write() does not copy.
THEOREM BytesLiveCorrect == TcpSpec => []BytesLive
<1>1. TcpInv => BytesLive
  BY DEF TcpInv, BytesLive
<1> QED BY <1>1, TcpInvariance, PTL
---------------------------------------------------------------------------
(***************************************************************************)
(* Provisioning.                                                           *)
(***************************************************************************)

\* The handler fills the buffers in the order ssid, password, flag; the task
\* passes its wait only with the flag, and then reads them in any state the
\* handler of a later form leaves them in: they differ while it is between its
\* two copies, and then only.
ProvInv ==
  /\ inflight \subseteq Forms
  /\ cgi \in [at : {"idle", "ssid", "password", "flag", "leave"}, form : Forms \cup {NoForm}]
  /\ cgi.at # "idle" => cgi.form \in Forms
  /\ cgi.at \in {"password", "flag"} => ssid # NoForm
  /\ cgi.at = "flag" => password # NoForm
  /\ is_credentials_set => NoForm \notin {ssid, password}
  /\ pc \notin {"ap_init", "wait"} => is_credentials_set
  /\ used \in [ssid : Forms \cup {NoForm}, password : Forms \cup {NoForm}]
  /\ ssid \in Forms \cup {NoForm} /\ password \in Forms \cup {NoForm}
  /\ pc = "password" => used.ssid # NoForm
  /\ pc = "new" => NoForm \notin {used.ssid, used.password}
  /\ cgi.at \in {"password", "flag"} => ssid = cgi.form
  /\ cgi.at = "flag" => password = cgi.form
  /\ is_credentials_set /\ cgi.at # "password" => ssid = password
  /\ pc = "password" /\ ~overlapped => used.ssid = password
  /\ JoinUsesOneForm

LEMMA ProvStep ==
  ASSUME ProvInv, [ProvNext]_prov_vars
  PROVE  ProvInv'
<1> USE ProvisioningAssumption DEF ProvInv, JoinUsesOneForm, join
<1>1. ASSUME NEW f \in Forms, Submit(f) PROVE ProvInv'
  BY <1>1 DEF Submit
<1>2. ASSUME NEW f \in Forms, CgiEnter(f) PROVE ProvInv'
  <2>1. /\ f \in inflight /\ inflight' = inflight \ {f}
        /\ cgi' \in {[at |-> "ssid", form |-> f], [at |-> "leave", form |-> f]}
        /\ UNCHANGED <<pc, ssid, password, is_credentials_set, used, overlapped>>
    BY <1>2 DEF CgiEnter
  <2>2. /\ cgi'.at \in {"ssid", "leave"} /\ cgi'.form = f /\ cgi.at = "idle"
        /\ cgi' \in [at : {"idle", "ssid", "password", "flag", "leave"}, form : Forms \cup {NoForm}]
    BY <1>2, <2>1 DEF CgiEnter
  <2> QED BY <2>1, <2>2
<1>3. CASE SetCredentials
  <2>1. /\ cgi' = [cgi EXCEPT !.at = After(cgi.at)]
        /\ cgi'.at = After(cgi.at) /\ cgi'.form = cgi.form
        /\ cgi' \in [at : {"idle", "ssid", "password", "flag", "leave"}, form : Forms \cup {NoForm}]
    BY <1>3 DEF SetCredentials, After
  <2>2. CASE cgi.at = "ssid"
    BY <1>3, <2>1, <2>2 DEF SetCredentials, After
  <2>3. CASE cgi.at = "password"
    BY <1>3, <2>1, <2>3 DEF SetCredentials, After
  <2>4. CASE cgi.at = "flag"
    BY <1>3, <2>1, <2>4 DEF SetCredentials, After
  <2> QED BY <1>3, <2>2, <2>3, <2>4 DEF SetCredentials
<1>4. CASE CgiLeave
  BY <1>4 DEF CgiLeave, NoCgi
<1>5. CASE ApInit \/ Disconnect
  BY <1>5 DEF ApInit, Disconnect, form
<1>6. CASE JoinSsid
  BY <1>6 DEF JoinSsid, form
<1>7. CASE JoinPassword
  BY <1>7 DEF JoinPassword, form, AfterJoin
<1>8. CASE NewClient \/ Resolved \/ MqttConnect \/ Subscribe \/ Subscribed \/ Broker
  BY <1>8 DEF NewClient, Resolved, MqttConnect, Subscribe, Subscribed, Broker, form
<1>9. CASE UNCHANGED prov_vars
  BY <1>9 DEF prov_vars
<1> QED BY <1>1, <1>2, <1>3, <1>4, <1>5, <1>6, <1>7, <1>8, <1>9
        DEF ProvNext, Thread, Task, UntilJoined

LEMMA ProvInvariance == ProvSpec => []ProvInv
<1>1. ProvInit => ProvInv
  BY ProvisioningAssumption DEF ProvInit, ProvInv, NoCgi, NotUsed, JoinUsesOneForm
<1>2. ProvInv /\ [ProvNext]_prov_vars => ProvInv'
  BY ProvStep
<1> QED BY <1>1, <1>2, PTL DEF ProvSpec

\* The network is never joined with a buffer that no form has filled: the flag
\* is set last, and never withdrawn.
THEOREM JoinHasCredentialsCorrect == ProvSpec => []JoinHasCredentials
<1>1. ProvInv => JoinHasCredentials
  BY DEF ProvInv, JoinHasCredentials
<1> QED BY <1>1, ProvInvariance, PTL

\* Unless a handler is at its copies while the join reads, ssid and password
\* are of one form, for any number of forms.
THEOREM JoinUsesOneFormCorrect == ProvSpec => []JoinUsesOneForm
<1>1. ProvInv => JoinUsesOneForm
  BY DEF ProvInv
<1> QED BY <1>1, ProvInvariance, PTL

---------------------------------------------------------------------------
(***************************************************************************)
(* The DHCP server: any number of clients and addresses and any clock that *)
(* TimeAssumption allows, the 32-bit one of the code among them.           *)
(***************************************************************************)

(***************************************************************************)
(* Arithmetic of a clock that wraps.                                       *)
(***************************************************************************)
LEMMA DivMod ==
  ASSUME NEW T \in Nat \ {0}, NEW x \in Int
  PROVE  /\ x \div T \in Int
         /\ x % T \in 0..(T - 1)
         /\ x = (x \div T) * T + (x % T)
  BY SMTT(20)

LEMMA DivNat ==
  ASSUME NEW G \in Nat \ {0}, NEW x \in Nat
  PROVE  /\ x \div G \in Nat
         /\ (x \div G) * G <= x
         /\ x < (x \div G) * G + G
  BY SMTT(20)

\* A number and its remainder differ by a multiple of T, so a number between
\* -T and 2T - 1 is off by T, by nothing or by -T.
LEMMA ModNear ==
  ASSUME NEW T \in Nat \ {0}
  PROVE  /\ \A x \in 0..(T - 1) : x % T = x
         /\ \A x \in (-T)..(-1) : x % T = x + T
         /\ \A x \in T..(2 * T - 1) : x % T = x - T
<1>1. ASSUME NEW x \in 0..(T - 1) PROVE x % T = x
  BY SMTT(20)
<1>2. ASSUME NEW x \in (-T)..(-1) PROVE x % T = x + T
  BY SMTT(20)
<1>3. ASSUME NEW x \in T..(2 * T - 1) PROVE x % T = x - T
  BY SMTT(20)
<1>4. QED
  BY <1>1, <1>2, <1>3

\* The time left at a moment that RoundUp puts r ticks into the clock.
LEMMA UntilNear ==
  ASSUME NEW e \in Nat, e * Grain < Ticks, NEW t \in 0..(Ticks - 1)
  PROVE  LET r == e * Grain + (Grain - 1)
         IN Until(e, t) = IF r < t THEN r - t + Ticks
                          ELSE IF r - t < Ticks THEN r - t
                          ELSE r - t - Ticks
<1> DEFINE r == e * Grain + (Grain - 1)
<1>1. e * Grain \in 0..(Ticks - 1)
  BY TimeAssumption, SMTT(20)
<1>2. Grain \in 1..Ticks /\ Ticks \in Nat \ {0}
  BY TimeAssumption
<1>3. r \in 0..(2 * Ticks - 2)
  BY <1>1, <1>2
<1>4. Until(e, t) = (r - t) % Ticks
  BY DEF Until, RoundUp
<1> HIDE DEF r
<1>5. r - t \in (-Ticks)..(2 * Ticks - 1)
  BY <1>2, <1>3
<1>6. CASE r < t
  <2>1. r - t \in (-Ticks)..(-1)
    BY <1>6, <1>5, <1>3, <1>2
  <2>2. QED
    BY <2>1, <1>2, <1>4, <1>6, ModNear DEF r
<1>7. CASE ~(r < t) /\ r - t < Ticks
  <2>1. r - t \in 0..(Ticks - 1)
    BY <1>7, <1>5, <1>3, <1>2
  <2>2. QED
    BY <2>1, <1>2, <1>4, <1>7, ModNear DEF r
<1>8. CASE ~(r < t) /\ ~(r - t < Ticks)
  <2>1. r - t \in Ticks..(2 * Ticks - 1)
    BY <1>8, <1>5, <1>3, <1>2
  <2>2. QED
    BY <2>1, <1>2, <1>4, <1>8, ModNear DEF r
<1>9. QED
  BY <1>6, <1>7, <1>8

\* A tick of the clock takes one tick from the time left, over the wrap too.
LEMMA UntilTick ==
  ASSUME NEW e \in Nat, e * Grain < Ticks, NEW t \in 0..(Ticks - 1), Until(e, t) > 0
  PROVE  Until(e, (t + 1) % Ticks) = Until(e, t) - 1
<1> DEFINE r == e * Grain + (Grain - 1)
           s == (t + 1) % Ticks
           U(y) == IF r < y THEN r - y + Ticks
                   ELSE IF r - y < Ticks THEN r - y
                   ELSE r - y - Ticks
<1>1. e * Grain \in 0..(Ticks - 1) /\ Grain \in 1..Ticks /\ Ticks \in Nat \ {0}
  BY TimeAssumption, SMTT(20)
<1>2. r \in 0..(2 * Ticks - 2)
  BY <1>1
<1>3. s = IF t = Ticks - 1 THEN 0 ELSE t + 1
  <2>1. CASE t = Ticks - 1
    <3>1. t + 1 \in Ticks..(2 * Ticks - 1) /\ t + 1 - Ticks = 0
      BY <1>1, <2>1
    <3>2. QED
      BY <1>1, <2>1, <3>1, ModNear
  <2>2. CASE t # Ticks - 1
    <3>1. t + 1 \in 0..(Ticks - 1)
      BY <1>1, <2>2
    <3>2. QED
      BY <1>1, <2>2, <3>1, ModNear
  <2>3. QED
    BY <2>1, <2>2
<1>4. s \in 0..(Ticks - 1)
  BY <1>1, <1>3
<1>5. Until(e, t) = U(t) /\ Until(e, s) = U(s)
  BY <1>4, UntilNear
<1> HIDE DEF r, s
<1>6. U(s) = U(t) - 1
  BY <1>1, <1>2, <1>3, <1>5
<1>7. QED
  BY <1>5, <1>6 DEF s

\* A lease given now is seen to last at least Lease ticks, and less than half of
\* the clock: the grain only ever adds to it.
LEMMA StampUntil ==
  ASSUME now \in 0..(Ticks - 1)
  PROVE  /\ Stamp \in Nat /\ Stamp * Grain < Ticks
         /\ Lease <= Until(Stamp, now)
         /\ 2 * Until(Stamp, now) < Ticks
<1> DEFINE x == (now + Lease) % Ticks
           r == Stamp * Grain + (Grain - 1)
<1>1. /\ Grain \in Nat \ {0} /\ Ticks \in Nat \ {0} /\ Lease \in Nat
      /\ 2 * (Lease + 2 * Grain) <= Ticks
  BY TimeAssumption
<1>2. x = (IF now + Lease < Ticks THEN now + Lease ELSE now + Lease - Ticks)
  <2>1. CASE now + Lease < Ticks
    <3>1. now + Lease \in 0..(Ticks - 1)
      BY <1>1, <2>1
    <3>2. QED
      BY <1>1, <2>1, <3>1, ModNear
  <2>2. CASE ~(now + Lease < Ticks)
    <3>1. now + Lease \in Ticks..(2 * Ticks - 1)
      BY <1>1, <2>2
    <3>2. QED
      BY <1>1, <2>2, <3>1, ModNear
  <2>3. QED
    BY <2>1, <2>2
<1>3. x \in 0..(Ticks - 1)
  BY <1>1, <1>2
<1>4. Stamp = x \div Grain
  BY DEF Stamp
<1> HIDE DEF x
<1>5. Stamp \in Nat /\ Stamp * Grain <= x /\ x < Stamp * Grain + Grain
  BY <1>1, <1>3, <1>4, DivNat
<1>6. Stamp * Grain \in Int
  BY <1>1, <1>5
<1>7. Stamp * Grain < Ticks
  BY <1>1, <1>3, <1>5, <1>6
<1>8. r \in x..(x + Grain - 1)
  BY <1>1, <1>3, <1>5, <1>6
<1>9. Until(Stamp, now) = IF r < now THEN r - now + Ticks
                          ELSE IF r - now < Ticks THEN r - now
                          ELSE r - now - Ticks
  BY <1>5, <1>7, UntilNear
<1> HIDE DEF r
<1>10. Until(Stamp, now) \in Lease..(Lease + Grain - 1)
  BY <1>1, <1>2, <1>3, <1>8, <1>9
<1>11. QED
  BY <1>1, <1>5, <1>7, <1>10

(***************************************************************************)
(* The inductive invariant: a lease that runs is in the table, under the   *)
(* name of its client, and the table's time left bounds the client's.      *)
(***************************************************************************)
LEMMA InitDhcpInv == DhcpInit => DhcpInv
<1> SUFFICES ASSUME DhcpInit PROVE DhcpInv
  OBVIOUS
<1>1. Ticks \in Nat \ {0} /\ Grain \in Nat \ {0} /\ Lease \in Nat
  BY TimeAssumption
<1>2. TypeOK
  BY <1>1 DEF DhcpInit, TypeOK
<1>3. LeaseKnown
  BY DEF DhcpInit, LeaseKnown
<1>4. QED
  BY <1>2, <1>3 DEF DhcpInv

LEMMA DiscoverIInv ==
  ASSUME DhcpInv, NEW c \in Clients, Discover(c)
  PROVE  DhcpInv'
<1> USE DEF DhcpInv
<1>1. TypeOK'
  <2>1. Choice(c) \in SUBSET Slots
    BY DEF Choice, First, Own, Reusable, Scanned
  <2>2. QED
    BY <2>1 DEF TypeOK, Discover
<1>2. LeaseKnown'
  <2> SUFFICES ASSUME NEW d \in Clients, NEW i \in Slots, left[d][i] > 0
               PROVE  mac'[i] = d
    BY DEF LeaseKnown, Discover, TypeOK, Until
  <2>1. mac[i] = d /\ 2 * Until(expiry[i], now) < Ticks
    BY DEF LeaseKnown
  <2>2. mac[i] # NoMac
    BY <2>1, ClientAssumption
  <2>3. ~Expired(i)
    <3>1. expiry[i] \in Nat /\ now \in Int /\ Grain \in Nat /\ Ticks \in Nat \ {0}
      BY TimeAssumption DEF TypeOK
    <3>2. expiry[i] * Grain \in Int
      BY <3>1, SMTT(20)
    <3>3. RoundUp(expiry[i]) - now \in Int
      BY <3>1, <3>2 DEF RoundUp
    <3>4. Until(expiry[i], now) \in Int
      BY <3>1, <3>3, DivMod DEF Until
    <3>5. QED
      BY <2>1, <3>1, <3>4 DEF Expired
  <2>4. i \notin Cleared(c)
    BY <2>2, <2>3 DEF Cleared, First, Reusable
  <2>5. QED
    BY <2>1, <2>4 DEF Discover
<1>3. QED
  BY <1>1, <1>2

LEMMA RequestIInv ==
  ASSUME DhcpInv, NEW c \in Clients, NEW k \in Slots, Request(c, k)
  PROVE  DhcpInv'
<1> USE DEF DhcpInv
<1>1. /\ Stamp \in Nat /\ Stamp * Grain < Ticks
      /\ Lease <= Until(Stamp, now) /\ 2 * Until(Stamp, now) < Ticks
  BY StampUntil DEF TypeOK
<1>2. /\ mac' = [mac EXCEPT ![k] = c] /\ expiry' = [expiry EXCEPT ![k] = Stamp]
      /\ now' = now /\ mac[k] \in {c, NoMac}
      /\ \/ left' = [left EXCEPT ![c][k] = Lease] /\ offered' = [offered EXCEPT ![c] = {}]
         \/ left' = left /\ offered' = offered
  BY DEF Request, FreeFor
<1>3. Lease \in Nat
  BY TimeAssumption
<1>4. TypeOK'
  <2>1. mac' \in [Slots -> Clients \cup {NoMac}] /\ now' \in 0..(Ticks - 1)
    BY <1>2 DEF TypeOK
  <2>2. expiry' \in [Slots -> Nat] /\ \A i \in Slots : expiry'[i] * Grain < Ticks
    BY <1>1, <1>2 DEF TypeOK
  <2>3. offered' \in [Clients -> SUBSET Slots]
    BY <1>2 DEF TypeOK
  <2>4. left' \in [Clients -> [Slots -> 0..Lease]]
    BY <1>2, <1>3 DEF TypeOK
  <2>5. QED
    BY <2>1, <2>2, <2>3, <2>4 DEF TypeOK
<1>5. LeaseKnown'
  <2> SUFFICES ASSUME NEW d \in Clients, NEW i \in Slots, left'[d][i] > 0
               PROVE  /\ mac'[i] = d
                      /\ left'[d][i] <= Until(expiry'[i], now)
                      /\ 2 * Until(expiry'[i], now) < Ticks
    BY <1>2 DEF LeaseKnown, Until
  <2>1. CASE i = k
    <3>1. d = c
      <4>1. CASE left[d][i] > 0
        BY <1>2, <2>1, <4>1, ClientAssumption DEF LeaseKnown
      <4>2. CASE ~(left[d][i] > 0)
        BY <1>2, <2>1, <4>2 DEF TypeOK
      <4>3. QED
        BY <4>1, <4>2
    <3>2. mac'[i] = c /\ expiry'[i] = Stamp
      BY <1>2, <2>1 DEF TypeOK
    <3>3. left'[d][i] \in 0..Lease
      BY <1>4 DEF TypeOK
    <3>4. QED
      <4>1. Until(Stamp, now) \in Int
        <5>1. now \in 0..(Ticks - 1) /\ Stamp * Grain \in Int /\ Grain \in Nat /\ Ticks \in Nat \ {0}
          BY <1>1, TimeAssumption, SMTT(20) DEF TypeOK
        <5>2. RoundUp(Stamp) - now \in Int
          BY <5>1 DEF RoundUp
        <5>3. QED
          BY <5>1, <5>2, DivMod DEF Until
      <4>2. QED
        BY <1>1, <1>3, <3>1, <3>2, <3>3, <4>1
  <2>2. CASE i # k
    <3>1. left'[d][i] = left[d][i] /\ mac'[i] = mac[i] /\ expiry'[i] = expiry[i]
      BY <1>2, <2>2 DEF TypeOK
    <3>2. QED
      BY <3>1 DEF LeaseKnown
  <2>3. QED
    BY <2>1, <2>2
<1>6. QED
  BY <1>4, <1>5

LEMMA TickIInv ==
  ASSUME DhcpInv, Tick
  PROVE  DhcpInv'
<1> USE DEF DhcpInv
<1>1. /\ now' = (now + 1) % Ticks /\ mac' = mac /\ expiry' = expiry /\ offered' = offered
      /\ left' = [c \in Clients |-> [i \in Slots |->
                    IF left[c][i] > 0 THEN left[c][i] - 1 ELSE 0]]
  BY DEF Tick
<1>2. Lease \in Nat /\ Ticks \in Nat \ {0} /\ now \in 0..(Ticks - 1)
  BY TimeAssumption DEF TypeOK
<1>3. TypeOK'
  <2>1. now' \in 0..(Ticks - 1)
    BY <1>1, <1>2, DivMod
  <2>2. left' \in [Clients -> [Slots -> 0..Lease]]
    BY <1>1, <1>2 DEF TypeOK
  <2>3. QED
    BY <1>1, <2>1, <2>2 DEF TypeOK
<1>4. LeaseKnown'
  <2> SUFFICES ASSUME NEW c \in Clients, NEW i \in Slots, left'[c][i] > 0
               PROVE  /\ mac[i] = c
                      /\ left'[c][i] <= Until(expiry[i], now')
                      /\ 2 * Until(expiry[i], now') < Ticks
    BY <1>1 DEF LeaseKnown, Until
  <2>1. left[c][i] \in 0..Lease /\ left[c][i] > 0 /\ left'[c][i] = left[c][i] - 1
    BY <1>1, <1>2 DEF TypeOK
  <2>2. mac[i] = c /\ left[c][i] <= Until(expiry[i], now) /\ 2 * Until(expiry[i], now) < Ticks
    BY <2>1 DEF LeaseKnown
  <2>3. expiry[i] \in Nat /\ expiry[i] * Grain < Ticks
    BY DEF TypeOK
  <2>4. Until(expiry[i], now) \in Int
    <3>1. expiry[i] * Grain \in Int /\ Grain \in Nat
      BY <2>3, TimeAssumption, SMTT(20)
    <3>2. RoundUp(expiry[i]) - now \in Int
      BY <1>2, <3>1 DEF RoundUp
    <3>3. QED
      BY <1>2, <3>2, DivMod DEF Until
  <2>5. Until(expiry[i], now) > 0
    BY <1>2, <2>1, <2>2, <2>4
  <2>6. Until(expiry[i], now') = Until(expiry[i], now) - 1
    BY <1>1, <1>2, <2>3, <2>5, UntilTick
  <2>7. QED
    BY <1>2, <2>1, <2>2, <2>4, <2>6
<1>5. QED
  BY <1>3, <1>4

LEMMA NextDhcpInv == DhcpInv /\ [DhcpNext]_dhcp_vars => DhcpInv'
<1> SUFFICES ASSUME DhcpInv, [DhcpNext]_dhcp_vars PROVE DhcpInv'
  OBVIOUS
<1>1. CASE Tick
  BY <1>1, TickIInv
<1>2. ASSUME NEW c \in Clients, Discover(c) PROVE DhcpInv'
  BY <1>2, DiscoverIInv
<1>3. ASSUME NEW c \in Clients, NEW i \in Slots, Request(c, i) PROVE DhcpInv'
  BY <1>3, RequestIInv
<1>4. ASSUME NEW c \in Clients, NEW i \in Slots, Refused(c, i) PROVE DhcpInv'
  BY <1>4 DEF DhcpInv, TypeOK, LeaseKnown, Refused, Until
<1>5. CASE UNCHANGED dhcp_vars
  BY <1>5 DEF dhcp_vars, DhcpInv, TypeOK, LeaseKnown, Until
<1>6. QED
  BY <1>1, <1>2, <1>3, <1>4, <1>5 DEF DhcpNext

\* The inductive invariant holds in every reachable state.
THEOREM DhcpInvariance == DhcpSpec => []DhcpInv
<1>1. QED
  BY InitDhcpInv, NextDhcpInv, PTL DEF DhcpSpec

\* Every variable keeps its type; in particular `expiry` never needs more than
\* the upper bits of the clock (dhcpserver.c:266).
THEOREM DhcpTypeCorrect == DhcpSpec => []TypeOK
<1>1. DhcpInv => TypeOK
  BY DEF DhcpInv
<1>2. QED
  BY <1>1, DhcpInvariance, PTL

\* While a client counts on an address, the table keeps the address in its name
\* and takes it for unexpired (dhcpserver.c:224 and 266).
THEOREM LeaseKnownCorrect == DhcpSpec => []LeaseKnown
<1>1. DhcpInv => LeaseKnown
  BY DEF DhcpInv
<1>2. QED
  BY <1>1, DhcpInvariance, PTL

\* No two clients ever use one address at the same time.
THEOREM ExclusiveCorrect == DhcpSpec => []Exclusive
<1>1. DhcpInv => Exclusive
  BY DEF DhcpInv, LeaseKnown, Exclusive
<1>2. QED
  BY <1>1, DhcpInvariance, PTL

(***************************************************************************)
(* Clients that ask only for what they were offered.                       *)
(***************************************************************************)
Kept == TypeOK /\ OneSlotEach /\ OfferKept

\* The answer to a DISCOVER is at most one slot, and the client's own if it has
\* one.
LEMMA ChoiceKept ==
  ASSUME Kept, NEW c \in Clients
  PROVE  /\ Choice(c) \subseteq Slots
         /\ \A i, k \in Choice(c) : i = k
         /\ \A i \in Slots : mac[i] = c => Choice(c) \subseteq {i} /\ i \notin Cleared(c)
<1>1. Own(c) \subseteq Slots /\ Reusable(c) \subseteq Slots
  BY DEF Own, Reusable, Scanned
<1>2. \A i \in Slots : i \in Int
  BY ClientAssumption DEF Slots
<1>3. ASSUME NEW S \in SUBSET Slots
      PROVE  First(S) \subseteq S /\ \A i, k \in First(S) : i = k
  BY <1>2 DEF First
<1>4. Choice(c) \subseteq Slots /\ \A i, k \in Choice(c) : i = k
  BY <1>1, <1>3 DEF Choice
<1>5. ASSUME NEW i \in Slots, mac[i] = c
      PROVE  Choice(c) \subseteq {i} /\ i \notin Cleared(c)
  <2>1. i \in Own(c)
    BY <1>5 DEF Own
  <2>2. Own(c) \subseteq {i}
    <3>1. c # NoMac
      BY ClientAssumption
    <3>2. QED
      BY <1>5, <3>1 DEF Own, Kept, OneSlotEach
  <2>3. Choice(c) \subseteq {i}
    BY <1>1, <1>3, <2>1, <2>2 DEF Choice
  <2>4. i \notin Scanned(c)
    BY <1>2, <2>1 DEF Scanned
  <2>5. QED
    BY <2>3, <2>4 DEF Cleared, First, Reusable
<1>6. QED
  BY <1>4, <1>5

LEMMA DiscoverKept ==
  ASSUME Kept, NEW c \in Clients, Discover(c)
  PROVE  OneSlotEach' /\ OfferKept'
<1>1. \A i \in Slots : mac'[i] # NoMac => mac'[i] = mac[i]
  BY DEF Discover
<1>2. OneSlotEach'
  BY <1>1 DEF Kept, OneSlotEach
<1>3. \A d \in Clients : offered'[d] = offered[d] \/ (d = c /\ offered'[d] = Choice(c))
  BY DEF Discover, Kept, TypeOK
<1>4. OfferKept'
  <2>1. ASSUME NEW d \in Clients, NEW i \in offered'[d], NEW k \in offered'[d]
        PROVE  i = k
    BY <1>3, ChoiceKept DEF Kept, OfferKept
  <2>2. ASSUME NEW d \in Clients, NEW i \in Slots, mac'[i] = d
        PROVE  offered'[d] \subseteq {i}
    <3>1. mac[i] = d
      BY <1>1, <2>2, ClientAssumption
    <3>2. offered[d] \subseteq {i}
      BY <3>1 DEF Kept, OfferKept
    <3>3. QED
      BY <1>3, <3>1, <3>2, ChoiceKept
  <2>3. QED
    BY <2>1, <2>2 DEF OfferKept
<1>5. QED
  BY <1>2, <1>4

LEMMA RequestKept ==
  ASSUME Kept, ~Reboot, NEW c \in Clients, NEW k \in Slots, Request(c, k)
  PROVE  OneSlotEach' /\ OfferKept'
<1>1. mac' = [mac EXCEPT ![k] = c] /\ k \in offered[c]
  BY DEF Request, Asks
<1>2. \A i \in Slots : mac[i] = c => i = k
  BY <1>1 DEF Kept, OfferKept
<1>3. \A i \in Slots : mac'[i] = IF i = k THEN c ELSE mac[i]
  BY <1>1 DEF Kept, TypeOK
<1>4. OneSlotEach'
  BY <1>2, <1>3 DEF Kept, OneSlotEach
<1>5. \A d \in Clients : offered'[d] \subseteq offered[d]
  BY DEF Request, Kept, TypeOK
<1>6. \A d \in Clients : \A i, j \in offered[d] : i = j
  BY DEF Kept, OfferKept
<1>7. OfferKept'
  <2>1. ASSUME NEW d \in Clients, NEW i \in Slots, mac'[i] = d
        PROVE  offered'[d] \subseteq {i}
    <3>1. CASE i = k
      BY <1>1, <1>3, <1>5, <1>6, <2>1, <3>1
    <3>2. CASE i # k
      BY <1>3, <1>5, <2>1, <3>2 DEF Kept, OfferKept
    <3>3. QED
      BY <3>1, <3>2
  <2>2. QED
    BY <1>5, <1>6, <2>1 DEF OfferKept
<1>8. QED
  BY <1>4, <1>7

LEMMA NextKept == ~Reboot /\ Kept /\ DhcpInv' /\ [DhcpNext]_dhcp_vars => Kept'
<1> SUFFICES ASSUME ~Reboot, Kept, DhcpInv', [DhcpNext]_dhcp_vars
             PROVE  OneSlotEach' /\ OfferKept'
  BY DEF Kept, DhcpInv
<1>1. CASE Tick
  BY <1>1 DEF Kept, OneSlotEach, OfferKept, Tick
<1>2. ASSUME NEW c \in Clients, Discover(c) PROVE OneSlotEach' /\ OfferKept'
  BY <1>2, DiscoverKept
<1>3. ASSUME NEW c \in Clients, NEW i \in Slots, Request(c, i)
      PROVE  OneSlotEach' /\ OfferKept'
  BY <1>3, RequestKept
<1>4. ASSUME NEW c \in Clients, NEW i \in Slots, Refused(c, i)
      PROVE  OneSlotEach' /\ OfferKept'
  BY <1>4 DEF Kept, TypeOK, OneSlotEach, OfferKept, Refused
<1>5. CASE UNCHANGED dhcp_vars
  BY <1>5 DEF dhcp_vars, Kept, OneSlotEach, OfferKept
<1>6. QED
  BY <1>1, <1>2, <1>3, <1>4, <1>5 DEF DhcpNext

\* A client that asks only for what it was offered has one slot of the table
\* (dhcpserver.c:213-229): none is taken by a client that has another.
THEOREM OneSlotCorrect ==
  ASSUME ~Reboot
  PROVE  DhcpSpec => []OneSlotEach
<1>1. DhcpInit => Kept
  <2>1. DhcpInit => TypeOK
    BY InitDhcpInv DEF DhcpInv
  <2>2. DhcpInit => OneSlotEach /\ OfferKept
    BY ClientAssumption DEF DhcpInit, OneSlotEach, OfferKept
  <2>3. QED
    BY <2>1, <2>2 DEF Kept
<1>2. Kept /\ DhcpInv' /\ [DhcpNext]_dhcp_vars => Kept'
  BY NextKept
<1>3. Kept => OneSlotEach
  BY DEF Kept
<1>4. QED
  BY <1>1, <1>2, <1>3, DhcpInvariance, PTL DEF DhcpSpec

---------------------------------------------------------------------------
(***************************************************************************)
(* The DNS responder, for every size of buffer, name, label and datagram   *)
(* that meets SizesFit.                                                    *)
(***************************************************************************)

\* The message is copied up to the size of the buffer, and every pointer the
\* walk makes is a natural number.
THEOREM DnsTypeCorrect ==
  ASSUME Dns!SizesFit PROVE Dns!Spec => []Dns!TypeOK
<1>1. Dns!Init => Dns!TypeOK
  BY DEF Dns!SizesFit, Dns!Init, Dns!TypeOK
<1>2. Dns!TypeOK /\ [Dns!Next]_(Dns!vars) => Dns!TypeOK'
  <2> SUFFICES ASSUME Dns!TypeOK, [Dns!Next]_(Dns!vars) PROVE Dns!TypeOK'
    OBVIOUS
  <2> USE DEF Dns!SizesFit, Dns!TypeOK
  <2>1. ASSUME NEW n \in Messages, Dns!Receive(n) PROVE Dns!TypeOK'
    BY <2>1 DEF Dns!Receive, Dns!Copied
  <2>2. ASSUME NEW k \in 1..(MaxLabel + 1), Dns!Label(k) PROVE Dns!TypeOK'
    BY <2>2 DEF Dns!Label, Dns!InMessage
  <2>3. CASE Dns!EndOfName
    BY <2>3 DEF Dns!EndOfName, Dns!InMessage
  <2>4. CASE Dns!Reject
    BY <2>4 DEF Dns!Reject
  <2>5. CASE Dns!Reply
    BY <2>5, SMTT(30) DEF Dns!Reply
  <2>6. CASE UNCHANGED Dns!vars
    BY <2>6 DEF Dns!vars
  <2>7. QED
    BY <2>1, <2>2, <2>3, <2>4, <2>5, <2>6 DEF Dns!Next
<1>3. QED
  BY <1>1, <1>2, PTL DEF Dns!Spec

\* What the answer needs behind a name that is not too long is inside the
\* buffer: the sum of the parts is at most MaxMsg.  A label begins in the
\* message, so that the walk passes its end by no more than one.
DnsInv == /\ Dns!TypeOK /\ Dns!ReplyFits /\ Dns!WalkInMessage /\ Dns!StrayBounded
          /\ at # "wait" => question_ptr >= Header /\ question_ptr <= msg_len + MaxLabel

\* The answer and the reply stay in dns_msg, and the walk reads only what was
\* received; the reply may hold bytes that were not, one label and the question
\* at most (dns_server_process, lines 154, 180 and 214).
THEOREM DnsBoundsCorrect ==
  ASSUME Dns!SizesFit PROVE Dns!Spec => [](Dns!ReplyFits /\ Dns!WalkInMessage /\ Dns!StrayBounded)
<1> USE DEF Dns!SizesFit, DnsInv, Dns!TypeOK, Dns!ReplyFits, Dns!WalkInMessage, Dns!StrayBounded
<1>1. Dns!Init => DnsInv
  BY DEF Dns!Init
<1>2. DnsInv /\ [Dns!Next]_(Dns!vars) => DnsInv'
  <2> SUFFICES ASSUME DnsInv, [Dns!Next]_(Dns!vars) PROVE DnsInv'
    OBVIOUS
  <2>1. ASSUME NEW n \in Messages, Dns!Receive(n) PROVE DnsInv'
    BY <2>1 DEF Dns!Receive, Dns!Copied
  <2>2. ASSUME NEW k \in 1..(MaxLabel + 1), Dns!Label(k) PROVE DnsInv'
    BY <2>2 DEF Dns!Label, Dns!InMessage
  <2>3. CASE Dns!EndOfName
    BY <2>3 DEF Dns!EndOfName, Dns!InMessage
  <2>4. CASE Dns!Reject
    BY <2>4 DEF Dns!Reject
  <2>5. CASE Dns!Reply
    <3> DEFINE a == question_ptr + Question
    <3>7. question_ptr \in Nat /\ question_ptr - Header <= MaxName
      <4>1. question_ptr \in Nat /\ ~(question_ptr - Header > MaxName) /\ {Header, MaxName} \subseteq Nat
        BY <2>5 DEF Dns!Reply, Dns!NameTooLong
      <4> HIDE DEF DnsInv, Dns!TypeOK, Dns!SizesFit, Dns!ReplyFits, Dns!WalkInMessage, Dns!StrayBounded
      <4> QED BY <4>1
    <3>8. /\ {Header, MaxMsg, MaxName, Question, Answer} \subseteq Int
          /\ Question >= 0 /\ Answer >= 0
          /\ Header + MaxName + Question + Answer <= MaxMsg
      OBVIOUS
    <3>1. a \in Nat /\ a + Answer \in Nat /\ a + Answer <= MaxMsg
      BY <3>7, <3>8
    <3>2. written' = a..(a + Answer - 1) /\ replied' = a + Answer
      BY <2>5 DEF Dns!Reply
    <3>3. at' = "wait" /\ UNCHANGED <<msg_len, question_ptr, lastRead>>
      BY <2>5 DEF Dns!Reply
    <3> HIDE DEF a
    <3>4. a..(a + Answer - 1) \subseteq 0..(MaxMsg - 1)
      BY <3>1
    <3>5. Dns!ReplyFits'
      BY <3>1, <3>2, <3>4
    <3>6. stray' = (IF a > msg_len THEN a - msg_len ELSE 0) /\ a = question_ptr + Question
      BY <2>5 DEF Dns!Reply, a
    <3>a. question_ptr <= msg_len + MaxLabel /\ msg_len \in Nat /\ MaxLabel \in Nat
      BY <2>5 DEF Dns!Reply
    <3>b. stray' \in Nat /\ stray' <= MaxLabel + Question
      BY <3>1, <3>6, <3>7, <3>8, <3>a
    <3>c. Dns!TypeOK' /\ Dns!WalkInMessage' /\ Dns!StrayBounded'
      BY <3>1, <3>2, <3>3, <3>b
    <3>9. QED
      BY <3>3, <3>5, <3>c
  <2>6. CASE UNCHANGED Dns!vars
    BY <2>6 DEF Dns!vars
  <2>7. QED
    BY <2>1, <2>2, <2>3, <2>4, <2>5, <2>6 DEF Dns!Next
<1>3. DnsInv => Dns!ReplyFits /\ Dns!WalkInMessage /\ Dns!StrayBounded
  OBVIOUS
<1>4. QED
  BY <1>1, <1>2, <1>3, PTL DEF Dns!Spec
=============================================================================

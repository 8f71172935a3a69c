---------------------------- MODULE TcpServer -----------------------------
(***************************************************************************)
(* The TCP server of the access point: a TCP_CONNECT_STATE_T per           *)
(* connection, created by tcp_server_accept() and freed with the           *)
(* connection by tcp_server_recv(), _sent(), _poll() or _err().  lwIP runs *)
(* one callback at a time.  It does not copy what tcp_write() is given:    *)
(* until a byte is acknowledged lwIP may read it again.                    *)
(***************************************************************************)
EXTENDS Integers, Sequences

CONSTANTS
  Conns,      \* connections, each used once
  Results,    \* lengths of a page; 0 stands for the redirect
  MaxRecv     \* bound on the segments of a connection

HeaderLen == 1

ASSUME TcpServerAssumption ==
  Results \subseteq Nat /\ MaxRecv \in Nat

VARIABLES
  listening,  \* server_pcb is not NULL
  pcb,        \* each connection: "none", "active", "closing", "gone"
  state,      \* its con_state: "none", "live", "freed"
  sent, len,  \* sent_len, header_len + result_len
  recvs,      \* segments received: each overwrites headers
  pages,      \* requests among them: each overwrites result
  unacked,    \* bytes lwIP has not seen acknowledged: the copy each was
              \* written from, <<"headers" or "result", recvs or pages>>
  patient,    \* each client sends its request in one segment, waits for the
              \* answer, and acknowledges it within the poll interval; lwIP has
              \* memory for a body when it had for the header
  wild        \* a freed pcb was closed: what follows is undefined

tcp_vars == <<listening, pcb, state, sent, len, recvs, pages, unacked, patient, wild>>

TcpInit ==
  /\ listening = FALSE /\ patient \in BOOLEAN /\ wild = FALSE
  /\ pcb = [c \in Conns |-> "none"] /\ state = [c \in Conns |-> "none"]
  /\ sent = [c \in Conns |-> 0] /\ len = [c \in Conns |-> 0]
  /\ recvs = [c \in Conns |-> 0] /\ pages = [c \in Conns |-> 0]
  /\ unacked = [c \in Conns |-> <<>>]

\* tcp_server_open(): it may fail at each of its steps.
Open ==
  /\ ~listening /\ ~wild
  /\ listening' = TRUE
  /\ UNCHANGED <<pcb, state, sent, len, recvs, pages, unacked, patient, wild>>

\* tcp_server_close(): the connections stay.
Shutdown ==
  /\ listening /\ ~wild
  /\ listening' = FALSE
  /\ UNCHANGED <<pcb, state, sent, len, recvs, pages, unacked, patient, wild>>

\* lwIP drops the connection when there is no memory for con_state.
Accept(c) ==
  /\ listening /\ ~wild /\ pcb[c] = "none"
  /\ \/ pcb' = [pcb EXCEPT ![c] = "active"] /\ state' = [state EXCEPT ![c] = "live"]
     \/ pcb' = [pcb EXCEPT ![c] = "gone"] /\ UNCHANGED state
  /\ UNCHANGED <<listening, sent, len, recvs, pages, unacked, patient, wild>>

\* tcp_close_client_connection(): lwIP goes on sending what is queued after a
\* tcp_close(), and forgets it after the tcp_abort() that follows a failure.
SlipNoAbort(c, queue) ==   \* a connection that cannot be closed stays
  /\ \/ /\ pcb' = [pcb EXCEPT ![c] = IF queue = <<>> THEN "gone" ELSE "closing"]
        /\ unacked' = [unacked EXCEPT ![c] = queue]
     \/ UNCHANGED <<pcb, unacked>>
  /\ state' = [state EXCEPT ![c] = "freed"]

Close(c, queue) ==
  /\ \/ /\ pcb' = [pcb EXCEPT ![c] = IF queue = <<>> THEN "gone" ELSE "closing"]
        /\ unacked' = [unacked EXCEPT ![c] = queue]
     \/ /\ pcb' = [pcb EXCEPT ![c] = "gone"]
        /\ unacked' = [unacked EXCEPT ![c] = <<>>]
  /\ state' = [state EXCEPT ![c] = "freed"]

MayCall(c) == pcb[c] = "active" /\ ~wild

\* The segment is copied over headers; one that is no GET gets no answer.
Recv(c) ==
  /\ MayCall(c) /\ recvs[c] < IF patient THEN 1 ELSE MaxRecv
  /\ recvs' = [recvs EXCEPT ![c] = @ + 1]
  /\ UNCHANGED <<sent, len, pages, listening, pcb, state, unacked, patient, wild>>

RecvGet(c) ==
  /\ MayCall(c) /\ recvs[c] < IF patient THEN 1 ELSE MaxRecv
  /\ recvs' = [recvs EXCEPT ![c] = @ + 1]
  /\ pages' = [pages EXCEPT ![c] = @ + 1]
  /\ sent' = [sent EXCEPT ![c] = 0]
  /\ \E n \in Results :
       LET header == [i \in 1..HeaderLen |-> <<"headers", recvs[c] + 1>>]
           result == [i \in 1..n |-> <<"result", pages[c] + 1>>]
       IN /\ len' = [len EXCEPT ![c] = HeaderLen + n]
          /\ \/ /\ unacked' = [unacked EXCEPT ![c] = @ \o header \o result]
                /\ UNCHANGED <<pcb, state>>
             \/ Close(c, unacked[c])              \* tcp_write() of the headers fails
             \/ ~patient /\ n > 0 /\ Close(c, unacked[c] \o header)    \* of the body
  /\ UNCHANGED <<listening, patient, wild>>

RecvEnd(c) ==
  /\ MayCall(c)
  /\ patient => unacked[c] = <<>>
  /\ Close(c, unacked[c])
  /\ UNCHANGED <<listening, sent, len, recvs, pages, patient, wild>>

\* The client acknowledges n bytes: tcp_server_sent().
SlipAllSent(c, n) == sent[c] + n >= len[c] - 1
AllSent(c, n) == sent[c] + n >= len[c]
Sent(c) ==
  /\ MayCall(c)
  /\ \E n \in 1..Len(unacked[c]) :
       LET rest == SubSeq(unacked[c], n + 1, Len(unacked[c])) IN
       /\ sent' = [sent EXCEPT ![c] = @ + n]
       /\ IF AllSent(c, n) THEN Close(c, rest)
          ELSE unacked' = [unacked EXCEPT ![c] = rest] /\ UNCHANGED <<pcb, state>>
  /\ UNCHANGED <<listening, len, recvs, pages, patient, wild>>

SlipPoll(c) == UNCHANGED <<pcb, state, unacked>>
PollCloses(c) == Close(c, unacked[c])

Poll(c) ==
  /\ MayCall(c)
  /\ patient => unacked[c] = <<>>
  /\ PollCloses(c)
  /\ UNCHANGED <<listening, sent, len, recvs, pages, patient, wild>>

\* lwIP has freed the pcb when it calls tcp_server_err().  A reset closes it
\* again; ERR_ABRT (a TCP timer has given up) leaves con_state allocated.
ErrReset(c) ==
  /\ MayCall(c)
  /\ wild' = TRUE
  /\ pcb' = [pcb EXCEPT ![c] = "gone"] /\ state' = [state EXCEPT ![c] = "freed"]
  /\ unacked' = [unacked EXCEPT ![c] = <<>>]
  /\ UNCHANGED <<listening, sent, len, recvs, pages, patient>>

ErrAbort(c) ==
  /\ MayCall(c) /\ ~patient
  /\ pcb' = [pcb EXCEPT ![c] = "gone"]
  /\ unacked' = [unacked EXCEPT ![c] = <<>>]
  /\ UNCHANGED <<listening, state, sent, len, recvs, pages, patient, wild>>

\* lwIP alone: the rest of the queue is acknowledged, or the peer is lost.
Finish(c) ==
  /\ pcb[c] = "closing" /\ ~wild
  /\ pcb' = [pcb EXCEPT ![c] = "gone"]
  /\ unacked' = [unacked EXCEPT ![c] = <<>>]
  /\ UNCHANGED <<listening, state, sent, len, recvs, pages, patient, wild>>

TcpNext ==
  \/ Open \/ Shutdown
  \/ \E c \in Conns : \/ Accept(c) \/ Recv(c) \/ RecvGet(c) \/ RecvEnd(c)
                      \/ Sent(c) \/ Poll(c)
                      \/ ErrReset(c) \/ ErrAbort(c) \/ Finish(c)

\* A client that keeps its promise acknowledges; lwIP polls what is idle.
TcpFairness == \A c \in Conns : WF_tcp_vars(Poll(c)) /\ (patient => WF_tcp_vars(Sent(c)))

TcpSpec == TcpInit /\ [][TcpNext]_tcp_vars /\ TcpFairness
---------------------------------------------------------------------------
\* Every connection that may call back has its state: the assertions of lines
\* 47 and 122 hold.  No state outlives the connection of a patient client.
StateWithConnection == \A c \in Conns :
  /\ pcb[c] = "active" => state[c] = "live"
  /\ patient /\ state[c] = "live" => pcb[c] = "active"

\* What lwIP may still send to a patient client is in memory that is neither
\* freed nor overwritten (tcp_write() without TCP_WRITE_FLAG_COPY).
BytesLive == patient => \A c \in Conns : \A i \in DOMAIN unacked[c] :
  /\ state[c] = "live"
  /\ unacked[c][i] \in {<<"headers", recvs[c]>>, <<"result", pages[c]>>}

\* Every connection ends, whatever the client does or fails to do.
ConnectionsEnd == \A c \in Conns : pcb[c] = "active" ~> pcb[c] # "active" \/ wild
=============================================================================

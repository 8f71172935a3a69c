----------------------------- MODULE DnsServer ----------------------------
(***************************************************************************)
(* dns_server_process(): the name of a query is walked label by label in a *)
(* message buffer of fixed size, and the answer is written behind it in    *)
(* the same buffer.  Pointers are offsets in dns_msg.                      *)
(***************************************************************************)
EXTENDS Integers

CONSTANTS
  Header,      \* sizeof(dns_header_t)
  MaxMsg,      \* MAX_DNS_MSG_SIZE
  MaxLabel, MaxName,
  Question,    \* bytes of QTYPE and QCLASS
  Answer,      \* bytes of the answer record
  Messages     \* lengths of the datagrams received

\* The sizes of the source: 12 + 255 + 4 + 16 <= 300.
SizesFit ==
  /\ {Header, MaxMsg, MaxLabel, MaxName, Question, Answer} \subseteq Nat
  /\ Header + MaxName + Question + Answer <= MaxMsg
  /\ Messages \subseteq Nat

VARIABLES
  pc,            \* "wait", "walk", "skip"
  msg_len,       \* of the message in the buffer
  question_ptr,
  lastRead,      \* history: offset of the latest byte the walk read, or -1,
  written,       \* the offsets the answer was written to,
  sent,          \* the length of the latest reply,
  stray          \* and how many of its bytes nobody has ever written: neither
                 \* the datagram nor the answer

vars == <<pc, msg_len, question_ptr, lastRead, written, sent, stray>>

Init == /\ pc = "wait" /\ msg_len = 0 /\ question_ptr = 0
        /\ lastRead = -1 /\ written = {} /\ sent = 0 /\ stray = 0

Copied(n) == IF n <= MaxMsg THEN n ELSE MaxMsg

\* A datagram comes; what is no standard query with a question is ignored.
Receive(n) ==
  /\ pc = "wait"
  /\ msg_len' = Copied(n)
  /\ \/ Copied(n) >= Header /\ pc' = "walk" /\ question_ptr' = Header
     \/ UNCHANGED <<pc, question_ptr>>
  /\ lastRead' = -1 /\ written' = {} /\ sent' = 0 /\ stray' = 0

InMessage == question_ptr < msg_len

\* A label of any length a byte can say; more than MaxLabel ends the walk.
Label(len) ==
  /\ pc = "walk" /\ InMessage
  /\ lastRead' = question_ptr
  /\ IF len > MaxLabel THEN pc' = "wait" /\ UNCHANGED question_ptr
     ELSE pc' = pc /\ question_ptr' = question_ptr + 1 + len
  /\ UNCHANGED <<msg_len, written, sent, stray>>

\* The zero that ends the name, or the end of the message.
EndOfName ==
  /\ pc = "walk" /\ pc' = "skip"
  /\ \/ InMessage /\ lastRead' = question_ptr /\ question_ptr' = question_ptr + 1
     \/ ~InMessage /\ UNCHANGED <<lastRead, question_ptr>>
  /\ UNCHANGED <<msg_len, written, sent, stray>>

NameTooLong == question_ptr - Header > MaxName

Reject ==
  /\ pc = "skip" /\ NameTooLong
  /\ pc' = "wait"
  /\ UNCHANGED <<msg_len, question_ptr, lastRead, written, sent, stray>>

\* The record is written behind the question, and all that is before its end is
\* sent: with the bytes of the stack between the message and the record, when
\* the last label or the question has led past the message.
Reply ==
  /\ pc = "skip" /\ ~NameTooLong
  /\ LET answer_ptr == question_ptr + Question IN
     /\ written' = answer_ptr..(answer_ptr + Answer - 1)
     /\ sent' = answer_ptr + Answer
     /\ stray' = IF answer_ptr > msg_len THEN answer_ptr - msg_len ELSE 0
  /\ pc' = "wait"
  /\ UNCHANGED <<msg_len, question_ptr, lastRead>>

Next == \/ \E n \in Messages : Receive(n)
        \/ \E len \in 1..(MaxLabel + 1) : Label(len)
        \/ EndOfName \/ Reject \/ Reply

Spec == Init /\ [][Next]_vars
---------------------------------------------------------------------------
TypeOK == /\ pc \in {"wait", "walk", "skip"}
          /\ msg_len \in 0..MaxMsg /\ question_ptr \in Nat
          /\ lastRead \in Int /\ sent \in Nat /\ stray \in Nat

\* However the labels of a name are chosen, even one that reaches past the
\* message, the answer is written inside dns_msg, and what is sent ends inside it too.
ReplyFits == written \subseteq 0..(MaxMsg - 1) /\ sent <= MaxMsg

\* The walk reads bytes that were received, never what is behind them.
WalkInMessage == lastRead < msg_len

\* Of what is sent at most one label and the question were never received.
StrayBounded == stray <= MaxLabel + Question
=============================================================================

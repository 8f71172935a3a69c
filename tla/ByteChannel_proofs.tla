------------------------- MODULE ByteChannel_proofs -------------------------
(***************************************************************************)
(* Three byte channels.  Why the receive ring of IPStack keeps its count   *)
(* and its bytes until a callback interrupts `count -= n`, and why the     *)
(* bytes of PicoOsUart keep their order both ways, for rings, queues,      *)
(* FIFOs, packets and calls of any size.                                   *)
(***************************************************************************)
EXTENDS IPStack, PicoOsUart, SequenceTheorems, TLAPS

(***************************************************************************)
(* Sequences of bytes.                                                     *)
(***************************************************************************)
\* Head and tail of a sequence of bytes.
LEMMA HeadTail ==
  ASSUME NEW s \in Seq(Nat), s # <<>>
  PROVE  /\ Len(s) \in Nat \ {0} /\ Head(s) \in Nat
         /\ <<Head(s)>> \in Seq(Nat) /\ Len(<<Head(s)>>) = 1
         /\ Tail(s) \in Seq(Nat) /\ Len(Tail(s)) = Len(s) - 1
         /\ <<Head(s)>> \o Tail(s) = s
         /\ Tail(s) = SubSeq(s, 2, Len(s))
<1>1. Len(s) \in Nat \ {0}
  BY EmptySeq
<1>2. Head(s) \in Nat /\ Tail(s) \in Seq(Nat) /\ Len(Tail(s)) = Len(s) - 1
  BY HeadTailProperties
<1>3. Tail(s) = SubSeq(s, 2, Len(s))
  BY TailIsSubSeq
<1>4. <<Head(s)>> \o Tail(s) = s
  <2>1. 1 \in 1..Len(s) /\ Len(s) \in 1..Len(s) /\ Head(s) = s[1] /\ 1 + 1 = 2
    BY <1>1
  <2>2. SubSeq(s, 1, Len(s)) = <<s[1]>> \o SubSeq(s, 1 + 1, Len(s))
    BY <2>1, SubSeqRecursiveFirst
  <2>3. SubSeq(s, 1, Len(s)) = s
    BY SubSeqFull
  <2> QED BY <1>3, <2>1, <2>2, <2>3
<1> QED BY <1>1, <1>2, <1>3, <1>4

\* What concatenation puts where.
LEMMA Joined ==
  ASSUME NEW a \in Seq(Nat), NEW b \in Seq(Nat)
  PROVE  /\ Len(a) \in Nat /\ Len(b) \in Nat
         /\ a \o b \in Seq(Nat) /\ Len(a \o b) = Len(a) + Len(b)
         /\ \A i \in 1..Len(a) : (a \o b)[i] = a[i]
         /\ \A i \in (Len(a) + 1)..(Len(a) + Len(b)) : (a \o b)[i] = b[i - Len(a)]
<1>1. Len(a) \in Nat /\ Len(b) \in Nat
  BY LenProperties
<1>2. /\ a \o b \in Seq(Nat) /\ Len(a \o b) = Len(a) + Len(b)
      /\ \A i \in 1..(Len(a) + Len(b)) : (a \o b)[i] = IF i <= Len(a) THEN a[i] ELSE b[i - Len(a)]
  BY ConcatProperties
<1> QED BY <1>1, <1>2

Associate(a, b, d) == (a \o b) \o d = a \o (b \o d)

LEMMA Associates ==
  ASSUME NEW a \in Seq(Nat), NEW b \in Seq(Nat), NEW d \in Seq(Nat)
  PROVE  Associate(a, b, d)
<1> DEFINE ab == a \o b
           bd == b \o d
           x == ab \o d
           y == a \o bd
<1>1. /\ Len(a) \in Nat /\ Len(b) \in Nat /\ Len(d) \in Nat
      /\ ab \in Seq(Nat) /\ Len(ab) = Len(a) + Len(b)
      /\ \A i \in 1..Len(a) : ab[i] = a[i]
      /\ \A i \in (Len(a) + 1)..(Len(a) + Len(b)) : ab[i] = b[i - Len(a)]
  BY Joined
<1>2. /\ bd \in Seq(Nat) /\ Len(bd) = Len(b) + Len(d)
      /\ \A i \in 1..Len(b) : bd[i] = b[i]
      /\ \A i \in (Len(b) + 1)..(Len(b) + Len(d)) : bd[i] = d[i - Len(b)]
  BY Joined
<1> HIDE DEF ab, bd
<1>3. /\ x \in Seq(Nat) /\ Len(x) = Len(ab) + Len(d)
      /\ \A i \in 1..Len(ab) : x[i] = ab[i]
      /\ \A i \in (Len(ab) + 1)..(Len(ab) + Len(d)) : x[i] = d[i - Len(ab)]
  BY <1>1, Joined
<1>4. /\ y \in Seq(Nat) /\ Len(y) = Len(a) + Len(bd)
      /\ \A i \in 1..Len(a) : y[i] = a[i]
      /\ \A i \in (Len(a) + 1)..(Len(a) + Len(bd)) : y[i] = bd[i - Len(a)]
  BY <1>2, Joined
<1> HIDE DEF x, y
<1>5. Len(x) = Len(a) + Len(b) + Len(d) /\ Len(y) = Len(x)
  BY <1>1, <1>2, <1>3, <1>4
<1>6. ASSUME NEW i \in 1..(Len(a) + Len(b) + Len(d)) PROVE x[i] = y[i]
  <2>1. CASE i <= Len(a)
    <3>1. i \in 1..Len(a) /\ i \in 1..Len(ab)
      BY <1>1, <2>1
    <3> QED BY <1>1, <1>3, <1>4, <3>1
  <2>2. CASE i > Len(a) /\ i <= Len(a) + Len(b)
    <3>1. /\ i \in (Len(a) + 1)..(Len(a) + Len(b)) /\ i \in 1..Len(ab)
          /\ i \in (Len(a) + 1)..(Len(a) + Len(bd)) /\ i - Len(a) \in 1..Len(b)
      BY <1>1, <1>2, <2>2
    <3>2. x[i] = b[i - Len(a)]
      BY <1>1, <1>3, <3>1
    <3>3. y[i] = b[i - Len(a)]
      BY <1>2, <1>4, <3>1
    <3> QED BY <3>2, <3>3
  <2>3. CASE i > Len(a) + Len(b)
    <3>1. /\ i \in (Len(ab) + 1)..(Len(ab) + Len(d)) /\ i \in (Len(a) + 1)..(Len(a) + Len(bd))
          /\ i - Len(a) \in (Len(b) + 1)..(Len(b) + Len(d))
          /\ i - Len(ab) = (i - Len(a)) - Len(b)
      BY <1>1, <1>2, <2>3
    <3>2. x[i] = d[i - Len(ab)]
      BY <1>3, <3>1
    <3>3. y[i] = d[(i - Len(a)) - Len(b)]
      BY <1>2, <1>4, <3>1
    <3> QED BY <3>1, <3>2, <3>3
  <2> QED BY <1>1, <2>1, <2>2, <2>3
<1>7. x = y
  <2>1. \A i \in 1..Len(x) : x[i] = y[i]
    BY <1>5, <1>6
  <2> QED BY <1>3, <1>4, <1>5, <2>1, SeqEqual
<1> QED BY <1>7 DEF x, y, ab, bd, Associate

\* A sequence put together from four, seen from its first.
Regroup(A, B, C, D) ==
  /\ (A \o B) \o C \in Seq(Nat)
  /\ ((A \o B) \o C) \o D = A \o ((B \o C) \o D)
  /\ Len(((A \o B) \o C) \o D) = Len(A) + Len(B) + Len(C) + Len(D)

LEMMA Regroups ==
  ASSUME NEW A \in Seq(Nat), NEW B \in Seq(Nat), NEW C \in Seq(Nat), NEW D \in Seq(Nat)
  PROVE  Regroup(A, B, C, D)
<1> DEFINE AB == A \o B
           CD == C \o D
           ABC == AB \o C
<1>1. AB \in Seq(Nat) /\ Len(AB) = Len(A) + Len(B) /\ Associate(A, B, CD)
  BY Joined, Associates
<1>2. CD \in Seq(Nat) /\ Associate(B, C, D)
  BY Joined, Associates
<1> HIDE DEF AB
<1>3. ABC \in Seq(Nat) /\ Len(ABC) = Len(AB) + Len(C) /\ Associate(AB, C, D)
  BY <1>1, Joined, Associates
<1> HIDE DEF ABC
<1>4. Len(ABC \o D) = Len(ABC) + Len(D)
  BY <1>3, Joined
<1>5. Len(ABC \o D) = Len(A) + Len(B) + Len(C) + Len(D)
  BY <1>1, <1>3, <1>4
<1>6. ABC \o D = A \o ((B \o C) \o D)
  <2>1. ABC \o D = AB \o CD
    BY <1>3 DEF Associate, ABC
  <2>2. AB \o CD = A \o (B \o CD)
    BY <1>1 DEF Associate, AB
  <2>3. (B \o C) \o D = B \o CD
    BY <1>2 DEF Associate
  <2> QED BY <2>1, <2>2, <2>3
<1> QED BY <1>3, <1>5, <1>6 DEF AB, ABC, Regroup

\* Without the head of its first part.
LEMMA FrontLeaves ==
  ASSUME NEW a \in Seq(Nat), NEW b \in Seq(Nat), a # <<>>
  PROVE  /\ 1 \in 1..Len(a \o b)
         /\ Tail(a) \o b = SubSeq(a \o b, 1 + 1, Len(a \o b))
         /\ SubSeq(a \o b, 1, 1) = <<Head(a)>>
<1>1. /\ a \o b \in Seq(Nat) /\ Len(a \o b) = Len(a) + Len(b)
      /\ \A i \in 1..(Len(a) + Len(b)) : (a \o b)[i] = IF i <= Len(a) THEN a[i] ELSE b[i - Len(a)]
  BY ConcatProperties
<1>2. Len(a) \in Nat \ {0} /\ Len(b) \in Nat /\ Tail(a) \in Seq(Nat) /\ Len(Tail(a)) = Len(a) - 1
  BY HeadTail, LenProperties
<1>3. \A i \in 1..(Len(a) - 1) : Tail(a)[i] = a[i + 1]
  BY <1>2, HeadTailProperties
<1>4. /\ Tail(a) \o b \in Seq(Nat) /\ Len(Tail(a) \o b) = Len(a) - 1 + Len(b)
      /\ \A i \in 1..(Len(a) - 1 + Len(b)) :
            (Tail(a) \o b)[i] = IF i <= Len(a) - 1 THEN Tail(a)[i] ELSE b[i - (Len(a) - 1)]
  BY <1>2, ConcatProperties
<1>5. a \o b # <<>>
  BY <1>1, <1>2, EmptySeq
<1>6. /\ Tail(a \o b) \in Seq(Nat) /\ Len(Tail(a \o b)) = Len(a) + Len(b) - 1
      /\ \A i \in 1..(Len(a) + Len(b) - 1) : Tail(a \o b)[i] = (a \o b)[i + 1]
  BY <1>1, <1>5, HeadTailProperties
<1>7. ASSUME NEW i \in 1..(Len(a) - 1 + Len(b))
      PROVE  (Tail(a) \o b)[i] = Tail(a \o b)[i]
  <2>1. i + 1 \in 1..(Len(a) + Len(b)) /\ i \in 1..(Len(a) + Len(b) - 1)
    BY <1>2
  <2>2. Tail(a \o b)[i] = IF i + 1 <= Len(a) THEN a[i + 1] ELSE b[i + 1 - Len(a)]
    BY <1>1, <1>6, <2>1
  <2>3. CASE i <= Len(a) - 1
    BY <1>2, <1>3, <1>4, <2>2, <2>3
  <2>4. CASE ~(i <= Len(a) - 1)
    <3>1. i - (Len(a) - 1) = i + 1 - Len(a)
      BY <1>2
    <3> QED BY <1>2, <1>4, <2>2, <2>4, <3>1
  <2> QED BY <2>3, <2>4
<1>8. Len(Tail(a) \o b) = Len(Tail(a \o b)) /\ Len(Tail(a) \o b) = Len(a) - 1 + Len(b)
  BY <1>2, <1>4, <1>6
<1>9. Tail(a) \o b = Tail(a \o b)
  BY <1>4, <1>6, <1>7, <1>8, SeqEqual
<1>10. Tail(a \o b) = SubSeq(a \o b, 2, Len(a \o b))
  BY <1>1, <1>5, TailIsSubSeq
<1>11. SubSeq(a \o b, 1, 1) = <<Head(a)>>
  <2>1. (a \o b)[1] = a[1] /\ a[1] = Head(a) /\ 1 \in 1..Len(a \o b)
    BY <1>1, <1>2
  <2>2. PICK s \in Seq(Nat) : s = a \o b
    BY <1>1
  <2>3. SubSeq(s, 1, 1) = <<s[1]>>
    <3>1. s[1] \in Nat
      BY <2>1, <2>2, ElementOfSeq
    <3>2. /\ SubSeq(s, 1, 1) \in Seq(Nat) /\ Len(SubSeq(s, 1, 1)) = 1
          /\ \A i \in 1..1 : SubSeq(s, 1, 1)[i] = s[i]
      BY <2>1, <2>2
    <3>3. <<s[1]>> \in Seq(Nat) /\ Len(<<s[1]>>) = 1 /\ \A i \in 1..1 : <<s[1]>>[i] = s[i]
      BY <3>1
    <3> QED BY <3>2, <3>3, SeqEqual
  <2> QED BY <2>1, <2>2, <2>3
<1> QED BY <1>1, <1>2, <1>9, <1>10, <1>11

\* Without a byte in its middle.
WithoutMiddle(a, m, b) ==
  LET s == (a \o m) \o b
      i == Len(a) + 1
  IN /\ i \in 1..Len(s)
     /\ a \o b = SubSeq(s, 1, i - 1) \o SubSeq(s, i + 1, Len(s))

LEMMA MiddleLost ==
  ASSUME NEW a \in Seq(Nat), NEW m \in Seq(Nat), NEW b \in Seq(Nat), Len(m) = 1
  PROVE  WithoutMiddle(a, m, b)
<1> DEFINE f == a \o m
           s == f \o b
<1>1. Len(a) \in Nat /\ Len(b) \in Nat
  BY LenProperties
<1>2. /\ f \in Seq(Nat) /\ Len(f) = Len(a) + 1
      /\ \A i \in 1..Len(a) : f[i] = a[i]
  <2>1. /\ f \in Seq(Nat) /\ Len(f) = Len(a) + Len(m)
        /\ \A i \in 1..Len(a) : f[i] = a[i]
    BY Joined
  <2> QED BY <2>1
<1> HIDE DEF f
<1>3. /\ s \in Seq(Nat) /\ Len(s) = Len(a) + 1 + Len(b)
      /\ \A i \in 1..(Len(a) + 1) : s[i] = f[i]
      /\ \A i \in (Len(a) + 1 + 1)..(Len(a) + 1 + Len(b)) : s[i] = b[i - (Len(a) + 1)]
  <2>1. /\ s \in Seq(Nat) /\ Len(s) = Len(f) + Len(b)
        /\ \A i \in 1..Len(f) : s[i] = f[i]
        /\ \A i \in (Len(f) + 1)..(Len(f) + Len(b)) : s[i] = b[i - Len(f)]
    BY <1>2, Joined
  <2> QED BY <1>2, <2>1
<1> HIDE DEF s
<1>4. \A i \in 1..(Len(a) + 1 + Len(b)) : s[i] \in Nat
  BY <1>3
<1>5. SubSeq(s, 1, Len(a)) = a
  <2> DEFINE p == SubSeq(s, 1, Len(a))
  <2>1. 1 \in Int /\ Len(a) \in Int /\ \A i \in 1..Len(a) : s[i] \in Nat
    BY <1>1, <1>4
  <2>2. /\ p \in Seq(Nat) /\ Len(p) = (IF 1 <= Len(a) THEN Len(a) - 1 + 1 ELSE 0)
        /\ \A i \in 1..(Len(a) - 1 + 1) : p[i] = s[1 + i - 1]
    BY <2>1, SubSeqProperties
  <2> HIDE DEF p
  <2>3. Len(p) = Len(a)
    BY <1>1, <2>2
  <2>4. \A i \in 1..Len(a) : p[i] = a[i]
    <3> SUFFICES ASSUME NEW i \in 1..Len(a) PROVE p[i] = a[i]
      OBVIOUS
    <3>1. i \in 1..(Len(a) - 1 + 1) /\ 1 + i - 1 = i /\ i \in 1..(Len(a) + 1)
      BY <1>1
    <3>2. p[i] = s[i]
      BY <2>2, <3>1
    <3>3. s[i] = f[i]
      BY <1>3, <3>1
    <3> QED BY <1>2, <3>2, <3>3
  <2>5. p = a
    BY <2>2, <2>3, <2>4, SeqEqual
  <2> QED BY <2>5 DEF p
<1>6. SubSeq(s, Len(a) + 2, Len(a) + 1 + Len(b)) = b
  <2> DEFINE lo == Len(a) + 2
             hi == Len(a) + 1 + Len(b)
             q == SubSeq(s, lo, hi)
  <2>1. lo \in Int /\ hi \in Int /\ \A i \in lo..hi : s[i] \in Nat
    BY <1>1, <1>4
  <2>h. /\ hi - lo + 1 = Len(b) /\ (IF lo <= hi THEN hi - lo + 1 ELSE 0) = Len(b)
        /\ \A i \in 1..Len(b) : /\ lo + i - 1 = Len(a) + 1 + i
                                /\ lo + i - 1 \in 1..hi /\ lo + i - 1 > Len(a) + 1
                                /\ lo + i - 1 - (Len(a) + 1) = i
    BY <1>1
  <2> HIDE DEF lo, hi
  <2>2. /\ q \in Seq(Nat) /\ Len(q) = (IF lo <= hi THEN hi - lo + 1 ELSE 0)
        /\ \A i \in 1..(hi - lo + 1) : q[i] = s[lo + i - 1]
    BY <2>1, SubSeqProperties
  <2>3. Len(q) = Len(b)
    BY <2>2, <2>h
  <2>4. \A i \in 1..Len(b) : q[i] = b[i]
    <3> SUFFICES ASSUME NEW i \in 1..Len(b) PROVE q[i] = b[i]
      OBVIOUS
    <3>1. q[i] = s[lo + i - 1]
      BY <2>2, <2>h
    <3>2. PICK x : x = lo + i - 1
      OBVIOUS
    <3>3. x \in (Len(a) + 1 + 1)..(Len(a) + 1 + Len(b)) /\ x - (Len(a) + 1) = i
      BY <1>1, <3>2 DEF lo
    <3>4. s[x] = b[i]
      BY <1>3, <3>3
    <3> QED BY <3>1, <3>2, <3>4
  <2> HIDE DEF q
  <2>5. q = b
    BY <2>2, <2>3, <2>4, SeqEqual
  <2> QED BY <2>5 DEF q, lo, hi
<1>l. Len(s) = Len(a) + 1 + Len(b)
  BY <1>3
<1>7. Len(a) + 1 \in 1..Len(s) /\ Len(a) + 1 - 1 = Len(a) /\ Len(a) + 1 + 1 = Len(a) + 2
  BY <1>1, <1>l
<1>8. a \o b = SubSeq(s, 1, Len(a) + 1 - 1) \o SubSeq(s, Len(a) + 1 + 1, Len(s))
  BY <1>5, <1>6, <1>7, <1>l
<1> QED BY <1>7, <1>8 DEF s, f, WithoutMiddle

\* The one byte that arrives.
LEMMA OneArrives ==
  ASSUME NEW n \in Nat
  PROVE  [i \in 1..1 |-> n + i] = <<n + 1>> /\ <<n + 1>> \in Seq(Nat)
<1>1. [i \in 1..1 |-> n + i] \in Seq(Nat) /\ Len([i \in 1..1 |-> n + i]) = 1
  OBVIOUS
<1>2. <<n + 1>> \in Seq(Nat) /\ Len(<<n + 1>>) = 1
  OBVIOUS
<1>3. \A j \in 1..1 : [i \in 1..1 |-> n + i][j] = <<n + 1>>[j]
  OBVIOUS
<1> QED BY <1>1, <1>2, <1>3, SeqEqual
---------------------------------------------------------------------------
(***************************************************************************)
(* The ring of IPStack.                                                    *)
(***************************************************************************)
Places == 0..(BufSize - 1)

\* n bytes from place r reach to wr, round the end of the ring or not.
Reaches(r, n) == r + n \in {wr, wr + BufSize}

RingTypes ==
  /\ rd \in Places /\ wr \in Places /\ count \in 0..BufSize
  /\ {len, bytes_to_copy, first_copy, loaded} \subseteq Nat
  /\ forgot \in BOOLEAN
  /\ pc \in {"idle", "write", "called", "wait", "copy", "sub1", "store1",
             "copy2", "sub2", "store2", "done"}

\* What read() has yet to subtract is in count, and in what was loaded of it,
\* whether a callback's bytes have been forgotten or not.
Bounded ==
  /\ pc = "copy" => bytes_to_copy \in 1..count
  /\ pc \in {"sub1", "store1"} => /\ rd + first_copy = BufSize /\ bytes_to_copy > 0
                                  /\ first_copy + bytes_to_copy <= count
  /\ pc = "copy2" => /\ bytes_to_copy \in 1..count
                     /\ rd + first_copy = BufSize
                     /\ first_copy + bytes_to_copy <= BufSize
  /\ pc \in {"sub2", "store2"} => bytes_to_copy \in 1..count
  /\ pc = "store1" => loaded \in (first_copy + bytes_to_copy)..count
  /\ pc = "store2" => loaded \in bytes_to_copy..count

\* Where the count bytes begin in each step of read().
Counts ==
  /\ Settled \/ pc \in {"sub1", "store1"} => Reaches(rd, count)
  /\ pc = "copy2" => Reaches(0, count)
  /\ pc \in {"sub2", "store2"} => Reaches(rd, count - bytes_to_copy)

RingInv == RingTypes /\ Bounded /\ (~forgot => Counts)

\* A position and its remainder.
LEMMA Wrapped ==
  ASSUME NEW B \in Nat \ {0}, NEW x \in 0..(2 * B - 1)
  PROVE  x % B = IF x < B THEN x ELSE x - B
<1>1. CASE x < B
  BY <1>1, SMTT(20)
<1>2. CASE ~(x < B)
  BY <1>2, SMTT(20)
<1> QED BY <1>1, <1>2

\* connect(), write(), the loop of read() and disconnect() leave the ring alone.
LEMMA IdleRingInv ==
  ASSUME RingInv,
         Connect \/ Write \/ Read \/ WaitOver \/ ReadReturn \/ Disconnect
  PROVE  RingInv'
<1> USE RingAssumption DEF RingInv, RingTypes, Bounded, Counts, Reaches, Settled, Places,
        ring, local, conn, seen
<1>1. CASE Connect
  BY <1>1 DEF Connect
<1>2. CASE Write
  BY <1>2 DEF Write
<1>3. CASE Read
  BY <1>3 DEF Read
<1>4. CASE WaitOver
  BY <1>4 DEF WaitOver, Smaller
<1>5. CASE ReadReturn
  BY <1>5 DEF ReadReturn
<1>6. CASE Disconnect
  BY <1>6 DEF Disconnect
<1> QED BY <1>1, <1>2, <1>3, <1>4, <1>5, <1>6

\* The copies of read() and the two halves of `count -= n`.
LEMMA CopyRingInv ==
  ASSUME RingInv,
         CopyFirst \/ CopySecond \/ CopyWhole \/ LoadCount \/ StoreCount
  PROVE  RingInv'
<1> USE RingAssumption DEF RingInv, RingTypes, Bounded, Counts, Reaches, Settled, Places,
        ring, local, conn, seen
<1>1. CASE CopyFirst
  <2>1. /\ pc = "copy" /\ pc' = "sub1" /\ rd + bytes_to_copy > BufSize
        /\ first_copy' = BufSize - rd /\ bytes_to_copy' = bytes_to_copy - first_copy'
        /\ UNCHANGED <<rd, count, dropped, wr, len, loaded, forgot>>
    BY <1>1 DEF CopyFirst
  <2>2. /\ bytes_to_copy \in 1..count /\ rd \in Places /\ BufSize \in Nat \ {0}
        /\ count \in 0..BufSize
    BY <2>1
  <2>3. /\ first_copy' \in Nat /\ bytes_to_copy' \in Nat /\ bytes_to_copy' > 0
        /\ rd + first_copy' = BufSize /\ first_copy' + bytes_to_copy' <= count
    BY <2>1, <2>2
  <2>4. RingTypes' /\ Bounded'
    BY <2>1, <2>3
  <2>5. ~forgot => Reaches(rd, count)'
    BY <2>1
  <2> QED BY <2>1, <2>4, <2>5
<1>2. CASE CopySecond
  BY <1>2 DEF CopySecond, CopyRest
<1>3. CASE CopyWhole
  <2> DEFINE x == rd + bytes_to_copy
  <2>1. /\ pc = "copy" /\ pc' = "sub2" /\ rd' = x % BufSize /\ x <= BufSize
        /\ bytes_to_copy \in 1..count /\ BufSize \in Nat \ {0}
        /\ UNCHANGED <<count, wr, len, bytes_to_copy, first_copy, loaded, forgot>>
    BY <1>3 DEF CopyWhole
  <2>2. x \in 0..(2 * BufSize - 1)
    BY <2>1
  <2>3. x % BufSize = IF x < BufSize THEN x ELSE x - BufSize
    <3> HIDE DEF x
    <3> QED BY <2>1, <2>2, Wrapped
  <2>4. rd' = (IF x < BufSize THEN x ELSE x - BufSize) /\ rd' \in Places
    BY <2>1, <2>2, <2>3
  <2>5. RingTypes' /\ Bounded'
    BY <2>1, <2>4
  <2>6. ~forgot => Reaches(rd, count - bytes_to_copy)'
    BY <2>1, <2>4
  <2> QED BY <2>1, <2>5, <2>6
<1>4. CASE LoadCount
  BY <1>4 DEF LoadCount
<1>5. CASE StoreCount
  <2>1. CASE pc = "store1"
    <3>1. /\ count' = loaded - first_copy /\ pc' = "copy2"
          /\ ~forgot' => count = loaded /\ ~forgot
          /\ UNCHANGED <<rd, wr, len, bytes_to_copy, first_copy, loaded>>
      BY <1>5, <2>1 DEF StoreCount
    <3> QED BY <2>1, <3>1, <1>5 DEF StoreCount
  <2>2. CASE pc = "store2"
    <3>1. /\ count' = loaded - bytes_to_copy /\ pc' = "done"
          /\ ~forgot' => count = loaded /\ ~forgot
          /\ UNCHANGED <<rd, wr, len, bytes_to_copy, first_copy, loaded>>
      BY <1>5, <2>2 DEF StoreCount
    <3> QED BY <2>2, <3>1, <1>5 DEF StoreCount
  <2> QED BY <1>5, <2>1, <2>2 DEF StoreCount
<1> QED BY <1>1, <1>2, <1>3, <1>4, <1>5

\* The ring after k bytes more: they fit, and wr is right behind them.
LEMMA Received ==
  ASSUME RingTypes, NEW p \in Pcbs, Receive(p)
  PROVE  /\ UNCHANGED <<rd, len, bytes_to_copy, first_copy, loaded, pc, forgot, given>>
         /\ \E n \in Packets : LET k == Smaller(BufSize - count, n) IN
              /\ k \in 0..(BufSize - count) /\ arrived + n <= MaxArrived
              /\ arrived' = arrived + n /\ count' = count + k
              /\ wr' = (IF wr + k < BufSize THEN wr + k ELSE wr + k - BufSize)
              /\ k < n => count + k = BufSize
              /\ LET first == IF wr + k > BufSize THEN BufSize - wr ELSE 0
                     start == IF wr + k > BufSize THEN 0 ELSE wr
                 IN buffer' = Filled(Filled(buffer, wr, first, 0), start,
                                     k - first, first)
<1>1. UNCHANGED <<rd, len, bytes_to_copy, first_copy, loaded, pc, forgot, given>>
  BY DEF Receive, local
<1> DEFINE k(n) == Smaller(BufSize - count, n)
           first(n) == IF wr + k(n) > BufSize THEN BufSize - wr ELSE 0
           start(n) == IF wr + k(n) > BufSize THEN 0 ELSE wr
<1>2. PICK n \in Packets :
        /\ arrived + n <= MaxArrived
        /\ buffer' = Filled(Filled(buffer, wr, first(n), 0), start(n),
                            k(n) - first(n), first(n))
        /\ wr' = (start(n) + (k(n) - first(n))) % BufSize
        /\ count' = count + first(n) + (k(n) - first(n))
        /\ arrived' = arrived + n
  BY DEF Receive, Available, SecondOffset
<1>3. n \in Nat \ {0} /\ BufSize \in Nat \ {0} /\ wr \in Places /\ count \in 0..BufSize
  BY RingAssumption DEF RingTypes
<1>4. k(n) \in 0..(BufSize - count) /\ (k(n) < n => count + k(n) = BufSize)
  BY <1>3 DEF Smaller
<1> HIDE DEF k
<1>5. /\ start(n) + (k(n) - first(n)) \in 0..(2 * BufSize - 1)
      /\ start(n) + (k(n) - first(n)) = IF wr + k(n) > BufSize THEN wr + k(n) - BufSize
                                       ELSE wr + k(n)
      /\ count + first(n) + (k(n) - first(n)) = count + k(n)
  BY <1>3, <1>4 DEF Places
<1>6. wr' = IF wr + k(n) < BufSize THEN wr + k(n) ELSE wr + k(n) - BufSize
  BY <1>2, <1>3, <1>4, <1>5, Wrapped DEF Places
<1> QED BY <1>1, <1>2, <1>4, <1>5, <1>6 DEF k

\* A callback between any two steps of read(), those of `count -= n` included.
LEMMA LwipRingInv ==
  ASSUME RingInv, Lwip
  PROVE  RingInv'
<1>1. CASE \E p \in Pcbs : Connected(p) \/ PeerClosed(p) \/ Error(p)
  BY <1>1 DEF Connected, PeerClosed, Error, RingInv, RingTypes, Bounded, Counts, Settled,
     Reaches, ring, local, conn, seen
<1>2. ASSUME NEW p \in Pcbs, Receive(p) PROVE RingInv'
  <2>1. UNCHANGED <<rd, len, bytes_to_copy, first_copy, loaded, pc, forgot>>
    BY <1>2, Received DEF RingInv
  <2>2. PICK n \in Packets : LET k == Smaller(BufSize - count, n) IN
          /\ k \in 0..(BufSize - count) /\ count' = count + k
          /\ wr' = (IF wr + k < BufSize THEN wr + k ELSE wr + k - BufSize)
    BY <1>2, Received DEF RingInv
  <2> DEFINE k == Smaller(BufSize - count, n)
  <2>3. k \in 0..(BufSize - count) /\ count' = count + k
        /\ wr' = (IF wr + k < BufSize THEN wr + k ELSE wr + k - BufSize)
    BY <2>2
  <2> HIDE DEF k
  <2>4. RingTypes'
    BY <2>1, <2>3, RingAssumption DEF RingInv, RingTypes, Places
  <2>5. Bounded'
    BY <2>1, <2>3, RingAssumption DEF RingInv, RingTypes, Bounded
  <2>6. ASSUME ~forgot' PROVE Counts'
    <3>1. Counts
      BY <2>1, <2>6 DEF RingInv
    <3> QED BY <2>1, <2>3, <3>1, RingAssumption
            DEF RingInv, RingTypes, Bounded, Counts, Reaches, Settled, Places
  <2> QED BY <2>4, <2>5, <2>6 DEF RingInv
<1> QED BY <1>1, <1>2 DEF Lwip

LEMMA InitRingInv == Init => RingInv
BY RingAssumption DEF Init, RingInv, RingTypes, Bounded, Counts, Reaches, Settled, Places

LEMMA StepRingInv ==
  ASSUME RingInv, [Next]_vars
  PROVE  RingInv'
<1>1. CASE UNCHANGED vars
  BY <1>1 DEF vars, ring, local, seen, RingInv, RingTypes, Bounded, Counts, Reaches, Settled
<1> QED BY <1>1, IdleRingInv, CopyRingInv, LwipRingInv DEF Next, Reading

\* "reduce count by copied bytes", "increment count by copied bytes": count
\* bytes lie between rd and wr until a callback of lwIP comes between the load
\* and the store of `count -= n`.
THEOREM CountIsTrueCorrect == Spec => []CountIsTrue
<1>1. RingInv => CountIsTrue
  <2> SUFFICES ASSUME RingInv, ~forgot, Settled PROVE (rd + count) % BufSize = wr
    BY DEF CountIsTrue
  <2> DEFINE x == rd + count
  <2>1. x \in {wr, wr + BufSize} /\ x \in 0..(2 * BufSize - 1)
        /\ wr \in Places /\ BufSize \in Nat \ {0}
    BY RingAssumption DEF RingInv, RingTypes, Counts, Places, Reaches
  <2> HIDE DEF x
  <2>2. x % BufSize = IF x < BufSize THEN x ELSE x - BufSize
    BY <2>1, Wrapped
  <2>3. x % BufSize = wr
    BY <2>1, <2>2 DEF Places
  <2> QED BY <2>3 DEF x
<1> QED BY <1>1, InitRingInv, StepRingInv, PTL DEF Spec

\* No copy of read() or tcp_client_recv() leaves the buffer, whatever step a
\* callback comes between, and also when count has lost bytes.
THEOREM CopiesInRingCorrect == Spec => []CopiesInRing
<1>1. RingInv => CopiesInRing
  BY RingAssumption DEF RingInv, RingTypes, Bounded, CopiesInRing, Places
<1> QED BY <1>1, InitRingInv, StepRingInv, PTL DEF Spec
---------------------------------------------------------------------------
\* The place of the byte i in the ring, and how far a place is behind wr.
Slot(i) == IF wr - count + (i - 1) >= 0 THEN wr - count + (i - 1)
           ELSE wr - count + (i - 1) + BufSize
Behind(q) == IF q >= wr THEN q - wr ELSE q - wr + BufSize

InsideIs ==
  /\ Inside \in Seq(Nat) /\ Len(Inside) = count
  /\ \A i \in 1..count : Inside[i] = buffer[Slot(i)] /\ Slot(i) \in Places

\* What a memcpy() has copied and count still holds are the first bytes of
\* the ring.
Pending ==
  /\ Copied <= Len(given)
  /\ \A i \in 1..Copied : given[Len(given) - Copied + i] = Inside[i]

BytesInv ==
  /\ RingInv
  /\ arrived \in Nat
  /\ buffer \in [Places -> Nat]
  /\ given \in Seq(Nat)
  /\ ~forgot => Pending

LEMMA InsideBytes ==
  ASSUME RingTypes, buffer \in [Places -> Nat] PROVE InsideIs
<1>1. count \in 0..BufSize /\ wr \in Places /\ BufSize \in Nat \ {0}
  BY RingAssumption DEF RingTypes
<1>2. ASSUME NEW i \in 1..count
      PROVE  (wr + BufSize - count + (i - 1)) % BufSize = Slot(i) /\ Slot(i) \in Places
  <2> DEFINE x == wr + BufSize - count + (i - 1)
  <2>1. x \in 0..(2 * BufSize - 1)
    BY <1>1 DEF Places
  <2>2. Slot(i) = (IF x < BufSize THEN x ELSE x - BufSize) /\ Slot(i) \in Places
    BY <1>1, <2>1 DEF Slot, Places
  <2> HIDE DEF x
  <2>3. x % BufSize = IF x < BufSize THEN x ELSE x - BufSize
    BY <1>1, <2>1, Wrapped
  <2> QED BY <2>2, <2>3 DEF x
<1>3. Inside = [i \in 1..count |-> buffer[Slot(i)]]
  BY <1>2 DEF Inside
<1>4. \A i \in 1..count : buffer[Slot(i)] \in Nat
  BY <1>2
<1> QED BY <1>1, <1>2, <1>3, <1>4 DEF InsideIs

LEMMA InsideBytesNext == RingTypes' /\ (buffer \in [Places -> Nat])' => InsideIs'
BY InsideBytes, PTL

LEMMA CopiedBound ==
  ASSUME RingInv PROVE Copied \in 0..count
BY RingAssumption DEF RingInv, RingTypes, Bounded, Copied, Places

\* The ring after a packet: k bytes from wr on are new, the others are kept.
LEMMA ReceivedBytes ==
  ASSUME RingTypes, arrived \in Nat, buffer \in [Places -> Nat],
         NEW k \in 0..(BufSize - count),
         LET first == IF wr + k > BufSize THEN BufSize - wr ELSE 0
             start == IF wr + k > BufSize THEN 0 ELSE wr
         IN buffer' = Filled(Filled(buffer, wr, first, 0), start, k - first, first)
  PROVE  /\ buffer' \in [Places -> Nat]
         /\ \A q \in Places : buffer'[q] = IF Behind(q) < k THEN arrived + Behind(q) + 1
                                           ELSE buffer[q]
<1>1. wr \in Places /\ count \in 0..BufSize /\ BufSize \in Nat \ {0}
  BY RingAssumption DEF RingTypes
<1>2. buffer' = [q \in Places |-> IF Behind(q) < k THEN arrived + Behind(q) + 1
                                  ELSE buffer[q]]
  <2>1. CASE wr + k > BufSize
    <3>1. buffer' = [q \in Places |->
                       IF q \in 0..(k - (BufSize - wr) - 1)
                       THEN arrived + (BufSize - wr) + q + 1
                       ELSE IF q \in wr..(BufSize - 1) THEN arrived + (q - wr) + 1
                       ELSE buffer[q]]
      BY <1>1, <2>1 DEF Filled, Places
    <3>2. ASSUME NEW q \in Places
          PROVE  buffer'[q] = IF Behind(q) < k THEN arrived + Behind(q) + 1 ELSE buffer[q]
      <4>1. CASE q >= wr
        BY <1>1, <2>1, <3>1, <4>1 DEF Behind, Places
      <4>2. CASE q < wr
        BY <1>1, <2>1, <3>1, <4>2 DEF Behind, Places
      <4> QED BY <1>1, <4>1, <4>2 DEF Places
    <3>3. DOMAIN buffer' = Places /\ buffer' = [q \in Places |-> buffer'[q]]
      BY <3>1
    <3> QED BY <3>2, <3>3
  <2>2. CASE ~(wr + k > BufSize)
    <3>1. buffer' = [q \in Places |->
                       IF q \in wr..(wr + k - 1) THEN arrived + (q - wr) + 1
                       ELSE buffer[q]]
      BY <1>1, <2>2 DEF Filled, Places
    <3> QED BY <1>1, <2>2, <3>1 DEF Behind, Places
  <2> QED BY <2>1, <2>2
<1>3. \A q \in Places : Behind(q) \in Nat
  BY <1>1 DEF Behind, Places
<1> QED BY <1>1, <1>2, <1>3

\* tcp_client_recv() puts the bytes that fit behind those in the ring.
Enters ==
  /\ Channel!Enter
  /\ \A i \in 1..count : Inside'[i] = Inside[i]
  /\ buffer' \in [Places -> Nat] /\ arrived' \in Nat

LEMMA ReceiveEnters ==
  ASSUME BytesInv, RingInv', NEW p \in Pcbs, Receive(p)
  PROVE  Enters
<1>1. PICK n \in Packets : LET k == Smaller(BufSize - count, n) IN
        /\ k \in 0..(BufSize - count) /\ arrived + n <= MaxArrived
        /\ arrived' = arrived + n /\ count' = count + k
        /\ wr' = (IF wr + k < BufSize THEN wr + k ELSE wr + k - BufSize)
        /\ k < n => count + k = BufSize
        /\ LET first == IF wr + k > BufSize THEN BufSize - wr ELSE 0
               start == IF wr + k > BufSize THEN 0 ELSE wr
           IN buffer' = Filled(Filled(buffer, wr, first, 0), start, k - first, first)
  BY Received DEF BytesInv, RingInv
<1> DEFINE k == Smaller(BufSize - count, n)
<1>2. /\ k \in 0..(BufSize - count) /\ arrived + n <= MaxArrived
      /\ arrived' = arrived + n /\ count' = count + k
      /\ wr' = (IF wr + k < BufSize THEN wr + k ELSE wr + k - BufSize)
      /\ k < n => count + k = BufSize
  BY <1>1
<1>3. /\ buffer' \in [Places -> Nat]
      /\ \A q \in Places : buffer'[q] = IF Behind(q) < k THEN arrived + Behind(q) + 1
                                        ELSE buffer[q]
  BY <1>1, ReceivedBytes DEF BytesInv, RingInv
<1>4. k <= n
  BY RingAssumption, <1>2 DEF Smaller, BytesInv, RingInv, RingTypes
<1> HIDE DEF k
<1>5. UNCHANGED <<pc, first_copy, bytes_to_copy, given>>
  BY Received DEF BytesInv, RingInv
<1>7. /\ wr \in Places /\ count \in 0..BufSize
      /\ BufSize \in Nat \ {0} /\ arrived \in Nat /\ n \in Nat \ {0} /\ MaxArrived \in Nat
  BY RingAssumption DEF BytesInv, RingInv, RingTypes
<1> DEFINE new == [i \in 1..k |-> arrived + i]
<1>8. new \in Seq(Nat) /\ Len(new) = k
  BY <1>2, <1>7
<1>9. ASSUME NEW i \in 1..(count + k)
      PROVE  buffer'[Slot(i)'] = IF i <= count THEN buffer[Slot(i)]
                                 ELSE arrived + (i - count)
  <2> DEFINE q == Slot(i)'
  <2>0. q = IF wr' - count' + (i - 1) >= 0 THEN wr' - count' + (i - 1)
            ELSE wr' - count' + (i - 1) + BufSize
    BY DEF Slot
  <2> HIDE DEF q
  <2>1. q \in Places
    BY <1>2, <1>7, <2>0 DEF Places
  <2>2. CASE i <= count
    <3>1. q = Slot(i)
      BY <1>2, <1>7, <2>0, <2>2 DEF Slot, Places
    <3>2. Behind(q) >= k /\ Behind(q) \in Nat
      BY <1>2, <1>7, <2>2, <3>1 DEF Slot, Places, Behind
    <3> QED BY <1>2, <1>3, <2>1, <2>2, <3>1, <3>2 DEF q
  <2>3. CASE ~(i <= count)
    <3>1. Behind(q) = i - 1 - count
      BY <1>2, <1>7, <2>0, <2>3 DEF Places, Behind
    <3> QED BY <1>2, <1>3, <1>7, <2>1, <2>3, <3>1 DEF q
  <2> QED BY <2>2, <2>3
<1>10. /\ Inside \in Seq(Nat) /\ Len(Inside) = count
       /\ \A i \in 1..count : Inside[i] = buffer[Slot(i)]
  BY InsideBytes DEF InsideIs, BytesInv, RingInv
<1>11. /\ Inside' \in Seq(Nat) /\ Len(Inside') = count + k
       /\ \A i \in 1..(count + k) : Inside'[i] = buffer'[Slot(i)']
  <2>1. (buffer \in [Places -> Nat])'
    BY <1>3 DEF Places
  <2>2. InsideIs'
    BY <2>1, InsideBytesNext DEF RingInv
  <2> QED BY <1>2, <2>2 DEF InsideIs
<1> HIDE DEF new
<1>12. Inside' = Inside \o new
  <2> DEFINE both == Inside \o new
  <2>1. /\ both \in Seq(Nat) /\ Len(both) = Len(Inside) + Len(new)
        /\ \A i \in 1..Len(Inside) : both[i] = Inside[i]
        /\ \A i \in (Len(Inside) + 1)..(Len(Inside) + Len(new)) :
               both[i] = new[i - Len(Inside)]
    BY <1>8, <1>10, Joined
  <2>2. /\ both \in Seq(Nat) /\ Len(both) = count + k
        /\ \A i \in 1..count : both[i] = Inside[i]
        /\ \A i \in (count + 1)..(count + k) : both[i] = new[i - count]
    BY <1>8, <1>10, <2>1
  <2> HIDE DEF both
  <2>3. ASSUME NEW i \in 1..(count + k) PROVE Inside'[i] = both[i]
    <3>1. CASE i <= count
      <4>1. i \in 1..count
        BY <1>7, <3>1
      <4> QED BY <1>9, <1>10, <1>11, <2>2, <3>1, <4>1
    <3>2. CASE ~(i <= count)
      <4>1. i - count \in 1..k /\ i \in (count + 1)..(count + k)
        BY <1>2, <1>7, <3>2
      <4> QED BY <1>9, <1>11, <2>2, <3>2, <4>1 DEF new
    <3> QED BY <3>1, <3>2
  <2>4. Inside' = both
    BY <1>11, <2>2, <2>3, SeqEqual
  <2> QED BY <2>4 DEF both
<1>13. n \in 1..MaxArrived /\ k \in 0..n
  BY <1>2, <1>4, <1>7
<1>14. /\ k < n => Len(Inside) + k = BufSize
       /\ Len(Inside) + k <= BufSize
  BY <1>2, <1>7, <1>10
<1>15. Out' = Out
  BY <1>5 DEF Out, Copied
<1>16. Channel!Enter
  BY <1>2, <1>12, <1>13, <1>14, <1>15 DEF Channel!Enter, new
<1>17. ASSUME NEW i \in 1..count PROVE Inside'[i] = Inside[i]
  <2>1. i \in 1..(count + k) /\ i <= count
    BY <1>2, <1>7
  <2> QED BY <1>9, <1>10, <1>11, <2>1
<1> QED BY <1>2, <1>3, <1>7, <1>16, <1>17 DEF Enters

\* A memcpy() of n bytes from place r, where the bytes of the ring begin: read()
\* has them, the channel does not move, and they are the first of the ring.
Copies(n) ==
  /\ Out' = Out /\ Inside' = Inside
  /\ given' \in Seq(Nat) /\ Pending'

LEMMA CopyTakes ==
  ASSUME BytesInv, NEW n \in 1..count, NEW r \in Places,
         Reaches(r, count), r + n <= BufSize,
         Copied = 0, Copied' = n, given' = given \o Chunk(r, n),
         UNCHANGED <<buffer, wr, count>>
  PROVE  Copies(n)
<1>1. /\ wr \in Places /\ count \in 0..BufSize /\ BufSize \in Nat \ {0} /\ given \in Seq(Nat)
  BY RingAssumption DEF BytesInv, RingInv, RingTypes
<1>2. InsideIs
  BY InsideBytes DEF BytesInv, RingInv
<1>3. Inside' = Inside
  BY DEF Inside
<1> DEFINE chunk == Chunk(r, n)
<1>4. /\ chunk \in Seq(Nat) /\ Len(chunk) = n
      /\ \A i \in 1..n : chunk[i] = Inside[i]
  <2>1. ASSUME NEW i \in 1..n
        PROVE  r + i - 1 \in Places /\ r + i - 1 = Slot(i) /\ i \in 1..count
    BY <1>1 DEF Slot, Reaches, Places
  <2>2. \A i \in 1..n : buffer[r + i - 1] \in Nat
    BY <2>1 DEF BytesInv
  <2>3. chunk = [i \in 1..n |-> buffer[r + i - 1]]
    BY DEF Chunk
  <2>4. ASSUME NEW i \in 1..n PROVE chunk[i] = Inside[i]
    <3>1. chunk[i] = buffer[r + i - 1]
      BY <2>3
    <3>2. Inside[i] = buffer[Slot(i)]
      BY <1>2, <2>1 DEF InsideIs
    <3> QED BY <2>1, <3>1, <3>2
  <2> QED BY <2>2, <2>3, <2>4
<1> HIDE DEF chunk
<1>5. /\ Len(given) \in Nat
      /\ given' \in Seq(Nat) /\ Len(given') = Len(given) + n
      /\ \A i \in 1..Len(given) : given'[i] = given[i]
      /\ \A i \in (Len(given) + 1)..(Len(given) + n) : given'[i] = chunk[i - Len(given)]
  <2>1. given' = given \o chunk
    BY DEF chunk
  <2>2. PICK m \in Nat : m = Len(given)
    BY <1>1, LenProperties
  <2>3. /\ given \o chunk \in Seq(Nat) /\ Len(given \o chunk) = Len(given) + Len(chunk)
        /\ \A i \in 1..Len(given) : (given \o chunk)[i] = given[i]
        /\ \A i \in (Len(given) + 1)..(Len(given) + Len(chunk)) :
               (given \o chunk)[i] = chunk[i - Len(given)]
    BY <1>1, <1>4, Joined
  <2> QED BY <1>4, <2>1, <2>2, <2>3, Zenon
<1>6. Pending'
  <2>1. ASSUME NEW i \in 1..n PROVE given'[Len(given) + i] = Inside[i]
    <3> DEFINE j == Len(given) + i
    <3>1. j \in (Len(given) + 1)..(Len(given) + n) /\ j - Len(given) = i
      BY <1>5
    <3> HIDE DEF j
    <3>2. given'[j] = chunk[i]
      BY <1>5, <3>1
    <3> QED BY <1>4, <3>2 DEF j
  <2>2. Len(given') - Copied' = Len(given) /\ Copied' <= Len(given')
    BY <1>5
  <2> QED BY <1>3, <2>1, <2>2 DEF Pending
<1>7. Out' = Out
  <2>1. Out = SubSeq(given, 1, Len(given))
    BY <1>5 DEF Out
  <2>2. Out' = SubSeq(given', 1, Len(given))
    <3>1. Len(given') - Copied' = Len(given)
      BY <1>5
    <3> QED BY <3>1 DEF Out
  <2>3. PICK g \in Seq(Nat) : g = given'
    BY <1>5
  <2>4. /\ SubSeq(g, 1, Len(given)) \in Seq(Nat)
        /\ Len(SubSeq(g, 1, Len(given))) = Len(given)
        /\ \A i \in 1..Len(given) : SubSeq(g, 1, Len(given))[i] = g[i]
    BY <1>1, <1>5, <2>3
  <2>5. SubSeq(given, 1, Len(given)) = given
    BY <1>1, SubSeqFull
  <2> DEFINE o == SubSeq(g, 1, Len(given))
  <2> HIDE DEF o
  <2>6. o = given
    <3>1. o \in Seq(Nat) /\ Len(o) = Len(given) /\ \A i \in 1..Len(o) : o[i] = given[i]
      BY <1>5, <2>3, <2>4 DEF o
    <3> QED BY <1>1, <3>1, SeqEqual
  <2> QED BY <2>1, <2>2, <2>3, <2>5, <2>6 DEF o
<1> QED BY <1>3, <1>5, <1>6, <1>7 DEF Copies

\* The first m bytes of a sequence, and the rest behind them.
LEMMA Beheaded ==
  ASSUME NEW s \in Seq(Nat), NEW k \in Nat, Len(s) = k, NEW m \in 0..k
  PROVE  /\ SubSeq(s, 1, m) \in Seq(Nat) /\ Len(SubSeq(s, 1, m)) = m
         /\ \A i \in 1..m : SubSeq(s, 1, m)[i] = s[i]
         /\ SubSeq(s, m + 1, k) \in Seq(Nat) /\ Len(SubSeq(s, m + 1, k)) = k - m
         /\ \A i \in 1..(k - m) : SubSeq(s, m + 1, k)[i] = s[m + i]
<1>1. \A i \in 1..k : s[i] \in Nat
  OBVIOUS
<1>2. /\ SubSeq(s, 1, m) \in Seq(Nat)
      /\ Len(SubSeq(s, 1, m)) = IF 1 <= m THEN m - 1 + 1 ELSE 0
      /\ \A i \in 1..(m - 1 + 1) : SubSeq(s, 1, m)[i] = s[1 + i - 1]
  <2>1. \A i \in 1..m : s[i] \in Nat
    BY <1>1
  <2> QED BY <2>1, SubSeqProperties
<1>3. /\ SubSeq(s, m + 1, k) \in Seq(Nat)
      /\ Len(SubSeq(s, m + 1, k)) = IF m + 1 <= k THEN k - (m + 1) + 1 ELSE 0
      /\ \A i \in 1..(k - (m + 1) + 1) : SubSeq(s, m + 1, k)[i] = s[m + 1 + i - 1]
  <2>1. \A i \in (m + 1)..k : s[i] \in Nat
    BY <1>1
  <2> QED BY <2>1, SubSeqProperties
<1>4. /\ Len(SubSeq(s, 1, m)) = m
      /\ \A i \in 1..m : SubSeq(s, 1, m)[i] = s[i]
  <2> DEFINE h == SubSeq(s, 1, m)
  <2> HIDE DEF h
  <2>1. /\ Len(h) = IF 1 <= m THEN m - 1 + 1 ELSE 0
        /\ \A i \in 1..(m - 1 + 1) : h[i] = s[1 + i - 1]
    BY <1>2 DEF h
  <2>2. Len(h) = m /\ \A i \in 1..m : h[i] = s[i]
    BY <2>1
  <2> QED BY <2>2 DEF h
<1>5. /\ Len(SubSeq(s, m + 1, k)) = k - m
      /\ \A i \in 1..(k - m) : SubSeq(s, m + 1, k)[i] = s[m + i]
  <2> DEFINE r == SubSeq(s, m + 1, k)
  <2> HIDE DEF r
  <2>1. /\ Len(r) = IF m + 1 <= k THEN k - (m + 1) + 1 ELSE 0
        /\ \A i \in 1..(k - (m + 1) + 1) : r[i] = s[m + 1 + i - 1]
    BY <1>3 DEF r
  <2>2. Len(r) = k - m /\ \A i \in 1..(k - m) : r[i] = s[m + i]
    BY <2>1
  <2> QED BY <2>2 DEF r
<1> QED BY <1>2, <1>3, <1>4, <1>5

\* Where the store of `count -= n` forgets nothing, the bytes copied leave.
LEMMA StoreLeaves ==
  ASSUME BytesInv, RingInv', StoreCount, ~forgot'
  PROVE  Channel!Leave
<1> DEFINE n == Copied
<1>1. /\ n \in 1..count /\ count' = count - n /\ Copied' = 0 /\ ~forgot
      /\ UNCHANGED <<buffer, wr, given, arrived>>
  <2>1. /\ count = loaded /\ ~forgot /\ UNCHANGED <<buffer, wr, given, arrived>>
        /\ RingTypes /\ Bounded /\ BufSize \in Nat \ {0}
    BY RingAssumption DEF StoreCount, BytesInv, RingInv
  <2>2. CASE pc = "store1"
    <3>1. pc' = "copy2" /\ count' = loaded - first_copy
      BY <2>2 DEF StoreCount
    <3>2. first_copy \in 1..count
      BY <2>1, <2>2 DEF RingTypes, Bounded, Places
    <3>3. n = first_copy /\ Copied' = 0
      BY <2>2, <3>1 DEF Copied
    <3> QED BY <2>1, <3>1, <3>2, <3>3
  <2>3. CASE pc = "store2"
    <3>1. pc' = "done" /\ count' = loaded - bytes_to_copy
      BY <2>3 DEF StoreCount
    <3>2. bytes_to_copy \in 1..count
      BY <2>1, <2>3 DEF RingTypes, Bounded
    <3>3. n = bytes_to_copy /\ Copied' = 0
      BY <2>3, <3>1 DEF Copied
    <3> QED BY <2>1, <3>1, <3>2, <3>3
  <2> QED BY <2>2, <2>3 DEF StoreCount
<1> HIDE DEF n
<1>2. /\ count \in 0..BufSize /\ wr \in Places /\ BufSize \in Nat \ {0}
      /\ given \in Seq(Nat) /\ Pending
  BY <1>1, RingAssumption DEF BytesInv, RingInv, RingTypes
<1>3. InsideIs
  BY InsideBytes DEF BytesInv, RingInv
<1>4. InsideIs'
  <2>1. (buffer \in [Places -> Nat])'
    BY <1>1 DEF BytesInv, Places
  <2> QED BY <2>1, InsideBytesNext DEF RingInv
<1>5. Inside' = SubSeq(Inside, n + 1, Len(Inside))
  <2>1. /\ Inside \in Seq(Nat) /\ Len(Inside) = count
        /\ Inside' \in Seq(Nat) /\ Len(Inside') = count - n
    BY <1>1, <1>3, <1>4 DEF InsideIs
  <2> DEFINE rest == SubSeq(Inside, n + 1, Len(Inside))
  <2>2. /\ rest \in Seq(Nat) /\ Len(rest) = count - n
        /\ \A i \in 1..(count - n) : rest[i] = Inside[n + i]
    <3>1. n \in 0..count /\ count \in Nat
      BY <1>1, <1>2
    <3>2. rest = SubSeq(Inside, n + 1, count)
      BY <2>1
    <3> HIDE DEF rest
    <3> QED BY <2>1, <3>1, <3>2, Beheaded
  <2>3. ASSUME NEW i \in 1..(count - n) PROVE Inside'[i] = Inside[n + i]
    <3>1. n + i \in 1..count /\ Slot(i)' = Slot(n + i)
      BY <1>1, <1>2 DEF Slot, Places
    <3>2. Inside'[i] = buffer'[Slot(i)'] /\ Inside[n + i] = buffer[Slot(n + i)]
      BY <1>1, <1>3, <1>4, <3>1 DEF InsideIs
    <3> QED BY <1>1, <3>1, <3>2
  <2>4. \A i \in 1..(count - n) : Inside'[i] = rest[i]
    BY <2>2, <2>3
  <2> HIDE DEF rest
  <2>5. Inside' = rest
    BY <2>1, <2>2, <2>4, SeqEqual
  <2> QED BY <2>5 DEF rest
<1>6. Out' = Out \o SubSeq(Inside, 1, n)
  <2>1. Inside \in Seq(Nat) /\ Len(Inside) = count /\ Len(given) \in Nat
    BY <1>2, <1>3, LenProperties DEF InsideIs
  <2>2. n <= Len(given) /\ \A i \in 1..n : given[Len(given) - n + i] = Inside[i]
    BY <1>2 DEF Pending, n
  <2> DEFINE o == SubSeq(given, 1, Len(given) - n)
             h == SubSeq(Inside, 1, n)
             both == o \o h
  <2>3. /\ o \in Seq(Nat) /\ Len(o) = Len(given) - n
        /\ \A i \in 1..(Len(given) - n) : o[i] = given[i]
    <3> DEFINE m == Len(given) - n
    <3>1. m \in Nat /\ m <= Len(given)
      BY <1>1, <1>2, <2>1, <2>2
    <3> HIDE DEF m
    <3>2. /\ SubSeq(given, 1, m) \in Seq(Nat) /\ Len(SubSeq(given, 1, m)) = m
          /\ \A i \in 1..m : SubSeq(given, 1, m)[i] = given[i]
      <4>1. m \in 0..Len(given) /\ given \in Seq(Nat) /\ Len(given) \in Nat
        BY <1>2, <2>1, <3>1
      <4> QED BY <4>1, Beheaded
    <3> QED BY <3>2 DEF m
  <2>4. /\ h \in Seq(Nat) /\ Len(h) = n /\ \A i \in 1..n : h[i] = Inside[i]
    <3>1. n \in 0..count /\ count \in Nat
      BY <1>1, <1>2
    <3> QED BY <2>1, <3>1, Beheaded
  <2> HIDE DEF o, h
  <2>5. /\ both \in Seq(Nat) /\ Len(both) = Len(o) + Len(h)
        /\ \A i \in 1..Len(o) : both[i] = o[i]
        /\ \A i \in (Len(o) + 1)..(Len(o) + Len(h)) : both[i] = h[i - Len(o)]
    BY <2>3, <2>4, Joined
  <2>6. Len(both) = Len(given)
    BY <1>1, <2>1, <2>3, <2>4, <2>5
  <2> HIDE DEF both
  <2>7. ASSUME NEW i \in 1..Len(given) PROVE both[i] = given[i]
    <3>1. CASE i <= Len(given) - n
      <4>1. i \in 1..(Len(given) - n) /\ i \in 1..Len(o)
        BY <1>1, <2>1, <2>3, <3>1
      <4> QED BY <2>3, <2>5, <4>1
    <3>2. CASE ~(i <= Len(given) - n)
      <4> DEFINE j == i - (Len(given) - n)
      <4>1. j \in 1..n /\ i \in (Len(o) + 1)..(Len(o) + Len(h)) /\ i - Len(o) = j
            /\ Len(given) - n + j = i
        BY <1>1, <2>1, <2>2, <2>3, <2>4, <3>2
      <4> HIDE DEF j
      <4>2. both[i] = h[j]
        BY <2>5, <4>1
      <4>3. h[j] = Inside[j] /\ given[Len(given) - n + j] = Inside[j]
        BY <2>2, <2>4, <4>1
      <4> QED BY <4>1, <4>2, <4>3
    <3> QED BY <3>1, <3>2
  <2>8. both = given
    BY <1>2, <2>5, <2>6, <2>7, SeqEqual DEF both
  <2>9. Out' = given
    <3>1. Len(given') - Copied' = Len(given) /\ given' = given
      BY <1>1, <2>1
    <3>2. SubSeq(given, 1, Len(given)) = given
      BY <1>2, SubSeqFull
    <3> QED BY <3>1, <3>2 DEF Out
  <2> QED BY <2>8, <2>9 DEF both, o, h, Out, n
<1>7. n \in 1..Len(Inside)
  BY <1>1, <1>3 DEF InsideIs
<1> QED BY <1>1, <1>5, <1>6, <1>7 DEF Channel!Leave

\* The other steps leave ring, copies and channel as they are.
LEMMA OthersKeep ==
  ASSUME BytesInv, [Next]_vars,
         ~(CopyFirst \/ CopySecond \/ CopyWhole \/ StoreCount),
         ~ \E p \in Pcbs : Receive(p)
  PROVE  UNCHANGED <<Inside, Out, Copied, buffer, given, arrived, forgot, count>>
<1>1. UNCHANGED <<buffer, given, arrived, forgot, count, wr>>
  BY DEF Next, Reading, Lwip, Connect, Write, Read, WaitOver, LoadCount, ReadReturn,
     Disconnect, Connected, PeerClosed, Error, vars, ring, seen
<1>2. Copied' = Copied
  BY DEF Next, Reading, Lwip, Connect, Write, Read, WaitOver, LoadCount, ReadReturn,
     Disconnect, Connected, PeerClosed, Error, vars, local, Copied
<1> QED BY <1>1, <1>2 DEF Inside, Out

\* The three memcpy() of read().
LEMMA ReadCopies ==
  ASSUME BytesInv, ~forgot, CopyFirst \/ CopySecond \/ CopyWhole
  PROVE  /\ \E n \in 1..count : Copies(n)
         /\ UNCHANGED <<buffer, arrived, forgot>>
<1>1. RingInv /\ Counts
  BY DEF BytesInv, RingInv
<1>2. CASE CopyFirst
  <2> DEFINE n == BufSize - rd
  <2>1. /\ n \in 1..count /\ rd \in Places /\ Reaches(rd, count) /\ rd + n <= BufSize
        /\ Copied = 0 /\ Copied' = n /\ given' = given \o Chunk(rd, n)
        /\ UNCHANGED <<buffer, wr, count, arrived, forgot>>
    BY <1>1, <1>2, RingAssumption
       DEF CopyFirst, RingInv, RingTypes, Bounded, Counts, Settled, Places, Copied, ring
  <2> QED BY <2>1, CopyTakes
<1>3. CASE CopySecond
  <2> DEFINE n == bytes_to_copy
  <2>1. /\ n \in 1..count /\ 0 \in Places /\ Reaches(0, count) /\ 0 + n <= BufSize
        /\ Copied = 0 /\ Copied' = n /\ given' = given \o Chunk(0, n)
        /\ UNCHANGED <<buffer, wr, count, arrived, forgot>>
    BY <1>1, <1>3, RingAssumption
       DEF CopySecond, Beginning, RingInv, RingTypes, Bounded, Counts, Places, Copied, ring
  <2> QED BY <2>1, CopyTakes
<1>4. CASE CopyWhole
  <2> DEFINE n == bytes_to_copy
  <2>1. /\ n \in 1..count /\ rd \in Places /\ Reaches(rd, count) /\ rd + n <= BufSize
        /\ Copied = 0 /\ Copied' = n /\ given' = given \o Chunk(rd, n)
        /\ UNCHANGED <<buffer, wr, count, arrived, forgot>>
    BY <1>1, <1>4, RingAssumption
       DEF CopyWhole, RingInv, RingTypes, Bounded, Counts, Settled, Places, Copied, ring
  <2> QED BY <2>1, CopyTakes
<1> QED BY <1>2, <1>3, <1>4

LEMMA InitBytesInv == Init => BytesInv
<1> SUFFICES ASSUME Init PROVE BytesInv
  OBVIOUS
<1>1. given = <<>> /\ Copied = 0 /\ arrived = 0 /\ buffer \in [Places -> Nat]
  BY DEF Init, Places, Copied
<1>2. given \in Seq(Nat) /\ Len(given) = 0
  BY <1>1, EmptySeq
<1> QED BY <1>1, <1>2, InitRingInv DEF BytesInv, Pending

\* Every step keeps the bytes, and is one of the channel unless its store
\* forgets a callback's bytes.
LEMMA StepBytes ==
  ASSUME BytesInv, [Next]_vars
  PROVE  BytesInv' /\ (~forgot' => Channel!Next \/ UNCHANGED Channel!vars)
<1>r. RingInv /\ RingInv'
  BY StepRingInv DEF BytesInv
<1>f. ~forgot' => ~forgot
  BY <1>r DEF Next, Reading, Lwip, Connect, Write, Read, WaitOver, CopyFirst, CopySecond,
     CopyWhole, LoadCount, StoreCount, ReadReturn, Disconnect, Connected, PeerClosed, Receive,
     Error, vars, seen, RingInv, RingTypes
<1>t. (arrived \in Nat /\ buffer \in [Places -> Nat] /\ given \in Seq(Nat))
  BY DEF BytesInv
<1>1. ASSUME NEW p \in Pcbs, Receive(p)
      PROVE  BytesInv' /\ Channel!Next
  <2>1. Enters /\ UNCHANGED <<given, forgot, pc, first_copy, bytes_to_copy>>
    BY <1>1, <1>r, ReceiveEnters, Received DEF RingInv
  <2>2. Copied' = Copied /\ Copied \in 0..count
    BY <1>r, <2>1, CopiedBound DEF Copied
  <2>3. ASSUME ~forgot PROVE Pending'
    <3>1. Pending
      BY <2>3 DEF BytesInv
    <3>2. \A i \in 1..Copied : i \in 1..count
      BY <1>r, <2>2 DEF RingInv, RingTypes
    <3>3. \A i \in 1..Copied : Inside'[i] = Inside[i]
      BY <2>1, <3>2 DEF Enters
    <3> QED BY <2>1, <2>2, <3>1, <3>3 DEF Pending
  <2> QED BY <1>r, <1>t, <2>1, <2>3 DEF BytesInv, Enters, Channel!Next, Places
<1>2. CASE StoreCount
  <2>1. UNCHANGED <<buffer, arrived, given>> /\ Copied' = 0
    BY <1>2 DEF StoreCount, seen, Copied
  <2>2. Pending'
    <3>1. Len(given') \in Nat
      BY <1>t, <2>1, LenProperties
    <3> QED BY <2>1, <3>1 DEF Pending
  <2>3. BytesInv'
    BY <1>r, <1>t, <2>1, <2>2 DEF BytesInv, Places
  <2>4. ~forgot' => Channel!Next
    BY <1>2, <1>r, StoreLeaves DEF Channel!Next
  <2> QED BY <2>3, <2>4
<1>3. CASE CopyFirst \/ CopySecond \/ CopyWhole
  <2>1. UNCHANGED <<buffer, arrived, forgot>>
    BY <1>3 DEF CopyFirst, CopySecond, CopyWhole, ring
  <2>2. given' \in Seq(Nat)
    <3>1. ASSUME NEW r \in Places, NEW n \in Nat, r + n <= BufSize,
                 given' = given \o Chunk(r, n)
          PROVE  given' \in Seq(Nat)
      <4>1. \A i \in 1..n : r + i - 1 \in Places
        BY <3>1, RingAssumption DEF Places
      <4>2. \A i \in 1..n : buffer[r + i - 1] \in Nat
        BY <1>t, <4>1
      <4>3. Chunk(r, n) \in Seq(Nat)
        BY <4>2 DEF Chunk
      <4> QED BY <1>t, <3>1, <4>3, ConcatProperties
    <3>2. CASE CopyFirst
      <4>1. /\ rd \in Places /\ BufSize - rd \in Nat /\ rd + (BufSize - rd) <= BufSize
            /\ given' = given \o Chunk(rd, BufSize - rd)
        BY <1>r, <3>2, RingAssumption DEF CopyFirst, RingInv, RingTypes, Places
      <4> QED BY <3>1, <4>1
    <3>3. CASE CopySecond
      <4>1. /\ 0 \in Places /\ bytes_to_copy \in Nat /\ 0 + bytes_to_copy <= BufSize
            /\ given' = given \o Chunk(0, bytes_to_copy)
        BY <1>r, <3>3, RingAssumption
           DEF CopySecond, Beginning, RingInv, RingTypes, Bounded, Places
      <4> QED BY <3>1, <4>1
    <3>4. CASE CopyWhole
      <4>1. /\ rd \in Places /\ bytes_to_copy \in Nat /\ rd + bytes_to_copy <= BufSize
            /\ given' = given \o Chunk(rd, bytes_to_copy)
        BY <1>r, <3>4, RingAssumption DEF CopyWhole, RingInv, RingTypes
      <4> QED BY <3>1, <4>1
    <3> QED BY <1>3, <3>2, <3>3, <3>4
  <2>3. ~forgot => Pending' /\ UNCHANGED <<Inside, Out>>
    BY <1>3, ReadCopies DEF Copies
  <2> QED BY <1>f, <1>r, <1>t, <2>1, <2>2, <2>3 DEF BytesInv, Channel!vars, Places
<1>4. CASE ~(CopyFirst \/ CopySecond \/ CopyWhole \/ StoreCount \/ \E p \in Pcbs : Receive(p))
  <2>1. UNCHANGED <<Inside, Out, Copied, buffer, given, arrived, forgot, count>>
    BY <1>4, OthersKeep
  <2> QED BY <1>r, <1>t, <2>1 DEF BytesInv, Pending, Channel!vars, Places
<1> QED BY <1>1, <1>2, <1>3, <1>4

\* What read() copies out are the bytes that arrived, in order and once, and
\* only the end of a packet that finds the ring full gets lost, until a
\* callback comes between the load and the store of `count -= n`.
THEOREM RingIsChannelCorrect == Spec => RingIsChannel
<1>1. Init => Channel!Init
  <2> SUFFICES ASSUME Init PROVE Inside = <<>> /\ Out = <<>> /\ arrived = 0
    BY DEF Channel!Init
  <2>1. count = 0 /\ given = <<>> /\ arrived = 0 /\ Copied = 0
    BY DEF Init, Copied
  <2>2. Inside = <<>>
    BY <2>1 DEF Inside
  <2>3. Len(given) - Copied = 0
    BY <2>1, EmptySeq
  <2>4. Out = <<>>
    BY <2>1, <2>3 DEF Out
  <2> QED BY <2>1, <2>2, <2>4
<1>2. BytesInv /\ [Next]_vars => [~forgot' => Channel!Next]_(Channel!vars)
  BY StepBytes
<1>3. BytesInv /\ [Next]_vars => BytesInv'
  BY StepBytes
<1> QED BY <1>1, <1>2, <1>3, InitBytesInv, PTL DEF Spec, RingIsChannel
---------------------------------------------------------------------------
(***************************************************************************)
(* The UART: who may move a byte between queue and FIFO.                   *)
(***************************************************************************)
Filling == {"fill", "fill_put", "irq_on"}

UartTypes ==
  /\ stage \in [Tasks -> {"idle", "send", "recv", "flush"} \cup Filling]
  /\ isr \in {"off", "rx", "rx_put", "tx", "tx_put"}
  /\ {tx, rx, ch, c, txfifo, rxfifo} \subseteq Seq(Nat)
  /\ accepted \in Nat /\ received \in Nat

\* A call has the mutex, and handler and initial fill exclude each other.
Exclusive ==
  /\ \A t \in Tasks : stage[t] # "idle" => owner = t
  /\ \A t \in Tasks : stage[t] \in Filling => ~nvic
  /\ isr # "off" => nvic

\* A byte is in a local variable right before it is put.
Hands ==
  /\ Len(ch) = 1 \/ ch = <<>>
  /\ ch # <<>> <=> \E t \in Tasks : stage[t] = "fill_put"
  /\ IF isr \in {"rx_put", "tx_put"} THEN Len(c) = 1 ELSE c = <<>>

\* Queues and FIFOs hold what they can, and the TX FIFO has room for a byte
\* on its way.
Bounds ==
  /\ Len(tx) <= TxSize /\ Len(rx) <= RxSize /\ Len(rxfifo) <= FifoDepth
  /\ Len(txfifo) + Len(ch) + Len(InHand("tx_put")) <= FifoDepth

UartInv == UartTypes /\ Exclusive /\ Hands /\ Bounds

LEMMA InitUartInv == UartInit => UartInv
BY QueueAssumption, FifoAssumption
   DEF UartInit, UartInv, UartTypes, Exclusive, Hands, Bounds, InHand, Filling

\* A step of a task in a call, up to the stage `to`: the others stay idle.
LEMMA TaskMoves ==
  ASSUME UartInv, NEW t \in Tasks, stage[t] # "idle",
         NEW to \in {"idle", "send", "recv", "flush"} \cup Filling,
         GoTo(t, to)
  PROVE  /\ stage' \in [Tasks -> {"idle", "send", "recv", "flush"} \cup Filling]
         /\ owner = t
         /\ stage'[t] = to
         /\ \A u \in Tasks \ {t} : stage[u] = "idle" /\ stage'[u] = "idle"
BY DEF UartInv, UartTypes, Exclusive, GoTo

\* Calls begin when no task is in one.
LEMMA EnterUartInv ==
  ASSUME UartInv, NEW t \in Tasks, NEW n,
         NEW to \in {"send", "recv", "flush"}, Enter(t, to, n)
  PROVE  UartInv'
<1>1. \A u \in Tasks : stage[u] = "idle"
  BY UartTaskAssumption DEF Enter, UartInv, Exclusive
<1>2. /\ stage' = [stage EXCEPT ![t] = to] /\ owner' = t
      /\ UNCHANGED <<tx, rx, ch, c, txfifo, rxfifo, accepted, received, nvic, isr>>
  BY DEF Enter, GoTo, txway, rxway
<1>3. /\ stage' \in [Tasks -> {"idle", "send", "recv", "flush"} \cup Filling]
      /\ stage'[t] = to /\ \A u \in Tasks \ {t} : stage'[u] = "idle"
  BY <1>1, <1>2 DEF UartInv, UartTypes
<1>4. UartTypes'
  BY <1>2, <1>3 DEF UartInv, UartTypes
<1>5. Exclusive'
  BY <1>2, <1>3 DEF UartInv, Exclusive, Filling
<1>6. ~ \E u \in Tasks : stage'[u] = "fill_put"
  BY <1>3
<1>7. ~ \E u \in Tasks : stage[u] = "fill_put"
  BY <1>1
<1>8. Hands' /\ Bounds'
  BY <1>2, <1>6, <1>7 DEF UartInv, Hands, Bounds, InHand
<1> QED BY <1>4, <1>5, <1>8 DEF UartInv

LEMMA CallUartInv ==
  ASSUME UartInv, NEW t \in Tasks, Call(t)
  PROVE  UartInv'
BY EnterUartInv DEF Call, WriteCall, ReadCall, FlushCall

\* The steps of a call.
LEMMA ProgressUartInv ==
  ASSUME UartInv, NEW t \in Tasks, Progress(t)
  PROVE  UartInv'
<1>1. CASE SendByte(t)
  <2>1. /\ Len(tx) < TxSize /\ tx' = Append(tx, accepted + 1) /\ accepted' = accepted + 1
        /\ UNCHANGED <<stage, owner, ch, c, rx, txfifo, rxfifo, received, nvic, isr>>
    BY <1>1 DEF SendByte, rxway
  <2>2. tx' \in Seq(Nat) /\ Len(tx') = Len(tx) + 1 /\ Len(tx) \in Nat
    <3>1. tx \in Seq(Nat) /\ accepted + 1 \in Nat
      BY DEF UartInv, UartTypes
    <3> QED BY <2>1, <3>1, AppendProperties, LenProperties
  <2>a. InHand("tx_put")' = InHand("tx_put")
    BY <2>1 DEF InHand
  <2>b. Len(txfifo') + Len(ch') + Len(InHand("tx_put")') <= FifoDepth
    BY <2>1, <2>a DEF UartInv, Bounds
  <2>c. Len(tx') <= TxSize /\ Len(rx') <= RxSize /\ Len(rxfifo') <= FifoDepth
    BY <2>1, <2>2, QueueAssumption DEF UartInv, Bounds
  <2>3. Bounds'
    BY <2>b, <2>c DEF Bounds
  <2>4. UartTypes'
    BY <2>1, <2>2 DEF UartInv, UartTypes
  <2>5. Exclusive' /\ Hands'
    BY <2>1 DEF UartInv, Exclusive, Hands
  <2> QED BY <2>3, <2>4, <2>5 DEF UartInv
<1>2. CASE SendOver(t)
  <2>1. /\ stage[t] = "send" /\ isr = "off" /\ nvic' = FALSE
        /\ UNCHANGED <<owner, tx, rx, ch, c, txfifo, rxfifo, accepted, received, isr>>
    BY <1>2 DEF SendOver, TaskRuns, NvicWhileFilling, txway, rxway
  <2>2. PICK to \in {"fill", "irq_on"} : GoTo(t, to)
    BY <1>2 DEF SendOver
  <2>3. /\ UartTypes' /\ owner = t /\ stage'[t] = to
        /\ \A u \in Tasks \ {t} : stage[u] = "idle" /\ stage'[u] = "idle"
    BY <2>1, <2>2, TaskMoves DEF UartInv, UartTypes, Filling
  <2>4. Exclusive'
    BY <2>1, <2>3 DEF Exclusive
  <2>5. Hands'
    BY <2>1, <2>2, <2>3 DEF UartInv, Hands
  <2> QED BY <2>1, <2>3, <2>4, <2>5 DEF UartInv, Bounds, InHand
<1>3. CASE FillTake(t)
  <2>1. /\ stage[t] = "fill" /\ isr = "off" /\ Len(txfifo) < FifoDepth /\ tx # <<>>
        /\ ch' = <<Head(tx)>> /\ tx' = Tail(tx) /\ GoTo(t, "fill_put")
        /\ UNCHANGED <<owner, rx, c, txfifo, rxfifo, accepted, received, nvic, isr>>
    BY <1>3 DEF FillTake, TaskRuns, Writable, rxway
  <2>2. /\ Len(tx) \in Nat /\ ch' \in Seq(Nat) /\ Len(ch') = 1 /\ ch' # <<>>
        /\ tx' \in Seq(Nat) /\ Len(tx') = Len(tx) - 1
    BY <2>1, HeadTail, EmptySeq DEF UartInv, UartTypes
  <2>3. /\ UartTypes' /\ owner = t /\ stage'[t] = "fill_put"
        /\ \A u \in Tasks \ {t} : stage[u] = "idle" /\ stage'[u] = "idle"
    BY <2>1, <2>2, TaskMoves DEF UartInv, UartTypes, Filling
  <2>4. Exclusive'
    BY <2>1, <2>3 DEF UartInv, Exclusive, Filling
  <2>5. Hands'
    BY <2>1, <2>2, <2>3 DEF UartInv, Hands
  <2>6. InHand("tx_put") = <<>> /\ InHand("tx_put")' = <<>>
    BY <2>1 DEF InHand
  <2>7. Len(txfifo) \in Nat /\ FifoDepth \in Nat
    BY FifoAssumption, LenProperties DEF UartInv, UartTypes
  <2>8. Len(txfifo') + Len(ch') + Len(InHand("tx_put")') <= FifoDepth
    BY <2>1, <2>2, <2>6, <2>7, EmptySeq
  <2>9. Len(tx') <= TxSize /\ Len(rx') <= RxSize /\ Len(rxfifo') <= FifoDepth
    BY <2>1, <2>2, QueueAssumption DEF UartInv, Bounds
  <2>10. Bounds'
    BY <2>8, <2>9 DEF Bounds
  <2> QED BY <2>3, <2>4, <2>5, <2>10 DEF UartInv
<1>4. CASE FillPut(t)
  <2>1. /\ stage[t] = "fill_put" /\ isr = "off" /\ txfifo' = txfifo \o ch
        /\ ch' = <<>> /\ GoTo(t, "fill")
        /\ UNCHANGED <<owner, tx, rx, c, rxfifo, accepted, received, nvic, isr>>
    BY <1>4 DEF FillPut, TaskRuns, PutFifo, rxway
  <2>2. /\ ch' \in Seq(Nat) /\ txfifo' \in Seq(Nat)
        /\ Len(txfifo') = Len(txfifo) + Len(ch) /\ Len(txfifo) \in Nat /\ Len(ch) \in Nat
        /\ Len(ch') = 0
    BY <2>1, ConcatProperties, EmptySeq, LenProperties DEF UartInv, UartTypes
  <2>3. /\ UartTypes' /\ owner = t /\ stage'[t] = "fill"
        /\ \A u \in Tasks \ {t} : stage[u] = "idle" /\ stage'[u] = "idle"
    BY <2>1, <2>2, TaskMoves DEF UartInv, UartTypes, Filling
  <2>4. Exclusive'
    BY <2>1, <2>3 DEF UartInv, Exclusive, Filling
  <2>5. Hands'
    BY <2>1, <2>3 DEF UartInv, Hands
  <2>6. InHand("tx_put") = <<>> /\ InHand("tx_put")' = <<>>
    BY <2>1 DEF InHand
  <2>7. Len(txfifo') + Len(ch') + Len(InHand("tx_put")') <= FifoDepth
    BY <2>2, <2>6, EmptySeq DEF UartInv, Bounds
  <2>8. Bounds'
    BY <2>1, <2>7 DEF UartInv, Bounds
  <2> QED BY <2>3, <2>4, <2>5, <2>8 DEF UartInv
<1>5. CASE FillOver(t)
  <2>1. /\ stage[t] = "fill" /\ GoTo(t, "irq_on")
        /\ UNCHANGED <<owner, tx, rx, ch, c, txfifo, rxfifo, accepted, received, nvic, isr>>
    BY <1>5 DEF FillOver, TaskRuns, rxway
  <2>2. /\ UartTypes' /\ owner = t /\ stage'[t] = "irq_on"
        /\ \A u \in Tasks \ {t} : stage[u] = "idle" /\ stage'[u] = "idle"
    BY <2>1, TaskMoves DEF UartInv, UartTypes, Filling
  <2>3. Exclusive'
    BY <2>1, <2>2 DEF UartInv, Exclusive, Filling
  <2>4. Hands'
    BY <2>1, <2>2 DEF UartInv, Hands
  <2> QED BY <2>1, <2>2, <2>3, <2>4 DEF UartInv, Bounds, InHand
<1>6. CASE WriteReturn(t)
  <2>1. /\ stage[t] = "irq_on" /\ GoTo(t, "idle") /\ nvic' = TRUE
        /\ UNCHANGED <<tx, rx, ch, c, txfifo, rxfifo, accepted, received, isr>>
    BY <1>6 DEF WriteReturn, TaskRuns, Leave, NvicAfterFill, txway, rxway
  <2>2. /\ UartTypes' /\ owner = t /\ stage'[t] = "idle"
        /\ \A u \in Tasks \ {t} : stage[u] = "idle" /\ stage'[u] = "idle"
    BY <2>1, TaskMoves DEF UartInv, UartTypes, Filling
  <2>3. Exclusive'
    BY <2>1, <2>2 DEF Exclusive, Filling
  <2>4. Hands'
    BY <2>1, <2>2 DEF UartInv, Hands
  <2> QED BY <2>1, <2>2, <2>3, <2>4 DEF UartInv, Bounds, InHand
<1>7. CASE TakeByte(t)
  <2>1. /\ rx # <<>> /\ rx' = Tail(rx)
        /\ UNCHANGED <<stage, owner, tx, ch, c, txfifo, rxfifo, accepted, received, nvic, isr>>
    BY <1>7 DEF TakeByte, txway
  <2>2. rx' \in Seq(Nat) /\ Len(rx') = Len(rx) - 1 /\ Len(rx) \in Nat
    BY <2>1, HeadTail DEF UartInv, UartTypes
  <2>a. InHand("tx_put")' = InHand("tx_put")
    BY <2>1 DEF InHand
  <2>b. Len(txfifo') + Len(ch') + Len(InHand("tx_put")') <= FifoDepth
    BY <2>1, <2>a DEF UartInv, Bounds
  <2>c. Len(tx') <= TxSize /\ Len(rx') <= RxSize /\ Len(rxfifo') <= FifoDepth
    BY <2>1, <2>2, QueueAssumption DEF UartInv, Bounds
  <2>3. Bounds'
    BY <2>b, <2>c DEF Bounds
  <2>4. UartTypes'
    BY <2>1, <2>2 DEF UartInv, UartTypes
  <2>5. Exclusive' /\ Hands'
    BY <2>1 DEF UartInv, Exclusive, Hands
  <2> QED BY <2>3, <2>4, <2>5 DEF UartInv
<1>8. CASE TakeOver(t)
  <2>1. /\ stage[t] \in {"recv", "flush"} /\ GoTo(t, "idle")
        /\ UNCHANGED <<tx, rx, ch, c, txfifo, rxfifo, accepted, received, nvic, isr>>
    BY <1>8 DEF TakeOver, TaskRuns, Leave, txway, rxway
  <2>2. /\ UartTypes' /\ owner = t /\ stage'[t] = "idle"
        /\ \A u \in Tasks \ {t} : stage[u] = "idle" /\ stage'[u] = "idle"
    BY <2>1, TaskMoves DEF UartInv, UartTypes, Filling
  <2>3. Exclusive'
    BY <2>1, <2>2 DEF UartInv, Exclusive, Filling
  <2>4. Hands'
    BY <2>1, <2>2 DEF UartInv, Hands
  <2> QED BY <2>1, <2>2, <2>3, <2>4 DEF UartInv, Bounds, InHand
<1> QED BY <1>1, <1>2, <1>3, <1>4, <1>5, <1>6, <1>7, <1>8 DEF Progress

\* In the handler no task is between a byte's removal and its assignment.
LEMMA HandlerAlone ==
  ASSUME UartInv, isr # "off" PROVE ch = <<>>
BY DEF UartInv, Exclusive, Hands, Filling

\* What the steps of handler and line leave of the tasks.
LEMMA OutsideTasks ==
  ASSUME UartInv, UNCHANGED <<stage, owner, ch, nvic>>, isr' # "off" => nvic
  PROVE  Exclusive' /\ (Len(ch') = 1 \/ ch' = <<>>)
         /\ (ch' # <<>> <=> \E t \in Tasks : stage'[t] = "fill_put")
BY DEF UartInv, Exclusive, Hands, Filling

\* The handler.
LEMMA IsrUartInv ==
  ASSUME UartInv, Isr
  PROVE  UartInv'
<1>t. /\ tx \in Seq(Nat) /\ rx \in Seq(Nat) /\ ch \in Seq(Nat) /\ c \in Seq(Nat)
      /\ txfifo \in Seq(Nat) /\ rxfifo \in Seq(Nat)
  BY DEF UartInv, UartTypes
<1>l. /\ {Len(tx), Len(rx), Len(ch), Len(c), Len(txfifo), Len(rxfifo)} \subseteq Nat
      /\ {FifoDepth, TxSize, RxSize} \subseteq Nat
  BY <1>t, LenProperties, FifoAssumption, QueueAssumption
<1>b. /\ Len(tx) <= TxSize /\ Len(rx) <= RxSize /\ Len(rxfifo) <= FifoDepth
      /\ Len(txfifo) + Len(ch) + Len(InHand("tx_put")) <= FifoDepth
  BY DEF UartInv, Bounds
<1>e. Len(<<>>) = 0 /\ <<>> \in Seq(Nat)
  BY EmptySeq
<1>1. CASE IsrEnter
  <2>1. /\ isr = "off" /\ isr' = "rx" /\ nvic
        /\ UNCHANGED <<stage, owner, tx, rx, ch, c, txfifo, rxfifo, accepted, received, nvic>>
    BY <1>1 DEF IsrEnter, IrqPending, task, txway, rxway
  <2>2. Exclusive' /\ Hands'
    BY <2>1, OutsideTasks DEF UartInv, Hands
  <2>3. Bounds'
    BY <2>1 DEF UartInv, Bounds, InHand
  <2> QED BY <2>1, <2>2, <2>3 DEF UartInv, UartTypes
<1>2. CASE IsrGet
  <2>1. /\ isr = "rx" /\ isr' = "rx_put" /\ rxfifo # <<>>
        /\ c' = <<Head(rxfifo)>> /\ rxfifo' = Tail(rxfifo)
        /\ UNCHANGED <<stage, owner, tx, rx, ch, txfifo, accepted, received, nvic>>
    BY <1>2 DEF IsrGet, task, txway
  <2>2. /\ c' \in Seq(Nat) /\ Len(c') = 1
        /\ rxfifo' \in Seq(Nat) /\ Len(rxfifo') = Len(rxfifo) - 1
    BY <1>t, <2>1, HeadTail
  <2>3. nvic
    BY <2>1 DEF UartInv, Exclusive
  <2>4. Exclusive' /\ Hands'
    BY <2>1, <2>2, <2>3, OutsideTasks DEF Hands
  <2>5. InHand("tx_put")' = InHand("tx_put")
    BY <2>1 DEF InHand
  <2>6. Bounds'
    BY <1>l, <1>b, <2>1, <2>2, <2>5 DEF Bounds
  <2> QED BY <2>1, <2>2, <2>4, <2>6 DEF UartInv, UartTypes
<1>3. CASE IsrQueue
  <2>1. /\ isr = "rx_put" /\ isr' = "rx" /\ c' = <<>>
        /\ (rx' = rx \o c /\ Len(rx) < RxSize) \/ rx' = rx
        /\ UNCHANGED <<stage, owner, tx, ch, txfifo, rxfifo, accepted, received, nvic>>
    BY <1>3 DEF IsrQueue, ToBack, task, txway
  <2>2. nvic /\ Len(c) = 1
    BY <2>1 DEF UartInv, Exclusive, Hands
  <2>3. rx' \in Seq(Nat) /\ Len(rx') <= RxSize
    <3>1. rx \o c \in Seq(Nat) /\ Len(rx \o c) = Len(rx) + 1
      <4>1. rx \o c \in Seq(Nat) /\ Len(rx \o c) = Len(rx) + Len(c)
        BY <1>t, ConcatProperties
      <4> QED BY <2>2, <4>1
    <3>2. Len(rx) < RxSize => Len(rx) + 1 <= RxSize
      BY <1>l
    <3> QED BY <1>t, <1>b, <2>1, <3>1, <3>2, Zenon
  <2>4. Exclusive' /\ Hands'
    BY <2>1, <2>2, OutsideTasks DEF Hands
  <2>5. InHand("tx_put")' = InHand("tx_put")
    BY <2>1 DEF InHand
  <2>6. Bounds'
    BY <1>b, <2>1, <2>3, <2>5 DEF Bounds
  <2> QED BY <1>e, <2>1, <2>3, <2>4, <2>6 DEF UartInv, UartTypes
<1>4. CASE IsrRxOver
  <2>1. /\ isr = "rx" /\ isr' = "tx"
        /\ UNCHANGED <<stage, owner, tx, rx, ch, c, txfifo, rxfifo, accepted, received, nvic>>
    BY <1>4 DEF IsrRxOver, task, txway, rxway
  <2>2. nvic
    BY <2>1 DEF UartInv, Exclusive
  <2>3. Exclusive' /\ Hands'
    BY <2>1, <2>2, OutsideTasks DEF UartInv, Hands
  <2>4. Bounds'
    BY <2>1 DEF UartInv, Bounds, InHand
  <2> QED BY <2>1, <2>3, <2>4 DEF UartInv, UartTypes
<1>5. CASE IsrTake
  <2>1. /\ isr = "tx" /\ isr' = "tx_put" /\ Len(txfifo) < FifoDepth /\ tx # <<>>
        /\ c' = <<Head(tx)>> /\ tx' = Tail(tx)
        /\ UNCHANGED <<stage, owner, rx, ch, txfifo, rxfifo, accepted, received, nvic>>
    BY <1>5 DEF IsrTake, Writable, task, rxway
  <2>2. /\ c' \in Seq(Nat) /\ Len(c') = 1
        /\ tx' \in Seq(Nat) /\ Len(tx') = Len(tx) - 1
    BY <1>t, <2>1, HeadTail
  <2>3. nvic /\ ch = <<>>
    BY <2>1, HandlerAlone DEF UartInv, Exclusive
  <2>4. Exclusive' /\ Hands'
    BY <2>1, <2>2, <2>3, OutsideTasks DEF Hands
  <2>5. InHand("tx_put")' = c'
    BY <2>1 DEF InHand
  <2>a. Len(txfifo) + 0 + 1 <= FifoDepth
    BY <1>l, <2>1
  <2>b. Len(tx') <= TxSize
    BY <1>l, <1>b, <2>2
  <2>c. Len(txfifo') + Len(ch') + Len(InHand("tx_put")') <= FifoDepth
    BY <1>e, <2>1, <2>2, <2>3, <2>5, <2>a
  <2>6. Bounds'
    BY <1>b, <2>1, <2>b, <2>c DEF Bounds
  <2> QED BY <2>1, <2>2, <2>4, <2>6 DEF UartInv, UartTypes
<1>6. CASE IsrPut
  <2>1. /\ isr = "tx_put" /\ isr' = "tx" /\ txfifo' = txfifo \o c /\ c' = <<>>
        /\ UNCHANGED <<stage, owner, tx, rx, ch, rxfifo, accepted, received, nvic>>
    BY <1>6 DEF IsrPut, PutFifo, task, rxway
  <2>2. txfifo' \in Seq(Nat) /\ Len(txfifo') = Len(txfifo) + Len(c)
    BY <1>t, <2>1, ConcatProperties
  <2>3. nvic /\ ch = <<>>
    BY <2>1, HandlerAlone DEF UartInv, Exclusive
  <2>4. Exclusive' /\ Hands'
    BY <2>1, <2>2, <2>3, OutsideTasks DEF Hands
  <2>5. InHand("tx_put") = c /\ InHand("tx_put")' = <<>>
    BY <2>1 DEF InHand
  <2>6. Bounds'
    BY <1>l, <1>b, <1>e, <2>1, <2>2, <2>3, <2>5 DEF Bounds
  <2> QED BY <1>e, <2>1, <2>2, <2>4, <2>6 DEF UartInv, UartTypes
<1>7. CASE IsrTxOver
  <2>1. /\ isr = "tx" /\ isr' = "off"
        /\ UNCHANGED <<stage, owner, tx, rx, ch, c, txfifo, rxfifo, accepted, received, nvic>>
    BY <1>7 DEF IsrTxOver, task, rxway
  <2>2. Exclusive' /\ Hands'
    BY <2>1, OutsideTasks DEF UartInv, Hands
  <2>3. Bounds'
    BY <2>1 DEF UartInv, Bounds, InHand
  <2> QED BY <2>1, <2>2, <2>3 DEF UartInv, UartTypes
<1> QED BY <1>1, <1>2, <1>3, <1>4, <1>5, <1>6, <1>7 DEF Isr

\* The UART and the line.
LEMMA LineUartInv ==
  ASSUME UartInv, Line
  PROVE  UartInv'
<1>t. /\ txfifo \in Seq(Nat) /\ rxfifo \in Seq(Nat) /\ received \in Nat
      /\ InHand("tx_put") \in Seq(Nat) /\ ch \in Seq(Nat)
  BY EmptySeq DEF UartInv, UartTypes, InHand
<1>l. {Len(txfifo), Len(rxfifo), Len(ch), Len(InHand("tx_put")), FifoDepth} \subseteq Nat
  BY <1>t, LenProperties, FifoAssumption
<1>b. /\ Len(tx) <= TxSize /\ Len(rx) <= RxSize /\ Len(rxfifo) <= FifoDepth
      /\ Len(txfifo) + Len(ch) + Len(InHand("tx_put")) <= FifoDepth
  BY DEF UartInv, Bounds
<1>1. /\ UNCHANGED <<stage, owner, tx, rx, ch, c, nvic, isr, accepted>>
      /\ \/ txfifo # <<>> /\ txfifo' = Tail(txfifo) /\ UNCHANGED <<rxfifo, received>>
         \/ /\ received' \in {received, received + 1} /\ UNCHANGED txfifo
            /\ \/ rxfifo' = rxfifo
               \/ Len(rxfifo) < FifoDepth /\ rxfifo' = Append(rxfifo, received + 1)
  BY DEF Line, LineSend, LineReceive, LineQuiet, task, txway, rxway
<1>2. /\ txfifo' \in Seq(Nat) /\ Len(txfifo') \in Nat /\ Len(txfifo') <= Len(txfifo)
  <2>1. CASE txfifo' = txfifo
    BY <1>t, <1>l, <2>1
  <2>2. CASE txfifo # <<>> /\ txfifo' = Tail(txfifo)
    <3>1. Tail(txfifo) \in Seq(Nat) /\ Len(Tail(txfifo)) = Len(txfifo) - 1
          /\ Len(txfifo) \in Nat \ {0}
      BY <1>t, <2>2, HeadTail
    <3> QED BY <2>2, <3>1
  <2> QED BY <1>1, <2>1, <2>2
<1>3. rxfifo' \in Seq(Nat) /\ Len(rxfifo') <= FifoDepth /\ received' \in Nat
  <2>1. CASE rxfifo' = rxfifo
    BY <1>t, <1>b, <1>1, <2>1
  <2>2. CASE Len(rxfifo) < FifoDepth /\ rxfifo' = Append(rxfifo, received + 1)
    <3>1. received + 1 \in Nat
      BY <1>t
    <3>2. rxfifo' \in Seq(Nat) /\ Len(rxfifo') = Len(rxfifo) + 1
      BY <1>t, <2>2, <3>1, AppendProperties
    <3> QED BY <1>t, <1>l, <1>1, <2>2, <3>2
  <2> QED BY <1>1, <2>1, <2>2
<1>4. Exclusive' /\ Hands'
  BY <1>1 DEF UartInv, Exclusive, Hands
<1>5. InHand("tx_put")' = InHand("tx_put")
  BY <1>1 DEF InHand
<1>6. Bounds'
  BY <1>l, <1>b, <1>1, <1>2, <1>3, <1>5 DEF Bounds
<1> QED BY <1>1, <1>2, <1>3, <1>4, <1>6 DEF UartInv, UartTypes

LEMMA StepUartInv ==
  ASSUME UartInv, [UartNext]_uart_vars
  PROVE  UartInv'
<1>1. CASE UNCHANGED uart_vars
  BY <1>1 DEF uart_vars, task, txway, rxway, UartInv, UartTypes, Exclusive, Hands,
     Bounds, InHand, Filling
<1> QED BY <1>1, CallUartInv, ProgressUartInv, IsrUartInv, LineUartInv DEF UartNext
---------------------------------------------------------------------------
\* The bytes on their way out, and those on their way in.
TxFlow == txfifo \o InHand("tx_put") \o ch \o tx
RxFlow == rx \o InHand("rx_put") \o rxfifo

LEMMA FlowTypes ==
  ASSUME UartInv
  PROVE  /\ txfifo \in Seq(Nat) /\ InHand("tx_put") \in Seq(Nat) /\ ch \in Seq(Nat)
         /\ tx \in Seq(Nat) /\ c \in Seq(Nat)
         /\ rx \in Seq(Nat) /\ InHand("rx_put") \in Seq(Nat) /\ rxfifo \in Seq(Nat)
         /\ accepted \in Nat /\ received \in Nat
BY EmptySeq DEF UartInv, UartTypes, InHand

\* write() puts a byte behind the others.
LEMMA SendByteEnters ==
  ASSUME UartInv, NEW t \in Tasks, SendByte(t)
  PROVE  TxChannel!Next
<1>1. /\ Len(tx) < TxSize /\ accepted' = accepted + 1 /\ tx' = Append(tx, accepted + 1)
      /\ UNCHANGED <<txfifo, ch, isr, c, sent>>
  BY DEF SendByte, rxway
<1>2. InHand("tx_put")' = InHand("tx_put")
  BY <1>1 DEF InHand
<1> DEFINE A == txfifo
           B == InHand("tx_put")
           e == accepted + 1
           X == (A \o B) \o ch
           n == accepted
<1>3. A \in Seq(Nat) /\ B \in Seq(Nat) /\ ch \in Seq(Nat) /\ tx \in Seq(Nat) /\ n \in Nat
  BY FlowTypes
<1>4. /\ X \in Seq(Nat) /\ Len(X \o tx) = Len(A) + Len(B) + Len(ch) + Len(tx)
  BY <1>3, Regroups DEF Regroup
<1>5. [i \in 1..1 |-> n + i] = <<e>> /\ <<e>> \in Seq(Nat)
  BY <1>3, OneArrives
<1>6. tx' = tx \o <<e>>
  <2>1. e \in Nat /\ tx' = Append(tx, e)
    BY <1>1, <1>3
  <2> HIDE DEF e
  <2> QED BY <1>3, <2>1, AppendIsConcat
<1>7. TxFlow = X \o tx /\ TxFlow' = X \o tx'
  BY <1>1, <1>2 DEF TxFlow
<1>8. Len(A) \in Nat /\ Len(B) \in Nat /\ Len(ch) \in Nat /\ Len(tx) \in Nat
  BY <1>3, LenProperties
<1>9. Len(TxFlow) + 1 <= FifoDepth + TxSize
  <2>1. Len(A) + Len(ch) + Len(B) <= FifoDepth /\ {FifoDepth, TxSize} \subseteq Nat
    BY FifoAssumption, QueueAssumption DEF UartInv, Bounds
  <2>2. Len(A) + Len(B) + Len(ch) + Len(tx) + 1 <= FifoDepth + TxSize
    BY <1>1, <1>8, <2>1
  <2> QED BY <1>4, <1>7, <2>2
<1> HIDE DEF X
<1>10. TxFlow' = TxFlow \o [i \in 1..1 |-> n + i]
  <2>1. Associate(X, tx, <<e>>)
    BY <1>3, <1>4, <1>5, Associates
  <2> QED BY <1>5, <1>6, <1>7, <2>1 DEF Associate
<1>11. TxChannel!Enter
  <2>1. 1 \in 1..1 /\ 1 \in 0..1 /\ ~(1 < 1)
    OBVIOUS
  <2> QED BY <1>1, <1>9, <1>10, <2>1 DEF TxChannel!Enter, TxFlow
<1> QED BY <1>11 DEF TxChannel!Next

\* The initial fill moves a byte to the FIFO in two steps ...
LEMMA FillKeeps ==
  ASSUME UartInv, NEW t \in Tasks, FillTake(t) \/ FillPut(t)
  PROVE  UNCHANGED <<TxFlow, accepted, sent>>
<1> DEFINE A == txfifo
<1>t. A \in Seq(Nat) /\ ch \in Seq(Nat) /\ tx \in Seq(Nat) /\ <<>> \in Seq(Nat)
  BY FlowTypes, EmptySeq
<1>h. InHand("tx_put") = <<>> /\ InHand("tx_put")' = <<>>
  BY DEF FillTake, FillPut, TaskRuns, InHand
<1>e. /\ \A s \in Seq(Nat) : s \o <<>> = s
  BY ConcatEmptySeq
<1>1. CASE FillTake(t)
  <2>1. /\ tx # <<>> /\ ch' = <<Head(tx)>> /\ tx' = Tail(tx)
        /\ UNCHANGED <<txfifo, accepted, sent>>
    BY <1>1 DEF FillTake
  <2>2. ch = <<>>
    <3>1. stage[t] = "fill"
      BY <1>1 DEF FillTake, TaskRuns
    <3>2. \A u \in Tasks : stage[u] # "fill_put"
      BY <3>1 DEF UartInv, Exclusive
    <3> QED BY <3>2 DEF UartInv, Hands
  <2>3. ch' \in Seq(Nat) /\ tx' \in Seq(Nat) /\ ch' \o tx' = tx
    BY <1>t, <2>1, HeadTail
  <2>4. TxFlow = A \o tx
    BY <1>t, <1>h, <1>e, <2>2 DEF TxFlow
  <2>5. TxFlow' = (A \o ch') \o tx'
    <3>1. TxFlow' = ((A \o <<>>) \o ch') \o tx'
      BY <1>h, <2>1 DEF TxFlow
    <3>2. A \o <<>> = A
      BY <1>t, <1>e
    <3> QED BY <3>1, <3>2
  <2>6. (A \o ch') \o tx' = A \o (ch' \o tx')
    <3>1. PICK h \in Seq(Nat), r \in Seq(Nat) : h = ch' /\ r = tx'
      BY <2>3
    <3>2. Associate(A, h, r)
      BY <1>t, Associates
    <3> QED BY <3>1, <3>2 DEF Associate
  <2> QED BY <2>1, <2>3, <2>4, <2>5, <2>6
<1>2. CASE FillPut(t)
  <2>1. /\ txfifo' = txfifo \o ch /\ ch' = <<>> /\ UNCHANGED <<tx, accepted, sent>>
    BY <1>2 DEF FillPut, PutFifo
  <2>2. A \o ch \in Seq(Nat)
    BY <1>t, ConcatProperties
  <2>3. TxFlow = (A \o ch) \o tx
    BY <1>t, <1>h, <1>e DEF TxFlow
  <2>4. TxFlow' = (A \o ch) \o tx
    BY <1>h, <1>e, <2>1, <2>2 DEF TxFlow
  <2> QED BY <2>1, <2>3, <2>4
<1> QED BY <1>1, <1>2

\* ... and so does the handler: no other byte is between the two.
LEMMA IsrKeepsTx ==
  ASSUME UartInv, Isr
  PROVE  UNCHANGED <<TxFlow, accepted, sent>>
<1> DEFINE A == txfifo
<1>t. A \in Seq(Nat) /\ ch \in Seq(Nat) /\ tx \in Seq(Nat) /\ c \in Seq(Nat) /\ <<>> \in Seq(Nat)
  BY FlowTypes, EmptySeq
<1>e. /\ \A s \in Seq(Nat) : s \o <<>> = s
  BY ConcatEmptySeq
<1>1. CASE IsrTake
  <2>1. /\ isr = "tx" /\ isr' = "tx_put" /\ tx # <<>>
        /\ c' = <<Head(tx)>> /\ tx' = Tail(tx) /\ UNCHANGED <<txfifo, ch, accepted, sent>>
    BY <1>1 DEF IsrTake
  <2>2. ch = <<>> /\ InHand("tx_put") = <<>> /\ InHand("tx_put")' = c'
    BY <2>1, HandlerAlone DEF InHand
  <2>3. c' \in Seq(Nat) /\ tx' \in Seq(Nat) /\ c' \o tx' = tx
    BY <1>t, <2>1, HeadTail
  <2>4. A \o c' \in Seq(Nat)
    BY <1>t, <2>3, ConcatProperties
  <2>5. TxFlow = A \o tx
    BY <1>t, <1>e, <2>2 DEF TxFlow
  <2>6. TxFlow' = (A \o c') \o tx'
    <3>1. TxFlow' = ((A \o c') \o <<>>) \o tx'
      BY <2>1, <2>2 DEF TxFlow
    <3>2. (A \o c') \o <<>> = A \o c'
      BY <1>e, <2>4
    <3> QED BY <3>1, <3>2
  <2>7. (A \o c') \o tx' = A \o (c' \o tx')
    <3>1. PICK h \in Seq(Nat), r \in Seq(Nat) : h = c' /\ r = tx'
      BY <2>3
    <3>2. Associate(A, h, r)
      BY <1>t, Associates
    <3> QED BY <3>1, <3>2 DEF Associate
  <2> QED BY <2>1, <2>3, <2>5, <2>6, <2>7
<1>2. CASE IsrPut
  <2>1. /\ isr = "tx_put" /\ isr' = "tx" /\ txfifo' = txfifo \o c /\ c' = <<>>
        /\ UNCHANGED <<tx, ch, accepted, sent>>
    BY <1>2 DEF IsrPut, PutFifo
  <2>2. ch = <<>> /\ InHand("tx_put") = c /\ InHand("tx_put")' = <<>>
    BY <2>1, HandlerAlone DEF InHand
  <2>3. A \o c \in Seq(Nat)
    BY <1>t, ConcatProperties
  <2>4. TxFlow = (A \o c) \o tx
    BY <1>e, <2>2, <2>3 DEF TxFlow
  <2>5. TxFlow' = (A \o c) \o tx
    BY <1>e, <2>1, <2>2, <2>3 DEF TxFlow
  <2> QED BY <2>1, <2>4, <2>5
<1>3. CASE IsrEnter \/ IsrGet \/ IsrQueue \/ IsrRxOver \/ IsrTxOver
  <2>1. UNCHANGED <<txfifo, ch, tx, accepted, sent>> /\ isr # "tx_put" /\ isr' # "tx_put"
    <3>1. IsrEnter \/ IsrGet => UNCHANGED <<txfifo, ch, tx, accepted, sent>>
                                /\ isr # "tx_put" /\ isr' # "tx_put"
      BY DEF IsrEnter, IsrGet, IrqPending, txway
    <3>2. IsrQueue => UNCHANGED <<txfifo, ch, tx, accepted, sent>>
                      /\ isr # "tx_put" /\ isr' # "tx_put"
      BY DEF IsrQueue, txway
    <3>3. IsrRxOver \/ IsrTxOver => UNCHANGED <<txfifo, ch, tx, accepted, sent>>
                                    /\ isr # "tx_put" /\ isr' # "tx_put"
      BY DEF IsrRxOver, IsrTxOver, txway
    <3> QED BY <1>3, <3>1, <3>2, <3>3
  <2>2. InHand("tx_put")' = InHand("tx_put")
    BY <2>1 DEF InHand
  <2> QED BY <2>1, <2>2 DEF TxFlow
<1> QED BY <1>1, <1>2, <1>3 DEF Isr

\* The oldest byte leaves on the line.
LEMMA LineSendLeaves ==
  ASSUME UartInv, LineSend
  PROVE  TxChannel!Next
<1> DEFINE A == txfifo
           B == InHand("tx_put")
           R == (B \o ch) \o tx
           T == Tail(A)
<1>1. /\ A # <<>> /\ txfifo' = T /\ UNCHANGED <<ch, tx, isr, c, accepted>>
      /\ sent' = sent \o <<Head(A)>>
  BY DEF LineSend
<1>2. InHand("tx_put")' = B
  BY <1>1 DEF InHand
<1>3. A \in Seq(Nat) /\ B \in Seq(Nat) /\ ch \in Seq(Nat) /\ tx \in Seq(Nat)
  BY FlowTypes
<1>a. TxFlow = ((A \o B) \o ch) \o tx /\ TxFlow' = ((T \o B) \o ch) \o tx
  BY <1>1, <1>2 DEF TxFlow
<1>5. T \in Seq(Nat)
  BY <1>1, <1>3, HeadTail
<1> HIDE DEF A, B, T
<1>7. R \in Seq(Nat)
  <2>1. B \o ch \in Seq(Nat)
    BY <1>3, ConcatProperties
  <2> QED BY <1>3, <2>1, ConcatProperties
<1>4. TxFlow = A \o R
  <2>1. Regroup(A, B, ch, tx)
    BY <1>3, Regroups
  <2> QED BY <1>a, <2>1 DEF Regroup
<1>6. TxFlow' = T \o R
  <2>1. Regroup(T, B, ch, tx)
    BY <1>3, <1>5, Regroups
  <2> QED BY <1>a, <2>1 DEF Regroup
<1> HIDE DEF R
<1>8. /\ 1 \in 1..Len(A \o R)
      /\ T \o R = SubSeq(A \o R, 1 + 1, Len(A \o R))
      /\ SubSeq(A \o R, 1, 1) = <<Head(A)>>
  BY <1>1, <1>3, <1>7, FrontLeaves DEF T
<1>9. 1 \in 1..Len(TxFlow) /\ TxFlow' = SubSeq(TxFlow, 1 + 1, Len(TxFlow))
      /\ sent' = sent \o SubSeq(TxFlow, 1, 1)
  BY <1>1, <1>4, <1>6, <1>8
<1>10. TxChannel!Leave
  BY <1>1, <1>9 DEF TxChannel!Leave, TxFlow
<1> QED BY <1>10 DEF TxChannel!Next

\* Every step of the way out is one of the channel.
LEMMA TxStep ==
  ASSUME UartInv, [UartNext]_uart_vars
  PROVE  TxChannel!Next \/ UNCHANGED TxChannel!vars
<1>1. ASSUME UNCHANGED <<TxFlow, accepted, sent>> PROVE UNCHANGED TxChannel!vars
  BY <1>1 DEF TxFlow, TxChannel!vars
<1>k. ASSUME UNCHANGED <<txfifo, c, isr, ch, tx, accepted, sent>> PROVE UNCHANGED <<TxFlow, accepted, sent>>
  BY <1>k DEF TxFlow, InHand
<1>2. CASE UNCHANGED uart_vars
  BY <1>1, <1>k, <1>2 DEF uart_vars, txway
<1>3. CASE Isr
  BY <1>1, <1>3, IsrKeepsTx
<1>4. CASE LineSend
  BY <1>4, LineSendLeaves
<1>5. CASE LineReceive \/ LineQuiet
  BY <1>1, <1>k, <1>5 DEF LineReceive, LineQuiet, txway
<1>6. ASSUME NEW t \in Tasks, Call(t) PROVE UNCHANGED TxChannel!vars
  BY <1>1, <1>k, <1>6 DEF Call, WriteCall, ReadCall, FlushCall, Enter, txway
<1>7. ASSUME NEW t \in Tasks, Progress(t)
      PROVE  TxChannel!Next \/ UNCHANGED TxChannel!vars
  <2>1. CASE SendByte(t)
    BY <2>1, SendByteEnters
  <2>2. CASE FillTake(t) \/ FillPut(t)
    BY <1>1, <2>2, FillKeeps
  <2>3. CASE SendOver(t) \/ FillOver(t) \/ WriteReturn(t)
    BY <1>1, <1>k, <2>3 DEF SendOver, FillOver, WriteReturn, txway
  <2>4. CASE TakeByte(t) \/ TakeOver(t)
    BY <1>1, <1>k, <2>4 DEF TakeByte, TakeOver, txway
  <2> QED BY <1>7, <2>1, <2>2, <2>3, <2>4 DEF Progress
<1> QED BY <1>2, <1>3, <1>4, <1>5, <1>6, <1>7 DEF UartNext, Line

\* What write() accepts leaves on the line in that order, all of it and once,
\* though the initial fill and uart_irq_tx() both take from the queue: for
\* queues, FIFOs and calls of any size, and any number of tasks.
THEOREM TxInOrderCorrect == UartSpec => TxInOrder
<1>1. UartInit => TxChannel!Init
  <2> SUFFICES ASSUME UartInit PROVE TxFlow = <<>> /\ accepted = 0 /\ sent = <<>>
    BY DEF TxChannel!Init, TxFlow
  <2>1. txfifo = <<>> /\ InHand("tx_put") = <<>> /\ ch = <<>> /\ tx = <<>> /\ accepted = 0
        /\ sent = <<>>
    BY DEF UartInit, InHand
  <2>2. <<>> \o <<>> = <<>>
    BY ConcatEmptySeq, EmptySeq
  <2> QED BY <2>1, <2>2 DEF TxFlow
<1>2. UartInv /\ [UartNext]_uart_vars => [TxChannel!Next]_(TxChannel!vars)
  BY TxStep
<1> QED BY <1>1, <1>2, InitUartInv, StepUartInv, PTL DEF UartSpec, TxInOrder, TxChannel!Spec
---------------------------------------------------------------------------
\* A byte from the line gets into the RX FIFO, or is lost at once.
LEMMA LineReceiveEnters ==
  ASSUME UartInv, LineReceive
  PROVE  RxChannel!Next
<1> DEFINE A == rx
           B == InHand("rx_put")
           X == A \o B
           n == received
           e == received + 1
<1>1. /\ received' = n + 1 /\ UNCHANGED <<rx, isr, c, taken>>
      /\ \/ Len(rxfifo) < FifoDepth /\ rxfifo' = Append(rxfifo, e)
         \/ rxfifo' = rxfifo
  BY DEF LineReceive
<1>2. InHand("rx_put")' = B
  BY <1>1 DEF InHand
<1>3. A \in Seq(Nat) /\ B \in Seq(Nat) /\ rxfifo \in Seq(Nat) /\ n \in Nat
  BY FlowTypes
<1>4. X \in Seq(Nat) /\ Len(X) = Len(A) + Len(B)
  BY <1>3, Joined
<1>5. RxFlow = X \o rxfifo /\ RxFlow' = X \o rxfifo'
  BY <1>1, <1>2 DEF RxFlow
<1>6. [i \in 1..1 |-> n + i] = <<e>> /\ <<e>> \in Seq(Nat)
  BY <1>3, OneArrives
<1>b. Len(A) <= RxSize /\ Len(B) \in {0, 1} /\ Len(rxfifo) <= FifoDepth
  <2>1. CASE isr = "rx_put"
    <3>1. B = c /\ Len(c) = 1
      BY <2>1 DEF UartInv, Hands, InHand
    <3> QED BY <3>1 DEF UartInv, Bounds
  <2>2. CASE isr # "rx_put"
    <3>1. B = <<>> /\ Len(<<>>) = 0
      BY <2>2, EmptySeq DEF InHand
    <3> QED BY <3>1 DEF UartInv, Bounds
  <2> QED BY <2>1, <2>2
<1>k. PICK k \in {0, 1} : k = Len(B)
  BY <1>b
<1>x. Len(X) = Len(A) + k
  BY <1>4, <1>k
<1> HIDE DEF X
<1>7. Len(RxFlow) = Len(X) + Len(rxfifo) /\ RxFlow \in Seq(Nat)
  BY <1>3, <1>4, <1>5, Joined
<1>l. {Len(A), Len(rxfifo), FifoDepth, RxSize} \subseteq Nat
  BY <1>3, LenProperties, FifoAssumption, QueueAssumption
<1>8. CASE Len(rxfifo) < FifoDepth /\ rxfifo' = Append(rxfifo, e)
  <2>1. rxfifo' = rxfifo \o <<e>>
    <3>1. e \in Nat
      BY <1>3
    <3> HIDE DEF e
    <3> QED BY <1>3, <1>8, <3>1, AppendIsConcat
  <2>2. Associate(X, rxfifo, <<e>>)
    BY <1>3, <1>4, <1>6, Associates
  <2>3. RxFlow' = RxFlow \o [i \in 1..1 |-> n + i]
    BY <1>5, <1>6, <2>1, <2>2 DEF Associate
  <2>4. Len(RxFlow) + 1 <= FifoDepth + RxSize + 1
    <3>1. Len(RxFlow) = Len(A) + k + Len(rxfifo)
      BY <1>x, <1>7
    <3>2. Len(A) + k + Len(rxfifo) + 1 <= FifoDepth + RxSize + 1
      BY <1>8, <1>b, <1>l
    <3> QED BY <3>1, <3>2
  <2>5. 1 \in 1..1 /\ 1 \in 0..1 /\ ~(1 < 1)
    OBVIOUS
  <2> QED BY <1>1, <2>3, <2>4, <2>5 DEF RxChannel!Enter, RxChannel!Next, RxFlow
<1>9. CASE rxfifo' = rxfifo
  <2>1. [i \in 1..0 |-> n + i] = <<>>
    OBVIOUS
  <2>2. RxFlow \o <<>> = RxFlow
    BY <1>7, ConcatEmptySeq
  <2>3. RxFlow' = RxFlow \o [i \in 1..0 |-> n + i]
    BY <1>5, <1>9, <2>1, <2>2
  <2>4. Len(RxFlow) + 0 <= FifoDepth + RxSize + 1
    BY <1>x, <1>7, <1>b, <1>l
  <2>5. 1 \in 1..1 /\ 0 \in 0..1 /\ "inside" \in {"entry", "inside"}
    OBVIOUS
  <2> QED BY <1>1, <2>3, <2>4, <2>5 DEF RxChannel!Enter, RxChannel!Next, RxFlow
<1> QED BY <1>1, <1>8, <1>9

\* The handler moves a byte to the queue in two steps; a full queue loses it.
LEMMA IsrMovesRx ==
  ASSUME UartInv, Isr
  PROVE  RxChannel!Next \/ UNCHANGED <<RxFlow, received, taken>>
<1> DEFINE A == rx
<1>t. A \in Seq(Nat) /\ c \in Seq(Nat) /\ rxfifo \in Seq(Nat) /\ <<>> \in Seq(Nat)
  BY FlowTypes, EmptySeq
<1>e. \A s \in Seq(Nat) : s \o <<>> = s
  BY ConcatEmptySeq
<1>1. CASE IsrGet
  <2>1. /\ isr = "rx" /\ isr' = "rx_put" /\ rxfifo # <<>>
        /\ c' = <<Head(rxfifo)>> /\ rxfifo' = Tail(rxfifo) /\ UNCHANGED <<rx, received, taken>>
    BY <1>1 DEF IsrGet
  <2>2. InHand("rx_put") = <<>> /\ InHand("rx_put")' = c'
    BY <2>1 DEF InHand
  <2>3. PICK h \in Seq(Nat), r \in Seq(Nat) : h = c' /\ r = rxfifo' /\ h \o r = rxfifo
    BY <1>t, <2>1, HeadTail
  <2>4. Associate(A, h, r)
    BY <1>t, Associates
  <2>5. RxFlow = A \o rxfifo
    BY <1>t, <1>e, <2>2 DEF RxFlow
  <2>6. RxFlow' = (A \o h) \o r
    BY <2>1, <2>2, <2>3 DEF RxFlow
  <2> QED BY <2>1, <2>3, <2>4, <2>5, <2>6 DEF Associate
<1>2. CASE IsrQueue
  <2>1. /\ isr = "rx_put" /\ isr' = "rx" /\ c' = <<>>
        /\ rx' = rx \o c \/ rx' = rx
        /\ UNCHANGED <<rxfifo, received, taken>>
    BY <1>2 DEF IsrQueue, ToBack
  <2>2. Len(c) = 1 /\ InHand("rx_put") = c /\ InHand("rx_put")' = <<>>
    BY <2>1 DEF UartInv, Hands, InHand
  <2>3. RxFlow = (A \o c) \o rxfifo
    BY <2>2 DEF RxFlow
  <2>4. CASE rx' = rx \o c
    <3>1. (A \o c) \o <<>> = A \o c
      BY <1>t, <1>e, Joined
    <3>2. RxFlow' = ((A \o c) \o <<>>) \o rxfifo
      BY <2>1, <2>2, <2>4 DEF RxFlow
    <3> QED BY <2>1, <2>3, <3>1, <3>2
  <2>5. CASE rx' = rx
    <3>1. A \o <<>> = A
      BY <1>t, <1>e
    <3>2. RxFlow' = (A \o <<>>) \o rxfifo
      BY <2>1, <2>2, <2>5 DEF RxFlow
    <3>3. RxFlow' = A \o rxfifo
      BY <3>1, <3>2
    <3>4. WithoutMiddle(A, c, rxfifo)
      BY <1>t, <2>2, MiddleLost
    <3>5. \E i \in 1..Len(RxFlow) :
             RxFlow' = SubSeq(RxFlow, 1, i - 1) \o SubSeq(RxFlow, i + 1, Len(RxFlow))
      BY <2>3, <3>3, <3>4 DEF WithoutMiddle
    <3>6. RxChannel!Lose
      BY <2>1, <3>5 DEF RxChannel!Lose, RxFlow
    <3> QED BY <3>6 DEF RxChannel!Next
  <2> QED BY <2>1, <2>4, <2>5
<1>3. CASE IsrEnter \/ IsrRxOver \/ IsrTake \/ IsrPut \/ IsrTxOver
  <2>1. UNCHANGED <<rx, rxfifo, received, taken>> /\ isr # "rx_put" /\ isr' # "rx_put"
    <3>1. IsrEnter \/ IsrRxOver => UNCHANGED <<rx, rxfifo, received, taken>>
                                   /\ isr # "rx_put" /\ isr' # "rx_put"
      BY DEF IsrEnter, IsrRxOver, IrqPending, rxway
    <3>2. IsrTake \/ IsrPut => UNCHANGED <<rx, rxfifo, received, taken>>
                               /\ isr # "rx_put" /\ isr' # "rx_put"
      BY DEF IsrTake, IsrPut, rxway
    <3>3. IsrTxOver => UNCHANGED <<rx, rxfifo, received, taken>>
                       /\ isr # "rx_put" /\ isr' # "rx_put"
      BY DEF IsrTxOver, rxway
    <3> QED BY <1>3, <3>1, <3>2, <3>3
  <2>2. InHand("rx_put")' = InHand("rx_put")
    BY <2>1 DEF InHand
  <2> QED BY <2>1, <2>2 DEF RxFlow
<1> QED BY <1>1, <1>2, <1>3 DEF Isr

\* read() and flush() take the oldest byte.
LEMMA TakeByteLeaves ==
  ASSUME UartInv, NEW t \in Tasks, TakeByte(t)
  PROVE  RxChannel!Next
<1> DEFINE A == rx
           B == InHand("rx_put")
           R == B \o rxfifo
           T == Tail(A)
<1>1. A # <<>> /\ rx' = T /\ UNCHANGED <<rxfifo, isr, c, received>>
      /\ taken' = taken \o <<Head(A)>>
  BY DEF TakeByte
<1>2. InHand("rx_put")' = B
  BY <1>1 DEF InHand
<1>3. A \in Seq(Nat) /\ B \in Seq(Nat) /\ rxfifo \in Seq(Nat)
  BY FlowTypes
<1>4. RxFlow = (A \o B) \o rxfifo /\ RxFlow' = (T \o B) \o rxfifo
  BY <1>1, <1>2 DEF RxFlow
<1>5. T \in Seq(Nat)
  BY <1>1, <1>3, HeadTail
<1> HIDE DEF A, B, T
<1>6. R \in Seq(Nat)
  BY <1>3, Joined
<1>7. RxFlow = A \o R /\ RxFlow' = T \o R
  <2>1. Associate(A, B, rxfifo) /\ Associate(T, B, rxfifo)
    BY <1>3, <1>5, Associates
  <2> QED BY <1>4, <2>1 DEF Associate
<1> HIDE DEF R
<1>8. /\ 1 \in 1..Len(A \o R)
      /\ T \o R = SubSeq(A \o R, 1 + 1, Len(A \o R))
      /\ SubSeq(A \o R, 1, 1) = <<Head(A)>>
  BY <1>1, <1>3, <1>6, FrontLeaves DEF T
<1>9. 1 \in 1..Len(RxFlow) /\ RxFlow' = SubSeq(RxFlow, 1 + 1, Len(RxFlow))
      /\ taken' = taken \o SubSeq(RxFlow, 1, 1)
  BY <1>1, <1>7, <1>8
<1>10. RxChannel!Leave
  BY <1>1, <1>9 DEF RxChannel!Leave, RxFlow
<1> QED BY <1>10 DEF RxChannel!Next

\* Every step of the way in is one of the channel.
LEMMA RxStep ==
  ASSUME UartInv, [UartNext]_uart_vars
  PROVE  RxChannel!Next \/ UNCHANGED RxChannel!vars
<1>1. ASSUME UNCHANGED <<RxFlow, received, taken>> PROVE UNCHANGED RxChannel!vars
  BY <1>1 DEF RxFlow, RxChannel!vars
<1>k. ASSUME UNCHANGED <<rx, c, isr, rxfifo, received, taken>> PROVE UNCHANGED <<RxFlow, received, taken>>
  BY <1>k DEF RxFlow, InHand
<1>2. CASE UNCHANGED uart_vars
  BY <1>1, <1>k, <1>2 DEF uart_vars, rxway
<1>3. CASE Isr
  BY <1>1, <1>3, IsrMovesRx
<1>4. CASE LineReceive
  BY <1>4, LineReceiveEnters
<1>5. CASE LineSend \/ LineQuiet
  BY <1>1, <1>k, <1>5 DEF LineSend, LineQuiet, rxway
<1>6. ASSUME NEW t \in Tasks, Call(t) PROVE UNCHANGED RxChannel!vars
  BY <1>1, <1>k, <1>6 DEF Call, WriteCall, ReadCall, FlushCall, Enter, rxway
<1>7. ASSUME NEW t \in Tasks, Progress(t)
      PROVE  RxChannel!Next \/ UNCHANGED RxChannel!vars
  <2>1. CASE TakeByte(t)
    BY <2>1, TakeByteLeaves
  <2>2. CASE SendByte(t) \/ SendOver(t) \/ FillTake(t) \/ FillPut(t)
    BY <1>1, <1>k, <2>2 DEF SendByte, SendOver, FillTake, FillPut, rxway
  <2>3. CASE FillOver(t) \/ WriteReturn(t) \/ TakeOver(t)
    BY <1>1, <1>k, <2>3 DEF FillOver, WriteReturn, TakeOver, rxway
  <2> QED BY <1>7, <2>1, <2>2, <2>3 DEF Progress
<1> QED BY <1>2, <1>3, <1>4, <1>5, <1>6, <1>7 DEF UartNext, Line

\* What read() returns has arrived in that order and once; a byte goes missing
\* at the RX FIFO or, uart_irq_rx() ignoring xQueueSendToBackFromISR(), on its
\* way into a full queue.
THEOREM RxInOrderCorrect == UartSpec => RxInOrder
<1>1. UartInit => RxChannel!Init
  <2> SUFFICES ASSUME UartInit PROVE RxFlow = <<>> /\ received = 0 /\ taken = <<>>
    BY DEF RxChannel!Init, RxFlow
  <2>1. rx = <<>> /\ InHand("rx_put") = <<>> /\ rxfifo = <<>> /\ received = 0
        /\ taken = <<>>
    BY DEF UartInit, InHand
  <2>2. <<>> \o <<>> = <<>>
    BY ConcatEmptySeq, EmptySeq
  <2> QED BY <2>1, <2>2 DEF RxFlow
<1>2. UartInv /\ [UartNext]_uart_vars => [RxChannel!Next]_(RxChannel!vars)
  BY RxStep
<1> QED BY <1>1, <1>2, InitUartInv, StepUartInv, PTL DEF UartSpec, RxInOrder, RxChannel!Spec
=============================================================================

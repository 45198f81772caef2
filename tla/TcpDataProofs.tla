--------------------------- MODULE TcpDataProofs ---------------------------
(***************************************************************************)
(* Proofs about the data of a TCP connection, for a stream, a window, a    *)
(* segment size and an initial sequence number of any size, and for a      *)
(* network that loses, repeats and overtakes as often as it likes.         *)
(***************************************************************************)
EXTENDS TcpData, FiniteSetTheorems, SequenceTheorems

-----------------------------------------------------------------------------
(* Where sequence numbers are in the stream: the invariant speaks of       *)
(* places, which do not wrap.                                              *)

Seqs == 0 .. SeqModulus - 1
Off(a) == Minus(a, Iss)

(* The place behind a segment, and behind its bytes.                       *)
EndOff(p) == Off(p.seq) + TcpLen(p)
BytesEnd(p) == Off(p.seq) + SegLen(p)

(* In what follows s are the fields of a sender that was given w bytes,    *)
(* and r those of a receiver.                                              *)
Fin(s) == IF s.fin THEN 1 ELSE 0
MaxOf(a, b) == IF a < b THEN b ELSE a

(* What can have been sent, with the one byte of a probe.                  *)
Reach(s) == MaxOf(Off(s.nxt), Off(s.lastack) + 1)

Segments == [seq : Seqs, bytes : Seq(Nat), fin : BOOLEAN, pbufs : Nat]
Packets == [seq : Seqs, bytes : Seq(Nat), fin : BOOLEAN]
Acks == [ack : Seqs, wnd : 0 .. Wnd]

States == {"ESTABLISHED", "CLOSE_WAIT", "FIN_WAIT_1", "FIN_WAIT_2", "LAST_ACK",
           "CLOSED", "ABORTED"}
Senders ==
  [state : States, nxt : Seqs, lastack : Seqs, lbb : Seqs, buf : Int,
   queuelen : Int, wnd : 0 .. Wnd, wl2 : Seqs, mss : Msses,
   cwnd : 0 .. Wnd, ssthresh : 0 .. Wnd, dupacks : Nat, infr : BOOLEAN,
   memerr : BOOLEAN, fin : BOOLEAN, nrtx : Int, timed : BOOLEAN,
   persist : BOOLEAN, oversize : Int]
Receivers ==
  [nxt : Seqs, wnd : 0 .. Wnd, ann : 0 .. Wnd, edge : Seqs, mss : Msses,
   delayed : BOOLEAN, ended : BOOLEAN, unread : Nat]

TypeInv ==
  /\ unsent \in Seq(Segments) /\ unacked \in Seq(Segments)
  /\ snd \in Senders /\ rcv \in Receivers
  /\ refused \in [bytes : Seq(Nat), fin : BOOLEAN]
  /\ data \in Seq(Packets) /\ acks \in Seq(Acks)
  /\ written \in Seq(Nat) /\ given \in Seq(Nat) /\ sentTold \in Int

(* p holds bytes of the stream at their places, and the FIN at the end.    *)
Holds(p, s, w) ==
  /\ BytesEnd(p) <= w
  /\ \A k \in 1 .. SegLen(p) : p.bytes[k] = Off(p.seq) + k
  /\ p.fin => s.fin /\ BytesEnd(p) = w
  /\ TcpLen(p) >= 1

(* Each of q ends where the next begins.                                   *)
Chain(q) ==
  /\ \A i \in 1 .. Len(q) - 1 : EndOff(q[i]) = Off(q[i + 1].seq)
  /\ \A i, j \in 1 .. Len(q) : i < j => EndOff(q[i]) <= Off(q[j].seq)

(* The queues q, of which the first n are unacked.                         *)
QueueInv(q, n, s, w) ==
  /\ \A i \in 1 .. Len(q) : Holds(q[i], s, w) /\ SegLen(q[i]) <= s.mss
  /\ Chain(q)
  /\ q = <<>> => Off(s.lastack) = w + Fin(s)
  /\ q # <<>> => /\ Off(q[1].seq) <= Off(s.lastack) /\ Off(s.lastack) < EndOff(q[1])
                 /\ EndOff(q[Len(q)]) = w + Fin(s)
  /\ \A i \in 1 .. n : /\ EndOff(q[i]) <= Off(s.nxt)
                       /\ BytesEnd(q[i]) <= Off(s.lastack) + s.wnd
  /\ n = Len(q) => s.oversize = 0
  /\ n < Len(q) => SegLen(q[Len(q)]) + s.oversize <= s.mss
  /\ s.queuelen = Pbufs(q)

(* The sequence numbers and windows of the sender.                         *)
SenderInv(s, w, r) ==
  /\ Off(s.lastack) <= Off(s.nxt) /\ Off(s.nxt) <= w + Fin(s)
  /\ Off(s.lastack) <= Off(s.wl2) /\ Off(s.wl2) <= Off(r.nxt)
  /\ Off(s.wl2) + s.wnd <= Off(r.edge)
  /\ s.mss <= s.cwnd /\ s.mss <= s.ssthresh
  /\ s.oversize >= 0
  /\ s.state \in {"ESTABLISHED", "CLOSE_WAIT"} => ~s.fin
  /\ ~s.fin => Off(s.lbb) = w
  /\ s.buf + w - Off(s.lastack) \in {SndBuf, SndBuf - Fin(s)}

WrittenInv ==
  /\ Len(written) <= StreamLen
  /\ \A k \in 1 .. Len(written) : written[k] = k

(* What was received was given (g) or refused (f), and the FIN with the    *)
(* last of it.                                                             *)
EndKnown(r, f) == r.ended \/ f.fin
ReceiverInv(r, f, g, s, w) ==
  /\ Off(r.edge) <= Off(r.nxt) + r.ann /\ r.ann <= r.wnd
  /\ Off(r.nxt) <= Reach(s)
  /\ Len(g) + Len(f.bytes) = Off(r.nxt) - (IF EndKnown(r, f) THEN 1 ELSE 0)
  /\ \A k \in 1 .. Len(g) : g[k] = k
  /\ \A k \in 1 .. Len(f.bytes) : f.bytes[k] = Len(g) + k
  /\ EndKnown(r, f) => s.fin /\ Off(r.nxt) = w + 1
  /\ ~EndKnown(r, f) => Off(r.nxt) <= w
  /\ r.ended => f = Nothing

(* What is on its way to the receiver.                                     *)
PacketInv(p, s, w, r) ==
  /\ Holds(p, s, w) /\ EndOff(p) <= Reach(s)
  /\ SegLen(p) > 1 => BytesEnd(p) <= Off(r.edge)

(* What is on its way to the sender: a window that comes with a later ACK  *)
(* reaches further.                                                        *)
Further(a, b) == Off(a.ack) < Off(b.ack) => Off(a.ack) + a.wnd <= Off(b.ack) + b.wnd
Known(s) == [ack |-> s.wl2, wnd |-> s.wnd]
AckInv(m, s, r) ==
  /\ Off(m.ack) <= Off(r.nxt) /\ Off(m.ack) + m.wnd <= Off(r.edge)
  /\ Further(m, Known(s)) /\ Further(Known(s), m)

(* The inductive invariant.                                                *)
IInv ==
  /\ TypeInv /\ WrittenInv
  /\ SenderInv(snd, Len(written), rcv)
  /\ ReceiverInv(rcv, refused, given, snd, Len(written))
  /\ \A i \in DOMAIN data : PacketInv(data[i], snd, Len(written), rcv)
  /\ \A i \in DOMAIN acks : AckInv(acks[i], snd, rcv)
  /\ \A i, j \in DOMAIN acks : Further(acks[i], acks[j])
  /\ Open => QueueInv(Outstanding, Len(unacked), snd, Len(written)) /\ SentExact

-----------------------------------------------------------------------------
(* Arithmetic of sequence numbers.                                         *)

LEMMA Modulus ==
  ASSUME NEW x \in Int, NEW m \in Nat \ {0}
  PROVE  /\ x % m \in 0 .. m - 1
         /\ 0 <= x /\ x < m => x % m = x
         /\ -m <= x /\ x < 0 => x % m = x + m
         /\ m <= x /\ x < 2 * m => x % m = x - m
<1>. DEFINE q == x \div m
            r == x % m
<1>1. r \in Int /\ q \in Int /\ 0 <= r /\ r < m /\ x = m * q + r
  OBVIOUS
<1>. HIDE DEF q, r
<1>2. /\ q >= 2 => m * q >= 2 * m
      /\ q >= 1 => m * q >= m
      /\ q <= -1 => m * q <= -m
      /\ q <= -2 => m * q <= -2 * m
  BY <1>1
<1>3. /\ q = 0 => m * q = 0
      /\ q = 1 => m * q = m
      /\ q = -1 => m * q = -m
  BY <1>1
<1>4. m * q \in Int
  BY <1>1
<1>5. q >= 2 \/ q = 1 \/ q = 0 \/ q = -1 \/ q <= -2
  BY <1>1
<1>6. r \in 0 .. m - 1
  BY <1>1
<1>7. /\ 0 <= x /\ x < m => r = x
      /\ -m <= x /\ x < 0 => r = x + m
      /\ m <= x /\ x < 2 * m => r = x - m
  BY <1>1, <1>2, <1>3, <1>4, <1>5
<1>. QED
  BY <1>6, <1>7 DEF r

LEMMA Constants ==
  /\ SeqModulus \in Nat \ {0} /\ Iss \in Seqs /\ StreamLen \in Nat /\ Wnd \in Nat
  /\ SeqModulus \div 2 \in Nat /\ SeqModulus = 2 * (SeqModulus \div 2)
  /\ StreamLen + Wnd + 2 <= SeqModulus \div 2
BY SeqAssumption, SizeAssumption DEF Seqs

LEMMA Wrapped ==
  ASSUME NEW x \in Int, -SeqModulus <= x, x < 2 * SeqModulus
  PROVE  x % SeqModulus = IF x < 0 THEN x + SeqModulus
                          ELSE IF x < SeqModulus THEN x ELSE x - SeqModulus
<1>. DEFINE m == SeqModulus
<1>1. m \in Nat \ {0} /\ -m <= x /\ x < 2 * m
  BY Constants
<1>2. /\ 0 <= x /\ x < m => x % m = x
      /\ -m <= x /\ x < 0 => x % m = x + m
      /\ m <= x /\ x < 2 * m => x % m = x - m
  <2>. HIDE DEF m
  <2>. QED
    BY <1>1, Modulus
<1>. QED
  BY <1>1, <1>2

LEMMA OffType ==
  ASSUME NEW a \in Seqs
  PROVE  Off(a) \in Seqs
BY Constants, Modulus DEF Off, Minus, Seqs

LEMMA OffIs ==
  ASSUME NEW a \in Seqs
  PROVE  Off(a) = IF a >= Iss THEN a - Iss ELSE a - Iss + SeqModulus
<1>1. a - Iss \in Int /\ -SeqModulus <= a - Iss /\ a - Iss < SeqModulus
  BY Constants DEF Seqs
<1>. DEFINE d == a - Iss
<1>2. d \in Int /\ -SeqModulus <= d /\ d < 2 * SeqModulus
  BY <1>1, Constants
<1>3. d % SeqModulus = IF d < 0 THEN d + SeqModulus
                       ELSE IF d < SeqModulus THEN d ELSE d - SeqModulus
  <2>. HIDE DEF d
  <2>. QED
    BY <1>2, Wrapped
<1>. QED
  BY <1>1, <1>3, Constants DEF Off, Minus, Seqs

LEMMA OffOfIss == Off(Iss) = 0
BY OffIs, Constants DEF Seqs

(* Places tell sequence numbers apart.                                     *)
LEMMA OffInjective ==
  ASSUME NEW a \in Seqs, NEW b \in Seqs, Off(a) = Off(b)
  PROVE  a = b
BY OffIs, Constants DEF Seqs

LEMMA PlusOff ==
  ASSUME NEW a \in Seqs, NEW n \in Nat, Off(a) + n < SeqModulus
  PROVE  Plus(a, n) \in Seqs /\ Off(Plus(a, n)) = Off(a) + n
<1>1. a + n \in Int /\ 0 <= a + n /\ a + n < 2 * SeqModulus
  BY OffType, Constants DEF Seqs
<1>. DEFINE d == a + n
<1>2. d % SeqModulus = IF d < 0 THEN d + SeqModulus
                       ELSE IF d < SeqModulus THEN d ELSE d - SeqModulus
  <2>1. d \in Int /\ -SeqModulus <= d /\ d < 2 * SeqModulus
    BY <1>1, Constants
  <2>. HIDE DEF d
  <2>. QED
    BY <2>1, Wrapped
<1>3. Plus(a, n) = IF a + n < SeqModulus THEN a + n ELSE a + n - SeqModulus
  BY <1>1, <1>2, Constants DEF Plus, Seqs
<1>4. Plus(a, n) \in Seqs
  BY <1>1, <1>3, Constants DEF Seqs
<1>. QED
  BY <1>3, <1>4, OffIs, Constants DEF Seqs

LEMMA MinusOff ==
  ASSUME NEW a \in Seqs, NEW b \in Seqs
  PROVE  Minus(a, b) = IF Off(a) >= Off(b) THEN Off(a) - Off(b)
                       ELSE Off(a) - Off(b) + SeqModulus
<1>1. a - b \in Int /\ -SeqModulus <= a - b /\ a - b < SeqModulus
  BY Constants DEF Seqs
<1>. DEFINE d == a - b
<1>2. d % SeqModulus = IF d < 0 THEN d + SeqModulus
                       ELSE IF d < SeqModulus THEN d ELSE d - SeqModulus
  <2>1. d \in Int /\ -SeqModulus <= d /\ d < 2 * SeqModulus
    BY <1>1, Constants
  <2>. HIDE DEF d
  <2>. QED
    BY <2>1, Wrapped
<1>3. Minus(a, b) = IF a >= b THEN a - b ELSE a - b + SeqModulus
  BY <1>1, <1>2, Constants DEF Minus, Seqs
<1>. QED
  BY <1>3, OffIs, Constants DEF Seqs

(* Sequence numbers that are less than half of them apart compare as their *)
(* places do.                                                              *)
LEMMA LtOff ==
  ASSUME NEW a \in Seqs, NEW b \in Seqs,
         Off(a) - Off(b) < SeqModulus \div 2, Off(b) - Off(a) <= SeqModulus \div 2
  PROVE  Lt(a, b) <=> Off(a) < Off(b)
BY MinusOff, OffType, Constants DEF Lt, Seqs

(* All places in the stream and the window behind it are near.             *)
Near(a) == a \in Seqs /\ Off(a) <= StreamLen + Wnd + 1

LEMMA LtNear ==
  ASSUME NEW a, NEW b, Near(a), Near(b)
  PROVE  /\ Lt(a, b) <=> Off(a) < Off(b)
         /\ Leq(a, b) <=> Off(a) <= Off(b)
<1>1. a \in Seqs /\ b \in Seqs /\ Off(a) \in Seqs /\ Off(b) \in Seqs
  BY OffType DEF Near
<1>2. /\ Off(a) - Off(b) < SeqModulus \div 2
      /\ Off(b) - Off(a) < SeqModulus \div 2
  BY <1>1, Constants DEF Near, Seqs
<1>3. /\ Off(a) - Off(b) <= SeqModulus \div 2
      /\ Off(b) - Off(a) <= SeqModulus \div 2
  BY <1>1, <1>2, Constants DEF Seqs
<1>4. Lt(a, b) <=> Off(a) < Off(b)
  BY <1>1, <1>2, <1>3, LtOff
<1>5. Lt(b, a) <=> Off(b) < Off(a)
  BY <1>1, <1>2, <1>3, LtOff
<1>. QED
  BY <1>1, <1>4, <1>5 DEF Leq, Seqs

-----------------------------------------------------------------------------
(* The first places of a queue.                                            *)
LEMMA LeadingIs ==
  ASSUME NEW X, NEW q \in Seq(X), NEW S
  PROVE  /\ Leading(q, S) \in 0 .. Len(q)
         /\ \A i \in 1 .. Leading(q, S) : i \in S
         /\ Leading(q, S) < Len(q) => Leading(q, S) + 1 \notin S
<1>. DEFINE Is(n) == /\ \A i \in 1 .. n : i \in S
                     /\ n < Len(q) => n + 1 \notin S
            T == {n \in 0 .. Len(q) : n = Len(q) \/ n + 1 \notin S}
<1>0. Len(q) \in Nat
  OBVIOUS
<1>1. T \subseteq Nat /\ Len(q) \in T
  BY <1>0
<1>2. PICK n \in T : \A j \in T : n <= j
  <2>. HIDE DEF T
  <2>. QED
    BY <1>1, LeastNatural
<1>3. n \in 0 .. Len(q) /\ (n < Len(q) => n + 1 \notin S)
  BY <1>0, <1>2
<1>4. ASSUME NEW i \in 1 .. n PROVE i \in S
  <2>1. i - 1 \in 0 .. Len(q) /\ i - 1 < n /\ i - 1 # Len(q) /\ (i - 1) + 1 = i
    BY <1>0, <1>3
  <2>2. i - 1 \notin T
    <3>. HIDE DEF T
    <3>. QED
      BY <1>2, <1>3, <2>1
  <2>. QED
    BY <2>1, <2>2
<1>5. Is(n)
  BY <1>3, <1>4
<1>6. Leading(q, S) = CHOOSE m \in 0 .. Len(q) : Is(m)
  BY DEF Leading
<1>7. Leading(q, S) \in 0 .. Len(q) /\ Is(Leading(q, S))
  <2>. HIDE DEF Is
  <2>. QED
    BY <1>3, <1>5, <1>6
<1>. QED
  BY <1>7

(* A queue is cut in two.                                                  *)
CutInTwo(X, q, k, a, b) ==
  /\ a \in Seq(X) /\ Len(a) = k /\ \A i \in 1 .. k : a[i] = q[i]
  /\ b \in Seq(X) /\ Len(b) = Len(q) - k /\ \A i \in 1 .. Len(q) - k : b[i] = q[k + i]
  /\ a = <<>> <=> k = 0
  /\ b = <<>> <=> k = Len(q)
  /\ a \o b = q

LEMMA PartsAre ==
  ASSUME NEW X, NEW q \in Seq(X), NEW k \in 0 .. Len(q)
  PROVE  CutInTwo(X, q, k, SubSeq(q, 1, k), SubSeq(q, k + 1, Len(q)))
<1>. DEFINE a == SubSeq(q, 1, k)
            b == SubSeq(q, k + 1, Len(q))
<1>1. Len(q) \in Nat /\ k \in Nat /\ k <= Len(q)
  OBVIOUS
<1>2. a \in Seq(X) /\ Len(a) = k /\ \A i \in 1 .. k : a[i] = q[i]
  BY <1>1
<1>3. /\ b \in Seq(X) /\ Len(b) = Len(q) - k
      /\ \A i \in 1 .. Len(q) - k : b[i] = q[k + i]
  BY <1>1
<1>4. \A p \in Seq(X) : p = <<>> <=> Len(p) = 0
  BY EmptySeq
<1>5. a \o b = q
  <2>1. 1 \in 1 .. Len(q) + 1 /\ k \in 1 - 1 .. Len(q) /\ Len(q) \in k .. Len(q)
    BY <1>1
  <2>2. a \o b = SubSeq(q, 1, Len(q))
    BY <2>1, ConcatAdjacentSubSeq
  <2>. QED
    BY <2>2, SubSeqFull
<1>. HIDE DEF a, b
<1>6. (a = <<>> <=> k = 0) /\ (b = <<>> <=> k = Len(q))
  BY <1>1, <1>2, <1>3, <1>4
<1>. QED
  BY <1>2, <1>3, <1>5, <1>6 DEF a, b, CutInTwo

LEMMA Parts ==
  ASSUME NEW X, NEW q \in Seq(X), NEW k \in 0 .. Len(q)
  PROVE  /\ SubSeq(q, 1, k) \in Seq(X) /\ Len(SubSeq(q, 1, k)) = k
         /\ \A i \in 1 .. k : SubSeq(q, 1, k)[i] = q[i]
         /\ SubSeq(q, k + 1, Len(q)) \in Seq(X)
         /\ Len(SubSeq(q, k + 1, Len(q))) = Len(q) - k
         /\ \A i \in 1 .. Len(q) - k : SubSeq(q, k + 1, Len(q))[i] = q[k + i]
         /\ SubSeq(q, 1, k) = <<>> <=> k = 0
         /\ SubSeq(q, k + 1, Len(q)) = <<>> <=> k = Len(q)
         /\ SubSeq(q, 1, k) \o SubSeq(q, k + 1, Len(q)) = q
<1>1. CutInTwo(X, q, k, SubSeq(q, 1, k), SubSeq(q, k + 1, Len(q)))
  BY PartsAre
<1>. QED
  BY ONLY <1>1 DEF CutInTwo

(* Two queues become one.                                                  *)
LEMMA Joined ==
  ASSUME NEW X, NEW a \in Seq(X), NEW b \in Seq(X)
  PROVE  /\ a \o b \in Seq(X) /\ Len(a \o b) = Len(a) + Len(b)
         /\ Len(a) \in Nat /\ Len(b) \in Nat /\ Len(a) \in 0 .. Len(a \o b)
         /\ \A i \in 1 .. Len(a) : (a \o b)[i] = a[i]
         /\ \A i \in 1 .. Len(b) : (a \o b)[Len(a) + i] = b[i]
         /\ a = SubSeq(a \o b, 1, Len(a))
         /\ b = SubSeq(a \o b, Len(a) + 1, Len(a \o b))
<1>. DEFINE q == a \o b
            k == Len(a)
<1>1. /\ q \in Seq(X) /\ Len(q) = k + Len(b) /\ k \in Nat /\ Len(b) \in Nat
      /\ \A i \in 1 .. k + Len(b) : q[i] = IF i <= k THEN a[i] ELSE b[i - k]
  BY ConcatProperties
<1>2. \A i \in 1 .. k : q[i] = a[i]
  <2>. HIDE DEF q
  <2>. QED
    BY <1>1
<1>3. \A i \in 1 .. Len(b) : q[k + i] = b[i]
  <2>. HIDE DEF q, k
  <2>1. ASSUME NEW i \in 1 .. Len(b) PROVE q[k + i] = b[i]
    <3>1. k + i \in 1 .. k + Len(b) /\ ~(k + i <= k) /\ (k + i) - k = i
      BY <1>1
    <3>. QED
      BY <1>1, <3>1
  <2>. QED
    BY <2>1
<1>4. k \in 0 .. Len(q)
  <2>. HIDE DEF q, k
  <2>. QED
    BY <1>1
<1>. DEFINE a1 == SubSeq(q, 1, k)
            b1 == SubSeq(q, k + 1, Len(q))
<1>5. /\ a1 \in Seq(X) /\ Len(a1) = k /\ \A i \in 1 .. k : a1[i] = q[i]
      /\ b1 \in Seq(X) /\ Len(b1) = Len(q) - k /\ \A i \in 1 .. Len(q) - k : b1[i] = q[k + i]
  <2>. HIDE DEF q, k
  <2>. QED
    BY <1>1, <1>4, Parts
<1>6. a1 = a
  <2>. HIDE DEF a1, q
  <2>1. \A i \in 1 .. Len(a1) : a1[i] = a[i]
    BY <1>2, <1>5
  <2>. QED
    BY <1>5, <2>1, SeqEqual
<1>7. b1 = b
  <2>. HIDE DEF b1, q, k
  <2>1. Len(b1) = Len(b)
    BY <1>1, <1>5
  <2>2. \A i \in 1 .. Len(b1) : b1[i] = b[i]
    BY <1>1, <1>3, <1>5, <2>1
  <2>. QED
    BY <1>5, <2>1, <2>2, SeqEqual
<1>. QED
  BY <1>1, <1>2, <1>3, <1>4, <1>6, <1>7

(* q is a and b, one behind the other.                                     *)
InOne(X, a, b, q) ==
  /\ q \in Seq(X) /\ Len(q) = Len(a) + Len(b) /\ Len(a) \in Nat /\ Len(b) \in Nat
  /\ \A i \in 1 .. Len(a) : q[i] = a[i]
  /\ \A i \in 1 .. Len(b) : q[Len(a) + i] = b[i]

LEMMA JoinedAre ==
  ASSUME NEW X, NEW a \in Seq(X), NEW b \in Seq(X)
  PROVE  InOne(X, a, b, a \o b)
BY Joined DEF InOne

(* A queue is in order when its sequence numbers are.                      *)
Ordered(q) ==
  /\ \A i \in 1 .. Len(q) : Near(q[i].seq)
  /\ \A i, j \in 1 .. Len(q) : i < j => Off(q[i].seq) < Off(q[j].seq)

LEMMA InsertType ==
  ASSUME NEW s \in Segments, NEW q \in Seq(Segments)
  PROVE  Insert(s, q) \in Seq(Segments)
<1>. DEFINE n == Leading(q, {i \in DOMAIN q : Lt(q[i].seq, s.seq)})
<1>1. n \in 0 .. Len(q)
  BY LeadingIs
<1>. HIDE DEF n
<1>2. SubSeq(q, 1, n) \in Seq(Segments) /\ SubSeq(q, n + 1, Len(q)) \in Seq(Segments)
  BY <1>1
<1>3. SubSeq(q, 1, n) \o <<s>> \o SubSeq(q, n + 1, Len(q)) \in Seq(Segments)
  BY <1>2
<1>. QED
  BY <1>3 DEF Insert, n

(* What comes behind a part of an ordered queue is put behind it.          *)
LEMMA InsertNext ==
  ASSUME NEW q \in Seq(Segments), Ordered(q), NEW n \in 0 .. Len(q) - 1
  PROVE  Insert(q[n + 1], SubSeq(q, 1, n)) = SubSeq(q, 1, n + 1)
<1>. DEFINE p == SubSeq(q, 1, n)
            s == q[n + 1]
            S == {i \in DOMAIN p : Lt(p[i].seq, s.seq)}
            m == Leading(p, S)
<1>1. /\ Len(q) \in Nat /\ n + 1 \in 1 .. Len(q) /\ s \in Segments
      /\ p \in Seq(Segments) /\ Len(p) = n /\ DOMAIN p = 1 .. n
      /\ \A i \in 1 .. n : p[i] = q[i]
  OBVIOUS
<1>2. \A i \in 1 .. n : i \in S
  <2>1. ASSUME NEW i \in 1 .. n PROVE Lt(p[i].seq, s.seq)
    <3>1. i \in 1 .. Len(q) /\ i < n + 1 /\ p[i] = q[i]
      BY <1>1
    <3>2. Near(q[i].seq) /\ Near(q[n + 1].seq) /\ Off(q[i].seq) < Off(q[n + 1].seq)
      BY <1>1, <3>1 DEF Ordered
    <3>. QED
      BY <3>1, <3>2, LtNear
  <2>. QED
    BY <1>1, <2>1
<1>3. m = n
  <2>1. m \in 0 .. Len(p) /\ (m < Len(p) => m + 1 \notin S)
    <3>. HIDE DEF p, S
    <3>. QED
      BY <1>1, LeadingIs
  <2>. HIDE DEF p, S, m
  <2>. QED
    BY <1>1, <1>2, <2>1
<1>4. SubSeq(p, 1, n) \o <<s>> \o SubSeq(p, n + 1, n) = SubSeq(q, 1, n + 1)
  BY <1>1
<1>5. Insert(s, p) = SubSeq(p, 1, m) \o <<s>> \o SubSeq(p, m + 1, Len(p))
  BY DEF Insert
<1>. HIDE DEF p, m, s
<1>6. Insert(s, p) = SubSeq(q, 1, n + 1)
  BY <1>1, <1>3, <1>4, <1>5
<1>. QED
  BY <1>6 DEF p, s

(* The head of an ordered queue is put in front of any part of the rest.   *)
LEMMA InsertHead ==
  ASSUME NEW q \in Seq(Segments), Ordered(q), NEW n \in 1 .. Len(q)
  PROVE  Insert(q[1], SubSeq(q, 2, n)) = SubSeq(q, 1, n)
<1>. DEFINE p == SubSeq(q, 2, n)
            s == q[1]
            S == {i \in DOMAIN p : Lt(p[i].seq, s.seq)}
            m == Leading(p, S)
<1>1. /\ Len(q) \in Nat /\ 1 \in 1 .. Len(q) /\ s \in Segments
      /\ p \in Seq(Segments) /\ Len(p) = n - 1 /\ DOMAIN p = 1 .. n - 1
      /\ \A i \in 1 .. n - 1 : p[i] = q[i + 1]
  OBVIOUS
<1>2. 1 \notin S
  <2>1. ASSUME 1 \in 1 .. n - 1 PROVE ~Lt(p[1].seq, s.seq)
    <3>1. 2 \in 1 .. Len(q) /\ p[1] = q[2] /\ 1 < 2
      BY <1>1, <2>1
    <3>2. Near(q[2].seq) /\ Near(q[1].seq) /\ Off(q[1].seq) < Off(q[2].seq)
      BY <1>1, <3>1 DEF Ordered
    <3>3. Off(q[1].seq) \in Seqs /\ Off(q[2].seq) \in Seqs
      BY <3>2, OffType DEF Near
    <3>4. ~(Off(q[2].seq) < Off(q[1].seq))
      BY <3>2, <3>3 DEF Seqs
    <3>. QED
      BY <3>1, <3>2, <3>4, LtNear
  <2>. QED
    BY <1>1, <2>1
<1>3. m = 0
  <2>1. m \in 0 .. Len(p) /\ \A i \in 1 .. m : i \in S
    <3>. HIDE DEF p, S
    <3>. QED
      BY <1>1, LeadingIs
  <2>. HIDE DEF p, S, m
  <2>. QED
    BY <1>1, <1>2, <2>1
<1>4. SubSeq(p, 1, 0) \o <<s>> \o SubSeq(p, 0 + 1, Len(p)) = SubSeq(q, 1, n)
  BY <1>1
<1>5. Insert(s, p) = SubSeq(p, 1, m) \o <<s>> \o SubSeq(p, m + 1, Len(p))
  BY DEF Insert
<1>. HIDE DEF p, m, s
<1>6. Insert(s, p) = SubSeq(q, 1, n)
  BY <1>3, <1>4, <1>5
<1>. QED
  BY <1>6 DEF p, s

LEMMA InsertedSteps ==
  ASSUME NEW sent \in Seq(Segments), NEW q \in Seq(Segments)
  PROVE  \E f \in [0 .. Len(sent) -> Seq(Segments)] :
           /\ f[0] = q
           /\ \A k \in 1 .. Len(sent) : f[k] = Insert(sent[k], f[k - 1])
           /\ Inserted(sent, q) = f[Len(sent)]
<1>. DEFINE n == Len(sent)
            V == Seq(Segments)
            Rec(f) == f = [k \in 0 .. n |-> IF k = 0 THEN q ELSE Insert(sent[k], f[k - 1])]
            g == [s \in (1 .. n) \X V |-> Insert(sent[s[1]], s[2])]
            h == CHOOSE f : Rec(f)
<1>1. n \in Nat /\ \A k \in 1 .. n : sent[k] \in Segments
  OBVIOUS
<1>2. g \in Steps(n, V)
  BY <1>1, InsertType DEF Steps
<1>3. PICK f \in [0 .. n -> V] : f[0] = q /\ \A k \in 1 .. n : f[k] = g[<<k, f[k - 1]>>]
  <2>. HIDE DEF g, V, n, Rec, h
  <2>1. q \in V
    BY DEF V
  <2>. QED
    BY <1>1, <1>2, <2>1, Recursion
<1>4. ASSUME NEW k \in 1 .. n PROVE f[k] = Insert(sent[k], f[k - 1])
  <2>1. k - 1 \in 0 .. n /\ f[k - 1] \in V
    <3>. HIDE DEF n, V
    <3>1. k - 1 \in 0 .. n
      BY <1>1
    <3>. QED
      BY <3>1
  <2>2. <<k, f[k - 1]>> \in (1 .. n) \X V
    BY <2>1
  <2>3. g[<<k, f[k - 1]>>] = Insert(sent[k], f[k - 1])
    BY <2>2
  <2>. QED
    BY <1>3, <2>3
<1>5. Rec(f)
  <2>1. \A k \in 0 .. n : k = 0 \/ k \in 1 .. n
    BY <1>1
  <2>2. \A k \in 1 .. n : k # 0
    BY <1>1
  <2>. HIDE DEF g
  <2>. QED
    BY <1>3, <1>4, <2>1, <2>2
<1>6. Rec(h)
  <2>. HIDE DEF Rec
  <2>. QED
    BY <1>5
<1>7. /\ DOMAIN h = 0 .. n /\ h[0] = q
      /\ \A k \in 1 .. n : h[k] = Insert(sent[k], h[k - 1])
  <2>1. 0 \in 0 .. n /\ \A k \in 1 .. n : k \in 0 .. n /\ k # 0
    BY <1>1
  <2>. HIDE DEF h, n
  <2>. QED
    BY <1>6, <2>1
<1>8. \A k \in 0 .. n : h[k] \in V
  <2>. DEFINE S == {k \in 0 .. n : h[k] \in V}
  <2>1. 0 \in S
    BY <1>1, <1>7
  <2>2. ASSUME NEW k \in 0 .. n - 1, k \in S PROVE k + 1 \in S
    <3>1. k + 1 \in 1 .. n /\ (k + 1) - 1 = k /\ k + 1 \in 0 .. n
      BY <1>1
    <3>2. h[k + 1] = Insert(sent[k + 1], h[k])
      BY <1>7, <3>1
    <3>3. h[k + 1] \in V
      BY <1>1, <2>2, <3>1, <3>2, InsertType
    <3>. QED
      BY <3>1, <3>3
  <2>3. \A k \in 0 .. n : k \in S
    <3>. HIDE DEF S, n
    <3>. QED
      BY <1>1, <2>1, <2>2, UpTo
  <2>. QED
    BY <2>3
<1>9. h = [k \in 0 .. n |-> h[k]]
  <2>. HIDE DEF h, n
  <2>. QED
    BY <1>6
<1>10. h \in [0 .. n -> V]
  <2>. HIDE DEF h, n, V
  <2>. QED
    BY <1>8, <1>9
<1>11. Inserted(sent, q) = h[n]
  BY DEF Inserted
<1>. QED
  <2>. HIDE DEF h
  <2>. QED
    BY <1>7, <1>10, <1>11

(* What is sent of an ordered queue, and was not sent yet, comes behind    *)
(* what was.                                                               *)
LEMMA InsertedRest ==
  ASSUME NEW q \in Seq(Segments), Ordered(q),
         NEW m \in 0 .. Len(q), NEW n \in m .. Len(q)
  PROVE  Inserted(SubSeq(q, m + 1, n), SubSeq(q, 1, m)) = SubSeq(q, 1, n)
<1>. DEFINE sent == SubSeq(q, m + 1, n)
            una == SubSeq(q, 1, m)
<1>1. /\ Len(q) \in Nat /\ m \in Nat /\ n \in Nat /\ m <= n /\ n <= Len(q)
  OBVIOUS
<1>2. /\ sent \in Seq(Segments) /\ una \in Seq(Segments)
      /\ Len(sent) = n - m /\ \A k \in 1 .. n - m : sent[k] = q[m + k]
  BY <1>1
<1>. HIDE DEF sent
<1>3. PICK f \in [0 .. Len(sent) -> Seq(Segments)] :
        /\ f[0] = una
        /\ \A k \in 1 .. Len(sent) : f[k] = Insert(sent[k], f[k - 1])
        /\ Inserted(sent, una) = f[Len(sent)]
  <2>. HIDE DEF una
  <2>. QED
    BY <1>2, InsertedSteps
<1>. DEFINE S == {k \in 0 .. n - m : f[k] = SubSeq(q, 1, m + k)}
<1>4. 0 \in S
  BY <1>1, <1>3
<1>5. ASSUME NEW k \in 0 .. n - m - 1, k \in S PROVE k + 1 \in S
  <2>1. /\ k + 1 \in 1 .. n - m /\ (k + 1) - 1 = k /\ m + k \in 0 .. Len(q) - 1
        /\ m + (k + 1) = (m + k) + 1 /\ k + 1 \in 0 .. n - m
    BY <1>1
  <2>2. f[k + 1] = Insert(sent[k + 1], f[k])
    BY <1>2, <1>3, <2>1
  <2>3. sent[k + 1] = q[(m + k) + 1]
    BY <1>2, <2>1
  <2>4. f[k] = SubSeq(q, 1, m + k)
    BY <1>5
  <2>5. f[k + 1] = SubSeq(q, 1, (m + k) + 1)
    BY <2>1, <2>2, <2>3, <2>4, InsertNext
  <2>. QED
    BY <2>1, <2>5
<1>6. \A k \in 0 .. n - m : k \in S
  <2>1. n - m \in Nat
    BY <1>1
  <2>. HIDE DEF S
  <2>. QED
    BY <1>4, <1>5, <2>1, UpTo
<1>7. f[n - m] = SubSeq(q, 1, m + (n - m)) /\ m + (n - m) = n
  BY <1>1, <1>6
<1>. QED
  BY <1>2, <1>3, <1>7 DEF sent

(* The same when the head was taken back to be sent again.                 *)
LEMMA InsertedHead ==
  ASSUME NEW q \in Seq(Segments), Ordered(q),
         NEW m \in 1 .. Len(q), NEW n \in m .. Len(q)
  PROVE  Inserted(<<q[1]>> \o SubSeq(q, m + 1, n), SubSeq(q, 2, m)) = SubSeq(q, 1, n)
<1>. DEFINE sent == <<q[1]>> \o SubSeq(q, m + 1, n)
            una == SubSeq(q, 2, m)
            len == n - m
<1>1. /\ Len(q) \in Nat /\ m \in Nat /\ n \in Nat /\ m <= n /\ n <= Len(q) /\ len \in Nat
  OBVIOUS
<1>2. /\ sent \in Seq(Segments) /\ una \in Seq(Segments)
      /\ Len(sent) = len + 1 /\ sent[1] = q[1]
      /\ \A k \in 1 .. len : sent[k + 1] = q[m + k]
  BY <1>1
<1>. HIDE DEF sent
<1>3. PICK f \in [0 .. Len(sent) -> Seq(Segments)] :
        /\ f[0] = una
        /\ \A k \in 1 .. Len(sent) : f[k] = Insert(sent[k], f[k - 1])
        /\ Inserted(sent, una) = f[Len(sent)]
  <2>. HIDE DEF una
  <2>. QED
    BY <1>2, InsertedSteps
<1>. DEFINE S == {k \in 0 .. len : f[k + 1] = SubSeq(q, 1, m + k)}
<1>4. 0 \in S
  <2>1. 1 \in 1 .. Len(sent) /\ 1 - 1 = 0 /\ 0 \in 0 .. len /\ m + 0 = m
    BY <1>1, <1>2
  <2>2. f[1] = Insert(sent[1], f[0])
    BY <1>3, <2>1
  <2>3. f[1] = SubSeq(q, 1, m)
    BY <1>2, <1>3, <2>2, InsertHead
  <2>. QED
    BY <2>1, <2>3
<1>5. ASSUME NEW k \in 0 .. len - 1, k \in S PROVE k + 1 \in S
  <2>1. /\ k + 2 \in 1 .. Len(sent) /\ (k + 2) - 1 = k + 1 /\ m + k \in 0 .. Len(q) - 1
        /\ m + (k + 1) = (m + k) + 1 /\ k + 1 \in 0 .. len /\ k + 1 \in 1 .. len
        /\ (k + 1) + 1 = k + 2
    BY <1>1, <1>2
  <2>2. f[k + 2] = Insert(sent[k + 2], f[k + 1])
    BY <1>3, <2>1
  <2>3. sent[k + 2] = q[(m + k) + 1]
    BY <1>2, <2>1
  <2>4. f[k + 1] = SubSeq(q, 1, m + k)
    BY <1>5
  <2>5. f[k + 2] = SubSeq(q, 1, (m + k) + 1)
    BY <2>1, <2>2, <2>3, <2>4, InsertNext
  <2>. QED
    BY <2>1, <2>5
<1>6. \A k \in 0 .. len : k \in S
  <2>. HIDE DEF S, len
  <2>. QED
    BY <1>1, <1>4, <1>5, UpTo
<1>7. f[len + 1] = SubSeq(q, 1, m + len) /\ m + len = n
  <2>1. len \in S
    <3>1. len \in 0 .. len
      BY <1>1
    <3>. HIDE DEF S, len
    <3>. QED
      BY <1>6, <3>1
  <2>. QED
    BY <1>1, <2>1
<1>. QED
  BY <1>2, <1>3, <1>7 DEF sent

-----------------------------------------------------------------------------
(* tcp_output.                                                             *)

LEMMA SegEndOff ==
  ASSUME NEW p \in Segments \cup Packets
  PROVE  /\ TcpLen(p) \in Nat /\ SegLen(p) \in Nat /\ Off(p.seq) \in Nat
         /\ EndOff(p) \in Nat /\ BytesEnd(p) \in Nat
         /\ EndOff(p) = BytesEnd(p) + (IF p.fin THEN 1 ELSE 0)
         /\ SegEnd(p) \in Seqs
         /\ EndOff(p) <= StreamLen + Wnd + 1 =>
              Near(SegEnd(p)) /\ Near(p.seq) /\ Off(SegEnd(p)) = EndOff(p)
<1>1. p.seq \in Seqs /\ p.bytes \in Seq(Nat) /\ p.fin \in BOOLEAN
  BY DEF Segments, Packets
<1>2. Off(p.seq) \in Nat /\ Off(p.seq) \in Seqs
  BY <1>1, OffType, Constants DEF Seqs
<1>3. TcpLen(p) \in Nat /\ SegLen(p) \in Nat /\ TcpLen(p) = SegLen(p) + (IF p.fin THEN 1 ELSE 0)
  <2>1. Len(p.bytes) \in Nat
    BY <1>1
  <2>2. CASE p.fin
    BY <2>1, <2>2 DEF TcpLen, SegLen
  <2>3. CASE ~p.fin
    BY <2>1, <2>3 DEF TcpLen, SegLen
  <2>. QED
    BY <1>1, <2>2, <2>3
<1>4. EndOff(p) \in Nat /\ BytesEnd(p) \in Nat
  BY <1>2, <1>3 DEF EndOff, BytesEnd
<1>5. EndOff(p) = BytesEnd(p) + (IF p.fin THEN 1 ELSE 0)
  <2>1. CASE p.fin
    BY <1>2, <1>3, <2>1 DEF EndOff, BytesEnd
  <2>2. CASE ~p.fin
    BY <1>2, <1>3, <2>2 DEF EndOff, BytesEnd
  <2>. QED
    BY <2>1, <2>2
<1>6. SegEnd(p) \in Seqs
  <2>1. p.seq + TcpLen(p) \in Int /\ SeqModulus \in Nat \ {0}
    BY <1>1, <1>3, Constants DEF Seqs
  <2>. QED
    BY <2>1, Modulus DEF SegEnd, Plus, Seqs
<1>7. ASSUME EndOff(p) <= StreamLen + Wnd + 1
      PROVE  Near(SegEnd(p)) /\ Near(p.seq) /\ Off(SegEnd(p)) = EndOff(p)
  <2>1. Off(p.seq) + TcpLen(p) < SeqModulus
    BY <1>2, <1>3, <1>7, Constants DEF EndOff
  <2>2. Off(SegEnd(p)) = EndOff(p)
    BY <1>1, <1>3, <2>1, PlusOff DEF SegEnd, EndOff
  <2>3. Off(p.seq) <= StreamLen + Wnd + 1
    BY <1>2, <1>3, <1>7, Constants DEF EndOff
  <2>. QED
    BY <1>1, <1>6, <1>7, <2>2, <2>3 DEF Near
<1>. QED
  BY <1>2, <1>3, <1>4, <1>5, <1>6, <1>7

(* snd_nxt becomes the latest end of what was sent.                        *)
LEMMA LatestIs ==
  ASSUME NEW sent \in Seq(Segments), NEW nxt, Near(nxt),
         \A k \in 1 .. Len(sent) : EndOff(sent[k]) <= StreamLen + Wnd + 1
  PROVE  LET l == Latest(sent, nxt)
         IN  /\ Near(l) /\ Off(nxt) <= Off(l)
             /\ \A k \in 1 .. Len(sent) : EndOff(sent[k]) <= Off(l)
             /\ l = nxt \/ \E k \in 1 .. Len(sent) : Off(l) = EndOff(sent[k])
<1>. DEFINE n == Len(sent)
            Later(k, a) == IF Lt(a, SegEnd(sent[k])) THEN SegEnd(sent[k]) ELSE a
            Rec(f) == f = [k \in 0 .. n |->
                            IF k = 0 THEN nxt
                            ELSE IF Lt(f[k - 1], SegEnd(sent[k])) THEN SegEnd(sent[k])
                                 ELSE f[k - 1]]
            g == [s \in (1 .. n) \X Seqs |-> Later(s[1], s[2])]
            h == CHOOSE f : Rec(f)
<1>1. n \in Nat /\ \A k \in 1 .. n : sent[k] \in Segments
  OBVIOUS
<1>2. ASSUME NEW k \in 1 .. n
      PROVE  /\ SegEnd(sent[k]) \in Seqs /\ Near(SegEnd(sent[k]))
             /\ Off(SegEnd(sent[k])) = EndOff(sent[k]) /\ EndOff(sent[k]) \in Nat
  BY <1>1, SegEndOff
<1>3. g \in Steps(n, Seqs)
  BY <1>2 DEF Steps
<1>4. PICK f \in [0 .. n -> Seqs] : f[0] = nxt /\ \A k \in 1 .. n : f[k] = g[<<k, f[k - 1]>>]
  <2>1. nxt \in Seqs
    BY DEF Near
  <2>. HIDE DEF g, n, Rec, h
  <2>. QED
    BY <1>1, <1>3, <2>1, Recursion
<1>5. ASSUME NEW k \in 1 .. n PROVE f[k] = Later(k, f[k - 1])
  <2>1. k - 1 \in 0 .. n
    BY <1>1
  <2>2. <<k, f[k - 1]>> \in (1 .. n) \X Seqs
    BY <2>1
  <2>3. g[<<k, f[k - 1]>>] = Later(k, f[k - 1])
    BY <2>2
  <2>. QED
    BY <1>4, <2>3
<1>6. Rec(f)
  <2>1. \A k \in 0 .. n : k = 0 \/ k \in 1 .. n
    BY <1>1
  <2>2. \A k \in 1 .. n : k # 0
    BY <1>1
  <2>. HIDE DEF g
  <2>. QED
    BY <1>4, <1>5, <2>1, <2>2
<1>7. Rec(h)
  <2>. HIDE DEF Rec
  <2>. QED
    BY <1>6
<1>8. h[0] = nxt /\ \A k \in 1 .. n : h[k] = Later(k, h[k - 1])
  <2>1. 0 \in 0 .. n /\ \A k \in 1 .. n : k \in 0 .. n /\ k # 0
    BY <1>1
  <2>. HIDE DEF h, n
  <2>. QED
    BY <1>7, <2>1
<1>. DEFINE Is(k) == /\ Near(h[k]) /\ Off(nxt) <= Off(h[k])
                     /\ \A j \in 1 .. k : EndOff(sent[j]) <= Off(h[k])
                     /\ h[k] = nxt \/ \E j \in 1 .. k : Off(h[k]) = EndOff(sent[j])
            S == {k \in 0 .. n : Is(k)}
<1>. HIDE DEF h
<1>9. 0 \in S
  <2>1. Off(nxt) \in Int
    BY OffType DEF Near, Seqs
  <2>. QED
    BY <1>1, <1>8, <2>1
<1>10. ASSUME NEW k \in 0 .. n - 1, k \in S PROVE k + 1 \in S
  <2>1. k + 1 \in 1 .. n /\ (k + 1) - 1 = k /\ k + 1 \in 0 .. n /\ k \in 0 .. n
    BY <1>1
  <2>2. h[k + 1] = Later(k + 1, h[k])
    BY <1>8, <2>1
  <2>3. Is(k)
    BY <1>10
  <2>4. Off(h[k]) \in Int /\ Off(nxt) \in Int
    BY <2>3, OffType DEF Near, Seqs
  <2>. DEFINE e == SegEnd(sent[k + 1])
  <2>5. e \in Seqs /\ Near(e) /\ Off(e) = EndOff(sent[k + 1]) /\ Off(e) \in Nat
    BY <1>2, <2>1
  <2>6. \A j \in 1 .. k + 1 : j = k + 1 \/ j \in 1 .. k
    BY <2>1
  <2>7. \A j \in 1 .. k : j \in 1 .. k + 1 /\ EndOff(sent[j]) \in Nat
    BY <1>1, <1>2
  <2>8. Lt(h[k], e) <=> Off(h[k]) < Off(e)
    BY <2>3, <2>5, LtNear
  <2>. HIDE DEF e
  <2>9. CASE Lt(h[k], e)
    <3>1. h[k + 1] = e
      BY <2>2, <2>9 DEF e
    <3>2. Off(h[k]) < Off(e)
      BY <2>8, <2>9
    <3>3. \A j \in 1 .. k + 1 : EndOff(sent[j]) <= Off(e)
      BY <2>3, <2>4, <2>5, <2>6, <2>7, <3>2
    <3>4. k + 1 \in 1 .. k + 1
      BY <2>1
    <3>5. Is(k + 1)
      BY <2>3, <2>4, <2>5, <3>1, <3>2, <3>3, <3>4
    <3>. QED
      BY <2>1, <3>5
  <2>10. CASE ~Lt(h[k], e)
    <3>1. h[k + 1] = h[k]
      BY <2>2, <2>10 DEF e
    <3>2. Off(e) <= Off(h[k])
      BY <2>4, <2>5, <2>8, <2>10
    <3>3. \A j \in 1 .. k + 1 : EndOff(sent[j]) <= Off(h[k])
      BY <2>3, <2>5, <2>6, <3>2
    <3>4. Is(k + 1)
      BY <2>3, <2>7, <3>1, <3>3
    <3>. QED
      BY <2>1, <3>4
  <2>. QED
    BY <2>9, <2>10
<1>11. Is(n)
  <2>1. \A k \in 0 .. n : k \in S
    <3>. HIDE DEF S, n
    <3>. QED
      BY <1>1, <1>9, <1>10, UpTo
  <2>2. n \in 0 .. n
    BY <1>1
  <2>. QED
    BY <2>1, <2>2
<1>12. Latest(sent, nxt) = h[n]
  BY DEF Latest, h
<1>. QED
  BY <1>11, <1>12

(* What tcp_output does with the first k of what is unsent.                *)
Sending(una, uns, s, k) ==
  [unacked |-> Inserted(SubSeq(uns, 1, k), una),
   unsent |-> SubSeq(uns, k + 1, Len(uns)),
   sent |-> [i \in 1 .. k |-> OnWire(uns[i])],
   snd |-> [s EXCEPT !.nxt = Latest(SubSeq(uns, 1, k), @),
                     !.timed = @ \/ k > 0,
                     !.oversize = IF k = Len(uns) THEN 0 ELSE @,
                     !.memerr = FALSE]]

LEMMA OutputIs ==
  ASSUME NEW una \in Seq(Segments), NEW uns \in Seq(Segments), NEW s \in Senders
  PROVE  \E k \in 0 .. Len(uns) :
           /\ \A i \in 1 .. k : Fits(s, uns[i])
           /\ k < Len(uns) => ~(Fits(s, uns[k + 1]) /\ NagleAllows(una, uns, s, k + 1))
           /\ Output(una, uns, s) = Sending(una, uns, s, k)
<1>. DEFINE S == {i \in DOMAIN uns : Fits(s, uns[i]) /\ NagleAllows(una, uns, s, i)}
            k == Leading(uns, S)
            sent == SubSeq(uns, 1, k)
            rest == SubSeq(uns, k + 1, Len(uns))
<1>1. /\ k \in 0 .. Len(uns) /\ \A i \in 1 .. k : i \in S
      /\ k < Len(uns) => k + 1 \notin S
  <2>. HIDE DEF S
  <2>. QED
    BY LeadingIs
<1>2. Output(una, uns, s) =
        [unacked |-> Inserted(sent, una), unsent |-> rest,
         sent |-> [i \in DOMAIN sent |-> OnWire(sent[i])],
         snd |-> [s EXCEPT !.nxt = Latest(sent, @), !.timed = @ \/ k > 0,
                           !.oversize = IF rest = <<>> THEN 0 ELSE @, !.memerr = FALSE]]
  BY DEF Output
<1>3. Len(uns) \in Nat /\ DOMAIN uns = 1 .. Len(uns)
  OBVIOUS
<1>4. /\ \A i \in 1 .. k : Fits(s, uns[i])
      /\ k < Len(uns) => ~(Fits(s, uns[k + 1]) /\ NagleAllows(una, uns, s, k + 1))
  <2>1. k < Len(uns) => k + 1 \in DOMAIN uns
    <3>. HIDE DEF k
    <3>. QED
      BY <1>1, <1>3
  <2>. HIDE DEF k
  <2>. QED
    BY <1>1, <2>1
<1>. HIDE DEF k
<1>5. DOMAIN sent = 1 .. k /\ \A i \in 1 .. k : sent[i] = uns[i]
  BY <1>1, <1>3
<1>6. [i \in DOMAIN sent |-> OnWire(sent[i])] = [i \in 1 .. k |-> OnWire(uns[i])]
  BY <1>5
<1>7. rest = <<>> <=> k = Len(uns)
  <2>1. CutInTwo(Segments, uns, k, sent, rest)
    BY <1>1, PartsAre
  <2>. HIDE DEF sent, rest, k
  <2>. QED
    BY <2>1 DEF CutInTwo
<1>. HIDE DEF sent, rest
<1>8. [s EXCEPT !.nxt = Latest(sent, @), !.timed = @ \/ k > 0,
                           !.oversize = IF rest = <<>> THEN 0 ELSE @, !.memerr = FALSE] =
      [s EXCEPT !.nxt = Latest(sent, @), !.timed = @ \/ k > 0,
                           !.oversize = IF k = Len(uns) THEN 0 ELSE @, !.memerr = FALSE]
  BY <1>7
<1>9. Output(una, uns, s) = Sending(una, uns, s, k)
  BY <1>2, <1>6, <1>8 DEF Sending, sent, rest
<1>. QED
  BY <1>1, <1>4, <1>9

(* The first m of the queue q are unacked and the rest is unsent, or the   *)
(* first of all was put back to unsent by tcp_rexmit_fast.                 *)
SplitAt(q, m, una, uns, s) ==
  \/ una = SubSeq(q, 1, m) /\ uns = SubSeq(q, m + 1, Len(q))
  \/ /\ m >= 1 /\ una = SubSeq(q, 2, m) /\ uns = <<q[1]>> \o SubSeq(q, m + 1, Len(q))
     /\ Fits(s, q[1]) /\ s.infr

(* Once the first k of uns are sent, the first n of q are unacked.         *)
SentUpTo(q, m, una, uns, k, n) ==
  /\ Inserted(SubSeq(uns, 1, k), una) = SubSeq(q, 1, n)
  /\ SubSeq(uns, k + 1, Len(uns)) = SubSeq(q, n + 1, Len(q))
  /\ k = Len(uns) <=> n = Len(q)
  /\ \A i \in 1 .. k : \E j \in 1 .. n : uns[i] = q[j]
  /\ \A j \in m + 1 .. n : \E i \in 1 .. k : uns[i] = q[j]

LEMMA SentOfRest ==
  ASSUME NEW q \in Seq(Segments), Ordered(q), NEW m \in 0 .. Len(q),
         NEW una, NEW uns, una = SubSeq(q, 1, m), uns = SubSeq(q, m + 1, Len(q)),
         NEW k \in 0 .. Len(uns)
  PROVE  m + k \in m .. Len(q) /\ SentUpTo(q, m, una, uns, k, m + k)
<1>1. Len(q) \in Nat /\ m \in Nat /\ m <= Len(q)
  OBVIOUS
<1>2. /\ uns \in Seq(Segments) /\ Len(uns) = Len(q) - m
      /\ \A i \in 1 .. Len(q) - m : uns[i] = q[m + i]
  BY Parts
<1>3. m + k \in m .. Len(q) /\ k \in Nat /\ k <= Len(uns)
  BY <1>1, <1>2
<1>4. SubSeq(uns, 1, k) = SubSeq(q, m + 1, m + k)
  BY <1>1, <1>2, <1>3
<1>5. SubSeq(uns, k + 1, Len(uns)) = SubSeq(q, (m + k) + 1, Len(q))
  BY <1>1, <1>2, <1>3
<1>6. Inserted(SubSeq(uns, 1, k), una) = SubSeq(q, 1, m + k)
  BY <1>3, <1>4, InsertedRest
<1>7. k = Len(uns) <=> m + k = Len(q)
  BY <1>1, <1>2, <1>3
<1>8. ASSUME NEW i \in 1 .. k PROVE \E j \in 1 .. m + k : uns[i] = q[j]
  <2>1. m + i \in 1 .. m + k /\ i \in 1 .. Len(q) - m
    BY <1>1, <1>2, <1>3
  <2>. QED
    BY <1>2, <2>1
<1>9. ASSUME NEW j \in m + 1 .. m + k PROVE \E i \in 1 .. k : uns[i] = q[j]
  <2>1. j \in Int /\ m + 1 <= j /\ j <= m + k
    BY <1>1, <1>3
  <2>2. j - m \in 1 .. k /\ m + (j - m) = j
    BY <1>1, <1>3, <2>1
  <2>3. j - m \in 1 .. Len(q) - m
    BY <1>1, <1>2, <1>3, <2>2
  <2>. QED
    BY <1>2, <2>2, <2>3
<1>. QED
  BY <1>3, <1>5, <1>6, <1>7, <1>8, <1>9 DEF SentUpTo

LEMMA SentOfHead ==
  ASSUME NEW q \in Seq(Segments), Ordered(q), NEW m \in 1 .. Len(q),
         NEW una, NEW uns, una = SubSeq(q, 2, m),
         uns = <<q[1]>> \o SubSeq(q, m + 1, Len(q)),
         NEW k \in 1 .. Len(uns)
  PROVE  m + (k - 1) \in m .. Len(q) /\ SentUpTo(q, m, una, uns, k, m + (k - 1))
<1>. DEFINE rest == SubSeq(q, m + 1, Len(q))
            n == m + (k - 1)
<1>1. Len(q) \in Nat /\ m \in Nat /\ 1 <= m /\ m <= Len(q) /\ 1 \in 1 .. Len(q)
  OBVIOUS
<1>2. /\ rest \in Seq(Segments) /\ Len(rest) = Len(q) - m
      /\ \A i \in 1 .. Len(q) - m : rest[i] = q[m + i]
  <2>1. m \in 0 .. Len(q)
    BY <1>1
  <2>. QED
    BY ONLY <2>1, Parts
<1>3. q[1] \in Segments /\ <<q[1]>> \in Seq(Segments)
  BY <1>1
<1>. HIDE DEF rest
<1>4. /\ uns \in Seq(Segments) /\ Len(uns) = Len(q) - m + 1
      /\ uns[1] = q[1] /\ \A i \in 1 .. Len(q) - m : uns[i + 1] = q[m + i]
  <2>1. uns = <<q[1]>> \o rest
    BY DEF rest
  <2>2. uns \in Seq(Segments) /\ Len(uns) = 1 + Len(rest)
    BY <1>2, <1>3, <2>1
  <2>. DEFINE a == <<q[1]>>
  <2>3. a \in Seq(Segments) /\ Len(a) = 1 /\ a[1] = q[1]
    BY <1>3
  <2>. HIDE DEF a
  <2>4. \A i \in 1 .. 1 + Len(rest) : (a \o rest)[i] = IF i <= 1 THEN a[i] ELSE rest[i - 1]
    <3>1. \A i \in 1 .. Len(a) + Len(rest) :
            (a \o rest)[i] = IF i <= Len(a) THEN a[i] ELSE rest[i - Len(a)]
      BY <1>2, <2>3, ConcatProperties
    <3>. QED
      BY <2>3, <3>1
  <2>5. Len(rest) \in Nat
    BY <1>2
  <2>6. uns[1] = q[1]
    <3>1. 1 \in 1 .. 1 + Len(rest)
      BY <2>5
    <3>. QED
      BY <2>1, <2>3, <2>4, <3>1 DEF a
  <2>7. ASSUME NEW i \in 1 .. Len(rest) PROVE uns[i + 1] = rest[i]
    <3>1. i + 1 \in 1 .. 1 + Len(rest) /\ ~(i + 1 <= 1) /\ (i + 1) - 1 = i
      BY <2>5
    <3>. QED
      BY <2>1, <2>4, <3>1 DEF a
  <2>. QED
    <3>1. Len(rest) = Len(q) - m /\ Len(q) \in Nat /\ m \in Nat
      BY <1>1, <1>2
    <3>2. Len(uns) = Len(q) - m + 1
      BY <2>2, <3>1
    <3>3. \A i \in 1 .. Len(q) - m : uns[i + 1] = rest[i] /\ rest[i] = q[m + i]
      BY <1>2, <2>7, <3>1
    <3>4. \A i \in 1 .. Len(q) - m : uns[i + 1] = q[m + i]
      BY <3>3
    <3>. QED
      BY <2>2, <2>6, <3>2, <3>4
<1>5. n \in m .. Len(q) /\ k \in Nat /\ k >= 1 /\ k <= Len(uns) /\ n \in Nat
  BY <1>1, <1>4
<1>6. SubSeq(uns, 1, k) = <<q[1]>> \o SubSeq(q, m + 1, n)
  <2>1. SubSeq(uns, 1, k) \in Seq(Segments) /\ Len(SubSeq(uns, 1, k)) = k
    BY <1>4, <1>5
  <2>2. /\ SubSeq(q, m + 1, n) \in Seq(Segments) /\ Len(SubSeq(q, m + 1, n)) = k - 1
        /\ \A i \in 1 .. k - 1 : SubSeq(q, m + 1, n)[i] = q[m + i]
    BY <1>1, <1>5
  <2>. DEFINE b == SubSeq(q, m + 1, n)
  <2>. HIDE DEF b
  <2>3. /\ <<q[1]>> \o b \in Seq(Segments) /\ Len(<<q[1]>> \o b) = k
        /\ (<<q[1]>> \o b)[1] = q[1]
        /\ \A i \in 1 .. k - 1 : (<<q[1]>> \o b)[i + 1] = b[i]
    BY <1>3, <1>5, <2>2 DEF b
  <2>4. ASSUME NEW i \in 1 .. k PROVE SubSeq(uns, 1, k)[i] = (<<q[1]>> \o b)[i]
    <3>1. SubSeq(uns, 1, k)[i] = uns[i]
      BY <1>4, <1>5
    <3>2. CASE i = 1
      BY <1>4, <2>3, <3>1, <3>2
    <3>3. CASE i # 1
      <4>1. i - 1 \in 1 .. k - 1 /\ (i - 1) + 1 = i /\ i - 1 \in 1 .. Len(q) - m
        BY <1>1, <1>4, <1>5, <3>3
      <4>2. uns[i] = q[m + (i - 1)]
        BY <1>4, <4>1
      <4>3. (<<q[1]>> \o b)[i] = b[i - 1]
        BY <2>3, <4>1
      <4>4. b[i - 1] = q[m + (i - 1)]
        BY <2>2, <4>1 DEF b
      <4>. QED
        BY <3>1, <4>2, <4>3, <4>4
    <3>. QED
      BY <3>2, <3>3
  <2>5. SubSeq(uns, 1, k) = <<q[1]>> \o b
    BY <2>1, <2>3, <2>4, SeqEqual
  <2>. QED
    BY <2>5 DEF b
<1>7. SubSeq(uns, k + 1, Len(uns)) = SubSeq(q, n + 1, Len(q))
  <2>1. /\ SubSeq(uns, k + 1, Len(uns)) \in Seq(Segments)
        /\ Len(SubSeq(uns, k + 1, Len(uns))) = Len(uns) - k
        /\ \A i \in 1 .. Len(uns) - k : SubSeq(uns, k + 1, Len(uns))[i] = uns[k + i]
    <3>1. k \in 0 .. Len(uns)
      BY <1>5
    <3>. QED
      BY <1>4, <3>1, Parts
  <2>2. /\ SubSeq(q, n + 1, Len(q)) \in Seq(Segments)
        /\ Len(SubSeq(q, n + 1, Len(q))) = Len(q) - n
        /\ \A i \in 1 .. Len(q) - n : SubSeq(q, n + 1, Len(q))[i] = q[n + i]
    <3>1. n \in 0 .. Len(q)
      BY <1>1, <1>5
    <3>. HIDE DEF n
    <3>. QED
      BY <3>1, Parts
  <2>3. Len(uns) - k = Len(q) - n
    BY <1>1, <1>4, <1>5
  <2>4. ASSUME NEW i \in 1 .. Len(uns) - k PROVE uns[k + i] = q[n + i]
    <3>1. (k - 1) + i \in 1 .. Len(q) - m /\ ((k - 1) + i) + 1 = k + i
          /\ m + ((k - 1) + i) = n + i
      BY <1>1, <1>4, <1>5
    <3>. QED
      BY <1>4, <3>1
  <2>. DEFINE a == SubSeq(uns, k + 1, Len(uns))
              b == SubSeq(q, n + 1, Len(q))
  <2>5. Len(a) = Len(b) /\ \A i \in 1 .. Len(a) : a[i] = b[i]
    BY <2>1, <2>2, <2>3, <2>4
  <2>6. a \in Seq(Segments) /\ b \in Seq(Segments)
    BY <2>1, <2>2
  <2>. HIDE DEF a, b, n
  <2>7. a = b
    BY <2>5, <2>6, SeqEqual
  <2>. QED
    BY <2>7 DEF a, b
<1>8. Inserted(SubSeq(uns, 1, k), una) = SubSeq(q, 1, n)
  <2>. HIDE DEF n
  <2>. QED
    BY <1>5, <1>6, InsertedHead
<1>9. k = Len(uns) <=> n = Len(q)
  BY <1>1, <1>4, <1>5
<1>10. ASSUME NEW i \in 1 .. k PROVE \E j \in 1 .. n : uns[i] = q[j]
  <2>1. CASE i = 1
    <3>1. 1 \in 1 .. n
      BY <1>1, <1>5
    <3>. QED
      BY <1>4, <2>1, <3>1
  <2>2. CASE i # 1
    <3>1. i - 1 \in 1 .. Len(q) - m /\ (i - 1) + 1 = i /\ m + (i - 1) \in 1 .. n
      BY <1>1, <1>4, <1>5, <2>2
    <3>2. uns[i] = q[m + (i - 1)]
      BY <1>4, <3>1
    <3>. QED
      BY <3>1, <3>2
  <2>. QED
    BY <2>1, <2>2
<1>11. ASSUME NEW j \in m + 1 .. n PROVE \E i \in 1 .. k : uns[i] = q[j]
  <2>1. j - m \in 1 .. Len(q) - m /\ m + (j - m) = j /\ (j - m) + 1 \in 1 .. k
    BY <1>1, <1>4, <1>5
  <2>2. uns[(j - m) + 1] = q[j]
    BY <1>4, <2>1
  <2>. QED
    BY <2>1, <2>2
<1>. QED
  BY <1>5, <1>7, <1>8, <1>9, <1>10, <1>11 DEF SentUpTo

(* What a window allows ends within it, and what begins before the last    *)
(* acknowledged byte and ends within the window is allowed.                *)
LEMMA FitsOff ==
  ASSUME NEW p \in Segments, NEW s \in Senders,
         EndOff(p) <= StreamLen + 1, Off(s.lastack) <= StreamLen + 1
  PROVE  /\ Fits(s, p) => BytesEnd(p) <= Off(s.lastack) + s.wnd
         /\ /\ Off(p.seq) <= Off(s.lastack) /\ Off(s.lastack) <= BytesEnd(p)
            /\ BytesEnd(p) <= Off(s.lastack) + s.wnd
            /\ SegLen(p) <= s.cwnd
            => Fits(s, p)
<1>. DEFINE a == Off(p.seq)
            l == Off(s.lastack)
            n == SegLen(p)
            d == Minus(p.seq, s.lastack)
            x == d + n
<1>1. /\ p.seq \in Seqs /\ s.lastack \in Seqs /\ s.wnd \in 0 .. Wnd /\ s.cwnd \in 0 .. Wnd
      /\ n \in Nat /\ a \in Seqs /\ l \in Seqs /\ a + n = BytesEnd(p)
      /\ a + n <= StreamLen + 1
  <2>1. p \in Segments \cup Packets
    OBVIOUS
  <2>2. p.seq \in Seqs /\ s.lastack \in Seqs /\ s.wnd \in 0 .. Wnd /\ s.cwnd \in 0 .. Wnd
    BY DEF Segments, Senders
  <2>3. n \in Nat /\ a \in Seqs /\ l \in Seqs
    BY <2>1, <2>2, SegEndOff, OffType
  <2>4. BytesEnd(p) <= EndOff(p) /\ EndOff(p) \in Nat /\ BytesEnd(p) \in Nat
    BY <2>1, SegEndOff
  <2>5. a + n = BytesEnd(p)
    BY DEF BytesEnd
  <2>. HIDE DEF a, l, n
  <2>. QED
    BY <2>2, <2>3, <2>4, <2>5, Constants
<1>2. d = IF a >= l THEN a - l ELSE a - l + SeqModulus
  BY <1>1, MinusOff
<1>3. Fits(s, p) <=> x % SeqModulus <= MinOf(s.wnd, s.cwnd)
  BY DEF Fits, Plus
<1>. HIDE DEF a, l, n, d
<1>4. x \in Int /\ -SeqModulus <= x /\ x < 2 * SeqModulus
  BY <1>1, <1>2, Constants DEF Seqs
<1>5. x % SeqModulus = IF x < 0 THEN x + SeqModulus
                       ELSE IF x < SeqModulus THEN x ELSE x - SeqModulus
  <2>. HIDE DEF x
  <2>. QED
    BY <1>4, Wrapped
<1>6. a >= l => x % SeqModulus = a + n - l
  BY <1>1, <1>2, <1>5, Constants DEF Seqs
<1>7. a < l /\ a + n >= l => x % SeqModulus = a + n - l
  BY <1>1, <1>2, <1>5, Constants DEF Seqs
<1>8. MinOf(s.wnd, s.cwnd) <= s.wnd
  BY <1>1, Constants DEF MinOf
<1>9. ASSUME Fits(s, p) PROVE a + n <= l + s.wnd
  <2>1. x % SeqModulus <= MinOf(s.wnd, s.cwnd)
    BY <1>3, <1>9
  <2>. DEFINE y == x % SeqModulus
              z == MinOf(s.wnd, s.cwnd)
  <2>2. z \in Int
    BY <1>1, Constants DEF MinOf
  <2>. HIDE DEF y, x, z
  <2>3. a + n >= l => y = a + n - l
    BY <1>1, <1>6, <1>7 DEF Seqs, y
  <2>4. y <= z /\ z <= s.wnd
    BY <1>8, <2>1 DEF y, z
  <2>. QED
    BY <1>1, <2>2, <2>3, <2>4, Constants DEF Seqs
<1>10. ASSUME a <= l, l <= a + n, a + n <= l + s.wnd, n <= s.cwnd PROVE Fits(s, p)
  <2>1. x % SeqModulus = a + n - l
    BY <1>1, <1>6, <1>7, <1>10 DEF Seqs
  <2>2. a + n - l <= MinOf(s.wnd, s.cwnd)
    BY <1>1, <1>10, Constants DEF MinOf, Seqs
  <2>. QED
    BY <1>3, <2>1, <2>2
<1>. QED
  BY <1>1, <1>9, <1>10 DEF a, l, n

(* The queues are in order, and end in the stream or with the FIN.         *)
LEMMA QueueOrdered ==
  ASSUME NEW q \in Seq(Segments), NEW n, NEW s \in Senders, NEW w \in 0 .. StreamLen,
         QueueInv(q, n, s, w)
  PROVE  /\ Ordered(q)
         /\ Fin(s) \in {0, 1}
         /\ \A i \in 1 .. Len(q) :
              /\ EndOff(q[i]) <= w + Fin(s) /\ Off(q[i].seq) < EndOff(q[i])
              /\ BytesEnd(q[i]) <= EndOff(q[i]) /\ EndOff(q[i]) <= BytesEnd(q[i]) + 1
              /\ Off(q[i].seq) \in Nat /\ EndOff(q[i]) \in Nat /\ BytesEnd(q[i]) \in Nat
              /\ SegEnd(q[i]) \in Seqs /\ Near(SegEnd(q[i]))
              /\ Off(SegEnd(q[i])) = EndOff(q[i])
<1>1. Fin(s) \in {0, 1}
  BY DEF Fin
<1>2. ASSUME NEW i \in 1 .. Len(q)
      PROVE  /\ EndOff(q[i]) <= w + Fin(s) /\ Off(q[i].seq) < EndOff(q[i])
             /\ BytesEnd(q[i]) <= EndOff(q[i]) /\ EndOff(q[i]) <= BytesEnd(q[i]) + 1
             /\ Off(q[i].seq) \in Nat /\ EndOff(q[i]) \in Nat /\ BytesEnd(q[i]) \in Nat
             /\ Near(q[i].seq) /\ SegEnd(q[i]) \in Seqs /\ Near(SegEnd(q[i]))
             /\ Off(SegEnd(q[i])) = EndOff(q[i])
  <2>1. q[i] \in Segments \cup Packets
    OBVIOUS
  <2>. DEFINE p == q[i]
  <2>2. Holds(p, s, w)
    BY DEF QueueInv
  <2>. HIDE DEF p
  <2>3. p \in Segments \cup Packets
    BY <2>1 DEF p
  <2>4. BytesEnd(p) <= w /\ (p.fin => s.fin) /\ TcpLen(p) >= 1
    BY <2>2 DEF Holds
  <2>5. /\ TcpLen(p) \in Nat /\ Off(p.seq) \in Nat /\ EndOff(p) \in Nat /\ BytesEnd(p) \in Nat
        /\ EndOff(p) = BytesEnd(p) + (IF p.fin THEN 1 ELSE 0) /\ SegEnd(p) \in Seqs
        /\ EndOff(p) <= StreamLen + Wnd + 1 =>
             Near(SegEnd(p)) /\ Near(p.seq) /\ Off(SegEnd(p)) = EndOff(p)
    BY <2>3, SegEndOff
  <2>6. EndOff(p) <= w + Fin(s)
    BY <2>4, <2>5, Constants DEF Fin
  <2>7. EndOff(p) <= StreamLen + Wnd + 1
    BY <1>1, <2>5, <2>6, Constants
  <2>8. Off(p.seq) < EndOff(p)
    BY <2>4, <2>5 DEF EndOff
  <2>9. BytesEnd(p) <= EndOff(p) /\ EndOff(p) <= BytesEnd(p) + 1
    BY <2>5
  <2>. QED
    BY <2>5, <2>6, <2>7, <2>8, <2>9 DEF p
<1>3. ASSUME NEW i \in 1 .. Len(q), NEW j \in 1 .. Len(q), i < j
      PROVE  Off(q[i].seq) < Off(q[j].seq)
  <2>1. EndOff(q[i]) <= Off(q[j].seq)
    BY <1>3 DEF QueueInv, Chain
  <2>. QED
    BY <1>2, <2>1
<1>. QED
  BY <1>1, <1>2, <1>3 DEF Ordered

(* A sender moves on: nothing that was acknowledged or sent is forgotten,  *)
(* and nothing is written behind the FIN.                                  *)
Later(s, w, t, v) ==
  /\ Off(s.nxt) <= Off(t.nxt) /\ Off(s.lastack) <= Off(t.lastack) /\ w <= v
  /\ s.fin => t.fin /\ v = w

LEMMA SenderType ==
  ASSUME NEW s \in Senders
  PROVE  /\ s.nxt \in Seqs /\ s.lastack \in Seqs /\ s.wl2 \in Seqs /\ s.lbb \in Seqs
         /\ s.wnd \in 0 .. Wnd /\ s.wnd \in Nat /\ s.wnd <= Wnd
         /\ s.cwnd \in 0 .. Wnd /\ s.cwnd \in Nat /\ s.cwnd <= Wnd
         /\ s.ssthresh \in 0 .. Wnd /\ s.ssthresh \in Nat /\ s.ssthresh <= Wnd
         /\ s.mss \in Msses /\ s.mss \in Nat /\ 1 <= s.mss /\ 2 * s.mss <= Wnd
         /\ s.oversize \in Int /\ s.queuelen \in Int /\ s.buf \in Int
         /\ s.fin \in BOOLEAN /\ s.infr \in BOOLEAN /\ s.timed \in BOOLEAN
         /\ s.memerr \in BOOLEAN /\ s.persist \in BOOLEAN
         /\ s.dupacks \in Nat /\ s.nrtx \in Int /\ s.state \in States
         /\ Off(s.nxt) \in Nat /\ Off(s.lastack) \in Nat /\ Off(s.wl2) \in Nat
         /\ Off(s.lbb) \in Nat /\ Fin(s) \in {0, 1}
<1>1. /\ s.nxt \in Seqs /\ s.lastack \in Seqs /\ s.wl2 \in Seqs /\ s.lbb \in Seqs
      /\ s.wnd \in 0 .. Wnd /\ s.cwnd \in 0 .. Wnd /\ s.ssthresh \in 0 .. Wnd
      /\ s.mss \in Msses
  BY DEF Senders
<1>2. /\ s.oversize \in Int /\ s.queuelen \in Int /\ s.buf \in Int
      /\ s.fin \in BOOLEAN /\ s.infr \in BOOLEAN /\ s.timed \in BOOLEAN
      /\ s.memerr \in BOOLEAN /\ s.persist \in BOOLEAN
      /\ s.dupacks \in Nat /\ s.nrtx \in Int /\ s.state \in States
  BY DEF Senders
<1>3. /\ s.wnd \in Nat /\ s.wnd <= Wnd /\ s.cwnd \in Nat /\ s.cwnd <= Wnd
      /\ s.ssthresh \in Nat /\ s.ssthresh <= Wnd
  BY <1>1, Constants
<1>4. s.mss \in Nat /\ 1 <= s.mss /\ 2 * s.mss <= Wnd
  <2>1. s.mss \in 1 .. Wnd \div 2
    BY <1>1, SizeAssumption
  <2>. DEFINE h == Wnd \div 2
  <2>2. h \in Int /\ 2 * h <= Wnd
    BY Constants
  <2>. HIDE DEF h
  <2>3. s.mss \in 1 .. h
    BY <2>1 DEF h
  <2>. QED
    BY <2>2, <2>3, Constants
<1>5. /\ Off(s.nxt) \in Nat /\ Off(s.lastack) \in Nat /\ Off(s.wl2) \in Nat
      /\ Off(s.lbb) \in Nat
  BY <1>1, OffType, Constants DEF Seqs
<1>6. Fin(s) \in {0, 1}
  BY DEF Fin
<1>. QED
  BY <1>1, <1>2, <1>3, <1>4, <1>5, <1>6

(* tcp_output keeps the queues whole, and what it sends is part of the     *)
(* stream and within the window.                                           *)
OutputKept(o, q, m, s, w, r) ==
  /\ \E n \in m .. Len(q) :
       /\ o.unacked = SubSeq(q, 1, n) /\ o.unsent = SubSeq(q, n + 1, Len(q))
       /\ QueueInv(q, n, o.snd, w)
  /\ o.snd \in Senders /\ SenderInv(o.snd, w, r) /\ Later(s, w, o.snd, w)
  /\ o.snd.state = s.state /\ o.snd.fin = s.fin /\ o.snd.lastack = s.lastack
  /\ o.snd.wnd = s.wnd /\ o.snd.wl2 = s.wl2
  /\ o.sent \in Seq(Packets)
  /\ \A i \in 1 .. Len(o.sent) : PacketInv(o.sent[i], o.snd, w, r)

LEMMA OutputKeeps ==
  ASSUME NEW q \in Seq(Segments), NEW m \in 0 .. Len(q), NEW una, NEW uns,
         NEW s \in Senders, NEW w \in 0 .. StreamLen, NEW r \in Receivers,
         SplitAt(q, m, una, uns, s), QueueInv(q, m, s, w), SenderInv(s, w, r)
  PROVE  OutputKept(Output(una, uns, s), q, m, s, w, r)
<1>. DEFINE o == Output(una, uns, s)
<1>1. /\ Ordered(q) /\ Fin(s) \in {0, 1}
      /\ \A i \in 1 .. Len(q) :
              /\ EndOff(q[i]) <= w + Fin(s) /\ Off(q[i].seq) < EndOff(q[i])
              /\ BytesEnd(q[i]) <= EndOff(q[i]) /\ EndOff(q[i]) <= BytesEnd(q[i]) + 1
              /\ Off(q[i].seq) \in Nat /\ EndOff(q[i]) \in Nat /\ BytesEnd(q[i]) \in Nat
  BY QueueOrdered
<1>2. una \in Seq(Segments) /\ uns \in Seq(Segments)
  <2>1. CASE una = SubSeq(q, 1, m) /\ uns = SubSeq(q, m + 1, Len(q))
    BY <2>1, Parts
  <2>2. CASE m >= 1 /\ una = SubSeq(q, 2, m) /\ uns = <<q[1]>> \o SubSeq(q, m + 1, Len(q))
    <3>1. q[1] \in Segments /\ SubSeq(q, m + 1, Len(q)) \in Seq(Segments)
      BY <2>2, Parts
    <3>2. una \in Seq(Segments)
      BY <2>2
    <3>. QED
      BY <2>2, <3>1, <3>2
  <2>. QED
    BY <2>1, <2>2 DEF SplitAt
<1>3. PICK k \in 0 .. Len(uns) :
           /\ \A i \in 1 .. k : Fits(s, uns[i])
           /\ k < Len(uns) => ~(Fits(s, uns[k + 1]) /\ NagleAllows(una, uns, s, k + 1))
           /\ o = Sending(una, uns, s, k)
  <2>. HIDE DEF o
  <2>. QED
    BY <1>2, OutputIs DEF o
<1>4. \E n \in m .. Len(q) : SentUpTo(q, m, una, uns, k, n)
  <2>1. CASE una = SubSeq(q, 1, m) /\ uns = SubSeq(q, m + 1, Len(q))
    BY <1>1, <2>1, SentOfRest
  <2>2. CASE /\ m >= 1 /\ una = SubSeq(q, 2, m) /\ uns = <<q[1]>> \o SubSeq(q, m + 1, Len(q))
             /\ Fits(s, q[1]) /\ s.infr
    <3>1. m \in 1 .. Len(q)
      BY <2>2
    <3>2. uns[1] = q[1] /\ Len(uns) >= 1 /\ Len(uns) \in Nat
      <4>1. q[1] \in Segments /\ SubSeq(q, m + 1, Len(q)) \in Seq(Segments)
        BY <2>2, Parts
      <4>. QED
        BY <2>2, <4>1
    <3>3. k # 0
      <4>1. NagleAllows(una, uns, s, 1)
        BY <2>2 DEF NagleAllows
      <4>. QED
        BY <1>3, <2>2, <3>2, <4>1
    <3>4. k \in 1 .. Len(uns)
      BY <1>3, <3>3
    <3>. QED
      BY <1>1, <2>2, <3>1, <3>4, SentOfHead
  <2>. QED
    BY <2>1, <2>2 DEF SplitAt
<1>5. PICK n \in m .. Len(q) : SentUpTo(q, m, una, uns, k, n)
  BY <1>4
<1>6. /\ Len(q) \in Nat /\ m \in Nat /\ n \in Nat /\ m <= n /\ n <= Len(q)
      /\ k \in Nat /\ k <= Len(uns)
  BY <1>2, <1>3
<1>7. /\ s.nxt \in Seqs /\ s.lastack \in Seqs /\ Off(s.nxt) \in Nat /\ Off(s.lastack) \in Nat
      /\ Off(s.nxt) <= w + Fin(s) /\ Off(s.lastack) <= Off(s.nxt)
      /\ Off(s.lastack) <= StreamLen + 1 /\ Near(s.nxt)
  <2>1. /\ s.nxt \in Seqs /\ s.lastack \in Seqs /\ Off(s.nxt) \in Nat /\ Off(s.lastack) \in Nat
    BY SenderType
  <2>2. Off(s.nxt) <= w + Fin(s) /\ Off(s.lastack) <= Off(s.nxt)
    BY DEF SenderInv
  <2>3. w \in Int /\ w <= StreamLen
    BY Constants
  <2>. QED
    BY <1>1, <2>1, <2>2, <2>3, Constants DEF Near
<1>. DEFINE sent == SubSeq(uns, 1, k)
            l == Latest(sent, s.nxt)
<1>8. sent \in Seq(Segments) /\ Len(sent) = k /\ \A i \in 1 .. k : sent[i] = uns[i]
  BY <1>2, <1>6, Parts
<1>9. ASSUME NEW i \in 1 .. k
      PROVE  \E j \in 1 .. n : uns[i] = q[j] /\ j \in 1 .. Len(q)
  <2>1. PICK j \in 1 .. n : uns[i] = q[j]
    BY <1>5 DEF SentUpTo
  <2>2. j \in 1 .. Len(q)
    BY <1>6
  <2>. QED
    BY <2>1, <2>2
<1>10. /\ Near(l) /\ Off(s.nxt) <= Off(l)
       /\ \A i \in 1 .. k : EndOff(sent[i]) <= Off(l)
       /\ l = s.nxt \/ \E i \in 1 .. k : Off(l) = EndOff(sent[i])
  <2>1. ASSUME NEW i \in 1 .. k PROVE EndOff(sent[i]) <= StreamLen + Wnd + 1
    <3>1. PICK j \in 1 .. Len(q) : sent[i] = q[j]
      BY <1>8, <1>9
    <3>. QED
      BY <1>1, <3>1, Constants
  <2>. HIDE DEF sent
  <2>. QED
    BY <1>7, <1>8, <2>1, LatestIs
<1>. HIDE DEF o, sent, l
<1>. DEFINE b == s.timed \/ k > 0
            x == IF n = Len(q) THEN 0 ELSE s.oversize
<1>11. /\ o.unacked = SubSeq(q, 1, n) /\ o.unsent = SubSeq(q, n + 1, Len(q))
       /\ o.sent = [i \in 1 .. k |-> OnWire(uns[i])]
       /\ o.snd = [s EXCEPT !.nxt = l, !.timed = b, !.oversize = x, !.memerr = FALSE]
  <2>. DEFINE y == IF k = Len(uns) THEN 0 ELSE s.oversize
  <2>1. y = x
    BY <1>5 DEF SentUpTo
  <2>2. o.snd = [s EXCEPT !.nxt = l, !.timed = b, !.oversize = y, !.memerr = FALSE]
    BY <1>3 DEF Sending, sent, l
  <2>3. /\ o.unacked = Inserted(sent, una) /\ o.unsent = SubSeq(uns, k + 1, Len(uns))
        /\ o.sent = [i \in 1 .. k |-> OnWire(uns[i])]
    BY <1>3 DEF Sending, sent
  <2>4. o.unacked = SubSeq(q, 1, n) /\ o.unsent = SubSeq(q, n + 1, Len(q))
    BY <1>5, <2>3 DEF SentUpTo, sent
  <2>. HIDE DEF y, x, b
  <2>. QED
    BY <2>1, <2>2, <2>3, <2>4
<1>. DEFINE t == o.snd
<1>12. /\ t.nxt = l /\ t.oversize = (IF n = Len(q) THEN 0 ELSE s.oversize)
       /\ t.state = s.state /\ t.lastack = s.lastack /\ t.lbb = s.lbb /\ t.buf = s.buf
       /\ t.queuelen = s.queuelen /\ t.wnd = s.wnd /\ t.wl2 = s.wl2 /\ t.mss = s.mss
       /\ t.cwnd = s.cwnd /\ t.ssthresh = s.ssthresh /\ t.fin = s.fin
       /\ t \in Senders
  <2>1. l \in Seqs /\ b \in BOOLEAN /\ x \in Int
    BY <1>10, SenderType DEF Near
  <2>2. t = [s EXCEPT !.nxt = l, !.timed = b, !.oversize = x, !.memerr = FALSE]
    BY <1>11
  <2>. HIDE DEF t, b
  <2>3. /\ t \in Senders
        /\ t.nxt = l /\ t.oversize = x
        /\ t.state = s.state /\ t.lastack = s.lastack /\ t.lbb = s.lbb /\ t.buf = s.buf
        /\ t.queuelen = s.queuelen /\ t.wnd = s.wnd /\ t.wl2 = s.wl2 /\ t.mss = s.mss
        /\ t.cwnd = s.cwnd /\ t.ssthresh = s.ssthresh /\ t.fin = s.fin
    <3>. HIDE DEF x
    <3>. QED
      BY <2>1, <2>2 DEF Senders
  <2>. QED
    BY <2>3
<1>. HIDE DEF t
<1>13. Off(l) \in Nat /\ Off(l) <= w + Fin(s)
  <2>1. Off(l) \in Nat
    BY <1>10, OffType, Constants DEF Near, Seqs
  <2>2. CASE l = s.nxt
    BY <1>7, <2>1, <2>2
  <2>3. ASSUME NEW i \in 1 .. k, Off(l) = EndOff(sent[i]) PROVE Off(l) <= w + Fin(s)
    <3>1. PICK j \in 1 .. Len(q) : sent[i] = q[j]
      BY <1>8, <1>9
    <3>. QED
      BY <1>1, <2>3, <3>1
  <2>. QED
    BY <1>10, <2>1, <2>2, <2>3
<1>14. SenderInv(t, w, r) /\ Later(s, w, t, w) /\ Fin(t) = Fin(s)
  <2>1. Fin(t) = Fin(s)
    BY <1>12 DEF Fin
  <2>2. t.oversize >= 0
    BY <1>12, SenderType DEF SenderInv
  <2>3. Off(t.lastack) <= Off(t.nxt) /\ Off(t.nxt) <= w + Fin(t)
    BY <1>7, <1>10, <1>12, <1>13, <2>1
  <2>4. SenderInv(t, w, r)
    BY <1>12, <2>1, <2>2, <2>3 DEF SenderInv
  <2>. QED
    BY <1>7, <1>10, <1>12, <2>1, <2>4 DEF Later
<1>15. ASSUME NEW j \in 1 .. n
       PROVE  EndOff(q[j]) <= Off(l) /\ BytesEnd(q[j]) <= Off(s.lastack) + s.wnd
  <2>0. j \in 1 .. Len(q) /\ j \in Nat
    BY <1>6
  <2>1. CASE j \in 1 .. m
    <3>1. EndOff(q[j]) <= Off(s.nxt) /\ BytesEnd(q[j]) <= Off(s.lastack) + s.wnd
      BY <2>1 DEF QueueInv
    <3>. QED
      BY <1>1, <1>7, <1>10, <1>13, <2>0, <3>1
  <2>2. CASE j \in m + 1 .. n
    <3>1. PICK i \in 1 .. k : uns[i] = q[j]
      BY <1>5, <2>2 DEF SentUpTo
    <3>2. EndOff(q[j]) <= Off(l)
      BY <1>8, <1>10, <3>1
    <3>3. Fits(s, q[j])
      BY <1>3, <3>1
    <3>4. q[j] \in Segments /\ EndOff(q[j]) <= StreamLen + 1
      <4>1. q[j] \in Segments
        BY <2>0
      <4>2. EndOff(q[j]) \in Nat /\ EndOff(q[j]) <= w + Fin(s)
        BY <1>1, <2>0
      <4>. QED
        BY <1>1, <4>1, <4>2, Constants
    <3>5. BytesEnd(q[j]) <= Off(s.lastack) + s.wnd
      BY <1>7, <3>3, <3>4, FitsOff
    <3>. QED
      BY <3>2, <3>5
  <2>3. j \in 1 .. m \/ j \in m + 1 .. n
    BY <1>6, <2>0
  <2>. QED
    BY <2>1, <2>2, <2>3
<1>16. QueueInv(q, n, t, w)
  <2>1. \A i \in 1 .. Len(q) : Holds(q[i], t, w) /\ SegLen(q[i]) <= t.mss
    BY <1>12 DEF QueueInv, Holds
  <2>2. \A i \in 1 .. n : /\ EndOff(q[i]) <= Off(t.nxt)
                          /\ BytesEnd(q[i]) <= Off(t.lastack) + t.wnd
    BY <1>12, <1>15
  <2>3. n < Len(q) => SegLen(q[Len(q)]) + t.oversize <= t.mss
    <3>1. n < Len(q) => m < Len(q) /\ n # Len(q)
      BY <1>6
    <3>. QED
      BY <1>12, <3>1 DEF QueueInv
  <2>4. n = Len(q) => t.oversize = 0
    BY <1>12
  <2>. QED
    BY <1>12, <1>14, <2>1, <2>2, <2>3, <2>4 DEF QueueInv
<1>17. o.sent \in Seq(Packets) /\ Len(o.sent) = k /\ \A i \in 1 .. k : o.sent[i] = OnWire(uns[i])
  <2>1. ASSUME NEW i \in 1 .. k PROVE OnWire(uns[i]) \in Packets
    <3>1. uns[i] \in Segments
      BY <1>2, <1>6
    <3>. QED
      BY <3>1 DEF OnWire, Segments, Packets
  <2>. DEFINE f == [i \in 1 .. k |-> OnWire(uns[i])]
  <2>2. f \in [1 .. k -> Packets]
    BY <2>1
  <2>3. \A i \in 1 .. k : f[i] = OnWire(uns[i])
    OBVIOUS
  <2>4. o.sent = f
    BY <1>11
  <2>. HIDE DEF f
  <2>5. f \in Seq(Packets) /\ Len(f) = k
    BY <1>6, <2>2
  <2>. QED
    BY <2>3, <2>4, <2>5
<1>18. ASSUME NEW i \in 1 .. k PROVE PacketInv(o.sent[i], t, w, r)
  <2>1. PICK j \in 1 .. n : uns[i] = q[j] /\ j \in 1 .. Len(q)
    BY <1>9
  <2>. DEFINE p == OnWire(q[j])
              e == q[j]
  <2>2. p.seq = e.seq /\ p.bytes = e.bytes /\ p.fin = e.fin
    BY DEF OnWire
  <2>3. /\ SegLen(p) = SegLen(e) /\ TcpLen(p) = TcpLen(e)
        /\ EndOff(p) = EndOff(e) /\ BytesEnd(p) = BytesEnd(e)
    BY <2>2 DEF SegLen, TcpLen, EndOff, BytesEnd
  <2>4. Holds(e, t, w)
    BY <1>16, <2>1 DEF QueueInv
  <2>5. Holds(p, t, w)
    BY <2>2, <2>3, <2>4 DEF Holds
  <2>6. EndOff(p) <= Reach(t)
    <3>1. EndOff(e) <= Off(t.nxt) /\ EndOff(e) \in Nat
      BY <1>1, <1>12, <1>15, <2>1
    <3>. HIDE DEF e, p
    <3>. QED
      BY <1>7, <1>12, <1>13, <2>3, <3>1 DEF Reach, MaxOf
  <2>7. BytesEnd(p) <= Off(r.edge)
    <3>1. BytesEnd(e) <= Off(s.lastack) + s.wnd /\ BytesEnd(e) \in Nat
      BY <1>1, <1>15, <2>1
    <3>2. Off(s.lastack) <= Off(s.wl2) /\ Off(s.wl2) + s.wnd <= Off(r.edge)
      BY DEF SenderInv
    <3>3. Off(s.wl2) \in Nat /\ s.wnd \in Nat /\ Off(r.edge) \in Int
      <4>1. r.edge \in Seqs
        BY DEF Receivers
      <4>. QED
        BY <4>1, SenderType, OffType DEF Seqs
    <3>. HIDE DEF e, p
    <3>. QED
      BY <1>7, <2>3, <3>1, <3>2, <3>3
  <2>8. PacketInv(p, t, w, r)
    BY <2>5, <2>6, <2>7 DEF PacketInv
  <2>. QED
    BY <1>17, <2>1, <2>8
<1>. QED
  BY <1>5, <1>11, <1>12, <1>14, <1>16, <1>17, <1>18 DEF OutputKept, o, t

-----------------------------------------------------------------------------
(* What the invariant keeps when one end moves on.                         *)

LEMMA ReceiverType ==
  ASSUME NEW r \in Receivers
  PROVE  /\ r.nxt \in Seqs /\ r.edge \in Seqs
         /\ Off(r.nxt) \in Nat /\ Off(r.edge) \in Nat
         /\ r.wnd \in 0 .. Wnd /\ r.wnd \in Nat /\ r.wnd <= Wnd
         /\ r.ann \in 0 .. Wnd /\ r.ann \in Nat /\ r.ann <= Wnd
         /\ r.mss \in Msses /\ r.mss \in Nat /\ 2 * r.mss <= Wnd
         /\ r.delayed \in BOOLEAN /\ r.ended \in BOOLEAN /\ r.unread \in Nat
<1>1. /\ r.nxt \in Seqs /\ r.edge \in Seqs /\ r.wnd \in 0 .. Wnd /\ r.ann \in 0 .. Wnd
      /\ r.mss \in Msses /\ r.delayed \in BOOLEAN /\ r.ended \in BOOLEAN /\ r.unread \in Nat
  BY DEF Receivers
<1>2. r.wnd \in Nat /\ r.wnd <= Wnd /\ r.ann \in Nat /\ r.ann <= Wnd
  BY <1>1, Constants
<1>3. Off(r.nxt) \in Nat /\ Off(r.edge) \in Nat
  BY <1>1, OffType, Constants DEF Seqs
<1>4. r.mss \in Nat /\ 2 * r.mss <= Wnd
  <2>1. r.mss \in 1 .. Wnd \div 2
    BY <1>1, SizeAssumption
  <2>. DEFINE h == Wnd \div 2
  <2>2. h \in Int /\ 2 * h <= Wnd
    BY Constants
  <2>. HIDE DEF h
  <2>3. r.mss \in 1 .. h
    BY <2>1 DEF h
  <2>. QED
    BY <2>2, <2>3, Constants
<1>. QED
  BY <1>1, <1>2, <1>3, <1>4

LEMMA AckType ==
  ASSUME NEW m \in Acks
  PROVE  /\ m.ack \in Seqs /\ Off(m.ack) \in Nat
         /\ m.wnd \in 0 .. Wnd /\ m.wnd \in Nat /\ m.wnd <= Wnd
<1>1. m.ack \in Seqs /\ m.wnd \in 0 .. Wnd
  BY DEF Acks
<1>. QED
  BY <1>1, OffType, Constants DEF Seqs

LEMMA LaterKeeps ==
  ASSUME NEW s \in Senders, NEW t \in Senders, NEW w \in Nat, NEW v \in Nat,
         NEW r \in Receivers, Later(s, w, t, v)
  PROVE  /\ Reach(s) <= Reach(t) /\ Reach(s) \in Nat /\ Reach(t) \in Nat
         /\ \A p \in Segments \cup Packets : Holds(p, s, w) => Holds(p, t, v)
         /\ \A p \in Packets : PacketInv(p, s, w, r) => PacketInv(p, t, v, r)
         /\ \A f, g : ReceiverInv(r, f, g, s, w) => ReceiverInv(r, f, g, t, v)
<1>1. /\ Off(s.nxt) <= Off(t.nxt) /\ Off(s.lastack) <= Off(t.lastack) /\ w <= v
      /\ s.fin => t.fin /\ v = w
  BY DEF Later
<1>2. /\ Off(s.nxt) \in Nat /\ Off(t.nxt) \in Nat
      /\ Off(s.lastack) \in Nat /\ Off(t.lastack) \in Nat
  BY SenderType
<1>3. Reach(s) <= Reach(t) /\ Reach(s) \in Nat /\ Reach(t) \in Nat
  BY <1>1, <1>2 DEF Reach, MaxOf
<1>4. ASSUME NEW p \in Segments \cup Packets, Holds(p, s, w) PROVE Holds(p, t, v)
  <2>1. BytesEnd(p) \in Nat
    BY SegEndOff
  <2>2. BytesEnd(p) <= v
    BY <1>1, <1>4, <2>1 DEF Holds
  <2>. QED
    BY <1>1, <1>4, <2>2 DEF Holds
<1>5. ASSUME NEW p \in Packets, PacketInv(p, s, w, r) PROVE PacketInv(p, t, v, r)
  <2>1. EndOff(p) \in Nat
    BY SegEndOff
  <2>2. Holds(p, t, v)
    BY <1>4, <1>5 DEF PacketInv
  <2>3. EndOff(p) <= Reach(t)
    BY <1>3, <1>5, <2>1 DEF PacketInv
  <2>. QED
    BY <1>5, <2>2, <2>3 DEF PacketInv
<1>6. ASSUME NEW f, NEW g, ReceiverInv(r, f, g, s, w) PROVE ReceiverInv(r, f, g, t, v)
  <2>1. Off(r.nxt) \in Nat
    BY ReceiverType
  <2>2. Off(r.nxt) <= Reach(t)
    BY <1>3, <1>6, <2>1 DEF ReceiverInv
  <2>3. /\ EndKnown(r, f) => t.fin /\ Off(r.nxt) = v + 1
        /\ ~EndKnown(r, f) => Off(r.nxt) <= v
    BY <1>1, <1>6, <2>1 DEF ReceiverInv
  <2>. QED
    BY <1>6, <2>2, <2>3 DEF ReceiverInv
<1>. QED
  BY <1>3, <1>4, <1>5, <1>6

LEMMA ReceiverLater ==
  ASSUME NEW s \in Senders, NEW w \in Nat, NEW r \in Receivers, NEW u \in Receivers,
         Off(r.nxt) <= Off(u.nxt), Off(r.edge) <= Off(u.edge)
  PROVE  /\ SenderInv(s, w, r) => SenderInv(s, w, u)
         /\ \A p \in Packets : PacketInv(p, s, w, r) => PacketInv(p, s, w, u)
         /\ \A m \in Acks : AckInv(m, s, r) => AckInv(m, s, u)
<1>1. /\ Off(r.nxt) \in Nat /\ Off(r.edge) \in Nat /\ Off(u.nxt) \in Nat /\ Off(u.edge) \in Nat
  BY ReceiverType
<1>2. Off(s.wl2) \in Nat /\ s.wnd \in Nat
  BY SenderType
<1>3. SenderInv(s, w, r) => SenderInv(s, w, u)
  BY <1>1, <1>2 DEF SenderInv
<1>4. ASSUME NEW p \in Packets, PacketInv(p, s, w, r) PROVE PacketInv(p, s, w, u)
  <2>1. BytesEnd(p) \in Nat
    BY SegEndOff
  <2>. QED
    BY <1>1, <1>4, <2>1 DEF PacketInv
<1>5. ASSUME NEW m \in Acks, AckInv(m, s, r) PROVE AckInv(m, s, u)
  <2>1. m.ack \in Seqs /\ m.wnd \in 0 .. Wnd
    BY DEF Acks
  <2>2. Off(m.ack) \in Nat /\ m.wnd \in Nat
    BY <2>1, OffType, Constants DEF Seqs
  <2>. QED
    BY <1>1, <1>5, <2>2 DEF AckInv
<1>. QED
  BY <1>3, <1>4, <1>5

(* What stays on its way was on its way.                                   *)
LEMMA LeftOf ==
  ASSUME NEW X, NEW q \in Seq(X), NEW i \in DOMAIN q, NEW b \in BOOLEAN
  PROVE  /\ Left(q, i, b) \in Seq(X)
         /\ \A j \in DOMAIN Left(q, i, b) : \E k \in DOMAIN q : Left(q, i, b)[j] = q[k]
<1>1. Len(q) \in Nat /\ DOMAIN q = 1 .. Len(q) /\ i \in 1 .. Len(q) /\ i \in Nat
  OBVIOUS
<1>2. CASE b
  BY <1>2 DEF Left
<1>3. CASE ~b
  <2>. DEFINE x == SubSeq(q, 1, i - 1)
              y == SubSeq(q, i + 1, Len(q))
  <2>1. /\ x \in Seq(X) /\ Len(x) = i - 1 /\ \A j \in 1 .. i - 1 : x[j] = q[j]
        /\ y \in Seq(X) /\ Len(y) = Len(q) - i /\ \A j \in 1 .. Len(q) - i : y[j] = q[i + j]
    <3>. DEFINE k == i - 1
    <3>1. k \in 0 .. Len(q) /\ i \in 0 .. Len(q)
      BY <1>1
    <3>. HIDE DEF k
    <3>2. /\ SubSeq(q, 1, k) \in Seq(X) /\ Len(SubSeq(q, 1, k)) = k
          /\ \A j \in 1 .. k : SubSeq(q, 1, k)[j] = q[j]
      BY <3>1, Parts
    <3>. QED
      BY <3>1, <3>2, Parts DEF k
  <2>2. Left(q, i, b) = x \o y
    BY <1>3 DEF Left, RemoveAt
  <2>. HIDE DEF x, y
  <2>3. /\ x \o y \in Seq(X) /\ Len(x \o y) = Len(x) + Len(y)
        /\ \A j \in 1 .. Len(x) + Len(y) :
             (x \o y)[j] = IF j <= Len(x) THEN x[j] ELSE y[j - Len(x)]
    BY <2>1, ConcatProperties
  <2>4. DOMAIN (x \o y) = 1 .. Len(q) - 1
    <3>1. Len(x \o y) = Len(q) - 1
      BY <1>1, <2>1, <2>3
    <3>2. DOMAIN (x \o y) = 1 .. Len(x \o y)
      BY <2>3, LenProperties
    <3>. QED
      BY <3>1, <3>2
  <2>5. ASSUME NEW j \in 1 .. Len(q) - 1 PROVE \E k \in 1 .. Len(q) : (x \o y)[j] = q[k]
    <3>1. j \in 1 .. Len(x) + Len(y) /\ j \in 1 .. Len(q) /\ j \in Nat
      BY <1>1, <2>1
    <3>2. CASE j <= i - 1
      <4>1. j \in 1 .. i - 1 /\ j <= Len(x)
        BY <1>1, <2>1, <3>1, <3>2
      <4>. QED
        BY <2>1, <2>3, <3>1, <4>1
    <3>3. CASE ~(j <= i - 1)
      <4>1. /\ j - (i - 1) \in 1 .. Len(q) - i /\ ~(j <= Len(x))
            /\ i + (j - (i - 1)) \in 1 .. Len(q)
        BY <1>1, <2>1, <3>1, <3>3
      <4>2. (x \o y)[j] = y[j - (i - 1)]
        BY <2>1, <2>3, <3>1, <4>1
      <4>. QED
        BY <2>1, <4>1, <4>2
    <3>. QED
      BY <3>2, <3>3
  <2>. QED
    BY <1>1, <2>2, <2>3, <2>4, <2>5
<1>. QED
  BY <1>2, <1>3

(* The lengths that the invariant is about.                                *)
LEMMA WrittenType ==
  ASSUME IInv
  PROVE  /\ Len(written) \in Nat /\ Len(written) \in 0 .. StreamLen
         /\ snd \in Senders /\ rcv \in Receivers
         /\ unsent \in Seq(Segments) /\ unacked \in Seq(Segments)
         /\ Outstanding \in Seq(Segments) /\ Len(unacked) \in 0 .. Len(Outstanding)
         /\ unacked = SubSeq(Outstanding, 1, Len(unacked))
         /\ unsent = SubSeq(Outstanding, Len(unacked) + 1, Len(Outstanding))
         /\ Outstanding = <<>> <=> unacked = <<>> /\ unsent = <<>>
         /\ Len(unacked) = Len(Outstanding) <=> unsent = <<>>
<1>1. /\ unsent \in Seq(Segments) /\ unacked \in Seq(Segments) /\ written \in Seq(Nat)
      /\ snd \in Senders /\ rcv \in Receivers /\ Len(written) <= StreamLen
  BY DEF IInv, TypeInv, WrittenInv
<1>2. Len(written) \in Nat /\ Len(written) \in 0 .. StreamLen
  BY <1>1, Constants
<1>. DEFINE q == Outstanding
<1>3. /\ q \in Seq(Segments) /\ Len(q) = Len(unacked) + Len(unsent)
      /\ Len(unacked) \in Nat /\ Len(unsent) \in Nat /\ Len(unacked) \in 0 .. Len(q)
      /\ unacked = SubSeq(q, 1, Len(unacked))
      /\ unsent = SubSeq(q, Len(unacked) + 1, Len(q))
  BY <1>1, Joined DEF Outstanding
<1>. HIDE DEF q
<1>4. /\ q = <<>> <=> Len(q) = 0
      /\ unacked = <<>> <=> Len(unacked) = 0
      /\ unsent = <<>> <=> Len(unsent) = 0
  BY <1>1, <1>3, EmptySeq
<1>5. /\ q = <<>> <=> unacked = <<>> /\ unsent = <<>>
      /\ Len(unacked) = Len(q) <=> unsent = <<>>
  <2>1. Len(q) = Len(unacked) + Len(unsent) /\ Len(unacked) \in Nat /\ Len(unsent) \in Nat
    BY <1>3
  <2>. QED
    BY <1>4, <2>1
<1>. QED
  BY <1>1, <1>2, <1>3, <1>5 DEF q

(* A step of the sender, which may send: q are its queues afterwards, of   *)
(* which the first n are unacked.                                          *)
LEMMA SenderStep ==
  ASSUME IInv,
         NEW q \in Seq(Segments), NEW n \in 0 .. Len(q), NEW sent \in Seq(Packets),
         unacked' = SubSeq(q, 1, n), unsent' = SubSeq(q, n + 1, Len(q)), snd' \in Senders,
         written' \in Seq(Nat), WrittenInv', QueueInv(q, n, snd', Len(written')),
         SenderInv(snd', Len(written'), rcv), Later(snd, Len(written), snd', Len(written')),
         data' = data \o sent,
         \A i \in 1 .. Len(sent) : PacketInv(sent[i], snd', Len(written'), rcv),
         acks' \in Seq(Acks), \A i \in DOMAIN acks' : AckInv(acks'[i], snd', rcv),
         \A i, j \in DOMAIN acks' : Further(acks'[i], acks'[j]),
         UNCHANGED receiver, sentTold' \in Int, SentExact'
  PROVE  IInv'
<1>1. /\ Len(written) \in Nat /\ snd \in Senders /\ rcv \in Receivers /\ data \in Seq(Packets)
  BY WrittenType DEF IInv, TypeInv
<1>2. Len(written') \in Nat
  OBVIOUS
<1>3. /\ unacked' \in Seq(Segments) /\ unsent' \in Seq(Segments) /\ Len(unacked') = n
      /\ Outstanding' = q
  <2>. DEFINE una == SubSeq(q, 1, n)
              uns == SubSeq(q, n + 1, Len(q))
  <2>1. CutInTwo(Segments, q, n, una, uns)
    BY PartsAre
  <2>2. unacked' = una /\ unsent' = uns
    OBVIOUS
  <2>. HIDE DEF una, uns
  <2>. QED
    BY ONLY <2>1, <2>2 DEF CutInTwo, Outstanding
<1>4. rcv' = rcv /\ refused' = refused /\ given' = given
  BY DEF receiver
<1>5. data' \in Seq(Packets)
  BY <1>1
<1>6. TypeInv'
  BY <1>3, <1>4, <1>5 DEF IInv, TypeInv
<1>7. /\ \A p \in Packets : PacketInv(p, snd, Len(written), rcv) =>
                            PacketInv(p, snd', Len(written'), rcv)
      /\ ReceiverInv(rcv, refused, given, snd, Len(written)) =>
         ReceiverInv(rcv, refused, given, snd', Len(written'))
  <2>. DEFINE s == snd
              t == snd'
              w == Len(written)
              v == Len(written')
              r == rcv
  <2>1. s \in Senders /\ t \in Senders /\ w \in Nat /\ v \in Nat /\ r \in Receivers /\ Later(s, w, t, v)
    BY <1>1, <1>2
  <2>. HIDE DEF s, t, w, v, r
  <2>2. /\ \A p \in Packets : PacketInv(p, s, w, r) => PacketInv(p, t, v, r)
        /\ \A f, g : ReceiverInv(r, f, g, s, w) => ReceiverInv(r, f, g, t, v)
    BY <2>1, LaterKeeps
  <2>. QED
    BY <2>2 DEF s, t, w, v, r
<1>8. ReceiverInv(rcv', refused', given', snd', Len(written'))
  BY <1>4, <1>7 DEF IInv
<1>9. ASSUME NEW i \in DOMAIN data' PROVE PacketInv(data'[i], snd', Len(written'), rcv')
  <2>1. /\ Len(data) \in Nat /\ Len(sent) \in Nat /\ i \in 1 .. Len(data) + Len(sent)
        /\ DOMAIN data = 1 .. Len(data)
        /\ data'[i] = IF i <= Len(data) THEN data[i] ELSE sent[i - Len(data)]
    BY <1>1
  <2>2. CASE i <= Len(data)
    <3>1. i \in DOMAIN data /\ data'[i] = data[i] /\ data[i] \in Packets
      BY <1>1, <2>1, <2>2
    <3>2. PacketInv(data[i], snd, Len(written), rcv)
      BY <3>1 DEF IInv
    <3>. QED
      BY <1>4, <1>7, <3>1, <3>2
  <2>3. CASE ~(i <= Len(data))
    <3>1. i - Len(data) \in 1 .. Len(sent) /\ data'[i] = sent[i - Len(data)]
      BY <2>1, <2>3
    <3>. QED
      BY <1>4, <3>1
  <2>. QED
    BY <2>2, <2>3
<1>10. SenderInv(snd', Len(written'), rcv')
  BY <1>4
<1>11. \A i \in DOMAIN acks' : AckInv(acks'[i], snd', rcv')
  BY <1>4
<1>12. QueueInv(Outstanding', Len(unacked'), snd', Len(written'))
  BY <1>3
<1>. QED
  BY <1>6, <1>8, <1>9, <1>10, <1>11, <1>12 DEF IInv

(* The connection is given up or has ended.                                *)
LEMMA RemovedStep ==
  ASSUME IInv, NEW state \in {"CLOSED", "ABORTED"}, Removed(state),
         acks' \in Seq(Acks), \A i \in DOMAIN acks' : AckInv(acks'[i], snd, rcv),
         \A i, j \in DOMAIN acks' : Further(acks'[i], acks'[j]),
         UNCHANGED <<data, written, sentTold, receiver>>
  PROVE  IInv'
<1>1. /\ unacked' = <<>> /\ unsent' = <<>> /\ snd' = [snd EXCEPT !.state = state]
  BY DEF Removed
<1>2. /\ rcv' = rcv /\ refused' = refused /\ given' = given /\ data' = data
      /\ written' = written /\ sentTold' = sentTold
  BY DEF receiver
<1>3. snd \in Senders
  BY DEF IInv, TypeInv
<1>4. /\ snd' \in Senders /\ snd'.state = state /\ snd'.nxt = snd.nxt
      /\ snd'.lastack = snd.lastack /\ snd'.lbb = snd.lbb /\ snd'.buf = snd.buf
      /\ snd'.wnd = snd.wnd /\ snd'.wl2 = snd.wl2 /\ snd'.mss = snd.mss
      /\ snd'.cwnd = snd.cwnd /\ snd'.ssthresh = snd.ssthresh /\ snd'.fin = snd.fin
      /\ snd'.oversize = snd.oversize
  BY <1>1, <1>3 DEF Senders, States
<1>5. TypeInv'
  BY <1>1, <1>2, <1>4 DEF IInv, TypeInv
<1>6. ~Open'
  BY <1>4 DEF Open
<1>7. Fin(snd') = Fin(snd) /\ Reach(snd') = Reach(snd) /\ Known(snd') = Known(snd)
  BY <1>4 DEF Fin, Reach, Known
<1>8. WrittenInv'
  BY <1>2 DEF IInv, WrittenInv
<1>9. SenderInv(snd', Len(written'), rcv')
  <2>1. SenderInv(snd, Len(written), rcv)
    BY DEF IInv
  <2>2. ~(snd'.state \in {"ESTABLISHED", "CLOSE_WAIT"})
    BY <1>4
  <2>. QED
    BY <1>2, <1>4, <1>7, <2>1, <2>2 DEF SenderInv
<1>10. ReceiverInv(rcv', refused', given', snd', Len(written'))
  BY <1>2, <1>4, <1>7 DEF IInv, ReceiverInv
<1>11. \A i \in DOMAIN data' : PacketInv(data'[i], snd', Len(written'), rcv')
  BY <1>2, <1>4, <1>7 DEF IInv, PacketInv, Holds
<1>12. \A i \in DOMAIN acks' : AckInv(acks'[i], snd', rcv')
  BY <1>2, <1>7 DEF AckInv
<1>. QED
  BY <1>5, <1>6, <1>8, <1>9, <1>10, <1>11, <1>12 DEF IInv

(* A step of the receiver, which may answer.                               *)
LEMMA ReceiverStep ==
  ASSUME IInv, NEW news \in Seq(Acks), Len(news) <= 1,
         rcv' \in Receivers, Off(rcv.nxt) <= Off(rcv'.nxt), Off(rcv.edge) <= Off(rcv'.edge),
         refused' \in [bytes : Seq(Nat), fin : BOOLEAN], given' \in Seq(Nat),
         ReceiverInv(rcv', refused', given', snd, Len(written)),
         data' \in Seq(Packets),
         \A i \in DOMAIN data' : PacketInv(data'[i], snd, Len(written), rcv),
         acks' = acks \o news,
         \A i \in 1 .. Len(news) :
           /\ Off(rcv.nxt) <= Off(news[i].ack) /\ Off(news[i].ack) <= Off(rcv'.nxt)
           /\ Off(rcv.edge) <= Off(news[i].ack) + news[i].wnd
           /\ Off(news[i].ack) + news[i].wnd <= Off(rcv'.edge),
         UNCHANGED sender
  PROVE  IInv'
<1>1. /\ Len(written) \in Nat /\ snd \in Senders /\ rcv \in Receivers /\ acks \in Seq(Acks)
  BY WrittenType DEF IInv, TypeInv
<1>2. /\ unsent' = unsent /\ unacked' = unacked /\ snd' = snd /\ written' = written
      /\ sentTold' = sentTold
  BY DEF sender
<1>3. acks' \in Seq(Acks)
  BY <1>1
<1>4. TypeInv'
  BY <1>2, <1>3 DEF IInv, TypeInv
<1>5. WrittenInv'
  BY <1>2 DEF IInv, WrittenInv
<1>6. /\ SenderInv(snd, Len(written), rcv')
      /\ \A p \in Packets : PacketInv(p, snd, Len(written), rcv) =>
                            PacketInv(p, snd, Len(written), rcv')
      /\ \A m \in Acks : AckInv(m, snd, rcv) => AckInv(m, snd, rcv')
  <2>. DEFINE s == snd
              w == Len(written)
              r == rcv
              u == rcv'
  <2>1. s \in Senders /\ w \in Nat /\ r \in Receivers /\ u \in Receivers
        /\ Off(r.nxt) <= Off(u.nxt) /\ Off(r.edge) <= Off(u.edge) /\ SenderInv(s, w, r)
    BY <1>1 DEF IInv
  <2>. HIDE DEF s, w, r, u
  <2>2. /\ SenderInv(s, w, r) => SenderInv(s, w, u)
        /\ \A p \in Packets : PacketInv(p, s, w, r) => PacketInv(p, s, w, u)
        /\ \A m \in Acks : AckInv(m, s, r) => AckInv(m, s, u)
    BY <2>1, ReceiverLater
  <2>. QED
    BY <2>1, <2>2 DEF s, w, r, u
<1>7. \A i \in DOMAIN data' : PacketInv(data'[i], snd, Len(written), rcv')
  <2>1. \A i \in DOMAIN data' : data'[i] \in Packets
    OBVIOUS
  <2>. QED
    BY <1>6, <2>1
<1>8. /\ Off(rcv.nxt) \in Nat /\ Off(rcv.edge) \in Nat
      /\ Off(rcv'.nxt) \in Nat /\ Off(rcv'.edge) \in Nat
  <2>1. \A r \in Receivers : Off(r.nxt) \in Nat /\ Off(r.edge) \in Nat
    BY ReceiverType
  <2>. QED
    BY <1>1, <2>1
<1>9. \A m \in Acks : Off(m.ack) \in Nat /\ m.wnd \in Nat
  BY AckType
<1>10. /\ Len(acks) \in Nat /\ Len(news) \in Nat /\ DOMAIN acks = 1 .. Len(acks)
       /\ DOMAIN acks' = 1 .. Len(acks) + Len(news)
       /\ \A i \in DOMAIN acks' :
            acks'[i] = IF i <= Len(acks) THEN acks[i] ELSE news[i - Len(acks)]
       /\ \A i \in DOMAIN acks : acks[i] \in Acks
       /\ \A i \in 1 .. Len(news) : news[i] \in Acks
  BY <1>1
<1>11. ASSUME NEW i \in DOMAIN acks'
       PROVE  \/ i \in DOMAIN acks /\ acks'[i] = acks[i]
              \/ i = Len(acks) + 1 /\ Len(news) = 1 /\ acks'[i] = news[1]
  <2>1. i \in 1 .. Len(acks) + Len(news)
    BY <1>10
  <2>2. CASE i <= Len(acks)
    <3>1. i \in DOMAIN acks
      BY <1>10, <2>1, <2>2
    <3>. QED
      BY <1>10, <2>2, <3>1
  <2>3. CASE ~(i <= Len(acks))
    <3>. DEFINE a == Len(acks)
                b == Len(news)
    <3>1. a \in Nat /\ b \in Nat /\ b <= 1 /\ i \in 1 .. a + b /\ ~(i <= a)
      BY <1>10, <2>1, <2>3
    <3>. HIDE DEF a, b
    <3>4. b = 1 /\ i = a + 1 /\ i - a = 1
      BY <3>1
    <3>2. Len(news) = 1 /\ i = Len(acks) + 1 /\ i - Len(acks) = 1
      BY <3>4 DEF a, b
    <3>3. acks'[i] = news[i - Len(acks)]
      BY <1>10, <2>3
    <3>. QED
      BY <3>2, <3>3
  <2>. QED
    BY <2>2, <2>3
<1>12. /\ \A i \in DOMAIN acks : AckInv(acks[i], snd, rcv)
       /\ \A i, j \in DOMAIN acks : Further(acks[i], acks[j])
  BY DEF IInv
<1>13. Known(snd) \in Acks /\ Off(Known(snd).ack) <= Off(rcv.nxt)
       /\ Off(Known(snd).ack) + Known(snd).wnd <= Off(rcv.edge)
  <2>1. Known(snd) \in Acks
    BY <1>1 DEF Known, Acks, Senders
  <2>. QED
    BY <2>1 DEF IInv, SenderInv, Known
<1>14. ASSUME Len(news) = 1, NEW m \in Acks, Off(m.ack) <= Off(rcv.nxt),
              Off(m.ack) + m.wnd <= Off(rcv.edge)
       PROVE  Further(m, news[1]) /\ Further(news[1], m)
  <2>1. /\ news[1] \in Acks /\ 1 \in 1 .. Len(news)
    BY <1>10, <1>14
  <2>2. /\ Off(rcv.nxt) <= Off(news[1].ack)
        /\ Off(rcv.edge) <= Off(news[1].ack) + news[1].wnd
    BY <2>1
  <2>. QED
    BY ONLY <1>8, <1>9, <1>14, <2>1, <2>2 DEF Further
<1>15. ASSUME NEW i \in DOMAIN acks' PROVE AckInv(acks'[i], snd, rcv')
  <2>1. CASE i \in DOMAIN acks /\ acks'[i] = acks[i]
    BY <1>6, <1>10, <1>12, <2>1
  <2>2. CASE Len(news) = 1 /\ acks'[i] = news[1]
    <3>1. 1 \in 1 .. Len(news)
      BY <2>2
    <3>2. Further(Known(snd), news[1]) /\ Further(news[1], Known(snd))
      BY <1>13, <1>14, <2>2
    <3>. QED
      BY <2>2, <3>1, <3>2 DEF AckInv
  <2>. QED
    BY <1>11, <2>1, <2>2
<1>16. ASSUME NEW i \in DOMAIN acks', NEW j \in DOMAIN acks' PROVE Further(acks'[i], acks'[j])
  <2>1. ASSUME NEW k \in DOMAIN acks PROVE Off(acks[k].ack) <= Off(rcv.nxt)
               /\ Off(acks[k].ack) + acks[k].wnd <= Off(rcv.edge) /\ acks[k] \in Acks
    BY <1>10, <1>12 DEF AckInv
  <2>2. CASE i \in DOMAIN acks /\ acks'[i] = acks[i] /\ j \in DOMAIN acks /\ acks'[j] = acks[j]
    BY <1>12, <2>2
  <2>3. CASE i \in DOMAIN acks /\ acks'[i] = acks[i] /\ Len(news) = 1 /\ acks'[j] = news[1]
    BY <1>14, <2>1, <2>3
  <2>4. CASE j \in DOMAIN acks /\ acks'[j] = acks[j] /\ Len(news) = 1 /\ acks'[i] = news[1]
    BY <1>14, <2>1, <2>4
  <2>5. CASE Len(news) = 1 /\ acks'[i] = news[1] /\ acks'[j] = news[1]
    <3>1. Off(news[1].ack) \in Nat
      BY <1>9, <1>10, <2>5
    <3>. QED
      BY <2>5, <3>1 DEF Further
  <2>. QED
    BY <1>11, <2>2, <2>3, <2>4, <2>5
<1>17. Open' => QueueInv(Outstanding', Len(unacked'), snd', Len(written')) /\ SentExact'
  BY <1>2 DEF IInv, Open, Outstanding, SentExact
<1>. QED
  BY <1>2, <1>4, <1>5, <1>6, <1>7, <1>15, <1>16, <1>17 DEF IInv

-----------------------------------------------------------------------------
(* The pbufs of the queues.                                                *)
LEMMA PbufsSum ==
  /\ Pbufs(<<>>) = 0
  /\ \A q \in Seq(Segments) : Pbufs(q) \in Int
  /\ \A p \in Segments : Pbufs(<<p>>) = p.pbufs
  /\ \A q1, q2 \in Seq(Segments) : Pbufs(q1 \o q2) = Pbufs(q1) + Pbufs(q2)
<1>. DEFINE W(q) == [i \in DOMAIN q |-> q[i].pbufs]
<1>1. ASSUME NEW q \in Seq(Segments)
      PROVE  /\ W(q) \in Seq(Int) /\ Len(W(q)) = Len(q)
             /\ \A i \in 1 .. Len(q) : W(q)[i] = q[i].pbufs
  <2>1. \A i \in 1 .. Len(q) : q[i].pbufs \in Int
    <3>1. \A i \in 1 .. Len(q) : q[i] \in Segments
      OBVIOUS
    <3>. QED
      BY <3>1 DEF Segments
  <2>2. DOMAIN q = 1 .. Len(q) /\ Len(q) \in Nat
    OBVIOUS
  <2>. QED
    BY <2>1, <2>2
<1>2. Pbufs(<<>>) = 0
  <2>1. <<>> \in Seq(Segments) /\ Len(<<>>) = 0
    OBVIOUS
  <2>2. W(<<>>) \in Seq(Int) /\ Len(W(<<>>)) = 0
    BY <1>1, <2>1
  <2>. DEFINE v == W(<<>>)
  <2>3. Pbufs(<<>>) = Total(v)
    BY DEF Pbufs
  <2>. HIDE DEF v
  <2>4. v = <<>>
    BY <2>2, EmptySeq DEF v
  <2>. QED
    BY <2>3, <2>4, TotalEmpty
<1>3. ASSUME NEW q \in Seq(Segments) PROVE Pbufs(q) \in Int
  <2>. DEFINE v == W(q)
  <2>1. v \in Seq(Int) /\ Pbufs(q) = Total(v)
    BY <1>1 DEF Pbufs
  <2>. HIDE DEF v
  <2>. QED
    BY <2>1, TotalInt
<1>4. ASSUME NEW p \in Segments PROVE Pbufs(<<p>>) = p.pbufs
  <2>1. <<p>> \in Seq(Segments) /\ Len(<<p>>) = 1 /\ <<p>>[1] = p
    OBVIOUS
  <2>. DEFINE q == <<p>>
              v == W(q)
  <2>5. v \in Seq(Int) /\ Len(v) = 1 /\ v[1] = p.pbufs
    <3>1. q \in Seq(Segments) /\ Len(q) = 1 /\ q[1] = p
      BY <2>1
    <3>2. 1 \in 1 .. 1
      OBVIOUS
    <3>. HIDE DEF q
    <3>3. v \in Seq(Int) /\ Len(v) = Len(q) /\ \A i \in 1 .. Len(q) : v[i] = q[i].pbufs
      BY <1>1, <3>1
    <3>. HIDE DEF v
    <3>. QED
      BY <3>1, <3>2, <3>3
  <2>2. v \in Seq(Int) /\ Len(v) = 1 /\ v[1] = p.pbufs /\ Pbufs(<<p>>) = Total(v)
    BY <2>5 DEF Pbufs
  <2>. HIDE DEF v
  <2>3. p.pbufs \in Int
    BY DEF Segments
  <2>4. v = <<p.pbufs>>
    <3>1. <<p.pbufs>> \in Seq(Int) /\ Len(<<p.pbufs>>) = 1 /\ <<p.pbufs>>[1] = p.pbufs
      BY <2>3
    <3>. QED
      BY <2>2, <3>1, SeqEqual
  <2>. QED
    BY <2>2, <2>3, <2>4, TotalOfOne
<1>5. ASSUME NEW q1 \in Seq(Segments), NEW q2 \in Seq(Segments)
      PROVE  Pbufs(q1 \o q2) = Pbufs(q1) + Pbufs(q2)
  <2>. DEFINE v1 == W(q1)
              v2 == W(q2)
              q == q1 \o q2
              v == W(q)
  <2>1. /\ q \in Seq(Segments) /\ Len(q) = Len(q1) + Len(q2)
        /\ \A i \in 1 .. Len(q1) + Len(q2) :
             q[i] = IF i <= Len(q1) THEN q1[i] ELSE q2[i - Len(q1)]
        /\ Len(q1) \in Nat /\ Len(q2) \in Nat
    BY ConcatProperties
  <2>. HIDE DEF q
  <2>2. /\ v1 \in Seq(Int) /\ Len(v1) = Len(q1) /\ \A i \in 1 .. Len(q1) : v1[i] = q1[i].pbufs
        /\ v2 \in Seq(Int) /\ Len(v2) = Len(q2) /\ \A i \in 1 .. Len(q2) : v2[i] = q2[i].pbufs
        /\ v \in Seq(Int) /\ Len(v) = Len(q) /\ \A i \in 1 .. Len(q) : v[i] = q[i].pbufs
    BY <1>1, <2>1
  <2>3. Pbufs(q1) = Total(v1) /\ Pbufs(q2) = Total(v2) /\ Pbufs(q) = Total(v)
    BY DEF Pbufs
  <2>. HIDE DEF v1, v2, v
  <2>4. /\ v1 \o v2 \in Seq(Int) /\ Len(v1 \o v2) = Len(v1) + Len(v2)
        /\ \A i \in 1 .. Len(v1) + Len(v2) :
             (v1 \o v2)[i] = IF i <= Len(v1) THEN v1[i] ELSE v2[i - Len(v1)]
    <3>1. v1 \in Seq(Int) /\ v2 \in Seq(Int)
      BY <2>2
    <3>. QED
      BY ONLY <3>1, ConcatProperties
  <2>5. ASSUME NEW i \in 1 .. Len(v) PROVE v[i] = (v1 \o v2)[i]
    <3>1. i \in 1 .. Len(q1) + Len(q2)
      BY <2>1, <2>2
    <3>2. CASE i <= Len(q1)
      <4>1. i \in 1 .. Len(q1)
        BY <2>1, <3>1, <3>2
      <4>. QED
        BY <2>1, <2>2, <2>4, <3>1, <3>2, <4>1
    <3>3. CASE ~(i <= Len(q1))
      <4>1. i - Len(q1) \in 1 .. Len(q2)
        BY <2>1, <3>1, <3>3
      <4>. QED
        BY <2>1, <2>2, <2>4, <3>1, <3>3, <4>1
    <3>. QED
      BY <3>2, <3>3
  <2>6. Len(v) = Len(v1 \o v2)
    BY <2>1, <2>2, <2>4
  <2>7. v = v1 \o v2
    BY <2>2, <2>4, <2>5, <2>6, SeqEqual
  <2>. QED
    BY <2>2, <2>3, <2>7, TotalOfConcat DEF q
<1>. QED
  BY <1>2, <1>3, <1>4, <1>5

-----------------------------------------------------------------------------
(* The invariant holds at the beginning.                                   *)
LEMMA InitIInv == Init => IInv
<1>. SUFFICES ASSUME Init PROVE IInv
  OBVIOUS
<1>1. /\ unsent = <<>> /\ unacked = <<>> /\ refused = Nothing
      /\ data = <<>> /\ acks = <<>> /\ written = <<>> /\ given = <<>> /\ sentTold = 0
  BY DEF Init
<1>2. PICK mss \in Msses : \E cwnd \in {2 * mss, Wnd} :
       /\ snd = [state |-> IF Passive THEN "CLOSE_WAIT" ELSE "ESTABLISHED",
                 nxt |-> Iss, lastack |-> Iss, lbb |-> Iss, buf |-> SndBuf,
                 queuelen |-> 0, wnd |-> Wnd, wl2 |-> Iss, mss |-> mss,
                 cwnd |-> cwnd, ssthresh |-> Wnd, dupacks |-> 0, infr |-> FALSE,
                 memerr |-> FALSE, fin |-> FALSE, nrtx |-> 0, timed |-> FALSE,
                 persist |-> FALSE, oversize |-> 0]
       /\ rcv = [nxt |-> Iss, wnd |-> Wnd, ann |-> Wnd, edge |-> Plus(Iss, Wnd),
                 mss |-> mss, delayed |-> FALSE, ended |-> FALSE, unread |-> 0]
  BY DEF Init
<1>3. PICK cwnd \in {2 * mss, Wnd} :
       /\ snd = [state |-> IF Passive THEN "CLOSE_WAIT" ELSE "ESTABLISHED",
                 nxt |-> Iss, lastack |-> Iss, lbb |-> Iss, buf |-> SndBuf,
                 queuelen |-> 0, wnd |-> Wnd, wl2 |-> Iss, mss |-> mss,
                 cwnd |-> cwnd, ssthresh |-> Wnd, dupacks |-> 0, infr |-> FALSE,
                 memerr |-> FALSE, fin |-> FALSE, nrtx |-> 0, timed |-> FALSE,
                 persist |-> FALSE, oversize |-> 0]
       /\ rcv = [nxt |-> Iss, wnd |-> Wnd, ann |-> Wnd, edge |-> Plus(Iss, Wnd),
                 mss |-> mss, delayed |-> FALSE, ended |-> FALSE, unread |-> 0]
  BY <1>2
<1>4. mss \in Nat /\ 1 <= mss /\ 2 * mss <= Wnd
  <2>. DEFINE h == Wnd \div 2
  <2>1. h \in Int /\ 2 * h <= Wnd
    BY Constants
  <2>2. mss \in 1 .. h
    BY SizeAssumption
  <2>. HIDE DEF h
  <2>. QED
    BY <2>1, <2>2, Constants
<1>5. cwnd \in 0 .. Wnd /\ mss <= cwnd /\ Wnd \in 0 .. Wnd /\ mss <= Wnd /\ 0 \in 0 .. Wnd
  BY <1>3, <1>4, Constants
<1>6. Off(Iss) = 0 /\ Iss \in Seqs /\ 0 + Wnd < SeqModulus
  BY OffOfIss, Constants
<1>7. Plus(Iss, Wnd) \in Seqs /\ Off(Plus(Iss, Wnd)) = Wnd
  <2>1. Off(Iss) + Wnd < SeqModulus
    BY <1>6
  <2>. QED
    BY <1>6, <2>1, PlusOff, Constants
<1>8. SndBuf \in Int
  BY SizeAssumption
<1>9. (IF Passive THEN "CLOSE_WAIT" ELSE "ESTABLISHED") \in States
  BY DEF States
<1>10. snd \in Senders
  BY <1>3, <1>5, <1>6, <1>8, <1>9, Constants DEF Senders
<1>11. rcv \in Receivers
  BY <1>3, <1>5, <1>6, <1>7, Constants DEF Receivers
<1>12. TypeInv
  BY <1>1, <1>10, <1>11 DEF TypeInv, Nothing
<1>13. Len(written) = 0 /\ WrittenInv
  BY <1>1, Constants DEF WrittenInv
<1>14. ~snd.fin /\ Fin(snd) = 0
  BY <1>3 DEF Fin
<1>15. SenderInv(snd, 0, rcv)
  BY <1>3, <1>4, <1>5, <1>6, <1>7, <1>8, <1>14, Constants DEF SenderInv
<1>16. ReceiverInv(rcv, refused, given, snd, 0)
  <2>1. refused.fin = FALSE /\ refused.bytes = <<>>
    BY <1>1 DEF Nothing
  <2>2. ~EndKnown(rcv, refused)
    BY <1>3, <2>1 DEF EndKnown
  <2>3. Reach(snd) >= 0
    BY <1>3, <1>6 DEF Reach, MaxOf
  <2>. QED
    BY <1>1, <1>3, <1>6, <1>7, <2>1, <2>2, <2>3, Constants DEF ReceiverInv
<1>17. Outstanding = <<>> /\ Len(unacked) = 0
  BY <1>1 DEF Outstanding
<1>18. QueueInv(<<>>, 0, snd, 0)
  BY <1>3, <1>6, <1>14, PbufsSum DEF QueueInv, Chain
<1>19. SentExact
  <2>1. snd.lastack = Iss /\ Off(Iss) = Minus(Iss, Iss)
    BY <1>3 DEF Off
  <2>. QED
    BY <1>1, <1>6, <1>13, <2>1 DEF SentExact, MinOf
<1>. QED
  BY <1>1, <1>12, <1>13, <1>15, <1>16, <1>17, <1>18, <1>19 DEF IInv

-----------------------------------------------------------------------------
(* The receiver.                                                           *)

(* The window that was announced is there.                                 *)
Window(r) ==
  /\ Off(r.nxt) <= StreamLen + 1
  /\ Off(r.edge) <= Off(r.nxt) + r.ann /\ r.ann <= r.wnd

LEMMA AnnouncedIs ==
  ASSUME NEW r \in Receivers, Off(r.nxt) <= StreamLen + 1,
         Off(r.edge) <= Off(r.nxt) + r.wnd
  PROVE  LET u == Announced(r)
         IN  /\ u \in Receivers /\ Window(u)
             /\ u.nxt = r.nxt /\ u.edge = r.edge /\ u.wnd = r.wnd /\ u.mss = r.mss
             /\ u.delayed = r.delayed /\ u.ended = r.ended /\ u.unread = r.unread
<1>. DEFINE ann == IF Announces(r) THEN r.wnd
                   ELSE IF Lt(r.edge, r.nxt) THEN 0 ELSE Minus(r.edge, r.nxt)
            u == [r EXCEPT !.ann = ann]
<1>1. /\ r.nxt \in Seqs /\ r.edge \in Seqs /\ Off(r.nxt) \in Nat /\ Off(r.edge) \in Nat
      /\ r.wnd \in Nat /\ r.wnd <= Wnd
  BY ReceiverType
<1>2. Near(r.nxt) /\ Near(r.edge)
  BY <1>1, Constants DEF Near
<1>3. Lt(r.edge, r.nxt) <=> Off(r.edge) < Off(r.nxt)
  BY <1>2, LtNear
<1>4. Minus(r.edge, r.nxt) = IF Off(r.edge) >= Off(r.nxt) THEN Off(r.edge) - Off(r.nxt)
                             ELSE Off(r.edge) - Off(r.nxt) + SeqModulus
  BY <1>1, MinusOff
<1>5. ann \in Nat /\ ann <= r.wnd /\ Off(r.edge) <= Off(r.nxt) + ann
  <2>1. CASE Announces(r)
    BY <1>1, <2>1
  <2>2. CASE ~Announces(r) /\ Lt(r.edge, r.nxt)
    BY <1>1, <1>3, <2>2
  <2>3. CASE ~Announces(r) /\ ~Lt(r.edge, r.nxt)
    <3>1. ann = Off(r.edge) - Off(r.nxt) /\ Off(r.edge) >= Off(r.nxt)
      BY <1>1, <1>3, <1>4, <2>3
    <3>. QED
      BY <1>1, <3>1
  <2>. QED
    BY <2>1, <2>2, <2>3
<1>6. Announced(r) = u
  BY DEF Announced
<1>. HIDE DEF ann
<1>7. ann \in 0 .. Wnd
  BY <1>1, <1>5, Constants
<1>8. /\ u \in Receivers /\ u.ann = ann
      /\ u.nxt = r.nxt /\ u.edge = r.edge /\ u.wnd = r.wnd /\ u.mss = r.mss
      /\ u.delayed = r.delayed /\ u.ended = r.ended /\ u.unread = r.unread
  BY <1>7 DEF Receivers
<1>. HIDE DEF u
<1>9. Window(u)
  BY <1>5, <1>8 DEF Window
<1>. QED
  BY <1>6, <1>8, <1>9

LEMMA SentIs ==
  ASSUME NEW r \in Receivers, Window(r)
  PROVE  LET u == Sent(r)
         IN  /\ u \in Receivers /\ Window(u)
             /\ u.nxt = r.nxt /\ u.wnd = r.wnd /\ u.ann = r.ann /\ u.mss = r.mss
             /\ u.ended = r.ended /\ u.unread = r.unread
             /\ Off(u.edge) = Off(r.nxt) + r.ann /\ Off(r.edge) <= Off(u.edge)
             /\ AckOf(r) \in Acks /\ AckOf(r).ack = r.nxt /\ AckOf(r).wnd = r.ann
<1>. DEFINE e == Plus(r.nxt, r.ann)
            u == [r EXCEPT !.edge = e, !.delayed = FALSE]
<1>1. /\ r.nxt \in Seqs /\ r.edge \in Seqs /\ Off(r.nxt) \in Nat /\ Off(r.edge) \in Nat
      /\ r.ann \in Nat /\ r.ann <= Wnd /\ r.ann \in 0 .. Wnd
  BY ReceiverType
<1>2. Off(r.nxt) + r.ann < SeqModulus
  BY <1>1, Constants DEF Window
<1>3. e \in Seqs /\ Off(e) = Off(r.nxt) + r.ann
  BY <1>1, <1>2, PlusOff
<1>4. Sent(r) = u
  BY DEF Sent
<1>. HIDE DEF e
<1>5. /\ u \in Receivers /\ u.edge = e
      /\ u.nxt = r.nxt /\ u.wnd = r.wnd /\ u.ann = r.ann /\ u.mss = r.mss
      /\ u.ended = r.ended /\ u.unread = r.unread
  BY <1>3 DEF Receivers
<1>. HIDE DEF u
<1>6. Off(u.edge) = Off(r.nxt) + r.ann /\ Off(r.edge) <= Off(u.edge)
  BY <1>3, <1>5 DEF Window
<1>7. Window(u)
  BY <1>1, <1>5, <1>6 DEF Window
<1>8. AckOf(r) \in Acks /\ AckOf(r).ack = r.nxt /\ AckOf(r).wnd = r.ann
  BY <1>1 DEF AckOf, Acks
<1>. QED
  BY <1>4, <1>5, <1>6, <1>7, <1>8

(* p is what comes of offering f to the callback, which refuses it if b.   *)
OfferedAs(p, r, f, b) ==
  /\ p.rcv \in Receivers /\ r.wnd <= p.rcv.wnd
  /\ p.rcv.nxt = r.nxt /\ p.rcv.edge = r.edge /\ p.rcv.ann = r.ann
  /\ p.rcv.delayed = r.delayed
  /\ b => /\ p.rcv = r /\ p.given = <<>>
          /\ p.refused = [bytes |-> f.bytes, fin |-> f.fin]
  /\ ~b => /\ p.rcv.ended <=> r.ended \/ f.fin
           /\ p.given = f.bytes /\ p.refused = Nothing

LEMMA OfferIs ==
  ASSUME NEW r \in Receivers, NEW f, f.bytes \in Seq(Nat), f.fin \in BOOLEAN,
         NEW b \in BOOLEAN
  PROVE  OfferedAs(Offer(r, f, b), r, f, b)
<1>. USE DEF OfferedAs
<1>1. r.wnd \in Nat /\ r.wnd <= Wnd /\ r.unread \in Nat /\ r.ended \in BOOLEAN
  BY ReceiverType
<1>2. CASE b
  <2>. DEFINE p == Offer(r, f, b)
  <2>1. /\ p.rcv = r /\ p.given = <<>>
        /\ p.refused = [bytes |-> f.bytes, fin |-> f.fin]
    BY <1>2 DEF Offer
  <2>. HIDE DEF p
  <2>2. /\ p.rcv \in Receivers /\ r.wnd <= p.rcv.wnd
        /\ p.rcv.nxt = r.nxt /\ p.rcv.edge = r.edge /\ p.rcv.ann = r.ann
        /\ p.rcv.delayed = r.delayed
    BY <1>1, <2>1
  <2>. QED
    BY <1>2, <2>1, <2>2 DEF p
<1>3. CASE ~b
  <2>. DEFINE p == Offer(r, f, b)
              t == [r EXCEPT !.unread = @ + Len(f.bytes)]
              x == IF t.wnd # Wnd THEN t.wnd + 1 ELSE t.wnd
              y == [t EXCEPT !.ended = TRUE, !.wnd = x]
  <2>1. p.rcv = IF f.fin THEN Ended(t) ELSE t
    BY <1>3 DEF Offer
  <2>2. p.given = f.bytes /\ p.refused = Nothing
    BY <1>3 DEF Offer
  <2>3. Len(f.bytes) \in Nat /\ r.unread + Len(f.bytes) \in Nat
    BY <1>1
  <2>4. /\ t \in Receivers /\ t.wnd = r.wnd /\ t.nxt = r.nxt /\ t.edge = r.edge
        /\ t.ann = r.ann /\ t.delayed = r.delayed /\ t.ended = r.ended
    BY <2>3 DEF Receivers
  <2>5. Ended(t) = y
    BY DEF Ended
  <2>. HIDE DEF p, t
  <2>6. x \in 0 .. Wnd /\ r.wnd <= x
    BY <1>1, <2>4, Constants
  <2>. HIDE DEF x
  <2>7. /\ y \in Receivers /\ y.wnd = x /\ y.nxt = r.nxt /\ y.edge = r.edge
        /\ y.ann = r.ann /\ y.delayed = r.delayed /\ y.ended = TRUE
    BY <2>4, <2>6 DEF Receivers
  <2>. HIDE DEF y
  <2>8. CASE f.fin
    BY <1>1, <1>3, <2>1, <2>2, <2>5, <2>6, <2>7, <2>8 DEF p
  <2>9. CASE ~f.fin
    BY <1>1, <1>3, <2>1, <2>2, <2>4, <2>9 DEF p
  <2>. QED
    BY <2>8, <2>9
<1>. QED
  BY <1>2, <1>3

(* What was refused is taken.                                              *)
(* p is what comes of giving f, which the callback takes, after g.         *)
TakenAs(p, r, f, g, s, w) ==
  /\ p.rcv \in Receivers /\ p.rcv.nxt = r.nxt /\ p.rcv.edge = r.edge
  /\ p.rcv.ended <=> EndKnown(r, f)
  /\ p.given = f.bytes /\ p.refused = Nothing /\ g \o p.given \in Seq(Nat)
  /\ ReceiverInv(p.rcv, p.refused, g \o p.given, s, w)

LEMMA Taken ==
  ASSUME NEW r \in Receivers, NEW f \in [bytes : Seq(Nat), fin : BOOLEAN],
         NEW g \in Seq(Nat), NEW s \in Senders, NEW w \in Nat,
         ReceiverInv(r, f, g, s, w)
  PROVE  TakenAs(Offer(r, f, FALSE), r, f, g, s, w)
<1>. USE DEF TakenAs
<1>. DEFINE p == Offer(r, f, FALSE)
            h == g \o f.bytes
<1>1. f.bytes \in Seq(Nat) /\ f.fin \in BOOLEAN
  OBVIOUS
<1>2. /\ p.rcv \in Receivers /\ r.wnd <= p.rcv.wnd
      /\ p.rcv.nxt = r.nxt /\ p.rcv.edge = r.edge /\ p.rcv.ann = r.ann
      /\ p.rcv.ended <=> r.ended \/ f.fin
      /\ p.given = f.bytes /\ p.refused = Nothing
  BY <1>1, OfferIs DEF OfferedAs
<1>. HIDE DEF p
<1>3. /\ h \in Seq(Nat) /\ Len(h) = Len(g) + Len(f.bytes)
      /\ \A k \in 1 .. Len(g) + Len(f.bytes) :
           h[k] = IF k <= Len(g) THEN g[k] ELSE f.bytes[k - Len(g)]
      /\ Len(g) \in Nat /\ Len(f.bytes) \in Nat
  BY <1>1, ConcatProperties
<1>. HIDE DEF h
<1>4. EndKnown(r, f) <=> EndKnown(p.rcv, p.refused)
  BY <1>2 DEF EndKnown, Nothing
<1>5. ASSUME NEW k \in 1 .. Len(h) PROVE h[k] = k
  <2>1. k \in 1 .. Len(g) + Len(f.bytes) /\ k \in Nat
    BY <1>3
  <2>2. CASE k <= Len(g)
    <3>1. k \in 1 .. Len(g) /\ h[k] = g[k]
      BY <1>3, <2>1, <2>2
    <3>. QED
      BY <3>1 DEF ReceiverInv
  <2>3. CASE ~(k <= Len(g))
    <3>1. /\ k - Len(g) \in 1 .. Len(f.bytes) /\ h[k] = f.bytes[k - Len(g)]
          /\ Len(g) + (k - Len(g)) = k
      BY <1>3, <2>1, <2>3
    <3>. QED
      BY <3>1 DEF ReceiverInv
  <2>. QED
    BY <2>2, <2>3
<1>6. Nothing.bytes = <<>> /\ Nothing.fin = FALSE /\ Len(<<>>) = 0
  BY DEF Nothing
<1>7. /\ r.ann \in Nat /\ r.wnd \in Nat /\ p.rcv.wnd \in Nat
  BY <1>2, ReceiverType
<1>8. r.ann <= p.rcv.wnd
  BY <1>2, <1>7 DEF ReceiverInv
<1>9. Len(h) + Len(p.refused.bytes) = Len(g) + Len(f.bytes)
  BY <1>2, <1>3, <1>6
<1>10. \A k \in 1 .. Len(p.refused.bytes) : p.refused.bytes[k] = Len(h) + k
  BY <1>2, <1>6
<1>11. ReceiverInv(p.rcv, p.refused, h, s, w)
  BY <1>2, <1>4, <1>5, <1>8, <1>9, <1>10 DEF ReceiverInv
<1>. QED
  BY <1>2, <1>3, <1>11 DEF p, h, EndKnown

(* An answer to what is unexpected, or a delayed one.                      *)
LEMMA SentKeeps ==
  ASSUME NEW r \in Receivers, NEW f, NEW g, NEW s \in Senders, NEW w \in 0 .. StreamLen,
         ReceiverInv(r, f, g, s, w)
  PROVE  /\ Window(r)
         /\ ReceiverInv(Sent(r), f, g, s, w)
<1>1. Off(r.nxt) \in Nat /\ w \in Nat /\ w <= StreamLen
  BY ReceiverType, Constants
<1>2. Window(r)
  BY <1>1, Constants DEF ReceiverInv, Window
<1>3. LET u == Sent(r)
      IN  /\ Window(u) /\ u.nxt = r.nxt /\ u.ended = r.ended
  BY <1>2, SentIs
<1>4. EndKnown(Sent(r), f) <=> EndKnown(r, f)
  BY <1>3 DEF EndKnown
<1>. QED
  BY <1>2, <1>3, <1>4 DEF ReceiverInv, Window

LEMMA SameReceived ==
  ASSUME NEW r \in Receivers, NEW u \in Receivers, NEW f, NEW g, NEW s, NEW w,
         ReceiverInv(r, f, g, s, w), Window(u), u.nxt = r.nxt, u.ended = r.ended
  PROVE  ReceiverInv(u, f, g, s, w)
<1>1. EndKnown(u, f) <=> EndKnown(r, f)
  BY DEF EndKnown
<1>. QED
  BY <1>1 DEF ReceiverInv, Window

LEMMA ReadStep ==
  ASSUME IInv, Read
  PROVE  IInv'
<1>. DEFINE x == MinOf(rcv.wnd + rcv.unread, Wnd)
            r == [rcv EXCEPT !.wnd = x, !.unread = 0]
            u == Announced(r)
<1>1. /\ rcv \in Receivers /\ snd \in Senders /\ Len(written) \in 0 .. StreamLen
      /\ Len(written) \in Nat /\ ReceiverInv(rcv, refused, given, snd, Len(written))
  BY WrittenType DEF IInv
<1>2. /\ rcv.wnd \in Nat /\ rcv.wnd <= Wnd /\ rcv.unread \in Nat /\ rcv.ann \in Nat
      /\ Off(rcv.nxt) \in Nat /\ Off(rcv.edge) \in Nat
  BY <1>1, ReceiverType
<1>3. x \in 0 .. Wnd /\ rcv.wnd <= x
  BY <1>2, Constants DEF MinOf
<1>. HIDE DEF x
<1>4. /\ r \in Receivers /\ r.nxt = rcv.nxt /\ r.edge = rcv.edge /\ r.wnd = x
      /\ r.ended = rcv.ended
  BY <1>1, <1>3 DEF Receivers
<1>5. /\ IF Inflation(r) >= Wnd \div 4
         THEN rcv' = Sent(u) /\ acks' = Append(acks, AckOf(u))
         ELSE rcv' = u /\ UNCHANGED acks
      /\ UNCHANGED <<sender, refused, given, data, faults>>
  BY DEF Read, x
<1>. HIDE DEF r
<1>6. Window(rcv)
  <2>. DEFINE w == Len(written)
  <2>1. w \in 0 .. StreamLen /\ ReceiverInv(rcv, refused, given, snd, w)
    BY <1>1
  <2>. HIDE DEF w
  <2>. QED
    BY <1>1, <2>1, SentKeeps
<1>7. Off(r.nxt) <= StreamLen + 1 /\ Off(r.edge) <= Off(r.nxt) + r.wnd
  BY <1>2, <1>3, <1>4, <1>6, Constants DEF Window
<1>8. /\ u \in Receivers /\ Window(u) /\ u.nxt = rcv.nxt /\ u.edge = rcv.edge
      /\ u.ended = rcv.ended
  BY <1>4, <1>7, AnnouncedIs
<1>. HIDE DEF u
<1>9. acks \in Seq(Acks) /\ data \in Seq(Packets)
  BY DEF IInv, TypeInv
<1>10. /\ refused' = refused /\ given' = given /\ data' = data /\ UNCHANGED sender
       /\ refused' \in [bytes : Seq(Nat), fin : BOOLEAN] /\ given' \in Seq(Nat)
       /\ data' \in Seq(Packets)
       /\ \A i \in DOMAIN data' : PacketInv(data'[i], snd, Len(written), rcv)
  BY <1>5 DEF IInv, TypeInv
<1>11. CASE Inflation(r) >= Wnd \div 4
  <2>. DEFINE v == Sent(u)
              news == <<AckOf(u)>>
  <2>1. /\ v \in Receivers /\ Window(v) /\ v.nxt = u.nxt /\ v.ended = u.ended
        /\ Off(v.edge) = Off(u.nxt) + u.ann /\ Off(u.edge) <= Off(v.edge)
        /\ AckOf(u) \in Acks /\ AckOf(u).ack = u.nxt /\ AckOf(u).wnd = u.ann
    BY <1>8, SentIs
  <2>2. rcv' = v /\ acks' = acks \o news
    BY <1>5, <1>9, <1>11, <2>1, AppendIsConcat
  <2>3. ReceiverInv(v, refused, given, snd, Len(written))
    BY <1>1, <1>8, <2>1, SameReceived
  <2>4. news \in Seq(Acks) /\ Len(news) <= 1 /\ Len(news) = 1 /\ news[1] = AckOf(u)
    BY <2>1
  <2>. HIDE DEF news, v
  <2>5. /\ Off(rcv.nxt) <= Off(news[1].ack) /\ Off(news[1].ack) <= Off(v.nxt)
        /\ Off(rcv.edge) <= Off(news[1].ack) + news[1].wnd
        /\ Off(news[1].ack) + news[1].wnd <= Off(v.edge)
    <3>1. Off(v.edge) \in Nat
      BY <2>1, ReceiverType
    <3>. QED
      BY <1>2, <1>8, <2>1, <2>4, <3>1
  <2>6. \A i \in 1 .. Len(news) : i = 1
    BY <2>4
  <2>7. Off(rcv.nxt) <= Off(v.nxt) /\ Off(rcv.edge) <= Off(v.edge)
    BY <1>2, <1>8, <2>1
  <2>. QED
    BY <1>10, <2>1, <2>2, <2>3, <2>4, <2>5, <2>6, <2>7, ReceiverStep
<1>12. CASE ~(Inflation(r) >= Wnd \div 4)
  <2>. DEFINE news == <<>>
  <2>1. rcv' = u /\ acks' = acks \o news
    BY <1>5, <1>9, <1>12
  <2>2. ReceiverInv(u, refused, given, snd, Len(written))
    BY <1>1, <1>8, SameReceived
  <2>3. news \in Seq(Acks) /\ Len(news) <= 1 /\ \A i \in 1 .. Len(news) : FALSE
    OBVIOUS
  <2>4. Off(rcv.nxt) <= Off(u.nxt) /\ Off(rcv.edge) <= Off(u.edge)
    BY <1>2, <1>8
  <2>. HIDE DEF news
  <2>. QED
    BY <1>8, <1>10, <2>1, <2>2, <2>3, <2>4, ReceiverStep
<1>. QED
  BY <1>11, <1>12

LEMMA LoseStep ==
  ASSUME IInv, Lose
  PROVE  IInv'
<1>1. /\ data \in Seq(Packets) /\ acks \in Seq(Acks)
  BY DEF IInv, TypeInv
<1>2. /\ unsent' = unsent /\ unacked' = unacked /\ snd' = snd /\ written' = written
      /\ sentTold' = sentTold /\ rcv' = rcv /\ refused' = refused /\ given' = given
  BY DEF Lose, sender, receiver
<1>3. /\ data' \in Seq(Packets)
      /\ \A i \in DOMAIN data' : PacketInv(data'[i], snd, Len(written), rcv)
  <2>1. CASE data' = data
    BY <1>1, <2>1 DEF IInv
  <2>2. ASSUME NEW i \in DOMAIN data, data' = RemoveAt(data, i)
        PROVE  /\ data' \in Seq(Packets)
               /\ \A j \in DOMAIN data' : PacketInv(data'[j], snd, Len(written), rcv)
    <3>1. data' = Left(data, i, FALSE)
      BY <2>2 DEF Left
    <3>2. /\ data' \in Seq(Packets)
          /\ \A j \in DOMAIN data' : \E k \in DOMAIN data : data'[j] = data[k]
      BY <1>1, <3>1, LeftOf
    <3>. QED
      BY <3>2 DEF IInv
  <2>. QED
    BY <2>1, <2>2 DEF Lose
<1>4. /\ acks' \in Seq(Acks)
      /\ \A i \in DOMAIN acks' : AckInv(acks'[i], snd, rcv)
      /\ \A i, j \in DOMAIN acks' : Further(acks'[i], acks'[j])
  <2>1. CASE acks' = acks
    BY <1>1, <2>1 DEF IInv
  <2>2. ASSUME NEW i \in DOMAIN acks, acks' = RemoveAt(acks, i)
        PROVE  /\ acks' \in Seq(Acks)
               /\ \A k \in DOMAIN acks' : AckInv(acks'[k], snd, rcv)
               /\ \A k, j \in DOMAIN acks' : Further(acks'[k], acks'[j])
    <3>1. acks' = Left(acks, i, FALSE)
      BY <2>2 DEF Left
    <3>2. /\ acks' \in Seq(Acks)
          /\ \A j \in DOMAIN acks' : \E k \in DOMAIN acks : acks'[j] = acks[k]
      BY <1>1, <3>1, LeftOf
    <3>. QED
      BY <3>2 DEF IInv
  <2>. QED
    BY <2>1, <2>2 DEF Lose
<1>5. TypeInv'
  BY <1>2, <1>3, <1>4 DEF IInv, TypeInv
<1>6. Open' => QueueInv(Outstanding', Len(unacked'), snd', Len(written')) /\ SentExact'
  BY <1>2 DEF IInv, Open, Outstanding, SentExact
<1>. QED
  BY <1>2, <1>3, <1>4, <1>5, <1>6 DEF IInv, WrittenInv

LEMMA FastTmrStep ==
  ASSUME IInv, NEW b \in BOOLEAN, FastTmr(b)
  PROVE  IInv'
<1>. DEFINE r == IF rcv.delayed THEN Sent(rcv) ELSE rcv
            p == Offer(r, refused, b)
            w == Len(written)
<1>1. /\ rcv \in Receivers /\ snd \in Senders /\ w \in 0 .. StreamLen
      /\ w \in Nat /\ ReceiverInv(rcv, refused, given, snd, w)
  BY WrittenType DEF IInv
<1>2. /\ refused \in [bytes : Seq(Nat), fin : BOOLEAN] /\ given \in Seq(Nat)
      /\ acks \in Seq(Acks) /\ data \in Seq(Packets)
  BY DEF IInv, TypeInv
<1>3. /\ acks' = IF rcv.delayed THEN Append(acks, AckOf(rcv)) ELSE acks
      /\ rcv' = p.rcv /\ refused' = p.refused /\ given' = given \o p.given
      /\ UNCHANGED <<sender, data>>
  BY DEF FastTmr
<1>. HIDE DEF w, p
<1>4. Window(rcv) /\ ReceiverInv(Sent(rcv), refused, given, snd, w)
  BY <1>1, SentKeeps
<1>5. /\ Sent(rcv) \in Receivers /\ Sent(rcv).nxt = rcv.nxt
      /\ Off(Sent(rcv).edge) = Off(rcv.nxt) + rcv.ann /\ Off(rcv.edge) <= Off(Sent(rcv).edge)
      /\ AckOf(rcv) \in Acks /\ AckOf(rcv).ack = rcv.nxt /\ AckOf(rcv).wnd = rcv.ann
  BY <1>1, <1>4, SentIs
<1>6. /\ Off(rcv.nxt) \in Nat /\ Off(rcv.edge) \in Nat /\ rcv.ann \in Nat
  BY <1>1, ReceiverType
<1>7. /\ r \in Receivers /\ r.nxt = rcv.nxt /\ Off(rcv.edge) <= Off(r.edge)
      /\ ReceiverInv(r, refused, given, snd, w)
  BY <1>1, <1>4, <1>5, <1>6
<1>. HIDE DEF r
<1>8. /\ rcv' \in Receivers /\ rcv'.nxt = r.nxt /\ rcv'.edge = r.edge
      /\ refused' \in [bytes : Seq(Nat), fin : BOOLEAN] /\ given' \in Seq(Nat)
      /\ ReceiverInv(rcv', refused', given', snd, w)
  <2>1. CASE b
    <3>1. refused.bytes \in Seq(Nat) /\ refused.fin \in BOOLEAN
      BY <1>2
    <3>2. /\ p.rcv = r /\ p.given = <<>>
          /\ p.refused = [bytes |-> refused.bytes, fin |-> refused.fin]
      BY <1>7, <2>1, <3>1, OfferIs DEF p, OfferedAs
    <3>3. p.refused = refused /\ given \o p.given = given
      BY <1>2, <3>2
    <3>. QED
      BY <1>2, <1>3, <1>7, <3>2, <3>3
  <2>2. CASE b = FALSE
    <3>1. /\ p.rcv \in Receivers /\ p.rcv.nxt = r.nxt /\ p.rcv.edge = r.edge
          /\ p.refused = Nothing /\ given \o p.given \in Seq(Nat)
          /\ ReceiverInv(p.rcv, p.refused, given \o p.given, snd, w)
      <4>. DEFINE z == Offer(r, refused, FALSE)
      <4>1. /\ z.rcv \in Receivers /\ z.rcv.nxt = r.nxt /\ z.rcv.edge = r.edge
            /\ z.refused = Nothing /\ given \o z.given \in Seq(Nat)
            /\ ReceiverInv(z.rcv, z.refused, given \o z.given, snd, w)
        <5>1. TakenAs(z, r, refused, given, snd, w)
          BY <1>1, <1>2, <1>7, Taken
        <5>. HIDE DEF z, r, w
        <5>. QED
          BY ONLY <5>1 DEF TakenAs
      <4>2. p = z
        BY <2>2 DEF p
      <4>. HIDE DEF z
      <4>. QED
        BY ONLY <4>1, <4>2
    <3>2. Nothing \in [bytes : Seq(Nat), fin : BOOLEAN]
      BY DEF Nothing
    <3>. QED
      BY <1>3, <3>1, <3>2
  <2>. QED
    BY <2>1, <2>2
<1>9. /\ data' \in Seq(Packets) /\ UNCHANGED sender
      /\ \A i \in DOMAIN data' : PacketInv(data'[i], snd, Len(written), rcv)
  BY <1>2, <1>3 DEF IInv
<1>10. /\ Off(rcv.nxt) <= Off(rcv'.nxt) /\ Off(rcv.edge) <= Off(rcv'.edge)
       /\ ReceiverInv(rcv', refused', given', snd, Len(written))
  BY <1>6, <1>7, <1>8 DEF w
<1>11. CASE rcv.delayed
  <2>. DEFINE news == <<AckOf(rcv)>>
  <2>1. acks' = acks \o news
    BY <1>2, <1>3, <1>5, <1>11, AppendIsConcat
  <2>2. /\ news \in Seq(Acks) /\ Len(news) <= 1 /\ \A i \in 1 .. Len(news) : i = 1
        /\ news[1] = AckOf(rcv)
    BY <1>5
  <2>. HIDE DEF news
  <2>3. /\ Off(rcv.nxt) <= Off(news[1].ack) /\ Off(news[1].ack) <= Off(rcv'.nxt)
        /\ Off(rcv.edge) <= Off(news[1].ack) + news[1].wnd
        /\ Off(news[1].ack) + news[1].wnd <= Off(rcv'.edge)
    <3>1. r = Sent(rcv)
      BY <1>11 DEF r
    <3>2. Off(rcv'.edge) = Off(rcv.nxt) + rcv.ann
      BY <1>5, <1>8, <3>1
    <3>. QED
      BY <1>4, <1>5, <1>6, <1>7, <1>8, <2>2, <3>2 DEF Window
  <2>. QED
    BY <1>8, <1>9, <1>10, <2>1, <2>2, <2>3, ReceiverStep
<1>12. CASE ~rcv.delayed
  <2>. DEFINE news == <<>>
  <2>1. acks' = acks \o news
    BY <1>2, <1>3, <1>12
  <2>2. news \in Seq(Acks) /\ Len(news) <= 1 /\ \A i \in 1 .. Len(news) : FALSE
    OBVIOUS
  <2>. HIDE DEF news
  <2>. QED
    BY <1>8, <1>9, <1>10, <2>1, <2>2, ReceiverStep
<1>. QED
  BY <1>11, <1>12

(* What is left of a segment is part of the stream as well.                *)
LEMMA FrontTrimmedIs ==
  ASSUME NEW r \in Receivers, NEW p \in Packets, NEW s \in Senders, NEW w \in 0 .. StreamLen,
         Off(r.nxt) <= StreamLen + 1, Holds(p, s, w)
  PROVE  LET c == FrontTrimmed(r, p)
         IN  /\ c \in Packets /\ Holds(c, s, w) /\ EndOff(c) = EndOff(p)
             /\ EndOff(p) <= Off(r.nxt) => c = p
<1>. DEFINE n == Off(r.nxt)
            a == Off(p.seq)
            l == TcpLen(p)
            m == SegLen(p)
            e == IF p.fin THEN 1 ELSE 0
            inside == Between(r.nxt, Plus(p.seq, 1), Plus(p.seq, TcpLen(p) - 1))
<1>1. /\ r.nxt \in Seqs /\ n \in Nat /\ n <= StreamLen + 1
      /\ p.seq \in Seqs /\ p.bytes \in Seq(Nat) /\ p.fin \in BOOLEAN
      /\ a \in Nat /\ l \in Nat /\ m \in Nat /\ e \in {0, 1} /\ l = m + e /\ l >= 1
      /\ a + l = EndOff(p) /\ a + m = BytesEnd(p) /\ a + m <= w
      /\ w \in Nat /\ w <= StreamLen
  <2>1. r.nxt \in Seqs /\ n \in Nat
    BY ReceiverType
  <2>2. p.seq \in Seqs /\ p.bytes \in Seq(Nat) /\ p.fin \in BOOLEAN
    BY DEF Packets
  <2>3. p \in Segments \cup Packets
    OBVIOUS
  <2>4. a \in Nat /\ l \in Nat /\ m \in Nat /\ EndOff(p) = BytesEnd(p) + e
    BY <2>3, SegEndOff
  <2>5. a + l = EndOff(p) /\ a + m = BytesEnd(p)
    BY DEF EndOff, BytesEnd
  <2>6. l >= 1 /\ BytesEnd(p) <= w
    BY DEF Holds
  <2>7. w \in Nat /\ w <= StreamLen
    BY Constants
  <2>8. e \in {0, 1}
    OBVIOUS
  <2>. HIDE DEF a, l, m, e
  <2>9. l = m + e
    BY <2>4, <2>5, <2>8
  <2>. QED
    BY <2>1, <2>2, <2>4, <2>5, <2>6, <2>7, <2>8, <2>9
<1>2. inside <=> a + 1 <= n /\ n <= a + l - 1
  <2>1. /\ a + 1 < SeqModulus /\ a + (l - 1) < SeqModulus /\ l - 1 \in Nat
        /\ a + 1 <= StreamLen + Wnd + 1 /\ a + (l - 1) <= StreamLen + Wnd + 1
    <3>. HIDE DEF a, l, m, e
    <3>1. a + l <= StreamLen + 1
      BY <1>1, Constants
    <3>2. /\ StreamLen + 2 <= SeqModulus /\ StreamLen \in Nat /\ Wnd \in Nat
          /\ SeqModulus \in Nat
      BY Constants
    <3>3. a \in Nat /\ l \in Nat /\ l >= 1
      BY <1>1
    <3>. QED
      BY ONLY <3>1, <3>2, <3>3
  <2>2. /\ Plus(p.seq, 1) \in Seqs /\ Off(Plus(p.seq, 1)) = a + 1
        /\ Plus(p.seq, TcpLen(p) - 1) \in Seqs /\ Off(Plus(p.seq, TcpLen(p) - 1)) = a + (l - 1)
    BY <1>1, <2>1, PlusOff
  <2>3. Near(r.nxt) /\ Near(Plus(p.seq, 1)) /\ Near(Plus(p.seq, TcpLen(p) - 1))
    BY <1>1, <2>1, <2>2, Constants DEF Near
  <2>4. /\ Leq(Plus(p.seq, 1), r.nxt) <=> Off(Plus(p.seq, 1)) <= Off(r.nxt)
        /\ Leq(r.nxt, Plus(p.seq, TcpLen(p) - 1)) <=> Off(r.nxt) <= Off(Plus(p.seq, TcpLen(p) - 1))
    BY <2>3, LtNear
  <2>5. a + (l - 1) = a + l - 1
    BY <1>1
  <2>. QED
    BY <2>2, <2>4, <2>5 DEF Between
<1>3. CASE ~inside
  <2>1. FrontTrimmed(r, p) = p
    BY <1>3 DEF FrontTrimmed
  <2>. QED
    BY <2>1
<1>4. CASE inside
  <2>. DEFINE off == Minus(r.nxt, p.seq)
              bs == SubSeq(p.bytes, off + 1, Len(p.bytes))
              c == [p EXCEPT !.seq = r.nxt, !.bytes = bs]
  <2>1. FrontTrimmed(r, p) = c
    BY <1>4 DEF FrontTrimmed
  <2>2. off = n - a /\ off \in Nat /\ off <= m /\ a + off = n /\ m = Len(p.bytes)
    <3>1. Minus(r.nxt, p.seq) = IF n >= a THEN n - a ELSE n - a + SeqModulus
      BY <1>1, MinusOff
    <3>2. m = Len(p.bytes)
      BY DEF SegLen
    <3>. HIDE DEF n, a, l, m, e
    <3>. QED
      BY <1>1, <1>2, <1>4, <3>1, <3>2
  <2>. HIDE DEF off
  <2>3. bs \in Seq(Nat) /\ Len(bs) = m - off /\ \A k \in 1 .. m - off : bs[k] = p.bytes[off + k]
    <3>1. off \in 0 .. Len(p.bytes)
      BY <1>1, <2>2
    <3>. DEFINE ps == p.bytes
                gone == SubSeq(ps, 1, off)
    <3>2. ps \in Seq(Nat) /\ off \in 0 .. Len(ps)
      BY <1>1, <3>1
    <3>. HIDE DEF ps
    <3>3. CutInTwo(Nat, ps, off, gone, SubSeq(ps, off + 1, Len(ps)))
      BY ONLY <3>2, PartsAre
    <3>4. CutInTwo(Nat, p.bytes, off, gone, bs) /\ m = Len(p.bytes)
      BY <2>2, <3>3 DEF ps
    <3>. HIDE DEF m, gone, bs
    <3>. QED
      BY ONLY <3>4 DEF CutInTwo
  <2>. HIDE DEF bs
  <2>4. c \in Packets /\ c.seq = r.nxt /\ c.bytes = bs /\ c.fin = p.fin
    BY <1>1, <2>3 DEF Packets
  <2>. HIDE DEF c
  <2>5. SegLen(c) = m - off /\ TcpLen(c) = l - off /\ Off(c.seq) = n
    <3>1. SegLen(c) = m - off
      BY <2>3, <2>4 DEF SegLen
    <3>2. TcpLen(c) = SegLen(c) + e
      BY <2>4 DEF TcpLen, SegLen
    <3>3. Off(c.seq) = n
      BY <2>4
    <3>4. l = m + e /\ l \in Nat /\ m \in Nat /\ e \in {0, 1} /\ off \in Nat
      BY <1>1, <2>2
    <3>. HIDE DEF m, l, e, n
    <3>. QED
      BY ONLY <3>1, <3>2, <3>3, <3>4
  <2>. HIDE DEF a, l, m, n
  <2>6. EndOff(c) = a + l /\ BytesEnd(c) = a + m /\ TcpLen(c) >= 1
    <3>1. EndOff(c) = n + (l - off) /\ BytesEnd(c) = n + (m - off)
      BY <2>5 DEF EndOff, BytesEnd
    <3>2. n <= a + l - 1
      BY <1>2, <1>4
    <3>3. n \in Nat /\ a \in Nat /\ l \in Nat /\ m \in Nat
      BY <1>1
    <3>4. off \in Nat /\ a + off = n
      BY <2>2
    <3>5. n + (l - off) = a + l /\ n + (m - off) = a + m /\ l - off >= 1
      BY <3>2, <3>3, <3>4
    <3>. QED
      BY <2>5, <3>1, <3>5
  <2>7. ASSUME NEW k \in 1 .. SegLen(c) PROVE c.bytes[k] = Off(c.seq) + k
    <3>1. k \in 1 .. m - off /\ off + k \in 1 .. m /\ k \in Nat
      BY <1>1, <2>2, <2>5
    <3>2. c.bytes[k] = p.bytes[off + k]
      BY <2>3, <2>4, <3>1
    <3>3. p.bytes[off + k] = a + (off + k)
      BY <3>1 DEF Holds, a, m
    <3>. QED
      BY <1>1, <2>2, <2>5, <3>1, <3>2, <3>3
  <2>8. Holds(c, s, w)
    <3>1. p.fin => s.fin /\ a + m = w
      BY <1>1 DEF Holds
    <3>. QED
      BY <1>1, <2>4, <2>6, <2>7, <3>1 DEF Holds
  <2>9. ~(EndOff(p) <= n)
    BY <1>1, <1>2, <1>4
  <2>. QED
    BY <1>1, <2>1, <2>4, <2>6, <2>8, <2>9 DEF n
<1>. QED
  BY <1>3, <1>4

LEMMA EndTrimmedIs ==
  ASSUME NEW r \in Receivers, NEW p \in Packets, NEW s \in Senders, NEW w \in 0 .. StreamLen,
         r.wnd >= 1, Holds(p, s, w)
  PROVE  LET c == EndTrimmed(r, p)
         IN  /\ c \in Packets /\ Holds(c, s, w) /\ c.seq = p.seq
             /\ TcpLen(c) <= r.wnd /\ EndOff(c) <= EndOff(p)
<1>. DEFINE a == Off(p.seq)
            l == TcpLen(p)
            m == SegLen(p)
            e == IF p.fin THEN 1 ELSE 0
<1>1. /\ p.seq \in Seqs /\ p.bytes \in Seq(Nat) /\ p.fin \in BOOLEAN
      /\ a \in Nat /\ l \in Nat /\ m \in Nat /\ e \in {0, 1} /\ l = m + e
      /\ a + l = EndOff(p) /\ a + m = BytesEnd(p) /\ a + m <= w
      /\ w \in Nat /\ r.wnd \in Nat /\ m = Len(p.bytes)
  <2>2. p.seq \in Seqs /\ p.bytes \in Seq(Nat) /\ p.fin \in BOOLEAN
    BY DEF Packets
  <2>3. p \in Segments \cup Packets
    OBVIOUS
  <2>4. a \in Nat /\ l \in Nat /\ m \in Nat /\ EndOff(p) = BytesEnd(p) + e
    BY <2>3, SegEndOff
  <2>5. a + l = EndOff(p) /\ a + m = BytesEnd(p)
    BY DEF EndOff, BytesEnd
  <2>6. BytesEnd(p) <= w
    BY DEF Holds
  <2>7. w \in Nat /\ r.wnd \in Nat
    BY Constants, ReceiverType
  <2>8. e \in {0, 1} /\ m = Len(p.bytes)
    BY DEF SegLen
  <2>. HIDE DEF a, l, m, e
  <2>9. l = m + e
    BY <2>4, <2>5, <2>8
  <2>. QED
    BY <2>2, <2>4, <2>5, <2>6, <2>7, <2>8, <2>9
<1>2. CASE ~(TcpLen(p) > r.wnd)
  <2>1. EndTrimmed(r, p) = p
    BY <1>2 DEF EndTrimmed
  <2>2. TcpLen(p) <= r.wnd
    <3>. HIDE DEF e, m, a
    <3>. QED
      BY <1>1, <1>2
  <2>3. EndOff(p) <= EndOff(p)
    <3>. HIDE DEF e, m, a, l
    <3>. QED
      BY <1>1
  <2>. QED
    BY <2>1, <2>2, <2>3
<1>3. CASE TcpLen(p) > r.wnd
  <2>. DEFINE n == r.wnd
              bs == SubSeq(p.bytes, 1, r.wnd)
              c == [p EXCEPT !.bytes = bs, !.fin = FALSE]
  <2>1. EndTrimmed(r, p) = c
    BY <1>3 DEF EndTrimmed
  <2>2. n <= m /\ n >= 1 /\ n \in Nat /\ n < l
    <3>1. n < l
      BY <1>1, <1>3
    <3>. HIDE DEF e, m, a, l
    <3>. QED
      BY <1>1, <3>1
  <2>3. bs \in Seq(Nat) /\ Len(bs) = n /\ \A k \in 1 .. n : bs[k] = p.bytes[k]
    <3>1. n \in 0 .. Len(p.bytes)
      BY <1>1, <2>2
    <3>. HIDE DEF m, n, a, l, e
    <3>2. p.bytes \in Seq(Nat)
      BY <1>1
    <3>3. bs = SubSeq(p.bytes, 1, n)
      BY DEF n
    <3>. DEFINE y == p.bytes
    <3>4. y \in Seq(Nat) /\ n \in 0 .. Len(y) /\ bs = SubSeq(y, 1, n)
      BY <3>1, <3>2, <3>3
    <3>. HIDE DEF bs, y
    <3>5. bs \in Seq(Nat) /\ Len(bs) = n /\ \A k \in 1 .. n : bs[k] = y[k]
      BY <3>4, Parts
    <3>. QED
      BY <3>5 DEF y
  <2>. HIDE DEF bs
  <2>4. c \in Packets /\ c.seq = p.seq /\ c.bytes = bs /\ c.fin = FALSE
    BY <1>1, <2>3 DEF Packets
  <2>. HIDE DEF c
  <2>5. SegLen(c) = n /\ TcpLen(c) = n /\ Off(c.seq) = a
    BY <2>2, <2>3, <2>4 DEF SegLen, TcpLen
  <2>. HIDE DEF a, l, m, n, e
  <2>6. EndOff(c) = a + n /\ BytesEnd(c) = a + n
    BY <2>5 DEF EndOff, BytesEnd
  <2>7. ASSUME NEW k \in 1 .. SegLen(c) PROVE c.bytes[k] = Off(c.seq) + k
    <3>1. k \in 1 .. n /\ k \in 1 .. m
      BY <1>1, <2>2, <2>5
    <3>2. p.bytes[k] = a + k
      BY <3>1 DEF Holds, a, m
    <3>. QED
      BY <2>3, <2>4, <2>5, <3>1, <3>2
  <2>8. Holds(c, s, w)
    BY <1>1, <2>2, <2>4, <2>5, <2>6, <2>7 DEF Holds
  <2>. QED
    BY <1>1, <2>1, <2>2, <2>4, <2>5, <2>6, <2>8 DEF n
<1>. QED
  BY <1>2, <1>3

(* What a step of the receiver from r to u may answer.                     *)
Answers(news, r, u) ==
  /\ news \in Seq(Acks) /\ Len(news) <= 1
  /\ \A i \in 1 .. Len(news) :
       /\ Off(r.nxt) <= Off(news[i].ack) /\ Off(news[i].ack) <= Off(u.nxt)
       /\ Off(r.edge) <= Off(news[i].ack) + news[i].wnd
       /\ Off(news[i].ack) + news[i].wnd <= Off(u.edge)

(* The receiver takes or refuses a segment of the stream that is the next. *)
LEMMA AcceptedIs ==
  ASSUME NEW r \in Receivers, NEW c \in Packets, NEW b \in BOOLEAN, NEW g \in Seq(Nat),
         NEW s \in Senders, NEW w \in 0 .. StreamLen,
         c.seq = r.nxt, Holds(c, s, w), EndOff(c) <= Reach(s), r.wnd >= 1,
         ReceiverInv(r, Nothing, g, s, w), ~r.ended
  PROVE  LET p == Accepted(r, c, b)
         IN  /\ p.rcv \in Receivers /\ p.refused \in [bytes : Seq(Nat), fin : BOOLEAN]
             /\ g \o p.given \in Seq(Nat)
             /\ Off(r.nxt) <= Off(p.rcv.nxt) /\ Off(r.edge) <= Off(p.rcv.edge)
             /\ ReceiverInv(p.rcv, p.refused, g \o p.given, s, w)
             /\ Answers(p.acks, r, p.rcv)
             /\ b => p.given = <<>>
<1>. DEFINE e == EndTrimmed(r, c)
            n == TcpLen(e)
            f == [bytes |-> e.bytes, fin |-> e.fin]
            t == [r EXCEPT !.nxt = Plus(@, n), !.wnd = @ - n, !.delayed = TRUE]
            moved == Announced(t)
            p == Offer(moved, e, b)
            now == r.delayed \/ e.fin
            new == Accepted(r, c, b)
<1>1. /\ e \in Packets /\ Holds(e, s, w) /\ e.seq = r.nxt
      /\ n <= r.wnd /\ EndOff(e) <= EndOff(c)
  BY EndTrimmedIs
<1>2. /\ new.rcv = IF now THEN Sent(p.rcv) ELSE p.rcv
      /\ new.refused = p.refused /\ new.given = p.given
      /\ new.acks = IF now THEN <<AckOf(p.rcv)>> ELSE <<>>
  BY DEF Accepted
<1>. HIDE DEF new
<1>3. /\ r.nxt \in Seqs /\ Off(r.nxt) \in Nat /\ Off(r.edge) \in Nat
      /\ r.wnd \in Nat /\ r.wnd <= Wnd /\ r.ann \in Nat
      /\ w \in Nat /\ w <= StreamLen /\ Reach(s) \in Nat
  <2>1. Off(s.nxt) \in Nat /\ Off(s.lastack) \in Nat
    BY SenderType
  <2>2. Reach(s) \in Nat
    BY <2>1 DEF Reach, MaxOf
  <2>. QED
    BY <2>2, ReceiverType, Constants
<1>. HIDE DEF e
<1>4. /\ e.bytes \in Seq(Nat) /\ e.fin \in BOOLEAN /\ Len(e.bytes) \in Nat
      /\ f \in [bytes : Seq(Nat), fin : BOOLEAN] /\ f.bytes = e.bytes /\ f.fin = e.fin
  BY <1>1 DEF Packets
<1>. HIDE DEF f
<1>. DEFINE l == Len(e.bytes)
            x == IF e.fin THEN 1 ELSE 0
            N == Off(r.nxt)
            E == Off(r.edge)
            v == r.wnd
            rs == Reach(s)
<1>5. /\ n \in Nat /\ n >= 1 /\ l \in Nat /\ x \in {0, 1} /\ n = l + x
      /\ N \in Nat /\ E \in Nat /\ v \in Nat /\ n <= v /\ rs \in Nat
      /\ N + n = EndOff(e) /\ N + l = BytesEnd(e)
  <2>1. n >= 1 /\ n <= v
    BY <1>1 DEF Holds
  <2>2. l = SegLen(e)
    BY DEF SegLen
  <2>3. N + n = EndOff(e) /\ N + l = BytesEnd(e)
    BY <1>1, <2>2 DEF EndOff, BytesEnd
  <2>4. e \in Segments \cup Packets
    BY <1>1
  <2>5. n \in Nat /\ EndOff(e) = BytesEnd(e) + x
    BY <2>4, SegEndOff
  <2>6. l \in Nat /\ x \in {0, 1}
    BY <1>4
  <2>7. N \in Nat /\ E \in Nat /\ v \in Nat /\ rs \in Nat
    BY <1>3
  <2>. HIDE DEF n, l, x, N, E, v, rs
  <2>8. n = l + x
    BY <2>3, <2>5, <2>6, <2>7
  <2>. QED
    BY <2>1, <2>3, <2>5, <2>6, <2>7, <2>8
<1>. HIDE DEF n
<1>6. /\ N + n <= w + 1 /\ N + n <= rs /\ N + l <= w
      /\ e.fin => s.fin /\ N + l = w
      /\ e.fin => x = 1
      /\ ~e.fin => x = 0
  <2>1. BytesEnd(e) <= w /\ (e.fin => s.fin /\ BytesEnd(e) = w)
    BY <1>1 DEF Holds
  <2>2. N + l <= w /\ (e.fin => s.fin /\ N + l = w)
    BY <1>5, <2>1
  <2>3. (e.fin => x = 1) /\ (~e.fin => x = 0)
    OBVIOUS
  <2>4. EndOff(c) \in Nat
    BY SegEndOff
  <2>5. EndOff(e) <= EndOff(c) /\ EndOff(c) <= rs
    BY <1>1
  <2>. HIDE DEF l, x, N, rs
  <2>6. N + n <= w + 1
    BY <1>3, <1>5, <2>2
  <2>7. N + n <= rs
    BY <1>5, <2>4, <2>5
  <2>. QED
    BY <2>2, <2>3, <2>6, <2>7
<1>7. Plus(r.nxt, n) \in Seqs /\ Off(Plus(r.nxt, n)) = N + n
  <2>1. N + n < SeqModulus
    <3>1. w + 1 < SeqModulus /\ w \in Nat /\ SeqModulus \in Nat
      BY <1>3, Constants
    <3>2. N + n <= w + 1 /\ N \in Nat /\ n \in Nat
      BY <1>5, <1>6
    <3>. HIDE DEF N
    <3>. QED
      BY <3>1, <3>2
  <2>2. r.nxt \in Seqs /\ n \in Nat
    BY <1>3, <1>5
  <2>. QED
    BY <2>1, <2>2, PlusOff
<1>8. v - n \in 0 .. Wnd
  <2>1. v <= Wnd /\ Wnd \in Nat
    BY <1>3, Constants
  <2>2. v \in Nat /\ n \in Nat /\ n <= v
    BY <1>5
  <2>. HIDE DEF v
  <2>. QED
    BY <2>1, <2>2
<1>9. /\ t \in Receivers /\ t.nxt = Plus(r.nxt, n) /\ t.wnd = v - n
      /\ t.edge = r.edge /\ t.ended = r.ended
  <2>. DEFINE z == v - n
              y == Plus(r.nxt, n)
  <2>1. z \in 0 .. Wnd /\ y \in Seqs
    BY <1>7, <1>8
  <2>2. t = [r EXCEPT !.nxt = y, !.wnd = z, !.delayed = TRUE]
    OBVIOUS
  <2>. HIDE DEF z, y, t
  <2>3. /\ t \in Receivers /\ t.nxt = y /\ t.wnd = z
        /\ t.edge = r.edge /\ t.ended = r.ended
    BY <2>1, <2>2 DEF Receivers
  <2>. QED
    BY <2>3 DEF y, z
<1>. HIDE DEF t
<1>10. E <= N + r.ann /\ r.ann <= v
       /\ Len(g) = N /\ \A k \in 1 .. Len(g) : g[k] = k
  <2>1. ~EndKnown(r, Nothing) /\ Nothing.bytes = <<>> /\ Len(<<>>) = 0
    BY DEF EndKnown, Nothing
  <2>2. Len(g) + 0 = N - 0
    BY <2>1 DEF ReceiverInv
  <2>3. Len(g) \in Nat /\ N \in Nat
    BY <1>5
  <2>4. E <= N + r.ann /\ r.ann <= v /\ \A k \in 1 .. Len(g) : g[k] = k
    BY DEF ReceiverInv
  <2>. HIDE DEF N, E, v
  <2>5. Len(g) = N
    BY ONLY <2>2, <2>3
  <2>. QED
    BY ONLY <2>4, <2>5
<1>11. Off(t.nxt) <= StreamLen + 1 /\ Off(t.edge) <= Off(t.nxt) + t.wnd
  <2>1. Off(t.nxt) = N + n /\ Off(t.edge) = E /\ t.wnd = v - n
    BY <1>7, <1>9
  <2>2. w <= StreamLen /\ w \in Nat /\ StreamLen \in Nat
    BY Constants
  <2>3. r.ann \in Nat
    BY <1>3
  <2>. HIDE DEF N, E, v
  <2>4. N + n <= StreamLen + 1
    <3>1. N \in Nat /\ n \in Nat /\ N + n <= w + 1
      BY <1>5, <1>6
    <3>. QED
      BY <2>2, <3>1
  <2>5. E <= (N + n) + (v - n)
    <3>1. N \in Nat /\ n \in Nat /\ v \in Nat /\ E \in Nat /\ E <= N + r.ann /\ r.ann <= v
      BY <1>5, <1>10
    <3>. QED
      BY <2>3, <3>1
  <2>. QED
    BY <2>1, <2>4, <2>5
<1>12. /\ moved \in Receivers /\ Window(moved) /\ moved.nxt = t.nxt /\ moved.edge = r.edge
       /\ moved.ended = r.ended
  BY <1>9, <1>11, AnnouncedIs
<1>. HIDE DEF moved
<1>13. Off(moved.nxt) = N + n
  BY <1>7, <1>9, <1>12
<1>14. ReceiverInv(moved, f, g, s, w)
  <2>1. EndKnown(moved, f) <=> e.fin
    BY <1>4, <1>12 DEF EndKnown
  <2>. DEFINE k1 == IF EndKnown(moved, f) THEN 1 ELSE 0
  <2>2. k1 = x
    BY <2>1
  <2>3. Len(g) + Len(f.bytes) = Off(moved.nxt) - k1
    <3>1. Len(g) = N /\ Len(f.bytes) = l /\ Off(moved.nxt) = N + n
      BY <1>4, <1>10, <1>13
    <3>. HIDE DEF k1, x, l, N
    <3>2. N + l = (N + n) - x
      BY <1>5
    <3>. QED
      BY <2>2, <3>1, <3>2
  <2>4. ASSUME NEW k \in 1 .. Len(f.bytes) PROVE f.bytes[k] = Len(g) + k
    <3>1. k \in 1 .. SegLen(e)
      BY <1>4 DEF SegLen
    <3>2. e.bytes[k] = Off(e.seq) + k
      BY <1>1, <3>1 DEF Holds
    <3>. QED
      BY <1>1, <1>4, <1>10, <3>2
  <2>5. /\ EndKnown(moved, f) => s.fin /\ Off(moved.nxt) = w + 1
        /\ ~EndKnown(moved, f) => Off(moved.nxt) <= w
    <3>. HIDE DEF x, l, N
    <3>1. CASE e.fin
      <4>1. N + n = w + 1 /\ s.fin
        BY <1>3, <1>5, <1>6, <3>1
      <4>. QED
        BY <1>13, <2>1, <3>1, <4>1
    <3>2. CASE ~e.fin
      <4>1. N + n <= w
        BY <1>3, <1>5, <1>6, <3>2
      <4>. QED
        BY <1>13, <2>1, <3>2, <4>1
    <3>. QED
      BY <3>1, <3>2
  <2>6. ~moved.ended
    BY <1>12
  <2>7. Off(moved.nxt) <= Reach(s)
    BY <1>6, <1>13
  <2>8. Off(moved.edge) <= Off(moved.nxt) + moved.ann /\ moved.ann <= moved.wnd
    BY <1>12 DEF Window
  <2>. QED
    BY <1>10, <2>3, <2>4, <2>5, <2>6, <2>7, <2>8 DEF ReceiverInv
<1>15. /\ p.rcv \in Receivers /\ p.rcv.nxt = moved.nxt /\ p.rcv.edge = r.edge
       /\ p.refused \in [bytes : Seq(Nat), fin : BOOLEAN]
       /\ g \o p.given \in Seq(Nat) /\ (b => p.given = <<>>)
       /\ ReceiverInv(p.rcv, p.refused, g \o p.given, s, w)
  <2>1. CASE b
    <3>1. /\ p.rcv = moved /\ p.given = <<>> /\ p.refused = f
      BY <1>4, <1>12, <2>1, OfferIs DEF f, OfferedAs
    <3>2. g \o <<>> = g
      OBVIOUS
    <3>. QED
      BY <1>4, <1>12, <1>14, <3>1, <3>2
  <2>2. CASE ~b
    <3>1. p = Offer(moved, f, FALSE)
      BY <1>4, <2>2 DEF Offer
    <3>. HIDE DEF p
    <3>2. /\ p.rcv \in Receivers /\ p.rcv.nxt = moved.nxt /\ p.rcv.edge = moved.edge
          /\ p.refused = Nothing /\ g \o p.given \in Seq(Nat)
          /\ ReceiverInv(p.rcv, p.refused, g \o p.given, s, w)
      BY <1>3, <1>4, <1>12, <1>14, <3>1, Taken DEF TakenAs
    <3>3. Nothing \in [bytes : Seq(Nat), fin : BOOLEAN]
      BY DEF Nothing
    <3>. QED
      BY <1>12, <2>2, <3>2, <3>3
  <2>. QED
    BY <2>1, <2>2
<1>. HIDE DEF p
<1>16. Off(r.nxt) <= Off(p.rcv.nxt)
  <2>1. Off(p.rcv.nxt) = N + n
    BY <1>13, <1>15
  <2>2. N <= N + n
    <3>1. N \in Nat /\ n \in Nat
      BY <1>5
    <3>. HIDE DEF N
    <3>. QED
      BY <3>1
  <2>. QED
    BY <2>1, <2>2
<1>17. CASE now
  <2>1. Window(p.rcv) /\ ReceiverInv(Sent(p.rcv), p.refused, g \o p.given, s, w)
    BY <1>15, SentKeeps
  <2>. DEFINE u == Sent(p.rcv)
  <2>2. /\ u \in Receivers /\ Window(u)
        /\ u.nxt = p.rcv.nxt
        /\ Off(u.edge) = Off(p.rcv.nxt) + p.rcv.ann /\ Off(p.rcv.edge) <= Off(u.edge)
        /\ AckOf(p.rcv) \in Acks /\ AckOf(p.rcv).ack = p.rcv.nxt /\ AckOf(p.rcv).wnd = p.rcv.ann
    BY <1>15, <2>1, SentIs
  <2>3. new.rcv = u /\ new.acks = <<AckOf(p.rcv)>>
    BY <1>2, <1>17
  <2>. HIDE DEF u
  <2>4. Off(u.edge) \in Nat /\ Off(p.rcv.nxt) \in Nat
    BY <1>15, <2>2, ReceiverType
  <2>. DEFINE a == AckOf(p.rcv)
              news == <<AckOf(p.rcv)>>
  <2>5. news \in Seq(Acks) /\ Len(news) = 1 /\ news[1] = a
    BY <2>2
  <2>6. /\ Off(r.nxt) <= Off(a.ack) /\ Off(a.ack) <= Off(u.nxt)
        /\ Off(r.edge) <= Off(a.ack) + a.wnd /\ Off(a.ack) + a.wnd <= Off(u.edge)
    BY <1>15, <1>16, <2>2, <2>4
  <2>. HIDE DEF a, news
  <2>7. Len(news) <= 1 /\ \A i \in 1 .. Len(news) : news[i] = a
    BY <2>5
  <2>8. Answers(news, r, u)
    BY <2>5, <2>6, <2>7 DEF Answers
  <2>9. Off(r.edge) <= Off(u.edge)
    BY <1>15, <2>2
  <2>. QED
    BY <1>2, <1>15, <1>16, <2>1, <2>2, <2>3, <2>8, <2>9 DEF u, new, news
<1>18. CASE ~now
  <2>1. new.rcv = p.rcv /\ new.acks = <<>>
    BY <1>2, <1>18
  <2>2. Answers(<<>>, r, p.rcv)
    BY DEF Answers
  <2>3. Off(r.edge) <= Off(p.rcv.edge)
    BY <1>3, <1>15
  <2>. QED
    BY <1>2, <1>15, <1>16, <2>1, <2>2, <2>3 DEF new
<1>. QED
  BY <1>17, <1>18

LEMMA NextIs ==
  ASSUME NEW r \in Receivers, NEW c \in Packets, Off(r.nxt) <= StreamLen + 1,
         NextInSequence(r, c)
  PROVE  c.seq = r.nxt /\ r.wnd >= 1
<1>1. c.seq = r.nxt /\ Leq(r.nxt, Plus(r.nxt, r.wnd - 1))
  BY DEF NextInSequence, Between
<1>2. r.nxt \in Seqs /\ r.wnd \in Nat
  BY ReceiverType
<1>3. ASSUME r.wnd = 0 PROVE FALSE
  <2>. DEFINE m == SeqModulus
              x == r.nxt + (0 - 1)
              y == x % m
              z == y - r.nxt
  <2>1. m \in Nat /\ m >= 4 /\ r.nxt \in 0 .. m - 1 /\ m \div 2 \in Nat /\ m = 2 * (m \div 2)
    BY <1>2, Constants DEF Seqs
  <2>2. y = IF r.nxt = 0 THEN m - 1 ELSE r.nxt - 1
    <3>1. x \in Int /\ -m <= x /\ x < m /\ x < 2 * m
      BY <2>1
    <3>2. x % m = IF x < 0 THEN x + m ELSE IF x < m THEN x ELSE x - m
      <4>. HIDE DEF x
      <4>. QED
        BY <3>1, Wrapped
    <3>. QED
      BY <2>1, <3>1, <3>2
  <2>3. Plus(r.nxt, r.wnd - 1) = y
    BY <1>3 DEF Plus
  <2>. HIDE DEF y
  <2>4. z \in Int /\ -m <= z /\ z < m /\ z < 2 * m /\ (z = m - 1 \/ z = -1)
    BY <2>1, <2>2
  <2>5. z % m = m - 1
    <3>1. z % m = IF z < 0 THEN z + m ELSE IF z < m THEN z ELSE z - m
      <4>. HIDE DEF z
      <4>. QED
        BY <2>4, Wrapped
    <3>. QED
      BY <2>1, <2>4, <3>1
  <2>6. Minus(y, r.nxt) = m - 1
    BY <2>5 DEF Minus
  <2>. HIDE DEF m
  <2>7. m - 1 >= m \div 2
    BY <2>1
  <2>8. Lt(y, r.nxt)
    BY <2>6, <2>7 DEF Lt, m
  <2>. QED
    BY <1>1, <2>3, <2>8 DEF Leq
<1>. QED
  BY <1>1, <1>2, <1>3

(* What the receiver makes of a segment of the stream.                     *)
LEMMA ReceivedIs ==
  ASSUME NEW s \in Senders, NEW w \in 0 .. StreamLen, rcv \in Receivers,
         refused \in [bytes : Seq(Nat), fin : BOOLEAN], given \in Seq(Nat),
         ReceiverInv(rcv, refused, given, s, w), NEW e \in Packets,
         Holds(e, s, w), EndOff(e) <= Reach(s), NEW b \in BOOLEAN
  PROVE  LET p == Received(e, b)
         IN  /\ p.rcv \in Receivers /\ p.refused \in [bytes : Seq(Nat), fin : BOOLEAN]
             /\ p.given \in Seq(Nat) /\ given \o p.given \in Seq(Nat)
             /\ Off(rcv.nxt) <= Off(p.rcv.nxt) /\ Off(rcv.edge) <= Off(p.rcv.edge)
             /\ ReceiverInv(p.rcv, p.refused, given \o p.given, s, w)
             /\ Answers(p.acks, rcv, p.rcv) /\ (rcv.ended => p.rcv.ended)
<1>. DEFINE old == Offer(rcv, refused, FALSE)
            r == old.rcv
            g == given \o old.given
            cut == FrontTrimmed(r, e)
            next == NextInSequence(r, cut)
            new == IF next THEN Accepted(r, cut, b) ELSE Unexpected(r)
            p == Received(e, b)
<1>0. w \in Nat /\ w <= StreamLen
  BY Constants
<1>1. /\ r \in Receivers /\ r.nxt = rcv.nxt /\ r.edge = rcv.edge
      /\ old.given = refused.bytes /\ old.refused = Nothing /\ g \in Seq(Nat)
      /\ ReceiverInv(r, old.refused, g, s, w) /\ (rcv.ended => r.ended)
  <2>1. /\ old.rcv \in Receivers /\ old.rcv.nxt = rcv.nxt /\ old.rcv.edge = rcv.edge
        /\ old.rcv.ended <=> EndKnown(rcv, refused)
        /\ old.given = refused.bytes /\ old.refused = Nothing /\ given \o old.given \in Seq(Nat)
        /\ ReceiverInv(old.rcv, old.refused, given \o old.given, s, w)
    BY <1>0, Taken DEF TakenAs
  <2>. QED
    BY <2>1 DEF EndKnown
<1>2. /\ p.rcv = new.rcv /\ p.refused = new.refused /\ p.given = old.given \o new.given
      /\ p.acks = new.acks
  BY DEF Received
<1>3. ReceiverInv(r, Nothing, g, s, w)
  BY <1>1
<1>. HIDE DEF p
<1>4. refused.bytes \in Seq(Nat) /\ old.given \in Seq(Nat)
  BY <1>1
<1>. HIDE DEF r, old
<1>5. Off(r.nxt) <= StreamLen + 1 /\ Off(r.nxt) \in Nat
  <2>1. Off(r.nxt) \in Nat
    BY <1>1, ReceiverType
  <2>2. Off(r.nxt) <= w + 1
    BY <1>0, <1>3, <2>1 DEF ReceiverInv
  <2>. QED
    BY <1>0, <2>1, <2>2, Constants
<1>6. cut \in Packets /\ Holds(cut, s, w) /\ EndOff(cut) = EndOff(e)
      /\ (EndOff(e) <= Off(r.nxt) => cut = e)
  BY <1>1, <1>5, FrontTrimmedIs
<1>. HIDE DEF cut
<1>7. /\ new.rcv \in Receivers /\ new.refused \in [bytes : Seq(Nat), fin : BOOLEAN]
      /\ new.given \in Seq(Nat)
      /\ Off(r.nxt) <= Off(new.rcv.nxt) /\ Off(r.edge) <= Off(new.rcv.edge)
      /\ ReceiverInv(new.rcv, new.refused, g \o new.given, s, w)
      /\ Answers(new.acks, r, new.rcv) /\ (r.ended => new.rcv.ended)
  <2>1. CASE next
    <3>1. cut.seq = r.nxt /\ r.wnd >= 1
      BY <1>1, <1>5, <1>6, <2>1, NextIs
    <3>2. ~r.ended
      <4>1. SUFFICES ASSUME r.ended PROVE FALSE
        OBVIOUS
      <4>2. Off(r.nxt) = w + 1
        BY <1>3, <4>1 DEF ReceiverInv, EndKnown
      <4>3. cut \in Segments \cup Packets
        BY <1>6
      <4>4. BytesEnd(cut) <= w /\ BytesEnd(cut) = Off(cut.seq) + SegLen(cut)
        BY <1>6 DEF Holds, BytesEnd
      <4>5. SegLen(cut) \in Nat
        BY <4>3, SegEndOff
      <4>. QED
        BY <1>0, <3>1, <4>2, <4>4, <4>5
    <3>3. new = Accepted(r, cut, b) /\ EndOff(cut) <= Reach(s)
      BY <1>6, <2>1
    <3>. HIDE DEF new, g
    <3>4. /\ new.rcv \in Receivers /\ new.refused \in [bytes : Seq(Nat), fin : BOOLEAN]
          /\ Off(r.nxt) <= Off(new.rcv.nxt) /\ Off(r.edge) <= Off(new.rcv.edge)
          /\ ReceiverInv(new.rcv, new.refused, g \o new.given, s, w)
          /\ Answers(new.acks, r, new.rcv) /\ new.given \in Seq(Nat)
      BY <1>1, <1>3, <1>6, <3>1, <3>2, <3>3, AcceptedIs
    <3>. QED
      BY <3>2, <3>4
  <2>2. CASE ~next
    <3>1. new = Unexpected(r)
      BY <2>2
    <3>. HIDE DEF new
    <3>2. /\ new.rcv = Sent(r) /\ new.refused = Nothing /\ new.given = <<>>
          /\ new.acks = <<AckOf(r)>>
      BY <3>1 DEF Unexpected
    <3>3. Window(r) /\ ReceiverInv(Sent(r), Nothing, g, s, w)
      BY <1>1, <1>3, SentKeeps
    <3>4. LET u == Sent(r)
          IN  /\ u \in Receivers /\ u.nxt = r.nxt /\ u.ended = r.ended
              /\ Off(u.edge) = Off(r.nxt) + r.ann /\ Off(r.edge) <= Off(u.edge)
              /\ AckOf(r) \in Acks /\ AckOf(r).ack = r.nxt /\ AckOf(r).wnd = r.ann
      BY <1>1, <3>3, SentIs
    <3>5. Nothing \in [bytes : Seq(Nat), fin : BOOLEAN] /\ <<>> \in Seq(Nat)
      BY DEF Nothing
    <3>6. g \o <<>> = g
      BY <1>1
    <3>. DEFINE a == AckOf(r)
                u == Sent(r)
    <3>7. /\ a \in Acks /\ u \in Receivers /\ a.ack = r.nxt /\ a.wnd = r.ann
          /\ u.nxt = r.nxt /\ Off(u.edge) = Off(r.nxt) + r.ann /\ Off(r.edge) <= Off(u.edge)
          /\ u.ended = r.ended
      BY <3>4
    <3>8. new.acks = <<a>> /\ new.rcv = u
      BY <3>2
    <3>. HIDE DEF a, u
    <3>9. <<a>> \in Seq(Acks) /\ Len(<<a>>) = 1 /\ <<a>>[1] = a
      BY <3>7
    <3>10. Off(r.edge) <= Off(u.edge) /\ Off(u.edge) <= Off(u.edge) /\ Off(r.nxt) <= Off(r.nxt)
      <4>1. Off(u.edge) \in Nat
        BY <3>7, ReceiverType
      <4>. QED
        BY <1>5, <3>7, <4>1
    <3>11. Answers(<<a>>, r, u)
      <4>. DEFINE news == <<a>>
      <4>1. news \in Seq(Acks) /\ Len(news) <= 1 /\ \A i \in 1 .. Len(news) : news[i] = a
        BY <3>9
      <4>. HIDE DEF news
      <4>2. Answers(news, r, u)
        BY <3>7, <3>10, <4>1 DEF Answers
      <4>. QED
        BY <4>2 DEF news
    <3>. QED
      BY <3>2, <3>3, <3>5, <3>6, <3>7, <3>8, <3>10, <3>11 DEF u
  <2>. QED
    BY <2>1, <2>2
<1>. HIDE DEF new
<1>8. given \o p.given = g \o new.given /\ g \o new.given \in Seq(Nat)
  <2>1. given \o (old.given \o new.given) = (given \o old.given) \o new.given
    <3>. DEFINE g1 == given
                g2 == old.given
                g3 == new.given
    <3>1. g1 \in Seq(Nat) /\ g2 \in Seq(Nat) /\ g3 \in Seq(Nat)
      BY <1>4, <1>7
    <3>. HIDE DEF g1, g2, g3
    <3>2. (g1 \o g2) \o g3 = g1 \o (g2 \o g3)
      BY <3>1
    <3>. QED
      BY <3>2 DEF g1, g2, g3
  <2>2. g \o new.given \in Seq(Nat)
    <3>. HIDE DEF g
    <3>. QED
      BY <1>1, <1>7
  <2>. QED
    BY <1>2, <2>1, <2>2 DEF g
<1>. HIDE DEF g
<1>9. Answers(p.acks, rcv, p.rcv)
  BY <1>1, <1>2, <1>7 DEF Answers
<1>10. p.given \in Seq(Nat)
  BY <1>2, <1>4, <1>7
<1>. QED
  BY <1>1, <1>2, <1>7, <1>8, <1>9, <1>10 DEF p

(* tcp_input of a segment.                                                 *)
LEMMA DeliverStep ==
  ASSUME IInv, NEW i \in DOMAIN data, NEW again \in BOOLEAN, NEW b \in BOOLEAN,
         Deliver(i, again, b)
  PROVE  IInv'
<1>. DEFINE w == Len(written)
<1>1. /\ w \in 0 .. StreamLen /\ w \in Nat /\ snd \in Senders /\ rcv \in Receivers
      /\ refused \in [bytes : Seq(Nat), fin : BOOLEAN] /\ given \in Seq(Nat)
      /\ data \in Seq(Packets) /\ acks \in Seq(Acks)
      /\ ReceiverInv(rcv, refused, given, snd, w)
      /\ \A j \in DOMAIN data : PacketInv(data[j], snd, w, rcv)
  BY WrittenType DEF IInv, TypeInv
<1>2. data' = Left(data, i, again) /\ UNCHANGED sender
  BY DEF Deliver
<1>3. /\ data' \in Seq(Packets)
      /\ \A j \in DOMAIN data' : PacketInv(data'[j], snd, w, rcv)
  <2>1. /\ Left(data, i, again) \in Seq(Packets)
        /\ \A j \in DOMAIN Left(data, i, again) :
             \E k \in DOMAIN data : Left(data, i, again)[j] = data[k]
    BY <1>1, LeftOf
  <2>. QED
    BY <1>1, <1>2, <2>1
<1>4. Off(rcv.nxt) \in Nat /\ Off(rcv.edge) \in Nat
  BY <1>1, ReceiverType
<1>5. CASE UNCHANGED <<rcv, refused, given, acks>>
  <2>1. acks' = acks \o <<>> /\ <<>> \in Seq(Acks) /\ Len(<<>>) = 0
    BY <1>1, <1>5
  <2>. DEFINE news == <<>>
  <2>2. /\ news \in Seq(Acks) /\ Len(news) <= 1 /\ acks' = acks \o news
        /\ \A j \in 1 .. Len(news) : FALSE
    BY <2>1
  <2>3. Off(rcv.nxt) <= Off(rcv'.nxt) /\ Off(rcv.edge) <= Off(rcv'.edge)
    BY <1>4, <1>5
  <2>4. ReceiverInv(rcv', refused', given', snd, Len(written))
    BY <1>1, <1>5
  <2>. HIDE DEF news
  <2>. QED
    BY <1>1, <1>2, <1>3, <1>5, <2>2, <2>3, <2>4, ReceiverStep
<1>6. CASE ~UNCHANGED <<rcv, refused, given, acks>>
  <2>. DEFINE e == data[i]
              p == Received(e, b)
  <2>1. /\ rcv' = p.rcv /\ refused' = p.refused
        /\ given' = given \o p.given /\ acks' = acks \o p.acks
    BY <1>6 DEF Deliver
  <2>2. e \in Packets /\ PacketInv(e, snd, w, rcv)
    BY <1>1, ElementOfSeq
  <2>3. Holds(e, snd, w) /\ EndOff(e) <= Reach(snd)
    BY <2>2 DEF PacketInv
  <2>. HIDE DEF e, w
  <2>4. /\ p.rcv \in Receivers /\ p.refused \in [bytes : Seq(Nat), fin : BOOLEAN]
        /\ p.given \in Seq(Nat) /\ given \o p.given \in Seq(Nat)
        /\ Off(rcv.nxt) <= Off(p.rcv.nxt) /\ Off(rcv.edge) <= Off(p.rcv.edge)
        /\ ReceiverInv(p.rcv, p.refused, given \o p.given, snd, w)
        /\ Answers(p.acks, rcv, p.rcv) /\ (rcv.ended => p.rcv.ended)
    BY <1>1, <2>2, <2>3, ReceivedIs
  <2>. HIDE DEF p
  <2>. DEFINE news == p.acks
  <2>5. /\ news \in Seq(Acks) /\ Len(news) <= 1
        /\ \A j \in 1 .. Len(news) :
             /\ Off(rcv.nxt) <= Off(news[j].ack) /\ Off(news[j].ack) <= Off(rcv'.nxt)
             /\ Off(rcv.edge) <= Off(news[j].ack) + news[j].wnd
             /\ Off(news[j].ack) + news[j].wnd <= Off(rcv'.edge)
    BY <2>1, <2>4 DEF Answers
  <2>6. ReceiverInv(rcv', refused', given', snd, Len(written))
    BY <2>1, <2>4 DEF w
  <2>7. /\ rcv' \in Receivers /\ Off(rcv.nxt) <= Off(rcv'.nxt) /\ Off(rcv.edge) <= Off(rcv'.edge)
        /\ refused' \in [bytes : Seq(Nat), fin : BOOLEAN] /\ given' \in Seq(Nat)
        /\ acks' = acks \o news
    BY <2>1, <2>4
  <2>8. \A j \in DOMAIN data' : PacketInv(data'[j], snd, Len(written), rcv)
    BY <1>3 DEF w
  <2>. HIDE DEF news
  <2>. QED
    BY <1>2, <1>3, <2>5, <2>6, <2>7, <2>8, ReceiverStep
<1>. QED
  BY <1>5, <1>6

(* What the invariant of the queues says of the sender's fields.           *)
LEMMA SameQueue ==
  ASSUME NEW q, NEW n, NEW s, NEW t, NEW w, QueueInv(q, n, s, w),
         t.fin = s.fin, t.mss = s.mss, t.lastack = s.lastack, t.nxt = s.nxt,
         t.wnd = s.wnd, t.oversize = s.oversize, t.queuelen = s.queuelen
  PROVE  QueueInv(q, n, t, w)
<1>1. Fin(t) = Fin(s)
  BY DEF Fin
<1>2. \A i \in 1 .. Len(q) : Holds(q[i], t, w) /\ SegLen(q[i]) <= t.mss
  BY DEF QueueInv, Holds
<1>. QED
  BY <1>1, <1>2 DEF QueueInv

(* A step that ends in tcp_output: pre was sent before, s are the sender's *)
(* fields and q its queues, of which the first m were sent.                *)
LEMMA SendsStep ==
  ASSUME IInv, NEW q \in Seq(Segments), NEW m \in 0 .. Len(q), NEW una, NEW uns,
         NEW s \in Senders, NEW pre \in Seq(Packets),
         SplitAt(q, m, una, uns, s), QueueInv(q, m, s, Len(written)),
         SenderInv(s, Len(written), rcv), Later(snd, Len(written), s, Len(written)),
         \A i \in 1 .. Len(pre) : PacketInv(pre[i], s, Len(written), rcv),
         unacked' = Output(una, uns, s).unacked, unsent' = Output(una, uns, s).unsent,
         snd' = Output(una, uns, s).snd,
         data' = data \o (pre \o Output(una, uns, s).sent),
         acks' \in Seq(Acks), \A i \in DOMAIN acks' : AckInv(acks'[i], s, rcv),
         \A i, j \in DOMAIN acks' : Further(acks'[i], acks'[j]),
         UNCHANGED <<written, receiver>>, sentTold' \in Int,
         s.state \notin {"CLOSED", "ABORTED"} => sentTold' = MinOf(Off(s.lastack), Len(written))
  PROVE  IInv'
<1>. DEFINE o == Output(una, uns, s)
            w == Len(written)
            r == rcv
<1>1. /\ w \in Nat /\ w \in 0 .. StreamLen /\ snd \in Senders /\ r \in Receivers
      /\ written \in Seq(Nat)
  BY WrittenType DEF IInv, TypeInv
<1>2. OutputKept(o, q, m, s, w, r)
  <2>1. /\ SplitAt(q, m, una, uns, s) /\ QueueInv(q, m, s, w) /\ SenderInv(s, w, r)
    OBVIOUS
  <2>. HIDE DEF w, r
  <2>. QED
    BY <1>1, <2>1, OutputKeeps
<1>3. /\ unacked' = o.unacked /\ unsent' = o.unsent /\ snd' = o.snd
      /\ data' = data \o (pre \o o.sent) /\ written' = written /\ UNCHANGED receiver
  OBVIOUS
<1>. HIDE DEF o
<1>4. PICK n \in m .. Len(q) :
        /\ o.unacked = SubSeq(q, 1, n) /\ o.unsent = SubSeq(q, n + 1, Len(q))
        /\ QueueInv(q, n, o.snd, w)
  BY <1>2 DEF OutputKept
<1>5. /\ o.snd \in Senders /\ SenderInv(o.snd, w, r) /\ Later(s, w, o.snd, w)
      /\ o.snd.state = s.state /\ o.snd.fin = s.fin /\ o.snd.lastack = s.lastack
      /\ o.snd.wnd = s.wnd /\ o.snd.wl2 = s.wl2
      /\ o.sent \in Seq(Packets)
      /\ \A i \in 1 .. Len(o.sent) : PacketInv(o.sent[i], o.snd, w, r)
  BY <1>2 DEF OutputKept
<1>6. n \in 0 .. Len(q)
  <2>1. Len(q) \in Nat
    OBVIOUS
  <2>. QED
    BY <2>1
<1>7. Later(snd, w, o.snd, w)
  <2>1. /\ Off(snd.nxt) \in Nat /\ Off(s.nxt) \in Nat /\ Off(o.snd.nxt) \in Nat
        /\ Off(snd.lastack) \in Nat /\ Off(s.lastack) \in Nat /\ Off(o.snd.lastack) \in Nat
    BY <1>1, <1>5, SenderType
  <2>2. /\ Off(snd.nxt) <= Off(o.snd.nxt) /\ Off(snd.lastack) <= Off(o.snd.lastack) /\ w <= w
    BY <1>1, <1>5, <2>1 DEF Later
  <2>. QED
    BY <1>5, <2>2 DEF Later
<1>. DEFINE sent == pre \o o.sent
<1>8. /\ sent \in Seq(Packets)
      /\ Len(pre) \in Nat /\ Len(o.sent) \in Nat /\ Len(sent) = Len(pre) + Len(o.sent)
      /\ \A i \in 1 .. Len(pre) + Len(o.sent) :
           sent[i] = IF i <= Len(pre) THEN pre[i] ELSE o.sent[i - Len(pre)]
  BY <1>5, ConcatProperties
<1>9. data' = data \o sent
  BY <1>3
<1>. HIDE DEF sent
<1>10. ASSUME NEW i \in 1 .. Len(sent) PROVE PacketInv(sent[i], o.snd, w, r)
  <2>1. CASE i <= Len(pre)
    <3>1. i \in 1 .. Len(pre) /\ sent[i] = pre[i] /\ pre[i] \in Packets
      BY <1>8, <2>1
    <3>2. \A p \in Packets : PacketInv(p, s, w, r) => PacketInv(p, o.snd, w, r)
      <4>. HIDE DEF w, r
      <4>. QED
        BY <1>1, <1>5, LaterKeeps
    <3>. QED
      BY <3>1, <3>2
  <2>2. CASE ~(i <= Len(pre))
    <3>1. i - Len(pre) \in 1 .. Len(o.sent) /\ sent[i] = o.sent[i - Len(pre)]
      BY <1>8, <2>2
    <3>. QED
      BY <1>5, <3>1
  <2>. QED
    BY <2>1, <2>2
<1>11. ASSUME NEW i \in DOMAIN acks' PROVE AckInv(acks'[i], snd', rcv)
  <2>1. Known(o.snd) = Known(s)
    BY <1>5 DEF Known
  <2>. QED
    BY <1>3, <2>1 DEF AckInv
<1>12. SentExact'
  <2>1. snd'.state = s.state /\ snd'.lastack = s.lastack /\ written' = written
    BY <1>3, <1>5
  <2>. QED
    BY <2>1 DEF SentExact, Open, Off
<1>13. written' \in Seq(Nat) /\ WrittenInv'
  BY <1>1, <1>3 DEF IInv, WrittenInv
<1>14. /\ QueueInv(q, n, snd', Len(written')) /\ SenderInv(snd', Len(written'), rcv)
       /\ Later(snd, Len(written), snd', Len(written')) /\ snd' \in Senders
       /\ \A i \in 1 .. Len(sent) : PacketInv(sent[i], snd', Len(written'), rcv)
       /\ unacked' = SubSeq(q, 1, n) /\ unsent' = SubSeq(q, n + 1, Len(q))
  BY <1>3, <1>4, <1>5, <1>7, <1>10
<1>15. UNCHANGED receiver
  BY <1>3
<1>. QED
  BY <1>6, <1>8, <1>9, <1>11, <1>12, <1>13, <1>14, <1>15, SenderStep

(* The same when nothing was sent before.                                  *)
LEMMA OutputStep ==
  ASSUME IInv, NEW q \in Seq(Segments), NEW m \in 0 .. Len(q), NEW una, NEW uns,
         NEW s \in Senders,
         SplitAt(q, m, una, uns, s), QueueInv(q, m, s, Len(written)),
         SenderInv(s, Len(written), rcv), Later(snd, Len(written), s, Len(written)),
         Sends(Output(una, uns, s)),
         acks' \in Seq(Acks), \A i \in DOMAIN acks' : AckInv(acks'[i], s, rcv),
         \A i, j \in DOMAIN acks' : Further(acks'[i], acks'[j]),
         UNCHANGED <<written, receiver>>, sentTold' \in Int,
         s.state \notin {"CLOSED", "ABORTED"} => sentTold' = MinOf(Off(s.lastack), Len(written))
  PROVE  IInv'
<1>. DEFINE o == Output(una, uns, s)
            pre == <<>>
<1>1. /\ unacked' = o.unacked /\ unsent' = o.unsent /\ snd' = o.snd /\ data' = data \o o.sent
  BY DEF Sends
<1>2. o.sent \in Seq(Packets)
  <2>. DEFINE w == Len(written)
              r == rcv
  <2>1. /\ w \in 0 .. StreamLen /\ r \in Receivers /\ SplitAt(q, m, una, uns, s)
        /\ QueueInv(q, m, s, w) /\ SenderInv(s, w, r)
    BY WrittenType
  <2>. HIDE DEF w, r
  <2>2. OutputKept(o, q, m, s, w, r)
    BY <2>1, OutputKeeps
  <2>. QED
    BY <2>2 DEF OutputKept
<1>3. pre \in Seq(Packets) /\ \A i \in 1 .. Len(pre) : FALSE
  OBVIOUS
<1>4. pre \o o.sent = o.sent
  <2>. HIDE DEF o
  <2>. QED
    BY <1>2
<1>5. /\ unacked' = Output(una, uns, s).unacked
      /\ unsent' = Output(una, uns, s).unsent
      /\ snd' = Output(una, uns, s).snd
      /\ data' = data \o (pre \o Output(una, uns, s).sent)
      /\ UNCHANGED <<written, receiver>>
  BY <1>1, <1>4
<1>. HIDE DEF pre, o
<1>. QED
  BY <1>3, <1>5, SendsStep

(* A step of the sender that sends nothing and only changes what says      *)
(* nothing of the queues.                                                  *)
LEMMA MemerrStep ==
  ASSUME IInv, snd' = [snd EXCEPT !.memerr = TRUE],
         UNCHANGED <<unacked, unsent, written, sentTold, receiver, network>>
  PROVE  IInv'
<1>1. /\ snd \in Senders /\ unacked' = unacked /\ unsent' = unsent /\ written' = written
      /\ sentTold' = sentTold /\ rcv' = rcv /\ refused' = refused /\ given' = given
      /\ data' = data /\ acks' = acks
  BY DEF IInv, TypeInv, receiver, network
<1>2. /\ snd' \in Senders /\ snd'.state = snd.state /\ snd'.nxt = snd.nxt
      /\ snd'.lastack = snd.lastack /\ snd'.lbb = snd.lbb /\ snd'.buf = snd.buf
      /\ snd'.wnd = snd.wnd /\ snd'.wl2 = snd.wl2 /\ snd'.mss = snd.mss
      /\ snd'.cwnd = snd.cwnd /\ snd'.ssthresh = snd.ssthresh /\ snd'.fin = snd.fin
      /\ snd'.oversize = snd.oversize /\ snd'.queuelen = snd.queuelen
  BY <1>1 DEF Senders
<1>3. TypeInv'
  BY <1>1, <1>2 DEF IInv, TypeInv
<1>4. Open' <=> Open
  BY <1>2 DEF Open
<1>5. Fin(snd') = Fin(snd) /\ Reach(snd') = Reach(snd) /\ Known(snd') = Known(snd)
  BY <1>2 DEF Fin, Reach, Known
<1>6. WrittenInv'
  BY <1>1 DEF IInv, WrittenInv
<1>7. SenderInv(snd', Len(written'), rcv')
  BY <1>1, <1>2, <1>5 DEF IInv, SenderInv
<1>8. ReceiverInv(rcv', refused', given', snd', Len(written'))
  BY <1>1, <1>2, <1>5 DEF IInv, ReceiverInv
<1>9. \A i \in DOMAIN data' : PacketInv(data'[i], snd', Len(written'), rcv')
  BY <1>1, <1>2, <1>5 DEF IInv, PacketInv, Holds
<1>10. \A i \in DOMAIN acks' : AckInv(acks'[i], snd', rcv')
  BY <1>1, <1>5 DEF IInv, AckInv
<1>11. ASSUME Open' PROVE QueueInv(Outstanding', Len(unacked'), snd', Len(written')) /\ SentExact'
  <2>1. QueueInv(Outstanding, Len(unacked), snd, Len(written)) /\ SentExact
    BY <1>4, <1>11 DEF IInv
  <2>2. Outstanding' = Outstanding
    BY <1>1 DEF Outstanding
  <2>3. QueueInv(Outstanding, Len(unacked), snd', Len(written))
    BY <1>2, <2>1, SameQueue
  <2>4. SentExact'
    BY <1>1, <1>2, <1>4, <1>11, <2>1 DEF SentExact, Open
  <2>. QED
    BY <1>1, <2>2, <2>3, <2>4
<1>. QED
  BY <1>1, <1>3, <1>6, <1>7, <1>8, <1>9, <1>10, <1>11 DEF IInv

(* tcp_output, called by the application.                                  *)
LEMMA FlushStep ==
  ASSUME IInv, Flush
  PROVE  IInv'
<1>. DEFINE q == Outstanding
            m == Len(unacked)
<1>1. /\ snd \in Senders /\ q \in Seq(Segments) /\ m \in 0 .. Len(q)
      /\ unacked = SubSeq(q, 1, m) /\ unsent = SubSeq(q, m + 1, Len(q))
      /\ Len(written) \in Nat
  BY WrittenType
<1>2. Open
  BY DEF Flush, Ready, Open
<1>3. /\ QueueInv(q, m, snd, Len(written)) /\ SentExact /\ SenderInv(snd, Len(written), rcv)
      /\ acks \in Seq(Acks) /\ sentTold \in Int
      /\ \A i \in DOMAIN acks : AckInv(acks[i], snd, rcv)
      /\ \A i, j \in DOMAIN acks : Further(acks[i], acks[j])
  BY <1>2 DEF IInv, TypeInv
<1>4. /\ Sends(Output(unacked, unsent, snd))
      /\ acks' = acks /\ sentTold' = sentTold /\ UNCHANGED <<written, receiver>>
  BY DEF Flush
<1>. HIDE DEF q, m
<1>5. SplitAt(q, m, unacked, unsent, snd)
  BY <1>1 DEF SplitAt
<1>6. /\ Later(snd, Len(written), snd, Len(written))
  <2>1. Off(snd.nxt) \in Nat /\ Off(snd.lastack) \in Nat
    BY <1>1, SenderType
  <2>. QED
    BY <1>1, <2>1 DEF Later
<1>7. sentTold' = MinOf(Off(snd.lastack), Len(written)) /\ sentTold' \in Int
  BY <1>2, <1>3, <1>4 DEF SentExact, Off
<1>8. /\ acks' \in Seq(Acks) /\ \A i \in DOMAIN acks' : AckInv(acks'[i], snd, rcv)
      /\ \A i, j \in DOMAIN acks' : Further(acks'[i], acks'[j])
      /\ UNCHANGED <<written, receiver>>
  BY <1>3, <1>4
<1>. QED
  BY <1>1, <1>3, <1>4, <1>5, <1>6, <1>7, <1>8, OutputStep

-----------------------------------------------------------------------------
(* The queues when something is written.                                   *)

(* What the invariant says of the queues, but for what tcp_write believes  *)
(* of them.                                                                *)
Core(q, n, s, w) ==
  /\ \A i \in 1 .. Len(q) : Holds(q[i], s, w) /\ SegLen(q[i]) <= s.mss
  /\ Chain(q)
  /\ q = <<>> => Off(s.lastack) = w + Fin(s)
  /\ q # <<>> => /\ Off(q[1].seq) <= Off(s.lastack) /\ Off(s.lastack) < EndOff(q[1])
                 /\ EndOff(q[Len(q)]) = w + Fin(s)
  /\ \A i \in 1 .. n : /\ EndOff(q[i]) <= Off(s.nxt)
                       /\ BytesEnd(q[i]) <= Off(s.lastack) + s.wnd

LEMMA QueueIs ==
  ASSUME NEW q, NEW n, NEW s, NEW w
  PROVE  QueueInv(q, n, s, w) <=>
           /\ Core(q, n, s, w)
           /\ n = Len(q) => s.oversize = 0
           /\ n < Len(q) => SegLen(q[Len(q)]) + s.oversize <= s.mss
           /\ s.queuelen = Pbufs(q)
BY DEF QueueInv, Core

(* t are the fields of s when more was written or the FIN was queued.      *)
Writes(s, w, t, v) ==
  /\ ~s.fin /\ w <= v
  /\ t.mss = s.mss /\ t.lastack = s.lastack /\ t.nxt = s.nxt /\ t.wnd = s.wnd

(* u is q with f behind it.                                                *)
LEMMA Appended ==
  ASSUME NEW q \in Seq(Segments), NEW n \in 0 .. Len(q), NEW s \in Senders, NEW t \in Senders,
         NEW w \in 0 .. StreamLen, NEW v \in 0 .. StreamLen, Writes(s, w, t, v), Core(q, n, s, w),
         NEW f \in Segments, Off(f.seq) = w, Holds(f, t, v), EndOff(f) = v + Fin(t),
         SegLen(f) <= s.mss,
         NEW u \in Seq(Segments), Len(u) = Len(q) + 1, u[Len(q) + 1] = f,
         \A i \in 1 .. Len(q) : u[i] = q[i]
  PROVE  Core(u, n, t, v)
<1>. DEFINE l == Len(q)
<1>1. /\ l \in Nat /\ Len(u) = l + 1 /\ w \in Nat /\ v \in Nat /\ w <= v /\ n \in 0 .. l
      /\ n \in Nat
  BY Constants DEF Writes
<1>. HIDE DEF l
<1>2. \A i \in 1 .. l : u[i] = q[i] /\ q[i] \in Segments /\ ~q[i].fin
  <2>1. \A i \in 1 .. l : u[i] = q[i] /\ q[i] \in Segments
    BY DEF l
  <2>2. \A i \in 1 .. l : Holds(q[i], s, w)
    BY DEF Core, l
  <2>. QED
    BY <2>1, <2>2 DEF Holds, Writes
<1>3. u[l + 1] = f
  BY DEF l
<1>4. /\ Fin(s) = 0 /\ Fin(t) \in {0, 1} /\ Off(s.lastack) \in Nat
      /\ t.mss = s.mss /\ t.lastack = s.lastack /\ t.nxt = s.nxt /\ t.wnd = s.wnd
  BY SenderType DEF Fin, Writes
<1>5. \A i \in 1 .. l : /\ BytesEnd(q[i]) \in Nat /\ EndOff(q[i]) \in Nat /\ Off(q[i].seq) \in Nat
                        /\ EndOff(q[i]) = BytesEnd(q[i]) /\ BytesEnd(q[i]) <= w
                        /\ Off(q[i].seq) < EndOff(q[i])
  <2>1. ASSUME NEW i \in 1 .. l
        PROVE  /\ BytesEnd(q[i]) \in Nat /\ EndOff(q[i]) \in Nat /\ Off(q[i].seq) \in Nat
               /\ EndOff(q[i]) = BytesEnd(q[i]) /\ BytesEnd(q[i]) <= w
               /\ Off(q[i].seq) < EndOff(q[i])
    <3>. DEFINE p == q[i]
    <3>1. p \in Segments \cup Packets /\ ~p.fin /\ Holds(p, s, w)
      BY <1>2 DEF Core, l
    <3>. HIDE DEF p
    <3>2. /\ BytesEnd(p) \in Nat /\ EndOff(p) \in Nat /\ Off(p.seq) \in Nat
          /\ EndOff(p) = BytesEnd(p) + 0 /\ TcpLen(p) \in Nat
      BY <3>1, SegEndOff
    <3>3. BytesEnd(p) <= w /\ TcpLen(p) >= 1 /\ EndOff(p) = Off(p.seq) + TcpLen(p)
      BY <3>1 DEF Holds, EndOff
    <3>4. /\ BytesEnd(p) \in Nat /\ EndOff(p) \in Nat /\ Off(p.seq) \in Nat
          /\ EndOff(p) = BytesEnd(p) /\ BytesEnd(p) <= w /\ Off(p.seq) < EndOff(p)
      BY <3>2, <3>3
    <3>. QED
      BY <3>4 DEF p
  <2>. QED
    BY <2>1
<1>6. ASSUME NEW i \in 1 .. Len(u) PROVE Holds(u[i], t, v) /\ SegLen(u[i]) <= t.mss
  <2>1. CASE i \in 1 .. l
    <3>1. Holds(q[i], s, w) /\ SegLen(q[i]) <= s.mss
      BY <2>1 DEF Core, l
    <3>2. BytesEnd(q[i]) <= v
      BY <1>1, <1>5, <2>1
    <3>. QED
      BY <1>2, <1>4, <2>1, <3>1, <3>2 DEF Holds
  <2>2. CASE i = l + 1
    BY <1>3, <1>4, <2>2
  <2>. QED
    BY <1>1, <2>1, <2>2
<1>7. q = <<>> <=> l = 0
  BY EmptySeq DEF l
<1>8. Chain(u)
  <2>1. /\ \A i \in 1 .. l - 1 : EndOff(q[i]) = Off(q[i + 1].seq)
        /\ \A i, j \in 1 .. l : i < j => EndOff(q[i]) <= Off(q[j].seq)
    BY DEF Core, Chain, l
  <2>2. l > 0 => EndOff(q[l]) = w
    <3>1. l > 0 => EndOff(q[l]) = w + Fin(s)
      BY <1>1, <1>7 DEF Core, l
    <3>. QED
      BY <1>1, <1>4, <3>1
  <2>3. ASSUME NEW i \in 1 .. Len(u) - 1 PROVE EndOff(u[i]) = Off(u[i + 1].seq)
    <3>1. CASE i < l
      <4>1. i \in 1 .. l - 1 /\ i \in 1 .. l /\ i + 1 \in 1 .. l
        BY <1>1, <3>1
      <4>. QED
        BY <1>2, <2>1, <4>1
    <3>2. CASE i = l
      <4>1. l > 0 /\ l \in 1 .. l
        BY <1>1, <3>2
      <4>. QED
        BY <1>2, <1>3, <2>2, <3>2, <4>1
    <3>. QED
      BY <1>1, <3>1, <3>2
  <2>4. ASSUME NEW i \in 1 .. Len(u), NEW j \in 1 .. Len(u), i < j
        PROVE  EndOff(u[i]) <= Off(u[j].seq)
    <3>1. i \in 1 .. l
      BY <1>1, <2>4
    <3>2. CASE j \in 1 .. l
      BY <1>2, <2>1, <2>4, <3>1, <3>2
    <3>3. CASE j = l + 1
      <4>1. EndOff(q[i]) <= w
        BY <1>5, <3>1
      <4>. QED
        BY <1>2, <1>3, <3>1, <3>3, <4>1
    <3>. QED
      BY <1>1, <3>2, <3>3
  <2>. QED
    BY <2>3, <2>4 DEF Chain
<1>9. u # <<>>
  BY <1>1
<1>10. /\ Off(u[1].seq) <= Off(t.lastack) /\ Off(t.lastack) < EndOff(u[1])
       /\ EndOff(u[Len(u)]) = v + Fin(t)
  <2>1. CASE l = 0
    <3>1. Off(s.lastack) = w + Fin(s)
      BY <1>7, <2>1 DEF Core
    <3>2. Off(s.lastack) = w
      BY <1>1, <1>4, <3>1
    <3>3. u[1] = f /\ u[Len(u)] = f
      BY <1>1, <1>3, <2>1
    <3>4. w < EndOff(f)
      <4>1. f \in Segments \cup Packets /\ TcpLen(f) >= 1
        BY DEF Holds
      <4>2. EndOff(f) = w + TcpLen(f) /\ TcpLen(f) \in Nat
        BY <4>1, SegEndOff DEF EndOff
      <4>. QED
        BY <1>1, <4>1, <4>2
    <3>. QED
      BY <1>1, <1>4, <3>2, <3>3, <3>4
  <2>2. CASE l > 0
    <3>1. q # <<>> /\ 1 \in 1 .. l
      BY <1>1, <1>7, <2>2
    <3>2. Off(q[1].seq) <= Off(s.lastack) /\ Off(s.lastack) < EndOff(q[1])
      BY <3>1 DEF Core
    <3>. QED
      BY <1>1, <1>2, <1>3, <1>4, <3>1, <3>2
  <2>. QED
    BY <1>1, <2>1, <2>2
<1>11. \A i \in 1 .. n : /\ EndOff(u[i]) <= Off(t.nxt)
                         /\ BytesEnd(u[i]) <= Off(t.lastack) + t.wnd
  <2>1. \A i \in 1 .. n : i \in 1 .. l
    BY <1>1
  <2>2. \A i \in 1 .. n : /\ EndOff(q[i]) <= Off(s.nxt)
                          /\ BytesEnd(q[i]) <= Off(s.lastack) + s.wnd
    BY DEF Core
  <2>. QED
    BY <1>2, <1>4, <2>1, <2>2
<1>. QED
  BY <1>6, <1>8, <1>9, <1>10, <1>11 DEF Core

(* u is q with p, which ends with what is written, in place of the last.   *)
LEMMA Replaced ==
  ASSUME NEW q \in Seq(Segments), NEW n \in 0 .. Len(q) - 1, NEW s \in Senders, NEW t \in Senders,
         NEW w \in 0 .. StreamLen, NEW v \in 0 .. StreamLen, Writes(s, w, t, v), Core(q, n, s, w),
         NEW p \in Segments, p.seq = q[Len(q)].seq, Holds(p, t, v), EndOff(p) = v + Fin(t),
         SegLen(p) <= s.mss,
         NEW u \in Seq(Segments), Len(u) = Len(q), u[Len(q)] = p,
         \A i \in 1 .. Len(q) - 1 : u[i] = q[i]
  PROVE  Core(u, n, t, v)
<1>. DEFINE l == Len(q)
<1>1. /\ l \in Nat /\ l >= 1 /\ Len(u) = l /\ w \in Nat /\ v \in Nat /\ w <= v /\ n \in 0 .. l - 1
      /\ n \in Nat
  <2>1. l \in Nat /\ n \in 0 .. l - 1
    OBVIOUS
  <2>. HIDE DEF l
  <2>. QED
    BY <2>1, Constants DEF Writes, l
<1>. HIDE DEF l
<1>2. \A i \in 1 .. l - 1 : u[i] = q[i] /\ q[i] \in Segments /\ ~q[i].fin
  <2>1. \A i \in 1 .. l - 1 : u[i] = q[i] /\ q[i] \in Segments
    BY DEF l
  <2>2. \A i \in 1 .. l - 1 : Holds(q[i], s, w)
    BY <1>1 DEF Core, l
  <2>. QED
    BY <2>1, <2>2 DEF Holds, Writes
<1>3. u[l] = p /\ p.seq = q[l].seq
  BY DEF l
<1>4. /\ Fin(s) = 0 /\ Fin(t) \in {0, 1} /\ Off(s.lastack) \in Nat
      /\ t.mss = s.mss /\ t.lastack = s.lastack /\ t.nxt = s.nxt /\ t.wnd = s.wnd
  BY SenderType DEF Fin, Writes
<1>5. \A i \in 1 .. l : /\ BytesEnd(q[i]) \in Nat /\ EndOff(q[i]) \in Nat
                        /\ BytesEnd(q[i]) <= w
  <2>1. ASSUME NEW i \in 1 .. l
        PROVE  /\ BytesEnd(q[i]) \in Nat /\ EndOff(q[i]) \in Nat /\ BytesEnd(q[i]) <= w
    <3>. DEFINE e == q[i]
    <3>1. e \in Segments \cup Packets /\ Holds(e, s, w)
      BY DEF Core, l
    <3>. HIDE DEF e
    <3>2. /\ BytesEnd(e) \in Nat /\ EndOff(e) \in Nat
      BY <3>1, SegEndOff
    <3>3. BytesEnd(e) <= w
      BY <3>1 DEF Holds
    <3>. QED
      BY <3>2, <3>3 DEF e
  <2>. QED
    BY <2>1
<1>6. ASSUME NEW i \in 1 .. Len(u) PROVE Holds(u[i], t, v) /\ SegLen(u[i]) <= t.mss
  <2>1. CASE i \in 1 .. l - 1
    <3>1. i \in 1 .. l
      BY <1>1, <2>1
    <3>2. Holds(q[i], s, w) /\ SegLen(q[i]) <= s.mss
      BY <3>1 DEF Core, l
    <3>3. BytesEnd(q[i]) <= v
      BY ONLY <1>1, <1>5, <3>1
    <3>. QED
      BY <1>2, <1>4, <2>1, <3>2, <3>3 DEF Holds
  <2>2. CASE i = l
    BY <1>3, <1>4, <2>2
  <2>. QED
    BY <1>1, <2>1, <2>2
<1>7. q # <<>>
  BY <1>1 DEF l
<1>8. \A j \in 1 .. l : u[j].seq = q[j].seq
  <2>1. \A j \in 1 .. l : j \in 1 .. l - 1 \/ j = l
    BY <1>1
  <2>. QED
    BY <1>2, <1>3, <2>1
<1>9. Chain(u)
  <2>1. /\ \A i \in 1 .. l - 1 : EndOff(q[i]) = Off(q[i + 1].seq)
        /\ \A i, j \in 1 .. l : i < j => EndOff(q[i]) <= Off(q[j].seq)
    BY DEF Core, Chain, l
  <2>2. ASSUME NEW i \in 1 .. Len(u) - 1 PROVE EndOff(u[i]) = Off(u[i + 1].seq)
    <3>1. i \in 1 .. l - 1 /\ i + 1 \in 1 .. l
      BY <1>1
    <3>. QED
      BY <1>2, <1>8, <2>1, <3>1
  <2>3. ASSUME NEW i \in 1 .. Len(u), NEW j \in 1 .. Len(u), i < j
        PROVE  EndOff(u[i]) <= Off(u[j].seq)
    <3>1. i \in 1 .. l - 1 /\ i \in 1 .. l /\ j \in 1 .. l
      BY <1>1, <2>3
    <3>. QED
      BY <1>2, <1>8, <2>1, <2>3, <3>1
  <2>. QED
    BY <2>2, <2>3 DEF Chain
<1>10. u # <<>>
  BY <1>1
<1>11. /\ Off(u[1].seq) <= Off(t.lastack) /\ Off(t.lastack) < EndOff(u[1])
       /\ EndOff(u[Len(u)]) = v + Fin(t)
  <2>1. /\ Off(q[1].seq) <= Off(s.lastack) /\ Off(s.lastack) < EndOff(q[1])
        /\ EndOff(q[l]) = w + Fin(s)
    BY <1>7 DEF Core, l
  <2>2. 1 \in 1 .. l
    BY <1>1
  <2>3. Off(u[1].seq) <= Off(t.lastack) /\ EndOff(u[Len(u)]) = v + Fin(t)
    BY <1>1, <1>3, <1>4, <1>8, <2>1, <2>2
  <2>4. CASE l = 1
    <3>1. u[1] = p /\ q[1] = q[l]
      BY <1>3, <2>4
    <3>2. Off(s.lastack) < w + 0
      BY <1>4, <2>1, <3>1
    <3>3. Off(s.lastack) < v + Fin(t)
      BY <1>1, <1>4, <3>2
    <3>. QED
      BY <1>4, <2>3, <3>1, <3>3
  <2>5. CASE l > 1
    <3>1. 1 \in 1 .. l - 1
      BY <1>1, <2>5
    <3>. QED
      BY <1>2, <1>4, <2>1, <2>3, <3>1
  <2>. QED
    BY <1>1, <2>4, <2>5
<1>12. \A i \in 1 .. n : /\ EndOff(u[i]) <= Off(t.nxt)
                         /\ BytesEnd(u[i]) <= Off(t.lastack) + t.wnd
  <2>1. \A i \in 1 .. n : i \in 1 .. l - 1
    BY <1>1
  <2>2. \A i \in 1 .. n : /\ EndOff(q[i]) <= Off(s.nxt)
                          /\ BytesEnd(q[i]) <= Off(s.lastack) + s.wnd
    BY DEF Core
  <2>. QED
    BY <1>2, <1>4, <2>1, <2>2
<1>. QED
  BY <1>6, <1>9, <1>10, <1>11, <1>12 DEF Core

(* tcp_close.                                                              *)
LEMMA CloseStep ==
  ASSUME IInv, Close
  PROVE  IInv'
<1>. DEFINE q == Outstanding
            m == Len(unacked)
            w == Len(written)
            closing == IF snd.state = "ESTABLISHED" THEN "FIN_WAIT_1" ELSE "LAST_ACK"
            s == [snd EXCEPT !.state = closing, !.fin = TRUE]
            seg == [seq |-> snd.lbb, bytes |-> <<>>, fin |-> TRUE, pbufs |-> 1]
            t == [s EXCEPT !.lbb = Plus(@, 1), !.buf = @ - 1, !.oversize = 0, !.queuelen = @ + 1]
            uns == [unsent EXCEPT ![Len(unsent)].fin = TRUE]
<1>1. /\ snd \in Senders /\ rcv \in Receivers /\ q \in Seq(Segments) /\ m \in 0 .. Len(q)
      /\ unsent \in Seq(Segments) /\ unacked \in Seq(Segments)
      /\ w \in Nat /\ w \in 0 .. StreamLen
  BY WrittenType
<1>2. Open /\ snd.state \in {"ESTABLISHED", "CLOSE_WAIT"}
  BY DEF Close, Ready, Open
<1>3. /\ QueueInv(q, m, snd, w) /\ SentExact /\ SenderInv(snd, w, rcv)
      /\ acks \in Seq(Acks) /\ sentTold \in Int
      /\ \A i \in DOMAIN acks : AckInv(acks[i], snd, rcv)
      /\ \A i, j \in DOMAIN acks : Further(acks[i], acks[j])
  BY <1>2 DEF IInv, TypeInv
<1>4. ~snd.fin
  BY <1>2, <1>3 DEF SenderInv
<1>5. /\ Off(snd.nxt) \in Nat /\ Off(snd.lastack) \in Nat /\ Off(snd.lbb) = w
      /\ snd.buf \in Int /\ snd.queuelen \in Int /\ Fin(snd) = 0
      /\ snd.lbb \in Seqs /\ snd.fin \in BOOLEAN
  BY <1>1, <1>3, <1>4, SenderType DEF SenderInv, Fin
<1>6. closing \in States /\ closing \notin {"ESTABLISHED", "CLOSE_WAIT", "CLOSED", "ABORTED"}
  BY DEF States
<1>. HIDE DEF closing
<1>7. /\ s \in Senders /\ s.state = closing /\ s.nxt = snd.nxt
      /\ s.lastack = snd.lastack /\ s.lbb = snd.lbb /\ s.buf = snd.buf
      /\ s.wnd = snd.wnd /\ s.wl2 = snd.wl2 /\ s.mss = snd.mss
      /\ s.cwnd = snd.cwnd /\ s.ssthresh = snd.ssthresh /\ s.fin = TRUE
      /\ s.oversize = snd.oversize /\ s.queuelen = snd.queuelen
  BY <1>1, <1>6 DEF Senders
<1>8. /\ acks' = acks /\ sentTold' = sentTold /\ UNCHANGED <<written, receiver>>
  BY DEF Close
<1>9. /\ acks' \in Seq(Acks) /\ sentTold' \in Int
      /\ \A x : Known(x) = Known(snd) => \A i \in DOMAIN acks' : AckInv(acks'[i], x, rcv)
      /\ \A i, j \in DOMAIN acks' : Further(acks'[i], acks'[j])
  BY <1>3, <1>8 DEF AckInv
<1>10. sentTold' = MinOf(Off(snd.lastack), w)
  BY <1>2, <1>3, <1>8 DEF SentExact, Off
<1>11. CASE unsent # <<>> /\ Sends(Output(unacked, uns, s))
  <2>. DEFINE l == Len(unsent)
              p == [unsent[l] EXCEPT !.fin = TRUE]
              u == unacked \o uns
  <2>0. unsent \in Seq(Segments) /\ unacked \in Seq(Segments)
    BY <1>1
  <2>1. l \in Nat /\ l >= 1 /\ l \in 1 .. l
    <3>1. l \in Nat /\ l # 0
      BY <2>0, <1>11, EmptySeq
    <3>. HIDE DEF l
    <3>. QED
      BY <3>1
  <2>2. /\ unsent[l] \in Segments /\ p \in Segments /\ p.seq = unsent[l].seq
        /\ p.bytes = unsent[l].bytes /\ p.fin = TRUE /\ p.pbufs = unsent[l].pbufs
    <3>1. unsent[l] \in Segments
      BY <2>0, <2>1, ElementOfSeq
    <3>. DEFINE x == unsent[l]
    <3>. HIDE DEF x
    <3>2. LET y == [x EXCEPT !.fin = TRUE]
          IN  x \in Segments => /\ y \in Segments /\ y.seq = x.seq /\ y.bytes = x.bytes
                                /\ y.fin = TRUE /\ y.pbufs = x.pbufs
      BY DEF Segments
    <3>. QED
      BY <3>1, <3>2 DEF x
  <2>3. uns = [unsent EXCEPT ![l] = p]
    BY <2>1, <2>2
  <2>. HIDE DEF p, uns
  <2>4. /\ uns \in Seq(Segments) /\ Len(uns) = l
        /\ \A i \in 1 .. l : uns[i] = IF i = l THEN p ELSE unsent[i]
    <3>1. p \in Segments
      BY <2>2
    <3>. QED
      BY <2>0, <2>1, <2>3, <3>1, ExceptSeq
  <2>5. /\ u \in Seq(Segments) /\ Len(u) = m + l /\ m \in Nat /\ m \in 0 .. Len(u)
        /\ \A i \in 1 .. m : u[i] = unacked[i]
        /\ \A i \in 1 .. l : u[m + i] = uns[i]
        /\ unacked = SubSeq(u, 1, m) /\ uns = SubSeq(u, m + 1, Len(u))
    <3>1. uns \in Seq(Segments) /\ Len(uns) = l
      BY <2>4
    <3>2. /\ u \in Seq(Segments) /\ Len(u) = Len(unacked) + Len(uns)
          /\ Len(unacked) \in Nat /\ Len(uns) \in Nat /\ Len(unacked) \in 0 .. Len(u)
          /\ \A i \in 1 .. Len(unacked) : u[i] = unacked[i]
          /\ \A i \in 1 .. Len(uns) : u[Len(unacked) + i] = uns[i]
          /\ unacked = SubSeq(u, 1, Len(unacked))
          /\ uns = SubSeq(u, Len(unacked) + 1, Len(u))
      <4>1. unacked \in Seq(Segments) /\ uns \in Seq(Segments)
        BY <2>0, <3>1
      <4>. QED
        BY <4>1, Joined
    <3>. HIDE DEF l, u
    <3>. QED
      BY <3>1, <3>2
  <2>6. /\ Len(q) = m + l
        /\ \A i \in 1 .. m : q[i] = unacked[i]
        /\ \A i \in 1 .. l : q[m + i] = unsent[i]
    BY <2>0, Joined DEF Outstanding
  <2>. HIDE DEF u, l, m, q
  <2>7. Len(u) = Len(q) /\ m \in 0 .. Len(q) - 1 /\ u[Len(q)] = p /\ p.seq = q[Len(q)].seq
        /\ p.bytes = q[Len(q)].bytes /\ p.pbufs = q[Len(q)].pbufs /\ Len(q) \in 1 .. Len(q)
    BY <2>1, <2>2, <2>4, <2>5, <2>6
  <2>8. \A i \in 1 .. Len(q) - 1 : u[i] = q[i]
    <3>1. ASSUME NEW i \in 1 .. Len(q) - 1 PROVE u[i] = q[i]
      <4>1. CASE i \in 1 .. m
        BY <2>5, <2>6, <4>1
      <4>2. CASE i - m \in 1 .. l - 1
        <5>1. i - m \in 1 .. l /\ i - m # l /\ m + (i - m) = i
          BY <2>1, <2>5, <4>2
        <5>. QED
          BY <2>4, <2>5, <2>6, <5>1
      <4>. QED
        BY ONLY <2>1, <2>5, <2>6, <4>1, <4>2
    <3>. QED
      BY <3>1
  <2>9. Holds(q[Len(q)], snd, w) /\ SegLen(q[Len(q)]) <= snd.mss /\ EndOff(q[Len(q)]) = w + Fin(snd)
    BY <1>3, <2>7, EmptySeq DEF QueueInv
  <2>10. q[Len(q)] \in Segments \cup Packets
    <3>1. q \in Seq(Segments) /\ Len(q) \in 1 .. Len(q)
      BY <1>1, <2>7
    <3>. QED
      BY <3>1, ElementOfSeq
  <2>11. /\ SegLen(p) = SegLen(q[Len(q)]) /\ BytesEnd(p) = w
         /\ EndOff(p) = w + 1 /\ TcpLen(p) >= 1 /\ Fin(s) = 1
    <3>. DEFINE x == q[Len(q)]
    <3>1. /\ SegLen(p) = SegLen(x) /\ BytesEnd(p) = BytesEnd(x)
      BY <2>7 DEF SegLen, BytesEnd
    <3>2. ~x.fin
      BY <1>4, <2>9 DEF Holds
    <3>3. EndOff(x) = BytesEnd(x) + 0 /\ BytesEnd(x) \in Nat
      BY <2>10, <3>2, SegEndOff
    <3>4. p \in Segments \cup Packets /\ p.fin
      BY <2>2
    <3>5. EndOff(p) = BytesEnd(p) + 1 /\ TcpLen(p) = SegLen(p) + 1 /\ SegLen(p) \in Nat
      <4>1. EndOff(p) = BytesEnd(p) + 1 /\ SegLen(p) \in Nat
        BY <3>4, SegEndOff
      <4>. QED
        BY <3>4, <4>1 DEF TcpLen, SegLen
    <3>6. Fin(s) = 1
      BY <1>7 DEF Fin
    <3>7. EndOff(x) = w + Fin(snd)
      BY <2>9
    <3>. HIDE DEF x
    <3>8. BytesEnd(x) = w
      BY <1>1, <1>5, <3>3, <3>7
    <3>9. TcpLen(p) >= 1 /\ EndOff(p) = w + 1
      BY <3>1, <3>5, <3>8
    <3>. QED
      BY <3>1, <3>6, <3>8, <3>9 DEF x
  <2>12. Holds(p, s, w)
    <3>1. \A k \in 1 .. SegLen(p) : p.bytes[k] = Off(p.seq) + k
      BY <2>7, <2>9, <2>11 DEF Holds
    <3>2. w <= w /\ s.fin
      BY <1>1, <1>7
    <3>3. BytesEnd(p) = w /\ TcpLen(p) >= 1
      BY <2>11
    <3>. HIDE DEF s, w
    <3>. QED
      BY <3>1, <3>2, <3>3 DEF Holds
  <2>. HIDE DEF s, w
  <2>13. Core(u, m, s, w)
    <3>1. Core(q, m, snd, w)
      BY <1>3, QueueIs
    <3>2. Writes(snd, w, s, w)
      BY <1>1, <1>4, <1>7 DEF Writes
    <3>3. EndOff(p) = w + Fin(s) /\ SegLen(p) <= snd.mss
      BY <2>9, <2>11
    <3>. QED
      BY <1>1, <1>7, <2>2, <2>5, <2>7, <2>8, <2>12, <3>1, <3>2, <3>3, Replaced
  <2>14. Pbufs(u) = Pbufs(q)
    <3>1. \A i \in 1 .. Len(q) : u[i].pbufs = q[i].pbufs
      <4>1. \A i \in 1 .. Len(q) : i \in 1 .. Len(q) - 1 \/ i = Len(q)
        <5>1. Len(q) \in Nat
          BY <2>5, <2>7
        <5>. QED
          BY <5>1
      <4>. QED
        BY <2>7, <2>8, <4>1
    <3>2. DOMAIN u = 1 .. Len(q) /\ DOMAIN q = 1 .. Len(q)
      <4>1. q \in Seq(Segments) /\ u \in Seq(Segments) /\ Len(u) = Len(q)
        BY <1>1, <2>5, <2>7
      <4>. QED
        BY <4>1, LenProperties
    <3>3. [i \in DOMAIN u |-> u[i].pbufs] = [i \in DOMAIN q |-> q[i].pbufs]
      BY <3>1, <3>2
    <3>. QED
      BY <3>3 DEF Pbufs
  <2>15. QueueInv(u, m, s, w)
    <3>1. /\ SegLen(q[Len(q)]) + snd.oversize <= snd.mss /\ snd.queuelen = Pbufs(q)
      <4>1. m < Len(q)
        BY <2>7
      <4>2. QueueInv(q, m, snd, w)
        BY <1>3
      <4>. QED
        BY <4>1, <4>2, QueueIs
    <3>2. m < Len(u) /\ m # Len(u) /\ u[Len(u)] = p
      BY <2>7
    <3>3. SegLen(u[Len(u)]) + s.oversize <= s.mss
      BY <1>7, <2>11, <3>1, <3>2
    <3>. QED
      BY <1>7, <2>13, <2>14, <3>1, <3>2, <3>3, QueueIs
  <2>16. SenderInv(s, w, rcv)
    <3>1. Off(snd.nxt) <= w + 1
      BY <1>1, <1>3, <1>5 DEF SenderInv
    <3>2. s.buf + w - Off(s.lastack) \in {SndBuf, SndBuf - Fin(s)}
      <4>1. snd.buf + w - Off(snd.lastack) \in {SndBuf, SndBuf - 0}
        BY <1>3, <1>5 DEF SenderInv
      <4>2. SndBuf - 0 = SndBuf
        BY SizeAssumption
      <4>. QED
        BY <1>7, <4>1, <4>2
    <3>. QED
      BY <1>3, <1>6, <1>7, <2>11, <3>1, <3>2 DEF SenderInv
  <2>17. Later(snd, w, s, w)
    BY <1>1, <1>4, <1>5, <1>7 DEF Later
  <2>18. SplitAt(u, m, unacked, uns, s)
    BY <2>5 DEF SplitAt
  <2>19. Known(s) = Known(snd)
    BY <1>7 DEF Known
  <2>20. \A i \in DOMAIN acks' : AckInv(acks'[i], s, rcv)
    BY <1>9, <2>19
  <2>21. sentTold' = MinOf(Off(s.lastack), w)
    BY <1>7, <1>10
  <2>. QED
    BY <1>7, <1>8, <1>9, <1>11, <2>5, <2>15, <2>16, <2>17, <2>18, <2>20, <2>21, OutputStep DEF w
<1>12. CASE unsent = <<>> /\ Sends(Output(unacked, <<seg>>, t))
  <2>. DEFINE u == unacked \o <<seg>>
  <2>1. /\ seg \in Segments /\ seg.seq = snd.lbb /\ seg.bytes = <<>> /\ seg.fin = TRUE
        /\ seg.pbufs = 1
    BY <1>5 DEF Segments
  <2>. HIDE DEF seg
  <2>2. /\ Plus(snd.lbb, 1) \in Seqs
    <3>1. SeqModulus \in Nat \ {0} /\ snd.lbb + 1 \in Int
      BY <1>5, Constants DEF Seqs
    <3>. DEFINE x == snd.lbb + 1
    <3>2. x % SeqModulus \in 0 .. SeqModulus - 1
      <4>. HIDE DEF x
      <4>. QED
        BY <3>1, Modulus DEF x
    <3>. QED
      BY <3>2 DEF Plus, Seqs
  <2>3. /\ t \in Senders /\ t.state = closing /\ t.nxt = snd.nxt
        /\ t.lastack = snd.lastack /\ t.buf = snd.buf - 1
        /\ t.wnd = snd.wnd /\ t.wl2 = snd.wl2 /\ t.mss = snd.mss
        /\ t.cwnd = snd.cwnd /\ t.ssthresh = snd.ssthresh /\ t.fin = TRUE
        /\ t.oversize = 0 /\ t.queuelen = snd.queuelen + 1
    <3>. DEFINE x == Plus(snd.lbb, 1)
                y == snd.buf - 1
                z == snd.queuelen + 1
    <3>1. x \in Seqs /\ y \in Int /\ z \in Int
      BY <1>5, <2>2
    <3>. HIDE DEF s
    <3>2. t = [s EXCEPT !.lbb = x, !.buf = y, !.oversize = 0, !.queuelen = z]
      BY <1>7
    <3>. HIDE DEF t, x, y, z
    <3>. DEFINE x0 == s
    <3>4. x0 \in Senders
      BY <1>7
    <3>5. t = [x0 EXCEPT !.lbb = x, !.buf = y, !.oversize = 0, !.queuelen = z]
      BY <3>2
    <3>. HIDE DEF x0
    <3>7. t \in Senders
      <4>. DEFINE o == 0
      <4>1. o \in Int /\ t = [x0 EXCEPT !.lbb = x, !.buf = y, !.oversize = o, !.queuelen = z]
        BY <3>5
      <4>. HIDE DEF o
      <4>. QED
        BY <3>1, <3>4, <4>1 DEF Senders
    <3>6. /\ t \in Senders /\ t.state = x0.state /\ t.nxt = x0.nxt
          /\ t.lastack = x0.lastack /\ t.buf = y
          /\ t.wnd = x0.wnd /\ t.wl2 = x0.wl2 /\ t.mss = x0.mss
          /\ t.cwnd = x0.cwnd /\ t.ssthresh = x0.ssthresh /\ t.fin = x0.fin
          /\ t.oversize = 0 /\ t.queuelen = z
      BY <3>4, <3>5, <3>7 DEF Senders
    <3>3. /\ t \in Senders /\ t.state = s.state /\ t.nxt = s.nxt
          /\ t.lastack = s.lastack /\ t.buf = y
          /\ t.wnd = s.wnd /\ t.wl2 = s.wl2 /\ t.mss = s.mss
          /\ t.cwnd = s.cwnd /\ t.ssthresh = s.ssthresh /\ t.fin = s.fin
          /\ t.oversize = 0 /\ t.queuelen = z
      BY <3>6 DEF x0
    <3>. QED
      BY <1>7, <3>3 DEF y, z
  <2>. HIDE DEF t, s
  <2>4. q = unacked /\ m = Len(q) /\ Len(q) \in Nat
    <3>1. unacked \o <<>> = unacked /\ m \in Nat
      BY <1>1
    <3>. QED
      BY <1>12, <3>1 DEF Outstanding
  <2>5. <<seg>> \in Seq(Segments) /\ Len(<<seg>>) = 1 /\ <<seg>>[1] = seg
    BY <2>1
  <2>6. /\ u \in Seq(Segments) /\ Len(u) = m + 1 /\ m \in Nat /\ m \in 0 .. Len(u)
        /\ \A i \in 1 .. m : u[i] = unacked[i]
        /\ u[m + 1] = seg
        /\ unacked = SubSeq(u, 1, m) /\ <<seg>> = SubSeq(u, m + 1, Len(u))
    <3>. DEFINE b == <<seg>>
    <3>1. b \in Seq(Segments) /\ Len(b) = 1 /\ b[1] = seg /\ 1 \in 1 .. Len(b)
      BY <2>5
    <3>3. unacked \in Seq(Segments)
      BY <1>1
    <3>. HIDE DEF b
    <3>2. /\ unacked \o b \in Seq(Segments) /\ Len(unacked \o b) = m + Len(b) /\ m \in Nat
          /\ m \in 0 .. Len(unacked \o b)
          /\ \A i \in 1 .. m : (unacked \o b)[i] = unacked[i]
          /\ \A i \in 1 .. Len(b) : (unacked \o b)[m + i] = b[i]
          /\ unacked = SubSeq(unacked \o b, 1, m)
          /\ b = SubSeq(unacked \o b, m + 1, Len(unacked \o b))
      BY <3>1, <3>3, Joined
    <3>. QED
      BY <3>1, <3>2 DEF b
  <2>7. Pbufs(u) = Pbufs(q) + 1
    <3>1. unacked \in Seq(Segments)
      BY <1>1
    <3>2. Pbufs(u) = Pbufs(unacked) + Pbufs(<<seg>>)
      BY <2>5, <3>1, PbufsSum
    <3>3. Pbufs(<<seg>>) = seg.pbufs /\ seg.pbufs = 1
      BY <2>1, PbufsSum
    <3>. HIDE DEF u, q, m
    <3>. QED
      BY <2>4, <3>2, <3>3
  <2>. HIDE DEF u, m, q
  <2>8. /\ SegLen(seg) = 0 /\ TcpLen(seg) = 1 /\ Off(seg.seq) = w /\ BytesEnd(seg) = w
        /\ EndOff(seg) = w + 1 /\ Fin(t) = 1
    <3>1. SegLen(seg) = 0 /\ TcpLen(seg) = 1 /\ Off(seg.seq) = w /\ Fin(t) = 1
      BY <1>5, <2>1, <2>3 DEF SegLen, TcpLen, Fin
    <3>. QED
      BY <1>1, <3>1 DEF BytesEnd, EndOff
  <2>9. Holds(seg, t, w)
    <3>1. \A k \in 1 .. SegLen(seg) : FALSE
      BY <2>8
    <3>. QED
      BY <1>1, <2>3, <2>8, <3>1 DEF Holds
  <2>. HIDE DEF w
  <2>10. SegLen(seg) <= snd.mss /\ snd.mss \in Nat
    BY <1>1, <2>8, SenderType
  <2>11. Core(u, m, t, w)
    <3>1. Core(q, m, snd, w)
      BY <1>3, QueueIs
    <3>2. Writes(snd, w, t, w)
      BY <1>1, <1>4, <2>3 DEF Writes
    <3>3. Len(u) = Len(q) + 1 /\ u[Len(q) + 1] = seg /\ \A i \in 1 .. Len(q) : u[i] = q[i]
      BY <2>4, <2>6
    <3>4. EndOff(seg) = w + Fin(t) /\ Off(seg.seq) = w
      BY <2>8
    <3>5. /\ q \in Seq(Segments) /\ m \in 0 .. Len(q) /\ snd \in Senders /\ t \in Senders
          /\ w \in 0 .. StreamLen /\ seg \in Segments /\ u \in Seq(Segments)
          /\ SegLen(seg) <= snd.mss
      BY <1>1, <2>1, <2>3, <2>6, <2>10
    <3>. QED
      BY <2>9, <3>1, <3>2, <3>3, <3>4, <3>5, Appended
  <2>12. QueueInv(u, m, t, w)
    <3>1. snd.queuelen = Pbufs(q)
      BY <1>3, QueueIs
    <3>2. m < Len(u) /\ m # Len(u) /\ u[Len(u)] = seg
      BY <2>6
    <3>3. SegLen(u[Len(u)]) + t.oversize <= t.mss
      BY <2>3, <2>8, <2>10, <3>2
    <3>. QED
      BY <2>3, <2>7, <2>11, <3>1, <3>2, <3>3, QueueIs
  <2>13. SenderInv(t, w, rcv)
    <3>1. Off(snd.nxt) <= w + 1
      BY <1>1, <1>3, <1>5 DEF SenderInv
    <3>2. t.buf + w - Off(t.lastack) \in {SndBuf, SndBuf - Fin(t)}
      <4>1. snd.buf + w - Off(snd.lastack) \in {SndBuf, SndBuf - 0}
        BY <1>3, <1>5 DEF SenderInv
      <4>2. SndBuf \in Nat
        BY SizeAssumption
      <4>3. (snd.buf - 1) + w - Off(snd.lastack) = SndBuf - 1
        BY ONLY <1>1, <1>5, <4>1, <4>2
      <4>. QED
        BY <2>3, <2>8, <4>3
    <3>. QED
      BY <1>3, <1>6, <2>3, <2>8, <3>1, <3>2 DEF SenderInv
  <2>14. Later(snd, w, t, w)
    BY <1>1, <1>4, <1>5, <2>3 DEF Later
  <2>15. SplitAt(u, m, unacked, <<seg>>, t)
    BY <2>6 DEF SplitAt
  <2>16. \A i \in DOMAIN acks' : AckInv(acks'[i], t, rcv)
    <3>1. Known(t) = Known(snd)
      BY <2>3 DEF Known
    <3>. QED
      BY <1>9, <3>1
  <2>17. sentTold' = MinOf(Off(t.lastack), w)
    BY <1>10, <2>3
  <2>. QED
    BY <1>8, <1>9, <1>12, <2>3, <2>6, <2>12, <2>13, <2>14, <2>15, <2>16, <2>17, OutputStep DEF w
<1>13. CASE snd' = [snd EXCEPT !.memerr = TRUE] /\ UNCHANGED <<unacked, unsent, data>>
  <2>1. UNCHANGED <<unacked, unsent, written, sentTold, receiver, network>>
    BY <1>13 DEF Close, network
  <2>. QED
    BY <1>13, <2>1, MemerrStep
<1>. QED
  BY <1>11, <1>12, <1>13 DEF Close, closing

(* How many segments of m bytes a bytes need.                              *)
LEMMA CeilDiv ==
  ASSUME NEW a \in Nat, NEW m \in Nat \ {0}
  PROVE  LET n == (a + m - 1) \div m
         IN  /\ n \in Nat /\ a <= n * m
             /\ \A k \in 1 .. n : (k - 1) * m \in Nat /\ (k - 1) * m < a
             /\ n = 0 => a = 0
<1>. DEFINE x == a + m - 1
            n == x \div m
            r == x % m
<1>1. x \in Nat
  OBVIOUS
<1>2. n \in Nat /\ r \in Int /\ 0 <= r /\ r < m /\ x = m * n + r
  <2>. HIDE DEF x
  <2>1. x \div m \in Int /\ x % m \in Int /\ 0 <= x % m /\ x % m < m
        /\ x = m * (x \div m) + (x % m)
    BY <1>1
  <2>. DEFINE y == x \div m
              z == x % m
  <2>2. y \in Int /\ z \in Int /\ 0 <= z /\ z < m /\ x = m * y + z
    BY <2>1
  <2>. HIDE DEF y, z
  <2>3. y >= 0
    <3>1. SUFFICES ASSUME y <= -1 PROVE FALSE
      BY <2>2
    <3>2. m * y <= -m
      BY <2>2, <3>1
    <3>3. m * y \in Int
      BY <2>2
    <3>. QED
      BY <1>1, <2>2, <3>2, <3>3
  <2>. QED
    BY <2>2, <2>3 DEF y, z
<1>. HIDE DEF n, r
<1>3. x = a + m - 1
  OBVIOUS
<1>. HIDE DEF x
<1>4. m * n \in Nat /\ n * m = m * n
  BY <1>2
<1>5. a <= n * m /\ m * n < a + m
  BY <1>1, <1>2, <1>3, <1>4
<1>6. ASSUME NEW k \in 1 .. n PROVE (k - 1) * m \in Nat /\ (k - 1) * m < a
  <2>. DEFINE j == n - k
  <2>1. k \in Nat /\ k >= 1 /\ j \in Nat /\ n = k + j
    BY <1>2
  <2>. HIDE DEF j
  <2>2. m * j \in Nat /\ m * k \in Nat
    BY <2>1
  <2>3. m * (k + j) = m * k + m * j
    BY <2>1
  <2>4. m * n = m * k + m * j
    BY <2>1, <2>3
  <2>5. m * k < a + m
    BY <1>4, <1>5, <2>2, <2>4
  <2>6. (k - 1) * m = m * k - m
    BY <2>1
  <2>7. k - 1 \in Nat
    BY <2>1
  <2>8. (k - 1) * m \in Nat
    BY <2>7
  <2>. QED
    BY <2>2, <2>5, <2>6, <2>8
<1>7. n = 0 => a = 0
  BY <1>5
<1>. QED
  BY <1>2, <1>5, <1>6, <1>7 DEF n, x

(* One segment after the other is appended: e[i] is the end of the i-th.   *)
LEMMA FreshAppended ==
  ASSUME NEW b \in Seq(Segments), NEW n \in 0 .. Len(b), NEW s \in Senders,
         NEW w \in 0 .. StreamLen, ~s.fin, Core(b, n, s, w),
         NEW f \in Seq(Segments), NEW e \in [0 .. Len(f) -> 0 .. StreamLen], e[0] = w,
         \A i \in 1 .. Len(f) : /\ Off(f[i].seq) = e[i - 1] /\ Holds(f[i], s, e[i])
                                /\ EndOff(f[i]) = e[i] /\ SegLen(f[i]) <= s.mss
  PROVE  Core(b \o f, n, s, e[Len(f)])
<1>. DEFINE l == Len(f)
            g(k) == b \o SubSeq(f, 1, k)
            S == {k \in 0 .. l : Core(g(k), n, s, e[k])}
<1>1. l \in Nat
  OBVIOUS
<1>2. ASSUME NEW k \in 0 .. l
      PROVE  /\ g(k) \in Seq(Segments) /\ Len(g(k)) = Len(b) + k
             /\ \A i \in 1 .. Len(b) : g(k)[i] = b[i]
             /\ \A i \in 1 .. k : g(k)[Len(b) + i] = f[i]
  <2>. DEFINE c == SubSeq(f, 1, k)
  <2>1. c \in Seq(Segments) /\ Len(c) = k /\ \A i \in 1 .. k : c[i] = f[i]
    BY Parts
  <2>. HIDE DEF c
  <2>2. /\ b \o c \in Seq(Segments) /\ Len(b \o c) = Len(b) + Len(c)
        /\ \A i \in 1 .. Len(b) : (b \o c)[i] = b[i]
        /\ \A i \in 1 .. Len(c) : (b \o c)[Len(b) + i] = c[i]
    <3>1. b \in Seq(Segments) /\ c \in Seq(Segments)
      BY <2>1
    <3>. QED
      BY <3>1, Joined
  <2>. QED
    BY <2>1, <2>2 DEF c
<1>3. 0 \in S
  <2>1. 0 \in 0 .. l
    BY <1>1
  <2>2. g(0) = b
    <3>1. SubSeq(f, 1, 0) = <<>>
      BY SubSeqEmpty
    <3>. QED
      BY <3>1
  <2>. QED
    BY <2>1, <2>2
<1>. HIDE DEF g
<1>4. ASSUME NEW k \in 0 .. l - 1, k \in S PROVE k + 1 \in S
  <2>1. /\ k \in 0 .. l /\ k + 1 \in 0 .. l /\ k + 1 \in 1 .. l /\ (k + 1) - 1 = k /\ k \in Nat
        /\ k \in 1 .. k \/ k = 0
    BY <1>1
  <2>2. Core(g(k), n, s, e[k])
    BY <1>4
  <2>. DEFINE u == g(k + 1)
              q == g(k)
              p == f[k + 1]
  <2>3. /\ p \in Segments /\ Off(p.seq) = e[k] /\ Holds(p, s, e[k + 1])
        /\ EndOff(p) = e[k + 1] /\ SegLen(p) <= s.mss
    BY <2>1, ElementOfSeq
  <2>4. e[k] \in 0 .. StreamLen /\ e[k + 1] \in 0 .. StreamLen
    BY <2>1
  <2>5. /\ u \in Seq(Segments) /\ Len(u) = Len(b) + (k + 1)
        /\ \A i \in 1 .. Len(b) : u[i] = b[i]
        /\ \A i \in 1 .. k + 1 : u[Len(b) + i] = f[i]
    BY <1>2, <2>1
  <2>6. /\ q \in Seq(Segments) /\ Len(q) = Len(b) + k
        /\ \A i \in 1 .. Len(b) : q[i] = b[i]
        /\ \A i \in 1 .. k : q[Len(b) + i] = f[i]
    BY <1>2, <2>1
  <2>. HIDE DEF u, q
  <2>7. Len(b) \in Nat
    OBVIOUS
  <2>8. Len(u) = Len(q) + 1 /\ n \in 0 .. Len(q)
    BY <2>1, <2>5, <2>6, <2>7
  <2>9. u[Len(q) + 1] = p
    <3>1. k + 1 \in 1 .. k + 1 /\ Len(q) + 1 = Len(b) + (k + 1)
      BY <2>1, <2>6, <2>7
    <3>. QED
      BY <2>5, <3>1
  <2>10. ASSUME NEW i \in 1 .. Len(q) PROVE u[i] = q[i]
    <3>1. CASE i \in 1 .. Len(b)
      BY <2>5, <2>6, <3>1
    <3>2. CASE i - Len(b) \in 1 .. k
      <4>1. i - Len(b) \in 1 .. k + 1 /\ Len(b) + (i - Len(b)) = i
        BY <2>1, <2>6, <2>7, <3>2
      <4>. QED
        BY <2>5, <2>6, <3>2, <4>1
    <3>. QED
      BY <2>1, <2>6, <2>7, <3>1, <3>2
  <2>11. Writes(s, e[k], s, e[k + 1])
    <3>1. p \in Segments \cup Packets
      BY <2>3
    <3>2. TcpLen(p) \in Nat /\ Off(p.seq) \in Nat
      BY <3>1, SegEndOff
    <3>3. e[k + 1] = e[k] + TcpLen(p)
      BY <2>3 DEF EndOff
    <3>4. e[k] \in Nat
      BY <2>3, <3>2
    <3>5. e[k] <= e[k + 1]
      BY <3>2, <3>3, <3>4
    <3>. QED
      BY <3>5 DEF Writes
  <2>12. EndOff(p) = e[k + 1] + Fin(s)
    <3>1. EndOff(p) = e[k + 1] /\ e[k + 1] \in Int
      BY <2>3, <2>4
    <3>. QED
      BY <3>1 DEF Fin
  <2>. HIDE DEF p
  <2>13. Core(q, n, s, e[k])
    BY <2>2 DEF q
  <2>. DEFINE x == e[k]
              y == e[k + 1]
  <2>14. /\ x \in 0 .. StreamLen /\ y \in 0 .. StreamLen /\ Writes(s, x, s, y) /\ Core(q, n, s, x)
         /\ Off(p.seq) = x /\ Holds(p, s, y) /\ EndOff(p) = y + Fin(s)
    BY <2>3, <2>4, <2>11, <2>12, <2>13
  <2>. HIDE DEF x, y
  <2>15. Core(u, n, s, y)
    BY <2>3, <2>5, <2>6, <2>8, <2>9, <2>10, <2>14, Appended
  <2>. QED
    BY <2>1, <2>15 DEF u, y
<1>5. \A k \in 0 .. l : k \in S
  <2>. HIDE DEF S, l
  <2>. QED
    BY <1>1, <1>3, <1>4, UpTo
<1>6. g(l) = b \o f
  BY SubSeqFull DEF g
<1>7. l \in S
  <2>1. l \in 0 .. l
    BY <1>1
  <2>. HIDE DEF S, l
  <2>. QED
    BY <1>5, <2>1
<1>. QED
  BY <1>6, <1>7

(* Of the len bytes written behind the w before them, all but the first a  *)
(* go to n segments of at most m bytes: segment i begins at e[i - 1] and   *)
(* ends at e[i].                                                           *)
Places(e, n, m, w, len, a) ==
  /\ e[0] = w + a /\ e[n] = w + len
  /\ \A i \in 1 .. n :
       \E x, y \in Nat : /\ x = a + (i - 1) * m /\ y = MinOf(x + m, len)
                         /\ x < y /\ y <= len /\ y - x <= m
                         /\ e[i - 1] = w + x /\ e[i] = w + y

Divided(n, m, w, len, a) ==
  /\ n \in Nat /\ (n = 0 <=> a = len)
  /\ \E e \in [0 .. n -> 0 .. StreamLen] : Places(e, n, m, w, len, a)

LEMMA FreshPlaces ==
  ASSUME NEW m \in Nat \ {0}, NEW w \in Nat, NEW len \in Nat \ {0}, w + len <= StreamLen,
         NEW a \in 0 .. len, NEW n, n = (len - a + m - 1) \div m
  PROVE  Divided(n, m, w, len, a)
<1>. DEFINE From(i) == a + (i - 1) * m
            To(i) == MinOf(From(i) + m, len)
            e == [k \in 0 .. n |-> IF k = 0 THEN w + a ELSE w + To(k)]
<1>2. a \in Nat /\ a <= len /\ len \in Nat /\ len >= 1 /\ StreamLen \in Nat
  BY Constants
<1>3. /\ n \in Nat /\ len - a <= n * m /\ (n = 0 => a = len)
      /\ \A k \in 1 .. n : (k - 1) * m \in Nat /\ (k - 1) * m < len - a
  <2>. DEFINE d == len - a
  <2>1. d \in Nat
    BY <1>2
  <2>2. n = (d + m - 1) \div m
    OBVIOUS
  <2>. HIDE DEF d
  <2>3. /\ n \in Nat /\ d <= n * m /\ (n = 0 => d = 0)
        /\ \A k \in 1 .. n : (k - 1) * m \in Nat /\ (k - 1) * m < d
    BY <2>1, <2>2, CeilDiv
  <2>4. d = 0 => a = len
    BY <1>2 DEF d
  <2>. QED
    BY <2>3, <2>4 DEF d
<1>4. ASSUME NEW i \in 1 .. n
      PROVE  /\ From(i) \in Nat /\ From(i) < len /\ To(i) \in Nat
             /\ From(i) < To(i) /\ To(i) <= len /\ To(i) - From(i) <= m
  <2>. DEFINE x == (i - 1) * m
  <2>1. x \in Nat /\ x < len - a
    BY <1>3
  <2>2. From(i) = a + x
    OBVIOUS
  <2>. DEFINE y == From(i)
  <2>. HIDE DEF x
  <2>3. y \in Nat /\ y < len
    BY <1>2, <2>1, <2>2
  <2>4. To(i) = MinOf(y + m, len)
    OBVIOUS
  <2>. HIDE DEF From, To, y
  <2>5. To(i) \in Nat /\ y < To(i) /\ To(i) <= len /\ To(i) - y <= m
    BY <1>2, <2>3, <2>4 DEF MinOf
  <2>. QED
    BY <2>3, <2>5 DEF y
<1>5. ASSUME NEW i \in 1 .. n, i < n PROVE To(i) = From(i + 1)
  <2>1. i + 1 \in 1 .. n /\ i \in Int /\ (i + 1) - 1 = i
    BY <1>3, <1>5
  <2>. DEFINE x == (i - 1) * m
              z == i * m
  <2>2. x \in Nat
    BY <1>3
  <2>3. z \in Nat /\ z < len - a
    <3>1. ((i + 1) - 1) * m \in Nat /\ ((i + 1) - 1) * m < len - a
      BY <1>3, <2>1
    <3>. QED
      BY <2>1, <3>1
  <2>4. z = x + m
    BY <2>1
  <2>5. From(i) = a + x /\ To(i) = MinOf(From(i) + m, len)
    OBVIOUS
  <2>6. From(i + 1) = a + z
    BY <2>1
  <2>. HIDE DEF x, z, From, To
  <2>7. a + z <= len /\ a + z \in Nat /\ From(i) + m = a + z
    BY <1>2, <2>2, <2>3, <2>4, <2>5
  <2>8. MinOf(a + z, len) = a + z
    BY <1>2, <2>7 DEF MinOf
  <2>. QED
    BY <2>5, <2>6, <2>7, <2>8
<1>6. n >= 1 => To(n) = len
  <2>1. SUFFICES ASSUME n >= 1 PROVE To(n) = len
    OBVIOUS
  <2>. DEFINE x == (n - 1) * m
  <2>2. x \in Nat /\ n \in 1 .. n
    BY <1>3, <2>1
  <2>3. n * m = x + m
    BY <1>3
  <2>4. From(n) = a + x /\ To(n) = MinOf(From(n) + m, len)
    OBVIOUS
  <2>5. len - a <= n * m /\ n * m \in Nat
    BY <1>3
  <2>. HIDE DEF x, From, To
  <2>. QED
    BY <1>2, <2>2, <2>3, <2>4, <2>5 DEF MinOf
<1>7. n >= 1 => From(1) = a
  <2>1. (1 - 1) * m = 0
    OBVIOUS
  <2>. QED
    BY <1>2, <2>1
<1>8. /\ e[0] = w + a
      /\ \A i \in 1 .. n : e[i] = w + To(i)
  <2>1. 0 \in 0 .. n /\ \A i \in 1 .. n : i \in 0 .. n /\ i # 0
    BY <1>3
  <2>. HIDE DEF To
  <2>. QED
    BY <2>1
<1>9. e \in [0 .. n -> 0 .. StreamLen]
  <2>1. ASSUME NEW k \in 0 .. n PROVE e[k] \in 0 .. StreamLen
    <3>1. CASE k = 0
      BY <1>2, <1>8, <3>1
    <3>2. CASE k # 0
      <4>1. k \in 1 .. n
        BY <1>3, <3>2
      <4>. DEFINE x == To(k)
      <4>2. x \in Nat /\ x <= len /\ e[k] = w + x
        BY <1>4, <1>8, <4>1
      <4>. HIDE DEF x, e
      <4>. QED
        BY <1>2, <4>2
    <3>. QED
      BY <3>1, <3>2
  <2>2. e = [k \in 0 .. n |-> e[k]]
    OBVIOUS
  <2>. HIDE DEF e
  <2>. QED
    BY <2>1, <2>2
<1>10. e[n] = w + len
  <2>1. CASE n = 0
    BY <1>3, <1>8, <2>1
  <2>2. CASE n # 0
    <3>1. n \in 1 .. n /\ n >= 1
      BY <1>3, <2>2
    <3>. HIDE DEF e, To
    <3>. QED
      BY <1>6, <1>8, <3>1
  <2>. QED
    BY <2>1, <2>2
<1>11. ASSUME NEW i \in 1 .. n PROVE e[i - 1] = w + From(i)
  <2>1. CASE i = 1
    <3>1. n >= 1 /\ i - 1 = 0
      BY <1>3, <2>1
    <3>. HIDE DEF e, From
    <3>. QED
      BY <1>7, <1>8, <2>1, <3>1
  <2>2. CASE i # 1
    <3>1. i - 1 \in 1 .. n /\ i - 1 < n /\ (i - 1) + 1 = i
      BY <1>3, <2>2
    <3>2. To(i - 1) = From((i - 1) + 1)
      BY <1>5, <3>1
    <3>3. e[i - 1] = w + To(i - 1)
      BY <1>8, <3>1
    <3>. HIDE DEF e, From, To
    <3>. QED
      BY <3>1, <3>2, <3>3
  <2>. QED
    BY <2>1, <2>2
<1>. HIDE DEF e
<1>12. Places(e, n, m, w, len, a)
  <2>1. ASSUME NEW i \in 1 .. n
        PROVE  \E x, y \in Nat : /\ x = a + (i - 1) * m /\ y = MinOf(x + m, len)
                                 /\ x < y /\ y <= len /\ y - x <= m
                                 /\ e[i - 1] = w + x /\ e[i] = w + y
    <3>1. /\ From(i) = a + (i - 1) * m /\ To(i) = MinOf(From(i) + m, len)
      OBVIOUS
    <3>2. /\ From(i) \in Nat /\ To(i) \in Nat
          /\ From(i) < To(i) /\ To(i) <= len /\ To(i) - From(i) <= m
          /\ e[i - 1] = w + From(i) /\ e[i] = w + To(i)
      BY <1>4, <1>8, <1>11
    <3>. HIDE DEF From, To
    <3>. QED
      BY <3>1, <3>2
  <2>. HIDE DEF From, To
  <2>. QED
    BY <1>8, <1>10, <2>1 DEF Places
<1>13. \E g \in [0 .. n -> 0 .. StreamLen] : Places(g, n, m, w, len, a)
  BY <1>9, <1>12
<1>14. n # 0 => a # len
  <2>1. SUFFICES ASSUME n # 0 PROVE a # len
    OBVIOUS
  <2>2. n >= 1 /\ 1 \in 1 .. n
    BY <1>3, <2>1
  <2>3. From(1) < len /\ From(1) = a
    BY <1>4, <1>7, <2>2
  <2>. QED
    BY <1>2, <2>3
<1>. QED
  BY <1>3, <1>13, <1>14 DEF Divided

(* A segment of data as tcp_create_segment makes it.                       *)
BytesSegment(q, bs, pb) == [seq |-> q, bytes |-> bs, fin |-> FALSE, pbufs |-> pb]

(* The len bytes that follow the w written before.                         *)
Follow(bytes, s, w, len) ==
  /\ s \in Senders /\ w \in Nat /\ len \in Nat /\ w + len <= StreamLen /\ Off(s.lbb) = w
  /\ bytes \in Seq(Nat) /\ Len(bytes) = len /\ \A i \in 1 .. len : bytes[i] = w + i

(* A segment of bytes x + 1 to y of those that follow w bytes.             *)
(* p has the bytes from the x-th to the y-th of those behind place w.      *)
Occupies(p, s, w, x, y, pb) ==
  /\ p \in Segments /\ p.pbufs = pb
  /\ Off(p.seq) = w + x /\ Holds(p, s, w + y)
  /\ EndOff(p) = w + y /\ SegLen(p) = y - x

LEMMA FreshSegment ==
  ASSUME NEW s, NEW w, NEW len, NEW bytes, Follow(bytes, s, w, len),
         NEW pb \in {1, 2}, NEW x \in Nat, NEW y \in Nat, x < y, y <= len,
         NEW p, p = BytesSegment(Plus(s.lbb, x), SubSeq(bytes, x + 1, y), pb)
  PROVE  Occupies(p, s, w, x, y, pb)
<1>. USE DEF Occupies
<1>. DEFINE bs == SubSeq(bytes, x + 1, y)
<1>. /\ s \in Senders /\ w \in Nat /\ len \in Nat /\ w + len <= StreamLen /\ Off(s.lbb) = w
     /\ bytes \in Seq(Nat) /\ Len(bytes) = len /\ \A i \in 1 .. len : bytes[i] = w + i
  BY DEF Follow
<1>1. s.lbb \in Seqs
  BY SenderType
<1>2. bs \in Seq(Nat) /\ Len(bs) = y - x /\ \A k \in 1 .. y - x : bs[k] = bytes[x + k]
  <2>. DEFINE z == x + 1
  <2>1. z \in Int /\ z <= y /\ y - z + 1 = y - x
    OBVIOUS
  <2>2. \A k \in z .. y : bytes[k] \in Nat
    <3>1. \A k \in z .. y : k \in 1 .. len
      OBVIOUS
    <3>. HIDE DEF z
    <3>. QED
      BY <3>1, ElementOfSeq
  <2>3. \A k \in 1 .. y - x : z + k - 1 = x + k
    OBVIOUS
  <2>. HIDE DEF z
  <2>4. /\ SubSeq(bytes, z, y) \in Seq(Nat)
        /\ Len(SubSeq(bytes, z, y)) = y - z + 1
        /\ \A k \in 1 .. y - z + 1 : SubSeq(bytes, z, y)[k] = bytes[z + k - 1]
    BY ONLY <2>1, <2>2, SubSeqProperties
  <2>. QED
    BY <2>1, <2>3, <2>4 DEF z
<1>. DEFINE q == Plus(s.lbb, x)
            l == y - x
<1>3. q \in Seqs /\ Off(q) = w + x
  <2>1. StreamLen < SeqModulus /\ SeqModulus \in Nat /\ StreamLen \in Nat
    BY Constants
  <2>2. Off(s.lbb) + x < SeqModulus
    BY <2>1
  <2>. QED
    BY <1>1, <2>2, PlusOff
<1>4. l \in Nat /\ l >= 1 /\ w + x + l = w + y
  OBVIOUS
<1>5. p = [seq |-> q, bytes |-> bs, fin |-> FALSE, pbufs |-> pb] /\ pb \in Nat
  BY DEF BytesSegment
<1>. HIDE DEF bs, q, l
<1>6. p \in Segments /\ p.bytes = bs /\ p.fin = FALSE /\ p.seq = q /\ p.pbufs = pb
  <2>1. q \in Seqs /\ bs \in Seq(Nat) /\ pb \in Nat
    BY <1>2, <1>3, <1>5
  <2>2. p = [seq |-> q, bytes |-> bs, fin |-> FALSE, pbufs |-> pb]
    BY <1>5
  <2>. QED
    BY ONLY <2>1, <2>2 DEF Segments
<1>7. SegLen(p) = l
  BY <1>2, <1>6 DEF SegLen, l
<1>8. TcpLen(p) = l
  <2>1. TcpLen(p) = SegLen(p) + 0
    BY <1>6 DEF TcpLen, SegLen
  <2>. QED
    BY <1>4, <1>7, <2>1
<1>9. EndOff(p) = w + y /\ BytesEnd(p) = w + y
  BY <1>3, <1>4, <1>6, <1>7, <1>8 DEF EndOff, BytesEnd
<1>10. ASSUME NEW k \in 1 .. SegLen(p) PROVE p.bytes[k] = Off(p.seq) + k
  <2>1. k \in 1 .. y - x
    BY <1>7 DEF l
  <2>2. bs[k] = bytes[x + k]
    BY <1>2, <2>1
  <2>3. x + k \in 1 .. len
    BY <2>1
  <2>4. bytes[x + k] = w + (x + k)
    BY <2>3
  <2>5. k \in Nat /\ w + (x + k) = (w + x) + k
    BY <2>1
  <2>. QED
    BY <1>3, <1>6, <2>2, <2>4, <2>5
<1>11. BytesEnd(p) <= w + y /\ TcpLen(p) >= 1
  BY <1>4, <1>8, <1>9
<1>12. Holds(p, s, w + y)
  BY <1>6, <1>10, <1>11 DEF Holds
<1>. QED
  BY <1>3, <1>6, <1>7, <1>9, <1>12 DEF l

(* A function on the first n numbers is a list of n items.                 *)
LEMMA ListOf ==
  ASSUME NEW X, NEW n \in Nat, NEW f \in [1 .. n -> X]
  PROVE  f \in Seq(X) /\ Len(f) = n
BY SMT

(* The segments of their own that tcp_write makes of what is left behind   *)
(* the first a bytes.                                                      *)
FreshAre(f, n, s, w, len, a) ==
  /\ n \in Nat /\ (n = 0 <=> a = len) /\ f \in Seq(Segments) /\ Len(f) = n
  /\ \E e \in [0 .. n -> 0 .. StreamLen] :
       /\ e[0] = w + a /\ e[n] = w + len
       /\ \A i \in 1 .. n : /\ Off(f[i].seq) = e[i - 1] /\ Holds(f[i], s, e[i])
                            /\ EndOff(f[i]) = e[i] /\ SegLen(f[i]) <= s.mss

FreshSegments(s, bytes, pb, a, n) ==
  [i \in 1 .. n |->
     BytesSegment(Plus(s.lbb, a + (i - 1) * s.mss),
                  SubSeq(bytes, (a + (i - 1) * s.mss) + 1,
                         MinOf((a + (i - 1) * s.mss) + s.mss, Len(bytes))), pb)]

LEMMA FreshIs ==
  ASSUME NEW s, NEW w, NEW len, NEW bytes, Follow(bytes, s, w, len), len # 0,
         NEW a \in 0 .. len, NEW n, n = (len - a + s.mss - 1) \div s.mss,
         NEW pb \in {1, 2}, NEW f, f = FreshSegments(s, bytes, pb, a, n)
  PROVE  FreshAre(f, n, s, w, len, a)
<1>. DEFINE m == s.mss
            x(i) == a + (i - 1) * m
            Fresh(i) == BytesSegment(Plus(s.lbb, x(i)),
                                     SubSeq(bytes, x(i) + 1, MinOf(x(i) + m, len)), pb)
            Is(g, e) == \A i \in 1 .. n :
                          /\ Off(g[i].seq) = e[i - 1] /\ Holds(g[i], s, e[i])
                          /\ EndOff(g[i]) = e[i] /\ SegLen(g[i]) <= m
<1>. /\ s \in Senders /\ w \in Nat /\ len \in Nat \ {0} /\ w + len <= StreamLen
     /\ Off(s.lbb) = w
     /\ bytes \in Seq(Nat) /\ Len(bytes) = len /\ \A i \in 1 .. len : bytes[i] = w + i
  BY DEF Follow
<1>1. m \in Nat \ {0}
  BY SenderType
<1>2. f = [i \in 1 .. n |-> Fresh(i)] /\ n = (len - a + m - 1) \div m
  <2>1. f = FreshSegments(s, bytes, pb, a, n) /\ Len(bytes) = len
    OBVIOUS
  <2>. QED
    BY <2>1 DEF FreshSegments
<1>. HIDE DEF m
<1>9. Divided(n, m, w, len, a)
  <2>. HIDE DEF Fresh, Is, x
  <2>. QED
    <3>1. /\ w \in Nat /\ len \in Nat \ {0} /\ w + len <= StreamLen /\ a \in 0 .. len
          /\ n = (len - a + m - 1) \div m
      BY <1>2
    <3>. QED
      BY ONLY <1>1, <3>1, FreshPlaces
<1>3. /\ n \in Nat /\ (n = 0 <=> a = len)
      /\ \E e \in [0 .. n -> 0 .. StreamLen] : Places(e, n, m, w, len, a)
  BY <1>9 DEF Divided
<1>4. PICK e \in [0 .. n -> 0 .. StreamLen] : Places(e, n, m, w, len, a)
  BY <1>3
<1>5. ASSUME NEW i \in 1 .. n
      PROVE  /\ Fresh(i) \in Segments
             /\ Off(Fresh(i).seq) = e[i - 1] /\ Holds(Fresh(i), s, e[i])
             /\ EndOff(Fresh(i)) = e[i] /\ SegLen(Fresh(i)) <= m
  <2>1. PICK b \in Nat, c \in Nat :
               /\ b = a + (i - 1) * m /\ c = MinOf(b + m, len)
               /\ b < c /\ c <= len /\ c - b <= m
               /\ e[i - 1] = w + b /\ e[i] = w + c
    BY <1>4 DEF Places
  <2>. DEFINE p == Fresh(i)
  <2>2. p = BytesSegment(Plus(s.lbb, b), SubSeq(bytes, b + 1, c), pb)
    BY <2>1
  <2>. HIDE DEF p
  <2>3. len \in Nat /\ b < c /\ c <= len
    BY <2>1
  <2>4. /\ p \in Segments
        /\ Off(p.seq) = w + b /\ Holds(p, s, w + c)
        /\ EndOff(p) = w + c /\ SegLen(p) = c - b
    <3>. HIDE DEF Fresh, Is, x
    <3>1. Follow(bytes, s, w, len) /\ pb \in {1, 2} /\ b \in Nat /\ c \in Nat
      BY DEF Follow
    <3>2. Occupies(p, s, w, b, c, pb)
      BY ONLY <2>2, <2>3, <3>1, FreshSegment
    <3>. QED
      BY ONLY <3>2 DEF Occupies
  <2>5. /\ p \in Segments /\ Off(p.seq) = e[i - 1] /\ Holds(p, s, e[i])
        /\ EndOff(p) = e[i] /\ SegLen(p) <= m
    BY <2>1, <2>4
  <2>. QED
    BY <2>5 DEF p
<1>. HIDE DEF Fresh
<1>6. f \in Seq(Segments) /\ Len(f) = n /\ \A i \in 1 .. n : f[i] = Fresh(i)
  <2>1. \A i \in 1 .. n : Fresh(i) \in Segments
    BY <1>5
  <2>2. [i \in 1 .. n |-> Fresh(i)] \in [1 .. n -> Segments]
    BY <2>1
  <2>3. /\ [i \in 1 .. n |-> Fresh(i)] \in Seq(Segments)
        /\ Len([i \in 1 .. n |-> Fresh(i)]) = n
    BY ONLY <1>3, <2>2, ListOf
  <2>4. \A i \in 1 .. n : [j \in 1 .. n |-> Fresh(j)][i] = Fresh(i)
    OBVIOUS
  <2>. QED
    BY <1>2, <2>2, <2>3, <2>4
<1>7. Is(f, e)
  BY <1>5, <1>6
<1>. HIDE DEF Is
<1>8. \E g \in [0 .. n -> 0 .. StreamLen] : g[0] = w + a /\ g[n] = w + len /\ Is(f, g)
  BY <1>4, <1>7 DEF Places
<1>. QED
  BY <1>3, <1>6, <1>8 DEF Is, m, FreshAre

(* A segment with more bytes, the next ones of the stream, at its end.     *)
Longer(x, bs, d) == [x EXCEPT !.bytes = @ \o bs, !.pbufs = @ + d]

LEMMA LongerIs ==
  ASSUME NEW s, NEW w, NEW a, NEW bs, Follow(bs, s, w, a), ~s.fin,
         NEW d \in Nat, NEW x \in Segments, Holds(x, s, w), EndOff(x) = w,
         NEW p, p = Longer(x, bs, d)
  PROVE  /\ p \in Segments /\ p.seq = x.seq /\ p.pbufs = x.pbufs + d
         /\ SegLen(p) = SegLen(x) + a /\ Holds(p, s, w + a) /\ EndOff(p) = w + a
<1>. /\ s \in Senders /\ w \in Nat /\ a \in Nat
     /\ bs \in Seq(Nat) /\ Len(bs) = a /\ \A k \in 1 .. a : bs[k] = w + k
  BY DEF Follow
<1>0. p = [x EXCEPT !.bytes = @ \o bs, !.pbufs = @ + d]
  BY DEF Longer
<1>1. x.seq \in Seqs /\ x.bytes \in Seq(Nat) /\ x.fin = FALSE /\ x.pbufs \in Nat
  <2>1. x.seq \in Seqs /\ x.bytes \in Seq(Nat) /\ x.fin \in BOOLEAN /\ x.pbufs \in Nat
    BY DEF Segments
  <2>2. ~x.fin
    BY DEF Holds
  <2>. QED
    BY <2>1, <2>2
<1>. DEFINE b == x.bytes
            c == b \o bs
            l == Len(b)
            e == x.pbufs + d
<1>2. b \in Seq(Nat) /\ bs \in Seq(Nat) /\ l \in Nat /\ Len(bs) = a
  BY <1>1
<1>3. /\ c \in Seq(Nat) /\ Len(c) = l + a
      /\ \A i \in 1 .. l : c[i] = b[i]
      /\ \A i \in 1 .. a : c[l + i] = bs[i]
  <2>. HIDE DEF b
  <2>1. /\ b \o bs \in Seq(Nat) /\ Len(b \o bs) = Len(b) + Len(bs)
        /\ \A i \in 1 .. Len(b) : (b \o bs)[i] = b[i]
        /\ \A i \in 1 .. Len(bs) : (b \o bs)[Len(b) + i] = bs[i]
    <3>. HIDE DEF c, l, e
    <3>1. b \in Seq(Nat) /\ bs \in Seq(Nat)
      BY <1>2
    <3>. QED
      BY ONLY <3>1, Joined
  <2>. QED
    BY <1>2, <2>1
<1>4. e \in Nat
  BY <1>1
<1>5. p = [x EXCEPT !.bytes = c, !.pbufs = e]
  BY <1>0
<1>. HIDE DEF b, c, e, l
<1>6. /\ p \in Segments /\ p.seq = x.seq /\ p.pbufs = e /\ p.bytes = c /\ p.fin = FALSE
  <2>1. c \in Seq(Nat)
    BY <1>3
  <2>. QED
    BY <1>1, <1>4, <1>5, <2>1 DEF Segments
<1>7. SegLen(x) = l /\ SegLen(p) = l + a /\ l \in Nat
  BY <1>2, <1>3, <1>6 DEF SegLen, b, l
<1>8. /\ EndOff(x) = BytesEnd(x) /\ EndOff(p) = BytesEnd(p) /\ TcpLen(p) = SegLen(p)
      /\ TcpLen(x) = SegLen(x) /\ Off(x.seq) \in Nat
  <2>1. x \in Segments \cup Packets /\ p \in Segments \cup Packets
    BY <1>6
  <2>2. /\ Off(x.seq) \in Nat
        /\ TcpLen(x) = SegLen(x) + 0 /\ SegLen(x) \in Nat
        /\ TcpLen(p) = SegLen(p) + 0 /\ SegLen(p) \in Nat
    <3>1. TcpLen(x) = SegLen(x) + 0 /\ TcpLen(p) = SegLen(p) + 0
      BY <1>1, <1>6 DEF TcpLen, SegLen
    <3>. QED
      BY <2>1, <3>1, SegEndOff
  <2>3. TcpLen(x) = SegLen(x) /\ TcpLen(p) = SegLen(p)
    BY <2>2
  <2>. QED
    BY <2>2, <2>3 DEF EndOff, BytesEnd
<1>9. Off(x.seq) + l = w
  BY <1>7, <1>8 DEF BytesEnd
<1>10. BytesEnd(p) = w + a /\ EndOff(p) = w + a /\ TcpLen(p) >= 1
  <2>1. Off(p.seq) = Off(x.seq)
    BY <1>6
  <2>2. BytesEnd(p) = Off(x.seq) + (l + a)
    BY <1>7, <2>1 DEF BytesEnd
  <2>3. TcpLen(x) >= 1
    BY DEF Holds
  <2>. QED
    BY <1>7, <1>8, <1>9, <2>2, <2>3
<1>11. ASSUME NEW k \in 1 .. SegLen(p) PROVE p.bytes[k] = Off(p.seq) + k
  <2>1. k \in Nat /\ (k \in 1 .. l \/ k - l \in 1 .. a)
    BY <1>7
  <2>2. CASE k \in 1 .. l
    <3>1. x.bytes[k] = Off(x.seq) + k
      BY <1>7, <2>2 DEF Holds
    <3>. QED
      BY <1>3, <1>6, <2>2, <3>1 DEF b
  <2>3. CASE k - l \in 1 .. a
    <3>. DEFINE i == k - l
    <3>1. i \in 1 .. a /\ l + i = k /\ w + i = Off(x.seq) + k
      BY <1>7, <1>8, <1>9, <2>1, <2>3
    <3>. HIDE DEF i
    <3>2. c[l + i] = w + i
      BY <1>3, <3>1
    <3>. QED
      BY <1>6, <3>1, <3>2
  <2>. QED
    BY <2>1, <2>2, <2>3
<1>12. w + a <= w + a
  OBVIOUS
<1>13. Holds(p, s, w + a)
  BY <1>6, <1>10, <1>11, <1>12 DEF Holds
<1>14. SegLen(p) = SegLen(x) + a
  BY <1>7
<1>. QED
  BY <1>6, <1>10, <1>13, <1>14 DEF e

(* The last segment of the queue uns, which follows una, becomes p.        *)
WithLast(uns, p) == SubSeq(uns, 1, Len(uns) - 1) \o <<p>>

LEMMA LastReplaced ==
  ASSUME NEW una \in Seq(Segments), NEW uns \in Seq(Segments), uns # <<>>, NEW p \in Segments
  PROVE  LET v == WithLast(uns, p)
             q == una \o uns
             u == una \o v
         IN  /\ v \in Seq(Segments) /\ u \in Seq(Segments)
             /\ Len(u) = Len(q) /\ Len(q) \in Nat /\ Len(una) \in 0 .. Len(q) - 1
             /\ u[Len(q)] = p /\ q[Len(q)] = LastOf(uns)
             /\ \A i \in 1 .. Len(q) - 1 : u[i] = q[i]
             /\ Pbufs(u) = Pbufs(q) + (p.pbufs - LastOf(uns).pbufs)
<1>. DEFINE l == Len(uns)
            k == l - 1
            m == Len(una)
            a == SubSeq(uns, 1, k)
            x == LastOf(uns)
            b == <<x>>
            c == <<p>>
            v == a \o c
            q == una \o uns
            u == una \o v
            d == p.pbufs - x.pbufs
<1>1. l \in Nat /\ l >= 1 /\ k \in 0 .. l /\ k \in Nat /\ m \in Nat /\ k + 1 = l /\ l \in 1 .. l
  <2>1. l \in Nat /\ l # 0 /\ m \in Nat
    BY EmptySeq
  <2>. HIDE DEF l, m
  <2>. QED
    BY <2>1
<1>2. x \in Segments /\ x = uns[l]
  <2>1. l \in 1 .. Len(uns)
    BY <1>1
  <2>. QED
    BY <2>1, ElementOfSeq DEF LastOf
<1>3. a \in Seq(Segments) /\ Len(a) = k /\ \A i \in 1 .. k : a[i] = uns[i]
  <2>. HIDE DEF k
  <2>1. k \in 0 .. Len(uns)
    BY <1>1
  <2>. QED
    BY <2>1, Parts
<1>4. /\ b \in Seq(Segments) /\ Len(b) = 1 /\ b[1] = x
      /\ c \in Seq(Segments) /\ Len(c) = 1 /\ c[1] = p
  <2>1. x \in Segments
    BY <1>2
  <2>. HIDE DEF x
  <2>. QED
    BY <2>1
<1>. HIDE DEF a, b, c, k, x
<1>5. /\ v \in Seq(Segments) /\ Len(v) = l
      /\ \A i \in 1 .. k : v[i] = uns[i]
      /\ v[l] = p
  <2>1. a \in Seq(Segments) /\ c \in Seq(Segments)
    BY <1>3, <1>4
  <2>2. /\ a \o c \in Seq(Segments) /\ Len(a \o c) = Len(a) + Len(c)
        /\ \A i \in 1 .. Len(a) : (a \o c)[i] = a[i]
        /\ \A i \in 1 .. Len(c) : (a \o c)[Len(a) + i] = c[i]
    BY <2>1, Joined
  <2>3. 1 \in 1 .. Len(c)
    BY <1>4
  <2>. QED
    BY <1>1, <1>3, <1>4, <2>2, <2>3
<1>6. a \o b = uns
  <2>1. a \in Seq(Segments) /\ b \in Seq(Segments)
    BY <1>3, <1>4
  <2>2. /\ a \o b \in Seq(Segments) /\ Len(a \o b) = Len(a) + Len(b)
        /\ \A i \in 1 .. Len(a) : (a \o b)[i] = a[i]
        /\ \A i \in 1 .. Len(b) : (a \o b)[Len(a) + i] = b[i]
    BY <2>1, Joined
  <2>3. 1 \in 1 .. Len(b)
    BY <1>4
  <2>. DEFINE z == a \o b
  <2>4. z \in Seq(Segments) /\ Len(z) = l
    BY <1>1, <1>3, <1>4, <2>2
  <2>5. (\A i \in 1 .. k : z[i] = uns[i]) /\ z[l] = uns[l]
    BY <1>1, <1>2, <1>3, <1>4, <2>2, <2>3
  <2>. HIDE DEF z
  <2>6. \A i \in 1 .. l : i \in 1 .. k \/ i = l
    BY <1>1
  <2>7. \A i \in 1 .. l : z[i] = uns[i]
    BY <2>5, <2>6
  <2>8. z = uns
    BY <2>4, <2>7, SeqEqual
  <2>. QED
    BY <2>8 DEF z
<1>. HIDE DEF v
<1>7. /\ q \in Seq(Segments) /\ Len(q) = m + l
      /\ \A i \in 1 .. m : q[i] = una[i]
      /\ \A i \in 1 .. l : q[m + i] = uns[i]
  BY Joined
<1>8. /\ u \in Seq(Segments) /\ Len(u) = m + l
      /\ \A i \in 1 .. m : u[i] = una[i]
      /\ \A i \in 1 .. l : u[m + i] = v[i]
  <2>1. v \in Seq(Segments) /\ Len(v) = l
    BY <1>5
  <2>2. /\ una \o v \in Seq(Segments) /\ Len(una \o v) = Len(una) + Len(v)
        /\ \A i \in 1 .. Len(una) : (una \o v)[i] = una[i]
        /\ \A i \in 1 .. Len(v) : (una \o v)[Len(una) + i] = v[i]
    <3>. HIDE DEF v, u, q, l, m
    <3>1. una \in Seq(Segments) /\ v \in Seq(Segments)
      BY <2>1
    <3>. QED
      BY ONLY <3>1, Joined
  <2>. QED
    BY <2>1, <2>2
<1>9. Pbufs(u) = Pbufs(q) + d
  <2>1. /\ Pbufs(u) = Pbufs(una) + Pbufs(v) /\ Pbufs(q) = Pbufs(una) + Pbufs(uns)
        /\ Pbufs(una) \in Int /\ Pbufs(a) \in Int
    BY <1>3, <1>5, PbufsSum
  <2>2. Pbufs(v) = Pbufs(a) + Pbufs(c) /\ Pbufs(c) = p.pbufs
    BY <1>3, <1>4, PbufsSum DEF v, c
  <2>3. Pbufs(a \o b) = Pbufs(a) + Pbufs(b) /\ Pbufs(b) = x.pbufs
    BY <1>2, <1>3, <1>4, PbufsSum DEF b
  <2>4. x.pbufs \in Nat /\ p.pbufs \in Nat
    BY <1>2 DEF Segments
  <2>. HIDE DEF x, a, b, c, q, u
  <2>. QED
    BY <1>6, <2>1, <2>2, <2>3, <2>4
<1>10. Len(u) = Len(q) /\ Len(q) \in Nat /\ m \in 0 .. Len(q) - 1 /\ u[Len(q)] = p /\ q[Len(q)] = x
  <2>. HIDE DEF l, m, q, u
  <2>. QED
    BY <1>1, <1>2, <1>5, <1>7, <1>8
<1>11. ASSUME NEW i \in 1 .. Len(q) - 1 PROVE u[i] = q[i]
  <2>. HIDE DEF l, m, q, u
  <2>1. i \in 1 .. m \/ (i - m \in 1 .. k /\ i - m \in 1 .. l /\ m + (i - m) = i)
    BY <1>1, <1>7 DEF k
  <2>2. CASE i \in 1 .. m
    BY <1>7, <1>8, <2>2
  <2>3. CASE i - m \in 1 .. k /\ i - m \in 1 .. l /\ m + (i - m) = i
    <3>. DEFINE j == i - m
    <3>1. j \in 1 .. k /\ j \in 1 .. l /\ m + j = i
      BY <2>3
    <3>. HIDE DEF j
    <3>. QED
      BY <1>5, <1>7, <1>8, <3>1
  <2>. QED
    BY <2>1, <2>2, <2>3
<1>. QED
  BY <1>5, <1>8, <1>9, <1>10, <1>11 DEF WithLast, v, a, c, k, x

(* The queue of unsent segments after tcp_write, and what it believes of   *)
(* the queues: w bytes were written before, len are written now.           *)
LEMMA SegmentedIs ==
  ASSUME IInv, Open, ~snd.fin, NEW bytes \in Seq(Nat), Len(bytes) # 0,
         Len(written) + Len(bytes) <= StreamLen,
         \A i \in 1 .. Len(bytes) : bytes[i] = Len(written) + i, NEW copy \in BOOLEAN
  PROVE  LET d == Segmented(bytes, copy)
             q == unacked \o d.unsent
         IN  /\ d.unsent \in Seq(Segments) /\ d.unsent # <<>>
             /\ Core(q, Len(unacked), snd, Len(written) + Len(bytes))
             /\ d.oversize \in Int /\ d.oversize >= 0
             /\ SegLen(q[Len(q)]) + d.oversize <= snd.mss
             /\ d.queuelen \in Int /\ d.queuelen = Pbufs(q)
<1>. DEFINE w == Len(written)
            len == Len(bytes)
            m == Len(unacked)
            old == Outstanding
            tail == unsent # <<>>
            last == LastOf(unsent)
            l == SegLen(last)
            one == IF tail THEN MinOf(snd.oversize, len) ELSE 0
            space == snd.mss - l - one
            two == IF tail /\ one < len /\ l > 0 /\ space > 0
                   THEN MinOf(space, len - one) ELSE 0
            a == one + two
            left == len - one - two
            n == (left + snd.mss - 1) \div snd.mss
            pb == IF copy THEN 1 ELSE 2
            From(i) == one + two + (i - 1) * snd.mss
            Fresh(i) == [seq |-> Plus(snd.lbb, From(i)),
                   bytes |-> SubSeq(bytes, From(i) + 1, MinOf(From(i) + snd.mss, len)),
                   fin |-> FALSE, pbufs |-> pb]
            more == IF two > 0 THEN 1 ELSE 0
            bs == SubSeq(bytes, 1, one + two)
            longer == Longer(last, bs, more)
            f == [i \in 1 .. n |-> Fresh(i)]
            base == IF tail THEN WithLast(unsent, longer) ELSE <<>>
            d == Segmented(bytes, copy)
            u == unacked \o base
            q == unacked \o d.unsent
<1>1. /\ snd \in Senders /\ rcv \in Receivers /\ unacked \in Seq(Segments) /\ unsent \in Seq(Segments)
      /\ old \in Seq(Segments) /\ m \in 0 .. Len(old) /\ w \in Nat /\ w \in 0 .. StreamLen
      /\ w + len \in 0 .. StreamLen /\ m \in Nat /\ StreamLen \in Nat
      /\ (m = Len(old) <=> unsent = <<>>)
  <2>1. StreamLen \in Nat
    BY Constants
  <2>. QED
    BY <2>1, WrittenType
<1>2. QueueInv(old, m, snd, w) /\ snd.oversize >= 0 /\ Off(snd.lbb) = w
  BY DEF IInv, SenderInv
<1>3. /\ snd.mss \in Nat /\ snd.mss >= 1 /\ snd.oversize \in Int /\ snd.queuelen \in Int
      /\ snd.oversize \in Nat /\ Fin(snd) = 0
  <2>1. snd.mss \in Nat /\ snd.mss >= 1 /\ snd.oversize \in Int /\ snd.queuelen \in Int
    BY <1>1, SenderType
  <2>. QED
    BY <1>2, <2>1 DEF Fin
<1>4. /\ d.unsent = base \o f
      /\ d.queuelen = snd.queuelen + (more + Pbufs(f))
      /\ d.oversize = IF copy /\ n > 0 THEN Spare(SegLen(f[n]), snd.mss, n = 1)
                      ELSE IF copy /\ two > 0 THEN Spare(two, space, TRUE)
                      ELSE snd.oversize - one
  BY DEF Segmented, AddedPbufs, Longer, WithLast
<1>. HIDE DEF d
<1>a. len \in Nat \ {0} /\ w + len <= StreamLen /\ Len(bytes) = len
  OBVIOUS
<1>5. tail => /\ last \in Segments /\ l \in Nat /\ l + snd.oversize <= snd.mss
              /\ Holds(last, snd, w) /\ EndOff(last) = w
  <2>1. SUFFICES ASSUME tail
                 PROVE /\ last \in Segments /\ l \in Nat /\ l + snd.oversize <= snd.mss
                       /\ Holds(last, snd, w) /\ EndOff(last) = w
    OBVIOUS
  <2>2. Len(old) \in Nat /\ m < Len(old) /\ Len(old) \in 1 .. Len(old) /\ old # <<>>
    <3>1. Len(old) \in Nat /\ m # Len(old)
      BY <1>1, <2>1
    <3>. QED
      BY <1>1, <3>1
  <2>3. Len(unsent) \in Nat /\ Len(unsent) >= 1 /\ Len(unsent) \in 1 .. Len(unsent)
    <3>1. Len(unsent) \in Nat /\ Len(unsent) # 0
      BY <1>1, <2>1, EmptySeq
    <3>. QED
      BY <3>1
  <2>4. old[Len(old)] = last
    <3>1. /\ Len(old) = m + Len(unsent)
          /\ \A i \in 1 .. Len(unsent) : old[m + i] = unsent[i]
      BY <1>1, Joined DEF Outstanding
    <3>. QED
      BY <2>3, <3>1 DEF LastOf
  <2>5. last \in Segments
    BY <1>1, <2>3, ElementOfSeq DEF LastOf
  <2>6. l \in Nat
    BY <2>5, SegEndOff
  <2>. HIDE DEF last, old, w
  <2>7. l + snd.oversize <= snd.mss
    BY <1>2, <2>2, <2>4, QueueIs
  <2>8. Holds(last, snd, w) /\ EndOff(last) = w + Fin(snd)
    BY <1>2, <2>2, <2>4 DEF QueueInv
  <2>9. EndOff(last) = w
    BY <1>1, <1>3, <2>8
  <2>. QED
    BY <2>5, <2>6, <2>7, <2>8, <2>9
<1>6. ~tail => snd.oversize = 0
  BY <1>1, <1>2, QueueIs
<1>. HIDE DEF last, l, w, m
<1>7. /\ one \in Nat /\ one <= len /\ one <= snd.oversize /\ two \in Nat /\ two <= len - one
      /\ (tail => l + (one + two) <= snd.mss) /\ (~tail => one = 0 /\ two = 0)
      /\ (one < len => snd.oversize - one = 0)
      /\ (two > 0 => tail /\ one < len /\ space \in Nat /\ two <= space /\ l + one + space = snd.mss)
      /\ (tail /\ two = 0 => l + one + (snd.oversize - one) <= snd.mss)
  <2>1. CASE ~tail
    <3>1. one = 0 /\ two = 0 /\ snd.oversize = 0
      BY <1>6, <2>1
    <3>. HIDE DEF one, two, tail
    <3>. QED
      BY <2>1, <3>1
  <2>2. CASE tail
    <3>1. l \in Nat /\ l + snd.oversize <= snd.mss /\ one = MinOf(snd.oversize, len)
      BY <1>5, <2>2
    <3>2. two = IF one < len /\ l > 0 /\ space > 0 THEN MinOf(space, len - one) ELSE 0
      BY <2>2
    <3>3. space = snd.mss - l - one
      OBVIOUS
    <3>. HIDE DEF one, two, tail, space
    <3>4. one \in Nat /\ one <= len /\ one <= snd.oversize /\ (one < len => one = snd.oversize)
      BY <1>3, <3>1 DEF MinOf
    <3>5. l + one <= snd.mss /\ space \in Nat /\ l + one + space = snd.mss
      <4>. DEFINE M == snd.mss
                  O == snd.oversize
      <4>1. M \in Nat /\ O \in Nat /\ l \in Nat /\ one \in Nat /\ one <= O /\ l + O <= M
            /\ space = M - l - one
        BY <1>3, <3>1, <3>3, <3>4
      <4>. HIDE DEF M, O
      <4>2. l + one <= M /\ space \in Nat /\ l + one + space = M
        BY ONLY <4>1
      <4>. QED
        BY <4>2 DEF M
    <3>6. /\ two \in Nat /\ two <= len - one /\ two <= space /\ (two > 0 => one < len)
      BY <3>2, <3>4, <3>5 DEF MinOf
    <3>. DEFINE M == snd.mss
                O == snd.oversize
    <3>7. M \in Nat /\ O \in Nat /\ l \in Nat /\ l + O <= M /\ len \in Nat
      BY <1>3, <1>a, <3>1
    <3>8. /\ one \in Nat /\ one <= len /\ one <= O /\ (one < len => one = O)
          /\ l + one <= M /\ space \in Nat /\ l + one + space = M
          /\ two \in Nat /\ two <= len - one /\ two <= space /\ (two > 0 => one < len) /\ tail
      BY <2>2, <3>4, <3>5, <3>6
    <3>. HIDE DEF M, O, len
    <3>9. /\ l + (one + two) <= M /\ (one < len => O - one = 0)
          /\ l + one + (O - one) <= M
      BY ONLY <3>7, <3>8
    <3>. QED
      BY <3>8, <3>9 DEF M, O
  <2>. QED
    BY <2>1, <2>2
<1>8. a \in Nat /\ a <= len /\ a \in 0 .. len /\ left = len - a /\ one \in Nat /\ two \in Nat
  <2>. HIDE DEF one, two
  <2>. QED
    BY <1>7
<1>9. pb \in {1, 2} /\ more \in Nat /\ (more = 1 <=> two > 0) /\ (more = 0 <=> ~(two > 0))
  OBVIOUS
<1>10. f = FreshSegments(snd, bytes, pb, a, n)
  BY DEF FreshSegments, BytesSegment
<1>11. n = (len - a + snd.mss - 1) \div snd.mss
  <2>. HIDE DEF a, left
  <2>. QED
    BY <1>8
<1>b. \A i \in 1 .. len : bytes[i] = w + i
  BY DEF w
<1>. HIDE DEF f, n, a, left, pb, one, two, more, space, len
<1>12. Follow(bytes, snd, w, len)
  BY <1>1, <1>2, <1>a, <1>b DEF Follow
<1>13. /\ n \in Nat /\ (n = 0 <=> a = len) /\ f \in Seq(Segments) /\ Len(f) = n
       /\ \E e \in [0 .. n -> 0 .. StreamLen] :
            /\ e[0] = w + a /\ e[n] = w + len
            /\ \A i \in 1 .. n : /\ Off(f[i].seq) = e[i - 1] /\ Holds(f[i], snd, e[i])
                                 /\ EndOff(f[i]) = e[i] /\ SegLen(f[i]) <= snd.mss
  <2>1. len # 0 /\ a \in 0 .. len /\ pb \in {1, 2}
    BY <1>a, <1>8, <1>9
  <2>2. FreshAre(f, n, snd, w, len, a)
    BY ONLY <1>10, <1>11, <1>12, <2>1, FreshIs
  <2>. QED
    BY ONLY <2>2 DEF FreshAre
<1>14. /\ base \in Seq(Segments) /\ Core(u, m, snd, w + a) /\ u \in Seq(Segments)
       /\ m \in 0 .. Len(u) /\ Pbufs(u) = Pbufs(old) + more
       /\ (tail => m < Len(u) /\ Len(u) \in Nat /\ SegLen(u[Len(u)]) = l + a)
       /\ (~tail => m = Len(u) /\ Len(u) \in Nat)
  <2>1. CASE ~tail
    <3>1. base = <<>> /\ a = 0 /\ more = 0
      BY <1>7, <1>9, <2>1 DEF a
    <3>2. u = unacked /\ old = unacked
      BY <1>1, <2>1, <3>1 DEF Outstanding
    <3>3. Core(old, m, snd, w) /\ w + a = w
      BY <1>1, <1>2, <3>1, QueueIs
    <3>4. Pbufs(old) \in Int
      BY <1>1, PbufsSum
    <3>. HIDE DEF base, u, old, tail
    <3>5. base \in Seq(Segments)
      BY <3>1
    <3>6. m = Len(u) /\ Len(u) \in Nat /\ m \in 0 .. Len(u)
      BY <1>1, <3>2 DEF m
    <3>. QED
      BY <1>1, <2>1, <3>1, <3>2, <3>3, <3>4, <3>5, <3>6
  <2>2. CASE tail
    <3>1. Follow(bs, snd, w, a)
      <4>1. a \in 0 .. Len(bytes) /\ bs = SubSeq(bytes, 1, a)
        BY <1>8, <1>a DEF a
      <4>. HIDE DEF bs
      <4>2. bs \in Seq(Nat) /\ Len(bs) = a /\ \A k \in 1 .. a : bs[k] = bytes[k]
        BY <4>1, Parts
      <4>3. \A k \in 1 .. a : k \in 1 .. len
        BY <1>a, <1>8
      <4>4. w + a <= StreamLen
        BY <1>a, <1>1, <1>8
      <4>. QED
        BY <1>1, <1>2, <1>8, <1>b, <4>2, <4>3, <4>4 DEF Follow
    <3>. HIDE DEF bs
    <3>2. /\ last \in Segments /\ l \in Nat /\ Holds(last, snd, w) /\ EndOff(last) = w
      BY <1>5, <2>2
    <3>3. longer = Longer(last, bs, more)
      OBVIOUS
    <3>. HIDE DEF longer
    <3>4. /\ longer \in Segments /\ longer.seq = last.seq /\ longer.pbufs = last.pbufs + more
          /\ SegLen(longer) = l + a /\ Holds(longer, snd, w + a) /\ EndOff(longer) = w + a
      <4>1. more \in Nat /\ ~snd.fin
        BY <1>9
      <4>. QED
        BY <3>1, <3>2, <3>3, <4>1, LongerIs DEF l
    <3>5. base = WithLast(unsent, longer) /\ unsent # <<>>
      BY <2>2
    <3>. HIDE DEF base
    <3>6. /\ base \in Seq(Segments) /\ u \in Seq(Segments)
          /\ Len(u) = Len(old) /\ Len(old) \in Nat /\ m \in 0 .. Len(old) - 1
          /\ u[Len(old)] = longer /\ old[Len(old)] = last
          /\ \A i \in 1 .. Len(old) - 1 : u[i] = old[i]
          /\ Pbufs(u) = Pbufs(old) + more
      <4>1. longer.pbufs - LastOf(unsent).pbufs = more
        <5>1. last.pbufs \in Nat /\ more \in Nat /\ last = LastOf(unsent)
          BY <1>9, <3>2 DEF Segments, last
        <5>. HIDE DEF longer, last
        <5>. QED
          BY <3>4, <5>1
      <4>. HIDE DEF longer, last
      <4>2. LET v == WithLast(unsent, longer)
                x == unacked \o unsent
                y == unacked \o v
            IN  /\ v \in Seq(Segments) /\ y \in Seq(Segments)
                /\ Len(y) = Len(x) /\ Len(x) \in Nat /\ Len(unacked) \in 0 .. Len(x) - 1
                /\ y[Len(x)] = longer /\ x[Len(x)] = LastOf(unsent)
                /\ \A i \in 1 .. Len(x) - 1 : y[i] = x[i]
                /\ Pbufs(y) = Pbufs(x) + (longer.pbufs - LastOf(unsent).pbufs)
        BY ONLY <1>1, <3>4, <3>5, LastReplaced
      <4>. QED
        BY <3>5, <4>1, <4>2 DEF Outstanding, m, last
    <3>. HIDE DEF u, old
    <3>7. Core(u, m, snd, w + a)
      <4>1. /\ Writes(snd, w, snd, w + a)
        BY <1>1, <1>8 DEF Writes
      <4>2. Core(old, m, snd, w)
        BY <1>2, QueueIs
      <4>3. EndOff(longer) = (w + a) + Fin(snd) /\ longer.seq = old[Len(old)].seq
        BY <1>1, <1>3, <1>8, <3>4, <3>6
      <4>4. SegLen(longer) <= snd.mss /\ w + a \in 0 .. StreamLen
        BY <1>a, <1>1, <1>7, <1>8, <2>2, <3>4 DEF a
      <4>5. /\ old \in Seq(Segments) /\ snd \in Senders /\ w \in 0 .. StreamLen
            /\ Holds(longer, snd, w + a) /\ longer \in Segments
        BY <1>1, <3>4
      <4>. QED
        BY <3>6, <4>1, <4>2, <4>3, <4>4, <4>5, Replaced
    <3>8. m < Len(u) /\ Len(u) \in Nat /\ SegLen(u[Len(u)]) = l + a /\ m \in 0 .. Len(u)
      BY <1>1, <3>4, <3>6
    <3>. QED
      BY <2>2, <3>6, <3>7, <3>8
  <2>. QED
    BY <2>1, <2>2
<1>. HIDE DEF base
<1>15. /\ d.unsent \in Seq(Segments) /\ q = u \o f /\ q \in Seq(Segments)
       /\ Len(q) = Len(u) + n /\ Len(u) \in Nat
       /\ \A i \in 1 .. Len(u) : q[i] = u[i]
       /\ \A i \in 1 .. n : q[Len(u) + i] = f[i]
       /\ Pbufs(q) = Pbufs(u) + Pbufs(f)
  <2>1. unacked \in Seq(Segments) /\ base \in Seq(Segments) /\ f \in Seq(Segments)
    BY <1>1, <1>13, <1>14
  <2>2. base \o f \in Seq(Segments) /\ (unacked \o base) \o f = unacked \o (base \o f)
    BY <2>1
  <2>3. q = u \o f
    BY <1>4, <2>2
  <2>4. u \in Seq(Segments)
    BY <1>14
  <2>. HIDE DEF u, q
  <2>5. /\ u \o f \in Seq(Segments) /\ Len(u \o f) = Len(u) + Len(f) /\ Len(u) \in Nat
        /\ \A i \in 1 .. Len(u) : (u \o f)[i] = u[i]
        /\ \A i \in 1 .. Len(f) : (u \o f)[Len(u) + i] = f[i]
    <3>1. InOne(Segments, u, f, u \o f)
      BY ONLY <2>1, <2>4, JoinedAre
    <3>. QED
      BY ONLY <3>1 DEF InOne
  <2>6. Pbufs(u \o f) = Pbufs(u) + Pbufs(f)
    BY <2>1, <2>4, PbufsSum
  <2>. QED
    BY <1>4, <1>13, <2>2, <2>3, <2>5, <2>6
<1>. HIDE DEF u, q
<1>16. Core(q, m, snd, w + len)
  <2>1. PICK e \in [0 .. n -> 0 .. StreamLen] :
            /\ e[0] = w + a /\ e[n] = w + len
            /\ \A i \in 1 .. n : /\ Off(f[i].seq) = e[i - 1] /\ Holds(f[i], snd, e[i])
                                 /\ EndOff(f[i]) = e[i] /\ SegLen(f[i]) <= snd.mss
    BY <1>13
  <2>2. /\ u \in Seq(Segments) /\ m \in 0 .. Len(u) /\ snd \in Senders
        /\ w + a \in 0 .. StreamLen /\ Core(u, m, snd, w + a) /\ f \in Seq(Segments)
    BY <1>1, <1>8, <1>13, <1>14
  <2>3. Core(u \o f, m, snd, e[Len(f)])
    BY <1>13, <2>1, <2>2, FreshAppended
  <2>. QED
    BY <1>13, <1>15, <2>1, <2>3
<1>17. d.unsent # <<>>
  <2>1. SUFFICES ASSUME d.unsent = <<>> PROVE FALSE
    OBVIOUS
  <2>2. q = unacked /\ Len(q) = m
    BY <1>1, <2>1 DEF q, m
  <2>3. n = 0 /\ Len(u) = m
    BY <1>1, <1>13, <1>14, <1>15, <2>2
  <2>4. ~tail
    BY <1>14, <2>3
  <2>5. a = 0
    BY <1>7, <2>4 DEF a
  <2>. QED
    BY <1>a, <1>13, <2>3, <2>5
<1>18. d.oversize \in Int /\ d.oversize >= 0 /\ SegLen(q[Len(q)]) + d.oversize <= snd.mss
  <2>1. CASE n > 0
    <3>1. n \in 1 .. n /\ q[Len(q)] = f[n]
      BY <1>13, <1>15, <2>1
    <3>2. SegLen(f[n]) \in Nat /\ SegLen(f[n]) <= snd.mss
      <4>1. f[n] \in Segments
        <5>1. n \in 1 .. Len(f)
          BY <1>13, <3>1
        <5>. QED
          BY <1>13, <5>1, ElementOfSeq
      <4>2. SegLen(f[n]) \in Nat
        BY <4>1, SegEndOff
      <4>. QED
        BY <1>13, <3>1, <4>2
    <3>. DEFINE k == SegLen(f[n])
    <3>3. CASE copy
      <4>1. d.oversize = Spare(k, snd.mss, n = 1)
        BY <1>4, <2>1, <3>3
      <4>2. k \in Nat /\ k <= snd.mss /\ SegLen(q[Len(q)]) = k
        BY <3>1, <3>2
      <4>. HIDE DEF k
      <4>3. d.oversize = snd.mss - k \/ d.oversize = 0
        BY <4>1 DEF Spare
      <4>. QED
        BY <1>3, <4>2, <4>3
    <3>4. CASE ~copy
      <4>1. d.oversize = snd.oversize - one
        BY <1>4, <3>4
      <4>2. a < len
        BY <1>a, <1>8, <1>13, <2>1
      <4>3. one < len
        BY <1>7, <1>8, <4>2 DEF a
      <4>4. d.oversize = 0
        BY <1>7, <4>1, <4>3
      <4>. QED
        BY <1>3, <3>1, <3>2, <4>4
    <3>. QED
      BY <3>3, <3>4
  <2>2. CASE ~(n > 0)
    <3>1. n = 0 /\ a = len
      BY <1>13, <2>2
    <3>2. tail
      <4>1. ~tail => a = 0
        BY <1>7 DEF a
      <4>. QED
        BY <1>a, <3>1, <4>1
    <3>3. Len(q) = Len(u) /\ Len(u) \in 1 .. Len(u) /\ SegLen(q[Len(q)]) = l + a
      <4>1. Len(q) = Len(u) /\ Len(u) \in 1 .. Len(u) /\ SegLen(u[Len(u)]) = l + a
        BY <1>1, <1>14, <1>15, <3>1, <3>2
      <4>. QED
        BY <1>15, <4>1
    <3>4. l \in Nat /\ l + a <= snd.mss /\ a = one + two
      BY <1>5, <1>7, <3>2 DEF a
    <3>5. CASE copy /\ two > 0
      <4>1. d.oversize = Spare(two, space, TRUE)
        BY <1>4, <2>2, <3>5
      <4>2. d.oversize = space - two \/ d.oversize = 0
        BY <4>1 DEF Spare
      <4>3. space \in Nat /\ two <= space /\ l + one + space = snd.mss
        BY <1>7, <3>5
      <4>. QED
        BY <1>3, <1>7, <3>3, <3>4, <4>2, <4>3
    <3>6. CASE ~(copy /\ two > 0)
      <4>1. d.oversize = snd.oversize - one
        BY <1>4, <2>2, <3>6
      <4>2. CASE two > 0
        <5>1. d.oversize = 0
          BY <1>7, <4>1, <4>2
        <5>. QED
          BY <1>3, <1>8, <3>3, <3>4, <5>1
      <4>3. CASE ~(two > 0)
        <5>1. two = 0 /\ a = one
          BY <1>7, <3>4, <4>3
        <5>2. l + one + (snd.oversize - one) <= snd.mss
          BY <1>7, <3>2, <5>1
        <5>. QED
          BY <1>3, <1>7, <3>3, <4>1, <5>1, <5>2
      <4>. QED
        BY <4>2, <4>3
    <3>. QED
      BY <3>5, <3>6
  <2>. QED
    BY <2>1, <2>2
<1>19. d.queuelen \in Int /\ d.queuelen = Pbufs(q)
  <2>1. snd.queuelen = Pbufs(old)
    BY <1>2, QueueIs
  <2>2. Pbufs(old) \in Int /\ Pbufs(f) \in Int
    BY <1>1, <1>13, PbufsSum
  <2>. HIDE DEF old
  <2>. QED
    BY <1>4, <1>9, <1>14, <1>15, <2>1, <2>2
<1>. QED
  BY ONLY <1>15, <1>16, <1>17, <1>18, <1>19 DEF q, d, m, w, len

(* tcp_write.                                                              *)
LEMMA WriteStep ==
  ASSUME IInv, NEW len \in Sizes, NEW copy \in Copies, Write(len, copy)
  PROVE  IInv'
<1>. DEFINE bytes == [i \in 1 .. len |-> Len(written) + i]
            d == Segmented(bytes, copy)
            w == Len(written)
            v == w + len
            m == Len(unacked)
            q == unacked \o d.unsent
            t == [snd EXCEPT !.lbb = Plus(@, len), !.buf = @ - len,
                             !.queuelen = d.queuelen, !.oversize = d.oversize]
<1>1. /\ snd \in Senders /\ rcv \in Receivers /\ unacked \in Seq(Segments)
      /\ w \in Nat /\ w \in 0 .. StreamLen /\ StreamLen \in Nat
      /\ len \in Nat \ {0} /\ copy \in BOOLEAN /\ written \in Seq(Nat) /\ data \in Seq(Packets)
  <2>1. written \in Seq(Nat) /\ data \in Seq(Packets)
    BY DEF IInv, TypeInv
  <2>2. len \in Nat \ {0} /\ copy \in BOOLEAN
    BY SizeAssumption
  <2>3. StreamLen \in Nat
    BY Constants
  <2>. QED
    BY <2>1, <2>2, <2>3, WrittenType
<1>2. Open /\ snd.state \in {"ESTABLISHED", "CLOSE_WAIT"}
  BY DEF Write, Ready, Open
<1>3. /\ SentExact /\ SenderInv(snd, w, rcv) /\ acks \in Seq(Acks) /\ sentTold \in Int
      /\ \A i \in DOMAIN acks : AckInv(acks[i], snd, rcv)
      /\ \A i, j \in DOMAIN acks : Further(acks[i], acks[j])
      /\ WrittenInv
  BY <1>2 DEF IInv, TypeInv
<1>4. ~snd.fin /\ Off(snd.lbb) = w
  BY <1>2, <1>3 DEF SenderInv
<1>5. v \in Nat /\ v <= StreamLen /\ v \in 0 .. StreamLen /\ w <= v
  <2>1. w + len <= StreamLen
    BY DEF Write
  <2>. QED
    BY <1>1, <2>1
<1>6. /\ bytes \in Seq(Nat) /\ Len(bytes) = len /\ \A i \in 1 .. len : bytes[i] = w + i
      /\ DOMAIN bytes = 1 .. len
  <2>1. \A i \in 1 .. len : Len(written) + i \in Nat
    BY <1>1
  <2>2. len \in Nat
    BY <1>1
  <2>. QED
    BY <2>1, <2>2
<1>7. \/ /\ unsent' = d.unsent /\ snd' = t /\ written' = written \o bytes
      \/ /\ snd' = [snd EXCEPT !.memerr = TRUE] /\ UNCHANGED <<unsent, written>>
  BY DEF Write
<1>8. UNCHANGED <<unacked, sentTold, receiver, network>>
  BY DEF Write
<1>. HIDE DEF bytes
<1>9. /\ d.unsent \in Seq(Segments) /\ d.unsent # <<>>
      /\ Core(q, m, snd, v)
      /\ d.oversize \in Int /\ d.oversize >= 0
      /\ SegLen(q[Len(q)]) + d.oversize <= snd.mss
      /\ d.queuelen \in Int /\ d.queuelen = Pbufs(q)
  <2>1. /\ bytes \in Seq(Nat) /\ Len(bytes) # 0 /\ Len(written) + Len(bytes) <= StreamLen
        /\ \A i \in 1 .. Len(bytes) : bytes[i] = Len(written) + i
    BY <1>1, <1>5, <1>6
  <2>. QED
    BY <1>1, <1>2, <1>4, <1>6, <2>1, SegmentedIs
<1>. HIDE DEF d
<1>10. CASE /\ unsent' = d.unsent /\ snd' = t /\ written' = written \o bytes
  <2>1. /\ q \in Seq(Segments) /\ m \in 0 .. Len(q) /\ m < Len(q)
        /\ unacked = SubSeq(q, 1, m) /\ d.unsent = SubSeq(q, m + 1, Len(q))
    <3>1. unacked \in Seq(Segments) /\ d.unsent \in Seq(Segments)
      BY <1>1, <1>9
    <3>2. Len(d.unsent) # 0
      BY <1>9, EmptySeq
    <3>3. /\ q \in Seq(Segments) /\ Len(q) = m + Len(d.unsent) /\ Len(d.unsent) \in Nat
          /\ m \in Nat /\ m \in 0 .. Len(q)
          /\ unacked = SubSeq(q, 1, m) /\ d.unsent = SubSeq(q, m + 1, Len(q))
      BY <3>1, Joined
    <3>. HIDE DEF q, m
    <3>. QED
      BY <3>2, <3>3
  <2>2. Plus(snd.lbb, len) \in Seqs /\ Off(Plus(snd.lbb, len)) = v
    <3>1. snd.lbb \in Seqs /\ len \in Nat
      BY <1>1, SenderType
    <3>2. v < SeqModulus
      BY <1>5, Constants
    <3>. QED
      BY <1>4, <3>1, <3>2, PlusOff
  <2>3. /\ t \in Senders /\ t.state = snd.state /\ t.nxt = snd.nxt
        /\ t.lastack = snd.lastack /\ t.lbb = Plus(snd.lbb, len) /\ t.buf = snd.buf - len
        /\ t.wnd = snd.wnd /\ t.wl2 = snd.wl2 /\ t.mss = snd.mss
        /\ t.cwnd = snd.cwnd /\ t.ssthresh = snd.ssthresh /\ t.fin = snd.fin
        /\ t.oversize = d.oversize /\ t.queuelen = d.queuelen
    <3>. DEFINE x == Plus(snd.lbb, len)
                y == snd.buf - len
                o == d.oversize
                z == d.queuelen
    <3>1. x \in Seqs /\ y \in Int /\ z \in Int /\ o \in Int
      <4>1. snd.buf \in Int
        BY <1>1, SenderType
      <4>. QED
        BY <1>1, <1>9, <2>2, <4>1
    <3>2. t = [snd EXCEPT !.lbb = x, !.buf = y, !.queuelen = z, !.oversize = o]
      OBVIOUS
    <3>. HIDE DEF t, x, y, z, o
    <3>3. t \in Senders
      BY <1>1, <3>1, <3>2 DEF Senders
    <3>4. /\ t.state = snd.state /\ t.nxt = snd.nxt
          /\ t.lastack = snd.lastack /\ t.lbb = x /\ t.buf = y
          /\ t.wnd = snd.wnd /\ t.wl2 = snd.wl2 /\ t.mss = snd.mss
          /\ t.cwnd = snd.cwnd /\ t.ssthresh = snd.ssthresh /\ t.fin = snd.fin
          /\ t.oversize = o /\ t.queuelen = z
      BY <1>1, <3>2 DEF Senders
    <3>. QED
      BY <3>3, <3>4 DEF x, y, z, o
  <2>. HIDE DEF t, q, m
  <2>4. /\ written' \in Seq(Nat) /\ Len(written') = v
        /\ \A k \in 1 .. v : written'[k] = k
    <3>1. written \in Seq(Nat) /\ bytes \in Seq(Nat)
      BY <1>1, <1>6
    <3>2. /\ written \o bytes \in Seq(Nat) /\ Len(written \o bytes) = Len(written) + Len(bytes)
          /\ \A i \in 1 .. Len(written) : (written \o bytes)[i] = written[i]
          /\ \A i \in 1 .. Len(bytes) : (written \o bytes)[Len(written) + i] = bytes[i]
      BY <3>1, Joined
    <3>3. ASSUME NEW k \in 1 .. v PROVE (written \o bytes)[k] = k
      <4>1. k \in Nat /\ (k \in 1 .. w \/ (k - w \in 1 .. len /\ w + (k - w) = k))
        BY <1>1, <1>5
      <4>2. CASE k \in 1 .. w
        BY <1>3, <3>2, <4>2 DEF WrittenInv
      <4>3. CASE k - w \in 1 .. len /\ w + (k - w) = k
        <5>. DEFINE j == k - w
        <5>1. j \in 1 .. len /\ w + j = k
          BY <4>3
        <5>. HIDE DEF j, w
        <5>2. (written \o bytes)[w + j] = bytes[j] /\ bytes[j] = w + j
          BY <1>6, <3>2, <5>1 DEF w
        <5>. QED
          BY <5>1, <5>2
      <4>. QED
        BY <4>1, <4>2, <4>3
    <3>. QED
      BY <1>6, <1>10, <3>2, <3>3
  <2>5. WrittenInv'
    BY <1>5, <2>4 DEF WrittenInv
  <2>6. QueueInv(q, m, t, v)
    <3>1. Core(q, m, t, v)
      <4>1. Fin(t) = Fin(snd)
        BY <2>3 DEF Fin
      <4>2. \A i \in 1 .. Len(q) : Holds(q[i], t, v) /\ SegLen(q[i]) <= t.mss
        BY <1>9, <2>3 DEF Core, Holds
      <4>. QED
        BY <1>9, <2>3, <4>1, <4>2 DEF Core
    <3>2. m # Len(q)
      BY <2>1
    <3>. QED
      BY <1>9, <2>3, <3>1, <3>2, QueueIs
  <2>7. SenderInv(t, v, rcv)
    <3>1. Fin(t) = 0 /\ Fin(snd) = 0
      BY <1>4, <2>3 DEF Fin
    <3>2. Off(snd.nxt) <= v + 0
      <4>1. Off(snd.nxt) \in Nat /\ Off(snd.nxt) <= w + 0
        BY <1>1, <1>3, <3>1, SenderType DEF SenderInv
      <4>. QED
        BY <1>1, <1>5, <4>1
    <3>3. t.buf + v - Off(t.lastack) \in {SndBuf, SndBuf - Fin(t)}
      <4>1. snd.buf + w - Off(snd.lastack) \in {SndBuf, SndBuf - 0}
        BY <1>3, <3>1 DEF SenderInv
      <4>2. snd.buf \in Int /\ Off(snd.lastack) \in Nat
        BY <1>1, SenderType
      <4>3. (snd.buf - len) + v - Off(snd.lastack) = snd.buf + w - Off(snd.lastack)
        BY <1>1, <4>2
      <4>. QED
        BY <2>3, <3>1, <4>1, <4>3
    <3>4. Off(t.lbb) = v
      BY <2>2, <2>3
    <3>. HIDE DEF v
    <3>. QED
      BY <1>3, <1>4, <1>9, <2>3, <3>1, <3>2, <3>3, <3>4 DEF SenderInv
  <2>8. Later(snd, w, t, v)
    <3>1. Off(snd.nxt) \in Nat /\ Off(snd.lastack) \in Nat
      BY <1>1, SenderType
    <3>. QED
      BY <1>4, <1>5, <2>3, <3>1 DEF Later
  <2>9. /\ acks' \in Seq(Acks)
        /\ \A i \in DOMAIN acks' : AckInv(acks'[i], t, rcv)
        /\ \A i, j \in DOMAIN acks' : Further(acks'[i], acks'[j])
    <3>1. acks' = acks /\ Known(t) = Known(snd)
      BY <1>8, <2>3 DEF network, Known
    <3>. QED
      BY <1>3, <3>1 DEF AckInv
  <2>10. SentExact'
    <3>1. sentTold = MinOf(Off(snd.lastack), w) /\ Off(snd.lastack) <= w /\ Off(snd.lastack) \in Nat
      <4>1. Off(snd.nxt) \in Nat /\ Off(snd.lastack) \in Nat /\ Fin(snd) = 0
        BY <1>1, <1>4, SenderType DEF Fin
      <4>2. Off(snd.lastack) <= w
        BY <1>1, <1>3, <4>1 DEF SenderInv
      <4>. QED
        BY <1>2, <1>3, <4>1, <4>2 DEF SentExact, Off
    <3>2. MinOf(Off(snd.lastack), w) = MinOf(Off(snd.lastack), v)
      BY <1>1, <1>5, <3>1 DEF MinOf
    <3>3. sentTold' = sentTold /\ snd' = t
      BY <1>8, <1>10
    <3>5. Len(written') = v /\ snd'.lastack = snd.lastack
      BY <2>3, <2>4, <3>3
    <3>. HIDE DEF v
    <3>. QED
      BY <3>1, <3>2, <3>3, <3>5 DEF SentExact, Off
  <2>11. /\ unacked' = SubSeq(q, 1, m) /\ unsent' = SubSeq(q, m + 1, Len(q))
         /\ snd' \in Senders /\ data' = data \o <<>> /\ UNCHANGED receiver /\ sentTold' \in Int
    <3>1. data' = data /\ data \o <<>> = data
      BY <1>1, <1>8 DEF network
    <3>. QED
      BY <1>3, <1>8, <1>10, <2>1, <2>3, <3>1
  <2>12. <<>> \in Seq(Packets) /\ \A i \in 1 .. Len(<<>>) : FALSE
    OBVIOUS
  <2>13. /\ QueueInv(q, m, snd', Len(written')) /\ SenderInv(snd', Len(written'), rcv)
         /\ Later(snd, Len(written), snd', Len(written'))
         /\ \A i \in DOMAIN acks' : AckInv(acks'[i], snd', rcv)
         /\ \A i \in 1 .. Len(<<>>) : PacketInv(<<>>[i], snd', Len(written'), rcv)
    BY <1>10, <2>4, <2>6, <2>7, <2>8, <2>9, <2>12
  <2>. HIDE DEF v, w
  <2>. QED
    BY <2>1, <2>4, <2>5, <2>9, <2>10, <2>11, <2>12, <2>13, SenderStep
<1>11. CASE /\ snd' = [snd EXCEPT !.memerr = TRUE] /\ UNCHANGED <<unsent, written>>
  BY <1>8, <1>11, MemerrStep
<1>. QED
  BY <1>7, <1>10, <1>11

-----------------------------------------------------------------------------
(* What an ACK does to the window and the queues.                          *)

LEMMA InsertFront ==
  ASSUME NEW h \in Segments, NEW q \in Seq(Segments), q # <<>> => ~Lt(q[1].seq, h.seq)
  PROVE  Insert(h, q) = <<h>> \o q
<1>. DEFINE S == {i \in DOMAIN q : Lt(q[i].seq, h.seq)}
            n == Leading(q, S)
<1>1. n \in 0 .. Len(q) /\ \A i \in 1 .. n : i \in S
  <2>. HIDE DEF S
  <2>. QED
    BY LeadingIs
<1>2. 1 \notin S
  <2>1. 1 \in DOMAIN q => q # <<>>
    OBVIOUS
  <2>. QED
    BY <2>1
<1>3. Insert(h, q) = SubSeq(q, 1, n) \o <<h>> \o SubSeq(q, n + 1, Len(q))
  BY DEF Insert
<1>. HIDE DEF n, S
<1>4. n = 0
  <2>1. n \in Nat /\ (n # 0 => 1 \in 1 .. n)
    BY <1>1
  <2>. QED
    BY <1>1, <1>2, <2>1
<1>5. SubSeq(q, 1, 0) = <<>> /\ SubSeq(q, 0 + 1, Len(q)) = q
  <2>1. SubSeq(q, 1, 0) = <<>>
    OBVIOUS
  <2>2. SubSeq(q, 0 + 1, Len(q)) = q
    OBVIOUS
  <2>. QED
    BY <2>1, <2>2
<1>6. Insert(h, q) = <<>> \o <<h>> \o q
  BY <1>3, <1>4, <1>5
<1>7. <<h>> \in Seq(Segments) /\ <<>> \o <<h>> = <<h>>
  OBVIOUS
<1>. QED
  BY <1>6, <1>7

LEMMA CappedIs ==
  ASSUME NEW s \in Senders, NEW n \in Nat, s.mss <= n
  PROVE  Capped(n) \in 0 .. Wnd /\ s.mss <= Capped(n)
<1>1. s.mss \in Nat /\ s.mss <= Wnd /\ Wnd \in Nat
  <2>1. s.mss \in Nat /\ 2 * s.mss <= Wnd /\ Wnd \in Nat
    BY SenderType, Constants
  <2>. QED
    BY <2>1
<1>. QED
  BY <1>1 DEF Capped, MinOf

LEMMA HalfIs ==
  ASSUME NEW s \in Senders
  PROVE  Half(s) \in Nat /\ 2 * s.mss <= Half(s) /\ s.mss <= Half(s)
<1>1. s.mss \in Nat /\ s.cwnd \in Nat /\ s.wnd \in Nat
  BY SenderType
<1>. DEFINE x == MinOf(s.cwnd, s.wnd)
            h == x \div 2
<1>2. x \in Nat
  BY <1>1 DEF MinOf
<1>3. h \in Nat
  <2>. HIDE DEF x
  <2>. QED
    BY <1>2
<1>4. Half(s) = IF h < 2 * s.mss THEN 2 * s.mss ELSE h
  BY DEF Half
<1>. HIDE DEF h
<1>. QED
  BY <1>1, <1>3, <1>4

(* The window: it reaches as far as before, or as far from what is         *)
(* acknowledged, and further.                                              *)
LEMMA WindowIs ==
  ASSUME IInv, NEW m \in Acks, AckInv(m, snd, rcv), NEW s, s = WindowUpdated(m)
  PROVE  /\ s \in Senders /\ s.state = snd.state /\ s.nxt = snd.nxt
         /\ s.lastack = snd.lastack /\ s.lbb = snd.lbb /\ s.buf = snd.buf
         /\ s.mss = snd.mss /\ s.cwnd = snd.cwnd /\ s.ssthresh = snd.ssthresh
         /\ s.fin = snd.fin /\ s.oversize = snd.oversize /\ s.queuelen = snd.queuelen
         /\ Off(m.ack) <= Off(s.wl2) /\ Off(snd.wl2) <= Off(s.wl2)
         /\ Off(s.wl2) <= Off(rcv.nxt) /\ Off(s.wl2) + s.wnd <= Off(rcv.edge)
         /\ \/ snd.wnd <= s.wnd
            \/ /\ Off(snd.wl2) < Off(m.ack)
               /\ Off(snd.wl2) + snd.wnd <= Off(m.ack) + s.wnd
         /\ \/ s.wl2 = snd.wl2 /\ s.wnd = snd.wnd
            \/ s.wl2 = m.ack /\ s.wnd = m.wnd
<1>1. /\ snd \in Senders /\ rcv \in Receivers /\ SenderInv(snd, Len(written), rcv)
  BY DEF IInv, TypeInv
<1>2. m.ack \in Seqs /\ m.wnd \in 0 .. Wnd /\ Off(m.ack) \in Nat /\ m.wnd \in Nat
  BY OffType, Constants DEF Acks, Seqs
<1>3. /\ snd.wl2 \in Seqs /\ snd.wnd \in Nat /\ Off(snd.wl2) \in Nat
  BY <1>1, SenderType
<1>4. Off(rcv.nxt) \in Nat /\ Off(rcv.edge) \in Nat
  BY <1>1, ReceiverType
<1>5. /\ Off(snd.wl2) <= Off(rcv.nxt) /\ Off(snd.wl2) + snd.wnd <= Off(rcv.edge)
      /\ Off(m.ack) <= Off(rcv.nxt) /\ Off(m.ack) + m.wnd <= Off(rcv.edge)
      /\ Off(snd.wl2) < Off(m.ack) => Off(snd.wl2) + snd.wnd <= Off(m.ack) + m.wnd
  BY <1>1 DEF SenderInv, AckInv, Further, Known
<1>6. Lt(snd.wl2, m.ack) <=> Off(snd.wl2) < Off(m.ack)
  <2>1. Off(rcv.nxt) <= StreamLen + Wnd + 1
    <3>1. Off(rcv.nxt) <= Len(written) + 1 /\ Len(written) \in Nat /\ Len(written) <= StreamLen
      <4>1. ReceiverInv(rcv, refused, given, snd, Len(written))
        BY DEF IInv
      <4>2. Off(rcv.nxt) <= Len(written) \/ Off(rcv.nxt) = Len(written) + 1
        BY <4>1 DEF ReceiverInv
      <4>3. Len(written) \in Nat /\ Len(written) \in 0 .. StreamLen
        BY WrittenType
      <4>. QED
        BY <1>4, <4>2, <4>3, Constants
    <3>. QED
      BY <1>4, <3>1, Constants
  <2>2. Near(snd.wl2) /\ Near(m.ack)
    BY <1>2, <1>3, <1>4, <1>5, <2>1, Constants DEF Near
  <2>. QED
    BY <2>2, LtNear
<1>7. CASE Lt(snd.wl2, m.ack) \/ (snd.wl2 = m.ack /\ m.wnd > snd.wnd)
  <2>. DEFINE p == m.wnd = 0
  <2>1. s = [snd EXCEPT !.wnd = m.wnd, !.wl2 = m.ack, !.persist = p] /\ p \in BOOLEAN
    BY <1>7 DEF WindowUpdated
  <2>. HIDE DEF p
  <2>2. s \in Senders
    BY <1>1, <1>2, <2>1 DEF Senders
  <2>3. /\ s.state = snd.state /\ s.nxt = snd.nxt
        /\ s.lastack = snd.lastack /\ s.lbb = snd.lbb /\ s.buf = snd.buf
        /\ s.mss = snd.mss /\ s.cwnd = snd.cwnd /\ s.ssthresh = snd.ssthresh
        /\ s.fin = snd.fin /\ s.oversize = snd.oversize /\ s.queuelen = snd.queuelen
        /\ s.wnd = m.wnd /\ s.wl2 = m.ack
    BY <1>1, <2>1 DEF Senders
  <2>4. Off(snd.wl2) <= Off(m.ack)
    BY <1>2, <1>3, <1>6, <1>7
  <2>5. \/ snd.wnd <= m.wnd
        \/ /\ Off(snd.wl2) < Off(m.ack)
           /\ Off(snd.wl2) + snd.wnd <= Off(m.ack) + m.wnd
    BY <1>2, <1>3, <1>5, <1>6, <1>7
  <2>. QED
    BY <1>2, <1>5, <2>2, <2>3, <2>4, <2>5
<1>8. CASE ~(Lt(snd.wl2, m.ack) \/ (snd.wl2 = m.ack /\ m.wnd > snd.wnd))
  <2>1. s = snd
    BY <1>8 DEF WindowUpdated
  <2>2. Off(m.ack) <= Off(snd.wl2)
    BY <1>2, <1>3, <1>6, <1>8
  <2>. QED
    BY <1>1, <1>3, <1>5, <2>1, <2>2
<1>. QED
  BY <1>7, <1>8

(* The fields of what is left when the front of unsent is acknowledged.    *)
Batch(una, uns, told, s) == [unacked |-> una, unsent |-> uns, told |-> told, snd |-> s]
Covered(m, uns, nxt) == Leading(uns, {i \in DOMAIN uns : Between(m.ack, SegEnd(uns[i]), nxt)})
LeftAfter(a, una, uns, told, s, n) ==
  LET gone == SubSeq(uns, 1, n)
      left == SubSeq(uns, n + 1, Len(uns))
  IN  /\ a.unacked = una /\ a.unsent = left
      /\ a.told = IF told = 0 THEN 0 ELSE told - Fins(gone)
      /\ a.snd = [s EXCEPT !.queuelen = @ - Pbufs(gone),
                           !.oversize = IF left = <<>> /\ n > 0 THEN 0 ELSE @]

LEMMA AckedUnsentIs ==
  ASSUME NEW m, NEW una \in Seq(Segments), NEW uns \in Seq(Segments), NEW told \in Int,
         NEW s \in Senders, NEW p, p = Batch(una, uns, told, s),
         NEW n, n = Covered(m, uns, s.nxt)
  PROVE  LeftAfter(AckedUnsent(m, p), una, uns, told, s, n)
<1>. DEFINE gone == SubSeq(uns, 1, n)
            left == SubSeq(uns, n + 1, Len(uns))
            x == IF told = 0 THEN 0 ELSE told - Fins(gone)
            y == s.queuelen - Pbufs(gone)
            z == IF left = <<>> /\ n > 0 THEN 0 ELSE s.oversize
            a == AckedUnsent(m, p)
<1>0. p = [unacked |-> una, unsent |-> uns, told |-> told, snd |-> s]
  BY DEF Batch
<1>1. p.unsent = uns /\ p.snd = s /\ p.told = told /\ p.unacked = una
  BY <1>0
<1>2. a = [p EXCEPT !.unsent = left, !.told = x, !.snd.queuelen = y, !.snd.oversize = z]
  BY <1>1 DEF AckedUnsent, Covered
<1>. HIDE DEF x, y, z, a, left, gone
<1>3. a = [unacked |-> una, unsent |-> left, told |-> x,
           snd |-> [s EXCEPT !.queuelen = y, !.oversize = z]]
  BY ONLY <1>0, <1>2 DEF Senders
<1>4. /\ a.unacked = una /\ a.unsent = left /\ a.told = x
      /\ a.snd = [s EXCEPT !.queuelen = y, !.oversize = z]
  BY <1>3
<1>. QED
  BY <1>4 DEF x, y, z, a, left, gone, LeftAfter

(* What the ACK leaves: s are the sender's fields with the new window.     *)
AckKept(p, s) ==
  /\ p.snd \in Senders /\ p.told \in Int
  /\ \E q \in Seq(Segments) : \E n \in 0 .. Len(q) :
       SplitAt(q, n, p.unacked, p.unsent, p.snd) /\ QueueInv(q, n, p.snd, Len(written))
  /\ SenderInv(p.snd, Len(written), rcv)
  /\ Later(snd, Len(written), p.snd, Len(written))
  /\ p.snd.wl2 = s.wl2 /\ p.snd.wnd = s.wnd /\ p.snd.state = s.state
  /\ sentTold + p.told = MinOf(Off(p.snd.lastack), Len(written))

(* The ACK acknowledges something that was sent.                           *)
AcksNew(m) == Off(snd.lastack) < Off(m.ack) /\ Off(m.ack) <= Off(snd.nxt)

LEMMA PlacesNear ==
  ASSUME IInv, NEW m \in Acks, AckInv(m, snd, rcv)
  PROVE  /\ Near(m.ack) /\ Near(snd.lastack) /\ Near(snd.nxt) /\ Near(snd.wl2)
         /\ Off(m.ack) \in Nat /\ Off(snd.lastack) \in Nat /\ Off(snd.nxt) \in Nat
         /\ Off(snd.wl2) \in Nat /\ Fin(snd) \in {0, 1}
         /\ Off(snd.lastack) <= Off(snd.nxt) /\ Off(snd.nxt) <= Len(written) + Fin(snd)
         /\ Off(snd.lastack) <= Off(snd.wl2)
         /\ Off(m.ack) <= Off(snd.nxt) \/ Off(m.ack) = Off(snd.lastack) + 1
<1>1. /\ snd \in Senders /\ rcv \in Receivers /\ SenderInv(snd, Len(written), rcv)
      /\ ReceiverInv(rcv, refused, given, snd, Len(written))
  BY DEF IInv, TypeInv
<1>2. Len(written) \in Nat /\ Len(written) <= StreamLen /\ StreamLen \in Nat /\ Wnd \in Nat
  <2>1. Len(written) \in 0 .. StreamLen
    BY WrittenType
  <2>. QED
    BY <2>1, Constants
<1>3. m.ack \in Seqs /\ Off(m.ack) \in Nat
  BY OffType, Constants DEF Acks, Seqs
<1>4. /\ snd.lastack \in Seqs /\ snd.nxt \in Seqs /\ snd.wl2 \in Seqs
      /\ Off(snd.lastack) \in Nat /\ Off(snd.nxt) \in Nat /\ Off(snd.wl2) \in Nat
      /\ Fin(snd) \in {0, 1} /\ Off(rcv.nxt) \in Nat
  BY <1>1, SenderType, ReceiverType
<1>5. /\ Off(snd.lastack) <= Off(snd.nxt) /\ Off(snd.nxt) <= Len(written) + Fin(snd)
      /\ Off(snd.lastack) <= Off(snd.wl2) /\ Off(snd.wl2) <= Off(rcv.nxt)
  BY <1>1 DEF SenderInv
<1>6. Off(rcv.nxt) <= Len(written) + 1 /\ Off(rcv.nxt) <= Reach(snd)
  <2>1. Off(rcv.nxt) <= Len(written) \/ Off(rcv.nxt) = Len(written) + 1
    BY <1>1 DEF ReceiverInv
  <2>. QED
    BY <1>1, <1>2, <1>4, <2>1 DEF ReceiverInv
<1>7. Off(m.ack) <= Off(rcv.nxt)
  BY DEF AckInv
<1>8. Off(m.ack) <= Off(snd.nxt) \/ Off(m.ack) = Off(snd.lastack) + 1
  BY <1>3, <1>4, <1>5, <1>6, <1>7 DEF Reach, MaxOf
<1>9. /\ Off(m.ack) <= StreamLen + Wnd + 1 /\ Off(snd.lastack) <= StreamLen + Wnd + 1
      /\ Off(snd.nxt) <= StreamLen + Wnd + 1 /\ Off(snd.wl2) <= StreamLen + Wnd + 1
  BY <1>2, <1>3, <1>4, <1>5, <1>6, <1>7
<1>. QED
  BY <1>3, <1>4, <1>5, <1>8, <1>9 DEF Near

(* The queues and the new window, when nothing new is acknowledged.        *)
LEMMA SameWindow ==
  ASSUME IInv, Open, NEW m \in Acks, AckInv(m, snd, rcv), ~AcksNew(m),
         NEW s, s = WindowUpdated(m)
  PROVE  /\ QueueInv(Outstanding, Len(unacked), s, Len(written))
         /\ SenderInv(s, Len(written), rcv)
<1>. DEFINE q == Outstanding
            n == Len(unacked)
            w == Len(written)
<1>1. /\ s \in Senders /\ s.state = snd.state /\ s.nxt = snd.nxt
      /\ s.lastack = snd.lastack /\ s.lbb = snd.lbb /\ s.buf = snd.buf
      /\ s.mss = snd.mss /\ s.cwnd = snd.cwnd /\ s.ssthresh = snd.ssthresh
      /\ s.fin = snd.fin /\ s.oversize = snd.oversize /\ s.queuelen = snd.queuelen
      /\ Off(m.ack) <= Off(s.wl2) /\ Off(snd.wl2) <= Off(s.wl2)
      /\ Off(s.wl2) <= Off(rcv.nxt) /\ Off(s.wl2) + s.wnd <= Off(rcv.edge)
      /\ \/ snd.wnd <= s.wnd
         \/ /\ Off(snd.wl2) < Off(m.ack)
            /\ Off(snd.wl2) + snd.wnd <= Off(m.ack) + s.wnd
  BY WindowIs
<1>2. /\ QueueInv(q, n, snd, w) /\ SenderInv(snd, w, rcv) /\ snd \in Senders
      /\ q \in Seq(Segments) /\ n \in 0 .. Len(q) /\ w \in Nat /\ w \in 0 .. StreamLen
  BY WrittenType DEF IInv, TypeInv
<1>3. /\ Off(m.ack) \in Nat /\ Off(snd.lastack) \in Nat /\ Off(snd.nxt) \in Nat
      /\ Off(snd.wl2) \in Nat /\ Off(s.wl2) \in Nat /\ snd.wnd \in Nat /\ s.wnd \in Nat
      /\ Off(snd.lastack) <= Off(snd.nxt) /\ Off(snd.lastack) <= Off(snd.wl2)
      /\ Off(m.ack) <= Off(snd.nxt) \/ Off(m.ack) = Off(snd.lastack) + 1
  BY <1>1, <1>2, PlacesNear, SenderType
<1>4. Fin(s) = Fin(snd)
  BY <1>1 DEF Fin
<1>. HIDE DEF q, n, w
<1>5. \A i \in 1 .. n : BytesEnd(q[i]) <= Off(s.lastack) + s.wnd
  <2>1. ASSUME NEW i \in 1 .. n PROVE BytesEnd(q[i]) <= Off(s.lastack) + s.wnd
    <3>1. /\ EndOff(q[i]) <= Off(snd.nxt) /\ BytesEnd(q[i]) <= Off(snd.lastack) + snd.wnd
      BY <1>2 DEF QueueInv
    <3>2. i \in 1 .. Len(q) /\ i \in Nat /\ 1 \in 1 .. Len(q) /\ 1 \in 1 .. n /\ q # <<>>
      <4>1. n \in Nat /\ Len(q) \in Nat /\ n <= Len(q)
        BY <1>2
      <4>2. i \in 1 .. Len(q) /\ i \in Nat /\ 1 \in 1 .. Len(q) /\ 1 \in 1 .. n
        BY <4>1
      <4>. QED
        BY <1>2, <4>2, EmptySeq
    <3>3. EndOff(q[1]) <= Off(snd.nxt) /\ Off(snd.lastack) < EndOff(q[1])
      BY <1>2, <3>2 DEF QueueInv
    <3>4. EndOff(q[1]) \in Nat /\ BytesEnd(q[i]) \in Nat
      BY <1>2, <3>2, QueueOrdered
    <3>5. Off(m.ack) <= Off(snd.lastack)
      <4>1. Off(snd.lastack) < Off(snd.nxt)
        BY <1>3, <3>3, <3>4
      <4>2. Off(m.ack) <= Off(snd.nxt)
        BY <1>3, <4>1
      <4>. QED
        BY <1>3, <4>2 DEF AcksNew
    <3>6. snd.wnd <= s.wnd
      BY <1>1, <1>3, <3>5
    <3>. QED
      BY <1>1, <1>3, <3>1, <3>4, <3>6
  <2>. QED
    BY <2>1
<1>6. \A i \in 1 .. Len(q) : Holds(q[i], s, w) /\ SegLen(q[i]) <= s.mss
  BY <1>1, <1>2 DEF QueueInv, Holds
<1>7. Core(q, n, s, w)
  BY <1>1, <1>2, <1>4, <1>5, <1>6 DEF Core, QueueInv
<1>8. QueueInv(q, n, s, w)
  BY <1>1, <1>2, <1>7, QueueIs
<1>9. SenderInv(s, w, rcv)
  <2>1. Off(s.lastack) <= Off(s.wl2)
    BY <1>1, <1>3
  <2>. QED
    BY <1>1, <1>2, <1>4, <2>1 DEF SenderInv
<1>. QED
  BY <1>8, <1>9 DEF q, n, w

(* The queues stay, and are cut at m as before, when nothing new is        *)
(* acknowledged.                                                           *)
LEMMA NothingUnsent ==
  ASSUME IInv, Open, NEW m \in Acks, AckInv(m, snd, rcv), ~AcksNew(m),
         NEW una \in Seq(Segments), NEW uns \in Seq(Segments),
         \A i \in 1 .. Len(uns) : \E j \in 1 .. Len(Outstanding) : uns[i] = Outstanding[j],
         NEW t \in Senders, t.nxt = snd.nxt, NEW p,
         p = [unacked |-> una, unsent |-> uns, told |-> 0, snd |-> t]
  PROVE  /\ AckedUnsent(m, p).unacked = una /\ AckedUnsent(m, p).unsent = uns
         /\ AckedUnsent(m, p).told = 0 /\ AckedUnsent(m, p).snd = t
<1>. DEFINE q == Outstanding
            w == Len(written)
            S == {i \in DOMAIN uns : Between(m.ack, SegEnd(uns[i]), t.nxt)}
            n == Leading(uns, S)
            a == AckedUnsent(m, p)
<1>1. /\ QueueInv(q, Len(unacked), snd, w) /\ snd \in Senders
      /\ q \in Seq(Segments) /\ w \in 0 .. StreamLen
  BY WrittenType DEF IInv, TypeInv
<1>2. /\ Near(m.ack) /\ Near(snd.nxt)
      /\ Off(m.ack) \in Nat /\ Off(snd.lastack) \in Nat /\ Off(snd.nxt) \in Nat
  BY PlacesNear
<1>3. 1 \notin S
  <2>1. ASSUME 1 \in DOMAIN uns, Between(m.ack, SegEnd(uns[1]), t.nxt) PROVE FALSE
    <3>1. 1 \in 1 .. Len(uns)
      BY <2>1
    <3>2. PICK j \in 1 .. Len(q) : uns[1] = q[j]
      BY <3>1
    <3>. HIDE DEF q, w
    <3>3. /\ Near(SegEnd(q[j])) /\ Off(SegEnd(q[j])) = EndOff(q[j]) /\ EndOff(q[j]) \in Nat
          /\ Off(q[j].seq) \in Nat /\ Off(q[j].seq) < EndOff(q[j])
      BY <1>1, QueueOrdered
    <3>4. Off(m.ack) <= Off(snd.nxt) /\ EndOff(q[j]) <= Off(m.ack)
      BY <1>2, <2>1, <3>2, <3>3, LtNear DEF Between
    <3>5. Off(snd.lastack) < EndOff(q[1]) /\ EndOff(q[1]) <= EndOff(q[j])
      <4>1. Len(q) \in Nat /\ j \in Nat /\ 1 \in 1 .. Len(q) /\ q # <<>>
        <5>1. Len(q) \in Nat /\ 1 \in 1 .. Len(q)
          BY <1>1
        <5>. QED
          BY <1>1, <5>1, EmptySeq
      <4>2. Off(snd.lastack) < EndOff(q[1])
        BY <1>1, <4>1 DEF QueueInv
      <4>3. CASE j = 1
        BY <3>3, <4>2, <4>3
      <4>4. CASE j # 1
        <5>1. 1 < j
          BY <4>1, <4>4
        <5>2. EndOff(q[1]) <= Off(q[j].seq)
          BY <1>1, <4>1, <5>1 DEF QueueInv, Chain
        <5>3. EndOff(q[1]) \in Nat
          BY <1>1, <4>1, QueueOrdered
        <5>. QED
          BY <3>3, <4>2, <5>2, <5>3
      <4>. QED
        BY <4>3, <4>4
    <3>6. EndOff(q[1]) \in Nat
      <4>1. 1 \in 1 .. Len(q)
        BY <1>1
      <4>. QED
        BY <1>1, <4>1, QueueOrdered
    <3>. QED
      BY <1>2, <3>3, <3>4, <3>5, <3>6 DEF AcksNew
  <2>. QED
    BY <2>1
<1>4. n = 0
  <2>. HIDE DEF S
  <2>1. n \in 0 .. Len(uns) /\ \A i \in 1 .. n : i \in S
    BY LeadingIs
  <2>. HIDE DEF n
  <2>2. n # 0 => 1 \in 1 .. n
    BY <2>1
  <2>. QED
    BY <1>3, <2>1, <2>2
<1>. DEFINE gone == SubSeq(uns, 1, n)
            left == SubSeq(uns, n + 1, Len(uns))
            told == 0
<1>5. /\ a.unacked = una /\ a.unsent = left
      /\ a.told = IF told = 0 THEN 0 ELSE told - Fins(gone)
      /\ a.snd = [t EXCEPT !.queuelen = @ - Pbufs(gone),
                           !.oversize = IF left = <<>> /\ n > 0 THEN 0 ELSE @]
  <2>1. told \in Int /\ p = Batch(una, uns, told, t)
    BY DEF Batch
  <2>2. n = Covered(m, uns, t.nxt)
    BY DEF Covered
  <2>3. una \in Seq(Segments) /\ uns \in Seq(Segments) /\ t \in Senders
    OBVIOUS
  <2>. HIDE DEF told, n
  <2>4. LeftAfter(a, una, uns, told, t, n)
    BY ONLY <2>1, <2>2, <2>3, AckedUnsentIs
  <2>. HIDE DEF a
  <2>. QED
    BY <2>4 DEF LeftAfter
<1>. HIDE DEF n
<1>6. gone = <<>> /\ left = uns
  BY <1>4
<1>7. a.snd = [t EXCEPT !.queuelen = t.queuelen, !.oversize = t.oversize]
  <2>1. Pbufs(gone) = 0 /\ t.queuelen \in Int
    BY <1>6, PbufsSum, SenderType
  <2>2. ~(n > 0)
    BY <1>4
  <2>. DEFINE x == Pbufs(gone)
  <2>3. a.snd = [t EXCEPT !.queuelen = @ - x, !.oversize = t.oversize]
    BY <1>5, <2>2
  <2>4. t.queuelen - x = t.queuelen
    BY <2>1
  <2>. HIDE DEF x
  <2>. QED
    BY <2>3, <2>4
<1>8. [t EXCEPT !.queuelen = t.queuelen, !.oversize = t.oversize] = t
  BY DEF Senders
<1>. QED
  BY <1>5, <1>6, <1>7, <1>8

(* Nothing new is acknowledged: the fields t are those with the new window *)
(* but for what only paces the sender.                                     *)
LEMMA StayKept ==
  ASSUME IInv, Open, NEW m \in Acks, AckInv(m, snd, rcv), ~AcksNew(m),
         NEW s, s = WindowUpdated(m), NEW t \in Senders,
         t.state = s.state, t.nxt = s.nxt, t.lastack = s.lastack, t.lbb = s.lbb,
         t.buf = s.buf, t.queuelen = s.queuelen, t.wnd = s.wnd, t.wl2 = s.wl2,
         t.mss = s.mss, t.fin = s.fin, t.mss <= t.cwnd, t.mss <= t.ssthresh,
         t.oversize = s.oversize \/ t.oversize = 0,
         NEW una \in Seq(Segments), NEW uns \in Seq(Segments),
         SplitAt(Outstanding, Len(unacked), una, uns, t),
         \A i \in 1 .. Len(uns) : \E j \in 1 .. Len(Outstanding) : uns[i] = Outstanding[j],
         NEW p, p = [unacked |-> una, unsent |-> uns, told |-> 0, snd |-> t]
  PROVE  AckKept(AckedUnsent(m, p), s)
<1>. DEFINE q == Outstanding
            n == Len(unacked)
            w == Len(written)
            a == AckedUnsent(m, p)
<1>1. /\ s \in Senders /\ s.nxt = snd.nxt /\ s.lastack = snd.lastack /\ s.fin = snd.fin
      /\ s.state = snd.state
  BY WindowIs
<1>2. QueueInv(q, n, s, w) /\ SenderInv(s, w, rcv)
  BY SameWindow
<1>3. a.unacked = una /\ a.unsent = uns /\ a.told = 0 /\ a.snd = t
  BY <1>1, NothingUnsent
<1>4. /\ q \in Seq(Segments) /\ n \in 0 .. Len(q) /\ w \in Nat /\ sentTold \in Int /\ snd \in Senders
      /\ sentTold = MinOf(Off(snd.lastack), w)
  BY WrittenType DEF IInv, TypeInv, SentExact, Off
<1>5. SplitAt(q, n, a.unacked, a.unsent, a.snd)
  BY <1>3
<1>. HIDE DEF a, q, n, w
<1>6. Fin(t) = Fin(s)
  BY DEF Fin
<1>7. QueueInv(q, n, t, w)
  <2>1. Core(q, n, s, w)
    BY <1>2, QueueIs
  <2>2. \A i \in 1 .. Len(q) : Holds(q[i], t, w) /\ SegLen(q[i]) <= t.mss
    BY <2>1 DEF Core, Holds
  <2>3. Core(q, n, t, w)
    BY <1>6, <2>1, <2>2 DEF Core
  <2>4. n = Len(q) => t.oversize = 0
    BY <1>2, QueueIs
  <2>5. n < Len(q) => SegLen(q[Len(q)]) + t.oversize <= t.mss
    <3>1. SUFFICES ASSUME n < Len(q) PROVE SegLen(q[Len(q)]) + t.oversize <= t.mss
      OBVIOUS
    <3>2. Len(q) \in 1 .. Len(q)
      BY <1>4, <3>1
    <3>3. SegLen(q[Len(q)]) <= t.mss
      BY <2>2, <3>2
    <3>4. SegLen(q[Len(q)]) + s.oversize <= t.mss
      BY <1>2, <3>1, QueueIs
    <3>5. q[Len(q)] \in Segments \cup Packets
      BY <1>4, <3>2, ElementOfSeq
    <3>6. SegLen(q[Len(q)]) \in Nat
      BY <3>5, SegEndOff
    <3>. QED
      BY <3>3, <3>4, <3>6
  <2>6. t.queuelen = Pbufs(q)
    BY <1>2, QueueIs
  <2>. QED
    BY <2>3, <2>4, <2>5, <2>6, QueueIs
<1>8. SenderInv(t, w, rcv)
  <2>1. t.oversize >= 0
    BY <1>2 DEF SenderInv
  <2>. QED
    BY <1>2, <1>6, <2>1 DEF SenderInv
<1>9. Later(snd, w, t, w)
  <2>1. Off(snd.nxt) \in Nat /\ Off(snd.lastack) \in Nat
    BY <1>4, SenderType
  <2>. QED
    BY <1>1, <1>4, <2>1 DEF Later
<1>10. sentTold + a.told = MinOf(Off(t.lastack), w)
  BY <1>1, <1>3, <1>4
<1>11. \E q0 \in Seq(Segments) : \E n0 \in 0 .. Len(q0) :
         SplitAt(q0, n0, a.unacked, a.unsent, a.snd) /\ QueueInv(q0, n0, a.snd, w)
  BY <1>3, <1>4, <1>5, <1>7
<1>12. AckKept(a, s)
  BY <1>3, <1>8, <1>9, <1>10, <1>11 DEF AckKept, w
<1>. QED
  BY <1>12 DEF a

(* The queues as they are.                                                 *)
LEMMA AsBefore ==
  ASSUME IInv
  PROVE  /\ unacked \in Seq(Segments) /\ unsent \in Seq(Segments)
         /\ \A t : SplitAt(Outstanding, Len(unacked), unacked, unsent, t)
         /\ \A i \in 1 .. Len(unsent) : \E j \in 1 .. Len(Outstanding) : unsent[i] = Outstanding[j]
<1>1. /\ unacked \in Seq(Segments) /\ unsent \in Seq(Segments)
      /\ unacked = SubSeq(Outstanding, 1, Len(unacked))
      /\ unsent = SubSeq(Outstanding, Len(unacked) + 1, Len(Outstanding))
  BY WrittenType
<1>2. \A t : SplitAt(Outstanding, Len(unacked), unacked, unsent, t)
  BY <1>1 DEF SplitAt
<1>3. ASSUME NEW i \in 1 .. Len(unsent) PROVE \E j \in 1 .. Len(Outstanding) : unsent[i] = Outstanding[j]
  <2>1. /\ Len(Outstanding) = Len(unacked) + Len(unsent) /\ Len(unacked) \in Nat /\ Len(unsent) \in Nat
        /\ Outstanding[Len(unacked) + i] = unsent[i]
    BY <1>1, Joined DEF Outstanding
  <2>2. Len(unacked) + i \in 1 .. Len(Outstanding)
    BY <2>1
  <2>. QED
    BY <2>1, <2>2
<1>. QED
  BY <1>1, <1>2, <1>3

(* tcp_rexmit_fast.                                                        *)
LEMMA FastRetransmitKept ==
  ASSUME IInv, Open, NEW m \in Acks, AckInv(m, snd, rcv), ~AcksNew(m),
         NEW s, s = WindowUpdated(m), NEW c \in Nat, NEW k,
         k = [s EXCEPT !.dupacks = c], unacked # <<>>, ~k.infr
  PROVE  AckKept(AckedUnsent(m, FastRetransmit(k)), s)
<1>. DEFINE q == Outstanding
            n == Len(unacked)
            w == Len(written)
            h == Head(unacked)
            queue == Insert(h, unsent)
            nrtx == (k.nrtx + 1) % RtxModulus
            ss == Capped(Half(k))
            cw == Capped(Half(k) + 3 * k.mss)
            ov == IF LastOf(queue) = h THEN 0 ELSE k.oversize
            t == [k EXCEPT !.nrtx = nrtx, !.infr = TRUE, !.ssthresh = ss, !.cwnd = cw, !.oversize = ov]
            p == FastRetransmit(k)
            una == Tail(unacked)
            uns == <<h>> \o unsent
<1>1. /\ s \in Senders /\ s.nxt = snd.nxt /\ s.lastack = snd.lastack /\ s.fin = snd.fin
      /\ s.state = snd.state
  BY WindowIs
<1>2. QueueInv(q, n, s, w) /\ SenderInv(s, w, rcv) /\ w \in Nat /\ w \in 0 .. StreamLen
  BY SameWindow, WrittenType
<1>3. /\ k \in Senders /\ k.mss = s.mss /\ k.oversize = s.oversize /\ k.nrtx = s.nrtx
      /\ k.state = s.state /\ k.nxt = s.nxt /\ k.lastack = s.lastack /\ k.lbb = s.lbb
      /\ k.buf = s.buf /\ k.queuelen = s.queuelen /\ k.wnd = s.wnd /\ k.wl2 = s.wl2
      /\ k.fin = s.fin
  BY <1>1 DEF Senders
<1>4. p = [unacked |-> una, unsent |-> queue, told |-> 0, snd |-> t]
  BY DEF FastRetransmit
<1>5. nrtx \in Int /\ ov \in Int /\ (ov = k.oversize \/ ov = 0)
  <2>1. k.nrtx \in Int /\ k.oversize \in Int
    BY <1>3, SenderType
  <2>2. RtxModulus \in Nat /\ RtxModulus # 0
    BY SizeAssumption
  <2>3. \A x \in Int : x % RtxModulus \in Int
    BY <2>2
  <2>. QED
    BY <2>1, <2>3
<1>6. ss \in 0 .. Wnd /\ k.mss <= ss /\ cw \in 0 .. Wnd /\ k.mss <= cw
  <2>1. k.mss \in Nat /\ Half(k) \in Nat /\ k.mss <= Half(k)
    BY <1>3, HalfIs, SenderType
  <2>. DEFINE x == Half(k)
              y == x + 3 * k.mss
  <2>2. x \in Nat /\ k.mss <= x /\ y \in Nat /\ k.mss <= y
    <3>. HIDE DEF x
    <3>. QED
      BY <2>1 DEF x
  <2>. HIDE DEF x, y
  <2>3. Capped(x) \in 0 .. Wnd /\ k.mss <= Capped(x) /\ Capped(y) \in 0 .. Wnd /\ k.mss <= Capped(y)
    BY <1>3, <2>2, CappedIs
  <2>. QED
    BY <2>3 DEF x, y
<1>. HIDE DEF nrtx, ss, cw, ov
<1>7. t \in Senders
  BY ONLY <1>3, <1>5, <1>6 DEF Senders
<1>8. /\ t.state = s.state /\ t.nxt = s.nxt /\ t.lastack = s.lastack /\ t.lbb = s.lbb
      /\ t.buf = s.buf /\ t.queuelen = s.queuelen /\ t.wnd = s.wnd /\ t.wl2 = s.wl2
      /\ t.mss = s.mss /\ t.fin = s.fin /\ t.infr = TRUE
      /\ t.cwnd = cw /\ t.ssthresh = ss /\ t.oversize = ov
  BY <1>3, <1>5, <1>6 DEF Senders
<1>. HIDE DEF t
<1>9. /\ q \in Seq(Segments) /\ unacked \in Seq(Segments) /\ unsent \in Seq(Segments)
      /\ n \in 0 .. Len(q) /\ n \in Nat /\ Len(q) \in Nat /\ n >= 1 /\ 1 \in 1 .. Len(q) /\ q # <<>>
      /\ unacked = SubSeq(q, 1, n) /\ unsent = SubSeq(q, n + 1, Len(q))
      /\ \A i \in 1 .. n : unacked[i] = q[i]
      /\ \A i \in 1 .. Len(unsent) : n + i \in 1 .. Len(q) /\ unsent[i] = q[n + i]
  <2>1. /\ q \in Seq(Segments) /\ unacked \in Seq(Segments) /\ unsent \in Seq(Segments)
        /\ n \in 0 .. Len(q) /\ unacked = SubSeq(q, 1, n) /\ unsent = SubSeq(q, n + 1, Len(q))
    BY WrittenType
  <2>2. n \in Nat /\ n # 0
    BY <2>1, EmptySeq
  <2>3. /\ Len(q) = n + Len(unsent) /\ Len(unsent) \in Nat
        /\ \A i \in 1 .. n : q[i] = unacked[i]
        /\ \A i \in 1 .. Len(unsent) : q[n + i] = unsent[i]
    BY <2>1, Joined DEF Outstanding
  <2>. HIDE DEF q, n
  <2>4. n >= 1 /\ 1 \in 1 .. Len(q) /\ Len(q) \in Nat
    BY <2>2, <2>3
  <2>5. \A i \in 1 .. Len(unsent) : n + i \in 1 .. Len(q)
    BY <2>2, <2>3
  <2>6. q # <<>>
    BY <2>4
  <2>. QED
    BY <2>1, <2>2, <2>3, <2>4, <2>5, <2>6
<1>10. h = q[1] /\ h \in Segments /\ 1 \in 1 .. n
  <2>1. h = unacked[1] /\ 1 \in 1 .. n
    BY <1>9
  <2>. HIDE DEF h
  <2>. QED
    BY <1>9, <2>1, ElementOfSeq
<1>. HIDE DEF q, n, w
<1>11. queue = uns
  <2>1. unsent # <<>> => ~Lt(unsent[1].seq, h.seq)
    <3>1. SUFFICES ASSUME unsent # <<>> PROVE ~Lt(unsent[1].seq, h.seq)
      OBVIOUS
    <3>2. 1 \in 1 .. Len(unsent)
      <4>1. Len(unsent) \in Nat /\ Len(unsent) # 0
        BY <1>9, <3>1, EmptySeq
      <4>. QED
        BY <4>1
    <3>3. n + 1 \in 1 .. Len(q) /\ unsent[1] = q[n + 1] /\ 1 < n + 1
      BY <1>9, <3>2
    <3>4. Ordered(q)
      BY <1>1, <1>2, <1>9, QueueOrdered
    <3>5. Near(q[1].seq) /\ Near(q[n + 1].seq) /\ Off(q[1].seq) < Off(q[n + 1].seq)
      BY <1>9, <3>3, <3>4 DEF Ordered
    <3>6. Off(q[1].seq) \in Nat /\ Off(q[n + 1].seq) \in Nat
      BY ONLY <3>5, OffType, Constants DEF Near, Seqs
    <3>7. ~(Off(q[n + 1].seq) < Off(q[1].seq))
      BY <3>5, <3>6
    <3>. QED
      BY <1>10, <3>3, <3>5, <3>7, LtNear
  <2>. HIDE DEF h
  <2>. QED
    BY <1>9, <1>10, <2>1, InsertFront
<1>12. /\ una = SubSeq(q, 2, n) /\ una \in Seq(Segments)
  <2>1. una = SubSeq(unacked, 2, n)
    BY <1>9 DEF n
  <2>2. SubSeq(SubSeq(q, 1, n), 2, n) = SubSeq(q, 2, n)
    <3>. DEFINE x == SubSeq(q, 1, n)
    <3>1. x \in Seq(Segments) /\ Len(x) = n /\ \A i \in 1 .. n : x[i] = q[i]
      BY <1>9, Parts
    <3>. HIDE DEF x
    <3>2. SubSeq(x, 2, n) = SubSeq(q, 2, n)
      BY ONLY <1>9, <3>1
    <3>. QED
      BY <3>2 DEF x
  <2>3. una \in Seq(Segments)
    BY <1>9
  <2>. HIDE DEF una
  <2>. QED
    BY <1>9, <2>1, <2>2, <2>3
<1>13. /\ uns \in Seq(Segments)
       /\ \A i \in 1 .. Len(uns) : \E j \in 1 .. Len(q) : uns[i] = q[j]
  <2>. DEFINE b == <<h>>
  <2>1. b \in Seq(Segments) /\ Len(b) = 1 /\ b[1] = h
    BY <1>10
  <2>. HIDE DEF b, h
  <2>2. /\ b \o unsent \in Seq(Segments) /\ Len(b \o unsent) = Len(b) + Len(unsent)
        /\ Len(unsent) \in Nat
        /\ \A i \in 1 .. Len(b) : (b \o unsent)[i] = b[i]
        /\ \A i \in 1 .. Len(unsent) : (b \o unsent)[Len(b) + i] = unsent[i]
    <3>1. b \in Seq(Segments) /\ unsent \in Seq(Segments)
      BY <1>9, <2>1
    <3>. QED
      BY ONLY <3>1, Joined
  <2>. DEFINE x == b \o unsent
  <2>3. /\ x \in Seq(Segments) /\ Len(x) = 1 + Len(unsent) /\ x[1] = h
        /\ \A i \in 1 .. Len(unsent) : x[1 + i] = unsent[i]
    <3>1. 1 \in 1 .. 1
      OBVIOUS
    <3>. QED
      BY <2>1, <2>2, <3>1
  <2>4. uns = x
    BY DEF b
  <2>. HIDE DEF x, uns
  <2>5. ASSUME NEW i \in 1 .. Len(x) PROVE \E j \in 1 .. Len(q) : x[i] = q[j]
    <3>1. i = 1 \/ (i - 1 \in 1 .. Len(unsent) /\ 1 + (i - 1) = i)
      BY <2>2, <2>3
    <3>2. CASE i = 1
      BY <1>9, <1>10, <2>3, <3>2
    <3>3. CASE i - 1 \in 1 .. Len(unsent) /\ 1 + (i - 1) = i
      <4>. DEFINE j == i - 1
      <4>1. j \in 1 .. Len(unsent) /\ 1 + j = i
        BY <3>3
      <4>. HIDE DEF j
      <4>2. x[i] = unsent[j] /\ n + j \in 1 .. Len(q) /\ unsent[j] = q[n + j]
        BY <1>9, <2>3, <4>1
      <4>. QED
        BY <4>2
    <3>. QED
      BY <3>1, <3>2, <3>3
  <2>. QED
    BY <2>3, <2>4, <2>5
<1>14. Fits(t, q[1])
  <2>1. /\ Off(q[1].seq) <= Off(s.lastack) /\ Off(s.lastack) < EndOff(q[1])
        /\ BytesEnd(q[1]) <= Off(s.lastack) + s.wnd /\ SegLen(q[1]) <= s.mss
    BY <1>2, <1>9, <1>10 DEF QueueInv
  <2>2. /\ EndOff(q[1]) <= w + Fin(s) /\ Fin(s) \in {0, 1} /\ EndOff(q[1]) <= BytesEnd(q[1]) + 1
        /\ EndOff(q[1]) \in Nat /\ BytesEnd(q[1]) \in Nat
    BY <1>1, <1>2, <1>9, QueueOrdered
  <2>3. Off(s.lastack) \in Nat /\ s.mss \in Nat /\ SegLen(q[1]) \in Nat
    <3>1. q[1] \in Segments \cup Packets
      BY <1>10
    <3>. QED
      BY <1>1, <3>1, SenderType, SegEndOff
  <2>4. EndOff(q[1]) <= StreamLen + 1 /\ Off(t.lastack) <= StreamLen + 1
    BY ONLY <1>2, <1>8, <2>1, <2>2, <2>3, Constants
  <2>5. Off(t.lastack) <= BytesEnd(q[1]) /\ SegLen(q[1]) <= t.cwnd
    BY <1>3, <1>6, <1>8, <2>1, <2>2, <2>3
  <2>6. q[1] \in Segments
    BY <1>10
  <2>. QED
    BY <1>7, <1>8, <2>1, <2>4, <2>5, <2>6, FitsOff
<1>. HIDE DEF queue, una, h
<1>15. SplitAt(q, n, una, uns, t)
  BY <1>8, <1>9, <1>10, <1>12, <1>14 DEF SplitAt
<1>. HIDE DEF uns, p
<1>16. p = [unacked |-> una, unsent |-> uns, told |-> 0, snd |-> t]
  BY <1>4, <1>11
<1>17. t.mss <= t.cwnd /\ t.mss <= t.ssthresh /\ (t.oversize = s.oversize \/ t.oversize = 0)
  BY <1>3, <1>5, <1>6, <1>8
<1>18. AckKept(AckedUnsent(m, p), s)
  BY <1>7, <1>8, <1>12, <1>13, <1>15, <1>16, <1>17, StayKept DEF q, n
<1>. QED
  BY <1>18 DEF p

(* An ACK of nothing new, or of what was never sent.                       *)
LEMMA NothingKept ==
  ASSUME IInv, Open, NEW m \in Acks, AckInv(m, snd, rcv), ~AcksNew(m),
         NEW s, s = WindowUpdated(m)
  PROVE  AckKept(AckedUnsent(m, Acked(m, s)), s)
<1>1. /\ s \in Senders /\ s.nxt = snd.nxt /\ s.lastack = snd.lastack
      /\ s.mss \in Nat /\ s.cwnd \in Nat /\ s.dupacks \in Nat
      /\ s.mss <= s.cwnd /\ s.mss <= s.ssthresh
  <2>1. s \in Senders /\ s.nxt = snd.nxt /\ s.lastack = snd.lastack
    BY WindowIs
  <2>2. SenderInv(s, Len(written), rcv)
    BY SameWindow
  <2>. QED
    BY <2>1, <2>2, SenderType DEF SenderInv
<1>2. /\ unacked \in Seq(Segments) /\ unsent \in Seq(Segments)
      /\ \A t : SplitAt(Outstanding, Len(unacked), unacked, unsent, t)
      /\ \A i \in 1 .. Len(unsent) : \E j \in 1 .. Len(Outstanding) : unsent[i] = Outstanding[j]
  BY AsBefore
<1>3. ASSUME NEW t \in Senders,
             t.state = s.state, t.nxt = s.nxt, t.lastack = s.lastack, t.lbb = s.lbb,
             t.buf = s.buf, t.queuelen = s.queuelen, t.wnd = s.wnd, t.wl2 = s.wl2,
             t.mss = s.mss, t.fin = s.fin, t.mss <= t.cwnd, t.mss <= t.ssthresh,
             t.oversize = s.oversize
      PROVE  AckKept(AckedUnsent(m, [unacked |-> unacked, unsent |-> unsent, told |-> 0, snd |-> t]), s)
  <2>. DEFINE p == [unacked |-> unacked, unsent |-> unsent, told |-> 0, snd |-> t]
  <2>1. SplitAt(Outstanding, Len(unacked), unacked, unsent, t)
    BY <1>2
  <2>2. p = [unacked |-> unacked, unsent |-> unsent, told |-> 0, snd |-> t]
    OBVIOUS
  <2>. HIDE DEF p
  <2>3. AckKept(AckedUnsent(m, p), s)
    BY <1>2, <1>3, <2>1, <2>2, StayKept
  <2>. QED
    BY <2>3 DEF p
<1>4. CASE Leq(m.ack, s.lastack)
  <2>. DEFINE duplicate == /\ Plus(s.wl2, s.wnd) = Plus(snd.wl2, snd.wnd)
                           /\ s.timed /\ s.lastack = m.ack
              c == IF ~duplicate THEN 0 ELSE MinOf(s.dupacks + 1, 4)
              k == [s EXCEPT !.dupacks = c]
              t == IF duplicate /\ s.dupacks > 2
                   THEN [k EXCEPT !.cwnd = Capped(@ + s.mss)] ELSE k
  <2>1. Acked(m, s) = IF duplicate /\ s.dupacks = 2 THEN FastRetransmit(k)
                      ELSE [unacked |-> unacked, unsent |-> unsent, told |-> 0, snd |-> t]
    BY <1>4 DEF Acked, AckedNothing
  <2>2. c \in Nat
    BY <1>1 DEF MinOf
  <2>. HIDE DEF c, duplicate
  <2>3. /\ k \in Senders /\ k.state = s.state /\ k.nxt = s.nxt /\ k.lastack = s.lastack
        /\ k.lbb = s.lbb /\ k.buf = s.buf /\ k.queuelen = s.queuelen /\ k.wnd = s.wnd
        /\ k.wl2 = s.wl2 /\ k.mss = s.mss /\ k.fin = s.fin /\ k.cwnd = s.cwnd
        /\ k.ssthresh = s.ssthresh /\ k.oversize = s.oversize
    BY <1>1, <2>2 DEF Senders
  <2>4. CASE duplicate /\ s.dupacks = 2
    <3>1. CASE unacked = <<>> \/ k.infr
      <4>1. Acked(m, s) = [unacked |-> unacked, unsent |-> unsent, told |-> 0, snd |-> k]
        BY <2>1, <2>4, <3>1 DEF FastRetransmit
      <4>. HIDE DEF k
      <4>. QED
        BY <1>1, <1>3, <2>3, <4>1
    <3>2. CASE ~(unacked = <<>> \/ k.infr)
      <4>1. Acked(m, s) = FastRetransmit(k) /\ k = [s EXCEPT !.dupacks = c]
        BY <2>1, <2>4
      <4>. HIDE DEF k
      <4>. QED
        BY <2>2, <3>2, <4>1, FastRetransmitKept
    <3>. QED
      BY <3>1, <3>2
  <2>5. CASE ~(duplicate /\ s.dupacks = 2)
    <3>. DEFINE x == s.cwnd + s.mss
                cw == Capped(x)
    <3>1. x \in Nat /\ s.mss <= x
      BY <1>1
    <3>2. cw \in 0 .. Wnd /\ s.mss <= cw
      <4>. HIDE DEF x
      <4>. QED
        BY <1>1, <3>1, CappedIs
    <3>3. k.cwnd + s.mss = x
      BY <2>3
    <3>4. t = k \/ t = [k EXCEPT !.cwnd = cw]
      BY <3>3
    <3>. HIDE DEF k, t, cw, x
    <3>5. /\ t \in Senders /\ t.state = s.state /\ t.nxt = s.nxt /\ t.lastack = s.lastack
          /\ t.lbb = s.lbb /\ t.buf = s.buf /\ t.queuelen = s.queuelen /\ t.wnd = s.wnd
          /\ t.wl2 = s.wl2 /\ t.mss = s.mss /\ t.fin = s.fin /\ t.mss <= t.cwnd
          /\ t.ssthresh = s.ssthresh /\ t.oversize = s.oversize
      <4>1. CASE t = k
        BY <1>1, <2>3, <4>1
      <4>2. CASE t = [k EXCEPT !.cwnd = cw]
        <5>1. t \in Senders
          BY <2>3, <3>2, <4>2 DEF Senders
        <5>2. /\ t.state = k.state /\ t.nxt = k.nxt /\ t.lastack = k.lastack
              /\ t.lbb = k.lbb /\ t.buf = k.buf /\ t.queuelen = k.queuelen /\ t.wnd = k.wnd
              /\ t.wl2 = k.wl2 /\ t.mss = k.mss /\ t.fin = k.fin /\ t.cwnd = cw
              /\ t.ssthresh = k.ssthresh /\ t.oversize = k.oversize
          BY <2>3, <4>2 DEF Senders
        <5>. QED
          BY <2>3, <3>2, <5>1, <5>2
      <4>. QED
        BY <3>4, <4>1, <4>2
    <3>6. Acked(m, s) = [unacked |-> unacked, unsent |-> unsent, told |-> 0, snd |-> t]
      BY <2>1, <2>5
    <3>. QED
      BY <1>1, <1>3, <3>5, <3>6
  <2>. QED
    BY <2>4, <2>5
<1>5. CASE ~Leq(m.ack, s.lastack)
  <2>1. ~Between(m.ack, Plus(s.lastack, 1), s.nxt)
    <3>1. /\ Near(m.ack) /\ Near(snd.lastack) /\ Near(snd.nxt)
      BY PlacesNear
    <3>2. ~(Off(m.ack) <= Off(snd.lastack))
      BY <1>1, <1>5, <3>1, LtNear
    <3>3. Off(m.ack) \in Nat /\ Off(snd.lastack) \in Nat /\ Off(snd.nxt) \in Nat
      BY PlacesNear
    <3>4. ~(Off(m.ack) <= Off(snd.nxt))
      BY <3>2, <3>3 DEF AcksNew
    <3>. QED
      BY <1>1, <3>1, <3>4, LtNear DEF Between
  <2>2. Acked(m, s) = [unacked |-> unacked, unsent |-> unsent, told |-> 0, snd |-> s]
    BY <1>5, <2>1 DEF Acked
  <2>. QED
    BY <1>1, <1>3, <2>2
<1>. QED
  BY <1>4, <1>5

(* The first k1 segments of unacked and the first k2 of unsent are cut     *)
(* from the queues by the ACK m.                                           *)
Reached(m, una) == Leading(una, {i \in DOMAIN una : Leq(SegEnd(una[i]), m.ack)})
CutAt(m, k1, k2) ==
  LET q == Outstanding
      n == Len(unacked)
      a == Off(m.ack)
      una == SubSeq(unacked, k1 + 1, Len(unacked))
      uns == SubSeq(unsent, k2 + 1, Len(unsent))
      u == una \o uns
  IN  /\ k1 \in 0 .. n /\ k2 \in 0 .. Len(unsent) /\ (k1 < n => k2 = 0)
      /\ k1 + k2 \in 0 .. Len(q)
      /\ \A i \in 1 .. k1 + k2 : EndOff(q[i]) <= a
      /\ k1 + k2 < Len(q) => a < EndOff(q[(k1 + k2) + 1])
      /\ una \in Seq(Segments) /\ uns \in Seq(Segments) /\ u \in Seq(Segments)
      /\ Len(una) = n - k1 /\ Len(uns) = Len(unsent) - k2
      /\ Len(u) = Len(q) - (k1 + k2)
      /\ \A i \in 1 .. Len(u) : u[i] = q[(k1 + k2) + i]
      /\ Pbufs(SubSeq(unacked, 1, k1)) \in Int /\ Pbufs(SubSeq(unsent, 1, k2)) \in Int
      /\ Pbufs(u) \in Int
      /\ Pbufs(q) = Pbufs(SubSeq(unacked, 1, k1)) + Pbufs(SubSeq(unsent, 1, k2)) + Pbufs(u)

(* How many of the queues an ACK of something new covers: k1 of unacked,   *)
(* and k2 of unsent when nothing of unacked is left.                       *)
LEMMA CutIs ==
  ASSUME IInv, Open, NEW m \in Acks, AckInv(m, snd, rcv), AcksNew(m),
         NEW k1, k1 = Reached(m, unacked), NEW k2, k2 = Covered(m, unsent, snd.nxt)
  PROVE  CutAt(m, k1, k2)
<1>. DEFINE q == Outstanding
            n == Len(unacked)
            l == Len(unsent)
            w == Len(written)
            a == Off(m.ack)
            gone1 == SubSeq(unacked, 1, k1)
            gone2 == SubSeq(unsent, 1, k2)
            una == SubSeq(unacked, k1 + 1, Len(unacked))
            uns == SubSeq(unsent, k2 + 1, Len(unsent))
            u == una \o uns
            k == k1 + k2
            S1 == {i \in DOMAIN unacked : Leq(SegEnd(unacked[i]), m.ack)}
            S2 == {i \in DOMAIN unsent : Between(m.ack, SegEnd(unsent[i]), snd.nxt)}
<1>1. /\ unacked \in Seq(Segments) /\ unsent \in Seq(Segments) /\ q \in Seq(Segments)
      /\ QueueInv(q, n, snd, w) /\ snd \in Senders /\ w \in 0 .. StreamLen
  BY WrittenType DEF IInv, TypeInv
<1>2. /\ Near(m.ack) /\ Near(snd.nxt)
      /\ a \in Nat /\ Off(snd.lastack) \in Nat /\ Off(snd.nxt) \in Nat
      /\ Off(snd.lastack) < a /\ a <= Off(snd.nxt)
  BY PlacesNear DEF AcksNew
<1>3. /\ Len(q) = n + l /\ n \in Nat /\ l \in Nat
      /\ \A i \in 1 .. n : q[i] = unacked[i]
      /\ \A i \in 1 .. l : q[n + i] = unsent[i]
  BY <1>1, Joined DEF Outstanding
<1>4. \A i \in 1 .. Len(q) : /\ Near(SegEnd(q[i])) /\ Off(SegEnd(q[i])) = EndOff(q[i])
                             /\ EndOff(q[i]) \in Nat /\ Off(q[i].seq) \in Nat
                             /\ Off(q[i].seq) < EndOff(q[i])
  <2>. HIDE DEF q, n, w
  <2>. QED
    BY <1>1, QueueOrdered
<1>5. \A i, j \in 1 .. Len(q) : i < j => EndOff(q[i]) <= Off(q[j].seq)
  <2>. HIDE DEF q, n, w
  <2>. QED
    BY <1>1 DEF QueueInv, Chain
<1>. HIDE DEF q, w, a
<1>6. k1 \in 0 .. n /\ (\A i \in 1 .. k1 : i \in S1) /\ (k1 < n => k1 + 1 \notin S1)
  <2>1. k1 = Leading(unacked, S1)
    BY DEF Reached
  <2>. HIDE DEF S1
  <2>. QED
    BY <1>1, <2>1, LeadingIs
<1>7. k2 \in 0 .. l /\ (\A i \in 1 .. k2 : i \in S2) /\ (k2 < l => k2 + 1 \notin S2)
  <2>1. k2 = Leading(unsent, S2)
    BY DEF Covered
  <2>. HIDE DEF S2
  <2>. QED
    BY <1>1, <2>1, LeadingIs
<1>. HIDE DEF n, l
<1>8. \A i \in 1 .. n : i \in 1 .. Len(q) /\ (i \in S1 <=> EndOff(q[i]) <= a)
  <2>1. ASSUME NEW i \in 1 .. n PROVE i \in 1 .. Len(q) /\ (i \in S1 <=> EndOff(q[i]) <= a)
    <3>1. i \in 1 .. Len(q) /\ q[i] = unacked[i]
      BY <1>3
    <3>2. i \in DOMAIN unacked
      BY <1>1 DEF n
    <3>3. Leq(SegEnd(q[i]), m.ack) <=> EndOff(q[i]) <= a
      BY <1>2, <1>4, <3>1, LtNear DEF a
    <3>. QED
      BY <3>1, <3>2, <3>3
  <2>. QED
    BY <2>1
<1>9. \A i \in 1 .. l : n + i \in 1 .. Len(q) /\ (i \in S2 <=> EndOff(q[n + i]) <= a)
  <2>1. ASSUME NEW i \in 1 .. l PROVE n + i \in 1 .. Len(q) /\ (i \in S2 <=> EndOff(q[n + i]) <= a)
    <3>1. n + i \in 1 .. Len(q) /\ q[n + i] = unsent[i]
      BY <1>3
    <3>2. i \in DOMAIN unsent
      BY <1>1 DEF l
    <3>3. Leq(SegEnd(q[n + i]), m.ack) <=> EndOff(q[n + i]) <= a
      BY <1>2, <1>4, <3>1, LtNear DEF a
    <3>4. Leq(m.ack, snd.nxt)
      BY <1>2, LtNear DEF a
    <3>. QED
      BY <3>1, <3>2, <3>3, <3>4 DEF Between
  <2>. QED
    BY <2>1
<1>. HIDE DEF S1, S2
<1>10. /\ \A i \in 1 .. k1 : EndOff(q[i]) <= a
       /\ k1 < n => k1 + 1 \in 1 .. Len(q) /\ a < EndOff(q[k1 + 1])
  <2>1. \A i \in 1 .. k1 : i \in 1 .. n
    BY <1>3, <1>6
  <2>2. k1 < n => k1 + 1 \in 1 .. n
    BY <1>3, <1>6
  <2>3. k1 < n => k1 + 1 \in 1 .. Len(q) /\ ~(EndOff(q[k1 + 1]) <= a)
    BY <1>6, <1>8, <2>2
  <2>4. k1 < n => EndOff(q[k1 + 1]) \in Nat
    BY <1>4, <2>3
  <2>. QED
    BY <1>2, <1>6, <1>8, <2>1, <2>3, <2>4
<1>11. /\ \A i \in 1 .. k2 : n + i \in 1 .. Len(q) /\ EndOff(q[n + i]) <= a
       /\ k2 < l => n + (k2 + 1) \in 1 .. Len(q) /\ a < EndOff(q[n + (k2 + 1)])
  <2>1. \A i \in 1 .. k2 : i \in 1 .. l
    BY <1>3, <1>7
  <2>2. k2 < l => k2 + 1 \in 1 .. l
    BY <1>3, <1>7
  <2>3. k2 < l => n + (k2 + 1) \in 1 .. Len(q) /\ ~(EndOff(q[n + (k2 + 1)]) <= a)
    BY <1>7, <1>9, <2>2
  <2>4. k2 < l => EndOff(q[n + (k2 + 1)]) \in Nat
    BY <1>4, <2>3
  <2>. QED
    BY <1>2, <1>7, <1>9, <2>1, <2>3, <2>4
<1>12. k1 < n => k2 = 0
  <2>1. SUFFICES ASSUME k1 < n, k2 # 0 PROVE FALSE
    OBVIOUS
  <2>2. 1 \in 1 .. k2
    BY <1>7, <2>1
  <2>3. n + 1 \in 1 .. Len(q) /\ EndOff(q[n + 1]) <= a
    BY <1>11, <2>2
  <2>4. k1 + 1 \in 1 .. Len(q) /\ a < EndOff(q[k1 + 1]) /\ k1 + 1 < n + 1
    BY <1>3, <1>6, <1>10, <2>1
  <2>5. EndOff(q[k1 + 1]) <= Off(q[n + 1].seq)
    BY <1>5, <2>3, <2>4
  <2>. QED
    BY <1>2, <1>4, <2>3, <2>4, <2>5
<1>13. k \in 0 .. Len(q) /\ k \in Nat /\ k1 \in Nat /\ k2 \in Nat
  BY <1>3, <1>6, <1>7
<1>14. ASSUME NEW i \in 1 .. k PROVE EndOff(q[i]) <= a
  <2>1. i \in 1 .. k1 \/ (i - n \in 1 .. k2 /\ n + (i - n) = i)
    BY <1>3, <1>6, <1>7, <1>12, <1>13
  <2>2. CASE i \in 1 .. k1
    BY <1>10, <2>2
  <2>3. CASE i - n \in 1 .. k2 /\ n + (i - n) = i
    <3>. DEFINE j == i - n
    <3>1. j \in 1 .. k2 /\ n + j = i
      BY <2>3
    <3>. HIDE DEF j
    <3>. QED
      BY <1>11, <3>1
  <2>. QED
    BY <2>1, <2>2, <2>3
<1>15. k < Len(q) => a < EndOff(q[k + 1])
  <2>1. SUFFICES ASSUME k < Len(q) PROVE a < EndOff(q[k + 1])
    OBVIOUS
  <2>2. CASE k1 < n
    <3>1. k + 1 = k1 + 1
      BY <1>12, <1>13, <2>2
    <3>. HIDE DEF k
    <3>. QED
      BY <1>10, <2>2, <3>1
  <2>3. CASE ~(k1 < n)
    <3>1. k2 < l /\ k + 1 = n + (k2 + 1)
      BY ONLY <1>3, <1>6, <1>7, <1>13, <2>1, <2>3
    <3>. HIDE DEF k
    <3>. QED
      BY <1>11, <3>1
  <2>. QED
    BY <2>2, <2>3
<1>16. /\ gone1 \in Seq(Segments)
       /\ una \in Seq(Segments) /\ Len(una) = n - k1
       /\ \A i \in 1 .. n - k1 : una[i] = unacked[k1 + i]
       /\ gone1 \o una = unacked
  <2>1. CutInTwo(Segments, unacked, k1, gone1, una)
    BY ONLY <1>1, <1>6, PartsAre DEF n
  <2>. HIDE DEF gone1, una
  <2>. QED
    BY ONLY <2>1 DEF CutInTwo, n
<1>17. /\ gone2 \in Seq(Segments)
       /\ uns \in Seq(Segments) /\ Len(uns) = l - k2
       /\ \A i \in 1 .. l - k2 : uns[i] = unsent[k2 + i]
       /\ gone2 \o uns = unsent
  <2>1. CutInTwo(Segments, unsent, k2, gone2, uns)
    BY ONLY <1>1, <1>7, PartsAre DEF l
  <2>. HIDE DEF gone2, uns
  <2>. QED
    BY ONLY <2>1 DEF CutInTwo, l
<1>. HIDE DEF gone1, gone2, una, uns
<1>18. /\ u \in Seq(Segments) /\ Len(u) = (n - k1) + (l - k2)
       /\ \A i \in 1 .. n - k1 : u[i] = una[i]
       /\ \A i \in 1 .. l - k2 : u[(n - k1) + i] = uns[i]
  <2>1. una \in Seq(Segments) /\ uns \in Seq(Segments)
    BY <1>16, <1>17
  <2>2. /\ una \o uns \in Seq(Segments) /\ Len(una \o uns) = Len(una) + Len(uns)
        /\ \A i \in 1 .. Len(una) : (una \o uns)[i] = una[i]
        /\ \A i \in 1 .. Len(uns) : (una \o uns)[Len(una) + i] = uns[i]
    BY ONLY <2>1, Joined
  <2>. DEFINE x == una \o uns
              a1 == n - k1
              a2 == l - k2
  <2>3. /\ x \in Seq(Segments) /\ Len(x) = Len(una) + Len(uns)
        /\ \A i \in 1 .. Len(una) : x[i] = una[i]
        /\ \A i \in 1 .. Len(uns) : x[Len(una) + i] = uns[i]
        /\ Len(una) = a1 /\ Len(uns) = a2
    BY <1>16, <1>17, <2>2
  <2>. HIDE DEF x, a1, a2
  <2>4. /\ x \in Seq(Segments) /\ Len(x) = a1 + a2
        /\ \A i \in 1 .. a1 : x[i] = una[i]
        /\ \A i \in 1 .. a2 : x[a1 + i] = uns[i]
    BY ONLY <2>3
  <2>. QED
    BY <2>4 DEF x, a1, a2
<1>. HIDE DEF u
<1>19. Len(u) = Len(q) - k
  BY <1>3, <1>13, <1>18
<1>20. ASSUME NEW i \in 1 .. Len(u) PROVE u[i] = q[k + i]
  <2>0. i \in Int
    OBVIOUS
  <2>1. i \in 1 .. n - k1 \/ i - (n - k1) \in 1 .. l - k2
    BY ONLY <1>3, <1>13, <1>18
  <2>2. CASE i \in 1 .. n - k1
    <3>1. k1 < n /\ k + i = k1 + i /\ k1 + i \in 1 .. n
      BY ONLY <1>3, <1>6, <1>12, <1>13, <2>2
    <3>2. u[i] = unacked[k1 + i]
      BY <1>16, <1>18, <2>2
    <3>. HIDE DEF k
    <3>. QED
      BY <1>3, <3>1, <3>2
  <2>3. CASE i - (n - k1) \in 1 .. l - k2
    <3>. DEFINE j == i - (n - k1)
    <3>1. j \in 1 .. l - k2 /\ (n - k1) + j = i /\ k2 + j \in 1 .. l /\ n + (k2 + j) = k + i
      <4>1. n \in Nat /\ l \in Nat /\ k1 \in Nat /\ k2 \in Nat /\ i \in Int
        BY ONLY <1>3, <1>13, <2>0
      <4>2. j \in 1 .. l - k2
        BY <2>3
      <4>. HIDE DEF n, l
      <4>. QED
        BY ONLY <4>1, <4>2
    <3>. HIDE DEF j, k
    <3>2. u[(n - k1) + j] = uns[j] /\ uns[j] = unsent[k2 + j]
      BY <1>17, <1>18, <3>1
    <3>3. q[n + (k2 + j)] = unsent[k2 + j]
      BY <1>3, <3>1
    <3>. QED
      BY <3>1, <3>2, <3>3
  <2>. QED
    BY <2>1, <2>2, <2>3
<1>21. /\ Pbufs(gone1) \in Int /\ Pbufs(gone2) \in Int /\ Pbufs(u) \in Int
       /\ Pbufs(q) = Pbufs(gone1) + Pbufs(gone2) + Pbufs(u)
  <2>1. /\ Pbufs(gone1) \in Int /\ Pbufs(gone2) \in Int /\ Pbufs(una) \in Int /\ Pbufs(uns) \in Int
    BY <1>16, <1>17, PbufsSum
  <2>2. /\ Pbufs(gone1 \o una) = Pbufs(gone1) + Pbufs(una)
        /\ Pbufs(gone2 \o uns) = Pbufs(gone2) + Pbufs(uns)
        /\ Pbufs(una \o uns) = Pbufs(una) + Pbufs(uns)
    BY <1>16, <1>17, PbufsSum
  <2>3. Pbufs(q) = Pbufs(unacked) + Pbufs(unsent)
    BY <1>1, PbufsSum DEF Outstanding, q
  <2>. QED
    BY <1>16, <1>17, <2>1, <2>2, <2>3 DEF u
<1>. QED
  BY <1>6, <1>7, <1>12, <1>13, <1>14, <1>15, <1>16, <1>17, <1>18, <1>19, <1>20, <1>21
     DEF q, n, l, a, gone1, gone2, una, uns, u, k, CutAt

(* The FINs of a queue.                                                    *)
LEMMA FinsIs ==
  ASSUME NEW q \in Seq(Segments)
  PROVE  /\ (\A i \in 1 .. Len(q) : ~q[i].fin) => Fins(q) = 0
         /\ \A j \in 1 .. Len(q) :
              q[j].fin /\ (\A i \in 1 .. Len(q) : q[i].fin => i = j) => Fins(q) = 1
<1>1. DOMAIN q = 1 .. Len(q)
  OBVIOUS
<1>2. ASSUME \A i \in 1 .. Len(q) : ~q[i].fin PROVE Fins(q) = 0
  <2>1. {i \in DOMAIN q : q[i].fin} = {}
    BY <1>1, <1>2
  <2>. QED
    BY <2>1, FS_EmptySet DEF Fins
<1>3. ASSUME NEW j \in 1 .. Len(q), q[j].fin, \A i \in 1 .. Len(q) : q[i].fin => i = j
      PROVE  Fins(q) = 1
  <2>1. {i \in DOMAIN q : q[i].fin} = {j}
    BY <1>1, <1>3
  <2>. QED
    BY <2>1, FS_Singleton DEF Fins
<1>. QED
  BY <1>2, <1>3

(* What is told of an ACK of something new is what it acknowledges of the  *)
(* bytes, and not the FIN.                                                 *)
LEMMA CutTold ==
  ASSUME IInv, Open, NEW m \in Acks, AckInv(m, snd, rcv), AcksNew(m),
         NEW k1, k1 = Reached(m, unacked), NEW k2, k2 = Covered(m, unsent, snd.nxt),
         NEW t1, t1 = Off(m.ack) - Off(snd.lastack) - Fins(SubSeq(unacked, 1, k1)),
         NEW t2, t2 = IF t1 = 0 THEN 0 ELSE t1 - Fins(SubSeq(unsent, 1, k2))
  PROVE  /\ t1 \in Int /\ t2 \in Int
         /\ sentTold + t2 = MinOf(Off(m.ack), Len(written))
<1>. DEFINE q == Outstanding
            n == Len(unacked)
            l == Len(unsent)
            w == Len(written)
            a == Off(m.ack)
            b == Off(snd.lastack)
            gone1 == SubSeq(unacked, 1, k1)
            gone2 == SubSeq(unsent, 1, k2)
            k == k1 + k2
<1>1. /\ unacked \in Seq(Segments) /\ unsent \in Seq(Segments) /\ q \in Seq(Segments)
      /\ QueueInv(q, n, snd, w) /\ snd \in Senders /\ w \in 0 .. StreamLen /\ w \in Nat
      /\ sentTold \in Int /\ sentTold = MinOf(b, w)
  BY WrittenType DEF IInv, TypeInv, SentExact, Off
<1>2. /\ a \in Nat /\ b \in Nat /\ Off(snd.nxt) \in Nat /\ Fin(snd) \in {0, 1}
      /\ b < a /\ a <= Off(snd.nxt) /\ Off(snd.nxt) <= w + Fin(snd)
  BY PlacesNear DEF AcksNew
<1>3. /\ Len(q) = n + l /\ n \in Nat /\ l \in Nat
      /\ \A i \in 1 .. n : q[i] = unacked[i]
      /\ \A i \in 1 .. l : q[n + i] = unsent[i]
  BY <1>1, Joined DEF Outstanding
<1>4. /\ k1 \in 0 .. n /\ k2 \in 0 .. l /\ (k1 < n => k2 = 0)
      /\ \A i \in 1 .. k : EndOff(q[i]) <= a
      /\ k < Len(q) => a < EndOff(q[k + 1])
  <2>1. CutAt(m, k1, k2)
    BY CutIs
  <2>. QED
    BY <2>1 DEF CutAt
<1>5. /\ \A i \in 1 .. Len(q) : /\ EndOff(q[i]) <= w + Fin(snd) /\ EndOff(q[i]) \in Nat
                                /\ BytesEnd(q[i]) \in Nat /\ Off(q[i].seq) \in Nat
                                /\ Off(q[i].seq) < EndOff(q[i])
  <2>. HIDE DEF q, n, w
  <2>. QED
    BY <1>1, QueueOrdered
<1>6. \A i \in 1 .. Len(q) : q[i].fin => EndOff(q[i]) = w + 1 /\ i = Len(q) /\ Fin(snd) = 1
  <2>1. ASSUME NEW i \in 1 .. Len(q), q[i].fin
        PROVE  EndOff(q[i]) = w + 1 /\ i = Len(q) /\ Fin(snd) = 1
    <3>. HIDE DEF q, n, w
    <3>1. snd.fin /\ BytesEnd(q[i]) = w
      BY <1>1, <2>1 DEF QueueInv, Holds
    <3>2. q[i] \in Segments \cup Packets
      BY <1>1, ElementOfSeq
    <3>3. EndOff(q[i]) = w + 1
      BY <2>1, <3>1, <3>2, SegEndOff
    <3>4. Fin(snd) = 1
      BY <3>1 DEF Fin
    <3>5. ASSUME i # Len(q) PROVE FALSE
      <4>1. Len(q) \in Nat /\ i < Len(q) /\ Len(q) \in 1 .. Len(q)
        BY <1>1, <3>5
      <4>2. EndOff(q[i]) <= Off(q[Len(q)].seq)
        BY <1>1, <4>1 DEF QueueInv, Chain
      <4>3. /\ Off(q[Len(q)].seq) < EndOff(q[Len(q)]) /\ EndOff(q[Len(q)]) <= w + 1
            /\ Off(q[Len(q)].seq) \in Nat /\ EndOff(q[Len(q)]) \in Nat
        BY <1>5, <3>4, <4>1
      <4>. QED
        BY <1>1, <3>3, <4>2, <4>3
    <3>. QED
      BY <3>3, <3>4, <3>5
  <2>. QED
    BY <2>1
<1>7. /\ gone1 \in Seq(Segments) /\ Len(gone1) = k1
      /\ \A i \in 1 .. k1 : i \in 1 .. k /\ i \in 1 .. Len(q) /\ gone1[i] = q[i]
  <2>1. /\ gone1 \in Seq(Segments) /\ Len(gone1) = k1
        /\ \A i \in 1 .. k1 : gone1[i] = unacked[i]
    BY ONLY <1>1, <1>4, Parts
  <2>. HIDE DEF gone1, q, n, l
  <2>2. \A i \in 1 .. k1 : i \in 1 .. k /\ i \in 1 .. Len(q) /\ i \in 1 .. n
    BY <1>3, <1>4
  <2>. QED
    BY <1>3, <2>1, <2>2
<1>8. /\ gone2 \in Seq(Segments) /\ Len(gone2) = k2
      /\ \A i \in 1 .. k2 : n + i \in 1 .. k /\ n + i \in 1 .. Len(q) /\ gone2[i] = q[n + i]
  <2>1. /\ gone2 \in Seq(Segments) /\ Len(gone2) = k2
        /\ \A i \in 1 .. k2 : gone2[i] = unsent[i]
    BY ONLY <1>1, <1>4, Parts
  <2>. HIDE DEF gone2, q, n, l
  <2>2. \A i \in 1 .. k2 : n + i \in 1 .. k /\ n + i \in 1 .. Len(q) /\ i \in 1 .. l
    BY <1>3, <1>4
  <2>. QED
    BY <1>3, <2>1, <2>2
<1>9. /\ (\A i \in 1 .. k1 : ~gone1[i].fin) => Fins(gone1) = 0
      /\ \A j \in 1 .. k1 : gone1[j].fin /\ (\A i \in 1 .. k1 : gone1[i].fin => i = j) => Fins(gone1) = 1
      /\ (\A i \in 1 .. k2 : ~gone2[i].fin) => Fins(gone2) = 0
      /\ \A j \in 1 .. k2 : gone2[j].fin /\ (\A i \in 1 .. k2 : gone2[i].fin => i = j) => Fins(gone2) = 1
  <2>. HIDE DEF gone1, gone2
  <2>. QED
    BY <1>7, <1>8, FinsIs
<1>10. t1 = a - b - Fins(gone1) /\ t2 = IF t1 = 0 THEN 0 ELSE t1 - Fins(gone2)
  OBVIOUS
<1>. HIDE DEF q, w, a, b, gone1, gone2
<1>11. CASE a <= w
  <2>1. \A i \in 1 .. k1 : ~gone1[i].fin
    <3>1. ASSUME NEW i \in 1 .. k1, gone1[i].fin PROVE FALSE
      <4>1. i \in 1 .. k /\ i \in 1 .. Len(q) /\ q[i].fin
        BY <1>7, <3>1
      <4>2. EndOff(q[i]) = w + 1 /\ EndOff(q[i]) <= a
        BY <1>4, <1>6, <4>1
      <4>. QED
        BY <1>1, <1>2, <1>11, <4>2
    <3>. QED
      BY <3>1
  <2>2. \A i \in 1 .. k2 : ~gone2[i].fin
    <3>1. ASSUME NEW i \in 1 .. k2, gone2[i].fin PROVE FALSE
      <4>. DEFINE j == n + i
      <4>1. j \in 1 .. k /\ j \in 1 .. Len(q) /\ q[j].fin
        BY <1>8, <3>1
      <4>. HIDE DEF j
      <4>2. EndOff(q[j]) = w + 1 /\ EndOff(q[j]) <= a
        BY <1>4, <1>6, <4>1
      <4>. QED
        BY <1>1, <1>2, <1>11, <4>2
    <3>. QED
      BY <3>1
  <2>3. t1 = a - b /\ t2 = a - b
    BY <1>2, <1>9, <1>10, <2>1, <2>2
  <2>4. sentTold = b /\ MinOf(a, w) = a
    BY <1>1, <1>2, <1>11 DEF MinOf
  <2>. QED
    BY <1>2, <2>3, <2>4 DEF a, w
<1>12. CASE ~(a <= w)
  <2>1. a = w + 1 /\ Fin(snd) = 1 /\ b <= w /\ MinOf(a, w) = w /\ sentTold = b
    BY <1>1, <1>2, <1>12 DEF MinOf
  <2>2. Len(q) \in Nat /\ Len(q) # 0 /\ Len(q) \in 1 .. Len(q)
    <3>1. q = <<>> => b = w + Fin(snd)
      BY <1>1 DEF QueueInv, b
    <3>2. q # <<>>
      BY <1>1, <1>2, <2>1, <3>1
    <3>. QED
      BY <1>1, <3>2, EmptySeq
  <2>3. k = Len(q)
    <3>1. k \in Nat /\ k <= Len(q)
      BY <1>3, <1>4
    <3>. HIDE DEF k
    <3>2. ASSUME k < Len(q) PROVE FALSE
      <4>1. k + 1 \in 1 .. Len(q) /\ a < EndOff(q[k + 1])
        BY <1>4, <2>2, <3>1, <3>2
      <4>. DEFINE j == k + 1
      <4>2. j \in 1 .. Len(q) /\ a < EndOff(q[j])
        BY <4>1
      <4>. HIDE DEF j
      <4>3. EndOff(q[j]) <= w + 1 /\ EndOff(q[j]) \in Nat
        BY <1>5, <2>1, <4>2
      <4>. QED
        BY <1>1, <2>1, <4>2, <4>3
    <3>. QED
      BY <2>2, <3>1, <3>2
  <2>4. q[Len(q)].fin
    <3>1. EndOff(q[Len(q)]) = w + 1 /\ BytesEnd(q[Len(q)]) <= w
      <4>1. q # <<>>
        BY <2>2
      <4>. QED
        BY <1>1, <2>1, <2>2, <4>1 DEF QueueInv, Holds
    <3>2. q[Len(q)] \in Segments \cup Packets
      BY <1>1, <2>2, ElementOfSeq
    <3>3. EndOff(q[Len(q)]) = BytesEnd(q[Len(q)]) + (IF q[Len(q)].fin THEN 1 ELSE 0) /\ BytesEnd(q[Len(q)]) \in Nat
      BY <3>2, SegEndOff
    <3>. DEFINE x == BytesEnd(q[Len(q)])
    <3>4. x \in Nat /\ x <= w /\ w + 1 = x + (IF q[Len(q)].fin THEN 1 ELSE 0)
      BY <3>1, <3>3
    <3>. HIDE DEF x
    <3>5. ASSUME ~q[Len(q)].fin PROVE FALSE
      <4>1. w + 1 = x + 0
        BY <3>4, <3>5
      <4>. QED
        BY <1>1, <3>4, <4>1
    <3>. QED
      BY <3>5
  <2>5. CASE l = 0
    <3>1. k2 = 0 /\ k1 = Len(q) /\ k1 \in 1 .. k1
      BY <1>3, <1>4, <2>2, <2>3, <2>5
    <3>2. Fins(gone1) = 1
      <4>1. gone1[k1].fin /\ \A i \in 1 .. k1 : gone1[i].fin => i = k1
        BY <1>6, <1>7, <2>4, <3>1
      <4>. QED
        BY <1>9, <3>1, <4>1
    <3>3. Fins(gone2) = 0
      BY ONLY <1>9, <3>1
    <3>4. t1 = a - b - 1 /\ t2 = a - b - 1
      BY <1>2, <1>10, <3>2, <3>3
    <3>. QED
      BY <1>1, <1>2, <2>1, <3>4 DEF a, w
  <2>6. CASE l # 0
    <3>1. k1 = n /\ k2 = l /\ l \in 1 .. k2 /\ n + l = Len(q)
      BY <1>3, <1>4, <2>3, <2>6
    <3>2. Fins(gone1) = 0
      <4>1. ASSUME NEW i \in 1 .. k1, gone1[i].fin PROVE FALSE
        <5>1. i = Len(q)
          BY <1>6, <1>7, <4>1
        <5>. QED
          BY ONLY <1>3, <2>6, <3>1, <5>1
      <4>. QED
        BY <1>9, <4>1
    <3>3. Fins(gone2) = 1
      <4>1. gone2[l].fin
        BY <1>8, <2>4, <3>1
      <4>2. ASSUME NEW i \in 1 .. k2, gone2[i].fin PROVE i = l
        <5>. DEFINE j == n + i
        <5>1. j \in 1 .. Len(q) /\ gone2[i] = q[j]
          BY <1>8
        <5>. HIDE DEF j
        <5>2. j = Len(q)
          BY <1>6, <4>2, <5>1
        <5>. QED
          BY <1>3, <5>2 DEF j
      <4>. QED
        BY <1>9, <3>1, <4>1, <4>2
    <3>4. t1 = a - b /\ t2 = a - b - 1
      BY <1>2, <1>10, <3>2, <3>3
    <3>. QED
      BY ONLY <1>1, <1>2, <2>1, <3>4 DEF a, w
  <2>. QED
    BY <2>5, <2>6
<1>. QED
  BY <1>11, <1>12

(* An ACK of something new.                                                *)
LEMMA NewKept ==
  ASSUME IInv, Open, NEW m \in Acks, AckInv(m, snd, rcv), AcksNew(m),
         NEW s, s = WindowUpdated(m)
  PROVE  AckKept(AckedUnsent(m, Acked(m, s)), s)
<1>. DEFINE q == Outstanding
            n == Len(unacked)
            w == Len(written)
            a == Off(m.ack)
            k1 == Leading(unacked, {i \in DOMAIN unacked : Leq(SegEnd(unacked[i]), m.ack)})
            k2 == Leading(unsent, {i \in DOMAIN unsent : Between(m.ack, SegEnd(unsent[i]), snd.nxt)})
            gone1 == SubSeq(unacked, 1, k1)
            gone2 == SubSeq(unsent, 1, k2)
            una == SubSeq(unacked, k1 + 1, Len(unacked))
            uns == SubSeq(unsent, k2 + 1, Len(unsent))
            u == una \o uns
            k == k1 + k2
            acked == Minus(m.ack, s.lastack)
            cwnd == IF s.infr THEN s.ssthresh ELSE s.cwnd
            inc == IF cwnd < s.ssthresh THEN s.mss ELSE (s.mss * s.mss) \div cwnd
            t1 == acked - Fins(gone1)
            t2 == IF t1 = 0 THEN 0 ELSE t1 - Fins(gone2)
            t == [s EXCEPT
                   !.infr = FALSE, !.nrtx = 0, !.dupacks = 0, !.lastack = m.ack,
                   !.buf = @ + acked, !.queuelen = @ - Pbufs(gone1),
                   !.timed = una # <<>>, !.cwnd = Capped(cwnd + inc)]
            p == [unacked |-> una, unsent |-> unsent, told |-> t1, snd |-> t]
            f == AckedUnsent(m, p)
<1>1. /\ s \in Senders /\ s.state = snd.state /\ s.nxt = snd.nxt
      /\ s.lastack = snd.lastack /\ s.lbb = snd.lbb /\ s.buf = snd.buf
      /\ s.mss = snd.mss /\ s.cwnd = snd.cwnd /\ s.ssthresh = snd.ssthresh
      /\ s.fin = snd.fin /\ s.oversize = snd.oversize /\ s.queuelen = snd.queuelen
      /\ a <= Off(s.wl2) /\ Off(snd.wl2) <= Off(s.wl2)
      /\ Off(s.wl2) <= Off(rcv.nxt) /\ Off(s.wl2) + s.wnd <= Off(rcv.edge)
      /\ \/ snd.wnd <= s.wnd
         \/ /\ Off(snd.wl2) < a
            /\ Off(snd.wl2) + snd.wnd <= a + s.wnd
  BY WindowIs
<1>2. /\ unacked \in Seq(Segments) /\ unsent \in Seq(Segments) /\ q \in Seq(Segments)
      /\ QueueInv(q, n, snd, w) /\ snd \in Senders /\ w \in 0 .. StreamLen /\ w \in Nat
      /\ SenderInv(snd, w, rcv)
  BY WrittenType DEF IInv, TypeInv
<1>3. /\ Near(m.ack) /\ Near(snd.lastack) /\ Near(snd.nxt)
      /\ a \in Nat /\ Off(snd.lastack) \in Nat /\ Off(snd.nxt) \in Nat /\ Fin(snd) \in {0, 1}
      /\ Off(snd.wl2) \in Nat /\ Off(snd.lastack) <= Off(snd.wl2)
      /\ Off(snd.lastack) < a /\ a <= Off(snd.nxt) /\ Off(snd.nxt) <= w + Fin(snd)
  BY PlacesNear DEF AcksNew
<1>4. Acked(m, s) = AckedNew(m, s)
  <2>1. ~Leq(m.ack, s.lastack)
    <3>1. ~(Off(m.ack) <= Off(snd.lastack))
      BY <1>3
    <3>. QED
      BY <1>1, <1>3, <3>1, LtNear
  <2>2. Leq(m.ack, s.nxt)
    BY <1>1, <1>3, LtNear
  <2>3. Leq(Plus(s.lastack, 1), m.ack)
    <3>1. s.lastack \in Seqs /\ Off(s.lastack) + 1 <= StreamLen + Wnd + 1
      <4>1. s.lastack \in Seqs
        BY <1>1, SenderType
      <4>2. Off(s.lastack) < w + 1
        BY <1>1, <1>2, <1>3
      <4>. QED
        BY <1>1, <1>2, <1>3, <4>1, <4>2, Constants
    <3>2. Off(s.lastack) + 1 < SeqModulus /\ 1 \in Nat
      BY <1>1, <1>3, <3>1, Constants
    <3>3. Plus(s.lastack, 1) \in Seqs /\ Off(Plus(s.lastack, 1)) = Off(s.lastack) + 1
      BY <3>1, <3>2, PlusOff
    <3>4. Near(Plus(s.lastack, 1))
      BY <3>1, <3>3 DEF Near
    <3>5. Off(Plus(s.lastack, 1)) <= Off(m.ack)
      BY <1>1, <1>3, <3>3
    <3>. QED
      BY <1>3, <3>4, <3>5, LtNear
  <2>. QED
    BY <2>1, <2>2, <2>3 DEF Acked, Between
<1>5. AckedNew(m, s) = p
  BY DEF AckedNew
<1>. HIDE DEF p
<1>6. acked = a - Off(snd.lastack) /\ acked \in Int
  <2>1. m.ack \in Seqs /\ s.lastack \in Seqs
    BY <1>3, <1>1, SenderType DEF Near
  <2>2. Minus(m.ack, s.lastack) = Off(m.ack) - Off(s.lastack)
    BY <1>1, <1>3, <2>1, MinusOff
  <2>. QED
    BY <1>1, <1>3, <2>2
<1>7. /\ k1 \in 0 .. n /\ k2 \in 0 .. Len(unsent) /\ (k1 < n => k2 = 0)
      /\ k \in 0 .. Len(q)
      /\ \A i \in 1 .. k : EndOff(q[i]) <= a
      /\ k < Len(q) => a < EndOff(q[k + 1])
      /\ una \in Seq(Segments) /\ uns \in Seq(Segments) /\ u \in Seq(Segments)
      /\ Len(una) = n - k1 /\ Len(uns) = Len(unsent) - k2
      /\ Len(u) = Len(q) - k
      /\ \A i \in 1 .. Len(u) : u[i] = q[k + i]
      /\ Pbufs(gone1) \in Int /\ Pbufs(gone2) \in Int /\ Pbufs(u) \in Int
      /\ Pbufs(q) = Pbufs(gone1) + Pbufs(gone2) + Pbufs(u)
  <2>. HIDE DEF k1, k2
  <2>1. k1 = Reached(m, unacked) /\ k2 = Covered(m, unsent, snd.nxt)
    BY DEF k1, k2, Reached, Covered
  <2>2. CutAt(m, k1, k2)
    BY <2>1, CutIs
  <2>. QED
    BY <2>2 DEF CutAt
<1>8. t1 \in Int /\ t2 \in Int /\ sentTold + t2 = MinOf(a, w)
  <2>1. k1 = Reached(m, unacked) /\ k2 = Covered(m, unsent, snd.nxt)
    BY DEF Reached, Covered
  <2>. HIDE DEF k1, k2
  <2>2. t1 = Off(m.ack) - Off(snd.lastack) - Fins(SubSeq(unacked, 1, k1))
    BY <1>6
  <2>3. t2 = IF t1 = 0 THEN 0 ELSE t1 - Fins(SubSeq(unsent, 1, k2))
    OBVIOUS
  <2>. HIDE DEF t1, t2
  <2>. QED
    BY <2>1, <2>2, <2>3, CutTold
<1>9. Capped(cwnd + inc) \in 0 .. Wnd /\ s.mss <= Capped(cwnd + inc)
  <2>1. s.mss \in Nat /\ 1 <= s.mss /\ s.cwnd \in Nat /\ s.ssthresh \in Nat
    BY <1>1, SenderType
  <2>2. s.mss <= s.cwnd /\ s.mss <= s.ssthresh
    BY <1>1, <1>2 DEF SenderInv
  <2>3. cwnd \in Nat /\ s.mss <= cwnd /\ cwnd # 0
    BY <2>1, <2>2
  <2>. HIDE DEF cwnd
  <2>4. inc \in Nat
    <3>1. s.mss * s.mss \in Nat
      BY <2>1
    <3>. DEFINE y == s.mss * s.mss
    <3>2. y \in Nat
      BY <3>1
    <3>3. inc = IF cwnd < s.ssthresh THEN s.mss ELSE y \div cwnd
      OBVIOUS
    <3>. HIDE DEF y, inc
    <3>4. y \div cwnd \in Nat
      BY <2>3, <3>2
    <3>. QED
      BY <2>1, <3>3, <3>4
  <2>. HIDE DEF inc
  <2>. DEFINE y == cwnd + inc
  <2>5. y \in Nat /\ s.mss <= y
    BY <2>1, <2>3, <2>4
  <2>. HIDE DEF y
  <2>6. Capped(y) \in 0 .. Wnd /\ s.mss <= Capped(y)
    BY <1>1, <2>5, CappedIs
  <2>. QED
    BY <2>6 DEF y
<1>10. /\ t \in Senders /\ t.state = s.state /\ t.nxt = s.nxt /\ t.lastack = m.ack
       /\ t.lbb = s.lbb /\ t.buf = s.buf + acked /\ t.queuelen = s.queuelen - Pbufs(gone1)
       /\ t.wnd = s.wnd /\ t.wl2 = s.wl2 /\ t.mss = s.mss /\ t.fin = s.fin
       /\ t.mss <= t.cwnd /\ t.ssthresh = s.ssthresh /\ t.oversize = s.oversize
  <2>. DEFINE zero == 0
              x == s.buf + acked
              y == s.queuelen - Pbufs(gone1)
              z == una # <<>>
              c == Capped(cwnd + inc)
  <2>1. zero \in Nat /\ zero \in Int /\ x \in Int /\ y \in Int /\ z \in BOOLEAN /\ m.ack \in Seqs /\ c \in 0 .. Wnd
    <3>1. s.buf \in Int /\ s.queuelen \in Int
      BY <1>1, SenderType
    <3>2. m.ack \in Seqs
      BY <1>3 DEF Near
    <3>3. Pbufs(gone1) \in Int
      BY <1>7
    <3>. HIDE DEF acked
    <3>4. acked \in Int
      BY <1>6
    <3>. QED
      BY <1>9, <3>1, <3>2, <3>3, <3>4
  <2>2. t = [s EXCEPT !.infr = FALSE, !.nrtx = zero, !.dupacks = zero, !.lastack = m.ack,
                      !.buf = x, !.queuelen = y, !.timed = z, !.cwnd = c]
    OBVIOUS
  <2>3. s.mss <= c
    BY <1>9
  <2>. HIDE DEF t, zero, x, y, z, c
  <2>4. t \in Senders
    BY ONLY <1>1, <2>1, <2>2 DEF Senders
  <2>5. /\ t.state = s.state /\ t.nxt = s.nxt /\ t.lastack = m.ack
        /\ t.lbb = s.lbb /\ t.buf = x /\ t.queuelen = y
        /\ t.wnd = s.wnd /\ t.wl2 = s.wl2 /\ t.mss = s.mss /\ t.fin = s.fin
        /\ t.cwnd = c /\ t.ssthresh = s.ssthresh /\ t.oversize = s.oversize
    BY <1>1, <2>1, <2>2 DEF Senders
  <2>. QED
    BY <2>3, <2>4, <2>5 DEF x, y
<1>. HIDE DEF t
<1>11. /\ f.unacked = una /\ f.unsent = uns /\ f.told = t2
       /\ f.snd = [t EXCEPT !.queuelen = @ - Pbufs(gone2),
                            !.oversize = IF uns = <<>> /\ k2 > 0 THEN 0 ELSE @]
  <2>1. k2 = Covered(m, unsent, t.nxt)
    BY <1>1, <1>10 DEF Covered
  <2>2. p = Batch(una, unsent, t1, t)
    BY DEF p, Batch
  <2>3. una \in Seq(Segments) /\ t1 \in Int /\ unsent \in Seq(Segments) /\ t \in Senders
    BY <1>2, <1>7, <1>8, <1>10
  <2>. HIDE DEF k2, una, t1, f
  <2>4. LeftAfter(AckedUnsent(m, p), una, unsent, t1, t, k2)
    BY ONLY <2>1, <2>2, <2>3, AckedUnsentIs
  <2>. QED
    BY <2>4 DEF LeftAfter, f
<1>. DEFINE ov == IF uns = <<>> /\ k2 > 0 THEN 0 ELSE t.oversize
            x == f.snd
<1>12. /\ x \in Senders /\ x.state = s.state /\ x.nxt = s.nxt /\ x.lastack = m.ack
       /\ x.lbb = s.lbb /\ x.buf = s.buf + acked /\ x.queuelen = Pbufs(u)
       /\ x.wnd = s.wnd /\ x.wl2 = s.wl2 /\ x.mss = s.mss /\ x.fin = s.fin
       /\ x.mss <= x.cwnd /\ x.ssthresh = s.ssthresh /\ x.oversize = ov
  <2>. DEFINE y == t.queuelen - Pbufs(gone2)
  <2>1. y = Pbufs(u) /\ y \in Int
    <3>1. s.queuelen = Pbufs(q)
      BY <1>1, <1>2, QueueIs
    <3>2. /\ Pbufs(gone1) \in Int /\ Pbufs(gone2) \in Int /\ Pbufs(u) \in Int
          /\ Pbufs(q) = Pbufs(gone1) + Pbufs(gone2) + Pbufs(u)
      BY <1>7
    <3>3. t.queuelen = s.queuelen - Pbufs(gone1)
      BY <1>10
    <3>. HIDE DEF gone1, gone2, u, q
    <3>. QED
      BY <3>1, <3>2, <3>3
  <2>2. ov \in Int
    BY <1>10, SenderType
  <2>3. x = [t EXCEPT !.queuelen = y, !.oversize = ov]
    BY <1>11
  <2>. HIDE DEF x, y, ov
  <2>4. x \in Senders
    BY <1>10, <2>1, <2>2, <2>3 DEF Senders
  <2>5. /\ x.state = t.state /\ x.nxt = t.nxt /\ x.lastack = t.lastack
        /\ x.lbb = t.lbb /\ x.buf = t.buf /\ x.queuelen = y
        /\ x.wnd = t.wnd /\ x.wl2 = t.wl2 /\ x.mss = t.mss /\ x.fin = t.fin
        /\ x.cwnd = t.cwnd /\ x.ssthresh = t.ssthresh /\ x.oversize = ov
    BY <1>10, <2>1, <2>2, <2>3 DEF Senders
  <2>. QED
    BY <1>10, <2>1, <2>4, <2>5
<1>. HIDE DEF x
<1>13. /\ una = SubSeq(u, 1, n - k1) /\ uns = SubSeq(u, (n - k1) + 1, Len(u))
       /\ n - k1 \in 0 .. Len(u)
       /\ (uns = <<>> <=> n - k1 = Len(u))
  <2>1. una \in Seq(Segments) /\ uns \in Seq(Segments) /\ Len(una) = n - k1
    BY <1>7
  <2>. HIDE DEF una, uns, n, k1
  <2>2. /\ una = SubSeq(u, 1, Len(una)) /\ uns = SubSeq(u, Len(una) + 1, Len(u))
        /\ Len(una) \in 0 .. Len(u) /\ Len(u) = Len(una) + Len(uns)
        /\ Len(una) \in Nat /\ Len(uns) \in Nat
    BY ONLY <2>1, Joined
  <2>3. uns = <<>> <=> Len(uns) = 0
    BY <2>1, EmptySeq
  <2>. HIDE DEF u
  <2>. QED
    BY ONLY <2>1, <2>2, <2>3
<1>. HIDE DEF u, una, uns, k1, k2, gone1, gone2, n, w, q, ov, acked
<1>14. SplitAt(u, n - k1, f.unacked, f.unsent, x)
  BY <1>11, <1>13 DEF SplitAt
<1>15. Fin(x) = Fin(snd)
  BY <1>1, <1>12 DEF Fin
<1>16. /\ Len(q) \in Nat /\ k \in Nat /\ k <= Len(q) /\ Len(u) = Len(q) - k
       /\ \A i \in 1 .. Len(u) : k + i \in 1 .. Len(q) /\ u[i] = q[k + i]
       /\ n \in Nat /\ n <= Len(q) /\ k1 \in Nat /\ k1 <= n /\ (k1 < n => k = k1)
  <2>1. Len(q) \in Nat /\ k \in Nat /\ k <= Len(q) /\ Len(u) = Len(q) - k
    <3>. HIDE DEF k
    <3>. QED
      BY <1>2, <1>7
  <2>2. n \in Nat /\ n <= Len(q)
    BY WrittenType DEF n, q
  <2>3. k1 \in Nat /\ k1 <= n /\ (k1 < n => k = k1)
    BY <1>7, <2>2
  <2>. HIDE DEF k
  <2>4. \A i \in 1 .. Len(u) : k + i \in 1 .. Len(q) /\ u[i] = q[k + i]
    BY <1>7, <2>1
  <2>. QED
    BY <2>1, <2>2, <2>3, <2>4
<1>17. Core(u, n - k1, x, w)
  <2>. HIDE DEF k
  <2>1. \A i \in 1 .. Len(u) : Holds(u[i], x, w) /\ SegLen(u[i]) <= x.mss
    <3>1. \A j \in 1 .. Len(q) : Holds(q[j], snd, w) /\ SegLen(q[j]) <= snd.mss
      BY <1>2 DEF QueueInv
    <3>. QED
      BY <1>1, <1>12, <1>16, <3>1 DEF Holds
  <2>2. Chain(u)
    <3>1. Chain(q)
      BY <1>2 DEF QueueInv
    <3>2. ASSUME NEW i \in 1 .. Len(u) - 1 PROVE EndOff(u[i]) = Off(u[i + 1].seq)
      <4>1. i \in 1 .. Len(u) /\ i + 1 \in 1 .. Len(u) /\ k + i \in 1 .. Len(q) - 1 /\ k + (i + 1) = (k + i) + 1
        BY <1>16
      <4>2. u[i] = q[k + i] /\ u[i + 1] = q[(k + i) + 1]
        BY ONLY <1>16, <4>1
      <4>. QED
        BY <3>1, <4>1, <4>2 DEF Chain
    <3>3. ASSUME NEW i \in 1 .. Len(u), NEW j \in 1 .. Len(u), i < j PROVE EndOff(u[i]) <= Off(u[j].seq)
      <4>1. k + i \in 1 .. Len(q) /\ k + j \in 1 .. Len(q) /\ k + i < k + j
        BY <1>16, <3>3
      <4>2. u[i] = q[k + i] /\ u[j] = q[k + j]
        BY <1>16
      <4>. QED
        BY <3>1, <4>1, <4>2 DEF Chain
    <3>. QED
      BY <3>2, <3>3 DEF Chain
  <2>3. u = <<>> => Off(x.lastack) = w + Fin(x)
    <3>1. SUFFICES ASSUME u = <<>> PROVE Off(x.lastack) = w + Fin(x)
      OBVIOUS
    <3>2. Len(u) = 0
      BY <3>1
    <3>3. k = Len(q)
      BY <1>16, <3>2
    <3>4. a = w + Fin(snd)
      <4>1. CASE q = <<>>
        <5>1. Off(snd.lastack) = w + Fin(snd)
          BY <1>2, <4>1 DEF QueueInv
        <5>. QED
          BY <1>2, <1>3, <5>1
      <4>2. CASE q # <<>>
        <5>1. Len(q) \in 1 .. k
          <6>1. Len(q) # 0
            BY <1>2, <4>2, EmptySeq
          <6>. QED
            BY <1>16, <3>3, <6>1
        <5>2. EndOff(q[Len(q)]) = w + Fin(snd) /\ EndOff(q[Len(q)]) <= a
          BY <1>2, <1>7, <4>2, <5>1 DEF QueueInv
        <5>3. /\ a \in Nat /\ Fin(snd) \in {0, 1} /\ w \in Nat
              /\ a <= Off(snd.nxt) /\ Off(snd.nxt) <= w + Fin(snd) /\ Off(snd.nxt) \in Nat
          BY ONLY <1>2, <1>3
        <5>. DEFINE y == w + Fin(snd)
                    z == Off(snd.nxt)
        <5>4. y <= a /\ a <= z /\ z <= y /\ y \in Int /\ a \in Int /\ z \in Int
          BY ONLY <5>2, <5>3
        <5>. HIDE DEF a, y, z
        <5>5. a = y
          BY ONLY <5>4
        <5>. QED
          BY ONLY <5>5 DEF y
      <4>. QED
        BY <4>1, <4>2
    <3>. QED
      BY <1>12, <1>15, <3>4
  <2>4. u # <<>> => /\ Off(u[1].seq) <= Off(x.lastack) /\ Off(x.lastack) < EndOff(u[1])
                    /\ EndOff(u[Len(u)]) = w + Fin(x)
    <3>1. SUFFICES ASSUME u # <<>>
                   PROVE /\ Off(u[1].seq) <= Off(x.lastack) /\ Off(x.lastack) < EndOff(u[1])
                         /\ EndOff(u[Len(u)]) = w + Fin(x)
      OBVIOUS
    <3>2. Len(u) # 0
      BY <1>7, <3>1, EmptySeq
    <3>3. 1 \in 1 .. Len(u) /\ Len(u) \in 1 .. Len(u) /\ k < Len(q) /\ k + Len(u) = Len(q)
          /\ k + 1 \in 1 .. Len(q) /\ Len(q) # 0 /\ 1 \in 1 .. Len(q)
      <4>. DEFINE lu == Len(u)
                  lq == Len(q)
      <4>1. /\ lq \in Nat /\ k \in Nat /\ k <= lq /\ lu = lq - k /\ lu # 0
        BY ONLY <1>16, <3>2
      <4>. HIDE DEF lu, lq, k
      <4>2. 1 \in 1 .. lu /\ lu \in 1 .. lu /\ k < lq /\ k + lu = lq
            /\ k + 1 \in 1 .. lq /\ lq # 0 /\ 1 \in 1 .. lq
        BY ONLY <4>1
      <4>. QED
        BY ONLY <4>2 DEF lu, lq
    <3>4. u[1] = q[k + 1] /\ u[Len(u)] = q[Len(q)]
      BY <1>16, <3>3
    <3>5. a < EndOff(u[1])
      BY <1>7, <3>3, <3>4
    <3>6. q # <<>>
      BY <3>3
    <3>7. EndOff(u[Len(u)]) = w + Fin(x)
      BY <1>2, <1>15, <3>4, <3>6 DEF QueueInv
    <3>8. Off(u[1].seq) <= a
      <4>1. CASE k = 0
        <5>1. Off(q[1].seq) <= Off(snd.lastack)
          BY <1>2, <3>6 DEF QueueInv
        <5>2. u[1] = q[1]
          BY <3>4, <4>1
        <5>3. Off(q[1].seq) \in Nat
          BY <1>2, <3>3, QueueOrdered
        <5>. QED
          BY <1>3, <5>1, <5>2, <5>3
      <4>2. CASE k # 0
        <5>1. k \in 1 .. k /\ k \in 1 .. Len(q) - 1
          BY <1>16, <3>3, <4>2
        <5>2. EndOff(q[k]) = Off(q[k + 1].seq)
          BY <1>2, <5>1 DEF QueueInv, Chain
        <5>3. EndOff(q[k]) <= a
          BY <1>7, <5>1
        <5>. QED
          BY <3>4, <5>2, <5>3
      <4>. QED
        BY <4>1, <4>2
    <3>. QED
      BY <1>12, <3>5, <3>7, <3>8
  <2>5. ASSUME NEW i \in 1 .. n - k1
        PROVE  EndOff(u[i]) <= Off(x.nxt) /\ BytesEnd(u[i]) <= Off(x.lastack) + x.wnd
    <3>1. k = k1 /\ k1 + i \in 1 .. n /\ i \in 1 .. Len(u) /\ k1 + i \in 1 .. Len(q)
      <4>1. k1 < n
        BY <1>16
      <4>. QED
        BY <1>16, <4>1
    <3>2. u[i] = q[k1 + i]
      BY <1>16, <3>1
    <3>. DEFINE y == q[k1 + i]
    <3>3. EndOff(y) <= Off(snd.nxt) /\ BytesEnd(y) <= Off(snd.lastack) + snd.wnd
      BY <1>2, <3>1 DEF QueueInv
    <3>4. BytesEnd(y) \in Nat
      BY <1>2, <3>1, QueueOrdered
    <3>5. u[i] = y
      BY <3>2
    <3>. HIDE DEF y
    <3>6. snd.wnd \in Nat /\ s.wnd \in Nat
      BY <1>1, <1>2, SenderType
    <3>7. BytesEnd(y) <= a + s.wnd
      BY <1>1, <1>3, <3>3, <3>4, <3>6
    <3>. QED
      BY <1>1, <1>12, <3>3, <3>5, <3>7
  <2>. QED
    BY <2>1, <2>2, <2>3, <2>4, <2>5 DEF Core
<1>18. QueueInv(u, n - k1, x, w)
  <2>1. n - k1 = Len(u) => x.oversize = 0
    <3>1. SUFFICES ASSUME n - k1 = Len(u) PROVE x.oversize = 0
      OBVIOUS
    <3>2. uns = <<>>
      BY <1>13, <3>1
    <3>3. CASE k2 > 0
      BY <1>12, <3>2, <3>3 DEF ov
    <3>4. CASE ~(k2 > 0)
      <4>1. Len(uns) = 0 /\ Len(uns) = Len(unsent) - k2 /\ k2 \in 0 .. Len(unsent) /\ Len(unsent) \in Nat
        <5>1. Len(uns) = 0
          BY <3>2
        <5>2. Len(unsent) \in Nat
          BY <1>2
        <5>. QED
          BY <1>7, <5>1, <5>2
      <4>2. Len(unsent) = 0
        BY <3>4, <4>1
      <4>3. unsent = <<>>
        BY <1>2, <4>2, EmptySeq
      <4>4. n = Len(q)
        BY <4>3, WrittenType DEF n, q
      <4>5. snd.oversize = 0
        BY <1>2, <4>4, QueueIs
      <4>. QED
        BY <1>1, <1>10, <1>12, <4>5 DEF ov
    <3>. QED
      BY <3>3, <3>4
  <2>2. n - k1 < Len(u) => SegLen(u[Len(u)]) + x.oversize <= x.mss
    <3>1. SUFFICES ASSUME n - k1 < Len(u) PROVE SegLen(u[Len(u)]) + x.oversize <= x.mss
      OBVIOUS
    <3>2. uns # <<>> /\ x.oversize = snd.oversize
      <4>1. uns # <<>>
        <5>. DEFINE y == n - k1
                    z == Len(u)
        <5>1. y \in Int /\ z \in Int /\ y < z
          BY ONLY <1>13, <1>16, <3>1
        <5>2. uns = <<>> <=> y = z
          BY <1>13
        <5>. HIDE DEF y, z
        <5>. QED
          BY ONLY <5>1, <5>2
      <4>. QED
        BY <1>1, <1>10, <1>12, <4>1 DEF ov
    <3>3. n < Len(q) /\ Len(u) \in 1 .. Len(u) /\ k + Len(u) = Len(q)
      <4>1. Len(uns) # 0 /\ Len(uns) = Len(unsent) - k2 /\ k2 \in 0 .. Len(unsent) /\ Len(unsent) \in Nat
        <5>1. Len(uns) # 0
          BY <1>7, <3>2, EmptySeq
        <5>2. Len(unsent) \in Nat
          BY <1>2
        <5>. QED
          BY <1>7, <5>1, <5>2
      <4>2. unsent # <<>>
        BY <4>1
      <4>3. n # Len(q)
        BY <4>2, WrittenType DEF n, q
      <4>. HIDE DEF k
      <4>. QED
        BY <1>16, <3>1, <4>3
    <3>. HIDE DEF k
    <3>4. u[Len(u)] = q[Len(q)]
      BY <1>16, <3>3
    <3>5. SegLen(q[Len(q)]) + snd.oversize <= snd.mss
      BY <1>2, <3>3, QueueIs
    <3>. QED
      BY <1>1, <1>12, <3>2, <3>4, <3>5
  <2>. QED
    BY <1>12, <1>17, <2>1, <2>2, QueueIs
<1>19. SenderInv(x, w, rcv)
  <2>1. x.buf + w - Off(x.lastack) \in {SndBuf, SndBuf - Fin(x)}
    <3>1. snd.buf + w - Off(snd.lastack) \in {SndBuf, SndBuf - Fin(snd)}
      BY <1>2 DEF SenderInv
    <3>2. snd.buf \in Int
      BY <1>2, SenderType
    <3>3. (snd.buf + (a - Off(snd.lastack))) + w - a = snd.buf + w - Off(snd.lastack)
      BY <1>2, <1>3, <3>2
    <3>. QED
      BY <1>1, <1>6, <1>12, <1>15, <3>1, <3>3
  <2>2. x.oversize >= 0
    BY <1>1, <1>2, <1>10, <1>12 DEF SenderInv, ov
  <2>3. x.mss <= x.ssthresh
    BY <1>1, <1>2, <1>12 DEF SenderInv
  <2>. QED
    BY <1>1, <1>2, <1>3, <1>12, <1>15, <2>1, <2>2, <2>3 DEF SenderInv
<1>20. Later(snd, w, x, w)
  BY <1>1, <1>2, <1>3, <1>12 DEF Later
<1>21. AckKept(f, s)
  <2>1. f.snd = x
    BY DEF x
  <2>2. \E q0 \in Seq(Segments) : \E n0 \in 0 .. Len(q0) :
          SplitAt(q0, n0, f.unacked, f.unsent, f.snd) /\ QueueInv(q0, n0, f.snd, w)
    BY <1>7, <1>13, <1>14, <1>18, <2>1
  <2>. HIDE DEF f, t2
  <2>3. f.told = t2 /\ t2 \in Int /\ sentTold + t2 = MinOf(a, w)
    BY <1>8, <1>11
  <2>. QED
    BY <1>12, <1>19, <1>20, <2>1, <2>2, <2>3 DEF AckKept, w
<1>. QED
  BY <1>4, <1>5, <1>21

(* tcp_input of an ACK.                                                    *)
LEMMA ReceiveAckStep ==
  ASSUME IInv, NEW i \in DOMAIN acks, NEW again \in BOOLEAN, ReceiveAck(i, again)
  PROVE  IInv'
<1>. DEFINE m == acks[i]
            s == WindowUpdated(m)
            a == Acked(m, s)
            p == AckedUnsent(m, a)
            x == Becomes(m, p.snd)
            t == [p.snd EXCEPT !.state = x]
            w == Len(written)
<1>1. /\ Open /\ acks' = Left(acks, i, again) /\ UNCHANGED <<written, receiver>>
      /\ \/ x = "CLOSED" /\ Removed(x) /\ UNCHANGED <<data, sentTold>>
         \/ /\ x # "CLOSED"
            /\ Sends(Output(p.unacked, p.unsent, t))
            /\ sentTold' = sentTold + p.told
  BY DEF ReceiveAck
<1>2. /\ acks \in Seq(Acks) /\ \A j \in DOMAIN acks : AckInv(acks[j], snd, rcv)
      /\ \A j, k \in DOMAIN acks : Further(acks[j], acks[k])
      /\ sentTold \in Int
  BY DEF IInv, TypeInv
<1>3. m \in Acks /\ AckInv(m, snd, rcv)
  BY <1>2
<1>. HIDE DEF m
<1>4. /\ acks' \in Seq(Acks)
      /\ \A j \in DOMAIN acks' : \E k \in DOMAIN acks : acks'[j] = acks[k]
  BY <1>1, <1>2, LeftOf
<1>5. \A j, k \in DOMAIN acks' : Further(acks'[j], acks'[k])
  BY <1>2, <1>4
<1>. HIDE DEF s
<1>6. (s.wl2 = snd.wl2 /\ s.wnd = snd.wnd) \/ (s.wl2 = m.ack /\ s.wnd = m.wnd)
  <2>1. s = WindowUpdated(m)
    BY DEF s
  <2>. QED
    BY <1>3, <2>1, WindowIs
<1>. HIDE DEF a, p
<1>7. AckKept(p, s)
  <2>1. s = WindowUpdated(m)
    BY DEF s
  <2>2. AckKept(AckedUnsent(m, Acked(m, s)), s)
    BY <1>1, <1>3, <2>1, NothingKept, NewKept
  <2>. QED
    BY <2>2 DEF p, a
<1>8. /\ p.snd \in Senders /\ p.told \in Int
      /\ SenderInv(p.snd, w, rcv) /\ Later(snd, w, p.snd, w)
      /\ p.snd.wl2 = s.wl2 /\ p.snd.wnd = s.wnd /\ p.snd.state = s.state
      /\ sentTold + p.told = MinOf(Off(p.snd.lastack), w)
  BY <1>7 DEF AckKept
<1>9. PICK q \in Seq(Segments) : \E n \in 0 .. Len(q) :
        SplitAt(q, n, p.unacked, p.unsent, p.snd) /\ QueueInv(q, n, p.snd, w)
  BY <1>7 DEF AckKept
<1>10. PICK n \in 0 .. Len(q) :
         SplitAt(q, n, p.unacked, p.unsent, p.snd) /\ QueueInv(q, n, p.snd, w)
  BY <1>9
<1>11. ASSUME NEW j \in DOMAIN acks'
       PROVE  /\ AckInv(acks'[j], snd, rcv)
              /\ Further(acks'[j], Known(p.snd)) /\ Further(Known(p.snd), acks'[j])
  <2>1. PICK k \in DOMAIN acks : acks'[j] = acks[k]
    BY <1>4
  <2>2. AckInv(acks[k], snd, rcv)
    BY <1>2
  <2>3. CASE s.wl2 = snd.wl2 /\ s.wnd = snd.wnd
    <3>1. Known(p.snd) = Known(snd)
      BY <1>8, <2>3 DEF Known
    <3>. QED
      BY <2>1, <2>2, <3>1 DEF AckInv
  <2>4. CASE s.wl2 = m.ack /\ s.wnd = m.wnd
    <3>1. Known(p.snd) = [ack |-> m.ack, wnd |-> m.wnd]
      BY <1>8, <2>4 DEF Known
    <3>2. Further(acks[k], m) /\ Further(m, acks[k])
      BY <1>2 DEF m
    <3>. QED
      BY <2>1, <2>2, <3>1, <3>2 DEF Further
  <2>. QED
    BY <1>6, <2>3, <2>4
<1>12. CASE x = "CLOSED" /\ Removed(x) /\ UNCHANGED <<data, sentTold>>
  <2>1. x \in {"CLOSED", "ABORTED"} /\ Removed(x)
        /\ UNCHANGED <<data, written, sentTold, receiver>>
    BY <1>1, <1>12
  <2>. HIDE DEF x
  <2>. QED
    BY <1>4, <1>5, <1>11, <2>1, RemovedStep
<1>13. CASE /\ x # "CLOSED" /\ Sends(Output(p.unacked, p.unsent, t))
            /\ sentTold' = sentTold + p.told
  <2>1. x \in {"FIN_WAIT_2", p.snd.state} /\ p.snd.state \in States
    <3>1. p.snd.state \in States
      BY <1>8, SenderType
    <3>2. x \in {"FIN_WAIT_2", "CLOSED", p.snd.state}
      BY DEF Becomes
    <3>. QED
      BY <1>13, <3>1, <3>2
  <2>. HIDE DEF x
  <2>2. /\ t \in Senders /\ t.state = x /\ t.nxt = p.snd.nxt
        /\ t.lastack = p.snd.lastack /\ t.lbb = p.snd.lbb /\ t.buf = p.snd.buf
        /\ t.wnd = p.snd.wnd /\ t.wl2 = p.snd.wl2 /\ t.mss = p.snd.mss
        /\ t.cwnd = p.snd.cwnd /\ t.ssthresh = p.snd.ssthresh /\ t.fin = p.snd.fin
        /\ t.oversize = p.snd.oversize /\ t.queuelen = p.snd.queuelen /\ t.infr = p.snd.infr
    <3>. DEFINE y == p.snd
    <3>1. y \in Senders /\ t = [y EXCEPT !.state = x] /\ x \in States
      BY <1>8, <2>1 DEF States
    <3>. HIDE DEF y, t
    <3>2. /\ t \in Senders /\ t.state = x /\ t.nxt = y.nxt
          /\ t.lastack = y.lastack /\ t.lbb = y.lbb /\ t.buf = y.buf
          /\ t.wnd = y.wnd /\ t.wl2 = y.wl2 /\ t.mss = y.mss
          /\ t.cwnd = y.cwnd /\ t.ssthresh = y.ssthresh /\ t.fin = y.fin
          /\ t.oversize = y.oversize /\ t.queuelen = y.queuelen /\ t.infr = y.infr
      BY <3>1 DEF Senders
    <3>. QED
      BY <3>2 DEF y
  <2>. HIDE DEF t
  <2>3. QueueInv(q, n, t, w)
    BY <1>10, <2>2, SameQueue
  <2>4. SplitAt(q, n, p.unacked, p.unsent, t)
    <3>1. Fits(p.snd, q[1]) => Fits(t, q[1])
      BY <2>2 DEF Fits
    <3>. QED
      BY <1>10, <2>2, <3>1 DEF SplitAt
  <2>5. SenderInv(t, w, rcv)
    <3>1. Fin(t) = Fin(p.snd)
      BY <2>2 DEF Fin
    <3>2. t.state \in {"ESTABLISHED", "CLOSE_WAIT"} => ~t.fin
      BY <1>8, <2>1, <2>2 DEF SenderInv
    <3>. QED
      BY <1>8, <2>2, <3>1, <3>2 DEF SenderInv
  <2>6. Later(snd, w, t, w)
    BY <1>8, <2>2 DEF Later
  <2>7. ASSUME NEW j \in DOMAIN acks' PROVE AckInv(acks'[j], t, rcv)
    <3>1. Known(t) = Known(p.snd)
      BY <2>2 DEF Known
    <3>. QED
      BY <1>11, <3>1 DEF AckInv
  <2>8. sentTold' \in Int /\ sentTold' = MinOf(Off(t.lastack), w)
    BY <1>2, <1>8, <1>13, <2>2
  <2>9. Sends(Output(p.unacked, p.unsent, t))
    BY <1>13
  <2>. QED
    BY <1>1, <1>4, <1>5, <2>2, <2>3, <2>4, <2>5, <2>6, <2>7, <2>8, <2>9, OutputStep
<1>. QED
  BY <1>1, <1>12, <1>13

-----------------------------------------------------------------------------
(* What a timer does to the queues.                                        *)

(* What o is, but sends pre first.                                         *)
Prefixed(pre, o) == [o EXCEPT !.sent = pre \o @]

(* g is what o is, but sends pre first.                                    *)
SameBut(g, o, pre) ==
  /\ g.unacked = o.unacked /\ g.unsent = o.unsent /\ g.snd = o.snd
  /\ g.sent = pre \o o.sent

LEMMA WithPre ==
  ASSUME NEW una, NEW uns, NEW s, NEW pre
  PROVE  LET o == Output(una, uns, s)
         IN  SameBut(Prefixed(pre, o), o, pre)
<1>. DEFINE n == Leading(uns, {i \in DOMAIN uns :
                           Fits(s, uns[i]) /\ NagleAllows(una, uns, s, i)})
            sent == SubSeq(uns, 1, n)
            rest == SubSeq(uns, n + 1, Len(uns))
            a == Inserted(sent, una)
            b == [i \in DOMAIN sent |-> OnWire(sent[i])]
            c == [s EXCEPT !.nxt = Latest(sent, @), !.timed = @ \/ n > 0,
                           !.oversize = IF rest = <<>> THEN 0 ELSE @, !.memerr = FALSE]
            o == Output(una, uns, s)
<1>1. o = [unacked |-> a, unsent |-> rest, sent |-> b, snd |-> c]
  BY DEF Output
<1>. HIDE DEF a, b, c, rest, o
<1>. DEFINE d == pre \o o.sent
            e == [o EXCEPT !.sent = d]
<1>. HIDE DEF d
<1>2. /\ e.unacked = o.unacked /\ e.unsent = o.unsent /\ e.snd = o.snd /\ e.sent = d
  BY <1>1
<1>. QED
  BY <1>2 DEF d, e, o, Prefixed, SameBut

(* The byte, or the FIN, that probes the window.                           *)
LEMMA ProbeKept ==
  ASSUME IInv, Open
  PROVE  /\ Probe \in Seq(Packets)
         /\ \A i \in 1 .. Len(Probe) : PacketInv(Probe[i], snd, Len(written), rcv)
<1>. DEFINE q == Outstanding
            w == Len(written)
<1>1. /\ q \in Seq(Segments) /\ snd \in Senders /\ w \in Nat
  BY WrittenType
<1>2. QueueInv(q, Len(unacked), snd, w)
  BY DEF IInv
<1>3. CASE ~Probes
  <2>1. Probe = <<>>
    BY <1>3 DEF Probe
  <2>. QED
    BY <2>1
<1>4. CASE Probes
  <2>. DEFINE seg == q[1]
              n == MinOf(1, SegLen(seg))
              b == SubSeq(seg.bytes, 1, n)
              f == seg.fin /\ seg.bytes = <<>>
              p == [seq |-> seg.seq, bytes |-> b, fin |-> f]
  <2>1. q # <<>>
    BY <1>4 DEF Probes, Outstanding
  <2>2. 1 \in 1 .. Len(q) /\ Head(q) = q[1] /\ seg \in Segments
    BY <1>1, <2>1
  <2>3. Probe = <<p>>
    BY <1>4, <2>2 DEF Probe, Outstanding
  <2>4. /\ seg.seq \in Seqs /\ seg.bytes \in Seq(Nat) /\ seg.fin \in BOOLEAN
        /\ SegLen(seg) \in Nat /\ SegLen(seg) = Len(seg.bytes)
    <3>. HIDE DEF seg
    <3>. QED
      BY <2>2 DEF Segments, SegLen
  <2>5. /\ Holds(seg, snd, w) /\ Off(seg.seq) <= Off(snd.lastack)
    <3>1. \A i \in 1 .. Len(q) : Holds(q[i], snd, w)
      BY <1>2 DEF QueueInv
    <3>2. Off(q[1].seq) <= Off(snd.lastack)
      BY <1>2, <2>1 DEF QueueInv
    <3>. QED
      BY <2>2, <3>1, <3>2
  <2>. HIDE DEF q, seg
  <2>6. n \in {0, 1} /\ n <= SegLen(seg) /\ (n = 0 <=> SegLen(seg) = 0)
    <3>. DEFINE z == SegLen(seg)
    <3>1. z \in Nat /\ (z = 0 \/ 1 <= z) /\ n = IF 1 < z THEN 1 ELSE z
      BY <2>4 DEF MinOf
    <3>. HIDE DEF z, n
    <3>. QED
      BY ONLY <3>1 DEF z
  <2>7. b \in Seq(Nat) /\ Len(b) = n /\ \A k \in 1 .. n : b[k] = seg.bytes[k]
    <3>1. n \in 0 .. Len(seg.bytes)
      BY <2>4, <2>6
    <3>. HIDE DEF n
    <3>. QED
      BY <2>4, <3>1, Parts
  <2>8. seg.bytes = <<>> <=> n = 0
    BY <2>4, <2>6, EmptySeq
  <2>. HIDE DEF n, b
  <2>9. f \in BOOLEAN /\ (f <=> seg.fin /\ n = 0)
    BY <2>4, <2>8
  <2>. HIDE DEF f
  <2>10. /\ p \in Packets /\ p.seq = seg.seq /\ p.bytes = b /\ p.fin = f
    BY <2>4, <2>7, <2>9 DEF Packets
  <2>. HIDE DEF p
  <2>11. SegLen(p) = n
    BY <2>7, <2>10 DEF SegLen
  <2>12. TcpLen(p) = IF f THEN n + 1 ELSE n
    BY <2>6, <2>7, <2>10 DEF TcpLen
  <2>13. TcpLen(seg) = SegLen(seg) + (IF seg.fin THEN 1 ELSE 0)
    BY DEF TcpLen, SegLen
  <2>14. TcpLen(p) = 1
    <3>1. TcpLen(seg) >= 1
      BY <2>5 DEF Holds
    <3>2. CASE n = 1
      BY <2>9, <2>12, <3>2
    <3>3. CASE n = 0
      <4>1. SegLen(seg) = 0
        BY <2>6, <3>3
      <4>2. seg.fin
        BY <2>13, <3>1, <4>1
      <4>. QED
        BY <2>9, <2>12, <3>3, <4>2
    <3>. QED
      BY <2>6, <3>2, <3>3
  <2>15. Off(seg.seq) \in Nat /\ Off(snd.lastack) \in Nat /\ Off(snd.nxt) \in Nat
    <3>1. seg.seq \in Seqs /\ snd.lastack \in Seqs /\ snd.nxt \in Seqs
      BY <1>1, <2>4, SenderType
    <3>. QED
      BY <3>1, OffType, Constants DEF Seqs
  <2>16. /\ BytesEnd(p) = Off(seg.seq) + n /\ EndOff(p) = Off(seg.seq) + 1
         /\ BytesEnd(seg) = Off(seg.seq) + SegLen(seg)
    BY <2>10, <2>11, <2>14 DEF BytesEnd, EndOff
  <2>17. Holds(p, snd, w)
    <3>1. BytesEnd(seg) <= w /\ (seg.fin => snd.fin /\ BytesEnd(seg) = w)
      BY <2>5 DEF Holds
    <3>2. BytesEnd(p) <= w
      BY <1>1, <2>4, <2>6, <2>15, <2>16, <3>1
    <3>3. p.fin => snd.fin /\ BytesEnd(p) = w
      BY <2>6, <2>9, <2>10, <2>15, <2>16, <3>1
    <3>4. ASSUME NEW k \in 1 .. SegLen(p) PROVE p.bytes[k] = Off(p.seq) + k
      <4>1. k \in 1 .. n /\ k \in 1 .. SegLen(seg)
        BY <2>4, <2>6, <2>11
      <4>2. seg.bytes[k] = Off(seg.seq) + k
        BY <2>5, <4>1 DEF Holds
      <4>. QED
        BY <2>7, <2>10, <4>1, <4>2
    <3>5. TcpLen(p) >= 1
      BY <2>14
    <3>. QED
      BY <3>2, <3>3, <3>4, <3>5 DEF Holds
  <2>18. EndOff(p) <= Reach(snd)
    BY <2>5, <2>15, <2>16 DEF Reach, MaxOf
  <2>19. PacketInv(p, snd, w, rcv)
    <3>1. ~(SegLen(p) > 1)
      BY <2>6, <2>11
    <3>. QED
      BY <2>17, <2>18, <3>1 DEF PacketInv
  <2>. QED
    BY <2>3, <2>10, <2>19
<1>. QED
  BY <1>3, <1>4

(* The connection is given up or its timer is served.                      *)
LEMMA SlowTmrStep ==
  ASSUME IInv, NEW due \in BOOLEAN, SlowTmr(due)
  PROVE  IInv'
<1>. DEFINE q == Outstanding
            m == Len(unacked)
            w == Len(written)
            r == rcv
            o == Timed(due)
            e == Output(o.unacked, o.unsent, o.snd)
<1>1. /\ Open /\ UNCHANGED <<written, sentTold, receiver, acks>>
      /\ \/ Removed("ABORTED") /\ UNCHANGED data
         \/ Sends([e EXCEPT !.sent = o.sent \o @])
  BY DEF SlowTmr
<1>2. /\ acks' \in Seq(Acks) /\ \A j \in DOMAIN acks' : AckInv(acks'[j], snd, rcv)
      /\ \A j, k \in DOMAIN acks' : Further(acks'[j], acks'[k])
      /\ sentTold' \in Int /\ sentTold' = MinOf(Off(snd.lastack), w)
  <2>1. acks' = acks /\ sentTold' = sentTold
    BY <1>1
  <2>2. sentTold = MinOf(Off(snd.lastack), w)
    BY <1>1 DEF IInv, SentExact, Off
  <2>. QED
    BY <2>1, <2>2 DEF IInv, TypeInv
<1>3. CASE Removed("ABORTED") /\ UNCHANGED data
  <2>1. UNCHANGED <<data, written, sentTold, receiver>> /\ Removed("ABORTED")
    BY <1>1, <1>3
  <2>. QED
    BY <1>2, <2>1, RemovedStep
<1>4. CASE Sends([e EXCEPT !.sent = o.sent \o @])
  <2>1. /\ q \in Seq(Segments) /\ m \in 0 .. Len(q) /\ snd \in Senders /\ r \in Receivers
        /\ w \in Nat /\ w \in 0 .. StreamLen
        /\ unacked = SubSeq(q, 1, m) /\ unsent = SubSeq(q, m + 1, Len(q))
        /\ q = <<>> <=> unacked = <<>> /\ unsent = <<>>
    BY WrittenType
  <2>2. QueueInv(q, m, snd, w) /\ SenderInv(snd, w, r)
    BY <1>1 DEF IInv
  <2>. HIDE DEF o
  <2>3. /\ unacked' = e.unacked /\ unsent' = e.unsent /\ snd' = e.snd
        /\ data' = data \o (o.sent \o e.sent)
    <3>. DEFINE pre == o.sent
                g == Prefixed(pre, e)
    <3>1. SameBut(g, e, pre)
      BY WithPre
    <3>2. unacked' = g.unacked /\ unsent' = g.unsent /\ snd' = g.snd /\ data' = data \o g.sent
      BY <1>4 DEF Sends, Prefixed
    <3>. HIDE DEF g, e
    <3>. QED
      BY <3>1, <3>2 DEF SameBut
  <2>4. Off(snd.nxt) \in Nat /\ Off(snd.lastack) \in Nat
    BY <2>1, SenderType
  <2>5. \E n \in 0 .. Len(q) :
          /\ SplitAt(q, n, o.unacked, o.unsent, o.snd) /\ QueueInv(q, n, o.snd, w)
          /\ o.snd \in Senders /\ SenderInv(o.snd, w, r) /\ Later(snd, w, o.snd, w)
          /\ o.snd.lastack = snd.lastack /\ o.snd.wnd = snd.wnd /\ o.snd.wl2 = snd.wl2
          /\ o.sent \in Seq(Packets)
          /\ \A i \in 1 .. Len(o.sent) : PacketInv(o.sent[i], o.snd, w, r)
    <3>1. CASE due /\ Retransmits
      <4>. DEFINE a == (snd.nrtx + 1) % RtxModulus
                  b == Capped(Half(snd))
                  s == [snd EXCEPT !.nrtx = a, !.ssthresh = b, !.cwnd = snd.mss]
      <4>1. o = Output(<<>>, q, s)
        BY <3>1 DEF o, Timed, Requeued, Outstanding
      <4>2. a \in Int /\ b \in 0 .. Wnd /\ snd.mss <= b
        <5>1. a \in Int
          <6>1. RtxModulus \in Nat /\ RtxModulus > 0 /\ snd.nrtx + 1 \in Int
            BY <2>1, SizeAssumption, SenderType
          <6>. QED
            BY <6>1
        <5>2. Half(snd) \in Nat /\ snd.mss <= Half(snd)
          BY <2>1, HalfIs
        <5>. QED
          BY <2>1, <5>1, <5>2, CappedIs
      <4>3. snd.mss \in 0 .. Wnd /\ snd.mss <= snd.mss
        <5>1. snd.mss \in Nat /\ 2 * snd.mss <= Wnd /\ Wnd \in Nat
          BY <2>1, SenderType, Constants
        <5>. QED
          BY <5>1
      <4>. HIDE DEF a, b
      <4>4. /\ s \in Senders /\ s.state = snd.state /\ s.nxt = snd.nxt
            /\ s.lastack = snd.lastack /\ s.lbb = snd.lbb /\ s.buf = snd.buf
            /\ s.wnd = snd.wnd /\ s.wl2 = snd.wl2 /\ s.mss = snd.mss
            /\ s.cwnd = snd.mss /\ s.ssthresh = b /\ s.fin = snd.fin
            /\ s.oversize = snd.oversize /\ s.queuelen = snd.queuelen
        BY <2>1, <4>2, <4>3 DEF Senders
      <4>. HIDE DEF s
      <4>5. Len(q) \in Nat /\ Len(q) # 0 /\ q # <<>>
        <5>1. q # <<>>
          BY <2>1, <3>1 DEF Retransmits
        <5>. QED
          BY <2>1, <5>1, EmptySeq
      <4>6. QueueInv(q, 0, snd, w)
        <5>1. \A i \in 1 .. 0 : FALSE
          OBVIOUS
        <5>2. SegLen(q[Len(q)]) + snd.oversize <= snd.mss
          <6>1. CASE m = Len(q)
            <7>1. snd.oversize = 0 /\ Len(q) \in 1 .. Len(q)
              BY <2>2, <4>5, <6>1 DEF QueueInv
            <7>2. SegLen(q[Len(q)]) <= snd.mss
              BY <2>2, <7>1 DEF QueueInv
            <7>3. SegLen(q[Len(q)]) \in Nat /\ snd.mss \in Nat
              <8>1. q[Len(q)] \in Segments
                BY <2>1, <7>1
              <8>. QED
                BY <2>1, <8>1, SegEndOff, SenderType
            <7>. QED
              BY <7>1, <7>2, <7>3
          <6>2. CASE m # Len(q)
            BY <2>1, <2>2, <6>2 DEF QueueInv
          <6>. QED
            BY <6>1, <6>2
        <5>. QED
          BY <2>2, <4>5, <5>1, <5>2 DEF QueueInv
      <4>7. QueueInv(q, 0, s, w)
        BY <4>4, <4>6, SameQueue
      <4>8. SenderInv(s, w, r)
        <5>1. Fin(s) = Fin(snd)
          BY <4>4 DEF Fin
        <5>. QED
          BY <2>2, <4>2, <4>3, <4>4, <5>1 DEF SenderInv
      <4>9. 0 \in 0 .. Len(q) /\ SplitAt(q, 0, <<>>, q, s)
        <5>1. SubSeq(q, 1, 0) = <<>> /\ SubSeq(q, 0 + 1, Len(q)) = q
          BY <2>1
        <5>. QED
          BY <4>5, <5>1 DEF SplitAt
      <4>10. OutputKept(o, q, 0, s, w, r)
        <5>. HIDE DEF q, w, r
        <5>1. OutputKept(Output(<<>>, q, s), q, 0, s, w, r)
          BY <2>1, <4>4, <4>7, <4>8, <4>9, OutputKeeps
        <5>. QED
          BY <4>1, <5>1
      <4>11. PICK n \in 0 .. Len(q) :
               /\ o.unacked = SubSeq(q, 1, n) /\ o.unsent = SubSeq(q, n + 1, Len(q))
               /\ QueueInv(q, n, o.snd, w)
        BY <4>10 DEF OutputKept
      <4>12. /\ o.snd \in Senders /\ SenderInv(o.snd, w, r) /\ Later(s, w, o.snd, w)
             /\ o.snd.lastack = s.lastack /\ o.snd.wnd = s.wnd /\ o.snd.wl2 = s.wl2
             /\ o.sent \in Seq(Packets)
             /\ \A i \in 1 .. Len(o.sent) : PacketInv(o.sent[i], o.snd, w, r)
        BY <4>10 DEF OutputKept
      <4>13. Later(snd, w, o.snd, w)
        BY <4>4, <4>12 DEF Later
      <4>14. SplitAt(q, n, o.unacked, o.unsent, o.snd)
        BY <4>11 DEF SplitAt
      <4>. QED
        BY <4>4, <4>11, <4>12, <4>13, <4>14
    <3>2. CASE ~(due /\ Retransmits)
      <4>. DEFINE pre == IF due THEN Probe ELSE <<>>
      <4>1. o = [unacked |-> unacked, unsent |-> unsent, snd |-> snd, sent |-> pre]
        BY <3>2 DEF o, Timed
      <4>2. pre \in Seq(Packets) /\ \A i \in 1 .. Len(pre) : PacketInv(pre[i], snd, w, r)
        <5>1. CASE due
          BY <1>1, <5>1, ProbeKept
        <5>2. CASE ~due
          BY <5>2
        <5>. QED
          BY <5>1, <5>2
      <4>. HIDE DEF pre
      <4>3. o.unacked = unacked /\ o.unsent = unsent /\ o.snd = snd /\ o.sent = pre
        BY <4>1
      <4>4. SplitAt(q, m, unacked, unsent, snd)
        BY <2>1 DEF SplitAt
      <4>5. Later(snd, w, snd, w)
        BY <2>1, <2>4 DEF Later
      <4>. QED
        BY <2>1, <2>2, <4>2, <4>3, <4>4, <4>5
    <3>. QED
      BY <3>1, <3>2
  <2>6. PICK n \in 0 .. Len(q) :
          /\ SplitAt(q, n, o.unacked, o.unsent, o.snd) /\ QueueInv(q, n, o.snd, w)
          /\ o.snd \in Senders /\ SenderInv(o.snd, w, r) /\ Later(snd, w, o.snd, w)
          /\ o.snd.lastack = snd.lastack /\ o.snd.wnd = snd.wnd /\ o.snd.wl2 = snd.wl2
          /\ o.sent \in Seq(Packets)
          /\ \A i \in 1 .. Len(o.sent) : PacketInv(o.sent[i], o.snd, w, r)
    BY <2>5
  <2>7. \A j \in DOMAIN acks' : AckInv(acks'[j], o.snd, rcv)
    <3>1. Known(o.snd) = Known(snd)
      BY <2>6 DEF Known
    <3>. QED
      BY <1>2, <3>1 DEF AckInv
  <2>8. sentTold' \in Int /\ sentTold' = MinOf(Off(o.snd.lastack), w)
    BY <1>2, <2>6
  <2>9. UNCHANGED <<written, receiver>>
    BY <1>1
  <2>. DEFINE una == o.unacked
              uns == o.unsent
              s == o.snd
              pre == o.sent
  <2>10. /\ q \in Seq(Segments) /\ n \in 0 .. Len(q) /\ s \in Senders /\ pre \in Seq(Packets)
         /\ SplitAt(q, n, una, uns, s) /\ QueueInv(q, n, s, Len(written))
         /\ SenderInv(s, Len(written), rcv) /\ Later(snd, Len(written), s, Len(written))
         /\ \A i \in 1 .. Len(pre) : PacketInv(pre[i], s, Len(written), rcv)
         /\ \A j \in DOMAIN acks' : AckInv(acks'[j], s, rcv)
         /\ sentTold' = MinOf(Off(s.lastack), Len(written))
    BY <2>1, <2>6, <2>7, <2>8
  <2>11. /\ unacked' = Output(una, uns, s).unacked /\ unsent' = Output(una, uns, s).unsent
         /\ snd' = Output(una, uns, s).snd
         /\ data' = data \o (pre \o Output(una, uns, s).sent)
    BY <2>3
  <2>. HIDE DEF q, una, uns, s, pre
  <2>. QED
    BY <1>2, <2>8, <2>9, <2>10, <2>11, SendsStep
<1>. QED
  BY <1>1, <1>3, <1>4

-----------------------------------------------------------------------------
(* Every step keeps the invariant.                                         *)
LEMMA NextIInv == IInv /\ [Next]_vars => IInv'
<1>. SUFFICES ASSUME IInv, [Next]_vars PROVE IInv'
  OBVIOUS
<1>1. ASSUME NEW len \in Sizes, NEW copy \in Copies, Write(len, copy) PROVE IInv'
  BY <1>1, WriteStep
<1>2. CASE Flush
  BY <1>2, FlushStep
<1>3. CASE Close
  BY <1>3, CloseStep
<1>4. ASSUME NEW i \in DOMAIN acks, NEW again \in BOOLEAN, ReceiveAck(i, again) PROVE IInv'
  BY <1>4, ReceiveAckStep
<1>5. ASSUME NEW due \in BOOLEAN, SlowTmr(due) PROVE IInv'
  BY <1>5, SlowTmrStep
<1>6. ASSUME NEW i \in DOMAIN data, NEW again \in BOOLEAN, NEW refuses \in BOOLEAN,
             Deliver(i, again, refuses)
      PROVE  IInv'
  BY <1>6, DeliverStep
<1>7. CASE Read
  BY <1>7, ReadStep
<1>8. ASSUME NEW refuses \in BOOLEAN, FastTmr(refuses) PROVE IInv'
  BY <1>8, FastTmrStep
<1>9. CASE Lose
  BY <1>9, LoseStep
<1>10. CASE UNCHANGED vars
  <2>1. /\ unsent' = unsent /\ unacked' = unacked /\ snd' = snd /\ rcv' = rcv
        /\ refused' = refused /\ data' = data /\ acks' = acks /\ written' = written
        /\ given' = given /\ sentTold' = sentTold
    BY <1>10 DEF vars
  <2>2. TypeInv' /\ WrittenInv'
    BY <2>1 DEF IInv, TypeInv, WrittenInv
  <2>3. (Open' <=> Open) /\ Outstanding' = Outstanding /\ (SentExact' <=> SentExact)
    BY <2>1 DEF Open, Outstanding, SentExact
  <2>. QED
    BY <2>1, <2>2, <2>3 DEF IInv
<1>. QED
  BY <1>1, <1>2, <1>3, <1>4, <1>5, <1>6, <1>7, <1>8, <1>9, <1>10 DEF Next

(* The places of everything in the queues, in the stream, on its way and   *)
(* in the receiver's hands fit together at all times.                      *)
THEOREM Invariance == Spec => []IInv
<1>1. Init => IInv
  BY InitIInv
<1>2. IInv /\ [Next]_vars => IInv'
  BY NextIInv
<1>. QED
  BY <1>1, <1>2, PTL DEF Spec

(* Sequence numbers stay sequence numbers, windows stay within TCP_WND,    *)
(* and what the callbacks were given is bytes, whatever happens.           *)
THEOREM TypeCorrect == Spec => []TypeInv
<1>1. IInv => TypeInv
  BY DEF IInv
<1>. QED
  BY <1>1, Invariance, PTL

(* The sent callbacks of an open connection add up to the bytes that are   *)
(* acknowledged, and never count the FIN, whether the ACK covers what is   *)
(* unacked, what was put back to unsent, or both.                          *)
THEOREM SentIsExact == Spec => []SentExact
<1>1. IInv => SentExact
  BY DEF IInv, SentExact
<1>. QED
  BY <1>1, Invariance, PTL

(* Nothing but a probe's byte and a FIN is sent beyond the right edge the  *)
(* receiver has announced, although tcp_output counts the window from      *)
(* lastack and not from the ACK that it came with.                         *)
THEOREM WindowObeyed == Spec => []NeverBeyondWindow
<1>1. IInv => NeverBeyondWindow
  <2>. SUFFICES ASSUME IInv, NEW seg \in ToSet(data), Len(seg.bytes) > 1
                PROVE  Leq(Plus(seg.seq, Len(seg.bytes)), rcv.edge)
    BY DEF NeverBeyondWindow
  <2>1. /\ data \in Seq(Packets) /\ rcv \in Receivers /\ snd \in Senders
        /\ Len(written) \in Nat /\ Len(written) \in 0 .. StreamLen
        /\ ReceiverInv(rcv, refused, given, snd, Len(written))
    BY WrittenType DEF IInv, TypeInv
  <2>2. PICK i \in DOMAIN data : seg = data[i]
    BY DEF ToSet
  <2>3. PacketInv(seg, snd, Len(written), rcv) /\ seg \in Packets
    BY <2>1, <2>2, ElementOfSeq DEF IInv
  <2>4. /\ BytesEnd(seg) <= Off(rcv.edge) /\ BytesEnd(seg) <= Len(written)
        /\ BytesEnd(seg) = Off(seg.seq) + Len(seg.bytes)
    BY <2>3 DEF PacketInv, Holds, SegLen, BytesEnd
  <2>5. /\ seg.seq \in Seqs /\ Len(seg.bytes) \in Nat /\ Off(seg.seq) \in Nat
    BY <2>3, SegEndOff DEF Packets, SegLen
  <2>6. Off(rcv.nxt) \in Nat /\ Off(rcv.edge) \in Nat /\ rcv.edge \in Seqs
        /\ rcv.ann \in Nat /\ rcv.ann <= Wnd
    BY <2>1, ReceiverType
  <2>7. Off(rcv.edge) <= StreamLen + Wnd + 1
    <3>1. Off(rcv.nxt) <= Len(written) \/ Off(rcv.nxt) = Len(written) + 1
      BY <2>1 DEF ReceiverInv
    <3>2. Off(rcv.edge) <= Off(rcv.nxt) + rcv.ann
      BY <2>1 DEF ReceiverInv
    <3>. QED
      BY <2>1, <2>6, <3>1, <3>2, Constants
  <2>. DEFINE n == Len(seg.bytes)
              e == Plus(seg.seq, n)
  <2>8. Off(seg.seq) + n < SeqModulus
    BY <2>1, <2>4, <2>5, Constants
  <2>9. e \in Seqs /\ Off(e) = Off(seg.seq) + n
    <3>. HIDE DEF n
    <3>. QED
      BY <2>5, <2>8, PlusOff DEF n
  <2>10. Near(e) /\ Near(rcv.edge)
    BY <2>1, <2>4, <2>5, <2>6, <2>7, <2>9, Constants DEF Near
  <2>11. Leq(e, rcv.edge) <=> Off(e) <= Off(rcv.edge)
    <3>. HIDE DEF e
    <3>. QED
      BY <2>10, LtNear
  <2>. QED
    BY <2>4, <2>9, <2>11
<1>. QED
  BY <1>1, Invariance, PTL

(* The queues of an open connection hold in order what is accepted and not *)
(* acknowledged, each byte once and at its place, whatever was taken back  *)
(* to be sent again; snd_buf and snd_queuelen, which tcp_write trusts,     *)
(* agree with them.                                                        *)
THEOREM QueuesAreSound == Spec => []QueueSound
<1>1. IInv => QueueSound
  <2>. SUFFICES ASSUME IInv, Open PROVE QueueSound
    BY DEF QueueSound
  <2>. DEFINE q == Outstanding
              n == Len(unacked)
              w == Len(written)
  <2>1. /\ q \in Seq(Segments) /\ snd \in Senders /\ w \in Nat /\ w \in 0 .. StreamLen
    BY WrittenType
  <2>2. QueueInv(q, n, snd, w) /\ SenderInv(snd, w, rcv)
    BY DEF IInv
  <2>3. /\ Fin(snd) \in {0, 1}
        /\ \A i \in 1 .. Len(q) :
              /\ EndOff(q[i]) <= w + Fin(snd) /\ Off(q[i].seq) < EndOff(q[i])
              /\ Off(q[i].seq) \in Nat /\ EndOff(q[i]) \in Nat
              /\ SegEnd(q[i]) \in Seqs /\ Near(SegEnd(q[i]))
              /\ Off(SegEnd(q[i])) = EndOff(q[i])
    BY <2>1, <2>2, QueueOrdered
  <2>4. /\ Off(snd.lastack) \in Nat /\ Off(snd.nxt) \in Nat /\ snd.lastack \in Seqs
        /\ snd.buf \in Int
    BY <2>1, SenderType
  <2>5. /\ Len(q) \in Nat /\ DOMAIN q = 1 .. Len(q) /\ w <= StreamLen /\ StreamLen \in Nat
        /\ Wnd \in Nat
    BY <2>1, Constants
  <2>6. Off(snd.lastack) <= w + Fin(snd) /\ Near(snd.lastack)
    <3>1. Off(snd.lastack) <= w + Fin(snd)
      BY <2>1, <2>2, <2>3, <2>4 DEF SenderInv
    <3>. QED
      BY <2>3, <2>4, <2>5, <3>1 DEF Near
  <2>7. snd.queuelen = Pbufs(Outstanding)
    BY <2>2 DEF QueueInv
  <2>8. ASSUME NEW i \in DOMAIN Outstanding
        PROVE  /\ SegLen(Outstanding[i]) <= snd.mss
               /\ i > 1 => Outstanding[i].seq = SegEnd(Outstanding[i - 1])
               /\ \A k \in 1 .. SegLen(Outstanding[i]) :
                    Minus(Outstanding[i].seq, Iss) + k = Outstanding[i].bytes[k]
    <3>1. i \in 1 .. Len(q)
      BY <2>5
    <3>2. Holds(q[i], snd, w) /\ SegLen(q[i]) <= snd.mss
      BY <2>2, <3>1 DEF QueueInv
    <3>3. \A k \in 1 .. SegLen(q[i]) : Minus(q[i].seq, Iss) + k = q[i].bytes[k]
      BY <3>2 DEF Holds, Off
    <3>4. ASSUME i > 1 PROVE q[i].seq = SegEnd(q[i - 1])
      <4>. DEFINE j == i - 1
      <4>1. j \in 1 .. Len(q) - 1 /\ j \in 1 .. Len(q) /\ j + 1 = i
        BY <2>5, <3>1, <3>4
      <4>. HIDE DEF j
      <4>2. EndOff(q[j]) = Off(q[i].seq)
        BY <2>2, <4>1 DEF QueueInv, Chain
      <4>3. Off(SegEnd(q[j])) = Off(q[i].seq) /\ SegEnd(q[j]) \in Seqs
        BY <2>3, <4>1, <4>2
      <4>4. q[i].seq \in Seqs
        <5>1. q[i] \in Segments
          BY <2>1, <3>1
        <5>. QED
          BY <5>1 DEF Segments
      <4>5. SegEnd(q[j]) = q[i].seq
        BY <4>3, <4>4, OffInjective
      <4>. QED
        BY <4>5 DEF j
    <3>. QED
      BY <3>2, <3>3, <3>4
  <2>9. ASSUME Outstanding # <<>>
        PROVE  /\ Leq(Head(Outstanding).seq, snd.lastack)
               /\ Minus(SegEnd(LastOf(Outstanding)), Iss) =
                    Len(written) + (IF snd.fin THEN 1 ELSE 0)
    <3>1. Len(q) # 0 /\ 1 \in 1 .. Len(q) /\ Len(q) \in 1 .. Len(q)
      <4>1. Len(q) # 0
        BY <2>1, <2>9, EmptySeq
      <4>. QED
        BY <2>5, <4>1
    <3>2. /\ Off(q[1].seq) <= Off(snd.lastack) /\ EndOff(q[Len(q)]) = w + Fin(snd)
      BY <2>2, <2>9 DEF QueueInv
    <3>3. Head(q) = q[1] /\ q[1] \in Segments
      BY <2>1, <2>9, <3>1
    <3>. DEFINE a == q[1].seq
    <3>4. Near(a)
      <4>1. a \in Seqs
        BY <3>3 DEF Segments
      <4>2. Off(a) \in Nat /\ Off(a) <= w + Fin(snd)
        BY <2>3, <2>4, <2>6, <3>1, <3>2
      <4>. QED
        BY <2>1, <2>3, <2>5, <4>1, <4>2 DEF Near
    <3>5. Leq(a, snd.lastack) <=> Off(a) <= Off(snd.lastack)
      <4>. HIDE DEF a
      <4>. QED
        BY <2>6, <3>4, LtNear
    <3>6. Off(SegEnd(LastOf(q))) = w + Fin(snd)
      BY <2>3, <3>1, <3>2 DEF LastOf
    <3>. QED
      BY <3>2, <3>3, <3>5, <3>6 DEF Off, Fin
  <2>10. snd.buf + Len(written) - MinOf(Len(written), Minus(snd.lastack, Iss)) \in
           SndBuf - (IF snd.fin THEN 1 ELSE 0) .. SndBuf + (IF snd.fin THEN 1 ELSE 0)
    <3>. DEFINE a == Off(snd.lastack)
                b == snd.buf
                f == Fin(snd)
    <3>1. a \in Nat /\ b \in Int /\ f \in {0, 1} /\ a <= w + f /\ SndBuf \in Int
      BY <2>3, <2>4, <2>6, SizeAssumption
    <3>2. b + w - a \in {SndBuf, SndBuf - f}
      BY <2>2 DEF SenderInv
    <3>. HIDE DEF a, b, f
    <3>3. b + w - MinOf(w, a) \in SndBuf - f .. SndBuf + f
      <4>1. CASE a <= w
        <5>1. MinOf(w, a) = a
          BY <2>1, <3>1, <4>1 DEF MinOf
        <5>. QED
          BY <2>1, <3>1, <3>2, <5>1
      <4>2. CASE ~(a <= w)
        <5>1. MinOf(w, a) = w /\ a = w + 1 /\ f = 1
          BY <2>1, <3>1, <4>2 DEF MinOf
        <5>. QED
          BY <2>1, <3>1, <3>2, <5>1
      <4>. QED
        BY <4>1, <4>2
    <3>. QED
      BY <3>3 DEF a, b, f, Off, Fin
  <2>. HIDE DEF q, n, w
  <2>. QED
    BY <2>7, <2>8, <2>9, <2>10 DEF QueueSound
<1>. QED
  BY <1>1, Invariance, PTL

-----------------------------------------------------------------------------
(* The connection keeps the promise of a byte stream.                      *)

(* What was given is the beginning of what was written.                    *)
LEMMA GivenIs ==
  ASSUME NEW r \in Receivers, NEW f \in [bytes : Seq(Nat), fin : BOOLEAN], NEW g \in Seq(Nat),
         NEW s \in Senders, NEW h \in Seq(Nat), ReceiverInv(r, f, g, s, Len(h)),
         \A k \in 1 .. Len(h) : h[k] = k
  PROVE  /\ Len(g) <= Len(h) /\ IsPrefix(g, h)
         /\ r.ended => s.fin /\ g = h
<1>1. /\ Len(g) \in Nat /\ Len(h) \in Nat /\ Off(r.nxt) \in Nat /\ Len(f.bytes) \in Nat
  BY ReceiverType
<1>2. /\ Len(g) + Len(f.bytes) = Off(r.nxt) - (IF EndKnown(r, f) THEN 1 ELSE 0)
      /\ \A k \in 1 .. Len(g) : g[k] = k
      /\ EndKnown(r, f) => s.fin /\ Off(r.nxt) = Len(h) + 1
      /\ ~EndKnown(r, f) => Off(r.nxt) <= Len(h)
      /\ r.ended => f = Nothing
  BY DEF ReceiverInv
<1>3. Len(g) <= Len(h)
  BY <1>1, <1>2
<1>0. \A k \in 1 .. Len(g) : g[k] = h[k]
  <2>1. ASSUME NEW k \in 1 .. Len(g) PROVE g[k] = h[k]
    <3>1. k \in 1 .. Len(h)
      BY ONLY <1>1, <1>3, k \in 1 .. Len(g)
    <3>2. g[k] = k
      BY <1>2
    <3>. QED
      BY <3>1, <3>2
  <2>. QED
    BY <2>1
<1>4. SubSeq(g, 1, Len(g)) = SubSeq(h, 1, Len(g))
  <2>. DEFINE a == SubSeq(g, 1, Len(g))
              b == SubSeq(h, 1, Len(g))
  <2>1. /\ a \in Seq(Nat) /\ Len(a) = Len(g) /\ \A k \in 1 .. Len(g) : a[k] = g[k]
        /\ b \in Seq(Nat) /\ Len(b) = Len(g) /\ \A k \in 1 .. Len(g) : b[k] = h[k]
    BY ONLY <1>1, <1>3
  <2>. HIDE DEF a, b
  <2>2. \A k \in 1 .. Len(a) : a[k] = b[k]
    BY ONLY <1>0, <2>1
  <2>3. a = b
    BY <2>1, <2>2, SeqEqual
  <2>. QED
    BY <2>3 DEF a, b
<1>5. ASSUME r.ended PROVE s.fin /\ g = h
  <2>1. EndKnown(r, f) /\ f.bytes = <<>>
    BY <1>2, <1>5 DEF EndKnown, Nothing
  <2>2. Len(f.bytes) = 0
    BY <2>1
  <2>3. Len(g) = Len(h) /\ s.fin
    BY <1>1, <1>2, <2>1, <2>2
  <2>. QED
    BY <1>0, <2>3, SeqEqual
<1>. QED
  BY <1>3, <1>4, <1>5 DEF IsPrefix

(* A step of the sender that writes nothing.                               *)
LEMMA SenderStreams ==
  ASSUME IInv, IInv', written' = written, UNCHANGED receiver, snd.fin => snd'.fin
  PROVE  [Stream!Next]_(Stream!streamVars)
<1>1. snd.fin \in BOOLEAN /\ snd'.fin \in BOOLEAN
  <2>1. snd \in Senders /\ snd' \in Senders
    BY DEF IInv, TypeInv
  <2>. QED
    BY <2>1 DEF Senders
<1>2. rcv' = rcv /\ given' = given /\ written' = written
  BY DEF receiver
<1>3. CASE snd'.fin = TRUE
  BY <1>2, <1>3 DEF Stream!Next, Stream!Close
<1>4. CASE snd'.fin = snd.fin
  BY <1>2, <1>4 DEF Stream!streamVars
<1>. QED
  BY <1>1, <1>3, <1>4

(* A step of the receiver, which may give more.                            *)
LEMMA ReceiverStreams ==
  ASSUME IInv, IInv', UNCHANGED sender, NEW more \in Seq(Nat), given' = given \o more,
         rcv.ended => rcv'.ended
  PROVE  [Stream!Next]_(Stream!streamVars)
<1>1. snd' = snd /\ written' = written
  BY DEF sender
<1>2. /\ snd \in Senders /\ rcv \in Receivers /\ rcv' \in Receivers
      /\ refused \in [bytes : Seq(Nat), fin : BOOLEAN]
      /\ refused' \in [bytes : Seq(Nat), fin : BOOLEAN]
      /\ given \in Seq(Nat) /\ given' \in Seq(Nat) /\ written \in Seq(Nat)
      /\ \A k \in 1 .. Len(written) : written[k] = k
      /\ ReceiverInv(rcv, refused, given, snd, Len(written))
  BY DEF IInv, TypeInv, WrittenInv
<1>3. ReceiverInv(rcv', refused', given', snd, Len(written))
  BY <1>1 DEF IInv
<1>4. /\ Len(given) <= Len(written)
      /\ rcv.ended => snd.fin /\ given = written
  BY <1>2, GivenIs
<1>5. /\ Len(given') <= Len(written) /\ IsPrefix(given', written)
      /\ rcv'.ended => snd.fin /\ given' = written
  BY <1>2, <1>3, GivenIs
<1>6. rcv.ended \in BOOLEAN /\ rcv'.ended \in BOOLEAN /\ snd.fin \in BOOLEAN
  BY <1>2, ReceiverType, SenderType
<1>7. CASE rcv.ended
  <2>1. given' = given /\ rcv'.ended = rcv.ended
    BY <1>4, <1>5, <1>6, <1>7
  <2>. QED
    BY <1>1, <2>1 DEF Stream!streamVars
<1>8. CASE ~rcv.ended
  <2>1. IsPrefix(given, given')
    <3>1. /\ Len(given) \in Nat /\ Len(more) \in Nat /\ Len(given') = Len(given) + Len(more)
          /\ \A k \in 1 .. Len(given) + Len(more) :
               given'[k] = IF k <= Len(given) THEN given[k] ELSE more[k - Len(given)]
      BY <1>2, ConcatProperties
    <3>. DEFINE a == SubSeq(given, 1, Len(given))
                b == SubSeq(given', 1, Len(given))
    <3>2. /\ a \in Seq(Nat) /\ Len(a) = Len(given)
          /\ \A k \in 1 .. Len(given) : a[k] = given[k]
      BY <1>2, <3>1
    <3>3. /\ b \in Seq(Nat) /\ Len(b) = Len(given)
          /\ \A k \in 1 .. Len(given) : b[k] = given'[k]
      <4>. DEFINE n == Len(given)
                  g == given'
      <4>1. n \in Nat /\ n <= Len(g) /\ g \in Seq(Nat)
        BY <1>2, <3>1
      <4>. HIDE DEF n, g
      <4>2. /\ SubSeq(g, 1, n) \in Seq(Nat) /\ Len(SubSeq(g, 1, n)) = n
            /\ \A k \in 1 .. n : SubSeq(g, 1, n)[k] = g[k]
        BY <4>1
      <4>. QED
        BY <4>2 DEF n, g
    <3>. HIDE DEF a, b
    <3>4. \A k \in 1 .. Len(a) : a[k] = b[k]
      BY <3>1, <3>2, <3>3
    <3>5. a = b
      BY <3>2, <3>3, <3>4, SeqEqual
    <3>6. Len(given) <= Len(given')
      BY <3>1
    <3>. QED
      BY <3>5, <3>6 DEF IsPrefix, a, b
  <2>2. rcv'.ended \in {FALSE, snd.fin /\ given' = written}
    BY <1>5, <1>6
  <2>3. Stream!IsPrefix(given, given') /\ Stream!IsPrefix(given', written)
    BY <1>5, <2>1 DEF Stream!IsPrefix, IsPrefix
  <2>4. rcv.ended = FALSE
    BY <1>6, <1>8
  <2>5. Stream!Give
    BY ONLY <1>1, <2>2, <2>3, <2>4 DEF Stream!Give
  <2>. QED
    BY <2>5 DEF Stream!Next
<1>. QED
  BY <1>7, <1>8

(* All that tcp_output must find in s to leave the FIN as it is.           *)
HasFin(s) == "fin" \in DOMAIN s

LEMMA FinOfOutput ==
  ASSUME NEW una, NEW uns, NEW s, HasFin(s)
  PROVE  Output(una, uns, s).snd.fin = s.fin /\ HasFin(Output(una, uns, s).snd)
BY DEF Output, HasFin

LEMMA SendersHaveFin ==
  ASSUME NEW s \in Senders
  PROVE  HasFin(s)
BY DEF Senders, HasFin

(* tcp_write, which may fail.                                              *)
LEMMA WriteStreams ==
  ASSUME IInv, IInv', NEW len \in Sizes, NEW copy \in Copies, Write(len, copy)
  PROVE  [Stream!Next]_(Stream!streamVars)
<1>. DEFINE bytes == [i \in 1 .. len |-> Len(written) + i]
            d == Segmented(bytes, copy)
<1>1. /\ snd \in Senders /\ written \in Seq(Nat) /\ written' \in Seq(Nat)
      /\ Len(written') <= StreamLen /\ \A k \in 1 .. Len(written') : written'[k] = k
  BY DEF IInv, TypeInv, WrittenInv
<1>2. ~snd.fin
  BY DEF Write, Ready, IInv, SenderInv
<1>3. UNCHANGED receiver
  BY DEF Write
<1>4. \/ /\ snd' = [snd EXCEPT !.lbb = Plus(@, len), !.buf = @ - len,
                               !.queuelen = d.queuelen, !.oversize = d.oversize]
         /\ written' = written \o bytes
      \/ snd' = [snd EXCEPT !.memerr = TRUE] /\ written' = written
  BY DEF Write
<1>. HIDE DEF d
<1>5. snd'.fin = snd.fin
  BY <1>1, <1>4 DEF Senders
<1>6. CASE written' = written
  BY <1>2, <1>3, <1>6, SenderStreams
<1>7. CASE written' = written \o bytes
  <2>1. len \in Nat /\ len # 0
    BY SizeAssumption
  <2>2. bytes \in Seq(Nat) /\ Len(bytes) = len
    <3>1. Len(written) \in Nat
      BY <1>1
    <3>2. \A i \in 1 .. len : Len(written) + i \in Nat
      BY <2>1, <3>1
    <3>. QED
      BY <2>1, <3>2
  <2>. HIDE DEF bytes
  <2>3. /\ Len(written) \in Nat /\ Len(written') = Len(written) + len
        /\ \A k \in 1 .. Len(written) : written'[k] = written[k]
    <3>1. InOne(Nat, written, bytes, written \o bytes)
      BY <1>1, <2>2, JoinedAre
    <3>. DEFINE z == written \o bytes
    <3>2. written' = z /\ InOne(Nat, written, bytes, z)
      BY <1>7, <3>1
    <3>. HIDE DEF z
    <3>. QED
      BY ONLY <2>2, <3>2 DEF InOne
  <2>. DEFINE g == written
              h == written'
  <2>4. g \in Seq(Nat) /\ h \in Seq(Nat) /\ Len(g) \in Nat /\ Len(g) <= Len(h)
    BY <1>1, <2>1, <2>3
  <2>5. \A k \in 1 .. Len(g) : h[k] = g[k]
    BY <2>1, <2>3
  <2>6. IsStrictPrefix(g, h)
    <3>1. g # h
      BY <2>1, <2>3
    <3>. HIDE DEF g, h
    <3>. DEFINE a == SubSeq(g, 1, Len(g))
                b == SubSeq(h, 1, Len(g))
    <3>2. /\ a \in Seq(Nat) /\ Len(a) = Len(g) /\ \A k \in 1 .. Len(g) : a[k] = g[k]
          /\ b \in Seq(Nat) /\ Len(b) = Len(g) /\ \A k \in 1 .. Len(g) : b[k] = h[k]
      BY <2>4
    <3>. HIDE DEF a, b
    <3>3. \A k \in 1 .. Len(a) : a[k] = b[k]
      BY <2>4, <2>5, <3>2
    <3>4. a = b
      BY <3>2, <3>3, SeqEqual
    <3>. QED
      BY <2>4, <3>1, <3>4 DEF IsStrictPrefix, IsPrefix, a, b
  <2>7. h \in Seq(Bytes)
    <3>1. Len(h) \in Nat /\ h = [k \in 1 .. Len(h) |-> h[k]] /\ StreamLen \in Nat
      BY <2>4, Constants
    <3>2. \A k \in 1 .. Len(h) : h[k] \in Bytes
      BY <1>1, <3>1 DEF Bytes
    <3>. HIDE DEF h
    <3>. QED
      BY <3>1, <3>2
  <2>8. Stream!IsStrictPrefix(written, written') /\ written' \in Seq(Bytes)
    BY <2>6, <2>7 DEF Stream!IsStrictPrefix, Stream!IsPrefix, IsStrictPrefix, IsPrefix
  <2>9. given' = given /\ rcv' = rcv
    BY <1>3 DEF receiver
  <2>10. Stream!Write
    BY ONLY <1>2, <1>5, <2>8, <2>9 DEF Stream!Write
  <2>. QED
    BY <2>10 DEF Stream!Next
<1>. QED
  BY <1>4, <1>6, <1>7

(* tcp_close, which may fail.                                              *)
LEMMA CloseStreams ==
  ASSUME IInv, IInv', Close
  PROVE  [Stream!Next]_(Stream!streamVars)
<1>. DEFINE closing == IF snd.state = "ESTABLISHED" THEN "FIN_WAIT_1" ELSE "LAST_ACK"
            s == [snd EXCEPT !.state = closing, !.fin = TRUE]
            seg == [seq |-> snd.lbb, bytes |-> <<>>, fin |-> TRUE, pbufs |-> 1]
            t == [s EXCEPT !.lbb = Plus(@, 1), !.buf = @ - 1, !.oversize = 0, !.queuelen = @ + 1]
            longer == [unsent EXCEPT ![Len(unsent)].fin = TRUE]
<1>1. snd \in Senders
  BY DEF IInv, TypeInv
<1>2. /\ \/ snd' = Output(unacked, longer, s).snd
         \/ snd' = Output(unacked, <<seg>>, t).snd
         \/ snd' = [snd EXCEPT !.memerr = TRUE]
      /\ written' = written /\ UNCHANGED receiver
  BY DEF Close, Sends
<1>. HIDE DEF longer, seg
<1>3. s \in Senders /\ s.fin = TRUE
  <2>1. closing \in States
    BY DEF States
  <2>. HIDE DEF closing
  <2>. QED
    BY <1>1, <2>1 DEF Senders
<1>. HIDE DEF s
<1>4. t \in Senders /\ t.fin = TRUE
  <2>. DEFINE x == Plus(s.lbb, 1)
              b == s.buf - 1
              o == 0
              l == s.queuelen + 1
  <2>1. t = [s EXCEPT !.lbb = x, !.buf = b, !.oversize = o, !.queuelen = l]
    OBVIOUS
  <2>2. x \in Seqs /\ b \in Int /\ o \in Int /\ l \in Int
    <3>1. s.lbb \in Seqs /\ s.buf \in Int /\ s.queuelen \in Int
      BY <1>3, SenderType
    <3>2. x \in Seqs
      <4>. DEFINE y == s.lbb + 1
      <4>1. y \in Int /\ SeqModulus \in Nat \ {0}
        BY <3>1, Constants DEF Seqs
      <4>. HIDE DEF y
      <4>2. y % SeqModulus \in 0 .. SeqModulus - 1
        BY <4>1, Modulus
      <4>. QED
        BY <4>2 DEF Plus, Seqs, y
    <3>. QED
      BY <3>1, <3>2
  <2>. HIDE DEF x, b, o, l
  <2>. QED
    BY <1>3, <2>1, <2>2 DEF Senders
<1>. HIDE DEF t
<1>5. snd.fin => snd'.fin
  <2>1. [snd EXCEPT !.memerr = TRUE].fin = snd.fin
    BY <1>1 DEF Senders
  <2>2. Output(unacked, longer, s).snd.fin = TRUE /\ Output(unacked, <<seg>>, t).snd.fin = TRUE
    BY <1>3, <1>4, FinOfOutput, SendersHaveFin
  <2>. QED
    BY <1>2, <2>1, <2>2
<1>. QED
  BY <1>2, <1>5, SenderStreams

(* tcp_input of an ACK, which never takes the FIN back.                    *)
LEMMA ReceiveAckStreams ==
  ASSUME IInv, IInv', NEW i \in DOMAIN acks, NEW again \in BOOLEAN, ReceiveAck(i, again)
  PROVE  [Stream!Next]_(Stream!streamVars)
<1>. DEFINE m == acks[i]
            s == WindowUpdated(m)
            p == AckedUnsent(m, Acked(m, s))
            u == p.snd
            x == Becomes(m, u)
            t == [u EXCEPT !.state = x]
<1>1. /\ Open /\ written' = written /\ UNCHANGED receiver
      /\ \/ snd' = [snd EXCEPT !.state = x]
         \/ snd' = Output(p.unacked, p.unsent, t).snd
  BY DEF ReceiveAck, Removed, Sends
<1>2. snd \in Senders /\ acks \in Seq(Acks) /\ \A j \in DOMAIN acks : AckInv(acks[j], snd, rcv)
  BY DEF IInv, TypeInv
<1>3. m \in Acks /\ AckInv(m, snd, rcv)
  BY <1>2
<1>. HIDE DEF m
<1>4. AckKept(p, s)
  <2>1. AckKept(AckedUnsent(m, Acked(m, WindowUpdated(m))), WindowUpdated(m))
    BY <1>1, <1>3, NothingKept, NewKept
  <2>. QED
    BY <2>1
<1>. HIDE DEF p
<1>5. u \in Senders /\ (snd.fin => u.fin)
  BY <1>4 DEF AckKept, Later
<1>. HIDE DEF u
<1>6. x \in States
  <2>1. u.state \in States
    BY <1>5, SenderType
  <2>. QED
    BY <2>1 DEF Becomes, States
<1>. HIDE DEF x
<1>7. t \in Senders /\ t.fin = u.fin
  BY <1>5, <1>6 DEF Senders
<1>. HIDE DEF t
<1>8. snd.fin => snd'.fin
  <2>1. [snd EXCEPT !.state = x].fin = snd.fin
    BY <1>2 DEF Senders
  <2>2. Output(p.unacked, p.unsent, t).snd.fin = t.fin
    BY <1>7, FinOfOutput, SendersHaveFin
  <2>. QED
    BY <1>1, <1>5, <1>7, <2>1, <2>2
<1>. QED
  BY <1>1, <1>8, SenderStreams

(* tcp_slowtmr.                                                            *)
LEMMA SlowTmrStreams ==
  ASSUME IInv, IInv', NEW due \in BOOLEAN, SlowTmr(due)
  PROVE  [Stream!Next]_(Stream!streamVars)
<1>. DEFINE o == Timed(due)
            e == Output(o.unacked, o.unsent, o.snd)
            g == Prefixed(o.sent, e)
            a == (snd.nrtx + 1) % RtxModulus
            b == Capped(Half(snd))
            s == [snd EXCEPT !.nrtx = a, !.ssthresh = b, !.cwnd = snd.mss]
<1>1. snd \in Senders
  BY DEF IInv, TypeInv
<1>2. /\ written' = written /\ UNCHANGED receiver
      /\ snd' = [snd EXCEPT !.state = "ABORTED"] \/ snd' = g.snd
  BY DEF SlowTmr, Removed, Sends, Prefixed
<1>3. g.snd = e.snd
  <2>1. SameBut(g, e, o.sent)
    BY WithPre
  <2>. HIDE DEF g, e
  <2>. QED
    BY <2>1 DEF SameBut
<1>4. o.snd = Output(<<>>, Requeued, s).snd \/ o.snd = snd
  BY DEF Timed
<1>5. s \in Senders /\ s.fin = snd.fin
  <2>1. a \in Int
    <3>1. RtxModulus \in Nat /\ RtxModulus > 0 /\ snd.nrtx + 1 \in Int
      BY <1>1, SizeAssumption, SenderType
    <3>. QED
      BY <3>1
  <2>2. b \in 0 .. Wnd
    BY <1>1, HalfIs, CappedIs
  <2>3. snd.mss \in 0 .. Wnd
    <3>1. snd.mss \in Nat /\ 2 * snd.mss <= Wnd /\ Wnd \in Nat
      BY <1>1, SenderType, Constants
    <3>. QED
      BY <3>1
  <2>. HIDE DEF a, b
  <2>. QED
    BY <1>1, <2>1, <2>2, <2>3 DEF Senders
<1>. HIDE DEF s
<1>6. snd.state \in States
  BY <1>1, SenderType
<1>7. HasFin(o.snd) /\ o.snd.fin = snd.fin
  <2>1. /\ Output(<<>>, Requeued, s).snd.fin = s.fin
        /\ HasFin(Output(<<>>, Requeued, s).snd)
    BY <1>5, FinOfOutput, SendersHaveFin
  <2>2. HasFin(snd)
    BY <1>1, SendersHaveFin
  <2>. HIDE DEF o
  <2>. QED
    BY <1>4, <1>5, <2>1, <2>2
<1>8. CASE snd' = [snd EXCEPT !.state = "ABORTED"]
  <2>1. snd'.fin = snd.fin
    BY <1>1, <1>8 DEF Senders
  <2>. QED
    BY <1>2, <2>1, SenderStreams
<1>9. CASE snd' = g.snd
  <2>1. e.snd.fin = o.snd.fin
    <3>. HIDE DEF o
    <3>. QED
      BY <1>7, FinOfOutput
  <2>. HIDE DEF g, e, o
  <2>2. snd'.fin = snd.fin
    BY <1>3, <1>7, <1>9, <2>1
  <2>. QED
    BY <1>2, <2>2, SenderStreams
<1>. QED
  BY <1>2, <1>8, <1>9

(* tcp_input of a segment.                                                 *)
LEMMA DeliverStreams ==
  ASSUME IInv, IInv', NEW i \in DOMAIN data, NEW again \in BOOLEAN, NEW b \in BOOLEAN,
         Deliver(i, again, b)
  PROVE  [Stream!Next]_(Stream!streamVars)
<1>. DEFINE w == Len(written)
            e == data[i]
            p == Received(e, b)
<1>1. /\ w \in 0 .. StreamLen /\ w \in Nat /\ snd \in Senders /\ rcv \in Receivers
      /\ refused \in [bytes : Seq(Nat), fin : BOOLEAN] /\ given \in Seq(Nat)
      /\ data \in Seq(Packets) /\ ReceiverInv(rcv, refused, given, snd, w)
      /\ PacketInv(e, snd, w, rcv)
  BY WrittenType DEF IInv, TypeInv
<1>2. e \in Packets /\ Holds(e, snd, w) /\ EndOff(e) <= Reach(snd)
  BY <1>1, ElementOfSeq DEF PacketInv
<1>3. /\ UNCHANGED sender
      /\ \/ rcv' = rcv /\ given' = given
         \/ rcv' = p.rcv /\ given' = given \o p.given
  BY DEF Deliver
<1>. HIDE DEF e, w
<1>4. p.given \in Seq(Nat) /\ (rcv.ended => p.rcv.ended)
  BY <1>1, <1>2, ReceivedIs
<1>. HIDE DEF p
<1>5. CASE rcv' = rcv /\ given' = given
  <2>1. <<>> \in Seq(Nat) /\ given' = given \o <<>>
    BY <1>1, <1>5
  <2>. DEFINE more == <<>>
  <2>2. more \in Seq(Nat) /\ given' = given \o more
    BY <2>1
  <2>. HIDE DEF more
  <2>. QED
    BY <1>3, <1>5, <2>2, ReceiverStreams
<1>6. CASE rcv' = p.rcv /\ given' = given \o p.given
  BY <1>3, <1>4, <1>6, ReceiverStreams
<1>. QED
  BY <1>3, <1>5, <1>6

(* tcp_fasttmr.                                                            *)
LEMMA FastTmrStreams ==
  ASSUME IInv, IInv', NEW b \in BOOLEAN, FastTmr(b)
  PROVE  [Stream!Next]_(Stream!streamVars)
<1>. DEFINE r == IF rcv.delayed THEN Sent(rcv) ELSE rcv
            p == Offer(r, refused, b)
<1>1. /\ rcv \in Receivers /\ refused \in [bytes : Seq(Nat), fin : BOOLEAN]
      /\ snd \in Senders /\ Len(written) \in 0 .. StreamLen
      /\ ReceiverInv(rcv, refused, given, snd, Len(written))
  BY WrittenType DEF IInv, TypeInv
<1>2. UNCHANGED sender /\ rcv' = p.rcv /\ given' = given \o p.given
  BY DEF FastTmr
<1>. HIDE DEF p
<1>3. r \in Receivers /\ r.ended = rcv.ended
  <2>1. Window(rcv)
    BY <1>1, SentKeeps
  <2>2. Sent(rcv) \in Receivers /\ Sent(rcv).ended = rcv.ended
    BY <1>1, <2>1, SentIs
  <2>. QED
    BY <1>1, <2>2
<1>. HIDE DEF r
<1>4. p.given \in Seq(Nat) /\ (rcv.ended => p.rcv.ended)
  <2>1. refused.bytes \in Seq(Nat) /\ refused.fin \in BOOLEAN
    BY <1>1
  <2>2. /\ b => p.rcv = r /\ p.given = <<>>
        /\ ~b => /\ p.rcv.ended <=> r.ended \/ refused.fin
                 /\ p.given = refused.bytes
    <3>1. r \in Receivers /\ b \in BOOLEAN
      BY <1>3
    <3>. DEFINE f == refused
    <3>2. f.bytes \in Seq(Nat) /\ f.fin \in BOOLEAN
      BY <2>1
    <3>. DEFINE z == Offer(r, f, b)
    <3>. HIDE DEF f
    <3>3. OfferedAs(z, r, f, b)
      BY ONLY <3>1, <3>2, OfferIs
    <3>4. OfferedAs(p, r, refused, b)
      BY <3>3 DEF f, z, p
    <3>. QED
      BY ONLY <3>4 DEF OfferedAs
  <2>3. CASE b
    <3>1. <<>> \in Seq(Nat)
      OBVIOUS
    <3>. QED
      BY <1>3, <2>2, <2>3, <3>1
  <2>4. CASE ~b
    BY <1>3, <2>1, <2>2, <2>4
  <2>. QED
    BY <2>3, <2>4
<1>. QED
  BY <1>2, <1>4, ReceiverStreams

(* tcp_recved gives nothing.                                               *)
LEMMA ReadStreams ==
  ASSUME IInv, IInv', Read
  PROVE  [Stream!Next]_(Stream!streamVars)
<1>. DEFINE x == MinOf(rcv.wnd + rcv.unread, Wnd)
            r == [rcv EXCEPT !.wnd = x, !.unread = 0]
            u == Announced(r)
<1>1. rcv \in Receivers /\ given \in Seq(Nat)
  BY DEF IInv, TypeInv
<1>2. UNCHANGED <<sender, given>> /\ (rcv' = Sent(u) \/ rcv' = u)
  BY DEF Read
<1>. HIDE DEF x
<1>3. rcv'.ended = rcv.ended
  <2>1. u.ended = rcv.ended
    BY <1>1 DEF Announced, Receivers
  <2>2. Sent(u).ended = rcv.ended
    BY <1>1 DEF Sent, Announced, Receivers
  <2>. QED
    BY <1>2, <2>1, <2>2
<1>4. snd' = snd /\ written' = written /\ given' = given
  BY <1>2 DEF sender
<1>. QED
  BY <1>3, <1>4 DEF Stream!streamVars

(* Whatever the network loses, repeats or reorders, whatever the callback  *)
(* refuses, the bytes tcp_write accepts are given to the reader each once  *)
(* and in order, and the end is told after the last of them and only once  *)
(* tcp_close was called.                                                   *)
THEOREM StreamImplemented == Spec => ImplementsStream
<1>1. Init => Stream!Init
  BY DEF Init, Stream!Init
<1>2. IInv /\ IInv' /\ [Next]_vars => [Stream!Next]_(Stream!streamVars)
  <2>. SUFFICES ASSUME IInv, IInv', [Next]_vars PROVE [Stream!Next]_(Stream!streamVars)
    OBVIOUS
  <2>1. ASSUME NEW len \in Sizes, NEW copy \in Copies, Write(len, copy)
        PROVE  [Stream!Next]_(Stream!streamVars)
    BY <2>1, WriteStreams
  <2>2. CASE Flush
    <3>1. /\ snd \in Senders /\ written' = written /\ UNCHANGED receiver
          /\ snd' = Output(unacked, unsent, snd).snd
      BY <2>2 DEF Flush, Sends, IInv, TypeInv
    <3>2. snd'.fin = snd.fin
      BY <3>1, FinOfOutput, SendersHaveFin
    <3>. QED
      BY <3>1, <3>2, SenderStreams
  <2>3. CASE Close
    BY <2>3, CloseStreams
  <2>4. ASSUME NEW i \in DOMAIN acks, NEW again \in BOOLEAN, ReceiveAck(i, again)
        PROVE  [Stream!Next]_(Stream!streamVars)
    BY <2>4, ReceiveAckStreams
  <2>5. ASSUME NEW due \in BOOLEAN, SlowTmr(due) PROVE [Stream!Next]_(Stream!streamVars)
    BY <2>5, SlowTmrStreams
  <2>6. ASSUME NEW i \in DOMAIN data, NEW again \in BOOLEAN, NEW refuses \in BOOLEAN,
               Deliver(i, again, refuses)
        PROVE  [Stream!Next]_(Stream!streamVars)
    BY <2>6, DeliverStreams
  <2>7. CASE Read
    BY <2>7, ReadStreams
  <2>8. ASSUME NEW refuses \in BOOLEAN, FastTmr(refuses)
        PROVE  [Stream!Next]_(Stream!streamVars)
    BY <2>8, FastTmrStreams
  <2>9. CASE Lose
    BY <2>9 DEF Lose, sender, receiver, Stream!streamVars
  <2>10. CASE UNCHANGED vars
    BY <2>10 DEF vars, Stream!streamVars
  <2>. QED
    BY <2>1, <2>2, <2>3, <2>4, <2>5, <2>6, <2>7, <2>8, <2>9, <2>10 DEF Next
<1>. QED
  BY <1>1, <1>2, Invariance, PTL DEF Spec, ImplementsStream, Stream!Spec
=============================================================================

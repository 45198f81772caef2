------------------------------ MODULE TcpData ------------------------------
(***************************************************************************)
(* The data of a TCP connection, in one direction: tcp_write, tcp_output,  *)
(* retransmission and the persist timer at the sending end, tcp_receive at *)
(* both ends, refused data and window updates at the receiving end, over a *)
(* network that loses, repeats and reorders segments.  The connection is   *)
(* established when it begins, and the sender may close it.                *)
(*                                                                         *)
(* A byte is the place it has in the stream, so that what a sequence       *)
(* number stands for and what it is used for can differ.  Round-trip times *)
(* are left out: a retransmission may be due at any tcp_slowtmr.  An ACK   *)
(* that cannot be allocated counts as lost.                                *)
(***************************************************************************)
EXTENDS FiniteSets, SequencesExt, Sums

CONSTANTS
  StreamLen,     (* bound: bytes the sender writes                         *)
  Sizes,         (* bound: the lengths given to tcp_write                  *)
  Copies,        (* whether TCP_WRITE_FLAG_COPY is set: a set of BOOLEAN   *)
  Msses,         (* what the two ends may have agreed on as the mss        *)
  Wnd,           (* TCP_WND                                                *)
  SndBuf,        (* TCP_SND_BUF                                            *)
  SndQueueLen,   (* TCP_SND_QUEUELEN, in pbufs                             *)
  MaxRtx,        (* TCP_MAXRTX                                             *)
  RtxModulus,    (* 2^8: nrtx wraps, so that it can pass MaxRtx and return *)
  SeqModulus,        (* 2^32: the modulus of sequence numbers                  *)
  Iss,           (* the sequence number of the first byte                  *)
  MaxFaults,     (* bound: segments that are lost, delivered once more or  *)
                 (* overtaken, data refused by the callback, and timeouts  *)
                 (* with segments still on their way, all together         *)
  Passive        (* whether the receiver has already closed its direction  *)

ASSUME SeqAssumption ==
  /\ SeqModulus \in Nat /\ SeqModulus % 2 = 0 /\ Iss \in 0 .. SeqModulus - 1
  /\ StreamLen \in Nat /\ 2 * (StreamLen + Wnd + 2) <= SeqModulus
ASSUME SizeAssumption ==
  /\ Wnd \in Nat /\ Msses \subseteq 1 .. Wnd \div 2
  /\ SndBuf \in Nat \ {0} /\ SndQueueLen \in Nat \ {0}
  /\ MaxRtx \in Nat \ {0} /\ RtxModulus \in Nat /\ MaxRtx < RtxModulus
  /\ Sizes \subseteq Nat \ {0} /\ Copies \subseteq BOOLEAN

VARIABLES
  unsent,     (* pcb->unsent of the sender                                 *)
  unacked,    (* pcb->unacked                                              *)
  snd,        (* the other fields of the sender's pcb                      *)
  rcv,        (* the fields of the receiver's pcb                          *)
  refused,    (* pcb->refused_data of the receiver                         *)
  data,       (* the segments on their way to the receiver                 *)
  acks,       (* those on their way to the sender                          *)
  faults,     (* how many of the MaxFaults are still to come              *)
  written,    (* the bytes tcp_write accepted                              *)
  given,      (* the bytes the recv callback took                          *)
  sentTold    (* the sum of the sent callbacks                             *)

sender == <<unsent, unacked, snd, written, sentTold>>
receiver == <<rcv, refused, given>>
network == <<data, acks, faults>>
vars == <<unsent, unacked, snd, rcv, refused, data, acks, faults, written,
          given, sentTold>>

-----------------------------------------------------------------------------
(* Sequence numbers.                                                       *)

Plus(a, n) == (a + n) % SeqModulus
Minus(a, b) == (a - b) % SeqModulus

(* TCP_SEQ_LT: the signed difference is negative.                          *)
Lt(a, b) == Minus(a, b) >= SeqModulus \div 2
Leq(a, b) == ~Lt(b, a)
Between(a, b, c) == Leq(b, a) /\ Leq(a, c)

MinOf(a, b) == IF a < b THEN a ELSE b

-----------------------------------------------------------------------------
(* Segments: seq, the bytes, whether FIN is set, and the pbufs of the      *)
(* chain (pbuf_clen).                                                      *)

SegLen(s) == Len(s.bytes)
TcpLen(s) == Len(s.bytes) + (IF s.fin THEN 1 ELSE 0)
SegEnd(s) == Plus(s.seq, TcpLen(s))
Pbufs(q) == Total([i \in DOMAIN q |-> q[i].pbufs])
LastOf(q) == q[Len(q)]

(* How many of q, from the first on, have their places in S.               *)
Leading(q, S) ==
  CHOOSE n \in 0 .. Len(q) :
    /\ \A i \in 1 .. n : i \in S
    /\ n < Len(q) => n + 1 \notin S

(* Where the walk of tcp_rexmit and tcp_output stops in a sorted queue.    *)
Insert(s, q) ==
  LET n == Leading(q, {i \in DOMAIN q : Lt(q[i].seq, s.seq)})
  IN  SubSeq(q, 1, n) \o <<s>> \o SubSeq(q, n + 1, Len(q))

(* The segments of sent put into q, one after the other.                   *)
Inserted(sent, q) ==
  LET after[k \in 0 .. Len(sent)] ==
        IF k = 0 THEN q ELSE Insert(sent[k], after[k - 1])
  IN  after[Len(sent)]

(* snd_nxt when they have been sent: the latest of their ends, or nxt.     *)
Latest(sent, nxt) ==
  LET after[k \in 0 .. Len(sent)] ==
        IF k = 0 THEN nxt
        ELSE IF Lt(after[k - 1], SegEnd(sent[k])) THEN SegEnd(sent[k]) ELSE after[k - 1]
  IN  after[Len(sent)]

-----------------------------------------------------------------------------
(* cwnd and ssthresh are kept only up to the largest window: beyond it     *)
(* they limit nothing.                                                     *)
Capped(n) == MinOf(n, Wnd)

(* refused_data, with PBUF_FLAG_TCP_FIN; the callback never refuses        *)
(* nothing.                                                                *)
Nothing == [bytes |-> <<>>, fin |-> FALSE]

(* The connection is as new, or has been used long enough for cwnd to be   *)
(* as large as it matters, and nothing of what went before is left.        *)
Init ==
  /\ unsent = <<>> /\ unacked = <<>>
  /\ \E mss \in Msses : \E cwnd \in {2 * mss, Wnd} :
       /\ snd = [state |-> IF Passive THEN "CLOSE_WAIT" ELSE "ESTABLISHED",
                 nxt |-> Iss, lastack |-> Iss, lbb |-> Iss, buf |-> SndBuf,
                 queuelen |-> 0, wnd |-> Wnd, wl2 |-> Iss, mss |-> mss,
                 cwnd |-> cwnd, ssthresh |-> Wnd, dupacks |-> 0, infr |-> FALSE,
                 memerr |-> FALSE, fin |-> FALSE, nrtx |-> 0, timed |-> FALSE,
                 persist |-> FALSE, oversize |-> 0]
       /\ rcv = [nxt |-> Iss, wnd |-> Wnd, ann |-> Wnd, edge |-> Plus(Iss, Wnd),
                 mss |-> mss, delayed |-> FALSE, ended |-> FALSE, unread |-> 0]
  /\ refused = Nothing
  /\ data = <<>> /\ acks = <<>>
  /\ faults = MaxFaults
  /\ written = <<>> /\ given = <<>> /\ sentTold = 0

Ready == snd.state \in {"ESTABLISHED", "CLOSE_WAIT"}
Open == snd.state \notin {"CLOSED", "ABORTED"}

-----------------------------------------------------------------------------
(* tcp_output.                                                             *)

(* mutant: the length of a segment is left out of the test of the window   *)
FitsByStart(s, seg) ==
  Minus(seg.seq, s.lastack) <= MinOf(s.wnd, s.cwnd)

(* The window allows seg, counted from the last acknowledged byte.         *)
Fits(s, seg) ==
  Plus(Minus(seg.seq, s.lastack), SegLen(seg)) <= MinOf(s.wnd, s.cwnd)

(* tcp_do_output_nagle, or what overrides it, for the i-th of the queue.   *)
NagleAllows(una, uns, s, i) ==
  \/ i = 1 /\ una = <<>>
  \/ s.infr \/ s.memerr \/ s.fin
  \/ i < Len(uns) \/ SegLen(uns[i]) >= s.mss
  \/ s.buf = 0 \/ s.queuelen >= SndQueueLen

(* What goes over the network of a segment.                                *)
OnWire(seg) == [seq |-> seg.seq, bytes |-> seg.bytes, fin |-> seg.fin]

(* What it sends, and leaves of the queues una and uns and the fields s.   *)
Output(una, uns, s) ==
  LET n == Leading(uns, {i \in DOMAIN uns :
                           Fits(s, uns[i]) /\ NagleAllows(una, uns, s, i)})
      sent == SubSeq(uns, 1, n)
      rest == SubSeq(uns, n + 1, Len(uns))
  IN  [unacked |-> Inserted(sent, una),
       unsent  |-> rest,
       sent    |-> [i \in DOMAIN sent |-> OnWire(sent[i])],
       snd     |-> [s EXCEPT
                     !.nxt = Latest(sent, @),
                     !.timed = @ \/ n > 0,
                     !.oversize = IF rest = <<>> THEN 0 ELSE @,
                     !.memerr = FALSE]]

(* The sender's pcb becomes the result of tcp_output.                      *)
Sends(result) ==
  \E o \in {result} :
    /\ unacked' = o.unacked /\ unsent' = o.unsent /\ snd' = o.snd
    /\ data' = data \o o.sent

-----------------------------------------------------------------------------
(* The application at the sending end.                                     *)

(* What tcp_pbuf_prealloc leaves free behind len bytes; Nagle would hold   *)
(* back a segment that follows others.                                     *)
Spare(len, max, first) ==
  IF ~first \/ unsent # <<>> \/ unacked # <<>> THEN max - len ELSE 0

(* mutant: a pbuf chained to the last segment is not counted               *)
FreshPbufs(two, fresh) == Pbufs(fresh)

(* The pbufs of the second phase and of the third.                         *)
AddedPbufs(two, fresh) == (IF two > 0 THEN 1 ELSE 0) + Pbufs(fresh)

(* tcp_write of the bytes in their three phases: into the space left in    *)
(* the last pbuf, into a pbuf chained to the last segment, into segments   *)
(* of their own.                                                           *)
Segmented(bytes, copy) ==
  LET len == Len(bytes)
      tail == unsent # <<>>
      last == LastOf(unsent)
      one == IF tail THEN MinOf(snd.oversize, len) ELSE 0
      space == snd.mss - SegLen(last) - one
      two == IF tail /\ one < len /\ SegLen(last) > 0 /\ space > 0
             THEN MinOf(space, len - one) ELSE 0
      left == len - one - two
      n == (left + snd.mss - 1) \div snd.mss
      From(i) == one + two + (i - 1) * snd.mss
      Fresh(i) == [seq |-> Plus(snd.lbb, From(i)),
                   bytes |-> SubSeq(bytes, From(i) + 1, MinOf(From(i) + snd.mss, len)),
                   fin |-> FALSE, pbufs |-> IF copy THEN 1 ELSE 2]
      longer == [last EXCEPT !.bytes = @ \o SubSeq(bytes, 1, one + two),
                             !.pbufs = @ + (IF two > 0 THEN 1 ELSE 0)]
      fresh == [i \in 1 .. n |-> Fresh(i)]
  IN  [unsent |-> (IF tail THEN SubSeq(unsent, 1, Len(unsent) - 1) \o <<longer>>
                   ELSE <<>>) \o fresh,
       queuelen |-> snd.queuelen + AddedPbufs(two, fresh),
       fresh |-> n,
       oversize |->
         IF copy /\ n > 0 THEN Spare(SegLen(fresh[n]), snd.mss, n = 1)
         ELSE IF copy /\ two > 0 THEN Spare(two, space, TRUE)
         ELSE snd.oversize - one]

(* tcp_write.  It fails, with nothing but TF_NAGLEMEMERR changed, when     *)
(* there is no room in the buffer or the queue; so it does without memory. *)
Write(len, copy) ==
  LET bytes == [i \in 1 .. len |-> Len(written) + i]
      w == Segmented(bytes, copy)
      ok == /\ len <= snd.buf /\ snd.queuelen < SndQueueLen
            /\ w.fresh > 0 => w.queuelen <= SndQueueLen
  IN  /\ Ready
      /\ Len(written) + len <= StreamLen
      /\ IF ok
         THEN /\ unsent' = w.unsent
              /\ snd' = [snd EXCEPT !.lbb = Plus(@, len), !.buf = @ - len,
                           !.queuelen = w.queuelen, !.oversize = w.oversize]
              /\ written' = written \o bytes
         ELSE /\ snd' = [snd EXCEPT !.memerr = TRUE]
              /\ UNCHANGED <<unsent, written>>
      /\ UNCHANGED <<unacked, sentTold, receiver, network>>

(* tcp_output, called by the application.                                  *)
Flush ==
  /\ Ready /\ unsent # <<>>
  /\ Sends(Output(unacked, unsent, snd))
  /\ UNCHANGED <<written, sentTold, receiver, acks, faults>>

(* tcp_close with all that was received read: tcp_send_fin, which adds the *)
(* FIN to the last unsent segment or enqueues one, then tcp_output.  When  *)
(* there is no room for it the application has to close again.             *)
Close ==
  LET closing == IF snd.state = "ESTABLISHED" THEN "FIN_WAIT_1" ELSE "LAST_ACK"
      s == [snd EXCEPT !.state = closing, !.fin = TRUE]
      seg == [seq |-> snd.lbb, bytes |-> <<>>, fin |-> TRUE, pbufs |-> 1]
      full == snd.queuelen >= SndQueueLen
  IN  /\ Ready
      /\ \/ /\ unsent # <<>>
            /\ Sends(Output(unacked, [unsent EXCEPT ![Len(unsent)].fin = TRUE], s))
         \/ /\ unsent = <<>> /\ ~full /\ snd.buf > 0
            /\ Sends(Output(unacked, <<seg>>,
                 [s EXCEPT !.lbb = Plus(@, 1), !.buf = @ - 1, !.oversize = 0,
                           !.queuelen = @ + 1]))
         \/ /\ unsent = <<>> /\ full
            /\ snd' = [snd EXCEPT !.memerr = TRUE] /\ UNCHANGED <<unacked, unsent, data>>
      /\ UNCHANGED <<written, sentTold, receiver, acks, faults>>

-----------------------------------------------------------------------------
(* The part of tcp_receive about the ACK, and what follows it.             *)

WindowUpdated(m) ==
  IF Lt(snd.wl2, m.ack) \/ (snd.wl2 = m.ack /\ m.wnd > snd.wnd)
  THEN [snd EXCEPT !.wnd = m.wnd, !.wl2 = m.ack, !.persist = m.wnd = 0]
  ELSE snd

Half(s) == IF MinOf(s.cwnd, s.wnd) \div 2 < 2 * s.mss THEN 2 * s.mss
           ELSE MinOf(s.cwnd, s.wnd) \div 2

(* tcp_rexmit_fast: the first unacked segment goes back to unsent.         *)
FastRetransmit(s) ==
  LET queue == Insert(Head(unacked), unsent)
  IN  IF unacked = <<>> \/ s.infr
      THEN [unacked |-> unacked, unsent |-> unsent, told |-> 0, snd |-> s]
      ELSE [unacked |-> Tail(unacked), unsent |-> queue, told |-> 0,
            snd |-> [s EXCEPT
              !.nrtx = (@ + 1) % RtxModulus, !.infr = TRUE,
              !.ssthresh = Capped(Half(s)), !.cwnd = Capped(Half(s) + 3 * s.mss),
              !.oversize = IF LastOf(queue) = Head(unacked) THEN 0 ELSE @]]

(* An ACK of nothing new, which is a duplicate if the window stayed and    *)
(* the retransmission timer runs.                                          *)
AckedNothing(m, s) ==
  LET duplicate == /\ Plus(s.wl2, s.wnd) = Plus(snd.wl2, snd.wnd)
                   /\ s.timed /\ s.lastack = m.ack
      counted == [s EXCEPT !.dupacks = IF ~duplicate THEN 0 ELSE MinOf(@ + 1, 4)]
  IN  IF duplicate /\ s.dupacks = 2 THEN FastRetransmit(counted)
      ELSE [unacked |-> unacked, unsent |-> unsent, told |-> 0,
            snd |-> IF duplicate /\ s.dupacks > 2
                    THEN [counted EXCEPT !.cwnd = Capped(@ + s.mss)] ELSE counted]

(* mutant: the FIN is reported to the sent callback as a byte              *)
FinsTold(q) == 0

(* The ACK of a FIN is not reported.                                       *)
Fins(q) == Cardinality({i \in DOMAIN q : q[i].fin})

(* An ACK of something new: the window grows and the segments it covers    *)
(* are freed.                                                              *)
AckedNew(m, s) ==
  LET acked == Minus(m.ack, s.lastack)
      cwnd == IF s.infr THEN s.ssthresh ELSE s.cwnd
      n == Leading(unacked, {i \in DOMAIN unacked : Leq(SegEnd(unacked[i]), m.ack)})
      gone == SubSeq(unacked, 1, n)
      left == SubSeq(unacked, n + 1, Len(unacked))
  IN  [unacked |-> left, unsent |-> unsent, told |-> acked - Fins(gone),
       snd |-> [s EXCEPT
         !.infr = FALSE, !.nrtx = 0, !.dupacks = 0, !.lastack = m.ack,
         !.buf = @ + acked, !.queuelen = @ - Pbufs(gone),
         !.timed = left # <<>>,
         !.cwnd = Capped(cwnd + (IF cwnd < s.ssthresh THEN s.mss
                                 ELSE (s.mss * s.mss) \div cwnd))]]

(* What a retransmission put back to unsent may be acknowledged as well.   *)
AckedUnsent(m, p) ==
  LET n == Leading(p.unsent, {i \in DOMAIN p.unsent :
                            Between(m.ack, SegEnd(p.unsent[i]), p.snd.nxt)})
      gone == SubSeq(p.unsent, 1, n)
      left == SubSeq(p.unsent, n + 1, Len(p.unsent))
  IN  [p EXCEPT !.unsent = left,
                !.told = IF @ = 0 THEN 0 ELSE @ - Fins(gone),
                !.snd.queuelen = @ - Pbufs(gone),
                !.snd.oversize = IF left = <<>> /\ n > 0 THEN 0 ELSE @]

(* tcp_process: the ACK of all that was sent ends a closing state.         *)
Becomes(m, s) ==
  CASE m.ack = s.nxt /\ s.state = "FIN_WAIT_1" -> "FIN_WAIT_2"
    [] m.ack = s.nxt /\ s.state = "LAST_ACK" -> "CLOSED"
    [] OTHER -> s.state

(* The pcb is removed and its queues are freed.                            *)
Removed(state) ==
  /\ unacked' = <<>> /\ unsent' = <<>>
  /\ snd' = [snd EXCEPT !.state = state]

(* The network delivers the i-th segment on its way, and may keep it to    *)
(* deliver it again; the recv callback may refuse what it is given.        *)
Left(queue, i, again) == IF again THEN queue ELSE RemoveAt(queue, i)
Spends(faulty) ==
  LET n == Len(SelectSeq(faulty, LAMBDA f : f))
  IN  n <= faults /\ faults' = faults - n

(* The branches of tcp_receive for an ACK of nothing, of something, and of *)
(* what was never sent.                                                    *)
Acked(m, s) ==
  IF Leq(m.ack, s.lastack) THEN AckedNothing(m, s)
  ELSE IF Between(m.ack, Plus(s.lastack, 1), s.nxt) THEN AckedNew(m, s)
  ELSE [unacked |-> unacked, unsent |-> unsent, told |-> 0, snd |-> s]

(* tcp_input of an ACK, for a pcb that is there: tcp_receive, the change   *)
(* of state, the sent callback, and tcp_output.                            *)
ReceiveAck(i, again) ==
  /\ i \in DOMAIN acks /\ Open
  /\ acks' = Left(acks, i, again) /\ Spends(<<again, i > 1>>)
  /\ UNCHANGED <<written, receiver>>
  /\ \E m \in {acks[i]} :
     \E s \in {WindowUpdated(m)} : \E acked \in {Acked(m, s)} :
     \E p \in {AckedUnsent(m, acked)} : \E state \in {Becomes(m, p.snd)} :
       \/ state = "CLOSED" /\ Removed(state) /\ UNCHANGED <<data, sentTold>>
       \/ /\ state # "CLOSED"
          /\ Sends(Output(p.unacked, p.unsent, [p.snd EXCEPT !.state = state]))
          /\ sentTold' = sentTold + p.told

-----------------------------------------------------------------------------
(* tcp_slowtmr.                                                            *)

(* The retransmission timer runs, and not the persist timer.               *)
Retransmits == ~snd.persist /\ snd.timed /\ unacked # <<>>
Probes == snd.persist /\ unacked \o unsent # <<>>

(* The timer would be early: something is still on its way.                *)
Early(due) == due /\ (Retransmits \/ Probes) /\ data \o acks # <<>>

(* mutant: only what was sent once is probed with                          *)
ProbeUnacked ==
  LET seg == Head(unacked)
  IN  IF ~snd.persist \/ unacked = <<>> THEN <<>>
      ELSE <<[seq |-> seg.seq, bytes |-> SubSeq(seg.bytes, 1, MinOf(1, SegLen(seg))),
              fin |-> seg.fin /\ seg.bytes = <<>>]>>

(* The one byte, or the FIN, of tcp_zero_window_probe.                     *)
Probe ==
  LET seg == Head(unacked \o unsent)
  IN  IF ~Probes THEN <<>>
      ELSE <<[seq |-> seg.seq, bytes |-> SubSeq(seg.bytes, 1, MinOf(1, SegLen(seg))),
              fin |-> seg.fin /\ seg.bytes = <<>>]>>

(* tcp_rexmit_rto puts what was not acknowledged before what was not sent. *)
Requeued == unacked \o unsent

(* The timer that runs is due or not.                                      *)
Timed(due) ==
  LET lost == [snd EXCEPT !.nrtx = (@ + 1) % RtxModulus,
                          !.ssthresh = Capped(Half(snd)), !.cwnd = snd.mss]
  IN  IF due /\ Retransmits THEN Output(<<>>, Requeued, lost)
      ELSE [unacked |-> unacked, unsent |-> unsent, snd |-> snd,
            sent |-> IF due THEN Probe ELSE <<>>]

(* The connection is given up, or its timer is served; then tcp_output: no *)
(* tcp_poll has set an interval, so every tick ends in it.                 *)
SlowTmr(due) ==
  /\ Open
  /\ UNCHANGED <<written, sentTold, receiver, acks>>
  /\ Spends(<<Early(due)>>)
  /\ \/ snd.nrtx = MaxRtx /\ Removed("ABORTED") /\ UNCHANGED data
     \/ /\ snd.nrtx # MaxRtx
        /\ \E o \in {Timed(due)} :
             \E q \in {Output(o.unacked, o.unsent, o.snd)} :
               Sends([q EXCEPT !.sent = o.sent \o @])

-----------------------------------------------------------------------------
(* The receiver.                                                           *)

(* tcp_update_rcv_ann_wnd: the right edge moves only by as much as is      *)
(* worth announcing.                                                       *)
Announces(r) ==
  Leq(Plus(r.edge, MinOf(Wnd \div 2, r.mss)), Plus(r.nxt, r.wnd))
Announced(r) ==
  [r EXCEPT !.ann = IF Announces(r) THEN r.wnd
                    ELSE IF Lt(r.edge, r.nxt) THEN 0 ELSE Minus(r.edge, r.nxt)]
Inflation(r) == IF Announces(r) THEN Minus(Plus(r.nxt, r.wnd), r.edge) ELSE 0

(* An ACK is sent, with the window as announced.                           *)
AckOf(r) == [ack |-> r.nxt, wnd |-> r.ann]
Sent(r) == [r EXCEPT !.edge = Plus(r.nxt, r.ann), !.delayed = FALSE]

(* The application has read all it took, and calls tcp_recved: an update   *)
(* is due at once when the window grows by TCP_WND_UPDATE_THRESHOLD.       *)
Read ==
  LET r == [rcv EXCEPT !.wnd = MinOf(@ + rcv.unread, Wnd), !.unread = 0]
  IN  /\ rcv.unread > 0
      /\ IF Inflation(r) >= Wnd \div 4
         THEN rcv' = Sent(Announced(r)) /\ acks' = Append(acks, AckOf(Announced(r)))
         ELSE rcv' = Announced(r) /\ UNCHANGED acks
      /\ UNCHANGED <<sender, refused, given, data, faults>>

(* The end of the stream is reported; the FIN's place in the window is     *)
(* given back.                                                             *)
Ended(r) == [r EXCEPT !.ended = TRUE, !.wnd = IF @ # Wnd THEN @ + 1 ELSE @]

(* The recv callback takes the bytes and is told of a FIN behind them, or  *)
(* it refuses and both are kept.                                           *)
Offer(r, seg, refuses) ==
  IF refuses THEN [rcv |-> r, refused |-> [bytes |-> seg.bytes, fin |-> seg.fin],
                   given |-> <<>>]
  ELSE [rcv |-> LET t == [r EXCEPT !.unread = @ + Len(seg.bytes)]
                IN  IF seg.fin THEN Ended(t) ELSE t,
        refused |-> Nothing, given |-> seg.bytes]

(* The front of a segment that the receiver has already is cut off.        *)
FrontTrimmed(r, seg) ==
  LET off == Minus(r.nxt, seg.seq)
  IN  IF Between(r.nxt, Plus(seg.seq, 1), Plus(seg.seq, TcpLen(seg) - 1))
      THEN [seg EXCEPT !.seq = r.nxt,
                       !.bytes = SubSeq(@, off + 1, Len(@))]
      ELSE seg

(* What does not fit in the window is cut off, the FIN first.              *)
EndTrimmed(r, seg) ==
  IF TcpLen(seg) > r.wnd
  THEN [seg EXCEPT !.bytes = SubSeq(@, 1, r.wnd), !.fin = FALSE] ELSE seg

(* mutant: any segment within the window is taken for the next one         *)
NextInAnyOrder(r, seg) ==
  Between(seg.seq, r.nxt, Plus(r.nxt, r.wnd - 1))

(* In the window, and the next in sequence: nothing else is kept.          *)
NextInSequence(r, seg) ==
  Between(seg.seq, r.nxt, Plus(r.nxt, r.wnd - 1)) /\ seg.seq = r.nxt

(* tcp_receive of a segment the pcb has room for, then the recv callback.  *)
(* The second ACK in a row that can wait is sent at once.                  *)
Accepted(r, seg, refuses) ==
  LET s == EndTrimmed(r, seg)
      n == TcpLen(s)
      now == r.delayed \/ s.fin
      moved == Announced([r EXCEPT !.nxt = Plus(@, n), !.wnd = @ - n, !.delayed = TRUE])
      p == Offer(moved, s, refuses)
  IN  [rcv |-> IF now THEN Sent(p.rcv) ELSE p.rcv,
       refused |-> p.refused, given |-> p.given,
       acks |-> IF now THEN <<AckOf(p.rcv)>> ELSE <<>>]

(* Any other segment is answered at once with what is expected.            *)
Unexpected(r) ==
  [rcv |-> Sent(r), refused |-> Nothing, given |-> <<>>, acks |-> <<AckOf(r)>>]

(* What tcp_process makes of seg once what was refused has been taken.     *)
Received(seg, refuses) ==
  LET old == Offer(rcv, refused, FALSE)
      cut == FrontTrimmed(old.rcv, seg)
      next == NextInSequence(old.rcv, cut)
      new == IF next THEN Accepted(old.rcv, cut, refuses) ELSE Unexpected(old.rcv)
  IN  [rcv |-> new.rcv, refused |-> new.refused, given |-> old.given \o new.given,
       acks |-> new.acks, called |-> next /\ cut.bytes # <<>>]

(* tcp_input of a segment: what was refused is offered first, and when it  *)
(* is refused again the segment is dropped unanswered.                     *)
Deliver(i, again, refuses) ==
  /\ i \in DOMAIN data
  /\ data' = Left(data, i, again) /\ Spends(<<again, refuses, i > 1>>)
  /\ \/ /\ refuses /\ refused # Nothing
        /\ UNCHANGED <<rcv, refused, given, acks>>
     \/ \E p \in {Received(data[i], refuses)} :
          /\ refuses => p.called
          /\ rcv' = p.rcv /\ refused' = p.refused
          /\ given' = given \o p.given /\ acks' = acks \o p.acks
  /\ UNCHANGED sender

(* tcp_fasttmr: the delayed ACK is sent, and what was refused is offered.  *)
FastTmr(refuses) ==
  /\ rcv.delayed \/ refused # Nothing
  /\ refuses => refused # Nothing
  /\ Spends(<<refuses>>)
  /\ acks' = IF rcv.delayed THEN Append(acks, AckOf(rcv)) ELSE acks
  /\ \E p \in {Offer(IF rcv.delayed THEN Sent(rcv) ELSE rcv, refused, refuses)} :
       rcv' = p.rcv /\ refused' = p.refused /\ given' = given \o p.given
  /\ UNCHANGED <<sender, data>>

-----------------------------------------------------------------------------
(* The network loses a segment or an ACK.                                  *)
Lose ==
  /\ Spends(<<TRUE>>)
  /\ \/ \E i \in DOMAIN data : data' = RemoveAt(data, i) /\ UNCHANGED acks
     \/ \E i \in DOMAIN acks : acks' = RemoveAt(acks, i) /\ UNCHANGED data
  /\ UNCHANGED <<sender, receiver>>

Next ==
  \/ \E len \in Sizes, copy \in Copies : Write(len, copy)
  \/ Flush
  \/ Close
  \/ \E i \in DOMAIN acks, again \in BOOLEAN : ReceiveAck(i, again)
  \/ \E due \in BOOLEAN : SlowTmr(due)
  \/ \E i \in DOMAIN data, again, refuses \in BOOLEAN : Deliver(i, again, refuses)
  \/ Read
  \/ \E refuses \in BOOLEAN : FastTmr(refuses)
  \/ Lose

(* When SlowTmr(TRUE) is a step that changes something.                    *)
TickChanges ==
  /\ Open
  /\ Early(TRUE) => faults > 0
  /\ \/ snd.nrtx = MaxRtx \/ Early(TRUE)
     \/ \E o \in {Timed(TRUE)} : \E q \in {Output(o.unacked, o.unsent, o.snd)} :
          o.sent \o q.sent # <<>> \/ q.snd # snd

(* Timers come round, what is on its way arrives in the end, and the       *)
(* reader reads.  Three conjuncts are WF_vars of the action they name with *)
(* its ENABLED written out, for TLC's sake: a delivery is possible when    *)
(* there is something to deliver, and removes it.                          *)
Fairness ==
  /\ []<>~TickChanges \/ []<><<SlowTmr(TRUE)>>_vars
  /\ []<>(acks = <<>> \/ ~Open) \/ []<><<ReceiveAck(1, FALSE)>>_vars
  /\ []<>(data = <<>>) \/ []<><<Deliver(1, FALSE, FALSE)>>_vars
  /\ WF_vars(FastTmr(FALSE))
  /\ WF_vars(Read)

Spec == Init /\ [][Next]_vars /\ Fairness

-----------------------------------------------------------------------------
Bytes == 1 .. StreamLen
Stream == INSTANCE ByteStream WITH closed <- snd.fin, ended <- rcv.ended

(* The bytes that tcp_write accepts are given to the recv callback each    *)
(* once and in order, whatever the network and the callbacks do, and the   *)
(* end of the stream is told after the last of them, and only if           *)
(* tcp_close was called.                                                   *)
ImplementsStream == Stream!Spec

Outstanding == unacked \o unsent

(* The queues of an open connection hold, in order, all that was accepted  *)
(* and is not acknowledged, each byte in one segment and at its sequence   *)
(* number, whatever was taken back to unsent to be sent again; no segment  *)
(* is longer than TCP_MSS, and snd_buf and snd_queuelen, which tcp_write   *)
(* trusts and never counts again, say what the queues hold.                *)
QueueSound ==
  Open =>
    /\ snd.queuelen = Pbufs(Outstanding)
    /\ \A i \in DOMAIN Outstanding :
         /\ SegLen(Outstanding[i]) <= snd.mss
         /\ i > 1 => Outstanding[i].seq = SegEnd(Outstanding[i - 1])
         /\ \A k \in 1 .. SegLen(Outstanding[i]) :
              Minus(Outstanding[i].seq, Iss) + k = Outstanding[i].bytes[k]
    /\ Outstanding # <<>> =>
         /\ Leq(Head(Outstanding).seq, snd.lastack)
         /\ Minus(SegEnd(LastOf(Outstanding)), Iss) = Len(written) + (IF snd.fin THEN 1 ELSE 0)
    /\ snd.buf + Len(written) - MinOf(Len(written), Minus(snd.lastack, Iss)) \in
         SndBuf - (IF snd.fin THEN 1 ELSE 0) .. SndBuf + (IF snd.fin THEN 1 ELSE 0)

(* Nothing is sent beyond the right edge of the window that the receiver   *)
(* has announced, but the one byte of a probe and a FIN, although the      *)
(* window that snd_wnd holds is counted from lastack and not from the ACK  *)
(* it came with.                                                           *)
NeverBeyondWindow ==
  \A seg \in ToSet(data) :
    Len(seg.bytes) > 1 => Leq(Plus(seg.seq, Len(seg.bytes)), rcv.edge)

(* The sent callbacks of an open connection add up to the bytes that are   *)
(* acknowledged, and never count the FIN.                                  *)
SentExact ==
  Open => sentTold = MinOf(Minus(snd.lastack, Iss), Len(written))

Settled == given = written /\ (snd.fin => rcv.ended)

(* What the window does not let go, though it is not shut and nothing is   *)
(* on its way: no timer runs for it.                                       *)
Starved ==
  /\ unacked = <<>> /\ unsent # <<>>
  /\ ~snd.persist /\ ~Fits(snd, Head(unsent))

(* Everything written is given in the end, and the end is told, unless the *)
(* connection is given up or a lost window update has left it starved:     *)
(* lost segments are sent again, refused data is offered again, a window   *)
(* that is shut is probed.                                                 *)
DeliveredOrStarved == []<>(Settled \/ ~Open \/ Starved)

(* What tcp_out.c:1406 says of the persist timer: a lost window update     *)
(* does not stop the connection.                                           *)
Delivered == []<>(Settled \/ ~Open)

(* What tcp.c:259 says of tcp_close: what is unsent is sent later.         *)
ClosedWhenSent == [][snd'.state = "CLOSED" => unsent = <<>>]_vars
=============================================================================

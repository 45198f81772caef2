------------------------------- MODULE IpReass -------------------------------
(***************************************************************************)
(* Reassembly of IP datagrams, ip_frag.c: the list of datagrams that wait  *)
(* for fragments, the counter and the pool that limit it, what is thrown   *)
(* out to make room, and the test whether a datagram is whole.             *)
(*                                                                         *)
(* Offsets are counted in units of the smallest fragment.  The header that *)
(* is kept and the ICMP message about a datagram that is given up are left *)
(* out: they go with the datagram and change nothing else.                 *)
(***************************************************************************)
EXTENDS Integers, FiniteSets, SequencesExt

CONSTANTS
  Ids,            (* bound: datagrams, told apart by addresses and IP id    *)
  DatagramLen,    (* bound: the length of each of them                      *)
  FragPbufs,      (* how many pbufs a fragment may be in                    *)
  NumReassData,   (* MEMP_NUM_REASSDATA                                     *)
  MaxPbufs,       (* IP_REASS_MAX_PBUFS                                     *)
  MaxAge          (* IP_REASS_MAXAGE                                        *)

ReassAssumption ==
  /\ DatagramLen \in Nat \ {0} /\ FragPbufs \subseteq Nat \ {0}
  /\ NumReassData \in Nat \ {0} /\ MaxPbufs \in Nat \ {0} /\ MaxAge \in Nat

VARIABLES
  queue,      (* reassdatagrams, the latest first                           *)
  pbufcount,  (* ip_reass_pbufcount                                         *)
  passed      (* what the last step passed on to ip_input, or Nothing       *)

reassVars == <<queue, pbufcount, passed>>

(* Any piece of a datagram can be a fragment: the routers on different     *)
(* ways may cut it differently.                                            *)
Fragments ==
  {[start |-> s, end |-> e, pbufs |-> n] :
     s \in 0 .. DatagramLen - 1, e \in 1 .. DatagramLen, n \in FragPbufs}
Pieces == {f \in Fragments : f.start < f.end /\ f.end - f.start < DatagramLen}

Pbufs(frags) == FoldLeft(LAMBDA n, f : n + f.pbufs, 0, frags)
HeldPbufs(q) == FoldLeft(LAMBDA n, r : n + Pbufs(r.frags), 0, q)

(* An entry that was freed and is still in the list: from then on the      *)
(* program reads what it no longer owns, and the model stops.              *)
OnlyLive(q) == \A i \in DOMAIN q : q[i].live
Live(q) == SelectSeq(q, LAMBDA r : r.live)

Nothing == <<>>

Init ==
  /\ queue = <<>>
  /\ pbufcount = 0
  /\ passed = Nothing

-----------------------------------------------------------------------------
(* ip_reass_dequeue_datagram: the o-th entry is taken out of the list by   *)
(* way of the prev-th, which ought to be the one before it.                *)
Dequeued(q, o, prev) ==
  IF o = 1 \/ prev = o - 1 THEN RemoveAt(q, o) ELSE [q EXCEPT ![o].live = FALSE]

(* The entries of other datagrams than id.                                 *)
Others(q, id) == {i \in DOMAIN q : q[i].id # id}

(* The last of those with the least time left.                             *)
Oldest(q, others) ==
  CHOOSE i \in others :
    \A j \in others : q[i].timer < q[j].timer \/ (q[i].timer = q[j].timer /\ j <= i)

(* The entry that ip_reass_remove_oldest_datagram takes for the one before *)
(* the oldest: the last but one of the list.                               *)
LastButOne(q, o) == Len(q) - 1

(* One turn of its loop; s is the queue, the counter and how many pbufs    *)
(* were freed.                                                             *)
OldestRemoved(s, id) ==
  LET o == Oldest(s.queue, Others(s.queue, id))
      n == Pbufs(s.queue[o].frags)
  IN  [queue |-> Dequeued(s.queue, o, LastButOne(s.queue, o)),
       count |-> s.count - n, freed |-> s.freed + n]

(* ip_reass_remove_oldest_datagram: as long as it is not enough and there  *)
(* was more than one other datagram to choose from.                        *)
RoomMade(s, id, need) ==
  LET Turn(t) ==
        IF t.more THEN LET u == OldestRemoved(t.s, id)
                       IN  [s |-> u, more |-> /\ u.freed < need /\ OnlyLive(u.queue)
                                              /\ Cardinality(Others(t.s.queue, id)) > 1]
        ELSE t
  IN  FoldLeft(LAMBDA t, i : Turn(t),
               [s |-> s, more |-> Others(s.queue, id) # {}],
               [i \in 1 .. Len(s.queue) |-> i]).s

-----------------------------------------------------------------------------
(* ip_reass_chain_frag_into_datagram_and_validate.                         *)

(* How many of the fragments begin no later than f; they are sorted.       *)
Before(frags, f) == Cardinality({i \in DOMAIN frags : frags[i].start <= f.start})

(* f is thrown away: it is there already, or overlaps one of those before  *)
(* it or, if it has one before it, the one behind it.                      *)
Overlaps(frags, f) ==
  LET n == Before(frags, f)
  IN  \/ \E i \in 1 .. n : frags[i].start = f.start \/ f.start < frags[i].end
      \/ n > 0 /\ n < Len(frags) /\ f.end > frags[n + 1].start

(* Each from the i-th to the j-th begins where the one before it ends.     *)
Joined(frags, i, j) == \A k \in i .. j - 1 : frags[k].end = frags[k + 1].start

(* mutant: what comes behind the new fragment is not looked at             *)
WholeUpTo(frags, n) ==
  /\ frags[1].start = 0 /\ Joined(frags, 1, n)
  /\ n + 1 = Len(frags) => frags[n].end = frags[n + 1].start

(* No holes are found before the n-th, behind which the new one was put    *)
(* in, and none behind it; between the two they are looked for only if it  *)
(* is the last.                                                            *)
FoundWhole(frags, n) ==
  /\ frags[1].start = 0
  /\ Joined(frags, 1, n)
  /\ Joined(frags, n + 1, Len(frags))
  /\ n > 0 /\ n + 1 = Len(frags) => frags[n].end = frags[n + 1].start

-----------------------------------------------------------------------------
(* ip_reass of a fragment.                                                 *)

(* mutant: a fragment that is thrown away stays counted                    *)
KeptCount(count, f, dropped) == count + f.pbufs

(* The counter goes up for every fragment, and down again for one that is  *)
(* thrown away.                                                            *)
CountWith(count, f, dropped) == IF dropped THEN count ELSE count + f.pbufs

(* The fragment joins the i-th datagram of the queue, which may now be     *)
(* whole and is then passed on.                                            *)
Chained(s, i, f) ==
  LET r == s.queue[i]
      n == Before(r.frags, f)
      last == r.last \/ f.end = DatagramLen
      frags == SubSeq(r.frags, 1, n) \o <<f>> \o SubSeq(r.frags, n + 1, Len(r.frags))
      dropped == Overlaps(r.frags, f)
      count == CountWith(s.count, f, dropped)
  IN  IF ~dropped /\ last /\ FoundWhole(frags, n)
      THEN [queue |-> RemoveAt(s.queue, i), count |-> count - Pbufs(frags), passed |-> frags]
      ELSE [queue |-> [s.queue EXCEPT ![i].last = last,
                                      ![i].frags = IF dropped THEN @ ELSE frags],
            count |-> count, passed |-> Nothing]

Entry(id) ==
  [id |-> id, timer |-> MaxAge, last |-> FALSE, frags |-> <<>>, live |-> TRUE]

(* Where id is in the queue, or 0.                                         *)
Find(q, id) ==
  IF \E i \in DOMAIN q : q[i].id = id THEN CHOOSE i \in DOMAIN q : q[i].id = id ELSE 0

(* ip_reass_enqueue_new_datagram: an entry of the pool for the first       *)
(* fragment of a datagram; older datagrams make room when there is none,   *)
(* but the entry is refused if fewer pbufs were freed than are needed.     *)
Enqueued(s, id, f) ==
  LET full == Len(Live(s.queue)) = NumReassData
      t == IF full THEN RoomMade([s EXCEPT !.freed = 0], id, f.pbufs) ELSE s
  IN  IF ~OnlyLive(t.queue) \/ (full /\ t.freed < f.pbufs) THEN t
      ELSE [t EXCEPT !.queue = <<Entry(id)>> \o @]

(* What ip_reass leaves when the pbufs are too many or not.                *)
Reassembled(id, f) ==
  LET full == pbufcount + f.pbufs > MaxPbufs
      start == [queue |-> queue, count |-> pbufcount, freed |-> 0]
      s == IF full THEN RoomMade(start, id, f.pbufs) ELSE start
      refused == full /\ (s.freed = 0 \/ s.count + f.pbufs > MaxPbufs)
      t == IF Find(s.queue, id) = 0 THEN Enqueued(s, id, f) ELSE s
      i == Find(t.queue, id)
  IN  IF refused \/ ~OnlyLive(s.queue)
      THEN [queue |-> s.queue, count |-> s.count, passed |-> Nothing]
      ELSE IF i = 0 \/ ~OnlyLive(t.queue)
      THEN [queue |-> t.queue, count |-> t.count, passed |-> Nothing]
      ELSE Chained(t, i, f)

Reass(id, f) ==
  /\ OnlyLive(queue)
  /\ \E r \in {Reassembled(id, f)} :
       queue' = r.queue /\ pbufcount' = r.count /\ passed' = r.passed

(* ip_reass_tmr.                                                           *)
ReassTmr ==
  /\ OnlyLive(queue) /\ queue # <<>>
  /\ LET kept == SelectSeq(queue, LAMBDA r : r.timer > 0)
     IN  /\ queue' = [i \in DOMAIN kept |-> [kept[i] EXCEPT !.timer = @ - 1]]
         /\ pbufcount' = pbufcount - (HeldPbufs(queue) - HeldPbufs(kept))
  /\ passed' = Nothing

Next ==
  \/ \E id \in Ids, f \in Pieces : Reass(id, f)
  \/ ReassTmr

Spec == Init /\ [][Next]_reassVars

-----------------------------------------------------------------------------
(* ip_reass_pbufcount, which is never counted again, is the number of      *)
(* pbufs that wait, whatever was thrown away, thrown out or passed on; it  *)
(* and the pool keep to their limits, and a datagram waits in one entry.   *)
HeldCounted ==
  /\ pbufcount = HeldPbufs(Live(queue)) /\ pbufcount <= MaxPbufs
  /\ Len(Live(queue)) <= NumReassData
  /\ \A i, j \in DOMAIN queue : queue[i].id = queue[j].id => i = j

(* A datagram that is passed on has its beginning, more than one fragment, *)
(* and no part of it twice, however its fragments overlapped.              *)
PassedOnce ==
  passed # Nothing =>
    /\ Head(passed).start = 0 /\ Len(passed) > 1
    /\ \A i \in 1 .. Len(passed) - 1 : passed[i].end <= passed[i + 1].start

(* What ip_frag.c:568 says: the fragments of a datagram that is passed on  *)
(* were all received.                                                      *)
PassedWhole ==
  passed # Nothing =>
    Joined(passed, 1, Len(passed)) /\ Last(passed).end = DatagramLen

(* What ip_frag.c:165 and 167 assert: a datagram is taken out of the list  *)
(* by way of the one before it, so that nothing freed stays in the list.   *)
FreedLeaves == OnlyLive(queue)
=============================================================================

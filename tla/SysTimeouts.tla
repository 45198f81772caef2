---------------------------- MODULE SysTimeouts ----------------------------
(***************************************************************************)
(* The timeouts of timers.c: a list sorted by expiry in which each entry   *)
(* holds the time after the one before it, sys_timeout, sys_untimeout, and *)
(* sys_check_timeouts, which runs the handlers that are due.  Recurring    *)
(* handlers arm themselves again; tcpip_tcp_timer only while there are     *)
(* connections.                                                            *)
(***************************************************************************)
EXTENDS FiniteSets, SequencesExt, Sums

CONSTANTS
  Recurring,  (* ip_reass_timer, arp_timer, dhcp_timer_coarse, ...         *)
  OneShot,    (* handlers armed by their user                              *)
  TcpTimer,   (* tcpip_tcp_timer                                           *)
  Interval,   (* the interval each recurring handler asks for              *)
  Delays,     (* what the users of one-shot handlers ask for               *)
  NumTimeouts,(* MEMP_NUM_SYS_TIMEOUT                                      *)
  Wrap,       (* 2^32: the values of sys_now()                             *)
  MaxGap      (* bound: time between two calls of sys_check_timeouts       *)

Handlers == Recurring \cup OneShot \cup {TcpTimer}

HandlersAssumption ==
  /\ IsFiniteSet(Recurring) /\ IsFiniteSet(OneShot)
  /\ Recurring \cap OneShot = {} /\ TcpTimer \notin Recurring \cup OneShot
DelaysAssumption ==
  /\ Delays \subseteq Nat /\ Wrap \in Nat /\ MaxGap \in 0 .. Wrap - 1
  /\ Interval \in [Recurring \cup {TcpTimer} -> Nat \ {0}]
NumTimeoutsAssumption == NumTimeouts \in Nat

VARIABLES
  list,       (* next_timeout and its successors                           *)
  now,        (* sys_now()                                                 *)
  last,       (* timeouts_last_time                                        *)
  checked,    (* now of sys_check_timeouts                                 *)
  diff,       (* diff of sys_check_timeouts                                *)
  pc,         (* "idle", or in the loop of sys_check_timeouts              *)
  pcbs,       (* whether tcp_active_pcbs or tcp_tw_pcbs has a pcb          *)
  active      (* tcpip_tcp_timer_active                                    *)

clock == <<now, last, checked, diff, pc>>
vars == <<list, now, last, checked, diff, pc, pcbs, active>>

Armed(l) == {l[i].h : i \in DOMAIN l}

(* The time left to the i-th entry of a list of differences.               *)
Left(l, i) == PartialSums([j \in DOMAIN l |-> l[j].time])[i]

Entry(h, t) == [h |-> h, time |-> t]

Shift(l, d) ==
  IF l = <<>> THEN l ELSE <<[Head(l) EXCEPT !.time = @ - d]>> \o Tail(l)

(* mutant: the entry after the new one keeps its time                      *)
InsertNoShift(l, h, msecs) ==
  LET k == CHOOSE i \in 0 .. Len(l) :
             /\ Left(l, i) <= msecs
             /\ i < Len(l) => Left(l, i + 1) > msecs
      t == msecs - Left(l, k)
  IN IF Len(l) = NumTimeouts THEN l
     ELSE SubSeq(l, 1, k) \o <<Entry(h, t)>> \o SubSeq(l, k + 1, Len(l))

(* sys_timeout: the entry goes behind the ones that are due at the same    *)
(* time; nothing is done when the pool is empty.                           *)
Insert(l, h, msecs) ==
  LET k == CHOOSE i \in 0 .. Len(l) :
             /\ Left(l, i) <= msecs
             /\ i < Len(l) => Left(l, i + 1) > msecs
      t == msecs - Left(l, k)
  IN IF Len(l) = NumTimeouts THEN l
     ELSE SubSeq(l, 1, k) \o <<Entry(h, t)>>
            \o Shift(SubSeq(l, k + 1, Len(l)), t)

(* The list after sys_timeout for each of the handlers hs, in their order. *)
Started(hs) ==
  LET after[k \in 0 .. Len(hs)] ==
        IF k = 0 THEN <<>> ELSE Insert(after[k - 1], hs[k], Interval[hs[k]])
  IN  after[Len(hs)]

(* sys_timeouts_init                                                       *)
Init ==
  /\ list = Started(SetToSeq(Recurring))
  /\ now = 0 /\ last = 0 /\ checked = 0 /\ diff = 0
  /\ pc = "idle"
  /\ pcbs = FALSE /\ active = FALSE

-----------------------------------------------------------------------------
Minus(a, b) == IF a >= b THEN a - b ELSE a - b + Wrap

Clock ==
  /\ pc = "idle" /\ Minus(now, last) < MaxGap
  /\ now' = IF now = Wrap - 1 THEN 0 ELSE now + 1
  /\ UNCHANGED <<list, last, checked, diff, pc, pcbs, active>>

Timeout(h, d) ==
  /\ pc = "idle"
  /\ h \notin Armed(list)
  /\ list' = Insert(list, h, d)
  /\ UNCHANGED <<clock, pcbs, active>>

(* sys_untimeout: the entry is unlinked, its time added to the next one.   *)
Untimeout(h) ==
  /\ pc = "idle"
  /\ \E i \in DOMAIN list :
       /\ list[i].h = h
       /\ list' = SubSeq(list, 1, i - 1)
                    \o Shift(SubSeq(list, i + 1, Len(list)), - list[i].time)
  /\ UNCHANGED <<clock, pcbs, active>>

(* mutant: tcpip_tcp_timer_active is not set                               *)
TcpTimerAlways ==
  /\ pc = "idle"
  /\ pcbs' = TRUE
  /\ list' = Insert(list, TcpTimer, Interval[TcpTimer])
  /\ UNCHANGED <<clock, active>>

(* A connection is registered: tcp_timer_needed.                           *)
TcpTimerNeeded ==
  /\ pc = "idle"
  /\ pcbs' = TRUE
  /\ active' = TRUE
  /\ list' = IF active THEN list
             ELSE Insert(list, TcpTimer, Interval[TcpTimer])
  /\ UNCHANGED <<clock>>

LastPcbGone ==
  /\ pc = "idle" /\ pcbs
  /\ pcbs' = FALSE
  /\ UNCHANGED <<list, clock, active>>

RestartTimeouts ==
  /\ pc = "idle"
  /\ last' = now
  /\ UNCHANGED <<list, now, checked, diff, pc, pcbs, active>>

-----------------------------------------------------------------------------
(* sys_check_timeouts                                                      *)

CheckTimeouts ==
  /\ pc = "idle" /\ list # <<>>
  /\ checked' = now
  /\ diff' = Minus(now, last)
  /\ pc' = "loop"
  /\ UNCHANGED <<list, now, last, pcbs, active>>

(* Recurring handlers arm themselves again; tcpip_tcp_timer does while     *)
(* there are connections.                                                  *)
RearmsItself(h) == h \in Recurring \/ (h = TcpTimer /\ pcbs)

(* The first entry is due: it is unlinked and its handler called.          *)
Expire ==
  /\ pc = "loop" /\ list # <<>>
  /\ Head(list).time <= diff
  /\ LET h == Head(list).h
         rest == Tail(list)
     IN /\ last' = checked
        /\ diff' = diff - Head(list).time
        /\ \/ /\ RearmsItself(h)
              /\ list' = Insert(rest, h, Interval[h])
              /\ UNCHANGED active
           \/ /\ h = TcpTimer /\ ~RearmsItself(h)
              /\ active' = FALSE
              /\ list' = rest
           \/ /\ h \in OneShot
              /\ list' = rest
              /\ UNCHANGED active
  /\ UNCHANGED <<now, checked, pc, pcbs>>

CheckDone ==
  /\ pc = "loop"
  /\ list = <<>> \/ Head(list).time > diff
  /\ pc' = "idle"
  /\ checked' = 0 /\ diff' = 0
  /\ UNCHANGED <<list, now, last, pcbs, active>>

Next ==
  \/ Clock
  \/ \E h \in OneShot : Untimeout(h) \/ \E d \in Delays : Timeout(h, d)
  \/ TcpTimerNeeded \/ LastPcbGone \/ RestartTimeouts
  \/ CheckTimeouts \/ Expire \/ CheckDone

Spec == Init /\ [][Next]_vars

-----------------------------------------------------------------------------
(* Properties.                                                             *)

(* A handler is in the list at most once: a recurring one always, the TCP  *)
(* timer exactly while tcpip_tcp_timer_active says so, and it does while   *)
(* there is a connection, which so never waits without a timer.            *)
ArmedOnce ==
  /\ \A i, j \in DOMAIN list : list[i].h = list[j].h => i = j
  /\ Recurring \subseteq Armed(list)
  /\ active <=> TcpTimer \in Armed(list)
  /\ pcbs => active

(* The time left to each handler of a list.                                *)
LeftsOf(l) ==
  [h \in Armed(l) |-> Left(l, CHOOSE i \in DOMAIN l : l[i].h = h)]

Set == INSTANCE TimerSet WITH
  left <- LeftsOf(list),
  Delays <- Delays \cup {Interval[h] : h \in Recurring \cup {TcpTimer}}

(* The list of differences is a set of times left: inserting, removing and *)
(* expiring one handler changes no other one's.                            *)
ImplementsTimerSet == Set!Spec
=============================================================================

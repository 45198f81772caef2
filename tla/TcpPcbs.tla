------------------------------ MODULE TcpPcbs ------------------------------
(***************************************************************************)
(* The connections of tcp.c: the pool of pcbs, the lists tcp_active_pcbs   *)
(* and tcp_tw_pcbs, the states of a connection, and tcp_tmr, which walks   *)
(* the lists, calls the application on its way, and ends connections that  *)
(* a silent peer would leave for ever.                                     *)
(*                                                                         *)
(* While a callback of the timers runs the application acts as it does     *)
(* otherwise; tcp_input is not called then, and what the application does  *)
(* in its callbacks it does before or after the segment.  Segments are     *)
(* represented by what they do to the state, and data by whether some is   *)
(* unacknowledged or refused.  An ACK acknowledges all that is sent, a     *)
(* retransmission is due at each tcp_slowtmr, the peer's window is open,   *)
(* keepalive is off, and all pcbs have the same priority.                  *)
(***************************************************************************)
EXTENDS Integers, Sequences, Functions

CONSTANTS
  NumPcbs,         (* MEMP_NUM_TCP_PCB                                     *)
  MaxRtx,          (* TCP_MAXRTX                                           *)
  SynMaxRtx,       (* TCP_SYNMAXRTX                                        *)
  RtxModulus,      (* 2^8: nrtx is a u8_t                                  *)
  FinWait,         (* TCP_FIN_WAIT_TIMEOUT, in calls of tcp_slowtmr        *)
  SynRcvd,         (* TCP_SYN_RCVD_TIMEOUT                                 *)
  Msl2,            (* 2 * TCP_MSL                                          *)
  CallbacksChange  (* whether callbacks change tcp_active_pcbs             *)

ASSUME PoolAssumption == NumPcbs \in Nat \ {0}
ASSUME LimitsAssumption ==
  /\ MaxRtx \in Nat /\ SynMaxRtx \in 0 .. MaxRtx
  /\ RtxModulus \in Nat /\ RtxModulus > MaxRtx
  /\ FinWait \in Nat /\ SynRcvd \in Nat /\ Msl2 \in Nat
ASSUME CallbacksAssumption == CallbacksChange \in BOOLEAN

VARIABLES
  pcbs,       (* the pcbs                                                  *)
  active,     (* tcp_active_pcbs                                           *)
  tw,         (* tcp_tw_pcbs                                               *)
  phase,      (* where tcp_tmr is                                          *)
  pcb,        (* the pcb it has come to                                    *)
  prev,       (* prev of tcp_slowtmr                                       *)
  done,       (* the pcbs whose last_timer is tcp_timer_ctr                *)
  slow,       (* whether tcp_slowtmr is next: tcp_timer & 1                *)
  changed     (* tcp_active_pcbs_changed                                   *)

walk == <<phase, pcb, prev, done, slow>>
vars == <<pcbs, active, tw, phase, pcb, prev, done, slow, changed>>

NULL == 0
Pcbs == 1 .. NumPcbs

(* The age of a pcb is tcp_ticks - pcb->tmr, up to where nothing depends   *)
(* on it.                                                                  *)
MaxAge == 1 + (CHOOSE m \in {FinWait, SynRcvd, Msl2} :
                 \A n \in {FinWait, SynRcvd, Msl2} : n <= m)

(* unacked tells whether a segment is unacknowledged, fast is TF_INFR,     *)
(* rxClosed TF_RXCLOSED, refused whether there is refused_data.            *)
Free == [state |-> "FREE", age |-> 0, nrtx |-> 0, unacked |-> FALSE,
         fast |-> FALSE, rxClosed |-> FALSE, refused |-> FALSE]

State(p) == pcbs[p].state
Unused == {p \in Pcbs : State(p) = "FREE"}
Waiting == {p \in Pcbs : State(p) = "TIME_WAIT"}
Active == Pcbs \ (Unused \cup Waiting)

Init ==
  /\ pcbs = [p \in Pcbs |-> Free]
  /\ active = <<>> /\ tw = <<>>
  /\ phase = "idle" /\ pcb = NULL /\ prev = NULL /\ done = {}
  /\ slow = FALSE /\ changed = FALSE

-----------------------------------------------------------------------------
Place(list, p) == IF p = NULL THEN 0 ELSE CHOOSE i \in DOMAIN list : list[i] = p
At(list, i) == IF i \in DOMAIN list THEN list[i] ELSE NULL
First(list) == At(list, 1)

(* pcb->next                                                               *)
After(p) == At(active, Place(active, p) + 1)

(* The next of the ith pcb of the list becomes what is behind the jth.     *)
Cut(list, i, j) ==
  [k \in 1 .. Len(list) - (j - i) |-> IF k <= i THEN list[k] ELSE list[k + (j - i)]]

(* TCP_RMV                                                                 *)
Without(list, p) ==
  IF p \in Range(list) THEN Cut(list, Place(list, p) - 1, Place(list, p)) ELSE list

Oldest(list) ==
  {p \in Range(list) : \A q \in Range(list) : pcbs[q].age <= pcbs[p].age}

(* mutant: tcp_alloc tries tcp_kill_prio before tcp_kill_timewait          *)
AllocatedActiveFirst ==
  IF Unused # {} THEN Unused
  ELSE IF active # <<>> THEN Oldest(active) ELSE Oldest(tw)

(* The pcb tcp_alloc gives: a free one, or else that of the oldest         *)
(* connection in TIME-WAIT, or else of the oldest active one.              *)
Allocated ==
  IF Unused # {} THEN Unused ELSE IF tw # <<>> THEN Oldest(tw) ELSE Oldest(active)

(* The application or a segment puts S on tcp_active_pcbs or takes a pcb   *)
(* off.  Outside the timers no one looks at last_timer and                 *)
(* tcp_active_pcbs_changed before they are set again.                      *)
Changes(S) ==
  IF phase = "idle" THEN UNCHANGED <<walk, changed>>
  ELSE /\ CallbacksChange
       /\ changed' = TRUE /\ done' = done \cup S
       /\ UNCHANGED <<phase, pcb, prev, slow>>

(* A connection is opened with a SYN; ok tells whether it is enqueued, and *)
(* the pcb is freed again otherwise.                                       *)
Open(state, ok) ==
  \E p \in Allocated :
    /\ pcbs' = [pcbs EXCEPT ![p] =
                  IF ok THEN [Free EXCEPT !.state = state, !.unacked = TRUE] ELSE Free]
    /\ active' = (IF ok THEN <<p>> ELSE <<>>) \o Without(active, p)
    /\ tw' = Without(tw, p)
    /\ IF ok \/ p \in Active THEN Changes({p}) ELSE UNCHANGED <<walk, changed>>

(* tcp_pcb_remove and memp_free                                            *)
Gone(p) ==
  /\ pcbs' = [pcbs EXCEPT ![p] = Free]
  /\ active' = Without(active, p)
  /\ UNCHANGED tw

(* mutant: TCP_REG without TCP_RMV_ACTIVE                                  *)
ToTimeWaitStaysActive(p, age) ==
  /\ pcbs' = [pcbs EXCEPT ![p] = [Free EXCEPT !.state = "TIME_WAIT", !.age = age]]
  /\ tw' = <<p>> \o tw
  /\ UNCHANGED active

(* tcp_pcb_purge, TCP_RMV_ACTIVE and TCP_REG(&tcp_tw_pcbs, pcb)            *)
ToTimeWait(p, age) ==
  /\ pcbs' = [pcbs EXCEPT ![p] = [Free EXCEPT !.state = "TIME_WAIT", !.age = age]]
  /\ active' = Without(active, p)
  /\ tw' = <<p>> \o tw

(* p changes to n and stays where it is.                                   *)
Changed(p, n) ==
  /\ pcbs' = [pcbs EXCEPT ![p] = n]
  /\ UNCHANGED <<active, tw, walk, changed>>

-----------------------------------------------------------------------------
(* The application, in a callback of the timers or elsewhere.              *)

AppRuns == phase \in {"idle", "fast_callback", "slow_callback"}

(* The application may use the pcb: it has connected or accepted it, and   *)
(* not yet closed it.                                                      *)
Knows(p) ==
  \/ State(p) \in {"SYN_SENT", "ESTABLISHED", "CLOSE_WAIT"}
  \/ State(p) \in {"FIN_WAIT_1", "FIN_WAIT_2", "CLOSING", "LAST_ACK"}
     /\ ~pcbs[p].rxClosed

(* tcp_new and tcp_connect                                                 *)
Connect(ok) == AppRuns /\ Open("SYN_SENT", ok)

Abort(p) == AppRuns /\ Knows(p) /\ Gone(p) /\ Changes({})

(* tcp_write and tcp_output                                                *)
Write(p) ==
  /\ AppRuns /\ State(p) \in {"ESTABLISHED", "CLOSE_WAIT"}
  /\ Changed(p, [pcbs[p] EXCEPT !.unacked = TRUE])

(* tcp_send_fin, and the state after it.                                   *)
SendFin(p, rx) ==
  /\ State(p) \in {"ESTABLISHED", "CLOSE_WAIT"}
  /\ Changed(p, [pcbs[p] EXCEPT
                   !.state = IF @ = "ESTABLISHED" THEN "FIN_WAIT_1" ELSE "LAST_ACK",
                   !.unacked = TRUE, !.rxClosed = rx])

(* tcp_close: unread tells whether the application has not received all    *)
(* the data, ok whether tcp_send_fin succeeds.                             *)
Close(p, unread, ok) ==
  /\ AppRuns /\ Knows(p)
  /\ pcbs[p].refused => unread
  /\ \/ State(p) = "SYN_SENT" /\ Gone(p) /\ Changes({})
     \/ State(p) = "ESTABLISHED" /\ unread
        /\ ToTimeWait(p, pcbs[p].age) /\ Changes({})
     \/ State(p) = "CLOSE_WAIT" /\ unread /\ Gone(p) /\ Changes({})
     \/ ~unread /\ ok /\ SendFin(p, TRUE)
     \/ /\ \/ State(p) \in {"ESTABLISHED", "CLOSE_WAIT"} /\ ~unread /\ ~ok
           \/ State(p) \in {"FIN_WAIT_1", "FIN_WAIT_2", "CLOSING", "LAST_ACK"}
        /\ Changed(p, [pcbs[p] EXCEPT !.rxClosed = TRUE])

(* tcp_shutdown of the receive side, and of the send side.                 *)
ShutdownRx(p) ==
  /\ AppRuns /\ Knows(p)
  /\ Changed(p, [pcbs[p] EXCEPT !.rxClosed = TRUE, !.refused = FALSE])

ShutdownTx(p) == AppRuns /\ Knows(p) /\ SendFin(p, pcbs[p].rxClosed)

App ==
  \/ \E ok \in BOOLEAN : Connect(ok)
  \/ \E p \in Pcbs : \/ Abort(p) \/ Write(p) \/ ShutdownRx(p) \/ ShutdownTx(p)
                     \/ \E unread, ok \in BOOLEAN : Close(p, unread, ok)

-----------------------------------------------------------------------------
(* tcp_input                                                               *)

(* A segment for p: refused data is offered to the application again, and  *)
(* the time is noted unless the receive side is closed.                    *)
Heard(p, refuse) ==
  [pcbs[p] EXCEPT !.age = IF pcbs[p].rxClosed THEN @ ELSE 0,
                  !.refused = @ /\ refuse]

Acked(n) == [n EXCEPT !.unacked = FALSE, !.nrtx = 0, !.fast = FALSE]

(* p becomes n and the first of tcp_active_pcbs.                           *)
Becomes(p, n) ==
  /\ pcbs' = [pcbs EXCEPT ![p] = n]
  /\ active' = <<p>> \o Without(active, p)
  /\ UNCHANGED <<tw, walk, changed>>

TimeWait(p, n) == ToTimeWait(p, n.age) /\ UNCHANGED <<walk, changed>>
Closed(p) == Gone(p) /\ UNCHANGED <<walk, changed>>

(* tcp_listen_input: a SYN for a port that listens.                        *)
Syn(ok) == Open("SYN_RCVD", ok)

(* The SYN again: its answer is sent again.                                *)
SynAgain(p) ==
  /\ State(p) = "SYN_RCVD"
  /\ Becomes(p, [Heard(p, FALSE) EXCEPT !.nrtx = (@ + 1) % RtxModulus])

SynAck(p) ==
  /\ State(p) = "SYN_SENT"
  /\ Becomes(p, [Heard(p, FALSE) EXCEPT !.state = "ESTABLISHED", !.unacked = FALSE])

(* An ACK of all that is unacknowledged; accept is what the accept         *)
(* callback answers.                                                       *)
Ack(p, accept, refuse) ==
  LET n == Acked(Heard(p, refuse)) IN
  /\ pcbs[p].unacked
  /\ \/ State(p) = "SYN_RCVD" /\ accept /\ Becomes(p, [n EXCEPT !.state = "ESTABLISHED"])
     \/ State(p) = "SYN_RCVD" /\ ~accept /\ Closed(p)
     \/ State(p) \in {"ESTABLISHED", "CLOSE_WAIT"} /\ Becomes(p, n)
     \/ State(p) = "FIN_WAIT_1" /\ Becomes(p, [n EXCEPT !.state = "FIN_WAIT_2"])
     \/ State(p) = "CLOSING" /\ TimeWait(p, n)
     \/ State(p) = "LAST_ACK" /\ Closed(p)

Synchronized(p) == p \in Active /\ State(p) \notin {"SYN_SENT", "SYN_RCVD"}

(* The third duplicate ACK: tcp_rexmit_fast.                               *)
DupAck(p, refuse) ==
  /\ Synchronized(p) /\ pcbs[p].unacked /\ ~pcbs[p].fast
  /\ Becomes(p, [Heard(p, refuse) EXCEPT !.nrtx = (@ + 1) % RtxModulus, !.fast = TRUE])

(* Another segment without data.                                           *)
Segment(p, refuse) == p \in Active /\ Becomes(p, Heard(p, refuse))

(* The next data; the peer sends none after its FIN.                       *)
Data(p, refuse) ==
  /\ State(p) \in {"ESTABLISHED", "FIN_WAIT_1", "FIN_WAIT_2"}
  /\ IF pcbs[p].refused /\ refuse THEN Becomes(p, pcbs[p])
     ELSE IF pcbs[p].rxClosed THEN Closed(p)
     ELSE Becomes(p, [Heard(p, refuse) EXCEPT !.refused = refuse])

(* The FIN of the peer; acked tells whether it acknowledges ours.          *)
Fin(p, acked, refuse) ==
  LET n == IF acked THEN Acked(Heard(p, FALSE)) ELSE Heard(p, FALSE) IN
  IF pcbs[p].refused /\ refuse THEN
    State(p) \in {"ESTABLISHED", "FIN_WAIT_1", "FIN_WAIT_2"} /\ Becomes(p, pcbs[p])
  ELSE
    \/ State(p) = "ESTABLISHED" /\ Becomes(p, [n EXCEPT !.state = "CLOSE_WAIT"])
    \/ State(p) = "FIN_WAIT_1" /\ acked /\ TimeWait(p, n)
    \/ State(p) = "FIN_WAIT_1" /\ ~acked /\ Becomes(p, [n EXCEPT !.state = "CLOSING"])
    \/ State(p) = "FIN_WAIT_2" /\ TimeWait(p, n)

Rst(p) == p \in Active /\ Closed(p)

(* tcp_timewait_input                                                      *)
FinAgain(p) ==
  /\ State(p) = "TIME_WAIT"
  /\ Changed(p, [pcbs[p] EXCEPT !.age = 0])

Input ==
  /\ phase = "idle"
  /\ \/ \E ok \in BOOLEAN : Syn(ok)
     \/ \E p \in Pcbs :
          \/ SynAgain(p) \/ SynAck(p) \/ Rst(p) \/ FinAgain(p)
          \/ \E refuse \in BOOLEAN :
               \/ DupAck(p, refuse) \/ Segment(p, refuse) \/ Data(p, refuse)
               \/ \E yes \in BOOLEAN : Ack(p, yes, refuse) \/ Fin(p, yes, refuse)

-----------------------------------------------------------------------------
(* tcp_tmr                                                                 *)

TcpTmr ==
  /\ phase = "idle"
  /\ phase' = "fast" /\ pcb' = First(active) /\ slow' = ~slow
  /\ UNCHANGED <<pcbs, active, tw, prev, done, changed>>

(* A pcb that tcp_fasttmr has come to before is not passed: tcp_fasttmr    *)
(* goes round for ever there.                                              *)
FastLook ==
  /\ phase = "fast" /\ pcb # NULL /\ pcb \notin done
  /\ done' = done \cup {pcb}
  /\ IF pcbs[pcb].refused
     THEN /\ pcbs' = [pcbs EXCEPT ![pcb].refused = FALSE]
          /\ phase' = "fast_callback" /\ changed' = FALSE
          /\ UNCHANGED pcb
     ELSE pcb' = After(pcb) /\ UNCHANGED <<pcbs, phase, changed>>
  /\ UNCHANGED <<active, tw, prev, slow>>

(* The callback returns; with again the application, which still has the   *)
(* connection, refuses the data once more.                                 *)
FastBack(again) ==
  /\ phase = "fast_callback" /\ phase' = "fast"
  /\ again => State(pcb) \notin {"FREE", "TIME_WAIT", "SYN_SENT"}
  /\ pcbs' = IF again THEN [pcbs EXCEPT ![pcb].refused = TRUE] ELSE pcbs
  /\ pcb' = IF changed THEN First(active) ELSE After(pcb)
  /\ changed' = FALSE
  /\ UNCHANGED <<active, tw, prev, done, slow>>

Aged(n) == [n EXCEPT !.age = IF n.state # "FREE" /\ @ < MaxAge THEN @ + 1 ELSE @]

FastEnd ==
  /\ phase = "fast" /\ pcb = NULL /\ done' = {}
  /\ IF slow THEN /\ phase' = "slow" /\ pcb' = First(active)
                  /\ pcbs' = [p \in Pcbs |-> Aged(pcbs[p])]
             ELSE phase' = "idle" /\ UNCHANGED <<pcb, pcbs>>
  /\ UNCHANGED <<active, tw, prev, slow, changed>>

(* mutant: a connection that is closed is not timed in FIN-WAIT-2          *)
ExpiredNotFinWait(n) ==
  \/ n.state = "SYN_SENT" /\ n.nrtx = SynMaxRtx
  \/ n.nrtx = MaxRtx
  \/ n.state = "SYN_RCVD" /\ n.age > SynRcvd
  \/ n.state = "LAST_ACK" /\ n.age > Msl2

(* pcb_remove                                                              *)
Expired(n) ==
  \/ n.state = "SYN_SENT" /\ n.nrtx = SynMaxRtx
  \/ n.nrtx = MaxRtx
  \/ n.state = "FIN_WAIT_2" /\ n.rxClosed /\ n.age > FinWait
  \/ n.state = "SYN_RCVD" /\ n.age > SynRcvd
  \/ n.state = "LAST_ACK" /\ n.age > Msl2

Retransmitted(n) == IF n.unacked THEN [n EXCEPT !.nrtx = (@ + 1) % RtxModulus] ELSE n

(* A pcb that has been processed before is skipped, and prev stays.  One   *)
(* that has expired is removed, and the application told; another may be   *)
(* polled.                                                                 *)
SlowLook(poll) ==
  /\ phase = "slow" /\ pcb # NULL
  /\ pcb' = After(pcb) /\ done' = done \cup {pcb}
  /\ IF pcb \in done THEN UNCHANGED <<pcbs, active, prev, phase>>
     ELSE IF Expired(pcbs[pcb])
     THEN /\ pcbs' = [pcbs EXCEPT ![pcb] = Free]
          /\ active' = Cut(active, Place(active, prev), Place(active, pcb))
          /\ phase' = "slow_callback" /\ UNCHANGED prev
     ELSE /\ pcbs' = [pcbs EXCEPT ![pcb] = Retransmitted(@)]
          /\ prev' = pcb /\ phase' = IF poll THEN "slow_callback" ELSE "slow"
          /\ UNCHANGED active
  /\ changed' = FALSE
  /\ UNCHANGED <<tw, slow>>

SlowBack ==
  /\ phase = "slow_callback" /\ phase' = "slow"
  /\ IF changed THEN pcb' = First(active) /\ prev' = NULL ELSE UNCHANGED <<pcb, prev>>
  /\ changed' = FALSE
  /\ UNCHANGED <<pcbs, active, tw, done, slow>>

(* The end of tcp_slowtmr: the pcbs in TIME-WAIT, one after the other.     *)
Over == {i \in DOMAIN tw : pcbs[tw[i]].age > Msl2}

TimeWaitOver ==
  /\ phase = "slow" /\ pcb = NULL
  /\ \E i \in Over :
       /\ \A j \in Over : i <= j
       /\ pcbs' = [pcbs EXCEPT ![tw[i]] = Free]
       /\ tw' = Cut(tw, i - 1, i)
  /\ UNCHANGED <<active, walk, changed>>

SlowEnd ==
  /\ phase = "slow" /\ pcb = NULL /\ Over = {}
  /\ phase' = "idle" /\ prev' = NULL /\ done' = {}
  /\ UNCHANGED <<pcbs, active, tw, pcb, slow, changed>>

Timer ==
  \/ TcpTmr \/ FastLook \/ FastEnd \/ SlowBack \/ TimeWaitOver \/ SlowEnd
  \/ \E yes \in BOOLEAN : FastBack(yes) \/ SlowLook(yes)

Next == App \/ Input \/ Timer

Spec == Init /\ [][Next]_vars

(* The main loop calls tcp_tmr again and again, and callbacks return.      *)
FairSpec == Spec /\ WF_vars(Timer)

-----------------------------------------------------------------------------
(* The axioms of tcp_impl.h: a connection is on the list of its state, and *)
(* on no other, once.                                                      *)
ListsSound ==
  /\ Range(active) = Active /\ IsInjective(active)
  /\ Range(tw) = Waiting /\ IsInjective(tw)

(* A connection that lives is given up for a new one only when there is    *)
(* neither a free pcb nor one in TIME-WAIT: a server that closes many      *)
(* connections does not lose those it still has.                           *)
SparesActive ==
  [][\A p \in Active :
       State(p)' \in {"SYN_SENT", "SYN_RCVD"} /\ State(p)' # State(p)
         => Unused = {} /\ tw = <<>>]_vars

(* A connection that opens or closes does not stay so with a peer that is  *)
(* silent: the state changes, the pcb is freed, or there are segments from *)
(* the peer again and again.                                               *)
Ending(p) ==
  \/ State(p) \in {"SYN_SENT", "SYN_RCVD", "FIN_WAIT_1", "CLOSING", "LAST_ACK", "TIME_WAIT"}
  \/ State(p) = "FIN_WAIT_2" /\ pcbs[p].rxClosed

NoneStuck ==
  \A p \in Pcbs :
    []<>~Ending(p) \/ []<><<State(p)' # State(p) \/ pcbs'[p].age < pcbs[p].age>>_pcbs

(* The assertion of tcp_slowtmr where it removes a pcb and prev is NULL:   *)
(* the pcb is the first of the list.                                       *)
FirstPcb ==
  phase = "slow" /\ pcb # NULL /\ pcb \notin done /\ prev = NULL /\ Expired(pcbs[pcb])
    => First(active) = pcb

=============================================================================

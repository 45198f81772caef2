-------------------------------- MODULE Dhcp --------------------------------
(***************************************************************************)
(* The DHCP client of dhcp.c on one interface, with a server and a network *)
(* that delays, repeats, reorders and loses its replies.                   *)
(*                                                                         *)
(* dhcp_create_msg takes a new transaction identifier for the first        *)
(* message of a state.  A reply is fresh while it has the identifier the   *)
(* client expects.  request_timeout is represented by whether it runs, and *)
(* dhcp_fine_tmr may find it at its end at any time; t1_timeout and        *)
(* t2_timeout count calls of dhcp_coarse_tmr.                              *)
(***************************************************************************)
EXTENDS Integers, FiniteSets

CONSTANTS
  Addrs,         (* the addresses of the server's pool                     *)
  Any,           (* IP_ADDR_ANY                                            *)
  RequestTries,  (* the tries of each state, 5, 1 and 8                    *)
  CheckTries, RebindTries,
  TriesWrap,     (* 2^8: the values of dhcp->tries                         *)
  TimeWrap,      (* 2^16: the values of t1_timeout and t2_timeout          *)
  T1, T2,        (* the periods of the server's leases, in coarse ticks    *)
  MaxReplies,    (* bound: replies on the network                          *)
  NoServerId,    (* whether some offers come without a server identifier   *)
  CanFail,       (* whether pbuf_alloc fails in dhcp_create_msg            *)
  UserCalls      (* the functions the application calls                    *)

(* A period of 0xffffffff.                                                 *)
Forever == TimeWrap

AnyAssumption == Any \notin Addrs
TriesAssumption ==
  /\ RequestTries \in Nat /\ CheckTries \in Nat /\ RebindTries \in Nat
  /\ TriesWrap \in Nat
  /\ \A n \in {RequestTries, CheckTries, RebindTries} : n + 1 < TriesWrap
TimesAssumption ==
  /\ TimeWrap \in Nat /\ TimeWrap > 1
  /\ T1 \in 1 .. Forever /\ T2 \in 1 .. Forever
BoundsAssumption ==
  /\ MaxReplies \in Nat /\ NoServerId \in BOOLEAN /\ CanFail \in BOOLEAN
  /\ UserCalls \subseteq {"start", "stop", "release", "renew"}

VARIABLES
  state,      (* dhcp->state                                               *)
  tries,      (* dhcp->tries                                               *)
  timed,      (* dhcp->request_timeout > 0                                 *)
  t1, t2,     (* dhcp->t1_timeout, dhcp->t2_timeout                        *)
  offered,    (* dhcp->offered_ip_addr                                     *)
  times,      (* whether offered_t1_renew and offered_t2_rebind are the    *)
              (* server's, and not 0                                       *)
  server,     (* whether dhcp->server_ip_addr is the server's, and not 0   *)
  ip, up,     (* netif->ip_addr and NETIF_FLAG_UP                          *)
  pcb,        (* whether dhcp->pcb is there to receive replies             *)
  asked,      (* the messages the server may answer, of this transaction   *)
  net,        (* the replies on the network                                *)
  declined,   (* addresses declined and not granted since                  *)
  granted     (* the address of the last ACK the client acted on           *)

timers == <<t1, t2>>
netif == <<ip, up>>
vars == <<state, tries, timed, t1, t2, offered, times, server, ip, up, pcb,
          asked, net, declined, granted>>

Message(type, addr) == [type |-> type, addr |-> addr]
Discovery == Message("discover", Any)

(* LWIP_Init: dhcp_start, then netif_set_up.                               *)
Init ==
  /\ state = "selecting" /\ tries = 1 /\ timed = TRUE
  /\ t1 = 0 /\ t2 = 0
  /\ offered = Any /\ times = FALSE /\ server = FALSE
  /\ ip = Any /\ up = TRUE /\ pcb = TRUE
  /\ asked = {Discovery} /\ net = {}
  /\ declined = {} /\ granted = Any

-----------------------------------------------------------------------------
(* dhcp_set_state resets the tries when the state changes.                 *)
TriesIn(s) == IF state = s THEN tries ELSE 0

Stale == {[r EXCEPT !.fresh = FALSE] : r \in net}

(* The first message of a state has a new transaction identifier; one that *)
(* cannot be allocated changes nothing.                                    *)
Transmit(first, msgs, ok) ==
  IF ~ok THEN UNCHANGED <<asked, net>>
  ELSE IF first THEN asked' = msgs /\ net' = Stale
  ELSE asked' = asked \cup msgs /\ UNCHANGED net

(* A message of state s is sent and the timer started for its answer.      *)
Try(s, msgs, ok) ==
  /\ state' = s
  /\ tries' = (TriesIn(s) + 1) % TriesWrap
  /\ Transmit(TriesIn(s) = 0, msgs, ok)

DiscoverWith(ok) ==
  /\ Try("selecting", {Discovery}, ok)
  /\ timed' = TRUE
  /\ offered' = Any

Select(addr, ok) ==
  /\ Try("requesting", {Message("request", addr)}, ok)
  /\ timed' = TRUE

(* mutant: the timer is not started again after dhcp_set_state stopped it  *)
CheckUntimed ==
  /\ state' = "checking"
  /\ tries' = (TriesIn("checking") + 1) % TriesWrap
  /\ timed' = FALSE

(* The ARP query of dhcp_check.                                            *)
Check ==
  /\ state' = "checking"
  /\ tries' = (TriesIn("checking") + 1) % TriesWrap
  /\ timed' = TRUE

(* The back-off of dhcp_renew is tries * 2000 and tries is a u8_t.         *)
Renew(ok) ==
  /\ Try("renewing", {Message("request", ip)}, ok)
  /\ timed' = (tries' # 0)

Rebind(ok) ==
  /\ Try("rebinding", {Message("request", ip)}, ok)
  /\ timed' = TRUE

(* mutant: the interface keeps the address of the lease that has ended     *)
InterfaceKept == UNCHANGED netif

InterfaceDown == ip' = Any /\ up' = FALSE

(* What dhcp_release clears.                                               *)
ClearLease ==
  /\ server' = FALSE /\ times' = FALSE
  /\ InterfaceDown

(* dhcp_release and dhcp_discover, one after the other.                    *)
ReleaseAndDiscover(okRelease, okDiscover) ==
  /\ ClearLease
  /\ state' = "selecting" /\ tries' = 1 /\ timed' = TRUE /\ offered' = Any
  /\ IF okDiscover THEN asked' = {Discovery} /\ net' = Stale
     ELSE Transmit(TRUE, {}, okRelease)

Period(given, t) ==
  IF ~times THEN 1 ELSE IF given = Forever THEN t ELSE given

(* dhcp_bind                                                               *)
Bind ==
  LET renew == Period(T1, t1)
      rebind == Period(T2, t2)
  IN /\ t1' = IF renew >= rebind /\ rebind > 0 THEN 0 ELSE renew
     /\ t2' = rebind
     /\ ip' = offered /\ up' = TRUE
     /\ state' = "bound" /\ tries' = 0 /\ timed' = FALSE

-----------------------------------------------------------------------------
(* The server and the network.                                             *)

Put(reply) ==
  /\ Cardinality(net) < MaxReplies \/ reply \in net
  /\ net' = net \cup {reply}
  /\ UNCHANGED <<state, tries, timed, timers, offered, times, server, netif,
                 pcb, asked, granted>>

Reply(type, addr, id) == [type |-> type, addr |-> addr, id |-> id, fresh |-> TRUE]

SendOffer(addr, id) ==
  /\ Discovery \in asked /\ (id \/ NoServerId)
  /\ Put(Reply("offer", addr, id)) /\ UNCHANGED declined

SendAck(addr) ==
  /\ Message("request", addr) \in asked
  /\ Put(Reply("ack", addr, TRUE)) /\ declined' = declined \ {addr}

SendNak ==
  /\ \E m \in asked : m.type = "request"
  /\ Put(Reply("nak", Any, TRUE)) /\ UNCHANGED declined

Lose(r) ==
  /\ net' = net \ {r}
  /\ UNCHANGED <<state, tries, timed, timers, offered, times, server, netif,
                 pcb, asked, declined, granted>>

-----------------------------------------------------------------------------
(* dhcp_recv, for each type of message and state that it acts on.          *)

(* mutant: the transaction identifier is not compared                      *)
ReceivedAnyXid(r) == pcb /\ r \in net

Received(r) == pcb /\ r \in net /\ r.fresh

RecvOffer(r, ok) ==
  /\ Received(r) /\ r.type = "offer" /\ state = "selecting"
  /\ IF r.id
     THEN Select(r.addr, ok) /\ offered' = r.addr /\ server' = TRUE
     ELSE timed' = FALSE
          /\ UNCHANGED <<state, tries, offered, server, asked, net>>
  /\ UNCHANGED <<timers, times, netif, pcb, declined, granted>>

RecvAck(r) ==
  /\ Received(r) /\ r.type = "ack"
  /\ \/ /\ state = "requesting"
        /\ offered' = r.addr /\ times' = TRUE
        /\ Check
        /\ UNCHANGED <<timers, netif>>
     \/ /\ state \in {"rebinding", "renewing"}
        /\ Bind
        /\ UNCHANGED <<offered, times>>
  /\ granted' = r.addr
  /\ UNCHANGED <<server, pcb, asked, net, declined>>

RecvNak(r, ok) ==
  /\ Received(r) /\ r.type = "nak"
  /\ state \in {"requesting", "rebinding", "renewing"}
  /\ InterfaceDown
  /\ DiscoverWith(ok)
  /\ UNCHANGED <<timers, times, server, pcb, declined, granted>>

(* dhcp_arp_reply and dhcp_decline: a host has the offered address.        *)
ArpReply(ok) ==
  /\ state = "checking"
  /\ Try("backing_off", {}, ok)
  /\ timed' = TRUE
  /\ declined' = declined \cup {offered}
  /\ UNCHANGED <<timers, offered, times, server, netif, pcb, granted>>

-----------------------------------------------------------------------------
(* dhcp_fine_tmr, when request_timeout ends, and dhcp_timeout.             *)

Remains == UNCHANGED <<times, server, netif>>

ChecksAgain == tries <= CheckTries

TimeoutDiscover(ok) ==
  /\ state \in {"backing_off", "selecting"}
  /\ DiscoverWith(ok) /\ Remains /\ UNCHANGED <<timers>>

TimeoutRetry(ok) ==
  /\ \/ state = "requesting" /\ tries <= RequestTries /\ Select(offered, ok)
     \/ state = "renewing" /\ Renew(ok)
     \/ state = "rebinding" /\ tries <= RebindTries /\ Rebind(ok)
     \/ state = "checking" /\ ChecksAgain /\ Check /\ UNCHANGED <<asked, net>>
  /\ Remains /\ UNCHANGED <<offered, timers>>

(* mutant: the tries are not limited                                       *)
TryForever(okRelease, okDiscover) ==
  /\ \/ state = "requesting" /\ tries > RequestTries /\ Select(offered, okDiscover)
     \/ state = "rebinding" /\ tries > RebindTries /\ Rebind(okDiscover)
  /\ Remains /\ UNCHANGED <<offered, timers>>

TimeoutRelease(okRelease, okDiscover) ==
  /\ \/ state = "requesting" /\ tries > RequestTries
     \/ state = "rebinding" /\ tries > RebindTries
  /\ ReleaseAndDiscover(okRelease, okDiscover)
  /\ UNCHANGED <<timers>>

TimeoutBind ==
  /\ state = "checking" /\ ~ChecksAgain
  /\ Bind
  /\ UNCHANGED <<offered, times, server, asked, net>>

TimeoutOff ==
  /\ state = "off"
  /\ timed' = FALSE
  /\ Remains
  /\ UNCHANGED <<state, tries, timers, offered, asked, net>>

FineTmr(ok, ok2) ==
  /\ timed
  /\ \/ TimeoutDiscover(ok) \/ TimeoutRetry(ok) \/ TimeoutRelease(ok, ok2)
     \/ TimeoutBind \/ TimeoutOff
  /\ UNCHANGED <<pcb, declined, granted>>

(* dhcp_coarse_tmr                                                         *)
Dec(t) == IF t = 0 THEN TimeWrap - 1 ELSE t - 1

CoarseTmr(ok) ==
  /\ t2' = Dec(t2)
  /\ t1' = IF t2 = 1 THEN t1 ELSE Dec(t1)
  /\ IF state \in {"requesting", "bound", "renewing"} /\ (t2 = 1 \/ t1 = 1)
     THEN IF t2 = 1 THEN Rebind(ok) ELSE Renew(ok)
     ELSE UNCHANGED <<state, tries, timed, asked, net>>
  /\ UNCHANGED <<offered, times, server, netif, pcb, declined, granted>>

-----------------------------------------------------------------------------
(* The functions the application calls: dhcp_start and dhcp_stop when no   *)
(* address is in use, dhcp_renew for a lease it has.                       *)

Start(ok) ==
  /\ "start" \in UserCalls /\ ip = Any
  /\ t1' = 0 /\ t2' = 0 /\ times' = FALSE /\ server' = FALSE
  /\ offered' = Any
  /\ pcb' = ok /\ timed' = ok
  /\ state' = IF ok THEN "selecting" ELSE "off"
  /\ tries' = IF ok THEN 1 ELSE 0
  /\ asked' = IF ok THEN {Discovery} ELSE {}
  /\ net' = Stale
  /\ UNCHANGED <<netif, declined, granted>>

Stop ==
  /\ "stop" \in UserCalls /\ ip = Any
  /\ pcb' = FALSE
  /\ state' = "off"
  /\ tries' = TriesIn("off")
  /\ timed' = (state = "off" /\ timed)
  /\ UNCHANGED <<timers, offered, times, server, netif, asked, net,
                 declined, granted>>

Release(ok) ==
  /\ "release" \in UserCalls /\ pcb
  /\ ClearLease
  /\ Try("off", {}, ok)
  /\ timed' = TRUE /\ offered' = Any
  /\ UNCHANGED <<timers, pcb, declined, granted>>

UserRenew(ok) ==
  /\ "renew" \in UserCalls /\ pcb
  /\ state \in {"bound", "renewing"}
  /\ Renew(ok)
  /\ UNCHANGED <<timers, offered, times, server, netif, pcb, declined, granted>>

Allocated == IF CanFail THEN BOOLEAN ELSE {TRUE}

Next ==
  \/ \E a \in Addrs : SendAck(a) \/ \E id \in BOOLEAN : SendOffer(a, id)
  \/ SendNak
  \/ \E ok \in Allocated :
       \/ \E r \in net : RecvOffer(r, ok) \/ RecvNak(r, ok)
       \/ ArpReply(ok) \/ CoarseTmr(ok)
       \/ Start(ok) \/ Release(ok) \/ UserRenew(ok)
       \/ \E ok2 \in Allocated : FineTmr(ok, ok2)
  \/ \E r \in net : RecvAck(r) \/ Lose(r)
  \/ Stop

Spec == Init /\ [][Next]_vars

(* lwip_periodic_handle calls both timers for ever.                        *)
FairSpec ==
  /\ Spec
  /\ WF_vars(\E ok, ok2 \in Allocated : FineTmr(ok, ok2))
  /\ WF_vars(\E ok \in Allocated : CoarseTmr(ok))

-----------------------------------------------------------------------------
(* Properties.                                                             *)

States == {"off", "selecting", "requesting", "checking", "bound", "renewing",
           "rebinding", "backing_off"}

TypeOK ==
  /\ state \in States /\ tries \in 0 .. TriesWrap - 1 /\ timed \in BOOLEAN
  /\ t1 \in 0 .. TimeWrap - 1 /\ t2 \in 0 .. TimeWrap - 1
  /\ offered \in Addrs \cup {Any} /\ ip \in Addrs \cup {Any}
  /\ times \in BOOLEAN /\ server \in BOOLEAN /\ up \in BOOLEAN /\ pcb \in BOOLEAN
  /\ asked \subseteq [type : {"discover", "request"}, addr : Addrs \cup {Any}]
  /\ net \subseteq [type : {"offer", "ack", "nak"}, addr : Addrs \cup {Any},
                    id : BOOLEAN, fresh : BOOLEAN]
  /\ declined \subseteq Addrs /\ granted \in Addrs \cup {Any}

(* The interface is up with an address only while the client looks after   *)
(* the lease of it: nothing else would ever give that address up.          *)
LeaseIsKept ==
  up /\ ip # Any => state \in {"bound", "renewing", "rebinding"}

(* An address another host answered for is not used before the server      *)
(* grants it again, whatever replies of the server turn up late.           *)
DeclinedIsNotUsed == up => ip \notin declined

(* A bound client uses the address of the last ACK it acted on, although   *)
(* an ACK in RENEWING or REBINDING binds offered_ip_addr and not the       *)
(* address it names.                                                       *)
BoundToGrant == state = "bound" => up /\ ip = granted

(* A new address is used only after the ARP check of DHCP_DOES_ARP_CHECK,  *)
(* although a timer of an old lease can take REQUESTING to RENEWING.       *)
CheckedBeforeUse ==
  [][ip' \notin {ip, Any} => state = "checking"]_vars

(* While an answer is waited for the timer runs, so that the client does   *)
(* not wait for ever: RENEWING has t2_timeout too.                         *)
AlwaysTimed ==
  state \in {"selecting", "requesting", "checking", "backing_off", "rebinding"}
    => timed

(* Whatever the network loses and however often memory is short, an        *)
(* exchange ends: the client is bound or it starts again.                  *)
NegotiationEnds == state # "off" ~> state \in {"bound", "selecting", "off"}
=============================================================================

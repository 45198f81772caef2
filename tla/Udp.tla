--------------------------------- MODULE Udp ---------------------------------
(***************************************************************************)
(* The UDP protocol control blocks, udp.c: binding, automatic local ports, *)
(* connecting, the list that a datagram's taker is searched in and that    *)
(* the search itself reorders, and the pcb of the DHCP client (dhcp.c).    *)
(*                                                                         *)
(* A function is one step, as for the one context that the raw API asks    *)
(* for.  A recv callback is called last, so that what it does to the pcbs  *)
(* is a step after the Input that called it.  Sending is left out but for  *)
(* the port it binds, as are the checksum and the ICMP message about a     *)
(* port that nobody has.                                                   *)
(***************************************************************************)
EXTENDS Integers, FiniteSets, Sequences, Functions

CONSTANTS
  Pcbs,         (* the MEMP_UDP_PCB pool                                    *)
  NoPcb,        (* NULL                                                     *)
  Addrs, IpAny, (* IP addresses, and IP_ADDR_ANY                            *)
  Broadcasts,   (* those that ip_addr_isbroadcast tells                     *)
  SameNet,      (* <<address, broadcast address>> of the netif's network    *)
  RangeStart,   (* UDP_LOCAL_PORT_RANGE_START                               *)
  RangeEnd,     (* UDP_LOCAL_PORT_RANGE_END                                 *)
  ClientPort,   (* DHCP_CLIENT_PORT                                         *)
  ServerPort,   (* DHCP_SERVER_PORT                                         *)
  BindAddrs,    (* bound: what applications bind to,                        *)
  BindPorts,    (* 0 for an automatic port among them,                      *)
  Peers,        (* bound: and <<address, port>> they connect to             *)
  Datagrams     (* bound: what comes in                                     *)

RangeSize == RangeEnd - RangeStart + 1

ASSUME UdpAssumption ==
  /\ IsFiniteSet(Pcbs) /\ NoPcb \notin Pcbs
  /\ IpAny \in Addrs /\ Broadcasts \subseteq Addrs \ {IpAny}
  /\ RangeStart \in Nat \ {0} /\ RangeEnd \in Nat
  /\ RangeSize > Cardinality(Pcbs)
  /\ ClientPort \in Nat \ {0} /\ ServerPort \in Nat
  /\ BindAddrs \subseteq Addrs /\ BindPorts \subseteq Nat
  /\ Peers \subseteq Addrs \X Nat
  /\ Datagrams \subseteq [src : Addrs, sport : Nat, dst : Addrs \ {IpAny}, dport : Nat \ {0}]

VARIABLES
  udp,      (* the list udp_pcbs, which pcbs are allocated, their fields,   *)
            (* which have UDP_FLAGS_CONNECTED, and udp_port                 *)
  dhcpPcb   (* netif->dhcp->pcb                                             *)

udpVars == <<udp, dhcpPcb>>

Listed(u) == Range(u.list)

Init ==
  /\ udp = [list |-> <<>>, allocated |-> {}, connected |-> {}, last |-> RangeStart,
            ip  |-> [p \in Pcbs |-> IpAny], port  |-> [p \in Pcbs |-> 0],
            rip |-> [p \in Pcbs |-> IpAny], rport |-> [p \in Pcbs |-> 0]]
  /\ dhcpPcb = NoPcb

-----------------------------------------------------------------------------
(* udp_new_port: the k-th port after the last one given out, and the first *)
(* of them that no pcb of the list has.                                    *)
Step(last, k) == IF last + k > RangeEnd THEN last + k - RangeSize ELSE last + k

FreeSteps(u) ==
  {k \in 1 .. RangeSize : \A q \in Listed(u) : u.port[q] # Step(u.last, k)}

NewPort(u) ==
  IF FreeSteps(u) = {} THEN 0
  ELSE Step(u.last, CHOOSE k \in FreeSteps(u) : \A j \in FreeSteps(u) : k <= j)

(* mutant: an address is only compared with the same address               *)
ClashesSame(u, p, a, port) ==
  \E q \in Listed(u) \ {p} : u.port[q] = port /\ u.ip[q] = a

(* Another pcb of the list has the port, and its address or a is any, or   *)
(* they are the same.                                                      *)
Clashes(u, p, a, port) ==
  \E q \in Listed(u) \ {p} :
    u.port[q] = port /\ (u.ip[q] = IpAny \/ a = IpAny \/ u.ip[q] = a)

(* mutant: a pcb that is bound again is put in the list again              *)
ListedAgain(u, p) == <<p>> \o u.list

WithListed(u, p) == IF p \in Listed(u) THEN u.list ELSE <<p>> \o u.list

(* udp_bind.  The address is set before a port is found.                   *)
BoundTo(u, p, a, port) ==
  [u EXCEPT !.ip[p] = a, !.port[p] = port, !.list = WithListed(u, p)]

Bound(u, p, a, port) ==
  IF Clashes(u, p, a, port) THEN u
  ELSE IF port # 0 THEN BoundTo(u, p, a, port)
  ELSE IF NewPort(u) = 0 THEN [u EXCEPT !.ip[p] = a]
  ELSE [BoundTo(u, p, a, NewPort(u)) EXCEPT !.last = NewPort(u)]

(* What udp_connect and udp_sendto_if do first.                            *)
AutoBound(u, p) == IF u.port[p] = 0 THEN Bound(u, p, u.ip[p], 0) ELSE u

Connected(u, p, a, port) ==
  LET v == AutoBound(u, p)
  IN  IF v.port[p] = 0 THEN v
      ELSE [v EXCEPT !.rip[p] = a, !.rport[p] = port, !.connected = @ \cup {p},
                     !.list = WithListed(v, p)]

Disconnected(u, p) ==
  [u EXCEPT !.rip[p] = IpAny, !.rport[p] = 0, !.connected = @ \ {p}]

Cleared(u, p) ==
  [u EXCEPT !.connected = @ \ {p}, !.ip[p] = IpAny, !.port[p] = 0,
            !.rip[p] = IpAny, !.rport[p] = 0]

(* udp_new.                                                                *)
Allocated(u, p) == [Cleared(u, p) EXCEPT !.allocated = @ \cup {p}]

Place(s, p) == CHOOSE i \in DOMAIN s : s[i] = p
Without(s, i) == [j \in 1 .. Len(s) - 1 |-> IF j < i THEN s[j] ELSE s[j + 1]]

(* udp_remove.  What a freed pcb holds is not read again: it is cleared    *)
(* here too, which spares states that differ in nothing else.              *)
Removed(u, p) ==
  [Cleared(u, p) EXCEPT
     !.list = IF p \in Listed(u) THEN Without(u.list, Place(u.list, p)) ELSE u.list,
     !.allocated = @ \ {p}]

-----------------------------------------------------------------------------
(* udp_input: who is it for?                                               *)
LocalMatch(u, q, d) ==
  /\ u.port[q] = d.dport
  /\ \/ u.ip[q] = IpAny
     \/ u.ip[q] = d.dst
     \/ d.dst \in Broadcasts /\ <<u.ip[q], d.dst>> \in SameNet

LocalMatches(u, d) == {i \in DOMAIN u.list : LocalMatch(u, u.list[i], d)}

FullMatches(u, d) ==
  {i \in LocalMatches(u, d) :
     u.rport[u.list[i]] = d.sport /\ u.rip[u.list[i]] \in {IpAny, d.src}}

(* mutant: a connected pcb takes what comes from others                    *)
AnyMatch(u, d) == LocalMatches(u, d)

Unconnected(u, d) == {i \in LocalMatches(u, d) : u.list[i] \notin u.connected}

First(places) == CHOOSE i \in places : \A j \in places : i <= j

(* Datagrams to the DHCP client are for its pcb alone, whatever the list.  *)
DhcpTakes(u, d) ==
  /\ d.sport = ServerPort
  /\ dhcpPcb # NoPcb
  /\ u.rip[dhcpPcb] \in {IpAny, d.src}

Taker(d) ==
  CASE d.dport = ClientPort -> IF DhcpTakes(udp, d) THEN dhcpPcb ELSE NoPcb
    [] d.dport # ClientPort /\ FullMatches(udp, d) # {} -> udp.list[First(FullMatches(udp, d))]
    [] d.dport # ClientPort /\ FullMatches(udp, d) = {} ->
         IF Unconnected(udp, d) = {} THEN NoPcb ELSE udp.list[First(Unconnected(udp, d))]

(* A full match is moved to the front.                                     *)
MovedToFront(s, i) ==
  [j \in 1 .. Len(s) |-> IF j = 1 THEN s[i] ELSE IF j <= i THEN s[j - 1] ELSE s[j]]

Input(d) ==
  /\ d.dport # ClientPort /\ FullMatches(udp, d) # {}
  /\ udp' = [udp EXCEPT !.list = MovedToFront(udp.list, First(FullMatches(udp, d)))]
  /\ UNCHANGED dhcpPcb

-----------------------------------------------------------------------------
(* What applications call, with pcbs of their own.                         *)
New(p) ==
  /\ p \notin udp.allocated
  /\ udp' = Allocated(udp, p)
  /\ UNCHANGED dhcpPcb

Owned == udp.allocated \ {dhcpPcb}

Bind(p, a, port) ==
  /\ p \in Owned
  /\ udp' = Bound(udp, p, a, port)
  /\ UNCHANGED dhcpPcb

Connect(p, peer) ==
  /\ p \in Owned
  /\ udp' = Connected(udp, p, peer[1], peer[2])
  /\ UNCHANGED dhcpPcb

Disconnect(p) ==
  /\ p \in Owned
  /\ udp' = Disconnected(udp, p)
  /\ UNCHANGED dhcpPcb

Send(p) ==
  /\ p \in Owned
  /\ udp' = AutoBound(udp, p)
  /\ UNCHANGED dhcpPcb

Remove(p) ==
  /\ p \in Owned
  /\ udp' = Removed(udp, p)
  /\ UNCHANGED dhcpPcb

(* dhcp_stop.                                                              *)
DhcpStop ==
  /\ dhcpPcb # NoPcb
  /\ udp' = Removed(udp, dhcpPcb)
  /\ dhcpPcb' = NoPcb

(* dhcp_start drops the pcb of the client it restarts and sets up another, *)
(* if there is one.  Nobody looks whether the bind succeeded.              *)
WithoutDhcp == IF dhcpPcb = NoPcb THEN udp ELSE Removed(udp, dhcpPcb)

DhcpPcbMade(u, p) ==
  Connected(Bound(Allocated(u, p), p, IpAny, ClientPort), p, IpAny, ServerPort)

DhcpStart(p) ==
  /\ p \notin WithoutDhcp.allocated
  /\ udp' = DhcpPcbMade(WithoutDhcp, p)
  /\ dhcpPcb' = p

(* The first message cannot be made: dhcp_start ends with a dhcp_stop.     *)
DhcpStartUndone(p) ==
  /\ p \notin WithoutDhcp.allocated
  /\ udp' = Removed(DhcpPcbMade(WithoutDhcp, p), p)
  /\ dhcpPcb' = NoPcb

DhcpStartFails ==
  /\ WithoutDhcp.allocated = Pcbs
  /\ udp' = WithoutDhcp
  /\ dhcpPcb' = NoPcb

Next ==
  \/ \E p \in Pcbs :
       \/ New(p) \/ Disconnect(p) \/ Send(p) \/ Remove(p)
       \/ DhcpStart(p) \/ DhcpStartUndone(p)
       \/ \E a \in BindAddrs, port \in BindPorts : Bind(p, a, port)
       \/ \E peer \in Peers : Connect(p, peer)
  \/ \E d \in Datagrams : Input(d)
  \/ DhcpStop
  \/ DhcpStartFails

Spec == Init /\ [][Next]_udpVars

-----------------------------------------------------------------------------
UdpState ==
  [list : Seq(Pcbs), allocated : SUBSET Pcbs, connected : SUBSET Pcbs,
   last : RangeStart .. RangeEnd,
   ip  : [Pcbs -> Addrs], port  : [Pcbs -> Nat],
   rip : [Pcbs -> Addrs], rport : [Pcbs -> Nat]]

TypeOK == udp \in UdpState /\ dhcpPcb \in Pcbs \cup {NoPcb}

(* The list holds the allocated pcbs that have a port, each of them once:  *)
(* udp_remove, which takes one out, leaves no freed pcb in it.             *)
NoRepeat(s) == \A i, j \in DOMAIN s : s[i] = s[j] => i = j
HasBound(u) == Listed(u) = {p \in u.allocated : u.port[p] # 0}

ListSound ==
  /\ NoRepeat(udp.list)
  /\ HasBound(udp)
  /\ dhcpPcb # NoPcb => dhcpPcb \in Listed(udp)

(* udp.c:784-786, "we don't allow to bind to a port that any other udp PCB *)
(* is already bound to": no two pcbs of the list can both be meant by one  *)
(* address and port, however they came by them: bound, bound again, bound  *)
(* by connecting or sending.                                               *)
Overlap(u, p, q) ==
  u.port[p] = u.port[q] /\ (u.ip[p] = IpAny \/ u.ip[q] = IpAny \/ u.ip[p] = u.ip[q])

Distinct(u) == \A p, q \in Listed(u) : Overlap(u, p, q) => p = q

OneTaker == Distinct(udp)

(* A datagram to one address reaches the pcb that is bound to it, unless   *)
(* that pcb is connected to another peer, and then nobody: whatever the    *)
(* order of the list, which every datagram changes.                        *)
Heard ==
  \A d \in Datagrams, p \in Listed(udp) :
    /\ d.dst \notin Broadcasts /\ d.dport # ClientPort
    /\ udp.port[p] = d.dport /\ udp.ip[p] \in {IpAny, d.dst}
    => Taker(d) = IF \/ p \notin udp.connected
                     \/ udp.rport[p] = d.sport /\ udp.rip[p] \in {IpAny, d.src}
                  THEN p ELSE NoPcb
=============================================================================

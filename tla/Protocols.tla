------------------------------ MODULE Protocols ------------------------------
(***************************************************************************)
(* Three protocols above ARP side by side: UDP (Udp), the DHCP client      *)
(* (Dhcp) and the reassembly of IP datagrams (IpReass).  What they do to   *)
(* each other is an action of each: Udp has the pcb that the DHCP client   *)
(* makes and removes, Dhcp the replies that reach it through that pcb.     *)
(* A behaviour is of one of them, chosen at the start, and the others stay *)
(* as they were.                                                           *)
(***************************************************************************)
EXTENDS Udp

CONSTANTS
  Ids, DatagramLen, FragPbufs, NumReassData, MaxPbufs, MaxAge,
  Leases, NoAddr, RequestTries, CheckTries, RebindTries, TriesWrap, TimeWrap,
  T1, T2, MaxReplies, NoServerId, CanFail, UserCalls

VARIABLES
  running,    (* "udp", "dhcp" or "reass"                                  *)
  queue, pbufcount, passed,
  state, tries, timed, t1, t2, offered, times, server, ip, up, pcb, asked,
  net, declined, granted

reassVars == <<queue, pbufcount, passed>>
clientVars == <<state, tries, timed, t1, t2, offered, times, server, ip, up, pcb,
                asked, net, declined, granted>>

Reass == INSTANCE IpReass
Client == INSTANCE Dhcp WITH Addrs <- Leases, Any <- NoAddr

ASSUME ProtocolsAssumption ==
  /\ Reass!ReassAssumption
  /\ Client!AnyAssumption /\ Client!TriesAssumption
  /\ Client!TimesAssumption /\ Client!BoundsAssumption

ProtocolsInit ==
  /\ running \in {"udp", "dhcp", "reass"}
  /\ Init /\ Reass!Init /\ Client!Init

ProtocolsNext ==
  /\ UNCHANGED running
  /\ \/ running = "udp" /\ Next /\ UNCHANGED <<reassVars, clientVars>>
     \/ running = "dhcp" /\ Client!Next /\ UNCHANGED <<reassVars, udpVars>>
     \/ running = "reass" /\ Reass!Next /\ UNCHANGED <<clientVars, udpVars>>

(* The main loop calls both timers of the DHCP client for ever.            *)
ProtocolsSpec ==
  /\ ProtocolsInit /\ [][ProtocolsNext]_<<running, udpVars, reassVars, clientVars>>
  /\ WF_clientVars(running = "dhcp" /\
                     \E ok, ok2 \in Client!Allocated : Client!FineTmr(ok, ok2))
  /\ WF_clientVars(running = "dhcp" /\
                     \E ok \in Client!Allocated : Client!CoarseTmr(ok))

-----------------------------------------------------------------------------
(* The properties of Udp are visible here; those of the others follow.     *)

(* ip_reass_pbufcount is what the waiting datagrams hold, and within its   *)
(* limit.                                                                  *)
HeldCounted == Reass!HeldCounted

(* What ip_reass passes on is one datagram, and once.                      *)
PassedOnce == Reass!PassedOnce

(* The interface has an address only while the client looks after its      *)
(* lease (dhcp_unbind, dhcp_set_state).                                    *)
LeaseIsKept == Client!LeaseIsKept

(* A declined address is not used before it is granted again.              *)
DeclinedIsNotUsed == Client!DeclinedIsNotUsed

(* dhcp_bind binds the address of the last ACK acted on.                   *)
BoundToGrant == Client!BoundToGrant

(* While an answer is waited for the timer of the client runs.             *)
AlwaysTimed == Client!AlwaysTimed

(* A new address is used only after the ARP check (dhcp_check).            *)
CheckedBeforeUse == Client!CheckedBeforeUse

(* An exchange ends, whatever is lost: bound, started again or stopped.    *)
NegotiationEnds == Client!NegotiationEnds
=============================================================================

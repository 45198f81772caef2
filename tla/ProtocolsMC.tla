----------------------------- MODULE ProtocolsMC -----------------------------
(***************************************************************************)
(* Protocols with two UDP pcbs, a range of three ports, and datagrams to   *)
(* an address of the host and to the broadcast address of its network,     *)
(* from a peer and from another host, with and without a source port.      *)
(***************************************************************************)
EXTENDS Protocols

MCDatagrams ==
  [src : {"peer", "other"}, sport : {0, 7}, dst : {"here", "all"}, dport : {1, 5, 6}]
  \cup {[src |-> "peer", sport |-> 2, dst |-> "all", dport |-> 1]}
MCPeers == {<<"peer", 7>>, <<"any", 7>>}
MCSameNet == {<<"here", "all">>}
=============================================================================

------------------------------- MODULE Etharp -------------------------------
(***************************************************************************)
(* The ARP cache of etharp.c: a table of addresses that are asked for      *)
(* (pending, with at most one packet waiting) or known (stable), aged by   *)
(* etharp_tmr, and recycled when it is full.  ARP_QUEUEING and             *)
(* ETHARP_SUPPORT_STATIC_ENTRIES are 0 in this build.                      *)
(*                                                                         *)
(* An outgoing packet is represented by the next hop it is meant for.      *)
(***************************************************************************)
EXTENDS Integers, FiniteSets

CONSTANTS
  TableSize,      (* ARP_TABLE_SIZE                                        *)
  MaxAge,         (* ARP_MAXAGE                                            *)
  MaxPending,     (* ARP_MAXPENDING                                        *)
  RerequestUsed,  (* ARP_AGE_REREQUEST_USED                                *)
  Addrs,          (* the IP addresses of the local network                 *)
  Macs,           (* Ethernet addresses                                    *)
  None,           (* no address                                            *)
  CanFail         (* whether allocations fail                              *)

ASSUME TableAssumption == TableSize \in Nat /\ TableSize > 0
ASSUME AgesAssumption ==
  /\ MaxAge \in Nat /\ MaxPending \in Nat \ {0} /\ RerequestUsed \in Nat
  /\ MaxPending <= MaxAge
ASSUME NoneAssumption == None \notin Addrs \cup Macs
ASSUME FailAssumption == CanFail \in BOOLEAN

VARIABLES
  table,      (* arp_table                                                 *)
  hint,       (* etharp_cached_entry                                       *)
  up,         (* whether the interface is up                               *)
  sent,       (* the packet sent in the last step, to which Ethernet       *)
              (* address                                                   *)
  heard,      (* the Ethernet address each host announced last, None when  *)
              (* that was MaxAge ticks ago                                 *)
  since       (* the ticks since then                                      *)

NoPacket == [hop |-> None, mac |-> None]
ghosts == <<heard, since>>
vars == <<table, hint, up, sent, heard, since>>

Slots == 1 .. TableSize
Stable(e) == e.state \in {"stable", "rerequesting"}
Unused == [state |-> "empty", ip |-> None, mac |-> None, ctime |-> 0,
           q |-> None, netif |-> FALSE]

Init ==
  /\ table = [s \in Slots |-> Unused]
  /\ hint = 1 /\ up = TRUE
  /\ sent = NoPacket
  /\ heard = [a \in Addrs |-> None]
  /\ since = [a \in Addrs |-> MaxAge]

-----------------------------------------------------------------------------
(* etharp_free_entry.  The record of the interface stays in the entry.     *)
Freed(e) == [Unused EXCEPT !.netif = e.netif]

Empty == {s \in Slots : table[s].state = "empty"}
Match(ip) == {s \in Slots \ Empty : table[s].ip = ip}
StableSlots == {s \in Slots : Stable(table[s])}
Pending(waiting) ==
  {s \in Slots : table[s].state = "pending" /\ (table[s].q # None) = waiting}

(* The last one among the oldest of a set of entries.                      *)
Oldest(S) ==
  {s \in S : \A t \in S : \/ table[t].ctime < table[s].ctime
                          \/ table[t].ctime = table[s].ctime /\ t <= s}

(* mutant: a pending entry with a packet is recycled before a stable one   *)
RecycledQueueFirst ==
  IF Pending(TRUE) # {} THEN Oldest(Pending(TRUE))
  ELSE IF StableSlots # {} THEN Oldest(StableSlots)
  ELSE Oldest(Pending(FALSE))

(* The entry that is recycled when none is empty.                          *)
Recycled ==
  IF StableSlots # {} THEN Oldest(StableSlots)
  ELSE IF Pending(FALSE) # {} THEN Oldest(Pending(FALSE))
  ELSE Oldest(Pending(TRUE))

(* mutant: a new entry is made of the first empty one without the search   *)
(* for a match behind it                                                   *)
FindFirstEmpty(ip, tryHard) ==
  IF Empty # {} /\ tryHard THEN {CHOOSE s \in Empty : \A t \in Empty : s <= t}
  ELSE IF Match(ip) # {} THEN Match(ip)
  ELSE IF ~tryHard THEN {} ELSE Recycled

(* etharp_find_entry: the entry of ip, or else the one that becomes its,   *)
(* {} for ERR_MEM.  tryHard is ETHARP_FLAG_TRY_HARD, and its absence here  *)
(* comes with ETHARP_FLAG_FIND_ONLY.                                       *)
FindEntry(ip, tryHard) ==
  IF Match(ip) # {} THEN {CHOOSE s \in Match(ip) : \A t \in Match(ip) : s <= t}
  ELSE IF ~tryHard THEN {}
  ELSE IF Empty # {} THEN {CHOOSE s \in Empty : \A t \in Empty : s <= t}
  ELSE Recycled

(* The entry as etharp_find_entry leaves it.                               *)
Found(s, ip) ==
  IF s \in Match(ip) THEN table[s] ELSE [Freed(table[s]) EXCEPT !.ip = ip]

-----------------------------------------------------------------------------
Resolved(e, mac) ==
  [e EXCEPT !.state = "stable", !.mac = mac, !.ctime = 0, !.netif = TRUE,
            !.q = None]

(* etharp_arp_input, with etharp_update_arp_entry: the sender of an ARP    *)
(* packet is learnt, always when the packet is for us and otherwise when   *)
(* it is in the table; the packet waiting for it is sent.                  *)
ArpInput(ip, mac, forUs) ==
  LET i == FindEntry(ip, forUs)
  IN /\ \/ i = {} /\ table' = table /\ sent' = NoPacket
        \/ \E s \in i :
             LET e == Found(s, ip)
             IN /\ table' = [table EXCEPT ![s] = Resolved(e, mac)]
                /\ sent' = IF e.q = None THEN NoPacket
                           ELSE [hop |-> e.q, mac |-> mac]
     /\ heard' = [heard EXCEPT ![ip] = mac]
     /\ since' = [since EXCEPT ![ip] = 0]
     /\ UNCHANGED <<hint, up>>

(* etharp_output_to_arp_index: an entry about to expire is asked for again *)
(* if the request can be allocated.                                        *)
SendTo(s, ip, ok) ==
  LET e == table[s]
      again == ok /\ e.state = "stable" /\ e.ctime >= RerequestUsed
  IN /\ table' = IF again THEN [table EXCEPT ![s].state = "rerequesting"] ELSE table
     /\ sent' = [hop |-> ip, mac |-> e.mac]

(* mutant: a packet for a pending entry makes it young again               *)
EnqueueRenews(e, ip, ok) ==
  [e EXCEPT !.state = "pending", !.q = IF ok THEN ip ELSE @, !.ctime = 0]

(* The copy of the packet takes the place of one that waits; when it       *)
(* cannot be allocated that one stays.                                     *)
Enqueue(e, ip, ok) ==
  [e EXCEPT !.state = "pending", !.q = IF ok THEN ip ELSE @]

(* etharp_query with a packet, for an address without a stable entry.      *)
Query(ip, copyOk) ==
  /\ \E s \in FindEntry(ip, TRUE) :
       table' = [table EXCEPT ![s] = Enqueue(Found(s, ip), ip, copyOk)]
  /\ sent' = NoPacket /\ UNCHANGED hint

(* mutant: the cached entry is used without a look at its address          *)
CachedUnchecked(ip) == Stable(table[hint])

Cached(ip) == Stable(table[hint]) /\ table[hint].ip = ip

(* etharp_output of a unicast packet: the cached entry, a stable entry, or *)
(* the query.                                                              *)
Output(ip, requestOk, copyOk) ==
  /\ up
  /\ IF Cached(ip) THEN SendTo(hint, ip, requestOk) /\ UNCHANGED hint
     ELSE IF StableSlots \cap Match(ip) # {}
     THEN \E s \in StableSlots \cap Match(ip) :
            /\ \A t \in StableSlots \cap Match(ip) : s <= t
            /\ SendTo(s, ip, requestOk)
            /\ hint' = s
     ELSE Query(ip, copyOk)
  /\ UNCHANGED <<up, ghosts>>

(* etharp_query(ip, NULL): DHCP asks whether an address is taken.          *)
Probe(ip) ==
  /\ \E s \in FindEntry(ip, TRUE) :
       LET e == Found(s, ip)
       IN table' = [table EXCEPT ![s] =
                      [e EXCEPT !.state = IF @ = "empty" THEN "pending" ELSE @]]
  /\ sent' = NoPacket
  /\ UNCHANGED <<hint, up, ghosts>>

(* An entry after one more tick.                                           *)
Aged(e) ==
  LET old == [e EXCEPT !.ctime = @ + 1]
  IN IF old.ctime >= MaxAge \/ (old.state = "pending" /\ old.ctime >= MaxPending)
     THEN Freed(old)
     ELSE IF old.state = "rerequesting" THEN [old EXCEPT !.state = "stable"]
     ELSE old

(* etharp_tmr                                                              *)
Tmr ==
  /\ table' = [s \in Slots |->
                 IF s \in Empty THEN table[s] ELSE Aged(table[s])]
  /\ since' = [a \in Addrs |-> IF since[a] < MaxAge THEN since[a] + 1 ELSE MaxAge]
  /\ heard' = [a \in Addrs |-> IF since[a] < MaxAge - 1 THEN heard[a] ELSE None]
  /\ sent' = NoPacket
  /\ UNCHANGED <<hint, up>>

(* netif_set_down, with etharp_cleanup_netif, and netif_set_up.            *)
NetifDown ==
  /\ up /\ up' = FALSE
  /\ table' = [s \in Slots |->
                 IF table[s].state # "empty" /\ table[s].netif
                 THEN Freed(table[s]) ELSE table[s]]
  /\ sent' = NoPacket /\ UNCHANGED <<hint, ghosts>>

NetifUp ==
  /\ ~up /\ up' = TRUE
  /\ sent' = NoPacket /\ UNCHANGED <<table, hint, ghosts>>

Allocated == IF CanFail THEN BOOLEAN ELSE {TRUE}

Next ==
  \/ \E ip \in Addrs :
       \/ \E mac \in Macs, forUs \in BOOLEAN : ArpInput(ip, mac, forUs)
       \/ \E requestOk, copyOk \in Allocated : Output(ip, requestOk, copyOk)
       \/ Probe(ip)
  \/ Tmr \/ NetifDown \/ NetifUp

Spec == Init /\ [][Next]_vars

(* The main loop calls etharp_tmr every ARP_TMR_INTERVAL.                  *)
FairSpec == Spec /\ WF_vars(Tmr)

-----------------------------------------------------------------------------
(* Properties.                                                             *)

Entry ==
  [state : {"empty", "pending", "stable", "rerequesting"},
   ip : Addrs \cup {None}, mac : Macs \cup {None}, ctime : 0 .. MaxAge - 1,
   q : Addrs \cup {None}, netif : BOOLEAN]

TypeOK ==
  /\ table \in [Slots -> Entry]
  /\ hint \in Slots /\ up \in BOOLEAN
  /\ sent \in [hop : Addrs \cup {None}, mac : Macs \cup {None}]
  /\ heard \in [Addrs -> Macs \cup {None}]
  /\ since \in [Addrs -> 0 .. MaxAge]

(* An address has one entry, so that what is learnt of it replaces what    *)
(* was known, and the search may stop at the first match.                  *)
OneEntryEach ==
  \A s, t \in Slots \ Empty : table[s].ip = table[t].ip => s = t

(* A packet goes to the address its next hop announced last, whether it is *)
(* sent at once, through the cached entry or after it has waited.          *)
SentToItsHop == sent # NoPacket => sent.mac = heard[sent.hop]

(* Recycling takes the least destructive entry: one with a packet only     *)
(* when all the entries have one, and then the oldest.                     *)
LeastDestructive ==
  [][\A s \in Slots :
       table[s].q # None /\ table'[s].ip \notin {table[s].ip, None} =>
         \A t \in Slots : /\ table[t].q # None
                          /\ table[t].ctime <= table[s].ctime]_vars

(* No entry keeps the packets for a hop waiting for ever, however often    *)
(* the hop is asked for: they are sent, or the entry is given up or        *)
(* recycled.                                                               *)
NotHeldForever ==
  \A s \in Slots : \/ []<>(table[s].q = None)
                   \/ []<><<table'[s].q # table[s].q>>_table
=============================================================================

---------------------------- MODULE EtharpProofs ----------------------------
(***************************************************************************)
(* Proofs about the ARP cache, for a table of any size, any ages and       *)
(* limits, any addresses, and allocations that may fail.                   *)
(***************************************************************************)
EXTENDS Etharp, WellFoundedInduction, TLAPS

LEMMA Least ==
  ASSUME NEW S, S \subseteq Nat, S # {}
  PROVE  \E s \in S : \A t \in S : s <= t
<1>1. PICK s \in S : \A t \in S : ~ (<<t, s>> \in OpToRel(<, Nat))
  BY NatLessThanWellFounded, WFMin
<1>2. \A t \in S : ~ (t < s)
  BY <1>1 DEF OpToRel
<1>. QED
  BY <1>2

(* What is true of an entry: a packet waits only in a pending entry, for   *)
(* the address of the entry, and what a stable entry knows is what its     *)
(* host announced last, as long ago as the entry is old.                   *)
Sound(e, h, sn) ==
  /\ e.state # "empty" => e.ip \in Addrs
  /\ e.q # None => e.state = "pending" /\ e.q = e.ip
  /\ Stable(e) => e.mac = h[e.ip] /\ sn[e.ip] = e.ctime

IInv ==
  /\ TypeOK
  /\ OneEntryEach
  /\ SentToItsHop
  /\ \A s \in Slots : Sound(table[s], heard, since)

-----------------------------------------------------------------------------
(* etharp_find_entry finds the one entry of an address if there is one.    *)
LEMMA FindsItsEntry ==
  ASSUME TypeOK, OneEntryEach, NEW ip \in Addrs, NEW hard \in BOOLEAN,
         NEW s \in FindEntry(ip, hard)
  PROVE  s \in Slots /\ \A t \in Match(ip) : t = s
<1>1. Slots \subseteq Nat /\ Match(ip) \subseteq Slots /\ Empty \subseteq Slots
  BY TableAssumption DEF Slots, Match, Empty
<1>2. CASE Match(ip) # {}
  <2>1. \E t \in Match(ip) : \A x \in Match(ip) : t <= x
    BY <1>1, <1>2, Least
  <2>2. s \in Match(ip)
    BY <1>2, <2>1 DEF FindEntry
  <2>. QED
    BY <1>1, <2>2 DEF OneEntryEach, Match
<1>3. CASE Match(ip) = {} /\ hard /\ Empty # {}
  <2>1. \E t \in Empty : \A x \in Empty : t <= x
    BY <1>1, <1>3, Least
  <2>. QED
    BY <1>1, <1>3, <2>1 DEF FindEntry
<1>4. CASE Match(ip) = {} /\ hard /\ Empty = {}
  BY <1>4 DEF FindEntry, Recycled, Oldest, StableSlots, Pending
<1>. QED
  BY <1>2, <1>3, <1>4 DEF FindEntry

(* The entry it leaves is sound and belongs to the address, or is new.     *)
LEMMA FoundIsSound ==
  ASSUME IInv, NEW ip \in Addrs, NEW hard \in BOOLEAN, NEW s \in FindEntry(ip, hard)
  PROVE  /\ Found(s, ip) \in Entry
         /\ Found(s, ip).ip = ip
         /\ Found(s, ip).q \in {None, ip}
         /\ Found(s, ip).state = "empty" => Found(s, ip).q = None
         /\ s \in Match(ip) => Found(s, ip) = table[s]
         /\ s \notin Match(ip) => Found(s, ip).state = "empty"
<1>1. s \in Slots /\ table[s] \in Entry /\ Sound(table[s], heard, since)
  BY FindsItsEntry DEF IInv, TypeOK
<1>2. CASE s \in Match(ip)
  BY <1>1, <1>2 DEF Found, Match, Empty, Sound
<1>3. CASE s \notin Match(ip)
  <2>1. Found(s, ip) = [state |-> "empty", ip |-> ip, mac |-> None, ctime |-> 0,
                        q |-> None, netif |-> table[s].netif]
    BY <1>3 DEF Found, Freed, Unused
  <2>2. table[s].netif \in BOOLEAN /\ 0 \in 0 .. MaxAge - 1
    BY <1>1, AgesAssumption DEF Entry
  <2>. QED
    BY <1>3, <2>1, <2>2 DEF Entry
<1>. QED
  BY <1>2, <1>3

(* When the entry found is replaced by another of the same address, an     *)
(* address still has one entry.                                            *)
LEMMA Replaced ==
  ASSUME TypeOK, OneEntryEach, NEW ip \in Addrs, NEW hard \in BOOLEAN,
         NEW s \in FindEntry(ip, hard), NEW e, e.ip = ip,
         table' = [table EXCEPT ![s] = e]
  PROVE  OneEntryEach'
<1>1. s \in Slots /\ \A t \in Match(ip) : t = s
  BY FindsItsEntry
<1>2. \A t \in Slots : table'[t] = IF t = s THEN e ELSE table[t]
  BY DEF TypeOK
<1>3. \A t \in Slots : t # s /\ table[t].state # "empty" => table[t].ip # ip
  BY <1>1 DEF Match, Empty
<1>. QED
  BY <1>1, <1>2, <1>3 DEF OneEntryEach, Empty

-----------------------------------------------------------------------------
LEMMA Starts == Init => IInv
BY TableAssumption, AgesAssumption
   DEF Init, IInv, TypeOK, Entry, Unused, OneEntryEach, Empty, Slots, SentToItsHop,
       NoPacket, Sound, Stable

(* Learning an address keeps the table sound, and sends what waited to it. *)
LEMMA ArpInputSafe ==
  ASSUME IInv, NEW ip \in Addrs, NEW mac \in Macs, NEW forUs \in BOOLEAN,
         ArpInput(ip, mac, forUs)
  PROVE  IInv'
<1>. USE NoneAssumption, AgesAssumption
<1>1. /\ heard' = [heard EXCEPT ![ip] = mac]
      /\ since' = [since EXCEPT ![ip] = 0]
      /\ hint' = hint /\ up' = up
  BY DEF ArpInput
<1>2. heard' \in [Addrs -> Macs \cup {None}] /\ since' \in [Addrs -> 0 .. MaxAge]
  BY <1>1 DEF IInv, TypeOK
<1>3. \A t \in Slots : table[t].ip # ip \/ table[t].state = "empty" =>
                         Sound(table[t], heard', since')
  BY <1>1 DEF IInv, TypeOK, Entry, Sound, Stable
<1>4. CASE FindEntry(ip, forUs) = {} /\ table' = table /\ sent' = NoPacket
  <2>1. Match(ip) = {}
    BY <1>4 DEF FindEntry
  <2>2. \A t \in Slots : table[t].ip # ip \/ table[t].state = "empty"
    BY <2>1 DEF Match, Empty
  <2>. QED
    BY <1>1, <1>2, <1>3, <1>4, <2>2
       DEF IInv, TypeOK, OneEntryEach, Empty, SentToItsHop, NoPacket
<1>5. ASSUME NEW s \in FindEntry(ip, forUs),
             table' = [table EXCEPT ![s] = Resolved(Found(s, ip), mac)],
             sent' = IF Found(s, ip).q = None THEN NoPacket
                     ELSE [hop |-> Found(s, ip).q, mac |-> mac]
      PROVE  IInv'
  <2>. DEFINE e == Found(s, ip)
  <2>1. /\ e \in Entry /\ e.ip = ip /\ e.q \in {None, ip}
    BY FoundIsSound
  <2>2. /\ Resolved(e, mac) \in Entry
        /\ Resolved(e, mac).ip = ip
        /\ Sound(Resolved(e, mac), heard', since')
    <3>. HIDE DEF e
    <3>1. heard'[ip] = mac /\ since'[ip] = 0 /\ 0 \in 0 .. MaxAge - 1
      BY <1>1 DEF IInv, TypeOK
    <3>2. Resolved(e, mac) \in Entry
      BY <2>1, <3>1 DEF Resolved, Entry
    <3>3. /\ Resolved(e, mac).ip = ip /\ Resolved(e, mac).state = "stable"
          /\ Resolved(e, mac).mac = mac /\ Resolved(e, mac).ctime = 0
          /\ Resolved(e, mac).q = None
      BY <2>1 DEF Resolved, Entry
    <3>. QED
      BY <3>1, <3>2, <3>3 DEF Sound, Stable
  <2>3. s \in Slots /\ \A t \in Match(ip) : t = s
    BY FindsItsEntry DEF IInv
  <2>4. OneEntryEach'
    BY <1>5, <2>2, Replaced DEF IInv
  <2>5. \A t \in Slots : Sound(table'[t], heard', since')
    <3>1. \A t \in Slots : t # s => table[t].ip # ip \/ table[t].state = "empty"
      BY <2>3 DEF Match, Empty
    <3>. QED
      BY <1>3, <1>5, <2>2, <3>1 DEF IInv, TypeOK
  <2>6. SentToItsHop' /\ sent' \in [hop : Addrs \cup {None}, mac : Macs \cup {None}]
    BY <1>1, <1>5, <2>1 DEF SentToItsHop, NoPacket, IInv, TypeOK
  <2>. QED
    BY <1>1, <1>2, <1>5, <2>2, <2>4, <2>5, <2>6 DEF IInv, TypeOK
<1>. QED
  BY <1>4, <1>5 DEF ArpInput

(* An entry found is asked for: nothing that is known is touched.          *)
LEMMA AskedSafe ==
  ASSUME IInv, NEW ip \in Addrs, NEW s \in FindEntry(ip, TRUE),
         NEW e \in Entry, e.ip = ip, Sound(e, heard, since),
         table' = [table EXCEPT ![s] = e],
         sent' = NoPacket, hint' = hint, up' = up, heard' = heard, since' = since
  PROVE  IInv'
<1>1. s \in Slots
  BY FindsItsEntry DEF IInv
<1>2. OneEntryEach'
  BY Replaced DEF IInv
<1>. QED
  BY <1>1, <1>2 DEF IInv, TypeOK, SentToItsHop, NoPacket

(* A packet that a stable entry sends goes where its hop announced.        *)
LEMMA SendToSafe ==
  ASSUME IInv, NEW ip \in Addrs, NEW ok \in BOOLEAN, NEW s \in Slots,
         Stable(table[s]), table[s].ip = ip, SendTo(s, ip, ok),
         hint' \in Slots, up' = up, heard' = heard, since' = since
  PROVE  IInv'
<1>1. table[s] \in Entry /\ Sound(table[s], heard, since)
  BY DEF IInv, TypeOK
<1>2. sent' = [hop |-> ip, mac |-> heard[ip]]
  BY <1>1 DEF SendTo, Sound
<1>3. SentToItsHop' /\ sent' \in [hop : Addrs \cup {None}, mac : Macs \cup {None}]
  BY <1>2 DEF SentToItsHop, NoPacket, IInv, TypeOK
<1>4. CASE table' = table
  BY <1>3, <1>4 DEF IInv, TypeOK, OneEntryEach, Empty
<1>5. CASE table' = [table EXCEPT ![s].state = "rerequesting"] /\ table[s].state = "stable"
  <2>1. \A t \in Slots : table'[t] = IF t = s THEN [table[s] EXCEPT !.state = "rerequesting"]
                                    ELSE table[t]
    BY <1>5 DEF IInv, TypeOK
  <2>2. [table[s] EXCEPT !.state = "rerequesting"] \in Entry
    BY <1>1 DEF Entry
  <2>3. Sound([table[s] EXCEPT !.state = "rerequesting"], heard, since)
    BY <1>1, <1>5 DEF Sound, Stable, Entry
  <2>4. table' \in [Slots -> Entry]
    BY <1>5, <2>2 DEF IInv, TypeOK
  <2>5. OneEntryEach'
    BY <1>1, <1>5, <2>1 DEF IInv, OneEntryEach, Empty, Entry
  <2>. QED
    BY <1>3, <2>1, <2>3, <2>4, <2>5 DEF IInv, TypeOK
<1>. QED
  BY <1>4, <1>5 DEF SendTo

LEMMA OutputSafe ==
  ASSUME IInv, NEW ip \in Addrs, NEW requestOk \in BOOLEAN, NEW copyOk \in BOOLEAN,
         Output(ip, requestOk, copyOk)
  PROVE  IInv'
<1>1. up' = up /\ heard' = heard /\ since' = since
  BY DEF Output, ghosts
<1>2. CASE Cached(ip) /\ SendTo(hint, ip, requestOk) /\ hint' = hint
  BY <1>1, <1>2, SendToSafe DEF Cached, IInv, TypeOK
<1>3. ASSUME NEW s \in StableSlots \cap Match(ip), SendTo(s, ip, requestOk), hint' = s
      PROVE  IInv'
  <2>1. s \in Slots /\ Stable(table[s]) /\ table[s].ip = ip
    BY DEF StableSlots, Match
  <2>. QED
    BY <1>1, <1>3, <2>1, SendToSafe
<1>4. CASE StableSlots \cap Match(ip) = {} /\ Query(ip, copyOk)
  <2>1. PICK s \in FindEntry(ip, TRUE) :
               table' = [table EXCEPT ![s] = Enqueue(Found(s, ip), ip, copyOk)]
    BY <1>4 DEF Query
  <2>2. /\ Found(s, ip) \in Entry /\ Found(s, ip).ip = ip
        /\ Found(s, ip).q \in {None, ip}
    BY FoundIsSound
  <2>. DEFINE e == Enqueue(Found(s, ip), ip, copyOk)
  <2>3. e \in Entry /\ e.ip = ip /\ Sound(e, heard, since)
    BY <2>2, NoneAssumption DEF Enqueue, Entry, Sound, Stable
  <2>. HIDE DEF e
  <2>. QED
    BY <1>1, <1>4, <2>1, <2>3, AskedSafe DEF Query, e
<1>. QED
  BY <1>2, <1>3, <1>4 DEF Output

LEMMA ProbeSafe ==
  ASSUME IInv, NEW ip \in Addrs, Probe(ip)
  PROVE  IInv'
<1>1. PICK s \in FindEntry(ip, TRUE) :
        table' = [table EXCEPT ![s] = [Found(s, ip) EXCEPT
                    !.state = IF @ = "empty" THEN "pending" ELSE @]]
  BY DEF Probe
<1>. DEFINE f == Found(s, ip)
            e == [f EXCEPT !.state = IF @ = "empty" THEN "pending" ELSE @]
<1>2. /\ f \in Entry /\ f.ip = ip
      /\ f.state = "empty" => f.q = None
      /\ s \in Match(ip) => f = table[s]
      /\ s \notin Match(ip) => f.state = "empty"
  BY FoundIsSound
<1>3. s \in Match(ip) => Sound(f, heard, since)
  BY <1>2 DEF IInv, Match
<1>4. e \in Entry /\ e.ip = ip
  BY <1>2 DEF Entry
<1>5. Sound(e, heard, since)
  <2>. HIDE DEF f
  <2>. QED
    BY <1>2, <1>3 DEF Sound, Stable, Entry, Match, Empty
<1>. HIDE DEF e
<1>. QED
  BY <1>1, <1>4, <1>5, AskedSafe DEF Probe, ghosts, e

(* Time passes for an entry as it does for what the host announced, so     *)
(* that the entry is given up before that is forgotten.                    *)
LEMMA TmrSafe == IInv /\ Tmr => IInv'
<1>. SUFFICES ASSUME IInv, Tmr PROVE IInv'
  OBVIOUS
<1>. USE AgesAssumption, NoneAssumption
<1>1. \A s \in Slots : table'[s] = IF s \in Empty THEN table[s] ELSE Aged(table[s])
  BY DEF Tmr
<1>2. ASSUME NEW e \in Entry, Sound(e, heard, since), e.state # "empty"
      PROVE  /\ Aged(e) \in Entry /\ Sound(Aged(e), heard', since')
             /\ Aged(e).state = "empty" \/ Aged(e).ip = e.ip
  <2>1. e.ip \in Addrs
    BY <1>2 DEF Sound
  <2>. DEFINE old == [e EXCEPT !.ctime = @ + 1]
  <2>2. /\ old.ctime = e.ctime + 1 /\ old.state = e.state /\ old.ip = e.ip
        /\ old.mac = e.mac /\ old.q = e.q /\ old.netif = e.netif
        /\ e.ctime \in 0 .. MaxAge - 1
    BY DEF Entry
  <2>3. CASE Aged(e) = Freed(old)
    BY <2>2, <2>3 DEF Freed, Unused, Entry, Sound, Stable
  <2>4. ASSUME old.ctime < MaxAge,
               \/ Aged(e) = old
               \/ old.state = "rerequesting" /\ Aged(e) = [old EXCEPT !.state = "stable"]
        PROVE  /\ Aged(e) \in Entry /\ Sound(Aged(e), heard', since')
               /\ Aged(e).ip = e.ip
    <3>1. old \in Entry
      <4>1. old.ctime \in 0 .. MaxAge - 1
        BY <2>2, <2>4
      <4>2. old = [state |-> e.state, ip |-> e.ip, mac |-> e.mac, ctime |-> old.ctime,
                   q |-> e.q, netif |-> e.netif]
        BY DEF Entry
      <4>. QED
        BY <4>1, <4>2 DEF Entry
    <3>2. Aged(e) \in Entry /\ Aged(e).ip = e.ip
      <4>. HIDE DEF old
      <4>. QED
        BY <2>2, <2>4, <3>1 DEF Entry
    <3>3. Stable(e) => heard'[e.ip] = e.mac /\ since'[e.ip] = e.ctime + 1
      BY <1>2, <2>1, <2>2, <2>4 DEF Tmr, Sound, IInv, TypeOK
    <3>. QED
      BY <1>2, <2>1, <2>2, <2>4, <3>2, <3>3 DEF Sound, Stable, Entry
  <2>5. old.ctime < MaxAge \/ old.ctime >= MaxAge
    BY <2>2
  <2>. QED
    BY <2>2, <2>3, <2>4, <2>5 DEF Aged
<1>3. \A s \in Slots : table[s].state = "empty" => Sound(table[s], heard', since')
  BY DEF IInv, Sound, Stable
<1>4. \A s \in Slots : /\ table'[s] \in Entry
                       /\ Sound(table'[s], heard', since')
                       /\ table'[s].state = "empty" \/ table'[s].ip = table[s].ip
                       /\ table[s].state = "empty" => table'[s].state = "empty"
  BY <1>1, <1>2, <1>3 DEF IInv, TypeOK, Empty
<1>5. OneEntryEach'
  BY <1>4 DEF IInv, OneEntryEach, Empty
<1>6. heard' \in [Addrs -> Macs \cup {None}] /\ since' \in [Addrs -> 0 .. MaxAge]
  BY DEF Tmr, IInv, TypeOK
<1>7. table' \in [Slots -> Entry]
  BY <1>4 DEF Tmr
<1>. QED
  BY <1>4, <1>5, <1>6, <1>7 DEF Tmr, IInv, TypeOK, SentToItsHop, NoPacket

LEMMA NetifDownSafe == IInv /\ NetifDown => IInv'
<1>. SUFFICES ASSUME IInv, NetifDown PROVE IInv'
  OBVIOUS
<1>1. \A s \in Slots : table'[s] \in {table[s], Freed(table[s])}
  BY DEF NetifDown
<1>2. \A s \in Slots : /\ Freed(table[s]) \in Entry /\ Freed(table[s]).state = "empty"
                       /\ Sound(Freed(table[s]), heard, since)
  BY AgesAssumption DEF Freed, Unused, Entry, Sound, Stable, IInv, TypeOK
<1>3. table' \in [Slots -> Entry]
  BY <1>2 DEF NetifDown, IInv, TypeOK
<1>4. OneEntryEach'
  BY <1>1, <1>2 DEF IInv, OneEntryEach, Empty
<1>. QED
  BY <1>1, <1>2, <1>3, <1>4
     DEF NetifDown, ghosts, IInv, TypeOK, SentToItsHop, NoPacket

LEMMA Keeps == IInv /\ [Next]_vars => IInv'
<1>. SUFFICES ASSUME IInv, [Next]_vars PROVE IInv'
  OBVIOUS
<1>1. ASSUME NEW ip \in Addrs, NEW mac \in Macs, NEW forUs \in BOOLEAN,
             ArpInput(ip, mac, forUs)
      PROVE  IInv'
  BY <1>1, ArpInputSafe
<1>2. ASSUME NEW ip \in Addrs, NEW requestOk \in Allocated, NEW copyOk \in Allocated,
             Output(ip, requestOk, copyOk)
      PROVE  IInv'
  BY <1>2, OutputSafe DEF Allocated
<1>3. ASSUME NEW ip \in Addrs, Probe(ip) PROVE IInv'
  BY <1>3, ProbeSafe
<1>4. CASE NetifUp
  BY <1>4 DEF NetifUp, ghosts, IInv, TypeOK, OneEntryEach, Empty, SentToItsHop, NoPacket
<1>5. CASE UNCHANGED vars
  BY <1>5 DEF vars, ghosts, IInv, TypeOK, OneEntryEach, Empty, SentToItsHop, NoPacket
<1>. QED
  BY <1>1, <1>2, <1>3, <1>4, <1>5, TmrSafe, NetifDownSafe DEF Next

-----------------------------------------------------------------------------
(* An address has one entry: etharp_find_entry looks through the whole     *)
(* table before it makes a new one, whatever is recycled or expires.       *)
THEOREM OneEntry == Spec => []OneEntryEach
<1>1. IInv => OneEntryEach
  BY DEF IInv
<1>. QED
  BY <1>1, Starts, Keeps, PTL DEF Spec

(* Every packet, sent at once, through etharp_cached_entry or after it has *)
(* waited, goes to the Ethernet address that its next hop announced last.  *)
THEOREM GoesToItsHop == Spec => []SentToItsHop
<1>1. IInv => SentToItsHop
  BY DEF IInv
<1>. QED
  BY <1>1, Starts, Keeps, PTL DEF Spec

-----------------------------------------------------------------------------
(* The entry that etharp_find_entry makes anew holds a packet only when    *)
(* all of them do, and then it is the oldest.                              *)
LEMMA RecycledIsLeast ==
  ASSUME IInv, NEW ip \in Addrs, NEW hard \in BOOLEAN, NEW s \in FindEntry(ip, hard),
         table[s].q # None, table[s].ip # ip
  PROVE  \A t \in Slots : table[t].q # None /\ table[t].ctime <= table[s].ctime
<1>1. s \in Slots /\ \A t \in Match(ip) : t = s
  BY FindsItsEntry DEF IInv
<1>2. table[s].state = "pending" /\ s \notin Empty \cup StableSlots \cup Pending(FALSE)
  BY <1>1 DEF IInv, Sound, Empty, StableSlots, Stable, Pending
<1>3. Match(ip) = {}
  BY <1>1 DEF Match
<1>4. Empty = {} /\ s \in Recycled
  <2>1. CASE Empty # {}
    <3>1. \E t \in Empty : \A x \in Empty : t <= x
      <4>1. Empty \subseteq Nat
        BY TableAssumption DEF Empty, Slots
      <4>. QED
        BY <2>1, <4>1, Least
    <3>. QED
      BY <1>2, <1>3, <2>1, <3>1 DEF FindEntry
  <2>. QED
    BY <1>3, <2>1 DEF FindEntry
<1>5. StableSlots = {} /\ Pending(FALSE) = {} /\ s \in Oldest(Pending(TRUE))
  BY <1>2, <1>4 DEF Recycled, Oldest
<1>6. ASSUME NEW t \in Slots
      PROVE  table[t].q # None /\ table[t].ctime <= table[s].ctime
  <2>1. table[t] \in Entry /\ table[s] \in Entry
    BY <1>1 DEF IInv, TypeOK
  <2>2. table[t].state = "pending"
    BY <1>4, <1>5, <2>1 DEF Empty, StableSlots, Stable, Entry
  <2>3. t \in Pending(TRUE)
    BY <1>5, <2>2 DEF Pending
  <2>4. table[t].ctime \in Int /\ table[s].ctime \in Int
    BY <2>1 DEF Entry
  <2>. QED
    BY <1>5, <2>3, <2>4 DEF Oldest, Pending
<1>. QED
  BY <1>6

(* What LeastDestructive says of one entry in one step.                    *)
Spares(s) ==
  table[s].q # None /\ table'[s].ip \notin {table[s].ip, None} =>
    \A t \in Slots : table[t].q # None /\ table[t].ctime <= table[s].ctime

LEMMA RewrittenSpares ==
  ASSUME IInv, NEW ip \in Addrs, NEW hard \in BOOLEAN, NEW s \in FindEntry(ip, hard),
         NEW e, e.ip = ip, table' = [table EXCEPT ![s] = e]
  PROVE  \A x \in Slots : Spares(x)
<1>1. s \in Slots
  BY FindsItsEntry DEF IInv
<1>2. \A x \in Slots : table'[x] = IF x = s THEN e ELSE table[x]
  BY DEF IInv, TypeOK
<1>. QED
  BY <1>1, <1>2, RecycledIsLeast DEF Spares

LEMMA SameIpSpares ==
  ASSUME \A x \in Slots : table'[x].ip \in {table[x].ip, None}
  PROVE  \A x \in Slots : Spares(x)
BY DEF Spares

LEMMA StepSpares == IInv /\ [Next]_vars => \A x \in Slots : Spares(x)
<1>. SUFFICES ASSUME IInv, [Next]_vars PROVE \A x \in Slots : Spares(x)
  OBVIOUS
<1>1. ASSUME NEW ip \in Addrs, NEW mac \in Macs, NEW forUs \in BOOLEAN,
             ArpInput(ip, mac, forUs)
      PROVE  \A x \in Slots : Spares(x)
  <2>1. CASE table' = table
    BY <2>1, SameIpSpares
  <2>2. ASSUME NEW s \in FindEntry(ip, forUs),
               table' = [table EXCEPT ![s] = Resolved(Found(s, ip), mac)]
        PROVE  \A x \in Slots : Spares(x)
    <3>1. Resolved(Found(s, ip), mac).ip = ip
      BY FoundIsSound DEF Resolved, Entry
    <3>. QED
      BY <2>2, <3>1, RewrittenSpares
  <2>. QED
    BY <1>1, <2>1, <2>2 DEF ArpInput
<1>2. ASSUME NEW ip \in Addrs, NEW requestOk \in Allocated, NEW copyOk \in Allocated,
             Output(ip, requestOk, copyOk)
      PROVE  \A x \in Slots : Spares(x)
  <2>1. ASSUME NEW s \in Slots, SendTo(s, ip, requestOk)
        PROVE  \A x \in Slots : Spares(x)
    <3>1. table' \in {table, [table EXCEPT ![s].state = "rerequesting"]}
      BY <2>1 DEF SendTo
    <3>2. \A x \in Slots : table[x] \in Entry
      BY DEF IInv, TypeOK
    <3>3. \A x \in Slots : table'[x].ip = table[x].ip
      BY <3>1, <3>2 DEF IInv, TypeOK, Entry
    <3>. QED
      BY <3>3, SameIpSpares
  <2>2. CASE Query(ip, copyOk)
    <3>1. PICK s \in FindEntry(ip, TRUE) :
                 table' = [table EXCEPT ![s] = Enqueue(Found(s, ip), ip, copyOk)]
      BY <2>2 DEF Query
    <3>2. Found(s, ip) \in Entry /\ Found(s, ip).ip = ip
      BY FoundIsSound
    <3>3. Enqueue(Found(s, ip), ip, copyOk).ip = ip
      BY <3>2 DEF Enqueue, Entry
    <3>. QED
      BY <3>1, <3>3, RewrittenSpares
  <2>3. hint \in Slots /\ StableSlots \subseteq Slots
    BY DEF IInv, TypeOK, StableSlots
  <2>. QED
    BY <1>2, <2>1, <2>2, <2>3 DEF Output
<1>3. ASSUME NEW ip \in Addrs, Probe(ip)
      PROVE  \A x \in Slots : Spares(x)
  <2>1. PICK s \in FindEntry(ip, TRUE) :
          table' = [table EXCEPT ![s] = [Found(s, ip) EXCEPT
                      !.state = IF @ = "empty" THEN "pending" ELSE @]]
    BY <1>3 DEF Probe
  <2>2. Found(s, ip) \in Entry /\ Found(s, ip).ip = ip
    BY FoundIsSound
  <2>3. [Found(s, ip) EXCEPT !.state = IF @ = "empty" THEN "pending" ELSE @].ip = ip
    BY <2>2 DEF Entry
  <2>. QED
    BY <2>1, <2>3, RewrittenSpares
<1>4. CASE Tmr
  <2>1. \A e \in Entry : Aged(e).ip \in {e.ip, None}
    BY DEF Aged, Freed, Unused, Entry
  <2>2. \A x \in Slots : table'[x].ip \in {table[x].ip, None}
    BY <1>4, <2>1 DEF Tmr, IInv, TypeOK
  <2>. QED
    BY <2>2, SameIpSpares
<1>5. CASE NetifDown
  <2>1. \A x \in Slots : table'[x].ip \in {table[x].ip, None}
    BY <1>5 DEF NetifDown, Freed, Unused
  <2>. QED
    BY <2>1, SameIpSpares
<1>6. CASE table' = table
  BY <1>6, SameIpSpares
<1>. QED
  BY <1>1, <1>2, <1>3, <1>4, <1>5, <1>6 DEF Next, NetifUp, vars

(* A packet that waits is given up for another address only when every     *)
(* entry has one, and then it is one of the oldest entry.                  *)
THEOREM RecyclesTheLeast == Spec => LeastDestructive
<1>1. IInv /\ [Next]_vars =>
        [\A s \in Slots :
           table[s].q # None /\ table'[s].ip \notin {table[s].ip, None} =>
             \A t \in Slots : /\ table[t].q # None
                              /\ table[t].ctime <= table[s].ctime]_vars
  BY StepSpares DEF Spares
<1>. QED
  BY <1>1, Starts, Keeps, PTL DEF Spec, LeastDestructive
=============================================================================

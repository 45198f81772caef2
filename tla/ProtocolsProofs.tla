--------------------------- MODULE ProtocolsProofs ---------------------------
(***************************************************************************)
(* Proofs about Udp, for any pool, any addresses and any range of ports    *)
(* that is larger than the pool; and about the DHCP client, for any pool   *)
(* of addresses, any number of replies on the network, any number of tries *)
(* and any times of a lease.                                               *)
(***************************************************************************)
EXTENDS Protocols, FiniteSetTheorems, WellFoundedInduction, TLAPS

(* udp_new_port always finds a port, and no pcb of the list has it: there  *)
(* are more ports than pcbs and the search tries each of them.             *)
LEMMA EveryPortTried ==
  ASSUME NEW last \in RangeStart .. RangeEnd, NEW port \in RangeStart .. RangeEnd
  PROVE  \E k \in 1 .. RangeSize : Step(last, k) = port
<1>. DEFINE k == IF port > last THEN port - last ELSE port - last + RangeSize
<1>. USE UdpAssumption DEF UdpAssumption
<1>1. k \in 1 .. RangeSize
  BY DEF RangeSize
<1>2. Step(last, k) = port
  BY DEF Step, RangeSize
<1>. QED
  BY <1>1, <1>2

LEMMA StepInRange ==
  ASSUME NEW last \in RangeStart .. RangeEnd, NEW k \in 1 .. RangeSize
  PROVE  Step(last, k) \in RangeStart .. RangeEnd
BY UdpAssumption DEF UdpAssumption, Step, RangeSize

LEMMA SomeStepFree ==
  ASSUME NEW u, u.list \in Seq(Pcbs), u.port \in [Pcbs -> Nat],
         u.last \in RangeStart .. RangeEnd
  PROVE  FreeSteps(u) # {}
<1>. SUFFICES ASSUME FreeSteps(u) = {} PROVE FALSE
  OBVIOUS
<1>. DEFINE R == RangeStart .. RangeEnd
            Holders == {p \in Listed(u) : u.port[p] \in R}
            f == [p \in Holders |-> u.port[p]]
<1>1. Listed(u) \subseteq Pcbs
  BY DEF Listed, Range
<1>2. ASSUME NEW port \in R PROVE \E p \in Holders : f[p] = port
  <2>1. PICK k \in 1 .. RangeSize : Step(u.last, k) = port
    BY EveryPortTried
  <2>2. PICK p \in Listed(u) : u.port[p] = port
    BY <2>1 DEF FreeSteps
  <2>. QED
    BY <2>2
<1>3. f \in Surjection(Holders, R)
  BY <1>2 DEF Surjection
<1>4. /\ IsFiniteSet(Holders)
      /\ Cardinality(Holders) \in Nat
      /\ Cardinality(Holders) <= Cardinality(Pcbs)
  <2>1. Holders \in SUBSET Pcbs
    BY <1>1
  <2>2. IsFiniteSet(Pcbs)
    BY UdpAssumption DEF UdpAssumption
  <2>. HIDE DEF Holders
  <2>. QED
    BY <2>1, <2>2, FS_Subset, FS_CardinalityType
<1>5. Cardinality(R) <= Cardinality(Holders)
  <2>. HIDE DEF Holders, R, f
  <2>. QED
    BY <1>3, <1>4, FS_Surjection
<1>6. Cardinality(R) = RangeSize
  <2>1. RangeStart \in Int /\ RangeEnd \in Int /\ ~(RangeStart > RangeEnd)
    BY UdpAssumption DEF UdpAssumption
  <2>. QED
    BY <2>1, FS_Interval DEF RangeSize
<1>7. RangeSize \in Int /\ Cardinality(Pcbs) \in Nat
  BY UdpAssumption, FS_CardinalityType DEF UdpAssumption, RangeSize
<1>. QED
  <2>. HIDE DEF Holders, R, f
  <2>. QED
    BY <1>4, <1>5, <1>6, <1>7, UdpAssumption DEF UdpAssumption

(* A set of naturals that is not empty has a least element.                *)
LEMMA LeastNatural ==
  ASSUME NEW S, S \subseteq Nat, S # {}
  PROVE  \E k \in S : \A j \in S : k <= j
<1>. DEFINE LT == {ss \in Nat \X Nat : ss[1] < ss[2]}
<1>1. IsWellFoundedOn(LT, Nat)
  BY NatLessThanWellFounded, Zenon DEF OpToRel
<1>2. PICK k \in S : \A j \in S : ~ (<<j, k>> \in LT)
  <2>. HIDE DEF LT
  <2>. QED
    BY <1>1, WFMin
<1>3. ASSUME NEW j \in S PROVE k <= j
  <2>1. j \in Nat /\ k \in Nat /\ <<j, k>> \notin LT
    BY <1>2
  <2>2. ASSUME j < k PROVE <<j, k>> \in LT
    <3>1. <<j, k>> \in Nat \X Nat /\ <<j, k>>[1] = j /\ <<j, k>>[2] = k
      BY <2>1
    <3>. QED
      BY <2>2, <3>1
  <2>. QED
    BY <2>1, <2>2
<1>. QED
  BY <1>3

(* What it finds is the first of the free ports after the last one.        *)
LEMMA NewPortFree ==
  ASSUME NEW u, u.list \in Seq(Pcbs), u.port \in [Pcbs -> Nat],
         u.last \in RangeStart .. RangeEnd
  PROVE  /\ NewPort(u) \in RangeStart .. RangeEnd
         /\ NewPort(u) \in Nat \ {0}
         /\ \A q \in Listed(u) : u.port[q] # NewPort(u)
<1>. DEFINE Least(k) == \A j \in FreeSteps(u) : k <= j
<1>1. FreeSteps(u) # {} /\ FreeSteps(u) \subseteq Nat
  BY SomeStepFree DEF FreeSteps
<1>2. PICK k \in FreeSteps(u) : Least(k)
  <2>. HIDE DEF FreeSteps
  <2>. QED
    BY <1>1, LeastNatural
<1>3. (CHOOSE i \in FreeSteps(u) : \A j \in FreeSteps(u) : i <= j) \in FreeSteps(u)
  BY <1>2
<1>4. PICK m \in FreeSteps(u) : NewPort(u) = Step(u.last, m)
  BY <1>1, <1>3 DEF NewPort
<1>5. NewPort(u) \in RangeStart .. RangeEnd
  BY <1>4, StepInRange DEF FreeSteps
<1>6. \A q \in Listed(u) : u.port[q] # NewPort(u)
  BY <1>4 DEF FreeSteps
<1>. QED
  BY <1>5, <1>6, UdpAssumption DEF UdpAssumption

-----------------------------------------------------------------------------
(* The three things that are done to the list, as to the set of its        *)
(* members: one is added in front, taken out, moved to the front.          *)
LEMMA Pushed ==
  ASSUME NEW s \in Seq(Pcbs), NEW p \in Pcbs, p \notin Range(s), NoRepeat(s)
  PROVE  /\ <<p>> \o s \in Seq(Pcbs)
         /\ Range(<<p>> \o s) = Range(s) \cup {p}
         /\ NoRepeat(<<p>> \o s)
<1>. DEFINE t == <<p>> \o s
<1>1. /\ t \in Seq(Pcbs)
      /\ Len(t) = Len(s) + 1
      /\ t[1] = p
      /\ \A i \in 1 .. Len(s) : t[i + 1] = s[i]
      /\ DOMAIN t = 1 .. Len(t) /\ DOMAIN s = 1 .. Len(s) /\ Len(s) \in Nat
  OBVIOUS
<1>2. \A i \in DOMAIN t : i = 1 \/ (i - 1 \in DOMAIN s /\ t[i] = s[i - 1])
  BY <1>1
<1>. HIDE DEF t
<1>3. ASSUME NEW x \in Range(t) PROVE x \in Range(s) \cup {p}
  BY <1>1, <1>2 DEF Range
<1>4. ASSUME NEW x \in Range(s) PROVE x \in Range(t)
  <2>1. PICK i \in DOMAIN s : x = s[i]
    BY DEF Range
  <2>2. i + 1 \in DOMAIN t /\ t[i + 1] = x
    BY <1>1, <2>1
  <2>. QED
    BY <2>2 DEF Range
<1>5. p \in Range(t)
  BY <1>1 DEF Range
<1>6. NoRepeat(t)
  BY <1>1, <1>2 DEF NoRepeat, Range
<1>7. Range(t) = Range(s) \cup {p}
  BY <1>3, <1>4, <1>5
<1>. QED
  BY <1>1, <1>6, <1>7 DEF t

LEMMA TakenOut ==
  ASSUME NEW s \in Seq(Pcbs), NEW p \in Range(s), NoRepeat(s)
  PROVE  /\ Without(s, Place(s, p)) \in Seq(Pcbs)
         /\ Range(Without(s, Place(s, p))) = Range(s) \ {p}
         /\ NoRepeat(Without(s, Place(s, p)))
<1>. DEFINE n == Place(s, p)
            t == Without(s, n)
<1>1. /\ DOMAIN s = 1 .. Len(s) /\ Len(s) \in Nat
      /\ \A i \in DOMAIN s : s[i] \in Pcbs
  OBVIOUS
<1>2. n \in 1 .. Len(s) /\ s[n] = p
  BY <1>1 DEF Place, Range
<1>3. \A i \in 1 .. Len(s) : s[i] = p => i = n
  BY <1>1, <1>2 DEF NoRepeat
<1>. HIDE DEF n
<1>4. /\ t \in Seq(Pcbs) /\ DOMAIN t = 1 .. Len(s) - 1
      /\ \A j \in 1 .. Len(s) - 1 : t[j] = IF j < n THEN s[j] ELSE s[j + 1]
  BY <1>1, <1>2 DEF Without
<1>. HIDE DEF t
<1>5. ASSUME NEW x \in Range(t) PROVE x \in Range(s) \ {p}
  <2>1. PICK j \in 1 .. Len(s) - 1 : x = t[j]
    BY <1>4 DEF Range
  <2>2. PICK i \in 1 .. Len(s) : x = s[i] /\ i # n
    <3>1. CASE j < n
      BY <2>1, <3>1, <1>1, <1>2, <1>4
    <3>2. CASE ~(j < n)
      <4>1. j + 1 \in 1 .. Len(s) /\ j + 1 # n /\ x = s[j + 1]
        BY <2>1, <3>2, <1>1, <1>2, <1>4
      <4>. QED
        BY <4>1
    <3>. QED
      BY <3>1, <3>2
  <2>. QED
    BY <2>2, <1>1, <1>3 DEF Range
<1>6. ASSUME NEW x \in Range(s) \ {p} PROVE x \in Range(t)
  <2>1. PICK i \in 1 .. Len(s) : x = s[i] /\ i # n
    BY <1>1, <1>2 DEF Range
  <2>2. CASE i < n
    <3>1. i \in 1 .. Len(s) - 1 /\ t[i] = x
      BY <2>1, <2>2, <1>1, <1>2, <1>4
    <3>. QED
      BY <3>1, <1>4 DEF Range
  <2>3. CASE i > n
    <3>1. i - 1 \in 1 .. Len(s) - 1 /\ t[i - 1] = x
      BY <2>1, <2>3, <1>1, <1>2, <1>4
    <3>. QED
      BY <3>1, <1>4 DEF Range
  <2>. QED
    BY <2>1, <2>2, <2>3, <1>1, <1>2
<1>7. NoRepeat(t)
  <2>. DEFINE o(i) == IF i < n THEN i ELSE i + 1
  <2>1. \A i \in 1 .. Len(s) - 1 : o(i) \in 1 .. Len(s) /\ t[i] = s[o(i)]
    BY <1>1, <1>2, <1>4
  <2>2. ASSUME NEW i \in 1 .. Len(s) - 1, NEW j \in 1 .. Len(s) - 1, t[i] = t[j]
        PROVE  i = j
    <3>1. o(i) = o(j)
      <4>. HIDE DEF o
      <4>. QED
        BY <2>1, <2>2, <1>1 DEF NoRepeat
    <3>. QED
      BY <3>1, <1>1, <1>2
  <2>. QED
    BY <2>2, <1>4 DEF NoRepeat
<1>8. Range(t) = Range(s) \ {p}
  BY <1>5, <1>6
<1>. QED
  BY <1>4, <1>7, <1>8 DEF t, n

LEMMA Moved ==
  ASSUME NEW s \in Seq(Pcbs), NEW n \in DOMAIN s, NoRepeat(s)
  PROVE  /\ MovedToFront(s, n) \in Seq(Pcbs)
         /\ Range(MovedToFront(s, n)) = Range(s)
         /\ NoRepeat(MovedToFront(s, n))
<1>. DEFINE t == MovedToFront(s, n)
<1>1. /\ DOMAIN s = 1 .. Len(s) /\ Len(s) \in Nat /\ n \in 1 .. Len(s)
      /\ \A i \in DOMAIN s : s[i] \in Pcbs
  OBVIOUS
<1>2. /\ t \in Seq(Pcbs) /\ DOMAIN t = 1 .. Len(s)
      /\ \A j \in 1 .. Len(s) :
           t[j] = IF j = 1 THEN s[n] ELSE IF j <= n THEN s[j - 1] ELSE s[j]
  BY <1>1 DEF MovedToFront
<1>. HIDE DEF t
<1>3. ASSUME NEW x \in Range(t) PROVE x \in Range(s)
  <2>1. PICK j \in 1 .. Len(s) : x = t[j]
    BY <1>2 DEF Range
  <2>2. j # 1 => j - 1 \in 1 .. Len(s)
    BY <1>1
  <2>. QED
    BY <2>1, <2>2, <1>1, <1>2 DEF Range
<1>4. ASSUME NEW x \in Range(s) PROVE x \in Range(t)
  <2>1. PICK i \in 1 .. Len(s) : x = s[i]
    BY <1>1 DEF Range
  <2>2. CASE i = n
    <3>1. 1 \in DOMAIN t /\ t[1] = x
      BY <2>1, <2>2, <1>1, <1>2
    <3>. QED
      BY <3>1 DEF Range
  <2>3. CASE i < n
    <3>1. i + 1 \in DOMAIN t /\ t[i + 1] = x
      BY <2>1, <2>3, <1>1, <1>2
    <3>. QED
      BY <3>1 DEF Range
  <2>4. CASE i > n
    <3>1. i \in DOMAIN t /\ t[i] = x
      BY <2>1, <2>4, <1>1, <1>2
    <3>. QED
      BY <3>1 DEF Range
  <2>. QED
    BY <2>1, <2>2, <2>3, <2>4, <1>1
<1>5. NoRepeat(t)
  <2>. DEFINE From(j) == IF j = 1 THEN n ELSE IF j <= n THEN j - 1 ELSE j
  <2>1. \A j \in 1 .. Len(s) : From(j) \in 1 .. Len(s) /\ t[j] = s[From(j)]
    BY <1>1, <1>2
  <2>2. \A i, j \in 1 .. Len(s) : From(i) = From(j) => i = j
    BY <1>1
  <2>. HIDE DEF From
  <2>3. \A i, j \in 1 .. Len(s) : s[i] = s[j] => i = j
    BY <1>1 DEF NoRepeat
  <2>4. \A i, j \in 1 .. Len(s) : t[i] = t[j] => i = j
    BY <2>1, <2>2, <2>3
  <2>. QED
    BY <1>2, <2>4 DEF NoRepeat
<1>6. Range(t) = Range(s)
  BY <1>3, <1>4
<1>. QED
  BY <1>2, <1>5, <1>6 DEF t

-----------------------------------------------------------------------------
(* What the functions of udp.c keep, for any state of the pcbs.            *)
UInv(u) == u \in UdpState /\ NoRepeat(u.list) /\ HasBound(u) /\ Distinct(u)

LEMMA ListIsAllocated ==
  ASSUME NEW u, UInv(u)
  PROVE  Listed(u) \subseteq u.allocated /\ u.allocated \subseteq Pcbs
BY DEF UInv, HasBound, UdpState

(* A port that clashes with nobody's may be given to a pcb, listed or not. *)
LEMMA BoundToInv ==
  ASSUME NEW u, UInv(u), NEW p \in u.allocated, NEW a \in Addrs, NEW port \in Nat \ {0},
         ~ Clashes(u, p, a, port)
  PROVE  UInv(BoundTo(u, p, a, port))
<1>. DEFINE v == BoundTo(u, p, a, port)
<1>1. /\ p \in Pcbs /\ Listed(u) \subseteq Pcbs
      /\ u.list \in Seq(Pcbs) /\ u.ip \in [Pcbs -> Addrs] /\ u.port \in [Pcbs -> Nat]
      /\ NoRepeat(u.list)
  BY ListIsAllocated DEF UInv, UdpState
<1>2. /\ v.ip = [u.ip EXCEPT ![p] = a] /\ v.port = [u.port EXCEPT ![p] = port]
      /\ v.list = WithListed(u, p) /\ v.allocated = u.allocated
  BY DEF BoundTo, UInv, UdpState
<1>3. /\ WithListed(u, p) \in Seq(Pcbs) /\ NoRepeat(WithListed(u, p))
      /\ Range(WithListed(u, p)) = Listed(u) \cup {p}
  BY <1>1, Pushed DEF WithListed, Listed
<1>4. v \in UdpState
  BY <1>1, <1>3 DEF BoundTo, UInv, UdpState
<1>. HIDE DEF v
<1>5. Listed(v) = Listed(u) \cup {p}
  BY <1>2, <1>3 DEF Listed
<1>6. HasBound(v)
  <2>1. Listed(u) = {q \in u.allocated : u.port[q] # 0}
    BY DEF UInv, HasBound
  <2>2. \A q \in Pcbs : v.port[q] = IF q = p THEN port ELSE u.port[q]
    BY <1>1, <1>2
  <2>3. \A q : q \in Listed(v) <=> q \in v.allocated /\ v.port[q] # 0
    BY <1>1, <1>2, <1>5, <2>1, <2>2, ListIsAllocated
  <2>. QED
    BY <2>3 DEF HasBound
<1>7. Distinct(v)
  <2>1. \A q \in Pcbs : /\ v.port[q] = IF q = p THEN port ELSE u.port[q]
                        /\ v.ip[q] = IF q = p THEN a ELSE u.ip[q]
    BY <1>1, <1>2
  <2>2. \A q \in Listed(u) \ {p} : ~ Overlap(v, p, q) /\ ~ Overlap(v, q, p)
    BY <1>1, <2>1 DEF Clashes, Overlap
  <2>3. \A q, r \in Listed(u) \ {p} : Overlap(v, q, r) => q = r
    BY <1>1, <2>1 DEF UInv, Distinct, Overlap
  <2>. QED
    BY <1>5, <2>2, <2>3 DEF Distinct
<1>. QED
  BY <1>2, <1>3, <1>4, <1>6, <1>7 DEF UInv, v

(* udp_bind: the state stays sound, and with no port asked for the pcb has *)
(* one afterwards.                                                         *)
LEMMA BoundInv ==
  ASSUME NEW u, UInv(u), NEW p \in u.allocated, NEW a \in Addrs, NEW port \in Nat
  PROVE  /\ UInv(Bound(u, p, a, port))
         /\ Bound(u, p, a, port).allocated = u.allocated
         /\ port = 0 => Bound(u, p, a, port).port[p] # 0
<1>1. /\ u.list \in Seq(Pcbs) /\ u.port \in [Pcbs -> Nat] /\ p \in Pcbs
      /\ u.last \in RangeStart .. RangeEnd
  BY ListIsAllocated DEF UInv, UdpState
<1>2. NewPort(u) \in RangeStart .. RangeEnd /\ NewPort(u) \in Nat \ {0}
  BY <1>1, NewPortFree
<1>3. \A q \in Listed(u) : u.port[q] # 0
  BY DEF UInv, HasBound
<1>4. ~ Clashes(u, p, a, 0) /\ ~ Clashes(u, p, a, NewPort(u))
  BY <1>1, <1>3, NewPortFree DEF Clashes
<1>5. \A n : /\ BoundTo(u, p, a, n).allocated = u.allocated
             /\ BoundTo(u, p, a, n).port[p] = n
  BY <1>1 DEF BoundTo, UInv, UdpState
<1>6. CASE Clashes(u, p, a, port)
  BY <1>4, <1>6 DEF Bound
<1>7. CASE ~ Clashes(u, p, a, port) /\ port # 0
  BY <1>5, <1>7, BoundToInv DEF Bound
<1>8. CASE port = 0
  <2>. DEFINE w == BoundTo(u, p, a, NewPort(u))
              v == [w EXCEPT !.last = NewPort(u)]
  <2>1. UInv(w)
    BY <1>2, <1>4, BoundToInv
  <2>2. Bound(u, p, a, port) = v
    BY <1>2, <1>4, <1>8 DEF Bound
  <2>3. w.allocated = u.allocated /\ w.port[p] = NewPort(u)
    BY <1>5
  <2>. HIDE DEF w
  <2>4. /\ v \in UdpState /\ v.list = w.list /\ v.ip = w.ip /\ v.port = w.port
        /\ v.allocated = w.allocated
    BY <2>1, <1>2 DEF UInv, UdpState
  <2>. HIDE DEF v
  <2>5. UInv(v)
    BY <2>1, <2>4 DEF UInv, HasBound, Distinct, Overlap, Listed
  <2>. QED
    BY <2>2, <2>3, <2>4, <2>5, <1>2
<1>. QED
  BY <1>6, <1>7, <1>8

LEMMA BoundKeepsListed ==
  ASSUME NEW u, UInv(u), NEW p \in u.allocated, NEW a \in Addrs, NEW port \in Nat
  PROVE  Listed(u) \subseteq Listed(Bound(u, p, a, port))
<1>1. Bound(u, p, a, port).list \in {u.list, WithListed(u, p)}
  BY DEF Bound, BoundTo, UInv, UdpState
<1>2. Range(WithListed(u, p)) = Listed(u) \cup {p}
  BY ListIsAllocated, Pushed DEF WithListed, Listed, UInv, UdpState
<1>. QED
  BY <1>1, <1>2 DEF Listed

(* The bind that connecting and sending do first: the pcb then has a port  *)
(* and is in the list.                                                     *)
LEMMA AutoBoundInv ==
  ASSUME NEW u, UInv(u), NEW p \in u.allocated
  PROVE  /\ UInv(AutoBound(u, p))
         /\ AutoBound(u, p).allocated = u.allocated
         /\ AutoBound(u, p).port[p] # 0
         /\ p \in Listed(AutoBound(u, p))
         /\ Listed(u) \subseteq Listed(AutoBound(u, p))
<1>. DEFINE v == AutoBound(u, p)
<1>1. p \in Pcbs /\ u.ip[p] \in Addrs
  BY ListIsAllocated DEF UInv, UdpState
<1>2. /\ UInv(v) /\ v.allocated = u.allocated /\ v.port[p] # 0
      /\ Listed(u) \subseteq Listed(v)
  BY <1>1, BoundInv, BoundKeepsListed DEF AutoBound
<1>. HIDE DEF v
<1>3. p \in Listed(v)
  BY <1>2 DEF UInv, HasBound
<1>. QED
  BY <1>2, <1>3 DEF v

(* Of udp_connect only the bind matters to the list and to who may take a  *)
(* datagram.                                                               *)
LEMMA SameBinding ==
  ASSUME NEW u, UInv(u), NEW v \in UdpState,
         v.list = u.list, v.ip = u.ip, v.port = u.port, v.allocated = u.allocated
  PROVE  UInv(v) /\ Listed(v) = Listed(u)
BY DEF UInv, HasBound, Distinct, Overlap, Listed

LEMMA ConnectedInv ==
  ASSUME NEW u, UInv(u), NEW p \in u.allocated, NEW a \in Addrs, NEW port \in Nat
  PROVE  /\ UInv(Connected(u, p, a, port))
         /\ Connected(u, p, a, port).allocated = u.allocated
         /\ p \in Listed(Connected(u, p, a, port))
         /\ Listed(u) \subseteq Listed(Connected(u, p, a, port))
<1>. DEFINE v == AutoBound(u, p)
            w == [v EXCEPT !.rip[p] = a, !.rport[p] = port, !.connected = @ \cup {p},
                           !.list = WithListed(v, p)]
<1>1. /\ UInv(v) /\ v.allocated = u.allocated /\ v.port[p] # 0
      /\ p \in Listed(v) /\ Listed(u) \subseteq Listed(v)
  BY AutoBoundInv
<1>2. Connected(u, p, a, port) = w
  BY <1>1 DEF Connected
<1>. HIDE DEF v
<1>3. p \in Pcbs
  BY ListIsAllocated
<1>4. /\ w \in UdpState /\ w.list = v.list /\ w.ip = v.ip /\ w.port = v.port
      /\ w.allocated = v.allocated
  BY <1>1, <1>3 DEF UInv, UdpState, WithListed
<1>. HIDE DEF w
<1>5. UInv(w) /\ Listed(w) = Listed(v)
  BY <1>1, <1>4, SameBinding
<1>. QED
  BY <1>1, <1>2, <1>4, <1>5

LEMMA DisconnectedInv ==
  ASSUME NEW u, UInv(u), NEW p \in u.allocated
  PROVE  UInv(Disconnected(u, p)) /\ Listed(Disconnected(u, p)) = Listed(u)
<1>. DEFINE w == Disconnected(u, p)
<1>1. p \in Pcbs /\ IpAny \in Addrs
  BY ListIsAllocated, UdpAssumption DEF UdpAssumption
<1>2. /\ w \in UdpState /\ w.list = u.list /\ w.ip = u.ip /\ w.port = u.port
      /\ w.allocated = u.allocated
  BY <1>1 DEF Disconnected, UInv, UdpState
<1>. HIDE DEF w
<1>3. UInv(w) /\ Listed(w) = Listed(u)
  BY <1>2, SameBinding
<1>. QED
  BY <1>3 DEF w

LEMMA ClearedFields ==
  ASSUME NEW u, UInv(u), NEW p \in Pcbs
  PROVE  /\ Cleared(u, p) \in UdpState
         /\ Cleared(u, p).list = u.list
         /\ Cleared(u, p).allocated = u.allocated
         /\ Cleared(u, p).port[p] = 0
         /\ \A q \in Pcbs \ {p} : /\ Cleared(u, p).port[q] = u.port[q]
                                 /\ Cleared(u, p).ip[q] = u.ip[q]
BY UdpAssumption DEF UdpAssumption, Cleared, UInv, UdpState

(* A new pcb has no port yet, and is in no list.                           *)
LEMMA AllocatedInv ==
  ASSUME NEW u, UInv(u), NEW p \in Pcbs \ u.allocated
  PROVE  /\ UInv(Allocated(u, p))
         /\ Allocated(u, p).allocated = u.allocated \cup {p}
         /\ Listed(Allocated(u, p)) = Listed(u)
<1>. DEFINE c == Cleared(u, p)
            v == [c EXCEPT !.allocated = @ \cup {p}]
<1>1. /\ c \in UdpState /\ c.list = u.list /\ c.allocated = u.allocated /\ c.port[p] = 0
      /\ \A q \in Pcbs \ {p} : c.port[q] = u.port[q] /\ c.ip[q] = u.ip[q]
  BY ClearedFields
<1>2. Allocated(u, p) = v
  BY DEF Allocated
<1>. HIDE DEF c
<1>3. /\ v \in UdpState /\ v.list = u.list /\ v.allocated = u.allocated \cup {p}
      /\ v.port = c.port /\ v.ip = c.ip
  BY <1>1 DEF UdpState
<1>. HIDE DEF v
<1>4. Listed(v) = Listed(u) /\ Listed(u) \subseteq Pcbs \ {p} /\ NoRepeat(v.list)
  BY <1>3, ListIsAllocated DEF Listed, UInv
<1>5. HasBound(v)
  BY <1>1, <1>3, <1>4, ListIsAllocated DEF UInv, HasBound
<1>6. Distinct(v)
  BY <1>1, <1>3, <1>4 DEF UInv, Distinct, Overlap
<1>. QED
  BY <1>2, <1>3, <1>4, <1>5, <1>6 DEF UInv

LEMMA RemovedInv ==
  ASSUME NEW u, UInv(u), NEW p \in u.allocated
  PROVE  /\ UInv(Removed(u, p))
         /\ Removed(u, p).allocated = u.allocated \ {p}
         /\ Listed(Removed(u, p)) = Listed(u) \ {p}
<1>. DEFINE c == Cleared(u, p)
            s == IF p \in Listed(u) THEN Without(u.list, Place(u.list, p)) ELSE u.list
            v == [c EXCEPT !.list = s, !.allocated = @ \ {p}]
<1>1. p \in Pcbs
  BY ListIsAllocated
<1>2. /\ c \in UdpState /\ c.list = u.list /\ c.allocated = u.allocated /\ c.port[p] = 0
      /\ \A q \in Pcbs \ {p} : c.port[q] = u.port[q] /\ c.ip[q] = u.ip[q]
  BY <1>1, ClearedFields
<1>3. s \in Seq(Pcbs) /\ Range(s) = Listed(u) \ {p} /\ NoRepeat(s)
  BY TakenOut DEF UInv, UdpState, Listed
<1>4. Removed(u, p) = v
  BY DEF Removed
<1>. HIDE DEF c, s
<1>5. /\ v \in UdpState /\ v.list = s /\ v.allocated = u.allocated \ {p}
      /\ v.port = c.port /\ v.ip = c.ip
  BY <1>2, <1>3 DEF UdpState
<1>. HIDE DEF v
<1>6. Listed(v) = Listed(u) \ {p} /\ NoRepeat(v.list)
  BY <1>3, <1>5 DEF Listed
<1>7. HasBound(v)
  BY <1>2, <1>5, <1>6, ListIsAllocated DEF UInv, HasBound
<1>8. Distinct(v)
  BY <1>2, <1>5, <1>6, ListIsAllocated DEF UInv, Distinct, Overlap
<1>. QED
  BY <1>4, <1>5, <1>6, <1>7, <1>8 DEF UInv

(* Only the order changes when a datagram moves its pcb to the front.      *)
LEMMA MovedInv ==
  ASSUME NEW u, UInv(u), NEW n \in DOMAIN u.list
  PROVE  LET v == [u EXCEPT !.list = MovedToFront(u.list, n)]
         IN  UInv(v) /\ Listed(v) = Listed(u)
<1>. DEFINE s == MovedToFront(u.list, n)
            v == [u EXCEPT !.list = s]
<1>1. s \in Seq(Pcbs) /\ Range(s) = Listed(u) /\ NoRepeat(s)
  BY Moved DEF UInv, UdpState, Listed
<1>. HIDE DEF s
<1>2. /\ v \in UdpState /\ v.list = s /\ v.ip = u.ip /\ v.port = u.port
      /\ v.allocated = u.allocated
  BY <1>1 DEF UInv, UdpState
<1>. HIDE DEF v
<1>3. Listed(v) = Listed(u)
  BY <1>1, <1>2 DEF Listed
<1>4. UInv(v)
  BY <1>1, <1>2, <1>3 DEF UInv, HasBound, Distinct, Overlap
<1>. QED
  BY <1>3, <1>4 DEF v, s

-----------------------------------------------------------------------------
(* The inductive invariant: besides what the functions keep, the pcb of    *)
(* the DHCP client is in the list, so that nobody else frees it.           *)
DhcpListed == dhcpPcb \in Listed(udp) \cup {NoPcb}

IInv == UInv(udp) /\ DhcpListed

LEMMA InitInv == Init => IInv
<1>. SUFFICES ASSUME Init PROVE IInv
  OBVIOUS
<1>. USE UdpAssumption DEF UdpAssumption, Init
<1>1. /\ udp \in UdpState
      /\ udp.list = <<>> /\ udp.allocated = {}
  <2>1. RangeStart \in RangeStart .. RangeEnd
    BY FS_CardinalityType DEF RangeSize
  <2>2. <<>> \in Seq(Pcbs)
    OBVIOUS
  <2>. QED
    BY <2>1, <2>2 DEF UdpState
<1>2. Listed(udp) = {}
  BY <1>1 DEF Listed, Range
<1>3. NoRepeat(udp.list)
  BY <1>1 DEF NoRepeat
<1>4. HasBound(udp)
  <2>1. {p \in udp.allocated : udp.port[p] # 0} = {}
    BY <1>1
  <2>. QED
    BY <1>2, <2>1 DEF HasBound
<1>5. Distinct(udp)
  BY <1>2 DEF Distinct
<1>. QED
  BY <1>1, <1>3, <1>4, <1>5 DEF IInv, UInv, DhcpListed

LEMMA FirstIsOne ==
  ASSUME NEW places, places \subseteq Nat, places # {}
  PROVE  First(places) \in places
BY LeastNatural DEF First

(* What restarting the DHCP client begins with.                            *)
LEMMA WithoutDhcpInv ==
  ASSUME IInv
  PROVE  UInv(WithoutDhcp)
BY RemovedInv, ListIsAllocated DEF IInv, DhcpListed, WithoutDhcp

(* The pcb that dhcp_start sets up is in the list.                         *)
LEMMA DhcpPcbInv ==
  ASSUME NEW u, UInv(u), NEW p \in Pcbs, p \notin u.allocated
  PROVE  UInv(DhcpPcbMade(u, p)) /\ p \in Listed(DhcpPcbMade(u, p))
<1>. DEFINE v == Allocated(u, p)
            w == Bound(v, p, IpAny, ClientPort)
<1>1. UInv(v) /\ p \in v.allocated
  BY AllocatedInv
<1>. HIDE DEF v
<1>2. IpAny \in Addrs /\ ClientPort \in Nat /\ ServerPort \in Nat
  BY UdpAssumption DEF UdpAssumption
<1>3. UInv(w) /\ p \in w.allocated
  BY <1>1, <1>2, BoundInv
<1>. HIDE DEF w
<1>4. /\ UInv(Connected(w, p, IpAny, ServerPort))
      /\ p \in Listed(Connected(w, p, IpAny, ServerPort))
  BY <1>2, <1>3, ConnectedInv
<1>5. DhcpPcbMade(u, p) = Connected(w, p, IpAny, ServerPort)
  BY DEF DhcpPcbMade, v, w
<1>. QED
  BY <1>4, <1>5

LEMMA NextInv == IInv /\ [Next]_udpVars => IInv'
<1>. SUFFICES ASSUME IInv, [Next]_udpVars PROVE IInv'
  OBVIOUS
<1>1. /\ UInv(udp) /\ DhcpListed
      /\ Listed(udp) \subseteq udp.allocated /\ udp.allocated \subseteq Pcbs
  BY ListIsAllocated DEF IInv
<1>2. ASSUME UInv(udp'), Listed(udp) \subseteq Listed(udp'), UNCHANGED dhcpPcb
      PROVE  IInv'
  <2>1. UInv(udp)' /\ Listed(udp)' = Listed(udp')
    BY <1>2 DEF UInv, UdpState, HasBound, Distinct, Overlap, Listed
  <2>. QED
    BY <2>1, <1>1, <1>2 DEF IInv, DhcpListed
<1>3. ASSUME NEW p \in Pcbs, New(p) PROVE IInv'
  BY <1>1, <1>2, <1>3, AllocatedInv DEF New
<1>4. ASSUME NEW p \in Pcbs, Disconnect(p) PROVE IInv'
  BY <1>1, <1>2, <1>4, DisconnectedInv DEF Disconnect, Owned
<1>5. ASSUME NEW p \in Pcbs, Send(p) PROVE IInv'
  BY <1>1, <1>2, <1>5, AutoBoundInv DEF Send, Owned
<1>6. ASSUME NEW p \in Pcbs, NEW a \in BindAddrs, NEW port \in BindPorts, Bind(p, a, port)
      PROVE  IInv'
  <2>1. a \in Addrs /\ port \in Nat
    BY UdpAssumption DEF UdpAssumption
  <2>. QED
    BY <1>1, <1>2, <1>6, <2>1, BoundInv, BoundKeepsListed DEF Bind, Owned
<1>7. ASSUME NEW p \in Pcbs, NEW peer \in Peers, Connect(p, peer) PROVE IInv'
  <2>1. peer[1] \in Addrs /\ peer[2] \in Nat
    BY UdpAssumption DEF UdpAssumption
  <2>. QED
    BY <1>1, <1>2, <1>7, <2>1, ConnectedInv DEF Connect, Owned
<1>8. ASSUME NEW p \in Pcbs, Remove(p) PROVE IInv'
  <2>1. UInv(udp') /\ Listed(udp') = Listed(udp) \ {p} /\ dhcpPcb' = dhcpPcb /\ p # dhcpPcb
    BY <1>1, <1>8, RemovedInv DEF Remove, Owned
  <2>. QED
    BY <2>1, <1>1 DEF IInv, DhcpListed
<1>9. CASE DhcpStop
  <2>1. UInv(udp') /\ dhcpPcb' = NoPcb
    BY <1>1, <1>9, RemovedInv DEF DhcpStop, DhcpListed
  <2>. QED
    BY <2>1 DEF IInv, DhcpListed
<1>10. CASE DhcpStartFails
  BY <1>10, WithoutDhcpInv DEF DhcpStartFails, IInv, DhcpListed
<1>11. ASSUME NEW p \in Pcbs, DhcpStart(p) PROVE IInv'
  <2>1. UInv(WithoutDhcp)
    BY WithoutDhcpInv
  <2>. QED
    BY <1>11, <2>1, DhcpPcbInv DEF DhcpStart, IInv, DhcpListed
<1>12. ASSUME NEW p \in Pcbs, DhcpStartUndone(p) PROVE IInv'
  <2>. DEFINE u == DhcpPcbMade(WithoutDhcp, p)
  <2>1. UInv(u) /\ p \in Listed(u)
    BY <1>12, WithoutDhcpInv, DhcpPcbInv DEF DhcpStartUndone
  <2>2. udp' = Removed(u, p) /\ dhcpPcb' = NoPcb
    BY <1>12 DEF DhcpStartUndone
  <2>. HIDE DEF u
  <2>3. p \in u.allocated
    BY <2>1, ListIsAllocated
  <2>. QED
    BY <2>1, <2>2, <2>3, RemovedInv DEF IInv, DhcpListed
<1>13. ASSUME NEW d \in Datagrams, Input(d) PROVE IInv'
  <2>1. First(FullMatches(udp, d)) \in DOMAIN udp.list
    <3>1. FullMatches(udp, d) \subseteq DOMAIN udp.list /\ FullMatches(udp, d) # {}
      BY <1>13 DEF Input, FullMatches, LocalMatches
    <3>2. DOMAIN udp.list \subseteq Nat
      BY <1>1 DEF UInv, UdpState
    <3>. QED
      BY <3>1, <3>2, FirstIsOne
  <2>. QED
    BY <1>1, <1>2, <1>13, <2>1, MovedInv DEF Input
<1>14. CASE UNCHANGED udpVars
  BY <1>1, <1>2, <1>14 DEF udpVars
<1>. QED
  BY <1>3, <1>4, <1>5, <1>6, <1>7, <1>8, <1>9, <1>10, <1>11, <1>12, <1>13, <1>14 DEF Next

LEMMA Invariance == Spec => []IInv
  BY InitInv, NextInv, PTL DEF Spec

(* The list of UDP pcbs is sound: it holds exactly the allocated pcbs that *)
(* have a port, once each, and the pcb of the DHCP client among them.      *)
THEOREM ListIsSound == Spec => []ListSound
<1>1. IInv => ListSound
  BY DEF IInv, UInv, DhcpListed, ListSound
<1>. QED
  BY <1>1, Invariance, PTL

(* No two pcbs of the list overlap in address and port, however they were  *)
(* bound: what udp_bind checks, and what a port of its own choice needs.   *)
THEOREM TakersAreUnique == Spec => []OneTaker
<1>1. IInv => OneTaker
  BY DEF IInv, UInv, OneTaker
<1>. QED
  BY <1>1, Invariance, PTL

(* A datagram to one address that matches a pcb of the list matches no     *)
(* other one.                                                              *)
LEMMA OneLocalMatch ==
  ASSUME IInv, NEW d, d.dst \notin Broadcasts,
         NEW i \in DOMAIN udp.list, LocalMatch(udp, udp.list[i], d)
  PROVE  LocalMatches(udp, d) = {i}
<1>1. ASSUME NEW j \in LocalMatches(udp, d) PROVE j = i
  <2>1. j \in DOMAIN udp.list /\ LocalMatch(udp, udp.list[j], d)
    BY DEF LocalMatches
  <2>2. udp.list[i] \in Listed(udp) /\ udp.list[j] \in Listed(udp)
    BY <2>1 DEF Listed, Range
  <2>3. Overlap(udp, udp.list[i], udp.list[j])
    BY <2>1 DEF LocalMatch, Overlap
  <2>4. udp.list[i] = udp.list[j]
    BY <2>2, <2>3 DEF IInv, UInv, Distinct
  <2>. QED
    BY <2>1, <2>4 DEF IInv, UInv, NoRepeat
<1>. QED
  BY <1>1 DEF LocalMatches

(* The search of udp_input: a datagram to one address is given to the pcb  *)
(* bound to it, in whatever place of the list it is, and to nobody when    *)
(* that pcb is connected to another peer.                                  *)
THEOREM BoundIsHeard == Spec => []Heard
<1>1. ASSUME IInv PROVE Heard
  <2>1. SUFFICES ASSUME NEW d \in Datagrams, NEW p \in Listed(udp),
                        d.dst \notin Broadcasts, d.dport # ClientPort,
                        udp.port[p] = d.dport, udp.ip[p] \in {IpAny, d.dst}
                 PROVE  Taker(d) = IF \/ p \notin udp.connected
                                      \/ udp.rport[p] = d.sport /\ udp.rip[p] \in {IpAny, d.src}
                                   THEN p ELSE NoPcb
    BY DEF Heard
  <2>2. PICK i \in DOMAIN udp.list : p = udp.list[i]
    BY DEF Listed, Range
  <2>3. LocalMatches(udp, d) = {i}
    BY <1>1, <2>1, <2>2, OneLocalMatch DEF LocalMatch
  <2>4. i \in Nat
    BY <1>1 DEF IInv, UInv, UdpState
  <2>5. First({i}) = i
    BY <2>4 DEF First
  <2>6. CASE udp.rport[p] = d.sport /\ udp.rip[p] \in {IpAny, d.src}
    <3>1. FullMatches(udp, d) = {i}
      BY <2>2, <2>3, <2>6 DEF FullMatches
    <3>. QED
      BY <2>1, <2>2, <2>5, <2>6, <3>1 DEF Taker
  <2>7. CASE ~ (udp.rport[p] = d.sport /\ udp.rip[p] \in {IpAny, d.src})
    <3>1. FullMatches(udp, d) = {}
      BY <2>2, <2>3, <2>7 DEF FullMatches
    <3>2. Unconnected(udp, d) = IF p \notin udp.connected THEN {i} ELSE {}
      BY <2>2, <2>3 DEF Unconnected
    <3>. QED
      BY <2>1, <2>2, <2>5, <2>7, <3>1, <3>2 DEF Taker
  <2>. QED
    BY <2>6, <2>7
<1>. QED
  BY <1>1, Invariance, PTL

-----------------------------------------------------------------------------
(* The interface uses an address only while the client looks after its     *)
(* lease: dhcp_unbind or its like comes with every step that leaves the    *)
(* states of a lease, also when messages cannot be allocated.              *)
LEMMA ClientLeaseKept == Client!Spec => []Client!LeaseIsKept
<1>. USE DEF Client!LeaseIsKept
<1>1. Client!Init => Client!LeaseIsKept
  BY DEF Client!Init
<1>2. Client!LeaseIsKept /\ [Client!Next]_(Client!vars) => Client!LeaseIsKept'
  <2>. SUFFICES ASSUME Client!LeaseIsKept, [Client!Next]_(Client!vars)
                PROVE  Client!LeaseIsKept'
    OBVIOUS
  <2>1. ASSUME NEW a \in Leases,
               Client!SendAck(a) \/ \E id \in BOOLEAN : Client!SendOffer(a, id)
        PROVE  Client!LeaseIsKept'
    BY <2>1 DEF Client!SendAck, Client!SendOffer, Client!Put, Client!netif
  <2>2. CASE Client!SendNak
    BY <2>2 DEF Client!SendNak, Client!Put, Client!netif
  <2>3. ASSUME NEW ok \in Client!Allocated, NEW r \in net,
               Client!RecvOffer(r, ok) \/ Client!RecvNak(r, ok)
        PROVE  Client!LeaseIsKept'
    BY <2>3 DEF Client!RecvOffer, Client!RecvNak, Client!Select, Client!DiscoverWith,
                Client!Try, Client!InterfaceDown, Client!netif
  <2>4. ASSUME NEW ok \in Client!Allocated,
               Client!ArpReply(ok) \/ Client!Start(ok) \/ Client!Release(ok) \/ Client!UserRenew(ok)
        PROVE  Client!LeaseIsKept'
    BY <2>4 DEF Client!ArpReply, Client!Start, Client!Release, Client!UserRenew,
                Client!Renew, Client!Try, Client!ClearLease, Client!InterfaceDown,
                Client!netif
  <2>5. ASSUME NEW ok \in Client!Allocated, Client!CoarseTmr(ok)
        PROVE  Client!LeaseIsKept'
    BY <2>5 DEF Client!CoarseTmr, Client!Rebind, Client!Renew, Client!Try,
                Client!netif
  <2>6. ASSUME NEW ok \in Client!Allocated, NEW ok2 \in Client!Allocated,
               Client!FineTmr(ok, ok2)
        PROVE  Client!LeaseIsKept'
    BY <2>6 DEF Client!FineTmr, Client!TimeoutDiscover, Client!TimeoutRetry,
                Client!TimeoutRelease, Client!TimeoutBind,
                Client!TimeoutOff, Client!Remains, Client!DiscoverWith, Client!Select,
                Client!Renew, Client!Rebind, Client!Check, Client!Try,
                Client!ReleaseAndDiscover, Client!ClearLease, Client!InterfaceDown,
                Client!Bind, Client!netif
  <2>7. ASSUME NEW r \in net, Client!RecvAck(r) \/ Client!Lose(r)
        PROVE  Client!LeaseIsKept'
    BY <2>7 DEF Client!RecvAck, Client!Lose, Client!Check, Client!Bind, Client!netif
  <2>8. CASE Client!Stop
    BY <2>8 DEF Client!Stop, Client!netif
  <2>9. CASE UNCHANGED Client!vars
    BY <2>9 DEF Client!vars
  <2>. QED
    BY <2>1, <2>2, <2>3, <2>4, <2>5, <2>6, <2>7, <2>8, <2>9 DEF Client!Next
<1>. QED
  BY <1>1, <1>2, PTL DEF Client!Spec

-----------------------------------------------------------------------------
(* Every message can be allocated: CanFail = FALSE.  Then the replies that *)
(* are fresh answer the messages of this transaction, and those are all    *)
(* about one address: the one offered, or in a lease that of the           *)
(* interface.  t1_timeout or t2_timeout of an earlier lease may begin a    *)
(* lease that has no address: its messages are about none, and no ACK      *)
(* answers them.                                                           *)

Replies ==
  [type : {"offer", "ack", "nak"}, addr : Leases \cup {NoAddr}, id : BOOLEAN, fresh : BOOLEAN]

FreshAck(r) == r.fresh /\ r.type = "ack"

AskedFor(msgs, a) == \A m \in msgs : m.type = "request" => m.addr = a
AckedFor(replies, a) == \A r \in replies : FreshAck(r) => r.addr = a
About(a) == AskedFor(asked, a) /\ AckedFor(net, a)

NetSound ==
  /\ net \subseteq Replies
  /\ \A r \in net : r.type # "nak" => r.addr \in Leases
  /\ \A r \in net : FreshAck(r) => r.addr \notin declined

Exchange ==
  /\ state \in {"requesting", "checking"} => offered \in Leases /\ About(offered)
  /\ state = "checking" => granted = offered /\ offered \notin declined
  /\ state = "bound" => up /\ ip = granted /\ ip = offered
  /\ state \in {"renewing", "rebinding"} => About(ip) /\ (ip # NoAddr => offered = ip)

ClientInv ==
  /\ NetSound
  /\ declined \subseteq Leases
  /\ ip # NoAddr => up
  /\ Client!LeaseIsKept
  /\ Client!DeclinedIsNotUsed
  /\ Exchange

(* The replies of the transactions before this one.                        *)
LEMMA StaleSound ==
  ASSUME NetSound, net' = Client!Stale \/ (net' = net /\ declined' \subseteq declined)
  PROVE  NetSound'
<1>1. CASE net' = net /\ declined' \subseteq declined
  BY <1>1 DEF NetSound
<1>2. CASE net' = Client!Stale
  <2>1. ASSUME NEW s \in Client!Stale
        PROVE  s \in Replies /\ ~FreshAck(s) /\ (s.type # "nak" => s.addr \in Leases)
    <3>1. PICK r \in net : s = [r EXCEPT !.fresh = FALSE]
      BY DEF Client!Stale
    <3>2. r \in Replies /\ (r.type # "nak" => r.addr \in Leases)
      BY DEF NetSound
    <3>3. /\ s \in Replies /\ s.fresh = FALSE
          /\ s.type = r.type /\ s.addr = r.addr
      BY <3>1, <3>2 DEF Replies
    <3>. QED
      BY <3>2, <3>3 DEF FreshAck
  <2>. QED
    BY <1>2, <2>1 DEF NetSound
<1>. QED
  BY <1>1, <1>2

LEMMA StaleAbout ==
  ASSUME NetSound, NEW a
  PROVE  AckedFor(Client!Stale, a)
<1>1. ASSUME NEW s \in Client!Stale PROVE ~FreshAck(s)
  <2>1. PICK r \in net : s = [r EXCEPT !.fresh = FALSE]
    BY DEF Client!Stale
  <2>2. r \in Replies
    BY DEF NetSound
  <2>. QED
    BY <2>1, <2>2 DEF Replies, FreshAck
<1>. QED
  BY <1>1 DEF AckedFor

(* A message about a is sent: it is the first of a transaction, or those   *)
(* before it were about a too.                                             *)
LEMMA RequestSent ==
  ASSUME NetSound, NEW a, NEW s, Client!Try(s, {Client!Message("request", a)}, TRUE),
         state = s => About(a)
  PROVE  /\ AskedFor(asked', a) /\ AckedFor(net', a)
         /\ net' \in {net, Client!Stale} /\ state' = s
<1>1. Client!Message("request", a).addr = a
  BY DEF Client!Message
<1>2. state' = s
  BY DEF Client!Try
<1>3. CASE asked' = {Client!Message("request", a)} /\ net' = Client!Stale
  BY <1>1, <1>2, <1>3, StaleAbout DEF AskedFor
<1>4. CASE state = s /\ asked' = asked \cup {Client!Message("request", a)} /\ net' = net
  BY <1>1, <1>2, <1>4 DEF About, AskedFor, AckedFor
<1>. QED
  BY <1>3, <1>4 DEF Client!Try, Client!TriesIn, Client!Transmit

LEMMA MessageSent ==
  ASSUME NetSound, NEW msgs, NEW s, Client!Try(s, msgs, TRUE), declined' = declined
  PROVE  NetSound' /\ state' = s
BY StaleSound DEF Client!Try, Client!Transmit

(* One step of the client, the server or the network.  The functions that  *)
(* send a message do so in all of it.                                      *)
LEMMA ClientNextInv ==
  ASSUME Client!AnyAssumption, CanFail = FALSE, ClientInv, [Client!Next]_(Client!vars)
  PROVE  ClientInv'
<1>. USE Client!AnyAssumption DEF Client!AnyAssumption
<1>1. Client!Allocated = {TRUE}
  BY DEF Client!Allocated
<1>2. /\ NetSound /\ declined \subseteq Leases /\ (ip # NoAddr => up)
      /\ Client!LeaseIsKept /\ Client!DeclinedIsNotUsed /\ Exchange
  BY DEF ClientInv
<1>3. state \in {"selecting", "requesting", "checking", "backing_off", "off"} => ip = NoAddr
  BY <1>2 DEF Client!LeaseIsKept
<1>4. ASSUME NEW a \in Leases, Client!SendAck(a) PROVE ClientInv'
  <2>. DEFINE r == Client!Reply("ack", a, TRUE)
  <2>1. /\ net' = net \cup {r} /\ declined' = declined \ {a}
        /\ Client!Message("request", a) \in asked
        /\ UNCHANGED <<state, offered, ip, up, asked, granted>>
    BY <1>4 DEF Client!SendAck, Client!Put, Client!netif
  <2>2. r \in Replies /\ r.addr = a /\ r.type = "ack" /\ r.fresh = TRUE
    BY DEF Client!Reply, Replies
  <2>3. Client!Message("request", a).type = "request" /\ Client!Message("request", a).addr = a
    BY DEF Client!Message
  <2>. HIDE DEF r
  <2>4. NetSound' /\ declined' \subseteq Leases
    BY <1>2, <2>1, <2>2 DEF NetSound, FreshAck
  <2>5. Client!LeaseIsKept' /\ Client!DeclinedIsNotUsed' /\ (ip' # NoAddr => up')
    BY <1>2, <2>1 DEF Client!LeaseIsKept, Client!DeclinedIsNotUsed
  <2>6. (About(offered) => About(offered)') /\ (About(ip) => About(ip)')
    BY <2>1, <2>2, <2>3 DEF About, AskedFor, AckedFor, FreshAck
  <2>7. Exchange'
    BY <1>2, <2>1, <2>6 DEF Exchange
  <2>. QED
    BY <2>4, <2>5, <2>7 DEF ClientInv
<1>5. ASSUME NEW r, Client!Put(r), r \in Replies, ~FreshAck(r),
             r.type # "nak" => r.addr \in Leases,
             declined' = declined
      PROVE  ClientInv'
  <2>1. net' = net \cup {r} /\ UNCHANGED <<state, offered, ip, up, asked, granted>>
    BY <1>5 DEF Client!Put, Client!netif
  <2>2. NetSound'
    BY <1>2, <1>5, <2>1 DEF NetSound
  <2>3. Client!LeaseIsKept' /\ Client!DeclinedIsNotUsed' /\ (ip' # NoAddr => up')
    BY <1>2, <1>5, <2>1 DEF Client!LeaseIsKept, Client!DeclinedIsNotUsed
  <2>4. (About(offered) => About(offered)') /\ (About(ip) => About(ip)')
    BY <1>5, <2>1 DEF About, AskedFor, AckedFor
  <2>5. Exchange'
    BY <1>2, <1>5, <2>1, <2>4 DEF Exchange
  <2>. QED
    BY <1>2, <1>5, <2>2, <2>3, <2>5 DEF ClientInv
<1>6. ASSUME NEW a \in Leases, NEW id \in BOOLEAN, Client!SendOffer(a, id)
      PROVE  ClientInv'
  <2>1. LET r == Client!Reply("offer", a, id) IN r \in Replies /\ ~FreshAck(r) /\ r.addr \in Leases
    BY DEF Client!Reply, Replies, FreshAck
  <2>. QED
    BY <1>5, <1>6, <2>1 DEF Client!SendOffer
<1>7. CASE Client!SendNak
  <2>1. LET r == Client!Reply("nak", NoAddr, TRUE) IN r \in Replies /\ ~FreshAck(r) /\ r.type = "nak"
    BY DEF Client!Reply, Replies, FreshAck
  <2>. QED
    BY <1>5, <1>7, <2>1 DEF Client!SendNak
<1>8. ASSUME NEW r \in net, Client!Lose(r) PROVE ClientInv'
  <2>1. /\ net' = net \ {r}
        /\ UNCHANGED <<state, offered, ip, up, asked, granted, declined>>
    BY <1>8 DEF Client!Lose, Client!netif
  <2>2. NetSound'
    BY <1>2, <2>1 DEF NetSound
  <2>3. Client!LeaseIsKept' /\ Client!DeclinedIsNotUsed' /\ (ip' # NoAddr => up')
    BY <1>2, <2>1 DEF Client!LeaseIsKept, Client!DeclinedIsNotUsed
  <2>4. (About(offered) => About(offered)') /\ (About(ip) => About(ip)')
    BY <2>1 DEF About, AskedFor, AckedFor
  <2>5. Exchange'
    BY <1>2, <2>1, <2>4 DEF Exchange
  <2>. QED
    BY <1>2, <2>1, <2>2, <2>3, <2>5 DEF ClientInv
<1>9. ASSUME NEW r \in net, Client!RecvOffer(r, TRUE) PROVE ClientInv'
  <2>1. /\ state = "selecting" /\ r.type = "offer"
        /\ UNCHANGED <<ip, up, declined, granted>>
    BY <1>9 DEF Client!RecvOffer, Client!netif
  <2>2. r.addr \in Leases
    BY <1>2, <2>1 DEF NetSound
  <2>3. Client!DeclinedIsNotUsed' /\ (ip' # NoAddr => up') /\ Client!LeaseIsKept'
    BY <1>2, <1>3, <2>1 DEF Client!DeclinedIsNotUsed, Client!LeaseIsKept
  <2>4. CASE Client!Select(r.addr, TRUE) /\ offered' = r.addr
    <3>1. /\ AskedFor(asked', r.addr) /\ AckedFor(net', r.addr)
          /\ net' \in {net, Client!Stale} /\ state' = "requesting"
      BY <1>2, <2>1, <2>4, RequestSent DEF Client!Select
    <3>2. NetSound'
      BY <1>2, <2>1, <3>1, StaleSound
    <3>3. Exchange'
      BY <2>2, <2>4, <3>1 DEF Exchange, About
    <3>. QED
      BY <1>2, <2>1, <2>3, <3>2, <3>3 DEF ClientInv
  <2>5. CASE UNCHANGED <<state, offered, asked, net>>
    <3>1. NetSound'
      BY <1>2, <2>1, <2>5, StaleSound
    <3>2. Exchange'
      BY <2>1, <2>5 DEF Exchange
    <3>. QED
      BY <1>2, <2>1, <2>3, <3>1, <3>2 DEF ClientInv
  <2>. QED
    BY <1>9, <2>4, <2>5 DEF Client!RecvOffer
<1>10. ASSUME NEW r \in net, Client!RecvNak(r, TRUE) PROVE ClientInv'
  <2>1. /\ ip' = NoAddr /\ up' = FALSE /\ declined' = declined
        /\ Client!Try("selecting", {Client!Discovery}, TRUE)
    BY <1>10 DEF Client!RecvNak, Client!InterfaceDown, Client!DiscoverWith
  <2>2. NetSound' /\ state' = "selecting"
    BY <1>2, <2>1, MessageSent
  <2>. QED
    BY <1>2, <2>1, <2>2 DEF ClientInv, Client!LeaseIsKept, Client!DeclinedIsNotUsed,
                            Exchange
<1>11. ASSUME NEW r \in net, Client!RecvAck(r) PROVE ClientInv'
  <2>1. /\ FreshAck(r) /\ granted' = r.addr
        /\ UNCHANGED <<asked, net, declined>>
    BY <1>11 DEF Client!RecvAck, Client!Received, FreshAck
  <2>2. r.addr \in Leases /\ r.addr \notin declined /\ NetSound'
    BY <1>2, <2>1 DEF NetSound, FreshAck
  <2>3. CASE /\ state = "requesting" /\ offered' = r.addr
             /\ Client!Check /\ UNCHANGED <<ip, up>>
    <3>1. state' = "checking"
      BY <2>3 DEF Client!Check
    <3>2. r.addr = offered /\ About(offered)
      BY <1>2, <2>1, <2>3 DEF Exchange, About, AckedFor
    <3>3. About(offered)'
      BY <2>1, <2>3, <3>2 DEF About, AskedFor, AckedFor
    <3>4. Exchange'
      BY <2>1, <2>2, <2>3, <3>1, <3>3 DEF Exchange
    <3>. QED
      BY <1>2, <1>3, <2>1, <2>2, <2>3, <3>4 DEF ClientInv, Client!LeaseIsKept,
                                                Client!DeclinedIsNotUsed
  <2>4. CASE state \in {"rebinding", "renewing"} /\ Client!Bind /\ UNCHANGED offered
    <3>1. r.addr = ip /\ ip # NoAddr /\ offered = ip
      BY <1>2, <2>1, <2>2, <2>4 DEF Exchange, About, AckedFor
    <3>2. ip' = offered /\ up' = TRUE /\ state' = "bound"
      BY <2>4 DEF Client!Bind
    <3>. QED
      BY <1>2, <2>1, <2>2, <2>4, <3>1, <3>2 DEF ClientInv, Client!LeaseIsKept,
                                                Client!DeclinedIsNotUsed, Exchange
  <2>. QED
    BY <1>11, <2>3, <2>4 DEF Client!RecvAck, Client!netif
<1>12. CASE Client!ArpReply(TRUE)
  <2>1. /\ state = "checking" /\ Client!Try("backing_off", {}, TRUE)
        /\ declined' = declined \cup {offered} /\ UNCHANGED <<ip, up>>
    BY <1>12 DEF Client!ArpReply, Client!netif
  <2>2. net' = Client!Stale /\ state' = "backing_off"
    BY <2>1 DEF Client!Try, Client!TriesIn, Client!Transmit
  <2>3. offered \in Leases /\ ip = NoAddr
    BY <1>2, <1>3, <2>1 DEF Exchange
  <2>4. NetSound'
    BY <1>2, <2>2, StaleSound
  <2>. QED
    BY <1>2, <2>1, <2>2, <2>3, <2>4 DEF ClientInv, Client!LeaseIsKept,
                                        Client!DeclinedIsNotUsed, Exchange
<1>13. ASSUME Client!Renew(TRUE) \/ Client!Rebind(TRUE),
              state \in {"requesting", "bound", "renewing", "rebinding"},
              UNCHANGED <<offered, ip, up, declined, granted>>
       PROVE  ClientInv'
  <2>1. PICK s \in {"renewing", "rebinding"} : Client!Try(s, {Client!Message("request", ip)}, TRUE)
    BY <1>13 DEF Client!Renew, Client!Rebind
  <2>2. state = s => About(ip)
    BY <1>2, <2>1 DEF Exchange
  <2>3. /\ AskedFor(asked', ip) /\ AckedFor(net', ip)
        /\ NetSound' /\ state' = s
    BY <1>2, <1>13, <2>1, <2>2, RequestSent, MessageSent
  <2>4. ip # NoAddr => offered = ip
    BY <1>2, <1>3, <1>13 DEF Exchange
  <2>5. Exchange'
    BY <1>13, <2>1, <2>3, <2>4 DEF Exchange, About
  <2>. QED
    BY <1>2, <1>13, <2>1, <2>3, <2>5 DEF ClientInv, Client!LeaseIsKept,
                                         Client!DeclinedIsNotUsed
<1>14. ASSUME UNCHANGED <<state, offered, ip, up, asked, net, declined, granted>>
       PROVE  ClientInv'
  <2>1. (About(offered) => About(offered)') /\ (About(ip) => About(ip)')
    BY <1>14 DEF About, AskedFor, AckedFor
  <2>2. NetSound'
    BY <1>2, <1>14, StaleSound
  <2>3. Exchange'
    BY <1>2, <1>14, <2>1 DEF Exchange
  <2>. QED
    BY <1>2, <1>14, <2>2, <2>3 DEF ClientInv, Client!LeaseIsKept,
                                   Client!DeclinedIsNotUsed
<1>15. CASE Client!CoarseTmr(TRUE)
  <2>1. CASE /\ state \in {"requesting", "bound", "renewing"}
             /\ Client!Renew(TRUE) \/ Client!Rebind(TRUE)
    BY <1>13, <1>15, <2>1 DEF Client!CoarseTmr, Client!netif
  <2>2. CASE UNCHANGED <<state, asked, net>>
    BY <1>14, <1>15, <2>2 DEF Client!CoarseTmr, Client!netif
  <2>. QED
    BY <1>15, <2>1, <2>2 DEF Client!CoarseTmr
<1>16. CASE Client!UserRenew(TRUE)
  BY <1>13, <1>16 DEF Client!UserRenew, Client!netif
<1>17. ASSUME state' \in {"selecting", "off"}, ip' = NoAddr, up' \in {up, FALSE},
              net' \in {net, Client!Stale}, UNCHANGED declined
       PROVE  ClientInv'
  <2>1. NetSound'
    BY <1>2, <1>17, StaleSound
  <2>. QED
    BY <1>2, <1>17, <2>1 DEF ClientInv, Client!LeaseIsKept, Client!DeclinedIsNotUsed,
                             Exchange
<1>18. CASE Client!Start(TRUE) \/ Client!Stop \/ Client!Release(TRUE)
  BY <1>17, <1>18 DEF Client!Start, Client!Stop, Client!Release, Client!ClearLease,
                      Client!InterfaceDown, Client!Try, Client!Transmit, Client!netif
<1>19. CASE Client!FineTmr(TRUE, TRUE)
  <2>1. UNCHANGED <<declined, granted>>
    BY <1>19 DEF Client!FineTmr
  <2>2. CASE Client!TimeoutDiscover(TRUE) \/ Client!TimeoutRelease(TRUE, TRUE) \/ Client!TimeoutOff
    BY <1>3, <1>17, <2>1, <2>2
       DEF Client!TimeoutDiscover, Client!TimeoutRelease, Client!TimeoutOff,
           Client!Remains, Client!DiscoverWith, Client!Try,
           Client!Transmit, Client!ReleaseAndDiscover, Client!ClearLease,
           Client!InterfaceDown, Client!netif
  <2>3. CASE Client!TimeoutRetry(TRUE)
    <3>1. UNCHANGED <<offered, ip, up>>
      BY <2>3 DEF Client!TimeoutRetry, Client!Remains, Client!netif
    <3>2. CASE state = "requesting" /\ Client!Select(offered, TRUE)
      <4>1. /\ AskedFor(asked', offered) /\ AckedFor(net', offered)
            /\ NetSound' /\ state' = "requesting"
        BY <1>2, <2>1, <3>2, RequestSent, MessageSent DEF Client!Select, Exchange
      <4>2. Exchange'
        BY <1>2, <3>1, <3>2, <4>1 DEF Exchange, About
      <4>. QED
        BY <1>2, <1>3, <2>1, <3>1, <3>2, <4>1, <4>2
           DEF ClientInv, Client!LeaseIsKept, Client!DeclinedIsNotUsed
    <3>3. CASE state \in {"renewing", "rebinding"} /\ (Client!Renew(TRUE) \/ Client!Rebind(TRUE))
      BY <1>13, <2>1, <3>1, <3>3
    <3>4. CASE state = "checking" /\ Client!Check /\ UNCHANGED <<asked, net>>
      BY <1>14, <2>1, <3>1, <3>4 DEF Client!Check
    <3>. QED
      BY <2>3, <3>2, <3>3, <3>4 DEF Client!TimeoutRetry
  <2>4. CASE Client!TimeoutBind
    <3>1. /\ state = "checking" /\ UNCHANGED <<offered, asked, net>>
          /\ ip' = offered /\ up' = TRUE /\ state' = "bound"
      BY <2>4 DEF Client!TimeoutBind, Client!Bind
    <3>2. NetSound'
      BY <1>2, <2>1, <3>1, StaleSound
    <3>. QED
      BY <1>2, <2>1, <3>1, <3>2 DEF ClientInv, Client!LeaseIsKept,
                                    Client!DeclinedIsNotUsed, Exchange
  <2>. QED
    BY <1>19, <2>2, <2>3, <2>4 DEF Client!FineTmr
<1>20. CASE UNCHANGED Client!vars
  BY <1>14, <1>20 DEF Client!vars
<1>. QED
  BY <1>1, <1>4, <1>6, <1>7, <1>8, <1>9, <1>10, <1>11, <1>12, <1>15, <1>16, <1>18,
  <1>19, <1>20
     DEF Client!Next

LEMMA ClientInitInv ==
  ASSUME Client!AnyAssumption
  PROVE  Client!Init => ClientInv
BY DEF Client!AnyAssumption, Client!Init, ClientInv, NetSound, Exchange,
       Client!LeaseIsKept, Client!DeclinedIsNotUsed

LEMMA ClientInvariance ==
  ASSUME Client!AnyAssumption, CanFail = FALSE
  PROVE  Client!Spec => []ClientInv
<1>1. Client!Init => ClientInv
  BY ClientInitInv
<1>2. ClientInv /\ [Client!Next]_(Client!vars) => ClientInv'
  BY ClientNextInv
<1>. QED
  BY <1>1, <1>2, PTL DEF Client!Spec

(* A declined address is not used before the server grants it again: an    *)
(* ACK from before dhcp_decline has the identifier of an earlier           *)
(* transaction.                                                            *)
LEMMA ClientDeclinedNotUsed ==
  ASSUME Client!AnyAssumption, CanFail = FALSE
  PROVE  Client!Spec => []Client!DeclinedIsNotUsed
<1>1. ClientInv => Client!DeclinedIsNotUsed
  BY DEF ClientInv
<1>. QED
  BY <1>1, ClientInvariance, PTL

(* dhcp_bind binds the address of the last ACK, although it takes          *)
(* offered_ip_addr in every state.                                         *)
LEMMA ClientBoundToTheGrant ==
  ASSUME Client!AnyAssumption, CanFail = FALSE
  PROVE  Client!Spec => []Client!BoundToGrant
<1>1. ClientInv => Client!BoundToGrant
  BY DEF ClientInv, Exchange, Client!BoundToGrant
<1>. QED
  BY <1>1, ClientInvariance, PTL

(* A new address is used only after dhcp_check, although t1_timeout of an  *)
(* earlier lease can take REQUESTING to RENEWING, where an ACK binds at    *)
(* once: no ACK answers a message about no address.                        *)
LEMMA ClientCheckedFirst ==
  ASSUME Client!AnyAssumption, CanFail = FALSE
  PROVE  Client!Spec => Client!CheckedBeforeUse
<1>. USE Client!AnyAssumption DEF Client!AnyAssumption
<1>1. ASSUME ClientInv, [Client!Next]_(Client!vars)
      PROVE  ip' \notin {ip, NoAddr} => state = "checking"
  <2>. SUFFICES ASSUME ip' \notin {ip, NoAddr} PROVE state = "checking"
    OBVIOUS
  <2>1. Client!Allocated = {TRUE}
    BY DEF Client!Allocated
  <2>2. CASE \E r \in net : Client!RecvAck(r)
    <3>1. PICK r \in net : Client!RecvAck(r)
      BY <2>2
    <3>2. state \in {"rebinding", "renewing"} /\ Client!Bind
      BY <3>1 DEF Client!RecvAck, Client!netif
    <3>3. FreshAck(r)
      BY <3>1 DEF Client!RecvAck, Client!Received, FreshAck
    <3>4. r.addr \in Leases /\ r.addr = ip /\ (ip # NoAddr => offered = ip)
      BY <1>1, <3>2, <3>3 DEF ClientInv, NetSound, Exchange, About, AckedFor, FreshAck
    <3>. QED
      BY <3>2, <3>4 DEF Client!Bind
  <2>3. CASE Client!FineTmr(TRUE, TRUE)
    BY <2>3 DEF Client!FineTmr, Client!TimeoutDiscover, Client!TimeoutRetry,
                Client!TimeoutRelease, Client!TimeoutBind,
                Client!TimeoutOff, Client!Remains, Client!ReleaseAndDiscover,
                Client!ClearLease, Client!InterfaceDown, Client!netif
  <2>4. CASE \/ \E a \in Leases : Client!SendAck(a) \/ \E id \in BOOLEAN : Client!SendOffer(a, id)
             \/ Client!SendNak \/ \E r \in net : Client!Lose(r)
    BY <2>4 DEF Client!SendAck, Client!SendOffer, Client!SendNak, Client!Put,
                Client!Lose, Client!netif
  <2>5. CASE \/ \E r \in net : Client!RecvOffer(r, TRUE) \/ Client!RecvNak(r, TRUE)
             \/ Client!ArpReply(TRUE) \/ Client!CoarseTmr(TRUE)
    BY <2>5 DEF Client!RecvOffer, Client!RecvNak, Client!ArpReply, Client!CoarseTmr,
                Client!InterfaceDown, Client!netif
  <2>6. CASE Client!Start(TRUE) \/ Client!Release(TRUE) \/ Client!UserRenew(TRUE) \/ Client!Stop
    BY <2>6 DEF Client!Start, Client!Release, Client!UserRenew, Client!Stop,
                Client!ClearLease, Client!InterfaceDown, Client!netif
  <2>7. CASE UNCHANGED Client!vars
    BY <2>7 DEF Client!vars
  <2>. QED
    BY <1>1, <2>1, <2>2, <2>3, <2>4, <2>5, <2>6, <2>7 DEF Client!Next
<1>2. ClientInv /\ [Client!Next]_(Client!vars) => [ip' \notin {ip, NoAddr} => state = "checking"]_(Client!vars)
  BY <1>1
<1>. QED
  BY <1>2, ClientInvariance, PTL DEF Client!Spec, Client!CheckedBeforeUse

-----------------------------------------------------------------------------
(* Every offer names its server: NoServerId = FALSE.                       *)

OffersNamed ==
  /\ net \subseteq Replies
  /\ \A r \in net : r.type = "offer" => r.id = TRUE

(* Nothing but the server puts a reply on the network.                     *)
LEMMA OffersStayNamed ==
  ASSUME OffersNamed, NoServerId = FALSE, [Client!Next]_(Client!vars)
  PROVE  OffersNamed'
<1>1. ASSUME NEW r, Client!Put(r), r \in Replies, r.type = "offer" => r.id = TRUE
      PROVE  OffersNamed'
  BY <1>1 DEF Client!Put, OffersNamed
<1>2. ASSUME NEW a \in Leases, Client!SendAck(a) PROVE OffersNamed'
  <2>1. LET r == Client!Reply("ack", a, TRUE) IN r \in Replies /\ r.type = "ack"
    BY DEF Client!Reply, Replies
  <2>. QED
    BY <1>1, <1>2, <2>1 DEF Client!SendAck
<1>3. ASSUME NEW a \in Leases, NEW id \in BOOLEAN, Client!SendOffer(a, id)
      PROVE  OffersNamed'
  <2>1. id = TRUE
    BY <1>3 DEF Client!SendOffer
  <2>2. LET r == Client!Reply("offer", a, TRUE) IN r \in Replies /\ r.id = TRUE
    BY DEF Client!Reply, Replies
  <2>. QED
    BY <1>1, <1>3, <2>1, <2>2 DEF Client!SendOffer
<1>4. CASE Client!SendNak
  <2>1. LET r == Client!Reply("nak", NoAddr, TRUE) IN r \in Replies /\ r.type = "nak"
    BY DEF Client!Reply, Replies
  <2>. QED
    BY <1>1, <1>4, <2>1 DEF Client!SendNak
<1>5. CASE net' \subseteq net
  BY <1>5 DEF OffersNamed
<1>6. CASE net' = Client!Stale
  <2>1. ASSUME NEW s \in Client!Stale
        PROVE  s \in Replies /\ (s.type = "offer" => s.id = TRUE)
    <3>1. PICK r \in net : s = [r EXCEPT !.fresh = FALSE]
      BY DEF Client!Stale
    <3>2. r \in Replies /\ (r.type = "offer" => r.id = TRUE)
      BY DEF OffersNamed
    <3>3. s \in Replies /\ s.type = r.type /\ s.id = r.id
      BY <3>1, <3>2 DEF Replies
    <3>. QED
      BY <3>2, <3>3
  <2>. QED
    BY <1>6, <2>1 DEF OffersNamed
<1>7. ASSUME NEW ok, NEW s, NEW msgs, Client!Try(s, msgs, ok) PROVE OffersNamed'
  BY <1>5, <1>6, <1>7 DEF Client!Try, Client!Transmit
<1>8. ASSUME NEW ok \in Client!Allocated, NEW r \in net,
             Client!RecvOffer(r, ok) \/ Client!RecvNak(r, ok)
      PROVE  OffersNamed'
  BY <1>5, <1>7, <1>8 DEF Client!RecvOffer, Client!RecvNak, Client!Select,
                          Client!DiscoverWith
<1>9. ASSUME NEW ok \in Client!Allocated,
             Client!ArpReply(ok) \/ Client!CoarseTmr(ok) \/ Client!Release(ok) \/ Client!UserRenew(ok)
      PROVE  OffersNamed'
  BY <1>5, <1>7, <1>9 DEF Client!ArpReply, Client!CoarseTmr, Client!Release,
                          Client!UserRenew, Client!Renew, Client!Rebind
<1>10. ASSUME NEW ok \in Client!Allocated, NEW ok2 \in Client!Allocated,
              Client!FineTmr(ok, ok2)
       PROVE  OffersNamed'
  <2>1. CASE Client!TimeoutRelease(ok, ok2)
    BY <1>5, <1>6, <2>1 DEF Client!TimeoutRelease, Client!ReleaseAndDiscover,
                            Client!Transmit
  <2>2. CASE Client!TimeoutDiscover(ok) \/ Client!TimeoutRetry(ok)
    BY <1>5, <1>7, <2>2 DEF Client!TimeoutDiscover, Client!TimeoutRetry,
                            Client!DiscoverWith, Client!Select, Client!Renew,
                            Client!Rebind
  <2>3. CASE Client!TimeoutBind \/ Client!TimeoutOff
    BY <1>5, <2>3 DEF Client!TimeoutBind, Client!TimeoutOff
  <2>. QED
    BY <1>10, <2>1, <2>2, <2>3 DEF Client!FineTmr
<1>11. ASSUME NEW r \in net, Client!RecvAck(r) \/ Client!Lose(r) PROVE OffersNamed'
  BY <1>5, <1>11 DEF Client!RecvAck, Client!Lose
<1>12. ASSUME NEW ok \in Client!Allocated, Client!Start(ok) PROVE OffersNamed'
  BY <1>6, <1>12 DEF Client!Start
<1>13. CASE Client!Stop \/ UNCHANGED Client!vars
  BY <1>5, <1>13 DEF Client!Stop, Client!vars
<1>. QED
  BY <1>2, <1>3, <1>4, <1>8, <1>9, <1>10, <1>11, <1>12, <1>13 DEF Client!Next

TimedInv == Client!AlwaysTimed /\ OffersNamed

(* While an answer is waited for the timer runs, whatever the number of    *)
(* tries and also when messages cannot be allocated.                       *)
LEMMA ClientTimerRuns ==
  ASSUME NoServerId = FALSE
  PROVE  Client!Spec => []Client!AlwaysTimed
<1>1. Client!Init => TimedInv
  BY DEF Client!Init, TimedInv, Client!AlwaysTimed, OffersNamed
<1>2. ASSUME TimedInv, [Client!Next]_(Client!vars) PROVE TimedInv'
  <2>. USE DEF Client!AlwaysTimed
  <2>1. Client!AlwaysTimed /\ OffersNamed /\ OffersNamed'
    BY <1>2, OffersStayNamed DEF TimedInv
  <2>2. ASSUME NEW a \in Leases,
               Client!SendAck(a) \/ \E id \in BOOLEAN : Client!SendOffer(a, id)
        PROVE  Client!AlwaysTimed'
    BY <2>1, <2>2 DEF Client!SendAck, Client!SendOffer, Client!Put
  <2>3. CASE Client!SendNak
    BY <2>1, <2>3 DEF Client!SendNak, Client!Put, TimedInv
  <2>4. ASSUME NEW ok \in Client!Allocated, NEW r \in net,
               Client!RecvOffer(r, ok) \/ Client!RecvNak(r, ok)
        PROVE  Client!AlwaysTimed'
    BY <2>1, <2>4 DEF Client!RecvOffer, Client!RecvNak, Client!Select,
                      Client!DiscoverWith, Client!Try, OffersNamed
  <2>5. ASSUME NEW ok \in Client!Allocated,
               Client!ArpReply(ok) \/ Client!Start(ok) \/ Client!Release(ok) \/ Client!UserRenew(ok)
        PROVE  Client!AlwaysTimed'
    BY <2>5 DEF Client!ArpReply, Client!Start, Client!Release, Client!UserRenew,
                Client!Renew, Client!Try
  <2>6. ASSUME NEW ok \in Client!Allocated, Client!CoarseTmr(ok)
        PROVE  Client!AlwaysTimed'
    BY <2>1, <2>6 DEF Client!CoarseTmr, Client!Rebind, Client!Renew, Client!Try
  <2>7. ASSUME NEW ok \in Client!Allocated, NEW ok2 \in Client!Allocated,
               Client!FineTmr(ok, ok2)
        PROVE  Client!AlwaysTimed'
    BY <2>7 DEF Client!FineTmr, Client!TimeoutDiscover, Client!TimeoutRetry,
                Client!TimeoutRelease, Client!TimeoutBind,
                Client!TimeoutOff, Client!DiscoverWith, Client!Select, Client!Renew,
                Client!Rebind, Client!Check, Client!Try,
                Client!ReleaseAndDiscover, Client!Bind
  <2>8. ASSUME NEW r \in net, Client!RecvAck(r) \/ Client!Lose(r)
        PROVE  Client!AlwaysTimed'
    BY <2>1, <2>8 DEF Client!RecvAck, Client!Lose, Client!Check, Client!Bind
  <2>9. CASE Client!Stop \/ UNCHANGED Client!vars
    BY <2>1, <2>9 DEF Client!Stop, Client!vars, TimedInv
  <2>. QED
    BY <1>2, <2>1, <2>2, <2>3, <2>4, <2>5, <2>6, <2>7, <2>8, <2>9
       DEF Client!Next, TimedInv
<1>. QED
  BY <1>1, <1>2, PTL DEF Client!Spec, TimedInv

-----------------------------------------------------------------------------
(* The steps of Protocols are steps of the client or leave it alone.       *)
LEMMA ClientRuns == ProtocolsSpec => Client!Spec
<1>. DEFINE all == <<running, udpVars, reassVars, clientVars>>
<1>1. ProtocolsInit => Client!Init
  BY DEF ProtocolsInit
<1>2. [ProtocolsNext]_all => [Client!Next]_(Client!vars)
  BY DEF ProtocolsNext, Client!vars, clientVars
<1>3. ProtocolsSpec => ProtocolsInit /\ [][ProtocolsNext]_all
  BY PTL DEF ProtocolsSpec
<1>4. ProtocolsInit /\ [][ProtocolsNext]_all => Client!Init /\ [][Client!Next]_(Client!vars)
  BY <1>1, <1>2, PTL
<1>. QED
  BY <1>3, <1>4, PTL DEF Client!Spec

(* The interface has an address only while the client looks after its      *)
(* lease (dhcp_unbind, dhcp_set_state), also when allocations fail.        *)
THEOREM LeaseKept == ProtocolsSpec => []LeaseIsKept
BY ClientRuns, ClientLeaseKept, PTL DEF LeaseIsKept

(* A declined address is not used before a server grants it again, if the  *)
(* messages that begin a transaction (dhcp_create_msg) can be allocated.   *)
THEOREM DeclinedNotUsed ==
  ASSUME CanFail = FALSE
  PROVE  ProtocolsSpec => []DeclinedIsNotUsed
<1>1. Client!AnyAssumption
  BY ProtocolsAssumption
<1>. QED
  BY <1>1, ClientRuns, ClientDeclinedNotUsed, PTL DEF DeclinedIsNotUsed

(* dhcp_bind binds the address of the last ACK acted on.                   *)
THEOREM BoundToTheGrant ==
  ASSUME CanFail = FALSE
  PROVE  ProtocolsSpec => []BoundToGrant
<1>1. Client!AnyAssumption
  BY ProtocolsAssumption
<1>. QED
  BY <1>1, ClientRuns, ClientBoundToTheGrant, PTL DEF BoundToGrant

(* A new address is used only after the ARP check (dhcp_check).            *)
THEOREM CheckedFirst ==
  ASSUME CanFail = FALSE
  PROVE  ProtocolsSpec => CheckedBeforeUse
<1>1. Client!AnyAssumption
  BY ProtocolsAssumption
<1>. QED
  BY <1>1, ClientRuns, ClientCheckedFirst, PTL DEF CheckedBeforeUse

(* While an answer is waited for the timer of the client runs, if every    *)
(* offer names its server (dhcp_handle_offer).                             *)
THEOREM TimerRuns ==
  ASSUME NoServerId = FALSE
  PROVE  ProtocolsSpec => []AlwaysTimed
BY ClientRuns, ClientTimerRuns, PTL DEF AlwaysTimed
=============================================================================

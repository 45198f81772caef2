--------------------------- MODULE TcpPcbsProofs ---------------------------
(***************************************************************************)
(* Proofs about the lists of connections, for any number of pcbs and any   *)
(* limits and timeouts.                                                    *)
(***************************************************************************)
EXTENDS TcpPcbs, TLAPS

-----------------------------------------------------------------------------
(* Lists of pcbs, no pcb twice on one.                                     *)

LEMMA PlaceIs ==
  ASSUME NEW s \in Seq(Pcbs), IsInjective(s), NEW i \in DOMAIN s
  PROVE  Place(s, s[i]) = i
<1>0. s[i] \in Pcbs
  OBVIOUS
<1>1. s[i] # NULL
  BY <1>0, PoolAssumption DEF Pcbs, NULL
<1>2. \A j \in DOMAIN s : s[j] = s[i] <=> j = i
  BY DEF IsInjective
<1>. QED
  BY <1>1, <1>2 DEF Place

LEMMA CutOut ==
  ASSUME NEW s \in Seq(Pcbs), IsInjective(s),
         NEW i \in 0 .. Len(s), NEW j \in i + 1 .. Len(s)
  PROVE  /\ Cut(s, i, j) \in Seq(Pcbs)
         /\ Len(Cut(s, i, j)) = Len(s) - (j - i)
         /\ \A k \in 1 .. Len(s) - (j - i) :
              Cut(s, i, j)[k] = IF k <= i THEN s[k] ELSE s[k + (j - i)]
         /\ IsInjective(Cut(s, i, j))
         /\ Range(Cut(s, i, j)) = Range(s) \ {s[k] : k \in i + 1 .. j}
<1>. DEFINE t == Cut(s, i, j)
            o(k) == IF k <= i THEN k ELSE k + (j - i)
            m == Len(s) - (j - i)
<1>1. /\ DOMAIN s = 1 .. Len(s) /\ Len(s) \in Nat /\ i \in Nat /\ j \in Nat /\ m \in Nat
      /\ \A k \in DOMAIN s : s[k] \in Pcbs
  OBVIOUS
<1>2. \A k \in 1 .. m : o(k) \in 1 .. Len(s) /\ o(k) \notin i + 1 .. j
  BY <1>1
<1>3. \A k \in 1 .. m : k <= i => s[k] \in Pcbs
  BY <1>1
<1>4. \A k \in 1 .. m : ~(k <= i) => s[k + (j - i)] \in Pcbs
  BY <1>1
<1>5. /\ t = [k \in 1 .. m |-> IF k <= i THEN s[k] ELSE s[k + (j - i)]]
      /\ \A k \in 1 .. m : t[k] = s[o(k)]
  BY DEF Cut
<1>6. t \in [1 .. m -> Pcbs]
  BY <1>3, <1>4, <1>5
<1>7. t \in Seq(Pcbs) /\ Len(t) = m /\ DOMAIN t = 1 .. m
  <2>. HIDE DEF t, m
  <2>. QED
    BY <1>1, <1>6
<1>8. \A k, l \in 1 .. m : o(k) = o(l) => k = l
  BY <1>1
<1>9. \A k \in 1 .. Len(s) : k \in i + 1 .. j \/ \E l \in 1 .. m : o(l) = k
  <2>. SUFFICES ASSUME NEW k \in 1 .. Len(s), k \notin i + 1 .. j
                PROVE  \E l \in 1 .. m : o(l) = k
    OBVIOUS
  <2>1. CASE k <= i
    <3>1. k \in 1 .. m /\ o(k) = k
      BY <1>1, <2>1
    <3>. QED
      BY <3>1
  <2>2. CASE j < k
    <3>1. k - (j - i) \in 1 .. m /\ o(k - (j - i)) = k
      BY <1>1, <2>2
    <3>. QED
      BY <3>1
  <2>. QED
    BY <1>1, <2>1, <2>2
<1>. HIDE DEF t, o
<1>10. IsInjective(t)
  <2>. SUFFICES ASSUME NEW k \in 1 .. m, NEW l \in 1 .. m, t[k] = t[l] PROVE k = l
    BY <1>7 DEF IsInjective
  <2>1. o(k) = o(l)
    BY <1>1, <1>2, <1>5 DEF IsInjective
  <2>. QED
    BY <1>8, <2>1
<1>11. ASSUME NEW x \in Range(t) PROVE x \in Range(s) \ {s[k] : k \in i + 1 .. j}
  <2>1. PICK k \in 1 .. m : x = t[k]
    BY <1>7 DEF Range
  <2>2. x = s[o(k)] /\ o(k) \in DOMAIN s /\ o(k) \notin i + 1 .. j
    BY <1>1, <1>2, <1>5, <2>1
  <2>3. \A l \in i + 1 .. j : l \in DOMAIN s /\ s[l] # x
    BY <1>1, <2>2 DEF IsInjective
  <2>. QED
    BY <2>2, <2>3 DEF Range
<1>12. ASSUME NEW x \in Range(s) \ {s[k] : k \in i + 1 .. j} PROVE x \in Range(t)
  <2>1. PICK k \in 1 .. Len(s) : x = s[k] /\ k \notin i + 1 .. j
    BY <1>1 DEF Range
  <2>2. PICK l \in 1 .. m : o(l) = k
    BY <1>9, <2>1
  <2>. QED
    BY <1>5, <1>7, <2>1, <2>2 DEF Range
<1>13. Range(t) = Range(s) \ {s[k] : k \in i + 1 .. j}
  BY <1>11, <1>12
<1>. QED
  BY <1>5, <1>7, <1>10, <1>13 DEF t, o

LEMMA TakenOut ==
  ASSUME NEW s \in Seq(Pcbs), IsInjective(s), NEW p \in Pcbs
  PROVE  /\ Without(s, p) \in Seq(Pcbs)
         /\ IsInjective(Without(s, p))
         /\ Range(Without(s, p)) = Range(s) \ {p}
         /\ p \notin Range(s) => Without(s, p) = s
<1>1. CASE p \notin Range(s)
  BY <1>1 DEF Without
<1>2. CASE p \in Range(s)
  <2>1. PICK j \in 1 .. Len(s) : p = s[j]
    BY <1>2 DEF Range
  <2>2. Without(s, p) = Cut(s, j - 1, j)
    BY <1>2, <2>1, PlaceIs DEF Without
  <2>3. j - 1 \in 0 .. Len(s) /\ j \in (j - 1) + 1 .. Len(s) /\ (j - 1) + 1 .. j = {j}
    OBVIOUS
  <2>4. /\ Cut(s, j - 1, j) \in Seq(Pcbs) /\ IsInjective(Cut(s, j - 1, j))
        /\ Range(Cut(s, j - 1, j)) = Range(s) \ {s[k] : k \in (j - 1) + 1 .. j}
    BY <2>3, CutOut
  <2>5. {s[k] : k \in (j - 1) + 1 .. j} = {p}
    BY <2>1, <2>3
  <2>. QED
    BY <1>2, <2>2, <2>4, <2>5
<1>. QED
  BY <1>1, <1>2

LEMMA PutFirst ==
  ASSUME NEW s \in Seq(Pcbs), IsInjective(s), NEW p \in Pcbs, p \notin Range(s)
  PROVE  /\ <<p>> \o s \in Seq(Pcbs)
         /\ IsInjective(<<p>> \o s)
         /\ Range(<<p>> \o s) = Range(s) \cup {p}
<1>. DEFINE t == <<p>> \o s
<1>1. /\ t \in Seq(Pcbs)
      /\ Len(t) = Len(s) + 1
      /\ t[1] = p
      /\ \A i \in 1 .. Len(s) : t[i + 1] = s[i]
      /\ DOMAIN t = 1 .. Len(t) /\ DOMAIN s = 1 .. Len(s) /\ Len(s) \in Nat
  OBVIOUS
<1>2. \A i \in DOMAIN t : i = 1 \/ (i - 1 \in DOMAIN s /\ t[i] = s[i - 1])
  BY <1>1
<1>. HIDE DEF t
<1>3. ASSUME NEW x \in Range(t) PROVE x \in Range(s) \cup {p}
  BY <1>1, <1>2 DEF Range
<1>4. ASSUME NEW x \in Range(s) PROVE x \in Range(t)
  <2>1. PICK i \in DOMAIN s : x = s[i]
    BY DEF Range
  <2>2. i + 1 \in DOMAIN t /\ t[i + 1] = x
    BY <1>1, <2>1
  <2>. QED
    BY <2>2 DEF Range
<1>5. p \in Range(t)
  BY <1>1 DEF Range
<1>6. IsInjective(t)
  BY <1>1, <1>2 DEF IsInjective, Range
<1>7. Range(t) = Range(s) \cup {p}
  BY <1>3, <1>4, <1>5
<1>. QED
  BY <1>1, <1>6, <1>7 DEF t

-----------------------------------------------------------------------------
(* The invariant: the types, the lists, and the walk of tcp_slowtmr.       *)

Opening == {"SYN_SENT", "SYN_RCVD"}
Lives ==
  Opening \cup {"ESTABLISHED", "CLOSE_WAIT", "FIN_WAIT_1", "FIN_WAIT_2", "CLOSING",
                "LAST_ACK"}

Pcb == [state : Lives \cup {"FREE", "TIME_WAIT"}, age : Nat, nrtx : 0 .. RtxModulus - 1,
        unacked : BOOLEAN, fast : BOOLEAN, rxClosed : BOOLEAN, refused : BOOLEAN]

(* A list holds pcbs in its states, each once.  tcp_tw_pcbs holds all of   *)
(* them, tcp_active_pcbs when callbacks leave it alone.                    *)
ActiveInv ==
  /\ active \in Seq(Pcbs) /\ IsInjective(active) /\ Range(active) \subseteq Active
  /\ CallbacksChange = FALSE => Active \subseteq Range(active)

TwInv == tw \in Seq(Pcbs) /\ IsInjective(tw) /\ Range(tw) = Waiting

ListsInv == pcbs \in [Pcbs -> Pcb] /\ ActiveInv /\ TwInv

(* prev and pcb of tcp_slowtmr are at places i < j of the list: next to    *)
(* each other, with the pcbs from there on not yet processed, when         *)
(* callbacks leave the list alone.                                         *)
WalkAt(i, j) ==
  /\ i < j /\ prev = At(active, i) /\ pcb = At(active, j)
  /\ CallbacksChange = FALSE =>
       j = i + 1 /\ \A k \in j .. Len(active) : active[k] \notin done

InSlow == phase = "slow" \/ (phase = "slow_callback" /\ ~changed)

WalkInv ==
  /\ phase \in {"idle", "fast", "fast_callback", "slow", "slow_callback"}
  /\ changed \in BOOLEAN
  /\ CallbacksChange = FALSE => ~changed
  /\ pcb \in Pcbs \cup {NULL}
  /\ phase \in {"idle", "fast", "fast_callback"} => prev = NULL
  /\ InSlow => \E i \in 0 .. Len(active), j \in 1 .. Len(active) + 1 : WalkAt(i, j)

IInv == ListsInv /\ WalkInv

-----------------------------------------------------------------------------
(* What the application and segments do to the lists.                      *)

(* A connection goes on: only tcp_connect and tcp_listen_input open one.   *)
GoesOn(p, n) ==
  /\ p \in Active /\ n.state \in Lives /\ (n.state \in Opening => n.state = State(p))
  /\ pcbs' = [pcbs EXCEPT ![p] = n] /\ tw' = tw
  /\ active' = active \/ active' = <<p>> \o Without(active, p)

Lost(p) == p \in Active /\ Gone(p)

Waits(p) == p \in Active /\ \E a \in Nat : ToTimeWait(p, a)

Refreshed(p, n) ==
  /\ p \in Waiting /\ n.state = "TIME_WAIT"
  /\ pcbs' = [pcbs EXCEPT ![p] = n] /\ active' = active /\ tw' = tw

Opened(p, n, ok) ==
  /\ p \in Allocated
  /\ ok => n.state \in Opening
  /\ ~ok => n.state = "FREE"
  /\ pcbs' = [pcbs EXCEPT ![p] = n]
  /\ active' = (IF ok THEN <<p>> ELSE <<>>) \o Without(active, p)
  /\ tw' = Without(tw, p)

ListStep ==
  \E p \in Pcbs :
    \/ Lost(p) \/ Waits(p)
    \/ \E n \in Pcb : \/ GoesOn(p, n) \/ Refreshed(p, n)
                      \/ \E ok \in BOOLEAN : Opened(p, n, ok)

(* And what they do to the walk, of which a callback is a part.            *)
WalkStep ==
  \/ UNCHANGED <<walk, changed>> /\ (phase = "idle" \/ active' = active)
  \/ /\ CallbacksChange # FALSE /\ phase \in {"fast_callback", "slow_callback"}
     /\ changed' = TRUE /\ UNCHANGED <<phase, pcb, prev, slow>>

LEMMA StatesAre ==
  ASSUME ListsInv
  PROVE  /\ \A p \in Pcbs : pcbs[p] \in Pcb
         /\ \A p : p \in Active <=> p \in Pcbs /\ State(p) \in Lives
         /\ \A p : p \in Waiting <=> p \in Pcbs /\ State(p) = "TIME_WAIT"
         /\ \A p : p \in Unused <=> p \in Pcbs /\ State(p) = "FREE"
BY DEF ListsInv, Active, Waiting, Unused, State, Pcb, Lives, Opening

(* Where the pcbs are when one has become n.                               *)
LEMMA StatesBecome ==
  ASSUME ListsInv, NEW p \in Pcbs, NEW n \in Pcb, pcbs' = [pcbs EXCEPT ![p] = n]
  PROVE  /\ pcbs' \in [Pcbs -> Pcb]
         /\ Active' = IF n.state \in Lives THEN Active \cup {p} ELSE Active \ {p}
         /\ Waiting' = IF n.state = "TIME_WAIT" THEN Waiting \cup {p} ELSE Waiting \ {p}
<1>1. \A q \in Pcbs : pcbs'[q] = IF q = p THEN n ELSE pcbs[q]
  BY DEF ListsInv
<1>2. pcbs' \in [Pcbs -> Pcb]
  BY DEF ListsInv
<1>3. n.state \in Lives \cup {"FREE", "TIME_WAIT"}
  BY DEF Pcb
<1>4. Waiting' = IF n.state = "TIME_WAIT" THEN Waiting \cup {p} ELSE Waiting \ {p}
  BY <1>1 DEF Waiting, State
<1>5. Active' = IF n.state \in Lives THEN Active \cup {p} ELSE Active \ {p}
  BY <1>1, <1>3 DEF Active, Waiting, Unused, State, Lives, Opening
<1>. QED
  BY <1>2, <1>4, <1>5

LEMMA FreeIsPcb ==
  /\ Free \in Pcb /\ Free.state = "FREE"
  /\ \A a \in Nat : LET n == [Free EXCEPT !.state = "TIME_WAIT", !.age = a]
                    IN n \in Pcb /\ n.state = "TIME_WAIT"
  /\ \A state \in Opening : LET n == [Free EXCEPT !.state = state, !.unacked = TRUE]
                            IN n \in Pcb /\ n.state = state
<1>1. 0 \in Nat /\ 0 \in 0 .. RtxModulus - 1
  BY LimitsAssumption
<1>2. Free \in Pcb /\ Free.state = "FREE"
  BY <1>1 DEF Free, Pcb
<1>3. ASSUME NEW a \in Nat
      PROVE  /\ [Free EXCEPT !.state = "TIME_WAIT", !.age = a] \in Pcb
             /\ [Free EXCEPT !.state = "TIME_WAIT", !.age = a].state = "TIME_WAIT"
  BY <1>2 DEF Pcb
<1>4. ASSUME NEW state \in Opening
      PROVE  /\ [Free EXCEPT !.state = state, !.unacked = TRUE] \in Pcb
             /\ [Free EXCEPT !.state = state, !.unacked = TRUE].state = state
  BY <1>2 DEF Pcb, Lives
<1>. QED
  BY <1>2, <1>3, <1>4

LEMMA AllocatedFrom ==
  ASSUME ListsInv, NEW p \in Allocated
  PROVE  p \in Pcbs /\ (p \in Active => Unused = {} /\ tw = <<>>)
<1>1. \A s \in Seq(Pcbs) : Range(s) \subseteq Pcbs /\ Oldest(s) \subseteq Range(s)
  BY DEF Range, Oldest
<1>2. Unused \subseteq Pcbs /\ Oldest(tw) \subseteq Waiting /\ Oldest(active) \subseteq Pcbs
      /\ Waiting \subseteq Pcbs
  BY <1>1 DEF ListsInv, ActiveInv, TwInv, Unused, Waiting
<1>. QED
  BY <1>2 DEF Allocated, Active

LEMMA ListStepSafe ==
  ASSUME ListsInv, ListStep
  PROVE  ListsInv'
<1>. USE DEF ListsInv, ActiveInv, TwInv
<1>1. ASSUME NEW p \in Pcbs, NEW n \in Pcb, GoesOn(p, n) PROVE ListsInv'
  <2>1. /\ pcbs' \in [Pcbs -> Pcb] /\ Active' = Active /\ Waiting' = Waiting /\ p \in Active
    <3>1. n.state \in Lives /\ n.state # "TIME_WAIT" /\ p \in Active /\ p \notin Waiting
      BY <1>1 DEF GoesOn, Active, Lives, Opening
    <3>2. pcbs' = [pcbs EXCEPT ![p] = n]
      BY <1>1 DEF GoesOn
    <3>3. /\ pcbs' \in [Pcbs -> Pcb] /\ Active' = Active \cup {p}
          /\ Waiting' = Waiting \ {p}
      BY <3>1, <3>2, StatesBecome
    <3>. QED
      BY <3>1, <3>3
  <2>2. CASE active' = active
    BY <1>1, <2>1, <2>2 DEF GoesOn
  <2>3. CASE active' = <<p>> \o Without(active, p)
    <3>. DEFINE s == Without(active, p)
    <3>1. s \in Seq(Pcbs) /\ IsInjective(s) /\ Range(s) = Range(active) \ {p}
      BY TakenOut
    <3>. HIDE DEF s
    <3>2. /\ <<p>> \o s \in Seq(Pcbs) /\ IsInjective(<<p>> \o s)
          /\ Range(<<p>> \o s) = Range(s) \cup {p}
      BY <3>1, PutFirst
    <3>3. active' \in Seq(Pcbs) /\ IsInjective(active') /\ Range(active') = Range(active) \cup {p}
      BY <2>3, <3>1, <3>2 DEF s
    <3>. QED
      BY <1>1, <2>1, <3>3 DEF GoesOn
  <2>. QED
    BY <1>1, <2>2, <2>3 DEF GoesOn
<1>2. ASSUME NEW p \in Pcbs, Lost(p) PROVE ListsInv'
  <2>1. /\ pcbs' \in [Pcbs -> Pcb] /\ Active' = Active \ {p} /\ Waiting' = Waiting
    <3>1. pcbs' = [pcbs EXCEPT ![p] = Free] /\ p \notin Waiting
      BY <1>2 DEF Lost, Gone, Active
    <3>2. Free \in Pcb /\ Free.state \notin Lives /\ Free.state # "TIME_WAIT"
      BY FreeIsPcb DEF Lives, Opening
    <3>3. /\ pcbs' \in [Pcbs -> Pcb] /\ Active' = Active \ {p}
          /\ Waiting' = Waiting \ {p}
      BY <3>1, <3>2, StatesBecome
    <3>. QED
      BY <3>1, <3>3
  <2>2. /\ active' \in Seq(Pcbs) /\ IsInjective(active') /\ Range(active') = Range(active) \ {p}
    BY <1>2, TakenOut DEF Lost, Gone
  <2>. QED
    BY <1>2, <2>1, <2>2 DEF Lost, Gone
<1>3. ASSUME NEW p \in Pcbs, Waits(p) PROVE ListsInv'
  <2>1. PICK a \in Nat : ToTimeWait(p, a)
    BY <1>3 DEF Waits
  <2>2. /\ pcbs' \in [Pcbs -> Pcb] /\ Active' = Active \ {p} /\ Waiting' = Waiting \cup {p}
    BY <2>1, FreeIsPcb, StatesBecome DEF ToTimeWait, Lives, Opening
  <2>3. /\ active' \in Seq(Pcbs) /\ IsInjective(active') /\ Range(active') = Range(active) \ {p}
    BY <2>1, TakenOut DEF ToTimeWait
  <2>4. p \notin Range(tw)
    BY <1>3 DEF Waits, Active
  <2>5. /\ tw' \in Seq(Pcbs) /\ IsInjective(tw') /\ Range(tw') = Range(tw) \cup {p}
    BY <2>1, <2>4, PutFirst DEF ToTimeWait
  <2>. QED
    BY <2>2, <2>3, <2>5
<1>4. ASSUME NEW p \in Pcbs, NEW n \in Pcb, Refreshed(p, n) PROVE ListsInv'
  <2>1. pcbs' \in [Pcbs -> Pcb] /\ Active' = Active /\ Waiting' = Waiting
    <3>1. pcbs' = [pcbs EXCEPT ![p] = n] /\ p \in Waiting /\ p \notin Active
      BY <1>4 DEF Refreshed, Active
    <3>2. n.state = "TIME_WAIT" /\ n.state \notin Lives
      BY <1>4 DEF Refreshed, Lives, Opening
    <3>3. /\ pcbs' \in [Pcbs -> Pcb] /\ Active' = Active \ {p}
          /\ Waiting' = Waiting \cup {p}
      BY <3>1, <3>2, StatesBecome
    <3>. QED
      BY <3>1, <3>3
  <2>. QED
    BY <1>4, <2>1 DEF Refreshed
<1>5. ASSUME NEW p \in Pcbs, NEW n \in Pcb, NEW ok \in BOOLEAN, Opened(p, n, ok)
      PROVE  ListsInv'
  <2>. DEFINE s == Without(active, p)
  <2>1. s \in Seq(Pcbs) /\ IsInjective(s) /\ Range(s) = Range(active) \ {p}
    BY TakenOut
  <2>2. tw' \in Seq(Pcbs) /\ IsInjective(tw') /\ Range(tw') = Range(tw) \ {p}
    BY <1>5, TakenOut DEF Opened
  <2>3. pcbs' = [pcbs EXCEPT ![p] = n] /\ active' = (IF ok THEN <<p>> ELSE <<>>) \o s
    BY <1>5 DEF Opened
  <2>. HIDE DEF s
  <2>4. CASE ok
    <3>1. n.state \in Lives /\ n.state # "TIME_WAIT"
      BY <1>5, <2>4 DEF Opened, Lives, Opening
    <3>2. pcbs' \in [Pcbs -> Pcb] /\ Active' = Active \cup {p} /\ Waiting' = Waiting \ {p}
      BY <2>3, <3>1, StatesBecome
    <3>3. /\ active' \in Seq(Pcbs) /\ IsInjective(active')
          /\ Range(active') = Range(active) \cup {p}
      BY <2>1, <2>3, <2>4, PutFirst
    <3>. QED
      BY <2>2, <3>2, <3>3
  <2>5. CASE ~ok
    <3>1. n.state \notin Lives /\ n.state # "TIME_WAIT"
      BY <1>5, <2>5 DEF Opened, Lives, Opening
    <3>2. pcbs' \in [Pcbs -> Pcb] /\ Active' = Active \ {p} /\ Waiting' = Waiting \ {p}
      BY <2>3, <3>1, StatesBecome
    <3>3. active' = s
      BY <2>1, <2>3, <2>5
    <3>. QED
      BY <2>1, <2>2, <3>2, <3>3
  <2>. QED
    BY <2>4, <2>5
<1>. QED
  BY <1>1, <1>2, <1>3, <1>4, <1>5 DEF ListStep

LEMMA WalkStepSafe ==
  ASSUME WalkInv, WalkStep
  PROVE  WalkInv'
<1>1. CASE UNCHANGED <<walk, changed>> /\ (phase = "idle" \/ active' = active)
  BY <1>1 DEF WalkInv, walk, InSlow, WalkAt, At
<1>2. CASE /\ CallbacksChange # FALSE /\ phase \in {"fast_callback", "slow_callback"}
           /\ changed' = TRUE /\ UNCHANGED <<phase, pcb, prev, slow>>
  BY <1>2 DEF WalkInv, InSlow
<1>. QED
  BY <1>1, <1>2 DEF WalkStep

-----------------------------------------------------------------------------
(* The steps of the application and of tcp_input are of these kinds.       *)

Steps == ListStep /\ WalkStep

LEMMA HeardIs ==
  ASSUME IInv, NEW p \in Pcbs, NEW refuse \in BOOLEAN
  PROVE  Heard(p, refuse) \in Pcb /\ Heard(p, refuse).state = State(p)
<1>1. pcbs[p] \in Pcb
  BY DEF IInv, ListsInv
<1>. QED
  BY <1>1 DEF Heard, State, Pcb

LEMMA AckedIs ==
  ASSUME NEW n \in Pcb
  PROVE  Acked(n) \in Pcb /\ Acked(n).state = n.state
<1>1. 0 \in 0 .. RtxModulus - 1
  BY LimitsAssumption
<1>. QED
  BY <1>1 DEF Acked, Pcb

(* nrtx is a u8_t.                                                         *)
LEMMA CountedIs ==
  ASSUME NEW k \in 0 .. RtxModulus - 1
  PROVE  (k + 1) % RtxModulus \in 0 .. RtxModulus - 1
BY LimitsAssumption

LEMMA ChangesSteps ==
  ASSUME IInv, AppRuns, NEW S, Changes(S)
  PROVE  WalkStep
BY DEF Changes, WalkStep, AppRuns

LEMMA OpenSteps ==
  ASSUME IInv, AppRuns, NEW state \in Opening, NEW ok \in BOOLEAN, Open(state, ok)
  PROVE  Steps
<1>. DEFINE n == IF ok THEN [Free EXCEPT !.state = state, !.unacked = TRUE] ELSE Free
<1>1. PICK p \in Allocated :
        /\ pcbs' = [pcbs EXCEPT ![p] = n]
        /\ active' = (IF ok THEN <<p>> ELSE <<>>) \o Without(active, p)
        /\ tw' = Without(tw, p)
        /\ IF ok \/ p \in Active THEN Changes({p}) ELSE UNCHANGED <<walk, changed>>
  BY DEF Open
<1>2. n \in Pcb /\ (ok => n.state \in Opening) /\ (~ok => n.state = "FREE")
  BY FreeIsPcb
<1>. HIDE DEF n
<1>3. p \in Pcbs
  BY AllocatedFrom DEF IInv
<1>4. Opened(p, n, ok)
  BY <1>1, <1>2 DEF Opened
<1>5. WalkStep
  <2>1. CASE ok \/ p \in Active
    BY <1>1, <2>1, ChangesSteps
  <2>2. CASE ~ok /\ p \notin Active
    <3>1. Without(active, p) = active /\ active \in Seq(Pcbs)
      BY <1>3, <2>2, TakenOut DEF IInv, ListsInv, ActiveInv
    <3>2. active' = active
      BY <1>1, <2>2, <3>1
    <3>. QED
      BY <1>1, <2>2, <3>2 DEF WalkStep
  <2>. QED
    BY <2>1, <2>2
<1>. QED
  BY <1>2, <1>3, <1>4, <1>5 DEF Steps, ListStep

LEMMA BecomesSteps ==
  ASSUME IInv, phase = "idle", NEW p \in Active, NEW n \in Pcb, n.state \in Lives,
         n.state \in Opening => n.state = State(p), Becomes(p, n)
  PROVE  Steps
<1>1. p \in Pcbs /\ GoesOn(p, n)
  BY DEF GoesOn, Becomes, Active
<1>2. WalkStep
  BY DEF Becomes, WalkStep
<1>. QED
  BY <1>1, <1>2 DEF Steps, ListStep

LEMMA ChangedSteps ==
  ASSUME IInv, NEW p \in Active, NEW n \in Pcb, n.state \in Lives,
         n.state \in Opening => n.state = State(p), Changed(p, n)
  PROVE  Steps
<1>1. p \in Pcbs /\ GoesOn(p, n)
  BY DEF GoesOn, Changed, Active
<1>2. WalkStep
  BY DEF Changed, WalkStep
<1>. QED
  BY <1>1, <1>2 DEF Steps, ListStep

LEMMA ClosedSteps ==
  ASSUME IInv, phase = "idle", NEW p \in Active, Closed(p)
  PROVE  Steps
BY DEF Closed, Lost, Steps, ListStep, WalkStep, Active

LEMMA TimeWaitSteps ==
  ASSUME IInv, phase = "idle", NEW p \in Active, NEW n \in Pcb, TimeWait(p, n)
  PROVE  Steps
<1>1. n.age \in Nat
  BY DEF Pcb
<1>. QED
  BY <1>1 DEF TimeWait, Waits, Steps, ListStep, WalkStep, Active

LEMMA AppSteps ==
  ASSUME IInv, App
  PROVE  Steps
<1>0. \A p \in Pcbs : pcbs[p] \in Pcb
  BY DEF IInv, ListsInv
<1>1. ASSUME NEW ok \in BOOLEAN, Connect(ok) PROVE Steps
  BY <1>1, OpenSteps DEF Connect, Opening
<1>2. ASSUME NEW p \in Pcbs, AppRuns, p \in Active, Gone(p), Changes({}) PROVE Steps
  <2>1. WalkStep
    BY <1>2, ChangesSteps
  <2>. QED
    BY <1>2, <2>1 DEF Lost, Steps, ListStep
<1>3. ASSUME NEW p \in Pcbs, Knows(p) PROVE p \in Active
  BY <1>3 DEF Knows, Active, Unused, Waiting
<1>4. ASSUME NEW p \in Pcbs, Abort(p) PROVE Steps
  BY <1>2, <1>3, <1>4 DEF Abort
<1>5. ASSUME NEW p \in Pcbs, Write(p) PROVE Steps
  <2>1. p \in Active /\ State(p) \in Lives
    BY <1>5 DEF Write, Active, Unused, Waiting, Lives
  <2>2. /\ [pcbs[p] EXCEPT !.unacked = TRUE] \in Pcb
        /\ [pcbs[p] EXCEPT !.unacked = TRUE].state = State(p)
    BY <1>0 DEF Pcb, State
  <2>. QED
    BY <1>5, <2>1, <2>2, ChangedSteps DEF Write
<1>6. ASSUME NEW p \in Pcbs, NEW rx \in BOOLEAN, SendFin(p, rx) PROVE Steps
  <2>. DEFINE n == [pcbs[p] EXCEPT
                      !.state = IF @ = "ESTABLISHED" THEN "FIN_WAIT_1" ELSE "LAST_ACK",
                      !.unacked = TRUE, !.rxClosed = rx]
  <2>1. p \in Active
    BY <1>6 DEF SendFin, Active, Unused, Waiting
  <2>2. n \in Pcb /\ n.state \in {"FIN_WAIT_1", "LAST_ACK"}
    BY <1>0 DEF Pcb, Lives
  <2>. HIDE DEF n
  <2>3. n.state \in Lives /\ n.state \notin Opening
    BY <2>2 DEF Lives, Opening
  <2>4. Changed(p, n)
    BY <1>6 DEF SendFin, n
  <2>. QED
    BY <2>1, <2>2, <2>3, <2>4, ChangedSteps
<1>7. ASSUME NEW p \in Pcbs, NEW unread \in BOOLEAN, NEW ok \in BOOLEAN,
             Close(p, unread, ok)
      PROVE  Steps
  <2>1. AppRuns /\ p \in Active
    BY <1>3, <1>7 DEF Close
  <2>2. CASE Gone(p) /\ Changes({})
    BY <1>2, <2>1, <2>2
  <2>3. CASE ToTimeWait(p, pcbs[p].age) /\ Changes({})
    <3>1. pcbs[p].age \in Nat
      BY <1>0 DEF Pcb
    <3>2. WalkStep
      BY <2>1, <2>3, ChangesSteps
    <3>. QED
      BY <2>1, <2>3, <3>1, <3>2 DEF Waits, Steps, ListStep
  <2>4. CASE SendFin(p, TRUE)
    BY <1>6, <2>4
  <2>5. CASE Changed(p, [pcbs[p] EXCEPT !.rxClosed = TRUE])
    <3>1. /\ [pcbs[p] EXCEPT !.rxClosed = TRUE] \in Pcb
          /\ [pcbs[p] EXCEPT !.rxClosed = TRUE].state = State(p)
      BY <1>0 DEF Pcb, State
    <3>2. State(p) \in Lives
      BY <2>1, StatesAre DEF IInv
    <3>. QED
      BY <2>1, <2>5, <3>1, <3>2, ChangedSteps
  <2>. QED
    BY <1>7, <2>2, <2>3, <2>4, <2>5 DEF Close
<1>8. ASSUME NEW p \in Pcbs, ShutdownRx(p) PROVE Steps
  <2>1. /\ [pcbs[p] EXCEPT !.rxClosed = TRUE, !.refused = FALSE] \in Pcb
        /\ [pcbs[p] EXCEPT !.rxClosed = TRUE, !.refused = FALSE].state = State(p)
    BY <1>0 DEF Pcb, State
  <2>2. p \in Active /\ State(p) \in Lives
    BY <1>3, <1>8, StatesAre DEF ShutdownRx, IInv
  <2>. QED
    BY <1>8, <2>1, <2>2, ChangedSteps DEF ShutdownRx
<1>9. ASSUME NEW p \in Pcbs, ShutdownTx(p) PROVE Steps
  <2>1. pcbs[p].rxClosed \in BOOLEAN
    BY <1>0 DEF Pcb
  <2>. QED
    BY <1>6, <1>9, <2>1 DEF ShutdownTx
<1>. QED
  BY <1>1, <1>4, <1>5, <1>7, <1>8, <1>9 DEF App

LEMMA InputSteps ==
  ASSUME IInv, Input
  PROVE  Steps
<1>0. phase = "idle" /\ \A p \in Pcbs : pcbs[p] \in Pcb
  BY DEF IInv, ListsInv, Input
<1>1. \A p \in Active : p \in Pcbs /\ State(p) \in Lives
  BY StatesAre DEF IInv
<1>2. ASSUME NEW p \in Pcbs, State(p) \in Lives PROVE p \in Active
  BY <1>2 DEF Active, Unused, Waiting, Lives, Opening
(* A pcb that becomes n, which differs from it in the state at most.       *)
<1>3. ASSUME NEW p \in Pcbs, State(p) \in Lives, NEW n \in Pcb, n.state = State(p),
             Becomes(p, n)
      PROVE  Steps
  BY <1>0, <1>2, <1>3, BecomesSteps
<1>4. ASSUME NEW p \in Pcbs, State(p) \in Lives, NEW n \in Pcb,
             NEW s \in Lives \ Opening, Becomes(p, [n EXCEPT !.state = s])
      PROVE  Steps
  <2>1. [n EXCEPT !.state = s] \in Pcb /\ [n EXCEPT !.state = s].state = s
    BY DEF Pcb
  <2>. QED
    BY <1>0, <1>2, <1>4, <2>1, BecomesSteps
<1>5. ASSUME NEW p \in Pcbs, State(p) \in Lives, Closed(p) PROVE Steps
  BY <1>0, <1>2, <1>5, ClosedSteps
<1>6. ASSUME NEW p \in Pcbs, State(p) \in Lives, NEW n \in Pcb, TimeWait(p, n) PROVE Steps
  BY <1>0, <1>2, <1>6, TimeWaitSteps
<1>7. /\ {"ESTABLISHED", "CLOSE_WAIT", "FIN_WAIT_2", "CLOSING"} \subseteq Lives \ Opening
      /\ {"SYN_SENT", "SYN_RCVD", "ESTABLISHED", "CLOSE_WAIT", "FIN_WAIT_1",
          "FIN_WAIT_2", "CLOSING", "LAST_ACK"} \subseteq Lives
  BY DEF Lives, Opening
<1>11. ASSUME NEW ok \in BOOLEAN, Syn(ok) PROVE Steps
  BY <1>0, <1>11, OpenSteps DEF Syn, AppRuns, Opening
<1>12. ASSUME NEW p \in Pcbs, SynAgain(p) PROVE Steps
  <2>. DEFINE h == Heard(p, FALSE)
              n == [h EXCEPT !.nrtx = (@ + 1) % RtxModulus]
  <2>1. h \in Pcb /\ h.state = State(p)
    BY HeardIs
  <2>. HIDE DEF h
  <2>2. n \in Pcb /\ n.state = State(p)
    BY <2>1, CountedIs DEF Pcb
  <2>. QED
    BY <1>3, <1>7, <1>12, <2>2 DEF SynAgain, h
<1>13. ASSUME NEW p \in Pcbs, SynAck(p) PROVE Steps
  <2>. DEFINE h == Heard(p, FALSE)
              n == [h EXCEPT !.state = "ESTABLISHED", !.unacked = FALSE]
  <2>1. h \in Pcb
    BY HeardIs
  <2>. HIDE DEF h
  <2>2. n \in Pcb /\ n.state = "ESTABLISHED"
    BY <2>1 DEF Pcb, Lives
  <2>3. p \in Active /\ n.state \in Lives /\ n.state \notin Opening
    BY <1>2, <1>7, <1>13, <2>2 DEF SynAck
  <2>4. Becomes(p, n)
    BY <1>13 DEF SynAck, h
  <2>. QED
    BY <1>0, <2>2, <2>3, <2>4, BecomesSteps
<1>14. ASSUME NEW p \in Pcbs, Rst(p) PROVE Steps
  BY <1>1, <1>5, <1>14 DEF Rst
<1>15. ASSUME NEW p \in Pcbs, FinAgain(p) PROVE Steps
  <2>. DEFINE n == [pcbs[p] EXCEPT !.age = 0]
  <2>1. n \in Pcb /\ n.state = "TIME_WAIT"
    BY <1>0, <1>15 DEF FinAgain, State, Pcb
  <2>2. Refreshed(p, n)
    BY <1>15, <2>1 DEF FinAgain, Changed, Refreshed, Waiting
  <2>3. WalkStep
    BY <1>15 DEF FinAgain, Changed, WalkStep
  <2>. QED
    BY <2>1, <2>2, <2>3 DEF Steps, ListStep
<1>16. ASSUME NEW p \in Pcbs, NEW refuse \in BOOLEAN, DupAck(p, refuse) PROVE Steps
  <2>. DEFINE h == Heard(p, refuse)
              n == [h EXCEPT !.nrtx = (@ + 1) % RtxModulus, !.fast = TRUE]
  <2>1. h \in Pcb /\ h.state = State(p)
    BY HeardIs
  <2>. HIDE DEF h
  <2>2. n \in Pcb /\ n.state = State(p)
    BY <2>1, CountedIs DEF Pcb
  <2>. QED
    BY <1>1, <1>3, <1>16, <2>2 DEF DupAck, Synchronized, h
<1>17. ASSUME NEW p \in Pcbs, NEW refuse \in BOOLEAN, Segment(p, refuse) PROVE Steps
  BY <1>1, <1>3, <1>17, HeardIs DEF Segment
<1>18. ASSUME NEW p \in Pcbs, NEW refuse \in BOOLEAN, Data(p, refuse) PROVE Steps
  <2>. DEFINE h == Heard(p, refuse)
              n == [h EXCEPT !.refused = refuse]
  <2>1. h \in Pcb /\ h.state = State(p) /\ State(p) \in Lives
    BY <1>7, <1>18, HeardIs DEF Data
  <2>2. CASE Becomes(p, pcbs[p])
    BY <1>0, <1>3, <2>1, <2>2 DEF State
  <2>3. CASE Closed(p)
    BY <1>5, <2>1, <2>3
  <2>4. CASE Becomes(p, n)
    <3>. HIDE DEF h
    <3>1. n \in Pcb /\ n.state = State(p)
      BY <2>1 DEF Pcb
    <3>. QED
      BY <1>3, <2>1, <2>4, <3>1
  <2>. QED
    BY <1>18, <2>2, <2>3, <2>4 DEF Data
<1>19. ASSUME NEW p \in Pcbs, NEW yes \in BOOLEAN, NEW refuse \in BOOLEAN,
              Ack(p, yes, refuse)
       PROVE  Steps
  <2>. DEFINE n == Acked(Heard(p, refuse))
  <2>1. n \in Pcb /\ n.state = State(p)
    BY HeardIs, AckedIs
  <2>. HIDE DEF n
  <2>2. \/ State(p) \in Lives /\ Becomes(p, [n EXCEPT !.state = "ESTABLISHED"])
        \/ State(p) \in Lives /\ Closed(p)
        \/ State(p) \in Lives /\ Becomes(p, n)
        \/ State(p) \in Lives /\ Becomes(p, [n EXCEPT !.state = "FIN_WAIT_2"])
        \/ State(p) \in Lives /\ TimeWait(p, n)
    BY <1>7, <1>19 DEF Ack, n
  <2>. QED
    BY <1>3, <1>4, <1>5, <1>6, <1>7, <2>1, <2>2
<1>20. ASSUME NEW p \in Pcbs, NEW yes \in BOOLEAN, NEW refuse \in BOOLEAN,
              Fin(p, yes, refuse)
       PROVE  Steps
  <2>. DEFINE n == IF yes THEN Acked(Heard(p, FALSE)) ELSE Heard(p, FALSE)
  <2>1. n \in Pcb /\ n.state = State(p)
    BY HeardIs, AckedIs
  <2>. HIDE DEF n
  <2>2. \/ State(p) \in Lives /\ Becomes(p, pcbs[p])
        \/ State(p) \in Lives /\ Becomes(p, [n EXCEPT !.state = "CLOSE_WAIT"])
        \/ State(p) \in Lives /\ TimeWait(p, n)
        \/ State(p) \in Lives /\ Becomes(p, [n EXCEPT !.state = "CLOSING"])
    BY <1>7, <1>20 DEF Fin, n
  <2>3. pcbs[p] \in Pcb /\ pcbs[p].state = State(p)
    BY <1>0 DEF State
  <2>. QED
    BY <1>3, <1>4, <1>6, <1>7, <2>1, <2>2, <2>3
<1>. QED
  BY <1>11, <1>12, <1>13, <1>14, <1>15, <1>16, <1>17, <1>18, <1>19, <1>20 DEF Input

-----------------------------------------------------------------------------
(* tcp_tmr                                                                 *)

LEMMA AtIsPcb ==
  ASSUME NEW s \in Seq(Pcbs), NEW i
  PROVE  At(s, i) \in Pcbs \cup {NULL}
BY DEF At

LEMMA SameStates ==
  ASSUME ListsInv, pcbs' \in [Pcbs -> Pcb],
         \A p \in Pcbs : pcbs'[p].state = pcbs[p].state,
         active' = active, tw' = tw
  PROVE  ListsInv'
<1>1. Active' = Active /\ Waiting' = Waiting
  BY DEF Active, Waiting, Unused, State
<1>. QED
  BY <1>1 DEF ListsInv, ActiveInv, TwInv

LEMMA FastSafe ==
  ASSUME IInv, \/ TcpTmr \/ FastLook \/ FastEnd \/ \E again \in BOOLEAN : FastBack(again)
  PROVE  IInv'
<1>. USE DEF IInv
<1>0. /\ pcbs \in [Pcbs -> Pcb] /\ \A p \in Pcbs : pcbs[p] \in Pcb
      /\ active \in Seq(Pcbs) /\ Len(active) \in Nat
  BY DEF ListsInv, ActiveInv
<1>1. \A i : At(active, i) \in Pcbs \cup {NULL}
  BY <1>0, AtIsPcb
<1>2. CASE TcpTmr
  <2>1. ListsInv'
    BY <1>0, <1>2, SameStates DEF TcpTmr
  <2>2. WalkInv'
    BY <1>1, <1>2 DEF TcpTmr, WalkInv, InSlow, First
  <2>. QED
    BY <2>1, <2>2
<1>3. CASE FastLook
  <2>1. pcb \in Pcbs /\ active' = active /\ tw' = tw
    BY <1>3 DEF FastLook, WalkInv
  <2>2. pcbs' \in {pcbs, [pcbs EXCEPT ![pcb].refused = FALSE]}
    BY <1>3 DEF FastLook
  <2>3. /\ [pcbs[pcb] EXCEPT !.refused = FALSE] \in Pcb
        /\ [pcbs[pcb] EXCEPT !.refused = FALSE].state = pcbs[pcb].state
    BY <1>0, <2>1 DEF Pcb
  <2>4. pcbs' \in [Pcbs -> Pcb] /\ \A p \in Pcbs : pcbs'[p].state = pcbs[p].state
    BY <1>0, <2>1, <2>2, <2>3
  <2>5. ListsInv'
    BY <2>1, <2>4, SameStates
  <2>6. WalkInv'
    BY <1>1, <1>3 DEF FastLook, WalkInv, InSlow, After
  <2>. QED
    BY <2>5, <2>6
<1>4. CASE FastEnd
  <2>1. ASSUME NEW n \in Pcb PROVE Aged(n) \in Pcb /\ Aged(n).state = n.state
    BY DEF Aged, Pcb
  <2>2. pcbs' \in [Pcbs -> Pcb] /\ \A p \in Pcbs : pcbs'[p].state = pcbs[p].state
    BY <1>0, <1>4, <2>1 DEF FastEnd
  <2>3. ListsInv'
    BY <1>4, <2>2, SameStates DEF FastEnd
  <2>4. CASE ~slow
    <3>1. /\ phase' = "idle" /\ pcb' = pcb /\ prev' = prev /\ changed' = changed
          /\ phase = "fast"
      BY <1>4, <2>4 DEF FastEnd
    <3>2. prev = NULL /\ pcb \in Pcbs \cup {NULL} /\ changed \in BOOLEAN
          /\ (CallbacksChange = FALSE => ~changed)
      BY <3>1 DEF WalkInv
    <3>3. ~InSlow'
      BY <3>1 DEF InSlow
    <3>4. WalkInv'
      BY <3>1, <3>2, <3>3 DEF WalkInv
    <3>. QED
      BY <2>3, <3>4
  <2>5. CASE slow
    <3>1. /\ phase' = "slow" /\ pcb' = At(active, 1) /\ prev' = NULL /\ done' = {}
          /\ active' = active /\ changed' = changed
      BY <1>4, <2>5 DEF FastEnd, First, WalkInv
    <3>2. WalkAt(0, 1)'
      <4>1. At(active, 0) = NULL
        BY <1>0 DEF At
      <4>. QED
        BY <3>1, <4>1 DEF WalkAt
    <3>3. WalkInv'
      BY <1>0, <1>1, <3>1, <3>2 DEF WalkInv, InSlow
    <3>. QED
      BY <2>3, <3>3
  <2>. QED
    BY <2>3, <2>4, <2>5
<1>5. ASSUME NEW again \in BOOLEAN, FastBack(again) PROVE IInv'
  <2>1. active' = active /\ tw' = tw /\ pcbs' \in {pcbs, [pcbs EXCEPT ![pcb].refused = TRUE]}
    BY <1>5 DEF FastBack
  <2>2. \A p \in Pcbs : /\ [pcbs[p] EXCEPT !.refused = TRUE] \in Pcb
                        /\ [pcbs[p] EXCEPT !.refused = TRUE].state = pcbs[p].state
    BY <1>0 DEF Pcb
  <2>3. pcbs' \in [Pcbs -> Pcb] /\ \A p \in Pcbs : pcbs'[p].state = pcbs[p].state
    BY <1>0, <2>1, <2>2
  <2>4. ListsInv'
    BY <2>1, <2>3, SameStates
  <2>5. WalkInv'
    BY <1>1, <1>5 DEF FastBack, WalkInv, InSlow, First, After
  <2>. QED
    BY <2>4, <2>5
<1>. QED
  BY <1>2, <1>3, <1>4, <1>5

(* tcp_slowtmr takes a pcb from the list by way of prev.                   *)
LEMMA SlowLookSafe ==
  ASSUME IInv, NEW poll \in BOOLEAN, SlowLook(poll)
  PROVE  IInv'
<1>. USE DEF IInv
<1>0. /\ pcbs \in [Pcbs -> Pcb] /\ \A p \in Pcbs : pcbs[p] \in Pcb
      /\ active \in Seq(Pcbs) /\ IsInjective(active) /\ Len(active) \in Nat
      /\ DOMAIN active = 1 .. Len(active) /\ Range(active) \subseteq Active
      /\ CallbacksChange = FALSE => Active \subseteq Range(active)
  BY DEF ListsInv, ActiveInv
<1>1. PICK i \in 0 .. Len(active), j \in 1 .. Len(active) + 1 : WalkAt(i, j)
  <2>1. InSlow
    BY DEF SlowLook, InSlow
  <2>. QED
    BY <2>1 DEF WalkInv
<1>2. /\ j \in i + 1 .. Len(active) /\ pcb = active[j] /\ pcb \in Pcbs
      /\ pcb \in Range(active) /\ pcb \in Active
  <2>1. j \in DOMAIN active /\ pcb = active[j]
    BY <1>1 DEF SlowLook, WalkAt, At
  <2>2. pcb \in Range(active)
    BY <2>1 DEF Range
  <2>. QED
    BY <1>0, <1>1, <2>1, <2>2 DEF WalkAt, Active
<1>3. Place(active, pcb) = j
  BY <1>0, <1>2, PlaceIs
<1>4. Place(active, prev) = i
  <2>1. CASE i = 0
    <3>1. prev = NULL
      BY <1>0, <1>1, <2>1 DEF WalkAt, At
    <3>. QED
      BY <2>1, <3>1 DEF Place
  <2>2. CASE i # 0
    <3>1. i \in DOMAIN active /\ prev = active[i]
      BY <1>0, <1>1, <2>2 DEF WalkAt, At
    <3>. QED
      BY <1>0, <3>1, PlaceIs
  <2>. QED
    BY <2>1, <2>2
<1>5. pcb' = At(active, j + 1) /\ done' = done \cup {pcb} /\ tw' = tw /\ changed' = FALSE
  BY <1>3 DEF SlowLook, After
<1>6. At(active, j + 1) \in Pcbs \cup {NULL}
  BY <1>0, AtIsPcb
<1>7. CallbacksChange = FALSE =>
        j = i + 1 /\ pcb \notin done /\ \A k \in j + 1 .. Len(active) : active[k] \notin done'
  <2>1. \A k \in j + 1 .. Len(active) : active[k] # pcb
    BY <1>0, <1>2 DEF IsInjective
  <2>. QED
    BY <1>0, <1>1, <1>2, <1>5, <2>1 DEF WalkAt
<1>8. CASE /\ pcb \in done /\ UNCHANGED <<pcbs, active, prev, phase>>
  <2>1. ListsInv'
    BY <1>0, <1>5, <1>8, SameStates
  <2>2. WalkAt(i, j + 1)'
    BY <1>1, <1>2, <1>5, <1>7, <1>8 DEF WalkAt
  <2>3. WalkInv'
    <3>1. j + 1 \in 1 .. Len(active) + 1 /\ phase = "slow"
      BY <1>0, <1>2 DEF SlowLook
    <3>2. \E a \in 0 .. Len(active'), b \in 1 .. Len(active') + 1 : WalkAt(a, b)'
      BY <1>8, <2>2, <3>1
    <3>. QED
      BY <1>5, <1>6, <1>8, <3>1, <3>2 DEF WalkInv
  <2>. QED
    BY <2>1, <2>3
<1>9. CASE /\ pcbs' = [pcbs EXCEPT ![pcb] = Free]
           /\ active' = Cut(active, Place(active, prev), Place(active, pcb))
           /\ phase' = "slow_callback" /\ UNCHANGED prev
  <2>. DEFINE t == Cut(active, i, j)
  <2>1. active' = t
    BY <1>3, <1>4, <1>9
  <2>2. /\ t \in Seq(Pcbs) /\ Len(t) = Len(active) - (j - i)
        /\ \A k \in 1 .. Len(active) - (j - i) :
             t[k] = IF k <= i THEN active[k] ELSE active[k + (j - i)]
        /\ IsInjective(t)
        /\ Range(t) = Range(active) \ {active[k] : k \in i + 1 .. j}
    BY <1>0, <1>2, CutOut
  <2>. HIDE DEF t
  <2>3. pcbs' \in [Pcbs -> Pcb] /\ Active' = Active \ {pcb} /\ Waiting' = Waiting
    <3>1. Free \in Pcb /\ Free.state \notin Lives /\ Free.state # "TIME_WAIT"
      BY FreeIsPcb DEF Lives, Opening
    <3>2. /\ pcbs' \in [Pcbs -> Pcb] /\ Active' = Active \ {pcb}
          /\ Waiting' = Waiting \ {pcb}
      BY <1>2, <1>9, <3>1, StatesBecome
    <3>3. pcb \notin Waiting
      BY <1>2 DEF Active
    <3>. QED
      BY <3>2, <3>3
  <2>4. pcb \in {active[k] : k \in i + 1 .. j}
    BY <1>2
  <2>5. CallbacksChange = FALSE => {active[k] : k \in i + 1 .. j} = {pcb}
    BY <1>1, <1>2, <1>7
  <2>6. ActiveInv'
    BY <1>0, <2>1, <2>2, <2>3, <2>4, <2>5 DEF ActiveInv
  <2>7. ListsInv'
    BY <1>5, <2>3, <2>6 DEF ListsInv, TwInv
  <2>8. At(t, i) = At(active, i) /\ At(t, i + 1) = At(active, j + 1)
    <3>1. DOMAIN t = 1 .. Len(active) - (j - i) /\ i \in Nat /\ j \in Nat
      BY <1>2, <2>2
    <3>2. i \in DOMAIN t <=> i \in DOMAIN active
      BY <1>0, <1>1, <1>2, <3>1
    <3>3. i + 1 \in DOMAIN t <=> j + 1 \in DOMAIN active
      BY <1>0, <1>1, <1>2, <3>1
    <3>4. i \in DOMAIN t => t[i] = active[i]
      BY <2>2, <3>1
    <3>5. i + 1 \in DOMAIN t => t[i + 1] = active[j + 1]
      <4>1. ~(i + 1 <= i) /\ (i + 1) + (j - i) = j + 1
        BY <3>1
      <4>. QED
        BY <2>2, <3>1, <4>1
    <3>. QED
      BY <3>2, <3>3, <3>4, <3>5 DEF At
  <2>9. CallbacksChange = FALSE => \A k \in i + 1 .. Len(t) : t[k] \notin done'
    <3>. SUFFICES ASSUME CallbacksChange = FALSE, NEW k \in i + 1 .. Len(t)
                  PROVE  t[k] \notin done'
      OBVIOUS
    <3>1. j = i + 1 /\ i \in Nat
      BY <1>1, <1>7
    <3>2. k \in 1 .. Len(active) - (j - i) /\ ~(k <= i) /\ k + (j - i) = k + 1
      BY <1>0, <2>2, <3>1
    <3>3. t[k] = active[k + 1] /\ k + 1 \in j + 1 .. Len(active)
      BY <1>0, <2>2, <3>1, <3>2
    <3>. QED
      BY <1>7, <3>3
  <2>10. WalkAt(i, i + 1)'
    <3>1. prev' = At(t, i) /\ pcb' = At(t, i + 1) /\ i < i + 1
      BY <1>1, <1>5, <1>9, <2>8 DEF WalkAt
    <3>. QED
      BY <2>1, <2>9, <3>1 DEF WalkAt
  <2>11. i \in 0 .. Len(t) /\ i + 1 \in 1 .. Len(t) + 1
    BY <1>0, <1>1, <1>2, <2>2
  <2>12. \E a \in 0 .. Len(active'), b \in 1 .. Len(active') + 1 : WalkAt(a, b)'
    BY <2>1, <2>10, <2>11
  <2>13. WalkInv'
    BY <1>5, <1>6, <1>9, <2>12 DEF WalkInv, InSlow
  <2>. QED
    BY <2>7, <2>13
<1>10. CASE /\ pcbs' = [pcbs EXCEPT ![pcb] = Retransmitted(@)]
            /\ prev' = pcb /\ phase' = IF poll THEN "slow_callback" ELSE "slow"
            /\ UNCHANGED active
  <2>1. ASSUME NEW n \in Pcb
        PROVE  Retransmitted(n) \in Pcb /\ Retransmitted(n).state = n.state
    <3>1. n.nrtx \in 0 .. RtxModulus - 1
      BY DEF Pcb
    <3>2. (n.nrtx + 1) % RtxModulus \in 0 .. RtxModulus - 1
      BY <3>1, CountedIs
    <3>. QED
      BY <3>2 DEF Retransmitted, Pcb
  <2>2. pcbs' \in [Pcbs -> Pcb] /\ \A p \in Pcbs : pcbs'[p].state = pcbs[p].state
    BY <1>0, <1>2, <1>10, <2>1
  <2>3. ListsInv'
    BY <1>5, <1>10, <2>2, SameStates
  <2>4. pcb = At(active, j)
    BY <1>1 DEF WalkAt
  <2>5. WalkAt(j, j + 1)'
    BY <1>2, <1>5, <1>7, <1>10, <2>4 DEF WalkAt
  <2>6. j \in 0 .. Len(active) /\ j + 1 \in 1 .. Len(active) + 1
    BY <1>0, <1>1, <1>2
  <2>7. WalkInv'
    BY <1>5, <1>6, <1>10, <2>5, <2>6 DEF WalkInv, InSlow
  <2>. QED
    BY <2>3, <2>7
<1>. QED
  BY <1>8, <1>9, <1>10 DEF SlowLook

LEMMA SlowBackSafe ==
  ASSUME IInv, SlowBack
  PROVE  IInv'
<1>1. ListsInv /\ active \in Seq(Pcbs) /\ pcbs \in [Pcbs -> Pcb] /\ Len(active) \in Nat
  BY DEF IInv, ListsInv, ActiveInv
<1>2. ListsInv'
  BY <1>1, SameStates DEF SlowBack
<1>3. CASE changed
  <2>1. /\ CallbacksChange # FALSE /\ pcb' = At(active, 1) /\ prev' = NULL
        /\ active' = active /\ phase' = "slow" /\ changed' = FALSE
    BY <1>3 DEF SlowBack, First, IInv, WalkInv
  <2>2. At(active, 0) = NULL /\ At(active, 1) \in Pcbs \cup {NULL}
    BY <1>1, AtIsPcb DEF At
  <2>3. WalkAt(0, 1)'
    <3>1. prev' = At(active', 0) /\ pcb' = At(active', 1) /\ 0 < 1
      BY <2>1, <2>2
    <3>2. ~(CallbacksChange = FALSE)
      BY <2>1
    <3>. QED
      BY <3>1, <3>2 DEF WalkAt
  <2>4. \E a \in 0 .. Len(active'), b \in 1 .. Len(active') + 1 : WalkAt(a, b)'
    BY <1>1, <2>1, <2>3
  <2>5. WalkInv'
    BY <2>1, <2>2, <2>4 DEF WalkInv
  <2>. QED
    BY <1>2, <2>5 DEF IInv
<1>4. CASE ~changed
  <2>1. InSlow /\ UNCHANGED <<pcb, prev, active, done>> /\ phase' = "slow" /\ changed' = FALSE
    BY <1>4 DEF SlowBack, InSlow
  <2>2. PICK i \in 0 .. Len(active), j \in 1 .. Len(active) + 1 : WalkAt(i, j)
    BY <2>1 DEF IInv, WalkInv
  <2>3. WalkAt(i, j)'
    BY <2>1, <2>2 DEF WalkAt
  <2>4. WalkInv'
    BY <2>1, <2>3 DEF IInv, WalkInv, InSlow
  <2>. QED
    BY <1>2, <2>4 DEF IInv
<1>. QED
  BY <1>3, <1>4 DEF SlowBack, IInv, WalkInv

LEMMA TimeWaitOverSafe ==
  ASSUME IInv, TimeWaitOver
  PROVE  IInv'
<1>1. PICK i \in Over :
        /\ pcbs' = [pcbs EXCEPT ![tw[i]] = Free]
        /\ tw' = Cut(tw, i - 1, i)
  BY DEF TimeWaitOver
<1>2. /\ tw \in Seq(Pcbs) /\ IsInjective(tw) /\ Range(tw) = Waiting
      /\ i \in 1 .. Len(tw) /\ Len(tw) \in Nat
  BY DEF IInv, ListsInv, TwInv, Over
<1>3. tw[i] \in Pcbs /\ tw[i] \in Waiting /\ tw[i] \notin Active
  BY <1>2 DEF Range, Active
<1>4. pcbs' \in [Pcbs -> Pcb] /\ Active' = Active /\ Waiting' = Waiting \ {tw[i]}
  <2>1. Free \in Pcb /\ Free.state \notin Lives /\ Free.state # "TIME_WAIT"
    BY FreeIsPcb DEF Lives, Opening
  <2>2. /\ pcbs' \in [Pcbs -> Pcb] /\ Active' = Active \ {tw[i]}
        /\ Waiting' = Waiting \ {tw[i]}
    BY <1>1, <1>3, <2>1, StatesBecome DEF IInv
  <2>. QED
    BY <1>3, <2>2
<1>5. i - 1 \in 0 .. Len(tw) /\ i \in (i - 1) + 1 .. Len(tw) /\ (i - 1) + 1 .. i = {i}
  BY <1>2
<1>6. /\ tw' \in Seq(Pcbs) /\ IsInjective(tw')
      /\ Range(tw') = Range(tw) \ {tw[k] : k \in (i - 1) + 1 .. i}
  BY <1>1, <1>2, <1>5, CutOut
<1>7. Range(tw') = Range(tw) \ {tw[i]}
  BY <1>5, <1>6
<1>8. active' = active /\ UNCHANGED <<walk, changed>>
  BY DEF TimeWaitOver
<1>9. ListsInv'
  BY <1>2, <1>4, <1>6, <1>7, <1>8 DEF IInv, ListsInv, ActiveInv, TwInv
<1>10. WalkInv'
  BY <1>8, WalkStepSafe DEF WalkStep, IInv
<1>. QED
  BY <1>9, <1>10 DEF IInv

LEMMA SlowEndSafe ==
  ASSUME IInv, SlowEnd
  PROVE  IInv'
<1>1. ListsInv'
  BY SameStates DEF SlowEnd, IInv, ListsInv
<1>2. WalkInv'
  BY DEF SlowEnd, IInv, WalkInv, InSlow
<1>. QED
  BY <1>1, <1>2 DEF IInv

-----------------------------------------------------------------------------
LEMMA Starts == Init => IInv
<1>. SUFFICES ASSUME Init PROVE IInv
  OBVIOUS
<1>1. pcbs \in [Pcbs -> Pcb] /\ Active = {} /\ Waiting = {}
  BY FreeIsPcb DEF Init, Active, Waiting, Unused, State
<1>2. <<>> \in Seq(Pcbs) /\ IsInjective(<<>>) /\ Range(<<>>) = {}
  BY DEF IsInjective, Range
<1>3. ListsInv
  BY <1>1, <1>2 DEF Init, ListsInv, ActiveInv, TwInv
<1>4. WalkInv
  BY DEF Init, WalkInv, InSlow
<1>. QED
  BY <1>3, <1>4 DEF IInv

LEMMA Keeps == IInv /\ [Next]_vars => IInv'
<1>. SUFFICES ASSUME IInv, [Next]_vars PROVE IInv'
  OBVIOUS
<1>1. CASE App \/ Input
  <2>1. ListStep /\ WalkStep
    BY <1>1, AppSteps, InputSteps DEF Steps
  <2>. QED
    BY <2>1, ListStepSafe, WalkStepSafe DEF IInv
<1>2. CASE Timer
  <2>1. CASE TcpTmr \/ FastLook \/ FastEnd \/ \E again \in BOOLEAN : FastBack(again)
    BY <2>1, FastSafe
  <2>2. ASSUME NEW poll \in BOOLEAN, SlowLook(poll) PROVE IInv'
    BY <2>2, SlowLookSafe
  <2>. QED
    BY <1>2, <2>1, <2>2, SlowBackSafe, TimeWaitOverSafe, SlowEndSafe DEF Timer
<1>3. CASE UNCHANGED vars
  <2>1. ListsInv'
    BY <1>3, SameStates DEF vars, IInv, ListsInv
  <2>2. WalkInv'
    BY <1>3, WalkStepSafe DEF vars, walk, WalkStep, IInv
  <2>. QED
    BY <2>1, <2>2 DEF IInv
<1>. QED
  BY <1>1, <1>2, <1>3 DEF Next

(* A connection is on the list of its state and on no other, once, after   *)
(* any sequence of segments, calls and timers, if no callback of the       *)
(* timers opens or ends a connection.  Without this it is false: that is   *)
(* the deviation of tcp_slowtmr that the runs show.                        *)
THEOREM ListsAreSound ==
  ASSUME CallbacksChange = FALSE
  PROVE  Spec => []ListsSound
<1>1. IInv => ListsSound
  BY DEF IInv, ListsInv, ActiveInv, TwInv, ListsSound
<1>. QED
  BY <1>1, Starts, Keeps, PTL DEF Spec

LEMMA StepSpares ==
  ASSUME IInv, [Next]_vars, NEW p \in Active,
         State(p)' \in Opening, State(p)' # State(p)
  PROVE  Unused = {} /\ tw = <<>>
<1>0. pcbs \in [Pcbs -> Pcb] /\ p \in Pcbs
  BY DEF IInv, ListsInv, Active
<1>1. CASE App \/ Input
  <2>1. PICK q \in Pcbs :
          \/ Lost(q) \/ Waits(q)
          \/ \E n \in Pcb : \/ GoesOn(q, n) \/ Refreshed(q, n)
                            \/ \E ok \in BOOLEAN : Opened(q, n, ok)
    BY <1>1, AppSteps, InputSteps DEF Steps, ListStep
  <2>2. PICK n \in Pcb : pcbs' = [pcbs EXCEPT ![q] = n] /\
          \/ n.state \notin Opening \/ n.state = State(q) \/ q \in Allocated
    <3>1. CASE Lost(q)
      BY <3>1, FreeIsPcb DEF Lost, Gone, Opening
    <3>2. CASE Waits(q)
      BY <3>2, FreeIsPcb DEF Waits, ToTimeWait, Opening
    <3>. QED
      BY <2>1, <3>1, <3>2 DEF GoesOn, Refreshed, Opened, Opening
  <2>3. q = p /\ n.state \in Opening /\ n.state # State(p)
    BY <1>0, <2>2 DEF State
  <2>. QED
    BY <2>2, <2>3, AllocatedFrom DEF IInv
<1>2. ASSUME pcbs' \in [Pcbs -> Pcb], \/ pcbs'[p].state = pcbs[p].state
                                      \/ pcbs'[p].state \notin Opening
      PROVE  FALSE
  BY <1>2 DEF State
<1>3. \A n \in Pcb : Retransmitted(n).state = n.state /\ Aged(n).state = n.state
  BY DEF Retransmitted, Aged, Pcb
<1>4. Free.state \notin Opening
  BY FreeIsPcb DEF Opening
<1>5. CASE Timer
  <2>1. \/ pcbs'[p].state = pcbs[p].state
        \/ pcbs'[p].state \notin Opening
    <3>1. CASE TcpTmr \/ SlowBack \/ SlowEnd
      BY <3>1 DEF TcpTmr, SlowBack, SlowEnd
    <3>2. CASE FastLook \/ \E again \in BOOLEAN : FastBack(again)
      <4>1. /\ [pcbs[p] EXCEPT !.refused = FALSE].state = pcbs[p].state
            /\ [pcbs[p] EXCEPT !.refused = TRUE].state = pcbs[p].state
        BY <1>0 DEF Pcb
      <4>2. pcbs' \in {pcbs, [pcbs EXCEPT ![pcb].refused = FALSE],
                       [pcbs EXCEPT ![pcb].refused = TRUE]}
        BY <3>2 DEF FastLook, FastBack
      <4>3. pcbs'[p] \in {pcbs[p], [pcbs[p] EXCEPT !.refused = FALSE],
                          [pcbs[p] EXCEPT !.refused = TRUE]}
        BY <1>0, <4>2
      <4>. QED
        BY <4>1, <4>3
    <3>3. CASE FastEnd
      <4>1. pcbs'[p] \in {pcbs[p], Aged(pcbs[p])}
        BY <1>0, <3>3 DEF FastEnd
      <4>. QED
        BY <1>0, <1>3, <4>1
    <3>4. ASSUME NEW poll \in BOOLEAN, SlowLook(poll)
          PROVE  \/ pcbs'[p].state = pcbs[p].state
                 \/ pcbs'[p].state \notin Opening
      <4>1. pcbs' \in {pcbs, [pcbs EXCEPT ![pcb] = Free],
                       [pcbs EXCEPT ![pcb] = Retransmitted(@)]}
        BY <3>4 DEF SlowLook
      <4>2. pcbs'[p] \in {pcbs[p], Free, Retransmitted(pcbs[p])}
        BY <1>0, <4>1
      <4>. QED
        BY <1>0, <1>3, <1>4, <4>2
    <3>5. CASE TimeWaitOver
      <4>1. pcbs'[p] \in {pcbs[p], Free}
        BY <1>0, <3>5 DEF TimeWaitOver
      <4>. QED
        BY <1>4, <4>1
    <3>. QED
      BY <1>5, <3>1, <3>2, <3>3, <3>4, <3>5 DEF Timer
  <2>. QED
    BY <2>1 DEF State
<1>6. CASE UNCHANGED vars
  BY <1>6 DEF vars, State
<1>. QED
  BY <1>1, <1>5, <1>6 DEF Next

(* Whatever callbacks do, tcp_alloc ends a connection that lives only when *)
(* no pcb is free and none in TIME-WAIT.                                   *)
THEOREM ActiveAreSpared == Spec => SparesActive
<1>1. IInv /\ [Next]_vars =>
        [\A p \in Active :
           State(p)' \in {"SYN_SENT", "SYN_RCVD"} /\ State(p)' # State(p)
             => Unused = {} /\ tw = <<>>]_vars
  BY StepSpares DEF Opening
<1>. QED
  BY <1>1, Starts, Keeps, PTL DEF Spec, SparesActive
=============================================================================

----------------------------- MODULE PbufProofs -----------------------------
(***************************************************************************)
(* Proofs about the packet buffers, for a pool, buffers, headers and       *)
(* packets of any sizes and any number of users.                           *)
(***************************************************************************)
EXTENDS Pbuf, FiniteSetTheorems, WellFoundedInduction, TLAPS

Links == [Pbufs -> Pbufs \cup {NULL}]

LEMMA NullIs == NULL \notin Pbufs
BY DEF NULL, Pbufs

(* A set of naturals that is not empty has a least element.                *)
LEMMA LeastNatural ==
  ASSUME NEW S, S \subseteq Nat, S # {}
  PROVE  \E k \in S : \A j \in S : k <= j
<1>. DEFINE LT == {ss \in Nat \X Nat : ss[1] < ss[2]}
<1>1. IsWellFoundedOn(LT, Nat)
  BY NatLessThanWellFounded, Zenon DEF OpToRel
<1>2. PICK k \in S : \A j \in S : ~ (<<j, k>> \in LT)
  <2>. HIDE DEF LT
  <2>. QED
    BY <1>1, WFMin
<1>3. ASSUME NEW j \in S PROVE k <= j
  <2>1. j \in Nat /\ k \in Nat /\ <<j, k>> \notin LT
    BY <1>2
  <2>2. ASSUME j < k PROVE <<j, k>> \in LT
    <3>1. <<j, k>> \in Nat \X Nat /\ <<j, k>>[1] = j /\ <<j, k>>[2] = k
      BY <2>1
    <3>. QED
      BY <2>2, <3>1
  <2>. QED
    BY <2>1, <2>2
<1>. QED
  BY <1>3

-----------------------------------------------------------------------------
(* What is reached along links is the least set that they do not lead out  *)
(* of.                                                                     *)

LEMMA ReachSound ==
  ASSUME NEW nx, NEW p, NEW S
  PROVE  /\ Reach(nx, p, S) \subseteq Pbufs
         /\ p \in Pbufs => p \in Reach(nx, p, S)
         /\ \A r \in Reach(nx, p, S) \cap S :
              nx[r] \in Pbufs => nx[r] \in Reach(nx, p, S)
<1>1. p \in Pbufs => p \in Reach(nx, p, S)
  BY NullIs DEF Reach
<1>2. ASSUME NEW r \in Reach(nx, p, S), r \in S, nx[r] \in Pbufs
      PROVE  nx[r] \in Reach(nx, p, S)
  <2>. SUFFICES ASSUME NEW R \in SUBSET Pbufs, p \in R \cup {NULL},
                       \A q \in R \cap S : nx[q] \in R \cup {NULL}
                PROVE  nx[r] \in R
    BY <1>2 DEF Reach
  <2>1. r \in R
    BY DEF Reach
  <2>. QED
    BY <1>2, <2>1, NullIs
<1>. QED
  BY <1>1, <1>2 DEF Reach

LEMMA ReachLeast ==
  ASSUME NEW nx, NEW p, NEW S, NEW R \in SUBSET Pbufs, p \in R \cup {NULL},
         \A r \in R \cap S : nx[r] \in R \cup {NULL}
  PROVE  Reach(nx, p, S) \subseteq R
BY DEF Reach

LEMMA ChainSound ==
  ASSUME NEW nx \in Links, NEW p
  PROVE  /\ ChainIn(nx, p) \subseteq Pbufs
         /\ p \in Pbufs => p \in ChainIn(nx, p)
         /\ \A r \in ChainIn(nx, p) : nx[r] \in ChainIn(nx, p) \cup {NULL}
<1>. DEFINE C == Reach(nx, p, Pbufs)
<1>1. /\ C \subseteq Pbufs /\ (p \in Pbufs => p \in C)
      /\ \A r \in C \cap Pbufs : nx[r] \in Pbufs => nx[r] \in C
  BY ReachSound
<1>2. \A r \in Pbufs : nx[r] \in Pbufs \cup {NULL}
  BY DEF Links
<1>. HIDE DEF C
<1>3. /\ C \subseteq Pbufs /\ (p \in Pbufs => p \in C)
      /\ \A r \in C : nx[r] \in C \cup {NULL}
  BY <1>1, <1>2
<1>. QED
  BY <1>3 DEF ChainIn, C

LEMMA ChainLeast ==
  ASSUME NEW nx, NEW p, NEW R \in SUBSET Pbufs, p \in R \cup {NULL},
         \A r \in R : nx[r] \in R \cup {NULL}
  PROVE  ChainIn(nx, p) \subseteq R
BY ReachLeast DEF ChainIn

LEMMA NoneReached ==
  ASSUME NEW nx, NEW S
  PROVE  Reach(nx, NULL, S) = {} /\ ChainIn(nx, NULL) = {}
<1>. DEFINE R == {}
<1>1. \A T : R \in SUBSET Pbufs /\ NULL \in R \cup {NULL} /\ \A r \in R \cap T : nx[r] \in R
  OBVIOUS
<1>. QED
  BY <1>1 DEF Reach, ChainIn

LEMMA ReachInChain ==
  ASSUME NEW nx \in Links, NEW p, NEW S
  PROVE  Reach(nx, p, S) \subseteq ChainIn(nx, p)
<1>. DEFINE C == ChainIn(nx, p)
<1>1. C \in SUBSET Pbufs /\ \A r \in C : nx[r] \in C \cup {NULL}
  BY ChainSound
<1>2. CASE p \in Pbufs
  BY <1>1, <1>2, ChainSound, ReachLeast
<1>3. CASE p \notin Pbufs
  <2>1. p = NULL => Reach(nx, p, S) = {}
    BY NoneReached
  <2>2. p # NULL => \A R \in SUBSET Pbufs : p \notin R \cup {NULL}
    BY <1>3
  <2>3. p # NULL => Reach(nx, p, S) = Pbufs /\ ChainIn(nx, p) = Pbufs
    BY <2>2 DEF Reach, ChainIn
  <2>. QED
    BY <2>1, <2>3, ReachSound
<1>. QED
  BY <1>2, <1>3

(* A chain is its first pbuf and the chain of the next one.                *)
LEMMA ChainStep ==
  ASSUME NEW nx \in Links, NEW p \in Pbufs
  PROVE  ChainIn(nx, p) = {p} \cup ChainIn(nx, nx[p])
<1>. DEFINE C == ChainIn(nx, p)
            D == ChainIn(nx, nx[p])
<1>0. nx[p] \in Pbufs \cup {NULL}
  BY DEF Links
<1>1. /\ C \subseteq Pbufs /\ p \in C /\ \A r \in C : nx[r] \in C \cup {NULL}
      /\ D \subseteq Pbufs /\ (nx[p] \in Pbufs => nx[p] \in D)
      /\ \A r \in D : nx[r] \in D \cup {NULL}
  BY ChainSound
<1>2. D \subseteq C
  BY <1>1, ChainLeast
<1>3. C \subseteq {p} \cup D
  <2>1. \A r \in {p} \cup D : nx[r] \in ({p} \cup D) \cup {NULL}
    BY <1>0, <1>1
  <2>2. {p} \cup D \in SUBSET Pbufs
    BY <1>1
  <2>. HIDE DEF C, D
  <2>3. ChainIn(nx, p) \subseteq {p} \cup D
    BY <2>1, <2>2, ChainLeast
  <2>. QED
    BY <2>3 DEF C
<1>. QED
  BY <1>1, <1>2, <1>3

LEMMA ChainWithin ==
  ASSUME NEW nx \in Links, NEW p, NEW q \in ChainIn(nx, p)
  PROVE  ChainIn(nx, q) \subseteq ChainIn(nx, p)
BY ChainSound, ChainLeast

(* Of two pbufs of a chain one is in the chain of the other.               *)
LEMMA Ordered ==
  ASSUME NEW nx \in Links, NEW p \in Pbufs,
         NEW q \in ChainIn(nx, p), NEW s \in ChainIn(nx, p)
  PROVE  s \in ChainIn(nx, q) \/ q \in ChainIn(nx, s)
<1>. DEFINE R == {r \in ChainIn(nx, p) : q \in ChainIn(nx, r) \/ r \in ChainIn(nx, q)}
<1>1. p \in R /\ R \in SUBSET Pbufs
  BY ChainSound
<1>2. ASSUME NEW r \in R PROVE nx[r] \in R \cup {NULL}
  <2>1. r \in Pbufs /\ nx[r] \in ChainIn(nx, p) \cup {NULL}
    BY <1>1, ChainSound
  <2>2. CASE r \in ChainIn(nx, q)
    BY <2>1, <2>2, ChainSound
  <2>3. CASE q \in ChainIn(nx, r) /\ q # r
    BY <2>1, <2>3, ChainStep
  <2>4. CASE q = r
    BY <2>1, <2>4, ChainSound
  <2>. QED
    BY <2>2, <2>3, <2>4
<1>3. ChainIn(nx, p) \subseteq R
  <2>. HIDE DEF R
  <2>. QED
    BY <1>1, <1>2, ChainLeast
<1>. QED
  BY <1>3

(* What is reached, but the first, is reached from another.                *)
LEMMA ReachedFrom ==
  ASSUME NEW nx \in Links, NEW p \in Pbufs, NEW S, NEW q \in Reach(nx, p, S), q # p
  PROVE  \E r \in Reach(nx, p, S) \cap S : nx[r] = q
<1>. DEFINE C == Reach(nx, p, S)
            R == {r \in C : r = p \/ \E s \in C \cap S : nx[s] = r}
<1>1. C \subseteq Pbufs /\ p \in C /\ \A r \in C \cap S : nx[r] \in C \cup {NULL}
  BY ReachSound DEF Links
<1>2. p \in R /\ R \in SUBSET Pbufs
  BY <1>1
<1>3. \A r \in R \cap S : nx[r] \in R \cup {NULL}
  BY <1>1
<1>4. C \subseteq R
  <2>. HIDE DEF R
  <2>. QED
    BY <1>2, <1>3, ReachLeast
<1>. QED
  BY <1>4

-----------------------------------------------------------------------------
(* Chains as pbuf.c builds them.                                           *)

Acyclic(nx) == \A q \in Pbufs : q \notin ChainIn(nx, nx[q])

(* No two pbufs lead to the same.                                          *)
OnePred(nx) == \A q, r \in Pbufs : nx[q] = nx[r] /\ nx[q] # NULL => q = r

Sound(nx) == nx \in Links /\ Acyclic(nx) /\ OnePred(nx)

(* Only pbufs in use lead on, and only to pbufs in use.                    *)
Within(nx, S) == \A q \in Pbufs : nx[q] # NULL => q \in S /\ nx[q] \in S

Led(nx, q) == \E r \in Pbufs : nx[r] = q

LEMMA FewerLinks ==
  ASSUME NEW nx, NEW ny \in Links, Sound(nx),
         \A q \in Pbufs : ny[q] = nx[q] \/ ny[q] = NULL
  PROVE  Sound(ny)
<1>1. OnePred(ny)
  BY DEF Sound, OnePred
<1>2. ASSUME NEW q \in Pbufs, q \in ChainIn(ny, ny[q]) PROVE FALSE
  <2>. DEFINE R == ChainIn(nx, nx[q])
  <2>1. /\ R \in SUBSET Pbufs /\ \A r \in R : nx[r] \in R \cup {NULL}
        /\ nx[q] \in Pbufs => nx[q] \in R
    BY ChainSound DEF Sound
  <2>2. nx[q] \in Pbufs \cup {NULL}
    BY DEF Sound, Links
  <2>3. q \notin R
    BY DEF Sound, Acyclic
  <2>. HIDE DEF R
  <2>4. ChainIn(ny, ny[q]) \subseteq R
    BY <2>1, <2>2, ChainLeast
  <2>. QED
    BY <1>2, <2>3, <2>4
<1>. QED
  BY <1>1, <1>2 DEF Sound, Acyclic

(* A chain ends.                                                           *)
LEMMA EndOfChain ==
  ASSUME SizesAssumption, NEW nx, Sound(nx), NEW p \in Pbufs
  PROVE  \E q \in ChainIn(nx, p) : nx[q] = NULL
<1>. SUFFICES ASSUME \A q \in ChainIn(nx, p) : nx[q] # NULL PROVE FALSE
  OBVIOUS
<1>. DEFINE card(q) == Cardinality(ChainIn(nx, q))
            N == {card(q) : q \in ChainIn(nx, p)}
<1>0. nx \in Links
  BY DEF Sound
<1>1. IsFiniteSet(Pbufs)
  BY FS_Interval DEF Pbufs, SizesAssumption
<1>2. \A q : IsFiniteSet(ChainIn(nx, q)) /\ card(q) \in Nat
  BY <1>0, <1>1, ChainSound, FS_Subset, FS_CardinalityType
<1>3. PICK k \in N : \A j \in N : k <= j
  <2>1. N \subseteq Nat /\ N # {}
    BY <1>0, <1>2, ChainSound
  <2>. HIDE DEF N
  <2>. QED
    BY <2>1, LeastNatural
<1>4. PICK q \in ChainIn(nx, p) : k = card(q)
  BY <1>3
<1>5. q \in Pbufs /\ nx[q] \in ChainIn(nx, p)
  BY <1>0, ChainSound
<1>6. ChainIn(nx, nx[q]) = ChainIn(nx, q) \ {q} /\ q \in ChainIn(nx, q)
  BY <1>0, <1>5, ChainStep DEF Sound, Acyclic
<1>7. card(nx[q]) = card(q) - 1
  BY <1>2, <1>6, FS_RemoveElement
<1>8. card(q) <= card(nx[q])
  BY <1>3, <1>4, <1>5
<1>. QED
  <2>. HIDE DEF card
  <2>1. card(q) \in Nat
    BY <1>2
  <2>. QED
    BY <1>7, <1>8, <2>1

(* It ends once.                                                           *)
LEMMA SameEnd ==
  ASSUME NEW nx \in Links, NEW p \in Pbufs,
         NEW q \in ChainIn(nx, p), nx[q] = NULL, NEW r \in ChainIn(nx, p), nx[r] = NULL
  PROVE  q = r
<1>1. q \in Pbufs /\ r \in Pbufs
  BY ChainSound
<1>2. ChainIn(nx, q) = {q} /\ ChainIn(nx, r) = {r}
  BY <1>1, ChainStep, NoneReached
<1>. QED
  BY <1>2, Ordered

(* A chain is put behind another that has no pbuf in common with it.       *)
LEMMA Appended ==
  ASSUME NEW nx, Sound(nx), NEW h \in Pbufs, NEW t \in Pbufs,
         ChainIn(nx, h) \cap ChainIn(nx, t) = {}, ~Led(nx, t),
         NEW last \in ChainIn(nx, h), nx[last] = NULL
  PROVE  Sound([nx EXCEPT ![last] = t])
<1>. DEFINE ny == [nx EXCEPT ![last] = t]
            T == ChainIn(nx, t)
<1>0. nx \in Links /\ last \in Pbufs
  BY ChainSound DEF Sound
<1>1. /\ ny \in Links /\ ny[last] = t
      /\ \A q \in Pbufs \ {last} : ny[q] = nx[q]
      /\ \A q \in Pbufs : nx[q] \in Pbufs \cup {NULL}
  BY <1>0 DEF Links
<1>2. T \subseteq Pbufs /\ t \in T /\ (\A r \in T : nx[r] \in T \cup {NULL}) /\ last \notin T
  BY <1>0, ChainSound
<1>. HIDE DEF ny, T
<1>3. OnePred(ny)
  BY <1>0, <1>1 DEF Sound, OnePred, Led
<1>4. ASSUME NEW q \in Pbufs, q \in ChainIn(ny, ny[q]) PROVE FALSE
  <2>. DEFINE C == ChainIn(nx, nx[q])
  <2>1. /\ C \subseteq Pbufs /\ (\A r \in C : nx[r] \in C \cup {NULL}) /\ q \notin C
        /\ nx[q] \in C \cup {NULL}
    BY <1>0, <1>1, ChainSound DEF Sound, Acyclic
  <2>2. CASE q \in T
    <3>1. C \subseteq T
      <4>1. nx[q] \in T \cup {NULL}
        BY <1>2, <2>2
      <4>. QED
        BY <1>2, <4>1, ChainLeast
    <3>. HIDE DEF C
    <3>2. ny[q] \in C \cup {NULL} /\ \A r \in C : ny[r] \in C \cup {NULL}
      BY <1>1, <1>2, <2>1, <2>2, <3>1
    <3>3. ChainIn(ny, ny[q]) \subseteq C
      BY <2>1, <3>2, ChainLeast
    <3>. QED
      BY <1>4, <2>1, <3>3
  <2>3. CASE q \notin T
    <3>. HIDE DEF C
    <3>1. /\ C \cup T \in SUBSET Pbufs
          /\ ny[q] \in (C \cup T) \cup {NULL}
          /\ \A r \in C \cup T : ny[r] \in (C \cup T) \cup {NULL}
      BY <1>1, <1>2, <2>1
    <3>2. ChainIn(ny, ny[q]) \subseteq C \cup T
      BY <3>1, ChainLeast
    <3>. QED
      BY <1>4, <2>1, <2>3, <3>2
  <2>. QED
    BY <2>2, <2>3
<1>. QED
  BY <1>1, <1>3, <1>4 DEF Sound, Acyclic, ny

(* Nothing outside the chain of a pbuf that nothing leads to leads into it.*)
LEMMA IntoChain ==
  ASSUME NEW nx, Sound(nx), NEW h \in Pbufs, ~Led(nx, h), NEW q \in Pbufs,
         nx[q] \in ChainIn(nx, h)
  PROVE  q \in ChainIn(nx, h)
<1>1. nx \in Links /\ nx[q] # h /\ nx[q] # NULL
  BY NullIs, ChainSound DEF Sound, Led
<1>2. PICK r \in ChainIn(nx, h) : nx[r] = nx[q]
  BY <1>1, ReachedFrom DEF ChainIn
<1>3. r \in Pbufs
  BY <1>1, ChainSound
<1>. QED
  BY <1>1, <1>2, <1>3 DEF Sound, OnePred

-----------------------------------------------------------------------------
(* The invariant, in the parts that a step may disturb one by one.         *)

TypeInv ==
  /\ alloc \subseteq Pbufs
  /\ len \in [Pbufs -> Int] /\ tot \in [Pbufs -> Int] /\ room \in [Pbufs -> Int]
  /\ ref \in [Pbufs -> Nat] /\ owners \in [Pbufs -> Nat]

Degree(nx, q) == IF Led(nx, q) THEN 1 ELSE 0

CountInv ==
  \A q \in Pbufs : ref[q] = owners[q] + Degree(next, q) /\ (q \in alloc <=> ref[q] > 0)

TotsExact(nx, ln, tl) ==
  \A q \in alloc : tl[q] = ln[q] + (IF nx[q] = NULL THEN 0 ELSE tl[nx[q]])

Fits(ln) == \A q \in alloc : room[q] >= 0 /\ room[q] + ln[q] <= BufSize

IInv ==
  /\ TypeInv /\ Sound(next) /\ Within(next, alloc)
  /\ CountInv /\ TotLenExact /\ PayloadInside

LEMMA DegreeIs ==
  ASSUME NEW nx, Sound(nx), NEW S \in SUBSET Pbufs, Within(nx, S), NEW q \in Pbufs
  PROVE  Cardinality({r \in S : nx[r] = q}) = Degree(nx, q)
<1>. DEFINE P == {r \in S : nx[r] = q}
<1>1. CASE Led(nx, q)
  <2>1. PICK r \in Pbufs : nx[r] = q
    BY <1>1 DEF Led
  <2>2. P = {r}
    BY <2>1, NullIs DEF Sound, OnePred, Within
  <2>. QED
    BY <1>1, <2>2, FS_Singleton DEF Degree
<1>2. CASE ~Led(nx, q)
  <2>1. P = {}
    BY <1>2 DEF Led
  <2>. QED
    BY <1>2, <2>1, FS_EmptySet DEF Degree
<1>. QED
  BY <1>1, <1>2

(* pbuf_free(p) in a state in which one reference to p is given up, and    *)
(* all others are counted.                                                 *)
LEMMA FreeSafe ==
  ASSUME TypeInv, NEW nx, NEW ln, NEW tl, NEW own, NEW p \in Pbufs \cup {NULL},
         Sound(nx), Within(nx, alloc),
         ln \in [Pbufs -> Int], tl \in [Pbufs -> Int], own \in [Pbufs -> Nat],
         \A q \in Pbufs : /\ ref[q] = own[q] + Degree(nx, q) + (IF q = p THEN 1 ELSE 0)
                          /\ q \in alloc <=> ref[q] > 0,
         TotsExact(nx, ln, tl), Fits(ln),
         FreeIn(nx, ln, tl, ref, own, p)
  PROVE  IInv'
<1>. DEFINE last == {q \in Pbufs : ref[q] = 1}
            C == Reach(nx, p, last)
            dead == Dead(nx, ref, p)
            Given(q) == q = p \/ \E r \in dead : nx[r] = q
<1>0. /\ nx \in Links /\ \A q \in Pbufs : nx[q] \in Pbufs \cup {NULL}
      /\ \A q \in Pbufs : ref[q] \in Nat /\ own[q] \in Nat /\ Degree(nx, q) \in {0, 1}
  BY DEF Sound, Links, TypeInv, Degree
<1>1. /\ dead = C \cap last /\ C \subseteq Pbufs /\ dead \subseteq Pbufs
      /\ \A r \in dead : nx[r] \in Pbufs => nx[r] \in C
      /\ p \in Pbufs => p \in C
      /\ \A q \in dead : ref[q] = 1
      /\ \A q \in C : ref[q] = 1 => q \in dead
  BY ReachSound DEF Dead
<1>2. ASSUME NEW q \in dead, q # p
      PROVE  (\E r \in dead : nx[r] = q) /\ Led(nx, q) /\ own[q] = 0
  <2>1. p \in Pbufs
    <3>1. C # {}
      BY <1>1
    <3>. QED
      BY <3>1, NoneReached
  <2>2. PICK r \in C \cap last : nx[r] = q
    BY <1>0, <1>1, <1>2, <2>1, ReachedFrom
  <2>3. Led(nx, q)
    BY <2>2 DEF Led
  <2>4. ref[q] = 1 /\ Degree(nx, q) = 1
    BY <1>1, <2>3 DEF Degree
  <2>5. own[q] \in Nat /\ ref[q] = own[q] + Degree(nx, q)
    BY <1>0, <1>1, <1>2
  <2>6. own[q] = 0
    BY <2>4, <2>5
  <2>. QED
    BY <1>1, <2>2, <2>3, <2>6
<1>3. ASSUME p \in dead PROVE ~Led(nx, p) /\ own[p] = 0
  <2>1. p \in Pbufs /\ ref[p] = 1 /\ ref[p] = own[p] + Degree(nx, p) + 1
    BY <1>1, <1>3
  <2>2. Degree(nx, p) = 0 /\ own[p] = 0
    BY <1>0, <2>1
  <2>. QED
    BY <2>2 DEF Degree
<1>. HIDE DEF dead, C, last
<1>4. ASSUME NEW r \in Pbufs \ dead, nx[r] # NULL PROVE nx[r] \notin dead
  <2>1. CASE nx[r] = p
    BY <1>3, <2>1 DEF Led
  <2>2. CASE nx[r] # p
    BY <1>1, <1>2, <1>4, <2>2 DEF Sound, OnePred
  <2>. QED
    BY <2>1, <2>2
<1>5. ASSUME NEW r \in dead, nx[r] = p, p # NULL PROVE FALSE
  <2>1. p \in Pbufs /\ r \in ChainIn(nx, p)
    BY <1>0, <1>1, <1>5, ReachInChain DEF C
  <2>2. p \notin ChainIn(nx, nx[p])
    BY <2>1 DEF Sound, Acyclic
  <2>3. r # p /\ r \in ChainIn(nx, nx[p])
    BY <1>0, <1>5, <2>1, <2>2, ChainStep, ChainSound
  <2>. QED
    BY <1>0, <1>5, <2>1, <2>2, <2>3, ChainSound
<1>6. ASSUME NEW q \in Pbufs \ dead, Given(q) PROVE q \in alloc /\ ref[q] >= 2
  <2>1. q \in C /\ q \in alloc
    <3>1. CASE q = p
      BY <1>0, <1>1, <1>6, <3>1
    <3>2. CASE \E r \in dead : nx[r] = q
      BY <1>1, <3>2, NullIs DEF Within
    <3>. QED
      BY <1>6, <3>1, <3>2
  <2>. QED
    BY <1>0, <1>1, <2>1
<1>7. /\ alloc' = alloc \ dead /\ owners' = own
      /\ ref' = [q \in Pbufs |-> IF q \in dead THEN 0 ELSE IF Given(q) THEN ref[q] - 1
                                 ELSE ref[q]]
      /\ next' = [q \in Pbufs |-> IF q \in dead THEN NULL ELSE nx[q]]
      /\ len' = [q \in Pbufs |-> IF q \in dead THEN 0 ELSE ln[q]]
      /\ tot' = [q \in Pbufs |-> IF q \in dead THEN 0 ELSE tl[q]]
      /\ room' = [q \in Pbufs |-> IF q \in dead THEN 0 ELSE room[q]]
  BY DEF FreeIn, Drop, Clear, dead, NULL
<1>. HIDE DEF Given
<1>8. /\ next' \in Links
      /\ \A q \in dead : next'[q] = NULL
      /\ \A q \in Pbufs \ dead : next'[q] = nx[q]
      /\ \A q \in Pbufs \ dead : len'[q] = ln[q] /\ tot'[q] = tl[q] /\ room'[q] = room[q]
  BY <1>0, <1>1, <1>7 DEF Links
<1>9. TypeInv'
  <2>1. len' \in [Pbufs -> Int] /\ tot' \in [Pbufs -> Int] /\ room' \in [Pbufs -> Int]
    BY <1>7 DEF TypeInv
  <2>2. ref' \in [Pbufs -> Nat]
    BY <1>0, <1>6, <1>7
  <2>. QED
    BY <1>7, <2>1, <2>2 DEF TypeInv, Pbufs
<1>10. Sound(next')
  BY <1>1, <1>8, FewerLinks
<1>11. Within(next', alloc')
  BY <1>4, <1>7, <1>8 DEF Within
<1>12. ASSUME NEW q \in Pbufs
       PROVE  /\ ref'[q] = own[q] + Degree(next', q)
              /\ q \in alloc' <=> ref'[q] > 0
  <2>1. CASE q \in dead
    <3>1. ~Led(next', q)
      <4>. SUFFICES ASSUME NEW r \in Pbufs, next'[r] = q PROVE FALSE
        BY DEF Led
      <4>. QED
        BY <1>4, <1>8, <2>1, NullIs
    <3>2. own[q] = 0
      BY <1>2, <1>3, <2>1
    <3>3. ref'[q] = 0
      BY <1>7, <2>1
    <3>. QED
      BY <1>7, <2>1, <3>1, <3>2, <3>3 DEF Degree
  <2>2. CASE q \notin dead /\ q = p
    <3>1. Given(q) /\ ref'[q] = ref[q] - 1
      BY <1>7, <2>2 DEF Given
    <3>2. Led(next', q) <=> Led(nx, q)
      BY <1>5, <1>8, <2>2, NullIs DEF Led
    <3>. QED
      BY <1>0, <1>6, <1>7, <2>2, <3>1, <3>2 DEF Degree
  <2>3. CASE q \notin dead /\ q # p /\ \E r \in dead : nx[r] = q
    <3>1. Given(q) /\ ref'[q] = ref[q] - 1
      BY <1>7, <2>3 DEF Given
    <3>2. Led(nx, q) /\ ~Led(next', q)
      <4>1. PICK r \in dead : nx[r] = q
        BY <2>3
      <4>2. \A s \in Pbufs : nx[s] = q => s = r
        BY <1>1, <4>1, NullIs DEF Sound, OnePred
      <4>. QED
        BY <1>1, <1>8, <4>1, <4>2, NullIs DEF Led
    <3>. QED
      BY <1>0, <1>6, <1>7, <2>3, <3>1, <3>2 DEF Degree
  <2>4. CASE q \notin dead /\ ~Given(q)
    <3>1. ref'[q] = ref[q] /\ q # p
      BY <1>7, <2>4 DEF Given
    <3>2. Led(next', q) <=> Led(nx, q)
      BY <1>1, <1>8, <2>4, NullIs DEF Led, Given
    <3>. QED
      BY <1>0, <1>7, <2>4, <3>1, <3>2 DEF Degree
  <2>. QED
    BY <2>1, <2>2, <2>3, <2>4 DEF Given
<1>13. CountInv'
  BY <1>7, <1>12 DEF CountInv, Pbufs, Degree, Led
<1>14. ASSUME NEW q \in alloc'
       PROVE  /\ tot'[q] = len'[q] + (IF next'[q] = NULL THEN 0 ELSE tot'[next'[q]])
              /\ room'[q] >= 0 /\ room'[q] + len'[q] <= BufSize
  <2>1. q \in alloc /\ q \in Pbufs \ dead
    BY <1>7 DEF TypeInv
  <2>2. nx[q] # NULL => nx[q] \in Pbufs \ dead
    BY <1>0, <1>4, <2>1
  <2>. QED
    BY <1>8, <2>1, <2>2 DEF TotsExact, Fits
<1>. QED
  BY <1>9, <1>10, <1>11, <1>13, <1>14
     DEF IInv, TotLenExact, PayloadInside, NULL, Sound, Links, Acyclic, OnePred, Within,
         ChainIn, Reach, Pbufs

-----------------------------------------------------------------------------
LEMMA Starts ==
  ASSUME SizesAssumption
  PROVE  Init => IInv
<1>. SUFFICES ASSUME Init PROVE IInv
  OBVIOUS
<1>1. TypeInv /\ alloc = {} /\ next \in Links /\ \A q \in Pbufs : next[q] = NULL
  BY DEF Init, TypeInv, Links
<1>2. Sound(next)
  BY <1>1, NoneReached DEF Sound, Acyclic, OnePred
<1>3. \A q \in Pbufs : ~Led(next, q) /\ ref[q] = 0 /\ owners[q] = 0
  BY <1>1, NullIs DEF Led, Init
<1>4. CountInv
  BY <1>1, <1>3 DEF CountInv, Degree
<1>. QED
  BY <1>1, <1>2, <1>4 DEF IInv, Within, TotLenExact, PayloadInside

(* What every action starts from.                                          *)
LEMMA Given ==
  ASSUME IInv
  PROVE  /\ next \in Links /\ alloc \subseteq Pbufs
         /\ \A q \in Pbufs : /\ next[q] \in Pbufs \cup {NULL}
                             /\ ref[q] \in Nat /\ owners[q] \in Nat
                             /\ len[q] \in Int /\ tot[q] \in Int /\ room[q] \in Int
                             /\ ref[q] = owners[q] + Degree(next, q)
                             /\ q \in alloc <=> ref[q] > 0
         /\ \A q \in alloc :
              /\ next[q] # NULL => next[q] \in alloc
              /\ tot[q] = len[q] + (IF next[q] = NULL THEN 0 ELSE tot[next[q]])
              /\ room[q] >= 0 /\ room[q] + len[q] <= BufSize
         /\ \A q \in Pbufs : Degree(next, q) \in {0, 1}
<1>1. /\ next \in Links /\ alloc \subseteq Pbufs
      /\ \A q \in Pbufs : next[q] \in Pbufs \cup {NULL}
  BY DEF IInv, Sound, Links, TypeInv
<1>2. \A q \in Pbufs : /\ ref[q] \in Nat /\ owners[q] \in Nat
                       /\ len[q] \in Int /\ tot[q] \in Int /\ room[q] \in Int
                       /\ ref[q] = owners[q] + Degree(next, q)
                       /\ q \in alloc <=> ref[q] > 0
  BY DEF IInv, TypeInv, CountInv
<1>3. \A q \in alloc :
        /\ next[q] # NULL => next[q] \in alloc
        /\ tot[q] = len[q] + (IF next[q] = NULL THEN 0 ELSE tot[next[q]])
        /\ room[q] >= 0 /\ room[q] + len[q] <= BufSize
  BY <1>1 DEF IInv, Within, TotLenExact, PayloadInside
<1>. QED
  BY <1>1, <1>2, <1>3 DEF Degree

(* The chain of a pbuf in use is of pbufs in use.                          *)
LEMMA ChainInUse ==
  ASSUME IInv, NEW p \in alloc
  PROVE  Chain(p) \subseteq alloc /\ p \in Chain(p)
<1>1. Chain(p) \subseteq alloc
  BY Given, ChainLeast DEF Chain
<1>. QED
  BY <1>1, Given, ChainSound DEF Chain

LEMMA HeadIs ==
  ASSUME IInv, NEW p \in alloc, IsHead(p)
  PROVE  p \in Pbufs /\ ~Led(next, p) /\ owners[p] > 0
BY Given, NullIs DEF IsHead, Held, Preds, Led, IInv, Within

LEMMA RefSafe ==
  ASSUME IInv, NEW p \in alloc, Ref(p)
  PROVE  IInv'
<1>1. /\ p \in Pbufs
      /\ ref' = [ref EXCEPT ![p] = @ + 1] /\ owners' = [owners EXCEPT ![p] = @ + 1]
      /\ alloc' = alloc /\ next' = next /\ len' = len /\ tot' = tot /\ room' = room
  BY Given DEF Ref
<1>2. TypeInv'
  BY <1>1 DEF IInv, TypeInv, Pbufs
<1>3. CountInv'
  <2>. SUFFICES ASSUME NEW q \in Pbufs
                PROVE  ref'[q] = owners'[q] + Degree(next, q) /\ (q \in alloc <=> ref'[q] > 0)
    BY <1>1 DEF CountInv, Pbufs, Degree, Led
  <2>. QED
    BY <1>1, Given DEF IInv, TypeInv
<1>. QED
  BY <1>1, <1>2, <1>3
     DEF IInv, TotLenExact, PayloadInside, NULL, Sound, Links, Acyclic, OnePred, Within,
         ChainIn, Reach, Pbufs

LEMMA FreeKeeps ==
  ASSUME IInv, NEW p \in alloc, Free(p)
  PROVE  IInv'
<1>. DEFINE own == [owners EXCEPT ![p] = @ - 1]
<1>1. p \in Pbufs /\ owners[p] > 0 /\ FreeIn(next, len, tot, ref, own, p)
  BY Given DEF Free, Held
<1>2. /\ own \in [Pbufs -> Nat] /\ own[p] = owners[p] - 1
      /\ \A q \in Pbufs \ {p} : own[q] = owners[q]
  BY <1>1, Given DEF IInv, TypeInv
<1>. HIDE DEF own
<1>3. \A q \in Pbufs : /\ ref[q] = own[q] + Degree(next, q) + (IF q = p THEN 1 ELSE 0)
                       /\ q \in alloc <=> ref[q] > 0
  BY <1>1, <1>2, Given
<1>4. TotsExact(next, len, tot) /\ Fits(len)
  BY Given DEF TotsExact, Fits
<1>5. TypeInv /\ Sound(next) /\ Within(next, alloc)
      /\ len \in [Pbufs -> Int] /\ tot \in [Pbufs -> Int]
  BY DEF IInv, TypeInv
<1>. QED
  BY <1>1, <1>2, <1>3, <1>4, <1>5, FreeSafe

(* A link is cut: the pbuf it led to has one reference more than counted.  *)
LEMMA LinkCut ==
  ASSUME IInv, NEW p \in alloc
  PROVE  LET nx == [next EXCEPT ![p] = NULL]
         IN  /\ Sound(nx) /\ Within(nx, alloc)
             /\ \A q \in Pbufs : ref[q] = owners[q] + Degree(nx, q)
                                            + (IF q = next[p] THEN 1 ELSE 0)
<1>. DEFINE nx == [next EXCEPT ![p] = NULL]
<1>1. /\ p \in Pbufs /\ nx \in Links /\ nx[p] = NULL
      /\ \A q \in Pbufs \ {p} : nx[q] = next[q]
  BY Given DEF Links
<1>. HIDE DEF nx
<1>2. Sound(nx)
  BY <1>1, FewerLinks DEF IInv
<1>3. Within(nx, alloc)
  BY <1>1 DEF IInv, Within
<1>4. ASSUME NEW q \in Pbufs
      PROVE  ref[q] = owners[q] + Degree(nx, q) + (IF q = next[p] THEN 1 ELSE 0)
  <2>1. CASE q = next[p]
    <3>1. Led(next, q) /\ ~Led(nx, q)
      BY <1>1, <2>1, NullIs DEF Led, IInv, Sound, OnePred
    <3>. QED
      BY <2>1, <3>1, Given DEF Degree
  <2>2. CASE q # next[p]
    <3>1. Led(next, q) <=> Led(nx, q)
      BY <1>1, <2>2, NullIs DEF Led
    <3>. QED
      BY <2>2, <3>1, Given DEF Degree
  <2>. QED
    BY <2>1, <2>2
<1>. QED
  BY <1>2, <1>3, <1>4 DEF nx

LEMMA DechainSafe ==
  ASSUME IInv, NEW p \in alloc, Dechain(p)
  PROVE  IInv'
<1>. DEFINE t  == next[p]
            nx == [next EXCEPT ![p] = NULL]
            tl == [tot EXCEPT ![t] = tot[p] - len[p], ![p] = len[p]]
<1>1. /\ p \in Pbufs /\ ~Led(next, p) /\ t \in alloc /\ t \in Pbufs /\ t # p
      /\ FreeIn(nx, len, tl, ref, owners, t)
  BY HeadIs, Given DEF Dechain, Led
<1>2. /\ tl \in [Pbufs -> Int] /\ tl[p] = len[p] /\ tl[t] = tot[p] - len[p]
      /\ \A q \in Pbufs \ {p, t} : tl[q] = tot[q]
  BY <1>1, Given DEF IInv, TypeInv
<1>3. tot[p] = len[p] + tot[t] /\ tot[t] \in Int /\ len[p] \in Int
  BY <1>1, NullIs, Given
<1>. HIDE DEF tl
<1>4. /\ Sound(nx) /\ Within(nx, alloc)
      /\ \A q \in Pbufs : ref[q] = owners[q] + Degree(nx, q) + (IF q = t THEN 1 ELSE 0)
  BY LinkCut
<1>5. nx[p] = NULL /\ \A q \in Pbufs \ {p} : nx[q] = next[q]
  BY <1>1, Given DEF Links
<1>. HIDE DEF nx, t
<1>6. \A q \in Pbufs \ {p} : tl[q] = tot[q]
  BY <1>2, <1>3
<1>7. TotsExact(nx, len, tl)
  <2>. SUFFICES ASSUME NEW q \in alloc
                PROVE  tl[q] = len[q] + (IF nx[q] = NULL THEN 0 ELSE tl[nx[q]])
    BY DEF TotsExact
  <2>1. q \in Pbufs /\ next[q] # p /\ (next[q] # NULL => next[q] \in Pbufs)
    BY <1>1, Given DEF Led
  <2>2. CASE q = p
    BY <1>2, <1>3, <1>5, <2>2
  <2>3. CASE q # p
    BY <1>5, <1>6, <2>1, <2>3, Given
  <2>. QED
    BY <2>2, <2>3
<1>8. Fits(len) /\ \A q \in Pbufs : q \in alloc <=> ref[q] > 0
  BY Given DEF Fits
<1>9. TypeInv /\ len \in [Pbufs -> Int] /\ owners \in [Pbufs -> Nat]
  BY DEF IInv, TypeInv
<1>10. t \in Pbufs \cup {NULL}
  BY <1>1
<1>. QED
  BY <1>1, <1>2, <1>4, <1>7, <1>8, <1>9, <1>10, FreeSafe

LEMMA HeaderSafe ==
  ASSUME IInv, NEW p \in alloc, NEW inc \in Int, Header(p, inc)
  PROVE  IInv'
<1>1. /\ p \in Pbufs /\ ~Led(next, p)
      /\ len' = [len EXCEPT ![p] = @ + inc] /\ tot' = [tot EXCEPT ![p] = @ + inc]
      /\ room' = [room EXCEPT ![p] = @ - inc]
      /\ alloc' = alloc /\ next' = next /\ ref' = ref /\ owners' = owners
      /\ IF inc < 0 THEN - inc <= len[p] ELSE inc <= room[p]
  BY HeadIs DEF Header
<1>2. /\ len' \in [Pbufs -> Int] /\ tot' \in [Pbufs -> Int] /\ room' \in [Pbufs -> Int]
      /\ len'[p] = len[p] + inc /\ tot'[p] = tot[p] + inc /\ room'[p] = room[p] - inc
      /\ \A q \in Pbufs \ {p} : len'[q] = len[q] /\ tot'[q] = tot[q] /\ room'[q] = room[q]
  BY <1>1, Given DEF IInv, TypeInv
<1>3. TypeInv'
  BY <1>1, <1>2 DEF IInv, TypeInv, Pbufs
<1>4. ASSUME NEW q \in alloc
      PROVE  /\ tot'[q] = len'[q] + (IF next[q] = NULL THEN 0 ELSE tot'[next[q]])
             /\ room'[q] >= 0 /\ room'[q] + len'[q] <= BufSize
  <2>1. q \in Pbufs /\ next[q] # p
    BY <1>1, Given DEF Led
  <2>2. next[q] # NULL => next[q] \in Pbufs \ {p}
    BY <2>1, Given
  <2>. QED
    BY <1>1, <1>2, <2>1, <2>2, Given
<1>5. CountInv'
  BY <1>1 DEF IInv, CountInv, Degree, Led, Pbufs
<1>. QED
  BY <1>1, <1>3, <1>4, <1>5
     DEF IInv, TotLenExact, PayloadInside, NULL, Sound, Links, Acyclic, OnePred, Within,
         ChainIn, Reach, Pbufs

LEMMA ReallocSafe ==
  ASSUME SizesAssumption, IInv, NEW p \in alloc, Realloc(p)
  PROVE  IInv'
<1>1. p \in Pbufs /\ ~Led(next, p) /\ next \in Links /\ Sound(next)
  BY HeadIs, Given DEF Realloc, IInv
<1>20. PICK q \in Chain(p) : \E n \in 0 .. len[q] :
        FreeIn([next EXCEPT ![q] = NULL], [len EXCEPT ![q] = n],
               Shortened(p, q, n), ref, owners, next[q])
  BY DEF Realloc
<1>2. PICK n \in 0 .. len[q] :
        FreeIn([next EXCEPT ![q] = NULL], [len EXCEPT ![q] = n],
               Shortened(p, q, n), ref, owners, next[q])
  BY <1>20
<1>3. q \in alloc /\ q \in Pbufs /\ n \in Nat /\ n <= len[q]
  BY ChainInUse, Given
<1>. DEFINE nx == [next EXCEPT ![q] = NULL]
            ln == [len EXCEPT ![q] = n]
            tl == Shortened(p, q, n)
            P  == Chain(p)
            Q  == Chain(q)
<1>4. /\ nx[q] = NULL /\ \A r \in Pbufs \ {q} : nx[r] = next[r]
      /\ ln \in [Pbufs -> Int] /\ ln[q] = n /\ \A r \in Pbufs \ {q} : ln[r] = len[r]
  BY <1>3, Given DEF Links, IInv, TypeInv
<1>5. /\ tl[q] = n
      /\ \A r \in Pbufs \ {q} : r \in P /\ r \notin Q => tl[r] = tot[r] - (tot[q] - n)
      /\ \A r \in Pbufs \ {q} : r \notin P \/ r \in Q => tl[r] = tot[r]
  BY <1>3 DEF Shortened
<1>6. tl \in [Pbufs -> Int]
  <2>1. \A r \in Pbufs : (IF r = q THEN n ELSE IF r \in P /\ r \notin Q
                                             THEN tot[r] - (tot[q] - n) ELSE tot[r]) \in Int
    BY <1>3, Given
  <2>. QED
    BY <2>1 DEF Shortened
<1>7. /\ P \subseteq Pbufs /\ Q \subseteq P /\ q \in P /\ q \in Q
      /\ \A r \in P : next[r] \in P \cup {NULL}
      /\ \A r \in Q : next[r] \in Q \cup {NULL}
  BY <1>1, <1>3, ChainSound, ChainWithin DEF Chain
<1>8. /\ Sound(nx) /\ Within(nx, alloc)
      /\ \A r \in Pbufs : ref[r] = owners[r] + Degree(nx, r) + (IF r = next[q] THEN 1 ELSE 0)
  BY <1>3, LinkCut
<1>. HIDE DEF nx, ln, tl
<1>9. ASSUME NEW r \in P \ Q
      PROVE  next[r] = q \/ next[r] \in P \ Q
  <2>1. r \in Pbufs /\ r # q
    BY <1>7
  <2>2. q \in ChainIn(next, r)
    BY <1>1, <1>7, Ordered DEF Chain
  <2>3. q \in ChainIn(next, next[r])
    BY <1>1, <2>1, <2>2, ChainStep
  <2>4. next[r] \in P
    BY <1>7, <2>3, NoneReached
  <2>5. ASSUME next[r] \in Q, next[r] # q PROVE FALSE
    <3>1. PICK s \in Q : next[s] = next[r]
      BY <1>1, <1>3, <2>5, ReachedFrom DEF Chain, ChainIn
    <3>2. s = r
      BY <1>1, <1>7, <2>1, <2>4, <3>1, NullIs DEF Sound, OnePred
    <3>. QED
      BY <3>1, <3>2
  <2>. QED
    BY <2>4, <2>5
<1>10. ASSUME NEW r \in Q \ {q}
       PROVE  next[r] # q
  <2>1. r \in ChainIn(next, next[q]) /\ q \notin ChainIn(next, next[q])
    BY <1>1, <1>3, <1>10, ChainStep DEF Chain, Sound, Acyclic
  <2>. QED
    BY <1>1, <1>3, <2>1, NullIs, ChainSound
<1>11. ASSUME NEW r \in Pbufs, r \notin P
       PROVE  next[r] \notin P
  BY <1>1, <1>11, IntoChain DEF Chain
<1>12. TotsExact(nx, ln, tl)
  <2>. SUFFICES ASSUME NEW r \in alloc
                PROVE  tl[r] = ln[r] + (IF nx[r] = NULL THEN 0 ELSE tl[nx[r]])
    BY DEF TotsExact
  <2>1. /\ r \in Pbufs /\ next[r] \in Pbufs \cup {NULL}
        /\ tot[r] \in Int /\ len[r] \in Int /\ tot[q] \in Int
        /\ next[r] \in Pbufs => tot[next[r]] \in Int
        /\ tot[r] = len[r] + (IF next[r] = NULL THEN 0 ELSE tot[next[r]])
    BY <1>3, Given
  <2>. HIDE DEF P, Q
  <2>2. CASE r = q
    BY <1>3, <1>4, <1>5, <2>2
  <2>3. CASE r \in P \ Q
    <3>1. r # q /\ nx[r] = next[r] /\ ln[r] = len[r] /\ tl[r] = tot[r] - (tot[q] - n)
      BY <1>4, <1>5, <1>7, <2>1, <2>3
    <3>2. CASE next[r] = q
      BY <1>3, <1>5, <2>1, <3>1, <3>2, NullIs
    <3>3. CASE next[r] # q
      <4>1. next[r] \in P \ Q /\ next[r] \in Pbufs \ {q}
        BY <1>7, <1>9, <2>3, <3>3
      <4>2. tl[next[r]] = tot[next[r]] - (tot[q] - n) /\ next[r] # NULL
        BY <1>5, <4>1, NullIs
      <4>. QED
        BY <1>3, <2>1, <3>1, <4>1, <4>2
    <3>. QED
      BY <3>2, <3>3
  <2>4. CASE r \in Q \ {q}
    <3>1. nx[r] = next[r] /\ ln[r] = len[r] /\ tl[r] = tot[r]
      BY <1>4, <1>5, <2>1, <2>4
    <3>2. next[r] # NULL => tl[next[r]] = tot[next[r]]
      BY <1>5, <1>7, <1>10, <2>1, <2>4
    <3>. QED
      BY <2>1, <3>1, <3>2
  <2>5. CASE r \notin P
    <3>1. nx[r] = next[r] /\ ln[r] = len[r] /\ tl[r] = tot[r]
      BY <1>4, <1>5, <1>7, <2>1, <2>5
    <3>2. next[r] # NULL => tl[next[r]] = tot[next[r]]
      BY <1>5, <1>7, <1>11, <2>1, <2>5
    <3>. QED
      BY <2>1, <3>1, <3>2
  <2>. QED
    BY <2>2, <2>3, <2>4, <2>5
<1>13. Fits(ln)
  <2>. SUFFICES ASSUME NEW r \in alloc PROVE room[r] >= 0 /\ room[r] + ln[r] <= BufSize
    BY DEF Fits
  <2>1. r \in Pbufs /\ room[r] \in Int /\ len[r] \in Int /\ room[r] >= 0
        /\ room[r] + len[r] <= BufSize
    BY Given
  <2>2. room[r] + ln[r] <= room[r] + len[r]
    BY <1>3, <1>4, <2>1
  <2>3. ln[r] \in Int
    BY <1>4, <2>1
  <2>. QED
    BY <2>1, <2>2, <2>3 DEF SizesAssumption
<1>14. /\ TypeInv /\ owners \in [Pbufs -> Nat] /\ next[q] \in Pbufs \cup {NULL}
       /\ \A r \in Pbufs : r \in alloc <=> ref[r] > 0
  BY <1>3, Given DEF IInv, TypeInv
<1>15. FreeIn(nx, ln, tl, ref, owners, next[q])
  BY <1>2 DEF nx, ln, tl
<1>. QED
  BY <1>4, <1>6, <1>8, <1>12, <1>13, <1>14, <1>15, FreeSafe

(* Two packets become one, and the link is counted.                        *)
LEMMA JoinSafe ==
  ASSUME SizesAssumption, IInv, NEW h \in alloc, NEW t \in alloc,
         IsHead(h), IsHead(t), Chain(h) \cap Chain(t) = {},
         next' = [next EXCEPT ![Last(h)] = t], tot' = Lengthened(h, t),
         alloc' = alloc, len' = len, room' = room,
         ref' \in [Pbufs -> Nat], owners' \in [Pbufs -> Nat],
         \A q \in Pbufs : /\ ref'[q] - owners'[q] = ref[q] - owners[q] + (IF q = t THEN 1 ELSE 0)
                          /\ ref'[q] > 0 <=> ref[q] > 0
  PROVE  IInv'
<1>. DEFINE last == Last(h)
            H    == Chain(h)
<1>1. /\ h \in Pbufs /\ ~Led(next, h) /\ t \in Pbufs /\ ~Led(next, t)
      /\ next \in Links /\ Sound(next)
  BY HeadIs, Given DEF IInv
<1>2. last \in H /\ next[last] = NULL
  <2>1. \E q \in H : next[q] = NULL
    BY <1>1, EndOfChain DEF Chain
  <2>. QED
    BY <2>1 DEF Last
<1>3. H \subseteq alloc /\ h \in H /\ last \in Pbufs /\ t \notin H
  BY <1>1, <1>2, ChainInUse, Given
<1>. HIDE DEF last
<1>4. Sound(next')
  BY <1>1, <1>2, Appended DEF Chain, last
<1>5. next'[last] = t /\ \A q \in Pbufs \ {last} : next'[q] = next[q]
  BY <1>1, <1>3 DEF Links, last
<1>6. Within(next', alloc')
  BY <1>2, <1>3, <1>5 DEF IInv, Within
<1>7. ASSUME NEW q \in Pbufs PROVE Degree(next', q) = Degree(next, q) + (IF q = t THEN 1 ELSE 0)
  <2>1. CASE q = t
    BY <1>1, <1>3, <1>5, <2>1 DEF Degree, Led
  <2>2. CASE q # t
    <3>1. Led(next', q) <=> Led(next, q)
      BY <1>2, <1>3, <1>5, <2>2, NullIs DEF Led
    <3>. QED
      BY <2>2, <3>1 DEF Degree
  <2>. QED
    BY <2>1, <2>2
<1>8. CountInv'
  <2>1. ASSUME NEW q \in Pbufs
        PROVE  ref'[q] = owners'[q] + Degree(next', q) /\ (q \in alloc <=> ref'[q] > 0)
    <3>1. /\ ref'[q] \in Nat /\ owners'[q] \in Nat /\ ref[q] \in Nat /\ owners[q] \in Nat
          /\ Degree(next, q) \in {0, 1} /\ ref[q] = owners[q] + Degree(next, q)
          /\ q \in alloc <=> ref[q] > 0
      BY Given
    <3>2. /\ ref'[q] - owners'[q] = ref[q] - owners[q] + (IF q = t THEN 1 ELSE 0)
          /\ ref'[q] > 0 <=> ref[q] > 0
          /\ Degree(next', q) = Degree(next, q) + (IF q = t THEN 1 ELSE 0)
      BY <1>7
    <3>. QED
      BY <3>1, <3>2
  <2>. QED
    BY <2>1 DEF CountInv, Pbufs, Degree, Led
<1>9. /\ \A q \in H : tot'[q] = tot[q] + tot[t]
      /\ \A q \in Pbufs \ H : tot'[q] = tot[q]
      /\ tot' \in [Pbufs -> Int]
  <2>1. \A q \in Pbufs : (IF q \in H THEN tot[q] + tot[t] ELSE tot[q]) \in Int
    BY <1>1, Given
  <2>. HIDE DEF H
  <2>2. tot' = [q \in Pbufs |-> IF q \in H THEN tot[q] + tot[t] ELSE tot[q]]
    BY DEF Lengthened, H
  <2>. QED
    BY <1>3, <2>1, <2>2, Given
<1>10. TypeInv'
  BY <1>9 DEF IInv, TypeInv, Pbufs
<1>11. \A q \in H : next[q] \in H \cup {NULL}
  BY <1>1, ChainSound DEF Chain
<1>12. \A q \in Pbufs \ H : next[q] \notin H
  BY <1>1, IntoChain DEF Chain
<1>13. ASSUME NEW q \in alloc
       PROVE  tot'[q] = len[q] + (IF next'[q] = NULL THEN 0 ELSE tot'[next'[q]])
  <2>1. /\ q \in Pbufs /\ next[q] \in Pbufs \cup {NULL}
        /\ tot[q] \in Int /\ len[q] \in Int /\ tot[t] \in Int
        /\ next[q] \in Pbufs => tot[next[q]] \in Int
        /\ tot[q] = len[q] + (IF next[q] = NULL THEN 0 ELSE tot[next[q]])
    BY <1>1, Given
  <2>. HIDE DEF H
  <2>2. CASE q = last
    BY <1>1, <1>2, <1>3, <1>5, <1>9, <2>1, <2>2, NullIs
  <2>3. CASE q \in H /\ q # last
    <3>1. next'[q] = next[q] /\ tot'[q] = tot[q] + tot[t]
      BY <1>5, <1>9, <2>1, <2>3
    <3>2. CASE next[q] = NULL
      BY <1>1, <1>2, <2>3, <3>2, SameEnd DEF H, Chain
    <3>3. CASE next[q] # NULL
      <4>1. next[q] \in H /\ tot'[next[q]] = tot[next[q]] + tot[t] /\ next[q] \in Pbufs
        BY <1>9, <1>11, <2>1, <2>3, <3>3
      <4>. QED
        BY <2>1, <3>1, <3>3, <4>1
    <3>. QED
      BY <3>2, <3>3
  <2>4. CASE q \notin H
    <3>1. next'[q] = next[q] /\ tot'[q] = tot[q]
      BY <1>2, <1>5, <1>9, <2>1, <2>4
    <3>2. next[q] # NULL => tot'[next[q]] = tot[next[q]]
      BY <1>9, <1>12, <2>1, <2>4
    <3>. QED
      BY <2>1, <3>1, <3>2
  <2>. QED
    BY <2>2, <2>3, <2>4
<1>14. \A q \in alloc : room[q] >= 0 /\ room[q] + len[q] <= BufSize
  BY Given
<1>. QED
  BY <1>4, <1>6, <1>8, <1>10, <1>13, <1>14
     DEF IInv, TotLenExact, PayloadInside, NULL, Sound, Links, Acyclic, OnePred, Within,
         ChainIn, Reach, Pbufs

LEMMA CatSafe ==
  ASSUME SizesAssumption, IInv, NEW h \in alloc, NEW t \in alloc, Cat(h, t)
  PROVE  IInv'
<1>1. /\ t \in Pbufs /\ owners[t] > 0 /\ owners' = [owners EXCEPT ![t] = @ - 1] /\ ref' = ref
      /\ owners \in [Pbufs -> Nat] /\ ref \in [Pbufs -> Nat]
  BY HeadIs DEF Cat, IInv, TypeInv
<1>2. owners' \in [Pbufs -> Nat]
  BY <1>1
<1>3. \A q \in Pbufs :
        /\ ref'[q] - owners'[q] = ref[q] - owners[q] + (IF q = t THEN 1 ELSE 0)
        /\ ref'[q] > 0 <=> ref[q] > 0
  BY <1>1
<1>. QED
  BY <1>1, <1>2, <1>3, JoinSafe DEF Cat

LEMMA ChainToSafe ==
  ASSUME SizesAssumption, IInv, NEW h \in alloc, NEW t \in alloc, ChainTo(h, t)
  PROVE  IInv'
<1>1. /\ t \in Pbufs /\ ref[t] > 0 /\ ref' = [ref EXCEPT ![t] = @ + 1] /\ owners' = owners
      /\ owners \in [Pbufs -> Nat] /\ ref \in [Pbufs -> Nat]
  BY HeadIs, Given DEF ChainTo, IInv, TypeInv
<1>2. ref' \in [Pbufs -> Nat]
  BY <1>1
<1>3. \A q \in Pbufs :
        /\ ref'[q] - owners'[q] = ref[q] - owners[q] + (IF q = t THEN 1 ELSE 0)
        /\ ref'[q] > 0 <=> ref[q] > 0
  BY <1>1
<1>. QED
  BY <1>1, <1>2, <1>3, JoinSafe DEF ChainTo

-----------------------------------------------------------------------------
(* pbuf_alloc.                                                             *)

LEMMA TotStep ==
  ASSUME SizesAssumption, NEW n \in Nat, NEW h \in Nat, NEW i \in Nat \ {0}
  PROVE  /\ TotAt(n, h, i) \in Int /\ LenAt(n, h, i) \in Int
         /\ TotAt(n, h, i) > LenAt(n, h, i)
              => TotAt(n, h, i) = LenAt(n, h, i) + TotAt(n, h, i + 1)
         /\ LenAt(n, h, i) <= IF i = 1 THEN BufSize - h ELSE BufSize
<1>1. BufSize \in Nat
  BY DEF SizesAssumption
<1>2. (i - 2) * BufSize \in Int /\ (i + 1 - 2) * BufSize = (i - 2) * BufSize + BufSize
  BY <1>1
<1>3. TotAt(n, h, i) \in Int /\ (i = 1 => TotAt(n, h, i) = n)
  BY <1>1, <1>2 DEF TotAt
<1>4. TotAt(n, h, i + 1) = TotAt(n, h, i) - (IF i = 1 THEN BufSize - h ELSE BufSize)
  <2>1. CASE i = 1
    <3>1. (i + 1 - 2) * BufSize = 0 /\ i + 1 # 1
      BY <1>1, <2>1
    <3>. QED
      BY <1>1, <1>3, <2>1, <3>1 DEF TotAt
  <2>2. CASE i # 1
    <3>1. i + 1 # 1
      BY <2>2
    <3>2. TotAt(n, h, i + 1) = n - (BufSize - h) - (i + 1 - 2) * BufSize
      BY <3>1 DEF TotAt
    <3>3. TotAt(n, h, i) = n - (BufSize - h) - (i - 2) * BufSize
      BY <2>2 DEF TotAt
    <3>. QED
      BY <1>1, <1>2, <2>2, <3>2, <3>3
  <2>. QED
    BY <2>1, <2>2
<1>. QED
  BY <1>1, <1>3, <1>4 DEF LenAt, Least

LEMMA Injected ==
  ASSUME SizesAssumption, NEW k \in 1 .. Cardinality(Pbufs \ alloc)
  PROVE  Taken(k) \in [1 .. k -> Pbufs \ alloc] /\ IsInjective(Taken(k))
<1>. DEFINE F == Pbufs \ alloc
<1>0. IsFiniteSet(Pbufs)
  BY FS_Interval DEF Pbufs, SizesAssumption
<1>1. IsFiniteSet(F)
  BY <1>0, FS_Subset
<1>2. Cardinality(F) \in Nat
  BY <1>1, FS_CardinalityType
<1>3. PICK f \in [1 .. Cardinality(F) -> F] : IsInjective(f)
  BY <1>1, FS_CardinalityType
     DEF ExistsBijection, Bijection, Injection
<1>4. \E s \in [1 .. k -> F] : IsInjective(s)
  <2>. DEFINE s == [i \in 1 .. k |-> f[i]]
  <2>1. \A i \in 1 .. k : i \in 1 .. Cardinality(F)
    <3>. HIDE DEF F
    <3>1. k \in 1 .. Cardinality(F)
      BY DEF F
    <3>. QED
      BY <1>2, <3>1
  <2>2. s \in [1 .. k -> F] /\ IsInjective(s)
    BY <1>3, <2>1, Zenon DEF IsInjective
  <2>. QED
    BY <2>2
<1>. QED
  BY <1>4 DEF Taken

(* What pbuf_alloc leaves in the new pbufs, one by one.                    *)
Filled(k, s, n, h) ==
  /\ IsInjective(s) /\ Ends(n, h, k)
  /\ alloc' = alloc \cup Range(s)
  /\ next' \in Links
  /\ len' \in [Pbufs -> Int] /\ tot' \in [Pbufs -> Int] /\ room' \in [Pbufs -> Int]
  /\ ref' \in [Pbufs -> Nat] /\ owners' \in [Pbufs -> Nat]
  /\ \A i \in 1 .. k :
       /\ next'[s[i]] = IF i = k THEN NULL ELSE s[i + 1]
       /\ len'[s[i]] = LenAt(n, h, i) /\ tot'[s[i]] = TotAt(n, h, i)
       /\ room'[s[i]] = (IF i = 1 THEN h ELSE 0)
       /\ ref'[s[i]] = 1 /\ owners'[s[i]] = (IF i = 1 THEN 1 ELSE 0)
  /\ \A q \in Pbufs \ Range(s) :
       /\ next'[q] = next[q] /\ len'[q] = len[q] /\ tot'[q] = tot[q]
       /\ room'[q] = room[q] /\ ref'[q] = ref[q] /\ owners'[q] = owners[q]

LEMMA Allocated ==
  ASSUME SizesAssumption, IInv, NEW n \in Nat, NEW h \in Nat, Alloc(n, h)
  PROVE  \E k \in Nat \ {0} : \E s \in [1 .. k -> Pbufs \ alloc] : Filled(k, s, n, h)
<1>1. PICK k \in 1 .. Cardinality(Pbufs \ alloc) :
        LET new == Range(Taken(k))
            place(q) == CHOOSE i \in 1 .. k : Taken(k)[i] = q
        IN /\ Ends(n, h, k)
           /\ alloc' = alloc \cup new
           /\ next' = [q \in Pbufs |-> IF q \in new
                        THEN (IF place(q) = k THEN NULL ELSE Taken(k)[place(q) + 1]) ELSE next[q]]
           /\ len' = [q \in Pbufs |-> IF q \in new THEN LenAt(n, h, place(q)) ELSE len[q]]
           /\ tot' = [q \in Pbufs |-> IF q \in new THEN TotAt(n, h, place(q)) ELSE tot[q]]
           /\ room' = [q \in Pbufs |-> IF q \in new
                                       THEN (IF place(q) = 1 THEN h ELSE 0) ELSE room[q]]
           /\ ref' = [q \in Pbufs |-> IF q \in new THEN 1 ELSE ref[q]]
           /\ owners' = [q \in Pbufs |-> IF q \in new
                                         THEN (IF place(q) = 1 THEN 1 ELSE 0) ELSE owners[q]]
  BY DEF Alloc
<1>. DEFINE s        == Taken(k)
            new      == Range(s)
            place(q) == CHOOSE i \in 1 .. k : s[i] = q
<1>2. s \in [1 .. k -> Pbufs \ alloc] /\ IsInjective(s)
  BY Injected
<1>3. k \in Nat \ {0}
  OBVIOUS
<1>4. DOMAIN s = 1 .. k
  BY <1>2
<1>. HIDE DEF s
<1>5. \A q \in new : place(q) \in 1 .. k /\ s[place(q)] = q
  BY <1>4 DEF Range
<1>6. \A i \in 1 .. k : s[i] \in new /\ s[i] \in Pbufs /\ place(s[i]) = i
  <2>. SUFFICES ASSUME NEW i \in 1 .. k
                PROVE  s[i] \in new /\ s[i] \in Pbufs /\ place(s[i]) = i
    OBVIOUS
  <2>1. s[i] \in new /\ s[i] \in Pbufs
    BY <1>2, <1>4 DEF Range
  <2>2. place(s[i]) \in 1 .. k /\ s[place(s[i])] = s[i]
    BY <1>5, <2>1
  <2>. HIDE DEF place
  <2>3. place(s[i]) = i
    BY <1>2, <1>4, <2>2 DEF IsInjective
  <2>. QED
    BY <2>1, <2>3
<1>7. /\ Ends(n, h, k) /\ alloc' = alloc \cup new
      /\ next' = [q \in Pbufs |-> IF q \in new
                   THEN (IF place(q) = k THEN NULL ELSE s[place(q) + 1]) ELSE next[q]]
      /\ len' = [q \in Pbufs |-> IF q \in new THEN LenAt(n, h, place(q)) ELSE len[q]]
      /\ tot' = [q \in Pbufs |-> IF q \in new THEN TotAt(n, h, place(q)) ELSE tot[q]]
      /\ room' = [q \in Pbufs |-> IF q \in new
                                  THEN (IF place(q) = 1 THEN h ELSE 0) ELSE room[q]]
      /\ ref' = [q \in Pbufs |-> IF q \in new THEN 1 ELSE ref[q]]
      /\ owners' = [q \in Pbufs |-> IF q \in new
                                    THEN (IF place(q) = 1 THEN 1 ELSE 0) ELSE owners[q]]
  BY <1>1 DEF s
<1>. HIDE DEF place, new
<1>8. next' \in Links
  <2>1. \A q \in Pbufs : (IF q \in new THEN (IF place(q) = k THEN NULL ELSE s[place(q) + 1])
                                        ELSE next[q]) \in Pbufs \cup {NULL}
    BY <1>3, <1>5, <1>6, Given
  <2>. QED
    BY <1>7, <2>1 DEF Links
<1>9. /\ len' \in [Pbufs -> Int] /\ tot' \in [Pbufs -> Int] /\ room' \in [Pbufs -> Int]
      /\ ref' \in [Pbufs -> Nat] /\ owners' \in [Pbufs -> Nat]
  <2>1. \A q \in Pbufs : /\ (IF q \in new THEN LenAt(n, h, place(q)) ELSE len[q]) \in Int
                         /\ (IF q \in new THEN TotAt(n, h, place(q)) ELSE tot[q]) \in Int
    <3>1. \A q \in new : place(q) \in Nat \ {0}
      BY <1>3, <1>5
    <3>2. \A q \in new : LenAt(n, h, place(q)) \in Int /\ TotAt(n, h, place(q)) \in Int
      BY <3>1, TotStep
    <3>. QED
      BY <3>2, Given
  <2>2. \A q \in Pbufs :
          /\ (IF q \in new THEN (IF place(q) = 1 THEN h ELSE 0) ELSE room[q]) \in Int
          /\ (IF q \in new THEN 1 ELSE ref[q]) \in Nat
          /\ (IF q \in new THEN (IF place(q) = 1 THEN 1 ELSE 0) ELSE owners[q]) \in Nat
    BY Given
  <2>. QED
    BY <1>7, <2>1, <2>2
<1>10. \A i \in 1 .. k :
         /\ next'[s[i]] = IF i = k THEN NULL ELSE s[i + 1]
         /\ len'[s[i]] = LenAt(n, h, i) /\ tot'[s[i]] = TotAt(n, h, i)
         /\ room'[s[i]] = (IF i = 1 THEN h ELSE 0)
         /\ ref'[s[i]] = 1 /\ owners'[s[i]] = (IF i = 1 THEN 1 ELSE 0)
  BY <1>6, <1>7
<1>11. \A q \in Pbufs \ new :
         /\ next'[q] = next[q] /\ len'[q] = len[q] /\ tot'[q] = tot[q]
         /\ room'[q] = room[q] /\ ref'[q] = ref[q] /\ owners'[q] = owners[q]
  BY <1>7
<1>12. Filled(k, s, n, h)
  BY <1>2, <1>7, <1>8, <1>9, <1>10, <1>11 DEF new, Filled
<1>. QED
  BY <1>2, <1>3, <1>12

LEMMA AllocSafe ==
  ASSUME SizesAssumption, IInv, NEW n \in Nat, NEW h \in {0, HeaderLen}, Alloc(n, h)
  PROVE  IInv'
<1>0. h \in Nat /\ BufSize \in Nat /\ h < BufSize
  BY DEF SizesAssumption
<1>20. PICK k \in Nat \ {0} : \E s \in [1 .. k -> Pbufs \ alloc] : Filled(k, s, n, h)
  BY <1>0, Allocated
<1>1. PICK s \in [1 .. k -> Pbufs \ alloc] : Filled(k, s, n, h)
  BY <1>20
<1>. DEFINE new == Range(s)
<1>2. /\ \A q \in new : \E i \in 1 .. k : s[i] = q
      /\ \A i \in 1 .. k : s[i] \in new /\ s[i] \in Pbufs /\ s[i] \notin alloc
      /\ \A i, j \in 1 .. k : s[i] = s[j] => i = j
  BY <1>1 DEF Range, IsInjective, new, Filled
<1>3. /\ alloc' = alloc \cup new /\ new \subseteq Pbufs /\ new \cap alloc = {}
      /\ \A q \in Pbufs \ new :
           /\ next'[q] = next[q] /\ len'[q] = len[q] /\ tot'[q] = tot[q]
           /\ room'[q] = room[q] /\ ref'[q] = ref[q] /\ owners'[q] = owners[q]
  BY <1>1, <1>2 DEF Filled, new
<1>. HIDE DEF new
<1>4. \A i \in 1 .. k : i = k \/ (i + 1 \in 1 .. k)
  OBVIOUS
<1>5. \A i \in 1 .. k :
        /\ i = k => next'[s[i]] = NULL
        /\ i # k => i + 1 \in 1 .. k /\ next'[s[i]] = s[i + 1]
  BY <1>1, <1>4 DEF Filled
<1>6. \A q \in Pbufs : next[q] # NULL => q \in alloc /\ next[q] \in alloc
  BY DEF IInv, Within
<1>7. TypeInv'
  BY <1>1, <1>3, Given DEF TypeInv, Pbufs, Filled
<1>8. OnePred(next')
  <2>. SUFFICES ASSUME NEW q \in Pbufs, NEW r \in Pbufs,
                       next'[q] = next'[r], next'[q] # NULL
                PROVE  q = r
    BY DEF OnePred
  <2>1. CASE q \in new /\ r \in new
    <3>1. PICK i \in 1 .. k : s[i] = q
      BY <1>2, <2>1
    <3>2. PICK j \in 1 .. k : s[j] = r
      BY <1>2, <2>1
    <3>3. i + 1 = j + 1
      BY <1>2, <1>5, <3>1, <3>2
    <3>. QED
      BY <3>1, <3>2, <3>3
  <2>2. CASE q \notin new /\ r \notin new
    BY <1>3, <2>2 DEF IInv, Sound, OnePred
  <2>3. \A u \in new : next'[u] # NULL => next'[u] \notin alloc
    BY <1>2, <1>5
  <2>4. \A u \in Pbufs \ new : next'[u] # NULL => next'[u] \in alloc
    BY <1>3, <1>6
  <2>. QED
    BY <2>1, <2>2, <2>3, <2>4
<1>9. Acyclic(next')
  <2>. SUFFICES ASSUME NEW q \in Pbufs, q \in ChainIn(next', next'[q]) PROVE FALSE
    BY DEF Acyclic
  <2>1. next'[q] # NULL
    BY NoneReached
  <2>2. CASE q \in new
    <3>1. PICK i \in 1 .. k : s[i] = q
      BY <1>2, <2>2
    <3>. DEFINE R == {s[j] : j \in i + 1 .. k}
    <3>2. R \in SUBSET Pbufs /\ next'[q] \in R
      BY <1>2, <1>5, <2>1, <3>1
    <3>3. \A r \in R : next'[r] \in R \cup {NULL}
      <4>1. ASSUME NEW j \in i + 1 .. k PROVE next'[s[j]] \in R \cup {NULL}
        <5>1. j \in 1 .. k /\ (j = k \/ j + 1 \in i + 1 .. k)
          OBVIOUS
        <5>. QED
          BY <1>5, <5>1
      <4>. QED
        BY <4>1
    <3>4. q \notin R
      BY <1>2, <3>1
    <3>. HIDE DEF R
    <3>5. ChainIn(next', next'[q]) \subseteq R
      BY <3>2, <3>3, ChainLeast
    <3>. QED
      BY <3>4, <3>5
  <2>3. CASE q \notin new
    <3>. DEFINE R == ChainIn(next, next[q])
    <3>1. next'[q] = next[q] /\ next[q] \in alloc
      BY <1>3, <1>6, <2>1, <2>3
    <3>2. R \subseteq alloc /\ next[q] \in R /\ q \notin R
      BY <3>1, ChainInUse DEF Chain, IInv, Sound, Acyclic
    <3>3. \A r \in R : next[r] \in R \cup {NULL}
      BY Given, ChainSound
    <3>. HIDE DEF R
    <3>4. R \in SUBSET Pbufs /\ \A r \in R : next'[r] \in R \cup {NULL}
      BY <1>3, <3>2, <3>3, Given
    <3>5. ChainIn(next', next'[q]) \subseteq R
      BY <3>1, <3>2, <3>4, ChainLeast
    <3>. QED
      BY <3>2, <3>5
  <2>. QED
    BY <2>2, <2>3
<1>10. Within(next', alloc')
  <2>. SUFFICES ASSUME NEW q \in Pbufs, next'[q] # NULL
                PROVE  q \in alloc \cup new /\ next'[q] \in alloc \cup new
    BY <1>3 DEF Within
  <2>1. CASE q \in new
    BY <1>2, <1>5, <2>1
  <2>2. CASE q \notin new
    BY <1>3, <1>6, <2>2
  <2>. QED
    BY <2>1, <2>2
<1>11. CountInv'
  <2>1. ASSUME NEW q \in Pbufs
        PROVE  ref'[q] = owners'[q] + Degree(next', q) /\ (q \in alloc' <=> ref'[q] > 0)
    <3>1. CASE q \in new
      <4>1. PICK i \in 1 .. k : s[i] = q
        BY <1>2, <3>1
      <4>2. CASE i = 1
        <5>1. ~Led(next', q)
          <6>. SUFFICES ASSUME NEW r \in Pbufs, next'[r] = q PROVE FALSE
            BY DEF Led
          <6>1. r \in new
            BY <1>2, <1>3, <1>6, <4>1, NullIs
          <6>2. PICK j \in 1 .. k : s[j] = r
            BY <1>2, <6>1
          <6>3. j + 1 \in 1 .. k /\ s[j + 1] = s[i]
            BY <1>2, <1>5, <4>1, <6>2, NullIs
          <6>. QED
            BY <1>2, <4>2, <6>2, <6>3
        <5>. QED
          <6>1. ref'[q] = 1 /\ owners'[q] = 1 /\ q \in alloc'
            BY <1>1, <1>3, <3>1, <4>1, <4>2 DEF Filled
          <6>. QED
            BY <5>1, <6>1 DEF Degree
      <4>3. CASE i # 1
        <5>1. i - 1 \in 1 .. k /\ i - 1 # k /\ (i - 1) + 1 = i
          BY <4>3
        <5>2. Led(next', q)
          BY <1>2, <1>5, <4>1, <5>1 DEF Led
        <5>. QED
          <6>1. ref'[q] = 1 /\ owners'[q] = 0 /\ q \in alloc'
            BY <1>1, <1>3, <3>1, <4>1, <4>3 DEF Filled
          <6>. QED
            BY <5>2, <6>1 DEF Degree
      <4>. QED
        BY <4>2, <4>3
    <3>2. CASE q \notin new
      <4>1. \A r \in Pbufs : next'[r] = q <=> next[r] = q
        <5>. SUFFICES ASSUME NEW r \in Pbufs PROVE next'[r] = q <=> next[r] = q
          OBVIOUS
        <5>1. CASE r \in new
          BY <1>2, <1>3, <1>5, <1>6, <3>2, <5>1, NullIs
        <5>2. CASE r \notin new
          BY <1>3, <5>2
        <5>. QED
          BY <5>1, <5>2
      <4>2. Degree(next', q) = Degree(next, q)
        BY <4>1 DEF Degree, Led
      <4>. QED
        BY <1>3, <3>2, <4>2, Given
    <3>. QED
      BY <3>1, <3>2
  <2>. QED
    BY <2>1 DEF CountInv, Pbufs, Degree, Led
<1>12. ASSUME NEW q \in alloc'
       PROVE  /\ tot'[q] = len'[q] + (IF next'[q] = NULL THEN 0 ELSE tot'[next'[q]])
              /\ room'[q] >= 0 /\ room'[q] + len'[q] <= BufSize
  <2>1. CASE q \in new
    <3>1. PICK i \in 1 .. k : s[i] = q
      BY <1>2, <2>1
    <3>2. /\ len'[q] = LenAt(n, h, i) /\ tot'[q] = TotAt(n, h, i)
          /\ room'[q] = IF i = 1 THEN h ELSE 0
      BY <1>1, <3>1 DEF Filled
    <3>0. i \in Nat \ {0}
      OBVIOUS
    <3>3. /\ TotAt(n, h, i) \in Int /\ LenAt(n, h, i) \in Int
          /\ TotAt(n, h, i) > LenAt(n, h, i)
               => TotAt(n, h, i) = LenAt(n, h, i) + TotAt(n, h, i + 1)
          /\ LenAt(n, h, i) <= IF i = 1 THEN BufSize - h ELSE BufSize
      BY <1>0, <3>0, TotStep
    <3>4. room'[q] >= 0 /\ room'[q] + len'[q] <= BufSize
      BY <1>0, <3>2, <3>3
    <3>5. CASE i = k
      <4>1. next'[q] = NULL /\ TotAt(n, h, i) = LenAt(n, h, i)
        BY <1>1, <1>5, <3>1, <3>5 DEF Ends, Filled
      <4>. QED
        BY <3>2, <3>3, <3>4, <4>1
    <3>6. CASE i # k
      <4>1. i \in 1 .. k - 1 /\ i + 1 \in 1 .. k /\ next'[q] = s[i + 1]
        BY <1>5, <3>1, <3>6
      <4>2. TotAt(n, h, i) > LenAt(n, h, i) /\ tot'[s[i + 1]] = TotAt(n, h, i + 1)
        BY <1>1, <4>1 DEF Ends, Filled
      <4>3. next'[q] # NULL
        BY <1>2, <4>1, NullIs
      <4>. QED
        BY <3>2, <3>3, <3>4, <4>1, <4>2, <4>3
    <3>. QED
      BY <3>5, <3>6
  <2>2. CASE q \notin new
    <3>1. q \in alloc /\ q \in Pbufs \ new
      BY <1>3, <2>2, Given
    <3>2. next[q] # NULL => next[q] \in Pbufs \ new
      BY <1>3, <3>1, Given
    <3>. QED
      BY <1>3, <3>1, <3>2, Given
  <2>. QED
    BY <1>3, <2>1, <2>2
<1>. QED
  BY <1>1, <1>7, <1>8, <1>9, <1>10, <1>11, <1>12
     DEF Filled, IInv, TotLenExact, PayloadInside, NULL, Sound, Links, Acyclic, OnePred, Within,
         ChainIn, Reach, Pbufs

-----------------------------------------------------------------------------
LEMMA StepSafe ==
  ASSUME SizesAssumption
  PROVE  IInv /\ [Next]_vars => IInv'
<1>. SUFFICES ASSUME IInv, [Next]_vars PROVE IInv'
  OBVIOUS
<1>1. CASE \E n \in 0 .. MaxLen : \E h \in {0, HeaderLen} : Alloc(n, h)
  BY <1>1, AllocSafe
<1>2. ASSUME NEW p \in alloc, Ref(p) PROVE IInv'
  BY <1>2, RefSafe
<1>3. ASSUME NEW p \in alloc, Free(p) PROVE IInv'
  BY <1>3, FreeKeeps
<1>4. ASSUME NEW p \in alloc, Dechain(p) PROVE IInv'
  BY <1>4, DechainSafe
<1>5. ASSUME NEW p \in alloc, Realloc(p) PROVE IInv'
  BY <1>5, ReallocSafe
<1>6. ASSUME NEW p \in alloc, Header(p, HeaderLen) \/ Header(p, - HeaderLen) PROVE IInv'
  <2>1. HeaderLen \in Int /\ - HeaderLen \in Int
    BY DEF SizesAssumption
  <2>. QED
    BY <1>6, <2>1, HeaderSafe
<1>7. ASSUME NEW p \in alloc, NEW t \in alloc, Cat(p, t) \/ ChainTo(p, t) PROVE IInv'
  BY <1>7, CatSafe, ChainToSafe
<1>8. CASE UNCHANGED vars
  BY <1>8 DEF vars, IInv, TypeInv, CountInv, Degree, Led, TotLenExact, PayloadInside, NULL,
              Sound, Links, Acyclic, OnePred, Within, ChainIn, Reach, Pbufs
<1>. QED
  BY <1>1, <1>2, <1>3, <1>4, <1>5, <1>6, <1>7, <1>8 DEF Next

(* The inductive invariant: links without cycles, two to one pbuf or to    *)
(* one that is not in use, all counted, and lengths that add up.           *)
THEOREM Invariance ==
  ASSUME SizesAssumption
  PROVE  Spec => []IInv
BY Starts, StepSafe, PTL DEF Spec

(* No pbuf is freed before its last reference is given up, or twice, after *)
(* any sequence of allocations, references, frees, chains, splits and      *)
(* shortenings.                                                            *)
THEOREM RefsAreSound ==
  ASSUME SizesAssumption
  PROVE  Spec => []RefsSound
<1>1. IInv => RefsSound
  <2>. SUFFICES ASSUME IInv PROVE RefsSound
    OBVIOUS
  <2>1. ASSUME NEW p \in Pbufs
        PROVE  ref[p] = owners[p] + Cardinality(Preds(p)) /\ (p \in alloc <=> ref[p] > 0)
    <3>1. Cardinality(Preds(p)) = Degree(next, p)
      BY DegreeIs, Given DEF IInv, Preds
    <3>. QED
      BY <3>1, Given
  <2>2. ASSUME NEW p \in alloc
        PROVE  Chain(p) \subseteq alloc /\ (next[p] # NULL => p \notin Chain(next[p]))
    BY ChainInUse, Given DEF IInv, Sound, Acyclic, Chain
  <2>. QED
    BY <2>1, <2>2 DEF RefsSound, RefsCounted, ChainsSound
<1>. QED
  BY <1>1, Invariance, PTL

(* The total length of a packet is the sum of the lengths of its pbufs,    *)
(* and no payload leaves its buffer, as pbuf.c asserts.                    *)
THEOREM LengthsAreSound ==
  ASSUME SizesAssumption
  PROVE  Spec => []LengthsSound
<1>1. IInv => LengthsSound
  BY DEF IInv, LengthsSound
<1>. QED
  BY <1>1, Invariance, PTL
=============================================================================

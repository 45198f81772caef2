-------------------------------- MODULE Sums --------------------------------
(***************************************************************************)
(* Sums over sequences, and what the proofs about them need: induction     *)
(* over the naturals for a set, the existence of a function defined by     *)
(* recursion, and how sums behave when sequences are put together.         *)
(***************************************************************************)
EXTENDS Integers, Sequences, WellFoundedInduction, TLAPS

(* The sums of the first k elements of w, for each k.                      *)
PartialSums(w) ==
  LET upTo[k \in 0 .. Len(w)] == IF k = 0 THEN 0 ELSE upTo[k - 1] + w[k]
  IN  upTo

Total(w) == PartialSums(w)[Len(w)]

-----------------------------------------------------------------------------
(* A set of naturals that is not empty has a least element.                *)
LEMMA LeastNatural ==
  ASSUME NEW S, S \subseteq Nat, S # {}
  PROVE  \E k \in S : \A j \in S : k <= j
<1>. DEFINE LT == {ss \in Nat \X Nat : ss[1] < ss[2]}
<1>1. IsWellFoundedOn(LT, Nat)
  BY NatLessThanWellFounded, Zenon DEF OpToRel
<1>2. PICK k \in S : \A j \in S : ~ (<<j, k>> \in LT)
  <2>. HIDE DEF LT
  <2>. QED
    BY <1>1, WFMin
<1>3. ASSUME NEW j \in S PROVE k <= j
  <2>1. j \in Nat /\ k \in Nat /\ <<j, k>> \notin LT
    BY <1>2
  <2>2. ASSUME j < k PROVE <<j, k>> \in LT
    <3>1. <<j, k>> \in Nat \X Nat /\ <<j, k>>[1] = j /\ <<j, k>>[2] = k
      BY <2>1
    <3>. QED
      BY <2>2, <3>1
  <2>. HIDE DEF LT
  <2>. QED
    BY <2>1, <2>2
<1>. QED
  BY <1>3

(* Induction up to n, for the members of a set.                            *)
LEMMA UpTo ==
  ASSUME NEW n \in Nat, NEW S, 0 \in S,
         \A k \in 0 .. n - 1 : k \in S => k + 1 \in S
  PROVE  \A k \in 0 .. n : k \in S
<1>. DEFINE Out == {k \in 0 .. n : k \notin S}
<1>1. SUFFICES ASSUME Out # {} PROVE FALSE
  OBVIOUS
<1>2. PICK k \in Out : \A j \in Out : k <= j
  <2>1. Out \subseteq Nat
    OBVIOUS
  <2>. HIDE DEF Out
  <2>. QED
    BY <1>1, <2>1, LeastNatural
<1>3. k \in 1 .. n
  BY <1>2
<1>4. k - 1 \in 0 .. n - 1 /\ k - 1 \in S
  BY <1>2, <1>3
<1>. QED
  BY <1>2, <1>4

(* What takes the k-th value of such a function to the next, k from 1 to n.*)
Steps(n, V) == [(1 .. n) \X V -> V]

(* A function on 0 .. n that begins with b and continues by the steps of g *)
(* exists.                                                                 *)
LEMMA Recursion ==
  ASSUME NEW V, NEW b \in V, NEW n \in Nat, NEW g \in Steps(n, V)
  PROVE  \E f \in [0 .. n -> V] :
           f[0] = b /\ \A k \in 1 .. n : f[k] = g[<<k, f[k - 1]>>]
<1>. DEFINE Good(m, f) ==
              /\ f \in [0 .. m -> V]
              /\ f[0] = b
              /\ \A k \in 1 .. m : f[k] = g[<<k, f[k - 1]>>]
            S == {m \in 0 .. n : \E f : Good(m, f)}
<1>. USE DEF Steps
<1>1. 0 \in S
  <2>. DEFINE f == [k \in 0 .. 0 |-> b]
  <2>1. f \in [0 .. 0 -> V] /\ f[0] = b /\ 1 .. 0 = {}
    OBVIOUS
  <2>2. Good(0, f)
    <3>. HIDE DEF f
    <3>. QED
      BY <2>1
  <2>3. 0 \in 0 .. n
    OBVIOUS
  <2>. HIDE DEF Good
  <2>. QED
    BY <2>2, <2>3
<1>2. ASSUME NEW m \in 0 .. n - 1, m \in S PROVE m + 1 \in S
  <2>1. PICK f : Good(m, f)
    BY <1>2
  <2>. DEFINE h == [k \in 0 .. m + 1 |-> IF k = m + 1 THEN g[<<m + 1, f[m]>>] ELSE f[k]]
  <2>2. f[m] \in V /\ g[<<m + 1, f[m]>>] \in V
    BY <2>1
  <2>3. h \in [0 .. m + 1 -> V]
    BY <2>1, <2>2
  <2>4. h[0] = b /\ h[m + 1] = g[<<m + 1, h[m]>>]
    <3>1. 0 \in 0 .. m + 1 /\ m \in 0 .. m + 1 /\ m + 1 \in 0 .. m + 1 /\ 0 # m + 1 /\ m # m + 1
      OBVIOUS
    <3>. QED
      BY <2>1, <3>1
  <2>5. ASSUME NEW k \in 1 .. m PROVE h[k] = g[<<k, h[k - 1]>>]
    <3>1. h[k] = f[k] /\ h[k - 1] = f[k - 1]
      BY <2>1
    <3>. QED
      BY <2>1, <3>1
  <2>6. Good(m + 1, h)
    <3>1. \A k \in 1 .. m + 1 : k = m + 1 \/ k \in 1 .. m
      OBVIOUS
    <3>2. m + 1 - 1 = m
      OBVIOUS
    <3>. HIDE DEF h, Steps
    <3>. QED
      BY <2>3, <2>4, <2>5, <3>1, <3>2
  <2>7. m + 1 \in 0 .. n
    OBVIOUS
  <2>. HIDE DEF Good, h
  <2>. QED
    BY <2>6, <2>7
<1>3. n \in S
  <2>. HIDE DEF S
  <2>. QED
    BY <1>1, <1>2, UpTo
<1>. QED
  BY <1>3

-----------------------------------------------------------------------------
LEMMA SumsFrom0 ==
  ASSUME NEW w \in Seq(Int)
  PROVE  /\ PartialSums(w) \in [0 .. Len(w) -> Int]
         /\ PartialSums(w)[0] = 0
         /\ \A k \in 1 .. Len(w) : PartialSums(w)[k] = PartialSums(w)[k - 1] + w[k]
<1>. DEFINE n == Len(w)
            Rec(f) == f = [k \in 0 .. n |-> IF k = 0 THEN 0 ELSE f[k - 1] + w[k]]
            p == PartialSums(w)
<1>1. \E f : Rec(f)
  <2>. DEFINE V == Int
              b == 0
              g == [s \in (1 .. n) \X V |-> s[2] + w[s[1]]]
  <2>1. \A k \in 1 .. n : w[k] \in Int
    OBVIOUS
  <2>2. g \in Steps(n, V) /\ n \in Nat /\ b \in V
    BY <2>1 DEF Steps
  <2>3. PICK f \in [0 .. n -> V] :
          f[0] = b /\ \A k \in 1 .. n : f[k] = g[<<k, f[k - 1]>>]
    <3>. HIDE DEF g, n, Rec, V, b
    <3>. QED
      BY <2>2, Recursion
  <2>4. ASSUME NEW k \in 1 .. n PROVE f[k] = f[k - 1] + w[k]
    <3>0. n \in Nat
      OBVIOUS
    <3>1. <<k, f[k - 1]>> \in (1 .. n) \X V
      <4>. HIDE DEF n, V, g
      <4>1. k - 1 \in 0 .. n
        BY <3>0
      <4>2. f[k - 1] \in V
        BY <4>1, <2>3
      <4>. QED
        BY <4>2
    <3>2. g[<<k, f[k - 1]>>] = f[k - 1] + w[k]
      BY <3>1
    <3>. QED
      BY <2>3, <3>2
  <2>5. Rec(f)
    <3>1. \A k \in 0 .. n : k = 0 \/ k \in 1 .. n
      OBVIOUS
    <3>. HIDE DEF g
    <3>. QED
      BY <2>3, <2>4, <3>1
  <2>. QED
    BY <2>5
<1>2. Rec(p)
  <2>1. p = CHOOSE f : Rec(f)
    BY DEF PartialSums
  <2>. HIDE DEF p, Rec
  <2>. QED
    BY <1>1, <2>1
<1>3. /\ DOMAIN p = 0 .. n /\ p[0] = 0
      /\ \A k \in 1 .. n : p[k] = p[k - 1] + w[k]
  <2>1. n \in Nat
    OBVIOUS
  <2>2. 0 \in 0 .. n /\ \A k \in 1 .. n : k \in 0 .. n /\ k # 0
    BY <2>1
  <2>. HIDE DEF p, n
  <2>. QED
    BY <1>2, <2>2
<1>4. \A k \in 0 .. n : p[k] \in Int
  <2>. DEFINE S == {k \in 0 .. n : p[k] \in Int}
  <2>1. 0 \in S
    BY <1>3
  <2>2. ASSUME NEW k \in 0 .. n - 1, k \in S PROVE k + 1 \in S
    <3>1. p[k + 1] = p[k] + w[k + 1]
      BY <1>3
    <3>. QED
      BY <2>2, <3>1
  <2>3. n \in Nat
    OBVIOUS
  <2>4. \A k \in 0 .. n : k \in S
    <3>. HIDE DEF S, n
    <3>. QED
      BY <2>1, <2>2, <2>3, UpTo
  <2>. QED
    BY <2>4
<1>. QED
  BY <1>2, <1>3, <1>4

(* The sums of the first k elements depend on these only.                  *)
LEMMA SumsAgree ==
  ASSUME NEW v \in Seq(Int), NEW w \in Seq(Int), NEW n \in Nat,
         n <= Len(v), n <= Len(w), \A k \in 1 .. n : v[k] = w[k]
  PROVE  \A k \in 0 .. n : PartialSums(v)[k] = PartialSums(w)[k]
<1>. DEFINE S == {k \in 0 .. n : PartialSums(v)[k] = PartialSums(w)[k]}
<1>1. 0 \in S
  BY SumsFrom0
<1>2. ASSUME NEW k \in 0 .. n - 1, k \in S PROVE k + 1 \in S
  <2>1. k + 1 \in 1 .. Len(v) /\ k + 1 \in 1 .. Len(w) /\ k + 1 \in 1 .. n
    OBVIOUS
  <2>2. PartialSums(v)[k + 1] = PartialSums(v)[k] + v[k + 1]
    BY <2>1, SumsFrom0
  <2>3. PartialSums(w)[k + 1] = PartialSums(w)[k] + w[k + 1]
    BY <2>1, SumsFrom0
  <2>. QED
    BY <1>2, <2>1, <2>2, <2>3
<1>3. \A k \in 0 .. n : k \in S
  <2>. HIDE DEF S
  <2>. QED
    BY <1>1, <1>2, UpTo
<1>. QED
  BY <1>3

LEMMA SumsOfConcat ==
  ASSUME NEW v \in Seq(Int), NEW w \in Seq(Int)
  PROVE  /\ \A k \in 0 .. Len(v) : PartialSums(v \o w)[k] = PartialSums(v)[k]
         /\ \A k \in 0 .. Len(w) :
              PartialSums(v \o w)[Len(v) + k] = Total(v) + PartialSums(w)[k]
<1>. DEFINE u == v \o w
            S == {k \in 0 .. Len(w) : PartialSums(u)[Len(v) + k] = Total(v) + PartialSums(w)[k]}
<1>1. /\ u \in Seq(Int) /\ Len(u) = Len(v) + Len(w)
      /\ Len(v) \in Nat /\ Len(w) \in Nat
      /\ \A k \in 1 .. Len(v) : u[k] = v[k]
      /\ \A k \in 1 .. Len(w) : u[Len(v) + k] = w[k]
  OBVIOUS
<1>n. Len(u) = Len(v) + Len(w) /\ Len(v) \in Nat /\ Len(w) \in Nat
  BY <1>1
<1>. HIDE DEF u
<1>2. \A k \in 0 .. Len(v) : PartialSums(u)[k] = PartialSums(v)[k]
  <2>1. Len(v) <= Len(u) /\ Len(v) <= Len(v)
    BY <1>1
  <2>. QED
    BY <1>1, <2>1, SumsAgree
<1>3. 0 \in S
  <2>1. Len(v) \in 0 .. Len(v) /\ 0 \in 0 .. Len(w) /\ Len(v) + 0 = Len(v)
    BY <1>1
  <2>2. PartialSums(w)[0] = 0 /\ PartialSums(v)[Len(v)] \in Int
    BY <2>1, SumsFrom0
  <2>3. PartialSums(u)[Len(v)] = PartialSums(v)[Len(v)]
    BY <1>2, <2>1
  <2>. QED
    BY <2>1, <2>2, <2>3 DEF Total
<1>4. ASSUME NEW k \in 0 .. Len(w) - 1, k \in S PROVE k + 1 \in S
  <2>1. k + 1 \in 1 .. Len(w) /\ (k + 1) - 1 = k /\ k \in Nat /\ k \in 0 .. Len(w)
    BY <1>n
  <2>2. PartialSums(u)[Len(v) + (k + 1)] = PartialSums(u)[Len(v) + k] + w[k + 1]
    <3>. DEFINE j == Len(v) + (k + 1)
    <3>1. j \in 1 .. Len(u) /\ j - 1 = Len(v) + k
      BY <1>n, <2>1
    <3>2. u[j] = w[k + 1]
      BY <1>1, <2>1
    <3>3. PartialSums(u)[j] = PartialSums(u)[j - 1] + u[j]
      <4>. HIDE DEF j
      <4>. QED
        BY <1>1, <3>1, SumsFrom0
    <3>. QED
      BY <3>1, <3>2, <3>3
  <2>3. PartialSums(w)[k + 1] = PartialSums(w)[k] + w[k + 1]
    BY <2>1, SumsFrom0
  <2>4. PartialSums(w)[k] \in Int /\ w[k + 1] \in Int
    BY <2>1, SumsFrom0
  <2>5. Total(v) \in Int
    <3>1. Len(v) \in 0 .. Len(v)
      BY <1>n
    <3>. QED
      BY <3>1, SumsFrom0 DEF Total
  <2>6. PartialSums(u)[Len(v) + k] = Total(v) + PartialSums(w)[k]
    BY <1>4
  <2>7. PartialSums(u)[Len(v) + (k + 1)] = Total(v) + PartialSums(w)[k + 1]
    BY <2>2, <2>3, <2>4, <2>5, <2>6
  <2>. QED
    BY <2>1, <2>7
<1>5. \A k \in 0 .. Len(w) : k \in S
  <2>. HIDE DEF S
  <2>. QED
    BY <1>1, <1>3, <1>4, UpTo
<1>. QED
  BY <1>2, <1>5 DEF u

LEMMA TotalOfConcat ==
  ASSUME NEW v \in Seq(Int), NEW w \in Seq(Int)
  PROVE  Total(v \o w) = Total(v) + Total(w)
BY SumsOfConcat, Len(v) \in Nat, Len(w) \in Nat, Len(v \o w) = Len(v) + Len(w) DEF Total

LEMMA TotalInt ==
  ASSUME NEW w \in Seq(Int)
  PROVE  Total(w) \in Int
BY SumsFrom0 DEF Total

LEMMA TotalEmpty == Total(<<>>) = 0
BY SumsFrom0, <<>> \in Seq(Int), Len(<<>>) = 0 DEF Total

LEMMA TotalOfOne ==
  ASSUME NEW x \in Int
  PROVE  Total(<<x>>) = x
<1>1. <<x>> \in Seq(Int) /\ Len(<<x>>) = 1 /\ <<x>>[1] = x
  OBVIOUS
<1>. DEFINE w == <<x>>
<1>2. 1 \in 1 .. Len(w) /\ w \in Seq(Int) /\ w[1] = x /\ Len(w) = 1 /\ 1 - 1 = 0
  BY <1>1
<1>3. PartialSums(w)[1] = PartialSums(w)[1 - 1] + w[1] /\ PartialSums(w)[0] = 0
  <2>. HIDE DEF w
  <2>. QED
    BY <1>2, SumsFrom0
<1>4. Total(w) = x
  <2>. HIDE DEF w
  <2>. QED
    BY <1>2, <1>3 DEF Total
<1>. QED
  BY <1>4

(* Sums of naturals grow.                                                  *)
LEMMA SumsGrow ==
  ASSUME NEW w \in Seq(Nat)
  PROVE  /\ Total(w) \in Nat
         /\ \A k \in 0 .. Len(w) : PartialSums(w)[k] \in Nat
         /\ \A k \in 0 .. Len(w) : \A j \in 0 .. k : PartialSums(w)[j] <= PartialSums(w)[k]
<1>. DEFINE p == PartialSums(w)
            S == {k \in 0 .. Len(w) : p[k] \in Nat /\ \A j \in 0 .. k : p[j] <= p[k]}
<1>1. w \in Seq(Int) /\ Len(w) \in Nat
  OBVIOUS
<1>2. 0 \in S
  BY <1>1, SumsFrom0
<1>3. ASSUME NEW k \in 0 .. Len(w) - 1, k \in S PROVE k + 1 \in S
  <2>1. p[k + 1] = p[k] + w[k + 1] /\ w[k + 1] \in Nat
    BY <1>1, SumsFrom0
  <2>2. \A j \in 0 .. k : p[j] \in Int
    BY <1>1, SumsFrom0
  <2>. HIDE DEF p
  <2>. QED
    BY <1>3, <2>1, <2>2
<1>4. \A k \in 0 .. Len(w) : k \in S
  <2>. HIDE DEF S
  <2>. QED
    BY <1>1, <1>2, <1>3, UpTo
<1>. QED
  BY <1>1, <1>4 DEF Total

(* What begins with 0 and grows by the elements is the sums.               *)
LEMMA SumsAre ==
  ASSUME NEW w \in Seq(Int), NEW p, p[0] = 0,
         \A k \in 1 .. Len(w) : p[k] = p[k - 1] + w[k]
  PROVE  \A k \in 0 .. Len(w) : PartialSums(w)[k] = p[k]
<1>. DEFINE S == {k \in 0 .. Len(w) : PartialSums(w)[k] = p[k]}
<1>1. Len(w) \in Nat
  OBVIOUS
<1>2. 0 \in S
  BY <1>1, SumsFrom0
<1>3. ASSUME NEW k \in 0 .. Len(w) - 1, k \in S PROVE k + 1 \in S
  <2>1. k + 1 \in 1 .. Len(w) /\ (k + 1) - 1 = k
    BY <1>1
  <2>2. PartialSums(w)[k + 1] = PartialSums(w)[(k + 1) - 1] + w[k + 1]
    BY <2>1, SumsFrom0
  <2>. QED
    BY <1>3, <2>1, <2>2
<1>4. \A k \in 0 .. Len(w) : k \in S
  <2>. HIDE DEF S
  <2>. QED
    BY <1>1, <1>2, <1>3, UpTo
<1>. QED
  BY <1>4
=============================================================================

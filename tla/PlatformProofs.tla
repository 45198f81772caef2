--------------------------- MODULE PlatformProofs ---------------------------
(***************************************************************************)
(* Proofs about the receive path, for a ring of any size, any pool and any *)
(* wire, about the transmit path and about the timers of the main loop;    *)
(* and what the proofs of the heap and of the packet buffers show of       *)
(* these, beside the other parts.                                          *)
(***************************************************************************)
EXTENDS Platform, Sums, SequenceTheorems, FiniteSetTheorems, TLAPS

(* A descriptor's successor in the chain is a descriptor, the next one     *)
(* unless the ring wraps.                                                  *)
LEMMA NextDescInRing ==
  ASSUME NEW d \in Slots
  PROVE  /\ NextDesc(d) \in Slots
         /\ NextDesc(d) # d
         /\ NextDesc(d) = d + 1 \/ (d = RxBufNb - 1 /\ NextDesc(d) = 0)
  BY RxBufNbAssumption DEF Slots, NextDesc

(* The types hold initially and every step keeps them; the pool's bound    *)
(* needs its conservation.                                                 *)
LEMMA InitInv == Init => IInv
<1>. SUFFICES ASSUME Init PROVE IInv
  OBVIOUS
<1>. USE DEF Init, OWN
<1>1. TypeOK
  <2>1. desc \in [Slots -> 0 .. MaxFrames]
    BY FramesAssumption
  <2>2. 0 \in Slots
    BY RxBufNbAssumption DEF Slots
  <2>3. delivered \in Seq(Frames)
    OBVIOUS
  <2>. QED
    BY <2>1, <2>2, <2>3, PoolSizeAssumption, FramesAssumption DEF TypeOK
<1>2. PoolConserved
  BY PoolSizeAssumption DEF PoolConserved
<1>3. RingInTurn
  BY RxBufNbAssumption DEF RingInTurn, InUse, Place, Oldest, Slots
<1>4. DescriptorValid /\ HandInv
  BY DEF DescriptorValid, HandInv
<1>5. RingSorted
  BY DEF RingSorted
<1>. QED
  BY <1>1, <1>2, <1>3, <1>4, <1>5 DEF IInv

LEMMA TypeStep == IInv /\ [Next]_vars => TypeOK' /\ PoolConserved'
<1>. SUFFICES ASSUME IInv, [Next]_vars PROVE TypeOK' /\ PoolConserved'
  OBVIOUS
<1>. USE RxBufNbAssumption, PoolSizeAssumption, FramesAssumption
<1>. USE DEF IInv, TypeOK, PoolConserved, Frames, OWN, ring, flags, memory
<1>1. CASE FrameStored
  BY <1>1, NextDescInRing DEF FrameStored
<1>2. CASE FrameMissed
  BY <1>2 DEF FrameMissed
<1>3. CASE EnterIrq
  BY <1>3 DEF EnterIrq
<1>4. CASE CheckSize
  BY <1>4 DEF CheckSize
<1>5. CASE TakeFrame
  BY <1>5, NextDescInRing DEF TakeFrame
<1>6. CASE CopyFrame
  BY <1>6 DEF CopyFrame, HandInv, DescriptorValid
<1>7. CASE ReleaseDesc
  BY <1>7 DEF ReleaseDesc
<1>8. CASE Input
  BY <1>8 DEF Input, HandInv
<1>9. CASE ClearR
  BY <1>9 DEF ClearR
<1>10. CASE ClearNIS
  BY <1>10 DEF ClearNIS
<1>11. CASE StackFrees
  BY <1>11 DEF StackFrees
<1>12. CASE UNCHANGED vars
  BY <1>12 DEF vars
<1>. QED
  BY <1>1, <1>2, <1>3, <1>4, <1>5, <1>6, <1>7, <1>8, <1>9, <1>10, <1>11,
     <1>12 DEF Next, Engine, Handler

(* What the geometry of the ring gives: places are in range, tell          *)
(* descriptors apart, and the engine is at the first free place.           *)
LEMMA Geometry ==
  ASSUME TypeOK
  PROVE  /\ Oldest \in Slots
         /\ \A d \in Slots : Place(d) \in Slots
         /\ \A c, d \in Slots : Place(c) = Place(d) => c = d
         /\ InUse \in 0 .. RxBufNb
         /\ Place(Oldest) = 0
         /\ desc[dma] = OWN => InUse < RxBufNb /\ Place(dma) = InUse
<1>1. Oldest \in Slots /\ dma \in Slots
  BY DEF TypeOK, Oldest
<1>2. \A d \in Slots : Place(d) \in Slots
  BY <1>1, RxBufNbAssumption DEF Place, Slots
<1>3. \A c, d \in Slots : Place(c) = Place(d) => c = d
  BY <1>1, RxBufNbAssumption DEF Place, Slots
<1>4. Place(Oldest) = 0
  BY <1>1, RxBufNbAssumption DEF Place, Slots
<1>5. InUse \in 0 .. RxBufNb
  BY <1>1, <1>2, RxBufNbAssumption DEF InUse, Slots
<1>6. desc[dma] = OWN => InUse < RxBufNb /\ Place(dma) = InUse
  <2>1. CASE dma = Oldest
    BY <2>1, <1>4, RxBufNbAssumption DEF InUse
  <2>2. CASE dma # Oldest
    BY <2>2, <1>1, <1>2, RxBufNbAssumption DEF InUse, Slots
  <2>. QED
    BY <2>1, <2>2
<1>. QED
  BY <1>1, <1>2, <1>3, <1>4, <1>5, <1>6

(* Actions that touch neither the ring nor the handler's hold on it.       *)
LEMMA RingUnchanged ==
  ASSUME IInv, UNCHANGED <<desc, dma, get, hand>>,
         (pc \in {"copy", "release"}) <=> (pc' \in {"copy", "release"})
  PROVE  /\ Oldest' = Oldest
         /\ InUse' = InUse
         /\ \A d \in Slots : Place(d)' = Place(d)
         /\ RingInTurn'
  BY DEF IInv, RingInTurn, InUse, Place, Oldest

(* The engine and the processor keep to their sides of the ring.           *)
LEMMA RingStep == IInv /\ [Next]_vars => RingInTurn'
<1>. SUFFICES ASSUME IInv, [Next]_vars PROVE RingInTurn'
  OBVIOUS
<1>. USE DEF ring, flags, memory
<1>1. CASE FrameStored
  <2>1. /\ desc[dma] = OWN /\ dma \in Slots
        /\ desc' = [desc EXCEPT ![dma] = nextFrame]
        /\ dma' = NextDesc(dma)
        /\ nextFrame # OWN
        /\ UNCHANGED <<get, hand, pc>>
    BY <1>1, FramesAssumption DEF FrameStored, IInv, TypeOK, Frames, OWN
  <2>2. Oldest' = Oldest /\ \A d \in Slots : Place(d)' = Place(d)
    BY <2>1 DEF Oldest, Place
  <2>3. InUse' = InUse + 1
    <3>1. TypeOK /\ RingInTurn /\ dma' \in Slots
      BY <2>1, NextDescInRing DEF IInv
    <3>3. desc'[Oldest] # OWN
      <4>1. CASE InUse = 0
        BY <2>1, <3>1, <4>1, Geometry DEF TypeOK
      <4>2. CASE InUse # 0
        <5>1. Oldest \in Slots /\ Place(Oldest) < InUse
          BY <3>1, <4>2, Geometry
        <5>. QED
          BY <2>1, <3>1, <5>1 DEF RingInTurn, TypeOK
      <4>. QED
        BY <4>1, <4>2
    <3>. QED
      BY <2>1, <2>2, <3>1, <3>3, Geometry, NextDescInRing, RxBufNbAssumption
         DEF InUse, Place, Slots, NextDesc
  <2>4. InUse \in Nat /\ \A d \in Slots : Place(d) \in Nat
    BY Geometry, RxBufNbAssumption DEF IInv, Slots
  <2>5. ASSUME NEW d \in Slots
        PROVE  desc'[d] # OWN <=> Place(d) < InUse + 1
    <3>1. desc[d] # OWN <=> Place(d) < InUse
      BY DEF IInv, RingInTurn
    <3>2. Place(dma) = InUse
      BY <2>1, Geometry DEF IInv
    <3>3. desc'[d] = IF d = dma THEN nextFrame ELSE desc[d]
      BY <2>1 DEF IInv, TypeOK
    <3>4. Place(d) = InUse => d = dma
      BY <2>1, <3>2, Geometry DEF IInv
    <3>. QED
      BY <2>1, <2>4, <3>1, <3>2, <3>3, <3>4
  <2>. QED
    BY <2>2, <2>3, <2>5 DEF RingInTurn
<1>2. CASE TakeFrame
  <2>1. Oldest' = Oldest /\ UNCHANGED <<desc, dma>>
    BY <1>2 DEF TakeFrame, Oldest
  <2>. QED
    BY <2>1 DEF IInv, RingInTurn, InUse, Place
<1>3. CASE ReleaseDesc
  <2>1. /\ hand \in Slots /\ get = NextDesc(hand) /\ desc[hand] # OWN
        /\ desc' = [desc EXCEPT ![hand] = OWN]
        /\ UNCHANGED <<dma, get, hand>>
        /\ Oldest = hand /\ Oldest' = get
    BY <1>3 DEF ReleaseDesc, IInv, TypeOK, HandInv, DescriptorValid, Oldest
  <2>2. \A d \in Slots :
          Place(d)' = IF d = hand THEN RxBufNb - 1 ELSE Place(d) - 1
    BY <2>1, NextDescInRing, RxBufNbAssumption DEF Place, Slots
  <2>3. Place(hand) = 0 /\ InUse > 0 /\ InUse \in 0 .. RxBufNb
    BY <2>1, Geometry, RxBufNbAssumption
       DEF IInv, RingInTurn, Place, Slots
  <2>4. InUse' = InUse - 1
    <3>1. TypeOK /\ RingInTurn /\ dma \in Slots /\ get \in Slots
      BY DEF IInv, TypeOK
    <3>2. get # hand /\ Place(get) = 1
      BY <2>1, NextDescInRing, RxBufNbAssumption DEF Place, Slots
    <3>3. desc'[get] = OWN <=> InUse = 1
      BY <2>1, <2>3, <3>1, <3>2 DEF RingInTurn, TypeOK
    <3>4. InUse' = IF dma # get THEN Place(dma)'
                   ELSE IF desc'[get] = OWN THEN 0 ELSE RxBufNb
      BY <2>1 DEF InUse
    <3>5. InUse = IF dma # hand THEN Place(dma) ELSE RxBufNb
      BY <2>1 DEF InUse
    <3>. QED
      BY <2>1, <2>2, <2>3, <3>1, <3>2, <3>3, <3>4, <3>5, RxBufNbAssumption
  <2>5. ASSUME NEW d \in Slots
        PROVE  desc'[d] # OWN <=> Place(d)' < InUse - 1
    <3>1. desc[d] # OWN <=> Place(d) < InUse
      BY DEF IInv, RingInTurn
    <3>2. desc'[d] = IF d = hand THEN OWN ELSE desc[d]
      BY <2>1 DEF IInv, TypeOK
    <3>3. Place(d) \in Slots
      BY Geometry DEF IInv
    <3>. QED
      BY <2>2, <2>3, <3>1, <3>2, <3>3, RxBufNbAssumption DEF Slots
  <2>. QED
    BY <2>4, <2>5 DEF RingInTurn
<1>4. CASE FrameMissed
  BY <1>4, RingUnchanged DEF FrameMissed
<1>5. CASE EnterIrq
  BY <1>5, RingUnchanged DEF EnterIrq
<1>6. CASE CheckSize
  BY <1>6, RingUnchanged DEF CheckSize
<1>7. CASE CopyFrame
  BY <1>7, RingUnchanged DEF CopyFrame
<1>8. CASE Input
  BY <1>8, RingUnchanged DEF Input
<1>9. CASE ClearR
  BY <1>9, RingUnchanged DEF ClearR
<1>10. CASE ClearNIS
  BY <1>10, RingUnchanged DEF ClearNIS
<1>11. CASE StackFrees
  BY <1>11, RingUnchanged DEF StackFrees
<1>12. CASE UNCHANGED vars
  BY <1>12, RingUnchanged DEF vars
<1>. QED
  BY <1>1, <1>2, <1>3, <1>4, <1>5, <1>6, <1>7, <1>8, <1>9, <1>10, <1>11,
     <1>12 DEF Next, Engine, Handler

(* The handler holds a descriptor of the processor, the one before the     *)
(* next to get, and carries the pbuf filled from it.                       *)
LEMMA HandStep == IInv /\ [Next]_vars => DescriptorValid' /\ HandInv'
<1>. SUFFICES ASSUME IInv, [Next]_vars PROVE DescriptorValid' /\ HandInv'
  OBVIOUS
<1>. USE DEF IInv, TypeOK, DescriptorValid, HandInv, OWN, ring, flags, memory
<1>1. CASE FrameStored
  BY <1>1, FramesAssumption DEF FrameStored, Frames
<1>2. CASE CheckSize
  BY <1>2 DEF CheckSize, RxPktSizeNonZero
<1>3. CASE TakeFrame
  BY <1>3 DEF TakeFrame, NextDesc
<1>4. CASE CopyFrame
  BY <1>4 DEF CopyFrame, NextDesc
<1>5. CASE ReleaseDesc
  BY <1>5 DEF ReleaseDesc
<1>6. CASE FrameMissed \/ EnterIrq \/ Input
  BY <1>6 DEF FrameMissed, EnterIrq, Input, NextDesc
<1>7. CASE ClearR \/ ClearNIS \/ StackFrees
  BY <1>7 DEF ClearR, ClearNIS, StackFrees, NextDesc
<1>8. CASE UNCHANGED vars
  BY <1>8 DEF vars, NextDesc
<1>. QED
  BY <1>1, <1>2, <1>3, <1>4, <1>5, <1>6, <1>7, <1>8 DEF Next, Engine, Handler

(* Steps that leave the ring and the order of its places alone keep its    *)
(* frames sorted, as long as the pbuf in hand does not change.             *)
LEMMA SortedUnchanged ==
  ASSUME IInv, UNCHANGED <<desc, dma, get, hand, held, nextFrame>>,
         (pc \in {"copy", "release"}) <=> (pc' \in {"copy", "release"}),
         pc' = "input" => pc = "input"
  PROVE  RingSorted'
  BY RingUnchanged DEF IInv, RingSorted

(* The frames of the ring stay in the order of the wire.                   *)
LEMMA SortedStep == IInv /\ [Next]_vars => RingSorted'
<1>. SUFFICES ASSUME IInv, [Next]_vars PROVE RingSorted'
  OBVIOUS
<1>. USE DEF ring, flags, memory
<1>0. /\ TypeOK /\ RingInTurn /\ RingSorted /\ HandInv /\ DescriptorValid
      /\ nextFrame \in Nat /\ held \in Nat
      /\ \A d \in Slots : desc[d] \in Nat /\ Place(d) \in Nat
  <2>1. \A d \in Slots : d \in Nat
    BY RxBufNbAssumption DEF Slots
  <2>2. \A d \in Slots : Place(d) \in Nat
    BY <2>1, Geometry DEF IInv
  <2>. QED
    BY <2>2, FramesAssumption DEF IInv, TypeOK
<1>1. CASE FrameStored
  <2>1. /\ desc[dma] = OWN /\ dma \in Slots
        /\ nextFrame' = nextFrame + 1
        /\ UNCHANGED <<get, hand, pc, held>>
    BY <1>1, <1>0 DEF FrameStored, TypeOK
  <2>2. \A d \in Slots : Place(d)' = Place(d)
    BY <2>1 DEF Oldest, Place
  <2>3. \A d \in Slots : desc'[d] = IF d = dma THEN nextFrame ELSE desc[d]
    BY <1>1, <1>0 DEF FrameStored, TypeOK
  <2>4. \A d \in Slots : desc[d] # OWN => Place(d) < Place(dma)
    BY <2>1, <1>0, Geometry DEF RingInTurn
  <2>5. \A d \in Slots : desc'[d] < nextFrame'
    BY <2>1, <2>3, <1>0 DEF RingSorted
  <2>6. ASSUME NEW c \in Slots, NEW d \in Slots,
               desc'[c] # OWN, desc'[d] # OWN, Place(c) < Place(d)
        PROVE  desc'[c] < desc'[d]
    <3>1. c # dma
      BY <2>1, <2>3, <2>4, <2>6, <1>0
    <3>. QED
      BY <3>1, <2>3, <2>6, <1>0 DEF RingSorted
  <2>7. held' < nextFrame'
    BY <2>1, <1>0 DEF RingSorted
  <2>8. pc' = "input" => \A d \in Slots : desc'[d] # OWN => held' < desc'[d]
    BY <2>1, <2>3, <1>0 DEF RingSorted
  <2>. QED
    BY <2>2, <2>5, <2>6, <2>7, <2>8 DEF RingSorted
<1>2. CASE FrameMissed
  <2>1. /\ nextFrame' = nextFrame + 1
        /\ UNCHANGED <<desc, get, hand, pc, held>>
    BY <1>2 DEF FrameMissed
  <2>2. \A d \in Slots : Place(d)' = Place(d)
    BY <2>1 DEF Oldest, Place
  <2>. QED
    BY <2>1, <2>2, <1>0 DEF RingSorted
<1>3. CASE TakeFrame
  <2>1. /\ Oldest' = Oldest /\ UNCHANGED <<desc, held, nextFrame>>
        /\ pc' # "input"
    BY <1>3 DEF TakeFrame, Oldest
  <2>. QED
    BY <2>1, <1>0 DEF RingSorted, Place
<1>4. CASE CopyFrame
  <2>1. /\ UNCHANGED <<desc, get, hand, nextFrame>>
        /\ pc' # "input"
        /\ held' = desc[hand] \/ held' = 0
        /\ Oldest' = Oldest /\ hand \in Slots
    BY <1>4, <1>0 DEF CopyFrame, Oldest, TypeOK
  <2>2. held' < nextFrame'
    BY <2>1, <1>0 DEF RingSorted, TypeOK
  <2>. QED
    BY <2>1, <2>2, <1>0 DEF RingSorted, Place
<1>5. CASE ReleaseDesc
  <2>1. /\ hand \in Slots /\ get = NextDesc(hand) /\ desc[hand] # OWN
        /\ UNCHANGED <<dma, get, hand, held, nextFrame>>
        /\ pc' = "input" => held = desc[hand]
        /\ Oldest = hand /\ Oldest' = get
    BY <1>5, <1>0 DEF ReleaseDesc, TypeOK, HandInv, DescriptorValid, Oldest
  <2>2. \A d \in Slots :
          Place(d)' = IF d = hand THEN RxBufNb - 1 ELSE Place(d) - 1
    BY <2>1, NextDescInRing, RxBufNbAssumption DEF Place, Slots
  <2>3. \A d \in Slots : desc'[d] = IF d = hand THEN OWN ELSE desc[d]
    BY <1>5, <1>0 DEF ReleaseDesc, TypeOK
  <2>4. \A d \in Slots : d # hand => Place(hand) < Place(d)
    BY <2>1, <1>0, Geometry
  <2>5. \A d \in Slots : desc'[d] < nextFrame'
    BY <2>1, <2>3, <1>0 DEF RingSorted, OWN
  <2>6. ASSUME NEW c \in Slots, NEW d \in Slots,
               desc'[c] # OWN, desc'[d] # OWN, Place(c)' < Place(d)'
        PROVE  desc'[c] < desc'[d]
    BY <2>2, <2>3, <2>6, <1>0 DEF RingSorted
  <2>7. pc' = "input" => \A d \in Slots : desc'[d] # OWN => held' < desc'[d]
    BY <2>1, <2>3, <2>4, <1>0 DEF RingSorted
  <2>. QED
    BY <2>1, <2>5, <2>6, <2>7, <1>0 DEF RingSorted
<1>6. CASE Input
  <2>1. /\ UNCHANGED <<desc, get, hand, nextFrame>>
        /\ pc' = "check" /\ held' = 0
        /\ Oldest' = Oldest
    BY <1>6 DEF Input, Oldest
  <2>2. held' < nextFrame'
    BY <2>1, <1>0 DEF TypeOK
  <2>. QED
    BY <2>1, <2>2, <1>0 DEF RingSorted, Place
<1>7. CASE EnterIrq
  BY <1>7, SortedUnchanged DEF EnterIrq
<1>8. CASE CheckSize
  BY <1>8, SortedUnchanged DEF CheckSize
<1>9. CASE ClearR
  BY <1>9, SortedUnchanged DEF ClearR
<1>10. CASE ClearNIS
  BY <1>10, SortedUnchanged DEF ClearNIS
<1>11. CASE StackFrees
  BY <1>11, SortedUnchanged DEF StackFrees
<1>12. CASE UNCHANGED vars
  BY <1>12, SortedUnchanged DEF vars
<1>. QED
  BY <1>1, <1>2, <1>3, <1>4, <1>5, <1>6, <1>7, <1>8, <1>9, <1>10, <1>11,
     <1>12 DEF Next, Engine, Handler

(* The inductive invariant holds in every reachable state.                 *)
THEOREM Invariance == Spec => []IInv
<1>1. IInv /\ [Next]_vars => IInv'
  BY TypeStep, RingStep, HandStep, SortedStep DEF IInv
<1>. QED
  BY InitInv, <1>1, PTL DEF Spec

(* Types, for every size of the ring, pool and wire.                       *)
THEOREM TypeCorrect == Spec => []TypeOK
<1>1. IInv => TypeOK
  BY DEF IInv
<1>. QED
  BY Invariance, <1>1, PTL

(* Processor and DMA engine each stay on their side of the ring, and       *)
(* low_level_input never follows a NULL or a DMA-owned descriptor.         *)
THEOREM RingSafe == Spec => [](RingInTurn /\ DescriptorValid)
<1>1. IInv => RingInTurn /\ DescriptorValid
  BY DEF IInv
<1>. QED
  BY Invariance, <1>1, PTL

(* Every pbuf of the pool is free, in hand or with the stack.              *)
THEOREM PoolSafe == Spec => []PoolConserved
<1>1. IInv => PoolConserved
  BY DEF IInv
<1>. QED
  BY Invariance, <1>1, PTL

-----------------------------------------------------------------------------
(* The receive path implements the order-keeping lossy channel: every step *)
(* is a step of FrameChannel or leaves the channel unchanged.              *)
THEOREM Refinement == Spec => ImplementsChannel
<1>1. Init => Channel!Init
  <2>. SUFFICES ASSUME Init PROVE Channel!Init
    OBVIOUS
  <2>1. PendingFrames = {}
    BY DEF Init, PendingFrames, OWN
  <2>. QED
    BY <2>1 DEF Init, Channel!Init
<1>2. IInv /\ [Next]_vars => [Channel!Next]_(Channel!chanVars)
  <2>. SUFFICES ASSUME IInv, [Next]_vars
                PROVE  Channel!Next \/ UNCHANGED Channel!chanVars
    OBVIOUS
  <2>. USE DEF ring, flags, memory
  <2>0. /\ TypeOK /\ HandInv /\ RingSorted /\ DescriptorValid
        /\ nextFrame \in Nat \ {0} /\ held \in Nat
        /\ \A d \in Slots : desc[d] \in Nat
        /\ dma \in Slots /\ hand \in Slots
    BY FramesAssumption DEF IInv, TypeOK
  <2>1. CASE FrameStored
    <3>1. \A d \in Slots : desc'[d] = IF d = dma THEN nextFrame ELSE desc[d]
      BY <2>1, <2>0 DEF FrameStored, TypeOK
    <3>2. PendingFrames' = PendingFrames \cup {nextFrame}
      BY <2>1, <3>1, <2>0 DEF FrameStored, PendingFrames, OWN
    <3>. QED
      BY <2>1, <3>2 DEF FrameStored, Channel!Next, Channel!Arrive
  <2>2. CASE FrameMissed
    <3>1. PendingFrames' = PendingFrames
      BY <2>2 DEF FrameMissed, PendingFrames
    <3>. QED
      BY <2>2, <3>1 DEF FrameMissed, Channel!Next, Channel!Arrive
  <2>3. CASE CopyFrame
    <3>1. held = 0 /\ held' \in {0, desc[hand]} /\ UNCHANGED desc
      BY <2>3, <2>0 DEF CopyFrame, HandInv
    <3>2. PendingFrames' = PendingFrames
      BY <3>1, <2>0 DEF PendingFrames, OWN
    <3>. QED
      BY <2>3, <3>2 DEF CopyFrame, Channel!chanVars
  <2>4. CASE ReleaseDesc
    <3>1. \A d \in Slots : desc'[d] = IF d = hand THEN OWN ELSE desc[d]
      BY <2>4, <2>0 DEF ReleaseDesc, TypeOK
    <3>2. /\ desc[hand] # OWN /\ UNCHANGED <<held, nextFrame, delivered>>
          /\ pc = "release"
      BY <2>4, <2>0 DEF ReleaseDesc, DescriptorValid
    <3>3. CASE held # 0
      <4>1. held = desc[hand]
        BY <3>2, <3>3, <2>0 DEF HandInv
      <4>2. PendingFrames' = PendingFrames
        BY <3>1, <3>2, <4>1, <2>0 DEF PendingFrames
      <4>. QED
        BY <3>2, <4>2 DEF Channel!chanVars
    <3>4. CASE held = 0
      <4>1. \A d \in Slots :
              d # hand /\ desc[d] # OWN => desc[hand] < desc[d]
        <5>1. TypeOK /\ Oldest = hand
          BY <3>2, <2>0 DEF Oldest
        <5>2. \A d \in Slots : d # hand => Place(hand) < Place(d)
          <6>1. \A d \in Slots : Place(d) \in Nat
            BY <5>1, Geometry, RxBufNbAssumption DEF Slots
          <6>. QED
            BY <5>1, <6>1, <2>0, Geometry
        <5>. QED
          BY <3>2, <5>2, <2>0 DEF RingSorted
      <4>2. Channel!IsOldest(desc[hand])
        BY <3>2, <3>4, <4>1, <2>0 DEF Channel!IsOldest, PendingFrames, OWN
      <4>3. PendingFrames' = PendingFrames \ {desc[hand]}
        <5>1. \A d \in Slots : d # hand => desc[d] # desc[hand]
          BY <4>1, <3>2, <2>0
        <5>2. PendingFrames = {desc[d] : d \in Slots} \ {OWN}
          BY <3>4 DEF PendingFrames, OWN
        <5>3. PendingFrames' = {desc'[d] : d \in Slots} \ {OWN}
          BY <3>2, <3>4 DEF PendingFrames, OWN
        <5>4. ASSUME NEW f \in PendingFrames'
              PROVE  f \in PendingFrames \ {desc[hand]}
          BY <3>1, <5>1, <5>2, <5>3
        <5>5. ASSUME NEW f \in PendingFrames \ {desc[hand]}
              PROVE  f \in PendingFrames'
          BY <3>1, <5>2, <5>3
        <5>. QED
          BY <5>4, <5>5
      <4>. QED
        BY <3>2, <4>2, <4>3
           DEF Channel!Next, Channel!Drop, Channel!IsOldest
    <3>. QED
      BY <3>3, <3>4
  <2>5. CASE Input
    <3>1. /\ held # 0 /\ held' = 0
          /\ UNCHANGED <<desc, nextFrame>>
          /\ delivered' = Append(delivered, held)
          /\ \A d \in Slots : desc[d] # OWN => held < desc[d]
      BY <2>5, <2>0 DEF Input, HandInv, RingSorted
    <3>2. Channel!IsOldest(held)
      BY <3>1, <2>0 DEF Channel!IsOldest, PendingFrames, OWN
    <3>3. PendingFrames' = PendingFrames \ {held}
      BY <3>1, <2>0 DEF PendingFrames, OWN
    <3>. QED
      BY <3>1, <3>2, <3>3 DEF Channel!Next, Channel!Deliver, Channel!IsOldest
  <2>6. CASE EnterIrq \/ CheckSize \/ TakeFrame
    BY <2>6 DEF EnterIrq, CheckSize, TakeFrame, Channel!chanVars, PendingFrames
  <2>7. CASE ClearR \/ ClearNIS \/ StackFrees
    BY <2>7 DEF ClearR, ClearNIS, StackFrees, Channel!chanVars, PendingFrames
  <2>8. CASE UNCHANGED vars
    BY <2>8 DEF vars, Channel!chanVars, PendingFrames
  <2>. QED
    BY <2>1, <2>2, <2>3, <2>4, <2>5, <2>6, <2>7, <2>8
       DEF Next, Engine, Handler
<1>. QED
  BY <1>1, <1>2, Invariance, PTL DEF Spec, ImplementsChannel, Channel!Spec

-----------------------------------------------------------------------------
(* What was delivered is older than what is pending, which is older than   *)
(* what the wire has yet to bring.                                         *)
ChannelInv ==
  /\ nextFrame \in Nat
  /\ PendingFrames \subseteq Nat
  /\ delivered \in Seq(Nat)
  /\ \A f \in PendingFrames : f < nextFrame
  /\ \A i \in DOMAIN delivered : delivered[i] < nextFrame
  /\ \A i \in DOMAIN delivered, f \in PendingFrames : delivered[i] < f
  /\ Channel!InOrder

(* Frames reach netif->input in the order of the wire, none of them twice. *)
THEOREM OrderKept == Spec => []Channel!InOrder
<1>1. Channel!Init => ChannelInv
  BY DEF Channel!Init, ChannelInv, Channel!InOrder
<1>2. ChannelInv /\ [Channel!Next]_(Channel!chanVars) => ChannelInv'
  <2>. SUFFICES ASSUME ChannelInv, [Channel!Next]_(Channel!chanVars) PROVE ChannelInv'
    OBVIOUS
  <2>1. CASE Channel!Arrive
    BY <2>1 DEF Channel!Arrive, ChannelInv, Channel!InOrder
  <2>2. ASSUME NEW f \in PendingFrames, Channel!Deliver(f)
        PROVE  ChannelInv'
    <3>1. /\ f \in Nat /\ f < nextFrame
          /\ nextFrame' = nextFrame
          /\ \A i \in DOMAIN delivered : delivered[i] < f
          /\ PendingFrames' = PendingFrames \ {f}
      BY <2>2 DEF Channel!Deliver, ChannelInv
    <3>2. /\ delivered' \in Seq(Nat)
          /\ Len(delivered') = Len(delivered) + 1
          /\ DOMAIN delivered' = 1 .. Len(delivered) + 1
          /\ DOMAIN delivered = 1 .. Len(delivered)
          /\ \A i \in 1 .. Len(delivered) : delivered'[i] = delivered[i]
          /\ delivered'[Len(delivered) + 1] = f
      BY <2>2, <3>1 DEF Channel!Deliver, ChannelInv
    <3>3. \A g \in PendingFrames' : f < g
      BY <2>2, <3>1 DEF Channel!Deliver, Channel!IsOldest, ChannelInv
    <3>4. \A i \in DOMAIN delivered' :
            i \in DOMAIN delivered \/ i = Len(delivered) + 1
      BY <3>2
    <3>5. \A i \in DOMAIN delivered', g \in PendingFrames' : delivered'[i] < g
      BY <3>1, <3>2, <3>3, <3>4 DEF ChannelInv
    <3>6. \A i \in DOMAIN delivered' : delivered'[i] < nextFrame'
      BY <3>1, <3>2, <3>4 DEF ChannelInv
    <3>7. Channel!InOrder'
      <4>1. \A i, j \in 1 .. Len(delivered) : i < j => delivered'[i] < delivered'[j]
        BY <3>2 DEF Channel!InOrder, ChannelInv
      <4>2. \A i \in 1 .. Len(delivered) :
              delivered'[i] < delivered'[Len(delivered) + 1]
        BY <3>1, <3>2
      <4>3. Len(delivered) \in Nat
        BY DEF ChannelInv
      <4>. QED
        BY <3>2, <4>1, <4>2, <4>3 DEF Channel!InOrder
    <3>. QED
      BY <3>1, <3>2, <3>5, <3>6, <3>7 DEF ChannelInv
  <2>3. ASSUME NEW f \in PendingFrames, Channel!Drop(f)
        PROVE  ChannelInv'
    BY <2>3 DEF Channel!Drop, ChannelInv, Channel!InOrder
  <2>4. CASE UNCHANGED Channel!chanVars
    BY <2>4 DEF Channel!chanVars, ChannelInv, Channel!InOrder
  <2>. QED
    BY <2>1, <2>2, <2>3, <2>4 DEF Channel!Next
<1>3. ChannelInv => Channel!InOrder
  BY DEF ChannelInv
<1>. QED
  BY <1>1, <1>2, <1>3, Refinement, PTL DEF ImplementsChannel, Channel!Spec

-----------------------------------------------------------------------------
(* The timers of the main loop, for any number of timers, any periods, any *)
(* tick and any width of the clock, as long as the longest delay of the    *)
(* loop fits into the clock on top of the longest period.                  *)
LoopAssumptions ==
  Loop!TimersAssumption /\ Loop!ClockAssumption /\ Loop!PeriodAssumption

(* The true time since a timer was stamped.                                *)
Elapsed(t) == age[t] * Tick

LoopTypeInv ==
  /\ lwipTime \in Nat /\ lwipTime < LoopWrap
  /\ stamp \in [Loop!All -> Nat] /\ \A t \in Loop!All : stamp[t] < LoopWrap
  /\ at \in Loop!All /\ due \in BOOLEAN
  /\ waited \in [Loop!All -> Nat] /\ \A t \in Loop!All : waited[t] <= Lag
  /\ age \in [Loop!All -> Nat]

(* The difference of the clock and a stamp is the true time: it was never  *)
(* long enough for the clock to come round.                                *)
Exact == \A t \in Loop!All : Loop!Minus(lwipTime, stamp[t]) = Elapsed(t)

(* A timer was not due at its last look, waited[t] ticks ago; the one that *)
(* is about to be called had not been due at the look before that.         *)
Bounded ==
  \A t \in Loop!All :
    Elapsed(t) < Period[t] + waited[t] * Tick
                 + (IF due /\ t = at THEN Lag * Tick ELSE 0)

LoopInv ==
  /\ LoopTypeInv /\ Exact /\ Bounded
  /\ due => Elapsed(at) >= Period[at]

(* The products with Tick that occur, for provers of linear arithmetic.    *)
LEMMA Products ==
  ASSUME Loop!ClockAssumption
  PROVE  /\ \A n \in Nat : n * Tick \in Nat /\ (n + 1) * Tick = n * Tick + Tick
         /\ 0 * Tick = 0
         /\ \A n \in Nat : n <= Lag => n * Tick <= Lag * Tick
         /\ 2 * Lag * Tick = Lag * Tick + Lag * Tick
         /\ \A n \in Nat : n <= n * Tick
<1>1. Tick \in Nat /\ Tick > 0 /\ Lag \in Nat
  BY DEF Loop!ClockAssumption
<1>2. ASSUME NEW n \in Nat
      PROVE  n * Tick \in Nat /\ (n + 1) * Tick = n * Tick + Tick /\ n <= n * Tick
  BY <1>1
<1>3. ASSUME NEW n \in Nat, n <= Lag PROVE n * Tick <= Lag * Tick
  <2>1. (Lag - n) * Tick >= 0 /\ (Lag - n) * Tick = Lag * Tick - n * Tick
    BY <1>1, <1>3
  <2>. QED
    BY <1>1, <2>1
<1>. QED
  BY <1>1, <1>2, <1>3

LEMMA LoopInBounds == ASSUME LoopAssumptions, LoopInv PROVE Loop!NotLate
<1>. SUFFICES ASSUME NEW t \in Loop!All
              PROVE  age[t] * Tick < Period[t] + 2 * Lag * Tick
  BY DEF Loop!NotLate
<1>1. /\ age[t] * Tick < Period[t] + waited[t] * Tick
                         + (IF due /\ t = at THEN Lag * Tick ELSE 0)
      /\ waited[t] \in Nat /\ waited[t] <= Lag /\ age[t] \in Nat
      /\ Period[t] \in Nat
  BY DEF LoopInv, Bounded, Elapsed, LoopTypeInv, LoopAssumptions,
         Loop!PeriodAssumption, Loop!All
<1>2. /\ age[t] * Tick \in Nat /\ waited[t] * Tick \in Nat /\ Lag * Tick \in Nat
      /\ waited[t] * Tick <= Lag * Tick
      /\ 2 * Lag * Tick = Lag * Tick + Lag * Tick
  BY <1>1, Products DEF LoopAssumptions, Loop!ClockAssumption
<1>. QED
  BY <1>1, <1>2

LEMMA LoopStarts == LoopAssumptions /\ Loop!Init => LoopInv
<1>. SUFFICES ASSUME LoopAssumptions, Loop!Init PROVE LoopInv
  OBVIOUS
<1>1. /\ \A t \in Loop!All : Period[t] \in Nat /\ Period[t] > 0
      /\ LoopWrap \in Nat /\ Lag \in Nat /\ 1 \in Loop!All /\ 0 * Tick = 0
      /\ 2 * Lag * Tick \in Nat
      /\ \A t \in Loop!All : Period[t] + 2 * Lag * Tick <= LoopWrap
  BY DEF LoopAssumptions, Loop!PeriodAssumption, Loop!ClockAssumption,
         Loop!TimersAssumption, Loop!All
<1>2. LoopWrap > 0
  BY <1>1
<1>3. LoopTypeInv
  <2>1. due \in BOOLEAN
    BY DEF Loop!Init
  <2>2. /\ lwipTime \in Nat /\ lwipTime < LoopWrap /\ at \in Loop!All
        /\ stamp \in [Loop!All -> Nat]
        /\ \A t \in Loop!All : stamp[t] < LoopWrap
    BY <1>1, <1>2 DEF Loop!Init
  <2>3. /\ waited \in [Loop!All -> Nat] /\ \A t \in Loop!All : waited[t] <= Lag
        /\ age \in [Loop!All -> Nat]
    BY <1>1 DEF Loop!Init
  <2>. QED
    BY <2>1, <2>2, <2>3 DEF LoopTypeInv
<1>4. \A t \in Loop!All : Elapsed(t) = 0 /\ waited[t] * Tick = 0 /\ stamp[t] = 0
  BY <1>1 DEF Loop!Init, Elapsed
<1>5. Exact
  BY <1>4 DEF Loop!Init, Exact, Loop!Minus
<1>6. Bounded
  BY <1>1, <1>4 DEF Loop!Init, Bounded
<1>. QED
  BY <1>3, <1>5, <1>6 DEF Loop!Init, LoopInv

(* A tick of SysTick_Handler, which may fall between test and stamp.       *)
LEMMA TickSafe == ASSUME LoopAssumptions, LoopInv, Loop!SysTick PROVE LoopInv'
<1>1. /\ Tick \in Nat /\ Tick > 0 /\ LoopWrap \in Nat /\ Lag \in Nat
      /\ \A t \in Loop!All : Period[t] \in Nat
      /\ \A t \in Loop!All : Period[t] + 2 * Lag * Tick <= LoopWrap
  BY DEF LoopAssumptions, Loop!ClockAssumption, Loop!PeriodAssumption, Loop!All
<1>2. /\ \A n \in Nat : n * Tick \in Nat /\ (n + 1) * Tick = n * Tick + Tick
      /\ \A n \in Nat : n <= Lag => n * Tick <= Lag * Tick
      /\ 2 * Lag * Tick = Lag * Tick + Lag * Tick
      /\ \A n \in Nat : n <= n * Tick
  BY Products DEF LoopAssumptions
<1>3. ASSUME NEW t \in Loop!All
      PROVE  /\ age'[t] = age[t] + 1 /\ waited'[t] = waited[t] + 1 /\ waited'[t] <= Lag
             /\ Elapsed(t)' = Elapsed(t) + Tick
             /\ waited'[t] * Tick = waited[t] * Tick + Tick
             /\ Elapsed(t)' < Period[t] + waited'[t] * Tick
                              + (IF due /\ t = at THEN Lag * Tick ELSE 0)
             /\ Elapsed(t)' < LoopWrap
  <2>1. age[t] \in Nat /\ waited[t] \in Nat /\ waited[t] + 1 <= Lag
    BY <1>1 DEF LoopInv, LoopTypeInv, Loop!SysTick
  <2>2. Elapsed(t) < LoopWrap
    <3>1. /\ Elapsed(t) < Period[t] + 2 * Lag * Tick
          /\ Period[t] + 2 * Lag * Tick <= LoopWrap
      BY <1>1, LoopInBounds DEF Loop!NotLate, Elapsed
    <3>2. Elapsed(t) \in Nat /\ 2 * Lag * Tick \in Nat /\ Period[t] \in Nat
      BY <1>1, <1>2, <2>1 DEF Elapsed
    <3>. QED
      BY <1>1, <3>1, <3>2
  <2>3. age[t] < LoopWrap
    <3>1. age[t] <= Elapsed(t) /\ Elapsed(t) \in Nat
      BY <1>2, <2>1 DEF Elapsed
    <3>. QED
      BY <1>1, <2>1, <2>2, <3>1
  <2>4. age'[t] = age[t] + 1 /\ waited'[t] = waited[t] + 1
    BY <2>3 DEF Loop!SysTick
  <2>5. /\ Elapsed(t)' = Elapsed(t) + Tick /\ Elapsed(t) \in Nat
        /\ waited'[t] * Tick = waited[t] * Tick + Tick /\ waited[t] * Tick \in Nat
    BY <1>2, <2>1, <2>4 DEF Elapsed
  <2>6. waited'[t] * Tick <= Lag * Tick /\ Lag * Tick \in Nat
    BY <1>1, <1>2, <2>1, <2>4
  <2>7. Elapsed(t) < Period[t] + waited[t] * Tick
                     + (IF due /\ t = at THEN Lag * Tick ELSE 0)
    BY DEF LoopInv, Bounded
  <2>8. Elapsed(t)' < Period[t] + waited'[t] * Tick
                      + (IF due /\ t = at THEN Lag * Tick ELSE 0)
    BY <1>1, <2>5, <2>6, <2>7
  <2>9. Elapsed(t)' < LoopWrap
    <3>1. Period[t] + Lag * Tick + Lag * Tick <= LoopWrap
      BY <1>1, <1>2, <2>6
    <3>. QED
      BY <1>1, <2>5, <2>6, <2>8, <3>1
  <2>. QED
    BY <2>1, <2>4, <2>5, <2>8, <2>9
<1>4. ASSUME NEW t \in Loop!All PROVE Loop!Minus(lwipTime', stamp'[t]) = Elapsed(t)'
  <2>1. /\ lwipTime \in Nat /\ lwipTime < LoopWrap
        /\ stamp[t] \in Nat /\ stamp[t] < LoopWrap
        /\ Loop!Minus(lwipTime, stamp[t]) = Elapsed(t)
        /\ lwipTime' = Loop!Plus(lwipTime, Tick) /\ stamp'[t] = stamp[t]
    BY DEF LoopInv, LoopTypeInv, Exact, Loop!SysTick
  <2>2. Elapsed(t) + Tick < LoopWrap
    BY <1>3
  <2>. QED
    BY <1>1, <1>3, <2>1, <2>2 DEF Loop!Minus, Loop!Plus
<1>5. lwipTime' \in Nat /\ lwipTime' < LoopWrap
  <2>1. at \in Loop!All
    BY DEF LoopInv, LoopTypeInv
  <2>2. Elapsed(at) \in Nat /\ Elapsed(at) + Tick < LoopWrap
    BY <1>2, <1>3, <2>1 DEF LoopInv, LoopTypeInv, Elapsed
  <2>3. Tick < LoopWrap
    BY <1>1, <2>2
  <2>. QED
    BY <1>1, <2>3 DEF LoopInv, LoopTypeInv, Loop!SysTick, Loop!Plus
<1>6. LoopTypeInv'
  <2>1. waited' \in [Loop!All -> Nat] /\ age' \in [Loop!All -> Nat]
    BY DEF LoopInv, LoopTypeInv, Loop!SysTick
  <2>. QED
    BY <1>3, <1>5, <2>1 DEF LoopInv, LoopTypeInv, Loop!SysTick
<1>7. Exact' /\ Bounded'
  BY <1>3, <1>4 DEF Exact, Bounded, Loop!SysTick
<1>8. due' => Elapsed(at)' >= Period[at]
  <2>1. at' = at /\ due' = due /\ at \in Loop!All
    BY DEF LoopInv, LoopTypeInv, Loop!SysTick
  <2>2. Elapsed(at)' = Elapsed(at) + Tick /\ Elapsed(at) \in Nat
    BY <1>2, <1>3, <2>1 DEF LoopInv, LoopTypeInv, Elapsed
  <2>. QED
    BY <1>1, <2>1, <2>2 DEF LoopInv
<1>. QED
  BY <1>6, <1>7, <1>8 DEF LoopInv, Loop!SysTick, Elapsed

LEMMA NextTimerInAll ==
  ASSUME Loop!TimersAssumption, at \in Loop!All
  PROVE  Loop!NextTimer \in Loop!All
BY DEF Loop!TimersAssumption, Loop!NextTimer, Loop!All

(* The test: what is not due then starts a new wait.                       *)
LEMMA LookSafe == ASSUME LoopAssumptions, LoopInv, Loop!Look PROVE LoopInv'
<1>1. /\ Tick \in Nat /\ Lag \in Nat /\ Lag * Tick \in Nat /\ 0 * Tick = 0
      /\ \A t \in Loop!All : Period[t] \in Nat
      /\ \A n \in Nat : n * Tick \in Nat
      /\ \A n \in Nat : n <= Lag => n * Tick <= Lag * Tick
  BY Products
     DEF LoopAssumptions, Loop!ClockAssumption, Loop!PeriodAssumption, Loop!All
<1>2. /\ at \in Loop!All /\ ~due /\ lwipTime' = lwipTime /\ stamp' = stamp /\ age' = age
      /\ waited' = [waited EXCEPT ![at] = 0]
      /\ due' = (Elapsed(at) >= Period[at])
  BY DEF LoopInv, LoopTypeInv, Exact, Loop!Look, Loop!PeriodOver
<1>3. at' \in Loop!All
  BY <1>2, NextTimerInAll DEF Loop!Look, LoopAssumptions
<1>4. LoopTypeInv'
  BY <1>1, <1>2, <1>3 DEF LoopInv, LoopTypeInv, Loop!Look
<1>5. Exact'
  BY <1>2 DEF LoopInv, Exact, Elapsed
<1>6. due' => at' = at
  BY DEF Loop!Look
<1>7. Bounded'
  <2>. SUFFICES ASSUME NEW t \in Loop!All
                PROVE  Elapsed(t) < Period[t] + waited'[t] * Tick
                                    + (IF due' /\ t = at' THEN Lag * Tick ELSE 0)
    BY <1>2 DEF Bounded, Elapsed
  <2>1. /\ Elapsed(t) < Period[t] + waited[t] * Tick
        /\ waited[t] \in Nat /\ waited[t] <= Lag /\ age[t] \in Nat
    BY <1>1, <1>2 DEF LoopInv, LoopTypeInv, Bounded, Elapsed
  <2>2. /\ waited[t] * Tick \in Nat /\ waited[t] * Tick <= Lag * Tick
        /\ Elapsed(t) \in Nat
    BY <1>1, <2>1 DEF Elapsed
  <2>3. CASE t # at
    BY <1>1, <1>2, <1>6, <2>1, <2>2, <2>3 DEF LoopInv, LoopTypeInv
  <2>4. CASE t = at
    <3>1. waited'[t] * Tick = 0
      BY <1>1, <1>2, <2>4 DEF LoopInv, LoopTypeInv
    <3>2. CASE due'
      BY <1>1, <1>6, <2>1, <2>2, <2>4, <3>1, <3>2
    <3>3. CASE ~due'
      <4>1. ~ (Elapsed(t) >= Period[t])
        BY <1>2, <2>4, <3>3
      <4>. QED
        BY <1>1, <2>1, <2>2, <3>1, <3>3, <4>1
    <3>. QED
      BY <3>2, <3>3
  <2>. QED
    BY <2>3, <2>4
<1>8. due' => Elapsed(at)' >= Period[at']
  BY <1>2, <1>6 DEF Elapsed
<1>. QED
  BY <1>4, <1>5, <1>6, <1>7, <1>8 DEF LoopInv, Elapsed

LEMMA FireSafe == ASSUME LoopAssumptions, LoopInv, Loop!Fire PROVE LoopInv'
<1>1. /\ Tick \in Nat /\ Lag \in Nat /\ Lag * Tick \in Nat /\ 0 * Tick = 0
      /\ \A t \in Loop!All : Period[t] \in Nat /\ Period[t] > 0
      /\ \A n \in Nat : n * Tick \in Nat
  BY Products
     DEF LoopAssumptions, Loop!ClockAssumption, Loop!PeriodAssumption, Loop!All
<1>2. /\ at \in Loop!All /\ lwipTime' = lwipTime /\ waited' = waited /\ ~due'
      /\ stamp' = [stamp EXCEPT ![at] = lwipTime]
      /\ age' = [age EXCEPT ![at] = 0]
  BY DEF LoopInv, LoopTypeInv, Loop!Fire
<1>3. at' \in Loop!All
  BY <1>2, NextTimerInAll DEF Loop!Fire, LoopAssumptions
<1>4. LoopTypeInv'
  <2>1. stamp' \in [Loop!All -> Nat] /\ age' \in [Loop!All -> Nat]
    BY <1>2 DEF LoopInv, LoopTypeInv
  <2>2. \A t \in Loop!All : stamp'[t] < LoopWrap
    BY <1>2 DEF LoopInv, LoopTypeInv
  <2>3. due' \in BOOLEAN
    BY DEF Loop!Fire
  <2>. QED
    BY <1>2, <1>3, <2>1, <2>2, <2>3 DEF LoopInv, LoopTypeInv
<1>5. ASSUME NEW t \in Loop!All
      PROVE  /\ Loop!Minus(lwipTime', stamp'[t]) = Elapsed(t)'
             /\ Elapsed(t)' < Period[t] + waited'[t] * Tick
  <2>1. waited[t] * Tick \in Nat
    BY <1>1 DEF LoopInv, LoopTypeInv
  <2>2. CASE t = at
    <3>1. Elapsed(t)' = 0 /\ stamp'[t] = lwipTime
      BY <1>1, <1>2, <2>2 DEF Elapsed, LoopInv, LoopTypeInv
    <3>. QED
      BY <1>1, <1>2, <2>1, <3>1 DEF Loop!Minus, LoopInv, LoopTypeInv
  <2>3. CASE t # at
    <3>1. Elapsed(t)' = Elapsed(t) /\ stamp'[t] = stamp[t]
      BY <1>2, <2>3 DEF Elapsed, LoopInv, LoopTypeInv
    <3>. QED
      BY <1>1, <1>2, <2>1, <2>3, <3>1 DEF LoopInv, Exact, Bounded, LoopTypeInv, Elapsed
  <2>. QED
    BY <2>2, <2>3
<1>6. Exact'
  BY <1>5 DEF Exact
<1>7. Bounded'
  <2>1. \A t \in Loop!All : waited'[t] * Tick \in Nat
    BY <1>1, <1>4 DEF LoopTypeInv
  <2>. QED
    BY <1>1, <1>2, <1>5, <2>1 DEF Bounded
<1>. QED
  BY <1>2, <1>4, <1>6, <1>7 DEF LoopInv

LEMMA LoopKeeps == LoopAssumptions /\ LoopInv /\ [Loop!Next]_(Loop!vars) => LoopInv'
<1>. SUFFICES ASSUME LoopAssumptions, LoopInv, [Loop!Next]_(Loop!vars) PROVE LoopInv'
  OBVIOUS
<1>1. CASE UNCHANGED Loop!vars
  BY <1>1 DEF Loop!vars, LoopInv, LoopTypeInv, Exact, Bounded, Elapsed
<1>. QED
  BY <1>1, TickSafe, LookSafe, FireSafe DEF Loop!Next

-----------------------------------------------------------------------------
(* The transmit path with one context calling the driver, for a ring of    *)
(* any size, frames of any number of pbufs, and any number of frames.      *)
(* With the interrupt as a second context the invariants fail.             *)

TxAssumptions == Tx!TxBufNbAssumption /\ Tx!PartsAssumption /\ Contexts = {"main"}

TxLabels == {"idle", "copy", "own", "give", "poll", "advance"}

TxTypeInv ==
  /\ txDesc \in [Tx!Slots -> Nat]
  /\ buf \in [Tx!Slots -> [1 .. Parts -> Nat]]
  /\ txDma \in Tx!Slots /\ set \in Tx!Slots
  /\ txPc \in [Contexts -> TxLabels]
  /\ frame \in [Contexts -> Nat]
  /\ target \in [Contexts -> Tx!Slots]
  /\ part \in [Contexts -> Nat]
  /\ txNext \in Nat \ {0}

(* What a call has done so far: the buffer it fills is the one that        *)
(* DMATxDescToSet points to, and once OWN was seen clear it stays so.      *)
CallInv ==
  /\ txPc["main"] # "idle" => frame["main"] # Tx!FREE
  /\ txPc["main"] = "copy" =>
       /\ target["main"] = set /\ part["main"] \in 1 .. Parts
       /\ \A i \in 1 .. Parts : i < part["main"] => buf[set][i] = frame["main"]
  /\ txPc["main"] \in {"own", "give"} => buf[set] = Tx!Whole(frame["main"])
  /\ txPc["main"] = "give" => txDesc[set] = Tx!FREE

(* The engine reads only what it was given.                                *)
EngineInv == fetched # <<>> => txDesc[txDma] # Tx!FREE

TxInv ==
  /\ TxTypeInv /\ CallInv /\ EngineInv
  /\ Tx!TxInTurn /\ Tx!OnlyFullRingOverwrites

-----------------------------------------------------------------------------
LEMMA OneCaller ==
  ASSUME Contexts = {"main"}
  PROVE  Tx!Given <=> txPc["main"] \in {"poll", "advance"}
BY DEF Tx!Given

LEMMA NextInSlots ==
  ASSUME TxAssumptions, NEW d \in Tx!Slots
  PROVE  Tx!NextDesc(d) \in Tx!Slots
BY DEF TxAssumptions, Tx!TxBufNbAssumption, Tx!NextDesc, Tx!Slots

LEMMA LastInSlots ==
  ASSUME TxAssumptions, TxTypeInv
  PROVE  Tx!Last \in Tx!Slots
BY NextInSlots DEF Tx!Last, TxTypeInv

LEMMA TxStarts == TxAssumptions /\ Tx!Init => TxInv
<1>. SUFFICES ASSUME TxAssumptions, Tx!Init PROVE TxInv
  OBVIOUS
<1>. USE DEF TxAssumptions
<1>1. 0 \in Tx!Slots /\ TxBufNb \in Nat /\ TxBufNb > 1 /\ Contexts = {"main"}
  BY DEF Tx!TxBufNbAssumption, Tx!Slots
<1>2. TxTypeInv
  BY <1>1 DEF Tx!Init, TxTypeInv, Tx!FREE, Tx!Whole, TxLabels
<1>3. CallInv /\ EngineInv
  BY <1>1 DEF Tx!Init, CallInv, EngineInv
<1>4. Tx!InUse = 0
  BY <1>1, OneCaller DEF Tx!Init, Tx!InUse, Tx!Last
<1>5. Tx!TxInTurn
  <2>1. \A d \in Tx!Slots : Tx!Place(d) >= 0 /\ txDesc[d] = Tx!FREE
    BY <1>1 DEF Tx!Init, Tx!Place, Tx!Slots
  <2>2. \A d \in Tx!Slots : Tx!Place(d) \in Int
    BY <1>1 DEF Tx!Init, Tx!Place, Tx!Slots
  <2>. QED
    BY <1>4, <2>1, <2>2 DEF Tx!TxInTurn
<1>6. Tx!OnlyFullRingOverwrites
  BY DEF Tx!Init, Tx!OnlyFullRingOverwrites
<1>. QED
  BY <1>2, <1>3, <1>5, <1>6 DEF TxInv

(* A step of a call that leaves the descriptors and the ring alone.        *)
LEMMA RingKept ==
  ASSUME txDesc' = txDesc, txDma' = txDma, Tx!Last' = Tx!Last
  PROVE  Tx!InUse' = Tx!InUse /\ \A d \in Tx!Slots : Tx!Place(d)' = Tx!Place(d)
BY DEF Tx!InUse, Tx!Place

LEMMA GetBufferSafe == ASSUME TxAssumptions, TxInv, Tx!GetBuffer("main") PROVE TxInv'
<1>1. Contexts = {"main"} /\ Parts \in Nat /\ Parts > 0
  BY DEF TxAssumptions, Tx!PartsAssumption
<1>2. TxTypeInv'
  <2>1. /\ txNext \in Nat \ {0} /\ set \in Tx!Slots /\ txNext' = txNext + 1
        /\ txDesc' = txDesc /\ buf' = buf /\ txDma' = txDma /\ set' = set
    BY DEF TxInv, TxTypeInv, Tx!GetBuffer, Tx!engine
  <2>2. txPc' \in [Contexts -> TxLabels]
    BY DEF TxInv, TxTypeInv, Tx!GetBuffer, Tx!Goto, TxLabels
  <2>3. frame' \in [Contexts -> Nat]
    BY <2>1 DEF TxInv, TxTypeInv, Tx!GetBuffer
  <2>4. target' \in [Contexts -> Tx!Slots] /\ part' \in [Contexts -> Nat]
    BY <2>1 DEF TxInv, TxTypeInv, Tx!GetBuffer
  <2>. QED
    BY <2>1, <2>2, <2>3, <2>4 DEF TxInv, TxTypeInv
<1>3. txPc'["main"] = "copy" /\ txPc["main"] = "idle" /\ set' = set
  BY <1>1 DEF TxInv, TxTypeInv, Tx!GetBuffer, Tx!Goto
<1>4. CallInv'
  <2>1. frame'["main"] = txNext /\ target'["main"] = set /\ part'["main"] = 1
    BY <1>1 DEF TxInv, TxTypeInv, Tx!GetBuffer
  <2>. QED
    BY <1>1, <1>3, <2>1 DEF TxInv, TxTypeInv, CallInv, Tx!FREE
<1>5. Tx!Last' = Tx!Last
  BY <1>1, <1>3, OneCaller DEF Tx!Last, Tx!Given
<1>6. Tx!TxInTurn' /\ Tx!OnlyFullRingOverwrites'
  BY <1>5, RingKept DEF TxInv, Tx!GetBuffer, Tx!engine, Tx!TxInTurn,
                        Tx!OnlyFullRingOverwrites
<1>. QED
  BY <1>2, <1>4, <1>6 DEF TxInv, EngineInv, Tx!GetBuffer, Tx!engine

(* The copy may hit a descriptor of the engine: only if the ring is full.  *)
LEMMA CopyPartSafe == ASSUME TxAssumptions, TxInv, Tx!CopyPart("main") PROVE TxInv'
<1>1. Contexts = {"main"} /\ Parts \in Nat /\ Parts > 0
  BY DEF TxAssumptions, Tx!PartsAssumption
<1>2. /\ txPc["main"] = "copy" /\ target["main"] = set /\ part["main"] \in 1 .. Parts
      /\ set \in Tx!Slots /\ frame' = frame /\ set' = set /\ target' = target
      /\ txDesc' = txDesc /\ txDma' = txDma /\ fetched' = fetched
      /\ part' = [part EXCEPT !["main"] = part["main"] + 1]
      /\ buf' = [buf EXCEPT ![set][part["main"]] = frame["main"]]
  BY DEF TxInv, TxTypeInv, CallInv, Tx!CopyPart, Tx!engine
<1>3. txPc'["main"] = IF part["main"] = Parts THEN "own" ELSE "copy"
  BY <1>1, <1>2 DEF TxInv, TxTypeInv, Tx!CopyPart, Tx!Goto
<1>4. /\ part'["main"] = part["main"] + 1
      /\ buf'[set] = [buf[set] EXCEPT ![part["main"]] = frame["main"]]
      /\ buf[set] \in [1 .. Parts -> Nat]
  BY <1>1, <1>2 DEF TxInv, TxTypeInv
<1>5. TxTypeInv'
  <2>1. txPc' \in [Contexts -> TxLabels]
    BY <1>1 DEF TxInv, TxTypeInv, Tx!CopyPart, Tx!Goto, TxLabels
  <2>2. buf' \in [Tx!Slots -> [1 .. Parts -> Nat]] /\ part' \in [Contexts -> Nat]
    BY <1>1, <1>2, <1>4 DEF TxInv, TxTypeInv
  <2>. QED
    BY <1>2, <2>1, <2>2 DEF TxInv, TxTypeInv, Tx!CopyPart
<1>6. \A i \in 1 .. Parts : i <= part["main"] => buf'[set][i] = frame["main"]
  <2>. SUFFICES ASSUME NEW i \in 1 .. Parts, i <= part["main"]
                PROVE  buf'[set][i] = frame["main"]
    OBVIOUS
  <2>1. i < part["main"] => buf[set][i] = frame["main"]
    BY <1>2 DEF TxInv, CallInv
  <2>2. i < part["main"] \/ i = part["main"]
    BY <1>1, <1>2
  <2>. QED
    BY <1>1, <1>2, <1>4, <2>1, <2>2
<1>7. CallInv'
  <2>1. CASE part["main"] = Parts
    <3>1. buf'[set] = Tx!Whole(frame["main"])
      BY <1>1, <1>4, <1>6, <2>1 DEF Tx!Whole
    <3>. QED
      BY <1>2, <1>3, <2>1, <3>1 DEF TxInv, CallInv
  <2>2. CASE part["main"] # Parts
    <3>1. \A i \in 1 .. Parts : i < part'["main"] => buf'[set][i] = frame["main"]
      BY <1>1, <1>2, <1>4, <1>6
    <3>2. part'["main"] \in 1 .. Parts
      BY <1>1, <1>2, <1>4, <2>2
    <3>. QED
      BY <1>2, <1>3, <2>2, <3>1, <3>2 DEF TxInv, CallInv
  <2>. QED
    BY <2>1, <2>2
<1>8. Tx!Last = set /\ Tx!Last' = set
  BY <1>1, <1>2, <1>3, OneCaller DEF Tx!Last, Tx!Given
<1>9. Tx!TxInTurn'
  BY <1>2, <1>8, RingKept DEF TxInv, Tx!TxInTurn
<1>10. Tx!OnlyFullRingOverwrites'
  <2>. SUFFICES ASSUME NEW d \in Tx!Slots, txDesc[d] # Tx!FREE,
                       buf'[d] # Tx!Whole(txDesc[d])
                PROVE  d = set /\ Tx!InUse = TxBufNb
    BY <1>2, <1>8, RingKept DEF Tx!OnlyFullRingOverwrites
  <2>1. CASE d # set
    <3>1. buf'[d] = buf[d]
      BY <1>2, <2>1 DEF TxInv, TxTypeInv
    <3>. QED
      BY <1>8, <3>1 DEF TxInv, Tx!OnlyFullRingOverwrites
  <2>2. CASE d = set
    <3>1. Tx!Place(set) < Tx!InUse
      BY <2>2 DEF TxInv, Tx!TxInTurn
    <3>2. Tx!Place(set) \in Int
      BY <1>2 DEF Tx!Place, TxInv, TxTypeInv, Tx!Slots, TxAssumptions,
                  Tx!TxBufNbAssumption
    <3>3. txDma = set
      BY <1>8, <3>1, <3>2 DEF Tx!InUse
    <3>. QED
      BY <1>8, <2>2, <3>3 DEF Tx!InUse
  <2>. QED
    BY <2>1, <2>2
<1>. QED
  BY <1>2, <1>5, <1>7, <1>9, <1>10 DEF TxInv, EngineInv

LEMMA TestOwnSafe == ASSUME TxAssumptions, TxInv, Tx!TestOwn("main") PROVE TxInv'
<1>1. Contexts = {"main"}
  BY DEF TxAssumptions
<1>2. /\ txPc["main"] = "own" /\ txPc'["main"] \in {"idle", "give"}
      /\ txPc'["main"] = "give" => txDesc[set] = Tx!FREE
      /\ txDesc' = txDesc /\ buf' = buf /\ txDma' = txDma /\ fetched' = fetched /\ set' = set
      /\ frame' = frame /\ target' = target /\ part' = part /\ txNext' = txNext
  BY <1>1 DEF TxInv, TxTypeInv, Tx!TestOwn, Tx!Goto, Tx!engine, Tx!locals
<1>3. TxTypeInv'
  <2>1. txPc' \in [Contexts -> TxLabels]
    BY <1>1 DEF TxInv, TxTypeInv, Tx!TestOwn, Tx!Goto, TxLabels
  <2>. QED
    BY <1>2, <2>1 DEF TxInv, TxTypeInv
<1>4. CallInv'
  BY <1>2 DEF TxInv, CallInv
<1>5. Tx!Last' = Tx!Last
  BY <1>1, <1>2, OneCaller DEF Tx!Last, Tx!Given
<1>6. Tx!TxInTurn' /\ Tx!OnlyFullRingOverwrites'
  BY <1>2, <1>5, RingKept DEF TxInv, Tx!TxInTurn, Tx!OnlyFullRingOverwrites
<1>. QED
  BY <1>2, <1>3, <1>4, <1>6 DEF TxInv, EngineInv

(* The descriptors of the engine grow by the one after the last of them.   *)
LEMMA GiveDescSafe == ASSUME TxAssumptions, TxInv, Tx!GiveDesc("main") PROVE TxInv'
<1>1. Contexts = {"main"} /\ TxBufNb \in Nat /\ TxBufNb > 1
  BY DEF TxAssumptions, Tx!TxBufNbAssumption
<1>2. /\ txPc["main"] = "give" /\ txPc'["main"] = "poll"
      /\ txDesc[set] = Tx!FREE /\ buf[set] = Tx!Whole(frame["main"]) /\ frame["main"] # Tx!FREE
      /\ frame["main"] \in Nat
      /\ txDesc' = [txDesc EXCEPT ![set] = frame["main"]] /\ set \in Tx!Slots /\ txDma \in Tx!Slots
      /\ buf' = buf /\ txDma' = txDma /\ fetched' = fetched /\ set' = set
      /\ frame' = frame /\ target' = target /\ part' = part /\ txNext' = txNext
  BY <1>1 DEF TxInv, TxTypeInv, CallInv, Tx!GiveDesc, Tx!Goto, Tx!engine, Tx!locals
<1>3. TxTypeInv'
  <2>1. txPc' \in [Contexts -> TxLabels]
    BY <1>1 DEF TxInv, TxTypeInv, Tx!GiveDesc, Tx!Goto, TxLabels
  <2>2. txDesc' \in [Tx!Slots -> Nat]
    BY <1>2 DEF TxInv, TxTypeInv
  <2>. QED
    BY <1>2, <2>1, <2>2 DEF TxInv, TxTypeInv
<1>4. CallInv' /\ EngineInv'
  BY <1>2 DEF TxInv, TxTypeInv, CallInv, EngineInv
<1>5. Tx!Last = set /\ Tx!Last' = Tx!NextDesc(set) /\ Tx!NextDesc(set) \in Tx!Slots
  BY <1>1, <1>2, OneCaller, NextInSlots DEF Tx!Last, Tx!Given
<1>6. \A d \in Tx!Slots : /\ txDesc'[d] = IF d = set THEN frame["main"] ELSE txDesc[d]
                          /\ Tx!Place(d)' = Tx!Place(d)
                          /\ Tx!Place(d) \in 0 .. TxBufNb - 1
                          /\ Tx!Place(d) = Tx!Place(set) => d = set
  BY <1>1, <1>2 DEF TxInv, TxTypeInv, Tx!Place, Tx!Slots
<1>7. Tx!InUse = Tx!Place(set)
  <2>1. txDma = set => Tx!Place(set) = 0
    BY <1>1, <1>2 DEF Tx!Place, Tx!Slots
  <2>. QED
    BY <1>2, <1>5, <2>1 DEF Tx!InUse
<1>8. Tx!InUse' = Tx!Place(set) + 1
  <2>1. CASE Tx!NextDesc(set) = txDma
    <3>1. Tx!Place(set) = TxBufNb - 1
      BY <1>1, <1>2, <2>1 DEF Tx!Place, Tx!NextDesc, Tx!Slots
    <3>2. txDesc[txDma] # Tx!FREE
      <4>1. Tx!Place(txDma) = 0 /\ 0 < Tx!Place(set)
        BY <1>1, <1>2, <3>1 DEF Tx!Place, Tx!Slots
      <4>. QED
        BY <1>2, <1>7, <4>1 DEF TxInv, Tx!TxInTurn
    <3>3. txDesc'[txDma] # Tx!FREE
      BY <1>2, <1>6, <3>2
    <3>. QED
      BY <1>1, <1>2, <1>5, <2>1, <3>1, <3>3 DEF Tx!InUse
  <2>2. CASE Tx!NextDesc(set) # txDma
    <3>1. Tx!InUse' = Tx!Place(Tx!NextDesc(set))
      <4>1. txDma' # Tx!Last'
        BY <1>2, <1>5, <2>2
      <4>2. Tx!InUse' = Tx!Place(Tx!Last)'
        BY <4>1 DEF Tx!InUse
      <4>3. Tx!Place(Tx!Last)' = Tx!Place(Tx!NextDesc(set))
        BY <1>2, <1>5 DEF Tx!Place
      <4>. QED
        BY <4>2, <4>3
    <3>2. Tx!Place(Tx!NextDesc(set)) = Tx!Place(set) + 1
      BY <1>1, <1>2, <2>2 DEF Tx!Place, Tx!NextDesc, Tx!Slots
    <3>. QED
      BY <3>1, <3>2
  <2>. QED
    BY <2>1, <2>2
<1>9. Tx!TxInTurn'
  <2>. SUFFICES ASSUME NEW d \in Tx!Slots
                PROVE  txDesc'[d] # Tx!FREE <=> Tx!Place(d)' < Tx!InUse'
    BY DEF Tx!TxInTurn
  <2>1. txDesc[d] # Tx!FREE <=> Tx!Place(d) < Tx!Place(set)
    BY <1>7 DEF TxInv, Tx!TxInTurn
  <2>2. /\ txDesc'[d] = IF d = set THEN frame["main"] ELSE txDesc[d]
        /\ Tx!Place(d)' = Tx!Place(d) /\ Tx!Place(d) \in 0 .. TxBufNb - 1
        /\ Tx!Place(set) \in 0 .. TxBufNb - 1 /\ frame["main"] # Tx!FREE
        /\ Tx!Place(d) = Tx!Place(set) => d = set
    BY <1>2, <1>6
  <2>3. CASE d = set
    BY <1>1, <1>8, <2>2, <2>3
  <2>4. CASE d # set
    <3>1. txDesc'[d] # Tx!FREE <=> Tx!Place(d) < Tx!Place(set)
      BY <2>1, <2>2, <2>4
    <3>2. Tx!Place(d) # Tx!Place(set)
      BY <2>2, <2>4
    <3>3. Tx!Place(d) < Tx!Place(set) <=> Tx!Place(d) < Tx!Place(set) + 1
      BY <1>1, <2>2, <3>2
    <3>. QED
      BY <1>8, <2>2, <3>1, <3>3
  <2>. QED
    BY <2>3, <2>4
<1>10. Tx!OnlyFullRingOverwrites'
  <2>. SUFFICES ASSUME NEW d \in Tx!Slots, txDesc'[d] # Tx!FREE,
                       buf[d] # Tx!Whole(txDesc'[d])
                PROVE  FALSE
    BY <1>2 DEF Tx!OnlyFullRingOverwrites
  <2>1. d # set
    BY <1>2, <1>6
  <2>2. d = set
    <3>1. txDesc[d] # Tx!FREE /\ buf[d] # Tx!Whole(txDesc[d])
      BY <1>6, <2>1
    <3>2. d = Tx!Last
      BY <3>1 DEF TxInv, Tx!OnlyFullRingOverwrites
    <3>. QED
      BY <1>5, <3>2
  <2>. QED
    BY <2>1, <2>2
<1>. QED
  BY <1>3, <1>4, <1>9, <1>10 DEF TxInv

LEMMA PollAdvanceSafe ==
  ASSUME TxAssumptions, TxInv, Tx!PollDemand("main") \/ Tx!Advance("main")
  PROVE  TxInv'
<1>1. Contexts = {"main"}
  BY DEF TxAssumptions
<1>2. /\ txDesc' = txDesc /\ buf' = buf /\ txDma' = txDma /\ fetched' = fetched
      /\ frame' = frame /\ target' = target /\ part' = part /\ txNext' = txNext
      /\ set \in Tx!Slots
  BY DEF TxInv, TxTypeInv, Tx!PollDemand, Tx!Advance, Tx!engine, Tx!locals
<1>3. \/ txPc["main"] = "poll" /\ txPc'["main"] = "advance" /\ set' = set
      \/ txPc["main"] = "advance" /\ txPc'["main"] = "idle" /\ set' = Tx!NextDesc(set)
  BY <1>1 DEF TxInv, TxTypeInv, Tx!PollDemand, Tx!Advance, Tx!Goto
<1>4. TxTypeInv'
  <2>1. txPc' \in [Contexts -> TxLabels]
    BY <1>1 DEF TxInv, TxTypeInv, Tx!PollDemand, Tx!Advance, Tx!Goto, TxLabels
  <2>2. set' \in Tx!Slots
    BY <1>2, <1>3, NextInSlots
  <2>. QED
    BY <1>2, <2>1, <2>2 DEF TxInv, TxTypeInv
<1>5. CallInv' /\ EngineInv'
  BY <1>2, <1>3 DEF TxInv, CallInv, EngineInv
<1>6. Tx!Last' = Tx!Last
  BY <1>1, <1>3, OneCaller DEF Tx!Last, Tx!Given
<1>7. Tx!TxInTurn' /\ Tx!OnlyFullRingOverwrites'
  BY <1>2, <1>6, RingKept DEF TxInv, Tx!TxInTurn, Tx!OnlyFullRingOverwrites
<1>. QED
  BY <1>4, <1>5, <1>7 DEF TxInv

-----------------------------------------------------------------------------
(* A step of the engine that leaves the descriptors alone.                 *)
LEMMA FetchSuspendSafe ==
  ASSUME TxAssumptions, TxInv, Tx!Fetch \/ Tx!Suspend
  PROVE  TxInv'
<1>1. /\ txDesc' = txDesc /\ buf' = buf /\ txDma' = txDma /\ set' = set /\ txPc' = txPc
      /\ frame' = frame /\ target' = target /\ part' = part /\ txNext' = txNext
  BY DEF Tx!Fetch, Tx!Suspend, Tx!locals
<1>2. EngineInv'
  BY DEF Tx!Fetch, Tx!Suspend, TxInv, EngineInv
<1>3. Tx!Last' = Tx!Last
  BY <1>1 DEF Tx!Last, Tx!Given
<1>4. Tx!TxInTurn' /\ Tx!OnlyFullRingOverwrites'
  BY <1>1, <1>3, RingKept DEF TxInv, Tx!TxInTurn, Tx!OnlyFullRingOverwrites
<1>. QED
  BY <1>1, <1>2, <1>4 DEF TxInv, TxTypeInv, CallInv

(* The engine gives back the first of its descriptors, and with it the one *)
(* that may have been overwritten.                                         *)
LEMMA CloseSafe == ASSUME TxAssumptions, TxInv, Tx!Close PROVE TxInv'
<1>1. Contexts = {"main"} /\ TxBufNb \in Nat /\ TxBufNb > 1 /\ Parts \in Nat /\ Parts > 0
  BY DEF TxAssumptions, Tx!TxBufNbAssumption, Tx!PartsAssumption
<1>2. /\ txDesc' = [txDesc EXCEPT ![txDma] = Tx!FREE] /\ txDma' = Tx!NextDesc(txDma) /\ fetched' = <<>>
      /\ buf' = buf /\ set' = set /\ txPc' = txPc
      /\ frame' = frame /\ target' = target /\ part' = part /\ txNext' = txNext
      /\ txDma \in Tx!Slots /\ set \in Tx!Slots
  BY DEF Tx!Close, Tx!locals, TxInv, TxTypeInv
<1>3. txDesc[txDma] # Tx!FREE
  <2>1. fetched # <<>>
    BY <1>1 DEF Tx!Close
  <2>. QED
    BY <2>1 DEF TxInv, EngineInv
<1>4. txDma' \in Tx!Slots
  BY <1>2, NextInSlots
<1>5. TxTypeInv'
  BY <1>2, <1>4 DEF TxInv, TxTypeInv, Tx!FREE
<1>6. CallInv' /\ EngineInv'
  BY <1>2 DEF TxInv, TxTypeInv, CallInv, EngineInv
<1>7. Tx!Last' = Tx!Last /\ Tx!Last \in Tx!Slots
  BY <1>2, LastInSlots DEF Tx!Last, Tx!Given, TxInv
<1>8. \A d \in Tx!Slots : txDesc'[d] = IF d = txDma THEN Tx!FREE ELSE txDesc[d]
  BY <1>2 DEF TxInv, TxTypeInv
<1>9. \A d \in Tx!Slots :
        /\ Tx!Place(d) \in 0 .. TxBufNb - 1
        /\ Tx!Place(d)' = IF d = txDma THEN TxBufNb - 1 ELSE Tx!Place(d) - 1
        /\ d # txDma => Tx!Place(d) > 0
        /\ Tx!Place(d)' = 0 <=> d = txDma'
  BY <1>1, <1>2, <1>4 DEF Tx!Place, Tx!NextDesc, Tx!Slots
<1>10. Tx!InUse = IF txDma # Tx!Last THEN Tx!Place(Tx!Last) ELSE TxBufNb
  BY <1>3 DEF Tx!InUse
<1>11. Tx!InUse' = Tx!InUse - 1
  <2>1. txDma' # txDma
    BY <1>1, <1>2 DEF Tx!NextDesc, Tx!Slots
  <2>2. CASE Tx!Last = txDma
    BY <1>7, <1>9, <1>10, <2>1, <2>2, <1>1 DEF Tx!InUse
  <2>3. CASE Tx!Last # txDma /\ Tx!Last # txDma'
    BY <1>7, <1>9, <1>10, <2>3 DEF Tx!InUse
  <2>4. CASE Tx!Last # txDma /\ Tx!Last = txDma'
    <3>1. Tx!Place(txDma') = 1
      BY <1>1, <1>4, <1>7, <1>9, <2>4
    <3>2. txDesc'[txDma'] = Tx!FREE
      BY <1>4, <1>8, <1>10, <2>4, <3>1 DEF TxInv, Tx!TxInTurn
    <3>. QED
      BY <1>7, <1>10, <2>4, <3>1, <3>2 DEF Tx!InUse
  <2>. QED
    BY <2>2, <2>3, <2>4
<1>12. Tx!InUse \in 1 .. TxBufNb
  BY <1>1, <1>7, <1>9, <1>10
<1>13. Tx!TxInTurn'
  <2>. SUFFICES ASSUME NEW d \in Tx!Slots
                PROVE  txDesc'[d] # Tx!FREE <=> Tx!Place(d)' < Tx!InUse'
    BY DEF Tx!TxInTurn
  <2>1. txDesc[d] # Tx!FREE <=> Tx!Place(d) < Tx!InUse
    BY DEF TxInv, Tx!TxInTurn
  <2>2. CASE d = txDma
    BY <1>1, <1>8, <1>9, <1>11, <1>12, <2>2
  <2>3. CASE d # txDma
    BY <1>1, <1>8, <1>9, <1>11, <1>12, <2>1, <2>3
  <2>. QED
    BY <2>2, <2>3
<1>14. Tx!OnlyFullRingOverwrites'
  <2>. SUFFICES ASSUME NEW d \in Tx!Slots, txDesc'[d] # Tx!FREE,
                       buf[d] # Tx!Whole(txDesc'[d])
                PROVE  FALSE
    BY <1>2 DEF Tx!OnlyFullRingOverwrites
  <2>1. d # txDma /\ txDesc'[d] = txDesc[d]
    BY <1>8
  <2>2. d = Tx!Last /\ Tx!InUse = TxBufNb
    BY <2>1 DEF TxInv, Tx!OnlyFullRingOverwrites
  <2>3. Tx!Last = txDma
    BY <1>1, <1>7, <1>9, <1>10, <2>2
  <2>. QED
    BY <2>1, <2>2, <2>3
<1>. QED
  BY <1>5, <1>6, <1>13, <1>14 DEF TxInv

LEMMA TxKeeps == TxAssumptions /\ TxInv /\ [Tx!Next]_(Tx!vars) => TxInv'
<1>. SUFFICES ASSUME TxAssumptions, TxInv, [Tx!Next]_(Tx!vars) PROVE TxInv'
  OBVIOUS
<1>1. CASE UNCHANGED Tx!vars
  <2>1. /\ txDesc' = txDesc /\ buf' = buf /\ txDma' = txDma /\ set' = set /\ txPc' = txPc
        /\ frame' = frame /\ target' = target /\ part' = part
        /\ txNext' = txNext /\ fetched' = fetched
    BY <1>1 DEF Tx!vars
  <2>2. Tx!Last' = Tx!Last
    BY <2>1 DEF Tx!Last, Tx!Given
  <2>3. Tx!TxInTurn' /\ Tx!OnlyFullRingOverwrites'
    BY <2>1, <2>2, RingKept DEF TxInv, Tx!TxInTurn, Tx!OnlyFullRingOverwrites
  <2>. QED
    BY <2>1, <2>3 DEF TxInv, TxTypeInv, CallInv, EngineInv
<1>2. ASSUME NEW c \in Contexts, Tx!Call(c) PROVE TxInv'
  <2>1. c = "main"
    BY DEF TxAssumptions
  <2>. QED
    BY <1>2, <2>1, GetBufferSafe, CopyPartSafe, TestOwnSafe, GiveDescSafe,
       PollAdvanceSafe DEF Tx!Call
<1>. QED
  BY <1>1, <1>2, FetchSuspendSafe, CloseSafe DEF Tx!Next, Tx!Engine

-----------------------------------------------------------------------------
(* The engine and the driver go round the ring in turn.                    *)
LEMMA TxGivesInTurn == ASSUME TxAssumptions PROVE Tx!Spec => []Tx!TxInTurn
<1>1. TxInv => Tx!TxInTurn
  BY DEF TxInv
<1>2. Tx!Init => TxInv
  BY TxStarts
<1>3. TxInv /\ [Tx!Next]_(Tx!vars) => TxInv'
  BY TxKeeps
<1>. QED
  BY <1>1, <1>2, <1>3, PTL DEF Tx!Spec

(* The copy of low_level_output before its test of OWN does no harm to a   *)
(* queued frame unless the ring is full.                                   *)
LEMMA TxOverwritesOnlyWhenFull ==
  ASSUME TxAssumptions PROVE Tx!Spec => []Tx!OnlyFullRingOverwrites
<1>1. TxInv => Tx!OnlyFullRingOverwrites
  BY DEF TxInv
<1>2. Tx!Init => TxInv
  BY TxStarts
<1>3. TxInv /\ [Tx!Next]_(Tx!vars) => TxInv'
  BY TxKeeps
<1>. QED
  BY <1>1, <1>2, <1>3, PTL DEF Tx!Spec

-----------------------------------------------------------------------------
(* What is on the wire and on its way there, and the frame of a call.      *)
TxRecord == [frame : Nat, data : Seq(Nat)]

WireInv ==
  /\ txPc["main"] # "idle" => frame["main"] \in Tx!Frames
  /\ fetched \in Seq(Nat)
  /\ sent \in Seq(TxRecord)

LEMMA WireKept == TxAssumptions /\ TxInv /\ WireInv /\ [Tx!Next]_(Tx!vars) => WireInv'
<1>. SUFFICES ASSUME TxAssumptions, TxInv, WireInv, [Tx!Next]_(Tx!vars) PROVE WireInv'
  OBVIOUS
<1>1. Contexts = {"main"}
  BY DEF TxAssumptions
<1>2. CASE Tx!GetBuffer("main")
  BY <1>1, <1>2 DEF WireInv, Tx!GetBuffer, Tx!engine, TxInv, TxTypeInv
<1>3. CASE \/ Tx!CopyPart("main") \/ Tx!TestOwn("main") \/ Tx!GiveDesc("main")
           \/ Tx!PollDemand("main") \/ Tx!Advance("main")
  <2>1. frame' = frame /\ fetched' = fetched /\ sent' = sent /\ txPc["main"] # "idle"
    BY <1>3 DEF Tx!CopyPart, Tx!TestOwn, Tx!GiveDesc, Tx!PollDemand, Tx!Advance,
                Tx!engine, Tx!locals
  <2>. QED
    BY <2>1 DEF WireInv
<1>4. CASE Tx!Fetch
  <2>1. buf[txDma][Len(fetched) + 1] \in Nat
    <3>1. Len(fetched) < Parts /\ Len(fetched) \in Nat /\ Parts \in Nat
      BY <1>4 DEF Tx!Fetch, WireInv, TxAssumptions, Tx!PartsAssumption
    <3>2. Len(fetched) + 1 \in 1 .. Parts
      BY <3>1
    <3>3. buf[txDma] \in [1 .. Parts -> Nat]
      BY DEF TxInv, TxTypeInv
    <3>. QED
      BY <3>2, <3>3
  <2>. QED
    BY <1>4, <2>1 DEF Tx!Fetch, WireInv, Tx!locals
<1>5. CASE Tx!Close
  <2>1. [frame |-> txDesc[txDma], data |-> fetched] \in TxRecord
    BY DEF TxRecord, WireInv, TxInv, TxTypeInv
  <2>2. sent' = Append(sent, [frame |-> txDesc[txDma], data |-> fetched])
    BY <1>5 DEF Tx!Close
  <2>3. sent \in Seq(TxRecord)
    BY DEF WireInv
  <2>4. sent' \in Seq(TxRecord)
    BY <2>1, <2>2, <2>3
  <2>. QED
    BY <1>5, <2>4 DEF Tx!Close, WireInv, Tx!locals
<1>6. CASE Tx!Suspend
  BY <1>6 DEF Tx!Suspend, WireInv, Tx!locals
<1>7. CASE UNCHANGED Tx!vars
  BY <1>7 DEF Tx!vars, WireInv
<1>. QED
  BY <1>1, <1>2, <1>3, <1>4, <1>5, <1>6, <1>7 DEF Tx!Next, Tx!Engine, Tx!Call

(* The frames of the records that went out.                                *)
WireOf(s) == [i \in DOMAIN s |-> s[i].frame]

LEMMA WireGrows ==
  ASSUME NEW s \in Seq(TxRecord), NEW r \in TxRecord
  PROVE  WireOf(Append(s, r)) = Append(WireOf(s), r.frame)
<1>0. ASSUME NEW t \in Seq(TxRecord)
      PROVE  /\ WireOf(t) \in Seq(Nat) /\ Len(WireOf(t)) = Len(t)
             /\ \A i \in 1 .. Len(t) : WireOf(t)[i] = t[i].frame
  <2>1. DOMAIN t = 1 .. Len(t) /\ Len(t) \in Nat
    BY LenProperties
  <2>2. \A i \in 1 .. Len(t) : t[i].frame \in Nat
    <3>1. \A i \in 1 .. Len(t) : t[i] \in TxRecord
      BY ElementOfSeq
    <3>. QED
      BY <3>1 DEF TxRecord
  <2>3. WireOf(t) \in [1 .. Len(t) -> Nat]
    BY <2>1, <2>2 DEF WireOf
  <2>4. WireOf(t) \in Seq(Nat) /\ Len(WireOf(t)) = Len(t)
    BY <2>1, <2>3, SeqDef
  <2>. QED
    BY <2>1, <2>4 DEF WireOf
<1>1. /\ WireOf(s) \in Seq(Nat) /\ Len(WireOf(s)) = Len(s)
      /\ \A i \in 1 .. Len(s) : WireOf(s)[i] = s[i].frame
  BY <1>0
<1>2. Append(s, r) \in Seq(TxRecord) /\ Len(Append(s, r)) = Len(s) + 1
  OBVIOUS
<1>3. /\ WireOf(Append(s, r)) \in Seq(Nat)
      /\ Len(WireOf(Append(s, r))) = Len(s) + 1
      /\ \A i \in 1 .. Len(s) + 1 : WireOf(Append(s, r))[i] = Append(s, r)[i].frame
  BY <1>0, <1>2
<1>4. /\ Append(WireOf(s), r.frame) \in Seq(Nat)
      /\ Len(Append(WireOf(s), r.frame)) = Len(s) + 1
  BY <1>1 DEF TxRecord
<1>5. \A i \in 1 .. Len(s) + 1 :
        Append(s, r)[i].frame = Append(WireOf(s), r.frame)[i]
  BY <1>1
<1>. QED
  BY <1>3, <1>4, <1>5, SeqEqual

(* The descriptor of the i-th frame in the ring.                           *)
SlotOf(i) ==
  IF txDma + i - 1 < TxBufNb THEN txDma + i - 1 ELSE txDma + i - 1 - TxBufNb

QueuedInv ==
  /\ Tx!InUse \in 0 .. TxBufNb
  /\ Tx!Queued \in Seq(Nat) /\ Len(Tx!Queued) = Tx!InUse
  /\ \A i \in 1 .. Tx!InUse : Tx!Queued[i] = txDesc[SlotOf(i)]
  /\ \A i \in 1 .. TxBufNb : SlotOf(i) \in Tx!Slots /\ Tx!Place(SlotOf(i)) = i - 1

LEMMA QueuedIsSeq == ASSUME TxAssumptions, TxInv PROVE QueuedInv
<1>1. TxBufNb \in Nat /\ TxBufNb > 1 /\ txDma \in Tx!Slots /\ Tx!Last \in Tx!Slots
  BY LastInSlots DEF TxAssumptions, Tx!TxBufNbAssumption, TxInv, TxTypeInv
<1>2. Tx!InUse \in 0 .. TxBufNb
  BY <1>1 DEF Tx!InUse, Tx!Place, Tx!Slots
<1>3. \A i \in 1 .. TxBufNb : SlotOf(i) \in Tx!Slots /\ Tx!Place(SlotOf(i)) = i - 1
  BY <1>1 DEF SlotOf, Tx!Slots, Tx!Place
<1>4. Tx!Queued \in [1 .. Tx!InUse -> Nat] /\ \A i \in 1 .. Tx!InUse : Tx!Queued[i] = txDesc[SlotOf(i)]
  <2>1. \A i \in 1 .. Tx!InUse : txDesc[SlotOf(i)] \in Nat
    BY <1>1, <1>2, <1>3 DEF TxInv, TxTypeInv
  <2>. QED
    BY <2>1 DEF Tx!Queued, SlotOf
<1>5. Tx!Queued \in Seq(Nat) /\ Len(Tx!Queued) = Tx!InUse
  BY <1>2, <1>4, SeqDef
<1>. QED
  BY <1>2, <1>3, <1>4, <1>5 DEF QueuedInv

(* ETH_TxPkt_ChainMode puts the frame behind the others.                   *)
LEMMA GiveAccepts ==
  ASSUME TxAssumptions, TxInv, TxInv', QueuedInv, QueuedInv', WireInv,
         Tx!GiveDesc("main")
  PROVE  \E f \in Tx!Frames : Tx!Queue!Accept(f)
<1>1. Contexts = {"main"} /\ TxBufNb \in Nat /\ TxBufNb > 1
  BY DEF TxAssumptions, Tx!TxBufNbAssumption
<1>2. /\ txPc["main"] = "give" /\ txPc'["main"] = "poll" /\ txDesc[set] = Tx!FREE
      /\ frame["main"] \in Tx!Frames /\ frame["main"] \in Nat
      /\ txDesc' = [txDesc EXCEPT ![set] = frame["main"]]
      /\ txDma' = txDma /\ set' = set /\ sent' = sent
      /\ set \in Tx!Slots /\ txDma \in Tx!Slots
  BY <1>1 DEF TxInv, TxTypeInv, CallInv, WireInv, Tx!GiveDesc, Tx!Goto, Tx!engine
<1>3. Tx!Last = set /\ Tx!Last' = Tx!NextDesc(set)
  BY <1>1, <1>2, OneCaller DEF Tx!Last, Tx!Given
<1>4. Tx!InUse = Tx!Place(set) /\ Tx!Place(set) \in 0 .. TxBufNb - 1
  <2>1. txDma = set => Tx!Place(set) = 0
    BY <1>1, <1>2 DEF Tx!Place, Tx!Slots
  <2>2. Tx!Place(set) \in 0 .. TxBufNb - 1
    BY <1>1, <1>2 DEF Tx!Place, Tx!Slots
  <2>. QED
    BY <1>2, <1>3, <2>1, <2>2 DEF Tx!InUse
<1>5. \A d \in Tx!Slots : /\ txDesc'[d] = IF d = set THEN frame["main"] ELSE txDesc[d]
                          /\ Tx!Place(d)' = Tx!Place(d) /\ Tx!Place(d) \in 0 .. TxBufNb - 1
                          /\ Tx!Place(d) = Tx!Place(set) => d = set
  BY <1>1, <1>2 DEF TxInv, TxTypeInv, Tx!Place, Tx!Slots
<1>6. Tx!InUse' = Tx!InUse + 1
  <2>1. \A d \in Tx!Slots : txDesc'[d] # Tx!FREE <=> Tx!Place(d) < Tx!InUse'
    BY <1>5 DEF TxInv, Tx!TxInTurn
  <2>2. \A d \in Tx!Slots : txDesc[d] # Tx!FREE <=> Tx!Place(d) < Tx!InUse
    BY DEF TxInv, Tx!TxInTurn
  <2>3. Tx!InUse' \in 0 .. TxBufNb
    BY DEF QueuedInv
  <2>4. Tx!InUse' > Tx!InUse
    <3>1. frame["main"] # Tx!FREE
      BY <1>2 DEF TxInv, CallInv
    <3>. QED
      BY <1>2, <1>4, <1>5, <2>1, <3>1
  <2>5. CASE Tx!InUse' > Tx!InUse + 1
    <3>1. PICK d \in Tx!Slots : Tx!Place(d) = Tx!InUse + 1
      <4>1. SlotOf(Tx!InUse + 2) \in Tx!Slots /\ Tx!Place(SlotOf(Tx!InUse + 2)) = Tx!InUse + 1
        BY <1>1, <1>4, <2>3, <2>5 DEF QueuedInv
      <4>. QED
        BY <4>1
    <3>2. txDesc'[d] # Tx!FREE /\ txDesc[d] = Tx!FREE /\ d # set
      BY <1>4, <2>1, <2>2, <2>5, <3>1
    <3>. QED
      BY <1>5, <3>2
  <2>. QED
    BY <1>4, <2>3, <2>4, <2>5
<1>7. /\ Tx!Queued \in Seq(Nat) /\ Len(Tx!Queued) = Tx!InUse
      /\ \A i \in 1 .. Tx!InUse : Tx!Queued[i] = txDesc[SlotOf(i)]
      /\ \A i \in 1 .. TxBufNb : SlotOf(i) \in Tx!Slots /\ Tx!Place(SlotOf(i)) = i - 1
  BY DEF QueuedInv
<1>8. /\ Tx!Queued' \in Seq(Nat) /\ Len(Tx!Queued') = Tx!InUse + 1
      /\ \A i \in 1 .. Tx!InUse + 1 : Tx!Queued'[i] = txDesc'[SlotOf(i)]
  <2>1. \A i \in 1 .. TxBufNb : SlotOf(i)' = SlotOf(i)
    BY <1>2 DEF SlotOf
  <2>2. /\ Tx!Queued' \in Seq(Nat) /\ Len(Tx!Queued)' = Tx!InUse'
        /\ \A i \in 1 .. Tx!InUse' : Tx!Queued'[i] = (txDesc[SlotOf(i)])'
    BY DEF QueuedInv
  <2>. QED
    BY <1>1, <1>4, <1>6, <2>1, <2>2
<1>9. \A i \in 1 .. Tx!InUse + 1 : Tx!Queued'[i] = Append(Tx!Queued, frame["main"])[i]
  <2>. SUFFICES ASSUME NEW i \in 1 .. Tx!InUse + 1
                PROVE  Tx!Queued'[i] = Append(Tx!Queued, frame["main"])[i]
    OBVIOUS
  <2>1. SlotOf(i) \in Tx!Slots /\ Tx!Place(SlotOf(i)) = i - 1
    BY <1>1, <1>4, <1>7
  <2>2. CASE i = Tx!InUse + 1
    <3>1. SlotOf(i) = set
      BY <1>4, <1>5, <2>1, <2>2
    <3>2. Append(Tx!Queued, frame["main"])[i] = frame["main"]
      BY <1>2, <1>4, <1>7, <2>2
    <3>. QED
      BY <1>2, <1>5, <1>8, <3>1, <3>2
  <2>3. CASE i \in 1 .. Tx!InUse
    <3>1. SlotOf(i) # set
      BY <1>4, <2>1, <2>3
    <3>2. Append(Tx!Queued, frame["main"])[i] = Tx!Queued[i]
      BY <1>2, <1>4, <1>7, <2>3
    <3>3. Tx!Queued[i] = txDesc[SlotOf(i)]
      BY <1>7, <2>3
    <3>4. Tx!Queued'[i] = txDesc'[SlotOf(i)] /\ txDesc'[SlotOf(i)] = txDesc[SlotOf(i)]
      BY <1>5, <1>8, <2>1, <3>1
    <3>. QED
      BY <3>2, <3>3, <3>4
  <2>4. Tx!InUse \in Nat
    BY <1>1, <1>4
  <2>5. i = Tx!InUse + 1 \/ i \in 1 .. Tx!InUse
    BY <2>4
  <2>. QED
    BY <2>2, <2>3, <2>5
<1>10. Tx!Queued' = Append(Tx!Queued, frame["main"])
  <2>1. /\ Append(Tx!Queued, frame["main"]) \in Seq(Nat)
        /\ Len(Append(Tx!Queued, frame["main"])) = Tx!InUse + 1
    BY <1>2, <1>7
  <2>. QED
    BY <1>8, <1>9, <2>1, SeqEqual
<1>. QED
  BY <1>1, <1>2, <1>4, <1>7, <1>10 DEF Tx!Queue!Accept

(* The engine sends the first of them.                                     *)
LEMMA CloseSends ==
  ASSUME TxAssumptions, TxInv, TxInv', QueuedInv, QueuedInv', WireInv, Tx!Close
  PROVE  Tx!Queue!Send
<1>1. TxBufNb \in Nat /\ TxBufNb > 1 /\ Parts \in Nat /\ Parts > 0
  BY DEF TxAssumptions, Tx!TxBufNbAssumption, Tx!PartsAssumption
<1>2. /\ txDesc' = [txDesc EXCEPT ![txDma] = Tx!FREE] /\ txDma' = Tx!NextDesc(txDma)
      /\ sent' = Append(sent, [frame |-> txDesc[txDma], data |-> fetched])
      /\ txDma \in Tx!Slots /\ txDesc[txDma] \in Nat
  BY DEF Tx!Close, TxInv, TxTypeInv
<1>3. txDesc[txDma] # Tx!FREE
  <2>1. fetched # <<>>
    BY <1>1 DEF Tx!Close
  <2>. QED
    BY <2>1 DEF TxInv, EngineInv
<1>4. /\ Tx!Queued \in Seq(Nat) /\ Len(Tx!Queued) = Tx!InUse /\ Tx!InUse \in 0 .. TxBufNb
      /\ \A i \in 1 .. Tx!InUse : Tx!Queued[i] = txDesc[SlotOf(i)]
      /\ \A i \in 1 .. TxBufNb : SlotOf(i) \in Tx!Slots /\ Tx!Place(SlotOf(i)) = i - 1
  BY DEF QueuedInv
<1>5. Tx!InUse > 0 /\ SlotOf(1) = txDma /\ Tx!Place(txDma) = 0
  BY <1>1, <1>2, <1>3, <1>4 DEF TxInv, Tx!TxInTurn, Tx!Place, Tx!Slots, SlotOf
<1>6. /\ Tx!Queued' \in Seq(Nat) /\ Len(Tx!Queued') = Tx!InUse' /\ Tx!InUse' \in 0 .. TxBufNb
      /\ \A i \in 1 .. Tx!InUse' : Tx!Queued'[i] = (txDesc[SlotOf(i)])'
      /\ \A i \in 1 .. TxBufNb : SlotOf(i)' \in Tx!Slots /\ Tx!Place(SlotOf(i))' = i - 1
  BY DEF QueuedInv
<1>7. \A i \in 1 .. TxBufNb - 1 : SlotOf(i)' = SlotOf(i + 1)
  BY <1>1, <1>2 DEF SlotOf, Tx!NextDesc, Tx!Slots
<1>8. \A d \in Tx!Slots : txDesc'[d] = IF d = txDma THEN Tx!FREE ELSE txDesc[d]
  BY <1>2 DEF TxInv, TxTypeInv
<1>9. \A i \in 1 .. TxBufNb : SlotOf(i) = txDma => i = 1
  BY <1>4, <1>5
<1>10. Tx!InUse' = Tx!InUse - 1
  <2>1. \A d \in Tx!Slots : txDesc'[d] # Tx!FREE <=> Tx!Place(d)' < Tx!InUse'
    BY DEF TxInv, Tx!TxInTurn
  <2>2. \A d \in Tx!Slots : txDesc[d] # Tx!FREE <=> Tx!Place(d) < Tx!InUse
    BY DEF TxInv, Tx!TxInTurn
  <2>3. ASSUME NEW i \in 1 .. TxBufNb - 1
        PROVE  i - 1 < Tx!InUse' <=> i < Tx!InUse
    <3>1. i \in 1 .. TxBufNb /\ i + 1 \in 1 .. TxBufNb /\ i + 1 # 1
      BY <1>1
    <3>2. SlotOf(i + 1) \in Tx!Slots /\ Tx!Place(SlotOf(i + 1)) = i /\ SlotOf(i + 1) # txDma
      BY <1>1, <1>4, <1>9, <3>1
    <3>3. PICK d \in Tx!Slots : Tx!Place(d) = i /\ d # txDma
      BY <3>2
    <3>4. Tx!Place(d)' = i - 1
      BY <1>1, <1>2, <3>3 DEF Tx!Place, Tx!NextDesc, Tx!Slots
    <3>. QED
      BY <1>8, <2>1, <2>2, <3>3, <3>4
  <2>4. PICK d \in Tx!Slots : d = txDma
    BY <1>2
  <2>5. Tx!InUse' < TxBufNb
    <3>1. txDesc'[d] = Tx!FREE /\ Tx!Place(d)' = TxBufNb - 1
      BY <1>1, <1>2, <1>8, <2>4 DEF Tx!Place, Tx!NextDesc, Tx!Slots
    <3>. QED
      BY <1>1, <1>6, <2>1, <3>1
  <2>6. Tx!InUse' >= Tx!InUse - 1
    <3>1. CASE Tx!InUse = 1
      BY <1>6, <3>1
    <3>2. CASE Tx!InUse > 1
      <4>1. Tx!InUse - 1 \in 1 .. TxBufNb - 1 /\ Tx!InUse - 1 < Tx!InUse
        BY <1>1, <1>4, <3>2
      <4>2. Tx!InUse - 1 - 1 < Tx!InUse'
        BY <2>3, <4>1
      <4>. QED
        BY <1>4, <1>6, <4>2
    <3>. QED
      BY <1>4, <1>5, <3>1, <3>2
  <2>7. Tx!InUse' <= Tx!InUse - 1
    <3>1. CASE Tx!InUse' >= Tx!InUse
      <4>1. Tx!InUse \in 1 .. TxBufNb - 1 /\ Tx!InUse - 1 < Tx!InUse'
        BY <1>1, <1>4, <1>5, <1>6, <2>5, <3>1
      <4>. QED
        BY <1>4, <2>3, <4>1
    <3>. QED
      BY <1>4, <1>6, <3>1
  <2>. QED
    BY <1>4, <1>6, <2>6, <2>7
<1>11. Tx!Queued # <<>> /\ Head(Tx!Queued) = txDesc[txDma]
  BY <1>4, <1>5
<1>12. Tx!Queued' = Tail(Tx!Queued)
  <2>1. /\ Tail(Tx!Queued) \in Seq(Nat) /\ Len(Tail(Tx!Queued)) = Tx!InUse - 1
        /\ \A i \in 1 .. Tx!InUse - 1 : Tail(Tx!Queued)[i] = Tx!Queued[i + 1]
    BY <1>4, <1>11, HeadTailProperties
  <2>2. ASSUME NEW i \in 1 .. Tx!InUse - 1 PROVE Tx!Queued'[i] = Tx!Queued[i + 1]
    <3>1. i \in 1 .. TxBufNb - 1 /\ i + 1 \in 1 .. Tx!InUse /\ i + 1 \in 1 .. TxBufNb
      BY <1>1, <1>4
    <3>2. SlotOf(i)' = SlotOf(i + 1) /\ SlotOf(i + 1) \in Tx!Slots /\ SlotOf(i + 1) # txDma
      BY <1>4, <1>7, <1>9, <3>1
    <3>3. Tx!Queued'[i] = txDesc'[SlotOf(i + 1)]
      BY <1>6, <1>10, <3>2
    <3>. QED
      BY <1>4, <1>8, <3>1, <3>2, <3>3
  <2>3. Len(Tx!Queued') = Tx!InUse - 1
    BY <1>6, <1>10
  <2>. QED
    BY <1>6, <2>1, <2>2, <2>3, SeqEqual
<1>13. WireOf(sent') = Append(WireOf(sent), txDesc[txDma])
  <2>1. [frame |-> txDesc[txDma], data |-> fetched] \in TxRecord
    BY <1>2 DEF TxRecord, WireInv
  <2>2. sent \in Seq(TxRecord)
    BY DEF WireInv
  <2>. QED
    BY <1>2, <2>1, <2>2, WireGrows
<1>. QED
  BY <1>11, <1>12, <1>13 DEF Tx!Queue!Send, WireOf

(* The transmit path implements the bounded queue: a frame whose           *)
(* descriptor was given goes out once, in the order of the calls.          *)
LEMMA TxRefinement == ASSUME TxAssumptions PROVE Tx!Spec => Tx!ImplementsQueue
<1>1. Tx!Init => WireInv /\ Tx!Queue!Init
  <2>. SUFFICES ASSUME Tx!Init PROVE WireInv /\ Tx!Queue!Init
    OBVIOUS
  <2>1. WireInv
    BY DEF Tx!Init, WireInv, TxAssumptions
  <2>2. Tx!InUse = 0
    BY TxStarts, OneCaller DEF Tx!Init, Tx!InUse, Tx!Last, TxAssumptions,
                               Tx!TxBufNbAssumption, Tx!Slots
  <2>3. Tx!Queued = <<>>
    BY <2>2 DEF Tx!Queued
  <2>. QED
    BY <2>1, <2>3 DEF Tx!Init, Tx!Queue!Init
<1>2. TxInv /\ TxInv' /\ QueuedInv /\ QueuedInv' /\ WireInv /\ [Tx!Next]_(Tx!vars)
        => [Tx!Queue!Next]_(Tx!Queue!queueVars)
  <2>. SUFFICES ASSUME TxInv, TxInv', QueuedInv, QueuedInv', WireInv,
                       [Tx!Next]_(Tx!vars)
                PROVE  Tx!Queue!Next \/ UNCHANGED Tx!Queue!queueVars
    OBVIOUS
  <2>1. Contexts = {"main"}
    BY DEF TxAssumptions
  <2>2. ASSUME txDesc' = txDesc, txDma' = txDma, Tx!Last' = Tx!Last, sent' = sent
        PROVE  UNCHANGED Tx!Queue!queueVars
    <3>1. Tx!InUse' = Tx!InUse
      BY <2>2, RingKept
    <3>2. Tx!Queued' = Tx!Queued
      BY <2>2, <3>1 DEF Tx!Queued
    <3>. QED
      BY <2>2, <3>2 DEF Tx!Queue!queueVars
  <2>3. CASE Tx!GiveDesc("main")
    BY <2>3, GiveAccepts DEF Tx!Queue!Next
  <2>4. CASE Tx!Close
    BY <2>4, CloseSends DEF Tx!Queue!Next
  <2>5. CASE Tx!Fetch \/ Tx!Suspend
    <3>1. txDesc' = txDesc /\ txDma' = txDma /\ set' = set /\ txPc' = txPc /\ sent' = sent
      BY <2>5 DEF Tx!Fetch, Tx!Suspend
    <3>. QED
      BY <2>2, <3>1 DEF Tx!Last, Tx!Given
  <2>6. CASE \/ Tx!GetBuffer("main") \/ Tx!CopyPart("main") \/ Tx!TestOwn("main")
             \/ Tx!PollDemand("main")
    <3>1. txDesc' = txDesc /\ txDma' = txDma /\ set' = set /\ sent' = sent
      BY <2>6 DEF Tx!GetBuffer, Tx!CopyPart, Tx!TestOwn, Tx!PollDemand, Tx!engine
    <3>2. txPc \in [Contexts -> TxLabels]
      BY DEF TxInv, TxTypeInv
    <3>3. txPc["main"] \in {"poll", "advance"} <=> txPc'["main"] \in {"poll", "advance"}
      <4>1. CASE Tx!GetBuffer("main") \/ Tx!TestOwn("main")
        BY <2>1, <3>2, <4>1 DEF Tx!GetBuffer, Tx!TestOwn, Tx!Goto
      <4>2. CASE Tx!CopyPart("main")
        BY <2>1, <3>2, <4>2 DEF Tx!CopyPart, Tx!Goto
      <4>3. CASE Tx!PollDemand("main")
        BY <2>1, <3>2, <4>3 DEF Tx!PollDemand, Tx!Goto
      <4>. QED
        BY <2>6, <4>1, <4>2, <4>3
    <3>. QED
      BY <2>1, <2>2, <3>1, <3>3, OneCaller DEF Tx!Last, Tx!Given
  <2>7. CASE Tx!Advance("main")
    <3>1. /\ txDesc' = txDesc /\ txDma' = txDma /\ sent' = sent /\ set' = Tx!NextDesc(set)
          /\ txPc["main"] = "advance" /\ txPc'["main"] = "idle"
      BY <2>1, <2>7 DEF Tx!Advance, Tx!Goto, Tx!engine, TxInv, TxTypeInv
    <3>. QED
      BY <2>1, <2>2, <3>1, OneCaller DEF Tx!Last, Tx!Given
  <2>8. CASE UNCHANGED Tx!vars
    BY <2>2, <2>8 DEF Tx!vars, Tx!Last, Tx!Given
  <2>. QED
    BY <2>1, <2>3, <2>4, <2>5, <2>6, <2>7, <2>8 DEF Tx!Next, Tx!Engine, Tx!Call
<1>3. Tx!Init => TxInv
  BY TxStarts
<1>4. TxInv /\ [Tx!Next]_(Tx!vars) => TxInv'
  BY TxKeeps
<1>5. TxInv /\ WireInv /\ [Tx!Next]_(Tx!vars) => WireInv'
  BY WireKept
<1>6. TxInv => QueuedInv
  BY QueuedIsSeq
<1>. QED
  BY <1>1, <1>2, <1>3, <1>4, <1>5, <1>6, PTL DEF Tx!Spec, Tx!ImplementsQueue,
                                                 Tx!Queue!Spec

-----------------------------------------------------------------------------
(* The steps of Platform are steps of the transmit path or leave it alone. *)
LEMMA TxRuns == PlatformSpec => Tx!Spec
<1>1. PlatformInit => Tx!Init
  BY DEF PlatformInit
<1>2. [PlatformNext]_allVars => [Tx!Next]_(Tx!vars)
  BY DEF PlatformNext, allVars, Tx!vars, txVars
<1>3. PlatformSpec => PlatformInit /\ [][PlatformNext]_allVars
  BY PTL DEF PlatformSpec
<1>4. PlatformInit /\ [][PlatformNext]_allVars => Tx!Init /\ [][Tx!Next]_(Tx!vars)
  BY <1>1, <1>2, PTL
<1>. QED
  BY <1>3, <1>4, PTL DEF Tx!Spec

(* And so it is with the timers of the main loop.                          *)
LEMMA LoopRuns == PlatformSpec => Loop!Spec
<1>1. PlatformInit => Loop!Init
  BY DEF PlatformInit
<1>2. [PlatformNext]_allVars => [Loop!Next]_(Loop!vars)
  BY DEF PlatformNext, allVars, Loop!vars, loopVars
<1>3. PlatformSpec => PlatformInit /\ [][PlatformNext]_allVars
  BY PTL DEF PlatformSpec
<1>4. PlatformInit /\ [][PlatformNext]_allVars => Loop!Init /\ [][Loop!Next]_(Loop!vars)
  BY <1>1, <1>2, PTL
<1>. QED
  BY <1>3, <1>4, PTL DEF Loop!Spec

LEMMA LoopAssumed == LoopAssumptions
BY PlatformAssumption DEF LoopAssumptions

(* ETH_TxPkt_ChainMode, called from one context, gives the descriptors in  *)
(* turn: the engine is never suspended in front of a frame.                *)
THEOREM TxRingInTurn ==
  ASSUME Contexts = {"main"} PROVE PlatformSpec => []TxInTurn
<1>1. TxAssumptions
  BY PlatformAssumption DEF TxAssumptions
<1>. QED
  BY <1>1, TxRuns, TxGivesInTurn, PTL DEF TxInTurn

(* Called from one context, low_level_output overwrites a buffer of the    *)
(* engine only when the ring is full.                                      *)
THEOREM OverwritesOnlyWhenFull ==
  ASSUME Contexts = {"main"} PROVE PlatformSpec => []OnlyFullRingOverwrites
<1>1. TxAssumptions
  BY PlatformAssumption DEF TxAssumptions
<1>. QED
  BY <1>1, TxRuns, TxOverwritesOnlyWhenFull, PTL DEF OnlyFullRingOverwrites

(* Called from one context, the transmit path is a bounded queue.          *)
THEOREM TxIsQueue ==
  ASSUME Contexts = {"main"} PROVE PlatformSpec => ImplementsQueue
<1>1. TxAssumptions
  BY PlatformAssumption DEF TxAssumptions
<1>. QED
  BY <1>1, TxRuns, TxRefinement, PTL DEF ImplementsQueue

(* lwip_periodic_handle misses no timer when LWipTime wraps around: each   *)
(* is called at the first look after its period.                           *)
THEOREM CalledInTime == PlatformSpec => []NotLate
<1>1. LoopInv => Loop!NotLate
  BY LoopAssumed, LoopInBounds
<1>2. Loop!Init => LoopInv
  BY LoopAssumed, LoopStarts
<1>3. LoopInv /\ [Loop!Next]_(Loop!vars) => LoopInv'
  BY LoopAssumed, LoopKeeps
<1>. QED
  BY <1>1, <1>2, <1>3, LoopRuns, PTL DEF Loop!Spec, NotLate

(* lwip_periodic_handle calls no timer before its period is over, also     *)
(* when a tick comes between its test and its stamp, or the clock wraps    *)
(* around.                                                                 *)
THEOREM CalledAfterItsPeriod == PlatformSpec => NotEarly
<1>1. LoopInv /\ [Loop!Next]_(Loop!vars)
        => [\A t \in Loop!All : age'[t] < age[t] => age[t] * Tick >= Period[t]]_(Loop!vars)
  <2>. SUFFICES ASSUME LoopInv, Loop!Next, NEW t \in Loop!All, age'[t] < age[t]
                PROVE  age[t] * Tick >= Period[t]
    OBVIOUS
  <2>1. age[t] \in Nat
    BY DEF LoopInv, LoopTypeInv
  <2>2. Loop!Fire /\ t = at
    BY <2>1 DEF Loop!Next, Loop!SysTick, Loop!Look, Loop!Fire, LoopInv, LoopTypeInv
  <2>. QED
    BY <2>2 DEF Loop!Fire, LoopInv, Elapsed
<1>2. Loop!Init => LoopInv
  BY LoopAssumed, LoopStarts
<1>3. LoopInv /\ [Loop!Next]_(Loop!vars) => LoopInv'
  BY LoopAssumed, LoopKeeps
<1>. QED
  BY <1>1, <1>2, <1>3, LoopRuns, PTL DEF Loop!Spec, Loop!NotEarly, NotEarly

(* And with the heap.                                                      *)
LEMMA HeapRuns == PlatformSpec => Mem!Spec
<1>1. PlatformInit => Mem!Init
  BY DEF PlatformInit
<1>2. [PlatformNext]_allVars => [Mem!Next]_(Mem!vars)
  BY DEF PlatformNext, allVars, Mem!vars, heapVars
<1>3. PlatformSpec => PlatformInit /\ [][PlatformNext]_allVars
  BY PTL DEF PlatformSpec
<1>4. PlatformInit /\ [][PlatformNext]_allVars => Mem!Init /\ [][Mem!Next]_(Mem!vars)
  BY <1>1, <1>2, PTL
<1>. QED
  BY <1>3, <1>4, PTL DEF Mem!Spec

LEMMA HeapAssumed == Mem!SizesAssumption
BY PlatformAssumption

(* The structs of the heap tile it and are linked both ways, two free ones *)
(* are never neighbours and none is smaller than MIN_SIZE, whatever        *)
(* mem_malloc, mem_free and mem_trim did.                                  *)
THEOREM HeapIsSound == PlatformSpec => []HeapSound
BY HeapAssumed, HeapRuns, Mem!HeapIsSound, PTL DEF HeapSound

(* mem_malloc returns NULL only when no free struct is large enough.       *)
THEOREM MallocMissesNone == PlatformSpec => []FailsOnlyWhenFull
BY HeapAssumed, HeapRuns, Mem!MallocMissesNone, PTL DEF FailsOnlyWhenFull

(* The blocks of the heap never overlap.                                   *)
THEOREM HeapAllocates == PlatformSpec => ImplementsAllocator
BY HeapAssumed, HeapRuns, Mem!HeapAllocates, PTL DEF ImplementsAllocator

(* And with the packet buffers.                                            *)
LEMMA BuffersRun == PlatformSpec => Buffers!Spec
<1>1. PlatformInit => Buffers!Init
  BY DEF PlatformInit
<1>2. [PlatformNext]_allVars => [Buffers!Next]_(Buffers!vars)
  BY DEF PlatformNext, allVars, Buffers!vars, pbufVars
<1>3. PlatformSpec => PlatformInit /\ [][PlatformNext]_allVars
  BY PTL DEF PlatformSpec
<1>4. PlatformInit /\ [][PlatformNext]_allVars
        => Buffers!Init /\ [][Buffers!Next]_(Buffers!vars)
  BY <1>1, <1>2, PTL
<1>. QED
  BY <1>3, <1>4, PTL DEF Buffers!Spec

LEMMA BuffersAssumed == Buffers!SizesAssumption
BY PlatformAssumption

(* The references of the pbufs are counted exactly, and no pbuf in use     *)
(* leads to one given back or to itself: none is freed before its last     *)
(* reference, and none twice.                                              *)
THEOREM RefsAreSound == PlatformSpec => []RefsSound
BY BuffersAssumed, BuffersRun, Buffers!RefsAreSound, PTL DEF RefsSound

(* The total length of every packet is the sum of the lengths of its       *)
(* pbufs, as pbuf.c asserts, and no payload leaves its buffer.             *)
THEOREM LengthsAreSound == PlatformSpec => []LengthsSound
BY BuffersAssumed, BuffersRun, Buffers!LengthsAreSound, PTL DEF LengthsSound

-----------------------------------------------------------------------------
(* The list of timers.c.  What its operators do to the times left comes    *)
(* first: each is the sum of the differences up to its entry.              *)

Entries == [h : Sys!Handlers, time : Nat]
Distinct(l) == \A i, j \in DOMAIN l : l[i].h = l[j].h => i = j
Times(l) == [j \in DOMAIN l |-> l[j].time]

LEMMA LeftIsSum ==
  ASSUME NEW l \in Seq(Entries)
  PROVE  /\ Times(l) \in Seq(Nat) /\ Times(l) \in Seq(Int)
         /\ Len(Times(l)) = Len(l) /\ Len(l) \in Nat
         /\ \A i : Sys!Left(l, i) = PartialSums(Times(l))[i]
         /\ Sys!Left(l, 0) = 0
         /\ \A i \in 0 .. Len(l) : Sys!Left(l, i) \in Nat
         /\ \A i \in 1 .. Len(l) : Sys!Left(l, i) = Sys!Left(l, i - 1) + l[i].time
<1>1. Len(l) \in Nat /\ DOMAIN l = 1 .. Len(l) /\ \A i \in 1 .. Len(l) : l[i].time \in Nat
  <2>1. \A i \in 1 .. Len(l) : l[i] \in Entries
    OBVIOUS
  <2>. QED
    BY <2>1 DEF Entries
<1>2. Times(l) \in Seq(Nat) /\ Times(l) \in Seq(Int) /\ Len(Times(l)) = Len(l)
  BY <1>1 DEF Times
<1>3. \A i : Sys!Left(l, i) = PartialSums(Times(l))[i]
  <2>. DEFINE v == Times(l)
  <2>1. \A i : Sys!Left(l, i) = Sys!PartialSums(v)[i]
    BY DEF Sys!Left, Times
  <2>. HIDE DEF v
  <2>2. Sys!PartialSums(v) = PartialSums(v)
    BY DEF Sys!PartialSums, PartialSums
  <2>. QED
    BY <2>1, <2>2 DEF v
<1>4. /\ PartialSums(Times(l))[0] = 0
      /\ \A k \in 1 .. Len(l) : PartialSums(Times(l))[k] =
           PartialSums(Times(l))[k - 1] + Times(l)[k]
  BY <1>2, SumsFrom0
<1>5. \A k \in 0 .. Len(l) : PartialSums(Times(l))[k] \in Nat
  BY <1>2, SumsGrow
<1>6. \A k \in 1 .. Len(l) : Times(l)[k] = l[k].time
  BY <1>1 DEF Times
<1>. QED
  BY <1>1, <1>2, <1>3, <1>4, <1>5, <1>6

(* What begins with 0 and grows by the differences is the times left.      *)
LEMMA LeftAre ==
  ASSUME NEW l \in Seq(Entries), NEW p, p[0] = 0,
         \A k \in 1 .. Len(l) : p[k] = p[k - 1] + l[k].time
  PROVE  \A k \in 0 .. Len(l) : Sys!Left(l, k) = p[k]
<1>. DEFINE s == Times(l)
<1>1. s \in Seq(Int) /\ Len(s) = Len(l) /\ \A k : Sys!Left(l, k) = PartialSums(s)[k]
  BY LeftIsSum
<1>2. \A k \in 1 .. Len(l) : s[k] = l[k].time
  BY DEF Times
<1>. HIDE DEF s
<1>3. \A k \in 1 .. Len(s) : p[k] = p[k - 1] + s[k]
  BY <1>1, <1>2
<1>4. \A k \in 0 .. Len(s) : PartialSums(s)[k] = p[k]
  BY <1>1, <1>3, SumsAre
<1>. QED
  BY <1>1, <1>4

(* sys_timeout finds the place behind all that is due no later.            *)
PlaceFor(l, m, k) == Sys!Left(l, k) <= m /\ (k < Len(l) => Sys!Left(l, k + 1) > m)

LEMMA PlaceExists ==
  ASSUME NEW l \in Seq(Entries), NEW m \in Nat
  PROVE  \E k \in 0 .. Len(l) : PlaceFor(l, m, k)
<1>. DEFINE Late == {k \in 0 .. Len(l) : Sys!Left(l, k) > m}
<1>1. /\ Len(l) \in Nat /\ Sys!Left(l, 0) = 0
      /\ \A i \in 0 .. Len(l) : Sys!Left(l, i) \in Nat
  BY LeftIsSum
<1>2. CASE Late = {}
  <2>1. Len(l) \in 0 .. Len(l)
    BY <1>1
  <2>2. Sys!Left(l, Len(l)) <= m
    BY <1>1, <1>2, <2>1
  <2>. QED
    BY <1>1, <2>1, <2>2 DEF PlaceFor
<1>3. CASE Late # {}
  <2>1. PICK k \in Late : \A j \in Late : k <= j
    <3>1. Late \subseteq Nat
      BY <1>1
    <3>. HIDE DEF Late
    <3>. QED
      BY <1>3, <3>1, LeastNatural
  <2>2. k \in 1 .. Len(l)
    BY <1>1, <2>1
  <2>3. k - 1 \in 0 .. Len(l) /\ k - 1 \notin Late /\ (k - 1) + 1 = k
    BY <1>1, <2>1, <2>2
  <2>4. Sys!Left(l, k - 1) <= m
    BY <1>1, <2>3
  <2>. QED
    BY <2>1, <2>3, <2>4 DEF PlaceFor
<1>. QED
  BY <1>2, <1>3

(* The list with h put in behind the k-th, element by element.             *)
With(l, h, t, k) ==
  [i \in 1 .. Len(l) + 1 |->
     IF i <= k THEN l[i]
     ELSE IF i = k + 1 THEN Sys!Entry(h, t)
     ELSE IF i = k + 2 THEN [l[k + 1] EXCEPT !.time = @ - t]
     ELSE l[i - 1]]

LEMMA ShiftIs ==
  ASSUME NEW l \in Seq(Entries), NEW d \in Int,
         l # <<>> => Head(l).time - d \in Nat
  PROVE  /\ Sys!Shift(l, d) \in Seq(Entries) /\ Len(Sys!Shift(l, d)) = Len(l)
         /\ \A i \in 1 .. Len(l) :
              Sys!Shift(l, d)[i] = IF i = 1 THEN [l[1] EXCEPT !.time = @ - d] ELSE l[i]
<1>1. CASE l = <<>>
  BY <1>1 DEF Sys!Shift
<1>2. CASE l # <<>>
  <2>. DEFINE e == [Head(l) EXCEPT !.time = @ - d]
  <2>1. Len(l) \in Nat \ {0} /\ Head(l) = l[1] /\ l[1] \in Entries
    BY <1>2
  <2>2. e \in Entries
    BY <1>2, <2>1 DEF Entries
  <2>3. Tail(l) \in Seq(Entries) /\ Len(Tail(l)) = Len(l) - 1
        /\ \A i \in 1 .. Len(l) - 1 : Tail(l)[i] = l[i + 1]
    BY <1>2, HeadTailProperties
  <2>4. Sys!Shift(l, d) = <<e>> \o Tail(l)
    BY <1>2 DEF Sys!Shift
  <2>5. e = [l[1] EXCEPT !.time = @ - d]
    BY <2>1
  <2>. HIDE DEF e
  <2>6. <<e>> \in Seq(Entries) /\ Len(<<e>>) = 1 /\ <<e>>[1] = e
    BY <2>2
  <2>7. /\ <<e>> \o Tail(l) \in Seq(Entries)
        /\ Len(<<e>> \o Tail(l)) = Len(l)
        /\ \A i \in 1 .. Len(l) : (<<e>> \o Tail(l))[i] = IF i <= 1 THEN <<e>>[i]
             ELSE Tail(l)[i - 1]
    BY <2>1, <2>3, <2>6, ConcatProperties
  <2>8. \A i \in 1 .. Len(l) : (<<e>> \o Tail(l))[i] = IF i = 1 THEN e ELSE l[i]
    <3>. TAKE i \in 1 .. Len(l)
    <3>1. CASE i = 1
      BY <2>6, <2>7, <3>1
    <3>2. CASE i # 1
      <4>1. i - 1 \in 1 .. Len(l) - 1 /\ ~(i <= 1) /\ (i - 1) + 1 = i
        BY <2>1, <3>2
      <4>. QED
        BY <2>3, <2>7, <3>2, <4>1
    <3>. QED
      BY <3>1, <3>2
  <2>. QED
    BY <2>4, <2>5, <2>7, <2>8
<1>. QED
  BY <1>1, <1>2

(* What sys_timeout makes of the list when the pool has an entry left.     *)
LEMMA InsertIs ==
  ASSUME NEW l \in Seq(Entries), NEW h \in Sys!Handlers, NEW m \in Nat,
         Len(l) # NumTimeouts
  PROVE  \E k \in 0 .. Len(l) :
           /\ PlaceFor(l, m, k) /\ m - Sys!Left(l, k) \in Nat
           /\ k < Len(l) => l[k + 1].time - (m - Sys!Left(l, k)) \in Nat
           /\ Sys!Insert(l, h, m) \in Seq(Entries)
           /\ Sys!Insert(l, h, m) = With(l, h, m - Sys!Left(l, k), k)
<1>. DEFINE k == CHOOSE i \in 0 .. Len(l) : PlaceFor(l, m, i)
            t == m - Sys!Left(l, k)
            a == SubSeq(l, 1, k)
            b == SubSeq(l, k + 1, Len(l))
            c == <<Sys!Entry(h, t)>> \o Sys!Shift(b, t)
<1>1. k \in 0 .. Len(l) /\ PlaceFor(l, m, k)
  <2>. HIDE DEF PlaceFor
  <2>. QED
    BY PlaceExists
<1>2. Sys!Insert(l, h, m) = a \o <<Sys!Entry(h, t)>> \o Sys!Shift(b, t)
  BY DEF Sys!Insert, PlaceFor
<1>. HIDE DEF k
<1>3. /\ Len(l) \in Nat /\ Sys!Left(l, k) \in Nat
      /\ \A i \in 1 .. Len(l) : Sys!Left(l, i) = Sys!Left(l, i - 1) + l[i].time
      /\ \A i \in 1 .. Len(l) : l[i] \in Entries /\ l[i].time \in Nat
  <2>1. \A i \in 1 .. Len(l) : l[i] \in Entries
    OBVIOUS
  <2>2. \A i \in 1 .. Len(l) : l[i].time \in Nat
    BY <2>1 DEF Entries
  <2>. QED
    BY <1>1, <2>1, <2>2, LeftIsSum
<1>4. t \in Nat /\ t \in Int
  BY <1>1, <1>3 DEF PlaceFor
<1>5. ASSUME k < Len(l) PROVE l[k + 1].time - t \in Nat
  <2>1. k + 1 \in 1 .. Len(l) /\ (k + 1) - 1 = k
    BY <1>1, <1>3, <1>5
  <2>2. Sys!Left(l, k + 1) = Sys!Left(l, k) + l[k + 1].time /\ l[k + 1].time \in Nat
    BY <1>3, <2>1
  <2>3. Sys!Left(l, k + 1) > m
    BY <1>1, <1>5 DEF PlaceFor
  <2>. QED
    BY <1>3, <2>2, <2>3
<1>. HIDE DEF t
<1>6. /\ a \in Seq(Entries) /\ Len(a) = k /\ \A i \in 1 .. k : a[i] = l[i]
      /\ b \in Seq(Entries) /\ Len(b) = Len(l) - k
      /\ \A i \in 1 .. Len(l) - k : b[i] = l[k + i]
  <2>1. k \in Int /\ k + 1 \in Int /\ Len(l) \in Int
    BY <1>1, <1>3
  <2>2. \A i \in 1 .. k : l[i] \in Entries
    BY <1>1, <1>3
  <2>3. \A i \in k + 1 .. Len(l) : l[i] \in Entries
    BY <1>1, <1>3
  <2>4. /\ a \in Seq(Entries) /\ Len(a) = IF 1 <= k THEN k - 1 + 1 ELSE 0
        /\ \A i \in 1 .. k - 1 + 1 : a[i] = l[1 + i - 1]
    BY <2>1, <2>2, SubSeqProperties
  <2>5. /\ b \in Seq(Entries)
           /\ Len(b) = IF k + 1 <= Len(l) THEN Len(l) - (k + 1) + 1 ELSE 0
        /\ \A i \in 1 .. Len(l) - (k + 1) + 1 : b[i] = l[k + 1 + i - 1]
    BY <2>1, <2>3, SubSeqProperties
  <2>6. Len(a) = k /\ Len(b) = Len(l) - k
    BY <1>1, <1>3, <2>4, <2>5
  <2>7. \A i \in 1 .. k : a[i] = l[i]
    BY <1>1, <2>4
  <2>8. \A i \in 1 .. Len(l) - k : b[i] = l[k + i]
    <3>1. k \in Nat
      BY <1>1
    <3>2. \A i \in 1 .. Len(l) - k : i \in 1 .. Len(l) - (k + 1) + 1
          /\ k + 1 + i - 1 = k + i
      BY <1>3, <3>1
    <3>. QED
      BY <2>5, <3>2
  <2>. QED
    BY <2>4, <2>5, <2>6, <2>7, <2>8
<1>. HIDE DEF a, b
<1>7. b # <<>> => Head(b).time - t \in Nat
  <2>1. SUFFICES ASSUME b # <<>> PROVE Head(b).time - t \in Nat
    OBVIOUS
  <2>2. Len(b) \in Nat \ {0} /\ Head(b) = b[1]
    BY <1>6, <2>1
  <2>3. 1 \in 1 .. Len(l) - k /\ k < Len(l)
    <3>1. Len(l) - k \in Nat \ {0} /\ Len(l) \in Nat /\ k \in Int
      BY <1>1, <1>3, <1>6, <2>2
    <3>. QED
      BY <3>1
  <2>. QED
    BY <1>5, <1>6, <2>2, <2>3
<1>8. /\ Sys!Shift(b, t) \in Seq(Entries) /\ Len(Sys!Shift(b, t)) = Len(l) - k
      /\ \A i \in 1 .. Len(l) - k :
           Sys!Shift(b, t)[i] = IF i = 1 THEN [b[1] EXCEPT !.time = @ - t] ELSE b[i]
  <2>1. b \in Seq(Entries) /\ t \in Int /\ (b # <<>> => Head(b).time - t \in Nat)
    BY <1>4, <1>6, <1>7
  <2>2. /\ Sys!Shift(b, t) \in Seq(Entries) /\ Len(Sys!Shift(b, t)) = Len(b)
        /\ \A i \in 1 .. Len(b) :
             Sys!Shift(b, t)[i] = IF i = 1 THEN [b[1] EXCEPT !.time = @ - t] ELSE b[i]
    BY <2>1, ShiftIs
  <2>. QED
    BY <1>6, <2>2
<1>9. /\ <<Sys!Entry(h, t)>> \in Seq(Entries) /\ Len(<<Sys!Entry(h, t)>>) = 1
      /\ <<Sys!Entry(h, t)>>[1] = Sys!Entry(h, t)
  <2>1. Sys!Entry(h, t) \in Entries
    BY <1>4 DEF Sys!Entry, Entries
  <2>. QED
    BY <2>1
<1>10. /\ c \in Seq(Entries) /\ Len(c) = Len(l) - k + 1
       /\ \A i \in 1 .. Len(l) - k + 1 :
            c[i] = IF i <= 1 THEN <<Sys!Entry(h, t)>>[i] ELSE Sys!Shift(b, t)[i - 1]
  <2>1. 1 + (Len(l) - k) = Len(l) - k + 1
    BY <1>1, <1>3
  <2>. DEFINE e == <<Sys!Entry(h, t)>>
              f == Sys!Shift(b, t)
  <2>2. /\ e \in Seq(Entries) /\ Len(e) = 1 /\ f \in Seq(Entries) /\ Len(f) = Len(l) - k
        /\ c = e \o f
    BY <1>8, <1>9
  <2>. HIDE DEF c, e, f
  <2>3. /\ e \o f \in Seq(Entries) /\ Len(e \o f) = Len(e) + Len(f)
        /\ \A i \in 1 .. Len(e) + Len(f) :
             (e \o f)[i] = IF i <= Len(e) THEN e[i] ELSE f[i - Len(e)]
    BY <2>2, ConcatProperties
  <2>4. /\ c \in Seq(Entries) /\ Len(c) = Len(l) - k + 1
        /\ \A i \in 1 .. Len(l) - k + 1 : c[i] = IF i <= 1 THEN e[i] ELSE f[i - 1]
    BY <2>1, <2>2, <2>3
  <2>. QED
    BY <2>4 DEF e, f
<1>11. a \o <<Sys!Entry(h, t)>> \o Sys!Shift(b, t) = a \o c
  <2>. DEFINE e == <<Sys!Entry(h, t)>>
              f == Sys!Shift(b, t)
  <2>1. a \in Seq(Entries) /\ e \in Seq(Entries) /\ f \in Seq(Entries)
    BY <1>6, <1>8, <1>9
  <2>. HIDE DEF e, f
  <2>2. a \o e \o f = a \o (e \o f)
    BY <2>1, ConcatAssociative
  <2>. QED
    BY <2>2 DEF c, e, f
<1>. HIDE DEF c
<1>12. /\ a \o c \in Seq(Entries) /\ Len(a \o c) = Len(l) + 1
       /\ \A i \in 1 .. Len(l) + 1 : (a \o c)[i] = IF i <= k THEN a[i] ELSE c[i - k]
  <2>1. k + (Len(l) - k + 1) = Len(l) + 1
    BY <1>1, <1>3
  <2>2. a \in Seq(Entries) /\ Len(a) = k /\ c \in Seq(Entries) /\ Len(c) = Len(l) - k + 1
    BY <1>6, <1>10
  <2>3. /\ a \o c \in Seq(Entries) /\ Len(a \o c) = Len(a) + Len(c)
        /\ \A i \in 1 .. Len(a) + Len(c) :
             (a \o c)[i] = IF i <= Len(a) THEN a[i] ELSE c[i - Len(a)]
    BY <2>2, ConcatProperties
  <2>. QED
    BY <2>1, <2>2, <2>3
<1>13. ASSUME NEW i \in 1 .. Len(l) + 1
       PROVE  (a \o c)[i] = With(l, h, t, k)[i]
  <2>1. CASE i <= k
    <3>1. i \in 1 .. k
      BY <1>1, <2>1
    <3>. QED
      BY <1>6, <1>12, <2>1, <3>1 DEF With
  <2>2. CASE i = k + 1
    <3>1. i - k = 1 /\ ~(i <= k) /\ 1 \in 1 .. Len(l) - k + 1 /\ 1 <= 1
      BY <1>1, <1>3, <2>2
    <3>. QED
      BY <1>9, <1>10, <1>12, <2>2, <3>1 DEF With
  <2>3. CASE i = k + 2
    <3>1. /\ i - k = 2 /\ ~(i <= k) /\ i # k + 1 /\ 2 \in 1 .. Len(l) - k + 1 /\ ~(2 <= 1)
          /\ 2 - 1 = 1 /\ 1 \in 1 .. Len(l) - k
      BY <1>1, <1>3, <2>3
    <3>a. (a \o c)[i] = c[2]
      BY <1>12, <3>1
    <3>b. c[2] = Sys!Shift(b, t)[1]
      BY <1>10, <3>1
    <3>c. Sys!Shift(b, t)[1] = [b[1] EXCEPT !.time = @ - t]
      BY <1>8, <3>1
    <3>2. (a \o c)[i] = [b[1] EXCEPT !.time = @ - t]
      BY <3>a, <3>b, <3>c
    <3>3. b[1] = l[k + 1]
      BY <1>6, <3>1
    <3>. QED
      BY <2>3, <3>1, <3>2, <3>3 DEF With
  <2>4. CASE i > k + 2
    <3>1. /\ ~(i <= k) /\ i # k + 1 /\ i # k + 2 /\ i - k \in 1 .. Len(l) - k + 1
          /\ ~(i - k <= 1) /\ (i - k) - 1 \in 1 .. Len(l) - k /\ (i - k) - 1 # 1
          /\ k + ((i - k) - 1) = i - 1
      BY <1>1, <1>3, <2>4
    <3>a. (a \o c)[i] = c[i - k]
      BY <1>12, <3>1
    <3>b. c[i - k] = Sys!Shift(b, t)[(i - k) - 1]
      BY <1>10, <3>1
    <3>c. Sys!Shift(b, t)[(i - k) - 1] = b[(i - k) - 1]
      BY <1>8, <3>1
    <3>2. (a \o c)[i] = b[(i - k) - 1]
      BY <3>a, <3>b, <3>c
    <3>3. b[(i - k) - 1] = l[i - 1]
      BY <1>6, <3>1
    <3>. QED
      BY <3>1, <3>2, <3>3 DEF With
  <2>5. i \in Int /\ k \in Int
    BY <1>1, <1>3
  <2>6. i <= k \/ i = k + 1 \/ i = k + 2 \/ i > k + 2
    BY <2>5
  <2>. QED
    BY <2>1, <2>2, <2>3, <2>4, <2>6
<1>14. a \o c = With(l, h, t, k)
  <2>1. With(l, h, t, k) = [i \in 1 .. Len(l) + 1 |-> With(l, h, t, k)[i]]
    BY DEF With
  <2>2. a \o c = [i \in 1 .. Len(l) + 1 |-> (a \o c)[i]]
    <3>. DEFINE u == a \o c
    <3>1. u \in Seq(Entries) /\ Len(u) = Len(l) + 1
      BY <1>12
    <3>. HIDE DEF u
    <3>2. u = [i \in 1 .. Len(u) |-> u[i]]
      BY <3>1, LenProperties
    <3>. QED
      BY <3>1, <3>2 DEF u
  <2>. QED
    BY <1>13, <2>1, <2>2
<1>15. Sys!Insert(l, h, m) = a \o c
  BY <1>2, <1>11 DEF a, b, t
<1>. QED
  BY <1>1, <1>4, <1>5, <1>12, <1>14, <1>15 DEF t

-----------------------------------------------------------------------------
(* The time left to the handlers of a list on which each is once.          *)

LEMMA LeftsIs ==
  ASSUME NEW l, Distinct(l), NEW i \in DOMAIN l
  PROVE  l[i].h \in Sys!Armed(l) /\ Sys!LeftsOf(l)[l[i].h] = Sys!Left(l, i)
<1>1. l[i].h \in Sys!Armed(l)
  BY DEF Sys!Armed
<1>2. (CHOOSE j \in DOMAIN l : l[j].h = l[i].h) = i
  BY DEF Distinct
<1>. QED
  BY <1>1, <1>2 DEF Sys!LeftsOf

(* Two such functions are the same if they agree on the list.              *)
LEMMA SameLefts ==
  ASSUME NEW l, Distinct(l), NEW f, f = [g \in Sys!Armed(l) |-> f[g]],
         \A i \in DOMAIN l : f[l[i].h] = Sys!Left(l, i)
  PROVE  Sys!LeftsOf(l) = f
<1>1. ASSUME NEW g \in Sys!Armed(l) PROVE Sys!LeftsOf(l)[g] = f[g]
  <2>1. PICK i \in DOMAIN l : g = l[i].h
    BY DEF Sys!Armed
  <2>. QED
    BY <2>1, LeftsIs
<1>2. Sys!LeftsOf(l) = [g \in Sys!Armed(l) |-> Sys!LeftsOf(l)[g]]
  BY DEF Sys!LeftsOf
<1>. QED
  BY <1>1, <1>2

LEMMA WithIs ==
  ASSUME NEW l \in Seq(Entries), NEW h \in Sys!Handlers, NEW m \in Nat,
         NEW k \in 0 .. Len(l),
         NEW t \in Nat, t = m - Sys!Left(l, k),
         With(l, h, t, k) \in Seq(Entries)
  PROVE  LET w == With(l, h, t, k) IN
           /\ Len(w) = Len(l) + 1 /\ DOMAIN w = 1 .. Len(l) + 1
           /\ Sys!Armed(w) = Sys!Armed(l) \cup {h}
           /\ \A i \in 1 .. Len(l) + 1 :
                /\ i <= k => w[i].h = l[i].h /\ Sys!Left(w, i) = Sys!Left(l, i)
                /\ i = k + 1 => w[i].h = h /\ Sys!Left(w, i) = m
                /\ i > k + 1 => w[i].h = l[i - 1].h /\ Sys!Left(w, i) = Sys!Left(l, i - 1)
<1>. DEFINE w == With(l, h, t, k)
            n == Len(l)
            p == [i \in 0 .. n + 1 |-> IF i <= k THEN Sys!Left(l, i)
                                       ELSE IF i = k + 1 THEN m ELSE Sys!Left(l, i - 1)]
<1>1. /\ n \in Nat /\ Sys!Left(l, 0) = 0
      /\ \A i \in 0 .. n : Sys!Left(l, i) \in Nat
      /\ \A i \in 1 .. n : Sys!Left(l, i) = Sys!Left(l, i - 1) + l[i].time
  BY LeftIsSum
<1>2. \A i \in 1 .. n : l[i] \in Entries /\ l[i].time \in Nat
  <2>1. \A i \in 1 .. n : l[i] \in Entries
    OBVIOUS
  <2>. QED
    BY <2>1 DEF Entries
<1>3. Len(w) = n + 1 /\ DOMAIN w = 1 .. n + 1
  <2>1. DOMAIN w = 1 .. n + 1
    BY DEF With
  <2>2. Len(w) \in Nat /\ DOMAIN w = 1 .. Len(w)
    OBVIOUS
  <2>. HIDE DEF w, n
  <2>. QED
    BY <1>1, <2>1, <2>2
<1>4. ASSUME NEW i \in 1 .. n + 1
      PROVE  /\ i <= k => w[i] = l[i]
             /\ i = k + 1 => w[i] = Sys!Entry(h, t)
             /\ i = k + 2 => w[i] = [l[k + 1] EXCEPT !.time = @ - t]
             /\ i > k + 2 => w[i] = l[i - 1]
  BY <1>1 DEF With
<1>5. ASSUME NEW i \in 1 .. n + 1
      PROVE  /\ i <= k => w[i].h = l[i].h /\ w[i].time = l[i].time
             /\ i = k + 1 => w[i].h = h /\ w[i].time = t
             /\ i = k + 2 => w[i].h = l[i - 1].h /\ w[i].time = l[k + 1].time - t
             /\ i > k + 2 => w[i].h = l[i - 1].h /\ w[i].time = l[i - 1].time
  <2>1. CASE i <= k
    BY <1>4, <2>1
  <2>2. CASE i = k + 1
    BY <1>4, <2>2 DEF Sys!Entry
  <2>3. CASE i = k + 2
    <3>1. i - 1 = k + 1 /\ k + 1 \in 1 .. n /\ ~(i <= k) /\ i # k + 1 /\ ~(i > k + 2)
      BY <1>1, <2>3
    <3>2. l[k + 1] \in Entries /\ w[i] = [l[k + 1] EXCEPT !.time = @ - t]
      BY <1>2, <1>4, <2>3, <3>1
    <3>3. w[i].h = l[k + 1].h /\ w[i].time = l[k + 1].time - t
      BY <3>2 DEF Entries
    <3>. QED
      BY <3>1, <3>3
  <2>4. CASE i > k + 2
    <3>1. ~(i <= k) /\ i # k + 1 /\ i # k + 2
      BY <1>1, <2>4
    <3>. QED
      BY <1>4, <2>4, <3>1
  <2>. QED
    BY <1>1, <2>1, <2>2, <2>3, <2>4
<1>. HIDE DEF w
<1>6. \A i \in 0 .. n + 1 : Sys!Left(w, i) = p[i]
  <2>1. w \in Seq(Entries)
    BY DEF w
  <2>2. p[0] = 0
    BY <1>1
  <2>3. \A i \in 1 .. n + 1 : p[i] = p[i - 1] + w[i].time
    <3>. TAKE i \in 1 .. n + 1
    <3>2. CASE i <= k
      <4>1. i \in 1 .. n /\ i - 1 \in 0 .. n + 1 /\ i - 1 <= k /\ i \in 0 .. n + 1
        BY <1>1, <3>2
      <4>. QED
        BY <1>1, <1>5, <3>2, <4>1
    <3>3. CASE i = k + 1
      <4>1. p[i] = m /\ p[i - 1] = Sys!Left(l, k) /\ w[i].time = t
        BY <1>1, <1>5, <3>3
      <4>2. Sys!Left(l, k) \in Nat
        BY <1>1
      <4>. HIDE DEF p
      <4>. QED
        BY <4>1, <4>2
    <3>4. CASE i = k + 2
      <4>1. k + 1 \in 1 .. n /\ (k + 1) - 1 = k /\ i - 1 = k + 1 /\ ~(i <= k)
            /\ i # k + 1 /\ i \in 0 .. n + 1
            /\ k + 1 \in 0 .. n + 1 /\ ~(k + 1 <= k)
        BY <1>1, <3>4
      <4>2. p[i] = Sys!Left(l, k + 1) /\ p[i - 1] = m /\ w[i].time = l[k + 1].time - t
        BY <1>5, <3>4, <4>1
      <4>3. Sys!Left(l, k + 1) = Sys!Left(l, k) + l[k + 1].time
        BY <1>1, <4>1
      <4>4. l[k + 1].time \in Nat /\ Sys!Left(l, k) \in Nat
        BY <1>1, <1>2, <4>1
      <4>. HIDE DEF p
      <4>. QED
        BY <4>2, <4>3, <4>4
    <3>5. CASE i > k + 2
      <4>1. i - 1 \in 1 .. n /\ i - 1 \in 0 .. n + 1 /\ ~(i <= k) /\ i # k + 1
            /\ i \in 0 .. n + 1
            /\ ~(i - 1 <= k) /\ i - 1 # k + 1 /\ i # k + 2
        BY <1>1, <3>5
      <4>2. p[i] = Sys!Left(l, i - 1) /\ p[i - 1] = Sys!Left(l, (i - 1) - 1)
            /\ w[i].time = l[i - 1].time
        BY <1>5, <3>5, <4>1
      <4>. QED
        BY <1>1, <4>1, <4>2
    <3>. QED
      BY <1>1, <3>2, <3>3, <3>4, <3>5
  <2>. HIDE DEF p
  <2>4. \A i \in 1 .. Len(w) : p[i] = p[i - 1] + w[i].time
    BY <1>3, <2>3
  <2>5. \A i \in 0 .. Len(w) : Sys!Left(w, i) = p[i]
    BY <2>1, <2>2, <2>4, LeftAre
  <2>. QED
    BY <1>3, <2>5
<1>7. ASSUME NEW i \in 1 .. n + 1
      PROVE  /\ i <= k => w[i].h = l[i].h /\ Sys!Left(w, i) = Sys!Left(l, i)
             /\ i = k + 1 => w[i].h = h /\ Sys!Left(w, i) = m
             /\ i > k + 1 => w[i].h = l[i - 1].h /\ Sys!Left(w, i) = Sys!Left(l, i - 1)
  <2>1. i \in 0 .. n + 1 /\ n \in Nat
    BY <1>1
  <2>2. i > k + 1 => i = k + 2 \/ i > k + 2
    BY <1>1
  <2>. QED
    BY <1>5, <1>6, <2>1, <2>2
<1>8. Sys!Armed(w) = Sys!Armed(l) \cup {h}
  <2>1. DOMAIN l = 1 .. n
    OBVIOUS
  <2>2. ASSUME NEW i \in 1 .. n + 1 PROVE w[i].h \in Sys!Armed(l) \cup {h}
    <3>1. CASE i <= k
      <4>1. i \in 1 .. n
        BY <1>1, <3>1
      <4>. QED
        BY <1>7, <2>1, <3>1, <4>1 DEF Sys!Armed
    <3>2. CASE i = k + 1
      BY <1>7, <3>2
    <3>3. CASE i > k + 1
      <4>1. i - 1 \in 1 .. n
        BY <1>1, <3>3
      <4>. QED
        BY <1>7, <2>1, <3>3, <4>1 DEF Sys!Armed
    <3>. QED
      BY <1>1, <3>1, <3>2, <3>3
  <2>3. ASSUME NEW i \in 1 .. n PROVE l[i].h \in Sys!Armed(w)
    <3>1. CASE i <= k
      <4>1. i \in 1 .. n + 1
        BY <1>1
      <4>. QED
        BY <1>3, <1>7, <3>1, <4>1 DEF Sys!Armed
    <3>2. CASE ~(i <= k)
      <4>1. i + 1 \in 1 .. n + 1 /\ i + 1 > k + 1 /\ (i + 1) - 1 = i
        BY <1>1, <3>2
      <4>. QED
        BY <1>3, <1>7, <4>1 DEF Sys!Armed
    <3>. QED
      BY <3>1, <3>2
  <2>4. h \in Sys!Armed(w)
    <3>1. k + 1 \in 1 .. n + 1
      BY <1>1
    <3>. QED
      BY <1>3, <1>7, <3>1 DEF Sys!Armed
  <2>5. \A g \in Sys!Armed(w) : \E i \in 1 .. n + 1 : g = w[i].h
    BY <1>3 DEF Sys!Armed
  <2>6. \A g \in Sys!Armed(l) : \E i \in 1 .. n : g = l[i].h
    BY <2>1 DEF Sys!Armed
  <2>. QED
    BY <2>2, <2>3, <2>4, <2>5, <2>6
<1>. QED
  BY <1>3, <1>7, <1>8 DEF w

(* What sys_timeout does: nothing when the pool is empty; otherwise h is   *)
(* armed and the time left to no other handler changes.                    *)
LEMMA InsertArms ==
  ASSUME NEW l \in Seq(Entries), Distinct(l), NEW h \in Sys!Handlers,
         h \notin Sys!Armed(l),
         NEW m \in Nat, Len(l) # NumTimeouts
  PROVE  LET w == Sys!Insert(l, h, m) IN
           /\ w \in Seq(Entries) /\ Distinct(w) /\ Len(w) = Len(l) + 1
           /\ Sys!Armed(w) = Sys!Armed(l) \cup {h}
           /\ Sys!LeftsOf(w) = Sys!Set!Arm(h, m, Sys!LeftsOf(l))
<1>1. PICK k \in 0 .. Len(l) :
        /\ PlaceFor(l, m, k) /\ m - Sys!Left(l, k) \in Nat
        /\ Sys!Insert(l, h, m) \in Seq(Entries)
        /\ Sys!Insert(l, h, m) = With(l, h, m - Sys!Left(l, k), k)
  BY InsertIs
<1>. DEFINE t == m - Sys!Left(l, k)
            w == With(l, h, t, k)
            n == Len(l)
<1>2. /\ w \in Seq(Entries) /\ Len(w) = n + 1 /\ DOMAIN w = 1 .. n + 1
      /\ Sys!Armed(w) = Sys!Armed(l) \cup {h}
      /\ \A i \in 1 .. n + 1 :
           /\ i <= k => w[i].h = l[i].h /\ Sys!Left(w, i) = Sys!Left(l, i)
           /\ i = k + 1 => w[i].h = h /\ Sys!Left(w, i) = m
           /\ i > k + 1 => w[i].h = l[i - 1].h /\ Sys!Left(w, i) = Sys!Left(l, i - 1)
  <2>1. t \in Nat /\ t = m - Sys!Left(l, k) /\ w \in Seq(Entries)
    BY <1>1
  <2>. HIDE DEF t
  <2>. QED
    BY <2>1, WithIs
<1>3. n \in Nat /\ DOMAIN l = 1 .. n
  OBVIOUS
<1>. HIDE DEF w
<1>4. ASSUME NEW i \in 1 .. n + 1
      PROVE  \/ i = k + 1 /\ w[i].h = h /\ Sys!Left(w, i) = m
             \/ /\ i # k + 1
                /\ LET j == IF i <= k THEN i ELSE i - 1 IN
                     j \in 1 .. n /\ w[i].h = l[j].h /\ Sys!Left(w, i) = Sys!Left(l, j)
  <2>1. CASE i <= k
    <3>1. i \in 1 .. n /\ i # k + 1
      BY <1>3, <2>1
    <3>. QED
      BY <1>2, <2>1, <3>1
  <2>2. CASE i = k + 1
    BY <1>2, <2>2
  <2>3. CASE i > k + 1
    <3>1. i - 1 \in 1 .. n /\ i # k + 1 /\ ~(i <= k)
      BY <1>3, <2>3
    <3>. QED
      BY <1>2, <2>3, <3>1
  <2>. QED
    BY <1>3, <2>1, <2>2, <2>3
<1>5. \A j \in 1 .. n : l[j].h \in Sys!Armed(l) /\ l[j].h # h
  BY <1>3 DEF Sys!Armed
<1>6. Distinct(w)
  <2>1. SUFFICES ASSUME NEW a \in 1 .. n + 1, NEW b \in 1 .. n + 1, w[a].h = w[b].h
                 PROVE  a = b
    BY <1>2 DEF Distinct
  <2>2. CASE a = k + 1 \/ b = k + 1
    BY <1>4, <1>5, <2>1, <2>2
  <2>3. CASE a # k + 1 /\ b # k + 1
    <3>. DEFINE ja == IF a <= k THEN a ELSE a - 1
                jb == IF b <= k THEN b ELSE b - 1
    <3>1. ja \in 1 .. n /\ jb \in 1 .. n /\ l[ja].h = l[jb].h
      BY <1>4, <2>1, <2>3
    <3>2. ja = jb
      <4>. HIDE DEF ja, jb
      <4>. QED
        BY <1>3, <3>1 DEF Distinct
    <3>. QED
      BY <1>3, <2>3, <3>2
  <2>. QED
    BY <2>2, <2>3
<1>7. Sys!LeftsOf(w) = Sys!Set!Arm(h, m, Sys!LeftsOf(l))
  <2>. DEFINE f == Sys!Set!Arm(h, m, Sys!LeftsOf(l))
  <2>1. DOMAIN Sys!LeftsOf(l) = Sys!Armed(l)
    BY DEF Sys!LeftsOf
  <2>2. f = [g \in Sys!Armed(l) \cup {h} |-> IF g = h THEN m ELSE Sys!LeftsOf(l)[g]]
    BY <2>1 DEF Sys!Set!Arm
  <2>3. f = [g \in Sys!Armed(w) |-> f[g]]
    BY <1>2, <2>2
  <2>4. ASSUME NEW i \in 1 .. n + 1 PROVE f[w[i].h] = Sys!Left(w, i)
    <3>1. CASE i = k + 1
      <4>1. w[i].h = h /\ Sys!Left(w, i) = m
        BY <1>4, <3>1
      <4>. QED
        BY <2>2, <4>1
    <3>2. CASE i # k + 1
      <4>. DEFINE j == IF i <= k THEN i ELSE i - 1
      <4>1. j \in 1 .. n /\ w[i].h = l[j].h /\ Sys!Left(w, i) = Sys!Left(l, j)
        BY <1>4, <3>2
      <4>. HIDE DEF j
      <4>2. Sys!LeftsOf(l)[l[j].h] = Sys!Left(l, j) /\ l[j].h \in Sys!Armed(l)
            /\ l[j].h # h
        BY <1>3, <1>5, <4>1, LeftsIs
      <4>. QED
        BY <2>2, <4>1, <4>2
    <3>. QED
      BY <3>1, <3>2
  <2>. HIDE DEF f
  <2>5. \A i \in DOMAIN w : f[w[i].h] = Sys!Left(w, i)
    BY <1>2, <2>4
  <2>6. Sys!LeftsOf(w) = f
    BY <1>6, <2>3, <2>5, SameLefts
  <2>. QED
    BY <2>6 DEF f
<1>. QED
  BY <1>1, <1>2, <1>6, <1>7 DEF w

LEMMA InsertFull ==
  ASSUME NEW l, Len(l) = NumTimeouts, NEW h, NEW m
  PROVE  Sys!Insert(l, h, m) = l
BY DEF Sys!Insert

(* The list without its i-th entry; every time left to the others as it    *)
(* was, less d.                                                            *)
Without(l, i, w, d) ==
  /\ w \in Seq(Entries) /\ Len(w) = Len(l) - 1
  /\ \A j \in 1 .. Len(l) - 1 :
       /\ j < i => w[j].h = l[j].h /\ Sys!Left(w, j) = Sys!Left(l, j) - d
       /\ j >= i => w[j].h = l[j + 1].h /\ Sys!Left(w, j) = Sys!Left(l, j + 1) - d

LEMMA WithoutIs ==
  ASSUME NEW l \in Seq(Entries), Distinct(l), NEW i \in DOMAIN l, NEW w,
         NEW d \in Int,
         Without(l, i, w, d)
  PROVE  /\ Distinct(w) /\ Sys!Armed(w) = Sys!Armed(l) \ {l[i].h}
         /\ Sys!LeftsOf(w) = [g \in Sys!Armed(l) \ {l[i].h} |-> Sys!LeftsOf(l)[g] - d]
<1>. DEFINE n == Len(l)
            At(j) == IF j < i THEN j ELSE j + 1
<1>1. /\ n \in Nat /\ DOMAIN l = 1 .. n /\ i \in 1 .. n
      /\ w \in Seq(Entries) /\ Len(w) = n - 1
  BY DEF Without
<1>2. DOMAIN w = 1 .. n - 1
  BY <1>1
<1>3. ASSUME NEW j \in 1 .. n - 1
      PROVE  /\ At(j) \in 1 .. n /\ At(j) # i
             /\ w[j].h = l[At(j)].h /\ Sys!Left(w, j) = Sys!Left(l, At(j)) - d
  <2>1. CASE j < i
    BY <1>1, <2>1 DEF Without
  <2>2. CASE j >= i
    <3>1. ~(j < i) /\ At(j) = j + 1 /\ j + 1 \in 1 .. n /\ j + 1 # i
      BY <1>1, <2>2
    <3>. QED
      BY <2>2, <3>1 DEF Without
  <2>. QED
    BY <1>1, <2>1, <2>2
<1>4. \A a, b \in 1 .. n : l[a].h = l[b].h => a = b
  BY <1>1 DEF Distinct
<1>5. Distinct(w)
  <2>1. SUFFICES ASSUME NEW a \in 1 .. n - 1, NEW b \in 1 .. n - 1, w[a].h = w[b].h
                 PROVE  a = b
    BY <1>2 DEF Distinct
  <2>2. At(a) = At(b)
    <3>1. At(a) \in 1 .. n /\ At(b) \in 1 .. n /\ l[At(a)].h = l[At(b)].h
      BY <1>3, <2>1
    <3>. HIDE DEF At
    <3>. QED
      BY <1>4, <3>1
  <2>. QED
    BY <1>1, <2>2
<1>6. Sys!Armed(w) = Sys!Armed(l) \ {l[i].h}
  <2>1. ASSUME NEW j \in 1 .. n - 1 PROVE w[j].h \in Sys!Armed(l) \ {l[i].h}
    <3>1. At(j) \in 1 .. n /\ At(j) # i /\ w[j].h = l[At(j)].h
      BY <1>3
    <3>. HIDE DEF At
    <3>. QED
      BY <1>1, <1>4, <3>1 DEF Sys!Armed
  <2>2. ASSUME NEW a \in 1 .. n, a # i PROVE \E j \in 1 .. n - 1 : w[j].h = l[a].h
    <3>1. CASE a < i
      <4>1. a \in 1 .. n - 1 /\ At(a) = a
        BY <1>1, <3>1
      <4>. QED
        BY <1>3, <4>1
    <3>2. CASE a > i
      <4>1. a - 1 \in 1 .. n - 1 /\ At(a - 1) = a
        BY <1>1, <3>2
      <4>. QED
        BY <1>3, <4>1
    <3>. QED
      BY <1>1, <2>2, <3>1, <3>2
  <2>. HIDE DEF At
  <2>3. Sys!Armed(w) = {w[j].h : j \in 1 .. n - 1}
        /\ Sys!Armed(l) = {l[j].h : j \in 1 .. n}
    BY <1>1, <1>2 DEF Sys!Armed
  <2>4. ASSUME NEW g \in Sys!Armed(l) \ {l[i].h} PROVE g \in Sys!Armed(w)
    <3>1. PICK a \in 1 .. n : g = l[a].h /\ a # i
      BY <2>3
    <3>. QED
      BY <2>2, <2>3, <3>1
  <2>5. Sys!Armed(w) \subseteq Sys!Armed(l) \ {l[i].h}
    BY <2>1, <2>3
  <2>. QED
    BY <2>4, <2>5
<1>7. Sys!LeftsOf(w) = [g \in Sys!Armed(l) \ {l[i].h} |-> Sys!LeftsOf(l)[g] - d]
  <2>. DEFINE f == [g \in Sys!Armed(l) \ {l[i].h} |-> Sys!LeftsOf(l)[g] - d]
  <2>1. f = [g \in Sys!Armed(w) |-> f[g]]
    BY <1>6
  <2>2. ASSUME NEW j \in 1 .. n - 1 PROVE f[w[j].h] = Sys!Left(w, j)
    <3>1. /\ At(j) \in 1 .. n
          /\ w[j].h = l[At(j)].h /\ Sys!Left(w, j) = Sys!Left(l, At(j)) - d
      BY <1>3
    <3>2. w[j].h \in Sys!Armed(w)
      BY <1>2 DEF Sys!Armed
    <3>. HIDE DEF At
    <3>3. Sys!LeftsOf(l)[l[At(j)].h] = Sys!Left(l, At(j))
      BY <1>1, <3>1, LeftsIs
    <3>. QED
      BY <1>6, <3>1, <3>2, <3>3
  <2>. HIDE DEF f
  <2>3. Sys!LeftsOf(w) = f
    BY <1>2, <1>5, <2>1, <2>2, SameLefts
  <2>. QED
    BY <2>3 DEF f
<1>. QED
  BY <1>5, <1>6, <1>7

(* The first entry expires: its time passes for the others.                *)
LEMMA TailIs ==
  ASSUME NEW l \in Seq(Entries), l # <<>>
  PROVE  /\ Without(l, 1, Tail(l), Sys!Left(l, 1)) /\ 1 \in DOMAIN l
         /\ Sys!Left(l, 1) \in Nat /\ Sys!Left(l, 1) = Head(l).time /\ Head(l) = l[1]
         /\ \A j \in DOMAIN l : Sys!Left(l, 1) <= Sys!Left(l, j)
<1>. DEFINE n == Len(l)
            w == Tail(l)
            d == Sys!Left(l, 1)
            p == [j \in 0 .. n - 1 |-> Sys!Left(l, j + 1) - d]
<1>1. /\ n \in Nat /\ n # 0 /\ DOMAIN l = 1 .. n /\ Head(l) = l[1]
      /\ w \in Seq(Entries) /\ Len(w) = n - 1 /\ \A j \in 1 .. n - 1 : w[j] = l[j + 1]
  BY HeadTailProperties
<1>2. /\ Sys!Left(l, 0) = 0 /\ \A j \in 0 .. n : Sys!Left(l, j) \in Nat
      /\ \A j \in 1 .. n : Sys!Left(l, j) = Sys!Left(l, j - 1) + l[j].time
      /\ Times(l) \in Seq(Nat) /\ Len(Times(l)) = n
      /\ \A j : Sys!Left(l, j) = PartialSums(Times(l))[j]
  BY LeftIsSum
<1>3. \A j \in 1 .. n : l[j].time \in Nat
  <2>1. \A j \in 1 .. n : l[j] \in Entries
    OBVIOUS
  <2>. QED
    BY <2>1 DEF Entries
<1>. HIDE DEF w, n
<1>4. d \in Nat /\ d = l[1].time
  BY <1>1, <1>2, <1>3
<1>5. \A j \in 1 .. n : d <= Sys!Left(l, j)
  <2>1. ASSUME NEW j \in 1 .. n PROVE d <= Sys!Left(l, j)
    <3>1. j \in 0 .. n /\ 1 \in 0 .. j
      BY <1>1
    <3>2. PartialSums(Times(l))[1] <= PartialSums(Times(l))[j]
      BY <1>2, <3>1, SumsGrow
    <3>. QED
      BY <1>2, <3>2
  <2>. QED
    BY <2>1
<1>. HIDE DEF d
<1>6. \A j \in 0 .. n - 1 : Sys!Left(w, j) = p[j]
  <2>2. p[0] = 0
    BY <1>1, <1>4 DEF d
  <2>3. \A j \in 1 .. n - 1 : p[j] = p[j - 1] + w[j].time
    <3>. TAKE j \in 1 .. n - 1
    <3>1. j \in 0 .. n - 1 /\ j - 1 \in 0 .. n - 1 /\ (j - 1) + 1 = j
          /\ j + 1 \in 1 .. n /\ (j + 1) - 1 = j
          /\ j \in 0 .. n
      BY <1>1
    <3>2. w[j].time = l[j + 1].time
      BY <1>1
    <3>3. Sys!Left(l, j + 1) = Sys!Left(l, j) + l[j + 1].time /\ Sys!Left(l, j) \in Nat
          /\ l[j + 1].time \in Nat
      BY <1>2, <1>3, <3>1
    <3>4. p[j] = Sys!Left(l, j + 1) - d /\ p[j - 1] = Sys!Left(l, j) - d
      BY <3>1
    <3>. QED
      BY <1>4, <3>2, <3>3, <3>4
  <2>. HIDE DEF p
  <2>4. Len(w) = n - 1 /\ w \in Seq(Entries)
    BY <1>1
  <2>5. \A j \in 1 .. Len(w) : p[j] = p[j - 1] + w[j].time
    BY <2>3, <2>4
  <2>6. \A j \in 0 .. Len(w) : Sys!Left(w, j) = p[j]
    BY <2>2, <2>4, <2>5, LeftAre
  <2>. QED
    BY <2>4, <2>6
<1>7. Without(l, 1, w, d)
  <2>1. ASSUME NEW j \in 1 .. n - 1
       
        PROVE  /\ ~(j < 1) /\ w[j].h = l[j + 1].h
                  /\ Sys!Left(w, j) = Sys!Left(l, j + 1) - d
    BY <1>1, <1>6
  <2>. QED
    BY <1>1, <2>1 DEF Without, n
<1>. QED
  BY <1>1, <1>4, <1>5, <1>7 DEF d, w

(* What sys_untimeout does: no other handler's time changes.               *)
LEMMA RemovalIs ==
  ASSUME NEW l \in Seq(Entries), NEW i \in DOMAIN l
  PROVE  Without(l, i,
           SubSeq(l, 1, i - 1) \o Sys!Shift(SubSeq(l, i + 1, Len(l)), - l[i].time), 0)
<1>. DEFINE n == Len(l)
            t == l[i].time
            a == SubSeq(l, 1, i - 1)
            b == SubSeq(l, i + 1, n)
            c == Sys!Shift(b, - t)
            w == a \o c
            p == [j \in 0 .. n - 1 |-> IF j < i THEN Sys!Left(l, j)
              ELSE Sys!Left(l, j + 1)]
<1>1. /\ n \in Nat /\ DOMAIN l = 1 .. n /\ i \in 1 .. n /\ t \in Nat
      /\ \A j \in 1 .. n : l[j] \in Entries /\ l[j].time \in Nat
  <2>1. \A j \in 1 .. n : l[j] \in Entries
    OBVIOUS
  <2>. QED
    BY <2>1 DEF Entries
<1>2. /\ Sys!Left(l, 0) = 0 /\ \A j \in 0 .. n : Sys!Left(l, j) \in Nat
      /\ \A j \in 1 .. n : Sys!Left(l, j) = Sys!Left(l, j - 1) + l[j].time
  BY LeftIsSum
<1>3. /\ a \in Seq(Entries) /\ Len(a) = i - 1 /\ \A j \in 1 .. i - 1 : a[j] = l[j]
      /\ b \in Seq(Entries) /\ Len(b) = n - i
      /\ \A j \in 1 .. n - i : b[j] = l[i + j]
  <2>1. i - 1 \in Int /\ i + 1 \in Int /\ n \in Int /\ 1 \in Int
    BY <1>1
  <2>2. \A j \in 1 .. i - 1 : l[j] \in Entries
    BY <1>1
  <2>3. \A j \in i + 1 .. n : l[j] \in Entries
    BY <1>1
  <2>4. /\ a \in Seq(Entries) /\ Len(a) = IF 1 <= i - 1 THEN (i - 1) - 1 + 1 ELSE 0
        /\ \A j \in 1 .. (i - 1) - 1 + 1 : a[j] = l[1 + j - 1]
    BY <2>1, <2>2, SubSeqProperties
  <2>5. /\ b \in Seq(Entries) /\ Len(b) = IF i + 1 <= n THEN n - (i + 1) + 1 ELSE 0
        /\ \A j \in 1 .. n - (i + 1) + 1 : b[j] = l[i + 1 + j - 1]
    BY <2>1, <2>3, SubSeqProperties
  <2>6. Len(a) = i - 1 /\ Len(b) = n - i
    BY <1>1, <2>4, <2>5
  <2>7. \A j \in 1 .. i - 1 : a[j] = l[j]
    <3>1. \A j \in 1 .. i - 1 : j \in 1 .. (i - 1) - 1 + 1 /\ 1 + j - 1 = j
      BY <1>1
    <3>. QED
      BY <2>4, <3>1
  <2>8. \A j \in 1 .. n - i : b[j] = l[i + j]
    <3>1. \A j \in 1 .. n - i : j \in 1 .. n - (i + 1) + 1 /\ i + 1 + j - 1 = i + j
      BY <1>1
    <3>. QED
      BY <2>5, <3>1
  <2>. QED
    BY <2>4, <2>5, <2>6, <2>7, <2>8
<1>. HIDE DEF a, b, n
<1>4. /\ c \in Seq(Entries) /\ Len(c) = n - i
      /\ \A j \in 1 .. n - i :
           c[j] = IF j = 1 THEN [l[i + 1] EXCEPT !.time = @ + t] ELSE l[i + j]
  <2>1. - t \in Int
    BY <1>1
  <2>2. b # <<>> => Head(b).time - (- t) \in Nat
    <3>1. SUFFICES ASSUME b # <<>> PROVE Head(b).time - (- t) \in Nat
      OBVIOUS
    <3>2. Len(b) \in Nat \ {0} /\ Head(b) = b[1]
      BY <1>3, <3>1
    <3>3. 1 \in 1 .. n - i /\ i + 1 \in 1 .. n
      BY <1>1, <1>3, <3>2
    <3>4. l[i + 1].time \in Nat /\ b[1] = l[i + 1]
      BY <1>1, <1>3, <3>3
    <3>. QED
      BY <1>1, <3>2, <3>4
  <2>3. /\ c \in Seq(Entries) /\ Len(c) = n - i
        /\ \A j \in 1 .. n - i : c[j] = IF j = 1 THEN [b[1] EXCEPT !.time = @ - (- t)]
             ELSE b[j]
    BY <1>3, <2>1, <2>2, ShiftIs
  <2>4. ASSUME NEW j \in 1 .. n - i
        PROVE  c[j] = IF j = 1 THEN [l[i + 1] EXCEPT !.time = @ + t] ELSE l[i + j]
    <3>1. CASE j = 1
      <4>1. b[1] = l[i + 1] /\ i + 1 \in 1 .. n
        BY <1>1, <1>3, <3>1
      <4>2. l[i + 1].time - (- t) = l[i + 1].time + t
        BY <1>1, <4>1
      <4>. QED
        BY <2>3, <3>1, <4>1, <4>2
    <3>2. CASE j # 1
      BY <1>3, <2>3, <3>2
    <3>. QED
      BY <3>1, <3>2
  <2>. QED
    BY <2>3, <2>4
<1>. HIDE DEF c
<1>5. /\ w \in Seq(Entries) /\ Len(w) = n - 1
      /\ \A j \in 1 .. n - 1 : w[j] = IF j <= i - 1 THEN a[j] ELSE c[j - (i - 1)]
  <2>1. (i - 1) + (n - i) = n - 1
    BY <1>1
  <2>. QED
    BY <1>3, <1>4, <2>1, ConcatProperties
<1>. HIDE DEF w
<1>6. ASSUME NEW j \in 1 .. n - 1
      PROVE  /\ j < i => w[j].h = l[j].h /\ w[j].time = l[j].time
             /\ j >= i => w[j].h = l[j + 1].h
             /\ j = i => w[j].time = l[j + 1].time + t
             /\ j > i => w[j].time = l[j + 1].time
  <2>1. CASE j < i
    <3>1. j <= i - 1 /\ j \in 1 .. i - 1 /\ ~(j >= i) /\ j # i /\ ~(j > i)
      BY <1>1, <2>1
    <3>. QED
      BY <1>3, <1>5, <3>1
  <2>2. CASE j = i
    <3>1. ~(j <= i - 1) /\ j - (i - 1) = 1 /\ 1 \in 1 .. n - i /\ i + 1 \in 1 .. n
          /\ ~(j < i) /\ ~(j > i)
      BY <1>1, <2>2
    <3>2. w[j] = [l[i + 1] EXCEPT !.time = @ + t]
      BY <1>4, <1>5, <3>1
    <3>3. l[i + 1] \in Entries
      BY <1>1, <3>1
    <3>4. w[j].h = l[i + 1].h /\ w[j].time = l[i + 1].time + t
      BY <3>2, <3>3 DEF Entries
    <3>. QED
      BY <2>2, <3>1, <3>4
  <2>3. CASE j > i
    <3>1. /\ ~(j <= i - 1) /\ j - (i - 1) # 1 /\ j - (i - 1) \in 1 .. n - i
          /\ i + (j - (i - 1)) = j + 1 /\ ~(j < i) /\ j # i
      BY <1>1, <2>3
    <3>2. w[j] = l[j + 1]
      BY <1>4, <1>5, <3>1
    <3>. QED
      BY <3>1, <3>2
  <2>. QED
    BY <1>1, <2>1, <2>2, <2>3
<1>7. \A j \in 0 .. n - 1 : Sys!Left(w, j) = p[j]
  <2>2. p[0] = 0
    BY <1>1, <1>2
  <2>3. \A j \in 1 .. n - 1 : p[j] = p[j - 1] + w[j].time
    <3>. TAKE j \in 1 .. n - 1
    <3>0. /\ j \in 0 .. n - 1 /\ j - 1 \in 0 .. n - 1 /\ (j - 1) + 1 = j
             /\ j + 1 \in 1 .. n
          /\ (j + 1) - 1 = j /\ j \in 1 .. n /\ j \in 0 .. n /\ j - 1 \in 0 .. n
      BY <1>1
    <3>2. CASE j < i
      <4>1. j - 1 < i
        BY <1>1, <3>2
      <4>2. p[j] = Sys!Left(l, j) /\ p[j - 1] = Sys!Left(l, j - 1)
            /\ w[j].time = l[j].time
        BY <1>6, <3>0, <3>2, <4>1
      <4>. QED
        BY <1>2, <3>0, <4>2
    <3>3. CASE j = i
      <4>1. j - 1 < i /\ ~(j < i)
        BY <1>1, <3>3
      <4>2. p[j] = Sys!Left(l, j + 1) /\ p[j - 1] = Sys!Left(l, j - 1)
            /\ w[j].time = l[j + 1].time + l[j].time
        BY <1>6, <3>0, <3>3, <4>1
      <4>3. Sys!Left(l, j + 1) = Sys!Left(l, j) + l[j + 1].time
            /\ Sys!Left(l, j) = Sys!Left(l, j - 1) + l[j].time
        BY <1>2, <3>0
      <4>4. l[j + 1].time \in Nat /\ l[j].time \in Nat /\ Sys!Left(l, j - 1) \in Nat
        BY <1>1, <1>2, <3>0
      <4>. QED
        BY <4>2, <4>3, <4>4
    <3>4. CASE j > i
      <4>1. ~(j - 1 < i) /\ ~(j < i)
        BY <1>1, <3>4
      <4>2. p[j] = Sys!Left(l, j + 1) /\ p[j - 1] = Sys!Left(l, j)
            /\ w[j].time = l[j + 1].time
        BY <1>6, <3>0, <3>4, <4>1
      <4>3. Sys!Left(l, j + 1) = Sys!Left(l, j) + l[j + 1].time
        BY <1>2, <3>0
      <4>. QED
        BY <4>2, <4>3
    <3>. QED
      BY <1>1, <3>2, <3>3, <3>4
  <2>. HIDE DEF p
  <2>4. w \in Seq(Entries) /\ \A j \in 1 .. Len(w) : p[j] = p[j - 1] + w[j].time
    BY <1>5, <2>3
  <2>5. \A j \in 0 .. Len(w) : Sys!Left(w, j) = p[j]
    BY <2>2, <2>4, LeftAre
  <2>. QED
    BY <1>5, <2>5
<1>8. Without(l, i, w, 0)
  <2>1. ASSUME NEW j \in 1 .. n - 1
        PROVE  /\ j < i => w[j].h = l[j].h /\ Sys!Left(w, j) = Sys!Left(l, j) - 0
               /\ j >= i => w[j].h = l[j + 1].h /\ Sys!Left(w, j) = Sys!Left(l, j + 1) - 0
    <3>1. j \in 0 .. n - 1 /\ j \in 0 .. n /\ j + 1 \in 0 .. n
      BY <1>1
    <3>2. Sys!Left(l, j) - 0 = Sys!Left(l, j)
          /\ Sys!Left(l, j + 1) - 0 = Sys!Left(l, j + 1)
      BY <1>2, <3>1
    <3>3. j >= i => ~(j < i)
      BY <1>1
    <3>. QED
      BY <1>6, <1>7, <3>1, <3>2, <3>3
  <2>. QED
    BY <1>5, <2>1 DEF Without, n
<1>. QED
  BY <1>8 DEF w, a, b, c, n

-----------------------------------------------------------------------------
(* The recurring handlers, one after the other.                            *)
LEMMA HandlersListed ==
  ASSUME Sys!HandlersAssumption
  PROVE  LET hs == Sys!SetToSeq(Recurring)
             n == Cardinality(Recurring)
         IN /\ n \in Nat /\ hs \in [1 .. n -> Recurring]
            /\ \A i, j \in 1 .. n : hs[i] = hs[j] => i = j
            /\ \A h \in Recurring : \E i \in 1 .. n : hs[i] = h
<1>. DEFINE n == Cardinality(Recurring)
            hs == Sys!SetToSeq(Recurring)
<1>1. /\ n \in Nat /\ ExistsBijection(1 .. n, Recurring)
  BY FS_CardinalityType DEF Sys!HandlersAssumption, Sys!IsFiniteSet, IsFiniteSet
<1>2. \E f \in [1 .. n -> Recurring] : IsInjective(f)
  BY <1>1 DEF ExistsBijection, Bijection, Injection
<1>3. hs \in [1 .. n -> Recurring] /\ IsInjective(hs)
  BY <1>2 DEF Sys!SetToSeq, Sys!IsInjective, IsInjective, Sys!Cardinality, Cardinality
<1>. HIDE DEF hs
<1>4. \A i, j \in 1 .. n : hs[i] = hs[j] => i = j
  BY <1>3 DEF IsInjective
<1>5. \A h \in Recurring : \E i \in 1 .. n : hs[i] = h
  <2>. DEFINE T == {hs[i] : i \in 1 .. n}
  <2>1. ExistsBijection(1 .. n, T)
    <3>1. hs \in [1 .. n -> T]
      BY <1>3
    <3>2. hs \in Injection(1 .. n, T)
      BY <1>3, <3>1 DEF Injection
    <3>3. hs \in Surjection(1 .. n, T)
      BY <3>1 DEF Surjection
    <3>. QED
      BY <3>2, <3>3 DEF ExistsBijection, Bijection
  <2>2. T \in SUBSET Recurring
    BY <1>3
  <2>. HIDE DEF T
  <2>3. Cardinality(T) = n
    BY <1>1, <2>1, FS_CountingElements
  <2>4. Recurring = T
    BY <2>2, <2>3, FS_Subset DEF Sys!HandlersAssumption, Sys!IsFiniteSet, IsFiniteSet
  <2>. QED
    BY <2>4 DEF T
<1>. QED
  BY <1>1, <1>3, <1>4, <1>5 DEF hs

(* A list of which no handler is listed twice has as many entries as armed *)
(* handlers: with an entry for each handler, the pool is never empty.      *)
LEMMA LenIsCardinality ==
  ASSUME NEW l \in Seq(Entries), Distinct(l)
  PROVE  Cardinality(Sys!Armed(l)) = Len(l) /\ Len(l) \in Nat
<1>. DEFINE n == Len(l)
            f == [i \in 1 .. n |-> l[i].h]
<1>1. n \in Nat /\ DOMAIN l = 1 .. n
  OBVIOUS
<1>2. f \in [1 .. n -> Sys!Armed(l)]
  BY <1>1 DEF Sys!Armed
<1>3. f \in Injection(1 .. n, Sys!Armed(l))
  BY <1>1, <1>2 DEF Injection, IsInjective, Distinct
<1>4. f \in Surjection(1 .. n, Sys!Armed(l))
  BY <1>1, <1>2 DEF Surjection, Sys!Armed
<1>5. ExistsBijection(1 .. n, Sys!Armed(l))
  BY <1>3, <1>4 DEF ExistsBijection, Bijection
<1>. HIDE DEF n
<1>. QED
  BY <1>1, <1>5, FS_CountingElements DEF n

LEMMA ArmedAreHandlers ==
  ASSUME NEW l \in Seq(Entries)
  PROVE  Sys!Armed(l) \subseteq Sys!Handlers
<1>1. \A i \in DOMAIN l : l[i] \in Entries
  OBVIOUS
<1>. QED
  BY <1>1 DEF Sys!Armed, Entries

(* MEMP_NUM_SYS_TIMEOUT allows for every handler.                          *)
RoomForAll == Cardinality(Sys!Handlers) <= NumTimeouts

LEMMA HandlersFinite ==
  ASSUME Sys!HandlersAssumption
  PROVE  IsFiniteSet(Sys!Handlers)
<1>1. IsFiniteSet({TcpTimer})
  BY FS_Singleton
<1>2. IsFiniteSet(Recurring) /\ IsFiniteSet(OneShot)
  BY DEF Sys!HandlersAssumption, Sys!IsFiniteSet, IsFiniteSet
<1>3. IsFiniteSet(Recurring \cup OneShot)
  BY <1>2, FS_Union
<1>. QED
  BY <1>1, <1>3, FS_Union DEF Sys!Handlers

LEMMA RoomFor ==
  ASSUME Sys!HandlersAssumption, Sys!NumTimeoutsAssumption, RoomForAll,
         NEW l \in Seq(Entries), Distinct(l), NEW h \in Sys!Handlers, h \notin Sys!Armed(l)
  PROVE  Len(l) # NumTimeouts
<1>1. Cardinality(Sys!Armed(l)) = Len(l) /\ Len(l) \in Nat
  BY LenIsCardinality
<1>2. IsFiniteSet(Sys!Handlers)
  BY HandlersFinite
<1>3. Sys!Armed(l) \in SUBSET Sys!Handlers
  BY ArmedAreHandlers
<1>4. /\ Cardinality(Sys!Armed(l)) <= Cardinality(Sys!Handlers)
      /\ Cardinality(Sys!Handlers) = Cardinality(Sys!Armed(l))
           => Sys!Handlers = Sys!Armed(l)
  BY <1>2, <1>3, FS_Subset
<1>5. Cardinality(Sys!Handlers) \in Nat
  BY <1>2, FS_CardinalityType
<1>. QED
  BY <1>1, <1>4, <1>5 DEF RoomForAll, Sys!NumTimeoutsAssumption

(* sys_timeouts_init: every handler has its own interval left, and all are *)
(* armed if the pool has an entry for each.                                *)
LEMMA StartedIs ==
  ASSUME Sys!HandlersAssumption, Sys!DelaysAssumption, Sys!NumTimeoutsAssumption
  PROVE  LET l == Sys!Started(Sys!SetToSeq(Recurring)) IN
           /\ l \in Seq(Entries) /\ Distinct(l)
           /\ Sys!Armed(l) \subseteq Recurring
           /\ \A h \in Sys!Armed(l) : Sys!LeftsOf(l)[h] = Interval[h]
           /\ RoomForAll => Sys!Armed(l) = Recurring
<1>. DEFINE n == Cardinality(Recurring)
            hs == Sys!SetToSeq(Recurring)
            Rec(f) == f = [k \in 0 .. Len(hs) |->
                             IF k = 0 THEN <<>>
                               ELSE Sys!Insert(f[k - 1], hs[k], Interval[hs[k]])]
            after == CHOOSE f : Rec(f)
<1>1. /\ n \in Nat /\ hs \in [1 .. n -> Recurring]
      /\ \A i, j \in 1 .. n : hs[i] = hs[j] => i = j
      /\ \A h \in Recurring : \E i \in 1 .. n : hs[i] = h
  BY HandlersListed
<1>. HIDE DEF hs, n
<1>2. Len(hs) = n
  <2>1. hs \in Seq(Recurring) /\ DOMAIN hs = 1 .. n
    BY <1>1
  <2>2. Len(hs) \in Nat /\ DOMAIN hs = 1 .. Len(hs)
    BY <2>1
  <2>. QED
    BY <1>1, <2>1, <2>2
<1>3. \A k \in 1 .. n : hs[k] \in Recurring /\ hs[k] \in Sys!Handlers
      /\ Interval[hs[k]] \in Nat
  BY <1>1 DEF Sys!Handlers, Sys!DelaysAssumption
<1>4. \E f : Rec(f)
  <2>. DEFINE V == Seq(Entries)
              b == <<>>
              g == [s \in (1 .. n) \X V |-> Sys!Insert(s[2], hs[s[1]], Interval[hs[s[1]]])]
  <2>1. ASSUME NEW k \in 1 .. n, NEW l \in V
        PROVE  Sys!Insert(l, hs[k], Interval[hs[k]]) \in V
    <3>1. CASE Len(l) = NumTimeouts
      BY <3>1, InsertFull
    <3>2. CASE Len(l) # NumTimeouts
      BY <1>3, <3>2, InsertIs
    <3>. QED
      BY <3>1, <3>2
  <2>2. g \in Steps(n, V) /\ b \in V
    <3>. HIDE DEF V
    <3>1. g \in Steps(n, V)
      BY <2>1 DEF Steps
    <3>2. b \in V
      BY DEF V
    <3>. QED
      BY <3>1, <3>2
  <2>3. PICK f \in [0 .. n -> V] :
          f[0] = b /\ \A k \in 1 .. n : f[k] = g[<<k, f[k - 1]>>]
    <3>. HIDE DEF g, V, b
    <3>. QED
      BY <1>1, <2>2, Recursion
  <2>4. ASSUME NEW k \in 1 .. n
        PROVE  f[k] = Sys!Insert(f[k - 1], hs[k], Interval[hs[k]])
    <3>1. <<k, f[k - 1]>> \in (1 .. n) \X V
      <4>. HIDE DEF V, g
      <4>1. k - 1 \in 0 .. n
        BY <1>1
      <4>2. f[k - 1] \in V
        BY <4>1, <2>3
      <4>. QED
        BY <4>2
    <3>2. g[<<k, f[k - 1]>>] = Sys!Insert(f[k - 1], hs[k], Interval[hs[k]])
      <4>. HIDE DEF V
      <4>. QED
        BY <3>1
    <3>. QED
      BY <2>3, <3>2
  <2>5. Rec(f)
    <3>1. \A k \in 0 .. n : k = 0 \/ k \in 1 .. n
      BY <1>1
    <3>. HIDE DEF g, V
    <3>. QED
      BY <1>2, <2>3, <2>4, <3>1
  <2>. QED
    BY <2>5
<1>5. Rec(after)
  <2>. HIDE DEF Rec
  <2>. QED
    BY <1>4
<1>6. Sys!Started(hs) = after[n]
  BY <1>2 DEF Sys!Started
<1>7. after[0] = <<>>
      /\ \A k \in 1 .. n : after[k] = Sys!Insert(after[k - 1], hs[k], Interval[hs[k]])
  <2>1. 0 \in 0 .. n /\ \A k \in 1 .. n : k \in 0 .. n /\ k # 0
    BY <1>1
  <2>. HIDE DEF after
  <2>. QED
    BY <1>2, <1>5, <2>1
<1>. HIDE DEF after
<1>. DEFINE First(k) == {hs[i] : i \in 1 .. k}
            S == {k \in 0 .. n :
                    /\ after[k] \in Seq(Entries) /\ Distinct(after[k])
                    /\ Sys!Armed(after[k]) \subseteq First(k)
                    /\ \A h \in Sys!Armed(after[k]) : Sys!LeftsOf(after[k])[h] =
                         Interval[h]
                    /\ RoomForAll => Sys!Armed(after[k]) = First(k)}
<1>8. 0 \in S
  <2>1. /\ <<>> \in Seq(Entries) /\ Distinct(<<>>) /\ Sys!Armed(<<>>) = {}
    BY DEF Distinct, Sys!Armed
  <2>2. First(0) = {} /\ 0 \in 0 .. n
    BY <1>1
  <2>. QED
    BY <1>7, <2>1, <2>2
<1>9. ASSUME NEW k \in 0 .. n - 1, k \in S PROVE k + 1 \in S
  <2>. DEFINE l == after[k]
              h == hs[k + 1]
              m == Interval[h]
              w == Sys!Insert(l, h, m)
  <2>1. k + 1 \in 1 .. n /\ k + 1 \in 0 .. n /\ (k + 1) - 1 = k /\ k \in 0 .. n
    BY <1>1
  <2>2. after[k + 1] = w
    BY <1>7, <2>1
  <2>3. /\ l \in Seq(Entries) /\ Distinct(l) /\ Sys!Armed(l) \subseteq First(k)
        /\ \A g \in Sys!Armed(l) : Sys!LeftsOf(l)[g] = Interval[g]
        /\ RoomForAll => Sys!Armed(l) = First(k)
    BY <1>9
  <2>4. h \in Sys!Handlers /\ m \in Nat
    BY <1>3, <2>1
  <2>5. First(k + 1) = First(k) \cup {h}
    <3>1. \A i \in 1 .. k + 1 : i \in 1 .. k \/ i = k + 1
      BY <2>1
    <3>2. \A i \in 1 .. k : i \in 1 .. k + 1
      BY <2>1
    <3>3. k + 1 \in 1 .. k + 1
      BY <2>1
    <3>. QED
      BY <3>1, <3>2, <3>3
  <2>6. h \notin Sys!Armed(l)
    <3>1. ASSUME NEW i \in 1 .. k PROVE hs[i] # h
      <4>1. i \in 1 .. n /\ i # k + 1
        BY <1>1, <2>1
      <4>. QED
        BY <1>1, <2>1, <4>1
    <3>. QED
      BY <2>3, <3>1
  <2>. HIDE DEF l, h, m, First
  <2>7. CASE Len(l) = NumTimeouts
    <3>1. w = l
      BY <2>7, InsertFull
    <3>2. ~RoomForAll
      BY <2>3, <2>4, <2>6, <2>7, RoomFor
    <3>. QED
      BY <2>1, <2>2, <2>3, <2>5, <3>1, <3>2
  <2>8. CASE Len(l) # NumTimeouts
    <3>1. /\ w \in Seq(Entries) /\ Distinct(w)
          /\ Sys!Armed(w) = Sys!Armed(l) \cup {h}
          /\ Sys!LeftsOf(w) = Sys!Set!Arm(h, m, Sys!LeftsOf(l))
      BY <2>3, <2>4, <2>6, <2>8, InsertArms
    <3>. HIDE DEF w
    <3>2. ASSUME NEW g \in Sys!Armed(w) PROVE Sys!LeftsOf(w)[g] = Interval[g]
      <4>1. DOMAIN Sys!LeftsOf(l) = Sys!Armed(l)
        BY DEF Sys!LeftsOf
      <4>2. Sys!LeftsOf(w) =
              [x \in Sys!Armed(l) \cup {h} |-> IF x = h THEN m ELSE Sys!LeftsOf(l)[x]]
        BY <3>1, <4>1 DEF Sys!Set!Arm
      <4>3. CASE g = h
        BY <4>2, <4>3 DEF m
      <4>4. CASE g # h
        BY <2>3, <3>1, <4>2, <4>4
      <4>. QED
        BY <4>3, <4>4
    <3>3. Sys!Armed(w) \subseteq First(k + 1)
          /\ (RoomForAll => Sys!Armed(w) = First(k + 1))
      BY <2>3, <2>5, <3>1
    <3>. QED
      BY <2>1, <2>2, <3>1, <3>2, <3>3
  <2>. QED
    BY <2>7, <2>8
<1>10. n \in S
  <2>1. \A k \in 0 .. n : k \in S
    <3>. HIDE DEF S
    <3>. QED
      BY <1>1, <1>8, <1>9, UpTo
  <2>. HIDE DEF S
  <2>. QED
    BY <1>1, <2>1
<1>11. First(n) = Recurring
  BY <1>1
<1>. HIDE DEF First
<1>. QED
  BY <1>6, <1>10, <1>11 DEF hs

-----------------------------------------------------------------------------
ListAssumptions ==
  /\ Sys!HandlersAssumption /\ Sys!DelaysAssumption
  /\ Sys!NumTimeoutsAssumption

(* The list is of known handlers, each at most once; the flag is set while *)
(* the TCP timer is in the list or there is a connection.                  *)
ListInv ==
  /\ list \in Seq(Entries) /\ Distinct(list)
  /\ TcpTimer \in Sys!Armed(list) => active
  /\ pcbs => active

(* With an entry for each handler, what should be armed is.                *)
ArmedInv ==
  /\ ListInv
  /\ active \in BOOLEAN
  /\ Recurring \subseteq Sys!Armed(list)
  /\ active => TcpTimer \in Sys!Armed(list)

LEMMA ListStarts ==
  ASSUME ListAssumptions
  PROVE  Sys!Init => ListInv /\ (RoomForAll => ArmedInv)
<1>. SUFFICES ASSUME Sys!Init PROVE ListInv /\ (RoomForAll => ArmedInv)
  OBVIOUS
<1>1. /\ list \in Seq(Entries) /\ Distinct(list) /\ Sys!Armed(list) \subseteq Recurring
      /\ RoomForAll => Sys!Armed(list) = Recurring
  BY StartedIs DEF Sys!Init, ListAssumptions
<1>2. TcpTimer \notin Recurring
  BY DEF ListAssumptions, Sys!HandlersAssumption
<1>. QED
  BY <1>1, <1>2 DEF Sys!Init, ListInv, ArmedInv

(* sys_timeout for a handler that is not in the list.                      *)
LEMMA InsertKeeps ==
  ASSUME ListAssumptions, NEW l \in Seq(Entries), Distinct(l),
         NEW h \in Sys!Handlers, h \notin Sys!Armed(l), NEW m \in Nat
  PROVE  LET w == Sys!Insert(l, h, m) IN
           /\ w \in Seq(Entries) /\ Distinct(w)
           /\ Sys!Armed(w) = Sys!Armed(l) \/ Sys!Armed(w) = Sys!Armed(l) \cup {h}
           /\ RoomForAll => Sys!Armed(w) = Sys!Armed(l) \cup {h}
           /\ w = l \/ Sys!LeftsOf(w) = Sys!Set!Arm(h, m, Sys!LeftsOf(l))
<1>1. CASE Len(l) = NumTimeouts
  <2>1. Sys!Insert(l, h, m) = l
    BY <1>1, InsertFull
  <2>2. ~RoomForAll
    BY <1>1, RoomFor DEF ListAssumptions
  <2>. QED
    BY <2>1, <2>2
<1>2. CASE Len(l) # NumTimeouts
  BY <1>2, InsertArms
<1>. QED
  BY <1>1, <1>2

LEMMA IntervalIsNat ==
  ASSUME Sys!DelaysAssumption, NEW h \in Recurring \cup {TcpTimer}
  PROVE  Interval[h] \in Nat
BY DEF Sys!DelaysAssumption

(* The list after a handler of it was taken out.                           *)
LEMMA RestIs ==
  ASSUME NEW l \in Seq(Entries), Distinct(l), l # <<>>
  PROVE  /\ Head(l).h \in Sys!Handlers /\ Head(l).h \in Sys!Armed(l)
         /\ Tail(l) \in Seq(Entries) /\ Distinct(Tail(l))
         /\ Sys!Armed(Tail(l)) = Sys!Armed(l) \ {Head(l).h}
         /\ Sys!LeftsOf(Tail(l)) = [g \in Sys!Armed(l) \ {Head(l).h} |->
                                  Sys!LeftsOf(l)[g] - Sys!LeftsOf(l)[Head(l).h]]
         /\ \A g \in Sys!Armed(l) : Sys!LeftsOf(l)[Head(l).h] <= Sys!LeftsOf(l)[g]
<1>1. /\ Without(l, 1, Tail(l), Sys!Left(l, 1)) /\ 1 \in DOMAIN l
      /\ Sys!Left(l, 1) \in Nat /\ Head(l) = l[1]
      /\ \A j \in DOMAIN l : Sys!Left(l, 1) <= Sys!Left(l, j)
  BY TailIs
<1>2. Sys!Left(l, 1) \in Int
  BY <1>1
<1>3. /\ Distinct(Tail(l)) /\ Sys!Armed(Tail(l)) = Sys!Armed(l) \ {l[1].h}
      /\ Sys!LeftsOf(Tail(l)) =
           [g \in Sys!Armed(l) \ {l[1].h} |-> Sys!LeftsOf(l)[g] - Sys!Left(l, 1)]
  <2>. DEFINE d == Sys!Left(l, 1)
              w == Tail(l)
  <2>1. Without(l, 1, w, d) /\ d \in Int /\ 1 \in DOMAIN l
    BY <1>1, <1>2
  <2>. HIDE DEF d, w
  <2>2. /\ Distinct(w) /\ Sys!Armed(w) = Sys!Armed(l) \ {l[1].h}
        /\ Sys!LeftsOf(w) = [g \in Sys!Armed(l) \ {l[1].h} |-> Sys!LeftsOf(l)[g] - d]
    BY <2>1, WithoutIs
  <2>. QED
    BY <2>2 DEF d, w
<1>4. l[1].h \in Sys!Armed(l) /\ Sys!LeftsOf(l)[l[1].h] = Sys!Left(l, 1)
  BY <1>1, LeftsIs
<1>5. ASSUME NEW g \in Sys!Armed(l) PROVE Sys!Left(l, 1) <= Sys!LeftsOf(l)[g]
  <2>1. PICK j \in DOMAIN l : g = l[j].h
    BY DEF Sys!Armed
  <2>. QED
    BY <1>1, <2>1, LeftsIs
<1>6. Tail(l) \in Seq(Entries)
  BY <1>1 DEF Without
<1>7. l[1].h \in Sys!Handlers
  BY <1>4, ArmedAreHandlers
<1>. QED
  BY <1>1, <1>3, <1>4, <1>5, <1>6, <1>7

LEMMA UntimeoutIs ==
  ASSUME NEW h, Sys!Untimeout(h), list \in Seq(Entries), Distinct(list)
  PROVE  /\ list' \in Seq(Entries) /\ Distinct(list)' /\ h \in Sys!Armed(list)
         /\ Sys!Armed(list)' = Sys!Armed(list) \ {h}
         /\ Sys!LeftsOf(list)' =
              [g \in Sys!Armed(list) \ {h} |-> Sys!LeftsOf(list)[g] - 0]
<1>1. PICK i \in DOMAIN list :
        /\ list[i].h = h
        /\ list' = SubSeq(list, 1, i - 1)
                     \o Sys!Shift(SubSeq(list, i + 1, Len(list)), - list[i].time)
  BY DEF Sys!Untimeout
<1>2. Without(list, i, list', 0)
  BY <1>1, RemovalIs
<1>3. /\ Distinct(list') /\ Sys!Armed(list') = Sys!Armed(list) \ {list[i].h}
      /\ Sys!LeftsOf(list') =
           [g \in Sys!Armed(list) \ {list[i].h} |-> Sys!LeftsOf(list)[g] - 0]
  <2>1. 0 \in Int
    OBVIOUS
  <2>. QED
    BY <1>2, <2>1, WithoutIs
<1>4. h \in Sys!Armed(list)
  BY <1>1 DEF Sys!Armed
<1>5. Distinct(list)' = Distinct(list') /\ Sys!Armed(list)' = Sys!Armed(list')
      /\ Sys!LeftsOf(list)' = Sys!LeftsOf(list')
  BY DEF Distinct, Sys!Armed, Sys!LeftsOf, Sys!Left
<1>. QED
  BY <1>1, <1>2, <1>3, <1>4, <1>5 DEF Without

LEMMA ListKeeps ==
  ASSUME ListAssumptions
  PROVE  /\ ListInv /\ [Sys!Next]_(Sys!vars) => ListInv'
         /\ RoomForAll /\ ArmedInv /\ [Sys!Next]_(Sys!vars) => ArmedInv'
<1>. SUFFICES ASSUME ListInv, [Sys!Next]_(Sys!vars)
              PROVE  ListInv' /\ (RoomForAll /\ ArmedInv => ArmedInv')
  BY DEF ArmedInv
<1>. USE DEF ListInv, ArmedInv
<1>a. /\ Sys!HandlersAssumption /\ Sys!DelaysAssumption
      /\ TcpTimer \notin Recurring \cup OneShot /\ Recurring \cap OneShot = {}
      /\ TcpTimer \in Sys!Handlers /\ Recurring \subseteq Sys!Handlers
         /\ OneShot \subseteq Sys!Handlers
      /\ Delays \subseteq Nat
  BY DEF ListAssumptions, Sys!HandlersAssumption, Sys!DelaysAssumption, Sys!Handlers
<1>1. CASE UNCHANGED <<list, pcbs, active>>
  BY <1>1 DEF Sys!Armed, Distinct
<1>2. ASSUME NEW h \in OneShot, NEW d \in Delays, Sys!Timeout(h, d)
      PROVE  ListInv' /\ (RoomForAll /\ ArmedInv => ArmedInv')
  <2>1. /\ h \in Sys!Handlers /\ h \notin Sys!Armed(list) /\ d \in Nat
           /\ list' = Sys!Insert(list, h, d)
        /\ pcbs' = pcbs /\ active' = active /\ h # TcpTimer
    BY <1>a, <1>2 DEF Sys!Timeout
  <2>. DEFINE w == Sys!Insert(list, h, d)
  <2>2. /\ w \in Seq(Entries) /\ Distinct(w)
        /\ Sys!Armed(w) = Sys!Armed(list) \/ Sys!Armed(w) = Sys!Armed(list) \cup {h}
    BY <2>1, InsertKeeps
  <2>3. Distinct(list)' = Distinct(list') /\ Sys!Armed(list)' = Sys!Armed(list')
    BY DEF Distinct, Sys!Armed
  <2>. HIDE DEF w
  <2>4. list' = w
    BY <2>1 DEF w
  <2>. QED
    BY <2>1, <2>2, <2>3, <2>4
<1>3. ASSUME NEW h \in OneShot, Sys!Untimeout(h)
      PROVE  ListInv' /\ (RoomForAll /\ ArmedInv => ArmedInv')
  <2>1. /\ list' \in Seq(Entries) /\ Distinct(list)'
        /\ Sys!Armed(list)' = Sys!Armed(list) \ {h} /\ pcbs' = pcbs /\ active' = active
    BY <1>3, UntimeoutIs DEF Sys!Untimeout
  <2>. QED
    BY <1>a, <2>1
<1>4. CASE Sys!TcpTimerNeeded
  <2>1. CASE active
    BY <1>4, <2>1 DEF Sys!TcpTimerNeeded, Distinct, Sys!Armed
  <2>2. CASE ~active
    <3>. DEFINE m == Interval[TcpTimer]
                w == Sys!Insert(list, TcpTimer, m)
    <3>1. m \in Nat /\ TcpTimer \in Sys!Handlers /\ TcpTimer \notin Sys!Armed(list)
      BY <1>a, <2>2, IntervalIsNat
    <3>2. list' = w /\ pcbs' = TRUE /\ active' = TRUE
      BY <1>4, <2>2 DEF Sys!TcpTimerNeeded
    <3>. HIDE DEF m
    <3>3. /\ w \in Seq(Entries) /\ Distinct(w)
          /\ Sys!Armed(w) = Sys!Armed(list)
             \/ Sys!Armed(w) = Sys!Armed(list) \cup {TcpTimer}
          /\ RoomForAll => Sys!Armed(w) = Sys!Armed(list) \cup {TcpTimer}
      BY <3>1, InsertKeeps
    <3>4. Distinct(list)' = Distinct(list') /\ Sys!Armed(list)' = Sys!Armed(list')
      BY DEF Distinct, Sys!Armed
    <3>. HIDE DEF w
    <3>. QED
      BY <3>2, <3>3, <3>4
  <2>. QED
    BY <2>1, <2>2
<1>5. CASE Sys!LastPcbGone
  BY <1>5 DEF Sys!LastPcbGone, Distinct, Sys!Armed
<1>6. CASE Sys!Expire
  <2>. DEFINE h == Head(list).h
              rest == Tail(list)
  <2>1. /\ list # <<>> /\ pcbs' = pcbs
        /\ \/ Sys!RearmsItself(h) /\ list' = Sys!Insert(rest, h, Interval[h])
              /\ active' = active
           \/ h = TcpTimer /\ ~Sys!RearmsItself(h) /\ active' = FALSE /\ list' = rest
           \/ h \in OneShot /\ list' = rest /\ active' = active
    BY <1>6 DEF Sys!Expire
  <2>2. /\ h \in Sys!Handlers /\ h \in Sys!Armed(list)
        /\ rest \in Seq(Entries) /\ Distinct(rest)
        /\ Sys!Armed(rest) = Sys!Armed(list) \ {h}
    BY <2>1, RestIs
  <2>. HIDE DEF h, rest
  <2>3. Distinct(list)' = Distinct(list') /\ Sys!Armed(list)' = Sys!Armed(list')
    BY DEF Distinct, Sys!Armed
  <2>4. CASE Sys!RearmsItself(h) /\ list' = Sys!Insert(rest, h, Interval[h])
             /\ active' = active
    <3>1. Interval[h] \in Nat /\ h \notin Sys!Armed(rest)
      BY <1>a, <2>2, <2>4, IntervalIsNat DEF Sys!RearmsItself
    <3>. DEFINE w == Sys!Insert(rest, h, Interval[h])
    <3>2. /\ w \in Seq(Entries) /\ Distinct(w)
          /\ Sys!Armed(w) = Sys!Armed(rest) \/ Sys!Armed(w) = Sys!Armed(rest) \cup {h}
          /\ RoomForAll => Sys!Armed(w) = Sys!Armed(rest) \cup {h}
      BY <2>2, <3>1, InsertKeeps
    <3>. HIDE DEF w
    <3>3. list' = w
      BY <2>4 DEF w
    <3>. QED
      BY <2>1, <2>2, <2>3, <2>4, <3>2, <3>3
  <2>5. CASE h = TcpTimer /\ ~Sys!RearmsItself(h) /\ active' = FALSE /\ list' = rest
    <3>1. ~pcbs
      BY <2>5 DEF Sys!RearmsItself
    <3>. QED
      BY <1>a, <2>1, <2>2, <2>3, <2>5, <3>1
  <2>6. CASE h \in OneShot /\ list' = rest /\ active' = active
    BY <1>a, <2>1, <2>2, <2>3, <2>6
  <2>. QED
    BY <2>1, <2>4, <2>5, <2>6
<1>7. QED
  BY <1>1, <1>2, <1>3, <1>4, <1>5, <1>6
     DEF Sys!Next, Sys!vars, Sys!Clock, Sys!RestartTimeouts, Sys!CheckTimeouts,
         Sys!CheckDone, Sys!clock

(* With an entry for each handler, the list holds exactly the handlers     *)
(* that the flags say.                                                     *)
LEMMA ArmedAsFlagged ==
  ASSUME ListAssumptions, RoomForAll
  PROVE  Sys!Spec => []Sys!ArmedOnce
<1>1. Sys!Init => ArmedInv
  BY ListStarts
<1>2. ArmedInv /\ [Sys!Next]_(Sys!vars) => ArmedInv'
  BY ListKeeps
<1>3. ArmedInv => Sys!ArmedOnce
  BY DEF ArmedInv, ListInv, Sys!ArmedOnce, Distinct
<1>. QED
  BY <1>1, <1>2, <1>3, PTL DEF Sys!Spec

(* The list of differences is a set of times left.                         *)
LEMMA ListIsSet ==
  ASSUME ListAssumptions
  PROVE  Sys!Spec => Sys!ImplementsTimerSet
<1>. DEFINE Lf == Sys!LeftsOf(list)
            Ds == Delays \cup {Interval[h] : h \in Recurring \cup {TcpTimer}}
<1>a. /\ Sys!HandlersAssumption /\ Sys!DelaysAssumption
      /\ TcpTimer \notin Recurring \cup OneShot
      /\ TcpTimer \in Sys!Handlers /\ OneShot \subseteq Sys!Handlers
      /\ Delays \subseteq Nat
  BY DEF ListAssumptions, Sys!HandlersAssumption, Sys!DelaysAssumption, Sys!Handlers
<1>b. DOMAIN Lf = Sys!Armed(list)
  BY DEF Sys!LeftsOf
<1>1. Sys!Init => Sys!Set!Init
  <2>. SUFFICES ASSUME Sys!Init PROVE Sys!Set!Init
    OBVIOUS
  <2>1. /\ Sys!Armed(list) \subseteq Recurring
        /\ \A h \in Sys!Armed(list) : Lf[h] = Interval[h]
    BY StartedIs DEF Sys!Init, ListAssumptions
  <2>2. Lf = [h \in Sys!Armed(list) |-> Lf[h]]
    BY DEF Sys!LeftsOf
  <2>3. \A h \in Sys!Armed(list) : Lf[h] \in Ds
    BY <2>1
  <2>. HIDE DEF Lf, Ds
  <2>4. Lf \in [DOMAIN Lf -> Ds]
    BY <1>b, <2>2, <2>3
  <2>. QED
    BY <1>b, <2>4 DEF Sys!Set!Init, Sys!Set!Pending, Ds, Lf
<1>2. ListInv /\ [Sys!Next]_(Sys!vars) => [Sys!Set!Next]_(Sys!LeftsOf(list))
  <2>. SUFFICES ASSUME ListInv, [Sys!Next]_(Sys!vars)
                PROVE  [Sys!Set!Next]_(Sys!LeftsOf(list))
    OBVIOUS
  <2>0. Sys!LeftsOf(list)' = Sys!LeftsOf(list')
    BY DEF Sys!LeftsOf, Sys!Armed, Sys!Left
  <2>l. list \in Seq(Entries) /\ Distinct(list)
    BY DEF ListInv
  <2>1. ASSUME NEW h \in OneShot, NEW d \in Delays, Sys!Timeout(h, d), list' # list
        PROVE  Sys!Set!Next
    <3>1. h \in Sys!Handlers /\ h \notin Sys!Armed(list) /\ d \in Nat
          /\ list' = Sys!Insert(list, h, d)
      BY <1>a, <2>1 DEF Sys!Timeout
    <3>2. Sys!LeftsOf(list') = Sys!Set!Arm(h, d, Lf)
      BY <2>1, <2>l, <3>1, InsertKeeps
    <3>3. d \in Ds
      OBVIOUS
    <3>. HIDE DEF Lf, Ds
    <3>4. h \in Sys!Handlers \ DOMAIN Lf
      BY <1>b, <3>1
    <3>5. Sys!Set!Arms
      BY <1>b, <2>0, <3>2, <3>3, <3>4 DEF Sys!Set!Arms, Sys!Set!Pending, Sys!Set!Arm,
                                          Ds, Lf
    <3>. QED
      BY <3>5 DEF Sys!Set!Next
  <2>2. ASSUME NEW h \in OneShot, Sys!Untimeout(h) PROVE Sys!Set!Next
    <3>1. /\ h \in Sys!Armed(list)
          /\ Sys!LeftsOf(list)' = [g \in Sys!Armed(list) \ {h} |-> Lf[g] - 0]
      BY <2>2, <2>l, UntimeoutIs
    <3>2. \A g \in Sys!Armed(list) : Lf[g] - 0 = Lf[g]
      <4>1. ASSUME NEW g \in Sys!Armed(list) PROVE Lf[g] \in Nat
        <5>1. PICK j \in DOMAIN list : g = list[j].h
          BY DEF Sys!Armed
        <5>2. Lf[g] = Sys!Left(list, j)
          BY <2>l, <5>1, LeftsIs
        <5>3. j \in 0 .. Len(list)
          BY <2>l, <5>1
        <5>. QED
          BY <2>l, <5>2, <5>3, LeftIsSum
      <4>. HIDE DEF Lf
      <4>. QED
        BY <4>1
    <3>. HIDE DEF Lf
    <3>4. Sys!LeftsOf(list') = [g \in Sys!Armed(list) \ {h} |-> Lf[g]]
      BY <2>0, <3>1, <3>2
    <3>5. Sys!LeftsOf(list') = [g \in DOMAIN Lf \ {h} |-> Lf[g]]
      BY <1>b, <3>4
    <3>6. Sys!Set!Cancels
      BY <1>b, <2>0, <3>1, <3>5 DEF Sys!Set!Cancels, Sys!Set!Pending,
                                    Sys!Set!Restrict, Lf
    <3>. QED
      BY <3>6 DEF Sys!Set!Next
  <2>3. ASSUME Sys!TcpTimerNeeded, list' # list PROVE Sys!Set!Next
    <3>1. ~active /\ list' = Sys!Insert(list, TcpTimer, Interval[TcpTimer])
      BY <2>3 DEF Sys!TcpTimerNeeded
    <3>2. TcpTimer \notin Sys!Armed(list) /\ Interval[TcpTimer] \in Nat
      BY <1>a, <3>1, IntervalIsNat DEF ListInv
    <3>3. Sys!LeftsOf(list') = Sys!Set!Arm(TcpTimer, Interval[TcpTimer], Lf)
      BY <1>a, <2>3, <2>l, <3>1, <3>2, InsertKeeps
    <3>4. Interval[TcpTimer] \in Ds
      OBVIOUS
    <3>. HIDE DEF Lf, Ds
    <3>5. TcpTimer \in Sys!Handlers \ DOMAIN Lf
      BY <1>a, <1>b, <3>2
    <3>6. Sys!Set!Arms
      BY <1>b, <2>0, <3>3, <3>4, <3>5 DEF Sys!Set!Arms, Sys!Set!Pending, Sys!Set!Arm,
                                          Ds, Lf
    <3>. QED
      BY <3>6 DEF Sys!Set!Next
  <2>4. ASSUME Sys!Expire PROVE Sys!Set!Next
    <3>. DEFINE h == Head(list).h
                rest == Tail(list)
                r == [g \in DOMAIN Lf \ {h} |-> Lf[g] - Lf[h]]
    <3>1. /\ list # <<>>
          /\ \/ Sys!RearmsItself(h) /\ list' = Sys!Insert(rest, h, Interval[h])
             \/ list' = rest
      BY <2>4 DEF Sys!Expire
    <3>2. /\ h \in Sys!Handlers /\ h \in Sys!Armed(list)
          /\ rest \in Seq(Entries) /\ Distinct(rest)
          /\ Sys!Armed(rest) = Sys!Armed(list) \ {h}
          /\ Sys!LeftsOf(rest) = [g \in Sys!Armed(list) \ {h} |-> Lf[g] - Lf[h]]
          /\ \A g \in Sys!Armed(list) : Lf[h] <= Lf[g]
      BY <2>l, <3>1, RestIs
    <3>. HIDE DEF h, rest
    <3>3. Sys!LeftsOf(rest) = r
      BY <1>b, <3>2
    <3>4. Sys!LeftsOf(list') = r
          \/ \E d \in Ds : Sys!LeftsOf(list') = Sys!Set!Arm(h, d, r)
      <4>1. CASE list' = rest
        BY <3>3, <4>1
      <4>2. CASE Sys!RearmsItself(h) /\ list' = Sys!Insert(rest, h, Interval[h])
        <5>1. h \in Recurring \cup {TcpTimer} /\ Interval[h] \in Nat /\ Interval[h] \in Ds
          BY <1>a, <4>2, IntervalIsNat DEF Sys!RearmsItself
        <5>2. h \notin Sys!Armed(rest)
          BY <3>2
        <5>3. list' = rest
              \/ Sys!LeftsOf(list') = Sys!Set!Arm(h, Interval[h], Sys!LeftsOf(rest))
          BY <3>2, <4>2, <5>1, <5>2, InsertKeeps
        <5>. HIDE DEF r, Ds
        <5>. QED
          BY <3>3, <5>1, <5>3
      <4>. QED
        BY <3>1, <4>1, <4>2
    <3>. HIDE DEF Lf, Ds, r
    <3>a. h \in DOMAIN Lf /\ \A g \in DOMAIN Lf : Lf[h] <= Lf[g]
      BY <1>b, <3>2
    <3>5. Sys!Set!Expires
      BY <2>0, <3>a, <3>4 DEF Sys!Set!Expires, r, Sys!Set!Pending, Sys!Set!Arm, Ds, Lf
    <3>. QED
      BY <3>5 DEF Sys!Set!Next
  <2>5. CASE list' = list
    BY <2>0, <2>5
  <2>. QED
    BY <2>1, <2>2, <2>3, <2>4, <2>5
       DEF Sys!Next, Sys!vars, Sys!Clock, Sys!LastPcbGone, Sys!RestartTimeouts,
           Sys!CheckTimeouts, Sys!CheckDone
<1>3. Sys!Init => ListInv
  BY ListStarts
<1>4. ListInv /\ [Sys!Next]_(Sys!vars) => ListInv'
  BY ListKeeps
<1>. HIDE DEF Lf, Ds
<1>. QED
  BY <1>1, <1>2, <1>3, <1>4, PTL DEF Sys!Spec, Sys!ImplementsTimerSet, Sys!Set!Spec

LEMMA SysRuns == PlatformSpec => Sys!Spec
<1>1. PlatformInit => Sys!Init
  BY DEF PlatformInit
<1>2. [PlatformNext]_allVars => [Sys!Next]_(Sys!vars)
  BY DEF PlatformNext, allVars, Sys!vars, listVars
<1>3. PlatformSpec => PlatformInit /\ [][PlatformNext]_allVars
  BY PTL DEF PlatformSpec
<1>4. PlatformInit /\ [][PlatformNext]_allVars => Sys!Init /\ [][Sys!Next]_(Sys!vars)
  BY <1>1, <1>2, PTL
<1>. QED
  BY <1>3, <1>4, PTL DEF Sys!Spec

(* With an entry of the pool for each handler, every recurring handler of  *)
(* timers.c is in the list, once; and tcpip_tcp_timer exactly when its     *)
(* flag says so, as it does while there are connections.                   *)
THEOREM TimersArmedOnce == ASSUME RoomForAll PROVE PlatformSpec => []ArmedOnce
<1>1. ListAssumptions
  BY PlatformAssumption DEF ListAssumptions
<1>. QED
  BY <1>1, SysRuns, ArmedAsFlagged, PTL DEF ArmedOnce

(* The list of differences of timers.c implements a set of times left: to  *)
(* insert, remove or expire one handler changes no other one's, also when  *)
(* the pool is empty.                                                      *)
THEOREM ListIsTimerSet == PlatformSpec => ImplementsTimerSet
<1>1. ListAssumptions
  BY PlatformAssumption DEF ListAssumptions
<1>. QED
  BY <1>1, SysRuns, ListIsSet, PTL DEF ImplementsTimerSet
=============================================================================

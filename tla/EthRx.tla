------------------------------- MODULE EthRx -------------------------------
(***************************************************************************)
(* The receive path of the Ethernet driver: the ring of DMA receive        *)
(* descriptors, the MAC's DMA engine that fills them, and the interrupt    *)
(* handler ETH_IRQHandler that empties them through ethernetif_input.      *)
(*                                                                         *)
(* The DMA engine is hardware: its actions are modelled from the way       *)
(* ethernetif.c and stm32_eth.c program it.  The handler is split at every *)
(* point where it reads or writes what the DMA engine also touches.        *)
(***************************************************************************)
EXTENDS Integers, Sequences

CONSTANTS
  RxBufNb,    (* ETH_RXBUFNB, the descriptors of the ring                  *)
  PoolSize,   (* frames the PBUF_POOL can hold at a time                   *)
  MaxFrames,  (* bound: the frames the wire carries in a behaviour         *)
  BadFrames   (* the frames that end in a descriptor with ES set, or that  *)
              (* do not fit in one descriptor (FS or LS clear)             *)

ASSUME RxBufNbAssumption == RxBufNb \in Nat /\ RxBufNb > 1
ASSUME PoolSizeAssumption == PoolSize \in Nat
ASSUME FramesAssumption == MaxFrames \in Nat /\ BadFrames \subseteq Nat

VARIABLES
  desc,       (* the frame in each descriptor, OWN while its OWN bit is set *)
  dma,        (* the descriptor the DMA engine fills next                  *)
  get,        (* DMARxDescToGet                                            *)
  rbus,       (* DMASR.RBUS: the DMA engine found no free descriptor       *)
  rs,         (* DMASR.R: receive interrupt flag                           *)
  nis,        (* DMASR.NIS: normal interrupt summary, the interrupt line   *)
  pc,         (* where ETH_IRQHandler is; "idle" when it does not run      *)
  hand,       (* frame.descriptor of low_level_input                       *)
  held,       (* the frame in the pbuf low_level_input returns; 0 is NULL  *)
  pool,       (* free pbufs of PBUF_POOL                                   *)
  kept,       (* pbufs the stack holds after netif->input returned         *)
  nextFrame,  (* the number of the next frame on the wire                  *)
  delivered   (* the frames handed to netif->input                         *)

ring == <<desc, dma, get>>
flags == <<rbus, rs, nis>>
memory == <<pool, kept>>
vars == <<desc, dma, get, rbus, rs, nis, pc, hand, held, pool, kept,
          nextFrame, delivered>>

Slots == 0 .. RxBufNb - 1
Frames == 1 .. MaxFrames

(* Buffer2NextDescAddr of the chained ring ETH_DMARxDescChainInit builds.  *)
NextDesc(d) == IF d = RxBufNb - 1 THEN 0 ELSE d + 1

OWN == 0

Init ==
  /\ desc = [d \in Slots |-> OWN]
  /\ dma = 0
  /\ get = 0
  /\ rbus = FALSE /\ rs = FALSE /\ nis = FALSE
  /\ pc = "idle"
  /\ hand = 0
  /\ held = 0
  /\ pool = PoolSize
  /\ kept = 0
  /\ nextFrame = 1
  /\ delivered = <<>>

-----------------------------------------------------------------------------
(* The DMA engine.                                                         *)

(* A frame is written to the current descriptor, the engine moves to the   *)
(* next one and flags it when it is not its own; R and NIS are raised.     *)
FrameStored ==
  /\ nextFrame \in Frames
  /\ desc[dma] = OWN
  /\ desc' = [desc EXCEPT ![dma] = nextFrame]
  /\ dma' = NextDesc(dma)
  /\ rbus' = (rbus \/ desc'[NextDesc(dma)] # OWN)
  /\ rs' = TRUE /\ nis' = TRUE
  /\ nextFrame' = nextFrame + 1
  /\ UNCHANGED <<get, pc, hand, held, memory, delivered>>

(* No descriptor is free: the frame is flushed and the engine suspends.    *)
FrameMissed ==
  /\ nextFrame \in Frames
  /\ desc[dma] # OWN
  /\ rbus' = TRUE
  /\ nextFrame' = nextFrame + 1
  /\ UNCHANGED <<ring, rs, nis, pc, hand, held, memory, delivered>>

-----------------------------------------------------------------------------
(* ETH_IRQHandler.                                                         *)

EnterIrq ==
  /\ pc = "idle"
  /\ nis
  /\ pc' = "check"
  /\ UNCHANGED <<ring, flags, hand, held, memory, nextFrame, delivered>>

(* ETH_GetRxPktSize: non-zero for one complete frame without error.        *)
RxPktSizeNonZero ==
  desc[get] # OWN /\ desc[get] \notin BadFrames

(* while (ETH_GetRxPktSize() != 0)                                         *)
CheckSize ==
  /\ pc = "check"
  /\ pc' = IF RxPktSizeNonZero THEN "take" ELSE "clearR"
  /\ UNCHANGED <<ring, flags, hand, held, memory, nextFrame, delivered>>

(* ETH_RxPkt_ChainMode: the frame and its descriptor are noted and         *)
(* DMARxDescToGet moves on, before the descriptor is given back.           *)
TakeFrame ==
  /\ pc = "take"
  /\ hand' = get
  /\ get' = NextDesc(get)
  /\ pc' = "copy"
  /\ UNCHANGED <<desc, dma, flags, held, memory, nextFrame, delivered>>

(* mutant: the copy is made from DMARxDescToGet, which has moved on        *)
CopyFrameFromNext ==
  /\ pc = "copy"
  /\ held' = IF pool > 0 THEN desc[get] ELSE 0
  /\ pool' = IF pool > 0 /\ desc[get] # OWN THEN pool - 1 ELSE pool
  /\ pc' = "release"
  /\ UNCHANGED <<ring, flags, hand, kept, nextFrame, delivered>>

(* pbuf_alloc(PBUF_RAW, len, PBUF_POOL) and the copy out of the buffer.    *)
CopyFrame ==
  /\ pc = "copy"
  /\ held' = IF pool > 0 THEN desc[hand] ELSE 0
  /\ pool' = IF pool > 0 THEN pool - 1 ELSE pool
  /\ pc' = "release"
  /\ UNCHANGED <<ring, flags, hand, kept, nextFrame, delivered>>

(* mutant: DMARxDescToGet is given back instead of frame.descriptor        *)
ReleaseNextDesc ==
  /\ pc = "release"
  /\ desc' = [desc EXCEPT ![get] = OWN]
  /\ rbus' = (rbus /\ desc'[dma] # OWN)
  /\ pc' = IF held = 0 THEN "check" ELSE "input"
  /\ UNCHANGED <<dma, get, rs, nis, hand, held, memory, nextFrame, delivered>>

(* frame.descriptor->Status = ETH_DMARxDesc_OWN, then RBUS is cleared and  *)
(* the engine polled if it was suspended.                                  *)
ReleaseDesc ==
  /\ pc = "release"
  /\ desc' = [desc EXCEPT ![hand] = OWN]
  /\ rbus' = (rbus /\ desc'[dma] # OWN)
  /\ pc' = IF held = 0 THEN "check" ELSE "input"
  /\ UNCHANGED <<dma, get, rs, nis, hand, held, memory, nextFrame, delivered>>

(* mutant: ethernetif_input does not free the pbuf the stack refused       *)
InputLeaks ==
  /\ pc = "input"
  /\ delivered' = Append(delivered, held)
  /\ held' = 0
  /\ kept' \in {kept, kept + 1}
  /\ pc' = "check"
  /\ UNCHANGED <<ring, flags, hand, nextFrame, pool>>

(* mutant: ETH_IRQHandler takes one frame per interrupt, without the while *)
InputOnce ==
  /\ pc = "input"
  /\ delivered' = Append(delivered, held)
  /\ held' = 0
  /\ \/ pool' = pool + 1 /\ UNCHANGED kept
     \/ kept' = kept + 1 /\ UNCHANGED pool
  /\ pc' = "clearR"
  /\ UNCHANGED <<ring, flags, hand, nextFrame>>

(* netif->input(p, netif): the stack frees the pbuf or keeps it queued.    *)
Input ==
  /\ pc = "input"
  /\ delivered' = Append(delivered, held)
  /\ held' = 0
  /\ \/ pool' = pool + 1 /\ UNCHANGED kept
     \/ kept' = kept + 1 /\ UNCHANGED pool
  /\ pc' = "check"
  /\ UNCHANGED <<ring, flags, hand, nextFrame>>

(* ETH_DMAClearITPendingBit(ETH_DMA_IT_R)                                  *)
ClearR ==
  /\ pc = "clearR"
  /\ rs' = FALSE
  /\ pc' = "clearNIS"
  /\ UNCHANGED <<ring, rbus, nis, hand, held, memory, nextFrame, delivered>>

(* ETH_DMAClearITPendingBit(ETH_DMA_IT_NIS) and the return from interrupt. *)
ClearNIS ==
  /\ pc = "clearNIS"
  /\ nis' = FALSE
  /\ pc' = "idle"
  /\ UNCHANGED <<ring, rbus, rs, hand, held, memory, nextFrame, delivered>>

-----------------------------------------------------------------------------
(* The stack, in the main loop, frees a pbuf it had kept.                  *)
StackFrees ==
  /\ pc = "idle"
  /\ kept > 0
  /\ kept' = kept - 1
  /\ pool' = pool + 1
  /\ UNCHANGED <<ring, flags, pc, hand, held, nextFrame, delivered>>

Engine == FrameStored \/ FrameMissed

Handler ==
  \/ EnterIrq \/ CheckSize \/ TakeFrame \/ CopyFrame \/ ReleaseDesc
  \/ Input \/ ClearR \/ ClearNIS

Next == Engine \/ Handler \/ StackFrees

Spec == Init /\ [][Next]_vars

(* The processor runs a pending interrupt and does not stop inside it;     *)
(* nothing obliges the wire to carry frames or the stack to free memory.   *)
FairSpec == Spec /\ WF_vars(Handler)

-----------------------------------------------------------------------------
(* Properties.                                                             *)

TypeOK ==
  /\ desc \in [Slots -> 0 .. MaxFrames]
  /\ dma \in Slots /\ get \in Slots /\ hand \in Slots
  /\ rbus \in BOOLEAN /\ rs \in BOOLEAN /\ nis \in BOOLEAN
  /\ pc \in {"idle", "check", "take", "copy", "release", "input",
             "clearR", "clearNIS"}
  /\ held \in 0 .. MaxFrames
  /\ pool \in 0 .. PoolSize /\ kept \in 0 .. PoolSize
  /\ nextFrame \in 1 .. MaxFrames + 1
  /\ delivered \in Seq(Frames)

(* The oldest descriptor the processor has not given back, and the place   *)
(* of a descriptor counted from it along the chain.                        *)
Oldest == IF pc \in {"copy", "release"} THEN hand ELSE get
Place(d) == IF d >= Oldest THEN d - Oldest ELSE d - Oldest + RxBufNb

(* How many descriptors the processor has: when the engine has come round  *)
(* to the oldest one, all or none of them.                                 *)
InUse ==
  IF dma # Oldest THEN Place(dma)
  ELSE IF desc[Oldest] = OWN THEN 0 ELSE RxBufNb

(* The descriptors of the processor are the ones from the oldest to the    *)
(* engine's, without a gap: neither side ever meets a descriptor of the    *)
(* other out of turn, so the engine cannot skip or overwrite a frame.      *)
RingInTurn ==
  \A d \in Slots : desc[d] # OWN <=> Place(d) < InUse

(* low_level_input writes through frame.descriptor without a test; it is   *)
(* NULL when ETH_RxPkt_ChainMode finds the OWN bit set.  The handler only  *)
(* gets there, and only gives back, with a descriptor of the processor.    *)
DescriptorValid ==
  /\ pc = "take" => desc[get] # OWN
  /\ pc \in {"copy", "release"} => desc[hand] # OWN

(* No pbuf of the pool is lost or freed twice between ethernetif_input and *)
(* the stack, whatever the order of interrupts and main-loop frees.        *)
PoolConserved ==
  pool + kept + (IF held = 0 THEN 0 ELSE 1) = PoolSize

(* The frames received and not yet handed up.                              *)
PendingFrames ==
  ({desc[d] : d \in Slots} \cup {held}) \ {OWN}

Channel == INSTANCE FrameChannel WITH pending <- PendingFrames

(* The receive path is a lossy channel that keeps the order of the wire.   *)
ImplementsChannel == Channel!Spec

(* A frame that is in the ring when an interrupt is taken is handed up or  *)
(* dropped, for the handler drains what it finds; but a descriptor with an *)
(* error stops it, so what is behind one stays.                            *)
InRing(f) == \E d \in Slots : desc[d] = f
IrqServesRing ==
  \A f \in Frames :
    (InRing(f) /\ (\A b \in BadFrames : b > f) /\ nis /\ pc = "idle")
       ~> ~InRing(f)

(* Every frame without error that reaches a descriptor leaves the ring.    *)
EveryFrameServed ==
  \A f \in Frames \ BadFrames : InRing(f) ~> ~InRing(f)

-----------------------------------------------------------------------------
(* The strengthening that makes the above inductive.                       *)

(* While a descriptor is in hand it is the oldest of the processor's, and  *)
(* the pbuf filled from it is carried until netif->input has it.           *)
HandInv ==
  /\ pc \in {"copy", "release"} => get = NextDesc(hand)
  /\ pc = "input" => held # 0
  /\ held # 0 => pc \in {"release", "input"}
  /\ (pc = "release" /\ held # 0) => held = desc[hand]

(* Along the ring, from the pbuf in hand on, the frames are in the order   *)
(* of the wire.                                                            *)
RingSorted ==
  /\ \A d \in Slots : desc[d] < nextFrame
  /\ \A c, d \in Slots :
       (desc[c] # OWN /\ desc[d] # OWN /\ Place(c) < Place(d))
          => desc[c] < desc[d]
  /\ held < nextFrame
  /\ pc = "input" => \A d \in Slots : desc[d] # OWN => held < desc[d]

IInv ==
  /\ TypeOK /\ PoolConserved
  /\ RingInTurn /\ DescriptorValid /\ HandInv /\ RingSorted
=============================================================================

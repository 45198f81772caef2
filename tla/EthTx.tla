------------------------------- MODULE EthTx -------------------------------
(***************************************************************************)
(* The transmit path of the Ethernet driver: low_level_output and          *)
(* ETH_TxPkt_ChainMode, the ring of DMA transmit descriptors, and the DMA  *)
(* engine that empties it.                                                 *)
(*                                                                         *)
(* The driver is called from the main loop (lwip_periodic_handle) and from *)
(* ETH_IRQHandler, which preempts it at any instruction and runs to its    *)
(* end; Contexts says which of the two make calls.  Each step is the part  *)
(* of the code between two accesses to what the other side also touches.   *)
(***************************************************************************)
EXTENDS Integers, Sequences

CONSTANTS
  TxBufNb,    (* ETH_TXBUFNB, the descriptors of the ring                  *)
  Parts,      (* the pbufs of a frame, copied one after another            *)
  MaxFrames,  (* bound: calls of low_level_output in a behaviour           *)
  Contexts    (* the contexts that call the driver: "main", "isr"          *)

TxBufNbAssumption == TxBufNb \in Nat /\ TxBufNb > 1
PartsAssumption == Parts \in Nat /\ Parts > 0
MaxFramesAssumption == MaxFrames \in Nat
ContextsAssumption == Contexts \subseteq {"main", "isr"}

VARIABLES
  desc,       (* the frame a descriptor was given to the engine with, FREE *)
              (* while its OWN bit is clear                                *)
  buf,        (* the contents of each buffer, the frame of every part      *)
  dma,        (* the descriptor the engine sends next                      *)
  fetched,    (* the parts the engine has read of it                       *)
  tbus,       (* DMASR.TBUS: the engine is suspended on a free descriptor  *)
  set,        (* DMATxDescToSet                                            *)
  pc,         (* where low_level_output is, in each context                *)
  frame,      (* the pbuf each context sends                               *)
  target,     (* buffer of low_level_output, in each context               *)
  part,       (* the pbuf of the chain to copy next, in each context       *)
  nextFrame,  (* the number of the next frame to send                      *)
  sent        (* what went out: the frame, and the contents read for it    *)

engine == <<dma, fetched, tbus>>
locals == <<frame, target, part>>
vars == <<desc, buf, dma, fetched, tbus, set, pc, frame, target, part,
          nextFrame, sent>>

FREE == 0
Slots == 0 .. TxBufNb - 1
Frames == 1 .. MaxFrames
Whole(f) == [i \in 1 .. Parts |-> f]

(* Buffer2NextDescAddr of the chained ring ETH_DMATxDescChainInit builds.  *)
NextDesc(d) == IF d = TxBufNb - 1 THEN 0 ELSE d + 1

Init ==
  /\ desc = [d \in Slots |-> FREE]
  /\ buf = [d \in Slots |-> Whole(0)]
  /\ dma = 0 /\ fetched = <<>> /\ tbus = FALSE
  /\ set = 0
  /\ pc = [c \in Contexts |-> "idle"]
  /\ frame = [c \in Contexts |-> 0]
  /\ target = [c \in Contexts |-> 0]
  /\ part = [c \in Contexts |-> 1]
  /\ nextFrame = 1
  /\ sent = <<>>

-----------------------------------------------------------------------------
(* The main loop stands still while the interrupt handler runs.            *)
Runs(c) == c = "main" /\ "isr" \in Contexts => pc["isr"] = "idle"

Goto(c, label) == pc' = [pc EXCEPT ![c] = label]

(* mutant: the buffer taken is the one of the next descriptor              *)
GetNextBuffer(c) ==
  /\ Runs(c) /\ pc[c] = "idle"
  /\ nextFrame \in Frames
  /\ frame' = [frame EXCEPT ![c] = nextFrame]
  /\ nextFrame' = nextFrame + 1
  /\ target' = [target EXCEPT ![c] = NextDesc(set)]
  /\ part' = [part EXCEPT ![c] = 1]
  /\ Goto(c, "copy")
  /\ UNCHANGED <<desc, buf, engine, set, sent>>

(* u8 *buffer = ETH_GetCurrentTxBuffer()                                   *)
GetBuffer(c) ==
  /\ Runs(c) /\ pc[c] = "idle"
  /\ nextFrame \in Frames
  /\ frame' = [frame EXCEPT ![c] = nextFrame]
  /\ nextFrame' = nextFrame + 1
  /\ target' = [target EXCEPT ![c] = set]
  /\ part' = [part EXCEPT ![c] = 1]
  /\ Goto(c, "copy")
  /\ UNCHANGED <<desc, buf, engine, set, sent>>

(* memcpy(&buffer[l], q->payload, q->len), for one pbuf of the chain; the  *)
(* OWN bit of the descriptor has not been looked at.                       *)
CopyPart(c) ==
  /\ Runs(c) /\ pc[c] = "copy"
  /\ buf' = [buf EXCEPT ![target[c]][part[c]] = frame[c]]
  /\ part' = [part EXCEPT ![c] = part[c] + 1]
  /\ IF part[c] = Parts THEN Goto(c, "own") ELSE UNCHANGED pc
  /\ UNCHANGED <<desc, engine, set, frame, target, nextFrame, sent>>

(* mutant: ETH_TxPkt_ChainMode does not test the OWN bit                   *)
NoOwnTest(c) ==
  /\ Runs(c) /\ pc[c] = "own"
  /\ Goto(c, "give")
  /\ UNCHANGED <<desc, buf, engine, set, locals, nextFrame, sent>>

(* ETH_TxPkt_ChainMode returns ETH_ERROR when the engine has the           *)
(* descriptor; low_level_output returns ERR_OK all the same.               *)
TestOwn(c) ==
  /\ Runs(c) /\ pc[c] = "own"
  /\ Goto(c, IF desc[set] # FREE THEN "idle" ELSE "give")
  /\ UNCHANGED <<desc, buf, engine, set, locals, nextFrame, sent>>

(* The size, FS, LS and OWN are written through DMATxDescToSet.            *)
GiveDesc(c) ==
  /\ Runs(c) /\ pc[c] = "give"
  /\ desc' = [desc EXCEPT ![set] = frame[c]]
  /\ Goto(c, "poll")
  /\ UNCHANGED <<buf, engine, set, locals, nextFrame, sent>>

(* mutant: the engine is not polled when TBUS is set                       *)
NoPollDemand(c) ==
  /\ Runs(c) /\ pc[c] = "poll"
  /\ Goto(c, "advance")
  /\ UNCHANGED <<desc, buf, engine, set, locals, nextFrame, sent>>

(* TBUS is cleared and the engine polled if it was suspended.              *)
PollDemand(c) ==
  /\ Runs(c) /\ pc[c] = "poll"
  /\ tbus' = FALSE
  /\ Goto(c, "advance")
  /\ UNCHANGED <<desc, buf, dma, fetched, set, locals, nextFrame, sent>>

(* mutant: DMATxDescToSet moves on by two descriptors                      *)
AdvanceTwice(c) ==
  /\ Runs(c) /\ pc[c] = "advance"
  /\ set' = NextDesc(NextDesc(set))
  /\ Goto(c, "idle")
  /\ UNCHANGED <<desc, buf, engine, locals, nextFrame, sent>>

(* DMATxDescToSet = DMATxDescToSet->Buffer2NextDescAddr                    *)
Advance(c) ==
  /\ Runs(c) /\ pc[c] = "advance"
  /\ set' = NextDesc(set)
  /\ Goto(c, "idle")
  /\ UNCHANGED <<desc, buf, engine, locals, nextFrame, sent>>

Call(c) ==
  \/ GetBuffer(c) \/ CopyPart(c) \/ TestOwn(c)
  \/ GiveDesc(c) \/ PollDemand(c) \/ Advance(c)

-----------------------------------------------------------------------------
(* The DMA engine reads the buffer of the current descriptor, clears its   *)
(* OWN bit and moves on; on a free descriptor it sets TBUS and suspends.   *)

Fetch ==
  /\ ~tbus /\ desc[dma] # FREE
  /\ Len(fetched) < Parts
  /\ fetched' = Append(fetched, buf[dma][Len(fetched) + 1])
  /\ UNCHANGED <<desc, buf, dma, tbus, set, pc, locals, nextFrame, sent>>

Close ==
  /\ Len(fetched) = Parts
  /\ sent' = Append(sent, [frame |-> desc[dma], data |-> fetched])
  /\ desc' = [desc EXCEPT ![dma] = FREE]
  /\ dma' = NextDesc(dma)
  /\ fetched' = <<>>
  /\ UNCHANGED <<buf, tbus, set, pc, locals, nextFrame>>

Suspend ==
  /\ ~tbus /\ desc[dma] = FREE
  /\ tbus' = TRUE
  /\ UNCHANGED <<desc, buf, dma, fetched, set, pc, locals, nextFrame, sent>>

Engine == Fetch \/ Close \/ Suspend

Next == Engine \/ \E c \in Contexts : Call(c)

Spec == Init /\ [][Next]_vars

(* The engine runs by itself, and a call that was begun runs to its end.   *)
(* Nothing obliges the stack to begin one.                                 *)
InCall(c) == CopyPart(c) \/ TestOwn(c) \/ GiveDesc(c) \/ PollDemand(c) \/ Advance(c)
FairSpec ==
  Spec /\ WF_vars(Engine) /\ \A c \in Contexts : WF_vars(InCall(c))

-----------------------------------------------------------------------------
(* Properties.                                                             *)

(* The slot the next frame is given with, and the distance to it.          *)
Given == \E c \in Contexts : pc[c] \in {"poll", "advance"}
Last == IF Given THEN NextDesc(set) ELSE set
Place(d) == IF d >= dma THEN d - dma ELSE d - dma + TxBufNb
InUse ==
  IF dma # Last THEN Place(Last)
  ELSE IF desc[dma] = FREE THEN 0 ELSE TxBufNb

(* The engine's descriptors are the ones from its own to the driver's,     *)
(* without a gap: the engine is never suspended in front of a frame, and   *)
(* DMATxDescToSet never points past a free descriptor.                     *)
TxInTurn ==
  \A d \in Slots : desc[d] # FREE <=> Place(d) < InUse

(* The frames of the ring, oldest first.                                   *)
Queued ==
  [i \in 1 .. InUse |->
     desc[IF dma + i - 1 < TxBufNb THEN dma + i - 1 ELSE dma + i - 1 - TxBufNb]]

Queue == INSTANCE TxQueue WITH
  Capacity <- TxBufNb, Offered <- Frames,
  queue <- Queued, wire <- [i \in DOMAIN sent |-> sent[i].frame]

(* The transmit path is a bounded queue: every frame the ring accepts goes *)
(* out once, in the order of the calls.                                    *)
ImplementsQueue == Queue!Spec

(* A buffer of the engine holds the frame it was given with, except the    *)
(* one low_level_output writes to when the ring is full.                   *)
OnlyFullRingOverwrites ==
  \A d \in Slots :
    desc[d] # FREE /\ buf[d] # Whole(desc[d])
      => d = Last /\ InUse = TxBufNb

(* Every frame given to the engine goes out.                               *)
GivenFrameSent ==
  \A f \in Frames :
    (\E d \in Slots : desc[d] = f) ~> (\A d \in Slots : desc[d] # f)
=============================================================================

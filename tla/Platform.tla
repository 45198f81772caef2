------------------------------ MODULE Platform ------------------------------
(***************************************************************************)
(* What the protocols stand on, side by side: the two rings of the         *)
(* Ethernet driver (EthRx, EthTx), the heap (MemHeap), the packet buffers  *)
(* (Pbuf), the timers of the main loop (MainLoop) and those of timers.c    *)
(* (SysTimeouts).  They have no state in common: other descriptors, other  *)
(* bits of DMASR, other memory, other clocks; each module has what the     *)
(* rest of the program does to it among its actions.  So a behaviour is of *)
(* one of them, chosen at the start, and the others stay as they were.     *)
(***************************************************************************)
EXTENDS EthRx

CONSTANTS
  TxBufNb, Parts, TxFrames, Contexts,
  MemSize, HdrSize, MinSize,
  PoolPbufs, BufSize, HeaderLen, MaxLen, MaxOwners,
  Timers, Period, Tick, LoopWrap, Lag,
  Recurring, OneShot, TcpTimer, Interval, Delays, NumTimeouts, NowWrap, MaxGap

VARIABLES
  running,    (* which of them this behaviour is of                        *)
  txDesc, buf, txDma, fetched, tbus, set, txPc, frame, target, part, txNext, sent,
  structs, next, prev, used, lfree, size,
  alloc, nextPbuf, len, tot, room, ref, owners,
  lwipTime, stamp, at, due, waited, age,
  list, now, last, checked, diff, checkPc, pcbs, active

txVars == <<txDesc, buf, txDma, fetched, tbus, set, txPc, frame, target, part, txNext, sent>>
heapVars == <<structs, next, prev, used, lfree, size>>
pbufVars == <<alloc, nextPbuf, len, tot, room, ref, owners>>
loopVars == <<lwipTime, stamp, at, due, waited, age>>
listVars == <<list, now, last, checked, diff, checkPc, pcbs, active>>
allVars == <<running, vars, txVars, heapVars, pbufVars, loopVars, listVars>>

Tx == INSTANCE EthTx WITH
        MaxFrames <- TxFrames,
        desc <- txDesc, dma <- txDma, pc <- txPc, nextFrame <- txNext
Mem == INSTANCE MemHeapProofs
Buffers == INSTANCE PbufProofs WITH PoolSize <- PoolPbufs, next <- nextPbuf
Loop == INSTANCE MainLoop WITH Wrap <- LoopWrap
Sys == INSTANCE SysTimeouts WITH Wrap <- NowWrap, pc <- checkPc

ASSUME PlatformAssumption ==
  /\ Tx!TxBufNbAssumption /\ Tx!PartsAssumption
  /\ Tx!MaxFramesAssumption /\ Tx!ContextsAssumption
  /\ Mem!SizesAssumption
  /\ Buffers!SizesAssumption
  /\ Loop!TimersAssumption /\ Loop!ClockAssumption /\ Loop!PeriodAssumption
  /\ Sys!HandlersAssumption /\ Sys!DelaysAssumption
  /\ Sys!NumTimeoutsAssumption

PlatformInit ==
  /\ running \in {"rx", "tx", "heap", "pbufs", "loop", "timeouts"}
  /\ Init /\ Tx!Init /\ Mem!Init /\ Buffers!Init /\ Loop!Init /\ Sys!Init

PlatformNext ==
  /\ UNCHANGED running
  /\ \/ /\ running = "rx" /\ Next
        /\ UNCHANGED <<txVars, heapVars, pbufVars, loopVars, listVars>>
     \/ /\ running = "tx" /\ Tx!Next
        /\ UNCHANGED <<vars, heapVars, pbufVars, loopVars, listVars>>
     \/ /\ running = "heap" /\ Mem!Next
        /\ UNCHANGED <<vars, txVars, pbufVars, loopVars, listVars>>
     \/ /\ running = "pbufs" /\ Buffers!Next
        /\ UNCHANGED <<vars, txVars, heapVars, loopVars, listVars>>
     \/ /\ running = "loop" /\ Loop!Next
        /\ UNCHANGED <<vars, txVars, heapVars, pbufVars, listVars>>
     \/ /\ running = "timeouts" /\ Sys!Next
        /\ UNCHANGED <<vars, txVars, heapVars, pbufVars, loopVars>>

(* The fairness of each half of the driver, as in its own module; what     *)
(* checks the others has no need of any.                                   *)
PlatformSpec ==
  /\ PlatformInit /\ [][PlatformNext]_allVars
  /\ WF_vars(running = "rx" /\ Handler)
  /\ WF_txVars(running = "tx" /\ Tx!Engine)
  /\ \A c \in Contexts : WF_txVars(running = "tx" /\ Tx!InCall(c))

-----------------------------------------------------------------------------
(* The properties of EthRx are visible here; those of the others follow.   *)

(* ETH_TxPkt_ChainMode gives the descriptors in turn: the engine is never  *)
(* suspended in front of a frame.                                          *)
TxInTurn == Tx!TxInTurn

(* low_level_output overwrites a buffer of the engine only when the ring   *)
(* is full.                                                                *)
OnlyFullRingOverwrites == Tx!OnlyFullRingOverwrites

(* The transmit path is a bounded queue.                                   *)
ImplementsQueue == Tx!ImplementsQueue

(* Every frame given to the transmit engine goes out.                      *)
GivenFrameSent == Tx!GivenFrameSent

(* The structs of the heap tile it, whatever mem_malloc, mem_free and      *)
(* mem_trim did.                                                           *)
HeapSound == Mem!HeapSound

(* mem_malloc fails only when no free struct is large enough.              *)
FailsOnlyWhenFull == Mem!FailsOnlyWhenFull

(* The blocks of the heap never overlap.                                   *)
ImplementsAllocator == Mem!ImplementsAllocator

(* The reference counts of pbuf.c are exact and its chains are of pbufs in *)
(* use.                                                                    *)
RefsSound == Buffers!RefsSound

(* tot_len is exact in every pbuf and the payload inside its buffer.       *)
LengthsSound == Buffers!LengthsSound

(* lwip_periodic_handle calls no timer before its period is over.          *)
NotEarly == Loop!NotEarly

(* lwip_periodic_handle misses no timer when LWipTime wraps around.        *)
NotLate == Loop!NotLate

(* The handlers of timers.c are in the list exactly as the flags say.      *)
ArmedOnce == Sys!ArmedOnce

(* The list of differences of timers.c is a set of times left.             *)
ImplementsTimerSet == Sys!ImplementsTimerSet
=============================================================================

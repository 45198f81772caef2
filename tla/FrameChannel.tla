---------------------------- MODULE FrameChannel ----------------------------
(***************************************************************************)
(* What the receive path promises to the stack above it: a lossy channel   *)
(* that keeps the order of the wire and duplicates nothing.  Frames are    *)
(* numbered in the order the MAC recognises them.  A frame may be lost     *)
(* (no receive descriptor, no memory), never reordered or handed up twice. *)
(***************************************************************************)
EXTENDS Integers, Sequences

VARIABLES
  nextFrame,  (* the number the next frame on the wire will get            *)
  pending,    (* the frames received and not yet handed up                 *)
  delivered   (* the frames handed to netif->input, in that order          *)

chanVars == <<nextFrame, pending, delivered>>

Init ==
  /\ nextFrame = 1
  /\ pending = {}
  /\ delivered = <<>>

(* A frame is received, or lost before it reaches memory.                  *)
Arrive ==
  /\ nextFrame' = nextFrame + 1
  /\ pending' \in {pending, pending \cup {nextFrame}}
  /\ UNCHANGED delivered

IsOldest(f) == f \in pending /\ \A g \in pending : f <= g

Deliver(f) ==
  /\ IsOldest(f)
  /\ pending' = pending \ {f}
  /\ delivered' = Append(delivered, f)
  /\ UNCHANGED nextFrame

Drop(f) ==
  /\ IsOldest(f)
  /\ pending' = pending \ {f}
  /\ UNCHANGED <<nextFrame, delivered>>

Next ==
  \/ Arrive
  \/ \E f \in pending : Deliver(f) \/ Drop(f)

Spec == Init /\ [][Next]_chanVars

(* Frames are handed to the stack in the order of the wire, each at most   *)
(* once (low_level_input takes descriptors in ring order).                 *)
InOrder ==
  \A i, j \in DOMAIN delivered : i < j => delivered[i] < delivered[j]
=============================================================================

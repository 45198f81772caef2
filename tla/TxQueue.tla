------------------------------ MODULE TxQueue ------------------------------
(***************************************************************************)
(* What the transmit path promises to netif->linkoutput: a queue of at     *)
(* most Capacity frames that are sent in the order they were accepted.  A  *)
(* frame is refused when the queue is full, or while a call is under way   *)
(* that found it full.                                                     *)
(***************************************************************************)
EXTENDS Integers, Sequences

CONSTANTS Capacity, Offered

VARIABLES
  queue,    (* the frames accepted and not yet sent, oldest first          *)
  wire      (* the frames sent                                             *)

queueVars == <<queue, wire>>

Init ==
  /\ queue = <<>>
  /\ wire = <<>>

Accept(f) ==
  /\ Len(queue) < Capacity
  /\ queue' = Append(queue, f)
  /\ UNCHANGED wire

Send ==
  /\ queue # <<>>
  /\ wire' = Append(wire, Head(queue))
  /\ queue' = Tail(queue)

Next ==
  \/ \E f \in Offered : Accept(f)
  \/ Send

Spec == Init /\ [][Next]_queueVars
=============================================================================

----------------------------- MODULE Allocator -----------------------------
(***************************************************************************)
(* What a heap promises its users: blocks of an arena that never overlap.  *)
(* A block is the set of the cells a user may write to.                    *)
(***************************************************************************)
EXTENDS Integers

CONSTANTS
  Arena,        (* the cells of the heap                                   *)
  Sizes         (* the sizes a user may ask for                            *)

VARIABLE blocks (* the blocks the users have, each known by its first cell *)

Init == blocks = {}

Extent(p, n) == [start |-> p, size |-> n]
Cells(b) == b.start .. b.start + b.size - 1

Disjoint(b, c) == Cells(b) \cap Cells(c) = {}

(* A block is given that touches no block in use.                          *)
Give(b) ==
  /\ Cells(b) \subseteq Arena
  /\ \A c \in blocks : Disjoint(b, c)
  /\ blocks' = blocks \cup {b}

Return(b) ==
  /\ b \in blocks
  /\ blocks' = blocks \ {b}

(* A block is cut at its end and stays where it is.                        *)
Cut(b, n) ==
  /\ b \in blocks /\ n < b.size
  /\ blocks' = (blocks \ {b}) \cup {Extent(b.start, n)}

Next ==
  \/ \E b \in [start : Arena, size : Sizes] : Give(b)
  \/ \E b \in blocks : Return(b) \/ \E n \in 1 .. b.size : Cut(b, n)

Spec == Init /\ [][Next]_blocks
=============================================================================

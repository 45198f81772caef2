------------------------------ MODULE MemHeap ------------------------------
(***************************************************************************)
(* The heap of mem.c: mem_malloc, mem_free and mem_trim on a doubly linked *)
(* list of struct mem laid out in one array, with lfree, the pointer to    *)
(* the lowest free struct.                                                 *)
(*                                                                         *)
(* Offsets and sizes are counted in units of MEM_ALIGNMENT.  The functions *)
(* next, prev and used are the fields of the structs of the list and have  *)
(* their offsets as domain: what the rest of the array holds is never      *)
(* read.  The mutex of the source is empty in this build (NO_SYS 1): an    *)
(* operation is atomic here because its callers are in one context, see    *)
(* README.                                                                 *)
(***************************************************************************)
EXTENDS Integers

CONSTANTS
  MemSize,    (* MEM_SIZE_ALIGNED                                          *)
  HdrSize,    (* SIZEOF_STRUCT_MEM                                         *)
  MinSize     (* MIN_SIZE_ALIGNED                                          *)

SizesAssumption ==
  /\ MemSize \in Nat /\ HdrSize \in Nat /\ MinSize \in Nat
  /\ HdrSize > 0 /\ MinSize > 0 /\ MemSize >= HdrSize + MinSize

VARIABLES
  structs,    (* the offsets of the structs of the list, with ram_end      *)
  next, prev, used,
  lfree,      (* lowest free struct, ram_end when there is none            *)
  size        (* what the user asked for, for each struct in use           *)

vars == <<structs, next, prev, used, lfree, size>>

End == MemSize
Offsets == 0 .. MemSize

Init ==
  /\ structs = {0, End}
  /\ next = [p \in structs |-> End]
  /\ prev = [p \in structs |-> p]
  /\ used = [p \in structs |-> p = End]
  /\ lfree = 0
  /\ size = [p \in structs |-> 0]

(* A field of the list when the structs of it have changed: v at p, w at q.*)
Put2(f, p, v, q, w) ==
  [r \in structs' |-> IF r = p THEN v ELSE IF r = q THEN w ELSE f[r]]
Put(f, p, v) == [r \in structs' |-> IF r = p THEN v ELSE f[r]]

-----------------------------------------------------------------------------
AtLeastMin(n) == IF n < MinSize THEN MinSize ELSE n

(* The user data a struct has room for.                                    *)
Room(p) == next[p] - (p + HdrSize)

IsLowest(p, S) == p \in S /\ \A q \in S : p <= q

(* mutant: the size of the struct is not compared with the request         *)
FittingAny(n) ==
  {p \in structs : lfree <= p /\ p < End - n /\ ~used[p]}

(* The structs mem_malloc stops at: it scans from lfree up, and does not   *)
(* look at the last n units of the heap.                                   *)
Fitting(n) ==
  {p \in structs : lfree <= p /\ p < End - n /\ ~used[p] /\ Room(p) >= n}

(* The rest of the struct must hold a header and MIN_SIZE units.           *)
Splits(p, n) == Room(p) >= n + HdrSize + MinSize

(* What is left of the struct becomes one of its own; prev of ram_end is   *)
(* not kept up.                                                            *)
InsertAfter(p, new) ==
  /\ structs' = structs \cup {new}
  /\ next' = Put2(next, p, new, new, next[p])
  /\ prev' = IF next[p] # End THEN Put2(prev, new, p, next[p], new)
                              ELSE Put(prev, new, p)

(* The first fit is taken, split when it is large enough.                  *)
Take(p, n, request) ==
  LET rest == p + HdrSize + n
  IN \/ /\ Splits(p, n)
        /\ InsertAfter(p, rest)
        /\ used' = Put2(used, p, TRUE, rest, FALSE)
        /\ size' = Put2(size, p, request, rest, 0)
     \/ /\ ~Splits(p, n)
        /\ used' = [used EXCEPT ![p] = TRUE]
        /\ size' = [size EXCEPT ![p] = request]
        /\ UNCHANGED <<structs, next, prev>>

(* When the struct lfree pointed to is taken, lfree moves up to the next   *)
(* one that is free, or to ram_end.                                        *)
FreeOrEnd == {q \in structs' : ~used'[q] \/ q = End}

Malloc(request) ==
  LET n == AtLeastMin(request)
  IN /\ request > 0 /\ n <= MemSize
     /\ \E p \in Fitting(n) :
          /\ IsLowest(p, Fitting(n))
          /\ Take(p, n, request)
          /\ IF p = lfree
             THEN lfree' \in FreeOrEnd
                  /\ \A q \in FreeOrEnd : q >= p => lfree' \in p .. q
             ELSE UNCHANGED lfree

-----------------------------------------------------------------------------
JoinsNext(p) == ~used[next[p]] /\ next[p] # End

JoinsPrev(p) == prev[p] # p /\ ~used[prev[p]]

(* mutant: mem_free does not lower lfree                                   *)
LowestNotLowered(p) == lfree

LowestWith(p) == IF p < lfree THEN p ELSE lfree

(* mem_free and plug_holes: the struct is joined with the next one, then   *)
(* with the one before, when they are free.                                *)
Free(p) ==
  LET after == IF JoinsNext(p) THEN next[next[p]] ELSE next[p]
      first == IF JoinsPrev(p) THEN prev[p] ELSE p
      low == IF JoinsNext(p) /\ LowestWith(p) = next[p] THEN p ELSE LowestWith(p)
  IN /\ used[p] /\ p # End
     /\ structs' = structs \ {q \in structs : first < q /\ q < after}
     /\ used' = Put(used, p, FALSE)
     /\ next' = Put(next, first, after)
     /\ prev' = IF JoinsNext(p) \/ JoinsPrev(p)
                THEN Put(prev, after, first) ELSE prev
     /\ lfree' = IF JoinsPrev(p) /\ low = p THEN prev[p] ELSE low
     /\ size' = Put(size, p, 0)

-----------------------------------------------------------------------------
(* mutant: the struct after the one that moves keeps its prev              *)
MoveNextNoRelink(p, new) ==
  LET old == next[p]
  IN /\ structs' = (structs \ {old}) \cup {new}
     /\ next' = Put2(next, p, new, new, next[old])
     /\ prev' = Put(prev, new, p)

(* The free struct after p moves down to where p now ends.                 *)
MoveNext(p, new) ==
  LET old == next[p]
  IN /\ structs' = (structs \ {old}) \cup {new}
     /\ next' = Put2(next, p, new, new, next[old])
     /\ prev' = IF next[old] # End THEN Put2(prev, new, p, next[old], new)
                                   ELSE Put(prev, new, p)

LowestAfterMove(p, new) == IF lfree = next[p] THEN new ELSE lfree

(* mem_trim, when it shrinks the user data of p.                           *)
Trim(p, request) ==
  LET n == AtLeastMin(request)
      new == p + HdrSize + n
  IN /\ used[p] /\ p # End /\ n < Room(p)
     /\ \/ /\ ~used[next[p]]
           /\ MoveNext(p, new)
           /\ used' = Put(used, new, FALSE)
           /\ size' = Put2(size, p, request, new, 0)
           /\ lfree' = LowestAfterMove(p, new)
        \/ /\ used[next[p]] /\ Splits(p, n)
           /\ InsertAfter(p, new)
           /\ used' = Put(used, new, FALSE)
           /\ size' = Put2(size, p, request, new, 0)
           /\ lfree' = IF new < lfree THEN new ELSE lfree
        \/ /\ used[next[p]] /\ ~Splits(p, n)
           /\ size' = [size EXCEPT ![p] = request]
           /\ UNCHANGED <<structs, next, prev, used, lfree>>

(* pbuf_realloc, the only caller of mem_trim, never asks for more.         *)
Next ==
  \/ \E request \in 1 .. MemSize : Malloc(request)
  \/ \E p \in structs : Free(p) \/ \E request \in 1 .. size[p] : Trim(p, request)

Spec == Init /\ [][Next]_vars

-----------------------------------------------------------------------------
(* Properties.                                                             *)

TypeOK ==
  /\ structs \subseteq Offsets
  /\ next \in [structs -> Offsets] /\ prev \in [structs -> Offsets]
  /\ used \in [structs -> BOOLEAN]
  /\ lfree \in structs
  /\ size \in [structs -> 0 .. MemSize]

(* The structs tile the array: next is the following struct, prev the      *)
(* preceding one, and only structs in use and ram_end are marked used.     *)
ListSound ==
  /\ {0, End} \subseteq structs /\ used[End]
  /\ \A p \in structs \ {End} :
       /\ next[p] \in structs /\ p < next[p]
       /\ \A q \in structs : ~(p < q /\ q < next[p])
       /\ next[p] # End => prev[next[p]] = p
  /\ prev[0] = 0

(* Every data block is at least MIN_SIZE_ALIGNED long, whatever sequence   *)
(* of splits, trims and joins made it.                                     *)
BlocksAtLeastMin == \A p \in structs \ {End} : Room(p) >= MinSize

(* plug_holes leaves no empty struct mem pointing to another empty one.    *)
NoTwoFree ==
  \A p \in structs \ {End} : ~used[p] => used[next[p]]

(* The list is in order after any sequence of calls, each of which relinks *)
(* up to three structs by hand.                                            *)
HeapSound == TypeOK /\ ListSound /\ BlocksAtLeastMin /\ NoTwoFree

(* mem_malloc returns NULL only when no free struct is large enough: its   *)
(* scan from lfree, cut short at the end, misses none.                     *)
FailsOnlyWhenFull ==
  \A n \in MinSize .. MemSize :
    Fitting(n) = {} => \A p \in structs \ {End} : ~used[p] => Room(p) < n

(* What the users have: the data of the structs in use.                    *)
Blocks ==
  {[start |-> p + HdrSize, size |-> size[p]] :
     p \in {q \in structs \ {End} : used[q]}}

Heap == INSTANCE Allocator WITH
  Arena <- HdrSize .. MemSize - 1, Sizes <- 1 .. MemSize, blocks <- Blocks

(* The heap gives out blocks that never overlap.                           *)
ImplementsAllocator == Heap!Spec
=============================================================================

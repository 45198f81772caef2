---------------------------- MODULE MemHeapProofs ----------------------------
(***************************************************************************)
(* Proofs about the heap, for a heap, a struct mem and a MIN_SIZE of any   *)
(* sizes and any requests.                                                 *)
(***************************************************************************)
EXTENDS MemHeap, TLAPS

(* The list of structs, in the parts that a step may disturb one by one.   *)
Ends == {0, End} \subseteq structs /\ structs \subseteq Offsets

Tiles ==
  \A p \in structs \ {End} :
    /\ next[p] \in structs /\ p < next[p]
    /\ \A q \in structs : ~(p < q /\ q < next[p])

(* prev leads back, and each struct but the first has one before it.       *)
Linked ==
  /\ prev[0] = 0
  /\ \A p \in structs \ {End} : next[p] # End => prev[next[p]] = p
  /\ \A p \in structs \ {0, End} : prev[p] \in structs \ {End} /\ next[prev[p]] = p

ListInv ==
  /\ next \in [structs -> Offsets] /\ prev \in [structs -> Offsets]
  /\ Ends /\ Tiles /\ Linked /\ BlocksAtLeastMin

(* lfree is not above a free struct: the scan of mem_malloc misses none.   *)
LowInv == \A p \in structs : ~used[p] => lfree <= p

(* A struct has room for what the user asked for.                          *)
SizeInv == \A p \in structs \ {End} : size[p] <= Room(p) /\ (used[p] => size[p] >= 1)

UsedInv ==
  /\ used \in [structs -> BOOLEAN] /\ size \in [structs -> 0 .. MemSize]
  /\ lfree \in structs /\ used[End]
  /\ NoTwoFree /\ LowInv /\ SizeInv

IInv == ListInv /\ UsedInv

LEMMA EndIs ==
  ASSUME SizesAssumption
  PROVE  /\ End \in Nat /\ End > 0 /\ 0 \in Offsets /\ End \in Offsets
         /\ MemSize \in Nat /\ HdrSize \in Nat /\ MinSize \in Nat
         /\ HdrSize > 0 /\ MinSize > 0 /\ End = MemSize
         /\ \A p : p \in Offsets <=> p \in Nat /\ p <= End
BY DEF SizesAssumption, End, Offsets

(* Two structs do not overlap: the lower one ends before the other begins. *)
LEMMA Apart ==
  ASSUME SizesAssumption, ListInv, NEW p \in structs, NEW q \in structs, p < q
  PROVE  p # End /\ next[p] <= q
<1>1. p \in Int /\ q \in Int /\ q <= End
  BY EndIs DEF ListInv, Ends
<1>2. p \in structs \ {End}
  BY <1>1
<1>3. next[p] \in Int
  BY <1>2, EndIs DEF ListInv, Ends
<1>. QED
  BY <1>1, <1>2, <1>3 DEF ListInv, Tiles

-----------------------------------------------------------------------------
(* The three ways in which the list is relinked.                           *)

LEMMA Inserted ==
  ASSUME SizesAssumption, ListInv, NEW p \in structs \ {End}, NEW new \in Nat,
         p + HdrSize + MinSize <= new, new + HdrSize + MinSize <= next[p],
         InsertAfter(p, new)
  PROVE  /\ ListInv'
         /\ new \notin structs /\ structs' = structs \cup {new}
         /\ next'[p] = new /\ next'[new] = next[p]
         /\ \A r \in structs \ {p} : next'[r] = next[r]
<1>. USE EndIs
<1>0. /\ next \in [structs -> Offsets] /\ prev \in [structs -> Offsets]
      /\ \A r \in structs : r \in Nat /\ r <= End /\ next[r] \in Nat /\ prev[r] \in Offsets
      /\ 0 \in structs /\ End \in structs
      /\ \A r \in structs \ {End} : next[r] \in structs /\ r < next[r]
  BY DEF ListInv, Ends, Tiles
<1>1. /\ p \in Nat /\ p < new /\ new < next[p] /\ next[p] \in structs /\ new \in Offsets
      /\ new # 0 /\ new # End /\ new \notin structs
  BY <1>0 DEF ListInv, Tiles
<1>2. /\ structs' = structs \cup {new}
      /\ next'[p] = new /\ next'[new] = next[p]
      /\ \A r \in structs \ {p} : next'[r] = next[r]
      /\ next' \in [structs' -> Offsets]
  BY <1>0, <1>1 DEF InsertAfter, Put2
<1>3. /\ prev'[new] = p
      /\ next[p] # End => prev'[next[p]] = new
      /\ \A r \in structs : (r # next[p] \/ next[p] = End) => prev'[r] = prev[r]
      /\ prev' \in [structs' -> Offsets]
  <2>1. CASE next[p] # End
    BY <1>0, <1>1, <2>1 DEF InsertAfter, Put2
  <2>2. CASE next[p] = End
    BY <1>0, <1>1, <2>2 DEF InsertAfter, Put
  <2>. QED
    BY <2>1, <2>2
<1>4. Ends'
  BY <1>1, <1>2 DEF ListInv, Ends, End, Offsets
<1>5. \A r \in structs \ {p} : r < p \/ next[p] <= r
  BY <1>0, <1>1 DEF ListInv, Tiles
<1>6. \A r \in structs \ {p, End} : r < p => next[r] <= p
  BY <1>0, <1>1 DEF ListInv, Tiles
<1>7. Tiles'
  <2>. SUFFICES ASSUME NEW r \in structs' \ {End}
                PROVE  /\ next'[r] \in structs' /\ r < next'[r]
                       /\ \A q \in structs' : ~(r < q /\ q < next'[r])
    BY DEF Tiles, End
  <2>1. CASE r = p
    BY <1>0, <1>1, <1>2, <1>5, <2>1
  <2>2. CASE r = new
    BY <1>0, <1>1, <1>2, <1>5, <2>2
  <2>3. CASE r \in structs \ {p, End}
    <3>1. next'[r] = next[r] /\ next[r] \in structs /\ r < next[r]
      BY <1>0, <1>2, <2>3
    <3>2. \A q \in structs : ~(r < q /\ q < next[r])
      BY <2>3 DEF ListInv, Tiles
    <3>3. ~(r < new /\ new < next[r])
      BY <1>0, <1>1, <1>5, <1>6, <2>3
    <3>. QED
      BY <1>2, <3>1, <3>2, <3>3
  <2>. QED
    BY <1>2, <2>1, <2>2, <2>3
<1>8. Linked'
  <2>0. /\ prev[0] = 0
        /\ \A r \in structs \ {End} : next[r] # End => prev[next[r]] = r
        /\ \A r \in structs \ {0, End} : prev[r] \in structs \ {End} /\ next[prev[r]] = r
    BY DEF ListInv, Linked
  <2>1. prev'[0] = 0
    BY <1>0, <1>1, <1>3, <2>0
  <2>2. ASSUME NEW r \in structs' \ {End}, next'[r] # End PROVE prev'[next'[r]] = r
    <3>1. CASE r = p \/ r = new
      BY <1>1, <1>2, <1>3, <2>2, <3>1
    <3>2. CASE r \in structs \ {p, End}
      <4>1. next'[r] = next[r] /\ next[r] \in structs /\ prev[next[r]] = r
        BY <1>0, <1>2, <2>0, <2>2, <3>2
      <4>2. next[r] # next[p]
        BY <2>0, <2>2, <3>2, <4>1
      <4>. QED
        BY <1>3, <4>1, <4>2
    <3>. QED
      BY <1>2, <3>1, <3>2
  <2>3. ASSUME NEW r \in structs' \ {0, End}
        PROVE  prev'[r] \in structs' \ {End} /\ next'[prev'[r]] = r
    <3>1. CASE r = new \/ r = next[p]
      BY <1>1, <1>2, <1>3, <2>3, <3>1
    <3>2. CASE r \in structs \ {0, End, next[p]}
      BY <1>2, <1>3, <2>0, <3>2
    <3>. QED
      BY <1>2, <3>1, <3>2
  <2>. QED
    BY <2>1, <2>2, <2>3 DEF Linked, End
<1>9. BlocksAtLeastMin'
  <2>. SUFFICES ASSUME NEW r \in structs' \ {End}
                PROVE  next'[r] - (r + HdrSize) >= MinSize
    BY DEF BlocksAtLeastMin, Room, End
  <2>1. CASE r = p \/ r = new
    BY <1>0, <1>1, <1>2, <2>1
  <2>2. CASE r \in structs \ {p, End}
    BY <1>2, <2>2 DEF ListInv, BlocksAtLeastMin, Room
  <2>. QED
    BY <1>2, <2>1, <2>2
<1>. QED
  BY <1>1, <1>2, <1>3, <1>4, <1>7, <1>8, <1>9 DEF ListInv, Offsets

(* The free struct after p moves down.                                     *)
LEMMA Moved ==
  ASSUME SizesAssumption, ListInv, NEW p \in structs \ {End}, NEW new \in Nat,
         next[p] # End, p + HdrSize + MinSize <= new, new < next[p],
         MoveNext(p, new)
  PROVE  /\ ListInv'
         /\ new \notin structs /\ structs' = (structs \ {next[p]}) \cup {new}
         /\ next'[p] = new /\ next'[new] = next[next[p]]
         /\ \A r \in structs \ {p, next[p]} : next'[r] = next[r]
<1>. DEFINE old == next[p]
<1>. USE EndIs
<1>0. /\ next \in [structs -> Offsets] /\ prev \in [structs -> Offsets]
      /\ \A r \in structs : r \in Nat /\ r <= End /\ next[r] \in Nat /\ prev[r] \in Offsets
      /\ 0 \in structs /\ End \in structs
      /\ \A r \in structs \ {End} : next[r] \in structs /\ r < next[r]
  BY DEF ListInv, Ends, Tiles
<1>1. /\ p \in Nat /\ p < new /\ new < old /\ old \in structs \ {End} /\ new \in Offsets
      /\ new # 0 /\ new # End /\ new \notin structs
      /\ next[old] \in structs /\ old < next[old]
  BY <1>0 DEF ListInv, Tiles
<1>2. /\ structs' = (structs \ {old}) \cup {new}
      /\ next'[p] = new /\ next'[new] = next[old]
      /\ \A r \in structs \ {p, old} : next'[r] = next[r]
      /\ next' \in [structs' -> Offsets]
  <2>1. /\ structs' = (structs \ {old}) \cup {new}
        /\ next' = [r \in structs' |-> IF r = p THEN new
                                       ELSE IF r = new THEN next[old] ELSE next[r]]
    BY DEF MoveNext, Put2
  <2>. HIDE DEF old
  <2>2. p \in structs' /\ new \in structs' /\ p # new
    BY <1>1, <2>1
  <2>3. \A r \in structs \ {p, old} : r \in structs' /\ r # new
    BY <1>1, <2>1
  <2>4. next' \in [structs' -> Offsets]
    <3>1. \A r \in structs \cup {new} :
            (IF r = p THEN new ELSE IF r = new THEN next[old] ELSE next[r]) \in Offsets
      BY <1>0, <1>1
    <3>. QED
      BY <2>1, <3>1
  <2>. QED
    BY <2>1, <2>2, <2>3, <2>4
<1>3. /\ prev'[new] = p
      /\ next[old] # End => prev'[next[old]] = new
      /\ \A r \in structs \ {old} : (r # next[old] \/ next[old] = End) => prev'[r] = prev[r]
      /\ prev' \in [structs' -> Offsets]
  <2>1. CASE next[old] # End
    <3>1. prev' = [r \in structs' |-> IF r = new THEN p
                                      ELSE IF r = next[old] THEN new ELSE prev[r]]
      BY <2>1 DEF MoveNext, Put2
    <3>. HIDE DEF old
    <3>2. prev' \in [structs' -> Offsets]
      <4>1. \A r \in structs \cup {new} :
              (IF r = new THEN p ELSE IF r = next[old] THEN new ELSE prev[r]) \in Offsets
        BY <1>0, <1>1
      <4>. QED
        BY <1>2, <3>1, <4>1
    <3>3. new \in structs' /\ next[old] \in structs' /\ next[old] # new
      BY <1>1, <1>2
    <3>4. \A r \in structs \ {old} : r \in structs' /\ r # new
      BY <1>1, <1>2
    <3>. QED
      BY <2>1, <3>1, <3>2, <3>3, <3>4
  <2>2. CASE next[old] = End
    BY <1>0, <1>1, <2>2 DEF MoveNext, Put
  <2>. QED
    BY <2>1, <2>2
<1>. HIDE DEF old
<1>4. Ends'
  BY <1>1, <1>2 DEF ListInv, Ends, End, Offsets
<1>5. \A r \in structs \ {p, old} : r < p \/ next[old] <= r
  BY <1>0, <1>1 DEF ListInv, Tiles, old
<1>6. \A r \in structs \ {p, End} : r < p => next[r] <= p
  BY <1>0, <1>1 DEF ListInv, Tiles
<1>7. Tiles'
  <2>. SUFFICES ASSUME NEW r \in structs' \ {End}
                PROVE  /\ next'[r] \in structs' /\ r < next'[r]
                       /\ \A q \in structs' : ~(r < q /\ q < next'[r])
    BY DEF Tiles, End
  <2>1. CASE r = p
    BY <1>0, <1>1, <1>2, <1>5, <2>1
  <2>2. CASE r = new
    BY <1>0, <1>1, <1>2, <1>5, <2>2
  <2>3. CASE r \in structs \ {p, old, End}
    <3>1. next'[r] = next[r] /\ next[r] \in structs /\ r < next[r]
      BY <1>0, <1>2, <2>3
    <3>2. \A q \in structs : ~(r < q /\ q < next[r])
      BY <2>3 DEF ListInv, Tiles
    <3>3. ~(r < new /\ new < next[r]) /\ next[r] # old
      BY <1>0, <1>1, <1>5, <1>6, <2>3
    <3>. QED
      BY <1>2, <3>1, <3>2, <3>3
  <2>. QED
    BY <1>2, <2>1, <2>2, <2>3
<1>8. Linked'
  <2>0. /\ prev[0] = 0
        /\ \A r \in structs \ {End} : next[r] # End => prev[next[r]] = r
        /\ \A r \in structs \ {0, End} : prev[r] \in structs \ {End} /\ next[prev[r]] = r
    BY DEF ListInv, Linked
  <2>1. prev'[0] = 0
    BY <1>0, <1>1, <1>3, <2>0
  <2>2. ASSUME NEW r \in structs' \ {End}, next'[r] # End PROVE prev'[next'[r]] = r
    <3>1. CASE r = p \/ r = new
      BY <1>1, <1>2, <1>3, <2>2, <3>1
    <3>2. CASE r \in structs \ {p, old, End}
      <4>1. next'[r] = next[r] /\ next[r] \in structs /\ prev[next[r]] = r
        BY <1>0, <1>2, <2>0, <2>2, <3>2
      <4>2. next[r] # next[old]
        BY <1>1, <2>0, <2>2, <3>2, <4>1
      <4>3. next[r] # old
        BY <1>1, <2>0, <3>2 DEF old
      <4>. QED
        BY <1>3, <4>1, <4>2, <4>3
    <3>. QED
      BY <1>2, <3>1, <3>2
  <2>3. ASSUME NEW r \in structs' \ {0, End}
        PROVE  prev'[r] \in structs' \ {End} /\ next'[prev'[r]] = r
    <3>1. CASE r = new \/ r = next[old]
      BY <1>1, <1>2, <1>3, <2>3, <3>1
    <3>2. CASE r \in structs \ {0, End, old, next[old]}
      <4>1. prev'[r] = prev[r] /\ prev[r] \in structs \ {End} /\ next[prev[r]] = r
        BY <1>2, <1>3, <2>0, <3>2
      <4>2. prev[r] # p /\ prev[r] # old
        BY <3>2, <4>1 DEF old
      <4>. QED
        BY <1>2, <4>1, <4>2
    <3>. QED
      BY <1>2, <3>1, <3>2
  <2>. QED
    BY <2>1, <2>2, <2>3 DEF Linked, End
<1>9. BlocksAtLeastMin'
  <2>. SUFFICES ASSUME NEW r \in structs' \ {End}
                PROVE  next'[r] - (r + HdrSize) >= MinSize
    BY DEF BlocksAtLeastMin, Room, End
  <2>0. \A q \in structs \ {End} : next[q] - (q + HdrSize) >= MinSize
    BY DEF ListInv, BlocksAtLeastMin, Room
  <2>1. CASE r = p \/ r = new
    BY <1>0, <1>1, <1>2, <2>0, <2>1
  <2>2. CASE r \in structs \ {p, old, End}
    BY <1>2, <2>0, <2>2
  <2>. QED
    BY <1>2, <2>1, <2>2
<1>. QED
  BY <1>1, <1>2, <1>3, <1>4, <1>7, <1>8, <1>9 DEF ListInv, Offsets, old

(* The structs between two others are taken out.                           *)
LEMMA Joined ==
  ASSUME SizesAssumption, ListInv, NEW first \in structs \ {End}, NEW after \in structs,
         first < after,
         structs' = structs \ {q \in structs : first < q /\ q < after},
         next' = Put(next, first, after),
         prev' \in [structs' -> Offsets],
         \A r \in structs' \ {after} : prev'[r] = prev[r],
         after # End => prev'[after] = first
  PROVE  /\ ListInv'
         /\ first \in structs' /\ after \in structs'
         /\ next'[first] = after
         /\ \A r \in structs' \ {first} : next'[r] = next[r]
<1>. USE EndIs
<1>0. /\ next \in [structs -> Offsets] /\ prev \in [structs -> Offsets]
      /\ \A r \in structs : r \in Nat /\ r <= End /\ next[r] \in Nat /\ prev[r] \in Offsets
      /\ 0 \in structs /\ End \in structs
      /\ \A r \in structs \ {End} : next[r] \in structs /\ r < next[r]
  BY DEF ListInv, Ends, Tiles
<1>1. \A r : r \in structs' <=> r \in structs /\ (r <= first \/ after <= r)
  BY <1>0
<1>2. /\ next'[first] = after
      /\ \A r \in structs' \ {first} : next'[r] = next[r]
      /\ next' \in [structs' -> Offsets]
      /\ first \in structs' /\ after \in structs' /\ 0 \in structs' /\ End \in structs'
  <2>1. first \in structs' /\ after \in structs' /\ 0 \in structs' /\ End \in structs'
    BY <1>0, <1>1
  <2>. QED
    BY <1>0, <1>1, <2>1 DEF Put
<1>3. Ends'
  BY <1>0, <1>1, <1>2 DEF ListInv, Ends, End, Offsets
<1>4. \A r \in structs \ {End} : \A q \in structs : ~(r < q /\ q < next[r])
  BY DEF ListInv, Tiles
<1>5. \A r \in structs' \ {first, End} :
        next[r] \in structs' /\ (next[r] <= first \/ after < next[r])
  <2>. SUFFICES ASSUME NEW r \in structs' \ {first, End}
                PROVE  next[r] \in structs' /\ (next[r] <= first \/ after < next[r])
    OBVIOUS
  <2>1. r \in structs \ {End} /\ next[r] \in structs /\ (r < first \/ after <= r)
    BY <1>0, <1>1
  <2>2. CASE r < first
    BY <1>0, <1>1, <1>4, <2>1, <2>2
  <2>3. CASE after <= r
    BY <1>0, <1>1, <2>1, <2>3
  <2>. QED
    BY <2>1, <2>2, <2>3
<1>6. Tiles'
  <2>. SUFFICES ASSUME NEW r \in structs' \ {End}
                PROVE  /\ next'[r] \in structs' /\ r < next'[r]
                       /\ \A q \in structs' : ~(r < q /\ q < next'[r])
    BY DEF Tiles, End
  <2>1. CASE r = first
    BY <1>0, <1>1, <1>2, <2>1
  <2>2. CASE r # first
    BY <1>0, <1>1, <1>2, <1>4, <1>5, <2>2
  <2>. QED
    BY <2>1, <2>2
<1>7. Linked'
  <2>0. /\ prev[0] = 0
        /\ \A r \in structs \ {End} : next[r] # End => prev[next[r]] = r
        /\ \A r \in structs \ {0, End} : prev[r] \in structs \ {End} /\ next[prev[r]] = r
    BY DEF ListInv, Linked
  <2>1. prev'[0] = 0
    BY <1>0, <1>2, <2>0
  <2>2. ASSUME NEW r \in structs' \ {End}, next'[r] # End PROVE prev'[next'[r]] = r
    <3>1. CASE r = first
      BY <1>2, <2>2, <3>1
    <3>2. CASE r # first
      <4>1. next'[r] = next[r] /\ next[r] \in structs' /\ next[r] # after
        BY <1>0, <1>2, <1>5, <3>2
      <4>. QED
        BY <1>1, <2>0, <2>2, <4>1
    <3>. QED
      BY <3>1, <3>2
  <2>3. ASSUME NEW r \in structs' \ {0, End}
        PROVE  prev'[r] \in structs' \ {End} /\ next'[prev'[r]] = r
    <3>1. CASE r = after
      BY <1>2, <2>3, <3>1
    <3>2. CASE r # after
      <4>. DEFINE q == prev[r]
      <4>1. prev'[r] = q /\ q \in structs \ {End} /\ next[q] = r /\ q < r
        BY <1>0, <1>1, <2>0, <3>2
      <4>. HIDE DEF q
      <4>2. r < first \/ r = first \/ after < r
        BY <1>0, <1>1, <3>2
      <4>3. q < first \/ after <= q
        BY <1>0, <1>4, <4>1, <4>2
      <4>4. q \in structs' /\ q # first
        BY <1>0, <1>1, <4>1, <4>3
      <4>. QED
        BY <1>2, <4>1, <4>4
    <3>. QED
      BY <3>1, <3>2
  <2>. QED
    BY <2>1, <2>2, <2>3 DEF Linked, End
<1>8. BlocksAtLeastMin'
  <2>. SUFFICES ASSUME NEW r \in structs' \ {End}
                PROVE  next'[r] - (r + HdrSize) >= MinSize
    BY DEF BlocksAtLeastMin, Room, End
  <2>0. \A q \in structs \ {End} : next[q] - (q + HdrSize) >= MinSize
    BY DEF ListInv, BlocksAtLeastMin, Room
  <2>1. CASE r = first
    <3>1. next[first] <= after
      BY <1>0, <1>4
    <3>. QED
      BY <1>0, <1>2, <2>0, <2>1, <3>1
  <2>2. CASE r # first
    BY <1>1, <1>2, <2>0, <2>2
  <2>. QED
    BY <2>1, <2>2
<1>. QED
  BY <1>2, <1>3, <1>6, <1>7, <1>8 DEF ListInv, Offsets

-----------------------------------------------------------------------------
LEMMA Starts ==
  ASSUME SizesAssumption
  PROVE  Init => IInv
<1>. USE EndIs
<1>. SUFFICES ASSUME Init PROVE IInv
  OBVIOUS
<1>1. /\ structs = {0, End} /\ lfree = 0
      /\ next[0] = End /\ prev[0] = 0
      /\ used[End] = TRUE /\ used[0] = FALSE /\ size[0] = 0
      /\ next \in [structs -> Offsets] /\ prev \in [structs -> Offsets]
      /\ used \in [structs -> BOOLEAN] /\ size \in [structs -> 0 .. MemSize]
  <2>1. /\ structs = {0, End} /\ 0 \in Offsets /\ End \in Offsets /\ End # 0
        /\ 0 \in 0 .. MemSize /\ 0 \in structs /\ End \in structs
    BY DEF Init
  <2>2. /\ next = [p \in structs |-> End] /\ prev = [p \in structs |-> p]
        /\ used = [p \in structs |-> p = End] /\ lfree = 0
        /\ size = [p \in structs |-> 0]
    BY DEF Init
  <2>3. next \in [structs -> Offsets] /\ prev \in [structs -> Offsets]
    BY <2>1, <2>2
  <2>4. used \in [structs -> BOOLEAN] /\ used[End] = TRUE /\ used[0] = FALSE
    BY <2>1, <2>2
  <2>5. next[0] = End /\ prev[0] = 0
    BY <2>1, <2>2
  <2>6. size \in [structs -> 0 .. MemSize] /\ size[0] = 0
    BY <2>1, <2>2
  <2>. QED
    BY <2>1, <2>2, <2>3, <2>4, <2>5, <2>6
<1>2. MemSize >= HdrSize + MinSize
  BY DEF SizesAssumption
<1>3. ListInv
  BY <1>1, <1>2 DEF ListInv, Ends, Tiles, Linked, BlocksAtLeastMin, Room
<1>4. UsedInv
  BY <1>1, <1>2 DEF UsedInv, NoTwoFree, LowInv, SizeInv, Room
<1>. QED
  BY <1>3, <1>4 DEF IInv

(* What every action starts from.                                          *)
LEMMA Given ==
  ASSUME SizesAssumption, IInv
  PROVE  /\ \A r \in structs : /\ r \in Nat /\ r <= End /\ next[r] \in Nat
                               /\ used[r] \in BOOLEAN /\ size[r] \in 0 .. MemSize
         /\ 0 \in structs /\ End \in structs /\ used[End] /\ lfree \in structs
         /\ \A r \in structs \ {End} : /\ next[r] \in structs /\ r < next[r]
                                       /\ next[r] - (r + HdrSize) >= MinSize
                                       /\ size[r] <= next[r] - (r + HdrSize)
                                       /\ used[r] => size[r] >= 1
                                       /\ ~used[r] => used[next[r]]
         /\ \A r \in structs : ~used[r] => lfree <= r
<1>1. \A r \in structs : /\ r \in Nat /\ r <= End /\ next[r] \in Nat
                         /\ used[r] \in BOOLEAN /\ size[r] \in 0 .. MemSize
  BY EndIs DEF IInv, ListInv, UsedInv, Ends
<1>2. 0 \in structs /\ End \in structs /\ used[End] /\ lfree \in structs
  BY DEF IInv, ListInv, UsedInv, Ends
<1>3. \A r \in structs \ {End} : /\ next[r] \in structs /\ r < next[r]
                                 /\ next[r] - (r + HdrSize) >= MinSize
  BY DEF IInv, ListInv, Tiles, BlocksAtLeastMin, Room
<1>4. \A r \in structs \ {End} : /\ size[r] <= next[r] - (r + HdrSize)
                                 /\ used[r] => size[r] >= 1
                                 /\ ~used[r] => used[next[r]]
  BY DEF IInv, UsedInv, SizeInv, NoTwoFree, Room
<1>5. \A r \in structs : ~used[r] => lfree <= r
  BY DEF IInv, UsedInv, LowInv
<1>. QED
  BY <1>1, <1>2, <1>3, <1>4, <1>5

(* A struct of the list is split, or the rest of it cut off: the new       *)
(* struct is free, and the one after it is in use.                         *)
LEMMA SplitSafe ==
  ASSUME SizesAssumption, IInv, NEW p \in structs \ {End}, NEW n \in Nat,
         n >= MinSize, Splits(p, n), used[next[p]],
         NEW request \in 1 .. n, request <= MemSize,
         InsertAfter(p, p + HdrSize + n),
         used' \in [structs' -> BOOLEAN], used'[p], ~used'[p + HdrSize + n],
         \A r \in structs \ {p} : used'[r] = used[r],
         size' = Put2(size, p, request, p + HdrSize + n, 0),
         lfree' \in structs', \A r \in structs' : ~used'[r] => lfree' <= r
  PROVE  IInv'
<1>. DEFINE new == p + HdrSize + n
<1>. USE EndIs
<1>0. p \in Nat /\ next[p] \in Nat /\ next[p] \in structs /\ p < next[p]
  BY Given
<1>1. /\ new \in Nat /\ p + HdrSize + MinSize <= new /\ new + HdrSize + MinSize <= next[p]
      /\ new = p + HdrSize + n
  BY <1>0 DEF Splits, Room
<1>. HIDE DEF new
<1>2. /\ ListInv'
      /\ new \notin structs /\ structs' = structs \cup {new}
      /\ next'[p] = new /\ next'[new] = next[p]
      /\ \A r \in structs \ {p} : next'[r] = next[r]
  BY <1>1, Inserted DEF IInv
<1>3. /\ size'[p] = request /\ size'[new] = 0
      /\ \A r \in structs \ {p} : size'[r] = size[r]
      /\ size' \in [structs' -> 0 .. MemSize]
  <2>1. size' = [r \in structs' |-> IF r = p THEN request ELSE IF r = new THEN 0 ELSE size[r]]
    BY <1>1 DEF Put2
  <2>2. size \in [structs -> 0 .. MemSize] /\ 0 \in 0 .. MemSize /\ request \in 0 .. MemSize
    BY DEF IInv, UsedInv
  <2>. QED
    BY <1>2, <2>1, <2>2
<1>4. used'[End] /\ End # new /\ ~used'[new]
  BY <1>0, <1>1, <1>2, Given
<1>5. NoTwoFree'
  <2>. SUFFICES ASSUME NEW r \in structs' \ {End}, ~used'[r] PROVE used'[next'[r]]
    BY DEF NoTwoFree, End
  <2>1. CASE r = new
    BY <1>0, <1>2, <2>1
  <2>2. CASE r \in structs \ {p, End}
    <3>1. used[next[r]] /\ next[r] \in structs /\ next'[r] = next[r]
      BY <1>2, <2>2, Given
    <3>. QED
      BY <3>1
  <2>. QED
    BY <1>2, <2>1, <2>2
<1>6. SizeInv'
  <2>. SUFFICES ASSUME NEW r \in structs' \ {End}
                PROVE  /\ size'[r] <= next'[r] - (r + HdrSize)
                       /\ used'[r] => size'[r] >= 1
    BY DEF SizeInv, Room, End
  <2>1. CASE r = p
    BY <1>0, <1>1, <1>2, <1>3, <2>1
  <2>2. CASE r = new
    BY <1>0, <1>1, <1>2, <1>3, <1>4, <2>2
  <2>3. CASE r \in structs \ {p, End}
    BY <1>2, <1>3, <2>3, Given
  <2>. QED
    BY <1>2, <2>1, <2>2, <2>3
<1>7. LowInv'
  BY DEF LowInv
<1>. QED
  BY <1>2, <1>3, <1>4, <1>5, <1>6, <1>7 DEF IInv, UsedInv, End

(* mem_malloc                                                              *)
LEMMA MallocSafe ==
  ASSUME SizesAssumption, IInv, NEW request \in 1 .. MemSize, Malloc(request)
  PROVE  IInv'
<1>. DEFINE n == AtLeastMin(request)
<1>. USE EndIs
<1>1. PICK p \in Fitting(n) :
        /\ Take(p, n, request)
        /\ IF p = lfree
           THEN lfree' \in FreeOrEnd
                /\ \A q \in FreeOrEnd : q >= p => lfree' \in p .. q
           ELSE UNCHANGED lfree
  BY DEF Malloc
<1>2. n \in Nat /\ n >= MinSize /\ request \in 1 .. n /\ n <= MemSize
  BY DEF Malloc, AtLeastMin
<1>. HIDE DEF n
<1>3. /\ p \in structs \ {End} /\ ~used[p] /\ Room(p) >= n /\ lfree <= p
      /\ p \in Nat /\ next[p] \in structs /\ used[next[p]]
  <2>1. p \in structs /\ p < End - n /\ ~used[p] /\ Room(p) >= n /\ lfree <= p
    BY DEF Fitting
  <2>. QED
    BY <1>2, <2>1, Given
<1>4. ASSUME structs \subseteq structs',
             \A r \in structs \ {p} : used'[r] = used[r],
             \A r \in structs' \ structs : r \in Nat /\ p < r
      PROVE  lfree' \in structs' /\ \A r \in structs' : ~used'[r] => lfree' <= r
  <2>0. \A r \in structs' : ~used'[r] => r \in Nat /\ (p <= r \/ (r \in structs /\ lfree <= r))
    <3>. SUFFICES ASSUME NEW r \in structs', ~used'[r]
                  PROVE  r \in Nat /\ (p <= r \/ (r \in structs /\ lfree <= r))
      OBVIOUS
    <3>1. CASE r \in structs \ {p}
      BY <1>4, <3>1, Given
    <3>2. CASE r \notin structs
      BY <1>3, <1>4, <3>2
    <3>. QED
      BY <1>3, <3>1, <3>2
  <2>1. CASE p = lfree
    <3>1. \A r \in structs' : ~used'[r] => r \in FreeOrEnd /\ r >= p
      BY <1>3, <2>0, <2>1 DEF FreeOrEnd
    <3>2. lfree' \in FreeOrEnd /\ \A q \in FreeOrEnd : q >= p => lfree' \in p .. q
      BY <1>1, <2>1
    <3>. QED
      BY <3>1, <3>2 DEF FreeOrEnd
  <2>2. CASE p # lfree
    <3>1. lfree' = lfree /\ lfree \in structs /\ lfree \in Nat
      BY <1>1, <2>2, Given
    <3>. QED
      BY <1>3, <1>4, <2>0, <3>1
  <2>. QED
    BY <2>1, <2>2
<1>5. CASE /\ Splits(p, n)
           /\ InsertAfter(p, p + HdrSize + n)
           /\ used' = Put2(used, p, TRUE, p + HdrSize + n, FALSE)
           /\ size' = Put2(size, p, request, p + HdrSize + n, 0)
  <2>. DEFINE new == p + HdrSize + n
  <2>1. /\ new \in Nat /\ p < new /\ p # new
        /\ p + HdrSize + MinSize <= new /\ new + HdrSize + MinSize <= next[p]
    BY <1>2, <1>3, <1>5, Given DEF Splits, Room
  <2>2. structs' = structs \cup {new} /\ new \notin structs
    BY <1>3, <1>5, <2>1, Inserted DEF IInv
  <2>3. /\ used'[p] /\ ~used'[new] /\ \A r \in structs \ {p} : used'[r] = used[r]
        /\ used' \in [structs' -> BOOLEAN]
    <3>1. used' = [r \in structs' |-> IF r = p THEN TRUE ELSE IF r = new THEN FALSE
                                      ELSE used[r]]
      BY <1>5 DEF Put2
    <3>. HIDE DEF new
    <3>2. used'[p] = TRUE /\ used'[new] = FALSE
      BY <1>3, <2>1, <2>2, <3>1
    <3>3. \A r \in structs \ {p} : used'[r] = used[r]
      BY <2>2, <3>1
    <3>4. \A r \in structs : used[r] \in BOOLEAN
      BY Given
    <3>5. used' \in [structs' -> BOOLEAN]
      BY <2>2, <3>1, <3>4
    <3>. QED
      BY <3>2, <3>3, <3>5
  <2>4. \A r \in structs' \ structs : r \in Nat /\ p < r
    BY <2>1, <2>2
  <2>5. lfree' \in structs' /\ \A r \in structs' : ~used'[r] => lfree' <= r
    BY <1>4, <2>2, <2>3, <2>4
  <2>6. request \in 1 .. n /\ request <= MemSize /\ InsertAfter(p, new)
        /\ size' = Put2(size, p, request, new, 0) /\ Splits(p, n) /\ n >= MinSize
        /\ n \in Nat /\ p \in structs \ {End} /\ used[next[p]]
    BY <1>2, <1>3, <1>5
  <2>. QED
    BY <2>3, <2>5, <2>6, SplitSafe
<1>6. CASE /\ ~Splits(p, n)
           /\ used' = [used EXCEPT ![p] = TRUE]
           /\ size' = [size EXCEPT ![p] = request]
           /\ UNCHANGED <<structs, next, prev>>
  <2>1. ListInv'
    BY <1>6 DEF IInv, ListInv, Ends, Tiles, Linked, BlocksAtLeastMin, Room, Offsets, End
  <2>2. used \in [structs -> BOOLEAN] /\ size \in [structs -> 0 .. MemSize]
    BY DEF IInv, UsedInv
  <2>3. /\ used' \in [structs' -> BOOLEAN] /\ size' \in [structs' -> 0 .. MemSize]
        /\ used'[p] = TRUE /\ \A r \in structs \ {p} : used'[r] = used[r]
        /\ size'[p] = request /\ \A r \in structs \ {p} : size'[r] = size[r]
    <3>1. request \in 0 .. MemSize
      OBVIOUS
    <3>. QED
      BY <1>3, <1>6, <2>2, <3>1
  <2>4. lfree' \in structs' /\ LowInv'
    BY <1>4, <1>6, <2>3 DEF LowInv
  <2>5. NoTwoFree'
    <3>. SUFFICES ASSUME NEW r \in structs \ {p, End}, ~used[r] PROVE used'[next[r]]
      BY <1>6, <2>3 DEF NoTwoFree, End
    <3>1. used[next[r]] /\ next[r] \in structs
      BY Given
    <3>. QED
      BY <2>3, <3>1
  <2>6. SizeInv'
    <3>. SUFFICES ASSUME NEW r \in structs \ {End}
                  PROVE  /\ size'[r] <= next[r] - (r + HdrSize)
                         /\ used'[r] => size'[r] >= 1
      BY <1>6 DEF SizeInv, Room, End
    <3>1. CASE r = p
      BY <1>2, <1>3, <2>3, <3>1, Given DEF Room
    <3>2. CASE r # p
      BY <2>3, <3>2, Given
    <3>. QED
      BY <3>1, <3>2
  <2>7. used'[End]
    BY <1>3, <2>3, Given
  <2>. QED
    BY <2>1, <2>3, <2>4, <2>5, <2>6, <2>7 DEF IInv, UsedInv, End
<1>. QED
  BY <1>1, <1>5, <1>6 DEF Take

(* mem_free: the struct, or the free one before it, now reaches up to one  *)
(* in use.  lfree is not above the free struct before, when there is one.  *)
LEMMA FreeSafe ==
  ASSUME SizesAssumption, IInv, NEW p \in structs, Free(p)
  PROVE  IInv'
<1>. DEFINE after == IF JoinsNext(p) THEN next[next[p]] ELSE next[p]
            first == IF JoinsPrev(p) THEN prev[p] ELSE p
            low   == IF JoinsNext(p) /\ LowestWith(p) = next[p] THEN p ELSE LowestWith(p)
<1>. USE EndIs
<1>1. /\ used[p] /\ p # End
      /\ structs' = structs \ {q \in structs : first < q /\ q < after}
      /\ used' = Put(used, p, FALSE)
      /\ next' = Put(next, first, after)
      /\ prev' = IF JoinsNext(p) \/ JoinsPrev(p) THEN Put(prev, after, first) ELSE prev
      /\ lfree' = IF JoinsPrev(p) /\ low = p THEN prev[p] ELSE low
      /\ size' = Put(size, p, 0)
  BY DEF Free
<1>2. /\ p \in structs \ {End} /\ p \in Nat
      /\ next[p] \in structs /\ next[p] \in Nat /\ p < next[p]
      /\ lfree \in structs /\ lfree \in Nat
  BY <1>1, Given
<1>3. after \in structs /\ after \in Nat /\ p < after /\ used[after] /\ next[p] <= after
  <2>1. CASE JoinsNext(p)
    <3>1. next[p] \in structs \ {End} /\ ~used[next[p]]
      BY <1>2, <2>1 DEF JoinsNext
    <3>2. next[next[p]] \in structs /\ next[p] < next[next[p]] /\ used[next[next[p]]]
      BY <3>1, Given
    <3>. QED
      BY <1>2, <2>1, <3>2, Given
  <2>2. CASE ~JoinsNext(p)
    BY <1>2, <2>2, Given DEF JoinsNext
  <2>. QED
    BY <2>1, <2>2
<1>4. /\ first \in structs \ {End} /\ first \in Nat /\ first <= p
      /\ first = p \/ (first < p /\ ~used[first] /\ next[first] = p)
      /\ next[first] <= after
  <2>1. CASE JoinsPrev(p)
    <3>1. p # 0 /\ first = prev[p] /\ ~used[first]
      BY <2>1 DEF JoinsPrev, IInv, ListInv, Linked
    <3>2. first \in structs \ {End} /\ next[first] = p
      BY <1>2, <3>1 DEF IInv, ListInv, Linked
    <3>. HIDE DEF first, after
    <3>3. first \in Nat /\ first < p
      BY <3>2, Given
    <3>. QED
      BY <1>2, <1>3, <3>1, <3>2, <3>3
  <2>2. CASE ~JoinsPrev(p)
    BY <1>2, <1>3, <2>2
  <2>. QED
    BY <2>1, <2>2
<1>5. ASSUME NEW r \in structs \ {End}, next[r] = first, ~used[r]
      PROVE  FALSE
  <2>1. r \in Nat /\ r < first /\ prev[first] = r
    BY <1>4, <1>5, Given DEF IInv, ListInv, Linked
  <2>2. CASE JoinsPrev(p)
    <3>1. ~used[first]
      BY <2>2 DEF JoinsPrev
    <3>2. used[next[r]]
      BY <1>5, Given
    <3>. QED
      BY <1>5, <3>1, <3>2
  <2>3. CASE ~JoinsPrev(p)
    <3>1. first = p
      BY <2>3
    <3>. HIDE DEF first
    <3>. QED
      BY <1>2, <1>5, <2>1, <2>3, <3>1 DEF JoinsPrev
  <2>. QED
    BY <2>2, <2>3
<1>6. /\ prev' \in [structs' -> Offsets]
      /\ \A r \in structs' \ {after} : prev'[r] = prev[r]
      /\ after # End => prev'[after] = first
  <2>0. prev \in [structs -> Offsets] /\ first \in Offsets /\ structs' \subseteq structs
        /\ after \in structs'
    <3>. HIDE DEF first, after
    <3>1. prev \in [structs -> Offsets] /\ structs \subseteq Offsets
      BY DEF IInv, ListInv, Ends
    <3>2. structs' \subseteq structs /\ after \in structs'
      BY <1>1, <1>3
    <3>. QED
      BY <1>4, <3>1, <3>2
  <2>1. CASE JoinsNext(p) \/ JoinsPrev(p)
    <3>1. prev' = [r \in structs' |-> IF r = after THEN first ELSE prev[r]]
      BY <1>1, <2>1 DEF Put
    <3>. HIDE DEF first, after
    <3>. QED
      BY <2>0, <3>1
  <2>2. CASE ~(JoinsNext(p) \/ JoinsPrev(p))
    <3>1. prev' = prev /\ first = p /\ after = next[p]
      BY <1>1, <2>2
    <3>2. \A q \in structs : ~(first < q /\ q < after)
      BY <1>2, <3>1 DEF IInv, ListInv, Tiles
    <3>3. structs' = structs
      <4>. HIDE DEF first, after
      <4>. QED
        BY <1>1, <3>2
    <3>4. next[p] # End => prev[next[p]] = p
      BY <1>2 DEF IInv, ListInv, Linked
    <3>. HIDE DEF first, after
    <3>. QED
      BY <2>0, <3>1, <3>3, <3>4
  <2>. QED
    BY <2>1, <2>2
<1>7. lfree' \in {p, lfree} /\ lfree' <= lfree /\ lfree' <= first
  <2>0. LowestWith(p) \in {p, lfree} /\ LowestWith(p) <= p /\ LowestWith(p) <= lfree
    BY <1>2 DEF LowestWith
  <2>1. low = LowestWith(p)
    BY <1>2, <2>0
  <2>2. CASE JoinsPrev(p)
    <3>1. ~used[first] /\ first = prev[p]
      BY <2>2 DEF JoinsPrev
    <3>2. lfree <= first /\ first < p
      <4>1. first # p
        BY <1>1, <3>1
      <4>. HIDE DEF first
      <4>. QED
        BY <1>4, <3>1, <4>1, Given
    <3>. HIDE DEF first, low
    <3>3. LowestWith(p) = lfree
      BY <1>2, <1>4, <3>2 DEF LowestWith
    <3>4. low # p
      BY <1>2, <1>4, <2>1, <3>2, <3>3
    <3>. QED
      BY <1>1, <1>2, <2>1, <3>2, <3>3, <3>4
  <2>3. CASE ~JoinsPrev(p)
    <3>1. first = p /\ lfree' = low
      BY <1>1, <2>3
    <3>. HIDE DEF first, low
    <3>. QED
      BY <2>0, <2>1, <3>1
  <2>. QED
    BY <2>2, <2>3
<1>. HIDE DEF first, after, low
<1>8. /\ ListInv'
      /\ first \in structs' /\ after \in structs' /\ next'[first] = after
      /\ \A r \in structs' \ {first} : next'[r] = next[r]
  <2>1. first < after /\ ListInv
    BY <1>2, <1>3, <1>4 DEF IInv
  <2>. QED
    BY <1>1, <1>3, <1>4, <1>6, <2>1, Joined
<1>9. structs' \subseteq structs /\ End \in structs' /\ End # first /\ End # p
  BY <1>1, <1>4, <1>8 DEF ListInv, Ends, End
<1>10. /\ used' \in [structs' -> BOOLEAN] /\ ~used'[first]
       /\ \A r \in structs' \ {first} : used'[r] = used[r]
       /\ size' \in [structs' -> 0 .. MemSize] /\ size'[first] <= size[first]
       /\ \A r \in structs' \ {first} : size'[r] = size[r]
  <2>1. used' = [r \in structs' |-> IF r = p THEN FALSE ELSE used[r]]
        /\ size' = [r \in structs' |-> IF r = p THEN 0 ELSE size[r]]
    BY <1>1 DEF Put
  <2>2. \A r \in structs' \ {first} : r # p
    <3>. SUFFICES ASSUME NEW r \in structs' \ {first}, r = p PROVE FALSE
      OBVIOUS
    <3>. QED
      BY <1>1, <1>3, <1>4
  <2>3. \A r \in structs : used[r] \in BOOLEAN /\ size[r] \in 0 .. MemSize
    BY Given
  <2>4. used' \in [structs' -> BOOLEAN] /\ size' \in [structs' -> 0 .. MemSize]
    <3>1. \A r \in structs' : (IF r = p THEN FALSE ELSE used[r]) \in BOOLEAN
      BY <1>9, <2>3
    <3>2. \A r \in structs' : (IF r = p THEN 0 ELSE size[r]) \in 0 .. MemSize
      BY <1>9, <2>3
    <3>3. used' \in [structs' -> BOOLEAN]
      BY <2>1, <3>1
    <3>4. size' \in [structs' -> 0 .. MemSize]
      BY <2>1, <3>2
    <3>. QED
      BY <3>3, <3>4
  <2>5. ~used'[first]
    BY <1>4, <1>8, <2>1
  <2>6. size'[first] <= size[first]
    BY <1>8, <1>9, <2>1, <2>3
  <2>7. \A r \in structs' \ {first} : used'[r] = used[r] /\ size'[r] = size[r]
    BY <2>1, <2>2
  <2>. QED
    BY <2>4, <2>5, <2>6, <2>7
<1>11. used'[End] /\ lfree' \in structs'
  <2>1. used'[End]
    BY <1>9, <1>10, Given
  <2>2. lfree' \in structs /\ lfree' \in Nat /\ lfree' <= first
    BY <1>2, <1>7
  <2>. QED
    <3>1. \A q : q \in structs' <=> q \in structs /\ ~(first < q /\ q < after)
      BY <1>1
    <3>. QED
      BY <1>4, <2>1, <2>2, <3>1
<1>12. NoTwoFree'
  <2>. SUFFICES ASSUME NEW r \in structs' \ {End}, ~used'[r] PROVE used'[next'[r]]
    BY DEF NoTwoFree, End
  <2>1. CASE r = first
    BY <1>2, <1>3, <1>4, <1>8, <1>10, <2>1
  <2>2. CASE r # first
    <3>1. r \in structs \ {End} /\ ~used[r] /\ next'[r] = next[r]
      BY <1>8, <1>9, <1>10, <2>2
    <3>2. used[next[r]] /\ next[r] # first
      BY <1>5, <3>1, Given
    <3>3. next'[r] \in structs'
      BY <1>8 DEF ListInv, Tiles, End
    <3>. QED
      BY <1>10, <3>1, <3>2, <3>3
  <2>. QED
    BY <2>1, <2>2
<1>13. LowInv'
  <2>. SUFFICES ASSUME NEW r \in structs', ~used'[r] PROVE lfree' <= r
    BY DEF LowInv
  <2>1. CASE r = first
    BY <1>7, <2>1
  <2>2. CASE r # first
    <3>1. r \in structs /\ ~used[r]
      BY <1>9, <1>10, <2>2
    <3>2. lfree <= r /\ r \in Nat
      BY <3>1, Given
    <3>. QED
      BY <1>2, <1>7, <3>2
  <2>. QED
    BY <2>1, <2>2
<1>14. SizeInv'
  <2>. SUFFICES ASSUME NEW r \in structs' \ {End}
                PROVE  /\ size'[r] <= next'[r] - (r + HdrSize)
                       /\ used'[r] => size'[r] >= 1
    BY DEF SizeInv, Room, End
  <2>1. CASE r = first
    <3>1. size[first] <= next[first] - (first + HdrSize) /\ size[first] \in Nat
          /\ next[first] \in Nat
      BY <1>4, Given
    <3>2. size'[first] \in Nat
      BY <1>8, <1>10
    <3>. QED
      BY <1>3, <1>4, <1>8, <1>10, <2>1, <3>1, <3>2
  <2>2. CASE r # first
    BY <1>8, <1>9, <1>10, <2>2, Given
  <2>. QED
    BY <2>1, <2>2
<1>. QED
  BY <1>8, <1>10, <1>11, <1>12, <1>13, <1>14 DEF IInv, UsedInv, End

(* mem_trim: what is cut off joins the free struct after it, or becomes a  *)
(* struct of its own when it is large enough.                              *)
LEMMA TrimSafe ==
  ASSUME SizesAssumption, IInv, NEW p \in structs, NEW request \in 1 .. size[p],
         Trim(p, request)
  PROVE  IInv'
<1>. DEFINE n == AtLeastMin(request)
            new == p + HdrSize + n
            old == next[p]
<1>. USE EndIs
<1>1. /\ p \in structs \ {End} /\ used[p] /\ p \in Nat
      /\ old \in structs /\ old \in Nat /\ p < old
      /\ lfree \in structs /\ lfree \in Nat
      /\ size[p] \in 0 .. MemSize
  BY Given DEF Trim
<1>2. /\ n \in Nat /\ n >= MinSize /\ request \in 1 .. n /\ request <= MemSize
      /\ n < Room(p)
  BY <1>1 DEF Trim, AtLeastMin
<1>. HIDE DEF n
<1>3. /\ new \in Nat /\ p < new /\ p + HdrSize + MinSize <= new /\ new < old
      /\ new = p + HdrSize + n
  BY <1>1, <1>2 DEF Room
<1>. HIDE DEF new, old
<1>4. \/ /\ ~used[old]
         /\ MoveNext(p, new)
         /\ used' = Put(used, new, FALSE)
         /\ size' = Put2(size, p, request, new, 0)
         /\ lfree' = LowestAfterMove(p, new)
      \/ /\ used[old] /\ Splits(p, n)
         /\ InsertAfter(p, new)
         /\ used' = Put(used, new, FALSE)
         /\ size' = Put2(size, p, request, new, 0)
         /\ lfree' = IF new < lfree THEN new ELSE lfree
      \/ /\ used[old]
         /\ size' = [size EXCEPT ![p] = request]
         /\ UNCHANGED <<structs, next, prev, used, lfree>>
  BY DEF Trim, n, new, old
<1>5. /\ \A r \in structs : used[r] \in BOOLEAN /\ size[r] \in 0 .. MemSize
      /\ request \in 0 .. MemSize
      /\ used \in [structs -> BOOLEAN] /\ size \in [structs -> 0 .. MemSize]
  BY <1>2, Given DEF IInv, UsedInv
<1>6. CASE /\ ~used[old]
           /\ MoveNext(p, new)
           /\ used' = Put(used, new, FALSE)
           /\ size' = Put2(size, p, request, new, 0)
           /\ lfree' = LowestAfterMove(p, new)
  <2>1. old # End /\ next[old] \in structs /\ old < next[old] /\ used[next[old]]
        /\ next[old] \in Nat
    BY <1>1, <1>6, Given
  <2>2. /\ ListInv'
        /\ new \notin structs /\ structs' = (structs \ {old}) \cup {new}
        /\ next'[p] = new /\ next'[new] = next[old]
        /\ \A r \in structs \ {p, old} : next'[r] = next[r]
    BY <1>1, <1>3, <1>6, <2>1, Moved DEF IInv, old
  <2>3. used' = [r \in structs' |-> IF r = new THEN FALSE ELSE used[r]]
        /\ size' = [r \in structs' |-> IF r = p THEN request ELSE IF r = new THEN 0 ELSE size[r]]
    BY <1>6 DEF Put, Put2
  <2>4. new \in structs' /\ p \in structs' /\ p # new
    BY <1>1, <1>3, <2>2
  <2>5. used' \in [structs' -> BOOLEAN]
    <3>1. \A r \in structs' : (IF r = new THEN FALSE ELSE used[r]) \in BOOLEAN
      BY <1>5, <2>2
    <3>. QED
      BY <2>3, <3>1
  <2>6. size' \in [structs' -> 0 .. MemSize]
    <3>1. \A r \in structs' :
            (IF r = p THEN request ELSE IF r = new THEN 0 ELSE size[r]) \in 0 .. MemSize
      BY <1>5, <2>2
    <3>. QED
      BY <2>3, <3>1
  <2>7. ~used'[new] /\ \A r \in structs' \ {new} : used'[r] = used[r]
    BY <2>3, <2>4
  <2>8. /\ size'[p] = request /\ size'[new] = 0
        /\ \A r \in structs' \ {p, new} : size'[r] = size[r]
    BY <2>3, <2>4
  <2>9. \A r \in structs' \ {new} : r \in structs \ {old}
    BY <2>2
  <2>10. End \in structs' \ {new} /\ used'[End]
    BY <1>3, <1>1, <2>1, <2>2, <2>7, Given
  <2>11. NoTwoFree'
    <3>. SUFFICES ASSUME NEW r \in structs' \ {End}, ~used'[r] PROVE used'[next'[r]]
      BY DEF NoTwoFree, End
    <3>0. next'[r] \in structs'
      BY <2>2 DEF ListInv, Tiles, End
    <3>1. CASE r = new
      BY <2>1, <2>2, <2>7, <3>0, <3>1
    <3>2. CASE r # new
      <4>1. r \in structs \ {old, End, p} /\ ~used[r]
        BY <1>1, <2>4, <2>7, <2>9, <3>2
      <4>2. used[next[r]] /\ next[r] \in structs /\ next'[r] = next[r]
        BY <2>2, <4>1, Given
      <4>. QED
        BY <2>2, <2>7, <3>0, <4>2
    <3>. QED
      BY <3>1, <3>2
  <2>12. lfree' \in structs' /\ LowInv'
    <3>0. lfree <= old /\ (lfree # old => lfree <= p)
      BY <1>1, <1>6, Given DEF IInv, ListInv, Tiles, old
    <3>1. lfree' = IF lfree = old THEN new ELSE lfree
      BY <1>6 DEF LowestAfterMove, old
    <3>2. lfree' \in structs' /\ lfree' <= new /\ lfree' <= lfree
      BY <1>1, <1>3, <2>2, <3>0, <3>1
    <3>3. ASSUME NEW r \in structs', ~used'[r] PROVE lfree' <= r
      <4>1. CASE r = new
        BY <3>2, <4>1
      <4>2. CASE r # new
        <5>1. r \in structs /\ ~used[r] /\ r \in Nat
          BY <2>7, <2>9, <3>3, <4>2, Given
        <5>2. lfree <= r
          BY <5>1, Given
        <5>. QED
          BY <1>1, <1>3, <3>1, <3>2, <5>1, <5>2
      <4>. QED
        BY <4>1, <4>2
    <3>. QED
      BY <3>2, <3>3 DEF LowInv
  <2>13. SizeInv'
    <3>. SUFFICES ASSUME NEW r \in structs' \ {End}
                  PROVE  /\ size'[r] <= next'[r] - (r + HdrSize)
                         /\ used'[r] => size'[r] >= 1
      BY DEF SizeInv, Room, End
    <3>1. CASE r = p
      BY <1>1, <1>2, <1>3, <2>2, <2>8, <3>1
    <3>2. CASE r = new
      <4>1. next'[new] - (new + HdrSize) >= MinSize
        BY <2>2, <3>2 DEF ListInv, BlocksAtLeastMin, Room, End
      <4>. QED
        BY <1>3, <2>1, <2>2, <2>7, <2>8, <3>2, <4>1
    <3>3. CASE r \notin {p, new}
      <4>1. r \in structs \ {old, End, p}
        BY <2>9, <3>3
      <4>2. next'[r] = next[r] /\ size'[r] = size[r] /\ used'[r] = used[r]
        BY <2>2, <2>7, <2>8, <3>3, <4>1
      <4>. QED
        BY <4>1, <4>2, Given
    <3>. QED
      BY <3>1, <3>2, <3>3
  <2>. QED
    BY <2>2, <2>5, <2>6, <2>10, <2>11, <2>12, <2>13 DEF IInv, UsedInv, End
<1>7. CASE /\ used[old] /\ Splits(p, n)
           /\ InsertAfter(p, new)
           /\ used' = Put(used, new, FALSE)
           /\ size' = Put2(size, p, request, new, 0)
           /\ lfree' = IF new < lfree THEN new ELSE lfree
  <2>1. new + HdrSize + MinSize <= next[p]
    BY <1>1, <1>2, <1>3, <1>7 DEF Splits, Room, old
  <2>2. structs' = structs \cup {new} /\ new \notin structs
    BY <1>1, <1>3, <1>7, <2>1, Inserted DEF IInv
  <2>3. used' = [r \in structs' |-> IF r = new THEN FALSE ELSE used[r]]
    BY <1>7 DEF Put
  <2>4. used'[p] /\ ~used'[new] /\ \A r \in structs \ {p} : used'[r] = used[r]
    BY <1>1, <1>3, <2>2, <2>3
  <2>5. used' \in [structs' -> BOOLEAN]
    <3>1. \A r \in structs' : (IF r = new THEN FALSE ELSE used[r]) \in BOOLEAN
      BY <1>5, <2>2
    <3>. QED
      BY <2>3, <3>1
  <2>6. lfree' \in structs' /\ \A r \in structs' : ~used'[r] => lfree' <= r
    <3>1. lfree' \in structs' /\ lfree' <= new /\ lfree' <= lfree /\ lfree' \in Nat
      BY <1>1, <1>3, <1>7, <2>2
    <3>2. ASSUME NEW r \in structs' \ {new}, ~used'[r] PROVE lfree' <= r
      <4>1. r \in structs /\ ~used[r] /\ r \in Nat
        BY <1>1, <2>2, <2>4, <3>2, Given
      <4>2. lfree <= r
        BY <4>1, Given
      <4>. QED
        BY <1>1, <3>1, <4>1, <4>2
    <3>. QED
      BY <3>1, <3>2
  <2>7. /\ InsertAfter(p, p + HdrSize + n) /\ ~used'[p + HdrSize + n]
        /\ size' = Put2(size, p, request, p + HdrSize + n, 0)
        /\ used[next[p]] /\ Splits(p, n)
    BY <1>3, <1>7, <2>4 DEF old
  <2>. QED
    BY <1>1, <1>2, <2>4, <2>5, <2>6, <2>7, SplitSafe
<1>8. CASE /\ used[old]
           /\ size' = [size EXCEPT ![p] = request]
           /\ UNCHANGED <<structs, next, prev, used, lfree>>
  <2>1. ListInv'
    BY <1>8 DEF IInv, ListInv, Ends, Tiles, Linked, BlocksAtLeastMin, Room, Offsets, End
  <2>2. /\ size' \in [structs' -> 0 .. MemSize]
        /\ size'[p] = request /\ \A r \in structs \ {p} : size'[r] = size[r]
    BY <1>1, <1>5, <1>8
  <2>3. /\ used' \in [structs' -> BOOLEAN] /\ used'[End] /\ lfree' \in structs'
        /\ NoTwoFree' /\ LowInv'
    BY <1>8 DEF IInv, UsedInv, NoTwoFree, LowInv, End
  <2>4. SizeInv'
    <3>. SUFFICES ASSUME NEW r \in structs \ {End}
                  PROVE  /\ size'[r] <= next[r] - (r + HdrSize)
                         /\ used[r] => size'[r] >= 1
      BY <1>8 DEF SizeInv, Room, End
    <3>1. CASE r = p
      BY <1>1, <1>2, <2>2, <3>1 DEF Room, old
    <3>2. CASE r # p
      BY <2>2, <3>2, Given
    <3>. QED
      BY <3>1, <3>2
  <2>. QED
    BY <2>1, <2>2, <2>3, <2>4 DEF IInv, UsedInv, End
<1>. QED
  BY <1>4, <1>6, <1>7, <1>8

LEMMA StepSafe ==
  ASSUME SizesAssumption
  PROVE  IInv /\ [Next]_vars => IInv'
<1>. SUFFICES ASSUME IInv, [Next]_vars PROVE IInv'
  OBVIOUS
<1>1. CASE Next
  BY <1>1, MallocSafe, FreeSafe, TrimSafe DEF Next
<1>2. CASE UNCHANGED vars
  BY <1>2 DEF vars, IInv, ListInv, UsedInv, Ends, Tiles, Linked, BlocksAtLeastMin,
              NoTwoFree, LowInv, SizeInv, Room, Offsets, End
<1>. QED
  BY <1>1, <1>2

(* The invariant holds whatever sequence of calls is made.                 *)
THEOREM Invariance ==
  ASSUME SizesAssumption
  PROVE  Spec => []IInv
BY Starts, StepSafe, PTL DEF Spec

(* The list of the heap is in order after any sequence of calls to         *)
(* mem_malloc, mem_free and mem_trim.                                      *)
THEOREM HeapIsSound ==
  ASSUME SizesAssumption
  PROVE  Spec => []HeapSound
<1>1. IInv => HeapSound
  <2>. SUFFICES ASSUME IInv PROVE HeapSound
    OBVIOUS
  <2>1. TypeOK
    BY DEF IInv, ListInv, UsedInv, Ends, TypeOK
  <2>2. ListSound
    BY DEF IInv, ListInv, UsedInv, Ends, Tiles, Linked, ListSound
  <2>. QED
    BY <2>1, <2>2 DEF HeapSound, IInv, ListInv, UsedInv
<1>. QED
  BY <1>1, Invariance, PTL

(* mem_malloc finds a free struct whenever one is large enough: none is    *)
(* below lfree, and none large enough begins in the last n units.          *)
THEOREM MallocMissesNone ==
  ASSUME SizesAssumption
  PROVE  Spec => []FailsOnlyWhenFull
<1>1. IInv => FailsOnlyWhenFull
  <2>. SUFFICES ASSUME IInv, NEW n \in MinSize .. MemSize, Fitting(n) = {},
                       NEW p \in structs \ {End}, ~used[p], ~(Room(p) < n)
                PROVE  FALSE
    BY DEF FailsOnlyWhenFull
  <2>1. n \in Nat /\ p \in Nat /\ next[p] \in Nat /\ lfree <= p /\ next[p] <= End
    BY EndIs, Given
  <2>2. Room(p) >= n /\ p < End - n
    BY <2>1, EndIs DEF Room
  <2>3. p \in Fitting(n)
    BY <2>1, <2>2 DEF Fitting
  <2>. QED
    BY <2>3
<1>. QED
  BY <1>1, Invariance, PTL

-----------------------------------------------------------------------------
(* What the users see: the block of a struct, and those of all the others. *)
Block(p) == [start |-> p + HdrSize, size |-> size[p]]

Rest(p) == {Block(q) : q \in {r \in structs \ {p, End} : used[r]}}

(* A call about p leaves the blocks of the other structs as they are.      *)
OthersKept(p) ==
  /\ \A q \in structs \ {p} : used[q] => q \in structs' /\ used'[q] /\ size'[q] = size[q]
  /\ \A q \in structs' \ {p} : used'[q] => q \in structs /\ used[q]

LEMMA BlocksAre ==
  ASSUME NEW p
  PROVE  /\ p \in structs \ {End} /\ used[p] => Blocks = Rest(p) \cup {Block(p)}
         /\ p \in structs /\ ~used[p] => Blocks = Rest(p)
         /\ p \notin structs => Blocks = Rest(p)
BY DEF Blocks, Rest, Block

LEMMA BlocksAreNext ==
  ASSUME NEW p
  PROVE  /\ p \in structs' \ {End} /\ used'[p] => Blocks' = Rest(p)' \cup {Block(p)'}
         /\ p \in structs' /\ ~used'[p] => Blocks' = Rest(p)'
         /\ p \notin structs' => Blocks' = Rest(p)'
BY DEF Blocks, Rest, Block, End

LEMMA RestKept ==
  ASSUME NEW p, OthersKept(p)
  PROVE  Rest(p)' = Rest(p)
<1>1. \A q : (q \in structs' \ {p, End} /\ used'[q]) <=> (q \in structs \ {p, End} /\ used[q])
  BY DEF OthersKept
<1>2. \A q \in structs \ {p, End} : used[q] => size'[q] = size[q]
  BY DEF OthersKept
<1>. QED
  BY <1>1, <1>2 DEF Rest, Block, End

(* A block is within its struct: it touches that of no other struct.       *)
LEMMA Separate ==
  ASSUME SizesAssumption, IInv, NEW p \in structs \ {End}, NEW n \in Nat, n <= Room(p)
  PROVE  \A c \in Rest(p) : Heap!Disjoint(Heap!Extent(p + HdrSize, n), c)
<1>. USE EndIs
<1>. SUFFICES ASSUME NEW q \in structs \ {p, End}, used[q],
                     NEW i \in p + HdrSize .. p + HdrSize + n - 1,
                     i \in q + HdrSize .. q + HdrSize + size[q] - 1
              PROVE  FALSE
  <2>1. \A q : Block(q).start = q + HdrSize /\ Block(q).size = size[q]
    BY DEF Block
  <2>. QED
    BY <2>1 DEF Rest, Heap!Disjoint, Heap!Cells, Heap!Extent
<1>1. /\ p \in Nat /\ q \in Nat /\ next[p] \in Nat /\ next[q] \in Nat /\ size[q] \in Nat
      /\ size[q] <= next[q] - (q + HdrSize)
  BY Given
<1>2. i \in Int /\ i < next[p] /\ i < next[q] /\ p < i /\ q < i
  BY <1>1 DEF Room
<1>3. p < q => next[p] <= q
  BY Apart DEF IInv
<1>4. q < p => next[q] <= p
  BY Apart DEF IInv
<1>. QED
  BY <1>1, <1>2, <1>3, <1>4

LEMMA BlockApart ==
  ASSUME SizesAssumption, IInv, NEW p \in structs
  PROVE  Block(p) \notin Rest(p)
<1>1. \A q \in structs : q \in Nat
  BY Given
<1>2. \A q : Block(q).start = q + HdrSize
  BY DEF Block
<1>3. \A q \in structs : q # p => Block(q) # Block(p)
  BY <1>1, <1>2, EndIs
<1>. QED
  BY <1>3 DEF Rest

(* mem_malloc gives out a block that no user has.                          *)
LEMMA MallocGives ==
  ASSUME SizesAssumption, IInv, NEW request \in 1 .. MemSize, Malloc(request)
  PROVE  Heap!Next
<1>. USE EndIs
<1>. DEFINE n == AtLeastMin(request)
<1>1. PICK p \in Fitting(n) : Take(p, n, request)
  BY DEF Malloc
<1>2. n \in Nat /\ n >= MinSize /\ request <= n /\ n <= MemSize
  BY DEF Malloc, AtLeastMin
<1>. HIDE DEF n
<1>3. /\ p \in structs \ {End} /\ ~used[p] /\ Room(p) >= n
      /\ p \in Nat /\ next[p] \in Nat /\ next[p] <= End
  <2>1. p \in structs /\ p < End - n /\ ~used[p] /\ Room(p) >= n
    BY DEF Fitting
  <2>2. p # End
    BY <1>2, <2>1
  <2>. QED
    BY <2>1, <2>2, Given
<1>4. p \in structs' /\ used'[p] /\ size'[p] = request /\ OthersKept(p)
  <2>1. CASE /\ Splits(p, n)
             /\ InsertAfter(p, p + HdrSize + n)
             /\ used' = Put2(used, p, TRUE, p + HdrSize + n, FALSE)
             /\ size' = Put2(size, p, request, p + HdrSize + n, 0)
    <3>. DEFINE new == p + HdrSize + n
    <3>1. /\ new \in Nat /\ p # new
          /\ p + HdrSize + MinSize <= new /\ new + HdrSize + MinSize <= next[p]
      BY <1>2, <1>3, <2>1 DEF Splits, Room
    <3>2. structs' = structs \cup {new} /\ new \notin structs
      BY <1>3, <2>1, <3>1, Inserted DEF IInv
    <3>3. /\ used' = [r \in structs' |-> IF r = p THEN TRUE
                                         ELSE IF r = new THEN FALSE ELSE used[r]]
          /\ size' = [r \in structs' |-> IF r = p THEN request
                                         ELSE IF r = new THEN 0 ELSE size[r]]
      BY <2>1 DEF Put2
    <3>. HIDE DEF new
    <3>4. used'[p] = TRUE /\ used'[new] = FALSE /\ size'[p] = request
      BY <1>3, <3>1, <3>2, <3>3
    <3>5. \A r \in structs \ {p} : used'[r] = used[r] /\ size'[r] = size[r]
      BY <3>2, <3>3
    <3>. QED
      BY <1>3, <3>2, <3>4, <3>5 DEF OthersKept
  <2>2. CASE /\ used' = [used EXCEPT ![p] = TRUE]
             /\ size' = [size EXCEPT ![p] = request]
             /\ UNCHANGED <<structs, next, prev>>
    BY <1>3, <2>2 DEF OthersKept, IInv, UsedInv
  <2>. QED
    BY <1>1, <2>1, <2>2 DEF Take
<1>. DEFINE b == Heap!Extent(p + HdrSize, request)
<1>5. Blocks = Rest(p)
  BY <1>3, BlocksAre
<1>6. Blocks' = Rest(p) \cup {b}
  BY <1>3, <1>4, BlocksAreNext, RestKept DEF Block, Heap!Extent
<1>7. /\ b \in [start : HdrSize .. MemSize - 1, size : 1 .. MemSize]
      /\ Heap!Cells(b) \subseteq HdrSize .. MemSize - 1
  BY <1>2, <1>3 DEF Room, Heap!Cells, Heap!Extent
<1>8. \A c \in Blocks : Heap!Disjoint(b, c)
  BY <1>2, <1>3, <1>5, Separate DEF Room
<1>. HIDE DEF b
<1>9. Heap!Give(b)
  BY <1>5, <1>6, <1>7, <1>8 DEF Heap!Give
<1>. QED
  BY <1>7, <1>9 DEF Heap!Next

(* mem_free returns the block; the structs that it takes out of the list   *)
(* with p are free ones.                                                   *)
LEMMA FreeReturns ==
  ASSUME SizesAssumption, IInv, NEW p \in structs, Free(p)
  PROVE  Heap!Next
<1>. USE EndIs
<1>. DEFINE after == IF JoinsNext(p) THEN next[next[p]] ELSE next[p]
            first == IF JoinsPrev(p) THEN prev[p] ELSE p
<1>1. /\ used[p] /\ p \in structs \ {End} /\ p \in Nat
      /\ structs' = structs \ {q \in structs : first < q /\ q < after}
      /\ used' = Put(used, p, FALSE)
      /\ size' = Put(size, p, 0)
  BY Given DEF Free
<1>2. ASSUME NEW q \in structs \ {p}, first < q, q < after
      PROVE  ~used[q]
  <2>1. q \in Nat /\ p \in Nat /\ next[p] \in structs /\ next[p] \in Nat /\ p < next[p]
    BY <1>1, Given
  <2>2. CASE q < p
    <3>1. JoinsPrev(p) /\ first = prev[p]
      BY <1>2, <2>1, <2>2
    <3>2. first \in structs \ {End} /\ next[first] = p
      BY <1>1, <3>1 DEF JoinsPrev, IInv, ListInv, Linked
    <3>. HIDE DEF first
    <3>. QED
      BY <1>2, <2>2, <3>2 DEF IInv, ListInv, Tiles
  <2>3. CASE p < q
    <3>1. next[p] <= q
      BY <1>1, <2>3, Apart DEF IInv
    <3>2. CASE q = next[p]
      BY <1>2, <2>1, <3>2 DEF JoinsNext
    <3>3. CASE next[p] < q
      <4>1. JoinsNext(p) /\ after = next[next[p]]
        BY <1>2, <2>1, <3>3
      <4>2. next[p] \in structs \ {End}
        BY <2>1, <4>1 DEF JoinsNext
      <4>. HIDE DEF after
      <4>. QED
        BY <1>2, <3>3, <4>1, <4>2 DEF IInv, ListInv, Tiles
    <3>. QED
      BY <2>1, <3>1, <3>2, <3>3
  <2>. QED
    BY <2>1, <2>2, <2>3
<1>. HIDE DEF first, after
<1>3. /\ used' = [r \in structs' |-> IF r = p THEN FALSE ELSE used[r]]
      /\ size' = [r \in structs' |-> IF r = p THEN 0 ELSE size[r]]
  BY <1>1 DEF Put
<1>4. structs' \subseteq structs /\ \A q \in structs \ {p} : used[q] => q \in structs'
  BY <1>1, <1>2
<1>5. OthersKept(p)
  BY <1>3, <1>4 DEF OthersKept
<1>6. p \in structs' => ~used'[p]
  BY <1>3
<1>7. Blocks = Rest(p) \cup {Block(p)} /\ Blocks' = Rest(p)
  BY <1>1, <1>5, <1>6, BlocksAre, BlocksAreNext, RestKept
<1>8. Blocks' = Blocks \ {Block(p)} /\ Block(p) \in Blocks
  BY <1>1, <1>7, BlockApart
<1>. QED
  BY <1>8 DEF Heap!Next, Heap!Return

(* mem_trim cuts the block at its end, or leaves it as it is when the size *)
(* is not a smaller one.                                                   *)
LEMMA TrimCuts ==
  ASSUME SizesAssumption, IInv, NEW p \in structs, NEW request \in 1 .. size[p],
         Trim(p, request)
  PROVE  Heap!Next \/ UNCHANGED Blocks
<1>. USE EndIs
<1>. DEFINE n == AtLeastMin(request)
            new == p + HdrSize + n
            old == next[p]
<1>1. /\ p \in structs \ {End} /\ used[p] /\ p \in Nat
      /\ old \in structs /\ old \in Nat /\ p < old
      /\ size[p] \in 0 .. MemSize /\ n < Room(p) /\ request \in 1 .. size[p]
  BY Given DEF Trim
<1>2. n \in Nat /\ n >= MinSize
  BY <1>1 DEF AtLeastMin
<1>. HIDE DEF n
<1>3. /\ new \in Nat /\ p < new /\ p + HdrSize + MinSize <= new /\ new < old
  BY <1>1, <1>2 DEF Room
<1>. HIDE DEF new, old
<1>4. \/ /\ ~used[old]
         /\ structs' = (structs \ {old}) \cup {new}
         /\ used' = Put(used, new, FALSE)
         /\ size' = Put2(size, p, request, new, 0)
      \/ /\ structs' = structs \cup {new}
         /\ used' = Put(used, new, FALSE)
         /\ size' = Put2(size, p, request, new, 0)
      \/ /\ size' = [size EXCEPT ![p] = request]
         /\ UNCHANGED <<structs, used>>
  BY DEF Trim, n, new, old, MoveNext, InsertAfter
<1>5. new \notin structs
  BY <1>1, <1>3 DEF IInv, ListInv, Tiles, old
<1>6. p \in structs' /\ used'[p] /\ size'[p] = request /\ OthersKept(p)
  <2>1. CASE /\ structs' \in {(structs \ {old}) \cup {new}, structs \cup {new}}
             /\ used[old] => structs' = structs \cup {new}
             /\ used' = Put(used, new, FALSE)
             /\ size' = Put2(size, p, request, new, 0)
    <3>1. /\ used' = [r \in structs' |-> IF r = new THEN FALSE ELSE used[r]]
          /\ size' = [r \in structs' |-> IF r = p THEN request
                                         ELSE IF r = new THEN 0 ELSE size[r]]
      BY <2>1 DEF Put, Put2
    <3>2. /\ p \in structs' /\ new \in structs'
          /\ \A q \in structs \ {old} : q \in structs' /\ q # new
          /\ \A q \in structs' \ {new} : q \in structs
          /\ used[old] => old \in structs'
      BY <1>1, <1>3, <1>5, <2>1
    <3>3. used'[p] /\ size'[p] = request /\ ~used'[new]
      BY <1>1, <1>3, <3>1, <3>2
    <3>4. \A q \in structs' \ {p, new} : used'[q] = used[q] /\ size'[q] = size[q]
      BY <3>1
    <3>. QED
      BY <1>1, <1>5, <3>2, <3>3, <3>4 DEF OthersKept
  <2>2. CASE /\ size' = [size EXCEPT ![p] = request]
             /\ UNCHANGED <<structs, used>>
    BY <1>1, <2>2 DEF OthersKept, IInv, UsedInv
  <2>. QED
    BY <1>4, <2>1, <2>2
<1>7. /\ Blocks = Rest(p) \cup {Block(p)}
      /\ Blocks' = Rest(p) \cup {Heap!Extent(p + HdrSize, request)}
  BY <1>1, <1>6, BlocksAre, BlocksAreNext, RestKept DEF Block, Heap!Extent
<1>8. CASE request = size[p]
  BY <1>7, <1>8 DEF Block, Heap!Extent
<1>9. CASE request # size[p]
  <2>1. request < Block(p).size /\ request \in 1 .. Block(p).size
        /\ Block(p).start = p + HdrSize /\ Block(p) \in Blocks
    BY <1>1, <1>7, <1>9 DEF Block
  <2>2. Blocks' = (Blocks \ {Block(p)}) \cup {Heap!Extent(Block(p).start, request)}
    BY <1>7, <2>1, BlockApart
  <2>. QED
    BY <2>1, <2>2 DEF Heap!Next, Heap!Cut
<1>. QED
  BY <1>8, <1>9

(* The heap gives out blocks that never overlap, whatever it is asked for. *)
THEOREM HeapAllocates ==
  ASSUME SizesAssumption
  PROVE  Spec => ImplementsAllocator
<1>1. Init => Heap!Init
  <2>. SUFFICES ASSUME Init PROVE Blocks = {}
    BY DEF Heap!Init
  <2>0. structs = {0, End} /\ 0 # End /\ used = [p \in structs |-> p = End]
    BY EndIs DEF Init
  <2>1. structs = {0, End} /\ used[0] = FALSE
    BY <2>0
  <2>. QED
    BY <2>1 DEF Blocks
<1>2. IInv /\ [Next]_vars => [Heap!Next]_Blocks
  <2>. SUFFICES ASSUME IInv, [Next]_vars PROVE Heap!Next \/ UNCHANGED Blocks
    OBVIOUS
  <2>1. CASE Next
    BY <2>1, MallocGives, FreeReturns, TrimCuts DEF Next
  <2>2. CASE UNCHANGED vars
    BY <2>2 DEF vars, Blocks, End
  <2>. QED
    BY <2>1, <2>2
<1>. QED
  BY <1>1, <1>2, Invariance, PTL DEF Spec, ImplementsAllocator, Heap!Spec
=============================================================================

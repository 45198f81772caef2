-------------------------------- MODULE Pbuf --------------------------------
(***************************************************************************)
(* The packet buffers of pbuf.c: chains of pbufs linked by next, shared by *)
(* counting references, with tot_len the length of the chain from a pbuf   *)
(* on.  The users are the protocol layers; owners counts the references    *)
(* they hold, and each operation states which reference it takes over.     *)
(*                                                                         *)
(* Users follow what pbuf.h asks of them: they pass a pbuf they hold a     *)
(* reference to, and change the length of a packet only at its head.       *)
(***************************************************************************)
EXTENDS Integers, FiniteSets, Functions

CONSTANTS
  PoolSize,   (* PBUF_POOL_SIZE                                            *)
  BufSize,    (* PBUF_POOL_BUFSIZE                                         *)
  HeaderLen,  (* the header space of a layer, the offset of pbuf_alloc     *)
  MaxLen,     (* bound: length of a packet allocated                       *)
  MaxOwners   (* bound: references a pbuf's users hold                     *)

SizesAssumption ==
  /\ PoolSize \in Nat /\ MaxLen \in Nat /\ MaxOwners \in Nat
  /\ HeaderLen \in Nat /\ BufSize \in Nat /\ HeaderLen < BufSize

VARIABLES
  alloc,      (* the pbufs taken from the pool                             *)
  next,       (* p->next, NULL at the end of a chain                       *)
  len,        (* p->len                                                    *)
  tot,        (* p->tot_len                                                *)
  room,       (* the space between the struct and p->payload               *)
  ref,        (* p->ref                                                    *)
  owners      (* the references held by users                              *)

vars == <<alloc, next, len, tot, room, ref, owners>>

NULL == 0
Pbufs == 1 .. PoolSize

Init ==
  /\ alloc = {}
  /\ next = [p \in Pbufs |-> NULL]
  /\ len = [p \in Pbufs |-> 0]
  /\ tot = [p \in Pbufs |-> 0]
  /\ room = [p \in Pbufs |-> 0]
  /\ ref = [p \in Pbufs |-> 0]
  /\ owners = [p \in Pbufs |-> 0]

-----------------------------------------------------------------------------
(* The pbufs reached from p along the links of those in S, p included: the *)
(* least set with p that these links do not lead out of.                   *)
Reach(nx, p, S) ==
  {q \in Pbufs :
     \A R \in SUBSET Pbufs :
       p \in R \cup {NULL} /\ (\A r \in R \cap S : nx[r] \in R \cup {NULL}) => q \in R}

ChainIn(nx, p) == Reach(nx, p, Pbufs)
Chain(p) == ChainIn(next, p)

Preds(p) == {q \in alloc : next[q] = p}

(* The head of a packet: held by a user and by no other pbuf.              *)
Held(p) == p \in alloc /\ owners[p] > 0
IsHead(p) == Held(p) /\ Preds(p) = {}

(* mutant: pbuf_free frees the whole chain of a pbuf it frees              *)
DeadWholeChain(nx, rf, p) ==
  IF p # NULL /\ rf[p] = 1 THEN ChainIn(nx, p) ELSE {}

(* pbuf_free(p): the pbufs from p up to the first one with another         *)
(* reference are given back to the pool.                                   *)
Dead(nx, rf, p) ==
  LET last == {q \in Pbufs : rf[q] = 1}
  IN Reach(nx, p, last) \cap last

(* The first pbuf of the chain that stays loses the reference to it.       *)
Drop(nx, rf, p) ==
  LET dead == Dead(nx, rf, p)
  IN [q \in Pbufs |->
        IF q \in dead THEN 0
        ELSE IF q = p \/ \E r \in dead : nx[r] = q THEN rf[q] - 1
        ELSE rf[q]]

(* The fields of a pbuf in the pool are not read; they are shown as 0.     *)
Clear(f, dead) == [q \in Pbufs |-> IF q \in dead THEN 0 ELSE f[q]]

(* The state after pbuf_free(p) in a state with these fields.              *)
FreeIn(nx, ln, tl, rf, own, p) ==
  LET dead == Dead(nx, rf, p)
  IN /\ alloc' = alloc \ dead
     /\ ref' = Drop(nx, rf, p)
     /\ next' = Clear(nx, dead) /\ len' = Clear(ln, dead)
     /\ tot' = Clear(tl, dead) /\ room' = Clear(room, dead)
     /\ owners' = own

-----------------------------------------------------------------------------
(* The lengths of the pbufs of a new packet of n bytes after h bytes of    *)
(* header space: what is still to come, and what the ith holds of it.      *)
Least(a, b) == IF a < b THEN a ELSE b
TotAt(n, h, i) == IF i = 1 THEN n ELSE n - (BufSize - h) - (i - 2) * BufSize
LenAt(n, h, i) == Least(TotAt(n, h, i), IF i = 1 THEN BufSize - h ELSE BufSize)

(* The kth pbuf is the one the rest goes into.                             *)
Ends(n, h, k) ==
  /\ TotAt(n, h, k) = LenAt(n, h, k)
  /\ \A i \in 1 .. k - 1 : TotAt(n, h, i) > LenAt(n, h, i)

(* Some free pbufs, in the order in which the pool gives them.             *)
Taken(k) == CHOOSE s \in [1 .. k -> Pbufs \ alloc] : IsInjective(s)

(* pbuf_alloc(layer, n, PBUF_POOL).  When the pool runs out on the way the *)
(* part allocated is freed again and nothing has changed.                  *)
Alloc(n, h) ==
  \E k \in 1 .. Cardinality(Pbufs \ alloc) :
    LET new == Range(Taken(k))
        place(q) == CHOOSE i \in 1 .. k : Taken(k)[i] = q
        fill(f, at(_)) == [q \in Pbufs |-> IF q \in new THEN at(place(q)) ELSE f[q]]
    IN /\ Ends(n, h, k)
       /\ alloc' = alloc \cup new
       /\ next' = fill(next, LAMBDA i : IF i = k THEN NULL ELSE Taken(k)[i + 1])
       /\ len' = fill(len, LAMBDA i : LenAt(n, h, i))
       /\ tot' = fill(tot, LAMBDA i : TotAt(n, h, i))
       /\ room' = fill(room, LAMBDA i : IF i = 1 THEN h ELSE 0)
       /\ ref' = fill(ref, LAMBDA i : 1)
       /\ owners' = fill(owners, LAMBDA i : IF i = 1 THEN 1 ELSE 0)

Ref(p) ==
  /\ Held(p) /\ owners[p] < MaxOwners
  /\ ref' = [ref EXCEPT ![p] = @ + 1]
  /\ owners' = [owners EXCEPT ![p] = @ + 1]
  /\ UNCHANGED <<alloc, next, len, tot, room>>

Free(p) ==
  /\ Held(p)
  /\ FreeIn(next, len, tot, ref, [owners EXCEPT ![p] = @ - 1], p)

Last(p) == CHOOSE q \in Chain(p) : next[q] = NULL

Lengthened(h, t) ==
  [q \in Pbufs |-> IF q \in Chain(h) THEN tot[q] + tot[t] ELSE tot[q]]

(* mutant: only the last pbuf of the first chain gets the new length       *)
CatLastOnly(h, t) ==
  /\ IsHead(h) /\ IsHead(t) /\ Chain(h) \cap Chain(t) = {}
  /\ next' = [next EXCEPT ![Last(h)] = t]
  /\ tot' = [tot EXCEPT ![Last(h)] = @ + tot[t]]
  /\ owners' = [owners EXCEPT ![t] = @ - 1]
  /\ UNCHANGED <<alloc, len, room, ref>>

(* pbuf_cat: the reference of the caller to the tail becomes the chain's.  *)
Cat(h, t) ==
  /\ IsHead(h) /\ IsHead(t) /\ Chain(h) \cap Chain(t) = {}
  /\ next' = [next EXCEPT ![Last(h)] = t]
  /\ tot' = Lengthened(h, t)
  /\ owners' = [owners EXCEPT ![t] = @ - 1]
  /\ UNCHANGED <<alloc, len, room, ref>>

(* pbuf_chain: the caller keeps its reference, the chain gets one.         *)
ChainTo(h, t) ==
  /\ IsHead(h) /\ IsHead(t) /\ Chain(h) \cap Chain(t) = {}
  /\ next' = [next EXCEPT ![Last(h)] = t]
  /\ tot' = Lengthened(h, t)
  /\ ref' = [ref EXCEPT ![t] = @ + 1]
  /\ UNCHANGED <<alloc, len, room, owners>>

(* pbuf_dechain: the link to the rest of the chain is given up; the rest   *)
(* is gone when no one else holds it.                                      *)
Dechain(p) ==
  /\ IsHead(p) /\ next[p] # NULL
  /\ FreeIn([next EXCEPT ![p] = NULL], len,
            [tot EXCEPT ![next[p]] = tot[p] - len[p], ![p] = len[p]],
            ref, owners, next[p])

(* The lengths before the pbuf q that holds the new end of the packet.     *)
Shortened(p, q, n) ==
  [r \in Pbufs |->
     IF r = q THEN n
     ELSE IF r \in Chain(p) /\ r \notin Chain(q) THEN tot[r] - (tot[q] - n)
     ELSE tot[r]]

(* pbuf_realloc(p, tot_len - cut): the pbuf where the packet now ends      *)
(* keeps n bytes and the ones after it are freed.                          *)
Realloc(p) ==
  /\ IsHead(p)
  /\ \E q \in Chain(p) : \E n \in 0 .. len[q] :
       /\ n = 0 => q = p
       /\ FreeIn([next EXCEPT ![q] = NULL], [len EXCEPT ![q] = n],
                 Shortened(p, q, n), ref, owners, next[q])

(* pbuf_header: a header is added in front (inc > 0) or hidden (inc < 0).  *)
Header(p, inc) ==
  /\ IsHead(p)
  /\ IF inc < 0 THEN - inc <= len[p] ELSE inc <= room[p]
  /\ len' = [len EXCEPT ![p] = @ + inc]
  /\ tot' = [tot EXCEPT ![p] = @ + inc]
  /\ room' = [room EXCEPT ![p] = @ - inc]
  /\ UNCHANGED <<alloc, next, ref, owners>>

Next ==
  \/ \E n \in 0 .. MaxLen : \E h \in {0, HeaderLen} : Alloc(n, h)
  \/ \E p \in alloc :
       \/ Ref(p) \/ Free(p) \/ Dechain(p) \/ Realloc(p)
       \/ Header(p, HeaderLen) \/ Header(p, - HeaderLen)
       \/ \E t \in alloc : Cat(p, t) \/ ChainTo(p, t)

Spec == Init /\ [][Next]_vars

-----------------------------------------------------------------------------
(* Properties.                                                             *)

(* Every reference is counted, those of users and those of other pbufs, so *)
(* that a pbuf is freed with its last reference, not before and not twice: *)
(* no pbuf in use leads to one that has been given back, or to itself.     *)
RefsCounted ==
  \A p \in Pbufs :
    /\ ref[p] = owners[p] + Cardinality(Preds(p))
    /\ p \in alloc <=> ref[p] > 0

ChainsSound ==
  \A p \in alloc :
    /\ Chain(p) \subseteq alloc
    /\ next[p] # NULL => p \notin Chain(next[p])

RefsSound == RefsCounted /\ ChainsSound

(* p->tot_len == p->len + (p->next ? p->next->tot_len : 0), the invariant  *)
(* pbuf.c asserts, for every pbuf after any sequence of operations; and    *)
(* the payload stays within its buffer: headers are not put in front of it *)
(* and data not beyond its end.                                            *)
TotLenExact ==
  \A p \in alloc :
    tot[p] = len[p] + (IF next[p] = NULL THEN 0 ELSE tot[next[p]])

PayloadInside ==
  \A p \in alloc : room[p] >= 0 /\ room[p] + len[p] <= BufSize

LengthsSound == TotLenExact /\ PayloadInside
=============================================================================

-------------------------------- MODULE Memp --------------------------------
(***************************************************************************)
(* One pool of memp.c: a singly linked list of free elements, taken and    *)
(* given back at its head, by the main loop and by ETH_IRQHandler, which   *)
(* preempts it at any instruction and runs to its end.                     *)
(*                                                                         *)
(* Protect is SYS_LIGHTWEIGHT_PROT: whether SYS_ARCH_PROTECT shuts out the *)
(* interrupt.  lwipopts.h of this program sets it to 0.                    *)
(***************************************************************************)
EXTENDS Integers, FiniteSets

CONSTANTS
  Num,        (* memp_num[type]                                            *)
  Protect,    (* SYS_LIGHTWEIGHT_PROT                                      *)
  Contexts    (* the contexts that use the pool: "main", "isr"             *)

VARIABLES
  tab,        (* memp_tab[type]                                            *)
  next,       (* memp->next of each element                                *)
  pc,         (* where each context is in memp_malloc or memp_free         *)
  memp,       (* the local variable of both functions, in each context     *)
  inUse       (* how many users have each element                          *)

vars == <<tab, next, pc, memp, inUse>>

NULL == 0
Elems == 1 .. Num

(* memp_init: the elements are linked from the last one to the first.      *)
Init ==
  /\ tab = Num
  /\ next = [e \in Elems |-> e - 1]
  /\ pc = [c \in Contexts |-> "out"]
  /\ memp = [c \in Contexts |-> NULL]
  /\ inUse = [e \in Elems |-> 0]

-----------------------------------------------------------------------------
(* The main loop stands still while the handler runs; the handler does not *)
(* begin while the main loop is in a section that shuts it out.            *)
Runs(c) ==
  \A d \in Contexts \ {c} :
    IF c = "main" THEN pc[d] = "out" ELSE ~Protect \/ pc[d] = "out"

(* memp = memp_tab[type]; NULL is returned when there is none.             *)
MallocRead(c) ==
  /\ Runs(c) /\ pc[c] = "out"
  /\ tab # NULL
  /\ memp' = [memp EXCEPT ![c] = tab]
  /\ pc' = [pc EXCEPT ![c] = "malloc"]
  /\ UNCHANGED <<tab, next, inUse>>

(* memp_tab[type] = memp->next, and the element is the caller's.           *)
MallocTake(c) ==
  /\ Runs(c) /\ pc[c] = "malloc"
  /\ tab' = next[memp[c]]
  /\ inUse' = [inUse EXCEPT ![memp[c]] = @ + 1]
  /\ memp' = [memp EXCEPT ![c] = NULL]
  /\ pc' = [pc EXCEPT ![c] = "out"]
  /\ UNCHANGED next

(* memp->next = memp_tab[type], for an element a user gives back.          *)
FreeLink(c, e) ==
  /\ Runs(c) /\ pc[c] = "out"
  /\ inUse[e] > 0
  /\ inUse' = [inUse EXCEPT ![e] = @ - 1]
  /\ next' = [next EXCEPT ![e] = tab]
  /\ memp' = [memp EXCEPT ![c] = e]
  /\ pc' = [pc EXCEPT ![c] = "free"]
  /\ UNCHANGED tab

(* memp_tab[type] = memp                                                   *)
FreePush(c) ==
  /\ Runs(c) /\ pc[c] = "free"
  /\ tab' = memp[c]
  /\ memp' = [memp EXCEPT ![c] = NULL]
  /\ pc' = [pc EXCEPT ![c] = "out"]
  /\ UNCHANGED <<next, inUse>>

Next ==
  \E c \in Contexts :
    \/ MallocRead(c) \/ MallocTake(c) \/ FreePush(c)
    \/ \E e \in Elems : FreeLink(c, e)

Spec == Init /\ [][Next]_vars

-----------------------------------------------------------------------------
(* Properties.                                                             *)

(* The elements reached from memp_tab in at most n steps.                  *)
Reached[n \in Nat] ==
  IF n = 0 THEN {tab} \ {NULL}
  ELSE Reached[n - 1] \cup ({next[e] : e \in Reached[n - 1]} \ {NULL})
FreeList == Reached[Num]

(* An element is given to one user at a time and is not in the free list   *)
(* meanwhile, however the handler's calls fall into the main loop's.       *)
GivenOnce ==
  \A e \in Elems : inUse[e] <= 1 /\ (inUse[e] = 1 => e \notin FreeList)
=============================================================================

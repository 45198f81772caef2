------------------------------ MODULE TimerSet ------------------------------
(***************************************************************************)
(* What the list of timeouts stands for: a set of pending handlers, each   *)
(* with the time that is left to it.  Handlers expire in the order of the  *)
(* time left, and each only once for every time it is armed.               *)
(***************************************************************************)
EXTENDS Integers, Functions

CONSTANTS Handlers, Delays

VARIABLE left  (* the time left to each pending handler                    *)

Pending == DOMAIN left

Init == left \in [Pending -> Delays]

Arm(h, d, f) == [g \in DOMAIN f \cup {h} |-> IF g = h THEN d ELSE f[g]]

Arms ==
  \E h \in Handlers \ Pending : \E d \in Delays : left' = Arm(h, d, left)

Cancels == \E h \in Pending : left' = Restrict(left, Pending \ {h})

(* The time of the first handler passes for all of them; it may arm        *)
(* itself again.                                                           *)
Expires ==
  \E h \in Pending :
    /\ \A g \in Pending : left[h] <= left[g]
    /\ LET rest == [g \in Pending \ {h} |-> left[g] - left[h]]
       IN left' = rest \/ \E d \in Delays : left' = Arm(h, d, rest)

Next == Arms \/ Cancels \/ Expires

Spec == Init /\ [][Next]_left
=============================================================================

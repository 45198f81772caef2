------------------------------ MODULE MainLoop ------------------------------
(***************************************************************************)
(* The timers of the main loop: lwip_periodic_handle compares the u32      *)
(* clock LWipTime, which SysTick_Handler advances, with the stamp of each  *)
(* timer and calls tcp_tmr, etharp_tmr, dhcp_fine_tmr and dhcp_coarse_tmr. *)
(* The handler interrupts the loop anywhere, in particular between the     *)
(* test of a timer and its stamp.                                          *)
(***************************************************************************)
EXTENDS Integers

CONSTANTS
  Timers,     (* how many timers the loop looks at, in the order it does   *)
  Period,     (* their periods, in units of LWipTime                       *)
  Tick,       (* what SysTick_Handler adds to LWipTime                     *)
  Wrap,       (* 2^32: the values of LWipTime                              *)
  Lag         (* bound: ticks between two looks at the same timer          *)

TimersAssumption == Timers \in Nat /\ Timers > 0
ClockAssumption ==
  /\ Tick \in Nat /\ Tick > 0
  /\ Wrap \in Nat /\ Lag \in Nat
PeriodAssumption ==
  /\ Period \in [1 .. Timers -> Nat \ {0}]
  /\ \A t \in 1 .. Timers : Period[t] + 2 * Lag * Tick <= Wrap

VARIABLES
  lwipTime,   (* LWipTime                                                  *)
  stamp,      (* TCPTimer, ARPTimer, DHCPfineTimer, DHCPcoarseTimer        *)
  at,         (* the timer the loop is at                                  *)
  due,        (* whether it has passed its test and is not stamped yet     *)
  waited,     (* ticks since the loop last looked at each timer            *)
  age         (* ticks since each timer was stamped, counted up to Wrap    *)

vars == <<lwipTime, stamp, at, due, waited, age>>

All == 1 .. Timers

Init ==
  /\ lwipTime = 0
  /\ stamp = [t \in All |-> 0]
  /\ at = 1 /\ due = FALSE
  /\ waited = [t \in All |-> 0]
  /\ age = [t \in All |-> 0]

(* Arithmetic of u32_t.                                                    *)
Plus(a, b) == IF a + b < Wrap THEN a + b ELSE a + b - Wrap
Minus(a, b) == IF a >= b THEN a - b ELSE a - b + Wrap

(* SysTick_Handler.  The loop is assumed to come round: no timer waits     *)
(* more than Lag ticks for its turn.                                       *)
SysTick ==
  /\ \A t \in All : waited[t] < Lag
  /\ lwipTime' = Plus(lwipTime, Tick)
  /\ waited' = [t \in All |-> waited[t] + 1]
  /\ age' = [t \in All |-> IF age[t] < Wrap THEN age[t] + 1 ELSE age[t]]
  /\ UNCHANGED <<stamp, at, due>>

NextTimer == IF at = Timers THEN 1 ELSE at + 1

(* mutant: the stamp is compared with the clock, without the difference    *)
PeriodOverCompare(t) == lwipTime >= stamp[t] + Period[t]

(* LWipTime - TCPTimer >= 250                                              *)
PeriodOver(t) == Minus(lwipTime, stamp[t]) >= Period[t]

(* The test of the timer the loop is at.                                   *)
Look ==
  /\ ~due
  /\ waited' = [waited EXCEPT ![at] = 0]
  /\ due' = PeriodOver(at)
  /\ at' = IF due' THEN at ELSE NextTimer
  /\ UNCHANGED <<lwipTime, stamp, age>>

(* mutant: the stamp is advanced by the period instead of set to the clock *)
FireOnSchedule ==
  /\ due
  /\ stamp' = [stamp EXCEPT ![at] = Plus(stamp[at], Period[at])]
  /\ age' = [age EXCEPT ![at] = 0]
  /\ due' = FALSE
  /\ at' = NextTimer
  /\ UNCHANGED <<lwipTime, waited>>

(* TCPTimer = LWipTime; tcp_tmr();                                         *)
Fire ==
  /\ due
  /\ stamp' = [stamp EXCEPT ![at] = lwipTime]
  /\ age' = [age EXCEPT ![at] = 0]
  /\ due' = FALSE
  /\ at' = NextTimer
  /\ UNCHANGED <<lwipTime, waited>>

Next == SysTick \/ Look \/ Fire

Spec == Init /\ [][Next]_vars

-----------------------------------------------------------------------------
(* Properties.                                                             *)

(* A timer is not called before its period is over, whatever the clock     *)
(* has wrapped to meanwhile.                                               *)
NotEarly == [][\A t \in All : age'[t] < age[t] => age[t] * Tick >= Period[t]]_vars

(* A timer is called at the first look after its period, at most one turn  *)
(* of the loop and one more before the stamp late: none is skipped when    *)
(* LWipTime wraps around.                                                  *)
NotLate == \A t \in All : age[t] * Tick < Period[t] + 2 * Lag * Tick
=============================================================================

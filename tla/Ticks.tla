------------------------------- MODULE Ticks -------------------------------
(* The simulator keeps every deadline as an absolute tick and compares it  *)
(* with curr_tick(); "never" is InfTime, the largest tick_t.  The modules   *)
(* of this project keep a deadline as the number of ticks still to go: 0    *)
(* means due now (deadline <= curr_tick()), InfTime means never.            *)
EXTENDS Integers

CONSTANT InfTime    \* std::numeric_limits<tick_t>::max()

\* A finite wait must stay distinguishable from "never".
ASSUME InfTimeAssumption == InfTime \in Nat \ {0}

Times == 0..InfTime

\* deadline <= curr_tick()
Due(t) == t = 0

\* The same deadline seen one tick later; an overdue deadline stays due and
\* InfTime stays InfTime.
Elapse(t) == IF t \in {0, InfTime} THEN t ELSE t - 1
=============================================================================

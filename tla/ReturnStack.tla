----------------------------- MODULE ReturnStack -----------------------------
(* The return address stack (class ReturnAddrStack): a ring of depth slots    *)
(* with the index of the top and the number of live entries.  A push onto a   *)
(* full stack overwrites the oldest entry.  A branch unit built with depth 0  *)
(* (the default of --ras-size) has no stack: see mode.ras of BranchUnit.      *)
EXTENDS Integers, Sequences

CONSTANT RasDepth       \* stack_.size() of a stack that is built

ASSUME RasDepthAssumption == RasDepth \in Nat \ {0}

RasInit == [stack |-> [i \in 0..(RasDepth - 1) |-> 0], tos |-> 0, cnt |-> 0]

\* Mutated form: the count is not capped.
PushUncapped(ras, a) ==
    LET t == (ras.tos + 1) % RasDepth
    IN  [stack |-> [ras.stack EXCEPT ![t] = a], tos |-> t, cnt |-> ras.cnt + 1]

push(ras, a) ==
    LET t == (ras.tos + 1) % RasDepth
    IN  [stack |-> [ras.stack EXCEPT ![t] = a], tos |-> t,
         cnt |-> IF ras.cnt < RasDepth THEN ras.cnt + 1 ELSE ras.cnt]

pop(ras) ==
    IF ras.cnt = 0 THEN ras
    ELSE [ras EXCEPT !.tos = IF @ = 0 THEN RasDepth - 1 ELSE @ - 1,
                     !.cnt = @ - 1]

valid(ras) == ras.cnt > 0
top(ras) == IF ras.cnt > 0 THEN ras.stack[ras.tos] ELSE 0

\* The live entries, oldest first.
Live(ras) ==
    [i \in 1..ras.cnt |-> ras.stack[(ras.tos + RasDepth - (ras.cnt - i)) % RasDepth]]
=============================================================================

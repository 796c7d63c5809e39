------------------------------ MODULE StallAttr ------------------------------
(* The core's cycle breakdown: every cycle since the last reset_stats is     *)
(* charged to one of five buckets, lazily, when the cause of the stall        *)
(* changes.  A tick runs handle_lsu_resp, then do_writeback, then the other   *)
(* handlers; reset_stats runs between two ticks.  What the handlers decide    *)
(* (Pipeline) is left open here: any of their calls may happen.              *)
EXTENDS Integers

CONSTANT MaxTick    \* bound on the clock

ASSUME MaxTickAssumption == MaxTick \in Nat

Causes == {"NoInst", "LsuStall", "BrMispred", "RAW"}

VARIABLES
    now,        \* curr_tick()
    last_tick, reset_tick, cause, in_br_recovery,   \* stall_
    bucket,     \* stats: nostall and one counter per cause
    cycles,     \* stats.cycles
    phase,      \* "resp": before do_writeback; "run": after it
    recovering, \* history: an EX flush since the last commit or reset_stats
    committed,  \* history: an instruction committed in this tick
    eager       \* history: the cycles charged one by one, as they end

history == <<recovering, committed, eager>>

vars == <<now, last_tick, reset_tick, cause, in_br_recovery, bucket, cycles,
          phase, history>>

Zero == [b \in Causes \cup {"NoStall"} |-> 0]

Init ==
    /\ now = 0
    /\ last_tick = 0
    /\ reset_tick = 0
    /\ cause = "NoInst"
    /\ in_br_recovery = FALSE
    /\ bucket = Zero
    /\ cycles = 0
    /\ phase = "resp"
    /\ recovering = FALSE
    /\ committed = FALSE
    /\ eager = [b \in Causes |-> 0]

\* The bucket that pays for the cycles since last_tick.
Payer == IF in_br_recovery THEN "BrMispred" ELSE cause

\* flush_stall_cycles(curr_tick()): the buckets afterwards.
Flushed == IF now <= last_tick THEN bucket
           ELSE [bucket EXCEPT ![Payer] = @ + (now - last_tick)]

\* Mutated form: the current cycle counts as charged.
FlushedTickInclusive == IF now <= last_tick THEN last_tick ELSE now + 1

\* flush_stall_cycles(curr_tick()): last_tick afterwards.
FlushedTick == IF now <= last_tick THEN last_tick ELSE now

\* set_stall
set_stall(c) ==
    LET new == IF in_br_recovery THEN "BrMispred" ELSE c
    IN  /\ phase = "resp" => c \in {"LsuStall", "RAW"}
        /\ new # cause
        /\ bucket' = Flushed
        /\ last_tick' = FlushedTick
        /\ cause' = new
        /\ UNCHANGED <<now, reset_tick, in_br_recovery, cycles, phase, history>>

\* The part of do_writeback that accounts for a commit.
Commit ==
    /\ phase = "resp"
    /\ bucket' = [Flushed EXCEPT !["NoStall"] = @ + 1]
    /\ last_tick' = now + 1
    /\ in_br_recovery' = FALSE
    /\ cause' \in {"BrMispred", "LsuStall", "NoInst"}
    /\ cycles' = now - reset_tick
    /\ phase' = "run"
    /\ recovering' = FALSE
    /\ committed' = TRUE
    /\ UNCHANGED <<now, reset_tick, eager>>

NoCommit ==
    /\ phase = "resp"
    /\ phase' = "run"
    /\ UNCHANGED <<now, last_tick, reset_tick, cause, in_br_recovery, bucket,
                   cycles, history>>

\* The flush of a mispredicted branch at Execute, and the fetch of one.
ExFlush ==
    /\ phase = "run"
    /\ bucket' = Flushed
    /\ last_tick' = FlushedTick
    /\ in_br_recovery' = TRUE
    /\ recovering' = TRUE
    /\ UNCHANGED <<now, reset_tick, cause, cycles, phase, committed, eager>>

\* Mutated form: the recovery is taken to end with the next fetch.
FetchEndsRecovery ==
    /\ phase = "run"
    /\ bucket' = Flushed
    /\ last_tick' = FlushedTick
    /\ in_br_recovery' = FALSE
    /\ UNCHANGED <<now, reset_tick, cause, cycles, phase, history>>

FetchMispredicted ==
    /\ phase = "run"
    /\ bucket' = Flushed
    /\ last_tick' = FlushedTick
    /\ UNCHANGED <<now, reset_tick, cause, in_br_recovery, cycles, phase, history>>

\* Who has to pay for a cycle that ends now: the misprediction from the EX flush
\* up to the next commit, else the cause in force.
Owner == IF recovering THEN "BrMispred" ELSE cause

Tick ==
    /\ phase = "run"
    /\ now < MaxTick
    /\ now' = now + 1
    /\ phase' = "resp"
    /\ committed' = FALSE
    /\ eager' = IF committed THEN eager ELSE [eager EXCEPT ![Owner] = @ + 1]
    /\ UNCHANGED <<last_tick, reset_tick, cause, in_br_recovery, bucket, cycles,
                   recovering>>

NewWindow ==
    /\ recovering' = FALSE
    /\ committed' = FALSE
    /\ eager' = [b \in Causes |-> 0]

\* Mutated form: the start of the interval is not moved.
ResetKeepsTick ==
    /\ phase = "run"
    /\ now < MaxTick
    /\ now' = now + 1
    /\ last_tick' = now + 1
    /\ cause' = "NoInst"
    /\ in_br_recovery' = FALSE
    /\ bucket' = Zero
    /\ cycles' = 0
    /\ phase' = "resp"
    /\ NewWindow
    /\ UNCHANGED reset_tick

\* reset_stats, after the clock has moved to the next tick
TickReset ==
    /\ phase = "run"
    /\ now < MaxTick
    /\ now' = now + 1
    /\ last_tick' = now + 1
    /\ reset_tick' = now + 1
    /\ cause' = "NoInst"
    /\ in_br_recovery' = FALSE
    /\ bucket' = Zero
    /\ cycles' = 0
    /\ phase' = "resp"
    /\ NewWindow

Next ==
    \/ \E c \in Causes : set_stall(c)
    \/ Commit \/ NoCommit \/ ExFlush \/ FetchMispredicted \/ Tick \/ TickReset

Spec == Init /\ [][Next]_vars
----------------------------------------------------------------------------
(* Properties. *)

\* The counters are never negative: no charge of flush_stall_cycles is.
TypeOK ==
    /\ now \in Nat /\ last_tick \in Nat /\ reset_tick \in Nat
    /\ cause \in Causes
    /\ in_br_recovery \in BOOLEAN
    /\ bucket \in [Causes \cup {"NoStall"} -> Nat]
    /\ cycles \in Nat
    /\ phase \in {"resp", "run"}
    /\ recovering \in BOOLEAN /\ committed \in BOOLEAN
    /\ eager \in [Causes -> Nat]

Sum == bucket["NoStall"] + bucket["NoInst"] + bucket["LsuStall"]
       + bucket["BrMispred"] + bucket["RAW"]

\* The buckets are exclusive and complete: together they hold every cycle from
\* the reset up to last_tick, none twice, whatever order the handlers run in.
SumIsElapsed == Sum = last_tick - reset_tick

\* The accounting is never more than the committing cycle ahead of the clock,
\* and that one only until the clock has moved.
NeverAhead ==
    /\ reset_tick <= now
    /\ last_tick <= now + 1
    /\ phase = "resp" => last_tick <= now

\* Cycles that have ended and are not charged yet.
Uncharged == IF last_tick < now THEN now - last_tick ELSE 0

\* Charging lazily, when a cause changes, comes to the same as charging every
\* cycle when it ends: a cycle in which nothing commits goes to BrMispred from
\* the EX flush up to the next commit, whatever set_stall, a fetch or another
\* flush does meanwhile ("after EX flush, all non-commit cycles are attributed
\* to BranchMispred until the next commit", flush_stall_cycles), and to the
\* cause in force otherwise.  A reset_stats in between starts a new window and
\* ends the recovery.
ChargedByCycle ==
    \A b \in Causes :
        bucket[b] + (IF b = Owner THEN Uncharged ELSE 0) = eager[b]

\* Stated by the comment on StallCause, "exclusive, sum = cycles": right after
\* a commit the buckets add up to the reported cycles.
SumIsCycles == last_tick = now + 1 => Sum = cycles
=============================================================================

------------------------------- MODULE SimLoop -------------------------------
(* The main loop: in each tick the devices and the core run, one instruction  *)
(* of the trace is fed to the core when it has room, the clock advances, and   *)
(* the marker of that instruction, if any, is acted on.  The core is reduced   *)
(* to what the loop sees of it (input buffer, ongoing instructions, draining)  *)
(* and to its cycle accounting (StallAttr).  The trace is any sequence of      *)
(* instructions with and without markers; reading it may end at any time.      *)
EXTENDS StallAttr

CONSTANTS
    max_insts,      \* --max-insts
    MaxFlight       \* instructions the fetch queue and the stages hold

\* MaxTick is max_ticks here.
ASSUME SimLoopAssumption == max_insts \in Nat /\ MaxFlight \in Nat \ {0}

SysOps == {"SysNone", "SysResetStats", "SysFenceI", "SysDumpStats"}

VARIABLES
    buffered,       \* core: input_buffer_ != nullptr
    ongoing,        \* core: ongoing_insts_
    draining,       \* core: is_draining_
    insts,          \* core: stats.insts
    offered,        \* this tick's inst_avail() has been looked at
    inst_cnt, has_next, stop_after_dump,
    sys_op,         \* inst.sys_op
    total,          \* sanitizer.total
    dump_cnt,
    done,           \* the loop was left
    atReset,        \* history: ongoing when the counters were last reset
    marks, acted    \* history: markers fed, markers acted on

loopVars == <<buffered, ongoing, draining, insts, offered, inst_cnt, has_next,
              stop_after_dump, sys_op, total, dump_cnt, done, atReset,
              marks, acted>>

LoopInit ==
    /\ Init
    /\ buffered = FALSE /\ ongoing = 0 /\ draining = FALSE /\ insts = 0
    /\ offered = FALSE
    /\ inst_cnt = 0 /\ has_next = TRUE /\ stop_after_dump = FALSE
    /\ sys_op \in SysOps      \* inst is not initialized
    /\ total = 0 /\ dump_cnt = 0 /\ done = FALSE
    /\ atReset = 0 /\ marks = 0 /\ acted = 0

----------------------------------------------------------------------------
\* do_update of the core: at most one instruction commits; the other handlers
\* account for stalls, and do_fetch_0 takes the buffered instruction.
LoopCommit ==
    /\ ~done
    /\ Commit
    /\ ongoing > (IF buffered THEN 1 ELSE 0)
    /\ ongoing' = ongoing - 1
    /\ insts' = insts + 1
    /\ UNCHANGED <<buffered, draining, offered, inst_cnt, has_next, stop_after_dump,
                   sys_op, total, dump_cnt, done, atReset, marks, acted>>

LoopAccount ==
    /\ ~done
    /\ \/ \E c \in Causes : set_stall(c)
       \/ NoCommit
       \/ ExFlush
       \/ FetchMispredicted
    /\ UNCHANGED loopVars

TakeBuffered ==
    /\ ~done
    /\ phase = "run" /\ buffered
    /\ ongoing <= MaxFlight
    /\ buffered' = FALSE
    /\ UNCHANGED <<vars, ongoing, draining, insts, offered, inst_cnt, has_next,
                   stop_after_dump, sys_op, total, dump_cnt, done, atReset,
                   marks, acted>>

inst_avail == ~buffered /\ ~draining

\* Mutated form: the loop goes on feeding after a dump.
MayReadAfterDump == has_next /\ inst_cnt < max_insts

\* The conditions under which the loop reads the trace.
MayRead == ~stop_after_dump /\ has_next /\ inst_cnt < max_insts

\* reader.next, feed_inst and the two sanitizers' record.
FeedInst(op) ==
    /\ ~done
    /\ phase = "run" /\ ~offered
    /\ inst_avail /\ MayRead
    /\ offered' = TRUE
    /\ buffered' = TRUE
    /\ ongoing' = ongoing + 1
    /\ inst_cnt' = inst_cnt + 1
    /\ total' = total + 1
    /\ sys_op' = op
    /\ marks' = marks + (IF op = "SysNone" THEN 0 ELSE 1)
    /\ UNCHANGED <<vars, draining, insts, has_next, stop_after_dump, dump_cnt,
                   done, atReset, acted>>

\* The trace has ended, or the loop no longer reads it: set_draining.
StartDraining ==
    /\ ~done
    /\ phase = "run" /\ ~offered
    /\ inst_avail
    /\ offered' = TRUE
    /\ draining' = TRUE
    /\ has_next' = (has_next /\ ~MayRead)
    /\ UNCHANGED <<vars, buffered, ongoing, insts, inst_cnt, stop_after_dump, sys_op,
                   total, dump_cnt, done, atReset, marks, acted>>

\* Mutated form: the operation stays in inst for the next tick.
ActedKeepsOp(op) == sys_op' = op

\* inst.sys_op = SysOp::SysNone
Consumed(op) == sys_op' = "SysNone"

\* Mutated form: the sanitizer is not reset with the other counters.
ResetForgetsSanitizer ==
    TickReset /\ insts' = 0 /\ atReset' = ongoing /\ UNCHANGED total

\* The clock has moved; reset_stats of every object, and sanitizer.reset.
ResetWindow == TickReset /\ total' = 0 /\ insts' = 0 /\ atReset' = ongoing

\* The end of a tick: set_global_tick, then the marker, then the loop condition.
\* What SysFenceI does to the caches is TickFenceI of PipeCache.
LoopTick(op) ==
    /\ ~done
    /\ sys_op = op
    /\ offered \/ ~inst_avail
    /\ offered' = FALSE
    /\ IF op = "SysResetStats" THEN ResetWindow
                               ELSE Tick /\ UNCHANGED <<total, insts, atReset>>
    /\ dump_cnt' = dump_cnt + (IF op = "SysDumpStats" THEN 1 ELSE 0)
    /\ stop_after_dump' = (stop_after_dump \/ op = "SysDumpStats")
    /\ acted' = acted + (IF op = "SysNone" THEN 0 ELSE 1)
    /\ Consumed(op)
    /\ done' = (ongoing = 0 \/ now + 1 >= MaxTick)
    /\ UNCHANGED <<buffered, ongoing, draining, inst_cnt, has_next, marks>>

\* The loop was left; the final statistics are appended.
Finished == done /\ UNCHANGED <<vars, loopVars>>

LoopNext ==
    \/ LoopCommit \/ LoopAccount \/ TakeBuffered \/ StartDraining
    \/ \E op \in SysOps : FeedInst(op) \/ LoopTick(op)
    \/ Finished

LoopSpec == LoopInit /\ [][LoopNext]_<<vars, loopVars>>
----------------------------------------------------------------------------
(* Properties. *)

\* The counters of a measurement window agree across the core and the sanitizer:
\* what was committed since the reset plus what is in flight is what was fed
\* since then plus what was in flight at the reset, and every commit since the
\* reset has exactly one cycle without stall.
WindowConserved ==
    /\ insts + ongoing = total + atReset
    /\ bucket["NoStall"] = insts

\* Every marker of the trace is acted on exactly once, in the tick its
\* instruction is fed, although inst outlives the tick and is read again when
\* the core has no room.  (With an empty trace the uninitialized inst is looked at.)
MarkersOnce ==
    inst_cnt > 0 => acted + (IF sys_op = "SysNone" THEN 0 ELSE 1) = marks

\* The loop is left only with an empty core and nothing left that it may feed,
\* or at max_ticks; after a dump it feeds nothing more.
DoneMeansDrained ==
    /\ done => now = MaxTick \/ (ongoing = 0 /\ draining /\ ~MayRead)
    /\ dump_cnt <= 1
    /\ stop_after_dump <=> dump_cnt = 1
=============================================================================

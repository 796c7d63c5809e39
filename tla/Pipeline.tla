------------------------------ MODULE Pipeline ------------------------------
(* The in-order core (class Pipeline) with the main loop's feeding of trace  *)
(* instructions.  One tick: the data port and the instruction port call back *)
(* (responses, then availability); if next_update() is due, update_impl runs *)
(* the stage handlers from WriteBack down to Fetch, then do_fetch_0, then    *)
(* calc_sched; then the main loop feeds an instruction or starts draining.   *)
(* The variable phase is the handler that runs next.                         *)
(*                                                                           *)
(* PCs, addresses and stall accounting do not steer the handlers and are left *)
(* out; a branch's outcome and prediction are chosen when it is fetched.      *)
EXTENDS Ticks, Sequences, FiniteSetsExt, Functions

CONSTANTS
    MaxInsts,       \* --max-insts: how many instructions are fed at most
    InstSet,        \* the trace's instructions: [kind, src, dst] records
    Regs,           \* the registers used, 0 included
    IfqSize,        \* capacity of fetch_queue_
    MulLat, DivLat, \* latencies of the M extension (4 and 34 in the code)
    NoBpu, Tage,    \* the predictor is "NoBPU"; it may override like TAGE
    DLats,          \* data-port latencies
    MaxIStall,      \* ticks in a row in which the instruction port and
    MaxDStall       \* the data port make no progress

kBranchMissPenalty == 1
Kinds  == {"ALU", "BR", "LOAD", "STORE", "MUL", "DIV"}
Slots  == {"Fetch", "Decode", "Execute", "Mul", "Div", "Memory"}
Stages == Slots \cup {"WriteBack"}
Ids    == 0..MaxInsts       \* 0: a wrong-path placeholder

ASSUME InstAssumption ==
    /\ InstSet \subseteq [kind : Kinds, src : SUBSET (Regs \ {0}), dst : Regs]
    /\ \A i \in InstSet : i.kind = "STORE" => i.dst = 0
ASSUME PipelineSizes ==
    /\ {MaxInsts, IfqSize} \subseteq Nat \ {0}
    /\ 0 \in Regs
    /\ {MulLat, DivLat} \subseteq 1..(InfTime - 1)
    /\ DLats \subseteq 1..(InfTime - 1)
    /\ {NoBpu, Tage} \subseteq BOOLEAN
    /\ {MaxIStall, MaxDStall} \subseteq Nat
    /\ InfTime > 2

VARIABLES
    slot,       \* sim_pipe_
    due,        \* stage_update_
    ifq,        \* fetch_queue_, as the sequence of its entries
    fs,         \* fetch_: wrong_path, wp_flushed, resume_tick, early_redir_
                \* remaining, resp_is_orphan
    reg_ready,  \* reg_ready_
    mext,       \* mul_ready_tick_ and div_ready_tick_
    calc,       \* calc_nxtupd_
    input,      \* input_buffer_
    ongoing,    \* ongoing_insts_
    loop,       \* main loop: instructions fed, whether it drains
    ip,         \* instruction port: requests in flight, ready, idle ticks
    dp,         \* data port: ticks to the response, ready, idle ticks
    done,       \* history: ids committed, in order
    phase

core == <<slot, due, ifq, fs, reg_ready, mext, calc, input, ongoing, done>>
vars == <<core, loop, ip, dp, phase>>

None == [id |-> -1]
NoInst == [kind |-> "ALU", src |-> {}, dst |-> 0]
Trans(i, inst, wp) ==
    [id |-> i, kind |-> inst.kind, src |-> inst.src, dst |-> inst.dst,
     wp |-> wp, wait |-> wp, hold |-> 0, mis |-> FALSE]
IsMext(t) == t.kind \in {"MUL", "DIV"}
IsMem(t)  == t.kind \in {"LOAD", "STORE"}
MinOf(a, b) == IF a < b THEN a ELSE b
MaxOf(a, b) == IF a > b THEN a ELSE b

\* calc_nxtupd_ has no initializer.
Init ==
    /\ slot = [s \in Slots |-> None]
    /\ due = [s \in Stages |-> 0]
    /\ ifq = <<>>
    /\ fs = [wrong_path |-> FALSE, wp_flushed |-> FALSE, resume |-> 0,
             early |-> 0, orphan |-> <<>>]
    /\ reg_ready = [r \in Regs |-> 0]
    /\ mext = [mul |-> 0, div |-> 0]
    /\ calc \in {0, InfTime}
    /\ input = None
    /\ ongoing = 0
    /\ loop = [fed |-> 0, draining |-> FALSE]
    /\ ip = [n |-> 0, ready |-> TRUE, idle |-> 0]
    /\ dp = [left |-> InfTime, ready |-> TRUE, idle |-> 0]
    /\ done = <<>>
    /\ phase = "dport"

----------------------------------------------------------------------------
(* Shared helpers. *)

\* When all sources are ready, for the scoreboard rr.
SrcReady(t, rr) == Max({rr[r] : r \in t.src \cup {0}})

\* update_reg_time, first half: the destination's time.
RegTime(rd, when) == IF rd = 0 THEN reg_ready
                     ELSE [reg_ready EXCEPT ![rd] = when]

\* Mutated form: a decode blocked without a deadline is never retried.
DecodeNotRetried(t, rr) == due["Decode"]

\* update_reg_time, second half: a decode that was blocked without a deadline
\* is retried; t is the instruction in the Fetch slot.
DecodeRetry(t, rr) ==
    IF t # None /\ due["Decode"] = InfTime /\ t.src # {}
    THEN MaxOf(1, SrcReady(t, rr))
    ELSE due["Decode"]

----------------------------------------------------------------------------
(* Callbacks from the data port. *)

\* handle_lsu_resp
DportResp ==
    LET t  == slot["Execute"]
        rr == IF t.kind = "LOAD" THEN RegTime(t.dst, 2) ELSE reg_ready
    IN  /\ phase = "dport"
        /\ Due(dp.left)
        /\ reg_ready' = rr
        /\ due' = [due EXCEPT
                      !["Decode"] = IF t.kind = "LOAD"
                                    THEN DecodeRetry(slot["Fetch"], rr) ELSE @,
                      !["Memory"] = 1]
        /\ slot' = [slot EXCEPT !["Memory"] = [t EXCEPT !.wait = FALSE],
                                !["Execute"] = None]
        /\ calc' = MinOf(calc, 1)
        /\ dp' = [dp EXCEPT !.left = InfTime]
        /\ phase' = "dack"
        /\ UNCHANGED <<ifq, fs, mext, input, ongoing, loop, ip, done>>

DportQuiet ==
    /\ phase = "dport"
    /\ ~Due(dp.left)
    /\ phase' = "dack"
    /\ UNCHANGED <<core, loop, ip, dp>>

\* ack_mem_avail from the data side: the port opens.
DportAck ==
    /\ phase = "dack"
    /\ dp' = [dp EXCEPT !.ready = TRUE, !.idle = 0]
    /\ IF slot["Execute"] # None /\ ~slot["Execute"].wait
          /\ IsMem(slot["Execute"])
       THEN due' = [due EXCEPT !["Memory"] = 0] /\ calc' = 0
       ELSE UNCHANGED <<due, calc>>
    /\ phase' = "iport"
    /\ UNCHANGED <<slot, ifq, fs, reg_ready, mext, input, ongoing, loop, ip, done>>

\* The port stays closed, for example while a fence.i flush is pending.
DportBusy ==
    /\ phase = "dack"
    /\ dp.left # InfTime \/ dp.idle < MaxDStall
    /\ dp' = [dp EXCEPT !.ready = FALSE,
                        !.idle = IF dp.left # InfTime THEN @ ELSE @ + 1]
    /\ phase' = "iport"
    /\ UNCHANGED <<core, loop, ip>>

----------------------------------------------------------------------------
(* Callbacks from the instruction port: a two-stage cache that answers in    *)
(* order, at most one response per tick.                                     *)

\* handle_ifu_resp
IportResp ==
    LET waiting == {i \in DOMAIN ifq : ifq[i].wait}
        first   == CHOOSE i \in waiting : \A j \in waiting : i <= j
    IN  /\ phase = "iport"
        /\ ip.n > 0
        /\ fs' = [fs EXCEPT !.orphan = Tail(@)]
        /\ IF Head(fs.orphan) THEN UNCHANGED <<ifq, due, calc>>
           ELSE /\ ifq' = [ifq EXCEPT ![first].wait = FALSE]
                /\ due' = [due EXCEPT !["Fetch"] = 1]
                /\ calc' = MinOf(calc, 1)
        /\ ip' = [ip EXCEPT !.n = @ - 1, !.idle = 0]
        /\ phase' = "iack"
        /\ UNCHANGED <<slot, reg_ready, mext, input, ongoing, loop, dp, done>>

IportQuiet ==
    /\ phase = "iport"
    /\ ip.n > 0 => ip.idle < MaxIStall
    /\ ip' = [ip EXCEPT !.idle = IF ip.n > 0 THEN @ + 1 ELSE @]
    /\ phase' = "iack"
    /\ UNCHANGED <<core, loop, dp>>

\* ack_mem_avail from the iCache.
IportAck ==
    /\ phase = "iack"
    /\ ip.n <= 1
    /\ ip' = [ip EXCEPT !.ready = TRUE, !.idle = IF ip.n > 0 THEN @ ELSE 0]
    /\ due' = [due EXCEPT !["Fetch"] = 0]
    /\ calc' = 0
    /\ phase' = "begin"
    /\ UNCHANGED <<slot, ifq, fs, reg_ready, mext, input, ongoing, loop, dp, done>>

\* The front stage stays taken (a miss holds the pipe), or an empty cache is
\* silent for a tick after a flush.
IportBusy ==
    /\ phase = "iack"
    /\ ip.n = 0 => ip.idle < MaxIStall
    /\ ip' = [ip EXCEPT !.idle = IF ip.n > 0 THEN @ ELSE @ + 1]
    /\ phase' = "begin"
    /\ UNCHANGED <<core, loop, dp>>

----------------------------------------------------------------------------
(* update_impl: the stages in reverse order, each guarded alike. *)

StageBelow == [WriteBack |-> "Memory", Memory |-> "Div", Div |-> "Mul",
               Mul |-> "Execute", Execute |-> "Decode", Decode |-> "Fetch",
               Fetch |-> "fetch0"]

\* do_update: update_impl runs when next_update() <= curr_tick().
Begin ==
    /\ phase = "begin"
    /\ phase' = IF Due(calc) THEN "WriteBack" ELSE "feed"
    /\ UNCHANGED <<core, loop, ip, dp>>

prev_stage_valid(s) ==
    CASE s = "Fetch"     -> TRUE
      [] s = "Decode"    -> slot["Fetch"] # None
      [] s \in {"Execute", "Mul", "Div"} -> slot["Decode"] # None
      [] s = "Memory"    -> slot["Execute"] # None
      [] s = "WriteBack" -> \/ slot["Memory"] # None
                            \/ slot["Mul"] # None /\ Due(mext.mul)
                            \/ slot["Div"] # None /\ Due(mext.div)

Runs(s) ==
    /\ s \in Slots => slot[s] = None
    /\ prev_stage_valid(s)
    /\ Due(due[s])

Skip(s) ==
    /\ phase = s
    /\ ~Runs(s)
    /\ phase' = StageBelow[s]
    /\ UNCHANGED <<core, loop, ip, dp>>

\* What every stage handler leaves alone.
Handler(s) ==
    /\ phase = s
    /\ Runs(s)
    /\ phase' = StageBelow[s]
    /\ UNCHANGED <<input, loop, ip>>

\* Mutated form: a finished MUL or DIV does not wait for the EXU path.
WbSourceIgnoresExu ==
    IF slot["Memory"] # None THEN "Memory"
    ELSE IF slot["Div"] # None /\ Due(mext.div) THEN "Div"
    ELSE IF slot["Mul"] # None /\ Due(mext.mul) THEN "Mul"
    ELSE "none"

\* The slot do_writeback commits from.
WbSource ==
    LET pending_alu == slot["Execute"] # None
    IN  IF slot["Memory"] # None THEN "Memory"
        ELSE IF ~pending_alu /\ slot["Div"] # None /\ Due(mext.div) THEN "Div"
        ELSE IF ~pending_alu /\ slot["Mul"] # None /\ Due(mext.mul) THEN "Mul"
        ELSE "none"

do_writeback ==
    /\ Handler("WriteBack")
    /\ IF WbSource = "none"
       THEN LET d == IF slot["Div"] # None THEN mext.div ELSE InfTime
                m == IF slot["Mul"] # None THEN mext.mul ELSE InfTime
            IN  /\ due' = [due EXCEPT !["WriteBack"] = MaxOf(1, MinOf(d, m))]
                /\ UNCHANGED <<slot, ongoing, done>>
       ELSE /\ ongoing' = ongoing - 1
            /\ done' = Append(done, slot[WbSource].id)
            /\ slot' = [slot EXCEPT ![WbSource] = None]
            /\ due' = [due EXCEPT !["WriteBack"] = 1]
    /\ UNCHANGED <<ifq, fs, reg_ready, mext, calc, dp>>

\* Mutated form: the sender does not wait for its response.
SendLsuReqPosted ==
    \E lat \in DLats : dp' = [dp EXCEPT !.left = lat] /\ UNCHANGED slot

\* send_lsu_req to a port that is ready
send_lsu_req ==
    /\ \E lat \in DLats : dp' = [dp EXCEPT !.left = lat]
    /\ slot' = [slot EXCEPT !["Execute"].wait = TRUE]

do_memory ==
    LET t == slot["Execute"]
    IN  /\ Handler("Memory")
        /\ \/ /\ t.wait
              /\ due' = [due EXCEPT !["Memory"] = InfTime]
              /\ UNCHANGED <<slot, dp>>
           \/ /\ ~t.wait /\ IsMem(t) /\ ~dp.ready
              /\ due' = [due EXCEPT !["Memory"] = InfTime]
              /\ UNCHANGED <<slot, dp>>
           \/ /\ ~t.wait /\ IsMem(t) /\ dp.ready
              /\ due' = [due EXCEPT !["Memory"] = InfTime]
              /\ send_lsu_req
           \/ /\ ~t.wait /\ ~IsMem(t)
              /\ due' = [due EXCEPT !["Memory"] = 1]
              /\ slot' = [slot EXCEPT !["Memory"] = t, !["Execute"] = None]
              /\ UNCHANGED dp
        /\ UNCHANGED <<ifq, fs, reg_ready, mext, calc, ongoing, done>>

\* do_mul_ext and do_div_ext: the unit u takes an instruction of its kind and
\* reserves the write-back stage for its completion.
DoMext(u, kind, lat, ready) ==
    LET t == slot["Decode"]
        rr == RegTime(t.dst, lat)
    IN  /\ Handler(u)
        /\ IF t.kind # kind THEN UNCHANGED <<slot, due, reg_ready, mext, calc>>
           ELSE /\ mext' = [mext EXCEPT ![ready] = lat]
                /\ reg_ready' = rr
                /\ due' = [due EXCEPT
                              !["Decode"] = DecodeRetry(slot["Fetch"], rr),
                              ![u] = lat, !["WriteBack"] = lat]
                /\ calc' = MinOf(calc, lat)
                /\ slot' = [slot EXCEPT ![u] = t, !["Decode"] = None]
        /\ UNCHANGED <<ifq, fs, ongoing, dp, done>>

do_mul_ext == DoMext("Mul", "MUL", MulLat, "mul")
do_div_ext == DoMext("Div", "DIV", DivLat, "div")

\* Mutated form: the flush leaves pending responses to their queue entries.
FlushedKeepsOwners == [fs EXCEPT !.wp_flushed = TRUE, !.early = 0,
                                 !.resume = kBranchMissPenalty]

\* The flush of a mispredicted branch: pending responses become orphans, the
\* queue and the Fetch slot are emptied, instructions counted as in flight
\* among them are un-counted.
FlushedFetch == [fs EXCEPT !.orphan = [i \in DOMAIN @ |-> TRUE],
                           !.wp_flushed = TRUE, !.early = 0,
                           !.resume = kBranchMissPenalty]
FlushedInsts == Cardinality({i \in DOMAIN ifq : ~ifq[i].wp})
                + (IF slot["Fetch"] # None /\ ~slot["Fetch"].wp THEN 1 ELSE 0)

\* do_execute
do_execute ==
    LET t == slot["Decode"]
        flush == t.kind = "BR" /\ t.mis
        fetched == IF flush THEN None ELSE slot["Fetch"]
        rr == RegTime(t.dst, IF t.kind = "BR" /\ t.dst # 0 THEN 2 ELSE 0)
    IN  /\ Handler("Execute")
        /\ IF IsMext(t)
           THEN UNCHANGED <<slot, due, ifq, fs, reg_ready, ongoing>>
           ELSE /\ ifq' = IF flush THEN <<>> ELSE ifq
                /\ fs' = IF flush THEN FlushedFetch ELSE fs
                /\ ongoing' = IF flush THEN ongoing - FlushedInsts ELSE ongoing
                /\ reg_ready' = IF IsMem(t) THEN reg_ready ELSE rr
                /\ due' = [due EXCEPT
                              !["Decode"] = IF IsMem(t) THEN @
                                            ELSE DecodeRetry(fetched, rr),
                              !["Execute"] = 1]
                /\ slot' = [slot EXCEPT !["Execute"] = t, !["Decode"] = None,
                                        !["Fetch"] = fetched]
        /\ UNCHANGED <<mext, calc, dp, done>>

\* An in-flight MUL or DIV writes the same register.
WawHazard(t) ==
    /\ t.dst # 0
    /\ \E u \in {"Mul", "Div"} : slot[u] # None /\ slot[u].dst = t.dst

finish_time(ready) == MaxOf(0, ready) + 1

\* do_decode: the reasons not to pass, in the order of the code.
do_decode ==
    LET t == slot["Fetch"]
        ready == SrcReady(t, reg_ready)
        d == IF slot["Div"] # None THEN mext.div ELSE InfTime
        m == IF slot["Mul"] # None THEN mext.mul ELSE InfTime
        retry ==
            IF IsMext(t) /\ (slot["Mul"] # None \/ slot["Div"] # None)
            THEN MaxOf(1, MinOf(d, m))
            ELSE IF ready > 0 THEN ready
            ELSE IF WawHazard(t) THEN MaxOf(1, reg_ready[t.dst])
            ELSE 0
    IN  /\ Handler("Decode")
        /\ IF t.wp
           THEN /\ slot' = [slot EXCEPT !["Fetch"] = None]
                /\ due' = [due EXCEPT !["Decode"] = 1]
                /\ UNCHANGED reg_ready
           ELSE IF retry > 0
           THEN /\ due' = [due EXCEPT !["Decode"] = retry]
                /\ UNCHANGED <<slot, reg_ready>>
           ELSE /\ due' = [due EXCEPT !["Decode"] = finish_time(ready)]
                /\ reg_ready' = RegTime(t.dst, InfTime)
                /\ slot' = [slot EXCEPT !["Decode"] = t, !["Fetch"] = None]
        /\ UNCHANGED <<ifq, fs, mext, calc, ongoing, dp, done>>

\* do_fetch_1
do_fetch_1 ==
    /\ Handler("Fetch")
    /\ IF ifq = <<>> \/ Head(ifq).wait
       THEN due' = [due EXCEPT !["Fetch"] = InfTime] /\ UNCHANGED <<slot, ifq>>
       ELSE IF Head(ifq).hold > 0
       THEN /\ ifq' = [ifq EXCEPT ![1].hold = @ - 1]
            /\ due' = [due EXCEPT !["Fetch"] = 1]
            /\ UNCHANGED slot
       ELSE /\ slot' = [slot EXCEPT !["Fetch"] = Head(ifq)]
            /\ ifq' = Tail(ifq)
            /\ UNCHANGED due
    /\ UNCHANGED <<fs, reg_ready, mext, calc, ongoing, dp, done>>

----------------------------------------------------------------------------
(* do_fetch_0: at the end of update_impl and again from feed_inst. *)

AfterFetch0 == [fetch0 |-> "sched", fed |-> "tick"]

ReadReq == ip' = [ip EXCEPT !.n = @ + 1, !.ready = FALSE]

Fetch0Frame ==
    /\ phase \in {"fetch0", "fed"}
    /\ phase' = AfterFetch0[phase]
    /\ UNCHANGED <<slot, due, reg_ready, mext, calc, ongoing, loop, dp, done>>

MayFetch == fs.resume = 0 /\ ip.ready
Full == Len(ifq) >= IfqSize

\* Mutated forms: the wrong path is not recognised; its end is not recorded.
WrongPathNever == FALSE
ResumedKeepsFlushed ==
    IF fs.wrong_path THEN [fs EXCEPT !.wrong_path = FALSE] ELSE fs

\* The wrong path ends at the first fetch after the flush.
WrongPath == fs.wrong_path /\ ~fs.wp_flushed
Resumed == IF fs.wrong_path
           THEN [fs EXCEPT !.wrong_path = FALSE, !.wp_flushed = FALSE] ELSE fs

\* Mutated form: the two fetches are not counted down.
FetchEarlyUncounted ==
    /\ Fetch0Frame
    /\ MayFetch
    /\ fs.early > 0
    /\ fs' = [fs EXCEPT !.orphan = Append(@, TRUE)]
    /\ ReadReq
    /\ UNCHANGED <<ifq, input>>

\* Two sequential fetches after a correctly predicted taken branch.
FetchEarlyRedirect ==
    /\ Fetch0Frame
    /\ MayFetch
    /\ fs.early > 0
    /\ fs' = [fs EXCEPT !.orphan = Append(@, TRUE), !.early = @ - 1]
    /\ ReadReq
    /\ UNCHANGED <<ifq, input>>

FetchWrongPath ==
    /\ Fetch0Frame
    /\ MayFetch
    /\ fs.early = 0
    /\ WrongPath
    /\ ~Full
    /\ ifq' = Append(ifq, Trans(0, NoInst, TRUE))
    /\ fs' = [fs EXCEPT !.orphan = Append(@, FALSE)]
    /\ ReadReq
    /\ UNCHANGED input

\* The outcome and prediction of a fetched instruction, as judge() sees them.
Predictions(t) ==
    IF t.kind # "BR"
    THEN {[taken |-> FALSE, redirect |-> FALSE, good |-> TRUE, tage |-> FALSE]}
    ELSE {p \in [taken : BOOLEAN, redirect : BOOLEAN, good : BOOLEAN,
                 tage : {FALSE, Tage}] :
             /\ p.taken # p.redirect => ~p.good
             /\ NoBpu => ~p.redirect /\ ~p.tage
             /\ ~p.taken /\ ~p.redirect => p.good}

FetchReal ==
    /\ Fetch0Frame
    /\ MayFetch
    /\ fs.early = 0
    /\ ~WrongPath
    /\ ~Full
    /\ input # None
    /\ \E p \in Predictions(input) :
          /\ ifq' = Append(ifq, [input EXCEPT
                        !.wait = TRUE, !.mis = ~p.good,
                        !.hold = IF NoBpu /\ p.taken THEN 2 ELSE 0])
          /\ fs' = [Resumed EXCEPT
                       !.wrong_path = ~p.good,
                       !.orphan = Append(@, FALSE),
                       !.resume = IF p.tage THEN 2 ELSE @,
                       !.early = IF p.good /\ p.redirect THEN 2 ELSE @]
    /\ input' = None
    /\ ReadReq

FetchNothing ==
    /\ Fetch0Frame
    /\ \/ /\ ~MayFetch \/ (fs.early = 0 /\ WrongPath /\ Full)
          /\ UNCHANGED fs
       \/ /\ MayFetch
          /\ fs.early = 0
          /\ ~WrongPath
          /\ Full \/ input = None
          /\ fs' = Resumed
    /\ UNCHANGED <<ifq, input, ip>>

do_fetch_0 == FetchEarlyRedirect \/ FetchWrongPath \/ FetchReal \/ FetchNothing

\* Mutated form: off by one, a deadline in the next tick is not seen.
FutureFromTwo == {due[s] : s \in Stages} \ {0, 1}

FutureDeadlines == {due[s] : s \in Stages} \ {0}

\* calc_sched: the earliest future deadline; every tick while the front end
\* has work that no callback announces.
calc_sched ==
    LET busy == fs.wrong_path \/ fs.early > 0 \/ fs.resume > 0
    IN  /\ phase = "sched"
        /\ calc' = Min({InfTime} \cup FutureDeadlines \cup (IF busy THEN {1} ELSE {}))
        /\ phase' = "feed"
        /\ UNCHANGED <<slot, due, ifq, fs, reg_ready, mext, input, ongoing,
                       loop, ip, dp, done>>

----------------------------------------------------------------------------
(* The main loop's part of the tick. *)

inst_avail == input = None /\ ~loop.draining

\* feed_inst: do_fetch_0 follows at once.
feed_inst ==
    /\ phase = "feed"
    /\ inst_avail
    /\ loop.fed < MaxInsts
    /\ \E i \in InstSet : input' = Trans(loop.fed + 1, i, FALSE)
    /\ ongoing' = ongoing + 1
    /\ loop' = [loop EXCEPT !.fed = @ + 1]
    /\ phase' = "fed"
    /\ UNCHANGED <<slot, due, ifq, fs, reg_ready, mext, calc, ip, dp, done>>

\* The end of the trace may come before max_insts.
set_draining ==
    /\ phase = "feed"
    /\ inst_avail
    /\ loop' = [loop EXCEPT !.draining = TRUE]
    /\ phase' = "tick"
    /\ UNCHANGED <<core, ip, dp>>

NoFeed ==
    /\ phase = "feed"
    /\ ~inst_avail
    /\ phase' = "tick"
    /\ UNCHANGED <<core, loop, ip, dp>>

is_finished == ongoing = 0

Tick ==
    /\ phase = "tick"
    /\ due' = [s \in Stages |-> Elapse(due[s])]
    /\ reg_ready' = [r \in Regs |-> Elapse(reg_ready[r])]
    /\ mext' = [u \in DOMAIN mext |-> Elapse(mext[u])]
    /\ calc' = Elapse(calc)
    /\ fs' = [fs EXCEPT !.resume = Elapse(@)]
    /\ dp' = [dp EXCEPT !.left = Elapse(@)]
    /\ phase' = IF is_finished THEN "finished" ELSE "dport"
    /\ UNCHANGED <<slot, ifq, input, ongoing, loop, ip, done>>

\* The loop has ended.
Finished == phase = "finished" /\ UNCHANGED vars

Dport == DportResp \/ DportQuiet \/ DportAck \/ DportBusy
Iport == IportResp \/ IportQuiet \/ IportAck \/ IportBusy
Handlers == do_writeback \/ do_memory \/ do_div_ext \/ do_mul_ext
            \/ do_execute \/ do_decode \/ do_fetch_1
            \/ \E s \in Stages : Skip(s)

Next ==
    \/ Dport \/ Iport \/ Begin \/ Handlers \/ do_fetch_0 \/ calc_sched
    \/ feed_inst \/ set_draining \/ NoFeed \/ Tick \/ Finished

\* The loop never stops before it has ended.
Spec == Init /\ [][Next]_vars /\ WF_vars(Next)

----------------------------------------------------------------------------
(* Properties. *)

TransType ==
    [id : Ids, kind : Kinds, src : SUBSET Regs, dst : Regs,
     wp : BOOLEAN, wait : BOOLEAN, hold : 0..2, mis : BOOLEAN]

FetchStates == [wrong_path : BOOLEAN, wp_flushed : BOOLEAN, resume : 0..2,
                early : 0..2, orphan : Seq(BOOLEAN)]
Loops  == [fed : 0..MaxInsts, draining : BOOLEAN]
Iports == [n : 0..2, ready : BOOLEAN, idle : 0..MaxIStall]
Dports == [left : Times, ready : BOOLEAN, idle : 0..MaxDStall]
Phases == {"dport", "dack", "iport", "iack", "begin", "fetch0", "sched", "feed",
           "fed", "tick", "finished"} \cup Stages

\* Every variable keeps its type; the queue never exceeds its capacity
\* (assert in IFQRingBuf::push_back).
TypeOK ==
    /\ slot \in [Slots -> TransType \cup {None}]
    /\ due \in [Stages -> Times]
    /\ ifq \in Seq(TransType) /\ Len(ifq) <= IfqSize
    /\ fs \in FetchStates
    /\ reg_ready \in [Regs -> Times] /\ reg_ready[0] = 0
    /\ mext \in [{"mul", "div"} -> Times]
    /\ calc \in Times
    /\ input \in TransType \cup {None}
    /\ ongoing \in 0..MaxInsts
    /\ loop \in Loops
    /\ ip \in Iports
    /\ dp \in Dports
    /\ done \in Seq(Ids)
    /\ phase \in Phases

Occupied == {s \in Slots : slot[s] # None}

\* The trace instructions in the core, by place.
InFlightSlots == {s \in Occupied : ~slot[s].wp}
InFlightIfq   == {i \in DOMAIN ifq : ~ifq[i].wp}
InFlightIds   == {slot[s].id : s \in InFlightSlots}
                 \cup {ifq[i].id : i \in InFlightIfq}
                 \cup (IF input = None THEN {} ELSE {input.id})

\* ongoing_insts_ is the number of trace instructions in the core, and every
\* instruction fed is either in exactly one place of it or committed exactly
\* once: no flush, stall or hand-over loses or duplicates one.
NoInstLost ==
    /\ ongoing = Cardinality(InFlightSlots) + Cardinality(InFlightIfq)
                 + (IF input = None THEN 0 ELSE 1)
    /\ InFlightIds \cup Range(done) = 1..loop.fed
    /\ ongoing + Len(done) = loop.fed

\* The FIFO resp_is_orphan has one entry per fetch in flight, and one that is
\* not an orphan per queue entry that waits: the two asserts of
\* handle_ifu_resp never fail, whatever was flushed meanwhile.  The queue
\* never exceeds its capacity (assert in IFQRingBuf::push_back).
FetchFifoAligned ==
    /\ Len(ifq) <= IfqSize
    /\ Len(fs.orphan) = ip.n
    /\ Cardinality({i \in DOMAIN fs.orphan : ~fs.orphan[i]})
       = Cardinality({i \in DOMAIN ifq : ifq[i].wait})

\* What the front end holds, oldest first.
Held(t) == IF t = None THEN <<>> ELSE <<t>>
FrontEnd == Held(slot["Decode"]) \o Held(slot["Fetch"]) \o ifq

\* The core fetches the wrong path exactly while one mispredicted branch is
\* unresolved, and exactly what is younger than that branch is a placeholder:
\* the flush at Execute discards no trace instruction.
WrongPathShape ==
    LET mis == {i \in DOMAIN FrontEnd : FrontEnd[i].mis}
    IN  /\ WrongPath <=> mis # {}
        /\ \A i \in DOMAIN FrontEnd :
              FrontEnd[i].wp <=> \E j \in mis : j < i
        /\ Cardinality(mis) <= 1

\* While a data request is in flight the Execute slot holds the instruction
\* that sent it and the Memory slot is free: the asserts of handle_lsu_resp.
LsuRespSafe ==
    /\ dp.left # InfTime => /\ slot["Execute"] # None
                            /\ slot["Execute"].wait
                            /\ IsMem(slot["Execute"])
                            /\ slot["Memory"] = None
    /\ slot["Execute"] # None /\ slot["Execute"].wait => dp.left # InfTime

\* At the end of a tick, a stage past Decode that can run next tick is not
\* slept over: next_update() is the next tick.
NoStageSleeps ==
    phase = "tick" =>
        \A s \in {"WriteBack", "Memory", "Mul", "Div", "Execute"} :
            /\ s \in Slots => slot[s] = None
            /\ CASE s = "WriteBack" -> slot["Memory"] # None
                 [] s = "Memory" -> /\ slot["Execute"] # None
                                    /\ ~IsMem(slot["Execute"])
                 [] s = "Mul" -> slot["Decode"] # None
                                 /\ slot["Decode"].kind = "MUL"
                 [] s = "Div" -> slot["Decode"] # None
                                 /\ slot["Decode"].kind = "DIV"
                 [] s = "Execute" -> slot["Decode"] # None
                                     /\ ~IsMext(slot["Decode"])
            /\ due[s] <= 1
            => calc <= 1

\* A handler that takes the instruction out of the Decode slot finds
\* stage_update_[Decode] due (the asserts of do_execute, do_mul_ext and
\* do_div_ext).
DecodeDue ==
    \A s \in {"Execute", "Mul", "Div"} :
        phase = s /\ Runs(s) => Due(due["Decode"])

\* The asserts of the stage handlers never fail, whatever ran between a
\* request and its response and between decode and issue.
HandlerAsserts == LsuRespSafe /\ DecodeDue

\* The instruction that the step commits.
Committed == CHOOSE t \in {slot[s] : s \in Occupied} : t.id = done'[Len(done')]

\* Instructions commit in program order, except that EXU instructions overtake
\* a MUL or DIV that writes another register; a MUL or DIV overtakes nothing.
CommitOrder ==
    [][Len(done') > Len(done) =>
          \A s \in InFlightSlots :
              slot[s].id < Committed.id =>
                  /\ IsMext(slot[s])
                  /\ ~IsMext(Committed)
                  /\ slot[s].dst = 0 \/ slot[s].dst # Committed.dst]_vars

\* Every run of the main loop ends: no instruction waits for a wake-up that
\* never comes, provided the ports keep answering.
Termination == <>(phase = "finished")

\* Stated by the comment on the M-extension scoreboard: "RAW deps handled by reg_ready".  When an
\* instruction passes decode, no instruction that loads one of its sources is
\* without its data and no MUL or DIV still computes one.
RawRespected ==
    [][phase = "Decode" /\ slot'["Decode"] # slot["Decode"] =>
          LET t == slot'["Decode"]
          IN  /\ \A u \in {"Mul", "Div"} :
                    slot[u] # None /\ slot[u].dst \in t.src =>
                        Due(IF u = "Mul" THEN mext.mul ELSE mext.div)
              /\ slot["Execute"] # None /\ slot["Execute"].kind = "LOAD" =>
                    slot["Execute"].dst \notin t.src]_vars
=============================================================================

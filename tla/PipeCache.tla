------------------------------ MODULE PipeCache ------------------------------
(* The pipelined L1 cache (class PipeCache and the parts of CacheBase and    *)
(* CacheLine that it uses): the iCache is a write-through instance with two   *)
(* stages, the dCache a write-back instance with one.                        *)
(*                                                                           *)
(* A tick runs in the order of the main loop: memory responses (read channel, *)
(* write channel), update_impl, then the core's calls.  update_impl is cut    *)
(* into its consecutive parts by the variable phase; nothing else runs        *)
(* between them.  Memory is external here: it answers the one outstanding     *)
(* read and the one outstanding write after a latency of its choice.          *)
EXTENDS Ticks, FiniteSets, Sequences, ReplPolicy

CONSTANTS
    NSets,      \* sets_
    NBlocks,    \* size of the address space, in blocks
    Modes,      \* choices of the constructor's other arguments and of the use
    MemLats     \* latencies of the memory

Blocks == 0..(NBlocks - 1)
Sets   == 0..(NSets - 1)
NoBlk  == -1
NoWay  == -1
NoSet  == -1    \* lag_set_valid_ is false

ASSUME GeometryAssumption ==
    /\ NSets \in Nat \ {0, 1}
    /\ NBlocks \in Nat \ {0}
ASSUME PipeCacheTimesAssumption ==
    /\ InfTime > 2
    /\ MemLats \subseteq 0..(InfTime - 1)
ASSUME ModeAssumption ==
    \A mode \in Modes :
        /\ {mode.write_back, mode.cwf, mode.flushes} \subseteq BOOLEAN
        /\ mode.hit_delay \in 0..(InfTime - 1)
        /\ mode.depth \in Nat \ {0}
        /\ mode.assoc \in {1, 2, 4}
        /\ mode.policy \in {"plru", "rr"}
        /\ mode.prefetch \in {"none", "nextline", "tagged", "stride"}
        /\ mode.mops \subseteq {"Read", "Write"}
        /\ mode.write_back => mode.depth = 1    \* l1d_pipe_depth

VARIABLES
    lines,  \* setsArr_: lines[s][w] is [valid, dirty, tag]
    repl,   \* repl_policy_'s memory of each set
    lag,    \* lag_set_idx_, NoSet while lag_set_valid_ is false
    pipe,   \* pipe_: <<front, ..., back>>, an entry is [blk, mop, way]
    st,     \* the scalar members; st.mode never changes, st.evict is evict_addr_ while
            \* pending_evict_ holds and NoBlk otherwise
    resp,   \* what the last step handed to cpu_resp_recv_
    mem,    \* outstanding memory read and write, with the ticks still to go
    stale,  \* history: blocks whose latest store memory has not seen
    phase,  \* the part of the tick that runs next
    after   \* the part that follows update_impl: "client", or "R" for the
            \* extra do_update after fence.i

WriteBack == st.mode.write_back
Cwf       == st.mode.cwf
HitDelay  == st.mode.hit_delay
PipeDepth == st.mode.depth      \* pipe_depth_
Assoc     == st.mode.assoc      \* assoc_
Policy    == st.mode.policy     \* repl_policy_
Prefetch  == st.mode.prefetch   \* prefetcher_
Mops      == st.mode.mops       \* the kinds of request the core makes here
Flushes   == st.mode.flushes    \* may the trace contain fence.i?
Lag       == WriteBack /\ Assoc > 1    \* victim_way_lag_
Ways      == 0..(Assoc - 1)

vars == <<lines, repl, lag, pipe, st, resp, mem, stale, phase, after>>

NoEntry == [blk |-> NoBlk, mop |-> "Read", way |-> NoWay]
Line    == [valid : BOOLEAN, dirty : BOOLEAN, tag : Blocks]
Reqs    == [blk : Blocks, mop : {"Read", "Write"}]
Request(e) == [blk |-> e.blk, mop |-> e.mop]

InitSt(mode) ==
    [ mode |-> mode, r_waiting |-> FALSE, w_waiting |-> FALSE, is_shifted |-> TRUE,
      is_replay |-> FALSE, pending_flush |-> FALSE, pending_fill |-> FALSE,
      evict |-> NoBlk, blocked |-> 0,
      sched |-> InfTime, sched_resp |-> [blk |-> 0, mop |-> "Read"] ]

NoMem == [r |-> NoBlk, rt |-> InfTime, w |-> NoBlk, wt |-> InfTime]

Init ==
    /\ st \in {InitSt(mode) : mode \in Modes}
    /\ lines = [s \in Sets |-> [w \in Ways |->
                   [valid |-> FALSE, dirty |-> FALSE, tag |-> 0]]]
    /\ repl = [s \in Sets |-> 0]
    /\ lag = NoSet
    /\ pipe = [i \in 1..PipeDepth |-> NoEntry]
    /\ resp = <<>>
    /\ mem = NoMem
    /\ stale = {}
    /\ phase = "R"
    /\ after = "client"

Slots   == [blk : Blocks \cup {NoBlk}, mop : {"Read", "Write"}, way : Ways \cup {NoWay}]
Members ==
    [ mode : Modes, r_waiting : BOOLEAN, w_waiting : BOOLEAN, is_shifted : BOOLEAN,
      is_replay : BOOLEAN, pending_flush : BOOLEAN, pending_fill : BOOLEAN,
      evict : Blocks \cup {NoBlk}, blocked : Times,
      sched : Times, sched_resp : Reqs ]
Channels == [r : Blocks \cup {NoBlk}, rt : Times, w : Blocks \cup {NoBlk}, wt : Times]

\* Every member keeps its type: tags are blocks, deadlines are never negative
\* and never beyond "never".
TypeOK ==
    /\ lines \in [Sets -> [Ways -> Line]]
    /\ repl \in [Sets -> 0..7]
    /\ lag \in Sets \cup {NoSet}
    /\ pipe \in [1..PipeDepth -> Slots]
    /\ st \in Members
    /\ resp \in {<<>>} \cup {<<r>> : r \in Reqs}
    /\ mem \in Channels
    /\ stale \subseteq Blocks
    /\ phase \in {"R", "W", "sched", "lookup", "serve", "shift", "client"}
    /\ after \in {"client", "R"}

----------------------------------------------------------------------------
(* The tag array. *)

setIndexOf(b) == b % NSets
back == pipe[PipeDepth]
BackLine == lines[setIndexOf(back.blk)][back.way]

FirstWay(S) == CHOOSE w \in S : \A v \in S : w <= v
\* Mutated form: only the first way is compared.
HitWaysFirstOnly(b) == {w \in {0} : /\ lines[setIndexOf(b)][w].valid
                                    /\ lines[setIndexOf(b)][w].tag = b}
HitWays(b) == {w \in Ways : /\ lines[setIndexOf(b)][w].valid
                            /\ lines[setIndexOf(b)][w].tag = b}
probe(b) == HitWays(b) # {}
InvalidWays(s) == {w \in Ways : ~lines[s][w].valid}

\* The line that a miss replaces: an invalid way first, else the policy's.
VictimIn(s) ==
    IF InvalidWays(s) # {} THEN FirstWay(InvalidWays(s))
    ELSE getVictim(Policy, Assoc, repl[s])

\* With victim_way_lag_ the way is chosen in the set accessed last.
miss_victim_way(b) ==
    VictimIn(IF Lag /\ lag # NoSet THEN lag ELSE setIndexOf(b)) % Assoc

Invalidated(l) == [l EXCEPT !.valid = FALSE, !.tag = 0]
Activated(b)   == [valid |-> TRUE, dirty |-> FALSE, tag |-> b]

\* access: on a hit the hit way, on a miss the victim, just invalidated.
access(b) ==
    LET s   == setIndexOf(b)
        way == IF probe(b) THEN FirstWay(HitWays(b)) ELSE miss_victim_way(b)
    IN  [ way   |-> way,
          lines |-> IF probe(b) THEN lines
                    ELSE [lines EXCEPT ![s][way] = Invalidated(@)],
          repl  |-> IF probe(b)
                    THEN [repl EXCEPT ![s] = onHit(Policy, Assoc, @, way)]
                    ELSE repl,
          lag   |-> IF Lag THEN s ELSE lag ]

\* Mutated form: the victim is looked up in the request's own set although
\* access takes it from the set accessed last.
SaveEvictOwnSet(b) ==
    LET l == lines[setIndexOf(b)][VictimIn(setIndexOf(b)) % Assoc]
    IN  [st EXCEPT !.evict =
            IF WriteBack /\ l.valid /\ l.dirty THEN l.tag ELSE NoBlk]

\* save_evict_info: remember a dirty victim before access invalidates it.
save_evict_info(b) ==
    LET l == lines[setIndexOf(b)][miss_victim_way(b)]
    IN  [st EXCEPT !.evict =
            IF WriteBack /\ l.valid /\ l.dirty THEN l.tag ELSE NoBlk]

----------------------------------------------------------------------------
(* Memory responses (recv_mem_resp).  The memory itself is external. *)

\* handle_fill
handle_fill(b, way) ==
    /\ lines' = [lines EXCEPT ![setIndexOf(b)][way] = Activated(b)]
    /\ repl' = [repl EXCEPT ![setIndexOf(b)] = onFill(Policy, Assoc, @, way)]

RecvReadResp ==
    /\ phase = "R"
    /\ Due(mem.rt)
    /\ mem' = [mem EXCEPT !.r = NoBlk, !.rt = InfTime]
    /\ handle_fill(mem.r, back.way)
    /\ st' = [st EXCEPT !.r_waiting = FALSE,
                        !.blocked = IF WriteBack /\ ~Cwf THEN 2 ELSE 1]
    /\ phase' = "W"
    /\ resp' = <<>>
    /\ UNCHANGED <<lag, pipe, stale, after>>

RecvWriteResp ==
    /\ phase = "W"
    /\ Due(mem.wt)
    /\ mem' = [mem EXCEPT !.w = NoBlk, !.wt = InfTime]
    /\ stale' = stale \ {mem.w}
    /\ st' = [st EXCEPT !.w_waiting = FALSE,
                        !.blocked = IF WriteBack THEN @ ELSE 2]
    /\ phase' = "sched"
    /\ resp' = <<>>
    /\ UNCHANGED <<lines, repl, lag, pipe, after>>

NoMemResp ==
    /\ \/ phase = "R" /\ ~Due(mem.rt) /\ phase' = "W"
       \/ phase = "W" /\ ~Due(mem.wt) /\ phase' = "sched"
    /\ resp' = <<>>
    /\ UNCHANGED <<lines, repl, lag, pipe, st, mem, stale, after>>

----------------------------------------------------------------------------
(* update_impl. *)

\* Mutated form: a cache waiting for a refill keeps updating.
UpdateDueWhileWaiting == Due(st.sched) \/ Due(st.blocked)

\* next_update() <= curr_tick()
UpdateDue ==
    \/ Due(st.sched)
    \/ Due(st.blocked) /\ ~(st.r_waiting /\ ~st.pending_fill)

NotDue ==
    /\ phase = "sched"
    /\ ~UpdateDue
    /\ phase' = after
    /\ after' = "client"
    /\ resp' = <<>>
    /\ UNCHANGED <<lines, repl, lag, pipe, st, mem, stale>>

\* Mutated form: the deferred response is not cancelled once delivered.
DeliverSchedTwice ==
    /\ phase = "sched"
    /\ UpdateDue
    /\ resp' = IF Due(st.sched) THEN <<st.sched_resp>> ELSE <<>>
    /\ phase' = "lookup"
    /\ UNCHANGED <<lines, repl, lag, pipe, st, mem, stale, after>>

\* The deferred hit response goes out first.
DeliverSched ==
    /\ phase = "sched"
    /\ UpdateDue
    /\ resp' = IF Due(st.sched) THEN <<st.sched_resp>> ELSE <<>>
    /\ st' = [st EXCEPT !.sched = IF Due(@) THEN InfTime ELSE @]
    /\ phase' = "lookup"
    /\ UNCHANGED <<lines, repl, lag, pipe, mem, stale, after>>

\* A request that reaches the back without a line looks itself up.
Lookup ==
    /\ phase = "lookup"
    /\ IF back.blk # NoBlk /\ back.way = NoWay
       THEN LET a == access(back.blk)
            IN  /\ st' = save_evict_info(back.blk)
                /\ pipe' = [pipe EXCEPT ![PipeDepth].way = a.way]
                /\ lines' = a.lines
                /\ repl' = a.repl
                /\ lag' = a.lag
       ELSE UNCHANGED <<lines, repl, lag, pipe, st>>
    /\ phase' = "serve"
    /\ resp' = <<>>
    /\ UNCHANGED <<mem, stale, after>>

\* NextLinePrefetcher::probe, TaggedPrefetcher::probe
NextLine(b) == (b + 1) % NBlocks
TaggedProbe(b, is_hit) == IF is_hit THEN NoBlk ELSE NextLine(b)

\* Prefetcher::probe: the block to prefetch, if any; the stride prefetcher may
\* name any block.
Prefetched(b, is_hit) ==
    CASE Prefetch = "none"     -> {NoBlk}
      [] Prefetch = "nextline" -> {NextLine(b)}
      [] Prefetch = "tagged"   -> {TaggedProbe(b, is_hit)}
      [] Prefetch = "stride"   -> Blocks \cup {NoBlk}

\* handle_prefetch: the line is installed at once, over whatever was there.
\* Lines and replacement memory are those left by the hit.
handle_prefetch(pb, ls) ==
    LET s == setIndexOf(pb)
        w == VictimIn(s)
    IN  IF pb = NoBlk \/ probe(pb)
        THEN lines' = ls /\ UNCHANGED repl
        ELSE /\ lines' = [ls EXCEPT ![s][w] = Activated(pb)]
             /\ repl' = [repl EXCEPT ![s] = onFill(Policy, Assoc, @, w)]

\* handle_hit: answer now or, with a delay, from update_impl; a store makes
\* the line dirty (HitLines).
handle_hit ==
    LET deferred == WriteBack /\ HitDelay > 0
    IN  /\ resp' = IF deferred THEN <<>> ELSE <<Request(back)>>
        /\ st' = [st EXCEPT
                     !.is_replay = FALSE,
                     !.blocked = 1,
                     !.sched = IF deferred THEN HitDelay ELSE @,
                     !.sched_resp = IF deferred THEN Request(back) ELSE @]
        /\ stale' = IF back.mop = "Write" THEN stale \cup {back.blk} ELSE stale
HitLines ==
    IF back.mop = "Write"
    THEN [lines EXCEPT ![setIndexOf(back.blk)][back.way].dirty = TRUE]
    ELSE lines

\* The back hits: the answer, the prefetch it triggers, the entry's removal.
ServeHit ==
    /\ phase = "serve"
    /\ back.blk # NoBlk
    /\ BackLine.valid
    /\ handle_hit
    /\ \E pb \in IF back.mop = "Read" /\ ~st.r_waiting
                 THEN Prefetched(back.blk, ~st.is_replay) ELSE {NoBlk} :
          handle_prefetch(pb, HitLines)
    /\ pipe' = [pipe EXCEPT ![PipeDepth] = NoEntry]
    /\ phase' = "shift"
    /\ UNCHANGED <<lag, mem, after>>

ServeNothing ==
    /\ phase = "serve"
    /\ back.blk = NoBlk
    /\ phase' = "shift"
    /\ resp' = <<>>
    /\ UNCHANGED <<lines, repl, lag, pipe, st, mem, stale, after>>

\* A miss at the back: update_impl does one thing and returns.
Missing ==
    /\ phase = "serve"
    /\ back.blk # NoBlk
    /\ ~BackLine.valid
    /\ phase' = after
    /\ after' = "client"
    /\ resp' = <<>>
    /\ UNCHANGED <<lines, repl, lag, pipe, stale>>

\* Detection and memory request are one tick apart.
MissDetected ==
    /\ ~st.pending_fill
    /\ st' = [st EXCEPT !.is_replay = FALSE, !.pending_fill = TRUE,
                        !.blocked = 1]
    /\ UNCHANGED mem

\* A write on its way out holds everything up.
MissWaitsForWrite ==
    /\ st.pending_fill
    /\ st.w_waiting
    /\ st' = [st EXCEPT !.is_replay = FALSE, !.blocked = 1]
    /\ UNCHANGED mem

\* Mutated form: the eviction is sent without raising w_waiting_.
MissEvictsUnflagged ==
    /\ st.pending_fill
    /\ ~st.w_waiting
    /\ st.evict # NoBlk
    /\ \E lat \in MemLats : mem' = [mem EXCEPT !.w = st.evict, !.wt = lat]
    /\ st' = [st EXCEPT !.is_replay = FALSE, !.evict = NoBlk, !.blocked = 1]

MissEvicts ==
    /\ st.pending_fill
    /\ ~st.w_waiting
    /\ st.evict # NoBlk
    /\ \E lat \in MemLats : mem' = [mem EXCEPT !.w = st.evict, !.wt = lat]
    /\ st' = [st EXCEPT !.is_replay = FALSE, !.w_waiting = TRUE,
                        !.evict = NoBlk, !.blocked = 1]

\* Mutated form: the refill does not wait for the write on its way out.
MissRefillsUnordered ==
    /\ st.pending_fill
    /\ st.evict = NoBlk
    /\ \E lat \in MemLats : mem' = [mem EXCEPT !.r = back.blk, !.rt = lat]
    /\ st' = [st EXCEPT !.is_replay = TRUE, !.r_waiting = TRUE,
                        !.pending_fill = FALSE]

MissRefills ==
    /\ st.pending_fill
    /\ ~st.w_waiting
    /\ st.evict = NoBlk
    /\ \E lat \in MemLats : mem' = [mem EXCEPT !.r = back.blk, !.rt = lat]
    /\ st' = [st EXCEPT !.is_replay = TRUE, !.r_waiting = TRUE,
                        !.pending_fill = FALSE]

ServeMiss ==
    Missing /\ (MissDetected \/ MissWaitsForWrite \/ MissEvicts \/ MissRefills)

\* Mutated form: only the back of the pipe is looked at.
BackEmpty == back.blk = NoBlk

PipeEmpty == \A i \in 1..PipeDepth : pipe[i].blk = NoBlk

\* handle_flush
HandleFlush ==
    /\ phase = "shift"
    /\ st.pending_flush
    /\ PipeEmpty
    /\ lines' = [s \in Sets |-> [w \in Ways |-> Invalidated(lines[s][w])]]
    /\ st' = [st EXCEPT !.is_shifted = TRUE, !.is_replay = FALSE,
                        !.r_waiting = FALSE, !.w_waiting = FALSE,
                        !.pending_flush = FALSE, !.pending_fill = FALSE,
                        !.evict = NoBlk, !.sched = InfTime,
                        !.blocked = 1]
    /\ pipe' = [i \in 1..PipeDepth |-> NoEntry]
    /\ phase' = after
    /\ after' = "client"
    /\ resp' = <<>>
    /\ UNCHANGED <<repl, lag, mem, stale>>

\* The pipeline moves by one; a new tail that misses starts its miss now and
\* keeps the port closed, otherwise the port opens.
Shift ==
    LET shifted == [i \in 1..PipeDepth |->
                       IF i > 1 THEN pipe[i - 1]
                       ELSE IF PipeDepth > 1 THEN NoEntry ELSE pipe[1]]
        tail == shifted[PipeDepth]
    IN  /\ phase = "shift"
        /\ ~(st.pending_flush /\ PipeEmpty)
        /\ IF tail.blk # NoBlk /\ tail.way = NoWay /\ ~probe(tail.blk)
           THEN LET a == access(tail.blk)
                IN  /\ st' = [save_evict_info(tail.blk)
                                EXCEPT !.pending_fill = TRUE, !.blocked = 1]
                    /\ pipe' = [shifted EXCEPT ![PipeDepth].way = a.way]
                    /\ lines' = a.lines
                    /\ repl' = a.repl
                    /\ lag' = a.lag
           ELSE /\ st' = [st EXCEPT !.is_shifted = TRUE]
                /\ pipe' = shifted
                /\ UNCHANGED <<lines, repl, lag>>
        /\ phase' = after
        /\ after' = "client"
        /\ resp' = <<>>
        /\ UNCHANGED <<mem, stale>>

----------------------------------------------------------------------------
(* The core's side. *)

\* is_ready().first, and .second of a write-back cache
ReadReady ==
    /\ st.is_shifted
    /\ ~st.pending_flush
    /\ WriteBack => /\ ~st.r_waiting /\ ~st.w_waiting /\ ~st.pending_fill
                    /\ ~st.is_replay /\ st.sched = InfTime

WriteReady ==
    IF WriteBack THEN ReadReady ELSE ~st.pending_flush /\ ~st.w_waiting

\* read_req and the write-back half of write_req: into the front of the pipe.
PipeReq(r) ==
    /\ phase = "client"
    /\ r.mop = "Write" => WriteBack
    /\ ReadReady
    /\ pipe' = [pipe EXCEPT ![1] =
                   [blk |-> r.blk, mop |-> r.mop, way |-> NoWay]]
    /\ st' = [st EXCEPT !.blocked = 1, !.is_shifted = FALSE]
    /\ resp' = <<>>
    /\ UNCHANGED <<lines, repl, lag, mem, stale, phase, after>>

\* The write-through half of write_req: straight to memory, answered at once.
\* The core has no read outstanding on a port that it writes to.
ThroughWrite(b) ==
    /\ phase = "client"
    /\ ~WriteBack
    /\ WriteReady
    /\ PipeEmpty
    /\ IF probe(b)
       THEN LET a == access(b) IN repl' = a.repl /\ lag' = a.lag
       ELSE UNCHANGED <<repl, lag>>
    /\ \E lat \in MemLats : mem' = [mem EXCEPT !.w = b, !.wt = lat]
    /\ st' = [st EXCEPT !.w_waiting = TRUE]
    /\ stale' = stale \cup {b}
    /\ resp' = <<[blk |-> b, mop |-> "Write"]>>
    /\ UNCHANGED <<lines, pipe, phase, after>>

read_req(b) == PipeReq([blk |-> b, mop |-> "Read"])
write_req(b) == PipeReq([blk |-> b, mop |-> "Write"]) \/ ThroughWrite(b)

MemElapsed == [mem EXCEPT !.rt = Elapse(@), !.wt = Elapse(@)]
StElapsed  == [st EXCEPT !.blocked = Elapse(@), !.sched = Elapse(@)]

Tick ==
    /\ phase = "client"
    /\ mem' = MemElapsed
    /\ st' = StElapsed
    /\ phase' = "R"
    /\ resp' = <<>>
    /\ UNCHANGED <<lines, repl, lag, pipe, stale, after>>

\* The tick ends with fence.i: flush_all, then an extra do_update before the
\* memory runs.
TickFenceI ==
    /\ phase = "client"
    /\ Flushes
    /\ mem' = MemElapsed
    /\ st' = [StElapsed EXCEPT !.pending_flush = TRUE]
    /\ phase' = "sched"
    /\ after' = "R"
    /\ resp' = <<>>
    /\ UNCHANGED <<lines, repl, lag, pipe, stale>>

Client ==
    \/ "Read" \in Mops /\ \E b \in Blocks : read_req(b)
    \/ "Write" \in Mops /\ \E b \in Blocks : write_req(b)

Update ==
    \/ NotDue \/ DeliverSched \/ Lookup \/ ServeNothing \/ ServeHit
    \/ ServeMiss \/ HandleFlush \/ Shift

MemResp == RecvReadResp \/ RecvWriteResp \/ NoMemResp

Next == MemResp \/ Update \/ Client \/ Tick \/ TickFenceI

\* The main loop always goes on to the next part of the tick; the core need
\* not make any request.
Fairness == WF_vars(MemResp \/ Update) /\ WF_vars(Tick)

Spec == Init /\ [][Next]_vars /\ Fairness
----------------------------------------------------------------------------
(* Properties. *)

\* The cache's waiting flags and the memory agree (assert(r_waiting_) and
\* assert(w_waiting_) in recv_mem_resp, the slot assert in recv_req).
MemHandshake ==
    /\ st.r_waiting <=> mem.r # NoBlk
    /\ st.w_waiting <=> mem.w # NoBlk

\* The refill finds its request: still at the back of the pipe, with the line
\* reserved for it still invalid; and the replay that follows finds that line
\* filled (assert(!is_replay_ || line->isValid()) in update_impl).
ReplayConsistent ==
    /\ mem.r # NoBlk => /\ back.blk = mem.r
                        /\ back.way # NoWay
                        /\ ~BackLine.valid
    /\ (phase = "serve" /\ st.is_replay) => BackLine.valid

\* A block sits in at most one way of its own set, with prefetches, refills
\* and the lagging choice of the victim way.
TagsUnique ==
    \A s \in Sets, w \in Ways : lines[s][w].valid =>
        /\ setIndexOf(lines[s][w].tag) = s
        /\ \A v \in Ways \ {w} :
              ~(lines[s][v].valid /\ lines[s][v].tag = lines[s][w].tag)

\* No store is lost on its way to memory: the block's latest data is in a valid
\* dirty line, saved for eviction, or in the outstanding memory write.
StoresSurvive ==
    WriteBack => \A b \in stale :
        \/ \E w \in HitWays(b) : lines[setIndexOf(b)][w].dirty
        \/ st.evict = b
        \/ mem.w = b

\* A refill never reads a block whose latest store memory has not seen: an
\* eviction, or the posted write of a write-through cache, on its way out.
RefillSeesStores == mem.r \notin stale

\* Requests in the cache, oldest first: the deferred response, then the pipe
\* from back to front.  The k-th of a set of slots has k - 1 of them behind it.
Held       == {i \in 1..PipeDepth : pipe[i].blk # NoBlk}
Rank(S, i) == Cardinality({j \in S : j >= i})
Nth(S, k)  == CHOOSE i \in S : Rank(S, i) = k
InPipe     == [k \in 1..Cardinality(Held) |-> Request(pipe[Nth(Held, k)])]
Outstanding ==
    (IF st.sched # InfTime THEN <<st.sched_resp>> ELSE <<>>) \o InPipe

Port == INSTANCE CachePort WITH
            q <- Outstanding, resp <- resp, depth <- PipeDepth,
            posts <- IF WriteBack THEN {} ELSE {r \in Reqs : r.mop = "Write"}

\* The cache implements the in-order, exactly-once port of CachePort, across
\* misses, refills, evictions, prefetches and flushes; only the writes of a
\* write-through cache are answered at once.
ImplementsPort == Port!Spec
=============================================================================

# npSim: a TLA+ verification project

`npsim` replays an instruction trace through a timing model of an in-order
RV32IM core, two L1 caches, a branch predictor and the SoC memory fabric. The
program is single threaded, but it *simulates* a concurrent machine: in every
tick the components run in a fixed order, call each other back in the middle of
their own updates, keep their own deadlines (`next_update`) and wait for one
another's answers. Its mistakes are therefore the mistakes of concurrent
systems: lost wake-ups, answers applied to the wrong request, state that is
stale when a callback re-enters, requests that are dropped by a flush, and a
counter that never returns to zero so that the main loop never ends.

All paths below are relative to the repository root.

## 1. Inventory

| Component | Source | State it keeps | Operations | Talks to |
|---|---|---|---|---|
| Main loop | `src/main.cc` 565-644 | tick, current instruction, `has_next`, `stop_after_dump` | update all devices in bottom-up order, feed or drain, advance the tick, act on the trace's `SysOp` | everything |
| RAMArbiter | `src/cacheSim/RamConn.{hh,cc}` | one slot per host and channel, served host and deadline per channel | `recv_req`, `update_impl` | caches (`recv_mem_resp`), RAM devices |
| SdramModel, fixed devices | `src/cacheSim/RamModel.hh`, `RamConn.hh` | open row per host and bank, controller-free time, refresh time | `access`, `reset_stats` | RAMArbiter |
| PipeCache (iCache, dCache) | `src/cacheSim/CacheBase.{hh,cc}`, `CacheLine.hh` | lines, request pipe, `r_waiting_`, `w_waiting_`, `pending_fill_req_`, `pending_evict_`, `is_replay_`, `is_shifted_`, `pending_flush_`, deferred response | `read_req`, `write_req`, `recv_mem_resp`, `update_impl`, `flush_all`, `pollute` | core (`cpu_resp_recv_`, `cpu_ack_recv_`), RAMArbiter |
| NoCache, StoreBuffer | `src/cacheSim/CacheBase.{hh,cc}` | busy flags; store FIFO and scheduled responses | `read_req`, `write_req`, `recv_mem_resp`, `update_impl` | core, RAMArbiter |
| Replacement policies | `src/cacheSim/ReplPolicy.{hh,cc}` | PLRU bits, round-robin pointer, line stamps | `getVictim`, `onHit`, `onFill` | PipeCache |
| Prefetchers | `src/cacheSim/Prefetcher.{hh,cc}` | last address and stride | `probe` | PipeCache |
| Pipeline (core) | `src/pipeSim/Pipeline.{hh,cc}` | six stage slots, seven stage deadlines, fetch queue, orphan-response FIFO, wrong-path and redirect flags, scoreboard `reg_ready_`, MUL and DIV ready ticks, `ongoing_insts_`, `calc_nxtupd_`, stall attribution | one handler per stage, `do_fetch_0`, `feed_inst`, the callbacks `recv_mem_resp` and `ack_mem_avail`, `calc_sched`, `reset_stats` | caches, branch unit, main loop |
| Branch prediction | `src/branchSim/*` | BTB with its write bypass, RAS, counters, global history, TAGE tables and snapshot ring | `predict`, `judge`, `update`, `on_mispred`, `begin_tick` | core |
| Trace reader, sanitizer | `src/trace.{hh,cc}` | stream position, ROI counters | `next`, `record`, `reset` | main loop |
| Statistics, JSON, area | `libs/stats_template`, `src/areaSim`, `*_json` | counters | dump, reset | output files |
| Scripts, plots | `scripts/`, `visual/`, `area/` | none | batch runs and plotting in Python | output files |

### How the components interact

In each tick the main loop calls `do_update()` on the memory fabric, the
uncached data port, the dCache, the iCache and the core, in this order, then
feeds the core one instruction if it has room, then advances the clock and acts
on the trace's system operation. `do_update()` runs a component only if its
`next_update()` has come, so every component must name the tick at which it next
has something to do, and must be re-scheduled by whoever gives it work earlier.

Requests travel down by direct calls (`read_req`, `write_req`, `recv_req`),
answers travel up by callbacks made in the middle of the lower component's
update (`recv_mem_resp`, `cpu_resp_recv_`, `cpu_ack_recv_`). A callback may call
down again: the StoreBuffer sends its next write from its response handler, the
core changes stage deadlines while the caches are updating.

### What is hard here

- **Lost wake-ups.** A component that sleeps with `InfTime` depends on exactly
  one later callback; the loop ends only when `ongoing_insts_` returns to zero.
- **Matching answers to requests.** Fetch responses carry no identity: they are
  matched by position, across flushes, wrong-path fetches and early redirects.
- **State read, then used later.** A miss reserves a victim line ticks before
  the refill fills it; the victim saved for write-back and the one invalidated
  come from separate calls; `reg_ready_` remembers a time, not a writer.
- **Re-entrance.** `recv_req` is called while the channel still looks busy.
- **Flushes in the middle of everything**: `fence.i` on the caches, a
  misprediction in the core.
- **Lazy accounting.** Stall cycles are charged when the cause changes; SDRAM
  refreshes are noticed by the next access.
- **Speculation.** Predictions shift the history, on the wrong path too, and
  train tables ticks later with values read at fetch.

### What makes each component correct

| Component | Correctness |
|---|---|
| RAMArbiter | every request is started exactly once; no request is stranded; a transfer in service is not disturbed; hand-over by priority |
| PipeCache | each accepted request is answered once, in order; no store is lost; a refill never reads around a pending write-back or posted write; a block is in one way |
| Replacement | the line used last is spared; LRU evicts the oldest line; a burst of misses turns the set over |
| Pipeline | each instruction fed is committed exactly once, in an order that respects dependences; handler asserts hold; the run ends |
| Stall attribution | every cycle is charged once, to the right cause |
| SDRAM | lazy refresh equals refresh on time; a host's transfers end in the order they start |
| Branch unit | the history is that of the right path; a snapshot outlives its branch; the return stack is a stack; repeated programs are learned |
| NoCache, StoreBuffer | one answer per request; loads do not overtake buffered stores; the FIFO drains; a refused store is retried |
| Main loop | markers are acted on once; a statistics window counts the same instructions everywhere; the loop ends with an empty core |

## 2. Modules

| Module | Models | State and actions |
|---|---|---|
| `Ticks` | deadlines | an absolute tick `t` becomes the ticks still to go: `Due(t)` is `deadline <= curr_tick()`, `Elapse` is one advance of the clock, `InfTime` is never |
| `RAMArbiter` | class `RAMArbiter` | `reqs`, `serving`, `busy`, and the hosts' own flags `waiting`; `SendReq`; a channel of `update_impl` is `NotYet`, or `Respond` (into the host's handler), perhaps `Reissue` (the handler calls `recv_req` while the channel still has the finished transfer's deadline) and `PickNext`; `Tick`; history `starts` counts how often a request's latency was computed |
| `Sdram` | class `SdramModel` | open rows, controller-free times and the refresh counter, relative to the device clock; `Access`, `DevTick`, `DevTickReset`; history `rows` refreshes eagerly |
| `MemFabric` | the fabric that `main.cc` builds | composes `RAMArbiter` and `Sdram`: a step that starts a transfer to the SDRAM is an `Access` in the same step and takes its latency |
| `CachePort` | abstract: what a data or instruction port promises the core | queue `q` of accepted requests, the response of the last step, the set of posted requests; `Accept`, `Respond`, `Post` |
| `ReplPolicy` | `victim_way`, `update_bits`, pointer of round robin | pure operators |
| `ReplSet` | one set under all four policies | `Hit`, `Fill` (with `victim_way_lag_` into any way), `Prefetch` (in the tick of the hit that triggers it), `Flush`; histories of touches, of pairs touched in one tick, and of evictions |
| `PipeCache` | classes `PipeCache`, `CacheBase`, `CacheLine`, prefetchers | lines, pipe and flags as in the code; `recv_mem_resp` is `RecvReadResp`/`RecvWriteResp`, `update_impl` is cut into `DeliverSched`, `Lookup`, `ServeHit`/`ServeMiss`/`ServeNothing`, `HandleFlush`/`Shift`; `read_req`, `write_req`, `TickFenceI` |
| `DataPort` | classes `NoCache` and `StoreBuffer` | FIFO, deferred miss, scheduled responses; `recv_mem_resp` and `update_impl` in parts, `SendLsuReq` with the core's retry, `TickFenceI` |
| `ReturnStack`, `DirPred`, `Tage` | return stack; always/none/BTFNT/bimodal/gshare/tournament; TAGE | pure operators on records |
| `BranchUnit` | class `BranchUnit` and the BTB, driven as the core does | `Fetch`, `WrongPath`, `Resolve`, `BeginTick`, `Sleep` |
| `Pipeline` | class `Pipeline` with the feeding part of the main loop | one action per handler, in the order of `update_impl`, sequenced by `phase`; callbacks `DportResp`, `DportAck`, `IportResp`, `IportAck`; `feed_inst`, `set_draining`, `Tick` |
| `StallAttr` | `StallAttr`, `set_stall`, `flush_stall_cycles`, the accounting parts of the handlers | `set_stall`, `Commit`, `ExFlush`, `FetchMispredicted`, `Tick`, `TickReset`; history `eager` charges every cycle when it ends |
| `SimLoop` | the main loop, extending `StallAttr` | `FeedInst`, `StartDraining`, `TakeBuffered`, `LoopCommit`, `LoopAccount`, `LoopTick` for each marker |
| `RAMArbiter_proofs`, `MemFabric_proofs`, `PipeCache_proofs`, `ReplSet_proofs`, `DataPort_proofs`, `Pipeline_proofs`, `BranchUnit_proofs`, `SimLoop_proofs` | | inductive invariants, lemmas and theorems about the module named; each extends it (`SimLoop_proofs` holds those about `StallAttr` too) |
| `MCMemFabric`, `MCPipeCache`, `MCDataPort`, `MCBranchUnit`, `MCPipeline` | | constants for TLC |

A variable `phase` stands for the program counter of the single thread: between
two phases nothing else can run, exactly as in the code. The interleaving that
matters is not between threads but in *when* each component's deadline falls
and *what* the others ask for in that tick; those are nondeterministic.

Abstractions. Addresses are block numbers, data words are left out (they never
steer control), statistics are left out except in `StallAttr` and `SimLoop`. The
core's model replaces the caches by two ports that may answer after any of a set
of latencies and may stay closed for a bounded number of ticks (`MaxIStall`,
`MaxDStall`: misses and flushes); the two data ports (dCache and bypass) are one
port, since the core has at most one data request outstanding. A branch's outcome
and its prediction are chosen at fetch, with every combination that
`BranchUnit::judge` can see; non-branches are never predicted, because
`predict_at_fetch` returns an empty prediction for them. That also makes
`flush_false_btb_hit` a no-op. `calc_nxtupd_` has no initializer in the
constructor, so `Init` allows both extremes.

The arbiter keeps a set of latencies per device, so that its proofs hold for any
device; `MemFabric` conjoins the SDRAM's answer, which must be a member of that
set. In the `memory` instance the set is 1..18: a read (at most 5 device ticks) and
a write (at most 4) of one host in series, at two CPU ticks each, are the longest
wait there is.

`Sdram` folds its two unbounded clocks: `dev` keeps its residue modulo
`REFRESH_PERIOD` and whether a period has passed, an overdue `next` keeps its
residue. `check_refresh` and `reset_stats` depend on nothing else. The device tick
is an integer here; the code narrows it to `int` (`RamModel.hh` 57), so a run of
2^31 device ticks or more is outside the model.

`ReplSet` looks at one set. A tick touches it once, or twice: `access` calls `onHit`
and the prefetch behind that hit fills a line in the same tick (`CacheBase.cc` 98
and 376). A refill, or the prefetch behind a replay or behind a hit of another set,
is alone in its tick. With `victim_way_lag_` the way of a refill is the victim of
whatever set was accessed before; `Fill` allows any way, which covers every other
set. The hit of a write-through store, in the core's part of the tick, is left out:
no cache that `main.cc` builds has one.

`BranchUnit` lets at most one branch resolve and at most one address be predicted
per tick, in this order, as `update_impl` does. A sleeping core that is fed an
instruction fetches without `begin_tick`; `Sleep` is that tick. A program is a
repeated list of places, each with the branches it may hold; addresses are word
addresses, so `pc + 4` is `pc + 1`. A mode says whether there is a return stack
(`ras_depth` is 0 by default) and a target buffer (`NoBTB` otherwise, so that nothing
hits). The history register has `GhrBits` bits, 64 in the code; component lengths
may exceed it, as in the default list, which ends in 64: `ghr_mask_` is then the whole
word, and `fold_ghr` folds the whole word from `GhrBits - 1` on (`Tage.cc` 52-54). `Xor(a, b, w)` is the number below `2^w` whose
bits are those in which `a` and `b` differ: every `^` of the predictors is masked to
a table index or a tag.

`SimLoop` reduces the core to what the loop sees (input buffer, ongoing
instructions, draining) and to its cycle accounting; the pipeline is `Pipeline`.
`inst` is not initialized, so `LoopInit` allows every `sys_op`.

A cache's geometry, policy, prefetcher and use are fields of a mode record that
`Init` chooses, so that one run covers several of the caches that can be built.

## 3. Runs

| Run | Instance | Shows |
|---|---|---|
| `memory` | 3 hosts (iCache reads, StoreBuffer re-sending writes, bypass at the SRAM), nested address windows, 1 SDRAM bank with 2 rows, period 3, CPU at twice the device's clock, reset at any tick | every request started once, work conservation, priority, no preemption, bounded delay by lower hosts, refresh on time, order of a host's transfers |
| `dcache` | 2 sets x 2 ways, 5 blocks, one stage, PLRU; write-back as in `main.cc`, write-back with a hit response deferred by one tick, and write-through; latency 3 | replay and reservation, no store lost, refills see stores, refinement of `CachePort` |
| `cache_fence` | `fence.i` at any tick: two-stage iCache 2 x 2 with next-line prefetch; direct-mapped dCache with arbitrary prefetches; 5 blocks, latencies 1 and 2 | flush protocol, unique tags, refinement of `CachePort` |
| `data_ports` | uncached port, StoreBuffer with 0, 1 and 3 entries, 3 addresses, latencies 0, 1, 3, `fence.i` | forwarding, drain, retry, refinement of `CachePort` |
| `repl_set` | 4 ways, own or lagging victim way, 9 ticks with prefetches in the ticks of hits | the policies' guarantees |
| `branch_unit` | 7 predictors, 4 mixed branches (conditional, two call sites, return), 3 in flight; 2 of them without return stack, 3 without target buffer; 3 history bits, component lengths 1 and 3; 4 predictors on repeated programs of 16 branches | history, snapshots, return stack, learning |
| `frontend` | 4 branches of 2 kinds, TAGE, queue of 2, instruction port idle up to 1 tick | fetch side, queue bound and termination |
| `backend` | 4 instructions of 6 kinds on 2 registers, no predictor (taken branches are held for two ticks), data latency 1 or 3, data port closed up to 1 tick | asserts of the handlers, back end, commit order, M extension, termination |
| `sim_loop` | 6 ticks, 4 instructions with any markers | cycle accounting, statistics windows, markers, end of the loop |
| `dcache_prefetch`, `raw_lost`, `stall_sum` | | disagreements, see section 6 |

Bounds and why they are enough. Two sets and two ways are the least with a lagging
victim set different from the request's own set; five or six blocks give one set
three candidates, so that evictions and re-fetches of evicted blocks happen. One
set and way (`Assoc = 1`) suffices where only the protocol matters. Latencies are
shorter than in the machine but ordered the same way (`MulLat < DivLat`, memory
latencies both shorter and longer than a stage). Four instructions fill every slot
between a mispredicted branch and its flush with a queue of two. `InfTime` (20 in
`memory`, 9 elsewhere) exceeds every finite deadline, which the `ASSUME`s check. A
refresh period of three device ticks is shorter than a transfer, so that
refreshes fall inside, between and several at a time after transfers. A memory
latency of three in `dcache` leaves a posted write outstanding when the miss behind
it is ready to refill, two would not. A history of three bits with a component of
length three is the code's 64 bits with length 64: both mask with the whole word. The snapshot
ring has four slots for a window of three predictions: the comment on `SNAP_RING`
asks only for a ring larger than the window, which `WindowAssumption` states; with
a ring of the window's size `SnapIntact` fails. The real ring (512) is far larger
than the fetch queue and two stages. Two-bit component counters, two-entry tables
and tags of one and two bits make aliasing between the branches of the program
frequent. Twelve branches before `Learns` is demanded cover the transient of every
predictor. Wrong paths fetch one address, which aliases with a call. `MaxTick`
bounds only clocks of modules whose state keeps absolute time; in `SimLoop` it is
`max_ticks`, at which the loop itself ends. `CHECK_DEADLOCK FALSE` is set only for
`repl_set`, whose clock simply stops.

Fairness. The program is a loop that always goes on to its next statement, so
weak fairness of the step that is next is justified: `Next` as a whole for
`Pipeline`, each channel's step and the tick for `RAMArbiter` and `MemFabric`, the
memory and update steps and the tick for `PipeCache` and `DataPort`; in `DataPort`
also the retry of a core that was woken. The core is never obliged to send
requests. Ports and memories answer because their latencies are finite numbers
counted down by `Tick`; no fairness is assumed of them beyond `MaxIStall` and `MaxDStall`.

Deliberately weak points of the statements: strict priority allows starvation of
a low host, so `ServedUnlessOutranked` promises only what the code can; PLRU
promises less than LRU; `NoStageSleeps` does not cover Decode (see section 6).

## 4. Proofs

The theorems below are checked by TLAPS and hold for every value of the constants
that satisfies the named `ASSUME`s. Each `*_proofs` module states an inductive
invariant as a conjunction of named parts, shows with one lemma per action (or
group of actions) that a step keeps it, and reads the results off it. Every part
of an invariant was first checked by TLC on the instances of section 3.

**`RAMArbiter_proofs`** (any number of hosts, addresses, devices, latencies): type
correctness, `StartedOnce`, `ChannelConsistent`, `WorkConserving`,
`PriorityRespected`, `NotPreempted`. The safety invariants are not inductive one
by one: that a finished transfer's slot is full (needed for the response) rests on
`ChannelConsistent`, that an idle channel may be started by the sender alone rests
on `WorkConserving`, and `StartedOnce` needs all of them: that a slot is empty when
`recv_req` fills it is `Handshake` (a host's flag is up exactly while its slot is
full: the assert in `recv_req`), and that a write sent from a response handler is not
started there is that a channel in its handler still has a finite deadline
(`HandlerOK`, `ChannelConsistent`). The invariant is their conjunction with `TypeOK`. The assumption that a
latency is below `InfTime - 1` is the fact that a 64-bit tick never reaches its
maximum.

**`MemFabric_proofs`** (any refresh period, clock ratio, banks and rows): every step
of the composed fabric is a step of the arbiter (`FabricImplementsArbiter`), so the
arbiter's properties hold with the SDRAM behind it (`FabricKeepsArbiter`).
`RefreshOnTime` needs `InPhase`: the folded clock and the refresh counter always add
up to whole periods, so an overdue counter is overdue exactly since the last
multiple of the period. `HostInOrder` speaks of every start, by `recv_req` on an idle
channel and by the scan, which adds a tick; it needs `BehindController`: a transfer that
started last at its host's controller ends no later than the controller is free.
The proof uses `PER_WORD >= 2` (the code's constant is 2, `RamModel.hh` 42).

**`DataPort_proofs`** (both classes, any FIFO size and latency): `LoadSeesStores`,
`DrainsInOrder`, and the safety half of `ImplementsPort`. The invariant adds
`OneRequest` (at most one member holds the accepted request, and only while the
core waits) and `Unbuffered` (a port without a FIFO never fills it). The refinement
maps the members, in a fixed order, to the queue of `CachePort`; one lemma per
action shows which of `Accept`, `Respond`, `Post` or a stutter it is.

**`PipeCache_proofs`** (any geometry, pipe depth, policy, prefetcher and latency
among those `ModeAssumption` allows): `TagsUnique`, `ReplayConsistent`, and under
hypotheses `MemHandshake`, `StoresSurvive`, `RefillSeesStores` and the safety half of
`ImplementsPort`. `CInv` says that
the entry at the back owns a way that either holds its block or is empty with no
rival (`Reserved`), that a refill in flight belongs to that entry (`ReadChannel`),
that an eviction in flight holds the refill back (`WriteChannel`), and what each
flag implies about the back (`Flags`); tags are unique because a refill can only
install a block that `Reserved` says nobody holds. `SInv` locates the latest store
to every block: a dirty line, `evict_addr_` while its miss is at the back, or the
write channel; of a write-through cache memory lacks only the store in the write
channel, and no refill runs beside it (`PostedStores`). The assumption that a write-back cache has one stage is
`l1d_pipe_depth` (`main.cc` 65). The hypotheses are where the code really
differs: for a write-back cache `StoresSurvive` and `RefillSeesStores` are stated
without prefetcher and `fence.i` (`Plain`), since a prefetch and a flush do drop
dirty lines (section 6); `MemHandshake` and `RefillSeesStores` exclude a write-through
cache that is both written and flushed (`PostedFlush`), whose `handle_flush` lowers `w_waiting_` while a
write is outstanding. All these hypotheses are satisfied by initial states, the
negations too.

`ImplementsPortSafety` shows, one lemma per action or group of actions, which step of
`CachePort` a step of the cache is. The queue is the deferred response or, when there
is none, the occupied slots from back to front; `Flags` and the single stage of a
write-back cache exclude both at once (`QueueForm`). The `k`-th request is in the
slot with `k - 1` occupied slots behind it, so that filling the front, emptying the
back and moving the pipeline are facts about ranks in a set of numbers
(`NthWithFirst`, `NthWithoutLast`, `NthShifted`) and hold for every pipe depth. The
hypothesis `~DeferredFlush` excludes a write-back cache with both a hit delay and
`fence.i`, whose `handle_flush` cancels the deferred response (section 6): TLC finds
the lost response as soon as such a mode is added.

**`ReplSet_proofs`** (associativity 1, 2 or 4, the ones `PLRUReplPolicy` asserts, and
any number of touches): `LruExact`, `RecentSpared`, `ReusedSpared` and
`BurstReplacesAll`. `ReplInv` ties the policies' memory to the histories: the touch
history lists the valid lines once, LRU stamps do not decrease along it and are equal
only for a line hit and the line prefetched behind it (`StampsInOrder`), the PLRU bits
point away from its last line, and an SRRIP distance is that of the last hit or
fill. For a burst each policy has its own argument: under LRU the burst is the end
of the history; under round robin it is what the pointer has just passed; under
PLRU evictions alternate between the halves and, within a half, between its ways
(`PlruBurst`, which needs the last four evictions and all three bits). A burst is one
of refills in ticks of their own, into the set's own victims: under LRU no line of
it belongs to a pair with equal stamps (`BurstUntwinned`), and with the lagging way,
which another set chooses, nothing is promised.

**`Pipeline_proofs`** (any trace length, instruction mix, queue size, latencies,
predictor): `TypeOK`, `HandlerAsserts`, `FetchFifoAligned`, `WrongPathShape`,
`NoInstLost`, `CommitOrder` and `NoStageSleeps`. The invariant `PipeInv` has three layers.

1. `Core`: types; what the slots may hold (only the Execute slot may wait, only the
   Fetch slot may hold a placeholder); the data request and its sender; an
   instruction in Decode issues from the next tick on (`DecodePending`, the reason
   why the asserts of `do_execute` and `do_mul_ext` hold); and the alignment of
   `resp_is_orphan` with the fetches in flight. It is inductive by itself.
2. `PathInv`: the front end (Decode, Fetch, queue) as one sequence has at most one
   mispredicted branch, and exactly what is behind it is a placeholder. Handlers
   move instructions *within* that sequence, so most steps leave it unchanged; a
   fetch appends, an issue takes the head, a flush empties it. Without this layer
   the flush could discard trace instructions.
3. `Acct`: `ongoing_insts_` is the number of trace instructions in slots, queue and
   input buffer, their ids and the committed ones are `1..fed`, and the two numbers
   add up to `fed`, which with the pigeonhole principle makes every instruction
   appear once. The bound of `ongoing_insts_` in `TypeOK` follows.

`CommitOrder` rests on `PipeInv` and `OrderInv`: nothing in Decode, Fetch, the queue
and the input buffer is older than what stands before it, and the Memory slot is
older than the Execute slot (`SlotAges`, `QueueAges`, `InputAges`); the M-extension
units hold at most one instruction and Decode holds a MUL or DIV only while both are
free (`MextAlone`); and what is younger than a MUL or DIV in flight writes another
register (`WawSafe`). By the accounting an id stands in one slot, so what
`do_writeback` takes out is what `Committed` gains.

`NoStageSleeps` rests on `Core` and `WakeInv`: `calc_nxtupd_` is never later than
the deadline of a stage past Decode; during the update it is the current tick; and
what a handler that has run finds ready afterwards was put there by its feeder,
whose own deadline is then the next tick (`NothingLeft`), so that `calc_sched`,
which looks at deadlines ahead only, still sees one.

Two consequences are about code that tests never reach: the branch of `do_decode`
that drops a placeholder is dead (`DecodeNeverMeetsPlaceholder`), and the loop in
`do_execute` that un-counts flushed trace instructions never finds one
(`FlushDiscardsNoInst`).

**`BranchUnit_proofs`** (any table and tag sizes, any history register and component
lengths, shorter or longer than it, with or without target buffer and return stack, any ring larger than the
window, any stack depth, program and wrong path): `TypeOK`, `HistoryExact`,
`SnapIntact` and `RasExact`. `TypeOK` says that no index leaves its table, no
counter its bits, and that `Allocated` takes usefulness only from entries that
have some: the code's test `e.valid && e.u > 0` before the decrement, which the model
leaves out, is always true there. It needs facts the prover
has no theory for: powers of two (counted as subsets), quotient and remainder, and
that every choice of `w` bits is a number below `2^w` (`BitsOfSet`), which makes the
exclusive or an index. They are proved by taking a least counterexample.

`HistoryExact` and `SnapIntact` are not inductive. `OneWrong`: only the youngest
branch in flight can be mispredicted, exactly when the fetch stage is on the wrong
path, and the wrong-path predictions since then count against the window.
`SnapsInOrder`: the snapshots in flight are consecutive ring slots that end, before
those of the wrong path, at `snap_wr_idx_`, so a new one (less than `SNAP_RING`
ahead) and the `valid = false` of an older update land in other slots. `HistoryKept`:
on the wrong path the history variable is what the mispredicted branch saw, shifted
by its real direction: what `on_mispred` will restore. `RasExact` is inductive with
`TypeOK`; the lemmas `LivePush` and `LivePop` compare the ring with a sequence, slot
by slot.

**`SimLoop_proofs`**. About `StallAttr` (any run length): the buckets add up to the
accounted interval, the accounting is at most one cycle ahead, counters stay natural
numbers, and the buckets are at every moment those of charging each cycle when it
ends (`ChargedByCycle`), where a history, not the flag `in_br_recovery`, says that
a recovery lasts from the flush to the next commit or reset. The invariant needs `NeverAhead`:
without it a commit could charge a negative gap; and that the flag and the history
agree whenever a charge is computed (`Marked`). About `SimLoop` (any `max_insts`,
`max_ticks` and markers): every step of the main loop is a step of `StallAttr` (`LoopImplementsStallAttr`), so the breakdown
holds in the simulation as a whole (`LoopBreakdown`); `WindowConserved`,
`MarkersOnce` and `DoneMeansDrained`. The invariant adds that a marker is consumed
before the next instruction is offered (`OpConsumed`), that what was offered is in
flight until the tick ends (`OfferedInFlight`), that draining is final, and what
holds before the first instruction, whose `sys_op` is not initialized
(`NothingFedYet`).

Only model-checked, and why:

- liveness (`Termination`, `ServedUnlessOutranked`, `RefusedIsServed`) and the
  liveness half of `ImplementsPort`: out of the prover's reach;
- `Learns`: how soon a repeated program is predicted right depends on the table and
  history sizes of the instance (`LearnTime`), so there is no bound to prove for all
  of them; what `fold_ghr` computes is a fold over the history bits, whose value for
  every input would need induction over data (`BranchUnit_proofs` uses only that
  the masked result is in range).

## 5. Not modelled

The trace file format, statistics output, area numbers, debug output, physical
memory and the Python tools (input and output only). Of the sanitizer only the
total. The stride prefetcher's table is an arbitrary choice of block. Statistics
of the predictors (`on_resolved`), of the arbiter and of the SDRAM are left out.
`PipeCache::pollute` and `BranchUnit::clear_btb_entry` have no caller that reaches
them. The MMIO fallback of `do_memory` is unreachable, because `main.cc` always
passes an uncached port. The core, the caches and the fabric are not composed into
one module: each is checked against the most general behaviour of its neighbours,
which `CachePort`, `MemHandshake` and the guards of `SendReq` and `Reissue` state. The
narrowing of the SDRAM's device tick to `int` is left out.

## 6. What the models found

Violations checked by a run of their own:

- `dcache_prefetch`: `handle_prefetch` overwrites a dirty line without writing it
  back (`CacheBase.cc` 372-375); only with a dCache prefetcher.
- `raw_lost`: the response of a load marks its register ready although a younger
  writer of the same register is in flight (`Pipeline.cc` 557).
- `stall_sum`: the buckets add up to `cycles + 1` (`Pipeline.cc` 609, 623).

Observations without a run:

- A MUL or DIV overwrites the one deadline of the WriteBack stage with its own
  completion time (`Pipeline.cc` 447, 467), which postpones the write-back of an
  instruction that waits in the Memory slot. It costs ticks, not progress.
- `StoreBuffer::flush_all` sets `pending_flush_`, which nothing clears, so a core
  with a store buffer would hang after `fence.i`; `RefusedIsServed` excludes it.
  `main.cc` 490 asserts that no store buffer is built. Forwarding takes the
  *oldest* matching entry; data does not steer the simulation.
- `is_ret` holds for every branch with `rs1 = ra` and `rd = 0`, conditional and not
  taken ones included; the return stack pops for them, in the model as well.
- After `reset_stats` the SDRAM's `refresh_count_` counts all refreshes since tick
  zero at the first access, because the counter restarts at the first period; the
  rows it leaves open are right all the same (`RefreshOnTime`). A CPU below 100 MHz
  makes `freq_ratio_` zero, a divisor.
- The BTB's port conflict lasts as long as the core sleeps, since only a core that
  is awake calls `begin_tick`.
- `do_fetch_1` fills the Fetch slot without scheduling Decode; if Decode's own
  deadline is past, `calc_sched` skips it and the core can sleep until the next
  callback. It costs ticks, not progress.
- The comment in `calc_sched` that wrong-path fetches do not enter the queue is
  out of date; they do.
- In a write-through cache every write response postpones the pipe by two ticks,
  so a steady stream of writes would starve a read at the back. The in-order core
  has one data request outstanding and cannot send such a stream, which
  `ThroughWrite` takes as its guard.
- `handle_flush` clears `w_waiting_` with a write possibly outstanding
  (write-through), and drops a deferred response (hit delay above 0). Neither
  configuration is built by `main.cc`.
- LRU stamps are ticks. A hit and the prefetch it triggers touch one set in one tick
  when the prefetched block maps to the same set; `getVictim` then takes the lower of
  the two ways first, in a two-way set possibly the line just prefetched
  (`RecentSpared` and `LruExact` state this exception).
- `reset_stats` clears `in_br_recovery` (`Pipeline.hh` 190), so a recovery that is under
  way ends there; the comment at `Pipeline.hh` 437 says "until the next commit".
- `fold_ghr` shortens a length of 64 or more to 63 and then takes the whole word for
  63, so that lengths of 63 and 64 fold the same history.
- `fence.i` discards dirty dCache lines. `reset_stats` keeps the core's
  wrong-path counters. On an empty trace `main.cc` reads `inst.sys_op` before any
  instruction was read.

## 7. Plan

The models are complete up to section 5. Every safety property that a passing run
checks is proved, under the hypotheses of section 4, except `Learns`. What stays
with TLC is listed at the end of section 4.

------------------------------ MODULE DataPort ------------------------------
(* The data ports without a cache: class NoCache (dNoCache, dBypass) and     *)
(* class StoreBuffer, whose stores are answered from a FIFO that drains to   *)
(* memory behind the core's back.                                            *)
(*                                                                           *)
(* A tick runs in the order of the main loop: memory responses (read, then   *)
(* write channel), update_impl in its three parts, the core.  Memory and     *)
(* core are external: memory answers the outstanding read and the            *)
(* outstanding write after a latency of its choice; the core has one data    *)
(* request outstanding, and one that was refused sleeps until it is acked.   *)
(* Data is left out, and so is the mask, which do_memory always sets to 0xf. *)
EXTENDS Ticks, Sequences, Functions

CONSTANTS
    Addrs,      \* word addresses
    Ports,      \* the ports to try: NoCache, or the StoreBuffer's entries
    MemLats     \* latencies of the memory

NoCache == -1
NoAddr  == -1

ASSUME DataPortAssumption ==
    /\ Addrs \subseteq Nat
    /\ Ports \subseteq Nat \cup {NoCache}
    /\ MemLats \subseteq 0..(InfTime - 1)
    /\ InfTime > 1

VARIABLES
    entries,    \* the class: NoCache, or the StoreBuffer's entries
    st,         \* the scalar members; rmiss, sched_r and sched_w are what is
                \* deferred (pending_rmiss_*, sched_r_*, sched_w_*)
    fifo,       \* fifo_: the addresses of buffered stores
    mem,        \* outstanding memory read and write
    core,       \* the request of the instruction in Execute, and its state
    resp,       \* what the last step handed to cpu_resp_recv_
    phase,      \* the part of the tick that runs next
    after       \* the part that follows update_impl: "core", or "R" for the
                \* extra do_update after fence.i

vars == <<entries, st, fifo, mem, core, resp, phase, after>>

Reqs == [mop : {"Read", "Write"}, addr : Addrs]

\* Something at address a that is due in n ticks.
In(n, a) == [addr |-> a, left |-> n]
Nothing  == In(InfTime, NoAddr)

Init ==
    /\ entries \in Ports
    /\ st = [r_busy |-> FALSE, w_busy |-> FALSE, pending_flush |-> FALSE,
             rmiss |-> Nothing, sched_r |-> Nothing, sched_w |-> Nothing]
    /\ fifo = <<>>
    /\ mem = [R |-> Nothing, W |-> Nothing]
    /\ core = [state |-> "free", req |-> <<>>]
    /\ resp = <<>>
    /\ phase = "R"
    /\ after = "core"

\* mem_side_->recv_req(...)
Send(c, a) == \E n \in MemLats : mem' = [mem EXCEPT ![c] = In(n, a)]

\* cpu_resp_recv_ in the core: the instruction leaves Execute.
Respond(mop, a) ==
    /\ resp' = <<[mop |-> mop, addr |-> a]>>
    /\ core' = [state |-> "free", req |-> <<>>]

\* ack_mem_avail in the core: the Memory stage is scheduled for this tick.
Acked == IF core.state = "stalled" THEN [core EXCEPT !.state = "retry"]
                                   ELSE core

Quiet == resp' = <<>> /\ UNCHANGED core

\* recv_mem_resp for a read.
RecvReadResp ==
    /\ phase = "R"
    /\ Due(mem.R.left)
    /\ phase' = "W"
    /\ mem' = [mem EXCEPT !.R = Nothing]
    /\ IF entries = NoCache
       THEN Respond("Read", mem.R.addr) /\ st' = [st EXCEPT !.r_busy = FALSE]
       ELSE Quiet /\ st' = [st EXCEPT !.sched_r = In(1, mem.R.addr)]
    /\ UNCHANGED <<entries, fifo, after>>

\* Nothing is left to write.
DrainEnds ==
    /\ st' = [st EXCEPT !.w_busy = FALSE]
    /\ mem' = [mem EXCEPT !.W = Nothing]

\* Mutated form: the head is dropped and the next store waits for a new one.
DrainedWithoutResend == DrainEnds

\* The head of the FIFO has been written; the next store follows at once.
Drained ==
    IF Tail(fifo) # <<>>
    THEN Send("W", Head(Tail(fifo))) /\ UNCHANGED st
    ELSE DrainEnds

\* Mutated form: the core is only told if the FIFO is full after the pop.
TellsCoreAfterPop == Len(Tail(fifo)) = entries

\* A slot of a full FIFO becomes free.
TellsCore == Len(fifo) = entries

\* recv_mem_resp for a write.
RecvWriteResp ==
    /\ phase = "W"
    /\ Due(mem.W.left)
    /\ phase' = "miss"
    /\ CASE entries = NoCache ->
              /\ Respond("Write", mem.W.addr)
              /\ st' = [st EXCEPT !.w_busy = FALSE]
              /\ mem' = [mem EXCEPT !.W = Nothing]
              /\ UNCHANGED fifo
         [] entries = 0 ->
              /\ Quiet
              /\ st' = [st EXCEPT !.w_busy = FALSE,
                                  !.sched_w = In(1, mem.W.addr)]
              /\ mem' = [mem EXCEPT !.W = Nothing]
              /\ UNCHANGED fifo
         [] OTHER ->
              /\ resp' = <<>>
              /\ core' = IF TellsCore THEN Acked ELSE core
              /\ fifo' = Tail(fifo)
              /\ Drained
    /\ UNCHANGED <<entries, after>>

\* update_impl: the deferred read miss goes to memory.
SendMiss ==
    /\ phase = "miss"
    /\ Due(st.rmiss.left)
    /\ phase' = "read"
    /\ Send("R", st.rmiss.addr)
    /\ st' = [st EXCEPT !.rmiss = Nothing]
    /\ Quiet
    /\ UNCHANGED <<entries, fifo, after>>

\* Mutated form: the response is not cancelled once delivered.
ReadDelivered == [st EXCEPT !.r_busy = FALSE]

\* The members after a scheduled read response.
AfterRead == [st EXCEPT !.sched_r = Nothing, !.r_busy = FALSE]

\* update_impl: the scheduled read response.
DeliverRead ==
    /\ phase = "read"
    /\ Due(st.sched_r.left)
    /\ phase' = "write"
    /\ Respond("Read", st.sched_r.addr)
    /\ st' = AfterRead
    /\ UNCHANGED <<entries, fifo, mem, after>>

\* update_impl: the scheduled write response, which also starts the drain.
DeliverWrite ==
    /\ phase = "write"
    /\ Due(st.sched_w.left)
    /\ phase' = after
    /\ Respond("Write", st.sched_w.addr)
    /\ LET starts == fifo # <<>> /\ ~st.w_busy
       IN  /\ st' = [st EXCEPT !.sched_w = Nothing,
                               !.w_busy = st.w_busy \/ starts]
           /\ IF starts THEN Send("W", Head(fifo)) ELSE UNCHANGED mem
    /\ after' = "core"
    /\ UNCHANGED <<entries, fifo>>

\* A part of the tick in which nothing is due.
NothingDue ==
    /\ CASE phase = "R"     -> ~Due(mem.R.left) /\ phase' = "W"
         [] phase = "W"     -> ~Due(mem.W.left) /\ phase' = "miss"
         [] phase = "miss"  -> ~Due(st.rmiss.left) /\ phase' = "read"
         [] phase = "read"  -> ~Due(st.sched_r.left) /\ phase' = "write"
         [] phase = "write" -> ~Due(st.sched_w.left) /\ phase' = after
         [] phase = "core"  -> core.state # "retry" /\ phase' = "tick"
         [] OTHER           -> FALSE
    /\ after' = IF phase = "write" THEN "core" ELSE after
    /\ Quiet
    /\ UNCHANGED <<entries, st, fifo, mem>>

is_ready(mop) ==
    /\ ~st.pending_flush
    /\ CASE mop = "Read"                  -> ~st.r_busy
         [] mop # "Read" /\ entries <= 0  -> ~st.w_busy
         [] OTHER                         -> Len(fifo) < entries

\* Mutated form: only the oldest store is compared.
ForwardsOldest(a) == fifo # <<>> /\ Head(fifo) = a

\* Is there a store to forward from?
Forwards(a) == a \in Range(fifo)

read_req(a) ==
    /\ IF entries = NoCache
       THEN Send("R", a) /\ st' = [st EXCEPT !.r_busy = TRUE]
       ELSE /\ st' = IF Forwards(a)
                     THEN [st EXCEPT !.sched_r = In(1, a)]
                     ELSE [st EXCEPT !.rmiss = In(1, a), !.r_busy = TRUE]
            /\ UNCHANGED mem
    /\ UNCHANGED fifo

write_req(a) ==
    IF entries <= 0
    THEN /\ Send("W", a)
         /\ st' = [st EXCEPT !.w_busy = TRUE]
         /\ UNCHANGED fifo
    ELSE /\ fifo' = Append(fifo, a)
         /\ st' = [st EXCEPT !.sched_w = In(1, a)]
         /\ UNCHANGED mem

\* send_lsu_req: the instruction in Execute asks, for the first time or again.
SendLsuReq(r) ==
    /\ phase = "core"
    /\ \/ core.state = "free"
       \/ core.state = "retry" /\ core.req = <<r>>
    /\ phase' = "tick"
    /\ resp' = <<>>
    /\ IF is_ready(r.mop)
       THEN /\ core' = [state |-> "waiting", req |-> <<r>>]
            /\ IF r.mop = "Read" THEN read_req(r.addr) ELSE write_req(r.addr)
       ELSE /\ core' = [state |-> "stalled", req |-> <<r>>]
            /\ UNCHANGED <<st, fifo, mem>>
    /\ UNCHANGED <<entries, after>>

Later(x) == [x EXCEPT !.left = Elapse(x.left)]

Advance ==
    /\ phase = "tick"
    /\ mem' = [c \in DOMAIN mem |-> Later(mem[c])]
    /\ Quiet
    /\ UNCHANGED <<entries, fifo>>

Clocked == [st EXCEPT !.rmiss = Later(st.rmiss), !.sched_r = Later(st.sched_r),
                      !.sched_w = Later(st.sched_w)]

Tick ==
    /\ Advance
    /\ st' = Clocked
    /\ phase' = "R"
    /\ UNCHANGED after

\* The instruction fed in this tick is fence.i: flush_all, which the
\* StoreBuffer never takes back and NoCache ignores, and one more do_update.
TickFenceI ==
    /\ Advance
    /\ st' = [Clocked EXCEPT !.pending_flush = entries # NoCache]
    /\ phase' = "miss"
    /\ after' = "R"

Next ==
    \/ RecvReadResp \/ RecvWriteResp
    \/ SendMiss \/ DeliverRead \/ DeliverWrite \/ NothingDue
    \/ \E r \in Reqs : SendLsuReq(r)
    \/ Tick \/ TickFenceI

Step == Next /\ phase # "core"

\* A woken core asks in the tick in which it is woken.
Retry == core.state = "retry" /\ \E r \in Reqs : SendLsuReq(r)

\* The loop goes on to its next statement; the core need not make requests.
Spec ==
    /\ Init
    /\ [][Next]_vars
    /\ WF_vars(Step)
    /\ WF_vars(NothingDue)
    /\ WF_vars(Retry)
----------------------------------------------------------------------------
(* Properties. *)

\* A load that goes to memory never overtakes a buffered store to the same
\* word: read_req compares the FIFO one tick before the read is sent.
LoadSeesStores ==
    \A a \in {st.rmiss.addr, mem.R.addr} : a \notin Range(fifo)

\* The FIFO drains in order and is never stranded: the write outstanding is
\* its head (the assert of recv_mem_resp), and a buffered store is on its way
\* or has a scheduled step that will start it.
DrainsInOrder ==
    /\ st.w_busy <=> mem.W # Nothing
    /\ entries > 0 /\ st.w_busy => fifo # <<>> /\ Head(fifo) = mem.W.addr
    /\ fifo # <<>> => st.w_busy \/ st.sched_w # Nothing

\* A store refused because the FIFO was full is accepted later: the drain
\* wakes the core, unless fence.i has closed the buffer for good.
RefusedIsServed ==
    core.state = "stalled" ~> core.state = "waiting" \/ st.pending_flush

Held(mop, x) == IF x = Nothing THEN <<>>
                ELSE <<[mop |-> mop, addr |-> x.addr]>>

\* Requests accepted and not yet answered; a buffered store is answered long
\* before memory has it.
Outstanding ==
    Held("Read", mem.R) \o Held("Read", st.rmiss) \o Held("Read", st.sched_r)
    \o Held("Write", st.sched_w)
    \o (IF entries <= 0 THEN Held("Write", mem.W) ELSE <<>>)

Port == INSTANCE CachePort WITH q <- Outstanding, resp <- resp,
                                depth <- 1, posts <- {}

\* Both classes implement the port of CachePort with one request outstanding:
\* answered once, with its own address and kind, and eventually, also when
\* fence.i comes in between.
ImplementsPort == Port!Spec
=============================================================================

----------------------------- MODULE RAMArbiter -----------------------------
(* The SoC memory fabric (class RAMArbiter): one slot per host and channel, *)
(* independent read and write channels, one transfer in service per         *)
(* channel, the pending host with the highest id served next.               *)
(*                                                                          *)
(* One tick of the main loop is: update_impl looks at the read channel, then *)
(* at the write channel; then the caches and the core run and may call       *)
(* recv_req; then curr_tick advances.  A completion runs the host's           *)
(* recv_mem_resp in the middle of update_impl: a handler that sends a new     *)
(* request finds the channel still marked busy with the finished transfer.    *)
EXTENDS Ticks, Sequences

CONSTANTS
    NHosts,         \* hosts_.size()
    Addrs,          \* the addresses the hosts use
    Devices,        \* indices of devices_
    AddrMap,        \* addr_map_: sequence of [lo, hi, device]
    DefaultDevice,  \* default_device_
    Latency,        \* Latency[d][c]: what devices_[d]->access may return
    ReissueHosts    \* hosts whose write-response handler sends a new write

Hosts  == 0..(NHosts - 1)
Chans  == {"R", "W"}
NoHost == 65535     \* static_cast<uint16_t>(-1)
NoReq  == -1        \* an empty slot (nullptr)

ASSUME HostsAssumption == NHosts \in 1..65535
ASSUME AddrsAssumption == Addrs \subseteq Nat
ASSUME DevicesAssumption ==
    /\ DefaultDevice \in Devices
    /\ \A i \in DOMAIN AddrMap : AddrMap[i].device \in Devices
\* A busy deadline, hand-over tick included, is never mistaken for InfTime.
ASSUME LatencyAssumption ==
    \A d \in Devices, c \in Chans : Latency[d][c] \subseteq 0..(InfTime - 2)
ASSUME ReissueAssumption == ReissueHosts \subseteq Hosts

VARIABLES
    reqs,       \* reqs_: reqs[c][h] is the address in host h's slot
    serving,    \* r_serving_id_ / w_serving_id_
    busy,       \* ticks until r_busy_until_ / w_busy_until_
    waiting,    \* the hosts' side: r_waiting_ / w_waiting_, r_busy_ / w_busy_
    phase,      \* where the tick is: channel "R", channel "W", the hosts
    handling,   \* the host whose recv_mem_resp update_impl is running
    starts      \* history: how often the request in a slot had its latency
                \* computed, that is, how often a device was told of it

vars == <<reqs, serving, busy, waiting, phase, handling, starts>>

\* Slots hold addresses, served hosts exist and a deadline never runs below
\* zero: update_impl completes a transfer in the tick it is due.
TypeOK ==
    /\ reqs \in [Chans -> [Hosts -> Addrs \cup {NoReq}]]
    /\ serving \in [Chans -> Hosts \cup {NoHost}]
    /\ busy \in [Chans -> Times]
    /\ waiting \in [Chans -> [Hosts -> BOOLEAN]]
    /\ phase \in {"R", "W", "hosts"}
    /\ handling \in Hosts \cup {NoHost}
    /\ starts \in [Chans -> [Hosts -> Nat]]

Init ==
    /\ reqs = [c \in Chans |-> [h \in Hosts |-> NoReq]]
    /\ serving = [c \in Chans |-> NoHost]
    /\ busy = [c \in Chans |-> InfTime]
    /\ waiting = [c \in Chans |-> [h \in Hosts |-> FALSE]]
    /\ phase = "R"
    /\ handling = NoHost
    /\ starts = [c \in Chans |-> [h \in Hosts |-> 0]]

----------------------------------------------------------------------------
Contains(e, a) == e.lo <= a /\ a <= e.hi

\* device_of scans addr_map_ from the front: the first entry that contains the
\* address, the default device when none does.
IsDeviceOf(a, d) ==
    \/ \E i \in DOMAIN AddrMap :
          /\ Contains(AddrMap[i], a)
          /\ \A j \in DOMAIN AddrMap : j < i => ~Contains(AddrMap[j], a)
          /\ d = AddrMap[i].device
    \/ /\ \A i \in DOMAIN AddrMap : ~Contains(AddrMap[i], a)
       /\ d = DefaultDevice

\* lat_of: the latency is computed when service starts.
LatOf(c, a) ==
    UNION {Latency[d][c] : d \in {e \in Devices : IsDeviceOf(a, e)}}

\* Mutated forms of recv_req: a busy channel is restarted; a request to an idle
\* channel is only queued.
RecvReqRestarts(c, h, a) ==
    /\ reqs' = [reqs EXCEPT ![c][h] = a]
    /\ \E lat \in LatOf(c, a) : busy' = [busy EXCEPT ![c] = lat]
    /\ serving' = [serving EXCEPT ![c] = h]
    /\ starts' = [starts EXCEPT ![c][h] = 1]
RecvReqOnlyQueues(c, h, a) ==
    /\ reqs' = [reqs EXCEPT ![c][h] = a]
    /\ starts' = [starts EXCEPT ![c][h] = 0]
    /\ UNCHANGED <<busy, serving>>

\* recv_req: the slot is filled; an idle channel starts serving it at once.
\* (A slot that was full, which assert(ent == nullptr) forbids, would lose a
\* request that was started.)
recv_req(c, h, a) ==
    /\ reqs' = [reqs EXCEPT ![c][h] = a]
    /\ IF busy[c] = InfTime
       THEN \E lat \in LatOf(c, a) :
               /\ busy' = [busy EXCEPT ![c] = lat]
               /\ serving' = [serving EXCEPT ![c] = h]
               /\ starts' = [starts EXCEPT ![c][h] = 1]
       ELSE /\ starts' = [starts EXCEPT ![c][h] = 0]
            /\ UNCHANGED <<busy, serving>>

\* A cache or the core sends a request; it does so only while the host's own
\* flag says that nothing is outstanding on that channel.
SendReq(c, h, a) ==
    /\ phase = "hosts"
    /\ ~waiting[c][h]
    /\ recv_req(c, h, a)
    /\ waiting' = [waiting EXCEPT ![c][h] = TRUE]
    /\ UNCHANGED <<phase, handling>>

----------------------------------------------------------------------------
Completes(c) == Due(busy[c]) /\ serving[c] # NoHost

NextPhase == [c \in Chans |-> IF c = "R" THEN "W" ELSE "hosts"]

\* Mutated form: the channel is marked idle before the handler runs.
RespondIdleFirst(c) ==
    /\ phase = c
    /\ handling = NoHost
    /\ Completes(c)
    /\ handling' = serving[c]
    /\ reqs' = [reqs EXCEPT ![c][serving[c]] = NoReq]
    /\ waiting' = [waiting EXCEPT ![c][serving[c]] = FALSE]
    /\ starts' = [starts EXCEPT ![c][serving[c]] = 0]
    /\ busy' = [busy EXCEPT ![c] = InfTime]
    /\ serving' = [serving EXCEPT ![c] = NoHost]
    /\ UNCHANGED phase

\* One channel of update_impl with its transfer finished: the request is moved
\* out of its slot into recv_mem_resp, which clears the host's flag.  The
\* channel keeps its deadline and its host until the handler returns.
Respond(c) ==
    /\ phase = c
    /\ handling = NoHost
    /\ Completes(c)
    /\ handling' = serving[c]
    /\ reqs' = [reqs EXCEPT ![c][serving[c]] = NoReq]
    /\ waiting' = [waiting EXCEPT ![c][serving[c]] = FALSE]
    /\ starts' = [starts EXCEPT ![c][serving[c]] = 0]
    /\ UNCHANGED <<serving, busy, phase>>

\* The handler of a StoreBuffer's write sends the next one, through recv_req.
Reissue(h, a) ==
    /\ phase = "W"
    /\ handling = h
    /\ h \in ReissueHosts
    /\ ~waiting["W"][h]
    /\ recv_req("W", h, a)
    /\ waiting' = [waiting EXCEPT !["W"][h] = TRUE]
    /\ UNCHANGED <<phase, handling>>

\* Mutated form: the scan runs from the front.
FirstInScan(slots, h) ==
    slots[h] # NoReq /\ \A k \in Hosts : k < h => slots[k] = NoReq

\* The scan of reqs_ runs from rbegin() and stops at the first full slot.
PickedByScan(slots, h) ==
    slots[h] # NoReq /\ \A k \in Hosts : k > h => slots[k] = NoReq

\* The handler has returned: start the next request one tick later, or go idle.
PickNext(c) ==
    /\ phase = c
    /\ handling # NoHost
    /\ \/ /\ \A h \in Hosts : reqs[c][h] = NoReq
          /\ serving' = [serving EXCEPT ![c] = NoHost]
          /\ busy' = [busy EXCEPT ![c] = InfTime]
          /\ UNCHANGED starts
       \/ \E h \in Hosts :
             /\ PickedByScan(reqs[c], h)
             /\ serving' = [serving EXCEPT ![c] = h]
             /\ starts' = [starts EXCEPT ![c][h] = @ + 1]
             /\ \E lat \in LatOf(c, reqs[c][h]) :
                   busy' = [busy EXCEPT ![c] = 1 + lat]
    /\ handling' = NoHost
    /\ phase' = NextPhase[c]
    /\ UNCHANGED <<reqs, waiting>>

\* The same channel with nothing to complete.
NotYet(c) ==
    /\ phase = c
    /\ handling = NoHost
    /\ ~Completes(c)
    /\ phase' = NextPhase[c]
    /\ UNCHANGED <<reqs, serving, busy, waiting, handling, starts>>

Tick ==
    /\ phase = "hosts"
    /\ busy' = [c \in Chans |-> Elapse(busy[c])]
    /\ phase' = "R"
    /\ UNCHANGED <<reqs, serving, waiting, handling, starts>>

Next ==
    \/ \E c \in Chans : Respond(c) \/ PickNext(c) \/ NotYet(c)
    \/ \E h \in Hosts, a \in Addrs : Reissue(h, a)
    \/ \E c \in Chans, h \in Hosts, a \in Addrs : SendReq(c, h, a)
    \/ Tick

\* The main loop never stops ticking on its own.
Fairness ==
    /\ \A c \in Chans : WF_vars(Respond(c) \/ PickNext(c) \/ NotYet(c))
    /\ WF_vars(Tick)

Spec == Init /\ [][Next]_vars /\ Fairness
----------------------------------------------------------------------------
(* Properties. *)

\* Channel c is between the move out of a slot and the scan: its deadline and
\* its host are those of the transfer just answered.
InHandler(c) == phase = c /\ handling # NoHost

\* Every request is started once: the one in service has been announced to its
\* device exactly once, those that queue not yet, and an empty slot leaves
\* nothing behind.  A request that recv_req or the scan starts again, from a
\* response handler or because it was overwritten in its slot, would be charged
\* to the SDRAM twice and answered to the wrong deadline.
StartedOnce ==
    \A c \in Chans, h \in Hosts :
        starts[c][h] = IF serving[c] = h /\ ~InHandler(c) THEN 1 ELSE 0

\* A channel in service points at a full slot and has a finite deadline; the
\* response is never sent from a moved-out (null) request.
ChannelConsistent ==
    \A c \in Chans :
        /\ serving[c] = NoHost <=> busy[c] = InfTime
        /\ serving[c] # NoHost /\ ~InHandler(c) => reqs[c][serving[c]] # NoReq

\* No request is stranded: an idle channel has no full slot, because idle
\* requests are started by recv_req and later ones by the scan on completion.
WorkConserving ==
    \A c \in Chans :
        serving[c] = NoHost => \A h \in Hosts : reqs[c][h] = NoReq

\* A hand-over never passes a waiting host over for one with a lower id, not
\* even for the write the finished host re-sends from its own response handler.
PriorityRespected ==
    [][\A c \in Chans, h \in Hosts :
          (InHandler(c) /\ ~InHandler(c)' /\ reqs[c][h] # NoReq)
             => serving'[c] \in h..(NHosts - 1)]_vars

\* The transfer in service is never replaced, nor its deadline pushed back,
\* before its response is delivered and the handler has returned: recv_req from
\* the handler or from another host leaves a busy channel alone.
NotPreempted ==
    [][\A c \in Chans :
          (serving[c] # NoHost /\ ~(InHandler(c) /\ ~InHandler(c)'))
             => /\ serving'[c] = serving[c]
                /\ busy'[c] <= busy[c]]_vars

\* A waiting host is answered, or the channel is busy with a host of at least
\* its priority: a lower one delays it by at most the transfer in progress.
ServedUnlessOutranked ==
    \A c \in Chans, h \in Hosts :
        waiting[c][h] ~> (~waiting[c][h] \/ serving[c] \in h..(NHosts - 1))

=============================================================================

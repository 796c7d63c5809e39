------------------------------ MODULE MemFabric ------------------------------
(* The memory fabric as main.cc builds it: the arbiter with the SDRAM model  *)
(* as one of its devices.  Each step of the arbiter that starts a transfer   *)
(* to the SDRAM is, in the same step, an access of the SDRAM model, whose    *)
(* answer is the transfer's latency.                                         *)
EXTENDS RAMArbiter, Sdram

CONSTANTS
    Sdrams,     \* the devices that are an SdramRamDevice
    BankOf, RowOf,  \* bank_of and row_of on Addrs
    Traffic     \* the <<c, h, a>> the hosts send

ASSUME FabricAssumption ==
    /\ Traffic \subseteq Chans \X Hosts \X Addrs
    /\ \A a \in Addrs : BankOf[a] \in Banks /\ RowOf[a] \in Rows

VARIABLE young      \* history: transfers in service that began since reset_stats

fabricVars == <<vars, sdVars, young>>

FabricInit == Init /\ SdramInit /\ young = [c \in Chans |-> FALSE]

ToSdram(a) == \E d \in Sdrams : IsDeviceOf(a, d)

\* lat_of, RamDevice::access and SdramRamDevice::latency_impl.
StartTransfer(c, h, a, delay) ==
    /\ young' = [young EXCEPT ![c] = TRUE]
    /\ IF ToSdram(a)
       THEN /\ Access(h, BankOf[a], RowOf[a], c = "W")
            /\ busy'[c] = delay + AccessLat(h, BankOf[a], RowOf[a], c = "W")
       ELSE UNCHANGED sdVars

\* recv_req, called by a host or from a response handler.
Received(c, h, a) ==
    IF busy[c] = InfTime THEN StartTransfer(c, h, a, 0) ELSE UNCHANGED <<sdVars, young>>

FabricSend(c, h, a) == SendReq(c, h, a) /\ Received(c, h, a)

FabricReissue(h, a) == Reissue(h, a) /\ Received("W", h, a)

FabricRespond(c) == Respond(c) /\ UNCHANGED <<sdVars, young>>

FabricPick(c) ==
    /\ PickNext(c)
    /\ IF serving'[c] # NoHost
       THEN StartTransfer(c, serving'[c], reqs[c][serving'[c]], 1)
       ELSE UNCHANGED <<sdVars, young>>

FabricNotYet(c) == NotYet(c) /\ UNCHANGED <<sdVars, young>>

FabricTick == Tick /\ DevTick /\ UNCHANGED young

\* A tick whose instruction is SysResetStats.
FabricTickReset ==
    /\ Tick
    /\ DevTickReset
    /\ young' = [c \in Chans |-> FALSE]

FabricNext ==
    \/ \E c \in Chans : FabricRespond(c) \/ FabricPick(c) \/ FabricNotYet(c)
    \/ \E h \in Hosts, a \in Addrs : FabricReissue(h, a)
    \/ \E t \in Traffic : FabricSend(t[1], t[2], t[3])
    \/ FabricTick
    \/ FabricTickReset

\* The main loop never stops ticking on its own.
FabricSpec ==
    /\ FabricInit
    /\ [][FabricNext]_fabricVars
    /\ \A c \in Chans :
          WF_fabricVars(FabricRespond(c) \/ FabricPick(c) \/ FabricNotYet(c))
    /\ WF_fabricVars(FabricTick \/ FabricTickReset)
----------------------------------------------------------------------------
(* Properties. *)

\* Channel d starts the request in its slot, on arrival or by hand-over.
Starts(d) ==
    /\ serving'[d] # NoHost
    /\ starts'[d][serving'[d]] > starts[d][serving'[d]]

\* A host's read and its write that are both at the SDRAM are answered in the
\* order they were started, although the arbiter keeps a deadline per channel,
\* adds a tick at a hand-over and truncates to device ticks: a transfer started
\* while the host's other one is in service ends later, whether recv_req starts
\* it or the scan.  (reset_stats forgets the transfers in progress.)
HostInOrder ==
    [][\A c, d \in Chans :
          (/\ c # d /\ Starts(d)
           /\ serving[c] = serving'[d] /\ young[c]
           /\ ToSdram(reqs[c][serving[c]]) /\ ToSdram(reqs'[d][serving'[d]]))
             => busy'[d] > busy'[c]]_fabricVars
=============================================================================

-------------------------- MODULE RAMArbiter_proofs --------------------------
(* The arbiter's safety properties for any number of hosts, address map and *)
(* latencies.  The invariants are inductive together: a host sends only into *)
(* an empty slot (Handshake), so that a request that was started is never    *)
(* overwritten (StartedOnce); an idle channel has nothing queued             *)
(* (WorkConserving), so that recv_req may start at once; and while a handler *)
(* runs the channel still belongs to it (HandlerOK), so that a request sent  *)
(* from the handler is left to the scan.                                     *)
EXTENDS RAMArbiter, TLAPS

\* The hosts' flags are up exactly for the full slots.
Handshake ==
    \A c \in Chans, h \in Hosts : waiting[c][h] <=> reqs[c][h] # NoReq

\* A handler runs inside update_impl, for the host whose transfer has ended.
HandlerOK == handling # NoHost => phase \in Chans /\ serving[phase] = handling

IInv == /\ TypeOK /\ Handshake /\ HandlerOK
        /\ StartedOnce /\ ChannelConsistent /\ WorkConserving

\* Latencies drawn by lat_of are naturals that leave room for the hand-over
\* tick below InfTime.
LEMMA LatOfBounded ==
    ASSUME NEW c \in Chans, NEW a \in Addrs, NEW lat \in LatOf(c, a)
    PROVE  lat \in 0..(InfTime - 2)
  BY LatencyAssumption DEF LatOf

\* Waiting one tick keeps a deadline in range and never turns a finite
\* deadline into InfTime or back.
LEMMA ElapseKeepsInfTime ==
    ASSUME NEW t \in Times
    PROVE  /\ Elapse(t) \in Times
           /\ Elapse(t) <= t
           /\ Elapse(t) = InfTime <=> t = InfTime
  BY InfTimeAssumption DEF Elapse, Times

\* A host id is never the uint16_t -1 that marks an idle channel, and an
\* address is never the empty slot.
LEMMA SentinelsApart ==
    /\ \A h \in Hosts : h # NoHost
    /\ \A a \in Addrs : a # NoReq
  BY HostsAssumption, AddrsAssumption DEF Hosts, NoHost, NoReq

\* The invariants hold initially.
LEMMA InitEstablishesIInv == Init => IInv
<1> SUFFICES ASSUME Init PROVE IInv
  OBVIOUS
<1>1. \A h \in Hosts : h # NoHost
  BY SentinelsApart
<1>2. TypeOK /\ Handshake /\ HandlerOK /\ ChannelConsistent /\ WorkConserving
  BY InfTimeAssumption, HostsAssumption
  DEF Init, TypeOK, Handshake, HandlerOK, ChannelConsistent, WorkConserving, Times
<1>3. StartedOnce
  BY <1>1 DEF Init, StartedOnce
<1> QED BY <1>2, <1>3 DEF IInv

\* recv_req, called by a host whose flag is down, preserves the invariants, from
\* a response handler or not.
LEMMA RecvReqPreservesIInv ==
    ASSUME IInv, NEW c \in Chans, NEW h \in Hosts, NEW a \in Addrs,
           recv_req(c, h, a), ~waiting[c][h],
           waiting' = [waiting EXCEPT ![c][h] = TRUE], UNCHANGED <<phase, handling>>
    PROVE  IInv'
<1> USE DEF IInv, recv_req
<1>0. /\ reqs' = [reqs EXCEPT ![c][h] = a] /\ reqs[c][h] = NoReq
      /\ \A d \in Chans : InHandler(d)' = InHandler(d)
  BY DEF Handshake, InHandler
<1>1. Handshake'
  BY SentinelsApart DEF Handshake, TypeOK
<1>2. CASE busy[c] = InfTime
  <2>1. PICK lat \in LatOf(c, a) : /\ busy' = [busy EXCEPT ![c] = lat]
                                   /\ serving' = [serving EXCEPT ![c] = h]
                                   /\ starts' = [starts EXCEPT ![c][h] = 1]
    BY <1>2
  <2>2. lat \in 0..(InfTime - 2)
    BY LatOfBounded
  <2>3. TypeOK'
    BY <2>1, <2>2, InfTimeAssumption DEF TypeOK, Times
  <2>4. serving[c] = NoHost /\ ~InHandler(c) /\ h # NoHost
    BY <1>2, SentinelsApart DEF ChannelConsistent, HandlerOK, InHandler, TypeOK
  <2>5. ChannelConsistent'
    BY <2>1, <2>2, InfTimeAssumption, SentinelsApart
    DEF ChannelConsistent, TypeOK, Times, InHandler
  <2>6. WorkConserving'
    BY <2>1, SentinelsApart DEF WorkConserving, TypeOK
  <2>7. HandlerOK'
    BY <2>1, <2>4 DEF HandlerOK, TypeOK, InHandler
  <2>8. StartedOnce'
    <3> SUFFICES ASSUME NEW d \in Chans, NEW k \in Hosts
                 PROVE  starts'[d][k] = IF serving'[d] = k /\ ~InHandler(d)' THEN 1 ELSE 0
      BY DEF StartedOnce
    <3>1. starts[d][k] = IF serving[d] = k /\ ~InHandler(d) THEN 1 ELSE 0
      BY DEF StartedOnce
    <3>2. CASE d = c
      <4>1. starts'[d][k] = IF k = h THEN 1 ELSE starts[d][k]
        BY <2>1, <3>2 DEF TypeOK
      <4>2. serving'[d] = h /\ serving[d] # k
        BY <2>1, <2>4, <3>2, SentinelsApart DEF TypeOK
      <4> QED BY <1>0, <2>4, <3>1, <3>2, <4>1, <4>2
    <3>3. CASE d # c
      <4>1. starts'[d] = starts[d] /\ serving'[d] = serving[d]
        BY <2>1, <3>3 DEF TypeOK
      <4> QED BY <1>0, <3>1, <4>1
    <3> QED BY <3>2, <3>3
  <2> QED BY <1>1, <2>3, <2>5, <2>6, <2>7, <2>8
<1>3. CASE busy[c] # InfTime
  <2>1. starts' = [starts EXCEPT ![c][h] = 0] /\ UNCHANGED <<busy, serving>>
    BY <1>3
  <2>2. TypeOK'
    BY <2>1 DEF TypeOK
  <2>3. ChannelConsistent' /\ WorkConserving' /\ HandlerOK'
    BY <1>3, <2>1, SentinelsApart
    DEF ChannelConsistent, WorkConserving, HandlerOK, TypeOK, InHandler
  <2>4. ~(serving[c] = h /\ ~InHandler(c))
    BY <1>0, SentinelsApart DEF ChannelConsistent
  <2>5. StartedOnce'
    <3> SUFFICES ASSUME NEW d \in Chans, NEW k \in Hosts
                 PROVE  starts'[d][k] = IF serving[d] = k /\ ~InHandler(d) THEN 1 ELSE 0
      BY <1>0, <2>1 DEF StartedOnce
    <3>1. starts[d][k] = IF serving[d] = k /\ ~InHandler(d) THEN 1 ELSE 0
      BY DEF StartedOnce
    <3>2. starts'[d][k] = IF d = c /\ k = h THEN 0 ELSE starts[d][k]
      BY <2>1 DEF TypeOK
    <3> QED BY <2>4, <3>1, <3>2
  <2> QED BY <1>1, <2>2, <2>3, <2>5
<1> QED BY <1>2, <1>3

\* A request of a host preserves the invariants.
LEMMA SendReqPreservesIInv ==
    ASSUME IInv, NEW c \in Chans, NEW h \in Hosts, NEW a \in Addrs, SendReq(c, h, a)
    PROVE  IInv'
  BY RecvReqPreservesIInv DEF SendReq

\* So does one sent from a response handler.
LEMMA ReissuePreservesIInv ==
    ASSUME IInv, NEW h \in Hosts, NEW a \in Addrs, Reissue(h, a)
    PROVE  IInv'
  BY RecvReqPreservesIInv DEF Reissue, Chans

\* A response moves a request out of its slot and preserves the invariants.
LEMMA RespondPreservesIInv ==
    ASSUME IInv, NEW c \in Chans, Respond(c)
    PROVE  IInv'
<1> DEFINE s == serving[c]
<1> USE DEF IInv
<1>1. s \in Hosts /\ s # NoHost /\ handling = NoHost /\ phase = c /\ busy[c] # InfTime
  BY DEF Respond, Completes, TypeOK, ChannelConsistent
<1>2. /\ reqs' = [reqs EXCEPT ![c][s] = NoReq]
      /\ waiting' = [waiting EXCEPT ![c][s] = FALSE]
      /\ starts' = [starts EXCEPT ![c][s] = 0]
      /\ handling' = s /\ UNCHANGED <<serving, busy, phase>>
  BY DEF Respond
<1>3. TypeOK'
  BY <1>1, <1>2 DEF TypeOK
<1>4. Handshake' /\ HandlerOK' /\ WorkConserving'
  BY <1>1, <1>2 DEF Handshake, HandlerOK, WorkConserving, TypeOK
<1>5. \A d \in Chans : ~InHandler(d) /\ (InHandler(d)' <=> d = c)
  BY <1>1, <1>2 DEF InHandler
<1>6. ChannelConsistent'
  BY <1>1, <1>2, <1>5 DEF ChannelConsistent, TypeOK
<1>7. StartedOnce'
  <2> SUFFICES ASSUME NEW d \in Chans, NEW k \in Hosts
               PROVE  starts'[d][k] = IF serving'[d] = k /\ ~InHandler(d)' THEN 1 ELSE 0
    BY DEF StartedOnce
  <2>1. starts[d][k] = IF serving[d] = k THEN 1 ELSE 0
    BY <1>5 DEF StartedOnce
  <2>2. starts'[d][k] = IF d = c /\ k = s THEN 0 ELSE starts[d][k]
    BY <1>1, <1>2 DEF TypeOK
  <2> QED BY <1>2, <1>5, <2>1, <2>2
<1> QED BY <1>3, <1>4, <1>6, <1>7

\* The scan preserves the invariants: it starts a request that was not started.
LEMMA PickNextPreservesIInv ==
    ASSUME IInv, NEW c \in Chans, PickNext(c)
    PROVE  IInv'
<1> USE DEF IInv
<1>1. /\ phase = c /\ handling # NoHost /\ handling' = NoHost /\ phase' = NextPhase[c]
      /\ reqs' = reqs /\ waiting' = waiting
  BY DEF PickNext
<1>2. Handshake' /\ HandlerOK'
  BY <1>1 DEF Handshake, HandlerOK
<1>3. \A d \in Chans : ~InHandler(d)' /\ (InHandler(d) <=> d = c)
  BY <1>1 DEF InHandler
<1>4. phase' \in {"R", "W", "hosts"} /\ handling' \in Hosts \cup {NoHost}
  BY <1>1 DEF NextPhase, Chans
<1>5. \A h \in Hosts : starts[c][h] = 0
  BY <1>3 DEF StartedOnce
<1>6. CASE /\ \A h \in Hosts : reqs[c][h] = NoReq
           /\ serving' = [serving EXCEPT ![c] = NoHost]
           /\ busy' = [busy EXCEPT ![c] = InfTime]
           /\ UNCHANGED starts
  <2>1. TypeOK'
    BY <1>1, <1>4, <1>6, InfTimeAssumption DEF TypeOK, Times
  <2>2. ChannelConsistent' /\ WorkConserving'
    BY <1>1, <1>3, <1>6 DEF TypeOK, ChannelConsistent, WorkConserving
  <2>3. StartedOnce'
    BY <1>3, <1>5, <1>6, SentinelsApart DEF TypeOK, StartedOnce
  <2> QED BY <1>2, <2>1, <2>2, <2>3
<1>7. CASE \E h \in Hosts :
              /\ PickedByScan(reqs[c], h)
              /\ serving' = [serving EXCEPT ![c] = h]
              /\ starts' = [starts EXCEPT ![c][h] = @ + 1]
              /\ \E lat \in LatOf(c, reqs[c][h]) :
                    busy' = [busy EXCEPT ![c] = 1 + lat]
  <2>1. PICK h \in Hosts :
              /\ reqs[c][h] # NoReq
              /\ serving' = [serving EXCEPT ![c] = h]
              /\ starts' = [starts EXCEPT ![c][h] = @ + 1]
              /\ \E lat \in LatOf(c, reqs[c][h]) :
                    busy' = [busy EXCEPT ![c] = 1 + lat]
    BY <1>7 DEF PickedByScan
  <2>2. reqs[c][h] \in Addrs
    BY <2>1 DEF TypeOK
  <2>3. PICK lat \in LatOf(c, reqs[c][h]) : busy' = [busy EXCEPT ![c] = 1 + lat]
    BY <2>1
  <2>4. lat \in 0..(InfTime - 2)
    BY <2>2, LatOfBounded
  <2>5. TypeOK'
    BY <1>1, <1>4, <2>1, <2>3, <2>4, InfTimeAssumption DEF TypeOK, Times
  <2>6. ChannelConsistent'
    BY <1>1, <1>3, <2>1, <2>3, <2>4, InfTimeAssumption, SentinelsApart
    DEF TypeOK, ChannelConsistent
  <2>7. WorkConserving'
    BY <1>1, <2>1, SentinelsApart DEF TypeOK, WorkConserving
  <2>8. StartedOnce'
    <3> SUFFICES ASSUME NEW d \in Chans, NEW k \in Hosts
                 PROVE  starts'[d][k] = IF serving'[d] = k THEN 1 ELSE 0
      BY <1>3 DEF StartedOnce
    <3>1. CASE d = c
      <4>1. starts'[c][k] = (IF k = h THEN starts[c][h] + 1 ELSE starts[c][k])
            /\ serving'[c] = h
        BY <2>1 DEF TypeOK
      <4> QED BY <1>5, <3>1, <4>1
    <3>2. CASE d # c
      <4>1. starts'[d] = starts[d] /\ serving'[d] = serving[d]
        BY <2>1, <3>2 DEF TypeOK
      <4> QED BY <1>3, <3>2, <4>1 DEF StartedOnce
    <3> QED BY <3>1, <3>2
  <2> QED BY <1>2, <2>5, <2>6, <2>7, <2>8
<1> QED BY <1>6, <1>7 DEF PickNext

\* The passage of time preserves the invariants.
LEMMA TickPreservesIInv ==
    ASSUME IInv, Tick
    PROVE  IInv'
<1>1. \A c \in Chans : /\ busy'[c] \in Times
                       /\ busy'[c] = InfTime <=> busy[c] = InfTime
  BY ElapseKeepsInfTime DEF Tick, IInv, TypeOK
<1>2. TypeOK'
  BY <1>1 DEF Tick, IInv, TypeOK
<1>0. handling = NoHost /\ \A c \in Chans : ~InHandler(c) /\ ~InHandler(c)'
  BY DEF Tick, IInv, HandlerOK, InHandler, Chans
<1>3. /\ Handshake' /\ HandlerOK' /\ ChannelConsistent' /\ WorkConserving'
      /\ StartedOnce'
  BY <1>0, <1>1
  DEF Tick, IInv, Handshake, HandlerOK, ChannelConsistent, WorkConserving, StartedOnce
<1> QED BY <1>2, <1>3 DEF IInv

\* Every step preserves the invariants.
LEMMA NextPreservesIInv == IInv /\ [Next]_vars => IInv'
<1> SUFFICES ASSUME IInv, [Next]_vars PROVE IInv'
  OBVIOUS
<1>1. ASSUME NEW c \in Chans, Respond(c) \/ PickNext(c) PROVE IInv'
  BY <1>1, RespondPreservesIInv, PickNextPreservesIInv
<1>2. ASSUME NEW c \in Chans, NotYet(c) PROVE IInv'
  <2>1. \A d \in Chans : ~InHandler(d) /\ ~InHandler(d)'
    BY <1>2 DEF NotYet, InHandler
  <2> QED BY <1>2, <2>1 DEF NotYet, NextPhase, Chans, IInv, TypeOK, Handshake, HandlerOK,
              StartedOnce, ChannelConsistent, WorkConserving
<1>6. ASSUME NEW h \in Hosts, NEW a \in Addrs, Reissue(h, a) PROVE IInv'
  BY <1>6, ReissuePreservesIInv
<1>3. ASSUME NEW c \in Chans, NEW h \in Hosts, NEW a \in Addrs,
             SendReq(c, h, a)
      PROVE  IInv'
  BY <1>3, SendReqPreservesIInv
<1>4. CASE Tick
  BY <1>4, TickPreservesIInv
<1>5. CASE UNCHANGED vars
  BY <1>5 DEF vars, IInv, TypeOK, Handshake, HandlerOK, StartedOnce, ChannelConsistent,
              WorkConserving, InHandler
<1> QED BY <1>1, <1>2, <1>3, <1>4, <1>5, <1>6 DEF Next

\* The conjunction of the invariants holds in every reachable state.
LEMMA IInvSafe == Init /\ [][Next]_vars => []IInv
<1>1. Init => IInv
  BY InitEstablishesIInv
<1>2. IInv /\ [Next]_vars => IInv'
  BY NextPreservesIInv
<1> QED BY <1>1, <1>2, PTL

\* The inductive invariant, for the fair specification.
THEOREM IInvHolds == Spec => []IInv
  BY IInvSafe, PTL DEF Spec

\* Type correctness of the arbiter and its hosts.
THEOREM TypeCorrect == Spec => []TypeOK
<1>1. IInv => TypeOK
  BY DEF IInv
<1> QED BY <1>1, IInvHolds, PTL

\* Every request is announced to its device exactly once, whatever the traffic,
\* the latencies and the handlers that send from inside update_impl.
THEOREM StartedOnceHolds == Spec => []StartedOnce
<1>1. IInv => StartedOnce
  BY DEF IInv
<1> QED BY <1>1, IInvHolds, PTL

\* A channel in service always has a full slot and a finite deadline.
THEOREM ChannelConsistentHolds == Spec => []ChannelConsistent
<1>1. IInv => ChannelConsistent
  BY DEF IInv
<1> QED BY <1>1, IInvHolds, PTL

\* No request is ever stranded in an idle channel.
THEOREM WorkConservingHolds == Spec => []WorkConserving
<1>1. IInv => WorkConserving
  BY DEF IInv
<1> QED BY <1>1, IInvHolds, PTL

\* A hand-over goes to the waiting host with the highest id, whatever the
\* scheduling of the loop.
LEMMA PrioritySafe == Init /\ [][Next]_vars => PriorityRespected
<1> DEFINE A == \A c \in Chans, h \in Hosts :
          (InHandler(c) /\ ~InHandler(c)' /\ reqs[c][h] # NoReq)
             => serving'[c] \in h..(NHosts - 1)
<1>1. ASSUME IInv, [Next]_vars PROVE [A]_vars
  <2> SUFFICES ASSUME Next, NEW c \in Chans, NEW h \in Hosts,
                      InHandler(c), ~InHandler(c)', reqs[c][h] # NoReq
               PROVE  serving'[c] \in h..(NHosts - 1)
    BY <1>1
  <2>1. PickNext(c)
    <3>1. ~Tick /\ \A d \in Chans, k \in Hosts, a \in Addrs : ~SendReq(d, k, a)
      BY DEF Tick, SendReq, Chans, InHandler
    <3>2. \A k \in Hosts, a \in Addrs : ~Reissue(k, a)
      BY DEF Reissue, InHandler
    <3>3. \A d \in Chans : (Respond(d) \/ PickNext(d) \/ NotYet(d)) => d = c /\ PickNext(d)
      BY DEF Respond, PickNext, NotYet, InHandler
    <3> QED BY <3>1, <3>2, <3>3 DEF Next
  <2>4. PICK k \in Hosts : /\ PickedByScan(reqs[c], k)
                           /\ serving' = [serving EXCEPT ![c] = k]
    BY <2>1 DEF PickNext
  <2>5. serving'[c] = k
    BY <1>1, <2>4 DEF IInv, TypeOK
  <2>6. ~(h > k)
    BY <2>4 DEF PickedByScan
  <2> QED BY <2>5, <2>6, HostsAssumption DEF Hosts
<1> QED BY <1>1, IInvSafe, PTL DEF PriorityRespected

\* A hand-over goes to the waiting host with the highest id.
THEOREM PriorityRespectedHolds == Spec => PriorityRespected
  BY PrioritySafe, PTL DEF Spec

\* A transfer in service keeps its host and its deadline until its response,
\* whatever the scheduling of the loop.
LEMMA NotPreemptedSafe == Init /\ [][Next]_vars => NotPreempted
<1> DEFINE A == \A c \in Chans :
          (serving[c] # NoHost /\ ~(InHandler(c) /\ ~InHandler(c)'))
             => /\ serving'[c] = serving[c]
                /\ busy'[c] <= busy[c]
<1>1. ASSUME IInv, [Next]_vars PROVE [A]_vars
  <2> SUFFICES ASSUME Next, NEW c \in Chans, serving[c] # NoHost,
                      ~(InHandler(c) /\ ~InHandler(c)')
               PROVE  serving'[c] = serving[c] /\ busy'[c] <= busy[c]
    BY <1>1
  <2> USE <1>1
  <2>1. busy[c] \in Times /\ busy[c] <= busy[c] /\ busy[c] # InfTime
    BY DEF IInv, TypeOK, ChannelConsistent, Times
  <2>2. ASSUME NEW d \in Chans, Respond(d) \/ NotYet(d)
        PROVE  serving'[c] = serving[c] /\ busy'[c] <= busy[c]
    BY <2>1, <2>2 DEF Respond, NotYet
  <2>3. ASSUME NEW d \in Chans, PickNext(d)
        PROVE  serving'[c] = serving[c] /\ busy'[c] <= busy[c]
    <3>1. d # c
      BY <2>3 DEF PickNext, InHandler
    <3>2. serving'[c] = serving[c] /\ busy'[c] = busy[c]
      BY <2>3, <3>1 DEF PickNext, IInv, TypeOK
    <3> QED BY <2>1, <3>2
  <2>4. ASSUME NEW d \in Chans, NEW h \in Hosts, NEW a \in Addrs, recv_req(d, h, a)
        PROVE  serving'[c] = serving[c] /\ busy'[c] <= busy[c]
    BY <2>1, <2>4 DEF recv_req, IInv, TypeOK
  <2>5. ASSUME Tick
        PROVE  serving'[c] = serving[c] /\ busy'[c] <= busy[c]
    BY <2>1, <2>5, ElapseKeepsInfTime DEF Tick
  <2>6. "W" \in Chans
    BY DEF Chans
  <2> QED BY <2>2, <2>3, <2>4, <2>5, <2>6 DEF Next, SendReq, Reissue
<1> QED BY <1>1, IInvSafe, PTL DEF NotPreempted

\* A transfer in service keeps its host and its deadline until its response.
THEOREM NotPreemptedHolds == Spec => NotPreempted
  BY NotPreemptedSafe, PTL DEF Spec
=============================================================================

--------------------------- MODULE MemFabric_proofs ---------------------------
(* The arbiter with the SDRAM behind it, for every refresh period, clock      *)
(* ratio, geometry and traffic.                                               *)
(*                                                                            *)
(* A step of the fabric is a step of the arbiter, so the arbiter's invariants *)
(* hold here too.  RefreshOnTime needs the folded device clock and the        *)
(* refresh counter to stay a whole number of periods apart (InPhase) and the  *)
(* counter to be overdue only while the reference has everything closed.      *)
(* HostInOrder needs a bound on the arbiter's deadline by the controller's    *)
(* (BehindController), which loses less than a device cycle to truncation.    *)
EXTENDS MemFabric, RAMArbiter_proofs

P == REFRESH_PERIOD

\* Division by the period, where the clock and the counter can be.
LEMMA PeriodArithmetic ==
    /\ P \in Nat \ {0}
    /\ \A d \in 0..(2 * P - 1) : d % P = 0 <=> d \in {0, P}
    /\ \A n \in 0..(P - 1) : n \div P = 0
    /\ P \div P = 1
<1>1. P \in Nat \ {0}
  BY SdramAssumption DEF P
<1>2. \A d \in 0..(P - 1) : d % P = d /\ d \div P = 0
  BY <1>1
<1>3. \A d \in 0..(P - 1) : (d + P) % P = d
  BY <1>1
<1>4. P \div P = 1
  BY <1>1
<1>5. ASSUME NEW d \in 0..(2 * P - 1) PROVE d % P = 0 <=> d \in {0, P}
  BY <1>1, <1>2, <1>3
<1> QED BY <1>1, <1>2, <1>4, <1>5

\* Adding one modulo the clock ratio.
LEMMA RatioArithmetic ==
    ASSUME NEW s \in 0..(freq_ratio - 1)
    PROVE  (s + 1) % freq_ratio = IF s = freq_ratio - 1 THEN 0 ELSE s + 1
<1>1. freq_ratio \in Nat \ {0}
  BY SdramAssumption
<1>2. \A n \in 0..(freq_ratio - 1) : n % freq_ratio = n
  BY <1>1
<1>3. freq_ratio % freq_ratio = 0
  BY <1>1
<1> QED BY <1>1, <1>2, <1>3

----------------------------------------------------------------------------
(* The SDRAM model. *)

Ctrls == 0..(N_HOSTS - 1)

\* The SDRAM's counters stay within two periods and its banks hold rows.
SdTypeOK ==
    /\ sub \in 0..(freq_ratio - 1)
    /\ dev \in 0..(2 * P - 1)
    /\ ctrl \in [Ctrls -> Nat]
    /\ next \in -P..P

\* The clock and the refresh counter add up to whole periods: next_refresh_tick_
\* is always a multiple of REFRESH_PERIOD.
InPhase == dev + next \in {-P, 0, P, 2 * P}

SdInv == SdTypeOK /\ InPhase /\ RefreshOnTime

\* RefreshOnTime by cases: the counter is overdue only while the reference has
\* every row closed.
LEMMA RefreshOnTimeByCases ==
    RefreshOnTime <=> /\ next > 0 => banks = rows
                      /\ ~(next > 0) => rows = AllClosed
  BY DEF RefreshOnTime, Refreshed

\* check_refresh moves the counter into 1..P.
LEMMA NextRefreshFacts ==
    ASSUME SdTypeOK
    PROVE  /\ next > 0 => NextRefresh = next
           /\ next <= 0 /\ next # -P => NextRefresh = next + P
           /\ next = -P => NextRefresh = P
<1>1. next \in -P..P /\ P \in Nat \ {0}
  BY PeriodArithmetic DEF SdTypeOK
<1>2. CASE next > 0
  BY <1>1, <1>2 DEF NextRefresh
<1>3. CASE next <= 0 /\ next # -P
  <2>1. -next \in 0..(P - 1)
    BY <1>1, <1>3
  <2>2. (-next) \div P = 0
    BY <2>1, PeriodArithmetic
  <2>3. NextRefresh = next + ((-next) \div P + 1) * P
    BY <1>1, <1>3 DEF NextRefresh, P
  <2>4. next + (0 + 1) * P = next + P
    BY <1>1
  <2> QED BY <1>1, <1>3, <2>2, <2>3, <2>4
<1>4. CASE next = -P
  <2>1. -next = P /\ ~(next > 0)
    BY <1>1, <1>4
  <2>2. NextRefresh = next + ((-next) \div P + 1) * P
    BY <2>1 DEF NextRefresh, P
  <2>3. (-next) \div P = 1
    BY <2>1, PeriodArithmetic
  <2>4. (-P) + (1 + 1) * P = P
    BY <1>1
  <2> QED BY <1>1, <1>4, <2>1, <2>2, <2>3, <2>4
<1> QED BY <1>1, <1>2, <1>3, <1>4

\* The controller of a host exists, and an access occupies it for at least two
\* device cycles more.
LEMMA CtrlFreeFacts ==
    ASSUME SdTypeOK, NEW h \in Nat, NEW b, NEW r, NEW w
    PROVE  /\ HostOf(h) \in Ctrls
           /\ CtrlFree(h, b, r, w) \in Nat
           /\ CtrlFree(h, b, r, w) >= ctrl[HostOf(h)] + 2
<1>1. HostOf(h) \in Ctrls
  BY SdramAssumption DEF HostOf, Ctrls
<1>2. ctrl[HostOf(h)] \in Nat
  BY <1>1 DEF SdTypeOK
<1>3. PER_WORD * bst_len \in Nat /\ PER_WORD * bst_len >= 2
  <2>1. \A x, y \in Nat : x >= 2 /\ y >= 1 => x * y \in Nat /\ x * y >= 2
    OBVIOUS
  <2> QED BY <2>1, SdramAssumption
<1>4. Extra(Refreshed[HostOf(h)][b], r) \in Nat
  BY SdramAssumption DEF Extra
<1>5. (IF w THEN WR_BASE ELSE RD_BASE) \in Nat
  BY SdramAssumption
<1> DEFINE k == PER_WORD * bst_len
           e == Extra(Refreshed[HostOf(h)][b], r)
           o == IF w THEN WR_BASE ELSE RD_BASE
<1>6. CtrlFree(h, b, r, w) = ctrl[HostOf(h)] + k + o + e
  BY DEF CtrlFree
<1>7. k \in Nat /\ k >= 2 /\ e \in Nat /\ o \in Nat
  BY <1>3, <1>4, <1>5
<1> HIDE DEF k, e, o
<1> QED BY <1>1, <1>2, <1>6, <1>7

\* The model starts in phase with everything closed.
LEMMA SdramInitEstablishesSdInv == SdramInit => SdInv
<1> SUFFICES ASSUME SdramInit PROVE SdInv
  OBVIOUS
<1>1. P \in Nat \ {0} /\ freq_ratio \in Nat \ {0} /\ next = P /\ dev = 0
  BY SdramAssumption, PeriodArithmetic DEF SdramInit, P
<1>2. SdTypeOK
  BY <1>1 DEF SdramInit, SdTypeOK, Ctrls
<1>3. InPhase
  BY <1>1 DEF InPhase
<1>4. RefreshOnTime
  BY RefreshOnTimeByCases, <1>1 DEF SdramInit
<1> QED BY <1>2, <1>3, <1>4 DEF SdInv

\* An access preserves it: afterwards the counter is ahead of the clock and the
\* banks are what the reference holds.
LEMMA AccessPreservesSdInv ==
    ASSUME SdInv, NEW h \in Nat, NEW b, NEW r, NEW w, Access(h, b, r, w)
    PROVE  SdInv'
<1>1. P \in Nat \ {0} /\ next \in -P..P /\ dev \in 0..(2 * P - 1)
  BY PeriodArithmetic DEF SdInv, SdTypeOK
<1>2. next' = NextRefresh /\ dev' = dev /\ sub' = sub
  BY DEF Access
<1>3. next' \in 1..P /\ next' \in {next, next + P, next + 2 * P}
  BY <1>1, <1>2, NextRefreshFacts DEF SdInv
<1>4. InPhase'
  BY <1>1, <1>2, <1>3 DEF SdInv, InPhase
<1>5. ctrl' \in [Ctrls -> Nat]
  BY CtrlFreeFacts DEF Access, SdInv, SdTypeOK
<1>6. SdTypeOK'
  BY <1>1, <1>2, <1>3, <1>5 DEF SdInv, SdTypeOK
<1>7. RefreshOnTime'
  <2>1. banks' = rows'
    BY DEF Access, SdInv, RefreshOnTime
  <2>2. next' > 0
    BY <1>1, <1>3
  <2> QED BY <2>1, <2>2 DEF RefreshOnTime, Refreshed
<1> QED BY <1>4, <1>6, <1>7 DEF SdInv

\* The device clock preserves it: the counter runs out exactly when the folded
\* clock passes a multiple of the period.
LEMMA DevTickPreservesSdInv == SdInv /\ DevTick => SdInv'
<1> SUFFICES ASSUME SdInv, DevTick PROVE SdInv'
  OBVIOUS
<1>1. /\ P \in Nat \ {0} /\ next \in -P..P /\ dev \in 0..(2 * P - 1)
      /\ sub \in 0..(freq_ratio - 1) /\ freq_ratio \in Nat \ {0}
      /\ ctrl \in [Ctrls -> Nat]
  BY PeriodArithmetic, SdramAssumption DEF SdInv, SdTypeOK
<1>2. sub' \in 0..(freq_ratio - 1)
  BY <1>1, RatioArithmetic DEF DevTick
<1>3. banks' = banks
  BY DEF DevTick
<1>4. CASE sub' # 0
  <2>1. UNCHANGED <<dev, ctrl, next, rows>>
    BY <1>4 DEF DevTick
  <2> QED BY <1>2, <1>3, <2>1, RefreshOnTimeByCases
          DEF SdInv, SdTypeOK, InPhase, RefreshOnTime, Refreshed
<1>5. CASE sub' = 0
  <2>1. /\ dev' = IF dev = 2 * P - 1 THEN P ELSE dev + 1
        /\ next' = IF next = -P THEN -1 ELSE next - 1
        /\ rows' = IF dev' % P = 0 THEN AllClosed ELSE rows
        /\ ctrl' = [h \in DOMAIN ctrl |-> IF ctrl[h] > 0 THEN ctrl[h] - 1 ELSE 0]
    BY <1>5 DEF DevTick, P
  <2>2. dev' \in 0..(2 * P - 1) /\ next' \in -P..P
    BY <1>1, <2>1
  <2>3. ctrl' \in [Ctrls -> Nat]
    BY <1>1, <2>1
  <2>4. InPhase'
    BY <1>1, <2>1, <2>2 DEF SdInv, InPhase
  <2>5. dev' % P = 0 <=> dev' \in {0, P}
    BY <2>2, PeriodArithmetic
  <2>6. RefreshOnTime'
    <3>1. CASE next > 1
      <4>1. next' \in 1..(P - 1)
        BY <1>1, <2>1, <3>1
      <4>2. dev' \notin {0, P}
        BY <1>1, <2>4, <4>1 DEF InPhase
      <4>3. rows' = rows /\ banks = rows
        BY <1>1, <2>1, <2>5, <3>1, <4>2, RefreshOnTimeByCases DEF SdInv
      <4> QED BY <1>3, <4>1, <4>3 DEF RefreshOnTime, Refreshed
    <3>2. CASE next = 1
      <4>1. next' = 0
        BY <1>1, <2>1, <3>2
      <4>2. \A x \in Int, y \in {0} : x + y = x
        OBVIOUS
      <4>3. dev' + next' = dev'
        <5>1. dev' \in Int
          BY <1>1, <2>2
        <5> QED BY <4>1, <4>2, <5>1, Zenon
      <4>4. dev' \in {-P, 0, P, 2 * P}
        BY <2>4, <4>3 DEF InPhase
      <4>5. dev' \in {0, P}
        BY <1>1, <2>2, <4>4
      <4> QED BY <2>1, <2>5, <4>1, <4>5 DEF RefreshOnTime, Refreshed, AllClosed
    <3>3. CASE next <= 0
      <4>1. ~(next' > 0)
        BY <1>1, <2>1, <3>3
      <4>2. rows = AllClosed
        BY <1>1, <3>3, RefreshOnTimeByCases DEF SdInv
      <4> QED BY <2>1, <4>1, <4>2 DEF RefreshOnTime, Refreshed, AllClosed
    <3> QED BY <1>1, <3>1, <3>2, <3>3
  <2> QED BY <1>2, <2>2, <2>3, <2>4, <2>6 DEF SdInv, SdTypeOK
<1> QED BY <1>4, <1>5

\* reset_stats preserves it: the counter restarts at the first period although
\* the clock does not.
LEMMA DevTickResetPreservesSdInv == SdInv /\ DevTickReset => SdInv'
<1> SUFFICES ASSUME SdInv, DevTickReset PROVE SdInv'
  OBVIOUS
<1>1. /\ P \in Nat \ {0} /\ dev \in 0..(2 * P - 1)
      /\ sub \in 0..(freq_ratio - 1) /\ freq_ratio \in Nat \ {0}
      /\ ctrl \in [Ctrls -> Nat]
  BY PeriodArithmetic, SdramAssumption DEF SdInv, SdTypeOK
<1>2. sub' \in 0..(freq_ratio - 1)
  BY <1>1, RatioArithmetic DEF DevTickReset
<1>3. dev' \in 0..(2 * P - 1)
  BY <1>1 DEF DevTickReset, P
<1>4. /\ next' = P - dev'
      /\ banks' = AllClosed /\ rows' = AllClosed
      /\ ctrl' = [h \in Ctrls |-> 0]
  BY <1>1 DEF DevTickReset, P
<1>5. SdTypeOK' /\ InPhase'
  <2>1. next' \in -P..P /\ dev' + next' = P
    <3>1. \A p \in Nat : \A x \in 0..(2 * p - 1) : p - x \in -p..p /\ x + (p - x) = p
      OBVIOUS
    <3> QED BY <1>1, <1>3, <1>4, <3>1
  <2>2. ctrl' \in [Ctrls -> Nat]
    BY <1>4
  <2> QED BY <1>2, <1>3, <2>1, <2>2 DEF SdTypeOK, InPhase
<1>6. RefreshOnTime'
  BY <1>4 DEF RefreshOnTime, Refreshed, AllClosed
<1> QED BY <1>5, <1>6 DEF SdInv

----------------------------------------------------------------------------
(* The fabric. *)

\* A transfer that began since the last reset_stats ends no later than its
\* controller is free, give or take the rest of the current device cycle.
BehindController ==
    \A c \in Chans :
        serving[c] # NoHost /\ ~InHandler(c) /\ young[c] /\ ToSdram(reqs[c][serving[c]])
            => busy[c] <= ctrl[HostOf(serving[c])] * freq_ratio
                          + freq_ratio - sub

FInv == IInv /\ SdInv /\ young \in [Chans -> BOOLEAN] /\ BehindController

\* Every step of the fabric is a step of the arbiter.
LEMMA FabricStepIsArbiterStep == [FabricNext]_fabricVars => [Next]_vars
<1>1. ASSUME NEW c \in Chans, FabricRespond(c) \/ FabricPick(c) \/ FabricNotYet(c)
      PROVE  Next
  BY <1>1 DEF FabricRespond, FabricPick, FabricNotYet, Next
<1>5. ASSUME NEW h \in Hosts, NEW a \in Addrs, FabricReissue(h, a) PROVE Next
  BY <1>5 DEF FabricReissue, Next
<1>2. ASSUME NEW t \in Traffic, FabricSend(t[1], t[2], t[3]) PROVE Next
  <2>1. t[1] \in Chans /\ t[2] \in Hosts /\ t[3] \in Addrs
    BY FabricAssumption
  <2>2. SendReq(t[1], t[2], t[3])
    BY <1>2 DEF FabricSend
  <2> QED BY <2>1, <2>2 DEF Next
<1>3. FabricTick \/ FabricTickReset => Next
  BY DEF FabricTick, FabricTickReset, Next
<1>4. UNCHANGED fabricVars => UNCHANGED vars
  BY DEF fabricVars
<1> QED BY <1>1, <1>2, <1>3, <1>4, <1>5 DEF FabricNext

\* A later deadline of the controller is later in CPU ticks.
LEMMA RatioMonotone ==
    ASSUME NEW x \in Nat, NEW y \in Nat
    PROVE  /\ x * freq_ratio \in Nat
           /\ x <= y => x * freq_ratio <= y * freq_ratio
           /\ (x + 1) * freq_ratio = x * freq_ratio + freq_ratio
           /\ y >= x + 2 => y * freq_ratio >= x * freq_ratio + 2 * freq_ratio
<1>1. \A a, b, r \in Nat : a * r \in Nat /\ (a <= b => a * r <= b * r)
  OBVIOUS
<1>2. \A a, r \in Nat : (a + 1) * r = a * r + r
  OBVIOUS
<1>3. \A a, r \in Nat : (a + 2) * r = a * r + 2 * r
  OBVIOUS
<1>4. freq_ratio \in Nat
  BY SdramAssumption
<1>5. y >= x + 2 => (x + 2) * freq_ratio <= y * freq_ratio
  BY <1>1, <1>4
<1> QED BY <1>1, <1>2, <1>3, <1>4, <1>5

\* The transfer of channel c starts, all else of the arbiter's is kept: the new
\* deadline is the controller's, and no other transfer's bound gets tighter.
LEMMA StartKeepsBehindController ==
    ASSUME FInv, NEW c \in Chans, NEW h \in Hosts, NEW a \in Addrs,
           NEW delay \in {0, 1}, StartTransfer(c, h, a, delay),
           serving'[c] = h, reqs'[c][h] = a,
           handling = NoHost \/ phase = c \/ phase \notin Chans,
           \A d \in Chans \ {c} : /\ serving'[d] = serving[d]
                                 /\ busy'[d] = busy[d]
                                 /\ reqs'[d] = reqs[d]
    PROVE  /\ SdInv' /\ young' \in [Chans -> BOOLEAN] /\ BehindController'
           /\ ToSdram(a) => busy'[c] >= ctrl[HostOf(h)] * freq_ratio
                                        + 2 * freq_ratio
<1>1. /\ young' \in [Chans -> BOOLEAN]
      /\ \A d \in Chans \ {c} : young'[d] = young[d]
  BY DEF StartTransfer, FInv
<1>2. h \in Nat /\ freq_ratio \in Nat \ {0} /\ sub \in 0..(freq_ratio - 1)
      /\ ctrl \in [Ctrls -> Nat] /\ SdTypeOK
  BY SdramAssumption DEF FInv, SdInv, SdTypeOK, Hosts
<1>3. CASE ToSdram(a)
  <2> DEFINE b == BankOf[a]
             r == RowOf[a]
             w == c = "W"
             free == CtrlFree(h, b, r, w)
  <2>1. Access(h, b, r, w) /\ busy'[c] = delay + free * freq_ratio
    BY <1>3 DEF StartTransfer, AccessLat
  <2>2. SdInv'
    BY <1>2, <2>1, AccessPreservesSdInv DEF FInv
  <2>3. /\ free \in Nat /\ free >= ctrl[HostOf(h)] + 2
        /\ HostOf(h) \in Ctrls
    BY <1>2, CtrlFreeFacts
  <2>4. ctrl' = [ctrl EXCEPT ![HostOf(h)] = free] /\ sub' = sub
    BY <2>1 DEF Access
  <2> HIDE DEF free
  <2>5. \A k \in Ctrls : ctrl'[k] \in Nat /\ ctrl[k] \in Nat /\ ctrl[k] <= ctrl'[k]
    BY <1>2, <2>3, <2>4
  <2>6. \A k \in Ctrls : /\ ctrl[k] * freq_ratio \in Nat
                         /\ ctrl'[k] * freq_ratio \in Nat
                         /\ ctrl[k] * freq_ratio <= ctrl'[k] * freq_ratio
    BY <2>5, RatioMonotone
  <2>7. /\ free * freq_ratio \in Nat
        /\ free * freq_ratio >= ctrl[HostOf(h)] * freq_ratio + 2 * freq_ratio
    BY <2>3, <2>5, RatioMonotone
  <2>8. busy'[c] <= ctrl'[HostOf(h)] * freq_ratio + freq_ratio - sub
    <3>1. ctrl'[HostOf(h)] = free
      BY <1>2, <2>3, <2>4
    <3> QED BY <1>2, <2>1, <2>7, <3>1
  <2>9. ASSUME NEW d \in Chans \ {c}, serving'[d] # NoHost, young'[d],
               ToSdram(reqs'[d][serving'[d]])
        PROVE  busy'[d] <= ctrl'[HostOf(serving'[d])] * freq_ratio
                           + freq_ratio - sub'
    <3>1. busy[d] <= ctrl[HostOf(serving[d])] * freq_ratio + freq_ratio - sub
      <4>1. ~InHandler(d)
        BY DEF InHandler
      <4> QED BY <1>1, <2>9, <4>1 DEF FInv, BehindController
    <3>2. serving[d] \in Nat /\ busy[d] \in Nat
      BY <2>9, InfTimeAssumption DEF FInv, IInv, TypeOK, Hosts, Times
    <3>3. HostOf(serving[d]) \in Ctrls
      BY <1>2, <3>2, CtrlFreeFacts
    <3> QED BY <1>2, <2>4, <2>6, <2>9, <3>1, <3>2, <3>3
  <2>10. BehindController'
    <3>1. ASSUME NEW d \in Chans, serving'[d] # NoHost, young'[d],
                 ToSdram(reqs'[d][serving'[d]])
          PROVE  busy'[d] <= ctrl'[HostOf(serving'[d])] * freq_ratio
                             + freq_ratio - sub'
      BY <2>4, <2>8, <2>9, <3>1
    <3> QED BY <3>1 DEF BehindController, ToSdram, IsDeviceOf, Contains
  <2>11. busy'[c] >= ctrl[HostOf(h)] * freq_ratio + 2 * freq_ratio
    BY <1>2, <2>1, <2>3, <2>6, <2>7
  <2> QED BY <1>1, <2>2, <2>10, <2>11
<1>4. CASE ~ToSdram(a)
  <2>1. UNCHANGED sdVars
    BY <1>4 DEF StartTransfer
  <2>2. SdInv'
    BY <2>1 DEF sdVars, FInv, SdInv, SdTypeOK, InPhase, RefreshOnTime, Refreshed,
                AllClosed
  <2>3. BehindController'
    <3>1. ASSUME NEW d \in Chans, serving'[d] # NoHost, young'[d],
                 ToSdram(reqs'[d][serving'[d]])
          PROVE  busy'[d] <= ctrl'[HostOf(serving'[d])] * freq_ratio
                             + freq_ratio - sub'
      <4>1. d # c
        BY <1>4, <3>1
      <4>2. ~InHandler(d)
        BY <4>1 DEF InHandler
      <4> QED BY <1>1, <2>1, <3>1, <4>1, <4>2 DEF FInv, BehindController, sdVars
    <3> QED BY <3>1 DEF BehindController, ToSdram, IsDeviceOf, Contains
  <2> QED BY <1>1, <1>4, <2>2, <2>3
<1> QED BY <1>3, <1>4

\* What recv_req on an idle channel does to the arbiter's state.
LEMMA SendStarts ==
    ASSUME IInv, NEW c \in Chans, NEW h \in Hosts, NEW a \in Addrs,
           recv_req(c, h, a), UNCHANGED <<phase, handling>>, busy[c] = InfTime
    PROVE  /\ serving'[c] = h /\ reqs'[c][h] = a
           /\ \A d \in Chans \ {c} : /\ serving'[d] = serving[d]
                                    /\ busy'[d] = busy[d]
                                    /\ reqs'[d] = reqs[d]
                                    /\ starts'[d] = starts[d]
<1>1. PICK lat : /\ busy' = [busy EXCEPT ![c] = lat]
                 /\ serving' = [serving EXCEPT ![c] = h]
                 /\ starts' = [starts EXCEPT ![c][h] = 1]
  BY DEF recv_req
<1>2. reqs' = [reqs EXCEPT ![c][h] = a]
  BY DEF recv_req
<1> QED BY <1>1, <1>2 DEF IInv, TypeOK

\* A request that reaches recv_req with the host's flag down preserves the
\* invariant.
LEMMA ReceivedPreservesFInv ==
    ASSUME FInv, NEW c \in Chans, NEW h \in Hosts, NEW a \in Addrs, IInv',
           recv_req(c, h, a), ~waiting[c][h], UNCHANGED <<phase, handling>>,
           handling = NoHost \/ phase = c \/ phase \notin Chans,
           Received(c, h, a)
    PROVE  FInv'
<1>1. IInv
  BY DEF FInv
<1>2. CASE busy[c] = InfTime
  <2>1. StartTransfer(c, h, a, 0)
    BY <1>2 DEF Received
  <2>2. handling = NoHost \/ phase = c \/ phase \notin Chans
    OBVIOUS
  <2> QED BY <1>1, <1>2, <2>1, <2>2, SendStarts, StartKeepsBehindController DEF FInv
<1>3. CASE busy[c] # InfTime
  <2>1. UNCHANGED <<sdVars, young, busy, serving>>
        /\ reqs' = [reqs EXCEPT ![c][h] = a]
    BY <1>3 DEF Received, recv_req
  <2>2. SdInv'
    BY <2>1 DEF sdVars, FInv, SdInv, SdTypeOK, InPhase, RefreshOnTime, Refreshed,
                AllClosed
  <2>3. reqs[c][h] = NoReq
    BY <1>1 DEF IInv, Handshake
  <2>4. \A d \in Chans : serving[d] # NoHost /\ ~InHandler(d) =>
                           reqs'[d][serving[d]] = reqs[d][serving[d]]
    BY <1>1, <2>1, <2>3 DEF IInv, TypeOK, ChannelConsistent
  <2>5. \A d \in Chans : InHandler(d)' <=> InHandler(d)
    BY DEF InHandler
  <2>6. BehindController'
    BY <2>1, <2>4, <2>5 DEF FInv, BehindController, ToSdram, IsDeviceOf, Contains, sdVars
  <2> QED BY <2>1, <2>2, <2>6 DEF FInv
<1> QED BY <1>2, <1>3

\* A request of a host preserves the invariant, sent from a handler or not.
LEMMA FabricSendPreservesFInv ==
    ASSUME FInv, NEW c \in Chans, NEW h \in Hosts, NEW a \in Addrs,
           FabricSend(c, h, a) \/ (c = "W" /\ FabricReissue(h, a))
    PROVE  FInv'
<1>1. /\ recv_req(c, h, a) /\ ~waiting[c][h] /\ UNCHANGED <<phase, handling>>
      /\ Received(c, h, a) /\ waiting' = [waiting EXCEPT ![c][h] = TRUE]
      /\ handling = NoHost \/ phase = c \/ phase \notin Chans
  BY DEF FabricSend, FabricReissue, SendReq, Reissue, Chans
<1>2. IInv'
  BY <1>1, RecvReqPreservesIInv DEF FInv
<1> QED BY <1>1, <1>2, ReceivedPreservesFInv

\* A response leaves the SDRAM alone.
LEMMA FabricRespondPreservesFInv ==
    ASSUME FInv, NEW c \in Chans, FabricRespond(c)
    PROVE  FInv'
<1>1. Respond(c) /\ IInv /\ IInv' /\ UNCHANGED <<sdVars, young>>
  BY RespondPreservesIInv DEF FabricRespond, FInv
<1>2. UNCHANGED <<serving, busy>> /\ phase = c /\ handling = NoHost /\ InHandler(c)'
  BY <1>1 DEF Respond, InHandler, Completes
<1>3. \A d \in Chans \ {c} : reqs'[d] = reqs[d] /\ ~InHandler(d)
  BY <1>1, <1>2 DEF Respond, InHandler, IInv, TypeOK
<1>4. SdInv'
  BY <1>1 DEF sdVars, FInv, SdInv, SdTypeOK, InPhase, RefreshOnTime, Refreshed, AllClosed
<1>5. BehindController'
  BY <1>1, <1>2, <1>3 DEF FInv, BehindController, ToSdram, IsDeviceOf, Contains, sdVars
<1> QED BY <1>1, <1>4, <1>5 DEF FInv

\* What a hand-over leaves alone.
LEMMA PickFacts ==
    ASSUME IInv, NEW c \in Chans, PickNext(c)
    PROVE  /\ reqs' = reqs
           /\ handling' = NoHost /\ phase = c
           /\ \A d \in Chans \ {c} : /\ serving'[d] = serving[d]
                                    /\ busy'[d] = busy[d]
                                    /\ reqs'[d] = reqs[d]
                                    /\ starts'[d] = starts[d]
  BY DEF PickNext, InHandler, IInv, TypeOK

\* A hand-over, with the next transfer started in the same step, preserves it.
LEMMA FabricPickPreservesFInv ==
    ASSUME FInv, NEW c \in Chans, FabricPick(c)
    PROVE  FInv'
<1>1. PickNext(c) /\ IInv /\ IInv'
  BY PickNextPreservesIInv DEF FabricPick, FInv
<1>3. CASE serving'[c] # NoHost
  <2>1. reqs' = reqs /\ phase = c /\ ~InHandler(c)'
    BY <1>1, PickFacts DEF InHandler
  <2>2. StartTransfer(c, serving'[c], reqs'[c][serving'[c]], 1)
    BY <1>3, <2>1 DEF FabricPick
  <2>3. serving'[c] \in Hosts /\ reqs'[c][serving'[c]] \in Addrs
    BY <1>1, <1>3, <2>1 DEF IInv, TypeOK, ChannelConsistent
  <2> QED BY <1>1, <2>1, <2>2, <2>3, PickFacts, StartKeepsBehindController DEF FInv
<1>4. CASE serving'[c] = NoHost
  <2>1. UNCHANGED <<sdVars, young>>
    BY <1>4 DEF FabricPick
  <2>2. SdInv'
    BY <2>1 DEF sdVars, FInv, SdInv, SdTypeOK, InPhase, RefreshOnTime, Refreshed,
                AllClosed
  <2>3. \A d \in Chans \ {c} : ~InHandler(d)
    BY <1>1, PickFacts DEF InHandler
  <2>4. BehindController'
    BY <1>1, <1>4, <2>1, <2>3, PickFacts
    DEF FInv, BehindController, ToSdram, IsDeviceOf, Contains, sdVars
  <2> QED BY <1>1, <2>1, <2>2, <2>4 DEF FInv
<1> QED BY <1>3, <1>4

\* A tick preserves it: the arbiter's deadline and the device clock advance
\* together, one device cycle per freq_ratio ticks.
LEMMA FabricTickPreservesFInv == FInv /\ FabricTick => FInv'
<1> SUFFICES ASSUME FInv, FabricTick PROVE FInv'
  OBVIOUS
<1>1. IInv' /\ SdInv'
  BY TickPreservesIInv, DevTickPreservesSdInv DEF FabricTick, FInv
<1>2. /\ UNCHANGED <<serving, reqs, young>>
      /\ busy' = [c \in Chans |-> Elapse(busy[c])]
      /\ \A c \in Chans : ~InHandler(c)
  BY DEF FabricTick, Tick, InHandler, Chans
<1>3. /\ sub \in 0..(freq_ratio - 1) /\ freq_ratio \in Nat \ {0}
      /\ ctrl \in [Ctrls -> Nat] /\ SdTypeOK
      /\ sub' = (IF sub = freq_ratio - 1 THEN 0 ELSE sub + 1)
  BY SdramAssumption, RatioArithmetic
  DEF FInv, SdInv, SdTypeOK, FabricTick, DevTick
<1>4. ASSUME NEW c \in Chans, serving[c] # NoHost, young[c],
             ToSdram(reqs[c][serving[c]])
      PROVE  busy'[c] <= ctrl'[HostOf(serving[c])] * freq_ratio
                         + freq_ratio - sub'
  <2> DEFINE k == HostOf(serving[c])
  <2>1. serving[c] \in Nat /\ busy[c] \in Nat /\ busy[c] # InfTime
    BY <1>4, InfTimeAssumption
    DEF FInv, IInv, TypeOK, ChannelConsistent, Hosts, Times
  <2>2. k \in Ctrls
    BY <1>3, <2>1, CtrlFreeFacts
  <2> HIDE DEF k
  <2>3. busy[c] <= ctrl[k] * freq_ratio + freq_ratio - sub
    BY <1>2, <1>4 DEF FInv, BehindController, k
  <2>4. busy'[c] = IF busy[c] = 0 THEN 0 ELSE busy[c] - 1
    BY <1>2, <2>1 DEF Elapse
  <2>5. ctrl[k] \in Nat /\ ctrl[k] * freq_ratio \in Nat
    BY <1>3, <2>2, RatioMonotone
  <2>6. CASE sub # freq_ratio - 1
    <3>1. sub' = sub + 1 /\ sub' # 0
      BY <1>3, <2>6
    <3>2. ctrl' = ctrl
      BY <3>1 DEF FabricTick, DevTick
    <3> QED BY <1>3, <2>3, <2>4, <2>1, <2>5, <2>6, <3>1, <3>2 DEF k
  <2>7. CASE sub = freq_ratio - 1
    <3>1. sub' = 0 /\ busy[c] <= ctrl[k] * freq_ratio + 1
      BY <1>3, <2>1, <2>3, <2>5, <2>7
    <3>2. ctrl'[k] = IF ctrl[k] > 0 THEN ctrl[k] - 1 ELSE 0
      BY <1>3, <2>2, <3>1 DEF FabricTick, DevTick
    <3>3. CASE ctrl[k] = 0
      <4>1. ctrl[k] * freq_ratio = 0 /\ ctrl'[k] * freq_ratio = 0
        BY <1>3, <3>2, <3>3
      <4>2. busy'[c] = 0
        BY <2>1, <2>4, <3>1, <4>1
      <4>3. \A r \in Nat, x \in {0}, y \in {0}, z \in {0} : z <= x + r - y
        OBVIOUS
      <4>4. busy'[c] <= ctrl'[k] * freq_ratio + freq_ratio - sub'
        BY <1>3, <3>1, <4>1, <4>2, <4>3, Zenon
      <4> QED BY <4>4 DEF k
    <3>4. CASE ctrl[k] > 0
      <4>1. ctrl'[k] \in Nat /\ ctrl[k] = ctrl'[k] + 1
        BY <2>5, <3>2, <3>4
      <4>2. /\ ctrl'[k] * freq_ratio \in Nat
            /\ ctrl[k] * freq_ratio = ctrl'[k] * freq_ratio + freq_ratio
        BY <4>1, RatioMonotone
      <4> QED BY <1>3, <2>1, <2>4, <3>1, <4>2 DEF k
    <3> QED BY <2>5, <3>3, <3>4
  <2> QED BY <2>6, <2>7
<1>5. BehindController'
  BY <1>2, <1>4 DEF BehindController, ToSdram, IsDeviceOf, Contains
<1> QED BY <1>1, <1>2, <1>5 DEF FInv

\* Every step of the fabric preserves the invariant.
LEMMA FabricNextPreservesFInv == FInv /\ [FabricNext]_fabricVars => FInv'
<1> SUFFICES ASSUME FInv, [FabricNext]_fabricVars PROVE FInv'
  OBVIOUS
<1>1. ASSUME NEW t \in Traffic, FabricSend(t[1], t[2], t[3]) PROVE FInv'
  <2>1. t[1] \in Chans /\ t[2] \in Hosts /\ t[3] \in Addrs
    BY FabricAssumption
  <2> QED BY <1>1, <2>1, FabricSendPreservesFInv
<1>2. ASSUME NEW c \in Chans, FabricRespond(c) \/ FabricPick(c) PROVE FInv'
  BY <1>2, FabricRespondPreservesFInv, FabricPickPreservesFInv
<1>5. ASSUME NEW h \in Hosts, NEW a \in Addrs, FabricReissue(h, a) PROVE FInv'
  BY <1>5, FabricSendPreservesFInv DEF Chans
<1>3. ASSUME UNCHANGED fabricVars \/ \E c \in Chans : FabricNotYet(c) PROVE FInv'
  <2>1. IInv'
    BY <1>3, NextPreservesIInv DEF FInv, fabricVars, FabricNotYet, Next
  <2>2. /\ UNCHANGED <<sdVars, young, busy, serving, reqs>>
        /\ \A c \in Chans : InHandler(c) => InHandler(c)'
    BY <1>3 DEF fabricVars, vars, FabricNotYet, NotYet, InHandler
  <2>3. SdInv' /\ BehindController'
    BY <2>2 DEF sdVars, FInv, SdInv, SdTypeOK, InPhase, RefreshOnTime, Refreshed,
                AllClosed, BehindController, ToSdram, IsDeviceOf, Contains
  <2> QED BY <2>1, <2>2, <2>3 DEF FInv
<1>4. ASSUME FabricTickReset PROVE FInv'
  <2>1. IInv' /\ SdInv'
    BY <1>4, TickPreservesIInv, DevTickResetPreservesSdInv
    DEF FabricTickReset, FInv
  <2>2. young' = [c \in Chans |-> FALSE]
    BY <1>4 DEF FabricTickReset
  <2> QED BY <2>1, <2>2 DEF FInv, BehindController
<1> QED BY <1>1, <1>2, <1>3, <1>4, <1>5, FabricTickPreservesFInv DEF FabricNext

----------------------------------------------------------------------------

\* The inductive invariant of the fabric.
THEOREM FabricInvariance == FabricSpec => []FInv
<1>1. FabricInit => FInv
  <2> SUFFICES ASSUME FabricInit PROVE FInv
    OBVIOUS
  <2>1. IInv /\ SdInv
    BY InitEstablishesIInv, SdramInitEstablishesSdInv DEF FabricInit
  <2>2. young = [c \in Chans |-> FALSE]
    BY DEF FabricInit
  <2> QED BY <2>1, <2>2 DEF FInv, BehindController
<1>2. FInv /\ [FabricNext]_fabricVars => FInv'
  BY FabricNextPreservesFInv
<1> QED BY <1>1, <1>2, PTL DEF FabricSpec

\* The fabric implements the safety part of the arbiter's specification: the
\* SDRAM only restricts the latencies that lat_of may return.
THEOREM FabricImplementsArbiter == FabricSpec => Init /\ [][Next]_vars
<1>1. FabricInit => Init
  BY DEF FabricInit
<1>2. [FabricNext]_fabricVars => [Next]_vars
  BY FabricStepIsArbiterStep
<1> QED BY <1>1, <1>2, PTL DEF FabricSpec

\* So every property proved of RAMArbiter holds with the SDRAM behind it.
THEOREM FabricKeepsArbiter ==
    FabricSpec => /\ [](StartedOnce /\ WorkConserving /\ ChannelConsistent)
                  /\ PriorityRespected /\ NotPreempted
<1>1. IInv => StartedOnce /\ WorkConserving /\ ChannelConsistent
  BY DEF IInv
<1> QED BY <1>1, FabricImplementsArbiter, IInvSafe, PrioritySafe,
           NotPreemptedSafe, PTL

\* Refreshing lazily at the next access is refreshing on time (check_refresh),
\* for every period and clock ratio and any number of resets.
THEOREM RefreshOnTimeHolds == FabricSpec => []RefreshOnTime
<1>1. FInv => RefreshOnTime
  BY DEF FInv, SdInv
<1> QED BY <1>1, FabricInvariance, PTL

\* A host's read and write at the SDRAM end in the order they were started, on
\* arrival at an idle channel or by hand-over.
THEOREM HostInOrderHolds == FabricSpec => HostInOrder
<1> DEFINE A == \A c, d \in Chans :
          (/\ c # d /\ Starts(d)
           /\ serving[c] = serving'[d] /\ young[c]
           /\ ToSdram(reqs[c][serving[c]]) /\ ToSdram(reqs'[d][serving'[d]]))
             => busy'[d] > busy'[c]
<1>1. ASSUME FInv, [FabricNext]_fabricVars PROVE [A]_fabricVars
  <2> SUFFICES ASSUME FabricNext, NEW c \in Chans, NEW d \in Chans, c # d, Starts(d),
                      serving[c] = serving'[d], young[c],
                      ToSdram(reqs[c][serving[c]]),
                      ToSdram(reqs'[d][serving'[d]])
               PROVE  busy'[d] > busy'[c]
    BY <1>1
  <2> DEFINE h == serving'[d]
             a == reqs'[d][h]
  <2>1. IInv /\ IInv' /\ h # NoHost /\ starts'[d][h] > starts[d][h]
    BY <1>1, FabricNextPreservesFInv DEF FInv, Starts
  <2>2. /\ h \in Hosts /\ starts[d][h] \in Nat /\ starts'[d][h] \in Nat
        /\ starts'[d] # starts[d]
    BY <2>1 DEF IInv, TypeOK
  <2>3. /\ \A x \in Chans : ~FabricRespond(x) /\ ~FabricNotYet(x)
        /\ ~FabricTick /\ ~FabricTickReset
    <3>1. ASSUME NEW x \in Chans, FabricRespond(x) PROVE FALSE
      <4>1. starts' = [starts EXCEPT ![x][serving[x]] = 0]
        BY <3>1 DEF FabricRespond, Respond
      <4>2. starts'[d][h] = 0 \/ starts'[d][h] = starts[d][h]
        BY <2>1, <2>2, <4>1 DEF IInv, TypeOK
      <4> QED BY <2>1, <2>2, <4>2
    <3>2. ASSUME UNCHANGED starts PROVE FALSE
      BY <2>2, <3>2
    <3> QED BY <3>1, <3>2 DEF FabricNotYet, NotYet, FabricTick, FabricTickReset, Tick
  <2>4. ASSUME NEW x \in Chans, NEW k \in Hosts, NEW b \in Addrs,
               recv_req(x, k, b), Received(x, k, b), UNCHANGED <<phase, handling>>,
               \/ phase = "hosts"
               \/ InHandler(x)
        PROVE  /\ StartTransfer(d, h, a, 0) /\ a \in Addrs
               /\ \A e \in Chans \ {d} : /\ serving'[e] = serving[e]
                                        /\ busy'[e] = busy[e]
                                        /\ reqs'[e] = reqs[e]
               /\ ~InHandler(c)
    <3>1. busy[x] = InfTime
      <4> SUFFICES ASSUME busy[x] # InfTime PROVE FALSE
        OBVIOUS
      <4>1. starts' = [starts EXCEPT ![x][k] = 0]
        BY <2>4 DEF recv_req
      <4>2. starts'[d][h] = 0 \/ starts'[d][h] = starts[d][h]
        BY <2>1, <2>2, <4>1 DEF IInv, TypeOK
      <4> QED BY <2>1, <2>2, <4>2
    <3>2. /\ serving'[x] = k /\ reqs'[x][k] = b
          /\ \A e \in Chans \ {x} : /\ serving'[e] = serving[e]
                                   /\ busy'[e] = busy[e]
                                   /\ reqs'[e] = reqs[e]
                                   /\ starts'[e] = starts[e]
      BY <2>1, <2>4, <3>1, SendStarts
    <3>3. x = d
      BY <2>2, <3>2
    <3>4. StartTransfer(x, k, b, 0)
      BY <2>4, <3>1 DEF Received
    <3>5. ~InHandler(x)
      BY <2>1, <3>1 DEF IInv, HandlerOK, ChannelConsistent, InHandler
    <3>6. ~InHandler(c)
      BY <2>4, <3>5 DEF InHandler, Chans
    <3> QED BY <3>2, <3>3, <3>4, <3>6
  <2>5. ASSUME NEW x \in Chans, FabricPick(x)
        PROVE  /\ StartTransfer(d, h, a, 1) /\ a \in Addrs
               /\ \A e \in Chans \ {d} : /\ serving'[e] = serving[e]
                                        /\ busy'[e] = busy[e]
                                        /\ reqs'[e] = reqs[e]
               /\ ~InHandler(c)
    <3>1. PickNext(x)
      BY <2>5 DEF FabricPick
    <3>2. /\ reqs' = reqs
          /\ phase = x
          /\ \A e \in Chans \ {x} : /\ serving'[e] = serving[e]
                                   /\ busy'[e] = busy[e]
                                   /\ reqs'[e] = reqs[e]
                                   /\ starts'[e] = starts[e]
      BY <2>1, <3>1, PickFacts
    <3>3. x = d
      BY <2>2, <3>2
    <3>4. StartTransfer(d, h, a, 1)
      BY <2>1, <2>5, <3>2, <3>3 DEF FabricPick
    <3>5. a \in Addrs
      <4>1. ~InHandler(d)'
        BY <3>1, PickFacts, <2>1 DEF InHandler
      <4> QED BY <2>1, <2>2, <3>2, <4>1 DEF IInv, TypeOK, ChannelConsistent
    <3>6. ~InHandler(c)
      BY <3>2, <3>3 DEF InHandler
    <3> QED BY <3>2, <3>3, <3>4, <3>5, <3>6
  <2>6. \E delay \in {0, 1} :
            /\ StartTransfer(d, h, a, delay) /\ a \in Addrs
            /\ \A e \in Chans \ {d} : /\ serving'[e] = serving[e]
                                     /\ busy'[e] = busy[e]
                                     /\ reqs'[e] = reqs[e]
            /\ ~InHandler(c)
    <3> HIDE DEF h, a
    <3>1. CASE \E x \in Chans : FabricPick(x)
      BY <2>5, <3>1, Zenon
    <3>2. CASE \E k \in Hosts, b \in Addrs : FabricReissue(k, b)
      <4>1. PICK k \in Hosts, b \in Addrs : FabricReissue(k, b)
        BY <3>2
      <4>2. /\ "W" \in Chans /\ recv_req("W", k, b) /\ Received("W", k, b)
            /\ UNCHANGED <<phase, handling>> /\ InHandler("W")
        BY <4>1, SentinelsApart DEF FabricReissue, Reissue, InHandler, Chans
      <4> QED BY <2>4, <4>2, Zenon
    <3>3. CASE \E t \in Traffic : FabricSend(t[1], t[2], t[3])
      <4>1. PICK t \in Traffic : FabricSend(t[1], t[2], t[3])
        BY <3>3
      <4> DEFINE x == t[1]
                 k == t[2]
                 b == t[3]
      <4>2. x \in Chans /\ k \in Hosts /\ b \in Addrs
        BY FabricAssumption
      <4>3. /\ recv_req(x, k, b) /\ Received(x, k, b)
            /\ UNCHANGED <<phase, handling>> /\ phase = "hosts"
        BY <4>1 DEF FabricSend, SendReq
      <4> HIDE DEF x, k, b
      <4> QED BY <2>4, <4>2, <4>3, Zenon
    <3> QED BY <2>3, <3>1, <3>2, <3>3 DEF FabricNext
  <2>7. PICK delay \in {0, 1} :
            /\ StartTransfer(d, h, a, delay) /\ a \in Addrs
            /\ \A e \in Chans \ {d} : /\ serving'[e] = serving[e]
                                     /\ busy'[e] = busy[e]
                                     /\ reqs'[e] = reqs[e]
            /\ ~InHandler(c)
    BY <2>6
  <2>8. handling = NoHost \/ phase = d \/ phase \notin Chans
    <3>1. Chans = {c, d}
      BY DEF Chans
    <3> QED BY <2>7, <3>1 DEF InHandler
  <2>10. busy'[d] >= ctrl[HostOf(h)] * freq_ratio + 2 * freq_ratio
    BY <1>1, <2>2, <2>7, <2>8, StartKeepsBehindController
  <2>11. busy'[c] <= ctrl[HostOf(h)] * freq_ratio + freq_ratio - sub
    BY <1>1, <2>1, <2>7 DEF FInv, BehindController
  <2>12. /\ ctrl[HostOf(h)] * freq_ratio \in Nat
         /\ freq_ratio \in Nat \ {0} /\ sub \in 0..(freq_ratio - 1)
    <3>1. h \in Nat /\ SdTypeOK
      BY <1>1, <2>2 DEF Hosts, FInv, SdInv
    <3>2. ctrl[HostOf(h)] \in Nat
      BY <3>1, CtrlFreeFacts DEF SdTypeOK
    <3> QED BY <3>1, <3>2, RatioMonotone, SdramAssumption DEF SdTypeOK
  <2>13. busy'[c] \in Int /\ busy'[d] \in Int
    BY <2>1, InfTimeAssumption DEF IInv, TypeOK, Times
  <2> HIDE DEF h
  <2> QED BY <2>10, <2>11, <2>12, <2>13
<1> QED BY <1>1, FabricInvariance, PTL DEF FabricSpec, HostInOrder
=============================================================================

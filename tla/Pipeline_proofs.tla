---------------------------- MODULE Pipeline_proofs ----------------------------
(* The core for every trace length, instruction mix, latency and queue size: *)
(* the asserts of the stage handlers, the alignment of the fetch queue with   *)
(* the responses, the wrong path, the accounting of instructions, the wake-ups *)
(* and the order of commits.                                                   *)
EXTENDS Pipeline, FiniteSetTheorems, FunctionTheorems, TLAPS

----------------------------------------------------------------------------
(* Operators. *)

\* A non-empty set of naturals has a least element, a bounded one a greatest.
LEMMA NatMin ==
    ASSUME NEW S \in SUBSET Nat, S # {}
    PROVE  \E x \in S : \A y \in S : x <= y
<1> DEFINE R == OpToRel(<, Nat)
<1>1. IsWellFoundedOn(R, Nat)
  BY NatLessThanWellFounded
<1>2. \A x, y \in Nat : y < x => <<y, x>> \in R
  BY DEF OpToRel
<1> HIDE DEF R
<1>3. PICK x \in S : \A y \in S : ~(<<y, x>> \in R)
  BY <1>1, WFMin
<1>4. ASSUME NEW y \in S PROVE x <= y
  <2>1. x \in Nat /\ y \in Nat /\ ~(y < x)
    BY <1>2, <1>3
  <2> QED BY <2>1
<1> QED BY <1>4

\* A bounded non-empty set of naturals has a greatest element.
LEMMA NatMax ==
    ASSUME NEW n \in Nat, NEW S \in SUBSET (0..n), S # {}
    PROVE  \E x \in S : \A y \in S : x >= y
<1> DEFINE T == {n - x : x \in S}
<1>1. T \in SUBSET Nat /\ T # {}
  <2>1. ASSUME NEW x \in S PROVE n - x \in Nat
    OBVIOUS
  <2> QED BY <2>1
<1>2. PICK m \in T : \A y \in T : m <= y
  BY <1>1, NatMin
<1>3. PICK x \in S : m = n - x
  BY <1>2
<1>4. \A y \in S : n - x <= n - y
  BY <1>2, <1>3
<1> QED BY <1>3, <1>4

\* Min of the community modules is a member of its set.
LEMMA MinFacts == ASSUME NEW S \in SUBSET Nat, S # {} PROVE Min(S) \in S
BY NatMin DEF Min

\* So is Max, on a bounded set.
LEMMA MaxFacts ==
    ASSUME NEW n \in Nat, NEW S \in SUBSET (0..n), S # {} PROVE Max(S) \in S
BY NatMax DEF Max

\* Deadlines stay deadlines.
LEMMA TimesFacts ==
    /\ \A t \in Times : Elapse(t) \in Times /\ (Elapse(t) = InfTime <=> t = InfTime)
    /\ \A a, b \in Times : MinOf(a, b) \in Times /\ MaxOf(a, b) \in Times
    /\ {0, 1, 2} \subseteq Times /\ InfTime \in Times
    /\ InfTime \notin {0, 1, 2}
    /\ MulLat \in Times /\ DivLat \in Times
    /\ \A t \in DLats : t \in Times /\ t # InfTime
BY InfTimeAssumption, PipelineSizes DEF Times, Elapse, MinOf, MaxOf

\* An empty slot is told apart from every instruction.
LEMMA NoneFacts == None \notin TransType /\ None.id = -1
<1>1. None.id = -1
  BY DEF None
<1>2. \A t \in TransType : t.id \in Ids
  BY DEF TransType
<1>3. -1 \notin Ids
  BY PipelineSizes DEF Ids
<1> QED BY <1>1, <1>2, <1>3

\* The time at which all sources are ready is a deadline.
LEMMA SrcReadyType ==
    ASSUME NEW t \in TransType, NEW rr \in [Regs -> Times]
    PROVE  SrcReady(t, rr) \in Times
<1> DEFINE S == {rr[r] : r \in t.src \cup {0}}
<1>1. t.src \subseteq Regs /\ 0 \in Regs
  BY PipelineSizes DEF TransType
<1>2. S \in SUBSET (0..InfTime) /\ S # {}
  BY <1>1 DEF Times
<1>3. InfTime \in Nat
  BY InfTimeAssumption
<1>4. Max(S) \in S
  BY <1>2, <1>3, MaxFacts
<1> QED BY <1>2, <1>4 DEF SrcReady, Times

Scoreboards == {rr \in [Regs -> Times] : rr[0] = 0}

\* update_reg_time keeps register 0 ready.
LEMMA RegTimeType ==
    ASSUME reg_ready \in Scoreboards, NEW rd \in Regs, NEW when \in Times
    PROVE  RegTime(rd, when) \in Scoreboards
BY PipelineSizes DEF Scoreboards, RegTime

\* update_reg_time moves the deadline of Decode only from InfTime.
LEMMA DecodeRetryType ==
    ASSUME due \in [Stages -> Times], NEW t \in TransType \cup {None},
           NEW rr \in Scoreboards
    PROVE  /\ DecodeRetry(t, rr) \in Times
           /\ due["Decode"] # InfTime => DecodeRetry(t, rr) = due["Decode"]
<1>1. due["Decode"] \in Times
  BY DEF Stages, Slots
<1>2. t # None => MaxOf(1, SrcReady(t, rr)) \in Times
  BY SrcReadyType, TimesFacts DEF Scoreboards
<1> QED BY <1>1, <1>2 DEF DecodeRetry

----------------------------------------------------------------------------
(* Types.  The bound on ongoing_insts_ follows from the accounting below. *)

BaseOK ==
    /\ slot \in [Slots -> TransType \cup {None}]
    /\ due \in [Stages -> Times]
    /\ ifq \in Seq(TransType) /\ Len(ifq) <= IfqSize
    /\ fs \in FetchStates
    /\ reg_ready \in Scoreboards
    /\ mext \in [{"mul", "div"} -> Times]
    /\ calc \in Times
    /\ input \in TransType \cup {None}
    /\ ongoing \in Int
    /\ loop \in Loops
    /\ ip \in Iports /\ (ip.ready => ip.n <= 1)
    /\ dp \in Dports
    /\ done \in Seq(Ids)
    /\ phase \in Phases

\* The types, in the form the steps below cite.
LEMMA BaseFacts ==
    ASSUME BaseOK
    PROVE  /\ slot \in [Slots -> TransType \cup {None}]
           /\ \A s \in Slots : slot[s] # None => slot[s] \in TransType
           /\ due \in [Stages -> Times]
           /\ \A s \in Slots : due[s] \in Times
           /\ ifq \in Seq(TransType) /\ Len(ifq) \in Nat
           /\ fs \in FetchStates /\ fs.orphan \in Seq(BOOLEAN)
           /\ reg_ready \in Scoreboards /\ calc \in Times
           /\ ip \in Iports /\ dp \in Dports /\ loop \in Loops
           /\ mext \in [{"mul", "div"} -> Times]
           /\ mext.mul \in Times /\ mext.div \in Times
BY DEF BaseOK, FetchStates, Stages

\* The initial state is well typed.
LEMMA InitBase == Init => BaseOK
<1> SUFFICES ASSUME Init PROVE BaseOK
  OBVIOUS
<1>1. slot \in [Slots -> TransType \cup {None}] /\ due \in [Stages -> Times]
  BY TimesFacts DEF Init
<1>2. ifq \in Seq(TransType) /\ Len(ifq) <= IfqSize /\ done \in Seq(Ids)
  BY PipelineSizes DEF Init
<1>3. fs \in FetchStates
  BY DEF Init, FetchStates
<1>4. reg_ready \in Scoreboards /\ mext \in [{"mul", "div"} -> Times]
  BY TimesFacts, PipelineSizes DEF Init, Scoreboards
<1>5. loop \in Loops /\ ip \in Iports /\ dp \in Dports /\ (ip.ready => ip.n <= 1)
  BY TimesFacts, PipelineSizes DEF Init, Loops, Iports, Dports
<1>6. calc \in Times /\ input \in TransType \cup {None} /\ ongoing \in Int
      /\ phase \in Phases
  BY TimesFacts DEF Init, Phases
<1> QED BY <1>1, <1>2, <1>3, <1>4, <1>5, <1>6 DEF BaseOK

----------------------------------------------------------------------------
(* The inductive invariant, one named part per argument. *)

\* Only the instruction in the Execute slot waits for the data port; only the
\* Fetch slot holds wrong-path placeholders.
Waits     == \A s \in Slots \ {"Execute"} : slot[s] # None => ~slot[s].wait
RealSlots == \A s \in Slots \ {"Fetch"} : slot[s] # None => ~slot[s].wp

\* The last phases of a tick, after the handler of Decode.
PastDecode == {"Fetch", "fetch0", "sched", "feed", "fed", "tick"}

\* An instruction that passed decode may issue from the next tick on.
DecodePending ==
    slot["Decode"] # None =>
        /\ due["Decode"] \in {0, 1}
        /\ due["Decode"] = 1 => phase \in PastDecode

Asserts == Waits /\ RealSlots /\ LsuRespSafe /\ DecodePending

Waiting(q)  == {i \in DOMAIN q : q[i].wait}
Owned(o)    == {i \in DOMAIN o : ~o[i]}

Core == BaseOK /\ Asserts /\ FetchFifoAligned

\* What Core says of each variable.
LEMMA CoreBase ==
    ASSUME Core
    PROVE  /\ BaseOK /\ Asserts /\ FetchFifoAligned
           /\ slot \in [Slots -> TransType \cup {None}]
           /\ \A s \in Slots : slot[s] # None => slot[s] \in TransType
           /\ due \in [Stages -> Times]
           /\ \A s \in Slots : due[s] \in Times
           /\ ifq \in Seq(TransType) /\ Len(ifq) \in Nat
           /\ fs \in FetchStates /\ fs.orphan \in Seq(BOOLEAN)
           /\ reg_ready \in Scoreboards /\ calc \in Times
           /\ ip \in Iports /\ dp \in Dports /\ loop \in Loops
           /\ mext \in [{"mul", "div"} -> Times]
           /\ mext.mul \in Times /\ mext.div \in Times
BY BaseFacts DEF Core

----------------------------------------------------------------------------
(* Types are kept, one lemma per group of actions. *)

\* The sizes, one by one.
LEMMA SizeFacts ==
    /\ MaxInsts \in Nat \ {0} /\ IfqSize \in Nat \ {0}
    /\ MaxIStall \in Nat /\ MaxDStall \in Nat
    /\ 0 \in Regs /\ InfTime > 2
BY PipelineSizes

\* Sequences, of any element type.
LEMMA SeqFacts ==
    ASSUME NEW T, NEW q \in Seq(T)
    PROVE  /\ Len(q) \in Nat /\ DOMAIN q = 1..Len(q)
           /\ \A i \in 1..Len(q) : q[i] \in T
           /\ q # <<>> <=> Len(q) > 0
           /\ q # <<>> => /\ Head(q) = q[1] /\ Head(q) \in T
                          /\ Tail(q) \in Seq(T) /\ Len(Tail(q)) = Len(q) - 1
                          /\ \A i \in 1..(Len(q) - 1) : Tail(q)[i] = q[i + 1]
           /\ \A x \in T : /\ Append(q, x) \in Seq(T)
                           /\ Len(Append(q, x)) = Len(q) + 1
                           /\ \A i \in 1..Len(q) : Append(q, x)[i] = q[i]
                           /\ Append(q, x)[Len(q) + 1] = x
OBVIOUS

\* A sequence with one element replaced.
LEMMA SeqUpdate ==
    ASSUME NEW T, NEW q \in Seq(T), NEW i, NEW x \in T
    PROVE  /\ [q EXCEPT ![i] = x] \in Seq(T)
           /\ Len([q EXCEPT ![i] = x]) = Len(q)
           /\ DOMAIN [q EXCEPT ![i] = x] = DOMAIN q
<1> DEFINE p == [q EXCEPT ![i] = x]
<1>1. Len(q) \in Nat /\ DOMAIN q = 1..Len(q) /\ DOMAIN p = 1..Len(q)
  OBVIOUS
<1>2. ASSUME NEW j \in 1..Len(q) PROVE p[j] \in T
  BY <1>1
<1>3. p = [j \in 1..Len(q) |-> p[j]]
  BY <1>1
<1> HIDE DEF p
<1>4. p \in Seq(T) /\ Len(p) = Len(q)
  BY <1>1, <1>2, <1>3
<1> QED BY <1>1, <1>4 DEF p

\* Updates of the two ports.
LEMMA DportType ==
    ASSUME dp \in Dports, NEW r \in BOOLEAN, NEW i \in 0..MaxDStall
    PROVE  [dp EXCEPT !.ready = r, !.idle = i] \in Dports
BY DEF Dports

\* The instruction port, with another count,
LEMMA IportCount ==
    ASSUME ip \in Iports, NEW n \in 0..2, NEW i \in 0..MaxIStall
    PROVE  LET p == [ip EXCEPT !.n = n, !.idle = i]
           IN  p \in Iports /\ p.n = n /\ p.ready = ip.ready
BY DEF Iports

\* with another readiness,
LEMMA IportOpen ==
    ASSUME ip \in Iports, NEW r \in BOOLEAN, NEW i \in 0..MaxIStall
    PROVE  LET p == [ip EXCEPT !.ready = r, !.idle = i]
           IN  p \in Iports /\ p.n = ip.n /\ p.ready = r
BY DEF Iports

\* and with a request sent.
LEMMA IportSend ==
    ASSUME ip \in Iports, NEW n \in 0..2, NEW r \in BOOLEAN
    PROVE  LET p == [ip EXCEPT !.n = n, !.ready = r]
           IN  p \in Iports /\ p.n = n /\ p.ready = r
BY DEF Iports

\* Every handler hands over to a phase.
LEMMA PhaseTypes ==
    /\ \A s \in Stages : StageBelow[s] \in Phases
    /\ \A s \in {"fetch0", "fed"} : AfterFetch0[s] \in Phases
    /\ {"dport", "dack", "iport", "iack", "begin", "feed", "fed", "tick",
        "finished", "WriteBack"} \subseteq Phases
BY DEF StageBelow, AfterFetch0, Phases, Stages, Slots

\* Callbacks from the data port.
LEMMA BaseDport == ASSUME Core, Dport PROVE BaseOK'
<1>b. BaseOK /\ due \in [Stages -> Times] /\ calc \in Times /\ dp \in Dports
  BY CoreBase
<1>1. CASE DportResp
  <2> DEFINE t == slot["Execute"]
             rr == IF t.kind = "LOAD" THEN RegTime(t.dst, 2) ELSE reg_ready
  <2>1. t # None /\ "Execute" \in Slots /\ "Memory" \in Slots /\ "Fetch" \in Slots
    BY <1>1, InfTimeAssumption
    DEF DportResp, Due, Core, Asserts, LsuRespSafe, Slots
  <2>2. t \in TransType
    BY <2>1, CoreBase
  <2>3. rr \in Scoreboards
    BY <2>2, RegTimeType, CoreBase, TimesFacts DEF TransType
  <2>4. [t EXCEPT !.wait = FALSE] \in TransType
    BY <2>2 DEF TransType
  <2>5. slot' \in [Slots -> TransType \cup {None}]
    BY <1>1, <2>1, <2>4, CoreBase DEF DportResp
  <2>6. DecodeRetry(slot["Fetch"], rr) \in Times
    BY <2>1, <2>3, DecodeRetryType, CoreBase
  <2>7. due' \in [Stages -> Times]
    <3>1. due["Decode"] \in Times /\ 1 \in Times
      BY CoreBase, TimesFacts DEF Stages, Slots
    <3> QED BY <1>1, <1>b, <2>6, <3>1 DEF DportResp
  <2>8. reg_ready' \in Scoreboards
    BY <1>1, <2>3 DEF DportResp
  <2>9. calc' \in Times
    BY <1>1, <1>b, TimesFacts DEF DportResp
  <2>10. dp' \in Dports
    BY <1>1, <1>b, TimesFacts DEF DportResp, Dports
  <2> QED BY <1>1, <1>b, <2>5, <2>7, <2>8, <2>9, <2>10, PhaseTypes DEF DportResp, BaseOK
<1>2. CASE DportQuiet
  BY <1>2, <1>b, PhaseTypes DEF DportQuiet, core, BaseOK
<1>3. CASE DportAck
  <2>1. dp' \in Dports
    <3>1. 0 \in 0..MaxDStall
      BY SizeFacts
    <3> QED BY <1>3, <1>b, <3>1, DportType DEF DportAck
  <2>2. due' \in [Stages -> Times] /\ calc' \in Times
    BY <1>3, <1>b, TimesFacts DEF DportAck
  <2> QED BY <1>3, <1>b, <2>1, <2>2, PhaseTypes DEF DportAck, BaseOK
<1>4. CASE DportBusy
  <2>1. dp' \in Dports
    <3> DEFINE i == IF dp.left # InfTime THEN dp.idle ELSE dp.idle + 1
    <3>1. i \in 0..MaxDStall
      BY <1>4, <1>b, SizeFacts DEF DportBusy, Dports
    <3>2. dp' = [dp EXCEPT !.ready = FALSE, !.idle = i]
      BY <1>4 DEF DportBusy
    <3> HIDE DEF i
    <3> QED BY <1>b, <3>1, <3>2, DportType
  <2> QED BY <1>4, <1>b, <2>1, PhaseTypes DEF DportBusy, core, BaseOK
<1> QED BY <1>1, <1>2, <1>3, <1>4 DEF Dport

\* The oldest waiting entry of the queue exists while a response is expected.
LEMMA FirstWaiting ==
    ASSUME Core, ip.n > 0, Head(fs.orphan) # TRUE
    PROVE  \E i \in Waiting(ifq) :
              /\ (CHOOSE k \in Waiting(ifq) : \A j \in Waiting(ifq) : k <= j) = i
              /\ i \in DOMAIN ifq /\ ifq[i].wait
<1> DEFINE o == fs.orphan
<1>0. o \in Seq(BOOLEAN) /\ Len(o) = ip.n /\ ip.n \in 0..2
  BY CoreBase DEF FetchFifoAligned, Iports
<1>q. /\ Len(o) \in Nat /\ DOMAIN o = 1..Len(o) /\ o # <<>> /\ Head(o) = o[1]
  BY <1>0, SeqFacts
<1>1. 1 \in Owned(o)
  <2>1. 1 \in DOMAIN o
    <3>1. \A n \in Nat : n > 0 => 1 \in 1..n
      OBVIOUS
    <3>2. Len(o) > 0
      BY <1>0, Zenon
    <3> QED BY <1>q, <3>1, <3>2, Zenon
  <2>2. ~o[1]
    BY <1>q, Zenon
  <2> QED BY <2>1, <2>2, Zenon DEF Owned
<1>2. IsFiniteSet(Owned(o))
  <2>2. Owned(o) \subseteq 1..Len(o)
    BY <1>q, Zenon DEF Owned
  <2>3. IsFiniteSet(1..Len(o))
    <3>1. Len(o) \in Int
      BY <1>q
    <3> QED BY <3>1, FS_Interval
  <2> QED BY <2>2, <2>3, FS_Subset, Zenon
<1>3. Cardinality(Owned(o)) # 0
  BY <1>1, <1>2, FS_EmptySet
<1>4. Waiting(ifq) # {}
  BY <1>3, FS_EmptySet, CoreBase DEF FetchFifoAligned, Owned, Waiting
<1>5. Waiting(ifq) \in SUBSET Nat
  <2>1. DOMAIN ifq \subseteq Nat
    BY CoreBase, SeqFacts
  <2> QED BY <2>1, Zenon DEF Waiting
<1>6. \E i \in Waiting(ifq) : \A j \in Waiting(ifq) : i <= j
  BY <1>4, <1>5, NatMin
<1> QED BY <1>6 DEF Waiting

\* Callbacks from the instruction port.
LEMMA BaseIport == ASSUME Core, Iport PROVE BaseOK'
<1>b. /\ BaseOK /\ due \in [Stages -> Times] /\ calc \in Times
      /\ ip \in Iports /\ (ip.ready => ip.n <= 1)
  BY CoreBase DEF BaseOK
<1>1. CASE IportResp
  <2>1. fs' \in FetchStates
    <3>1. fs.orphan \in Seq(BOOLEAN) /\ Len(fs.orphan) = ip.n /\ ip.n > 0
          /\ fs \in FetchStates
      BY <1>1, CoreBase DEF IportResp, FetchFifoAligned
    <3>2. Tail(fs.orphan) \in Seq(BOOLEAN)
      <4>1. fs.orphan # <<>>
        BY <1>b, <3>1, SeqFacts DEF Iports
      <4> QED BY <3>1, <4>1, SeqFacts, Zenon
    <3> QED BY <1>1, <3>1, <3>2 DEF IportResp, FetchStates
  <2>2. ip' \in Iports /\ (ip'.ready => ip'.n <= 1)
    <3>0. ip.n > 0 /\ ip.n \in 0..2
      BY <1>1, <1>b, Zenon DEF IportResp, Iports
    <3>1. 0 \in 0..MaxIStall /\ ip.n - 1 \in 0..2 /\ ip.n \in 0..2
      BY <3>0, SizeFacts
    <3>2. ip' = [ip EXCEPT !.n = ip.n - 1, !.idle = 0]
      BY <1>1 DEF IportResp
    <3>3. ip' \in Iports /\ ip'.n = ip.n - 1 /\ ip'.ready = ip.ready
      BY <1>b, <3>1, <3>2, IportCount
    <3> QED BY <1>b, <3>1, <3>3
  <2>3. due' \in [Stages -> Times] /\ calc' \in Times
    BY <1>1, <1>b, TimesFacts DEF IportResp
  <2>4. ifq' \in Seq(TransType) /\ Len(ifq') <= IfqSize
    <3>1. CASE Head(fs.orphan)
      BY <1>1, <3>1, <1>b DEF IportResp, BaseOK
    <3>2. CASE ~Head(fs.orphan)
      <4>0. ifq \in Seq(TransType) /\ Len(ifq) <= IfqSize
        BY <1>b DEF BaseOK
      <4>1. PICK i \in DOMAIN ifq : ifq' = [ifq EXCEPT ![i].wait = FALSE]
        <5>1. Head(fs.orphan) # TRUE /\ ip.n > 0
          BY <1>1, <3>2, Zenon DEF IportResp
        <5> QED BY <1>1, <3>2, <5>1, FirstWaiting, Zenon DEF IportResp, Waiting
      <4>2. [ifq[i] EXCEPT !.wait = FALSE] \in TransType
        <5>1. ifq[i] \in TransType
          BY <4>0
        <5> QED BY <5>1 DEF TransType
      <4>3. ifq' = [ifq EXCEPT ![i] = [ifq[i] EXCEPT !.wait = FALSE]]
        BY <4>1
      <4> QED BY <4>0, <4>2, <4>3
    <3> QED BY <3>1, <3>2
  <2> QED BY <1>1, <1>b, <2>1, <2>2, <2>3, <2>4, PhaseTypes DEF IportResp, BaseOK
<1>2. CASE IportQuiet
  <2>1. ip' \in Iports /\ (ip'.ready => ip'.n <= 1)
    BY <1>2, <1>b, SizeFacts DEF IportQuiet, Iports
  <2> QED BY <1>2, <1>b, <2>1, PhaseTypes DEF IportQuiet, core, BaseOK
<1>3. CASE IportAck
  <2>1. ip' \in Iports /\ (ip'.ready => ip'.n <= 1)
    <3> DEFINE i == IF ip.n > 0 THEN ip.idle ELSE 0
    <3>1. i \in 0..MaxIStall /\ ip.n <= 1
      BY <1>3, <1>b, SizeFacts DEF IportAck, Iports
    <3>2. ip' = [ip EXCEPT !.ready = TRUE, !.idle = i]
      BY <1>3 DEF IportAck
    <3> HIDE DEF i
    <3>3. ip' \in Iports /\ ip'.n = ip.n
      BY <1>b, <3>1, <3>2, IportOpen
    <3> QED BY <1>b, <3>1, <3>3
  <2>2. due' \in [Stages -> Times] /\ calc' \in Times
    BY <1>3, <1>b, TimesFacts DEF IportAck
  <2> QED BY <1>3, <1>b, <2>1, <2>2, PhaseTypes DEF IportAck, BaseOK
<1>4. CASE IportBusy
  <2>1. ip' \in Iports /\ (ip'.ready => ip'.n <= 1)
    BY <1>4, <1>b, SizeFacts DEF IportBusy, Iports
  <2> QED BY <1>4, <1>b, <2>1, PhaseTypes DEF IportBusy, core, BaseOK
<1> QED BY <1>1, <1>2, <1>3, <1>4 DEF Iport

\* The slot that do_writeback commits from is occupied.
LEMMA WbSourceFacts ==
    ASSUME Core, WbSource # "none"
    PROVE  /\ WbSource \in {"Memory", "Div", "Mul"} /\ WbSource \in Slots
           /\ slot[WbSource] # None /\ slot[WbSource] \in TransType
<1>1. WbSource \in {"Memory", "Div", "Mul"} /\ slot[WbSource] # None
  BY DEF WbSource
<1>2. WbSource \in Slots
  BY <1>1 DEF Slots
<1> QED BY <1>1, <1>2, CoreBase

\* do_writeback: types.
LEMMA BaseWriteback == ASSUME Core, do_writeback PROVE BaseOK'
<1>b. /\ BaseOK /\ due \in [Stages -> Times] /\ mext.mul \in Times /\ mext.div \in Times
      /\ slot \in [Slots -> TransType \cup {None}] /\ done \in Seq(Ids)
      /\ ongoing \in Int
  BY CoreBase DEF BaseOK
<1>f. /\ phase' \in Phases
      /\ UNCHANGED <<input, loop, ip, ifq, fs, reg_ready, mext, calc, dp>>
  BY PhaseTypes DEF do_writeback, Handler, Stages
<1>1. CASE WbSource = "none"
  <2>1. due' \in [Stages -> Times]
    <3> DEFINE d == IF slot["Div"] # None THEN mext.div ELSE InfTime
               m == IF slot["Mul"] # None THEN mext.mul ELSE InfTime
    <3>1. MaxOf(1, MinOf(d, m)) \in Times
      BY <1>b, TimesFacts
    <3> QED BY <1>1, <1>b, <3>1 DEF do_writeback
  <2>2. UNCHANGED <<slot, ongoing, done>>
    BY <1>1 DEF do_writeback
  <2> QED BY <1>b, <1>f, <2>1, <2>2 DEF BaseOK
<1>2. CASE WbSource # "none"
  <2>1. slot[WbSource].id \in Ids
    BY <1>2, WbSourceFacts DEF TransType
  <2>2. done' \in Seq(Ids)
    BY <1>2, <1>b, <2>1, SeqFacts DEF do_writeback
  <2>3. slot' \in [Slots -> TransType \cup {None}] /\ ongoing' \in Int
    BY <1>2, <1>b DEF do_writeback
  <2>4. due' \in [Stages -> Times]
    BY <1>2, <1>b, TimesFacts DEF do_writeback
  <2> QED BY <1>b, <1>f, <2>2, <2>3, <2>4 DEF BaseOK
<1> QED BY <1>1, <1>2

\* do_memory: types.
LEMMA BaseMemory == ASSUME Core, do_memory PROVE BaseOK'
<1> DEFINE t == slot["Execute"]
<1>b. /\ BaseOK /\ due \in [Stages -> Times] /\ dp \in Dports
      /\ slot \in [Slots -> TransType \cup {None}]
  BY CoreBase DEF BaseOK
<1>f. /\ phase' \in Phases
      /\ UNCHANGED <<input, loop, ip, ifq, fs, reg_ready, mext, calc, ongoing, done>>
  BY PhaseTypes DEF do_memory, Handler, Stages, Slots
<1>t. t # None /\ t \in TransType /\ "Execute" \in Slots /\ "Memory" \in Slots
  <2>1. t # None /\ "Execute" \in Slots /\ "Memory" \in Slots
    BY DEF do_memory, Handler, Runs, prev_stage_valid, Slots
  <2> QED BY <1>b, <2>1
<1>1. due' \in [Stages -> Times]
  BY <1>b, TimesFacts DEF do_memory
<1>2. dp' \in Dports
  <2>1. ASSUME NEW lat \in DLats PROVE [dp EXCEPT !.left = lat] \in Dports
    BY <1>b, TimesFacts DEF Dports
  <2> QED BY <1>b, <2>1 DEF do_memory, send_lsu_req
<1>3. slot' \in [Slots -> TransType \cup {None}]
  <2>1. [t EXCEPT !.wait = TRUE] \in TransType
    BY <1>t DEF TransType
  <2>2. [slot EXCEPT !["Execute"].wait = TRUE] \in [Slots -> TransType \cup {None}]
    BY <1>b, <1>t, <2>1
  <2> QED BY <1>b, <1>t, <2>2 DEF do_memory, send_lsu_req
<1> QED BY <1>b, <1>f, <1>1, <1>2, <1>3 DEF BaseOK

\* do_mul_ext and do_div_ext: types.
LEMMA BaseMext ==
    ASSUME Core, NEW u \in {"Mul", "Div"}, NEW kind, NEW lat \in Times,
           NEW ready \in {"mul", "div"}, DoMext(u, kind, lat, ready)
    PROVE  BaseOK'
<1> DEFINE t == slot["Decode"]
           rr == RegTime(t.dst, lat)
<1>b. /\ BaseOK /\ due \in [Stages -> Times] /\ mext \in [{"mul", "div"} -> Times]
      /\ slot \in [Slots -> TransType \cup {None}] /\ calc \in Times
      /\ reg_ready \in Scoreboards
  BY CoreBase DEF BaseOK
<1>f. /\ phase' \in Phases
      /\ UNCHANGED <<input, loop, ip, ifq, fs, ongoing, done, dp>>
  BY PhaseTypes DEF DoMext, Handler, Stages, Slots
<1>t. /\ t # None /\ t \in TransType
      /\ "Decode" \in Slots /\ u \in Slots /\ "Fetch" \in Slots
  <2>1. t # None /\ "Decode" \in Slots /\ u \in Slots /\ "Fetch" \in Slots
    BY DEF DoMext, Handler, Runs, prev_stage_valid, Slots
  <2> QED BY <1>b, <2>1
<1>r. rr \in Scoreboards
  BY <1>b, <1>t, RegTimeType DEF TransType
<1>1. CASE t.kind # kind
  BY <1>1, <1>b, <1>f DEF DoMext, BaseOK
<1>2. CASE t.kind = kind
  <2>1. due' \in [Stages -> Times]
    <3>1. DecodeRetry(slot["Fetch"], rr) \in Times
      BY <1>b, <1>t, <1>r, DecodeRetryType
    <3> QED BY <1>2, <1>b, <3>1 DEF DoMext
  <2>2. reg_ready' \in Scoreboards /\ mext' \in [{"mul", "div"} -> Times]
    BY <1>2, <1>b, <1>r DEF DoMext
  <2>3. calc' \in Times
    BY <1>2, <1>b, TimesFacts DEF DoMext
  <2>4. slot' \in [Slots -> TransType \cup {None}]
    BY <1>2, <1>b, <1>t DEF DoMext
  <2> QED BY <1>b, <1>f, <2>1, <2>2, <2>3, <2>4 DEF BaseOK
<1> QED BY <1>1, <1>2

\* What the flush un-counts is a natural number.
LEMMA FlushedNat == ASSUME Core PROVE FlushedInsts \in Nat
<1>1. DOMAIN ifq = 1..Len(ifq) /\ Len(ifq) \in Nat
  BY CoreBase, SeqFacts
<1>2. IsFiniteSet(DOMAIN ifq)
  BY <1>1, FS_Interval
<1> DEFINE W == {i \in DOMAIN ifq : ~ifq[i].wp}
<1>3. W \subseteq DOMAIN ifq
  OBVIOUS
<1>4. Cardinality(W) \in Nat
  BY <1>2, <1>3, FS_Subset, FS_CardinalityType
<1> HIDE DEF W
<1>5. FlushedInsts = Cardinality(W)
                     + (IF slot["Fetch"] # None /\ ~slot["Fetch"].wp THEN 1 ELSE 0)
  BY DEF FlushedInsts, W
<1> QED BY <1>4, <1>5

\* do_execute: types, the flush included.
LEMMA BaseExecute == ASSUME Core, do_execute PROVE BaseOK'
<1> DEFINE t == slot["Decode"]
           flush == t.kind = "BR" /\ t.mis
           fetched == IF flush THEN None ELSE slot["Fetch"]
           rr == RegTime(t.dst, IF t.kind = "BR" /\ t.dst # 0 THEN 2 ELSE 0)
<1>b. /\ BaseOK /\ due \in [Stages -> Times] /\ fs \in FetchStates
      /\ slot \in [Slots -> TransType \cup {None}] /\ fs.orphan \in Seq(BOOLEAN)
      /\ reg_ready \in Scoreboards /\ ifq \in Seq(TransType) /\ Len(ifq) <= IfqSize
      /\ ongoing \in Int
  BY CoreBase DEF BaseOK
<1>f. /\ phase' \in Phases
      /\ UNCHANGED <<input, loop, ip, mext, calc, dp, done>>
  BY PhaseTypes DEF do_execute, Handler, Stages, Slots
<1>t. /\ t # None /\ t \in TransType
      /\ "Decode" \in Slots /\ "Execute" \in Slots /\ "Fetch" \in Slots
  <2>1. t # None /\ "Decode" \in Slots /\ "Execute" \in Slots /\ "Fetch" \in Slots
    BY DEF do_execute, Handler, Runs, prev_stage_valid, Slots
  <2> QED BY <1>b, <2>1
<1>r. rr \in Scoreboards
  BY <1>b, <1>t, RegTimeType, TimesFacts DEF TransType
<1>1. CASE IsMext(t)
  BY <1>1, <1>b, <1>f DEF do_execute, BaseOK
<1>2. CASE ~IsMext(t)
  <2>1. due' \in [Stages -> Times]
    <3>1. DecodeRetry(fetched, rr) \in Times /\ due["Decode"] \in Times
      BY <1>b, <1>t, <1>r, DecodeRetryType DEF Stages
    <3> QED BY <1>2, <1>b, <3>1, TimesFacts DEF do_execute
  <2>2. reg_ready' \in Scoreboards
    BY <1>2, <1>b, <1>r DEF do_execute
  <2>3. slot' \in [Slots -> TransType \cup {None}]
    BY <1>2, <1>b, <1>t DEF do_execute
  <2>4. FlushedFetch \in FetchStates
    <3> DEFINE oo == [i \in DOMAIN fs.orphan |-> TRUE]
    <3>1. oo \in Seq(BOOLEAN)
      <4>1. DOMAIN fs.orphan = 1..Len(fs.orphan) /\ Len(fs.orphan) \in Nat
        BY <1>b, SeqFacts
      <4> QED BY <4>1
    <3>2. FlushedFetch = [fs EXCEPT !.orphan = oo, !.wp_flushed = TRUE, !.early = 0,
                                    !.resume = 1]
      BY DEF FlushedFetch, kBranchMissPenalty
    <3>3. ASSUME NEW o \in Seq(BOOLEAN), NEW e \in 0..2, NEW r \in 0..2, NEW x \in BOOLEAN
          PROVE  [fs EXCEPT !.orphan = o, !.wp_flushed = x, !.early = e, !.resume = r]
                 \in FetchStates
      BY <1>b DEF FetchStates
    <3> HIDE DEF oo
    <3>4. 0 \in 0..2 /\ 1 \in 0..2
      OBVIOUS
    <3> QED BY <3>1, <3>2, <3>3, <3>4, Zenon
  <2>5. fs' \in FetchStates
    BY <1>2, <1>b, <2>4 DEF do_execute
  <2>6. ifq' \in Seq(TransType) /\ Len(ifq') <= IfqSize
    <3>1. ifq' = <<>> \/ ifq' = ifq
      BY <1>2 DEF do_execute
    <3>2. <<>> \in Seq(TransType) /\ Len(<<>>) <= IfqSize
      BY SizeFacts
    <3> QED BY <1>b, <3>1, <3>2
  <2>7. ongoing' \in Int
    <3>1. ongoing' = ongoing - FlushedInsts \/ ongoing' = ongoing
      BY <1>2 DEF do_execute
    <3> QED BY <1>b, <3>1, FlushedNat
  <2> QED BY <1>b, <1>f, <2>1, <2>2, <2>3, <2>5, <2>6, <2>7 DEF BaseOK
<1> QED BY <1>1, <1>2

\* The three outcomes of do_decode: a placeholder is dropped, the instruction
\* stays, or it passes and may issue in the next tick.
LEMMA DecodeCases ==
    ASSUME Core, do_decode
    PROVE  /\ slot["Fetch"] # None /\ slot["Fetch"] \in TransType /\ slot["Decode"] = None
           /\ due' \in [Stages -> Times] /\ reg_ready' \in Scoreboards
           /\ \/ slot["Fetch"].wp /\ slot' = [slot EXCEPT !["Fetch"] = None]
              \/ UNCHANGED slot
              \/ /\ ~slot["Fetch"].wp /\ due'["Decode"] = 1
                 /\ slot' = [slot EXCEPT !["Decode"] = slot["Fetch"], !["Fetch"] = None]
<1> DEFINE t == slot["Fetch"]
<1>b. /\ due \in [Stages -> Times] /\ mext.mul \in Times /\ mext.div \in Times
      /\ slot \in [Slots -> TransType \cup {None}] /\ reg_ready \in Scoreboards
      /\ "Decode" \in Stages
  BY CoreBase DEF Stages, Slots
<1>t. t # None /\ t \in TransType /\ slot["Decode"] = None
  <2>1. t # None /\ "Decode" \in Slots /\ "Fetch" \in Slots /\ slot["Decode"] = None
    BY DEF do_decode, Handler, Runs, prev_stage_valid, Slots
  <2> QED BY <1>b, <2>1
<1>1. SrcReady(t, reg_ready) \in Times /\ reg_ready[t.dst] \in Times
  BY <1>b, <1>t, SrcReadyType DEF Scoreboards, TransType
<1> DEFINE ready == SrcReady(t, reg_ready)
           d == IF slot["Div"] # None THEN mext.div ELSE InfTime
           m == IF slot["Mul"] # None THEN mext.mul ELSE InfTime
           retry ==
            IF IsMext(t) /\ (slot["Mul"] # None \/ slot["Div"] # None)
            THEN MaxOf(1, MinOf(d, m))
            ELSE IF ready > 0 THEN ready
            ELSE IF WawHazard(t) THEN MaxOf(1, reg_ready[t.dst])
            ELSE 0
<1>2. retry \in Times
  <2>1. d \in Times /\ m \in Times
    BY <1>b, TimesFacts
  <2>2. MaxOf(1, MinOf(d, m)) \in Times /\ MaxOf(1, reg_ready[t.dst]) \in Times
        /\ 0 \in Times
    BY <2>1, <1>1, TimesFacts
  <2> QED BY <2>2, <1>1
<1>3. retry = 0 => finish_time(ready) = 1
  <2>1. retry = 0 => ready = 0
    <3>1. MaxOf(1, MinOf(d, m)) # 0
      BY <1>b, TimesFacts DEF MaxOf, MinOf, Times
    <3>2. ready \in Nat
      BY <1>1, InfTimeAssumption DEF Times
    <3>3. MaxOf(1, reg_ready[t.dst]) # 0
      BY <1>1, InfTimeAssumption DEF MaxOf, Times
    <3> QED BY <3>1, <3>2, <3>3
  <2> QED BY <2>1 DEF finish_time, MaxOf
<1>4. RegTime(t.dst, InfTime) \in Scoreboards
  BY <1>b, <1>t, RegTimeType, TimesFacts DEF TransType
<1>5. CASE t.wp
  BY <1>5, <1>b, <1>t, TimesFacts DEF do_decode
<1>6. CASE ~t.wp /\ retry > 0
  <2>1. due' = [due EXCEPT !["Decode"] = retry] /\ UNCHANGED <<slot, reg_ready>>
    BY <1>6 DEF do_decode
  <2> QED BY <2>1, <1>2, <1>b, <1>t
<1>7. CASE ~t.wp /\ ~(retry > 0)
  <2>1. /\ due' = [due EXCEPT !["Decode"] = finish_time(ready)]
        /\ reg_ready' = RegTime(t.dst, InfTime)
        /\ slot' = [slot EXCEPT !["Decode"] = t, !["Fetch"] = None]
    BY <1>7 DEF do_decode
  <2>2. finish_time(ready) = 1
    <3>1. retry = 0
      BY <1>7, <1>2, InfTimeAssumption DEF Times
    <3> QED BY <3>1, <1>3
  <2>3. due' \in [Stages -> Times] /\ due'["Decode"] = 1
    BY <2>1, <2>2, <1>b, TimesFacts
  <2> QED BY <2>1, <2>3, <1>t, <1>4, <1>7
<1> QED BY <1>5, <1>6, <1>7

\* do_decode: types.
LEMMA BaseDecode == ASSUME Core, do_decode PROVE BaseOK'
<1>b. BaseOK /\ slot \in [Slots -> TransType \cup {None}]
  BY CoreBase
<1>f. /\ phase' \in Phases
      /\ UNCHANGED <<input, loop, ip, ifq, fs, mext, calc, ongoing, dp, done>>
  BY PhaseTypes DEF do_decode, Handler, Stages, Slots
<1>1. slot' \in [Slots -> TransType \cup {None}]
  BY <1>b, DecodeCases
<1>2. due' \in [Stages -> Times] /\ reg_ready' \in Scoreboards
  BY DecodeCases
<1> QED BY <1>b, <1>f, <1>1, <1>2 DEF BaseOK

\* do_fetch_1: types.
LEMMA BaseFetch1 == ASSUME Core, do_fetch_1 PROVE BaseOK'
<1>b. /\ BaseOK /\ due \in [Stages -> Times] /\ ifq \in Seq(TransType)
      /\ slot \in [Slots -> TransType \cup {None}] /\ Len(ifq) <= IfqSize
  BY CoreBase DEF BaseOK
<1>f. /\ phase' \in Phases
      /\ UNCHANGED <<input, loop, ip, fs, reg_ready, mext, calc, ongoing, dp, done>>
  BY PhaseTypes DEF do_fetch_1, Handler, Stages, Slots
<1>1. due' \in [Stages -> Times]
  BY <1>b, TimesFacts DEF do_fetch_1
<1>2. /\ slot' \in [Slots -> TransType \cup {None}]
      /\ ifq' \in Seq(TransType) /\ Len(ifq') <= IfqSize
  <2>1. CASE ifq = <<>> \/ Head(ifq).wait
    BY <2>1, <1>b DEF do_fetch_1
  <2>2. CASE ~(ifq = <<>> \/ Head(ifq).wait) /\ Head(ifq).hold > 0
    <3>1. ifq' = [ifq EXCEPT ![1].hold = ifq[1].hold - 1] /\ UNCHANGED slot
      BY <2>2 DEF do_fetch_1
    <3>2. Head(ifq) = ifq[1] /\ ifq[1] \in TransType
      BY <2>2, <1>b, SeqFacts
    <3>3. ifq[1].hold - 1 \in 0..2
      BY <3>2, <2>2 DEF TransType
    <3>4. [ifq[1] EXCEPT !.hold = ifq[1].hold - 1] \in TransType
      BY <3>2, <3>3 DEF TransType
    <3>5. ifq' = [ifq EXCEPT ![1] = [ifq[1] EXCEPT !.hold = ifq[1].hold - 1]]
      BY <3>1
    <3>6. ifq' \in Seq(TransType) /\ Len(ifq') = Len(ifq)
      <4> DEFINE x == [ifq[1] EXCEPT !.hold = ifq[1].hold - 1]
      <4>1. x \in TransType /\ ifq' = [ifq EXCEPT ![1] = x]
        BY <3>4, <3>5
      <4> HIDE DEF x
      <4> QED BY ONLY <1>b, <4>1, SeqUpdate
    <3> QED BY <1>b, <3>1, <3>6, Zenon
  <2>3. CASE ~(ifq = <<>> \/ Head(ifq).wait) /\ ~(Head(ifq).hold > 0)
    <3>1. slot' = [slot EXCEPT !["Fetch"] = Head(ifq)] /\ ifq' = Tail(ifq)
      BY <2>3 DEF do_fetch_1
    <3>2. Head(ifq) \in TransType /\ Tail(ifq) \in Seq(TransType)
          /\ Len(Tail(ifq)) = Len(ifq) - 1 /\ Len(ifq) \in Nat
      BY <2>3, <1>b, SeqFacts
    <3>3. Len(ifq) - 1 <= IfqSize
      <4>1. \A a, b \in Nat : a <= b => a - 1 <= b
        OBVIOUS
      <4>2. IfqSize \in Nat
        BY SizeFacts
      <4> QED BY <1>b, <3>2, <4>1, <4>2, Zenon
    <3>4. slot' \in [Slots -> TransType \cup {None}]
      BY <1>b, <3>1, <3>2
    <3> QED BY <3>1, <3>2, <3>3, <3>4, Zenon
  <2> QED BY <2>1, <2>2, <2>3
<1> QED BY <1>b, <1>f, <1>1, <1>2 DEF BaseOK

\* A handler that does not run changes nothing.
LEMMA BaseSkip == ASSUME Core, NEW s \in Stages, Skip(s) PROVE BaseOK'
BY CoreBase, PhaseTypes DEF Skip, core, BaseOK

----------------------------------------------------------------------------
(* do_fetch_0.  What its four cases do, stated once. *)

\* A fetch: a request is sent, and the FIFO gains an entry.
LEMMA ReadReqFacts ==
    ASSUME Core, ip.ready, ReadReq
    PROVE  ip' \in Iports /\ (ip'.ready => ip'.n <= 1) /\ ip'.n = ip.n + 1
<1>1. ip \in Iports /\ ip.n <= 1
  BY CoreBase DEF BaseOK
<1>2. ip.n + 1 \in 0..2
  BY <1>1 DEF Iports
<1>3. ip' = [ip EXCEPT !.n = ip.n + 1, !.ready = FALSE]
  BY DEF ReadReq
<1>4. ip' \in Iports /\ ip'.n = ip.n + 1 /\ ip'.ready = FALSE
  BY <1>1, <1>2, <1>3, IportSend
<1> QED BY <1>4

\* fetch_ with every field assigned.
LEMMA FsUpdate ==
    ASSUME fs \in FetchStates, NEW o \in Seq(BOOLEAN), NEW e \in 0..2,
           NEW r \in 0..2, NEW w \in BOOLEAN, NEW x \in BOOLEAN
    PROVE  [wrong_path |-> w, wp_flushed |-> x, resume |-> r, early |-> e,
            orphan |-> o] \in FetchStates
BY DEF FetchStates

\* FetchReal, seen field by field.
LEMMA RealFacts ==
    ASSUME Core, FetchReal
    PROVE  /\ input # None /\ input \in TransType /\ Len(ifq) < IfqSize /\ ip.ready
           /\ \E g \in BOOLEAN, e \in 0..2, r \in 0..2, x \in BOOLEAN :
                 /\ input.kind # "BR" => g
                 /\ fs' = [wrong_path |-> ~g, wp_flushed |-> x, resume |-> r,
                           early |-> e, orphan |-> Append(fs.orphan, FALSE)]
                 /\ x = (IF fs.wrong_path THEN FALSE ELSE fs.wp_flushed)
                 /\ \E t \in TransType :
                       /\ ifq' = Append(ifq, t)
                       /\ t.id = input.id /\ t.kind = input.kind /\ t.wp = input.wp
                       /\ t.wait = TRUE /\ t.mis = ~g
<1>1. /\ input # None /\ input \in TransType /\ ip.ready
      /\ fs \in FetchStates
  BY CoreBase DEF FetchReal, BaseOK, MayFetch
<1>2. Len(ifq) < IfqSize
  <2>1. Len(ifq) \in Nat /\ IfqSize \in Nat
    BY CoreBase, SizeFacts
  <2>2. ~(Len(ifq) >= IfqSize)
    BY DEF FetchReal, Full
  <2> QED BY <2>1, <2>2
<1>3. PICK p \in Predictions(input) :
          /\ ifq' = Append(ifq, [input EXCEPT
                        !.wait = TRUE, !.mis = ~p.good,
                        !.hold = IF NoBpu /\ p.taken THEN 2 ELSE 0])
          /\ fs' = [Resumed EXCEPT
                       !.wrong_path = ~p.good,
                       !.orphan = Append(@, FALSE),
                       !.resume = IF p.tage THEN 2 ELSE @,
                       !.early = IF p.good /\ p.redirect THEN 2 ELSE @]
  BY DEF FetchReal
<1>4. p.good \in BOOLEAN /\ (input.kind # "BR" => p.good)
  <2>1. CASE input.kind # "BR"
    <3>1. p = [taken |-> FALSE, redirect |-> FALSE, good |-> TRUE, tage |-> FALSE]
      BY <2>1, <1>3, Zenon DEF Predictions
    <3>2. p.good = TRUE
      BY ONLY <3>1
    <3> QED BY <3>2, Zenon
  <2>2. CASE input.kind = "BR"
    <3>1. p \in [taken : BOOLEAN, redirect : BOOLEAN, good : BOOLEAN,
                 tage : {FALSE, Tage}]
      BY <2>2, <1>3, Zenon DEF Predictions
    <3>2. p.good \in BOOLEAN
      BY ONLY <3>1
    <3> QED BY <2>2, <3>2, Zenon
  <2> QED BY <2>1, <2>2, Zenon
<1> DEFINE h == IF NoBpu /\ p.taken THEN 2 ELSE 0
           r == IF p.tage THEN 2 ELSE fs.resume
           e == IF p.good /\ p.redirect THEN 2 ELSE fs.early
           x == IF fs.wrong_path THEN FALSE ELSE fs.wp_flushed
<1>5. h \in 0..2 /\ r \in 0..2 /\ e \in 0..2 /\ x \in BOOLEAN
  <2>1. 0 \in 0..2 /\ 2 \in 0..2
    OBVIOUS
  <2>2. /\ fs.resume \in 0..2 /\ fs.early \in 0..2
        /\ fs.wp_flushed \in BOOLEAN
    BY <1>1 DEF FetchStates
  <2> QED BY ONLY <2>1, <2>2, Zenon DEF h, r, e, x
<1> DEFINE t == [input EXCEPT !.wait = TRUE, !.mis = ~p.good, !.hold = h]
<1>6. /\ t \in TransType /\ ifq' = Append(ifq, t)
      /\ t.id = input.id /\ t.kind = input.kind /\ t.wp = input.wp
      /\ t.wait = TRUE /\ t.mis = ~p.good
  <2>1. ASSUME NEW k \in 0..2, NEW b \in BOOLEAN, NEW w \in BOOLEAN
        PROVE  LET y == [input EXCEPT !.wait = w, !.mis = b, !.hold = k]
               IN  /\ y \in TransType
                   /\ y.id = input.id /\ y.kind = input.kind /\ y.wp = input.wp
                   /\ y.wait = w /\ y.mis = b
    BY ONLY <1>1, <2>1 DEF TransType
  <2>2. ifq' = Append(ifq, t)
    BY <1>3, Zenon DEF h
  <2>3. (~p.good) \in BOOLEAN /\ TRUE \in BOOLEAN
    BY <1>4, Zenon
  <2>4. h \in 0..2
    BY <1>5
  <2> HIDE DEF h
  <2>5. /\ t \in TransType
        /\ t.id = input.id /\ t.kind = input.kind /\ t.wp = input.wp
        /\ t.wait = TRUE /\ t.mis = ~p.good
    BY ONLY <2>1, <2>3, <2>4
  <2> QED BY <2>2, <2>5, Zenon
<1>7. fs' = [wrong_path |-> ~p.good, wp_flushed |-> x, resume |-> r,
             early |-> e, orphan |-> Append(fs.orphan, FALSE)]
  <2>1. CASE fs.wrong_path
    BY <1>1, <1>3, <2>1 DEF FetchStates, Resumed
  <2>2. CASE ~fs.wrong_path
    BY <1>1, <1>3, <2>2 DEF FetchStates, Resumed
  <2> QED BY <2>1, <2>2
<1> HIDE DEF h, r, e, x, t
<1>8. x = (IF fs.wrong_path THEN FALSE ELSE fs.wp_flushed)
  BY DEF x
<1> QED BY <1>1, <1>2, <1>4, <1>5, <1>6, <1>7, <1>8, Zenon

\* do_fetch_0: types; a full queue is never pushed to.
LEMMA BaseFetch0 == ASSUME Core, do_fetch_0 PROVE BaseOK'
<1>b. /\ BaseOK /\ fs \in FetchStates /\ fs.orphan \in Seq(BOOLEAN)
      /\ ifq \in Seq(TransType) /\ Len(ifq) \in Nat /\ Len(ifq) <= IfqSize
      /\ IfqSize \in Nat
  BY CoreBase, SizeFacts DEF BaseOK
<1>f. /\ phase' \in Phases
      /\ UNCHANGED <<slot, due, reg_ready, mext, calc, ongoing, loop, dp, done>>
  BY PhaseTypes
  DEF do_fetch_0, FetchEarlyRedirect, FetchWrongPath, FetchReal, FetchNothing,
      Fetch0Frame
<1>o. ASSUME NEW v \in BOOLEAN PROVE Append(fs.orphan, v) \in Seq(BOOLEAN)
  BY <1>b, SeqFacts, Zenon
<1>1. CASE FetchEarlyRedirect
  <2>1. ip' \in Iports /\ (ip'.ready => ip'.n <= 1)
    BY <1>1, ReadReqFacts DEF FetchEarlyRedirect, MayFetch
  <2>2. fs' \in FetchStates
    <3> DEFINE oo == Append(fs.orphan, TRUE)
    <3>1. fs' = [fs EXCEPT !.orphan = oo, !.early = fs.early - 1]
      BY <1>1 DEF FetchEarlyRedirect
    <3>2. oo \in Seq(BOOLEAN)
      BY <1>o
    <3>3. fs.early - 1 \in 0..2
      BY <1>1, <1>b DEF FetchEarlyRedirect, FetchStates
    <3> HIDE DEF oo
    <3> QED BY <1>b, <3>1, <3>2, <3>3 DEF FetchStates
  <2>3. UNCHANGED <<ifq, input>>
    BY <1>1 DEF FetchEarlyRedirect
  <2> QED BY <1>b, <1>f, <2>1, <2>2, <2>3 DEF BaseOK
<1>2. CASE FetchWrongPath
  <2>1. ip' \in Iports /\ (ip'.ready => ip'.n <= 1)
    BY <1>2, ReadReqFacts DEF FetchWrongPath, MayFetch
  <2>2. fs' \in FetchStates
    <3> DEFINE oo == Append(fs.orphan, FALSE)
    <3>1. fs' = [fs EXCEPT !.orphan = oo]
      BY <1>2 DEF FetchWrongPath
    <3>2. oo \in Seq(BOOLEAN)
      BY <1>o
    <3> HIDE DEF oo
    <3> QED BY <1>b, <3>1, <3>2 DEF FetchStates
  <2>3. UNCHANGED input
    BY <1>2 DEF FetchWrongPath
  <2>4. Trans(0, NoInst, TRUE) \in TransType
    BY SizeFacts DEF Trans, NoInst, TransType, Ids, Kinds
  <2>5. ifq' \in Seq(TransType) /\ Len(ifq') = Len(ifq) + 1
    <3> DEFINE y == Trans(0, NoInst, TRUE)
    <3>1. ifq' = Append(ifq, y)
      BY <1>2, Zenon DEF FetchWrongPath
    <3>2. ifq \in Seq(TransType) /\ y \in TransType
      BY <1>b, <2>4
    <3> HIDE DEF y
    <3> QED BY ONLY <3>1, <3>2, SeqFacts
  <2>6. Len(ifq) + 1 <= IfqSize
    BY <1>2, <1>b DEF FetchWrongPath, Full
  <2> QED BY <1>b, <1>f, <2>1, <2>2, <2>3, <2>5, <2>6 DEF BaseOK
<1>3. CASE FetchReal
  <2>1. ip' \in Iports /\ (ip'.ready => ip'.n <= 1)
    BY <1>3, ReadReqFacts DEF FetchReal, MayFetch
  <2>2. PICK g \in BOOLEAN, e \in 0..2, r \in 0..2, x \in BOOLEAN, t \in TransType :
           /\ fs' = [wrong_path |-> ~g, wp_flushed |-> x, resume |-> r,
                     early |-> e, orphan |-> Append(fs.orphan, FALSE)]
           /\ ifq' = Append(ifq, t)
    BY <1>3, RealFacts, Zenon
  <2>3. fs' \in FetchStates
    <3>1. FALSE \in BOOLEAN /\ (~g) \in BOOLEAN
      BY Zenon
    <3> QED BY <1>b, <1>o, <2>2, <3>1, FsUpdate, Zenon
  <2>4. input' = None
    BY <1>3 DEF FetchReal
  <2>6. ifq' \in Seq(TransType) /\ Len(ifq') = Len(ifq) + 1
    BY <1>b, <2>2, SeqFacts
  <2>7. Len(ifq) + 1 <= IfqSize
    BY <1>3, <1>b, RealFacts
  <2> QED BY <1>b, <1>f, <2>1, <2>3, <2>4, <2>6, <2>7 DEF BaseOK
<1>4. CASE FetchNothing
  <2>1. UNCHANGED <<ifq, input, ip>>
    BY <1>4 DEF FetchNothing
  <2>2. fs' = fs \/ fs' = Resumed
    BY <1>4 DEF FetchNothing
  <2>3. Resumed \in FetchStates
    BY <1>b DEF Resumed, FetchStates
  <2> QED BY <1>b, <1>f, <2>1, <2>2, <2>3 DEF BaseOK
<1> QED BY <1>1, <1>2, <1>3, <1>4 DEF do_fetch_0

----------------------------------------------------------------------------

\* calc_sched: types.
LEMMA BaseSched == ASSUME Core, calc_sched PROVE BaseOK'
<1> DEFINE S == {InfTime} \cup FutureDeadlines
                \cup (IF fs.wrong_path \/ fs.early > 0 \/ fs.resume > 0
                      THEN {1} ELSE {})
<1>1. due \in [Stages -> Times] /\ BaseOK
  BY CoreBase
<1>2. FutureDeadlines \subseteq Times
  BY <1>1 DEF FutureDeadlines
<1>3. S \subseteq Times /\ S # {}
  BY <1>2, TimesFacts
<1>4. Times \subseteq Nat
  BY InfTimeAssumption DEF Times
<1>5. calc' = Min(S)
  BY DEF calc_sched
<1> HIDE DEF S
<1>6. calc' \in Times
  <2>1. S \in SUBSET Nat
    BY <1>3, <1>4
  <2> QED BY <1>3, <1>5, <2>1, MinFacts
<1> QED BY <1>1, <1>6, PhaseTypes DEF calc_sched, BaseOK

\* Every deadline is one tick nearer.
LEMMA BaseTick == ASSUME Core, Tick PROVE BaseOK'
<1>b. /\ BaseOK /\ due \in [Stages -> Times] /\ mext \in [{"mul", "div"} -> Times]
      /\ reg_ready \in Scoreboards /\ calc \in Times /\ fs \in FetchStates
      /\ dp \in Dports
  BY CoreBase
<1>1. due' \in [Stages -> Times] /\ calc' \in Times
  BY <1>b, TimesFacts DEF Tick
<1>2. reg_ready' \in Scoreboards
  <2>1. reg_ready' = [r \in Regs |-> Elapse(reg_ready[r])]
    BY DEF Tick
  <2>2. Elapse(0) = 0 /\ 0 \in Regs
    BY SizeFacts DEF Elapse
  <2> QED BY <1>b, <2>1, <2>2, TimesFacts DEF Scoreboards
<1>3. mext' \in [{"mul", "div"} -> Times]
  BY <1>b, TimesFacts DEF Tick
<1>4. fs' \in FetchStates
  <2>1. Elapse(fs.resume) \in 0..2
    BY <1>b, SizeFacts, InfTimeAssumption DEF FetchStates, Elapse
  <2>2. fs' = [fs EXCEPT !.resume = Elapse(fs.resume)]
    BY DEF Tick
  <2> QED BY <1>b, <2>1, <2>2 DEF FetchStates
<1>5. dp' \in Dports
  <2>1. Elapse(dp.left) \in Times
    BY <1>b, TimesFacts DEF Dports
  <2>2. dp' = [dp EXCEPT !.left = Elapse(dp.left)]
    BY DEF Tick
  <2> QED BY <1>b, <2>1, <2>2 DEF Dports
<1> QED BY <1>b, <1>1, <1>2, <1>3, <1>4, <1>5, PhaseTypes DEF Tick, BaseOK

\* What feed_inst puts into input_buffer_.
LEMMA FedFacts ==
    ASSUME Core, feed_inst
    PROVE  /\ input' \in TransType /\ input' # None /\ input'.id = loop.fed + 1
           /\ ~input'.wp /\ ~input'.mis /\ ~input'.wait
           /\ loop' \in Loops /\ loop'.fed = loop.fed + 1
<1>1. PICK i \in InstSet : input' = Trans(loop.fed + 1, i, FALSE)
  BY DEF feed_inst
<1>2. i.kind \in Kinds /\ i.src \subseteq Regs /\ i.dst \in Regs
  BY InstAssumption
<1>3. loop \in Loops /\ loop.fed \in 0..MaxInsts /\ loop.fed < MaxInsts
  BY CoreBase DEF feed_inst, Loops
<1>4. loop.fed + 1 \in 0..MaxInsts
  BY <1>3, SizeFacts
<1>5. input' \in TransType
  BY <1>1, <1>2, <1>4 DEF Trans, TransType, Ids
<1>6. input'.id = loop.fed + 1 /\ input'.wp = FALSE /\ input'.mis = FALSE
      /\ input'.wait = FALSE
  BY <1>1 DEF Trans
<1>7. loop' = [loop EXCEPT !.fed = loop.fed + 1]
  BY DEF feed_inst
<1>8. loop' \in Loops /\ loop'.fed = loop.fed + 1
  BY <1>3, <1>4, <1>7 DEF Loops
<1> QED BY <1>5, <1>6, <1>8, NoneFacts

\* The main loop's part of the tick.
LEMMA BaseLoop ==
    ASSUME Core, Begin \/ feed_inst \/ set_draining \/ NoFeed \/ Finished \/ UNCHANGED vars
    PROVE  BaseOK'
<1>b. BaseOK /\ loop \in Loops /\ ongoing \in Int
  BY CoreBase DEF BaseOK
<1>1. CASE Begin
  BY <1>1, <1>b, PhaseTypes DEF Begin, core, BaseOK
<1>2. CASE feed_inst
  <2>1. ongoing' = ongoing + 1 /\ phase' = "fed"
        /\ UNCHANGED <<slot, due, ifq, fs, reg_ready, mext, calc, ip, dp, done>>
    BY <1>2 DEF feed_inst
  <2> QED BY <1>2, <1>b, <2>1, FedFacts, PhaseTypes DEF BaseOK
<1>3. CASE set_draining
  <2>1. loop' \in Loops
    BY <1>3, <1>b DEF set_draining, Loops
  <2> QED BY <1>3, <1>b, <2>1, PhaseTypes DEF set_draining, core, BaseOK
<1>4. CASE NoFeed
  BY <1>4, <1>b, PhaseTypes DEF NoFeed, core, BaseOK
<1>5. CASE Finished \/ UNCHANGED vars
  BY <1>5, <1>b DEF Finished, vars, core, BaseOK
<1> QED BY <1>1, <1>2, <1>3, <1>4, <1>5

\* Types are kept by every step.
LEMMA BaseStep == ASSUME Core, [Next]_vars PROVE BaseOK'
<1>1. CASE do_mul_ext
  BY <1>1, BaseMext, TimesFacts DEF do_mul_ext
<1>2. CASE do_div_ext
  BY <1>2, BaseMext, TimesFacts DEF do_div_ext
<1> QED BY <1>1, <1>2, BaseDport, BaseIport, BaseWriteback, BaseMemory, BaseExecute,
           BaseDecode, BaseFetch1, BaseSkip, BaseFetch0, BaseSched, BaseTick, BaseLoop
        DEF Next, Handlers

----------------------------------------------------------------------------
(* The asserts of the handlers. *)

\* A step that leaves the slots, the deadline of Decode and the data request
\* alone, and does not leave the last phases of the tick.
LEMMA AssertsFrame ==
    ASSUME Asserts, UNCHANGED slot, due'["Decode"] = due["Decode"],
           dp'.left = dp.left, phase \in PastDecode => phase' \in PastDecode
    PROVE  Asserts'
BY DEF Asserts, Waits, RealSlots, LsuRespSafe, DecodePending, IsMem

\* A response moves its instruction to the free Memory slot.
LEMMA AssertsDport == ASSUME Core, Dport PROVE Asserts'
<1>a. Asserts /\ due \in [Stages -> Times] /\ dp \in Dports
      /\ slot \in [Slots -> TransType \cup {None}] /\ "Decode" \in Stages
  BY CoreBase DEF Stages, Slots
<1>1. CASE DportResp
  <2> DEFINE t == slot["Execute"]
             rr == IF t.kind = "LOAD" THEN RegTime(t.dst, 2) ELSE reg_ready
  <2>1. /\ slot' = [slot EXCEPT !["Memory"] = [t EXCEPT !.wait = FALSE],
                                !["Execute"] = None]
        /\ dp' = [dp EXCEPT !.left = InfTime]
        /\ phase = "dport"
        /\ due' = [due EXCEPT
                      !["Decode"] = IF t.kind = "LOAD"
                                    THEN DecodeRetry(slot["Fetch"], rr) ELSE @,
                      !["Memory"] = 1]
    BY <1>1 DEF DportResp
  <2>2. t # None /\ t \in TransType /\ dp.left # InfTime
    <3>1. dp.left # InfTime
      BY <1>1, InfTimeAssumption DEF DportResp, Due
    <3> QED BY <3>1, <1>a, CoreBase DEF Asserts, LsuRespSafe, Slots
  <2>3. /\ slot'["Memory"].wait = FALSE /\ slot'["Memory"].wp = t.wp
        /\ slot'["Execute"] = None
        /\ \A s \in Slots \ {"Execute", "Memory"} : slot'[s] = slot[s]
    BY <1>a, <2>1, <2>2 DEF Slots, TransType
  <2>4. Waits' /\ RealSlots'
    BY <1>a, <2>2, <2>3 DEF Asserts, Waits, RealSlots, Slots
  <2>5. LsuRespSafe'
    BY <1>a, <2>1, <2>3 DEF LsuRespSafe, Dports
  <2>6. DecodePending'
    <3>1. rr \in Scoreboards /\ slot["Fetch"] \in TransType \cup {None}
      BY <1>a, <2>2, RegTimeType, CoreBase, TimesFacts DEF TransType, Slots
    <3>2. due["Decode"] # InfTime => DecodeRetry(slot["Fetch"], rr) = due["Decode"]
      BY <1>a, <3>1, DecodeRetryType
    <3> HIDE DEF rr
    <3>3. due["Decode"] # InfTime => due'["Decode"] = due["Decode"]
      BY <1>a, <2>1, <3>2
    <3>4. slot["Decode"] # None => due["Decode"] = 0 /\ due["Decode"] # InfTime
      BY <1>a, <2>1, TimesFacts DEF Asserts, DecodePending, PastDecode
    <3> QED BY <2>3, <3>3, <3>4 DEF DecodePending, Slots
  <2> QED BY <2>4, <2>5, <2>6 DEF Asserts
<1>2. CASE DportQuiet
  BY <1>2, <1>a, AssertsFrame DEF DportQuiet, core, PastDecode
<1>3. CASE DportAck
  <2>1. UNCHANGED slot /\ due'["Decode"] = due["Decode"] /\ phase = "dack"
    BY <1>3, <1>a DEF DportAck
  <2>2. dp'.left = dp.left
    BY <1>3, <1>a DEF DportAck, Dports
  <2> QED BY <1>a, <2>1, <2>2, AssertsFrame DEF PastDecode
<1>4. CASE DportBusy
  <2>1. UNCHANGED slot /\ due'["Decode"] = due["Decode"] /\ phase = "dack"
    BY <1>4 DEF DportBusy, core
  <2>2. dp'.left = dp.left
    BY <1>4, <1>a DEF DportBusy, Dports
  <2> QED BY <1>a, <2>1, <2>2, AssertsFrame DEF PastDecode
<1> QED BY <1>1, <1>2, <1>3, <1>4 DEF Dport

\* The instruction port touches neither the slots nor the data request.
LEMMA AssertsIport == ASSUME Core, Iport PROVE Asserts'
<1>a. Asserts /\ due \in [Stages -> Times] /\ "Decode" \in Stages
  BY CoreBase DEF Stages, Slots
<1>1. UNCHANGED <<slot, dp>> /\ phase \notin PastDecode
  BY DEF Iport, IportResp, IportQuiet, IportAck, IportBusy, core, PastDecode
<1>2. due'["Decode"] = due["Decode"]
  <2>1. due' = due \/ due' = [due EXCEPT !["Fetch"] = 0] \/ due' = [due EXCEPT !["Fetch"] = 1]
    BY DEF Iport, IportResp, IportQuiet, IportAck, IportBusy, core
  <2> QED BY <1>a, <2>1
<1> QED BY <1>a, <1>1, <1>2, AssertsFrame

\* do_writeback empties a slot behind Execute.
LEMMA AssertsWriteback == ASSUME Core, do_writeback PROVE Asserts'
<1>a. Asserts /\ due \in [Stages -> Times] /\ "Decode" \in Stages
      /\ slot \in [Slots -> TransType \cup {None}]
  BY CoreBase DEF Stages, Slots
<1>1. UNCHANGED dp /\ phase = "WriteBack" /\ phase' = "Memory"
  BY DEF do_writeback, Handler, StageBelow
<1>2. due'["Decode"] = due["Decode"]
  BY <1>a DEF do_writeback
<1>3. CASE WbSource = "none"
  BY <1>a, <1>1, <1>2, <1>3, AssertsFrame DEF do_writeback, PastDecode
<1>4. CASE WbSource # "none"
  <2>1. slot' = [slot EXCEPT ![WbSource] = None] /\ WbSource \in {"Memory", "Div", "Mul"}
    BY <1>4, WbSourceFacts DEF do_writeback
  <2>2. /\ \A s \in Slots : slot'[s] = slot[s] \/ slot'[s] = None
        /\ slot'["Execute"] = slot["Execute"] /\ slot'["Decode"] = slot["Decode"]
        /\ slot["Memory"] = None => slot'["Memory"] = None
    BY <1>a, <2>1 DEF Slots
  <2>3. Waits' /\ RealSlots'
    BY <1>a, <2>2 DEF Asserts, Waits, RealSlots
  <2>4. LsuRespSafe' /\ DecodePending'
    BY <1>a, <1>1, <1>2, <2>2
    DEF Asserts, LsuRespSafe, DecodePending, IsMem, PastDecode
  <2> QED BY <2>3, <2>4 DEF Asserts
<1> QED BY <1>3, <1>4

\* do_memory sends the request from the Execute slot and marks it waiting.
LEMMA AssertsMemory == ASSUME Core, do_memory PROVE Asserts'
<1> DEFINE t == slot["Execute"]
<1>a. Asserts /\ due \in [Stages -> Times] /\ "Decode" \in Stages /\ dp \in Dports
      /\ slot \in [Slots -> TransType \cup {None}]
  BY CoreBase DEF Stages, Slots
<1>1. phase = "Memory" /\ phase' = "Div" /\ due'["Decode"] = due["Decode"]
      /\ slot["Memory"] = None /\ t # None /\ t \in TransType
  <2>1. t # None /\ slot["Memory"] = None
    BY DEF do_memory, Handler, Runs, prev_stage_valid, Slots
  <2>2. t \in TransType
    BY <2>1, CoreBase DEF Slots
  <2> QED BY <1>a, <2>1, <2>2 DEF do_memory, Handler, StageBelow
<1>2. CASE UNCHANGED <<slot, dp>>
  BY <1>a, <1>1, <1>2, AssertsFrame DEF PastDecode
<1>3. CASE ~t.wait /\ IsMem(t) /\ dp.ready /\ send_lsu_req
  <2>1. PICK lat \in DLats : dp' = [dp EXCEPT !.left = lat]
    BY <1>3 DEF send_lsu_req
  <2>2. dp'.left # InfTime
    BY <1>a, <2>1, TimesFacts DEF Dports
  <2>3. slot' = [slot EXCEPT !["Execute"] = [t EXCEPT !.wait = TRUE]]
    BY <1>3 DEF send_lsu_req
  <2>4. /\ \A s \in Slots \ {"Execute"} : slot'[s] = slot[s]
        /\ slot'["Execute"].wait = TRUE /\ slot'["Execute"].wp = t.wp
        /\ slot'["Execute"].kind = t.kind /\ slot'["Execute"] \in TransType
    BY <1>a, <1>1, <2>3 DEF Slots, TransType
  <2>5. Waits' /\ RealSlots'
    BY <1>a, <1>1, <2>4 DEF Asserts, Waits, RealSlots, Slots
  <2>6. LsuRespSafe'
    BY <1>1, <1>3, <2>2, <2>4, NoneFacts DEF LsuRespSafe, IsMem, Slots
  <2>7. DecodePending'
    BY <1>a, <1>1, <2>4 DEF Asserts, DecodePending, PastDecode, Slots
  <2> QED BY <2>5, <2>6, <2>7 DEF Asserts
<1>4. CASE ~t.wait /\ UNCHANGED dp
           /\ slot' = [slot EXCEPT !["Memory"] = t, !["Execute"] = None]
  <2>1. /\ \A s \in Slots \ {"Execute", "Memory"} : slot'[s] = slot[s]
        /\ slot'["Execute"] = None /\ slot'["Memory"] = t
    BY <1>a, <1>4 DEF Slots
  <2>2. dp.left = InfTime
    BY <1>a, <1>4 DEF Asserts, LsuRespSafe
  <2>3. Waits' /\ RealSlots'
    BY <1>a, <1>4, <2>1 DEF Asserts, Waits, RealSlots, Slots
  <2>4. LsuRespSafe'
    BY <1>4, <2>1, <2>2 DEF LsuRespSafe
  <2>5. DecodePending'
    BY <1>a, <1>1, <2>1 DEF Asserts, DecodePending, PastDecode, Slots
  <2> QED BY <2>3, <2>4, <2>5 DEF Asserts
<1> QED BY <1>2, <1>3, <1>4 DEF do_memory

\* An instruction leaves the Decode slot for an empty one.
LEMMA AssertsIssue ==
    ASSUME Core, NEW u \in {"Mul", "Div", "Execute"}, NEW f \in {slot["Fetch"], None},
           slot["Decode"] # None, slot[u] = None,
           slot' = [slot EXCEPT ![u] = slot["Decode"], !["Decode"] = None, !["Fetch"] = f],
           UNCHANGED dp
    PROVE  Asserts'
<1>a. Asserts /\ slot \in [Slots -> TransType \cup {None}]
  BY CoreBase
<1>1. /\ \A s \in Slots \ {"Decode", "Fetch", u} : slot'[s] = slot[s]
      /\ slot'["Decode"] = None /\ slot'["Fetch"] = f /\ slot'[u] = slot["Decode"]
  BY <1>a DEF Slots
<1>2. ~slot["Decode"].wait /\ ~slot["Decode"].wp
  BY <1>a DEF Asserts, Waits, RealSlots, Slots
<1>3. Waits' /\ RealSlots'
  BY <1>a, <1>1, <1>2 DEF Asserts, Waits, RealSlots, Slots
<1>4. LsuRespSafe'
  BY <1>a, <1>1, <1>2 DEF Asserts, LsuRespSafe, IsMem, Slots
<1>5. DecodePending'
  BY <1>1 DEF DecodePending
<1> QED BY <1>3, <1>4, <1>5 DEF Asserts

\* do_mul_ext and do_div_ext.
LEMMA AssertsMext ==
    ASSUME Core, NEW u \in {"Mul", "Div"}, NEW kind, NEW lat \in Times,
           NEW ready \in {"mul", "div"}, DoMext(u, kind, lat, ready)
    PROVE  Asserts'
<1>a. Asserts /\ slot \in [Slots -> TransType \cup {None}]
  BY CoreBase
<1>1. /\ phase = u /\ phase' = StageBelow[u] /\ UNCHANGED dp
      /\ slot[u] = None /\ slot["Decode"] # None
  BY DEF DoMext, Handler, Runs, prev_stage_valid, Slots
<1>2. CASE slot["Decode"].kind # kind
  <2>1. UNCHANGED <<slot, due>>
    BY <1>2 DEF DoMext
  <2> QED BY <1>a, <1>1, <2>1, AssertsFrame DEF PastDecode
<1>3. CASE slot["Decode"].kind = kind
  <2>1. slot' = [slot EXCEPT ![u] = slot["Decode"], !["Decode"] = None]
    BY <1>3 DEF DoMext
  <2>2. slot' = [slot EXCEPT ![u] = slot["Decode"], !["Decode"] = None,
                             !["Fetch"] = slot["Fetch"]]
    BY <1>a, <2>1 DEF Slots
  <2> QED BY <1>1, <2>2, AssertsIssue
<1> QED BY <1>2, <1>3

\* do_execute: no instruction enters Execute as one that waits.
LEMMA AssertsExecute == ASSUME Core, do_execute PROVE Asserts'
<1> DEFINE t == slot["Decode"]
           fetched == IF t.kind = "BR" /\ t.mis THEN None ELSE slot["Fetch"]
<1>a. Asserts /\ slot \in [Slots -> TransType \cup {None}]
  BY CoreBase
<1>1. /\ phase = "Execute" /\ UNCHANGED dp
      /\ slot["Execute"] = None /\ slot["Decode"] # None
  BY DEF do_execute, Handler, Runs, prev_stage_valid, Slots
<1>2. CASE IsMext(t)
  <2>1. UNCHANGED <<slot, due>>
    BY <1>2 DEF do_execute
  <2> QED BY <1>a, <1>1, <2>1, AssertsFrame DEF PastDecode
<1>3. CASE ~IsMext(t)
  <2>1. slot' = [slot EXCEPT !["Execute"] = t, !["Decode"] = None, !["Fetch"] = fetched]
    BY <1>3 DEF do_execute
  <2>2. fetched \in {slot["Fetch"], None}
    OBVIOUS
  <2> QED BY <1>1, <2>1, <2>2, AssertsIssue
<1> QED BY <1>2, <1>3

\* do_decode: what passes may issue in the next tick.
LEMMA AssertsDecode == ASSUME Core, do_decode PROVE Asserts'
<1>a. Asserts /\ slot \in [Slots -> TransType \cup {None}] /\ slot["Decode"] = None
  BY CoreBase, DecodeCases
<1>1. UNCHANGED dp /\ phase' = "Fetch"
  BY DEF do_decode, Handler, StageBelow
<1>2. /\ \A s \in Slots \ {"Decode", "Fetch"} : slot'[s] = slot[s]
      /\ slot'["Fetch"] \in {None, slot["Fetch"]}
      /\ \/ slot'["Decode"] = None
         \/ slot'["Decode"] = slot["Fetch"] /\ ~slot["Fetch"].wp /\ due'["Decode"] = 1
  BY <1>a, DecodeCases DEF Slots
<1>3. Waits' /\ RealSlots'
  BY <1>a, <1>2 DEF Asserts, Waits, RealSlots, Slots
<1>4. LsuRespSafe'
  BY <1>a, <1>1, <1>2 DEF Asserts, LsuRespSafe, IsMem, Slots
<1>5. DecodePending'
  BY <1>1, <1>2 DEF DecodePending, PastDecode
<1> QED BY <1>3, <1>4, <1>5 DEF Asserts

\* do_fetch_1: no instruction enters the Fetch slot before its response.
LEMMA AssertsFetch1 == ASSUME Core, do_fetch_1 PROVE Asserts'
<1>a. Asserts /\ slot \in [Slots -> TransType \cup {None}] /\ due \in [Stages -> Times]
      /\ "Decode" \in Stages
  BY CoreBase DEF Stages, Slots
<1>1. UNCHANGED dp /\ phase' = "fetch0" /\ phase' \in PastDecode
  BY DEF do_fetch_1, Handler, StageBelow, PastDecode
<1>2. due'["Decode"] = due["Decode"]
  BY <1>a DEF do_fetch_1
<1>3. CASE UNCHANGED slot
  BY <1>a, <1>1, <1>2, <1>3, AssertsFrame
<1>4. CASE ~Head(ifq).wait /\ slot' = [slot EXCEPT !["Fetch"] = Head(ifq)]
  <2>1. /\ \A s \in Slots \ {"Fetch"} : slot'[s] = slot[s]
        /\ slot'["Fetch"] = Head(ifq)
    BY <1>a, <1>4 DEF Slots
  <2>2. Waits' /\ RealSlots'
    BY <1>a, <1>4, <2>1 DEF Asserts, Waits, RealSlots
  <2>3. LsuRespSafe' /\ DecodePending'
    BY <1>a, <1>1, <1>2, <2>1
    DEF Asserts, LsuRespSafe, DecodePending, IsMem, Slots
  <2> QED BY <2>2, <2>3 DEF Asserts
<1> QED BY <1>3, <1>4 DEF do_fetch_1

\* A deadline one tick away is due in the next tick.
LEMMA AssertsTick == ASSUME Core, Tick PROVE Asserts'
<1>a. Asserts /\ due \in [Stages -> Times] /\ dp \in Dports /\ "Decode" \in Stages
      /\ dp.left \in Times
  BY CoreBase DEF Stages, Slots, Dports
<1>1. due'["Decode"] = Elapse(due["Decode"]) /\ UNCHANGED slot
  BY <1>a DEF Tick
<1>2. dp'.left = Elapse(dp.left)
  BY <1>a DEF Tick, Dports
<1>3. dp'.left = InfTime <=> dp.left = InfTime
  BY <1>a, <1>2, TimesFacts
<1>4. Waits' /\ RealSlots' /\ LsuRespSafe'
  BY <1>a, <1>1, <1>3 DEF Asserts, Waits, RealSlots, LsuRespSafe, IsMem
<1>5. Elapse(0) = 0 /\ Elapse(1) = 0
  BY SizeFacts DEF Elapse
<1>6. DecodePending'
  BY <1>a, <1>1, <1>5 DEF Asserts, DecodePending
<1> QED BY <1>4, <1>6 DEF Asserts

\* The steps that leave slots, deadlines and the data port alone.
LEMMA AssertsQuiet ==
    ASSUME Core,
           \/ Begin \/ do_fetch_0 \/ calc_sched \/ feed_inst \/ set_draining
           \/ NoFeed \/ Finished \/ UNCHANGED vars \/ \E s \in Stages : Skip(s)
    PROVE  Asserts'
<1>a. Asserts
  BY CoreBase
<1>1. CASE do_fetch_0
  <2>1. /\ UNCHANGED <<slot, due, dp>> /\ phase \in {"fetch0", "fed"}
        /\ phase' = AfterFetch0[phase]
    BY <1>1 DEF do_fetch_0, FetchEarlyRedirect, FetchWrongPath, FetchReal,
                FetchNothing, Fetch0Frame
  <2>2. phase' \in PastDecode
    BY <2>1 DEF AfterFetch0, PastDecode
  <2> QED BY <1>a, <2>1, <2>2, AssertsFrame
<1>2. ASSUME NEW s \in Stages, Skip(s) PROVE Asserts'
  <2>1. UNCHANGED <<slot, due, dp>> /\ phase = s /\ phase' = StageBelow[s]
    BY <1>2 DEF Skip, core
  <2>2. phase \in PastDecode => phase' \in PastDecode
    BY <2>1 DEF StageBelow, PastDecode, Stages, Slots
  <2> QED BY <1>a, <2>1, <2>2, AssertsFrame
<1>3. CASE Begin
  BY <1>a, <1>3, AssertsFrame DEF Begin, core, PastDecode
<1>4. CASE calc_sched
  BY <1>a, <1>4, AssertsFrame DEF calc_sched, PastDecode
<1>5. CASE feed_inst \/ set_draining \/ NoFeed
  BY <1>a, <1>5, AssertsFrame DEF feed_inst, set_draining, NoFeed, core, PastDecode
<1>6. CASE Finished \/ UNCHANGED vars
  BY <1>a, <1>6, AssertsFrame DEF Finished, vars, core
<1> QED BY <1>1, <1>2, <1>3, <1>4, <1>5, <1>6

----------------------------------------------------------------------------
(* Counting marked places of a sequence. *)

\* Dropping the first place.
LEMMA CountShift ==
    ASSUME NEW n \in Nat, NEW S \in SUBSET (1..(n + 1))
    PROVE  LET T == {i \in 1..n : i + 1 \in S}
           IN  /\ IsFiniteSet(T) /\ IsFiniteSet(S)
               /\ Cardinality(T) = IF 1 \in S THEN Cardinality(S) - 1 ELSE Cardinality(S)
<1> DEFINE T == {i \in 1..n : i + 1 \in S}
           U == S \ {1}
           F == [i \in T |-> i + 1]
<1>1. IsFiniteSet(1..n) /\ IsFiniteSet(1..(n + 1))
  BY FS_Interval
<1>2. IsFiniteSet(T) /\ IsFiniteSet(S)
  BY <1>1, FS_Subset
<1>3. F \in [T -> U]
  <2>1. ASSUME NEW i \in T PROVE i + 1 \in U
    OBVIOUS
  <2> QED BY <2>1
<1>4. \A a, b \in T : F[a] = F[b] => a = b
  OBVIOUS
<1>5. ASSUME NEW u \in U PROVE \E i \in T : F[i] = u
  <2>1. u - 1 \in T
    OBVIOUS
  <2>2. F[u - 1] = u
    BY <2>1
  <2> QED BY <2>1, <2>2
<1>6. F \in Bijection(T, U)
  <2> HIDE DEF F, T, U
  <2> QED BY <1>3, <1>4, <1>5, Fun_IsBij
<1>7. Cardinality(U) = Cardinality(T)
  <2> HIDE DEF F, T, U
  <2>1. ExistsBijection(T, U)
    BY <1>6 DEF ExistsBijection
  <2> QED BY <1>2, <2>1, FS_Bijection
<1>8. Cardinality(U) = IF 1 \in S THEN Cardinality(S) - 1 ELSE Cardinality(S)
  BY <1>2, FS_RemoveElement
<1> QED BY <1>2, <1>7, <1>8

\* The places of the FIFO and of the queue, after each operation on them.
LEMMA OwnedFacts ==
    ASSUME NEW o \in Seq(BOOLEAN)
    PROVE  /\ IsFiniteSet(Owned(o)) /\ Cardinality(Owned(o)) \in Nat
           /\ o # <<>> =>
                 /\ Cardinality(Owned(Tail(o)))
                    = IF 1 \in Owned(o) THEN Cardinality(Owned(o)) - 1
                      ELSE Cardinality(Owned(o))
                 /\ 1 \in Owned(o) <=> Head(o) # TRUE
           /\ Cardinality(Owned(Append(o, TRUE))) = Cardinality(Owned(o))
           /\ Cardinality(Owned(Append(o, FALSE))) = Cardinality(Owned(o)) + 1
<1> DEFINE n == Len(o)
<1>1. n \in Nat /\ DOMAIN o = 1..n /\ \A i \in 1..n : o[i] \in BOOLEAN
  BY SeqFacts
<1>2. Owned(o) \in SUBSET (1..n)
  BY <1>1, Zenon DEF Owned
<1>3. IsFiniteSet(Owned(o)) /\ Cardinality(Owned(o)) \in Nat
  <2>1. IsFiniteSet(1..n)
    BY <1>1, FS_Interval
  <2> QED BY <1>2, <2>1, FS_Subset, FS_CardinalityType
<1>4. ASSUME o # <<>>
      PROVE  /\ Cardinality(Owned(Tail(o)))
                = IF 1 \in Owned(o) THEN Cardinality(Owned(o)) - 1
                  ELSE Cardinality(Owned(o))
             /\ 1 \in Owned(o) <=> Head(o) # TRUE
  <2>1. /\ Tail(o) \in Seq(BOOLEAN) /\ Len(Tail(o)) = n - 1 /\ n > 0
        /\ \A i \in 1..(n - 1) : Tail(o)[i] = o[i + 1]
        /\ Head(o) = o[1]
    BY <1>4, SeqFacts
  <2>2. DOMAIN Tail(o) = 1..(n - 1)
    BY <2>1, SeqFacts
  <2>3. \A i \in 1..(n - 1) : i + 1 \in 1..n
    BY <1>1, <2>1
  <2>4. Owned(Tail(o)) = {i \in 1..(n - 1) : i + 1 \in Owned(o)}
    <3>1. ASSUME NEW i \in 1..(n - 1) PROVE ~Tail(o)[i] <=> i + 1 \in Owned(o)
      BY <1>1, <2>1, <2>3, Zenon DEF Owned
    <3> QED BY <2>2, <3>1, Zenon DEF Owned
  <2>5. n - 1 \in Nat /\ (n - 1) + 1 = n /\ 1 \in 1..n
    BY <1>1, <2>1
  <2>6. Cardinality(Owned(Tail(o))) = IF 1 \in Owned(o) THEN Cardinality(Owned(o)) - 1
                                      ELSE Cardinality(Owned(o))
    <3>1. Owned(o) \in SUBSET (1..((n - 1) + 1))
      BY <1>2, <2>5
    <3> HIDE DEF n
    <3> QED BY <2>4, <2>5, <3>1, CountShift
  <2>7. 1 \in Owned(o) <=> Head(o) # TRUE
    BY <1>1, <2>1, <2>5, Zenon DEF Owned
  <2> QED BY <2>6, <2>7
<1>5. ASSUME NEW v \in BOOLEAN
      PROVE  /\ Owned(Append(o, v)) = IF v = TRUE THEN Owned(o) ELSE Owned(o) \cup {n + 1}
  <2>1. /\ Append(o, v) \in Seq(BOOLEAN) /\ Len(Append(o, v)) = n + 1
        /\ \A i \in 1..n : Append(o, v)[i] = o[i]
        /\ Append(o, v)[n + 1] = v
    BY SeqFacts
  <2>2. DOMAIN Append(o, v) = 1..(n + 1)
    BY <2>1, SeqFacts
  <2>3. 1..(n + 1) = (1..n) \cup {n + 1}
    BY <1>1
  <2> QED BY <1>1, <2>1, <2>2, <2>3, Zenon DEF Owned
<1>6. n + 1 \notin Owned(o)
  BY <1>1, <1>2
<1>7. Owned(Append(o, TRUE)) = Owned(o) /\ Owned(Append(o, FALSE)) = Owned(o) \cup {n + 1}
  BY <1>5, Zenon
<1>8. Cardinality(Owned(o) \cup {n + 1}) = Cardinality(Owned(o)) + 1
  BY <1>3, <1>6, FS_AddElement
<1> QED BY <1>3, <1>4, <1>7, <1>8, Zenon

\* The number of queue entries that wait, after a pop and a push.
LEMMA WaitingFacts ==
    ASSUME NEW q \in Seq(TransType)
    PROVE  /\ IsFiniteSet(Waiting(q)) /\ Cardinality(Waiting(q)) \in Nat
           /\ q # <<>> /\ ~Head(q).wait
                => Cardinality(Waiting(Tail(q))) = Cardinality(Waiting(q))
           /\ \A t \in TransType :
                 t.wait => Cardinality(Waiting(Append(q, t))) = Cardinality(Waiting(q)) + 1
<1> DEFINE n == Len(q)
<1>1. n \in Nat /\ DOMAIN q = 1..n
  BY SeqFacts
<1>2. Waiting(q) \in SUBSET (1..n)
  BY <1>1, Zenon DEF Waiting
<1>3. IsFiniteSet(Waiting(q)) /\ Cardinality(Waiting(q)) \in Nat
  <2>1. IsFiniteSet(1..n)
    BY <1>1, FS_Interval
  <2> QED BY <1>2, <2>1, FS_Subset, FS_CardinalityType
<1>4. ASSUME q # <<>>, Head(q).wait # TRUE, Head(q).wait \in BOOLEAN
      PROVE  Cardinality(Waiting(Tail(q))) = Cardinality(Waiting(q))
  <2>1. /\ Tail(q) \in Seq(TransType) /\ Len(Tail(q)) = n - 1 /\ n > 0
        /\ \A i \in 1..(n - 1) : Tail(q)[i] = q[i + 1]
        /\ Head(q) = q[1]
    BY <1>4, SeqFacts
  <2>2. DOMAIN Tail(q) = 1..(n - 1)
    BY <2>1, SeqFacts
  <2>3. \A i \in 1..(n - 1) : i + 1 \in 1..n
    BY <1>1, <2>1
  <2>4. Waiting(Tail(q)) = {i \in 1..(n - 1) : i + 1 \in Waiting(q)}
    <3>1. ASSUME NEW i \in 1..(n - 1) PROVE Tail(q)[i].wait <=> i + 1 \in Waiting(q)
      BY <1>1, <2>1, <2>3, Zenon DEF Waiting
    <3> QED BY <2>2, <3>1, Zenon DEF Waiting
  <2>5. n - 1 \in Nat /\ (n - 1) + 1 = n /\ 1 \notin Waiting(q)
    <3>1. n - 1 \in Nat /\ (n - 1) + 1 = n
      BY <1>1, <2>1
    <3>2. 1 \notin Waiting(q)
      BY <1>4, <2>1, Zenon DEF Waiting
    <3> QED BY <3>1, <3>2
  <2>6. Waiting(q) \in SUBSET (1..((n - 1) + 1))
    BY <1>2, <2>5
  <2> HIDE DEF n
  <2> QED BY <2>4, <2>5, <2>6, CountShift
<1>5. ASSUME NEW t \in TransType, t.wait = TRUE
      PROVE  Cardinality(Waiting(Append(q, t))) = Cardinality(Waiting(q)) + 1
  <2>1. /\ Append(q, t) \in Seq(TransType) /\ Len(Append(q, t)) = n + 1
        /\ \A i \in 1..n : Append(q, t)[i] = q[i]
        /\ Append(q, t)[n + 1] = t
    BY SeqFacts
  <2>2. DOMAIN Append(q, t) = 1..(n + 1)
    BY <2>1, SeqFacts
  <2>3. 1..(n + 1) = (1..n) \cup {n + 1}
    BY <1>1
  <2>4. Waiting(Append(q, t)) = Waiting(q) \cup {n + 1}
    BY <1>1, <1>5, <2>1, <2>2, <2>3, Zenon DEF Waiting
  <2>5. n + 1 \notin Waiting(q)
    BY <1>1, <1>2
  <2> QED BY <1>3, <2>4, <2>5, FS_AddElement
<1>6. q # <<>> => Head(q).wait \in BOOLEAN
  <2>1. q # <<>> => Head(q) \in TransType
    BY SeqFacts
  <2> QED BY <2>1 DEF TransType
<1>7. \A t \in TransType : t.wait \in BOOLEAN
  BY DEF TransType
<1> QED BY <1>3, <1>4, <1>5, <1>6, <1>7, Zenon

\* The response of the oldest waiting entry.
LEMMA WaitingCleared ==
    ASSUME NEW q \in Seq(TransType), NEW i \in Waiting(q)
    PROVE  LET p == [q EXCEPT ![i].wait = FALSE]
           IN  Cardinality(Waiting(p)) = Cardinality(Waiting(q)) - 1
<1> DEFINE x == [q[i] EXCEPT !.wait = FALSE]
           p == [q EXCEPT ![i] = x]
<1>1. DOMAIN q = 1..Len(q) /\ i \in DOMAIN q /\ q[i] \in TransType
  <2>1. DOMAIN q = 1..Len(q) /\ i \in DOMAIN q
    BY SeqFacts DEF Waiting
  <2> QED BY <2>1, SeqFacts
<1>2. x.wait = FALSE
  BY <1>1 DEF TransType
<1>3. p = [q EXCEPT ![i].wait = FALSE]
  BY <1>1
<1> HIDE DEF x
<1>4. DOMAIN p = DOMAIN q /\ p[i] = x /\ \A j \in DOMAIN q : j # i => p[j] = q[j]
  BY <1>1
<1> HIDE DEF p
<1>5. Waiting(p) = Waiting(q) \ {i}
  BY <1>1, <1>2, <1>4, Zenon DEF Waiting
<1>6. IsFiniteSet(Waiting(q))
  BY WaitingFacts
<1>7. Cardinality(Waiting(q) \ {i}) = Cardinality(Waiting(q)) - 1
  BY <1>6, FS_RemoveElement
<1> QED BY <1>3, <1>5, <1>7

----------------------------------------------------------------------------
(* The FIFO of expected responses stays aligned with the queue. *)

Aligned ==
    /\ Len(fs.orphan) = ip.n
    /\ Cardinality(Owned(fs.orphan)) = Cardinality(Waiting(ifq))

\* Aligned is FetchFifoAligned without the capacity.
LEMMA AlignedMeaning ==
    /\ FetchFifoAligned <=> Len(ifq) <= IfqSize /\ Aligned
    /\ FetchFifoAligned' <=> Len(ifq') <= IfqSize /\ Aligned'
BY DEF FetchFifoAligned, Aligned, Owned, Waiting

\* Core includes it.
LEMMA CoreAligned == ASSUME Core PROVE Aligned
BY AlignedMeaning DEF Core

\* A step that leaves the queue, the FIFO and the count alone.
LEMMA AlignedFrame ==
    ASSUME Core, ifq' = ifq, fs'.orphan = fs.orphan, ip'.n = ip.n
    PROVE  Aligned'
BY CoreAligned DEF Aligned

\* A response pops the FIFO and clears at most one waiting entry.
LEMMA AlignedIport == ASSUME Core, Iport PROVE Aligned'
<1>b. ip \in Iports /\ fs \in FetchStates /\ fs.orphan \in Seq(BOOLEAN)
      /\ ifq \in Seq(TransType)
  BY CoreBase
<1>a. Len(fs.orphan) = ip.n /\ Cardinality(Owned(fs.orphan)) = Cardinality(Waiting(ifq))
  BY CoreAligned DEF Aligned
<1>1. CASE IportResp
  <2>1. fs' = [fs EXCEPT !.orphan = Tail(fs.orphan)] /\ ip.n > 0
        /\ ip' = [ip EXCEPT !.n = ip.n - 1, !.idle = 0]
    BY <1>1, Zenon DEF IportResp
  <2>2. fs'.orphan = Tail(fs.orphan) /\ ip'.n = ip.n - 1
    BY <1>b, <2>1 DEF FetchStates, Iports
  <2>3. fs.orphan # <<>>
    BY <1>a, <1>b, <2>1, SeqFacts DEF Iports
  <2>4. Len(fs'.orphan) = ip'.n
    BY <1>a, <1>b, <2>2, <2>3, SeqFacts
  <2>5. CASE Head(fs.orphan) = TRUE
    <3>1. ifq' = ifq
      BY <1>1, <2>5, Zenon DEF IportResp
    <3>2. 1 \notin Owned(fs.orphan)
      BY <1>b, <2>3, <2>5, OwnedFacts, Zenon
    <3>3. Cardinality(Owned(Tail(fs.orphan))) = Cardinality(Owned(fs.orphan))
      BY <1>b, <2>3, <3>2, OwnedFacts, Zenon
    <3> QED BY <1>a, <2>2, <2>4, <3>1, <3>3 DEF Aligned
  <2>6. CASE Head(fs.orphan) # TRUE
    <3>0. ~Head(fs.orphan)
      <4>1. Head(fs.orphan) \in BOOLEAN
        BY <1>b, <2>3, SeqFacts, Zenon
      <4> QED BY <2>6, <4>1, Zenon
    <3>1. PICK i \in Waiting(ifq) : ifq' = [ifq EXCEPT ![i].wait = FALSE]
      BY <1>1, <2>1, <2>6, <3>0, FirstWaiting, Zenon DEF IportResp, Waiting
    <3>2. Cardinality(Waiting(ifq')) = Cardinality(Waiting(ifq)) - 1
      BY <1>b, <3>1, WaitingCleared, Zenon
    <3>3. 1 \in Owned(fs.orphan)
      BY <1>b, <2>3, <2>6, OwnedFacts, Zenon
    <3>4. Cardinality(Owned(Tail(fs.orphan))) = Cardinality(Owned(fs.orphan)) - 1
      BY <1>b, <2>3, <3>3, OwnedFacts, Zenon
    <3> QED BY <1>a, <2>2, <2>4, <3>2, <3>4, Zenon DEF Aligned
  <2> QED BY <2>5, <2>6
<1>2. CASE IportQuiet \/ IportAck \/ IportBusy
  <2>1. UNCHANGED <<ifq, fs>>
    BY <1>2 DEF IportQuiet, IportAck, IportBusy, core
  <2>2. ip'.n = ip.n
    BY <1>b, <1>2 DEF IportQuiet, IportAck, IportBusy, Iports
  <2> QED BY <2>1, <2>2, AlignedFrame
<1> QED BY <1>1, <1>2 DEF Iport

\* The flush turns every entry of the FIFO into an orphan and empties the queue.
LEMMA AlignedExecute == ASSUME Core, do_execute PROVE Aligned'
<1>b. fs \in FetchStates /\ fs.orphan \in Seq(BOOLEAN)
  BY CoreBase
<1>a. Len(fs.orphan) = ip.n
  BY CoreAligned DEF Aligned
<1>1. UNCHANGED ip
  BY DEF do_execute, Handler
<1>2. UNCHANGED <<ifq, fs>> \/ (ifq' = <<>> /\ fs' = FlushedFetch)
  BY DEF do_execute
<1>3. CASE UNCHANGED <<ifq, fs>>
  BY <1>1, <1>3, AlignedFrame
<1>4. CASE ifq' = <<>> /\ fs' = FlushedFetch
  <2> DEFINE o == fs.orphan
             oo == [i \in DOMAIN o |-> TRUE]
  <2>1. fs'.orphan = oo
    BY <1>b, <1>4 DEF FlushedFetch, FetchStates
  <2>2. DOMAIN oo = DOMAIN o /\ DOMAIN o = 1..Len(o) /\ Len(o) \in Nat
    BY <1>b, SeqFacts
  <2>3. Len(oo) = Len(o)
    BY <2>2
  <2>4. Owned(oo) = {}
    BY <2>2, Zenon DEF Owned
  <2>5. Waiting(<<>>) = {}
    BY DEF Waiting
  <2> HIDE DEF oo
  <2> QED BY <1>a, <1>1, <1>4, <2>1, <2>3, <2>4, <2>5, Zenon DEF Aligned
<1> QED BY <1>2, <1>3, <1>4

\* do_fetch_1 pops only an entry that does not wait.
LEMMA AlignedFetch1 == ASSUME Core, do_fetch_1 PROVE Aligned'
<1>b. ifq \in Seq(TransType)
  BY CoreBase
<1>a. Len(fs.orphan) = ip.n /\ Cardinality(Owned(fs.orphan)) = Cardinality(Waiting(ifq))
  BY CoreAligned DEF Aligned
<1>1. UNCHANGED <<ip, fs>>
  BY DEF do_fetch_1, Handler
<1>2. \/ UNCHANGED ifq
      \/ ifq # <<>> /\ ifq' = [ifq EXCEPT ![1].hold = @ - 1]
      \/ ifq # <<>> /\ ~Head(ifq).wait /\ ifq' = Tail(ifq)
  BY Zenon DEF do_fetch_1
<1>3. CASE UNCHANGED ifq
  BY <1>1, <1>3, AlignedFrame
<1>4. CASE ifq # <<>> /\ ifq' = [ifq EXCEPT ![1].hold = @ - 1]
  <2>1. 1 \in DOMAIN ifq /\ ifq[1] \in TransType
    BY <1>b, <1>4, SeqFacts
  <2> DEFINE x == [ifq[1] EXCEPT !.hold = ifq[1].hold - 1]
  <2>2. x.wait = ifq[1].wait
    BY <2>1 DEF TransType
  <2>3. ifq' = [ifq EXCEPT ![1] = x]
    BY <1>4
  <2> HIDE DEF x
  <2>4. DOMAIN ifq' = DOMAIN ifq /\ ifq'[1] = x
        /\ \A j \in DOMAIN ifq : j # 1 => ifq'[j] = ifq[j]
    BY <2>1, <2>3
  <2>5. \A j \in DOMAIN ifq : ifq'[j].wait = ifq[j].wait
    BY <2>2, <2>4, Zenon
  <2>6. Waiting(ifq') = Waiting(ifq)
    BY <2>4, <2>5, Zenon DEF Waiting
  <2> QED BY <1>a, <1>1, <2>6 DEF Aligned
<1>5. CASE ifq # <<>> /\ ~Head(ifq).wait /\ ifq' = Tail(ifq)
  <2>1. Cardinality(Waiting(ifq')) = Cardinality(Waiting(ifq))
    BY <1>b, <1>5, WaitingFacts, Zenon
  <2> QED BY <1>a, <1>1, <2>1, Zenon DEF Aligned
<1> QED BY <1>2, <1>3, <1>4, <1>5

\* A fetch pushes one entry, an orphan exactly if it queues nothing.
LEMMA AlignedFetch0 == ASSUME Core, do_fetch_0 PROVE Aligned'
<1>b. ifq \in Seq(TransType) /\ fs \in FetchStates /\ fs.orphan \in Seq(BOOLEAN)
  BY CoreBase
<1>a. Len(fs.orphan) = ip.n /\ Cardinality(Owned(fs.orphan)) = Cardinality(Waiting(ifq))
  BY CoreAligned DEF Aligned
<1>o. ASSUME NEW v \in BOOLEAN PROVE Len(Append(fs.orphan, v)) = ip.n + 1
  <2>1. Len(Append(fs.orphan, v)) = Len(fs.orphan) + 1
    BY <1>b, SeqFacts
  <2> QED BY <1>a, <2>1, Zenon
<1>w. ASSUME NEW t \in TransType, t.wait = TRUE, ifq' = Append(ifq, t),
             fs'.orphan = Append(fs.orphan, FALSE), ip'.n = ip.n + 1
      PROVE  Aligned'
  <2>1. Cardinality(Waiting(ifq')) = Cardinality(Waiting(ifq)) + 1
    BY <1>b, <1>w, WaitingFacts, Zenon
  <2>2. Cardinality(Owned(fs'.orphan)) = Cardinality(Owned(fs.orphan)) + 1
    BY <1>b, <1>w, OwnedFacts, Zenon
  <2>3. Len(fs'.orphan) = ip.n + 1
    BY <1>w, <1>o, Zenon
  <2> QED BY <1>a, <1>w, <2>1, <2>2, <2>3, Zenon DEF Aligned
<1>1. CASE FetchEarlyRedirect
  <2>1. ip'.n = ip.n + 1 /\ ifq' = ifq
    BY <1>1, ReadReqFacts DEF FetchEarlyRedirect, MayFetch
  <2>2. fs'.orphan = Append(fs.orphan, TRUE)
    BY <1>b, <1>1 DEF FetchEarlyRedirect, FetchStates
  <2>3. Cardinality(Owned(fs'.orphan)) = Cardinality(Owned(fs.orphan))
    BY <1>b, <2>2, OwnedFacts, Zenon
  <2>4. Len(fs'.orphan) = ip.n + 1
    BY <2>2, <1>o, Zenon
  <2> QED BY <1>a, <2>1, <2>3, <2>4, Zenon DEF Aligned
<1>2. CASE FetchWrongPath
  <2> DEFINE t == Trans(0, NoInst, TRUE)
  <2>1. t \in TransType
    BY SizeFacts DEF Trans, NoInst, TransType, Ids, Kinds
  <2>2. t.wait = TRUE
    BY DEF Trans
  <2>3. ip'.n = ip.n + 1 /\ ifq' = Append(ifq, t)
    BY <1>2, ReadReqFacts, Zenon DEF FetchWrongPath, MayFetch
  <2>4. fs'.orphan = Append(fs.orphan, FALSE)
    BY <1>b, <1>2 DEF FetchWrongPath, FetchStates
  <2> HIDE DEF t
  <2> QED BY <1>w, <2>1, <2>2, <2>3, <2>4
<1>3. CASE FetchReal
  <2>1. PICK t \in TransType : ifq' = Append(ifq, t) /\ t.wait = TRUE
    BY <1>3, RealFacts, Zenon
  <2>2. PICK g, x, r, e : fs' = [wrong_path |-> ~g, wp_flushed |-> x, resume |-> r,
                     early |-> e, orphan |-> Append(fs.orphan, FALSE)]
    BY <1>3, RealFacts, Zenon
  <2>3. fs'.orphan = Append(fs.orphan, FALSE)
    BY <2>2
  <2>4. ip'.n = ip.n + 1
    BY <1>3, ReadReqFacts, Zenon DEF FetchReal, MayFetch
  <2> QED BY <1>w, <2>1, <2>3, <2>4
<1>4. CASE FetchNothing
  <2>1. UNCHANGED <<ifq, ip>>
    BY <1>4 DEF FetchNothing
  <2>2. fs' = fs \/ fs' = Resumed
    BY <1>4 DEF FetchNothing
  <2>3. Resumed.orphan = fs.orphan
    BY <1>b DEF Resumed, FetchStates
  <2> QED BY <2>1, <2>2, <2>3, AlignedFrame
<1> QED BY <1>1, <1>2, <1>3, <1>4 DEF do_fetch_0

\* The other steps.
LEMMA AlignedQuiet ==
    ASSUME Core,
           \/ Dport \/ Begin \/ do_writeback \/ do_memory \/ do_div_ext \/ do_mul_ext
           \/ do_decode \/ (\E s \in Stages : Skip(s)) \/ calc_sched \/ feed_inst
           \/ set_draining \/ NoFeed \/ Tick \/ Finished \/ UNCHANGED vars
    PROVE  Aligned'
<1>1. CASE Tick
  <2>1. UNCHANGED <<ifq, ip>> /\ fs' = [fs EXCEPT !.resume = Elapse(@)]
    BY <1>1 DEF Tick
  <2>2. fs'.orphan = fs.orphan
    BY <2>1, CoreBase DEF FetchStates
  <2> QED BY <2>1, <2>2, AlignedFrame
<1>2. CASE ~Tick
  <2>1. UNCHANGED <<ifq, ip, fs>>
    BY <1>2 DEF Dport, DportResp, DportQuiet, DportAck, DportBusy, Begin, do_writeback,
        do_memory, do_div_ext, do_mul_ext, DoMext, Handler, do_decode, Skip, calc_sched,
        feed_inst, set_draining, NoFeed, Finished, vars, core
  <2> QED BY <2>1, AlignedFrame
<1> QED BY <1>1, <1>2

----------------------------------------------------------------------------
(* The core of the invariant. *)

\* The initial state satisfies the first layer.
LEMMA InitCore == Init => Core
<1> SUFFICES ASSUME Init PROVE Core
  OBVIOUS
<1>1. Asserts
  BY DEF Init, Asserts, Waits, RealSlots, LsuRespSafe, DecodePending, Slots
<1>2. FetchFifoAligned
  <2>1. Owned(<<>>) = {} /\ Waiting(<<>>) = {}
    BY DEF Owned, Waiting
  <2>2. Aligned
    BY <2>1 DEF Init, Aligned
  <2>3. Len(ifq) <= IfqSize
    BY InitBase DEF BaseOK
  <2> QED BY <2>2, <2>3, AlignedMeaning
<1> QED BY <1>1, <1>2, InitBase DEF Core

\* Every step keeps it.
LEMMA CoreStep == ASSUME Core, [Next]_vars PROVE Core'
<1>1. BaseOK'
  BY BaseStep
<1>2. Asserts'
  <2>1. CASE do_mul_ext
    BY <2>1, AssertsMext, TimesFacts DEF do_mul_ext
  <2>2. CASE do_div_ext
    BY <2>2, AssertsMext, TimesFacts DEF do_div_ext
  <2> QED BY <2>1, <2>2, AssertsDport, AssertsIport, AssertsWriteback, AssertsMemory,
             AssertsExecute, AssertsDecode, AssertsFetch1, AssertsTick, AssertsQuiet
          DEF Next, Handlers
<1>3. Aligned'
  BY AlignedIport, AlignedExecute, AlignedFetch1, AlignedFetch0, AlignedQuiet
  DEF Next, Handlers
<1>4. FetchFifoAligned'
  BY <1>1, <1>3, AlignedMeaning DEF BaseOK
<1> QED BY <1>1, <1>2, <1>4 DEF Core

\* The first layer is inductive by itself: types, what the slots may hold,
\* the data request and its sender, the deadline of Decode, and the alignment
\* of resp_is_orphan with the fetches in flight.
THEOREM CoreInvariance == Spec => []Core
BY InitCore, CoreStep, PTL DEF Spec

----------------------------------------------------------------------------
(* The front end as one sequence: what each operation does to it. *)

\* A sequence with an element in front.
LEMMA Cons ==
    ASSUME NEW T, NEW t \in T, NEW q \in Seq(T)
    PROVE  /\ <<t>> \o q \in Seq(T) /\ <<t>> \o q # <<>>
           /\ Head(<<t>> \o q) = t /\ Tail(<<t>> \o q) = q
           /\ \A x \in T : <<t>> \o Append(q, x) = Append(<<t>> \o q, x)
<1>1. <<t>> \in Seq(T) /\ Len(<<t>>) = 1 /\ <<t>>[1] = t
  OBVIOUS
<1>2. <<t>> \o q \in Seq(T) /\ Len(<<t>> \o q) = Len(q) + 1
  BY <1>1
<1>3. (<<t>> \o q)[1] = t /\ \A i \in 1..Len(q) : (<<t>> \o q)[i + 1] = q[i]
  BY <1>1, <1>2
<1>4. \A x \in T : <<t>> \o Append(q, x) = Append(<<t>> \o q, x)
  OBVIOUS
<1> QED BY <1>2, <1>3, <1>4

\* A non-empty sequence is its head and its tail.
LEMMA Uncons ==
    ASSUME NEW T, NEW q \in Seq(T), q # <<>>
    PROVE  <<Head(q)>> \o Tail(q) = q
OBVIOUS

\* Concatenation is associative and has the empty sequence as its unit.
LEMMA ConcatFacts ==
    ASSUME NEW T, NEW p \in Seq(T), NEW q \in Seq(T), NEW r \in Seq(T)
    PROVE  (p \o q) \o r = p \o (q \o r) /\ <<>> \o q = q /\ p \o q \in Seq(T)
OBVIOUS

FE(d, f, q) == Held(d) \o Held(f) \o q

\* The front end, as the specification writes it.
LEMMA FrontEndIs ==
    /\ FrontEnd = FE(slot["Decode"], slot["Fetch"], ifq)
    /\ FrontEnd' = FE(slot'["Decode"], slot'["Fetch"], ifq')
BY DEF FrontEnd, FE, Held

\* The front end, by what Decode and Fetch hold.
LEMMA FEFacts ==
    ASSUME NEW d \in TransType \cup {None}, NEW f \in TransType \cup {None},
           NEW q \in Seq(TransType)
    PROVE  /\ FE(d, f, q) \in Seq(TransType)
           /\ FE(None, None, q) = q
           /\ f # None => FE(None, f, q) = <<f>> \o q
           /\ d # None => FE(d, f, q) = <<d>> \o FE(None, f, q)
           /\ FE(None, f, q) \in Seq(TransType)
<1> DEFINE S == Seq(TransType)
<1>1. <<>> \in S /\ \A t \in TransType : <<t>> \in S
  OBVIOUS
<1>2. Held(d) \in S /\ Held(f) \in S /\ Held(None) = <<>>
      /\ (d # None => Held(d) = <<d>>) /\ (f # None => Held(f) = <<f>>)
  BY <1>1 DEF Held
<1>3. /\ FE(d, f, q) = Held(d) \o (Held(f) \o q)
      /\ FE(None, f, q) = Held(f) \o q
      /\ FE(None, None, q) = q
      /\ Held(f) \o q \in S /\ Held(d) \o (Held(f) \o q) \in S
  BY <1>1, <1>2, ConcatFacts DEF FE
<1> HIDE DEF S
<1> QED BY <1>2, <1>3 DEF S

\* do_fetch_1 and do_decode move an instruction without changing the sequence;
\* issuing from Decode takes its head; a fetch appends to it.
LEMMA FEMoves ==
    ASSUME NEW d \in TransType \cup {None}, NEW f \in TransType \cup {None},
           NEW q \in Seq(TransType)
    PROVE  /\ q # <<>> => FE(d, Head(q), Tail(q)) = FE(d, None, q)
           /\ FE(f, None, q) = FE(None, f, q)
           /\ d # None => /\ FE(d, f, q) # <<>> /\ Head(FE(d, f, q)) = d
                          /\ Tail(FE(d, f, q)) = FE(None, f, q)
           /\ \A x \in TransType : FE(d, f, Append(q, x)) = Append(FE(d, f, q), x)
<1>n. None \in TransType \cup {None}
  OBVIOUS
<1>1. ASSUME q # <<>> PROVE FE(d, Head(q), Tail(q)) = FE(d, None, q)
  <2>1. Head(q) \in TransType /\ Tail(q) \in Seq(TransType) /\ Head(q) # None
    BY <1>1, NoneFacts, SeqFacts
  <2>2. FE(None, Head(q), Tail(q)) = q
    <3>1. FE(None, Head(q), Tail(q)) = <<Head(q)>> \o Tail(q)
      BY <2>1, <1>n, FEFacts
    <3> QED BY <1>1, <3>1, Uncons
  <2>3. FE(None, None, q) = q
    BY <1>n, FEFacts
  <2>4. CASE d = None
    BY <2>2, <2>3, <2>4
  <2>5. CASE d # None
    <3>1. FE(d, Head(q), Tail(q)) = <<d>> \o FE(None, Head(q), Tail(q))
      <4>1. Head(q) \in TransType \cup {None}
        BY <2>1
      <4> QED BY <2>1, <2>5, <4>1, FEFacts, Zenon
    <3>2. FE(d, None, q) = <<d>> \o FE(None, None, q)
      BY <1>n, <2>5, FEFacts
    <3> QED BY <2>2, <2>3, <3>1, <3>2
  <2> QED BY <2>4, <2>5
<1>2. FE(f, None, q) = FE(None, f, q)
  <2>1. FE(None, None, q) = q
    BY <1>n, FEFacts
  <2>2. CASE f = None
    BY <2>2
  <2>3. CASE f # None
    <3>1. FE(f, None, q) = <<f>> \o q
      <4>1. FE(f, None, q) = <<f>> \o FE(None, None, q)
        BY <1>n, <2>3, FEFacts, Zenon
      <4> QED BY <2>1, <4>1
    <3>2. FE(None, f, q) = <<f>> \o q
      BY <1>n, <2>3, FEFacts
    <3> QED BY <3>1, <3>2
  <2> QED BY <2>2, <2>3
<1>3. ASSUME d # None
      PROVE  /\ FE(d, f, q) # <<>> /\ Head(FE(d, f, q)) = d
             /\ Tail(FE(d, f, q)) = FE(None, f, q)
  <2>1. d \in TransType /\ FE(d, f, q) = <<d>> \o FE(None, f, q)
        /\ FE(None, f, q) \in Seq(TransType)
    BY <1>3, FEFacts
  <2> QED BY <2>1, Cons
<1>4. ASSUME NEW x \in TransType PROVE FE(d, f, Append(q, x)) = Append(FE(d, f, q), x)
  <2> DEFINE qx == Append(q, x)
  <2>1. qx \in Seq(TransType)
    OBVIOUS
  <2>2. FE(None, f, qx) = Append(FE(None, f, q), x)
    <3>1. CASE f = None
      <4>1. FE(None, None, qx) = qx
        BY <1>n, <2>1, FEFacts
      <4>2. FE(None, None, q) = q
        BY <1>n, FEFacts
      <4> QED BY <3>1, <4>1, <4>2
    <3>2. CASE f # None
      <4>1. FE(None, f, qx) = <<f>> \o qx
        BY <1>n, <2>1, <3>2, FEFacts
      <4>2. FE(None, f, q) = <<f>> \o q /\ f \in TransType
        BY <1>n, <3>2, FEFacts
      <4> QED BY <4>1, <4>2, Cons
    <3> QED BY <3>1, <3>2
  <2>3. CASE d = None
    BY <2>2, <2>3
  <2>4. CASE d # None
    <3>1. FE(d, f, qx) = <<d>> \o FE(None, f, qx)
      BY <2>1, <2>4, FEFacts
    <3>2. FE(d, f, q) = <<d>> \o FE(None, f, q) /\ d \in TransType
          /\ FE(None, f, q) \in Seq(TransType)
      BY <2>4, FEFacts
    <3>3. <<d>> \o Append(FE(None, f, q), x) = Append(<<d>> \o FE(None, f, q), x)
      BY <3>2, Cons
    <3>4. FE(d, f, qx) = Append(FE(d, f, q), x)
      <4> HIDE DEF qx
      <4> QED BY ONLY <2>2, <3>1, <3>2, <3>3, Zenon
    <3> QED BY <3>4
  <2> QED BY <2>3, <2>4
<1> QED BY <1>1, <1>2, <1>3, <1>4

----------------------------------------------------------------------------
(* The shape of the wrong path, for a sequence in place of the front end. *)

Mis(F)    == {i \in DOMAIN F : F[i].mis}
Placed(F) == {i \in DOMAIN F : F[i].wp}

\* At most one mispredicted branch, w while there is one, and exactly what is
\* younger than it is a placeholder.
Shape(F, w) ==
    /\ w <=> Mis(F) # {}
    /\ Placed(F) = {i \in DOMAIN F : \E j \in Mis(F) : j < i}
    /\ \A i, j \in Mis(F) : i = j
    /\ \A i \in DOMAIN F : F[i].mis => F[i].kind = "BR"

\* The oldest instruction is none of the wrong path.
LEMMA ShapeHead ==
    ASSUME NEW F \in Seq(TransType), NEW w, Shape(F, w), F # <<>>
    PROVE  ~Head(F).wp /\ (Head(F).mis => Head(F).kind = "BR" /\ w)
<1>1. 1 \in DOMAIN F /\ Head(F) = F[1] /\ DOMAIN F \subseteq Nat /\ DOMAIN F = 1..Len(F)
  BY SeqFacts
<1>2. Mis(F) \subseteq DOMAIN F
  BY Zenon DEF Mis
<1>3. \A j \in DOMAIN F : ~(j < 1)
  BY <1>1
<1>4. 1 \notin Placed(F)
  BY <1>2, <1>3, Zenon DEF Shape
<1>5. ~F[1].wp
  BY <1>1, <1>4, Zenon DEF Placed
<1>6. F[1].mis => F[1].kind = "BR" /\ w
  BY <1>1, Zenon DEF Shape, Mis
<1> QED BY <1>1, <1>5, <1>6, Zenon

\* The oldest instruction leaves, and it was predicted well.
LEMMA ShapeTail ==
    ASSUME NEW F \in Seq(TransType), NEW w, Shape(F, w), F # <<>>, ~Head(F).mis
    PROVE  Shape(Tail(F), w)
<1> DEFINE n == Len(F)
           G == Tail(F)
<1>1. n \in Nat /\ n > 0 /\ DOMAIN F = 1..n /\ DOMAIN G = 1..(n - 1)
  <2>1. G \in Seq(TransType) /\ Len(G) = n - 1 /\ n \in Nat /\ n > 0 /\ DOMAIN F = 1..n
    BY ONLY F \in Seq(TransType), F # <<>>, SeqFacts
  <2>2. DOMAIN G = 1..Len(G)
    BY ONLY <2>1, SeqFacts
  <2> QED BY <2>1, <2>2, Zenon
<1>2. Head(F) = F[1] /\ \A i \in 1..(n - 1) : G[i] = F[i + 1]
  BY ONLY F \in Seq(TransType), F # <<>>, SeqFacts
<1>3. \A i \in 1..(n - 1) : i + 1 \in 1..n
  BY ONLY <1>1
<1> HIDE DEF n, G
<1>4. Mis(G) = {i \in 1..(n - 1) : i + 1 \in Mis(F)}
  BY <1>1, <1>2, <1>3, Zenon DEF Mis
<1>5. Placed(G) = {i \in 1..(n - 1) : i + 1 \in Placed(F)}
  BY <1>1, <1>2, <1>3, Zenon DEF Placed
<1>6. 1 \notin Mis(F) /\ Mis(F) \subseteq 1..n
  BY <1>1, <1>2, Zenon DEF Mis
<1>7. /\ Placed(F) = {i \in 1..n : \E j \in Mis(F) : j < i}
      /\ \A i, j \in Mis(F) : i = j
  BY <1>1, Zenon DEF Shape
<1>8. /\ Mis(G) # {} <=> Mis(F) # {}
      /\ Placed(G) = {i \in 1..(n - 1) : \E j \in Mis(G) : j < i}
      /\ \A i, j \in Mis(G) : i = j
  <2>1. ASSUME NEW j \in Mis(F) PROVE j - 1 \in Mis(G)
    BY ONLY <1>1, <1>4, <1>6, <2>1
  <2>2. ASSUME NEW j \in Mis(G) PROVE j + 1 \in Mis(F) /\ j \in 1..(n - 1)
    BY ONLY <1>4, <2>2
  <2>3. ASSUME NEW i \in 1..(n - 1)
        PROVE  i \in Placed(G) <=> \E j \in Mis(G) : j < i
    <3>1. i \in Placed(G) <=> \E j \in Mis(F) : j < i + 1
      BY ONLY <1>1, <1>3, <1>5, <1>7, <2>3
    <3>2. ASSUME NEW j \in Mis(F), j < i + 1 PROVE \E k \in Mis(G) : k < i
      <4>1. j - 1 < i
        BY ONLY <1>1, <1>6, <2>3, <3>2
      <4> QED BY <2>1, <4>1
    <3>3. ASSUME NEW k \in Mis(G), k < i PROVE \E j \in Mis(F) : j < i + 1
      <4>1. k + 1 < i + 1 /\ k + 1 \in Mis(F)
        BY ONLY <1>1, <2>2, <2>3, <3>3
      <4> QED BY <4>1
    <3> QED BY <3>1, <3>2, <3>3
  <2>4. Placed(G) = {i \in 1..(n - 1) : \E j \in Mis(G) : j < i}
    BY <1>5, <2>3, Zenon
  <2>5. Mis(G) # {} <=> Mis(F) # {}
    BY <2>1, <2>2, Zenon
  <2>6. ASSUME NEW i \in Mis(G), NEW j \in Mis(G) PROVE i = j
    <3>1. i + 1 = j + 1 /\ i \in Int /\ j \in Int
      BY ONLY <1>1, <1>7, <2>2, <2>6
    <3> QED BY ONLY <3>1
  <2> QED BY <2>4, <2>5, <2>6
<1>9. \A i \in DOMAIN G : G[i].mis => G[i].kind = "BR"
  BY <1>1, <1>2, <1>3, Zenon DEF Shape
<1>10. w <=> Mis(G) # {}
  BY <1>8, Zenon DEF Shape
<1>11. Shape(G, w)
  BY <1>1, <1>8, <1>9, <1>10, Zenon DEF Shape
<1> QED BY <1>11 DEF G

\* A placeholder is fetched on the wrong path, a trace instruction off it.
LEMMA ShapeAppend ==
    ASSUME NEW F \in Seq(TransType), NEW w \in BOOLEAN, Shape(F, w),
           NEW x \in TransType, x.wp <=> w, x.mis => x.kind = "BR",
           w => ~x.mis, NEW v \in BOOLEAN, v <=> (w \/ x.mis)
    PROVE  Shape(Append(F, x), v)
<1> DEFINE n == Len(F)
           G == Append(F, x)
<1>1. /\ n \in Nat /\ DOMAIN F = 1..n /\ DOMAIN G = 1..(n + 1)
      /\ G[n + 1] = x /\ \A i \in 1..n : G[i] = F[i]
  <2>1. /\ G \in Seq(TransType) /\ Len(G) = n + 1 /\ n \in Nat /\ DOMAIN F = 1..n
        /\ G[n + 1] = x /\ \A i \in 1..n : G[i] = F[i]
    BY ONLY F \in Seq(TransType), x \in TransType, SeqFacts
  <2>2. DOMAIN G = 1..Len(G)
    BY ONLY <2>1, SeqFacts
  <2> QED BY <2>1, <2>2, Zenon
<1>2. 1..(n + 1) = (1..n) \cup {n + 1} /\ n + 1 \notin 1..n
  BY ONLY <1>1
<1>3. \A i \in 1..n : i < n + 1 /\ ~(n + 1 < i)
  BY ONLY <1>1
<1>4. ~(n + 1 < n + 1)
  BY ONLY <1>1
<1> HIDE DEF n, G
<1>5. /\ Mis(F) \subseteq 1..n
      /\ Placed(F) = {i \in 1..n : \E j \in Mis(F) : j < i}
      /\ \A i, j \in Mis(F) : i = j
      /\ w <=> Mis(F) # {}
  BY <1>1, Zenon DEF Shape, Mis
<1>6. Mis(G) = Mis(F) \cup (IF x.mis THEN {n + 1} ELSE {})
  BY <1>1, <1>2, Zenon DEF Mis
<1>7. Placed(G) = Placed(F) \cup (IF x.wp THEN {n + 1} ELSE {})
  BY <1>1, <1>2, Zenon DEF Placed
<1>8. \A i \in DOMAIN G : G[i].mis => G[i].kind = "BR"
  BY <1>1, <1>2, Zenon DEF Shape
<1>9. v <=> Mis(G) # {}
  BY <1>5, <1>6, Zenon
<1>10. \A i, j \in Mis(G) : i = j
  BY <1>5, <1>6, Zenon
<1>11. Placed(G) = {i \in 1..(n + 1) : \E j \in Mis(G) : j < i}
  <2>1. CASE w
    <3>1. Mis(G) = Mis(F) /\ Placed(G) = Placed(F) \cup {n + 1} /\ Mis(F) # {}
      BY <1>5, <1>6, <1>7, <2>1, Zenon
    <3>2. \E j \in Mis(G) : j < n + 1
      BY <1>3, <1>5, <3>1, Zenon
    <3>3. ASSUME NEW i \in 1..n PROVE i \in Placed(G) <=> \E j \in Mis(G) : j < i
      BY <1>2, <1>5, <3>1, <3>3, Zenon
    <3>4. n + 1 \in Placed(G) /\ Placed(G) \subseteq (1..n) \cup {n + 1}
      BY <1>5, <3>1, Zenon
    <3> QED BY <1>2, <3>2, <3>3, <3>4, Zenon
  <2>2. CASE ~w
    <3>1. Mis(F) = {} /\ Placed(G) = Placed(F) /\ Mis(G) \subseteq {n + 1}
      BY <1>5, <1>6, <1>7, <2>2, Zenon
    <3>2. Placed(G) = {}
      BY <1>5, <3>1, Zenon
    <3>3. ASSUME NEW i \in 1..(n + 1), NEW j \in Mis(G) PROVE ~(j < i)
      BY <1>2, <1>3, <1>4, <3>1, <3>3, Zenon
    <3> QED BY <3>2, <3>3, Zenon
  <2> QED BY <2>1, <2>2
<1>12. Shape(G, v)
  BY <1>1, <1>8, <1>9, <1>10, <1>11, Zenon DEF Shape
<1> QED BY <1>12 DEF G

\* Sequences that differ at most in what waits and for how long.
Like(F, G) ==
    /\ DOMAIN F = DOMAIN G /\ Len(F) = Len(G)
    /\ \A i \in DOMAIN F : /\ F[i].wp = G[i].wp /\ F[i].mis = G[i].mis
                           /\ F[i].kind = G[i].kind /\ F[i].id = G[i].id

\* The shape does not depend on wait and hold.
LEMMA ShapeLike ==
    ASSUME NEW F, NEW G, NEW w, Like(F, G), Shape(F, w)
    PROVE  Shape(G, w)
<1>1. Mis(F) = Mis(G)
  BY Zenon DEF Like, Mis
<1>2. Placed(F) = Placed(G)
  BY Zenon DEF Like, Placed
<1>3. \A i \in DOMAIN G : G[i].mis => G[i].kind = "BR"
  BY Zenon DEF Like, Shape
<1>4. DOMAIN F = DOMAIN G
  BY DEF Like
<1> QED BY <1>1, <1>2, <1>3, <1>4, Zenon DEF Shape

\* Alike queues stay alike with an instruction in front,
LEMMA LikeCons ==
    ASSUME NEW q \in Seq(TransType), NEW r \in Seq(TransType), Like(q, r),
           NEW t \in TransType
    PROVE  Like(<<t>> \o q, <<t>> \o r)
<1> DEFINE n == Len(q)
<1>1. n \in Nat /\ DOMAIN q = 1..n /\ Len(r) = n /\ DOMAIN r = 1..n
  BY SeqFacts DEF Like
<1>2. /\ DOMAIN (<<t>> \o q) = 1..(n + 1) /\ DOMAIN (<<t>> \o r) = 1..(n + 1)
      /\ (<<t>> \o q)[1] = t /\ (<<t>> \o r)[1] = t
      /\ \A i \in 1..n : (<<t>> \o q)[i + 1] = q[i] /\ (<<t>> \o r)[i + 1] = r[i]
      /\ Len(<<t>> \o q) = Len(<<t>> \o r)
  BY <1>1
<1>3. \A i \in 1..(n + 1) : i = 1 \/ \E j \in 1..n : i = j + 1
  <2>1. ASSUME NEW i \in 1..(n + 1), i # 1 PROVE i - 1 \in 1..n /\ i = (i - 1) + 1
    BY <1>1, <2>1
  <2> QED BY <2>1
<1> DEFINE F == <<t>> \o q
           G == <<t>> \o r
<1>4. ASSUME NEW i \in 1..(n + 1)
      PROVE  /\ F[i].wp = G[i].wp /\ F[i].mis = G[i].mis
             /\ F[i].kind = G[i].kind /\ F[i].id = G[i].id
  <2>1. CASE i = 1
    <3>1. F[i] = G[i]
      BY <1>2, <2>1
    <3> HIDE DEF F, G
    <3> QED BY ONLY <3>1, Zenon
  <2>2. CASE i # 1
    <3>1. PICK j \in 1..n : i = j + 1
      BY <1>3, <2>2
    <3>2. F[i] = q[j] /\ G[i] = r[j]
      BY <1>2, <3>1
    <3>3. /\ q[j].wp = r[j].wp /\ q[j].mis = r[j].mis
          /\ q[j].kind = r[j].kind /\ q[j].id = r[j].id
      BY <1>1, <3>1, Zenon DEF Like
    <3> HIDE DEF F, G
    <3> QED BY ONLY <3>2, <3>3, Zenon
  <2> QED BY <2>1, <2>2
<1>5. DOMAIN F = 1..(n + 1) /\ DOMAIN G = 1..(n + 1) /\ Len(F) = Len(G)
  BY <1>2
<1>6. Like(F, G)
  <2> HIDE DEF F, G
  <2> QED BY <1>4, <1>5, Zenon DEF Like
<1> QED BY <1>6

\* and so do front ends.
LEMMA LikeFE ==
    ASSUME NEW q \in Seq(TransType), NEW r \in Seq(TransType), Like(q, r),
           NEW d \in TransType \cup {None}, NEW f \in TransType \cup {None}
    PROVE  Like(FE(d, f, q), FE(d, f, r))
<1>1. Like(FE(None, f, q), FE(None, f, r))
  <2>1. CASE f = None
    <3>1. FE(None, f, q) = q /\ FE(None, f, r) = r
      BY <2>1, FEFacts
    <3> QED BY <3>1
  <2>2. CASE f # None
    <3>1. FE(None, f, q) = <<f>> \o q /\ FE(None, f, r) = <<f>> \o r /\ f \in TransType
      BY <2>2, FEFacts
    <3> QED BY <3>1, LikeCons
  <2> QED BY <2>1, <2>2
<1>2. CASE d = None
  BY <1>1, <1>2
<1>3. CASE d # None
  <2>1. /\ FE(d, f, q) = <<d>> \o FE(None, f, q) /\ FE(d, f, r) = <<d>> \o FE(None, f, r)
        /\ FE(None, f, q) \in Seq(TransType) /\ FE(None, f, r) \in Seq(TransType)
        /\ d \in TransType
    BY <1>3, FEFacts
  <2> QED BY <1>1, <2>1, LikeCons
<1> QED BY <1>2, <1>3

\* One entry of the queue with another wait or hold.
LEMMA LikeUpdate ==
    ASSUME NEW q \in Seq(TransType), NEW i \in DOMAIN q, NEW x \in TransType,
           x.wp = q[i].wp, x.mis = q[i].mis, x.kind = q[i].kind, x.id = q[i].id
    PROVE  Like(q, [q EXCEPT ![i] = x])
<1>1. /\ DOMAIN [q EXCEPT ![i] = x] = DOMAIN q
      /\ [q EXCEPT ![i] = x][i] = x
      /\ \A j \in DOMAIN q : j # i => [q EXCEPT ![i] = x][j] = q[j]
  OBVIOUS
<1>2. Len([q EXCEPT ![i] = x]) = Len(q)
  BY ONLY q \in Seq(TransType), x \in TransType, SeqUpdate
<1> QED BY <1>1, <1>2, Zenon DEF Like

----------------------------------------------------------------------------
(* The wrong path. *)

PathInv ==
    /\ Shape(FrontEnd, WrongPath)
    /\ ~fs.wrong_path => ~fs.wp_flushed
    /\ input # None => ~input.wp /\ ~input.mis

\* The types of the front end.
LEMMA FrontTypes ==
    ASSUME Core
    PROVE  /\ slot["Decode"] \in TransType \cup {None}
           /\ slot["Fetch"] \in TransType \cup {None}
           /\ ifq \in Seq(TransType) /\ FrontEnd \in Seq(TransType)
<1>1. /\ slot["Decode"] \in TransType \cup {None}
      /\ slot["Fetch"] \in TransType \cup {None} /\ ifq \in Seq(TransType)
  BY CoreBase DEF Slots
<1> QED BY <1>1, FEFacts, FrontEndIs

\* A step that leaves the front end and the wrong-path flags alone.
LEMMA PathFrame ==
    ASSUME PathInv, FrontEnd' = FrontEnd, fs'.wrong_path = fs.wrong_path,
           fs'.wp_flushed = fs.wp_flushed, input' = input
    PROVE  PathInv'
<1>1. WrongPath' <=> WrongPath
  BY Zenon DEF WrongPath
<1>2. Shape(FrontEnd', WrongPath')
  BY <1>1, Zenon DEF PathInv, Shape
<1> QED BY <1>2, Zenon DEF PathInv

\* The steps that leave Fetch and Decode, the queue and the fetch state alone.
LEMMA PathQuiet ==
    ASSUME Core, PathInv,
           \/ Dport \/ Begin \/ do_writeback \/ do_memory \/ calc_sched
           \/ (\E s \in Stages : Skip(s)) \/ set_draining \/ NoFeed
           \/ Finished \/ UNCHANGED vars
    PROVE  PathInv'
<1>1. UNCHANGED <<ifq, fs, input>>
  BY DEF Dport, DportResp, DportQuiet, DportAck, DportBusy, Begin, do_writeback,
        do_memory, Handler, Skip, calc_sched, set_draining, NoFeed, Finished, vars, core
<1>2. slot'["Decode"] = slot["Decode"] /\ slot'["Fetch"] = slot["Fetch"]
  <2>0. slot \in [Slots -> TransType \cup {None}]
    BY CoreBase
  <2>1. CASE DportResp
    BY <2>0, <2>1 DEF DportResp, Slots
  <2>2. CASE do_writeback
    <3>1. UNCHANGED slot \/ (slot' = [slot EXCEPT ![WbSource] = None]
                             /\ WbSource \in {"Memory", "Div", "Mul"})
      BY <2>2, WbSourceFacts DEF do_writeback
    <3> QED BY <2>0, <3>1 DEF Slots
  <2>3. CASE do_memory
    <3>1. \/ UNCHANGED slot
          \/ slot' = [slot EXCEPT !["Execute"].wait = TRUE]
          \/ slot' = [slot EXCEPT !["Memory"] = slot["Execute"], !["Execute"] = None]
      BY <2>3 DEF do_memory, send_lsu_req
    <3> QED BY <2>0, <3>1 DEF Slots
  <2>4. CASE ~DportResp /\ ~do_writeback /\ ~do_memory
    BY <2>4 DEF Dport, DportQuiet, DportAck, DportBusy, Begin,
        Skip, calc_sched, set_draining, NoFeed, Finished, vars, core
  <2> QED BY <2>1, <2>2, <2>3, <2>4
<1>3. FrontEnd' = FrontEnd
  BY <1>1, <1>2 DEF FrontEnd, Held
<1> QED BY <1>1, <1>3, PathFrame

\* The main loop feeds an instruction that is not of the wrong path.
LEMMA PathFeed == ASSUME Core, PathInv, feed_inst PROVE PathInv'
<1>1. UNCHANGED <<slot, ifq, fs>>
  BY DEF feed_inst
<1>2. Shape(FrontEnd', WrongPath')
  BY <1>1, Zenon DEF PathInv, FrontEnd, WrongPath, Held
<1>3. ~input'.wp /\ ~input'.mis
  BY FedFacts
<1> QED BY <1>1, <1>2, <1>3, Zenon DEF PathInv

\* Time passes.
LEMMA PathTick == ASSUME Core, PathInv, Tick PROVE PathInv'
<1>1. UNCHANGED <<slot, ifq, input>> /\ fs' = [fs EXCEPT !.resume = Elapse(@)]
  BY DEF Tick
<1>2. fs'.wrong_path = fs.wrong_path /\ fs'.wp_flushed = fs.wp_flushed
  BY <1>1, CoreBase DEF FetchStates
<1>3. FrontEnd' = FrontEnd
  BY <1>1 DEF FrontEnd, Held
<1> QED BY <1>1, <1>2, <1>3, PathFrame

\* The queue after a response: the entry that waited longest.
LEMMA LikeResponse ==
    ASSUME Core, NEW i \in Waiting(ifq), ifq' = [ifq EXCEPT ![i].wait = FALSE]
    PROVE  Like(ifq, ifq')
<1> DEFINE x == [ifq[i] EXCEPT !.wait = FALSE]
<1>1. ifq \in Seq(TransType) /\ i \in DOMAIN ifq
  BY CoreBase DEF Waiting
<1>2. ifq[i] \in TransType
  BY <1>1
<1>3. /\ x \in TransType /\ x.wp = ifq[i].wp /\ x.mis = ifq[i].mis
      /\ x.kind = ifq[i].kind /\ x.id = ifq[i].id
  BY <1>2 DEF TransType
<1>4. ifq' = [ifq EXCEPT ![i] = x]
  OBVIOUS
<1> HIDE DEF x
<1>5. Like(ifq, [ifq EXCEPT ![i] = x])
  BY ONLY <1>1, <1>3, LikeUpdate
<1> QED BY ONLY <1>4, <1>5

\* A step that only changes wait or hold in the queue.
LEMMA PathLike ==
    ASSUME Core, PathInv, Like(ifq, ifq'), ifq' \in Seq(TransType),
           slot'["Decode"] = slot["Decode"], slot'["Fetch"] = slot["Fetch"],
           fs'.wrong_path = fs.wrong_path, fs'.wp_flushed = fs.wp_flushed,
           input' = input
    PROVE  PathInv'
<1>1. Like(FrontEnd, FrontEnd')
  BY FrontTypes, FrontEndIs, LikeFE
<1>2. WrongPath' <=> WrongPath
  BY Zenon DEF WrongPath
<1>3. Shape(FrontEnd', WrongPath)
  BY <1>1, ShapeLike DEF PathInv
<1>4. Shape(FrontEnd', WrongPath')
  BY <1>2, <1>3, Zenon DEF Shape
<1> QED BY <1>4, Zenon DEF PathInv

\* Callbacks from the instruction port.
LEMMA PathIport == ASSUME Core, PathInv, Iport PROVE PathInv'
<1>b. ip \in Iports /\ fs \in FetchStates /\ fs.orphan \in Seq(BOOLEAN)
      /\ ifq' \in Seq(TransType)
  BY CoreBase, BaseIport DEF BaseOK
<1>1. CASE IportResp
  <2>1. /\ UNCHANGED <<slot, input>> /\ fs' = [fs EXCEPT !.orphan = Tail(fs.orphan)]
        /\ ip.n > 0
    BY <1>1, Zenon DEF IportResp
  <2>2. fs'.wrong_path = fs.wrong_path /\ fs'.wp_flushed = fs.wp_flushed
    BY <1>b, <2>1 DEF FetchStates
  <2>3. CASE Head(fs.orphan) = TRUE
    <3>1. ifq' = ifq
      BY <1>1, <2>3, Zenon DEF IportResp
    <3>2. FrontEnd' = FrontEnd
      BY <2>1, <3>1 DEF FrontEnd, Held
    <3> QED BY <2>1, <2>2, <3>2, PathFrame
  <2>4. CASE Head(fs.orphan) # TRUE
    <3>0. ~Head(fs.orphan)
      <4>1. Len(fs.orphan) = ip.n
        BY CoreAligned DEF Aligned
      <4>2. fs.orphan # <<>>
        BY <1>b, <2>1, <4>1, SeqFacts DEF Iports
      <4>3. Head(fs.orphan) \in BOOLEAN
        BY <1>b, <4>2, SeqFacts, Zenon
      <4> QED BY <2>4, <4>3, Zenon
    <3>1. PICK i \in Waiting(ifq) : ifq' = [ifq EXCEPT ![i].wait = FALSE]
      BY <1>1, <2>1, <2>4, <3>0, FirstWaiting, Zenon DEF IportResp, Waiting
    <3>2. Like(ifq, ifq')
      BY <3>1, LikeResponse, Zenon
    <3> QED BY <1>b, <2>1, <2>2, <3>2, PathLike, Zenon
  <2> QED BY <2>3, <2>4
<1>2. CASE IportQuiet \/ IportAck \/ IportBusy
  <2>1. UNCHANGED <<ifq, fs, slot, input>>
    BY <1>2 DEF IportQuiet, IportAck, IportBusy, core
  <2>2. FrontEnd' = FrontEnd
    BY <2>1 DEF FrontEnd, Held
  <2> QED BY <2>1, <2>2, PathFrame
<1> QED BY <1>1, <1>2 DEF Iport

\* do_fetch_1 moves the head of the queue within the front end.
LEMMA PathFetch1 == ASSUME Core, PathInv, do_fetch_1 PROVE PathInv'
<1>b. /\ ifq \in Seq(TransType) /\ slot \in [Slots -> TransType \cup {None}]
      /\ slot["Decode"] \in TransType \cup {None} /\ ifq' \in Seq(TransType)
  BY CoreBase, FrontTypes, BaseFetch1 DEF BaseOK
<1>1. UNCHANGED <<fs, input>> /\ slot["Fetch"] = None
  BY DEF do_fetch_1, Handler, Runs, Slots
<1>2. \/ UNCHANGED <<ifq, slot>>
      \/ ifq # <<>> /\ ifq' = [ifq EXCEPT ![1].hold = @ - 1] /\ UNCHANGED slot
         /\ Head(ifq).hold > 0
      \/ ifq # <<>> /\ ifq' = Tail(ifq) /\ slot' = [slot EXCEPT !["Fetch"] = Head(ifq)]
  BY Zenon DEF do_fetch_1
<1>3. CASE UNCHANGED <<ifq, slot>>
  <2>1. FrontEnd' = FrontEnd
    BY <1>3 DEF FrontEnd, Held
  <2> QED BY <1>1, <2>1, PathFrame
<1>4. CASE ifq # <<>> /\ ifq' = [ifq EXCEPT ![1].hold = @ - 1] /\ UNCHANGED slot
           /\ Head(ifq).hold > 0
  <2>1. 1 \in DOMAIN ifq /\ ifq[1] \in TransType /\ Head(ifq) = ifq[1]
    BY <1>b, <1>4, SeqFacts
  <2> DEFINE x == [ifq[1] EXCEPT !.hold = ifq[1].hold - 1]
  <2>2. ifq[1].hold - 1 \in 0..2
    BY <1>4, <2>1 DEF TransType
  <2>3. /\ x \in TransType /\ x.wp = ifq[1].wp /\ x.mis = ifq[1].mis
        /\ x.kind = ifq[1].kind /\ x.id = ifq[1].id
    BY <2>1, <2>2 DEF TransType
  <2>4. ifq' = [ifq EXCEPT ![1] = x]
    BY <1>4
  <2> HIDE DEF x
  <2>5. Like(ifq, ifq')
    BY <1>b, <2>1, <2>3, <2>4, LikeUpdate
  <2> QED BY <1>b, <1>1, <1>4, <2>5, PathLike
<1>5. CASE ifq # <<>> /\ ifq' = Tail(ifq) /\ slot' = [slot EXCEPT !["Fetch"] = Head(ifq)]
  <2>1. slot'["Decode"] = slot["Decode"] /\ slot'["Fetch"] = Head(ifq)
    BY <1>b, <1>5 DEF Slots
  <2>2. FE(slot["Decode"], Head(ifq), Tail(ifq)) = FE(slot["Decode"], None, ifq)
    BY <1>b, <1>5, FEMoves
  <2>3. FrontEnd' = FrontEnd
    BY <1>1, <1>5, <2>1, <2>2, FrontEndIs
  <2> QED BY <1>1, <2>3, PathFrame
<1> QED BY <1>2, <1>3, <1>4, <1>5

\* A placeholder never reaches the handler of Decode: the branch it follows is
\* ahead of it until the flush.
LEMMA NoPlaceholderDecoded ==
    ASSUME Core, PathInv, slot["Decode"] = None, slot["Fetch"] # None
    PROVE  ~slot["Fetch"].wp
<1>1. FrontEnd = <<slot["Fetch"]>> \o ifq /\ slot["Fetch"] \in TransType
      /\ FrontEnd \in Seq(TransType)
  BY FrontTypes, FrontEndIs, FEFacts
<1>2. FrontEnd # <<>> /\ Head(FrontEnd) = slot["Fetch"]
  BY <1>1, FrontTypes, Cons
<1> QED BY <1>1, <1>2, ShapeHead, Zenon DEF PathInv

\* do_decode moves the Fetch slot's instruction within the front end.
LEMMA PathDecode == ASSUME Core, PathInv, do_decode PROVE PathInv'
<1>1. UNCHANGED <<ifq, fs, input>>
  BY DEF do_decode, Handler
<1>2. slot["Decode"] = None /\ slot["Fetch"] # None /\ ~slot["Fetch"].wp
  BY DecodeCases, NoPlaceholderDecoded
<1>3. \/ UNCHANGED slot
      \/ slot' = [slot EXCEPT !["Decode"] = slot["Fetch"], !["Fetch"] = None]
  BY <1>2, DecodeCases
<1>4. FrontEnd' = FrontEnd
  <2>1. CASE UNCHANGED slot
    BY <1>1, <2>1 DEF FrontEnd, Held
  <2>2. CASE slot' = [slot EXCEPT !["Decode"] = slot["Fetch"], !["Fetch"] = None]
    <3>1. slot'["Decode"] = slot["Fetch"] /\ slot'["Fetch"] = None
      BY <2>2, CoreBase DEF Slots
    <3>2. FE(slot["Fetch"], None, ifq) = FE(None, slot["Fetch"], ifq)
      BY FrontTypes, FEMoves
    <3> QED BY <1>1, <1>2, <3>1, <3>2, FrontEndIs
  <2> QED BY <1>3, <2>1, <2>2
<1> QED BY <1>1, <1>4, PathFrame

\* The Decode slot is the head of the front end.
LEMMA FrontHead ==
    ASSUME Core, slot["Decode"] # None
    PROVE  FrontEnd # <<>> /\ Head(FrontEnd) = slot["Decode"]
BY FrontTypes, FrontEndIs, FEMoves

\* The head of the front end issues.
LEMMA PathIssue ==
    ASSUME Core, PathInv, slot["Decode"] # None, ~slot["Decode"].mis,
           slot'["Decode"] = None, slot'["Fetch"] = slot["Fetch"], ifq' = ifq,
           UNCHANGED <<fs, input>>
    PROVE  PathInv'
<1>1. FrontEnd # <<>> /\ Head(FrontEnd) = slot["Decode"]
  BY FrontHead
<1>t. FrontEnd' = Tail(FrontEnd)
  <2>1. Tail(FrontEnd) = FE(None, slot["Fetch"], ifq)
    BY FrontTypes, FrontEndIs, FEMoves, Zenon
  <2>2. FrontEnd' = FE(None, slot["Fetch"], ifq)
    BY FrontEndIs
  <2> QED BY <2>1, <2>2
<1>2. Shape(FrontEnd', WrongPath)
  BY <1>1, <1>t, FrontTypes, ShapeTail, Zenon DEF PathInv
<1>3. Shape(FrontEnd', WrongPath')
  BY <1>2, Zenon DEF WrongPath
<1> QED BY <1>3, Zenon DEF PathInv

\* A mispredicted instruction in Decode is the branch the core is past.
LEMMA DecodeHead ==
    ASSUME Core, PathInv, slot["Decode"] # None
    PROVE  slot["Decode"].mis => slot["Decode"].kind = "BR" /\ WrongPath
<1>1. FrontEnd # <<>> /\ Head(FrontEnd) = slot["Decode"]
  BY FrontHead
<1>2. FrontEnd \in Seq(TransType) /\ Shape(FrontEnd, WrongPath)
  BY FrontTypes DEF PathInv
<1> QED BY <1>1, <1>2, ShapeHead

\* do_mul_ext and do_div_ext take the head.
LEMMA PathMext ==
    ASSUME Core, PathInv, NEW u \in {"Mul", "Div"}, NEW kind \in {"MUL", "DIV"},
           NEW lat, NEW ready, DoMext(u, kind, lat, ready)
    PROVE  PathInv'
<1>1. UNCHANGED <<ifq, fs, input>> /\ slot["Decode"] # None
  BY DEF DoMext, Handler, Runs, prev_stage_valid, Slots
<1>2. CASE slot["Decode"].kind # kind
  <2>1. FrontEnd' = FrontEnd
    BY <1>1, <1>2 DEF DoMext, FrontEnd, Held
  <2> QED BY <1>1, <2>1, PathFrame
<1>3. CASE slot["Decode"].kind = kind
  <2>1. slot' = [slot EXCEPT ![u] = slot["Decode"], !["Decode"] = None]
    BY <1>3 DEF DoMext
  <2>2. slot'["Decode"] = None /\ slot'["Fetch"] = slot["Fetch"]
    BY <2>1, CoreBase DEF Slots
  <2>3. ~slot["Decode"].mis
    BY <1>1, <1>3, DecodeHead
  <2> QED BY <1>1, <2>2, <2>3, PathIssue
<1> QED BY <1>2, <1>3

\* do_execute takes the head; if it was mispredicted, all behind it goes.
LEMMA PathExecute == ASSUME Core, PathInv, do_execute PROVE PathInv'
<1> DEFINE t == slot["Decode"]
           flush == t.kind = "BR" /\ t.mis
           fetched == IF flush THEN None ELSE slot["Fetch"]
<1>1. input' = input /\ t # None
  BY DEF do_execute, Handler, Runs, prev_stage_valid, Slots
<1>2. CASE IsMext(t)
  <2>1. UNCHANGED <<slot, ifq, fs>>
    BY <1>2 DEF do_execute
  <2>2. FrontEnd' = FrontEnd
    BY <2>1 DEF FrontEnd, Held
  <2> QED BY <1>1, <2>1, <2>2, PathFrame
<1>3. CASE ~IsMext(t)
  <2>1. slot' = [slot EXCEPT !["Execute"] = t, !["Decode"] = None, !["Fetch"] = fetched]
    BY <1>3 DEF do_execute
  <2>2. slot'["Decode"] = None /\ slot'["Fetch"] = fetched
    BY <2>1, CoreBase DEF Slots
  <2>3. CASE flush
    <3>1. ifq' = <<>> /\ fs' = FlushedFetch
      BY <1>3, <2>3 DEF do_execute
    <3>2. fs'.wp_flushed = TRUE /\ fs'.wrong_path = fs.wrong_path
      BY <3>1, CoreBase DEF FlushedFetch, FetchStates
    <3>3. fs.wrong_path
      BY <1>1, <2>3, DecodeHead, Zenon DEF WrongPath
    <3>4. FrontEnd' = <<>>
      <4>1. fetched = None
        BY <2>3
      <4>2. <<>> \in Seq(TransType) /\ None \in TransType \cup {None}
        OBVIOUS
      <4>3. FE(None, None, <<>>) = <<>>
        BY <4>2, FEFacts, Zenon
      <4> QED BY <2>2, <3>1, <4>1, <4>3, FrontEndIs
    <3>5. Mis(<<>>) = {} /\ Placed(<<>>) = {} /\ DOMAIN <<>> = {}
      BY DEF Mis, Placed
    <3>6. Shape(<<>>, FALSE)
      BY <3>5, Zenon DEF Shape
    <3>7. Shape(FrontEnd', WrongPath')
      BY <3>2, <3>4, <3>6, Zenon DEF WrongPath
    <3> QED BY <1>1, <3>2, <3>3, <3>7, Zenon DEF PathInv
  <2>4. CASE ~flush
    <3>1. UNCHANGED <<ifq, fs>> /\ fetched = slot["Fetch"]
      BY <1>3, <2>4 DEF do_execute
    <3>2. ~t.mis
      BY <1>1, <2>4, DecodeHead
    <3> QED BY <1>1, <2>2, <3>1, <3>2, PathIssue
  <2> QED BY <2>3, <2>4
<1> QED BY <1>2, <1>3

\* A fetch appends: a placeholder on the wrong path, an instruction otherwise.
LEMMA PathFetch0 == ASSUME Core, PathInv, do_fetch_0 PROVE PathInv'
<1>b. fs \in FetchStates /\ fs.wrong_path \in BOOLEAN /\ fs.wp_flushed \in BOOLEAN
  BY CoreBase DEF FetchStates
<1>s. UNCHANGED slot
  BY DEF do_fetch_0, FetchEarlyRedirect, FetchWrongPath, FetchReal, FetchNothing,
         Fetch0Frame
<1>w. WrongPath \in BOOLEAN
  BY Zenon DEF WrongPath
<1>p. ASSUME NEW x \in TransType, ifq' = Append(ifq, x)
      PROVE  FrontEnd' = Append(FrontEnd, x)
  BY <1>s, <1>p, FrontTypes, FrontEndIs, FEMoves
<1>1. CASE FetchEarlyRedirect
  <2>1. UNCHANGED <<ifq, input>>
        /\ fs' = [fs EXCEPT !.orphan = Append(@, TRUE), !.early = @ - 1]
    BY <1>1 DEF FetchEarlyRedirect
  <2>2. fs'.wrong_path = fs.wrong_path /\ fs'.wp_flushed = fs.wp_flushed
    BY <1>b, <2>1 DEF FetchStates
  <2>3. FrontEnd' = FrontEnd
    BY <1>s, <2>1 DEF FrontEnd, Held
  <2> QED BY <2>1, <2>2, <2>3, PathFrame
<1>2. CASE FetchWrongPath
  <2> DEFINE t == Trans(0, NoInst, TRUE)
  <2>1. t \in TransType
    BY SizeFacts DEF Trans, NoInst, TransType, Ids, Kinds
  <2>2. t.wp = TRUE /\ t.mis = FALSE
    BY DEF Trans
  <2>3. /\ ifq' = Append(ifq, t) /\ input' = input /\ WrongPath
        /\ fs' = [fs EXCEPT !.orphan = Append(@, FALSE)]
    BY <1>2, Zenon DEF FetchWrongPath
  <2>4. fs'.wrong_path = fs.wrong_path /\ fs'.wp_flushed = fs.wp_flushed
    BY <1>b, <2>3 DEF FetchStates
  <2> HIDE DEF t
  <2>5. FrontEnd' = Append(FrontEnd, t)
    BY <1>p, <2>1, <2>3
  <2>6. Shape(Append(FrontEnd, t), WrongPath)
    <3>1. FrontEnd \in Seq(TransType) /\ Shape(FrontEnd, WrongPath)
      BY FrontTypes DEF PathInv
    <3>2. (t.wp <=> WrongPath) /\ ~t.mis
      BY <2>2, <2>3, Zenon
    <3> QED BY ONLY <1>w, <2>1, <3>1, <3>2, ShapeAppend, Zenon
  <2>7. WrongPath' <=> WrongPath
    BY <2>4, Zenon DEF WrongPath
  <2>8. Shape(FrontEnd', WrongPath')
    BY <2>5, <2>6, <2>7, Zenon DEF Shape
  <2> QED BY <2>3, <2>4, <2>8, Zenon DEF PathInv
<1>3. CASE FetchReal
  <2>1. PICK g \in BOOLEAN, e \in 0..2, r \in 0..2, x \in BOOLEAN, t \in TransType :
           /\ input.kind # "BR" => g
           /\ fs' = [wrong_path |-> ~g, wp_flushed |-> x, resume |-> r,
                     early |-> e, orphan |-> Append(fs.orphan, FALSE)]
           /\ x = (IF fs.wrong_path THEN FALSE ELSE fs.wp_flushed)
           /\ ifq' = Append(ifq, t)
           /\ t.kind = input.kind /\ t.wp = input.wp /\ t.mis = ~g
    BY <1>3, RealFacts, Zenon
  <2>2. fs'.wrong_path = ~g /\ fs'.wp_flushed = x
    BY <2>1
  <2>3. x = FALSE
    BY <1>b, <2>1, Zenon DEF PathInv
  <2>4. input # None /\ ~WrongPath /\ input' = None
    BY <1>3, Zenon DEF FetchReal
  <2>5. ~t.wp /\ (t.mis => t.kind = "BR") /\ (t.mis <=> ~g)
    BY <2>1, <2>4, Zenon DEF PathInv
  <2>6. FrontEnd' = Append(FrontEnd, t)
    BY <1>p, <2>1
  <2>7. Shape(FrontEnd', ~g)
    <3>1. FrontEnd \in Seq(TransType) /\ Shape(FrontEnd, WrongPath)
      BY FrontTypes DEF PathInv
    <3>2. (~g) \in BOOLEAN /\ (~g <=> (WrongPath \/ t.mis)) /\ (t.wp <=> WrongPath)
      BY <2>4, <2>5, Zenon
    <3>3. Shape(Append(FrontEnd, t), ~g)
      BY ONLY <1>w, <2>4, <2>5, t \in TransType, <3>1, <3>2, ShapeAppend, Zenon
    <3> QED BY <2>6, <3>3
  <2>8. WrongPath' <=> ~g
    BY <2>2, <2>3, Zenon DEF WrongPath
  <2>9. Shape(FrontEnd', WrongPath')
    BY <2>7, <2>8, Zenon DEF Shape
  <2> QED BY <2>2, <2>3, <2>4, <2>9, Zenon DEF PathInv
<1>4. CASE FetchNothing
  <2>1. UNCHANGED <<ifq, input>>
    BY <1>4 DEF FetchNothing
  <2>2. FrontEnd' = FrontEnd
    BY <1>s, <2>1 DEF FrontEnd, Held
  <2>3. CASE fs' = fs
    BY <2>1, <2>2, <2>3, PathFrame
  <2>4. CASE ~WrongPath /\ fs' = Resumed
    <3>1. CASE fs.wrong_path
      <4>1. fs'.wrong_path = FALSE /\ fs'.wp_flushed = FALSE
        BY <1>b, <2>4, <3>1 DEF Resumed, FetchStates
      <4>2. ~WrongPath'
        BY <4>1, Zenon DEF WrongPath
      <4>3. Shape(FrontEnd', WrongPath')
        BY <2>2, <2>4, <4>2, Zenon DEF PathInv, Shape
      <4> QED BY <2>1, <4>1, <4>3, Zenon DEF PathInv
    <3>2. CASE ~fs.wrong_path
      BY <2>1, <2>2, <2>4, <3>2, PathFrame DEF Resumed
    <3> QED BY <3>1, <3>2
  <2> QED BY <1>4, <2>3, <2>4 DEF FetchNothing
<1> QED BY <1>1, <1>2, <1>3, <1>4 DEF do_fetch_0

\* The front end starts empty.
LEMMA InitPath == Init => PathInv
<1> SUFFICES ASSUME Init PROVE PathInv
  OBVIOUS
<1>1. FrontEnd = <<>>
  <2>1. slot["Decode"] = None /\ slot["Fetch"] = None /\ ifq = <<>>
    BY DEF Init, Slots
  <2>2. <<>> \in Seq(TransType) /\ None \in TransType \cup {None}
    OBVIOUS
  <2>3. FE(None, None, <<>>) = <<>>
    BY <2>2, FEFacts, Zenon
  <2> QED BY <2>1, <2>3, FrontEndIs
<1>2. Mis(<<>>) = {} /\ Placed(<<>>) = {} /\ DOMAIN <<>> = {}
  BY DEF Mis, Placed
<1>3. fs.wrong_path = FALSE /\ fs.wp_flushed = FALSE /\ input = None
  BY DEF Init
<1>4. Shape(FrontEnd, WrongPath)
  BY <1>1, <1>2, <1>3, Zenon DEF Shape, WrongPath
<1> QED BY <1>3, <1>4, Zenon DEF PathInv

\* The shape is kept by every step.
LEMMA PathStep == ASSUME Core, PathInv, [Next]_vars PROVE PathInv'
<1>1. CASE do_mul_ext
  BY <1>1, PathMext DEF do_mul_ext
<1>2. CASE do_div_ext
  BY <1>2, PathMext DEF do_div_ext
<1> QED BY <1>1, <1>2, PathQuiet, PathFeed, PathTick, PathIport, PathFetch1, PathDecode,
           PathExecute, PathFetch0
        DEF Next, Handlers

\* The shape, as the specification states it.
LEMMA ShapeMeaning == ASSUME PathInv PROVE WrongPathShape
<1> DEFINE mis == {i \in DOMAIN FrontEnd : FrontEnd[i].mis}
<1>1. mis = Mis(FrontEnd)
  BY DEF Mis
<1>2. WrongPath <=> mis # {}
  BY <1>1, Zenon DEF PathInv, Shape
<1>3. \A i \in DOMAIN FrontEnd : FrontEnd[i].wp <=> \E j \in mis : j < i
  <2>1. Placed(FrontEnd) = {i \in DOMAIN FrontEnd : \E j \in mis : j < i}
    BY <1>1, Zenon DEF PathInv, Shape
  <2> HIDE DEF mis
  <2> QED BY <2>1, Zenon DEF Placed
<1>4. \A i, j \in mis : i = j
  BY <1>1, Zenon DEF PathInv, Shape
<1> HIDE DEF mis
<1>5. Cardinality(mis) <= 1
  <2>1. CASE mis = {}
    <3>1. Cardinality(mis) = 0
      BY <2>1, FS_EmptySet
    <3> QED BY ONLY <3>1
  <2>2. CASE mis # {}
    <3>1. PICK x : x \in mis
      BY <2>2
    <3>2. mis = {x}
      BY <1>4, <3>1, Zenon
    <3>3. Cardinality(mis) = 1
      BY <3>2, FS_Singleton
    <3> QED BY ONLY <3>3
  <2> QED BY <2>1, <2>2
<1> QED BY <1>2, <1>3, <1>5 DEF WrongPathShape, mis

\* The queue after handle_ifu_resp: the same up to a wait flag.
LEMMA QueueResponse == ASSUME Core, IportResp PROVE ifq' = ifq \/ Like(ifq, ifq')
<1>b. ip \in Iports /\ fs.orphan \in Seq(BOOLEAN) /\ Len(fs.orphan) = ip.n
  BY CoreBase, CoreAligned DEF Aligned
<1>1. ip.n > 0
  BY Zenon DEF IportResp
<1>2. CASE Head(fs.orphan) = TRUE
  BY <1>2, Zenon DEF IportResp
<1>3. CASE Head(fs.orphan) # TRUE
  <2>0. ~Head(fs.orphan)
    <3>1. fs.orphan # <<>>
      BY <1>b, <1>1, SeqFacts DEF Iports
    <3>2. Head(fs.orphan) \in BOOLEAN
      BY <1>b, <3>1, SeqFacts, Zenon
    <3> QED BY <1>3, <3>2, Zenon
  <2>1. PICK i \in Waiting(ifq) : ifq' = [ifq EXCEPT ![i].wait = FALSE]
    BY <1>1, <1>3, <2>0, FirstWaiting, Zenon DEF IportResp, Waiting
  <2>2. Like(ifq, ifq')
    BY <2>1, LikeResponse, Zenon
  <2> QED BY <2>2
<1> QED BY <1>2, <1>3

\* The queue after do_fetch_1 held its head back for another tick.
LEMMA QueueHold ==
    ASSUME Core, ifq # <<>>, ifq' = [ifq EXCEPT ![1].hold = @ - 1], Head(ifq).hold > 0
    PROVE  Like(ifq, ifq')
<1>b. ifq \in Seq(TransType)
  BY CoreBase
<1>1. 1 \in DOMAIN ifq /\ ifq[1] \in TransType /\ Head(ifq) = ifq[1]
  BY <1>b, SeqFacts
<1> DEFINE x == [ifq[1] EXCEPT !.hold = ifq[1].hold - 1]
<1>2. ifq[1].hold - 1 \in 0..2
  BY <1>1 DEF TransType
<1>3. /\ x \in TransType /\ x.wp = ifq[1].wp /\ x.mis = ifq[1].mis
      /\ x.kind = ifq[1].kind /\ x.id = ifq[1].id
  BY <1>1, <1>2 DEF TransType
<1>4. ifq' = [ifq EXCEPT ![1] = x]
  OBVIOUS
<1> HIDE DEF x
<1>5. Like(ifq, [ifq EXCEPT ![1] = x])
  BY ONLY <1>b, <1>1, <1>3, LikeUpdate
<1> QED BY ONLY <1>4, <1>5

----------------------------------------------------------------------------
(* The accounting: trace instructions in the slots and in the queue. *)

Live(m)     == {s \in Slots : m[s] # None /\ ~m[s].wp}
LiveIds(m)  == {m[s].id : s \in Live(m)}
QLive(q)    == {i \in DOMAIN q : ~q[i].wp}
QLiveIds(q) == {q[i].id : i \in QLive(q)}
Fed(x)      == IF x = None THEN 0 ELSE 1
FedIds(x)   == IF x = None THEN {} ELSE {x.id}

SlotMaps == [Slots -> TransType \cup {None}]

\* There are finitely many slots.
LEMMA SlotsFinite == IsFiniteSet(Slots)
<1>1. Slots = {"Fetch"} \cup {"Decode"} \cup {"Execute"} \cup {"Mul"} \cup {"Div"} \cup {"Memory"}
  BY DEF Slots
<1>2. IsFiniteSet({"Fetch"})
  BY FS_Singleton
<1> QED BY <1>1, <1>2, FS_AddElement

\* Trace instructions in the slots can be counted,
LEMMA LiveFinite ==
    ASSUME NEW m PROVE IsFiniteSet(Live(m)) /\ Cardinality(Live(m)) \in Nat
<1>1. Live(m) \subseteq Slots
  BY DEF Live
<1> QED BY <1>1, SlotsFinite, FS_Subset, FS_CardinalityType

\* and so can those in the queue.
LEMMA QLiveFinite ==
    ASSUME NEW q \in Seq(TransType)
    PROVE  IsFiniteSet(QLive(q)) /\ Cardinality(QLive(q)) \in Nat
<1>1. DOMAIN q = 1..Len(q) /\ Len(q) \in Nat
  BY SeqFacts
<1>2. IsFiniteSet(DOMAIN q)
  BY <1>1, FS_Interval
<1>3. QLive(q) \subseteq DOMAIN q
  BY Zenon DEF QLive
<1> QED BY <1>2, <1>3, FS_Subset, FS_CardinalityType

\* A slot is emptied.
LEMMA LiveClear ==
    ASSUME NEW m \in SlotMaps, NEW s \in Slots, m[s] # None, ~m[s].wp
    PROVE  LET n == [m EXCEPT ![s] = None]
           IN  /\ n \in SlotMaps
               /\ Cardinality(Live(n)) = Cardinality(Live(m)) - 1
               /\ LiveIds(m) = LiveIds(n) \cup {m[s].id}
<1> DEFINE n == [m EXCEPT ![s] = None]
<1>1. /\ n \in SlotMaps /\ n[s] = None
      /\ \A r \in Slots : r # s => n[r] = m[r]
  BY DEF SlotMaps
<1> HIDE DEF n
<1>2. Live(n) = Live(m) \ {s} /\ s \in Live(m)
  BY <1>1, Zenon DEF Live
<1>3. Cardinality(Live(n)) = Cardinality(Live(m)) - 1
  BY <1>2, LiveFinite, FS_RemoveElement
<1>4. LiveIds(m) = LiveIds(n) \cup {m[s].id}
  <2>1. \A r \in Live(n) : r \in Live(m) /\ n[r] = m[r]
    BY <1>1, <1>2, Zenon DEF Live
  <2>2. \A r \in Live(m) : r = s \/ (r \in Live(n) /\ n[r] = m[r])
    BY <1>1, <1>2, Zenon DEF Live
  <2> QED BY <1>2, <2>1, <2>2, Zenon DEF LiveIds
<1> QED BY <1>1, <1>3, <1>4 DEF n

\* An empty slot is filled with a trace instruction.
LEMMA LiveFill ==
    ASSUME NEW m \in SlotMaps, NEW s \in Slots, m[s] = None,
           NEW t \in TransType, ~t.wp
    PROVE  LET n == [m EXCEPT ![s] = t]
           IN  /\ n \in SlotMaps
               /\ Cardinality(Live(n)) = Cardinality(Live(m)) + 1
               /\ LiveIds(n) = LiveIds(m) \cup {t.id}
<1> DEFINE n == [m EXCEPT ![s] = t]
<1>1. /\ n \in SlotMaps /\ n[s] = t /\ t # None
      /\ \A r \in Slots : r # s => n[r] = m[r]
  BY NoneFacts DEF SlotMaps
<1> HIDE DEF n
<1>2. Live(n) = Live(m) \cup {s} /\ s \notin Live(m)
  <2>1. n[s] # None /\ ~n[s].wp
    BY <1>1, Zenon
  <2>2. ASSUME NEW r \in Slots PROVE r \in Live(n) <=> r = s \/ r \in Live(m)
    <3>1. CASE r = s
      BY <2>1, <3>1, Zenon DEF Live
    <3>2. CASE r # s
      BY <1>1, <3>2, Zenon DEF Live
    <3> QED BY <3>1, <3>2
  <2>3. Live(n) \subseteq Slots /\ Live(m) \subseteq Slots /\ s \notin Live(m)
    BY Zenon DEF Live
  <2> QED BY <2>2, <2>3, Zenon
<1>3. Cardinality(Live(n)) = Cardinality(Live(m)) + 1
  BY <1>2, LiveFinite, FS_AddElement
<1>4. LiveIds(n) = LiveIds(m) \cup {t.id}
  <2>1. \A r \in Live(m) : r \in Live(n) /\ n[r] = m[r]
    BY <1>1, <1>2, Zenon DEF Live
  <2>2. \A r \in Live(n) : (r = s /\ n[r] = t) \/ (r \in Live(m) /\ n[r] = m[r])
    BY <1>1, <1>2, Zenon DEF Live
  <2>3. ASSUME NEW r \in Live(n) PROVE n[r].id \in LiveIds(m) \cup {t.id}
    BY <2>2, <2>3, Zenon DEF LiveIds
  <2>4. ASSUME NEW r \in Live(m) PROVE m[r].id \in LiveIds(n)
    <3>1. r \in Live(n) /\ m[r].id = n[r].id
      BY <2>1, <2>4, Zenon
    <3> QED BY <3>1, Zenon DEF LiveIds
  <2>5. t.id \in LiveIds(n)
    <3>1. s \in Live(n) /\ t.id = n[s].id
      BY <1>1, <1>2, Zenon
    <3> QED BY <3>1, Zenon DEF LiveIds
  <2> QED BY <2>3, <2>4, <2>5, Zenon DEF LiveIds
<1> QED BY <1>1, <1>3, <1>4 DEF n

\* A trace instruction moves to an empty slot.
LEMMA LiveMove ==
    ASSUME NEW m \in SlotMaps, NEW a \in Slots, NEW b \in Slots, a # b,
           m[a] # None, ~m[a].wp, m[b] = None,
           NEW t \in TransType, t.wp = m[a].wp, t.id = m[a].id
    PROVE  LET n == [m EXCEPT ![b] = t, ![a] = None]
           IN  /\ Cardinality(Live(n)) = Cardinality(Live(m))
               /\ LiveIds(n) = LiveIds(m)
<1> DEFINE k == [m EXCEPT ![a] = None]
           n == [k EXCEPT ![b] = t]
<1>1. n = [m EXCEPT ![b] = t, ![a] = None]
  BY DEF SlotMaps
<1>2. /\ k \in SlotMaps /\ Cardinality(Live(k)) = Cardinality(Live(m)) - 1
      /\ LiveIds(m) = LiveIds(k) \cup {m[a].id}
  BY LiveClear
<1>3. k[b] = None
  BY DEF SlotMaps
<1> HIDE DEF k
<1>4. ~t.wp
  BY Zenon
<1>5. /\ Cardinality(Live(n)) = Cardinality(Live(k)) + 1
      /\ LiveIds(n) = LiveIds(k) \cup {t.id}
  BY <1>2, <1>3, <1>4, LiveFill, Zenon
<1> HIDE DEF n
<1>6. Cardinality(Live(n)) = Cardinality(Live(m))
  <2>1. Cardinality(Live(k)) \in Nat /\ Cardinality(Live(m)) \in Nat
    BY LiveFinite
  <2> QED BY ONLY <1>2, <1>5, <2>1
<1>7. LiveIds(n) = LiveIds(m)
  BY <1>2, <1>5, Zenon
<1>8. Cardinality(Live(n)) = Cardinality(Live(m)) /\ LiveIds(n) = LiveIds(m)
  BY <1>6, <1>7
<1> QED BY <1>1, <1>8

\* Slots that differ only in wait and hold.
LEMMA LiveSame ==
    ASSUME NEW m, NEW n,
           \A s \in Slots : /\ m[s] = None <=> n[s] = None
                            /\ m[s].wp = n[s].wp /\ m[s].id = n[s].id
    PROVE  Live(n) = Live(m) /\ LiveIds(n) = LiveIds(m)
<1>1. Live(n) = Live(m)
  BY Zenon DEF Live
<1>2. \A s \in Live(m) : m[s].id = n[s].id
  BY Zenon DEF Live
<1> QED BY <1>1, <1>2, Zenon DEF LiveIds

\* The queue loses its head.
LEMMA QLiveTail ==
    ASSUME NEW q \in Seq(TransType), q # <<>>
    PROVE  /\ Head(q).wp =>
                /\ Cardinality(QLive(Tail(q))) = Cardinality(QLive(q))
                /\ QLiveIds(q) = QLiveIds(Tail(q))
           /\ ~Head(q).wp =>
                /\ Cardinality(QLive(Tail(q))) = Cardinality(QLive(q)) - 1
                /\ QLiveIds(q) = QLiveIds(Tail(q)) \cup {Head(q).id}
<1> DEFINE n == Len(q)
           r == Tail(q)
<1>1. /\ n \in Nat /\ n > 0 /\ DOMAIN q = 1..n /\ Head(q) = q[1]
      /\ DOMAIN r = 1..(n - 1) /\ \A i \in 1..(n - 1) : r[i] = q[i + 1]
  <2>1. r \in Seq(TransType) /\ Len(r) = n - 1
    BY SeqFacts
  <2>2. DOMAIN r = 1..Len(r)
    BY <2>1, SeqFacts
  <2> QED BY <2>1, <2>2, SeqFacts
<1>2. /\ \A i \in 1..(n - 1) : i + 1 \in 1..n
      /\ \A i \in 1..n : i = 1 \/ \E j \in 1..(n - 1) : i = j + 1
      /\ 1 \in 1..n /\ n - 1 \in Nat /\ (n - 1) + 1 = n
  <2>1. ASSUME NEW i \in 1..n, i # 1 PROVE i - 1 \in 1..(n - 1) /\ i = (i - 1) + 1
    BY <1>1, <2>1
  <2> QED BY <1>1, <2>1
<1> HIDE DEF n, r
<1>3. QLive(r) = {i \in 1..(n - 1) : i + 1 \in QLive(q)}
  <2>1. ASSUME NEW i \in 1..(n - 1) PROVE ~r[i].wp <=> i + 1 \in QLive(q)
    BY <1>1, <1>2, Zenon DEF QLive
  <2> QED BY <1>1, <2>1, Zenon DEF QLive
<1>4. Cardinality(QLive(r)) = IF 1 \in QLive(q) THEN Cardinality(QLive(q)) - 1
                              ELSE Cardinality(QLive(q))
  <2>1. QLive(q) \in SUBSET (1..((n - 1) + 1))
    BY <1>1, <1>2, Zenon DEF QLive
  <2>2. n - 1 \in Nat
    BY <1>2
  <2> QED BY ONLY <1>3, <2>1, <2>2, CountShift
<1>5. 1 \in QLive(q) <=> ~Head(q).wp
  BY <1>1, <1>2, Zenon DEF QLive
<1>6. \A i \in QLive(r) : i + 1 \in QLive(q) /\ r[i].id = q[i + 1].id
  BY <1>1, <1>3, Zenon
<1>7. \A i \in QLive(q) : i = 1 \/ \E j \in QLive(r) : q[i].id = r[j].id
  <2>1. ASSUME NEW i \in QLive(q), i # 1 PROVE \E j \in QLive(r) : q[i].id = r[j].id
    <3>1. i \in 1..n
      BY <1>1, <2>1, Zenon DEF QLive
    <3>2. PICK j \in 1..(n - 1) : i = j + 1
      BY <1>2, <2>1, <3>1, Zenon
    <3>3. j \in QLive(r)
      BY <1>3, <2>1, <3>2, Zenon
    <3>4. q[i].id = r[j].id
      BY <1>1, <3>2, Zenon
    <3> QED BY <3>3, <3>4
  <2> QED BY <2>1
<1>8. QLiveIds(q) = IF 1 \in QLive(q) THEN QLiveIds(r) \cup {q[1].id} ELSE QLiveIds(r)
  <2>1. QLiveIds(r) \subseteq QLiveIds(q)
    BY <1>6, Zenon DEF QLiveIds
  <2>2. ASSUME NEW i \in QLive(q), i # 1 PROVE q[i].id \in QLiveIds(r)
    BY <1>7, <2>2, Zenon DEF QLiveIds
  <2>3. CASE 1 \in QLive(q)
    <3>1. q[1].id \in QLiveIds(q)
      BY <2>3, Zenon DEF QLiveIds
    <3>2. QLiveIds(q) \subseteq QLiveIds(r) \cup {q[1].id}
      BY <2>2, Zenon DEF QLiveIds
    <3> QED BY <2>1, <2>3, <3>1, <3>2, Zenon
  <2>4. CASE 1 \notin QLive(q)
    <3>1. QLiveIds(q) \subseteq QLiveIds(r)
      BY <2>2, <2>4, Zenon DEF QLiveIds
    <3> QED BY <2>1, <2>4, <3>1, Zenon
  <2> QED BY <2>3, <2>4
<1> QED BY <1>1, <1>4, <1>5, <1>8, Zenon DEF r

\* The queue gains an entry.
LEMMA QLiveAppend ==
    ASSUME NEW q \in Seq(TransType), NEW t \in TransType
    PROVE  LET r == Append(q, t)
           IN  /\ t.wp => /\ Cardinality(QLive(r)) = Cardinality(QLive(q))
                          /\ QLiveIds(r) = QLiveIds(q)
               /\ ~t.wp => /\ Cardinality(QLive(r)) = Cardinality(QLive(q)) + 1
                           /\ QLiveIds(r) = QLiveIds(q) \cup {t.id}
<1> DEFINE n == Len(q)
           r == Append(q, t)
<1>1. /\ n \in Nat /\ DOMAIN q = 1..n /\ DOMAIN r = 1..(n + 1)
      /\ r[n + 1] = t /\ \A i \in 1..n : r[i] = q[i]
  <2>1. /\ r \in Seq(TransType) /\ Len(r) = n + 1 /\ r[n + 1] = t
        /\ \A i \in 1..n : r[i] = q[i]
    BY SeqFacts
  <2>2. DOMAIN r = 1..Len(r)
    BY <2>1, SeqFacts
  <2> QED BY <2>1, <2>2, SeqFacts
<1>2. 1..(n + 1) = (1..n) \cup {n + 1} /\ n + 1 \notin 1..n
  BY <1>1
<1> HIDE DEF n, r
<1>3. QLive(r) = QLive(q) \cup (IF t.wp THEN {} ELSE {n + 1}) /\ n + 1 \notin QLive(q)
  <2>1. QLive(q) \subseteq 1..n /\ QLive(r) \subseteq (1..n) \cup {n + 1}
    BY <1>1, <1>2, Zenon DEF QLive
  <2>2. ASSUME NEW i \in 1..n PROVE i \in QLive(r) <=> i \in QLive(q)
    <3>1. i \in DOMAIN r /\ i \in DOMAIN q /\ r[i] = q[i]
      BY <1>1, <1>2, <2>2, Zenon
    <3> QED BY <3>1, Zenon DEF QLive
  <2>3. n + 1 \in QLive(r) <=> ~t.wp
    <3>1. n + 1 \in DOMAIN r /\ r[n + 1] = t
      BY <1>1, <1>2, Zenon
    <3> QED BY <3>1, Zenon DEF QLive
  <2>4. n + 1 \notin QLive(q)
    BY <1>2, <2>1, Zenon
  <2>5. CASE t.wp
    BY <1>2, <2>1, <2>2, <2>3, <2>4, <2>5, Zenon
  <2>6. CASE ~t.wp
    BY <1>2, <2>1, <2>2, <2>3, <2>4, <2>6, Zenon
  <2> QED BY <2>5, <2>6
<1>4. \A i \in QLive(q) : r[i] = q[i]
  BY <1>1, Zenon DEF QLive
<1>5. CASE t.wp
  <2>1. QLive(r) = QLive(q)
    BY <1>3, <1>5, Zenon
  <2>2. QLiveIds(r) = QLiveIds(q)
    BY <1>4, <2>1, Zenon DEF QLiveIds
  <2> QED BY <1>5, <2>1, <2>2, Zenon DEF r
<1>6. CASE ~t.wp
  <2>1. QLive(r) = QLive(q) \cup {n + 1}
    BY <1>3, <1>6, Zenon
  <2>2. Cardinality(QLive(r)) = Cardinality(QLive(q)) + 1
    BY ONLY <1>3, <2>1, q \in Seq(TransType), QLiveFinite, FS_AddElement
  <2>3. QLiveIds(r) = QLiveIds(q) \cup {t.id}
    <3>1. ASSUME NEW i \in QLive(q) PROVE q[i].id \in QLiveIds(r)
      <4>1. i \in QLive(r) /\ q[i].id = r[i].id
        BY <1>4, <2>1, <3>1, Zenon
      <4> QED BY <4>1, Zenon DEF QLiveIds
    <3>2. t.id \in QLiveIds(r)
      <4>1. n + 1 \in QLive(r) /\ t.id = r[n + 1].id
        BY <1>1, <2>1, Zenon
      <4> QED BY <4>1, Zenon DEF QLiveIds
    <3>3. ASSUME NEW i \in QLive(r) PROVE r[i].id \in QLiveIds(q) \cup {t.id}
      <4>1. CASE i = n + 1
        BY <1>1, <4>1, Zenon
      <4>2. CASE i # n + 1
        <5>1. i \in QLive(q) /\ r[i].id = q[i].id
          BY <1>4, <2>1, <3>3, <4>2, Zenon
        <5> QED BY <5>1, Zenon DEF QLiveIds
      <4> QED BY <4>1, <4>2
    <3> QED BY <3>1, <3>2, <3>3, Zenon DEF QLiveIds
  <2> QED BY <1>6, <2>2, <2>3, Zenon DEF r
<1> QED BY <1>5, <1>6

\* The queue's entries differ only in wait and hold.
LEMMA QLiveLike ==
    ASSUME NEW q, NEW r, Like(q, r)
    PROVE  QLive(r) = QLive(q) /\ QLiveIds(r) = QLiveIds(q)
<1>1. QLive(r) = QLive(q)
  BY Zenon DEF QLive, Like
<1>2. \A i \in QLive(q) : q[i].id = r[i].id
  BY Zenon DEF QLive, Like
<1> QED BY <1>1, <1>2, Zenon DEF QLiveIds

\* A slot that holds no trace instruction, before and after, does not count.
LEMMA LiveElsewhere ==
    ASSUME NEW m, NEW n, NEW s, s \notin Live(m), s \notin Live(n),
           \A r \in Slots : r # s => n[r] = m[r]
    PROVE  Live(n) = Live(m) /\ LiveIds(n) = LiveIds(m)
<1>1. ASSUME NEW r \in Live(n) PROVE r \in Live(m)
  <2>1. r \in Slots /\ r # s
    BY <1>1, Zenon DEF Live
  <2> QED BY <1>1, <2>1, Zenon DEF Live
<1>2. ASSUME NEW r \in Live(m) PROVE r \in Live(n)
  <2>1. r \in Slots /\ r # s
    BY <1>2, Zenon DEF Live
  <2> QED BY <1>2, <2>1, Zenon DEF Live
<1>3. Live(n) = Live(m)
  BY <1>1, <1>2, Zenon
<1>4. ASSUME NEW r \in Live(m) PROVE n[r] = m[r]
  <2>1. r \in Slots /\ r # s
    BY <1>4, Zenon DEF Live
  <2> QED BY <2>1, Zenon
<1>5. LiveIds(n) = LiveIds(m)
  BY <1>3, <1>4, Zenon DEF LiveIds
<1> QED BY <1>3, <1>5

\* A placeholder's slot is emptied.
LEMMA LiveDrop ==
    ASSUME NEW m \in SlotMaps, NEW s \in Slots, m[s] # None => m[s].wp
    PROVE  LET n == [m EXCEPT ![s] = None]
           IN  Live(n) = Live(m) /\ LiveIds(n) = LiveIds(m)
<1> DEFINE n == [m EXCEPT ![s] = None]
<1>1. n[s] = None /\ \A r \in Slots : r # s => n[r] = m[r]
  BY DEF SlotMaps
<1> HIDE DEF n
<1>2. s \notin Live(n) /\ s \notin Live(m)
  BY <1>1, Zenon DEF Live
<1>3. Live(n) = Live(m) /\ LiveIds(n) = LiveIds(m)
  BY <1>1, <1>2, LiveElsewhere, Zenon
<1> QED BY <1>3 DEF n

\* An empty slot is filled with a placeholder.
LEMMA LivePlace ==
    ASSUME NEW m \in SlotMaps, NEW s \in Slots, m[s] = None,
           NEW t \in TransType, t.wp
    PROVE  LET n == [m EXCEPT ![s] = t]
           IN  Live(n) = Live(m) /\ LiveIds(n) = LiveIds(m)
<1> DEFINE n == [m EXCEPT ![s] = t]
<1>1. n[s] = t /\ \A r \in Slots : r # s => n[r] = m[r]
  BY DEF SlotMaps
<1> HIDE DEF n
<1>2. s \notin Live(n) /\ s \notin Live(m)
  BY <1>1, Zenon DEF Live
<1>3. Live(n) = Live(m) /\ LiveIds(n) = LiveIds(m)
  BY <1>1, <1>2, LiveElsewhere, Zenon
<1> QED BY <1>3 DEF n

\* Behind a mispredicted branch in Decode there are only placeholders.
LEMMA OnlyPlaceholders ==
    ASSUME Core, PathInv, slot["Decode"] # None, slot["Decode"].mis
    PROVE  /\ slot["Fetch"] # None => slot["Fetch"].wp
           /\ \A i \in DOMAIN ifq : ifq[i].wp
<1> DEFINE F == FrontEnd
           G == Tail(FrontEnd)
           f == slot["Fetch"]
<1>1. /\ F \in Seq(TransType) /\ F # <<>> /\ Head(F) = slot["Decode"]
      /\ Shape(F, WrongPath)
  BY FrontTypes, FrontHead, Zenon DEF PathInv
<1>2. G = FE(None, f, ifq)
  BY FrontTypes, FrontEndIs, FEMoves, Zenon
<1>3. /\ F[1] = slot["Decode"] /\ DOMAIN F = 1..Len(F) /\ Len(F) \in Nat /\ Len(F) > 0
      /\ G \in Seq(TransType) /\ Len(G) = Len(F) - 1
      /\ \A i \in 1..(Len(F) - 1) : G[i] = F[i + 1]
  BY ONLY <1>1, SeqFacts
<1>4. DOMAIN G = 1..(Len(F) - 1)
  BY ONLY <1>3, SeqFacts
<1>5. /\ 1 \in 1..Len(F)
      /\ \A i \in 1..(Len(F) - 1) : i + 1 \in 1..Len(F) /\ 1 < i + 1
  BY ONLY <1>3
<1>6. 1 \in Mis(F)
  BY <1>3, <1>5, Zenon DEF Mis
<1>7. ASSUME NEW i \in 1..(Len(F) - 1) PROVE G[i].wp
  <2>1. i + 1 \in Placed(F)
    BY <1>1, <1>3, <1>5, <1>6, Zenon DEF Shape
  <2>2. F[i + 1].wp
    BY <2>1, Zenon DEF Placed
  <2> QED BY <1>3, <2>2, Zenon
<1>8. \A i \in DOMAIN G : G[i].wp
  BY <1>4, <1>7, Zenon
<1>9. CASE f = None
  <2>1. G = ifq
    BY <1>2, <1>9, FrontTypes, FEFacts, Zenon
  <2> QED BY <1>8, <1>9, <2>1, Zenon
<1>10. CASE f # None
  <2>1. f \in TransType /\ ifq \in Seq(TransType) /\ G = <<f>> \o ifq
    BY ONLY <1>2, <1>10, Core, FrontTypes, FEFacts
  <2>2. /\ 1 \in DOMAIN G /\ G[1] = f
        /\ \A i \in DOMAIN ifq : i + 1 \in DOMAIN G /\ G[i + 1] = ifq[i]
    BY ONLY <2>1
  <2> QED BY <1>8, <2>2, Zenon
<1> QED BY <1>9, <1>10

\* So the flush finds no trace instruction.
LEMMA FlushedNone ==
    ASSUME Core, PathInv, slot["Decode"] # None, slot["Decode"].mis
    PROVE  FlushedInsts = 0 /\ QLive(ifq) = {} /\ QLiveIds(ifq) = {}
<1>1. QLive(ifq) = {}
  BY OnlyPlaceholders, Zenon DEF QLive
<1>2. QLiveIds(ifq) = {}
  BY <1>1, Zenon DEF QLiveIds
<1>3. Cardinality(QLive(ifq)) = 0
  BY <1>1, FS_EmptySet
<1>4. ~(slot["Fetch"] # None /\ ~slot["Fetch"].wp)
  BY OnlyPlaceholders, Zenon
<1>5. FlushedInsts = Cardinality(QLive(ifq)) + 0
  BY <1>4, Zenon DEF FlushedInsts, QLive
<1>6. FlushedInsts = 0
  BY ONLY <1>3, <1>5
<1> QED BY <1>1, <1>2, <1>6

----------------------------------------------------------------------------

Acct ==
    /\ ongoing = Cardinality(Live(slot)) + Cardinality(QLive(ifq)) + Fed(input)
    /\ LiveIds(slot) \cup QLiveIds(ifq) \cup FedIds(input) \cup Range(done) = 1..loop.fed
    /\ ongoing + Len(done) = loop.fed

\* The accounting is what NoInstLost states.
LEMMA AcctMeaning == Acct <=> NoInstLost
<1>1. InFlightSlots = Live(slot)
  BY Zenon DEF InFlightSlots, Occupied, Live
<1>2. InFlightIfq = QLive(ifq)
  BY DEF InFlightIfq, QLive
<1>3. InFlightIds = LiveIds(slot) \cup QLiveIds(ifq) \cup FedIds(input)
  BY <1>1, <1>2 DEF InFlightIds, LiveIds, QLiveIds, FedIds
<1> QED BY <1>1, <1>2, <1>3, Zenon DEF Acct, NoInstLost, Fed

\* A step that moves instructions between slots, queue and input.
LEMMA AcctKeep ==
    ASSUME Acct, UNCHANGED <<ongoing, done>>, loop'.fed = loop.fed,
           Cardinality(Live(slot')) + Cardinality(QLive(ifq')) + Fed(input')
           = Cardinality(Live(slot)) + Cardinality(QLive(ifq)) + Fed(input),
           LiveIds(slot') \cup QLiveIds(ifq') \cup FedIds(input')
           = LiveIds(slot) \cup QLiveIds(ifq) \cup FedIds(input)
    PROVE  Acct'
BY DEF Acct

\* The three counts, after a step that changes the slots or the queue only.
LEMMA AcctSlots ==
    ASSUME Acct, UNCHANGED <<ongoing, done, ifq, input>>, loop'.fed = loop.fed,
           Cardinality(Live(slot')) = Cardinality(Live(slot)),
           LiveIds(slot') = LiveIds(slot)
    PROVE  Acct'
BY DEF Acct

\* A step that only changes wait or hold in the queue.
LEMMA AcctLike ==
    ASSUME Acct, UNCHANGED <<ongoing, done, slot, input>>, loop'.fed = loop.fed,
           Like(ifq, ifq')
    PROVE  Acct'
BY QLiveLike DEF Acct

\* The types the counting lemmas need.
LEMMA CoreMaps ==
    ASSUME Core
    PROVE  /\ slot \in SlotMaps /\ ifq \in Seq(TransType) /\ RealSlots
           /\ {"Fetch", "Decode", "Execute", "Mul", "Div", "Memory"} \subseteq Slots
BY CoreBase DEF SlotMaps, Slots, Asserts

\* The steps that move no instruction.
LEMMA AcctQuiet ==
    ASSUME Core, Acct,
           \/ DportQuiet \/ DportAck \/ DportBusy \/ IportQuiet \/ IportAck \/ IportBusy
           \/ Begin \/ (\E s \in Stages : Skip(s)) \/ FetchEarlyRedirect \/ FetchNothing
           \/ calc_sched \/ set_draining \/ NoFeed \/ Tick \/ Finished \/ UNCHANGED vars
    PROVE  Acct'
<1>1. UNCHANGED <<slot, ifq, input, ongoing, done>>
  BY DEF DportQuiet, DportAck, DportBusy, IportQuiet, IportAck, IportBusy, Begin, Skip,
      FetchEarlyRedirect, FetchNothing, Fetch0Frame, calc_sched, set_draining, NoFeed,
      Tick, Finished, vars, core
<1>2. loop'.fed = loop.fed
  <2>1. loop' = loop \/ loop' = [loop EXCEPT !.draining = TRUE]
    BY DEF DportQuiet, DportAck, DportBusy, IportQuiet, IportAck, IportBusy, Begin, Skip,
        FetchEarlyRedirect, FetchNothing, Fetch0Frame, calc_sched, set_draining, NoFeed,
        Tick, Finished, vars
  <2> QED BY <2>1, CoreBase DEF Loops
<1> QED BY <1>1, <1>2 DEF Acct

\* handle_ifu_resp clears a wait flag.
LEMMA AcctIportResp == ASSUME Core, Acct, IportResp PROVE Acct'
<1>1. UNCHANGED <<slot, input, ongoing, done, loop>>
  BY Zenon DEF IportResp
<1>2. CASE ifq' = ifq
  BY <1>1, <1>2 DEF Acct
<1>3. CASE Like(ifq, ifq')
  BY <1>1, <1>3, AcctLike, Zenon
<1> QED BY <1>2, <1>3, QueueResponse

\* handle_lsu_resp moves an instruction from Execute to Memory.
LEMMA AcctDportResp == ASSUME Core, Acct, DportResp PROVE Acct'
<1> DEFINE t == slot["Execute"]
           x == [t EXCEPT !.wait = FALSE]
<1>1. UNCHANGED <<ifq, input, ongoing, done, loop>>
      /\ slot' = [slot EXCEPT !["Memory"] = x, !["Execute"] = None]
  BY DEF DportResp
<1>2. t # None /\ slot["Memory"] = None /\ ~t.wp /\ t \in TransType
  <2>1. dp.left # InfTime
    BY InfTimeAssumption DEF DportResp, Due
  <2>2. t # None /\ slot["Memory"] = None
    BY <2>1, CoreBase DEF Asserts, LsuRespSafe
  <2> QED BY <2>2, CoreMaps, CoreBase DEF RealSlots, Slots
<1>3. x \in TransType /\ x.wp = t.wp /\ x.id = t.id
  BY <1>2 DEF TransType
<1> HIDE DEF x
<1> DEFINE k == [slot EXCEPT !["Memory"] = x, !["Execute"] = None]
<1>4. Cardinality(Live(k)) = Cardinality(Live(slot)) /\ LiveIds(k) = LiveIds(slot)
  BY ONLY <1>2, <1>3, Core, CoreMaps, LiveMove
<1>5. slot' = k
  BY <1>1
<1> HIDE DEF k
<1> QED BY <1>1, <1>4, <1>5, AcctSlots

\* The members of a sequence with one more element.
LEMMA RangeAppend ==
    ASSUME NEW q \in Seq(Ids), NEW x \in Ids
    PROVE  Range(Append(q, x)) = Range(q) \cup {x}
<1> DEFINE r == Append(q, x)
           n == Len(q)
<1>1. /\ n \in Nat /\ DOMAIN q = 1..n /\ DOMAIN r = 1..(n + 1)
      /\ r[n + 1] = x /\ \A i \in 1..n : r[i] = q[i]
  OBVIOUS
<1>2. 1..(n + 1) = (1..n) \cup {n + 1}
  BY <1>1
<1> HIDE DEF r, n
<1>3. Range(r) = Range(q) \cup {x}
  <2>1. ASSUME NEW i \in 1..n PROVE q[i] \in Range(r)
    <3>1. i \in DOMAIN r /\ r[i] = q[i]
      BY <1>1, <1>2, <2>1, Zenon
    <3> QED BY <3>1, Zenon DEF Range
  <2>2. x \in Range(r)
    <3>1. n + 1 \in DOMAIN r /\ r[n + 1] = x
      BY <1>1, <1>2, Zenon
    <3> QED BY <3>1, Zenon DEF Range
  <2>3. ASSUME NEW i \in DOMAIN r PROVE r[i] \in Range(q) \cup {x}
    <3>1. CASE i = n + 1
      BY <1>1, <3>1, Zenon
    <3>2. CASE i # n + 1
      <4>1. i \in DOMAIN q /\ r[i] = q[i]
        BY <1>1, <1>2, <2>3, <3>2, Zenon
      <4> QED BY <4>1, Zenon DEF Range
    <3> QED BY <3>1, <3>2
  <2>4. ASSUME NEW y \in Range(q) PROVE y \in Range(r)
    <3>1. PICK i \in DOMAIN q : y = q[i]
      BY <2>4, Zenon DEF Range
    <3> QED BY <1>1, <2>1, <3>1, Zenon
  <2>5. ASSUME NEW y \in Range(r) PROVE y \in Range(q) \cup {x}
    <3>1. PICK i \in DOMAIN r : y = r[i]
      BY <2>5, Zenon DEF Range
    <3> QED BY <2>3, <3>1, Zenon
  <2> QED BY <2>2, <2>4, <2>5, Zenon
<1> QED BY <1>3 DEF r

\* do_writeback commits the instruction it takes out.
LEMMA AcctWriteback == ASSUME Core, Acct, do_writeback PROVE Acct'
<1>1. UNCHANGED <<ifq, input, loop>>
  BY DEF do_writeback, Handler
<1>2. CASE WbSource = "none"
  <2>1. UNCHANGED <<slot, ongoing, done>>
    BY <1>2 DEF do_writeback
  <2> QED BY <1>1, <2>1 DEF Acct
<1>3. CASE WbSource # "none"
  <2> DEFINE s == WbSource
             x == slot[s].id
  <2>1. s \in {"Memory", "Div", "Mul"} /\ s \in Slots /\ slot[s] # None /\ slot[s] \in TransType
    BY <1>3, WbSourceFacts
  <2>2. /\ ongoing' = ongoing - 1 /\ done' = Append(done, x)
        /\ slot' = [slot EXCEPT ![s] = None]
    BY <1>3 DEF do_writeback
  <2>3. ~slot[s].wp
    BY <2>1, CoreMaps DEF RealSlots
  <2>4. /\ Cardinality(Live(slot')) = Cardinality(Live(slot)) - 1
        /\ LiveIds(slot) = LiveIds(slot') \cup {x}
    BY ONLY <2>1, <2>2, <2>3, Core, CoreMaps, LiveClear
  <2>5. x \in Ids /\ done \in Seq(Ids)
    BY <2>1, CoreBase DEF TransType, BaseOK
  <2> HIDE DEF s, x
  <2>6. Range(done') = Range(done) \cup {x} /\ Len(done') = Len(done) + 1
    BY <2>2, <2>5, RangeAppend
  <2>7. LiveIds(slot') \cup QLiveIds(ifq) \cup FedIds(input) \cup Range(done') = 1..loop.fed
    BY <2>4, <2>6, Zenon DEF Acct
  <2>8. /\ ongoing \in Int /\ Len(done) \in Nat
        /\ Cardinality(Live(slot)) \in Nat /\ Cardinality(QLive(ifq)) \in Nat
        /\ Fed(input) \in Nat
    BY <2>5, CoreMaps, CoreBase, LiveFinite, QLiveFinite DEF BaseOK, Fed
  <2>9. /\ ongoing' = Cardinality(Live(slot')) + Cardinality(QLive(ifq)) + Fed(input)
        /\ ongoing' + Len(done') = loop.fed
    <3>1. /\ ongoing = Cardinality(Live(slot)) + Cardinality(QLive(ifq)) + Fed(input)
          /\ ongoing + Len(done) = loop.fed
      BY DEF Acct
    <3>2. ongoing' = ongoing - 1
      BY <2>2
    <3> DEFINE o == ongoing
               d == Len(done)
               a == Cardinality(Live(slot))
               a1 == Cardinality(Live(slot'))
               b == Cardinality(QLive(ifq))
               c == Fed(input)
    <3>3. /\ o \in Int /\ d \in Nat /\ a \in Nat /\ b \in Nat /\ c \in Nat /\ a1 = a - 1
          /\ o = a + b + c /\ Len(done') = d + 1
      BY <2>4, <2>6, <2>8, <3>1
    <3>4. o + d = loop.fed
      BY <3>1
    <3> HIDE DEF o, d, a, a1, b, c
    <3>5. o - 1 = a1 + b + c
      BY ONLY <3>3
    <3>6. (o - 1) + (d + 1) = o + d
      BY ONLY <3>3
    <3>7. ongoing' = o - 1
      BY <3>2 DEF o
    <3>8. ongoing' + Len(done') = loop.fed
      BY ONLY <3>3, <3>4, <3>6, <3>7
    <3>9. ongoing' = a1 + b + c
      BY ONLY <3>5, <3>7
    <3> QED BY <3>8, <3>9, Zenon DEF a1, b, c
  <2> QED BY <1>1, <2>7, <2>9 DEF Acct
<1> QED BY <1>2, <1>3

\* do_memory moves an instruction or marks it waiting.
LEMMA AcctMemory == ASSUME Core, Acct, do_memory PROVE Acct'
<1> DEFINE t == slot["Execute"]
<1>1. UNCHANGED <<ifq, input, ongoing, done, loop>>
  BY DEF do_memory, Handler
<1>2. t # None /\ slot["Memory"] = None /\ ~t.wp /\ t \in TransType
  <2>1. t # None /\ slot["Memory"] = None
    BY DEF do_memory, Handler, Runs, prev_stage_valid, Slots
  <2> QED BY <2>1, CoreMaps, CoreBase DEF RealSlots, Slots
<1>3. \/ UNCHANGED slot
      \/ slot' = [slot EXCEPT !["Execute"].wait = TRUE]
      \/ slot' = [slot EXCEPT !["Memory"] = t, !["Execute"] = None]
  BY DEF do_memory, send_lsu_req
<1>4. CASE UNCHANGED slot
  BY <1>1, <1>4 DEF Acct
<1>5. CASE slot' = [slot EXCEPT !["Execute"].wait = TRUE]
  <2> DEFINE x == [t EXCEPT !.wait = TRUE]
  <2>1. x \in TransType /\ x.wp = t.wp /\ x.id = t.id
    BY <1>2 DEF TransType
  <2>2. slot' = [slot EXCEPT !["Execute"] = x]
    BY <1>5
  <2> HIDE DEF x
  <2>3. slot'["Execute"] = x /\ \A s \in Slots : s # "Execute" => slot'[s] = slot[s]
    BY <2>2, CoreMaps DEF SlotMaps
  <2>4. x # None
    BY <2>1, NoneFacts
  <2>5. ASSUME NEW s \in Slots
        PROVE  /\ slot[s] = None <=> slot'[s] = None
               /\ slot[s].wp = slot'[s].wp /\ slot[s].id = slot'[s].id
    <3>1. CASE s = "Execute"
      BY <1>2, <2>1, <2>3, <2>4, <3>1, Zenon
    <3>2. CASE s # "Execute"
      BY <2>3, <3>2, Zenon
    <3> QED BY <3>1, <3>2
  <2>6. Live(slot') = Live(slot) /\ LiveIds(slot') = LiveIds(slot)
    BY <2>5, LiveSame, Zenon
  <2> QED BY <1>1, <2>6, AcctSlots
<1>6. CASE slot' = [slot EXCEPT !["Memory"] = t, !["Execute"] = None]
  <2> DEFINE k == [slot EXCEPT !["Memory"] = t, !["Execute"] = None]
  <2>k. Cardinality(Live(k)) = Cardinality(Live(slot)) /\ LiveIds(k) = LiveIds(slot)
    BY ONLY <1>2, Core, CoreMaps, LiveMove
  <2>l. slot' = k
    BY <1>6
  <2> HIDE DEF k
  <2> QED BY <1>1, <2>k, <2>l, AcctSlots
<1> QED BY <1>3, <1>4, <1>5, <1>6

\* do_mul_ext and do_div_ext move an instruction.
LEMMA AcctMext ==
    ASSUME Core, Acct, NEW u \in {"Mul", "Div"}, NEW kind, NEW lat, NEW ready,
           DoMext(u, kind, lat, ready)
    PROVE  Acct'
<1> DEFINE t == slot["Decode"]
<1>1. UNCHANGED <<ifq, input, ongoing, done, loop>>
  BY DEF DoMext, Handler
<1>2. t # None /\ slot[u] = None /\ ~t.wp /\ t \in TransType /\ u \in Slots /\ u # "Decode"
  <2>1. t # None /\ slot[u] = None /\ u \in Slots /\ u # "Decode"
    BY DEF DoMext, Handler, Runs, prev_stage_valid, Slots
  <2> QED BY <2>1, CoreMaps, CoreBase DEF RealSlots, Slots
<1>3. CASE t.kind # kind
  BY <1>1, <1>3 DEF DoMext, Acct
<1>4. CASE t.kind = kind
  <2>1. slot' = [slot EXCEPT ![u] = t, !["Decode"] = None]
    BY <1>4 DEF DoMext
  <2> DEFINE k == [slot EXCEPT ![u] = t, !["Decode"] = None]
  <2>k. Cardinality(Live(k)) = Cardinality(Live(slot)) /\ LiveIds(k) = LiveIds(slot)
    BY ONLY <1>2, Core, CoreMaps, LiveMove
  <2>l. slot' = k
    BY <2>1
  <2> HIDE DEF k
  <2> QED BY <1>1, <2>k, <2>l, AcctSlots
<1> QED BY <1>3, <1>4

\* do_execute moves an instruction; its flush discards only placeholders.
LEMMA AcctExecute == ASSUME Core, PathInv, Acct, do_execute PROVE Acct'
<1> DEFINE t == slot["Decode"]
           flush == t.kind = "BR" /\ t.mis
           fetched == IF flush THEN None ELSE slot["Fetch"]
           k == [slot EXCEPT !["Execute"] = t, !["Decode"] = None]
<1>1. UNCHANGED <<input, done, loop>>
  BY DEF do_execute, Handler
<1>2. t # None /\ slot["Execute"] = None /\ ~t.wp /\ t \in TransType
  <2>1. t # None /\ slot["Execute"] = None
    BY DEF do_execute, Handler, Runs, prev_stage_valid, Slots
  <2> QED BY <2>1, CoreMaps, CoreBase DEF RealSlots, Slots
<1>3. Cardinality(Live(k)) = Cardinality(Live(slot)) /\ LiveIds(k) = LiveIds(slot)
  BY ONLY <1>2, Core, CoreMaps, LiveMove
<1>4. k \in SlotMaps /\ k["Fetch"] = slot["Fetch"]
  BY <1>2, CoreMaps DEF SlotMaps
<1>5. CASE IsMext(t)
  BY <1>1, <1>5 DEF do_execute, Acct
<1>6. CASE ~IsMext(t)
  <2>1. slot' = [slot EXCEPT !["Execute"] = t, !["Decode"] = None, !["Fetch"] = fetched]
    BY <1>6 DEF do_execute
  <2>2. CASE flush
    <3>1. ifq' = <<>> /\ ongoing' = ongoing - FlushedInsts
      BY <1>6, <2>2 DEF do_execute
    <3>2. ongoing' = ongoing
      <4>1. ongoing \in Int /\ FlushedInsts = 0
        BY <1>2, <2>2, FlushedNone, CoreBase DEF BaseOK
      <4> QED BY <3>1, <4>1
    <3>3. slot' = [k EXCEPT !["Fetch"] = None]
      BY <2>1, <2>2
    <3>4. k["Fetch"] # None => k["Fetch"].wp
      BY <1>2, <1>4, <2>2, OnlyPlaceholders, Zenon
    <3>5. "Fetch" \in Slots
      BY DEF Slots
    <3>6. Live(slot') = Live(k) /\ LiveIds(slot') = LiveIds(k)
      <4> HIDE DEF k
      <4> QED BY ONLY <1>4, <3>3, <3>4, <3>5, LiveDrop
    <3>7. QLive(ifq') = QLive(ifq) /\ QLiveIds(ifq') = QLiveIds(ifq)
      <4>1. QLive(ifq) = {} /\ QLiveIds(ifq) = {}
        BY <1>2, <2>2, FlushedNone
      <4>2. QLive(<<>>) = {} /\ QLiveIds(<<>>) = {}
        BY DEF QLive, QLiveIds
      <4> QED BY <3>1, <4>1, <4>2
    <3> HIDE DEF k
    <3> QED BY <1>1, <1>3, <3>2, <3>6, <3>7, AcctKeep
  <2>3. CASE ~flush
    <3>1. UNCHANGED <<ifq, ongoing>>
      BY <1>6, <2>3 DEF do_execute
    <3>2. slot' = k
      BY <2>1, <2>3, CoreMaps DEF SlotMaps
    <3> HIDE DEF k
    <3> QED BY <1>1, <1>3, <3>1, <3>2, AcctSlots
  <2> QED BY <2>2, <2>3
<1> QED BY <1>5, <1>6

\* do_decode moves an instruction, never a placeholder.
LEMMA AcctDecode == ASSUME Core, PathInv, Acct, do_decode PROVE Acct'
<1>1. UNCHANGED <<ifq, input, ongoing, done, loop>>
  BY DEF do_decode, Handler
<1>2. /\ slot["Decode"] = None /\ slot["Fetch"] # None /\ ~slot["Fetch"].wp
      /\ slot["Fetch"] \in TransType
  BY DecodeCases, NoPlaceholderDecoded
<1>3. \/ UNCHANGED slot
      \/ slot' = [slot EXCEPT !["Decode"] = slot["Fetch"], !["Fetch"] = None]
  BY <1>2, DecodeCases
<1>4. CASE UNCHANGED slot
  BY <1>1, <1>4 DEF Acct
<1>5. CASE slot' = [slot EXCEPT !["Decode"] = slot["Fetch"], !["Fetch"] = None]
  <2> DEFINE k == [slot EXCEPT !["Decode"] = slot["Fetch"], !["Fetch"] = None]
  <2>k. Cardinality(Live(k)) = Cardinality(Live(slot)) /\ LiveIds(k) = LiveIds(slot)
    BY ONLY <1>2, Core, CoreMaps, LiveMove
  <2>l. slot' = k
    BY <1>5
  <2> HIDE DEF k
  <2> QED BY <1>1, <2>k, <2>l, AcctSlots
<1> QED BY <1>3, <1>4, <1>5

\* do_fetch_1 moves the head of the queue, a trace instruction or not.
LEMMA AcctFetch1 == ASSUME Core, PathInv, Acct, do_fetch_1 PROVE Acct'
<1>b. ifq \in Seq(TransType) /\ slot \in SlotMaps /\ "Fetch" \in Slots
  BY CoreMaps
<1>1. UNCHANGED <<input, ongoing, done, loop>> /\ slot["Fetch"] = None
  BY DEF do_fetch_1, Handler, Runs, Slots
<1>2. \/ UNCHANGED <<ifq, slot>>
      \/ ifq # <<>> /\ ifq' = [ifq EXCEPT ![1].hold = @ - 1] /\ UNCHANGED slot
         /\ Head(ifq).hold > 0
      \/ ifq # <<>> /\ ifq' = Tail(ifq) /\ slot' = [slot EXCEPT !["Fetch"] = Head(ifq)]
  BY Zenon DEF do_fetch_1
<1>3. CASE UNCHANGED <<ifq, slot>>
  BY <1>1, <1>3 DEF Acct
<1>4. CASE ifq # <<>> /\ ifq' = [ifq EXCEPT ![1].hold = @ - 1] /\ UNCHANGED slot
           /\ Head(ifq).hold > 0
  <2>1. Like(ifq, ifq')
    BY <1>4, QueueHold
  <2> QED BY <1>1, <1>4, <2>1, AcctLike
<1>5. CASE ifq # <<>> /\ ifq' = Tail(ifq) /\ slot' = [slot EXCEPT !["Fetch"] = Head(ifq)]
  <2> DEFINE t == Head(ifq)
             k == [slot EXCEPT !["Fetch"] = t]
  <2>1. t \in TransType
    BY <1>b, <1>5, SeqFacts
  <2>2. slot' = k /\ ifq' = Tail(ifq)
    BY <1>5
  <2>3. CASE t.wp
    <3>1. Live(k) = Live(slot) /\ LiveIds(k) = LiveIds(slot)
      <4> HIDE DEF t
      <4> QED BY <1>b, <1>1, <2>1, <2>3, LivePlace, Zenon
    <3>2. Cardinality(QLive(Tail(ifq))) = Cardinality(QLive(ifq))
          /\ QLiveIds(Tail(ifq)) = QLiveIds(ifq)
      BY <1>b, <1>5, <2>3, QLiveTail, Zenon
    <3> HIDE DEF k
    <3> QED BY <1>1, <2>2, <3>1, <3>2, AcctKeep
  <2>4. CASE ~t.wp
    <3>1. /\ Cardinality(Live(k)) = Cardinality(Live(slot)) + 1
          /\ LiveIds(k) = LiveIds(slot) \cup {t.id}
      <4> HIDE DEF t
      <4> QED BY <1>b, <1>1, <2>1, <2>4, LiveFill, Zenon
    <3>2. /\ Cardinality(QLive(Tail(ifq))) = Cardinality(QLive(ifq)) - 1
          /\ QLiveIds(ifq) = QLiveIds(Tail(ifq)) \cup {t.id}
      BY <1>b, <1>5, <2>4, QLiveTail, Zenon
    <3> HIDE DEF k, t
    <3>3. /\ Cardinality(Live(slot)) \in Nat /\ Cardinality(QLive(ifq)) \in Nat
          /\ Fed(input) \in Nat
      BY <1>b, LiveFinite, QLiveFinite DEF Fed
    <3>4. Cardinality(Live(k)) + Cardinality(QLive(Tail(ifq))) + Fed(input)
          = Cardinality(Live(slot)) + Cardinality(QLive(ifq)) + Fed(input)
      BY ONLY <3>1, <3>2, <3>3
    <3>5. LiveIds(k) \cup QLiveIds(Tail(ifq)) \cup FedIds(input)
          = LiveIds(slot) \cup QLiveIds(ifq) \cup FedIds(input)
      BY <3>1, <3>2, Zenon
    <3> QED BY <1>1, <2>2, <3>4, <3>5, AcctKeep
  <2> QED BY <2>3, <2>4
<1> QED BY <1>2, <1>3, <1>4, <1>5

\* A wrong-path fetch queues a placeholder, which does not count.
LEMMA AcctFetchWrongPath == ASSUME Core, Acct, FetchWrongPath PROVE Acct'
<1> DEFINE t == Trans(0, NoInst, TRUE)
<1>1. t \in TransType
  BY SizeFacts DEF Trans, NoInst, TransType, Ids, Kinds
<1>2. t.wp = TRUE
  BY DEF Trans
<1>3. ifq' = Append(ifq, t) /\ UNCHANGED <<slot, input, ongoing, done, loop>>
  BY Zenon DEF FetchWrongPath, Fetch0Frame
<1> HIDE DEF t
<1>4. /\ Cardinality(QLive(Append(ifq, t))) = Cardinality(QLive(ifq))
      /\ QLiveIds(Append(ifq, t)) = QLiveIds(ifq)
  <2>1. t.wp /\ ifq \in Seq(TransType)
    BY <1>2, CoreMaps
  <2> QED BY <1>1, <2>1, QLiveAppend, Zenon
<1> QED BY <1>3, <1>4, AcctKeep

\* A fetch moves the instruction from the input buffer to the queue.
LEMMA AcctFetchReal == ASSUME Core, PathInv, Acct, FetchReal PROVE Acct'
<1>1. PICK t \in TransType : ifq' = Append(ifq, t) /\ t.id = input.id /\ t.wp = input.wp
  BY RealFacts, Zenon
<1>2. input # None /\ input' = None /\ UNCHANGED <<slot, ongoing, done, loop>>
  BY Zenon DEF FetchReal, Fetch0Frame
<1>3. ~t.wp
  BY <1>1, <1>2, Zenon DEF PathInv
<1>4. ifq \in Seq(TransType)
  BY CoreMaps
<1>5. /\ Cardinality(QLive(Append(ifq, t))) = Cardinality(QLive(ifq)) + 1
      /\ QLiveIds(Append(ifq, t)) = QLiveIds(ifq) \cup {t.id}
  BY <1>3, <1>4, QLiveAppend, Zenon
<1>6. Fed(input) = 1 /\ Fed(input') = 0 /\ FedIds(input) = {t.id} /\ FedIds(input') = {}
  BY <1>1, <1>2, Zenon DEF Fed, FedIds
<1>7. Cardinality(Live(slot)) \in Nat /\ Cardinality(QLive(ifq)) \in Nat
  BY <1>4, LiveFinite, QLiveFinite
<1>8. Cardinality(Live(slot)) + Cardinality(QLive(Append(ifq, t))) + Fed(input')
      = Cardinality(Live(slot)) + Cardinality(QLive(ifq)) + Fed(input)
  BY ONLY <1>5, <1>6, <1>7
<1>9. LiveIds(slot) \cup QLiveIds(Append(ifq, t)) \cup FedIds(input')
      = LiveIds(slot) \cup QLiveIds(ifq) \cup FedIds(input)
  BY <1>5, <1>6, Zenon
<1> QED BY <1>1, <1>2, <1>8, <1>9, AcctKeep

\* feed_inst brings the next instruction in.
LEMMA AcctFeed == ASSUME Core, Acct, feed_inst PROVE Acct'
<1> DEFINE f == loop.fed
<1>1. /\ UNCHANGED <<slot, ifq, done>> /\ input = None /\ ongoing' = ongoing + 1
  BY DEF feed_inst, inst_avail
<1>2. input' # None /\ input'.id = f + 1 /\ loop'.fed = f + 1
  BY FedFacts
<1>3. f \in Nat /\ ongoing \in Int /\ Len(done) \in Nat
  BY CoreBase, SizeFacts DEF Loops, BaseOK
<1>4. Fed(input) = 0 /\ Fed(input') = 1 /\ FedIds(input) = {} /\ FedIds(input') = {f + 1}
  BY <1>1, <1>2, Zenon DEF Fed, FedIds
<1>5. Cardinality(Live(slot)) \in Nat /\ Cardinality(QLive(ifq)) \in Nat
  BY CoreMaps, LiveFinite, QLiveFinite
<1>6. /\ ongoing = Cardinality(Live(slot)) + Cardinality(QLive(ifq)) + Fed(input)
      /\ LiveIds(slot) \cup QLiveIds(ifq) \cup FedIds(input) \cup Range(done) = 1..f
      /\ ongoing + Len(done) = f
  BY DEF Acct
<1> HIDE DEF f
<1>7. ongoing' = Cardinality(Live(slot)) + Cardinality(QLive(ifq)) + Fed(input')
  BY ONLY <1>1, <1>4, <1>5, <1>6
<1>8. (1..f) \cup {f + 1} = 1..(f + 1)
  BY ONLY <1>3
<1>9. LiveIds(slot) \cup QLiveIds(ifq) \cup FedIds(input') \cup Range(done) = 1..(f + 1)
  BY <1>4, <1>6, <1>8, Zenon
<1>10. ongoing' + Len(done) = f + 1
  BY ONLY <1>1, <1>3, <1>6
<1> QED BY <1>1, <1>2, <1>7, <1>9, <1>10, Zenon DEF Acct

\* Nothing is fed yet.
LEMMA InitAcct == Init => Acct
<1> SUFFICES ASSUME Init PROVE Acct
  OBVIOUS
<1>1. /\ \A s \in Slots : slot[s] = None
      /\ ifq = <<>> /\ input = None /\ ongoing = 0 /\ loop.fed = 0 /\ done = <<>>
  BY DEF Init
<1>2. Live(slot) = {} /\ LiveIds(slot) = {}
  BY <1>1, Zenon DEF Live, LiveIds
<1>3. QLive(<<>>) = {} /\ QLiveIds(<<>>) = {}
  BY DEF QLive, QLiveIds
<1>4. Fed(input) = 0 /\ FedIds(input) = {} /\ Cardinality({}) = 0
  BY <1>1, FS_EmptySet DEF Fed, FedIds
<1>5. Range(<<>>) = {} /\ Len(<<>>) = 0 /\ 1..0 = {}
  BY DEF Range
<1>6. Cardinality(Live(slot)) = 0 /\ Cardinality(QLive(ifq)) = 0 /\ QLiveIds(ifq) = {}
  BY <1>1, <1>2, <1>3, <1>4
<1>7. ongoing = Cardinality(Live(slot)) + Cardinality(QLive(ifq)) + Fed(input)
  BY ONLY <1>1, <1>4, <1>6
<1>8. ongoing + Len(done) = loop.fed
  BY ONLY <1>1, <1>5
<1>9. LiveIds(slot) \cup QLiveIds(ifq) \cup FedIds(input) \cup Range(done) = 1..loop.fed
  BY ONLY <1>1, <1>2, <1>4, <1>5, <1>6
<1> QED BY <1>7, <1>8, <1>9, Zenon DEF Acct

\* The accounting is kept by every step.
LEMMA AcctStep == ASSUME Core, PathInv, Acct, [Next]_vars PROVE Acct'
<1>1. CASE do_mul_ext
  BY <1>1, AcctMext DEF do_mul_ext
<1>2. CASE do_div_ext
  BY <1>2, AcctMext DEF do_div_ext
<1>3. CASE do_fetch_0
  BY <1>3, AcctQuiet, AcctFetchWrongPath, AcctFetchReal DEF do_fetch_0
<1>4. CASE Handlers
  BY <1>1, <1>2, <1>4, AcctQuiet, AcctWriteback, AcctMemory, AcctExecute, AcctDecode,
     AcctFetch1 DEF Handlers
<1>5. CASE Dport \/ Iport
  BY <1>5, AcctQuiet, AcctDportResp, AcctIportResp DEF Dport, Iport
<1> QED BY <1>3, <1>4, <1>5, AcctQuiet, AcctFeed DEF Next

----------------------------------------------------------------------------
(* The results. *)

\* The inductive invariant of the core: the types and the asserts, the shape
\* of the front end, and the accounting.  Each layer is kept with the help of
\* the ones before it.
PipeInv == Core /\ PathInv /\ Acct

\* The invariant holds whatever the ports answer and whatever is fed.
THEOREM PipeInvariance == Spec => []PipeInv
<1>1. Init => PipeInv
  BY InitCore, InitPath, InitAcct DEF PipeInv
<1>2. PipeInv /\ [Next]_vars => PipeInv'
  BY CoreStep, PathStep, AcctStep DEF PipeInv
<1> QED BY <1>1, <1>2, PTL DEF Spec

\* The accounting bounds ongoing_insts_.
LEMMA InvTypeOK == ASSUME PipeInv PROVE TypeOK
<1>1. BaseOK /\ Core /\ Acct
  BY CoreBase DEF PipeInv
<1> DEFINE a == Cardinality(Live(slot))
           b == Cardinality(QLive(ifq))
           c == Fed(input)
           d == Len(done)
           f == loop.fed
<1>2. a \in Nat /\ b \in Nat /\ c \in Nat /\ d \in Nat /\ f \in 0..MaxInsts
  BY <1>1, CoreMaps, CoreBase, LiveFinite, QLiveFinite DEF BaseOK, Fed, Loops
<1>3. ongoing = a + b + c /\ ongoing + d = f
  BY <1>1 DEF Acct
<1>4. MaxInsts \in Nat
  BY SizeFacts
<1> HIDE DEF a, b, c, d, f
<1>5. ongoing \in 0..MaxInsts
  BY ONLY <1>2, <1>3, <1>4
<1>6. reg_ready \in [Regs -> Times] /\ reg_ready[0] = 0
  BY <1>1 DEF BaseOK, Scoreboards
<1> QED BY <1>1, <1>5, <1>6 DEF TypeOK, BaseOK

\* Every variable keeps its type: the fetch queue never exceeds its capacity,
\* and ongoing_insts_ never goes below zero or beyond what was fed.
THEOREM PipelineTypeOK == Spec => []TypeOK
<1>1. PipeInv => TypeOK
  BY InvTypeOK
<1> QED BY <1>1, PipeInvariance, PTL

\* The asserts, as the specification states them.
LEMMA InvAsserts == ASSUME PipeInv PROVE HandlerAsserts
<1>1. Asserts
  BY CoreBase DEF PipeInv
<1>2. LsuRespSafe
  BY <1>1 DEF Asserts
<1>3. ASSUME NEW s \in {"Execute", "Mul", "Div"}, phase = s, Runs(s)
      PROVE  Due(due["Decode"])
  <2>1. slot["Decode"] # None
    BY <1>3 DEF Runs, prev_stage_valid
  <2> QED BY <1>1, <1>3, <2>1 DEF Asserts, DecodePending, PastDecode, Due
<1> QED BY <1>2, <1>3 DEF HandlerAsserts, DecodeDue

\* The asserts of handle_lsu_resp, do_execute, do_mul_ext and do_div_ext never
\* fail: a response always finds its instruction in the Execute slot and the
\* Memory slot free, and what leaves Decode was due.
THEOREM HandlerAssertsHolds == Spec => []HandlerAsserts
<1>1. PipeInv => HandlerAsserts
  BY InvAsserts
<1> QED BY <1>1, PipeInvariance, PTL

\* resp_is_orphan and the waiting queue entries stay in step with the fetches
\* in flight, through every flush, early redirect and late response.
THEOREM FetchFifoAlignedHolds == Spec => []FetchFifoAligned
<1>1. PipeInv => FetchFifoAligned
  BY DEF PipeInv, Core
<1> QED BY <1>1, PipeInvariance, PTL

\* The wrong path is exactly what is younger than the one unresolved
\* mispredicted branch: its flush discards no trace instruction.
THEOREM WrongPathShapeHolds == Spec => []WrongPathShape
<1>1. PipeInv => WrongPathShape
  BY ShapeMeaning DEF PipeInv
<1> QED BY <1>1, PipeInvariance, PTL

\* Every instruction fed is in exactly one place of the core or committed
\* exactly once, and ongoing_insts_ counts those in the core.
THEOREM NoInstLostHolds == Spec => []NoInstLost
<1>1. PipeInv => NoInstLost
  BY AcctMeaning DEF PipeInv
<1> QED BY <1>1, PipeInvariance, PTL

\* The handler of Decode never meets a wrong-path placeholder: the branch of
\* do_decode that drops one is dead code, because the branch ahead of a
\* placeholder leaves Decode only with the flush that empties the Fetch slot.
THEOREM DecodeNeverMeetsPlaceholder ==
    Spec => [](phase = "Decode" /\ Runs("Decode") => ~slot["Fetch"].wp)
<1>1. PipeInv => (phase = "Decode" /\ Runs("Decode") => ~slot["Fetch"].wp)
  <2> SUFFICES ASSUME PipeInv, phase = "Decode", Runs("Decode") PROVE ~slot["Fetch"].wp
    OBVIOUS
  <2>1. slot["Decode"] = None /\ slot["Fetch"] # None
    BY DEF Runs, prev_stage_valid, Slots
  <2> QED BY <2>1, NoPlaceholderDecoded DEF PipeInv
<1> QED BY <1>1, PipeInvariance, PTL

\* The flush of a mispredicted branch un-counts nothing: what it discards are
\* placeholders, so the loop in do_execute that lowers ongoing_insts_ for
\* flushed trace instructions never finds one.
THEOREM FlushDiscardsNoInst ==
    Spec => [](slot["Decode"] # None /\ slot["Decode"].mis => FlushedInsts = 0)
<1>1. PipeInv => (slot["Decode"] # None /\ slot["Decode"].mis => FlushedInsts = 0)
  BY FlushedNone DEF PipeInv
<1> QED BY <1>1, PipeInvariance, PTL

----------------------------------------------------------------------------
(* The core does not sleep over a stage that can run. *)

\* The stages past Decode.
Late == {"WriteBack", "Memory", "Div", "Mul", "Execute"}

\* The slot a stage takes its instruction from.
Feeder == [WriteBack |-> "Memory", Memory |-> "Execute", Div |-> "Decode",
           Mul |-> "Decode", Execute |-> "Decode"]

\* The handler of s would take the instruction waiting for it.
Ready(s) ==
    /\ s \in Slots => slot[s] = None
    /\ CASE s = "WriteBack" -> slot["Memory"] # None
         [] s = "Memory" -> slot["Execute"] # None /\ ~IsMem(slot["Execute"])
         [] s = "Mul" -> slot["Decode"] # None /\ slot["Decode"].kind = "MUL"
         [] s = "Div" -> slot["Decode"] # None /\ slot["Decode"].kind = "DIV"
         [] s = "Execute" -> slot["Decode"] # None /\ ~IsMext(slot["Decode"])

\* The handlers of the update that run after that of s.
Passed(s) ==
    {"Decode", "Fetch", "fetch0", "sched"}
    \cup (IF s = "Execute" THEN {} ELSE {"Execute"})
    \cup (IF s \in {"Execute", "Mul"} THEN {} ELSE {"Mul"})
    \cup (IF s \in {"Execute", "Mul", "Div"} THEN {} ELSE {"Div"})
    \cup (IF s = "WriteBack" THEN {"Memory"} ELSE {})

\* The core wakes up no later than any stage's deadline, and next tick at the
\* latest for a stage that is due.
WakesInTime ==
    \A s \in Late : /\ due[s] > 0 => calc <= due[s]
                    /\ Ready(s) /\ due[s] = 0 => calc <= 1

\* During the update calc_nxtupd_ is the current tick.
UpdateNow == phase \in Stages \cup {"fetch0", "sched"} => calc = 0

\* A handler that has run leaves nothing behind: what is ready for it now came
\* later, and whoever brought it set a deadline for the next tick.
NothingLeft ==
    \A s \in Late :
        phase \in Passed(s) /\ Ready(s) => due[s] # 0 \/ due[Feeder[s]] = 1

WakeInv == WakesInTime /\ UpdateNow /\ NothingLeft

\* Min is a lower bound.
LEMMA MinBound ==
    ASSUME NEW S \in SUBSET Nat, NEW x \in S
    PROVE  Min(S) \in S /\ Min(S) <= x
BY NatMin DEF Min

\* Ready, stage by stage.
LEMMA ReadyCases ==
    /\ Ready("WriteBack") <=> slot["Memory"] # None
    /\ Ready("Memory") <=> slot["Memory"] = None /\ slot["Execute"] # None
                           /\ ~IsMem(slot["Execute"])
    /\ Ready("Mul") <=> slot["Mul"] = None /\ slot["Decode"] # None
                        /\ slot["Decode"].kind = "MUL"
    /\ Ready("Div") <=> slot["Div"] = None /\ slot["Decode"] # None
                        /\ slot["Decode"].kind = "DIV"
    /\ Ready("Execute") <=> slot["Execute"] = None /\ slot["Decode"] # None
                            /\ ~IsMext(slot["Decode"])
BY DEF Ready, Slots

\* The deadlines, in the form the steps below cite.
LEMMA WakeTypes ==
    ASSUME Core
    PROVE  /\ due \in [Stages -> Times] /\ calc \in Times /\ Late \subseteq Stages
           /\ Times \subseteq Nat /\ \A s \in Stages : due[s] \in Times
BY CoreBase, InfTimeAssumption DEF Late, Stages, Slots, Times

\* The phases of the update.
Updating == Stages \cup {"fetch0", "sched"}

\* What runs after a handler is a phase of the update.
LEMMA PassedPhases == \A s \in Late : Passed(s) \subseteq Updating
BY DEF Late, Passed, Updating, Stages, Slots

\* A callback that wakes the core for this tick or the next.
LEMMA WakeSoon ==
    ASSUME due' \in [Stages -> Times], calc' \in {0, 1}, phase' \notin Updating
    PROVE  WakeInv'
<1>1. \A s \in Late : due'[s] \in Nat
  BY InfTimeAssumption DEF Late, Stages, Slots, Times
<1>2. WakesInTime'
  BY <1>1 DEF WakesInTime
<1>3. UpdateNow' /\ NothingLeft'
  BY PassedPhases DEF UpdateNow, NothingLeft, Updating
<1> QED BY <1>2, <1>3 DEF WakeInv

\* A step between the updates that leaves slots and deadlines alone.
LEMMA WakeFrame ==
    ASSUME Core, WakeInv, UNCHANGED <<slot, due, calc>>, phase' \notin Updating
    PROVE  WakeInv'
<1>1. WakesInTime'
  BY DEF WakeInv, WakesInTime, Ready
<1>2. UpdateNow' /\ NothingLeft'
  BY PassedPhases DEF UpdateNow, NothingLeft, Updating
<1> QED BY <1>1, <1>2 DEF WakeInv

\* A step of the update: the core is awake, so only what a handler leaves
\* behind matters.
LEMMA WakeUpdate ==
    ASSUME due' \in [Stages -> Times], calc' = 0, NothingLeft'
    PROVE  WakeInv'
<1>1. \A s \in Late : due'[s] \in Nat
  BY InfTimeAssumption DEF Late, Stages, Slots, Times
<1>2. WakesInTime'
  BY <1>1 DEF WakesInTime
<1> QED BY <1>2 DEF WakeInv, UpdateNow

\* Callbacks from the ports.
LEMMA WakePorts == ASSUME Core, WakeInv, Dport \/ Iport PROVE WakeInv'
<1>t. due' \in [Stages -> Times] /\ calc \in Times
  BY BaseDport, BaseIport, WakeTypes DEF BaseOK
<1>m. MinOf(calc, 1) \in {0, 1}
  BY <1>t, InfTimeAssumption DEF MinOf, Times
<1>1. CASE DportResp
  <2>1. calc' = MinOf(calc, 1) /\ phase' \notin Updating
    BY <1>1 DEF DportResp, Updating, Stages, Slots
  <2> QED BY <1>t, <1>m, <2>1, WakeSoon
<1>2. CASE DportAck
  <2>1. phase' \notin Updating
    BY <1>2 DEF DportAck, Updating, Stages, Slots
  <2>2. CASE UNCHANGED <<due, calc>>
    BY <1>2, <2>1, <2>2, WakeFrame DEF DportAck
  <2>3. CASE calc' = 0
    BY <1>t, <2>1, <2>3, WakeSoon
  <2> QED BY <1>2, <2>2, <2>3 DEF DportAck
<1>3. CASE DportQuiet \/ DportBusy \/ IportQuiet \/ IportBusy
  <2>1. UNCHANGED <<slot, due, calc>> /\ phase' \notin Updating
    BY <1>3 DEF DportQuiet, DportBusy, IportQuiet, IportBusy, core, Updating, Stages, Slots
  <2> QED BY <2>1, WakeFrame
<1>4. CASE IportResp
  <2>1. phase' \notin Updating /\ UNCHANGED slot
    BY <1>4 DEF IportResp, Updating, Stages, Slots
  <2>2. UNCHANGED <<due, calc>> \/ calc' = MinOf(calc, 1)
    BY <1>4, Zenon DEF IportResp
  <2> QED BY <1>t, <1>m, <2>1, <2>2, WakeFrame, WakeSoon
<1>5. CASE IportAck
  <2>1. phase' \notin Updating /\ calc' = 0
    BY <1>5 DEF IportAck, Updating, Stages, Slots
  <2> QED BY <1>t, <2>1, WakeSoon
<1> QED BY <1>1, <1>2, <1>3, <1>4, <1>5 DEF Dport, Iport

\* The main loop, and the decision to run the update.
LEMMA WakeLoop ==
    ASSUME Core, WakeInv,
           Begin \/ feed_inst \/ set_draining \/ NoFeed \/ Finished \/ UNCHANGED vars
    PROVE  WakeInv'
<1>1. CASE Begin /\ Due(calc)
  <2>1. UNCHANGED <<slot, due, calc>> /\ phase' = "WriteBack" /\ calc' = 0
    BY <1>1 DEF Begin, core, Due
  <2>2. \A s \in Late : "WriteBack" \notin Passed(s)
    BY DEF Late, Passed
  <2>3. NothingLeft'
    BY <2>1, <2>2 DEF NothingLeft
  <2> QED BY <2>1, <2>3, WakeTypes, WakeUpdate
<1>2. CASE (Begin /\ ~Due(calc)) \/ feed_inst \/ set_draining \/ NoFeed \/ Finished
  <2>1. UNCHANGED <<slot, due, calc>> /\ phase' \notin Updating
    BY <1>2 DEF Begin, feed_inst, set_draining, NoFeed, Finished, vars, core,
               Updating, Stages, Slots
  <2> QED BY <2>1, WakeFrame
<1>3. CASE UNCHANGED vars
  BY <1>3 DEF vars, core, WakeInv, WakesInTime, UpdateNow, NothingLeft, Ready
<1> QED BY <1>1, <1>2, <1>3

\* Time passes: a deadline and calc_nxtupd_ come nearer together.
LEMMA WakeTick == ASSUME Core, WakeInv, Tick PROVE WakeInv'
<1>1. UNCHANGED slot /\ calc' = Elapse(calc) /\ phase' \notin Updating
  BY DEF Tick, Updating, Stages, Slots
<1>2. ASSUME NEW s \in Late PROVE due'[s] = Elapse(due[s])
  BY WakeTypes DEF Tick
<1>3. \A s \in Late : Ready(s)' <=> Ready(s)
  BY <1>1 DEF Ready
<1>4. \A a, b \in Times : /\ (a > 0 => b <= a) => (Elapse(a) > 0 => Elapse(b) <= Elapse(a))
                          /\ Elapse(a) = 0 => a \in {0, 1}
                          /\ b <= 1 => Elapse(b) <= 1
  BY InfTimeAssumption, SizeFacts DEF Times, Elapse
<1>5. ASSUME NEW s \in Late
      PROVE  /\ due'[s] > 0 => calc' <= due'[s]
             /\ Ready(s)' /\ due'[s] = 0 => calc' <= 1
  <2>1. due[s] \in Times /\ calc \in Times
    BY WakeTypes
  <2>2. (due[s] > 0 => calc <= due[s]) /\ (Ready(s) /\ due[s] = 0 => calc <= 1)
    BY DEF WakeInv, WakesInTime
  <2>3. due'[s] > 0 => calc' <= due'[s]
    BY <1>1, <1>2, <1>4, <2>1, <2>2
  <2>4. due[s] \in {0, 1} /\ Ready(s) => calc <= 1
    BY <2>2
  <2>5. Ready(s)' /\ due'[s] = 0 => calc' <= 1
    BY <1>1, <1>2, <1>3, <1>4, <2>1, <2>4
  <2> QED BY <2>3, <2>5
<1>6. WakesInTime'
  BY <1>5 DEF WakesInTime
<1>7. UpdateNow' /\ NothingLeft'
  BY <1>1, PassedPhases DEF UpdateNow, NothingLeft, Updating
<1> QED BY <1>6, <1>7 DEF WakeInv

\* calc_sched: the earliest deadline ahead.
LEMMA WakeSched == ASSUME Core, WakeInv, calc_sched PROVE WakeInv'
<1> DEFINE busy == fs.wrong_path \/ fs.early > 0 \/ fs.resume > 0
           S == {InfTime} \cup FutureDeadlines \cup (IF busy THEN {1} ELSE {})
<1>1. calc' = Min(S) /\ UNCHANGED <<slot, due>> /\ phase = "sched" /\ phase' = "feed"
  BY DEF calc_sched
<1>2. S \in SUBSET Nat
  BY WakeTypes, InfTimeAssumption DEF FutureDeadlines
<1>3. ASSUME NEW s \in Stages, due[s] # 0 PROVE due[s] \in S
  BY <1>3 DEF FutureDeadlines
<1> HIDE DEF S
<1>4. ASSUME NEW s \in Stages, due[s] # 0 PROVE calc' <= due[s]
  BY <1>1, <1>2, <1>3, <1>4, MinBound
<1>5. ASSUME NEW s \in Late, Ready(s), due[s] = 0 PROVE calc' <= 1
  <2>1. "sched" \in Passed(s) /\ Feeder[s] \in Stages
    BY DEF Passed, Feeder, Late, Stages, Slots
  <2>2. due[Feeder[s]] = 1
    BY <1>1, <1>5, <2>1 DEF WakeInv, NothingLeft
  <2> QED BY <1>4, <2>1, <2>2
<1>6. WakesInTime'
  <2>1. ASSUME NEW s \in Late
        PROVE  /\ due'[s] > 0 => calc' <= due'[s]
               /\ Ready(s)' /\ due'[s] = 0 => calc' <= 1
    <3>1. s \in Stages /\ due[s] \in Nat /\ due'[s] = due[s] /\ (Ready(s)' <=> Ready(s))
      BY <1>1, WakeTypes DEF Ready
    <3> QED BY <1>4, <1>5, <3>1
  <2> QED BY <2>1 DEF WakesInTime
<1>7. UpdateNow' /\ NothingLeft'
  BY <1>1, PassedPhases DEF UpdateNow, NothingLeft, Updating, Stages, Slots
<1> QED BY <1>6, <1>7 DEF WakeInv

\* do_fetch_0 changes neither slots nor deadlines.
LEMMA WakeFetch0 == ASSUME Core, WakeInv, do_fetch_0 PROVE WakeInv'
<1>1. /\ UNCHANGED <<slot, due, calc>> /\ phase \in {"fetch0", "fed"}
      /\ phase' = AfterFetch0[phase]
  BY DEF do_fetch_0, FetchEarlyRedirect, FetchWrongPath, FetchReal, FetchNothing,
         Fetch0Frame
<1>2. CASE phase = "fed"
  <2>1. phase' \notin Updating
    BY <1>1, <1>2 DEF AfterFetch0, Updating, Stages, Slots
  <2> QED BY <1>1, <2>1, WakeFrame
<1>3. CASE phase = "fetch0"
  <2>1. calc' = 0
    BY <1>1, <1>3 DEF WakeInv, UpdateNow
  <2>2. \A s \in Late : phase \in Passed(s)
    BY <1>3 DEF Passed
  <2>3. NothingLeft'
    BY <1>1, <2>2 DEF WakeInv, NothingLeft, Ready
  <2> QED BY <1>1, <2>1, <2>3, WakeTypes, WakeUpdate
<1> QED BY <1>1, <1>2, <1>3

\* A handler that is not due, or has nothing to take, or no room for it.
LEMMA WakeSkip == ASSUME Core, WakeInv, NEW p \in Stages, Skip(p) PROVE WakeInv'
<1>1. /\ UNCHANGED <<slot, due, calc>> /\ phase = p /\ ~Runs(p)
      /\ phase' = StageBelow[p]
  BY DEF Skip, core
<1>2. calc' = 0
  BY <1>1 DEF WakeInv, UpdateNow
<1>3. ASSUME NEW s \in Late, phase' \in Passed(s), Ready(s)
      PROVE  due[s] # 0 \/ due[Feeder[s]] = 1
  <2>1. CASE s = p
    <3>1. (s \in Slots => slot[s] = None) /\ prev_stage_valid(s)
      BY <1>3, ReadyCases DEF prev_stage_valid, Slots, Late
    <3> QED BY <1>1, <2>1, <3>1 DEF Runs, Due
  <2>2. CASE s # p
    <3>1. phase \in Passed(s)
      BY <1>1, <1>3, <2>2 DEF StageBelow, Passed, Late, Stages, Slots
    <3> QED BY <1>3, <3>1 DEF WakeInv, NothingLeft
  <2> QED BY <2>1, <2>2
<1>4. NothingLeft'
  BY <1>1, <1>3 DEF NothingLeft, Ready
<1> QED BY <1>1, <1>2, <1>4, WakeTypes, WakeUpdate

\* NothingLeft, stage by stage, before and after a step.
LEMMA LeftCases ==
    /\ NothingLeft =>
         /\ phase \in Passed("WriteBack") /\ Ready("WriteBack")
              => due["WriteBack"] # 0 \/ due["Memory"] = 1
         /\ phase \in Passed("Memory") /\ Ready("Memory")
              => due["Memory"] # 0 \/ due["Execute"] = 1
         /\ \A u \in {"Mul", "Div", "Execute"} :
              phase \in Passed(u) /\ Ready(u) => due[u] # 0 \/ due["Decode"] = 1
    /\ /\ Ready("WriteBack")' /\ phase' \in Passed("WriteBack")
            => due'["WriteBack"] # 0 \/ due'["Memory"] = 1
       /\ Ready("Memory")' /\ phase' \in Passed("Memory")
            => due'["Memory"] # 0 \/ due'["Execute"] = 1
       /\ \A u \in {"Mul", "Div", "Execute"} :
            Ready(u)' /\ phase' \in Passed(u) => due'[u] # 0 \/ due'["Decode"] = 1
       => NothingLeft'
BY DEF NothingLeft, Late, Feeder

\* do_writeback takes what is in the Memory slot first.
LEMMA WakeWriteback == ASSUME Core, WakeInv, do_writeback PROVE WakeInv'
<1>1. phase = "WriteBack" /\ phase' = "Memory" /\ UNCHANGED calc
  BY DEF do_writeback, Handler, StageBelow
<1>2. due' \in [Stages -> Times]
  BY BaseWriteback DEF BaseOK
<1>3. calc' = 0
  BY <1>1 DEF WakeInv, UpdateNow, Stages
<1>4. slot'["Memory"] = None
  <2>1. CASE slot["Memory"] # None
    <3>1. WbSource = "Memory"
      BY <2>1 DEF WbSource
    <3> QED BY <3>1, CoreBase DEF do_writeback, Slots
  <2>2. CASE slot["Memory"] = None
    <3>1. CASE WbSource = "none"
      BY <2>2, <3>1 DEF do_writeback
    <3>2. CASE WbSource # "none"
      BY <2>2, <3>2, CoreBase DEF do_writeback, Slots
    <3> QED BY <3>1, <3>2
  <2> QED BY <2>1, <2>2
<1>5. ~Ready("WriteBack")'
  BY <1>4 DEF Ready
<1>6. NothingLeft'
  BY <1>1, <1>5 DEF NothingLeft, Passed, Late
<1> QED BY <1>2, <1>3, <1>6, WakeUpdate

\* do_memory sets a deadline whatever it finds.
LEMMA WakeMemory == ASSUME Core, WakeInv, do_memory PROVE WakeInv'
<1>1. phase = "Memory" /\ phase' = "Div" /\ UNCHANGED calc /\ slot["Memory"] = None
  BY DEF do_memory, Handler, StageBelow, Runs, Slots
<1>2. due' \in [Stages -> Times]
  BY BaseMemory DEF BaseOK
<1>3. calc' = 0
  BY <1>1 DEF WakeInv, UpdateNow, Stages, Slots
<1>4. due'["Memory"] \in {1, InfTime} /\ (slot'["Memory"] # None => due'["Memory"] = 1)
  BY <1>1, CoreBase DEF do_memory, send_lsu_req, Stages, Slots
<1>5. due'["Memory"] # 0
  BY <1>4, InfTimeAssumption
<1>6. Ready("WriteBack")' => due'["Memory"] = 1
  BY <1>4 DEF Ready
<1>7. NothingLeft'
  BY <1>1, <1>5, <1>6 DEF NothingLeft, Passed, Late, Feeder
<1> QED BY <1>2, <1>3, <1>7, WakeUpdate

\* do_mul_ext and do_div_ext take what is of their kind.
LEMMA WakeMext ==
    ASSUME Core, WakeInv, NEW u \in {"Mul", "Div"}, NEW kind, NEW lat \in Times,
           NEW ready \in {"mul", "div"}, DoMext(u, kind, lat, ready),
           lat > 0, kind = (IF u = "Mul" THEN "MUL" ELSE "DIV")
    PROVE  WakeInv'
<1>b. /\ due \in [Stages -> Times] /\ slot \in [Slots -> TransType \cup {None}]
      /\ {"Memory", "WriteBack", "Execute", "Decode", "Mul", "Div"} \subseteq Stages
  BY CoreBase DEF Stages, Slots
<1>1. phase = u /\ phase' = StageBelow[u]
  BY DEF DoMext, Handler
<1>2. due' \in [Stages -> Times]
  BY BaseMext DEF BaseOK
<1>c. calc = 0
  BY <1>1 DEF WakeInv, UpdateNow, Stages, Slots
<1>3. calc' = 0
  BY <1>c DEF DoMext, MinOf, Times
<1>4. CASE slot["Decode"].kind # kind
  <2>1. UNCHANGED <<slot, due>>
    BY <1>4 DEF DoMext
  <2>2. ~Ready(u)
    BY <1>4, ReadyCases
  <2>3. ASSUME NEW s \in Late, phase' \in Passed(s), s # u PROVE phase \in Passed(s)
    BY <1>1, <2>3 DEF StageBelow, Passed, Late
  <2>4. NothingLeft'
    BY <2>1, <2>2, <2>3 DEF WakeInv, NothingLeft, Ready
  <2> QED BY <1>2, <1>3, <2>4, WakeUpdate
<1>5. CASE slot["Decode"].kind = kind
  <2>1. slot' = [slot EXCEPT ![u] = slot["Decode"], !["Decode"] = None]
    BY <1>5 DEF DoMext
  <2>2. /\ slot'["Decode"] = None /\ slot'["Memory"] = slot["Memory"]
        /\ slot'["Execute"] = slot["Execute"]
    BY <1>b, <2>1 DEF Slots
  <2>3. /\ due'["WriteBack"] = lat /\ due'["Memory"] = due["Memory"]
        /\ due'["Execute"] = due["Execute"]
    BY <1>b, <1>5 DEF DoMext
  <2>4. phase \in Passed("Memory")
    BY <1>1 DEF Passed
  <2>5. Ready("Memory")' <=> Ready("Memory")
    BY <2>2 DEF Ready, Slots
  <2>6. Ready("Memory")' => due'["Memory"] # 0 \/ due'["Execute"] = 1
    BY <2>3, <2>4, <2>5, LeftCases DEF WakeInv
  <2>7. \A s \in {"Mul", "Div", "Execute"} : ~Ready(s)'
    BY <2>2 DEF Ready
  <2>8. due'["WriteBack"] # 0
    BY <2>3 DEF Times
  <2>9. NothingLeft'
    BY <2>6, <2>7, <2>8, LeftCases
  <2> QED BY <1>2, <1>3, <2>9, WakeUpdate
<1> QED BY <1>4, <1>5

\* do_execute hands its instruction to Memory with a deadline.
LEMMA WakeExecute == ASSUME Core, WakeInv, do_execute PROVE WakeInv'
<1>b. /\ due \in [Stages -> Times] /\ slot \in [Slots -> TransType \cup {None}]
      /\ {"Memory", "WriteBack", "Execute", "Decode", "Mul", "Div"} \subseteq Stages
  BY CoreBase DEF Stages, Slots
<1>1. phase = "Execute" /\ phase' = "Decode" /\ UNCHANGED calc
  BY DEF do_execute, Handler, StageBelow
<1>2. due' \in [Stages -> Times]
  BY BaseExecute DEF BaseOK
<1>3. calc' = 0
  BY <1>1 DEF WakeInv, UpdateNow, Stages, Slots
<1>4. CASE IsMext(slot["Decode"])
  <2>1. UNCHANGED <<slot, due>>
    BY <1>4 DEF do_execute
  <2>2. ~Ready("Execute")
    BY <1>4, ReadyCases
  <2>3. ASSUME NEW s \in Late, s # "Execute" PROVE phase \in Passed(s)
    BY <1>1, <2>3 DEF Passed, Late
  <2>4. NothingLeft'
    BY <2>1, <2>2, <2>3 DEF WakeInv, NothingLeft, Ready
  <2> QED BY <1>2, <1>3, <2>4, WakeUpdate
<1>5. CASE ~IsMext(slot["Decode"])
  <2>1. slot'["Decode"] = None /\ slot'["Memory"] = slot["Memory"]
    BY <1>b, <1>5 DEF do_execute, Slots
  <2>2. /\ due'["Execute"] = 1 /\ due'["Memory"] = due["Memory"]
        /\ due'["WriteBack"] = due["WriteBack"]
    BY <1>b, <1>5 DEF do_execute
  <2>3. phase \in Passed("WriteBack") /\ (Ready("WriteBack")' <=> Ready("WriteBack"))
    BY <1>1, <2>1 DEF Passed, Ready, Slots
  <2>4. Ready("WriteBack")' => due'["WriteBack"] # 0 \/ due'["Memory"] = 1
    BY <2>2, <2>3, LeftCases DEF WakeInv
  <2>5. \A s \in {"Mul", "Div", "Execute"} : ~Ready(s)'
    BY <2>1 DEF Ready
  <2>6. NothingLeft'
    BY <2>2, <2>4, <2>5, LeftCases
  <2> QED BY <1>2, <1>3, <2>6, WakeUpdate
<1> QED BY <1>4, <1>5

\* do_decode hands its instruction on with a deadline.
LEMMA WakeDecode == ASSUME Core, WakeInv, do_decode PROVE WakeInv'
<1>b. /\ due \in [Stages -> Times] /\ slot \in [Slots -> TransType \cup {None}]
      /\ {"Memory", "WriteBack", "Execute", "Decode", "Mul", "Div"} \subseteq Stages
  BY CoreBase DEF Stages, Slots
<1>1. phase = "Decode" /\ phase' = "Fetch" /\ UNCHANGED calc
  BY DEF do_decode, Handler, StageBelow
<1>2. due' \in [Stages -> Times]
  BY DecodeCases
<1>3. calc' = 0
  BY <1>1 DEF WakeInv, UpdateNow, Stages, Slots
<1>4. /\ \A s \in {"Memory", "Execute"} : slot'[s] = slot[s]
      /\ slot'["Decode"] = None \/ due'["Decode"] = 1
  BY <1>b, DecodeCases DEF Slots
<1>5. \A s \in {"WriteBack", "Memory", "Execute"} : due'[s] = due[s]
  BY <1>b DEF do_decode
<1>6. /\ phase \in Passed("WriteBack") /\ (Ready("WriteBack")' <=> Ready("WriteBack"))
      /\ phase \in Passed("Memory") /\ (Ready("Memory")' <=> Ready("Memory"))
  BY <1>1, <1>4 DEF Passed, Ready, Slots
<1>7. /\ Ready("WriteBack")' => due'["WriteBack"] # 0 \/ due'["Memory"] = 1
      /\ Ready("Memory")' => due'["Memory"] # 0 \/ due'["Execute"] = 1
  BY <1>5, <1>6, LeftCases DEF WakeInv
<1>8. \A s \in {"Mul", "Div", "Execute"} : Ready(s)' => due'["Decode"] = 1
  BY <1>4 DEF Ready
<1>9. NothingLeft'
  BY <1>7, <1>8, LeftCases
<1> QED BY <1>2, <1>3, <1>9, WakeUpdate

\* do_fetch_1 touches no stage past Decode.
LEMMA WakeFetch1 == ASSUME Core, WakeInv, do_fetch_1 PROVE WakeInv'
<1>b. /\ due \in [Stages -> Times] /\ slot \in [Slots -> TransType \cup {None}]
  BY CoreBase
<1>1. phase = "Fetch" /\ phase' = "fetch0" /\ UNCHANGED calc
  BY DEF do_fetch_1, Handler, StageBelow
<1>2. due' \in [Stages -> Times]
  BY BaseFetch1 DEF BaseOK
<1>3. calc' = 0
  BY <1>1 DEF WakeInv, UpdateNow, Stages, Slots
<1>4. \A s \in Slots \ {"Fetch"} : slot'[s] = slot[s]
  BY <1>b DEF do_fetch_1
<1>5. \A s \in Stages \ {"Fetch"} : due'[s] = due[s]
  BY <1>b DEF do_fetch_1
<1>6. \A s \in Late : /\ phase \in Passed(s) /\ due'[s] = due[s]
                      /\ due'[Feeder[s]] = due[Feeder[s]]
  BY <1>1, <1>5 DEF Passed, Late, Feeder, Stages, Slots
<1>7. ASSUME NEW s \in Late PROVE Ready(s)' <=> Ready(s)
  BY <1>4, <1>7 DEF Ready, Late, Slots
<1>8. NothingLeft'
  BY <1>6, <1>7 DEF WakeInv, NothingLeft
<1> QED BY <1>2, <1>3, <1>8, WakeUpdate

\* The core starts asleep or awake, with nothing to do.
LEMMA InitWake == Init => WakeInv
<1> SUFFICES ASSUME Init PROVE WakeInv
  OBVIOUS
<1>1. /\ \A s \in Late : due[s] = 0
      /\ \A s \in Slots : slot[s] = None
      /\ phase = "dport"
  BY DEF Init, Late, Stages, Slots
<1>2. \A s \in Late : ~Ready(s)
  BY <1>1 DEF Ready, Late, Slots
<1>3. phase \notin Updating
  BY <1>1 DEF Updating, Stages, Slots
<1>4. WakesInTime
  BY <1>1, <1>2 DEF WakesInTime
<1>5. UpdateNow /\ NothingLeft
  BY <1>2, <1>3 DEF UpdateNow, NothingLeft, Updating
<1> QED BY <1>4, <1>5 DEF WakeInv

\* Every step keeps it.
LEMMA WakeStep == ASSUME Core, WakeInv, [Next]_vars PROVE WakeInv'
<1>l. MulLat > 0 /\ DivLat > 0 /\ MulLat \in Times /\ DivLat \in Times
  BY PipelineSizes, InfTimeAssumption DEF Times
<1>1. CASE do_mul_ext
  BY <1>1, <1>l, WakeMext DEF do_mul_ext
<1>2. CASE do_div_ext
  BY <1>2, <1>l, WakeMext DEF do_div_ext
<1>3. CASE Handlers
  BY <1>1, <1>2, <1>3, WakeWriteback, WakeMemory, WakeExecute, WakeDecode, WakeFetch1,
     WakeSkip DEF Handlers
<1> QED BY <1>3, WakePorts, WakeLoop, WakeTick, WakeSched, WakeFetch0 DEF Next

\* At the end of a tick no stage past Decode that can run next tick is slept
\* over: calc_nxtupd_ is then the next tick at the latest, whatever the ports
\* answered and whichever handlers ran.
THEOREM NoStageSleepsHolds == Spec => []NoStageSleeps
<1>1. Init => Core /\ WakeInv
  BY InitCore, InitWake
<1>2. Core /\ WakeInv /\ [Next]_vars => (Core /\ WakeInv)'
  BY CoreStep, WakeStep
<1>3. Core /\ WakeInv => NoStageSleeps
  <2> SUFFICES ASSUME Core, WakeInv, NEW s \in Late, Ready(s), due[s] <= 1
               PROVE  calc <= 1
    BY DEF NoStageSleeps, Late, Ready
  <2>1. due[s] \in Nat /\ calc \in Nat
    BY WakeTypes
  <2>2. (due[s] > 0 => calc <= due[s]) /\ (due[s] = 0 => calc <= 1)
    BY DEF WakeInv, WakesInTime
  <2> QED BY <2>1, <2>2
<1> QED BY <1>1, <1>2, <1>3, PTL DEF Spec

----------------------------------------------------------------------------
(* The order in which instructions commit. *)

\* t is younger than s, unless one of them is empty or a placeholder.
Older(m, s, t) == m[t].id > 0 => m[s].id < m[t].id

\* Along the stages a younger instruction never stands before an older one;
\* the EXU path and the M extension run side by side.
SlotAges(m) ==
    /\ \A s \in Slots \ {"Fetch"} : Older(m, s, "Fetch")
    /\ \A s \in Slots \ {"Fetch", "Decode"} : Older(m, s, "Decode")
    /\ Older(m, "Memory", "Execute")

\* The queue is in order and younger than the slots.
QueueAges(m, q) ==
    \A i \in 1..Len(q) :
        q[i].id > 0 => /\ \A s \in Slots : m[s].id < q[i].id
                       /\ \A j \in 1..(i - 1) : q[j].id < q[i].id

\* What has left the input buffer is older than what is or comes in it.
LastFetched(x, fed) == IF x = None THEN fed ELSE fed - 1
InputAges(m, q, x, fed) ==
    /\ x # None => x.id = fed
    /\ \A s \in Slots : m[s].id <= LastFetched(x, fed)
    /\ \A i \in 1..Len(q) : q[i].id <= LastFetched(x, fed)

\* One MUL or DIV at a time past decode, in its own unit.
MextAlone(m) ==
    /\ m["Mul"] = None \/ m["Div"] = None
    /\ m["Decode"] # None /\ IsMext(m["Decode"]) => m["Mul"] = None /\ m["Div"] = None
    /\ \A u \in {"Mul", "Div"} : m[u] # None => IsMext(m[u])
    /\ \A s \in {"Execute", "Memory"} : m[s] # None => ~IsMext(m[s])

\* What overtakes a MUL or DIV writes another register.
WawSafe(m) ==
    \A u \in {"Mul", "Div"}, s \in {"Decode", "Execute", "Memory"} :
        m[u] # None /\ m[s] # None =>
            /\ m[u].id # m[s].id
            /\ m[u].id < m[s].id => m[u].dst = 0 \/ m[u].dst # m[s].dst

\* The order of the instructions in the core.
SlotOrder(m) == SlotAges(m) /\ MextAlone(m) /\ WawSafe(m)
OrderInv == /\ SlotOrder(slot) /\ QueueAges(slot, ifq)
            /\ InputAges(slot, ifq, input, loop.fed)

\* The same instruction, up to its flags.
Same(t, u) == t # None /\ u # None /\ t.id = u.id /\ t.kind = u.kind /\ t.dst = u.dst

\* Ids are integers from -1 on.
LEMMA SlotIds ==
    ASSUME NEW m \in SlotMaps
    PROVE  /\ \A s \in Slots : m[s].id \in Int /\ m[s].id >= -1
           /\ \A s \in Slots : m[s] = None => m[s].id = -1
<1>1. \A t \in TransType : t.id \in Int /\ t.id >= -1
  BY PipelineSizes DEF TransType, Ids
<1> QED BY <1>1, NoneFacts DEF SlotMaps

\* The same for a queue.
LEMMA QueueIds ==
    ASSUME NEW q \in Seq(TransType)
    PROVE  Len(q) \in Nat /\ \A i \in 1..Len(q) : q[i] \in TransType /\ q[i].id \in Int
<1>1. \A t \in TransType : t.id \in Int
  BY PipelineSizes DEF TransType, Ids
<1>2. Len(q) \in Nat /\ \A i \in 1..Len(q) : q[i] \in TransType
  BY SeqFacts
<1> QED BY <1>1, <1>2

\* Slots may be emptied, and flags may change.
LEMMA OrderShrink ==
    ASSUME NEW m \in SlotMaps, NEW k \in SlotMaps, SlotOrder(m),
           \A s \in Slots : k[s] = None \/ Same(k[s], m[s])
    PROVE  SlotOrder(k)
<1>1. ASSUME NEW s \in Slots
      PROVE  k[s].id \in Int /\ m[s].id \in Int /\ k[s].id <= m[s].id
             /\ (k[s].id > 0 => k[s].id = m[s].id)
  <2>1. k[s].id \in Int /\ m[s].id \in Int /\ m[s].id >= -1
    BY SlotIds
  <2>2. CASE k[s] = None
    BY <2>1, <2>2, SlotIds
  <2>3. CASE Same(k[s], m[s])
    BY <2>1, <2>3 DEF Same
  <2> QED BY <2>2, <2>3
<1>2. ASSUME NEW s \in Slots, NEW t \in Slots, Older(m, s, t) PROVE Older(k, s, t)
  BY <1>1, <1>2 DEF Older
<1>3. {"Fetch", "Decode", "Execute", "Mul", "Div", "Memory"} \subseteq Slots
  BY DEF Slots
<1>4. SlotAges(k)
  BY <1>2, <1>3 DEF SlotOrder, SlotAges
<1>5. \A s \in Slots : k[s] # None => m[s] # None /\ k[s].id = m[s].id
                         /\ k[s].kind = m[s].kind /\ k[s].dst = m[s].dst
  BY DEF Same
<1>6. MextAlone(k)
  BY <1>3, <1>5 DEF SlotOrder, MextAlone, IsMext
<1>7. WawSafe(k)
  BY <1>3, <1>5 DEF SlotOrder, WawSafe
<1> QED BY <1>4, <1>6, <1>7 DEF SlotOrder

\* The queue and the input do not mind moves between slots.
LEMMA OrderOutside ==
    ASSUME NEW m \in SlotMaps, NEW k \in SlotMaps, NEW q \in Seq(TransType),
           NEW x, NEW fed \in Nat, QueueAges(m, q), InputAges(m, q, x, fed),
           \A s \in Slots : \E t \in Slots : k[s].id <= m[t].id
    PROVE  QueueAges(k, q) /\ InputAges(k, q, x, fed)
<1>0. Len(q) \in Nat /\ \A i \in 1..Len(q) : q[i].id \in Int
  BY QueueIds
<1>1. \A s \in Slots : m[s].id \in Int /\ k[s].id \in Int
  BY SlotIds
<1>2. LastFetched(x, fed) \in Int
  BY DEF LastFetched
<1>3. ASSUME NEW i \in 1..Len(q), q[i].id > 0, NEW s \in Slots PROVE k[s].id < q[i].id
  <2>1. PICK t \in Slots : k[s].id <= m[t].id
    OBVIOUS
  <2>2. m[t].id < q[i].id
    BY <1>3 DEF QueueAges
  <2> QED BY <1>0, <1>1, <2>1, <2>2
<1>4. ASSUME NEW s \in Slots PROVE k[s].id <= LastFetched(x, fed)
  <2>1. PICK t \in Slots : k[s].id <= m[t].id
    OBVIOUS
  <2>2. m[t].id <= LastFetched(x, fed)
    BY DEF InputAges
  <2> QED BY <1>1, <1>2, <2>1, <2>2
<1> QED BY <1>3, <1>4 DEF QueueAges, InputAges

\* Execute to Memory.
LEMMA OrderToMemory ==
    ASSUME NEW m \in SlotMaps, NEW x \in TransType, SlotOrder(m),
           Same(x, m["Execute"]), m["Memory"] = None
    PROVE  SlotOrder([m EXCEPT !["Memory"] = x, !["Execute"] = None])
<1> DEFINE k == [m EXCEPT !["Memory"] = x, !["Execute"] = None]
<1>1. /\ k["Memory"] = x /\ k["Execute"] = None /\ k["Fetch"] = m["Fetch"]
      /\ k["Decode"] = m["Decode"] /\ k["Mul"] = m["Mul"] /\ k["Div"] = m["Div"]
  BY DEF SlotMaps, Slots
<1>2. /\ x.id = m["Execute"].id /\ x.kind = m["Execute"].kind /\ x.dst = m["Execute"].dst
      /\ m["Execute"] # None
  BY DEF Same
<1>3. \A s \in Slots : m[s].id \in Int /\ m[s].id >= -1
  BY SlotIds
<1> HIDE DEF k
<1>4. SlotAges(k)
  BY <1>1, <1>2, <1>3, NoneFacts DEF SlotOrder, SlotAges, Older, Slots
<1>5. MextAlone(k)
  BY <1>1, <1>2 DEF SlotOrder, MextAlone, IsMext
<1>6. WawSafe(k)
  BY <1>1, <1>2 DEF SlotOrder, WawSafe
<1> QED BY <1>4, <1>5, <1>6 DEF SlotOrder, k

\* Decode to Execute, the Fetch slot as before.
LEMMA OrderToExecute ==
    ASSUME NEW m \in SlotMaps, SlotOrder(m), m["Decode"] # None, m["Execute"] = None,
           m["Decode"].id > 0, ~IsMext(m["Decode"])
    PROVE  SlotOrder([m EXCEPT !["Execute"] = m["Decode"], !["Decode"] = None])
<1> DEFINE k == [m EXCEPT !["Execute"] = m["Decode"], !["Decode"] = None]
<1>1. /\ k["Execute"] = m["Decode"] /\ k["Decode"] = None /\ k["Fetch"] = m["Fetch"]
      /\ k["Memory"] = m["Memory"] /\ k["Mul"] = m["Mul"] /\ k["Div"] = m["Div"]
  BY DEF SlotMaps, Slots
<1>3. \A s \in Slots : m[s].id \in Int /\ m[s].id >= -1
  BY SlotIds
<1> HIDE DEF k
<1>4. SlotAges(k)
  BY <1>1, <1>3, NoneFacts DEF SlotOrder, SlotAges, Older, Slots
<1>5. MextAlone(k)
  BY <1>1 DEF SlotOrder, MextAlone
<1>6. WawSafe(k)
  BY <1>1 DEF SlotOrder, WawSafe
<1> QED BY <1>4, <1>5, <1>6 DEF SlotOrder, k

\* Decode to the unit of the M extension.
LEMMA OrderToUnit ==
    ASSUME NEW m \in SlotMaps, NEW u \in {"Mul", "Div"}, SlotOrder(m),
           m["Decode"] # None, m["Decode"].id > 0, IsMext(m["Decode"])
    PROVE  SlotOrder([m EXCEPT ![u] = m["Decode"], !["Decode"] = None])
<1> DEFINE k == [m EXCEPT ![u] = m["Decode"], !["Decode"] = None]
<1>1. /\ k[u] = m["Decode"] /\ k["Decode"] = None /\ k["Fetch"] = m["Fetch"]
      /\ k["Memory"] = m["Memory"] /\ k["Execute"] = m["Execute"]
      /\ \A v \in {"Mul", "Div"} : v # u => k[v] = None
  <2>1. m["Mul"] = None /\ m["Div"] = None
    BY DEF SlotOrder, MextAlone
  <2> QED BY <2>1 DEF SlotMaps, Slots
<1>3. \A s \in Slots : m[s].id \in Int /\ m[s].id >= -1
  BY SlotIds
<1> HIDE DEF k
<1>4. SlotAges(k)
  BY <1>1, <1>3, NoneFacts DEF SlotOrder, SlotAges, Older, Slots
<1>5. MextAlone(k)
  BY <1>1 DEF SlotOrder, MextAlone
<1>6. WawSafe(k)
  <2>1. \A s \in {"Execute", "Memory"} : m[s].id < m["Decode"].id /\ m[s].id \in Int
    BY <1>3 DEF SlotOrder, SlotAges, Older, Slots
  <2>2. m["Decode"].id \in Int
    BY <1>3 DEF Slots
  <2> QED BY <1>1, <2>1, <2>2 DEF WawSafe
<1> QED BY <1>4, <1>5, <1>6 DEF SlotOrder, k

\* Fetch to Decode.
LEMMA OrderToDecode ==
    ASSUME NEW m \in SlotMaps, SlotOrder(m), m["Fetch"] # None, m["Decode"] = None,
           m["Fetch"].id > 0,
           IsMext(m["Fetch"]) => m["Mul"] = None /\ m["Div"] = None,
           \A u \in {"Mul", "Div"} :
              m[u] # None => m["Fetch"].dst = 0 \/ m[u].dst # m["Fetch"].dst
    PROVE  SlotOrder([m EXCEPT !["Decode"] = m["Fetch"], !["Fetch"] = None])
<1> DEFINE k == [m EXCEPT !["Decode"] = m["Fetch"], !["Fetch"] = None]
<1>1. /\ k["Decode"] = m["Fetch"] /\ k["Fetch"] = None /\ k["Execute"] = m["Execute"]
      /\ k["Memory"] = m["Memory"] /\ k["Mul"] = m["Mul"] /\ k["Div"] = m["Div"]
  BY DEF SlotMaps, Slots
<1>3. \A s \in Slots : m[s].id \in Int /\ m[s].id >= -1
  BY SlotIds
<1> HIDE DEF k
<1>4. SlotAges(k)
  BY <1>1, <1>3, NoneFacts DEF SlotOrder, SlotAges, Older, Slots
<1>5. MextAlone(k)
  BY <1>1 DEF SlotOrder, MextAlone
<1>6. WawSafe(k)
  <2>1. \A u \in {"Mul", "Div"} : m[u].id < m["Fetch"].id /\ m[u].id \in Int
    BY <1>3 DEF SlotOrder, SlotAges, Older, Slots
  <2>2. m["Fetch"].id \in Int
    BY <1>3 DEF Slots
  <2>3. \A u \in {"Mul", "Div"} : m[u] # None => m[u].dst = 0 \/ m[u].dst # m["Fetch"].dst
    OBVIOUS
  <2> QED BY <1>1, <2>1, <2>2, <2>3 DEF SlotOrder, WawSafe
<1> QED BY <1>4, <1>5, <1>6 DEF SlotOrder, k

\* The head of the queue to Fetch.
LEMMA OrderToFetch ==
    ASSUME NEW m \in SlotMaps, NEW x \in TransType, SlotOrder(m), m["Fetch"] = None,
           x.id > 0 => \A s \in Slots : m[s].id < x.id
    PROVE  SlotOrder([m EXCEPT !["Fetch"] = x])
<1> DEFINE k == [m EXCEPT !["Fetch"] = x]
<1>1. /\ k["Fetch"] = x /\ k["Decode"] = m["Decode"] /\ k["Execute"] = m["Execute"]
      /\ k["Memory"] = m["Memory"] /\ k["Mul"] = m["Mul"] /\ k["Div"] = m["Div"]
  BY DEF SlotMaps, Slots
<1> HIDE DEF k
<1>4. SlotAges(k)
  BY <1>1 DEF SlotOrder, SlotAges, Older, Slots
<1>5. MextAlone(k) /\ WawSafe(k)
  BY <1>1 DEF SlotOrder, MextAlone, WawSafe
<1> QED BY <1>4, <1>5 DEF SlotOrder, k

\* The accounting numbers the trace instructions from 1 on.
LEMMA RealIds ==
    ASSUME PipeInv
    PROVE  /\ \A s \in Slots : slot[s] # None /\ ~slot[s].wp => slot[s].id > 0
           /\ \A s \in Slots \ {"Fetch"} : slot[s] # None => slot[s].id > 0
           /\ loop.fed \in Nat /\ slot \in SlotMaps /\ ifq \in Seq(TransType)
<1>1. LiveIds(slot) \subseteq 1..loop.fed
  BY Zenon DEF PipeInv, Acct
<1>2. loop.fed \in Nat /\ slot \in SlotMaps /\ ifq \in Seq(TransType) /\ RealSlots
  BY CoreMaps, CoreBase, SizeFacts DEF PipeInv, Loops
<1>3. ASSUME NEW s \in Slots, slot[s] # None, ~slot[s].wp PROVE slot[s].id > 0
  <2>1. slot[s].id \in LiveIds(slot)
    BY <1>3, Zenon DEF LiveIds, Live
  <2>2. \A n \in 1..loop.fed : n > 0
    BY <1>2
  <2> QED BY <1>1, <2>1, <2>2, Zenon
<1>4. \A s \in Slots \ {"Fetch"} : slot[s] # None => slot[s].id > 0
  BY <1>2, <1>3, Zenon DEF RealSlots
<1> QED BY <1>2, <1>3, <1>4

\* A step that leaves queue and input alone and moves instructions between
\* slots.
LEMMA OrderSlots ==
    ASSUME PipeInv, OrderInv, slot' \in SlotMaps, SlotOrder(slot'),
           UNCHANGED <<ifq, input>>, loop'.fed = loop.fed,
           \A s \in Slots : \E t \in Slots : slot'[s].id <= slot[t].id
    PROVE  OrderInv'
<1>1. QueueAges(slot', ifq) /\ InputAges(slot', ifq, input, loop.fed)
  BY RealIds, OrderOutside DEF OrderInv
<1> QED BY <1>1 DEF OrderInv

\* Every slot holds what it held, or nothing, or what slot a held.
LEMMA Covered ==
    ASSUME NEW m \in SlotMaps, NEW k, NEW a \in Slots,
           \A s \in Slots : k[s] = m[s] \/ k[s] = None \/ k[s].id = m[a].id
    PROVE  \A s \in Slots : \E u \in Slots : k[s].id <= m[u].id
<1>1. \A s \in Slots : m[s].id \in Int /\ m[s].id >= -1
  BY SlotIds
<1>2. ASSUME NEW s \in Slots PROVE \E u \in Slots : k[s].id <= m[u].id
  <2>1. CASE k[s] = m[s]
    BY <1>1, <2>1
  <2>2. CASE k[s] = None
    BY <1>1, <2>2, NoneFacts
  <2>3. CASE k[s].id = m[a].id
    BY <1>1, <2>3
  <2> QED BY <2>1, <2>2, <2>3
<1> QED BY <1>2

\* A step that leaves slots, queue and input alone.
LEMMA OrderFrame ==
    ASSUME OrderInv, UNCHANGED <<slot, ifq, input>>, loop'.fed = loop.fed
    PROVE  OrderInv'
BY DEF OrderInv

\* The steps that move no instruction.
LEMMA OrderQuiet ==
    ASSUME Core, OrderInv,
           \/ DportQuiet \/ DportAck \/ DportBusy \/ IportQuiet \/ IportAck \/ IportBusy
           \/ Begin \/ (\E s \in Stages : Skip(s)) \/ FetchEarlyRedirect \/ FetchNothing
           \/ calc_sched \/ set_draining \/ NoFeed \/ Tick \/ Finished \/ UNCHANGED vars
    PROVE  OrderInv'
<1>1. UNCHANGED <<slot, ifq, input>>
  BY DEF DportQuiet, DportAck, DportBusy, IportQuiet, IportAck, IportBusy, Begin, Skip,
      FetchEarlyRedirect, FetchNothing, Fetch0Frame, calc_sched, set_draining, NoFeed,
      Tick, Finished, vars, core
<1>2. loop'.fed = loop.fed
  <2>1. loop' = loop \/ loop' = [loop EXCEPT !.draining = TRUE]
    BY DEF DportQuiet, DportAck, DportBusy, IportQuiet, IportAck, IportBusy, Begin, Skip,
        FetchEarlyRedirect, FetchNothing, Fetch0Frame, calc_sched, set_draining, NoFeed,
        Tick, Finished, vars
  <2> QED BY <2>1, CoreBase DEF Loops
<1> QED BY <1>1, <1>2, OrderFrame

\* handle_lsu_resp moves the load or store from Execute to Memory.
LEMMA OrderDportResp == ASSUME PipeInv, OrderInv, DportResp PROVE OrderInv'
<1> DEFINE t == slot["Execute"]
           x == [t EXCEPT !.wait = FALSE]
           k == [slot EXCEPT !["Memory"] = x, !["Execute"] = None]
<1>c. Core /\ slot \in SlotMaps
  BY RealIds DEF PipeInv
<1>1. UNCHANGED <<ifq, input, loop>> /\ slot' = k
  BY DEF DportResp
<1>2. t # None /\ slot["Memory"] = None /\ t \in TransType
  <2>1. dp.left # InfTime
    BY InfTimeAssumption DEF DportResp, Due
  <2>2. t # None /\ slot["Memory"] = None
    BY <1>c, <2>1, CoreBase DEF Asserts, LsuRespSafe
  <2> QED BY <1>c, <2>2, CoreBase DEF Slots
<1>3. x \in TransType /\ x.id = t.id /\ x.kind = t.kind /\ x.dst = t.dst
  BY <1>2 DEF TransType
<1>4. Same(x, t)
  BY <1>2, <1>3, NoneFacts DEF Same
<1> HIDE DEF x
<1>5. SlotOrder(k)
  BY <1>c, <1>2, <1>3, <1>4, OrderToMemory DEF OrderInv
<1>6. k \in SlotMaps /\ \A s \in Slots : k[s] = slot[s] \/ k[s] = x \/ k[s] = None
  BY <1>c, <1>3 DEF SlotMaps
<1>7. \A s \in Slots : \E u \in Slots : k[s].id <= slot[u].id
  <2>1. "Execute" \in Slots /\ \A s \in Slots : k[s] = slot[s] \/ k[s] = None \/ k[s].id = t.id
    BY <1>3, <1>6 DEF Slots
  <2> HIDE DEF k
  <2> QED BY <1>c, <2>1, Covered
<1> HIDE DEF k
<1> QED BY <1>1, <1>5, <1>6, <1>7, OrderSlots

\* A step that empties some slots or changes flags in them.
LEMMA OrderLess ==
    ASSUME PipeInv, OrderInv, slot' \in SlotMaps, UNCHANGED <<ifq, input>>,
           loop'.fed = loop.fed,
           \A s \in Slots : slot'[s] = None \/ Same(slot'[s], slot[s])
    PROVE  OrderInv'
<1>1. slot \in SlotMaps
  BY RealIds
<1>2. SlotOrder(slot')
  BY <1>1, OrderShrink DEF OrderInv
<1>3. ASSUME NEW s \in Slots PROVE slot'[s].id <= slot[s].id
  <2>1. slot[s].id \in Int /\ slot[s].id >= -1
    BY <1>1, SlotIds
  <2> QED BY <2>1, NoneFacts DEF Same
<1> QED BY <1>2, <1>3, OrderSlots

\* do_writeback empties a slot.
LEMMA OrderWriteback == ASSUME PipeInv, OrderInv, do_writeback PROVE OrderInv'
<1>c. Core /\ slot \in SlotMaps
  BY RealIds DEF PipeInv
<1>1. UNCHANGED <<ifq, input, loop>>
  BY DEF do_writeback, Handler
<1>2. CASE UNCHANGED slot
  BY <1>1, <1>2, OrderFrame
<1>3. CASE WbSource # "none" /\ slot' = [slot EXCEPT ![WbSource] = None]
  <2>1. slot' \in SlotMaps /\ \A s \in Slots : slot'[s] \in {None, slot[s]}
    BY <1>c, <1>3 DEF SlotMaps
  <2>2. \A s \in Slots : slot'[s] = None \/ Same(slot'[s], slot[s])
    BY <2>1 DEF Same
  <2> QED BY <1>1, <2>1, <2>2, OrderLess
<1> QED BY <1>2, <1>3 DEF do_writeback

\* do_memory sends a request, or moves the instruction on to Memory.
LEMMA OrderMemory == ASSUME PipeInv, OrderInv, do_memory PROVE OrderInv'
<1> DEFINE t == slot["Execute"]
<1>c. Core /\ slot \in SlotMaps /\ "Execute" \in Slots /\ "Memory" \in Slots
  BY RealIds DEF PipeInv, Slots
<1>1. UNCHANGED <<ifq, input, loop>> /\ t # None /\ slot["Memory"] = None
  BY DEF do_memory, Handler, Runs, prev_stage_valid, Slots
<1>t. t \in TransType
  BY <1>1, <1>c, CoreBase
<1>2. CASE UNCHANGED slot
  BY <1>1, <1>2, OrderFrame
<1>3. CASE slot' = [slot EXCEPT !["Execute"].wait = TRUE]
  <2> DEFINE x == [t EXCEPT !.wait = TRUE]
  <2>1. x \in TransType /\ x.id = t.id /\ x.kind = t.kind /\ x.dst = t.dst
    BY <1>t DEF TransType
  <2>2. slot' = [slot EXCEPT !["Execute"] = x]
    BY <1>3
  <2>3. x # None
    BY <2>1, NoneFacts
  <2> HIDE DEF x
  <2>4. /\ slot' \in SlotMaps /\ slot'["Execute"] = x
        /\ \A s \in Slots : s # "Execute" => slot'[s] = slot[s]
    BY <1>c, <2>1, <2>2 DEF SlotMaps
  <2>5. \A s \in Slots : slot'[s] = None \/ Same(slot'[s], slot[s])
    BY <1>1, <2>1, <2>3, <2>4 DEF Same
  <2> QED BY <1>1, <2>4, <2>5, OrderLess
<1>4. CASE slot' = [slot EXCEPT !["Memory"] = t, !["Execute"] = None]
  <2>1. Same(t, t)
    BY <1>1 DEF Same
  <2>2. SlotOrder([slot EXCEPT !["Memory"] = t, !["Execute"] = None])
    BY <1>c, <1>1, <1>t, <2>1, OrderToMemory DEF OrderInv
  <2>3. SlotOrder(slot')
    BY <1>4, <2>2
  <2>4. slot' \in SlotMaps /\ \A s \in Slots : slot'[s] \in {slot[s], t, None}
    BY <1>4, <1>c, <1>t DEF SlotMaps
  <2>5. \A s \in Slots : \E u \in Slots : slot'[s].id <= slot[u].id
    <3>1. \A s \in Slots : slot'[s] = slot[s] \/ slot'[s] = None \/ slot'[s].id = t.id
      BY <2>4
    <3> QED BY <1>c, <3>1, Covered
  <2> QED BY <1>1, <2>3, <2>4, <2>5, OrderSlots
<1> QED BY <1>2, <1>3, <1>4 DEF do_memory, send_lsu_req

\* do_mul_ext and do_div_ext move the instruction to their unit.
LEMMA OrderMext ==
    ASSUME PipeInv, OrderInv, NEW u \in {"Mul", "Div"}, NEW kind \in {"MUL", "DIV"},
           NEW lat, NEW ready, DoMext(u, kind, lat, ready)
    PROVE  OrderInv'
<1> DEFINE t == slot["Decode"]
<1>c. Core /\ slot \in SlotMaps /\ "Decode" \in Slots /\ u \in Slots
  BY RealIds DEF PipeInv, Slots
<1>1. UNCHANGED <<ifq, input, loop>> /\ t # None /\ slot[u] = None
  BY <1>c DEF DoMext, Handler, Runs, prev_stage_valid
<1>t. t \in TransType /\ t.id > 0
  BY <1>1, <1>c, CoreBase, RealIds DEF Slots
<1>2. CASE t.kind # kind
  <2>1. UNCHANGED slot
    BY <1>2 DEF DoMext
  <2> QED BY <1>1, <2>1, OrderFrame
<1>3. CASE t.kind = kind
  <2>1. slot' = [slot EXCEPT ![u] = t, !["Decode"] = None] /\ IsMext(t)
    BY <1>3 DEF DoMext, IsMext
  <2>2. SlotOrder([slot EXCEPT ![u] = t, !["Decode"] = None])
    BY <1>c, <1>1, <1>t, <2>1, OrderToUnit DEF OrderInv
  <2>3. SlotOrder(slot')
    BY <2>1, <2>2
  <2>4. slot' \in SlotMaps /\ \A s \in Slots : slot'[s] \in {slot[s], t, None}
    BY <2>1, <1>c, <1>t DEF SlotMaps
  <2>5. \A s \in Slots : \E v \in Slots : slot'[s].id <= slot[v].id
    <3>1. \A s \in Slots : slot'[s] = slot[s] \/ slot'[s] = None \/ slot'[s].id = t.id
      BY <2>4
    <3> QED BY <1>c, <3>1, Covered
  <2> QED BY <1>1, <2>3, <2>4, <2>5, OrderSlots
<1> QED BY <1>2, <1>3

\* The queue is flushed.
LEMMA OrderNoQueue ==
    ASSUME NEW m, NEW q, NEW x, NEW fed, InputAges(m, q, x, fed)
    PROVE  QueueAges(m, <<>>) /\ InputAges(m, <<>>, x, fed)
BY DEF QueueAges, InputAges

\* do_execute moves the instruction to Execute; a mispredicted branch empties
\* the Fetch slot and the queue.
LEMMA OrderExecute == ASSUME PipeInv, OrderInv, do_execute PROVE OrderInv'
<1> DEFINE t == slot["Decode"]
           k == [slot EXCEPT !["Execute"] = t, !["Decode"] = None]
<1>c. /\ Core /\ slot \in SlotMaps /\ ifq \in Seq(TransType) /\ loop.fed \in Nat
      /\ {"Decode", "Execute", "Fetch"} \subseteq Slots
  BY RealIds DEF PipeInv, Slots
<1>1. UNCHANGED <<input, loop>> /\ t # None /\ slot["Execute"] = None
  BY DEF do_execute, Handler, Runs, prev_stage_valid, Slots
<1>t. t \in TransType /\ t.id > 0
  BY <1>1, <1>c, CoreBase, RealIds DEF Slots
<1>2. CASE IsMext(t)
  <2>1. UNCHANGED <<slot, ifq>>
    BY <1>2 DEF do_execute
  <2> QED BY <1>1, <2>1, OrderFrame
<1>3. CASE ~IsMext(t)
  <2>1. SlotOrder(k)
    BY <1>c, <1>1, <1>3, <1>t, OrderToExecute DEF OrderInv
  <2>2. k \in SlotMaps /\ \A s \in Slots : k[s] \in {slot[s], t, None}
    BY <1>c, <1>t DEF SlotMaps
  <2>3. \A s \in Slots : \E u \in Slots : k[s].id <= slot[u].id
    <3>1. \A s \in Slots : k[s] = slot[s] \/ k[s] = None \/ k[s].id = t.id
      BY <2>2
    <3> HIDE DEF k
    <3> QED BY <1>c, <3>1, Covered
  <2>4. \/ slot' = k /\ ifq' = ifq
        \/ slot' = [k EXCEPT !["Fetch"] = None] /\ ifq' = <<>>
    <3>1. CASE t.kind = "BR" /\ t.mis
      <4>1. /\ slot' = [slot EXCEPT !["Execute"] = t, !["Decode"] = None, !["Fetch"] = None]
            /\ ifq' = <<>>
        BY <1>3, <3>1 DEF do_execute
      <4> QED BY <4>1
    <3>2. CASE ~(t.kind = "BR" /\ t.mis)
      <4>1. /\ slot' = [slot EXCEPT !["Execute"] = t, !["Decode"] = None,
                                    !["Fetch"] = slot["Fetch"]]
            /\ ifq' = ifq
        BY <1>3, <3>2 DEF do_execute
      <4> QED BY <4>1, <1>c DEF SlotMaps
    <3> QED BY <3>1, <3>2
  <2> HIDE DEF k
  <2>5. QueueAges(k, ifq) /\ InputAges(k, ifq, input, loop.fed)
    BY <1>c, <2>2, <2>3, OrderOutside DEF OrderInv
  <2>6. CASE slot' = k /\ ifq' = ifq
    BY <1>1, <2>1, <2>5, <2>6 DEF OrderInv
  <2>7. CASE slot' = [k EXCEPT !["Fetch"] = None] /\ ifq' = <<>>
    <3>1. slot' \in SlotMaps /\ \A s \in Slots : slot'[s] \in {None, k[s]}
      BY <2>2, <2>7 DEF SlotMaps
    <3>2. \A s \in Slots : slot'[s] = None \/ Same(slot'[s], k[s])
      BY <3>1 DEF Same
    <3>3. SlotOrder(slot')
      BY <2>1, <2>2, <3>1, <3>2, OrderShrink
    <3>4. \A s \in Slots : \E u \in Slots : slot'[s].id <= k[u].id
      <4>1. \A s \in Slots : slot'[s] = k[s] \/ slot'[s] = None \/ slot'[s].id = k["Fetch"].id
        BY <3>1
      <4> QED BY <1>c, <2>2, <4>1, Covered
    <3>5. InputAges(slot', ifq, input, loop.fed)
      BY <1>c, <2>2, <2>5, <3>1, <3>4, OrderOutside
    <3>6. QueueAges(slot', <<>>) /\ InputAges(slot', <<>>, input, loop.fed)
      BY <3>5, OrderNoQueue
    <3> QED BY <1>1, <2>7, <3>3, <3>6 DEF OrderInv
  <2> QED BY <2>4, <2>6, <2>7
<1> QED BY <1>2, <1>3

\* do_decode passes a MUL or DIV only when both units are free, and nothing
\* that writes the register of the one in flight.
LEMMA OrderDecode == ASSUME PipeInv, OrderInv, do_decode PROVE OrderInv'
<1> DEFINE t == slot["Fetch"]
<1>c. /\ Core /\ slot \in SlotMaps /\ "Decode" \in Slots /\ "Fetch" \in Slots
      /\ slot["Decode"] = None /\ t # None /\ t \in TransType
  BY RealIds, DecodeCases DEF PipeInv, Slots
<1>1. UNCHANGED <<ifq, input, loop>>
  BY DEF do_decode, Handler
<1>2. CASE UNCHANGED slot
  BY <1>1, <1>2, OrderFrame
<1>3. CASE slot' = [slot EXCEPT !["Fetch"] = None]
  <2>1. slot' \in SlotMaps /\ \A s \in Slots : slot'[s] \in {None, slot[s]}
    BY <1>c, <1>3 DEF SlotMaps
  <2>2. \A s \in Slots : slot'[s] = None \/ Same(slot'[s], slot[s])
    BY <2>1 DEF Same
  <2> QED BY <1>1, <2>1, <2>2, OrderLess
<1>4. CASE ~t.wp /\ slot' = [slot EXCEPT !["Decode"] = t, !["Fetch"] = None]
  <2>1. slot' # slot
    <3>1. slot'["Decode"] = t
      BY <1>4, <1>c DEF SlotMaps
    <3> QED BY <3>1, <1>c
  <2>2. /\ IsMext(t) => slot["Mul"] = None /\ slot["Div"] = None
        /\ ~WawHazard(t)
    <3> DEFINE ready == SrcReady(t, reg_ready)
               d == IF slot["Div"] # None THEN mext.div ELSE InfTime
               m == IF slot["Mul"] # None THEN mext.mul ELSE InfTime
               a == MaxOf(1, MinOf(d, m))
               b == MaxOf(1, reg_ready[t.dst])
               retry == IF IsMext(t) /\ (slot["Mul"] # None \/ slot["Div"] # None) THEN a
                        ELSE IF ready > 0 THEN ready
                        ELSE IF WawHazard(t) THEN b
                        ELSE 0
    <3>1. ~(retry > 0)
      BY <1>4, <2>1, Zenon DEF do_decode
    <3>2. a > 0
      <4>1. d \in Times /\ m \in Times
        BY <1>c, CoreBase, TimesFacts
      <4> HIDE DEF d, m
      <4> QED BY <4>1, InfTimeAssumption DEF MaxOf, MinOf, Times
    <3>3. b > 0
      <4>1. reg_ready[t.dst] \in Times
        BY <1>c, CoreBase DEF Scoreboards, TransType
      <4> QED BY <4>1, InfTimeAssumption DEF MaxOf, Times
    <3> HIDE DEF ready, a, b
    <3> QED BY <3>1, <3>2, <3>3
  <2>3. t.id > 0
    BY <1>c, <1>4, RealIds, Zenon
  <2>4. \A u \in {"Mul", "Div"} : slot[u] # None => t.dst = 0 \/ slot[u].dst # t.dst
    BY <2>2, Zenon DEF WawHazard
  <2>5. SlotOrder([slot EXCEPT !["Decode"] = t, !["Fetch"] = None])
    BY <1>c, <2>2, <2>3, <2>4, OrderToDecode DEF OrderInv
  <2>6. SlotOrder(slot')
    BY <1>4, <2>5
  <2>7. slot' \in SlotMaps /\ \A s \in Slots : slot'[s] \in {slot[s], t, None}
    BY <1>4, <1>c DEF SlotMaps
  <2>8. \A s \in Slots : \E v \in Slots : slot'[s].id <= slot[v].id
    <3>1. \A s \in Slots : slot'[s] = slot[s] \/ slot'[s] = None \/ slot'[s].id = t.id
      BY <2>7
    <3> QED BY <1>c, <3>1, Covered
  <2> QED BY <1>1, <2>6, <2>7, <2>8, OrderSlots
<1> QED BY <1>c, <1>2, <1>3, <1>4, DecodeCases, Zenon

\* Other wait flags and holds in the queue.
LEMMA OrderLike ==
    ASSUME OrderInv, Core, UNCHANGED <<slot, input>>, loop'.fed = loop.fed, Like(ifq, ifq')
    PROVE  OrderInv'
<1>1. Len(ifq') = Len(ifq) /\ Len(ifq) \in Nat /\ DOMAIN ifq = 1..Len(ifq)
  BY CoreMaps, SeqFacts DEF Like
<1>2. \A i \in 1..Len(ifq) : ifq'[i].id = ifq[i].id
  BY <1>1, Zenon DEF Like
<1>3. \A i \in 1..Len(ifq) : \A j \in 1..(i - 1) : j \in 1..Len(ifq)
  BY <1>1
<1>4. QueueAges(slot, ifq')
  BY <1>1, <1>2, <1>3 DEF OrderInv, QueueAges
<1>5. InputAges(slot, ifq', input, loop.fed)
  BY <1>1, <1>2 DEF OrderInv, InputAges
<1> QED BY <1>4, <1>5 DEF OrderInv

\* handle_ifu_resp clears a wait flag.
LEMMA OrderIportResp == ASSUME PipeInv, OrderInv, IportResp PROVE OrderInv'
<1>c. Core
  BY DEF PipeInv
<1>1. UNCHANGED <<slot, input, loop>> /\ ip.n > 0
  BY Zenon DEF IportResp
<1>2. ifq' = ifq \/ Like(ifq, ifq')
  BY <1>c, QueueResponse
<1>3. CASE ifq' = ifq
  BY <1>1, <1>3, OrderFrame
<1> QED BY <1>c, <1>1, <1>2, <1>3, OrderLike

\* do_fetch_1 moves the head of the queue to Fetch, or counts its hold down.
LEMMA OrderFetch1 == ASSUME PipeInv, OrderInv, do_fetch_1 PROVE OrderInv'
<1>c. /\ Core /\ slot \in SlotMaps /\ ifq \in Seq(TransType) /\ "Fetch" \in Slots
      /\ loop.fed \in Nat
  BY RealIds DEF PipeInv, Slots
<1>1. UNCHANGED <<input, loop>> /\ slot["Fetch"] = None
  BY DEF do_fetch_1, Handler, Runs, Slots
<1>2. \/ UNCHANGED <<ifq, slot>>
      \/ ifq # <<>> /\ ifq' = [ifq EXCEPT ![1].hold = @ - 1] /\ UNCHANGED slot
         /\ Head(ifq).hold > 0
      \/ ifq # <<>> /\ ifq' = Tail(ifq) /\ slot' = [slot EXCEPT !["Fetch"] = Head(ifq)]
  BY Zenon DEF do_fetch_1
<1>3. CASE UNCHANGED <<ifq, slot>>
  BY <1>1, <1>3, OrderFrame
<1>4. CASE ifq # <<>> /\ ifq' = [ifq EXCEPT ![1].hold = @ - 1] /\ UNCHANGED slot
           /\ Head(ifq).hold > 0
  <2>1. Like(ifq, ifq')
    BY <1>c, <1>4, QueueHold
  <2> QED BY <1>c, <1>1, <1>4, <2>1, OrderLike
<1>5. CASE ifq # <<>> /\ ifq' = Tail(ifq) /\ slot' = [slot EXCEPT !["Fetch"] = Head(ifq)]
  <2> DEFINE t == Head(ifq)
             n == Len(ifq)
  <2>1. /\ t \in TransType /\ t = ifq[1] /\ n \in Nat /\ n > 0 /\ Len(ifq') = n - 1
        /\ \A i \in 1..(n - 1) : ifq'[i] = ifq[i + 1]
    BY <1>c, <1>5, SeqFacts
  <2>2. /\ QueueAges(slot, ifq) /\ InputAges(slot, ifq, input, loop.fed) /\ SlotOrder(slot)
    BY DEF OrderInv
  <2>3. 1 \in 1..n
    BY <2>1
  <2>4. t.id > 0 => \A s \in Slots : slot[s].id < t.id
    BY <2>1, <2>2, <2>3 DEF QueueAges
  <2>5. t.id <= LastFetched(input, loop.fed)
    BY <2>1, <2>2, <2>3 DEF InputAges
  <2> HIDE DEF t
  <2>6. SlotOrder(slot')
    <3>1. SlotOrder([slot EXCEPT !["Fetch"] = t])
      BY <1>c, <1>1, <2>1, <2>2, <2>4, OrderToFetch
    <3> QED BY <1>5, <3>1 DEF t
  <2>7. \A s \in Slots : slot'[s] = slot[s] \/ slot'[s] = t
    BY <1>5, <1>c DEF SlotMaps, t
  <2>8. ASSUME NEW i \in 1..(n - 1), ifq'[i].id > 0
        PROVE  /\ \A s \in Slots : slot'[s].id < ifq'[i].id
               /\ \A j \in 1..(i - 1) : ifq'[j].id < ifq'[i].id
    <3>1. i + 1 \in 1..n /\ ifq'[i] = ifq[i + 1] /\ 1 \in 1..(i + 1 - 1)
      BY <2>1
    <3>2. /\ \A s \in Slots : slot[s].id < ifq[i + 1].id
          /\ \A j \in 1..(i + 1 - 1) : ifq[j].id < ifq[i + 1].id
      BY <2>2, <2>8, <3>1 DEF QueueAges
    <3>3. t.id < ifq[i + 1].id
      BY <2>1, <3>1, <3>2
    <3>4. \A j \in 1..(i - 1) : j + 1 \in 1..(i + 1 - 1) /\ ifq'[j] = ifq[j + 1]
      BY <2>1
    <3> QED BY <2>7, <3>1, <3>2, <3>3, <3>4
  <2>9. QueueAges(slot', ifq')
    BY <2>1, <2>8 DEF QueueAges
  <2>10. InputAges(slot', ifq', input, loop.fed)
    <3>1. \A i \in 1..(n - 1) : ifq'[i].id <= LastFetched(input, loop.fed)
      <4>1. \A i \in 1..(n - 1) : i + 1 \in 1..n
        BY <2>1
      <4> QED BY <2>1, <2>2, <4>1 DEF InputAges
    <3>2. \A s \in Slots : slot'[s].id <= LastFetched(input, loop.fed)
      BY <2>2, <2>5, <2>7 DEF InputAges
    <3> QED BY <2>1, <2>2, <3>1, <3>2 DEF InputAges
  <2> QED BY <1>1, <2>6, <2>9, <2>10 DEF OrderInv
<1> QED BY <1>2, <1>3, <1>4, <1>5

\* The instruction in the input buffer was counted when it was fed.
LEMMA InputReal == ASSUME PipeInv, input # None PROVE loop.fed > 0
<1>1. input.id \in 1..loop.fed /\ loop.fed \in Nat
  BY RealIds, Zenon DEF PipeInv, Acct, FedIds
<1> QED BY <1>1

\* One more entry at the end of the queue, younger than everything.
LEMMA OrderPush ==
    ASSUME NEW m \in SlotMaps, NEW q \in Seq(TransType), NEW t \in TransType,
           NEW n \in Nat, QueueAges(m, q), t.id > 0 => t.id > n,
           \A s \in Slots : m[s].id <= n, \A i \in 1..Len(q) : q[i].id <= n
    PROVE  QueueAges(m, Append(q, t))
<1> DEFINE r == Append(q, t)
           l == Len(q)
<1>1. /\ l \in Nat /\ Len(r) = l + 1 /\ r[l + 1] = t /\ \A i \in 1..l : r[i] = q[i]
  BY SeqFacts
<1>2. t.id \in Int /\ (\A s \in Slots : m[s].id \in Int) /\ \A i \in 1..l : q[i].id \in Int
  <2>1. t.id \in Int
    BY PipelineSizes DEF TransType, Ids
  <2> QED BY <2>1, SlotIds, QueueIds
<1> HIDE DEF r
<1>3. ASSUME NEW i \in 1..(l + 1), r[i].id > 0
      PROVE  /\ \A s \in Slots : m[s].id < r[i].id
             /\ \A j \in 1..(i - 1) : r[j].id < r[i].id
  <2>1. CASE i = l + 1
    <3>1. r[i] = t /\ t.id > n
      BY <1>1, <1>3, <2>1
    <3>2. \A j \in 1..(i - 1) : j \in 1..l
      BY <1>1, <2>1
    <3>3. \A j \in 1..(i - 1) : r[j].id <= n /\ r[j].id \in Int
      BY <1>1, <1>2, <3>2
    <3> QED BY <1>2, <3>1, <3>3
  <2>2. CASE i # l + 1
    <3>1. i \in 1..l /\ r[i] = q[i] /\ \A j \in 1..(i - 1) : r[j] = q[j]
      BY <1>1, <2>2
    <3> QED BY <1>3, <3>1 DEF QueueAges
  <2> QED BY <2>1, <2>2
<1> QED BY <1>1, <1>3 DEF QueueAges, r

\* The ids in the queue after an append.
LEMMA PushBound ==
    ASSUME NEW q \in Seq(TransType), NEW t \in TransType, NEW n,
           \A i \in 1..Len(q) : q[i].id <= n, t.id <= n
    PROVE  \A i \in 1..Len(Append(q, t)) : Append(q, t)[i].id <= n
<1> DEFINE r == Append(q, t)
           l == Len(q)
<1>1. /\ l \in Nat /\ Len(r) = l + 1 /\ r[l + 1] = t /\ \A i \in 1..l : r[i] = q[i]
  BY SeqFacts
<1>2. \A i \in 1..(l + 1) : i = l + 1 \/ i \in 1..l
  BY <1>1
<1> HIDE DEF r
<1> QED BY <1>1, <1>2 DEF r

\* A wrong-path fetch queues a placeholder, which has no age.
LEMMA OrderFetchWrongPath == ASSUME PipeInv, OrderInv, FetchWrongPath PROVE OrderInv'
<1> DEFINE t == Trans(0, NoInst, TRUE)
           n == LastFetched(input, loop.fed)
<1>1. t \in TransType /\ t.id = 0
  BY SizeFacts DEF Trans, NoInst, TransType, Ids, Kinds
<1>2. ifq' = Append(ifq, t) /\ UNCHANGED <<slot, input, loop>>
  BY Zenon DEF FetchWrongPath, Fetch0Frame
<1> HIDE DEF t
<1>3. slot \in SlotMaps /\ ifq \in Seq(TransType) /\ loop.fed \in Nat
  BY RealIds
<1>4. n \in Nat
  <2>1. input # None => loop.fed > 0
    BY InputReal
  <2> QED BY <1>3, <2>1 DEF LastFetched
<1>5. /\ input # None => input.id = loop.fed
      /\ \A s \in Slots : slot[s].id <= n
      /\ \A i \in 1..Len(ifq) : ifq[i].id <= n
      /\ QueueAges(slot, ifq)
  BY DEF OrderInv, InputAges
<1> HIDE DEF n
<1>6. QueueAges(slot, Append(ifq, t))
  BY <1>1, <1>3, <1>4, <1>5, OrderPush
<1>7. \A i \in 1..Len(Append(ifq, t)) : Append(ifq, t)[i].id <= n
  BY <1>1, <1>3, <1>4, <1>5, PushBound
<1>8. InputAges(slot, Append(ifq, t), input, loop.fed)
  BY <1>5, <1>7 DEF InputAges, n
<1> QED BY <1>2, <1>6, <1>8 DEF OrderInv

\* A fetch moves the newest instruction from the input buffer to the queue.
LEMMA OrderFetchReal == ASSUME PipeInv, OrderInv, FetchReal PROVE OrderInv'
<1> DEFINE fed == loop.fed
<1>c. Core
  BY DEF PipeInv
<1>1. PICK t \in TransType : ifq' = Append(ifq, t) /\ t.id = input.id
  BY <1>c, RealFacts, Zenon
<1>2. input # None /\ input' = None /\ UNCHANGED <<slot, loop>>
  BY Zenon DEF FetchReal, Fetch0Frame
<1>3. slot \in SlotMaps /\ ifq \in Seq(TransType) /\ fed \in Nat /\ fed > 0
  BY <1>2, RealIds, InputReal
<1>5. /\ t.id = fed /\ QueueAges(slot, ifq)
      /\ \A s \in Slots : slot[s].id <= fed - 1
      /\ \A i \in 1..Len(ifq) : ifq[i].id <= fed - 1
  BY <1>1, <1>2 DEF OrderInv, InputAges, LastFetched
<1>6. QueueAges(slot, Append(ifq, t))
  <2>1. fed - 1 \in Nat /\ t.id > fed - 1
    BY <1>3, <1>5
  <2> QED BY <1>3, <1>5, <2>1, OrderPush
<1>7. \A i \in 1..Len(Append(ifq, t)) : Append(ifq, t)[i].id <= fed
  <2>1. \A i \in 1..Len(ifq) : ifq[i].id <= fed
    BY <1>3, <1>5, QueueIds
  <2>2. t.id <= fed
    BY <1>3, <1>5
  <2> QED BY <1>3, <2>1, <2>2, PushBound
<1>8. \A s \in Slots : slot[s].id <= fed
  BY <1>3, <1>5, SlotIds
<1>9. InputAges(slot, Append(ifq, t), None, fed)
  BY <1>7, <1>8 DEF InputAges, LastFetched
<1> QED BY <1>1, <1>2, <1>6, <1>9 DEF OrderInv

\* feed_inst brings the next instruction in.
LEMMA OrderFeed == ASSUME PipeInv, OrderInv, feed_inst PROVE OrderInv'
<1>1. UNCHANGED <<slot, ifq>> /\ input = None
  BY DEF feed_inst, inst_avail
<1>2. input' # None /\ input'.id = loop.fed + 1 /\ loop'.fed = loop.fed + 1
  BY FedFacts DEF PipeInv
<1>3. loop.fed \in Nat
  BY RealIds
<1>4. LastFetched(input, loop.fed) = loop.fed /\ LastFetched(input', loop'.fed) = loop.fed
  BY <1>1, <1>2, <1>3 DEF LastFetched
<1> QED BY <1>1, <1>2, <1>4 DEF OrderInv, InputAges

\* Nothing is in the core.
LEMMA InitOrder == Init => OrderInv
<1> SUFFICES ASSUME Init PROVE OrderInv
  OBVIOUS
<1>1. \A s \in Slots : slot[s] = None /\ slot[s].id = -1
  BY NoneFacts DEF Init
<1>2. Len(ifq) = 0 /\ input = None /\ loop.fed = 0
  BY DEF Init
<1>3. {"Fetch", "Decode", "Execute", "Mul", "Div", "Memory"} \subseteq Slots
  BY DEF Slots
<1>4. SlotOrder(slot)
  BY <1>1, <1>3 DEF SlotOrder, SlotAges, Older, MextAlone, WawSafe
<1>5. QueueAges(slot, ifq) /\ InputAges(slot, ifq, input, loop.fed)
  BY <1>1, <1>2 DEF QueueAges, InputAges, LastFetched
<1> QED BY <1>4, <1>5 DEF OrderInv

\* Every step keeps the order.
LEMMA OrderStep == ASSUME PipeInv, OrderInv, [Next]_vars PROVE OrderInv'
<1>c. Core
  BY DEF PipeInv
<1>1. CASE do_mul_ext
  BY <1>1, OrderMext DEF do_mul_ext
<1>2. CASE do_div_ext
  BY <1>2, OrderMext DEF do_div_ext
<1>3. CASE do_fetch_0
  BY <1>c, <1>3, OrderQuiet, OrderFetchWrongPath, OrderFetchReal DEF do_fetch_0
<1>4. CASE Handlers
  BY <1>c, <1>1, <1>2, <1>4, OrderQuiet, OrderWriteback, OrderMemory, OrderExecute,
     OrderDecode, OrderFetch1 DEF Handlers
<1>5. CASE Dport \/ Iport
  BY <1>c, <1>5, OrderQuiet, OrderDportResp, OrderIportResp DEF Dport, Iport
<1> QED BY <1>c, <1>3, <1>4, <1>5, OrderQuiet, OrderFeed DEF Next

\* An id stands in one slot only.
LEMMA IdsDistinct ==
    ASSUME PipeInv, OrderInv, NEW s \in Slots, NEW t \in Slots,
           slot[s] # None, slot[t] # None, slot[s].id > 0, slot[s].id = slot[t].id
    PROVE  s = t
<1>1. \A r \in Slots : slot[r].id \in Int
  BY RealIds, SlotIds
<1>2. \A r \in Slots \ {"Fetch"} : slot["Fetch"].id > 0 => slot[r].id < slot["Fetch"].id
  BY DEF OrderInv, SlotOrder, SlotAges, Older
<1>3. \A r \in Slots \ {"Fetch", "Decode"} :
          slot["Decode"].id > 0 => slot[r].id < slot["Decode"].id
  BY DEF OrderInv, SlotOrder, SlotAges, Older
<1>4. slot["Execute"].id > 0 => slot["Memory"].id < slot["Execute"].id
  BY DEF OrderInv, SlotOrder, SlotAges, Older
<1>5. slot["Mul"] = None \/ slot["Div"] = None
  BY DEF OrderInv, SlotOrder, MextAlone
<1>6. \A u \in {"Mul", "Div"}, r \in {"Execute", "Memory"} :
          slot[u] # None /\ slot[r] # None => slot[u].id # slot[r].id
  BY DEF OrderInv, SlotOrder, WawSafe
<1>7. s \in {"Fetch", "Decode", "Execute", "Mul", "Div", "Memory"}
      /\ t \in {"Fetch", "Decode", "Execute", "Mul", "Div", "Memory"}
  BY DEF Slots
<1> QED BY <1>1, <1>2, <1>3, <1>4, <1>5, <1>6, <1>7 DEF Slots

\* The step that commits is do_writeback, and Committed is what it takes out.
LEMMA CommitStep ==
    ASSUME PipeInv, OrderInv, [Next]_vars, Len(done') > Len(done)
    PROVE  /\ WbSource \in {"Memory", "Div", "Mul"} /\ slot[WbSource] # None
           /\ Committed = slot[WbSource]
<1>c. Core /\ done \in Seq(Ids)
  BY CoreBase DEF PipeInv, BaseOK
<1>1. do_writeback
  <2>1. UNCHANGED done => FALSE
    BY <1>c
  <2>2. do_writeback \/ UNCHANGED done
    BY DEF Next, Dport, Iport, Handlers, do_fetch_0, DportResp, DportQuiet, DportAck,
        DportBusy, IportResp, IportQuiet, IportAck, IportBusy, Begin, Skip, do_memory,
        do_mul_ext, do_div_ext, DoMext, do_execute, do_decode, do_fetch_1,
        FetchEarlyRedirect, FetchWrongPath, FetchReal, FetchNothing, Fetch0Frame,
        calc_sched, feed_inst, set_draining, NoFeed, Tick, Finished, vars, core
  <2> QED BY <2>1, <2>2
<1>2. WbSource # "none"
  BY <1>1, <1>c DEF do_writeback
<1> DEFINE s == WbSource
<1>3. s \in {"Memory", "Div", "Mul"} /\ s \in Slots /\ slot[s] # None /\ slot[s] \in TransType
  BY <1>c, <1>2, WbSourceFacts
<1>4. slot[s].id > 0
  BY <1>3, RealIds
<1>5. done'[Len(done')] = slot[s].id
  <2>1. done' = Append(done, slot[s].id) /\ slot[s].id \in Ids
    BY <1>1, <1>2, <1>3 DEF do_writeback, TransType
  <2> QED BY <1>c, <2>1
<1> HIDE DEF s
<1>6. s \in Occupied
  BY <1>3 DEF Occupied
<1>7. ASSUME NEW t \in {slot[r] : r \in Occupied}, t.id = slot[s].id PROVE t = slot[s]
  <2>1. PICK r \in Slots : slot[r] # None /\ t = slot[r]
    BY DEF Occupied
  <2>2. r = s
    BY <1>3, <1>4, <1>7, <2>1, IdsDistinct
  <2> QED BY <2>1, <2>2
<1>8. Committed = slot[s]
  BY <1>5, <1>6, <1>7 DEF Committed
<1> QED BY <1>3, <1>8 DEF s

\* What the commit leaves behind in the slots.
LEMMA CommitLeaves ==
    ASSUME PipeInv, OrderInv, WbSource \in {"Memory", "Div", "Mul"}, slot[WbSource] # None,
           NEW r \in InFlightSlots, slot[r].id < slot[WbSource].id
    PROVE  /\ IsMext(slot[r]) /\ ~IsMext(slot[WbSource])
           /\ slot[r].dst = 0 \/ slot[r].dst # slot[WbSource].dst
<1> DEFINE s == WbSource
<1>r. r \in Slots /\ slot[r] # None /\ slot[r].id > 0
  BY RealIds, Zenon DEF InFlightSlots, Occupied
<1>1. \A x \in Slots : slot[x].id \in Int
  BY RealIds, SlotIds
<1>2. /\ slot[s].id > 0 /\ s \in Slots \ {"Fetch", "Decode"}
  BY RealIds DEF Slots
<1>3. r \notin {"Fetch", "Decode"}
  <2>1. \A x \in {"Fetch", "Decode"} : slot[x].id > 0 => slot[s].id < slot[x].id
    BY <1>2 DEF OrderInv, SlotOrder, SlotAges, Older
  <2> QED BY <1>1, <1>2, <1>r, <2>1
<1>4. CASE s = "Memory"
  <2>1. r # "Execute"
    <3>1. slot["Execute"].id > 0 => slot["Memory"].id < slot["Execute"].id
      BY DEF OrderInv, SlotOrder, SlotAges, Older
    <3>2. slot["Execute"].id \in Int /\ slot["Memory"].id \in Int
      BY <1>1 DEF Slots
    <3> QED BY <1>4, <1>r, <3>1, <3>2
  <2>2. r # "Memory"
    BY <1>1, <1>4, <1>r
  <2>3. r \in {"Mul", "Div"}
    BY <1>3, <1>r, <2>1, <2>2 DEF Slots
  <2>4. IsMext(slot[r]) /\ ~IsMext(slot[s])
    BY <1>4, <1>r, <2>3 DEF OrderInv, SlotOrder, MextAlone
  <2>5. slot[r].dst = 0 \/ slot[r].dst # slot[s].dst
    BY <1>4, <1>r, <2>3 DEF OrderInv, SlotOrder, WawSafe
  <2> QED BY <2>4, <2>5
<1>5. CASE s \in {"Mul", "Div"}
  <2>1. slot["Memory"] = None /\ slot["Execute"] = None
    BY <1>5 DEF WbSource
  <2>2. r # s
    BY <1>1, <1>r
  <2>3. r \in {"Mul", "Div"}
    BY <1>3, <1>r, <2>1 DEF Slots
  <2>4. slot["Mul"] = None \/ slot["Div"] = None
    BY DEF OrderInv, SlotOrder, MextAlone
  <2> QED BY <1>5, <1>r, <2>2, <2>3, <2>4
<1> QED BY <1>4, <1>5

\* Instructions commit in program order, except that EXU instructions overtake
\* a MUL or DIV that writes another register; a MUL or DIV overtakes nothing.
THEOREM CommitOrderHolds == Spec => CommitOrder
<1>1. Init => PipeInv /\ OrderInv
  BY InitCore, InitPath, InitAcct, InitOrder DEF PipeInv
<1>2. PipeInv /\ OrderInv /\ [Next]_vars => (PipeInv /\ OrderInv)'
  BY CoreStep, PathStep, AcctStep, OrderStep DEF PipeInv
<1>3. PipeInv /\ OrderInv /\ [Next]_vars =>
        [Len(done') > Len(done) =>
          \A s \in InFlightSlots :
              slot[s].id < Committed.id =>
                  /\ IsMext(slot[s])
                  /\ ~IsMext(Committed)
                  /\ slot[s].dst = 0 \/ slot[s].dst # Committed.dst]_vars
  <2> SUFFICES ASSUME PipeInv, OrderInv, [Next]_vars, Len(done') > Len(done),
                      NEW s \in InFlightSlots, slot[s].id < Committed.id
               PROVE  /\ IsMext(slot[s]) /\ ~IsMext(Committed)
                      /\ slot[s].dst = 0 \/ slot[s].dst # Committed.dst
    OBVIOUS
  <2>1. /\ WbSource \in {"Memory", "Div", "Mul"} /\ slot[WbSource] # None
        /\ Committed = slot[WbSource]
    BY CommitStep
  <2> QED BY <2>1, CommitLeaves
<1> QED BY <1>1, <1>2, <1>3, PTL DEF Spec, CommitOrder

=============================================================================

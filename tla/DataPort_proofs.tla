--------------------------- MODULE DataPort_proofs ---------------------------
(* The uncached data ports, for every FIFO size, address set and latency.    *)
(*                                                                           *)
(* LoadSeesStores and DrainsInOrder are not inductive: nothing in them says  *)
(* that the core is blocked while a load is on its way, which is what keeps  *)
(* a younger store out of the FIFO.  OneRequest adds it: the members that    *)
(* hold an accepted request (Outstanding lists them) are never full two at a *)
(* time, and full only while the core waits.                                 *)
EXTENDS DataPort, SequenceTheorems, TLAPS

Slots == [addr : Addrs, left : 0..(InfTime - 1)] \cup {Nothing}

Members == [r_busy : BOOLEAN, w_busy : BOOLEAN, pending_flush : BOOLEAN,
            rmiss : Slots, sched_r : Slots, sched_w : Slots]

Memories == [R : Slots, W : Slots]

Cores == [state : {"free", "waiting", "stalled", "retry"}, req : Seq(Reqs)]

\* The types of the port's members and of its environment.
TypeOK ==
    /\ entries \in Nat \cup {NoCache}
    /\ st \in Members
    /\ fifo \in Seq(Addrs)
    /\ mem \in Memories
    /\ core \in Cores
    /\ phase \in {"R", "W", "miss", "read", "write", "core", "tick"}
    /\ after \in {"core", "R"}

\* The member that holds the write the core waits for, in a class that
\* answers a store when memory does.
DirectWrite == IF entries <= 0 THEN mem.W ELSE Nothing

\* At most one member holds an accepted request, and only while the core
\* waits for it.
OneRequest ==
    /\ core.state # "waiting" =>
          /\ mem.R = Nothing /\ st.rmiss = Nothing /\ st.sched_r = Nothing
          /\ st.sched_w = Nothing /\ DirectWrite = Nothing
    /\ mem.R # Nothing => st.rmiss = Nothing
    /\ mem.R # Nothing \/ st.rmiss # Nothing => st.sched_r = Nothing
    /\ mem.R # Nothing \/ st.rmiss # Nothing \/ st.sched_r # Nothing =>
          st.sched_w = Nothing /\ DirectWrite = Nothing
    /\ st.sched_w # Nothing => DirectWrite = Nothing

\* A class without a FIFO buffers nothing, and NoCache defers nothing.
Unbuffered ==
    /\ entries <= 0 => fifo = <<>>
    /\ entries = NoCache =>
          st.rmiss = Nothing /\ st.sched_r = Nothing /\ st.sched_w = Nothing

IInv == TypeOK /\ OneRequest /\ Unbuffered /\ LoadSeesStores /\ DrainsInOrder

----------------------------------------------------------------------------

\* A filled slot is due at a finite tick, so it differs from Nothing.
LEMMA SlotFacts ==
    /\ \A n \in MemLats \cup {1}, a \in Addrs :
          In(n, a) \in Slots /\ In(n, a) # Nothing /\ In(n, a).addr = a
    /\ Nothing \in Slots /\ Nothing.addr \notin Addrs /\ ~Due(Nothing.left)
<1> USE DataPortAssumption, InfTimeAssumption
<1>1. ASSUME NEW n \in MemLats \cup {1}, NEW a \in Addrs
      PROVE  In(n, a) \in Slots /\ In(n, a) # Nothing /\ In(n, a).addr = a
  BY DEF Slots, In, Nothing
<1>2. Nothing \in Slots /\ Nothing.addr \notin Addrs /\ ~Due(Nothing.left)
  BY DEF Slots, Nothing, In, NoAddr, Due
<1> QED BY <1>1, <1>2

\* Waiting a tick neither empties nor moves a slot.
LEMMA LaterFacts ==
    ASSUME NEW x \in Slots
    PROVE  /\ Later(x) \in Slots
           /\ Later(x).addr = x.addr
           /\ Later(x) = Nothing <=> x = Nothing
<1> USE InfTimeAssumption
<1>1. CASE x = Nothing
  BY <1>1 DEF Later, Nothing, In, Elapse, Slots
<1>2. CASE x # Nothing
  <2>1. x \in [addr : Addrs, left : 0..(InfTime - 1)]
    BY <1>2 DEF Slots
  <2>2. Elapse(x.left) \in 0..(InfTime - 1)
    BY <2>1 DEF Elapse
  <2>3. Later(x) = [addr |-> x.addr, left |-> Elapse(x.left)]
    BY <2>1 DEF Later
  <2> QED BY <1>2, <2>1, <2>2, <2>3 DEF Slots, Nothing, In
<1> QED BY <1>1, <1>2

\* What is due is there.
LEMMA DueIsFilled ==
    ASSUME NEW x \in Slots, Due(x.left)
    PROVE  x # Nothing /\ x.addr \in Addrs
<1>1. x # Nothing
  BY InfTimeAssumption DEF Due, Nothing, In
<1> QED BY <1>1 DEF Slots

\* What a request to memory does: one channel is filled, the other is kept.
LEMMA SendFacts ==
    ASSUME mem \in Memories, NEW c \in {"R", "W"},
           NEW a \in Addrs, Send(c, a)
    PROVE  /\ mem' \in Memories
           /\ mem'[c] # Nothing /\ mem'[c].addr = a
           /\ c = "R" => mem'.W = mem.W
           /\ c = "W" => mem'.R = mem.R
<1>1. PICK n \in MemLats : mem' = [mem EXCEPT ![c] = In(n, a)]
  BY DEF Send
<1> QED BY <1>1, SlotFacts DEF Memories

\* A response frees the core.
LEMMA RespondFacts ==
    ASSUME NEW mop, NEW a, Respond(mop, a)
    PROVE  core' \in Cores /\ core'.state = "free"
<1>1. core' = [state |-> "free", req |-> <<>>] /\ <<>> \in Seq(Reqs)
  BY DEF Respond
<1> QED BY <1>1 DEF Cores

\* The FIFO operations: a store enters at the tail, so the head of a
\* non-empty FIFO stays, and draining only removes addresses.
LEMMA FifoFacts ==
    ASSUME NEW f \in Seq(Addrs), NEW a \in Addrs
    PROVE  /\ Append(f, a) \in Seq(Addrs) /\ Append(f, a) # <<>>
           /\ f # <<>> => Head(Append(f, a)) = Head(f)
           /\ f # <<>> => Head(f) \in Addrs /\ Tail(f) \in Seq(Addrs)
           /\ f # <<>> => Range(Tail(f)) \subseteq Range(f)
           /\ f = <<>> => Range(f) = {}
           /\ f = <<>> => Head(Append(f, a)) = a
<1>1. Append(f, a) \in Seq(Addrs) /\ Append(f, a) # <<>>
  BY AppendProperties
<1>2. f # <<>> => Head(Append(f, a)) = Head(f)
  OBVIOUS
<1>3. f # <<>> => Head(f) \in Addrs /\ Tail(f) \in Seq(Addrs)
  OBVIOUS
<1>4. ASSUME f # <<>> PROVE Range(Tail(f)) \subseteq Range(f)
  <2> SUFFICES ASSUME NEW i \in DOMAIN Tail(f)
               PROVE  Tail(f)[i] \in Range(f)
    BY DEF Range
  <2>1. Tail(f)[i] = f[i + 1] /\ i + 1 \in DOMAIN f
    BY <1>4
  <2> QED BY <2>1 DEF Range
<1>5. f = <<>> => Range(f) = {}
  BY DEF Range
<1> QED BY <1>1, <1>2, <1>3, <1>4, <1>5

\* The invariant holds initially.
LEMMA InitEstablishesIInv == Init => IInv
  BY SlotFacts, DataPortAssumption
  DEF Init, IInv, TypeOK, OneRequest, DirectWrite, Unbuffered, LoadSeesStores,
      DrainsInOrder, Range, NoCache, Members, Memories, Cores

\* recv_mem_resp for a read preserves the invariant: the answer moves to
\* sched_r_*, or frees the core.
LEMMA RecvReadRespPreservesIInv == IInv /\ RecvReadResp => IInv'
<1> SUFFICES ASSUME IInv, RecvReadResp PROVE IInv'
  OBVIOUS
<1> USE DEF IInv
<1>1. mem.R # Nothing /\ mem.R.addr \in Addrs
  <2>1. Due(mem.R.left) /\ mem.R \in Slots
    BY DEF RecvReadResp, TypeOK, Memories
  <2> QED BY <2>1, DueIsFilled
<1>2. mem' \in Memories /\ mem'.R = Nothing /\ mem'.W = mem.W
  BY SlotFacts DEF TypeOK, Memories, RecvReadResp
<1>3. /\ entries' = entries /\ fifo' = fifo /\ after' = after
      /\ phase' \in {"R", "W", "miss", "read", "write", "core", "tick"}
  BY DEF RecvReadResp
<1>4. CASE entries = NoCache
  <2>1. core' \in Cores /\ core'.state = "free"
    BY <1>4, RespondFacts DEF RecvReadResp
  <2>2. st' = [st EXCEPT !.r_busy = FALSE] /\ st \in Members
    BY <1>4 DEF RecvReadResp, TypeOK
  <2>3. /\ st' \in Members /\ st'.rmiss = st.rmiss /\ st'.w_busy = st.w_busy
        /\ st'.sched_r = st.sched_r /\ st'.sched_w = st.sched_w
    BY <2>2 DEF Members
  <2>4. TypeOK'
    BY <1>2, <1>3, <2>1, <2>3 DEF TypeOK
  <2>5. OneRequest' /\ Unbuffered'
    BY <1>1, <1>2, <1>3, <1>4, <2>1, <2>3
    DEF OneRequest, DirectWrite, Unbuffered
  <2>6. LoadSeesStores' /\ DrainsInOrder'
    BY <1>2, <1>3, <1>4, <2>3, SlotFacts, FifoFacts
    DEF LoadSeesStores, DrainsInOrder, Unbuffered, NoCache, TypeOK
  <2> QED BY <2>4, <2>5, <2>6
<1>5. CASE entries # NoCache
  <2>1. core' = core
    BY <1>5 DEF RecvReadResp, Quiet
  <2>2. st' = [st EXCEPT !.sched_r = In(1, mem.R.addr)] /\ st \in Members
    BY <1>5 DEF RecvReadResp, TypeOK
  <2>3. /\ st' \in Members /\ st'.rmiss = st.rmiss /\ st'.w_busy = st.w_busy
        /\ st'.sched_r # Nothing /\ st'.sched_w = st.sched_w
    BY <1>1, <2>2, SlotFacts DEF Members
  <2>4. TypeOK'
    BY <1>2, <1>3, <2>1, <2>3 DEF TypeOK
  <2>5. OneRequest' /\ Unbuffered'
    BY <1>1, <1>2, <1>3, <1>5, <2>1, <2>3
    DEF OneRequest, DirectWrite, Unbuffered
  <2>6. LoadSeesStores' /\ DrainsInOrder'
    BY <1>1, <1>2, <1>3, <2>3, SlotFacts
    DEF LoadSeesStores, DrainsInOrder, TypeOK, OneRequest
  <2> QED BY <2>4, <2>5, <2>6
<1> QED BY <1>4, <1>5

\* recv_mem_resp for a write preserves the invariant: after a pop the next
\* store is the head and the one outstanding, or the FIFO is empty.
LEMMA RecvWriteRespPreservesIInv == IInv /\ RecvWriteResp => IInv'
<1> SUFFICES ASSUME IInv, RecvWriteResp PROVE IInv'
  OBVIOUS
<1> USE DEF IInv
<1>1. mem.W # Nothing /\ mem.W.addr \in Addrs /\ st.w_busy
  <2>1. Due(mem.W.left) /\ mem.W \in Slots
    BY DEF RecvWriteResp, TypeOK, Memories
  <2> QED BY <2>1, DueIsFilled DEF DrainsInOrder
<1>2. /\ entries' = entries /\ after' = after
      /\ phase' \in {"R", "W", "miss", "read", "write", "core", "tick"}
  BY DEF RecvWriteResp
<1>3. st \in Members /\ mem \in Memories /\ entries \in Nat \cup {NoCache}
  BY DEF TypeOK
<1>4. CASE entries = NoCache
  <2>1. /\ mem' = [mem EXCEPT !.W = Nothing] /\ fifo' = fifo
        /\ st' = [st EXCEPT !.w_busy = FALSE]
        /\ Respond("Write", mem.W.addr)
    BY <1>4 DEF RecvWriteResp, NoCache
  <2>2. mem' \in Memories /\ mem'.R = mem.R /\ mem'.W = Nothing
    BY <1>3, <2>1, SlotFacts DEF Memories
  <2>3. /\ st' \in Members /\ st'.rmiss = st.rmiss /\ ~st'.w_busy
        /\ st'.sched_r = st.sched_r /\ st'.sched_w = st.sched_w
    BY <1>3, <2>1 DEF Members
  <2>4. core' \in Cores /\ core'.state = "free"
    BY <2>1, RespondFacts
  <2>5. TypeOK'
    BY <1>2, <2>1, <2>2, <2>3, <2>4 DEF TypeOK
  <2>6. OneRequest' /\ Unbuffered'
    BY <1>1, <1>2, <1>4, <2>1, <2>2, <2>3
    DEF OneRequest, DirectWrite, Unbuffered, NoCache
  <2>7. LoadSeesStores' /\ DrainsInOrder'
    BY <1>2, <1>4, <2>1, <2>2, <2>3
    DEF LoadSeesStores, DrainsInOrder, Unbuffered, NoCache
  <2> QED BY <2>5, <2>6, <2>7
<1>5. CASE entries = 0
  <2>1. /\ mem' = [mem EXCEPT !.W = Nothing] /\ fifo' = fifo
        /\ st' = [st EXCEPT !.w_busy = FALSE, !.sched_w = In(1, mem.W.addr)]
        /\ core' = core
    BY <1>5 DEF RecvWriteResp, NoCache, Quiet
  <2>2. mem' \in Memories /\ mem'.R = mem.R /\ mem'.W = Nothing
    BY <1>3, <2>1, SlotFacts DEF Memories
  <2>3. /\ st' \in Members /\ st'.rmiss = st.rmiss /\ ~st'.w_busy
        /\ st'.sched_r = st.sched_r /\ st'.sched_w # Nothing
    BY <1>1, <1>3, <2>1, SlotFacts DEF Members
  <2>4. TypeOK'
    BY <1>2, <2>1, <2>2, <2>3 DEF TypeOK
  <2>5. OneRequest' /\ Unbuffered'
    BY <1>1, <1>2, <1>5, <2>1, <2>2, <2>3
    DEF OneRequest, DirectWrite, Unbuffered, NoCache
  <2>6. LoadSeesStores' /\ DrainsInOrder'
    BY <1>2, <1>5, <2>1, <2>2, <2>3
    DEF LoadSeesStores, DrainsInOrder
  <2> QED BY <2>4, <2>5, <2>6
<1>6. CASE entries # NoCache /\ entries # 0
  <2>1. /\ core' = IF TellsCore THEN Acked ELSE core
        /\ fifo' = Tail(fifo)
        /\ Drained
        /\ entries > 0
    BY <1>3, <1>6 DEF RecvWriteResp, NoCache
  <2>2. /\ fifo # <<>> /\ fifo' \in Seq(Addrs)
        /\ Range(fifo') \subseteq Range(fifo)
        /\ fifo' # <<>> => Head(fifo') \in Addrs
    BY <1>1, <2>1, FifoFacts DEF TypeOK, DrainsInOrder
  <2>3. core' \in Cores /\ (core'.state = "waiting" <=> core.state = "waiting")
    BY <2>1 DEF TypeOK, Acked, Cores
  <2>4. CASE Tail(fifo) # <<>>
    <3>1. Send("W", Head(fifo')) /\ st' = st /\ Head(fifo') \in Addrs
      BY <2>1, <2>2, <2>4 DEF Drained
    <3>2. /\ mem' \in Memories /\ mem'.R = mem.R
          /\ mem'.W # Nothing /\ mem'.W.addr = Head(fifo')
      BY <1>3, <3>1, SendFacts
    <3>3. TypeOK'
      BY <1>2, <2>2, <2>3, <3>1, <3>2 DEF TypeOK
    <3>4. OneRequest' /\ Unbuffered'
      <4>1. ~(entries <= 0) /\ entries # NoCache
        BY <1>3, <1>6, <2>1
      <4>2. DirectWrite = Nothing /\ DirectWrite' = Nothing
        BY <1>2, <4>1 DEF DirectWrite
      <4> QED BY <1>2, <2>3, <3>1, <3>2, <4>1, <4>2
              DEF OneRequest, Unbuffered
    <3>5. LoadSeesStores' /\ DrainsInOrder'
      BY <1>1, <1>2, <2>1, <2>2, <2>4, <3>1, <3>2
      DEF LoadSeesStores, DrainsInOrder
    <3> QED BY <3>3, <3>4, <3>5
  <2>5. CASE Tail(fifo) = <<>>
    <3>1. /\ st' = [st EXCEPT !.w_busy = FALSE]
          /\ mem' = [mem EXCEPT !.W = Nothing]
      BY <2>1, <2>5 DEF Drained, DrainEnds
    <3>2. mem' \in Memories /\ mem'.R = mem.R /\ mem'.W = Nothing
      BY <1>3, <3>1, SlotFacts DEF Memories
    <3>3. /\ st' \in Members /\ st'.rmiss = st.rmiss /\ ~st'.w_busy
          /\ st'.sched_r = st.sched_r /\ st'.sched_w = st.sched_w
      BY <1>3, <3>1 DEF Members
    <3>4. TypeOK'
      BY <1>2, <2>2, <2>3, <3>2, <3>3 DEF TypeOK
    <3>5. OneRequest' /\ Unbuffered'
      BY <1>2, <2>1, <2>3, <3>2, <3>3
      DEF OneRequest, DirectWrite, Unbuffered, NoCache
    <3>6. LoadSeesStores' /\ DrainsInOrder'
      BY <1>2, <2>1, <2>2, <2>5, <3>2, <3>3
      DEF LoadSeesStores, DrainsInOrder
    <3> QED BY <3>4, <3>5, <3>6
  <2> QED BY <2>4, <2>5
<1> QED BY <1>4, <1>5, <1>6

\* update_impl, first part: the miss moves from the port to memory.
LEMMA SendMissPreservesIInv == IInv /\ SendMiss => IInv'
<1> SUFFICES ASSUME IInv, SendMiss PROVE IInv'
  OBVIOUS
<1> USE DEF IInv
<1>1. /\ entries' = entries /\ fifo' = fifo /\ after' = after /\ core' = core
      /\ phase' \in {"R", "W", "miss", "read", "write", "core", "tick"}
      /\ st' = [st EXCEPT !.rmiss = Nothing]
      /\ Send("R", st.rmiss.addr)
  BY DEF SendMiss, Quiet
<1>2. st \in Members /\ mem \in Memories
  BY DEF TypeOK
<1>3. st.rmiss # Nothing /\ st.rmiss.addr \in Addrs
  <2>1. Due(st.rmiss.left) /\ st.rmiss \in Slots
    BY <1>2 DEF SendMiss, Members
  <2> QED BY <2>1, DueIsFilled
<1>4. /\ mem' \in Memories /\ mem'.W = mem.W
      /\ mem'.R # Nothing /\ mem'.R.addr = st.rmiss.addr
  BY <1>1, <1>2, <1>3, SendFacts
<1>5. /\ st' \in Members /\ st'.rmiss = Nothing /\ st'.w_busy = st.w_busy
      /\ st'.sched_r = st.sched_r /\ st'.sched_w = st.sched_w
  BY <1>1, <1>2, SlotFacts DEF Members
<1>6. TypeOK'
  BY <1>1, <1>4, <1>5 DEF TypeOK
<1>7. OneRequest' /\ Unbuffered'
  BY <1>1, <1>3, <1>4, <1>5 DEF OneRequest, DirectWrite, Unbuffered
<1>8. LoadSeesStores'
  <2>1. mem.R = Nothing
    BY <1>3 DEF OneRequest
  <2> QED BY <1>1, <1>4, <1>5, <2>1 DEF LoadSeesStores
<1>9. DrainsInOrder'
  BY <1>1, <1>4, <1>5 DEF DrainsInOrder
<1> QED BY <1>6, <1>7, <1>8, <1>9

\* update_impl, second part: the scheduled read response.
LEMMA DeliverReadPreservesIInv == IInv /\ DeliverRead => IInv'
<1> SUFFICES ASSUME IInv, DeliverRead PROVE IInv'
  OBVIOUS
<1> USE DEF IInv
<1>1. /\ entries' = entries /\ fifo' = fifo /\ after' = after /\ mem' = mem
      /\ phase' \in {"R", "W", "miss", "read", "write", "core", "tick"}
      /\ st' = [st EXCEPT !.sched_r = Nothing, !.r_busy = FALSE]
      /\ Respond("Read", st.sched_r.addr)
  BY DEF DeliverRead, AfterRead
<1>2. st \in Members
  BY DEF TypeOK
<1>3. st.sched_r # Nothing
  <2>1. Due(st.sched_r.left) /\ st.sched_r \in Slots
    BY <1>2 DEF DeliverRead, Members
  <2> QED BY <2>1, DueIsFilled
<1>4. /\ st' \in Members /\ st'.rmiss = st.rmiss /\ st'.w_busy = st.w_busy
      /\ st'.sched_r = Nothing /\ st'.sched_w = st.sched_w
  BY <1>1, <1>2, SlotFacts DEF Members
<1>5. core' \in Cores
  BY <1>1, RespondFacts
<1>6. TypeOK'
  BY <1>1, <1>4, <1>5 DEF TypeOK
<1>7. OneRequest' /\ Unbuffered'
  BY <1>1, <1>3, <1>4 DEF OneRequest, DirectWrite, Unbuffered
<1>8. LoadSeesStores' /\ DrainsInOrder'
  BY <1>1, <1>4 DEF LoadSeesStores, DrainsInOrder
<1> QED BY <1>6, <1>7, <1>8

\* update_impl, third part: the scheduled write response, which starts the
\* drain of a FIFO that was empty when the store came.
LEMMA DeliverWritePreservesIInv == IInv /\ DeliverWrite => IInv'
<1> SUFFICES ASSUME IInv, DeliverWrite PROVE IInv'
  OBVIOUS
<1> USE DEF IInv
<1> DEFINE starts == fifo # <<>> /\ ~st.w_busy
<1>1. /\ entries' = entries /\ fifo' = fifo /\ after' = "core"
      /\ phase' = after
      /\ st' = [st EXCEPT !.sched_w = Nothing,
                          !.w_busy = st.w_busy \/ starts]
      /\ IF starts THEN Send("W", Head(fifo)) ELSE UNCHANGED mem
      /\ Respond("Write", st.sched_w.addr)
  BY DEF DeliverWrite
<1>2. st \in Members /\ mem \in Memories /\ fifo \in Seq(Addrs)
      /\ entries \in Nat \cup {NoCache}
  BY DEF TypeOK
<1>3. st.sched_w # Nothing
  <2>1. Due(st.sched_w.left) /\ st.sched_w \in Slots
    BY <1>2 DEF DeliverWrite, Members
  <2> QED BY <2>1, DueIsFilled
<1>4. /\ st' \in Members /\ st'.rmiss = st.rmiss
      /\ st'.w_busy = (st.w_busy \/ starts)
      /\ st'.sched_r = st.sched_r /\ st'.sched_w = Nothing
  BY <1>1, <1>2, SlotFacts DEF Members
<1>5. core' \in Cores /\ core'.state = "free"
  BY <1>1, RespondFacts
<1>6. /\ mem' \in Memories /\ mem'.R = mem.R
      /\ starts => mem'.W # Nothing /\ mem'.W.addr = Head(fifo)
      /\ ~starts => mem'.W = mem.W
  <2>1. CASE starts
    <3>1. Send("W", Head(fifo)) /\ Head(fifo) \in Addrs
      BY <1>1, <1>2, <2>1, FifoFacts
    <3> QED BY <1>2, <2>1, <3>1, SendFacts
  <2>2. CASE ~starts
    BY <1>1, <1>2, <2>2
  <2> QED BY <2>1, <2>2
<1>7. TypeOK'
  BY <1>1, <1>4, <1>5, <1>6 DEF TypeOK
<1>8. entries <= 0 => ~starts
  BY DEF Unbuffered
<1>9. OneRequest' /\ Unbuffered'
  <2>1. DirectWrite' = DirectWrite
    BY <1>1, <1>6, <1>8 DEF DirectWrite
  <2> QED BY <1>1, <1>3, <1>4, <1>6, <2>1 DEF OneRequest, Unbuffered
<1>10. LoadSeesStores'
  BY <1>1, <1>4, <1>6 DEF LoadSeesStores
<1>11. DrainsInOrder'
  BY <1>1, <1>4, <1>6, <1>8 DEF DrainsInOrder
<1> QED BY <1>7, <1>9, <1>10, <1>11

\* A part of the tick in which nothing is due changes nothing but the phase.
LEMMA NothingDuePreservesIInv == IInv /\ NothingDue => IInv'
<1> SUFFICES ASSUME IInv, NothingDue PROVE IInv'
  OBVIOUS
<1>1. UNCHANGED <<entries, st, fifo, mem, core>>
  BY DEF NothingDue, Quiet
<1>2. /\ phase' \in {"R", "W", "miss", "read", "write", "core", "tick"}
      /\ after' \in {"core", "R"}
  BY DEF NothingDue, IInv, TypeOK
<1> QED BY <1>1, <1>2 DEF IInv, TypeOK, OneRequest, DirectWrite, Unbuffered,
                          LoadSeesStores, DrainsInOrder

\* A request the port does not take changes only the core.
LEMMA RefusedPreservesIInv ==
    ASSUME IInv, NEW r \in Reqs, SendLsuReq(r), ~is_ready(r.mop)
    PROVE  IInv'
<1>1. /\ UNCHANGED <<entries, st, fifo, mem, after>>
      /\ core' = [state |-> "stalled", req |-> <<r>>]
      /\ phase' \in {"R", "W", "miss", "read", "write", "core", "tick"}
      /\ core.state # "waiting"
  BY DEF SendLsuReq
<1>2. core' \in Cores
  BY <1>1 DEF Cores
<1> QED BY <1>1, <1>2 DEF IInv, TypeOK, OneRequest, DirectWrite, Unbuffered,
                          LoadSeesStores, DrainsInOrder

\* The core asks only when it waits for nothing, so every member that holds a
\* request is empty.
LEMMA AskedWhenEmpty ==
    ASSUME IInv, NEW r \in Reqs, SendLsuReq(r)
    PROVE  /\ mem.R = Nothing /\ st.rmiss = Nothing /\ st.sched_r = Nothing
           /\ st.sched_w = Nothing /\ DirectWrite = Nothing
<1>1. core.state # "waiting"
  BY DEF SendLsuReq
<1> QED BY <1>1 DEF IInv, OneRequest

\* read_req preserves the invariant: a load goes to memory only when no
\* buffered store has its address.
LEMMA ReadReqPreservesIInv ==
    ASSUME IInv, NEW r \in Reqs, SendLsuReq(r), is_ready(r.mop),
           r.mop = "Read"
    PROVE  IInv'
<1> USE DEF IInv
<1>1. /\ UNCHANGED <<entries, after>>
      /\ core' = [state |-> "waiting", req |-> <<r>>]
      /\ phase' \in {"R", "W", "miss", "read", "write", "core", "tick"}
      /\ read_req(r.addr)
  BY DEF SendLsuReq
<1>2. st \in Members /\ mem \in Memories /\ r.addr \in Addrs /\ core' \in Cores
      /\ core'.state = "waiting" /\ fifo' = fifo
  BY <1>1 DEF TypeOK, Reqs, Cores, read_req
<1>3. CASE entries = NoCache
  <2>1. Send("R", r.addr) /\ st' = [st EXCEPT !.r_busy = TRUE]
    BY <1>1, <1>3 DEF read_req
  <2>2. mem' \in Memories /\ mem'.R # Nothing /\ mem'.W = mem.W
    BY <1>2, <2>1, SendFacts
  <2>3. /\ st' \in Members /\ st'.rmiss = st.rmiss /\ st'.w_busy = st.w_busy
        /\ st'.sched_r = st.sched_r /\ st'.sched_w = st.sched_w
    BY <1>2, <2>1 DEF Members
  <2>4. TypeOK'
    BY <1>1, <1>2, <2>2, <2>3 DEF TypeOK
  <2>5. OneRequest' /\ Unbuffered'
    BY <1>1, <1>2, <1>3, <2>2, <2>3, AskedWhenEmpty
    DEF OneRequest, DirectWrite, Unbuffered
  <2>6. LoadSeesStores' /\ DrainsInOrder'
    <3>1. Range(fifo') = {}
      BY <1>2, <1>3 DEF Unbuffered, NoCache, Range
    <3> QED BY <1>1, <1>2, <1>3, <2>2, <2>3, <3>1
            DEF LoadSeesStores, DrainsInOrder
  <2> QED BY <2>4, <2>5, <2>6
<1>4. CASE entries # NoCache /\ Forwards(r.addr)
  <2>1. st' = [st EXCEPT !.sched_r = In(1, r.addr)] /\ mem' = mem
    BY <1>1, <1>4 DEF read_req
  <2>2. /\ st' \in Members /\ st'.rmiss = st.rmiss /\ st'.w_busy = st.w_busy
        /\ st'.sched_r # Nothing /\ st'.sched_w = st.sched_w
    BY <1>2, <2>1, SlotFacts DEF Members
  <2>3. TypeOK'
    BY <1>1, <1>2, <2>1, <2>2 DEF TypeOK
  <2>4. OneRequest' /\ Unbuffered'
    BY <1>1, <1>2, <1>4, <2>1, <2>2, AskedWhenEmpty
    DEF OneRequest, DirectWrite, Unbuffered
  <2>5. LoadSeesStores' /\ DrainsInOrder'
    BY <1>1, <1>2, <2>1, <2>2 DEF LoadSeesStores, DrainsInOrder
  <2> QED BY <2>3, <2>4, <2>5
<1>5. CASE entries # NoCache /\ ~Forwards(r.addr)
  <2>1. st' = [st EXCEPT !.rmiss = In(1, r.addr), !.r_busy = TRUE]
        /\ mem' = mem
    BY <1>1, <1>5 DEF read_req
  <2>2. /\ st' \in Members /\ st'.rmiss # Nothing /\ st'.rmiss.addr = r.addr
        /\ st'.w_busy = st.w_busy
        /\ st'.sched_r = st.sched_r /\ st'.sched_w = st.sched_w
    BY <1>2, <2>1, SlotFacts DEF Members
  <2>3. TypeOK'
    BY <1>1, <1>2, <2>1, <2>2 DEF TypeOK
  <2>4. OneRequest' /\ Unbuffered'
    BY <1>1, <1>2, <1>5, <2>1, <2>2, AskedWhenEmpty
    DEF OneRequest, DirectWrite, Unbuffered
  <2>5. LoadSeesStores' /\ DrainsInOrder'
    BY <1>1, <1>2, <1>5, <2>1, <2>2
    DEF LoadSeesStores, DrainsInOrder, Forwards
  <2> QED BY <2>3, <2>4, <2>5
<1> QED BY <1>3, <1>4, <1>5

\* write_req preserves the invariant: nothing that a store could overtake is
\* on its way, and the head of the FIFO stays.
LEMMA WriteReqPreservesIInv ==
    ASSUME IInv, NEW r \in Reqs, SendLsuReq(r), is_ready(r.mop),
           r.mop # "Read"
    PROVE  IInv'
<1> USE DEF IInv
<1>1. /\ UNCHANGED <<entries, after>>
      /\ core' = [state |-> "waiting", req |-> <<r>>]
      /\ phase' \in {"R", "W", "miss", "read", "write", "core", "tick"}
      /\ write_req(r.addr)
  BY DEF SendLsuReq
<1>2. st \in Members /\ mem \in Memories /\ r.addr \in Addrs /\ core' \in Cores
      /\ core'.state = "waiting" /\ fifo \in Seq(Addrs)
      /\ entries \in Nat \cup {NoCache}
  BY <1>1 DEF TypeOK, Reqs, Cores
<1>3. CASE entries <= 0
  <2>1. /\ Send("W", r.addr) /\ st' = [st EXCEPT !.w_busy = TRUE]
        /\ fifo' = fifo
    BY <1>1, <1>3 DEF write_req
  <2>2. mem' \in Memories /\ mem'.W # Nothing /\ mem'.R = mem.R
    BY <1>2, <2>1, SendFacts
  <2>3. /\ st' \in Members /\ st'.rmiss = st.rmiss /\ st'.w_busy
        /\ st'.sched_r = st.sched_r /\ st'.sched_w = st.sched_w
    BY <1>2, <2>1 DEF Members
  <2>4. TypeOK'
    BY <1>1, <1>2, <2>1, <2>2, <2>3 DEF TypeOK
  <2>5. OneRequest' /\ Unbuffered'
    BY <1>1, <1>2, <1>3, <2>1, <2>2, <2>3, AskedWhenEmpty
    DEF OneRequest, Unbuffered
  <2>6. LoadSeesStores' /\ DrainsInOrder'
    <3>1. ~(entries > 0)
      BY <1>2, <1>3 DEF NoCache
    <3> QED BY <1>1, <1>3, <2>1, <2>2, <2>3, <3>1
            DEF LoadSeesStores, DrainsInOrder
  <2> QED BY <2>4, <2>5, <2>6
<1>4. CASE ~(entries <= 0)
  <2>1. /\ fifo' = Append(fifo, r.addr) /\ mem' = mem
        /\ st' = [st EXCEPT !.sched_w = In(1, r.addr)]
    BY <1>1, <1>4 DEF write_req
  <2>2. /\ st' \in Members /\ st'.rmiss = st.rmiss /\ st'.w_busy = st.w_busy
        /\ st'.sched_r = st.sched_r /\ st'.sched_w # Nothing
    BY <1>2, <2>1, SlotFacts DEF Members
  <2>3. /\ fifo' \in Seq(Addrs) /\ fifo' # <<>>
        /\ fifo # <<>> => Head(fifo') = Head(fifo)
    BY <1>2, <2>1, FifoFacts
  <2>4. TypeOK'
    BY <1>1, <1>2, <2>1, <2>2, <2>3 DEF TypeOK
  <2>5. OneRequest' /\ Unbuffered'
    <3>1. DirectWrite' = Nothing /\ entries # NoCache
      BY <1>1, <1>4 DEF DirectWrite, NoCache
    <3> QED BY <1>1, <1>2, <1>4, <2>1, <2>2, <3>1, AskedWhenEmpty
            DEF OneRequest, Unbuffered
  <2>6. LoadSeesStores'
    <3>1. st'.rmiss.addr \notin Addrs /\ mem'.R.addr \notin Addrs
      BY <2>1, <2>2, AskedWhenEmpty, SlotFacts
    <3>2. Range(fifo') \subseteq Addrs
      BY <2>3 DEF Range
    <3> QED BY <3>1, <3>2 DEF LoadSeesStores
  <2>7. DrainsInOrder'
    BY <1>1, <2>1, <2>2, <2>3 DEF DrainsInOrder
  <2> QED BY <2>4, <2>5, <2>6, <2>7
<1> QED BY <1>3, <1>4

\* A tick brings every deadline one closer and fills or empties nothing.
LEMMA AdvancePreservesIInv ==
    ASSUME IInv, Advance, NEW flush \in BOOLEAN,
           st' = [Clocked EXCEPT !.pending_flush = flush],
           phase' \in {"R", "miss"}, after' \in {"core", "R"}
    PROVE  IInv'
<1> USE DEF IInv
<1>1. st \in Members /\ mem \in Memories
  BY DEF TypeOK
<1>2. UNCHANGED <<entries, fifo, core>>
  BY DEF Advance, Quiet
<1>3. /\ mem' = [c \in {"R", "W"} |-> Later(mem[c])]
      /\ DOMAIN mem = {"R", "W"}
  BY <1>1 DEF Advance, Memories
<1>4. mem' \in Memories /\ mem'.R = Later(mem.R) /\ mem'.W = Later(mem.W)
  <2>1. mem' = [R |-> Later(mem.R), W |-> Later(mem.W)]
    BY <1>3
  <2>2. Later(mem.R) \in Slots /\ Later(mem.W) \in Slots
    BY <1>1, LaterFacts DEF Memories
  <2> QED BY <2>1, <2>2 DEF Memories
<1>5. /\ st' \in Members /\ st'.w_busy = st.w_busy
      /\ st'.rmiss = Later(st.rmiss) /\ st'.sched_r = Later(st.sched_r)
      /\ st'.sched_w = Later(st.sched_w)
  <2>1. /\ Later(st.rmiss) \in Slots /\ Later(st.sched_r) \in Slots
        /\ Later(st.sched_w) \in Slots
    BY <1>1, LaterFacts DEF Members
  <2> QED BY <1>1, <2>1 DEF Clocked, Members
<1>6. \A x \in {mem.R, mem.W, st.rmiss, st.sched_r, st.sched_w} :
         Later(x).addr = x.addr /\ (Later(x) = Nothing <=> x = Nothing)
  BY <1>1, LaterFacts DEF Members, Memories
<1>7. TypeOK'
  BY <1>2, <1>4, <1>5 DEF TypeOK
<1>8. OneRequest' /\ Unbuffered'
  BY <1>2, <1>4, <1>5, <1>6 DEF OneRequest, DirectWrite, Unbuffered
<1>9. LoadSeesStores' /\ DrainsInOrder'
  BY <1>2, <1>4, <1>5, <1>6 DEF LoadSeesStores, DrainsInOrder
<1> QED BY <1>7, <1>8, <1>9

\* Both kinds of tick, with and without fence.i.
LEMMA TickPreservesIInv == IInv /\ (Tick \/ TickFenceI) => IInv'
<1>1. ASSUME IInv, Tick PROVE IInv'
  <2>1. Clocked = [Clocked EXCEPT !.pending_flush = st.pending_flush]
        /\ st.pending_flush \in BOOLEAN
    BY <1>1 DEF IInv, TypeOK, Members, Clocked
  <2> QED BY <1>1, <2>1, AdvancePreservesIInv DEF Tick, IInv, TypeOK
<1>2. ASSUME IInv, TickFenceI PROVE IInv'
  BY <1>2, AdvancePreservesIInv DEF TickFenceI
<1> QED BY <1>1, <1>2

\* Every step preserves the invariant.
LEMMA NextPreservesIInv == IInv /\ [Next]_vars => IInv'
<1> SUFFICES ASSUME IInv, [Next]_vars PROVE IInv'
  OBVIOUS
<1>1. CASE UNCHANGED vars
  BY <1>1 DEF IInv, TypeOK, OneRequest, DirectWrite, Unbuffered,
              LoadSeesStores, DrainsInOrder, vars
<1>2. ASSUME NEW r \in Reqs, SendLsuReq(r) PROVE IInv'
  BY <1>2, RefusedPreservesIInv, ReadReqPreservesIInv, WriteReqPreservesIInv
<1> QED BY <1>1, <1>2, RecvReadRespPreservesIInv, RecvWriteRespPreservesIInv,
           SendMissPreservesIInv, DeliverReadPreservesIInv,
           DeliverWritePreservesIInv, NothingDuePreservesIInv,
           TickPreservesIInv
        DEF Next

----------------------------------------------------------------------------

\* The inductive invariant, for every class, FIFO size and memory latency.
THEOREM Invariance == Spec => []IInv
<1>1. Init => IInv
  BY InitEstablishesIInv
<1>2. IInv /\ [Next]_vars => IInv'
  BY NextPreservesIInv
<1> QED BY <1>1, <1>2, PTL DEF Spec

\* A load that goes to memory never overtakes a buffered store to the same
\* word (StoreBuffer::read_req).
THEOREM LoadSeesStoresHolds == Spec => []LoadSeesStores
<1>1. IInv => LoadSeesStores
  BY DEF IInv
<1> QED BY <1>1, Invariance, PTL

\* The FIFO drains in order, what the assert in StoreBuffer::recv_mem_resp
\* says, and no buffered store is stranded.
THEOREM DrainsInOrderHolds == Spec => []DrainsInOrder
<1>1. IInv => DrainsInOrder
  BY DEF IInv
<1> QED BY <1>1, Invariance, PTL

----------------------------------------------------------------------------
(* The step simulation of CachePort.  OneRequest makes Outstanding the       *)
(* contents of the one full member, so a step either moves the request to    *)
(* another member, answers it, or takes a new one into an empty port.        *)

\* The requests in five members, in the order in which Outstanding lists them.
InMembers(a, b, c, d, e) ==
    Held("Read", a) \o Held("Read", b) \o Held("Read", c) \o Held("Write", d)
    \o Held("Write", e)

\* Outstanding is InMembers of the members, now and after the step.
LEMMA OutstandingIsInMembers ==
    /\ Outstanding = InMembers(mem.R, st.rmiss, st.sched_r, st.sched_w,
                               DirectWrite)
    /\ Outstanding' = InMembers(mem'.R, st'.rmiss, st'.sched_r, st'.sched_w,
                                DirectWrite')
<1>1. (IF entries <= 0 THEN Held("Write", mem.W) ELSE <<>>)
      = Held("Write", DirectWrite)
  BY DEF DirectWrite, Held
<1>2. (IF entries' <= 0 THEN Held("Write", mem'.W) ELSE <<>>)
      = Held("Write", DirectWrite')
  BY DEF DirectWrite, Held
<1> QED BY <1>1, <1>2 DEF Outstanding, InMembers

\* With one member full, the list is that member's request.
LEMMA OneInMembers ==
    ASSUME NEW x \in Slots
    PROVE  /\ InMembers(x, Nothing, Nothing, Nothing, Nothing) = Held("Read", x)
           /\ InMembers(Nothing, x, Nothing, Nothing, Nothing) = Held("Read", x)
           /\ InMembers(Nothing, Nothing, x, Nothing, Nothing) = Held("Read", x)
           /\ InMembers(Nothing, Nothing, Nothing, x, Nothing)
              = Held("Write", x)
           /\ InMembers(Nothing, Nothing, Nothing, Nothing, x)
              = Held("Write", x)
<1>1. ASSUME NEW m PROVE Held(m, Nothing) = <<>>
  BY DEF Held
<1>2. PICK S : Held("Read", x) \in Seq(S) /\ Held("Write", x) \in Seq(S)
  <2> DEFINE rd == [mop |-> "Read", addr |-> x.addr]
             wr == [mop |-> "Write", addr |-> x.addr]
  <2>1. Held("Read", x) \in {<<>>, <<rd>>} /\ Held("Write", x) \in {<<>>, <<wr>>}
    BY DEF Held
  <2> HIDE DEF rd, wr
  <2>2. \A T : \A a \in T : <<a>> \in Seq(T)
    OBVIOUS
  <2>3. /\ <<rd>> \in Seq({rd, wr}) /\ <<wr>> \in Seq({rd, wr})
        /\ <<>> \in Seq({rd, wr})
    BY <2>2, EmptySeq
  <2> QED BY <2>1, <2>3
<1>3. \A s \in Seq(S) : s \o <<>> = s /\ <<>> \o s = s
  BY ConcatEmptySeq
<1>4. <<>> \in Seq(S)
  BY EmptySeq
<1> QED BY <1>1, <1>2, <1>3, <1>4, Zenon DEF InMembers

\* With every member empty, the list is empty.
LEMMA NothingInMembers ==
    InMembers(Nothing, Nothing, Nothing, Nothing, Nothing) = <<>>
  BY OneInMembers, SlotFacts DEF Held

\* Three kinds of step of the abstract port.
LEMMA PortSteps ==
    /\ Outstanding' = Outstanding /\ resp' = <<>> => Port!Next
    /\ \A r : /\ Outstanding = <<r>> /\ Outstanding' = <<>>
              /\ resp' = <<r>>
              => Port!Next
    /\ \A r \in Reqs : /\ Outstanding = <<>> /\ Outstanding' = <<r>>
                       /\ resp' = <<>>
                       => Port!Next
<1>1. Outstanding' = Outstanding /\ resp' = <<>> => Port!Next
  BY DEF Port!Next, Port!Idle
<1>2. ASSUME NEW r, Outstanding = <<r>>, Outstanding' = <<>>, resp' = <<r>>
      PROVE  Port!Next
  <2>1. <<r>> # <<>> /\ Head(<<r>>) = r /\ Tail(<<r>>) = <<>>
    OBVIOUS
  <2> QED BY <1>2, <2>1 DEF Port!Next, Port!Respond
<1>3. ASSUME NEW r \in Reqs, Outstanding = <<>>, Outstanding' = <<r>>,
             resp' = <<>>
      PROVE  Port!Next
  <2>1. Append(<<>>, r) = <<r>> /\ Len(<<>>) < 1
    OBVIOUS
  <2> QED BY <1>3, <2>1 DEF Port!Next, Port!Accept
<1> QED BY <1>1, <1>2, <1>3

\* A memory read response either answers the core or moves to sched_r_*.
LEMMA RecvReadRespSimulates == IInv /\ RecvReadResp => Port!Next
<1> SUFFICES ASSUME IInv, RecvReadResp PROVE Port!Next
  OBVIOUS
<1> DEFINE r == [mop |-> "Read", addr |-> mem.R.addr]
<1>1. mem.R # Nothing /\ mem.R \in Slots /\ mem.R.addr \in Addrs
  <2>1. Due(mem.R.left) /\ mem.R \in Slots
    BY DEF IInv, RecvReadResp, TypeOK, Memories
  <2> QED BY <2>1, DueIsFilled
<1>2. mem'.R = Nothing /\ DirectWrite' = DirectWrite
  BY DEF IInv, RecvReadResp, TypeOK, Memories, DirectWrite
<1>3. /\ st.rmiss = Nothing /\ st.sched_r = Nothing
      /\ st.sched_w = Nothing /\ DirectWrite = Nothing
  BY <1>1 DEF IInv, OneRequest
<1>4. Outstanding = <<r>>
  <2>1. Outstanding = Held("Read", mem.R)
    BY <1>1, <1>3, OutstandingIsInMembers, OneInMembers
  <2> QED BY <1>1, <2>1 DEF Held
<1>5. CASE entries = NoCache
  <2>1. resp' = <<r>> /\ st' = [st EXCEPT !.r_busy = FALSE] /\ st \in Members
    BY <1>5 DEF RecvReadResp, Respond, IInv, TypeOK
  <2>2. /\ st'.rmiss = Nothing /\ st'.sched_r = Nothing
        /\ st'.sched_w = Nothing
    BY <1>3, <2>1 DEF Members
  <2>3. Outstanding' = <<>>
    BY <1>2, <1>3, <2>2, NothingInMembers, OutstandingIsInMembers
  <2> QED BY <1>4, <2>1, <2>3, PortSteps
<1>6. CASE entries # NoCache
  <2>1. /\ resp' = <<>> /\ st' = [st EXCEPT !.sched_r = In(1, mem.R.addr)]
        /\ st \in Members
    BY <1>6 DEF RecvReadResp, Quiet, IInv, TypeOK
  <2>2. /\ st'.rmiss = Nothing /\ st'.sched_w = Nothing
        /\ st'.sched_r = In(1, mem.R.addr)
    BY <1>3, <2>1 DEF Members
  <2>3. /\ In(1, mem.R.addr) \in Slots /\ In(1, mem.R.addr) # Nothing
        /\ In(1, mem.R.addr).addr = mem.R.addr
    BY <1>1, SlotFacts
  <2>4. Outstanding' = Held("Read", In(1, mem.R.addr))
    BY <1>2, <1>3, <2>2, <2>3, OutstandingIsInMembers, OneInMembers
  <2>5. Outstanding' = <<r>>
    BY <2>3, <2>4 DEF Held
  <2> QED BY <1>4, <2>1, <2>5, PortSteps
<1> QED BY <1>5, <1>6

\* A memory write response answers the core (NoCache), moves to sched_w_*
\* (no entries), or concerns a store that was answered long ago.
LEMMA RecvWriteRespSimulates == IInv /\ RecvWriteResp => Port!Next
<1> SUFFICES ASSUME IInv, RecvWriteResp PROVE Port!Next
  OBVIOUS
<1> DEFINE r == [mop |-> "Write", addr |-> mem.W.addr]
<1>1. mem.W # Nothing /\ mem.W \in Slots /\ mem.W.addr \in Addrs
  <2>1. Due(mem.W.left) /\ mem.W \in Slots
    BY DEF IInv, RecvWriteResp, TypeOK, Memories
  <2> QED BY <2>1, DueIsFilled
<1>2. /\ st \in Members /\ mem \in Memories /\ entries' = entries
      /\ entries \in Nat \cup {NoCache} /\ fifo \in Seq(Addrs)
  BY DEF IInv, TypeOK, RecvWriteResp
<1>3. ASSUME entries <= 0
      PROVE  /\ mem.R = Nothing /\ st.rmiss = Nothing /\ st.sched_r = Nothing
             /\ st.sched_w = Nothing /\ Outstanding = <<r>>
  <2>1. DirectWrite = mem.W
    BY <1>3 DEF DirectWrite
  <2>2. /\ mem.R = Nothing /\ st.rmiss = Nothing /\ st.sched_r = Nothing
        /\ st.sched_w = Nothing
    BY <1>1, <2>1 DEF IInv, OneRequest
  <2>3. Outstanding = Held("Write", mem.W)
    BY <1>1, <2>1, <2>2, OutstandingIsInMembers, OneInMembers
  <2> QED BY <1>1, <2>2, <2>3 DEF Held
<1>4. CASE entries = NoCache
  <2>1. /\ mem' = [mem EXCEPT !.W = Nothing] /\ resp' = <<r>>
        /\ st' = [st EXCEPT !.w_busy = FALSE]
    BY <1>4 DEF RecvWriteResp, NoCache, Respond
  <2>2. entries <= 0
    BY <1>4 DEF NoCache
  <2>3. mem'.R = Nothing /\ mem'.W = Nothing
    BY <1>2, <1>3, <2>1, <2>2 DEF Memories
  <2>4. DirectWrite' = Nothing
    BY <2>3 DEF DirectWrite
  <2>5. st'.rmiss = Nothing /\ st'.sched_r = Nothing /\ st'.sched_w = Nothing
    BY <1>2, <1>3, <2>1, <2>2 DEF Members
  <2>6. Outstanding' = <<>>
    BY <2>3, <2>4, <2>5, NothingInMembers, OutstandingIsInMembers
  <2> QED BY <1>3, <2>1, <2>2, <2>6, PortSteps
<1>5. CASE entries = 0
  <2>1. /\ mem' = [mem EXCEPT !.W = Nothing] /\ resp' = <<>>
        /\ st' = [st EXCEPT !.w_busy = FALSE, !.sched_w = In(1, mem.W.addr)]
    BY <1>5 DEF RecvWriteResp, NoCache, Quiet
  <2>2. entries <= 0
    BY <1>5
  <2>3. mem'.R = Nothing /\ mem'.W = Nothing
    BY <1>2, <1>3, <2>1, <2>2 DEF Memories
  <2>4. DirectWrite' = Nothing
    BY <2>3 DEF DirectWrite
  <2>5. /\ st'.rmiss = Nothing /\ st'.sched_r = Nothing
        /\ st'.sched_w = In(1, mem.W.addr)
    BY <1>2, <1>3, <2>1, <2>2 DEF Members
  <2>6. /\ In(1, mem.W.addr) \in Slots /\ In(1, mem.W.addr) # Nothing
        /\ In(1, mem.W.addr).addr = mem.W.addr
    BY <1>1, SlotFacts
  <2>7. Outstanding' = Held("Write", In(1, mem.W.addr))
    BY <2>3, <2>4, <2>5, <2>6, OutstandingIsInMembers, OneInMembers
  <2>8. Outstanding' = <<r>>
    BY <2>6, <2>7 DEF Held
  <2> QED BY <1>3, <2>1, <2>2, <2>8, PortSteps
<1>6. CASE entries # NoCache /\ entries # 0
  <2>1. resp' = <<>> /\ Drained /\ fifo' = Tail(fifo) /\ ~(entries <= 0)
    BY <1>2, <1>6 DEF RecvWriteResp, NoCache
  <2>2. DirectWrite' = DirectWrite
    BY <1>2, <2>1 DEF DirectWrite
  <2>3. fifo # <<>>
    BY <1>1, <1>2, <2>1 DEF IInv, DrainsInOrder, NoCache
  <2>4. /\ mem'.R = mem.R /\ st'.rmiss = st.rmiss /\ st'.sched_r = st.sched_r
        /\ st'.sched_w = st.sched_w
    <3>1. CASE Tail(fifo) # <<>>
      <4>1. /\ Send("W", Head(Tail(fifo))) /\ st' = st
            /\ Head(Tail(fifo)) \in Addrs
        BY <1>2, <2>1, <2>3, <3>1, FifoFacts DEF Drained
      <4> QED BY <1>2, <4>1, SendFacts
    <3>2. CASE Tail(fifo) = <<>>
      BY <1>2, <2>1, <3>2 DEF Drained, DrainEnds, Members, Memories
    <3> QED BY <3>1, <3>2
  <2>5. Outstanding' = Outstanding
    BY <2>2, <2>4, OutstandingIsInMembers
  <2> QED BY <2>1, <2>5, PortSteps
<1> QED BY <1>4, <1>5, <1>6

\* The three parts of update_impl.
LEMMA UpdateSimulates ==
    IInv /\ (SendMiss \/ DeliverRead \/ DeliverWrite) => Port!Next
<1>1. ASSUME IInv, SendMiss PROVE Port!Next
  <2> DEFINE r == [mop |-> "Read", addr |-> st.rmiss.addr]
  <2>1. /\ st \in Members /\ mem \in Memories /\ resp' = <<>>
        /\ Send("R", st.rmiss.addr) /\ st' = [st EXCEPT !.rmiss = Nothing]
        /\ entries' = entries
    BY <1>1 DEF IInv, TypeOK, SendMiss, Quiet
  <2>2. st.rmiss # Nothing /\ st.rmiss \in Slots /\ st.rmiss.addr \in Addrs
    <3>1. Due(st.rmiss.left) /\ st.rmiss \in Slots
      BY <1>1, <2>1 DEF SendMiss, Members
    <3> QED BY <3>1, DueIsFilled
  <2>3. /\ mem.R = Nothing /\ st.sched_r = Nothing
        /\ st.sched_w = Nothing /\ DirectWrite = Nothing
    BY <1>1, <2>2 DEF IInv, OneRequest
  <2>4. /\ mem' \in Memories /\ mem'.W = mem.W
        /\ mem'.R # Nothing /\ mem'.R.addr = st.rmiss.addr
    BY <2>1, <2>2, SendFacts
  <2>5. mem'.R \in Slots /\ DirectWrite' = Nothing
    BY <2>1, <2>3, <2>4 DEF Memories, DirectWrite
  <2>6. st'.rmiss = Nothing /\ st'.sched_r = Nothing /\ st'.sched_w = Nothing
    BY <2>1, <2>3 DEF Members
  <2>7. /\ Outstanding = Held("Read", st.rmiss)
        /\ Outstanding' = Held("Read", mem'.R)
    BY <2>2, <2>3, <2>5, <2>6, OutstandingIsInMembers, OneInMembers
  <2>8. Outstanding = <<r>> /\ Outstanding' = <<r>>
    BY <2>2, <2>4, <2>7 DEF Held
  <2> QED BY <2>1, <2>8, PortSteps
<1>2. ASSUME IInv, DeliverRead PROVE Port!Next
  <2> DEFINE r == [mop |-> "Read", addr |-> st.sched_r.addr]
  <2>1. /\ st \in Members /\ resp' = <<r>> /\ mem' = mem /\ entries' = entries
        /\ st' = [st EXCEPT !.sched_r = Nothing, !.r_busy = FALSE]
    BY <1>2 DEF IInv, TypeOK, DeliverRead, AfterRead, Respond
  <2>2. st.sched_r # Nothing /\ st.sched_r \in Slots
    <3>1. Due(st.sched_r.left) /\ st.sched_r \in Slots
      BY <1>2, <2>1 DEF DeliverRead, Members
    <3> QED BY <3>1, DueIsFilled
  <2>3. /\ mem.R = Nothing /\ st.rmiss = Nothing
        /\ st.sched_w = Nothing /\ DirectWrite = Nothing
    BY <1>2, <2>2 DEF IInv, OneRequest
  <2>4. /\ st'.rmiss = Nothing /\ st'.sched_r = Nothing
        /\ st'.sched_w = Nothing /\ DirectWrite' = Nothing
    BY <2>1, <2>3 DEF Members, DirectWrite
  <2>5. Outstanding = Held("Read", st.sched_r) /\ Outstanding' = <<>>
    BY <2>1, <2>2, <2>3, <2>4, OutstandingIsInMembers, OneInMembers,
       NothingInMembers
  <2>6. Outstanding = <<r>>
    BY <2>2, <2>5 DEF Held
  <2> QED BY <2>1, <2>5, <2>6, PortSteps
<1>3. ASSUME IInv, DeliverWrite PROVE Port!Next
  <2> DEFINE r == [mop |-> "Write", addr |-> st.sched_w.addr]
             starts == fifo # <<>> /\ ~st.w_busy
  <2>1. /\ st \in Members /\ mem \in Memories /\ resp' = <<r>>
        /\ entries' = entries /\ fifo \in Seq(Addrs)
        /\ st' = [st EXCEPT !.sched_w = Nothing,
                            !.w_busy = st.w_busy \/ starts]
        /\ IF starts THEN Send("W", Head(fifo)) ELSE UNCHANGED mem
    BY <1>3 DEF IInv, TypeOK, DeliverWrite, Respond
  <2>2. st.sched_w # Nothing /\ st.sched_w \in Slots
    <3>1. Due(st.sched_w.left) /\ st.sched_w \in Slots
      BY <1>3, <2>1 DEF DeliverWrite, Members
    <3> QED BY <3>1, DueIsFilled
  <2>3. /\ mem.R = Nothing /\ st.rmiss = Nothing
        /\ st.sched_r = Nothing /\ DirectWrite = Nothing
    BY <1>3, <2>2 DEF IInv, OneRequest
  <2>4. mem'.R = mem.R /\ (entries <= 0 => mem'.W = mem.W)
    <3>1. CASE starts
      <4>1. Send("W", Head(fifo)) /\ Head(fifo) \in Addrs
        BY <2>1, <3>1, FifoFacts
      <4>2. ~(entries <= 0)
        BY <1>3, <3>1 DEF IInv, Unbuffered
      <4> QED BY <2>1, <4>1, <4>2, SendFacts
    <3>2. CASE ~starts
      BY <2>1, <3>2
    <3> QED BY <3>1, <3>2
  <2>5. /\ st'.rmiss = Nothing /\ st'.sched_r = Nothing
        /\ st'.sched_w = Nothing
    BY <2>1, <2>3 DEF Members
  <2>6. DirectWrite' = Nothing
    BY <2>1, <2>3, <2>4 DEF DirectWrite
  <2>7. Outstanding = Held("Write", st.sched_w) /\ Outstanding' = <<>>
    BY <2>2, <2>3, <2>4, <2>5, <2>6, OutstandingIsInMembers, OneInMembers,
       NothingInMembers
  <2>8. Outstanding = <<r>>
    BY <2>2, <2>7 DEF Held
  <2> QED BY <2>1, <2>7, <2>8, PortSteps
<1> QED BY <1>1, <1>2, <1>3

\* A request of the core: refused, or taken into an empty port.
LEMMA SendLsuReqSimulates ==
    ASSUME IInv, NEW r \in Reqs, SendLsuReq(r)
    PROVE  Port!Next
<1>1. /\ st \in Members /\ mem \in Memories /\ r.addr \in Addrs
      /\ entries' = entries /\ resp' = <<>>
      /\ r.mop \in {"Read", "Write"} /\ r = [mop |-> r.mop, addr |-> r.addr]
  BY DEF IInv, TypeOK, SendLsuReq, Reqs
<1>2. CASE ~is_ready(r.mop)
  <2>1. UNCHANGED <<st, mem>>
    BY <1>2 DEF SendLsuReq
  <2>2. Outstanding' = Outstanding
    BY <1>1, <2>1 DEF Outstanding, Held
  <2> QED BY <1>1, <2>2, PortSteps
<1>3. Outstanding = <<>>
  BY AskedWhenEmpty, OutstandingIsInMembers, NothingInMembers
<1>4. ASSUME NEW n \in MemLats \cup {1}
      PROVE  /\ In(n, r.addr) \in Slots /\ In(n, r.addr) # Nothing
             /\ Held(r.mop, In(n, r.addr)) = <<r>>
  <2>1. /\ In(n, r.addr) \in Slots /\ In(n, r.addr) # Nothing
        /\ In(n, r.addr).addr = r.addr
    BY <1>1, <1>4, SlotFacts
  <2> QED BY <1>1, <2>1 DEF Held
<1>5. CASE is_ready(r.mop) /\ r.mop = "Read"
  <2>1. read_req(r.addr)
    BY <1>5 DEF SendLsuReq
  <2>2. CASE entries = NoCache
    <3>1. PICK n \in MemLats : mem' = [mem EXCEPT !.R = In(n, r.addr)]
      BY <2>1, <2>2 DEF read_req, Send
    <3>2. mem'.R = In(n, r.addr) /\ mem'.W = mem.W
      BY <1>1, <3>1 DEF Memories
    <3>3. st' = [st EXCEPT !.r_busy = TRUE]
      BY <2>1, <2>2 DEF read_req
    <3>4. /\ st'.rmiss = Nothing /\ st'.sched_r = Nothing
          /\ st'.sched_w = Nothing /\ DirectWrite' = Nothing
      BY <1>1, <3>2, <3>3, AskedWhenEmpty DEF Members, DirectWrite
    <3>5. Outstanding' = Held("Read", In(n, r.addr))
      BY <1>4, <3>2, <3>4, OutstandingIsInMembers, OneInMembers
    <3> QED BY <1>1, <1>3, <1>4, <1>5, <3>5, PortSteps
  <2>3. CASE entries # NoCache /\ Forwards(r.addr)
    <3>1. st' = [st EXCEPT !.sched_r = In(1, r.addr)] /\ mem' = mem
      BY <2>1, <2>3 DEF read_req
    <3>2. /\ st'.rmiss = Nothing /\ st'.sched_r = In(1, r.addr)
          /\ st'.sched_w = Nothing /\ DirectWrite' = Nothing
      BY <1>1, <3>1, AskedWhenEmpty DEF Members, DirectWrite
    <3>3. Outstanding' = Held("Read", In(1, r.addr))
      BY <1>4, <3>1, <3>2, AskedWhenEmpty, OutstandingIsInMembers, OneInMembers
    <3> QED BY <1>1, <1>3, <1>4, <1>5, <3>3, PortSteps
  <2>4. CASE entries # NoCache /\ ~Forwards(r.addr)
    <3>1. /\ st' = [st EXCEPT !.rmiss = In(1, r.addr), !.r_busy = TRUE]
          /\ mem' = mem
      BY <2>1, <2>4 DEF read_req
    <3>2. /\ st'.rmiss = In(1, r.addr) /\ st'.sched_r = Nothing
          /\ st'.sched_w = Nothing /\ DirectWrite' = Nothing
      BY <1>1, <3>1, AskedWhenEmpty DEF Members, DirectWrite
    <3>3. Outstanding' = Held("Read", In(1, r.addr))
      BY <1>4, <3>1, <3>2, AskedWhenEmpty, OutstandingIsInMembers, OneInMembers
    <3> QED BY <1>1, <1>3, <1>4, <1>5, <3>3, PortSteps
  <2> QED BY <2>2, <2>3, <2>4
<1>6. CASE is_ready(r.mop) /\ r.mop = "Write"
  <2>1. write_req(r.addr)
    BY <1>6 DEF SendLsuReq
  <2>2. CASE entries <= 0
    <3>1. PICK n \in MemLats : mem' = [mem EXCEPT !.W = In(n, r.addr)]
      BY <2>1, <2>2 DEF write_req, Send
    <3>2. mem'.W = In(n, r.addr) /\ mem'.R = Nothing
      BY <1>1, <3>1, AskedWhenEmpty DEF Memories
    <3>3. st' = [st EXCEPT !.w_busy = TRUE]
      BY <2>1, <2>2 DEF write_req
    <3>4. /\ st'.rmiss = Nothing /\ st'.sched_r = Nothing
          /\ st'.sched_w = Nothing /\ DirectWrite' = In(n, r.addr)
      BY <1>1, <2>2, <3>2, <3>3, AskedWhenEmpty DEF Members, DirectWrite
    <3>5. Outstanding' = Held("Write", In(n, r.addr))
      BY <1>4, <3>2, <3>4, OutstandingIsInMembers, OneInMembers
    <3> QED BY <1>1, <1>3, <1>4, <1>6, <3>5, PortSteps
  <2>3. CASE ~(entries <= 0)
    <3>1. st' = [st EXCEPT !.sched_w = In(1, r.addr)] /\ mem' = mem
      BY <2>1, <2>3 DEF write_req
    <3>2. /\ st'.rmiss = Nothing /\ st'.sched_r = Nothing
          /\ st'.sched_w = In(1, r.addr) /\ DirectWrite' = Nothing
      BY <1>1, <2>3, <3>1, AskedWhenEmpty DEF Members, DirectWrite
    <3>3. Outstanding' = Held("Write", In(1, r.addr))
      BY <1>4, <3>1, <3>2, AskedWhenEmpty, OutstandingIsInMembers, OneInMembers
    <3> QED BY <1>1, <1>3, <1>4, <1>6, <3>3, PortSteps
  <2> QED BY <2>2, <2>3
<1> QED BY <1>1, <1>2, <1>5, <1>6

\* The tick, with and without fence.i, and a part in which nothing is due.
LEMMA IdleSimulates ==
    IInv /\ (NothingDue \/ Tick \/ TickFenceI) => Port!Next
<1>1. ASSUME NothingDue PROVE Port!Next
  <2>1. resp' = <<>> /\ UNCHANGED <<entries, st, mem>>
    BY <1>1 DEF NothingDue, Quiet
  <2>2. Outstanding' = Outstanding
    BY <2>1 DEF Outstanding, Held
  <2> QED BY <2>1, <2>2, PortSteps
<1>2. ASSUME IInv, Tick \/ TickFenceI PROVE Port!Next
  <2>1. /\ st \in Members /\ mem \in Memories /\ resp' = <<>>
        /\ entries' = entries
        /\ mem' = [c \in DOMAIN mem |-> Later(mem[c])]
        /\ \/ st' = Clocked
           \/ st' = [Clocked EXCEPT !.pending_flush = entries # NoCache]
    BY <1>2 DEF IInv, TypeOK, Tick, TickFenceI, Advance, Quiet
  <2>2. mem'.R = Later(mem.R) /\ mem'.W = Later(mem.W)
    BY <2>1 DEF Memories
  <2>3. /\ st'.rmiss = Later(st.rmiss) /\ st'.sched_r = Later(st.sched_r)
        /\ st'.sched_w = Later(st.sched_w)
    BY <2>1 DEF Clocked, Members
  <2>4. /\ mem.R \in Slots /\ mem.W \in Slots /\ st.rmiss \in Slots
        /\ st.sched_r \in Slots /\ st.sched_w \in Slots
    BY <2>1 DEF Memories, Members
  <2>5. ASSUME NEW m, NEW x \in Slots PROVE Held(m, Later(x)) = Held(m, x)
    BY <2>5, LaterFacts DEF Held
  <2>6. /\ Held("Read", mem'.R) = Held("Read", mem.R)
        /\ Held("Write", mem'.W) = Held("Write", mem.W)
    BY <2>2, <2>4, <2>5
  <2>7. /\ Held("Read", st'.rmiss) = Held("Read", st.rmiss)
        /\ Held("Read", st'.sched_r) = Held("Read", st.sched_r)
        /\ Held("Write", st'.sched_w) = Held("Write", st.sched_w)
    BY <2>3, <2>4, <2>5
  <2>8. Outstanding' = Outstanding
    BY ONLY <2>1, <2>6, <2>7, Zenon DEF Outstanding
  <2> QED BY <2>1, <2>8, PortSteps
<1> QED BY <1>1, <1>2

\* Every step of the port is a step of CachePort, or changes nothing that the
\* core sees.
LEMMA NextSimulates == IInv /\ [Next]_vars => [Port!Next]_(Port!vars)
<1> SUFFICES ASSUME IInv, [Next]_vars PROVE [Port!Next]_(Port!vars)
  OBVIOUS
<1>1. CASE UNCHANGED vars
  <2>1. Outstanding' = Outstanding /\ resp' = resp
    BY <1>1 DEF vars, Outstanding, Held
  <2> QED BY <2>1 DEF Port!vars
<1>2. CASE Next
  <2>1. ASSUME NEW r \in Reqs, SendLsuReq(r) PROVE Port!Next
    BY <2>1, SendLsuReqSimulates
  <2> QED BY <1>2, <2>1, RecvReadRespSimulates, RecvWriteRespSimulates,
             UpdateSimulates, IdleSimulates
          DEF Next
<1> QED BY <1>1, <1>2

\* NoCache and StoreBuffer implement the safety part of ImplementsPort: every
\* accepted request is answered exactly once, with its own address and kind,
\* before the next one is accepted.
THEOREM ImplementsPortSafety == Spec => Port!Init /\ [][Port!Next]_(Port!vars)
<1>1. Init => Port!Init
  <2>1. ASSUME Init PROVE Outstanding = <<>> /\ resp = <<>>
    <3>1. /\ mem.R = Nothing /\ st.rmiss = Nothing /\ st.sched_r = Nothing
          /\ st.sched_w = Nothing /\ DirectWrite = Nothing /\ resp = <<>>
      BY <2>1 DEF Init, DirectWrite
    <3> QED BY <3>1, OutstandingIsInMembers, NothingInMembers
  <2> QED BY <2>1 DEF Port!Init
<1>2. IInv /\ [Next]_vars => [Port!Next]_(Port!vars)
  BY NextSimulates
<1> QED BY <1>1, <1>2, Invariance, PTL DEF Spec
=============================================================================

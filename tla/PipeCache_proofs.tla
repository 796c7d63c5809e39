--------------------------- MODULE PipeCache_proofs ---------------------------
(* The pipelined cache for every geometry, policy, prefetcher and latency:   *)
(* the waiting flags, the refill in flight, the tags, the stores, and the     *)
(* port it implements.                                                        *)
EXTENDS PipeCache, FiniteSetTheorems, SequenceTheorems, TLAPS

----------------------------------------------------------------------------
(* The inductive invariant. *)

\* The back entry has been given a way, and that way does not hold it (yet).
LookedUp    == back.blk # NoBlk /\ back.way # NoWay
BackMissing == LookedUp /\ ~BackLine.valid

\* Only the back entry has a way; it has one whenever it is served, and it is
\* gone when the pipeline moves.  The port is open only over an empty front.
PipeShape ==
    /\ \A i \in 1..PipeDepth : i # PipeDepth => pipe[i].way = NoWay
    /\ back.blk = NoBlk => back.way = NoWay
    /\ phase = "serve" => (back.blk # NoBlk => back.way # NoWay)
    /\ phase = "shift" => back.blk = NoBlk
    /\ st.is_shifted => pipe[1].blk = NoBlk

\* The way given to the back entry is its own: it holds the entry's block, or
\* is empty and no other way holds that block.
Reserved ==
    LookedUp => /\ BackLine.valid => BackLine.tag = back.blk
                /\ ~BackLine.valid => ~probe(back.blk)

\* A refill in flight belongs to the missing back entry, and update_impl is
\* not run until it arrives.
ReadChannel ==
    /\ mem.rt = InfTime <=> mem.r = NoBlk
    /\ st.r_waiting <=> mem.r # NoBlk
    /\ st.r_waiting => /\ BackMissing /\ mem.r = back.blk
                       /\ ~st.pending_fill
                       /\ phase \in {"R", "W", "sched", "client"}

\* An eviction in flight holds up the refill of the miss that caused it.
WriteChannel ==
    /\ mem.wt = InfTime <=> mem.w = NoBlk
    /\ WriteBack => /\ st.w_waiting <=> mem.w # NoBlk
                    /\ st.w_waiting => st.pending_fill

\* Flags that speak of the back entry find it there; a deferred response
\* leaves the back empty.
Flags ==
    /\ st.pending_fill => BackMissing
    /\ st.is_replay => LookedUp /\ (st.r_waiting \/ BackLine.valid)
    /\ st.sched # InfTime => WriteBack /\ back.blk = NoBlk

CInv ==
    /\ TypeOK /\ PipeShape /\ Reserved
    /\ ReadChannel /\ WriteChannel /\ Flags /\ TagsUnique

----------------------------------------------------------------------------
(* Operators. *)

\* What the configuration fixes about a cache.
LEMMA ModeFacts ==
    ASSUME st \in Members
    PROVE  /\ st.mode \in Modes /\ WriteBack \in BOOLEAN /\ Cwf \in BOOLEAN
           /\ HitDelay \in 0..(InfTime - 1) /\ PipeDepth \in Nat \ {0}
           /\ Assoc \in {1, 2, 4} /\ Policy \in {"plru", "rr"}
           /\ WriteBack => PipeDepth = 1
<1>1. st.mode \in Modes
  BY DEF Members
<1> QED BY <1>1, ModeAssumption
        DEF WriteBack, Cwf, HitDelay, PipeDepth, Assoc, Policy

\* A block belongs to one set.
LEMMA SetOfBlock == \A b \in Blocks : setIndexOf(b) \in Sets
BY GeometryAssumption DEF Blocks, Sets, setIndexOf

\* Deadlines stay in range, and only InfTime stays InfTime.
LEMMA TimesFacts ==
    /\ \A t \in Times : Elapse(t) \in Times /\ (Elapse(t) = InfTime <=> t = InfTime)
    /\ \A t \in MemLats : t \in Times /\ t # InfTime
    /\ \A t \in 0..(InfTime - 1) : t \in Times
    /\ {0, 1, 2} \subseteq Times /\ InfTime \in Times
    /\ InfTime \notin {0, 1, 2}
BY InfTimeAssumption, PipeCacheTimesAssumption DEF Times, Elapse

\* NoBlk is no block address.
LEMMA NoBlkFacts == NoBlk \notin Blocks /\ 0 \in Blocks
BY GeometryAssumption DEF NoBlk, Blocks

\* The policy names a way of the set, and its memory keeps within its bits.
LEMMA PolicyFacts ==
    ASSUME NEW policy, NEW assoc \in {1, 2, 4}, NEW m \in 0..7
    PROVE  /\ getVictim(policy, assoc, m) \in 0..(assoc - 1)
           /\ \A w \in 0..(assoc - 1) :
                 /\ onHit(policy, assoc, m, w) \in 0..7
                 /\ onFill(policy, assoc, m, w) \in 0..7
<1>1. /\ victim_way(assoc, m) \in 0..(assoc - 1)
      /\ m % assoc \in 0..(assoc - 1) /\ (m + 1) % assoc \in 0..7
  BY DEF victim_way
<1>2. ASSUME NEW w \in 0..(assoc - 1)
      PROVE  update_bits(assoc, m, w) \in 0..7
  BY DEF update_bits
<1> QED BY <1>1, <1>2 DEF getVictim, onHit, onFill

\* A non-empty set of ways has a first one.
LEMMA FirstWayFacts ==
    ASSUME NEW assoc \in {1, 2, 4}, NEW S \in SUBSET (0..(assoc - 1)), S # {}
    PROVE  FirstWay(S) \in S
<1>1. \E w \in S : \A v \in S : w <= v
  <2>1. S \subseteq {0, 1, 2, 3}
    OBVIOUS
  <2>2. CASE 0 \in S BY <2>1, <2>2
  <2>3. CASE 0 \notin S /\ 1 \in S BY <2>1, <2>3
  <2>4. CASE 0 \notin S /\ 1 \notin S /\ 2 \in S BY <2>1, <2>4
  <2>5. CASE 0 \notin S /\ 1 \notin S /\ 2 \notin S
    <3>1. 3 \in S /\ \A v \in S : v = 3
      BY <2>1, <2>5
    <3> QED BY <3>1
  <2> QED BY <2>2, <2>3, <2>4, <2>5
<1> QED BY <1>1 DEF FirstWay

\* Writing one line of the tag array.
LEMMA LineWritten ==
    ASSUME NEW W, NEW L \in [Sets -> [W -> Line]],
           NEW s \in Sets, NEW w \in W, NEW x \in Line
    PROVE  /\ [L EXCEPT ![s][w] = x] \in [Sets -> [W -> Line]]
           /\ \A t \in Sets, v \in W :
                 [L EXCEPT ![s][w] = x][t][v] =
                    IF t = s /\ v = w THEN x ELSE L[t][v]
OBVIOUS

\* The replacement policies name a way of the set.
LEMMA VictimFacts ==
    ASSUME TypeOK
    PROVE  /\ \A s \in Sets : VictimIn(s) \in Ways
           /\ \A b \in Blocks : miss_victim_way(b) \in Ways
<1>1. Assoc \in {1, 2, 4}
  BY ModeFacts DEF TypeOK
<1>2. ASSUME NEW s \in Sets PROVE VictimIn(s) \in Ways
  <2>1. getVictim(Policy, Assoc, repl[s]) \in Ways
    <3>1. repl[s] \in 0..7 BY DEF TypeOK
    <3> QED BY <1>1, <3>1, PolicyFacts DEF Ways
  <2>2. InvalidWays(s) # {} => FirstWay(InvalidWays(s)) \in InvalidWays(s)
    BY <1>1, FirstWayFacts DEF InvalidWays, Ways
  <2> QED BY <2>1, <2>2 DEF VictimIn, InvalidWays
<1>3. ASSUME NEW b \in Blocks PROVE miss_victim_way(b) \in Ways
  <2>1. (IF Lag /\ lag # NoSet THEN lag ELSE setIndexOf(b)) \in Sets
    BY SetOfBlock DEF TypeOK
  <2>2. ASSUME NEW w \in Ways PROVE w % Assoc \in Ways
    BY <1>1 DEF Ways
  <2> QED BY <1>2, <2>1, <2>2 DEF miss_victim_way
<1> QED BY <1>2, <1>3

\* access on a hit changes only the policy's memory; on a miss it empties one
\* way of the block's set.
LEMMA AccessFacts ==
    ASSUME TypeOK, NEW b \in Blocks
    PROVE  /\ access(b).way \in Ways
           /\ access(b).lines \in [Sets -> [Ways -> Line]]
           /\ access(b).repl \in [Sets -> 0..7]
           /\ access(b).lag \in Sets \cup {NoSet}
           /\ probe(b) => /\ access(b).lines = lines
                          /\ access(b).way \in HitWays(b)
           /\ ~probe(b) =>
                 /\ access(b).way = miss_victim_way(b)
                 /\ \A t \in Sets, v \in Ways :
                       access(b).lines[t][v] =
                          IF t = setIndexOf(b) /\ v = access(b).way
                          THEN Invalidated(lines[t][v]) ELSE lines[t][v]
<1>1. setIndexOf(b) \in Sets
  BY SetOfBlock
<1>2. Assoc \in {1, 2, 4}
  BY ModeFacts DEF TypeOK
<1>3. lines \in [Sets -> [Ways -> Line]] /\ repl \in [Sets -> 0..7]
      /\ lag \in Sets \cup {NoSet}
  BY DEF TypeOK
<1>4. access(b).lag \in Sets \cup {NoSet}
  BY <1>1, <1>3 DEF access
<1>5. CASE probe(b)
  <2>1. FirstWay(HitWays(b)) \in HitWays(b)
    BY <1>2, <1>5, FirstWayFacts DEF probe, HitWays, Ways
  <2>2. /\ access(b).way = FirstWay(HitWays(b)) /\ access(b).lines = lines
        /\ access(b).repl = [repl EXCEPT ![setIndexOf(b)] =
                 onHit(Policy, Assoc, @, FirstWay(HitWays(b)))]
    BY <1>5 DEF access
  <2>3. FirstWay(HitWays(b)) \in Ways
    BY <2>1 DEF HitWays
  <2>4. access(b).repl \in [Sets -> 0..7]
    <3>1. onHit(Policy, Assoc, repl[setIndexOf(b)], FirstWay(HitWays(b))) \in 0..7
      <4>1. repl[setIndexOf(b)] \in 0..7
        BY <1>1, <1>3
      <4> QED BY <1>2, <2>3, <4>1, PolicyFacts DEF Ways
    <3> QED BY <1>1, <1>3, <2>2, <3>1
  <2> QED BY <1>3, <1>4, <1>5, <2>1, <2>2, <2>3, <2>4
<1>6. CASE ~probe(b)
  <2> DEFINE s == setIndexOf(b)
             w == miss_victim_way(b)
  <2>1. w \in Ways
    BY VictimFacts
  <2>2. /\ access(b).way = w /\ access(b).repl = repl
        /\ access(b).lines = [lines EXCEPT ![s][w] = Invalidated(lines[s][w])]
    BY <1>6 DEF access
  <2>3. Invalidated(lines[s][w]) \in Line
    <3>1. lines[s][w] \in Line
      BY <1>1, <1>3, <2>1
    <3> QED BY <3>1, NoBlkFacts DEF Invalidated, Line
  <2>4. /\ access(b).lines \in [Sets -> [Ways -> Line]]
        /\ \A t \in Sets, v \in Ways :
              access(b).lines[t][v] =
                 IF t = s /\ v = w THEN Invalidated(lines[s][w]) ELSE lines[t][v]
    BY <1>1, <1>3, <2>1, <2>2, <2>3, LineWritten
  <2>5. \A t \in Sets, v \in Ways :
           access(b).lines[t][v] =
              IF t = s /\ v = w THEN Invalidated(lines[t][v]) ELSE lines[t][v]
    BY <2>4
  <2> QED BY <1>3, <1>4, <1>6, <2>1, <2>2, <2>4, <2>5
<1> QED BY <1>5, <1>6

----------------------------------------------------------------------------
(* What a step that leaves the tag array and the pipe alone preserves. *)

\* A step that leaves lines, pipe and mode alone keeps what is read off them.
LEMMA Frame ==
    ASSUME st'.mode = st.mode, lines' = lines, pipe' = pipe
    PROVE  /\ back' = back /\ BackLine' = BackLine /\ PipeDepth' = PipeDepth
           /\ WriteBack' = WriteBack /\ Ways' = Ways /\ Slots' = Slots
           /\ LookedUp' = LookedUp /\ BackMissing' = BackMissing
           /\ Reserved' = Reserved /\ TagsUnique' = TagsUnique
<1>1. PipeDepth' = PipeDepth /\ Ways' = Ways /\ WriteBack' = WriteBack
  BY DEF PipeDepth, Ways, Assoc, WriteBack
<1>2. back' = back /\ Slots' = Slots
  BY <1>1 DEF back, Slots
<1>3. BackLine' = BackLine
  BY <1>2 DEF BackLine
<1>4. LookedUp' = LookedUp /\ BackMissing' = BackMissing
  BY <1>2, <1>3 DEF LookedUp, BackMissing
<1>5. \A b : probe(b)' = probe(b)
  BY <1>1 DEF probe, HitWays
<1>6. Reserved' = Reserved
  BY <1>2, <1>3, <1>4, <1>5 DEF Reserved
<1>7. TagsUnique' = TagsUnique
  BY <1>1 DEF TagsUnique
<1> QED BY <1>1, <1>2, <1>3, <1>4, <1>6, <1>7

\* Such a step preserves CInv if it preserves the types of what it changes and
\* the parts that speak of the flags and of the memory.
LEMMA FrameInv ==
    ASSUME CInv,
           st' \in Members, st'.mode = st.mode, lines' = lines, pipe' = pipe,
           repl' \in [Sets -> 0..7], lag' \in Sets \cup {NoSet},
           resp' \in {<<>>} \cup {<<r>> : r \in Reqs}, mem' \in Channels,
           stale' \subseteq Blocks,
           phase' \in {"R", "W", "sched", "lookup", "serve", "shift", "client"},
           after' \in {"client", "R"},
           phase' = "serve" => phase = "serve",
           phase' = "shift" => back.blk = NoBlk,
           st'.is_shifted = st.is_shifted,
           ReadChannel', WriteChannel', Flags'
    PROVE  CInv'
<1>1. TypeOK'
  <2>1. lines' \in [Sets -> [Ways' -> Line]] /\ pipe' \in [1..PipeDepth' -> Slots']
    BY Frame DEF CInv, TypeOK
  <2> QED BY <2>1 DEF TypeOK
<1>2. PipeShape'
  BY Frame DEF CInv, PipeShape
<1>3. Reserved' /\ TagsUnique'
  BY Frame DEF CInv
<1> QED BY <1>1, <1>2, <1>3 DEF CInv

\* An empty cache satisfies CInv.
LEMMA InitCInv == Init => CInv
<1> SUFFICES ASSUME Init PROVE CInv
  OBVIOUS
<1>1. PICK mode \in Modes : st = InitSt(mode)
  BY DEF Init
<1>2. /\ st.mode = mode /\ st.r_waiting = FALSE /\ st.w_waiting = FALSE
      /\ st.is_shifted = TRUE /\ st.is_replay = FALSE /\ st.pending_fill = FALSE
      /\ st.sched = InfTime
  BY <1>1 DEF InitSt
<1>3. st \in Members
  BY <1>1, NoBlkFacts, TimesFacts DEF InitSt, Members, Reqs
<1>4. PipeDepth \in Nat \ {0}
  BY <1>3, ModeFacts
<1>5. /\ mem.r = NoBlk /\ mem.w = NoBlk /\ mem.rt = InfTime /\ mem.wt = InfTime
      /\ mem \in Channels
  BY TimesFacts DEF Init, NoMem, Channels
<1>6. \A i \in 1..PipeDepth : pipe[i].blk = NoBlk /\ pipe[i].way = NoWay
  BY DEF Init, NoEntry
<1>7. back.blk = NoBlk /\ back.way = NoWay
  BY <1>4, <1>6 DEF back
<1>8. TypeOK
  <2>1. [valid |-> FALSE, dirty |-> FALSE, tag |-> 0] \in Line
    BY NoBlkFacts DEF Line
  <2>2. lines \in [Sets -> [Ways -> Line]]
    BY <2>1 DEF Init
  <2>3. NoEntry \in Slots
    BY DEF NoEntry, Slots
  <2>4. pipe \in [1..PipeDepth -> Slots]
    BY <2>3 DEF Init
  <2>5. repl \in [Sets -> 0..7] /\ lag \in Sets \cup {NoSet}
    BY DEF Init
  <2> QED BY <1>3, <1>5, <2>2, <2>4, <2>5 DEF Init, TypeOK
<1>9. PipeShape
  <2>1. phase = "R"
    BY DEF Init
  <2>2. pipe[1].blk = NoBlk
    BY <1>4, <1>6
  <2> QED BY <1>6, <1>7, <2>1, <2>2 DEF PipeShape
<1>10. Reserved /\ Flags
  BY <1>2, <1>7 DEF Reserved, Flags, LookedUp
<1>11. ReadChannel /\ WriteChannel
  BY <1>2, <1>5 DEF ReadChannel, WriteChannel
<1>12. TagsUnique
  BY DEF Init, TagsUnique
<1> QED BY <1>8, <1>9, <1>10, <1>11, <1>12 DEF CInv

\* The types, in the form the steps below cite.
LEMMA Typed ==
    CInv => /\ st \in Members /\ mem \in Channels /\ stale \subseteq Blocks
            /\ repl \in [Sets -> 0..7] /\ lag \in Sets \cup {NoSet}
            /\ after \in {"client", "R"}
            /\ <<>> \in {<<>>} \cup {<<r>> : r \in Reqs}
BY DEF CInv, TypeOK

\* recv_mem_resp for a write.
LEMMA RecvWriteRespCInv == CInv /\ RecvWriteResp => CInv'
<1> SUFFICES ASSUME CInv, RecvWriteResp PROVE CInv'
  OBVIOUS
<1>2. /\ UNCHANGED <<lines, repl, lag, pipe, after>>
      /\ phase = "W" /\ phase' = "sched" /\ resp' = <<>>
      /\ mem.wt = 0 /\ stale' = stale \ {mem.w}
      /\ mem' = [mem EXCEPT !.w = NoBlk, !.wt = InfTime]
      /\ st' = [st EXCEPT !.w_waiting = FALSE,
                          !.blocked = IF WriteBack THEN @ ELSE 2]
  BY DEF RecvWriteResp, Due
<1>3. /\ st' \in Members /\ st'.mode = st.mode /\ st'.r_waiting = st.r_waiting
      /\ st'.w_waiting = FALSE /\ st'.is_shifted = st.is_shifted
      /\ st'.is_replay = st.is_replay /\ st'.pending_fill = st.pending_fill
      /\ st'.sched = st.sched
  BY <1>2, Typed, TimesFacts DEF Members
<1>4. /\ mem' \in Channels /\ mem'.r = mem.r /\ mem'.rt = mem.rt
      /\ mem'.w = NoBlk /\ mem'.wt = InfTime
  BY <1>2, Typed, TimesFacts DEF Channels
<1>5. ReadChannel' /\ WriteChannel' /\ Flags'
  BY <1>2, <1>3, <1>4, Frame DEF CInv, ReadChannel, WriteChannel, Flags
<1> QED BY <1>2, <1>3, <1>4, <1>5, Typed, FrameInv

\* Nothing is due: no member changes.
LEMMA IdleCInv == CInv /\ (NoMemResp \/ NotDue \/ ServeNothing) => CInv'
<1> SUFFICES ASSUME CInv, NoMemResp \/ NotDue \/ ServeNothing PROVE CInv'
  OBVIOUS
<1>1. /\ UNCHANGED <<lines, repl, lag, pipe, st, mem, stale>> /\ resp' = <<>>
      /\ after' \in {"client", "R"}
      /\ \/ phase' \in {"R", "W", "sched", "client"}
         \/ phase = "serve" /\ phase' = "shift" /\ back.blk = NoBlk
  BY Typed DEF NoMemResp, NotDue, ServeNothing
<1>2. ReadChannel' /\ WriteChannel' /\ Flags'
  <2>1. st.r_waiting => phase' \in {"R", "W", "sched", "client"}
    BY <1>1 DEF CInv, ReadChannel
  <2> QED BY <1>1, <2>1, Frame DEF CInv, ReadChannel, WriteChannel, Flags
<1> QED BY <1>1, <1>2, Typed, FrameInv

\* The response scheduled by a hit is delivered.
LEMMA DeliverSchedCInv == CInv /\ DeliverSched => CInv'
<1> SUFFICES ASSUME CInv, DeliverSched PROVE CInv'
  OBVIOUS
<1>1. /\ UNCHANGED <<lines, repl, lag, pipe, mem, stale, after>>
      /\ resp' \in {<<>>, <<st.sched_resp>>}
      /\ phase = "sched" /\ phase' = "lookup" /\ UpdateDue
      /\ st' = [st EXCEPT !.sched = IF Due(@) THEN InfTime ELSE @]
  BY DEF DeliverSched
<1>2. /\ st' \in Members /\ st'.mode = st.mode /\ st'.r_waiting = st.r_waiting
      /\ st'.w_waiting = st.w_waiting /\ st'.is_shifted = st.is_shifted
      /\ st'.is_replay = st.is_replay /\ st'.pending_fill = st.pending_fill
      /\ st'.sched \in {st.sched, InfTime} /\ st.sched_resp \in Reqs
  BY <1>1, Typed, TimesFacts DEF Members
<1>3. ~st.r_waiting
  <2>1. st.r_waiting => st.sched = InfTime /\ ~st.pending_fill
    BY DEF CInv, ReadChannel, Flags, BackMissing, LookedUp
  <2> QED BY <1>1, <2>1, TimesFacts DEF UpdateDue, Due
<1>4. ReadChannel' /\ WriteChannel' /\ Flags'
  BY <1>1, <1>2, <1>3, Frame DEF CInv, ReadChannel, WriteChannel, Flags
<1>5. resp' \in {<<>>} \cup {<<r>> : r \in Reqs}
  BY <1>1, <1>2
<1> QED BY <1>1, <1>2, <1>4, <1>5, Typed, FrameInv

\* The four things that a miss at the back can do.
LEMMA ServeMissCInv == CInv /\ ServeMiss => CInv'
<1> SUFFICES ASSUME CInv, ServeMiss PROVE CInv'
  OBVIOUS
<1>1. /\ UNCHANGED <<lines, repl, lag, pipe, stale>> /\ resp' = <<>>
      /\ phase = "serve" /\ phase' = after /\ after' = "client"
      /\ back.blk # NoBlk /\ ~BackLine.valid
      /\ MissDetected \/ MissWaitsForWrite \/ MissEvicts \/ MissRefills
  BY DEF ServeMiss, Missing
<1>2. BackMissing /\ back.blk \in Blocks
  <2>1. back \in Slots
    BY ModeFacts DEF CInv, TypeOK, back
  <2> QED BY <1>1, <2>1 DEF CInv, PipeShape, BackMissing, LookedUp, Slots
<1>3. /\ ~st.r_waiting /\ mem.r = NoBlk /\ mem.rt = InfTime
      /\ phase' \in {"R", "client"}
  BY <1>1, Typed DEF CInv, ReadChannel
<1>4. ASSUME /\ st' \in Members /\ st'.mode = st.mode
             /\ st'.is_shifted = st.is_shifted /\ st'.sched = st.sched
             /\ ~st'.is_replay \/ st'.r_waiting
             /\ mem' \in Channels
             /\ ReadChannel' /\ WriteChannel'
      PROVE  CInv'
  <2>1. Flags'
    BY <1>1, <1>2, <1>4, Frame DEF CInv, Flags, BackMissing
  <2> QED BY <1>1, <1>3, <1>4, <2>1, Typed, FrameInv
<1>5. CASE MissDetected \/ MissWaitsForWrite
  <2>1. /\ mem' = mem
        /\ \/ st' = [st EXCEPT !.is_replay = FALSE, !.pending_fill = TRUE,
                               !.blocked = 1]
           \/ st.pending_fill /\ st' = [st EXCEPT !.is_replay = FALSE, !.blocked = 1]
    BY <1>5 DEF MissDetected, MissWaitsForWrite
  <2>2. /\ st' \in Members /\ st'.mode = st.mode /\ st'.r_waiting = st.r_waiting
        /\ st'.is_shifted = st.is_shifted /\ st'.sched = st.sched
        /\ st'.is_replay = FALSE /\ st'.pending_fill = TRUE
        /\ st'.w_waiting = st.w_waiting
    BY <2>1, Typed, TimesFacts DEF Members
  <2>3. ReadChannel' /\ WriteChannel'
    BY <1>1, <1>3, <2>1, <2>2, Frame DEF CInv, ReadChannel, WriteChannel
  <2> QED BY <1>4, <2>1, <2>2, <2>3, Typed
<1>6. CASE MissEvicts
  <2>1. PICK lat \in MemLats : mem' = [mem EXCEPT !.w = st.evict, !.wt = lat]
    BY <1>6 DEF MissEvicts
  <2>2. /\ st.pending_fill /\ ~st.w_waiting /\ st.evict # NoBlk
        /\ st' = [st EXCEPT !.is_replay = FALSE, !.w_waiting = TRUE,
                            !.evict = NoBlk, !.blocked = 1]
    BY <1>6 DEF MissEvicts
  <2>3. /\ st' \in Members /\ st'.mode = st.mode /\ st'.r_waiting = st.r_waiting
        /\ st'.is_shifted = st.is_shifted /\ st'.sched = st.sched
        /\ st'.is_replay = FALSE /\ st'.pending_fill = TRUE
        /\ st'.w_waiting = TRUE /\ st.evict \in Blocks
    BY <2>2, Typed, TimesFacts DEF Members
  <2>4. /\ mem' \in Channels /\ mem'.w = st.evict /\ mem'.wt = lat
        /\ mem'.r = mem.r /\ mem'.rt = mem.rt /\ lat # InfTime
    BY <2>1, <2>3, Typed, TimesFacts DEF Channels
  <2>5. ReadChannel' /\ WriteChannel'
    BY <1>1, <1>3, <2>2, <2>3, <2>4, Frame DEF CInv, ReadChannel, WriteChannel
  <2> QED BY <1>4, <2>3, <2>4, <2>5
<1>7. CASE MissRefills
  <2>1. PICK lat \in MemLats : mem' = [mem EXCEPT !.r = back.blk, !.rt = lat]
    BY <1>7 DEF MissRefills
  <2>2. /\ ~st.w_waiting
        /\ st' = [st EXCEPT !.is_replay = TRUE, !.r_waiting = TRUE,
                            !.pending_fill = FALSE]
    BY <1>7 DEF MissRefills
  <2>3. /\ st' \in Members /\ st'.mode = st.mode /\ st'.r_waiting = TRUE
        /\ st'.is_shifted = st.is_shifted /\ st'.sched = st.sched
        /\ st'.pending_fill = FALSE /\ st'.w_waiting = st.w_waiting
    BY <2>2, Typed DEF Members
  <2>4. /\ mem' \in Channels /\ mem'.r = back.blk /\ mem'.rt = lat
        /\ mem'.w = mem.w /\ mem'.wt = mem.wt /\ lat # InfTime
    BY <1>2, <2>1, Typed, TimesFacts DEF Channels
  <2>5. ReadChannel' /\ WriteChannel'
    BY <1>1, <1>2, <1>3, <2>2, <2>3, <2>4, Frame DEF CInv, ReadChannel, WriteChannel
  <2> QED BY <1>4, <2>3, <2>4, <2>5
<1> QED BY <1>1, <1>5, <1>6, <1>7

\* Time passes, with and without a fence.i.
LEMMA TickCInv == CInv /\ (Tick \/ TickFenceI) => CInv'
<1> SUFFICES ASSUME CInv, Tick \/ TickFenceI PROVE CInv'
  OBVIOUS
<1>1. /\ UNCHANGED <<lines, repl, lag, pipe, stale>> /\ resp' = <<>>
      /\ mem' = MemElapsed /\ phase' \in {"R", "sched"}
      /\ after' \in {"client", "R"}
      /\ st' = StElapsed \/ st' = [StElapsed EXCEPT !.pending_flush = TRUE]
  BY Typed DEF Tick, TickFenceI
<1>2. StElapsed \in Members
  BY Typed, TimesFacts DEF StElapsed, Members
<1>3. /\ StElapsed.mode = st.mode /\ StElapsed.r_waiting = st.r_waiting
      /\ StElapsed.w_waiting = st.w_waiting
      /\ StElapsed.is_shifted = st.is_shifted
      /\ StElapsed.is_replay = st.is_replay
      /\ StElapsed.pending_fill = st.pending_fill
      /\ StElapsed.sched = Elapse(st.sched) /\ st.sched \in Times
  BY Typed DEF StElapsed, Members
<1>4. /\ st' \in Members /\ st'.mode = st.mode /\ st'.r_waiting = st.r_waiting
      /\ st'.w_waiting = st.w_waiting /\ st'.is_shifted = st.is_shifted
      /\ st'.is_replay = st.is_replay /\ st'.pending_fill = st.pending_fill
      /\ st'.sched = Elapse(st.sched)
  BY <1>1, <1>2, <1>3 DEF Members
<1>5. /\ mem' \in Channels /\ mem'.r = mem.r /\ mem'.w = mem.w
      /\ mem'.rt = Elapse(mem.rt) /\ mem'.wt = Elapse(mem.wt)
      /\ mem.rt \in Times /\ mem.wt \in Times
  BY <1>1, Typed, TimesFacts DEF MemElapsed, Channels
<1>6. /\ mem'.rt = InfTime <=> mem.rt = InfTime
      /\ mem'.wt = InfTime <=> mem.wt = InfTime
      /\ st'.sched = InfTime <=> st.sched = InfTime
  BY <1>3, <1>4, <1>5, TimesFacts
<1>7. ReadChannel' /\ WriteChannel'
  BY <1>1, <1>4, <1>5, <1>6, Frame DEF CInv, ReadChannel, WriteChannel
<1>8. Flags'
  BY <1>1, <1>4, <1>6, Frame DEF CInv, Flags
<1> QED BY <1>1, <1>4, <1>5, <1>7, <1>8, Typed, FrameInv

\* A write-through store goes past the pipe.
LEMMA ThroughWriteCInv == \A b \in Blocks : CInv /\ ThroughWrite(b) => CInv'
<1> SUFFICES ASSUME NEW b \in Blocks, CInv, ThroughWrite(b) PROVE CInv'
  OBVIOUS
<1>1. /\ UNCHANGED <<lines, pipe, phase, after>> /\ ~WriteBack
      /\ stale' = stale \cup {b}
      /\ phase = "client" /\ resp' = <<[blk |-> b, mop |-> "Write"]>>
      /\ st' = [st EXCEPT !.w_waiting = TRUE]
  BY DEF ThroughWrite
<1>2. PICK lat \in MemLats : mem' = [mem EXCEPT !.w = b, !.wt = lat]
  BY DEF ThroughWrite
<1>3. repl' \in [Sets -> 0..7] /\ lag' \in Sets \cup {NoSet}
  <2>1. (repl' = repl /\ lag' = lag) \/ (repl' = access(b).repl /\ lag' = access(b).lag)
    BY DEF ThroughWrite
  <2> QED BY <2>1, Typed, AccessFacts DEF CInv
<1>4. /\ st' \in Members /\ st'.mode = st.mode /\ st'.r_waiting = st.r_waiting
      /\ st'.is_shifted = st.is_shifted /\ st'.is_replay = st.is_replay
      /\ st'.pending_fill = st.pending_fill /\ st'.sched = st.sched
  BY <1>1, Typed DEF Members
<1>5. /\ mem' \in Channels /\ mem'.r = mem.r /\ mem'.rt = mem.rt
      /\ mem'.w = b /\ mem'.wt = lat /\ lat # InfTime
  BY <1>2, Typed, TimesFacts DEF Channels
<1>6. ReadChannel' /\ WriteChannel' /\ Flags'
  BY <1>1, <1>4, <1>5, NoBlkFacts, Frame DEF CInv, ReadChannel, WriteChannel, Flags
<1>7. resp' \in {<<>>} \cup {<<r>> : r \in Reqs}
  BY <1>1 DEF Reqs
<1>8. phase' = "client" /\ after' \in {"client", "R"}
  BY <1>1, Typed
<1> QED BY <1>1, <1>3, <1>4, <1>5, <1>6, <1>7, <1>8, Typed, FrameInv

----------------------------------------------------------------------------
(* The tags stay unique when lines are emptied, and when a block that no way *)
(* holds is installed in its set.                                            *)

\* Lines are emptied or left alone.
LEMMA TagsEmptied ==
    ASSUME TagsUnique, Ways' = Ways,
           \A s \in Sets, w \in Ways : lines'[s][w].valid =>
              lines[s][w].valid /\ lines'[s][w].tag = lines[s][w].tag
    PROVE  TagsUnique'
BY DEF TagsUnique

\* A block that no way holds is installed.
LEMMA TagsInstalled ==
    ASSUME TagsUnique, Ways' = Ways, NEW b \in Blocks, NEW way \in Ways, ~probe(b),
           \A s \in Sets, w \in Ways :
              IF s = setIndexOf(b) /\ w = way
              THEN lines'[s][w].tag = b
              ELSE /\ lines'[s][w].valid = lines[s][w].valid
                   /\ lines'[s][w].tag = lines[s][w].tag
    PROVE  TagsUnique'
<1>1. \A w \in Ways : ~(lines[setIndexOf(b)][w].valid
                        /\ lines[setIndexOf(b)][w].tag = b)
  BY DEF probe, HitWays
<1>2. ASSUME NEW s \in Sets, NEW w \in Ways, lines'[s][w].valid
      PROVE  /\ setIndexOf(lines'[s][w].tag) = s
             /\ \A v \in Ways \ {w} :
                   ~(lines'[s][v].valid /\ lines'[s][v].tag = lines'[s][w].tag)
  <2>1. CASE s = setIndexOf(b) /\ w = way
    BY <1>1, <1>2, <2>1
  <2>2. CASE ~(s = setIndexOf(b) /\ w = way)
    <3>1. /\ lines[s][w].valid /\ lines'[s][w].tag = lines[s][w].tag
          /\ setIndexOf(lines[s][w].tag) = s
      BY <1>2, <2>2 DEF TagsUnique
    <3>2. ASSUME NEW v \in Ways \ {w}, lines'[s][v].valid,
                 lines'[s][v].tag = lines'[s][w].tag
          PROVE  FALSE
      <4>1. CASE s = setIndexOf(b) /\ v = way
        BY <1>1, <3>1, <3>2, <4>1
      <4>2. CASE ~(s = setIndexOf(b) /\ v = way)
        BY <3>1, <3>2, <4>2 DEF TagsUnique
      <4> QED BY <4>1, <4>2
    <3> QED BY <3>1, <3>2
  <2> QED BY <2>1, <2>2
<1> QED BY <1>2 DEF TagsUnique

----------------------------------------------------------------------------
(* The steps that change the tag array or the pipe. *)

\* What the slot at the back of the pipe names.
LEMMA BackFacts ==
    ASSUME CInv
    PROVE  /\ PipeDepth \in 1..PipeDepth /\ 1 \in 1..PipeDepth
           /\ pipe \in [1..PipeDepth -> Slots] /\ back \in Slots
           /\ lines \in [Sets -> [Ways -> Line]]
           /\ back.blk # NoBlk => /\ back.blk \in Blocks
                                  /\ setIndexOf(back.blk) \in Sets
           /\ back.way # NoWay => back.way \in Ways
<1>1. PipeDepth \in Nat \ {0}
  BY Typed, ModeFacts
<1>2. PipeDepth \in 1..PipeDepth /\ 1 \in 1..PipeDepth
  BY <1>1
<1>3. /\ pipe \in [1..PipeDepth -> Slots] /\ lines \in [Sets -> [Ways -> Line]]
  BY DEF CInv, TypeOK
<1>4. back \in Slots
  BY <1>2, <1>3 DEF back
<1> QED BY <1>2, <1>3, <1>4, SetOfBlock DEF Slots

\* The flags are down when there is nothing at the back.
LEMMA EmptyBack ==
    ASSUME CInv, ~LookedUp
    PROVE  /\ ~st.r_waiting /\ mem.r = NoBlk /\ mem.rt = InfTime
           /\ ~st.pending_fill /\ ~st.is_replay
           /\ WriteBack => ~st.w_waiting /\ mem.w = NoBlk
BY DEF CInv, ReadChannel, WriteChannel, Flags, BackMissing

\* recv_mem_resp for a refill: the reserved line is filled and the pipe replayed.
LEMMA RecvReadRespCInv == CInv /\ RecvReadResp => CInv'
<1> SUFFICES ASSUME CInv, RecvReadResp PROVE CInv'
  OBVIOUS
<1> DEFINE s == setIndexOf(back.blk)
           way == back.way
<1>1. /\ UNCHANGED <<lag, pipe, stale, after>> /\ mem.rt = 0
      /\ phase' = "W" /\ resp' = <<>>
      /\ mem' = [mem EXCEPT !.r = NoBlk, !.rt = InfTime]
      /\ st' = [st EXCEPT !.r_waiting = FALSE,
                          !.blocked = IF WriteBack /\ ~Cwf THEN 2 ELSE 1]
      /\ handle_fill(mem.r, back.way)
  BY DEF RecvReadResp, Due
<1>2. /\ st.r_waiting /\ BackMissing /\ mem.r = back.blk /\ ~st.pending_fill
      /\ LookedUp /\ back.blk \in Blocks /\ s \in Sets /\ way \in Ways
      /\ ~probe(back.blk)
  <2>1. mem.rt # InfTime
    BY <1>1, TimesFacts
  <2>2. st.r_waiting /\ BackMissing /\ mem.r = back.blk /\ ~st.pending_fill
    BY <2>1 DEF CInv, ReadChannel
  <2> QED BY <2>2, BackFacts DEF CInv, BackMissing, LookedUp, Reserved
<1>3. /\ lines' = [lines EXCEPT ![s][way] = Activated(back.blk)]
      /\ repl' = [repl EXCEPT ![s] = onFill(Policy, Assoc, repl[s], way)]
  BY <1>1, <1>2 DEF handle_fill
<1>4. /\ st' \in Members /\ st'.mode = st.mode /\ st'.r_waiting = FALSE
      /\ st'.w_waiting = st.w_waiting /\ st'.is_shifted = st.is_shifted
      /\ st'.is_replay = st.is_replay /\ st'.pending_fill = st.pending_fill
      /\ st'.sched = st.sched
  BY <1>1, Typed, TimesFacts DEF Members
<1>5. /\ mem' \in Channels /\ mem'.w = mem.w /\ mem'.wt = mem.wt
      /\ mem'.r = NoBlk /\ mem'.rt = InfTime
  BY <1>1, Typed, TimesFacts DEF Channels
<1>6. /\ PipeDepth' = PipeDepth /\ Ways' = Ways /\ WriteBack' = WriteBack
      /\ Slots' = Slots /\ back' = back /\ LookedUp' = LookedUp
  BY <1>1, <1>4 DEF PipeDepth, Ways, Assoc, WriteBack, Slots, back, LookedUp
<1>7. /\ lines' \in [Sets -> [Ways -> Line]]
      /\ \A t \in Sets, v \in Ways :
            lines'[t][v] = IF t = s /\ v = way THEN Activated(back.blk)
                           ELSE lines[t][v]
  <2>1. Activated(back.blk) \in Line
    BY <1>2 DEF Activated, Line
  <2> QED BY <1>2, <1>3, <2>1, BackFacts, LineWritten
<1>8. BackLine' = Activated(back.blk)
  BY <1>2, <1>6, <1>7 DEF BackLine
<1>9. repl' \in [Sets -> 0..7]
  <2>1. repl[s] \in 0..7 /\ Assoc \in {1, 2, 4}
    BY <1>2, Typed, ModeFacts
  <2>2. onFill(Policy, Assoc, repl[s], way) \in 0..7
    BY <1>2, <2>1, PolicyFacts DEF Ways
  <2> QED BY <1>2, <1>3, <2>2, Typed
<1>10. TypeOK'
  <2>1. pipe' \in [1..PipeDepth' -> Slots']
    BY <1>1, <1>6, BackFacts
  <2> QED BY <1>1, <1>4, <1>5, <1>6, <1>7, <1>9, <2>1, Typed DEF TypeOK
<1>11. PipeShape'
  BY <1>1, <1>4, <1>6 DEF CInv, PipeShape
<1>12. Reserved'
  BY <1>6, <1>8 DEF Reserved, Activated
<1>13. ReadChannel' /\ WriteChannel'
  BY <1>1, <1>4, <1>5, <1>6 DEF CInv, ReadChannel, WriteChannel
<1>14. Flags'
  BY <1>2, <1>4, <1>6, <1>8 DEF CInv, Flags, Activated, LookedUp
<1>15. TagsUnique'
  <2>1. \A t \in Sets, v \in Ways :
           IF t = setIndexOf(back.blk) /\ v = way
           THEN lines'[t][v].tag = back.blk
           ELSE /\ lines'[t][v].valid = lines[t][v].valid
                /\ lines'[t][v].tag = lines[t][v].tag
    BY <1>7 DEF Activated
  <2> QED BY <1>2, <1>6, <2>1, TagsInstalled DEF CInv
<1> QED BY <1>10, <1>11, <1>12, <1>13, <1>14, <1>15 DEF CInv

\* handle_flush empties the tag array.
LEMMA HandleFlushCInv == CInv /\ HandleFlush => CInv'
<1> SUFFICES ASSUME CInv, HandleFlush PROVE CInv'
  OBVIOUS
<1>1. /\ UNCHANGED <<repl, lag, mem, stale>> /\ phase = "shift"
      /\ phase' = after /\ after' = "client" /\ resp' = <<>>
      /\ lines' = [s \in Sets |-> [w \in Ways |-> Invalidated(lines[s][w])]]
      /\ pipe' = [i \in 1..PipeDepth |-> NoEntry]
      /\ st' = [st EXCEPT !.is_shifted = TRUE, !.is_replay = FALSE,
                          !.r_waiting = FALSE, !.w_waiting = FALSE,
                          !.pending_flush = FALSE, !.pending_fill = FALSE,
                          !.evict = NoBlk, !.sched = InfTime,
                          !.blocked = 1]
  BY DEF HandleFlush
<1>2. /\ st' \in Members /\ st'.mode = st.mode /\ st'.r_waiting = FALSE
      /\ st'.w_waiting = FALSE /\ st'.is_replay = FALSE
      /\ st'.pending_fill = FALSE /\ st'.sched = InfTime
  BY <1>1, Typed, TimesFacts DEF Members
<1>3. ~LookedUp
  BY <1>1 DEF CInv, PipeShape, LookedUp
<1>4. /\ PipeDepth' = PipeDepth /\ Ways' = Ways /\ WriteBack' = WriteBack
      /\ Slots' = Slots
  BY <1>2 DEF PipeDepth, Ways, Assoc, WriteBack, Slots
<1>5. /\ \A i \in 1..PipeDepth : pipe'[i] = NoEntry
      /\ back' = NoEntry /\ pipe'[1] = NoEntry
  BY <1>1, <1>4, BackFacts DEF back
<1>6. \A s \in Sets, w \in Ways :
         /\ lines'[s][w] \in Line /\ lines'[s][w].valid = FALSE
  <2>1. \A l \in Line : Invalidated(l) \in Line /\ Invalidated(l).valid = FALSE
    BY NoBlkFacts DEF Invalidated, Line
  <2> QED BY <1>1, <2>1, BackFacts
<1>7. TypeOK'
  <2>1. lines' \in [Sets -> [Ways' -> Line]]
    BY <1>1, <1>4, <1>6
  <2>2. NoEntry \in Slots
    BY DEF NoEntry, Slots
  <2>3. pipe' \in [1..PipeDepth' -> Slots']
    BY <1>1, <1>4, <2>2
  <2>4. after \in {"client", "R"}
    BY Typed
  <2> QED BY <1>1, <1>2, <2>1, <2>3, <2>4, Typed DEF TypeOK
<1>8. PipeShape'
  <2>1. phase' \in {"client", "R"}
    BY <1>1, Typed
  <2> QED BY <1>4, <1>5, <2>1 DEF PipeShape, NoEntry
<1>9. Reserved' /\ Flags'
  BY <1>2, <1>5 DEF Reserved, Flags, LookedUp, NoEntry
<1>10. ReadChannel' /\ WriteChannel'
  BY <1>1, <1>2, <1>3, <1>4, EmptyBack DEF CInv, ReadChannel, WriteChannel
<1>11. TagsUnique'
  BY <1>4, <1>6 DEF TagsUnique
<1> QED BY <1>7, <1>8, <1>9, <1>10, <1>11 DEF CInv

\* A request enters the front of the pipe.
LEMMA PipeReqCInv == \A r \in Reqs : CInv /\ PipeReq(r) => CInv'
<1> SUFFICES ASSUME NEW r \in Reqs, CInv, PipeReq(r) PROVE CInv'
  OBVIOUS
<1> DEFINE e == [blk |-> r.blk, mop |-> r.mop, way |-> NoWay]
<1>1. /\ UNCHANGED <<lines, repl, lag, mem, stale, phase, after>>
      /\ phase = "client" /\ resp' = <<>> /\ ReadReady
      /\ pipe' = [pipe EXCEPT ![1] = e]
      /\ st' = [st EXCEPT !.blocked = 1, !.is_shifted = FALSE]
  BY DEF PipeReq
<1>2. /\ st' \in Members /\ st'.mode = st.mode /\ st'.r_waiting = st.r_waiting
      /\ st'.w_waiting = st.w_waiting /\ st'.is_shifted = FALSE
      /\ st'.is_replay = st.is_replay /\ st'.pending_fill = st.pending_fill
      /\ st'.sched = st.sched
  BY <1>1, Typed, TimesFacts DEF Members
<1>3. /\ PipeDepth' = PipeDepth /\ Ways' = Ways /\ WriteBack' = WriteBack
      /\ Slots' = Slots
  BY <1>2 DEF PipeDepth, Ways, Assoc, WriteBack, Slots
<1>4. /\ e \in Slots /\ e.way = NoWay /\ e.blk # NoBlk
  BY NoBlkFacts DEF Reqs, Slots
<1> HIDE DEF e
<1>5. /\ pipe' \in [1..PipeDepth -> Slots] /\ pipe'[1] = e
      /\ \A i \in 1..PipeDepth : i # 1 => pipe'[i] = pipe[i]
  BY <1>1, <1>4, BackFacts
<1>6. TypeOK'
  <2>1. lines' \in [Sets -> [Ways' -> Line]]
    BY <1>1, <1>3, BackFacts
  <2>2. phase' = "client" /\ after' \in {"client", "R"}
    BY <1>1, Typed
  <2> QED BY <1>1, <1>2, <1>3, <1>5, <2>1, <2>2, Typed DEF TypeOK
<1>7. TagsUnique'
  BY <1>1, <1>3 DEF CInv, TagsUnique
<1>9. \A i \in 1..PipeDepth : i # PipeDepth => pipe'[i].way = NoWay
  BY <1>4, <1>5 DEF CInv, PipeShape
<1>10. CASE PipeDepth = 1
  <2>1. back' = e /\ back = pipe[1] /\ back.blk = NoBlk
    BY <1>1, <1>3, <1>5, <1>10 DEF back, CInv, PipeShape, ReadReady
  <2>2. ~LookedUp /\ ~LookedUp'
    BY <1>4, <2>1 DEF LookedUp
  <2>3. PipeShape'
    BY <1>1, <1>2, <1>3, <1>4, <1>9, <2>1 DEF PipeShape
  <2>4. st.sched = InfTime
    BY <1>1 DEF ReadReady, CInv, Flags
  <2>5. Reserved' /\ Flags'
    BY <1>2, <2>2, <2>4, EmptyBack DEF Reserved, Flags
  <2>6. ReadChannel' /\ WriteChannel'
    BY <1>1, <1>2, <1>3, <2>2, EmptyBack DEF CInv, ReadChannel, WriteChannel
  <2> QED BY <1>6, <1>7, <2>3, <2>5, <2>6 DEF CInv
<1>11. CASE PipeDepth # 1
  <2>1. back' = back
    BY <1>3, <1>5, <1>11, BackFacts DEF back
  <2>2. /\ LookedUp' = LookedUp /\ BackLine' = BackLine
        /\ BackMissing' = BackMissing /\ \A b : probe(b)' = probe(b)
    BY <1>1, <1>3, <2>1 DEF LookedUp, BackLine, BackMissing, probe, HitWays
  <2>3. PipeShape'
    BY <1>1, <1>2, <1>3, <1>9, <2>1 DEF CInv, PipeShape
  <2>4. Reserved' /\ Flags'
    BY <1>2, <1>3, <2>1, <2>2 DEF CInv, Reserved, Flags
  <2>5. ReadChannel' /\ WriteChannel'
    BY <1>1, <1>2, <1>3, <2>1, <2>2 DEF CInv, ReadChannel, WriteChannel
  <2> QED BY <1>6, <1>7, <2>3, <2>4, <2>5 DEF CInv
<1> QED BY <1>10, <1>11

\* Serving a hit: the entry leaves, its line may become dirty, a prefetch may
\* install a block that was in no way of its set.
LEMMA ServeHitLines ==
    ASSUME CInv, ServeHit
    PROVE  /\ lines' \in [Sets -> [Ways -> Line]]
           /\ repl' \in [Sets -> 0..7]
           /\ Ways' = Ways => TagsUnique'
<1> DEFINE s == setIndexOf(back.blk)
<1>1. /\ back.blk # NoBlk /\ BackLine.valid
      /\ phase = "serve"
  BY DEF ServeHit
<1>2. /\ back.blk \in Blocks /\ s \in Sets /\ back.way \in Ways
      /\ lines \in [Sets -> [Ways -> Line]]
  BY <1>1, BackFacts DEF CInv, PipeShape
<1>3. /\ HitLines \in [Sets -> [Ways -> Line]]
      /\ \A t \in Sets, v \in Ways :
            /\ HitLines[t][v].valid = lines[t][v].valid
            /\ HitLines[t][v].tag = lines[t][v].tag
  <2>1. CASE back.mop = "Write"
    <3> DEFINE x == [lines[s][back.way] EXCEPT !.dirty = TRUE]
    <3>1. lines[s][back.way] \in Line
      BY <1>2
    <3>2. /\ x \in Line /\ x.valid = lines[s][back.way].valid
          /\ x.tag = lines[s][back.way].tag
      BY <3>1 DEF Line
    <3>3. HitLines = [lines EXCEPT ![s][back.way] = x]
      BY <2>1 DEF HitLines
    <3> HIDE DEF x
    <3>4. /\ HitLines \in [Sets -> [Ways -> Line]]
          /\ \A t \in Sets, v \in Ways :
                HitLines[t][v] = IF t = s /\ v = back.way THEN x ELSE lines[t][v]
      BY <1>2, <3>2, <3>3, LineWritten
    <3> QED BY <3>2, <3>4
  <2>2. CASE back.mop # "Write"
    BY <1>2, <2>2 DEF HitLines
  <2> QED BY <2>1, <2>2
<1>4. PICK pb \in Blocks \cup {NoBlk} : handle_prefetch(pb, HitLines)
  <2>1. PICK pb \in IF back.mop = "Read" /\ ~st.r_waiting
                    THEN Prefetched(back.blk, ~st.is_replay) ELSE {NoBlk} :
              handle_prefetch(pb, HitLines)
    BY DEF ServeHit
  <2>2. \A b \in Blocks : NextLine(b) \in Blocks
    BY GeometryAssumption DEF NextLine, Blocks
  <2>3. Prefetch \in {"none", "nextline", "tagged", "stride"}
    BY Typed, ModeAssumption DEF Members, Prefetch
  <2>4. \A h : Prefetched(back.blk, h) \subseteq Blocks \cup {NoBlk}
    BY <1>2, <2>2, <2>3 DEF Prefetched, TaggedProbe
  <2> QED BY <2>1, <2>4
<1>5. CASE pb = NoBlk \/ probe(pb)
  <2>1. lines' = HitLines /\ repl' = repl
    BY <1>4, <1>5 DEF handle_prefetch
  <2>2. Ways' = Ways => TagsUnique'
    BY <1>3, <2>1, TagsEmptied DEF CInv
  <2> QED BY <1>3, <2>1, <2>2, Typed
<1>6. CASE pb # NoBlk /\ ~probe(pb)
  <2> DEFINE t == setIndexOf(pb)
             w == VictimIn(setIndexOf(pb))
  <2>1. pb \in Blocks /\ t \in Sets
    BY <1>4, <1>6, SetOfBlock
  <2>2. w \in Ways
    BY <2>1, VictimFacts DEF CInv
  <2>3. /\ lines' = [HitLines EXCEPT ![t][w] = Activated(pb)]
        /\ repl' = [repl EXCEPT ![t] = onFill(Policy, Assoc, repl[t], w)]
    BY <1>4, <1>6 DEF handle_prefetch
  <2>4. Activated(pb) \in Line /\ Activated(pb).tag = pb
    BY <2>1 DEF Activated, Line
  <2>5. /\ lines' \in [Sets -> [Ways -> Line]]
        /\ \A u \in Sets, v \in Ways :
              lines'[u][v] = IF u = t /\ v = w THEN Activated(pb) ELSE HitLines[u][v]
    BY <1>3, <2>1, <2>2, <2>3, <2>4, LineWritten
  <2>6. repl' \in [Sets -> 0..7]
    <3>1. repl[t] \in 0..7 /\ Assoc \in {1, 2, 4}
      BY <2>1, Typed, ModeFacts
    <3>2. onFill(Policy, Assoc, repl[t], w) \in 0..7
      BY <2>2, <3>1, PolicyFacts DEF Ways
    <3> QED BY <2>1, <2>3, <3>2, Typed
  <2>7. \A u \in Sets, v \in Ways :
           IF u = setIndexOf(pb) /\ v = w
           THEN lines'[u][v].tag = pb
           ELSE /\ lines'[u][v].valid = lines[u][v].valid
                /\ lines'[u][v].tag = lines[u][v].tag
    BY <1>3, <2>4, <2>5
  <2>8. Ways' = Ways => TagsUnique'
    BY <1>6, <2>1, <2>2, <2>7, TagsInstalled DEF CInv
  <2> QED BY <2>5, <2>6, <2>8
<1> QED BY <1>4, <1>5, <1>6

\* The request at the back hits.
LEMMA ServeHitCInv == CInv /\ ServeHit => CInv'
<1> SUFFICES ASSUME CInv, ServeHit PROVE CInv'
  OBVIOUS
<1> DEFINE deferred == WriteBack /\ HitDelay > 0
<1>1. /\ UNCHANGED <<lag, mem, after>> /\ back.blk # NoBlk /\ BackLine.valid
      /\ phase = "serve" /\ phase' = "shift" /\ handle_hit
      /\ pipe' = [pipe EXCEPT ![PipeDepth] = NoEntry]
  BY DEF ServeHit
<1>2. /\ resp' = IF deferred THEN <<>> ELSE <<Request(back)>>
      /\ st' = [st EXCEPT
                   !.is_replay = FALSE,
                   !.blocked = 1,
                   !.sched = IF deferred THEN HitDelay ELSE @,
                   !.sched_resp = IF deferred THEN Request(back) ELSE @]
      /\ stale' \in {stale, stale \cup {back.blk}}
  BY <1>1 DEF handle_hit
<1>3. Request(back) \in Reqs /\ stale' \subseteq Blocks
  BY <1>1, <1>2, Typed, BackFacts DEF Request, Reqs, Slots
<1>4. /\ st' \in Members /\ st'.mode = st.mode /\ st'.r_waiting = st.r_waiting
      /\ st'.w_waiting = st.w_waiting /\ st'.is_shifted = st.is_shifted
      /\ st'.is_replay = FALSE /\ st'.pending_fill = st.pending_fill
      /\ st'.sched = IF deferred THEN HitDelay ELSE st.sched
  BY <1>2, <1>3, Typed, ModeFacts, TimesFacts DEF Members
<1>5. /\ PipeDepth' = PipeDepth /\ Ways' = Ways /\ WriteBack' = WriteBack
      /\ Slots' = Slots
  BY <1>4 DEF PipeDepth, Ways, Assoc, WriteBack, Slots
<1>6. ~BackMissing /\ ~st.r_waiting /\ ~st.pending_fill
  BY <1>1 DEF BackMissing, CInv, ReadChannel, Flags
<1>7. /\ NoEntry \in Slots /\ NoEntry.blk = NoBlk /\ NoEntry.way = NoWay
  BY DEF NoEntry, Slots
<1>8. /\ pipe' \in [1..PipeDepth -> Slots] /\ back' = NoEntry
      /\ \A i \in 1..PipeDepth : i # PipeDepth => pipe'[i] = pipe[i]
      /\ pipe'[1] \in {pipe[1], NoEntry}
  BY <1>1, <1>5, <1>7, BackFacts DEF back
<1>9. TypeOK'
  <2>1. lines' \in [Sets -> [Ways' -> Line]] /\ repl' \in [Sets -> 0..7]
    BY <1>5, ServeHitLines
  <2>2. resp' \in {<<>>} \cup {<<r>> : r \in Reqs}
    BY <1>2, <1>3
  <2>3. after' \in {"client", "R"} /\ mem' \in Channels
        /\ lag' \in Sets \cup {NoSet}
    BY <1>1, Typed
  <2> QED BY <1>1, <1>3, <1>4, <1>5, <1>8, <2>1, <2>2, <2>3 DEF TypeOK
<1>10. PipeShape'
  BY <1>1, <1>4, <1>5, <1>7, <1>8 DEF CInv, PipeShape
<1>11. ~LookedUp'
  BY <1>7, <1>8 DEF LookedUp
<1>12. Reserved' /\ Flags'
  <2>1. st'.sched # InfTime => WriteBack' /\ back'.blk = NoBlk
    BY <1>4, <1>5, <1>7, <1>8 DEF CInv, Flags
  <2> QED BY <1>4, <1>6, <1>11, <2>1 DEF Reserved, Flags
<1>13. ReadChannel' /\ WriteChannel'
  BY <1>1, <1>4, <1>5, <1>6 DEF CInv, ReadChannel, WriteChannel
<1>14. TagsUnique'
  BY <1>5, ServeHitLines
<1> QED BY <1>9, <1>10, <1>12, <1>13, <1>14 DEF CInv

\* What an entry that is given a way at the back finds there: shared by Lookup
\* and Shift.
LEMMA AccessReserves ==
    ASSUME CInv, NEW b \in Blocks, Ways' = Ways, lines' = access(b).lines,
           back'.blk = b, back'.way = access(b).way
    PROVE  /\ LookedUp' /\ Reserved' /\ TagsUnique'
           /\ ~probe(b) => BackMissing'
<1> DEFINE s == setIndexOf(b)
           w == access(b).way
<1>1. s \in Sets /\ w \in Ways /\ TypeOK
  BY SetOfBlock, AccessFacts DEF CInv
<1>2. NoWay \notin Ways
  BY Typed, ModeFacts DEF NoWay, Ways
<1>3. LookedUp' /\ BackLine' = lines'[s][w]
  BY <1>1, <1>2, NoBlkFacts DEF LookedUp, BackLine
<1>4. CASE probe(b)
  <2>1. lines' = lines /\ w \in HitWays(b)
    BY <1>1, <1>4, AccessFacts
  <2>2. BackLine'.valid /\ BackLine'.tag = b
    BY <1>3, <2>1 DEF HitWays
  <2>3. TagsUnique'
    BY <2>1 DEF CInv, TagsUnique
  <2> QED BY <1>3, <1>4, <2>2, <2>3 DEF Reserved
<1>5. CASE ~probe(b)
  <2>1. \A t \in Sets, v \in Ways :
           lines'[t][v] = IF t = s /\ v = w THEN Invalidated(lines[t][v])
                          ELSE lines[t][v]
    BY <1>1, <1>5, AccessFacts
  <2>2. \A l \in Line : Invalidated(l).valid = FALSE
    BY DEF Invalidated, Line
  <2>3. \A t \in Sets, v \in Ways : lines[t][v] \in Line
    BY BackFacts
  <2>4. BackLine'.valid = FALSE
    BY <1>1, <1>3, <2>1, <2>2, <2>3
  <2>5. \A t \in Sets, v \in Ways : lines'[t][v].valid =>
           lines[t][v].valid /\ lines'[t][v].tag = lines[t][v].tag
    BY <2>1, <2>2, <2>3
  <2>6. ~probe(b)'
    BY <1>1, <1>5, <2>5 DEF probe, HitWays
  <2>7. TagsUnique'
    BY <2>5, TagsEmptied DEF CInv
  <2> QED BY <1>3, <2>4, <2>6, <2>7 DEF Reserved, BackMissing
<1> QED BY <1>4, <1>5

\* What save_evict_info records of the victim.
LEMMA SaveEvictFacts ==
    ASSUME CInv, NEW b \in Blocks
    PROVE  LET st2 == save_evict_info(b)
               l   == lines[setIndexOf(b)][miss_victim_way(b)]
           IN  /\ st2 \in Members /\ st2.mode = st.mode
               /\ st2.r_waiting = st.r_waiting /\ st2.w_waiting = st.w_waiting
               /\ st2.is_shifted = st.is_shifted /\ st2.is_replay = st.is_replay
               /\ st2.pending_fill = st.pending_fill /\ st2.sched = st.sched
               /\ st2.evict = IF WriteBack /\ l.valid /\ l.dirty THEN l.tag ELSE NoBlk
<1>1. lines[setIndexOf(b)][miss_victim_way(b)] \in Line
  BY SetOfBlock, VictimFacts, BackFacts DEF CInv
<1> QED BY <1>1, Typed DEF save_evict_info, Members, Line

\* The tag lookup of the request at the back.
LEMMA LookupCInv == CInv /\ Lookup => CInv'
<1> SUFFICES ASSUME CInv, Lookup PROVE CInv'
  OBVIOUS
<1>1. /\ UNCHANGED <<mem, stale, after>> /\ resp' = <<>>
      /\ phase = "lookup" /\ phase' = "serve"
  BY DEF Lookup
<1>2. ~st.r_waiting /\ TypeOK
  BY <1>1 DEF CInv, ReadChannel
<1>3. CASE ~(back.blk # NoBlk /\ back.way = NoWay)
  <2>1. UNCHANGED <<lines, repl, lag, pipe, st>>
    BY <1>3 DEF Lookup
  <2>2. TypeOK'
    BY <1>1, <2>1, Frame DEF CInv, TypeOK
  <2>3. PipeShape'
    BY <1>1, <1>3, <2>1, Frame DEF CInv, PipeShape
  <2>4. Reserved' /\ TagsUnique'
    BY <2>1, Frame DEF CInv
  <2>5. ReadChannel' /\ WriteChannel' /\ Flags'
    BY <1>1, <1>2, <2>1, Frame DEF CInv, ReadChannel, WriteChannel, Flags
  <2> QED BY <2>2, <2>3, <2>4, <2>5 DEF CInv
<1>4. CASE back.blk # NoBlk /\ back.way = NoWay
  <2> DEFINE b == back.blk
  <2>1. /\ st' = save_evict_info(b) /\ lines' = access(b).lines
        /\ repl' = access(b).repl /\ lag' = access(b).lag
        /\ pipe' = [pipe EXCEPT ![PipeDepth].way = access(b).way]
    BY <1>4 DEF Lookup
  <2>2. b \in Blocks /\ ~LookedUp
    BY <1>4, BackFacts DEF LookedUp
  <2>3. /\ st' \in Members /\ st'.mode = st.mode /\ st'.r_waiting = st.r_waiting
        /\ st'.w_waiting = st.w_waiting /\ st'.is_shifted = st.is_shifted
        /\ st'.is_replay = st.is_replay /\ st'.pending_fill = st.pending_fill
        /\ st'.sched = st.sched
    BY <2>1, <2>2, SaveEvictFacts
  <2>4. /\ PipeDepth' = PipeDepth /\ Ways' = Ways /\ WriteBack' = WriteBack
        /\ Slots' = Slots
    BY <2>3 DEF PipeDepth, Ways, Assoc, WriteBack, Slots
  <2>5. access(b).way \in Ways
    BY <1>2, <2>2, AccessFacts
  <2>6. /\ pipe' \in [1..PipeDepth -> Slots]
        /\ pipe'[PipeDepth].blk = b /\ pipe'[PipeDepth].way = access(b).way
        /\ \A i \in 1..PipeDepth : i # PipeDepth => pipe'[i] = pipe[i]
    BY <2>1, <2>5, BackFacts DEF Slots, back
  <2>7. back'.blk = b /\ back'.way = access(b).way
    BY <2>4, <2>6 DEF back
  <2>8. LookedUp' /\ Reserved' /\ TagsUnique'
    BY <2>1, <2>2, <2>4, <2>7, AccessReserves
  <2>9. TypeOK'
    <3>1. /\ lines' \in [Sets -> [Ways' -> Line]] /\ repl' \in [Sets -> 0..7]
          /\ lag' \in Sets \cup {NoSet}
      BY <1>2, <2>1, <2>2, <2>4, AccessFacts
    <3>2. after' \in {"client", "R"} /\ mem' \in Channels /\ stale' \subseteq Blocks
      BY <1>1, Typed
    <3> QED BY <1>1, <2>3, <2>4, <2>6, <3>1, <3>2 DEF TypeOK
  <2>10. PipeShape'
    <3>1. 1 \in 1..PipeDepth
      BY BackFacts
    <3>2. \A i \in 1..PipeDepth : i # PipeDepth => pipe'[i].way = NoWay
      <4>1. \A i \in 1..PipeDepth : i # PipeDepth => pipe[i].way = NoWay
        BY DEF CInv, PipeShape
      <4> QED BY <2>6, <4>1, Zenon
    <3>3. st.is_shifted => pipe'[1].blk = NoBlk
      <4>1. st.is_shifted => pipe[1].blk = NoBlk
        BY DEF CInv, PipeShape
      <4>2. CASE PipeDepth = 1
        BY <1>4, <4>1, <4>2 DEF back
      <4>3. CASE PipeDepth # 1
        BY <2>6, <3>1, <4>1, <4>3, Zenon
      <4> QED BY <4>2, <4>3
    <3> QED BY <1>1, <2>3, <2>4, <2>8, <3>2, <3>3 DEF PipeShape, LookedUp
  <2>11. ReadChannel' /\ WriteChannel'
    BY <1>1, <2>2, <2>3, <2>4, EmptyBack DEF CInv, ReadChannel, WriteChannel
  <2>12. Flags'
    <3>1. st.sched = InfTime
      BY <1>4 DEF CInv, Flags
    <3> QED BY <2>2, <2>3, <3>1, EmptyBack DEF Flags
  <2> QED BY <2>8, <2>9, <2>10, <2>11, <2>12 DEF CInv
<1> QED BY <1>3, <1>4

\* The pipe advances.
LEMMA ShiftCInv == CInv /\ Shift => CInv'
<1> SUFFICES ASSUME CInv, Shift PROVE CInv'
  OBVIOUS
<1> DEFINE shifted == [i \in 1..PipeDepth |->
                         IF i > 1 THEN pipe[i - 1]
                         ELSE IF PipeDepth > 1 THEN NoEntry ELSE pipe[1]]
           tail == shifted[PipeDepth]
           miss == tail.blk # NoBlk /\ tail.way = NoWay /\ ~probe(tail.blk)
<1>1. /\ UNCHANGED <<mem, stale>> /\ resp' = <<>> /\ phase = "shift"
      /\ phase' = after /\ after' = "client"
  BY DEF Shift
<1>2. /\ after \in {"client", "R"} /\ TypeOK /\ back.blk = NoBlk /\ ~LookedUp
      /\ back.way = NoWay
  BY <1>1, Typed DEF CInv, PipeShape, LookedUp
<1>3. /\ NoEntry \in Slots /\ NoEntry.blk = NoBlk /\ NoEntry.way = NoWay
  BY DEF NoEntry, Slots
<1>4. PipeDepth \in Nat \ {0}
  BY Typed, ModeFacts
<1>5. /\ \A i \in 1..PipeDepth : shifted[i] \in Slots /\ shifted[i].way = NoWay
      /\ shifted[1].blk = NoBlk
  <2>1. ASSUME NEW i \in 1..PipeDepth
        PROVE  shifted[i] \in Slots /\ shifted[i].way = NoWay
    <3>1. CASE i > 1
      <4>1. i - 1 \in 1..PipeDepth /\ i - 1 # PipeDepth /\ shifted[i] = pipe[i - 1]
        BY <1>4, <3>1
      <4>2. pipe[i - 1] \in Slots /\ pipe[i - 1].way = NoWay
        BY <4>1, BackFacts DEF CInv, PipeShape
      <4> QED BY <4>1, <4>2
    <3>2. CASE i = 1 /\ PipeDepth > 1
      BY <1>3, <3>2
    <3>3. CASE i = 1 /\ PipeDepth = 1
      BY <1>2, <3>3, BackFacts DEF back
    <3> QED BY <1>4, <3>1, <3>2, <3>3
  <2>2. shifted[1].blk = NoBlk
    <3>1. CASE PipeDepth > 1 BY <1>3, <1>4, <3>1
    <3>2. CASE PipeDepth = 1 BY <1>2, <3>2 DEF back
    <3> QED BY <1>4, <3>1, <3>2
  <2> QED BY <2>1, <2>2
<1>6. /\ shifted \in [1..PipeDepth -> Slots] /\ tail \in Slots /\ tail.way = NoWay
      /\ PipeDepth = 1 => tail.blk = NoBlk
  BY <1>4, <1>5
<1>7. CASE ~miss
  <2>1. /\ st' = [st EXCEPT !.is_shifted = TRUE] /\ pipe' = shifted
        /\ UNCHANGED <<lines, repl, lag>>
    BY <1>7 DEF Shift
  <2>2. /\ st' \in Members /\ st'.mode = st.mode /\ st'.r_waiting = st.r_waiting
        /\ st'.w_waiting = st.w_waiting /\ st'.is_replay = st.is_replay
        /\ st'.pending_fill = st.pending_fill /\ st'.sched = st.sched
    BY <2>1, Typed DEF Members
  <2>3. /\ PipeDepth' = PipeDepth /\ Ways' = Ways /\ WriteBack' = WriteBack
        /\ Slots' = Slots
    BY <2>2 DEF PipeDepth, Ways, Assoc, WriteBack, Slots
  <2>4. back' = tail
    BY <2>1, <2>3 DEF back
  <2> HIDE DEF shifted
  <2>5. ~LookedUp'
    BY <1>6, <2>4 DEF LookedUp
  <2>6. TypeOK'
    <3>1. lines' \in [Sets -> [Ways' -> Line]]
      BY <2>1, <2>3, BackFacts
    <3>2. pipe' \in [1..PipeDepth' -> Slots']
      BY <1>6, <2>1, <2>3
    <3> QED BY <1>1, <1>2, <2>1, <2>2, <3>1, <3>2, Typed DEF TypeOK
  <2>7. PipeShape'
    BY <1>1, <1>2, <1>5, <1>6, <2>1, <2>3, <2>4 DEF PipeShape
  <2>8. Reserved' /\ TagsUnique'
    BY <2>1, <2>3, <2>5 DEF CInv, Reserved, TagsUnique
  <2>9. ReadChannel' /\ WriteChannel'
    BY <1>1, <1>2, <2>2, <2>3, EmptyBack DEF CInv, ReadChannel, WriteChannel
  <2>10. Flags'
    <3>1. st'.sched # InfTime => WriteBack' /\ back'.blk = NoBlk
      BY <1>6, <2>2, <2>3, <2>4, Typed, ModeFacts DEF CInv, Flags
    <3> QED BY <1>2, <2>2, <3>1, EmptyBack DEF Flags
  <2> QED BY <2>6, <2>7, <2>8, <2>9, <2>10 DEF CInv
<1>8. CASE miss
  <2> DEFINE b == tail.blk
  <2>1. /\ st' = [save_evict_info(b) EXCEPT !.pending_fill = TRUE, !.blocked = 1]
        /\ pipe' = [shifted EXCEPT ![PipeDepth].way = access(b).way]
        /\ lines' = access(b).lines /\ repl' = access(b).repl
        /\ lag' = access(b).lag
    BY <1>8 DEF Shift
  <2>2. b \in Blocks /\ ~probe(b) /\ ~WriteBack /\ PipeDepth # 1
    BY <1>6, <1>8, Typed, ModeFacts DEF Slots
  <2>3. /\ st' \in Members /\ st'.mode = st.mode /\ st'.r_waiting = st.r_waiting
        /\ st'.w_waiting = st.w_waiting /\ st'.is_shifted = st.is_shifted
        /\ st'.is_replay = st.is_replay /\ st'.pending_fill = TRUE
        /\ st'.sched = st.sched
    <3>1. /\ save_evict_info(b) \in Members
          /\ save_evict_info(b).mode = st.mode
          /\ save_evict_info(b).r_waiting = st.r_waiting
          /\ save_evict_info(b).w_waiting = st.w_waiting
          /\ save_evict_info(b).is_shifted = st.is_shifted
          /\ save_evict_info(b).is_replay = st.is_replay
          /\ save_evict_info(b).sched = st.sched
      BY <2>2, SaveEvictFacts
    <3> QED BY <2>1, <3>1, TimesFacts DEF Members
  <2>4. /\ PipeDepth' = PipeDepth /\ Ways' = Ways /\ WriteBack' = WriteBack
        /\ Slots' = Slots
    BY <2>3 DEF PipeDepth, Ways, Assoc, WriteBack, Slots
  <2>5. access(b).way \in Ways /\ PipeDepth \in 1..PipeDepth
    BY <1>2, <1>4, <2>2, AccessFacts
  <2> HIDE DEF shifted
  <2>6. /\ pipe' \in [1..PipeDepth -> Slots]
        /\ pipe'[PipeDepth].blk = b /\ pipe'[PipeDepth].way = access(b).way
        /\ \A i \in 1..PipeDepth : i # PipeDepth => pipe'[i] = shifted[i]
    BY <1>6, <2>1, <2>5 DEF Slots
  <2>7. back'.blk = b /\ back'.way = access(b).way
    BY <2>4, <2>6 DEF back
  <2>8. LookedUp' /\ Reserved' /\ TagsUnique' /\ BackMissing'
    BY <2>1, <2>2, <2>4, <2>7, AccessReserves
  <2>9. TypeOK'
    <3>1. /\ lines' \in [Sets -> [Ways' -> Line]] /\ repl' \in [Sets -> 0..7]
          /\ lag' \in Sets \cup {NoSet}
      BY <1>2, <2>1, <2>2, <2>4, AccessFacts
    <3>2. mem' \in Channels /\ stale' \subseteq Blocks
      BY <1>1, Typed
    <3> QED BY <1>1, <1>2, <2>3, <2>4, <2>6, <3>1, <3>2 DEF TypeOK
  <2>10. PipeShape'
    <3>1. pipe'[1].blk = NoBlk
      BY <1>4, <1>5, <2>2, <2>6
    <3>2. \A i \in 1..PipeDepth : i # PipeDepth => pipe'[i].way = NoWay
      BY <1>5, <2>6
    <3> QED BY <1>1, <1>2, <2>4, <2>8, <3>1, <3>2 DEF PipeShape, LookedUp
  <2>11. ReadChannel' /\ WriteChannel'
    BY <1>1, <1>2, <2>2, <2>3, <2>4, EmptyBack DEF CInv, ReadChannel, WriteChannel
  <2>12. Flags'
    BY <1>2, <2>2, <2>3, <2>8, EmptyBack DEF CInv, Flags
  <2> QED BY <2>8, <2>9, <2>10, <2>11, <2>12 DEF CInv
<1> QED BY <1>7, <1>8

\* CInv is inductive.
LEMMA NextCInv == CInv /\ [Next]_vars => CInv'
<1> SUFFICES ASSUME CInv, [Next]_vars PROVE CInv'
  OBVIOUS
<1>1. CASE UNCHANGED vars
  <2>1. /\ UNCHANGED <<lines, repl, lag, pipe, st, mem, stale, resp, phase, after>>
    BY <1>1 DEF vars
  <2>2. TypeOK' /\ PipeShape'
    BY <2>1, Frame DEF CInv, TypeOK, PipeShape
  <2>3. Reserved' /\ TagsUnique'
    BY <2>1, Frame DEF CInv
  <2>4. ReadChannel' /\ WriteChannel' /\ Flags'
    BY <2>1, Frame DEF CInv, ReadChannel, WriteChannel, Flags
  <2> QED BY <2>2, <2>3, <2>4 DEF CInv
<1>2. CASE Client
  <2>1. \A b \in Blocks : /\ [blk |-> b, mop |-> "Read"] \in Reqs
                          /\ [blk |-> b, mop |-> "Write"] \in Reqs
    BY DEF Reqs
  <2> QED BY <1>2, <2>1, PipeReqCInv, ThroughWriteCInv
          DEF Client, read_req, write_req
<1>3. CASE MemResp
  BY <1>3, RecvReadRespCInv, RecvWriteRespCInv, IdleCInv DEF MemResp
<1>4. CASE Update
  BY <1>4, IdleCInv, DeliverSchedCInv, LookupCInv, ServeHitCInv, ServeMissCInv,
     HandleFlushCInv, ShiftCInv DEF Update
<1>5. CASE Tick \/ TickFenceI
  BY <1>5, TickCInv
<1> QED BY <1>1, <1>2, <1>3, <1>4, <1>5 DEF Next

\* CInv holds of every cache that main.cc can build: a refill finds its entry,
\* its reserved line and no rival, whatever flush, prefetch or tick intervenes.
THEOREM CacheInvariance == Spec => []CInv
<1>1. Init => CInv
  BY InitCInv
<1>2. CInv /\ [Next]_vars => CInv'
  BY NextCInv
<1> QED BY <1>1, <1>2, PTL DEF Spec

\* A block sits in at most one way, for every geometry, policy and prefetcher.
THEOREM TagsUniqueHolds == Spec => []TagsUnique
<1>1. CInv => TagsUnique
  BY DEF CInv
<1> QED BY <1>1, CacheInvariance, PTL

\* A refill finds its request and its reserved line, and the replay finds the
\* line filled (the asserts of recv_mem_resp and update_impl).
THEOREM ReplayConsistentHolds == Spec => []ReplayConsistent
<1>1. CInv => ReplayConsistent
  <2> SUFFICES ASSUME CInv PROVE ReplayConsistent
    OBVIOUS
  <2>1. mem.r # NoBlk => back.blk = mem.r /\ back.way # NoWay /\ ~BackLine.valid
    BY DEF CInv, ReadChannel, BackMissing, LookedUp
  <2>2. phase = "serve" /\ st.is_replay => BackLine.valid
    BY DEF CInv, ReadChannel, Flags
  <2> QED BY <2>1, <2>2 DEF ReplayConsistent
<1> QED BY <1>1, CacheInvariance, PTL

----------------------------------------------------------------------------
(* The flags of the write channel, and the stores. *)

\* fence.i on a write-through cache that the core also writes to: handle_flush
\* lowers w_waiting_ while the write is outstanding.
PostedFlush == ~WriteBack /\ Flushes /\ "Write" \in Mops

\* A write-through cache never holds a store back.
Through ==
    ~WriteBack => /\ st.evict = NoBlk
                  /\ \A i \in 1..PipeDepth : pipe[i].mop = "Read"

\* The write flag of a write-through cache, which only a flush can lower while
\* a write is outstanding.
PostedWrites ==
    /\ ~Flushes => ~st.pending_flush
    /\ ~WriteBack /\ "Write" \notin Mops => mem.w = NoBlk /\ ~st.w_waiting
    /\ ~WriteBack /\ ~Flushes => (st.w_waiting <=> mem.w # NoBlk)

\* Unless a flush lowered that flag, memory lacks only the store in the write
\* channel of a write-through cache, and no refill runs beside it.
PostedStores ==
    (~WriteBack /\ ~PostedFlush) => /\ stale \subseteq {mem.w}
                                    /\ (mem.r # NoBlk => mem.w = NoBlk)

\* Where the latest store to a block can be: evict_addr_ counts only while the
\* miss that took the line away is still at the back.
InDirtyLine(b) == \E w \in HitWays(b) : lines[setIndexOf(b)][w].dirty
Kept(b) == InDirtyLine(b) \/ (BackMissing /\ st.evict = b) \/ mem.w = b

\* The write-back cache without prefetcher and fence.i.
Plain == Prefetch = "none" /\ ~Flushes

StoresKept ==
    WriteBack /\ Plain => /\ \A b \in stale : Kept(b)
                          /\ st.r_waiting => st.evict = NoBlk

SInv == Through /\ PostedWrites /\ PostedStores /\ StoresKept

\* The mode is fixed, so the hypotheses on it carry over.
LEMMA ModeFrame ==
    ASSUME st'.mode = st.mode
    PROVE  /\ WriteBack' = WriteBack /\ Flushes' = Flushes /\ Plain' = Plain
           /\ Mops' = Mops /\ PipeDepth' = PipeDepth /\ Ways' = Ways
           /\ PostedFlush' = PostedFlush
BY DEF WriteBack, Flushes, Plain, Prefetch, Mops, PipeDepth, Ways, Assoc,
       PostedFlush

\* A step that leaves lines, pipe, evict_addr_ and the write channel alone keeps
\* every store where it is.
LEMMA KeptFrame ==
    ASSUME st'.mode = st.mode, lines' = lines, pipe' = pipe,
           st'.evict = st.evict, mem'.w = mem.w
    PROVE  \A b : Kept(b)' = Kept(b)
<1>1. \A b : InDirtyLine(b)' = InDirtyLine(b)
  BY ModeFrame DEF InDirtyLine, HitWays
<1> QED BY <1>1, Frame DEF Kept

\* An empty cache holds no store.
LEMMA InitSInv == Init => SInv
<1> SUFFICES ASSUME Init PROVE SInv
  OBVIOUS
<1>1. PICK mode \in Modes : st = InitSt(mode)
  BY DEF Init
<1>2. /\ st.r_waiting = FALSE /\ st.w_waiting = FALSE /\ st.evict = NoBlk
      /\ st.pending_flush = FALSE
  BY <1>1 DEF InitSt
<1>3. /\ mem.w = NoBlk /\ mem.r = NoBlk /\ stale = {}
      /\ \A i \in 1..PipeDepth : pipe[i].mop = "Read"
  BY DEF Init, NoMem, NoEntry
<1> QED BY <1>2, <1>3 DEF SInv, Through, PostedWrites, PostedStores, StoresKept

\* Steps that leave the tag array, the pipe, the eviction and the write channel
\* alone.
LEMMA QuietSInv ==
    ASSUME SInv, st'.mode = st.mode, lines' = lines, pipe' = pipe,
           st'.evict = st.evict, mem'.w = mem.w, stale' = stale,
           st'.w_waiting = st.w_waiting,
           st'.pending_flush = st.pending_flush \/ Flushes,
           st'.r_waiting => st.r_waiting \/ st.evict = NoBlk,
           mem'.r = mem.r \/ (~WriteBack /\ ~PostedFlush => mem.w = NoBlk)
    PROVE  SInv'
<1>1. Through'
  BY ModeFrame DEF SInv, Through
<1>2. PostedWrites'
  BY ModeFrame DEF SInv, PostedWrites
<1>3. StoresKept'
  BY ModeFrame, KeptFrame DEF SInv, StoresKept
<1>4. PostedStores'
  BY ModeFrame DEF SInv, PostedStores
<1> QED BY <1>1, <1>2, <1>3, <1>4 DEF SInv

\* A lowered w_waiting_ means an empty write channel, and then memory lacks no
\* store.
LEMMA PostedFlag ==
    CInv /\ SInv /\ ~st.w_waiting /\ ~WriteBack /\ ~PostedFlush
    => mem.w = NoBlk /\ stale = {}
<1> SUFFICES ASSUME CInv, SInv, ~st.w_waiting, ~WriteBack, ~PostedFlush
             PROVE  mem.w = NoBlk /\ stale = {}
  OBVIOUS
<1>1. mem.w = NoBlk
  BY DEF SInv, PostedWrites, PostedFlush
<1>2. stale \subseteq {NoBlk} /\ stale \subseteq Blocks
  BY <1>1, Typed DEF SInv, PostedStores
<1> QED BY <1>1, <1>2, NoBlkFacts

\* The steps that move no store.
LEMMA QuietStepsSInv ==
    CInv /\ SInv /\ \/ NoMemResp \/ NotDue \/ ServeNothing \/ DeliverSched
                    \/ Tick \/ TickFenceI
                    \/ Missing /\ (MissDetected \/ MissWaitsForWrite \/ MissRefills)
    => SInv'
<1>1. ASSUME CInv, SInv, NoMemResp \/ NotDue \/ ServeNothing PROVE SInv'
  <2>1. UNCHANGED <<lines, pipe, st, mem, stale>>
    BY <1>1 DEF NoMemResp, NotDue, ServeNothing
  <2> QED BY <1>1, <2>1, QuietSInv
<1>2. ASSUME CInv, SInv, DeliverSched PROVE SInv'
  <2>1. /\ UNCHANGED <<lines, pipe, mem, stale>>
        /\ st' = [st EXCEPT !.sched = IF Due(@) THEN InfTime ELSE @]
    BY <1>2 DEF DeliverSched
  <2>2. /\ st'.mode = st.mode /\ st'.evict = st.evict
        /\ st'.w_waiting = st.w_waiting /\ st'.r_waiting = st.r_waiting
        /\ st'.pending_flush = st.pending_flush
    BY <1>2, <2>1, Typed DEF Members
  <2> QED BY <1>2, <2>1, <2>2, QuietSInv
<1>3. ASSUME CInv, SInv, Tick \/ TickFenceI PROVE SInv'
  <2>1. /\ UNCHANGED <<lines, pipe, stale>> /\ mem' = MemElapsed
        /\ \/ st' = StElapsed
           \/ Flushes /\ st' = [StElapsed EXCEPT !.pending_flush = TRUE]
    BY <1>3 DEF Tick, TickFenceI
  <2>2. /\ StElapsed \in Members /\ StElapsed.mode = st.mode
        /\ StElapsed.evict = st.evict /\ StElapsed.w_waiting = st.w_waiting
        /\ StElapsed.r_waiting = st.r_waiting
        /\ StElapsed.pending_flush = st.pending_flush
    BY <1>3, Typed, TimesFacts DEF StElapsed, Members
  <2>3. /\ st'.mode = st.mode /\ st'.evict = st.evict
        /\ st'.w_waiting = st.w_waiting /\ st'.r_waiting = st.r_waiting
        /\ st'.pending_flush = st.pending_flush \/ Flushes
    BY <2>1, <2>2 DEF Members
  <2>4. mem'.w = mem.w /\ mem'.r = mem.r
    BY <1>3, <2>1, Typed DEF MemElapsed, Channels
  <2> QED BY <1>3, <2>1, <2>3, <2>4, QuietSInv
<1>4. ASSUME CInv, SInv, Missing, MissDetected \/ MissWaitsForWrite PROVE SInv'
  <2>1. /\ UNCHANGED <<lines, pipe, stale, mem>>
        /\ \/ st' = [st EXCEPT !.is_replay = FALSE, !.pending_fill = TRUE,
                               !.blocked = 1]
           \/ st' = [st EXCEPT !.is_replay = FALSE, !.blocked = 1]
    BY <1>4 DEF Missing, MissDetected, MissWaitsForWrite
  <2>2. /\ st'.mode = st.mode /\ st'.evict = st.evict
        /\ st'.w_waiting = st.w_waiting /\ st'.r_waiting = st.r_waiting
        /\ st'.pending_flush = st.pending_flush
    BY <1>4, <2>1, Typed DEF Members
  <2> QED BY <1>4, <2>1, <2>2, QuietSInv
<1>5. ASSUME CInv, SInv, Missing, MissRefills PROVE SInv'
  <2>1. PICK lat \in MemLats : mem' = [mem EXCEPT !.r = back.blk, !.rt = lat]
    BY <1>5 DEF MissRefills
  <2>2. /\ UNCHANGED <<lines, pipe, stale>> /\ st.evict = NoBlk
        /\ st' = [st EXCEPT !.is_replay = TRUE, !.r_waiting = TRUE,
                            !.pending_fill = FALSE]
    BY <1>5 DEF Missing, MissRefills
  <2>3. /\ st'.mode = st.mode /\ st'.evict = st.evict
        /\ st'.w_waiting = st.w_waiting
        /\ st'.pending_flush = st.pending_flush
    BY <1>5, <2>2, Typed DEF Members
  <2>4. mem'.w = mem.w
    BY <1>5, <2>1, Typed DEF Channels
  <2>5. ~WriteBack /\ ~PostedFlush => mem.w = NoBlk
    BY <1>5, PostedFlag DEF MissRefills
  <2> QED BY <1>5, <2>2, <2>3, <2>4, <2>5, QuietSInv
<1> QED BY <1>1, <1>2, <1>3, <1>4, <1>5

\* The memory acknowledges a write: the store has arrived.
LEMMA RecvWriteRespSInv == CInv /\ SInv /\ RecvWriteResp => SInv'
<1> SUFFICES ASSUME CInv, SInv, RecvWriteResp PROVE SInv'
  OBVIOUS
<1>1. /\ UNCHANGED <<lines, pipe>> /\ stale' = stale \ {mem.w}
      /\ mem' = [mem EXCEPT !.w = NoBlk, !.wt = InfTime]
      /\ st' = [st EXCEPT !.w_waiting = FALSE,
                          !.blocked = IF WriteBack THEN @ ELSE 2]
  BY DEF RecvWriteResp
<1>2. /\ st'.mode = st.mode /\ st'.evict = st.evict /\ st'.w_waiting = FALSE
      /\ st'.r_waiting = st.r_waiting /\ st'.pending_flush = st.pending_flush
      /\ mem'.w = NoBlk
  BY <1>1, Typed DEF Members, Channels
<1>3. Through'
  BY <1>1, <1>2, ModeFrame DEF SInv, Through
<1>4. PostedWrites'
  BY <1>1, <1>2, ModeFrame DEF SInv, PostedWrites
<1>5. \A b : InDirtyLine(b)' = InDirtyLine(b)
  BY <1>1, <1>2, ModeFrame DEF InDirtyLine, HitWays
<1>6. ASSUME WriteBack, Plain, NEW b \in stale' PROVE Kept(b)'
  <2>1. InDirtyLine(b) \/ (BackMissing /\ st.evict = b)
    BY <1>1, <1>6 DEF SInv, StoresKept, Kept
  <2> QED BY <1>1, <1>2, <1>5, <2>1, Frame DEF Kept
<1>7. StoresKept'
  BY <1>2, <1>6, ModeFrame DEF SInv, StoresKept
<1>8. PostedStores'
  BY <1>1, <1>2, ModeFrame DEF SInv, PostedStores
<1> QED BY <1>3, <1>4, <1>7, <1>8 DEF SInv

\* The eviction moves from evict_addr_ into the memory write.
LEMMA MissEvictsSInv == CInv /\ SInv /\ Missing /\ MissEvicts => SInv'
<1> SUFFICES ASSUME CInv, SInv, Missing, MissEvicts PROVE SInv'
  OBVIOUS
<1>1. PICK lat \in MemLats : mem' = [mem EXCEPT !.w = st.evict, !.wt = lat]
  BY DEF MissEvicts
<1>2. /\ UNCHANGED <<lines, pipe, stale>> /\ phase = "serve"
      /\ ~st.w_waiting /\ st.evict # NoBlk
      /\ st' = [st EXCEPT !.is_replay = FALSE, !.w_waiting = TRUE,
                          !.evict = NoBlk, !.blocked = 1]
  BY DEF Missing, MissEvicts
<1>3. /\ st'.mode = st.mode /\ st'.evict = NoBlk /\ st'.r_waiting = st.r_waiting
      /\ mem'.w = st.evict /\ st'.pending_flush = st.pending_flush
  BY <1>1, <1>2, Typed DEF Members, Channels
<1>4. WriteBack
  BY <1>2 DEF SInv, Through
<1>5. mem.w = NoBlk
  BY <1>2, <1>4 DEF CInv, WriteChannel
<1>6. Through' /\ PostedWrites' /\ PostedStores'
  BY <1>2, <1>3, <1>4, ModeFrame DEF SInv, Through, PostedWrites, PostedStores
<1>7. \A b : InDirtyLine(b)' = InDirtyLine(b)
  BY <1>2, <1>3, ModeFrame DEF InDirtyLine, HitWays
<1>8. \A b \in stale : b # NoBlk
  BY Typed, NoBlkFacts
<1>9. ASSUME WriteBack, Plain, NEW b \in stale PROVE Kept(b)'
  <2>1. InDirtyLine(b) \/ st.evict = b
    BY <1>5, <1>8, <1>9 DEF SInv, StoresKept, Kept
  <2> QED BY <1>3, <1>7, <2>1 DEF Kept
<1>10. StoresKept'
  BY <1>2, <1>3, <1>9, ModeFrame DEF SInv, StoresKept
<1> QED BY <1>6, <1>10 DEF SInv

\* A write-through store is sent at once.
LEMMA ThroughWriteSInv == \A b \in Blocks : CInv /\ SInv /\ "Write" \in Mops
                                              /\ ThroughWrite(b) => SInv'
<1> SUFFICES ASSUME NEW b \in Blocks, CInv, SInv, "Write" \in Mops, ThroughWrite(b)
             PROVE  SInv'
  OBVIOUS
<1>1. PICK lat \in MemLats : mem' = [mem EXCEPT !.w = b, !.wt = lat]
  BY DEF ThroughWrite
<1>2. /\ UNCHANGED <<lines, pipe>> /\ ~WriteBack /\ ~st.w_waiting
      /\ stale' = stale \cup {b} /\ PipeEmpty
      /\ st' = [st EXCEPT !.w_waiting = TRUE]
  BY DEF ThroughWrite, WriteReady
<1>3. /\ st'.mode = st.mode /\ st'.evict = st.evict /\ st'.w_waiting = TRUE
      /\ mem'.w = b /\ mem'.r = mem.r /\ b # NoBlk
      /\ st'.pending_flush = st.pending_flush
  BY <1>1, <1>2, Typed, NoBlkFacts DEF Members, Channels
<1>4. Through'
  BY <1>2, <1>3, ModeFrame DEF SInv, Through
<1>5. PostedWrites' /\ StoresKept'
  BY <1>2, <1>3, ModeFrame DEF SInv, PostedWrites, StoresKept
<1>6. mem.r = NoBlk
  <2>1. back.blk = NoBlk
    BY <1>2, BackFacts DEF PipeEmpty, back
  <2> QED BY <2>1 DEF CInv, ReadChannel, BackMissing, LookedUp
<1>7. PostedStores'
  BY <1>2, <1>3, <1>6, PostedFlag, ModeFrame DEF PostedStores
<1> QED BY <1>4, <1>5, <1>7 DEF SInv

\* A request enters the pipe; a read holds no store.
LEMMA PipeReqSInv == \A r \in Reqs : CInv /\ SInv /\ PipeReq(r) => SInv'
<1> SUFFICES ASSUME NEW r \in Reqs, CInv, SInv, PipeReq(r) PROVE SInv'
  OBVIOUS
<1> DEFINE e == [blk |-> r.blk, mop |-> r.mop, way |-> NoWay]
<1>1. /\ UNCHANGED <<lines, mem, stale>> /\ ReadReady
      /\ r.mop = "Write" => WriteBack
      /\ pipe' = [pipe EXCEPT ![1] = e]
      /\ st' = [st EXCEPT !.blocked = 1, !.is_shifted = FALSE]
  BY DEF PipeReq
<1>2. /\ st'.mode = st.mode /\ st'.evict = st.evict
      /\ st'.w_waiting = st.w_waiting /\ st'.r_waiting = st.r_waiting
      /\ st'.pending_flush = st.pending_flush
  BY <1>1, Typed DEF Members
<1>3. Through'
  <2>1. \A i \in 1..PipeDepth : pipe'[i] = IF i = 1 THEN e ELSE pipe[i]
    BY <1>1, BackFacts
  <2>2. ~WriteBack => e.mop = "Read"
    BY <1>1 DEF Reqs
  <2> QED BY <1>1, <1>2, <2>1, <2>2, ModeFrame DEF SInv, Through
<1>4. PostedWrites' /\ PostedStores'
  BY <1>1, <1>2, ModeFrame DEF SInv, PostedWrites, PostedStores
<1>5. WriteBack => ~BackMissing
  <2>1. WriteBack => back = pipe[1]
    BY Typed, ModeFacts DEF back
  <2>2. pipe[1].blk = NoBlk
    BY <1>1 DEF ReadReady, CInv, PipeShape
  <2> QED BY <2>1, <2>2 DEF BackMissing, LookedUp
<1>6. \A b : InDirtyLine(b)' = InDirtyLine(b)
  BY <1>1, <1>2, ModeFrame DEF InDirtyLine, HitWays
<1>7. StoresKept'
  BY <1>1, <1>2, <1>5, <1>6, ModeFrame DEF SInv, StoresKept, Kept
<1> QED BY <1>3, <1>4, <1>7 DEF SInv

\* handle_flush of a cache that holds no store.
LEMMA HandleFlushSInv == CInv /\ SInv /\ HandleFlush => SInv'
<1> SUFFICES ASSUME CInv, SInv, HandleFlush PROVE SInv'
  OBVIOUS
<1>1. /\ UNCHANGED <<mem, stale>> /\ st.pending_flush
      /\ pipe' = [i \in 1..PipeDepth |-> NoEntry]
      /\ st' = [st EXCEPT !.is_shifted = TRUE, !.is_replay = FALSE,
                          !.r_waiting = FALSE, !.w_waiting = FALSE,
                          !.pending_flush = FALSE, !.pending_fill = FALSE,
                          !.evict = NoBlk, !.sched = InfTime,
                          !.blocked = 1]
  BY DEF HandleFlush
<1>2. /\ st'.mode = st.mode /\ st'.evict = NoBlk /\ st'.w_waiting = FALSE
      /\ st'.r_waiting = FALSE /\ st'.pending_flush = FALSE
  BY <1>1, Typed DEF Members
<1>3. Flushes
  BY <1>1 DEF SInv, PostedWrites
<1>4. Through'
  BY <1>1, <1>2, ModeFrame DEF SInv, Through, NoEntry
<1>5. PostedWrites' /\ PostedStores' /\ StoresKept'
  BY <1>1, <1>2, <1>3, ModeFrame
     DEF SInv, PostedWrites, PostedStores, StoresKept, Plain
<1> QED BY <1>4, <1>5 DEF SInv

\* A line that stays valid with its tag and its dirty bit still holds its store.
LEMMA DirtyLineKept ==
    ASSUME NEW b \in Blocks, Ways' = Ways, InDirtyLine(b),
           \A w \in Ways :
              lines[setIndexOf(b)][w].valid /\ lines[setIndexOf(b)][w].dirty =>
                 /\ lines'[setIndexOf(b)][w].valid
                 /\ lines'[setIndexOf(b)][w].dirty
                 /\ lines'[setIndexOf(b)][w].tag = lines[setIndexOf(b)][w].tag
    PROVE  InDirtyLine(b)'
BY DEF InDirtyLine, HitWays

\* A refill replaces a line whose store has been sent.
LEMMA RecvReadRespSInv == CInv /\ SInv /\ RecvReadResp => SInv'
<1> SUFFICES ASSUME CInv, SInv, RecvReadResp PROVE SInv'
  OBVIOUS
<1> DEFINE s == setIndexOf(back.blk)
<1>1. /\ UNCHANGED <<pipe, stale>> /\ mem.rt = 0
      /\ mem' = [mem EXCEPT !.r = NoBlk, !.rt = InfTime]
      /\ st' = [st EXCEPT !.r_waiting = FALSE,
                          !.blocked = IF WriteBack /\ ~Cwf THEN 2 ELSE 1]
      /\ handle_fill(mem.r, back.way)
  BY DEF RecvReadResp, Due
<1>2. /\ st'.mode = st.mode /\ st'.evict = st.evict /\ st'.r_waiting = FALSE
      /\ st'.w_waiting = st.w_waiting /\ st'.pending_flush = st.pending_flush
      /\ mem'.w = mem.w /\ mem'.r = NoBlk
  BY <1>1, Typed DEF Members, Channels
<1>3. st.r_waiting /\ BackMissing /\ mem.r = back.blk
  BY <1>1, TimesFacts DEF CInv, ReadChannel
<1>4. /\ s \in Sets /\ back.way \in Ways /\ back.blk \in Blocks
      /\ lines[s][back.way].valid = FALSE
  <2>1. back.blk # NoBlk /\ back.way # NoWay /\ ~BackLine.valid
    BY <1>3 DEF BackMissing, LookedUp
  <2>2. s \in Sets /\ back.way \in Ways /\ back.blk \in Blocks
    BY <2>1, BackFacts
  <2>3. lines[s][back.way] \in Line
    BY <2>2, BackFacts
  <2> QED BY <2>1, <2>2, <2>3 DEF BackLine, Line
<1>5. \A t \in Sets, v \in Ways :
         lines[t][v].valid => lines'[t][v] = lines[t][v]
  <2>1. lines' = [lines EXCEPT ![s][back.way] = Activated(back.blk)]
    BY <1>1, <1>3 DEF handle_fill
  <2>2. Activated(back.blk) \in Line
    BY <1>4 DEF Activated, Line
  <2>3. \A t \in Sets, v \in Ways :
           lines'[t][v] = IF t = s /\ v = back.way THEN Activated(back.blk)
                          ELSE lines[t][v]
    BY <1>4, <2>1, <2>2, BackFacts, LineWritten
  <2> QED BY <1>4, <2>3
<1>6. Through' /\ PostedWrites' /\ PostedStores'
  BY <1>1, <1>2, ModeFrame DEF SInv, Through, PostedWrites, PostedStores
<1>7. ASSUME WriteBack, Plain, NEW b \in stale PROVE Kept(b)'
  <2>1. b \in Blocks /\ b # NoBlk /\ setIndexOf(b) \in Sets
    BY Typed, NoBlkFacts, SetOfBlock
  <2>2. InDirtyLine(b) \/ mem.w = b
    BY <1>3, <1>7, <2>1 DEF SInv, StoresKept, Kept
  <2>3. InDirtyLine(b) => InDirtyLine(b)'
    BY <1>2, <1>5, <2>1, ModeFrame, DirtyLineKept
  <2> QED BY <1>2, <2>2, <2>3 DEF Kept
<1>8. StoresKept'
  BY <1>1, <1>2, <1>7, ModeFrame DEF StoresKept
<1> QED BY <1>6, <1>8 DEF SInv

\* A write hit makes its line dirty.
LEMMA ServeHitSInv == CInv /\ SInv /\ ServeHit => SInv'
<1> SUFFICES ASSUME CInv, SInv, ServeHit PROVE SInv'
  OBVIOUS
<1> DEFINE s == setIndexOf(back.blk)
<1>1. /\ UNCHANGED mem /\ back.blk # NoBlk /\ BackLine.valid
      /\ phase = "serve" /\ handle_hit
      /\ pipe' = [pipe EXCEPT ![PipeDepth] = NoEntry]
  BY DEF ServeHit
<1>2. stale' = IF back.mop = "Write" THEN stale \cup {back.blk} ELSE stale
  BY <1>1 DEF handle_hit
<1>3. /\ st'.mode = st.mode /\ st'.evict = st.evict
      /\ st'.r_waiting = st.r_waiting /\ st'.w_waiting = st.w_waiting
      /\ st'.pending_flush = st.pending_flush
  BY <1>1, Typed DEF handle_hit, Members
<1>4. ~BackMissing /\ LookedUp
  BY <1>1 DEF BackMissing, LookedUp, CInv, PipeShape
<1>5. /\ s \in Sets /\ back.way \in Ways /\ back.blk \in Blocks
      /\ lines[s][back.way].valid /\ lines[s][back.way].tag = back.blk
  BY <1>1, <1>4, BackFacts DEF LookedUp, CInv, Reserved, BackLine
<1>6. Through'
  <2>1. \A i \in 1..PipeDepth :
           pipe'[i] = IF i = PipeDepth THEN NoEntry ELSE pipe[i]
    BY <1>1, BackFacts
  <2>2. ~WriteBack => back.mop = "Read"
    BY BackFacts DEF SInv, Through, back
  <2> QED BY <1>2, <1>3, <2>1, <2>2, ModeFrame DEF SInv, Through, NoEntry
<1>7. PostedWrites' /\ PostedStores'
  <2>1. ~WriteBack => stale' = stale
    BY <1>2, BackFacts DEF SInv, Through, back
  <2> QED BY <1>1, <1>3, <2>1, ModeFrame DEF SInv, PostedWrites, PostedStores
<1>8. ASSUME WriteBack, Plain, NEW b \in stale' PROVE Kept(b)'
  <2>1. lines' = HitLines
    <3>1. Prefetched(back.blk, ~st.is_replay) = {NoBlk}
      BY <1>8 DEF Plain, Prefetched
    <3>2. handle_prefetch(NoBlk, HitLines)
      BY <3>1 DEF ServeHit
    <3> QED BY <3>2 DEF handle_prefetch
  <2>2. b \in Blocks /\ setIndexOf(b) \in Sets /\ b # NoBlk
    BY <1>2, <1>5, Typed, SetOfBlock, NoBlkFacts
  <2>3. CASE back.mop = "Write"
    <3> DEFINE x == [lines[s][back.way] EXCEPT !.dirty = TRUE]
    <3>1. lines[s][back.way] \in Line
      BY <1>5, BackFacts
    <3>2. x \in Line /\ x.valid /\ x.dirty /\ x.tag = back.blk
      BY <1>5, <3>1 DEF Line
    <3>3. lines' = [lines EXCEPT ![s][back.way] = x]
      BY <2>1, <2>3 DEF HitLines
    <3> HIDE DEF x
    <3>4. \A t \in Sets, v \in Ways :
             lines'[t][v] = IF t = s /\ v = back.way THEN x ELSE lines[t][v]
      BY <1>5, <3>2, <3>3, BackFacts, LineWritten
    <3>5. CASE b = back.blk
      <4>1. back.way \in HitWays(b)' /\ lines'[setIndexOf(b)][back.way].dirty
        BY <1>3, <1>5, <3>2, <3>4, <3>5, ModeFrame DEF HitWays
      <4> QED BY <4>1 DEF Kept, InDirtyLine
    <3>6. CASE b # back.blk
      <4>1. InDirtyLine(b) \/ mem.w = b
        BY <1>2, <1>4, <1>8, <3>6 DEF SInv, StoresKept, Kept
      <4>2. InDirtyLine(b) => InDirtyLine(b)'
        BY <1>3, <1>5, <2>2, <3>2, <3>4, ModeFrame, DirtyLineKept
      <4> QED BY <1>1, <4>1, <4>2 DEF Kept
    <3> QED BY <3>5, <3>6
  <2>4. CASE back.mop # "Write"
    <3>1. lines' = lines /\ b \in stale
      BY <1>2, <1>8, <2>1, <2>4 DEF HitLines
    <3>2. InDirtyLine(b) \/ mem.w = b
      BY <1>4, <1>8, <3>1 DEF SInv, StoresKept, Kept
    <3>3. InDirtyLine(b)' = InDirtyLine(b)
      BY <1>3, <3>1, ModeFrame DEF InDirtyLine, HitWays
    <3> QED BY <1>1, <3>2, <3>3 DEF Kept
  <2> QED BY <2>3, <2>4
<1>9. StoresKept'
  BY <1>3, <1>8, ModeFrame DEF SInv, StoresKept
<1> QED BY <1>6, <1>7, <1>9 DEF SInv

\* A miss takes a victim away: a dirty one is remembered in evict_addr_.
LEMMA LookupSInv == CInv /\ SInv /\ Lookup => SInv'
<1> SUFFICES ASSUME CInv, SInv, Lookup PROVE SInv'
  OBVIOUS
<1>1. UNCHANGED <<mem, stale>> /\ phase = "lookup"
  BY DEF Lookup
<1>2. CASE ~(back.blk # NoBlk /\ back.way = NoWay)
  <2>1. UNCHANGED <<lines, pipe, st>>
    BY <1>2 DEF Lookup
  <2> QED BY <1>1, <2>1, QuietSInv
<1>3. CASE back.blk # NoBlk /\ back.way = NoWay
  <2> DEFINE b == back.blk
             s == setIndexOf(back.blk)
             v == miss_victim_way(back.blk)
  <2>1. /\ st' = save_evict_info(b) /\ lines' = access(b).lines
        /\ pipe' = [pipe EXCEPT ![PipeDepth].way = access(b).way]
    BY <1>3 DEF Lookup
  <2>2. b \in Blocks /\ ~LookedUp /\ s \in Sets /\ TypeOK
    BY <1>3, BackFacts DEF LookedUp, CInv
  <2>3. /\ st'.mode = st.mode /\ st'.r_waiting = st.r_waiting
        /\ st'.w_waiting = st.w_waiting
        /\ st'.evict = IF WriteBack /\ lines[s][v].valid /\ lines[s][v].dirty
                       THEN lines[s][v].tag ELSE NoBlk
    BY <2>1, <2>2, SaveEvictFacts
  <2>4. st'.pending_flush = st.pending_flush
    BY <2>1, Typed DEF save_evict_info, Members
  <2>5. Through'
    <3>1. \A i \in 1..PipeDepth : pipe'[i].mop = pipe[i].mop
      BY <2>1, BackFacts DEF Slots
    <3> QED BY <1>1, <2>3, <3>1, ModeFrame DEF SInv, Through
  <2>6. PostedWrites' /\ PostedStores'
    BY <1>1, <2>3, <2>4, ModeFrame DEF SInv, PostedWrites, PostedStores
  <2>7. ~st.r_waiting
    BY <2>2, EmptyBack
  <2>8. ASSUME WriteBack, Plain, NEW c \in stale PROVE Kept(c)'
    <3>1. c \in Blocks /\ setIndexOf(c) \in Sets
      BY Typed, SetOfBlock
    <3>2. InDirtyLine(c) \/ mem.w = c
      BY <2>2, <2>8 DEF SInv, StoresKept, Kept, BackMissing
    <3>3. CASE mem.w = c
      BY <1>1, <3>3 DEF Kept
    <3>4. CASE InDirtyLine(c) /\ probe(b)
      <4>1. lines' = lines
        BY <2>1, <2>2, <3>4, AccessFacts
      <4>2. InDirtyLine(c)'
        BY <2>3, <3>4, <4>1, ModeFrame DEF InDirtyLine, HitWays
      <4> QED BY <4>2 DEF Kept
    <3>5. CASE InDirtyLine(c) /\ ~probe(b)
      <4>1. /\ access(b).way = v
            /\ \A t \in Sets, w \in Ways :
                  ~(t = s /\ w = v) => lines'[t][w] = lines[t][w]
        BY <2>1, <2>2, <3>5, AccessFacts
      <4>2. PICK w \in Ways : /\ lines[setIndexOf(c)][w].valid
                              /\ lines[setIndexOf(c)][w].tag = c
                              /\ lines[setIndexOf(c)][w].dirty
        BY <3>5 DEF InDirtyLine, HitWays
      <4>3. CASE setIndexOf(c) = s /\ w = v
        <5>1. st'.evict = c
          BY <2>3, <2>8, <4>2, <4>3
        <5>2. BackMissing'
          <6>1. Ways' = Ways /\ PipeDepth' = PipeDepth
            BY <2>3, ModeFrame
          <6>2. back'.blk = b /\ back'.way = access(b).way
            BY <2>1, <6>1, BackFacts DEF back, Slots
          <6> QED BY <2>1, <2>2, <3>5, <6>1, <6>2, AccessReserves
        <5> QED BY <5>1, <5>2 DEF Kept
      <4>4. CASE ~(setIndexOf(c) = s /\ w = v)
        <5>1. w \in HitWays(c)' /\ lines'[setIndexOf(c)][w].dirty
          BY <2>3, <3>1, <4>1, <4>2, <4>4, ModeFrame DEF HitWays
        <5> QED BY <5>1 DEF Kept, InDirtyLine
      <4> QED BY <4>3, <4>4
    <3> QED BY <3>2, <3>3, <3>4, <3>5
  <2>9. StoresKept'
    BY <1>1, <2>3, <2>7, <2>8, ModeFrame DEF StoresKept
  <2> QED BY <2>5, <2>6, <2>9 DEF SInv
<1> QED BY <1>2, <1>3

\* Of a write-back cache only an empty tail arrives at the back; of a write-
\* through cache nothing is saved for eviction.
LEMMA ShiftSInv == CInv /\ SInv /\ Shift => SInv'
<1> SUFFICES ASSUME CInv, SInv, Shift PROVE SInv'
  OBVIOUS
<1> DEFINE shifted == [i \in 1..PipeDepth |->
                         IF i > 1 THEN pipe[i - 1]
                         ELSE IF PipeDepth > 1 THEN NoEntry ELSE pipe[1]]
           tail == shifted[PipeDepth]
           miss == tail.blk # NoBlk /\ tail.way = NoWay /\ ~probe(tail.blk)
<1>1. UNCHANGED <<mem, stale>> /\ phase = "shift" /\ PipeDepth \in Nat \ {0}
  BY Typed, ModeFacts DEF Shift
<1>2. back.blk = NoBlk /\ ~LookedUp /\ ~BackMissing
  BY <1>1 DEF CInv, PipeShape, LookedUp, BackMissing
<1>3. ~WriteBack => \A i \in 1..PipeDepth : shifted[i].mop = "Read"
  <2> SUFFICES ASSUME ~WriteBack, NEW i \in 1..PipeDepth
               PROVE  shifted[i].mop = "Read"
    OBVIOUS
  <2>1. \A j \in 1..PipeDepth : pipe[j].mop = "Read"
    BY DEF SInv, Through
  <2>2. CASE i > 1
    <3>1. i - 1 \in 1..PipeDepth /\ shifted[i] = pipe[i - 1]
      BY <1>1, <2>2
    <3> QED BY <2>1, <3>1
  <2>3. CASE i = 1
    BY <1>1, <2>1, <2>3 DEF NoEntry
  <2> QED BY <2>2, <2>3
<1>4. WriteBack => PipeDepth = 1 /\ tail = back /\ shifted = pipe
  <2> SUFFICES ASSUME WriteBack PROVE PipeDepth = 1 /\ tail = back /\ shifted = pipe
    OBVIOUS
  <2>1. PipeDepth = 1
    BY Typed, ModeFacts
  <2>2. pipe \in [1..1 -> Slots]
    BY <2>1, BackFacts
  <2>3. shifted = pipe
    BY <2>1, <2>2
  <2> QED BY <2>1, <2>3 DEF back
<1>5. CASE ~miss
  <2>1. /\ st' = [st EXCEPT !.is_shifted = TRUE] /\ pipe' = shifted
        /\ UNCHANGED <<lines, repl, lag>>
    BY <1>5 DEF Shift
  <2>2. /\ st'.mode = st.mode /\ st'.r_waiting = st.r_waiting
        /\ st'.w_waiting = st.w_waiting /\ st'.evict = st.evict
        /\ st'.pending_flush = st.pending_flush
    BY <2>1, Typed DEF Members
  <2>3. CASE WriteBack
    BY <1>1, <1>4, <2>1, <2>2, <2>3, QuietSInv
  <2>4. CASE ~WriteBack
    <3>1. Through'
      BY <1>1, <1>3, <2>1, <2>2, <2>4, ModeFrame DEF SInv, Through
    <3>2. PostedWrites' /\ PostedStores' /\ StoresKept'
      BY <1>1, <2>2, <2>4, ModeFrame
         DEF SInv, PostedWrites, PostedStores, StoresKept
    <3> QED BY <3>1, <3>2 DEF SInv
  <2> QED BY <2>3, <2>4
<1>6. CASE miss
  <2> DEFINE b == tail.blk
  <2>1. /\ st' = [save_evict_info(b) EXCEPT !.pending_fill = TRUE, !.blocked = 1]
        /\ pipe' = [shifted EXCEPT ![PipeDepth].way = access(b).way]
    BY <1>6 DEF Shift
  <2>2. ~WriteBack
    BY <1>2, <1>4, <1>6
  <2>3. b \in Blocks
    <3>1. PipeDepth \in 1..PipeDepth
      BY <1>1
    <3>2. tail \in Slots
      <4>1. NoEntry \in Slots
        BY DEF NoEntry, Slots
      <4>2. CASE PipeDepth > 1
        <5>1. PipeDepth - 1 \in 1..PipeDepth /\ tail = pipe[PipeDepth - 1]
          BY <1>1, <4>2
        <5> QED BY <5>1, BackFacts
      <4>3. CASE PipeDepth = 1
        BY <4>3, BackFacts DEF back
      <4> QED BY <1>1, <4>2, <4>3
    <3> QED BY <1>6, <3>2 DEF Slots
  <2>4. /\ save_evict_info(b) \in Members
        /\ save_evict_info(b).mode = st.mode
        /\ save_evict_info(b).w_waiting = st.w_waiting
        /\ save_evict_info(b).evict = NoBlk
    BY <2>2, <2>3, SaveEvictFacts
  <2>5. save_evict_info(b).pending_flush = st.pending_flush
    BY Typed DEF save_evict_info, Members
  <2>6. /\ st'.mode = st.mode /\ st'.w_waiting = st.w_waiting
        /\ st'.evict = NoBlk /\ st'.pending_flush = st.pending_flush
    BY <2>1, <2>4, <2>5 DEF Members
  <2>7. Through'
    <3>1. \A i \in 1..PipeDepth : pipe'[i].mop = shifted[i].mop
      BY <1>1, <2>1
    <3> HIDE DEF shifted
    <3>2. \A i \in 1..PipeDepth : pipe'[i].mop = "Read"
      BY <1>3, <2>2, <3>1
    <3> QED BY <1>1, <2>2, <2>6, <3>2, ModeFrame DEF SInv, Through
  <2>8. PostedWrites' /\ PostedStores' /\ StoresKept'
    BY <1>1, <2>2, <2>6, ModeFrame
       DEF SInv, PostedWrites, PostedStores, StoresKept
  <2> QED BY <2>7, <2>8 DEF SInv
<1> QED BY <1>5, <1>6

\* SInv is inductive, given CInv.
LEMMA NextSInv == CInv /\ SInv /\ [Next]_vars => SInv'
<1> SUFFICES ASSUME CInv, SInv, [Next]_vars PROVE SInv'
  OBVIOUS
<1>1. CASE UNCHANGED vars
  <2>1. UNCHANGED <<lines, pipe, st, mem, stale>>
    BY <1>1 DEF vars
  <2> QED BY <2>1, QuietSInv
<1>2. CASE Client
  <2>1. \A b \in Blocks : /\ [blk |-> b, mop |-> "Read"] \in Reqs
                          /\ [blk |-> b, mop |-> "Write"] \in Reqs
    BY DEF Reqs
  <2> QED BY <1>2, <2>1, PipeReqSInv, ThroughWriteSInv
          DEF Client, read_req, write_req
<1>3. CASE MemResp
  BY <1>3, RecvReadRespSInv, RecvWriteRespSInv, QuietStepsSInv DEF MemResp
<1>4. CASE Update
  BY <1>4, QuietStepsSInv, LookupSInv, ServeHitSInv, MissEvictsSInv,
     HandleFlushSInv, ShiftSInv DEF Update, ServeMiss
<1>5. CASE Tick \/ TickFenceI
  BY <1>5, QuietStepsSInv
<1> QED BY <1>1, <1>2, <1>3, <1>4, <1>5 DEF Next

\* Where the latest store to a block can be, and what w_waiting_ says, hold
\* together with CInv of every cache that main.cc can build.
THEOREM StoreInvariance == Spec => [](CInv /\ SInv)
<1>1. Init => CInv /\ SInv
  BY InitCInv, InitSInv
<1>2. CInv /\ SInv /\ [Next]_vars => CInv' /\ SInv'
  BY NextCInv, NextSInv
<1> QED BY <1>1, <1>2, PTL DEF Spec

\* The waiting flags agree with the memory in every cache but the one both
\* written through and flushed (PostedFlush), so that the
\* asserts of recv_mem_resp and recv_req hold.
THEOREM MemHandshakeHolds == Spec => [](~PostedFlush => MemHandshake)
<1>1. CInv /\ SInv => (~PostedFlush => MemHandshake)
  BY DEF CInv, ReadChannel, WriteChannel, SInv, PostedWrites, PostedFlush,
         MemHandshake
<1> QED BY <1>1, StoreInvariance, PTL

\* No store is lost on its way to memory, without prefetcher and fence.i.
THEOREM StoresSurviveHolds == Spec => [](Plain => StoresSurvive)
<1>1. CInv /\ SInv => (Plain => StoresSurvive)
  BY DEF SInv, StoresKept, Kept, InDirtyLine, StoresSurvive
<1> QED BY <1>1, StoreInvariance, PTL

\* A refill never fetches what a store has not yet written: neither past the
\* posted write of a write-through cache (unless it is both written and
\* flushed, PostedFlush) nor past an eviction of a write-back cache without
\* prefetcher and fence.i.
THEOREM RefillSeesStoresHolds ==
    Spec => []((~PostedFlush /\ (WriteBack => Plain)) => RefillSeesStores)
<1>1. ASSUME CInv, SInv, ~PostedFlush, WriteBack => Plain, mem.r \in stale
      PROVE  FALSE
  <2>1. mem.r # NoBlk /\ WriteBack
    BY <1>1, Typed, NoBlkFacts DEF SInv, PostedStores
  <2>2. /\ st.r_waiting /\ BackMissing /\ mem.r = back.blk /\ ~st.pending_fill
    BY <1>1, <2>1 DEF CInv, ReadChannel
  <2>3. Kept(mem.r) /\ st.evict = NoBlk
    BY <1>1, <2>1, <2>2 DEF SInv, StoresKept
  <2>4. ~probe(mem.r)
    BY <1>1, <2>2 DEF CInv, Reserved, BackMissing
  <2>5. mem.w # mem.r
    BY <1>1, <2>1, <2>2 DEF CInv, WriteChannel
  <2> QED BY <2>1, <2>3, <2>4, <2>5 DEF Kept, InDirtyLine, probe
<1>2. CInv /\ SInv => (~PostedFlush /\ (WriteBack => Plain) => RefillSeesStores)
  BY <1>1 DEF RefillSeesStores
<1> QED BY <1>2, StoreInvariance, PTL

----------------------------------------------------------------------------
(* The requests of the pipe in order: counting the slots behind a slot. *)

\* In a set of slots ranks are positions: the Nth slot is the one with that rank.
LEMMA NthFacts ==
    ASSUME NEW n \in Nat, NEW S \in SUBSET (1..n)
    PROVE  /\ IsFiniteSet(S) /\ Cardinality(S) \in Nat
           /\ \A k \in 1..Cardinality(S) : Nth(S, k) \in S /\ Rank(S, Nth(S, k)) = k
           /\ \A i \in S : Rank(S, i) \in 1..Cardinality(S) /\ Nth(S, Rank(S, i)) = i
<1> DEFINE From(i) == {x \in S : x >= i}
<1>1. IsFiniteSet(S) /\ Cardinality(S) \in Nat
  <2>1. IsFiniteSet(1..n)
    BY FS_Interval
  <2>2. IsFiniteSet(S)
    BY <2>1, FS_Subset
  <2> QED BY <2>2, FS_CardinalityType
<1>2. ASSUME NEW i \in S
      PROVE  /\ IsFiniteSet(From(i)) /\ Rank(S, i) = Cardinality(From(i))
             /\ Rank(S, i) \in 1..Cardinality(S)
  <2>1. From(i) \in SUBSET S /\ i \in From(i) /\ From(i) # {}
    OBVIOUS
  <2>2. /\ IsFiniteSet(From(i)) /\ Cardinality(From(i)) <= Cardinality(S)
        /\ Cardinality(From(i)) \in Nat /\ Cardinality(From(i)) # 0
    BY <1>1, <2>1, FS_Subset, FS_CardinalityType, FS_EmptySet
  <2>3. Rank(S, i) = Cardinality(From(i))
    BY DEF Rank
  <2> HIDE DEF From
  <2> QED BY <1>1, <2>2, <2>3
<1>3. ASSUME NEW i \in S, NEW j \in S, i < j PROVE Rank(S, i) # Rank(S, j)
  <2>1. i \in From(i) /\ i \notin From(j) /\ From(j) \subseteq From(i)
    <3>1. S \subseteq Nat /\ i \in Nat /\ j \in Nat /\ i < j
      BY <1>3
    <3>2. \A x \in S : x >= j => x >= i
      BY <3>1
    <3>3. i >= i /\ ~(i >= j)
      BY <3>1
    <3> QED BY ONLY <3>2, <3>3, i \in S, Zenon
  <2>2. From(i) # From(j)
    BY <2>1
  <2> QED BY <1>2, <2>1, <2>2, FS_Subset
<1>4. ASSUME NEW i \in S, NEW j \in S, Rank(S, i) = Rank(S, j) PROVE i = j
  <2>1. i \in Nat /\ j \in Nat
    OBVIOUS
  <2>2. ~(i < j) /\ ~(j < i)
    BY <1>3, <1>4
  <2> QED BY <2>1, <2>2
<1> DEFINE f == [i \in S |-> Rank(S, i)]
<1>5. f \in Injection(S, 1..Cardinality(S))
  <2>1. f \in [S -> 1..Cardinality(S)]
    BY <1>2
  <2>2. \A a, b \in S : f[a] = f[b] => a = b
    BY <1>4
  <2> QED BY <2>1, <2>2 DEF Injection, IsInjective
<1>6. /\ IsFiniteSet(1..Cardinality(S))
      /\ Cardinality(1..Cardinality(S)) = Cardinality(S)
  <2>1. Cardinality(S) \in Int /\ 1 \in Int /\ (1 > Cardinality(S) => Cardinality(S) = 0)
    BY <1>1
  <2>2. /\ IsFiniteSet(1..Cardinality(S))
        /\ Cardinality(1..Cardinality(S)) =
              IF 1 > Cardinality(S) THEN 0 ELSE Cardinality(S) - 1 + 1
    BY <2>1, FS_Interval
  <2> QED BY <1>1, <2>1, <2>2
<1>7. f \in Surjection(S, 1..Cardinality(S))
  BY <1>5, <1>6, FS_Injection
<1>8. ASSUME NEW k \in 1..Cardinality(S)
      PROVE  Nth(S, k) \in S /\ Rank(S, Nth(S, k)) = k
  <2>1. \E i \in S : f[i] = k
    BY <1>7 DEF Surjection
  <2>2. \E i \in S : Rank(S, i) = k
    BY <2>1
  <2> QED BY <2>2 DEF Nth
<1>9. ASSUME NEW i \in S PROVE Nth(S, Rank(S, i)) = i
  BY <1>2, <1>4, <1>8
<1> QED BY <1>1, <1>2, <1>8, <1>9

\* Taking out the last slot: the others move up by one.
LEMMA NthWithoutLast ==
    ASSUME NEW n \in Nat, NEW S \in SUBSET (1..n), n \in S
    PROVE  /\ Cardinality(S) >= 1 /\ Nth(S, 1) = n
           /\ Cardinality(S \ {n}) = Cardinality(S) - 1
           /\ \A k \in 1..(Cardinality(S) - 1) : Nth(S \ {n}, k) = Nth(S, k + 1)
<1> DEFINE T == S \ {n}
<1>1. /\ T \in SUBSET (1..n) /\ IsFiniteSet(S) /\ Cardinality(S) \in Nat
      /\ IsFiniteSet(T) /\ Cardinality(T) = Cardinality(S) - 1
  BY NthFacts, FS_RemoveElement
<1>2. Rank(S, n) = 1
  <2>1. \A j \in S : j >= n <=> j = n
    OBVIOUS
  <2>2. {j \in S : j >= n} = {n}
    BY <2>1
  <2> QED BY <2>2, FS_Singleton DEF Rank
<1>3. Cardinality(S) >= 1 /\ Nth(S, 1) = n
  <2>1. Rank(S, n) \in 1..Cardinality(S) /\ Nth(S, Rank(S, n)) = n
    BY NthFacts
  <2> QED BY <1>1, <1>2, <2>1
<1>4. ASSUME NEW i \in T PROVE Rank(S, i) = Rank(T, i) + 1
  <2> DEFINE U == {j \in T : j >= i}
  <2>1. U \in SUBSET T /\ n \notin U /\ {j \in S : j >= i} = U \cup {n}
    OBVIOUS
  <2>2. IsFiniteSet(U) /\ Rank(T, i) = Cardinality(U)
    BY <1>1, <2>1, FS_Subset DEF Rank
  <2> HIDE DEF U
  <2>3. Cardinality(U \cup {n}) = Cardinality(U) + 1
    BY <2>1, <2>2, FS_AddElement
  <2> QED BY <2>1, <2>2, <2>3 DEF Rank
<1>5. ASSUME NEW k \in 1..(Cardinality(S) - 1) PROVE Nth(T, k) = Nth(S, k + 1)
  <2>1. Nth(T, k) \in T /\ Rank(T, Nth(T, k)) = k
    BY <1>1, NthFacts
  <2>2. Rank(S, Nth(T, k)) = k + 1
    BY <1>4, <2>1
  <2>3. Nth(T, k) \in S
    BY <2>1
  <2> HIDE DEF T
  <2>4. Nth(S, Rank(S, Nth(T, k))) = Nth(T, k)
    BY <2>3, NthFacts
  <2> QED BY <2>2, <2>4
<1> QED BY <1>1, <1>3, <1>5

\* Filling the first slot: it becomes the last of the sequence.
LEMMA NthWithFirst ==
    ASSUME NEW n \in Nat \ {0}, NEW S \in SUBSET (1..n), 1 \notin S
    PROVE  /\ Cardinality(S) < n
           /\ Cardinality(S \cup {1}) = Cardinality(S) + 1
           /\ Nth(S \cup {1}, Cardinality(S) + 1) = 1
           /\ \A k \in 1..Cardinality(S) : Nth(S \cup {1}, k) = Nth(S, k)
<1> DEFINE T == S \cup {1}
<1>1. /\ T \in SUBSET (1..n) /\ IsFiniteSet(S) /\ Cardinality(S) \in Nat
      /\ IsFiniteSet(T) /\ Cardinality(T) = Cardinality(S) + 1
  BY NthFacts, FS_AddElement
<1>2. Cardinality(S) < n
  <2>1. IsFiniteSet(1..n) /\ Cardinality(1..n) = n
    BY FS_Interval
  <2> HIDE DEF T
  <2>2. Cardinality(T) <= n
    BY <1>1, <2>1, FS_Subset
  <2> QED BY <1>1, <2>2
<1>3. Rank(T, 1) = Cardinality(S) + 1
  <2>1. \A j \in T : j >= 1
    OBVIOUS
  <2> HIDE DEF T
  <2>2. {j \in T : j >= 1} = T
    BY <2>1
  <2> QED BY <1>1, <2>2 DEF Rank
<1>4. ASSUME NEW i \in S PROVE Rank(T, i) = Rank(S, i)
  <2>1. {j \in T : j >= i} = {j \in S : j >= i}
    OBVIOUS
  <2> QED BY <2>1 DEF Rank
<1>5. Nth(T, Cardinality(S) + 1) = 1
  BY <1>1, <1>3, NthFacts
<1>6. ASSUME NEW k \in 1..Cardinality(S) PROVE Nth(T, k) = Nth(S, k)
  <2>1. Nth(S, k) \in S /\ Rank(S, Nth(S, k)) = k
    BY NthFacts
  <2>2. Rank(T, Nth(S, k)) = k /\ Nth(S, k) \in T
    BY <1>4, <2>1
  <2> HIDE DEF T
  <2>3. Nth(T, Rank(T, Nth(S, k))) = Nth(S, k)
    BY <1>1, <2>2, NthFacts
  <2> QED BY <2>2, <2>3
<1> QED BY <1>1, <1>2, <1>5, <1>6

\* Moving a set of slots up by one keeps its size.
LEMMA CardinalityShifted ==
    ASSUME NEW S \in SUBSET Nat, IsFiniteSet(S)
    PROVE  Cardinality({i + 1 : i \in S}) = Cardinality(S)
<1> DEFINE T == {i + 1 : i \in S}
           f == [i \in S |-> i + 1]
<1>1. f \in [S -> T]
  OBVIOUS
<1>2. \A a, b \in S : f[a] = f[b] => a = b
  OBVIOUS
<1>3. \A t \in T : \E s \in S : f[s] = t
  OBVIOUS
<1>4. f \in Bijection(S, T)
  BY <1>1, <1>2, <1>3 DEF Bijection, Injection, Surjection, IsInjective
<1>5. ExistsBijection(S, T)
  BY <1>4 DEF ExistsBijection
<1> QED BY <1>5, FS_Bijection

\* Moving every slot up by one moves the sequence along.
LEMMA NthShifted ==
    ASSUME NEW n \in Nat, NEW S \in SUBSET (1..n), n \notin S
    PROVE  LET T == {i + 1 : i \in S}
           IN  /\ T \in SUBSET (1..n) /\ Cardinality(T) = Cardinality(S)
               /\ \A k \in 1..Cardinality(S) : Nth(T, k) = Nth(S, k) + 1
<1> DEFINE T == {i + 1 : i \in S}
<1>1. /\ T \in SUBSET (1..n) /\ S \in SUBSET Nat
      /\ IsFiniteSet(S) /\ Cardinality(S) \in Nat
  <2>1. \A i \in S : i + 1 \in 1..n
    OBVIOUS
  <2>2. S \in SUBSET Nat
    OBVIOUS
  <2>3. IsFiniteSet(S) /\ Cardinality(S) \in Nat
    BY NthFacts
  <2>4. T \in SUBSET (1..n)
    BY ONLY <2>1
  <2> QED BY <2>2, <2>3, <2>4
<1>2. Cardinality(T) = Cardinality(S)
  BY <1>1, CardinalityShifted
<1>3. ASSUME NEW i \in S PROVE Rank(T, i + 1) = Rank(S, i)
  <2> DEFINE U == {j \in S : j >= i}
  <2>1. U \in SUBSET Nat /\ IsFiniteSet(U)
    BY <1>1, FS_Subset
  <2>2. {j \in T : j >= i + 1} = {j + 1 : j \in U}
    OBVIOUS
  <2>3. Cardinality({j + 1 : j \in U}) = Cardinality(U)
    BY <2>1, CardinalityShifted
  <2> QED BY <2>2, <2>3 DEF Rank
<1>4. ASSUME NEW k \in 1..Cardinality(S) PROVE Nth(T, k) = Nth(S, k) + 1
  <2>1. Nth(S, k) \in S /\ Rank(S, Nth(S, k)) = k
    BY NthFacts
  <2>2. Rank(T, Nth(S, k) + 1) = k /\ Nth(S, k) + 1 \in T
    BY <1>3, <2>1
  <2> HIDE DEF T
  <2>3. Nth(T, Rank(T, Nth(S, k) + 1)) = Nth(S, k) + 1
    BY <1>1, <2>2, NthFacts
  <2> QED BY <2>2, <2>3
<1> QED BY <1>1, <1>2, <1>4

----------------------------------------------------------------------------
(* The port: every step of the cache is a step of CachePort. *)

\* A hit that answers later than a flush that can drop the answer: fence.i on a
\* write-back cache with a hit delay, which main.cc does not build.
DeferredFlush == WriteBack /\ HitDelay > 0 /\ Flushes

\* Only a cache with a hit delay defers a response.
SchedDelayed == st.sched # InfTime => HitDelay > 0

\* The occupied slots are slots, and in a write-back cache there is one slot.
LEMMA HeldFacts ==
    ASSUME CInv
    PROVE  /\ PipeDepth \in Nat \ {0} /\ Held \in SUBSET (1..PipeDepth)
           /\ WriteBack => PipeDepth = 1
           /\ Cardinality(Held) \in Nat
           /\ \A k \in 1..Cardinality(Held) : Nth(Held, k) \in Held
           /\ \A i \in 1..PipeDepth : pipe[i] \in Slots
<1>1. PipeDepth \in Nat \ {0} /\ (WriteBack => PipeDepth = 1)
  BY Typed, ModeFacts
<1>2. Held \in SUBSET (1..PipeDepth) /\ \A i \in 1..PipeDepth : pipe[i] \in Slots
  BY BackFacts DEF Held
<1> QED BY <1>1, <1>2, NthFacts

\* The requests of the pipe are a sequence of requests.
InPipeFormed ==
    /\ InPipe \in Seq(Reqs) /\ Len(InPipe) = Cardinality(Held)
    /\ \A k \in 1..Cardinality(Held) : InPipe[k] = Request(pipe[Nth(Held, k)])
    /\ Held = {} => InPipe = <<>>

\* CInv makes it one.
LEMMA InPipeForm == CInv => InPipeFormed
<1> SUFFICES ASSUME CInv PROVE InPipeFormed
  OBVIOUS
<1>1. ASSUME NEW k \in 1..Cardinality(Held) PROVE Request(pipe[Nth(Held, k)]) \in Reqs
  <2>1. Nth(Held, k) \in Held
    BY HeldFacts
  <2>2. /\ pipe[Nth(Held, k)] \in Slots /\ pipe[Nth(Held, k)].blk # NoBlk
    BY <2>1, HeldFacts DEF Held
  <2> QED BY <2>2 DEF Slots, Reqs, Request
<1>2. Cardinality(Held) \in Nat
  BY HeldFacts
<1>3. InPipe \in Seq(Reqs) /\ Len(InPipe) = Cardinality(Held)
  BY <1>1, <1>2 DEF InPipe
<1>4. \A k \in 1..Cardinality(Held) : InPipe[k] = Request(pipe[Nth(Held, k)])
  BY DEF InPipe
<1>5. Held = {} => InPipe = <<>>
  <2>1. Held = {} => Len(InPipe) = 0
    BY <1>3, FS_EmptySet
  <2> QED BY <1>3, <2>1
<1> QED BY <1>3, <1>4, <1>5 DEF InPipeFormed

\* A deferred response is alone in the cache; otherwise the pipe is the queue.
QueueFormed ==
    /\ st.sched = InfTime => Outstanding = InPipe
    /\ st.sched # InfTime => /\ WriteBack /\ Held = {} /\ InPipe = <<>>
                             /\ Outstanding = <<st.sched_resp>>

\* CInv determines the form of the queue.
LEMMA QueueForm == CInv => QueueFormed
<1> SUFFICES ASSUME CInv PROVE QueueFormed
  OBVIOUS
<1>1. InPipe \in Seq(Reqs)
  BY InPipeForm DEF InPipeFormed
<1>2. ASSUME st.sched # InfTime PROVE WriteBack /\ Held = {} /\ InPipe = <<>>
  <2>1. WriteBack /\ back.blk = NoBlk /\ PipeDepth = 1
    BY <1>2, HeldFacts DEF CInv, Flags
  <2>2. Held = {}
    BY <2>1 DEF Held, back
  <2> QED BY <2>1, <2>2, InPipeForm DEF InPipeFormed
<1>3. st.sched_resp \in Reqs
  BY Typed DEF Members
<1>4. CASE st.sched = InfTime
  BY <1>1, <1>4 DEF Outstanding, QueueFormed
<1>5. CASE st.sched # InfTime
  <2>1. Outstanding = <<st.sched_resp>> \o <<>>
    BY <1>2, <1>5 DEF Outstanding
  <2> QED BY <1>2, <1>3, <1>5, <2>1 DEF QueueFormed
<1> QED BY <1>4, <1>5

\* The same in the next state.
LEMMA FormNext == CInv' => InPipeFormed' /\ QueueFormed'
BY InPipeForm, QueueForm, PTL

\* What the core may see of a step, in the terms of CachePort.
LEMMA PortSteps ==
    ASSUME st'.mode = st.mode
    PROVE  /\ Outstanding' = Outstanding /\ resp' = <<>> => Port!Next
           /\ \A r \in Reqs : /\ r.mop = "Write" => WriteBack
                              /\ Len(Outstanding) < PipeDepth
                              /\ Outstanding' = Append(Outstanding, r)
                              /\ resp' = <<>>
                              => Port!Next
           /\ /\ Outstanding # <<>> /\ resp' = <<Head(Outstanding)>>
              /\ Outstanding' = Tail(Outstanding)
              => Port!Next
           /\ \A r \in Reqs : /\ ~WriteBack /\ r.mop = "Write" /\ resp' = <<r>>
                              /\ Outstanding' = Outstanding
                              => Port!Next
<1> DEFINE posted == IF WriteBack THEN {} ELSE {r \in Reqs : r.mop = "Write"}
<1>1. WriteBack' = WriteBack /\ PipeDepth' = PipeDepth
  BY ModeFrame
<1>2. posted' = posted
  BY <1>1
<1>3. Outstanding' = Outstanding /\ resp' = <<>> => Port!Next
  BY <1>1, <1>2 DEF Port!Next, Port!Idle
<1>4. ASSUME NEW r \in Reqs, r.mop = "Write" => WriteBack,
             Len(Outstanding) < PipeDepth,
             Outstanding' = Append(Outstanding, r), resp' = <<>>
      PROVE  Port!Next
  <2>1. r \notin posted
    BY <1>4
  <2>2. Port!Accept(r)
    BY <1>1, <1>2, <1>4, <2>1 DEF Port!Accept
  <2> QED BY <2>2 DEF Port!Next
<1>5. ASSUME Outstanding # <<>>, resp' = <<Head(Outstanding)>>,
             Outstanding' = Tail(Outstanding)
      PROVE  Port!Next
  BY <1>1, <1>2, <1>5 DEF Port!Next, Port!Respond
<1>6. ASSUME NEW r \in Reqs, ~WriteBack, r.mop = "Write", resp' = <<r>>,
             Outstanding' = Outstanding
      PROVE  Port!Next
  <2>1. r \in posted
    BY <1>6
  <2>2. Port!Post(r)
    BY <1>1, <1>2, <1>6, <2>1 DEF Port!Post
  <2> QED BY <2>2 DEF Port!Next
<1> QED BY <1>3, <1>4, <1>5, <1>6

\* A step that keeps block and kind of every slot keeps the requests of the pipe.
LEMMA InPipeFrame ==
    ASSUME CInv, st'.mode = st.mode,
           \A i \in 1..PipeDepth : /\ pipe'[i].blk = pipe[i].blk
                                   /\ pipe'[i].mop = pipe[i].mop
    PROVE  InPipe' = InPipe
<1>1. PipeDepth' = PipeDepth
  BY ModeFrame
<1>2. Held' = Held
  BY <1>1 DEF Held
<1>3. ASSUME NEW k \in 1..Cardinality(Held)
      PROVE  Request(pipe'[Nth(Held, k)]) = Request(pipe[Nth(Held, k)])
  <2>1. Nth(Held, k) \in 1..PipeDepth
    BY HeldFacts
  <2> QED BY <2>1 DEF Request
<1>4. InPipe' = [k \in 1..Cardinality(Held) |-> Request(pipe'[Nth(Held, k)])]
  BY <1>2 DEF InPipe, Request
<1> QED BY <1>3, <1>4 DEF InPipe

\* A step that keeps the requests and the deferred response shows the core
\* nothing.
LEMMA QuietSimulates ==
    ASSUME CInv, CInv', st'.mode = st.mode,
           \A i \in 1..PipeDepth : /\ pipe'[i].blk = pipe[i].blk
                                   /\ pipe'[i].mop = pipe[i].mop,
           st'.sched = InfTime <=> st.sched = InfTime,
           st'.sched_resp = st.sched_resp, resp' = <<>>
    PROVE  Port!Next
<1>1. InPipe' = InPipe
  BY InPipeFrame
<1>2. Outstanding' = Outstanding
  BY <1>1, QueueForm, FormNext DEF QueueFormed
<1> QED BY <1>2, PortSteps

\* The steps of which the core sees nothing.
LEMMA QuietStepsSimulate ==
    CInv /\ CInv' /\ \/ MemResp \/ NotDue \/ Lookup \/ ServeNothing \/ ServeMiss
                     \/ Tick \/ TickFenceI
    => Port!Next
<1> SUFFICES ASSUME CInv, CInv',
                    \/ MemResp \/ NotDue \/ Lookup \/ ServeNothing \/ ServeMiss
                    \/ Tick \/ TickFenceI
             PROVE  Port!Next
  OBVIOUS
<1>1. resp' = <<>>
  BY DEF MemResp, RecvReadResp, RecvWriteResp, NoMemResp, NotDue, Lookup,
         ServeNothing, ServeMiss, Missing, Tick, TickFenceI
<1>2. \A i \in 1..PipeDepth : /\ pipe'[i].blk = pipe[i].blk
                              /\ pipe'[i].mop = pipe[i].mop
  <2>1. CASE UNCHANGED pipe
    BY <2>1
  <2>2. CASE \E w : pipe' = [pipe EXCEPT ![PipeDepth].way = w]
    BY <2>2, BackFacts DEF Slots
  <2>3. UNCHANGED pipe \/ \E w : pipe' = [pipe EXCEPT ![PipeDepth].way = w]
    BY DEF MemResp, RecvReadResp, RecvWriteResp, NoMemResp, NotDue, Lookup,
           ServeNothing, ServeMiss, Missing, Tick, TickFenceI
  <2> QED BY <2>1, <2>2, <2>3
<1>3. /\ st'.mode = st.mode /\ st'.sched_resp = st.sched_resp
      /\ st'.sched = InfTime <=> st.sched = InfTime
  <2>1. st \in Members
    BY Typed
  <2>2. CASE NoMemResp \/ NotDue \/ ServeNothing
    BY <2>2 DEF NoMemResp, NotDue, ServeNothing
  <2>3. CASE RecvReadResp
    BY <2>1, <2>3 DEF RecvReadResp, Members
  <2>4. CASE RecvWriteResp
    BY <2>1, <2>4 DEF RecvWriteResp, Members
  <2>5. CASE Lookup
    BY <2>1, <2>5 DEF Lookup, save_evict_info, Members
  <2>6. CASE ServeMiss
    BY <2>1, <2>6 DEF ServeMiss, MissDetected, MissWaitsForWrite, MissEvicts,
                      MissRefills, Members
  <2>7. CASE Tick \/ TickFenceI
    <3>1. /\ st'.mode = st.mode /\ st'.sched_resp = st.sched_resp
          /\ st'.sched = Elapse(st.sched) /\ st.sched \in Times
      BY <2>1, <2>7 DEF Tick, TickFenceI, StElapsed, Members
    <3> QED BY <3>1, TimesFacts
  <2> QED BY <2>2, <2>3, <2>4, <2>5, <2>6, <2>7 DEF MemResp
<1> QED BY <1>1, <1>2, <1>3, QuietSimulates

\* A queue without its oldest request.
LEMMA TailOfQueue ==
    ASSUME NEW S, NEW q \in Seq(S), NEW p \in Seq(S), NEW n \in Nat \ {0},
           Len(q) = n, Len(p) = n - 1, \A k \in 1..(n - 1) : p[k] = q[k + 1]
    PROVE  q # <<>> /\ Head(q) = q[1] /\ p = Tail(q)
<1>1. q # <<>> /\ Head(q) = q[1]
  OBVIOUS
<1> DEFINE t == Tail(q)
<1>2. t \in Seq(S) /\ Len(t) = n - 1 /\ \A k \in 1..Len(t) : t[k] = q[k + 1]
  BY <1>1, HeadTailProperties
<1> HIDE DEF t
<1>3. p = t
  BY <1>2, SeqEqual
<1> QED BY <1>1, <1>3 DEF t

\* update_impl hands out the deferred response, the only request in the cache.
LEMMA DeliverSchedSimulates == CInv /\ CInv' /\ DeliverSched => Port!Next
<1> SUFFICES ASSUME CInv, CInv', DeliverSched PROVE Port!Next
  OBVIOUS
<1>1. /\ pipe' = pipe /\ resp' = IF Due(st.sched) THEN <<st.sched_resp>> ELSE <<>>
      /\ st' = [st EXCEPT !.sched = IF Due(@) THEN InfTime ELSE @]
  BY DEF DeliverSched
<1>2. /\ st'.mode = st.mode /\ st'.sched_resp = st.sched_resp
      /\ st'.sched = IF Due(st.sched) THEN InfTime ELSE st.sched
  BY <1>1, Typed DEF Members
<1>3. CASE ~Due(st.sched)
  <2>1. /\ st'.sched = st.sched /\ resp' = <<>>
        /\ \A i \in 1..PipeDepth : /\ pipe'[i].blk = pipe[i].blk
                                   /\ pipe'[i].mop = pipe[i].mop
    BY <1>1, <1>2, <1>3
  <2> QED BY <1>2, <2>1, QuietSimulates
<1>4. CASE Due(st.sched)
  <2>1. st.sched # InfTime /\ st'.sched = InfTime
    BY <1>2, <1>4, InfTimeAssumption DEF Due
  <2>2. Outstanding = <<st.sched_resp>> /\ InPipe = <<>> /\ Outstanding' = InPipe'
    BY <2>1, QueueForm, FormNext DEF QueueFormed
  <2>3. InPipe' = InPipe
    BY <1>1, <1>2, InPipeFrame
  <2>4. /\ <<st.sched_resp>> # <<>> /\ Head(<<st.sched_resp>>) = st.sched_resp
        /\ Tail(<<st.sched_resp>>) = <<>>
    OBVIOUS
  <2> QED BY <1>1, <1>2, <1>4, <2>2, <2>3, <2>4, PortSteps
<1> QED BY <1>3, <1>4

\* A hit answers the oldest request and takes it out, or turns it into the
\* deferred response.
LEMMA ServeHitSimulates == CInv /\ CInv' /\ ServeHit => Port!Next
<1> SUFFICES ASSUME CInv, CInv', ServeHit PROVE Port!Next
  OBVIOUS
<1> DEFINE n == PipeDepth
           deferred == WriteBack /\ HitDelay > 0
<1>1. /\ back.blk # NoBlk /\ pipe' = [pipe EXCEPT ![PipeDepth] = NoEntry]
      /\ resp' = IF deferred THEN <<>> ELSE <<Request(back)>>
      /\ st' = [st EXCEPT !.is_replay = FALSE, !.blocked = 1,
                          !.sched = IF deferred THEN HitDelay ELSE @,
                          !.sched_resp = IF deferred THEN Request(back) ELSE @]
  BY DEF ServeHit, handle_hit
<1>2. /\ st'.mode = st.mode
      /\ st'.sched = IF deferred THEN HitDelay ELSE st.sched
      /\ deferred => st'.sched_resp = Request(back)
  BY <1>1, Typed DEF Members
<1>3. PipeDepth' = PipeDepth /\ n \in Nat \ {0} /\ n \in 1..n
  BY <1>2, ModeFrame, HeldFacts, BackFacts
<1>4. Held \in SUBSET (1..n) /\ n \in Held /\ Held' = Held \ {n}
  <2>1. Held \in SUBSET (1..n) /\ n \in Held
    BY <1>1, <1>3, HeldFacts DEF Held, back
  <2>2. /\ pipe'[n] = NoEntry /\ NoEntry.blk = NoBlk
        /\ \A i \in 1..n : i # n => pipe'[i] = pipe[i]
    BY <1>1, <1>3, BackFacts DEF NoEntry
  <2>3. Held' = {i \in 1..n : pipe'[i].blk # NoBlk}
    BY <1>3 DEF Held
  <2> QED BY <2>1, <2>2, <2>3 DEF Held
<1>5. st.sched = InfTime /\ Outstanding = InPipe
  <2>1. st.sched = InfTime
    BY <1>1 DEF CInv, Flags
  <2> QED BY <2>1, QueueForm DEF QueueFormed
<1> DEFINE c == Cardinality(Held)
<1>6. /\ c \in Nat /\ c >= 1 /\ Nth(Held, 1) = n /\ Cardinality(Held') = c - 1
      /\ \A k \in 1..(c - 1) : Nth(Held', k) = Nth(Held, k + 1)
  BY <1>3, <1>4, HeldFacts, NthWithoutLast
<1>7. /\ InPipe \in Seq(Reqs) /\ Len(InPipe) = c /\ InPipe[1] = Request(back)
      /\ \A k \in 1..c : InPipe[k] = Request(pipe[Nth(Held, k)])
  <2>1. /\ InPipe \in Seq(Reqs) /\ Len(InPipe) = c
        /\ \A k \in 1..c : InPipe[k] = Request(pipe[Nth(Held, k)])
    BY InPipeForm DEF InPipeFormed
  <2> QED BY <1>6, <2>1 DEF back
<1>8. /\ InPipe' \in Seq(Reqs) /\ Len(InPipe') = c - 1
      /\ \A k \in 1..(c - 1) : InPipe'[k] = InPipe[k + 1]
  <2>1. /\ InPipe' \in Seq(Reqs) /\ Len(InPipe') = c - 1
        /\ \A k \in 1..(c - 1) : InPipe'[k] = Request(pipe'[Nth(Held', k)])
    BY <1>6, FormNext DEF InPipeFormed, Request
  <2>2. ASSUME NEW k \in 1..(c - 1)
        PROVE  Request(pipe'[Nth(Held', k)]) = InPipe[k + 1]
    <3> DEFINE T == Held \ {n}
    <3>1. T \in SUBSET (1..n) /\ T = Held' /\ Cardinality(T) = c - 1
      BY <1>4, <1>6
    <3>2. k \in 1..Cardinality(T) /\ k + 1 \in 1..c
      BY <1>6, <3>1
    <3> HIDE DEF T
    <3>3. Nth(T, k) \in T
      BY <1>3, <3>1, <3>2, NthFacts
    <3>4. Nth(Held', k) \in 1..n /\ Nth(Held', k) # n
      BY <1>4, <3>1, <3>3
    <3>5. pipe'[Nth(Held', k)] = pipe[Nth(Held', k)]
      BY <1>1, <3>4, BackFacts
    <3> QED BY <1>6, <1>7, <3>2, <3>5
  <2> QED BY <2>1, <2>2
<1>9. CASE ~deferred
  <2>1. Outstanding' = InPipe'
    BY <1>2, <1>5, <1>9, FormNext DEF QueueFormed
  <2>2. InPipe # <<>> /\ Head(InPipe) = Request(back) /\ Tail(InPipe) = InPipe'
    BY ONLY <1>6, <1>7, <1>8, TailOfQueue
  <2> QED BY <1>1, <1>2, <1>5, <1>9, <2>1, <2>2, PortSteps
<1>10. CASE deferred
  <2>1. HitDelay # InfTime
    BY Typed, ModeFacts, InfTimeAssumption
  <2>2. Outstanding' = <<Request(back)>>
    BY <1>2, <1>10, <2>1, FormNext DEF QueueFormed
  <2>3. n = 1
    BY <1>10, HeldFacts
  <2>4. c = 1
    <3>1. Held \subseteq 1..1 /\ 1 \in Held
      BY <1>4, <2>3
    <3>2. \A i \in 1..1 : i = 1
      OBVIOUS
    <3>3. Held = {1}
      BY ONLY <3>1, <3>2, Zenon
    <3> QED BY <3>3, FS_Singleton
  <2>5. InPipe = <<Request(back)>>
    BY ONLY <1>7, <2>4
  <2> QED BY <1>1, <1>2, <1>5, <1>10, <2>2, <2>5, PortSteps
<1> QED BY <1>9, <1>10

\* handle_flush finds no request: the pipe is empty and nothing is deferred.
LEMMA HandleFlushSimulates ==
    CInv /\ CInv' /\ SInv /\ SchedDelayed /\ ~DeferredFlush /\ HandleFlush => Port!Next
<1> SUFFICES ASSUME CInv, CInv', SInv, SchedDelayed, ~DeferredFlush, HandleFlush
             PROVE  Port!Next
  OBVIOUS
<1>1. /\ st.pending_flush /\ PipeEmpty /\ resp' = <<>>
      /\ pipe' = [i \in 1..PipeDepth |-> NoEntry]
  BY DEF HandleFlush
<1>2. st'.mode = st.mode /\ st'.sched = InfTime
  BY Typed DEF HandleFlush, Members
<1>3. st.sched = InfTime
  <2>1. Flushes
    BY <1>1 DEF SInv, PostedWrites
  <2>2. st.sched # InfTime => WriteBack /\ HitDelay > 0
    BY DEF CInv, Flags, SchedDelayed
  <2> QED BY <2>1, <2>2 DEF DeferredFlush
<1>4. Held = {} /\ Held' = {}
  <2>1. PipeDepth' = PipeDepth
    BY <1>2, ModeFrame
  <2> QED BY <1>1, <2>1 DEF Held, PipeEmpty, NoEntry
<1>5. InPipe = <<>> /\ InPipe' = <<>>
  <2>1. Cardinality(Held) = 0 /\ Cardinality(Held') = 0
    BY <1>4, FS_EmptySet
  <2> QED BY <2>1 DEF InPipe
<1>6. Outstanding = InPipe /\ Outstanding' = InPipe'
  BY <1>2, <1>3, QueueForm, FormNext DEF QueueFormed
<1> QED BY <1>1, <1>2, <1>5, <1>6, PortSteps

\* A queue with one more request.
LEMMA AppendToQueue ==
    ASSUME NEW S, NEW q \in Seq(S), NEW p \in Seq(S), NEW n \in Nat, NEW r \in S,
           Len(q) = n, Len(p) = n + 1, p[n + 1] = r, \A k \in 1..n : p[k] = q[k]
    PROVE  p = Append(q, r)
<1> DEFINE a == Append(q, r)
<1>1. /\ a \in Seq(S) /\ Len(a) = n + 1 /\ a[n + 1] = r
      /\ \A k \in 1..n : a[k] = q[k]
  BY AppendProperties
<1> HIDE DEF a
<1>2. ASSUME NEW k \in 1..(n + 1) PROVE p[k] = a[k]
  <2>1. k \in 1..n \/ k = n + 1
    OBVIOUS
  <2> QED BY <1>1, <2>1
<1>3. p = a
  BY <1>1, <1>2, SeqEqual
<1> QED BY <1>3 DEF a

\* A request enters the pipe at the front, behind all others.
LEMMA PipeReqSimulates ==
    ASSUME NEW r \in Reqs, CInv, CInv', PipeReq(r)
    PROVE  Port!Next
<1> DEFINE n == PipeDepth
           e == [blk |-> r.blk, mop |-> r.mop, way |-> NoWay]
           c == Cardinality(Held)
<1>1. /\ (r.mop = "Write" => WriteBack) /\ ReadReady /\ resp' = <<>>
      /\ pipe' = [pipe EXCEPT ![1] = e]
      /\ st' = [st EXCEPT !.blocked = 1, !.is_shifted = FALSE]
  BY DEF PipeReq
<1>2. st'.mode = st.mode /\ st'.sched = st.sched
  BY <1>1, Typed DEF Members
<1>3. PipeDepth' = PipeDepth /\ n \in Nat \ {0} /\ 1 \in 1..n
  BY <1>2, ModeFrame, HeldFacts, BackFacts
<1>4. /\ Request(e) = r /\ e.blk # NoBlk
  BY NoBlkFacts DEF Reqs, Request
<1> HIDE DEF e
<1>5. pipe'[1] = e /\ \A i \in 1..n : i # 1 => pipe'[i] = pipe[i]
  BY <1>1, <1>3, BackFacts
<1>6. Held \in SUBSET (1..n) /\ 1 \notin Held /\ Held' = Held \cup {1}
  <2>1. Held \in SUBSET (1..n)
    BY HeldFacts
  <2>2. 1 \notin Held
    BY <1>1 DEF ReadReady, CInv, PipeShape, Held
  <2>3. Held' = {i \in 1..n : pipe'[i].blk # NoBlk}
    BY <1>3 DEF Held
  <2> QED BY <1>3, <1>4, <1>5, <2>1, <2>2, <2>3 DEF Held
<1>7. /\ c \in Nat /\ c < n /\ Cardinality(Held') = c + 1
      /\ Nth(Held', c + 1) = 1
      /\ \A k \in 1..c : Nth(Held', k) = Nth(Held, k)
  BY <1>3, <1>6, HeldFacts, NthWithFirst
<1>8. st.sched = InfTime
  <2>1. CASE WriteBack
    BY <1>1, <2>1 DEF ReadReady
  <2>2. CASE ~WriteBack
    BY <2>2 DEF CInv, Flags
  <2> QED BY <2>1, <2>2
<1>9. Outstanding = InPipe /\ Outstanding' = InPipe'
  BY <1>2, <1>8, QueueForm, FormNext DEF QueueFormed
<1>10. /\ InPipe \in Seq(Reqs) /\ Len(InPipe) = c
       /\ \A k \in 1..c : InPipe[k] = Request(pipe[Nth(Held, k)])
  BY InPipeForm DEF InPipeFormed
<1>11. /\ InPipe' \in Seq(Reqs) /\ Len(InPipe') = c + 1
       /\ \A k \in 1..(c + 1) : InPipe'[k] = Request(pipe'[Nth(Held', k)])
  BY <1>7, FormNext DEF InPipeFormed, Request
<1>12. InPipe'[c + 1] = r
  BY <1>4, <1>5, <1>7, <1>11
<1>13. ASSUME NEW k \in 1..c PROVE InPipe'[k] = InPipe[k]
  <2>1. Nth(Held, k) \in Held
    BY HeldFacts
  <2>2. Nth(Held, k) \in 1..n /\ Nth(Held, k) # 1
    BY <1>6, <2>1
  <2>3. pipe'[Nth(Held', k)] = pipe[Nth(Held, k)]
    BY <1>5, <1>7, <2>2
  <2>4. k \in 1..(c + 1)
    BY <1>7
  <2> QED BY <1>10, <1>11, <2>3, <2>4
<1> HIDE DEF c
<1>14. InPipe' = Append(InPipe, r)
  BY <1>7, <1>10, <1>11, <1>12, <1>13, AppendToQueue
<1> QED BY <1>1, <1>2, <1>7, <1>9, <1>10, <1>14, PortSteps

\* A posted write is answered at once and leaves the queue alone.
LEMMA ThroughWriteSimulates ==
    ASSUME NEW b \in Blocks, CInv, CInv', ThroughWrite(b)
    PROVE  Port!Next
<1> DEFINE r == [blk |-> b, mop |-> "Write"]
<1>1. /\ ~WriteBack /\ pipe' = pipe /\ resp' = <<r>>
      /\ st' = [st EXCEPT !.w_waiting = TRUE]
  BY DEF ThroughWrite
<1>2. st'.mode = st.mode /\ st'.sched = st.sched /\ st'.sched_resp = st.sched_resp
  BY <1>1, Typed DEF Members
<1>3. r \in Reqs /\ r.mop = "Write"
  BY DEF Reqs
<1> HIDE DEF r
<1>4. InPipe' = InPipe
  BY <1>1, <1>2, InPipeFrame
<1>5. Outstanding' = Outstanding
  BY <1>2, <1>4, QueueForm, FormNext DEF QueueFormed
<1> QED BY <1>1, <1>2, <1>3, <1>5, PortSteps

\* When the pipeline moves, every request moves with it, in order.
LEMMA ShiftSimulates == CInv /\ CInv' /\ Shift => Port!Next
<1> SUFFICES ASSUME CInv, CInv', Shift PROVE Port!Next
  OBVIOUS
<1> DEFINE n == PipeDepth
           c == Cardinality(Held)
           shifted == [i \in 1..PipeDepth |->
                         IF i > 1 THEN pipe[i - 1]
                         ELSE IF PipeDepth > 1 THEN NoEntry ELSE pipe[1]]
           T == {i + 1 : i \in Held}
<1>1. /\ resp' = <<>> /\ phase = "shift" /\ back.blk = NoBlk
      /\ pipe' = shifted \/ \E w : pipe' = [shifted EXCEPT ![PipeDepth].way = w]
  BY DEF Shift, CInv, PipeShape
<1>2. st'.mode = st.mode /\ st'.sched = st.sched /\ st'.sched_resp = st.sched_resp
  BY Typed DEF Shift, save_evict_info, Members
<1>3. n \in Nat \ {0} /\ pipe \in [1..n -> Slots] /\ PipeDepth' = PipeDepth
  BY <1>2, ModeFrame, HeldFacts, BackFacts
<1>4. ASSUME NEW i \in 1..n
      PROVE  pipe'[i].blk = shifted[i].blk /\ pipe'[i].mop = shifted[i].mop
  <2>1. shifted[i] \in Slots
    <3>1. NoEntry \in Slots
      BY DEF NoEntry, Slots
    <3>2. i > 1 => i - 1 \in 1..n
      BY <1>3
    <3> QED BY <1>3, <3>1, <3>2, BackFacts
  <2> HIDE DEF shifted
  <2>2. ASSUME NEW w, pipe' = [shifted EXCEPT ![PipeDepth].way = w]
        PROVE  pipe'[i].blk = shifted[i].blk /\ pipe'[i].mop = shifted[i].mop
    <3>1. DOMAIN shifted = 1..n
      BY DEF shifted
    <3> QED BY <2>1, <2>2, <3>1 DEF Slots
  <2> QED BY <1>1, <2>2
<1>5. CASE n = 1
  <2>1. \A i \in 1..PipeDepth : /\ pipe'[i].blk = pipe[i].blk
                                /\ pipe'[i].mop = pipe[i].mop
    BY <1>4, <1>5
  <2> QED BY <1>1, <1>2, <2>1, QuietSimulates
<1>6. CASE n > 1
  <2>1. /\ pipe'[1].blk = NoBlk
        /\ \A i \in 1..n : i > 1 => /\ pipe'[i].blk = pipe[i - 1].blk
                                    /\ pipe'[i].mop = pipe[i - 1].mop
    BY <1>3, <1>4, <1>6 DEF NoEntry
  <2>2. Held \in SUBSET (1..n) /\ n \notin Held
    BY <1>1, HeldFacts DEF Held, back
  <2>3. Held' = T
    <3>1. Held' = {i \in 1..n : pipe'[i].blk # NoBlk}
      BY <1>3 DEF Held
    <3>2. ASSUME NEW i \in Held' PROVE i \in T
      <4>1. i \in 1..n /\ i # 1 /\ pipe'[i].blk # NoBlk
        BY <2>1, <3>1, <3>2
      <4>2. i - 1 \in Held /\ i = (i - 1) + 1
        BY <1>3, <2>1, <4>1 DEF Held
      <4> QED BY <4>2
    <3>3. ASSUME NEW j \in Held PROVE j + 1 \in Held'
      <4>1. j \in 1..n /\ j # n /\ pipe[j].blk # NoBlk
        BY <2>2 DEF Held
      <4>2. j + 1 \in 1..n /\ j + 1 > 1 /\ (j + 1) - 1 = j
        BY <1>3, <4>1
      <4>3. pipe'[j + 1].blk = pipe[j].blk
        BY <2>1, <4>2
      <4> QED BY <3>1, <4>1, <4>2, <4>3
    <3> QED BY <3>2, <3>3
  <2>4. /\ Cardinality(T) = c /\ c \in Nat
        /\ \A k \in 1..c : Nth(T, k) = Nth(Held, k) + 1
    BY <1>3, <2>2, HeldFacts, NthShifted
  <2> HIDE DEF T
  <2>5. InPipe' = [k \in 1..c |-> Request(pipe'[Nth(T, k)])]
    BY <2>3, <2>4 DEF InPipe, Request
  <2>6. ASSUME NEW k \in 1..c
        PROVE  Request(pipe'[Nth(T, k)]) = Request(pipe[Nth(Held, k)])
    <3> DEFINE j == Nth(Held, k)
    <3>1. j \in 1..n /\ j # n
      BY <2>2, HeldFacts
    <3> HIDE DEF j
    <3>2. j + 1 \in 1..n /\ j + 1 > 1 /\ (j + 1) - 1 = j
      BY <1>3, <3>1
    <3>3. pipe'[j + 1].blk = pipe[j].blk /\ pipe'[j + 1].mop = pipe[j].mop
      BY <2>1, <3>2
    <3>4. Nth(T, k) = j + 1
      BY <2>4 DEF j
    <3> QED BY <3>3, <3>4 DEF Request, j
  <2>7. InPipe' = InPipe
    BY <2>5, <2>6 DEF InPipe
  <2>8. Outstanding' = Outstanding
    BY <1>2, <2>7, QueueForm, FormNext DEF QueueFormed
  <2> QED BY <1>1, <1>2, <2>8, PortSteps
<1> QED BY <1>3, <1>5, <1>6

\* The mode never changes, and a response is deferred only by a hit delay.
LEMMA NextSchedDelayed ==
    CInv /\ SchedDelayed /\ [Next]_vars => SchedDelayed' /\ st'.mode = st.mode
<1> SUFFICES ASSUME CInv, SchedDelayed, [Next]_vars
             PROVE  SchedDelayed' /\ st'.mode = st.mode
  OBVIOUS
<1>1. st \in Members /\ st.sched \in Times
  BY Typed DEF Members
<1>2. /\ st'.mode = st.mode
      /\ \/ st'.sched = st.sched \/ st'.sched = InfTime
         \/ st'.sched = Elapse(st.sched) \/ HitDelay > 0
  <2>1. CASE UNCHANGED st
    BY <2>1
  <2>2. CASE RecvReadResp \/ RecvWriteResp
    BY <1>1, <2>2 DEF RecvReadResp, RecvWriteResp, Members
  <2>3. CASE DeliverSched
    BY <1>1, <2>3 DEF DeliverSched, Members
  <2>4. CASE Lookup
    BY <1>1, <2>4 DEF Lookup, save_evict_info, Members
  <2>5. CASE ServeHit
    BY <1>1, <2>5 DEF ServeHit, handle_hit, Members
  <2>6. CASE ServeMiss
    BY <1>1, <2>6 DEF ServeMiss, MissDetected, MissWaitsForWrite, MissEvicts,
                      MissRefills, Members
  <2>7. CASE HandleFlush
    BY <1>1, <2>7 DEF HandleFlush, Members
  <2>8. CASE Shift
    BY <1>1, <2>8 DEF Shift, save_evict_info, Members
  <2>9. CASE Client
    BY <1>1, <2>9 DEF Client, read_req, write_req, PipeReq, ThroughWrite, Members
  <2>10. CASE Tick \/ TickFenceI
    BY <1>1, <2>10 DEF Tick, TickFenceI, StElapsed, Members
  <2>11. CASE UNCHANGED vars \/ NoMemResp \/ NotDue \/ ServeNothing
    <3>1. UNCHANGED st
      BY <2>11 DEF vars, NoMemResp, NotDue, ServeNothing
    <3> QED BY <2>1, <3>1
  <2> QED BY <2>2, <2>3, <2>4, <2>5, <2>6, <2>7, <2>8, <2>9, <2>10, <2>11
          DEF Next, MemResp, Update
<1>3. HitDelay' = HitDelay
  BY <1>2 DEF HitDelay
<1>4. st'.sched # InfTime => st.sched # InfTime \/ HitDelay > 0
  BY <1>1, <1>2, TimesFacts
<1> QED BY <1>2, <1>3, <1>4 DEF SchedDelayed

\* Every step of the cache is a step of CachePort, or changes nothing that the
\* core sees.
LEMMA NextSimulates ==
    CInv /\ CInv' /\ SInv /\ SchedDelayed /\ ~DeferredFlush /\ [Next]_vars
    => [Port!Next]_(Port!vars)
<1> SUFFICES ASSUME CInv, CInv', SInv, SchedDelayed, ~DeferredFlush, [Next]_vars
             PROVE  [Port!Next]_(Port!vars)
  OBVIOUS
<1>1. CASE UNCHANGED vars
  <2>1. UNCHANGED <<pipe, st, resp>>
    BY <1>1 DEF vars
  <2>2. WriteBack' = WriteBack /\ PipeDepth' = PipeDepth
    BY <2>1, ModeFrame
  <2>3. InPipe' = InPipe
    BY <2>1, InPipeFrame
  <2>4. Outstanding' = Outstanding
    BY <2>1, <2>3 DEF Outstanding
  <2> QED BY <2>1, <2>2, <2>4 DEF Port!vars
<1>2. CASE Client
  <2>1. \A b \in Blocks : /\ [blk |-> b, mop |-> "Read"] \in Reqs
                          /\ [blk |-> b, mop |-> "Write"] \in Reqs
    BY DEF Reqs
  <2>2. ASSUME NEW r \in Reqs, PipeReq(r) PROVE Port!Next
    BY <2>2, PipeReqSimulates
  <2>3. ASSUME NEW b \in Blocks, ThroughWrite(b) PROVE Port!Next
    BY <2>3, ThroughWriteSimulates
  <2> QED BY <1>2, <2>1, <2>2, <2>3 DEF Client, read_req, write_req
<1>3. CASE MemResp \/ Tick \/ TickFenceI
  BY <1>3, QuietStepsSimulate
<1>4. CASE Update
  BY <1>4, QuietStepsSimulate, DeliverSchedSimulates, ServeHitSimulates,
     HandleFlushSimulates, ShiftSimulates DEF Update
<1> QED BY <1>1, <1>2, <1>3, <1>4 DEF Next

\* The cache implements the safety part of ImplementsPort for every geometry,
\* pipe depth, policy, prefetcher and latency: each accepted request is answered
\* exactly once, in order, with its own address and kind, and never are more
\* requests held than the pipe has stages.  The one exception is the cache
\* whose handle_flush cancels a deferred hit response.
THEOREM ImplementsPortSafety ==
    Spec /\ ~DeferredFlush => Port!Init /\ [][Port!Next]_(Port!vars)
<1>1. Init => SchedDelayed /\ Port!Init
  <2> SUFFICES ASSUME Init PROVE SchedDelayed /\ Port!Init
    OBVIOUS
  <2>1. PICK mode \in Modes : st = InitSt(mode)
    BY DEF Init
  <2>2. st.sched = InfTime
    BY <2>1 DEF InitSt
  <2>3. CInv
    BY InitCInv
  <2>4. Held = {}
    BY DEF Init, Held, NoEntry
  <2>5. Outstanding = <<>> /\ resp = <<>> /\ PipeDepth \in Nat
    BY <2>2, <2>3, <2>4, InPipeForm, QueueForm, HeldFacts
       DEF InPipeFormed, QueueFormed, Init
  <2> QED BY <2>2, <2>5 DEF SchedDelayed, Port!Init
<1>2. CInv /\ SchedDelayed /\ [Next]_vars => SchedDelayed'
  BY NextSchedDelayed
<1>3. CInv /\ SchedDelayed /\ ~DeferredFlush /\ [Next]_vars => ~DeferredFlush'
  <2> SUFFICES ASSUME CInv, SchedDelayed, ~DeferredFlush, [Next]_vars
               PROVE  ~DeferredFlush'
    OBVIOUS
  <2> QED BY NextSchedDelayed DEF DeferredFlush, WriteBack, HitDelay, Flushes
<1>4. CInv /\ CInv' /\ SInv /\ SchedDelayed /\ ~DeferredFlush /\ [Next]_vars
      => [Port!Next]_(Port!vars)
  BY NextSimulates
<1> QED BY <1>1, <1>2, <1>3, <1>4, StoreInvariance, PTL DEF Spec
===============================================================================

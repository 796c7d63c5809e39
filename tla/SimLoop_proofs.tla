---------------------------- MODULE SimLoop_proofs ----------------------------
(* The main loop's bookkeeping, for every length of trace, limit and number   *)
(* of instructions in flight.  A step of the loop is a step of StallAttr or    *)
(* leaves the breakdown alone, so what is shown of StallAttr carries over.     *)
(* The loop's own invariants need what its statements rely on silently: a tick *)
(* in which nothing is offered finds inst.sys_op consumed, and one in which    *)
(* something was offered has an instruction in flight or is draining.          *)
EXTENDS SimLoop, TLAPS

----------------------------------------------------------------------------
(* The cycle breakdown adds up for every length of run: Inv is inductive. *)

\* Type correctness, the sum and the clock bound support each other: the sum
\* needs natural counters, the counters need last_tick <= now + 1.
Inv == TypeOK /\ SumIsElapsed /\ NeverAhead

\* flush_stall_cycles moves the gap into one bucket: the sum follows last_tick.
LEMMA FlushKeepsSum ==
    ASSUME TypeOK, SumIsElapsed
    PROVE  /\ Flushed \in [Causes \cup {"NoStall"} -> Nat]
           /\ FlushedTick \in Nat
           /\ Flushed["NoStall"] + Flushed["NoInst"] + Flushed["LsuStall"]
              + Flushed["BrMispred"] + Flushed["RAW"]
              = FlushedTick - reset_tick
<1>1. CASE now <= last_tick
  BY <1>1 DEF TypeOK, SumIsElapsed, Sum, Flushed, FlushedTick
<1>2. CASE ~(now <= last_tick)
  <2>1. Payer \in Causes
    BY DEF TypeOK, Payer, Causes
  <2>2. now - last_tick \in Nat /\ now \in Nat
    BY <1>2 DEF TypeOK
  <2>3. Flushed = [bucket EXCEPT ![Payer] = @ + (now - last_tick)]
    BY <1>2 DEF Flushed
  <2>4. Flushed \in [Causes \cup {"NoStall"} -> Nat]
    BY <2>1, <2>2, <2>3 DEF TypeOK
  <2>5. FlushedTick = now
    BY <1>2 DEF FlushedTick
  <2>6. \A b \in Causes \cup {"NoStall"} : bucket[b] \in Nat
    BY DEF TypeOK
  <2>7. reset_tick \in Nat /\ last_tick \in Nat
    BY DEF TypeOK
  <2>8. \A b \in Causes \cup {"NoStall"} :
           Flushed[b] = IF b = Payer THEN bucket[b] + (now - last_tick)
                        ELSE bucket[b]
    BY <2>1, <2>3 DEF TypeOK
  <2>9. Flushed["NoStall"] = bucket["NoStall"]
    BY <2>1, <2>8 DEF Causes
  <2>10. bucket["NoStall"] + bucket["NoInst"] + bucket["LsuStall"]
         + bucket["BrMispred"] + bucket["RAW"] = last_tick - reset_tick
    BY DEF SumIsElapsed, Sum
  <2>11. Flushed["NoStall"] + Flushed["NoInst"] + Flushed["LsuStall"]
         + Flushed["BrMispred"] + Flushed["RAW"] = now - reset_tick
    <3> DEFINE a == bucket["NoStall"]
               b == bucket["NoInst"]
               c == bucket["LsuStall"]
               d == bucket["BrMispred"]
               e == bucket["RAW"]
               gap == now - last_tick
    <3>1. /\ a \in Int /\ b \in Int /\ c \in Int /\ d \in Int /\ e \in Int
          /\ a + b + c + d + e = last_tick - reset_tick
      BY <2>6, <2>10 DEF Causes
    <3> HIDE DEF a, b, c, d, e
    <3>6. /\ a + (b + gap) + c + d + e = now - reset_tick
          /\ a + b + (c + gap) + d + e = now - reset_tick
          /\ a + b + c + (d + gap) + e = now - reset_tick
          /\ a + b + c + d + (e + gap) = now - reset_tick
      BY <2>2, <2>7, <3>1
    <3>2. CASE Payer = "NoInst"
      <4>1. /\ Flushed["NoInst"] = bucket["NoInst"] + (now - last_tick)
            /\ Flushed["LsuStall"] = bucket["LsuStall"]
            /\ Flushed["BrMispred"] = bucket["BrMispred"]
            /\ Flushed["RAW"] = bucket["RAW"]
        BY <2>8, <3>2 DEF Causes
      <4> QED
        BY <2>9, <3>6, <4>1 DEF a, b, c, d, e
    <3>3. CASE Payer = "LsuStall"
      <4>1. /\ Flushed["NoInst"] = bucket["NoInst"]
            /\ Flushed["LsuStall"] = bucket["LsuStall"] + (now - last_tick)
            /\ Flushed["BrMispred"] = bucket["BrMispred"]
            /\ Flushed["RAW"] = bucket["RAW"]
        BY <2>8, <3>3 DEF Causes
      <4> QED
        BY <2>9, <3>6, <4>1 DEF a, b, c, d, e
    <3>4. CASE Payer = "BrMispred"
      <4>1. /\ Flushed["NoInst"] = bucket["NoInst"]
            /\ Flushed["LsuStall"] = bucket["LsuStall"]
            /\ Flushed["BrMispred"] = bucket["BrMispred"] + (now - last_tick)
            /\ Flushed["RAW"] = bucket["RAW"]
        BY <2>8, <3>4 DEF Causes
      <4> QED
        BY <2>9, <3>6, <4>1 DEF a, b, c, d, e
    <3>5. CASE Payer = "RAW"
      <4>1. /\ Flushed["NoInst"] = bucket["NoInst"]
            /\ Flushed["LsuStall"] = bucket["LsuStall"]
            /\ Flushed["BrMispred"] = bucket["BrMispred"]
            /\ Flushed["RAW"] = bucket["RAW"] + (now - last_tick)
        BY <2>8, <3>5 DEF Causes
      <4> QED
        BY <2>9, <3>6, <4>1 DEF a, b, c, d, e
    <3> QED
      BY <2>1, <3>2, <3>3, <3>4, <3>5 DEF Causes
  <2> QED
    BY <2>2, <2>4, <2>5, <2>11
<1> QED
  BY <1>1, <1>2

\* The flush never runs ahead of the clock.
LEMMA FlushedBound ==
    ASSUME TypeOK, NeverAhead
    PROVE  /\ FlushedTick <= now + 1
           /\ phase = "resp" => FlushedTick <= now
           /\ phase = "resp" => FlushedTick = now
BY DEF TypeOK, NeverAhead, FlushedTick

\* The reference accounting keeps its types.
LEMMA HistoryTyped ==
    ASSUME TypeOK, [Next]_vars
    PROVE  recovering' \in BOOLEAN /\ committed' \in BOOLEAN /\ eager' \in [Causes -> Nat]
<1>1. Owner \in Causes
  BY DEF TypeOK, Owner, Causes
<1>2. CASE (\E c \in Causes : set_stall(c)) \/ NoCommit \/ FetchMispredicted \/ UNCHANGED vars
  BY <1>2 DEF TypeOK, set_stall, NoCommit, FetchMispredicted, vars, history
<1>3. CASE Commit
  BY <1>3 DEF TypeOK, Commit
<1>4. CASE ExFlush
  BY <1>4 DEF TypeOK, ExFlush
<1>5. CASE Tick
  <2>1. committed' = FALSE /\ recovering' = recovering
    BY <1>5 DEF Tick
  <2>2. eager' \in {eager, [eager EXCEPT ![Owner] = @ + 1]}
    BY <1>5 DEF Tick
  <2>3. eager \in [Causes -> Nat] /\ recovering \in BOOLEAN
    BY DEF TypeOK
  <2>4. [eager EXCEPT ![Owner] = @ + 1] \in [Causes -> Nat]
    BY <1>1, <2>3
  <2>5. eager' \in [Causes -> Nat]
    BY ONLY <2>2, <2>3, <2>4
  <2>6. committed' \in BOOLEAN /\ recovering' \in BOOLEAN
    BY ONLY <2>1, <2>3
  <2> QED BY <2>5, <2>6
<1>6. CASE TickReset
  BY <1>6 DEF TickReset, NewWindow
<1> QED
  BY <1>2, <1>3, <1>4, <1>5, <1>6 DEF Next

\* Every handler preserves the invariant.
LEMMA NextKeepsInv == ASSUME Inv, [Next]_vars PROVE Inv'
<1> USE DEF Inv
<1>0. /\ Flushed \in [Causes \cup {"NoStall"} -> Nat]
      /\ FlushedTick \in Nat
      /\ Flushed["NoStall"] + Flushed["NoInst"] + Flushed["LsuStall"]
         + Flushed["BrMispred"] + Flushed["RAW"] = FlushedTick - reset_tick
      /\ FlushedTick <= now + 1
      /\ phase = "resp" => FlushedTick <= now
      /\ phase = "resp" => FlushedTick = now
  BY FlushKeepsSum, FlushedBound
<1>9. recovering' \in BOOLEAN /\ committed' \in BOOLEAN /\ eager' \in [Causes -> Nat]
  BY HistoryTyped
<1>1. ASSUME NEW c \in Causes, set_stall(c) PROVE Inv'
  BY <1>0, <1>1, <1>9 DEF set_stall, TypeOK, SumIsElapsed, Sum, NeverAhead, Causes
<1>2. CASE Commit
  <2> DEFINE F == Flushed
  <2>1. /\ bucket' = [F EXCEPT !["NoStall"] = @ + 1]
        /\ F \in [Causes \cup {"NoStall"} -> Nat]
        /\ F["NoStall"] + F["NoInst"] + F["LsuStall"] + F["BrMispred"] + F["RAW"]
           = now - reset_tick
        /\ now \in Nat /\ reset_tick \in Nat
        /\ last_tick' = now + 1 /\ reset_tick' = reset_tick
    BY <1>0, <1>2 DEF Commit, TypeOK
  <2> HIDE DEF F
  <2>2. \A b \in Causes \cup {"NoStall"} : F[b] \in Nat
    BY <2>1
  <2>3. bucket' \in [Causes \cup {"NoStall"} -> Nat]
    BY <2>1, <2>2
  <2>4. /\ bucket'["NoStall"] = F["NoStall"] + 1
        /\ bucket'["NoInst"] = F["NoInst"]
        /\ bucket'["LsuStall"] = F["LsuStall"]
        /\ bucket'["BrMispred"] = F["BrMispred"]
        /\ bucket'["RAW"] = F["RAW"]
    BY <2>1 DEF Causes
  <2>5. SumIsElapsed'
    <3> DEFINE a == F["NoStall"]
               b == F["NoInst"]
               c == F["LsuStall"]
               d == F["BrMispred"]
               e == F["RAW"]
    <3>1. /\ a \in Int /\ b \in Int /\ c \in Int /\ d \in Int /\ e \in Int
          /\ a + b + c + d + e = now - reset_tick
      BY <2>1, <2>2 DEF Causes
    <3> HIDE DEF a, b, c, d, e
    <3>2. (a + 1) + b + c + d + e = (now + 1) - reset_tick
      BY <2>1, <3>1
    <3> QED
      BY <2>1, <2>4, <3>2 DEF SumIsElapsed, Sum, a, b, c, d, e
  <2>6. cycles' \in Nat
    BY <1>2 DEF Commit, TypeOK, NeverAhead
  <2>7. TypeOK'
    <3>1. cause' \in Causes /\ phase' \in {"resp", "run"}
      BY <1>2 DEF Commit, Causes
    <3>2. now' \in Nat /\ last_tick' \in Nat /\ reset_tick' \in Nat
      BY <1>2 DEF Commit, TypeOK
    <3>3. in_br_recovery' \in BOOLEAN
      BY <1>2 DEF Commit
    <3> QED
      BY <1>9, <2>3, <2>6, <3>1, <3>2, <3>3 DEF TypeOK
  <2>8. NeverAhead'
    BY <1>2 DEF Commit, TypeOK, NeverAhead
  <2> QED
    BY <2>5, <2>7, <2>8
<1>3. CASE NoCommit
  BY <1>3, <1>9 DEF NoCommit, TypeOK, SumIsElapsed, Sum, NeverAhead
<1>4. CASE ExFlush
  BY <1>0, <1>4, <1>9 DEF ExFlush, TypeOK, SumIsElapsed, Sum, NeverAhead
<1>5. CASE FetchMispredicted
  BY <1>0, <1>5, <1>9 DEF FetchMispredicted, TypeOK, SumIsElapsed, Sum, NeverAhead
<1>6. CASE Tick
  BY <1>6, <1>9 DEF Tick, TypeOK, SumIsElapsed, Sum, NeverAhead
<1>7. CASE TickReset
  <2>1. bucket' = Zero /\ Zero \in [Causes \cup {"NoStall"} -> Nat]
    BY <1>7 DEF TickReset, Zero
  <2>2. Sum' = 0
    BY <2>1 DEF Sum, Zero, Causes
  <2>3. last_tick' - reset_tick' = 0
    BY <1>7 DEF TickReset, TypeOK
  <2>4. TypeOK'
    <3>1. cause' \in Causes /\ phase' \in {"resp", "run"} /\ cycles' \in Nat
      BY <1>7 DEF TickReset, Causes
    <3>2. now' \in Nat /\ last_tick' \in Nat /\ reset_tick' \in Nat
      BY <1>7 DEF TickReset, TypeOK
    <3>3. in_br_recovery' \in BOOLEAN
      BY <1>7 DEF TickReset
    <3>4. bucket' \in [Causes \cup {"NoStall"} -> Nat]
      BY <2>1
    <3> QED
      BY <1>9, <3>1, <3>2, <3>3, <3>4 DEF TypeOK
  <2>5. NeverAhead'
    BY <1>7 DEF TickReset, TypeOK, NeverAhead
  <2> QED
    BY <2>2, <2>3, <2>4, <2>5 DEF SumIsElapsed
<1>8. CASE UNCHANGED vars
  BY <1>8, <1>9 DEF vars, TypeOK, SumIsElapsed, Sum, NeverAhead
<1> QED
  BY <1>1, <1>2, <1>3, <1>4, <1>5, <1>6, <1>7, <1>8 DEF Next

\* The breakdown starts with nothing charged.
LEMMA InitEstablishesInv == Init => Inv
<1> SUFFICES ASSUME Init PROVE Inv
  OBVIOUS
<1>1. bucket = Zero /\ Zero \in [Causes \cup {"NoStall"} -> Nat]
  BY DEF Init, Zero
<1>2. Sum = 0
  BY <1>1 DEF Sum, Zero, Causes
<1>3. /\ cause \in Causes /\ in_br_recovery \in BOOLEAN
      /\ phase \in {"resp", "run"}
      /\ recovering \in BOOLEAN /\ committed \in BOOLEAN
      /\ eager \in [Causes -> Nat]
  BY DEF Init, Causes
<1>4. /\ now \in Nat /\ last_tick \in Nat /\ reset_tick \in Nat
      /\ cycles \in Nat /\ NeverAhead
  BY DEF Init, NeverAhead
<1>5. bucket \in [Causes \cup {"NoStall"} -> Nat]
  BY <1>1
<1>6. TypeOK
  BY <1>3, <1>4, <1>5 DEF TypeOK
<1>7. SumIsElapsed
  BY <1>2 DEF Init, SumIsElapsed
<1> QED
  BY <1>4, <1>6, <1>7 DEF Inv

\* The breakdown's invariant holds in every reachable state.
THEOREM InvHolds == Spec => []Inv
<1>1. Init => Inv
  BY InitEstablishesInv
<1>2. Inv /\ [Next]_vars => Inv'
  BY NextKeepsInv
<1> QED
  BY <1>1, <1>2, PTL DEF Spec

\* The counters of the breakdown stay naturals, for any length of run.
THEOREM TypeCorrect == Spec => []TypeOK
<1>1. Inv => TypeOK
  BY DEF Inv
<1> QED
  BY <1>1, InvHolds, PTL

\* Every cycle since reset_stats is charged to exactly one bucket, for any
\* length of run and any order of the handlers' calls.
THEOREM SumIsElapsedHolds == Spec => []SumIsElapsed
<1>1. Inv => SumIsElapsed
  BY DEF Inv
<1> QED
  BY <1>1, InvHolds, PTL

\* flush_stall_cycles never charges a cycle that has not begun.
THEOREM NeverAheadHolds == Spec => []NeverAhead
<1>1. Inv => NeverAhead
  BY DEF Inv
<1> QED
  BY <1>1, InvHolds, PTL

\* The flag and the clock of the accounting agree with what has happened: the
\* recovery lasts from the flush to the commit, and last_tick is ahead of the
\* clock exactly in a tick with a commit.
Marked ==
    /\ recovering <=> in_br_recovery
    /\ committed <=> last_tick = now + 1

\* What the reference accounting needs besides: with the marks, a charge of
\* flush_stall_cycles goes to whom the cycles since last_tick belong.
EInv == Inv /\ Marked /\ ChargedByCycle

\* flush_stall_cycles catches up with the reference accounting.
LEMMA FlushCatchesUp ==
    ASSUME EInv, NEW b \in Causes
    PROVE  Flushed[b] = eager[b]
<1>1. Payer = Owner
  BY DEF EInv, Marked, Payer, Owner
<1>2. /\ bucket \in [Causes \cup {"NoStall"} -> Nat] /\ now \in Nat /\ last_tick \in Nat
      /\ b \in Causes \cup {"NoStall"} /\ bucket[b] \in Nat
  BY DEF EInv, Inv, TypeOK
<1>3. bucket[b] + (IF b = Owner THEN Uncharged ELSE 0) = eager[b]
  BY DEF EInv, ChargedByCycle
<1> QED
  BY <1>1, <1>2, <1>3 DEF Flushed, Uncharged

\* Nothing is uncharged after it.
LEMMA FlushedUpToNow ==
    ASSUME EInv
    PROVE  /\ FlushedTick \in Nat /\ now \in Nat /\ ~(FlushedTick < now)
           /\ FlushedTick = now + 1 <=> last_tick = now + 1
           /\ phase = "resp" => ~committed
BY DEF EInv, Inv, TypeOK, FlushedTick, Marked, NeverAhead

\* Every handler and every tick keep the two accountings together.
LEMMA NextKeepsEInv == ASSUME EInv, [Next]_vars PROVE EInv'
<1>0. Inv'
  BY NextKeepsInv DEF EInv
<1>1. \A b \in Causes : Flushed[b] = eager[b]
  BY FlushCatchesUp
<1>2. /\ FlushedTick \in Nat /\ now \in Nat /\ ~(FlushedTick < now)
      /\ FlushedTick = now + 1 <=> last_tick = now + 1
      /\ phase = "resp" => ~committed
  BY FlushedUpToNow
<1>3. /\ eager \in [Causes -> Nat] /\ bucket \in [Causes \cup {"NoStall"} -> Nat]
      /\ last_tick \in Nat
      /\ \A b \in Causes : eager[b] \in Nat /\ bucket[b] \in Nat
  BY DEF EInv, Inv, TypeOK
<1>4. ASSUME NEW c \in Causes, set_stall(c) PROVE EInv'
  <2>1. Marked'
    BY <1>2, <1>4 DEF set_stall, history, EInv, Marked
  <2>2. ChargedByCycle'
    <3>1. Uncharged' = 0
      BY <1>2, <1>4 DEF set_stall, Uncharged
    <3>2. bucket' = Flushed /\ eager' = eager
      BY <1>4 DEF set_stall, history
    <3> QED BY <1>1, <1>3, <3>1, <3>2 DEF ChargedByCycle
  <2> QED BY <1>0, <2>1, <2>2 DEF EInv
<1>5. CASE Commit
  <2>1. Marked'
    BY <1>2, <1>5 DEF Commit, Marked
  <2>2. ChargedByCycle'
    <3>1. Uncharged' = 0
      BY <1>2, <1>5 DEF Commit, Uncharged
    <3>2. eager' = eager /\ \A b \in Causes : bucket'[b] = Flushed[b]
      <4>1. Flushed \in [Causes \cup {"NoStall"} -> Nat]
        BY FlushKeepsSum DEF EInv, Inv
      <4>2. "NoStall" \notin Causes
        BY DEF Causes
      <4> QED BY <1>5, <4>1, <4>2 DEF Commit
    <3> QED BY <1>1, <1>3, <3>1, <3>2 DEF ChargedByCycle
  <2> QED BY <1>0, <2>1, <2>2 DEF EInv
<1>6. CASE ExFlush \/ FetchMispredicted
  <2>1. Marked'
    BY <1>2, <1>6 DEF ExFlush, FetchMispredicted, history, EInv, Marked
  <2>2. ChargedByCycle'
    <3>1. Uncharged' = 0
      BY <1>2, <1>6 DEF ExFlush, FetchMispredicted, Uncharged
    <3>2. bucket' = Flushed /\ eager' = eager
      BY <1>6 DEF ExFlush, FetchMispredicted, history
    <3> QED BY <1>1, <1>3, <3>1, <3>2 DEF ChargedByCycle
  <2> QED BY <1>0, <2>1, <2>2 DEF EInv
<1>7. CASE NoCommit \/ UNCHANGED vars
  <2>1. UNCHANGED <<now, last_tick, cause, in_br_recovery, bucket, recovering,
                    committed, eager>>
    BY <1>7 DEF NoCommit, vars, history
  <2> QED BY <1>0, <2>1 DEF EInv, Marked, ChargedByCycle, Owner, Uncharged
<1>8. CASE Tick
  <2>1. /\ now' = now + 1 /\ committed' = FALSE /\ recovering' = recovering
        /\ UNCHANGED <<last_tick, cause, in_br_recovery, bucket>>
        /\ eager' = IF committed THEN eager ELSE [eager EXCEPT ![Owner] = @ + 1]
    BY <1>8 DEF Tick
  <2>2. last_tick <= now + 1
    BY DEF EInv, Inv, NeverAhead
  <2>3. Marked'
    BY <1>2, <1>3, <2>1, <2>2 DEF EInv, Marked
  <2>4. Owner' = Owner
    BY <2>1 DEF Owner
  <2>5. ASSUME NEW b \in Causes
        PROVE  bucket[b] + (IF b = Owner THEN Uncharged' ELSE 0) = eager'[b]
    <3>1. bucket[b] + (IF b = Owner THEN Uncharged ELSE 0) = eager[b]
      BY DEF EInv, ChargedByCycle
    <3>2. CASE committed
      <4>1. last_tick = now + 1
        BY <3>2 DEF EInv, Marked
      <4>2. Uncharged = 0 /\ Uncharged' = 0
        BY <1>2, <2>1, <4>1 DEF Uncharged
      <4> QED BY <2>1, <3>1, <3>2, <4>2
    <3>3. CASE ~committed
      <4>1. last_tick <= now
        BY <1>2, <1>3, <2>2, <3>3 DEF EInv, Marked
      <4>2. Uncharged' = Uncharged + 1 /\ Uncharged \in Nat
        BY <1>2, <1>3, <2>1, <4>1 DEF Uncharged
      <4>3. eager'[b] = IF b = Owner THEN eager[b] + 1 ELSE eager[b]
        BY <1>3, <2>1, <3>3
      <4> QED BY ONLY <1>3, <3>1, <4>2, <4>3, b \in Causes
    <3> QED BY <3>2, <3>3
  <2>6. ChargedByCycle'
    BY <2>1, <2>4, <2>5 DEF ChargedByCycle
  <2> QED BY <1>0, <2>3, <2>6 DEF EInv
<1>10. CASE TickReset
  <2>1. Marked'
    BY <1>2, <1>10 DEF TickReset, NewWindow, Marked
  <2>2. Uncharged' = 0
    BY <1>2, <1>10 DEF TickReset, Uncharged
  <2>3. \A b \in Causes : bucket'[b] = 0 /\ eager'[b] = 0
    BY <1>10 DEF TickReset, NewWindow, Zero
  <2>4. ChargedByCycle'
    BY <2>2, <2>3 DEF ChargedByCycle
  <2> QED BY <1>0, <2>1, <2>4 DEF EInv
<1> QED
  BY <1>4, <1>5, <1>6, <1>7, <1>8, <1>10 DEF Next

\* The lazy breakdown is that of charging each cycle as it ends: from an EX
\* flush to the next commit or reset to the misprediction, whatever the handlers
\* do in between, and to the cause in force otherwise.
THEOREM ChargedByCycleHolds == Spec => []ChargedByCycle
<1>1. Init => EInv
  <2> SUFFICES ASSUME Init PROVE EInv
    OBVIOUS
  <2>1. Inv
    BY InitEstablishesInv
  <2>2. Marked
    BY DEF Init, Marked
  <2>3. \A b \in Causes : bucket[b] = 0 /\ eager[b] = 0
    BY DEF Init, Zero
  <2>4. Uncharged = 0
    BY DEF Init, Uncharged
  <2> QED BY <2>1, <2>2, <2>3, <2>4 DEF EInv, ChargedByCycle
<1>2. EInv /\ [Next]_vars => EInv'
  BY NextKeepsEInv
<1>3. EInv => ChargedByCycle
  BY DEF EInv
<1> QED
  BY <1>1, <1>2, <1>3, PTL DEF Spec

----------------------------------------------------------------------------
(* The main loop. *)

\* The types of the loop's variables and of what it sees of the core.
LoopTypeOK ==
    /\ buffered \in BOOLEAN /\ draining \in BOOLEAN /\ offered \in BOOLEAN
    /\ has_next \in BOOLEAN /\ stop_after_dump \in BOOLEAN /\ done \in BOOLEAN
    /\ ongoing \in Nat /\ insts \in Nat /\ inst_cnt \in Nat /\ total \in Nat
    /\ dump_cnt \in Nat /\ atReset \in Nat /\ marks \in Nat /\ acted \in Nat
    /\ sys_op \in SysOps

\* Before the first instruction nothing is buffered, and only a trace without
\* instructions gets past the first tick.
NothingFedYet ==
    inst_cnt = 0 =>
        /\ ~buffered
        /\ offered => draining
        /\ ~draining => acted = 0 /\ marks = 0

\* A marker is gone before the next instruction can be offered, and a dump is
\* never pending once one was taken.
OpConsumed ==
    /\ inst_cnt > 0 /\ ~offered => sys_op = "SysNone"
    /\ sys_op = "SysDumpStats" => ~stop_after_dump

\* What was offered is in flight until the tick ends; a buffered instruction
\* is counted as ongoing.
OfferedInFlight ==
    /\ offered => phase = "run" /\ (draining \/ ongoing > 0)
    /\ buffered => ongoing > 0

\* Draining starts when nothing may be read any more, and that is final.
DrainingIsFinal == draining => ~MayRead

LInv ==
    /\ Inv /\ LoopTypeOK
    /\ NothingFedYet /\ OpConsumed /\ OfferedInFlight /\ DrainingIsFinal
    /\ WindowConserved /\ MarkersOnce /\ DoneMeansDrained

\* A charge of flush_stall_cycles never goes to the NoStall bucket.
LEMMA FlushSparesNoStall ==
    ASSUME TypeOK
    PROVE  Flushed["NoStall"] = bucket["NoStall"]
<1>1. Payer \in Causes /\ "NoStall" \notin Causes
  BY DEF TypeOK, Payer, Causes
<1> QED BY <1>1 DEF TypeOK, Flushed

\* Every step of the loop is a step of the cycle accounting, or none.
LEMMA LoopStepIsStallStep == LoopNext => [Next]_vars
<1>1. LoopCommit \/ LoopAccount => Next
  BY DEF LoopCommit, LoopAccount, Next
<1>2. TakeBuffered \/ StartDraining \/ Finished => UNCHANGED vars
  BY DEF TakeBuffered, StartDraining, Finished
<1>3. ASSUME NEW op \in SysOps PROVE FeedInst(op) => UNCHANGED vars
  BY DEF FeedInst
<1>4. ASSUME NEW op \in SysOps PROVE LoopTick(op) => Next
  BY DEF LoopTick, ResetWindow, Next
<1> QED BY <1>1, <1>2, <1>3, <1>4 DEF LoopNext

\* The invariant holds initially.
LEMMA LoopInitEstablishesLInv == LoopInit => LInv
<1> SUFFICES ASSUME LoopInit PROVE LInv
  OBVIOUS
<1>1. Inv
  BY InitEstablishesInv DEF LoopInit
<1>2. LoopTypeOK
  BY DEF LoopInit, LoopTypeOK
<1>3. NothingFedYet /\ OpConsumed /\ OfferedInFlight /\ DrainingIsFinal
  BY DEF LoopInit, NothingFedYet, OpConsumed, OfferedInFlight, DrainingIsFinal
<1>4. WindowConserved
  BY DEF LoopInit, Init, WindowConserved, Zero, Causes
<1>5. MarkersOnce /\ DoneMeansDrained
  BY DEF LoopInit, MarkersOnce, DoneMeansDrained
<1> QED BY <1>1, <1>2, <1>3, <1>4, <1>5 DEF LInv

\* A commit: one more instruction, one more cycle without stall, one fewer in
\* flight.
LEMMA LoopCommitPreservesLInv == LInv /\ LoopCommit => LInv'
<1> SUFFICES ASSUME LInv, LoopCommit PROVE LInv'
  OBVIOUS
<1> USE DEF LInv
<1>1. Inv'
  BY NextKeepsInv DEF LoopCommit, Next
<1>2. /\ phase = "resp" /\ phase' = "run" /\ now' = now
      /\ bucket' = [Flushed EXCEPT !["NoStall"] = @ + 1]
      /\ ongoing > (IF buffered THEN 1 ELSE 0) /\ ongoing' = ongoing - 1
      /\ insts' = insts + 1 /\ ~done
      /\ UNCHANGED <<buffered, draining, offered, inst_cnt, has_next,
                     stop_after_dump, sys_op, total, dump_cnt, done, atReset,
                     marks, acted>>
  BY DEF LoopCommit, Commit
<1>3. LoopTypeOK'
  BY <1>2 DEF LoopTypeOK
<1>4. bucket'["NoStall"] = bucket["NoStall"] + 1
  <2>1. Flushed \in [Causes \cup {"NoStall"} -> Nat]
    BY FlushKeepsSum DEF Inv
  <2> QED BY <1>2, <2>1, FlushSparesNoStall DEF Inv
<1>5. WindowConserved'
  BY <1>2, <1>4 DEF WindowConserved, LoopTypeOK
<1>6. NothingFedYet' /\ OpConsumed' /\ OfferedInFlight' /\ DrainingIsFinal'
  BY <1>2 DEF NothingFedYet, OpConsumed, OfferedInFlight, DrainingIsFinal,
              MayRead, LoopTypeOK
<1>7. MarkersOnce' /\ DoneMeansDrained'
  BY <1>2 DEF MarkersOnce, DoneMeansDrained
<1> QED BY <1>1, <1>3, <1>5, <1>6, <1>7

\* The other handlers charge cycles to causes and touch nothing of the loop's.
LEMMA LoopAccountPreservesLInv == LInv /\ LoopAccount => LInv'
<1> SUFFICES ASSUME LInv, LoopAccount PROVE LInv'
  OBVIOUS
<1> USE DEF LInv
<1>1. Inv'
  BY NextKeepsInv DEF LoopAccount, Next
<1>2. /\ phase = "run" => phase' = "run" 
      /\ now' = now /\ ~done
      /\ bucket' \in {bucket, Flushed}
      /\ UNCHANGED loopVars
  BY DEF LoopAccount, set_stall, NoCommit, ExFlush, FetchMispredicted
<1>3. WindowConserved'
  BY <1>2, FlushSparesNoStall DEF Inv, WindowConserved, loopVars
<1>4. LoopTypeOK'
  BY <1>2 DEF LoopTypeOK, loopVars
<1>5. NothingFedYet' /\ OpConsumed' /\ OfferedInFlight' /\ DrainingIsFinal'
  BY <1>2 DEF NothingFedYet, OpConsumed, OfferedInFlight, DrainingIsFinal,
              MayRead, loopVars
<1>6. MarkersOnce' /\ DoneMeansDrained'
  BY <1>2 DEF MarkersOnce, DoneMeansDrained, loopVars
<1> QED BY <1>1, <1>3, <1>4, <1>5, <1>6

\* do_fetch_0 empties the input buffer; the instruction stays in flight.
LEMMA TakeBufferedPreservesLInv == LInv /\ TakeBuffered => LInv'
<1> SUFFICES ASSUME LInv, TakeBuffered PROVE LInv'
  OBVIOUS
<1> USE DEF LInv
<1>1. Inv'
  BY NextKeepsInv DEF TakeBuffered
<1>2. /\ buffered' = FALSE
      /\ UNCHANGED <<now, bucket, phase>>
      /\ UNCHANGED <<ongoing, draining, insts, offered, inst_cnt, has_next,
                     stop_after_dump, sys_op, total, dump_cnt, done, atReset,
                     marks, acted>>
  BY DEF TakeBuffered, vars
<1>3. LoopTypeOK'
  BY <1>2 DEF LoopTypeOK
<1>4. NothingFedYet' /\ OpConsumed' /\ OfferedInFlight' /\ DrainingIsFinal'
  BY <1>2 DEF NothingFedYet, OpConsumed, OfferedInFlight, DrainingIsFinal,
              MayRead
<1>5. WindowConserved' /\ MarkersOnce' /\ DoneMeansDrained'
  BY <1>2 DEF WindowConserved, MarkersOnce, DoneMeansDrained, MayRead
<1> QED BY <1>1, <1>3, <1>4, <1>5

\* feed_inst: the marker of the previous instruction has been acted on.
LEMMA FeedInstPreservesLInv ==
    ASSUME LInv, NEW op \in SysOps, FeedInst(op)
    PROVE  LInv'
<1> USE DEF LInv
<1>1. Inv'
  BY NextKeepsInv DEF FeedInst
<1>2. /\ ~done /\ phase = "run" /\ ~offered /\ ~buffered /\ ~draining /\ MayRead
      /\ offered' = TRUE /\ buffered' = TRUE /\ ongoing' = ongoing + 1
      /\ inst_cnt' = inst_cnt + 1 /\ total' = total + 1 /\ sys_op' = op
      /\ marks' = marks + (IF op = "SysNone" THEN 0 ELSE 1)
      /\ UNCHANGED <<now, bucket, phase>>
      /\ UNCHANGED <<draining, insts, has_next, stop_after_dump, dump_cnt, done,
                     atReset, acted>>
  BY DEF FeedInst, vars, inst_avail
<1>3. LoopTypeOK'
  BY <1>2 DEF LoopTypeOK
<1>4. NothingFedYet' /\ OpConsumed' /\ OfferedInFlight' /\ DrainingIsFinal'
  BY <1>2 DEF NothingFedYet, OpConsumed, OfferedInFlight, DrainingIsFinal,
              MayRead, LoopTypeOK
<1>5. WindowConserved'
  BY <1>2 DEF WindowConserved, LoopTypeOK
<1>6. MarkersOnce'
  <2>1. acted = marks
    BY <1>2 DEF NothingFedYet, OpConsumed, MarkersOnce, LoopTypeOK
  <2> QED BY <1>2, <2>1 DEF MarkersOnce, LoopTypeOK
<1>7. DoneMeansDrained'
  BY <1>2 DEF DoneMeansDrained
<1> QED BY <1>1, <1>3, <1>4, <1>5, <1>6, <1>7

\* set_draining: from here on nothing may be read.
LEMMA StartDrainingPreservesLInv == LInv /\ StartDraining => LInv'
<1> SUFFICES ASSUME LInv, StartDraining PROVE LInv'
  OBVIOUS
<1> USE DEF LInv
<1>1. Inv'
  BY NextKeepsInv DEF StartDraining
<1>2. /\ ~done /\ phase = "run" /\ ~offered /\ ~buffered /\ ~draining
      /\ offered' = TRUE /\ draining' = TRUE
      /\ has_next' = (has_next /\ ~MayRead)
      /\ UNCHANGED <<now, bucket, phase>>
      /\ UNCHANGED <<buffered, ongoing, insts, inst_cnt, stop_after_dump, sys_op,
                     total, dump_cnt, done, atReset, marks, acted>>
  BY DEF StartDraining, vars, inst_avail
<1>3. LoopTypeOK'
  BY <1>2 DEF LoopTypeOK
<1>4. NothingFedYet' /\ OpConsumed' /\ OfferedInFlight'
  BY <1>2 DEF NothingFedYet, OpConsumed, OfferedInFlight
<1>5. DrainingIsFinal'
  BY <1>2 DEF DrainingIsFinal, MayRead
<1>6. WindowConserved' /\ MarkersOnce' /\ DoneMeansDrained'
  BY <1>2 DEF WindowConserved, MarkersOnce, DoneMeansDrained
<1> QED BY <1>1, <1>3, <1>4, <1>5, <1>6

\* The end of a tick: the marker is acted on and consumed, a reset zeroes both
\* sides of the window, and the loop is left with the core drained or at
\* max_ticks.
LEMMA LoopTickPreservesLInv ==
    ASSUME LInv, NEW op \in SysOps, LoopTick(op)
    PROVE  LInv'
<1> USE DEF LInv
<1>1. Inv'
  BY NextKeepsInv, LoopStepIsStallStep DEF LoopNext
<1>2. /\ ~done /\ sys_op = op
      /\ offered \/ buffered \/ draining
      /\ offered' = FALSE /\ sys_op' = "SysNone"
      /\ dump_cnt' = dump_cnt + (IF op = "SysDumpStats" THEN 1 ELSE 0)
      /\ stop_after_dump' = (stop_after_dump \/ op = "SysDumpStats")
      /\ acted' = acted + (IF op = "SysNone" THEN 0 ELSE 1)
      /\ done' = (ongoing = 0 \/ now + 1 >= MaxTick)
      /\ UNCHANGED <<buffered, ongoing, draining, inst_cnt, has_next, marks>>
  BY DEF LoopTick, Consumed, inst_avail
<1>3. /\ now' = now + 1 /\ now < MaxTick
      /\ \/ bucket' = Zero /\ total' = 0 /\ insts' = 0 /\ atReset' = ongoing
         \/ bucket' = bucket /\ UNCHANGED <<total, insts, atReset>>
  BY DEF LoopTick, ResetWindow, TickReset, Tick
<1>4. LoopTypeOK'
  <2>1. done' \in BOOLEAN
    BY DEF LoopTick
  <2>2. stop_after_dump' \in BOOLEAN
    BY DEF LoopTick
  <2>3. dump_cnt' \in Nat /\ acted' \in Nat
    BY <1>2 DEF LoopTypeOK
  <2>4. total' \in Nat /\ insts' \in Nat /\ atReset' \in Nat
    BY <1>3 DEF LoopTypeOK
  <2> QED BY <1>2, <2>1, <2>2, <2>3, <2>4 DEF LoopTypeOK, SysOps
<1>5. NothingFedYet'
  <2>1. inst_cnt = 0 => draining
    BY <1>2 DEF NothingFedYet
  <2> QED BY <1>2, <2>1 DEF NothingFedYet
<1>6. OpConsumed' /\ OfferedInFlight' /\ DrainingIsFinal'
  BY <1>2 DEF OpConsumed, OfferedInFlight, DrainingIsFinal, MayRead
<1>7. WindowConserved'
  <2>1. Zero["NoStall"] = 0
    BY DEF Zero
  <2> QED BY <1>2, <1>3, <2>1 DEF WindowConserved, LoopTypeOK
<1>8. MarkersOnce'
  BY <1>2 DEF MarkersOnce, LoopTypeOK
<1>9. DoneMeansDrained'
  <2>1. done' => now' = MaxTick \/ (ongoing' = 0 /\ draining' /\ ~MayRead')
    <3>1. CASE ongoing = 0
      <4>1. draining
        BY <1>2, <3>1 DEF OfferedInFlight, LoopTypeOK
      <4>2. DrainingIsFinal'
        BY <1>6
      <4> QED BY <1>2, <3>1, <4>1, <4>2 DEF DrainingIsFinal
    <3>2. CASE ongoing # 0
      <4>1. done' => now + 1 >= MaxTick
        BY <1>2, <3>2
      <4>2. now + 1 >= MaxTick => now' = MaxTick
        BY <1>3, MaxTickAssumption DEF Inv, TypeOK
      <4> QED BY <4>1, <4>2
    <3> QED BY <3>1, <3>2
  <2>2. /\ dump_cnt' <= 1
        /\ stop_after_dump' <=> dump_cnt' = 1
    BY <1>2 DEF DoneMeansDrained, OpConsumed, LoopTypeOK
  <2> QED BY <2>1, <2>2 DEF DoneMeansDrained
<1> QED BY <1>1, <1>4, <1>5, <1>6, <1>7, <1>8, <1>9

\* Every step of the loop preserves the invariant.
LEMMA LoopNextPreservesLInv == LInv /\ [LoopNext]_<<vars, loopVars>> => LInv'
<1> SUFFICES ASSUME LInv, [LoopNext]_<<vars, loopVars>> PROVE LInv'
  OBVIOUS
<1>1. CASE UNCHANGED <<vars, loopVars>>
  <2>1. Inv'
    BY <1>1, NextKeepsInv DEF LInv
  <2>2. UNCHANGED <<now, bucket, phase>>
    BY <1>1 DEF vars
  <2>3. LoopTypeOK' /\ WindowConserved' /\ MarkersOnce' /\ DoneMeansDrained'
    BY <1>1, <2>2 DEF LInv, LoopTypeOK, WindowConserved, MarkersOnce,
                      DoneMeansDrained, MayRead, loopVars
  <2>4. NothingFedYet' /\ OpConsumed' /\ OfferedInFlight' /\ DrainingIsFinal'
    BY <1>1, <2>2 DEF LInv, NothingFedYet, OpConsumed, OfferedInFlight,
                      DrainingIsFinal, MayRead, loopVars
  <2> QED BY <2>1, <2>3, <2>4 DEF LInv
<1>2. ASSUME NEW op \in SysOps, FeedInst(op) \/ LoopTick(op) PROVE LInv'
  BY <1>2, FeedInstPreservesLInv, LoopTickPreservesLInv
<1> QED BY <1>1, <1>2, LoopCommitPreservesLInv, LoopAccountPreservesLInv,
           TakeBufferedPreservesLInv, StartDrainingPreservesLInv
        DEF LoopNext, Finished

----------------------------------------------------------------------------

\* The inductive invariant of the main loop.
THEOREM LoopInvariance == LoopSpec => []LInv
<1>1. LoopInit => LInv
  BY LoopInitEstablishesLInv
<1>2. LInv /\ [LoopNext]_<<vars, loopVars>> => LInv'
  BY LoopNextPreservesLInv
<1> QED BY <1>1, <1>2, PTL DEF LoopSpec

\* The loop drives the core's cycle accounting only through the calls that
\* StallAttr allows.
THEOREM LoopImplementsStallAttr == LoopSpec => Spec
<1>1. LoopInit => Init
  BY DEF LoopInit
<1>2. [LoopNext]_<<vars, loopVars>> => [Next]_vars
  BY LoopStepIsStallStep
<1> QED BY <1>1, <1>2, PTL DEF LoopSpec, Spec

\* So the breakdown adds up, never runs ahead, and charges every cycle to whom it
\* belongs, in the simulation as a whole.
THEOREM LoopBreakdown ==
    LoopSpec => [](SumIsElapsed /\ NeverAhead /\ ChargedByCycle)
  BY LoopImplementsStallAttr, SumIsElapsedHolds, NeverAheadHolds,
     ChargedByCycleHolds, PTL

\* The counters of a measurement window agree across the core and the
\* sanitizer after any number of resets.
THEOREM WindowConservedHolds == LoopSpec => []WindowConserved
<1>1. LInv => WindowConserved
  BY DEF LInv
<1> QED BY <1>1, LoopInvariance, PTL

\* Every marker of the trace is acted on exactly once.
THEOREM MarkersOnceHolds == LoopSpec => []MarkersOnce
<1>1. LInv => MarkersOnce
  BY DEF LInv
<1> QED BY <1>1, LoopInvariance, PTL

\* The loop is left with the core drained, or at max_ticks, and statistics are
\* dumped at most once before that.
THEOREM DoneMeansDrainedHolds == LoopSpec => []DoneMeansDrained
<1>1. LInv => DoneMeansDrained
  BY DEF LInv
<1> QED BY <1>1, LoopInvariance, PTL
=============================================================================

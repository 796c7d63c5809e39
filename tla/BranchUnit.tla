----------------------------- MODULE BranchUnit ------------------------------
(* The branch unit: direction predictor, branch target buffer with its         *)
(* read/write port conflict, and return address stack, driven by the core:     *)
(* branches are predicted at fetch in program order; after a misprediction the *)
(* fetch stage predicts wrong-path addresses until the branch resolves at      *)
(* Execute; branches resolve in program order.                                 *)
(*                                                                             *)
(* One tick of the core: begin_tick, at most one branch resolves, at most one  *)
(* address is predicted.  A sleeping core still fetches what the main loop     *)
(* feeds it, without begin_tick.                                               *)
EXTENDS Tage, ReturnStack

CONSTANTS
    Modes,          \* configurations: [kind, btb, ras, sram, prog, len]; btb and
                    \* ras say whether the unit has a target buffer (--btb-size
                    \* above 1) and a return stack (--ras-size above 0), prog[i]
                    \* holds the branches the i-th place of a repeated program
                    \* may have, len bounds the branches fetched
    BtbPow2, BtbTagBits,
    WrongPcs,       \* addresses fetched on the wrong path
    LearnTime,      \* branches after which a repeated program is learned
    Window          \* predictions in flight: fetch queue, Fetch and Decode

\* The ring has to be larger than the window (comment on SNAP_RING).
ASSUME WindowAssumption == Window \in 1..(SNAP_RING - 1)

Kinds == {"none", "btfnt", "always", "bimodal", "gshare", "tournament", "tage"}
Branches == [pc : Nat, taken : BOOLEAN, target : Nat, call : BOOLEAN, ret : BOOLEAN]

ASSUME BranchUnitAssumption ==
    /\ {BtbPow2, BtbTagBits} \subseteq Nat /\ WrongPcs \subseteq Nat
    /\ \A m \in Modes : /\ m.kind \in Kinds /\ m.len \in Nat
                        /\ {m.btb, m.ras, m.sram} \subseteq BOOLEAN
                        /\ m.btb = FALSE => m.sram = FALSE
                        \* create_branch_unit
                        /\ m.kind = "none" => m.btb = FALSE /\ m.ras = FALSE
                        /\ Len(m.prog) \in Nat \ {0}
                        /\ \A i \in 1..Len(m.prog) : m.prog[i] \subseteq Branches

VARIABLES
    mode,
    bp, tg, ghr,        \* direction predictor: tables, TAGE tables, history
    btb,                \* table_
    byp,                \* btb_written_this_tick_/_idx_, bypass_valid_/_idx_
    ras,                \* ras_
    inflight,           \* branches predicted and not resolved, oldest first
    wrong, wp,          \* fetch_.wrong_path; wrong-path predictions since
    n,                  \* branches fetched so far
    phase,              \* what the tick may still do
    hist, calls         \* history variables: see HistoryExact and RasExact

vars == <<mode, bp, tg, ghr, btb, byp, ras, inflight, wrong, wp, n, phase,
          hist, calls>>

NoLine == [valid |-> FALSE, tag |-> 0, target |-> 0, type |-> 0]

Init ==
    /\ mode \in Modes
    /\ bp = DirInit
    /\ tg = TageInit
    /\ ghr = 0
    /\ btb = [i \in 0..(2^BtbPow2 - 1) |-> NoLine]
    /\ byp = [written |-> FALSE, widx |-> 0, valid |-> FALSE, idx |-> 0]
    /\ ras = RasInit
    /\ inflight = << >>
    /\ wrong = FALSE
    /\ wp = 0
    /\ n = 0
    /\ phase = "exec"
    /\ hist = 0
    /\ calls = << >>

----------------------------------------------------------------------------
\* The target buffer: index, tag and lookup (0 is a miss, as always in NoBTB).
BtbIdx(pc) == pc % 2^BtbPow2
BtbTag(pc) == (pc \div 2^BtbPow2) % 2^BtbTagBits

lookup(pc) ==
    LET e == btb[BtbIdx(pc)]
    IN  IF mode.btb /\ e.valid /\ e.tag = BtbTag(pc) THEN e.target ELSE 0

HistBits == IF mode.kind = "tage" THEN GhrMaskBits ELSE HistLen

Shifted(g, taken) == (2 * g + Bit(taken)) % 2^HistBits

\* BranchUnit::predict reads a stale row after a write to another one.
PortConflict(pc) == mode.sram /\ byp.valid /\ BtbIdx(pc) # byp.idx

BtbTarget(pc) == IF PortConflict(pc) THEN 0 ELSE lookup(pc)

\* predict(pc): the direction predictor's answer and what it remembers for the
\* update; a return in the buffer takes its target from the stack.  (saw is a
\* history field: what TAGE recorded in the snapshot.)
PredictionFrom(pc, target, saw) ==
    LET tage == mode.kind = "tage"
        dir == IF tage THEN saw.taken ELSE Taken(mode.kind, bp, pc, ghr, target)
        isRet == mode.ras /\ target # 0 /\ btb[BtbIdx(pc)].type = 1 /\ valid(ras)
        taken == isRet \/ dir
        final == IF isRet THEN top(ras) ELSE target
    IN  [taken |-> taken, target |-> final, redirect |-> taken /\ final # 0,
         dir |-> dir, hit |-> target # 0, saw |-> saw,
         cnt |-> IF tage THEN 0 ELSE Counter(mode.kind, bp, pc, ghr),
         snap |-> IF tage THEN tg.wr ELSE ghr]

Prediction(pc) ==
    PredictionFrom(pc, BtbTarget(pc),
                   IF mode.kind = "tage" THEN Snapshot(tg, pc, ghr) ELSE NoSnap)

\* Does the predictor shift its history for this prediction?
Shifts(p) ==
    \/ mode.kind \in HistPredictors
    \/ mode.kind = "tage" /\ p.hit

\* predict(pc): the side effects, on the right path or the wrong one.
Predict(p) ==
    /\ ghr' = IF Shifts(p) THEN Shifted(ghr, p.dir) ELSE ghr
    /\ tg' = IF mode.kind = "tage" THEN TagePredicted(tg, p.saw, p.hit) ELSE tg

\* judge
Accurate(b, p) ==
    IF b.taken /\ p.redirect THEN p.target = b.target ELSE b.taken = p.redirect

\* do_fetch_0 of a branch of the trace: predict_at_fetch and judge.
Fetch(b) ==
    /\ phase \in {"exec", "fetch"}
    /\ ~wrong
    /\ n < mode.len
    /\ Len(inflight) < Window
    /\ \E p \in {Prediction(b.pc)} :
          LET ok == Accurate(b, p)
          IN  /\ Predict(p)
              /\ inflight' = Append(inflight, [b |-> b, pred |-> p, mispred |-> ~ok])
              /\ wrong' = ~ok
              /\ hist' = CASE ~ok             -> Shifted(hist, b.taken)
                           [] ok /\ Shifts(p) -> Shifted(hist, p.dir)
                           [] OTHER           -> hist
    /\ n' = n + 1
    /\ phase' = "idle"
    /\ UNCHANGED <<mode, bp, btb, byp, ras, wp, calls>>

\* do_fetch_0 on the wrong path, while the fetch queue has room.
WrongPath(pc) ==
    /\ phase \in {"exec", "fetch"}
    /\ wrong
    /\ Len(inflight) + wp < Window
    /\ \E p \in {Prediction(pc)} : Predict(p)
    /\ wp' = wp + 1
    /\ phase' = "idle"
    /\ UNCHANGED <<mode, bp, btb, byp, ras, inflight, wrong, n, hist, calls>>

----------------------------------------------------------------------------
\* Mutated form: a wrong prediction without BTB hit leaves the history alone.
RestoredOnHit(p, taken) ==
    IF ~p.hit THEN ghr
    ELSE IF mode.kind = "tage"
    THEN IF SnapKept(tg, p.snap) THEN Shifted(SnapOf(tg, p.snap).ghr, taken) ELSE ghr
    ELSE IF mode.kind \in HistPredictors THEN Shifted(p.snap, taken) ELSE ghr

\* on_mispred: the history seen by the branch plus its real direction.
Restored(p, taken) ==
    CASE mode.kind = "tage" /\ SnapKept(tg, p.snap) ->
            Shifted(SnapOf(tg, p.snap).ghr, taken)
      [] mode.kind \in HistPredictors -> Shifted(p.snap, taken)
      [] OTHER -> ghr

\* update: the predictor is trained unless the branch missed and was not taken.
Train(b, p) ==
    LET hit == p.target # 0
    IN  IF ~(hit \/ b.taken) THEN UNCHANGED <<bp, tg>>
        ELSE IF mode.kind = "tage"
        THEN tg' = TageTrained(tg, b.pc, b.taken, p.snap) /\ UNCHANGED bp
        ELSE /\ bp' = DirTrained(mode.kind, bp, b.pc, b.taken, hit, p.cnt, p.snap)
             /\ UNCHANGED tg

\* update: a taken branch is written to the target buffer; NoBTB has nothing to
\* write, but the unit notes a write all the same.
WriteBtb(b) ==
    IF ~b.taken THEN UNCHANGED <<btb, byp>>
    ELSE IF ~mode.btb
    THEN byp' = [byp EXCEPT !.written = TRUE, !.widx = 0] /\ UNCHANGED btb
    ELSE /\ btb' = [btb EXCEPT ![BtbIdx(b.pc)] =
                      [valid |-> TRUE, tag |-> BtbTag(b.pc), target |-> b.target,
                       type |-> IF b.ret THEN 1 ELSE 0]]
         /\ byp' = [byp EXCEPT !.written = TRUE, !.widx = BtbIdx(b.pc)]

\* update: calls push their return address, returns pop.
Stacked(b) ==
    LET pushed == IF b.call THEN push(ras, b.pc + 1) ELSE ras
    IN  IF b.ret THEN pop(pushed) ELSE pushed

\* The stack a program has, cut to the depth of the ring.
CallStack(b) ==
    LET pushed == IF b.call THEN Append(calls, b.pc + 1) ELSE calls
        kept == IF Len(pushed) > RasDepth THEN Tail(pushed) ELSE pushed
    IN  IF b.ret /\ kept # << >> THEN SubSeq(kept, 1, Len(kept) - 1) ELSE kept

\* do_execute of the oldest branch: update, and the flush of a wrong path.
Resolve ==
    /\ phase = "exec"
    /\ inflight # << >>
    /\ LET e == Head(inflight)
       IN  /\ Train(e.b, e.pred)
           /\ ghr' = IF e.mispred THEN Restored(e.pred, e.b.taken) ELSE ghr
           /\ WriteBtb(e.b)
           /\ ras' = IF mode.ras THEN Stacked(e.b) ELSE ras
           /\ calls' = IF mode.ras THEN CallStack(e.b) ELSE calls
           /\ wrong' = (wrong /\ ~e.mispred)
           /\ wp' = IF e.mispred THEN 0 ELSE wp
    /\ inflight' = Tail(inflight)
    /\ phase' = "fetch"
    /\ UNCHANGED <<mode, n, hist>>

\* The next tick: begin_tick, when the core is awake ...
BeginTick ==
    /\ byp' = [byp EXCEPT !.valid = byp.written, !.idx = byp.widx, !.written = FALSE]
    /\ phase' = "exec"
    /\ UNCHANGED <<mode, bp, tg, ghr, btb, ras, inflight, wrong, wp, n, hist, calls>>

\* ... and not when it sleeps.  Execute wakes the core for the tick after it.
Sleep ==
    /\ phase # "exec"
    /\ ~byp.written
    /\ phase' = "fetch"
    /\ UNCHANGED <<mode, bp, tg, ghr, btb, byp, ras, inflight, wrong, wp, n, hist, calls>>

Next ==
    \/ \E b \in mode.prog[1 + (n % Len(mode.prog))] : Fetch(b)
    \/ \E pc \in WrongPcs : WrongPath(pc)
    \/ Resolve \/ BeginTick \/ Sleep

Spec == Init /\ [][Next]_vars
----------------------------------------------------------------------------
(* Properties. *)

Counters == [Idx -> 0..3]
DirTables == [table : Counters, local : Counters, sel : Counters]
TagEntries == [valid : BOOLEAN, tag : 0..(2^TAG_BITS - 1), ctr : CTR_MIN..CTR_MAX,
               u : 0..U_MAX]
Components == [Comps -> [0..(2^CompPow2 - 1) -> TagEntries]]
Snaps == [valid : BOOLEAN, ghr : Nat, fidx : [Comps -> 0..(2^CompPow2 - 1)],
          ftag : [Comps -> 0..(2^TAG_BITS - 1)], prov : Comps \cup {Base},
          provTaken : BOOLEAN, altTaken : BOOLEAN, bimodal : BOOLEAN,
          taken : BOOLEAN]
Slots == Snaps \cup {NoSnap}
TageTables == [base : Counters, comp : Components, ring : [0..(SNAP_RING - 1) -> Slots],
               wr : Nat, uctr : 0..(U_RESET_PERIOD - 1)]
Rows == 0..(2^BtbPow2 - 1)
Lines == [valid : BOOLEAN, tag : 0..(2^BtbTagBits - 1), target : Nat, type : {0, 1}]
Stacks == [stack : [0..(RasDepth - 1) -> Nat], tos : 0..(RasDepth - 1),
           cnt : 0..RasDepth]
Preds == [taken : BOOLEAN, target : Nat, redirect : BOOLEAN, dir : BOOLEAN,
          hit : BOOLEAN, saw : Slots, cnt : 0..3, snap : Nat]
Fetched == [b : Branches, pred : Preds, mispred : BOOLEAN]

\* Tables keep their sizes and counters their bits: no index, pointer or counter of
\* the predictors leaves its range, and a usefulness counter never passes zero.
TypeOK ==
    /\ mode \in Modes
    /\ bp \in DirTables
    /\ tg \in TageTables
    /\ ghr \in 0..(2^HistBits - 1)
    /\ btb \in [Rows -> Lines]
    /\ byp \in [written : BOOLEAN, widx : Rows, valid : BOOLEAN, idx : Rows]
    /\ ras \in Stacks
    /\ inflight \in Seq(Fetched)
    /\ wrong \in BOOLEAN /\ wp \in Nat /\ n \in Nat
    /\ phase \in {"exec", "fetch", "idle"}
    /\ calls \in Seq(Nat)

\* The predictor's history is that of the right path: whenever the fetch stage
\* is on it, the history holds one bit per branch fetched from the trace (for
\* TAGE per branch in the target buffer or mispredicted), the real direction of
\* those that were mispredicted, and no bit of any wrong-path prediction
\* ("Restore GHR to reflect actual branch history").
HistoryExact == mode.kind \in HistPredictors \cup {"tage"} /\ ~wrong => ghr = hist

\* A snapshot survives until its branch resolves, however many predictions the
\* wrong path adds: update and on_mispred find what this branch's predict wrote.
SnapIntact ==
    mode.kind = "tage" =>
        \A i \in 1..Len(inflight) :
            LET p == inflight[i].pred
            IN  SnapKept(tg, p.snap) /\ SnapOf(tg, p.snap) = p.saw

\* The ring is a stack that forgets its oldest entries: its live part is the
\* innermost return addresses of the calls resolved so far.
RasExact == Live(ras) = calls

Repeats == \A i \in 1..Len(mode.prog) : \E b \in mode.prog[i] : mode.prog[i] = {b}

\* With a target buffer,
\* a program that repeats one branch is learned by every predictor with counters,
\* one whose branch alternates by those with a history: after LearnTime branches
\* the fetch stage is never on the wrong path again, although counters are
\* trained several predictions late and the first mispredictions train them
\* with histories that include one another.
Learns ==
    (/\ mode.kind \in {"gshare", "tournament", "tage"}
                       \cup (IF Len(mode.prog) = 1 THEN {"bimodal"} ELSE {})
     /\ mode.btb
     /\ Repeats
     /\ n > LearnTime)
        => ~wrong
=============================================================================

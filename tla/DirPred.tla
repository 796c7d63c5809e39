------------------------------- MODULE DirPred -------------------------------
(* The direction predictors without tagged tables: always taken, not taken    *)
(* (NoBPU), backward taken (BTFNT), bimodal, gshare and tournament.  A         *)
(* predictor's state is a record; pcs are word addresses (pc >> 2).            *)
EXTENDS Integers

CONSTANTS
    TablePow2,      \* bpu_entries_pow2
    HistLen         \* history_len_

ASSUME DirPredAssumption == TablePow2 \in Nat /\ HistLen \in Nat \ {0}

Idx == 0..(2^TablePow2 - 1)
Weak == [i \in Idx |-> 1]

\* table_ (global_table_), local_table_, selector_table_
DirInit == [table |-> Weak, local |-> Weak, sel |-> Weak]

\* The low w bits of a ^ b.
BitOf(a, k) == (a \div 2^k) % 2
IsXor(x, a, b, w) ==
    \A k \in 0..(w - 1) : BitOf(x, k) = 1 <=> BitOf(a, k) # BitOf(b, k)
Xor(a, b, w) == CHOOSE x \in 0..(2^w - 1) : IsXor(x, a, b, w)

\* BimodalPredictor::index, GSharePredictor::index, local_index, global_index
FoldedPc(pc) == Xor(pc, pc \div 2^TablePow2, TablePow2)
LocalIdx(pc) == pc % 2^TablePow2
GlobalIdx(pc, g) == Xor(pc, g, TablePow2)

HistPredictors == {"gshare", "tournament"}

UseGlobal(bp, pc) == bp.sel[LocalIdx(pc)] >= 2

\* The counter a prediction is read from (bht_cnt).
Counter(kind, bp, pc, g) ==
    CASE kind = "always"  -> 3
      [] kind \in {"none", "btfnt"} -> 0
      [] kind = "bimodal" -> bp.table[FoldedPc(pc)]
      [] kind = "gshare"  -> bp.table[GlobalIdx(pc, g)]
      [] kind = "tournament" ->
            IF UseGlobal(bp, pc) THEN bp.table[GlobalIdx(pc, g)]
                                 ELSE bp.local[LocalIdx(pc)]

\* predict: the direction.
Taken(kind, bp, pc, g, target) ==
    IF kind = "btfnt" THEN target < pc ELSE Counter(kind, bp, pc, g) >= 2

Bit(taken) == IF taken THEN 1 ELSE 0

\* A two-bit saturating counter.
Saturated(cnt, taken) ==
    CASE taken /\ cnt < 3  -> cnt + 1
      [] ~taken /\ cnt > 0 -> cnt - 1
      [] OTHER -> cnt

\* Mutated form: the counter wraps instead of saturating.
TrainedWraps(old, taken, hit) ==
    IF taken /\ ~hit THEN 2 ELSE (IF taken THEN old + 1 ELSE old + 3) % 4

\* BimodalPredictor::update and GSharePredictor::update step the counter they
\* read at prediction time, and write it back whatever happened meanwhile.
Trained(old, taken, hit) ==
    IF taken /\ ~hit THEN 2 ELSE Saturated(old, taken)

\* TournamentPredictor::update steps the counters as they are now.
TournamentTrained(bp, pc, taken, g) ==
    LET l == LocalIdx(pc)
        i == GlobalIdx(pc, g)
        localOk == (bp.local[l] >= 2) = taken
        globalOk == (bp.table[i] >= 2) = taken
    IN  [table |-> [bp.table EXCEPT ![i] = Saturated(@, taken)],
         local |-> [bp.local EXCEPT ![l] = Saturated(@, taken)],
         sel   |-> IF localOk = globalOk THEN bp.sel
                   ELSE [bp.sel EXCEPT ![l] = Saturated(@, globalOk)]]

\* update(pc, taken, btb_hit, old_cnt, old_ghr)
DirTrained(kind, bp, pc, taken, hit, old, g) ==
    CASE kind = "bimodal" ->
            [bp EXCEPT !.table[FoldedPc(pc)] = Trained(old, taken, hit)]
      [] kind = "gshare" ->
            [bp EXCEPT !.table[GlobalIdx(pc, g)] = Trained(old, taken, hit)]
      [] kind = "tournament" -> TournamentTrained(bp, pc, taken, g)
      [] OTHER -> bp
=============================================================================

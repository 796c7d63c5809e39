-------------------------------- MODULE Tage ---------------------------------
(* The TAGE direction predictor (class TagePredictor): a base table of two-bit *)
(* counters, tagged components indexed with ever longer histories, and a ring  *)
(* of snapshots that carries what a prediction saw to its update.  Statistics  *)
(* (on_resolved) are left out.                                                 *)
EXTENDS Integers, Sequences, FiniteSetsExt, DirPred

CONSTANTS
    GhrBits,        \* width of ghr_: 64
    HistLens,       \* hist_len_: sequence of history lengths
    CompPow2,       \* comp_idx_bits_
    CtrBits,        \* width of a signed component counter
    TAG_BITS, U_MAX, U_RESET_PERIOD,
    SNAP_RING       \* slots of snap_ring_

ASSUME TageAssumption ==
    /\ HistLens \in Seq(Nat \ {0}) /\ HistLens # << >>
    /\ {GhrBits, CompPow2, CtrBits, U_MAX, U_RESET_PERIOD, SNAP_RING} \subseteq Nat \ {0}
    /\ TAG_BITS \in Nat \ {0, 1}

CTR_MAX == 2^(CtrBits - 1) - 1
CTR_MIN == -(2^(CtrBits - 1))
Comps == 1..Len(HistLens)
Base == 0           \* provider -1 in the code
NoEntryT == [valid |-> FALSE, tag |-> 0, ctr |-> 0, u |-> 0]
NoSnap == [valid |-> FALSE]

TageInit ==
    [base |-> Weak,
     comp |-> [i \in Comps |-> [x \in 0..(2^CompPow2 - 1) |-> NoEntryT]],
     ring |-> [s \in 0..(SNAP_RING - 1) |-> NoSnap],
     wr   |-> 0,            \* snap_wr_idx_
     uctr |-> 0]            \* u_reset_ctr_

\* ghr_mask_: the bits of ghr_ in use are those of the last component's length,
\* all of them when it is as long as the word or longer.
GhrMaskBits ==
    IF HistLens[Len(HistLens)] < GhrBits THEN HistLens[Len(HistLens)] ELSE GhrBits

\* fold_ghr: bit j of the result is the parity of the history bits whose position
\* is j modulo out, among the low len bits; from the word's last bit on
\* (hist_len >= 63 of 64) the mask is the whole word.
fold_ghr(g, len, out) ==
    LET masked == IF len < GhrBits - 1 THEN len ELSE GhrBits
        bit(k) == (g \div 2^k) % 2
        fold(j) == 2^j * (MapThenSumSet(bit, {k \in 0..(masked - 1) : k % out = j}) % 2)
    IN  MapThenSumSet(fold, 0..(out - 1))

comp_idx(pc, g, i) == Xor(pc, fold_ghr(g, HistLens[i], CompPow2), CompPow2)

comp_tag(pc, g, i) ==
    LET h1 == fold_ghr(g, HistLens[i], TAG_BITS)
        h2 == fold_ghr(g \div 2, IF HistLens[i] > 1 THEN HistLens[i] - 1 ELSE 1,
                       TAG_BITS - 1)
    IN  Xor(Xor(pc, h1, TAG_BITS), 2 * h2, TAG_BITS)

\* predict: provider, alternative and final direction, given the base table's
\* direction and the index and tag of every component.
Provided(tg, g, bimodal, fidx, ftag) ==
    LET ent(i) == tg.comp[i][fidx[i]]
        hits == {i \in Comps : ent(i).valid /\ ent(i).tag = ftag[i]}
        prov == Max(hits \cup {Base})
        alt  == Max((hits \ {prov}) \cup {Base})
        dir(i) == IF i = Base THEN bimodal ELSE ent(i).ctr >= 0
        weak == prov # Base /\ ent(prov).ctr \in {-1, 0} /\ ent(prov).u = 0
    IN  [valid |-> TRUE, ghr |-> g, fidx |-> fidx, ftag |-> ftag,
         prov |-> prov, provTaken |-> dir(prov), altTaken |-> dir(alt),
         bimodal |-> bimodal, taken |-> dir(IF weak THEN alt ELSE prov)]

\* predict: what the slot snap_id % SNAP_RING records.
Snapshot(tg, pc, g) ==
    Provided(tg, g, tg.base[FoldedPc(pc)] >= 2,
             [i \in Comps |-> comp_idx(pc, g, i)],
             [i \in Comps |-> comp_tag(pc, g, i)])

\* Mutated form: a prediction without BTB hit reuses the slot before it.
TagePredictedOnHit(tg, snap, hit) ==
    IF hit THEN [tg EXCEPT !.ring[tg.wr % SNAP_RING] = snap, !.wr = @ + 1]
    ELSE [tg EXCEPT !.ring[tg.wr % SNAP_RING] = snap]

\* predict: the predictor afterwards.
TagePredicted(tg, snap, hit) ==
    [tg EXCEPT !.ring[tg.wr % SNAP_RING] = snap, !.wr = @ + 1]

\* snap_wr_idx_ has not come round to the slot again.
SnapKept(tg, id) == tg.wr - id < SNAP_RING

SnapOf(tg, id) == tg.ring[id % SNAP_RING]

\* update_ctr
update_ctr(ctr, taken) ==
    CASE taken /\ ctr < CTR_MAX  -> ctr + 1
      [] ~taken /\ ctr > CTR_MIN -> ctr - 1
      [] OTHER -> ctr

\* The provider's entry gains or loses usefulness when the alternative disagreed.
update_u(u, s, taken) ==
    LET differ == s.provTaken # s.altTaken
    IN  CASE differ /\ s.provTaken = taken /\ u < U_MAX -> u + 1
          [] differ /\ s.provTaken # taken /\ u > 0     -> u - 1
          [] OTHER -> u

Stepped(e, s, taken) ==
    [e EXCEPT !.ctr = update_ctr(@, taken), !.u = update_u(@, s, taken)]

\* The provider's entry is trained.
ProviderTrained(comp, s, taken) ==
    IF s.prov = Base THEN comp
    ELSE [comp EXCEPT ![s.prov][s.fidx[s.prov]] = Stepped(@, s, taken)]

\* After a wrong final prediction: the shortest longer component whose entry is
\* free or useless takes the branch, else all of them lose usefulness (the code's
\* test that they have some is then always true).
Allocated(comp, s, taken) ==
    LET longer == {i \in Comps : i > s.prov}
        ent(i) == comp[i][s.fidx[i]]
        free == {i \in longer : ~ent(i).valid \/ ent(i).u = 0}
    IN  CASE s.taken = taken -> comp
          [] s.taken # taken /\ free # {} ->
               [comp EXCEPT ![Min(free)][s.fidx[Min(free)]] =
                   [valid |-> TRUE, tag |-> s.ftag[Min(free)],
                    ctr |-> IF taken THEN 0 ELSE -1, u |-> 0]]
          [] OTHER ->
               [i \in Comps |-> IF i \notin longer THEN comp[i]
                   ELSE [comp[i] EXCEPT ![s.fidx[i]].u = @ - 1]]

\* Every U_RESET_PERIOD updates all usefulness counters are halved.
Aged(comp) ==
    [i \in Comps |-> [x \in DOMAIN comp[i] |->
        [comp[i][x] EXCEPT !.u = @ \div 2]]]

\* update
TageTrained(tg, pc, taken, id) ==
    LET s == SnapOf(tg, id)
        comp == Allocated(ProviderTrained(tg.comp, s, taken), s, taken)
        age == tg.uctr + 1 >= U_RESET_PERIOD
    IN  IF ~SnapKept(tg, id) \/ ~s.valid THEN tg
        ELSE [tg EXCEPT
                !.base[FoldedPc(pc)] = Saturated(@, taken),
                !.comp = IF age THEN Aged(comp) ELSE comp,
                !.uctr = IF age THEN 0 ELSE @ + 1,
                !.ring[id % SNAP_RING].valid = FALSE]
=============================================================================

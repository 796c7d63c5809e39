---------------------------- MODULE MCBranchUnit ----------------------------
(* Word addresses.  2 and 6 share a target-buffer row, 3 and 7 a row and a    *)
(* tag.  The mixed program has a conditional branch, two call sites and a     *)
(* return; the others repeat one branch.                                      *)
EXTENDS BranchUnit

Br(pc, taken, target, kind) ==
    [pc |-> pc, taken |-> taken, target |-> IF taken THEN target ELSE 0,
     call |-> kind = "call", ret |-> kind = "ret"]

Mixed == {Br(2, TRUE, 5, "cond"), Br(2, FALSE, 5, "cond"),
          Br(3, TRUE, 6, "call"), Br(7, TRUE, 6, "call"), Br(6, TRUE, 4, "ret")}

\* With target buffer and return stack, unless there is no predictor.
Mode(kind, sram, prog, len) ==
    [kind |-> kind, btb |-> kind # "none", ras |-> kind # "none", sram |-> sram,
     prog |-> prog, len |-> len]

\* The default unit has no return stack; --btb-size 0 or 1 leaves NoBTB.
NoStack(m) == [m EXCEPT !.ras = FALSE]
NoBuffer(m) == [m EXCEPT !.btb = FALSE, !.sram = FALSE]

Cond(t) == {Br(2, t, 5, "cond")}

MCModes ==
    {Mode(k, k \in {"bimodal", "tage"}, <<Mixed>>, 4) :
        k \in {"none", "btfnt", "always", "bimodal", "gshare", "tournament", "tage"}}
    \cup {NoStack(Mode(k, FALSE, <<Mixed>>, 3)) : k \in {"gshare", "tage"}}
    \cup {NoBuffer(Mode(k, FALSE, <<Mixed>>, 3)) : k \in {"always", "tournament", "tage"}}
    \cup {Mode(k, TRUE, p, LearnTime + 4) :
            k \in {"bimodal", "gshare", "tournament", "tage"},
            p \in {<<Cond(TRUE)>>, <<Cond(TRUE), Cond(FALSE)>>}}

MCHistLens == <<1, 3>>
=============================================================================

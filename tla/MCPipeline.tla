----------------------------- MODULE MCPipeline -----------------------------
(* Instances of Pipeline: instruction mixes as [kind, src, dst] records. *)
EXTENDS Pipeline

Inst(k, s, d) == [kind |-> k, src |-> s, dst |-> d]

MCRegs == {0, 1, 2}
OneLat == {2}
TwoLats == {1, 3}

\* Conditional branches and linking jumps.
BranchMix == {Inst("BR", {1}, 0), Inst("BR", {}, 1)}

\* Everything else, on two shared registers; the branch may link nothing.
BackendMix == {Inst("LOAD", {}, 1), Inst("STORE", {1, 2}, 0),
               Inst("MUL", {1}, 2), Inst("DIV", {}, 1), Inst("ALU", {}, 1),
               Inst("BR", {}, 0)}
=============================================================================

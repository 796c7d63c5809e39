----------------------------- MODULE MCPipeCache -----------------------------
(* Instances of the caches on a few blocks: the modes that main.cc builds,   *)
(* and the remaining ones that the constructor allows.                       *)
EXTENDS PipeCache

\* The dCache that main.cc builds, without prefetcher and fence.i.
DCache ==
    [write_back |-> TRUE, cwf |-> FALSE, hit_delay |-> 0, depth |-> 1,
     assoc |-> 2, policy |-> "plru", prefetch |-> "none",
     mops |-> {"Read", "Write"}, flushes |-> FALSE]

\* Also with a deferred hit response, and as a write-through cache.
DataModes == {DCache, [DCache EXCEPT !.hit_delay = 1],
              [DCache EXCEPT !.write_back = FALSE, !.cwf = TRUE]}

PrefetchModes == {[DCache EXCEPT !.prefetch = "nextline"]}

\* fence.i at any tick: the two-stage iCache with a next-line prefetcher, and
\* a direct-mapped dCache whose prefetcher names any block.
FenceModes ==
    {[DCache EXCEPT !.write_back = FALSE, !.hit_delay = 1, !.depth = 2,
                    !.prefetch = "nextline", !.mops = {"Read"},
                    !.flushes = TRUE],
     [DCache EXCEPT !.assoc = 1, !.policy = "rr", !.prefetch = "stride",
                    !.flushes = TRUE]}
=============================================================================

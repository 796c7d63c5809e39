------------------------------ MODULE MCDataPort ------------------------------
(* The uncached port, the StoreBuffer without entries, and two FIFO sizes. *)
EXTENDS DataPort

MCPorts == {NoCache, 0, 1, 3}
=============================================================================

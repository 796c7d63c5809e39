------------------------------ MODULE CachePort ------------------------------
(* What a cache promises the core on its port: every request that it accepts *)
(* is answered exactly once, in the order of acceptance, with the request's  *)
(* own address and kind, and eventually.  Posted requests are answered at    *)
(* once and hold up nothing.                                                 *)
EXTENDS Naturals, Sequences

CONSTANT Reqs   \* the requests the core can make

VARIABLES
    q,          \* accepted requests not yet answered, oldest first
    resp,       \* the response handed to the core by the last step, if any
    posts,      \* the requests that are posted
    depth       \* how many requests the port holds at most

vars == <<q, resp, posts, depth>>

Init == q = <<>> /\ resp = <<>> /\ posts \subseteq Reqs /\ depth \in Nat

Accept(r) ==
    /\ r \notin posts
    /\ Len(q) < depth
    /\ q' = Append(q, r)
    /\ resp' = <<>>
    /\ UNCHANGED <<posts, depth>>

Post(r) ==
    /\ r \in posts
    /\ resp' = <<r>>
    /\ UNCHANGED <<q, posts, depth>>

Respond ==
    /\ q # <<>>
    /\ resp' = <<Head(q)>>
    /\ q' = Tail(q)
    /\ UNCHANGED <<posts, depth>>

Idle == resp' = <<>> /\ UNCHANGED <<q, posts, depth>>

Next == (\E r \in Reqs : Accept(r) \/ Post(r)) \/ Respond \/ Idle

Spec == Init /\ [][Next]_vars /\ WF_vars(Respond)
=============================================================================

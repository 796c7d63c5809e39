------------------------------ MODULE ReplSet ------------------------------
(* One set of a cache under each of the four replacement policies, driven by *)
(* any sequence of hits, fills and flushes.  A tick touches the set once, or *)
(* twice when the prefetcher fills a line behind the hit of another.  (The    *)
(* hit of a write-through store is left out: main.cc builds no such cache.)  *)
EXTENDS ReplPolicy, Sequences, FiniteSets

CONSTANTS Assoc,        \* assoc_
          MaxTick       \* bound on the clock

ASSUME AssocAssumption == Assoc \in {1, 2, 4} /\ MaxTick \in Nat

Ways == 0..(Assoc - 1)
Policies == {"plru", "lru", "srrip", "rr"}

VARIABLES
    policy, \* the command-line choice
    lag,    \* victim_way_lag_
    valid,  \* the ways that hold a line
    stamp,  \* CacheLine::stamp
    mem,    \* the tree bits or the pointer
    now,    \* curr_tick()
    fresh,  \* the way hit in this tick, if nothing was touched since
    order,  \* history: the lines present, least recently touched first
    reused, \* history: ways hit since they were filled
    twins,  \* history: a line hit and the line prefetched behind it in the
            \* same tick, as long as neither is touched again
    run     \* history: ways evicted by the latest fills with no hit between

vars == <<policy, lag, valid, stamp, mem, now, fresh, order, reused, twins, run>>

Init ==
    /\ policy \in Policies
    /\ lag \in BOOLEAN
    /\ valid = {}
    /\ stamp = [w \in Ways |-> 0]
    /\ mem = 0
    /\ now = 1
    /\ fresh = {}
    /\ order = <<>>
    /\ reused = {}
    /\ twins = {}
    /\ run = <<>>

FirstWay(S) == CHOOSE w \in S : \A v \in S : w <= v

\* The history without way w, and after w was touched.
Without(w) ==
    IF \E i \in 1..Len(order) : order[i] = w
    THEN LET p == CHOOSE i \in 1..Len(order) : order[i] = w
         IN  [i \in 1..(Len(order) - 1) |-> order[IF i < p THEN i ELSE i + 1]]
    ELSE order
Touched(w) == Append(Without(w), w)

\* The pairs that a touch of w leaves.
Untouched(w) == {p \in twins : p[1] # w /\ p[2] # w}

\* Mutated forms: the comparison is the other way round.
LruVictimNewest == FirstWay({w \in Ways : \A v \in Ways : stamp[w] >= stamp[v]})
SrripVictimNearest == FirstWay({w \in Ways : \A v \in Ways : stamp[w] <= stamp[v]})

\* LRUReplPolicy::getVictim and SRRIPReplPolicy::getVictim
lru_victim == FirstWay({w \in Ways : \A v \in Ways : stamp[w] <= stamp[v]})
srrip_victim == FirstWay({w \in Ways : \A v \in Ways : stamp[w] >= stamp[v]})

Victim == CASE policy = "lru" -> lru_victim
            [] policy = "srrip" -> srrip_victim
            [] OTHER -> getVictim(policy, Assoc, mem)

Full == valid = Ways

\* select_victim
select_victim == IF Full THEN Victim ELSE FirstWay(Ways \ valid)

\* access finds the line in way w, onHit: SRRIP writes 0, LRU the tick; the
\* others keep their own memory.
Hit(w) ==
    /\ now < MaxTick
    /\ w \in valid
    /\ now' = now + 1
    /\ stamp' = [stamp EXCEPT ![w] = CASE policy = "srrip" -> 0
                                       [] policy = "lru" -> now + 1
                                       [] OTHER -> @]
    /\ mem' = onHit(policy, Assoc, mem, w)
    /\ fresh' = {w}
    /\ order' = Touched(w)
    /\ reused' = reused \cup {w}
    /\ twins' = Untouched(w)
    /\ run' = <<>>
    /\ UNCHANGED <<policy, lag, valid>>

\* A line is put into way w and stamped with tick t: activate, then onFill.
Install(w, t) ==
    /\ valid' = valid \cup {w}
    /\ stamp' = [stamp EXCEPT ![w] = IF policy = "srrip" THEN 2 ELSE t]
    /\ mem' = onFill(policy, Assoc, mem, w)
    /\ fresh' = {}
    /\ order' = Touched(w)
    /\ reused' = reused \ {w}
    /\ UNCHANGED <<policy, lag>>

\* A refill, in a tick of its own (a prefetch behind the hit of another set is
\* such a fill of this one).  With victim_way_lag_ the way is the victim of the
\* set accessed before, which may be any way of this one.
Fill(w) ==
    /\ now < MaxTick
    /\ lag \/ w = select_victim
    /\ now' = now + 1
    /\ Install(w, now + 1)
    /\ twins' = Untouched(w)
    /\ run' = IF ~Full \/ lag THEN <<>>
              ELSE IF Len(run) < Assoc THEN Append(run, w)
              ELSE Append(Tail(run), w)

\* handle_prefetch behind the hit of this set, in the hit's tick, always into
\* this set's own victim.  Its eviction counts for no burst.
Prefetch ==
    /\ fresh # {}
    /\ now' = now
    /\ Install(select_victim, now)
    /\ twins' = Untouched(select_victim) \cup ((fresh \ {select_victim}) \X {select_victim})
    /\ run' = <<>>

\* handle_flush invalidates every line; the policy keeps its memory.
Flush ==
    /\ now < MaxTick
    /\ valid # {}
    /\ now' = now + 1
    /\ valid' = {}
    /\ stamp' = [w \in Ways |-> 0]
    /\ fresh' = {}
    /\ order' = <<>>
    /\ reused' = {}
    /\ twins' = {}
    /\ run' = <<>>
    /\ UNCHANGED <<policy, lag, mem>>

Next == (\E w \in Ways : Hit(w) \/ Fill(w)) \/ Prefetch \/ Flush
Spec == Init /\ [][Next]_vars
----------------------------------------------------------------------------
(* Properties. *)

\* PLRU and LRU never evict the line touched last, whatever bits a flush left
\* behind and wherever a lagging way put the others.  The one exception: in a
\* set of two ways under LRU, a line prefetched in the tick of the other's hit
\* has the same stamp, and the lower way goes.
RecentSpared ==
    policy \in {"plru", "lru"} /\ Full /\ Assoc > 1 =>
        \/ Victim # order[Len(order)]
        \/ policy = "lru" /\ Assoc = 2 /\ <<order[1], order[2]>> \in twins

\* LRU evicts the least recently touched line, or the line prefetched behind it
\* in the very tick of its last hit: the two stamps are equal.
LruExact ==
    policy = "lru" /\ Full => Victim = order[1] \/ <<order[1], Victim>> \in twins

\* SRRIP evicts a line that was hit since its fill only when every line was.
ReusedSpared ==
    policy = "srrip" /\ Full /\ reused # Ways => Victim \notin reused

\* Where the way of a miss is the set's own victim, a burst of Assoc fills with
\* no hit between replaces every way once, so that no line of the old contents
\* survives it.
BurstReplacesAll ==
    policy # "srrip" /\ ~lag /\ Len(run) = Assoc =>
        {run[i] : i \in 1..Assoc} = Ways
=============================================================================

---------------------------- MODULE ReplSet_proofs ----------------------------
(* The replacement policies for every associativity PLRU supports and any     *)
(* number of hits, fills, prefetches and flushes: what each of them spares,   *)
(* and that a burst of misses replaces the whole set.                         *)
EXTENDS ReplSet, FiniteSetTheorems, SequenceTheorems, TLAPS

----------------------------------------------------------------------------
(* The inductive invariant, one named part per argument. *)

\* Types; only lines that are present count as reused, and a burst is no
\* longer than the set.
Typed ==
    /\ policy \in Policies
    /\ valid \in SUBSET Ways
    /\ stamp \in [Ways -> Nat]
    /\ mem \in Nat
    /\ now \in Nat
    /\ fresh \in SUBSET Ways
    /\ order \in Seq(Ways)
    /\ reused \in SUBSET valid
    /\ run \in Seq(Ways)
    /\ Len(run) <= Assoc

\* The history lists the lines that are present, each once.
HistoryOK ==
    /\ \A i \in 1..Len(order) : order[i] \in valid
    /\ \A w \in valid : \E i \in 1..Len(order) : order[i] = w
    /\ \A i, j \in 1..Len(order) : order[i] = order[j] => i = j
    /\ Len(order) = Cardinality(valid)

\* LRU: the stamps do not decrease along the history, none is in the future, and
\* two are equal only for a line hit and the line prefetched behind it.
StampsInOrder ==
    policy = "lru" =>
        /\ \A w \in Ways : stamp[w] <= now
        /\ \A i, j \in 1..Len(order) : i < j =>
              \/ stamp[order[i]] < stamp[order[j]]
              \/ stamp[order[i]] = stamp[order[j]] /\ <<order[i], order[j]>> \in twins

\* The line hit in this tick is the last of the history, has the tick for its
\* LRU stamp and belongs to no pair yet.
FreshIsLast ==
    \A h \in fresh :
        /\ Len(order) > 0 /\ h = order[Len(order)]
        /\ policy = "lru" => stamp[h] = now
        /\ \A v \in Ways : <<h, v>> \notin twins /\ <<v, h>> \notin twins

\* One prefetch follows a hit.
TwinsApart ==
    \A a, b, c \in Ways : <<a, b>> \in twins /\ <<a, c>> \in twins => b = c

\* PLRU: the bits point away from the line touched last.
BitsPointAway ==
    policy = "plru" /\ Len(order) > 0 /\ Assoc > 1 =>
        victim_way(Assoc, mem) # order[Len(order)]

\* SRRIP: a line that is present has the distance of its last hit or fill.
Distances ==
    policy = "srrip" =>
        \A w \in valid : stamp[w] = (IF w \in reused THEN 0 ELSE 2)

\* A burst happens in a full set.
BurstWhenFull == Len(run) > 0 => Full

\* No line filled in a burst belongs to a pair.
BurstUntwinned ==
    \A i \in 1..Len(run) : \A v \in Ways :
        <<run[i], v>> \notin twins /\ <<v, run[i]>> \notin twins

\* LRU: the burst is the end of the history.
LruBurst ==
    policy = "lru" =>
        /\ Len(run) <= Len(order)
        /\ \A i \in 1..Len(run) : run[i] = order[Len(order) - Len(run) + i]

\* Round robin: the burst is what the pointer has just passed.
RrBurst ==
    policy = "rr" =>
        \A i \in 1..Len(run) : (run[i] + Len(run) + 1 - i) % Assoc = mem % Assoc

\* The bit that selects within way w's half, and the half itself.
HalfBit(b, w) == IF w \div 2 = 1 THEN (b \div 4) % 2 ELSE (b \div 2) % 2
Half(w) == w \div 2

\* PLRU: the last two evictions lie in different halves and both their bits
\* point away from them; the two before lie beside them.
PlruBurst ==
    LET n == Len(run)
    IN  policy = "plru" =>
        /\ Assoc = 2 =>
            /\ n >= 1 => mem % 2 = run[n]
            /\ n >= 2 => run[n - 1] # run[n]
        /\ Assoc = 4 =>
            /\ n >= 1 => mem % 2 = Half(run[n]) /\ HalfBit(mem, run[n]) = run[n] % 2
            /\ n >= 2 => /\ Half(run[n - 1]) # Half(run[n])
                         /\ HalfBit(mem, run[n - 1]) = run[n - 1] % 2
            /\ n >= 3 => Half(run[n - 2]) = Half(run[n]) /\ run[n - 2] # run[n]
            /\ n >= 4 => Half(run[n - 3]) = Half(run[n - 1]) /\ run[n - 3] # run[n - 1]

ReplInv ==
    /\ Typed /\ HistoryOK /\ StampsInOrder /\ FreshIsLast /\ TwinsApart
    /\ BitsPointAway /\ Distances
    /\ BurstWhenFull /\ BurstUntwinned /\ LruBurst /\ RrBurst /\ PlruBurst

----------------------------------------------------------------------------
(* Operators. *)

\* The ways, and how many there are.
LEMMA WaysFacts ==
    /\ Assoc \in Nat \ {0} /\ Ways \subseteq Nat /\ Ways # {}
    /\ IsFiniteSet(Ways) /\ Cardinality(Ways) = Assoc
    /\ Assoc = 1 => Ways = {0}
    /\ Assoc = 2 => Ways = {0, 1}
    /\ Assoc = 4 => Ways = {0, 1, 2, 3}
<1>1. Assoc \in Nat \ {0} /\ Assoc - 1 \in Int
  BY AssocAssumption
<1>2. IsFiniteSet(Ways) /\ Cardinality(Ways) = Assoc
  BY <1>1, FS_Interval DEF Ways
<1> QED BY <1>1, <1>2, AssocAssumption DEF Ways

\* FirstWay finds the least way of a non-empty set.
LEMMA FirstWayFacts ==
    ASSUME NEW S \in SUBSET Ways, S # {}
    PROVE  FirstWay(S) \in S
<1>1. S \subseteq {0, 1, 2, 3}
  BY WaysFacts, AssocAssumption
<1> DEFINE least == IF 0 \in S THEN 0 ELSE IF 1 \in S THEN 1 ELSE IF 2 \in S THEN 2 ELSE 3
<1>2. least \in S
  BY <1>1
<1>3. \A v \in S : least <= v
  <2>1. \A v \in S : v \in {0, 1, 2, 3}
    BY <1>1
  <2> QED BY <2>1
<1> QED BY <1>2, <1>3 DEF FirstWay

\* Some way has the least value of a function on the ways, some the greatest.
LEMMA Extremes ==
    ASSUME NEW f \in [Ways -> Nat]
    PROVE  /\ \E w \in Ways : \A v \in Ways : f[w] <= f[v]
           /\ \E w \in Ways : \A v \in Ways : f[w] >= f[v]
<1>1. CASE Assoc = 1
  BY <1>1, WaysFacts
<1>2. CASE Assoc = 2
  BY <1>2, WaysFacts
<1>3. CASE Assoc = 4
  <2>1. Ways = {0, 1, 2, 3} /\ f[0] \in Nat /\ f[1] \in Nat /\ f[2] \in Nat /\ f[3] \in Nat
    BY <1>3, WaysFacts
  <2> QED BY <2>1
<1> QED BY <1>1, <1>2, <1>3, AssocAssumption

\* The victim of LRU has a least stamp, that of SRRIP a greatest.
LEMMA StampVictims ==
    ASSUME stamp \in [Ways -> Nat]
    PROVE  /\ lru_victim \in Ways /\ \A v \in Ways : stamp[lru_victim] <= stamp[v]
           /\ srrip_victim \in Ways /\ \A v \in Ways : stamp[srrip_victim] >= stamp[v]
<1> DEFINE L == {w \in Ways : \A v \in Ways : stamp[w] <= stamp[v]}
           G == {w \in Ways : \A v \in Ways : stamp[w] >= stamp[v]}
<1>1. L # {} /\ G # {}
  BY Extremes
<1>2. FirstWay(L) \in L /\ FirstWay(G) \in G
  BY <1>1, FirstWayFacts
<1> QED BY <1>2 DEF lru_victim, srrip_victim

\* victim_way is a way, and after update_bits(b, w) it is not w.
LEMMA TreeBits ==
    ASSUME NEW b \in Nat, NEW w \in Ways
    PROVE  /\ victim_way(Assoc, b) \in Ways
           /\ update_bits(Assoc, b, w) \in Nat
           /\ Assoc > 1 => victim_way(Assoc, update_bits(Assoc, b, w)) # w
<1>1. CASE Assoc = 1
  BY <1>1, WaysFacts DEF victim_way, update_bits
<1>2. CASE Assoc = 2
  BY <1>2, WaysFacts DEF victim_way, update_bits
<1>3. CASE Assoc = 4
  <2> DEFINE b1 == (b \div 2) % 2
             b2 == (b \div 4) % 2
  <2>1. b1 \in {0, 1} /\ b2 \in {0, 1}
    OBVIOUS
  <2>2. victim_way(Assoc, b) \in Ways
    BY <1>3, WaysFacts DEF victim_way
  <2>3. w \in {0, 1, 2, 3}
    BY <1>3, WaysFacts
  <2>4. update_bits(Assoc, b, w) =
          ((w \div 2) % 2) + 2 * (IF (w \div 2) % 2 = 1 THEN b1 ELSE w % 2)
                         + 4 * (IF (w \div 2) % 2 = 1 THEN w % 2 ELSE b2)
    BY <1>3 DEF update_bits
  <2> HIDE DEF b1, b2
  <2>5. update_bits(Assoc, b, w) \in 0..7
    BY <2>1, <2>3, <2>4
  <2>6. victim_way(Assoc, update_bits(Assoc, b, w)) # w
    <3>1. CASE w = 0
      BY <1>3, <2>1, <2>4, <3>1 DEF victim_way
    <3>2. CASE w = 1
      BY <1>3, <2>1, <2>4, <3>2 DEF victim_way
    <3>3. CASE w = 2
      BY <1>3, <2>1, <2>4, <3>3 DEF victim_way
    <3>4. CASE w = 3
      BY <1>3, <2>1, <2>4, <3>4 DEF victim_way
    <3> QED BY <2>3, <3>1, <3>2, <3>3, <3>4
  <2> QED BY <2>2, <2>5, <2>6
<1> QED BY <1>1, <1>2, <1>3, AssocAssumption

\* The victim is a way.
LEMMA VictimType == ASSUME Typed PROVE Victim \in Ways /\ select_victim \in Ways
<1>1. mem % Assoc \in Ways
  BY WaysFacts, AssocAssumption DEF Typed, Ways
<1>2. 0 \in Ways
  BY AssocAssumption DEF Ways
<1>3. victim_way(Assoc, mem) \in Ways
  BY <1>2, TreeBits DEF Typed
<1>4. Victim \in Ways
  BY <1>1, <1>3, StampVictims DEF Victim, getVictim, Typed
<1>5. ~Full => FirstWay(Ways \ valid) \in Ways
  BY FirstWayFacts DEF Full, Typed
<1> QED BY <1>4, <1>5 DEF select_victim

----------------------------------------------------------------------------
(* The histories. *)

\* t is the history with place p taken out, where w was if it was present.
Moved(t, w, p) ==
    /\ p \in 1..(Len(order) + 1)
    /\ w \in valid => p <= Len(order) /\ order[p] = w
    /\ w \notin valid => p = Len(order) + 1
    /\ \A i \in 1..(Len(t) - 1) : t[i] = order[IF i < p THEN i ELSE i + 1]

\* Touched(w) moves w to the end and keeps the rest in order.
LEMMA TouchedFacts ==
    ASSUME Typed, HistoryOK, NEW w \in Ways
    PROVE  LET t == Touched(w) IN
           /\ t \in Seq(Ways) /\ Len(t) > 0 /\ t[Len(t)] = w
           /\ Len(t) = IF w \in valid THEN Len(order) ELSE Len(order) + 1
           /\ \E p \in Nat : Moved(t, w, p)
<1>t. order \in Seq(Ways) /\ Len(order) \in Nat
  BY DEF Typed
<1>1. CASE w \in valid
  <2> DEFINE p == CHOOSE i \in 1..Len(order) : order[i] = w
             r == [i \in 1..(Len(order) - 1) |-> order[IF i < p THEN i ELSE i + 1]]
  <2>1. \E i \in 1..Len(order) : order[i] = w
    BY <1>1 DEF HistoryOK
  <2>2. p \in 1..Len(order) /\ order[p] = w
    BY <2>1
  <2>3. Touched(w) = Append(r, w)
    BY <2>1 DEF Touched, Without
  <2> HIDE DEF p
  <2>4. r \in Seq(Ways) /\ Len(r) = Len(order) - 1
    <3>1. Len(order) - 1 \in Nat
      BY <1>t, <2>2
    <3>2. ASSUME NEW i \in 1..(Len(order) - 1)
          PROVE  order[IF i < p THEN i ELSE i + 1] \in Ways
      BY <1>t, <2>2
    <3>3. r \in [1..(Len(order) - 1) -> Ways]
      BY <3>2
    <3> QED BY <3>1, <3>3
  <2>5. \A i \in 1..(Len(order) - 1) : r[i] = order[IF i < p THEN i ELSE i + 1]
    OBVIOUS
  <2> HIDE DEF r
  <2>6. /\ Touched(w) \in Seq(Ways) /\ Len(Touched(w)) = Len(order)
        /\ Touched(w)[Len(order)] = w
        /\ \A i \in 1..(Len(order) - 1) : Touched(w)[i] = r[i]
    BY <1>t, <2>2, <2>3, <2>4
  <2>7. Moved(Touched(w), w, p)
    BY <1>1, <1>t, <2>2, <2>5, <2>6 DEF Moved
  <2> QED BY <1>1, <1>t, <2>2, <2>6, <2>7
<1>2. CASE w \notin valid
  <2>1. Touched(w) = Append(order, w)
    BY <1>2 DEF HistoryOK, Touched, Without
  <2>2. /\ Touched(w) \in Seq(Ways) /\ Len(Touched(w)) = Len(order) + 1
        /\ Touched(w)[Len(order) + 1] = w
        /\ \A i \in 1..Len(order) : Touched(w)[i] = order[i]
    BY <1>t, <2>1
  <2>3. \A i \in 1..((Len(order) + 1) - 1) : i < Len(order) + 1
    BY <1>t
  <2>4. Len(order) + 1 \in 1..(Len(order) + 1)
    BY <1>t
  <2>5. Moved(Touched(w), w, Len(order) + 1)
    BY <1>2, <1>t, <2>2, <2>3, <2>4 DEF Moved
  <2> QED BY <1>2, <1>t, <2>2, <2>5
<1> QED BY <1>1, <1>2

\* A touch keeps the history exact.
LEMMA TouchHistory ==
    ASSUME Typed, HistoryOK, NEW w \in Ways,
           valid' = valid \cup {w}, order' = Touched(w)
    PROVE  HistoryOK' /\ order' \in Seq(Ways) /\ Len(order') > 0 /\ order'[Len(order')] = w
<1>t. order \in Seq(Ways) /\ Len(order) \in Nat /\ valid \subseteq Ways
  BY DEF Typed
<1>1. /\ order' \in Seq(Ways) /\ Len(order') > 0 /\ order'[Len(order')] = w
      /\ Len(order') = IF w \in valid THEN Len(order) ELSE Len(order) + 1
  BY TouchedFacts
<1>m. PICK p \in Nat : Moved(order', w, p)
  BY TouchedFacts
<1>2. /\ p \in 1..(Len(order) + 1)
      /\ w \in valid => p <= Len(order) /\ order[p] = w
      /\ w \notin valid => p = Len(order) + 1
      /\ \A i \in 1..(Len(order') - 1) : order'[i] = order[IF i < p THEN i ELSE i + 1]
  BY <1>m DEF Moved
<1> DEFINE From(i) == IF i < p THEN i ELSE i + 1
<1>3. ASSUME NEW i \in 1..(Len(order') - 1)
      PROVE  /\ From(i) \in 1..Len(order) /\ From(i) # p /\ order'[i] = order[From(i)]
             /\ order'[i] \in valid /\ order'[i] # w
  <2>1. From(i) \in 1..Len(order) /\ From(i) # p
    BY <1>t, <1>1, <1>2
  <2>2. order'[i] = order[From(i)]
    BY <1>2
  <2> HIDE DEF From
  <2>3. order[From(i)] \in valid
    BY <2>1 DEF HistoryOK
  <2>4. order[From(i)] # w
    <3>1. CASE w \in valid
      BY <1>2, <2>1, <3>1 DEF HistoryOK
    <3>2. CASE w \notin valid
      BY <2>3, <3>2
    <3> QED BY <3>1, <3>2
  <2> QED BY <2>1, <2>2, <2>3, <2>4
<1>4. \A i \in 1..Len(order') : order'[i] \in valid'
  <2>1. \A i \in 1..Len(order') : i = Len(order') \/ i \in 1..(Len(order') - 1)
    BY <1>1
  <2> QED BY <1>1, <1>3, <2>1
<1>5. \A i, j \in 1..(Len(order') - 1) : From(i) = From(j) => i = j
  BY <1>2, <1>t, <1>1
<1> HIDE DEF From
<1>6. ASSUME NEW i \in 1..Len(order'), NEW j \in 1..Len(order'), order'[i] = order'[j]
      PROVE  i = j
  <2>1. \A k \in 1..Len(order') : k = Len(order') \/ k \in 1..(Len(order') - 1)
    BY <1>1
  <2>2. CASE i \in 1..(Len(order') - 1) /\ j \in 1..(Len(order') - 1)
    <3>1. order[From(i)] = order[From(j)]
      BY <1>3, <1>6, <2>2
    <3>2. From(i) \in 1..Len(order) /\ From(j) \in 1..Len(order)
      BY <1>3, <2>2
    <3>3. From(i) = From(j)
      BY <3>1, <3>2 DEF HistoryOK
    <3> QED BY <1>5, <2>2, <3>3
  <2>3. CASE i = Len(order') \/ j = Len(order')
    BY <1>1, <1>3, <1>6, <2>1, <2>3
  <2> QED BY <2>1, <2>2, <2>3
<1>7. ASSUME NEW v \in valid' PROVE \E i \in 1..Len(order') : order'[i] = v
  <2>1. CASE v = w
    BY <1>1, <2>1
  <2>2. CASE v # w
    <3>1. PICK k \in 1..Len(order) : order[k] = v
      BY <2>2 DEF HistoryOK
    <3> DEFINE i == IF k < p THEN k ELSE k - 1
    <3>2. k # p
      BY <1>2, <2>2, <3>1, <1>t
    <3>3. i \in 1..(Len(order') - 1) /\ From(i) = k
      BY <1>1, <1>2, <1>t, <3>2 DEF From
    <3>4. order'[i] = v /\ i \in 1..Len(order')
      BY <1>1, <1>3, <3>1, <3>3
    <3> QED BY <3>4
  <2> QED BY <2>1, <2>2
<1>8. Len(order') = Cardinality(valid')
  <2>1. IsFiniteSet(valid)
    BY <1>t, WaysFacts, FS_Subset
  <2>2. Cardinality(valid \cup {w}) =
          IF w \in valid THEN Cardinality(valid) ELSE Cardinality(valid) + 1
    BY <2>1, FS_AddElement
  <2> QED BY <1>1, <2>2 DEF HistoryOK
<1> QED BY <1>1, <1>4, <1>6, <1>7, <1>8 DEF HistoryOK

\* A full set has a history of Assoc lines.
LEMMA FullHistory == ASSUME HistoryOK, Full PROVE Len(order) = Assoc
BY WaysFacts DEF HistoryOK, Full

\* A touch of w keeps the pairs of other lines.
LEMMA UntouchedFacts ==
    ASSUME NEW w, NEW a, NEW b
    PROVE  <<a, b>> \in Untouched(w) <=> <<a, b>> \in twins /\ a # w /\ b # w
BY DEF Untouched

\* LRU: a touched way gets the newest stamp, shared with no other line but the
\* one it is then paired with.
LEMMA TouchStamps ==
    ASSUME Typed, HistoryOK, StampsInOrder, NEW w \in Ways, policy = "lru",
           order' = Touched(w), stamp' = [stamp EXCEPT ![w] = now'],
           now' \in Nat, now <= now', valid' = valid \cup {w},
           \A a, b \in Ways : <<a, b>> \in Untouched(w) => <<a, b>> \in twins',
           \A v \in valid : v # w => \/ stamp[v] < now'
                                     \/ stamp[v] = now' /\ <<v, w>> \in twins'
    PROVE  StampsInOrder'
<1>t. /\ order \in Seq(Ways) /\ Len(order) \in Nat /\ stamp \in [Ways -> Nat] /\ now \in Nat
      /\ \A v \in Ways : stamp[v] \in Nat
  BY DEF Typed
<1>1. \A v \in Ways : stamp'[v] = IF v = w THEN now' ELSE stamp[v]
  BY <1>t
<1>2. \A v \in Ways : stamp'[v] <= now'
  BY <1>1, <1>t DEF StampsInOrder
<1>3. /\ order' \in Seq(Ways) /\ Len(order') > 0 /\ order'[Len(order')] = w
      /\ Len(order') = IF w \in valid THEN Len(order) ELSE Len(order) + 1
  BY TouchedFacts
<1>m. PICK p \in Nat : Moved(order', w, p)
  BY TouchedFacts
<1>4. /\ p \in 1..(Len(order) + 1)
      /\ w \in valid => p <= Len(order) /\ order[p] = w
      /\ w \notin valid => p = Len(order) + 1
      /\ \A i \in 1..(Len(order') - 1) : order'[i] = order[IF i < p THEN i ELSE i + 1]
  BY <1>m DEF Moved
<1>h. \A k, l \in 1..Len(order') : order'[k] = order'[l] => k = l
  BY TouchHistory DEF HistoryOK
<1>n. /\ Len(order') \in Nat /\ Len(order') \in {Len(order), Len(order) + 1}
      /\ Len(order') = Len(order) + 1 => p = Len(order) + 1
  BY <1>3, <1>4, <1>t
<1>5. ASSUME NEW i \in 1..Len(order'), NEW j \in 1..Len(order'), i < j
      PROVE  \/ stamp'[order'[i]] < stamp'[order'[j]]
             \/ /\ stamp'[order'[i]] = stamp'[order'[j]]
                /\ <<order'[i], order'[j]>> \in twins'
  <2>1. i \in 1..(Len(order') - 1) /\ order'[i] \in Ways /\ order'[j] \in Ways
    BY <1>3, <1>5
  <2>2. order'[i] # w
    <3>1. Len(order') \in 1..Len(order') /\ i # Len(order')
      BY <1>3, <1>5
    <3> QED BY <1>3, <1>h, <3>1
  <2>v. order'[i] \in valid
    <3>1. HistoryOK'
      BY TouchHistory
    <3> QED BY <2>1, <2>2, <3>1 DEF HistoryOK
  <2>3. CASE j = Len(order')
    <3>1. order'[j] = w /\ stamp'[order'[j]] = now' /\ stamp'[order'[i]] = stamp[order'[i]]
      BY <1>1, <1>3, <2>1, <2>2, <2>3
    <3> QED BY <2>2, <2>v, <3>1
  <2>4. CASE j # Len(order')
    <3> DEFINE a == IF i < p THEN i ELSE i + 1
               b == IF j < p THEN j ELSE j + 1
    <3>1. j \in 1..(Len(order') - 1)
      BY <1>3, <2>4
    <3>2. order'[i] = order[a] /\ order'[j] = order[b]
      BY <1>4, <2>1, <3>1
    <3>3. a \in 1..Len(order) /\ b \in 1..Len(order) /\ a < b
      <4> DEFINE n == Len(order)
                 m == Len(order')
      <4>1. /\ n \in Nat /\ m \in {n, n + 1} /\ p \in Nat /\ (m = n + 1 => p = n + 1)
            /\ i \in 1..(m - 1) /\ j \in 1..(m - 1) /\ i < j
        BY <1>n, <1>m, <1>5, <1>t, <2>1, <3>1
      <4>2. a \in 1..n /\ b \in 1..n /\ a < b
        <5> HIDE DEF n, m
        <5> QED BY ONLY <4>1
      <4> QED BY <4>2
    <3> HIDE DEF a, b
    <3>4. order'[j] # w
      <4>1. Len(order') \in 1..Len(order')
        BY <1>3
      <4> QED BY <1>3, <1>h, <2>4, <4>1
    <3>5. \/ stamp[order[a]] < stamp[order[b]]
          \/ stamp[order[a]] = stamp[order[b]] /\ <<order[a], order[b]>> \in twins
      BY <3>3 DEF StampsInOrder
    <3>6. <<order'[i], order'[j]>> \in twins => <<order'[i], order'[j]>> \in twins'
      BY <2>1, <2>2, <3>4, UntouchedFacts
    <3> QED BY <1>1, <2>1, <2>2, <3>2, <3>4, <3>5, <3>6
  <2> QED BY <2>3, <2>4
<1> QED BY <1>2, <1>5 DEF StampsInOrder

----------------------------------------------------------------------------
(* What the invariant says of the victim. *)

\* LRU's victim is the oldest line of the history, or was prefetched behind it;
\* no stamp is less than its.
LEMMA LruOldest ==
    ASSUME Typed, HistoryOK, StampsInOrder, Full, policy = "lru"
    PROVE  /\ Len(order) = Assoc /\ Victim \in Ways
           /\ \A v \in Ways : stamp[v] \in Nat /\ stamp[Victim] <= stamp[v]
           /\ Victim = order[1] \/ <<order[1], Victim>> \in twins
<1>1. Len(order) = Assoc /\ Assoc \in Nat \ {0}
  BY FullHistory, WaysFacts
<1>2. /\ Victim \in Ways /\ \A v \in Ways : stamp[Victim] <= stamp[v]
      /\ \A v \in Ways : stamp[v] \in Nat
  BY StampVictims DEF Typed, Victim
<1>3. PICK i \in 1..Len(order) : order[i] = Victim
  BY <1>2 DEF HistoryOK, Full
<1>4. order[1] \in Ways
  BY <1>1 DEF Typed
<1>5. CASE i = 1
  BY <1>1, <1>2, <1>3, <1>5
<1>6. CASE 1 < i
  <2>1. \/ stamp[order[1]] < stamp[order[i]]
        \/ <<order[1], order[i]>> \in twins
    BY <1>1, <1>6 DEF StampsInOrder
  <2> QED BY <1>1, <1>2, <1>3, <1>4, <2>1
<1> QED BY <1>1, <1>3, <1>5, <1>6

\* The invariant gives LruExact.
LEMMA InvLru == ASSUME ReplInv PROVE LruExact
BY LruOldest DEF ReplInv, LruExact

\* The invariant gives RecentSpared.
LEMMA InvRecent == ASSUME ReplInv PROVE RecentSpared
<1> SUFFICES ASSUME policy \in {"plru", "lru"}, Full, Assoc > 1, Victim = order[Len(order)]
             PROVE  policy = "lru" /\ Assoc = 2 /\ <<order[1], order[2]>> \in twins
  BY DEF RecentSpared
<1>1. Len(order) = Assoc /\ Assoc \in Nat
  BY FullHistory, WaysFacts DEF ReplInv
<1>2. CASE policy = "plru"
  BY <1>1, <1>2 DEF ReplInv, BitsPointAway, Victim, getVictim
<1>3. CASE policy = "lru"
  <2>1. \A v \in Ways : stamp[v] \in Nat /\ stamp[Victim] <= stamp[v]
    BY <1>3, LruOldest DEF ReplInv
  <2>2. 1 \in 1..Len(order) /\ Len(order) \in 1..Len(order) /\ Len(order) # 1
    BY <1>1
  <2>3. Victim # order[1]
    BY <2>2 DEF ReplInv, HistoryOK
  <2>4. <<order[1], Victim>> \in twins
    BY <1>3, <2>3, LruOldest DEF ReplInv
  <2>5. CASE Assoc = 2
    BY <1>1, <1>3, <2>4, <2>5
  <2>6. CASE Assoc = 4
    <3>1. 1 \in 1..Len(order) /\ 2 \in 1..Len(order) /\ 4 \in 1..Len(order) /\ Victim = order[4]
      BY <1>1, <2>6
    <3>2. order[1] \in Ways /\ order[2] \in Ways /\ order[4] \in Ways /\ order[2] # order[4]
      BY <3>1 DEF ReplInv, Typed, HistoryOK
    <3>3. /\ \/ stamp[order[1]] < stamp[order[2]]
             \/ stamp[order[1]] = stamp[order[2]] /\ <<order[1], order[2]>> \in twins
          /\ stamp[order[2]] < stamp[order[4]] \/ stamp[order[2]] = stamp[order[4]]
      <4>1. \A i, j \in 1..Len(order) : i < j =>
              \/ stamp[order[i]] < stamp[order[j]]
              \/ stamp[order[i]] = stamp[order[j]] /\ <<order[i], order[j]>> \in twins
        BY <1>3, Zenon DEF ReplInv, StampsInOrder
      <4>2. 1 < 2 /\ 2 < 4
        OBVIOUS
      <4> QED BY <3>1, <4>1, <4>2, Zenon
    <3>4. stamp[order[4]] <= stamp[order[1]]
      BY <2>1, <3>1, <3>2
    <3>5. <<order[1], order[2]>> \in twins
      BY <2>1, <3>2, <3>3, <3>4
    <3>6. order[2] = order[4]
      BY <2>4, <3>1, <3>2, <3>5 DEF ReplInv, TwinsApart
    <3> QED BY <3>2, <3>6
  <2> QED BY <2>5, <2>6, AssocAssumption
<1> QED BY <1>2, <1>3

\* The invariant gives ReusedSpared.
LEMMA InvReused == ASSUME ReplInv PROVE ReusedSpared
<1> SUFFICES ASSUME policy = "srrip", Full, reused # Ways, Victim \in reused PROVE FALSE
  BY DEF ReusedSpared
<1>1. /\ Victim \in Ways /\ \A v \in Ways : stamp[Victim] >= stamp[v]
      /\ \A v \in Ways : stamp[v] \in Nat
  BY StampVictims DEF ReplInv, Typed, Victim
<1>2. PICK v \in Ways : v \notin reused
  BY DEF ReplInv, Typed, Full
<1>3. stamp[v] = 2 /\ stamp[Victim] = 0
  BY <1>1, <1>2 DEF ReplInv, Distances, Full
<1> QED BY <1>1, <1>3

\* Four ways of which no two are equal are all the ways.
LEMMA FourDistinct ==
    ASSUME NEW a \in {0, 1, 2, 3}, NEW b \in {0, 1, 2, 3}, NEW c \in {0, 1, 2, 3},
           NEW d \in {0, 1, 2, 3}, a # b, a # c, a # d, b # c, b # d, c # d
    PROVE  {a, b, c, d} = {0, 1, 2, 3}
OBVIOUS

\* The invariant gives BurstReplacesAll.
LEMMA InvBurst == ASSUME ReplInv PROVE BurstReplacesAll
<1> SUFFICES ASSUME policy # "srrip", ~lag, Len(run) = Assoc
             PROVE  {run[i] : i \in 1..Assoc} = Ways
  BY DEF BurstReplacesAll
<1>t. run \in Seq(Ways) /\ policy \in Policies /\ mem \in Nat
  BY DEF ReplInv, Typed
<1>1. CASE policy = "lru"
  <2>1. Full /\ Len(order) = Assoc
    BY FullHistory, WaysFacts DEF ReplInv, BurstWhenFull
  <2>2. \A i \in 1..Assoc : run[i] = order[i]
    BY <1>1, <2>1, WaysFacts DEF ReplInv, LruBurst
  <2> QED BY <2>1, <2>2 DEF ReplInv, HistoryOK, Full
<1>2. CASE Assoc = 1
  <2>1. run[1] = 0
    BY <1>2, <1>t, WaysFacts
  <2> QED BY <1>2, <2>1, WaysFacts
<1>3. CASE Assoc = 2 /\ policy # "lru"
  <2>1. run[1] \in {0, 1} /\ run[2] \in {0, 1}
    <3>1. 1 \in 1..Len(run) /\ 2 \in 1..Len(run)
      BY <1>3
    <3>2. run[1] \in Ways /\ run[2] \in Ways
      BY <1>t, <3>1, ElementOfSeq
    <3>3. Ways = {0, 1}
      BY <1>3, WaysFacts
    <3> QED BY <3>2, <3>3
  <2>2. run[1] # run[2]
    <3>1. CASE policy = "plru"
      BY <1>3, <3>1 DEF ReplInv, PlruBurst
    <3>2. CASE policy = "rr"
      <4>0. \A i \in 1..2 : (run[i] + 2 + 1 - i) % 2 = mem % 2
        BY <1>3, <3>2, Zenon DEF ReplInv, RrBurst
      <4>1. (run[1] + 2) % 2 = mem % 2 /\ (run[2] + 1) % 2 = mem % 2
        <5>1. (run[1] + 2 + 1 - 1) % 2 = mem % 2 /\ (run[2] + 2 + 1 - 2) % 2 = mem % 2
          BY <4>0
        <5>2. run[1] + 2 + 1 - 1 = run[1] + 2 /\ run[2] + 2 + 1 - 2 = run[2] + 1
          BY <2>1
        <5> QED BY <5>1, <5>2
      <4> QED BY <2>1, <4>1
    <3> QED BY <1>3, <1>t, <3>1, <3>2 DEF Policies
  <2>3. {run[i] : i \in 1..2} = {run[1], run[2]}
    OBVIOUS
  <2> QED BY <1>3, <2>1, <2>2, <2>3, WaysFacts
<1>4. CASE Assoc = 4 /\ policy # "lru"
  <2>1. /\ run[1] \in {0, 1, 2, 3} /\ run[2] \in {0, 1, 2, 3}
        /\ run[3] \in {0, 1, 2, 3} /\ run[4] \in {0, 1, 2, 3}
    <3>0. \A i \in 1..Len(run) : run[i] \in Ways
      BY <1>t
    <3>1. \A i \in 1..4 : run[i] \in Ways
      BY <1>4, <3>0, Zenon
    <3>2. run[1] \in Ways /\ run[2] \in Ways /\ run[3] \in Ways /\ run[4] \in Ways
      BY <3>1
    <3> QED BY <1>4, <3>2, WaysFacts
  <2>2. /\ run[1] # run[2] /\ run[1] # run[3] /\ run[1] # run[4]
        /\ run[2] # run[3] /\ run[2] # run[4] /\ run[3] # run[4]
    <3>1. CASE policy = "plru"
      BY <1>4, <3>1 DEF ReplInv, PlruBurst
    <3>2. CASE policy = "rr"
      <4>1. /\ (run[1] + 4) % 4 = mem % 4 /\ (run[2] + 3) % 4 = mem % 4
            /\ (run[3] + 2) % 4 = mem % 4 /\ (run[4] + 1) % 4 = mem % 4
        <5>1. \A i \in 1..4 : (run[i] + 4 + 1 - i) % 4 = mem % 4
          BY <1>4, <3>2, Zenon DEF ReplInv, RrBurst
        <5>2. /\ (run[1] + 4 + 1 - 1) % 4 = mem % 4 /\ (run[2] + 4 + 1 - 2) % 4 = mem % 4
              /\ (run[3] + 4 + 1 - 3) % 4 = mem % 4 /\ (run[4] + 4 + 1 - 4) % 4 = mem % 4
          BY <5>1
        <5>3. /\ run[1] + 4 + 1 - 1 = run[1] + 4 /\ run[2] + 4 + 1 - 2 = run[2] + 3
              /\ run[3] + 4 + 1 - 3 = run[3] + 2 /\ run[4] + 4 + 1 - 4 = run[4] + 1
          BY <2>1
        <5> QED BY <5>2, <5>3
      <4> QED BY <2>1, <4>1
    <3> QED BY <1>4, <1>t, <3>1, <3>2 DEF Policies
  <2>3. {run[i] : i \in 1..4} = {run[1], run[2], run[3], run[4]}
    OBVIOUS
  <2>4. {run[1], run[2], run[3], run[4]} = {0, 1, 2, 3}
    BY <2>1, <2>2, FourDistinct
  <2> QED BY <1>4, <2>3, <2>4, WaysFacts
<1> QED BY <1>1, <1>2, <1>3, <1>4, AssocAssumption

----------------------------------------------------------------------------
(* Every step keeps the invariant. *)

\* An empty set.
LEMMA InitRepl == Init => ReplInv
<1> SUFFICES ASSUME Init PROVE ReplInv
  OBVIOUS
<1>1. Len(order) = 0 /\ Len(run) = 0 /\ valid = {}
  BY DEF Init
<1>2. Typed
  BY WaysFacts DEF Init, Typed
<1>3. HistoryOK
  BY <1>1, FS_EmptySet DEF HistoryOK
<1>4. StampsInOrder
  BY <1>1 DEF Init, StampsInOrder
<1>5. FreshIsLast /\ TwinsApart
  BY DEF Init, FreshIsLast, TwinsApart
<1> QED BY <1>1, <1>2, <1>3, <1>4, <1>5 DEF ReplInv, BitsPointAway, Distances, BurstWhenFull,
        BurstUntwinned, LruBurst, RrBurst, PlruBurst

\* A line is hit.
LEMMA HitRepl == ASSUME ReplInv, NEW w \in Ways, Hit(w) PROVE ReplInv'
<1>t. Typed /\ w \in valid
  BY DEF ReplInv, Hit
<1>0. /\ valid' = valid \cup {w} /\ order' = Touched(w) /\ policy' = policy /\ valid' = valid
      /\ now' = now + 1 /\ fresh' = {w} /\ twins' = Untouched(w)
  BY DEF Hit
<1>1. HistoryOK' /\ order' \in Seq(Ways) /\ Len(order') > 0 /\ order'[Len(order')] = w
  BY <1>t, <1>0, TouchHistory DEF ReplInv
<1>2. run' = <<>> /\ run' \in Seq(Ways) /\ Len(run') = 0
  BY DEF Hit
<1>m. mem' \in Nat /\ (policy = "plru" /\ Assoc > 1 => victim_way(Assoc, mem') # w)
  BY <1>t, TreeBits DEF Hit, onHit, Typed
<1>3. Typed'
  <2>1. stamp' \in [Ways -> Nat]
    BY <1>t DEF Hit, Typed
  <2>2. now' \in Nat /\ fresh' \in SUBSET Ways /\ reused' \in SUBSET valid'
    BY <1>t DEF Hit, Typed
  <2> QED BY <1>0, <1>1, <1>2, <1>m, <1>t, <2>1, <2>2, WaysFacts DEF Typed
<1>4. StampsInOrder'
  <2> SUFFICES ASSUME policy = "lru" PROVE StampsInOrder'
    BY <1>0 DEF StampsInOrder
  <2>1. stamp' = [stamp EXCEPT ![w] = now'] /\ now' \in Nat /\ now <= now'
    BY <1>0, <1>t DEF Hit, Typed
  <2>2. \A v \in Ways : stamp[v] < now'
    BY <1>0, <1>t DEF ReplInv, StampsInOrder, Typed
  <2> QED BY <1>t, <1>0, <2>1, <2>2, TouchStamps DEF ReplInv, Typed
<1>5. BitsPointAway'
  BY <1>0, <1>1, <1>m DEF BitsPointAway
<1>6. Distances'
  <2> SUFFICES ASSUME policy = "srrip", NEW v \in valid
               PROVE  stamp'[v] = (IF v \in reused' THEN 0 ELSE 2)
    BY <1>0 DEF Distances
  <2>1. v \in Ways /\ stamp' = [stamp EXCEPT ![w] = 0] /\ reused' = reused \cup {w}
    BY <1>t DEF Hit, Typed
  <2>2. stamp'[v] = IF v = w THEN 0 ELSE stamp[v]
    BY <1>t, <2>1 DEF Typed
  <2> QED BY <2>1, <2>2 DEF ReplInv, Distances
<1>7. FreshIsLast'
  <2>1. policy = "lru" => stamp'[w] = now'
    BY <1>0, <1>t DEF Hit, Typed
  <2>2. \A v \in Ways : <<w, v>> \notin twins' /\ <<v, w>> \notin twins'
    BY <1>0, UntouchedFacts
  <2> QED BY <1>0, <1>1, <2>1, <2>2 DEF FreshIsLast
<1>8. TwinsApart'
  BY <1>0, UntouchedFacts DEF ReplInv, TwinsApart
<1> QED BY <1>1, <1>2, <1>3, <1>4, <1>5, <1>6, <1>7, <1>8
    DEF ReplInv, BurstWhenFull, BurstUntwinned, LruBurst, RrBurst, PlruBurst

\* The set is flushed.
LEMMA FlushRepl == ASSUME ReplInv, Flush PROVE ReplInv'
<1>1. Len(order') = 0 /\ Len(run') = 0 /\ valid' = {} /\ order' = <<>> /\ run' = <<>>
  BY DEF Flush
<1>2. Typed'
  BY <1>1, WaysFacts DEF ReplInv, Flush, Typed
<1>3. HistoryOK'
  BY <1>1, FS_EmptySet DEF HistoryOK
<1>4. StampsInOrder'
  <2>1. \A w \in Ways : stamp'[w] <= now'
    BY DEF Flush, ReplInv, Typed
  <2> QED BY <1>1, <2>1 DEF StampsInOrder
<1>5. FreshIsLast' /\ TwinsApart'
  BY DEF Flush, FreshIsLast, TwinsApart
<1> QED BY <1>1, <1>2, <1>3, <1>4, <1>5 DEF ReplInv, BitsPointAway, Distances, BurstWhenFull,
        BurstUntwinned, LruBurst, RrBurst, PlruBurst

\* The burst after a fill of way w in a full set: w is the latest eviction and
\* the others move back by one.
LEMMA BurstShift ==
    ASSUME Typed, NEW w \in Ways,
           run' = IF Len(run) < Assoc THEN Append(run, w) ELSE Append(Tail(run), w)
    PROVE  /\ run' \in Seq(Ways) /\ Len(run') \in 1..Assoc /\ run'[Len(run')] = w
           /\ Len(run') <= Len(run) + 1
           /\ \A k \in 1..(Len(run') - 1) :
                 Len(run) - k + 1 \in 1..Len(run)
                 /\ run'[Len(run') - k] = run[Len(run) - k + 1]
<1>t. run \in Seq(Ways) /\ Len(run) \in Nat /\ Len(run) <= Assoc /\ Assoc \in Nat \ {0}
  BY WaysFacts DEF Typed
<1>1. CASE Len(run) < Assoc
  <2>1. run' = Append(run, w)
    BY <1>1
  <2>2. /\ run' \in Seq(Ways) /\ Len(run') = Len(run) + 1 /\ run'[Len(run) + 1] = w
        /\ \A i \in 1..Len(run) : run'[i] = run[i]
    BY <1>t, <2>1
  <2> QED BY <1>1, <1>t, <2>2
<1>2. CASE Len(run) = Assoc
  <2>1. run' = Append(Tail(run), w) /\ run # <<>>
    BY <1>2, <1>t
  <2>2. /\ Tail(run) \in Seq(Ways) /\ Len(Tail(run)) = Len(run) - 1
        /\ \A i \in 1..(Len(run) - 1) : Tail(run)[i] = run[i + 1]
    BY <1>t, <2>1
  <2>3. /\ run' \in Seq(Ways) /\ Len(run') = Len(run) /\ run'[Len(run)] = w
        /\ \A i \in 1..(Len(run) - 1) : run'[i] = run[i + 1]
    BY <1>t, <1>2, <2>1, <2>2
  <2> QED BY <1>2, <1>t, <2>3
<1> QED BY <1>1, <1>2, <1>t

\* LRU: the evicted line lies before the burst and goes to the end of the history.
LEMMA FillLruBurst ==
    ASSUME ReplInv, Full, policy = "lru", NEW w \in Ways, w = Victim,
           order' = Touched(w), policy' = policy,
           run' = IF Len(run) < Assoc THEN Append(run, w) ELSE Append(Tail(run), w)
    PROVE  LruBurst'
<1>t. Typed /\ HistoryOK /\ StampsInOrder /\ w \in valid
  BY DEF ReplInv, Full
<1>1. Len(order) = Assoc /\ Assoc \in Nat \ {0}
  BY <1>t, LruOldest, WaysFacts
<1>2. Len(order') = Assoc /\ order'[Assoc] = w
  BY <1>1, <1>t, TouchedFacts
<1>5. Len(run) <= Assoc /\ \A i \in 1..Len(run) : run[i] = order[Assoc - Len(run) + i]
  BY <1>1 DEF ReplInv, LruBurst
<1>n. Len(run) \in Nat
  BY <1>t DEF Typed
<1>p. PICK p \in Nat : Moved(order', w, p)
  BY <1>t, TouchedFacts
<1>q. /\ p \in 1..Assoc /\ order[p] = w
      /\ \A i \in 1..(Assoc - 1) : order'[i] = order[IF i < p THEN i ELSE i + 1]
  BY <1>1, <1>2, <1>p, <1>t DEF Moved
<1>b. p = 1 \/ p <= Assoc - Len(run)
  <2> SUFFICES ASSUME p # 1, p > Assoc - Len(run) PROVE FALSE
    BY <1>1, <1>n, <1>q
  <2>1. order[1] \in Ways /\ order[1] # w
    BY <1>1, <1>q, <1>t DEF Typed, HistoryOK
  <2>2. <<order[1], w>> \in twins
    BY <1>t, <2>1, LruOldest
  <2> DEFINE i == p - (Assoc - Len(run))
  <2>3. i \in 1..Len(run) /\ Assoc - Len(run) + i = p
    BY <1>1, <1>5, <1>n, <1>q
  <2>4. run[i] = w
    BY <1>5, <1>q, <2>3
  <2> QED BY <2>1, <2>2, <2>3, <2>4 DEF ReplInv, BurstUntwinned
<1>4. /\ Len(run') \in 1..Assoc /\ run'[Len(run')] = w
      /\ Len(run') <= Len(run) + 1
      /\ \A k \in 1..(Len(run') - 1) :
            Len(run) - k + 1 \in 1..Len(run) /\ run'[Len(run') - k] = run[Len(run) - k + 1]
  BY <1>t, BurstShift
<1>6. ASSUME NEW i \in 1..Len(run') PROVE run'[i] = order'[Assoc - Len(run') + i]
  <2>1. CASE i = Len(run')
    BY <1>1, <1>2, <1>4, <2>1
  <2>2. CASE i # Len(run')
    <3> DEFINE k == Len(run') - i
               m == Len(run')
               n == Len(run)
    <3>1. k \in 1..(m - 1) /\ m - k = i
      BY <1>4, <2>2
    <3> HIDE DEF k
    <3>2. n - k + 1 \in 1..n /\ run'[i] = run[n - k + 1]
      BY <1>4, <3>1
    <3>3. run[n - k + 1] = order[Assoc - n + (n - k + 1)]
      BY <1>5, <3>2
    <3>4. Assoc - n + (n - k + 1) = (Assoc - k) + 1 /\ Assoc - k = Assoc - m + i
          /\ Assoc - k \in 1..(Assoc - 1) /\ ~(Assoc - k < p)
      <4>1. Assoc \in Nat /\ m \in 1..Assoc /\ n \in Nat /\ k \in 1..(m - 1) /\ m - k = i
            /\ i \in 1..m /\ p \in 1..Assoc /\ (p = 1 \/ p <= Assoc - n) /\ m <= n + 1
        BY <1>1, <1>4, <1>b, <1>n, <1>q, <3>1
      <4> HIDE DEF m, n
      <4> QED BY ONLY <4>1
    <3>5. order'[Assoc - k] = order[(Assoc - k) + 1]
      BY <1>q, <3>4
    <3> QED BY <3>2, <3>3, <3>4, <3>5
  <2> QED BY <2>1, <2>2
<1>7. Len(run') <= Len(order') /\ Len(order') = Assoc
  BY <1>1, <1>2, <1>4
<1> QED BY <1>6, <1>7 DEF LruBurst

\* Round robin: the pointer moves on with every eviction.
LEMMA FillRrBurst ==
    ASSUME ReplInv, Full, policy = "rr", NEW w \in Ways, w = Victim, policy' = policy,
           mem' = (mem + 1) % Assoc,
           run' = IF Len(run) < Assoc THEN Append(run, w) ELSE Append(Tail(run), w)
    PROVE  RrBurst'
<1>t. Typed /\ mem \in Nat /\ Len(run) \in Nat /\ w = mem % Assoc /\ Assoc \in {1, 2, 4}
  BY AssocAssumption DEF ReplInv, Typed, Victim, getVictim
<1>4. /\ Len(run') \in 1..Assoc /\ run'[Len(run')] = w
      /\ \A k \in 1..(Len(run') - 1) :
            Len(run) - k + 1 \in 1..Len(run) /\ run'[Len(run') - k] = run[Len(run) - k + 1]
  BY <1>t, BurstShift
<1>5. \A i \in 1..Len(run) : (run[i] + Len(run) + 1 - i) % Assoc = mem % Assoc
  BY DEF ReplInv, RrBurst
<1>r. \A i \in 1..Len(run) : run[i] \in Ways
  BY <1>t DEF Typed
<1>m. mem' % Assoc = (mem + 1) % Assoc
  BY <1>t
<1>s. \A r, s \in Nat : r % Assoc = s % Assoc => (r + 1) % Assoc = (s + 1) % Assoc
  <2>1. \A r, s \in Nat : /\ r % 1 = s % 1 => (r + 1) % 1 = (s + 1) % 1
                          /\ r % 2 = s % 2 => (r + 1) % 2 = (s + 1) % 2
                          /\ r % 4 = s % 4 => (r + 1) % 4 = (s + 1) % 4
    OBVIOUS
  <2> QED BY <1>t, <2>1
<1>6. ASSUME NEW i \in 1..Len(run')
      PROVE  (run'[i] + Len(run') + 1 - i) % Assoc = mem' % Assoc
  <2>1. CASE i = Len(run')
    <3>1. w \in Nat /\ w + Len(run') + 1 - i = w + 1
      <4>1. w \in Nat /\ Len(run') \in Nat
        BY <1>4, WaysFacts
      <4>2. \A x, y \in Nat : x + y + 1 - y = x + 1
        OBVIOUS
      <4> QED BY <2>1, <4>1, <4>2
    <3>2. w % Assoc = mem % Assoc
      BY <1>t
    <3> QED BY <1>4, <1>m, <1>s, <1>t, <2>1, <3>1, <3>2
  <2>2. CASE i # Len(run')
    <3> DEFINE k == Len(run') - i
               m == Len(run')
               n == Len(run)
               r == run[n - k + 1]
    <3>1. k \in 1..(m - 1) /\ m - k = i
      BY <1>4, <2>2
    <3> HIDE DEF k
    <3>2. n - k + 1 \in 1..n /\ run'[i] = r
      BY <1>4, <3>1
    <3>3. r \in Nat
      BY <1>r, <3>2, WaysFacts
    <3>4. (r + n + 1 - (n - k + 1)) % Assoc = mem % Assoc
      BY <1>5, <3>2
    <3> HIDE DEF r
    <3>5. r + n + 1 - (n - k + 1) = r + k /\ r + m + 1 - i = (r + k) + 1 /\ r + k \in Nat
      BY <1>t, <1>4, <3>1, <3>3
    <3> QED BY <1>m, <1>s, <1>t, <3>2, <3>4, <3>5
  <2> QED BY <2>1, <2>2
<1> QED BY <1>6, <1>t DEF RrBurst

\* PLRU with four ways: an eviction turns the root bit to the other half and
\* the bit of the half it hits, and leaves the other half's bit alone.
LEMMA TreeEvicts ==
    ASSUME NEW b \in Nat, Assoc = 4
    PROVE  LET w == victim_way(4, b)
               c == update_bits(4, b, w)
           IN  /\ w \in {0, 1, 2, 3} /\ Half(w) = 1 - (b % 2)
               /\ w % 2 = 1 - HalfBit(b, w)
               /\ c % 2 = Half(w) /\ HalfBit(c, w) = w % 2
               /\ \A v \in {0, 1, 2, 3} : Half(v) # Half(w) => HalfBit(c, v) = HalfBit(b, v)
<1> DEFINE b0 == b % 2
           b1 == (b \div 2) % 2
           b2 == (b \div 4) % 2
           w == victim_way(4, b)
           c == update_bits(4, b, w)
<1>1. b0 \in {0, 1} /\ b1 \in {0, 1} /\ b2 \in {0, 1}
  OBVIOUS
<1>2. w = IF b0 = 1 THEN (IF b1 = 1 THEN 0 ELSE 1) ELSE (IF b2 = 1 THEN 2 ELSE 3)
  BY DEF victim_way
<1>3. c = ((w \div 2) % 2) + 2 * (IF (w \div 2) % 2 = 1 THEN b1 ELSE w % 2)
                         + 4 * (IF (w \div 2) % 2 = 1 THEN w % 2 ELSE b2)
  BY DEF update_bits
<1>4. \A v \in {0, 1, 2, 3} : HalfBit(b, v) = IF v \div 2 = 1 THEN b2 ELSE b1
  BY DEF HalfBit
<1>5. \A v \in {0, 1, 2, 3} :
        HalfBit(c, v) = IF v \div 2 = 1 THEN (c \div 4) % 2 ELSE (c \div 2) % 2
  BY DEF HalfBit
<1> HIDE DEF b0, b1, b2, w, c
<1>w. w \in {0, 1, 2, 3}
  BY ONLY <1>1, <1>2
<1>6. /\ c % 2 = (w \div 2) % 2
      /\ (c \div 2) % 2 = (IF (w \div 2) % 2 = 1 THEN b1 ELSE w % 2)
      /\ (c \div 4) % 2 = (IF (w \div 2) % 2 = 1 THEN w % 2 ELSE b2)
  <2>1. CASE w = 0
    BY ONLY <1>1, <1>3, <2>1
  <2>2. CASE w = 1
    BY ONLY <1>1, <1>3, <2>2
  <2>3. CASE w = 2
    BY ONLY <1>1, <1>3, <2>3
  <2>4. CASE w = 3
    BY ONLY <1>1, <1>3, <2>4
  <2> QED BY <1>w, <2>1, <2>2, <2>3, <2>4
<1>7. Half(w) = 1 - b0 /\ w % 2 = 1 - HalfBit(b, w)
  BY <1>1, <1>2, <1>4, <1>w DEF Half
<1>8. c % 2 = Half(w) /\ HalfBit(c, w) = w % 2
  BY <1>5, <1>6, <1>w DEF Half
<1>9. \A v \in {0, 1, 2, 3} : Half(v) # Half(w) => HalfBit(c, v) = HalfBit(b, v)
  BY <1>4, <1>5, <1>6, <1>w DEF Half
<1> QED BY <1>w, <1>7, <1>8, <1>9 DEF w, c, b0

\* PLRU: successive evictions alternate between the halves, and within a half
\* between its two ways.
LEMMA FillPlruBurst ==
    ASSUME ReplInv, Full, policy = "plru", NEW w \in Ways, w = Victim, policy' = policy,
           mem' = update_bits(Assoc, mem, w),
           run' = IF Len(run) < Assoc THEN Append(run, w) ELSE Append(Tail(run), w)
    PROVE  PlruBurst'
<1>t. /\ Typed /\ mem \in Nat /\ run \in Seq(Ways) /\ Len(run) \in Nat
      /\ w = victim_way(Assoc, mem)
  BY DEF ReplInv, Typed, Victim, getVictim
<1> DEFINE m == Len(run')
           n == Len(run)
<1>4. /\ m \in 1..Assoc /\ run'[m] = w /\ m <= n + 1
      /\ \A k \in 1..(m - 1) : n - k + 1 \in 1..n /\ run'[m - k] = run[n - k + 1]
  BY <1>t, BurstShift
<1>5. \A i \in 1..n : run[i] \in Ways
  BY <1>t
<1>n. n \in Nat /\ m \in Nat
  BY <1>t, <1>4, AssocAssumption
<1>6. /\ m >= 2 => run'[m - 1] = run[n] /\ n \in 1..n
      /\ m >= 3 => run'[m - 2] = run[n - 1] /\ n - 1 \in 1..n
      /\ m >= 4 => run'[m - 3] = run[n - 2] /\ n - 2 \in 1..n
  <2>1. m >= 2 => n - 1 + 1 \in 1..n /\ run'[m - 1] = run[n - 1 + 1]
    BY <1>4, <1>n
  <2>2. m >= 3 => n - 2 + 1 \in 1..n /\ run'[m - 2] = run[n - 2 + 1]
    BY <1>4, <1>n
  <2>3. m >= 4 => n - 3 + 1 \in 1..n /\ run'[m - 3] = run[n - 3 + 1]
    BY <1>4, <1>n
  <2>4. n - 1 + 1 = n /\ n - 2 + 1 = n - 1 /\ n - 3 + 1 = n - 2
    BY <1>n
  <2> QED BY <2>1, <2>2, <2>3, <2>4
<1>7. CASE Assoc = 2
  <2>1. n >= 1 => mem % 2 = run[n]
    BY <1>7 DEF ReplInv, PlruBurst
  <2>2. w \in {0, 1} /\ mem' % 2 = w /\ w # mem % 2
    BY <1>7, <1>t, WaysFacts DEF victim_way, update_bits
  <2>3. m >= 2 => run'[m - 1] # w
    BY <1>6, <1>n, <2>1, <2>2
  <2> QED BY <1>4, <1>7, <2>2, <2>3 DEF PlruBurst
<1>8. CASE Assoc = 4
  <2>1. /\ n >= 1 => mem % 2 = Half(run[n]) /\ HalfBit(mem, run[n]) = run[n] % 2
        /\ n >= 2 => /\ Half(run[n - 1]) # Half(run[n])
                     /\ HalfBit(mem, run[n - 1]) = run[n - 1] % 2
        /\ n >= 3 => Half(run[n - 2]) = Half(run[n]) /\ run[n - 2] # run[n]
    BY <1>8 DEF ReplInv, PlruBurst
  <2>2. \A i \in 1..n : run[i] \in {0, 1, 2, 3}
    BY <1>5, <1>8, WaysFacts
  <2>3. /\ w \in {0, 1, 2, 3} /\ Half(w) = 1 - (mem % 2)
        /\ w % 2 = 1 - HalfBit(mem, w)
        /\ mem' % 2 = Half(w) /\ HalfBit(mem', w) = w % 2
    BY <1>8, <1>t, TreeEvicts
  <2>4. \A v \in {0, 1, 2, 3} : Half(v) # Half(w) => HalfBit(mem', v) = HalfBit(mem, v)
    BY <1>8, <1>t, TreeEvicts
  <2>5. mem % 2 \in {0, 1} /\ \A v \in {0, 1, 2, 3} : Half(v) \in {0, 1}
    BY <1>t DEF Half
  <2>6. m >= 2 => Half(run'[m - 1]) # Half(w) /\ HalfBit(mem', run'[m - 1]) = run'[m - 1] % 2
    <3> SUFFICES ASSUME m >= 2
                 PROVE  Half(run[n]) # Half(w) /\ HalfBit(mem', run[n]) = run[n] % 2
      BY <1>6
    <3>1. n >= 1 /\ run[n] \in {0, 1, 2, 3}
      BY <1>6, <1>n, <2>2
    <3>2. mem % 2 = Half(run[n]) /\ HalfBit(mem, run[n]) = run[n] % 2
      BY <2>1, <3>1
    <3>3. Half(run[n]) # Half(w)
      <4> DEFINE r == mem % 2
                 h == Half(w)
      <4>1. r \in {0, 1} /\ h = 1 - r
        BY <2>3, <2>5, Zenon
      <4>2. r # h
        <5> HIDE DEF r, h
        <5> QED BY ONLY <4>1
      <4> QED BY <3>2, <4>2
    <3> QED BY <2>4, <3>1, <3>2, <3>3
  <2>7. m >= 3 => Half(run'[m - 2]) = Half(w) /\ run'[m - 2] # w
    <3> SUFFICES ASSUME m >= 3
                 PROVE  Half(run[n - 1]) = Half(w) /\ run[n - 1] # w
      BY <1>6
    <3>1. n >= 2 /\ run[n] \in {0, 1, 2, 3} /\ run[n - 1] \in {0, 1, 2, 3}
      <4>1. n >= 2 /\ n \in 1..n /\ n - 1 \in 1..n
        BY <1>6, <1>n
      <4> QED BY <2>2, <4>1
    <3>2. /\ mem % 2 = Half(run[n]) /\ Half(run[n - 1]) # Half(run[n])
          /\ HalfBit(mem, run[n - 1]) = run[n - 1] % 2
      BY <2>1, <3>1, <1>n
    <3>3. Half(run[n - 1]) = Half(w)
      <4> DEFINE r == mem % 2
                 h == Half(w)
                 g == Half(run[n - 1])
      <4>1. r \in {0, 1} /\ h = 1 - r /\ g \in {0, 1} /\ g # r
        BY <2>3, <2>5, <3>1, <3>2, Zenon
      <4>2. g = h
        <5> HIDE DEF r, h, g
        <5> QED BY ONLY <4>1
      <4> QED BY <4>2
    <3>4. run[n - 1] # w
      <4> SUFFICES ASSUME run[n - 1] = w PROVE FALSE
        OBVIOUS
      <4>1. w % 2 = 1 - (w % 2)
        BY <2>3, <3>2
      <4> QED BY <2>3, <4>1
    <3> QED BY <3>3, <3>4
  <2>8. m >= 4 => Half(run'[m - 3]) = Half(run'[m - 1]) /\ run'[m - 3] # run'[m - 1]
    <3> SUFFICES ASSUME m >= 4
                 PROVE  Half(run[n - 2]) = Half(run[n]) /\ run[n - 2] # run[n]
      BY <1>6, <1>n
    <3>1. n >= 3
      BY <1>6, <1>n
    <3> QED BY <2>1, <3>1
  <2>9. /\ mem' % 2 = Half(run'[m]) /\ HalfBit(mem', run'[m]) = run'[m] % 2
        /\ m >= 2 => /\ Half(run'[m - 1]) # Half(run'[m])
                     /\ HalfBit(mem', run'[m - 1]) = run'[m - 1] % 2
        /\ m >= 3 => Half(run'[m - 2]) = Half(run'[m]) /\ run'[m - 2] # run'[m]
        /\ m >= 4 => Half(run'[m - 3]) = Half(run'[m - 1]) /\ run'[m - 3] # run'[m - 1]
    BY <1>4, <2>3, <2>6, <2>7, <2>8
  <2>10. Assoc # 2
    BY <1>8
  <2> QED BY <2>9, <2>10, Zenon DEF PlruBurst
<1>9. CASE Assoc = 1
  BY <1>9 DEF PlruBurst
<1> QED BY <1>7, <1>8, <1>9, AssocAssumption

\* What any installation of a line keeps.
LEMMA InstallRepl ==
    ASSUME ReplInv, NEW w \in Ways, Install(w, now'), now' \in Nat,
           twins' = Untouched(w) \cup ((fresh \ {w}) \X {w}) \/ twins' = Untouched(w)
    PROVE  /\ policy' = policy /\ lag' = lag
           /\ valid' = valid \cup {w} /\ order' = Touched(w) /\ Len(order') \in Nat
           /\ HistoryOK' /\ FreshIsLast' /\ TwinsApart' /\ BitsPointAway' /\ Distances'
           /\ mem' = onFill(policy, Assoc, mem, w)
           /\ policy = "lru" => stamp' = [stamp EXCEPT ![w] = now']
           /\ run' \in Seq(Ways) /\ Len(run') <= Assoc => Typed'
<1>t. Typed
  BY DEF ReplInv
<1>0. /\ valid' = valid \cup {w} /\ order' = Touched(w) /\ policy' = policy /\ lag' = lag
      /\ stamp' = [stamp EXCEPT ![w] = IF policy = "srrip" THEN 2 ELSE now']
      /\ mem' = onFill(policy, Assoc, mem, w) /\ reused' = reused \ {w} /\ fresh' = {}
  BY DEF Install
<1>1. HistoryOK' /\ order' \in Seq(Ways) /\ Len(order') > 0 /\ order'[Len(order')] = w
  BY <1>t, <1>0, TouchHistory DEF ReplInv
<1>m. mem' \in Nat /\ (policy = "plru" /\ Assoc > 1 => victim_way(Assoc, mem') # w)
  <2>1. (mem + 1) % Assoc \in Nat
    BY <1>t, AssocAssumption DEF Typed
  <2> QED BY <1>0, <1>t, <2>1, TreeBits DEF onFill, Typed
<1>3. run' \in Seq(Ways) /\ Len(run') <= Assoc => Typed'
  <2>1. stamp' \in [Ways -> Nat]
    BY <1>0, <1>t DEF Typed
  <2>2. reused' \in SUBSET valid' /\ valid' \in SUBSET Ways /\ fresh' \in SUBSET Ways
    BY <1>0, <1>t DEF Typed
  <2> QED BY <1>0, <1>1, <1>m, <1>t, <2>1, <2>2 DEF Typed
<1>5. BitsPointAway'
  BY <1>0, <1>1, <1>m DEF BitsPointAway
<1>6. Distances'
  <2> SUFFICES ASSUME policy = "srrip", NEW v \in valid'
               PROVE  stamp'[v] = (IF v \in reused' THEN 0 ELSE 2)
    BY <1>0 DEF Distances
  <2>1. v \in Ways /\ stamp'[v] = IF v = w THEN 2 ELSE stamp[v]
    BY <1>0, <1>t DEF Typed
  <2> QED BY <1>0, <2>1 DEF ReplInv, Distances
<1>7. FreshIsLast'
  BY <1>0 DEF FreshIsLast
<1>8. TwinsApart'
  <2>1. ASSUME NEW a \in Ways, NEW b \in Ways, <<a, b>> \in twins'
        PROVE  \/ <<a, b>> \in twins /\ a # w /\ b # w
               \/ a \in fresh /\ b = w
    BY <2>1, UntouchedFacts
  <2> SUFFICES ASSUME NEW a \in Ways, NEW b \in Ways, NEW c \in Ways,
                      <<a, b>> \in twins', <<a, c>> \in twins'
               PROVE  b = c
    BY DEF TwinsApart
  <2>2. /\ <<a, b>> \in twins \/ (a \in fresh /\ b = w)
        /\ <<a, c>> \in twins \/ (a \in fresh /\ c = w)
    BY <2>1
  <2>3. a \in fresh => <<a, b>> \notin twins /\ <<a, c>> \notin twins
    BY DEF ReplInv, FreshIsLast
  <2>4. <<a, b>> \in twins /\ <<a, c>> \in twins => b = c
    BY DEF ReplInv, TwinsApart
  <2> QED BY <2>2, <2>3, <2>4
<1>9. Len(order') \in Nat /\ (policy = "lru" => stamp' = [stamp EXCEPT ![w] = now'])
  <2>1. Len(order') \in Nat
    BY <1>1
  <2>2. policy = "lru" => policy # "srrip"
    OBVIOUS
  <2> QED BY <1>0, <2>1, <2>2, Zenon
<1> QED BY <1>0, <1>1, <1>3, <1>5, <1>6, <1>7, <1>8, <1>9

\* A line is filled.
LEMMA FillRepl == ASSUME ReplInv, NEW w \in Ways, Fill(w) PROVE ReplInv'
<1>t. Typed
  BY DEF ReplInv
<1>f. Full /\ ~lag => w = Victim
  BY DEF Fill, select_victim
<1>0. /\ Install(w, now') /\ twins' = Untouched(w) /\ now' = now + 1 /\ now' \in Nat
      /\ run' = IF ~Full \/ lag THEN <<>>
                ELSE IF Len(run) < Assoc THEN Append(run, w) ELSE Append(Tail(run), w)
  BY <1>t DEF Fill, Typed
<1>1. /\ policy' = policy /\ valid' = valid \cup {w} /\ order' = Touched(w)
      /\ Len(order') \in Nat /\ HistoryOK' /\ FreshIsLast' /\ TwinsApart' /\ BitsPointAway'
      /\ Distances' /\ mem' = onFill(policy, Assoc, mem, w)
      /\ policy = "lru" => stamp' = [stamp EXCEPT ![w] = now']
      /\ run' \in Seq(Ways) /\ Len(run') <= Assoc => Typed'
  BY <1>0, InstallRepl
<1>2. /\ run' \in Seq(Ways) /\ Len(run') <= Assoc /\ Len(run') \in Nat
      /\ ~Full \/ lag => Len(run') = 0
  <2>1. CASE Full /\ ~lag
    BY <1>0, <1>t, <2>1, BurstShift, WaysFacts
  <2>2. CASE ~Full \/ lag
    BY <1>0, <2>2, WaysFacts
  <2> QED BY <2>1, <2>2
<1>4. StampsInOrder'
  <2> SUFFICES ASSUME policy = "lru" PROVE StampsInOrder'
    BY <1>1 DEF StampsInOrder
  <2>1. \A v \in Ways : stamp[v] < now'
    BY <1>0, <1>t DEF ReplInv, StampsInOrder, Typed
  <2>2. now <= now' /\ valid \subseteq Ways
    BY <1>0, <1>t DEF Typed
  <2> QED BY <1>t, <1>0, <1>1, <2>1, <2>2, TouchStamps DEF ReplInv
<1>7. BurstWhenFull'
  BY <1>1, <1>2, <1>t DEF BurstWhenFull, Full, Typed
<1>8. LruBurst' /\ RrBurst' /\ PlruBurst' /\ BurstUntwinned'
  <2>1. CASE ~Full \/ lag
    <3>1. Len(run') = 0 /\ Len(order') \in Nat
      BY <1>1, <1>2, <2>1
    <3> QED BY <3>1 DEF LruBurst, RrBurst, PlruBurst, BurstUntwinned
  <2>2. CASE Full /\ ~lag
    <3>0. /\ w = Victim
          /\ run' = IF Len(run) < Assoc THEN Append(run, w) ELSE Append(Tail(run), w)
      BY <1>0, <1>f, <2>2
    <3>1. LruBurst'
      <4>1. CASE policy = "lru"
        BY <1>1, <1>t, <2>2, <3>0, <4>1, FillLruBurst
      <4> QED BY <1>1, <4>1 DEF LruBurst
    <3>2. RrBurst'
      <4>1. CASE policy = "rr"
        <5>1. mem' = (mem + 1) % Assoc
          BY <1>1, <4>1 DEF onFill
        <5> QED BY <1>1, <1>t, <2>2, <3>0, <4>1, <5>1, FillRrBurst
      <4> QED BY <1>1, <4>1 DEF RrBurst
    <3>3. PlruBurst'
      <4>1. CASE policy = "plru"
        <5>1. mem' = update_bits(Assoc, mem, w)
          BY <1>1, <4>1 DEF onFill
        <5> QED BY <1>1, <1>t, <2>2, <3>0, <4>1, <5>1, FillPlruBurst
      <4> QED BY <1>1, <4>1 DEF PlruBurst
    <3>4. BurstUntwinned'
      <4> SUFFICES ASSUME NEW i \in 1..Len(run'), NEW v \in Ways
                   PROVE  <<run'[i], v>> \notin twins' /\ <<v, run'[i]>> \notin twins'
        BY DEF BurstUntwinned
      <4>1. /\ Len(run') \in 1..Assoc /\ run'[Len(run')] = w
            /\ \A k \in 1..(Len(run') - 1) :
                  Len(run) - k + 1 \in 1..Len(run) /\ run'[Len(run') - k] = run[Len(run) - k + 1]
        BY <1>t, <3>0, BurstShift
      <4>2. CASE i = Len(run')
        BY <1>0, <4>1, <4>2, UntouchedFacts
      <4>3. CASE i # Len(run')
        <5> DEFINE k == Len(run') - i
        <5>1. k \in 1..(Len(run') - 1) /\ Len(run') - k = i
          BY <4>1, <4>3
        <5> HIDE DEF k
        <5>2. Len(run) - k + 1 \in 1..Len(run) /\ run'[i] = run[Len(run) - k + 1]
          BY <4>1, <5>1
        <5>3. <<run'[i], v>> \notin twins /\ <<v, run'[i]>> \notin twins
          BY <5>2 DEF ReplInv, BurstUntwinned
        <5> QED BY <1>0, <5>3, UntouchedFacts
      <4> QED BY <4>2, <4>3
    <3> QED BY <3>1, <3>2, <3>3, <3>4
  <2> QED BY <2>1, <2>2
<1> QED BY <1>1, <1>2, <1>4, <1>7, <1>8 DEF ReplInv

\* A line is prefetched in the tick of a hit: it shares the stamp of the line
\* hit, and of no other.
LEMMA PrefetchRepl == ASSUME ReplInv, Prefetch PROVE ReplInv'
<1> DEFINE w == select_victim
<1>t. Typed /\ w \in Ways
  BY VictimType DEF ReplInv
<1>0. /\ Install(w, now') /\ twins' = Untouched(w) \cup ((fresh \ {w}) \X {w}) /\ now' = now
      /\ now' \in Nat /\ run' = <<>> /\ fresh # {}
  BY <1>t DEF Prefetch, Typed
<1> HIDE DEF w
<1>1. /\ policy' = policy /\ valid' = valid \cup {w} /\ order' = Touched(w)
      /\ Len(order') \in Nat /\ HistoryOK' /\ FreshIsLast' /\ TwinsApart' /\ BitsPointAway'
      /\ Distances'
      /\ policy = "lru" => stamp' = [stamp EXCEPT ![w] = now']
      /\ run' \in Seq(Ways) /\ Len(run') <= Assoc => Typed'
  BY <1>0, <1>t, InstallRepl
<1>2. run' \in Seq(Ways) /\ Len(run') = 0 /\ Len(run') <= Assoc
  BY <1>0, WaysFacts
<1>4. StampsInOrder'
  <2> SUFFICES ASSUME policy = "lru" PROVE StampsInOrder'
    BY <1>1 DEF StampsInOrder
  <2>1. PICK h \in fresh : TRUE
    BY <1>0
  <2>2. /\ h \in Ways /\ Len(order) > 0 /\ h = order[Len(order)] /\ stamp[h] = now
        /\ \A v \in Ways : <<v, h>> \notin twins
    BY <1>t DEF ReplInv, FreshIsLast, Typed
  <2>3. ASSUME NEW v \in valid, v # w
        PROVE  stamp[v] < now' \/ (stamp[v] = now' /\ <<v, w>> \in twins')
    <3>1. CASE v = h
      BY <1>0, <2>2, <2>3, <3>1
    <3>2. CASE v # h
      <4>1. PICK i \in 1..Len(order) : order[i] = v
        BY DEF ReplInv, HistoryOK
      <4>2. i < Len(order) /\ Len(order) \in 1..Len(order)
        BY <1>t, <2>2, <3>2, <4>1 DEF Typed
      <4>3. \/ stamp[order[i]] < stamp[order[Len(order)]]
            \/ <<order[i], order[Len(order)]>> \in twins
        BY <4>2 DEF ReplInv, StampsInOrder
      <4>4. v \in Ways
        BY <1>t DEF Typed
      <4> QED BY <1>0, <2>2, <4>1, <4>3, <4>4
    <3> QED BY <3>1, <3>2
  <2>4. now <= now'
    BY <1>0, <1>t DEF Typed
  <2> QED BY <1>t, <1>0, <1>1, <2>3, <2>4, TouchStamps DEF ReplInv
<1> QED BY <1>1, <1>2, <1>4
    DEF ReplInv, BurstWhenFull, BurstUntwinned, LruBurst, RrBurst, PlruBurst

----------------------------------------------------------------------------
(* The results. *)

\* The invariant holds for every sequence of hits, fills, prefetches and
\* flushes, with the way of a miss lagging or not.
THEOREM ReplInvariance == Spec => []ReplInv
<1>1. ReplInv /\ [Next]_vars => ReplInv'
  <2> SUFFICES ASSUME ReplInv, [Next]_vars PROVE ReplInv'
    OBVIOUS
  <2>1. CASE UNCHANGED vars
    <3>1. Typed' /\ HistoryOK'
      BY <2>1 DEF vars, ReplInv, Typed, HistoryOK
    <3>2. StampsInOrder' /\ FreshIsLast' /\ TwinsApart' /\ BitsPointAway' /\ Distances'
      BY <2>1 DEF vars, ReplInv, StampsInOrder, FreshIsLast, TwinsApart, BitsPointAway,
        Distances
    <3>3. BurstWhenFull' /\ BurstUntwinned' /\ LruBurst' /\ RrBurst'
      BY <2>1 DEF vars, ReplInv, BurstWhenFull, BurstUntwinned, Full, LruBurst, RrBurst
    <3>4. PlruBurst'
      <4>1. policy' = policy /\ mem' = mem /\ run' = run
        BY <2>1 DEF vars
      <4> QED BY <4>1, Zenon DEF ReplInv, PlruBurst
    <3> QED BY <3>1, <3>2, <3>3, <3>4 DEF ReplInv
  <2> QED BY <2>1, HitRepl, FillRepl, PrefetchRepl, FlushRepl DEF Next
<1> QED BY <1>1, InitRepl, PTL DEF Spec

\* LRU evicts the least recently touched line, or the line prefetched behind it
\* in the tick of its last hit.
THEOREM LruExactHolds == Spec => []LruExact
BY ReplInvariance, InvLru, PTL

\* PLRU and LRU never evict the line touched last, whatever bits a flush left
\* behind, but for a prefetch in the tick of a hit in a set of two under LRU.
THEOREM RecentSparedHolds == Spec => []RecentSpared
BY ReplInvariance, InvRecent, PTL

\* SRRIP evicts a line that was hit since its fill only when every line was.
THEOREM ReusedSparedHolds == Spec => []ReusedSpared
BY ReplInvariance, InvReused, PTL

\* A burst of Assoc misses replaces every way once under PLRU, LRU and round
\* robin, where each set picks its own victim.
THEOREM BurstReplacesAllHolds == Spec => []BurstReplacesAll
BY ReplInvariance, InvBurst, PTL
=============================================================================

-------------------------- MODULE BranchUnit_proofs --------------------------
(* The branch unit's history, its snapshots and its return stack are exact,   *)
(* and no index or counter leaves its range, for every table size, history    *)
(* length, ring, stack depth, window and program.                             *)
EXTENDS BranchUnit, FiniteSetTheorems, SequenceTheorems, TLAPS

----------------------------------------------------------------------------
(* Numbers: least elements, powers of two, division and bits. *)

\* A non-empty set of naturals has a least element.
LEMMA NatMin ==
    ASSUME NEW S \in SUBSET Nat, S # {}
    PROVE  \E x \in S : \A y \in S : x <= y
<1> DEFINE R == OpToRel(<, Nat)
<1>1. IsWellFoundedOn(R, Nat)
  BY NatLessThanWellFounded
<1>2. \A x, y \in Nat : y < x => <<y, x>> \in R
  BY DEF OpToRel
<1> HIDE DEF R
<1>3. PICK x \in S : \A y \in S : ~(<<y, x>> \in R)
  BY <1>1, WFMin
<1>4. ASSUME NEW y \in S PROVE x <= y
  <2>1. x \in Nat /\ y \in Nat /\ ~(y < x)
    BY <1>2, <1>3
  <2> QED BY <2>1
<1> QED BY <1>4

\* Table sizes: powers of two count subsets, so they are positive and double.
LEMMA Powers ==
    ASSUME NEW k \in Nat
    PROVE  2^k \in Nat \ {0} /\ 2^(k + 1) = 2 * 2^k
<1> DEFINE S == 1..k
           T == 1..(k + 1)
           A == SUBSET S
           B == {X \cup {k + 1} : X \in A}
           f == [X \in A |-> X \cup {k + 1}]
<1>1. /\ IsFiniteSet(S) /\ Cardinality(S) = k
      /\ IsFiniteSet(T) /\ Cardinality(T) = k + 1
  BY FS_Interval
<1>2. /\ IsFiniteSet(A) /\ Cardinality(A) = 2^k /\ Cardinality(A) \in Nat
      /\ Cardinality(SUBSET T) = 2^(k + 1)
  BY <1>1, FS_SUBSET, FS_CardinalityType
<1>3. Cardinality(A) # 0
  <2>1. A # {}
    OBVIOUS
  <2> HIDE DEF A
  <2> QED BY <1>2, <2>1, FS_EmptySet
<1>4. SUBSET T = A \cup B
  <2>1. T = S \cup {k + 1}
    OBVIOUS
  <2> HIDE DEF S, T
  <2>2. ASSUME NEW X \in SUBSET T PROVE X \in A \cup B
    <3>1. CASE k + 1 \in X
      <4>1. X \ {k + 1} \in A /\ X = (X \ {k + 1}) \cup {k + 1}
        BY <2>1, <3>1
      <4> QED BY <4>1
    <3>2. CASE k + 1 \notin X
      BY <2>1, <3>2
    <3> QED BY <3>1, <3>2
  <2>3. ASSUME NEW X \in A \cup B PROVE X \in SUBSET T
    BY <2>1
  <2> QED BY <2>2, <2>3
<1>5. A \cap B = {}
  <2>1. \A X \in A : k + 1 \notin X
    OBVIOUS
  <2>2. \A X \in B : k + 1 \in X
    OBVIOUS
  <2> HIDE DEF A, B
  <2> QED BY <2>1, <2>2
<1>6. IsFiniteSet(B) /\ Cardinality(B) = Cardinality(A)
  <2>1. k + 1 \notin S
    OBVIOUS
  <2> HIDE DEF S
  <2>2. \A X, Y \in A : f[X] = f[Y] => X = Y
    <3> SUFFICES ASSUME NEW X \in A, NEW Y \in A, f[X] = f[Y] PROVE X = Y
      OBVIOUS
    <3>1. X \cup {k + 1} = Y \cup {k + 1} /\ k + 1 \notin X /\ k + 1 \notin Y
      BY <2>1
    <3> QED BY <3>1
  <2>3. f \in [A -> B] /\ \A t \in B : \E X \in A : f[X] = t
    OBVIOUS
  <2> HIDE DEF A, B, f
  <2>4. f \in Bijection(A, B)
    BY <2>2, <2>3 DEF Bijection, Injection, Surjection, IsInjective
  <2>5. ExistsBijection(A, B)
    BY <2>4 DEF ExistsBijection
  <2> QED BY <1>2, <2>5, FS_Bijection
<1> HIDE DEF A, B, T
<1>7. Cardinality(A \cup B) = Cardinality(A) + Cardinality(B) - Cardinality(A \cap B)
  BY <1>2, <1>6, FS_Union
<1>8. Cardinality(A \cap B) = 0
  BY <1>5, FS_EmptySet
<1> DEFINE c == Cardinality(A)
<1>9. Cardinality(SUBSET T) = c + c
  BY <1>2, <1>4, <1>6, <1>7, <1>8
<1>10. c \in Nat \ {0} /\ c = 2^k /\ 2^(k + 1) = c + c
  BY <1>2, <1>3, <1>9
<1> HIDE DEF c
<1>11. c + c = 2 * c
  BY ONLY <1>10
<1> QED BY ONLY <1>10, <1>11

\* Quotient and remainder, and that they are the only ones.
LEMMA Division ==
    ASSUME NEW a \in Nat, NEW p \in Nat \ {0}
    PROVE  /\ a \div p \in Nat /\ a % p \in 0..(p - 1) /\ a = p * (a \div p) + (a % p)
           /\ \A q \in Nat, r \in 0..(p - 1) : a = p * q + r => a \div p = q /\ a % p = r
<1>1. a \div p \in Nat /\ a % p \in 0..(p - 1) /\ a = p * (a \div p) + (a % p)
  OBVIOUS
<1>2. ASSUME NEW q \in Nat, NEW r \in 0..(p - 1), a = p * q + r
      PROVE  a \div p = q /\ a % p = r
  <2> DEFINE u == a \div p
             s == a % p
  <2>1. u \in Nat /\ s \in 0..(p - 1) /\ p * q + r = p * u + s
    BY <1>1, <1>2
  <2> HIDE DEF u, s
  <2>2. CASE u < q
    <3>1. p * q >= p * (u + 1) /\ p * (u + 1) = p * u + p
      BY <2>1, <2>2
    <3> QED BY <2>1, <3>1
  <2>3. CASE u > q
    <3>1. p * u >= p * (q + 1) /\ p * (q + 1) = p * q + p
      BY <2>1, <2>3
    <3> QED BY <2>1, <3>1
  <2>4. CASE u = q
    BY <2>1, <2>4 DEF u, s
  <2> QED BY <2>1, <2>2, <2>3, <2>4
<1> QED BY <1>1, <1>2

\* Quotient and remainder found by writing the number as a multiple and a rest.
LEMMA Quotient ==
    ASSUME NEW a \in Nat, NEW p \in Nat \ {0}, NEW q \in Nat, NEW r \in 0..(p - 1),
           a = p * q + r
    PROVE  a \div p = q /\ a % p = r
BY Division

\* The lowest bit of a number, and its other bits, which are those of its half.
LEMMA BitShift ==
    ASSUME NEW y \in Nat, NEW b \in {0, 1}
    PROVE  /\ BitOf(2 * y + b, 0) = b
           /\ \A k \in Nat : BitOf(2 * y + b, k + 1) = BitOf(y, k)
<1> DEFINE x == 2 * y + b
<1>1. x \in Nat
  OBVIOUS
<1>2. x \div 1 = x
  BY <1>1
<1>3. x % 2 = b
  OBVIOUS
<1>4. BitOf(x, 0) = b
  BY <1>2, <1>3 DEF BitOf
<1>5. ASSUME NEW k \in Nat PROVE BitOf(x, k + 1) = BitOf(y, k)
  <2> DEFINE p == 2^k
             q == y \div p
             r == y % p
  <2>1. p \in Nat \ {0} /\ 2^(k + 1) = 2 * p
    BY Powers
  <2> HIDE DEF p
  <2>2. q \in Nat /\ r \in 0..(p - 1) /\ y = p * q + r
    BY <2>1, Division
  <2> HIDE DEF q, r
  <2> DEFINE d == 2 * p
             e == 2 * r + b
  <2>3. d \in Nat \ {0} /\ e \in 0..(d - 1)
    BY <2>1, <2>2
  <2>4. x = d * q + e
    <3>1. 2 * (p * q) = (2 * p) * q
      BY <2>1, <2>2
    <3> DEFINE pq == p * q
    <3>2. pq \in Nat /\ y = pq + r /\ 2 * pq = d * q
      BY <2>1, <2>2, <3>1
    <3> HIDE DEF pq, d
    <3> QED BY <2>2, <3>2
  <2> HIDE DEF d, e, x
  <2>5. x \div d = q
    BY <1>1, <2>2, <2>3, <2>4, Quotient
  <2>6. BitOf(x, k + 1) = (x \div d) % 2
    BY <2>1 DEF BitOf, d
  <2>7. BitOf(y, k) = q % 2
    BY DEF BitOf, q, p
  <2> QED BY <2>5, <2>6, <2>7
<1> QED BY <1>4, <1>5

\* Every choice of w bits is the bits of a number below 2^w.
LEMMA BitsOfSet ==
    ASSUME NEW w \in Nat, NEW S \in SUBSET Nat
    PROVE  \E x \in 0..(2^w - 1) : \A k \in 0..(w - 1) : BitOf(x, k) = 1 <=> k \in S
<1> DEFINE Has(v, U) == \E x \in 0..(2^v - 1) :
                            \A k \in 0..(v - 1) : BitOf(x, k) = 1 <=> k \in U
           Bad == {v \in Nat : ~\A U \in SUBSET Nat : Has(v, U)}
<1>1. ASSUME Bad # {} PROVE FALSE
  <2>1. PICK v \in Bad : \A y \in Bad : v <= y
    BY <1>1, NatMin
  <2>2. v \in Nat
    OBVIOUS
  <2>3. CASE v = 0
    <3>1. 0 \in 0..(2^v - 1) /\ 0..(v - 1) = {}
      BY <2>3
    <3> QED BY <3>1
  <2>4. CASE v # 0
    <3> DEFINE m == v - 1
    <3>1. m \in Nat /\ m \notin Bad /\ v = m + 1
      BY <2>1, <2>2, <2>4
    <3>2. \A U \in SUBSET Nat : Has(m, U)
      BY <3>1
    <3>3. ASSUME NEW U \in SUBSET Nat PROVE Has(v, U)
      <4> DEFINE V == {k \in Nat : k + 1 \in U}
                 b == IF 0 \in U THEN 1 ELSE 0
      <4>1. Has(m, V)
        BY <3>2
      <4>2. PICK y \in 0..(2^m - 1) : \A k \in 0..(m - 1) : BitOf(y, k) = 1 <=> k \in V
        BY <4>1
      <4> DEFINE x == 2 * y + b
                 p == 2^m
      <4>3. p \in Nat \ {0} /\ 2^v = 2 * p
        BY <3>1, Powers
      <4>4. y \in Nat /\ y <= p - 1 /\ b \in {0, 1}
        BY <4>3
      <4>5. x \in 0..(2^v - 1)
        <5> HIDE DEF p, b
        <5> QED BY <4>3, <4>4
      <4>6. BitOf(x, 0) = b /\ \A k \in Nat : BitOf(x, k + 1) = BitOf(y, k)
        BY <4>4, BitShift
      <4> HIDE DEF x
      <4>7. ASSUME NEW k \in 0..(v - 1) PROVE BitOf(x, k) = 1 <=> k \in U
        <5>1. CASE k = 0
          BY <4>6, <5>1
        <5>2. CASE k # 0
          <6> DEFINE j == k - 1
          <6>1. j \in 0..(m - 1) /\ j \in Nat /\ k = j + 1
            BY <3>1, <5>2
          <6> HIDE DEF j, m
          <6>2. BitOf(x, k) = BitOf(y, j) /\ (j \in V <=> k \in U)
            BY <4>6, <6>1
          <6> QED BY <4>2, <6>1, <6>2
        <5> QED BY <5>1, <5>2
      <4> QED BY <4>5, <4>7
    <3> QED BY <3>3
  <2> QED BY <2>3, <2>4
<1>2. \A U \in SUBSET Nat : Has(w, U)
  <2>1. w \notin Bad
    BY <1>1
  <2> HIDE DEF Has
  <2> QED BY <2>1
<1> QED BY <1>2

\* The low bits of an exclusive or exist, and are a table index.
LEMMA XorRange ==
    ASSUME NEW a, NEW b, NEW w \in Nat
    PROVE  Xor(a, b, w) \in 0..(2^w - 1)
<1> DEFINE S == {k \in Nat : BitOf(a, k) # BitOf(b, k)}
<1>1. PICK x \in 0..(2^w - 1) : \A k \in 0..(w - 1) : BitOf(x, k) = 1 <=> k \in S
  BY BitsOfSet
<1>2. IsXor(x, a, b, w)
  BY <1>1 DEF IsXor
<1> QED BY <1>2 DEF Xor

\* Numbers less than N apart have different remainders: slots of a ring differ.
LEMMA RingDistinct ==
    ASSUME NEW N \in Nat \ {0}, NEW a \in Nat, NEW b \in Nat, a < b, b < a + N
    PROVE  a % N # b % N
<1> DEFINE q == a \div N
           r == a % N
           u == b \div N
           s == b % N
<1>1. q \in Nat /\ r \in 0..(N - 1) /\ a = N * q + r
  BY Division
<1>2. u \in Nat /\ s \in 0..(N - 1) /\ b = N * u + s
  BY Division
<1> SUFFICES ASSUME r = s PROVE FALSE
  OBVIOUS
<1> HIDE DEF q, r, u, s
<1>3. N * q < N * u /\ N * u < N * q + N
  BY <1>1, <1>2
<1>4. CASE u <= q
  <2>1. N * u <= N * q
    BY <1>1, <1>2, <1>4
  <2> QED BY <1>1, <1>2, <1>3, <2>1
<1>5. CASE u >= q + 1
  <2>1. N * u >= N * (q + 1) /\ N * (q + 1) = N * q + N
    BY <1>1, <1>2, <1>5
  <2> QED BY <1>1, <1>2, <1>3, <2>1
<1> QED BY <1>1, <1>2, <1>4, <1>5

----------------------------------------------------------------------------
(* The counters, the histories and the indices. *)

\* The sizes of the tables, the ring and the counters.
LEMMA Sizes ==
    /\ {2^TablePow2, 2^CompPow2, 2^TAG_BITS, 2^BtbPow2, 2^BtbTagBits, 2^HistBits}
           \subseteq Nat \ {0}
    /\ CTR_MIN \in Int /\ CTR_MAX \in Nat /\ CTR_MIN <= -1
    /\ {SNAP_RING, U_MAX, U_RESET_PERIOD, RasDepth} \subseteq Nat \ {0}
    /\ Window \in Nat /\ Window < SNAP_RING
    /\ Len(HistLens) \in Nat /\ TablePow2 \in Nat /\ CompPow2 \in Nat /\ TAG_BITS \in Nat
<1>1. /\ {TablePow2, CompPow2, TAG_BITS, BtbPow2, BtbTagBits, HistLen} \subseteq Nat
      /\ CtrBits - 1 \in Nat /\ TAG_BITS \in Nat
      /\ {SNAP_RING, U_MAX, U_RESET_PERIOD, RasDepth} \subseteq Nat \ {0}
  <2>1. \A c \in Nat \ {0} : c - 1 \in Nat
    OBVIOUS
  <2>2. {TablePow2, CompPow2, TAG_BITS, BtbPow2, BtbTagBits, HistLen} \subseteq Nat
    BY DirPredAssumption, TageAssumption, BranchUnitAssumption
  <2>3. CtrBits - 1 \in Nat
    BY <2>1, TageAssumption
  <2> QED BY <2>2, <2>3, TageAssumption, RasDepthAssumption
<1>2. Len(HistLens) \in Nat /\ HistLens[Len(HistLens)] \in Nat
  <2>1. Len(HistLens) \in Nat /\ Len(HistLens) # 0
    BY TageAssumption, LenProperties, EmptySeq
  <2>2. Len(HistLens) \in 1..Len(HistLens)
    BY <2>1
  <2>3. HistLens[Len(HistLens)] \in Nat \ {0}
    BY <2>2, TageAssumption, ElementOfSeq
  <2> QED BY <2>1, <2>3
<1>3. HistBits \in Nat
  BY <1>1, <1>2, TageAssumption DEF HistBits, GhrMaskBits
<1>4. Window \in Nat /\ Window < SNAP_RING
  BY <1>1, WindowAssumption
<1> DEFINE c == 2^(CtrBits - 1)
<1>5. c \in Nat \ {0}
  BY <1>1, Powers
<1>6. CTR_MIN = -c /\ CTR_MAX = c - 1
  BY DEF CTR_MIN, CTR_MAX
<1> HIDE DEF c
<1>7. CTR_MIN \in Int /\ CTR_MAX \in Nat /\ CTR_MIN <= -1
  BY ONLY <1>5, <1>6
<1>8. {2^TablePow2, 2^CompPow2, 2^TAG_BITS, 2^BtbPow2, 2^BtbTagBits, 2^HistBits}
           \subseteq Nat \ {0}
  BY <1>1, <1>3, Powers
<1> QED BY <1>1, <1>2, <1>4, <1>7, <1>8

\* A two-bit counter stays a two-bit counter.
LEMMA CounterSteps ==
    ASSUME NEW c \in 0..3, NEW taken \in BOOLEAN, NEW hit \in BOOLEAN
    PROVE  Saturated(c, taken) \in 0..3 /\ Trained(c, taken, hit) \in 0..3
BY DEF Saturated, Trained

\* A component counter stays within its bits.
LEMMA CtrSteps ==
    ASSUME NEW c \in CTR_MIN..CTR_MAX, NEW taken \in BOOLEAN
    PROVE  update_ctr(c, taken) \in CTR_MIN..CTR_MAX
<1>1. c \in Int /\ CTR_MIN \in Int /\ CTR_MAX \in Int /\ CTR_MIN <= c /\ c <= CTR_MAX
  BY Sizes
<1>2. CASE taken
  BY ONLY <1>1, <1>2 DEF update_ctr
<1>3. CASE ~taken
  BY ONLY <1>1, <1>3 DEF update_ctr
<1> QED BY <1>2, <1>3

\* The history keeps its length.
LEMMA ShiftedRange ==
    ASSUME NEW g \in Nat, NEW taken \in BOOLEAN
    PROVE  Shifted(g, taken) \in 0..(2^HistBits - 1)
<1> DEFINE d == 2^HistBits
           x == 2 * g + Bit(taken)
<1>1. d \in Nat \ {0} /\ x \in Nat
  BY Sizes DEF Bit
<1>2. Shifted(g, taken) = x % d
  BY DEF Shifted
<1> HIDE DEF d, x
<1>3. x % d \in 0..(d - 1)
  BY <1>1, Division
<1> QED BY <1>2, <1>3 DEF d

\* Every index is a row of its table, every tag fits its bits.
LEMMA IndexRange ==
    ASSUME NEW pc \in Nat, NEW g
    PROVE  /\ FoldedPc(pc) \in Idx /\ LocalIdx(pc) \in Idx /\ GlobalIdx(pc, g) \in Idx
           /\ \A i \in Comps : /\ comp_idx(pc, g, i) \in 0..(2^CompPow2 - 1)
                               /\ comp_tag(pc, g, i) \in 0..(2^TAG_BITS - 1)
           /\ BtbIdx(pc) \in Rows /\ BtbTag(pc) \in 0..(2^BtbTagBits - 1)
<1>1. TablePow2 \in Nat /\ CompPow2 \in Nat /\ TAG_BITS \in Nat
  BY Sizes
<1>2. FoldedPc(pc) \in Idx /\ GlobalIdx(pc, g) \in Idx
  BY <1>1, XorRange DEF FoldedPc, GlobalIdx, Idx
<1>3. ASSUME NEW i \in Comps
      PROVE  /\ comp_idx(pc, g, i) \in 0..(2^CompPow2 - 1)
             /\ comp_tag(pc, g, i) \in 0..(2^TAG_BITS - 1)
  BY <1>1, XorRange DEF comp_idx, comp_tag
<1>4. ASSUME NEW a \in Nat, NEW d \in Nat \ {0} PROVE a % d \in 0..(d - 1) /\ a \div d \in Nat
  BY Division
<1>5. LocalIdx(pc) \in Idx
  BY <1>4, Sizes DEF LocalIdx, Idx
<1>6. BtbIdx(pc) \in Rows
  BY <1>4, Sizes DEF BtbIdx, Rows
<1>7. BtbTag(pc) \in 0..(2^BtbTagBits - 1)
  BY <1>4, Sizes DEF BtbTag
<1> QED BY <1>2, <1>3, <1>5, <1>6, <1>7

\* The counter a prediction is read from has two bits.
LEMMA CounterRange ==
    ASSUME NEW kind \in Kinds \ {"tage"}, NEW t \in DirTables, NEW pc \in Nat, NEW g,
           NEW target \in Nat
    PROVE  Counter(kind, t, pc, g) \in 0..3 /\ Taken(kind, t, pc, g, target) \in BOOLEAN
<1>1. /\ FoldedPc(pc) \in Idx /\ LocalIdx(pc) \in Idx /\ GlobalIdx(pc, g) \in Idx
  BY IndexRange
<1>2. /\ t.table[FoldedPc(pc)] \in 0..3 /\ t.table[GlobalIdx(pc, g)] \in 0..3
      /\ t.local[LocalIdx(pc)] \in 0..3
  BY <1>1 DEF DirTables, Counters
<1>3. Counter(kind, t, pc, g) \in 0..3
  BY <1>2 DEF Counter, Kinds
<1>4. Taken(kind, t, pc, g, target) \in BOOLEAN
  <2>1. (target < pc) \in BOOLEAN /\ (Counter(kind, t, pc, g) >= 2) \in BOOLEAN
    BY <1>3
  <2> QED BY ONLY <2>1, Zenon DEF Taken
<1> QED BY <1>3, <1>4

\* Training keeps the tables of the predictors without tags in range.
LEMMA DirTrainedType ==
    ASSUME NEW kind \in Kinds, NEW t \in DirTables, NEW pc \in Nat, NEW taken \in BOOLEAN,
           NEW hit \in BOOLEAN, NEW old \in 0..3, NEW g
    PROVE  DirTrained(kind, t, pc, taken, hit, old, g) \in DirTables
<1>1. /\ FoldedPc(pc) \in Idx /\ LocalIdx(pc) \in Idx /\ GlobalIdx(pc, g) \in Idx
  BY IndexRange
<1>2. Trained(old, taken, hit) \in 0..3
  BY CounterSteps
<1>3. ASSUME NEW T \in Counters, NEW i \in Idx, NEW c \in 0..3
      PROVE  [T EXCEPT ![i] = c] \in Counters
  BY DEF Counters
<1>4. ASSUME NEW T \in Counters, NEW i \in Idx, NEW ok \in BOOLEAN
      PROVE  [T EXCEPT ![i] = Saturated(@, ok)] \in Counters
  <2>1. T[i] \in 0..3
    BY DEF Counters
  <2> QED BY <2>1, <1>3, CounterSteps
<1>5. CASE kind = "bimodal"
  BY <1>1, <1>2, <1>3, <1>5 DEF DirTrained, DirTables
<1>6. CASE kind = "gshare"
  BY <1>1, <1>2, <1>3, <1>6 DEF DirTrained, DirTables
<1>7. CASE kind = "tournament"
  <2> DEFINE i == GlobalIdx(pc, g)
             l == LocalIdx(pc)
             ok == (t.table[i] >= 2) = taken
  <2>1. t.table \in Counters /\ t.local \in Counters /\ t.sel \in Counters
    BY DEF DirTables
  <2>2. /\ [t.table EXCEPT ![i] = Saturated(@, taken)] \in Counters
        /\ [t.local EXCEPT ![l] = Saturated(@, taken)] \in Counters
        /\ [t.sel EXCEPT ![l] = Saturated(@, ok)] \in Counters
    BY <1>1, <1>4, <2>1
  <2>3. TournamentTrained(t, pc, taken, g) \in DirTables
    BY <2>1, <2>2 DEF TournamentTrained, DirTables
  <2> QED BY <1>7, <2>3 DEF DirTrained
<1>8. CASE kind \notin {"bimodal", "gshare", "tournament"}
  BY <1>8 DEF DirTrained
<1> QED BY <1>5, <1>6, <1>7, <1>8

----------------------------------------------------------------------------
(* TAGE: what predict records. *)

\* The least of a set of components ...
LEMMA MinIn ==
    ASSUME NEW S \in SUBSET Nat, S # {}
    PROVE  Min(S) \in S
<1>1. \E x \in S : \A y \in S : x <= y
  BY NatMin
<1> QED BY <1>1, Zenon DEF Min

\* ... and the greatest of those up to L.
LEMMA MaxIn ==
    ASSUME NEW L \in Nat, NEW S \in SUBSET (0..L), S # {}
    PROVE  Max(S) \in S
<1> DEFINE T == {L - x : x \in S}
<1>1. T \in SUBSET Nat /\ T # {}
  <2>1. PICK x \in S : TRUE
    OBVIOUS
  <2>2. L - x \in T
    OBVIOUS
  <2>3. ASSUME NEW y \in S PROVE L - y \in Nat
    <3>1. y \in 0..L
      OBVIOUS
    <3> QED BY <3>1
  <2> QED BY <2>2, <2>3
<1>2. PICK t \in T : \A y \in T : t <= y
  BY <1>1, NatMin
<1>3. PICK x \in S : t = L - x
  OBVIOUS
<1>4. \A y \in S : x >= y
  <2> SUFFICES ASSUME NEW y \in S PROVE x >= y
    OBVIOUS
  <2>1. L - x <= L - y
    BY <1>2, <1>3
  <2> QED BY <2>1
<1> QED BY <1>4, Zenon DEF Max

\* What predict records is a well-formed snapshot.
LEMMA SnapshotType ==
    ASSUME NEW t \in TageTables, NEW pc \in Nat, NEW g \in Nat
    PROVE  Snapshot(t, pc, g) \in Snaps /\ Snapshot(t, pc, g).ghr = g
<1> DEFINE bimodal == t.base[FoldedPc(pc)] >= 2
           fidx == [i \in Comps |-> comp_idx(pc, g, i)]
           ftag == [i \in Comps |-> comp_tag(pc, g, i)]
           ent(i) == t.comp[i][fidx[i]]
           hits == {i \in Comps : ent(i).valid /\ ent(i).tag = ftag[i]}
           prov == Max(hits \cup {Base})
           alt  == Max((hits \ {prov}) \cup {Base})
           dir(i) == IF i = Base THEN bimodal ELSE ent(i).ctr >= 0
           weak == prov # Base /\ ent(prov).ctr \in {-1, 0} /\ ent(prov).u = 0
           final == IF weak THEN alt ELSE prov
<1>1. bimodal \in BOOLEAN
  <2>1. t.base[FoldedPc(pc)] \in 0..3
    BY IndexRange DEF TageTables, Counters
  <2> QED BY <2>1
<1>2. /\ fidx \in [Comps -> 0..(2^CompPow2 - 1)]
      /\ ftag \in [Comps -> 0..(2^TAG_BITS - 1)]
  BY IndexRange
<1>3. ASSUME NEW i \in Comps PROVE ent(i) \in TagEntries
  <2>1. fidx[i] \in 0..(2^CompPow2 - 1) /\ t.comp \in Components
    BY <1>2 DEF TageTables
  <2> HIDE DEF fidx
  <2> QED BY <2>1 DEF Components
<1>4. ASSUME NEW i \in Comps \cup {Base} PROVE dir(i) \in BOOLEAN
  <2>1. CASE i = Base
    BY <1>1, <2>1
  <2>2. CASE i # Base
    <3>1. ent(i).ctr \in Int
      BY <1>3, <2>2, Sizes DEF TagEntries
    <3> QED BY <2>2, <3>1
  <2> QED BY <2>1, <2>2
<1> HIDE DEF ent, bimodal, fidx, ftag
<1>5. Comps \cup {Base} \subseteq 0..Len(HistLens) /\ Len(HistLens) \in Nat
  <2>1. Len(HistLens) \in Nat
    BY Sizes
  <2>2. \A k \in Nat : 1..k \cup {0} \subseteq 0..k
    OBVIOUS
  <2> QED BY ONLY <2>1, <2>2 DEF Comps, Base
<1>6. hits \subseteq Comps
  OBVIOUS
<1> HIDE DEF hits
<1>7. prov \in Comps \cup {Base}
  <2>1. hits \cup {Base} \in SUBSET (0..Len(HistLens)) /\ hits \cup {Base} # {}
    BY <1>5, <1>6
  <2> QED BY <1>5, <1>6, <2>1, MaxIn
<1> HIDE DEF prov
<1>8. alt \in Comps \cup {Base}
  <2>1. (hits \ {prov}) \cup {Base} \in SUBSET (0..Len(HistLens))
    BY <1>5, <1>6
  <2>2. Max((hits \ {prov}) \cup {Base}) \in (hits \ {prov}) \cup {Base}
    BY <1>5, <2>1, MaxIn
  <2> QED BY <1>6, <2>2
<1> HIDE DEF alt
<1>9. final \in Comps \cup {Base}
  BY <1>7, <1>8
<1> HIDE DEF dir, weak, final
<1>10. Snapshot(t, pc, g) =
         [valid |-> TRUE, ghr |-> g, fidx |-> fidx, ftag |-> ftag,
          prov |-> prov, provTaken |-> dir(prov), altTaken |-> dir(alt),
          bimodal |-> bimodal, taken |-> dir(final)]
  BY DEF Snapshot, Provided, bimodal, fidx, ftag, ent, hits, prov, alt, dir, weak, final
<1>11. dir(prov) \in BOOLEAN /\ dir(alt) \in BOOLEAN /\ dir(final) \in BOOLEAN
  BY <1>4, <1>7, <1>8, <1>9
<1> QED BY <1>1, <1>2, <1>7, <1>10, <1>11 DEF Snaps

\* The fields of the TAGE tables, one at a time.
LEMMA TageFields ==
    ASSUME NEW A, NEW B, NEW C, NEW D, NEW E,
           NEW t \in [base : A, comp : B, ring : C, wr : D, uctr : E],
           NEW a \in A, NEW b \in B, NEW c \in C, NEW d \in D, NEW e \in E
    PROVE  /\ t.base \in A /\ t.comp \in B /\ t.ring \in C /\ t.wr \in D /\ t.uctr \in E
           /\ LET u == [t EXCEPT !.ring = c, !.wr = d]
              IN  u \in [base : A, comp : B, ring : C, wr : D, uctr : E]
                  /\ u.ring = c /\ u.wr = d
           /\ LET u == [t EXCEPT !.base = a, !.comp = b, !.uctr = e, !.ring = c]
              IN  u \in [base : A, comp : B, ring : C, wr : D, uctr : E]
                  /\ u.ring = c /\ u.wr = t.wr
OBVIOUS

\* A prediction writes one slot of the ring.
LEMMA TagePredictedType ==
    ASSUME NEW t \in TageTables, NEW s \in Slots, NEW hit
    PROVE  /\ TagePredicted(t, s, hit) \in TageTables
           /\ TagePredicted(t, s, hit).wr = t.wr + 1
           /\ \A id \in Nat : SnapOf(TagePredicted(t, s, hit), id) =
                 IF id % SNAP_RING = t.wr % SNAP_RING THEN s ELSE SnapOf(t, id)
<1>1. t.wr \in Nat /\ t.ring \in [0..(SNAP_RING - 1) -> Slots]
  BY DEF TageTables
<1>2. \A id \in Nat : id % SNAP_RING \in 0..(SNAP_RING - 1)
  BY Sizes, Division
<1>3. TagePredicted(t, s, hit) =
        [t EXCEPT !.ring = [t.ring EXCEPT ![t.wr % SNAP_RING] = s], !.wr = t.wr + 1]
  BY DEF TagePredicted
<1> DEFINE r == [t.ring EXCEPT ![t.wr % SNAP_RING] = s]
           u == TagePredicted(t, s, hit)
<1>4. /\ r \in [0..(SNAP_RING - 1) -> Slots]
      /\ \A x \in 0..(SNAP_RING - 1) : r[x] = IF x = t.wr % SNAP_RING THEN s ELSE t.ring[x]
  BY <1>1, <1>2
<1>5. u \in TageTables /\ u.wr = t.wr + 1 /\ u.ring = r
  <2> HIDE DEF r
  <2>1. u = [t EXCEPT !.ring = r, !.wr = t.wr + 1]
    BY <1>3 DEF r
  <2> HIDE DEF u
  <2>2. t.base \in Counters /\ t.comp \in Components /\ t.uctr \in 0..(U_RESET_PERIOD - 1)
    BY DEF TageTables
  <2>3. t.wr + 1 \in Nat
    BY <1>1
  <2> QED BY <1>4, <2>1, <2>2, <2>3, TageFields DEF TageTables
<1> HIDE DEF r, u
<1>6. ASSUME NEW id \in Nat
      PROVE  SnapOf(u, id) = IF id % SNAP_RING = t.wr % SNAP_RING THEN s ELSE SnapOf(t, id)
  BY <1>2, <1>4, <1>5 DEF SnapOf
<1> QED BY <1>5, <1>6 DEF u

----------------------------------------------------------------------------
(* TAGE: what update does to the tables. *)

\* A trained entry of a component is an entry: in particular u stays within its bits.
LEMMA EntryTrained ==
    ASSUME NEW e \in TagEntries, NEW taken \in BOOLEAN, NEW s \in Snaps
    PROVE  Stepped(e, s, taken) \in TagEntries
<1> DEFINE x == e.u
           v == update_u(x, s, taken)
           c == update_ctr(e.ctr, taken)
<1>1. e.u \in 0..U_MAX /\ e.ctr \in CTR_MIN..CTR_MAX
  BY DEF TagEntries
<1>2. x \in Nat /\ U_MAX \in Nat /\ x <= U_MAX
  BY <1>1, Sizes
<1>3. c \in CTR_MIN..CTR_MAX
  BY <1>1, CtrSteps
<1>4. v \in 0..U_MAX
  <2> DEFINE differ == s.provTaken # s.altTaken
             ok == s.provTaken = taken
  <2> HIDE DEF x
  <2>1. v = IF differ /\ ok /\ x < U_MAX THEN x + 1
            ELSE IF differ /\ ~ok /\ x > 0 THEN x - 1 ELSE x
    BY ONLY Zenon DEF update_u
  <2> HIDE DEF differ, ok, v
  <2> QED BY ONLY <1>2, <2>1
<1> HIDE DEF v, c
<1>5. [e EXCEPT !.ctr = c, !.u = v] \in TagEntries
  BY <1>3, <1>4 DEF TagEntries
<1> QED BY <1>5 DEF v, c, x, Stepped

\* Writing an entry of a component, or the same row of every component.
LEMMA ComponentWritten ==
    ASSUME NEW comp \in Components, NEW i \in Comps, NEW x \in 0..(2^CompPow2 - 1),
           NEW e \in TagEntries
    PROVE  [comp EXCEPT ![i][x] = e] \in Components /\ comp[i][x] \in TagEntries
BY DEF Components

\* The provider's training keeps the components well formed.
LEMMA ProviderTrainedType ==
    ASSUME NEW comp \in Components, NEW s \in Snaps, NEW taken \in BOOLEAN
    PROVE  ProviderTrained(comp, s, taken) \in Components
<1>1. CASE s.prov = Base
  BY <1>1 DEF ProviderTrained
<1>2. CASE s.prov # Base
  <2> DEFINE i == s.prov
             x == s.fidx[s.prov]
             e == comp[i][x]
             f == Stepped(e, s, taken)
  <2>1. i \in Comps /\ s.fidx \in [Comps -> 0..(2^CompPow2 - 1)]
    BY <1>2 DEF Snaps
  <2>2. x \in 0..(2^CompPow2 - 1)
    BY <2>1
  <2>3. e \in TagEntries
    <3> HIDE DEF i, x
    <3> QED BY <2>1, <2>2 DEF Components
  <2>4. f \in TagEntries
    <3> HIDE DEF e
    <3> QED BY <2>3, EntryTrained
  <2>5. ProviderTrained(comp, s, taken) = [comp EXCEPT ![i][x] = f]
    BY ONLY <1>2 DEF ProviderTrained
  <2> HIDE DEF f, x, i
  <2>6. [comp EXCEPT ![i][x] = f] \in Components
    BY <2>1, <2>2, <2>4, ComponentWritten
  <2> QED BY ONLY <2>5, <2>6
<1> QED BY <1>1, <1>2

\* Allocation keeps the components well formed: usefulness is only taken from
\* entries that have some.
LEMMA AllocatedType ==
    ASSUME NEW comp \in Components, NEW s \in Snaps, NEW taken \in BOOLEAN
    PROVE  Allocated(comp, s, taken) \in Components
<1> DEFINE longer == {i \in Comps : i > s.prov}
           ent(i) == comp[i][s.fidx[i]]
           free == {i \in longer : ~ent(i).valid \/ ent(i).u = 0}
<1>1. s.fidx \in [Comps -> 0..(2^CompPow2 - 1)] /\ s.ftag \in [Comps -> 0..(2^TAG_BITS - 1)]
  BY DEF Snaps
<1>2. \A i \in Comps : s.fidx[i] \in 0..(2^CompPow2 - 1) /\ s.ftag[i] \in 0..(2^TAG_BITS - 1)
  BY <1>1
<1>3. longer \subseteq Comps /\ free \subseteq longer /\ Comps \subseteq Nat
  BY DEF Comps
<1>4. CASE s.taken = taken
  BY <1>4, Zenon DEF Allocated
<1>5. CASE s.taken # taken /\ free # {}
  <2> DEFINE m == Min(free)
             e == [valid |-> TRUE, tag |-> s.ftag[m],
                   ctr |-> IF taken THEN 0 ELSE -1, u |-> 0]
  <2>1. m \in Comps
    <3>1. free \in SUBSET Nat
      BY <1>3
    <3> HIDE DEF free
    <3> QED BY <1>3, <1>5, <3>1, MinIn
  <2>2. Allocated(comp, s, taken) = [comp EXCEPT ![m][s.fidx[m]] = e]
    BY <1>5, Zenon DEF Allocated
  <2> HIDE DEF m
  <2>3. e \in TagEntries
    <3>1. 0 \in 0..U_MAX /\ 0 \in CTR_MIN..CTR_MAX /\ -1 \in CTR_MIN..CTR_MAX
      BY Sizes
    <3> QED BY <1>2, <2>1, <3>1 DEF TagEntries
  <2> HIDE DEF e
  <2>4. [comp EXCEPT ![m][s.fidx[m]] = e] \in Components
    <3> DEFINE x == s.fidx[m]
    <3>1. x \in 0..(2^CompPow2 - 1)
      BY <1>2, <2>1
    <3> HIDE DEF x
    <3>2. [comp EXCEPT ![m][x] = e] \in Components
      BY <2>1, <2>3, <3>1, ComponentWritten
    <3> QED BY ONLY <3>2 DEF x
  <2> QED BY ONLY <2>2, <2>4
<1>6. CASE s.taken # taken /\ free = {}
  <2> DEFINE row(i) == IF i \notin longer THEN comp[i]
                       ELSE [comp[i] EXCEPT ![s.fidx[i]].u = @ - 1]
  <2>1. Allocated(comp, s, taken) = [i \in Comps |-> row(i)]
    BY <1>6, Zenon DEF Allocated
  <2>2. ASSUME NEW i \in Comps PROVE row(i) \in [0..(2^CompPow2 - 1) -> TagEntries]
    <3>1. comp[i] \in [0..(2^CompPow2 - 1) -> TagEntries]
      BY DEF Components
    <3>2. CASE i \notin longer
      BY <3>1, <3>2
    <3>3. CASE i \in longer
      <4> DEFINE x == s.fidx[i]
                 T == comp[i]
                 e == T[x]
      <4>1. x \in 0..(2^CompPow2 - 1)
        BY <1>2
      <4>2. e \in TagEntries /\ e.u # 0
        <5>1. i \notin free
          BY <1>6
        <5>2. e.u # 0
          BY <3>3, <5>1
        <5> QED BY <3>1, <4>1, <5>2
      <4>3. e.u - 1 \in 0..U_MAX
        <5>1. e.u \in 0..U_MAX /\ U_MAX \in Nat
          BY <4>2, Sizes DEF TagEntries
        <5> HIDE DEF e
        <5> QED BY <4>2, <5>1
      <4> DEFINE f == [e EXCEPT !.u = e.u - 1]
      <4>4. f \in TagEntries
        <5> HIDE DEF e
        <5> QED BY <4>2, <4>3 DEF TagEntries
      <4>5. row(i) = [T EXCEPT ![x] = f]
        BY <3>3
      <4> HIDE DEF f, x, T, row
      <4> QED BY <3>1, <4>1, <4>4, <4>5 DEF T
    <3> QED BY <3>2, <3>3
  <2> HIDE DEF row
  <2> QED BY <2>1, <2>2 DEF Components
<1> QED BY <1>4, <1>5, <1>6

\* Ageing halves the usefulness counters.
LEMMA AgedType ==
    ASSUME NEW comp \in Components
    PROVE  Aged(comp) \in Components
<1> DEFINE D == 0..(2^CompPow2 - 1)
           old(i, x) == [comp[i][x] EXCEPT !.u = @ \div 2]
<1>1. ASSUME NEW i \in Comps PROVE comp[i] \in [D -> TagEntries]
  BY DEF Components
<1>2. ASSUME NEW i \in Comps, NEW x \in D PROVE old(i, x) \in TagEntries
  <2> DEFINE e == comp[i][x]
             h == e.u \div 2
  <2>1. e \in TagEntries
    BY <1>1
  <2>2. e.u \in 0..U_MAX /\ U_MAX \in Nat
    BY <2>1, Sizes DEF TagEntries
  <2>3. h \in 0..U_MAX
    <3> HIDE DEF e
    <3> QED BY <2>2
  <2>4. old(i, x) = [e EXCEPT !.u = h]
    OBVIOUS
  <2> HIDE DEF e, h, old
  <2> QED BY <2>1, <2>3, <2>4 DEF TagEntries
<1>3. \A i \in Comps : DOMAIN comp[i] = D
  BY <1>1
<1>4. Aged(comp) = [i \in Comps |-> [x \in D |-> old(i, x)]]
  BY <1>3 DEF Aged
<1> HIDE DEF D, old
<1>5. Aged(comp) \in [Comps -> [D -> TagEntries]]
  BY <1>2, <1>4
<1> QED BY <1>5 DEF Components, D

\* update keeps the tables in range, and touches no slot of the ring but its own.
LEMMA TageTrainedType ==
    ASSUME NEW t \in TageTables, NEW pc \in Nat, NEW taken \in BOOLEAN, NEW id \in Nat
    PROVE  /\ TageTrained(t, pc, taken, id) \in TageTables
           /\ TageTrained(t, pc, taken, id).wr = t.wr
           /\ \A j \in Nat : j % SNAP_RING # id % SNAP_RING =>
                 SnapOf(TageTrained(t, pc, taken, id), j) = SnapOf(t, j)
<1> DEFINE s == SnapOf(t, id)
           u == TageTrained(t, pc, taken, id)
           k == id % SNAP_RING
           Ring == [0..(SNAP_RING - 1) -> Slots]
<1>1. \A j \in Nat : j % SNAP_RING \in 0..(SNAP_RING - 1)
  BY Sizes, Division
<1>2. /\ t.base \in Counters /\ t.comp \in Components /\ t.ring \in Ring
      /\ t.uctr \in 0..(U_RESET_PERIOD - 1) /\ t.wr \in Nat
  BY DEF TageTables
<1>3. CASE ~SnapKept(t, id) \/ ~s.valid
  <2>1. u = t
    BY <1>3 DEF TageTrained
  <2> QED BY <2>1
<1>4. CASE SnapKept(t, id) /\ s.valid
  <2> DEFINE comp == Allocated(ProviderTrained(t.comp, s, taken), s, taken)
             age == t.uctr + 1 >= U_RESET_PERIOD
             a == [t.base EXCEPT ![FoldedPc(pc)] = Saturated(@, taken)]
             b == IF age THEN Aged(comp) ELSE comp
             e == IF age THEN 0 ELSE t.uctr + 1
             f == [s EXCEPT !.valid = FALSE]
             c == [t.ring EXCEPT ![k] = f]
  <2>1. u = [t EXCEPT !.base = a, !.comp = b, !.uctr = e, !.ring = c]
    BY <1>4 DEF TageTrained, SnapOf
  <2>2. s \in Snaps
    <3>1. s \in Slots
      BY <1>1, <1>2 DEF SnapOf
    <3>2. NoSnap.valid = FALSE
      BY DEF NoSnap
    <3> HIDE DEF s
    <3> QED BY <1>4, <3>1, <3>2 DEF Slots
  <2>3. a \in Counters
    <3>1. FoldedPc(pc) \in Idx
      BY IndexRange
    <3>2. t.base[FoldedPc(pc)] \in 0..3
      BY <1>2, <3>1 DEF Counters
    <3>3. Saturated(t.base[FoldedPc(pc)], taken) \in 0..3
      BY <3>2, CounterSteps
    <3> QED BY <1>2, <3>1, <3>3 DEF Counters
  <2>4. comp \in Components
    <3> HIDE DEF s
    <3>1. ProviderTrained(t.comp, s, taken) \in Components
      BY <1>2, <2>2, ProviderTrainedType
    <3> QED BY <2>2, <3>1, AllocatedType
  <2>5. b \in Components
    <3> HIDE DEF comp
    <3> QED BY <2>4, AgedType
  <2>6. e \in 0..(U_RESET_PERIOD - 1)
    <3> DEFINE x == t.uctr
    <3>1. x \in 0..(U_RESET_PERIOD - 1) /\ U_RESET_PERIOD \in Nat \ {0}
      BY <1>2, Sizes
    <3>2. e = IF x + 1 >= U_RESET_PERIOD THEN 0 ELSE x + 1
      OBVIOUS
    <3> HIDE DEF x, e
    <3> QED BY ONLY <3>1, <3>2
  <2>7. f \in Slots
    <3> HIDE DEF s
    <3> QED BY <2>2 DEF Snaps, Slots
  <2>8. c \in Ring /\ \A x \in 0..(SNAP_RING - 1) : x # k => c[x] = t.ring[x]
    <3> HIDE DEF f
    <3> QED BY <1>1, <1>2, <2>7
  <2> HIDE DEF a, b, c, e, u, Ring
  <2>9. u \in [base : Counters, comp : Components, ring : Ring, wr : Nat,
               uctr : 0..(U_RESET_PERIOD - 1)]
        /\ u.ring = c /\ u.wr = t.wr
    BY <1>2, <2>1, <2>3, <2>5, <2>6, <2>8, TageFields DEF TageTables, Ring
  <2>10. ASSUME NEW j \in Nat, j % SNAP_RING # k PROVE SnapOf(u, j) = SnapOf(t, j)
    BY <1>1, <2>8, <2>9, <2>10 DEF SnapOf
  <2> QED BY <2>9, <2>10 DEF u, TageTables, Ring
<1> QED BY <1>3, <1>4

----------------------------------------------------------------------------
(* The return stack. *)

\* Remainder of a number below twice the divisor.
LEMMA ModTwice ==
    ASSUME NEW N \in Nat \ {0}, NEW x \in 0..(2 * N - 1)
    PROVE  x % N = IF x < N THEN x ELSE x - N
<1>1. CASE x < N
  <2>1. x \in Nat /\ x = N * 0 + x /\ x \in 0..(N - 1) /\ 0 \in Nat
    BY <1>1
  <2> QED BY <1>1, <2>1, Quotient
<1>2. CASE ~(x < N)
  <2> DEFINE r == x - N
  <2>1. x \in Nat /\ x = N * 1 + r /\ r \in 0..(N - 1) /\ 1 \in Nat
    BY <1>2
  <2> HIDE DEF r
  <2>2. x % N = r
    BY <2>1, Quotient
  <2> QED BY <1>2, <2>2 DEF r
<1> QED BY <1>1, <1>2

\* The slot d places below slot t of the return stack.
Below(t, d) == IF t >= d THEN t - d ELSE t - d + RasDepth

\* It is a slot.
LEMMA BelowRange ==
    ASSUME NEW t \in 0..(RasDepth - 1), NEW d \in 0..(RasDepth - 1)
    PROVE  Below(t, d) \in 0..(RasDepth - 1)
BY RasDepthAssumption DEF Below

\* The live entries: as many as the count, the newest in the top slot.
LEMMA LiveSlots ==
    ASSUME NEW r \in Stacks
    PROVE  /\ Live(r) \in Seq(Nat) /\ Len(Live(r)) = r.cnt
           /\ \A i \in 1..r.cnt : Live(r)[i] = r.stack[Below(r.tos, r.cnt - i)]
<1> DEFINE N == RasDepth
           c == r.cnt
           t == r.tos
           slot(i) == (t + N - (c - i)) % N
<1>1. N \in Nat \ {0} /\ c \in 0..N /\ t \in 0..(N - 1) /\ r.stack \in [0..(N - 1) -> Nat]
  BY RasDepthAssumption DEF Stacks
<1>2. Live(r) = [i \in 1..c |-> r.stack[slot(i)]]
  BY DEF Live
<1> HIDE DEF c, t, N
<1>3. ASSUME NEW i \in 1..c
      PROVE  slot(i) = Below(t, c - i) /\ c - i \in 0..(N - 1)
  <2> DEFINE x == t + N - (c - i)
  <2>1. x \in 0..(2 * N - 1) /\ c - i \in 0..(N - 1)
    BY <1>1
  <2>2. x < N <=> ~(t >= c - i)
    BY <1>1
  <2>3. x % N = IF x < N THEN x ELSE x - N
    <3> HIDE DEF x
    <3> QED BY <1>1, <2>1, ModTwice
  <2>4. x = t - (c - i) + N /\ x - N = t - (c - i)
    BY <1>1
  <2> HIDE DEF x
  <2>5. x % N = Below(t, c - i)
    BY <2>2, <2>3, <2>4 DEF Below, N
  <2> QED BY <2>1, <2>5 DEF x
<1>4. ASSUME NEW i \in 1..c PROVE r.stack[slot(i)] \in Nat
  <2> DEFINE b == Below(t, c - i)
  <2>1. b \in 0..(N - 1)
    BY <1>1, <1>3, BelowRange DEF N
  <2>2. slot(i) = b
    BY <1>3
  <2> HIDE DEF b, slot
  <2> QED BY <1>1, <2>1, <2>2
<1> HIDE DEF slot
<1>5. Live(r) \in [1..c -> Nat] /\ c \in Nat /\ \A i \in 1..c : Live(r)[i] = r.stack[slot(i)]
  BY <1>1, <1>2, <1>4
<1>6. Live(r) \in Seq(Nat) /\ Len(Live(r)) = c
  <2>1. Live(r) \in Seq(Nat)
    BY <1>5, IsASeq
  <2>2. DOMAIN Live(r) = 1..c
    BY <1>5
  <2> QED BY <1>5, <2>1, <2>2, LenProperties
<1>7. ASSUME NEW i \in 1..c PROVE Live(r)[i] = r.stack[Below(t, c - i)]
  BY <1>3, <1>5
<1> QED BY <1>6, <1>7 DEF c, t

\* A sequence without its oldest entry when it is longer than the ring.
Kept(s) == IF Len(s) > RasDepth THEN Tail(s) ELSE s

\* A push appends, and a push onto the full ring forgets the oldest entry.
LEMMA LivePush ==
    ASSUME NEW r \in Stacks, NEW a \in Nat
    PROVE  push(r, a) \in Stacks /\ Live(push(r, a)) = Kept(Append(Live(r), a))
<1> DEFINE N == RasDepth
           c == r.cnt
           t == r.tos
           u == (t + 1) % N
           p == push(r, a)
           d == IF c < N THEN c + 1 ELSE c
           s == Append(Live(r), a)
           k == Kept(s)
<1>1. N \in Nat \ {0} /\ c \in 0..N /\ t \in 0..(N - 1) /\ r.stack \in [0..(N - 1) -> Nat]
  BY RasDepthAssumption DEF Stacks
<1>2. p.stack = [r.stack EXCEPT ![u] = a] /\ p.tos = u /\ p.cnt = d
      /\ p = [stack |-> [r.stack EXCEPT ![u] = a], tos |-> u, cnt |-> d]
  BY DEF push
<1>3. u = IF t + 1 < N THEN t + 1 ELSE (t + 1) - N
  <2> DEFINE x == t + 1
  <2>1. x \in 0..(2 * N - 1)
    BY <1>1
  <2> HIDE DEF x, N
  <2>2. x % N = IF x < N THEN x ELSE x - N
    BY <1>1, <2>1, ModTwice
  <2> QED BY <2>2 DEF x
<1> HIDE DEF u, N, c, t
<1>4. u \in 0..(N - 1) /\ d \in 0..N /\ d \in Nat \ {0}
  BY <1>1, <1>3
<1>5. /\ p.stack[u] = a
      /\ \A x \in 0..(N - 1) : x # u => p.stack[x] = r.stack[x]
      /\ p.stack \in [0..(N - 1) -> Nat]
  <2> HIDE DEF p
  <2> QED BY <1>1, <1>2, <1>4
<1>6. p \in Stacks
  <2> HIDE DEF p, d
  <2> QED BY <1>2, <1>4, <1>5 DEF Stacks, N
<1> HIDE DEF p
<1>7. /\ Live(p) \in Seq(Nat) /\ Len(Live(p)) = d
      /\ \A i \in 1..d : Live(p)[i] = p.stack[Below(u, d - i)]
  BY <1>2, <1>6, LiveSlots
<1>8. /\ Live(r) \in Seq(Nat) /\ Len(Live(r)) = c
      /\ \A i \in 1..c : Live(r)[i] = r.stack[Below(t, c - i)]
  BY LiveSlots DEF c, t
<1>9. /\ s \in Seq(Nat) /\ Len(s) = c + 1 /\ s[c + 1] = a
      /\ \A i \in 1..c : s[i] = Live(r)[i]
  BY <1>8, AppendProperties
<1> HIDE DEF s
<1>10. /\ k \in Seq(Nat) /\ Len(k) = d
       /\ \A i \in 1..d : k[i] = IF c < N THEN s[i] ELSE s[i + 1]
  <2>1. CASE c < N
    <3>1. k = s
      BY <1>1, <1>9, <2>1 DEF Kept, N
    <3> QED BY <1>9, <2>1, <3>1
  <2>2. CASE ~(c < N)
    <3>1. k = Tail(s) /\ c = N /\ s # << >>
      BY <1>1, <1>9, <2>2 DEF Kept, N
    <3>2. Tail(s) \in Seq(Nat) /\ Len(Tail(s)) = c /\ \A i \in 1..c : Tail(s)[i] = s[i + 1]
      BY <1>1, <1>9, <3>1, HeadTailProperties
    <3> QED BY <2>2, <3>1, <3>2
  <2> QED BY <2>1, <2>2
<1>11. ASSUME NEW i \in 1..d PROVE Live(p)[i] = k[i]
  <2> DEFINE j == IF c < N THEN i ELSE i + 1
             x == Below(u, d - i)
  <2>1. k[i] = s[j] /\ Live(p)[i] = p.stack[x] /\ j \in 1..(c + 1)
    <3>1. k[i] = s[j]
      <4> HIDE DEF d, k
      <4> QED BY <1>10
    <3>2. Live(p)[i] = p.stack[x]
      <4> HIDE DEF d
      <4> QED BY <1>7
    <3>3. j \in 1..(c + 1)
      BY ONLY <1>1, i \in 1..d
    <3> QED BY <3>1, <3>2, <3>3
  <2>2. CASE i = d
    <3>1. x = u /\ j = c + 1
      BY <1>1, <1>4, <2>2 DEF Below
    <3> QED BY <1>5, <1>9, <2>1, <3>1
  <2>3. CASE i # d
    <3> DEFINE y == Below(t, c - j)
    <3>1. j \in 1..c /\ x = y /\ x # u
      BY <1>1, <1>3, <1>4, <2>3 DEF Below, N
    <3>2. c - j \in 0..(N - 1)
      <4> HIDE DEF j
      <4> QED BY <1>1, <3>1
    <3>3. y \in 0..(N - 1)
      BY <1>1, <3>2, BelowRange DEF N
    <3> HIDE DEF x, y, j
    <3>4. p.stack[x] = r.stack[y]
      BY <1>5, <3>1, <3>3
    <3>5. s[j] = Live(r)[j] /\ Live(r)[j] = r.stack[y]
      BY <1>8, <1>9, <3>1 DEF y
    <3> QED BY <2>1, <3>4, <3>5
  <2> QED BY <2>2, <2>3
<1> HIDE DEF k
<1>12. Live(p) = k
  BY <1>7, <1>10, <1>11, SeqEqual
<1> QED BY <1>6, <1>12 DEF p, k, s

\* A sequence without its last entry, if it has one.
Dropped(s) == IF s # << >> THEN SubSeq(s, 1, Len(s) - 1) ELSE s

\* A pop removes the newest entry; a pop of the empty ring does nothing.
LEMMA LivePop ==
    ASSUME NEW r \in Stacks
    PROVE  pop(r) \in Stacks /\ Live(pop(r)) = Dropped(Live(r))
<1> DEFINE N == RasDepth
           c == r.cnt
           t == r.tos
           p == pop(r)
           s == Live(r)
<1>1. N \in Nat \ {0} /\ c \in 0..N /\ t \in 0..(N - 1) /\ r.stack \in [0..(N - 1) -> Nat]
  BY RasDepthAssumption DEF Stacks
<1>2. /\ s \in Seq(Nat) /\ Len(s) = c
      /\ \A i \in 1..c : s[i] = r.stack[Below(t, c - i)]
  BY LiveSlots
<1>3. CASE c = 0
  <2>1. p = r
    BY <1>3 DEF pop
  <2>2. s = << >>
    <3> HIDE DEF s, c
    <3> QED BY <1>2, <1>3, EmptySeq
  <2> QED BY <2>1, <2>2 DEF Dropped
<1>4. CASE c # 0
  <2> DEFINE u == IF t = 0 THEN N - 1 ELSE t - 1
             d == c - 1
             k == SubSeq(s, 1, d)
  <2>1. p = [r EXCEPT !.tos = u, !.cnt = d]
    BY <1>4 DEF pop
  <2>2. u \in 0..(N - 1) /\ d \in 0..N /\ d \in Nat
    <3> HIDE DEF c, t, N
    <3> QED BY <1>1, <1>4
  <2>3. p \in Stacks /\ p.tos = u /\ p.cnt = d /\ p.stack = r.stack
    <3> HIDE DEF p, u, d
    <3> QED BY <1>1, <2>1, <2>2 DEF Stacks, N
  <2> HIDE DEF p
  <2>4. /\ Live(p) \in Seq(Nat) /\ Len(Live(p)) = d
        /\ \A i \in 1..d : Live(p)[i] = r.stack[Below(u, d - i)]
    BY <2>3, LiveSlots
  <2> HIDE DEF N, t, c, s
  <2>5. s # << >> /\ Len(s) - 1 = d
    BY <1>1, <1>2, <1>4, EmptySeq
  <2>6. k \in Seq(Nat) /\ Len(k) = d /\ \A i \in 1..d : k[i] = s[i]
    <3>1. 1 \in 1..(Len(s) + 1) /\ d \in 0..Len(s) /\ \A i \in 1..d : i \in 1..Len(s)
      BY <1>1, <1>2, <1>4
    <3> HIDE DEF d
    <3>0. \A i \in 1..d : s[i] \in Nat
      BY <1>2, <3>1, ElementOfSeq
    <3>2. k \in Seq(Nat) /\ Len(k) = (IF 1 <= d THEN d - 1 + 1 ELSE 0)
      BY <2>2, <3>0, SubSeqProperties
    <3>3. \A i \in 1..(d - 1 + 1) : k[i] = s[1 + i - 1]
      BY <2>2, <3>0, SubSeqProperties
    <3>4. Len(k) = d
      BY <2>2, <3>2
    <3>5. \A i \in 1..d : k[i] = s[i]
      BY <2>2, <3>3
    <3> QED BY <3>2, <3>4, <3>5
  <2>7. ASSUME NEW i \in 1..d PROVE Live(p)[i] = k[i]
    <3>1. Below(u, d - i) = Below(t, c - i) /\ i \in 1..c
      BY <1>1, <2>2 DEF Below, N
    <3> QED BY <1>2, <2>4, <2>6, <3>1
  <2> HIDE DEF k, d
  <2>8. Live(p) = k
    BY <2>4, <2>6, <2>7, SeqEqual
  <2>9. Dropped(s) = k
    BY <2>5 DEF Dropped, k
  <2> QED BY <2>3, <2>8, <2>9 DEF p, s
<1> QED BY <1>3, <1>4

----------------------------------------------------------------------------
(* Predictions, and the stack a branch leaves. *)

\* The resolved calls and the ring move together.
LEMMA StackedExact ==
    ASSUME ras \in Stacks, RasExact, NEW b \in Branches
    PROVE  /\ Stacked(b) \in Stacks /\ CallStack(b) = Live(Stacked(b))
           /\ CallStack(b) \in Seq(Nat)
<1> DEFINE a == b.pc + 1
           r == IF b.call THEN push(ras, a) ELSE ras
           pushed == IF b.call THEN Append(calls, a) ELSE calls
           q == IF b.ret THEN pop(r) ELSE r
           k == IF b.ret THEN Dropped(Kept(pushed)) ELSE Kept(pushed)
<1>1. a \in Nat /\ b.call \in BOOLEAN /\ b.ret \in BOOLEAN
  BY DEF Branches
<1>2. Live(ras) = calls /\ Len(calls) = ras.cnt /\ ras.cnt \in 0..RasDepth
  BY LiveSlots DEF RasExact, Stacks
<1> HIDE DEF a
<1>3. r \in Stacks /\ Live(r) = Kept(pushed)
  <2>1. CASE b.call
    <3>1. push(ras, a) \in Stacks /\ Live(push(ras, a)) = Kept(Append(Live(ras), a))
      BY <1>1, LivePush
    <3> QED BY <1>2, <2>1, <3>1
  <2>2. CASE ~b.call
    <3>1. ~(Len(calls) > RasDepth)
      BY <1>2, RasDepthAssumption
    <3> QED BY <1>2, <2>2, <3>1 DEF Kept
  <2> QED BY <2>1, <2>2
<1> HIDE DEF r, pushed
<1>4. q \in Stacks /\ Live(q) = k
  <2>1. CASE b.ret
    BY <1>3, <2>1, LivePop
  <2>2. CASE ~b.ret
    BY <1>3, <2>2
  <2> QED BY <2>1, <2>2
<1>5. Stacked(b) = q
  BY Zenon DEF Stacked, r, a
<1>6. CallStack(b) = k
  <2>1. CASE b.ret
    BY <2>1 DEF CallStack, Dropped, Kept, pushed, a
  <2>2. CASE ~b.ret
    BY <2>2 DEF CallStack, Kept, pushed, a
  <2> QED BY <2>1, <2>2
<1> HIDE DEF q, k
<1>7. Live(q) \in Seq(Nat)
  BY <1>4, LiveSlots
<1> QED BY <1>4, <1>5, <1>6, <1>7

\* What predict answers, and what it remembers for the update.
LEMMA PredictionType ==
    ASSUME TypeOK, NEW pc \in Nat
    PROVE  /\ Prediction(pc) \in Preds
           /\ mode.kind = "tage" => /\ Prediction(pc).saw \in Snaps
                                    /\ Prediction(pc).saw.ghr = ghr
                                    /\ Prediction(pc).snap = tg.wr
           /\ mode.kind # "tage" => Prediction(pc).snap = ghr
<1> DEFINE tage == mode.kind = "tage"
           target == BtbTarget(pc)
           saw == IF tage THEN Snapshot(tg, pc, ghr) ELSE NoSnap
           dir == IF tage THEN saw.taken ELSE Taken(mode.kind, bp, pc, ghr, target)
           isRet == mode.ras /\ target # 0 /\ btb[BtbIdx(pc)].type = 1 /\ valid(ras)
           final == IF isRet THEN top(ras) ELSE target
           cnt == IF tage THEN 0 ELSE Counter(mode.kind, bp, pc, ghr)
           snap == IF tage THEN tg.wr ELSE ghr
           taken == isRet \/ dir
           redirect == taken /\ final # 0
           hit == target # 0
<1>1. /\ tg \in TageTables /\ bp \in DirTables /\ ras \in Stacks /\ btb \in [Rows -> Lines]
      /\ mode \in Modes
  BY DEF TypeOK
<1>2. ghr \in Nat /\ tg.wr \in Nat
  <2>1. ghr \in 0..(2^HistBits - 1)
    BY DEF TypeOK
  <2>2. tg.wr \in Nat
    BY <1>1 DEF TageTables
  <2> QED BY <2>1, <2>2, Sizes
<1>3. mode.kind \in Kinds
  BY <1>1, BranchUnitAssumption
<1>4. target \in Nat
  <2>1. btb[BtbIdx(pc)] \in Lines
    BY <1>1, IndexRange
  <2>2. btb[BtbIdx(pc)].target \in Nat
    BY <2>1 DEF Lines
  <2>3. lookup(pc) \in Nat
    BY <2>2 DEF lookup
  <2> QED BY <2>3 DEF BtbTarget
<1>5. top(ras) \in Nat
  <2>1. ras.stack[ras.tos] \in Nat
    BY <1>1 DEF Stacks
  <2> QED BY <2>1 DEF top
<1>6. /\ saw \in Slots
      /\ tage => saw \in Snaps /\ saw.ghr = ghr
  BY <1>1, <1>2, SnapshotType DEF Slots
<1> HIDE DEF saw, target
<1>7. dir \in BOOLEAN /\ cnt \in 0..3
  <2>1. CASE tage
    <3>1. saw.taken \in BOOLEAN
      BY <1>6, <2>1 DEF Snaps
    <3> QED BY <2>1, <3>1
  <2>2. CASE ~tage
    <3>1. mode.kind \in Kinds \ {"tage"}
      BY <1>3, <2>2
    <3> QED BY <1>1, <1>4, <2>2, <3>1, CounterRange
  <2> QED BY <2>1, <2>2
<1>8. final \in Nat /\ snap \in Nat
  BY <1>2, <1>4, <1>5
<1>9. isRet \in BOOLEAN /\ hit \in BOOLEAN
  OBVIOUS
<1> HIDE DEF dir, isRet, hit
<1>10. taken \in BOOLEAN
  BY <1>7, <1>9
<1> HIDE DEF taken
<1>11. redirect \in BOOLEAN
  BY <1>10
<1>12. Prediction(pc) =
        [taken |-> taken, target |-> final, redirect |-> redirect,
         dir |-> dir, hit |-> hit, saw |-> saw, cnt |-> cnt, snap |-> snap]
  BY DEF Prediction, PredictionFrom, taken, dir, isRet, hit, saw, target
<1> HIDE DEF redirect, final, cnt, snap
<1>13. Prediction(pc) \in Preds
  BY <1>6, <1>7, <1>8, <1>9, <1>10, <1>11, <1>12 DEF Preds
<1>14. Prediction(pc).saw = saw /\ Prediction(pc).snap = snap
  BY <1>12
<1> QED BY <1>6, <1>13, <1>14 DEF snap

\* The side effects of predict: a history of the same length, and with TAGE one
\* more slot of the ring written.
LEMMA PredictSteps ==
    ASSUME TypeOK, NEW p \in Preds, Predict(p)
    PROVE  /\ ghr' \in 0..(2^HistBits - 1) /\ tg' \in TageTables
           /\ mode.kind = "tage" =>
                /\ tg'.wr = tg.wr + 1
                /\ \A id \in Nat : SnapOf(tg', id) =
                      IF id % SNAP_RING = tg.wr % SNAP_RING THEN p.saw ELSE SnapOf(tg, id)
<1>1. ghr \in 0..(2^HistBits - 1) /\ tg \in TageTables
  BY DEF TypeOK
<1>2. ghr \in Nat
  BY <1>1, Sizes
<1>3. p.dir \in BOOLEAN /\ p.saw \in Slots
  BY DEF Preds
<1>4. ghr' \in 0..(2^HistBits - 1)
  <2>1. Shifted(ghr, p.dir) \in 0..(2^HistBits - 1)
    BY <1>2, <1>3, ShiftedRange
  <2> QED BY <1>1, <2>1 DEF Predict
<1>5. CASE mode.kind = "tage"
  <2>1. tg' = TagePredicted(tg, p.saw, p.hit)
    BY <1>5 DEF Predict
  <2> QED BY <1>1, <1>3, <1>4, <2>1, TagePredictedType
<1>6. CASE mode.kind # "tage"
  BY <1>1, <1>4, <1>6 DEF Predict
<1> QED BY <1>5, <1>6

----------------------------------------------------------------------------
(* The inductive invariant. *)

\* The youngest prediction in flight.
Last == inflight[Len(inflight)]

\* Only the youngest branch in flight can be mispredicted, and it is exactly when
\* the fetch stage is on the wrong path; wrong-path predictions follow it.
OneWrong ==
    /\ \A i \in 1..Len(inflight) : inflight[i].mispred <=> wrong /\ i = Len(inflight)
    /\ wrong => inflight # << >>
    /\ ~wrong => wp = 0
    /\ Len(inflight) + wp <= Window

\* The snapshots of the branches in flight are consecutive slots of the ring, then
\* come those of the wrong path; each still holds what its prediction saw.
SnapsInOrder ==
    mode.kind = "tage" =>
        \A i \in 1..Len(inflight) :
            /\ inflight[i].pred.snap = (tg.wr - wp - Len(inflight)) + i - 1
            /\ SnapOf(tg, inflight[i].pred.snap) = inflight[i].pred.saw
            /\ inflight[i].pred.saw \in Snaps

\* The history a prediction was made with.
Seen(p) == IF mode.kind = "tage" THEN p.saw.ghr ELSE p.snap

\* The history of the right path is the predictor's, or, on the wrong path, the
\* one the mispredicted branch saw with its real direction added.
HistoryKept ==
    mode.kind \in HistPredictors \cup {"tage"} =>
        hist = IF wrong THEN Shifted(Seen(Last.pred), Last.b.taken) ELSE ghr

\* The inductive invariant.
IInv == TypeOK /\ OneWrong /\ SnapsInOrder /\ HistoryKept /\ RasExact

\* Initially nothing is in flight.
LEMMA InitInv == ASSUME Init PROVE IInv
<1>1. TypeOK
  <2>1. 0 \in Idx /\ 0 \in Rows /\ 0 \in 0..(RasDepth - 1) /\ 0 \in 0..RasDepth
        /\ 0 \in 0..(2^HistBits - 1) /\ 0 \in 0..(2^BtbTagBits - 1) /\ 0 \in 0..(2^TAG_BITS - 1)
        /\ 0 \in CTR_MIN..CTR_MAX /\ 0 \in 0..U_MAX /\ 0 \in 0..(U_RESET_PERIOD - 1)
    BY Sizes DEF Idx, Rows
  <2>2. Weak \in Counters
    BY DEF Weak, Counters
  <2>3. bp \in DirTables
    BY <2>2 DEF Init, DirInit, DirTables
  <2>4. NoEntryT \in TagEntries
    BY <2>1 DEF NoEntryT, TagEntries
  <2>5. tg \in TageTables
    <3>1. TageInit.comp \in Components
      BY <2>4 DEF TageInit, Components
    <3>2. TageInit.ring \in [0..(SNAP_RING - 1) -> Slots]
      BY DEF TageInit, Slots
    <3> QED BY <2>1, <2>2, <3>1, <3>2 DEF Init, TageInit, TageTables
  <2>6. btb \in [Rows -> Lines]
    BY <2>1 DEF Init, NoLine, Lines, Rows
  <2>7. byp \in [written : BOOLEAN, widx : Rows, valid : BOOLEAN, idx : Rows]
    BY <2>1 DEF Init
  <2>8. ras \in Stacks
    BY <2>1 DEF Init, RasInit, Stacks
  <2>9. mode \in Modes /\ ghr \in 0..(2^HistBits - 1) /\ wrong \in BOOLEAN /\ wp \in Nat
        /\ n \in Nat /\ phase \in {"exec", "fetch", "idle"}
    BY <2>1 DEF Init
  <2>10. inflight \in Seq(Fetched) /\ calls \in Seq(Nat)
    BY EmptySeq DEF Init
  <2> QED BY <2>3, <2>5, <2>6, <2>7, <2>8, <2>9, <2>10 DEF TypeOK
<1>2. inflight = << >> /\ Len(inflight) = 0 /\ ~wrong /\ wp = 0 /\ hist = 0 /\ ghr = 0
  BY DEF Init
<1>3. OneWrong
  BY <1>2, Sizes DEF OneWrong
<1>4. SnapsInOrder
  BY <1>2 DEF SnapsInOrder
<1>5. HistoryKept
  BY <1>2 DEF HistoryKept
<1>6. RasExact
  <2>1. ras \in Stacks /\ ras.cnt = 0
    BY <1>1 DEF TypeOK, Init, RasInit
  <2>2. Live(ras) \in Seq(Nat) /\ Len(Live(ras)) = 0
    BY <2>1, LiveSlots
  <2>3. Live(ras) = << >>
    BY <2>2, EmptySeq
  <2> QED BY <2>3 DEF RasExact, Init
<1> QED BY <1>1, <1>3, <1>4, <1>5, <1>6 DEF IInv

\* The counters of the state of the fetch stage as numbers.
LEMMA Numbers ==
    ASSUME IInv
    PROVE  /\ Len(inflight) \in Nat /\ wp \in Nat /\ tg.wr \in Nat /\ ghr \in Nat
           /\ Len(inflight) + wp <= Window /\ mode.kind \in Kinds
           /\ \A i \in 1..Len(inflight) : inflight[i] \in Fetched
<1>1. inflight \in Seq(Fetched) /\ wp \in Nat /\ tg \in TageTables /\ mode \in Modes
      /\ ghr \in 0..(2^HistBits - 1)
  BY DEF IInv, TypeOK
<1>2. Len(inflight) \in Nat /\ \A i \in 1..Len(inflight) : inflight[i] \in Fetched
  BY <1>1, LenProperties, ElementOfSeq
<1>3. ghr \in Nat
  BY <1>1, Sizes
<1>4. tg.wr \in Nat
  BY <1>1 DEF TageTables
<1>5. mode.kind \in Kinds
  BY <1>1, BranchUnitAssumption
<1> QED BY <1>1, <1>2, <1>3, <1>4, <1>5 DEF IInv, OneWrong

\* A new prediction overwrites the snapshot of no branch in flight.
LEMMA PredictKeeps ==
    ASSUME IInv, mode.kind = "tage", NEW p \in Preds, Predict(p),
           Len(inflight) + wp < Window, NEW i \in 1..Len(inflight)
    PROVE  SnapOf(tg', inflight[i].pred.snap) = inflight[i].pred.saw
<1> DEFINE L == Len(inflight)
           w == tg.wr
           s == inflight[i].pred.snap
<1>1. L \in Nat /\ wp \in Nat /\ w \in Nat /\ L + wp < Window /\ Window < SNAP_RING
      /\ Window \in Nat /\ SNAP_RING \in Nat \ {0}
  BY Numbers, Sizes
<1>2. s \in Nat
  BY Numbers DEF Fetched, Preds
<1>3. s = (w - wp - L) + i - 1 /\ SnapOf(tg, s) = inflight[i].pred.saw
  BY DEF IInv, SnapsInOrder
<1>4. \A id \in Nat : SnapOf(tg', id) =
          IF id % SNAP_RING = w % SNAP_RING THEN p.saw ELSE SnapOf(tg, id)
  BY PredictSteps DEF IInv
<1> HIDE DEF L, w, s
<1>5. i \in 1..L
  BY DEF L
<1>6. s < w /\ w < s + SNAP_RING
  BY <1>1, <1>2, <1>3, <1>5
<1>7. s % SNAP_RING # w % SNAP_RING
  BY <1>1, <1>2, <1>6, RingDistinct
<1> QED BY <1>2, <1>3, <1>4, <1>7 DEF s

----------------------------------------------------------------------------
(* The actions keep it. *)

\* The stack of calls is the same when neither it nor the ring changes.
LEMMA SameStack ==
    ASSUME RasExact, UNCHANGED <<ras, calls>>
    PROVE  RasExact'
BY DEF RasExact, Live

\* The history bits depend on the configuration only.
LEMMA SameShift ==
    ASSUME mode' = mode
    PROVE  HistBits' = HistBits /\ \A g, taken : Shifted(g, taken)' = Shifted(g, taken)
BY DEF HistBits, Shifted

\* A branch is fetched and predicted.
LEMMA FetchInv ==
    ASSUME IInv, NEW b \in Branches, Fetch(b)
    PROVE  IInv'
<1> DEFINE p == Prediction(b.pc)
           ok == Accurate(b, p)
           L == Len(inflight)
           f == [b |-> b, pred |-> p, mispred |-> ~ok]
<1>1. /\ ~wrong /\ L < Window /\ Predict(p) /\ inflight' = Append(inflight, f)
      /\ wrong' = ~ok /\ n' = n + 1 /\ phase' = "idle"
      /\ UNCHANGED <<mode, bp, btb, byp, ras, wp, calls>>
  BY DEF Fetch
<1>2. hist' = CASE ~ok             -> Shifted(hist, b.taken)
                [] ok /\ Shifts(p) -> Shifted(hist, p.dir)
                [] OTHER           -> hist
  BY DEF Fetch
<1>3. TypeOK /\ OneWrong /\ SnapsInOrder /\ HistoryKept /\ RasExact
  BY DEF IInv
<1>4. b.pc \in Nat /\ ok \in BOOLEAN
  BY DEF Branches, Accurate
<1>5. /\ p \in Preds
      /\ mode.kind = "tage" => p.saw \in Snaps /\ p.saw.ghr = ghr /\ p.snap = tg.wr
      /\ mode.kind # "tage" => p.snap = ghr
  BY <1>3, <1>4, PredictionType
<1> HIDE DEF p
<1>6. f \in Fetched
  <2> HIDE DEF ok
  <2>1. (~ok) \in BOOLEAN
    BY <1>4
  <2> QED BY <1>5, <2>1 DEF Fetched
<1>7. /\ f.b = b /\ f.pred = p /\ f.mispred = ~ok
  OBVIOUS
<1> HIDE DEF ok, f
<1>8. /\ L \in Nat /\ inflight' \in Seq(Fetched) /\ Len(inflight') = L + 1
      /\ inflight'[L + 1] = f /\ \A i \in 1..L : inflight'[i] = inflight[i]
  BY <1>1, <1>3, <1>6, AppendProperties, LenProperties DEF TypeOK
<1>9. /\ ghr' \in 0..(2^HistBits - 1) /\ tg' \in TageTables
      /\ mode.kind = "tage" =>
           /\ tg'.wr = tg.wr + 1
           /\ \A id \in Nat : SnapOf(tg', id) =
                 IF id % SNAP_RING = tg.wr % SNAP_RING THEN p.saw ELSE SnapOf(tg, id)
  BY <1>1, <1>3, <1>5, PredictSteps
<1>10. wp = 0 /\ tg.wr \in Nat /\ Window \in Nat
  BY <1>1, <1>3, Numbers, Sizes DEF OneWrong
<1>11. TypeOK'
  <2>1. HistBits' = HistBits
    BY <1>1, SameShift
  <2>2. wrong' \in BOOLEAN /\ n' \in Nat
    BY <1>1, <1>3, <1>4 DEF TypeOK
  <2> QED BY <1>1, <1>3, <1>8, <1>9, <2>1, <2>2 DEF TypeOK
<1>12. OneWrong'
  <2>1. ASSUME NEW i \in 1..(L + 1)
        PROVE  inflight'[i].mispred <=> wrong' /\ i = L + 1
    <3>1. CASE i = L + 1
      BY <1>1, <1>7, <1>8, <3>1
    <3>2. CASE i # L + 1
      <4>1. i \in 1..L
        BY <1>8, <3>2
      <4>2. ~inflight[i].mispred
        BY <1>1, <1>3, <4>1 DEF OneWrong
      <4> QED BY <1>8, <3>2, <4>1, <4>2
    <3> QED BY <3>1, <3>2
  <2>2. inflight' # << >>
    BY <1>8
  <2>3. Len(inflight') + wp' <= Window /\ wp' = 0
    BY <1>1, <1>8, <1>10
  <2> QED BY <1>8, <2>1, <2>2, <2>3 DEF OneWrong
<1>13. SnapsInOrder'
  <2> SUFFICES ASSUME mode.kind = "tage", NEW i \in 1..(L + 1)
               PROVE  /\ inflight'[i].pred.snap = (tg'.wr - wp' - (L + 1)) + i - 1
                      /\ SnapOf(tg', inflight'[i].pred.snap) = inflight'[i].pred.saw
                      /\ inflight'[i].pred.saw \in Snaps
    BY <1>1, <1>8 DEF SnapsInOrder, SnapOf
  <2>1. CASE i = L + 1
    <3>1. inflight'[i].pred = p
      BY <1>7, <1>8, <2>1
    <3>2. p.snap = (tg'.wr - wp' - (L + 1)) + i - 1
      <4>1. p.snap = tg.wr /\ tg'.wr = tg.wr + 1 /\ wp' = 0
        BY <1>1, <1>5, <1>9, <1>10
      <4> QED BY ONLY <1>8, <1>10, <2>1, <4>1
    <3>3. SnapOf(tg', p.snap) = p.saw
      BY <1>5, <1>9, <1>10
    <3> QED BY <1>5, <3>1, <3>2, <3>3
  <2>2. CASE i # L + 1
    <3> DEFINE e == inflight[i].pred
    <3>1. i \in 1..L /\ inflight'[i].pred = e
      BY <1>8, <2>2
    <3>2. e.snap = (tg.wr - wp - L) + i - 1 /\ e.saw \in Snaps
      BY <1>3, <3>1 DEF SnapsInOrder
    <3>3. (tg.wr - wp - L) + i - 1 = (tg'.wr - wp' - (L + 1)) + i - 1
      BY <1>1, <1>8, <1>9, <1>10
    <3>4. SnapOf(tg', e.snap) = e.saw
      BY <1>1, <1>5, <1>8, <1>10, <3>1, PredictKeeps
    <3> HIDE DEF e
    <3> QED BY <3>1, <3>2, <3>3, <3>4
  <2> QED BY <2>1, <2>2
<1>14. HistoryKept'
  <2> SUFFICES ASSUME mode.kind \in HistPredictors \cup {"tage"}
               PROVE  hist' = IF wrong' THEN Shifted(Seen(p), b.taken) ELSE ghr'
    <3>1. Last' = f
      BY <1>8 DEF Last
    <3>2. Seen(p) = IF mode'.kind = "tage" THEN p.saw.ghr ELSE p.snap
      BY <1>1 DEF Seen
    <3>3. Shifted(Seen(p), b.taken) = (2 * Seen(p) + Bit(b.taken)) % 2^HistBits'
      BY <1>1, SameShift DEF Shifted
    <3> QED BY <1>1, <1>7, <3>1, <3>2, <3>3 DEF HistoryKept, Shifted, Seen
  <2>1. hist = ghr /\ Seen(p) = ghr
    BY <1>1, <1>3, <1>5 DEF HistoryKept, Seen
  <2>2. CASE ok
    <3>1. hist' = IF Shifts(p) THEN Shifted(hist, p.dir) ELSE hist
      BY <1>2, <2>2, Zenon
    <3> QED BY <1>1, <2>1, <2>2, <3>1 DEF Predict
  <2>3. CASE ~ok
    <3>1. hist' = Shifted(hist, b.taken)
      BY <1>2, <2>3, Zenon
    <3> QED BY <1>1, <2>1, <2>3, <3>1
  <2> QED BY <2>2, <2>3
<1>15. RasExact'
  BY <1>1, <1>3, SameStack
<1> QED BY <1>11, <1>12, <1>13, <1>14, <1>15 DEF IInv

\* An address of the wrong path is predicted.
LEMMA WrongPathInv ==
    ASSUME IInv, NEW pc \in WrongPcs, WrongPath(pc)
    PROVE  IInv'
<1> DEFINE p == Prediction(pc)
           L == Len(inflight)
<1>1. /\ wrong /\ L + wp < Window /\ Predict(p) /\ wp' = wp + 1 /\ phase' = "idle"
      /\ UNCHANGED <<mode, bp, btb, byp, ras, inflight, wrong, n, hist, calls>>
  BY DEF WrongPath
<1>2. TypeOK /\ OneWrong /\ SnapsInOrder /\ HistoryKept /\ RasExact
  BY DEF IInv
<1>3. p \in Preds
  BY <1>2, PredictionType, BranchUnitAssumption
<1>4. L \in Nat /\ wp \in Nat /\ tg.wr \in Nat /\ Window \in Nat
  BY Numbers, Sizes
<1> HIDE DEF p
<1>5. /\ ghr' \in 0..(2^HistBits - 1) /\ tg' \in TageTables
      /\ mode.kind = "tage" => tg'.wr = tg.wr + 1
  BY <1>1, <1>2, <1>3, PredictSteps
<1>6. TypeOK'
  <2>1. HistBits' = HistBits
    BY <1>1, SameShift
  <2>2. wp' \in Nat
    BY <1>1, <1>4
  <2> QED BY <1>1, <1>2, <1>5, <2>1, <2>2 DEF TypeOK
<1>7. OneWrong'
  <2>1. Len(inflight') + wp' <= Window
    BY <1>1, <1>4
  <2> QED BY <1>1, <1>2, <2>1 DEF OneWrong
<1>8. SnapsInOrder'
  <2> SUFFICES ASSUME mode.kind = "tage", NEW i \in 1..L
               PROVE  /\ inflight[i].pred.snap = (tg'.wr - wp' - L) + i - 1
                      /\ SnapOf(tg', inflight[i].pred.snap) = inflight[i].pred.saw
                      /\ inflight[i].pred.saw \in Snaps
    BY <1>1 DEF SnapsInOrder, SnapOf
  <2>1. inflight[i].pred.snap = (tg.wr - wp - L) + i - 1 /\ inflight[i].pred.saw \in Snaps
    BY <1>2 DEF SnapsInOrder
  <2>2. (tg.wr - wp - L) + i - 1 = (tg'.wr - wp' - L) + i - 1
    <3>1. tg'.wr = tg.wr + 1 /\ wp' = wp + 1
      BY <1>1, <1>5
    <3> QED BY ONLY <1>4, <3>1, i \in 1..L
  <2>3. SnapOf(tg', inflight[i].pred.snap) = inflight[i].pred.saw
    BY <1>1, <1>3, PredictKeeps
  <2> QED BY <2>1, <2>2, <2>3
<1>9. HistoryKept'
  BY <1>1, <1>2 DEF HistoryKept, Shifted, HistBits, Seen, Last
<1>10. RasExact'
  BY <1>1, <1>2, SameStack
<1> QED BY <1>6, <1>7, <1>8, <1>9, <1>10 DEF IInv

\* The oldest branch resolves.
LEMMA ResolveInv ==
    ASSUME IInv, Resolve
    PROVE  IInv'
<1> DEFINE e == Head(inflight)
           b == e.b
           p == e.pred
           L == Len(inflight)
<1>1. /\ inflight # << >> /\ Train(b, p) /\ WriteBtb(b)
      /\ ghr' = (IF e.mispred THEN Restored(p, b.taken) ELSE ghr)
      /\ ras' = (IF mode.ras THEN Stacked(b) ELSE ras)
      /\ calls' = (IF mode.ras THEN CallStack(b) ELSE calls)
      /\ wrong' = (wrong /\ ~e.mispred)
      /\ wp' = (IF e.mispred THEN 0 ELSE wp)
      /\ inflight' = Tail(inflight) /\ phase' = "fetch"
      /\ UNCHANGED <<mode, n, hist>>
  BY DEF Resolve
<1>2. TypeOK /\ OneWrong /\ SnapsInOrder /\ HistoryKept /\ RasExact
  BY DEF IInv
<1>3. inflight \in Seq(Fetched)
  BY <1>2 DEF TypeOK
<1>4. /\ e \in Fetched /\ inflight' \in Seq(Fetched) /\ L \in Nat \ {0}
      /\ Len(inflight') = L - 1 /\ \A i \in 1..(L - 1) : inflight'[i] = inflight[i + 1]
  BY <1>1, <1>3, HeadTailProperties, LenProperties, EmptySeq
<1>5. e = inflight[1]
  OBVIOUS
<1>6. /\ b \in Branches /\ p \in Preds /\ e.mispred \in BOOLEAN
      /\ b.pc \in Nat /\ b.taken \in BOOLEAN /\ b.target \in Nat
      /\ p.snap \in Nat /\ p.cnt \in 0..3 /\ p.saw \in Slots
  BY <1>4 DEF Fetched, Branches, Preds
<1>7. e.mispred <=> wrong /\ L = 1
  <2>1. 1 \in 1..L
    BY <1>4
  <2> QED BY <1>2, <1>5, <2>1 DEF OneWrong
<1>8. /\ wp \in Nat /\ tg.wr \in Nat /\ L + wp <= Window /\ Window < SNAP_RING
      /\ Window \in Nat /\ SNAP_RING \in Nat \ {0} /\ ghr \in Nat /\ mode.kind \in Kinds
  BY Numbers, Sizes
<1>9. mode.kind = "tage" => /\ p.snap = tg.wr - wp - L
                            /\ SnapOf(tg, p.snap) = p.saw /\ p.saw \in Snaps
  <2> SUFFICES ASSUME mode.kind = "tage"
               PROVE  /\ p.snap = tg.wr - wp - L
                      /\ SnapOf(tg, p.snap) = p.saw /\ p.saw \in Snaps
    OBVIOUS
  <2>1. 1 \in 1..L
    BY <1>4
  <2>2. /\ p.snap = (tg.wr - wp - L) + 1 - 1
        /\ SnapOf(tg, p.snap) = p.saw /\ p.saw \in Snaps
    BY <1>2, <1>5, <2>1 DEF SnapsInOrder
  <2>3. (tg.wr - wp - L) + 1 - 1 = tg.wr - wp - L
    BY <1>4, <1>8
  <2> QED BY <2>2, <2>3
<1>10. mode.kind = "tage" => SnapKept(tg, p.snap)
  <2>1. ASSUME mode.kind = "tage" PROVE tg.wr - p.snap < SNAP_RING
    <3>1. p.snap = tg.wr - wp - L
      BY <1>9, <2>1
    <3> QED BY ONLY <1>4, <1>8, <3>1
  <2> QED BY <2>1 DEF SnapKept
<1> HIDE DEF e, b, p
<1>11. /\ tg' \in TageTables /\ bp' \in DirTables
       /\ mode.kind = "tage" =>
            /\ tg'.wr = tg.wr
            /\ \A j \in Nat : j % SNAP_RING # p.snap % SNAP_RING =>
                  SnapOf(tg', j) = SnapOf(tg, j)
  <2> DEFINE hit == p.target # 0
  <2>1. tg \in TageTables /\ bp \in DirTables
    BY <1>2 DEF TypeOK
  <2>2. CASE ~(hit \/ b.taken)
    <3>1. tg' = tg /\ bp' = bp
      BY <1>1, <2>2 DEF Train
    <3> QED BY <2>1, <3>1
  <2>3. CASE (hit \/ b.taken) /\ mode.kind = "tage"
    <3>1. tg' = TageTrained(tg, b.pc, b.taken, p.snap) /\ bp' = bp
      BY <1>1, <2>3 DEF Train
    <3> DEFINE pc == b.pc
               taken == b.taken
               id == p.snap
               u == TageTrained(tg, pc, taken, id)
    <3>2. pc \in Nat /\ taken \in BOOLEAN /\ id \in Nat /\ tg' = u
      BY <1>6, <3>1
    <3> HIDE DEF pc, taken, id
    <3>3. /\ u \in TageTables /\ u.wr = tg.wr
          /\ \A j \in Nat : j % SNAP_RING # id % SNAP_RING => SnapOf(u, j) = SnapOf(tg, j)
      BY ONLY <2>1, <3>2, TageTrainedType, Zenon
    <3> HIDE DEF u
    <3> QED BY <2>1, <3>1, <3>2, <3>3 DEF id
  <2>4. CASE (hit \/ b.taken) /\ mode.kind # "tage"
    <3>1. /\ bp' = DirTrained(mode.kind, bp, b.pc, b.taken, hit, p.cnt, p.snap)
          /\ tg' = tg
      BY <1>1, <2>4 DEF Train
    <3>2. hit \in BOOLEAN
      OBVIOUS
    <3> HIDE DEF hit
    <3> QED BY <1>6, <1>8, <2>1, <2>4, <3>1, <3>2, DirTrainedType
  <2> QED BY <2>2, <2>3, <2>4
<1>12. /\ btb' \in [Rows -> Lines]
       /\ byp' \in [written : BOOLEAN, widx : Rows, valid : BOOLEAN, idx : Rows]
  <2> DEFINE l == [valid |-> TRUE, tag |-> BtbTag(b.pc), target |-> b.target,
                   type |-> IF b.ret THEN 1 ELSE 0]
             x == BtbIdx(b.pc)
  <2>1. /\ btb \in [Rows -> Lines]
        /\ byp \in [written : BOOLEAN, widx : Rows, valid : BOOLEAN, idx : Rows]
    BY <1>2 DEF TypeOK
  <2>2. x \in Rows /\ BtbTag(b.pc) \in 0..(2^BtbTagBits - 1)
    BY <1>6, IndexRange
  <2>3. l \in Lines
    BY <1>6, <2>2 DEF Lines
  <2>4. CASE ~b.taken
    BY <1>1, <2>1, <2>4 DEF WriteBtb
  <2>6. CASE b.taken /\ ~mode.btb
    <3>1. btb' = btb /\ byp' = [byp EXCEPT !.written = TRUE, !.widx = 0]
      BY <1>1, <2>6 DEF WriteBtb
    <3>2. 0 \in Rows
      BY Sizes DEF Rows
    <3> QED BY <2>1, <3>1, <3>2
  <2>5. CASE b.taken /\ mode.btb
    <3>1. btb' = [btb EXCEPT ![x] = l] /\ byp' = [byp EXCEPT !.written = TRUE, !.widx = x]
      BY <1>1, <2>5 DEF WriteBtb
    <3> HIDE DEF x, l
    <3> QED BY <2>1, <2>2, <2>3, <3>1
  <2> QED BY <1>6, <2>4, <2>5, <2>6
<1>13. ras' \in Stacks /\ calls' \in Seq(Nat) /\ RasExact'
  <2>1. ras \in Stacks /\ calls \in Seq(Nat)
    BY <1>2 DEF TypeOK
  <2>2. CASE ~mode.ras
    BY <1>1, <1>2, <2>1, <2>2, SameStack
  <2>3. CASE mode.ras
    <3>1. /\ Stacked(b) \in Stacks /\ CallStack(b) = Live(Stacked(b))
          /\ CallStack(b) \in Seq(Nat)
      BY <1>2, <1>6, <2>1, StackedExact
    <3>2. ras' = Stacked(b) /\ calls' = CallStack(b)
      BY <1>1, <2>3
    <3>3. Live(ras') = calls'
      BY <3>1, <3>2
    <3>4. RasExact'
      BY <3>3 DEF RasExact, Live
    <3> QED BY <3>1, <3>2, <3>4
  <2> QED BY <2>2, <2>3
<1>14. /\ mode.kind = "tage" => Restored(p, b.taken) = Shifted(p.saw.ghr, b.taken)
       /\ mode.kind \in HistPredictors => Restored(p, b.taken) = Shifted(p.snap, b.taken)
       /\ mode.kind \notin HistPredictors \cup {"tage"} => Restored(p, b.taken) = ghr
  BY <1>9, <1>10 DEF Restored, HistPredictors
<1>15. ghr' \in 0..(2^HistBits - 1)
  <2>1. ghr \in 0..(2^HistBits - 1)
    BY <1>2 DEF TypeOK
  <2>2. Shifted(p.snap, b.taken) \in 0..(2^HistBits - 1)
    BY <1>6, ShiftedRange
  <2>3. mode.kind = "tage" => Shifted(p.saw.ghr, b.taken) \in 0..(2^HistBits - 1)
    <3>1. ASSUME mode.kind = "tage" PROVE p.saw.ghr \in Nat
      BY <1>9, <3>1 DEF Snaps
    <3> QED BY <1>6, <3>1, ShiftedRange
  <2> QED BY <1>1, <1>14, <2>1, <2>2, <2>3
<1>16. TypeOK'
  <2>1. HistBits' = HistBits
    BY <1>1, SameShift
  <2>2. wrong' \in BOOLEAN /\ wp' \in Nat
    BY <1>1, <1>8
  <2> QED BY <1>1, <1>2, <1>4, <1>11, <1>12, <1>13, <1>15, <2>1, <2>2 DEF TypeOK
<1>17. OneWrong'
  <2>1. ASSUME NEW i \in 1..(L - 1)
        PROVE  inflight'[i].mispred <=> wrong' /\ i = L - 1
    <3>1. i + 1 \in 1..L /\ L # 1 /\ (i + 1 = L <=> i = L - 1)
      BY <1>4
    <3>2. inflight[i + 1].mispred <=> wrong /\ i + 1 = L
      BY <1>2, <3>1 DEF OneWrong
    <3> QED BY <1>1, <1>4, <1>7, <3>1, <3>2
  <2>2. wrong' => inflight' # << >>
    <3>1. ASSUME wrong' PROVE L - 1 # 0
      <4>1. wrong /\ ~e.mispred
        BY <1>1, <3>1
      <4>2. L # 1
        BY <1>7, <4>1
      <4> QED BY ONLY <1>4, <4>2
    <3> QED BY <1>4, <3>1
  <2>3. ~wrong' => wp' = 0
    BY <1>1, <1>2 DEF OneWrong
  <2>4. Len(inflight') + wp' <= Window
    BY <1>1, <1>4, <1>8
  <2> QED BY <1>4, <2>1, <2>2, <2>3, <2>4 DEF OneWrong
<1>18. SnapsInOrder'
  <2> SUFFICES ASSUME mode.kind = "tage", NEW i \in 1..(L - 1)
               PROVE  /\ inflight'[i].pred.snap = (tg'.wr - wp' - (L - 1)) + i - 1
                      /\ SnapOf(tg', inflight'[i].pred.snap) = inflight'[i].pred.saw
                      /\ inflight'[i].pred.saw \in Snaps
    BY <1>1, <1>4 DEF SnapsInOrder, SnapOf
  <2> DEFINE k == i + 1
             q == inflight[k].pred
             s == q.snap
  <2>1. k \in 1..L /\ L # 1 /\ inflight'[i] = inflight[k]
    BY <1>4
  <2>2. s = (tg.wr - wp - L) + k - 1 /\ SnapOf(tg, s) = q.saw /\ q.saw \in Snaps
    BY <1>2, <2>1 DEF SnapsInOrder
  <2>3. s \in Nat
    <3>1. inflight[k] \in Fetched
      BY <1>3, <2>1, ElementOfSeq
    <3> QED BY <3>1 DEF Fetched, Preds
  <2>4. wp' = wp /\ tg'.wr = tg.wr
    BY <1>1, <1>7, <1>11, <2>1
  <2> DEFINE o == p.snap
  <2>5. o = tg.wr - wp - L /\ o \in Nat
    BY <1>6, <1>9
  <2> HIDE DEF s, o
  <2>6. o < s /\ s < o + SNAP_RING /\ s = (tg'.wr - wp' - (L - 1)) + i - 1
    <3> DEFINE w == tg.wr
               v == tg'.wr
    <3>1. /\ L \in Nat \ {0} /\ wp \in Nat /\ w \in Nat /\ L + wp < SNAP_RING
          /\ SNAP_RING \in Nat /\ i \in 1..(L - 1)
      BY <1>4, <1>8
    <3>2. s = (w - wp - L) + (i + 1) - 1 /\ o = w - wp - L /\ wp' = wp /\ v = w
      BY <2>2, <2>4, <2>5
    <3> HIDE DEF w, v, L
    <3>3. s = o + i
      BY ONLY <2>3, <2>5, <3>1, <3>2
    <3>4. s = (v - wp' - (L - 1)) + i - 1
      BY ONLY <3>1, <3>2
    <3>5. o < s /\ s < o + SNAP_RING
      BY ONLY <2>5, <3>1, <3>3
    <3> QED BY <3>4, <3>5 DEF v, L
  <2>7. s % SNAP_RING # o % SNAP_RING
    BY <1>8, <2>3, <2>5, <2>6, RingDistinct
  <2>8. SnapOf(tg', s) = SnapOf(tg, s)
    BY <1>11, <2>3, <2>7 DEF o
  <2> QED BY <2>1, <2>2, <2>6, <2>8 DEF s
<1>19. HistoryKept'
  <2> SUFFICES ASSUME mode.kind \in HistPredictors \cup {"tage"}
               PROVE  hist = IF wrong' THEN Shifted(Seen(Last'.pred), Last'.b.taken) ELSE ghr'
    <3>1. \A g, t : Shifted(g, t) = (2 * g + Bit(t)) % 2^HistBits'
      BY <1>1, SameShift DEF Shifted
    <3>2. \A g : Seen(g) = IF mode'.kind = "tage" THEN g.saw.ghr ELSE g.snap
      BY <1>1 DEF Seen
    <3> QED BY <1>1, <3>1, <3>2 DEF HistoryKept, Shifted, Seen
  <2>1. hist = IF wrong THEN Shifted(Seen(Last.pred), Last.b.taken) ELSE ghr
    BY <1>2 DEF HistoryKept
  <2>2. CASE e.mispred
    <3>1. Last = e /\ wrong /\ ~wrong' /\ ghr' = Restored(p, b.taken)
      BY <1>1, <1>5, <1>7, <2>2 DEF Last, e
    <3>2. Restored(p, b.taken) = Shifted(Seen(p), b.taken)
      BY <1>14 DEF Seen, HistPredictors
    <3> QED BY <2>1, <3>1, <3>2 DEF p, b
  <2>3. CASE ~e.mispred
    <3>1. ghr' = ghr /\ (wrong' <=> wrong)
      BY <1>1, <2>3
    <3>2. ASSUME wrong PROVE Last' = Last
      <4>1. L # 1 /\ L - 1 \in 1..(L - 1) /\ (L - 1) + 1 = L
        BY <1>4, <1>7, <2>3, <3>2
      <4> QED BY <1>4, <4>1 DEF Last
    <3>3. CASE wrong
      BY <2>1, <3>1, <3>2, <3>3
    <3>4. CASE ~wrong
      BY <2>1, <3>1, <3>4
    <3> QED BY <3>3, <3>4
  <2> QED BY <2>2, <2>3
<1> QED BY <1>13, <1>16, <1>17, <1>18, <1>19 DEF IInv

\* A new tick, a sleeping core and a step of nobody change only the bypass flags
\* and the part of the tick.
LEMMA TickInv ==
    ASSUME IInv, BeginTick \/ Sleep \/ UNCHANGED vars
    PROVE  IInv'
<1>1. /\ UNCHANGED <<mode, bp, tg, ghr, btb, ras, inflight, wrong, wp, n, hist, calls>>
      /\ phase' \in {"exec", "fetch"} \/ phase' = phase
  BY DEF BeginTick, Sleep, vars
<1>2. byp' \in [written : BOOLEAN, widx : Rows, valid : BOOLEAN, idx : Rows]
  <2>1. byp \in [written : BOOLEAN, widx : Rows, valid : BOOLEAN, idx : Rows]
    BY DEF IInv, TypeOK
  <2>2. \/ byp' = byp
        \/ byp' = [byp EXCEPT !.valid = byp.written, !.idx = byp.widx, !.written = FALSE]
    BY DEF BeginTick, Sleep, vars
  <2> QED BY <2>1, <2>2
<1>3. TypeOK'
  BY <1>1, <1>2, SameShift DEF IInv, TypeOK
<1>4. OneWrong' /\ SnapsInOrder'
  BY <1>1 DEF IInv, OneWrong, SnapsInOrder, SnapOf
<1>5. HistoryKept'
  BY <1>1 DEF IInv, HistoryKept, Shifted, HistBits, Seen, Last
<1>6. RasExact'
  BY <1>1, SameStack DEF IInv
<1> QED BY <1>3, <1>4, <1>5, <1>6 DEF IInv

----------------------------------------------------------------------------
(* The theorems. *)

\* Every step keeps the invariant.
LEMMA NextInv ==
    ASSUME IInv, [Next]_vars
    PROVE  IInv'
<1>1. ASSUME NEW b \in mode.prog[1 + (n % Len(mode.prog))], Fetch(b) PROVE IInv'
  <2> DEFINE L == Len(mode.prog)
             i == 1 + (n % L)
  <2>1. L \in Nat \ {0} /\ n \in Nat
    BY BranchUnitAssumption DEF IInv, TypeOK
  <2>2. i \in 1..L
    <3> HIDE DEF L
    <3>1. n % L \in 0..(L - 1)
      BY <2>1, Division
    <3> QED BY <2>1, <3>1
  <2>3. mode.prog[i] \subseteq Branches
    <3>1. mode \in Modes
      BY DEF IInv, TypeOK
    <3> HIDE DEF i
    <3> QED BY <2>2, <3>1, BranchUnitAssumption
  <2>4. b \in Branches
    BY <2>3
  <2> QED BY <1>1, <2>4, FetchInv
<1>2. ASSUME NEW pc \in WrongPcs, WrongPath(pc) PROVE IInv'
  BY <1>2, WrongPathInv
<1>3. CASE Resolve
  BY <1>3, ResolveInv
<1>4. CASE BeginTick \/ Sleep \/ UNCHANGED vars
  BY <1>4, TickInv
<1> QED BY <1>1, <1>2, <1>3, <1>4 DEF Next

\* The invariant says that the snapshots in flight are kept ...
LEMMA SnapIntactFromInv ==
    ASSUME IInv
    PROVE  SnapIntact
<1> SUFFICES ASSUME mode.kind = "tage", NEW i \in 1..Len(inflight)
             PROVE  /\ SnapKept(tg, inflight[i].pred.snap)
                    /\ SnapOf(tg, inflight[i].pred.snap) = inflight[i].pred.saw
  BY DEF SnapIntact
<1> DEFINE s == inflight[i].pred.snap
           w == tg.wr
           L == Len(inflight)
<1>1. s = (w - wp - L) + i - 1 /\ SnapOf(tg, s) = inflight[i].pred.saw
  BY DEF IInv, SnapsInOrder
<1>2. /\ L \in Nat /\ wp \in Nat /\ w \in Nat /\ L + wp <= Window /\ i \in 1..L
      /\ Window \in Nat /\ SNAP_RING \in Nat /\ Window < SNAP_RING
  BY Numbers, Sizes
<1> HIDE DEF s, w, L
<1>3. w - s < SNAP_RING
  BY <1>1, <1>2
<1> QED BY <1>1, <1>3 DEF SnapKept, s, w

\* ... and that the history is exact on the right path.
LEMMA HistoryExactFromInv ==
    ASSUME IInv
    PROVE  HistoryExact
BY DEF IInv, HistoryKept, HistoryExact

\* The inductive invariant holds in every behaviour of the branch unit.
THEOREM BranchUnitInvariant == Spec => []IInv
<1>1. Init => IInv
  BY InitInv
<1>2. IInv /\ [Next]_vars => IInv'
  BY NextInv
<1> QED BY <1>1, <1>2, PTL DEF Spec

\* No index, pointer or counter of the predictors, the target buffer or the return
\* stack leaves its range, whatever the table sizes and the program.
THEOREM BranchUnitTypeOK == Spec => []TypeOK
<1>1. IInv => TypeOK
  BY DEF IInv
<1> QED BY <1>1, BranchUnitInvariant, PTL

\* The history is that of the right path whenever the fetch stage is on it:
\* speculative shifts, wrong-path shifts and on_mispred's restore cancel exactly.
THEOREM HistoryExactHolds == Spec => []HistoryExact
<1>1. IInv => HistoryExact
  BY HistoryExactFromInv
<1> QED BY <1>1, BranchUnitInvariant, PTL

\* A ring of more slots than the window never loses a snapshot before its branch
\* resolves, and update and on_mispred read what that branch's predict wrote.
THEOREM SnapIntactHolds == Spec => []SnapIntact
<1>1. IInv => SnapIntact
  BY SnapIntactFromInv
<1> QED BY <1>1, BranchUnitInvariant, PTL

\* The return stack of any depth is the program's call stack cut to that depth.
THEOREM RasExactHolds == Spec => []RasExact
<1>1. IInv => RasExact
  BY DEF IInv
<1> QED BY <1>1, BranchUnitInvariant, PTL
=============================================================================

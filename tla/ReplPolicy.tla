----------------------------- MODULE ReplPolicy -----------------------------
(* Replacement policies of one cache set.  A policy's memory of the set is   *)
(* PLRU: the tree bits; round robin: the pointer.                            *)
EXTENDS Integers

\* Mutated form: the multiplexers' polarity is inverted.
VictimWayInverted(assoc, bits) ==
    CASE assoc = 1 -> 0
      [] assoc = 2 -> bits % 2
      [] assoc = 4 -> IF bits % 2 = 1
                      THEN (IF (bits \div 4) % 2 = 1 THEN 3 ELSE 2)
                      ELSE (IF (bits \div 2) % 2 = 1 THEN 1 ELSE 0)

\* PLRUReplPolicy::victim_way: follow the bits to the way not used recently.
victim_way(assoc, bits) ==
    CASE assoc = 1 -> 0
      [] assoc = 2 -> IF bits % 2 = 1 THEN 0 ELSE 1
      [] assoc = 4 -> IF bits % 2 = 1
                      THEN (IF (bits \div 2) % 2 = 1 THEN 0 ELSE 1)
                      ELSE (IF (bits \div 4) % 2 = 1 THEN 2 ELSE 3)

\* Mutated form: the right half's bit is written with the left half's.
UpdateBitsWrongHalf(assoc, bits, way) ==
    CASE assoc = 1 -> 0
      [] assoc = 2 -> way % 2
      [] assoc = 4 -> (way \div 2) + 2 * (way % 2) + 4 * ((bits \div 4) % 2)

\* PLRUReplPolicy::update_bits: point every bit on the path away from way.
update_bits(assoc, bits, way) ==
    LET b1 == (bits \div 2) % 2
        b2 == (bits \div 4) % 2
        w0 == way % 2
        w1 == (way \div 2) % 2
    IN  CASE assoc = 1 -> 0
          [] assoc = 2 -> w0
          [] assoc = 4 -> w1 + 2 * (IF w1 = 1 THEN b1 ELSE w0)
                             + 4 * (IF w1 = 1 THEN w0 ELSE b2)

\* getVictim, onHit and onFill of the two policies that keep per-set memory.
getVictim(policy, assoc, mem) ==
    IF policy = "plru" THEN victim_way(assoc, mem) ELSE mem % assoc

onHit(policy, assoc, mem, way) ==
    IF policy = "plru" THEN update_bits(assoc, mem, way) ELSE mem

onFill(policy, assoc, mem, way) ==
    IF policy = "plru" THEN update_bits(assoc, mem, way) ELSE (mem + 1) % assoc
=============================================================================

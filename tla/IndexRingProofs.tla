--------------------------- MODULE IndexRingProofs ---------------------------
(***************************************************************************)
(* TMpmcIndexRing implements ClaimRing, and refuses only what cannot be    *)
(* admitted, at any number of cells and threads, across the wrap of its    *)
(* positions.                                                              *)
(***************************************************************************)
EXTENDS TMpmcIndexRing, FiniteSetTheorems, SequenceTheorems, WellFoundedInduction, TLAPS

(***************************************************************************)
(* Remainders.                                                             *)
(***************************************************************************)
LEMMA Remainder ==
    ASSUME NEW n \in Int, NEW m \in Nat \ {0}
    PROVE  /\ n % m \in 0 .. m - 1
           /\ n \div m \in Int /\ n = m * (n \div m) + (n % m)
  <1>1. n % m \in 0 .. m - 1
    OBVIOUS
  <1>2. n \div m \in Int
    OBVIOUS
  <1>3. n = m * (n \div m) + (n % m)
    OBVIOUS
  <1> QED BY <1>1, <1>2, <1>3

LEMMA RemainderIsUnique ==
    ASSUME NEW m \in Nat \ {0}, NEW k \in Int, NEW r \in 0 .. m - 1
    PROVE  (m * k + r) % m = r
  OBVIOUS

LEMMA Shifted ==
    ASSUME NEW m \in Nat \ {0}, NEW n \in Int, NEW k \in Int
    PROVE  (n + m * k) % m = n % m
  <1> DEFINE q == n \div m
             r == n % m
  <1>1. r \in 0 .. m - 1 /\ q \in Int /\ n = m * q + r
    BY Remainder
  <1> HIDE DEF q, r
  <1>2. m * (q + k) = m * q + m * k /\ q + k \in Int
    BY <1>1
  <1>3. m * q \in Int /\ m * k \in Int
    BY <1>1
  <1>4. n + m * k = m * (q + k) + r
    BY <1>1, <1>2, <1>3
  <1>5. (m * (q + k) + r) % m = r
    BY <1>1, <1>2, RemainderIsUnique
  <1> QED BY <1>4, <1>5 DEF r

LEMMA SameRemainder ==
    ASSUME NEW m \in Nat \ {0}, NEW a \in Int, NEW b \in Int,
           a % m = b % m, a - b < m, b - a < m
    PROVE  a = b
  <1> DEFINE q == a \div m
             s == b \div m
             r == a % m
  <1>1. r \in 0 .. m - 1 /\ q \in Int /\ a = m * q + r /\ s \in Int /\ b = m * s + r
    BY Remainder
  <1> HIDE DEF q, r, s
  <1>2. m * q \in Int /\ m * s \in Int /\ m * (q - s) = m * q - m * s
    BY <1>1
  <1>3. a - b = m * (q - s)
    BY <1>1, <1>2
  <1>4. q - s = 0
    <2>1. q - s \in Int /\ m * (q - s) < m /\ -m < m * (q - s)
      BY <1>1, <1>2, <1>3
    <2> QED BY <2>1
  <1> QED BY <1>1, <1>2, <1>4

LEMMA ShiftedOnce ==
    ASSUME NEW m \in Nat \ {0}, NEW n \in Int
    PROVE  (n + m) % m = n % m /\ (n - m) % m = n % m
  <1>1. PICK one \in Int : one = 1
    OBVIOUS
  <1>2. PICK less \in Int : less = -1
    OBVIOUS
  <1>3. (n + m * one) % m = n % m /\ (n + m * less) % m = n % m
    BY Shifted
  <1>4. n + m * one = n + m /\ n + m * less = n - m
    BY <1>1, <1>2
  <1> QED BY <1>3, <1>4

LEMMA ProductIsNat ==
    ASSUME NEW m \in Nat, NEW n \in Nat
    PROVE  m * n \in Nat
  OBVIOUS

(* Of any m numbers in a row one has the remainder.                        *)
LEMMA InOneLap ==
    ASSUME NEW m \in Nat \ {0}, NEW n \in Int, NEW last \in Int
    PROVE  \E q \in last - m .. last - 1 : q % m = n % m /\ (n < last => q >= n)
  <1> DEFINE r == (n - last) % m
             k == (n - last) \div m
  <1>1. r \in 0 .. m - 1 /\ k \in Int /\ n - last = m * k + r
    BY Remainder
  <1> HIDE DEF r, k
  <1>2. PICK j \in Int : j = -k - 1
    BY <1>1
  <1>3. m * k \in Int /\ m * j = -(m * k) - m
    BY <1>1, <1>2
  <1>4. last - m + r = n + m * j
    BY <1>1, <1>3
  <1>5. (last - m + r) % m = n % m
    BY <1>4, Shifted
  <1>6. ASSUME n < last PROVE last - m + r >= n
    <2>1. m * k < 0
      BY <1>1, <1>3, <1>6
    <2>2. j \in Nat
      BY <1>1, <1>2, <2>1
    <2>3. PICK p \in Nat : p = m * j
      BY <2>2, ProductIsNat
    <2>4. last - m + r = n + p
      BY <1>4, <2>3
    <2> QED BY <2>3, <2>4
  <1>7. PICK q \in Int : q = last - m + r
    BY <1>1
  <1>8. q \in last - m .. last - 1
    BY <1>1, <1>7
  <1>9. q % m = n % m /\ (n < last => q >= n)
    BY <1>5, <1>6, <1>7
  <1> QED BY <1>8, <1>9
-----------------------------------------------------------------------------
(***************************************************************************)
(* Words.  The calls are too few for the positions to come round, so that  *)
(* a word stands for one offset from the origin.                           *)
(***************************************************************************)
Offset(w) == Wrap(w - Origin)

LEMMA WrapOnce ==
    ASSUME RingAssumption, NEW n \in Int
    PROVE  /\ n \in 0 .. WordValues - 1 => Wrap(n) = n
           /\ n \in -WordValues .. -1 => Wrap(n) = n + WordValues
           /\ n \in WordValues .. 2 * WordValues - 1 => Wrap(n) = n - WordValues
           /\ Wrap(n) \in Word
  <1>1. WordValues \in Nat \ {0}
    BY DEF RingAssumption
  <1>2. Wrap(n) \in Word
    BY <1>1, Remainder DEF Wrap, Word
  <1>3. ASSUME n \in 0 .. WordValues - 1 PROVE Wrap(n) = n
    <2>1. (WordValues * 0 + n) % WordValues = n
      BY <1>1, <1>3, RemainderIsUnique
    <2> QED BY <1>1, <2>1 DEF Wrap
  <1>4. ASSUME n \in -WordValues .. -1 PROVE Wrap(n) = n + WordValues
    <2>1. (WordValues * (-1) + (n + WordValues)) % WordValues = n + WordValues
      BY <1>1, <1>4, RemainderIsUnique
    <2>2. WordValues * (-1) + (n + WordValues) = n
      BY <1>1
    <2> QED BY <2>1, <2>2 DEF Wrap
  <1>5. ASSUME n \in WordValues .. 2 * WordValues - 1 PROVE Wrap(n) = n - WordValues
    <2>1. (WordValues * 1 + (n - WordValues)) % WordValues = n - WordValues
      BY <1>1, <1>5, RemainderIsUnique
    <2>2. WordValues * 1 + (n - WordValues) = n
      BY <1>1
    <2> QED BY <2>1, <2>2 DEF Wrap
  <1> QED BY <1>2, <1>3, <1>4, <1>5

LEMMA Offsets ==
    ASSUME RingAssumption
    PROVE  /\ \A w \in Word : Offset(w) \in Word
           /\ \A v, w \in Word : Offset(v) = Offset(w) => v = w
           /\ \A q \in Word : Offset(Wrap(Origin + q)) = q
  <1>1. WordValues \in Nat \ {0} /\ Origin \in Word
    BY DEF RingAssumption, Word
  <1>2. ASSUME NEW w \in Word
        PROVE  Offset(w) = IF w >= Origin THEN w - Origin ELSE w - Origin + WordValues
    <2>1. w - Origin \in Int /\ (w >= Origin => w - Origin \in 0 .. WordValues - 1)
          /\ (w < Origin => w - Origin \in -WordValues .. -1)
      BY <1>1 DEF Word
    <2> QED BY <1>1, <2>1, WrapOnce DEF Offset, Word
  <1>3. ASSUME NEW q \in Word PROVE Offset(Wrap(Origin + q)) = q
    <2>1. CASE Origin + q < WordValues
      <3>1. Wrap(Origin + q) = Origin + q /\ Origin + q \in Word
        BY <1>1, <2>1, WrapOnce DEF Word
      <3> QED BY <1>1, <1>2, <3>1 DEF Word
    <2>2. CASE Origin + q >= WordValues
      <3>1. Wrap(Origin + q) = Origin + q - WordValues /\ Origin + q - WordValues \in Word
        BY <1>1, <2>2, WrapOnce DEF Word
      <3> QED BY <1>1, <1>2, <3>1 DEF Word
    <2> QED BY <1>1, <2>1, <2>2 DEF Word
  <1> QED BY <1>1, <1>2, <1>3 DEF Word

LEMMA OffsetForward ==
    ASSUME RingAssumption, NEW w \in Word, NEW k \in Nat, Offset(w) + k < WordValues
    PROVE  /\ Wrap(w + k) \in Word
           /\ Offset(Wrap(w + k)) = Offset(w) + k
  <1>1. WordValues \in Nat \ {0} /\ Origin \in Word
    BY DEF RingAssumption, Word
  <1>2. Offset(w) \in Word
    BY Offsets
  <1>3. Wrap(Origin + Offset(w)) = w
    <2>1. Wrap(Origin + Offset(w)) \in Word /\ Offset(Wrap(Origin + Offset(w))) = Offset(w)
      BY <1>1, <1>2, WrapOnce, Offsets DEF Word
    <2> QED BY <2>1, Offsets
  <1>4. Wrap(w + k) = Wrap(Origin + (Offset(w) + k))
    <2>1. w = Origin + Offset(w) \/ w = Origin + Offset(w) - WordValues
      BY <1>1, <1>2, <1>3, WrapOnce DEF Word
    <2>2. CASE w = Origin + Offset(w)
      BY <1>1, <1>2, <2>2 DEF Word
    <2>3. CASE w = Origin + Offset(w) - WordValues
      <3>1. (w + k + WordValues) % WordValues = (w + k) % WordValues
        <4>1. w + k \in Int
          BY <1>1 DEF Word
        <4> QED BY <1>1, <4>1, ShiftedOnce
      <3>2. w + k + WordValues = Origin + (Offset(w) + k)
        BY <1>1, <1>2, <2>3 DEF Word
      <3> QED BY <3>1, <3>2 DEF Wrap
    <2> QED BY <2>1, <2>2, <2>3
  <1>5. Offset(w) + k \in Word /\ w + k \in Int
    BY <1>1, <1>2 DEF Word
  <1> QED BY <1>4, <1>5, Offsets, WrapOnce

(* The slots come round together with the words.                           *)
LEMMA SlotOfOffset ==
    ASSUME RingAssumption, NEW w \in Word
    PROVE  SlotOf(w) = Offset(w) % Capacity
  <1>1. WordValues \in Nat \ {0} /\ Origin \in Word /\ Capacity \in Nat \ {0}
        /\ WordValues % Capacity = 0 /\ Origin % Capacity = 0
    BY DEF RingAssumption, Word
  <1>2. WordValues = Capacity * (WordValues \div Capacity) /\ WordValues \div Capacity \in Int
    <2>1. WordValues = Capacity * (WordValues \div Capacity) + (WordValues % Capacity)
          /\ WordValues \div Capacity \in Int
      BY <1>1, Remainder
    <2> QED BY <1>1, <2>1
  <1>3. Origin = Capacity * (Origin \div Capacity) /\ Origin \div Capacity \in Int
    <2>1. Origin = Capacity * (Origin \div Capacity) + (Origin % Capacity)
          /\ Origin \div Capacity \in Int
      BY <1>1, Remainder DEF Word
    <2> QED BY <1>1, <2>1
  <1>4. PICK a \in Int, b \in Int : WordValues = Capacity * a /\ Origin = Capacity * b
    BY <1>2, <1>3
  <1>5. Offset(w) = w - Origin \/ Offset(w) = w - Origin + WordValues
    BY <1>1, WrapOnce DEF Offset, Word
  <1>6. CASE Offset(w) = w - Origin
    <2>1. (Offset(w) + Capacity * b) % Capacity = Offset(w) % Capacity
      <3>1. Offset(w) \in Int /\ b - a \in Int
        BY Offsets DEF Word
      <3> QED BY <1>1, <1>4, <3>1, Shifted
    <2>2. Offset(w) + Capacity * b = w
      BY <1>1, <1>4, <1>6 DEF Word
    <2> QED BY <2>1, <2>2 DEF SlotOf
  <1>7. CASE Offset(w) = w - Origin + WordValues
    <2>1. (Offset(w) + Capacity * (b - a)) % Capacity = Offset(w) % Capacity
      <3>1. Offset(w) \in Int /\ b - a \in Int
        BY Offsets DEF Word
      <3> QED BY <1>1, <1>4, <3>1, Shifted
    <2>2. Capacity * (b - a) = Origin - WordValues
      BY <1>1, <1>4
    <2>3. Offset(w) + Capacity * (b - a) = w
      BY <1>1, <2>2, <1>7 DEF Word
    <2> QED BY <2>1, <2>3 DEF SlotOf
  <1> QED BY <1>5, <1>6, <1>7

(* The signed difference of words that are near is that of their offsets.  *)
LEMMA NearWords ==
    ASSUME RingAssumption, NEW v \in Word, NEW w \in Word,
           2 * (Offset(v) - Offset(w)) <= WordValues - 2,
           2 * (Offset(w) - Offset(v)) <= WordValues
    PROVE  Difference(v, w) = Offset(v) - Offset(w)
  <1>1. WordValues \in Nat \ {0} /\ Origin \in Word
    BY DEF RingAssumption, Word
  <1>2. Offset(v) \in Word /\ Offset(w) \in Word
    BY Offsets
  <1>3. Wrap(v - w) = Wrap(Offset(v) - Offset(w))
    <2>1. /\ Offset(v) = v - Origin \/ Offset(v) = v - Origin + WordValues
          /\ Offset(w) = w - Origin \/ Offset(w) = w - Origin + WordValues
      BY <1>1, WrapOnce DEF Offset, Word
    <2>2. /\ (v - w + WordValues) % WordValues = (v - w) % WordValues
          /\ (v - w - WordValues) % WordValues = (v - w) % WordValues
      <3>1. v - w \in Int
        BY <1>1 DEF Word
      <3> QED BY <1>1, <3>1, ShiftedOnce
    <2>3. \/ Offset(v) - Offset(w) = v - w
          \/ Offset(v) - Offset(w) = v - w + WordValues
          \/ Offset(v) - Offset(w) = v - w - WordValues
      BY <1>1, <2>1 DEF Word
    <2> QED BY <2>2, <2>3 DEF Wrap
  <1>4. WordValues \div 2 \in Int /\ 2 * (WordValues \div 2) <= WordValues
        /\ WordValues <= 2 * (WordValues \div 2) + 1
    BY <1>1
  <1>5. Offset(v) - Offset(w) \in Int
    BY <1>2 DEF Word
  <1>6. CASE Offset(v) >= Offset(w)
    <2>1. Wrap(v - w) = Offset(v) - Offset(w)
      BY <1>1, <1>2, <1>3, <1>5, <1>6, WrapOnce DEF Word
    <2> QED BY <1>1, <1>2, <1>4, <1>6, <2>1 DEF Word, Difference
  <1>7. CASE Offset(v) < Offset(w)
    <2>1. Wrap(v - w) = Offset(v) - Offset(w) + WordValues
      BY <1>1, <1>2, <1>3, <1>5, <1>7, WrapOnce DEF Word
    <2> QED BY <1>1, <1>2, <1>4, <1>7, <2>1 DEF Word, Difference
  <1> QED BY <1>2, <1>6, <1>7 DEF Word
-----------------------------------------------------------------------------
(***************************************************************************)
(* The invariant, in offsets.                                              *)
(***************************************************************************)
First == IF StartFull THEN Capacity ELSE 0
Pushed == Offset(enqueue)
Popped == Offset(dequeue)
At(t) == Offset(position[t])
Stamp(q) == Offset(sequence[q % Capacity])

(* The positions whose cells the slots hold.                               *)
Lap == Pushed - Capacity .. Pushed - 1

Fillers == {t \in Thread : at[t] = "push_fill"}
Emptiers == {t \in Thread : at[t] = "pop_empty"}
Pending == {t \in Thread : at[t] \in {"push_load", "push_test", "push_claim",
                                      "pop_load", "pop_test", "pop_claim"}}

(* A cell is being filled, holds a payload that no pop has claimed or that *)
(* one is reading, or is vacated for the next lap.                         *)
CellInv(q) ==
    \/ Stamp(q) = q /\ q >= Popped /\ \E t \in Fillers : At(t) = q
    \/ Stamp(q) = q + 1 /\ (q >= Popped \/ \E t \in Emptiers : At(t) = q)
    \/ Stamp(q) = q + Capacity /\ q < Popped

CellsInv == \A q \in Lap : CellInv(q)

OwnersInv ==
    /\ \A t \in Fillers : At(t) \in Lap /\ Stamp(At(t)) = At(t)
    /\ \A t \in Emptiers : At(t) \in Lap /\ At(t) < Popped /\ Stamp(At(t)) = At(t) + 1
    /\ \A t, u \in Fillers \cup Emptiers : At(t) = At(u) => t = u

(* What a thread judges by may be old, but never from the future, and a    *)
(* slot's sequence does not go back.                                       *)
CallersInv ==
    \A t \in Thread :
        /\ at[t] \in {"push_test", "push_claim"} => First <= At(t) /\ At(t) <= Pushed
        /\ at[t] = "push_claim" => Stamp(At(t)) >= At(t)
        /\ at[t] \in {"pop_test", "pop_claim"} => At(t) <= Popped
        /\ at[t] = "pop_claim" => Stamp(At(t)) >= At(t) + 1

CountInv ==
    /\ IsFiniteSet(Pending)
    /\ (Pushed - First) + Popped + Cardinality(Pending) <= Operations - left

OrderInv == First <= Pushed /\ Popped <= Pushed /\ Pushed <= Popped + Capacity

IInv == TypeOK /\ OrderInv /\ CellsInv /\ OwnersInv /\ CallersInv /\ CountInv
-----------------------------------------------------------------------------
LEMMA Constants ==
    ASSUME RingAssumption
    PROVE  /\ Capacity \in Nat /\ Capacity >= 2 /\ WordValues \in Nat /\ 4 * Capacity <= WordValues
           /\ Operations \in Nat /\ Operations + 3 * Capacity <= WordValues + 3
           /\ Origin \in Word /\ (First = 0 \/ First = Capacity)
  BY DEF RingAssumption, First, Word

LEMMA Ranges ==
    ASSUME RingAssumption, TypeOK
    PROVE  /\ Pushed \in Nat /\ Pushed < WordValues /\ Popped \in Nat /\ Popped < WordValues
           /\ \A t \in Thread :
                 /\ At(t) \in Nat /\ At(t) < WordValues
                 /\ SlotOf(position[t]) = At(t) % Capacity
                 /\ SlotOf(position[t]) \in Slots
           /\ \A q \in Int :
                 /\ q % Capacity \in Slots
                 /\ Stamp(q) \in Nat /\ Stamp(q) < WordValues
  <1>1. \A w \in Word : Offset(w) \in Nat /\ Offset(w) < WordValues
    BY Constants, Offsets DEF Word
  <1>2. \A q \in Int : q % Capacity \in Slots
    <2>1. Capacity \in Nat \ {0}
      BY Constants
    <2> QED BY <2>1, Remainder DEF Slots
  <1>3. \A q \in Int : sequence[q % Capacity] \in Word
    BY <1>2 DEF TypeOK
  <1>4. \A t \in Thread : position[t] \in Word
    BY DEF TypeOK
  <1>5. ASSUME NEW t \in Thread
        PROVE  SlotOf(position[t]) = At(t) % Capacity /\ SlotOf(position[t]) \in Slots
    <2>1. SlotOf(position[t]) = At(t) % Capacity
      BY <1>4, SlotOfOffset DEF At
    <2>2. At(t) \in Int
      BY <1>1, <1>4 DEF At
    <2> QED BY <1>2, <2>1, <2>2
  <1>6. enqueue \in Word /\ dequeue \in Word
    BY DEF TypeOK
  <1>7. Pushed \in Nat /\ Pushed < WordValues /\ Popped \in Nat /\ Popped < WordValues
    BY <1>1, <1>6 DEF Pushed, Popped
  <1>8. \A t \in Thread : At(t) \in Nat /\ At(t) < WordValues
    BY <1>1, <1>4 DEF At
  <1>9. \A q \in Int : Stamp(q) \in Nat /\ Stamp(q) < WordValues
    BY <1>1, <1>3 DEF Stamp
  <1> QED BY <1>2, <1>5, <1>7, <1>8, <1>9

(* Two positions of one lap have slots of their own.                       *)
LEMMA LapSlots ==
    ASSUME RingAssumption, TypeOK, NEW q \in Lap, NEW r \in Lap, q % Capacity = r % Capacity
    PROVE  q = r
  <1>1. Capacity \in Nat \ {0} /\ q \in Int /\ r \in Int /\ q - r < Capacity /\ r - q < Capacity
    BY Constants, Ranges DEF Lap
  <1> QED BY <1>1, SameRemainder

(* The cell that has a position's slot: it is not behind the position      *)
(* unless the position is that of the next push.                           *)
LEMMA Holder ==
    ASSUME RingAssumption, IInv, NEW n \in Nat, n <= Pushed
    PROVE  \E q \in Lap :
              /\ q \in Int /\ q % Capacity = n % Capacity /\ Stamp(q) = Stamp(n) /\ CellInv(q)
              /\ n < Pushed => q = n \/ q >= n + Capacity
              /\ n = Pushed => q = n - Capacity
  <1>1. Capacity \in Nat \ {0} /\ Pushed \in Int /\ n \in Int
    BY Constants, Ranges DEF IInv
  <1>2. PICK q \in Lap : q % Capacity = n % Capacity /\ (n < Pushed => q >= n)
    <2>1. \E q \in Pushed - Capacity .. Pushed - 1 :
              q % Capacity = n % Capacity /\ (n < Pushed => q >= n)
      BY <1>1, InOneLap
    <2> QED BY <2>1 DEF Lap
  <1>3. q \in Int /\ Stamp(q) = Stamp(n) /\ CellInv(q)
    BY <1>1, <1>2 DEF IInv, CellsInv, Stamp, Lap
  <1>4. ASSUME n < Pushed PROVE q = n \/ q >= n + Capacity
    <2>1. ASSUME q - n < Capacity PROVE q = n
      <3>1. n - q < Capacity
        BY <1>1, <1>2, <1>3, <1>4
      <3> HIDE DEF Lap
      <3> QED BY <1>1, <1>2, <1>3, <2>1, <3>1, SameRemainder, Zenon
    <2> QED BY <1>1, <1>2, <1>3, <1>4, <2>1
  <1>5. ASSUME n = Pushed PROVE q = n - Capacity
    <2>1. n - Capacity \in Int
      BY <1>1
    <2>3. (n - Capacity) % Capacity = n % Capacity
      BY <1>1, ShiftedOnce, Zenon
    <2>2. q - (n - Capacity) < Capacity /\ (n - Capacity) - q < Capacity
      BY <1>1, <1>2, <1>3, <1>5 DEF Lap
    <2> QED BY <1>1, <1>2, <1>3, <2>1, <2>2, <2>3, SameRemainder
  <1> QED BY <1>2, <1>3, <1>4, <1>5

(* The number of calls bounds the positions.                               *)
LEMMA Reach ==
    ASSUME RingAssumption, IInv
    PROVE  /\ (Pushed - First) + Popped <= Operations
           /\ Pending # {} => (Pushed - First) + Popped + 1 <= Operations
  <1>1. Cardinality(Pending) \in Nat /\ (Pending # {} => Cardinality(Pending) >= 1)
    <2>1. Cardinality(Pending) \in Nat
      BY FS_CardinalityType DEF IInv, CountInv
    <2>2. Pending # {} => Cardinality(Pending) # 0
      BY FS_EmptySet DEF IInv, CountInv
    <2> QED BY <2>1, <2>2
  <1>2. left \in Nat /\ Operations \in Nat
    BY Constants DEF IInv, TypeOK
  <1>3. Pushed \in Nat /\ Popped \in Nat /\ First \in Nat
    BY Constants, Ranges DEF IInv
  <1> QED BY <1>1, <1>2, <1>3 DEF IInv, CountInv

(* How far a slot's sequence is from the positions.                        *)
LEMMA StampBounds ==
    ASSUME RingAssumption, IInv, NEW n \in Int
    PROVE  /\ Stamp(n) >= Pushed - Capacity
           /\ Stamp(n) <= Pushed \/ Stamp(n) + 1 <= Popped + Capacity
  <1>1. Capacity \in Nat \ {0} /\ Pushed \in Int /\ Popped \in Int
    BY Constants, Ranges DEF IInv
  <1>2. PICK q \in Lap : q % Capacity = n % Capacity
    BY <1>1, InOneLap DEF Lap
  <1>3. q \in Int /\ Stamp(q) = Stamp(n) /\ CellInv(q) /\ q >= Pushed - Capacity /\ q < Pushed
    BY <1>1, <1>2 DEF IInv, CellsInv, Stamp, Lap
  <1> QED BY <1>1, <1>3 DEF CellInv

(* The distance back from the next push, in words and in offsets.          *)
LEMMA WindowDistance ==
    ASSUME RingAssumption, TypeOK, NEW w \in Word, Offset(w) <= Pushed
    PROVE  Wrap(enqueue - w) = Pushed - Offset(w)
  <1>1. enqueue \in Word /\ WordValues \in Nat \ {0} /\ Origin \in Word
    BY Constants DEF TypeOK, Word
  <1>2. Offset(w) \in Word /\ Pushed \in Word
    BY <1>1, Offsets DEF Pushed
  <1>3. Wrap(enqueue - w) = Wrap(Pushed - Offset(w))
    <2>1. /\ Pushed = enqueue - Origin \/ Pushed = enqueue - Origin + WordValues
          /\ Offset(w) = w - Origin \/ Offset(w) = w - Origin + WordValues
      BY <1>1, WrapOnce DEF Offset, Word, Pushed
    <2>2. /\ (enqueue - w + WordValues) % WordValues = (enqueue - w) % WordValues
          /\ (enqueue - w - WordValues) % WordValues = (enqueue - w) % WordValues
      <3>1. enqueue - w \in Int
        BY <1>1 DEF Word
      <3> QED BY <1>1, <3>1, ShiftedOnce
    <2>3. \/ Pushed - Offset(w) = enqueue - w
          \/ Pushed - Offset(w) = enqueue - w + WordValues
          \/ Pushed - Offset(w) = enqueue - w - WordValues
      BY <1>1, <2>1 DEF Word
    <2> QED BY <2>2, <2>3 DEF Wrap
  <1>4. Pushed - Offset(w) \in 0 .. WordValues - 1
    BY <1>1, <1>2 DEF Word
  <1> QED BY <1>3, <1>4, WrapOnce
-----------------------------------------------------------------------------
(***************************************************************************)
(* The invariant holds at first, and every step keeps it.                  *)
(***************************************************************************)
LEMMA InitInvariant == RingAssumption /\ Init => IInv
  <1> SUFFICES ASSUME RingAssumption, Init PROVE IInv
    OBVIOUS
  <1>1. Capacity \in Nat /\ Capacity >= 2 /\ WordValues \in Nat /\ 4 * Capacity <= WordValues
        /\ Origin \in Word /\ (First = 0 \/ First = Capacity) /\ 0 \in Word
    BY Constants DEF Word
  <1>2. \A q \in Nat : q < WordValues => Wrap(Origin + q) \in Word /\ Offset(Wrap(Origin + q)) = q
    <2> TAKE q \in Nat
    <2>1. Origin + q \in Int
      BY <1>1 DEF Word
    <2>2. q < WordValues => q \in Word
      BY <1>1 DEF Word
    <2> QED BY <2>1, <2>2, WrapOnce, Offsets
  <1>3. enqueue \in Word /\ Pushed = First
    BY <1>1, <1>2 DEF Init, Pushed, First
  <1>4. dequeue \in Word /\ Popped = 0
    <2>1. Wrap(Origin) = Origin
      BY <1>1, WrapOnce DEF Word
    <2>2. Offset(Wrap(Origin + 0)) = 0
      BY <1>1, <1>2
    <2>3. Origin + 0 = Origin
      BY <1>1 DEF Word
    <2> QED BY <1>1, <2>1, <2>2, <2>3 DEF Init, Popped
  <1>5. ASSUME NEW i \in Slots
        PROVE  sequence[i] \in Word /\ Offset(sequence[i]) = (IF StartFull THEN i + 1 ELSE i)
    <2>1. PICK n \in Nat : n = (IF StartFull THEN i + 1 ELSE i) /\ n < WordValues
      BY <1>1, <1>5 DEF Slots
    <2>2. sequence[i] = Wrap(Origin + n)
      BY <1>1, <1>5, <2>1 DEF Init, Slots, Word
    <2> QED BY <1>2, <2>1, <2>2
  <1>6. TypeOK
    <2>1. sequence \in [Slots -> Word]
      BY <1>5 DEF Init
    <2>2. payload \in [Slots -> Payload] /\ 0 \in Payload
      BY <1>1 DEF Init, Slots, RingAssumption
    <2>3. left \in 0 .. Operations
      BY Constants DEF Init
    <2>4. position \in [Thread -> Word] /\ value \in [Thread -> Payload]
      BY <1>1, <2>2 DEF Init
    <2> QED BY <1>3, <1>4, <2>1, <2>2, <2>3, <2>4 DEF Init, TypeOK
  <1>7. Fillers = {} /\ Emptiers = {} /\ Pending = {}
    BY DEF Init, Fillers, Emptiers, Pending
  <1>8. OrderInv
    BY <1>1, <1>3, <1>4 DEF OrderInv
  <1>9. CellsInv
    <2> SUFFICES ASSUME NEW q \in Lap PROVE CellInv(q)
      BY DEF CellsInv
    <2>1. q \in Int /\ First - Capacity <= q /\ q < First
      BY <1>1, <1>3 DEF Lap
    <2>2. q % Capacity = (IF q < 0 THEN q + Capacity ELSE q) /\ q % Capacity \in Slots
      <3>1. CASE q < 0
        <4>1. (Capacity * (-1) + (q + Capacity)) % Capacity = q + Capacity
          BY <1>1, <2>1, <3>1, RemainderIsUnique
        <4>2. Capacity * (-1) + (q + Capacity) = q
          BY <1>1, <2>1
        <4> QED BY <1>1, <2>1, <3>1, <4>1, <4>2 DEF Slots
      <3>2. CASE q >= 0
        <4>1. (Capacity * 0 + q) % Capacity = q
          BY <1>1, <2>1, <3>2, RemainderIsUnique
        <4>2. Capacity * 0 + q = q
          BY <1>1, <2>1
        <4> QED BY <1>1, <2>1, <3>2, <4>1, <4>2 DEF Slots
      <3> QED BY <2>1, <3>1, <3>2
    <2>3. Stamp(q) = IF StartFull THEN (q % Capacity) + 1 ELSE q % Capacity
      BY <1>5, <2>2 DEF Stamp
    <2> QED BY <1>1, <1>4, <2>1, <2>2, <2>3 DEF CellInv, First
  <1>10. OwnersInv
    BY <1>7 DEF OwnersInv
  <1>11. CallersInv
    BY DEF Init, CallersInv
  <1>12. CountInv
    <2>1. Cardinality(Pending) = 0 /\ IsFiniteSet(Pending)
      BY <1>7, FS_EmptySet
    <2>2. left = Operations /\ Operations \in Nat
      BY Constants DEF Init
    <2> QED BY <1>1, <1>3, <1>4, <2>1, <2>2 DEF CountInv
  <1> QED BY <1>6, <1>8, <1>9, <1>10, <1>11, <1>12 DEF IInv

(* A step that leaves the ring and its owners alone keeps what is said of  *)
(* them.                                                                   *)
LEMMA RingKept ==
    ASSUME IInv, UNCHANGED <<sequence, enqueue, dequeue>>,
           Fillers' = Fillers, Emptiers' = Emptiers,
           \A t \in Fillers \cup Emptiers : position'[t] = position[t]
    PROVE  OrderInv' /\ CellsInv' /\ OwnersInv'
  <1>1. Pushed' = Pushed /\ Popped' = Popped /\ Lap' = Lap
    BY DEF Pushed, Popped, Lap
  <1>2. \A q : Stamp(q)' = Stamp(q)
    BY DEF Stamp
  <1>3. \A t \in Fillers \cup Emptiers : At(t)' = At(t)
    BY DEF At
  <1>4. OrderInv'
    BY <1>1 DEF IInv, OrderInv
  <1>5. CellsInv'
    BY <1>1, <1>2, <1>3 DEF IInv, CellsInv, CellInv
  <1>6. OwnersInv'
    BY <1>1, <1>2, <1>3 DEF IInv, OwnersInv
  <1> QED BY <1>4, <1>5, <1>6

LEMMA CountKept ==
    ASSUME RingAssumption, IInv, UNCHANGED <<enqueue, dequeue, left>>, Pending' \subseteq Pending
    PROVE  CountInv'
  <1>1. Pushed' = Pushed /\ Popped' = Popped /\ Pushed \in Nat /\ Popped \in Nat /\ First \in Nat
    BY Constants, Ranges DEF Pushed, Popped, IInv
  <1>2. /\ IsFiniteSet(Pending') /\ Cardinality(Pending') <= Cardinality(Pending)
        /\ Cardinality(Pending) \in Nat /\ Cardinality(Pending') \in Nat
    BY FS_Subset, FS_CardinalityType DEF IInv, CountInv
  <1>3. left' = left /\ left \in Nat /\ Operations \in Nat
    BY Constants DEF IInv, TypeOK
  <1> QED BY <1>1, <1>2, <1>3 DEF IInv, CountInv

LEMMA BeginStep ==
    ASSUME RingAssumption, IInv, NEW t \in Thread,
           PopBegin(t) \/ \E p \in Payload : PushBegin(t, p)
    PROVE  IInv'
  <1>1. /\ at[t] = "idle" /\ left # 0 /\ left' = left - 1
        /\ at' = [at EXCEPT ![t] = at'[t]] /\ at'[t] \in {"push_load", "pop_load"}
        /\ UNCHANGED <<sequence, payload, enqueue, dequeue, position>>
        /\ value' = value \/ \E p \in Payload : value' = [value EXCEPT ![t] = p]
    BY DEF PopBegin, PushBegin, IInv, TypeOK
  <1>2. TypeOK'
    <2>1. left' \in 0 .. Operations
      BY <1>1, Constants DEF IInv, TypeOK
    <2> QED BY <1>1, <2>1 DEF IInv, TypeOK, Slots
  <1>3. Fillers' = Fillers /\ Emptiers' = Emptiers
    BY <1>1 DEF Fillers, Emptiers, IInv, TypeOK
  <1>4. OrderInv' /\ CellsInv' /\ OwnersInv'
    BY <1>1, <1>3, RingKept
  <1>5. CallersInv'
    <2>1. Pushed' = Pushed /\ Popped' = Popped /\ \A u \in Thread : At(u)' = At(u)
          /\ \A q : Stamp(q)' = Stamp(q)
      BY <1>1 DEF Pushed, Popped, At, Stamp
    <2>2. \A u \in Thread : u # t => at'[u] = at[u]
      BY <1>1 DEF IInv, TypeOK
    <2> QED BY <1>1, <2>1, <2>2 DEF IInv, CallersInv
  <1>6. CountInv'
    <2>1. Pending' = Pending \cup {t} /\ t \notin Pending
      BY <1>1 DEF Pending, IInv, TypeOK
    <2>2. IsFiniteSet(Pending') /\ Cardinality(Pending') = Cardinality(Pending) + 1
          /\ Cardinality(Pending) \in Nat
      BY <2>1, FS_AddElement, FS_CardinalityType DEF IInv, CountInv
    <2>3. Pushed' = Pushed /\ Popped' = Popped /\ Pushed \in Nat /\ Popped \in Nat /\ First \in Nat
      BY <1>1, Constants, Ranges DEF Pushed, Popped, IInv
    <2>4. left \in Nat /\ Operations \in Nat
      BY Constants DEF IInv, TypeOK
    <2> QED BY <1>1, <2>2, <2>3, <2>4 DEF IInv, CountInv
  <1> QED BY <1>2, <1>4, <1>5, <1>6 DEF IInv

LEMMA LoadStep ==
    ASSUME RingAssumption, IInv, NEW t \in Thread, PushLoad(t) \/ PopLoad(t)
    PROVE  IInv'
  <1>1. /\ UNCHANGED <<sequence, payload, enqueue, dequeue, value, left>>
        /\ at[t] \in {"push_load", "pop_load"}
        /\ at' = [at EXCEPT ![t] = at'[t]]
        /\ position' = [position EXCEPT ![t] = position'[t]]
        /\ \/ at'[t] = "push_test" /\ position'[t] = enqueue
           \/ at'[t] = "pop_test" /\ position'[t] = dequeue
    BY DEF PushLoad, PopLoad, IInv, TypeOK
  <1>2. TypeOK'
    BY <1>1 DEF IInv, TypeOK, Slots
  <1>3. Fillers' = Fillers /\ Emptiers' = Emptiers /\ Pending' = Pending
        /\ \A u \in Thread : u # t => at'[u] = at[u] /\ position'[u] = position[u]
    BY <1>1 DEF Fillers, Emptiers, Pending, IInv, TypeOK
  <1>4. OrderInv' /\ CellsInv' /\ OwnersInv'
    <2>1. t \notin Fillers \cup Emptiers
      BY <1>1 DEF Fillers, Emptiers
    <2>2. \A u \in Fillers \cup Emptiers : position'[u] = position[u]
      BY <1>3, <2>1 DEF Fillers, Emptiers
    <2> QED BY <1>1, <1>3, <2>2, RingKept
  <1>5. CallersInv'
    <2>1. Pushed' = Pushed /\ Popped' = Popped /\ \A q : Stamp(q)' = Stamp(q)
      BY <1>1 DEF Pushed, Popped, Stamp
    <2>2. \A u \in Thread : u # t => At(u)' = At(u)
      BY <1>3 DEF At
    <2>3. at'[t] = "push_test" => At(t)' = Pushed
      BY <1>1 DEF At, Pushed
    <2>4. at'[t] = "pop_test" => At(t)' = Popped
      BY <1>1 DEF At, Popped
    <2>5. First <= Pushed /\ Pushed \in Nat /\ Popped \in Nat
      BY Ranges DEF IInv, OrderInv
    <2> QED BY <1>1, <1>3, <2>1, <2>2, <2>3, <2>4, <2>5 DEF IInv, CallersInv
  <1>6. CountInv'
    BY <1>1, <1>3, CountKept
  <1> QED BY <1>2, <1>4, <1>5, <1>6 DEF IInv

(* The signed differences the tests take, across the wrap.                 *)
LEMMA PushJudged ==
    ASSUME RingAssumption, IInv, NEW t \in Thread, at[t] = "push_test"
    PROVE  /\ Stamp(At(t)) \in Int /\ At(t) \in Nat /\ First <= At(t) /\ At(t) <= Pushed
           /\ Difference(sequence[SlotOf(position[t])], position[t]) = Stamp(At(t)) - At(t)
  <1> DEFINE v == sequence[SlotOf(position[t])]
             w == position[t]
  <1>1. v \in Word /\ w \in Word /\ Offset(v) = Stamp(At(t)) /\ Offset(w) = At(t)
    BY Ranges DEF IInv, TypeOK, Stamp, At
  <1>2. Stamp(At(t)) \in Int /\ At(t) \in Nat /\ First <= At(t) /\ At(t) <= Pushed
    BY Ranges DEF IInv, CallersInv
  <1>3. /\ Stamp(At(t)) >= Pushed - Capacity
        /\ Stamp(At(t)) <= Pushed \/ Stamp(At(t)) + 1 <= Popped + Capacity
    BY <1>2, StampBounds
  <1>4. (Pushed - First) + Popped + 1 <= Operations
    <2>1. t \in Pending
      BY DEF Pending
    <2> QED BY <2>1, Reach
  <1>5. Pushed \in Nat /\ Popped \in Nat /\ Popped <= Pushed /\ Pushed <= Popped + Capacity
    BY Ranges DEF IInv, OrderInv
  <1>6. 2 * (Stamp(At(t)) - At(t)) <= WordValues - 2 /\ 2 * (At(t) - Stamp(At(t))) <= WordValues
    BY <1>2, <1>3, <1>4, <1>5, Constants
  <1> HIDE DEF v, w
  <1>7. Difference(v, w) = Offset(v) - Offset(w)
    BY <1>1, <1>6, NearWords
  <1> QED BY <1>1, <1>2, <1>7 DEF v, w

LEMMA PopJudged ==
    ASSUME RingAssumption, IInv, NEW t \in Thread, at[t] = "pop_test"
    PROVE  /\ Stamp(At(t)) \in Int /\ At(t) \in Nat /\ At(t) <= Popped
           /\ Difference(sequence[SlotOf(position[t])], Wrap(position[t] + 1))
                 = Stamp(At(t)) - (At(t) + 1)
  <1> DEFINE v == sequence[SlotOf(position[t])]
             w == Wrap(position[t] + 1)
  <1>1. v \in Word /\ position[t] \in Word /\ Offset(v) = Stamp(At(t)) /\ Offset(position[t]) = At(t)
    BY Ranges DEF IInv, TypeOK, Stamp, At
  <1>2. Stamp(At(t)) \in Int /\ At(t) \in Nat /\ At(t) <= Popped
    BY Ranges DEF IInv, CallersInv
  <1>3. /\ Stamp(At(t)) >= Pushed - Capacity
        /\ Stamp(At(t)) <= Pushed \/ Stamp(At(t)) + 1 <= Popped + Capacity
    BY <1>2, StampBounds
  <1>4. (Pushed - First) + Popped + 1 <= Operations
    <2>1. t \in Pending
      BY DEF Pending
    <2> QED BY <2>1, Reach
  <1>5. Pushed \in Nat /\ Popped \in Nat /\ Popped <= Pushed /\ Pushed <= Popped + Capacity
    BY Ranges DEF IInv, OrderInv
  <1>6. At(t) + 1 < WordValues
    BY <1>2, <1>4, <1>5, Constants
  <1>7. w \in Word /\ Offset(w) = At(t) + 1
    BY <1>1, <1>6, OffsetForward
  <1>8. /\ 2 * (Stamp(At(t)) - (At(t) + 1)) <= WordValues - 2
        /\ 2 * ((At(t) + 1) - Stamp(At(t))) <= WordValues
    BY <1>2, <1>3, <1>4, <1>5, Constants
  <1> HIDE DEF v, w
  <1>9. Difference(v, w) = Offset(v) - Offset(w)
    BY <1>1, <1>7, <1>8, NearWords
  <1> QED BY <1>1, <1>2, <1>7, <1>9 DEF v, w

(* What a step of one call does to the others.                             *)
LEMMA CallersKept ==
    ASSUME IInv, UNCHANGED <<sequence, enqueue, dequeue>>, NEW t \in Thread,
           \A u \in Thread : u # t => at'[u] = at[u] /\ position'[u] = position[u],
           /\ at'[t] \in {"push_test", "push_claim"} => First <= At(t)' /\ At(t)' <= Pushed
           /\ at'[t] = "push_claim" => Stamp(At(t)') >= At(t)'
           /\ at'[t] \in {"pop_test", "pop_claim"} => At(t)' <= Popped
           /\ at'[t] = "pop_claim" => Stamp(At(t)') >= At(t)' + 1
    PROVE  CallersInv'
  <1>1. Pushed' = Pushed /\ Popped' = Popped /\ \A q : Stamp(q)' = Stamp(q)
    BY DEF Pushed, Popped, Stamp
  <1>2. \A u \in Thread : u # t => At(u)' = At(u)
    BY DEF At
  <1>3. \A q : sequence'[q % Capacity] = sequence[q % Capacity]
    OBVIOUS
  <1>4. Offset(sequence'[At(t)' % Capacity]) = Stamp(At(t)')
    BY DEF Stamp
  <1> QED BY <1>1, <1>2, <1>4 DEF IInv, CallersInv, Stamp

LEMMA PushTestStep ==
    ASSUME RingAssumption, IInv, NEW t \in Thread, PushTest(t)
    PROVE  IInv'
  <1>1. at[t] = "push_test" /\ UNCHANGED <<sequence, payload, enqueue, dequeue, left>>
    BY DEF PushTest
  <1>2. /\ Stamp(At(t)) \in Int /\ At(t) \in Nat /\ First <= At(t) /\ At(t) <= Pushed
        /\ Difference(sequence[SlotOf(position[t])], position[t]) = Stamp(At(t)) - At(t)
    BY <1>1, PushJudged
  <1>3. \/ Proceed(t, "push_claim") /\ Stamp(At(t)) - At(t) = 0
        \/ Return(t)
        \/ Proceed(t, "push_load")
    BY <1>2 DEF PushTest
  <1>4. 0 \in Word /\ 0 \in Payload
    <2>1. 0 \in 0 .. Capacity - 1 /\ 0 \in Word
      BY Constants DEF Word
    <2> QED BY <2>1 DEF RingAssumption
  <1>5. /\ at' = [at EXCEPT ![t] = at'[t]] /\ at'[t] \in {"push_claim", "idle", "push_load"}
        /\ \A u \in Thread : u # t => at'[u] = at[u] /\ position'[u] = position[u]
        /\ at'[t] = "push_claim" => position'[t] = position[t]
    BY <1>3 DEF Proceed, Return, IInv, TypeOK
  <1>6. TypeOK'
    BY <1>1, <1>3, <1>4 DEF IInv, TypeOK, Slots, Proceed, Return
  <1>7. Fillers' = Fillers /\ Emptiers' = Emptiers /\ Pending' \subseteq Pending
        /\ \A u \in Fillers \cup Emptiers : position'[u] = position[u]
    BY <1>1, <1>5 DEF Fillers, Emptiers, Pending, IInv, TypeOK
  <1>8. OrderInv' /\ CellsInv' /\ OwnersInv'
    BY <1>1, <1>7, RingKept
  <1>9. CallersInv'
    <2>1. at'[t] = "push_claim" => At(t)' = At(t) /\ Stamp(At(t)) >= At(t)
      <3>1. at'[t] = "push_claim" => Stamp(At(t)) - At(t) = 0
        BY <1>3 DEF Proceed, Return, IInv, TypeOK
      <3> QED BY <1>2, <1>5, <3>1 DEF At
    <2> QED BY <1>1, <1>2, <1>5, <2>1, CallersKept
  <1>10. CountInv'
    BY <1>1, <1>7, CountKept
  <1> QED BY <1>6, <1>8, <1>9, <1>10 DEF IInv

LEMMA PopTestStep ==
    ASSUME RingAssumption, IInv, NEW t \in Thread, PopTest(t)
    PROVE  IInv'
  <1>1. at[t] = "pop_test" /\ UNCHANGED <<sequence, payload, enqueue, dequeue, left>>
    BY DEF PopTest
  <1>2. /\ Stamp(At(t)) \in Int /\ At(t) \in Nat /\ At(t) <= Popped
        /\ Difference(sequence[SlotOf(position[t])], Wrap(position[t] + 1)) = Stamp(At(t)) - (At(t) + 1)
    BY <1>1, PopJudged
  <1>3. \/ Proceed(t, "pop_claim") /\ Stamp(At(t)) - (At(t) + 1) = 0
        \/ Return(t)
        \/ Proceed(t, "pop_load")
    BY <1>2 DEF PopTest
  <1>4. 0 \in Word /\ 0 \in Payload
    <2>1. 0 \in 0 .. Capacity - 1 /\ 0 \in Word
      BY Constants DEF Word
    <2> QED BY <2>1 DEF RingAssumption
  <1>5. /\ at' = [at EXCEPT ![t] = at'[t]] /\ at'[t] \in {"pop_claim", "idle", "pop_load"}
        /\ \A u \in Thread : u # t => at'[u] = at[u] /\ position'[u] = position[u]
        /\ at'[t] = "pop_claim" => position'[t] = position[t]
    BY <1>3 DEF Proceed, Return, IInv, TypeOK
  <1>6. TypeOK'
    BY <1>1, <1>3, <1>4 DEF IInv, TypeOK, Slots, Proceed, Return
  <1>7. Fillers' = Fillers /\ Emptiers' = Emptiers /\ Pending' \subseteq Pending
        /\ \A u \in Fillers \cup Emptiers : position'[u] = position[u]
    BY <1>1, <1>5 DEF Fillers, Emptiers, Pending, IInv, TypeOK
  <1>8. OrderInv' /\ CellsInv' /\ OwnersInv'
    BY <1>1, <1>7, RingKept
  <1>9. CallersInv'
    <2>1. at'[t] = "pop_claim" => At(t)' = At(t) /\ Stamp(At(t)) >= At(t) + 1
      <3>1. at'[t] = "pop_claim" => Stamp(At(t)) - (At(t) + 1) = 0
        BY <1>3 DEF Proceed, Return, IInv, TypeOK
      <3> QED BY <1>2, <1>5, <3>1 DEF At
    <2> QED BY <1>1, <1>2, <1>5, <2>1, CallersKept
  <1>10. CountInv'
    BY <1>1, <1>7, CountKept
  <1> QED BY <1>6, <1>8, <1>9, <1>10 DEF IInv

(* A claim that lost.                                                      *)
LEMMA RetryStep ==
    ASSUME RingAssumption, IInv, NEW t \in Thread,
           UNCHANGED <<sequence, payload, enqueue, dequeue, value, left>>,
           \/ /\ at[t] = "push_claim"
              /\ position' = [position EXCEPT ![t] = enqueue] /\ at' = [at EXCEPT ![t] = "push_test"]
           \/ /\ at[t] = "pop_claim"
              /\ position' = [position EXCEPT ![t] = dequeue] /\ at' = [at EXCEPT ![t] = "pop_test"]
    PROVE  IInv'
  <1>1. TypeOK'
    BY DEF IInv, TypeOK, Slots
  <1>2. /\ Fillers' = Fillers /\ Emptiers' = Emptiers /\ Pending' = Pending
        /\ \A u \in Thread : u # t => at'[u] = at[u] /\ position'[u] = position[u]
        /\ t \notin Fillers \cup Emptiers
    BY DEF Fillers, Emptiers, Pending, IInv, TypeOK
  <1>3. OrderInv' /\ CellsInv' /\ OwnersInv'
    <2>1. \A u \in Fillers \cup Emptiers : position'[u] = position[u]
      BY <1>2 DEF Fillers, Emptiers
    <2> QED BY <1>2, <2>1, RingKept
  <1>4. CallersInv'
    <2>1. \/ at'[t] = "push_test" /\ At(t)' = Pushed
          \/ at'[t] = "pop_test" /\ At(t)' = Popped
      BY DEF At, Pushed, Popped, IInv, TypeOK
    <2>2. First <= Pushed /\ Pushed \in Nat /\ Popped \in Nat
      BY Ranges DEF IInv, OrderInv
    <2> QED BY <1>2, <2>1, <2>2, CallersKept
  <1>5. CountInv'
    BY <1>2, CountKept
  <1> QED BY <1>1, <1>3, <1>4, <1>5 DEF IInv

(* A claim that won leaves one call fewer that may still claim.            *)
LEMMA CountClaimed ==
    ASSUME RingAssumption, IInv, NEW t, t \in Pending, Pending' = Pending \ {t}, left' = left,
           \/ Pushed' = Pushed + 1 /\ Popped' = Popped
           \/ Pushed' = Pushed /\ Popped' = Popped + 1
    PROVE  CountInv'
  <1>1. IsFiniteSet(Pending') /\ Cardinality(Pending') = Cardinality(Pending) - 1
        /\ Cardinality(Pending) \in Nat
    BY FS_RemoveElement, FS_CardinalityType DEF IInv, CountInv
  <1>2. left \in Nat /\ Operations \in Nat /\ Pushed \in Nat /\ Popped \in Nat /\ First \in Nat
    BY Constants, Ranges DEF IInv, TypeOK
  <1>3. (Pushed - First) + Popped + Cardinality(Pending) <= Operations - left
    BY DEF IInv, CountInv
  <1>4. (Pushed' - First) + Popped' + Cardinality(Pending') <= Operations - left
    BY <1>1, <1>2, <1>3
  <1> QED BY <1>1, <1>4 DEF CountInv

PushWins(t) == PushClaim(t) /\ enqueue = position[t] /\ at'[t] = "push_fill"
PopWins(t) == PopClaim(t) /\ dequeue = position[t] /\ at'[t] = "pop_empty"

(* What a push that wins its claim finds and leaves.                       *)
LEMMA PushWinsFacts ==
    ASSUME RingAssumption, IInv, NEW t \in Thread, PushWins(t)
    PROVE  /\ at[t] = "push_claim" /\ at' = [at EXCEPT ![t] = "push_fill"]
           /\ UNCHANGED <<sequence, payload, dequeue, position, value, left>>
           /\ enqueue' = Wrap(enqueue + 1) /\ enqueue' \in Word
           /\ position[t] = enqueue /\ At(t) = Pushed /\ Stamp(Pushed) = Pushed
           /\ Stamp(Pushed - Capacity) = Pushed /\ Pushed - Capacity < Popped
           /\ Pushed' = Pushed + 1 /\ Popped' = Popped
  <1>1. /\ at[t] = "push_claim" /\ at' = [at EXCEPT ![t] = "push_fill"]
        /\ UNCHANGED <<sequence, payload, dequeue, position, value, left>>
        /\ enqueue' = Wrap(enqueue + 1) /\ position[t] = enqueue
    BY DEF PushWins, PushClaim, IInv, TypeOK
  <1>2. At(t) = Pushed /\ Stamp(Pushed) >= Pushed
    BY <1>1 DEF At, Pushed, IInv, CallersInv
  <1>3. Pushed \in Nat /\ Popped \in Nat /\ Capacity \in Nat /\ Capacity >= 2
    BY Constants, Ranges DEF IInv
  <1>4. PICK q \in Lap : q \in Int /\ Stamp(q) = Stamp(Pushed) /\ CellInv(q) /\ q = Pushed - Capacity
    BY <1>3, Holder
  <1>5. Stamp(q) = q + Capacity /\ q < Popped
    BY <1>2, <1>3, <1>4 DEF CellInv
  <1>6. (Pushed - First) + Popped + 1 <= Operations
    BY <1>1, Reach DEF Pending
  <1>7. Pushed + 1 < WordValues
    BY <1>3, <1>6, Constants
  <1>8. enqueue' \in Word /\ Pushed' = Pushed + 1
    BY <1>1, <1>7, OffsetForward DEF Pushed, IInv, TypeOK
  <1>9. Popped' = Popped
    BY <1>1 DEF Popped
  <1> QED BY <1>1, <1>2, <1>3, <1>4, <1>5, <1>8, <1>9

LEMMA PushWinsStep ==
    ASSUME RingAssumption, IInv, NEW t \in Thread, PushWins(t)
    PROVE  IInv'
  <1>1. /\ at[t] = "push_claim" /\ at' = [at EXCEPT ![t] = "push_fill"]
        /\ UNCHANGED <<sequence, payload, dequeue, position, value, left>>
        /\ enqueue' \in Word /\ At(t) = Pushed /\ Stamp(Pushed) = Pushed
        /\ Stamp(Pushed - Capacity) = Pushed /\ Pushed - Capacity < Popped
        /\ Pushed' = Pushed + 1 /\ Popped' = Popped
    BY PushWinsFacts
  <1>2. Pushed \in Nat /\ Popped \in Nat /\ Capacity \in Nat /\ Capacity >= 2
        /\ \A u \in Thread : At(u) \in Nat
    BY Constants, Ranges DEF IInv
  <1>3. Fillers' = Fillers \cup {t} /\ Emptiers' = Emptiers /\ Pending' = Pending \ {t} /\ t \in Pending
        /\ \A u \in Thread : u # t => at'[u] = at[u]
    BY <1>1 DEF Fillers, Emptiers, Pending, IInv, TypeOK
  <1>4. (\A q : Stamp(q)' = Stamp(q)) /\ \A u : At(u)' = At(u)
    BY <1>1 DEF Stamp, At
  <1>5. TypeOK'
    BY <1>1 DEF IInv, TypeOK, Slots
  <1>6. OrderInv'
    BY <1>1, <1>2, Constants DEF IInv, OrderInv
  <1>7. \A q : q \in Lap' <=> (q = Pushed \/ (q \in Lap /\ q # Pushed - Capacity))
    BY <1>1, <1>2 DEF Lap
  <1>8. CellsInv'
    <2> SUFFICES ASSUME NEW q \in Lap' PROVE CellInv(q)'
      BY DEF CellsInv
    <2>1. CASE q = Pushed
      <3>1. Stamp(q) = q /\ q >= Popped /\ t \in Fillers' /\ At(t)' = q
        BY <1>1, <1>2, <1>3, <1>4, <2>1 DEF IInv, OrderInv
      <3> QED BY <1>1, <1>4, <3>1 DEF CellInv
    <2>2. CASE q \in Lap
      <3>1. CellInv(q)
        BY <2>2 DEF IInv, CellsInv
      <3> QED BY <1>1, <1>3, <1>4, <3>1 DEF CellInv
    <2> QED BY <1>7, <2>1, <2>2
  <1>9. OwnersInv'
    <2>1. \A u \in Fillers : At(u) \in Lap' /\ At(u) # Pushed /\ Stamp(At(u)) = At(u)
      <3>1. \A u \in Fillers : At(u) \in Lap /\ Stamp(At(u)) = At(u) /\ At(u) \in Nat
        BY <1>2 DEF IInv, OwnersInv, Fillers
      <3>2. \A u \in Fillers : At(u) # Pushed - Capacity /\ At(u) # Pushed
        BY <1>1, <1>2, <3>1 DEF Lap
      <3> QED BY <1>7, <3>1, <3>2
    <2>2. \A u \in Emptiers :
              At(u) \in Lap' /\ At(u) # Pushed /\ At(u) < Popped /\ Stamp(At(u)) = At(u) + 1
      <3>1. \A u \in Emptiers :
                At(u) \in Lap /\ At(u) < Popped /\ Stamp(At(u)) = At(u) + 1 /\ At(u) \in Nat
        BY <1>2 DEF IInv, OwnersInv, Emptiers
      <3>2. \A u \in Emptiers : At(u) # Pushed - Capacity /\ At(u) # Pushed
        BY <1>1, <1>2, <3>1 DEF Lap
      <3> QED BY <1>7, <3>1, <3>2
    <2>3. At(t) \in Lap'
      <3>1. Pushed \in Lap'
        BY <1>7
      <3> QED BY <1>1, <3>1
    <2>4. \A u, v \in Fillers' \cup Emptiers' : At(u) = At(v) => u = v
      BY <1>1, <1>3, <2>1, <2>2 DEF IInv, OwnersInv
    <2> QED BY <1>1, <1>3, <1>4, <2>1, <2>2, <2>3, <2>4 DEF OwnersInv
  <1>10. CallersInv'
    BY <1>1, <1>2, <1>3, <1>4, Constants DEF IInv, CallersInv
  <1>11. CountInv'
    BY <1>1, <1>2, <1>3, CountClaimed
  <1> QED BY <1>5, <1>6, <1>8, <1>9, <1>10, <1>11 DEF IInv

LEMMA PopWinsFacts ==
    ASSUME RingAssumption, IInv, NEW t \in Thread, PopWins(t)
    PROVE  /\ at[t] = "pop_claim" /\ at' = [at EXCEPT ![t] = "pop_empty"]
           /\ UNCHANGED <<sequence, payload, enqueue, position, value, left>>
           /\ dequeue' = Wrap(dequeue + 1) /\ dequeue' \in Word
           /\ position[t] = dequeue /\ At(t) = Popped
           /\ Popped \in Lap /\ Stamp(Popped) = Popped + 1
           /\ Pushed' = Pushed /\ Popped' = Popped + 1
  <1>1. /\ at[t] = "pop_claim" /\ at' = [at EXCEPT ![t] = "pop_empty"]
        /\ UNCHANGED <<sequence, payload, enqueue, position, value, left>>
        /\ dequeue' = Wrap(dequeue + 1) /\ position[t] = dequeue
    BY DEF PopWins, PopClaim, IInv, TypeOK
  <1>2. At(t) = Popped /\ Stamp(Popped) >= Popped + 1
    BY <1>1 DEF At, Popped, IInv, CallersInv
  <1>3. Pushed \in Nat /\ Popped \in Nat /\ Capacity \in Nat /\ Capacity >= 2
        /\ Popped <= Pushed /\ Pushed <= Popped + Capacity
    BY Constants, Ranges DEF IInv, OrderInv
  <1>4. PICK q \in Lap : /\ q \in Int /\ Stamp(q) = Stamp(Popped) /\ CellInv(q)
                         /\ Popped < Pushed => q = Popped \/ q >= Popped + Capacity
                         /\ Popped = Pushed => q = Popped - Capacity
    BY <1>3, Holder
  <1>5. Popped < Pushed
    BY <1>2, <1>3, <1>4 DEF CellInv
  <1>6. q = Popped /\ Stamp(q) = q + 1
    BY <1>2, <1>3, <1>4, <1>5 DEF CellInv, Lap
  <1>7. (Pushed - First) + Popped + 1 <= Operations
    BY <1>1, Reach DEF Pending
  <1>8. Popped + 1 < WordValues
    BY <1>3, <1>7, Constants
  <1>9. dequeue' \in Word /\ Popped' = Popped + 1
    BY <1>1, <1>8, OffsetForward DEF Popped, IInv, TypeOK
  <1>10. Pushed' = Pushed
    BY <1>1 DEF Pushed
  <1> QED BY <1>1, <1>2, <1>4, <1>6, <1>9, <1>10

LEMMA PopWinsStep ==
    ASSUME RingAssumption, IInv, NEW t \in Thread, PopWins(t)
    PROVE  IInv'
  <1>1. /\ at[t] = "pop_claim" /\ at' = [at EXCEPT ![t] = "pop_empty"]
        /\ UNCHANGED <<sequence, payload, enqueue, position, value, left>>
        /\ dequeue' \in Word /\ At(t) = Popped /\ Popped \in Lap /\ Stamp(Popped) = Popped + 1
        /\ Pushed' = Pushed /\ Popped' = Popped + 1
    BY PopWinsFacts
  <1>2. Pushed \in Nat /\ Popped \in Nat /\ Capacity \in Nat /\ Capacity >= 2
        /\ \A u \in Thread : At(u) \in Nat
    BY Constants, Ranges DEF IInv
  <1>3. Emptiers' = Emptiers \cup {t} /\ Fillers' = Fillers /\ Pending' = Pending \ {t} /\ t \in Pending
        /\ \A u \in Thread : u # t => at'[u] = at[u]
    BY <1>1 DEF Fillers, Emptiers, Pending, IInv, TypeOK
  <1>4. (\A q : Stamp(q)' = Stamp(q)) /\ (\A u : At(u)' = At(u)) /\ Lap' = Lap
    BY <1>1 DEF Stamp, At, Lap
  <1>5. TypeOK'
    BY <1>1 DEF IInv, TypeOK, Slots
  <1>6. OrderInv'
    BY <1>1, <1>2 DEF IInv, OrderInv, Lap
  <1>7. CellsInv'
    <2> SUFFICES ASSUME NEW q \in Lap PROVE CellInv(q)'
      BY <1>4 DEF CellsInv
    <2>1. CellInv(q) /\ q \in Int
      BY <1>2 DEF IInv, CellsInv, Lap
    <2>2. CASE q = Popped
      <3>1. Stamp(q)' = q + 1 /\ t \in Emptiers' /\ At(t)' = q
        BY <1>1, <1>3, <1>4, <2>2
      <3> QED BY <3>1 DEF CellInv
    <2>3. CASE q # Popped
      <3>1. q >= Popped => q >= Popped'
        BY <1>1, <1>2, <2>1, <2>3
      <3>2. q < Popped => q < Popped'
        BY <1>1, <1>2, <2>1, <2>3
      <3> QED BY <1>3, <1>4, <2>1, <3>1, <3>2 DEF CellInv
    <2> QED BY <2>2, <2>3
  <1>8. OwnersInv'
    <2>1. \A u \in Fillers : At(u) \in Lap /\ At(u) # Popped /\ Stamp(At(u)) = At(u)
      <3>1. \A u \in Fillers : At(u) \in Lap /\ Stamp(At(u)) = At(u)
        BY DEF IInv, OwnersInv
      <3>2. \A u \in Fillers : At(u) # Popped
        BY <1>1, <1>2, <3>1
      <3> QED BY <3>1, <3>2
    <2>2. \A u \in Emptiers :
              At(u) \in Lap /\ At(u) < Popped' /\ At(u) # Popped /\ Stamp(At(u)) = At(u) + 1
      <3>1. \A u \in Emptiers :
                At(u) \in Lap /\ At(u) < Popped /\ Stamp(At(u)) = At(u) + 1 /\ At(u) \in Nat
        BY <1>2 DEF IInv, OwnersInv, Emptiers
      <3> QED BY <1>1, <1>2, <3>1
    <2>3. At(t) \in Lap /\ At(t) < Popped' /\ Stamp(At(t)) = At(t) + 1
      BY <1>1, <1>2
    <2>4. \A u, v \in Fillers' \cup Emptiers' : At(u) = At(v) => u = v
      BY <1>1, <1>3, <2>1, <2>2 DEF IInv, OwnersInv
    <2> QED BY <1>3, <1>4, <2>1, <2>2, <2>3, <2>4 DEF OwnersInv
  <1>9. CallersInv'
    BY <1>1, <1>2, <1>3, <1>4, Constants DEF IInv, CallersInv
  <1>10. CountInv'
    BY <1>1, <1>2, <1>3, CountClaimed
  <1> QED BY <1>5, <1>6, <1>7, <1>8, <1>9, <1>10 DEF IInv

(* Completing a call moves the sequence of its own slot forward.           *)
LEMMA StampMoves ==
    ASSUME RingAssumption, IInv, NEW t \in Thread, NEW p \in Lap, p = At(t), NEW k \in Nat,
           p + k < WordValues, p + k >= Stamp(p),
           sequence' = [sequence EXCEPT ![SlotOf(position[t])] = Wrap(position[t] + k)]
    PROVE  /\ sequence' \in [Slots -> Word]
           /\ Stamp(p)' = p + k
           /\ \A q \in Lap : q # p => Stamp(q)' = Stamp(q)
           /\ \A n \in Int : Offset(sequence'[n % Capacity]) >= Stamp(n)
  <1>1. /\ position[t] \in Word /\ sequence \in [Slots -> Word]
        /\ SlotOf(position[t]) = p % Capacity /\ SlotOf(position[t]) \in Slots /\ p \in Int
        /\ \A q \in Int : q % Capacity \in Slots /\ Stamp(q) \in Nat
    BY Ranges DEF IInv, TypeOK
  <1>2. Wrap(position[t] + k) \in Word /\ Offset(Wrap(position[t] + k)) = p + k
    BY <1>1, OffsetForward DEF At
  <1>3. sequence' \in [Slots -> Word]
    BY <1>1, <1>2
  <1>4. Offset(sequence'[p % Capacity]) = p + k
    BY <1>1, <1>2
  <1>5. ASSUME NEW q \in Lap, q # p PROVE Offset(sequence'[q % Capacity]) = Stamp(q)
    <2>1. q \in Int
      BY Ranges, Constants DEF Lap, IInv
    <2>2. q % Capacity # p % Capacity
      BY <1>5, LapSlots DEF IInv
    <2>3. sequence'[q % Capacity] = sequence[q % Capacity]
      BY <1>1, <2>1, <2>2
    <2> QED BY <2>3 DEF Stamp
  <1>6. ASSUME NEW n \in Int PROVE Offset(sequence'[n % Capacity]) >= Stamp(n)
    <2>1. CASE n % Capacity = p % Capacity
      <3>1. Stamp(n) = Stamp(p) /\ Offset(sequence'[n % Capacity]) = p + k
        BY <1>4, <2>1 DEF Stamp
      <3> QED BY <3>1
    <2>2. CASE n % Capacity # p % Capacity
      <3>1. sequence'[n % Capacity] = sequence[n % Capacity]
        BY <1>1, <2>2
      <3>2. Offset(sequence'[n % Capacity]) = Stamp(n) /\ Stamp(n) \in Nat
        BY <1>1, <3>1 DEF Stamp
      <3> QED BY <3>2
    <2> QED BY <2>1, <2>2
  <1>7. Stamp(p)' = p + k
    BY <1>4 DEF Stamp
  <1> QED BY <1>3, <1>5, <1>6, <1>7 DEF Stamp

(* What a push that completes finds and leaves.                            *)
LEMMA PushFillFacts ==
    ASSUME RingAssumption, IInv, NEW t \in Thread, PushFill(t)
    PROVE  \E p \in Lap :
              /\ p = At(t) /\ p \in Nat /\ p >= Popped /\ Stamp(p) = p
              /\ at[t] = "push_fill" /\ at' = [at EXCEPT ![t] = "idle"]
              /\ position' = [position EXCEPT ![t] = 0] /\ value' = [value EXCEPT ![t] = 0]
              /\ payload' = [payload EXCEPT ![p % Capacity] = value[t]]
              /\ UNCHANGED <<enqueue, dequeue, left>>
              /\ sequence' \in [Slots -> Word]
              /\ Stamp(p)' = p + 1
              /\ \A q \in Lap : q # p => Stamp(q)' = Stamp(q)
              /\ \A n \in Int : Offset(sequence'[n % Capacity]) >= Stamp(n)
  <1>1. /\ at[t] = "push_fill" /\ at' = [at EXCEPT ![t] = "idle"]
        /\ position' = [position EXCEPT ![t] = 0] /\ value' = [value EXCEPT ![t] = 0]
        /\ payload' = [payload EXCEPT ![SlotOf(position[t])] = value[t]]
        /\ sequence' = [sequence EXCEPT ![SlotOf(position[t])] = Wrap(position[t] + 1)]
        /\ UNCHANGED <<enqueue, dequeue, left>>
    BY DEF PushFill, Return
  <1>2. PICK p \in Lap : p = At(t) /\ Stamp(p) = p
    BY <1>1 DEF IInv, OwnersInv, Fillers
  <1>3. p \in Nat /\ SlotOf(position[t]) = p % Capacity /\ Pushed \in Nat /\ Popped \in Nat
        /\ Pushed < WordValues /\ Capacity \in Nat /\ Capacity >= 2 /\ WordValues \in Nat
    BY <1>2, Ranges, Constants DEF IInv
  <1>4. p >= Popped
    BY <1>2, <1>3 DEF IInv, CellsInv, CellInv
  <1>5. p + 1 < WordValues
    BY <1>3, Reach, Constants DEF Lap, IInv, OrderInv
  <1>6. p + 1 >= Stamp(p)
    BY <1>2, <1>3
  <1>7. /\ sequence' \in [Slots -> Word]
        /\ Stamp(p)' = p + 1
        /\ \A q \in Lap : q # p => Stamp(q)' = Stamp(q)
        /\ \A n \in Int : Offset(sequence'[n % Capacity]) >= Stamp(n)
    <2>1. PICK k \in Nat : k = 1
      OBVIOUS
    <2>2. p + k < WordValues /\ p + k >= Stamp(p)
          /\ sequence' = [sequence EXCEPT ![SlotOf(position[t])] = Wrap(position[t] + k)]
      BY <1>1, <1>5, <1>6, <2>1
    <2>3. /\ sequence' \in [Slots -> Word]
          /\ Stamp(p)' = p + k
          /\ \A q \in Lap : q # p => Stamp(q)' = Stamp(q)
          /\ \A n \in Int : Offset(sequence'[n % Capacity]) >= Stamp(n)
      BY <1>2, <2>2, StampMoves
    <2> QED BY <2>1, <2>3
  <1> QED BY <1>1, <1>2, <1>3, <1>4, <1>7

LEMMA PopEmptyFacts ==
    ASSUME RingAssumption, IInv, NEW t \in Thread, PopEmpty(t)
    PROVE  \E p \in Lap :
              /\ p = At(t) /\ p \in Nat /\ p < Popped /\ Stamp(p) = p + 1
              /\ at[t] = "pop_empty" /\ at' = [at EXCEPT ![t] = "idle"]
              /\ position' = [position EXCEPT ![t] = 0] /\ value' = [value EXCEPT ![t] = 0]
              /\ UNCHANGED <<payload, enqueue, dequeue, left>>
              /\ sequence' \in [Slots -> Word]
              /\ Stamp(p)' = p + Capacity
              /\ \A q \in Lap : q # p => Stamp(q)' = Stamp(q)
              /\ \A n \in Int : Offset(sequence'[n % Capacity]) >= Stamp(n)
  <1>1. /\ at[t] = "pop_empty" /\ at' = [at EXCEPT ![t] = "idle"]
        /\ position' = [position EXCEPT ![t] = 0] /\ value' = [value EXCEPT ![t] = 0]
        /\ sequence' = [sequence EXCEPT ![SlotOf(position[t])] = Wrap(position[t] + Capacity)]
        /\ UNCHANGED <<payload, enqueue, dequeue, left>>
    BY DEF PopEmpty, Return
  <1>2. PICK p \in Lap : p = At(t) /\ p < Popped /\ Stamp(p) = p + 1
    BY <1>1 DEF IInv, OwnersInv, Emptiers
  <1>3. p \in Nat /\ Pushed \in Nat /\ Popped \in Nat
        /\ Capacity \in Nat /\ Capacity >= 2 /\ WordValues \in Nat
    BY <1>2, Ranges, Constants DEF IInv
  <1>4. p + Capacity < WordValues
    <2>1. (Pushed - First) + Popped <= Operations /\ Popped <= Pushed
      BY Reach DEF IInv, OrderInv
    <2> QED BY <1>2, <1>3, <2>1, Constants
  <1>5. p + Capacity >= Stamp(p)
    BY <1>2, <1>3
  <1>6. /\ sequence' \in [Slots -> Word]
        /\ Stamp(p)' = p + Capacity
        /\ \A q \in Lap : q # p => Stamp(q)' = Stamp(q)
        /\ \A n \in Int : Offset(sequence'[n % Capacity]) >= Stamp(n)
    BY <1>1, <1>2, <1>3, <1>4, <1>5, StampMoves
  <1> QED BY <1>1, <1>2, <1>3, <1>6

(* Completing a call keeps what the callers go by.                         *)
LEMMA CallersMove ==
    ASSUME RingAssumption, IInv, UNCHANGED <<enqueue, dequeue>>, NEW t \in Thread,
           at' = [at EXCEPT ![t] = "idle"], position' = [position EXCEPT ![t] = 0],
           sequence' \in [Slots -> Word],
           \A n \in Int : Offset(sequence'[n % Capacity]) >= Stamp(n)
    PROVE  CallersInv'
  <1>1. Pushed' = Pushed /\ Popped' = Popped
    BY DEF Pushed, Popped
  <1>2. at'[t] = "idle" /\ \A u \in Thread : u # t => at'[u] = at[u] /\ position'[u] = position[u]
    BY DEF IInv, TypeOK
  <1>3. \A u \in Thread : u # t => At(u)' = At(u)
    BY <1>2 DEF At
  <1>4. ASSUME NEW u \in Thread, u # t PROVE Stamp(At(u))' >= Stamp(At(u))
    <2>1. At(u) \in Int
      BY Ranges DEF IInv
    <2>2. Stamp(At(u))' = Offset(sequence'[At(u) % Capacity])
      BY <1>3, <1>4 DEF Stamp
    <2> QED BY <2>1, <2>2
  <1>5. ASSUME NEW u \in Thread, u # t PROVE Stamp(At(u))' \in Int /\ Stamp(At(u)) \in Int /\ At(u) \in Int
    <2>1. At(u) \in Int /\ At(u) % Capacity \in Slots /\ Stamp(At(u)) \in Int
      BY Ranges DEF IInv
    <2>2. sequence'[At(u) % Capacity] \in Word
      BY <2>1
    <2>3. Offset(sequence'[At(u) % Capacity]) \in Int
      BY <2>2, Offsets DEF Word
    <2>4. Stamp(At(u))' = Offset(sequence'[At(u) % Capacity])
      BY <1>3, <1>5 DEF Stamp
    <2> QED BY <2>1, <2>3, <2>4
  <1> QED BY <1>1, <1>2, <1>3, <1>4, <1>5 DEF IInv, CallersInv

LEMMA PushFillStep ==
    ASSUME RingAssumption, IInv, NEW t \in Thread, PushFill(t)
    PROVE  IInv'
  <1>1. PICK p \in Lap :
              /\ p = At(t) /\ p \in Nat /\ p >= Popped /\ Stamp(p) = p
              /\ at[t] = "push_fill" /\ at' = [at EXCEPT ![t] = "idle"]
              /\ position' = [position EXCEPT ![t] = 0] /\ value' = [value EXCEPT ![t] = 0]
              /\ payload' = [payload EXCEPT ![p % Capacity] = value[t]]
              /\ UNCHANGED <<enqueue, dequeue, left>>
              /\ sequence' \in [Slots -> Word]
              /\ Stamp(p)' = p + 1
              /\ \A q \in Lap : q # p => Stamp(q)' = Stamp(q)
              /\ \A n \in Int : Offset(sequence'[n % Capacity]) >= Stamp(n)
    BY PushFillFacts
  <1>2. Pushed' = Pushed /\ Popped' = Popped /\ Lap' = Lap
    BY <1>1 DEF Pushed, Popped, Lap
  <1>3. /\ Fillers' = Fillers \ {t} /\ t \in Fillers /\ Emptiers' = Emptiers /\ Pending' = Pending
        /\ \A u \in Fillers' \cup Emptiers' : u # t /\ u \in Thread
    BY <1>1 DEF Fillers, Emptiers, Pending, IInv, TypeOK
  <1>4. \A u \in Thread : u # t => At(u)' = At(u)
    BY <1>1 DEF At, IInv, TypeOK
  <1>5. TypeOK'
    <2>1. p % Capacity \in Slots /\ 0 \in Word /\ 0 \in Payload
      <3>1. p % Capacity \in Slots
        BY <1>1, Ranges DEF IInv
      <3>2. 0 \in Word /\ 0 \in 0 .. Capacity - 1
        BY Constants DEF Word
      <3> QED BY <3>1, <3>2 DEF RingAssumption
    <2>2. Slots' = Slots
      BY DEF Slots
    <2> QED BY <1>1, <2>1, <2>2 DEF IInv, TypeOK
  <1>6. OrderInv'
    BY <1>2 DEF IInv, OrderInv
  <1>7. \A u \in Fillers' \cup Emptiers' : At(u)' = At(u) /\ At(u) # p
    BY <1>1, <1>3, <1>4 DEF IInv, OwnersInv
  <1>8. CellsInv'
    <2> SUFFICES ASSUME NEW q \in Lap PROVE CellInv(q)'
      BY <1>2 DEF CellsInv
    <2>1. CASE q = p
      BY <1>1, <1>2, <2>1 DEF CellInv
    <2>2. CASE q # p
      <3>1. CellInv(q)
        BY DEF IInv, CellsInv
      <3>2. Stamp(q)' = Stamp(q)
        BY <1>1, <2>2
      <3>3. \A u \in Fillers : At(u) = q => u \in Fillers' /\ At(u)' = q
        BY <1>1, <1>3, <1>7, <2>2
      <3>4. \A u \in Emptiers : At(u) = q => u \in Emptiers' /\ At(u)' = q
        BY <1>3, <1>7
      <3> QED BY <1>2, <3>1, <3>2, <3>3, <3>4 DEF CellInv
    <2> QED BY <2>1, <2>2
  <1>9. OwnersInv'
    <2>1. \A u \in Fillers' \cup Emptiers' : At(u) \in Lap => Stamp(At(u))' = Stamp(At(u))
      <3> TAKE u \in Fillers' \cup Emptiers'
      <3>1. PICK q : q = At(u)
        OBVIOUS
      <3>2. At(u)' = q /\ q # p
        BY <1>7, <3>1
      <3>3. q \in Lap => Stamp(q)' = Stamp(q)
        BY <1>1, <3>2
      <3> QED BY <3>1, <3>2, <3>3 DEF Stamp
    <2>2. \A u \in Fillers' : At(u)' \in Lap /\ Stamp(At(u))' = At(u)
      BY <1>3, <1>7, <2>1 DEF IInv, OwnersInv
    <2>3. \A u \in Emptiers' : At(u)' \in Lap /\ At(u)' < Popped /\ Stamp(At(u))' = At(u) + 1
      BY <1>3, <1>7, <2>1 DEF IInv, OwnersInv
    <2>4. \A u, v \in Fillers' \cup Emptiers' : At(u)' = At(v)' => u = v
      BY <1>3, <1>7 DEF IInv, OwnersInv
    <2> QED BY <1>2, <1>7, <2>2, <2>3, <2>4 DEF OwnersInv
  <1>10. CallersInv'
    BY <1>1, CallersMove
  <1>11. CountInv'
    BY <1>1, <1>3, CountKept
  <1> QED BY <1>5, <1>6, <1>8, <1>9, <1>10, <1>11 DEF IInv

LEMMA PopEmptyStep ==
    ASSUME RingAssumption, IInv, NEW t \in Thread, PopEmpty(t)
    PROVE  IInv'
  <1>1. PICK p \in Lap :
              /\ p = At(t) /\ p \in Nat /\ p < Popped /\ Stamp(p) = p + 1
              /\ at[t] = "pop_empty" /\ at' = [at EXCEPT ![t] = "idle"]
              /\ position' = [position EXCEPT ![t] = 0] /\ value' = [value EXCEPT ![t] = 0]
              /\ UNCHANGED <<payload, enqueue, dequeue, left>>
              /\ sequence' \in [Slots -> Word]
              /\ Stamp(p)' = p + Capacity
              /\ \A q \in Lap : q # p => Stamp(q)' = Stamp(q)
              /\ \A n \in Int : Offset(sequence'[n % Capacity]) >= Stamp(n)
    BY PopEmptyFacts
  <1>2. Pushed' = Pushed /\ Popped' = Popped /\ Lap' = Lap
    BY <1>1 DEF Pushed, Popped, Lap
  <1>3. /\ Emptiers' = Emptiers \ {t} /\ t \in Emptiers /\ Fillers' = Fillers /\ Pending' = Pending
        /\ \A u \in Fillers' \cup Emptiers' : u # t /\ u \in Thread
    BY <1>1 DEF Fillers, Emptiers, Pending, IInv, TypeOK
  <1>4. \A u \in Thread : u # t => At(u)' = At(u)
    BY <1>1 DEF At, IInv, TypeOK
  <1>5. TypeOK'
    <2>1. 0 \in Word /\ 0 \in Payload
      <3>1. 0 \in Word /\ 0 \in 0 .. Capacity - 1
        BY Constants DEF Word
      <3> QED BY <3>1 DEF RingAssumption
    <2>2. Slots' = Slots
      BY DEF Slots
    <2> QED BY <1>1, <2>1, <2>2 DEF IInv, TypeOK
  <1>6. OrderInv'
    BY <1>2 DEF IInv, OrderInv
  <1>7. \A u \in Fillers' \cup Emptiers' : At(u)' = At(u) /\ At(u) # p
    BY <1>1, <1>3, <1>4 DEF IInv, OwnersInv
  <1>8. CellsInv'
    <2> SUFFICES ASSUME NEW q \in Lap PROVE CellInv(q)'
      BY <1>2 DEF CellsInv
    <2>1. CASE q = p
      BY <1>1, <1>2, <2>1 DEF CellInv
    <2>2. CASE q # p
      <3>1. CellInv(q)
        BY DEF IInv, CellsInv
      <3>2. Stamp(q)' = Stamp(q)
        BY <1>1, <2>2
      <3>3. \A u \in Emptiers : At(u) = q => u \in Emptiers' /\ At(u)' = q
        BY <1>1, <1>3, <1>7, <2>2
      <3>4. \A u \in Fillers : At(u) = q => u \in Fillers' /\ At(u)' = q
        BY <1>3, <1>7
      <3> QED BY <1>2, <3>1, <3>2, <3>3, <3>4 DEF CellInv
    <2> QED BY <2>1, <2>2
  <1>9. OwnersInv'
    <2>1. \A u \in Fillers' \cup Emptiers' : At(u) \in Lap => Stamp(At(u))' = Stamp(At(u))
      <3> TAKE u \in Fillers' \cup Emptiers'
      <3>1. PICK q : q = At(u)
        OBVIOUS
      <3>2. At(u)' = q /\ q # p
        BY <1>7, <3>1
      <3>3. q \in Lap => Stamp(q)' = Stamp(q)
        BY <1>1, <3>2
      <3> QED BY <3>1, <3>2, <3>3 DEF Stamp
    <2>2. \A u \in Fillers' : At(u)' \in Lap /\ Stamp(At(u))' = At(u)
      BY <1>3, <1>7, <2>1 DEF IInv, OwnersInv
    <2>3. \A u \in Emptiers' : At(u)' \in Lap /\ At(u)' < Popped /\ Stamp(At(u))' = At(u) + 1
      BY <1>3, <1>7, <2>1 DEF IInv, OwnersInv
    <2>4. \A u, v \in Fillers' \cup Emptiers' : At(u)' = At(v)' => u = v
      BY <1>3, <1>7 DEF IInv, OwnersInv
    <2> QED BY <1>2, <1>7, <2>2, <2>3, <2>4 DEF OwnersInv
  <1>10. CallersInv'
    BY <1>1, CallersMove
  <1>11. CountInv'
    BY <1>1, <1>3, CountKept
  <1> QED BY <1>5, <1>6, <1>8, <1>9, <1>10, <1>11 DEF IInv

LEMMA UnchangedStep == RingAssumption /\ IInv /\ UNCHANGED vars => IInv'
  <1> SUFFICES ASSUME RingAssumption, IInv, UNCHANGED vars PROVE IInv'
    OBVIOUS
  <1>1. Fillers' = Fillers /\ Emptiers' = Emptiers /\ Pending' = Pending
    BY DEF vars, Fillers, Emptiers, Pending
  <1>2. OrderInv' /\ CellsInv' /\ OwnersInv'
    BY <1>1, RingKept DEF vars
  <1>3. CallersInv'
    <2>1. Pushed' = Pushed /\ Popped' = Popped /\ (\A q : Stamp(q)' = Stamp(q)) /\ \A u : At(u)' = At(u)
      BY DEF vars, Pushed, Popped, Stamp, At
    <2> QED BY <2>1 DEF IInv, CallersInv, vars
  <1>4. CountInv'
    BY <1>1, CountKept DEF vars
  <1>5. TypeOK'
    BY DEF IInv, TypeOK, vars, Slots
  <1> QED BY <1>2, <1>3, <1>4, <1>5 DEF IInv

(* The steps, with the outcomes of a claim told apart.                     *)
LEMMA Steps ==
    ASSUME IInv, Next
    PROVE  \E t \in Thread :
              \/ PopBegin(t) \/ \E p \in Payload : PushBegin(t, p)
              \/ PushLoad(t) \/ PopLoad(t)
              \/ PushTest(t) \/ PopTest(t)
              \/ /\ UNCHANGED <<sequence, payload, enqueue, dequeue, value, left>>
                 /\ \/ /\ at[t] = "push_claim"
                       /\ position' = [position EXCEPT ![t] = enqueue]
                       /\ at' = [at EXCEPT ![t] = "push_test"]
                    \/ /\ at[t] = "pop_claim"
                       /\ position' = [position EXCEPT ![t] = dequeue]
                       /\ at' = [at EXCEPT ![t] = "pop_test"]
              \/ PushWins(t) \/ PopWins(t)
              \/ PushFill(t) \/ PopEmpty(t)
  <1>1. PICK t \in Thread :
            \/ \E p \in Payload : PushBegin(t, p)
            \/ PushLoad(t) \/ PushTest(t) \/ PushClaim(t) \/ PushFill(t)
            \/ PopBegin(t)
            \/ PopLoad(t) \/ PopTest(t) \/ PopClaim(t) \/ PopEmpty(t)
    BY DEF Next
  <1>2. PushClaim(t) =>
            \/ PushWins(t)
            \/ /\ UNCHANGED <<sequence, payload, enqueue, dequeue, value, left>>
               /\ at[t] = "push_claim"
               /\ position' = [position EXCEPT ![t] = enqueue]
               /\ at' = [at EXCEPT ![t] = "push_test"]
    BY DEF PushClaim, PushWins, IInv, TypeOK
  <1>3. PopClaim(t) =>
            \/ PopWins(t)
            \/ /\ UNCHANGED <<sequence, payload, enqueue, dequeue, value, left>>
               /\ at[t] = "pop_claim"
               /\ position' = [position EXCEPT ![t] = dequeue]
               /\ at' = [at EXCEPT ![t] = "pop_test"]
    BY DEF PopClaim, PopWins, IInv, TypeOK
  <1> QED BY <1>1, <1>2, <1>3

LEMMA StepInvariant == RingAssumption /\ IInv /\ [Next]_vars => IInv'
  <1> SUFFICES ASSUME RingAssumption, IInv, [Next]_vars PROVE IInv'
    OBVIOUS
  <1>1. CASE UNCHANGED vars
    BY <1>1, UnchangedStep
  <1>2. CASE Next
    BY <1>2, Steps, BeginStep, LoadStep, PushTestStep, PopTestStep, RetryStep, PushWinsStep,
       PopWinsStep, PushFillStep, PopEmptyStep
  <1> QED BY <1>1, <1>2

(* A slot has one owner, and the positions keep their order and distance.  *)
LEMMA InvariantIsSafe ==
    ASSUME RingAssumption, IInv
    PROVE  TypeOK /\ SlotsAreExclusive /\ PositionsValid
  <1>1. SlotsAreExclusive
    <2> SUFFICES ASSUME NEW t \in Fillers \cup Emptiers, NEW u \in Fillers \cup Emptiers,
                        SlotOf(position[t]) = SlotOf(position[u])
                 PROVE  t = u
      BY DEF SlotsAreExclusive, Fillers, Emptiers
    <2>1. At(t) \in Lap /\ At(u) \in Lap /\ t \in Thread /\ u \in Thread
      BY DEF IInv, OwnersInv, Fillers, Emptiers
    <2>2. At(t) % Capacity = At(u) % Capacity
      BY <2>1, Ranges DEF IInv
    <2>3. At(t) = At(u)
      BY <2>1, <2>2, LapSlots DEF IInv
    <2> QED BY <2>3 DEF IInv, OwnersInv
  <1>2. PositionsValid
    <2>1. ReadableCount = Pushed - Popped
      BY WindowDistance DEF ReadableCount, Popped, IInv, TypeOK, OrderInv
    <2> QED BY <2>1, Ranges, Constants DEF PositionsValid, IInv, OrderInv
  <1> QED BY <1>1, <1>2 DEF IInv
-----------------------------------------------------------------------------
(***************************************************************************)
(* The window of ClaimRing, in offsets.                                    *)
(***************************************************************************)

(* A set of naturals with a bound has a greatest element.                  *)
LEMMA GreatestExists ==
    ASSUME NEW n \in Nat, NEW S, S \subseteq 0 .. n, S # {}
    PROVE  LET greatest == CHOOSE x \in S : \A y \in S : y <= x
           IN  greatest \in S /\ \A y \in S : y <= greatest
  <1> DEFINE T == {n - x : x \in S}
  <1>1. T \subseteq Nat /\ T # {}
    <2>1. PICK x \in S : TRUE
      OBVIOUS
    <2>2. n - x \in T
      BY <2>1
    <2>3. \A y \in S : n - y \in Nat
      OBVIOUS
    <2> QED BY <2>2, <2>3
  <1>2. \E x \in T : \A y \in T : ~(<<y, x>> \in OpToRel(<, Nat))
    <2> HIDE DEF T
    <2> QED BY <1>1, NatLessThanWellFounded, WFMin
  <1>3. PICK x \in T : \A y \in T : ~(<<y, x>> \in OpToRel(<, Nat))
    BY <1>2
  <1>4. ASSUME NEW y \in T PROVE x <= y
    <2>1. y \in Nat /\ x \in Nat
      BY <1>1
    <2>2. ~(y < x)
      BY <1>3, <2>1 DEF OpToRel
    <2> QED BY <2>1, <2>2
  <1>5. PICK g \in S : x = n - g
    BY <1>3
  <1>6. ASSUME NEW y \in S PROVE y <= g
    <2>1. n - y \in T
      OBVIOUS
    <2>2. n - g <= n - y
      BY <1>4, <1>5, <2>1
    <2> QED BY <2>2
  <1> QED BY <1>5, <1>6

Content(q) == Cell(Wrap(Origin + q))

(* How far the next pop and the pops that still read are behind the next   *)
(* push.                                                                   *)
Behind == {Pushed - Popped} \cup {Pushed - At(t) : t \in Emptiers}

(* The first position of the window.                                       *)
Oldest == Pushed - Size

LEMMA SizeOf ==
    RingAssumption /\ IInv =>
        /\ Size \in Behind
        /\ \A n \in Behind : n <= Size
        /\ Behind \subseteq 0 .. Capacity
  <1> SUFFICES ASSUME RingAssumption, IInv
               PROVE  /\ Size \in Behind
                      /\ \A n \in Behind : n <= Size
                      /\ Behind \subseteq 0 .. Capacity
    OBVIOUS
  <1>1. /\ Pushed \in Nat /\ Popped \in Nat /\ Capacity \in Nat
        /\ \A t \in Emptiers : /\ t \in Thread /\ position[t] \in Word /\ At(t) = Offset(position[t])
                               /\ At(t) \in Nat /\ At(t) \in Lap
        /\ Popped = Offset(dequeue) /\ dequeue \in Word
    BY Ranges, Constants DEF IInv, OwnersInv, Emptiers, TypeOK, At, Popped
  <1>2. Behind \subseteq 0 .. Capacity /\ Behind # {}
    <2>1. Pushed - Popped \in 0 .. Capacity
      BY <1>1 DEF IInv, OrderInv
    <2>2. \A t \in Emptiers : Pushed - At(t) \in 0 .. Capacity
      BY <1>1 DEF Lap
    <2> QED BY <2>1, <2>2 DEF Behind
  <1>3. PICK behind : behind = {Wrap(enqueue - p) : p \in {dequeue} \cup {q \in Word : Emptying(q) # {}}}
    OBVIOUS
  <1>4. behind = Behind
    <2>1. Wrap(enqueue - dequeue) = Pushed - Popped
      BY <1>1, WindowDistance DEF IInv, OrderInv
    <2>2. ASSUME NEW t \in Emptiers PROVE Wrap(enqueue - position[t]) = Pushed - At(t)
      <3>1. At(t) <= Pushed
        BY <1>1 DEF Lap
      <3> QED BY <1>1, <3>1, WindowDistance DEF IInv
    <2>3. \A q \in Word : Emptying(q) # {} <=> \E t \in Emptiers : position[t] = q
      BY DEF Emptying, Emptiers
    <2>4. behind \subseteq Behind
      <3>1. ASSUME NEW q \in Word, Emptying(q) # {} PROVE Wrap(enqueue - q) \in Behind
        <4>1. PICK t \in Emptiers : position[t] = q
          BY <2>3, <3>1
        <4> QED BY <2>2, <4>1 DEF Behind
      <3>2. Wrap(enqueue - dequeue) \in Behind
        BY <2>1 DEF Behind
      <3> QED BY <1>3, <3>1, <3>2
    <2>5. Behind \subseteq behind
      <3>1. ASSUME NEW t \in Emptiers PROVE Pushed - At(t) \in behind
        <4>1. position[t] \in Word /\ Emptying(position[t]) # {}
          BY <1>1, <2>3
        <4> QED BY <1>3, <2>2, <4>1
      <3>2. Pushed - Popped \in behind
        BY <1>3, <2>1
      <3> QED BY <3>1, <3>2 DEF Behind
    <2> QED BY <2>4, <2>5
  <1>5. Size = CHOOSE n \in behind : \A m \in behind : m <= n
    BY <1>3 DEF Size
  <1>6. Size \in Behind /\ \A n \in Behind : n <= Size
    <2>1. LET greatest == CHOOSE x \in Behind : \A y \in Behind : y <= x
          IN  greatest \in Behind /\ \A y \in Behind : y <= greatest
      BY <1>1, <1>2, GreatestExists
    <2> QED BY <1>4, <1>5, <2>1
  <1> QED BY <1>2, <1>6

LEMMA SizeOfNext ==
    RingAssumption /\ IInv' =>
        /\ Size' \in Behind'
        /\ \A n \in Behind' : n <= Size'
        /\ Behind' \subseteq 0 .. Capacity
  <1>1. (RingAssumption /\ IInv =>
            /\ Size \in Behind
            /\ \A n \in Behind : n <= Size
            /\ Behind \subseteq 0 .. Capacity)'
    BY SizeOf, PTL
  <1> QED BY <1>1

(* The window begins with the next cell to pop or with the first that a    *)
(* pop still reads.                                                        *)
WindowFacts ==
    /\ Pushed \in Nat /\ Popped \in Nat /\ Oldest \in Nat /\ Size \in 0 .. Capacity
    /\ Pushed < WordValues /\ Size = Pushed - Oldest
    /\ Oldest <= Popped /\ Popped <= Pushed /\ Pushed <= Oldest + Capacity
    /\ \A t \in Emptiers : Oldest <= At(t) /\ At(t) < Popped /\ At(t) \in Nat
    /\ \A t \in Fillers : Popped <= At(t) /\ At(t) < Pushed /\ At(t) \in Nat
    /\ Oldest = Popped \/ \E t \in Emptiers : At(t) = Oldest

LEMMA Window == RingAssumption /\ IInv => WindowFacts
  <1> SUFFICES ASSUME RingAssumption, IInv PROVE WindowFacts
    OBVIOUS
  <1>1. /\ Pushed \in Nat /\ Popped \in Nat /\ Capacity \in Nat /\ Pushed < WordValues
        /\ Popped <= Pushed
        /\ \A t \in Emptiers : At(t) \in Nat /\ At(t) < Popped
        /\ \A t \in Fillers : At(t) \in Nat /\ At(t) < Pushed
    BY Ranges, Constants DEF IInv, OwnersInv, OrderInv, Emptiers, Fillers, Lap
  <1>2. Size \in Behind /\ (\A n \in Behind : n <= Size) /\ Size \in 0 .. Capacity
    BY SizeOf
  <1>3. Pushed - Popped <= Size /\ \A t \in Emptiers : Pushed - At(t) <= Size
    BY <1>2 DEF Behind
  <1>4. Size = Pushed - Popped \/ \E t \in Emptiers : Size = Pushed - At(t)
    BY <1>2 DEF Behind
  <1>5. Oldest \in Nat /\ Size = Pushed - Oldest
        /\ (Oldest = Popped \/ \E t \in Emptiers : At(t) = Oldest)
    <2>1. CASE Size = Pushed - Popped
      BY <1>1, <2>1 DEF Oldest
    <2>2. CASE \E t \in Emptiers : Size = Pushed - At(t)
      <3>1. PICK t \in Emptiers : Size = Pushed - At(t)
        BY <2>2
      <3>2. Oldest = At(t) /\ At(t) \in Nat
        BY <1>1, <3>1 DEF Oldest
      <3> QED BY <1>1, <3>1, <3>2
    <2> QED BY <1>4, <2>1, <2>2
  <1>6. \A t \in Fillers : Popped <= At(t)
    <2> TAKE t \in Fillers
    <2>1. At(t) \in Lap /\ Stamp(At(t)) = At(t) /\ CellInv(At(t)) /\ At(t) \in Nat
      BY <1>1 DEF IInv, OwnersInv, CellsInv
    <2> QED BY <1>1, <2>1, Constants DEF CellInv
  <1> QED BY <1>1, <1>2, <1>3, <1>5, <1>6 DEF WindowFacts

LEMMA WindowNext == RingAssumption /\ IInv' => WindowFacts'
  <1>1. (RingAssumption /\ IInv => WindowFacts)'
    BY Window, PTL
  <1> QED BY <1>1

StateOf(q) ==
    IF \E t \in Fillers : At(t) = q THEN "filling"
    ELSE IF \E t \in Emptiers : At(t) = q THEN "emptying"
    ELSE IF q >= Popped THEN "full" ELSE "vacated"

(* What the window shows of a position.                                    *)
ContentFacts ==
    \A q \in Oldest .. Pushed - 1 :
        /\ Content(q) = [item |-> Content(q).item, state |-> StateOf(q)]
        /\ \A t \in Fillers : At(t) = q => Content(q).item = value[t]
        /\ (\A t \in Fillers : At(t) # q) => Content(q).item = payload[q % Capacity]

LEMMA Contents == RingAssumption /\ IInv => ContentFacts
  <1> SUFFICES ASSUME RingAssumption, IInv, NEW q \in Oldest .. Pushed - 1
               PROVE  /\ Content(q) = [item |-> Content(q).item, state |-> StateOf(q)]
                      /\ \A t \in Fillers : At(t) = q => Content(q).item = value[t]
                      /\ (\A t \in Fillers : At(t) # q) => Content(q).item = payload[q % Capacity]
    BY DEF ContentFacts
  <1>1. /\ q \in Nat /\ q \in Word /\ Pushed \in Nat /\ Popped \in Nat /\ q < Pushed
        /\ Popped <= Pushed
    BY Window, Constants DEF WindowFacts, Word
  <1>2. PICK w \in Word : w = Wrap(Origin + q) /\ Offset(w) = q
    <2>1. Origin + q \in Int
      BY <1>1, Constants DEF Word
    <2> QED BY <1>1, <2>1, WrapOnce, Offsets
  <1>3. SlotOf(w) = q % Capacity
    BY <1>2, SlotOfOffset
  <1>4. \A t \in Thread : position[t] = w <=> At(t) = q
    BY <1>2, Offsets DEF At, IInv, TypeOK
  <1>5. Filling(w) = {t \in Fillers : At(t) = q} /\ Emptying(w) = {t \in Emptiers : At(t) = q}
    BY <1>4 DEF Filling, Emptying, Fillers, Emptiers
  <1>6. Wrap(enqueue - w) <= ReadableCount <=> q >= Popped
    <2>1. Wrap(enqueue - w) = Pushed - q
      BY <1>1, <1>2, WindowDistance DEF IInv
    <2>2. ReadableCount = Pushed - Popped
      BY <1>1, WindowDistance DEF ReadableCount, Popped, IInv, TypeOK
    <2> QED BY <1>1, <2>1, <2>2
  <1>7. Content(q) = Cell(w)
    BY <1>2 DEF Content
  <1>8. CASE \E t \in Fillers : At(t) = q
    <2>1. PICK t \in Fillers : At(t) = q
      BY <1>8
    <2>2. Filling(w) # {} /\ (CHOOSE u \in Filling(w) : TRUE) = t
      <3>1. \A u \in Fillers : At(u) = q => u = t
        BY <2>1 DEF IInv, OwnersInv
      <3>2. Filling(w) = {t}
        BY <1>5, <2>1, <3>1
      <3> QED BY <3>2
    <2>5. Emptying(w) = {}
      <3>1. \A u \in Emptiers : At(u) = q => u = t
        BY <2>1 DEF IInv, OwnersInv
      <3>2. t \notin Emptiers
        BY DEF Fillers, Emptiers
      <3> QED BY <1>5, <3>1, <3>2
    <2>3. Cell(w) = [item |-> value[t], state |-> "filling"]
      BY <2>2, <2>5 DEF Cell
    <2>4. \A u \in Fillers : At(u) = q => u = t
      BY <2>1 DEF IInv, OwnersInv
    <2> QED BY <1>7, <1>8, <2>1, <2>3, <2>4 DEF StateOf
  <1>9. CASE \A t \in Fillers : At(t) # q
    <2>1. Filling(w) = {}
      BY <1>5, <1>9
    <2>2. CASE \E t \in Emptiers : At(t) = q
      <3>1. Emptying(w) # {}
        BY <1>5, <2>2
      <3>2. Cell(w) = [item |-> payload[SlotOf(w)], state |-> "emptying"]
        BY <2>1, <3>1 DEF Cell
      <3> QED BY <1>3, <1>7, <1>9, <2>2, <3>2 DEF StateOf
    <2>3. CASE \A t \in Emptiers : At(t) # q
      <3>1. Emptying(w) = {}
        BY <1>5, <2>3
      <3>2. Cell(w) = [item |-> payload[SlotOf(w)],
                       state |-> IF Wrap(enqueue - w) <= ReadableCount THEN "full" ELSE "vacated"]
        BY <2>1, <3>1 DEF Cell
      <3>3. Cell(w) = [item |-> payload[SlotOf(w)], state |-> IF q >= Popped THEN "full" ELSE "vacated"]
        BY <1>6, <3>2
      <3> QED BY <1>3, <1>7, <1>9, <2>3, <3>3 DEF StateOf
    <2> QED BY <2>2, <2>3
  <1> QED BY <1>8, <1>9

LEMMA ContentsNext == RingAssumption /\ IInv' => ContentFacts'
  <1>1. (RingAssumption /\ IInv => ContentFacts)'
    BY Contents, PTL
  <1> QED BY <1>1

Cells == [k \in 1 .. Size |-> Cell(Wrap(enqueue - Size + k - 1))]

CellsFacts ==
    /\ Cells = [k \in 1 .. Size |-> Cells[k]]
    /\ DOMAIN Cells = 1 .. Size /\ Len(Cells) = Size
    /\ \A q \in Oldest .. Pushed - 1 : Cells[q - Oldest + 1] = Content(q)

LEMMA CellsAre == RingAssumption /\ IInv => CellsFacts
  <1> SUFFICES ASSUME RingAssumption, IInv PROVE CellsFacts
    OBVIOUS
  <1>1. Size \in Nat /\ Size = Pushed - Oldest /\ Pushed \in Nat /\ Oldest \in Nat
    BY Window, Constants DEF WindowFacts
  <1>2. Cells = [k \in 1 .. Size |-> Cells[k]] /\ DOMAIN Cells = 1 .. Size
    BY DEF Cells
  <1>3. Len(Cells) = Size
    BY <1>1, <1>2
  <1>4. ASSUME NEW q \in Oldest .. Pushed - 1 PROVE Cells[q - Oldest + 1] = Content(q)
    <2>1. PICK k \in 1 .. Size : k = q - Oldest + 1
      BY <1>1
    <2>2. enqueue \in Word /\ Origin \in Word /\ WordValues \in Nat \ {0} /\ Pushed \in Word
      BY Constants, Offsets DEF Pushed, IInv, TypeOK, Word
    <2>3. Pushed = enqueue - Origin \/ Pushed = enqueue - Origin + WordValues
      BY <2>2, WrapOnce DEF Offset, Word, Pushed
    <2>4. Wrap(enqueue - Size + k - 1) = Wrap(Origin + q)
      <3>1. enqueue - Size + k - 1 \in Int
        BY <1>1, <2>2 DEF Word
      <3>2. CASE Pushed = enqueue - Origin
        <4>1. enqueue - Size + k - 1 = Origin + q
          BY <1>1, <2>1, <2>2, <3>2 DEF Word
        <4> QED BY <4>1
      <3>3. CASE Pushed = enqueue - Origin + WordValues
        <4>1. enqueue - Size + k - 1 + WordValues = Origin + q
          BY <1>1, <2>1, <2>2, <3>3 DEF Word
        <4>2. (enqueue - Size + k - 1 + WordValues) % WordValues = (enqueue - Size + k - 1) % WordValues
          BY <2>2, <3>1, ShiftedOnce
        <4> QED BY <4>1, <4>2 DEF Wrap
      <3> QED BY <2>3, <3>2, <3>3
    <2>5. Cells[k] = Cell(Wrap(Origin + q))
      BY <2>4 DEF Cells
    <2> QED BY <2>1, <2>5 DEF Content
  <1> QED BY <1>2, <1>3, <1>4 DEF CellsFacts

LEMMA CellsNext == RingAssumption /\ IInv' => CellsFacts'
  <1>1. (RingAssumption /\ IInv => CellsFacts)'
    BY CellsAre, PTL
  <1> QED BY <1>1
-----------------------------------------------------------------------------
(***************************************************************************)
(* Every step is one of ClaimRing's or leaves its cells alone.             *)
(***************************************************************************)

(* The window begins where it did while no pop ends.                       *)
LEMMA OldestSame ==
    ASSUME WindowFacts, WindowFacts',
           \A t \in Emptiers : t \in Emptiers' /\ At(t)' = At(t),
           \/ Popped' = Popped /\ Emptiers' \subseteq Emptiers
           \/ /\ Popped' = Popped + 1
              /\ \E t \in Emptiers' : At(t)' = Popped /\ Emptiers' \subseteq Emptiers \cup {t}
    PROVE  Oldest' = Oldest
  <1>1. /\ Popped \in Nat /\ Oldest \in Nat /\ Oldest <= Popped
        /\ \A t \in Emptiers : Oldest <= At(t) /\ At(t) \in Nat
        /\ Oldest = Popped \/ \E t \in Emptiers : At(t) = Oldest
    BY DEF WindowFacts
  <1>2. /\ Popped' \in Nat /\ Oldest' \in Nat /\ Oldest' <= Popped'
        /\ \A t \in Emptiers' : Oldest' <= At(t)' /\ At(t)' \in Nat
        /\ Oldest' = Popped' \/ \E t \in Emptiers' : At(t)' = Oldest'
    BY DEF WindowFacts
  <1>3. CASE Popped' = Popped /\ Emptiers' \subseteq Emptiers
    <2>1. Oldest' <= Oldest
      BY <1>1, <1>2, <1>3
    <2>2. Oldest <= Oldest'
      BY <1>1, <1>2, <1>3
    <2> QED BY <1>1, <1>2, <2>1, <2>2
  <1>4. CASE /\ Popped' = Popped + 1
             /\ \E t \in Emptiers' : At(t)' = Popped /\ Emptiers' \subseteq Emptiers \cup {t}
    <2>1. PICK t \in Emptiers' : At(t)' = Popped /\ Emptiers' \subseteq Emptiers \cup {t}
      BY <1>4
    <2>2. Oldest' <= Oldest
      BY <1>1, <1>2, <2>1
    <2>3. \A u \in Emptiers' : Oldest <= At(u)'
      BY <1>1, <2>1
    <2>4. Oldest <= Oldest'
      BY <1>1, <1>2, <1>4, <2>3
    <2> QED BY <1>1, <1>2, <2>2, <2>4
  <1> QED BY <1>3, <1>4

LEMMA ContentSame ==
    ASSUME ContentFacts, ContentFacts', NEW q \in Oldest .. Pushed - 1, q \in Oldest' .. Pushed' - 1,
           \A t \in Fillers : At(t) = q => t \in Fillers' /\ At(t)' = q /\ value'[t] = value[t],
           \A t \in Fillers' : At(t)' = q => t \in Fillers /\ At(t) = q,
           payload'[q % Capacity] = payload[q % Capacity],
           StateOf(q)' = StateOf(q)
    PROVE  Content(q)' = Content(q)
  <1>1. /\ Content(q) = [item |-> Content(q).item, state |-> StateOf(q)]
        /\ \A t \in Fillers : At(t) = q => Content(q).item = value[t]
        /\ (\A t \in Fillers : At(t) # q) => Content(q).item = payload[q % Capacity]
    BY DEF ContentFacts
  <1>2. /\ Content(q)' = [item |-> Content(q)'.item, state |-> StateOf(q)']
        /\ \A t \in Fillers' : At(t)' = q => Content(q)'.item = value'[t]
        /\ (\A t \in Fillers' : At(t)' # q) => Content(q)'.item = payload'[q % Capacity]
    BY DEF ContentFacts
  <1>3. Content(q)'.item = Content(q).item
    <2>1. CASE \E t \in Fillers : At(t) = q
      BY <1>1, <1>2, <2>1
    <2>2. CASE \A t \in Fillers : At(t) # q
      <3>1. \A t \in Fillers' : At(t)' # q
        BY <2>2
      <3> QED BY <1>1, <1>2, <2>2, <3>1
    <2> QED BY <2>1, <2>2
  <1> QED BY <1>1, <1>2, <1>3

LEMMA OneCell ==
    ASSUME CellsFacts, CellsFacts', WindowFacts, WindowFacts', Pushed' = Pushed, Oldest' = Oldest,
           NEW p \in Oldest .. Pushed - 1, NEW s,
           Content(p)' = [item |-> Content(p).item, state |-> s],
           Content(p) = [item |-> Content(p).item, state |-> StateOf(p)],
           \A q \in Oldest .. Pushed - 1 : q # p => Content(q)' = Content(q)
    PROVE  /\ p - Oldest + 1 \in DOMAIN Cells
           /\ Cells[p - Oldest + 1].state = StateOf(p)
           /\ Cells' = [Cells EXCEPT ![p - Oldest + 1].state = s]
  <1>1. /\ Oldest \in Nat /\ Pushed \in Nat /\ Size = Pushed - Oldest /\ Size' = Size /\ Size \in Nat
        /\ Cells = [k \in 1 .. Size |-> Cells[k]]
        /\ Cells' = [k \in 1 .. Size |-> Cells'[k]]
        /\ DOMAIN Cells = 1 .. Size
    BY DEF WindowFacts, CellsFacts
  <1>2. \A q \in Oldest .. Pushed - 1 :
            Cells[q - Oldest + 1] = Content(q) /\ Cells'[q - Oldest + 1] = Content(q)'
    BY DEF CellsFacts
  <1>3. PICK k \in 1 .. Size : k = p - Oldest + 1
    BY <1>1
  <1>4. Cells[k] = Content(p) /\ Cells'[k] = [item |-> Content(p).item, state |-> s]
    BY <1>2, <1>3
  <1>5. ASSUME NEW j \in 1 .. Size, j # k PROVE Cells'[j] = Cells[j]
    <2>1. PICK q \in Oldest .. Pushed - 1 : j = q - Oldest + 1 /\ q # p
      <3>1. Oldest + j - 1 \in Oldest .. Pushed - 1 /\ j = (Oldest + j - 1) - Oldest + 1
            /\ Oldest + j - 1 # p
        BY <1>1, <1>3, <1>5
      <3> QED BY <3>1
    <2> QED BY <1>2, <2>1
  <1>6. [Cells EXCEPT ![k].state = s] = [j \in 1 .. Size |-> IF j = k THEN [Cells[k] EXCEPT !.state = s] ELSE Cells[j]]
    BY <1>1
  <1>7. [Cells[k] EXCEPT !.state = s] = [item |-> Content(p).item, state |-> s]
    <2>1. PICK x : x = Content(p).item
      OBVIOUS
    <2>2. Cells[k] = [item |-> x, state |-> StateOf(p)]
      BY <1>4, <2>1
    <2>3. [Cells[k] EXCEPT !.state = s] = [item |-> x, state |-> s]
      BY <2>2
    <2> QED BY <2>1, <2>3
  <1>8. Cells' = [Cells EXCEPT ![k].state = s]
    BY <1>1, <1>4, <1>5, <1>6, <1>7
  <1>9. Cells[k].state = StateOf(p)
    BY <1>4
  <1> QED BY <1>1, <1>3, <1>8, <1>9

LEMMA FillCells ==
    ASSUME RingAssumption, IInv, IInv', NEW t \in Thread, PushFill(t)
    PROVE  \E k \in DOMAIN Cells : Cells[k].state = "filling" /\ Cells' = [Cells EXCEPT ![k].state = "full"]
  <1>1. WindowFacts /\ WindowFacts' /\ ContentFacts /\ ContentFacts' /\ CellsFacts /\ CellsFacts'
    BY Window, WindowNext, Contents, ContentsNext, CellsAre, CellsNext
  <1>2. PICK p \in Lap :
              /\ p = At(t) /\ p \in Nat /\ p >= Popped
              /\ at[t] = "push_fill" /\ at' = [at EXCEPT ![t] = "idle"]
              /\ position' = [position EXCEPT ![t] = 0] /\ value' = [value EXCEPT ![t] = 0]
              /\ payload' = [payload EXCEPT ![p % Capacity] = value[t]]
              /\ UNCHANGED <<enqueue, dequeue, left>>
    BY PushFillFacts
  <1>3. Pushed' = Pushed /\ Popped' = Popped
    BY <1>2 DEF Pushed, Popped
  <1>4. /\ Fillers' = Fillers \ {t} /\ t \in Fillers /\ Emptiers' = Emptiers
        /\ \A u \in Fillers \cup Emptiers : u # t => At(u)' = At(u) /\ value'[u] = value[u] /\ At(u) # p
        /\ t \notin Emptiers
    <2>1. /\ Fillers' = Fillers \ {t} /\ t \in Fillers /\ Emptiers' = Emptiers /\ t \notin Emptiers
      BY <1>2 DEF Fillers, Emptiers, IInv, TypeOK
    <2>2. \A u \in Thread : u # t => At(u)' = At(u) /\ value'[u] = value[u]
      BY <1>2 DEF At, IInv, TypeOK
    <2> QED BY <1>2, <2>1, <2>2 DEF IInv, OwnersInv, Fillers, Emptiers
  <1>5. Oldest' = Oldest
    BY <1>1, <1>3, <1>4, OldestSame
  <1>6. p \in Oldest .. Pushed - 1
    BY <1>1, <1>2, <1>4 DEF WindowFacts
  <1>7. ASSUME NEW q \in Oldest .. Pushed - 1, q # p PROVE Content(q)' = Content(q)
    <2>1. q \in Lap
      BY <1>1, <1>7, Constants DEF WindowFacts, Lap
    <2>2. payload'[q % Capacity] = payload[q % Capacity]
      <3>1. q % Capacity # p % Capacity
        BY <1>2, <1>7, <2>1, LapSlots DEF IInv
      <3> QED BY <1>2, <3>1 DEF IInv, TypeOK
    <2>3. \A u \in Fillers : At(u) = q => u \in Fillers' /\ At(u)' = q /\ value'[u] = value[u]
      BY <1>2, <1>4, <1>7
    <2>4. \A u \in Fillers' : At(u)' = q => u \in Fillers /\ At(u) = q
      BY <1>4
    <2>5. StateOf(q)' = StateOf(q)
      BY <1>3, <1>4, <2>3, <2>4 DEF StateOf
    <2> QED BY <1>1, <1>3, <1>5, <2>2, <2>3, <2>4, <2>5, ContentSame
  <1>8. /\ StateOf(p) = "filling" /\ Content(p).item = value[t]
        /\ Content(p) = [item |-> Content(p).item, state |-> StateOf(p)]
    BY <1>1, <1>2, <1>4, <1>6 DEF StateOf, ContentFacts
  <1>9. Content(p)' = [item |-> value[t], state |-> "full"]
    <2>1. \A u \in Fillers' : At(u)' # p
      BY <1>4
    <2>2. \A u \in Emptiers' : At(u)' # p
      BY <1>4
    <2>3. StateOf(p)' = "full"
      BY <1>2, <1>3, <2>1, <2>2 DEF StateOf
    <2>4. payload'[p % Capacity] = value[t]
      <3>1. p % Capacity \in Slots
        BY <1>2, Ranges DEF IInv
      <3> QED BY <1>2, <3>1 DEF IInv, TypeOK
    <2>5. p \in Oldest' .. Pushed' - 1
      BY <1>3, <1>5, <1>6
    <2>6. Content(p)'.item = value[t]
      BY <1>1, <2>1, <2>4, <2>5 DEF ContentFacts
    <2>7. Content(p)' = [item |-> Content(p)'.item, state |-> StateOf(p)']
      BY <1>1, <2>5 DEF ContentFacts
    <2> QED BY <2>3, <2>6, <2>7
  <1>10. Content(p)' = [item |-> Content(p).item, state |-> "full"]
    BY <1>8, <1>9
  <1>11. /\ p - Oldest + 1 \in DOMAIN Cells
         /\ Cells[p - Oldest + 1].state = StateOf(p)
         /\ Cells' = [Cells EXCEPT ![p - Oldest + 1].state = "full"]
    BY <1>1, <1>3, <1>5, <1>6, <1>7, <1>8, <1>10, OneCell
  <1> QED BY <1>8, <1>11

LEMMA PopWinsCells ==
    ASSUME RingAssumption, IInv, IInv', NEW t \in Thread, PopWins(t)
    PROVE  \E k \in DOMAIN Cells :
              /\ Cells[k].state = "full"
              /\ \A j \in 1 .. k - 1 : j \in DOMAIN Cells /\ Cells[j].state \in {"emptying", "vacated"}
              /\ Cells' = [Cells EXCEPT ![k].state = "emptying"]
  <1>1. WindowFacts /\ WindowFacts' /\ ContentFacts /\ ContentFacts' /\ CellsFacts /\ CellsFacts'
    BY Window, WindowNext, Contents, ContentsNext, CellsAre, CellsNext
  <1>2. /\ at[t] = "pop_claim" /\ at' = [at EXCEPT ![t] = "pop_empty"]
        /\ UNCHANGED <<sequence, payload, enqueue, position, value, left>>
        /\ At(t) = Popped /\ Popped \in Lap /\ Stamp(Popped) = Popped + 1
        /\ Pushed' = Pushed /\ Popped' = Popped + 1
    BY PopWinsFacts
  <1>3. /\ Emptiers' = Emptiers \cup {t} /\ Fillers' = Fillers /\ t \notin Emptiers /\ t \notin Fillers
        /\ \A u : At(u)' = At(u)
    BY <1>2 DEF Emptiers, Fillers, At, IInv, TypeOK
  <1>4. Oldest' = Oldest
    <2>1. t \in Emptiers' /\ At(t)' = Popped /\ Emptiers' \subseteq Emptiers \cup {t}
      BY <1>2, <1>3
    <2>2. \A u \in Emptiers : u \in Emptiers' /\ At(u)' = At(u)
      BY <1>3
    <2> QED BY <1>1, <1>2, <2>1, <2>2, OldestSame
  <1>5. PICK p : p = Popped
    OBVIOUS
  <1>6. p \in Oldest .. Pushed - 1 /\ p \in Int
    BY <1>1, <1>2, <1>5, Constants DEF WindowFacts, Lap
  <1>7. \A u \in Fillers : At(u) # p
    <2> TAKE u \in Fillers
    <2>1. Stamp(At(u)) = At(u)
      BY DEF IInv, OwnersInv
    <2> QED BY <1>2, <1>5, <1>6, <2>1
  <1>8. \A u \in Emptiers : At(u) # p
    BY <1>1, <1>5, <1>6 DEF WindowFacts
  <1>9. ASSUME NEW q \in Oldest .. Pushed - 1, q # p PROVE Content(q)' = Content(q)
    <2>1. q \in Int /\ Popped \in Int
      BY <1>1 DEF WindowFacts
    <2>2. (q >= Popped' <=> q >= Popped)
      BY <1>2, <1>5, <1>9, <2>1
    <2>3. (\E u \in Emptiers' : At(u)' = q) <=> \E u \in Emptiers : At(u) = q
      BY <1>2, <1>3, <1>5, <1>9
    <2>4. (\E u \in Fillers' : At(u)' = q) <=> \E u \in Fillers : At(u) = q
      BY <1>3
    <2>5. StateOf(q)' = StateOf(q)
      BY <2>2, <2>3, <2>4 DEF StateOf
    <2>6. q \in Oldest' .. Pushed' - 1
      BY <1>2, <1>4
    <2>7. \A u \in Fillers : At(u) = q => u \in Fillers' /\ At(u)' = q /\ value'[u] = value[u]
      BY <1>2, <1>3
    <2>8. \A u \in Fillers' : At(u)' = q => u \in Fillers /\ At(u) = q
      BY <1>3
    <2> QED BY <1>1, <1>2, <2>5, <2>6, <2>7, <2>8, ContentSame
  <1>10. /\ StateOf(p) = "full" /\ Content(p).item = payload[p % Capacity]
         /\ Content(p) = [item |-> Content(p).item, state |-> StateOf(p)]
    <2>1. StateOf(p) = "full"
      BY <1>5, <1>6, <1>7, <1>8 DEF StateOf
    <2> QED BY <1>1, <1>6, <1>7, <2>1 DEF ContentFacts
  <1>11. Content(p)' = [item |-> Content(p).item, state |-> "emptying"]
    <2>1. \A u \in Fillers' : At(u)' # p
      BY <1>3, <1>7
    <2>2. StateOf(p)' = "emptying"
      BY <1>2, <1>3, <1>5, <2>1 DEF StateOf
    <2>3. p \in Oldest' .. Pushed' - 1
      BY <1>2, <1>4, <1>6
    <2>4. Content(p)'.item = payload'[p % Capacity]
      BY <1>1, <2>1, <2>3 DEF ContentFacts
    <2>5. Content(p)' = [item |-> Content(p)'.item, state |-> StateOf(p)']
      BY <1>1, <2>3 DEF ContentFacts
    <2> QED BY <1>2, <1>10, <2>2, <2>4, <2>5
  <1>12. /\ p - Oldest + 1 \in DOMAIN Cells
         /\ Cells[p - Oldest + 1].state = "full"
         /\ Cells' = [Cells EXCEPT ![p - Oldest + 1].state = "emptying"]
    BY <1>1, <1>2, <1>4, <1>6, <1>9, <1>10, <1>11, OneCell
  <1>13. ASSUME NEW j \in 1 .. p - Oldest
         PROVE  j \in DOMAIN Cells /\ Cells[j].state \in {"emptying", "vacated"}
    <2>1. PICK q \in Oldest .. Pushed - 1 : q = Oldest + j - 1 /\ q < p /\ q - Oldest + 1 = j
      BY <1>1, <1>6 DEF WindowFacts
    <2>2. Cells[j] = Content(q) /\ Content(q).state = StateOf(q)
      <3>1. Cells[j] = Content(q)
        BY <1>1, <2>1 DEF CellsFacts
      <3>2. Content(q) = [item |-> Content(q).item, state |-> StateOf(q)]
        BY <1>1 DEF ContentFacts
      <3>3. PICK x : x = Content(q).item
        OBVIOUS
      <3>4. Content(q) = [item |-> x, state |-> StateOf(q)]
        BY <3>2, <3>3
      <3> QED BY <3>1, <3>4
    <2>3. \A u \in Fillers : At(u) # q
      BY <1>1, <1>5, <1>6, <2>1 DEF WindowFacts
    <2>4. ~(q >= Popped)
      BY <1>5, <1>6, <2>1
    <2>5. StateOf(q) \in {"emptying", "vacated"}
      BY <2>3, <2>4 DEF StateOf
    <2>6. j \in DOMAIN Cells
      BY <1>1, <1>6 DEF CellsFacts, WindowFacts
    <2> QED BY <2>2, <2>5, <2>6
  <1>14. PICK k \in DOMAIN Cells : k = p - Oldest + 1
    BY <1>12
  <1>15. k - 1 = p - Oldest
    BY <1>1, <1>6, <1>14 DEF WindowFacts
  <1> QED BY <1>12, <1>13, <1>14, <1>15

LEMMA FunctionIsSequence ==
    ASSUME NEW n \in Nat, NEW c, c = [k \in 1 .. n |-> c[k]]
    PROVE  c \in Seq({c[k] : k \in 1 .. n}) /\ Len(c) = n
  <1>1. PICK S : S = {c[k] : k \in 1 .. n}
    OBVIOUS
  <1>2. \A k \in 1 .. n : c[k] \in S
    BY <1>1
  <1>3. c \in [1 .. n -> S]
    BY <1>2
  <1>4. c \in Seq(S)
    BY <1>3, SeqDef
  <1>5. Len(c) = n
    BY <1>3
  <1> QED BY <1>1, <1>4, <1>5

LEMMA PushWinsCells ==
    ASSUME RingAssumption, IInv, IInv', NEW t \in Thread, PushWins(t)
    PROVE  /\ Len(Cells) < Capacity
           /\ Cells' = Append(Cells, [item |-> value[t], state |-> "filling"])
  <1>1. WindowFacts /\ WindowFacts' /\ ContentFacts /\ ContentFacts' /\ CellsFacts /\ CellsFacts'
    BY Window, WindowNext, Contents, ContentsNext, CellsAre, CellsNext
  <1>2. /\ at[t] = "push_claim" /\ at' = [at EXCEPT ![t] = "push_fill"]
        /\ UNCHANGED <<sequence, payload, dequeue, position, value, left>>
        /\ At(t) = Pushed /\ Pushed' = Pushed + 1 /\ Popped' = Popped
    BY PushWinsFacts
  <1>3. /\ Fillers' = Fillers \cup {t} /\ Emptiers' = Emptiers /\ t \notin Fillers
        /\ \A u : At(u)' = At(u)
    BY <1>2 DEF Emptiers, Fillers, At, IInv, TypeOK
  <1>4. Oldest' = Oldest
    BY <1>1, <1>2, <1>3, OldestSame
  <1>5. /\ Size' = Size + 1 /\ Size \in Nat /\ Size < Capacity /\ Size = Pushed - Oldest
        /\ Pushed \in Nat /\ Popped \in Nat /\ Oldest \in Nat /\ Oldest <= Pushed /\ Popped <= Pushed
    BY <1>1, <1>2, <1>4, Constants DEF WindowFacts
  <1>6. Len(Cells) < Capacity
    BY <1>1, <1>5 DEF CellsFacts
  <1>7. ASSUME NEW q \in Oldest .. Pushed - 1 PROVE Content(q)' = Content(q)
    <2>1. q # Pushed /\ q \in Oldest' .. Pushed' - 1
      BY <1>2, <1>4, <1>5
    <2>2. \A u \in Fillers : At(u) = q => u \in Fillers' /\ At(u)' = q /\ value'[u] = value[u]
      BY <1>2, <1>3
    <2>3. \A u \in Fillers' : At(u)' = q => u \in Fillers /\ At(u) = q
      BY <1>2, <1>3, <2>1
    <2>4. StateOf(q)' = StateOf(q)
      BY <1>2, <1>3, <2>2, <2>3 DEF StateOf
    <2> QED BY <1>1, <1>2, <2>1, <2>2, <2>3, <2>4, ContentSame
  <1>8. PICK p \in Oldest' .. Pushed' - 1 : p = Pushed
    BY <1>2, <1>4, <1>5
  <1>9. Content(p)' = [item |-> value[t], state |-> "filling"]
    <2>1. t \in Fillers' /\ At(t)' = p /\ value' = value
      BY <1>2, <1>3, <1>8
    <2>2. StateOf(p)' = "filling"
      BY <2>1 DEF StateOf
    <2>3. Content(p)'.item = value'[t]
      BY <1>1, <2>1 DEF ContentFacts
    <2>4. Content(p)' = [item |-> Content(p)'.item, state |-> StateOf(p)']
      BY <1>1 DEF ContentFacts
    <2> QED BY <2>1, <2>2, <2>3, <2>4
  <1>10. PICK cell : cell = [item |-> value[t], state |-> "filling"]
    OBVIOUS
  <1>11. Cells'[Size + 1] = cell
    <2>1. Cells'[p - Oldest' + 1] = Content(p)'
      BY <1>1 DEF CellsFacts
    <2>2. p - Oldest' + 1 = Size + 1
      BY <1>4, <1>5, <1>8
    <2> QED BY <1>9, <1>10, <2>1, <2>2
  <1>12. ASSUME NEW j \in 1 .. Size PROVE Cells'[j] = Cells[j]
    <2>1. PICK q \in Oldest .. Pushed - 1 : q = Oldest + j - 1 /\ q - Oldest + 1 = j
      BY <1>5
    <2>2. q \in Oldest' .. Pushed' - 1
      BY <1>2, <1>4, <1>5
    <2>3. Cells[j] = Content(q)
      BY <1>1, <2>1 DEF CellsFacts
    <2>4. Cells'[q - Oldest' + 1] = Content(q)'
      BY <1>1, <2>2 DEF CellsFacts
    <2> QED BY <1>4, <1>7, <2>1, <2>3, <2>4
  <1>13. Cells' = [j \in 1 .. Size + 1 |-> IF j = Size + 1 THEN cell ELSE Cells[j]]
    <2>1. Cells' = [j \in 1 .. Size + 1 |-> Cells'[j]]
      BY <1>1, <1>5 DEF CellsFacts
    <2>2. \A j \in 1 .. Size + 1 : Cells'[j] = IF j = Size + 1 THEN cell ELSE Cells[j]
      BY <1>5, <1>11, <1>12
    <2> QED BY <2>1, <2>2
  <1>14. Append(Cells, cell) = [j \in 1 .. Size + 1 |-> IF j = Size + 1 THEN cell ELSE Cells[j]]
    <2>1. Cells = [k \in 1 .. Size |-> Cells[k]] /\ Len(Cells) = Size
      BY <1>1 DEF CellsFacts
    <2>2. PICK c : c = Cells
      OBVIOUS
    <2>3. c = [k \in 1 .. Size |-> c[k]] /\ Len(c) = Size
      BY <2>1, <2>2
    <2>4. c \in Seq({c[k] : k \in 1 .. Size})
      BY <1>5, <2>3, FunctionIsSequence
    <2>5. PICK d : d = Append(c, cell)
      OBVIOUS
    <2>6. Len(d) = Size + 1 /\ (\A j \in 1 .. Size : d[j] = c[j]) /\ d[Size + 1] = cell
          /\ d \in Seq({c[k] : k \in 1 .. Size} \cup {cell})
      BY <1>5, <2>3, <2>4, <2>5, AppendProperties
    <2>7. d = [j \in 1 .. Size + 1 |-> d[j]]
      BY <2>6, LenProperties
    <2>8. \A j \in 1 .. Size + 1 : d[j] = IF j = Size + 1 THEN cell ELSE c[j]
      BY <1>5, <2>6
    <2> QED BY <2>2, <2>5, <2>7, <2>8
  <1> QED BY <1>6, <1>10, <1>13, <1>14

(* The pop that ends may free the cells before the first that is still in  *)
(* use.                                                                    *)
LEMMA PopEmptyCells ==
    ASSUME RingAssumption, IInv, IInv', NEW t \in Thread, PopEmpty(t)
    PROVE  \E k \in DOMAIN Cells, first \in 1 .. Len(Cells) + 1 :
              /\ Cells[k].state = "emptying"
              /\ \A j \in 1 .. first - 1 : j = k \/ Cells[j].state = "vacated"
              /\ first # Len(Cells) + 1 => first # k /\ Cells[first].state # "vacated"
              /\ Cells' = SubSeq([Cells EXCEPT ![k].state = "vacated"], first, Len(Cells))
  <1>1. WindowFacts /\ WindowFacts' /\ ContentFacts /\ ContentFacts' /\ CellsFacts /\ CellsFacts'
    BY Window, WindowNext, Contents, ContentsNext, CellsAre, CellsNext
  <1>2. PICK p : /\ p \in Lap
              /\ p = At(t) /\ p \in Nat /\ p < Popped
              /\ at[t] = "pop_empty" /\ at' = [at EXCEPT ![t] = "idle"]
              /\ position' = [position EXCEPT ![t] = 0] /\ value' = [value EXCEPT ![t] = 0]
              /\ UNCHANGED <<payload, enqueue, dequeue, left>>
    BY PopEmptyFacts
  <1>3. Pushed' = Pushed /\ Popped' = Popped
    BY <1>2 DEF Pushed, Popped
  <1>4. /\ Emptiers' = Emptiers \ {t} /\ t \in Emptiers /\ Fillers' = Fillers /\ t \notin Fillers
        /\ \A u \in Fillers \cup Emptiers : u # t => At(u)' = At(u) /\ value'[u] = value[u] /\ At(u) # p
    <2>1. Emptiers' = Emptiers \ {t} /\ t \in Emptiers /\ Fillers' = Fillers /\ t \notin Fillers
      BY <1>2 DEF Fillers, Emptiers, IInv, TypeOK
    <2>2. \A u \in Thread : u # t => At(u)' = At(u) /\ value'[u] = value[u]
      BY <1>2 DEF At, IInv, TypeOK
    <2> QED BY <1>2, <2>1, <2>2 DEF IInv, OwnersInv, Fillers, Emptiers
  <1>50. PICK o, n : o = Oldest' /\ n = Size'
    OBVIOUS
  <1>5. /\ Pushed \in Nat /\ Popped \in Nat /\ Oldest \in Nat /\ o \in Nat
        /\ Size = Pushed - Oldest /\ n = Pushed - o /\ Size \in Nat /\ n \in Nat
        /\ o <= Popped /\ Popped <= Pushed /\ Oldest <= p
    <2>1. /\ Pushed \in Nat /\ Popped \in Nat /\ Oldest \in Nat
          /\ Size = Pushed - Oldest /\ Popped <= Pushed /\ Oldest <= Popped /\ Oldest <= p
      BY <1>1, <1>2, <1>4 DEF WindowFacts
    <2>2. o \in Nat /\ n = Pushed - o /\ o <= Popped
      BY <1>1, <1>3, <1>50 DEF WindowFacts
    <2> QED BY <2>1, <2>2
  <1>6. Oldest <= o
    <2>1. \A u \in Emptiers' : Oldest <= At(u)'
      BY <1>1, <1>4 DEF WindowFacts
    <2>2. o = Popped \/ \E u \in Emptiers' : At(u)' = o
      BY <1>1, <1>3, <1>50 DEF WindowFacts
    <2> QED BY <1>1, <2>1, <2>2 DEF WindowFacts
  <1>7. \A q \in Int : q # p =>
            /\ (\E u \in Fillers' : At(u)' = q) <=> \E u \in Fillers : At(u) = q
            /\ (\E u \in Emptiers' : At(u)' = q) <=> \E u \in Emptiers : At(u) = q
    BY <1>2, <1>4
  <1>8. \A u \in Fillers \cup Emptiers' : At(u) # p /\ At(u)' # p
    BY <1>4
  <1>9. p \in Oldest .. Pushed - 1
    BY <1>2, <1>5
  <1>10. /\ StateOf(p) = "emptying" /\ Content(p).item = payload[p % Capacity]
         /\ Content(p) = [item |-> Content(p).item, state |-> StateOf(p)]
    <2>1. StateOf(p) = "emptying"
      BY <1>2, <1>4, <1>8 DEF StateOf
    <2> QED BY <1>1, <1>8, <1>9, <2>1 DEF ContentFacts
  <1>11. ASSUME NEW q \in o .. Pushed - 1, q # p PROVE Content(q)' = Content(q)
    <2>1. q \in Int /\ q \in Oldest .. Pushed - 1 /\ q \in Oldest' .. Pushed' - 1
      BY <1>3, <1>50, <1>5, <1>6
    <2>2. StateOf(q)' = StateOf(q)
      BY <1>3, <1>7, <1>11, <2>1 DEF StateOf
    <2>3. \A u \in Fillers : At(u) = q => u \in Fillers' /\ At(u)' = q /\ value'[u] = value[u]
      BY <1>4
    <2>4. \A u \in Fillers' : At(u)' = q => u \in Fillers /\ At(u) = q
      BY <1>4
    <2> QED BY <1>1, <1>2, <2>1, <2>2, <2>3, <2>4, ContentSame
  <1>12. ASSUME p \in o .. Pushed - 1
         PROVE  Content(p)' = [item |-> Content(p).item, state |-> "vacated"]
    <2>1. (\A u \in Fillers' : At(u)' # p) /\ (\A u \in Emptiers' : At(u)' # p)
      BY <1>4, <1>8
    <2>2. StateOf(p)' = "vacated"
      BY <1>2, <1>3, <1>5, <2>1 DEF StateOf
    <2>3. p \in Oldest' .. Pushed' - 1
      BY <1>3, <1>12, <1>50
    <2>4. Content(p)'.item = payload'[p % Capacity]
      BY <1>1, <2>1, <2>3 DEF ContentFacts
    <2>5. Content(p)' = [item |-> Content(p)'.item, state |-> StateOf(p)']
      BY <1>1, <2>3 DEF ContentFacts
    <2> QED BY <1>2, <1>10, <2>2, <2>4, <2>5
  <1>13. \A q \in Oldest .. Pushed - 1 :
             Cells[q - Oldest + 1] = Content(q) /\ Cells[q - Oldest + 1].state = StateOf(q)
    <2> TAKE q \in Oldest .. Pushed - 1
    <2>1. Content(q) = [item |-> Content(q).item, state |-> StateOf(q)]
      BY <1>1 DEF ContentFacts
    <2>2. PICK x : x = Content(q).item
      OBVIOUS
    <2>3. Content(q) = [item |-> x, state |-> StateOf(q)]
      BY <2>1, <2>2
    <2>4. Cells[q - Oldest + 1] = Content(q)
      BY <1>1 DEF CellsFacts
    <2> QED BY <2>3, <2>4
  <1>14. PICK k \in 1 .. Size : k = p - Oldest + 1
    BY <1>5, <1>9
  <1>15. PICK first \in 1 .. Size + 1 : first = o - Oldest + 1
    BY <1>5, <1>6
  <1>16. Cells[k].state = "emptying" /\ Cells[k] = [item |-> Content(p).item, state |-> "emptying"]
    BY <1>9, <1>10, <1>13, <1>14
  <1>17. ASSUME NEW j \in 1 .. first - 1, j # k PROVE Cells[j].state = "vacated"
    <2>1. PICK q \in Oldest .. Pushed - 1 : q = Oldest + j - 1 /\ q - Oldest + 1 = j /\ q # p /\ q < o
      <3>1. Oldest + j - 1 \in Oldest .. Pushed - 1 /\ (Oldest + j - 1) - Oldest + 1 = j
            /\ Oldest + j - 1 # p /\ Oldest + j - 1 < o
        BY <1>5, <1>14, <1>15, <1>17
      <3> QED BY <3>1
    <2>2. q \in Int /\ ~(q >= Popped)
      BY <1>5, <2>1
    <2>3. \A u \in Fillers : At(u) # q
      BY <1>1, <1>5, <2>2 DEF WindowFacts
    <2>4. \A u \in Emptiers : At(u) # q
      <3>1. \A u \in Emptiers' : At(u)' # q
        BY <1>1, <1>3, <1>50, <1>5, <2>1, <2>2 DEF WindowFacts
      <3> QED BY <1>7, <2>1, <2>2, <3>1
    <2>5. StateOf(q) = "vacated"
      BY <2>2, <2>3, <2>4 DEF StateOf
    <2> QED BY <1>13, <2>1, <2>5
  <1>18. ASSUME first # Size + 1 PROVE first # k /\ Cells[first].state # "vacated"
    <2>1. PICK q \in Oldest .. Pushed - 1 : q = o /\ q - Oldest + 1 = first
      BY <1>5, <1>6, <1>15, <1>18
    <2>2. q = Popped \/ \E u \in Emptiers' : At(u)' = q
      BY <1>1, <1>3, <1>50, <2>1 DEF WindowFacts
    <2>3. q # p /\ StateOf(q) # "vacated"
      <3>1. CASE q = Popped
        BY <1>2, <1>5, <3>1 DEF StateOf
      <3>2. CASE \E u \in Emptiers' : At(u)' = q
        BY <1>4, <3>2 DEF StateOf
      <3> QED BY <2>2, <3>1, <3>2
    <2>4. first # k
      BY <1>2, <1>5, <1>14, <2>1, <2>3
    <2> QED BY <1>13, <2>1, <2>3, <2>4
  <1>19. Cells' = SubSeq([Cells EXCEPT ![k].state = "vacated"], first, Size)
    <2>1. PICK c : c = [Cells EXCEPT ![k].state = "vacated"]
      OBVIOUS
    <2>2. c = [j \in 1 .. Size |-> IF j = k THEN [Cells[k] EXCEPT !.state = "vacated"] ELSE Cells[j]]
      BY <1>1, <2>1 DEF CellsFacts
    <2>3. [Cells[k] EXCEPT !.state = "vacated"] = [item |-> Content(p).item, state |-> "vacated"]
      <3>1. PICK x : x = Content(p).item
        OBVIOUS
      <3>2. Cells[k] = [item |-> x, state |-> "emptying"]
        BY <1>16, <3>1
      <3>3. [Cells[k] EXCEPT !.state = "vacated"] = [item |-> x, state |-> "vacated"]
        BY <3>2
      <3> QED BY <3>1, <3>3
    <2>4. PICK S : S = {c[j] : j \in 1 .. Size} \cup {Cells'[j] : j \in 1 .. n}
      OBVIOUS
    <2>5. PICK d : d = SubSeq(c, first, Size)
      OBVIOUS
    <2>6. d \in Seq(S) /\ Len(d) = n /\ \A j \in 1 .. n : d[j] = c[first + j - 1]
      <3>1. \A j \in first .. Size : c[j] \in S
        BY <2>4
      <3>2. /\ d \in Seq(S)
            /\ Len(d) = IF first <= Size THEN Size - first + 1 ELSE 0
            /\ \A j \in 1 .. Size - first + 1 : d[j] = c[first + j - 1]
        BY <1>5, <2>5, <3>1, SubSeqProperties
      <3>3. n = Size - first + 1
        BY <1>5, <1>15
      <3> QED BY <1>5, <3>2, <3>3
    <2>7. ASSUME NEW j \in 1 .. n PROVE Cells'[j] = c[first + j - 1]
      <3>1. PICK q \in o .. Pushed - 1 : q = o + j - 1 /\ q - o + 1 = j
        <4>1. o + j - 1 \in o .. Pushed - 1 /\ (o + j - 1) - o + 1 = j
          BY <1>5
        <4> QED BY <4>1
      <3>2. q \in Oldest' .. Pushed' - 1 /\ q \in Oldest .. Pushed - 1
        BY <1>3, <1>50, <1>5, <1>6
      <3>3. Cells'[j] = Content(q)'
        BY <1>1, <1>50, <3>1, <3>2 DEF CellsFacts
      <3>4. PICK l \in 1 .. Size : l = first + j - 1 /\ l = q - Oldest + 1
        BY <1>5, <1>6, <1>15, <3>1
      <3>5. CASE q = p
        <4>1. c[l] = [item |-> Content(p).item, state |-> "vacated"]
          BY <1>14, <2>2, <2>3, <3>4, <3>5
        <4> QED BY <1>12, <3>1, <3>3, <3>4, <3>5, <4>1
      <3>6. CASE q # p
        <4>1. l # k
          BY <1>2, <1>5, <1>14, <3>1, <3>4, <3>6
        <4>2. c[l] = Cells[l]
          BY <2>2, <3>4, <4>1
        <4>3. Cells[l] = Content(q)
          BY <1>13, <3>2, <3>4
        <4> QED BY <1>11, <3>1, <3>3, <3>4, <3>6, <4>2, <4>3
      <3> QED BY <3>5, <3>6
    <2>8. PICK e : e = Cells'
      OBVIOUS
    <2>9. e = [j \in 1 .. n |-> e[j]]
      BY <1>1, <1>50, <2>8 DEF CellsFacts
    <2>10. d = [j \in 1 .. n |-> d[j]]
      BY <2>6, LenProperties
    <2>11. \A j \in 1 .. n : e[j] = d[j]
      BY <2>6, <2>7, <2>8
    <2>12. e = d
      BY <2>9, <2>10, <2>11
    <2> QED BY <2>1, <2>5, <2>8, <2>12
  <1>20. DOMAIN Cells = 1 .. Size /\ Len(Cells) = Size
    BY <1>1 DEF CellsFacts
  <1> QED BY <1>15, <1>16, <1>17, <1>18, <1>19, <1>20

LEMMA CellsKept ==
    ASSUME RingAssumption, IInv, IInv', UNCHANGED <<enqueue, dequeue, payload>>,
           Fillers' = Fillers, Emptiers' = Emptiers,
           \A t \in Fillers \cup Emptiers : position'[t] = position[t] /\ value'[t] = value[t]
    PROVE  Cells' = Cells
  <1>1. WindowFacts /\ WindowFacts' /\ ContentFacts /\ ContentFacts' /\ CellsFacts /\ CellsFacts'
    BY Window, WindowNext, Contents, ContentsNext, CellsAre, CellsNext
  <1>2. Pushed' = Pushed /\ Popped' = Popped /\ \A t \in Fillers \cup Emptiers : At(t)' = At(t)
    BY DEF Pushed, Popped, At
  <1>3. Oldest' = Oldest
    BY <1>1, <1>2, OldestSame
  <1>4. Pushed \in Nat /\ Oldest \in Nat /\ Size = Pushed - Oldest /\ Size' = Size
    BY <1>1, <1>2, <1>3 DEF WindowFacts
  <1>5. ASSUME NEW q \in Oldest .. Pushed - 1 PROVE Content(q)' = Content(q)
    <2>1. StateOf(q)' = StateOf(q)
      BY <1>2 DEF StateOf
    <2>2. \A t \in Fillers : At(t) = q => t \in Fillers' /\ At(t)' = q /\ value'[t] = value[t]
      BY <1>2
    <2>3. \A t \in Fillers' : At(t)' = q => t \in Fillers /\ At(t) = q
      BY <1>2
    <2>4. q \in Oldest' .. Pushed' - 1
      BY <1>2, <1>3
    <2> QED BY <1>1, <2>1, <2>2, <2>3, <2>4, ContentSame
  <1>6. ASSUME NEW j \in 1 .. Size PROVE Cells'[j] = Cells[j]
    <2>1. PICK q \in Oldest .. Pushed - 1 : q = Oldest + j - 1 /\ q - Oldest + 1 = j
      BY <1>4
    <2>2. q \in Oldest' .. Pushed' - 1
      BY <1>2, <1>3
    <2>3. Cells[j] = Content(q)
      BY <1>1, <2>1 DEF CellsFacts
    <2>4. Cells'[q - Oldest' + 1] = Content(q)'
      BY <1>1, <2>2 DEF CellsFacts
    <2> QED BY <1>3, <1>5, <2>1, <2>3, <2>4
  <1>7. PICK c, d : c = Cells /\ d = Cells'
    OBVIOUS
  <1>8. c = [j \in 1 .. Size |-> c[j]] /\ d = [j \in 1 .. Size |-> d[j]]
    BY <1>1, <1>4, <1>7 DEF CellsFacts
  <1>9. \A j \in 1 .. Size : d[j] = c[j]
    BY <1>6, <1>7
  <1>10. c = d
    BY <1>8, <1>9
  <1> QED BY <1>7, <1>10

(* A set of naturals' least element, as ClaimRing takes it.                *)
LEMMA LeastIs ==
    ASSUME NEW S, S \subseteq Int, NEW n \in S, \A m \in S : n <= m
    PROVE  Ring!Min(S) = n
  <1>1. \A x \in S : (\A y \in S : x <= y) => x = n
    OBVIOUS
  <1> QED BY <1>1 DEF Ring!Min

LEMMA RingInit == RingAssumption /\ Init => Ring!Init
  <1> SUFFICES ASSUME RingAssumption, Init PROVE Ring!Init
    OBVIOUS
  <1>1. IInv
    BY InitInvariant
  <1>2. WindowFacts /\ ContentFacts /\ CellsFacts
    BY <1>1, Window, Contents, CellsAre
  <1>3. Fillers = {} /\ Emptiers = {}
    BY DEF Init, Fillers, Emptiers
  <1>4. Capacity \in Nat /\ Capacity >= 2 /\ (First = 0 \/ First = Capacity) /\ 4 * Capacity <= WordValues
        /\ WordValues \in Nat /\ Origin \in Word
    BY Constants
  <1>5. Pushed = First /\ Popped = 0
    <2>1. First \in Word /\ 0 \in Word /\ Origin + 0 = Origin /\ Wrap(Origin) = Origin
      BY <1>4, WrapOnce DEF Word
    <2>2. Offset(Wrap(Origin + First)) = First /\ Offset(Wrap(Origin + 0)) = 0
      BY <2>1, Offsets
    <2> QED BY <2>1, <2>2 DEF Init, Pushed, Popped, First
  <1>6. Oldest = 0 /\ Size = First
    BY <1>2, <1>3, <1>5 DEF WindowFacts
  <1>7. ASSUME NEW j \in 1 .. Size PROVE Cells[j] = [item |-> j - 1, state |-> "full"]
    <2>1. PICK q \in Oldest .. Pushed - 1 : q = j - 1 /\ q - Oldest + 1 = j /\ q \in 0 .. Capacity - 1
      BY <1>4, <1>5, <1>6
    <2>2. q % Capacity = q
      BY <1>4, <2>1
    <2>3. StateOf(q) = "full"
      BY <1>3, <1>5, <2>1 DEF StateOf
    <2>4. Content(q) = [item |-> Content(q).item, state |-> StateOf(q)]
          /\ Content(q).item = payload[q % Capacity]
      BY <1>2, <1>3 DEF ContentFacts
    <2>5. payload[q] = q
      BY <2>1 DEF Init, Slots
    <2>6. Content(q) = [item |-> q, state |-> "full"]
      BY <2>2, <2>3, <2>4, <2>5
    <2> QED BY <1>2, <2>1, <2>6 DEF CellsFacts
  <1>8. Cells = [j \in 1 .. First |-> [item |-> j - 1, state |-> "full"]]
    <2>1. PICK c : c = Cells
      OBVIOUS
    <2>2. c = [j \in 1 .. First |-> c[j]]
      BY <1>2, <1>6, <2>1 DEF CellsFacts
    <2>3. \A j \in 1 .. First : c[j] = [item |-> j - 1, state |-> "full"]
      BY <1>6, <1>7, <2>1
    <2> QED BY <2>1, <2>2, <2>3
  <1> QED BY <1>8 DEF Cells, Ring!Init, First

LEMMA RingFill ==
    ASSUME RingAssumption, IInv, IInv', NEW t \in Thread, PushFill(t)
    PROVE  Ring!Next
  <1>1. PICK k \in DOMAIN Cells : Cells[k].state = "filling" /\ Cells' = [Cells EXCEPT ![k].state = "full"]
    BY FillCells
  <1>2. Ring!CompletePush(k)
    BY <1>1 DEF Cells, Ring!CompletePush, Ring!InState, Ring!WithState
  <1> QED BY <1>1, <1>2 DEF Ring!Next, Cells

LEMMA RingClaimPush ==
    ASSUME RingAssumption, IInv, IInv', NEW t \in Thread, PushWins(t)
    PROVE  Ring!Next
  <1>1. Len(Cells) < Capacity /\ Cells' = Append(Cells, [item |-> value[t], state |-> "filling"])
    BY PushWinsCells
  <1>2. value[t] \in Payload
    BY DEF IInv, TypeOK
  <1>3. Ring!ClaimPush(value[t])
    BY <1>1 DEF Cells, Ring!ClaimPush, Ring!CanPush
  <1> QED BY <1>2, <1>3 DEF Ring!Next

LEMMA RingClaimPop ==
    ASSUME RingAssumption, IInv, IInv', NEW t \in Thread, PopWins(t)
    PROVE  Ring!Next
  <1>1. PICK k \in DOMAIN Cells :
              /\ Cells[k].state = "full"
              /\ \A j \in 1 .. k - 1 : j \in DOMAIN Cells /\ Cells[j].state \in {"emptying", "vacated"}
              /\ Cells' = [Cells EXCEPT ![k].state = "emptying"]
    BY PopWinsCells
  <1>2. DOMAIN Cells = 1 .. Size /\ Size \in Nat
    BY CellsAre, Window, Constants DEF CellsFacts, WindowFacts
  <1>3. k \in Ring!Waiting /\ k \in Ring!InState("full")
    BY <1>1 DEF Ring!Waiting, Ring!InState, Cells
  <1>4. Ring!Waiting \subseteq DOMAIN Cells
        /\ \A j \in Ring!Waiting : Cells[j].state = "filling" \/ Cells[j].state = "full"
    BY DEF Ring!Waiting, Ring!InState, Cells
  <1>5. \A j \in Ring!Waiting : k <= j
    <2> TAKE j \in Ring!Waiting
    <2>1. j \in 1 .. Size /\ k \in 1 .. Size
      BY <1>1, <1>2, <1>4
    <2>2. j \notin 1 .. k - 1
      BY <1>1, <1>4
    <2> QED BY <1>2, <2>1, <2>2
  <1>6. Ring!Min(Ring!Waiting) = k
    <2>1. Ring!Waiting \subseteq Int
      BY <1>2, <1>4
    <2> HIDE DEF Ring!Waiting
    <2> QED BY <1>3, <1>5, <2>1, LeastIs
  <1>7. Ring!ClaimPop
    <2>1. Ring!CanPop
      BY <1>3, <1>6 DEF Ring!CanPop
    <2>2. Cells' = [Cells EXCEPT ![Ring!Front].state = "emptying"]
      BY <1>1, <1>6 DEF Ring!Front
    <2> QED BY <2>1, <2>2 DEF Ring!ClaimPop, Ring!WithState, Cells
  <1> QED BY <1>7 DEF Ring!Next

LEMMA RingEmpty ==
    ASSUME RingAssumption, IInv, IInv', NEW t \in Thread, PopEmpty(t)
    PROVE  Ring!Next
  <1>1. PICK k \in DOMAIN Cells, first \in 1 .. Len(Cells) + 1 :
              /\ Cells[k].state = "emptying"
              /\ \A j \in 1 .. first - 1 : j = k \/ Cells[j].state = "vacated"
              /\ first # Len(Cells) + 1 => first # k /\ Cells[first].state # "vacated"
              /\ Cells' = SubSeq([Cells EXCEPT ![k].state = "vacated"], first, Len(Cells))
    BY PopEmptyCells
  <1>2. DOMAIN Cells = 1 .. Size /\ Size \in Nat /\ Len(Cells) = Size
    BY CellsAre, Window, Constants DEF CellsFacts, WindowFacts
  <1>3. PICK left0 : left0 = DOMAIN Cells \ (Ring!InState("vacated") \cup {k})
    OBVIOUS
  <1>4. left0 = {j \in DOMAIN Cells : Cells[j].state # "vacated" /\ j # k}
    BY <1>3 DEF Ring!InState, Cells
  <1>5. \A j \in left0 : first <= j
    <2> TAKE j \in left0
    <2>1. j \in 1 .. Size /\ j \notin 1 .. first - 1
      BY <1>1, <1>2, <1>4
    <2> QED BY <1>2, <2>1
  <1>6. first = IF left0 = {} THEN Len(Cells) + 1 ELSE Ring!Min(left0)
    <2>1. CASE first = Len(Cells) + 1
      <3>1. left0 = {}
        <4>1. ASSUME NEW j \in left0 PROVE FALSE
          BY <1>2, <1>4, <1>5, <2>1
        <4> QED BY <4>1
      <3> QED BY <2>1, <3>1
    <2>2. CASE first # Len(Cells) + 1
      <3>1. first \in left0
        BY <1>1, <1>2, <1>4, <2>2
      <3>2. left0 \subseteq Int
        BY <1>2, <1>4
      <3> QED BY <1>5, <3>1, <3>2, LeastIs
    <2> QED BY <2>1, <2>2
  <1>7. Ring!CompletePop(k)
    <2>1. k \in Ring!InState("emptying")
      BY <1>1 DEF Ring!InState, Cells
    <2>2. Cells' = SubSeq([Cells EXCEPT ![k].state = "vacated"],
                          IF DOMAIN Cells \ (Ring!InState("vacated") \cup {k}) = {} THEN Len(Cells) + 1
                          ELSE Ring!Min(DOMAIN Cells \ (Ring!InState("vacated") \cup {k})),
                          Len(Cells))
      BY <1>1, <1>3, <1>6
    <2> QED BY <2>1, <2>2 DEF Ring!CompletePop, Ring!WithState, Cells
  <1> QED BY <1>1, <1>7 DEF Ring!Next, Cells

LEMMA QuietStep ==
    ASSUME RingAssumption, IInv, IInv', NEW t \in Thread,
           \/ PopBegin(t) \/ \E p \in Payload : PushBegin(t, p)
           \/ PushLoad(t) \/ PopLoad(t)
           \/ PushTest(t) \/ PopTest(t)
           \/ /\ UNCHANGED <<sequence, payload, enqueue, dequeue, value, left>>
              /\ \/ /\ at[t] = "push_claim"
                    /\ position' = [position EXCEPT ![t] = enqueue]
                    /\ at' = [at EXCEPT ![t] = "push_test"]
                 \/ /\ at[t] = "pop_claim"
                    /\ position' = [position EXCEPT ![t] = dequeue]
                    /\ at' = [at EXCEPT ![t] = "pop_test"]
    PROVE  Cells' = Cells
  <1>1. /\ UNCHANGED <<sequence, payload, enqueue, dequeue>>
        /\ at[t] \notin {"push_fill", "pop_empty"} /\ at' = [at EXCEPT ![t] = at'[t]]
        /\ at'[t] \notin {"push_fill", "pop_empty"}
        /\ \A u \in Thread : u # t => position'[u] = position[u] /\ value'[u] = value[u]
    BY DEF PopBegin, PushBegin, PushLoad, PopLoad, PushTest, PopTest, Proceed, Return, IInv, TypeOK
  <1>2. /\ Fillers' = Fillers /\ Emptiers' = Emptiers
        /\ \A u \in Fillers \cup Emptiers : u \in Thread /\ u # t
    BY <1>1 DEF Fillers, Emptiers, IInv, TypeOK
  <1> QED BY <1>1, <1>2, CellsKept

(* Every step claims or completes a cell, or leaves the ring as it is.     *)
LEMMA RingStep ==
    RingAssumption /\ IInv /\ IInv' /\ [Next]_vars => Ring!Next \/ Cells' = Cells
  <1> SUFFICES ASSUME RingAssumption, IInv, IInv', [Next]_vars PROVE Ring!Next \/ Cells' = Cells
    OBVIOUS
  <1>1. CASE UNCHANGED vars
    <2>1. Fillers' = Fillers /\ Emptiers' = Emptiers
      BY <1>1 DEF vars, Fillers, Emptiers
    <2> QED BY <1>1, <2>1, CellsKept DEF vars
  <1>2. CASE Next
    BY <1>2, Steps, QuietStep, RingFill, RingClaimPush, RingClaimPop, RingEmpty
  <1> QED BY <1>1, <1>2

(* A push that gives up found the cell of a whole lap ago not vacated.     *)
LEMMA PushRefusal ==
    ASSUME RingAssumption, IInv, NEW t \in Thread, PushTest(t), at'[t] = "idle"
    PROVE  ~Ring!CanPush
  <1>1. at[t] = "push_test"
    BY DEF PushTest
  <1>2. /\ Stamp(At(t)) \in Int /\ At(t) \in Nat /\ First <= At(t) /\ At(t) <= Pushed
        /\ Difference(sequence[SlotOf(position[t])], position[t]) = Stamp(At(t)) - At(t)
    BY <1>1, PushJudged
  <1>3. Stamp(At(t)) - At(t) < 0
    BY <1>2 DEF PushTest, Proceed, IInv, TypeOK
  <1>4. WindowFacts /\ CellsFacts
    BY Window, CellsAre
  <1>5. PICK q \in Lap : /\ q \in Int /\ Stamp(q) = Stamp(At(t)) /\ CellInv(q)
                         /\ At(t) < Pushed => q = At(t) \/ q >= At(t) + Capacity
                         /\ At(t) = Pushed => q = At(t) - Capacity
    BY <1>2, Holder
  <1>6. Capacity \in Nat /\ Capacity >= 2 /\ Pushed \in Nat /\ Popped \in Nat /\ Oldest \in Nat
        /\ Size = Pushed - Oldest /\ Oldest <= Popped /\ Size \in 0 .. Capacity
    BY <1>4, Constants DEF WindowFacts
  <1>7. At(t) = Pushed /\ q = Pushed - Capacity
    <2>1. Stamp(q) >= q
      BY <1>5, <1>6 DEF CellInv
    <2> QED BY <1>2, <1>3, <1>5, <1>6, <2>1
  <1>8. q >= Popped \/ \E u \in Emptiers : At(u) = q
    BY <1>3, <1>5, <1>6, <1>7, <1>2 DEF CellInv
  <1>9. Oldest <= q
    <2>1. CASE q >= Popped
      BY <1>5, <1>6, <2>1
    <2>2. CASE \E u \in Emptiers : At(u) = q
      BY <1>4, <2>2 DEF WindowFacts
    <2> QED BY <1>8, <2>1, <2>2
  <1>10. Size = Capacity
    BY <1>5, <1>6, <1>7, <1>9
  <1>11. ~(Len(Cells) < Capacity)
    BY <1>4, <1>6, <1>10 DEF CellsFacts
  <1> QED BY <1>11 DEF Ring!CanPush, Cells

(* A pop that gives up found nothing, or the next cell still being filled. *)
LEMMA PopRefusal ==
    ASSUME RingAssumption, IInv, NEW t \in Thread, PopTest(t), at'[t] = "idle"
    PROVE  ~Ring!CanPop
  <1>1. at[t] = "pop_test"
    BY DEF PopTest
  <1>2. /\ Stamp(At(t)) \in Int /\ At(t) \in Nat /\ At(t) <= Popped
        /\ Difference(sequence[SlotOf(position[t])], Wrap(position[t] + 1)) = Stamp(At(t)) - (At(t) + 1)
    BY <1>1, PopJudged
  <1>3. Stamp(At(t)) - (At(t) + 1) < 0
    BY <1>2 DEF PopTest, Proceed, IInv, TypeOK
  <1>4. WindowFacts /\ CellsFacts /\ ContentFacts
    BY Window, CellsAre, Contents
  <1>5. Capacity \in Nat /\ Capacity >= 2 /\ Pushed \in Nat /\ Popped \in Nat /\ Oldest \in Nat
        /\ Size = Pushed - Oldest /\ Oldest <= Popped /\ Popped <= Pushed /\ Size \in Nat
        /\ DOMAIN Cells = 1 .. Size
    BY <1>4, Constants DEF WindowFacts, CellsFacts
  <1>6. At(t) <= Pushed
    BY <1>2, <1>5
  <1>7. PICK q \in Lap : /\ q \in Int /\ Stamp(q) = Stamp(At(t)) /\ CellInv(q)
                         /\ At(t) < Pushed => q = At(t) \/ q >= At(t) + Capacity
                         /\ At(t) = Pushed => q = At(t) - Capacity
    BY <1>2, <1>6, Holder
  <1>8. At(t) = Popped
    <2>1. Stamp(q) >= q
      BY <1>5, <1>7 DEF CellInv
    <2> QED BY <1>2, <1>3, <1>5, <1>7, <2>1 DEF CellInv
  <1>9. \A j \in Ring!Waiting :
            /\ j \in 1 .. Size /\ Oldest + j - 1 >= Popped
            /\ Cells[j] = Content(Oldest + j - 1)
    <2> TAKE j \in Ring!Waiting
    <2>1. j \in 1 .. Size /\ (Cells[j].state = "filling" \/ Cells[j].state = "full")
      BY <1>5 DEF Ring!Waiting, Ring!InState, Cells
    <2>2. PICK r \in Oldest .. Pushed - 1 : r = Oldest + j - 1 /\ r - Oldest + 1 = j
      BY <1>5, <2>1
    <2>3. Cells[j] = Content(r) /\ Content(r) = [item |-> Content(r).item, state |-> StateOf(r)]
      BY <1>4, <2>2 DEF CellsFacts, ContentFacts
    <2>4. Cells[j].state = StateOf(r)
      <3>1. PICK x : x = Content(r).item
        OBVIOUS
      <3>2. Cells[j] = [item |-> x, state |-> StateOf(r)]
        BY <2>3, <3>1
      <3> QED BY <3>2
    <2>5. (\E u \in Fillers : At(u) = r) \/ r >= Popped
      BY <2>1, <2>4 DEF StateOf
    <2>6. r >= Popped
      BY <1>4, <2>5 DEF WindowFacts
    <2> QED BY <2>1, <2>2, <2>3, <2>6
  <1>10. SUFFICES ASSUME Ring!CanPop PROVE FALSE
    OBVIOUS
  <1>11. Ring!Waiting # {} /\ Ring!Min(Ring!Waiting) \in Ring!InState("full")
    BY <1>10 DEF Ring!CanPop
  <1>12. CASE Popped = Pushed
    <2>1. PICK j \in Ring!Waiting : TRUE
      BY <1>11
    <2> QED BY <1>5, <1>9, <1>12, <2>1
  <1>13. CASE Popped < Pushed
    <2>1. q = Popped /\ Stamp(q) = q
      <3>1. Stamp(q) >= q
        BY <1>5, <1>7 DEF CellInv
      <3> QED BY <1>2, <1>3, <1>5, <1>7, <1>8, <1>13, <3>1
    <2>2. PICK u \in Fillers : At(u) = q
      BY <1>5, <1>7, <2>1 DEF CellInv
    <2>3. q \in Oldest .. Pushed - 1
      BY <1>5, <1>13, <2>1
    <2>4. PICK k \in 1 .. Size : k = q - Oldest + 1
      BY <1>5, <2>3
    <2>5. Cells[k].state = "filling"
      <3>1. StateOf(q) = "filling"
        BY <2>2 DEF StateOf
      <3>2. Cells[k] = Content(q) /\ Content(q) = [item |-> Content(q).item, state |-> StateOf(q)]
        BY <1>4, <2>3, <2>4 DEF CellsFacts, ContentFacts
      <3>3. PICK x : x = Content(q).item
        OBVIOUS
      <3>4. Cells[k] = [item |-> x, state |-> "filling"]
        BY <3>1, <3>2, <3>3
      <3> QED BY <3>4
    <2>6. k \in Ring!Waiting
      BY <1>5, <2>5 DEF Ring!Waiting, Ring!InState, Cells
    <2>7. \A j \in Ring!Waiting : k <= j
      BY <1>5, <1>9, <2>1, <2>4
    <2>8. Ring!Min(Ring!Waiting) = k
      <3>1. Ring!Waiting \subseteq Int
        BY <1>5, <1>9
      <3> HIDE DEF Ring!Waiting
      <3> QED BY <2>6, <2>7, <3>1, LeastIs
    <2>9. k \notin Ring!InState("full")
      BY <2>5 DEF Ring!InState, Cells
    <2> QED BY <1>11, <2>8, <2>9
  <1> QED BY <1>5, <1>12, <1>13

LEMMA RefusalStep ==
    RingAssumption /\ IInv /\ [Next]_vars =>
        [\A t \in Thread :
            /\ at[t] = "push_test" /\ at'[t] = "idle" => ~Ring!CanPush
            /\ at[t] = "pop_test" /\ at'[t] = "idle" => ~Ring!CanPop]_vars
  <1> SUFFICES ASSUME RingAssumption, IInv, Next, NEW t \in Thread,
                      at[t] \in {"push_test", "pop_test"}, at'[t] = "idle"
               PROVE  /\ at[t] = "push_test" => ~Ring!CanPush
                      /\ at[t] = "pop_test" => ~Ring!CanPop
    OBVIOUS
  <1>1. PICK u \in Thread :
            \/ \E p \in Payload : PushBegin(u, p)
            \/ PushLoad(u) \/ PushTest(u) \/ PushClaim(u) \/ PushFill(u)
            \/ PopBegin(u)
            \/ PopLoad(u) \/ PopTest(u) \/ PopClaim(u) \/ PopEmpty(u)
    BY DEF Next
  <1>2. u = t
    BY <1>1 DEF PushBegin, PushLoad, PushTest, PushClaim, PushFill, PopBegin, PopLoad, PopTest,
                PopClaim, PopEmpty, Proceed, Return, IInv, TypeOK
  <1>3. PushTest(t) \/ PopTest(t)
    BY <1>1, <1>2 DEF PushBegin, PushLoad, PushClaim, PushFill, PopBegin, PopLoad, PopClaim, PopEmpty
  <1>4. (PushTest(t) => at[t] = "push_test") /\ (PopTest(t) => at[t] = "pop_test")
    BY DEF PushTest, PopTest
  <1> QED BY <1>3, <1>4, PushRefusal, PopRefusal
-----------------------------------------------------------------------------
(* The invariant, in offsets from the origin, holds in every reachable     *)
(* state of the ring.                                                      *)
THEOREM RingInvariance ==
    ASSUME RingAssumption
    PROVE  Spec => []IInv
  <1>1. Init => IInv
    BY InitInvariant
  <1>2. IInv /\ [Next]_vars => IInv'
    BY StepInvariant
  <1> QED BY <1>1, <1>2, PTL DEF Spec

(* A payload is in the hands of one thread at a time, and the positions    *)
(* keep their order and their distance, whatever the interleaving.         *)
THEOREM RingIsSafe ==
    ASSUME RingAssumption
    PROVE  Spec => [](TypeOK /\ SlotsAreExclusive /\ PositionsValid)
  <1>1. IInv => TypeOK /\ SlotsAreExclusive /\ PositionsValid
    BY InvariantIsSafe
  <1> QED BY <1>1, RingInvariance, PTL

(* TMpmcIndexRing is a bounded FIFO whose cells are claimed in order.      *)
THEOREM RingIsClaimRing ==
    ASSUME RingAssumption
    PROVE  Spec => IsClaimRing
  <1>1. Init => Ring!Init
    BY RingInit
  <1>2. IInv /\ IInv' /\ [Next]_vars =>
            [Ring!Next]_([k \in 1 .. Size |-> Cell(Wrap(enqueue - Size + k - 1))])
    BY RingStep DEF Cells
  <1> QED BY <1>1, <1>2, RingInvariance, PTL DEF Spec, IsClaimRing, Ring!Spec

(* What push() and pop() refuse could not have been admitted.              *)
THEOREM RingRefusesJustly ==
    ASSUME RingAssumption
    PROVE  Spec => RefusalsAreJust
  <1>1. IInv /\ [Next]_vars =>
            [\A t \in Thread :
                /\ at[t] = "push_test" /\ at'[t] = "idle" => ~Ring!CanPush
                /\ at[t] = "pop_test" /\ at'[t] = "idle" => ~Ring!CanPop]_vars
    BY RefusalStep
  <1> QED BY <1>1, RingInvariance, PTL DEF Spec, RefusalsAreJust
=============================================================================

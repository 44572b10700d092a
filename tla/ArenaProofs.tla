------------------------------ MODULE ArenaProofs ------------------------------
(***************************************************************************)
(* Theorems about TMpmcArena, for any finite sets of producers and of      *)
(* consumers and any capacity, with and without a shutdown.                *)
(***************************************************************************)
EXTENDS TMpmcArena, FiniteSetTheorems, FunctionTheorems, SequenceTheorems, WellFoundedInduction, TLAPS

(***************************************************************************)
(* Rings.  At most one cell of a window that is not vacated has a given    *)
(* item, so that a window says for each item at which stage it is, if at   *)
(* any.                                                                    *)
(***************************************************************************)
Stages == {"filling", "full", "emptying"}
RingCell == [item : Index, state : Stages \cup {"vacated"}]

Ring(cells) ==
    /\ cells \in Seq(RingCell) /\ Len(cells) <= Capacity
    /\ \A k, l \in DOMAIN cells :
         /\ cells[k].state # "vacated" /\ cells[l].state # "vacated"
         /\ cells[k].item = cells[l].item
         => k = l

In(cells, i, stage) == \E k \in DOMAIN cells : cells[k].item = i /\ cells[k].state = stage

(* Item i is at the stage now, or gone from the ring; the others are where *)
(* they were.                                                              *)
Moved(cells, next, i, stage) ==
    \A j \in Index, s \in Stages : In(next, j, s) <=> IF j = i THEN s = stage ELSE In(cells, j, s)

LEMMA LeastExists ==
    ASSUME NEW S, S \subseteq Nat, S # {}
    PROVE  /\ Supplier!Min(S) \in S
           /\ \A n \in S : Supplier!Min(S) <= n
  <1>1. \E x \in S : \A y \in S : ~(<<y, x>> \in OpToRel(<, Nat))
    BY NatLessThanWellFounded, WFMin
  <1>2. \E x \in S : \A y \in S : x <= y
    <2>1. PICK x \in S : \A y \in S : ~(<<y, x>> \in OpToRel(<, Nat))
      BY <1>1
    <2>2. ASSUME NEW y \in S PROVE x <= y
      <3>1. y \in Nat /\ x \in Nat
        OBVIOUS
      <3>2. ~(y < x)
        BY <2>1, <3>1 DEF OpToRel
      <3> QED BY <3>1, <3>2
    <2> QED BY <2>2
  <1> QED BY <1>2 DEF Supplier!Min

(* An item that enters a ring.                                             *)
LEMMA RingPush ==
    ASSUME NEW cells, Ring(cells), Len(cells) < Capacity, Capacity \in Nat,
           NEW i \in Index, \A s \in Stages : ~In(cells, i, s),
           NEW next, next = Append(cells, [item |-> i, state |-> "filling"])
    PROVE  Ring(next) /\ Moved(cells, next, i, "filling")
  <1>1. /\ cells \in Seq(RingCell) /\ next \in Seq(RingCell) /\ Len(next) = Len(cells) + 1
        /\ Len(cells) \in Nat
        /\ \A k \in 1 .. Len(cells) : next[k] = cells[k]
        /\ next[Len(cells) + 1] = [item |-> i, state |-> "filling"]
    BY DEF Ring, RingCell, Stages
  <1>2. DOMAIN cells = 1 .. Len(cells) /\ DOMAIN next = 1 .. Len(cells) + 1
    BY <1>1
  <1>3. \A k \in DOMAIN cells : cells[k].state # "vacated" => cells[k].item # i
    <2>1. \A k \in DOMAIN cells : cells[k] \in RingCell
      BY <1>1, <1>2
    <2>2. \A k \in DOMAIN cells : cells[k].state \in Stages \cup {"vacated"}
      BY <2>1 DEF RingCell
    <2> QED BY <2>2 DEF In
  <1>4. Ring(next)
    <2>1. ASSUME NEW k \in DOMAIN next, NEW l \in DOMAIN next,
                 next[k].state # "vacated", next[l].state # "vacated", next[k].item = next[l].item
          PROVE  k = l
      <3>1. CASE k \in DOMAIN cells /\ l \in DOMAIN cells
        BY <1>1, <1>2, <2>1, <3>1 DEF Ring
      <3>2. CASE k = Len(cells) + 1 \/ l = Len(cells) + 1
        BY <1>1, <1>2, <1>3, <2>1, <3>2
      <3> QED BY <1>1, <1>2, <3>1, <3>2
    <2> QED BY <1>1, <2>1 DEF Ring
  <1>5. Moved(cells, next, i, "filling")
    <2>1. ASSUME NEW j \in Index, NEW s \in Stages
          PROVE  In(next, j, s) <=> IF j = i THEN s = "filling" ELSE In(cells, j, s)
      <3>1. CASE j = i
        <4>1. In(next, j, "filling")
          BY <1>1, <1>2, <3>1 DEF In
        <4>2. ASSUME In(next, j, s) PROVE s = "filling"
          BY <1>1, <1>2, <1>3, <3>1, <4>2 DEF In, Stages
        <4> QED BY <3>1, <4>1, <4>2
      <3>2. CASE j # i
        BY <1>1, <1>2, <3>2 DEF In
      <3> QED BY <3>1, <3>2
    <2> QED BY <2>1 DEF Moved
  <1> QED BY <1>4, <1>5

(* An item that goes to another stage, or is taken out.                    *)
LEMMA RingSet ==
    ASSUME NEW cells, Ring(cells), NEW k \in DOMAIN cells, cells[k].state \in Stages,
           NEW s \in Stages \cup {"vacated"},
           NEW next, next = [cells EXCEPT ![k].state = s]
    PROVE  Ring(next) /\ Moved(cells, next, cells[k].item, s)
  <1>1. /\ cells \in Seq(RingCell) /\ next \in Seq(RingCell)
        /\ DOMAIN next = DOMAIN cells /\ Len(next) = Len(cells)
        /\ \A l \in DOMAIN cells : next[l].item = cells[l].item
        /\ \A l \in DOMAIN cells : next[l].state = IF l = k THEN s ELSE cells[l].state
    <2>1. cells \in [1 .. Len(cells) -> RingCell] /\ Len(cells) \in Nat
      BY DEF Ring
    <2>2. next \in [1 .. Len(cells) -> RingCell]
      BY <2>1 DEF RingCell
    <2>3. next \in Seq(RingCell) /\ Len(next) = Len(cells)
      BY <2>1, <2>2
    <2> QED BY <2>1, <2>2, <2>3 DEF Ring, RingCell
  <1>2. Ring(next)
    BY <1>1 DEF Ring, Stages
  <1>3. Moved(cells, next, cells[k].item, s)
    <2>1. ASSUME NEW j \in Index, NEW r \in Stages
          PROVE  In(next, j, r) <=> IF j = cells[k].item THEN r = s ELSE In(cells, j, r)
      <3>1. CASE j = cells[k].item
        <4>1. r = s => In(next, j, r)
          BY <1>1, <3>1 DEF In
        <4>2. ASSUME In(next, j, r) PROVE r = s
          <5>1. PICK l \in DOMAIN cells : next[l].item = j /\ next[l].state = r
            BY <1>1, <4>2 DEF In
          <5>2. l # k => cells[l].state = r /\ cells[l].item = cells[k].item
            BY <1>1, <3>1, <5>1
          <5>3. l = k
            BY <5>2 DEF Ring, Stages
          <5> QED BY <1>1, <5>1, <5>3
        <4> QED BY <3>1, <4>1, <4>2
      <3>2. CASE j # cells[k].item
        BY <1>1, <3>2 DEF In
      <3> QED BY <3>1, <3>2
    <2> QED BY <2>1 DEF Moved
  <1> QED BY <1>2, <1>3

(* Vacated cells that leave the window.                                    *)
LEMMA RingCut ==
    ASSUME NEW cells, Ring(cells), Capacity \in Nat, NEW first \in 1 .. Len(cells) + 1,
           \A k \in 1 .. first - 1 : cells[k].state = "vacated",
           NEW next, next = SubSeq(cells, first, Len(cells))
    PROVE  /\ Ring(next)
           /\ \A j \in Index, s \in Stages : In(next, j, s) <=> In(cells, j, s)
  <1> DEFINE n == Len(cells) - first + 1
  <1>1. /\ cells \in Seq(RingCell) /\ Len(cells) \in Nat /\ n \in Nat /\ first \in Nat
        /\ DOMAIN cells = 1 .. Len(cells)
    BY DEF Ring
  <1>2. \A k \in first .. Len(cells) : cells[k] \in RingCell
    BY <1>1
  <1>3. /\ next \in Seq(RingCell) /\ Len(next) = n
        /\ \A k \in 1 .. n : next[k] = cells[first + k - 1]
    BY <1>1, <1>2, SubSeqProperties
  <1>4. DOMAIN next = 1 .. n
    BY <1>3
  <1> HIDE DEF n
  <1>5. \A k \in DOMAIN next : first + k - 1 \in DOMAIN cells /\ next[k] = cells[first + k - 1]
    BY <1>1, <1>3, <1>4 DEF n
  <1>6. \A l \in DOMAIN cells : l >= first => l - first + 1 \in DOMAIN next /\ next[l - first + 1] = cells[l]
    <2>1. ASSUME NEW l \in DOMAIN cells, l >= first
          PROVE  l - first + 1 \in DOMAIN next /\ next[l - first + 1] = cells[l]
      <3>1. l - first + 1 \in 1 .. n /\ first + (l - first + 1) - 1 = l
        BY <1>1, <2>1 DEF n
      <3> QED BY <1>3, <1>4, <3>1
    <2> QED BY <2>1
  <1>7. Ring(next)
    <2>1. Len(next) <= Capacity
      BY <1>1, <1>3 DEF n, Ring
    <2>2. ASSUME NEW k \in DOMAIN next, NEW l \in DOMAIN next,
                 next[k].state # "vacated", next[l].state # "vacated", next[k].item = next[l].item
          PROVE  k = l
      <3>1. first + k - 1 = first + l - 1
        BY <1>5, <2>2 DEF Ring
      <3> QED BY <1>1, <1>4, <3>1
    <2> QED BY <1>3, <2>1, <2>2 DEF Ring
  <1>8. ASSUME NEW j \in Index, NEW s \in Stages PROVE In(next, j, s) <=> In(cells, j, s)
    <2>1. In(next, j, s) => In(cells, j, s)
      BY <1>5 DEF In
    <2>2. ASSUME NEW l \in DOMAIN cells, cells[l].item = j, cells[l].state = s PROVE In(next, j, s)
      <3>1. l >= first
        BY <1>1, <2>2 DEF Stages
      <3> QED BY <1>6, <2>2, <3>1 DEF In
    <2> QED BY <2>1, <2>2 DEF In
  <1> QED BY <1>7, <1>8

(***************************************************************************)
(* What each operation of the supplier ring does with its item.            *)
(***************************************************************************)
LEMMA SupplierPush ==
    ASSUME Ring(supplier), Capacity \in Nat, NEW i \in Index, \A s \in Stages : ~In(supplier, i, s),
           Supplier!ClaimPush(i)
    PROVE  Ring(supplier') /\ Moved(supplier, supplier', i, "filling")
  <1>1. Len(supplier) < Capacity /\ supplier' = Append(supplier, [item |-> i, state |-> "filling"])
    BY DEF Supplier!ClaimPush, Supplier!CanPush
  <1> QED BY <1>1, RingPush

LEMMA SupplierPushed ==
    ASSUME Ring(supplier), NEW i, In(supplier, i, "filling"),
           Supplier!CompletePush(CellOf(supplier, "filling", i))
    PROVE  Ring(supplier') /\ Moved(supplier, supplier', i, "full")
  <1> DEFINE k == CellOf(supplier, "filling", i)
  <1>1. k \in DOMAIN supplier /\ supplier[k].state = "filling" /\ supplier[k].item = i
    BY DEF CellOf, In
  <1>2. supplier' = [supplier EXCEPT ![k].state = "full"]
    BY DEF Supplier!CompletePush, Supplier!WithState
  <1> HIDE DEF k
  <1>3. "filling" \in Stages /\ "full" \in Stages \cup {"vacated"}
    BY DEF Stages
  <1> QED BY <1>1, <1>2, <1>3, RingSet

LEMMA SupplierPop ==
    ASSUME Ring(supplier), Supplier!ClaimPop
    PROVE  LET i == supplier[Supplier!Front].item
           IN  /\ i \in Index /\ In(supplier, i, "full")
               /\ Ring(supplier') /\ Moved(supplier, supplier', i, "emptying")
  <1> DEFINE k == Supplier!Front
  <1>1. k \in DOMAIN supplier /\ supplier[k].state = "full"
    BY DEF Supplier!ClaimPop, Supplier!CanPop, Supplier!Front, Supplier!InState
  <1>2. supplier' = [supplier EXCEPT ![k].state = "emptying"]
    BY DEF Supplier!ClaimPop, Supplier!WithState
  <1> HIDE DEF k
  <1>3. "full" \in Stages /\ "emptying" \in Stages \cup {"vacated"}
    BY DEF Stages
  <1>4. Ring(supplier') /\ Moved(supplier, supplier', supplier[k].item, "emptying")
    BY <1>1, <1>2, <1>3, RingSet
  <1>5. supplier[k] \in RingCell
    BY <1>1 DEF Ring
  <1>6. supplier[k].item \in Index /\ In(supplier, supplier[k].item, "full")
    BY <1>1, <1>5 DEF In, RingCell
  <1> QED BY <1>4, <1>6 DEF k

LEMMA SupplierPopped ==
    ASSUME Ring(supplier), Capacity \in Nat, NEW i, In(supplier, i, "emptying"),
           Supplier!CompletePop(CellOf(supplier, "emptying", i))
    PROVE  Ring(supplier') /\ Moved(supplier, supplier', i, "vacated")
  <1> DEFINE k == CellOf(supplier, "emptying", i)
             left == DOMAIN supplier \ (Supplier!InState("vacated") \cup {k})
             first == IF left = {} THEN Len(supplier) + 1 ELSE Supplier!Min(left)
             marked == [supplier EXCEPT ![k].state = "vacated"]
  <1>1. k \in DOMAIN supplier /\ supplier[k].state = "emptying" /\ supplier[k].item = i
    BY DEF CellOf, In
  <1>2. supplier' = SubSeq(marked, first, Len(supplier))
    BY DEF Supplier!CompletePop, Supplier!WithState
  <1>3. "emptying" \in Stages /\ "vacated" \in Stages \cup {"vacated"}
    BY DEF Stages
  <1>4. supplier \in Seq(RingCell) /\ Len(supplier) \in Nat /\ DOMAIN supplier = 1 .. Len(supplier)
    BY DEF Ring
  <1>5. Len(marked) = Len(supplier) /\ DOMAIN marked = DOMAIN supplier
    <2>1. marked \in Seq(RingCell)
      <3>1. Ring(marked)
        BY <1>1, <1>3, RingSet
      <3> QED BY <3>1 DEF Ring
    <2>2. DOMAIN marked = DOMAIN supplier
      OBVIOUS
    <2>3. DOMAIN marked = 1 .. Len(marked) /\ Len(marked) \in Nat
      BY <2>1
    <2> QED BY <1>4, <2>2, <2>3
  <1>6. first \in 1 .. Len(supplier) + 1 /\ \A l \in 1 .. first - 1 : l \notin left
    <2>1. CASE left = {}
      BY <1>4, <2>1
    <2>2. CASE left # {}
      <3>1. left \subseteq Nat /\ left \subseteq 1 .. Len(supplier)
        BY <1>4
      <3> HIDE DEF left
      <3>2. Supplier!Min(left) \in left /\ \A l \in left : Supplier!Min(left) <= l
        BY <2>2, <3>1, LeastExists
      <3>3. first = Supplier!Min(left)
        BY <2>2 DEF Supplier!Min, Populated!Min
      <3>4. first \in left /\ first \in 1 .. Len(supplier) /\ \A l \in left : first <= l
        BY <3>1, <3>2, <3>3
      <3>5. left \subseteq Int
        BY <3>1
      <3> HIDE DEF first
      <3>6. ASSUME NEW l \in 1 .. first - 1 PROVE l \notin left
        <4>1. first \in Int /\ l \in Int /\ l < first
          BY <1>4, <3>4
        <4> QED BY <3>4, <3>5, <4>1
      <3> QED BY <1>4, <3>4, <3>6
    <2> QED BY <2>1, <2>2
  <1>7. \A l \in 1 .. first - 1 : marked[l].state = "vacated"
    <2>1. ASSUME NEW l \in 1 .. first - 1 PROVE marked[l].state = "vacated"
      <3>1. l \in DOMAIN supplier /\ l \notin left
        <4> HIDE DEF first, left
        <4> QED BY <1>4, <1>6, <2>1
      <3>2. CASE l = k
        <4> HIDE DEF k, left, first
        <4> QED BY <1>1, <1>4, <3>2 DEF RingCell
      <3>3. CASE l # k
        BY <3>1, <3>3 DEF Supplier!InState
      <3> QED BY <3>2, <3>3
    <2> QED BY <2>1
  <1>8. Ring(marked) /\ Moved(supplier, marked, i, "vacated")
    <2> HIDE DEF k
    <2> QED BY <1>1, <1>3, RingSet
  <1> HIDE DEF k, left, first, marked
  <1>9. /\ Ring(supplier')
        /\ \A j \in Index, s \in Stages : In(supplier', j, s) <=> In(marked, j, s)
    BY <1>2, <1>5, <1>6, <1>7, <1>8, RingCut
  <1> QED BY <1>8, <1>9 DEF Moved

(***************************************************************************)
(* What each operation of the populated ring does with its item.           *)
(***************************************************************************)
LEMMA PopulatedPush ==
    ASSUME Ring(populated), Capacity \in Nat, NEW i \in Index, \A s \in Stages : ~In(populated, i, s),
           Populated!ClaimPush(i)
    PROVE  Ring(populated') /\ Moved(populated, populated', i, "filling")
  <1>1. Len(populated) < Capacity /\ populated' = Append(populated, [item |-> i, state |-> "filling"])
    BY DEF Populated!ClaimPush, Populated!CanPush
  <1> QED BY <1>1, RingPush

LEMMA PopulatedPushed ==
    ASSUME Ring(populated), NEW i, In(populated, i, "filling"),
           Populated!CompletePush(CellOf(populated, "filling", i))
    PROVE  Ring(populated') /\ Moved(populated, populated', i, "full")
  <1> DEFINE k == CellOf(populated, "filling", i)
  <1>1. k \in DOMAIN populated /\ populated[k].state = "filling" /\ populated[k].item = i
    BY DEF CellOf, In
  <1>2. populated' = [populated EXCEPT ![k].state = "full"]
    BY DEF Populated!CompletePush, Populated!WithState
  <1> HIDE DEF k
  <1>3. "filling" \in Stages /\ "full" \in Stages \cup {"vacated"}
    BY DEF Stages
  <1> QED BY <1>1, <1>2, <1>3, RingSet

LEMMA PopulatedPop ==
    ASSUME Ring(populated), Populated!ClaimPop
    PROVE  LET i == populated[Populated!Front].item
           IN  /\ i \in Index /\ In(populated, i, "full")
               /\ Ring(populated') /\ Moved(populated, populated', i, "emptying")
  <1> DEFINE k == Populated!Front
  <1>1. k \in DOMAIN populated /\ populated[k].state = "full"
    BY DEF Populated!ClaimPop, Populated!CanPop, Populated!Front, Populated!InState
  <1>2. populated' = [populated EXCEPT ![k].state = "emptying"]
    BY DEF Populated!ClaimPop, Populated!WithState
  <1> HIDE DEF k
  <1>3. "full" \in Stages /\ "emptying" \in Stages \cup {"vacated"}
    BY DEF Stages
  <1>4. Ring(populated') /\ Moved(populated, populated', populated[k].item, "emptying")
    BY <1>1, <1>2, <1>3, RingSet
  <1>5. populated[k] \in RingCell
    BY <1>1 DEF Ring
  <1>6. populated[k].item \in Index /\ In(populated, populated[k].item, "full")
    BY <1>1, <1>5 DEF In, RingCell
  <1> QED BY <1>4, <1>6 DEF k

LEMMA PopulatedPopped ==
    ASSUME Ring(populated), Capacity \in Nat, NEW i, In(populated, i, "emptying"),
           Populated!CompletePop(CellOf(populated, "emptying", i))
    PROVE  Ring(populated') /\ Moved(populated, populated', i, "vacated")
  <1> DEFINE k == CellOf(populated, "emptying", i)
             left == DOMAIN populated \ (Populated!InState("vacated") \cup {k})
             first == IF left = {} THEN Len(populated) + 1 ELSE Populated!Min(left)
             marked == [populated EXCEPT ![k].state = "vacated"]
  <1>1. k \in DOMAIN populated /\ populated[k].state = "emptying" /\ populated[k].item = i
    BY DEF CellOf, In
  <1>2. populated' = SubSeq(marked, first, Len(populated))
    BY DEF Populated!CompletePop, Populated!WithState
  <1>3. "emptying" \in Stages /\ "vacated" \in Stages \cup {"vacated"}
    BY DEF Stages
  <1>4. populated \in Seq(RingCell) /\ Len(populated) \in Nat /\ DOMAIN populated = 1 .. Len(populated)
    BY DEF Ring
  <1>5. Len(marked) = Len(populated) /\ DOMAIN marked = DOMAIN populated
    <2>1. marked \in Seq(RingCell)
      <3>1. Ring(marked)
        BY <1>1, <1>3, RingSet
      <3> QED BY <3>1 DEF Ring
    <2>2. DOMAIN marked = DOMAIN populated
      OBVIOUS
    <2>3. DOMAIN marked = 1 .. Len(marked) /\ Len(marked) \in Nat
      BY <2>1
    <2> QED BY <1>4, <2>2, <2>3
  <1>6. first \in 1 .. Len(populated) + 1 /\ \A l \in 1 .. first - 1 : l \notin left
    <2>1. CASE left = {}
      BY <1>4, <2>1
    <2>2. CASE left # {}
      <3>1. left \subseteq Nat /\ left \subseteq 1 .. Len(populated)
        BY <1>4
      <3> HIDE DEF left
      <3>2. Supplier!Min(left) \in left /\ \A l \in left : Supplier!Min(left) <= l
        BY <2>2, <3>1, LeastExists
      <3>3. first = Supplier!Min(left)
        BY <2>2 DEF Supplier!Min, Populated!Min
      <3>4. first \in left /\ first \in 1 .. Len(populated) /\ \A l \in left : first <= l
        BY <3>1, <3>2, <3>3
      <3>5. left \subseteq Int
        BY <3>1
      <3> HIDE DEF first
      <3>6. ASSUME NEW l \in 1 .. first - 1 PROVE l \notin left
        <4>1. first \in Int /\ l \in Int /\ l < first
          BY <1>4, <3>4
        <4> QED BY <3>4, <3>5, <4>1
      <3> QED BY <1>4, <3>4, <3>6
    <2> QED BY <2>1, <2>2
  <1>7. \A l \in 1 .. first - 1 : marked[l].state = "vacated"
    <2>1. ASSUME NEW l \in 1 .. first - 1 PROVE marked[l].state = "vacated"
      <3>1. l \in DOMAIN populated /\ l \notin left
        <4> HIDE DEF first, left
        <4> QED BY <1>4, <1>6, <2>1
      <3>2. CASE l = k
        <4> HIDE DEF k, left, first
        <4> QED BY <1>1, <1>4, <3>2 DEF RingCell
      <3>3. CASE l # k
        BY <3>1, <3>3 DEF Populated!InState
      <3> QED BY <3>2, <3>3
    <2> QED BY <2>1
  <1>8. Ring(marked) /\ Moved(populated, marked, i, "vacated")
    <2> HIDE DEF k
    <2> QED BY <1>1, <1>3, RingSet
  <1> HIDE DEF k, left, first, marked
  <1>9. /\ Ring(populated')
        /\ \A j \in Index, s \in Stages : In(populated', j, s) <=> In(marked, j, s)
    BY <1>2, <1>5, <1>6, <1>7, <1>8, RingCut
  <1> QED BY <1>8, <1>9 DEF Moved
-----------------------------------------------------------------------------
(***************************************************************************)
(* The invariant.  What a thread's step says of its index, the rings say   *)
(* too; an index has one place: it waits in one ring, or one thread has    *)
(* it, or it is lost.                                                      *)
(***************************************************************************)
ProducerSteps == {"idle", "reserve", "reserved", "count", "holding", "publish", "published"}
ConsumerSteps == {"idle", "acquire", "acquired", "holding", "recycle", "recycled", "uncount", "close"}
CloserSteps == {"idle", "closing", "close", "done"}
EmptyHanded == {"idle", "reserve", "acquire", "uncount", "close"}

ArenaTypes ==
    /\ Ring(supplier) /\ Ring(populated)
    /\ at \in [Thread \cup {Closer} -> ProducerSteps \cup ConsumerSteps \cup CloserSteps]
    /\ \A t \in Producer : at[t] \in ProducerSteps
    /\ \A t \in Consumer : at[t] \in ConsumerSteps
    /\ at[Closer] \in CloserSteps
    /\ index \in [Thread -> Index \cup {None}]
    /\ status \in {"open", "closing", "closed", "shutdown"}
    /\ lost \subseteq Index

(* Some thread has the index and is at one of the steps.                   *)
Has(i, steps) == \E t \in Thread : index[t] = i /\ at[t] \in steps
IsHad(i) == \E t \in Thread : index[t] = i

HoldersDiffer ==
    /\ \A t \in Thread : index[t] = None <=> at[t] \in EmptyHanded
    /\ \A t, u \in Thread : index[t] = index[u] /\ index[t] # None => t = u

RingsAgree ==
    \A i \in Index :
      /\ In(supplier, i, "filling") <=> Has(i, {"recycled"})
      /\ In(supplier, i, "emptying") <=> Has(i, {"reserved"})
      /\ In(populated, i, "filling") <=> Has(i, {"published"})
      /\ In(populated, i, "emptying") <=> Has(i, {"acquired"})

PlacesDiffer ==
    \A i \in Index :
      /\ In(supplier, i, "full") \/ In(populated, i, "full") \/ i \in lost \/ IsHad(i)
      /\ In(supplier, i, "full") => ~In(populated, i, "full") /\ i \notin lost /\ ~IsHad(i)
      /\ In(populated, i, "full") => i \notin lost /\ ~IsHad(i)
      /\ i \in lost => ~IsHad(i)

(* The count is of the indices that a reservation has counted and of the   *)
(* recycle() calls that have pushed theirs and not yet uncounted it.       *)
Reserving == {"reserved", "count"}
InSupplier(i) == In(supplier, i, "filling") \/ In(supplier, i, "full")
Counted == {i \in Index : ~InSupplier(i) /\ ~Has(i, Reserving)}
Uncounting == {t \in Thread : at[t] \in {"recycled", "uncount"}}
CountIsOfBoth == outstanding = Cardinality(Counted) + Cardinality(Uncounting)

Places == HoldersDiffer /\ RingsAgree /\ PlacesDiffer
ArenaInv == ArenaTypes /\ Places /\ CountIsOfBoth /\ NoMissedClose
-----------------------------------------------------------------------------
(* A step of thread t that moves no index but i, of which t is the only    *)
(* thread to know, keeps the places when i has a place afterwards.         *)
Elsewhere(i) ==
    \A j \in Index \ {i} :
      /\ \A s \in Stages : In(supplier, j, s)' <=> In(supplier, j, s)
      /\ \A s \in Stages : In(populated, j, s)' <=> In(populated, j, s)
      /\ j \in lost' <=> j \in lost

PlaceOf(i, t) ==
    /\ In(supplier, i, "filling") <=> index[t] = i /\ at[t] = "recycled"
    /\ In(supplier, i, "emptying") <=> index[t] = i /\ at[t] = "reserved"
    /\ In(populated, i, "filling") <=> index[t] = i /\ at[t] = "published"
    /\ In(populated, i, "emptying") <=> index[t] = i /\ at[t] = "acquired"
    /\ In(supplier, i, "full") \/ In(populated, i, "full") \/ i \in lost \/ index[t] = i
    /\ In(supplier, i, "full") => ~In(populated, i, "full") /\ i \notin lost /\ index[t] # i
    /\ In(populated, i, "full") => i \notin lost /\ index[t] # i
    /\ i \in lost => index[t] # i

LEMMA OneMoves ==
    ASSUME ArenaTypes, Places, NEW t \in Thread, NEW i \in Index, NEW x \in {i, None}, NEW s,
           at' = [at EXCEPT ![t] = s], index' = [index EXCEPT ![t] = x],
           index[t] \in {i, None}, index[t] = i \/ ~IsHad(i),
           x = None <=> s \in EmptyHanded,
           Elsewhere(i), PlaceOf(i, t)'
    PROVE  Places'
  <1>1. /\ \A u \in Thread : u # t => at'[u] = at[u] /\ index'[u] = index[u]
        /\ at'[t] = s /\ index'[t] = x
    BY DEF ArenaTypes
  <1>2. i # None /\ \A j \in Index : j # None
    <2>1. \A j \in Index : j # None
      BY DEF Index, None
    <2> QED BY <2>1
  <1>3. \A u \in Thread : u # t => index[u] # i
    BY <1>2 DEF Places, HoldersDiffer, IsHad
  <1>4. HoldersDiffer'
    BY <1>1, <1>2, <1>3 DEF Places, HoldersDiffer, None
  <1>5. \A steps : Has(i, steps)' <=> x = i /\ s \in steps
    BY <1>1, <1>3 DEF Has
  <1>6. IsHad(i)' <=> x = i
    BY <1>1, <1>3 DEF IsHad
  <1>7. \A j \in Index \ {i} : (\A steps : Has(j, steps)' <=> Has(j, steps)) /\ (IsHad(j)' <=> IsHad(j))
    BY <1>1, <1>2 DEF Has, IsHad
  <1>8. RingsAgree'
    <2>1. ASSUME NEW j \in Index \ {i}
          PROVE  /\ In(supplier, j, "filling")' <=> Has(j, {"recycled"})'
                 /\ In(supplier, j, "emptying")' <=> Has(j, {"reserved"})'
                 /\ In(populated, j, "filling")' <=> Has(j, {"published"})'
                 /\ In(populated, j, "emptying")' <=> Has(j, {"acquired"})'
      BY <1>7, <2>1 DEF Places, RingsAgree, Elsewhere, Stages
    <2>2. /\ In(supplier, i, "filling")' <=> Has(i, {"recycled"})'
          /\ In(supplier, i, "emptying")' <=> Has(i, {"reserved"})'
          /\ In(populated, i, "filling")' <=> Has(i, {"published"})'
          /\ In(populated, i, "emptying")' <=> Has(i, {"acquired"})'
      BY <1>1, <1>5 DEF PlaceOf
    <2> QED BY <2>1, <2>2 DEF RingsAgree
  <1>9. PlacesDiffer'
    <2> DEFINE Fine(j) ==
          /\ In(supplier, j, "full") \/ In(populated, j, "full") \/ j \in lost \/ IsHad(j)
          /\ In(supplier, j, "full") => ~In(populated, j, "full") /\ j \notin lost /\ ~IsHad(j)
          /\ In(populated, j, "full") => j \notin lost /\ ~IsHad(j)
          /\ j \in lost => ~IsHad(j)
    <2>1. ASSUME NEW j \in Index \ {i} PROVE Fine(j)'
      BY <1>7, <2>1 DEF Places, PlacesDiffer, Elsewhere, Stages
    <2>2. Fine(i)'
      BY <1>1, <1>6 DEF PlaceOf
    <2> HIDE DEF Fine
    <2>3. \A j \in Index : Fine(j)'
      BY <2>1, <2>2
    <2> QED BY <2>3 DEF Fine, PlacesDiffer
  <1> QED BY <1>4, <1>8, <1>9 DEF Places

(* A step of a thread with empty hands that leaves them empty.             *)
LEMMA EmptyMoves ==
    ASSUME ArenaTypes, Places, NEW t \in Thread, NEW s \in EmptyHanded,
           at' = [at EXCEPT ![t] = s], index[t] = None,
           UNCHANGED <<rings, index, lost>>
    PROVE  /\ Places' /\ UNCHANGED Counted
           /\ Uncounting' = IF s = "uncount" THEN Uncounting \cup {t} ELSE Uncounting \ {t}
  <1>1. /\ \A u \in Thread : u # t => at'[u] = at[u]
        /\ at'[t] = s /\ index' = index
    BY DEF ArenaTypes
  <1>2. \A j \in Index : j # None
    BY DEF Index, None
  <1>3. HoldersDiffer'
    BY <1>1 DEF Places, HoldersDiffer, None
  <1>4. \A j \in Index : (\A steps : Has(j, steps)' <=> Has(j, steps)) /\ (IsHad(j)' <=> IsHad(j))
    BY <1>1, <1>2 DEF Has, IsHad
  <1>5. RingsAgree'
    BY <1>4 DEF Places, RingsAgree, rings
  <1>6. PlacesDiffer'
    BY <1>4 DEF Places, PlacesDiffer, rings
  <1>7. UNCHANGED Counted
    BY <1>4 DEF Counted, InSupplier, rings
  <1>8. Uncounting' = IF s = "uncount" THEN Uncounting \cup {t} ELSE Uncounting \ {t}
    BY <1>1 DEF Uncounting, EmptyHanded
  <1> QED BY <1>3, <1>5, <1>6, <1>7, <1>8 DEF Places

(* What such a step does to what is counted.                               *)
CountsFollow(i, t) ==
    /\ i \in Counted <=> ~InSupplier(i) /\ ~(index[t] = i /\ at[t] \in Reserving)
    /\ Counted' = IF ~InSupplier(i)' /\ ~(index'[t] = i /\ at'[t] \in Reserving)
                  THEN Counted \cup {i} ELSE Counted \ {i}
    /\ t \in Uncounting <=> at[t] \in {"recycled", "uncount"}
    /\ Uncounting' = IF at'[t] \in {"recycled", "uncount"}
                     THEN Uncounting \cup {t} ELSE Uncounting \ {t}

LEMMA OneCounts ==
    ASSUME ArenaTypes, Places, NEW t \in Thread, NEW i \in Index, NEW x \in {i, None}, NEW s,
           at' = [at EXCEPT ![t] = s], index' = [index EXCEPT ![t] = x],
           index[t] \in {i, None}, index[t] = i \/ ~IsHad(i), Elsewhere(i)
    PROVE  CountsFollow(i, t)
  <1>1. /\ \A u \in Thread : u # t => at'[u] = at[u] /\ index'[u] = index[u]
        /\ at'[t] = s /\ index'[t] = x
    BY DEF ArenaTypes
  <1>2. \A j \in Index : j # None
    BY DEF Index, None
  <1>3. \A u \in Thread : u # t => index[u] # i
    BY <1>2 DEF Places, HoldersDiffer, IsHad
  <1>4. (Has(i, Reserving)' <=> x = i /\ s \in Reserving) /\ (Has(i, Reserving) <=> index[t] = i /\ at[t] \in Reserving)
    BY <1>1, <1>3 DEF Has, Reserving
  <1>5. \A j \in Index \ {i} : Has(j, Reserving)' <=> Has(j, Reserving)
    BY <1>1, <1>2 DEF Has, Reserving
  <1>6. \A j \in Index \ {i} : InSupplier(j)' <=> InSupplier(j)
    BY DEF Elsewhere, InSupplier, Stages
  <1>7. \A j \in Index \ {i} : j \in Counted' <=> j \in Counted
    BY <1>5, <1>6 DEF Counted
  <1>8. /\ i \in Counted <=> ~InSupplier(i) /\ ~(index[t] = i /\ at[t] \in Reserving)
        /\ i \in Counted' <=> ~InSupplier(i)' /\ ~(x = i /\ s \in Reserving)
    BY <1>4 DEF Counted
  <1>9. Counted \subseteq Index /\ Counted' \subseteq Index
    BY DEF Counted, Index
  <1>10. Uncounting' = IF s \in {"recycled", "uncount"} THEN Uncounting \cup {t} ELSE Uncounting \ {t}
    BY <1>1 DEF Uncounting, Thread
  <1> QED BY <1>1, <1>7, <1>8, <1>9, <1>10 DEF CountsFollow, Uncounting

-----------------------------------------------------------------------------
(* Each action of a thread keeps the types and the places, and all but three  *)
(* what is counted.                                                        *)
StepKeeps == ArenaTypes' /\ Places' /\ UNCHANGED <<Counted, Uncounting>>

LEMMA Threads ==
    ASSUME ArenaAssumption, NEW t \in Thread
    PROVE  Closer \notin Thread /\ (t \in Producer <=> t \notin Consumer) /\ Capacity \in Nat
  BY DEF ArenaAssumption, Thread

(* What an index in a thread's hands is not.                               *)
LEMMA HeldIsNowhere ==
    ASSUME ArenaTypes, Places, NEW t \in Thread, at[t] \notin EmptyHanded
    PROVE  /\ index[t] \in Index /\ index[t] \notin lost
           /\ ~In(supplier, index[t], "full") /\ ~In(populated, index[t], "full")
           /\ PlaceOf(index[t], t)
  <1>1. index[t] \in Index
    BY DEF ArenaTypes, Places, HoldersDiffer
  <1>2. \A u \in Thread : index[u] = index[t] => u = t
    BY <1>1 DEF Places, HoldersDiffer
  <1>3. IsHad(index[t]) /\ \A steps : Has(index[t], steps) <=> at[t] \in steps
    BY <1>2 DEF IsHad, Has
  <1> QED BY <1>1, <1>3 DEF Places, RingsAgree, PlacesDiffer, PlaceOf

(* What an index that waits in a ring is not.                              *)
LEMMA WaitingIsNowhere ==
    ASSUME Places, NEW i \in Index, In(supplier, i, "full") \/ In(populated, i, "full")
    PROVE  /\ ~IsHad(i) /\ i \notin lost
           /\ ~(In(supplier, i, "full") /\ In(populated, i, "full"))
           /\ \A s \in {"filling", "emptying"} : ~In(supplier, i, s) /\ ~In(populated, i, s)
  BY DEF Places, PlacesDiffer, RingsAgree, Has, IsHad

LEMMA ReserveCheckStep ==
    ASSUME ArenaAssumption, ArenaTypes, Places, NEW t \in Thread, ReserveCheck(t)
    PROVE  StepKeeps
  <1>1. /\ t \in Producer /\ at[t] = "idle" /\ at' = [at EXCEPT ![t] = "reserve"]
        /\ UNCHANGED <<rings, words, index, lost>>
    BY DEF ReserveCheck, Moves
  <1>2. ArenaTypes'
    BY <1>1, Threads DEF ArenaTypes, ProducerSteps, rings, words
  <1>3. Places' /\ UNCHANGED <<Counted, Uncounting>>
    BY <1>1, EmptyMoves DEF EmptyHanded, Places, HoldersDiffer, Uncounting
  <1> QED BY <1>2, <1>3 DEF StepKeeps

LEMMA ReserveClaimStep ==
    ASSUME ArenaAssumption, ArenaTypes, Places, NEW t \in Thread, ReserveClaim(t)
    PROVE  StepKeeps
  <1>1. at[t] = "reserve" /\ t \in Producer
    BY Threads DEF ReserveClaim, Moves, ArenaTypes, ConsumerSteps
  <1>2. ASSUME NEW i, i = supplier[Supplier!Front].item,
               at' = [at EXCEPT ![t] = "reserved"], index' = [index EXCEPT ![t] = i],
               Supplier!ClaimPop, UNCHANGED <<populated, words, lost>>
        PROVE  StepKeeps
    <2>1. i \in Index /\ In(supplier, i, "full") /\ Ring(supplier') /\ Moved(supplier, supplier', i, "emptying")
      BY <1>2, SupplierPop DEF ArenaTypes
    <2>2. ArenaTypes'
      BY <1>1, <1>2, <2>1, Threads DEF ArenaTypes, ProducerSteps, words
    <2>3. Elsewhere(i) /\ PlaceOf(i, t)'
      BY <1>2, <2>1, WaitingIsNowhere DEF Elsewhere, PlaceOf, Moved, Stages, ArenaTypes
    <2>4. index[t] = None /\ ~IsHad(i)
      BY <1>1, <2>1, WaitingIsNowhere DEF EmptyHanded, Places, HoldersDiffer
    <2>5. i # None
      BY <2>1 DEF Index, None
    <2>6. CountsFollow(i, t)
      BY <1>2, <2>1, <2>2, <2>3, <2>4, <2>5, OneCounts
    <2>7. Counted' = Counted /\ Uncounting' = Uncounting
      BY <1>1, <1>2, <2>1, <2>2, <2>3, <2>4, <2>5, <2>6 DEF CountsFollow, PlaceOf, InSupplier, Reserving, ArenaTypes
    <2> QED BY <1>2, <2>1, <2>2, <2>3, <2>4, <2>5, <2>7, OneMoves DEF StepKeeps, EmptyHanded
  <1>3. CASE at' = [at EXCEPT ![t] = "idle"] /\ UNCHANGED <<rings, words, index, lost>>
    <2>1. ArenaTypes'
      BY <1>1, <1>3, Threads DEF ArenaTypes, ProducerSteps, rings, words
    <2>2. Places' /\ UNCHANGED <<Counted, Uncounting>>
      BY <1>1, <1>3, EmptyMoves DEF EmptyHanded, Places, HoldersDiffer, Uncounting
    <2> QED BY <2>1, <2>2 DEF StepKeeps
  <1> QED BY <1>2, <1>3 DEF ReserveClaim, Moves

LEMMA ReserveCompleteStep ==
    ASSUME ArenaAssumption, ArenaTypes, Places, NEW t \in Thread, ReserveComplete(t)
    PROVE  StepKeeps
  <1>0. PICK i : i = index[t]
    OBVIOUS
  <1>1. /\ at[t] = "reserved" /\ at' = [at EXCEPT ![t] = "count"] /\ t \in Producer
        /\ Supplier!CompletePop(CellOf(supplier, "emptying", i))
        /\ UNCHANGED <<populated, words, index, lost>>
    BY <1>0, Threads DEF ReserveComplete, Moves, ArenaTypes, ConsumerSteps
  <1>2. i \in Index /\ PlaceOf(i, t)
    BY <1>0, <1>1, HeldIsNowhere DEF EmptyHanded
  <1>3. In(supplier, i, "emptying")
    BY <1>0, <1>1, <1>2 DEF PlaceOf
  <1>4. Ring(supplier') /\ Moved(supplier, supplier', i, "vacated")
    BY <1>0, <1>1, <1>3, SupplierPopped, Threads DEF ArenaTypes
  <1>5. ArenaTypes'
    BY <1>0, <1>1, <1>4, Threads DEF ArenaTypes, ProducerSteps, words
  <1>6. Elsewhere(i) /\ PlaceOf(i, t)'
    BY <1>0, <1>1, <1>2, <1>4 DEF Elsewhere, PlaceOf, Moved, Stages, ArenaTypes
  <1>7. index' = [index EXCEPT ![t] = i] /\ i # None
    BY <1>0, <1>1, <1>2 DEF ArenaTypes, Index, None
  <1>8. CountsFollow(i, t)
    BY <1>0, <1>1, <1>2, <1>5, <1>6, <1>7, OneCounts
  <1>9. Counted' = Counted /\ Uncounting' = Uncounting
    BY <1>0, <1>1, <1>2, <1>5, <1>6, <1>7, <1>8 DEF CountsFollow, PlaceOf, InSupplier, Reserving, ArenaTypes
  <1> QED BY <1>0, <1>1, <1>2, <1>5, <1>6, <1>7, <1>9, OneMoves DEF StepKeeps, EmptyHanded

LEMMA ReserveCountStep ==
    ASSUME ArenaAssumption, ArenaTypes, Places, NEW t \in Thread, ReserveCount(t)
    PROVE  /\ ArenaTypes' /\ Places'
           /\ index[t] \notin Counted
           /\ Counted' = Counted \cup {index[t]} /\ UNCHANGED Uncounting
  <1>0. PICK i : i = index[t]
    OBVIOUS
  <1>1. /\ at[t] = "count" /\ at' = [at EXCEPT ![t] = "holding"] /\ t \in Producer
        /\ UNCHANGED <<rings, status, index, lost>>
    BY <1>0, Threads DEF ReserveCount, Moves, ArenaTypes, ConsumerSteps
  <1>2. i \in Index /\ PlaceOf(i, t)
    BY <1>0, <1>1, HeldIsNowhere DEF EmptyHanded
  <1>3. ArenaTypes'
    BY <1>0, <1>1, Threads DEF ArenaTypes, ProducerSteps, rings
  <1>4. Elsewhere(i) /\ PlaceOf(i, t)'
    BY <1>0, <1>1, <1>2 DEF Elsewhere, PlaceOf, rings, ArenaTypes
  <1>5. index' = [index EXCEPT ![t] = i] /\ i # None
    BY <1>0, <1>1, <1>2 DEF ArenaTypes, Index, None
  <1>6. CountsFollow(i, t)
    BY <1>0, <1>1, <1>2, <1>3, <1>4, <1>5, OneCounts
  <1>7. Counted' = Counted \cup {i} /\ i \notin Counted /\ Uncounting' = Uncounting
    BY <1>0, <1>1, <1>2, <1>3, <1>4, <1>5, <1>6 DEF CountsFollow, PlaceOf, InSupplier, Reserving, ArenaTypes
  <1> QED BY <1>0, <1>1, <1>2, <1>3, <1>4, <1>5, <1>7, OneMoves DEF EmptyHanded

(* A completion that finds the transport shut: the index is lost.          *)
LEMMA DropKeeps ==
    ASSUME ArenaAssumption, ArenaTypes, Places, NEW t \in Thread, at[t] \notin EmptyHanded,
           at' = [at EXCEPT ![t] = "idle"], at[t] \in {"holding", "publish", "recycle"},
           Drops(t), UNCHANGED <<rings, words>>
    PROVE  StepKeeps
  <1>0. PICK i : i = index[t]
    OBVIOUS
  <1>1. i \in Index /\ PlaceOf(i, t) /\ i \notin lost
    BY <1>0, HeldIsNowhere
  <1>2. index' = [index EXCEPT ![t] = None] /\ lost' = lost \cup {i}
    BY <1>0 DEF Drops
  <1>3. ArenaTypes'
    BY <1>1, <1>2, Threads DEF ArenaTypes, ProducerSteps, ConsumerSteps, rings, words
  <1>4. i # None
    BY <1>1 DEF Index, None
  <1>5. Elsewhere(i)
    BY <1>2 DEF Elsewhere, rings
  <1>6. index'[t] = None
    BY <1>2 DEF ArenaTypes
  <1>7. PlaceOf(i, t)'
    BY <1>0, <1>1, <1>2, <1>4, <1>6 DEF PlaceOf, rings
  <1>8. CountsFollow(i, t)
    BY <1>0, <1>1, <1>2, <1>3, <1>5, <1>7, OneCounts
  <1>9. Counted' = Counted /\ Uncounting' = Uncounting
    BY <1>0, <1>1, <1>2, <1>3, <1>5, <1>7, <1>8 DEF CountsFollow, PlaceOf, InSupplier, Reserving, ArenaTypes
  <1> QED BY <1>0, <1>1, <1>2, <1>3, <1>5, <1>7, <1>9, OneMoves DEF StepKeeps, EmptyHanded

LEMMA PublishCheckStep ==
    ASSUME ArenaAssumption, ArenaTypes, Places, NEW t \in Thread, PublishCheck(t)
    PROVE  StepKeeps
  <1>0. PICK i : i = index[t]
    OBVIOUS
  <1>1. t \in Producer /\ at[t] = "holding" /\ UNCHANGED <<rings, words>>
    BY <1>0 DEF PublishCheck, Moves
  <1>2. CASE at' = [at EXCEPT ![t] = "idle"] /\ Drops(t)
    BY <1>0, <1>1, <1>2, DropKeeps DEF EmptyHanded
  <1>3. CASE at' = [at EXCEPT ![t] = "publish"] /\ UNCHANGED <<index, lost>>
    <2>1. i \in Index /\ PlaceOf(i, t)
      BY <1>0, <1>1, HeldIsNowhere DEF EmptyHanded
    <2>2. ArenaTypes'
      BY <1>0, <1>1, <1>3, Threads DEF ArenaTypes, ProducerSteps, rings, words
    <2>3. Elsewhere(i) /\ PlaceOf(i, t)'
      BY <1>0, <1>1, <1>3, <2>1 DEF Elsewhere, PlaceOf, rings, ArenaTypes
    <2>4. index' = [index EXCEPT ![t] = i] /\ i # None
      BY <1>0, <1>3, <2>1 DEF ArenaTypes, Index, None
    <2>5. CountsFollow(i, t)
      BY <1>0, <1>3, <2>1, <2>2, <2>3, <2>4, OneCounts
    <2>6. Counted' = Counted /\ Uncounting' = Uncounting
      BY <1>1, <1>0, <1>3, <2>1, <2>2, <2>3, <2>4, <2>5 DEF CountsFollow, PlaceOf, InSupplier, Reserving, ArenaTypes
    <2> QED BY <1>0, <1>3, <2>1, <2>2, <2>3, <2>4, <2>6, OneMoves DEF StepKeeps, EmptyHanded
  <1> QED BY <1>0, <1>1, <1>2, <1>3 DEF PublishCheck, Moves

LEMMA PublishClaimStep ==
    ASSUME ArenaAssumption, ArenaTypes, Places, NEW t \in Thread, PublishClaim(t)
    PROVE  StepKeeps
  <1>0. PICK i : i = index[t]
    OBVIOUS
  <1>1. at[t] = "publish" /\ t \in Producer
    BY <1>0, Threads DEF PublishClaim, Moves, ArenaTypes, ConsumerSteps
  <1>2. i \in Index /\ PlaceOf(i, t) /\ i # None
    BY <1>0, <1>1, HeldIsNowhere DEF EmptyHanded, Index, None
  <1>3. CASE /\ at' = [at EXCEPT ![t] = "published"]
             /\ Populated!ClaimPush(i)
             /\ UNCHANGED <<supplier, words, index, lost>>
    <2>1. \A s \in Stages : ~In(populated, i, s)
      BY <1>0, <1>1, <1>2, HeldIsNowhere DEF PlaceOf, Stages, EmptyHanded
    <2>2. Ring(populated') /\ Moved(populated, populated', i, "filling")
      BY <1>0, <1>2, <1>3, <2>1, PopulatedPush, Threads DEF ArenaTypes
    <2>3. ArenaTypes'
      BY <1>0, <1>1, <1>3, <2>2, Threads DEF ArenaTypes, ProducerSteps, words
    <2>4. Elsewhere(i) /\ PlaceOf(i, t)'
      BY <1>0, <1>1, <1>2, <1>3, <2>2 DEF Elsewhere, PlaceOf, Moved, Stages, ArenaTypes
    <2>5. index' = [index EXCEPT ![t] = i]
      BY <1>0, <1>3 DEF ArenaTypes
    <2>6. CountsFollow(i, t)
      BY <1>0, <1>2, <1>3, <2>3, <2>4, <2>5, OneCounts
    <2>7. Counted' = Counted /\ Uncounting' = Uncounting
      BY <1>1, <1>0, <1>2, <1>3, <2>3, <2>4, <2>5, <2>6 DEF CountsFollow, PlaceOf, InSupplier, Reserving, ArenaTypes
    <2> QED BY <1>0, <1>2, <1>3, <2>3, <2>4, <2>5, <2>7, OneMoves DEF StepKeeps, EmptyHanded
  <1>4. CASE at' = [at EXCEPT ![t] = "idle"] /\ Drops(t) /\ UNCHANGED <<rings, words>>
    BY <1>0, <1>1, <1>4, DropKeeps DEF EmptyHanded
  <1> QED BY <1>0, <1>3, <1>4 DEF PublishClaim, Moves

LEMMA PublishCompleteStep ==
    ASSUME ArenaAssumption, ArenaTypes, Places, NEW t \in Thread, PublishComplete(t)
    PROVE  StepKeeps
  <1>0. PICK i : i = index[t]
    OBVIOUS
  <1>1. /\ at[t] = "published" /\ at' = [at EXCEPT ![t] = "idle"] /\ t \in Producer
        /\ Populated!CompletePush(CellOf(populated, "filling", i))
        /\ index' = [index EXCEPT ![t] = None]
        /\ UNCHANGED <<supplier, words, lost>>
    BY <1>0, Threads DEF PublishComplete, Moves, ArenaTypes, ConsumerSteps
  <1>2. i \in Index /\ PlaceOf(i, t) /\ i # None /\ i \notin lost
    BY <1>0, <1>1, HeldIsNowhere DEF EmptyHanded, Index, None
  <1>3. In(populated, i, "filling")
    BY <1>0, <1>1, <1>2 DEF PlaceOf
  <1>4. Ring(populated') /\ Moved(populated, populated', i, "full")
    BY <1>1, <1>3, PopulatedPushed DEF ArenaTypes
  <1>5. ArenaTypes'
    BY <1>1, <1>4, Threads DEF ArenaTypes, ProducerSteps, words
  <1>6. Elsewhere(i)
    BY <1>1, <1>2, <1>4 DEF Elsewhere, Moved, Stages
  <1>7. index'[t] = None
    BY <1>1 DEF ArenaTypes
  <1>8. PlaceOf(i, t)'
    BY <1>0, <1>1, <1>2, <1>4, <1>7 DEF PlaceOf, Moved, Stages
  <1>9. CountsFollow(i, t)
    BY <1>0, <1>1, <1>2, <1>5, <1>6, <1>8, OneCounts
  <1>10. Counted' = Counted /\ Uncounting' = Uncounting
    BY <1>0, <1>1, <1>2, <1>5, <1>6, <1>8, <1>9 DEF CountsFollow, PlaceOf, InSupplier, Reserving, ArenaTypes
  <1> QED BY <1>0, <1>1, <1>2, <1>5, <1>6, <1>8, <1>10, OneMoves DEF StepKeeps, EmptyHanded

LEMMA AcquireCheckStep ==
    ASSUME ArenaAssumption, ArenaTypes, Places, NEW t \in Thread, AcquireCheck(t)
    PROVE  StepKeeps
  <1>1. /\ t \in Consumer /\ at[t] = "idle" /\ at' = [at EXCEPT ![t] = "acquire"]
        /\ UNCHANGED <<rings, words, index, lost>>
    BY DEF AcquireCheck, Moves
  <1>2. ArenaTypes'
    BY <1>1, Threads DEF ArenaTypes, ConsumerSteps, rings, words
  <1>3. Places' /\ UNCHANGED <<Counted, Uncounting>>
    BY <1>1, EmptyMoves DEF EmptyHanded, Places, HoldersDiffer, Uncounting
  <1> QED BY <1>2, <1>3 DEF StepKeeps

LEMMA AcquireClaimStep ==
    ASSUME ArenaAssumption, ArenaTypes, Places, NEW t \in Thread, AcquireClaim(t)
    PROVE  StepKeeps
  <1>1. at[t] = "acquire" /\ t \in Consumer
    BY Threads DEF AcquireClaim, Moves, ArenaTypes, ProducerSteps
  <1>2. ASSUME NEW i, i = populated[Populated!Front].item,
               at' = [at EXCEPT ![t] = "acquired"], index' = [index EXCEPT ![t] = i],
               Populated!ClaimPop, UNCHANGED <<supplier, words, lost>>
        PROVE  StepKeeps
    <2>1. i \in Index /\ In(populated, i, "full") /\ Ring(populated') /\ Moved(populated, populated', i, "emptying")
      BY <1>2, PopulatedPop DEF ArenaTypes
    <2>2. ArenaTypes'
      BY <1>1, <1>2, <2>1, Threads DEF ArenaTypes, ConsumerSteps, words
    <2>3. Elsewhere(i) /\ PlaceOf(i, t)'
      BY <1>2, <2>1, WaitingIsNowhere DEF Elsewhere, PlaceOf, Moved, Stages, ArenaTypes
    <2>4. index[t] = None /\ ~IsHad(i)
      BY <1>1, <2>1, WaitingIsNowhere DEF EmptyHanded, Places, HoldersDiffer
    <2>5. i # None
      BY <2>1 DEF Index, None
    <2>6. CountsFollow(i, t)
      BY <1>2, <2>1, <2>2, <2>3, <2>4, <2>5, OneCounts
    <2>7. Counted' = Counted /\ Uncounting' = Uncounting
      BY <1>1, <1>2, <2>1, <2>2, <2>3, <2>4, <2>5, <2>6 DEF CountsFollow, PlaceOf, InSupplier, Reserving, ArenaTypes
    <2> QED BY <1>2, <2>1, <2>2, <2>3, <2>4, <2>5, <2>7, OneMoves DEF StepKeeps, EmptyHanded
  <1>3. CASE at' = [at EXCEPT ![t] = "idle"] /\ UNCHANGED <<rings, words, index, lost>>
    <2>1. ArenaTypes'
      BY <1>1, <1>3, Threads DEF ArenaTypes, ConsumerSteps, rings, words
    <2>2. Places' /\ UNCHANGED <<Counted, Uncounting>>
      BY <1>1, <1>3, EmptyMoves DEF EmptyHanded, Places, HoldersDiffer, Uncounting
    <2> QED BY <2>1, <2>2 DEF StepKeeps
  <1> QED BY <1>2, <1>3 DEF AcquireClaim, Moves

LEMMA AcquireCompleteStep ==
    ASSUME ArenaAssumption, ArenaTypes, Places, NEW t \in Thread, AcquireComplete(t)
    PROVE  StepKeeps
  <1>0. PICK i : i = index[t]
    OBVIOUS
  <1>1. /\ at[t] = "acquired" /\ at' = [at EXCEPT ![t] = "holding"] /\ t \in Consumer
        /\ Populated!CompletePop(CellOf(populated, "emptying", i))
        /\ UNCHANGED <<supplier, words, index, lost>>
    BY <1>0, Threads DEF AcquireComplete, Moves, ArenaTypes, ProducerSteps
  <1>2. i \in Index /\ PlaceOf(i, t)
    BY <1>0, <1>1, HeldIsNowhere DEF EmptyHanded
  <1>3. In(populated, i, "emptying")
    BY <1>0, <1>1, <1>2 DEF PlaceOf
  <1>4. Ring(populated') /\ Moved(populated, populated', i, "vacated")
    BY <1>0, <1>1, <1>3, PopulatedPopped, Threads DEF ArenaTypes
  <1>5. ArenaTypes'
    BY <1>0, <1>1, <1>4, Threads DEF ArenaTypes, ConsumerSteps, words
  <1>6. Elsewhere(i) /\ PlaceOf(i, t)'
    BY <1>0, <1>1, <1>2, <1>4 DEF Elsewhere, PlaceOf, Moved, Stages, ArenaTypes
  <1>7. index' = [index EXCEPT ![t] = i] /\ i # None
    BY <1>0, <1>1, <1>2 DEF ArenaTypes, Index, None
  <1>8. CountsFollow(i, t)
    BY <1>0, <1>1, <1>2, <1>5, <1>6, <1>7, OneCounts
  <1>9. Counted' = Counted /\ Uncounting' = Uncounting
    BY <1>0, <1>1, <1>2, <1>5, <1>6, <1>7, <1>8 DEF CountsFollow, PlaceOf, InSupplier, Reserving, ArenaTypes
  <1> QED BY <1>0, <1>1, <1>2, <1>5, <1>6, <1>7, <1>9, OneMoves DEF StepKeeps, EmptyHanded

LEMMA RecycleCheckStep ==
    ASSUME ArenaAssumption, ArenaTypes, Places, NEW t \in Thread, RecycleCheck(t)
    PROVE  StepKeeps
  <1>0. PICK i : i = index[t]
    OBVIOUS
  <1>1. t \in Consumer /\ at[t] = "holding" /\ UNCHANGED <<rings, words>>
    BY <1>0 DEF RecycleCheck, Moves
  <1>2. CASE at' = [at EXCEPT ![t] = "idle"] /\ Drops(t)
    BY <1>0, <1>1, <1>2, DropKeeps DEF EmptyHanded
  <1>3. CASE at' = [at EXCEPT ![t] = "recycle"] /\ UNCHANGED <<index, lost>>
    <2>1. i \in Index /\ PlaceOf(i, t)
      BY <1>0, <1>1, HeldIsNowhere DEF EmptyHanded
    <2>2. ArenaTypes'
      BY <1>0, <1>1, <1>3, Threads DEF ArenaTypes, ConsumerSteps, rings, words
    <2>3. Elsewhere(i) /\ PlaceOf(i, t)'
      BY <1>0, <1>1, <1>3, <2>1 DEF Elsewhere, PlaceOf, rings, ArenaTypes
    <2>4. index' = [index EXCEPT ![t] = i] /\ i # None
      BY <1>0, <1>3, <2>1 DEF ArenaTypes, Index, None
    <2>5. CountsFollow(i, t)
      BY <1>0, <1>3, <2>1, <2>2, <2>3, <2>4, OneCounts
    <2>6. Counted' = Counted /\ Uncounting' = Uncounting
      BY <1>1, <1>0, <1>3, <2>1, <2>2, <2>3, <2>4, <2>5 DEF CountsFollow, PlaceOf, InSupplier, Reserving, ArenaTypes
    <2> QED BY <1>0, <1>3, <2>1, <2>2, <2>3, <2>4, <2>6, OneMoves DEF StepKeeps, EmptyHanded
  <1> QED BY <1>0, <1>1, <1>2, <1>3 DEF RecycleCheck, Moves

LEMMA RecycleClaimStep ==
    ASSUME ArenaAssumption, ArenaTypes, Places, NEW t \in Thread, RecycleClaim(t)
    PROVE  /\ ArenaTypes' /\ Places'
           /\ \/ UNCHANGED <<Counted, Uncounting>>
              \/ /\ index[t] \in Counted /\ t \notin Uncounting
                 /\ Counted' = Counted \ {index[t]} /\ Uncounting' = Uncounting \cup {t}
  <1>0. PICK i : i = index[t]
    OBVIOUS
  <1>1. at[t] = "recycle" /\ t \in Consumer
    BY <1>0, Threads DEF RecycleClaim, Moves, ArenaTypes, ProducerSteps
  <1>2. i \in Index /\ PlaceOf(i, t) /\ i # None
    BY <1>0, <1>1, HeldIsNowhere DEF EmptyHanded, Index, None
  <1>3. CASE /\ at' = [at EXCEPT ![t] = "recycled"]
             /\ Supplier!ClaimPush(i)
             /\ UNCHANGED <<populated, words, index, lost>>
    <2>1. \A s \in Stages : ~In(supplier, i, s)
      BY <1>0, <1>1, <1>2, HeldIsNowhere DEF PlaceOf, Stages, EmptyHanded
    <2>2. Ring(supplier') /\ Moved(supplier, supplier', i, "filling")
      BY <1>0, <1>2, <1>3, <2>1, SupplierPush, Threads DEF ArenaTypes
    <2>3. ArenaTypes'
      BY <1>0, <1>1, <1>3, <2>2, Threads DEF ArenaTypes, ConsumerSteps, words
    <2>4. Elsewhere(i) /\ PlaceOf(i, t)'
      BY <1>0, <1>1, <1>2, <1>3, <2>2 DEF Elsewhere, PlaceOf, Moved, Stages, ArenaTypes
    <2>5. index' = [index EXCEPT ![t] = i]
      BY <1>0, <1>3 DEF ArenaTypes
    <2>6. CountsFollow(i, t)
      BY <1>0, <1>2, <1>3, <2>3, <2>4, <2>5, OneCounts
    <2>7. /\ Counted' = Counted \ {i} /\ i \in Counted
             /\ Uncounting' = Uncounting \cup {t} /\ t \notin Uncounting
      BY <1>1, <1>0, <1>2, <1>3, <2>3, <2>4, <2>5, <2>6 DEF CountsFollow, PlaceOf, InSupplier, Reserving, ArenaTypes
    <2> QED BY <1>0, <1>2, <1>3, <2>3, <2>4, <2>5, <2>7, OneMoves DEF EmptyHanded
  <1>4. CASE at' = [at EXCEPT ![t] = "idle"] /\ Drops(t) /\ UNCHANGED <<rings, words>>
    BY <1>0, <1>1, <1>4, DropKeeps DEF StepKeeps, EmptyHanded
  <1> QED BY <1>0, <1>3, <1>4 DEF RecycleClaim, Moves

LEMMA RecycleCompleteStep ==
    ASSUME ArenaAssumption, ArenaTypes, Places, NEW t \in Thread, RecycleComplete(t)
    PROVE  StepKeeps
  <1>0. PICK i : i = index[t]
    OBVIOUS
  <1>1. /\ at[t] = "recycled" /\ at' = [at EXCEPT ![t] = "uncount"] /\ t \in Consumer
        /\ Supplier!CompletePush(CellOf(supplier, "filling", i))
        /\ index' = [index EXCEPT ![t] = None]
        /\ UNCHANGED <<populated, words, lost>>
    BY <1>0, Threads DEF RecycleComplete, Moves, ArenaTypes, ProducerSteps
  <1>2. i \in Index /\ PlaceOf(i, t) /\ i # None /\ i \notin lost
    BY <1>0, <1>1, HeldIsNowhere DEF EmptyHanded, Index, None
  <1>3. In(supplier, i, "filling")
    BY <1>0, <1>1, <1>2 DEF PlaceOf
  <1>4. Ring(supplier') /\ Moved(supplier, supplier', i, "full")
    BY <1>1, <1>3, SupplierPushed DEF ArenaTypes
  <1>5. ArenaTypes'
    BY <1>1, <1>4, Threads DEF ArenaTypes, ConsumerSteps, words
  <1>6. Elsewhere(i)
    BY <1>1, <1>2, <1>4 DEF Elsewhere, Moved, Stages
  <1>7. index'[t] = None
    BY <1>1 DEF ArenaTypes
  <1>8. PlaceOf(i, t)'
    BY <1>0, <1>1, <1>2, <1>4, <1>7 DEF PlaceOf, Moved, Stages
  <1>9. CountsFollow(i, t)
    BY <1>0, <1>1, <1>2, <1>5, <1>6, <1>8, OneCounts
  <1>10. Counted' = Counted /\ Uncounting' = Uncounting
    BY <1>0, <1>1, <1>2, <1>5, <1>6, <1>8, <1>9 DEF CountsFollow, PlaceOf, InSupplier, Reserving, ArenaTypes
  <1> QED BY <1>0, <1>1, <1>2, <1>5, <1>6, <1>8, <1>10, OneMoves DEF StepKeeps, EmptyHanded

LEMMA RecycleCountStep ==
    ASSUME ArenaAssumption, ArenaTypes, Places, NEW t \in Thread, RecycleCount(t)
    PROVE  /\ ArenaTypes' /\ Places'
           /\ t \in Uncounting
           /\ UNCHANGED Counted /\ Uncounting' = Uncounting \ {t}
  <1>1. t \in Consumer /\ at[t] = "uncount" /\ UNCHANGED <<rings, status, index, lost>>
    BY Threads DEF RecycleCount, Moves, ArenaTypes, ProducerSteps
  <1>2. PICK s \in {"close", "idle"} : at' = [at EXCEPT ![t] = s]
    BY DEF RecycleCount, Moves
  <1>3. ArenaTypes'
    BY <1>1, <1>2, Threads DEF ArenaTypes, ConsumerSteps, rings
  <1>4. Places' /\ UNCHANGED Counted /\ Uncounting' = Uncounting \ {t} /\ t \in Uncounting
    BY <1>1, <1>2, EmptyMoves DEF EmptyHanded, Places, HoldersDiffer, Uncounting
  <1> QED BY <1>3, <1>4 DEF StepKeeps

LEMMA RecycleCloseStep ==
    ASSUME ArenaAssumption, ArenaTypes, Places, NEW t \in Thread, RecycleClose(t)
    PROVE  StepKeeps
  <1>1. t \in Consumer /\ at[t] = "close" /\ UNCHANGED <<rings, outstanding, index, lost>>
    BY Threads DEF RecycleClose, Moves, ArenaTypes, ProducerSteps
  <1>2. PICK s \in {"idle"} : at' = [at EXCEPT ![t] = s]
    BY DEF RecycleClose, Moves
  <1>3. ArenaTypes'
    BY <1>1, <1>2, Threads DEF ArenaTypes, ConsumerSteps, rings, RecycleClose
  <1>4. Places' /\ UNCHANGED <<Counted, Uncounting>>
    BY <1>1, <1>2, EmptyMoves DEF EmptyHanded, Places, HoldersDiffer, Uncounting
  <1> QED BY <1>3, <1>4 DEF StepKeeps

LEMMA ThreadsKeepPlaces ==
    ASSUME ArenaAssumption, ArenaTypes, Places, NEW t \in Thread, ThreadNext(t)
    PROVE  ArenaTypes' /\ Places'
  BY ReserveCheckStep, ReserveClaimStep, ReserveCompleteStep, ReserveCountStep,
     PublishCheckStep, PublishClaimStep, PublishCompleteStep,
     AcquireCheckStep, AcquireClaimStep, AcquireCompleteStep,
     RecycleCheckStep, RecycleClaimStep, RecycleCompleteStep, RecycleCountStep, RecycleCloseStep
  DEF ThreadNext, StepKeeps

(* begin_closing() and shutdown() touch no index.                          *)
LEMMA ClosingKeepsPlaces ==
    ASSUME ArenaAssumption, ArenaTypes, Places, Closing \/ Shutdown
    PROVE  StepKeeps
  <1>1. /\ \A t \in Thread : at'[t] = at[t]
        /\ UNCHANGED <<rings, outstanding, index, lost>>
    BY Threads DEF Closing, BeginClosing, ClosingLoad, ClosingClose, Shutdown, Moves, words, ArenaTypes
  <1>2. ArenaTypes'
    <2>1. /\ at' \in [Thread \cup {Closer} -> ProducerSteps \cup ConsumerSteps \cup CloserSteps]
          /\ at'[Closer] \in CloserSteps
          /\ status' \in {"open", "closing", "closed", "shutdown"}
      BY DEF Closing, BeginClosing, ClosingLoad, ClosingClose, Shutdown, Moves, words, ArenaTypes, CloserSteps
    <2> QED BY <1>1, <2>1 DEF ArenaTypes, rings, Thread
  <1>3. Places'
    <2>1. \A j : (\A steps : Has(j, steps)' <=> Has(j, steps)) /\ (IsHad(j)' <=> IsHad(j))
      BY <1>1 DEF Has, IsHad
    <2>2. HoldersDiffer'
      BY <1>1 DEF Places, HoldersDiffer, None
    <2>3. RingsAgree' /\ PlacesDiffer'
      BY <1>1, <2>1 DEF Places, RingsAgree, PlacesDiffer, rings
    <2> QED BY <2>2, <2>3 DEF Places
  <1>4. UNCHANGED <<Counted, Uncounting>>
    <2>1. \A j : Has(j, Reserving)' <=> Has(j, Reserving)
      BY <1>1 DEF Has
    <2> QED BY <1>1, <2>1 DEF Counted, Uncounting, InSupplier, rings
  <1> QED BY <1>2, <1>3, <1>4 DEF StepKeeps

-----------------------------------------------------------------------------
(* The count, and the closing.                                             *)
LEMMA AreFinite ==
    ASSUME ArenaAssumption
    PROVE  /\ IsFiniteSet(Counted) /\ IsFiniteSet(Uncounting)
           /\ IsFiniteSet(Counted') /\ IsFiniteSet(Uncounting')
  <1>1. IsFiniteSet(Index) /\ IsFiniteSet(Thread)
    BY FS_Interval DEF ArenaAssumption, Index, Thread
  <1>2. Counted \subseteq Index /\ Counted' \subseteq Index /\ Uncounting \subseteq Thread /\ Uncounting' \subseteq Thread
    BY DEF Counted, Uncounting, Index, Thread
  <1> QED BY <1>1, <1>2, FS_Subset

LEMMA ThreadsKeepCount ==
    ASSUME ArenaAssumption, ArenaTypes, Places, CountIsOfBoth, NEW t \in Thread, ThreadNext(t)
    PROVE  CountIsOfBoth'
  <1>1. /\ Cardinality(Counted) \in Nat /\ Cardinality(Uncounting) \in Nat
        /\ outstanding = Cardinality(Counted) + Cardinality(Uncounting)
    BY AreFinite, FS_CardinalityType DEF CountIsOfBoth
  <1>2. ASSUME UNCHANGED <<Counted, Uncounting, outstanding>> PROVE CountIsOfBoth'
    BY <1>1, <1>2 DEF CountIsOfBoth
  <1>3. CASE ReserveCount(t)
    <2>1. /\ outstanding' = outstanding + 1 /\ index[t] \notin Counted
          /\ Counted' = Counted \cup {index[t]} /\ Uncounting' = Uncounting
      BY <1>3, ReserveCountStep DEF ReserveCount
    <2>2. Cardinality(Counted') = Cardinality(Counted) + 1
      BY <2>1, AreFinite, FS_AddElement
    <2> QED BY <1>1, <2>1, <2>2 DEF CountIsOfBoth
  <1>4. CASE RecycleClaim(t)
    <2>1. UNCHANGED outstanding
      BY <1>4 DEF RecycleClaim, words
    <2>2. CASE /\ index[t] \in Counted /\ t \notin Uncounting
               /\ Counted' = Counted \ {index[t]} /\ Uncounting' = Uncounting \cup {t}
      <3>1. /\ Cardinality(Counted') = Cardinality(Counted) - 1
            /\ Cardinality(Uncounting') = Cardinality(Uncounting) + 1
        BY <2>2, AreFinite, FS_AddElement, FS_RemoveElement
      <3> QED BY <1>1, <2>1, <3>1 DEF CountIsOfBoth
    <2> QED BY <1>2, <1>4, <2>1, <2>2, RecycleClaimStep
  <1>5. CASE RecycleCount(t)
    <2>1. outstanding' = outstanding - 1 /\ t \in Uncounting /\ Counted' = Counted /\ Uncounting' = Uncounting \ {t}
      BY <1>5, RecycleCountStep DEF RecycleCount
    <2>2. Cardinality(Uncounting') = Cardinality(Uncounting) - 1
      BY <2>1, AreFinite, FS_RemoveElement
    <2> QED BY <1>1, <2>1, <2>2 DEF CountIsOfBoth
  <1>6. CASE \/ ReserveCheck(t) \/ ReserveClaim(t) \/ ReserveComplete(t)
             \/ PublishCheck(t) \/ PublishClaim(t) \/ PublishComplete(t)
             \/ AcquireCheck(t) \/ AcquireClaim(t) \/ AcquireComplete(t)
             \/ RecycleCheck(t) \/ RecycleComplete(t) \/ RecycleClose(t)
    <2>1. UNCHANGED outstanding
      BY <1>6 DEF ReserveCheck, ReserveClaim, ReserveComplete, PublishCheck, PublishClaim, PublishComplete,
                  AcquireCheck, AcquireClaim, AcquireComplete, RecycleCheck, RecycleComplete, RecycleClose, words
    <2>2. UNCHANGED <<Counted, Uncounting>>
      BY <1>6, ReserveCheckStep, ReserveClaimStep, ReserveCompleteStep, PublishCheckStep, PublishClaimStep,
         PublishCompleteStep, AcquireCheckStep, AcquireClaimStep, AcquireCompleteStep,
         RecycleCheckStep, RecycleCompleteStep, RecycleCloseStep DEF StepKeeps
    <2> QED BY <1>2, <2>1, <2>2
  <1> QED BY <1>3, <1>4, <1>5, <1>6 DEF ThreadNext

LEMMA ThreadsMissNoClose ==
    ASSUME ArenaAssumption, ArenaTypes, Places, CountIsOfBoth, NoMissedClose, NEW t \in Thread, ThreadNext(t)
    PROVE  NoMissedClose'
  <1>1. outstanding \in Nat
    BY AreFinite, FS_CardinalityType DEF CountIsOfBoth
  <1>2. at'[Closer] = at[Closer] /\ \A u \in Thread : u # t => at'[u] = at[u]
    <2>1. PICK s : at' = [at EXCEPT ![t] = s]
      BY DEF ThreadNext, ReserveCheck, ReserveClaim, ReserveComplete, ReserveCount, PublishCheck, PublishClaim,
             PublishComplete, AcquireCheck, AcquireClaim, AcquireComplete, RecycleCheck, RecycleClaim,
             RecycleComplete, RecycleCount, RecycleClose, Moves
    <2> QED BY <2>1, Threads DEF ArenaTypes
  <1>3. CASE ReserveCount(t)
    BY <1>1, <1>3 DEF ReserveCount, NoMissedClose
  <1>4. CASE RecycleCount(t)
    <2>1. outstanding = 1 => at'[t] = "close"
      BY <1>4 DEF RecycleCount, Moves, ArenaTypes
    <2>2. outstanding' = outstanding - 1 /\ status' = status
      BY <1>4 DEF RecycleCount
    <2> QED BY <1>1, <2>1, <2>2 DEF NoMissedClose
  <1>5. CASE RecycleClose(t)
    BY <1>5 DEF RecycleClose, NoMissedClose
  <1>6. CASE \/ ReserveCheck(t) \/ ReserveClaim(t) \/ ReserveComplete(t)
             \/ PublishCheck(t) \/ PublishClaim(t) \/ PublishComplete(t)
             \/ AcquireCheck(t) \/ AcquireClaim(t) \/ AcquireComplete(t)
             \/ RecycleCheck(t) \/ RecycleClaim(t) \/ RecycleComplete(t)
    <2>1. UNCHANGED words /\ at[t] # "close"
      BY <1>6 DEF ReserveCheck, ReserveClaim, ReserveComplete, PublishCheck, PublishClaim, PublishComplete,
                  AcquireCheck, AcquireClaim, AcquireComplete, RecycleCheck, RecycleClaim, RecycleComplete, words, Moves
    <2> QED BY <1>2, <2>1 DEF NoMissedClose, words
  <1> QED BY <1>3, <1>4, <1>5, <1>6 DEF ThreadNext

LEMMA ClosingMissesNoClose ==
    ASSUME ArenaAssumption, ArenaTypes, NoMissedClose, Closing \/ Shutdown
    PROVE  NoMissedClose'
  <1>1. CASE BeginClosing
    BY <1>1 DEF BeginClosing, NoMissedClose, Moves, ArenaTypes
  <1>2. \A t \in Thread : at'[t] = at[t]
    BY Threads DEF Closing, BeginClosing, ClosingLoad, ClosingClose, Shutdown, Moves, ArenaTypes
  <1>3. CASE ClosingLoad
    BY <1>2, <1>3 DEF ClosingLoad, NoMissedClose, Moves, ArenaTypes, words
  <1>4. CASE ClosingClose \/ Shutdown
    BY <1>2, <1>4 DEF ClosingClose, Shutdown, NoMissedClose, Moves, ArenaTypes, words
  <1> QED BY <1>1, <1>3, <1>4 DEF Closing

(* What a step of the arena keeps; a step that is not one keeps it too, if *)
(* it leaves the arena as it is.                                           *)
LEMMA ArenaStep ==
    ASSUME ArenaAssumption, ArenaInv, [Next]_vars
    PROVE  ArenaInv'
  <1>1. CASE \E t \in Thread : ThreadNext(t)
    BY <1>1, ThreadsKeepPlaces, ThreadsKeepCount, ThreadsMissNoClose DEF ArenaInv
  <1>2. CASE Closing \/ Shutdown
    <2>1. UNCHANGED outstanding
      BY <1>2 DEF Closing, BeginClosing, ClosingLoad, ClosingClose, Shutdown, words
    <2> QED BY <1>2, <2>1, ClosingKeepsPlaces, ClosingMissesNoClose DEF ArenaInv, StepKeeps, CountIsOfBoth
  <1>3. CASE UNCHANGED vars
    BY <1>3 DEF vars, ArenaInv, ArenaTypes, Places, HoldersDiffer, RingsAgree, PlacesDiffer, CountIsOfBoth,
                NoMissedClose, Has, IsHad, Counted, InSupplier, Uncounting, None
  <1> QED BY <1>1, <1>2, <1>3 DEF Next

LEMMA ArenaInitially ==
    ASSUME ArenaAssumption, Init
    PROVE  ArenaInv
  <1>1. Capacity \in Nat \ {0} /\ None = Capacity /\ Index = 0 .. Capacity - 1
    BY DEF ArenaAssumption, None, Index
  <1>2. /\ DOMAIN supplier = 1 .. Capacity /\ supplier \in Seq(RingCell) /\ Len(supplier) = Capacity
        /\ \A k \in 1 .. Capacity : supplier[k].item = k - 1 /\ supplier[k].state = "full"
    <2>1. supplier = [k \in 1 .. Capacity |-> [item |-> k - 1, state |-> "full"]]
      BY DEF Init, Supplier!Init
    <2>2. \A k \in 1 .. Capacity : [item |-> k - 1, state |-> "full"] \in RingCell
      BY <1>1 DEF RingCell, Stages
    <2>3. supplier \in [1 .. Capacity -> RingCell]
      BY <2>1, <2>2
    <2> QED BY <1>1, <2>1, <2>3
  <1>3. populated = <<>>
    BY DEF Init, Populated!Init
  <1>4. Ring(supplier) /\ Ring(populated)
    BY <1>1, <1>2, <1>3 DEF Ring
  <1>5. \A i \in Index : \A s : In(supplier, i, s) <=> s = "full"
    <2>1. \A i \in Index : i + 1 \in 1 .. Capacity /\ (i + 1) - 1 = i
      BY <1>1
    <2>2. \A i \in Index : In(supplier, i, "full")
      BY <1>2, <2>1 DEF In
    <2> QED BY <1>2, <2>2 DEF In
  <1>6. \A i, s : ~In(populated, i, s)
    BY <1>3 DEF In
  <1>7. /\ status = "open" /\ outstanding = 0 /\ lost = {}
        /\ at = [t \in Thread \cup {Closer} |-> "idle"] /\ index = [t \in Thread |-> None]
    BY DEF Init
  <1>8. ArenaTypes
    BY <1>4, <1>7 DEF ArenaTypes, ProducerSteps, ConsumerSteps, CloserSteps, Thread
  <1>9. \A i \in Index : ~IsHad(i) /\ \A steps : ~Has(i, steps)
    BY <1>1, <1>7 DEF IsHad, Has
  <1>10. Places
    BY <1>5, <1>6, <1>7, <1>9 DEF Places, HoldersDiffer, RingsAgree, PlacesDiffer, EmptyHanded
  <1>11. Counted = {} /\ Uncounting = {}
    BY <1>5, <1>7 DEF Counted, Uncounting, InSupplier, Thread
  <1>12. CountIsOfBoth
    BY <1>7, <1>11, FS_EmptySet DEF CountIsOfBoth
  <1> QED BY <1>7, <1>8, <1>10, <1>12 DEF ArenaInv, NoMissedClose

(* TMpmcArenaTransport keeps its invariant, however many threads share it. *)
THEOREM ArenaInvariance ==
    ASSUME ArenaAssumption
    PROVE  Spec => []ArenaInv
  <1>1. Init => ArenaInv
    BY ArenaInitially
  <1>2. ArenaInv /\ [Next]_vars => ArenaInv'
    BY ArenaStep
  <1> QED BY <1>1, <1>2, PTL DEF Spec

(* From the claim of its push to the claim of its pop, an index waits in   *)
(* one cell.                                                               *)
LEMMA WaitsInOne ==
    ASSUME NEW cells, Ring(cells), NEW i \in Index
    PROVE  /\ IsFiniteSet(WaitsIn(cells, i))
           /\ Cardinality(WaitsIn(cells, i)) =
                IF In(cells, i, "filling") \/ In(cells, i, "full") THEN 1 ELSE 0
  <1>1. \A k, l \in WaitsIn(cells, i) : k = l
    BY DEF WaitsIn, Ring
  <1>2. In(cells, i, "filling") \/ In(cells, i, "full") <=> WaitsIn(cells, i) # {}
    BY DEF WaitsIn, In
  <1>3. CASE WaitsIn(cells, i) = {}
    BY <1>2, <1>3, FS_EmptySet
  <1>4. CASE WaitsIn(cells, i) # {}
    <2>1. PICK k \in WaitsIn(cells, i) : WaitsIn(cells, i) = {k}
      BY <1>1, <1>4
    <2>2. IsFiniteSet({k}) /\ Cardinality({k}) = 1
      BY FS_Singleton
    <2> QED BY <1>2, <1>4, <2>1, <2>2
  <1> QED BY <1>3, <1>4

LEMMA HoldersAreOne ==
    ASSUME ArenaTypes, Places, NEW i \in Index
    PROVE  Cardinality(Holders(i)) = IF IsHad(i) /\ ~Has(i, {"published", "recycled"}) THEN 1 ELSE 0
  <1>1. \A t, u \in Thread : index[t] = i /\ index[u] = i => t = u
    BY DEF Places, HoldersDiffer, Index, None
  <1>2. CASE Holders(i) = {}
    BY <1>2, FS_EmptySet DEF Holders, IsHad, Has
  <1>3. CASE Holders(i) # {}
    <2>1. PICK t \in Holders(i) : Holders(i) = {t}
      BY <1>1, <1>3 DEF Holders
    <2>2. IsHad(i) /\ ~Has(i, {"published", "recycled"})
      BY <1>1, <2>1 DEF Holders, IsHad, Has
    <2> QED BY <2>1, <2>2, FS_Singleton
  <1> QED BY <1>2, <1>3

(* Every arena slot has exactly one owner.                                 *)
LEMMA InvHasOneOwner ==
    ASSUME ArenaInv
    PROVE  OneOwner
  <1>1. ASSUME NEW i \in Index
        PROVE  Cardinality(WaitsIn(supplier, i)) + Cardinality(WaitsIn(populated, i))
                 + Cardinality(Holders(i)) + (IF i \in lost THEN 1 ELSE 0) = 1
    <2> DEFINE s == In(supplier, i, "filling") \/ In(supplier, i, "full")
               p == In(populated, i, "filling") \/ In(populated, i, "full")
               h == IsHad(i) /\ ~Has(i, {"published", "recycled"})
    <2>1. /\ Cardinality(WaitsIn(supplier, i)) = IF s THEN 1 ELSE 0
          /\ Cardinality(WaitsIn(populated, i)) = IF p THEN 1 ELSE 0
          /\ Cardinality(Holders(i)) = IF h THEN 1 ELSE 0
      BY WaitsInOne, HoldersAreOne DEF ArenaInv, ArenaTypes
    <2>2. \A t, u \in Thread : index[t] = i /\ index[u] = i => t = u
      BY DEF ArenaInv, Places, HoldersDiffer, Index, None
    <2>3. (In(supplier, i, "filling") <=> Has(i, {"recycled"})) /\ (In(populated, i, "filling") <=> Has(i, {"published"}))
      BY DEF ArenaInv, Places, RingsAgree
    <2>4. /\ Has(i, {"published", "recycled"}) <=> Has(i, {"published"}) \/ Has(i, {"recycled"})
          /\ ~(Has(i, {"published"}) /\ Has(i, {"recycled"}))
          /\ Has(i, {"published"}) \/ Has(i, {"recycled"}) => IsHad(i)
      BY <2>2 DEF Has, IsHad
    <2>5. /\ In(supplier, i, "full") \/ In(populated, i, "full") \/ i \in lost \/ IsHad(i)
          /\ In(supplier, i, "full") => ~In(populated, i, "full") /\ i \notin lost /\ ~IsHad(i)
          /\ In(populated, i, "full") => i \notin lost /\ ~IsHad(i)
          /\ i \in lost => ~IsHad(i)
      BY DEF ArenaInv, Places, PlacesDiffer
    <2>6. \/ s /\ ~p /\ ~h /\ i \notin lost
          \/ ~s /\ p /\ ~h /\ i \notin lost
          \/ ~s /\ ~p /\ h /\ i \notin lost
          \/ ~s /\ ~p /\ ~h /\ i \in lost
      BY <2>3, <2>4, <2>5
    <2> HIDE DEF s, p, h
    <2> QED BY <2>1, <2>6
  <1> QED BY <1>1 DEF OneOwner

(* The count is exact: a thread that reserves has an index of its own that *)
(* is away from the supplier ring and not counted yet.                     *)
LEMMA InvCountsExactly ==
    ASSUME ArenaAssumption, ArenaInv
    PROVE  CountIsExact
  <1> DEFINE Away == {i \in Index : WaitsIn(supplier, i) = {}}
             Reservers == {t \in Thread : at[t] \in {"reserved", "count"}}
             Theirs == Away \ Counted
             f == [t \in Reservers |-> index[t]]
  <1>1. \A i \in Index : InSupplier(i) <=> WaitsIn(supplier, i) # {}
    BY DEF InSupplier, In, WaitsIn
  <1>2. Counted \subseteq Away /\ Theirs = {i \in Index : ~InSupplier(i) /\ Has(i, Reserving)}
    BY <1>1 DEF Counted
  <1>3. \A t \in Reservers : index[t] \in Theirs
    <2>1. ASSUME NEW t \in Reservers PROVE index[t] \in Theirs
      <3>1. index[t] \in Index /\ PlaceOf(index[t], t) /\ ~In(supplier, index[t], "full") /\ t \in Thread
        BY HeldIsNowhere DEF ArenaInv, EmptyHanded
      <3>2. ~InSupplier(index[t]) /\ Has(index[t], Reserving)
        BY <3>1 DEF PlaceOf, InSupplier, Has, Reserving
      <3> QED BY <1>2, <3>1, <3>2
    <2> QED BY <2>1
  <1>4. f \in Bijection(Reservers, Theirs)
    <2>1. f \in [Reservers -> Theirs]
      BY <1>3
    <2>2. \A t, u \in Reservers : f[t] = f[u] => t = u
      <3>1. \A t \in Reservers : index[t] # None
        BY <1>3 DEF Index, None
      <3> QED BY <3>1 DEF ArenaInv, Places, HoldersDiffer
    <2>3. \A i \in Theirs : \E t \in Reservers : f[t] = i
      BY <1>2 DEF Has, Reserving
    <2> QED BY <2>1, <2>2, <2>3, Fun_IsBij
  <1>5. IsFiniteSet(Away) /\ IsFiniteSet(Theirs) /\ IsFiniteSet(Reservers) /\ IsFiniteSet(Counted)
    <2>1. IsFiniteSet(Index) /\ IsFiniteSet(Thread)
      BY FS_Interval DEF ArenaAssumption, Index, Thread
    <2> QED BY <1>2, <2>1, FS_Subset
  <1>6. Cardinality(Theirs) = Cardinality(Reservers)
    BY <1>4, <1>5, FS_Bijection DEF ExistsBijection
  <1>7. Cardinality(Theirs) = Cardinality(Away) - Cardinality(Counted)
    <2>1. Away \cap Counted = Counted
      BY <1>2
    <2> HIDE DEF Away
    <2>2. Cardinality(Away \ Counted) = Cardinality(Away) - Cardinality(Away \cap Counted)
      BY <1>5, FS_Difference
    <2> QED BY <2>1, <2>2
  <1>8. outstanding = Cardinality(Counted) + Cardinality(Uncounting)
    BY DEF ArenaInv, CountIsOfBoth
  <1>9. /\ Cardinality(Counted) \in Nat /\ Cardinality(Uncounting) \in Nat
        /\ Cardinality(Away) \in Nat /\ Cardinality(Reservers) \in Nat
    BY <1>5, AreFinite, FS_CardinalityType
  <1>10. outstanding = Cardinality(Away) - Cardinality(Reservers) + Cardinality(Uncounting)
    <2> HIDE DEF Away, Reservers, Theirs
    <2> QED BY <1>6, <1>7, <1>8, <1>9
  <1> QED BY <1>10 DEF CountIsExact, Uncounting

LEMMA InvCountsSomething ==
    ASSUME ArenaAssumption, ArenaInv
    PROVE  outstanding \in Nat
  BY AreFinite, FS_CardinalityType DEF ArenaInv, CountIsOfBoth

LEMMA InvHasTypes ==
    ASSUME ArenaAssumption, ArenaInv
    PROVE  TypeOK
  <1>1. ASSUME NEW cells, Ring(cells), NEW k \in DOMAIN cells PROVE cells[k].item \in Index
    <2>1. cells[k] \in RingCell
      BY <1>1 DEF Ring
    <2> QED BY <2>1 DEF RingCell
  <1> QED BY <1>1, InvCountsSomething DEF ArenaInv, ArenaTypes, TypeOK, Ring

(* Every arena slot has one owner, for any number of threads and slots.    *)
THEOREM SlotsAlwaysHaveOneOwner ==
    ASSUME ArenaAssumption
    PROVE  Spec => [](TypeOK /\ OneOwner)
  <1>1. ArenaInv => TypeOK
    BY InvHasTypes
  <1>2. ArenaInv => OneOwner
    BY InvHasOneOwner
  <1> QED BY <1>1, <1>2, ArenaInvariance, PTL

(* The outstanding count is exact but for the calls between a ring and the *)
(* count, and never passes below zero.                                     *)
THEOREM CountIsAlwaysExact ==
    ASSUME ArenaAssumption
    PROVE  Spec => [](CountIsExact /\ CountNeverWraps)
  <1>1. ArenaInv => CountIsExact /\ CountNeverWraps
    BY InvCountsExactly, InvCountsSomething DEF CountNeverWraps
  <1> QED BY <1>1, ArenaInvariance, PTL

(* Of begin_closing() and the last recycle(), one closes.                  *)
THEOREM NoCloseIsEverMissed ==
    ASSUME ArenaAssumption
    PROVE  Spec => []NoMissedClose
  <1>1. ArenaInv => NoMissedClose
    BY DEF ArenaInv
  <1> QED BY <1>1, ArenaInvariance, PTL
-----------------------------------------------------------------------------
(***************************************************************************)
(* What those who use an arena rely on: which indices are published, and   *)
(* when there is one to acquire.                                           *)
(***************************************************************************)
LEMMA PublishedAdds ==
    ASSUME ArenaInv, NEW t \in Thread, PublishComplete(t), NEW i \in Index
    PROVE  /\ index[t] \in Index /\ at[t] = "published"
           /\ In(populated, i, "full")' <=> i = index[t] \/ In(populated, i, "full")
  <1>1. at[t] = "published" /\ Populated!CompletePush(CellOf(populated, "filling", index[t]))
    BY DEF PublishComplete, Moves
  <1>2. index[t] \in Index /\ In(populated, index[t], "filling")
    BY <1>1, HeldIsNowhere DEF ArenaInv, EmptyHanded, PlaceOf
  <1>3. Moved(populated, populated', index[t], "full")
    BY <1>1, <1>2, PopulatedPushed DEF ArenaInv, ArenaTypes
  <1> QED BY <1>1, <1>2, <1>3 DEF Moved, Stages

LEMMA AcquiredTakes ==
    ASSUME ArenaInv, NEW t \in Thread, AcquireClaim(t)
    PROVE  \/ /\ at' = [at EXCEPT ![t] = "acquired"]
              /\ \E i \in Index :
                   /\ index' = [index EXCEPT ![t] = i] /\ In(populated, i, "full")
                   /\ \A j \in Index : In(populated, j, "full")' <=> j # i /\ In(populated, j, "full")
           \/ at' = [at EXCEPT ![t] = "idle"] /\ ~Populated!CanPop /\ UNCHANGED <<index, populated>>
  <1>1. CASE Populated!ClaimPop /\ at' = [at EXCEPT ![t] = "acquired"]
             /\ index' = [index EXCEPT ![t] = populated[Populated!Front].item]
    <2>1. PICK i : i = populated[Populated!Front].item
      OBVIOUS
    <2>2. i \in Index /\ In(populated, i, "full") /\ Moved(populated, populated', i, "emptying")
      BY <1>1, <2>1, PopulatedPop DEF ArenaInv, ArenaTypes
    <2> QED BY <1>1, <2>1, <2>2 DEF Moved, Stages
  <1> QED BY <1>1 DEF AcquireClaim, Moves, rings

LEMMA OthersPublishNothing ==
    ASSUME ArenaAssumption, ArenaInv, NEW t \in Thread,
           \/ ReserveCheck(t) \/ ReserveClaim(t) \/ ReserveComplete(t) \/ ReserveCount(t)
           \/ PublishCheck(t) \/ PublishClaim(t) \/ AcquireCheck(t) \/ AcquireComplete(t)
           \/ RecycleCheck(t) \/ RecycleClaim(t) \/ RecycleComplete(t) \/ RecycleCount(t) \/ RecycleClose(t)
    PROVE  /\ \A i \in Index : In(populated, i, "full")' <=> In(populated, i, "full")
           /\ Populated!CanPop' => Populated!CanPop \/ AcquireComplete(t)
  <1>1. CASE \/ ReserveCheck(t) \/ ReserveClaim(t) \/ ReserveComplete(t) \/ ReserveCount(t)
             \/ PublishCheck(t) \/ AcquireCheck(t)
             \/ RecycleCheck(t) \/ RecycleClaim(t) \/ RecycleComplete(t) \/ RecycleCount(t) \/ RecycleClose(t)
    <2>1. populated' = populated
      BY <1>1 DEF ReserveCheck, ReserveClaim, ReserveComplete, ReserveCount, PublishCheck, AcquireCheck,
                  RecycleCheck, RecycleClaim, RecycleComplete, RecycleCount, RecycleClose, rings
    <2>2. Populated!CanPop' <=> Populated!CanPop
      BY <2>1 DEF Populated!CanPop, Populated!Waiting, Populated!InState
    <2> QED BY <2>1, <2>2
  <1>2. CASE AcquireComplete(t)
    <2>1. at[t] = "acquired" /\ Populated!CompletePop(CellOf(populated, "emptying", index[t]))
      BY <1>2 DEF AcquireComplete, Moves
    <2>2. index[t] \in Index /\ In(populated, index[t], "emptying") /\ ~In(populated, index[t], "full")
      BY <2>1, HeldIsNowhere DEF ArenaInv, EmptyHanded, PlaceOf
    <2>3. Moved(populated, populated', index[t], "vacated")
      BY <2>1, <2>2, PopulatedPopped, Threads DEF ArenaInv, ArenaTypes
    <2> QED BY <1>2, <2>2, <2>3 DEF Moved, Stages
  <1>3. CASE PublishClaim(t)
    <2>1. CASE Populated!ClaimPush(index[t]) /\ at[t] = "publish"
      <3>1. index[t] \in Index /\ \A s \in Stages : ~In(populated, index[t], s)
        BY <2>1, HeldIsNowhere DEF ArenaInv, EmptyHanded, PlaceOf, Stages
      <3>2. Moved(populated, populated', index[t], "filling")
        BY <2>1, <3>1, PopulatedPush, Threads DEF ArenaInv, ArenaTypes
      <3>3. \A i \in Index : In(populated, i, "full")' <=> In(populated, i, "full")
        BY <3>1, <3>2 DEF Moved, Stages
      <3>4. ASSUME Populated!CanPop' PROVE Populated!CanPop
        <4> DEFINE n == Len(populated)
                   W == Populated!Waiting
                   V == W \cup {n + 1}
        <4>1. populated \in Seq(RingCell) /\ n \in Nat /\ DOMAIN populated = 1 .. n
          BY DEF ArenaInv, ArenaTypes, Ring
        <4>2. populated' = Append(populated, [item |-> index[t], state |-> "filling"])
          BY <2>1 DEF Populated!ClaimPush
        <4>3. /\ DOMAIN populated' = 1 .. n + 1 /\ populated'[n + 1].state = "filling"
              /\ \A k \in 1 .. n : populated'[k] = populated[k]
          BY <3>1, <4>1, <4>2 DEF RingCell, Stages
        <4>4. Populated!Waiting' = V /\ W \subseteq 1 .. n
          BY <4>1, <4>3 DEF Populated!Waiting, Populated!InState
        <4>5. Populated!Min(V) \in V /\ populated'[Populated!Min(V)].state = "full"
          <5> HIDE DEF V
          <5>1. Populated!Min(V) \in {k \in DOMAIN populated' : populated'[k].state = "full"}
            BY <3>4, <4>4 DEF Populated!CanPop, Populated!InState
          <5>2. Populated!Min(V) \in Populated!Waiting'
            BY <5>1 DEF Populated!Waiting, Populated!InState
          <5> QED BY <4>4, <5>1, <5>2
        <4>6. Populated!Min(V) # n + 1
          BY <4>3, <4>5
        <4>7. W # {} /\ \A k \in V : Supplier!Min(V) <= k
          <5>1. V \subseteq Nat /\ V # {}
            <6>1. n + 1 \in Nat /\ W \subseteq Nat
              BY <4>1, <4>4
            <6> HIDE DEF W, n
            <6> QED BY <6>1
          <5> HIDE DEF V
          <5>2. \A k \in V : Supplier!Min(V) <= k
            BY <5>1, LeastExists
          <5> QED BY <4>5, <4>6, <5>2 DEF V
        <4>8. Supplier!Min(W) \in W /\ \A k \in W : Supplier!Min(W) <= k
          <5>1. W \subseteq Nat
            BY <4>1, <4>4
          <5> HIDE DEF W
          <5> QED BY <4>7, <5>1, LeastExists
        <4>9. Populated!Min(V) = Supplier!Min(V) /\ Populated!Min(W) = Supplier!Min(W)
          BY DEF Populated!Min, Supplier!Min
        <4>10. Populated!Min(W) = Populated!Min(V)
          <5>1. W \subseteq Int /\ Populated!Min(V) \in W
            BY <4>1, <4>4, <4>5, <4>6
          <5> HIDE DEF W
          <5>2. Populated!Min(W) <= Populated!Min(V) /\ Populated!Min(V) <= Populated!Min(W)
            BY <4>7, <4>8, <4>9, <5>1
          <5>3. Populated!Min(W) \in Int /\ Populated!Min(V) \in Int
            BY <4>8, <4>9, <5>1
          <5> QED BY <5>2, <5>3
        <4>11. Populated!Min(W) \in 1 .. n
          BY <4>4, <4>8, <4>9
        <4>12. populated[Populated!Min(W)].state = "full"
          BY <4>3, <4>5, <4>10, <4>11
        <4> QED BY <4>1, <4>7, <4>11, <4>12 DEF Populated!CanPop, Populated!InState
      <3> QED BY <3>3, <3>4
    <2>2. CASE populated' = populated
      BY <2>2 DEF Populated!CanPop, Populated!Waiting, Populated!InState
    <2> QED BY <1>3, <2>1, <2>2 DEF PublishClaim, Moves, rings
  <1> QED BY <1>1, <1>2, <1>3

LEMMA NothingIsOut ==
    ASSUME ArenaAssumption, ArenaInv
    PROVE  /\ outstanding \in Nat
           /\ outstanding = 0 => /\ \A t \in Thread : at[t] \notin {"recycled", "uncount"}
                                 /\ \A i \in Index : InSupplier(i) \/ Has(i, Reserving)
  <1>1. Cardinality(Counted) \in Nat /\ Cardinality(Uncounting) \in Nat
    BY AreFinite, FS_CardinalityType
  <1>2. (Cardinality(Counted) = 0 => Counted = {}) /\ (Cardinality(Uncounting) = 0 => Uncounting = {})
    BY AreFinite, FS_EmptySet
  <1>3. outstanding = Cardinality(Counted) + Cardinality(Uncounting)
    BY DEF ArenaInv, CountIsOfBoth
  <1>4. outstanding = 0 => Counted = {} /\ Uncounting = {}
    BY <1>1, <1>2, <1>3
  <1> QED BY <1>1, <1>3, <1>4 DEF Counted, Uncounting
=============================================================================

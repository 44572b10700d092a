---------------------------- MODULE PodContainers ----------------------------
(***************************************************************************)
(* TPodVector: elements in one relocatable block with spare capacity.      *)
(* TPodFifo: elements in a ring within one block, which pack() brings to   *)
(* the beginning of it, in place where it can; consecutive numbers are     *)
(* pushed, so that the order of what comes out shows.  TInstance: the      *)
(* owner of one object, constructed in memory of its own.                  *)
(*                                                                         *)
(* Operations are functions of the container and of whether an allocation  *)
(* they make succeeds; one that fails leaves the container as it was.      *)
(* Sources within the container's own block are refused before anything    *)
(* else.  The three share nothing, so that one moves at a time.            *)
(***************************************************************************)
EXTENDS Integers, SequencesExt, FiniteSetsExt

CONSTANTS
    MaxElements,        \* k_max_elements
    Growth(_),          \* vector_growth_policy()
    Items,              \* bound: what is pushed and inserted at once
    MaxPushed, Numbers, \* k_max_elements of the fifo; bound: its numbers come round again
    Owners, MaxObjects  \* bound: instances, and objects alive at once

VARIABLES
    vector,             \* all elements of the block, and m_size
    fifo,               \* the elements of the block, m_read_index, m_size
    pushed,             \* the next number to push
    object,             \* what each instance holds
    alive               \* specification only: constructed and not destroyed

vars == <<vector, fifo, pushed, object, alive>>

Raw == -1               \* memory nobody has written
NoVector == [cells |-> <<>>, size |-> 0]
NoFifo == [cells |-> <<>>, read |-> 0, size |-> 0]
None == 0               \* no object

VectorInit == vector = NoVector
FifoInit == fifo = NoFifo /\ pushed = 0
InstanceInit == object = [o \in Owners |-> None] /\ alive = {}
Init == VectorInit /\ FifoInit /\ InstanceInit
-----------------------------------------------------------------------------
(* TPodVector.                                                               *)

Capacity(v) == Len(v.cells)
Room(v) == Capacity(v) - v.size
Contents(v) == SubSeq(v.cells, 1, v.size)
Smaller(m, n) == IF m < n THEN m ELSE n

\* memcpy() and memmove() within the block, at element offsets.
Copied(cells, to, items) ==
    [i \in 1 .. Len(cells) |-> IF i \in to + 1 .. to + Len(items) THEN items[i - to] ELSE cells[i]]
Moved(cells, to, from, n) == Copied(cells, to, SubSeq(cells, from + 1, from + n))
Zeros(n) == [i \in 1 .. n |-> 0]

\* allocate() gives up the contents, reallocate() keeps those that still fit.
Allocated(v, capacity, ok) ==
    CASE capacity > MaxElements \/ (capacity \notin {0, Capacity(v)} /\ ~ok) -> v
      [] capacity = Capacity(v) -> [v EXCEPT !.size = 0]
      [] OTHER -> [cells |-> [i \in 1 .. capacity |-> Raw], size |-> 0]

Reallocated(v, size, capacity, ok) ==
    LET kept  == Smaller(v.size, size)
        cells == IF capacity = Capacity(v) THEN v.cells
                 ELSE [i \in 1 .. capacity |-> IF i <= kept THEN v.cells[i] ELSE Raw]
    IN  IF size > capacity \/ capacity > MaxElements \/ (capacity \notin {0, Capacity(v)} /\ ~ok) THEN v
        ELSE [cells |-> IF size > v.size THEN Copied(cells, v.size, Zeros(size - v.size)) ELSE cells,
              size  |-> size]

Resized(v, size, ok) ==
    IF size > MaxElements THEN v
    ELSE Reallocated(v, size, IF size > Capacity(v) THEN Growth(size) ELSE Capacity(v), ok)

Reserved(v, capacity, ok) ==
    IF capacity > MaxElements \/ capacity <= Capacity(v) THEN v
    ELSE Reallocated(v, v.size, Growth(capacity), ok)

EnsuredFree(v, extra, ok) ==
    IF extra > MaxElements - v.size THEN v ELSE Reserved(v, v.size + extra, ok)

ShrunkToFit(v, ok) == IF v.size = 0 THEN NoVector ELSE Reallocated(v, v.size, v.size, ok)

SetSize(v, size) == IF size <= Capacity(v) THEN [v EXCEPT !.size = size] ELSE v

\* insert_uninit(), of which push_back_uninit() is the case at the end.
InsertedUninit(v, index, n, ok) ==
    LET r == EnsuredFree(v, n, ok)
    IN  IF n = 0 \/ Room(r) < n THEN v
        ELSE [cells |-> Moved(r.cells, index + n, index, r.size - index), size |-> r.size + n]

Inserted(v, index, items, ok) ==
    LET r == InsertedUninit(v, index, Len(items), ok)
    IN  IF r.size = v.size THEN v ELSE [r EXCEPT !.cells = Copied(@, index, items)]

PushedBack(v, items, ok) == Inserted(v, v.size, items, ok)

\* try_push_back() takes what the spare capacity holds.
TriedPushBack(v, items) == PushedBack(v, SubSeq(items, 1, Smaller(Len(items), Room(v))), FALSE)

\* pop_back() gives the last element first.
PoppedBack(v, n) ==
    [vector |-> IF n <= v.size THEN [v EXCEPT !.size = @ - n] ELSE v,
     items  |-> IF n <= v.size THEN [i \in 1 .. n |-> v.cells[v.size + 1 - i]] ELSE <<>>]

Erased(v, index, n) ==
    IF index + n > v.size THEN v
    ELSE [cells |-> Moved(v.cells, index, index + n, v.size - (index + n)), size |-> v.size - n]

\* swap_insert() moves the elements in the way behind the last one.
SwapInserted(v, index, items, ok) ==
    LET r == EnsuredFree(v, Len(items), ok)
        n == Smaller(Len(items), r.size - index)
    IN  IF Room(r) < Len(items) THEN v
        ELSE [cells |-> Copied(Moved(r.cells, r.size, index, n), index, items), size |-> r.size + Len(items)]

SwapErased(v, index, n) ==
    LET tail == Smaller(n, v.size - (n + index))
    IN  IF index + n > v.size THEN v
        ELSE [cells |-> Moved(v.cells, index, v.size - tail, tail), size |-> v.size - n]

Changed(ok) ==
    {Allocated(vector, n, ok) : n \in 0 .. MaxElements + 1}
    \cup {Reallocated(vector, s, c, ok) : s, c \in 0 .. MaxElements + 1}
    \cup {Resized(vector, n, ok) : n \in 0 .. MaxElements + 1}
    \cup {EnsuredFree(vector, n, ok) : n \in 0 .. MaxElements}
    \cup {Reserved(vector, n, ok) : n \in 0 .. MaxElements}
    \cup {SetSize(vector, n) : n \in 0 .. MaxElements}
    \cup {ShrunkToFit(vector, ok)}

Edited(ok) ==
    UNION {{Inserted(vector, i, s, ok), SwapInserted(vector, i, s, ok)} : i \in 0 .. vector.size, s \in Items}
    \cup {InsertedUninit(vector, vector.size, n, ok) : n \in 1 .. 2}
    \cup {TriedPushBack(vector, s) : s \in Items}
    \cup {PoppedBack(vector, n).vector : n \in 0 .. vector.size}
    \cup UNION {{Erased(vector, i, n), SwapErased(vector, i, n)} : i, n \in 0 .. vector.size}

VectorNext == \E ok \in BOOLEAN : vector' \in Changed(ok) \/ vector' \in Edited(ok)
-----------------------------------------------------------------------------
(* TPodFifo.                                                                 *)

Available(f) == Capacity(f) - f.size
Part(cells, from, n) == SubSeq(cells, from + 1, from + n)

FifoPushedBack(f, items) ==
    LET check == f.read + f.size
        write == IF check >= Capacity(f) THEN check - Capacity(f) ELSE check
        tail  == Capacity(f) - write
        n     == Len(items)
    IN  CASE n > Available(f) -> f
          [] n <= Available(f) /\ n <= tail -> [f EXCEPT !.cells = Copied(@, write, items), !.size = @ + n]
          [] OTHER -> [f EXCEPT !.cells = Copied(Copied(@, write, Part(items, 0, tail)), 0, Part(items, tail, n - tail)),
                                !.size = @ + n]

\* discard_front(); pop_front() differs in how it finds the index, and copies.
Discarded(f, n) ==
    LET next == f.read + n
    IN  IF n > f.size THEN f
        ELSE [f EXCEPT !.size = @ - n,
                       !.read = CASE n = f.size -> 0
                                  [] n < f.size /\ next >= Capacity(f) -> next - Capacity(f)
                                  [] OTHER -> next]

PoppedFront(f, n) ==
    LET tail == Capacity(f) - f.read
        read == IF n < tail THEN f.read + n ELSE n - tail
    IN  [fifo  |-> IF n > f.size THEN f ELSE [f EXCEPT !.size = @ - n, !.read = IF n = f.size THEN 0 ELSE read],
         items |-> CASE n > f.size -> <<>>
                     [] n <= f.size /\ n <= tail -> Part(f.cells, f.read, n)
                     [] OTHER -> Part(f.cells, f.read, tail) \o Part(f.cells, 0, n - tail)]

\* bit_ops::highest_common_factor()
CommonFactor(m, n) == CHOOSE d \in 1 .. m : m % d = 0 /\ n % d = 0 /\ \A e \in d + 1 .. m : m % e # 0 \/ n % e # 0

\* The cycle of positions that begins at c: each receives the element of the next.
RotatedCycle(cells, by, c) ==
    LET at[k \in 0 .. Len(cells)] == (c + k * by) % Len(cells)
        length == CHOOSE k \in 1 .. Len(cells) : at[k] = c /\ \A j \in 1 .. k - 1 : at[j] # c
        step[k \in 0 .. length] ==
          IF k = 0 THEN cells ELSE
          LET before == step[k - 1]
          IN  Copied(before, at[k - 1], <<IF k = length THEN cells[c + 1] ELSE before[at[k] + 1]>>)
    IN  step[length]

Rotated(cells, by) ==
    FoldLeft(LAMBDA s, c : RotatedCycle(s, by, c), cells, [c \in 1 .. CommonFactor(Len(cells), by) |-> c - 1])

\* pack() within the block.
\* A mutant: the head is saved wherever it fits behind the tail.
PackedOverlapping(f) ==
    LET tail == Capacity(f) - f.read
        head == f.read + f.size - Capacity(f)
        cells ==
          CASE f.size = 0 -> f.cells
            [] f.size > 0 /\ f.size <= tail -> Copied(f.cells, 0, Part(f.cells, f.read, f.size))
            [] OTHER -> LET saved == Copied(f.cells, tail, Part(f.cells, 0, head))
                        IN  Copied(saved, 0, Part(saved, f.read, tail))
    IN  [f EXCEPT !.cells = cells, !.read = 0]

Packed(f) ==
    LET tail == Capacity(f) - f.read
        head == f.read + f.size - Capacity(f)
        cells ==
          CASE f.size = 0 -> f.cells
            [] f.size > 0 /\ f.size <= tail -> Copied(f.cells, 0, Part(f.cells, f.read, f.size))
            [] f.size > tail /\ f.size <= f.read ->
                 LET saved == Copied(f.cells, tail, Part(f.cells, 0, head))
                 IN  Copied(saved, 0, Part(saved, f.read, tail))
            [] OTHER -> Rotated(f.cells, f.read)
    IN  [f EXCEPT !.cells = cells, !.read = 0]

\* pack() into another block.
PackedInto(f, capacity) ==
    LET tail  == Capacity(f) - f.read
        fresh == [i \in 1 .. capacity |-> Raw]
        cells ==
          CASE f.size = 0 -> fresh
            [] f.size > 0 /\ f.size <= tail -> Copied(fresh, 0, Part(f.cells, f.read, f.size))
            [] OTHER -> Copied(Copied(fresh, tail, Part(f.cells, 0, f.size - tail)), 0, Part(f.cells, f.read, tail))
    IN  [cells |-> cells, read |-> 0, size |-> f.size]

FifoAllocated(f, capacity, ok) ==
    CASE capacity > MaxPushed \/ (capacity \notin {0, Capacity(f)} /\ ~ok) -> f
      [] capacity = Capacity(f) -> [f EXCEPT !.size = 0, !.read = 0]
      [] OTHER -> [cells |-> [i \in 1 .. capacity |-> Raw], read |-> 0, size |-> 0]

FifoReallocated(f, capacity, ok) ==
    CASE capacity < f.size \/ capacity > MaxPushed \/ (capacity \notin {0, Capacity(f)} /\ ~ok) -> f
      [] capacity = Capacity(f) -> Packed(f)
      [] OTHER -> PackedInto(f, capacity)

FifoEnsuredFree(f, extra, ok) ==
    IF extra > MaxPushed - f.size \/ f.size + extra <= Capacity(f) THEN f
    ELSE FifoReallocated(f, Max({Growth(f.size + extra), Capacity(f)}), ok)

FifoShrunkToFit(f, ok) == IF f.size = 0 THEN NoFifo ELSE FifoReallocated(f, f.size, ok)

Consecutive(first, n) == [i \in 1 .. n |-> (first + i - 1) % Numbers]

Push(n) ==
    /\ n <= Available(fifo)
    /\ fifo' = FifoPushedBack(fifo, Consecutive(pushed, n))
    /\ pushed' = (pushed + n) % Numbers

RemoveFront(n) == fifo' \in {PoppedFront(fifo, n).fifo, Discarded(fifo, n)} /\ UNCHANGED pushed

Manage(ok) ==
    /\ fifo' \in {FifoAllocated(fifo, c, ok) : c \in 0 .. MaxPushed} \cup {FifoReallocated(fifo, c, ok) : c \in 0 .. MaxPushed}
         \cup {FifoEnsuredFree(fifo, n, ok) : n \in 0 .. MaxPushed} \cup {FifoShrunkToFit(fifo, ok), Packed(fifo)}
    /\ UNCHANGED pushed

FifoNext == (\E n \in 1 .. MaxPushed : Push(n) \/ RemoveFront(n)) \/ \E ok \in BOOLEAN : Manage(ok)
-----------------------------------------------------------------------------
(* TInstance.                                                                *)

\* emplace(): in the storage there is, or in storage of its own if it is allocated.
Emplace(o, new, ok) ==
    /\ new \in 1 .. MaxObjects \ alive
    /\ object' = IF object[o] # None \/ ok THEN [object EXCEPT ![o] = new] ELSE object
    /\ alive' = ((alive \ {object[o]}) \cup {object'[o]}) \ {None}

\* destroy_and_deallocate()
Reset(o) == object' = [object EXCEPT ![o] = None] /\ alive' = alive \ {object[o]}

\* operator=(TInstance&&), which a self-assignment leaves alone.
MoveOver(to, from) ==
    /\ IF to = from THEN UNCHANGED object
       ELSE object' = [object EXCEPT ![to] = object[from], ![from] = None]
    /\ alive' = IF to = from THEN alive ELSE alive \ {object[to]}

Swap(a, b) == object' = [object EXCEPT ![a] = object[b], ![b] = object[a]] /\ UNCHANGED alive

InstanceNext ==
    \/ \E o \in Owners, n \in 1 .. MaxObjects, ok \in BOOLEAN : Emplace(o, n, ok)
    \/ \E o \in Owners : Reset(o)
    \/ \E a, b \in Owners : MoveOver(a, b) \/ Swap(a, b)

Next ==
    \/ FifoInit /\ InstanceInit /\ VectorNext /\ UNCHANGED <<fifo, pushed, object, alive>>
    \/ VectorInit /\ InstanceInit /\ FifoNext /\ UNCHANGED <<vector, object, alive>>
    \/ VectorInit /\ FifoInit /\ InstanceNext /\ UNCHANGED <<vector, fifo, pushed>>

Spec == Init /\ [][Next]_vars
-----------------------------------------------------------------------------
(* Properties.                                                               *)

Cut(s, index, n) == SubSeq(s, 1, index) \o SubSeq(s, index + n + 1, Len(s))
Joined(s, index, items) == SubSeq(s, 1, index) \o items \o SubSeq(s, index + 1, Len(s))
Count(s, x) == Cardinality({i \in DOMAIN s : s[i] = x})
IsRearranged(s, t) == \A x \in ToSet(s) \cup ToSet(t) : Count(s, x) = Count(t, x)
IsPrefixOf(s, t) == s = SubSeq(t, 1, Len(s))

(* In every state of the block, spare elements from earlier contents included,
   each operation does to the contents what the same operation does to a
   sequence, or leaves the vector as it was; it fails only where an allocation
   fails or the elements exceed the limit; and once ensure_free() has succeeded
   a push of that many elements allocates nothing. *)
VectorIsSequence ==
    LET s == Contents(vector)
    IN  /\ vector.size <= Capacity(vector) /\ Capacity(vector) <= MaxElements
        /\ \A ok \in BOOLEAN : \A items \in Items : \A i \in 0 .. Len(s) :
             LET n    == Len(items)
                 r    == Inserted(vector, i, items, ok)
                 w    == SwapInserted(vector, i, items, ok)
                 fits == Len(s) + n <= MaxElements
             IN  /\ r # vector => fits /\ Contents(r) = Joined(s, i, items)
                 /\ fits /\ (ok \/ n <= Room(vector)) => r # vector
                 /\ w = vector \/ n > Len(s) - i \/
                      /\ IsPrefixOf(SubSeq(s, 1, i) \o items, Contents(w))
                      /\ IsRearranged(Contents(w), s \o items)
                 /\ fits => Contents(PushedBack(EnsuredFree(vector, n, TRUE), items, FALSE)) = s \o items
        /\ \A i \in 0 .. Len(s) : \A n \in 0 .. Len(s) - i :
             /\ Contents(Erased(vector, i, n)) = Cut(s, i, n)
             /\ IsRearranged(Contents(SwapErased(vector, i, n)), Cut(s, i, n))
             /\ IsPrefixOf(SubSeq(s, 1, i), Contents(SwapErased(vector, i, n)))
             /\ Contents(PoppedBack(vector, n).vector) \o Reverse(PoppedBack(vector, n).items) = s
        /\ \A size \in 0 .. MaxElements :
             /\ Contents(Resized(vector, size, TRUE)) = SubSeq(s \o Zeros(MaxElements), 1, size)
             /\ Contents(Reserved(vector, size, TRUE)) = s /\ Capacity(Reserved(vector, size, TRUE)) >= size
        /\ Contents(ShrunkToFit(vector, TRUE)) = s /\ Capacity(ShrunkToFit(vector, TRUE)) = Len(s)

(* swap_insert() is no exception: whatever is inserted where, no element is
   lost and memory nobody has written is not exposed. *)
SwapInsertKeepsElements ==
    LET s == Contents(vector)
    IN  \A items \in Items : \A i \in 0 .. Len(s) :
          LET r == SwapInserted(vector, i, items, TRUE)
          IN  r.size = Len(s) + Len(items) => IsRearranged(Contents(r), s \o items)
FifoContents(f) == [i \in 1 .. f.size |-> f.cells[1 + ((f.read + i - 1) % Capacity(f))]]

(* The elements are those pushed last, in order, after any mixture of wraps,
   growth and packing; each way to pack keeps them in their order at the
   beginning; both ways to remove agree; and ensured room can be used. *)
FifoKeepsOrder ==
    /\ fifo.size <= Capacity(fifo) /\ (fifo.read < Capacity(fifo) \/ fifo = NoFifo) /\ (fifo.size = 0 => fifo.read = 0)
    /\ FifoContents(fifo) = Consecutive(pushed + Numbers * MaxPushed - fifo.size, fifo.size)
    /\ SubSeq(Packed(fifo).cells, 1, fifo.size) = FifoContents(fifo)
    /\ \A n \in 1 .. fifo.size :
         /\ PoppedFront(fifo, n).fifo = Discarded(fifo, n)
         /\ PoppedFront(fifo, n).items \o FifoContents(Discarded(fifo, n)) = FifoContents(fifo)
    /\ \A n \in 1 .. MaxPushed - fifo.size : Available(FifoEnsuredFree(fifo, n, TRUE)) >= n
(* Every object that is alive has exactly one owner, and no owner holds an
   object that was destroyed. *)
ObjectsAreOwned ==
    /\ alive = {object[o] : o \in Owners} \ {None}
    /\ \A a, b \in Owners : object[a] = object[b] => a = b \/ object[a] = None
=============================================================================

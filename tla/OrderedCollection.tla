------------------------- MODULE OrderedCollection -------------------------
(***************************************************************************)
(* TOrderedCollection: objects with unique keys over the ordered slots.    *)
(* An object is constructed in a cell of address-stable storage; slots[i]  *)
(* says which cell slot i is bound to and whether the cell has memory and  *)
(* an object.  The bindings and the keys move when slots are packed, the   *)
(* objects never.  Each of the three layers, slots, keys and cells, grows  *)
(* by an allocation of its own that may fail.                              *)
(*                                                                         *)
(* After it, TPodOrderedSlots: values beside the same slots.  A container  *)
(* is one or the other, and moves its own variables only.                  *)
(***************************************************************************)
EXTENDS OrderedSlots

CONSTANTS
    MinimumSlots,       \* the least initial capacity, 32
    Growth(_)           \* the growth policy: a capacity for a minimum

VARIABLES
    slots,              \* m_slots: the state and the cell of each slot
    mapped,             \* m_storage.count(): the cells below it have memory
    cells,              \* the key of the object in each cell
    size,               \* of TPodOrderedSlots: m_slots.size() and m_keys.size()
    values,             \* its m_slots; where nobody reads it, Vacant
    torn                \* history: the last growth failed half-way

collectionVars == <<table, payload, slots, mapped, cells, torn>>

(* algo::validate_extracted_permutation() and validate_raw_permutation():  *)
(* whether the values found in an array are those from a base value on,    *)
(* each once, without memory to tick them off.  The range of values is     *)
(* halved again and again; as every value lies in the range, it is enough  *)
(* to count those in the lower halves.                                     *)

\* How many values lie in [lo, lo + width); the differences are unsigned.
Population(array, lo, width) == Cardinality({i \in DOMAIN array : array[i] - lo \in 0 .. width - 1})

IsPermutation(array, base) ==
    LET n == Cardinality(DOMAIN array)
        Halves[lo \in base .. base + n, hi \in base .. base + n] ==
          \/ hi - lo <= 1
          \/ LET mid == lo + ((hi - lo) \div 2)
             IN  Population(array, lo, mid - lo) = mid - lo /\ Halves[lo, mid] /\ Halves[mid, hi]
    IN  /\ \A i \in DOMAIN array : array[i] - base \in 0 .. n - 1
        /\ Halves[base, base + n]

\* Of raw values, in the lower half of what their bits can represent.
IsRawPermutation(array, base, bits) ==
    LET n == Cardinality(DOMAIN array)
    IN  n = 0 \/ (base < 2^(bits - 1) /\ n <= 2^(bits - 1) - base /\ IsPermutation(array, base))

Raw == Vacant           \* a cell without an object

Unmapped(i) == [state |-> "Unmapped", cell |-> i]

CollectionInit ==
    /\ Init
    /\ slots = <<>> /\ mapped = 0
    /\ cells = [c \in Slots |-> Raw]
    /\ torn = FALSE

\* deallocate() destroys every object; initialise() does so first, and leaves
\* it there when one of its allocations fails.
Deallocate ==
    /\ table' = NoTable
    /\ payload' = [i \in Slots |-> Vacant]
    /\ slots' = <<>> /\ mapped' = 0
    /\ cells' = [c \in Slots |-> Raw]
    /\ torn' = FALSE

InitialiseCollection(n) ==
    LET k == IF n < MinimumSlots THEN MinimumSlots ELSE n
    IN  /\ table' = Empty(k)
        /\ payload' = [i \in Slots |-> Vacant]
        /\ slots' = [i \in 0 .. k - 1 |-> Unmapped(i)]
        /\ mapped' = 0
        /\ cells' = [c \in Slots |-> Raw]
        /\ torn' = FALSE

\* on_reserve_empty() where both allocations succeed.
ReservedSlots(n) ==
    [i \in DOMAIN slots \cup 0 .. n - 1 |-> IF i \in DOMAIN slots THEN slots[i] ELSE Unmapped(i)]

MustGrow == IsSafe /\ table.head.empty = None /\ Capacity(table) < CapacityLimit
Grown == Growth(Capacity(table) + 1)

\* The slot data have grown and the slots then fail to: both sizes differ until
\* a later growth succeeds.
GrowthFails(key) ==
    /\ MustGrow /\ ~HasDuplicateKey(key)
    /\ slots' = ReservedSlots(Grown)
    /\ torn' = TRUE
    /\ UNCHANGED <<table, payload, mapped, cells>>

\* An empty slot in key order; the object is constructed in its cell, which is
\* given memory first where it has none.  Without the memory the slot is erased.
Emplace(key) ==
    /\ IsSafe /\ ~HasDuplicateKey(key)
    /\ table.head.empty # None \/ MustGrow
    /\ torn' = (torn /\ ~MustGrow)
    /\ LET t     == IF MustGrow THEN Resized(table, Grown) ELSE table
           data  == IF MustGrow THEN ReservedSlots(Grown) ELSE slots
           i     == t.head.empty
           after == [payload EXCEPT ![i] = key]
           taken == Acquired(t, after, i, TRUE)
           cell  == data[i].cell
       IN  \/ /\ table' = taken
              /\ payload' = after
              /\ slots' = [data EXCEPT ![i].state = "Constructed"]
              /\ cells' = [cells EXCEPT ![cell] = key]
              /\ mapped' = IF data[i].state = "Mapped" \/ mapped > cell THEN mapped ELSE cell + 1
           \/ /\ data[i].state = "Unmapped" /\ cell >= mapped
              /\ table' = Erased(taken, i)
              /\ slots' = data
              /\ UNCHANGED <<payload, mapped, cells>>

EraseObject(i) ==
    /\ i \in DOMAIN slots /\ slots[i].state = "Constructed"
    /\ Erase(i)
    /\ slots' = [slots EXCEPT ![i].state = "Mapped"]
    /\ cells' = [cells EXCEPT ![slots[i].cell] = Raw]
    /\ UNCHANGED <<mapped, torn>>

\* Keys and bindings move together, along the same cycles.
SortAndPackObjects ==
    /\ SortAndPack(FALSE)
    /\ slots' = MovedInPlace(slots, Ranked(table))
    /\ UNCHANGED <<mapped, cells, torn>>

CollectionNext ==
    \/ \E n \in 0 .. CapacityLimit : InitialiseCollection(n)
    \/ Deallocate \/ SortAndPackObjects
    \/ \E key \in Payloads : Emplace(key) \/ GrowthFails(key)
    \/ \E i \in Slots : EraseObject(i)

CollectionSpec == CollectionInit /\ [][CollectionNext]_collectionVars
----------------------------------------------------------------------------
\* get_object(key): the cell of the slot that the search finds.
GetObject(key) ==
    LET i == LocateAnyEqual(key)
    IN  IF i # None /\ slots[i].state = "Constructed" THEN slots[i].cell ELSE None

\* reverse_lookup_slot_index_scan(): the slot of an object, by its address.
ReverseLookup(c) ==
    LET found == {i \in DOMAIN slots : slots[i].state = "Constructed" /\ slots[i].cell = c}
    IN  IF found = {} THEN None ELSE Min(found)

\* first_live(), next_live() and so on.
LiveCells == [n \in DOMAIN LexedOrder(table) |-> slots[LexedOrder(table)[n]].cell]

\* is_valid(): the data of the slots are as many as the slots.
IsValid == DOMAIN slots = DOMAIN table.meta /\ mapped <= Cardinality(DOMAIN slots)

\* Slot states against the slots below, and the permutation of the cells.
MetadataIsCoherent ==
    /\ \A i \in DOMAIN slots :
         /\ i \in DOMAIN table.meta =>
              table.meta[i].state = (IF slots[i].state = "Constructed" THEN "lexed" ELSE "empty")
         /\ slots[i].state # "Unmapped" => slots[i].cell < mapped
    /\ IsPermutation([i \in DOMAIN slots |-> slots[i].cell], 0)

KeysAreUnique == \A i, j \in ToSet(LexedOrder(table)) : i # j => KeyOf(payload[i]) # KeyOf(payload[j])

\* check_integrity(): false of a collection that is not ready.
CheckIntegrity == IsSafe /\ IsValid /\ IntegrityHolds /\ MetadataIsCoherent /\ KeysAreUnique
----------------------------------------------------------------------------
(* Properties.                                                              *)

(* Whichever allocation failed and however slots were packed, a ready collection
   passes its integrity check, except from a growth that failed half-way until
   one succeeds; and then the sizes are all that is wrong: there are more data
   than slots, and what is beyond the slots is unmapped. *)
IntegrityIsKept ==
    IsSafe =>
      /\ CheckIntegrity <=> ~torn
      /\ DOMAIN table.meta \subseteq DOMAIN slots /\ mapped <= Cardinality(DOMAIN slots)
      /\ \A i \in DOMAIN slots \ DOMAIN table.meta : slots[i].state = "Unmapped"
      /\ IntegrityHolds /\ MetadataIsCoherent /\ KeysAreUnique

(* A search by key finds the cell in which the object with that key was
   constructed, and nothing if there is none; the traversal visits the objects
   in the order of their keys, and the address of each gives back its slot. *)
SearchesFindObjects ==
    /\ \A key \in Payloads :
         LET c == GetObject(key)
         IN  IF c = None THEN \A d \in Slots : cells[d] # key ELSE cells[c] = key
    /\ LET live == LiveCells
       IN  /\ ToSet(live) = {c \in Slots : cells[c] # Raw}
           /\ \A n \in DOMAIN live :
                /\ n > 1 => KeyOf(cells[live[n - 1]]) < KeyOf(cells[live[n]])
                /\ ReverseLookup(live[n]) = LexedOrder(table)[n]

Stored == [c \in {slots[i].cell : i \in {j \in DOMAIN slots : slots[j].state = "Constructed"}} |-> cells[c]]

Store == INSTANCE ObjectStore WITH
    Addresses <- Slots, Keys <- Payloads, Unique <- TRUE, Renumbers <- FALSE,
    objects <- Stored

(* An object keeps its address while slots grow, are erased and are packed, and
   is destroyed exactly when it is erased.
   This is Store!Spec, asked of the steps of the container. *)
IsObjectStore == Store!Init /\ [][UNCHANGED collectionVars \/ Store!Next \/ UNCHANGED Stored]_collectionVars
-----------------------------------------------------------------------------
(* TPodOrderedSlots: values under unique keys, in arrays beside the ordered
   slots: values[i] and payload[i] are the value and the key of slot i, and
   packing moves both. *)

podVars == <<table, payload, size, values, torn>>

PodInit ==
    /\ Init
    /\ size = 0
    /\ values = [i \in Slots |-> Vacant]
    /\ torn = FALSE

\* deallocate(), and an initialise() whose allocations fail.
DeallocatePod ==
    /\ Shutdown
    /\ size' = 0
    /\ values' = [i \in Slots |-> Vacant]
    /\ torn' = FALSE

InitialisePod(n) ==
    LET c == IF n < MinimumSlots THEN MinimumSlots ELSE n
    IN  /\ Initialise(c)
        /\ size' = c
        /\ values' = [i \in Slots |-> Vacant]
        /\ torn' = FALSE

\* The two arrays have grown and the slots then fail to.
PodGrowthFails(key) ==
    /\ MustGrow /\ ~HasDuplicateKey(key)
    /\ size' = Grown
    /\ torn' = TRUE
    /\ UNCHANGED <<table, payload, values>>

Insert(key, value) ==
    /\ IsSafe /\ ~HasDuplicateKey(key)
    /\ table.head.empty # None \/ MustGrow
    /\ LET t     == IF MustGrow THEN Resized(table, Grown) ELSE table
           i     == t.head.empty
           after == [payload EXCEPT ![i] = key]
       IN  /\ table' = Acquired(t, after, i, TRUE)
           /\ payload' = after
           /\ values' = [values EXCEPT ![i] = value]
           /\ size' = IF MustGrow THEN Grown ELSE size
           /\ torn' = (torn /\ ~MustGrow)

ErasePod(i) ==
    /\ Erase(i)
    /\ values' = [values EXCEPT ![i] = Vacant]
    /\ UNCHANGED <<size, torn>>

SortAndPackPod ==
    /\ SortAndPack(FALSE)
    /\ values' = MovedInPlace(values, Ranked(table))
    /\ UNCHANGED <<size, torn>>

PodNext ==
    \/ \E n \in 0 .. CapacityLimit : InitialisePod(n)
    \/ DeallocatePod \/ SortAndPackPod
    \/ \E key \in Payloads : PodGrowthFails(key) \/ \E value \in Payloads : Insert(key, value)
    \/ \E i \in Slots : ErasePod(i)

PodSpec == PodInit /\ [][PodNext]_podVars
----------------------------------------------------------------------------
GetSlot(key) ==
    LET i == LocateAnyEqual(key) IN IF i = None THEN Vacant ELSE values[i]

\* is_valid() and check_integrity().
PodIsValid == size = Capacity(table)
PodCheckIntegrity == IsSafe /\ PodIsValid /\ IntegrityHolds /\ KeysAreUnique
----------------------------------------------------------------------------
(* Properties.                                                              *)

(* A ready container passes its integrity check, except from a growth that
   failed half-way until one succeeds, when its arrays are too long and all else
   is sound. *)
PodIntegrityIsKept ==
    IsSafe =>
      /\ PodCheckIntegrity <=> ~torn
      /\ Capacity(table) <= size /\ IntegrityHolds /\ KeysAreUnique

StoredValues == [key \in {k \in Payloads : GetSlot(k) # Vacant} |-> GetSlot(key)]

ValueStore == INSTANCE ObjectStore WITH
    Addresses <- Payloads, Keys <- Payloads, Unique <- FALSE, Renumbers <- FALSE,
    objects <- StoredValues

(* The container is a map from keys to the values inserted under them.
   This is ValueStore!Spec, asked of the steps of the container. *)
IsMap == ValueStore!Init /\ [][UNCHANGED podVars \/ ValueStore!Next \/ UNCHANGED StoredValues]_podVars
=============================================================================

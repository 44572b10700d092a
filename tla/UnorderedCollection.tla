------------------------ MODULE UnorderedCollection ------------------------
(***************************************************************************)
(* TUnorderedCollection: objects over the unordered slots, each in a cell  *)
(* of address-stable storage to which its slot is bound.  payload is what  *)
(* the holder of a slot number expects in it.  Packing swaps bindings and  *)
(* leaves the objects where they are.                                      *)
(*                                                                         *)
(* After it, TPodUnorderedSlots: values beside the same slots.             *)
(***************************************************************************)
EXTENDS UnorderedSlots

CONSTANTS
    IsPermutation(_, _),    \* algo::validate_extracted_permutation(), as in OrderedCollection
    MinimumSlots,       \* the least initial capacity, 32
    Growth(_)           \* the growth policy: a capacity for a minimum

VARIABLES
    slots,              \* m_slots: the state and the cell of each slot
    mapped,             \* m_storage.count(): the cells below it have memory
    cells,              \* the object in each cell
    size,               \* of TPodUnorderedSlots: m_slots.size(); its elements are payload
    torn                \* history: the last growth failed half-way

collectionVars == <<index, payload, slots, mapped, cells, torn>>

Raw == Vacant           \* a cell without an object

Unmapped(i) == [state |-> "Unmapped", cell |-> i]

CollectionInit ==
    /\ Init
    /\ slots = <<>> /\ mapped = 0
    /\ cells = [c \in Slots |-> Raw]
    /\ torn = FALSE

\* deallocate(), and an initialise() whose allocations fail.
Deallocate ==
    /\ Shutdown
    /\ slots' = <<>> /\ mapped' = 0
    /\ cells' = [c \in Slots |-> Raw]
    /\ torn' = FALSE

InitialiseCollection(n) ==
    LET k == IF n < MinimumSlots THEN MinimumSlots ELSE n
    IN  /\ Initialise(k)
        /\ slots' = [i \in 0 .. k - 1 |-> Unmapped(i)]
        /\ mapped' = 0
        /\ cells' = [c \in Slots |-> Raw]
        /\ torn' = FALSE

ReservedSlots(n) ==
    [i \in DOMAIN slots \cup 0 .. n - 1 |-> IF i \in DOMAIN slots THEN slots[i] ELSE Unmapped(i)]

MustGrow == IsSafe /\ index.head["empty"] = None /\ Capacity(index) < CapacityLimit
Grown == Growth(Capacity(index) + 1)

\* The slot data have grown and the slots then fail to.
GrowthFails ==
    /\ MustGrow
    /\ slots' = ReservedSlots(Grown)
    /\ torn' = TRUE
    /\ UNCHANGED <<index, payload, mapped, cells>>

Emplace(object) ==
    /\ IsSafe /\ (index.head["empty"] # None \/ MustGrow)
    /\ torn' = (torn /\ ~MustGrow)
    /\ LET x     == IF MustGrow THEN Resized(index, Grown) ELSE index
           data  == IF MustGrow THEN ReservedSlots(Grown) ELSE slots
           i     == x.head["empty"]
           taken == Counted(MoveToLooseList(x, i), i)
           cell  == data[i].cell
       IN  \/ /\ index' = taken
              /\ payload' = [payload EXCEPT ![i] = object]
              /\ slots' = [data EXCEPT ![i].state = "Constructed"]
              /\ cells' = [cells EXCEPT ![cell] = object]
              /\ mapped' = IF data[i].state = "Mapped" \/ mapped > cell THEN mapped ELSE cell + 1
           \/ /\ data[i].state = "Unmapped" /\ cell >= mapped    \* no memory for the cell
              /\ index' = Erased(taken, i)
              /\ slots' = data
              /\ UNCHANGED <<payload, mapped, cells>>

EraseObject(i) ==
    /\ i \in DOMAIN slots /\ slots[i].state = "Constructed"
    /\ Erase(i)
    /\ slots' = [slots EXCEPT ![i].state = "Mapped"]
    /\ cells' = [cells EXCEPT ![slots[i].cell] = Raw]
    /\ UNCHANGED <<mapped, torn>>

PackObjects ==
    /\ Pack
    /\ slots' = Compacted(index, slots)
    /\ UNCHANGED <<mapped, cells, torn>>

CollectionNext ==
    \/ \E n \in 0 .. CapacityLimit : InitialiseCollection(n)
    \/ Deallocate \/ PackObjects \/ GrowthFails
    \/ \E object \in Payloads : Emplace(object)
    \/ \E i \in Slots : EraseObject(i)

CollectionSpec == CollectionInit /\ [][CollectionNext]_collectionVars
----------------------------------------------------------------------------
GetObject(i) ==
    IF i \in DOMAIN slots /\ slots[i].state = "Constructed" THEN cells[slots[i].cell] ELSE Raw

\* reverse_lookup_slot_index_scan(): the slot of an object, by its address.
ReverseLookup(c) ==
    LET found == {i \in DOMAIN slots : slots[i].state = "Constructed" /\ slots[i].cell = c}
    IN  IF found = {} THEN None ELSE Min(found)

\* first_live(), next_live() and so on.
Live == ListOf(index, "loose")

\* is_valid(): the data of the slots are as many as the slots.
IsValid == DOMAIN slots = DOMAIN index.meta /\ mapped <= Cardinality(DOMAIN slots)

\* Slot states against the slots below, and the permutation of the cells.
MetadataIsCoherent ==
    /\ \A i \in DOMAIN slots :
         /\ i \in DOMAIN index.meta =>
              index.meta[i].state = (IF slots[i].state = "Constructed" THEN "loose" ELSE "empty")
         /\ slots[i].state # "Unmapped" => slots[i].cell < mapped
    /\ IsPermutation([i \in DOMAIN slots |-> slots[i].cell], 0)

\* check_integrity(): false of a collection that is not ready.
CheckIntegrity == IsSafe /\ IsValid /\ IntegrityHolds /\ MetadataIsCoherent
----------------------------------------------------------------------------
(* Properties.                                                              *)

(* A ready collection passes its integrity check, except from a growth that
   failed half-way until one succeeds; and then the sizes are all that is wrong:
   there are more data than slots, and what is beyond the slots is unmapped. *)
IntegrityIsKept ==
    IsSafe =>
      /\ CheckIntegrity <=> ~torn
      /\ DOMAIN index.meta \subseteq DOMAIN slots /\ mapped <= Cardinality(DOMAIN slots)
      /\ \A i \in DOMAIN slots \ DOMAIN index.meta : slots[i].state = "Unmapped"
      /\ IntegrityHolds /\ MetadataIsCoherent

(* A slot number gives the object that was emplaced under it, also after the
   swaps of packing have renumbered it, an empty one gives none, and the
   traversal comes to every object, whose address gives back its slot. *)
SlotsGiveTheirObjects ==
    /\ \A i \in Slots : GetObject(i) = payload[i]
    /\ ToSet(Live) = {i \in DOMAIN slots : slots[i].state = "Constructed"}
    /\ \A i \in ToSet(Live) : ReverseLookup(slots[i].cell) = i

Stored == [c \in {slots[i].cell : i \in {j \in DOMAIN slots : slots[j].state = "Constructed"}} |-> cells[c]]

Store == INSTANCE ObjectStore WITH
    Addresses <- Slots, Keys <- Payloads, Unique <- FALSE, Renumbers <- FALSE,
    objects <- Stored

(* An object keeps its address and is destroyed exactly when it is erased.
   This is Store!Spec, asked of the steps of the container. *)
IsObjectStore == Store!Init /\ [][UNCHANGED collectionVars \/ Store!Next \/ UNCHANGED Stored]_collectionVars
-----------------------------------------------------------------------------
(* TPodUnorderedSlots: values in an array beside the unordered slots.  The
   number of its slot is the name of a value until the slots are packed. *)

podVars == <<index, payload, size, torn>>

PodInit == Init /\ size = 0 /\ torn = FALSE

\* deallocate(), and an initialise() whose allocations fail.
DeallocatePod == Shutdown /\ size' = 0 /\ torn' = FALSE

InitialisePod(n) ==
    LET c == IF n < MinimumSlots THEN MinimumSlots ELSE n
    IN  Initialise(c) /\ size' = c /\ torn' = FALSE

\* The array has grown and the slots then fail to.
PodGrowthFails ==
    /\ MustGrow
    /\ size' = Grown
    /\ torn' = TRUE
    /\ UNCHANGED <<index, payload>>

Insert(value) ==
    /\ IsSafe /\ (index.head["empty"] # None \/ MustGrow)
    /\ LET x == IF MustGrow THEN Resized(index, Grown) ELSE index
           i == x.head["empty"]
       IN  /\ index' = Counted(MoveToLooseList(x, i), i)
           /\ payload' = [payload EXCEPT ![i] = value]
           /\ size' = IF MustGrow THEN Grown ELSE size
           /\ torn' = (torn /\ ~MustGrow)

ErasePod(i) == Erase(i) /\ UNCHANGED <<size, torn>>

PackPod == Pack /\ UNCHANGED <<size, torn>>

PodNext ==
    \/ \E n \in 0 .. CapacityLimit : InitialisePod(n)
    \/ DeallocatePod \/ PackPod \/ PodGrowthFails
    \/ \E value \in Payloads : Insert(value)
    \/ \E i \in Slots : ErasePod(i)

PodSpec == PodInit /\ [][PodNext]_podVars

\* is_valid() and check_integrity().
PodIsValid == size = Capacity(index)
PodCheckIntegrity == IsSafe /\ PodIsValid /\ IntegrityHolds
----------------------------------------------------------------------------
(* Properties.                                                              *)

(* A ready container passes its integrity check, except from a growth that
   failed half-way until one succeeds, when its array is too long and all else
   is sound. *)
PodIntegrityIsKept ==
    IsSafe => (PodCheckIntegrity <=> ~torn) /\ Capacity(index) <= size /\ IntegrityHolds

StoredValues == [i \in {j \in Slots : payload[j] # Vacant} |-> payload[i]]

ValueStore == INSTANCE ObjectStore WITH
    Addresses <- Slots, Keys <- Payloads, Unique <- FALSE, Renumbers <- TRUE,
    objects <- StoredValues

(* Every value stays under its number until packing, which renumbers all in
   ascending order.
   This is ValueStore!Spec, asked of the steps of the container. *)
IsArray == ValueStore!Init /\ [][UNCHANGED podVars \/ ValueStore!Next \/ UNCHANGED StoredValues]_podVars
=============================================================================

----------------------------- MODULE MCContainers -----------------------------
(***************************************************************************)
(* The containers for TLC: the ordered and the unordered slots under every *)
(* sequence of operations, and ordered slots that start as a tree as thin  *)
(* as an AVL tree may be, so that a removal rotates at two levels; the     *)
(* four containers over slots; and the vector, the fifo, the buffers, the  *)
(* string table and the instance.  They share nothing: moving says which   *)
(* one moves, and the others stay in their initial states.                 *)
(***************************************************************************)
EXTENDS OrderedCollection

CONSTANTS
    SlotPayloads, SlotLimit, UnsortedLimit,     \* of the containers of slots alone
    DeepHeight,                                 \* height of the thin trees
    DeepSteps,                                  \* operations on a thin tree
    Objects, PodLimit, PodKeys,                 \* of the other containers over slots
    VectorLimit, FifoLimit, BufferLimit,        \* capacity limits
    FifoNumbers,                                \* what a fifo is given
    VectorItems, BufferTexts, Strings,          \* what is appended at once
    BlockGrowth(_), TextGrowth(_),              \* growth policies
    Allocations,                                \* those that succeed before one fails
    BlockAligns,                                \* alignments asked for
    RectWidth, RectRows, RectBytes,             \* shapes of a rect
    InstanceOwners, InstanceObjects

VARIABLES
    moving,                                     \* the container that moves
    sorted, sortedCells, index, indexCells, deep, deepCells, steps,
    looseIndex, holder, bound, filled, objects, \* of the unordered collection
    podTable, podKeys,                          \* of the ordered values, with size and values
    podIndex, podCells, cellsSize,              \* of the unordered values
    looseTorn, podTorn, cellsTorn,              \* of these three
    vector, fifo, pushed, buffer, rect, strings, given, object, alive

MCHalf(x) == x \div 2
MCKeyOf(x) == x
MCGrowth(n) == IF n = 3 THEN 4 ELSE n
MCBlockGrowth(n) == CASE n <= 2 -> 3 [] n \in {3, 4} -> 4 [] OTHER -> 5
MCTextGrowth(n) == CASE n <= 4 -> 4 [] n \in 5 .. 8 -> 8 [] OTHER -> 12
MCStrings == {<<>>, <<1>>, <<1, 2>>, <<2>>}
MCItems == {<<1>>, <<1, 2>>, <<2, 1, 2>>}
MCTexts == {<<1>>, <<1, 2>>}

Sorted == INSTANCE OrderedSlots WITH
    CapacityLimit <- SlotLimit, Payloads <- SlotPayloads, KeyOf <- MCHalf,
    table <- sorted, payload <- sortedCells

Unsorted == INSTANCE UnorderedSlots WITH
    CapacityLimit <- UnsortedLimit, Payloads <- Objects, payload <- indexCells

ThinSize[h \in Nat] == IF h < 2 THEN h ELSE 1 + ThinSize[h - 1] + ThinSize[h - 2]

DeepCount == ThinSize[DeepHeight]
DeepLimit == DeepCount + 1

\* The slots hold even payloads, so that an odd one fits between any two.
Deep == INSTANCE OrderedSlots WITH
    CapacityLimit <- DeepLimit, Payloads <- 1 .. 2 * DeepLimit, KeyOf <- LAMBDA x : x,
    table <- deep, payload <- deepCells

RootOf(tree, up) == IF tree = <<>> THEN None ELSE CHOOSE i \in DOMAIN tree : tree[i].parent = up

\* The trees of height h with the fewest slots, numbered from lo in key order:
\* insertion of their slots level by level makes every one of them.
ThinTrees[h \in Nat, lo \in Nat, up \in Int] ==
    IF h = 0 THEN {<<>>}
    ELSE UNION {
        LET hl == IF tall = 0 THEN h - 1 ELSE IF h = 1 THEN 0 ELSE h - 2
            hr == IF tall = 1 THEN h - 1 ELSE IF h = 1 THEN 0 ELSE h - 2
            i  == lo + ThinSize[hl]
        IN  {l @@ r @@ (i :> [parent |-> up, state |-> "lexed", bf |-> hr - hl,
                              child |-> (0 :> RootOf(l, i) @@ 1 :> RootOf(r, i))]) :
               l \in ThinTrees[hl, lo, i], r \in ThinTrees[hr, i + 1, i]}
        : tall \in 0 .. 1}

DeepTable(tree) ==
    [NoTable EXCEPT !.meta = RangeToList(tree @@ (DeepCount :> Unlinked("empty")), DeepCount, DeepCount, "empty"),
                    !.root = RootOf(tree, None), !.head.empty = DeepCount,
                    !.count.lexed = DeepCount, !.count.empty = 1,
                    !.high = DeepCount - 1, !.peakIndex = DeepCount - 1, !.peakUsage = DeepCount]

DeepInit ==
    /\ steps = 0
    /\ deep \in {DeepTable(tree) : tree \in ThinTrees[DeepHeight, 0, None]}
    /\ deepCells = [i \in Deep!Slots |-> IF i < DeepCount THEN 2 * i + 2 ELSE Vacant]

DeepNext ==
    /\ steps < DeepSteps /\ steps' = steps + 1
    /\ \/ \E i \in Deep!Slots : Deep!Erase(i)
       \/ \E gap \in 0 .. DeepCount : Deep!Acquire(None, 2 * gap + 1, TRUE, TRUE, FALSE)

Unordered == INSTANCE UnorderedCollection WITH
    Payloads <- Objects, index <- looseIndex, payload <- holder, slots <- bound, mapped <- filled,
    cells <- objects, torn <- looseTorn

Pod == INSTANCE OrderedCollection WITH
    CapacityLimit <- PodLimit, Payloads <- PodKeys, table <- podTable, payload <- podKeys,
    torn <- podTorn

PodCells == INSTANCE UnorderedCollection WITH
    CapacityLimit <- PodLimit, Payloads <- PodKeys, index <- podIndex, payload <- podCells, size <- cellsSize,
    torn <- cellsTorn

Vectors == INSTANCE PodContainers WITH
    MaxElements <- VectorLimit, Items <- VectorItems, MaxPushed <- FifoLimit, Numbers <- FifoNumbers,
    Growth <- BlockGrowth, Owners <- InstanceOwners, MaxObjects <- InstanceObjects
Buffers == INSTANCE ByteBuffers WITH
    SizeCeiling <- BufferLimit, Growth <- BlockGrowth, Texts <- BufferTexts, Aligns <- BlockAligns,
    MaxWidth <- RectWidth, MaxRows <- RectRows, MaxBytes <- RectBytes
Table == INSTANCE StableStrings WITH table <- strings, Growth <- BlockGrowth

ASSUME StringsAreTexts == Table!StringsAssumption

(* The two validators of permutations, against their definition: they accept
   an array whose values are those from the base on, each once, and no other. *)
ASSUME PermutationsAreRecognised ==
    \A n \in 0 .. 5, base \in 0 .. 2 : \A array \in [1 .. n -> 0 .. n + 2] :
        LET isOne == ToSet(array) = base .. base + n - 1
        IN  /\ IsPermutation(array, base) <=> isOne
            /\ IsRawPermutation(array, base, 3) <=> isOne /\ (n = 0 \/ base + n <= 4)

sortedVars == <<sorted, sortedCells>>
unsortedVars == <<index, indexCells>>
deepVars == <<deep, deepCells, steps>>
unorderedVars == <<looseIndex, holder, bound, filled, objects, looseTorn>>
orderedValueVars == <<podTable, podKeys, size, values, podTorn>>
valueVars == <<podIndex, podCells, cellsSize, cellsTorn>>
vectorVars == <<vector, fifo, pushed, object, alive>>
bufferVars == <<buffer, rect>>
stringVars == <<strings, given>>

allVars == <<moving, sortedVars, unsortedVars, deepVars, collectionVars, unorderedVars, orderedValueVars,
             valueVars, vectorVars, bufferVars, stringVars>>

Containers == {"sorted", "unsorted", "deep", "collection", "unordered", "pod", "podCells",
               "vectors", "buffers", "table"}

AllInit ==
    /\ moving \in Containers
    /\ IF moving = "deep" THEN DeepInit ELSE Deep!Init /\ steps = 0
    /\ Sorted!Init /\ Unsorted!Init /\ CollectionInit /\ Unordered!CollectionInit /\ Pod!PodInit
    /\ PodCells!PodInit /\ Vectors!Init /\ Buffers!Init /\ Table!Init

\* The containers other than one stay as they are.
Only(one) ==
    /\ moving = one /\ UNCHANGED moving
    /\ IF one = "sorted" THEN TRUE ELSE UNCHANGED sortedVars
    /\ IF one = "unsorted" THEN TRUE ELSE UNCHANGED unsortedVars
    /\ IF one = "deep" THEN TRUE ELSE UNCHANGED deepVars
    /\ IF one = "collection" THEN TRUE ELSE UNCHANGED collectionVars
    /\ IF one = "unordered" THEN TRUE ELSE UNCHANGED unorderedVars
    /\ IF one = "pod" THEN TRUE ELSE UNCHANGED orderedValueVars
    /\ IF one = "podCells" THEN TRUE ELSE UNCHANGED valueVars
    /\ IF one = "vectors" THEN TRUE ELSE UNCHANGED vectorVars
    /\ IF one = "buffers" THEN TRUE ELSE UNCHANGED bufferVars
    /\ IF one = "table" THEN TRUE ELSE UNCHANGED stringVars

AllNext ==
    \/ Only("sorted") /\ Sorted!Next
    \/ Only("unsorted") /\ Unsorted!Next
    \/ Only("deep") /\ DeepNext
    \/ Only("collection") /\ CollectionNext
    \/ Only("unordered") /\ Unordered!CollectionNext
    \/ Only("pod") /\ Pod!PodNext
    \/ Only("podCells") /\ PodCells!PodNext
    \/ Only("vectors") /\ Vectors!Next
    \/ Only("buffers") /\ Buffers!Next
    \/ Only("table") /\ Table!Next

AllSpec == AllInit /\ [][AllNext]_allVars
-----------------------------------------------------------------------------
(* Slots and their trees are sound after every operation, and a tree stays
   balanced and in order; every container over slots passes its own integrity
   check after every operation, allocation failures included, but one: from a
   growth whose last allocation failed until a growth that succeeds its sizes
   differ and the check fails, although all that it looks at next is sound. *)
AllIntegrityHolds ==
    /\ moving = "sorted" => Sorted!TypeOK /\ Sorted!IntegrityHolds
    /\ moving = "unsorted" => Unsorted!TypeOK /\ Unsorted!IntegrityHolds
    /\ moving = "deep" => Deep!TypeOK /\ Deep!IntegrityHolds
    /\ moving = "collection" => IntegrityIsKept
    /\ moving = "unordered" => Unordered!IntegrityIsKept
    /\ moving = "pod" => Pod!PodIntegrityIsKept
    /\ moving = "podCells" => PodCells!PodIntegrityIsKept

(* The searches and traversals agree with the contents of the container, and
   give the object emplaced under a key or the number of a slot. *)
AllQueriesAgree ==
    /\ moving = "sorted" => Sorted!QueriesAgree
    /\ moving = "unsorted" => Unsorted!QueriesAgree
    /\ moving = "collection" => SearchesFindObjects
    /\ moving = "unordered" => Unordered!SlotsGiveTheirObjects

(* Every operation on slots moves them between the three sequences as it
   promises, and packing moves every payload to the slot of its rank; objects
   keep their addresses, and values their keys or numbers, until they are
   erased: the containers implement their abstract sequences and stores. *)
ContentsAreKept ==
    /\ Sorted!IsSlotSequences /\ Unsorted!IsSlotSequences
    /\ IsObjectStore /\ Unordered!IsObjectStore /\ Pod!IsMap /\ PodCells!IsArray

(* An id gives the string it was given for, and no string has two ids. *)
IdsKeepStrings == moving = "table" => Table!IdsKeepStrings

(* Vectors and fifos are sequences, and bytes are kept, moved and cleared as
   asked, in buffers and in the rows of a rect, whatever their spare memory
   holds and whichever allocation fails; an owned object is destroyed once. *)
SequencesAreKept ==
    /\ moving = "vectors" =>
         Vectors!VectorIsSequence /\ Vectors!FifoKeepsOrder /\ Vectors!ObjectsAreOwned
    /\ moving = "buffers" => Buffers!BufferIsSequence /\ Buffers!RowsAreKept

(* swap_insert() loses no element of a vector. *)
SwapInsertKeepsElements == Vectors!SwapInsertKeepsElements
=============================================================================

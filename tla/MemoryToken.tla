---------------------------- MODULE MemoryToken ----------------------------
(***************************************************************************)
(* CMemoryToken: the storage of every container.  A relocatable token has  *)
(* one block; a stable one has buffers of a fixed power-of-two capacity,   *)
(* and a directory of them when there are several.  Blocks belong to the   *)
(* memory context of the token, which counts them and their bytes; the     *)
(* token works out from m_count alone what it has allocated when it gives  *)
(* that back, reports it, or has it attributed to another context.         *)
(***************************************************************************)
EXTENDS Integers, FiniteSetsExt, SequencesExt

CONSTANTS
    Tokens,             \* together they are also the storage of one container
    Contexts,           \* CMemoryContext
    AllocatorOf(_),     \* the allocator of each
    Homes,              \* bound: the contexts tokens are configured or cloned in
    BufferLogs,         \* logarithms of buffer capacities
    Counts(_),          \* bound: element counts of a token, by its mode
    TotalCount,         \* bound: elements of all
    Unzeroed,           \* bound: the counts asked for without zeroing
    Failures,           \* bound: how many allocations succeed before one fails
    Blocks,             \* bound: addresses of blocks, positive numbers
    Alignment,          \* sizes are rounded up to it
    MinDirectory,       \* k_min_directory_capacity
    None

VARIABLES
    tokens,             \* mode, context, log2 of the capacity, count, memory
    heap                \* the live blocks, and what each context has counted

vars == <<tokens, heap>>

Raw == -1               \* memory nobody has written
NoToken == [mode |-> "none", context |-> None, log |-> 0, count |-> 0, memory |-> None]

Init ==
    /\ tokens = [t \in Tokens |-> NoToken]
    /\ heap = [blocks |-> <<>>, count |-> [c \in Contexts |-> 0], bytes |-> [c \in Contexts |-> 0]]
----------------------------------------------------------------------------
(* Memory contexts.  `left` is how many more allocations the heap serves.   *)

\* condition_bytes()
Conditioned(n) == ((n + Alignment - 1) \div Alignment) * Alignment

Served(h, left) == [blocks |-> h.blocks, count |-> h.count, bytes |-> h.bytes, left |-> left]
Settled(h) == [blocks |-> h.blocks, count |-> h.count, bytes |-> h.bytes]

\* CMemoryContext::allocate(): [heap, id].
Allocate(h, c, n, initial) ==
    IF h.left = 0 THEN [heap |-> h, id |-> None] ELSE
    LET id == Min(Blocks \ DOMAIN h.blocks)
        b  == [allocator |-> AllocatorOf(c), bytes |-> Conditioned(n), cells |-> initial]
    IN  [heap |-> [h EXCEPT !.blocks = [i \in DOMAIN h.blocks \cup {id} |-> IF i = id THEN b ELSE h.blocks[i]],
                            !.count[c] = @ + 1, !.bytes[c] = @ + Conditioned(n), !.left = @ - 1],
         id   |-> id]

\* CMemoryContext::deallocate(), which takes the size from its caller.
Free(h, c, n, id) ==
    IF h.count[c] < 1 \/ h.bytes[c] < Conditioned(n) THEN h ELSE
    [h EXCEPT !.blocks = [i \in DOMAIN h.blocks \ {id} |-> h.blocks[i]],
              !.count[c] = @ - 1, !.bytes[c] = @ - Conditioned(n)]

FreeAll(h, c, n, ids) == FoldLeft(LAMBDA g, id : Free(g, c, n, id), h, ids)

\* memory::reattribute()
Attributed(h, from, to, count, bytes) ==
    [h EXCEPT !.count[to] = @ + count, !.count[from] = h.count[from] - count,
              !.bytes[to] = @ + bytes, !.bytes[from] = h.bytes[from] - bytes]
----------------------------------------------------------------------------
(* The shape of stable storage.                                             *)

Capacity(t) == 2 ^ t.log
BufferCountFor(t, n) == IF n = 0 THEN 0 ELSE 1 + ((n - 1) \div Capacity(t))
DirectoryBytesFor(n) ==
    IF n <= 1 THEN 0 ELSE Max({MinDirectory, Min({2 ^ k : k \in {j \in 0 .. n : 2 ^ j >= n}})})

BuffersOf(h, t) ==
    CASE t.memory = None \/ t.mode = "relocatable" -> <<>>
      [] BufferCountFor(t, t.count) = 1 -> <<t.memory>>
      [] OTHER -> SubSeq(h.blocks[t.memory].cells, 1, BufferCountFor(t, t.count))

\* index_ptr()
PlaceOf(h, t, i) ==
    IF t.mode = "relocatable" THEN <<t.memory, i + 1>>
    ELSE <<BuffersOf(h, t)[1 + (i \div Capacity(t))], 1 + (i % Capacity(t))>>

ValueAt(h, p) == h.blocks[p[1]].cells[p[2]]
Stored(h, p, v) == [h EXCEPT !.blocks[p[1]].cells[p[2]] = v]

Fill(n, zero) == [i \in 1 .. n |-> IF zero THEN 0 ELSE Raw]

\* allocate_stable_buffers(): [heap, buffers]; None if one of them fails, when
\* those before it in this call are given back.
AllocateStableBuffers(h, t, old, count, zero) ==
    LET size == Capacity(t)
        upTo[n \in Len(old) .. count] ==
          IF n = Len(old) THEN [heap |-> h, buffers |-> old] ELSE
          LET before == upTo[n - 1]
              a      == Allocate(before.heap, t.context, size, Fill(size, zero))
          IN  CASE before.buffers = None -> before
                [] a.id = None -> [heap    |-> FreeAll(before.heap, t.context, size,
                                                       SubSeq(before.buffers, Len(old) + 1, n - 1)),
                                   buffers |-> None]
                [] OTHER -> [heap |-> a.heap, buffers |-> Append(before.buffers, a.id)]
    IN  upTo[count]

\* A new directory with the old buffers and new ones: [heap, memory].
WithDirectory(h, t, old, count, zero) ==
    LET d == Allocate(h, t.context, DirectoryBytesFor(count), <<>>)
        b == AllocateStableBuffers(d.heap, t, old, count, zero)
    IN  CASE d.id = None -> [heap |-> h, memory |-> None]
          [] b.buffers = None -> [heap   |-> Free(b.heap, t.context, DirectoryBytesFor(count), d.id),
                                  memory |-> None]
          [] OTHER -> [heap |-> [b.heap EXCEPT !.blocks[d.id].cells = b.buffers], memory |-> d.id]

\* Storage for n elements, of either mode: [heap, memory].
CreateStorage(h, t, n, zero) ==
    LET size == IF t.mode = "relocatable" THEN n ELSE Capacity(t)
        a    == Allocate(h, t.context, size, Fill(size, zero))
    IN  IF t.mode = "relocatable" \/ BufferCountFor(t, n) = 1
        THEN [heap |-> a.heap, memory |-> a.id]
        ELSE WithDirectory(h, t, <<>>, BufferCountFor(t, n), zero)

ReleaseStorage(h, t) ==
    LET n == BufferCountFor(t, t.count)
    IN  CASE t.memory = None -> h
          [] t.mode = "relocatable" -> Free(h, t.context, t.count, t.memory)
          [] t.mode = "stable" /\ n = 1 -> Free(h, t.context, Capacity(t), t.memory)
          [] OTHER -> Free(FreeAll(h, t.context, Capacity(t), BuffersOf(h, t)),
                           t.context, DirectoryBytesFor(n), t.memory)

\* A mutant: the first of them is left.
ZeroedBehind(h, t, first, last) ==
    FoldLeft(LAMBDA g, i : Stored(g, PlaceOf(h, t, i), 0), h, [k \in 1 .. last - first - 1 |-> first + k])

\* Elements first .. last - 1 are zeroed.
Zeroed(h, t, first, last) ==
    FoldLeft(LAMBDA g, i : Stored(g, PlaceOf(h, t, i), 0), h, [k \in 1 .. last - first |-> first + k - 1])

\* grow(): [heap, token]; an allocation that fails leaves both.
Grown(h, t, n, zero) ==
    LET old    == BufferCountFor(t, t.count)
        new    == BufferCountFor(t, n)
        first  == CreateStorage(h, t, n, zero)
        more   == WithDirectory(h, t, BuffersOf(h, t), new, zero)
        rest   == Min({n, old * Capacity(t)})
        zeroed == IF zero THEN Zeroed(more.heap, t, t.count, rest) ELSE more.heap
    IN  CASE n <= t.count -> [heap |-> h, token |-> t]
          [] n > t.count /\ t.memory = None ->
               [heap  |-> first.heap,
                token |-> IF first.memory = None THEN t ELSE [t EXCEPT !.memory = first.memory, !.count = n]]
          [] n > t.count /\ t.memory # None /\ new = old ->
               [heap |-> IF zero THEN Zeroed(h, t, t.count, n) ELSE h, token |-> [t EXCEPT !.count = n]]
          [] OTHER ->
               IF more.memory = None THEN [heap |-> more.heap, token |-> t] ELSE
               [heap  |-> IF old > 1 THEN Free(zeroed, t.context, DirectoryBytesFor(old), t.memory) ELSE zeroed,
                token |-> [t EXCEPT !.memory = more.memory, !.count = n]]

\* memory_allocation_count() and memory_allocation_size()
AllocationCount(t) ==
    LET n == BufferCountFor(t, t.count)
    IN  CASE t.memory = None -> 0
          [] t.memory # None /\ t.mode = "relocatable" -> 1
          [] OTHER -> IF n > 1 THEN n + 1 ELSE n

\* A mutant: the directory is forgotten.
AllocationSizeOfBuffers(t) ==
    CASE t.memory = None -> 0
      [] t.memory # None /\ t.mode = "relocatable" -> Conditioned(t.count)
      [] OTHER -> BufferCountFor(t, t.count) * Conditioned(Capacity(t))

AllocationSize(t) ==
    LET n == BufferCountFor(t, t.count)
    IN  CASE t.memory = None -> 0
          [] t.memory # None /\ t.mode = "relocatable" -> Conditioned(t.count)
          [] OTHER -> n * Conditioned(Capacity(t)) + Conditioned(DirectoryBytesFor(n))
----------------------------------------------------------------------------
(* Operations.  In those that allocate, `left` allocations succeed.         *)

Settle(t, r) ==
    /\ tokens' = [tokens EXCEPT ![t] = r.token]
    /\ heap' = Settled(r.heap)

InBounds(t, n) ==
    /\ n \in Counts(tokens[t].mode)
    /\ n + FoldSet(LAMBDA u, sum : sum + tokens[u].count, 0, Tokens \ {t}) <= TotalCount

\* configure() keeps a context and takes the ambient one where there is none.
Configure(t, mode, log, ambient) ==
    /\ tokens[t].mode = "none"
    /\ tokens' = [tokens EXCEPT ![t].mode = mode, ![t].log = log,
                                ![t].context = IF @ = None THEN ambient ELSE @]
    /\ UNCHANGED heap

Emptied(h, t) == [heap |-> ReleaseStorage(h, t), token |-> [t EXCEPT !.memory = None, !.count = 0]]

AllocateElements(t, n, zero, left) ==
    /\ tokens[t].mode # "none" /\ InBounds(t, n)
    /\ LET old == tokens[t]
           h   == Served(heap, left)
           new == CreateStorage(h, old, n, zero)
       IN  Settle(t, CASE n = 0 -> Emptied(h, old)
                       [] n > 0 /\ new.memory = None -> [heap |-> new.heap, token |-> old]
                       [] OTHER -> [heap  |-> ReleaseStorage(new.heap, old),
                                    token |-> [old EXCEPT !.memory = new.memory, !.count = n]])

Reallocate(t, n, kept, zero, left) ==
    /\ tokens[t].mode = "relocatable" /\ InBounds(t, n)
    /\ kept <= Min({n, tokens[t].count})
    /\ LET old == tokens[t]
           h   == Served(heap, left)
           a   == Allocate(h, old.context, n,
                    [i \in 1 .. n |-> CASE i <= kept -> h.blocks[old.memory].cells[i]
                                        [] i > kept /\ zero -> 0
                                        [] OTHER -> Raw])
       IN  Settle(t, CASE n = 0 -> Emptied(h, old)
                       [] n > 0 /\ n = old.count -> [heap  |-> IF zero THEN Zeroed(h, old, kept, n) ELSE h,
                                                     token |-> old]
                       [] n > 0 /\ n # old.count /\ a.id = None -> [heap |-> h, token |-> old]
                       [] OTHER -> [heap  |-> ReleaseStorage(a.heap, old),
                                    token |-> [old EXCEPT !.memory = a.id, !.count = n]])

\* grow_to(), and map_index() of the last element.
GrowTo(t, n, zero, left) ==
    /\ tokens[t].mode = "stable" /\ InBounds(t, n) /\ n > tokens[t].count
    /\ Settle(t, Grown(Served(heap, left), tokens[t], n, zero))

Deallocate(t) == Settle(t, Emptied(Served(heap, 0), tokens[t]))

\* clone_to(): a token like the source in the context given, copied buffer by
\* buffer; what this token had is released last.
Clone(t, s, c, left) ==
    /\ tokens[s].mode # "none" /\ (t = s => c # tokens[s].context)
    /\ tokens[s].count + FoldSet(LAMBDA u, sum : sum + tokens[u].count, 0, Tokens \ {t}) <= TotalCount
    /\ LET old    == tokens[t]
           source == tokens[s]
           h      == Served(heap, left)
           empty  == [source EXCEPT !.context = c, !.memory = None, !.count = 0]
           new    == CreateStorage(h, empty, source.count, FALSE)
           full   == [empty EXCEPT !.memory = new.memory, !.count = source.count]
           copied == FoldLeft(LAMBDA g, i : Stored(g, PlaceOf(g, full, i), ValueAt(g, PlaceOf(g, source, i))),
                              new.heap, [i \in 1 .. source.count |-> i - 1])
       IN  Settle(t, CASE source.count = 0 -> [heap |-> ReleaseStorage(h, old), token |-> empty]
                       [] source.count > 0 /\ new.memory = None -> [heap |-> new.heap, token |-> old]
                       [] OTHER -> [heap |-> ReleaseStorage(copied, old), token |-> full])

\* A moved-from token keeps its context and its configuration.
Move(t, s) ==
    /\ t # s
    /\ tokens' = [tokens EXCEPT ![t] = tokens[s], ![s].memory = None, ![s].count = 0]
    /\ heap' = Settled(ReleaseStorage(Served(heap, 0), tokens[t]))

Compatible(c, d) == AllocatorOf(c) = AllocatorOf(d)

CanReattributeTo(t, target) ==
    \/ tokens[t].memory = None
    \/ Compatible(tokens[t].context, target)

Reattribute(t, target) ==
    /\ CanReattributeTo(t, target)
    /\ tokens' = [tokens EXCEPT ![t].context = target]
    /\ heap' = IF tokens[t].memory = None \/ tokens[t].context = target THEN heap
               ELSE Attributed(heap, tokens[t].context, target, AllocationCount(tokens[t]), AllocationSize(tokens[t]))

\* The storage of a container moves as one: the tokens with memory must have
\* the same context, whose accounts are changed once for all of them.
SourceContexts == {tokens[t].context : t \in {u \in Tokens : tokens[u].memory # None}}
GroupCount == FoldSet(LAMBDA t, sum : sum + AllocationCount(tokens[t]), 0, Tokens)
GroupSize == FoldSet(LAMBDA t, sum : sum + AllocationSize(tokens[t]), 0, Tokens)

ReattributeGroup(target) ==
    /\ Cardinality(SourceContexts) <= 1
    /\ \A source \in SourceContexts : Compatible(source, target)
    /\ tokens' = [t \in Tokens |-> [tokens[t] EXCEPT !.context = target]]
    /\ IF SourceContexts \subseteq {target} THEN UNCHANGED heap
       ELSE \E source \in SourceContexts : heap' = Attributed(heap, source, target, GroupCount, GroupSize)

\* The owner of the token writes an element; bound: one at a time.
Write(t, i, v) ==
    /\ i < tokens[t].count
    /\ \A u \in Tokens : \A j \in 0 .. tokens[u].count - 1 : ValueAt(heap, PlaceOf(heap, tokens[u], j)) # v
    /\ heap' = Stored(heap, PlaceOf(heap, tokens[t], i), v)
    /\ UNCHANGED tokens

Next ==
    \/ \E t \in Tokens, log \in BufferLogs, c \in Homes :
         Configure(t, "relocatable", 0, c) \/ Configure(t, "stable", log, c)
    \/ \E t \in Tokens, n \in 0 .. TotalCount, zero \in BOOLEAN, left \in Failures :
         /\ zero \/ n \in Unzeroed
         /\ \/ AllocateElements(t, n, zero, left)
            \/ \E kept \in 0 .. n : Reallocate(t, n, kept, zero, left)
            \/ GrowTo(t, n, zero, left)
    \/ \E t \in Tokens : Deallocate(t) \/ \E i \in 0 .. TotalCount - 1 : Write(t, i, 1)
    \/ \E t, s \in Tokens : Move(t, s) \/ \E c \in Homes, left \in Failures : Clone(t, s, c, left)
    \/ \E c \in Contexts : (c \in Homes \/ SourceContexts # {}) /\ ReattributeGroup(c)
    \/ \E c \in Contexts, t \in Tokens : (c \in Homes \/ tokens[t].memory # None) /\ Reattribute(t, c)

Spec == Init /\ [][Next]_vars
----------------------------------------------------------------------------
(* Properties.                                                              *)

OwnedBlocks(t) ==
    IF tokens[t].memory = None THEN {} ELSE {tokens[t].memory} \cup ToSet(BuffersOf(heap, tokens[t]))

(* Whatever succeeded or failed, every live block belongs to one token, and
   each context counts exactly the blocks and the bytes of its tokens: nothing
   leaks from an allocation that fails half-way, no block is freed twice, and
   what a token says it has allocated is what it has. *)
ContextsAccountForBlocks ==
    /\ DOMAIN heap.blocks = UNION {OwnedBlocks(t) : t \in Tokens}
    /\ \A t, u \in Tokens : t # u => OwnedBlocks(t) \cap OwnedBlocks(u) = {}
    /\ \A t \in Tokens, b \in Blocks : b \in OwnedBlocks(t) => heap.blocks[b].allocator = AllocatorOf(tokens[t].context)
    /\ \A c \in Contexts :
         LET owned == UNION {OwnedBlocks(t) : t \in {u \in Tokens : tokens[u].context = c}}
         IN  /\ heap.count[c] = Cardinality(owned)
             /\ heap.bytes[c] = FoldSet(LAMBDA b, sum : sum + heap.blocks[b].bytes, 0, owned)

(* Elements keep their values, and those of a stable token their addresses,
   through growth, directories that come and go, moves of tokens and failures. *)
Elements == INSTANCE ElementStorage WITH
    Values <- {1}, Fresh <- {Raw, 0},
    contents <- [t \in Tokens |-> [i \in 1 .. tokens[t].count |-> ValueAt(heap, PlaceOf(heap, tokens[t], i - 1))]],
    places <- [t \in Tokens |-> [i \in 1 .. tokens[t].count |-> PlaceOf(heap, tokens[t], i - 1)]],
    stable <- {t \in Tokens : tokens[t].mode = "stable"}

\* Elements!Spec, asked of the steps of tokens.
IsElementStorage == Elements!Init /\ [][UNCHANGED vars \/ UNCHANGED Elements!vars \/ Elements!Next]_vars

(* Where a growth asks for zeroed elements, each one it exposes is zero, in the
   buffer that was in use already and in the new ones. *)
NewElementsAreZero ==
    [][\A t \in Tokens :
         /\ tokens[t].mode = "stable" /\ tokens'[t].count > tokens[t].count
         /\ \E left \in Failures : GrowTo(t, tokens'[t].count, TRUE, left)
         => \A i \in tokens[t].count .. tokens'[t].count - 1 :
              ValueAt(heap', PlaceOf(heap', tokens'[t], i)) = 0]_vars
=============================================================================

---------------------------- MODULE OrderedSlots ----------------------------
(***************************************************************************)
(* slots::TOrderedSlots: an index over slots whose payload somebody else   *)
(* stores.  A lexed slot is a node of an AVL tree in key order; a loose or *)
(* an empty one is a member of a circular list.  The tree and both lists   *)
(* live in the same array: child_index[] of a slot is its two children or  *)
(* its two neighbours.  table is that array with the counters beside it;   *)
(* an operation computes its successor.                                    *)
(*                                                                         *)
(* External: the payload array and the key comparison belong to the class  *)
(* that derives from the container.  The payload of an empty slot, which   *)
(* nobody reads, is Vacant.                                                *)
(***************************************************************************)
EXTENDS Integers, Sequences, FiniteSets, SequencesExt, TLC

CONSTANTS
    CapacityLimit,      \* k_capacity_limit
    Payloads,           \* what a slot may hold
    Vacant,             \* the payload of an empty slot
    KeyOf(_)            \* the key by which on_compare_keys orders payloads

VARIABLES
    table,              \* the meta slots and the counters
    payload             \* the payload array of the derived class

vars == <<table, payload>>

None == -1
Slots == 0 .. CapacityLimit - 1

\* A slot without links.
Unlinked(st) == [parent |-> None, child |-> [side \in 0 .. 1 |-> None], bf |-> 0, state |-> st]

NoTable ==
    [meta |-> <<>>, root |-> None, head |-> [loose |-> None, empty |-> None],
     count |-> [lexed |-> 0, loose |-> 0, empty |-> 0],
     high |-> None, peakIndex |-> None, peakUsage |-> 0]

Capacity(t) == Cardinality(DOMAIN t.meta)
Occupied(t, i) == t.meta[i].state \in {"lexed", "loose"}
OccupiedCount(t) == t.count.lexed + t.count.loose
IsSafe == table # NoTable
Highest(S) == CHOOSE i \in S : \A j \in S : j <= i
----------------------------------------------------------------------------
(* The circular lists.                                                      *)

\* The slots of q, in this order, as a circular list.
Linked(meta, q) ==
    LET at(i) == CHOOSE n \in DOMAIN q : q[n] = i
        n == Len(q)
    IN  [i \in DOMAIN meta |->
           IF i \notin ToSet(q) THEN meta[i]
           ELSE [meta[i] EXCEPT !.child = [side \in 0 .. 1 |->
                   q[1 + ((at(i) + (IF side = 1 THEN 0 ELSE n - 2)) % n)]]]]

HeadOf(q) == IF q = <<>> THEN None ELSE q[1]

\* The n members of the list with this head, by their links on one side.
ListFrom(meta, head, n, side) ==
    LET nth[k \in 0 .. n] == IF k = 0 THEN head ELSE meta[nth[k - 1]].child[side]
    IN  [k \in 1 .. n |-> nth[k - 1]]

ListOf(t, st) == ListFrom(t.meta, t.head[st], t.count[st], 1)

RangeToList(meta, lo, hi, st) ==
    Linked([i \in DOMAIN meta |-> IF i \in lo .. hi THEN Unlinked(st) ELSE meta[i]],
           [n \in 1 .. hi - lo + 1 |-> lo + n - 1])

\* The slots of one state in a range, in index order.
InState(meta, lo, hi, st) == SetToSortSeq({i \in lo .. hi : meta[i].state = st}, <)

\* The second list is appended to the first.
CombineLists(meta, head1, head2) ==
    IF head1 = None \/ head2 = None THEN meta
    ELSE LET tail1 == meta[head1].child[0]
             tail2 == meta[head2].child[0]
         IN  [meta EXCEPT ![head1].child[0] = tail2, ![tail1].child[1] = head2,
                          ![head2].child[0] = tail1, ![tail2].child[1] = head1]

CombinedHead(head1, head2) == IF head1 = None THEN head2 ELSE head1

\* A slot that is in no list becomes the head of the loose or the empty one.
Attach(t, i, st) ==
    LET head == t.head[st]
        tail == t.meta[head].child[0]
        own  == [t.meta EXCEPT ![i] = Unlinked(st)]
        meta == IF head = None THEN [own EXCEPT ![i].child = [side \in 0 .. 1 |-> i]]
                ELSE [own EXCEPT ![i].child[0] = tail, ![i].child[1] = head,
                                 ![tail].child[1] = i, ![head].child[0] = i]
    IN  [t EXCEPT !.meta = meta, !.head[st] = i, !.count[st] = @ + 1]

DetachFromList(t, i, st) ==
    LET prev == t.meta[i].child[0]
        next == t.meta[i].child[1]
        rest == [t.meta EXCEPT ![prev].child[1] = next, ![next].child[0] = prev]
    IN  [t EXCEPT !.count[st] = @ - 1,
                  !.head[st] = IF @ # i THEN @ ELSE IF t.count[st] = 1 THEN None ELSE next,
                  !.meta = [rest EXCEPT ![i] = Unlinked("unassigned")]]
----------------------------------------------------------------------------
(* The AVL tree.                                                            *)

Sign(side) == 2 * side - 1

SideOf(meta, parent, i) == IF parent # None /\ meta[parent].child[1] = i THEN 1 ELSE 0

\* The last slot on the way down one side of the subtree at i.
Deepest(meta, i, side) ==
    LET down[j \in Slots] == IF meta[j].child[side] = None THEN j ELSE down[meta[j].child[side]]
    IN  down[i]

\* The in-order neighbour: down into the subtree of that side, or up to the
\* first ancestor that is not left on that side.
Neighbour(meta, i, side) ==
    LET up[j \in Slots] == LET p == meta[j].parent
                           IN  IF p = None \/ meta[p].child[1 - side] = j THEN p ELSE up[p]
    IN  IF meta[i].child[side] # None THEN Deepest(meta, meta[i].child[side], 1 - side)
        ELSE up[i]

\* The lexed slots in key order, as the traversals visit them.
LexedOrder(t) ==
    LET from[i \in Slots \cup {None}] ==
            IF i = None THEN <<>> ELSE <<i>> \o from[Neighbour(t.meta, i, 1)]
    IN  IF t.root = None THEN <<>> ELSE from[Deepest(t.meta, t.root, 0)]

Reparent(meta, i, p) == IF i = None THEN meta ELSE [meta EXCEPT ![i].parent = p]

\* The subtree at old, whose parent is p, is replaced by the one at new.
ReplaceSubtree(t, p, old, new) ==
    IF p = None THEN [t EXCEPT !.root = new]
    ELSE [t EXCEPT !.meta[p].child[SideOf(t.meta, p, old)] = new]

SingleRotate(t, i, heavy) ==
    LET c     == t.meta[i].child[heavy]
        light == t.meta[c].child[1 - heavy]
        p     == t.meta[i].parent
        meta  == [t.meta EXCEPT ![i].child[heavy] = light, ![i].parent = c,
                                ![c].child[1 - heavy] = i, ![c].parent = p]
    IN  ReplaceSubtree([t EXCEPT !.meta = Reparent(meta, light, i)], p, i, c)

DoubleRotate(t, i, heavy) ==
    LET c  == t.meta[i].child[heavy]
        g  == t.meta[c].child[1 - heavy]
        gh == t.meta[g].child[heavy]
        gl == t.meta[g].child[1 - heavy]
        p  == t.meta[i].parent
        b  == t.meta[g].bf
        meta == [t.meta EXCEPT
            ![c].child[1 - heavy] = gh, ![c].parent = g,
            ![c].bf = IF b = -Sign(heavy) THEN Sign(heavy) ELSE 0,
            ![i].child[heavy] = gl, ![i].parent = g,
            ![i].bf = IF b = Sign(heavy) THEN -Sign(heavy) ELSE 0,
            ![g].child[heavy] = c, ![g].child[1 - heavy] = i, ![g].parent = p, ![g].bf = 0]
    IN  ReplaceSubtree([t EXCEPT !.meta = Reparent(Reparent(meta, gh, c), gl, i)], p, i, g)

\* Step is repeated on a table with the slot its walk has reached until the
\* walk leaves the tree.
Walked(Step(_), w) ==
    LET after[n \in 0 .. CapacityLimit] ==
            IF n = 0 THEN w
            ELSE LET x == after[n - 1] IN IF x.walk = None THEN x ELSE Step(x)
    IN  after[CapacityLimit].t

\* A faulty insertion, before its equals.
InsertionPointBeforeEquals(t, p, x) ==
    LET down[j \in Slots] ==
            LET side == IF KeyOf(x) > KeyOf(p[j]) THEN 1 ELSE 0
            IN  IF t.meta[j].child[side] = None THEN <<j, side>> ELSE down[t.meta[j].child[side]]
    IN  down[t.root]

\* The parent and the side at which the payload x belongs: after its equals.
InsertionPoint(t, p, x) ==
    LET down[j \in Slots] ==
            LET side == IF KeyOf(x) >= KeyOf(p[j]) THEN 1 ELSE 0
            IN  IF t.meta[j].child[side] = None THEN <<j, side>> ELSE down[t.meta[j].child[side]]
    IN  down[t.root]

Stop(t) == [t |-> t, walk |-> None, delta |-> 0]

\* One slot of the walk up after an insertion; the subtree on the side of
\* delta has grown.
InsertStep(w) ==
    LET i     == w.walk
        bf    == w.t.meta[i].bf + w.delta
        p     == w.t.meta[i].parent
        t     == [w.t EXCEPT !.meta[i].bf = bf]
        heavy == IF bf > 0 THEN 1 ELSE 0
        c     == t.meta[i].child[heavy]
    IN  CASE bf = w.delta -> [t |-> t, walk |-> p, delta |-> Sign(SideOf(t.meta, p, i))]
          [] bf = 0       -> Stop(t)
          [] OTHER        ->
               IF t.meta[c].bf = Sign(heavy)
               THEN Stop([SingleRotate(t, i, heavy) EXCEPT !.meta[i].bf = 0, !.meta[c].bf = 0])
               ELSE Stop(DoubleRotate(t, i, heavy))

AvlInsert(t, p, i) ==
    LET at    == InsertionPoint(t, p, p[i])
        fresh == [t EXCEPT !.meta[i] = Unlinked("lexed")]
    IN  IF t.root = None THEN [fresh EXCEPT !.root = i]
        ELSE Walked(InsertStep,
                    [t |-> [fresh EXCEPT !.meta[at[1]].child[at[2]] = i, !.meta[i].parent = at[1]],
                     walk |-> at[1], delta |-> Sign(at[2])])

\* The slot that takes the place of i, which has two children: the next one in
\* order.  The walk starts at the parent of the hole that it leaves.
ReplaceBySuccessor(t, i) ==
    LET slot  == t.meta[i]
        next  == Deepest(t.meta, slot.child[1], 0)
        hole  == t.meta[next].parent
        right == t.meta[next].child[1]
        apart == [t.meta EXCEPT ![hole].child[0] = right, ![next].child[1] = slot.child[1],
                                ![slot.child[1]].parent = next]
        base  == IF hole = i THEN t.meta ELSE Reparent(apart, right, hole)
        meta  == [base EXCEPT ![next].child[0] = slot.child[0], ![slot.child[0]].parent = next,
                              ![next].parent = slot.parent, ![next].bf = slot.bf]
    IN  [t |-> ReplaceSubtree([t EXCEPT !.meta = meta], slot.parent, i, next),
         walk |-> IF hole = i THEN next ELSE hole,
         delta |-> IF hole = i THEN Sign(1) ELSE Sign(0)]

\* The only child of i, or nothing, takes its place.
ReplaceByChild(t, i) ==
    LET slot  == t.meta[i]
        child == slot.child[IF slot.child[0] # None THEN 0 ELSE 1]
    IN  [t |-> ReplaceSubtree([t EXCEPT !.meta = Reparent(t.meta, child, slot.parent)], slot.parent, i, child),
         walk |-> slot.parent, delta |-> Sign(SideOf(t.meta, slot.parent, i))]

\* A faulty step: it takes a lower subtree for balanced too early.
RemoveStepUnrotated(w) ==
    LET t == [w.t EXCEPT !.meta[w.walk].bf = @ - w.delta]
        p == t.meta[w.walk].parent
    IN  IF t.meta[w.walk].bf = 0
        THEN [t |-> t, walk |-> p, delta |-> Sign(SideOf(t.meta, p, w.walk))]
        ELSE Stop([t EXCEPT !.meta[w.walk].bf = IF @ > 1 THEN 1 ELSE IF @ < -1 THEN -1 ELSE @])

\* One slot of the walk up after a removal; the subtree on the side of delta
\* has become lower.
RemoveStep(w) ==
    LET i     == w.walk
        bf    == w.t.meta[i].bf - w.delta
        t     == [w.t EXCEPT !.meta[i].bf = bf]
        p     == t.meta[i].parent
        heavy == IF bf > 0 THEN 1 ELSE 0
        c     == t.meta[i].child[heavy]
        cbf   == t.meta[c].bf
        rest  == Sign(heavy) - cbf
        once  == [SingleRotate(t, i, heavy) EXCEPT !.meta[i].bf = rest, !.meta[c].bf = -rest]
        \* the walk goes on at p from the subtree that j now heads
        Lower(u, j) == [t |-> u, walk |-> p, delta |-> Sign(SideOf(u.meta, p, j))]
    IN  CASE bf = 0              -> Lower(t, i)
          [] bf \in {-1, 1}      -> Stop(t)
          [] OTHER               ->
               IF cbf = 0 THEN Stop(once)
               ELSE IF cbf = Sign(heavy) THEN Lower(once, c)
               ELSE Lower(DoubleRotate(t, i, heavy), t.meta[c].child[1 - heavy])

AvlRemove(t, i) ==
    LET out == IF \A side \in 0 .. 1 : t.meta[i].child[side] # None
               THEN ReplaceBySuccessor(t, i) ELSE ReplaceByChild(t, i)
    IN  [Walked(RemoveStep, out) EXCEPT !.meta[i] = Unlinked("unassigned")]

\* The slots from lo to hi as a tree, split in the middle.
BuildBalanced(meta, lo, hi, p) ==
    LET bits[n \in Nat] == IF n = 0 THEN 0 ELSE 1 + bits[n \div 2]
        mid(l, h) == (l + h) \div 2
        built[l \in 0 .. CapacityLimit, h \in -1 .. CapacityLimit, up \in Slots \cup {None}] ==
            IF l > h THEN <<>>
            ELSE LET m == mid(l, h)
                     Root(a, b) == IF a > b THEN None ELSE mid(a, b)
                 IN  built[l, m - 1, m] @@ built[m + 1, h, m] @@
                     (m :> [parent |-> up, state |-> "lexed", bf |-> bits[h - m] - bits[m - l],
                            child |-> (0 :> Root(l, m - 1) @@ 1 :> Root(m + 1, h))])
    IN  built[lo, hi, p] @@ meta
----------------------------------------------------------------------------
(* Moves between the three categories.                                      *)

Detach(t, i) ==
    LET st == t.meta[i].state
    IN  IF st = "lexed" THEN [AvlRemove(t, i) EXCEPT !.count.lexed = @ - 1]
        ELSE DetachFromList(t, i, st)

MoveToLexedTree(t, p, i) == [AvlInsert(Detach(t, i), p, i) EXCEPT !.count.lexed = @ + 1]
MoveToList(t, i, st) == Attach(Detach(t, i), i, st)

\* All lexed slots as a list, the tree gone.
LexedToList(t) ==
    LET q == LexedOrder(t)
    IN  Linked([i \in DOMAIN t.meta |->
                  IF i \in ToSet(q) THEN Unlinked(t.meta[i].state) ELSE t.meta[i]], q)
----------------------------------------------------------------------------
Init ==
    /\ table = NoTable
    /\ payload = [i \in Slots |-> Vacant]

Empty(n) ==
    LET meta == [i \in 0 .. n - 1 |-> Unlinked("empty")]
    IN  [NoTable EXCEPT !.meta = RangeToList(meta, 0, n - 1, "empty"),
                        !.head.empty = 0, !.count.empty = n]

GrownTo(t, n) ==
    LET c == Capacity(t)
        new  == RangeToList([i \in 0 .. n - 1 |-> IF i < c THEN t.meta[i] ELSE Unlinked("empty")],
                            c, n - 1, "empty")
    IN  [t EXCEPT !.meta = CombineLists(new, t.head.empty, c),
                  !.head.empty = CombinedHead(@, c), !.count.empty = @ + n - c]

ShrunkTo(t, n) ==
    LET q == InState(t.meta, 0, n - 1, "empty")
    IN  [t EXCEPT !.meta = Linked([i \in 0 .. n - 1 |-> t.meta[i]], q),
                  !.head.empty = HeadOf(q), !.count.empty = n - OccupiedCount(t)]

\* private_resize() where it succeeds; a refused or failed one changes nothing.
Resized(t, n) ==
    IF Capacity(t) = 0 THEN Empty(n)
    ELSE IF n >= Capacity(t) THEN IF n = Capacity(t) THEN t ELSE GrownTo(t, n)
    ELSE ShrunkTo(t, n)

MinimumSafeCapacity(t) == t.high + 1

\* The derived class may answer on_reserve_empty() by any capacity that is
\* enough, or refuse; the allocation of the meta slots may fail.
Reserved(t, minimum) == {Resized(t, n) : n \in minimum .. CapacityLimit}

Initialise(n) ==
    /\ table' = Empty(n)
    /\ payload' = [i \in Slots |-> Vacant]

Shutdown ==
    /\ table' = NoTable
    /\ payload' = [i \in Slots |-> Vacant]

Clear ==
    /\ IsSafe
    /\ table' = Empty(Capacity(table))
    /\ payload' = [i \in Slots |-> Vacant]

SafeResize(n) ==
    /\ n >= MinimumSafeCapacity(table)
    /\ table' = Resized(table, n)
    /\ UNCHANGED payload

ReserveEmpty(n) ==
    /\ table.count.empty < n /\ n <= CapacityLimit - OccupiedCount(table)
    /\ table' \in Reserved(table, OccupiedCount(table) + n)
    /\ UNCHANGED payload

ShrinkToFit ==
    /\ IsSafe /\ table.high >= 0
    /\ table' = Resized(table, MinimumSafeCapacity(table))
    /\ UNCHANGED payload

\* A slot i of the table has become occupied.
Counted(t, i) ==
    [t EXCEPT !.peakUsage = IF @ < OccupiedCount(t) THEN OccupiedCount(t) ELSE @,
              !.high = IF @ < i THEN i ELSE @,
              !.peakIndex = IF t.high < i /\ @ < i THEN i ELSE @]

\* An empty slot i of the table becomes occupied.
Acquired(t, p, i, lex) ==
    Counted(IF lex THEN MoveToLexedTree(t, p, i) ELSE MoveToList(t, i, "loose"), i)

\* A lexed slot or a loose one has the key of x.
HasDuplicateKey(x) ==
    \/ \E i \in ToSet(LexedOrder(table)) : KeyOf(payload[i]) = KeyOf(x)
    \/ \E i \in ToSet(ListOf(table, "loose")) : KeyOf(payload[i]) = KeyOf(x)

\* The tables in which the slot asked for exists: i, or any one if i is None.
Room(i, mayReserve) ==
    LET c == Capacity(table)
        minimum == IF i = None THEN c + 1 ELSE i + 1
        short == IF i = None THEN table.head.empty = None ELSE i >= c
    IN  IF ~short THEN {table} ELSE IF mayReserve THEN Reserved(table, minimum) ELSE {}

\* acquire() and reserve_and_acquire().  The derived class has staged the
\* payload x, and stores it in the slot it is given.
Acquire(i, x, lex, requireUnique, mayReserve) ==
    /\ IsSafe
    /\ requireUnique => ~HasDuplicateKey(x)
    /\ \E t \in Room(i, mayReserve) :
         LET slot  == IF i = None THEN t.head.empty ELSE i
             after == [payload EXCEPT ![slot] = x]
         IN  /\ t.meta[slot].state = "empty"
             /\ payload' = after
             /\ table' = Acquired(t, after, slot, lex)

\* Slot i of the table becomes empty.
Erased(t, i) ==
    LET u     == MoveToList(t, i, "empty")
        below == {j \in 0 .. u.high - 1 : Occupied(u, j)}
    IN  [u EXCEPT !.high = IF @ # i THEN @ ELSE IF OccupiedCount(u) = 0 THEN None ELSE Highest(below)]

Erase(i) ==
    /\ i \in DOMAIN table.meta /\ Occupied(table, i)
    /\ table' = Erased(table, i)
    /\ payload' = [payload EXCEPT ![i] = Vacant]

Lex(i) ==
    /\ i \in DOMAIN table.meta /\ table.meta[i].state = "loose"
    /\ table' = MoveToLexedTree(table, payload, i)
    /\ UNCHANGED payload

Unlex(i) ==
    /\ i \in DOMAIN table.meta /\ table.meta[i].state = "lexed"
    /\ table' = MoveToList(table, i, "loose")
    /\ UNCHANGED payload

\* The derived class has changed the key of the slot.
Relex(i, x) ==
    LET after == [payload EXCEPT ![i] = x]
    IN  /\ i \in DOMAIN table.meta /\ table.meta[i].state = "lexed"
        /\ payload' = after
        /\ table' = AvlInsert(AvlRemove(table, i), after, i)

LexAll ==
    LET none == [table EXCEPT !.head.loose = None, !.count.loose = 0,
                              !.count.lexed = @ + table.count.loose]
    IN  /\ table.count.loose # 0
        /\ table' = FoldLeft(LAMBDA t, i : AvlInsert(t, payload, i), none, ListOf(table, "loose"))
        /\ UNCHANGED payload

UnlexAll ==
    LET q    == LexedOrder(table)
        list == LexedToList(table)
        meta == [i \in DOMAIN list |-> IF i \in ToSet(q) THEN [list[i] EXCEPT !.state = "loose"]
                                       ELSE list[i]]
    IN  /\ table.count.lexed # 0
        /\ table' = [table EXCEPT !.meta = CombineLists(meta, table.head.loose, q[1]),
                                  !.head.loose = CombinedHead(@, q[1]), !.root = None,
                                  !.count.loose = @ + table.count.lexed, !.count.lexed = 0]
        /\ UNCHANGED payload

\* The derived class has changed keys of lexed slots.
RelexAll(p) ==
    /\ table.count.lexed # 0
    /\ payload' = p
    /\ table' = FoldLeft(LAMBDA t, i : AvlInsert(t, p, i),
                         [table EXCEPT !.root = None, !.meta = LexedToList(table)],
                         LexedOrder(table))

\* on_move_payload() along one cycle: the slots of q, each of which holds what
\* the next one is to hold, through the temporary slot of the derived class.
MovedAlong(p, q) ==
    LET n == Len(q)
        moved[k \in 1 .. n] ==      \* the moves into q[n] down to q[k]
            IF k = n THEN [p EXCEPT ![q[n]] = IF n = 1 THEN @ ELSE p[q[n - 1]]]
            ELSE LET before == moved[k + 1]
                 IN  [before EXCEPT ![q[k]] = IF k = 1 THEN p[q[n]] ELSE before[q[k - 1]]]
    IN  moved[1]

\* The payload of the slot of every rank in q moves to the slot that has the
\* rank as its number, cycle by cycle from the first slot still in the list.
MovedInPlace(p, q) ==
    LET rank(i) == (CHOOSE n \in DOMAIN q : q[n] = i) - 1
        done[left \in SUBSET Slots] ==
            IF left = {} THEN p
            ELSE LET start == q[CHOOSE n \in DOMAIN q :
                                  q[n] \in left /\ \A k \in 1 .. n - 1 : q[k] \notin left]
                     cycle[i \in Slots] ==
                         IF rank(i) = start THEN <<i>> ELSE <<i>> \o cycle[rank(i)]
                 IN  MovedAlong(done[left \ ToSet(cycle[start])], cycle[start])
    IN  done[ToSet(q)]

\* The slots by rank: lexed, then loose, then empty.
Ranked(t) == LexedOrder(t) \o ListOf(t, "loose") \o ListOf(t, "empty")

SortAndPack(external) ==
    LET n == table.count.lexed
        k == table.count.loose
        q == Ranked(table)
        lists == RangeToList(RangeToList(table.meta, n, n + k - 1, "loose"),
                             n + k, Len(q) - 1, "empty")
    IN  /\ IsSafe
        /\ payload' = IF external THEN [i \in Slots |-> IF i < Len(q) THEN payload[q[i + 1]] ELSE Vacant]
                      ELSE MovedInPlace(payload, q)
        /\ table' = [table EXCEPT
             !.meta = BuildBalanced(lists, 0, n - 1, None),
             !.root = IF n = 0 THEN None ELSE (n - 1) \div 2,
             !.head.loose = IF k = 0 THEN None ELSE n,
             !.head.empty = IF Len(q) = n + k THEN None ELSE n + k,
             !.high = n + k - 1]

RebuildLooseInIndexOrder ==
    LET q == InState(table.meta, 0, table.high, "loose")
    IN  /\ table.count.loose # 0
        /\ table' = [table EXCEPT !.meta = Linked(@, q), !.head.loose = HeadOf(q)]
        /\ UNCHANGED payload

RebuildEmptyInIndexOrder ==
    LET q     == InState(table.meta, 0, table.high, "empty")
        first == IF table.high + 1 < Capacity(table) THEN table.high + 1 ELSE None
        meta  == RangeToList(Linked(table.meta, q), table.high + 1, Capacity(table) - 1, "empty")
    IN  /\ table.count.empty # 0
        /\ table' = [table EXCEPT !.meta = CombineLists(meta, HeadOf(q), first),
                                  !.head.empty = CombinedHead(HeadOf(q), first)]
        /\ UNCHANGED payload

Next ==
    \/ \E n \in 1 .. CapacityLimit : Initialise(n) \/ SafeResize(n) \/ ReserveEmpty(n)
    \/ Shutdown \/ Clear \/ ShrinkToFit
    \/ \E i \in Slots \cup {None}, x \in Payloads, lex, requireUnique, mayReserve \in BOOLEAN :
         Acquire(i, x, lex, requireUnique, mayReserve)
    \/ \E i \in Slots :
         \/ Erase(i) \/ Lex(i) \/ Unlex(i)
         \/ \E x \in Payloads : Relex(i, x)
    \/ LexAll \/ UnlexAll
    \/ \E f \in [ToSet(LexedOrder(table)) -> Payloads] : RelexAll(f @@ payload)
    \/ \E external \in BOOLEAN : SortAndPack(external)
    \/ RebuildLooseInIndexOrder \/ RebuildEmptyInIndexOrder

Spec == Init /\ [][Next]_vars
----------------------------------------------------------------------------
(* The queries, on the table as it is.                                      *)

\* The last slot kept on the way down: at a slot whose key compares with that
\* of x by rel, the way goes right if Right(rel).
Located(x, Keep(_), Right(_)) ==
    LET down[i \in Slots \cup {None}, found \in Slots \cup {None}] ==
            IF i = None THEN found
            ELSE LET rel  == KeyOf(x) - KeyOf(payload[i])
                     side == IF Right(rel) THEN 1 ELSE 0
                 IN  down[table.meta[i].child[side], IF Keep(rel) THEN i ELSE found]
    IN  down[table.root, None]

LocateAnyEqual(x) ==
    LET down[i \in Slots \cup {None}] ==
            IF i = None \/ KeyOf(x) = KeyOf(payload[i]) THEN i
            ELSE down[table.meta[i].child[IF KeyOf(x) < KeyOf(payload[i]) THEN 0 ELSE 1]]
    IN  down[table.root]

LocateFirstEqual(x)        == Located(x, LAMBDA rel : rel = 0,  LAMBDA rel : rel > 0)
LocateFirstGreater(x)      == Located(x, LAMBDA rel : rel < 0,  LAMBDA rel : rel >= 0)
LocateFirstGreaterEqual(x) == Located(x, LAMBDA rel : rel <= 0, LAMBDA rel : rel > 0)
LocateLastEqual(x)         == Located(x, LAMBDA rel : rel = 0,  LAMBDA rel : rel >= 0)
LocateLastLess(x)          == Located(x, LAMBDA rel : rel > 0,  LAMBDA rel : rel > 0)
LocateLastLessEqual(x)     == Located(x, LAMBDA rel : rel >= 0, LAMBDA rel : rel >= 0)

\* A faulty check that looks only at the first slot with the key.
HasDuplicateInLexedOfFirst(i) == LocateFirstEqual(payload[i]) \notin {None, i}

\* A lexed slot other than i with the key of i.
HasDuplicateInLexed(i) ==
    LET first == LocateFirstEqual(payload[i])
        next  == Neighbour(table.meta, first, 1)
    IN  /\ first # None
        /\ first = i => next # None /\ KeyOf(payload[next]) = KeyOf(payload[i])

ConvertToRankIndex(i) ==
    LET before[j \in Slots \cup {None}] ==
            IF j = None THEN 0 ELSE 1 + before[Neighbour(table.meta, j, 0)]
        inList(st) == (CHOOSE n \in 1 .. table.count[st] : ListOf(table, st)[n] = i) - 1
    IN  CASE table.meta[i].state = "lexed" -> before[i] - 1
          [] table.meta[i].state = "loose" -> table.count.lexed + inList("loose")
          [] table.meta[i].state = "empty" -> OccupiedCount(table) + inList("empty")

\* In a list the search goes backwards when the rank is in its second half.
LocateByRankIndex(rank) ==
    LET n == table.count.lexed
        InTree(side, count) ==
            LET nth[k \in 0 .. count] == IF k = 0 THEN Deepest(table.meta, table.root, 1 - side)
                                         ELSE Neighbour(table.meta, nth[k - 1], side)
            IN  nth[count]
        InList(st, k) ==
            LET back == k > table.count[st] \div 2
            IN  IF back THEN ListFrom(table.meta, table.head[st], table.count[st] - k + 1, 0)[table.count[st] - k + 1]
                ELSE ListFrom(table.meta, table.head[st], k + 1, 1)[k + 1]
    IN  CASE rank < n -> IF rank \div 2 > n \div 2 THEN InTree(0, n - rank - 1) ELSE InTree(1, rank)
          [] rank >= n /\ rank < OccupiedCount(table) -> InList("loose", rank - n)
          [] rank >= OccupiedCount(table) -> InList("empty", rank - OccupiedCount(table))

\* The pairs rank to slot of the map.
BuildRankMap == Ranked(table)
----------------------------------------------------------------------------
(* private_integrity_check() and validate_tree().                           *)

HeadersAreSound ==
    /\ Capacity(table) \in 1 .. CapacityLimit
    /\ OccupiedCount(table) + table.count.empty = Capacity(table)
    /\ table.root \in -1 .. Capacity(table) - 1 /\ (table.count.lexed = 0 <=> table.root = None)
    /\ \A st \in {"loose", "empty"} :
         /\ table.head[st] \in -1 .. Capacity(table) - 1
         /\ table.count[st] = 0 <=> table.head[st] = None
    /\ IF table.high = None THEN OccupiedCount(table) = 0
       ELSE table.high + 1 >= OccupiedCount(table)
    /\ table.peakUsage <= CapacityLimit /\ table.peakUsage <= table.peakIndex + 1

LexedSlotIsSound(i) ==
    LET slot == table.meta[i]
        l    == slot.child[0]
        r    == slot.child[1]
        p    == slot.parent
        IsLexed(j) == j = None \/ table.meta[j].state = "lexed"
    IN  /\ {p, l, r} \subseteq -1 .. Capacity(table) - 1
        /\ p = None => table.root = i
        /\ i \notin {p, l, r} /\ (p # None => p \notin {l, r})
        /\ IsLexed(p) /\ IsLexed(l) /\ IsLexed(r)
        /\ p # None => i \in {table.meta[p].child[0], table.meta[p].child[1]}
        /\ l # None => table.meta[l].parent = i
        /\ r # None => table.meta[r].parent = i
        /\ l = r => l = None /\ slot.bf = 0
        /\ l = None /\ r # None => slot.bf = 1
        /\ r = None /\ l # None => slot.bf = -1
        /\ slot.bf \in -1 .. 1

SlotsAreSound ==
    /\ \A i \in DOMAIN table.meta :
         LET slot == table.meta[i]
         IN  CASE slot.state = "lexed" -> LexedSlotIsSound(i)
               [] slot.state \in {"loose", "empty"} ->
                    slot.parent = None /\ slot.bf = 0 /\ \A side \in 0 .. 1 : slot.child[side] \in DOMAIN table.meta
               [] OTHER -> FALSE
    /\ \A st \in {"lexed", "loose", "empty"} :
         table.count[st] = Cardinality({i \in DOMAIN table.meta : table.meta[i].state = st})

\* Both lists are circular both ways, with no shorter cycle.
ListsAreSound ==
    \A st \in {"loose", "empty"} :
      LET q == ListOf(table, st)
          n == Len(q)
      IN  /\ \A k \in 1 .. n :
               /\ table.meta[q[k]].state = st
               /\ table.meta[table.meta[q[k]].child[1]].child[0] = q[k]
               /\ k > 1 => q[k] # table.head[st]
          /\ n # 0 => table.meta[q[n]].child[1] = table.head[st]

\* The heights that the tour of the tree computes, -1 where it refuses; it goes
\* no deeper than one and a half times the bits of the count.
TreeHeight ==
    LET bits[n \in Nat] == IF n = 0 THEN 0 ELSE 1 + bits[n \div 2]
        cap == bits[table.count.lexed] + bits[table.count.lexed] \div 2
        height[i \in Slots \cup {None}, depth \in Nat] ==
            IF i = None THEN 0
            ELSE IF depth >= cap THEN -1
            ELSE LET l == height[table.meta[i].child[0], depth + 1]
                     r == height[table.meta[i].child[1], depth + 1]
                 IN  IF l = -1 \/ r = -1 \/ r - l # table.meta[i].bf THEN -1
                     ELSE 1 + (IF l > r THEN l ELSE r)
    IN  height[table.root, 0]

\* The walk down the children, which no operation of the container uses.
InOrder(t) ==
    LET from[i \in Slots \cup {None}] ==
            IF i = None THEN <<>>
            ELSE from[t.meta[i].child[0]] \o <<i>> \o from[t.meta[i].child[1]]
    IN  from[t.root]

TreeIsSound ==
    /\ table.root # None => table.meta[table.root].parent = None
    /\ TreeHeight >= 0
    /\ Len(InOrder(table)) = table.count.lexed

PrivateIntegrityCheck ==
    IF table.meta = <<>> THEN table = NoTable
    ELSE HeadersAreSound /\ SlotsAreSound /\ ListsAreSound /\ TreeIsSound

\* validate_tree(LexCheck::InOrder)
TreeIsInOrder ==
    \A i \in ToSet(LexedOrder(table)) :
      LET next == Neighbour(table.meta, i, 1)
      IN  next # None => /\ Neighbour(table.meta, next, 0) = i
                         /\ KeyOf(payload[i]) <= KeyOf(payload[next])
----------------------------------------------------------------------------
(* Properties.                                                              *)

(* The counters and links stay in their ranges and every occupied slot has a
   payload: the members of TOrderedSlots and the payload array. *)
TypeOK ==
    /\ table.high \in -1 .. CapacityLimit - 1 /\ table.peakIndex \in -1 .. CapacityLimit - 1
    /\ table.peakUsage \in 0 .. CapacityLimit
    /\ \A i \in DOMAIN table.meta :
         /\ table.meta[i].parent \in -1 .. CapacityLimit - 1
         /\ table.meta[i].state \in {"lexed", "loose", "empty"}
    /\ payload \in [Slots -> Payloads \cup {Vacant}]
    /\ \A i \in Slots : payload[i] # Vacant <=> i \in DOMAIN table.meta /\ Occupied(table, i)

(* After any sequence of operations, rotations and list surgery the container
   passes its own integrity check and tree validation, which assert; and the
   highest index, by which shrinking decides what it may give up, is exact. *)
IntegrityHolds ==
    /\ PrivateIntegrityCheck
    /\ TreeIsInOrder
    /\ LET occupied == {i \in DOMAIN table.meta : Occupied(table, i)}
       IN  table.high = IF occupied = {} THEN None ELSE Highest(occupied)

(* What the searches by key and by rank, the duplicate check and the rank map
   find by walking links is what the sequence of slots says. *)
QueriesAgree ==
    LET q     == InOrder(table)
        all   == q \o ListOf(table, "loose") \o ListOf(table, "empty")
        key(n) == KeyOf(payload[q[n]])
        FirstOf(P(_)) == LET S == {n \in DOMAIN q : P(n)}
                       IN  IF S = {} THEN None ELSE q[CHOOSE n \in S : \A k \in S : n <= k]
        LastOf(P(_)) == LET S == {n \in DOMAIN q : P(n)}
                       IN  IF S = {} THEN None ELSE q[CHOOSE n \in S : \A k \in S : n >= k]
    IN  /\ BuildRankMap = all
        /\ \A n \in DOMAIN all : LocateByRankIndex(n - 1) = all[n] /\ ConvertToRankIndex(all[n]) = n - 1
        /\ \A x \in Payloads :
             LET k == KeyOf(x) IN
             /\ LocateFirstEqual(x)        = FirstOf(LAMBDA n : key(n) = k)
             /\ LocateLastEqual(x)         = LastOf(LAMBDA n : key(n) = k)
             /\ LocateFirstGreater(x)      = FirstOf(LAMBDA n : key(n) > k)
             /\ LocateFirstGreaterEqual(x) = FirstOf(LAMBDA n : key(n) >= k)
             /\ LocateLastLess(x)          = LastOf(LAMBDA n : key(n) < k)
             /\ LocateLastLessEqual(x)     = LastOf(LAMBDA n : key(n) <= k)
             /\ LET any == LocateAnyEqual(x)
                IN  IF any = None THEN \A n \in DOMAIN q : key(n) # k ELSE KeyOf(payload[any]) = k
        /\ \A i \in ToSet(q) :
             HasDuplicateInLexed(i) <=> \E j \in ToSet(q) \ {i} : KeyOf(payload[i]) = KeyOf(payload[j])

Sequences == INSTANCE SlotSequences WITH
    Ordered <- TRUE,
    lexed <- InOrder(table), loose <- ListOf(table, "loose"), empty <- ListOf(table, "empty")

(* The container implements the three sequences: every operation moves slots
   between them as promised, keeps equal keys in order of insertion, and packing
   moves every payload to the slot of its rank.
   This is Sequences!Spec, asked of the steps of the container. *)
IsSlotSequences ==
    Sequences!Init /\ [][UNCHANGED vars \/ Sequences!Next \/ UNCHANGED Sequences!contents]_vars
=============================================================================

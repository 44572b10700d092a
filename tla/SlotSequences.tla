--------------------------- MODULE SlotSequences ---------------------------
(***************************************************************************)
(* What a slot container promises, without its links: every slot is in     *)
(* exactly one of three sequences.  The lexed slots are in key order, a    *)
(* slot inserted later after its equals; the loose and the empty ones are  *)
(* in the order in which they are handed out.  An unordered container is   *)
(* one that never lexes.                                                   *)
(***************************************************************************)
EXTENDS Integers, Sequences, SequencesExt

CONSTANTS
    CapacityLimit,      \* the largest capacity
    Payloads,           \* what a slot may hold
    Vacant,             \* the payload of an empty slot
    KeyOf(_),           \* the key by which payloads are ordered
    Ordered             \* packing follows the sequences, not the indices

VARIABLES lexed, loose, empty, payload

contents == <<lexed, loose, empty, payload>>

AllSlots == ToSet(lexed) \cup ToSet(loose) \cup ToSet(empty)

Without(q, i) == SelectSeq(q, LAMBDA j : j # i)

\* The slots from lo to hi, in index order.
Ascending(lo, hi) == [n \in 1 .. hi - lo + 1 |-> lo + n - 1]

InIndexOrder(S) == SetToSortSeq(S, <)

\* q with slot i inserted after every slot whose key is not above that of i.
Inserted(q, p, i) ==
    LET n == Len(SelectSeq(q, LAMBDA j : KeyOf(p[j]) <= KeyOf(p[i])))
    IN  SubSeq(q, 1, n) \o <<i>> \o SubSeq(q, n + 1, Len(q))

Sorted(q, p) == FoldLeft(LAMBDA acc, i : Inserted(acc, p, i), <<>>, q)

Init ==
    /\ lexed = <<>> /\ loose = <<>> /\ empty = <<>>
    /\ payload = [i \in 0 .. CapacityLimit - 1 |-> Vacant]

\* Any number of empty slots may join at the end, with the next indices.
Grown(q, n) == q \o Ascending(Len(lexed \o loose \o empty), n - 1)

\* An empty slot i gets the payload x, in key order or at the head of the
\* loose sequence; the container may have had to grow to n slots for it.
Acquire(n, i, x, inOrder) ==
    /\ i \in ToSet(Grown(empty, n))
    /\ payload' = [payload EXCEPT ![i] = x]
    /\ empty' = Without(Grown(empty, n), i)
    /\ IF inOrder
       THEN Ordered /\ lexed' = Inserted(lexed, payload', i) /\ loose' = loose
       ELSE loose' = <<i>> \o loose /\ lexed' = lexed

Erase(i) ==
    /\ i \in ToSet(lexed \o loose)
    /\ payload' = [payload EXCEPT ![i] = Vacant]
    /\ empty' = <<i>> \o empty
    /\ lexed' = Without(lexed, i) /\ loose' = Without(loose, i)

Lex(i) ==
    /\ i \in ToSet(loose)
    /\ lexed' = Inserted(lexed, payload, i) /\ loose' = Without(loose, i)
    /\ UNCHANGED <<empty, payload>>

Unlex(i) ==
    /\ i \in ToSet(lexed)
    /\ lexed' = Without(lexed, i) /\ loose' = <<i>> \o loose
    /\ UNCHANGED <<empty, payload>>

\* The payload of one lexed slot changes and the slot is put where it belongs.
Relex(i, x) ==
    /\ i \in ToSet(lexed)
    /\ payload' = [payload EXCEPT ![i] = x]
    /\ lexed' = Inserted(Without(lexed, i), payload', i)
    /\ UNCHANGED <<loose, empty>>

LexAll ==
    /\ lexed' = Sorted(lexed \o loose, payload) /\ loose' = <<>>
    /\ UNCHANGED <<empty, payload>>

UnlexAll ==
    /\ loose' = loose \o lexed /\ lexed' = <<>>
    /\ UNCHANGED <<empty, payload>>

\* Any payloads of lexed slots change, then all are put in order.
RelexAll(p) ==
    /\ \A i \in DOMAIN p \ ToSet(lexed) : p[i] = payload[i]
    /\ payload' = p
    /\ lexed' = Sorted(lexed, p)
    /\ UNCHANGED <<loose, empty>>

\* Shrinking gives up empty slots above every occupied one.
Resize(n) ==
    /\ AllSlots # {}
    /\ ToSet(lexed \o loose) \subseteq 0 .. n - 1
    /\ empty' = IF n >= Len(lexed \o loose \o empty) THEN Grown(empty, n)
                ELSE InIndexOrder({i \in ToSet(empty) : i < n})
    /\ UNCHANGED <<lexed, loose, payload>>

\* Every payload moves to the slot numbered by its rank in q; the rest is empty.
Packed(q, n, k) ==
    /\ payload' = [i \in DOMAIN payload |->
                     IF i < n + k THEN payload[q[i + 1]] ELSE Vacant]
    /\ lexed' = Ascending(0, n - 1)
    /\ loose' = Ascending(n, n + k - 1)
    /\ empty' = Ascending(n + k, Len(lexed \o loose \o empty) - 1)

SortAndPack == Ordered /\ Packed(lexed \o loose, Len(lexed), Len(loose))

PackInIndexOrder ==
    /\ ~Ordered /\ loose # <<>>
    /\ Packed(InIndexOrder(ToSet(loose)), 0, Len(loose))

Reorder ==
    /\ \/ loose' = InIndexOrder(ToSet(loose)) /\ empty' = empty
       \/ empty' = InIndexOrder(ToSet(empty)) /\ loose' = loose
    /\ UNCHANGED <<lexed, payload>>

\* All slots become empty, or there are n empty ones, none at all if n is 0.
Reset(n) ==
    /\ lexed' = <<>> /\ loose' = <<>>
    /\ empty' = Ascending(0, n - 1)
    /\ payload' = [i \in DOMAIN payload |-> Vacant]

Next ==
    \/ \E n \in 0 .. CapacityLimit, i \in 0 .. CapacityLimit - 1,
          x \in Payloads, inOrder \in BOOLEAN : Acquire(n, i, x, inOrder)
    \/ \E i \in AllSlots :
         \/ Erase(i) \/ Lex(i) \/ Unlex(i)
         \/ \E x \in Payloads : Relex(i, x)
    \/ LexAll \/ UnlexAll \/ RelexAll(payload')
    \/ \E n \in 1 .. CapacityLimit : Resize(n)
    \/ SortAndPack \/ PackInIndexOrder \/ Reorder
    \/ \E n \in 0 .. CapacityLimit : Reset(n)

Spec == Init /\ [][Next]_contents
=============================================================================

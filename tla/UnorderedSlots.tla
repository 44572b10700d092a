--------------------------- MODULE UnorderedSlots ---------------------------
(***************************************************************************)
(* slots::TUnorderedSlots: the container of OrderedSlots without the tree. *)
(* A slot is loose or empty and a member of one of two circular lists,     *)
(* whose links and whose name the code packs into the two words of a slot. *)
(* index is the array of slots with the counters beside it.                *)
(*                                                                         *)
(* External: the payload array of the class that derives from it.  The     *)
(* payload of an empty slot, which nobody reads, is Vacant.                *)
(***************************************************************************)
EXTENDS Integers, Sequences, FiniteSets, SequencesExt

CONSTANTS
    CapacityLimit,      \* k_capacity_limit
    Payloads,           \* what a slot may hold
    Vacant              \* the payload of an empty slot

VARIABLES
    index,              \* the slots and the counters
    payload             \* the payload array of the derived class

vars == <<index, payload>>

None == -1
Slots == 0 .. CapacityLimit - 1
States == {"loose", "empty"}

NoIndex ==
    [meta |-> <<>>, head |-> [s \in States |-> None], count |-> [s \in States |-> 0],
     high |-> None, peakIndex |-> None, peakUsage |-> 0]

Capacity(x) == Cardinality(DOMAIN x.meta)
InState(x, lo, hi, s) == {i \in lo .. hi : x.meta[i].state = s}
IsSafe == index # NoIndex
----------------------------------------------------------------------------
(* The circular lists.                                                      *)

\* The slots of S keep their state and become a list in index order.
StateToList(meta, S) ==
    LET q == SetToSortSeq(S, <)
        n == Len(q)
        at(i) == Cardinality({j \in S : j <= i})
    IN  [i \in DOMAIN meta |->
           IF i \in S THEN [meta[i] EXCEPT !.next = q[1 + (at(i) % n)],
                                           !.prev = q[1 + ((at(i) + n - 2) % n)]]
           ELSE meta[i]]

\* The first slot of such a list.
FirstOf(S) == IF S = {} THEN None ELSE CHOOSE i \in S : \A j \in S : i <= j

\* All slots of a range change their state and become a list.
RangeToList(meta, lo, hi, s) ==
    [i \in DOMAIN meta \cup lo .. hi |->
       IF i \notin lo .. hi THEN meta[i]
       ELSE [state |-> s, prev |-> IF i = lo THEN hi ELSE i - 1,
                          next |-> IF i = hi THEN lo ELSE i + 1]]

\* The second list is appended to the first.
CombineLists(meta, head1, head2) ==
    IF None \in {head1, head2} THEN meta
    ELSE LET tail1 == meta[head1].prev
             tail2 == meta[head2].prev
         IN  [meta EXCEPT ![head1].prev = tail2, ![tail1].next = head2,
                          ![head2].prev = tail1, ![tail2].next = head1]

CombinedHead(head1, head2) == IF head1 = None THEN head2 ELSE head1

\* An unassigned slot becomes the head of the list of its new state.
Attach(x, i, s) ==
    LET head == x.head[s]
        tail == x.meta[head].prev
    IN  [x EXCEPT !.head[s] = i, !.count[s] = @ + 1,
           !.meta = IF head = None THEN [@ EXCEPT ![i] = [state |-> s, prev |-> i, next |-> i]]
                    ELSE [@ EXCEPT ![i] = [state |-> s, prev |-> tail, next |-> head],
                                   ![tail].next = i, ![head].prev = i]]

RemoveFrom(x, i, s) ==
    LET slot == x.meta[i]
        left == x.count[s] - 1
    IN  [x EXCEPT !.count[s] = left,
           !.head[s] = IF @ # i THEN @ ELSE IF left = 0 THEN None ELSE slot.next,
           !.meta = IF left = 0 THEN @ ELSE [@ EXCEPT ![slot.prev].next = slot.next,
                                                      ![slot.next].prev = slot.prev]]

MoveToLooseList(x, i) == Attach(RemoveFrom(x, i, "empty"), i, "loose")
MoveToEmptyList(x, i) == Attach(RemoveFrom(x, i, "loose"), i, "empty")

\* The members of a list from its head on.
ListOf(x, s) ==
    LET nth[k \in 0 .. x.count[s]] == IF k = 0 THEN x.head[s] ELSE x.meta[nth[k - 1]].next
    IN  [k \in 1 .. x.count[s] |-> nth[k - 1]]
----------------------------------------------------------------------------
Init ==
    /\ index = NoIndex
    /\ payload = [i \in Slots |-> Vacant]

AllEmpty(n) ==
    [NoIndex EXCEPT !.meta = RangeToList(<<>>, 0, n - 1, "empty"),
                    !.head["empty"] = 0, !.count["empty"] = n]

\* private_resize() where it succeeds; a refused or failed one changes nothing.
Resized(x, n) ==
    LET c    == Capacity(x)
        kept == InState(x, 0, n - 1, "empty")
    IN  CASE n = c -> x
          [] c = 0 -> AllEmpty(n)
          [] c # 0 /\ n > c ->
               [x EXCEPT !.meta = CombineLists(RangeToList(@, c, n - 1, "empty"), x.head["empty"], c),
                         !.head["empty"] = CombinedHead(@, c), !.count["empty"] = @ + n - c]
          [] n < c ->
               [x EXCEPT !.meta = StateToList([i \in 0 .. n - 1 |-> x.meta[i]], kept),
                         !.head["empty"] = FirstOf(kept), !.count["empty"] = n - x.count["loose"]]

\* The derived class may answer on_reserve_empty() by any capacity that is
\* enough, or refuse; the allocation of the slots may fail.
Reserved(x, minimum) == {Resized(x, n) : n \in minimum .. CapacityLimit}

Initialise(n) ==
    /\ index' = AllEmpty(n)
    /\ payload' = [i \in Slots |-> Vacant]

Shutdown ==
    /\ index' = NoIndex
    /\ payload' = [i \in Slots |-> Vacant]

Clear ==
    /\ IsSafe
    /\ index' = AllEmpty(Capacity(index))
    /\ payload' = [i \in Slots |-> Vacant]

SafeResize(n) ==
    /\ n > index.high
    /\ index' = Resized(index, n)
    /\ UNCHANGED payload

ReserveEmpty(n) ==
    /\ index.count["empty"] < n /\ n <= CapacityLimit - index.count["loose"]
    /\ index' \in Reserved(index, index.count["loose"] + n)
    /\ UNCHANGED payload

ShrinkToFit ==
    /\ IsSafe /\ index.high >= 0
    /\ index' = Resized(index, index.high + 1)
    /\ UNCHANGED payload

\* The indices in which the slot asked for exists: i, or any one if i is None.
Room(i, mayReserve) ==
    LET c       == Capacity(index)
        minimum == IF i = None THEN c + 1 ELSE i + 1
        short   == IF i = None THEN index.head["empty"] = None ELSE i >= c
    IN  IF ~short THEN {index} ELSE IF mayReserve THEN Reserved(index, minimum) ELSE {}

\* Slot i of the index has become loose.
Counted(x, i) ==
    [x EXCEPT !.peakUsage = IF @ < x.count["loose"] THEN x.count["loose"] ELSE @,
              !.high = IF @ < i THEN i ELSE @,
              !.peakIndex = IF x.high < i /\ @ < i THEN i ELSE @]

\* acquire() and reserve_and_acquire(); the derived class stores the payload v
\* in the slot it is given.
Acquire(i, v, mayReserve) ==
    /\ IsSafe
    /\ \E x \in Room(i, mayReserve) :
         LET slot == IF i = None THEN x.head["empty"] ELSE i
         IN  /\ x.meta[slot].state = "empty"
             /\ index' = Counted(MoveToLooseList(x, slot), slot)
             /\ payload' = [payload EXCEPT ![slot] = v]

\* Slot i of the index becomes empty.
Erased(x, i) ==
    LET y     == MoveToEmptyList(x, i)
        below == InState(y, 0, y.high - 1, "loose")
    IN  [y EXCEPT !.high = IF @ # i THEN @ ELSE IF y.count["loose"] = 0 THEN None
                           ELSE CHOOSE h \in below : \A j \in below : j <= h]

Erase(i) ==
    /\ i \in DOMAIN index.meta /\ index.meta[i].state = "loose"
    /\ index' = Erased(index, i)
    /\ payload' = [payload EXCEPT ![i] = Vacant]

\* on_move_payload(source, target) swaps two elements of the array p, for the
\* occupied slots in ascending order and where the two differ.
Compacted(x, p) ==
    LET moved[i \in -1 .. Capacity(x) - 1] ==         \* after the scan has passed slot i
            IF i = -1 THEN [p |-> p, target |-> 0]
            ELSE LET before == moved[i - 1]
                     t      == before.target
                 IN  IF x.meta[i].state # "loose" THEN before
                     ELSE [p |-> [before.p EXCEPT ![i] = before.p[t], ![t] = before.p[i]],
                           target |-> t + 1]
    IN  moved[Capacity(x) - 1].p

Pack ==
    LET n == index.count["loose"]
        c == Capacity(index)
    IN  /\ IsSafe /\ n # 0
        /\ payload' = Compacted(index, payload)
        /\ index' = [index EXCEPT
             !.meta = RangeToList(RangeToList(@, 0, n - 1, "loose"), n, c - 1, "empty"),
             !.head["loose"] = 0, !.head["empty"] = IF n = c THEN None ELSE n,
             !.high = n - 1]

RebuildLooseInIndexOrder ==
    LET S == InState(index, 0, index.high, "loose")
    IN  /\ index.count["loose"] # 0
        /\ index' = [index EXCEPT !.meta = StateToList(@, S), !.head["loose"] = FirstOf(S)]
        /\ UNCHANGED payload

RebuildEmptyInIndexOrder ==
    LET h    == index.high + 1
        c    == Capacity(index)
        S    == InState(index, 0, h - 1, "empty")
        tail == IF h < c THEN h ELSE None
        meta == RangeToList(StateToList(index.meta, S), h, c - 1, "empty")
    IN  /\ index.count["empty"] # 0
        /\ index' = [index EXCEPT !.meta = CombineLists(meta, FirstOf(S), tail),
                                  !.head["empty"] = CombinedHead(FirstOf(S), tail)]
        /\ UNCHANGED payload

Next ==
    \/ \E n \in 1 .. CapacityLimit : Initialise(n) \/ SafeResize(n) \/ ReserveEmpty(n)
    \/ Shutdown \/ Clear \/ ShrinkToFit
    \/ \E i \in Slots \cup {None}, v \in Payloads, mayReserve \in BOOLEAN : Acquire(i, v, mayReserve)
    \/ \E i \in Slots : Erase(i)
    \/ Pack \/ RebuildLooseInIndexOrder \/ RebuildEmptyInIndexOrder

Spec == Init /\ [][Next]_vars
----------------------------------------------------------------------------
(* The queries, on the index as it is.                                      *)

\* The occupied slots by rank: a rank is a place in index order.
BuildRankMap == SetToSortSeq(InState(index, 0, index.high, "loose"), <)

ConvertToRankIndex(i) ==
    IF index.meta[i].state = "loose" THEN Cardinality(InState(index, 0, i - 1, "loose")) ELSE None

LocateByRankIndex(rank) ==
    LET scan[i \in Slots, left \in 0 .. rank] ==
            IF index.meta[i].state # "loose" THEN scan[i + 1, left]
            ELSE IF left = 0 THEN i ELSE scan[i + 1, left - 1]
    IN  scan[0, rank]

\* next_loose() and prev_loose(), next_empty() and prev_empty(): the neighbour,
\* and none behind the tail or before the head.
NextInList(i) ==
    LET n == index.meta[i].next
    IN  IF n = index.head[index.meta[i].state] THEN None ELSE n

PrevInList(i) == IF i = index.head[index.meta[i].state] THEN None ELSE index.meta[i].prev

LastInList(s) == IF index.head[s] = None THEN None ELSE index.meta[index.head[s]].prev
----------------------------------------------------------------------------
(* private_integrity_check()                                                *)

HeadersAreSound ==
    LET c == Capacity(index)
    IN  /\ c <= CapacityLimit /\ index.count["loose"] + index.count["empty"] = c
        /\ \A s \in States : /\ index.head[s] < c
                             /\ index.count[s] = 0 <=> index.head[s] = None
        /\ IF index.high = None THEN index.count["loose"] = 0
           ELSE index.high + 1 >= index.count["loose"]
        /\ index.peakUsage <= CapacityLimit /\ index.peakUsage <= index.peakIndex + 1

ListsAreSound ==
    \A s \in States :
      LET q == ListOf(index, s)
          n == Len(q)
      IN  /\ n = Cardinality(InState(index, 0, Capacity(index) - 1, s))
          /\ \A k \in 1 .. n :
               /\ index.meta[q[k]].state = s
               /\ index.meta[index.meta[q[k]].next].prev = q[k]
               /\ k > 1 => q[k] # index.head[s]
          /\ n # 0 => index.meta[q[n]].next = index.head[s]

PrivateIntegrityCheck ==
    IF index.meta = <<>> THEN index = NoIndex
    ELSE /\ HeadersAreSound
         /\ \A i \in DOMAIN index.meta : {index.meta[i].prev, index.meta[i].next} \subseteq DOMAIN index.meta
         /\ ListsAreSound
----------------------------------------------------------------------------
(* Properties.                                                              *)

(* The indices stay in their ranges and a slot is loose exactly when it has a
   payload: the members of TUnorderedSlots and the payload array. *)
TypeOK ==
    /\ index.high \in -1 .. CapacityLimit - 1 /\ index.peakIndex \in -1 .. CapacityLimit - 1
    /\ index.peakUsage \in 0 .. CapacityLimit
    /\ DOMAIN index.meta = 0 .. Capacity(index) - 1
    /\ \A i \in DOMAIN index.meta : index.meta[i].state \in States
    /\ payload \in [Slots -> Payloads \cup {Vacant}]
    /\ \A i \in Slots : payload[i] # Vacant <=> i \in InState(index, 0, Capacity(index) - 1, "loose")

(* After any sequence of operations the container passes its own integrity
   check, which asserts, and the highest index, by which shrinking decides what
   it may give up, is that of the highest occupied slot. *)
IntegrityHolds ==
    /\ PrivateIntegrityCheck
    /\ LET loose == InState(index, 0, Capacity(index) - 1, "loose")
       IN  IF loose = {} THEN index.high = None
           ELSE index.high \in loose /\ \A i \in loose : i <= index.high

(* The rank map and both rank searches number the occupied slots in index
   order, and the traversal of either list visits it once both ways. *)
QueriesAgree ==
    /\ \A n \in 1 .. index.count["loose"] :
         /\ LocateByRankIndex(n - 1) = BuildRankMap[n]
         /\ ConvertToRankIndex(BuildRankMap[n]) = n - 1
    /\ \A s \in States :
         LET q == ListOf(index, s)
             n == Len(q)
         IN  /\ LastInList(s) = (IF n = 0 THEN None ELSE q[n])
             /\ \A k \in 1 .. n : /\ NextInList(q[k]) = (IF k = n THEN None ELSE q[k + 1])
                                  /\ PrevInList(q[k]) = (IF k = 1 THEN None ELSE q[k - 1])

Sequences == INSTANCE SlotSequences WITH
    KeyOf <- LAMBDA v : 0, Ordered <- FALSE,
    lexed <- <<>>, loose <- ListOf(index, "loose"), empty <- ListOf(index, "empty")

(* The container implements the slot sequences without ever lexing: every
   operation moves slots between the two lists as promised, and packing moves
   every payload to the slot of its rank.
   This is Sequences!Spec, asked of the steps of the container. *)
IsSlotSequences ==
    Sequences!Init /\ [][UNCHANGED vars \/ Sequences!Next \/ UNCHANGED Sequences!contents]_vars
=============================================================================

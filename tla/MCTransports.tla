----------------------------- MODULE MCTransports -----------------------------
(***************************************************************************)
(* The transports other than TQueue, for TLC: the single-producer single-  *)
(* consumer TRing, TOwning and TBulk, and the index ring and the arena for *)
(* many producers and consumers.  They share nothing, so that no           *)
(* interleaving of two of them shows more than each shows alone: moving    *)
(* says which one moves, and the others stay in their initial states.      *)
(***************************************************************************)
EXTENDS TRingTransport, FiniteSets

CONSTANTS
    Element, Empty, OwningMaxCapacity, OwningRequests, And,     \* of TOwning
    MaxVersion,                                                 \* of TBulk
    Capacity,                                                   \* of the index ring and of the arena
    RingThreads, RingPayloads, WordValues, StartFull, Origin, Operations,
    Producers, Consumers, Closer, MayShutdown

VARIABLES
    moving,                                             \* the transport that moves
    slots, slotCount, readSlot, writeSlot, filled,      \* of TOwning
    posterAt, posted, readerAt, received, resident,
    data, output, staged, locked, held, word,           \* of TBulk
    mutating, published, acquired,
    sequence, payload, enqueue, dequeue,                \* of the index ring
    ringAt, position, value, left,
    supplier, populated, status, outstanding,           \* of the arena
    at, index, lost

\* Bitwise and, of words of three bits.
MCAnd == [w \in (0 .. 7) \X (0 .. 7) |->
    LET both(b) == ((w[1] \div b) % 2) * ((w[2] \div b) % 2) * b
    IN  both(1) + both(2) + both(4)]

MCNextPower == [n \in 0 .. 4 |-> CASE n <= 2 -> n [] OTHER -> 4]

Owning == INSTANCE TOwningTransport
    WITH MaxCapacity <- OwningMaxCapacity, Requests <- OwningRequests,
         ring <- slots, capacity <- slotCount, readIndex <- readSlot, writeIndex <- writeSlot,
         occupied <- filled, producerAt <- posterAt, src <- posted, consumerAt <- readerAt,
         dst <- received
Bulk == INSTANCE TBulkTransport WITH consumer <- held
IndexRing == INSTANCE TMpmcIndexRing
    WITH Thread <- RingThreads, Payload <- RingPayloads, at <- ringAt
Arena == INSTANCE TMpmcArena WITH Producer <- Producers, Consumer <- Consumers

ASSUME PartsAssumption ==
    Owning!OwningAssumption /\ MaxVersion \in Nat /\ IndexRing!RingAssumption /\ Arena!ArenaAssumption

owningVars == <<slots, slotCount, readSlot, writeSlot, filled, posterAt, posted, readerAt, received, resident>>
bulkVars == <<data, output, staged, locked, held, word, mutating, published, acquired>>
indexRingVars == <<sequence, payload, enqueue, dequeue, ringAt, position, value, left>>
arenaVars == <<supplier, populated, status, outstanding, at, index, lost>>
allVars == <<moving, vars, owningVars, bulkVars, indexRingVars, arenaVars>>

AllInit ==
    /\ moving \in {"ring", "owning", "bulk", "indexRing", "arena"}
    /\ Init /\ Owning!Init /\ Bulk!Init /\ IndexRing!Init /\ Arena!Init

\* The transports other than one stay as they are.
Only(one) ==
    /\ moving = one /\ UNCHANGED moving
    /\ IF one = "ring" THEN TRUE ELSE UNCHANGED vars
    /\ IF one = "owning" THEN TRUE ELSE UNCHANGED owningVars
    /\ IF one = "bulk" THEN TRUE ELSE UNCHANGED bulkVars
    /\ IF one = "indexRing" THEN TRUE ELSE UNCHANGED indexRingVars
    /\ IF one = "arena" THEN TRUE ELSE UNCHANGED arenaVars

\* The calls its threads were to make have ended; every other transport goes on.
IndexRingIsDone ==
    moving = "indexRing" /\ left = 0 /\ \A t \in RingThreads : ringAt[t] = "idle"

AllNext ==
    \/ Only("ring") /\ Next
    \/ Only("owning") /\ Owning!Next
    \/ Only("bulk") /\ Bulk!Next
    \/ Only("indexRing") /\ IndexRing!Next
    \/ Only("arena") /\ Arena!Next
    \/ IndexRingIsDone /\ UNCHANGED allVars

AllSpec == AllInit /\ [][AllNext]_allVars

\* The fairness of the arena, when it is the one that moves.
ThreadGoesOn(t) == Only("arena") /\ Arena!ThreadNext(t) /\ ~Arena!ReserveCheck(t)
CloserGoesOn == Only("arena") /\ (Arena!ClosingLoad \/ Arena!ClosingClose)

FairSpec ==
    /\ AllSpec
    /\ \A t \in Producers \cup Consumers : WF_allVars(ThreadGoesOn(t))
    /\ WF_allVars(CloserGoesOn)
-----------------------------------------------------------------------------
(* TOwning: an unread element is in exactly one slot until it is read, and
   a read that returns true gives its caller an element.  TBulk: what is
   staged is the latest publication, and complete. *)
ElementsAreKept ==
    /\ TypeOK /\ Owning!TypeOK /\ Bulk!TypeOK
    /\ Owning!UnreadAreOwned /\ Owning!ReadsGiveElements
    /\ Bulk!StagedIsLatest

(* The index ring and the arena: a slot has one owner at a time, although
   threads claim and complete in any order and positions wrap; the count of
   slots in use is exact but for the calls about to change it, never passes
   below zero, and a closing with nothing in use is not missed by both of the
   two that may close. *)
SlotsHaveOneOwner ==
    /\ IndexRing!TypeOK /\ IndexRing!SlotsAreExclusive /\ IndexRing!PositionsValid
    /\ Arena!TypeOK /\ Arena!OneOwner /\ Arena!CountIsExact /\ Arena!CountNeverWraps
    /\ Arena!NoMissedClose

(* TOwning: what is read is what was posted, in order.  TBulk: each
   acquisition gives a later state than the one before.  The index ring: its
   cells are claimed and given up in order, and a call is refused only at an
   instant at which the ring could not admit it. *)
DeliveriesAreInOrder ==
    Owning!IsBoundedFifo /\ Bulk!AcquisitionsAdvance /\ IndexRing!IsClaimRing /\ IndexRing!RefusalsAreJust

(* The arena: orderly closing completes, unless a push that was refused
   beside a stalled pop has lost a slot, whose count then never comes down. *)
ClosingCompletes == moving = "arena" => Arena!ClosingCompletes
=============================================================================

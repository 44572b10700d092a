---------------------------- MODULE TRingTransport ----------------------------
(***************************************************************************)
(* threading::transports::TRing<T>                                         *)
(* (src/core/threading/transports/TRingTransport.hpp): the fixed-capacity  *)
(* single-producer single-consumer ring of batches.                        *)
(*                                                                         *)
(* The endpoints share the storage and one atomic count.  A call loads the *)
(* count, works on the storage by what it saw, and adjusts the count; the  *)
(* three are actions of their own, so that each endpoint may act on a      *)
(* count that the other has changed since.                                 *)
(***************************************************************************)
EXTENDS Integers, Sequences

CONSTANTS
    Item,           \* the trivially copyable elements
    MinCapacity,    \* k_min_capacity
    MaxCapacity,    \* k_max_capacity
    NextPower,      \* bit_ops::round_up_to_pow2, as a function of the request
    Requests,       \* the capacities an owner asks for; bounds the model
    Batch           \* the largest count of one post or read; bounds the model

ASSUME CapacityAssumption ==
    /\ MinCapacity \in Nat \ {0} /\ MaxCapacity \in Nat
    /\ MinCapacity <= MaxCapacity

ASSUME BoundAssumption == Requests \subseteq Nat /\ Batch \in Nat

ASSUME NextPowerAssumption == \A request \in Requests : NextPower[request] \in Nat

VARIABLES
    ring,                       \* m_ring
    capacity,                   \* m_capacity
    readIndex, writeIndex,      \* m_read_index (consumer), m_write_index (producer)
    occupied,                   \* m_occupied_count, shared
    producerAt, src,            \* the post() in progress
    consumerAt, want,           \* the read() in progress
    dst                         \* the destination of the last read

ownerVars == <<capacity>>
producerVars == <<writeIndex, producerAt, src>>
consumerVars == <<readIndex, consumerAt, want, dst>>
vars == <<ring, capacity, readIndex, writeIndex, occupied, producerAt, src, consumerAt, want, dst>>

Batches == UNION {[1 .. n -> Item] : n \in 1 .. Batch}

Least(a, b) == IF a <= b THEN a ELSE b
Greatest(a, b) == IF a >= b THEN a ELSE b

Ready == capacity # 0
Slots == 0 .. capacity - 1
-----------------------------------------------------------------------------
Init ==
    /\ ring = <<>>
    /\ capacity = 0 /\ readIndex = 0 /\ writeIndex = 0 /\ occupied = 0
    /\ producerAt = "idle" /\ src = <<>>
    /\ consumerAt = "idle" /\ want = 0
    /\ dst = <<>>

Quiescent == producerAt = "idle" /\ consumerAt = "idle"

Conditioned(request) == Greatest(Least(NextPower[request], MaxCapacity), MinCapacity)

(* The storage is not initialised: it starts with any elements.            *)
Initialise(request, debris) ==
    /\ Quiescent /\ ~Ready
    /\ request <= MaxCapacity
    /\ capacity' = Conditioned(request)
    /\ ring' = [i \in 0 .. Conditioned(request) - 1 |-> debris]
    /\ readIndex' = 0 /\ writeIndex' = 0 /\ occupied' = 0
    /\ UNCHANGED <<producerAt, src, consumerAt, want, dst>>

Deallocate ==
    /\ Quiescent
    /\ ring' = <<>> /\ capacity' = 0
    /\ readIndex' = 0 /\ writeIndex' = 0 /\ occupied' = 0
    /\ UNCHANGED <<producerAt, src, consumerAt, want, dst>>
-----------------------------------------------------------------------------
(* Mutant: one slot more than is free.                                     *)
WritableCountOneMore == IF occupied <= capacity THEN capacity - occupied + 1 ELSE 0

WritableCount == IF occupied <= capacity THEN capacity - occupied ELSE 0
ReadableCount == IF occupied <= capacity THEN occupied ELSE 0

(* Mutant: a batch that ends at the end of the storage does not wrap.      *)
AdvancedPastEnd(index, count) ==
    IF index + count <= capacity THEN index + count ELSE index + count - capacity

(* An index moved on by a batch.  The mask of the code's first branch is a *)
(* remainder, its capacity being a power of two, and only wraps a batch    *)
(* that ends at the end of the storage.                                    *)
Advanced(index, count) ==
    IF index + count < capacity THEN index + count ELSE index + count - capacity

(* Mutant: the second memcpy is missing.                                   *)
OffsetFirstPart(index, slot) == IF slot >= index THEN slot - index ELSE capacity

(* The place of a slot in a batch that starts at an index.                 *)
Offset(index, slot) == IF slot >= index THEN slot - index ELSE slot - index + capacity

PostCheck(items) ==
    /\ producerAt = "idle" /\ Ready
    /\ Len(items) <= WritableCount
    /\ producerAt' = "copy" /\ src' = items
    /\ UNCHANGED <<ring, ownerVars, writeIndex, consumerVars, occupied>>

(* The one or two memcpy calls, and the write index.                       *)
PostCopy ==
    /\ producerAt = "copy"
    /\ ring' = [slot \in Slots |-> IF Offset(writeIndex, slot) < Len(src)
                                   THEN src[Offset(writeIndex, slot) + 1]
                                   ELSE ring[slot]]
    /\ writeIndex' = Advanced(writeIndex, Len(src))
    /\ producerAt' = "publish"
    /\ UNCHANGED <<ownerVars, src, consumerVars, occupied>>

PostPublish ==
    /\ producerAt = "publish"
    /\ occupied' = occupied + Len(src)
    /\ producerAt' = "idle" /\ src' = <<>>
    /\ UNCHANGED <<ring, ownerVars, writeIndex, consumerVars>>
-----------------------------------------------------------------------------
ReadCheck(count) ==
    /\ consumerAt = "idle" /\ Ready
    /\ count <= ReadableCount
    /\ consumerAt' = "copy" /\ want' = count
    /\ UNCHANGED <<ring, ownerVars, producerVars, readIndex, dst, occupied>>

(* The one or two memcpy calls, and the read index.                        *)
ReadCopy ==
    /\ consumerAt = "copy"
    /\ dst' = [k \in 1 .. want |-> ring[Advanced(readIndex, k - 1)]]
    /\ readIndex' = Advanced(readIndex, want)
    /\ consumerAt' = "release"
    /\ UNCHANGED <<ring, ownerVars, producerVars, want, occupied>>

ReadRelease ==
    /\ consumerAt = "release"
    /\ occupied' = occupied - want
    /\ consumerAt' = "idle" /\ want' = 0
    /\ UNCHANGED <<ring, ownerVars, producerVars, readIndex, dst>>
-----------------------------------------------------------------------------
Owner ==
    \/ \E request \in Requests, debris \in Item : Initialise(request, debris)
    \/ Deallocate

Producer == PostCopy \/ PostPublish \/ \E items \in Batches : PostCheck(items)

Consumer == ReadCopy \/ ReadRelease \/ \E count \in 1 .. Batch : ReadCheck(count)

Next == Owner \/ Producer \/ Consumer

Spec == Init /\ [][Next]_vars
-----------------------------------------------------------------------------
(* Properties.                                                             *)

TypeOK ==
    /\ capacity \in Nat
    /\ ring \in [Slots -> Item]
    /\ readIndex \in Nat /\ writeIndex \in Nat
    /\ occupied \in Nat
    /\ producerAt \in {"idle", "copy", "publish"} /\ src \in Seq(Item)
    /\ consumerAt \in {"idle", "copy", "release"} /\ want \in Nat
    /\ dst \in Seq(Item)

(* The slots that the calls in progress write and read.                    *)
Written == IF producerAt = "copy" THEN {Advanced(writeIndex, k) : k \in 0 .. Len(src) - 1} ELSE {}
Copied == IF consumerAt = "copy" THEN {Advanced(readIndex, k) : k \in 0 .. want - 1} ELSE {}

(* A post never writes a slot that a read is copying, although each judges *)
(* by a count that the other may have changed since.                       *)
NoSharedSlot == Written \cap Copied = {}

(* posting_is_valid() and reading_is_valid(), in the middle of any call.   *)
IndicesValid ==
    /\ occupied <= capacity
    /\ Ready => writeIndex < capacity /\ readIndex < capacity
    /\ ~Ready => writeIndex = 0 /\ readIndex = 0

(* What has been posted and not yet copied out.                            *)
Taken == IF consumerAt = "release" THEN want ELSE 0
Contents == [k \in 1 .. occupied - Taken |-> ring[Advanced(readIndex, k - 1)]]

(* The ring is a bounded FIFO: what is read is what was posted, in order.  *)
Fifo == INSTANCE BoundedFifo
    WITH offered <- src, contents <- Contents, taken <- dst, room <- capacity

IsBoundedFifo == Fifo!Spec

(* The inductive invariant: both indices and the count describe one and    *)
(* the same span of the ring, with the post in progress behind it.         *)
Placed == IF producerAt = "publish" THEN Len(src) ELSE 0

BoundsInv ==
    /\ capacity = 0 \/ (MinCapacity <= capacity /\ capacity <= MaxCapacity)
    /\ ~Ready => producerAt = "idle" /\ consumerAt = "idle"
    /\ producerAt = "idle" => src = <<>>
    /\ producerAt # "idle" => src # <<>> /\ occupied + Len(src) <= capacity
    /\ consumerAt = "idle" => want = 0
    /\ consumerAt # "idle" => want # 0 /\ want <= occupied

SpanInv == Ready => writeIndex = Advanced(readIndex, occupied - Taken + Placed)

PlacedInv ==
    producerAt = "publish" =>
        \A k \in 1 .. Len(src) :
            ring[Advanced(readIndex, occupied - Taken + k - 1)] = src[k]

IInv == TypeOK /\ IndicesValid /\ BoundsInv /\ SpanInv /\ PlacedInv
=============================================================================

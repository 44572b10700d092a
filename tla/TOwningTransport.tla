--------------------------- MODULE TOwningTransport ---------------------------
(***************************************************************************)
(* threading::transports::TOwning<T>                                       *)
(* (src/core/threading/transports/TOwningTransport.hpp): the               *)
(* single-producer single-consumer ring of owning elements.  Every slot is *)
(* a live object; post() and read() move ownership into one and out of it. *)
(*                                                                         *)
(* As in TRingTransport, the load of the shared count, the work on the     *)
(* slots and the adjustment of the count are actions of their own.         *)
(***************************************************************************)
EXTENDS Integers, Sequences

CONSTANTS
    Element,        \* what is owned: each exists once
    Empty,          \* a default-constructed or moved-from object
    MinCapacity,    \* k_min_capacity
    MaxCapacity,    \* min(k_max_capacity, k_token_max_capacity)
    Requests,       \* the capacities an owner asks for; bounds the model
    And             \* bitwise and of words, a function of the pair

VARIABLES
    ring,                       \* m_ring
    capacity,                   \* m_capacity
    readIndex, writeIndex,      \* m_read_index (consumer), m_write_index (producer)
    occupied,                   \* m_occupied_count, shared
    producerAt, src,            \* the post() in progress, and the object it moves from
    consumerAt,                 \* the read() in progress
    dst,                        \* the object that read() last moved to
    resident                    \* auxiliary: what was moved in and not out

vars == <<ring, capacity, readIndex, writeIndex, occupied, producerAt, src, consumerAt, dst, resident>>

Least(a, b) == IF a <= b THEN a ELSE b
Greatest(a, b) == IF a >= b THEN a ELSE b

Ready == capacity # 0
Slots == 0 .. capacity - 1

(* bit_ops::round_up_to_pow2                                               *)
RoundUpToPow2(n) == CHOOSE p \in {2 ^ k : k \in 0 .. 20} :
                    p >= n /\ \A k \in 0 .. 20 : 2 ^ k >= n => p <= 2 ^ k
-----------------------------------------------------------------------------
Init ==
    /\ ring = <<>>
    /\ capacity = 0 /\ readIndex = 0 /\ writeIndex = 0 /\ occupied = 0
    /\ producerAt = "idle" /\ src = Empty
    /\ consumerAt = "idle" /\ dst = <<>>
    /\ resident = {}

Quiescent == producerAt = "idle" /\ consumerAt = "idle"

Conditioned(request) == Greatest(Least(RoundUpToPow2(request), MaxCapacity), MinCapacity)

(* What the index arithmetic rests on: the capacities are such that a mask *)
(* of capacity - 1 takes an index modulo the capacity, which is so of the  *)
(* powers of two.  k_max_capacity is one; k_token_max_capacity is one when *)
(* the size of an element is, and a request that rounds up past one that   *)
(* is not has no such capacity.                                            *)
OwningAssumption ==
    /\ Empty \notin Element
    /\ MinCapacity \in Nat \ {0} /\ MaxCapacity \in Nat
    /\ \A request \in Requests : request <= MaxCapacity =>
          /\ Conditioned(request) \in Nat
          /\ \A index \in 0 .. Conditioned(request) - 1 :
                And[<<index + 1, Conditioned(request) - 1>>] = (index + 1) % Conditioned(request)

(* Every slot is default-constructed.                                      *)
Initialise(request) ==
    /\ Quiescent /\ ~Ready
    /\ request <= MaxCapacity
    /\ capacity' = Conditioned(request)
    /\ ring' = [i \in 0 .. Conditioned(request) - 1 |-> Empty]
    /\ readIndex' = 0 /\ writeIndex' = 0 /\ occupied' = 0
    /\ UNCHANGED <<producerAt, src, consumerAt, dst, resident>>

(* The slots are destroyed, with what is still in them.                    *)
Deallocate ==
    /\ Quiescent
    /\ ring' = <<>> /\ capacity' = 0
    /\ readIndex' = 0 /\ writeIndex' = 0 /\ occupied' = 0
    /\ resident' = {}
    /\ UNCHANGED <<producerAt, src, consumerAt, dst>>
-----------------------------------------------------------------------------
WritableCount == IF occupied <= capacity THEN capacity - occupied ELSE 0
ReadableCount == IF occupied <= capacity THEN occupied ELSE 0

(* Mutant: the capacity is taken for the mask.                             *)
NextIndexByCapacity(index) == And[<<index + 1, capacity>>]

NextIndex(index) == And[<<index + 1, capacity - 1>>]

PostCheck(element) ==
    /\ producerAt = "idle" /\ Ready
    /\ WritableCount # 0
    /\ producerAt' = "move" /\ src' = element
    /\ UNCHANGED <<ring, capacity, readIndex, writeIndex, occupied, consumerAt, dst, resident>>

PostMove ==
    /\ producerAt = "move"
    /\ ring' = [ring EXCEPT ![writeIndex] = src]
    /\ src' = Empty
    /\ writeIndex' = NextIndex(writeIndex)
    /\ producerAt' = "publish"
    /\ resident' = resident \cup {src}
    /\ UNCHANGED <<capacity, readIndex, occupied, consumerAt, dst>>

PostPublish ==
    /\ producerAt = "publish"
    /\ occupied' = occupied + 1
    /\ producerAt' = "idle"
    /\ UNCHANGED <<ring, capacity, readIndex, writeIndex, src, consumerAt, dst, resident>>
-----------------------------------------------------------------------------
ReadCheck ==
    /\ consumerAt = "idle" /\ Ready
    /\ ReadableCount # 0
    /\ consumerAt' = "move"
    /\ UNCHANGED <<ring, capacity, readIndex, writeIndex, occupied, producerAt, src, dst, resident>>

(* What the destination owned before is destroyed.                         *)
ReadMove ==
    /\ consumerAt = "move"
    /\ dst' = <<ring[readIndex]>>
    /\ ring' = [ring EXCEPT ![readIndex] = Empty]
    /\ readIndex' = NextIndex(readIndex)
    /\ consumerAt' = "release"
    /\ resident' = resident \ {ring[readIndex]}
    /\ UNCHANGED <<capacity, writeIndex, occupied, producerAt, src>>

ReadRelease ==
    /\ consumerAt = "release"
    /\ occupied' = occupied - 1
    /\ consumerAt' = "idle"
    /\ UNCHANGED <<ring, capacity, readIndex, writeIndex, producerAt, src, dst, resident>>
-----------------------------------------------------------------------------
(* A producer posts what nobody owns yet.                                  *)
Unowned == Element \ (resident \cup {src} \cup {dst[i] : i \in DOMAIN dst})

Owner == Deallocate \/ \E request \in Requests : Initialise(request)

Producer == PostMove \/ PostPublish \/ \E element \in Unowned : PostCheck(element)

Consumer == ReadCheck \/ ReadMove \/ ReadRelease

Next == Owner \/ Producer \/ Consumer

Spec == Init /\ [][Next]_vars
-----------------------------------------------------------------------------
TypeOK ==
    /\ capacity \in Nat
    /\ ring \in [Slots -> Element \cup {Empty}]
    /\ readIndex \in Nat /\ writeIndex \in Nat
    /\ occupied \in Nat
    /\ producerAt \in {"idle", "move", "publish"} /\ src \in Element \cup {Empty}
    /\ consumerAt \in {"idle", "move", "release"} /\ dst \in Seq(Element \cup {Empty})
    /\ resident \subseteq Element

(* TOwningTransport.md: "Unread elements are owned by the transport until  *)
(* they are read or destroyed by `deallocate()`": no post overwrites one,  *)
(* and none is in two slots.                                               *)
UnreadAreOwned ==
    /\ \A element \in resident : \E slot \in Slots : ring[slot] = element
    /\ \A i, j \in Slots : ring[i] = ring[j] /\ ring[i] # Empty => i = j

(* A read that returns true gives its caller an element, never an empty    *)
(* object.                                                                 *)
ReadsGiveElements == \A i \in DOMAIN dst : dst[i] # Empty

(* What has been posted and not yet moved out.                             *)
Contents ==
    [k \in 1 .. occupied - (IF consumerAt = "release" THEN 1 ELSE 0) |->
        ring[(readIndex + k - 1) % capacity]]

Offered ==
    CASE producerAt = "move" -> <<src>>
      [] producerAt = "publish" -> <<ring[(writeIndex - 1) % capacity]>>
      [] producerAt = "idle" -> <<>>

(* The ring is a bounded FIFO: what is read is what was posted, in order.  *)
Fifo == INSTANCE BoundedFifo
    WITH offered <- Offered, contents <- Contents, taken <- dst, room <- capacity

IsBoundedFifo == Fifo!Spec
=============================================================================

---------------------------- MODULE TMpmcIndexRing ----------------------------
(***************************************************************************)
(* threading::transports::TMpmcIndexRing<>                                 *)
(* (src/core/threading/transports/TMpmcTransport.hpp): the bounded         *)
(* multi-producer multi-consumer ring of 32-bit payloads.                  *)
(*                                                                         *)
(* Every atomic load, store and compare-exchange of push() and pop() is an *)
(* action of its own; the plain access to a slot's payload goes with the   *)
(* release store of the sequence that follows it.  Positions and sequences *)
(* are words that wrap.                                                    *)
(***************************************************************************)
EXTENDS Integers, Sequences, FiniteSets

CONSTANTS
    Thread,
    Payload,
    Capacity,       \* k_capacity
    WordValues,     \* 2^32 in the code
    StartFull,      \* the constructor's argument
    Origin,         \* pushes and pops completed before the behaviour starts, modulo WordValues
    Operations      \* the pushes and pops the threads start; bounds the model

IsPowerOfTwo(n) == \E k \in 0 .. 32 : n = 2 ^ k

(* The calls are fewer than it takes to come round to a word that a        *)
(* stalled thread still has.                                               *)
RingAssumption ==
    /\ Capacity \in Nat \ {0, 1} /\ IsPowerOfTwo(Capacity)
    /\ WordValues \in Nat /\ IsPowerOfTwo(WordValues)
    /\ 4 * Capacity <= WordValues /\ WordValues % Capacity = 0
    /\ Operations \in Nat /\ Operations + 3 * Capacity <= WordValues + 3
    /\ 0 .. Capacity - 1 \subseteq Payload
    /\ StartFull \in BOOLEAN
    /\ Origin \in 0 .. WordValues - 1 /\ Origin % Capacity = 0

VARIABLES
    sequence, payload,      \* m_slots
    enqueue, dequeue,       \* m_enqueue_position, m_dequeue_position
    at,                     \* where each thread is in its call
    position,               \* its local position
    value,                  \* what it pushes
    left                    \* the calls that may still start

vars == <<sequence, payload, enqueue, dequeue, at, position, value, left>>

Slots == 0 .. Capacity - 1
Word == 0 .. WordValues - 1
Wrap(n) == n % WordValues
SlotOf(p) == p % Capacity       \* p & k_mask

(* static_cast<std::int32_t>(a - b)                                        *)
Difference(a, b) ==
    IF Wrap(a - b) < WordValues \div 2 THEN Wrap(a - b) ELSE Wrap(a - b) - WordValues

Init ==
    /\ payload = [i \in Slots |-> i]
    /\ sequence = [i \in Slots |-> Wrap(Origin + i + (IF StartFull THEN 1 ELSE 0))]
    /\ enqueue = Wrap(Origin + (IF StartFull THEN Capacity ELSE 0))
    /\ dequeue = Origin
    /\ at = [t \in Thread |-> "idle"]
    /\ position = [t \in Thread |-> 0]
    /\ value = [t \in Thread |-> 0]
    /\ left = Operations

Proceed(t, step) ==
    /\ at' = [at EXCEPT ![t] = step]
    /\ UNCHANGED <<position, value>>

(* A call's locals end with it.                                            *)
Return(t) ==
    /\ at' = [at EXCEPT ![t] = "idle"]
    /\ position' = [position EXCEPT ![t] = 0]
    /\ value' = [value EXCEPT ![t] = 0]
-----------------------------------------------------------------------------
(* push(payload, out_sequence)                                             *)

PushBegin(t, p) ==
    /\ at[t] = "idle" /\ left # 0
    /\ left' = left - 1
    /\ value' = [value EXCEPT ![t] = p]
    /\ at' = [at EXCEPT ![t] = "push_load"]
    /\ UNCHANGED <<sequence, payload, enqueue, dequeue, position>>

PushLoad(t) ==
    /\ at[t] = "push_load"
    /\ position' = [position EXCEPT ![t] = enqueue]
    /\ at' = [at EXCEPT ![t] = "push_test"]
    /\ UNCHANGED <<sequence, payload, enqueue, dequeue, value, left>>

(* A slot that is still occupied refuses the push; one that another push   *)
(* has taken sends it to load again.                                       *)
PushTest(t) ==
    LET difference == Difference(sequence[SlotOf(position[t])], position[t])
    IN  /\ at[t] = "push_test"
        /\ \/ difference = 0 /\ Proceed(t, "push_claim")
           \/ difference < 0 /\ Return(t)
           \/ difference > 0 /\ Proceed(t, "push_load")
        /\ UNCHANGED <<sequence, payload, enqueue, dequeue, left>>

(* compare_exchange_weak may fail although the position is as expected.    *)
PushClaim(t) ==
    /\ at[t] = "push_claim"
    /\ \/ /\ enqueue = position[t]
          /\ enqueue' = Wrap(position[t] + 1)
          /\ at' = [at EXCEPT ![t] = "push_fill"]
          /\ UNCHANGED position
       \/ /\ position' = [position EXCEPT ![t] = enqueue]
          /\ at' = [at EXCEPT ![t] = "push_test"]
          /\ UNCHANGED enqueue
    /\ UNCHANGED <<sequence, payload, dequeue, value, left>>

PushFill(t) ==
    /\ at[t] = "push_fill"
    /\ payload' = [payload EXCEPT ![SlotOf(position[t])] = value[t]]
    /\ sequence' = [sequence EXCEPT ![SlotOf(position[t])] = Wrap(position[t] + 1)]
    /\ Return(t)
    /\ UNCHANGED <<enqueue, dequeue, left>>
-----------------------------------------------------------------------------
(* pop(out_payload, out_sequence)                                          *)

PopBegin(t) ==
    /\ at[t] = "idle" /\ left # 0
    /\ left' = left - 1
    /\ at' = [at EXCEPT ![t] = "pop_load"]
    /\ UNCHANGED <<sequence, payload, enqueue, dequeue, position, value>>

PopLoad(t) ==
    /\ at[t] = "pop_load"
    /\ position' = [position EXCEPT ![t] = dequeue]
    /\ at' = [at EXCEPT ![t] = "pop_test"]
    /\ UNCHANGED <<sequence, payload, enqueue, dequeue, value, left>>

PopTest(t) ==
    LET difference == Difference(sequence[SlotOf(position[t])], Wrap(position[t] + 1))
    IN  /\ at[t] = "pop_test"
        /\ \/ difference = 0 /\ Proceed(t, "pop_claim")
           \/ difference < 0 /\ Return(t)
           \/ difference > 0 /\ Proceed(t, "pop_load")
        /\ UNCHANGED <<sequence, payload, enqueue, dequeue, left>>

PopClaim(t) ==
    /\ at[t] = "pop_claim"
    /\ \/ /\ dequeue = position[t]
          /\ dequeue' = Wrap(position[t] + 1)
          /\ at' = [at EXCEPT ![t] = "pop_empty"]
          /\ UNCHANGED position
       \/ /\ position' = [position EXCEPT ![t] = dequeue]
          /\ at' = [at EXCEPT ![t] = "pop_test"]
          /\ UNCHANGED dequeue
    /\ UNCHANGED <<sequence, payload, enqueue, value, left>>

(* Mutant: the slot is not handed to the next lap.                         *)
PopEmptySameLap(t) ==
    /\ at[t] = "pop_empty"
    /\ sequence' = [sequence EXCEPT ![SlotOf(position[t])] = Wrap(position[t] + 1)]
    /\ Return(t)
    /\ UNCHANGED <<payload, enqueue, dequeue, left>>

(* The payload read here is the call's result.                             *)
PopEmpty(t) ==
    /\ at[t] = "pop_empty"
    /\ sequence' = [sequence EXCEPT ![SlotOf(position[t])] = Wrap(position[t] + Capacity)]
    /\ Return(t)
    /\ UNCHANGED <<payload, enqueue, dequeue, left>>
-----------------------------------------------------------------------------
Next ==
    \E t \in Thread :
        \/ \E p \in Payload : PushBegin(t, p)
        \/ PushLoad(t) \/ PushTest(t) \/ PushClaim(t) \/ PushFill(t)
        \/ PopBegin(t)
        \/ PopLoad(t) \/ PopTest(t) \/ PopClaim(t) \/ PopEmpty(t)

Spec == Init /\ [][Next]_vars
-----------------------------------------------------------------------------
TypeOK ==
    /\ sequence \in [Slots -> Word] /\ payload \in [Slots -> Payload]
    /\ enqueue \in Word /\ dequeue \in Word
    /\ at \in [Thread -> {"idle", "push_load", "push_test", "push_claim", "push_fill",
                          "pop_load", "pop_test", "pop_claim", "pop_empty"}]
    /\ position \in [Thread -> Word] /\ value \in [Thread -> Payload]
    /\ left \in 0 .. Operations

(* A slot's payload, which is not atomic, is in the hands of one thread at *)
(* a time.                                                                 *)
SlotsAreExclusive ==
    \A t, u \in Thread :
        /\ at[t] \in {"push_fill", "pop_empty"} /\ at[u] \in {"push_fill", "pop_empty"}
        /\ SlotOf(position[t]) = SlotOf(position[u])
        => t = u

(* readable_count(), read in one instant, never exceeds the capacity: the  *)
(* two positions keep their order and distance when they wrap.             *)
ReadableCount == Wrap(enqueue - dequeue)
PositionsValid == ReadableCount <= Capacity

(* The window from the oldest position that is not vacated.                *)
Filling(p) == {t \in Thread : at[t] = "push_fill" /\ position[t] = p}
Emptying(p) == {t \in Thread : at[t] = "pop_empty" /\ position[t] = p}
Size ==
    LET behind == {Wrap(enqueue - p) : p \in {dequeue} \cup {q \in Word : Emptying(q) # {}}}
    IN  CHOOSE n \in behind : \A m \in behind : m <= n

Cell(p) ==
    CASE Filling(p) # {} -> [item |-> value[CHOOSE t \in Filling(p) : TRUE], state |-> "filling"]
      [] Emptying(p) # {} -> [item |-> payload[SlotOf(p)], state |-> "emptying"]
      [] Filling(p) = {} /\ Emptying(p) = {} ->
            [item |-> payload[SlotOf(p)],
             state |-> IF Wrap(enqueue - p) <= ReadableCount THEN "full" ELSE "vacated"]

Ring == INSTANCE ClaimRing
    WITH cells <- [k \in 1 .. Size |-> Cell(Wrap(enqueue - Size + k - 1))],
         Item <- Payload,
         InitialItems <- [k \in 1 .. (IF StartFull THEN Capacity ELSE 0) |-> k - 1]

IsClaimRing == Ring!Spec

(* A call that returns false does so at an instant at which the ring could *)
(* not admit it, however old the position and the sequence it judged by.   *)
RefusalsAreJust ==
    [][\A t \in Thread :
          /\ at[t] = "push_test" /\ at'[t] = "idle" => ~Ring!CanPush
          /\ at[t] = "pop_test" /\ at'[t] = "idle" => ~Ring!CanPop]_vars
=============================================================================

--------------------------- MODULE TQueueTransport ---------------------------
(***************************************************************************)
(* threading::transports::TQueue<T>                                        *)
(* (src/core/threading/transports/TQueueTransport.hpp): the triple-buffered *)
(* single-producer single-consumer queue.                                  *)
(*                                                                         *)
(* The producer and the consumer share one atomic word, which names the    *)
(* published buffer and its phase, and nothing else: the producer cannot   *)
(* see how far the consumer has read, the consumer cannot see the roles    *)
(* the producer gives the buffers.  Each atomic operation on the word is   *)
(* an action of its own; the local work between two of them is folded into *)
(* an action of the thread that does it.                                   *)
(***************************************************************************)
EXTENDS Integers, Sequences

CONSTANTS
    Item,           \* the trivially copyable elements
    MinCapacity,    \* k_min_capacity
    CapacityLimit,  \* min(k_max_capacity, k_token_max_capacity)
    GrowthPolicy,   \* memory::vector_growth_policy, as a function of the requirement
    Requests,       \* the capacities an owner asks for; bounds the model
    Batches,        \* the postings; bounds the model
    Counts,         \* the counts of reads; bounds the model
    AllocationMayFail

ASSUME CapacityAssumption ==
    /\ MinCapacity \in Nat \ {0}
    /\ CapacityLimit \in Nat
    /\ MinCapacity <= CapacityLimit

(* growth_policy() never recommends less than it is asked for, up to the   *)
(* limit; it is asked for at most two full buffers.                        *)
ASSUME GrowthAssumption ==
    \A n \in 0 .. (2 * CapacityLimit) :
        /\ GrowthPolicy[n] \in Nat
        /\ GrowthPolicy[n] >= n \/ GrowthPolicy[n] >= CapacityLimit

ASSUME BoundAssumption ==
    /\ Requests \subseteq Nat
    /\ Batches \subseteq Seq(Item) \ {<<>>}
    /\ Counts \subseteq Nat \ {0}
    /\ AllocationMayFail \in BOOLEAN

VARIABLES
    allowDiscard, capacity, maxCapacity,    \* configuration
    poisoned,                               \* m_allocation_failed
    buffers,                                \* m_buffers[3]
    postingPhase, output, staged, locked,   \* producer state
    readingPhase, reading, readIndex,       \* consumer state
    word,                                   \* m_staged_word
    producerAt, src, discarding,            \* the post() in progress
    consumerAt, want,                       \* the read() in progress
    dst,                                    \* the destination of the last successful read()
    owed                                    \* auxiliary: see below

configVars == <<allowDiscard, maxCapacity>>
roleVars == <<output, staged, locked>>
callVars == <<producerAt, src, discarding>>
producerVars == <<configVars, capacity, poisoned, buffers, postingPhase, roleVars, callVars>>
consumerVars == <<readingPhase, reading, readIndex, consumerAt, want, dst>>
vars == <<allowDiscard, capacity, maxCapacity, poisoned, buffers, postingPhase, output, staged,
          locked, readingPhase, reading, readIndex, word, producerAt, src, discarding,
          consumerAt, want, dst, owed>>

(* The staged word holds a buffer id (the index plus one, 0 for none) in   *)
(* its low bits and a phase in the 4 bit.  Zero is what the consumer leaves *)
(* behind; the initial word 4 names no buffer and is not zero.             *)
Index == 0 .. 2
NullIndex == 3
Phase == {0, 1}

(* Mutant: the phase never changes.                                        *)
FlippedNever(phase) == phase

Flipped(phase) == 1 - phase
Word == [id : 0 .. 3, phase : Phase]
Staged(index, phase) == [id |-> index + 1, phase |-> phase]
Consumed == [id |-> 0, phase |-> 0]
DefaultWord == [id |-> 0, phase |-> 1]

Buffer == [capacity : Nat, data : Seq(Item)]
Size(index) == Len(buffers[index].data)
NoBuffer == [capacity |-> 0, data |-> <<>>]

Least(a, b) == IF a <= b THEN a ELSE b
Greatest(a, b) == IF a >= b THEN a ELSE b

Ready == maxCapacity # 0
-----------------------------------------------------------------------------
(* Setup and teardown, by the owner while neither endpoint is in a call.   *)

Quiescent == producerAt = "idle" /\ consumerAt = "idle"

IsPowerOfTwo(n) == \E k \in 0 .. 20 : n = 2 ^ k

(* initialise_fixed conditions the capacity it is asked for.               *)
Conditioned(request) ==
    Greatest(
        Least(IF IsPowerOfTwo(request) THEN request ELSE GrowthPolicy[request], CapacityLimit),
        MinCapacity)

(* initialise_growable(request, maximum): a maximum of 0 asks for the      *)
(* limit, a maximum equal to the request for a fixed capacity.             *)
GrowableMaximum(request, maximum) ==
    IF maximum = request THEN Conditioned(request)
    ELSE IF maximum = 0 THEN CapacityLimit
    ELSE Greatest(maximum, Conditioned(request))

EmptyState ==
    /\ allowDiscard = FALSE /\ capacity = 0 /\ maxCapacity = 0 /\ poisoned = FALSE
    /\ buffers = [i \in Index |-> NoBuffer]
    /\ postingPhase = 0 /\ output = 0 /\ staged = 1 /\ locked = 2
    /\ readingPhase = 0 /\ reading = NullIndex /\ readIndex = 0
    /\ word = DefaultWord

Init ==
    /\ EmptyState
    /\ producerAt = "idle" /\ src = <<>> /\ discarding = FALSE
    /\ consumerAt = "idle" /\ want = 0
    /\ dst = <<>>
    /\ owed = 0

ResetRoles ==
    /\ postingPhase' = 0 /\ output' = 0 /\ staged' = 1 /\ locked' = 2
    /\ readingPhase' = 0 /\ reading' = NullIndex /\ readIndex' = 0
    /\ word' = DefaultWord

(* A failed allocation deallocates again, which leaves the empty state.    *)
Setup(request, maximum, discard) ==
    /\ Quiescent /\ ~Ready
    /\ allowDiscard' = discard
    /\ capacity' = Conditioned(request)
    /\ maxCapacity' = maximum
    /\ buffers' = [i \in Index |-> [capacity |-> Conditioned(request), data |-> <<>>]]
    /\ ResetRoles
    /\ UNCHANGED <<poisoned, callVars, consumerAt, want, dst, owed>>

InitialiseFixed(request, discard) ==
    /\ request <= CapacityLimit
    /\ Setup(request, Conditioned(request), discard)

InitialiseGrowable(request, maximum) ==
    /\ request <= CapacityLimit /\ maximum <= CapacityLimit
    /\ maximum = 0 \/ request <= maximum
    /\ Setup(request, GrowableMaximum(request, maximum), FALSE)

Deallocate ==
    /\ Quiescent
    /\ allowDiscard' = FALSE /\ capacity' = 0 /\ maxCapacity' = 0 /\ poisoned' = FALSE
    /\ buffers' = [i \in Index |-> NoBuffer]
    /\ ResetRoles
    /\ owed' = 0
    /\ UNCHANGED <<callVars, consumerAt, want, dst>>
-----------------------------------------------------------------------------
(* growth_and_discard_policy: keep the capacity, else grow it, else drop   *)
(* the output buffer's backlog, else refuse.  The size it judges by is the *)
(* output buffer's, which still counts what the consumer may have taken.   *)

GrownCapacity(required) == Least(Greatest(GrowthPolicy[required], capacity), maxCapacity)

(* Mutant: the free space is measured against the maximum.                 *)
KeepsByMaximum(count, size) == count <= maxCapacity - size

Keeps(count, size) == count <= capacity - size
Grows(count, size) == ~Keeps(count, size) /\ count <= GrownCapacity(size + count) - size
Discards(count, size) == allowDiscard /\ ~Keeps(count, size) /\ ~Grows(count, size)
Refuses(count, size) == ~allowDiscard /\ ~Keeps(count, size) /\ ~Grows(count, size)

PolicyCapacity(count, size) ==
    IF Keeps(count, size) THEN capacity
    ELSE IF Grows(count, size) THEN GrownCapacity(size + count)
    ELSE IF count > capacity THEN GrownCapacity(count)
    ELSE capacity
-----------------------------------------------------------------------------
(* What the consumer can still obtain: the rest of the buffer it holds and *)
(* the published buffer, if its phase is the one the consumer expects.     *)

Held == IF reading = NullIndex THEN <<>>
        ELSE SubSeq(buffers[reading].data, readIndex + 1, Size(reading))

Acceptable == word.id # 0 /\ word.phase = readingPhase

Backlog == IF Acceptable THEN buffers[word.id - 1].data ELSE <<>>

(* owed counts the items of the posts that returned true, less those read  *)
(* and those a lossy post abandoned: what the producer may believe is      *)
(* still on its way.                                                       *)
-----------------------------------------------------------------------------
(* The producer's post().                                                  *)

(* A reallocation that is needed may fail, which poisons the producer and  *)
(* ends the call with false.                                               *)
ReallocationFails(index, target) ==
    /\ AllocationMayFail
    /\ buffers[index].capacity # target
    /\ poisoned' = TRUE
    /\ producerAt' = "idle" /\ src' = <<>> /\ discarding' = FALSE

(* Mutant: a posting goes before what is already there.                    *)
AppendedInFront(index, target, discard, items) ==
    [capacity |-> target,
     data |-> items \o (IF discard THEN <<>> ELSE buffers[index].data)]

Appended(index, target, discard, items) ==
    [capacity |-> target,
     data |-> (IF discard THEN <<>> ELSE buffers[index].data) \o items]

(* Guards, policy, and the copy into the output buffer.                    *)
PostPrepare(items) ==
    LET count == Len(items)
        target == PolicyCapacity(count, Size(output))
        discard == Discards(count, Size(output))
    IN  /\ producerAt = "idle"
        /\ Ready /\ ~poisoned /\ count <= maxCapacity
        /\ ~Refuses(count, Size(output))
        /\ capacity' = target
        /\ \/ /\ buffers' = [buffers EXCEPT ![output] = Appended(output, target, discard, items)]
              /\ producerAt' = "publish" /\ src' = items /\ discarding' = discard
              /\ UNCHANGED poisoned
           \/ /\ ReallocationFails(output, target)
              /\ UNCHANGED buffers
        /\ UNCHANGED <<configVars, postingPhase, roleVars, consumerVars, word, owed>>

(* The atomic exchange: zero comes back when the consumer has taken what   *)
(* was staged, and then what was just published is obsolete.               *)
PostExchange ==
    /\ producerAt = "publish"
    /\ word' = Staged(output, postingPhase)
    /\ IF word = Consumed
       THEN /\ producerAt' = "rebase"
            /\ postingPhase' = Flipped(postingPhase)
            /\ UNCHANGED owed
       ELSE /\ producerAt' = "extend"
            /\ owed' = IF discarding THEN Len(Held) ELSE owed
            /\ UNCHANGED postingPhase
    /\ UNCHANGED <<configVars, capacity, poisoned, buffers, roleVars, src, discarding, consumerVars>>

(* Mutant: only the buffer to be published is rebased, not the output.     *)
PostRebaseLockedOnly ==
    /\ producerAt = "rebase"
    /\ buffers' = [buffers EXCEPT ![locked] = [capacity |-> capacity, data |-> src]]
    /\ producerAt' = "republish"
    /\ UNCHANGED <<poisoned, src, discarding>>
    /\ UNCHANGED <<configVars, capacity, postingPhase, roleVars, consumerVars, word, owed>>

(* Rebase: output and locked start again from this posting alone.          *)
PostRebase ==
    /\ producerAt = "rebase"
    /\ \/ /\ buffers' = [buffers EXCEPT ![output].data = src,
                                         ![locked] = [capacity |-> capacity, data |-> src]]
          /\ producerAt' = "republish"
          /\ UNCHANGED <<poisoned, src, discarding>>
       \/ /\ ReallocationFails(locked, capacity)
          /\ UNCHANGED buffers
    /\ UNCHANGED <<configVars, capacity, postingPhase, roleVars, consumerVars, word, owed>>

(* The atomic store that publishes the rebased buffer, and the return.     *)
PostRepublish ==
    /\ producerAt = "republish"
    /\ word' = Staged(locked, postingPhase)
    /\ locked' = staged /\ staged' = locked
    /\ owed' = owed + Len(src)
    /\ producerAt' = "idle" /\ src' = <<>> /\ discarding' = FALSE
    /\ UNCHANGED <<configVars, capacity, poisoned, buffers, postingPhase, output, consumerVars>>

(* The previous publication was still pending: it is brought level with    *)
(* the new one and becomes the next output.  The new one is visible by now, *)
(* whether or not this step succeeds.                                      *)
PostExtend ==
    /\ producerAt = "extend"
    /\ \/ /\ buffers' = [buffers EXCEPT ![staged] = Appended(staged, capacity, discarding, src)]
          /\ output' = staged /\ staged' = output
          /\ owed' = owed + Len(src)
          /\ producerAt' = "idle" /\ src' = <<>> /\ discarding' = FALSE
          /\ UNCHANGED poisoned
       \/ /\ ReallocationFails(staged, capacity)
          /\ UNCHANGED <<buffers, output, staged, owed>>
    /\ UNCHANGED <<configVars, capacity, postingPhase, locked, consumerVars, word>>
-----------------------------------------------------------------------------
(* The consumer's read() and refresh_readable_count() (a read of 0 items). *)

CurrentReadableCount == IF reading = NullIndex THEN 0 ELSE Size(reading) - readIndex

(* The copy, the advance, and the release of an exhausted buffer.          *)
CopyOut(count) ==
    /\ count <= CurrentReadableCount
    /\ dst' = SubSeq(buffers[reading].data, readIndex + 1, readIndex + count)
    /\ owed' = owed - count
    /\ IF readIndex + count = Size(reading)
       THEN reading' = NullIndex /\ readIndex' = 0
       ELSE reading' = reading /\ readIndex' = readIndex + count

(* A read while a buffer is held needs nothing of the producer.            *)
ReadHeld(count) ==
    /\ consumerAt = "idle" /\ Ready /\ reading # NullIndex
    /\ count # 0 /\ count <= maxCapacity
    /\ CopyOut(count)
    /\ UNCHANGED <<producerVars, readingPhase, consumerAt, want, word>>

(* Mutant: the id of buffer 0 is taken for no buffer.                      *)
RefreshCheckByIndex(count) ==
    /\ consumerAt = "idle" /\ Ready /\ reading = NullIndex
    /\ count <= maxCapacity
    /\ word.id > 1
    /\ consumerAt' = "exchange" /\ want' = count
    /\ UNCHANGED <<producerVars, readingPhase, reading, readIndex, dst, word, owed>>

(* The pre-check load: a word that names no buffer is left alone.          *)
RefreshCheck(count) ==
    /\ consumerAt = "idle" /\ Ready /\ reading = NullIndex
    /\ count <= maxCapacity
    /\ word.id # 0
    /\ consumerAt' = "exchange" /\ want' = count
    /\ UNCHANGED <<producerVars, readingPhase, reading, readIndex, dst, word, owed>>

(* The atomic exchange with zero, which accepts or rejects by phase.       *)
RefreshExchange ==
    /\ consumerAt = "exchange"
    /\ word' = Consumed
    /\ IF Acceptable
       THEN /\ readingPhase' = Flipped(word.phase)
            /\ reading' = word.id - 1
            /\ consumerAt' = "copy"
            /\ UNCHANGED want
       ELSE /\ consumerAt' = "idle" /\ want' = 0
            /\ UNCHANGED <<readingPhase, reading>>
    /\ UNCHANGED <<producerVars, readIndex, dst, owed>>

(* The rest of the read that refreshed: all of the request or none of it.  *)
ReadAccepted ==
    /\ consumerAt = "copy"
    /\ IF want # 0 /\ want <= CurrentReadableCount
       THEN CopyOut(want)
       ELSE UNCHANGED <<reading, readIndex, dst, owed>>
    /\ consumerAt' = "idle" /\ want' = 0
    /\ UNCHANGED <<producerVars, readingPhase, word>>
-----------------------------------------------------------------------------
Owner ==
    \/ \E request \in Requests, discard \in BOOLEAN : InitialiseFixed(request, discard)
    \/ \E request \in Requests, maximum \in Requests \cup {0} : InitialiseGrowable(request, maximum)
    \/ Deallocate

Producer ==
    \/ \E items \in Batches : PostPrepare(items)
    \/ PostExchange \/ PostRebase \/ PostRepublish \/ PostExtend

Consumer ==
    \/ \E count \in Counts : ReadHeld(count)
    \/ \E count \in Counts \cup {0} : RefreshCheck(count)
    \/ RefreshExchange \/ ReadAccepted

Next == Owner \/ Producer \/ Consumer

Spec == Init /\ [][Next]_vars
-----------------------------------------------------------------------------
(* The state predicates the code itself evaluates.                         *)

(* posting_is_valid(), for the producer thread between two calls.          *)
PostingIsValid ==
    /\ ~poisoned /\ capacity <= maxCapacity
    /\ \A i \in Index :
          /\ Size(i) <= buffers[i].capacity
          /\ MinCapacity <= buffers[i].capacity /\ buffers[i].capacity <= capacity
    /\ {output, staged, locked} = Index

(* reading_is_valid(), for the consumer thread between two calls.          *)
ReadingIsValid ==
    reading # NullIndex =>
        /\ Size(reading) <= buffers[reading].capacity
        /\ MinCapacity <= buffers[reading].capacity
        /\ readIndex <= Size(reading)

(* validate(), for an owner while neither thread is in a call.             *)
Validate ==
    /\ PostingIsValid /\ ReadingIsValid
    /\ reading = locked \/ reading = NullIndex
-----------------------------------------------------------------------------
(* Properties.                                                             *)

TypeOK ==
    /\ allowDiscard \in BOOLEAN /\ poisoned \in BOOLEAN
    /\ capacity \in Nat /\ maxCapacity \in Nat
    /\ buffers \in [Index -> Buffer]
    /\ postingPhase \in Phase /\ readingPhase \in Phase
    /\ output \in Index /\ staged \in Index /\ locked \in Index
    /\ reading \in Index \cup {NullIndex}
    /\ readIndex \in Nat
    /\ word \in Word
    /\ producerAt \in {"idle", "publish", "rebase", "republish", "extend"}
    /\ src \in Seq(Item) /\ discarding \in BOOLEAN
    /\ consumerAt \in {"idle", "exchange", "copy"}
    /\ want \in Nat
    /\ dst \in Seq(Item)
    /\ owed \in Int

(* The producer never writes a buffer the consumer is reading: not the     *)
(* output buffer before it publishes, not the two it rebases, not the      *)
(* staged one it extends.  The code guards these copies by the word alone. *)
NoSharedWrite ==
    /\ (producerAt = "idle" /\ ~poisoned) \/ producerAt = "publish" => reading # output
    /\ producerAt = "rebase" => reading \notin {output, locked}
    /\ producerAt = "extend" => reading # staged

(* No copy runs past the storage of its buffer, through any sequence of    *)
(* growth, discard and rebase.                                             *)
WithinCapacity == \A i \in Index : Size(i) <= buffers[i].capacity

(* Both endpoints' own validity checks hold between calls, whatever the    *)
(* other endpoint is in the middle of.                                     *)
EndpointsValid ==
    /\ (Ready /\ ~poisoned /\ producerAt = "idle") => PostingIsValid
    /\ (Ready /\ consumerAt = "idle") => ReadingIsValid

(* The fields keep their types and the two properties above hold, through  *)
(* every interleaving of posts, reads, growth and discards.                *)
QueueIsSound == TypeOK /\ WithinCapacity /\ EndpointsValid

(* Nothing a post() accepted is lost to the consumer, at any instant and   *)
(* after any allocation failure; and between the posts of a producer that  *)
(* is not poisoned nothing but that is on its way.                         *)
AcceptedItemsArrive ==
    /\ owed <= Len(Held) + Len(Backlog)
    /\ (producerAt = "idle" /\ ~poisoned) => owed = Len(Held) + Len(Backlog)

(* Nothing but its own reads moves what the consumer holds: neither a      *)
(* discard nor a growth nor a rebase revokes or alters an accepted item.   *)
HeldIsStable == [][Producer => Held' = Held]_vars

(* The queue is a FIFO channel: a post shows all of its items at once,     *)
(* behind those before it, and each is read once, in order.                *)
Offered == IF producerAt \in {"publish", "rebase", "republish"} THEN src ELSE <<>>

Channel == INSTANCE FifoChannel
    WITH offered <- Offered, backlog <- Backlog, held <- Held, taken <- dst,
         lossy <- allowDiscard, open <- Ready

IsFifoChannel == Channel!Spec

(* The inductive invariant, in its parts.                                  *)

Healthy == ~poisoned

(* An uninitialised queue is the canonical empty one, with no call in it.  *)
EmptyInv == ~Ready => EmptyState /\ producerAt = "idle" /\ consumerAt = "idle" /\ owed = 0

RolesInv == output # staged /\ output # locked /\ staged # locked

SizesInv ==
    Ready =>
        /\ capacity <= maxCapacity /\ maxCapacity <= CapacityLimit
        /\ \A i \in Index :
              /\ MinCapacity <= buffers[i].capacity /\ buffers[i].capacity <= capacity
              /\ Size(i) <= buffers[i].capacity

ConsumerInv ==
    /\ reading = NullIndex => readIndex = 0
    /\ reading # NullIndex => readIndex <= Size(reading)
    /\ consumerAt = "exchange" => reading = NullIndex /\ word.id # 0
    /\ consumerAt = "copy" => reading # NullIndex

(* The word and the two phases tell the producer whether the buffer it     *)
(* published last has been taken, and so which buffer the consumer reads.  *)
Unread(index) ==
    /\ word = Staged(index, postingPhase) /\ readingPhase = postingPhase
    /\ reading \in {NullIndex, locked}

Read(index) ==
    /\ word = Consumed /\ readingPhase = Flipped(postingPhase)
    /\ reading \in {NullIndex, index}

Fresh ==
    /\ word = DefaultWord /\ readingPhase = postingPhase
    /\ reading = NullIndex /\ buffers[staged].data = <<>>

Obsolete ==
    /\ word \in {Consumed, Staged(output, Flipped(postingPhase))} /\ readingPhase = postingPhase
    /\ reading \in {NullIndex, staged}

HandshakeInv ==
    Ready =>
        /\ ((producerAt = "idle" /\ Healthy) \/ producerAt = "publish")
               => Unread(staged) \/ Read(staged) \/ Fresh
        /\ producerAt \in {"rebase", "republish"} => Obsolete
        /\ producerAt = "extend" => Unread(output) \/ Read(output)

(* Between posts output and staged hold the same items; the post in        *)
(* progress is ahead in the one that it has published or will publish.     *)
ContentsInv ==
    /\ (producerAt = "idle" /\ Healthy) => buffers[output].data = buffers[staged].data
    /\ producerAt \in {"publish", "extend"} =>
          buffers[output].data = (IF discarding THEN <<>> ELSE buffers[staged].data) \o src
    /\ producerAt = "rebase" => Len(src) <= Size(output)
    /\ producerAt = "republish" => buffers[output].data = src /\ buffers[locked].data = src
    /\ producerAt # "idle" => Healthy /\ buffers[output].capacity = capacity
    /\ producerAt # "idle" => (discarding => allowDiscard)
    /\ producerAt = "republish" => buffers[locked].capacity = capacity

OwedInv ==
    LET onItsWay == Len(Held) + Len(Backlog)
    IN  /\ owed <= onItsWay
        /\ ((producerAt = "idle" /\ Healthy) \/ producerAt = "publish") => owed = onItsWay
        /\ producerAt \in {"rebase", "republish"} => owed = Len(Held)
        /\ producerAt = "extend" => owed + Len(src) = onItsWay

IInv ==
    /\ TypeOK /\ EmptyInv /\ RolesInv /\ SizesInv /\ ConsumerInv
    /\ HandshakeInv /\ ContentsInv /\ OwedInv
-----------------------------------------------------------------------------
(* What a reader of the documentation expects and the code does not keep.  *)

(* The header (lines 118-120) gives validate() as the structural check of a *)
(* quiescent queue: a healthy one should pass it.                          *)
QuiescentQueueValidates == (Ready /\ ~poisoned /\ Quiescent) => Validate

(* A call that began runs to its end, and the consumer polls: each worker  *)
(* loop of the host reads its transports again and again.                  *)
Fairness ==
    /\ WF_vars(PostExchange \/ PostRebase \/ PostRepublish \/ PostExtend)
    /\ WF_vars(RefreshExchange \/ ReadAccepted)
    /\ WF_vars(RefreshCheck(1))
    /\ WF_vars(ReadHeld(1))

FairSpec == Spec /\ Fairness

(* What is published is accepted in the end, although the consumer rejects *)
(* and clears the word of a publication that a rebase is about to replace. *)
PublishedIsAccepted == (Backlog # <<>>) ~> (Backlog = <<>>)
-----------------------------------------------------------------------------
(* A small instance, for TLC.                                              *)

(* A growth curve of the shape of vector_growth_policy: at least what is   *)
(* asked for, never below the minimum, clamped at the limit.               *)
MCGrowth == [n \in 0 .. 2 * CapacityLimit |-> Greatest(MinCapacity, Least(n, CapacityLimit))]
(* Two items: postings of one and of two, of every order of the two that   *)
(* a mixed-up copy would show.                                             *)
MCBatches == {<<"a">>, <<"b", "a">>}
MCItem == {"a", "b"}
=============================================================================

---------------------------- MODULE TBulkTransport ----------------------------
(***************************************************************************)
(* threading::transports::TBulk<T>                                         *)
(* (src/core/threading/transports/TBulkTransport.hpp): the triple-buffered *)
(* single-producer single-consumer latest-state transport.                 *)
(*                                                                         *)
(* publish() and discard_and_acquire() are one atomic exchange each and    *)
(* local bookkeeping, so each is an action; the payload is changed by the  *)
(* producer in place, between its calls, while the consumer may look at    *)
(* the payload it has acquired.                                            *)
(***************************************************************************)
EXTENDS Integers

CONSTANT MaxVersion     \* the number of payloads the producer makes; bounds the model

VARIABLES
    data,                       \* m_data[3]: a version, and whether it is complete
    output, staged, locked,     \* producer state
    consumer,                   \* m_consumer_payload_index
    word,                       \* m_staged_word
    mutating,                   \* the producer is changing its payload
    published,                  \* the version of the latest publication
    acquired                    \* the version of the latest acquisition

vars == <<data, output, staged, locked, consumer, word, mutating, published, acquired>>

Index == 0 .. 2
NullIndex == 3
NullWord == 4
IdOf(w) == w % 4                \* word & 3u

StagedWord(index) == index + 1

Payload == [version : 0 .. MaxVersion, complete : BOOLEAN]

Init ==
    /\ data = [i \in Index |-> [version |-> 0, complete |-> TRUE]]
    /\ output = 0 /\ staged = 1 /\ locked = 2
    /\ consumer = NullIndex
    /\ word = NullWord
    /\ mutating = FALSE
    /\ published = 0 /\ acquired = 0

(* The producer changes the payload producer_data() gives it, which takes  *)
(* more than one write, and fills it before each publish().                *)
Mutate ==
    /\ ~mutating /\ published < MaxVersion
    /\ data' = [data EXCEPT ![output] = [version |-> published + 1, complete |-> FALSE]]
    /\ mutating' = TRUE
    /\ UNCHANGED <<output, staged, locked, consumer, word, published, acquired>>

Publish ==
    /\ mutating
    /\ data' = [data EXCEPT ![output] = [version |-> data[output].version, complete |-> TRUE]]
    /\ mutating' = FALSE
    /\ published' = data[output].version
    /\ word' = StagedWord(output)
    /\ staged' = output
    /\ output' = staged
    /\ locked' = IF word = 0 THEN staged ELSE locked
    /\ UNCHANGED <<consumer, acquired>>

DiscardAndAcquire ==
    /\ word' = 0
    /\ IF IdOf(word) # 0
       THEN /\ consumer' = word - 1
            /\ acquired' = data[word - 1].version
       ELSE /\ consumer' = NullIndex
            /\ UNCHANGED acquired
    /\ UNCHANGED <<data, output, staged, locked, mutating, published>>

Next == Mutate \/ Publish \/ DiscardAndAcquire

Spec == Init /\ [][Next]_vars
-----------------------------------------------------------------------------
TypeOK ==
    /\ data \in [Index -> Payload]
    /\ output \in Index /\ staged \in Index /\ locked \in Index
    /\ consumer \in Index \cup {NullIndex}
    /\ word \in 0 .. NullWord
    /\ mutating \in BOOLEAN
    /\ published \in 0 .. MaxVersion /\ acquired \in 0 .. MaxVersion

(* What is staged is the latest publication, complete, and the producer is *)
(* not changing it: an acquisition at any instant gives the latest state.  *)
StagedIsLatest ==
    IdOf(word) # 0 =>
        /\ word - 1 # output
        /\ data[word - 1] = [version |-> published, complete |-> TRUE]

(* Each acquisition gives a later state than the one before it.            *)
AcquisitionsAdvance ==
    [][(DiscardAndAcquire /\ IdOf(word) # 0) => acquired' > acquired]_vars

(* The header (lines 29-30): "There is no allocation, growth, blocking,    *)
(* overwrite of consumer-held data".  The consumer's payload is the one it *)
(* acquired, complete, for as long as it holds it.                         *)
HeldIsNotOverwritten ==
    consumer # NullIndex => data[consumer] = [version |-> acquired, complete |-> TRUE]
=============================================================================

----------------------------- MODULE TQueueProofs -----------------------------
(***************************************************************************)
(* Proofs about TQueueTransport, for every element set, capacity limit and *)
(* growth policy that its assumptions admit.                               *)
(***************************************************************************)
EXTENDS TQueueTransport, SequenceTheorems, TLAPS

(* The part of a sequence between two places.                              *)
LEMMA PartFacts ==
  ASSUME NEW S, NEW s \in Seq(S), NEW m \in Nat, NEW n \in Nat, m <= n, n <= Len(s)
  PROVE  SubSeq(s, m + 1, n) \in Seq(S) /\ Len(SubSeq(s, m + 1, n)) = n - m
<1>1. \A j \in 1 .. Len(s) : s[j] \in S
  BY ElementOfSeq
<1>2. Len(s) \in Nat
  BY LenProperties
<1>3. m + 1 \in Int /\ \A j \in m + 1 .. n : s[j] \in S
  BY <1>1, <1>2
<1> HIDE <1>1
<1>4. SubSeq(s, m + 1, n) \in Seq(S)
  BY <1>3, SubSeqProperties
<1> QED
  BY <1>3, <1>4, SubSeqProperties

(* A batch is a sequence of items.                                         *)
LEMMA BatchesAreSequences == Batches \subseteq Seq(Item)
BY BoundAssumption

LEMMA MinMax ==
  ASSUME NEW a \in Nat, NEW b \in Nat
  PROVE  /\ Least(a, b) \in Nat /\ Least(a, b) <= a /\ Least(a, b) <= b
         /\ Least(a, b) = a \/ Least(a, b) = b
         /\ Greatest(a, b) \in Nat /\ a <= Greatest(a, b) /\ b <= Greatest(a, b)
         /\ Greatest(a, b) = a \/ Greatest(a, b) = b
BY DEF Least, Greatest

(* Conditioning keeps a supported request within the two limits.           *)
LEMMA ConditionedBounds ==
  ASSUME NEW request \in Requests, request <= CapacityLimit
  PROVE  /\ Conditioned(request) \in Nat
         /\ MinCapacity <= Conditioned(request)
         /\ Conditioned(request) <= CapacityLimit
<1> DEFINE base == IF IsPowerOfTwo(request) THEN request ELSE GrowthPolicy[request]
<1>1. request \in Nat /\ request \in 0 .. (2 * CapacityLimit)
  BY BoundAssumption, CapacityAssumption
<1>2. base \in Nat
  BY <1>1, GrowthAssumption
<1>3. Least(base, CapacityLimit) \in Nat /\ Least(base, CapacityLimit) <= CapacityLimit
  BY <1>2, MinMax, CapacityAssumption
<1>4. Conditioned(request) = Greatest(Least(base, CapacityLimit), MinCapacity)
  BY DEF Conditioned
<1> HIDE DEF base
<1> QED
  BY <1>3, <1>4, CapacityAssumption DEF Greatest

(* The growth policy accepts a post only with room for it, and never       *)
(* shrinks the capacity.                                                   *)
LEMMA PolicyBounds ==
  ASSUME TypeOK, capacity <= maxCapacity, maxCapacity <= CapacityLimit,
         NEW count \in Nat, NEW size \in Nat,
         count <= maxCapacity, size <= capacity, ~Refuses(count, size)
  PROVE  /\ PolicyCapacity(count, size) \in Nat
         /\ capacity <= PolicyCapacity(count, size)
         /\ PolicyCapacity(count, size) <= maxCapacity
         /\ (IF Discards(count, size) THEN 0 ELSE size) + count <= PolicyCapacity(count, size)
<1> USE DEF TypeOK
<1>1. size + count \in 0 .. (2 * CapacityLimit) /\ count \in 0 .. (2 * CapacityLimit)
  BY CapacityAssumption
<1>2. ASSUME NEW n \in 0 .. (2 * CapacityLimit)
      PROVE  /\ GrownCapacity(n) \in Nat
             /\ capacity <= GrownCapacity(n) /\ GrownCapacity(n) <= maxCapacity
             /\ n <= maxCapacity => n <= GrownCapacity(n)
  <2>1. GrowthPolicy[n] \in Nat /\ (GrowthPolicy[n] >= n \/ GrowthPolicy[n] >= CapacityLimit)
    BY GrowthAssumption
  <2> QED
    BY <2>1, CapacityAssumption DEF GrownCapacity, Least, Greatest
<1>3. CASE Keeps(count, size)
  BY <1>3 DEF Keeps, PolicyCapacity, Discards
<1>4. CASE Grows(count, size)
  BY <1>1, <1>2, <1>4 DEF Grows, PolicyCapacity, Discards
<1>5. CASE Discards(count, size)
  BY <1>1, <1>2, <1>5 DEF PolicyCapacity, Discards
<1> QED
  BY <1>3, <1>4, <1>5 DEF Refuses, Discards
-----------------------------------------------------------------------------
(* The inductive invariant.                                                *)

THEOREM InitInvariant == Init => IInv
<1> SUFFICES ASSUME Init PROVE IInv
  OBVIOUS
<1> USE DEF Init, EmptyState, Index, NullIndex, DefaultWord, NoBuffer, Size
<1>1. TypeOK
  BY DEF TypeOK, Buffer, Word, Phase
<1>2. EmptyInv /\ RolesInv /\ SizesInv /\ ConsumerInv /\ HandshakeInv
  BY DEF EmptyInv, RolesInv, SizesInv, ConsumerInv, HandshakeInv, Ready
<1>3. ContentsInv
  BY DEF ContentsInv
<1>4. OwedInv
  BY DEF OwedInv, Held, Backlog, Acceptable
<1> QED
  BY <1>1, <1>2, <1>3, <1>4 DEF IInv

(* Every word the code stores is an encoding of an id and a phase.         *)
LEMMA WordTypes ==
  /\ DefaultWord \in Word /\ Consumed \in Word
  /\ \A index \in Index, phase \in Phase : Staged(index, phase) \in Word
BY DEF Word, Phase, DefaultWord, Consumed, Staged, Index

LEMMA EmptyBufferType ==
  ASSUME NEW size \in Nat
  PROVE  [capacity |-> size, data |-> <<>>] \in Buffer
<1>1. <<>> \in Seq(Item)
  BY EmptySeq
<1> QED
  BY <1>1 DEF Buffer

LEMMA SetupInvariant ==
  ASSUME IInv, NEW request \in Requests, NEW maximum \in Nat, NEW discard \in BOOLEAN,
         request <= CapacityLimit, Conditioned(request) <= maximum, maximum <= CapacityLimit,
         Setup(request, maximum, discard)
  PROVE  IInv'
<1> USE DEF callVars, Setup, ResetRoles, Quiescent, Index, NullIndex, Size
<1>1. /\ Conditioned(request) \in Nat
      /\ MinCapacity <= Conditioned(request)
      /\ Conditioned(request) <= CapacityLimit
  BY ConditionedBounds
<1>2. maxCapacity' # 0
  BY <1>1, CapacityAssumption
<1>3. TypeOK'
  <2>1. buffers' \in [Index -> Buffer]
    BY <1>1, EmptyBufferType
  <2>2. word' \in Word
    BY WordTypes
  <2> QED
    BY <1>1, <2>1, <2>2 DEF IInv, TypeOK, Phase
<1>4. EmptyInv' /\ RolesInv' /\ ConsumerInv'
  BY <1>2 DEF IInv, EmptyInv, RolesInv, ConsumerInv, Ready
<1>5. SizesInv'
  BY <1>1, CapacityAssumption DEF SizesInv
<1>6. HandshakeInv'
  BY DEF HandshakeInv, Fresh
<1>7. ContentsInv'
  BY DEF ContentsInv
<1>8. OwedInv'
  BY DEF IInv, EmptyInv, OwedInv, Held, Backlog, Acceptable, Ready, DefaultWord
<1> QED
  BY <1>3, <1>4, <1>5, <1>6, <1>7, <1>8 DEF IInv

LEMMA OwnerInvariant == IInv /\ Owner => IInv'
<1> SUFFICES ASSUME IInv, Owner PROVE IInv'
  OBVIOUS
<1>1. ASSUME NEW request \in Requests, NEW discard \in BOOLEAN, InitialiseFixed(request, discard)
      PROVE  IInv'
  <2>1. /\ Conditioned(request) \in Nat /\ Conditioned(request) <= CapacityLimit
        /\ request <= CapacityLimit
    BY <1>1, ConditionedBounds DEF InitialiseFixed
  <2> QED
    BY <1>1, <2>1, SetupInvariant DEF InitialiseFixed
<1>2. ASSUME NEW request \in Requests, NEW maximum \in Requests \cup {0},
             InitialiseGrowable(request, maximum)
      PROVE  IInv'
  <2>1. request <= CapacityLimit /\ maximum <= CapacityLimit /\ maximum \in Nat
    BY <1>2, BoundAssumption DEF InitialiseGrowable
  <2>2. Conditioned(request) \in Nat /\ Conditioned(request) <= CapacityLimit
    BY <2>1, ConditionedBounds
  <2>3. /\ GrowableMaximum(request, maximum) \in Nat
        /\ Conditioned(request) <= GrowableMaximum(request, maximum)
        /\ GrowableMaximum(request, maximum) <= CapacityLimit
    BY <2>1, <2>2, CapacityAssumption DEF GrowableMaximum, Greatest
  <2> QED
    BY <1>2, <2>1, <2>3, SetupInvariant DEF InitialiseGrowable
<1>3. CASE Deallocate
  <2> USE <1>3 DEF callVars, Deallocate, ResetRoles, Quiescent, Index, NullIndex, NoBuffer, Size
  <2>1. TypeOK'
    <3>1. buffers' \in [Index -> Buffer]
      BY EmptyBufferType
    <3>2. word' \in Word
      BY WordTypes
    <3>3. allowDiscard' \in BOOLEAN /\ poisoned' \in BOOLEAN
      BY Zenon
    <3> QED
      BY <3>1, <3>2, <3>3 DEF IInv, TypeOK, Phase
  <2>2. EmptyInv' /\ RolesInv' /\ ConsumerInv' /\ SizesInv' /\ HandshakeInv'
    BY DEF EmptyInv, EmptyState, RolesInv, ConsumerInv, SizesInv, HandshakeInv, Ready
  <2>3. ContentsInv'
    BY DEF ContentsInv
  <2>4. OwedInv'
    BY DEF OwedInv, Held, Backlog, Acceptable, DefaultWord
  <2> QED
    BY <2>1, <2>2, <2>3, <2>4 DEF IInv
<1> QED
  BY <1>1, <1>2, <1>3 DEF Owner
-----------------------------------------------------------------------------
(* Facts the steps of the two endpoints share.                             *)

LEMMA BufferFacts ==
  ASSUME TypeOK, NEW i \in Index
  PROVE  /\ buffers[i] \in Buffer
         /\ buffers[i].capacity \in Nat
         /\ buffers[i].data \in Seq(Item)
         /\ Size(i) \in Nat
<1>1. buffers[i] \in Buffer
  BY DEF TypeOK
<1>2. buffers[i].capacity \in Nat /\ buffers[i].data \in Seq(Item)
  BY <1>1 DEF Buffer
<1> QED
  BY <1>1, <1>2, LenProperties DEF Size

LEMMA SizeFacts ==
  ASSUME TypeOK, SizesInv, Ready, NEW i \in Index
  PROVE  /\ capacity \in Nat /\ maxCapacity \in Nat
         /\ capacity <= maxCapacity /\ maxCapacity <= CapacityLimit
         /\ MinCapacity <= buffers[i].capacity /\ buffers[i].capacity <= capacity
         /\ Size(i) <= buffers[i].capacity /\ Size(i) <= capacity
<1>1. capacity \in Nat /\ maxCapacity \in Nat /\ buffers[i].capacity \in Nat /\ Size(i) \in Nat
  BY BufferFacts DEF TypeOK
<1>2. /\ capacity <= maxCapacity /\ maxCapacity <= CapacityLimit
      /\ MinCapacity <= buffers[i].capacity /\ buffers[i].capacity <= capacity
      /\ Size(i) <= buffers[i].capacity
  BY DEF SizesInv
<1> QED
  BY <1>1, <1>2

(* A changed queue keeps its sizes in bounds if each of its buffers does.  *)
LEMMA SizesPreserved ==
  ASSUME TypeOK, SizesInv, Ready, TypeOK',
         maxCapacity' = maxCapacity, capacity <= capacity', capacity' <= maxCapacity,
         \A i \in Index :
            \/ buffers'[i] = buffers[i]
            \/ buffers'[i].capacity = capacity' /\ Len(buffers'[i].data) <= capacity'
            \/ buffers'[i].capacity = buffers[i].capacity /\ Len(buffers'[i].data) <= buffers[i].capacity
  PROVE  SizesInv'
<1>1. capacity' \in Nat /\ maxCapacity \in Nat
  BY DEF TypeOK
<1>2. ASSUME NEW i \in Index
      PROVE  /\ MinCapacity <= buffers'[i].capacity /\ buffers'[i].capacity <= capacity'
             /\ Size(i)' <= buffers'[i].capacity
  <2>1. /\ capacity \in Nat /\ buffers[i].capacity \in Nat
        /\ MinCapacity <= buffers[i].capacity /\ buffers[i].capacity <= capacity
        /\ Len(buffers[i].data) <= buffers[i].capacity
    BY SizeFacts, BufferFacts DEF Size
  <2> QED
    BY <1>1, <2>1, CapacityAssumption DEF Size
<1>3. maxCapacity <= CapacityLimit
  BY DEF SizesInv
<1> QED
  BY <1>1, <1>2, <1>3 DEF SizesInv

(* What the consumer holds is the unread tail of the buffer it reads.      *)
LEMMA HeldFacts ==
  ASSUME TypeOK, ConsumerInv
  PROVE  /\ Held \in Seq(Item)
         /\ Len(Held) = CurrentReadableCount
         /\ CurrentReadableCount \in Nat
<1>1. CASE reading = NullIndex
  BY <1>1, EmptySeq DEF Held, CurrentReadableCount
<1>2. CASE reading # NullIndex
  <2>1. reading \in Index /\ readIndex \in Nat /\ readIndex <= Size(reading)
    BY <1>2 DEF TypeOK, ConsumerInv
  <2>2. buffers[reading].data \in Seq(Item) /\ Size(reading) \in Nat
    BY <2>1, BufferFacts
  <2>3. \A j \in readIndex + 1 .. Size(reading) : buffers[reading].data[j] \in Item
    BY <2>1, <2>2, ElementOfSeq DEF Size
  <2>4. /\ Held \in Seq(Item)
        /\ Len(Held) = Size(reading) - readIndex
    BY <1>2, <2>1, <2>2, <2>3, SubSeqProperties DEF Held
  <2> QED
    BY <1>2, <2>1, <2>2, <2>4 DEF CurrentReadableCount
<1> QED
  BY <1>1, <1>2

LEMMA BacklogFacts ==
  ASSUME TypeOK
  PROVE  Backlog \in Seq(Item) /\ Len(Backlog) \in Nat
<1>1. CASE Acceptable
  <2>1. word.id - 1 \in Index
    BY <1>1 DEF Acceptable, TypeOK, Word, Index
  <2> QED
    BY <1>1, <2>1, BufferFacts, LenProperties DEF Backlog
<1>2. CASE ~Acceptable
  BY <1>2, EmptySeq DEF Backlog
<1> QED
  BY <1>1, <1>2

(* The consumer's view depends only on its own variables, the word, and    *)
(* the buffers these name.                                                 *)
LEMMA HeldFrame ==
  ASSUME reading' = reading, readIndex' = readIndex,
         reading # NullIndex => buffers'[reading].data = buffers[reading].data
  PROVE  Held' = Held
BY DEF Held, Size

LEMMA BacklogFrame ==
  ASSUME word' = word, readingPhase' = readingPhase,
         Acceptable => buffers'[word.id - 1].data = buffers[word.id - 1].data
  PROVE  Backlog' = Backlog
BY DEF Backlog, Acceptable
-----------------------------------------------------------------------------
(* The steps of post().                                                    *)

LEMMA PrepareInvariant ==
  ASSUME IInv, NEW items \in Batches, PostPrepare(items)
  PROVE  IInv'
<1> DEFINE count == Len(items)
           target == PolicyCapacity(count, Size(output))
           discard == Discards(count, Size(output))
           filled == Appended(output, target, discard, items)
<1> USE DEF IInv
<1>1. /\ items \in Seq(Item) /\ count \in Nat
      /\ output \in Index /\ staged \in Index /\ locked \in Index
      /\ Size(output) \in Nat /\ buffers[output].data \in Seq(Item)
  BY BatchesAreSequences, LenProperties, BufferFacts DEF TypeOK
<1>2. /\ Ready /\ ~poisoned /\ producerAt = "idle" /\ count <= maxCapacity
      /\ ~Refuses(count, Size(output)) /\ capacity' = target
      /\ UNCHANGED <<configVars, postingPhase, roleVars, consumerVars, word, owed>>
  BY DEF PostPrepare
<1>3. /\ target \in Nat /\ capacity <= target /\ target <= maxCapacity
      /\ (IF discard THEN 0 ELSE Size(output)) + count <= target
  <2>1. capacity <= maxCapacity /\ maxCapacity <= CapacityLimit /\ Size(output) <= capacity
    BY <1>1, <1>2, SizeFacts
  <2> QED
    BY <1>1, <1>2, <2>1, PolicyBounds
<1>4. /\ filled \in Buffer /\ filled.capacity = target
      /\ filled.data = (IF discard THEN <<>> ELSE buffers[output].data) \o items
      /\ Len(filled.data) <= target
  <2>1. <<>> \o items = items
    BY <1>1, ConcatEmptySeq
  <2>2. /\ buffers[output].data \o items \in Seq(Item)
        /\ Len(buffers[output].data \o items) = Size(output) + count
    BY <1>1, ConcatProperties DEF Size
  <2> QED
    BY <1>1, <1>3, <2>1, <2>2 DEF Appended, Buffer
<1> HIDE DEF count, target, discard, filled
<1>5. (Unread(staged) \/ Read(staged) \/ Fresh) /\ buffers[output].data = buffers[staged].data
  BY <1>2 DEF HandshakeInv, ContentsInv, Healthy
<1>6. CASE /\ buffers' = [buffers EXCEPT ![output] = filled]
           /\ producerAt' = "publish" /\ src' = items /\ discarding' = discard
           /\ UNCHANGED poisoned
  <2>1. \A i \in Index : buffers'[i] = IF i = output THEN filled ELSE buffers[i]
    BY <1>1, <1>6 DEF TypeOK
  <2>2. TypeOK'
    <3>1. buffers' \in [Index -> Buffer]
      BY <1>4, <1>6 DEF TypeOK
    <3>2. discarding' \in BOOLEAN
      BY <1>6 DEF discard, Discards
    <3> QED
      BY <1>1, <1>2, <1>3, <1>6, <3>1, <3>2 DEF TypeOK, configVars, roleVars, consumerVars
  <2>3. EmptyInv' /\ RolesInv'
    BY <1>2 DEF EmptyInv, RolesInv, Ready, configVars, roleVars
  <2>4. SizesInv'
    BY <1>2, <1>3, <1>4, <2>1, <2>2, SizesPreserved DEF configVars
  <2>5. reading # output /\ (Acceptable => word.id - 1 = staged)
    BY <1>5 DEF Unread, Read, Fresh, Staged, Consumed, DefaultWord, Acceptable, RolesInv, NullIndex, Index, TypeOK
  <2>6. ConsumerInv'
    BY <1>2, <2>1, <2>5 DEF ConsumerInv, Size, TypeOK, consumerVars
  <2>7. HandshakeInv'
    BY <1>1, <1>2, <1>5, <1>6, <2>1 DEF HandshakeInv, Unread, Read, Fresh, RolesInv, Ready, configVars, roleVars, consumerVars
  <2>8. ContentsInv'
    <3>1. discarding' => allowDiscard'
      BY <1>2, <1>6 DEF discard, Discards, configVars
    <3> QED
      BY <1>1, <1>2, <1>4, <1>5, <1>6, <2>1, <3>1 DEF ContentsInv, Healthy, RolesInv, roleVars
  <2>9. Held' = Held /\ Backlog' = Backlog
    <3>1. reading # NullIndex => buffers'[reading].data = buffers[reading].data
      BY <2>1, <2>5 DEF TypeOK
    <3>2. Acceptable => buffers'[word.id - 1].data = buffers[word.id - 1].data
      BY <1>1, <2>1, <2>5 DEF RolesInv
    <3> QED
      BY <1>2, <3>1, <3>2, HeldFrame, BacklogFrame DEF consumerVars
  <2>10. OwedInv'
    BY <1>2, <1>6, <2>9 DEF OwedInv, Healthy
  <2> QED
    BY <2>2, <2>3, <2>4, <2>6, <2>7, <2>8, <2>10
<1>7. CASE ReallocationFails(output, target) /\ UNCHANGED buffers
  <2>1. poisoned' = TRUE /\ producerAt' = "idle" /\ src' = <<>> /\ discarding' = FALSE
    BY <1>7 DEF ReallocationFails
  <2>2. TypeOK'
    <3>1. poisoned' \in BOOLEAN /\ discarding' \in BOOLEAN
      BY <2>1, Zenon
    <3>2. <<>> \in Seq(Item)
      BY EmptySeq
    <3> QED
      BY <1>2, <1>3, <1>7, <2>1, <3>1, <3>2 DEF TypeOK, configVars, roleVars, consumerVars
  <2>3. EmptyInv' /\ RolesInv'
    BY <1>2 DEF EmptyInv, RolesInv, Ready, configVars, roleVars
  <2>4. SizesInv'
    BY <1>2, <1>3, <1>7, <2>2, SizesPreserved DEF configVars
  <2>5. ConsumerInv'
    BY <1>2, <1>7 DEF ConsumerInv, Size, consumerVars
  <2>6. HandshakeInv' /\ ContentsInv'
    BY <2>1 DEF HandshakeInv, ContentsInv, Healthy
  <2>7. Held' = Held /\ Backlog' = Backlog
    BY <1>2, <1>7, HeldFrame, BacklogFrame DEF consumerVars
  <2>8. OwedInv'
    BY <1>2, <2>1, <2>7 DEF OwedInv, Healthy
  <2> QED
    BY <2>2, <2>3, <2>4, <2>5, <2>6, <2>8
<1> QED
  BY <1>6, <1>7 DEF PostPrepare, count, target, discard, filled

LEMMA ExchangeInvariant ==
  ASSUME IInv, PostExchange
  PROVE  IInv'
<1> USE DEF IInv
<1>1. /\ producerAt = "publish" /\ word' = Staged(output, postingPhase)
      /\ UNCHANGED <<configVars, capacity, poisoned, buffers, roleVars, src, discarding, consumerVars>>
  BY DEF PostExchange
<1>2. Ready /\ ~poisoned /\ buffers[output].capacity = capacity
  BY <1>1 DEF EmptyInv, ContentsInv, Healthy
<1>3. /\ Unread(staged) \/ Read(staged) \/ Fresh
      /\ buffers[output].data = (IF discarding THEN <<>> ELSE buffers[staged].data) \o src
      /\ owed = Len(Held) + Len(Backlog)
  BY <1>1, <1>2 DEF HandshakeInv, ContentsInv, OwedInv
<1>4. /\ output \in Index /\ staged \in Index /\ src \in Seq(Item) /\ Len(src) \in Nat
      /\ buffers[output].data \in Seq(Item) /\ buffers[staged].data \in Seq(Item)
      /\ readingPhase \in Phase /\ postingPhase \in Phase
      /\ Len(Held) \in Nat /\ Len(Backlog) \in Nat
  BY BufferFacts, HeldFacts, BacklogFacts, LenProperties DEF TypeOK
<1>5. word' \in Word /\ word'.id # 0
  BY <1>1, <1>4, WordTypes DEF Staged, Index
<1>6. EmptyInv' /\ RolesInv' /\ SizesInv' /\ ConsumerInv'
  BY <1>1, <1>2, <1>5 DEF EmptyInv, RolesInv, SizesInv, ConsumerInv, Size, Ready, configVars, roleVars, consumerVars
<1>7. Held' = Held
  BY <1>1, HeldFrame DEF consumerVars
<1>8. CASE word = Consumed
  <2>1. producerAt' = "rebase" /\ postingPhase' = Flipped(postingPhase) /\ owed' = owed
    BY <1>8 DEF PostExchange
  <2>2. Read(staged)
    BY <1>3, <1>8, <1>4 DEF Unread, Fresh, Staged, Consumed, DefaultWord, Index
  <2>3. Flipped(Flipped(postingPhase)) = postingPhase /\ Flipped(postingPhase) \in Phase
        /\ Flipped(postingPhase) # postingPhase
    BY <1>4 DEF Flipped, Phase
  <2>4. TypeOK'
    BY <1>1, <1>5, <2>1, <2>3 DEF TypeOK, configVars, roleVars, consumerVars
  <2>5. HandshakeInv'
    BY <1>1, <1>2, <2>1, <2>2, <2>3 DEF HandshakeInv, Read, Obsolete, roleVars, consumerVars
  <2>6. ContentsInv'
    <3>1. Len(src) <= Size(output)
      BY <1>3, <1>4, ConcatProperties, ConcatEmptySeq DEF Size
    <3> QED
      BY <1>1, <1>2, <2>1, <3>1 DEF ContentsInv, Size, Healthy, configVars, roleVars
  <2>7. OwedInv'
    <3>1. Backlog = <<>> /\ Backlog' = <<>>
      BY <1>1, <1>8, <2>2, <2>3 DEF Backlog, Acceptable, Consumed, Staged, Read, consumerVars
    <3> QED
      BY <1>3, <1>4, <1>7, <2>1, <3>1 DEF OwedInv
  <2> QED
    BY <1>6, <2>4, <2>5, <2>6, <2>7
<1>9. CASE word # Consumed
  <2>1. /\ producerAt' = "extend" /\ postingPhase' = postingPhase
        /\ owed' = IF discarding THEN Len(Held) ELSE owed
    BY <1>9 DEF PostExchange
  <2>2. Unread(staged) \/ Fresh
    BY <1>3, <1>9 DEF Read
  <2>3. TypeOK'
    BY <1>1, <1>4, <1>5, <2>1 DEF TypeOK, configVars, roleVars, consumerVars
  <2>4. HandshakeInv'
    <3>1. Unread(output)'
      BY <1>1, <2>1, <2>2 DEF Unread, Fresh, roleVars, consumerVars
    <3> QED
      BY <2>1, <3>1 DEF HandshakeInv
  <2>5. ContentsInv'
    BY <1>1, <1>2, <1>3, <2>1 DEF ContentsInv, Healthy, configVars, roleVars
  <2>6. Backlog' = buffers[output].data
    BY <1>1, <1>4, <2>2 DEF Backlog, Acceptable, Staged, Unread, Fresh, Index, consumerVars
  <2>7. Backlog = buffers[staged].data
    BY <1>4, <2>2 DEF Backlog, Acceptable, Staged, Unread, Fresh, DefaultWord, Index
  <2>8. OwedInv'
    <3>1. CASE discarding
      <4>1. Backlog' = src
        BY <1>3, <1>4, <2>6, <3>1, ConcatEmptySeq
      <4> QED
        BY <1>4, <1>7, <2>1, <3>1, <4>1, <1>1 DEF OwedInv
    <3>2. CASE ~discarding
      <4>1. Len(Backlog') = Len(Backlog) + Len(src)
        BY <1>3, <1>4, <2>6, <2>7, <3>2, ConcatProperties
      <4> QED
        BY <1>1, <1>3, <1>4, <1>7, <2>1, <3>2, <4>1 DEF OwedInv
    <3> QED
      BY <3>1, <3>2
  <2> QED
    BY <1>6, <2>3, <2>4, <2>5, <2>8
<1> QED
  BY <1>8, <1>9

(* A call that ends in a failed reallocation changes nothing the consumer  *)
(* can see and leaves every accepted item on its way.                      *)
LEMMA FailureInvariant ==
  ASSUME IInv, NEW index \in Index, producerAt # "idle", ReallocationFails(index, capacity),
         UNCHANGED <<configVars, capacity, buffers, postingPhase, roleVars, consumerVars, word, owed>>
  PROVE  IInv'
<1> USE DEF IInv
<1>1. poisoned' = TRUE /\ producerAt' = "idle" /\ src' = <<>> /\ discarding' = FALSE
  BY DEF ReallocationFails
<1>2. TypeOK'
  <2>1. poisoned' \in BOOLEAN /\ discarding' \in BOOLEAN
    BY <1>1, Zenon
  <2>2. <<>> \in Seq(Item)
    BY EmptySeq
  <2> QED
    BY <1>1, <2>1, <2>2 DEF TypeOK, configVars, roleVars, consumerVars
<1>3. EmptyInv' /\ RolesInv' /\ SizesInv' /\ ConsumerInv'
  BY DEF EmptyInv, RolesInv, SizesInv, ConsumerInv, Size, Ready, configVars, roleVars, consumerVars
<1>4. HandshakeInv' /\ ContentsInv'
  BY <1>1 DEF HandshakeInv, ContentsInv, Healthy
<1>5. OwedInv'
  <2>1. Held' = Held /\ Backlog' = Backlog
    BY HeldFrame, BacklogFrame DEF consumerVars
  <2> QED
    BY <1>1, <2>1 DEF OwedInv, Healthy
<1> QED
  BY <1>2, <1>3, <1>4, <1>5

LEMMA RebaseInvariant ==
  ASSUME IInv, PostRebase
  PROVE  IInv'
<1> USE DEF IInv
<1>1. /\ producerAt = "rebase"
      /\ UNCHANGED <<configVars, capacity, postingPhase, roleVars, consumerVars, word, owed>>
  BY DEF PostRebase
<1>2. /\ Ready /\ ~poisoned /\ Obsolete /\ Len(src) <= Size(output)
      /\ buffers[output].capacity = capacity /\ owed = Len(Held)
  BY <1>1 DEF EmptyInv, HandshakeInv, ContentsInv, OwedInv, Healthy
<1>3. /\ output \in Index /\ locked \in Index /\ staged \in Index
      /\ src \in Seq(Item) /\ Len(src) \in Nat /\ Size(output) \in Nat
      /\ capacity \in Nat /\ Size(output) <= capacity /\ capacity <= maxCapacity
      /\ Len(Held) \in Nat
  BY <1>2, BufferFacts, SizeFacts, HeldFacts, LenProperties DEF TypeOK
<1>4. CASE /\ buffers' = [buffers EXCEPT ![output].data = src,
                                       ![locked] = [capacity |-> capacity, data |-> src]]
           /\ producerAt' = "republish" /\ UNCHANGED <<poisoned, src, discarding>>
  <2>1. /\ buffers' \in [Index -> Buffer]
        /\ buffers'[output].data = src /\ buffers'[output].capacity = capacity
        /\ buffers'[locked].data = src /\ buffers'[locked].capacity = capacity
        /\ buffers'[staged] = buffers[staged]
    BY <1>2, <1>3, <1>4 DEF TypeOK, Buffer, RolesInv
  <2>2. TypeOK'
    BY <1>1, <1>4, <2>1 DEF TypeOK, configVars, roleVars, consumerVars
  <2>3. EmptyInv' /\ RolesInv'
    BY <1>1, <1>2 DEF EmptyInv, RolesInv, Ready, configVars, roleVars
  <2>4. SizesInv'
    <3>1. \A i \in Index : i = output \/ i = staged \/ i = locked
      BY <1>3 DEF RolesInv, Index
    <3> QED
      BY <1>1, <1>2, <1>3, <2>1, <2>2, <3>1, SizesPreserved DEF configVars
  <2>5. reading \in {NullIndex, staged}
    BY <1>2 DEF Obsolete
  <2>6. ConsumerInv'
    BY <1>1, <2>1, <2>5 DEF ConsumerInv, Size, consumerVars
  <2>7. HandshakeInv'
    BY <1>1, <1>2, <1>4 DEF HandshakeInv, Obsolete, roleVars, consumerVars
  <2>8. ContentsInv'
    BY <1>1, <1>2, <1>4, <2>1 DEF ContentsInv, Healthy, configVars, roleVars
  <2>9. OwedInv'
    <3>1. Held' = Held
      BY <1>1, <2>1, <2>5, HeldFrame DEF consumerVars
    <3>2. ~Acceptable
      BY <1>2, <1>3 DEF Acceptable, Obsolete, Consumed, Staged, Flipped, Phase, TypeOK
    <3>3. Backlog' = <<>>
      BY <1>1, <3>2 DEF Backlog, Acceptable, consumerVars
    <3> QED
      BY <1>1, <1>2, <1>3, <1>4, <3>1, <3>3 DEF OwedInv
  <2> QED
    BY <2>2, <2>3, <2>4, <2>6, <2>7, <2>8, <2>9
<1>5. CASE ReallocationFails(locked, capacity) /\ UNCHANGED buffers
  BY <1>1, <1>3, <1>5, FailureInvariant
<1> QED
  BY <1>4, <1>5 DEF PostRebase

LEMMA RepublishInvariant ==
  ASSUME IInv, PostRepublish
  PROVE  IInv'
<1> USE DEF IInv
<1>1. /\ producerAt = "republish" /\ word' = Staged(locked, postingPhase)
      /\ locked' = staged /\ staged' = locked /\ owed' = owed + Len(src)
      /\ producerAt' = "idle" /\ src' = <<>> /\ discarding' = FALSE
      /\ UNCHANGED <<configVars, capacity, poisoned, buffers, postingPhase, output, consumerVars>>
  BY DEF PostRepublish
<1>2. /\ Ready /\ ~poisoned /\ Obsolete /\ owed = Len(Held)
      /\ buffers[output].data = src /\ buffers[locked].data = src
  BY <1>1 DEF EmptyInv, HandshakeInv, ContentsInv, OwedInv, Healthy
<1>3. /\ locked \in Index /\ staged \in Index /\ postingPhase \in Phase
      /\ src \in Seq(Item) /\ Len(src) \in Nat /\ Len(Held) \in Nat
  BY HeldFacts, LenProperties DEF TypeOK
<1>4. TypeOK'
  <2>1. discarding' \in BOOLEAN
    BY <1>1, Zenon
  <2>2. <<>> \in Seq(Item) /\ word' \in Word
    BY <1>1, <1>3, EmptySeq, WordTypes
  <2> QED
    BY <1>1, <1>3, <2>1, <2>2 DEF TypeOK, configVars, consumerVars
<1>5. EmptyInv' /\ RolesInv' /\ SizesInv' /\ ConsumerInv'
  <2>1. word'.id # 0
    BY <1>1, <1>3 DEF Staged, Index
  <2> QED
    BY <1>1, <1>2, <2>1 DEF EmptyInv, RolesInv, SizesInv, ConsumerInv, Size, Ready, configVars, consumerVars
<1>6. HandshakeInv'
  <2>1. Unread(staged)'
    BY <1>1, <1>2 DEF Unread, Obsolete, consumerVars
  <2> QED
    BY <1>1, <2>1 DEF HandshakeInv
<1>7. ContentsInv'
  BY <1>1, <1>2 DEF ContentsInv
<1>8. OwedInv'
  <2>1. Held' = Held
    BY <1>1, HeldFrame DEF consumerVars
  <2>2. Backlog' = src
    BY <1>1, <1>2, <1>3 DEF Backlog, Acceptable, Obsolete, Staged, Index, consumerVars
  <2> QED
    BY <1>1, <1>2, <1>3, <2>1, <2>2 DEF OwedInv
<1> QED
  BY <1>4, <1>5, <1>6, <1>7, <1>8

LEMMA ExtendInvariant ==
  ASSUME IInv, PostExtend
  PROVE  IInv'
<1> DEFINE filled == Appended(staged, capacity, discarding, src)
<1> USE DEF IInv
<1>1. /\ producerAt = "extend"
      /\ UNCHANGED <<configVars, capacity, postingPhase, locked, consumerVars, word>>
  BY DEF PostExtend
<1>2. /\ Ready /\ ~poisoned
      /\ Unread(output) \/ Read(output)
      /\ buffers[output].data = (IF discarding THEN <<>> ELSE buffers[staged].data) \o src
      /\ buffers[output].capacity = capacity
      /\ owed + Len(src) = Len(Held) + Len(Backlog)
  BY <1>1 DEF EmptyInv, HandshakeInv, ContentsInv, OwedInv, Healthy
<1>3. /\ output \in Index /\ staged \in Index /\ locked \in Index
      /\ src \in Seq(Item) /\ Len(src) \in Nat
      /\ buffers[output].data \in Seq(Item) /\ Size(output) \in Nat
      /\ capacity \in Nat /\ Size(output) <= capacity /\ capacity <= maxCapacity
      /\ Len(Held) \in Nat /\ Len(Backlog) \in Nat
  <2>1. /\ output \in Index /\ staged \in Index /\ locked \in Index /\ src \in Seq(Item)
    BY DEF TypeOK
  <2>2. buffers[output].data \in Seq(Item) /\ Size(output) \in Nat
    BY <2>1, BufferFacts
  <2>3. capacity \in Nat /\ Size(output) <= capacity /\ capacity <= maxCapacity
    BY <1>2, <2>1, SizeFacts
  <2>4. Len(Held) \in Nat /\ Len(Backlog) \in Nat
    BY HeldFacts, BacklogFacts
  <2> QED
    BY <2>1, <2>2, <2>3, <2>4, LenProperties
<1>4. filled = [capacity |-> capacity, data |-> buffers[output].data]
  BY <1>2 DEF Appended
<1>5. reading # staged /\ (Acceptable => word.id - 1 = output)
  BY <1>2, <1>3 DEF Unread, Read, Staged, Consumed, Acceptable, RolesInv, NullIndex, Index
<1> HIDE DEF filled
<1>6. CASE /\ buffers' = [buffers EXCEPT ![staged] = filled]
           /\ output' = staged /\ staged' = output /\ owed' = owed + Len(src)
           /\ producerAt' = "idle" /\ src' = <<>> /\ discarding' = FALSE /\ UNCHANGED poisoned
  <2>1. \A i \in Index : buffers'[i] = IF i = staged THEN filled ELSE buffers[i]
    BY <1>3, <1>6 DEF TypeOK
  <2>2. /\ filled \in Buffer /\ filled.capacity = capacity /\ filled.data = buffers[output].data
        /\ Len(filled.data) <= capacity
    BY <1>3, <1>4 DEF Buffer, Size
  <2>3. TypeOK'
    <3>1. discarding' \in BOOLEAN
      BY <1>6, Zenon
    <3>2. <<>> \in Seq(Item)
      BY EmptySeq
    <3>3. buffers' \in [Index -> Buffer]
      BY <1>6, <2>2 DEF TypeOK
    <3> QED
      BY <1>1, <1>3, <1>6, <3>1, <3>2, <3>3 DEF TypeOK, configVars, consumerVars
  <2>4. EmptyInv' /\ RolesInv'
    BY <1>1, <1>2, <1>6 DEF EmptyInv, RolesInv, Ready, configVars
  <2>5. SizesInv'
    BY <1>1, <1>2, <1>3, <2>1, <2>2, <2>3, SizesPreserved DEF configVars
  <2>6. ConsumerInv'
    BY <1>1, <1>5, <2>1 DEF ConsumerInv, Size, TypeOK, consumerVars
  <2>7. HandshakeInv'
    <3>1. Unread(staged)' \/ Read(staged)'
      BY <1>1, <1>2, <1>6 DEF Unread, Read, consumerVars
    <3> QED
      BY <1>6, <3>1 DEF HandshakeInv
  <2>8. ContentsInv'
    BY <1>3, <1>6, <2>1, <2>2 DEF ContentsInv, RolesInv
  <2>9. Held' = Held /\ Backlog' = Backlog
    <3>1. reading # NullIndex => buffers'[reading].data = buffers[reading].data
      BY <1>5, <2>1 DEF TypeOK
    <3>2. Acceptable => buffers'[word.id - 1].data = buffers[word.id - 1].data
      BY <1>3, <1>5, <2>1 DEF RolesInv
    <3> QED
      BY <1>1, <3>1, <3>2, HeldFrame, BacklogFrame DEF consumerVars
  <2>10. OwedInv'
    BY <1>2, <1>3, <1>6, <2>9 DEF OwedInv, TypeOK
  <2> QED
    BY <2>3, <2>4, <2>5, <2>6, <2>7, <2>8, <2>10
<1>7. CASE ReallocationFails(staged, capacity) /\ UNCHANGED <<buffers, output, staged, owed>>
  BY <1>1, <1>3, <1>7, FailureInvariant DEF roleVars
<1> QED
  BY <1>6, <1>7 DEF PostExtend, filled
-----------------------------------------------------------------------------
(* The steps of read().                                                    *)

(* A copy moves the front of what is held to the destination.              *)
LEMMA CopyFacts ==
  ASSUME IInv, reading # NullIndex, NEW count \in Nat, CopyOut(count),
         UNCHANGED buffers
  PROVE  /\ dst' \in Seq(Item) /\ Len(dst') = count
         /\ Held = dst' \o Held'
         /\ Len(Held) = count + Len(Held') /\ Len(Held') \in Nat
         /\ readIndex' \in Nat /\ reading' \in {NullIndex, reading}
         /\ reading' = NullIndex => readIndex' = 0
         /\ reading' # NullIndex => readIndex' <= Size(reading)
<1> DEFINE data == buffers[reading].data
           next == readIndex + count
           rest == SubSeq(data, next + 1, Len(data))
<1>1. /\ reading \in Index /\ readIndex \in Nat /\ readIndex <= Len(data)
      /\ data \in Seq(Item) /\ Len(data) \in Nat
  BY BufferFacts DEF IInv, TypeOK, ConsumerInv, Size
<1>2. /\ next \in Nat /\ next <= Len(data)
      /\ dst' = SubSeq(data, readIndex + 1, next)
  BY <1>1 DEF CopyOut, CurrentReadableCount, Size
<1>4. dst' \in Seq(Item) /\ Len(dst') = count
  <2> HIDE DEF data, next
  <2>1. readIndex <= next /\ next - readIndex = count
    BY <1>1 DEF next
  <2>2. SubSeq(data, readIndex + 1, next) \in Seq(Item)
        /\ Len(SubSeq(data, readIndex + 1, next)) = next - readIndex
    BY <1>1, <1>2, <2>1, PartFacts
  <2> QED
    BY <1>2, <2>1, <2>2
<1>5. rest \in Seq(Item) /\ Len(rest) = Len(data) - next
  <2> HIDE DEF data, next
  <2> QED
    BY <1>1, <1>2, PartFacts
<1>6. Held = dst' \o rest
  <2>1. /\ readIndex + 1 \in 1 .. Len(data) + 1 /\ next \in (readIndex + 1) - 1 .. Len(data)
        /\ Len(data) \in next .. Len(data)
    BY <1>1, <1>2
  <2>2. dst' \o rest = SubSeq(data, readIndex + 1, Len(data))
    BY <1>1, <1>2, <2>1, ConcatAdjacentSubSeq
  <2> QED
    BY <2>2 DEF Held, Size
<1>7. Held' = rest
  <2>1. CASE next = Len(data)
    <3>1. reading' = NullIndex
      BY <2>1 DEF CopyOut, Size
    <3>2. rest = <<>>
      BY <1>1, <2>1, SubSeqEmpty
    <3> QED
      BY <3>1, <3>2 DEF Held
  <2>2. CASE next # Len(data)
    BY <2>2 DEF CopyOut, Held, Size
  <2> QED
    BY <2>1, <2>2
<1>8. /\ readIndex' \in Nat /\ reading' \in {NullIndex, reading}
      /\ reading' = NullIndex => readIndex' = 0
      /\ reading' # NullIndex => readIndex' <= Size(reading)
  BY <1>1, <1>2 DEF CopyOut, Size
<1>9. Len(dst' \o rest) = count + Len(rest) /\ Len(rest) \in Nat
  <2> HIDE DEF data, next, rest
  <2>1. Len(dst' \o rest) = Len(dst') + Len(rest)
    BY <1>4, <1>5, ConcatProperties
  <2>2. Len(rest) \in Nat
    BY <1>5, LenProperties
  <2> QED
    BY <1>4, <2>1, <2>2
<1> HIDE DEF data, next, rest
<1> QED
  BY <1>4, <1>6, <1>7, <1>8, <1>9

(* A copy by the consumer preserves the invariant.                         *)
LEMMA CopyInvariant ==
  ASSUME IInv, Ready, reading # NullIndex, NEW count \in Nat, CopyOut(count),
         UNCHANGED <<producerVars, readingPhase, word>>,
         want' \in Nat, consumerAt' = "idle"
  PROVE  IInv'
<1> USE DEF IInv, producerVars, configVars, roleVars, callVars
<1>1. /\ dst' \in Seq(Item) /\ Len(Held) = count + Len(Held') /\ Len(Held') \in Nat
      /\ readIndex' \in Nat /\ reading' \in {NullIndex, reading}
      /\ reading' = NullIndex => readIndex' = 0
      /\ reading' # NullIndex => readIndex' <= Size(reading)
  BY CopyFacts
<1>2. owed' = owed - count
  BY DEF CopyOut
<1>3. Held \in Seq(Item) /\ Len(Held) \in Nat /\ Len(Backlog) \in Nat /\ Backlog' = Backlog
  BY HeldFacts, BacklogFacts, BacklogFrame
<1>4. TypeOK'
  BY <1>1, <1>2 DEF TypeOK
<1>5. EmptyInv' /\ RolesInv' /\ SizesInv'
  BY DEF EmptyInv, RolesInv, SizesInv, Ready, Size
<1>6. ConsumerInv'
  BY <1>1 DEF ConsumerInv, Size
<1>7. HandshakeInv'
  BY <1>1 DEF HandshakeInv, Unread, Read, Fresh, Obsolete, Healthy, Ready
<1>8. ContentsInv'
  BY DEF ContentsInv, Healthy, Size
<1>9. OwedInv'
  BY <1>1, <1>2, <1>3 DEF OwedInv, TypeOK, Healthy
<1> QED
  BY <1>4, <1>5, <1>6, <1>7, <1>8, <1>9

LEMMA ReadHeldInvariant ==
  ASSUME IInv, NEW count \in Counts, ReadHeld(count)
  PROVE  IInv'
<1>1. count \in Nat /\ consumerAt = "idle" /\ want \in Nat
  BY BoundAssumption DEF ReadHeld, IInv, TypeOK
<1> QED
  BY <1>1, CopyInvariant DEF ReadHeld

LEMMA CheckInvariant ==
  ASSUME IInv, NEW count \in Counts \cup {0}, RefreshCheck(count)
  PROVE  IInv'
<1> USE DEF IInv, RefreshCheck, producerVars, configVars, roleVars, callVars
<1>1. TypeOK'
  BY BoundAssumption DEF TypeOK
<1>2. EmptyInv' /\ RolesInv' /\ SizesInv' /\ ConsumerInv'
  BY DEF EmptyInv, RolesInv, SizesInv, ConsumerInv, Ready, Size
<1>3. HandshakeInv' /\ ContentsInv'
  BY DEF HandshakeInv, ContentsInv, Unread, Read, Fresh, Obsolete, Healthy, Ready, Size
<1>4. OwedInv'
  BY HeldFrame, BacklogFrame DEF OwedInv, Healthy
<1> QED
  BY <1>1, <1>2, <1>3, <1>4

LEMMA RefreshInvariant ==
  ASSUME IInv, RefreshExchange
  PROVE  IInv'
<1> USE DEF IInv, producerVars, configVars, roleVars, callVars
<1>1. /\ consumerAt = "exchange" /\ word' = Consumed
      /\ UNCHANGED <<producerVars, readIndex, dst, owed>>
  BY DEF RefreshExchange
<1>2. /\ Ready /\ reading = NullIndex /\ readIndex = 0 /\ Held = <<>>
      /\ word.id # 0 /\ word \in Word /\ word.id \in 0 .. 3 /\ word.phase \in Phase
      /\ readingPhase \in Phase /\ postingPhase \in Phase
      /\ output \in Index /\ staged \in Index
  BY <1>1 DEF EmptyInv, ConsumerInv, Held, TypeOK, Word
<1>3. EmptyInv' /\ RolesInv' /\ SizesInv' /\ ContentsInv'
  BY <1>1, <1>2 DEF EmptyInv, RolesInv, SizesInv, ContentsInv, Ready, Size, Healthy
<1>4. Backlog' = <<>>
  BY <1>1 DEF Backlog, Acceptable, Consumed
<1>5. CASE Acceptable
  <2>1. /\ readingPhase' = Flipped(word.phase) /\ reading' = word.id - 1
        /\ consumerAt' = "copy" /\ want' = want
    BY <1>5 DEF RefreshExchange
  <2>2. word.id - 1 \in Index /\ word.id # 0 /\ word.phase = readingPhase
    BY <1>2, <1>5 DEF Acceptable, Index
  <2>3. buffers[word.id - 1].data \in Seq(Item) /\ Size(word.id - 1) \in Nat
    BY <2>2, BufferFacts
  <2>4. TypeOK'
    BY <1>1, <1>2, <2>1, <2>2, WordTypes DEF TypeOK, Flipped, Phase
  <2>5. ConsumerInv'
    BY <1>1, <1>2, <2>1, <2>2, <2>3 DEF ConsumerInv, Size, Index, NullIndex
  <2>6. HandshakeInv'
    <3>1. ASSUME NEW index \in Index, Unread(index) PROVE Read(index)'
      <4>1. /\ word.id = index + 1 /\ word.phase = postingPhase /\ readingPhase = postingPhase
        BY <3>1 DEF Unread, Staged
      <4>2. reading' = index /\ readingPhase' = Flipped(postingPhase')
        BY <1>1, <2>1, <4>1 DEF Index
      <4> QED
        BY <1>1, <4>2 DEF Read
    <3>2. ~Fresh
      BY <2>2 DEF Fresh, DefaultWord
    <3>3. ~Obsolete
      BY <1>2, <2>2 DEF Obsolete, Consumed, Staged, Flipped, Phase
    <3>4. ASSUME NEW index \in Index PROVE ~Read(index)
      BY <2>2 DEF Read, Consumed
    <3> QED
      BY <1>1, <1>2, <3>1, <3>2, <3>3, <3>4 DEF HandshakeInv, Healthy
  <2>7. Held' = Backlog
    <3>1. Held' = SubSeq(buffers[word.id - 1].data, 1, Size(word.id - 1))
      BY <1>1, <1>2, <2>1, <2>2 DEF Held, Size, Index, NullIndex
    <3>2. SubSeq(buffers[word.id - 1].data, 1, Len(buffers[word.id - 1].data)) = buffers[word.id - 1].data
      BY <2>3, SubSeqFull
    <3> QED
      BY <1>5, <3>1, <3>2 DEF Backlog, Size
  <2>8. OwedInv'
    <3>1. /\ Len(Held) = 0 /\ Len(Backlog') = 0 /\ Len(Held') = Len(Backlog)
          /\ Len(Backlog) \in Nat
      BY <1>2, <1>4, <2>7, BacklogFacts, EmptySeq
    <3>2. producerAt \notin {"rebase", "republish"}
      BY <1>2, <2>2 DEF HandshakeInv, Obsolete, Consumed, Staged, Flipped, Phase
    <3> QED
      BY <1>1, <3>1, <3>2 DEF OwedInv, Healthy, TypeOK
  <2> QED
    BY <1>3, <2>4, <2>5, <2>6, <2>8
<1>6. CASE ~Acceptable
  <2>1. consumerAt' = "idle" /\ want' = 0 /\ UNCHANGED <<readingPhase, reading>>
    BY <1>6 DEF RefreshExchange
  <2>2. TypeOK' /\ ConsumerInv'
    BY <1>1, <1>2, <2>1, WordTypes DEF TypeOK, ConsumerInv, Size
  <2>3. HandshakeInv'
    <3>1. ASSUME NEW index \in Index PROVE ~Unread(index)
      BY <1>6 DEF Unread, Staged, Acceptable, Index
    <3>2. Obsolete => Obsolete'
      BY <1>1, <2>1 DEF Obsolete
    <3>3. ASSUME NEW index \in Index, Read(index) PROVE Read(index)'
      BY <1>1, <2>1, <3>3 DEF Read
    <3>4. Fresh => word.id = 0
      BY DEF Fresh, DefaultWord
    <3> QED
      BY <1>1, <1>2, <2>1, <3>1, <3>2, <3>3, <3>4 DEF HandshakeInv, Healthy
  <2>4. OwedInv'
    <3>1. Held' = Held /\ Backlog = <<>>
      BY <1>1, <1>6, <2>1, HeldFrame DEF Backlog
    <3> QED
      BY <1>1, <1>4, <3>1 DEF OwedInv, Healthy
  <2> QED
    BY <1>3, <2>2, <2>3, <2>4
<1> QED
  BY <1>5, <1>6

LEMMA ReadAcceptedInvariant ==
  ASSUME IInv, ReadAccepted
  PROVE  IInv'
<1> USE DEF IInv
<1>1. /\ consumerAt = "copy" /\ consumerAt' = "idle" /\ want' = 0
      /\ UNCHANGED <<producerVars, readingPhase, word>>
  BY DEF ReadAccepted
<1>2. Ready /\ reading # NullIndex /\ want \in Nat
  BY <1>1 DEF EmptyInv, ConsumerInv, TypeOK
<1>3. CASE want # 0 /\ want <= CurrentReadableCount
  <2>1. CopyOut(want)
    BY <1>3 DEF ReadAccepted
  <2> QED
    BY <1>1, <1>2, <2>1, CopyInvariant
<1>4. CASE ~(want # 0 /\ want <= CurrentReadableCount)
  <2> USE DEF producerVars, configVars, roleVars, callVars
  <2>1. UNCHANGED <<reading, readIndex, dst, owed>>
    BY <1>4 DEF ReadAccepted
  <2>2. TypeOK' /\ EmptyInv' /\ RolesInv' /\ SizesInv'
    BY <1>1, <1>2, <2>1 DEF TypeOK, EmptyInv, RolesInv, SizesInv, Ready, Size
  <2>3. ConsumerInv' /\ HandshakeInv' /\ ContentsInv'
    BY <1>1, <2>1 DEF ConsumerInv, HandshakeInv, ContentsInv, Unread, Read, Fresh, Obsolete,
                      Healthy, Ready, Size
  <2>4. OwedInv'
    BY <1>1, <2>1, HeldFrame, BacklogFrame DEF OwedInv, Healthy
  <2> QED
    BY <2>2, <2>3, <2>4
<1> QED
  BY <1>3, <1>4

LEMMA StutterInvariant ==
  ASSUME IInv, UNCHANGED vars
  PROVE  IInv'
<1> USE DEF IInv, vars
<1>1. TypeOK' /\ EmptyInv' /\ RolesInv' /\ SizesInv'
  BY DEF TypeOK, EmptyInv, EmptyState, RolesInv, SizesInv, Ready, Size
<1>2. ConsumerInv' /\ HandshakeInv' /\ ContentsInv'
  BY DEF ConsumerInv, HandshakeInv, ContentsInv, Unread, Read, Fresh, Obsolete, Healthy, Ready, Size
<1>3. OwedInv'
  BY HeldFrame, BacklogFrame DEF OwedInv, Healthy
<1> QED
  BY <1>1, <1>2, <1>3

(* IInv holds in every reachable state.                                    *)
THEOREM Invariance == Spec => []IInv
<1>1. Init => IInv
  BY InitInvariant
<1>2. IInv /\ [Next]_vars => IInv'
  <2> SUFFICES ASSUME IInv, [Next]_vars
               PROVE  IInv'
    OBVIOUS
  <2>1. CASE Owner
    BY <2>1, OwnerInvariant
  <2>2. CASE Producer
    BY <2>2, PrepareInvariant, ExchangeInvariant, RebaseInvariant, RepublishInvariant,
       ExtendInvariant DEF Producer
  <2>3. CASE Consumer
    BY <2>3, ReadHeldInvariant, CheckInvariant, RefreshInvariant, ReadAcceptedInvariant
       DEF Consumer
  <2>4. CASE UNCHANGED vars
    BY <2>4, StutterInvariant
  <2> QED
    BY <2>1, <2>2, <2>3, <2>4 DEF Next
<1> QED
  BY <1>1, <1>2, PTL DEF Spec
-----------------------------------------------------------------------------
(* The safety properties, for every capacity, limit, growth policy and     *)
(* element, with and without failing allocations.                          *)

(* Every variable keeps its type.                                          *)
THEOREM TypeCorrect == Spec => []TypeOK
<1>1. IInv => TypeOK
  BY DEF IInv
<1> QED
  BY <1>1, Invariance, PTL

(* post() never writes a buffer that read() is reading.                    *)
THEOREM NoSharedWriteHolds == Spec => []NoSharedWrite
<1>1. IInv => NoSharedWrite
  <2> SUFFICES ASSUME IInv
               PROVE  NoSharedWrite
    OBVIOUS
  <2>1. /\ output \in Index /\ staged \in Index /\ locked \in Index
        /\ output # staged /\ output # locked /\ staged # locked
    BY DEF IInv, TypeOK, RolesInv
  <2>2. CASE ~Ready
    BY <2>1, <2>2 DEF IInv, EmptyInv, EmptyState, NoSharedWrite, NullIndex
  <2>3. CASE Ready
    BY <2>1, <2>3 DEF IInv, HandshakeInv, Healthy, Unread, Read, Fresh, Obsolete,
                      NoSharedWrite, NullIndex, Index
  <2> QED
    BY <2>2, <2>3
<1> QED
  BY <1>1, Invariance, PTL

(* No buffer holds more than its storage.                                  *)
THEOREM WithinCapacityHolds == Spec => []WithinCapacity
<1>1. IInv => WithinCapacity
  <2> SUFFICES ASSUME IInv
               PROVE  WithinCapacity
    OBVIOUS
  <2>1. CASE ~Ready
    BY <2>1, EmptySeq DEF IInv, EmptyInv, EmptyState, NoBuffer, Size, WithinCapacity
  <2>2. CASE Ready
    BY <2>2 DEF IInv, SizesInv, WithinCapacity
  <2> QED
    BY <2>1, <2>2
<1> QED
  BY <1>1, Invariance, PTL

(* posting_is_valid() and reading_is_valid() hold between calls.           *)
THEOREM EndpointsValidHolds == Spec => []EndpointsValid
<1>1. IInv => EndpointsValid
  BY DEF IInv, TypeOK, RolesInv, SizesInv, ConsumerInv, EndpointsValid, PostingIsValid,
         ReadingIsValid, Index, NullIndex
<1> QED
  BY <1>1, Invariance, PTL

(* The three together.                                                     *)
THEOREM QueueIsSoundHolds == Spec => []QueueIsSound
<1>1. TypeOK /\ WithinCapacity /\ EndpointsValid => QueueIsSound
  BY DEF QueueIsSound
<1> QED
  BY <1>1, TypeCorrect, WithinCapacityHolds, EndpointsValidHolds, PTL

(* What post() accepted stays on its way to read() until it is read.       *)
THEOREM AcceptedItemsArriveHolds == Spec => []AcceptedItemsArrive
<1>1. IInv => AcceptedItemsArrive
  BY DEF IInv, OwedInv, AcceptedItemsArrive, Healthy
<1> QED
  BY <1>1, Invariance, PTL
-----------------------------------------------------------------------------
(* The queue implements the FIFO channel: each step of the queue is a step *)
(* of the channel or leaves the channel as it is.                          *)

(* The local steps of post() touch nothing the consumer can obtain.        *)
LEMMA LocalPostView ==
  ASSUME IInv, PostRebase \/ PostExtend \/ \E items \in Batches : PostPrepare(items)
  PROVE  Held' = Held /\ (Channel!Prepare \/ UNCHANGED Channel!vars)
<1>0. /\ Ready /\ UNCHANGED Ready
      /\ Offered = <<>> \/ Offered' = <<>> \/ Offered' = Offered
  <2>1. Ready /\ Ready'
    BY DEF PostPrepare, PostRebase, PostExtend, IInv, EmptyInv, Ready, configVars
  <2>2. Offered = <<>> \/ Offered' = <<>> \/ Offered' = Offered
    BY DEF PostPrepare, PostRebase, PostExtend, Offered, ReallocationFails
  <2> QED
    BY <2>1, <2>2
<1>1. /\ output \in Index /\ staged \in Index /\ locked \in Index
      /\ output # staged /\ output # locked /\ staged # locked
      /\ reading \in Index \cup {NullIndex} /\ readingPhase \in Phase /\ postingPhase \in Phase
      /\ word \in Word
  BY DEF IInv, TypeOK, RolesInv
<1>2. UNCHANGED <<configVars, consumerVars, word>>
  BY DEF PostPrepare, PostRebase, PostExtend
<1>3. SUFFICES /\ reading # NullIndex => buffers'[reading].data = buffers[reading].data
               /\ Acceptable => buffers'[word.id - 1].data = buffers[word.id - 1].data
  BY <1>0, <1>2, HeldFrame, BacklogFrame DEF configVars, consumerVars, Channel!Prepare, Channel!vars
<1>4. CASE \E items \in Batches : PostPrepare(items)
  <2>1. /\ Ready /\ ~poisoned /\ producerAt = "idle"
        /\ \A i \in Index \ {output} : buffers'[i] = buffers[i]
    BY <1>4 DEF PostPrepare, IInv, TypeOK
  <2>2. reading # output /\ (Acceptable => word.id - 1 = staged)
    BY <1>1, <2>1 DEF IInv, HandshakeInv, Healthy, Unread, Read, Fresh, Staged, Consumed,
                      DefaultWord, Acceptable, NullIndex, Index
  <2> QED
    BY <1>1, <2>1, <2>2
<1>5. CASE PostRebase
  <2>1. /\ producerAt = "rebase"
        /\ \A i \in Index \ {output, locked} : buffers'[i] = buffers[i]
    BY <1>5 DEF PostRebase, IInv, TypeOK
  <2>2. Obsolete
    BY <2>1 DEF IInv, HandshakeInv, EmptyInv
  <2>3. reading \notin {output, locked} /\ ~Acceptable
    BY <1>1, <2>2 DEF Obsolete, Staged, Consumed, Flipped, Phase, Acceptable, NullIndex, Index
  <2> QED
    BY <1>1, <2>1, <2>3
<1>6. CASE PostExtend
  <2>1. /\ producerAt = "extend"
        /\ \A i \in Index \ {staged} : buffers'[i] = buffers[i]
    BY <1>6 DEF PostExtend, IInv, TypeOK
  <2>2. Unread(output) \/ Read(output)
    BY <2>1 DEF IInv, HandshakeInv, EmptyInv
  <2>3. reading # staged /\ (Acceptable => word.id - 1 = output)
    BY <1>1, <2>2 DEF Unread, Read, Staged, Consumed, Acceptable, NullIndex, Index
  <2> QED
    BY <1>1, <2>1, <2>3
<1> QED
  BY <1>4, <1>5, <1>6 DEF ReallocationFails

(* The exchange publishes the post behind the backlog, replaces the        *)
(* backlog with it, or publishes what is obsolete.                         *)
LEMMA ExchangeView ==
  ASSUME IInv, PostExchange
  PROVE  Channel!Post \/ Channel!PostDiscarding \/ UNCHANGED Channel!vars
<1>1. /\ producerAt = "publish" /\ word' = Staged(output, postingPhase)
      /\ UNCHANGED <<configVars, buffers, src, consumerVars>>
      /\ producerAt' = IF word = Consumed THEN "rebase" ELSE "extend"
  BY DEF PostExchange
<1>7. Ready /\ UNCHANGED Ready /\ Offered = src /\ (word # Consumed => Offered' = <<>>)
      /\ (word = Consumed => Offered' = Offered)
  BY <1>1 DEF Ready, IInv, EmptyInv, Offered, configVars
<1>2. /\ Unread(staged) \/ Read(staged) \/ Fresh
      /\ buffers[output].data = (IF discarding THEN <<>> ELSE buffers[staged].data) \o src
      /\ discarding => allowDiscard
  BY <1>1 DEF IInv, EmptyInv, HandshakeInv, ContentsInv, Healthy
<1>3. /\ output \in Index /\ staged \in Index /\ src \in Seq(Item)
      /\ buffers[output].data \in Seq(Item) /\ buffers[staged].data \in Seq(Item)
      /\ postingPhase \in Phase
  BY BufferFacts DEF IInv, TypeOK
<1>4. Held' = Held /\ UNCHANGED <<dst, allowDiscard>>
  BY <1>1, HeldFrame DEF configVars, consumerVars
<1>5. CASE Read(staged)
  <2>1. Backlog = <<>> /\ Backlog' = <<>> /\ word = Consumed
    BY <1>1, <1>3, <1>5 DEF Read, Backlog, Acceptable, Consumed, Staged, Flipped, Phase, consumerVars
  <2> QED
    BY <1>4, <1>7, <2>1 DEF Channel!vars
<1>6. CASE Unread(staged) \/ Fresh
  <2>1. Backlog = buffers[staged].data /\ Backlog' = buffers[output].data /\ word # Consumed
    BY <1>1, <1>3, <1>6 DEF Unread, Fresh, Backlog, Acceptable, Staged, Consumed, DefaultWord, Index,
                            consumerVars
  <2>2. CASE discarding
    <3>1. Backlog' = src
      BY <1>2, <1>3, <2>1, <2>2, ConcatEmptySeq
    <3> QED
      BY <1>2, <1>4, <1>7, <2>1, <2>2, <3>1 DEF Channel!PostDiscarding
  <2>3. CASE ~discarding
    BY <1>2, <1>4, <1>7, <2>1, <2>3 DEF Channel!Post
  <2> QED
    BY <2>2, <2>3
<1> QED
  BY <1>2, <1>5, <1>6

(* The second publication of a rebased post shows the post alone.          *)
LEMMA RepublishView ==
  ASSUME IInv, PostRepublish
  PROVE  Channel!Post
<1>1. /\ producerAt = "republish" /\ word' = Staged(locked, postingPhase)
      /\ UNCHANGED <<configVars, buffers, consumerVars>>
  BY DEF PostRepublish
<1>2. Obsolete /\ buffers[locked].data = src
  BY <1>1 DEF IInv, EmptyInv, HandshakeInv, ContentsInv
<1>3. locked \in Index /\ src \in Seq(Item) /\ postingPhase \in Phase
  BY DEF IInv, TypeOK
<1>4. Backlog = <<>> /\ Backlog' = src
  BY <1>1, <1>2, <1>3 DEF Obsolete, Backlog, Acceptable, Consumed, Staged, Flipped, Phase, Index, consumerVars
<1>5. Held' = Held /\ UNCHANGED <<dst, allowDiscard>>
  BY <1>1, HeldFrame DEF configVars, consumerVars
<1>6. Ready /\ UNCHANGED Ready /\ Offered = src /\ Offered' = <<>>
  BY <1>1 DEF PostRepublish, Ready, IInv, EmptyInv, Offered, configVars
<1>7. Backlog' = Backlog \o Offered
  BY <1>3, <1>4, <1>6, ConcatEmptySeq
<1> QED
  BY <1>5, <1>6, <1>7 DEF Channel!Post

LEMMA ProducerFrame ==
  ASSUME UNCHANGED producerVars
  PROVE  UNCHANGED <<Ready, Offered>>
BY DEF producerVars, configVars, callVars, Ready, Offered

(* A copy takes its request from the front of what is held.                *)
LEMMA CopyView ==
  ASSUME IInv, reading # NullIndex, NEW count \in Nat, CopyOut(count),
         UNCHANGED <<producerVars, readingPhase, word>>
  PROVE  Channel!Take
<1>1. Held = dst' \o Held'
  BY CopyFacts DEF producerVars
<1>2. Backlog' = Backlog /\ UNCHANGED <<allowDiscard, Ready, Offered>>
  BY BacklogFrame, ProducerFrame DEF producerVars, configVars
<1> QED
  BY <1>1, <1>2 DEF Channel!Take

(* An accepting exchange hands over the backlog; a rejecting one had none. *)
LEMMA RefreshView ==
  ASSUME IInv, RefreshExchange
  PROVE  Channel!Accept \/ UNCHANGED Channel!vars
<1>1. /\ consumerAt = "exchange" /\ word' = Consumed
      /\ UNCHANGED <<producerVars, readIndex, dst>>
  BY DEF RefreshExchange
<1>2. reading = NullIndex /\ readIndex = 0 /\ word \in Word
  BY <1>1 DEF IInv, TypeOK, ConsumerInv
<1>3. Held = <<>> /\ Backlog' = <<>> /\ UNCHANGED <<dst, allowDiscard, Ready, Offered>>
  BY <1>1, <1>2, ProducerFrame DEF Held, Backlog, Acceptable, Consumed, producerVars, configVars
<1>4. CASE Acceptable
  <2>1. word.id - 1 \in Index /\ word.id - 1 # NullIndex /\ reading' = word.id - 1
    BY <1>2, <1>4 DEF RefreshExchange, Acceptable, Word, Index, NullIndex
  <2>2. SubSeq(buffers[word.id - 1].data, 1, Len(buffers[word.id - 1].data)) = buffers[word.id - 1].data
    BY <2>1, BufferFacts, SubSeqFull DEF IInv
  <2>3. Held' = Backlog
    BY <1>1, <1>2, <1>4, <2>1, <2>2 DEF Held, Backlog, Size, producerVars
  <2> QED
    BY <1>3, <2>3 DEF Channel!Accept
<1>5. CASE ~Acceptable
  <2>1. UNCHANGED reading
    BY <1>5 DEF RefreshExchange
  <2>2. Held' = Held /\ Backlog = <<>>
    BY <1>1, <1>5, <2>1, HeldFrame DEF Backlog, producerVars
  <2> QED
    BY <1>3, <2>2 DEF Channel!vars
<1> QED
  BY <1>4, <1>5

LEMMA ConsumerView ==
  ASSUME IInv, Consumer
  PROVE  [Channel!Next]_(Channel!vars)
<1>1. ASSUME NEW count \in Counts, ReadHeld(count)
      PROVE  Channel!Take
  <2>1. count \in Nat
    BY BoundAssumption
  <2> QED
    BY <1>1, <2>1, CopyView DEF ReadHeld
<1>2. ASSUME NEW count \in Counts \cup {0}, RefreshCheck(count)
      PROVE  UNCHANGED Channel!vars
  BY <1>2, HeldFrame, BacklogFrame, ProducerFrame DEF RefreshCheck, producerVars, configVars, Channel!vars
<1>3. ASSUME RefreshExchange
      PROVE  Channel!Accept \/ UNCHANGED Channel!vars
  BY <1>3, RefreshView
<1>4. ASSUME ReadAccepted
      PROVE  Channel!Take \/ UNCHANGED Channel!vars
  <2>1. /\ consumerAt = "copy"
        /\ UNCHANGED <<producerVars, readingPhase, word>>
    BY <1>4 DEF ReadAccepted
  <2>2. CASE want # 0 /\ want <= CurrentReadableCount
    <3>1. CopyOut(want)
      BY <1>4, <2>2 DEF ReadAccepted
    <3>2. reading # NullIndex /\ want \in Nat
      BY <2>1 DEF IInv, ConsumerInv, TypeOK
    <3> QED
      BY <2>1, <3>1, <3>2, CopyView
  <2>3. CASE ~(want # 0 /\ want <= CurrentReadableCount)
    <3>1. UNCHANGED <<reading, readIndex, dst>>
      BY <1>4, <2>3 DEF ReadAccepted
    <3> QED
      BY <2>1, <3>1, HeldFrame, BacklogFrame, ProducerFrame DEF producerVars, configVars, Channel!vars
  <2> QED
    BY <2>2, <2>3
<1> QED
  BY <1>1, <1>2, <1>3, <1>4 DEF Consumer, Channel!Next

LEMMA ProducerView ==
  ASSUME IInv, Producer
  PROVE  [Channel!Next]_(Channel!vars) /\ Held' = Held
<1>1. CASE PostExchange
  <2>1. Held' = Held
    BY <1>1, HeldFrame DEF PostExchange, consumerVars
  <2> QED
    BY <1>1, <2>1, ExchangeView DEF Channel!Next
<1>2. CASE PostRepublish
  <2>1. Held' = Held
    BY <1>2, HeldFrame DEF PostRepublish, consumerVars
  <2> QED
    BY <1>2, <2>1, RepublishView DEF Channel!Next
<1>3. CASE PostRebase \/ PostExtend \/ \E items \in Batches : PostPrepare(items)
  BY <1>3, LocalPostView DEF Channel!Next
<1> QED
  BY <1>1, <1>2, <1>3 DEF Producer

LEMMA OwnerView ==
  ASSUME IInv, Owner
  PROVE  Channel!Reset \/ UNCHANGED Channel!vars
<1>1. ASSUME NEW request \in Requests, NEW maximum, NEW discard \in BOOLEAN,
             request <= CapacityLimit, maximum # 0,
             Setup(request, maximum, discard)
      PROVE  Channel!Reset
  <2>1. /\ reading' = NullIndex /\ word' = DefaultWord
        /\ UNCHANGED <<dst, src, producerAt>>
        /\ allowDiscard' = discard
    BY <1>1 DEF Setup, ResetRoles, callVars
  <2>2. allowDiscard' \in BOOLEAN
    BY <1>1, <2>1, Zenon
  <2>3. ~Ready /\ Ready'
    BY <1>1 DEF Setup, Ready
  <2>4. Held' = <<>> /\ Backlog' = <<>> /\ Offered' = Offered
    BY <2>1 DEF Held, Backlog, Acceptable, DefaultWord, Offered
  <2> QED
    BY <2>1, <2>2, <2>3, <2>4 DEF Channel!Reset
<1>2. ASSUME NEW request \in Requests, NEW discard \in BOOLEAN, InitialiseFixed(request, discard)
      PROVE  Channel!Reset
  <2>1. request \in Nat
    BY BoundAssumption
  <2>2. Conditioned(request) \in Nat \ {0}
    BY <1>2, <2>1, ConditionedBounds, CapacityAssumption DEF InitialiseFixed
  <2> QED
    BY <1>1, <1>2, <2>2 DEF InitialiseFixed
<1>3. ASSUME NEW request \in Requests, NEW maximum \in Requests \cup {0},
             InitialiseGrowable(request, maximum)
      PROVE  Channel!Reset
  <2>1. request \in Nat /\ maximum \in Nat
    BY BoundAssumption
  <2>2. Conditioned(request) \in Nat \ {0} /\ CapacityLimit \in Nat \ {0}
    BY <1>3, <2>1, ConditionedBounds, CapacityAssumption DEF InitialiseGrowable
  <2>3. GrowableMaximum(request, maximum) # 0
    BY <2>1, <2>2, MinMax DEF GrowableMaximum, Greatest
  <2>4. FALSE \in BOOLEAN
    BY Zenon
  <2> QED
    BY <1>1, <1>3, <2>3, <2>4 DEF InitialiseGrowable
<1>4. CASE Deallocate
  <2>1. /\ reading' = NullIndex /\ word' = DefaultWord
        /\ UNCHANGED <<dst, src, producerAt>> /\ ~Ready'
    BY <1>4 DEF Deallocate, ResetRoles, Ready, callVars
  <2>2. allowDiscard' = FALSE
    BY <1>4 DEF Deallocate
  <2>3. allowDiscard' \in BOOLEAN
    BY <2>2, Zenon
  <2>4. Held' = <<>> /\ Backlog' = <<>> /\ Offered' = Offered
    BY <2>1 DEF Held, Backlog, Acceptable, DefaultWord, Offered
  <2>5. CASE Ready
    <3>1. Ready' = ~Ready
      BY <2>1, <2>5 DEF Ready
    <3>2. UNCHANGED <<dst, Offered>>
      BY <2>1, <2>4
    <3> QED
      BY <2>3, <2>4, <3>1, <3>2 DEF Channel!Reset
  <2>6. CASE ~Ready
    <3>1. EmptyState
      BY <2>6 DEF IInv, EmptyInv
    <3>2. Held = <<>> /\ Backlog = <<>>
      BY <3>1 DEF EmptyState, Held, Backlog, Acceptable, DefaultWord
    <3>3. allowDiscard = FALSE
      BY <3>1 DEF EmptyState
    <3>4. UNCHANGED allowDiscard
      BY <2>2, <3>3, Zenon
    <3>5. Ready' = Ready
      BY <2>1, <2>6 DEF Ready
    <3>6. UNCHANGED <<Held, Backlog, Offered, dst>>
      BY <2>1, <2>4, <3>2
    <3>7. UNCHANGED Channel!vars
      BY <3>4, <3>5, <3>6 DEF Channel!vars
    <3> QED
      BY <3>7
  <2> QED
    BY <2>5, <2>6
<1> QED
  BY <1>2, <1>3, <1>4 DEF Owner

(* The queue is a FIFO channel, whatever the interleaving of a post with a *)
(* read and wherever an allocation fails.                                  *)
THEOREM Refinement == Spec => IsFifoChannel
<1>1. Init => Channel!Init
  BY DEF Init, EmptyState, Channel!Init, Held, Backlog, Acceptable, DefaultWord, Offered, Ready
<1>2. IInv /\ [Next]_vars => [Channel!Next]_(Channel!vars)
  <2> SUFFICES ASSUME IInv, [Next]_vars
               PROVE  [Channel!Next]_(Channel!vars)
    OBVIOUS
  <2>1. CASE Owner
    BY <2>1, OwnerView DEF Channel!Next
  <2>2. CASE Producer
    BY <2>2, ProducerView
  <2>3. CASE Consumer
    BY <2>3, ConsumerView
  <2>4. CASE UNCHANGED vars
    BY <2>4, HeldFrame, BacklogFrame DEF vars, Offered, Ready, Channel!vars
  <2> QED
    BY <2>1, <2>2, <2>3, <2>4 DEF Next
<1> QED
  BY <1>1, <1>2, Invariance, PTL DEF Spec, IsFifoChannel, Channel!Spec

(* No step of post() moves or alters what the consumer holds.              *)
THEOREM HeldIsStableHolds == Spec => HeldIsStable
<1>1. IInv /\ [Next]_vars => [Producer => Held' = Held]_vars
  BY ProducerView
<1> QED
  BY <1>1, Invariance, PTL DEF Spec, HeldIsStable
=============================================================================

---------------------------- MODULE TransportProofs ----------------------------
(***************************************************************************)
(* Theorems about the transports of MCTransports, for every capacity,      *)
(* batch, number of threads and set of payloads: TRing and TOwning are     *)
(* bounded FIFOs, TBulk stages the latest state, and each keeps its        *)
(* promises while another transport moves.                                 *)
(***************************************************************************)
EXTENDS MCTransports, SequenceTheorems, TLAPS

(***************************************************************************)
(* TRing: IInv, of TRingTransport, is inductive.                           *)
(***************************************************************************)
-----------------------------------------------------------------------------
LEMMA BatchesAreSequences == \A items \in Batches : items \in Seq(Item) /\ items # <<>>
<1> SUFFICES ASSUME NEW n \in 1 .. Batch, NEW items \in [1 .. n -> Item]
             PROVE  items \in Seq(Item) /\ items # <<>>
  BY DEF Batches
<1>1. n \in Nat /\ n > 0
  BY BoundAssumption
<1>2. items \in Seq(Item) /\ Len(items) = n
  BY <1>1
<1> QED
  BY <1>1, <1>2

(* An index stays inside the ring, and steps add up.                       *)
LEMMA AdvancedFacts ==
  ASSUME capacity \in Nat, NEW from \in Nat, from < capacity,
         NEW m \in Nat, NEW n \in Nat, m + n <= capacity
  PROVE  /\ Advanced(from, m) \in Slots
         /\ Advanced(Advanced(from, m), n) = Advanced(from, m + n)
BY DEF Advanced, Slots

(* What the invariant says of a queue that is ready.                       *)
LEMMA ReadyFacts ==
  ASSUME IInv, Ready
  PROVE  /\ capacity \in Nat /\ readIndex \in Nat /\ readIndex < capacity
         /\ writeIndex \in Nat /\ writeIndex < capacity
         /\ occupied \in Nat /\ occupied <= capacity
         /\ Taken \in Nat /\ Taken <= occupied /\ Taken <= want
         /\ Placed \in Nat /\ occupied + Placed <= capacity
         /\ Len(src) \in Nat
         /\ writeIndex = Advanced(readIndex, occupied - Taken + Placed)
<1>1. Len(src) \in Nat
  BY LenProperties DEF IInv, TypeOK
<1>2. /\ capacity \in Nat /\ readIndex \in Nat /\ writeIndex \in Nat /\ occupied \in Nat
      /\ readIndex < capacity /\ writeIndex < capacity /\ occupied <= capacity
      /\ want \in Nat
  BY DEF IInv, TypeOK, IndicesValid
<1>3. Taken \in Nat /\ Taken <= occupied /\ Taken <= want
  BY <1>2 DEF IInv, BoundsInv, Taken
<1>4. Placed \in Nat /\ occupied + Placed <= capacity
  BY <1>1, <1>2 DEF IInv, BoundsInv, Placed
<1>5. writeIndex = Advanced(readIndex, occupied - Taken + Placed)
  BY DEF IInv, SpanInv
<1> QED
  BY <1>1, <1>2, <1>3, <1>4, <1>5
-----------------------------------------------------------------------------
LEMMA InitInvariant == Init => IInv
<1> SUFFICES ASSUME Init PROVE IInv
  OBVIOUS
<1>1. <<>> \in Seq(Item) /\ Slots = {}
  BY EmptySeq DEF Init, Slots
<1> QED
  BY <1>1 DEF Init, IInv, TypeOK, IndicesValid, BoundsInv, SpanInv, PlacedInv, Ready

LEMMA OwnerInvariant ==
  ASSUME IInv, Owner
  PROVE  IInv'
<1> USE DEF IInv, TypeOK, IndicesValid, BoundsInv, SpanInv, PlacedInv
<1>1. /\ producerAt = "idle" /\ consumerAt = "idle" /\ src = <<>> /\ want = 0
      /\ UNCHANGED <<producerAt, src, consumerAt, want, dst>>
      /\ readIndex' = 0 /\ writeIndex' = 0 /\ occupied' = 0
  BY DEF Owner, Initialise, Deallocate, Quiescent
<1>2. ASSUME NEW request \in Requests, NEW debris \in Item, Initialise(request, debris)
      PROVE  IInv'
  <2>1. /\ Conditioned(request) \in Nat /\ MinCapacity <= Conditioned(request)
        /\ Conditioned(request) <= MaxCapacity /\ Conditioned(request) > 0
    BY CapacityAssumption, NextPowerAssumption DEF Conditioned, Least, Greatest
  <2>2. /\ capacity' = Conditioned(request)
        /\ ring' = [i \in 0 .. Conditioned(request) - 1 |-> debris]
    BY <1>2 DEF Initialise
  <2> QED
    BY <1>1, <2>1, <2>2 DEF Slots, Ready, Advanced, Taken, Placed
<1>3. CASE Deallocate
  BY <1>1, <1>3 DEF Deallocate, Slots, Ready
<1> QED
  BY <1>2, <1>3 DEF Owner

LEMMA PostCheckInvariant ==
  ASSUME IInv, NEW items \in Batches, PostCheck(items)
  PROVE  IInv'
<1>1. items \in Seq(Item) /\ items # <<>> /\ Len(items) \in Nat
  BY BatchesAreSequences, LenProperties
<1> USE DEF IInv, TypeOK, IndicesValid, BoundsInv
<1>2. /\ producerAt = "idle" /\ Ready /\ Len(items) <= capacity - occupied
      /\ producerAt' = "copy" /\ src' = items
      /\ UNCHANGED <<ring, ownerVars, writeIndex, consumerVars, occupied>>
  BY DEF PostCheck, WritableCount
<1>3. TypeOK' /\ IndicesValid' /\ BoundsInv'
  BY <1>1, <1>2 DEF ownerVars, consumerVars, Ready, Slots
<1>4. SpanInv' /\ PlacedInv'
  BY <1>2 DEF SpanInv, PlacedInv, Ready, Advanced, Taken, Placed, ownerVars, consumerVars
<1> QED
  BY <1>3, <1>4

LEMMA PostCopyInvariant ==
  ASSUME IInv, PostCopy
  PROVE  /\ IInv'
         /\ \A k \in 1 .. occupied - Taken :
               ring'[Advanced(readIndex, k - 1)] = ring[Advanced(readIndex, k - 1)]
<1>1. /\ producerAt = "copy" /\ producerAt' = "publish"
      /\ writeIndex' = Advanced(writeIndex, Len(src))
      /\ UNCHANGED <<ownerVars, src, consumerVars, occupied>>
      /\ ring' = [slot \in Slots |-> IF Offset(writeIndex, slot) < Len(src)
                                     THEN src[Offset(writeIndex, slot) + 1]
                                     ELSE ring[slot]]
  BY DEF PostCopy
<1>2. Ready /\ Placed = 0 /\ src \in Seq(Item) /\ src # <<>> /\ occupied + Len(src) <= capacity
  BY <1>1 DEF IInv, TypeOK, BoundsInv, Placed
<1>3. /\ capacity \in Nat /\ readIndex \in Nat /\ readIndex < capacity
      /\ writeIndex \in Nat /\ writeIndex < capacity
      /\ occupied \in Nat /\ occupied <= capacity
      /\ Taken \in Nat /\ Taken <= occupied /\ Len(src) \in Nat
      /\ writeIndex = Advanced(readIndex, occupied - Taken)
  BY <1>2, ReadyFacts
<1> DEFINE kept == occupied - Taken
<1>4. kept \in Nat /\ kept + Len(src) <= capacity
  BY <1>2, <1>3
<1> HIDE DEF kept
<1>5. ASSUME NEW k \in 1 .. kept
      PROVE  ring'[Advanced(readIndex, k - 1)] = ring[Advanced(readIndex, k - 1)]
  <2>1. Advanced(readIndex, k - 1) \in Slots
    BY <1>3, <1>4 DEF Advanced, Slots
  <2>2. ~(Offset(writeIndex, Advanced(readIndex, k - 1)) < Len(src))
    BY <1>3, <1>4 DEF Advanced, Offset, kept
  <2> QED
    BY <1>1, <2>1, <2>2
<1>6. ASSUME NEW k \in 1 .. Len(src)
      PROVE  ring'[Advanced(readIndex, kept + k - 1)] = src[k]
  <2>1. Advanced(readIndex, kept + k - 1) \in Slots
    BY <1>3, <1>4 DEF Advanced, Slots
  <2>2. Offset(writeIndex, Advanced(readIndex, kept + k - 1)) = k - 1
    BY <1>3, <1>4 DEF Advanced, Offset, kept
  <2> QED
    BY <1>1, <1>3, <2>1, <2>2
<1>7. TypeOK'
  <2>1. ASSUME NEW slot \in Slots
        PROVE  (IF Offset(writeIndex, slot) < Len(src)
                THEN src[Offset(writeIndex, slot) + 1] ELSE ring[slot]) \in Item
    <3>1. Offset(writeIndex, slot) \in Nat
      BY <1>3 DEF Offset, Slots
    <3>2. CASE Offset(writeIndex, slot) < Len(src)
      BY <1>2, <1>3, <3>1, <3>2, ElementOfSeq
    <3>3. CASE ~(Offset(writeIndex, slot) < Len(src))
      BY <3>3 DEF IInv, TypeOK
    <3> QED
      BY <3>2, <3>3
  <2>2. ring' \in [Slots -> Item] /\ Slots' = Slots
    BY <1>1, <2>1 DEF Slots, ownerVars
  <2>3. writeIndex' \in Nat
    BY <1>1, <1>3 DEF Advanced
  <2> QED
    BY <1>1, <2>2, <2>3 DEF IInv, TypeOK, ownerVars, consumerVars
<1>8. IndicesValid' /\ BoundsInv'
  <2>1. writeIndex' < capacity
    BY <1>1, <1>2, <1>3 DEF Advanced
  <2> QED
    BY <1>1, <1>2, <1>3, <2>1 DEF IInv, IndicesValid, BoundsInv, Ready, ownerVars, consumerVars
<1>10. SpanInv'
  <2>1. Advanced(writeIndex, Len(src)) = Advanced(readIndex, kept + Len(src))
    BY <1>3, <1>4, AdvancedFacts DEF kept
  <2>2. occupied' - Taken' + Placed' = kept + Len(src)
    BY <1>1 DEF kept, Taken, Placed, consumerVars
  <2> QED
    BY <1>1, <2>1, <2>2 DEF SpanInv, Advanced, ownerVars, consumerVars
<1>9. PlacedInv'
  BY <1>1, <1>6 DEF PlacedInv, Advanced, Taken, kept, ownerVars, consumerVars
<1> QED
  BY <1>5, <1>7, <1>8, <1>9, <1>10 DEF IInv, kept

LEMMA PostPublishInvariant ==
  ASSUME IInv, PostPublish
  PROVE  IInv'
<1>1. /\ producerAt = "publish" /\ producerAt' = "idle" /\ src' = <<>>
      /\ occupied' = occupied + Len(src)
      /\ UNCHANGED <<ring, ownerVars, writeIndex, consumerVars>>
  BY DEF PostPublish
<1>2. Ready /\ Placed = Len(src) /\ occupied + Len(src) <= capacity /\ <<>> \in Seq(Item)
  BY <1>1, EmptySeq DEF IInv, BoundsInv, Placed
<1>3. /\ capacity \in Nat /\ occupied \in Nat /\ Len(src) \in Nat /\ Taken \in Nat
      /\ writeIndex = Advanced(readIndex, occupied - Taken + Len(src))
  BY <1>2, ReadyFacts
<1>4. TypeOK' /\ IndicesValid' /\ BoundsInv'
  BY <1>1, <1>2, <1>3 DEF IInv, TypeOK, IndicesValid, BoundsInv, Ready, Slots, ownerVars, consumerVars
<1>5. SpanInv' /\ PlacedInv'
  <2>1. occupied' - Taken' + Placed' = occupied - Taken + Len(src)
    BY <1>1, <1>3 DEF Taken, Placed, consumerVars
  <2> QED
    BY <1>1, <1>3, <2>1 DEF SpanInv, PlacedInv, Advanced, ownerVars, consumerVars
<1> QED
  BY <1>4, <1>5 DEF IInv
-----------------------------------------------------------------------------
LEMMA ReadCheckInvariant ==
  ASSUME IInv, NEW count \in 1 .. Batch, ReadCheck(count)
  PROVE  IInv'
<1>1. count \in Nat /\ count # 0
  BY BoundAssumption
<1>2. /\ consumerAt = "idle" /\ Ready /\ count <= occupied
      /\ consumerAt' = "copy" /\ want' = count
      /\ UNCHANGED <<ring, ownerVars, producerVars, readIndex, dst, occupied>>
  BY DEF ReadCheck, ReadableCount, IInv, IndicesValid
<1>3. TypeOK' /\ IndicesValid' /\ BoundsInv'
  BY <1>1, <1>2 DEF IInv, TypeOK, IndicesValid, BoundsInv, ownerVars, producerVars, Ready, Slots
<1>4. SpanInv' /\ PlacedInv'
  BY <1>2 DEF IInv, SpanInv, PlacedInv, Ready, Advanced, Taken, Placed, ownerVars, producerVars
<1> QED
  BY <1>3, <1>4 DEF IInv

LEMMA ReadCopyInvariant ==
  ASSUME IInv, ReadCopy
  PROVE  /\ IInv'
         /\ consumerAt = "copy" /\ want \in Nat /\ 0 < want /\ want <= occupied
         /\ dst' = [k \in 1 .. want |-> ring[Advanced(readIndex, k - 1)]]
         /\ dst' \in Seq(Item) /\ Len(dst') = want
         /\ \A k \in 1 .. occupied - want :
               Advanced(readIndex', k - 1) = Advanced(readIndex, want + k - 1)
<1>1. /\ consumerAt = "copy" /\ consumerAt' = "release"
      /\ dst' = [k \in 1 .. want |-> ring[Advanced(readIndex, k - 1)]]
      /\ readIndex' = Advanced(readIndex, want)
      /\ UNCHANGED <<ring, ownerVars, producerVars, want, occupied>>
  BY DEF ReadCopy
<1>2. Ready /\ Taken = 0 /\ want \in Nat /\ 0 < want /\ want <= occupied
  BY <1>1 DEF IInv, TypeOK, BoundsInv, Taken
<1>3. /\ capacity \in Nat /\ readIndex \in Nat /\ readIndex < capacity
      /\ occupied \in Nat /\ occupied <= capacity
      /\ Placed \in Nat /\ occupied + Placed <= capacity
      /\ writeIndex = Advanced(readIndex, occupied + Placed)
  BY <1>2, ReadyFacts
<1>4. /\ readIndex' \in Nat /\ readIndex' < capacity
      /\ \A n \in Nat : want + n <= capacity => Advanced(readIndex', n) = Advanced(readIndex, want + n)
  BY <1>1, <1>2, <1>3 DEF Advanced
<1>5. dst' \in Seq(Item) /\ Len(dst') = want
  <2>1. ASSUME NEW k \in 1 .. want
        PROVE  ring[Advanced(readIndex, k - 1)] \in Item
    <3>1. Advanced(readIndex, k - 1) \in Slots
      BY <1>2, <1>3 DEF Advanced, Slots
    <3> QED
      BY <3>1 DEF IInv, TypeOK
  <2>2. dst' \in [1 .. want -> Item]
    BY <1>1, <2>1
  <2> QED
    BY <1>2, <2>2
<1>6. TypeOK' /\ IndicesValid' /\ BoundsInv'
  BY <1>1, <1>2, <1>3, <1>4, <1>5 DEF IInv, TypeOK, IndicesValid, BoundsInv, Ready, Slots, ownerVars, producerVars
<1>7. Taken' = want /\ Placed' = Placed
  BY <1>1 DEF Taken, Placed, producerVars
<1>8. SpanInv'
  <2>1. Advanced(readIndex', occupied - want + Placed) = writeIndex
    BY <1>2, <1>3, <1>4
  <2> QED
    BY <1>1, <1>7, <2>1 DEF SpanInv, Advanced, ownerVars, producerVars
<1>9. PlacedInv'
  <2>1. CASE producerAt # "publish"
    BY <1>1, <2>1 DEF PlacedInv, producerVars
  <2>2. CASE producerAt = "publish"
    <3>1. ASSUME NEW k \in 1 .. Len(src)
          PROVE  ring[Advanced(readIndex', occupied - want + k - 1)] = src[k]
      <4>1. Placed = Len(src) /\ Len(src) \in Nat
        BY <1>2, <2>2, ReadyFacts DEF Placed
      <4>2. Advanced(readIndex', occupied - want + k - 1) = Advanced(readIndex, occupied - Taken + k - 1)
        BY <1>2, <1>3, <1>4, <4>1
      <4> QED
        BY <2>2, <4>2 DEF IInv, PlacedInv
    <3> QED
      BY <1>1, <1>7, <3>1 DEF PlacedInv, Advanced, ownerVars, producerVars
  <2> QED
    BY <2>1, <2>2
<1>10. \A k \in 1 .. occupied - want : Advanced(readIndex', k - 1) = Advanced(readIndex, want + k - 1)
  <2> SUFFICES ASSUME NEW k \in 1 .. occupied - want
               PROVE  Advanced(readIndex', k - 1) = Advanced(readIndex, want + (k - 1))
    BY <1>2, <1>3
  <2> QED
    BY <1>2, <1>3, <1>4
<1> QED
  BY <1>1, <1>2, <1>5, <1>6, <1>8, <1>9, <1>10 DEF IInv

LEMMA ReadReleaseInvariant ==
  ASSUME IInv, ReadRelease
  PROVE  IInv'
<1>1. /\ consumerAt = "release" /\ consumerAt' = "idle" /\ want' = 0
      /\ occupied' = occupied - want
      /\ UNCHANGED <<ring, ownerVars, producerVars, readIndex, dst>>
  BY DEF ReadRelease
<1>2. Ready /\ Taken = want /\ want \in Nat /\ want <= occupied /\ occupied \in Nat
  BY <1>1 DEF IInv, TypeOK, BoundsInv, Taken
<1>3. TypeOK' /\ IndicesValid' /\ BoundsInv'
  <2>1. capacity \in Nat /\ Len(src) \in Nat
    BY LenProperties DEF IInv, TypeOK
  <2> QED
    BY <1>1, <1>2, <2>1 DEF IInv, TypeOK, IndicesValid, BoundsInv, Ready, Slots, ownerVars, producerVars
<1>4. occupied' - Taken' = occupied - Taken /\ Placed' = Placed
  BY <1>1, <1>2 DEF Taken, Placed, producerVars
<1>5. SpanInv' /\ PlacedInv'
  BY <1>1, <1>4 DEF IInv, SpanInv, PlacedInv, Ready, Advanced, ownerVars, producerVars
<1> QED
  BY <1>3, <1>5 DEF IInv
-----------------------------------------------------------------------------
LEMMA TRingStep == IInv /\ [Next]_vars => IInv'
<1>1. IInv /\ UNCHANGED vars => IInv'
  BY DEF IInv, TypeOK, IndicesValid, BoundsInv, SpanInv, PlacedInv, Ready, Slots, Advanced,
         Taken, Placed, vars
<1> QED
  BY <1>1, OwnerInvariant, PostCheckInvariant, PostCopyInvariant, PostPublishInvariant,
     ReadCheckInvariant, ReadCopyInvariant, ReadReleaseInvariant DEF Next, Producer, Consumer

(* IInv holds in every reachable state.                                    *)
THEOREM Invariance == Spec => []IInv
<1> QED
  BY TRingStep, InitInvariant, PTL DEF Spec

(* Every variable keeps its type.                                          *)
THEOREM TypeCorrect == Spec => []TypeOK
<1>1. IInv => TypeOK
  BY DEF IInv
<1> QED
  BY <1>1, Invariance, PTL

(* The endpoints' validity checks hold in the middle of any call.          *)
THEOREM IndicesValidHolds == Spec => []IndicesValid
<1>1. IInv => IndicesValid
  BY DEF IInv
<1> QED
  BY <1>1, Invariance, PTL

(* post() never writes a slot that read() is copying.                      *)
THEOREM NoSharedSlotHolds == Spec => []NoSharedSlot
<1>1. IInv => NoSharedSlot
  <2> SUFFICES ASSUME IInv, producerAt = "copy", consumerAt = "copy",
                      NEW k \in 0 .. Len(src) - 1, NEW j \in 0 .. want - 1,
                      Advanced(writeIndex, k) = Advanced(readIndex, j)
               PROVE  FALSE
    BY DEF NoSharedSlot, Written, Copied
  <2>1. Ready /\ Taken = 0 /\ Placed = 0 /\ want <= occupied /\ occupied + Len(src) <= capacity
        /\ want \in Nat
    BY DEF IInv, TypeOK, BoundsInv, Taken, Placed
  <2>2. /\ capacity \in Nat /\ readIndex \in Nat /\ readIndex < capacity
        /\ occupied \in Nat /\ Len(src) \in Nat
        /\ writeIndex = Advanced(readIndex, occupied)
    BY <2>1, ReadyFacts
  <2>3. Advanced(writeIndex, k) = Advanced(readIndex, occupied + k)
    BY <2>1, <2>2 DEF Advanced
  <2> QED
    BY <2>1, <2>2, <2>3 DEF Advanced
<1> QED
  BY <1>1, Invariance, PTL
-----------------------------------------------------------------------------
(* The ring implements the bounded FIFO.                                   *)

LEMMA ContentsFacts ==
  ASSUME IInv
  PROVE  /\ Contents \in Seq(Item) /\ Len(Contents) = occupied - Taken
         /\ occupied - Taken \in Nat
         /\ \A k \in 1 .. occupied - Taken :
               Contents[k] = ring[Advanced(readIndex, k - 1)]
<1>1. CASE Ready
  <2>1. /\ capacity \in Nat /\ readIndex \in Nat /\ readIndex < capacity
        /\ occupied \in Nat /\ occupied <= capacity /\ Taken \in Nat /\ Taken <= occupied
    BY <1>1, ReadyFacts
  <2>2. ASSUME NEW k \in 1 .. occupied - Taken
        PROVE  ring[Advanced(readIndex, k - 1)] \in Item
    <3>1. Advanced(readIndex, k - 1) \in Slots
      BY <2>1 DEF Advanced, Slots
    <3> QED
      BY <3>1 DEF IInv, TypeOK
  <2>3. Contents \in [1 .. occupied - Taken -> Item]
    BY <2>2 DEF Contents
  <2> QED
    BY <2>1, <2>3 DEF Contents
<1>2. CASE ~Ready
  <2>1. occupied = 0 /\ Taken = 0
    BY <1>2 DEF Ready, IInv, TypeOK, IndicesValid, BoundsInv, Taken
  <2>2. Contents = <<>> /\ Contents \in Seq(Item)
    BY <2>1, EmptySeq DEF Contents
  <2> QED
    BY <2>1, <2>2
<1> QED
  BY <1>1, <1>2

(* What is in the ring depends on its span and on the slots of the span.   *)
LEMMA ContentsFrame ==
  ASSUME IInv, capacity' = capacity, readIndex' = readIndex, occupied' - Taken' = occupied - Taken,
         \A k \in 1 .. occupied - Taken :
            ring'[Advanced(readIndex, k - 1)] = ring[Advanced(readIndex, k - 1)]
  PROVE  Contents' = Contents
BY DEF Contents, Advanced

LEMMA PublishView ==
  ASSUME IInv, PostPublish
  PROVE  Fifo!Send
<1>1. /\ producerAt = "publish"
      /\ occupied' = occupied + Len(src)
      /\ UNCHANGED <<ring, ownerVars, writeIndex, consumerVars>>
  BY DEF PostPublish
<1>2. /\ Len(src) \in Nat /\ 0 < Len(src) /\ occupied + Len(src) <= capacity
      /\ Taken \in Nat /\ occupied \in Nat /\ Taken' = Taken
  <2>1. Ready /\ src # <<>> /\ src \in Seq(Item) /\ occupied + Len(src) <= capacity
    BY <1>1 DEF IInv, TypeOK, BoundsInv
  <2> QED
    BY <1>1, <2>1, ReadyFacts, EmptySeq DEF Taken, consumerVars
<1>3. /\ Contents \in Seq(Item) /\ Len(Contents) = occupied - Taken
      /\ \A k \in 1 .. occupied - Taken : Contents[k] = ring[Advanced(readIndex, k - 1)]
  BY ContentsFacts
<1>4. IInv'
  BY PostPublishInvariant
<1>5. /\ Contents' \in Seq(Item) /\ Len(Contents') = occupied' - Taken'
      /\ \A k \in 1 .. occupied' - Taken' : Contents'[k] = ring[Advanced(readIndex, k - 1)]
  <2>1. Len(Contents') = occupied' - Taken' /\ Contents' \in Seq(Item)
    <3>1. /\ capacity' \in Nat /\ readIndex' \in Nat /\ Taken' <= occupied' /\ occupied' \in Nat
      BY <1>4, <1>1, <1>2 DEF IInv, TypeOK, BoundsInv, Taken
    <3>2. ASSUME NEW k \in 1 .. occupied' - Taken'
          PROVE  ring'[Advanced(readIndex, k - 1)] \in Item
      <4>1. Advanced(readIndex, k - 1) \in Slots'
        BY <1>1, <1>2, <1>4, <3>1 DEF IInv, IndicesValid, Ready, Advanced, Slots, ownerVars, consumerVars
      <4> QED
        BY <4>1, <1>4 DEF IInv, TypeOK
    <3>3. Contents' \in [1 .. occupied' - Taken' -> Item]
      BY <1>1, <3>2 DEF Contents, Advanced, ownerVars, consumerVars
    <3> QED
      BY <1>1, <1>2, <3>1, <3>3
  <2> QED
    BY <1>1, <2>1 DEF Contents, Advanced, ownerVars, consumerVars
<1>6. Contents' = Contents \o src
  <2> DEFINE whole == Contents \o src
  <2>0. src \in Seq(Item)
    BY DEF IInv, TypeOK
  <2>1. /\ whole \in Seq(Item) /\ Len(whole) = occupied - Taken + Len(src)
        /\ \A k \in 1 .. occupied - Taken + Len(src) :
              whole[k] = IF k <= occupied - Taken THEN Contents[k] ELSE src[k - (occupied - Taken)]
    <3>1. /\ whole \in Seq(Item) /\ Len(whole) = Len(Contents) + Len(src)
          /\ \A k \in 1 .. Len(Contents) + Len(src) :
                whole[k] = IF k <= Len(Contents) THEN Contents[k] ELSE src[k - Len(Contents)]
      BY <1>3, <2>0, ConcatProperties
    <3> HIDE DEF whole
    <3> QED
      BY <1>3, <3>1
  <2>2. ASSUME NEW k \in 1 .. occupied - Taken + Len(src)
        PROVE  Contents'[k] = whole[k]
    <3> HIDE DEF whole
    <3>1. k \in 1 .. occupied' - Taken' /\ Contents'[k] = ring[Advanced(readIndex, k - 1)]
      BY <1>1, <1>2, <1>5
    <3>2. CASE k <= occupied - Taken
      <4>1. k \in 1 .. occupied - Taken
        BY <1>2, <3>2
      <4> QED
        BY <1>3, <2>1, <3>1, <3>2, <4>1
    <3>3. CASE ~(k <= occupied - Taken)
      <4> DEFINE j == k - (occupied - Taken)
      <4>1. j \in 1 .. Len(src) /\ occupied - Taken + j - 1 = k - 1
        BY <1>2, <3>3
      <4>2. ring[Advanced(readIndex, occupied - Taken + j - 1)] = src[j]
        BY <1>1, <4>1 DEF IInv, PlacedInv
      <4>3. whole[k] = src[j]
        BY <2>1, <3>3
      <4> QED
        BY <3>1, <4>1, <4>2, <4>3
    <3> QED
      BY <3>2, <3>3
  <2>3. Contents' \in Seq(Item) /\ Len(Contents') = occupied - Taken + Len(src)
    BY <1>1, <1>2, <1>5
  <2> HIDE DEF whole
  <2>4. Contents' = whole
    BY <2>1, <2>2, <2>3, SeqEqual
  <2> QED
    BY <2>4 DEF whole
<1>7. Len(Contents') <= capacity
  <2>1. capacity \in Nat
    BY DEF IInv, TypeOK
  <2>2. Len(Contents') = occupied + Len(src) - Taken
    BY <1>1, <1>2, <1>5
  <2> QED
    BY <1>2, <2>1, <2>2
<1>8. src' = <<>>
  BY DEF PostPublish
<1> QED
  BY <1>1, <1>6, <1>7, <1>8 DEF Fifo!Send, ownerVars, consumerVars

LEMMA ReadCopyView ==
  ASSUME IInv, ReadCopy
  PROVE  Fifo!Receive
<1>1. /\ IInv'
      /\ want \in Nat /\ 0 < want /\ want <= occupied
      /\ dst' = [k \in 1 .. want |-> ring[Advanced(readIndex, k - 1)]]
      /\ dst' \in Seq(Item) /\ Len(dst') = want
      /\ \A k \in 1 .. occupied - want :
            Advanced(readIndex', k - 1) = Advanced(readIndex, want + k - 1)
  BY ReadCopyInvariant
<1>2. /\ Taken = 0 /\ Taken' = want /\ occupied \in Nat
      /\ UNCHANGED <<ring, ownerVars, producerVars, occupied>>
  BY DEF ReadCopy, Taken, IInv, TypeOK
<1>3. /\ Contents \in Seq(Item) /\ Len(Contents) = occupied
      /\ \A k \in 1 .. occupied : Contents[k] = ring[Advanced(readIndex, k - 1)]
  BY <1>2, ContentsFacts
<1>4. /\ Contents' \in Seq(Item) /\ Len(Contents') = occupied - want
      /\ \A k \in 1 .. occupied - want : Contents'[k] = ring[Advanced(readIndex, want + k - 1)]
  <2>1. want \in Nat /\ 0 < want /\ want <= occupied
    BY <1>1
  <2>2. /\ readIndex \in Nat /\ readIndex < capacity /\ capacity \in Nat /\ occupied <= capacity
    BY <1>2, <2>1, ReadyFacts DEF ReadCopy, IInv, BoundsInv
  <2>3. ASSUME NEW k \in 1 .. occupied - want
        PROVE  /\ ring[Advanced(readIndex', k - 1)] \in Item
               /\ ring[Advanced(readIndex', k - 1)] = ring[Advanced(readIndex, want + k - 1)]
    <3>1. Advanced(readIndex', k - 1) = Advanced(readIndex, want + k - 1)
      BY <1>1
    <3>2. want + k - 1 \in Nat /\ want + k - 1 < capacity
      BY <1>2, <2>1, <2>2
    <3>3. Advanced(readIndex, want + k - 1) \in Slots
      BY <2>2, <3>2 DEF Advanced, Slots
    <3> QED
      BY <3>1, <3>3 DEF IInv, TypeOK
  <2>4. Contents' = [k \in 1 .. occupied - want |-> ring[Advanced(readIndex', k - 1)]]
    BY <1>2 DEF Contents, Advanced, ownerVars
  <2>5. Contents' \in [1 .. occupied - want -> Item]
    BY <2>3, <2>4
  <2> QED
    BY <1>2, <2>1, <2>3, <2>4, <2>5
<1>5. Contents = dst' \o Contents'
  <2> DEFINE whole == dst' \o Contents'
  <2>1. /\ whole \in Seq(Item) /\ Len(whole) = occupied
        /\ \A k \in 1 .. occupied : whole[k] = IF k <= want THEN dst'[k] ELSE Contents'[k - want]
    BY <1>1, <1>2, <1>4, ConcatProperties
  <2>2. \A k \in 1 .. occupied : Contents[k] = whole[k]
    <3> SUFFICES ASSUME NEW k \in 1 .. occupied
                 PROVE  Contents[k] = whole[k]
      OBVIOUS
    <3> HIDE DEF whole
    <3>1. CASE k <= want
      <4>1. k \in 1 .. want /\ dst'[k] = ring[Advanced(readIndex, k - 1)]
        BY <1>1, <1>2, <3>1
      <4> QED
        BY <1>3, <2>1, <3>1, <4>1
    <3>2. CASE ~(k <= want)
      <4>1. k - want \in 1 .. occupied - want /\ want + (k - want) - 1 = k - 1
        BY <1>1, <1>2, <3>2
      <4>2. Contents'[k - want] = ring[Advanced(readIndex, k - 1)]
        BY <1>4, <4>1
      <4> QED
        BY <1>3, <2>1, <3>2, <4>2
    <3> QED
      BY <3>1, <3>2
  <2> HIDE DEF whole
  <2> QED
    BY <1>3, <2>1, <2>2, SeqEqual DEF whole
<1>6. dst' # <<>>
  BY <1>1, EmptySeq
<1> QED
  BY <1>2, <1>5, <1>6 DEF Fifo!Receive, ownerVars, producerVars

LEMMA TRingFifoInit == Init => Fifo!Init
BY DEF Init, Fifo!Init, Contents, Taken

LEMMA TRingFifoStep == IInv /\ [Next]_vars => [Fifo!Next]_(Fifo!vars)
<1> SUFFICES ASSUME IInv, [Next]_vars
             PROVE  [Fifo!Next]_(Fifo!vars)
  OBVIOUS
<1> USE DEF Fifo!Next, Fifo!vars
<1>1. CASE Owner
  <2>1. occupied' = 0 /\ Taken' = 0 /\ dst' = dst /\ src' = src
    BY <1>1 DEF Owner, Initialise, Deallocate, Quiescent, Taken
  <2>2. capacity' \in Nat /\ (capacity # 0 => capacity' = 0)
    BY <1>1, OwnerInvariant DEF Owner, Initialise, Deallocate, Ready, IInv, TypeOK
  <2>3. Contents' = <<>>
    BY <2>1 DEF Contents
  <2> QED
    BY <2>1, <2>2, <2>3 DEF Fifo!Reset
<1>2. CASE \E items \in Batches : PostCheck(items)
  <2>1. src = <<>>
    BY <1>2 DEF PostCheck, IInv, BoundsInv
  <2>2. Contents' = Contents /\ UNCHANGED <<dst, capacity>>
    BY <1>2, ContentsFrame DEF PostCheck, Taken, ownerVars, consumerVars
  <2> QED
    BY <2>1, <2>2 DEF Fifo!Offer
<1>3. CASE PostCopy
  <2>1. \A k \in 1 .. occupied - Taken :
           ring'[Advanced(readIndex, k - 1)] = ring[Advanced(readIndex, k - 1)]
    BY <1>3, PostCopyInvariant
  <2>2. UNCHANGED <<ownerVars, consumerVars, occupied, src>>
    BY <1>3 DEF PostCopy
  <2> QED
    BY <2>1, <2>2, ContentsFrame DEF Taken, ownerVars, consumerVars
<1>4. CASE PostPublish
  BY <1>4, PublishView
<1>5. CASE \E count \in 1 .. Batch : ReadCheck(count)
  BY <1>5, ContentsFrame DEF ReadCheck, Taken, ownerVars, producerVars
<1>6. CASE ReadCopy
  BY <1>6, ReadCopyView
<1>7. CASE ReadRelease
  <2>1. occupied' - Taken' = occupied - Taken
    BY <1>7 DEF ReadRelease, Taken, IInv, TypeOK
  <2> QED
    BY <1>7, <2>1, ContentsFrame DEF ReadRelease, ownerVars, producerVars
<1>8. CASE UNCHANGED vars
  BY <1>8, ContentsFrame DEF vars, Taken
<1> QED
  BY <1>1, <1>2, <1>3, <1>4, <1>5, <1>6, <1>7, <1>8 DEF Next, Producer, Consumer

(* The ring is a bounded FIFO, whatever the interleaving of the two calls. *)
THEOREM Refinement == Spec => IsBoundedFifo
<1> QED
  BY TRingFifoInit, TRingFifoStep, Invariance, PTL DEF Spec, IsBoundedFifo, Fifo!Spec
-----------------------------------------------------------------------------
(***************************************************************************)
(* TOwning.  The invariant: the slots that hold an element are those from  *)
(* the next to read up to the next to write, each element is in one of     *)
(* them, and it is the one that nobody else has.                           *)
(***************************************************************************)
OwningTaken == IF readerAt = "release" THEN 1 ELSE 0
OwningPlaced == IF posterAt = "publish" THEN 1 ELSE 0
OwningLive == filled - OwningTaken + OwningPlaced
OwningSlots == 0 .. slotCount - 1

\* The slot n after the one at s.
After(s, n) == IF s + n < slotCount THEN s + n ELSE s + n - slotCount

OwningTypes ==
    /\ slotCount \in Nat
    /\ slots \in [OwningSlots -> Element \cup {Empty}]
    /\ readSlot \in Nat /\ writeSlot \in Nat /\ filled \in Nat
    /\ posterAt \in {"idle", "move", "publish"} /\ posted \in Element \cup {Empty}
    /\ readerAt \in {"idle", "move", "release"} /\ received \in Seq(Element \cup {Empty})
    /\ resident \subseteq Element
    /\ \A n \in OwningSlots : And[<<n + 1, slotCount - 1>>] = (n + 1) % slotCount

OwningBounds ==
    /\ slotCount = 0 => filled = 0 /\ posterAt = "idle" /\ readerAt = "idle"
    /\ slotCount # 0 => readSlot < slotCount /\ writeSlot < slotCount
    /\ filled <= slotCount
    /\ posterAt # "idle" => filled + 1 <= slotCount
    /\ readerAt # "idle" => 1 <= filled

OwningSpan ==
    slotCount # 0 =>
        /\ OwningLive < slotCount => writeSlot = After(readSlot, OwningLive)
        /\ OwningLive = slotCount => writeSlot = readSlot
        /\ \A n \in OwningSlots : slots[After(readSlot, n)] # Empty <=> n < OwningLive

OwningElements ==
    /\ \A s, t \in OwningSlots : slots[s] = slots[t] /\ slots[s] # Empty => s = t
    /\ \A e \in Element : e \in resident <=> \E s \in OwningSlots : slots[s] = e
    /\ IF posterAt = "move" THEN posted \in Element \ resident ELSE posted = Empty
    /\ \A k \in DOMAIN received : received[k] # Empty

OwningInv == OwningTypes /\ OwningBounds /\ OwningSpan /\ OwningElements
-----------------------------------------------------------------------------
LEMMA Around ==
    ASSUME NEW m \in Nat \ {0}, NEW n \in Int, n >= 0, n < m + m
    PROVE  n % m = IF n < m THEN n ELSE n - m
  <1>1. CASE n < m
    BY <1>1
  <1>2. CASE ~(n < m)
    <2>1. (m * 1 + (n - m)) % m = n - m
      BY <1>2
    <2> QED
      BY <1>2, <2>1
  <1> QED
    BY <1>1, <1>2

(* How slots follow each other round the ring.                             *)
LEMMA AfterFacts ==
    ASSUME slotCount \in Nat, NEW s \in Nat, s < slotCount
    PROVE  /\ \A n \in OwningSlots : After(s, n) \in OwningSlots
           /\ \A n, k \in OwningSlots : After(s, n) = After(s, k) => n = k
           /\ \A t \in OwningSlots : \E n \in OwningSlots : After(s, n) = t
           /\ After(s, 0) = s
           /\ \A n \in 0 .. slotCount : (s + n) % slotCount = After(s, n)
  <1>1. /\ \A n \in OwningSlots : After(s, n) \in OwningSlots
        /\ \A n, k \in OwningSlots : After(s, n) = After(s, k) => n = k
        /\ After(s, 0) = s
    BY DEF After, OwningSlots
  <1>2. ASSUME NEW t \in OwningSlots
        PROVE  \E n \in OwningSlots : After(s, n) = t
    <2>1. CASE t >= s
      <3>1. t - s \in OwningSlots /\ After(s, t - s) = t
        BY <2>1 DEF After, OwningSlots
      <3> QED
        BY <3>1
    <2>2. CASE ~(t >= s)
      <3>1. t - s + slotCount \in OwningSlots /\ After(s, t - s + slotCount) = t
        BY <2>2 DEF After, OwningSlots
      <3> QED
        BY <3>1
    <2> QED
      BY <2>1, <2>2
  <1>3. ASSUME NEW n \in 0 .. slotCount
        PROVE  (s + n) % slotCount = After(s, n)
    <2>1. PICK k \in Int : k = s + n
      OBVIOUS
    <2>2. k >= 0 /\ k < slotCount + slotCount /\ slotCount \in Nat \ {0}
      BY <2>1
    <2>3. k % slotCount = IF k < slotCount THEN k ELSE k - slotCount
      BY <2>2, Around
    <2> QED
      BY <2>1, <2>3 DEF After
  <1> QED
    BY <1>1, <1>2, <1>3

(* One slot on, and back again.                                            *)
LEMMA NextSlot ==
    ASSUME OwningInv, slotCount # 0, NEW s \in OwningSlots
    PROVE  /\ Owning!NextIndex(s) = After(s, 1) /\ After(s, 1) \in OwningSlots
           /\ \A n \in OwningSlots : After(After(s, 1), n) = After(s, n + 1)
           /\ \A n \in OwningSlots : After(After(s, n), 1) = After(s, n + 1)
           /\ (After(s, 1) - 1) % slotCount = s
  <1>1. slotCount \in Nat \ {0} /\ s \in Nat /\ s < slotCount
    BY DEF OwningInv, OwningTypes, OwningSlots
  <1>2. Owning!NextIndex(s) = After(s, 1)
    <2>1. Owning!NextIndex(s) = (s + 1) % slotCount
      BY DEF OwningInv, OwningTypes, Owning!NextIndex
    <2>2. (s + 1) % slotCount = After(s, 1)
      BY <1>1, AfterFacts
    <2> QED
      BY <2>1, <2>2
  <1>3. After(s, 1) \in OwningSlots /\ \A n \in OwningSlots : /\ After(After(s, 1), n) = After(s, n + 1)
                                                               /\ After(After(s, n), 1) = After(s, n + 1)
    BY <1>1 DEF After, OwningSlots
  <1>4. (After(s, 1) - 1) % slotCount = s
    <2>1. CASE s + 1 < slotCount
      <3>1. After(s, 1) - 1 = s
        BY <1>1, <2>1 DEF After
      <3>2. s % slotCount = s
        BY <1>1
      <3> QED
        BY <3>1, <3>2
    <2>2. CASE ~(s + 1 < slotCount)
      <3>1. After(s, 1) - 1 = -1 /\ s = slotCount - 1
        BY <1>1, <2>2 DEF After
      <3>2. (slotCount * (-1) + s) % slotCount = s
        BY <1>1
      <3>3. slotCount * (-1) + s = -1
        BY <1>1, <3>1
      <3> QED
        BY <3>1, <3>2, <3>3
    <2> QED
      BY <2>1, <2>2
  <1> QED
    BY <1>2, <1>3, <1>4
-----------------------------------------------------------------------------
LEMMA OwningInit == Owning!Init => OwningInv
  <1> SUFFICES ASSUME Owning!Init PROVE OwningInv
    OBVIOUS
  <1>1. OwningSlots = {} /\ <<>> \in Seq(Element \cup {Empty}) /\ Len(<<>>) = 0
    BY EmptySeq DEF Owning!Init, OwningSlots
  <1>2. slots \in [OwningSlots -> Element \cup {Empty}]
    BY <1>1 DEF Owning!Init
  <1> QED
    BY <1>1, <1>2 DEF Owning!Init, OwningInv, OwningTypes, OwningBounds, OwningSpan, OwningElements

LEMMA OwningOwner ==
    ASSUME Owning!OwningAssumption, OwningInv, Owning!Owner
    PROVE  OwningInv'
  <1> USE DEF OwningInv, OwningTypes, OwningBounds, OwningSpan, OwningElements
  <1>1. /\ posterAt = "idle" /\ readerAt = "idle" /\ readSlot' = 0 /\ writeSlot' = 0 /\ filled' = 0
        /\ UNCHANGED <<posterAt, posted, readerAt, received>>
    BY DEF Owning!Owner, Owning!Initialise, Owning!Deallocate, Owning!Quiescent
  <1>2. ASSUME NEW request \in OwningRequests, Owning!Initialise(request)
        PROVE  OwningInv'
    <2>0. PICK c : c = Owning!Conditioned(request)
      OBVIOUS
    <2>1. /\ slotCount = 0 /\ slotCount' = c /\ request <= OwningMaxCapacity
          /\ slots' = [i \in 0 .. c - 1 |-> Empty] /\ UNCHANGED resident
      BY <1>2, <2>0 DEF Owning!Initialise, Owning!Ready
    <2>2. c \in Nat /\ \A n \in 0 .. c - 1 : And[<<n + 1, c - 1>>] = (n + 1) % c
      BY <2>0, <2>1 DEF Owning!OwningAssumption
    <2>3. Empty \notin Element /\ OwningLive' = 0 /\ OwningSlots' = 0 .. c - 1
      BY <1>1, <2>1 DEF Owning!OwningAssumption, OwningLive, OwningTaken, OwningPlaced, OwningSlots
    <2>4. \A e \in Element : e \notin resident
      BY <2>1 DEF OwningSlots
    <2>5. OwningTypes' /\ OwningBounds'
      BY <1>1, <2>1, <2>2, <2>3
    <2>6. OwningSpan'
      BY <1>1, <2>1, <2>2, <2>3 DEF After
    <2>7. OwningElements'
      BY <1>1, <2>1, <2>2, <2>3, <2>4
    <2> QED
      BY <2>5, <2>6, <2>7
  <1>3. CASE Owning!Deallocate
    <2>1. slots' = <<>> /\ slotCount' = 0 /\ resident' = {} /\ OwningSlots' = {}
      BY <1>3 DEF Owning!Deallocate, OwningSlots
    <2>2. slots' \in [OwningSlots' -> Element \cup {Empty}]
      BY <2>1
    <2> QED
      BY <1>1, <2>1, <2>2
  <1> QED
    BY <1>2, <1>3 DEF Owning!Owner

LEMMA OwningReady ==
    ASSUME OwningInv
    PROVE  /\ slotCount \in Nat /\ filled \in Nat
           /\ OwningTaken \in Nat /\ OwningPlaced \in Nat /\ OwningTaken <= filled
           /\ OwningLive \in Nat /\ OwningLive <= slotCount
           /\ posterAt # "idle" \/ readerAt # "idle" => slotCount # 0
           /\ slotCount # 0 => readSlot \in OwningSlots /\ writeSlot \in OwningSlots
  BY DEF OwningInv, OwningTypes, OwningBounds, OwningLive, OwningTaken, OwningPlaced, OwningSlots

LEMMA OwningPostCheck ==
    ASSUME OwningInv, NEW e \in Owning!Unowned, Owning!PostCheck(e)
    PROVE  OwningInv'
  <1>1. /\ posterAt = "idle" /\ posterAt' = "move" /\ posted' = e /\ slotCount # 0 /\ filled < slotCount
        /\ UNCHANGED <<slots, slotCount, readSlot, writeSlot, filled, readerAt, received, resident>>
    BY DEF Owning!PostCheck, Owning!Ready, Owning!WritableCount, OwningInv, OwningTypes
  <1>2. e \in Element \ resident
    BY DEF Owning!Unowned
  <1>3. OwningLive' = OwningLive /\ OwningSlots' = OwningSlots
    BY <1>1 DEF OwningLive, OwningTaken, OwningPlaced, OwningSlots
  <1>4. OwningTypes' /\ OwningBounds' /\ OwningElements'
    BY <1>1, <1>2, <1>3 DEF OwningInv, OwningTypes, OwningBounds, OwningElements
  <1>5. OwningSpan'
    BY <1>1, <1>3 DEF OwningInv, OwningSpan, After
  <1> QED
    BY <1>4, <1>5 DEF OwningInv

LEMMA OwningPostMove ==
    ASSUME Empty \notin Element, OwningInv, Owning!PostMove
    PROVE  /\ OwningInv'
           /\ writeSlot \in OwningSlots /\ slots[writeSlot] = Empty
           /\ (writeSlot' - 1) % slotCount = writeSlot
  <1>1. /\ posterAt = "move" /\ posterAt' = "publish" /\ posted' = Empty
        /\ slots' = [slots EXCEPT ![writeSlot] = posted]
        /\ writeSlot' = Owning!NextIndex(writeSlot)
        /\ resident' = resident \cup {posted}
        /\ UNCHANGED <<slotCount, readSlot, filled, readerAt, received>>
    BY DEF Owning!PostMove
  <1>2. /\ slotCount \in Nat \ {0} /\ readSlot \in OwningSlots /\ writeSlot \in OwningSlots
        /\ OwningLive \in Nat /\ OwningPlaced = 0 /\ OwningLive < slotCount
        /\ posted \in Element \ resident
    BY <1>1, OwningReady DEF OwningInv, OwningTypes, OwningBounds, OwningElements, OwningLive, OwningPlaced
  <1>3. /\ OwningLive' = OwningLive + 1 /\ OwningSlots' = OwningSlots /\ OwningLive \in OwningSlots
        /\ \A s, n : After(s, n)' = After(s, n)
    BY <1>1, <1>2, OwningReady DEF OwningLive, OwningTaken, OwningPlaced, OwningSlots, After
  <1>4. /\ writeSlot = After(readSlot, OwningLive) /\ slots[writeSlot] = Empty
        /\ \A n \in OwningSlots : slots[After(readSlot, n)] # Empty <=> n < OwningLive
    BY <1>2, <1>3 DEF OwningInv, OwningSpan
  <1>5. /\ writeSlot' = After(readSlot, OwningLive + 1) /\ writeSlot' \in OwningSlots
        /\ (writeSlot' - 1) % slotCount = writeSlot
    BY <1>1, <1>2, <1>3, <1>4, NextSlot
  <1>6. /\ \A s \in OwningSlots : slots'[s] = IF s = writeSlot THEN posted ELSE slots[s]
        /\ slots' \in [OwningSlots -> Element \cup {Empty}]
    BY <1>1, <1>2 DEF OwningInv, OwningTypes
  <1>7. readSlot \in Nat /\ readSlot < slotCount /\ slotCount \in Nat
    BY <1>2 DEF OwningSlots
  <1>8. OwningTypes' /\ OwningBounds'
    BY <1>1, <1>2, <1>3, <1>5, <1>6 DEF OwningInv, OwningTypes, OwningBounds, OwningSlots
  <1>9. OwningSpan'
    <2>1. /\ OwningLive + 1 < slotCount => writeSlot' = After(readSlot, OwningLive + 1)
          /\ OwningLive + 1 = slotCount => writeSlot' = readSlot
      BY <1>5, <1>7 DEF After
    <2>2. ASSUME NEW n \in OwningSlots
          PROVE  slots'[After(readSlot, n)] # Empty <=> n < OwningLive + 1
      <3>1. After(readSlot, n) \in OwningSlots /\ (After(readSlot, n) = writeSlot <=> n = OwningLive)
        BY <1>3, <1>4, <1>7, AfterFacts
      <3>2. n \in Int /\ OwningLive \in Int
        BY <1>2 DEF OwningSlots
      <3>3. CASE n = OwningLive
        BY <1>2, <1>6, <3>1, <3>2, <3>3
      <3>4. CASE n # OwningLive
        <4>1. slots'[After(readSlot, n)] # Empty <=> n < OwningLive
          BY <1>4, <1>6, <3>1, <3>4
        <4> QED
          BY <3>2, <3>4, <4>1
      <3> QED
        BY <3>3, <3>4
    <2> QED
      BY <1>1, <1>3, <2>1, <2>2 DEF OwningSpan
  <1>10. OwningElements'
    <2>1. ASSUME NEW s \in OwningSlots, NEW t \in OwningSlots, slots'[s] = slots'[t], slots'[s] # Empty
          PROVE  s = t
      <3>1. \A u \in OwningSlots : slots[u] # posted
        BY <1>2 DEF OwningInv, OwningElements
      <3> QED
        BY <1>6, <2>1, <3>1 DEF OwningInv, OwningElements
    <2>2. ASSUME NEW e \in Element
          PROVE  e \in resident' <=> \E s \in OwningSlots : slots'[s] = e
      <3>1. e \in resident <=> \E s \in OwningSlots : slots[s] = e
        BY DEF OwningInv, OwningElements
      <3>2. CASE e = posted
        BY <1>1, <1>2, <1>6, <3>2
      <3>3. CASE e # posted
        <4>1. e \in resident' <=> e \in resident
          BY <1>1, <3>3
        <4>2. \A s \in OwningSlots : slots'[s] = e <=> slots[s] = e
          BY <1>4, <1>6, <3>3
        <4> QED
          BY <3>1, <4>1, <4>2
      <3> QED
        BY <3>2, <3>3
    <2> QED
      BY <1>1, <1>3, <2>1, <2>2 DEF OwningInv, OwningElements
  <1> QED
    BY <1>2, <1>4, <1>5, <1>8, <1>9, <1>10 DEF OwningInv

LEMMA OwningPostPublish ==
    ASSUME OwningInv, Owning!PostPublish
    PROVE  OwningInv'
  <1>1. /\ posterAt = "publish" /\ posterAt' = "idle" /\ filled' = filled + 1
        /\ UNCHANGED <<slots, slotCount, readSlot, writeSlot, posted, readerAt, received, resident>>
    BY DEF Owning!PostPublish
  <1>2. OwningLive' = OwningLive /\ OwningSlots' = OwningSlots /\ filled \in Nat
    BY <1>1, OwningReady DEF OwningLive, OwningTaken, OwningPlaced, OwningSlots
  <1>3. OwningTypes' /\ OwningBounds' /\ OwningElements'
    BY <1>1, <1>2 DEF OwningInv, OwningTypes, OwningBounds, OwningElements
  <1>4. OwningSpan'
    BY <1>1, <1>2 DEF OwningInv, OwningSpan, After
  <1> QED
    BY <1>3, <1>4 DEF OwningInv

LEMMA OwningReadCheck ==
    ASSUME OwningInv, Owning!ReadCheck
    PROVE  OwningInv'
  <1>1. /\ readerAt = "idle" /\ readerAt' = "move" /\ slotCount # 0 /\ filled # 0
        /\ UNCHANGED <<slots, slotCount, readSlot, writeSlot, filled, posterAt, posted, received, resident>>
    BY DEF Owning!ReadCheck, Owning!Ready, Owning!ReadableCount, OwningInv, OwningTypes
  <1>2. OwningLive' = OwningLive /\ OwningSlots' = OwningSlots /\ filled \in Nat
    BY <1>1, OwningReady DEF OwningLive, OwningTaken, OwningPlaced, OwningSlots
  <1>3. OwningTypes' /\ OwningBounds' /\ OwningElements'
    BY <1>1, <1>2 DEF OwningInv, OwningTypes, OwningBounds, OwningElements
  <1>4. OwningSpan'
    BY <1>1, <1>2 DEF OwningInv, OwningSpan, After
  <1> QED
    BY <1>3, <1>4 DEF OwningInv

LEMMA OwningReadMove ==
    ASSUME Empty \notin Element, OwningInv, Owning!ReadMove
    PROVE  /\ OwningInv'
           /\ readSlot \in OwningSlots /\ readSlot' = After(readSlot, 1)
           /\ received' = <<slots[readSlot]>> /\ slots[readSlot] \in Element
  <1>1. /\ readerAt = "move" /\ readerAt' = "release" /\ received' = <<slots[readSlot]>>
        /\ slots' = [slots EXCEPT ![readSlot] = Empty]
        /\ readSlot' = Owning!NextIndex(readSlot)
        /\ resident' = resident \ {slots[readSlot]}
        /\ UNCHANGED <<slotCount, writeSlot, filled, posterAt, posted>>
    BY DEF Owning!ReadMove
  <1>2. /\ slotCount \in Nat \ {0} /\ readSlot \in OwningSlots /\ writeSlot \in OwningSlots
        /\ OwningLive \in Nat /\ OwningTaken = 0 /\ OwningLive >= 1 /\ OwningLive <= slotCount
    BY <1>1, OwningReady DEF OwningInv, OwningTypes, OwningBounds, OwningLive, OwningTaken
  <1>3. /\ OwningLive' = OwningLive - 1 /\ OwningSlots' = OwningSlots /\ 0 \in OwningSlots
        /\ \A s, n : After(s, n)' = IF s' + n' < slotCount THEN s' + n' ELSE s' + n' - slotCount
    BY <1>1, <1>2, OwningReady DEF OwningLive, OwningTaken, OwningPlaced, OwningSlots, After
  <1>4. readSlot \in Nat /\ readSlot < slotCount /\ slotCount \in Nat
    BY <1>2 DEF OwningSlots
  <1>5. /\ \A n \in OwningSlots : slots[After(readSlot, n)] # Empty <=> n < OwningLive
        /\ After(readSlot, 0) = readSlot
    BY <1>2, <1>4, AfterFacts DEF OwningInv, OwningSpan
  <1>6. slots[readSlot] \in Element
    BY <1>2, <1>3, <1>5 DEF OwningInv, OwningTypes
  <1>7. /\ readSlot' = After(readSlot, 1) /\ readSlot' \in OwningSlots
        /\ \A n \in OwningSlots : After(After(readSlot, 1), n) = After(readSlot, n + 1)
    BY <1>1, <1>2, NextSlot
  <1>8. /\ \A s \in OwningSlots : slots'[s] = IF s = readSlot THEN Empty ELSE slots[s]
        /\ slots' \in [OwningSlots -> Element \cup {Empty}]
    BY <1>1, <1>2 DEF OwningInv, OwningTypes
  <1>9. OwningTypes' /\ OwningBounds'
    <2>1. received' \in Seq(Element \cup {Empty})
      BY <1>1, <1>6
    <2> QED
      BY <1>1, <1>2, <1>3, <1>7, <1>8, <2>1 DEF OwningInv, OwningTypes, OwningBounds, OwningSlots
  <1>10. OwningSpan'
    <2>1. /\ OwningLive - 1 < slotCount => writeSlot = After(readSlot', OwningLive - 1)
          /\ OwningLive - 1 # slotCount
      <3>1. OwningLive - 1 \in OwningSlots
        BY <1>2 DEF OwningSlots
      <3>2. After(readSlot', OwningLive - 1) = After(readSlot, OwningLive - 1 + 1) /\ OwningLive - 1 + 1 = OwningLive
        BY <1>2, <1>7, <3>1
      <3>3. OwningLive = slotCount => After(readSlot, OwningLive) = readSlot
        BY <1>4 DEF After
      <3> QED
        BY <1>2, <3>2, <3>3 DEF OwningInv, OwningSpan
    <2>2. ASSUME NEW n \in OwningSlots
          PROVE  slots'[After(readSlot', n)] # Empty <=> n < OwningLive - 1
      <3>1. After(readSlot', n) = After(readSlot, n + 1) /\ n \in Int /\ n < slotCount /\ n >= 0
        BY <1>4, <1>7 DEF OwningSlots
      <3>2. CASE n + 1 \in OwningSlots
        <4>1. After(readSlot, n + 1) \in OwningSlots /\ After(readSlot, n + 1) # readSlot
          BY <1>3, <1>4, <1>5, <3>1, <3>2, AfterFacts
        <4>2. slots'[After(readSlot, n + 1)] # Empty <=> n + 1 < OwningLive
          BY <1>5, <1>8, <3>2, <4>1
        <4> QED
          BY <1>2, <3>1, <4>2
      <3>3. CASE n + 1 \notin OwningSlots
        <4>1. n = slotCount - 1
          BY <3>1, <3>3, <1>4 DEF OwningSlots
        <4>2. After(readSlot, n + 1) = readSlot
          BY <4>1, <1>4 DEF After
        <4>3. slots'[After(readSlot', n)] = Empty
          BY <1>2, <1>8, <3>1, <4>2
        <4> QED
          BY <1>2, <4>1, <4>3
      <3> QED
        BY <3>2, <3>3
    <2>3. \A n \in OwningSlots : After(readSlot, n)' = After(readSlot', n)
      BY <1>1 DEF After
    <2>4. OwningLive' < slotCount' => writeSlot' = After(readSlot, OwningLive)'
      BY <1>1, <1>3, <2>1 DEF After
    <2> QED
      BY <1>1, <1>3, <2>1, <2>2, <2>3, <2>4 DEF OwningSpan
  <1>11. OwningElements'
    <2>1. ASSUME NEW s \in OwningSlots, NEW t \in OwningSlots, slots'[s] = slots'[t], slots'[s] # Empty
          PROVE  s = t
      BY <1>8, <2>1 DEF OwningInv, OwningElements
    <2>2. ASSUME NEW e \in Element
          PROVE  e \in resident' <=> \E s \in OwningSlots : slots'[s] = e
      <3>1. e \in resident <=> \E s \in OwningSlots : slots[s] = e
        BY DEF OwningInv, OwningElements
      <3>2. CASE e = slots[readSlot]
        <4>1. \A s \in OwningSlots : slots[s] = e => s = readSlot
          BY <1>2, <3>2 DEF OwningInv, OwningElements
        <4>2. \A s \in OwningSlots : slots'[s] # e
          BY <1>8, <4>1
        <4> QED
          BY <1>1, <3>2, <4>2
      <3>3. CASE e # slots[readSlot]
        <4>1. e \in resident' <=> e \in resident
          BY <1>1, <3>3
        <4>2. \A s \in OwningSlots : slots'[s] = e <=> slots[s] = e
          BY <1>2, <1>8, <3>3
        <4> QED
          BY <3>1, <4>1, <4>2
      <3> QED
        BY <3>2, <3>3
    <2>3. \A k \in DOMAIN received' : received'[k] # Empty
      BY <1>1, <1>6
    <2>4. IF posterAt' = "move" THEN posted' \in Element \ resident' ELSE posted' = Empty
      BY <1>1 DEF OwningInv, OwningElements
    <2> QED
      BY <1>1, <1>3, <2>1, <2>2, <2>3, <2>4 DEF OwningElements
  <1> QED
    BY <1>1, <1>2, <1>6, <1>7, <1>9, <1>10, <1>11 DEF OwningInv

LEMMA OwningReadRelease ==
    ASSUME OwningInv, Owning!ReadRelease
    PROVE  OwningInv'
  <1>1. /\ readerAt = "release" /\ readerAt' = "idle" /\ filled' = filled - 1
        /\ UNCHANGED <<slots, slotCount, readSlot, writeSlot, posterAt, posted, received, resident>>
    BY DEF Owning!ReadRelease
  <1>2. OwningLive' = OwningLive /\ OwningSlots' = OwningSlots /\ filled \in Nat /\ filled >= 1
    BY <1>1, OwningReady DEF OwningInv, OwningBounds, OwningLive, OwningTaken, OwningPlaced, OwningSlots
  <1>3. OwningTypes' /\ OwningBounds' /\ OwningElements'
    BY <1>1, <1>2 DEF OwningInv, OwningTypes, OwningBounds, OwningElements
  <1>4. OwningSpan'
    BY <1>1, <1>2 DEF OwningInv, OwningSpan, After
  <1> QED
    BY <1>3, <1>4 DEF OwningInv

LEMMA OwningSame ==
    ASSUME OwningInv, UNCHANGED owningVars
    PROVE  OwningInv'
  <1> USE DEF owningVars
  <1>1. OwningLive' = OwningLive /\ OwningSlots' = OwningSlots
    BY DEF OwningLive, OwningTaken, OwningPlaced, OwningSlots
  <1>2. OwningTypes' /\ OwningBounds' /\ OwningElements'
    BY <1>1 DEF OwningInv, OwningTypes, OwningBounds, OwningElements
  <1>3. OwningSpan'
    BY <1>1 DEF OwningInv, OwningSpan, After
  <1> QED
    BY <1>2, <1>3 DEF OwningInv

(* OwningInv is inductive.                                                 *)
LEMMA OwningStep ==
    ASSUME Owning!OwningAssumption, OwningInv, Owning!Next \/ UNCHANGED owningVars
    PROVE  OwningInv'
  <1>1. Empty \notin Element
    BY DEF Owning!OwningAssumption
  <1> QED
    BY <1>1, OwningOwner, OwningPostCheck, OwningPostMove, OwningPostPublish,
       OwningReadCheck, OwningReadMove, OwningReadRelease, OwningSame
       DEF Owning!Next, Owning!Producer, Owning!Consumer

LEMMA OwningIsSafe ==
    ASSUME OwningInv, Empty \notin Element
    PROVE  Owning!TypeOK /\ Owning!UnreadAreOwned /\ Owning!ReadsGiveElements
  BY DEF OwningInv, OwningTypes, OwningElements, OwningSlots, Owning!TypeOK, Owning!Slots,
         Owning!UnreadAreOwned, Owning!ReadsGiveElements
-----------------------------------------------------------------------------
(***************************************************************************)
(* TOwning is a bounded FIFO.                                              *)
(***************************************************************************)
LEMMA OwningContents ==
    ASSUME OwningInv
    PROVE  /\ filled - OwningTaken \in Nat /\ filled - OwningTaken <= slotCount
           /\ filled - OwningTaken + OwningPlaced <= slotCount
           /\ Owning!Contents \in Seq(Element \cup {Empty})
           /\ Len(Owning!Contents) = filled - OwningTaken
           /\ \A k \in 1 .. filled - OwningTaken :
                 /\ k - 1 \in OwningSlots
                 /\ Owning!Contents[k] = slots[After(readSlot, k - 1)]
  <1>1. PICK n : n = filled - OwningTaken
    OBVIOUS
  <1>2. n \in Nat /\ n <= slotCount /\ slotCount \in Nat /\ n + OwningPlaced <= slotCount
    BY <1>1, OwningReady DEF OwningInv, OwningTypes, OwningBounds, OwningLive
  <1>3. Owning!Contents = [k \in 1 .. n |-> slots[(readSlot + k - 1) % slotCount]]
    BY <1>1 DEF Owning!Contents, OwningTaken
  <1>4. ASSUME NEW k \in 1 .. n
        PROVE  /\ k - 1 \in OwningSlots
               /\ (readSlot + k - 1) % slotCount = After(readSlot, k - 1)
               /\ slots[After(readSlot, k - 1)] \in Element \cup {Empty}
    <2>0. PICK j : j = k - 1
      OBVIOUS
    <2>1. j \in OwningSlots /\ j \in 0 .. slotCount /\ slotCount # 0 /\ k \in Int
      BY <1>2, <2>0 DEF OwningSlots
    <2>2. readSlot \in Nat /\ readSlot < slotCount
      BY <2>1 DEF OwningInv, OwningTypes, OwningBounds
    <2>3. (readSlot + j) % slotCount = After(readSlot, j) /\ After(readSlot, j) \in OwningSlots
      BY <1>2, <2>1, <2>2, AfterFacts
    <2>4. readSlot + k - 1 = readSlot + j
      BY <2>0, <2>1, <2>2
    <2> QED
      BY <2>0, <2>1, <2>3, <2>4 DEF OwningInv, OwningTypes
  <1>5. Owning!Contents \in [1 .. n -> Element \cup {Empty}]
    BY <1>3, <1>4
  <1> QED
    BY <1>1, <1>2, <1>3, <1>4, <1>5

LEMMA OwningContentsNext == (OwningInv => /\ filled - OwningTaken \in Nat
                                          /\ Owning!Contents \in Seq(Element \cup {Empty})
                                          /\ Len(Owning!Contents) = filled - OwningTaken
                                          /\ \A k \in 1 .. filled - OwningTaken :
                                                Owning!Contents[k] = slots[After(readSlot, k - 1)])'
  <1>1. OwningInv => /\ filled - OwningTaken \in Nat
                     /\ Owning!Contents \in Seq(Element \cup {Empty})
                     /\ Len(Owning!Contents) = filled - OwningTaken
                     /\ \A k \in 1 .. filled - OwningTaken :
                           Owning!Contents[k] = slots[After(readSlot, k - 1)]
    BY OwningContents
  <1> QED
    BY <1>1, PTL

(* What is in the ring depends on its span and on the slots of the span.   *)
LEMMA OwningFrame ==
    ASSUME OwningInv, OwningInv', slotCount' = slotCount, readSlot' = readSlot,
           filled' - OwningTaken' = filled - OwningTaken,
           \A n \in OwningSlots : n < filled - OwningTaken =>
              slots'[After(readSlot, n)] = slots[After(readSlot, n)]
    PROVE  Owning!Contents' = Owning!Contents
  <1>1. PICK n : n = filled - OwningTaken
    OBVIOUS
  <1>2. /\ n \in Nat
        /\ Owning!Contents \in Seq(Element \cup {Empty}) /\ Len(Owning!Contents) = n
        /\ \A k \in 1 .. n : k - 1 \in OwningSlots /\ Owning!Contents[k] = slots[After(readSlot, k - 1)]
    BY <1>1, OwningContents
  <1>3. /\ Owning!Contents' \in Seq(Element \cup {Empty}) /\ Len(Owning!Contents') = n
        /\ \A k \in 1 .. n : Owning!Contents'[k] = slots'[After(readSlot, k - 1)]
    BY <1>1, OwningContentsNext DEF After
  <1>4. \A k \in 1 .. n : Owning!Contents'[k] = Owning!Contents[k]
    BY <1>1, <1>2, <1>3
  <1> QED
    BY <1>2, <1>3, <1>4, SeqEqual

LEMMA OwningSends ==
    ASSUME Empty \notin Element, OwningInv, Owning!PostPublish
    PROVE  Owning!Fifo!Send
  <1>0. OwningInv'
    BY OwningPostPublish
  <1>1. /\ posterAt = "publish" /\ posterAt' = "idle" /\ filled' = filled + 1
        /\ UNCHANGED <<slots, slotCount, readSlot, writeSlot, posted, readerAt, received, resident>>
    BY DEF Owning!PostPublish
  <1>2. PICK n : n = filled - OwningTaken
    OBVIOUS
  <1>3. /\ n \in Nat /\ n + 1 <= slotCount /\ filled' - OwningTaken' = n + 1 /\ slotCount \in Nat
        /\ OwningLive = n + 1 /\ slotCount # 0 /\ filled \in Nat
    BY <1>1, <1>2, OwningReady, OwningContents DEF OwningTaken, OwningPlaced, OwningLive
  <1>4. PICK x : x = slots[After(readSlot, n)]
    OBVIOUS
  <1>5. Owning!Offered = <<x>> /\ x \in Element \cup {Empty}
    <2>1. n \in OwningSlots /\ readSlot \in OwningSlots /\ readSlot \in Nat /\ readSlot < slotCount
      BY <1>3, OwningReady DEF OwningSlots
    <2>2. writeSlot = After(readSlot, n + 1)
      BY <1>3, <2>1 DEF OwningInv, OwningSpan, After
    <2>3. After(readSlot, n) \in OwningSlots /\ After(After(readSlot, n), 1) = After(readSlot, n + 1)
      BY <1>3, <2>1, NextSlot, AfterFacts
    <2>4. (writeSlot - 1) % slotCount = After(readSlot, n)
      BY <1>3, <2>2, <2>3, NextSlot
    <2> QED
      BY <1>1, <1>4, <2>3, <2>4 DEF Owning!Offered, OwningInv, OwningTypes
  <1>6. /\ Owning!Contents \in Seq(Element \cup {Empty}) /\ Len(Owning!Contents) = n
        /\ \A k \in 1 .. n : Owning!Contents[k] = slots[After(readSlot, k - 1)]
    BY <1>2, OwningContents
  <1>7. /\ Owning!Contents' \in Seq(Element \cup {Empty}) /\ Len(Owning!Contents') = n + 1
        /\ \A k \in 1 .. n + 1 : Owning!Contents'[k] = slots[After(readSlot, k - 1)]
    BY <1>0, <1>1, <1>3, OwningContentsNext DEF After
  <1>8. Owning!Contents' = Owning!Contents \o <<x>>
    <2>0. PICK whole : whole = Owning!Contents \o <<x>>
      OBVIOUS
    <2>1. <<x>> \in Seq(Element \cup {Empty}) /\ Len(<<x>>) = 1 /\ <<x>>[1] = x
      BY <1>5
    <2>2. /\ whole \in Seq(Element \cup {Empty}) /\ Len(whole) = n + 1
          /\ \A k \in 1 .. n + 1 : whole[k] = IF k <= n THEN Owning!Contents[k] ELSE <<x>>[k - n]
      BY <1>6, <2>0, <2>1, ConcatProperties
    <2>3. ASSUME NEW k \in 1 .. n + 1
          PROVE  Owning!Contents'[k] = whole[k]
      <3>1. CASE k <= n
        <4>1. k \in 1 .. n
          BY <1>3, <3>1
        <4> QED
          BY <1>6, <1>7, <2>2, <3>1, <4>1
      <3>2. CASE ~(k <= n)
        <4>1. k = n + 1 /\ k - n = 1 /\ k - 1 = n
          BY <1>3, <3>2
        <4> QED
          BY <1>4, <1>7, <2>1, <2>2, <3>2, <4>1
      <3> QED
        BY <3>1, <3>2
    <2> QED
      BY <1>7, <2>0, <2>2, <2>3, SeqEqual
  <1>9. Owning!Offered' = <<>>
    BY <1>1 DEF Owning!Offered
  <1> QED
    BY <1>1, <1>3, <1>5, <1>7, <1>8, <1>9 DEF Owning!Fifo!Send

LEMMA OwningReceives ==
    ASSUME Empty \notin Element, OwningInv, Owning!ReadMove
    PROVE  Owning!Fifo!Receive
  <1>0. /\ OwningInv'
        /\ readSlot \in OwningSlots /\ readSlot' = After(readSlot, 1)
        /\ received' = <<slots[readSlot]>> /\ slots[readSlot] \in Element
    BY OwningReadMove
  <1>1. /\ readerAt = "move" /\ readerAt' = "release"
        /\ slots' = [slots EXCEPT ![readSlot] = Empty]
        /\ UNCHANGED <<slotCount, writeSlot, filled, posterAt, posted>>
    BY DEF Owning!ReadMove
  <1>2. PICK n : n = filled
    OBVIOUS
  <1>3. /\ n \in Nat /\ n >= 1 /\ n + OwningPlaced <= slotCount /\ slotCount \in Nat /\ slotCount # 0
        /\ filled - OwningTaken = n /\ filled' - OwningTaken' = n - 1 /\ n - 1 \in Nat
        /\ OwningLive = n + OwningPlaced /\ OwningPlaced \in Nat
    <2>1. OwningTaken = 0 /\ OwningTaken' = 1
      BY <1>1 DEF OwningTaken
    <2> QED
      BY <1>1, <1>2, <2>1, OwningReady, OwningContents DEF OwningInv, OwningBounds, OwningLive
  <1>4. readSlot \in Nat /\ readSlot < slotCount
    BY <1>0, <1>3 DEF OwningSlots
  <1>5. /\ Owning!Contents \in Seq(Element \cup {Empty}) /\ Len(Owning!Contents) = n
        /\ \A k \in 1 .. n : k - 1 \in OwningSlots /\ Owning!Contents[k] = slots[After(readSlot, k - 1)]
    BY <1>3, OwningContents
  <1>6. /\ Owning!Contents' \in Seq(Element \cup {Empty}) /\ Len(Owning!Contents') = n - 1
        /\ \A k \in 1 .. n - 1 : Owning!Contents'[k] = slots'[After(readSlot', k - 1)]
    BY <1>0, <1>1, <1>3, OwningContentsNext DEF After
  <1>7. ASSUME NEW k \in 1 .. n - 1
        PROVE  Owning!Contents'[k] = Owning!Contents[k + 1]
    <2>1. k - 1 \in OwningSlots /\ k \in OwningSlots /\ k \in Int /\ k # 0 /\ k - 1 + 1 = k
          /\ k + 1 \in 1 .. n /\ k + 1 - 1 = k /\ 0 \in OwningSlots
      BY <1>3 DEF OwningSlots
    <2>2. After(readSlot', k - 1) = After(readSlot, k)
      BY <1>0, <1>3, <2>1, NextSlot
    <2>3. After(readSlot, k) # readSlot /\ After(readSlot, k) \in OwningSlots
      BY <1>3, <1>4, <2>1 DEF After, OwningSlots
    <2>4. slots'[After(readSlot, k)] = slots[After(readSlot, k)]
      BY <1>1, <2>3 DEF OwningInv, OwningTypes
    <2> QED
      BY <1>5, <1>6, <2>1, <2>2, <2>4
  <1>8. Owning!Contents = received' \o Owning!Contents'
    <2>0. PICK whole : whole = received' \o Owning!Contents'
      OBVIOUS
    <2>1. received' \in Seq(Element \cup {Empty}) /\ Len(received') = 1 /\ received'[1] = slots[readSlot]
      BY <1>0
    <2>2. /\ whole \in Seq(Element \cup {Empty}) /\ Len(whole) = n
          /\ \A k \in 1 .. n : whole[k] = IF k <= 1 THEN received'[k] ELSE Owning!Contents'[k - 1]
      <3>1. /\ whole \in Seq(Element \cup {Empty}) /\ Len(whole) = Len(received') + Len(Owning!Contents')
            /\ \A k \in 1 .. Len(received') + Len(Owning!Contents') :
                  whole[k] = IF k <= Len(received') THEN received'[k] ELSE Owning!Contents'[k - Len(received')]
        BY <1>6, <2>0, <2>1, ConcatProperties
      <3>2. Len(received') + Len(Owning!Contents') = n
        BY <1>3, <1>6, <2>1
      <3> QED
        BY <2>1, <3>1, <3>2
    <2>3. ASSUME NEW k \in 1 .. n
          PROVE  Owning!Contents[k] = whole[k]
      <3>1. CASE k = 1
        <4>1. After(readSlot, k - 1) = readSlot
          BY <1>3, <1>4, <3>1, AfterFacts
        <4> QED
          BY <1>5, <2>1, <2>2, <3>1, <4>1
      <3>2. CASE k # 1
        <4>1. k - 1 \in 1 .. n - 1 /\ k - 1 + 1 = k /\ ~(k <= 1)
          BY <1>3, <3>2
        <4> QED
          BY <1>7, <2>2, <4>1
      <3> QED
        BY <3>1, <3>2
    <2> QED
      BY <1>5, <2>0, <2>2, <2>3, SeqEqual
  <1>9. received' # <<>>
    BY <1>0
  <1>10. Owning!Offered' = Owning!Offered
    <2>1. CASE posterAt = "publish"
      <3>1. n \in OwningSlots /\ n # 0 /\ OwningLive = n + 1 /\ 0 \in OwningSlots
        BY <1>3, <2>1 DEF OwningPlaced, OwningSlots
      <3>2. writeSlot = After(readSlot, n + 1)
        BY <1>3, <1>4, <3>1 DEF OwningInv, OwningSpan, OwningSlots, After
      <3>3. After(readSlot, n) \in OwningSlots /\ After(After(readSlot, n), 1) = After(readSlot, n + 1)
            /\ After(readSlot, n) # readSlot
        BY <1>0, <1>3, <1>4, <3>1, NextSlot, AfterFacts
      <3>4. (writeSlot - 1) % slotCount = After(readSlot, n)
        BY <1>3, <3>2, <3>3, NextSlot
      <3>5. slots'[After(readSlot, n)] = slots[After(readSlot, n)]
        BY <1>1, <3>3 DEF OwningInv, OwningTypes
      <3> QED
        BY <1>1, <2>1, <3>4, <3>5 DEF Owning!Offered
    <2>2. CASE posterAt # "publish"
      BY <1>1, <2>2 DEF Owning!Offered, OwningInv, OwningTypes
    <2> QED
      BY <2>1, <2>2
  <1> QED
    BY <1>1, <1>8, <1>9, <1>10 DEF Owning!Fifo!Receive

(* Every step of TOwning is a step of the bounded FIFO, or none.           *)
LEMMA OwningFifoStep ==
    ASSUME Owning!OwningAssumption, OwningInv, Owning!Next \/ UNCHANGED owningVars
    PROVE  [Owning!Fifo!Next]_(Owning!Fifo!vars)
  <1>0. Empty \notin Element /\ OwningInv'
    BY OwningStep DEF Owning!OwningAssumption
  <1> USE DEF Owning!Fifo!Next, Owning!Fifo!vars
  <1>1. CASE Owning!Owner
    <2>1. /\ filled' = 0 /\ OwningTaken' = 0 /\ received' = received
          /\ posterAt = "idle" /\ posterAt' = "idle"
      BY <1>1 DEF Owning!Owner, Owning!Initialise, Owning!Deallocate, Owning!Quiescent, OwningTaken
    <2>2. slotCount' \in Nat /\ (slotCount # 0 => slotCount' = 0)
      BY <1>0, <1>1 DEF Owning!Owner, Owning!Initialise, Owning!Deallocate, Owning!Ready, OwningInv, OwningTypes
    <2>3. Len(Owning!Contents') = 0 /\ Owning!Contents' \in Seq(Element \cup {Empty})
      BY <1>0, <2>1, OwningContentsNext
    <2>4. Owning!Contents' = <<>>
      BY <2>3, EmptySeq
    <2>5. Owning!Offered = <<>> /\ Owning!Offered' = <<>>
      BY <2>1 DEF Owning!Offered
    <2> QED
      BY <2>1, <2>2, <2>4, <2>5 DEF Owning!Fifo!Reset
  <1>2. CASE \E e \in Owning!Unowned : Owning!PostCheck(e)
    <2>1. /\ posterAt = "idle"
          /\ UNCHANGED <<slots, slotCount, readSlot, writeSlot, filled, readerAt, received, resident>>
      BY <1>2 DEF Owning!PostCheck
    <2>2. Owning!Offered = <<>>
      BY <2>1 DEF Owning!Offered
    <2>3. Owning!Contents' = Owning!Contents
      BY <2>1 DEF Owning!Contents
    <2> QED
      BY <2>1, <2>2, <2>3 DEF Owning!Fifo!Offer
  <1>3. CASE Owning!PostMove
    <2>1. /\ posterAt = "move" /\ posterAt' = "publish"
          /\ slots' = [slots EXCEPT ![writeSlot] = posted]
          /\ UNCHANGED <<slotCount, readSlot, filled, readerAt, received>>
      BY <1>3 DEF Owning!PostMove
    <2>2. writeSlot \in OwningSlots /\ slots[writeSlot] = Empty /\ (writeSlot' - 1) % slotCount = writeSlot
      BY <1>0, <1>3, OwningPostMove
    <2>3. Owning!Offered = <<posted>> /\ Owning!Offered' = <<posted>>
      BY <2>1, <2>2 DEF Owning!Offered, OwningInv, OwningTypes
    <2>4. Owning!Contents' = Owning!Contents
      <3>1. /\ OwningTaken' = OwningTaken /\ OwningLive = filled - OwningTaken
            /\ OwningLive \in Nat /\ OwningLive <= slotCount /\ slotCount \in Nat /\ slotCount # 0
            /\ readSlot \in Nat /\ readSlot < slotCount
        BY <2>1, OwningReady DEF OwningTaken, OwningLive, OwningPlaced, OwningInv, OwningTypes, OwningBounds
      <3>2. ASSUME NEW n \in OwningSlots, n < filled - OwningTaken
            PROVE  slots'[After(readSlot, n)] = slots[After(readSlot, n)]
        <4>1. After(readSlot, n) \in OwningSlots /\ slots[After(readSlot, n)] # Empty
          BY <3>1, <3>2, AfterFacts DEF OwningInv, OwningSpan
        <4> QED
          BY <2>1, <2>2, <4>1 DEF OwningInv, OwningTypes
      <3> QED
        BY <1>0, <2>1, <3>1, <3>2, OwningFrame
    <2> QED
      BY <2>1, <2>3, <2>4
  <1>4. CASE Owning!PostPublish
    BY <1>0, <1>4, OwningSends
  <1>5. CASE Owning!ReadCheck
    <2>1. /\ readerAt = "idle" /\ readerAt' = "move"
          /\ UNCHANGED <<slots, slotCount, readSlot, writeSlot, filled, posterAt, posted, received, resident>>
      BY <1>5 DEF Owning!ReadCheck
    <2>2. OwningTaken = 0 /\ OwningTaken' = 0
      BY <2>1 DEF OwningTaken
    <2> QED
      BY <2>1, <2>2 DEF Owning!Contents, Owning!Offered
  <1>6. CASE Owning!ReadMove
    BY <1>0, <1>6, OwningReceives
  <1>7. CASE Owning!ReadRelease
    <2>1. /\ readerAt = "release" /\ readerAt' = "idle" /\ filled' = filled - 1
          /\ UNCHANGED <<slots, slotCount, readSlot, writeSlot, posterAt, posted, received, resident>>
      BY <1>7 DEF Owning!ReadRelease
    <2>2. filled' - OwningTaken' = filled - OwningTaken
      BY <2>1, OwningReady DEF OwningTaken
    <2>3. Owning!Offered' = Owning!Offered
      BY <2>1 DEF Owning!Offered
    <2> QED
      BY <1>0, <2>1, <2>2, <2>3, OwningFrame
  <1>8. CASE UNCHANGED owningVars
    BY <1>8 DEF owningVars, Owning!Contents, Owning!Offered
  <1> QED
    BY <1>1, <1>2, <1>3, <1>4, <1>5, <1>6, <1>7, <1>8 DEF Owning!Next, Owning!Producer, Owning!Consumer

LEMMA OwningFifoInit == Owning!Init => Owning!Fifo!Init
  <1> SUFFICES ASSUME Owning!Init PROVE Owning!Fifo!Init
    OBVIOUS
  <1>1. OwningInv
    BY OwningInit
  <1>2. filled - OwningTaken = 0
    BY DEF Owning!Init, OwningTaken
  <1>3. Owning!Contents = <<>>
    BY <1>1, <1>2, OwningContents, EmptySeq
  <1> QED
    BY <1>3 DEF Owning!Init, Owning!Fifo!Init, Owning!Offered
-----------------------------------------------------------------------------
(***************************************************************************)
(* TBulk.  The invariant: the producer's payload is not the staged one,    *)
(* which is complete for as long as it may be acquired; and versions grow  *)
(* from the one acquired to the one published, and to the one being made.  *)
(* Nothing is said of the locked payload, which publish() gives back to    *)
(* the producer: the run bulk_held shows the consumer holding one that the *)
(* producer changes.                                                       *)
(***************************************************************************)
BulkInv ==
    /\ Bulk!TypeOK
    /\ output # staged
    /\ word \in {0, 4, staged + 1}
    /\ word \notin {0, 4} => /\ data[staged] = [version |-> published, complete |-> TRUE]
                             /\ acquired < published
    /\ acquired <= published
    /\ mutating => /\ published < MaxVersion
                   /\ data[output] = [version |-> published + 1, complete |-> FALSE]

LEMMA BulkInit == MaxVersion \in Nat /\ Bulk!Init => BulkInv
  <1> SUFFICES ASSUME MaxVersion \in Nat, Bulk!Init PROVE BulkInv
    OBVIOUS
  <1>1. ~mutating /\ word = 4 /\ acquired <= published
    BY DEF Bulk!Init, Bulk!NullWord
  <1>2. [version |-> 0, complete |-> TRUE] \in Bulk!Payload /\ 0 \in 0 .. MaxVersion
    BY DEF Bulk!Payload
  <1>3. Bulk!TypeOK
    <2>1. data \in [Bulk!Index -> Bulk!Payload]
      BY <1>2 DEF Bulk!Init
    <2>2. /\ output = 0 /\ staged = 1 /\ locked = 2 /\ held = 3 /\ word = 4
          /\ mutating = FALSE /\ published = 0 /\ acquired = 0
      BY DEF Bulk!Init, Bulk!NullIndex, Bulk!NullWord
    <2>3. /\ output \in 0 .. 2 /\ staged \in 0 .. 2 /\ locked \in 0 .. 2 /\ held \in 0 .. 2 \cup {3}
          /\ word \in 0 .. 4 /\ published \in 0 .. MaxVersion /\ acquired \in 0 .. MaxVersion
      BY <2>2
    <2> QED
      BY <2>1, <2>2, <2>3 DEF Bulk!TypeOK, Bulk!Index, Bulk!NullIndex, Bulk!NullWord
  <1> QED
    BY <1>1, <1>3 DEF Bulk!Init, BulkInv, Bulk!NullWord

LEMMA BulkStep ==
    ASSUME MaxVersion \in Nat, BulkInv, Bulk!Next \/ UNCHANGED bulkVars
    PROVE  BulkInv'
  <1> USE DEF BulkInv, Bulk!TypeOK, Bulk!Index, Bulk!Payload, Bulk!NullIndex, Bulk!NullWord
  <1>1. CASE Bulk!Mutate
    BY <1>1 DEF Bulk!Mutate
  <1>2. CASE Bulk!Publish
    <2>1. PICK new : new = [version |-> published + 1, complete |-> TRUE]
      OBVIOUS
    <2>2. /\ mutating /\ mutating' = FALSE /\ published' = data[output].version
          /\ data' = [data EXCEPT ![output] = [version |-> data[output].version, complete |-> TRUE]]
          /\ word' = output + 1 /\ staged' = output /\ output' = staged
          /\ locked' = IF word = 0 THEN staged ELSE locked
          /\ UNCHANGED <<held, acquired>>
      BY <1>2, Zenon DEF Bulk!Publish, Bulk!StagedWord
    <2>3. data[output] = [version |-> published + 1, complete |-> FALSE] /\ published < MaxVersion
      BY <2>2, Zenon
    <2>4. published' = published + 1 /\ data' = [data EXCEPT ![output] = new]
      BY <2>1, <2>2, <2>3
    <2>5. new \in [version : 0 .. MaxVersion, complete : BOOLEAN]
      BY <2>1, <2>3
    <2>7. data' \in [0 .. 2 -> [version : 0 .. MaxVersion, complete : BOOLEAN]] /\ data'[output] = new
      BY <2>4, <2>5
    <2>6. mutating' \in BOOLEAN
      BY <2>2, Zenon
    <2>8. Bulk!TypeOK'
      BY <2>2, <2>3, <2>4, <2>6, <2>7
    <2>9. published' = published + 1 /\ acquired' = acquired /\ acquired < published'
      BY <2>2, <2>4
    <2> QED
      BY <2>1, <2>2, <2>7, <2>8, <2>9
  <1>3. CASE Bulk!DiscardAndAcquire
    BY <1>3 DEF Bulk!DiscardAndAcquire, Bulk!IdOf
  <1>4. CASE UNCHANGED bulkVars
    BY <1>4 DEF bulkVars
  <1> QED
    BY <1>1, <1>2, <1>3, <1>4 DEF Bulk!Next

LEMMA BulkIsSafe ==
    ASSUME MaxVersion \in Nat, BulkInv
    PROVE  Bulk!TypeOK /\ Bulk!StagedIsLatest
  BY DEF BulkInv, Bulk!TypeOK, Bulk!StagedIsLatest, Bulk!IdOf, Bulk!Index, Bulk!NullWord

(* An acquisition that finds something finds what is later.                *)
LEMMA BulkAdvances ==
    ASSUME MaxVersion \in Nat, BulkInv, Bulk!DiscardAndAcquire, Bulk!IdOf(word) # 0
    PROVE  acquired' > acquired
  BY DEF BulkInv, Bulk!TypeOK, Bulk!DiscardAndAcquire, Bulk!IdOf, Bulk!Index, Bulk!NullWord
-----------------------------------------------------------------------------
(***************************************************************************)
(* The index ring and the arena.  What IndexRingProofs and ArenaProofs     *)
(* show of their modules holds of the instances in MCTransports, whose     *)
(* definitions are the same ones.                                          *)
(***************************************************************************)
RingParts == INSTANCE IndexRingProofs WITH Thread <- RingThreads, Payload <- RingPayloads, at <- ringAt
ArenaParts == INSTANCE ArenaProofs WITH Producer <- Producers, Consumer <- Consumers

LEMMA SameRingAssumption == IndexRing!RingAssumption <=> RingParts!RingAssumption
  BY DEF IndexRing!RingAssumption, RingParts!RingAssumption, IndexRing!IsPowerOfTwo,
         RingParts!IsPowerOfTwo

LEMMA SameRingInit == IndexRing!Init <=> RingParts!Init
  BY DEF IndexRing!Init, RingParts!Init, IndexRing!Slots, RingParts!Slots, IndexRing!Wrap,
         RingParts!Wrap

LEMMA SameRingNext == IndexRing!Next <=> RingParts!Next
  BY DEF IndexRing!Next, RingParts!Next, IndexRing!PushBegin, RingParts!PushBegin,
         IndexRing!PushLoad, RingParts!PushLoad, IndexRing!PushTest, RingParts!PushTest,
         IndexRing!Difference, RingParts!Difference, IndexRing!Wrap, RingParts!Wrap,
         IndexRing!SlotOf, RingParts!SlotOf, IndexRing!Proceed, RingParts!Proceed, IndexRing!Return,
         RingParts!Return, IndexRing!PushClaim, RingParts!PushClaim, IndexRing!PushFill,
         RingParts!PushFill, IndexRing!PopBegin, RingParts!PopBegin, IndexRing!PopLoad,
         RingParts!PopLoad, IndexRing!PopTest, RingParts!PopTest, IndexRing!PopClaim,
         RingParts!PopClaim, IndexRing!PopEmpty, RingParts!PopEmpty

LEMMA SameRingTypeOK == IndexRing!TypeOK <=> RingParts!TypeOK
  BY DEF IndexRing!TypeOK, RingParts!TypeOK, IndexRing!Slots, RingParts!Slots, IndexRing!Word,
         RingParts!Word

LEMMA SameRingSlots == IndexRing!SlotsAreExclusive <=> RingParts!SlotsAreExclusive
  BY DEF IndexRing!SlotsAreExclusive, RingParts!SlotsAreExclusive, IndexRing!SlotOf, RingParts!SlotOf

LEMMA SameRingPositions == IndexRing!PositionsValid <=> RingParts!PositionsValid
  BY DEF IndexRing!PositionsValid, RingParts!PositionsValid, IndexRing!ReadableCount,
         RingParts!ReadableCount, IndexRing!Wrap, RingParts!Wrap

LEMMA SameRingRingInit == IndexRing!Ring!Init <=> RingParts!Ring!Init
  BY DEF IndexRing!Ring!Init, RingParts!Ring!Init, IndexRing!Size, RingParts!Size, IndexRing!Wrap,
         RingParts!Wrap, IndexRing!Word, RingParts!Word, IndexRing!Emptying, RingParts!Emptying,
         IndexRing!Cell, RingParts!Cell, IndexRing!Filling, RingParts!Filling, IndexRing!SlotOf,
         RingParts!SlotOf, IndexRing!ReadableCount, RingParts!ReadableCount

LEMMA SameRingRingNext == IndexRing!Ring!Next <=> RingParts!Ring!Next
  BY DEF IndexRing!Ring!Next, RingParts!Ring!Next, IndexRing!Ring!ClaimPush,
         RingParts!Ring!ClaimPush, IndexRing!Ring!CanPush, RingParts!Ring!CanPush,
         IndexRing!Ring!ClaimPop, RingParts!Ring!ClaimPop, IndexRing!Ring!CanPop,
         RingParts!Ring!CanPop, IndexRing!Ring!Waiting, RingParts!Ring!Waiting,
         IndexRing!Ring!InState, RingParts!Ring!InState, IndexRing!Ring!Min, RingParts!Ring!Min,
         IndexRing!Ring!WithState, RingParts!Ring!WithState, IndexRing!Ring!Front,
         RingParts!Ring!Front, IndexRing!Ring!CompletePush, RingParts!Ring!CompletePush,
         IndexRing!Ring!CompletePop, RingParts!Ring!CompletePop, IndexRing!Size, RingParts!Size,
         IndexRing!Wrap, RingParts!Wrap, IndexRing!Word, RingParts!Word, IndexRing!Emptying,
         RingParts!Emptying, IndexRing!Cell, RingParts!Cell, IndexRing!Filling, RingParts!Filling,
         IndexRing!SlotOf, RingParts!SlotOf, IndexRing!ReadableCount, RingParts!ReadableCount

LEMMA SameRingCanPush == IndexRing!Ring!CanPush <=> RingParts!Ring!CanPush
  BY DEF IndexRing!Ring!CanPush, RingParts!Ring!CanPush, IndexRing!Size, RingParts!Size,
         IndexRing!Wrap, RingParts!Wrap, IndexRing!Word, RingParts!Word, IndexRing!Emptying,
         RingParts!Emptying, IndexRing!Cell, RingParts!Cell, IndexRing!Filling, RingParts!Filling,
         IndexRing!SlotOf, RingParts!SlotOf, IndexRing!ReadableCount, RingParts!ReadableCount

LEMMA SameRingCanPop == IndexRing!Ring!CanPop <=> RingParts!Ring!CanPop
  BY DEF IndexRing!Ring!CanPop, RingParts!Ring!CanPop, IndexRing!Ring!Waiting,
         RingParts!Ring!Waiting, IndexRing!Ring!InState, RingParts!Ring!InState, IndexRing!Ring!Min,
         RingParts!Ring!Min, IndexRing!Size, RingParts!Size, IndexRing!Wrap, RingParts!Wrap,
         IndexRing!Word, RingParts!Word, IndexRing!Emptying, RingParts!Emptying, IndexRing!Cell,
         RingParts!Cell, IndexRing!Filling, RingParts!Filling, IndexRing!SlotOf, RingParts!SlotOf,
         IndexRing!ReadableCount, RingParts!ReadableCount

LEMMA SameRingCells ==
    /\ [k \in 1 .. IndexRing!Size |-> IndexRing!Cell(IndexRing!Wrap(enqueue - IndexRing!Size + k - 1))]
          = RingParts!Cells
    /\ [k \in 1 .. IndexRing!Size |-> IndexRing!Cell(IndexRing!Wrap(enqueue - IndexRing!Size + k - 1))]'
          = RingParts!Cells'
  BY DEF RingParts!Cells, IndexRing!Size, RingParts!Size, IndexRing!Wrap, RingParts!Wrap,
         IndexRing!Word, RingParts!Word, IndexRing!Emptying, RingParts!Emptying, IndexRing!Cell,
         RingParts!Cell, IndexRing!Filling, RingParts!Filling, IndexRing!SlotOf, RingParts!SlotOf,
         IndexRing!ReadableCount, RingParts!ReadableCount

LEMMA SameFinite == \A S : Arena!IsFiniteSet(S) <=> ArenaParts!IsFiniteSet(S)
  BY DEF Arena!IsFiniteSet, ArenaParts!IsFiniteSet

LEMMA SameCardinality == \A S : Arena!Cardinality(S) = ArenaParts!Cardinality(S)
  BY DEF Arena!Cardinality, ArenaParts!Cardinality

LEMMA SameArenaAssumption == Arena!ArenaAssumption <=> ArenaParts!ArenaAssumption
  BY SameFinite, SameCardinality DEF Arena!ArenaAssumption, ArenaParts!ArenaAssumption

LEMMA SameArenaInit == Arena!Init <=> ArenaParts!Init
  BY DEF Arena!Init, ArenaParts!Init, Arena!Supplier!Init, ArenaParts!Supplier!Init, Arena!Index,
         ArenaParts!Index, Arena!Populated!Init, ArenaParts!Populated!Init, Arena!Thread,
         ArenaParts!Thread, Arena!None, ArenaParts!None

LEMMA SameArenaNext == Arena!Next <=> ArenaParts!Next
  BY DEF Arena!Next, ArenaParts!Next, Arena!Closing, ArenaParts!Closing, Arena!BeginClosing,
         ArenaParts!BeginClosing, Arena!Moves, ArenaParts!Moves, Arena!rings, ArenaParts!rings,
         Arena!ClosingLoad, ArenaParts!ClosingLoad, Arena!words, ArenaParts!words,
         Arena!ClosingClose, ArenaParts!ClosingClose, Arena!Shutdown, ArenaParts!Shutdown,
         Arena!Thread, ArenaParts!Thread, Arena!ThreadNext, ArenaParts!ThreadNext,
         Arena!ReserveCheck, ArenaParts!ReserveCheck, Arena!AllowsReserve, ArenaParts!AllowsReserve,
         Arena!ReserveClaim, ArenaParts!ReserveClaim, Arena!Supplier!CanPop,
         ArenaParts!Supplier!CanPop, Arena!Supplier!Waiting, ArenaParts!Supplier!Waiting,
         Arena!Supplier!InState, ArenaParts!Supplier!InState, Arena!Supplier!Min,
         ArenaParts!Supplier!Min, Arena!Index, ArenaParts!Index, Arena!Supplier!Front,
         ArenaParts!Supplier!Front, Arena!Supplier!ClaimPop, ArenaParts!Supplier!ClaimPop,
         Arena!Supplier!WithState, ArenaParts!Supplier!WithState, Arena!ReserveComplete,
         ArenaParts!ReserveComplete, Arena!Supplier!CompletePop, ArenaParts!Supplier!CompletePop,
         Arena!CellOf, ArenaParts!CellOf, Arena!ReserveCount, ArenaParts!ReserveCount,
         Arena!PublishCheck, ArenaParts!PublishCheck, Arena!AllowsAcquireOrComplete,
         ArenaParts!AllowsAcquireOrComplete, Arena!Drops, ArenaParts!Drops, Arena!None,
         ArenaParts!None, Arena!PublishClaim, ArenaParts!PublishClaim, Arena!Populated!CanPush,
         ArenaParts!Populated!CanPush, Arena!Populated!ClaimPush, ArenaParts!Populated!ClaimPush,
         Arena!PublishComplete, ArenaParts!PublishComplete, Arena!Populated!CompletePush,
         ArenaParts!Populated!CompletePush, Arena!Populated!InState, ArenaParts!Populated!InState,
         Arena!Populated!WithState, ArenaParts!Populated!WithState, Arena!AcquireCheck,
         ArenaParts!AcquireCheck, Arena!AcquireClaim, ArenaParts!AcquireClaim,
         Arena!Populated!CanPop, ArenaParts!Populated!CanPop, Arena!Populated!Waiting,
         ArenaParts!Populated!Waiting, Arena!Populated!Min, ArenaParts!Populated!Min,
         Arena!Populated!Front, ArenaParts!Populated!Front, Arena!Populated!ClaimPop,
         ArenaParts!Populated!ClaimPop, Arena!AcquireComplete, ArenaParts!AcquireComplete,
         Arena!Populated!CompletePop, ArenaParts!Populated!CompletePop, Arena!RecycleCheck,
         ArenaParts!RecycleCheck, Arena!RecycleClaim, ArenaParts!RecycleClaim,
         Arena!Supplier!CanPush, ArenaParts!Supplier!CanPush, Arena!Supplier!ClaimPush,
         ArenaParts!Supplier!ClaimPush, Arena!RecycleComplete, ArenaParts!RecycleComplete,
         Arena!Supplier!CompletePush, ArenaParts!Supplier!CompletePush, Arena!RecycleCount,
         ArenaParts!RecycleCount, Arena!RecycleClose, ArenaParts!RecycleClose

LEMMA SameArenaTypeOK == Arena!TypeOK <=> ArenaParts!TypeOK
  BY DEF Arena!TypeOK, ArenaParts!TypeOK, Arena!Index, ArenaParts!Index, Arena!Thread,
         ArenaParts!Thread, Arena!None, ArenaParts!None

LEMMA SameArenaOwner == Arena!OneOwner <=> ArenaParts!OneOwner
  BY SameFinite, SameCardinality DEF Arena!OneOwner, ArenaParts!OneOwner, Arena!Index, ArenaParts!Index, Arena!WaitsIn,
         ArenaParts!WaitsIn, Arena!Holders, ArenaParts!Holders, Arena!Thread, ArenaParts!Thread

LEMMA SameArenaCount == Arena!CountIsExact <=> ArenaParts!CountIsExact
  BY SameFinite, SameCardinality DEF Arena!CountIsExact, ArenaParts!CountIsExact, Arena!Index, ArenaParts!Index, Arena!WaitsIn,
         ArenaParts!WaitsIn, Arena!Thread, ArenaParts!Thread

LEMMA SameArenaNoWrap == Arena!CountNeverWraps <=> ArenaParts!CountNeverWraps
  BY DEF Arena!CountNeverWraps, ArenaParts!CountNeverWraps

LEMMA SameArenaClose == Arena!NoMissedClose <=> ArenaParts!NoMissedClose
  BY DEF Arena!NoMissedClose, ArenaParts!NoMissedClose, Arena!Thread, ArenaParts!Thread
-----------------------------------------------------------------------------
(***************************************************************************)
(* All of them together: each keeps its invariant while another moves.     *)
(***************************************************************************)
AllInv == IInv /\ OwningInv /\ BulkInv /\ RingParts!IInv /\ ArenaParts!ArenaInv

LEMMA Assumptions ==
    /\ Owning!OwningAssumption /\ Empty \notin Element /\ MaxVersion \in Nat
    /\ RingParts!RingAssumption /\ ArenaParts!ArenaAssumption
  BY PartsAssumption, SameRingAssumption, SameArenaAssumption DEF Owning!OwningAssumption

LEMMA AllInitially == AllInit => AllInv
  <1> SUFFICES ASSUME AllInit PROVE AllInv
    OBVIOUS
  <1>1. Init /\ Owning!Init /\ Bulk!Init /\ IndexRing!Init /\ Arena!Init
    BY DEF AllInit
  <1>2. RingParts!Init /\ ArenaParts!Init
    BY <1>1, SameRingInit, SameArenaInit
  <1>3. RingParts!IInv
    BY <1>2, Assumptions, RingParts!InitInvariant
  <1>4. ArenaParts!ArenaInv
    BY <1>2, Assumptions, ArenaParts!ArenaInitially
  <1> QED
    BY <1>1, <1>3, <1>4, Assumptions, InitInvariant, OwningInit, BulkInit DEF AllInv

(* A step is one of a transport, in each of whose eyes the others stutter. *)
LEMMA StepOfOne ==
    ASSUME [AllNext]_allVars
    PROVE  /\ [Next]_vars
           /\ Owning!Next \/ UNCHANGED owningVars
           /\ Bulk!Next \/ UNCHANGED bulkVars
           /\ [RingParts!Next]_(RingParts!vars)
           /\ [ArenaParts!Next]_(ArenaParts!vars)
  <1>1. CASE AllNext
    <2>1. CASE Only("ring") /\ Next
      BY <2>1 DEF Only, indexRingVars, arenaVars, RingParts!vars, ArenaParts!vars
    <2>2. CASE Only("owning") /\ Owning!Next
      BY <2>2 DEF Only, indexRingVars, arenaVars, RingParts!vars, ArenaParts!vars
    <2>3. CASE Only("bulk") /\ Bulk!Next
      BY <2>3 DEF Only, indexRingVars, arenaVars, RingParts!vars, ArenaParts!vars
    <2>4. CASE Only("indexRing") /\ IndexRing!Next
      BY <2>4, SameRingNext DEF Only, arenaVars, ArenaParts!vars
    <2>5. CASE Only("arena") /\ Arena!Next
      BY <2>5, SameArenaNext DEF Only, indexRingVars, RingParts!vars
    <2>6. CASE UNCHANGED allVars
      BY <2>6 DEF allVars, indexRingVars, arenaVars, RingParts!vars, ArenaParts!vars
    <2> QED
      BY <1>1, <2>1, <2>2, <2>3, <2>4, <2>5, <2>6 DEF AllNext
  <1>2. CASE UNCHANGED allVars
    BY <1>2 DEF allVars, indexRingVars, arenaVars, RingParts!vars, ArenaParts!vars
  <1> QED
    BY <1>1, <1>2

LEMMA AllStep == AllInv /\ [AllNext]_allVars => AllInv'
  <1> SUFFICES ASSUME AllInv, [AllNext]_allVars PROVE AllInv'
    OBVIOUS
  <1>1. IInv'
    BY StepOfOne, TRingStep DEF AllInv
  <1>2. OwningInv' /\ BulkInv'
    BY StepOfOne, Assumptions, OwningStep, BulkStep DEF AllInv
  <1>3. RingParts!IInv'
    BY StepOfOne, Assumptions, RingParts!StepInvariant DEF AllInv
  <1>4. ArenaParts!ArenaInv'
    BY StepOfOne, Assumptions, ArenaParts!ArenaStep DEF AllInv
  <1> QED
    BY <1>1, <1>2, <1>3, <1>4 DEF AllInv

(* Each transport's invariant holds in every reachable state, whichever of *)
(* them moves.                                                             *)
THEOREM AllInvariance == AllSpec => []AllInv
  <1> QED
    BY AllInitially, AllStep, PTL DEF AllSpec

(* TOwning: an unread element is in exactly one slot until it is read, and *)
(* a read gives its caller an element; TBulk: what is staged is the latest *)
(* publication.  For every capacity, element and number of publications.   *)
THEOREM ElementsAreAlwaysKept == AllSpec => []ElementsAreKept
  <1>1. AllInv => ElementsAreKept
    BY Assumptions, OwningIsSafe, BulkIsSafe DEF AllInv, ElementsAreKept, IInv
  <1> QED
    BY <1>1, AllInvariance, PTL

(* The index ring and the arena: a slot has one owner at a time, positions *)
(* keep their order, the count of slots in use is exact and a closing is   *)
(* not missed, for any threads and any capacity.                           *)
THEOREM SlotsAlwaysHaveOneOwner == AllSpec => []SlotsHaveOneOwner
  <1>1. ASSUME AllInv PROVE SlotsHaveOneOwner
    <2>1. RingParts!TypeOK /\ RingParts!SlotsAreExclusive /\ RingParts!PositionsValid
      BY <1>1, Assumptions, RingParts!InvariantIsSafe DEF AllInv
    <2>2. ArenaParts!TypeOK /\ ArenaParts!OneOwner /\ ArenaParts!CountIsExact
      BY <1>1, Assumptions, ArenaParts!InvHasTypes, ArenaParts!InvHasOneOwner, ArenaParts!InvCountsExactly DEF AllInv
    <2>3. ArenaParts!CountNeverWraps /\ ArenaParts!NoMissedClose
      BY <1>1, Assumptions, ArenaParts!InvCountsSomething DEF AllInv, ArenaParts!ArenaInv, ArenaParts!CountNeverWraps
    <2> QED
      BY <2>1, <2>2, <2>3, SameRingTypeOK, SameRingSlots, SameRingPositions, SameArenaTypeOK,
         SameArenaOwner, SameArenaCount, SameArenaNoWrap, SameArenaClose DEF SlotsHaveOneOwner
  <1> QED
    BY <1>1, AllInvariance, PTL

(* TRing and TOwning give what was posted, in order; TBulk gives a later   *)
(* state at each acquisition; the index ring claims and gives up its cells *)
(* in order, and refuses a call only when it could not admit it.           *)
THEOREM DeliveriesAreAlwaysInOrder == AllSpec => DeliveriesAreInOrder /\ IsBoundedFifo
  <1>1. AllInit => Fifo!Init /\ Owning!Fifo!Init /\ IndexRing!Ring!Init
    BY Assumptions, TRingFifoInit, OwningFifoInit, RingParts!RingInit, SameRingInit, SameRingRingInit DEF AllInit
  <1>2. AllInv /\ [AllNext]_allVars => [Fifo!Next]_(Fifo!vars)
    BY StepOfOne, TRingFifoStep DEF AllInv
  <1>3. AllInv /\ [AllNext]_allVars => [Owning!Fifo!Next]_(Owning!Fifo!vars)
    BY StepOfOne, Assumptions, OwningFifoStep DEF AllInv
  <1>4. AllInv /\ [AllNext]_allVars =>
            [Bulk!DiscardAndAcquire /\ Bulk!IdOf(word) # 0 => acquired' > acquired]_(Bulk!vars)
    BY Assumptions, BulkAdvances DEF AllInv
  <1>5. AllInv /\ AllInv' /\ [AllNext]_allVars =>
            [IndexRing!Ring!Next]_([k \in 1 .. IndexRing!Size |->
                IndexRing!Cell(IndexRing!Wrap(enqueue - IndexRing!Size + k - 1))])
    BY StepOfOne, Assumptions, RingParts!RingStep, SameRingRingNext, SameRingCells DEF AllInv
  <1>6. AllInv /\ [AllNext]_allVars =>
            [\A t \in RingThreads :
                /\ ringAt[t] = "push_test" /\ ringAt'[t] = "idle" => ~IndexRing!Ring!CanPush
                /\ ringAt[t] = "pop_test" /\ ringAt'[t] = "idle" => ~IndexRing!Ring!CanPop]_(IndexRing!vars)
    BY StepOfOne, Assumptions, RingParts!RefusalStep, SameRingCanPush, SameRingCanPop
       DEF AllInv, RingParts!vars, IndexRing!vars
  <1> QED
    BY <1>1, <1>2, <1>3, <1>4, <1>5, <1>6, AllInvariance, PTL
       DEF AllSpec, DeliveriesAreInOrder, IsBoundedFifo, Fifo!Spec, Owning!IsBoundedFifo, Owning!Fifo!Spec,
           Bulk!AcquisitionsAdvance, IndexRing!IsClaimRing, IndexRing!Ring!Spec, IndexRing!RefusalsAreJust
=============================================================================

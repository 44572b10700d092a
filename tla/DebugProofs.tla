------------------------------ MODULE DebugProofs ------------------------------
(***************************************************************************)
(* Theorems about DebugService, for any finite set of producers, any       *)
(* capacity and any bound on the events.  What ArenaProofs shows of the    *)
(* arena holds of the one in here, which is an instance of it.             *)
(***************************************************************************)
EXTENDS DebugService, FiniteSetTheorems, TLAPS

Arena == INSTANCE ArenaProofs WITH Consumer <- {Writer}, Closer <- Host, MayShutdown <- FALSE

Index == Transport!Index
None == Transport!None
Full(i) == Arena!In(populated, i, "full")
CanPop == Transport!Populated!CanPop
-----------------------------------------------------------------------------
(***************************************************************************)
(* The invariant.  Control: where each thread is in the transport, and in  *)
(* the service.                                                            *)
(***************************************************************************)
Stages == {"idle", "transport", "direct", "signal", "wake"}
WriterSteps == {"none", "opening", "observe", "drain", "status", "wait", "parked", "finish", "ended"}
BeforeClosing == {"idle", "await", "unstarted", "started"}
AfterClosing == {"signal", "wake", "join", "stopped"}

ServiceTypes ==
    /\ content \in [Index -> {NoEvent} \cup Event]
    /\ serviceState \in {"empty", "starting", "running", "failed", "stopped"}
    /\ epoch \in Nat /\ observed \in Nat
    /\ incident \in 0 .. MaxEvents
    /\ stage \in [Producer -> Stages]
    /\ event \in [Producer -> {NoEvent} \cup Event]
    /\ writerAt \in WriterSteps
    /\ hostAt \in BeforeClosing \cup {"closing"} \cup AfterClosing
    /\ accepted \subseteq Event
    /\ copies \in [Event -> 0 .. 1]
    /\ amid \subseteq {"submission", "recycle"}

ControlAgrees ==
    /\ \A p \in Producer : stage[p] = "transport" <=> at[p] # "idle"
    /\ \A p \in Producer : stage[p] \in {"idle", "wake"} => event[p] = NoEvent
    /\ \A p \in Producer : stage[p] \in {"transport", "direct"} => event[p] # NoEvent
    /\ at[Writer] # "idle" => writerAt = "drain"
    /\ hostAt = "idle" => writerAt = "none"
    /\ hostAt \in BeforeClosing => at[Host] = "idle" /\ status = "open"
    /\ hostAt = "closing" => at[Host] \in {"closing", "close"} /\ status \in {"closing", "closed"}
    /\ hostAt \in AfterClosing => at[Host] = "done" /\ status \in {"closing", "closed"}

(* Events: one that a producer has is in no other slot than its own, and   *)
(* has not been written; a slot that waits for the writer has one that was *)
(* accepted.                                                               *)
Filled == {"holding", "publish", "published"}
ForWriter(i) == Full(i) \/ (index[Writer] = i /\ at[Writer] \in {"acquired", "holding"})
Kept(i, e) == content[i] = e /\ i \notin lost

ProducersOwnEvents ==
    \A p \in Producer :
      /\ event[p] <= incident
      /\ at[p] \in Filled => content[index[p]] = event[p]
      /\ event[p] # NoEvent =>
           /\ copies[event[p]] = 0
           /\ \A q \in Producer : event[q] = event[p] => q = p
           /\ \A i \in Index : Kept(i, event[p]) => index[p] = i /\ at[p] \in Filled

SlotsOwnEvents ==
    \A i \in Index \ lost :
      /\ content[i] <= incident
      /\ ForWriter(i) => content[i] \in accepted
      /\ content[i] # NoEvent =>
           /\ copies[content[i]] = 0
           /\ \A j \in Index : Kept(j, content[i]) => j = i

AcceptedAreKept ==
    /\ \A e \in Event : e > incident => copies[e] = 0
    /\ \A e \in accepted : e <= incident /\ (copies[e] = 1 \/ \E i \in Index : content[i] = e /\ ForWriter(i))

(* The epoch: every event is signalled once at most, and a stop once, so   *)
(* that it does not come round.                                            *)
Unsignalled == {p \in Producer : stage[p] \in {"transport", "direct", "signal"}}
EpochIsBounded ==
    /\ observed <= epoch
    /\ epoch + Cardinality(Unsignalled) <= incident + (IF hostAt \in {"wake", "join", "stopped"} THEN 1 ELSE 0)

(* Sleep: what the writer has not seen when it last looked is signalled    *)
(* after it observed the epoch, or still to be.                            *)
WillBeSignalled == epoch # observed \/ (\E p \in Producer : stage[p] = "signal") \/ hostAt = "signal"
WriterIsTold ==
    /\ writerAt = "status" /\ CanPop => status = "closed" \/ WillBeSignalled
    /\ writerAt = "wait" /\ (CanPop \/ status = "closed") => WillBeSignalled
    /\ writerAt = "parked" /\ (CanPop \/ status = "closed") =>
         (\E p \in Producer : stage[p] \in {"signal", "wake"}) \/ hostAt \in {"signal", "wake"}

(* Closing: once it has begun with no call under way, nothing is reserved, *)
(* and the transport closes with nothing outstanding.                      *)
ClosingDrains ==
    /\ writerAt = "finish" \/ serviceState = "stopped" => status = "closed"
    /\ amid = {} /\ status # "open" =>
         /\ \A p \in Producer : at[p] = "idle"
         /\ status = "closed" \/ at[Writer] = "close" \/ at[Host] = "close" => outstanding = 0

EventsInv == ProducersOwnEvents /\ SlotsOwnEvents /\ AcceptedAreKept
ServiceInv == ServiceTypes /\ ControlAgrees /\ EventsInv /\ EpochIsBounded /\ WriterIsTold /\ ClosingDrains
DebugInv == Arena!ArenaInv /\ ServiceInv
-----------------------------------------------------------------------------
(* The arena of the service is the one that ArenaProofs is about.          *)
LEMMA SameThreads ==
    ASSUME NEW t
    PROVE  /\ Transport!ReserveCheck(t) <=> Arena!ReserveCheck(t)
           /\ Transport!ReserveClaim(t) <=> Arena!ReserveClaim(t)
           /\ Transport!ReserveComplete(t) <=> Arena!ReserveComplete(t)
           /\ Transport!ReserveCount(t) <=> Arena!ReserveCount(t)
           /\ Transport!PublishCheck(t) <=> Arena!PublishCheck(t)
           /\ Transport!PublishClaim(t) <=> Arena!PublishClaim(t)
           /\ Transport!PublishComplete(t) <=> Arena!PublishComplete(t)
           /\ Transport!AcquireCheck(t) <=> Arena!AcquireCheck(t)
           /\ Transport!AcquireClaim(t) <=> Arena!AcquireClaim(t)
           /\ Transport!AcquireComplete(t) <=> Arena!AcquireComplete(t)
           /\ Transport!RecycleCheck(t) <=> Arena!RecycleCheck(t)
           /\ Transport!RecycleClaim(t) <=> Arena!RecycleClaim(t)
           /\ Transport!RecycleComplete(t) <=> Arena!RecycleComplete(t)
           /\ Transport!RecycleCount(t) <=> Arena!RecycleCount(t)
           /\ Transport!RecycleClose(t) <=> Arena!RecycleClose(t)
  <1>1. Transport!ReserveCheck(t) <=> Arena!ReserveCheck(t)
    BY DEF Transport!ReserveCheck, Arena!ReserveCheck, Transport!Moves, Arena!Moves,
           Transport!rings, Arena!rings, Transport!words, Arena!words, Transport!AllowsReserve,
           Arena!AllowsReserve
  <1>2. Transport!ReserveClaim(t) <=> Arena!ReserveClaim(t)
    BY DEF Transport!ReserveClaim, Arena!ReserveClaim, Transport!Moves, Arena!Moves,
           Transport!rings, Arena!rings, Transport!words, Arena!words, Transport!Supplier!CanPop,
           Arena!Supplier!CanPop, Transport!Supplier!Waiting, Arena!Supplier!Waiting,
           Transport!Supplier!InState, Arena!Supplier!InState, Transport!Supplier!Min,
           Arena!Supplier!Min, Transport!Supplier!Front, Arena!Supplier!Front,
           Transport!Supplier!ClaimPop, Arena!Supplier!ClaimPop, Transport!Supplier!WithState,
           Arena!Supplier!WithState
  <1>3. Transport!ReserveComplete(t) <=> Arena!ReserveComplete(t)
    BY DEF Transport!ReserveComplete, Arena!ReserveComplete, Transport!Moves, Arena!Moves,
           Transport!rings, Arena!rings, Transport!words, Arena!words,
           Transport!Supplier!CompletePop, Arena!Supplier!CompletePop, Transport!Supplier!InState,
           Arena!Supplier!InState, Transport!Supplier!WithState, Arena!Supplier!WithState,
           Transport!Supplier!Min, Arena!Supplier!Min, Transport!CellOf, Arena!CellOf
  <1>4. Transport!ReserveCount(t) <=> Arena!ReserveCount(t)
    BY DEF Transport!ReserveCount, Arena!ReserveCount, Transport!Moves, Arena!Moves,
           Transport!rings, Arena!rings, Transport!words, Arena!words
  <1>5. Transport!PublishCheck(t) <=> Arena!PublishCheck(t)
    BY DEF Transport!PublishCheck, Arena!PublishCheck, Transport!Moves, Arena!Moves,
           Transport!rings, Arena!rings, Transport!words, Arena!words,
           Transport!AllowsAcquireOrComplete, Arena!AllowsAcquireOrComplete, Transport!Drops,
           Arena!Drops, Transport!None, Arena!None
  <1>6. Transport!PublishClaim(t) <=> Arena!PublishClaim(t)
    BY DEF Transport!PublishClaim, Arena!PublishClaim, Transport!Moves, Arena!Moves,
           Transport!rings, Arena!rings, Transport!words, Arena!words, Transport!Populated!CanPush,
           Arena!Populated!CanPush, Transport!Populated!ClaimPush, Arena!Populated!ClaimPush,
           Transport!Drops, Arena!Drops, Transport!None, Arena!None
  <1>7. Transport!PublishComplete(t) <=> Arena!PublishComplete(t)
    BY DEF Transport!PublishComplete, Arena!PublishComplete, Transport!Moves, Arena!Moves,
           Transport!rings, Arena!rings, Transport!words, Arena!words,
           Transport!Populated!CompletePush, Arena!Populated!CompletePush,
           Transport!Populated!InState, Arena!Populated!InState, Transport!Populated!WithState,
           Arena!Populated!WithState, Transport!CellOf, Arena!CellOf, Transport!None, Arena!None
  <1>8. Transport!AcquireCheck(t) <=> Arena!AcquireCheck(t)
    BY DEF Transport!AcquireCheck, Arena!AcquireCheck, Transport!Moves, Arena!Moves,
           Transport!rings, Arena!rings, Transport!words, Arena!words,
           Transport!AllowsAcquireOrComplete, Arena!AllowsAcquireOrComplete
  <1>9. Transport!AcquireClaim(t) <=> Arena!AcquireClaim(t)
    BY DEF Transport!AcquireClaim, Arena!AcquireClaim, Transport!Moves, Arena!Moves,
           Transport!rings, Arena!rings, Transport!words, Arena!words, Transport!Populated!CanPop,
           Arena!Populated!CanPop, Transport!Populated!Waiting, Arena!Populated!Waiting,
           Transport!Populated!InState, Arena!Populated!InState, Transport!Populated!Min,
           Arena!Populated!Min, Transport!Populated!Front, Arena!Populated!Front,
           Transport!Populated!ClaimPop, Arena!Populated!ClaimPop, Transport!Populated!WithState,
           Arena!Populated!WithState
  <1>10. Transport!AcquireComplete(t) <=> Arena!AcquireComplete(t)
    BY DEF Transport!AcquireComplete, Arena!AcquireComplete, Transport!Moves, Arena!Moves,
           Transport!rings, Arena!rings, Transport!words, Arena!words,
           Transport!Populated!CompletePop, Arena!Populated!CompletePop,
           Transport!Populated!InState, Arena!Populated!InState, Transport!Populated!WithState,
           Arena!Populated!WithState, Transport!Populated!Min, Arena!Populated!Min,
           Transport!CellOf, Arena!CellOf
  <1>11. Transport!RecycleCheck(t) <=> Arena!RecycleCheck(t)
    BY DEF Transport!RecycleCheck, Arena!RecycleCheck, Transport!Moves, Arena!Moves,
           Transport!rings, Arena!rings, Transport!words, Arena!words,
           Transport!AllowsAcquireOrComplete, Arena!AllowsAcquireOrComplete, Transport!Drops,
           Arena!Drops, Transport!None, Arena!None
  <1>12. Transport!RecycleClaim(t) <=> Arena!RecycleClaim(t)
    BY DEF Transport!RecycleClaim, Arena!RecycleClaim, Transport!Moves, Arena!Moves,
           Transport!rings, Arena!rings, Transport!words, Arena!words, Transport!Supplier!CanPush,
           Arena!Supplier!CanPush, Transport!Supplier!ClaimPush, Arena!Supplier!ClaimPush,
           Transport!Drops, Arena!Drops, Transport!None, Arena!None
  <1>13. Transport!RecycleComplete(t) <=> Arena!RecycleComplete(t)
    BY DEF Transport!RecycleComplete, Arena!RecycleComplete, Transport!Moves, Arena!Moves,
           Transport!rings, Arena!rings, Transport!words, Arena!words,
           Transport!Supplier!CompletePush, Arena!Supplier!CompletePush,
           Transport!Supplier!InState, Arena!Supplier!InState, Transport!Supplier!WithState,
           Arena!Supplier!WithState, Transport!CellOf, Arena!CellOf, Transport!None, Arena!None
  <1>14. Transport!RecycleCount(t) <=> Arena!RecycleCount(t)
    BY DEF Transport!RecycleCount, Arena!RecycleCount, Transport!Moves, Arena!Moves,
           Transport!rings, Arena!rings, Transport!words, Arena!words
  <1>15. Transport!RecycleClose(t) <=> Arena!RecycleClose(t)
    BY DEF Transport!RecycleClose, Arena!RecycleClose, Transport!Moves, Arena!Moves,
           Transport!rings, Arena!rings, Transport!words, Arena!words
  <1> QED BY <1>1, <1>2, <1>3, <1>4, <1>5, <1>6, <1>7, <1>8, <1>9, <1>10, <1>11, <1>12, <1>13, <1>14, <1>15

LEMMA SameClosing ==
    /\ Transport!BeginClosing <=> Arena!BeginClosing
    /\ Transport!ClosingLoad <=> Arena!ClosingLoad
    /\ Transport!ClosingClose <=> Arena!ClosingClose
  BY DEF Transport!BeginClosing, Arena!BeginClosing, Transport!ClosingLoad, Arena!ClosingLoad,
         Transport!ClosingClose, Arena!ClosingClose, Transport!Moves, Arena!Moves,
         Transport!rings, Arena!rings, Transport!words, Arena!words

LEMMA SameConstants ==
    /\ Index = 0 .. Capacity - 1 /\ Arena!Index = Index /\ None = Capacity /\ Arena!None = None
    /\ Arena!Thread = Producer \cup {Writer} /\ Capacity \in Nat \ {0}
    /\ Writer \notin Producer /\ Host \notin Producer \cup {Writer}
    /\ IsFiniteSet(Producer) /\ Arena!ArenaAssumption
  <1>1. /\ Capacity \in Nat \ {0} /\ Producer \cap {Writer} = {} /\ Host \notin Producer \cup {Writer}
        /\ IsFiniteSet(Producer \cup {Writer})
    BY ThreadsAssumption DEF Transport!ArenaAssumption, Transport!IsFiniteSet, IsFiniteSet
  <1>2. Producer \in SUBSET (Producer \cup {Writer})
    OBVIOUS
  <1>3. IsFiniteSet(Producer)
    BY <1>1, <1>2, FS_Subset
  <1>4. Arena!ArenaAssumption
    BY <1>1 DEF Arena!ArenaAssumption, Arena!IsFiniteSet, IsFiniteSet
  <1>5. /\ Index = 0 .. Capacity - 1 /\ Arena!Index = Index /\ None = Capacity /\ Arena!None = None
        /\ Arena!Thread = Producer \cup {Writer}
    BY DEF Index, None, Transport!Index, Arena!Index, Transport!None, Arena!None, Arena!Thread
  <1> QED BY <1>1, <1>3, <1>4, <1>5

LEMMA SameCanPop ==
    (CanPop <=> Arena!Populated!CanPop) /\ (CanPop' <=> Arena!Populated!CanPop')
  BY DEF CanPop, Transport!Populated!CanPop, Arena!Populated!CanPop, Transport!Populated!Waiting,
         Arena!Populated!Waiting, Transport!Populated!InState, Arena!Populated!InState,
         Transport!Populated!Min, Arena!Populated!Min

(* A step of the service is a step of the arena, or leaves it as it is.    *)
LEMMA StepsAreArenaSteps ==
    ASSUME [Next]_vars
    PROVE  [Arena!Next]_Arena!vars
  <1>1. UNCHANGED transportVars => UNCHANGED Arena!vars
    BY DEF transportVars, Arena!vars
  <1>2. ASSUME NEW t \in Producer \cup {Writer}, Arena!ThreadNext(t) PROVE Arena!Next
    BY <1>2, SameConstants DEF Arena!Next
  <1>3. ASSUME NEW p \in Producer, Submit(p) \/ ProducerContinues(p) PROVE [Arena!Next]_Arena!vars
    <2>1. \/ UNCHANGED transportVars
          \/ Transport!ReserveCheck(p) \/ Transport!ReserveClaim(p) \/ Transport!ReserveComplete(p)
          \/ Transport!ReserveCount(p) \/ Transport!PublishCheck(p) \/ Transport!PublishClaim(p)
          \/ Transport!PublishComplete(p)
      BY <1>3 DEF Submit, ProducerContinues, ReserveSlot, PopsSlot, FillSlot, PublishSlot, PublishedSlot,
                  Signal, WakeUp, WriteDirect
    <2> QED BY <1>1, <1>2, <2>1, SameThreads DEF Arena!ThreadNext
  <1>4. ASSUME WriterNext \/ WriterReturnsSpuriously PROVE [Arena!Next]_Arena!vars
    <2>1. \/ UNCHANGED transportVars
          \/ Transport!AcquireCheck(Writer) \/ Transport!AcquireClaim(Writer) \/ Transport!AcquireComplete(Writer)
          \/ Transport!RecycleCheck(Writer) \/ Transport!RecycleClaim(Writer) \/ Transport!RecycleComplete(Writer)
          \/ Transport!RecycleCount(Writer) \/ Transport!RecycleClose(Writer)
      BY <1>4 DEF WriterNext, WriterReturnsSpuriously, WriterStarts, WriterObserves, WriterAcquires, WriterWrites,
                  WriterRecycles, WriterChecks, WriterWaits, WriterFinishes
    <2> QED BY <1>1, <1>2, <2>1, SameThreads DEF Arena!ThreadNext
  <1>5. ASSUME HostNext PROVE [Arena!Next]_Arena!vars
    <2>1. UNCHANGED transportVars \/ Transport!BeginClosing \/ Transport!ClosingLoad \/ Transport!ClosingClose
      BY <1>5 DEF HostNext, HostStarts, HostAwaitsWriter, HostBeginsClosing, HostCloses, HostSignals, HostWakes, HostJoins
    <2> QED BY <1>1, <2>1, SameClosing DEF Arena!Next, Arena!Closing
  <1>6. UNCHANGED vars => UNCHANGED Arena!vars
    BY <1>1 DEF vars
  <1> QED BY <1>3, <1>4, <1>5, <1>6 DEF Next

LEMMA ArenaInvKept ==
    ASSUME Arena!ArenaInv, [Next]_vars
    PROVE  Arena!ArenaInv'
  BY StepsAreArenaSteps, SameConstants, Arena!ArenaStep
-----------------------------------------------------------------------------
(* What most steps do to the events: nothing, or they give up an index     *)
(* with the event in its slot.                                             *)
LEMMA EventsFramed ==
    ASSUME EventsInv, ServiceTypes, UNCHANGED <<content, incident, accepted, copies>>, lost \subseteq lost',
           \A i \in Index : ForWriter(i)' <=> ForWriter(i),
           \A p \in Producer :
             /\ event'[p] \in {event[p], NoEvent}
             /\ at'[p] \in Filled => at[p] \in Filled /\ index'[p] = index[p] /\ event'[p] = event[p]
             /\ at[p] \in Filled /\ at'[p] \notin Filled => index[p] \in lost' \/ event'[p] = NoEvent
    PROVE  EventsInv'
  <1>1. \A i, e : Kept(i, e)' => Kept(i, e)
    BY DEF Kept
  <1>2. \A i : i \in lost' => \A e : ~Kept(i, e)'
    BY DEF Kept
  <1>3. ProducersOwnEvents'
    <2>1. ASSUME NEW p \in Producer
          PROVE  /\ event'[p] <= incident'
                 /\ at'[p] \in Filled => content'[index'[p]] = event'[p]
                 /\ event'[p] # NoEvent =>
                      /\ copies'[event'[p]] = 0
                      /\ \A q \in Producer : event'[q] = event'[p] => q = p
                      /\ \A i \in Index : Kept(i, event[p])' => index'[p] = i /\ at'[p] \in Filled
      <3>1. event'[p] <= incident'
        BY DEF EventsInv, ProducersOwnEvents, ServiceTypes, NoEvent
      <3>2. at'[p] \in Filled => content'[index'[p]] = event'[p]
        BY DEF EventsInv, ProducersOwnEvents
      <3>3. CASE event'[p] # NoEvent
        <4>1. event'[p] = event[p] /\ event[p] # NoEvent
          BY <3>3
        <4>2. copies'[event'[p]] = 0 /\ \A q \in Producer : event'[q] = event'[p] => q = p
          BY <4>1 DEF EventsInv, ProducersOwnEvents
        <4>3. \A i \in Index : Kept(i, event[p])' => Kept(i, event[p]) /\ i \notin lost'
          <5>1. \A i \in Index : Kept(i, event[p])' => content'[i] = event'[p] /\ i \notin lost'
            BY DEF Kept
          <5> QED BY <4>1, <5>1 DEF Kept
        <4>4. ASSUME NEW i \in Index, Kept(i, event[p])' PROVE index'[p] = i /\ at'[p] \in Filled
          <5>1. index[p] = i /\ at[p] \in Filled
            BY <4>1, <4>3, <4>4 DEF EventsInv, ProducersOwnEvents
          <5>2. at'[p] \in Filled
            BY <4>1, <4>3, <4>4, <5>1, <3>3
          <5> QED BY <5>1, <5>2
        <4> QED BY <3>1, <3>2, <4>2, <4>4
      <3> QED BY <3>1, <3>2, <3>3
    <2> QED BY <2>1 DEF ProducersOwnEvents, Kept
  <1>4. SlotsOwnEvents'
    BY DEF EventsInv, SlotsOwnEvents, Kept, Index, Transport!Index
  <1>5. AcceptedAreKept'
    BY DEF EventsInv, AcceptedAreKept, Index, Transport!Index
  <1> QED BY <1>3, <1>4, <1>5 DEF EventsInv

LEMMA UnsignalledFollows ==
    ASSUME ServiceTypes, NEW p \in Producer, NEW s, stage' = [stage EXCEPT ![p] = s]
    PROVE  /\ IsFiniteSet(Unsignalled) /\ Cardinality(Unsignalled) \in Nat /\ Cardinality(Unsignalled') \in Nat
           /\ Unsignalled' = IF s \in {"transport", "direct", "signal"}
                             THEN Unsignalled \cup {p} ELSE Unsignalled \ {p}
           /\ Cardinality(Unsignalled') = Cardinality(Unsignalled)
                - (IF p \in Unsignalled THEN 1 ELSE 0)
                + (IF s \in {"transport", "direct", "signal"} THEN 1 ELSE 0)
  <1>1. Unsignalled \subseteq Producer /\ Unsignalled' \subseteq Producer
    BY DEF Unsignalled
  <1>2. IsFiniteSet(Unsignalled) /\ IsFiniteSet(Unsignalled')
    BY <1>1, SameConstants, FS_Subset
  <1>3. Unsignalled' = IF s \in {"transport", "direct", "signal"}
                       THEN Unsignalled \cup {p} ELSE Unsignalled \ {p}
    BY DEF Unsignalled, ServiceTypes
  <1>4. Cardinality(Unsignalled) \in Nat /\ Cardinality(Unsignalled') \in Nat
    BY <1>2, FS_CardinalityType
  <1> QED BY <1>2, <1>3, <1>4, FS_AddElement, FS_RemoveElement

(* Most steps neither signal nor leave anything to be signalled for.       *)
LEMMA ToldFramed ==
    ASSUME WriterIsTold, UNCHANGED <<writerAt, observed, epoch, hostAt>>,
           CanPop' => CanPop, status' = "closed" => status = "closed", status = "closed" => status' = "closed",
           \A q \in Producer : stage[q] \in {"signal", "wake"} => stage'[q] = stage[q]
    PROVE  WriterIsTold'
  BY DEF WriterIsTold, WillBeSignalled, CanPop

LEMMA DrainsFramed ==
    ASSUME ClosingDrains, UNCHANGED <<serviceState, status, outstanding, amid>>,
           writerAt' = "finish" => writerAt = "finish" \/ status = "closed",
           \A p \in Producer : at[p] = "idle" => at'[p] = "idle" \/ status = "open",
           at'[Host] = at[Host], at'[Writer] = "close" => at[Writer] = "close"
    PROVE  ClosingDrains'
  BY DEF ClosingDrains

-----------------------------------------------------------------------------
(***************************************************************************)
(* What the service relies on in the arena.                                *)
(***************************************************************************)
Threads == Producer \cup {Writer}
ProducerSteps == {"idle", "reserve", "reserved", "count", "holding", "publish", "published"}
ConsumerSteps == {"idle", "acquire", "acquired", "holding", "recycle", "recycled", "uncount", "close"}
EmptyHanded == {"idle", "reserve", "acquire", "uncount", "close"}

LEMMA ArenaSays ==
    ASSUME Arena!ArenaInv
    PROVE  /\ DOMAIN at = Threads \cup {Host} /\ index \in [Threads -> Index \cup {None}]
           /\ \A p \in Producer : at[p] \in ProducerSteps
           /\ at[Writer] \in ConsumerSteps /\ at[Host] \in {"idle", "closing", "close", "done"}
           /\ \E S : at \in [Threads \cup {Host} -> S]
           /\ status \in {"open", "closing", "closed", "shutdown"} /\ lost \subseteq Index
           /\ \A t \in Threads : at[t] \in EmptyHanded => index[t] = None
           /\ \A t \in Threads : at[t] \notin EmptyHanded =>
                /\ index[t] \in Index /\ index[t] \notin lost /\ ~Full(index[t])
                /\ \A u \in Threads : index[u] = index[t] => u = t
           /\ \A i \in Index : Full(i) => i \notin lost /\ \A t \in Threads : index[t] # i
           /\ Writer \in Threads /\ None \notin Index
  <1>1. /\ Arena!Thread = Threads /\ Arena!Index = Index /\ Arena!None = None /\ None \notin Index
        /\ Writer \in Threads /\ Writer \in {Writer} /\ Arena!ArenaAssumption
    BY SameConstants DEF Threads
  <1>2. /\ DOMAIN at = Threads \cup {Host} /\ index \in [Threads -> Index \cup {None}]
        /\ \A p \in Producer : at[p] \in ProducerSteps
        /\ at[Writer] \in ConsumerSteps /\ at[Host] \in {"idle", "closing", "close", "done"}
        /\ \E S : at \in [Threads \cup {Host} -> S]
        /\ status \in {"open", "closing", "closed", "shutdown"} /\ lost \subseteq Index
    BY <1>1 DEF Arena!ArenaInv, Arena!ArenaTypes, Arena!ProducerSteps, Arena!ConsumerSteps,
                Arena!CloserSteps, ProducerSteps, ConsumerSteps
  <1>3. \A t \in Threads : at[t] \in EmptyHanded => index[t] = None
    BY <1>1 DEF Arena!ArenaInv, Arena!Places, Arena!HoldersDiffer, Arena!EmptyHanded, EmptyHanded
  <1>4. ASSUME NEW t \in Threads, at[t] \notin EmptyHanded
        PROVE  /\ index[t] \in Index /\ index[t] \notin lost /\ ~Full(index[t])
               /\ \A u \in Threads : index[u] = index[t] => u = t
    <2>1. at[t] \notin Arena!EmptyHanded /\ t \in Arena!Thread
      BY <1>1, <1>4 DEF Arena!EmptyHanded, EmptyHanded
    <2>2. index[t] \in Index /\ index[t] \notin lost /\ ~Full(index[t])
      BY <1>1, <2>1, Arena!HeldIsNowhere DEF Arena!ArenaInv, Full
    <2> QED BY <1>1, <2>1, <2>2 DEF Arena!ArenaInv, Arena!Places, Arena!HoldersDiffer
  <1>5. \A i \in Index : Full(i) => i \notin lost /\ \A t \in Threads : index[t] # i
    BY <1>1 DEF Arena!ArenaInv, Arena!Places, Arena!PlacesDiffer, Arena!IsHad, Full
  <1> QED BY <1>1, <1>2, <1>3, <1>4, <1>5

(* What a producer's steps but the publication, and the writer's but the   *)
(* acquisition, do not change.                                             *)
LEMMA NothingIsPublished ==
    ASSUME Arena!ArenaInv, NEW t \in Threads,
           \/ Transport!ReserveCheck(t) \/ Transport!ReserveClaim(t) \/ Transport!ReserveComplete(t)
           \/ Transport!ReserveCount(t) \/ Transport!PublishCheck(t) \/ Transport!PublishClaim(t)
           \/ Transport!AcquireCheck(t) \/ Transport!AcquireComplete(t) \/ Transport!RecycleCheck(t)
           \/ Transport!RecycleClaim(t) \/ Transport!RecycleComplete(t) \/ Transport!RecycleCount(t)
           \/ Transport!RecycleClose(t)
    PROVE  /\ \A i \in Index : Full(i)' <=> Full(i)
           /\ CanPop' => CanPop \/ Transport!AcquireComplete(t)
  <1>1. t \in Arena!Thread /\ Arena!ArenaAssumption /\ Arena!Index = Index
    BY SameConstants DEF Threads
  <1>2. \/ Arena!ReserveCheck(t) \/ Arena!ReserveClaim(t) \/ Arena!ReserveComplete(t) \/ Arena!ReserveCount(t)
        \/ Arena!PublishCheck(t) \/ Arena!PublishClaim(t) \/ Arena!AcquireCheck(t) \/ Arena!AcquireComplete(t)
        \/ Arena!RecycleCheck(t) \/ Arena!RecycleClaim(t) \/ Arena!RecycleComplete(t)
        \/ Arena!RecycleCount(t) \/ Arena!RecycleClose(t)
    BY SameThreads
  <1>3. /\ \A i \in Arena!Index : Arena!In(populated, i, "full")' <=> Arena!In(populated, i, "full")
        /\ Arena!Populated!CanPop' => Arena!Populated!CanPop \/ Arena!AcquireComplete(t)
    BY <1>1, <1>2, Arena!OthersPublishNothing
  <1>4. \A i \in Index : Full(i)' <=> Full(i)
    BY <1>1, <1>3 DEF Full
  <1> QED BY <1>3, <1>4, SameCanPop, SameThreads

(* The transport at rest.                                                  *)
LEMMA TransportRests ==
    ASSUME UNCHANGED transportVars
    PROVE  /\ UNCHANGED <<status, outstanding, at, index, lost>>
           /\ \A i \in Index : Full(i)' <=> Full(i)
           /\ CanPop' <=> CanPop
  BY DEF transportVars, Full, Arena!In, CanPop, Transport!Populated!CanPop, Transport!Populated!Waiting,
         Transport!Populated!InState, Transport!Populated!Min

-----------------------------------------------------------------------------
(***************************************************************************)
(* The producers' steps.  An event that is submitted is a new one.         *)
(***************************************************************************)
LEMMA SubmitKeeps ==
    ASSUME Arena!ArenaInv, ServiceInv, NEW p \in Producer, Submit(p)
    PROVE  ServiceInv'
  <1>0. PICK e : e = incident + 1
    OBVIOUS
  <1>1. /\ stage[p] = "idle" /\ incident < MaxEvents /\ incident' = e /\ event' = [event EXCEPT ![p] = e]
        /\ UNCHANGED <<writerAt, observed, serviceState, hostAt, amid, content, epoch, accepted, copies>>
        /\ UNCHANGED <<status, outstanding, index, lost>>
        /\ \/ /\ status = "open" /\ at[p] = "idle" /\ at' = [at EXCEPT ![p] = "reserve"]
              /\ stage' = [stage EXCEPT ![p] = "transport"]
           \/ at' = at /\ stage' = [stage EXCEPT ![p] = "direct"]
    BY <1>0 DEF Submit, Proceeds, ProducerLeaves, writerVars, logs, transportVars, Transport!ReserveCheck,
           Transport!Moves, Transport!AllowsReserve, Transport!rings, Transport!words
  <1>2. (\A i \in Index : Full(i)' <=> Full(i)) /\ (CanPop' => CanPop)
    <2>1. CASE Transport!ReserveCheck(p)
      <3>1. ~Transport!AcquireComplete(p)
        BY <1>1, <2>1 DEF Transport!AcquireComplete, Transport!ReserveCheck, Transport!Moves
      <3> QED BY <2>1, <3>1, NothingIsPublished DEF Threads
    <2> QED BY <2>1, TransportRests DEF Submit
  <1>3. /\ Writer \notin Producer /\ Host \notin Producer \cup {Writer} /\ MaxEvents \in Nat
        /\ \E S : at \in [Threads \cup {Host} -> S]
    BY SameConstants, EpochAssumption, ArenaSays
  <1>4. e \in Event /\ e # NoEvent /\ e \in Nat /\ incident \in Nat /\ incident < e /\ incident <= MaxEvents
    BY <1>0, <1>1, <1>3 DEF ServiceInv, ServiceTypes, Event, NoEvent
  <1>5. ServiceTypes'
    BY <1>0, <1>1, <1>3, <1>4 DEF ServiceInv, ServiceTypes, Stages
  <1>6. ControlAgrees'
    BY <1>1, <1>3, <1>4 DEF ServiceInv, ControlAgrees, ServiceTypes, Threads
  <1>7. EventsInv'
    <2>1. /\ \A q \in Producer : event[q] \in Nat /\ event[q] <= incident /\ event[q] # e
          /\ \A i \in Index \ lost : content[i] \in Nat /\ content[i] <= incident /\ content[i] # e
          /\ copies[e] = 0
      BY <1>4 DEF ServiceInv, EventsInv, ProducersOwnEvents, SlotsOwnEvents, AcceptedAreKept, ServiceTypes,
                  Event, NoEvent
    <2>2. at[p] = "idle" /\ at'[p] \notin Filled /\ \A q \in Producer : q # p => at'[q] = at[q]
      BY <1>1, <1>3 DEF ServiceInv, ControlAgrees, Filled, Threads
    <2>3. \A i, f : Kept(i, f)' <=> Kept(i, f)
      BY <1>1 DEF Kept
    <2>4. \A i \in Index : ForWriter(i)' <=> ForWriter(i)
      BY <1>1, <1>2, <1>3 DEF ForWriter, Threads
    <2>5. event'[p] = e /\ \A q \in Producer : q # p => event'[q] = event[q]
      BY <1>1 DEF ServiceInv, ServiceTypes
    <2>6. ProducersOwnEvents'
      <3>1. ASSUME NEW q \in Producer
            PROVE  /\ event'[q] <= incident'
                   /\ at'[q] \in Filled => content'[index'[q]] = event'[q]
                   /\ event'[q] # NoEvent =>
                        /\ copies'[event'[q]] = 0
                        /\ \A r \in Producer : event'[r] = event'[q] => r = q
                        /\ \A i \in Index : Kept(i, event[q])' => index'[q] = i /\ at'[q] \in Filled
        <4>1. CASE q = p
          <5>1. \A i \in Index : ~Kept(i, e)'
            BY <2>1, <2>3 DEF Kept
          <5> QED BY <1>1, <1>4, <2>1, <2>2, <2>5, <4>1, <5>1
        <4>2. CASE q # p
          BY <1>1, <1>4, <2>1, <2>2, <2>3, <2>5, <4>2 DEF ServiceInv, EventsInv, ProducersOwnEvents
        <4> QED BY <4>1, <4>2
      <3> QED BY <3>1 DEF ProducersOwnEvents
    <2>7. SlotsOwnEvents'
      BY <1>1, <1>4, <2>1, <2>3, <2>4 DEF ServiceInv, EventsInv, SlotsOwnEvents, Kept, Index, Transport!Index
    <2>8. AcceptedAreKept'
      BY <1>1, <1>4, <2>4 DEF ServiceInv, EventsInv, AcceptedAreKept, Event, Index, Transport!Index, ServiceTypes
    <2> QED BY <2>6, <2>7, <2>8 DEF EventsInv
  <1>8. EpochIsBounded'
    <2>1. PICK s \in {"transport", "direct"} : stage' = [stage EXCEPT ![p] = s]
      BY <1>1
    <2>2. p \notin Unsignalled
      BY <1>1 DEF Unsignalled
    <2>3. Cardinality(Unsignalled') = Cardinality(Unsignalled) + 1 /\ Cardinality(Unsignalled) \in Nat
      <3>1. s \in {"transport", "direct", "signal"} /\ ServiceTypes
        BY DEF ServiceInv
      <3>2. /\ Cardinality(Unsignalled) \in Nat /\ Cardinality(Unsignalled') \in Nat
            /\ Cardinality(Unsignalled') = Cardinality(Unsignalled)
                - (IF p \in Unsignalled THEN 1 ELSE 0)
                + (IF s \in {"transport", "direct", "signal"} THEN 1 ELSE 0)
        BY <2>1, <3>1, UnsignalledFollows
      <3> QED BY <2>2, <3>1, <3>2
    <2> QED BY <1>0, <1>1, <1>4, <2>3 DEF ServiceInv, EpochIsBounded, ServiceTypes
  <1>9. WriterIsTold'
    BY <1>1, <1>2, ToldFramed DEF ServiceInv, ServiceTypes
  <1>10. ClosingDrains'
    BY <1>1, <1>3, DrainsFramed DEF ServiceInv, Threads
  <1> QED BY <1>5, <1>6, <1>7, <1>8, <1>9, <1>10 DEF ServiceInv

(* A step in the transport, if it keeps the events.                        *)
LEMMA InTransportKeeps ==
    ASSUME Arena!ArenaInv, ServiceInv, NEW p \in Producer, stage[p] = "transport",
           NEW s \in {"transport", "direct", "signal"}, stage' = [stage EXCEPT ![p] = s],
           NEW a \in ProducerSteps, at' = [at EXCEPT ![p] = a], s = "transport" <=> a # "idle",
           event' = event \/ (s = "signal" /\ event' = [event EXCEPT ![p] = NoEvent]),
           UNCHANGED <<incident, copies, status, writerAt, observed, serviceState, hostAt, amid, epoch>>,
           content' \in [Index -> {NoEvent} \cup Event], accepted' \subseteq Event, EventsInv',
           (CanPop' => CanPop) \/ s = "signal"
    PROVE  ServiceInv'
  <1>1. /\ Writer \notin Producer /\ Host \notin Producer \cup {Writer}
        /\ \E S : at \in [Threads \cup {Host} -> S]
    BY SameConstants, ArenaSays
  <1>2. /\ at'[p] = a /\ stage'[p] = s /\ event[p] # NoEvent /\ at[p] # "idle"
        /\ at'[Writer] = at[Writer] /\ at'[Host] = at[Host]
        /\ \A q \in Producer : q # p => at'[q] = at[q] /\ stage'[q] = stage[q] /\ event'[q] = event[q]
        /\ event'[p] = event[p] \/ (s = "signal" /\ event'[p] = NoEvent)
    BY <1>1 DEF ServiceInv, ServiceTypes, ControlAgrees, Threads
  <1>3. ServiceTypes'
    <2>1. stage' \in [Producer -> Stages] /\ event' \in [Producer -> {NoEvent} \cup Event]
      BY DEF ServiceInv, ServiceTypes, Stages
    <2> QED BY <2>1, SameConstants DEF ServiceInv, ServiceTypes, Index, Transport!Index
  <1>4. ControlAgrees'
    BY <1>2 DEF ServiceInv, ControlAgrees
  <1>5. EpochIsBounded'
    <2>1. p \in Unsignalled /\ s \in {"transport", "direct", "signal"} /\ ServiceTypes
      BY DEF Unsignalled, ServiceInv
    <2>2. Cardinality(Unsignalled') = Cardinality(Unsignalled)
      <3>1. Unsignalled' = Unsignalled
        <4>1. Unsignalled' = IF s \in {"transport", "direct", "signal"}
                             THEN Unsignalled \cup {p} ELSE Unsignalled \ {p}
          BY <2>1, UnsignalledFollows
        <4> QED BY <2>1, <4>1
      <3> QED BY <3>1
    <2> QED BY <2>2 DEF ServiceInv, EpochIsBounded
  <1>6. WriterIsTold'
    <2>1. s = "signal" => \E q \in Producer : stage'[q] = "signal"
      BY <1>2
    <2>2. \A q \in Producer : stage[q] \in {"signal", "wake"} => stage'[q] = stage[q]
      BY <1>2
    <2>3. CASE CanPop' => CanPop
      BY <2>2, <2>3, ToldFramed DEF ServiceInv
    <2>4. CASE s = "signal"
      BY <2>1, <2>4 DEF WriterIsTold, WillBeSignalled
    <2> QED BY <2>3, <2>4
  <1>7. ClosingDrains'
    BY <1>2 DEF ServiceInv, ClosingDrains
  <1> QED BY <1>3, <1>4, <1>5, <1>6, <1>7 DEF ServiceInv

LEMMA ReserveSlotKeeps ==
    ASSUME Arena!ArenaInv, Arena!ArenaInv', ServiceInv, NEW p \in Producer, ReserveSlot(p)
    PROVE  ServiceInv'
  <1>1. /\ at[p] = "reserve" /\ lost' = lost /\ status' = status
        /\ \/ at' = [at EXCEPT ![p] = "reserved"] /\ \E i : index' = [index EXCEPT ![p] = i]
           \/ at' = [at EXCEPT ![p] = "idle"] /\ index' = index
        /\ IF at'[p] = "idle" THEN Proceeds(p, "direct") ELSE UNCHANGED stage
        /\ UNCHANGED <<writerAt, observed, serviceState, hostAt, amid, content, event, incident, epoch, accepted, copies>>
    BY DEF ReserveSlot, ProducerLeaves, writerVars, logs, Transport!ReserveClaim, Transport!Moves,
           Transport!rings, Transport!words
  <1>2. /\ Writer \notin Producer /\ Host \notin Producer \cup {Writer}
        /\ \E S : at \in [Threads \cup {Host} -> S]
        /\ \E S : index \in [Threads -> S]
    BY SameConstants, ArenaSays
  <1>3. (\A i \in Index : Full(i)' <=> Full(i)) /\ (CanPop' => CanPop)
    <2>1. Transport!ReserveClaim(p) /\ ~Transport!AcquireComplete(p)
      BY <1>1 DEF ReserveSlot, Transport!AcquireComplete, Transport!Moves
    <2> QED BY <2>1, NothingIsPublished DEF Threads
  <1>4. /\ \A t \in Threads : t # p => at'[t] = at[t] /\ index'[t] = index[t]
        /\ at'[p] \in {"reserved", "idle"}
    BY <1>1, <1>2 DEF Threads
  <1>5. EventsInv'
    <2>1. \A i \in Index : ForWriter(i)' <=> ForWriter(i)
      BY <1>2, <1>3, <1>4 DEF ForWriter, Threads
    <2>2. \A q \in Producer : at'[q] = at[q] \/ (at'[q] \notin Filled /\ at[q] \notin Filled)
      BY <1>1, <1>4 DEF Filled, Threads
    <2>3. \A q \in Producer : at'[q] \in Filled => index'[q] = index[q]
      BY <1>4 DEF Filled, Threads
    <2> QED BY <1>1, <2>1, <2>2, <2>3, EventsFramed DEF ServiceInv
  <1>6. stage[p] = "transport" /\ stage \in [Producer -> Stages]
    BY <1>1 DEF ServiceInv, ControlAgrees, ServiceTypes
  <1>7. PICK a \in ProducerSteps : at' = [at EXCEPT ![p] = a] /\ a \in {"reserved", "idle"}
    BY <1>1 DEF ProducerSteps
  <1>8. at'[p] = a
    BY <1>2, <1>7 DEF Threads
  <1>9. content' \in [Index -> {NoEvent} \cup Event] /\ accepted' \subseteq Event
    BY <1>1 DEF ServiceInv, ServiceTypes
  <1>10. PICK s \in {"transport", "direct", "signal"} :
           stage' = [stage EXCEPT ![p] = s] /\ (s = "transport" <=> a # "idle")
    <2>1. stage = [stage EXCEPT ![p] = "transport"]
      BY <1>6
    <2> QED BY <1>1, <1>7, <1>8, <2>1 DEF Proceeds
  <1> QED BY <1>1, <1>3, <1>5, <1>6, <1>7, <1>9, <1>10, InTransportKeeps

LEMMA PopsSlotKeeps ==
    ASSUME Arena!ArenaInv, Arena!ArenaInv', ServiceInv, NEW p \in Producer, PopsSlot(p)
    PROVE  ServiceInv'
  <1>1. /\ at[p] = "reserved" /\ at' = [at EXCEPT ![p] = "count"]
        /\ UNCHANGED <<status, index, lost, stage, content, event, incident, writerAt, observed, serviceState, hostAt,
                      amid, epoch, accepted, copies>>
    BY DEF PopsSlot, ProducerLeaves, producerVars, writerVars, logs, Transport!ReserveComplete, Transport!Moves,
           Transport!words
  <1>2. /\ Writer \notin Producer /\ Host \notin Producer \cup {Writer}
        /\ \E S : at \in [Threads \cup {Host} -> S]
    BY SameConstants, ArenaSays
  <1>3. (\A i \in Index : Full(i)' <=> Full(i)) /\ (CanPop' => CanPop)
    <2>1. Transport!ReserveComplete(p) /\ ~Transport!AcquireComplete(p)
      BY <1>1 DEF PopsSlot, Transport!AcquireComplete, Transport!Moves
    <2> QED BY <2>1, NothingIsPublished DEF Threads
  <1>4. at'[p] = "count" /\ \A t \in Threads : t # p => at'[t] = at[t]
    BY <1>1, <1>2 DEF Threads
  <1>5. EventsInv'
    <2>1. \A i \in Index : ForWriter(i)' <=> ForWriter(i)
      BY <1>1, <1>2, <1>3, <1>4 DEF ForWriter, Threads
    <2>2. \A q \in Producer : at'[q] = at[q] \/ (at'[q] \notin Filled /\ at[q] \notin Filled)
      BY <1>1, <1>4 DEF Filled, Threads
    <2> QED BY <1>1, <2>1, <2>2, EventsFramed DEF ServiceInv
  <1>6. stage[p] = "transport" /\ stage' = [stage EXCEPT ![p] = "transport"]
    BY <1>1 DEF ServiceInv, ControlAgrees, ServiceTypes
  <1>7. content' \in [Index -> {NoEvent} \cup Event] /\ accepted' \subseteq Event
    BY <1>1 DEF ServiceInv, ServiceTypes
  <1>8. "count" \in ProducerSteps /\ "count" # "idle"
    BY DEF ProducerSteps
  <1> QED BY <1>1, <1>3, <1>5, <1>6, <1>7, <1>8, InTransportKeeps

(* The event goes into the slot that has been reserved for it.             *)
LEMMA FillSlotKeeps ==
    ASSUME Arena!ArenaInv, Arena!ArenaInv', ServiceInv, NEW p \in Producer, FillSlot(p)
    PROVE  ServiceInv'
  <1>0. PICK k : k = index[p]
    OBVIOUS
  <1>1. /\ at[p] = "count" /\ at' = [at EXCEPT ![p] = "holding"]
        /\ content' = [content EXCEPT ![k] = event[p]]
        /\ UNCHANGED <<status, index, lost, stage, event, incident, writerAt, observed, serviceState, hostAt,
                      amid, epoch, accepted, copies>>
    BY <1>0 DEF FillSlot, ProducerLeaves, writerVars, logs, Transport!ReserveCount, Transport!Moves, Transport!rings
  <1>2. /\ Writer \notin Producer /\ Host \notin Producer \cup {Writer}
        /\ \E S : at \in [Threads \cup {Host} -> S]
    BY SameConstants, ArenaSays
  <1>3. (\A i \in Index : Full(i)' <=> Full(i)) /\ (CanPop' => CanPop)
    <2>1. Transport!ReserveCount(p) /\ ~Transport!AcquireComplete(p)
      BY <1>1 DEF FillSlot, Transport!AcquireComplete, Transport!Moves
    <2> QED BY <2>1, NothingIsPublished DEF Threads
  <1>4. at'[p] = "holding" /\ \A t \in Threads : t # p => at'[t] = at[t]
    BY <1>1, <1>2 DEF Threads
  <1>5. stage[p] = "transport" /\ stage' = [stage EXCEPT ![p] = "transport"]
    BY <1>1 DEF ServiceInv, ControlAgrees, ServiceTypes
  <1>6. /\ k \in Index /\ k \notin lost /\ ~Full(k) /\ p \in Threads /\ Writer \in Threads
        /\ \A u \in Threads : index[u] = k => u = p
    <2>1. at[p] \notin EmptyHanded /\ p \in Threads
      BY <1>1 DEF EmptyHanded, Threads
    <2> QED BY <1>0, <2>1, ArenaSays
  <1>7. /\ event[p] # NoEvent /\ event[p] \in Event /\ event[p] <= incident
        /\ copies[event[p]] = 0
        /\ \A q \in Producer : event[q] = event[p] => q = p
        /\ \A i \in Index : ~Kept(i, event[p])
    BY <1>1, <1>5 DEF ServiceInv, ServiceTypes, ControlAgrees, EventsInv, ProducersOwnEvents, Filled
  <1>8. content' \in [Index -> {NoEvent} \cup Event] /\ accepted' \subseteq Event
    BY <1>1, <1>7 DEF ServiceInv, ServiceTypes
  <1>9. content'[k] = event[p] /\ \A i \in Index : i # k => content'[i] = content[i]
    BY <1>1, <1>6 DEF ServiceInv, ServiceTypes
  <1>10. (\A i \in Index : ForWriter(i)' <=> ForWriter(i)) /\ ~ForWriter(k)
    BY <1>1, <1>2, <1>3, <1>4, <1>6 DEF ForWriter, Threads
  <1>11. EventsInv'
    <2>1. ASSUME NEW q \in Producer
          PROVE  /\ event'[q] <= incident'
                 /\ at'[q] \in Filled => content'[index'[q]] = event'[q]
                 /\ event'[q] # NoEvent =>
                      /\ copies'[event'[q]] = 0
                      /\ \A r \in Producer : event'[r] = event'[q] => r = q
                      /\ \A i \in Index : content'[i] = event'[q] /\ i \notin lost' =>
                           index'[q] = i /\ at'[q] \in Filled
      <3>1. CASE q = p
        BY <1>0, <1>1, <1>4, <1>7, <1>9, <3>1 DEF Filled, Kept
      <3>2. CASE q # p
        <4>1. /\ event[q] <= incident
              /\ event[q] # NoEvent =>
                      /\ copies[event[q]] = 0
                      /\ \A r \in Producer : event[r] = event[q] => r = q
          BY DEF ServiceInv, EventsInv, ProducersOwnEvents
        <4>2. at'[q] \in Filled => content'[index'[q]] = event'[q]
          <5>1. ASSUME at[q] \in Filled PROVE index[q] \in Index /\ index[q] # k
            <6>1. at[q] \notin EmptyHanded /\ q \in Threads
              BY <5>1 DEF Filled, EmptyHanded, Threads
            <6> QED BY <1>6, <3>2, <6>1, ArenaSays
          <5> QED BY <1>1, <1>4, <1>9, <3>2, <5>1 DEF ServiceInv, EventsInv, ProducersOwnEvents, Threads
        <4>3. ASSUME NEW i \in Index, event[q] # NoEvent, content'[i] = event[q], i \notin lost
              PROVE  index[q] = i /\ at[q] \in Filled
          <5>1. i # k
            BY <1>7, <1>9, <3>2, <4>3
          <5>2. Kept(i, event[q])
            BY <1>9, <4>3, <5>1 DEF Kept
          <5> QED BY <4>3, <5>2 DEF ServiceInv, EventsInv, ProducersOwnEvents
        <4> QED BY <1>1, <1>4, <3>2, <4>1, <4>2, <4>3 DEF Threads
      <3> QED BY <3>1, <3>2
    <2>2. ProducersOwnEvents'
      BY <2>1 DEF ProducersOwnEvents, Kept
    <2>3. ASSUME NEW i \in Index, i \notin lost
          PROVE  /\ content'[i] <= incident
                 /\ ForWriter(i) => content'[i] \in accepted
                 /\ content'[i] # NoEvent =>
                      /\ copies[content'[i]] = 0
                      /\ \A j \in Index : content'[j] = content'[i] /\ j \notin lost => j = i
      <3>1. CASE i = k
        BY <1>7, <1>9, <1>10, <3>1 DEF Kept
      <3>2. CASE i # k
        BY <1>7, <1>9, <2>3, <3>2 DEF ServiceInv, EventsInv, SlotsOwnEvents, Kept
      <3> QED BY <3>1, <3>2
    <2>4. SlotsOwnEvents'
      BY <1>1, <1>10, <2>3 DEF SlotsOwnEvents, Kept, Index, Transport!Index
    <2>5. AcceptedAreKept'
      BY <1>1, <1>9, <1>10 DEF ServiceInv, EventsInv, AcceptedAreKept, Index, Transport!Index
    <2> QED BY <2>2, <2>4, <2>5 DEF EventsInv
  <1>12. "holding" \in ProducerSteps /\ "holding" # "idle"
    BY DEF ProducerSteps
  <1> QED BY <1>1, <1>3, <1>5, <1>8, <1>11, <1>12, InTransportKeeps

LEMMA PublishSlotKeeps ==
    ASSUME Arena!ArenaInv, Arena!ArenaInv', ServiceInv, NEW p \in Producer, PublishSlot(p)
    PROVE  ServiceInv'
  <1>0. PICK k : k = index[p]
    OBVIOUS
  <1>1. /\ at[p] \in {"holding", "publish"} /\ status' = status
        /\ \/ at' = [at EXCEPT ![p] = "publish"] /\ UNCHANGED <<index, lost>>
           \/ at' = [at EXCEPT ![p] = "published"] /\ UNCHANGED <<index, lost>>
           \/ at' = [at EXCEPT ![p] = "idle"] /\ lost' = lost \cup {k} /\ index' = [index EXCEPT ![p] = None]
        /\ IF at'[p] = "idle" THEN AfterRefusal(p) ELSE UNCHANGED <<stage, accepted>>
        /\ UNCHANGED <<writerAt, observed, serviceState, hostAt, amid, content, event, incident, epoch, copies>>
    BY <1>0 DEF PublishSlot, ProducerLeaves, writerVars, Transport!PublishCheck, Transport!PublishClaim,
                Transport!Moves, Transport!Drops, Transport!rings, Transport!words, None
  <1>2. /\ Writer \notin Producer /\ Host \notin Producer \cup {Writer}
        /\ \E S : at \in [Threads \cup {Host} -> S]
        /\ \E S : index \in [Threads -> S]
    BY SameConstants, ArenaSays
  <1>3. (\A i \in Index : Full(i)' <=> Full(i)) /\ (CanPop' => CanPop)
    <2>1. /\ Transport!PublishCheck(p) \/ Transport!PublishClaim(p)
          /\ ~Transport!AcquireComplete(p)
      BY <1>1 DEF PublishSlot, Transport!AcquireComplete, Transport!Moves
    <2> QED BY <2>1, NothingIsPublished DEF Threads
  <1>4. /\ \A t \in Threads : t # p => at'[t] = at[t] /\ index'[t] = index[t]
        /\ \/ at'[p] \in Filled /\ index'[p] = k /\ lost' = lost
           \/ at'[p] = "idle" /\ k \in lost' /\ lost \subseteq lost'
        /\ at[p] \in Filled
    BY <1>0, <1>1, <1>2 DEF Threads, Filled
  <1>5. accepted' = accepted
    BY <1>1 DEF AfterRefusal
  <1>6. EventsInv'
    <2>1. \A i \in Index : ForWriter(i)' <=> ForWriter(i)
      BY <1>2, <1>3, <1>4 DEF ForWriter, Threads
    <2>2. ASSUME NEW q \in Producer
          PROVE  /\ at'[q] \in Filled => at[q] \in Filled /\ index'[q] = index[q]
                 /\ at[q] \in Filled /\ at'[q] \notin Filled => index[q] \in lost'
      BY <1>0, <1>4 DEF Threads, Filled
    <2>3. lost \subseteq lost'
      BY <1>4
    <2> QED BY <1>1, <1>5, <2>1, <2>2, <2>3, EventsFramed DEF ServiceInv
  <1>7. stage[p] = "transport" /\ stage \in [Producer -> Stages]
    BY <1>1 DEF ServiceInv, ControlAgrees, ServiceTypes
  <1>8. PICK a \in ProducerSteps : at' = [at EXCEPT ![p] = a]
    BY <1>1 DEF ProducerSteps
  <1>9. at'[p] = a
    BY <1>2, <1>8 DEF Threads
  <1>10. content' \in [Index -> {NoEvent} \cup Event] /\ accepted' \subseteq Event
    BY <1>1, <1>5 DEF ServiceInv, ServiceTypes
  <1>11. PICK s \in {"transport", "direct", "signal"} :
           stage' = [stage EXCEPT ![p] = s] /\ (s = "transport" <=> a # "idle")
    <2>1. stage = [stage EXCEPT ![p] = "transport"]
      BY <1>7
    <2> QED BY <1>1, <1>9, <2>1 DEF AfterRefusal, Proceeds
  <1> QED BY <1>1, <1>3, <1>6, <1>7, <1>8, <1>10, <1>11, InTransportKeeps

(* The event that is published is accepted, and the writer's to write.     *)
LEMMA PublishedSlotKeeps ==
    ASSUME Arena!ArenaInv, Arena!ArenaInv', ServiceInv, NEW p \in Producer, PublishedSlot(p)
    PROVE  ServiceInv'
  <1>0. PICK k : k = index[p]
    OBVIOUS
  <1>1. /\ at[p] = "published" /\ at' = [at EXCEPT ![p] = "idle"] /\ index' = [index EXCEPT ![p] = None]
        /\ stage' = [stage EXCEPT ![p] = "signal"] /\ event' = [event EXCEPT ![p] = NoEvent]
        /\ accepted' = accepted \cup {event[p]}
        /\ UNCHANGED <<status, lost, content, incident, writerAt, observed, serviceState, hostAt,
                      amid, epoch, copies>>
    BY DEF PublishedSlot, ProducerLeaves, Proceeds, Forgets, writerVars, Transport!PublishComplete,
           Transport!Moves, Transport!words, None
  <1>2. /\ Writer \notin Producer /\ Host \notin Producer \cup {Writer}
        /\ \E S : at \in [Threads \cup {Host} -> S]
        /\ \E S : index \in [Threads -> S]
    BY SameConstants, ArenaSays
  <1>3. k \in Index /\ \A i \in Index : Full(i)' <=> i = k \/ Full(i)
    <2>1. Arena!PublishComplete(p) /\ p \in Arena!Thread /\ Arena!Index = Index
      BY SameThreads, SameConstants DEF PublishedSlot
    <2>2. \A i \in Index : /\ index[p] \in Index
                           /\ Arena!In(populated, i, "full")' <=> i = index[p] \/ Arena!In(populated, i, "full")
      BY <2>1, Arena!PublishedAdds
    <2>3. Index # {}
      BY SameConstants
    <2> QED BY <1>0, <2>2, <2>3 DEF Full
  <1>4. /\ at'[p] = "idle" /\ \A t \in Threads : t # p => at'[t] = at[t] /\ index'[t] = index[t]
        /\ p \in Threads /\ Writer \in Threads
    BY <1>1, <1>2 DEF Threads
  <1>5. stage[p] = "transport"
    BY <1>1 DEF ServiceInv, ControlAgrees
  <1>6. \A i \in Index : ForWriter(i)' <=> i = k \/ ForWriter(i)
    BY <1>2, <1>3, <1>4 DEF ForWriter
  <1>7. /\ event[p] # NoEvent /\ event[p] \in Event /\ event[p] <= incident /\ content[k] = event[p]
        /\ event \in [Producer -> {NoEvent} \cup Event]
    BY <1>0, <1>1, <1>5 DEF ServiceInv, ServiceTypes, ControlAgrees, EventsInv, ProducersOwnEvents, Filled
  <1>8. event'[p] = NoEvent /\ \A q \in Producer : q # p => event'[q] = event[q]
    BY <1>1, <1>7
  <1>9. incident \in Nat /\ 0 <= incident /\ NoEvent = 0
    BY EpochAssumption DEF ServiceInv, ServiceTypes, NoEvent
  <1>10. EventsInv'
    <2>1. ASSUME NEW q \in Producer
          PROVE  /\ event'[q] <= incident'
                 /\ at'[q] \in Filled => content'[index'[q]] = event'[q]
                 /\ event'[q] # NoEvent =>
                      /\ copies'[event'[q]] = 0
                      /\ \A r \in Producer : event'[r] = event'[q] => r = q
                      /\ \A i \in Index : content'[i] = event'[q] /\ i \notin lost' =>
                           index'[q] = i /\ at'[q] \in Filled
      <3>1. CASE q = p
        BY <1>4, <1>8, <1>1, <1>9, <3>1 DEF Filled
      <3>2. CASE q # p
        BY <1>1, <1>4, <1>8, <3>2 DEF ServiceInv, EventsInv, ProducersOwnEvents, Kept, Threads
      <3> QED BY <3>1, <3>2
    <2>2. ProducersOwnEvents'
      BY <2>1 DEF ProducersOwnEvents, Kept
    <2>3. SlotsOwnEvents'
      BY <1>1, <1>6, <1>7 DEF ServiceInv, EventsInv, SlotsOwnEvents, Kept, Index, Transport!Index
    <2>4. AcceptedAreKept'
      BY <1>1, <1>3, <1>6, <1>7 DEF ServiceInv, EventsInv, AcceptedAreKept, Index, Transport!Index
    <2> QED BY <2>2, <2>3, <2>4 DEF EventsInv
  <1>11. content' \in [Index -> {NoEvent} \cup Event] /\ accepted' \subseteq Event
    BY <1>1, <1>7 DEF ServiceInv, ServiceTypes
  <1>12. "idle" \in ProducerSteps
    BY DEF ProducerSteps
  <1> QED BY <1>1, <1>5, <1>10, <1>11, <1>12, InTransportKeeps

(***************************************************************************)
(* The producers' steps outside the transport.                             *)
(***************************************************************************)
LEMMA OneSignalledFor ==
    ASSUME ServiceTypes, NEW p \in Producer, stage[p] \in {"direct", "signal"},
           NEW s \in {"wake", "idle"}, stage' = [stage EXCEPT ![p] = s]
    PROVE  /\ Cardinality(Unsignalled) \in Nat /\ Cardinality(Unsignalled') \in Nat
           /\ Cardinality(Unsignalled) = Cardinality(Unsignalled') + 1
  <1>1. p \in Unsignalled
    BY DEF Unsignalled
  <1>2. s \notin {"transport", "direct", "signal"}
    OBVIOUS
  <1>3. /\ Cardinality(Unsignalled) \in Nat /\ Cardinality(Unsignalled') \in Nat
        /\ Cardinality(Unsignalled') = Cardinality(Unsignalled)
                - (IF p \in Unsignalled THEN 1 ELSE 0)
                + (IF s \in {"transport", "direct", "signal"} THEN 1 ELSE 0)
    BY UnsignalledFollows
  <1> QED BY <1>1, <1>2, <1>3

LEMMA SignalKeeps ==
    ASSUME Arena!ArenaInv, ServiceInv, NEW p \in Producer, Signal(p)
    PROVE  ServiceInv'
  <1>1. /\ stage[p] = "signal" /\ stage' = [stage EXCEPT ![p] = "wake"]
        /\ epoch' = (epoch + 1) % EpochValues /\ event' = [event EXCEPT ![p] = NoEvent]
        /\ UNCHANGED <<writerAt, observed, serviceState, hostAt, amid, content, incident, accepted, copies>>
        /\ UNCHANGED <<status, outstanding, at, index, lost>>
        /\ (\A i \in Index : Full(i)' <=> Full(i)) /\ (CanPop' <=> CanPop)
    BY TransportRests DEF Signal, Proceeds, NextEpoch, Forgets, ProducerLeaves, writerVars, logs
  <1>2. /\ stage'[p] = "wake" /\ event'[p] = NoEvent /\ at[p] = "idle"
        /\ \A q \in Producer : q # p => stage'[q] = stage[q] /\ event'[q] = event[q]
    BY <1>1 DEF ServiceInv, ServiceTypes, ControlAgrees
  <1>3. epoch' = epoch + 1 /\ EpochIsBounded' /\ epoch \in Nat /\ observed \in Nat /\ observed <= epoch
    <2>1. /\ Cardinality(Unsignalled) \in Nat /\ Cardinality(Unsignalled') \in Nat
          /\ Cardinality(Unsignalled) = Cardinality(Unsignalled') + 1
      BY <1>1, OneSignalledFor DEF ServiceInv
    <2>2. epoch \in Nat /\ incident \in 0 .. MaxEvents /\ observed \in Nat /\ observed <= epoch
      BY DEF ServiceInv, ServiceTypes, EpochIsBounded
    <2>3. epoch + 1 <= MaxEvents + 1
      BY <2>1, <2>2, EpochAssumption DEF ServiceInv, EpochIsBounded
    <2>4. epoch' = epoch + 1
      BY <1>1, <2>2, <2>3, EpochAssumption
    <2>5. epoch + Cardinality(Unsignalled) <= incident + (IF hostAt \in {"wake", "join", "stopped"} THEN 1 ELSE 0)
      BY DEF ServiceInv, EpochIsBounded
    <2> QED BY <1>1, <2>1, <2>2, <2>4, <2>5, EpochAssumption DEF EpochIsBounded
  <1>4. ServiceTypes'
    BY <1>1, <1>3 DEF ServiceInv, ServiceTypes, Stages, Index, Transport!Index
  <1>5. ControlAgrees'
    BY <1>1, <1>2 DEF ServiceInv, ControlAgrees
  <1>6. EventsInv'
    <2>1. \A i \in Index : ForWriter(i)' <=> ForWriter(i)
      BY <1>1 DEF ForWriter
    <2>2. at[p] \notin Filled
      BY <1>2 DEF Filled
    <2> QED BY <1>1, <1>2, <2>1, <2>2, EventsFramed DEF ServiceInv
  <1>7. WriterIsTold'
    <2>1. epoch' # observed'
      BY <1>1, <1>3
    <2>2. \E q \in Producer : stage'[q] \in {"signal", "wake"}
      BY <1>2
    <2> QED BY <2>1, <2>2 DEF WriterIsTold, WillBeSignalled
  <1>8. ClosingDrains'
    BY <1>1 DEF ServiceInv, ClosingDrains
  <1> QED BY <1>3, <1>4, <1>5, <1>6, <1>7, <1>8 DEF ServiceInv

LEMMA WakeUpKeeps ==
    ASSUME Arena!ArenaInv, ServiceInv, NEW p \in Producer, WakeUp(p)
    PROVE  ServiceInv'
  <1>1. /\ stage[p] = "wake" /\ stage' = [stage EXCEPT ![p] = "idle"]
        /\ writerAt' = (IF writerAt = "parked" THEN "observe" ELSE writerAt)
        /\ UNCHANGED <<observed, serviceState, hostAt, amid, content, incident, accepted, copies, epoch, event>>
        /\ UNCHANGED <<status, outstanding, at, index, lost>>
        /\ (\A i \in Index : Full(i)' <=> Full(i)) /\ (CanPop' <=> CanPop)
    BY TransportRests DEF WakeUp, Proceeds, WakeWriter, logs
  <1>2. /\ stage'[p] = "idle" /\ event[p] = NoEvent /\ at[p] = "idle"
        /\ \A q \in Producer : q # p => stage'[q] = stage[q]
    BY <1>1 DEF ServiceInv, ServiceTypes, ControlAgrees
  <1>3. ServiceTypes'
    BY <1>1 DEF ServiceInv, ServiceTypes, Stages, WriterSteps, Index, Transport!Index
  <1>4. ControlAgrees'
    BY <1>1, <1>2 DEF ServiceInv, ControlAgrees
  <1>5. EventsInv'
    <2>1. \A i \in Index : ForWriter(i)' <=> ForWriter(i)
      BY <1>1 DEF ForWriter
    <2> QED BY <1>1, <2>1, EventsFramed DEF ServiceInv
  <1>6. EpochIsBounded'
    <2>1. Unsignalled' = Unsignalled
      BY <1>1, <1>2 DEF Unsignalled
    <2> QED BY <1>1, <2>1 DEF ServiceInv, EpochIsBounded
  <1>7. WriterIsTold'
    <2>1. WillBeSignalled => WillBeSignalled'
      BY <1>1, <1>2 DEF WillBeSignalled
    <2>2. writerAt' # "parked" /\ (writerAt' = writerAt \/ writerAt' = "observe")
      BY <1>1
    <2> QED BY <1>1, <2>1, <2>2 DEF ServiceInv, WriterIsTold
  <1>8. ClosingDrains'
    BY <1>1 DEF ServiceInv, ClosingDrains
  <1> QED BY <1>3, <1>4, <1>5, <1>6, <1>7, <1>8 DEF ServiceInv

LEMMA WriteDirectKeeps ==
    ASSUME Arena!ArenaInv, ServiceInv, NEW p \in Producer, WriteDirect(p)
    PROVE  ServiceInv'
  <1>0. PICK e : e = event[p]
    OBVIOUS
  <1>1. /\ stage[p] = "direct" /\ stage' = [stage EXCEPT ![p] = "idle"]
        /\ event' = [event EXCEPT ![p] = NoEvent]
        /\ UNCHANGED <<writerAt, observed, serviceState, hostAt, amid, content, incident, epoch>>
        /\ UNCHANGED <<status, outstanding, at, index, lost>>
        /\ (\A i \in Index : Full(i)' <=> Full(i)) /\ (CanPop' <=> CanPop)
        /\ \/ accepted' = accepted /\ copies' = copies
           \/ /\ copies' = [copies EXCEPT ![e] = @ + 1]
              /\ accepted' = accepted \cup {e} \/ accepted' = accepted
    BY <1>0, TransportRests DEF WriteDirect, Proceeds, Forgets, ProducerLeaves, writerVars, logs
  <1>2. /\ stage'[p] = "idle" /\ event'[p] = NoEvent /\ at[p] = "idle"
        /\ \A q \in Producer : q # p => stage'[q] = stage[q] /\ event'[q] = event[q]
    BY <1>1 DEF ServiceInv, ServiceTypes, ControlAgrees
  <1>3. /\ e \in Event /\ copies[e] = 0 /\ e <= incident /\ incident \in Nat
        /\ \A q \in Producer : event[q] = e => q = p
        /\ \A i \in Index \ lost : content[i] # e
    <2>1. e # NoEvent /\ e \in Event
      BY <1>0, <1>1 DEF ServiceInv, ServiceTypes, ControlAgrees
    <2>2. at[p] \notin Filled
      BY <1>2 DEF Filled
    <2> QED BY <1>0, <2>1, <2>2, EpochAssumption DEF ServiceInv, ServiceTypes, EventsInv, ProducersOwnEvents, Kept
  <1>4. /\ copies' \in [Event -> 0 .. 1] /\ copies'[e] \in 0 .. 1
        /\ \A f \in Event : f # e => copies'[f] = copies[f]
        /\ accepted' \subseteq Event
        /\ e \in accepted' => copies'[e] = 1 \/ e \in accepted
        /\ \A f \in accepted' : f # e => f \in accepted
    BY <1>1, <1>3 DEF ServiceInv, ServiceTypes
  <1>5. ServiceTypes'
    BY <1>1, <1>4 DEF ServiceInv, ServiceTypes, Stages, Index, Transport!Index
  <1>6. ControlAgrees'
    BY <1>1, <1>2 DEF ServiceInv, ControlAgrees
  <1>7. EventsInv'
    <2>1. \A i \in Index : ForWriter(i)' <=> ForWriter(i)
      BY <1>1 DEF ForWriter
    <2>2. \A i, f : Kept(i, f)' <=> Kept(i, f)
      BY <1>1 DEF Kept
    <2>3. accepted \subseteq accepted'
      BY <1>1
    <2>4. ASSUME NEW q \in Producer
          PROVE  /\ event'[q] <= incident'
                 /\ at'[q] \in Filled => content'[index'[q]] = event'[q]
                 /\ event'[q] # NoEvent =>
                      /\ copies'[event'[q]] = 0
                      /\ \A r \in Producer : event'[r] = event'[q] => r = q
                      /\ \A i \in Index : content'[i] = event'[q] /\ i \notin lost' =>
                           index'[q] = i /\ at'[q] \in Filled
      <3>1. CASE q = p
        BY <1>1, <1>2, <1>3, <3>1 DEF Filled, NoEvent
      <3>2. CASE q # p
        <4>1. event[q] # e /\ (event[q] # NoEvent => event[q] \in Event)
          BY <1>3, <3>2 DEF ServiceInv, ServiceTypes
        <4> QED BY <1>1, <1>2, <1>4, <3>2, <4>1 DEF ServiceInv, EventsInv, ProducersOwnEvents, Kept
      <3> QED BY <3>1, <3>2
    <2>5. ProducersOwnEvents'
      BY <2>4 DEF ProducersOwnEvents, Kept
    <2>6. SlotsOwnEvents'
      <3>1. \A i \in Index : content[i] # NoEvent => content[i] \in Event
        BY DEF ServiceInv, ServiceTypes
      <3> QED BY <1>1, <1>3, <1>4, <2>1, <2>3, <3>1
              DEF ServiceInv, EventsInv, SlotsOwnEvents, Kept, Index, Transport!Index
    <2>7. AcceptedAreKept'
      <3>1. ASSUME NEW f \in Event, f > incident PROVE copies'[f] = 0
        <4>1. f # e
          BY <1>3, <3>1 DEF Event
        <4> QED BY <1>4, <3>1, <4>1 DEF ServiceInv, EventsInv, AcceptedAreKept
      <3>2. ASSUME NEW f \in accepted'
            PROVE  f <= incident /\ (copies'[f] = 1 \/ \E i \in Index : content[i] = f /\ ForWriter(i))
        <4>1. CASE f \in accepted
          <5>1. f <= incident /\ (copies[f] = 1 \/ \E i \in Index : content[i] = f /\ ForWriter(i))
            BY <4>1 DEF ServiceInv, EventsInv, AcceptedAreKept
          <5>2. CASE f = e
            BY <1>1, <1>3, <5>1, <5>2
          <5>3. CASE f # e
            BY <1>4, <3>2, <5>1, <5>3
          <5> QED BY <5>2, <5>3
        <4>2. CASE f \notin accepted
          BY <1>3, <1>4, <3>2, <4>2
        <4> QED BY <4>1, <4>2
      <3> QED BY <1>1, <2>1, <3>1, <3>2 DEF AcceptedAreKept, Index, Transport!Index
    <2> QED BY <2>5, <2>6, <2>7 DEF EventsInv
  <1>8. EpochIsBounded'
    <2>1. /\ Cardinality(Unsignalled) \in Nat /\ Cardinality(Unsignalled') \in Nat
          /\ Cardinality(Unsignalled) = Cardinality(Unsignalled') + 1
      BY <1>1, OneSignalledFor DEF ServiceInv
    <2> QED BY <1>1, <1>3, <2>1 DEF ServiceInv, EpochIsBounded, ServiceTypes
  <1>9. WriterIsTold'
    <2>1. \A q \in Producer : stage[q] \in {"signal", "wake"} => stage'[q] = stage[q]
      BY <1>1, <1>2
    <2> QED BY <1>1, <2>1, ToldFramed DEF ServiceInv
  <1>10. ClosingDrains'
    BY <1>1 DEF ServiceInv, ClosingDrains
  <1> QED BY <1>5, <1>6, <1>7, <1>8, <1>9, <1>10 DEF ServiceInv
-----------------------------------------------------------------------------
(***************************************************************************)
(* The writer's steps: first those outside the transport.                  *)
(***************************************************************************)
ProducersRest == UNCHANGED <<stage, event, incident, epoch, hostAt, amid>>

LEMMA OutsideTransportKeeps ==
    ASSUME Arena!ArenaInv, ServiceInv, UNCHANGED transportVars, UNCHANGED <<content, accepted, copies>>,
           ProducersRest, writerAt \notin {"none", "drain"}, writerAt' \in WriterSteps \ {"none", "drain"},
           observed' \in Nat, observed' <= epoch, WriterIsTold',
           serviceState' \in {"empty", "starting", "running", "failed", "stopped"},
           writerAt' = "finish" \/ serviceState' = "stopped" => status = "closed"
    PROVE  ServiceInv'
  <1>1. /\ UNCHANGED <<status, outstanding, at, index, lost>>
        /\ (\A i \in Index : Full(i)' <=> Full(i))
        /\ UNCHANGED <<stage, event, incident, epoch, hostAt, amid, content, accepted, copies>>
    BY TransportRests DEF ProducersRest
  <1>2. ServiceTypes'
    BY <1>1 DEF ServiceInv, ServiceTypes, Index, Transport!Index
  <1>3. ControlAgrees'
    BY <1>1 DEF ServiceInv, ControlAgrees
  <1>4. EventsInv'
    <2>1. \A i \in Index : ForWriter(i)' <=> ForWriter(i)
      BY <1>1 DEF ForWriter
    <2> QED BY <1>1, <2>1, EventsFramed DEF ServiceInv
  <1>5. EpochIsBounded'
    <2>1. Unsignalled' = Unsignalled
      BY <1>1 DEF Unsignalled
    <2> QED BY <1>1, <2>1 DEF ServiceInv, EpochIsBounded
  <1>6. ClosingDrains'
    BY <1>1 DEF ServiceInv, ClosingDrains
  <1> QED BY <1>2, <1>3, <1>4, <1>5, <1>6 DEF ServiceInv

LEMMA WriterOutsideKeeps ==
    ASSUME Arena!ArenaInv, ServiceInv,
           WriterStarts \/ WriterChecks \/ WriterWaits \/ WriterFinishes \/ WriterReturnsSpuriously
    PROVE  ServiceInv'
  <1>1. /\ UNCHANGED transportVars /\ UNCHANGED <<content, accepted, copies>> /\ ProducersRest
        /\ observed' \in {0, observed}
        /\ \/ writerAt = "opening" /\ writerAt' \in {"observe", "ended"} /\ serviceState' \in {"running", "failed"}
           \/ /\ writerAt = "status" /\ writerAt' = (IF status = "closed" THEN "finish" ELSE "wait")
              /\ UNCHANGED <<serviceState, observed>>
           \/ /\ writerAt = "wait" /\ writerAt' = (IF epoch = observed THEN "parked" ELSE "observe")
              /\ UNCHANGED serviceState
           \/ writerAt = "finish" /\ writerAt' = "ended" /\ serviceState' = "stopped"
           \/ writerAt = "parked" /\ writerAt' = "observe" /\ UNCHANGED serviceState
    BY DEF WriterStarts, WriterChecks, WriterWaits, WriterFinishes, WriterReturnsSpuriously, WriterMoves,
           WriterLeaves, producerVars, logs, ProducersRest
  <1>2. (CanPop' <=> CanPop) /\ status' = status /\ UNCHANGED <<stage, hostAt, epoch>>
    BY <1>1, TransportRests DEF ProducersRest
  <1>3. writerAt \notin {"none", "drain"} /\ writerAt' \in WriterSteps \ {"none", "drain"}
    BY <1>1 DEF WriterSteps
  <1>4. observed' \in Nat /\ observed' <= epoch
    BY <1>1 DEF ServiceInv, ServiceTypes, EpochIsBounded
  <1>5. WriterIsTold'
    <2>1. CASE writerAt = "status" /\ writerAt' = (IF status = "closed" THEN "finish" ELSE "wait")
               /\ UNCHANGED <<serviceState, observed>>
      BY <1>2, <2>1 DEF ServiceInv, WriterIsTold, WillBeSignalled
    <2>2. CASE writerAt = "wait" /\ writerAt' = (IF epoch = observed THEN "parked" ELSE "observe")
      BY <1>2, <2>2 DEF ServiceInv, WriterIsTold, WillBeSignalled
    <2>3. CASE writerAt' \in {"observe", "ended"}
      BY <2>3 DEF WriterIsTold
    <2> QED BY <1>1, <2>1, <2>2, <2>3
  <1>6. /\ serviceState' \in {"empty", "starting", "running", "failed", "stopped"}
        /\ writerAt' = "finish" \/ serviceState' = "stopped" => status = "closed"
    BY <1>1 DEF ServiceInv, ServiceTypes, ClosingDrains
  <1> QED BY <1>1, <1>3, <1>4, <1>5, <1>6, OutsideTransportKeeps

(* To observe is to begin to drain.                                        *)
LEMMA WriterObservesKeeps ==
    ASSUME Arena!ArenaInv, ServiceInv, WriterObserves
    PROVE  ServiceInv'
  <1>1. /\ writerAt = "observe" /\ writerAt' = "drain" /\ observed' = epoch
        /\ UNCHANGED <<stage, event, incident, epoch, hostAt, amid, content, accepted, copies, serviceState>>
        /\ UNCHANGED <<status, outstanding, at, index, lost>>
        /\ (\A i \in Index : Full(i)' <=> Full(i))
    BY TransportRests DEF WriterObserves, WriterMoves, WriterLeaves, producerVars, logs
  <1>2. ServiceTypes'
    BY <1>1 DEF ServiceInv, ServiceTypes, WriterSteps, Index, Transport!Index
  <1>3. ControlAgrees'
    BY <1>1 DEF ServiceInv, ControlAgrees
  <1>4. EventsInv'
    <2>1. \A i \in Index : ForWriter(i)' <=> ForWriter(i)
      BY <1>1 DEF ForWriter
    <2> QED BY <1>1, <2>1, EventsFramed DEF ServiceInv
  <1>5. EpochIsBounded'
    <2>1. Unsignalled' = Unsignalled
      BY <1>1 DEF Unsignalled
    <2> QED BY <1>1, <2>1 DEF ServiceInv, ServiceTypes, EpochIsBounded
  <1>6. WriterIsTold' /\ ClosingDrains'
    BY <1>1 DEF ServiceInv, WriterIsTold, ClosingDrains
  <1> QED BY <1>2, <1>3, <1>4, <1>5, <1>6 DEF ServiceInv

(***************************************************************************)
(* A step of the writer in the transport, if it keeps the events.          *)
(***************************************************************************)
LEMMA WriterInTransportKeeps ==
    ASSUME Arena!ArenaInv, ServiceInv, writerAt = "drain",
           NEW a \in ConsumerSteps, at' = [at EXCEPT ![Writer] = a],
           writerAt' = "drain" \/ (writerAt' = "status" /\ a = "idle" /\ (CanPop' => status' = "closed")),
           ProducersRest, UNCHANGED <<observed, serviceState>>,
           content' \in [Index -> {NoEvent} \cup Event], accepted' \subseteq Event, copies' \in [Event -> 0 .. 1],
           EventsInv', status' = status \/ (status = "closing" /\ status' = "closed"),
           amid = {} /\ status # "open" /\ (status' = "closed" \/ a = "close" \/ at[Host] = "close") => outstanding' = 0
    PROVE  ServiceInv'
  <1>1. /\ Writer \notin Producer /\ Host \notin Producer \cup {Writer}
        /\ \E S : at \in [Threads \cup {Host} -> S]
    BY SameConstants, ArenaSays
  <1>2. /\ UNCHANGED <<stage, event, incident, epoch, hostAt, amid, observed, serviceState>>
        /\ at'[Writer] = a /\ at'[Host] = at[Host] /\ \A p \in Producer : at'[p] = at[p]
    BY <1>1 DEF ProducersRest, Threads
  <1>3. ServiceTypes'
    BY <1>2 DEF ServiceInv, ServiceTypes, WriterSteps, Index, Transport!Index
  <1>4. ControlAgrees'
    BY <1>2 DEF ServiceInv, ControlAgrees, BeforeClosing, AfterClosing
  <1>5. EpochIsBounded'
    <2>1. Unsignalled' = Unsignalled
      BY <1>2 DEF Unsignalled
    <2> QED BY <1>2, <2>1 DEF ServiceInv, EpochIsBounded
  <1>6. WriterIsTold'
    BY DEF WriterIsTold
  <1>7. ClosingDrains'
    BY <1>2 DEF ServiceInv, ClosingDrains
  <1> QED BY <1>3, <1>4, <1>5, <1>6, <1>7 DEF ServiceInv

(* A step of the writer that leaves the events where they are, whoever     *)
(* owns their slots.                                                       *)
LEMMA WriterMovesNoEvent ==
    ASSUME Arena!ArenaInv, ServiceInv, \A p \in Producer : at'[p] = at[p] /\ index'[p] = index[p],
           \A i \in Index : ForWriter(i)' <=> ForWriter(i), lost \subseteq lost',
           UNCHANGED <<event, content, incident, accepted, copies>>
    PROVE  EventsInv'
  BY EventsFramed DEF ServiceInv

LEMMA WriterAcquiresKeeps ==
    ASSUME Arena!ArenaInv, ServiceInv, WriterAcquires
    PROVE  ServiceInv'
  <1>1. /\ writerAt = "drain" /\ ProducersRest /\ status' = status /\ outstanding' = outstanding /\ lost' = lost
        /\ UNCHANGED <<observed, serviceState, event, content, incident, accepted, copies>>
    BY DEF WriterAcquires, WriterLeaves, ProducersRest, producerVars, logs, transportVars,
           Transport!AcquireCheck, Transport!AcquireClaim, Transport!AcquireComplete, Transport!Moves,
           Transport!rings, Transport!words
  <1>2. /\ Writer \notin Producer /\ Host \notin Producer \cup {Writer} /\ Writer \in Threads
        /\ \E S : at \in [Threads \cup {Host} -> S]
        /\ \E S : index \in [Threads -> S]
        /\ \A i \in Index : Full(i) => index[Writer] # i
        /\ at[Writer] \in EmptyHanded => index[Writer] = None
        /\ None \notin Index
    BY SameConstants, ArenaSays DEF Threads
  <1>3. /\ content' \in [Index -> {NoEvent} \cup Event] /\ accepted' \subseteq Event /\ copies' \in [Event -> 0 .. 1]
        /\ status \in {"open", "closing", "closed"} /\ \A p \in Producer : p \in Threads /\ p # Writer
    BY <1>1, <1>2 DEF ServiceInv, ServiceTypes, ControlAgrees, Threads
  <1>4. amid = {} /\ status # "open" /\ (status' = "closed" \/ at[Host] = "close") => outstanding' = 0
    BY <1>1 DEF ServiceInv, ClosingDrains
  <1>5. ASSUME NEW a \in ConsumerSteps, at' = [at EXCEPT ![Writer] = a], a # "close",
               writerAt' = "drain" \/ (writerAt' = "status" /\ a = "idle" /\ (CanPop' => status' = "closed")),
               \A i \in Index : ForWriter(i)' <=> ForWriter(i),
               \A t \in Threads : t # Writer => index'[t] = index[t]
        PROVE  ServiceInv'
    <2>1. EventsInv'
      <3>1. \A p \in Producer : at'[p] = at[p] /\ index'[p] = index[p]
        BY <1>2, <1>3, <1>5 DEF Threads
      <3> QED BY <1>1, <1>5, <3>1, WriterMovesNoEvent
    <2>2. amid = {} /\ status # "open" /\ (status' = "closed" \/ a = "close" \/ at[Host] = "close") => outstanding' = 0
      BY <1>4, <1>5
    <2> QED BY <1>1, <1>3, <1>5, <2>1, <2>2, WriterInTransportKeeps
  <1>6. CASE Transport!AcquireCheck(Writer) /\ UNCHANGED writerAt
    <2>1. at[Writer] = "idle" /\ at' = [at EXCEPT ![Writer] = "acquire"] /\ index' = index
      BY <1>6 DEF Transport!AcquireCheck, Transport!Moves
    <2>2. \A i \in Index : Full(i)' <=> Full(i)
      BY <1>2, <1>6, NothingIsPublished
    <2>3. \A i \in Index : ForWriter(i)' <=> ForWriter(i)
      BY <1>2, <2>1, <2>2 DEF ForWriter, Threads
    <2>4. "acquire" \in ConsumerSteps /\ "acquire" # "close"
      BY DEF ConsumerSteps
    <2> QED BY <1>1, <1>5, <1>6, <2>1, <2>3, <2>4
  <1>7. CASE /\ at[Writer] = "idle" /\ ~Transport!AllowsAcquireOrComplete
             /\ writerAt' = "status" /\ UNCHANGED transportVars
    <2>1. at' = at /\ index' = index /\ status' = "closed"
      BY <1>3, <1>7 DEF transportVars, Transport!AllowsAcquireOrComplete
    <2>2. at' = [at EXCEPT ![Writer] = "idle"]
      BY <1>2, <1>7, <2>1
    <2>3. \A i \in Index : ForWriter(i)' <=> ForWriter(i)
      BY <1>7, <2>1, TransportRests DEF ForWriter
    <2>4. "idle" \in ConsumerSteps /\ "idle" # "close"
      BY DEF ConsumerSteps
    <2> QED BY <1>1, <1>5, <1>7, <2>1, <2>2, <2>3, <2>4
  <1>8. CASE Transport!AcquireClaim(Writer) /\ writerAt' = IF at'[Writer] = "idle" THEN "status" ELSE "drain"
    <2>1. Arena!AcquireClaim(Writer) /\ Writer \in Arena!Thread /\ Arena!Index = Index
      BY <1>8, SameThreads, SameConstants
    <2>2. at[Writer] = "acquire" /\ index[Writer] = None
      BY <1>2, <1>8 DEF Transport!AcquireClaim, Transport!Moves, EmptyHanded
    <2>3. CASE /\ at' = [at EXCEPT ![Writer] = "acquired"]
               /\ \E i \in Index :
                    /\ index' = [index EXCEPT ![Writer] = i] /\ Full(i)
                    /\ \A j \in Index : Full(j)' <=> j # i /\ Full(j)
      <3>1. PICK i \in Index : /\ index' = [index EXCEPT ![Writer] = i] /\ Full(i)
                               /\ \A j \in Index : Full(j)' <=> j # i /\ Full(j)
        BY <2>3
      <3>2. at'[Writer] = "acquired" /\ index'[Writer] = i /\ \A t \in Threads : t # Writer => index'[t] = index[t]
        BY <1>2, <2>3, <3>1
      <3>3. \A j \in Index : ForWriter(j)' <=> ForWriter(j)
        BY <2>2, <3>1, <3>2 DEF ForWriter
      <3>4. "acquired" \in ConsumerSteps /\ "acquired" # "close" /\ writerAt' = "drain"
        BY <1>8, <3>2 DEF ConsumerSteps
      <3> QED BY <1>5, <2>3, <3>2, <3>3, <3>4
    <2>4. CASE at' = [at EXCEPT ![Writer] = "idle"] /\ ~CanPop /\ UNCHANGED <<index, populated>>
      <3>1. ~CanPop' /\ \A i \in Index : Full(i)' <=> Full(i)
        BY <2>4 DEF CanPop, Transport!Populated!CanPop, Transport!Populated!Waiting,
                    Transport!Populated!InState, Transport!Populated!Min, Full, Arena!In
      <3>2. at'[Writer] = "idle" /\ writerAt' = "status"
        BY <1>2, <1>8, <2>4
      <3>3. \A i \in Index : ForWriter(i)' <=> ForWriter(i)
        BY <2>2, <3>1, <3>2 DEF ForWriter
      <3>4. "idle" \in ConsumerSteps /\ "idle" # "close"
        BY DEF ConsumerSteps
      <3> QED BY <1>5, <2>4, <3>1, <3>2, <3>3, <3>4
    <2>5. \/ /\ at' = [at EXCEPT ![Writer] = "acquired"]
             /\ \E i \in Arena!Index :
                  /\ index' = [index EXCEPT ![Writer] = i] /\ Arena!In(populated, i, "full")
                  /\ \A j \in Arena!Index : Arena!In(populated, j, "full")' <=> j # i /\ Arena!In(populated, j, "full")
          \/ at' = [at EXCEPT ![Writer] = "idle"] /\ ~Arena!Populated!CanPop /\ UNCHANGED <<index, populated>>
      BY <2>1, Arena!AcquiredTakes
    <2>6. CASE /\ at' = [at EXCEPT ![Writer] = "acquired"]
               /\ \E i \in Arena!Index :
                    /\ index' = [index EXCEPT ![Writer] = i] /\ Arena!In(populated, i, "full")
                    /\ \A j \in Arena!Index : Arena!In(populated, j, "full")' <=> j # i /\ Arena!In(populated, j, "full")
      BY <2>1, <2>3, <2>6 DEF Full
    <2> QED BY <2>4, <2>5, <2>6, SameCanPop
  <1>9. CASE Transport!AcquireComplete(Writer) /\ UNCHANGED writerAt
    <2>1. at[Writer] = "acquired" /\ at' = [at EXCEPT ![Writer] = "holding"] /\ index' = index
      BY <1>9 DEF Transport!AcquireComplete, Transport!Moves
    <2>2. \A i \in Index : Full(i)' <=> Full(i)
      BY <1>2, <1>9, NothingIsPublished
    <2>3. \A i \in Index : ForWriter(i)' <=> ForWriter(i)
      BY <1>2, <2>1, <2>2 DEF ForWriter, Threads
    <2>4. "holding" \in ConsumerSteps /\ "holding" # "close"
      BY DEF ConsumerSteps
    <2> QED BY <1>1, <1>5, <1>9, <2>1, <2>3, <2>4
  <1> QED BY <1>6, <1>7, <1>8, <1>9 DEF WriterAcquires

(* What the writer has is an event that was accepted and not written; then *)
(* it has been, and no slot has it.                                        *)
LEMMA WriterWritesKeeps ==
    ASSUME Arena!ArenaInv, ServiceInv, WriterWrites
    PROVE  ServiceInv'
  <1>0. PICK k, e : k = index[Writer] /\ e = content[k]
    OBVIOUS
  <1>1. /\ at[Writer] = "holding" /\ Transport!RecycleCheck(Writer)
        /\ status' = status /\ outstanding' = outstanding /\ UNCHANGED writerAt
        /\ \/ at' = [at EXCEPT ![Writer] = "recycle"] /\ UNCHANGED <<index, lost>>
           \/ at' = [at EXCEPT ![Writer] = "idle"] /\ lost' = lost \cup {k} /\ index' = [index EXCEPT ![Writer] = None]
        /\ content' = [content EXCEPT ![k] = NoEvent] /\ copies' = [copies EXCEPT ![e] = @ + 1]
        /\ ProducersRest /\ UNCHANGED <<observed, serviceState, event, incident, accepted>>
    BY <1>0 DEF WriterWrites, ProducersRest, writerVars, Transport!RecycleCheck, Transport!Moves,
                Transport!Drops, Transport!rings, Transport!words, None
  <1>2. /\ Writer \notin Producer /\ Host \notin Producer \cup {Writer} /\ Writer \in Threads
        /\ \E S : at \in [Threads \cup {Host} -> S]
        /\ \E S : index \in [Threads -> S]
        /\ \A p \in Producer : p \in Threads /\ p # Writer
    BY SameConstants, ArenaSays DEF Threads
  <1>3. k \in Index /\ k \notin lost /\ ~Full(k) /\ \A u \in Threads : index[u] = k => u = Writer
    <2>1. at[Writer] \notin EmptyHanded
      BY <1>1 DEF EmptyHanded
    <2> QED BY <1>0, <1>2, <2>1, ArenaSays
  <1>4. ForWriter(k) /\ writerAt = "drain"
    BY <1>0, <1>1 DEF ForWriter, ServiceInv, ControlAgrees
  <1>5. /\ e \in accepted /\ e \in Event /\ e # NoEvent /\ copies[e] = 0 /\ e <= incident /\ incident \in Nat
        /\ \A j \in Index : content[j] = e /\ j \notin lost => j = k
        /\ \A p \in Producer : event[p] # e
    <2>1. e \in accepted /\ e \in Event /\ e # NoEvent /\ e <= incident /\ incident \in Nat
      BY <1>0, <1>3, <1>4, EpochAssumption DEF ServiceInv, EventsInv, SlotsOwnEvents, ServiceTypes, Event, NoEvent
    <2>2. copies[e] = 0 /\ \A j \in Index : content[j] = e /\ j \notin lost => j = k
      BY <1>0, <1>3, <2>1 DEF ServiceInv, EventsInv, SlotsOwnEvents, Kept
    <2>3. ASSUME NEW p \in Producer PROVE event[p] # e
      <3>1. Kept(k, e)
        BY <1>0, <1>3 DEF Kept
      <3>2. event[p] = e => index[p] = k
        BY <1>3, <2>1, <3>1 DEF ServiceInv, EventsInv, ProducersOwnEvents
      <3> QED BY <1>2, <1>3, <3>2
    <2> QED BY <2>1, <2>2, <2>3
  <1>6. /\ content' \in [Index -> {NoEvent} \cup Event] /\ accepted' \subseteq Event /\ copies' \in [Event -> 0 .. 1]
        /\ content'[k] = NoEvent /\ \A i \in Index : i # k => content'[i] = content[i]
        /\ copies'[e] = 1 /\ \A f \in Event : f # e => copies'[f] = copies[f]
    BY <1>1, <1>3, <1>5 DEF ServiceInv, ServiceTypes
  <1>7. /\ at'[Writer] \in {"recycle", "idle"}
        /\ \A p \in Producer : at'[p] = at[p] /\ index'[p] = index[p]
        /\ lost \subseteq lost'
    BY <1>1, <1>2 DEF Threads
  <1>8. \A i \in Index : ForWriter(i)' <=> ForWriter(i) /\ i # k
    <2>1. \A i \in Index : Full(i)' <=> Full(i)
      BY <1>1, <1>2, NothingIsPublished
    <2> QED BY <1>0, <1>1, <1>3, <1>7, <2>1 DEF ForWriter
  <1>9. EventsInv'
    <2>1. ASSUME NEW p \in Producer
          PROVE  /\ event'[p] <= incident'
                 /\ at'[p] \in Filled => content'[index'[p]] = event'[p]
                 /\ event'[p] # NoEvent =>
                      /\ copies'[event'[p]] = 0
                      /\ \A r \in Producer : event'[r] = event'[p] => r = p
                      /\ \A i \in Index : content'[i] = event'[p] /\ i \notin lost' =>
                           index'[p] = i /\ at'[p] \in Filled
      <3>1. at[p] \in Filled => index[p] \in Index /\ index[p] # k
        <4>1. at[p] \in Filled => at[p] \notin EmptyHanded
          BY DEF Filled, EmptyHanded
        <4> QED BY <1>2, <1>3, <4>1, ArenaSays
      <3>2. event[p] # e /\ (event[p] # NoEvent => event[p] \in Event)
        BY <1>5 DEF ServiceInv, ServiceTypes
      <3>3. \A i \in Index : content'[i] = event[p] /\ i \notin lost' /\ event[p] # NoEvent =>
               content[i] = event[p] /\ i \notin lost
        BY <1>6, <1>7
      <3>4. at'[p] \in Filled => content'[index'[p]] = event'[p]
        BY <1>1, <1>6, <1>7, <3>1 DEF ServiceInv, EventsInv, ProducersOwnEvents
      <3> QED BY <1>1, <1>6, <1>7, <3>2, <3>3, <3>4 DEF ServiceInv, EventsInv, ProducersOwnEvents, Kept
    <2>2. ProducersOwnEvents'
      BY <2>1 DEF ProducersOwnEvents, Kept
    <2>3. ASSUME NEW i \in Index, i \notin lost'
          PROVE  /\ content'[i] <= incident
                 /\ ForWriter(i) /\ i # k => content'[i] \in accepted
                 /\ content'[i] # NoEvent =>
                      /\ copies'[content'[i]] = 0
                      /\ \A j \in Index : content'[j] = content'[i] /\ j \notin lost' => j = i
      <3>1. CASE i = k
        BY <1>5, <1>6, <3>1 DEF NoEvent
      <3>2. CASE i # k
        <4>1. content'[i] = content[i] /\ i \notin lost /\ content[i] # e
          BY <1>5, <1>6, <1>7, <2>3, <3>2
        <4>2. content[i] # NoEvent => content[i] \in Event /\ copies'[content[i]] = copies[content[i]]
          BY <1>6, <4>1 DEF ServiceInv, ServiceTypes
        <4>3. \A j \in Index : content'[j] = content[i] /\ content[i] # NoEvent /\ j \notin lost' =>
                 content[j] = content[i] /\ j \notin lost
          BY <1>6, <1>7
        <4> QED BY <4>1, <4>2, <4>3 DEF ServiceInv, EventsInv, SlotsOwnEvents, Kept
      <3> QED BY <3>1, <3>2
    <2>4. SlotsOwnEvents'
      BY <1>1, <1>8, <2>3 DEF SlotsOwnEvents, Kept, Index, Transport!Index
    <2>5. AcceptedAreKept'
      <3>1. ASSUME NEW f \in Event, f > incident PROVE copies'[f] = 0
        <4>1. f # e
          BY <1>5, <3>1 DEF Event
        <4> QED BY <1>6, <3>1, <4>1 DEF ServiceInv, EventsInv, AcceptedAreKept
      <3>2. ASSUME NEW f \in accepted
            PROVE  f <= incident /\ (copies'[f] = 1 \/ \E i \in Index : content'[i] = f /\ ForWriter(i)')
        <4>1. f \in Event /\ f <= incident /\ (copies[f] = 1 \/ \E i \in Index : content[i] = f /\ ForWriter(i))
          BY <3>2 DEF ServiceInv, ServiceTypes, EventsInv, AcceptedAreKept
        <4>2. CASE f = e
          BY <1>6, <4>1, <4>2
        <4>3. CASE f # e
          BY <1>0, <1>6, <1>8, <4>1, <4>3
        <4> QED BY <4>2, <4>3
      <3> QED BY <1>1, <3>1, <3>2 DEF AcceptedAreKept, Index, Transport!Index
    <2> QED BY <2>2, <2>4, <2>5 DEF EventsInv
  <1>10. PICK a \in ConsumerSteps : at' = [at EXCEPT ![Writer] = a] /\ a # "close"
    BY <1>1 DEF ConsumerSteps
  <1>11. amid = {} /\ status # "open" /\ (status' = "closed" \/ a = "close" \/ at[Host] = "close") => outstanding' = 0
    BY <1>1, <1>10 DEF ServiceInv, ClosingDrains
  <1> QED BY <1>1, <1>4, <1>6, <1>9, <1>10, <1>11, WriterInTransportKeeps

LEMMA WriterRecyclesKeeps ==
    ASSUME Arena!ArenaInv, ServiceInv, WriterRecycles
    PROVE  ServiceInv'
  <1>1. /\ ProducersRest /\ UNCHANGED <<observed, serviceState, writerAt, event, content, incident, accepted, copies>>
        /\ \E j : index' = index \/ index' = [index EXCEPT ![Writer] = j]
        /\ lost \subseteq lost'
        /\ \/ /\ at[Writer] \in {"recycle", "recycled"} /\ UNCHANGED <<status, outstanding>>
              /\ \E a \in {"idle", "recycled", "uncount"} : at' = [at EXCEPT ![Writer] = a]
           \/ /\ at[Writer] = "uncount" /\ status' = status /\ outstanding' = outstanding - 1
              /\ at' = [at EXCEPT ![Writer] = IF outstanding = 1 THEN "close" ELSE "idle"]
           \/ /\ at[Writer] = "close" /\ outstanding' = outstanding /\ at' = [at EXCEPT ![Writer] = "idle"]
              /\ status' = IF status = "closing" THEN "closed" ELSE status
    BY DEF WriterRecycles, WriterLeaves, ProducersRest, producerVars, writerVars, logs, Transport!RecycleClaim,
           Transport!RecycleComplete, Transport!RecycleCount, Transport!RecycleClose, Transport!Moves,
           Transport!Drops, Transport!rings, Transport!words
  <1>2. /\ Writer \notin Producer /\ Host \notin Producer \cup {Writer} /\ Writer \in Threads
        /\ \E S : at \in [Threads \cup {Host} -> S]
        /\ \E S : index \in [Threads -> S]
        /\ \A p \in Producer : p \in Threads /\ p # Writer
    BY SameConstants, ArenaSays DEF Threads
  <1>3. /\ outstanding \in Nat /\ outstanding = 0 => at[Writer] # "uncount"
    BY Arena!NothingIsOut, SameConstants
  <1>4. PICK a \in {"idle", "recycled", "uncount", "close"} :
          /\ at' = [at EXCEPT ![Writer] = a]
          /\ a = "close" => outstanding' = 0
    BY <1>1
  <1>5. writerAt = "drain" /\ writerAt' = "drain" /\ a \in ConsumerSteps
    BY <1>1 DEF ServiceInv, ControlAgrees, ConsumerSteps
  <1>6. /\ content' \in [Index -> {NoEvent} \cup Event] /\ accepted' \subseteq Event /\ copies' \in [Event -> 0 .. 1]
    BY <1>1 DEF ServiceInv, ServiceTypes
  <1>7. EventsInv'
    <2>1. \A p \in Producer : at'[p] = at[p] /\ index'[p] = index[p]
      BY <1>1, <1>2, <1>4 DEF Threads
    <2>2. \A i \in Index : Full(i)' <=> Full(i)
      BY <1>2, NothingIsPublished DEF WriterRecycles
    <2>3. at[Writer] \notin {"acquired", "holding"} /\ at'[Writer] \notin {"acquired", "holding"}
      BY <1>1, <1>2, <1>4
    <2>4. \A i \in Index : ForWriter(i)' <=> ForWriter(i)
      BY <2>2, <2>3 DEF ForWriter
    <2> QED BY <1>1, <2>1, <2>4, WriterMovesNoEvent
  <1>8. status' = status \/ (status = "closing" /\ status' = "closed")
    BY <1>1
  <1>9. amid = {} /\ status # "open" /\ (status' = "closed" \/ a = "close" \/ at[Host] = "close") => outstanding' = 0
    BY <1>1, <1>3, <1>4 DEF ServiceInv, ClosingDrains
  <1> QED BY <1>1, <1>4, <1>5, <1>6, <1>7, <1>8, <1>9, WriterInTransportKeeps
-----------------------------------------------------------------------------
(***************************************************************************)
(* The host's steps.                                                       *)
(***************************************************************************)
HostRests == UNCHANGED <<stage, event, incident, content, observed, accepted, copies>>

(* A step of the host keeps the events: it has none.                       *)
LEMMA HostMovesNoEvent ==
    ASSUME Arena!ArenaInv, ServiceInv, HostRests, UNCHANGED <<populated, index, lost>>,
           \A t \in Threads : at'[t] = at[t]
    PROVE  EventsInv' /\ Unsignalled' = Unsignalled /\ (CanPop' <=> CanPop)
  <1>1. (\A i \in Index : Full(i)' <=> Full(i)) /\ (CanPop' <=> CanPop)
    BY DEF Full, Arena!In, CanPop, Transport!Populated!CanPop, Transport!Populated!Waiting,
           Transport!Populated!InState, Transport!Populated!Min
  <1>2. /\ UNCHANGED <<content, incident, accepted, copies, event, index>> /\ lost \subseteq lost'
        /\ Unsignalled' = Unsignalled
    BY DEF HostRests, Unsignalled
  <1>3. Writer \in Threads /\ Producer \subseteq Threads
    BY DEF Threads
  <1>4. \A i \in Index : ForWriter(i)' <=> ForWriter(i)
    BY <1>1, <1>2, <1>3 DEF ForWriter
  <1> QED BY <1>1, <1>2, <1>3, <1>4, EventsFramed DEF ServiceInv

(* Steps before the closing begins.                                        *)
LEMMA HostStartsKeeps ==
    ASSUME Arena!ArenaInv, ServiceInv, HostStarts \/ HostAwaitsWriter
    PROVE  ServiceInv'
  <1>1. /\ HostRests /\ UNCHANGED transportVars /\ UNCHANGED <<epoch, amid>>
        /\ hostAt \in BeforeClosing /\ hostAt' \in {"await", "unstarted", "started"}
        /\ \/ UNCHANGED <<writerAt, serviceState>>
           \/ hostAt = "idle" /\ writerAt' = "opening" /\ serviceState' = "starting"
    BY DEF HostStarts, HostAwaitsWriter, HostMoves, HostLeaves, HostRests, producerVars, logs, BeforeClosing
  <1>2. UNCHANGED <<status, outstanding, at, index, lost, populated, observed, stage, event>>
    BY <1>1 DEF transportVars, HostRests
  <1>3. EventsInv' /\ Unsignalled' = Unsignalled /\ (CanPop' <=> CanPop)
    BY <1>1, <1>2, HostMovesNoEvent
  <1>4. ServiceTypes'
    BY <1>1, <1>2 DEF ServiceInv, ServiceTypes, HostRests, BeforeClosing, WriterSteps, Index, Transport!Index
  <1>5. ControlAgrees'
    <2>1. hostAt' \in BeforeClosing /\ hostAt' # "closing" /\ hostAt' \notin AfterClosing /\ hostAt' # "idle"
      BY <1>1 DEF BeforeClosing, AfterClosing
    <2>2. hostAt = "idle" => at[Writer] = "idle"
      BY DEF ServiceInv, ControlAgrees
    <2> QED BY <1>1, <1>2, <2>1, <2>2 DEF ServiceInv, ControlAgrees
  <1>6. EpochIsBounded'
    <2>1. hostAt \notin {"wake", "join", "stopped"} /\ hostAt' \notin {"wake", "join", "stopped"}
      BY <1>1 DEF BeforeClosing
    <2> QED BY <1>1, <1>2, <1>3, <2>1 DEF ServiceInv, EpochIsBounded, HostRests
  <1>7. WriterIsTold'
    <2>1. hostAt \notin {"signal", "wake"} /\ hostAt' \notin {"signal", "wake"}
      BY <1>1 DEF BeforeClosing
    <2> QED BY <1>1, <1>2, <1>3, <2>1 DEF ServiceInv, WriterIsTold, WillBeSignalled
  <1>8. ClosingDrains'
    BY <1>1, <1>2 DEF ServiceInv, ClosingDrains
  <1> QED BY <1>3, <1>4, <1>5, <1>6, <1>7, <1>8 DEF ServiceInv

(* The closing begins: a call under way then is one that amid tells of.    *)
LEMMA HostBeginsClosingKeeps ==
    ASSUME Arena!ArenaInv, ServiceInv, HostBeginsClosing
    PROVE  ServiceInv'
  <1>1. /\ HostRests /\ UNCHANGED <<epoch, writerAt, serviceState, populated, index, lost, outstanding>>
        /\ hostAt = "started" /\ hostAt' = "closing" /\ status = "open" /\ status' = "closing"
        /\ at' = [at EXCEPT ![Host] = "closing"]
        /\ amid' = {w \in {"submission"} : \E p \in Producer : stage[p] # "idle"}
                   \cup {w \in {"recycle"} : at[Writer] = "close"}
    BY DEF HostBeginsClosing, HostMoves, HostLeaves, HostRests, producerVars, logs, Transport!BeginClosing,
           Transport!Moves, Transport!rings
  <1>2. /\ Host \notin Threads /\ \E S : at \in [Threads \cup {Host} -> S]
        /\ Writer \in Threads /\ Producer \subseteq Threads
    BY SameConstants, ArenaSays DEF Threads
  <1>3. at'[Host] = "closing" /\ \A t \in Threads : at'[t] = at[t]
    BY <1>1, <1>2
  <1>4. UNCHANGED <<observed, stage, event>>
    BY <1>1 DEF HostRests
  <1>5. EventsInv' /\ Unsignalled' = Unsignalled /\ (CanPop' <=> CanPop)
    BY <1>1, <1>3, HostMovesNoEvent
  <1>6. ServiceTypes'
    <2>1. amid' \subseteq {"submission", "recycle"}
      BY <1>1
    <2> QED BY <1>1, <1>4, <2>1 DEF ServiceInv, ServiceTypes, HostRests, Index, Transport!Index
  <1>7. ControlAgrees'
    BY <1>1, <1>2, <1>3, <1>4 DEF ServiceInv, ControlAgrees, BeforeClosing, AfterClosing
  <1>8. EpochIsBounded'
    BY <1>1, <1>4, <1>5 DEF ServiceInv, EpochIsBounded, HostRests
  <1>9. WriterIsTold'
    BY <1>1, <1>4, <1>5 DEF ServiceInv, WriterIsTold, WillBeSignalled
  <1>10. ClosingDrains'
    <2>1. writerAt' # "finish" /\ serviceState' # "stopped"
      BY <1>1 DEF ServiceInv, ClosingDrains
    <2>2. ASSUME amid' = {}
          PROVE  /\ \A p \in Producer : at'[p] = "idle"
                 /\ ~(status' = "closed" \/ at'[Writer] = "close" \/ at'[Host] = "close")
      <3>1. (\A p \in Producer : stage[p] = "idle") /\ at[Writer] # "close"
        BY <1>1, <2>2
      <3> QED BY <1>1, <1>2, <1>3, <3>1 DEF ServiceInv, ControlAgrees
    <2> QED BY <2>1, <2>2 DEF ClosingDrains
  <1> QED BY <1>5, <1>6, <1>7, <1>8, <1>9, <1>10 DEF ServiceInv

(* It ends, either way, with a signal to come.                             *)
LEMMA HostClosesKeeps ==
    ASSUME Arena!ArenaInv, ServiceInv, HostCloses
    PROVE  ServiceInv'
  <1>1. /\ HostRests /\ UNCHANGED <<epoch, writerAt, serviceState, amid, populated, index, lost, outstanding>>
        /\ hostAt' = IF at'[Host] = "done" THEN "signal" ELSE "closing"
        /\ \/ /\ at[Host] = "closing" /\ at' = [at EXCEPT ![Host] = IF outstanding = 0 THEN "close" ELSE "done"]
              /\ status' = status
           \/ /\ at[Host] = "close" /\ at' = [at EXCEPT ![Host] = "done"]
              /\ status' = IF status = "closing" THEN "closed" ELSE status
    BY DEF HostCloses, HostLeaves, HostRests, producerVars, logs, Transport!ClosingLoad, Transport!ClosingClose,
           Transport!Moves, Transport!rings, Transport!words
  <1>2. /\ Host \notin Threads /\ \E S : at \in [Threads \cup {Host} -> S]
        /\ Writer \in Threads /\ Producer \subseteq Threads
    BY SameConstants, ArenaSays DEF Threads
  <1>3. /\ \A t \in Threads : at'[t] = at[t]
        /\ \/ /\ at[Host] = "closing" /\ at'[Host] = "close" /\ outstanding = 0 /\ status' = status
              /\ hostAt' = "closing"
           \/ at[Host] = "closing" /\ at'[Host] = "done" /\ status' = status /\ hostAt' = "signal"
           \/ /\ at[Host] = "close" /\ at'[Host] = "done" /\ hostAt' = "signal"
              /\ status' = IF status = "closing" THEN "closed" ELSE status
    BY <1>1, <1>2
  <1>4. UNCHANGED <<observed, stage, event>>
    BY <1>1 DEF HostRests
  <1>5. hostAt = "closing" /\ status \in {"closing", "closed"} /\ status' \in {"closing", "closed"}
    BY <1>3 DEF ServiceInv, ServiceTypes, ControlAgrees
  <1>6. EventsInv' /\ Unsignalled' = Unsignalled /\ (CanPop' <=> CanPop)
    BY <1>1, <1>3, HostMovesNoEvent
  <1>7. ServiceTypes'
    BY <1>1, <1>3, <1>4 DEF ServiceInv, ServiceTypes, HostRests, BeforeClosing, AfterClosing, Index, Transport!Index
  <1>8. ControlAgrees'
    BY <1>1, <1>2, <1>3, <1>4, <1>5 DEF ServiceInv, ControlAgrees, BeforeClosing, AfterClosing
  <1>9. EpochIsBounded'
    BY <1>1, <1>3, <1>4, <1>5, <1>6 DEF ServiceInv, EpochIsBounded, HostRests
  <1>10. WriterIsTold'
    <2>1. hostAt' = "signal" => WriterIsTold'
      BY DEF WriterIsTold, WillBeSignalled
    <2>2. CASE hostAt' = "closing" /\ status' = status
      BY <1>1, <1>4, <1>5, <1>6, <2>2 DEF ServiceInv, WriterIsTold, WillBeSignalled
    <2> QED BY <1>3, <2>1, <2>2
  <1>11. ClosingDrains'
    BY <1>1, <1>2, <1>3, <1>5 DEF ServiceInv, ClosingDrains
  <1> QED BY <1>6, <1>7, <1>8, <1>9, <1>10, <1>11 DEF ServiceInv

LEMMA HostAfterClosingKeeps ==
    ASSUME Arena!ArenaInv, ServiceInv, HostSignals \/ HostWakes \/ HostJoins
    PROVE  ServiceInv'
  <1>1. /\ HostRests /\ UNCHANGED transportVars /\ UNCHANGED <<serviceState, amid>>
        /\ \/ hostAt = "signal" /\ hostAt' = "wake" /\ epoch' = (epoch + 1) % EpochValues /\ writerAt' = writerAt
           \/ /\ hostAt = "wake" /\ hostAt' = "join" /\ epoch' = epoch
              /\ writerAt' = IF writerAt = "parked" THEN "observe" ELSE writerAt
           \/ hostAt = "join" /\ hostAt' = "stopped" /\ epoch' = epoch /\ writerAt' = writerAt
    BY DEF HostSignals, HostWakes, HostJoins, HostMoves, HostLeaves, HostRests, NextEpoch, WakeWriter,
           producerVars, logs
  <1>2. UNCHANGED <<status, outstanding, at, index, lost, populated, observed, stage, event>>
    BY <1>1 DEF transportVars, HostRests
  <1>3. EventsInv' /\ Unsignalled' = Unsignalled /\ (CanPop' <=> CanPop)
    BY <1>1, <1>2, HostMovesNoEvent
  <1>4. /\ epoch' = (IF hostAt = "signal" THEN epoch + 1 ELSE epoch) /\ epoch \in Nat /\ observed \in Nat
        /\ observed <= epoch /\ EpochIsBounded'
    <2>1. Cardinality(Unsignalled) \in Nat
      <3>1. Unsignalled \subseteq Producer
        BY DEF Unsignalled
      <3> QED BY <3>1, SameConstants, FS_Subset, FS_CardinalityType
    <2>2. /\ epoch \in Nat /\ incident \in 0 .. MaxEvents /\ observed \in Nat /\ observed <= epoch
          /\ epoch + Cardinality(Unsignalled) <= incident + (IF hostAt \in {"wake", "join", "stopped"} THEN 1 ELSE 0)
      BY DEF ServiceInv, ServiceTypes, EpochIsBounded
    <2>3. hostAt = "signal" => epoch <= MaxEvents
      BY <2>1, <2>2, EpochAssumption
    <2>4. epoch' = (IF hostAt = "signal" THEN epoch + 1 ELSE epoch)
      BY <1>1, <2>2, <2>3, EpochAssumption
    <2>5. incident' = incident
      BY <1>1 DEF HostRests
    <2> QED BY <1>1, <1>2, <1>3, <2>1, <2>2, <2>4, <2>5, EpochAssumption DEF EpochIsBounded
  <1>5. ServiceTypes'
    BY <1>1, <1>2, <1>4 DEF ServiceInv, ServiceTypes, HostRests, AfterClosing, WriterSteps, Index, Transport!Index
  <1>6. ControlAgrees'
    BY <1>1, <1>2 DEF ServiceInv, ControlAgrees, BeforeClosing, AfterClosing
  <1>7. WriterIsTold'
    <2>1. hostAt = "signal" => epoch' # observed'
      BY <1>2, <1>4
    <2> QED BY <1>1, <1>2, <1>3, <2>1 DEF ServiceInv, WriterIsTold, WillBeSignalled
  <1>8. ClosingDrains'
    BY <1>1, <1>2 DEF ServiceInv, ClosingDrains
  <1> QED BY <1>3, <1>4, <1>5, <1>6, <1>7, <1>8 DEF ServiceInv
-----------------------------------------------------------------------------
(***************************************************************************)
(* The theorems.                                                           *)
(***************************************************************************)
LEMMA DebugStep ==
    ASSUME DebugInv, [Next]_vars
    PROVE  DebugInv'
  <1>1. Arena!ArenaInv /\ Arena!ArenaInv' /\ ServiceInv
    BY ArenaInvKept DEF DebugInv
  <1>2. ASSUME NEW p \in Producer, Submit(p) \/ ProducerContinues(p) PROVE ServiceInv'
    BY <1>1, <1>2, SubmitKeeps, ReserveSlotKeeps, PopsSlotKeeps, FillSlotKeeps, PublishSlotKeeps,
       PublishedSlotKeeps, SignalKeeps, WakeUpKeeps, WriteDirectKeeps DEF ProducerContinues
  <1>3. ASSUME WriterNext \/ WriterReturnsSpuriously PROVE ServiceInv'
    BY <1>1, <1>3, WriterOutsideKeeps, WriterObservesKeeps, WriterAcquiresKeeps, WriterWritesKeeps,
       WriterRecyclesKeeps DEF WriterNext
  <1>4. ASSUME HostNext PROVE ServiceInv'
    BY <1>1, <1>4, HostStartsKeeps, HostBeginsClosingKeeps, HostClosesKeeps, HostAfterClosingKeeps DEF HostNext
  <1>5. ASSUME UNCHANGED vars PROVE ServiceInv'
    <2>1. /\ HostRests /\ UNCHANGED <<populated, at, index, lost, status, outstanding>>
          /\ UNCHANGED <<writerAt, serviceState, epoch, hostAt, amid>>
      BY <1>5 DEF vars, transportVars, producerVars, writerVars, logs, HostRests
    <2>2. EventsInv' /\ Unsignalled' = Unsignalled /\ (CanPop' <=> CanPop)
      BY <1>1, <2>1, HostMovesNoEvent
    <2>3. UNCHANGED <<stage, event, incident, content, observed, accepted, copies>>
      BY <2>1 DEF HostRests
    <2>4. ServiceTypes' /\ ControlAgrees' /\ EpochIsBounded'
      BY <1>1, <2>1, <2>2, <2>3
         DEF ServiceInv, ServiceTypes, ControlAgrees, EpochIsBounded, Index, Transport!Index
    <2>5. WriterIsTold' /\ ClosingDrains'
      BY <1>1, <2>1, <2>2, <2>3 DEF ServiceInv, WriterIsTold, WillBeSignalled, ClosingDrains
    <2> QED BY <2>2, <2>4, <2>5 DEF ServiceInv
  <1> QED BY <1>1, <1>2, <1>3, <1>4, <1>5 DEF Next, DebugInv

LEMMA SameInit ==
    ASSUME Transport!Init
    PROVE  Arena!Init
  BY DEF Transport!Init, Arena!Init, Transport!Supplier!Init, Arena!Supplier!Init,
         Transport!Populated!Init, Arena!Populated!Init, Transport!Index, Arena!Index,
         Transport!None, Arena!None, Transport!Thread, Arena!Thread

LEMMA DebugInitially ==
    ASSUME Init
    PROVE  DebugInv
  <1>1. Arena!ArenaInv
    BY SameInit, SameConstants, Arena!ArenaInitially DEF Init
  <1>2. /\ at = [t \in Threads \cup {Host} |-> "idle"] /\ status = "open" /\ lost = {} /\ outstanding = 0
        /\ populated = <<>>
    BY DEF Init, Transport!Init, Transport!Thread, Threads, Transport!Populated!Init
  <1>3. content = [i \in Index |-> NoEvent] /\ \A i \in Index : ~ForWriter(i)
    BY <1>2, SameConstants DEF Init, ForWriter, Full, Arena!In, Index, Threads
  <1>4. ServiceTypes
    BY <1>3, EpochAssumption DEF Init, ServiceTypes, Stages, WriterSteps, BeforeClosing
  <1>5. ControlAgrees
    BY <1>2, SameConstants DEF Init, ControlAgrees, BeforeClosing, AfterClosing, Threads
  <1>6. EventsInv
    <2>1. ProducersOwnEvents
      BY <1>2 DEF Init, ProducersOwnEvents, Filled, Threads, NoEvent
    <2>2. SlotsOwnEvents
      BY <1>3 DEF Init, SlotsOwnEvents, NoEvent
    <2>3. AcceptedAreKept
      BY DEF Init, AcceptedAreKept
    <2> QED BY <2>1, <2>2, <2>3 DEF EventsInv
  <1>7. EpochIsBounded
    <2>1. Unsignalled = {}
      BY DEF Init, Unsignalled
    <2> QED BY <2>1, FS_EmptySet DEF Init, EpochIsBounded
  <1>8. WriterIsTold /\ ClosingDrains
    BY <1>2 DEF Init, WriterIsTold, ClosingDrains
  <1> QED BY <1>1, <1>4, <1>5, <1>6, <1>7, <1>8 DEF DebugInv, ServiceInv

(* The invariant of the service, and of its transport with it.             *)
THEOREM DebugInvariance == Spec => []DebugInv
  <1>1. Init => DebugInv
    BY DebugInitially
  <1>2. DebugInv /\ [Next]_vars => DebugInv'
    BY DebugStep
  <1> QED BY <1>1, <1>2, PTL DEF Spec

(* The service uses its transport as the transport is specified: its       *)
(* submissions, its writer and its host make none but the arena's steps.   *)
THEOREM ServiceRunsTheArena == Spec => Arena!Spec
  <1>1. Init => Arena!Init
    BY SameInit DEF Init
  <1>2. [Next]_vars => [Arena!Next]_Arena!vars
    BY StepsAreArenaSteps
  <1> QED BY <1>1, <1>2, PTL DEF Spec, Arena!Spec

(* The writer of the debug service never sleeps with an event that it      *)
(* could take, or past the closing of its transport, unless somebody is    *)
(* about to wake it, for any number of threads that submit.                *)
THEOREM WriterNeverSleepsPastEvents == Spec => []NoSleepWithEvents
  <1>1. DebugInv => NoSleepWithEvents
    BY DEF DebugInv, ServiceInv, WriterIsTold, NoSleepWithEvents, CanPop
  <1> QED BY <1>1, DebugInvariance, PTL

(* What the writer still has to write, in the terms of the invariant.      *)
LEMMA UnwrittenAreForWriter ==
    ASSUME DebugInv, NEW e
    PROVE  Unwritten(e) = {i \in Index : content[i] = e /\ ForWriter(i)}
  <1>1. \A k \in DOMAIN populated : populated[k] \in [item : Index, state : {"filling", "full", "emptying", "vacated"}]
    <2>1. populated \in Seq(Arena!RingCell)
      BY DEF DebugInv, Arena!ArenaInv, Arena!ArenaTypes, Arena!Ring
    <2>2. \A k \in DOMAIN populated : populated[k] \in Arena!RingCell
      BY <2>1
    <2> QED BY <2>2, SameConstants DEF Arena!RingCell, Arena!Stages
  <1>2. ASSUME NEW i, NEW k \in DOMAIN populated
        PROVE  populated[k] = [item |-> i, state |-> "full"] <=> populated[k].item = i /\ populated[k].state = "full"
    BY <1>1
  <1>3. \A i : Full(i) <=> \E k \in DOMAIN populated : populated[k] = [item |-> i, state |-> "full"]
    BY <1>2 DEF Full, Arena!In
  <1> QED BY <1>3 DEF Unwritten, ForWriter, Index

LEMMA NothingWaitsAtTheEnd ==
    ASSUME DebugInv, serviceState = "stopped", amid = {}, NEW i \in Index
    PROVE  ~ForWriter(i)
  <1>1. status = "closed" /\ outstanding = 0 /\ \A p \in Producer : at[p] = "idle"
    BY DEF DebugInv, ServiceInv, ClosingDrains
  <1>2. /\ at[Writer] \in ConsumerSteps /\ Arena!Thread = Producer \cup {Writer} /\ Arena!Index = Index
        /\ \A t, u \in Producer \cup {Writer} : index[t] = index[u] /\ index[t] = i => t = u
    <2>1. Arena!None = None /\ None \notin Index
      BY SameConstants
    <2> QED BY <2>1, ArenaSays, SameConstants
            DEF DebugInv, Arena!ArenaInv, Arena!Places, Arena!HoldersDiffer
  <1>3. Arena!InSupplier(i)
    <2>1. Arena!InSupplier(i) \/ Arena!Has(i, Arena!Reserving)
      BY <1>1, <1>2, SameConstants, Arena!NothingIsOut DEF DebugInv
    <2>2. ~Arena!Has(i, Arena!Reserving)
      BY <1>1, <1>2 DEF Arena!Has, Arena!Reserving, ConsumerSteps
    <2> QED BY <2>1, <2>2
  <1>4. CASE Arena!In(supplier, i, "full")
    BY <1>2, <1>4 DEF DebugInv, Arena!ArenaInv, Arena!Places, Arena!PlacesDiffer, Arena!IsHad, ForWriter, Full
  <1>5. CASE Arena!In(supplier, i, "filling")
    <2>1. PICK t \in Producer \cup {Writer} : index[t] = i /\ at[t] = "recycled"
      BY <1>2, <1>5 DEF DebugInv, Arena!ArenaInv, Arena!Places, Arena!RingsAgree, Arena!Has
    <2>2. ~Full(i)
      BY <1>2, <2>1 DEF DebugInv, Arena!ArenaInv, Arena!Places, Arena!PlacesDiffer, Arena!IsHad, Full
    <2> QED BY <1>2, <2>1, <2>2 DEF ForWriter
  <1> QED BY <1>3, <1>4, <1>5 DEF Arena!InSupplier

LEMMA InvTypes ==
    ASSUME DebugInv
    PROVE  TypeOK
  <1>1. Transport!TypeOK
    <2>1. \A cells \in {supplier, populated} : Arena!Ring(cells)
      BY DEF DebugInv, Arena!ArenaInv, Arena!ArenaTypes
    <2>2. \A cells \in {supplier, populated} :
            Len(cells) <= Capacity /\ \A k \in DOMAIN cells : cells[k].item \in Transport!Index
      <3>1. ASSUME NEW cells, Arena!Ring(cells)
            PROVE  Len(cells) <= Capacity /\ \A k \in DOMAIN cells : cells[k].item \in Transport!Index
        <4>1. cells \in Seq(Arena!RingCell) /\ Len(cells) <= Capacity
          BY <3>1 DEF Arena!Ring
        <4>2. \A k \in DOMAIN cells : cells[k] \in Arena!RingCell
          BY <4>1
        <4> QED BY <4>1, <4>2, SameConstants DEF Arena!RingCell, Index
      <3> QED BY <2>1, <3>1
    <2>3. outstanding \in Int
      BY SameConstants, Arena!NothingIsOut DEF DebugInv
    <2>4. /\ status \in {"open", "closing", "closed", "shutdown"} /\ lost \subseteq Transport!Index
          /\ index \in [Transport!Thread -> Transport!Index \cup {Transport!None}]
      BY ArenaSays DEF DebugInv, Transport!Thread, Threads, Index, None
    <2> QED BY <2>2, <2>3, <2>4 DEF Transport!TypeOK
  <1>2. epoch \in 0 .. EpochValues - 1 /\ observed \in 0 .. EpochValues - 1
    <2>1. Cardinality(Unsignalled) \in Nat
      <3>1. Unsignalled \subseteq Producer
        BY DEF Unsignalled
      <3> QED BY <3>1, SameConstants, FS_Subset, FS_CardinalityType
    <2> QED BY <2>1, EpochAssumption DEF DebugInv, ServiceInv, EpochIsBounded, ServiceTypes
  <1> QED BY <1>1, <1>2 DEF DebugInv, ServiceInv, ServiceTypes, TypeOK, Index

LEMMA InvAccepted ==
    ASSUME DebugInv
    PROVE  AcceptedAreWritten
  <1>1. ASSUME NEW e \in Event
        PROVE  /\ copies[e] + Cardinality(Unwritten(e)) <= 1
               /\ e \in accepted => copies[e] + Cardinality(Unwritten(e)) = 1
               /\ Unwritten(e) # {} => e \in accepted
    <2>1. copies[e] \in 0 .. 1 /\ e # NoEvent
      BY DEF DebugInv, ServiceInv, ServiceTypes, Event, NoEvent
    <2>2. CASE Unwritten(e) = {}
      <3>1. Cardinality(Unwritten(e)) = 0
        BY <2>2, FS_EmptySet
      <3>2. e \in accepted => copies[e] = 1
        BY <2>2, UnwrittenAreForWriter DEF DebugInv, ServiceInv, EventsInv, AcceptedAreKept
      <3> QED BY <2>1, <2>2, <3>1, <3>2
    <2>3. CASE Unwritten(e) # {}
      <3>1. PICK i \in Index : content[i] = e /\ ForWriter(i)
        BY <2>3, UnwrittenAreForWriter
      <3>2. \A j \in Index : ForWriter(j) => j \notin lost
        BY ArenaSays DEF ForWriter, DebugInv, EmptyHanded
      <3>3. /\ e \in accepted /\ copies[e] = 0
            /\ \A j \in Index : content[j] = e /\ j \notin lost => j = i
        BY <2>1, <3>1, <3>2 DEF DebugInv, ServiceInv, EventsInv, SlotsOwnEvents, Kept
      <3>4. Unwritten(e) = {i}
        BY <3>1, <3>2, <3>3, UnwrittenAreForWriter
      <3>5. Cardinality(Unwritten(e)) = 1
        BY <3>4, FS_Singleton
      <3> QED BY <3>3, <3>5
    <2> QED BY <2>2, <2>3
  <1>2. serviceState = "stopped" /\ amid = {} => \A e \in Event : Unwritten(e) = {}
    BY NothingWaitsAtTheEnd, UnwrittenAreForWriter
  <1> QED BY <1>1, <1>2, InvTypes DEF AcceptedAreWritten

(* No event is lost between its acceptance and the log: the code reports a *)
(* submission a success, and its event is in a slot that the writer will   *)
(* come to or in a log, once; and a stop that begins with no call under    *)
(* way leaves none in a slot.                                              *)
THEOREM AcceptedEventsAreWritten == Spec => []AcceptedAreWritten
  <1>1. DebugInv => AcceptedAreWritten
    BY InvAccepted
  <1> QED BY <1>1, DebugInvariance, PTL
=============================================================================

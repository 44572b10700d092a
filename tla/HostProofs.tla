------------------------------ MODULE HostProofs ------------------------------
(***************************************************************************)
(* What HostPipeline promises, for every range of the epochs and every set *)
(* of the host's asynchronous states: no message, state or view dangles,   *)
(* no worker sleeps through its mail, the executive's answer is on its     *)
(* way, and success means that the file was saved.                         *)
(*                                                                         *)
(* One conversion is under way at a time.  PhaseInv says where its only    *)
(* message is; the other parts of the invariant are about the threads'     *)
(* lives (LifeInv), the epochs (CountInv, SleepInv) and what messages      *)
(* refer to (ViewInv, SavedInv).                                           *)
(***************************************************************************)
EXTENDS HostPipeline, FiniteSetTheorems, TLAPS

(* Where a thread and the host may be, and what is where.                  *)
Place == {"none", "enter", "starting", "started", "check", "work", "waiting", "parked",
          "exiting", "shutdown", "return", "ended"}
Starting == {"startup", "await"}
Running == {"check", "pods", "owned"}
Stopping == {"stop", "release", "rouse", "join"}
Over == {"teardown", "done"}
Notices == {Idle} \cup [step : {"poke", "wake"}, thread : Thread]

WellStored(content, n) ==
    /\ DOMAIN content \subseteq 1 .. n - 1
    /\ \A id \in DOMAIN content : content[id] \in Kind

PackageTypes ==
    /\ created \in [Thread -> BOOLEAN] /\ exitRequest \in [Thread -> BOOLEAN]
    /\ word \in [Thread -> 0 .. Released] /\ epoch \in [Thread -> 0 .. Released]
    /\ runState \in [Thread -> RunState]
    /\ at \in [Thread -> Place]
    /\ DOMAIN inbox = Thread /\ DOMAIN outbox = Thread /\ DOMAIN owned = Thread
    /\ notify \in Notices

HostTypes ==
    /\ DOMAIN job = Worker
    /\ hostAt \in Starting \cup Running \cup Stopping \cup Over
    /\ turn \in 1 .. 3 /\ debugShutdown \in BOOLEAN
    /\ execState \in {"none", "load", "save"} /\ failure \in 0 .. 4
    /\ complete \in BOOLEAN /\ written \in BOOLEAN /\ lost \in BOOLEAN

StoreTypes ==
    /\ nextId \in Nat \ {0} /\ WellStored(assets, nextId)
    /\ DOMAIN slots \subseteq HostSlot
    /\ \A s \in DOMAIN slots : slots[s].kind \in SlotKind

TypeInv == PackageTypes /\ HostTypes /\ StoreTypes

(* The host starts its threads in order and stops them in reverse order,   *)
(* and only then gives up what they use.                                   *)
LifeInv ==
    /\ \A t \in Thread : at[t] = "none" => word[t] = Released /\ epoch[t] = 0
    /\ \A t \in Thread : IsAlive(t) => created[t]
    /\ \A t \in Thread : IsAlive(t) /\ ~HasControl(t) => hostAt \in {"rouse", "join"} /\ t = Turn
    /\ \A t \in Thread : exitRequest[t] =>
         /\ hostAt \in Stopping \cup Over
         /\ ~HasControl(t) \/ (hostAt = "release" /\ t = Turn)
    /\ hostAt = "release" => HasControl(Turn)
    /\ \A k \in 1 .. 3 :
         /\ hostAt = "startup" /\ k < turn => HasControl(Order[k])
         /\ hostAt = "startup" /\ k >= turn => at[Order[k]] = "none"
         /\ hostAt = "await" /\ k <= turn => HasControl(Order[k])
         /\ hostAt = "await" /\ k > turn => at[Order[k]] = "none"
         /\ hostAt \in Stopping /\ k > turn => ~IsAlive(Order[k])
    /\ hostAt \in Running => \A t \in Thread : HasControl(t)
    /\ hostAt \in Over => \A t \in Thread : ~IsAlive(t)
    /\ notify # Idle => hostAt \in {"pods", "owned"}
    /\ \A w \in Worker : at[w] = "work" <=> job[w] # NoJob

(* The message of the conversion is in one place.                          *)
Single(q) == q # <<>> /\ q = <<Head(q)>>

RequestTypes == {"FileLoadRequest", "TgaDecodeRequest", "TgaEncodeRequest", "FileSaveRequest"}
ResultTypes == {"FileLoadResult", "TgaDecodeResult", "TgaEncodeResult", "FileSaveResult"}

Fits(m, types, kind) == m.type \in types /\ StateFor(m.type) = kind /\ DOMAIN slots = {m.slot}

Resting(w) == inbox[w] = <<>> /\ outbox[w] = <<>> /\ owned[w] = <<>> /\ job[w] = NoJob

Carries(w, kind) ==
    \/ /\ Single(inbox[w]) /\ Fits(Head(inbox[w]), RequestTypes, kind)
       /\ outbox[w] = <<>> /\ owned[w] = <<>> /\ job[w] = NoJob
    \/ /\ job[w] # NoJob /\ Fits(job[w], RequestTypes, kind)
       /\ inbox[w] = <<>> /\ outbox[w] = <<>> /\ owned[w] = <<>>
    \/ /\ Single(outbox[w]) /\ Fits(Head(outbox[w]), {"FileSaveResult"}, kind)
       /\ inbox[w] = <<>> /\ owned[w] = <<>> /\ job[w] = NoJob
    \/ /\ Single(owned[w]) /\ Fits(Head(owned[w]), ResultTypes \ {"FileSaveResult"}, kind)
       /\ inbox[w] = <<>> /\ outbox[w] = <<>> /\ job[w] = NoJob

AllRest == \A w \in Worker : Resting(w)
OneCarries(kind) == \E w \in Worker : Carries(w, kind) /\ \A v \in Worker \ {w} : Resting(v)

Nothing ==
    DOMAIN slots = {} /\ AllRest /\ inbox[Executive] = <<>> /\ owned[Executive] = <<>>
Requested(type) ==
    /\ DOMAIN slots = {} /\ AllRest /\ inbox[Executive] = <<>>
    /\ Single(owned[Executive]) /\ Head(owned[Executive]).type = type /\ ~lost
Answered(type) ==
    /\ DOMAIN slots = {} /\ AllRest /\ owned[Executive] = <<>>
    /\ Single(inbox[Executive]) /\ Head(inbox[Executive]).type = type /\ ~lost
Converting(kind) ==
    /\ inbox[Executive] = <<>> /\ owned[Executive] = <<>>
    /\ \E s \in HostSlot : DOMAIN slots = {s} /\ slots[s].kind = kind
    /\ IF lost THEN AllRest ELSE OneCarries(kind)

Loading ==
    \/ Requested("TgaLoadRequest") \/ Answered("TgaLoadResult")
    \/ Converting("load") \/ Converting("decode")
Saving ==
    \/ Requested("TgaSaveRequest") \/ Answered("TgaSaveResult")
    \/ Converting("encode") \/ Converting("save")

NotBegun == at[Executive] \in {"none", "enter", "starting"}

PhaseInv ==
    /\ outbox[Executive] = <<>>
    /\ Nothing \/ Loading \/ Saving
    /\ NotBegun => Nothing /\ ~lost
    /\ hostAt \in Starting => Nothing \/ Requested("TgaLoadRequest")
    /\ at[Executive] \in {"started", "check"} =>
         CASE execState = "none" -> Nothing
           [] execState = "load" -> Loading \/ (lost /\ Nothing)
           [] execState = "save" -> Saving \/ (lost /\ Nothing)

(* The pokes of a worker's epoch, the one under way included, are no more  *)
(* than the messages it was sent: two at most.                             *)
Pokes(w) == IF notify = [step |-> "poke", thread |-> w] THEN word[w] + 1 ELSE word[w]
AtMost(f, c) ==
    /\ HasControl("file_io") => Pokes("file_io") <= f
    /\ HasControl("conditioning") => Pokes("conditioning") <= c

CountInv ==
    /\ AtMost(2, 2)
    /\ NotBegun \/ Requested("TgaLoadRequest") => AtMost(0, 0)
    /\ Converting("load") => AtMost(1, 0)
    /\ Converting("decode") \/ Answered("TgaLoadResult") \/ Requested("TgaSaveRequest") => AtMost(1, 1)
    /\ Converting("encode") => AtMost(1, 2)

SleepInv ==
    \A w \in Worker :
      /\ epoch[w] <= word[w]
      /\ at[w] \in {"waiting", "parked"} /\ inbox[w] # <<>> =>
           \/ notify = [step |-> "poke", thread |-> w]
           \/ /\ epoch[w] # word[w]
              /\ at[w] = "parked" => notify = [step |-> "wake", thread |-> w]
      /\ at[w] = "parked" /\ exitRequest[w] => hostAt \in {"release", "rouse"} /\ Turn = w

(* What a request refers to is in the repository.                          *)
ViewInv == \A w \in Worker : \A m \in Pending(w) : Range(m.assets) \subseteq DOMAIN assets

(* An answer that says the file was saved is right.                        *)
SavedInv ==
    /\ \A w \in Worker : \A m \in Range(outbox[w]) : m.ok => written
    /\ \A m \in Range(inbox[Executive]) : m.type = "TgaSaveResult" /\ m.ok => written
    /\ SuccessMeansSaved

IInv == TypeInv /\ LifeInv /\ PhaseInv /\ CountInv /\ SleepInv /\ ViewInv /\ SavedInv
-----------------------------------------------------------------------------
(* Sequences of at most one message.                                       *)
LEMMA OneMessage ==
  /\ \A m : /\ Single(<<m>>) /\ Head(<<m>>) = m /\ Tail(<<m>>) = <<>> /\ <<m>> # <<>>
            /\ Append(<<>>, m) = <<m>> /\ Range(<<m>>) = {m} /\ Len(<<m>>) = 1
  /\ \A q : Single(q) => /\ q # <<>> /\ Tail(q) = <<>> /\ Range(q) = {Head(q)} /\ Len(q) = 1
  /\ Range(<<>>) = {} /\ Len(<<>>) = 0 /\ ~Single(<<>>)
<1>1. ASSUME NEW m
      PROVE  /\ Single(<<m>>) /\ Head(<<m>>) = m /\ Tail(<<m>>) = <<>> /\ <<m>> # <<>>
             /\ Append(<<>>, m) = <<m>> /\ Range(<<m>>) = {m} /\ Len(<<m>>) = 1
  BY DEF Single, Range
<1>2. ASSUME NEW q, Single(q)
      PROVE  q # <<>> /\ Tail(q) = <<>> /\ Range(q) = {Head(q)} /\ Len(q) = 1
  <2>1. q = <<Head(q)>> /\ q # <<>>
    BY <1>2 DEF Single
  <2> QED
    BY <1>1, <2>1
<1> QED
  BY <1>1, <1>2 DEF Single, Range

LEMMA ThreadFacts ==
  /\ Worker \subseteq Thread /\ Executive \in Thread /\ Executive \notin Worker
  /\ \A k \in 1 .. 3 : Order[k] \in Thread
  /\ \A t \in Thread : \E k \in 1 .. 3 : Order[k] = t
  /\ \A j, k \in 1 .. 3 : Order[j] = Order[k] => j = k
  /\ Len(Order) = 3
BY ThreadsAssumption DEF Worker, Executive, Order

LEMMA TurnFacts == turn \in 1 .. 3 => Turn \in Thread
BY ThreadFacts DEF Turn

(* A poke does not make a word the sentinel.                               *)
LEMMA NextEpochFacts ==
  ASSUME NEW e \in 0 .. Released
  PROVE  /\ NextEpoch(e) \in 0 .. Released - 1
         /\ e <= 1 => NextEpoch(e) = e + 1
BY ReleasedAssumption DEF NextEpoch
-----------------------------------------------------------------------------
(* The handlers of the host, and what they have in common: they take one   *)
(* message, and post one at most.                                          *)
Handles ==
    \/ HostTakesLoadRequest \/ HostTakesLoadedFile \/ HostTakesDecodedImage
    \/ HostTakesSaveRequest \/ HostTakesEncodedFile \/ HostTakesSaveResult

LEMMA HandlerFrame ==
  ASSUME PackageTypes, Handles
  PROVE  /\ notify = Idle /\ hostAt \in {"pods", "owned"}
         /\ UNCHANGED <<controls, at, epoch, hostAt, turn, debugShutdown, job, executiveVars, written>>
         /\ DOMAIN outbox' = DOMAIN outbox /\ DOMAIN owned' = DOMAIN owned
         /\ \/ UNCHANGED <<inbox, notify>>
            \/ \E t \in Thread : \E m : Posts(t, m)
         /\ lost' = lost \/ lost' = TRUE
<1> DEFINE Posted == UNCHANGED <<inbox, notify>> \/ \E t \in Thread : \E m : Posts(t, m)
           Lost == lost' = lost \/ lost' = TRUE
<1> USE ThreadFacts
<1>1. /\ \A t \in Thread : \A m : Posts(t, m) /\ UNCHANGED lost => Posted /\ Lost
      /\ lost' = TRUE /\ UNCHANGED <<inbox, notify>> => Posted /\ Lost
  OBVIOUS
<1>2. \A slot : (LoadFails(slot) => Posted /\ Lost) /\ (SaveFails(slot) => Posted /\ Lost)
  BY <1>1 DEF LoadFails, SaveFails, Reports, Executive
<1>3. \A w \in Worker : \A type, slot, ids : Asks(w, type, slot, ids) => Posted /\ Lost
  BY DEF Asks
<1>4. "file_io" \in Worker /\ "conditioning" \in Worker
  BY DEF Worker
<1>5. Ignored => Posted /\ Lost
  BY DEF Ignored
<1> HIDE DEF Posted, Lost
<1>6. Posted /\ Lost
  <2>1. CASE HostTakesLoadRequest
    BY <1>2, <1>3, <1>4, <2>1 DEF HostTakesLoadRequest
  <2>2. CASE HostTakesLoadedFile
    BY <1>2, <1>3, <1>4, <1>5, <2>2 DEF HostTakesLoadedFile
  <2>3. CASE HostTakesDecodedImage
    <3> DEFINE asker == slots[Head(owned[Turn]).slot].executive
    <3>1. Ignored \/ LoadFails(asker) \/ Reports("TgaLoadResult", asker, TRUE, <<nextId>>)
      BY <2>3 DEF HostTakesDecodedImage
    <3> QED
      BY <1>1, <1>2, <1>5, <3>1 DEF Reports, Executive
  <2>4. CASE HostTakesSaveRequest
    BY <1>2, <1>3, <1>4, <2>4 DEF HostTakesSaveRequest
  <2>5. CASE HostTakesEncodedFile
    BY <1>2, <1>3, <1>4, <1>5, <2>5 DEF HostTakesEncodedFile
  <2>6. CASE HostTakesSaveResult
    BY <1>1, <1>5, <2>6 DEF HostTakesSaveResult, Reports, Executive
  <2> QED
    BY <2>1, <2>2, <2>3, <2>4, <2>5, <2>6 DEF Handles
<1>7. (\E type : TakesOwned(type)) \/ (\E type : TakesPod(type))
  <2> QED
    BY DEF Handles, HostTakesLoadRequest, HostTakesLoadedFile, HostTakesDecodedImage,
           HostTakesSaveRequest, HostTakesEncodedFile, HostTakesSaveResult
<1> QED
  BY <1>6, <1>7 DEF TakesOwned, TakesPod, Takes, Posted, Lost

(* What a handler leaves in the repository and in the states.              *)
LEMMA HandlerStore ==
  ASSUME StoreTypes, Handles
  PROVE  StoreTypes'
<1> USE DEF StoreTypes
<1>1. \A kind \in Kind : WellStored(Stored(assets, kind), nextId + 1)
  BY DEF WellStored, Stored
<1>2. \A id : WellStored(Erased(id), nextId)
  BY DEF WellStored, Erased, Restrict
<1>3. \A id : \A kind \in Kind : WellStored(Stored(Erased(id), kind), nextId + 1)
  BY <1>2 DEF WellStored, Stored
<1> DEFINE SlotsOK == DOMAIN slots \subseteq HostSlot /\ \A s \in DOMAIN slots : slots[s].kind \in SlotKind
<1>4. \A slot \in HostSlot, kind \in SlotKind : \A e, r : Sets(slot, State(kind, e, r)) => SlotsOK'
  BY DEF Sets, State
<1>5. \A slot : Releases(slot) => SlotsOK'
  BY DEF Releases, Releasing, Restrict
<1>6. \A slot, kind : Holds(slot, kind) => slot \in HostSlot
  BY DEF Holds
<1>7. UNCHANGED slots => SlotsOK'
  OBVIOUS
<1>8. WellStored(assets, nextId)
  OBVIOUS
<1>9. {"load_request", "loaded_file", "decoded_image", "save_request", "encoded_file"} \subseteq Kind
  BY DEF Kind
<1>10. {"load", "decode", "encode", "save"} \subseteq SlotKind
  BY DEF SlotKind
<1> HIDE DEF SlotsOK
<1> SUFFICES /\ SlotsOK' /\ WellStored(assets', nextId')
             /\ nextId' = nextId \/ nextId' = nextId + 1
  BY DEF SlotsOK, WellStored
<1> USE DEF store, Spends, Ignored
<1>11. CASE HostTakesLoadRequest
  BY <1>1, <1>4, <1>7, <1>8, <1>9, <1>10, <1>11 DEF HostTakesLoadRequest
<1>12. CASE HostTakesLoadedFile
  BY <1>2, <1>3, <1>4, <1>5, <1>6, <1>7, <1>8, <1>9, <1>10, <1>12 DEF HostTakesLoadedFile
<1>13. CASE HostTakesDecodedImage
  BY <1>1, <1>5, <1>7, <1>8, <1>9, <1>13 DEF HostTakesDecodedImage
<1>14. CASE HostTakesSaveRequest
  BY <1>1, <1>4, <1>7, <1>8, <1>9, <1>10, <1>14 DEF HostTakesSaveRequest
<1>15. CASE HostTakesEncodedFile
  BY <1>1, <1>2, <1>3, <1>4, <1>5, <1>6, <1>7, <1>8, <1>9, <1>10, <1>15 DEF HostTakesEncodedFile
<1>16. CASE HostTakesSaveResult
  BY <1>2, <1>5, <1>7, <1>8, <1>16 DEF HostTakesSaveResult
<1> QED
  BY <1>11, <1>12, <1>13, <1>14, <1>15, <1>16 DEF Handles
-----------------------------------------------------------------------------
LEMMA TypeNext ==
  ASSUME TypeInv, [Next]_vars
  PROVE  TypeInv'
<1> USE DEF TypeInv, PackageTypes, HostTypes, Place, Starting, Running, Stopping, Over, Notices, RunState,
            packageVars, controls, transports, store, executiveVars, history, hostVars,
            Moves, Marks, HostGoes
<1>a. /\ Turn \in Thread /\ Worker \subseteq Thread /\ Executive \in Thread
      /\ Len(Order) = 3 /\ 0 \in 0 .. Released /\ Released \in 0 .. Released
      /\ \A e \in 0 .. Released : NextEpoch(e) \in 0 .. Released
      /\ Idle \in Notices /\ \A t \in Thread : Idle.step # "poke"
  BY TurnFacts, ThreadFacts, NextEpochFacts, ReleasedAssumption DEF Idle
<1>1. CASE HostStarts
  BY <1>a, <1>1 DEF HostStarts, Create, StoreTypes
<1>2. CASE HostCannotStart
  BY <1>a, <1>2 DEF HostCannotStart, StoreTypes
<1>3. CASE HostReady
  BY <1>a, <1>3 DEF HostReady, StoreTypes
<1>4. CASE HostNotReady
  <2>1. PackageTypes'
    BY <1>a, <1>4 DEF HostNotReady, Abandon
  <2>2. HostTypes' /\ StoreTypes'
    BY <1>a, <1>4 DEF HostNotReady, StoreTypes
  <2> QED
    BY <2>1, <2>2
<1>5. CASE HostPasses
  BY <1>a, <1>5 DEF HostPasses, StoreTypes
<1>6. CASE HostNoPod
  BY <1>a, <1>6 DEF HostNoPod, StoreTypes
<1>7. CASE HostNoOwned
  <2>1. UNCHANGED <<packageVars, debugShutdown, store, job, executiveVars, history>>
    BY <1>7 DEF HostNoOwned
  <2>2. \/ hostAt' = "pods" /\ turn < 3 /\ turn' = turn + 1
        \/ hostAt' = "check" /\ turn' = turn
    BY <1>7, ThreadFacts DEF HostNoOwned
  <2> QED
    BY <2>1, <2>2 DEF StoreTypes
<1>8. CASE HostNotifies
  BY <1>a, <1>8 DEF HostNotifies, Poke, Wake, WakeUp, StoreTypes
<1>9. CASE HostSkips
  BY <1>a, <1>9 DEF HostSkips, HostTurnsBack, StoreTypes
<1>10. CASE HostRequestsExit
  BY <1>a, <1>10 DEF HostRequestsExit, RequestExit, StoreTypes
<1>11. CASE HostReleases
  BY <1>a, <1>11 DEF HostReleases, ReleaseControl, StoreTypes
<1>12. CASE HostRouses
  BY <1>a, <1>12 DEF HostRouses, WakeAll, WakeUp, StoreTypes
<1>13. CASE HostJoins
  BY <1>a, <1>13 DEF HostJoins, HostTurnsBack, Join, StoreTypes
<1>14. CASE HostTearsDown
  BY <1>a, <1>14 DEF HostTearsDown, WellStored, Releasing, Restrict, StoreTypes
<1>15. CASE Handles
  <2>1. PackageTypes' /\ HostTypes'
    <3>1. notify' \in Notices /\ DOMAIN inbox' = Thread
      <4>1. CASE UNCHANGED <<inbox, notify>>
        BY <4>1
      <4>2. ASSUME NEW t \in Thread, NEW m, Posts(t, m)
            PROVE  notify' \in Notices /\ DOMAIN inbox' = Thread
        BY <4>2 DEF Posts
      <4> QED
        BY <1>15, <4>1, <4>2, HandlerFrame
    <3> QED
      BY <1>15, <3>1, HandlerFrame
  <2> QED
    BY <1>15, <2>1, HandlerStore
<1>16. CASE DebugRequestsShutdown
  BY <1>a, <1>16 DEF DebugRequestsShutdown, StoreTypes
<1>17. ASSUME NEW w \in Worker, WorkerNext(w) \/ WorkerReturnsSpuriously(w)
      PROVE  TypeInv'
  <2> USE DEF WorkerLeaves, InPackage, StoreTypes
  <2>1. CASE InPackage(w)
    BY <1>a, <2>1 DEF Enter, Return
  <2>2. CASE WorkerRuns(w)
    BY <1>a, <2>2 DEF WorkerRuns
  <2>3. CASE WorkerStops(w)
    BY <1>a, <2>3 DEF WorkerStops
  <2>4. CASE WorkerReads(w)
    BY <1>a, <2>4 DEF WorkerReads
  <2>5. CASE WorkerReadsNothing(w)
    BY <1>a, <2>5 DEF WorkerReadsNothing
  <2>6. CASE WorkerWorks(w)
    <3>1. /\ DOMAIN outbox' = Thread /\ DOMAIN owned' = Thread
          /\ written' \in BOOLEAN /\ lost' \in BOOLEAN
      BY <2>6 DEF WorkerWorks, Answers
    <3>2. at' \in [Thread -> Place] /\ DOMAIN job' = Worker
      BY <1>a, <2>6 DEF WorkerWorks
    <3> QED
      BY <2>6, <3>1, <3>2 DEF WorkerWorks
  <2>7. CASE WorkerWaits(w)
    BY <1>a, <2>7 DEF WorkerWaits, WaitForNewEpoch
  <2>8. CASE WorkerExits(w)
    BY <1>a, <2>8 DEF WorkerExits
  <2>9. CASE WorkerReturnsSpuriously(w)
    BY <1>a, <2>9 DEF WorkerReturnsSpuriously, SpuriousReturn
  <2> QED
    BY <1>17, <2>1, <2>2, <2>3, <2>4, <2>5, <2>6, <2>7, <2>8, <2>9 DEF WorkerNext
<1>18. CASE InPackage(Executive)
  BY <1>a, <1>18 DEF InPackage, Enter, Return, ExecutiveLeaves, StoreTypes
<1>19. CASE ExecutiveCannotEnter
  BY <1>a, <1>19 DEF ExecutiveCannotEnter, EnterFails, ExecutiveLeaves, StoreTypes
<1>20. CASE ExecutiveInitialises
  <2>1. /\ DOMAIN owned' = Thread
        /\ Fails(1) \/ UNCHANGED <<complete, failure, runState>>
        /\ execState' \in {"none", "load", "save"}
    BY <1>20 DEF ExecutiveInitialises
  <2>2. at' \in [Thread -> Place]
    BY <1>a, <1>20 DEF ExecutiveInitialises
  <2>3. ExecutiveLeaves /\ UNCHANGED <<inbox, lost>>
    BY <1>20 DEF ExecutiveInitialises
  <2>4. runState' \in [Thread -> RunState] /\ failure' \in 0 .. 4
    BY <1>a, <2>1 DEF Fails
  <2>5. complete' \in BOOLEAN
    BY <2>1 DEF Fails
  <2> QED
    BY <2>1, <2>2, <2>3, <2>4, <2>5 DEF ExecutiveLeaves, StoreTypes
<1>21. CASE ExecutiveRuns
  BY <1>a, <1>21 DEF ExecutiveRuns, ExecutiveLeaves, StoreTypes
<1>22. CASE ExecutiveStops
  BY <1>a, <1>22 DEF ExecutiveStops, ExecutiveLeaves, StoreTypes
<1>23. CASE ExecutiveTakesLoadResult
  <2>1. /\ DOMAIN owned' = Thread
        /\ Fails(2) \/ Fails(3) \/ UNCHANGED <<complete, failure, runState>>
        /\ execState' \in {"none", "load", "save"}
    BY <1>23 DEF ExecutiveTakesLoadResult
  <2>2. DOMAIN inbox' = Thread
    BY <1>a, <1>23 DEF ExecutiveTakesLoadResult, ExecutiveTakes
  <2>3. ExecutiveLeaves /\ UNCHANGED <<at, lost>>
    BY <1>23 DEF ExecutiveTakesLoadResult, ExecutiveTakes
  <2>4. runState' \in [Thread -> RunState] /\ failure' \in 0 .. 4
    BY <1>a, <2>1 DEF Fails
  <2>5. complete' \in BOOLEAN
    BY <2>1 DEF Fails
  <2> QED
    BY <2>1, <2>2, <2>3, <2>4, <2>5 DEF ExecutiveLeaves, StoreTypes
<1>24. CASE ExecutiveTakesSaveResult
  <2>1. /\ DOMAIN owned' = Thread
        /\ Fails(4) \/ (complete' = TRUE /\ UNCHANGED <<failure, runState>>)
        /\ execState' \in {"none", "load", "save"}
    BY <1>24 DEF ExecutiveTakesSaveResult
  <2>2. DOMAIN inbox' = Thread
    BY <1>a, <1>24 DEF ExecutiveTakesSaveResult, ExecutiveTakes
  <2>3. ExecutiveLeaves /\ UNCHANGED <<at, lost>>
    BY <1>24 DEF ExecutiveTakesSaveResult, ExecutiveTakes
  <2>4. runState' \in [Thread -> RunState] /\ failure' \in 0 .. 4
    BY <1>a, <2>1 DEF Fails
  <2>5. complete' \in BOOLEAN
    BY <2>1 DEF Fails
  <2> QED
    BY <2>1, <2>2, <2>3, <2>4, <2>5 DEF ExecutiveLeaves, StoreTypes
<1>25. CASE ExecutiveShutsDown
  BY <1>a, <1>25 DEF ExecutiveShutsDown, ExecutiveLeaves, StoreTypes
<1>26. CASE UNCHANGED vars
  BY <1>a, <1>26 DEF vars, StoreTypes
<1> QED
  BY <1>1, <1>2, <1>3, <1>4, <1>5, <1>6, <1>7, <1>8, <1>9, <1>10, <1>11, <1>12, <1>13, <1>14, <1>15, <1>16, <1>17, <1>18, <1>19, <1>20, <1>21, <1>22, <1>23, <1>24, <1>25, <1>26 DEF Next, HostNext, ExecutiveNext, Finished, Handles
-----------------------------------------------------------------------------
(* A step of a thread that is alive, with the control words, the host and  *)
(* the notification left alone.                                            *)
LEMMA ThreadStepLife ==
  ASSUME PackageTypes, LifeInv,
         NEW t \in Thread, IsAlive(t),
         NEW place, place # "none", at' = [at EXCEPT ![t] = place],
         UNCHANGED <<created, word, exitRequest, hostAt, turn, notify>>,
         \A s \in Thread : s # t => epoch'[s] = epoch[s],
         \A w \in Worker : at'[w] = "work" <=> job'[w] # NoJob
  PROVE  LifeInv'
<1>1. /\ \A s \in Thread : s # t => at'[s] = at[s]
      /\ at'[t] # "none"
      /\ \A s \in Thread : IsAlive(s)' => IsAlive(s)
  BY DEF PackageTypes, IsAlive
<1>2. Turn' = Turn /\ \A s \in Thread : HasControl(s)' = HasControl(s)
  BY DEF Turn, HasControl
<1>3. \A k \in 1 .. 3 : Order[k] \in Thread
  BY ThreadFacts
<1>4. at[t] # "none"
  BY DEF IsAlive
<1>5. \A k \in 1 .. 3 :
        /\ at[Order[k]] = "none" => at'[Order[k]] = "none"
        /\ HasControl(Order[k])' = HasControl(Order[k])
        /\ ~IsAlive(Order[k]) => ~IsAlive(Order[k])'
  BY <1>1, <1>2, <1>3, <1>4
<1>6. /\ \A s \in Thread : at'[s] = "none" => word'[s] = Released /\ epoch'[s] = 0
      /\ \A s \in Thread : IsAlive(s)' => created'[s]
      /\ \A s \in Thread : IsAlive(s)' /\ ~HasControl(s)' => hostAt' \in {"rouse", "join"} /\ s = Turn'
  BY <1>1, <1>2, <1>4 DEF LifeInv
<1>7. \A k \in 1 .. 3 :
         /\ hostAt' = "startup" /\ k < turn' => HasControl(Order[k])'
         /\ hostAt' = "startup" /\ k >= turn' => at'[Order[k]] = "none"
         /\ hostAt' = "await" /\ k <= turn' => HasControl(Order[k])'
         /\ hostAt' = "await" /\ k > turn' => at'[Order[k]] = "none"
         /\ hostAt' \in Stopping /\ k > turn' => ~IsAlive(Order[k])'
  BY <1>5 DEF LifeInv
<1>8. /\ \A s \in Thread : exitRequest'[s] =>
         /\ hostAt' \in Stopping \cup Over
         /\ ~HasControl(s)' \/ (hostAt' = "release" /\ s = Turn')
      /\ hostAt' = "release" => HasControl(Turn)'
      /\ hostAt' \in Running => \A s \in Thread : HasControl(s)'
      /\ hostAt' \in Over => \A s \in Thread : ~IsAlive(s)'
      /\ notify' # Idle => hostAt' \in {"pods", "owned"}
  BY <1>1, <1>2 DEF LifeInv, Turn, HasControl
<1> QED
  BY <1>6, <1>7, <1>8 DEF LifeInv

(* What is in a worker's hands, or in the executive's queues, tells what   *)
(* phase the conversion is in.                                             *)
LEMMA WorkerPhase ==
  ASSUME PhaseInv, NEW w \in Worker, ~Resting(w)
  PROVE  /\ \E kind \in SlotKind : Converting(kind) /\ Carries(w, kind)
         /\ ~lost /\ inbox[Executive] = <<>> /\ owned[Executive] = <<>>
         /\ \A v \in Worker \ {w} : Resting(v)
<1>1. Nothing \/ Loading \/ Saving
  BY DEF PhaseInv
<1>2. ~AllRest
  BY DEF AllRest
<1>3. \E kind \in SlotKind : Converting(kind) /\ ~lost /\ OneCarries(kind)
  BY <1>1, <1>2 DEF Nothing, Loading, Saving, Requested, Answered, Converting, SlotKind
<1> QED
  BY <1>3 DEF Converting, OneCarries

LEMMA MessagesAreJobs ==
  ASSUME PhaseInv, NEW w \in Worker, inbox[w] # <<>>
  PROVE  /\ Head(inbox[w]) # NoJob /\ Head(inbox[w]).type \in RequestTypes
         /\ Single(inbox[w])
<1>1. PICK kind \in SlotKind : Carries(w, kind)
  BY WorkerPhase DEF Resting
<1>2. Single(inbox[w]) /\ Head(inbox[w]).type \in RequestTypes
  BY <1>1 DEF Carries, Fits
<1> QED
  BY <1>2 DEF NoJob, RequestTypes

(* What a thread does is such a step.                                      *)
LEMMA ThreadsLife ==
  ASSUME TypeInv, LifeInv, PhaseInv,
         \/ \E w \in Worker : WorkerNext(w) \/ WorkerReturnsSpuriously(w)
         \/ ExecutiveNext
  PROVE  LifeInv'
<1> USE DEF TypeInv, packageVars, controls, transports, hostVars, executiveVars, history
<1>1. Worker \subseteq Thread /\ Executive \in Thread /\ Executive \notin Worker
  BY ThreadFacts
<1>2. PackageTypes /\ DOMAIN job = Worker /\ at \in [Thread -> Place]
      /\ epoch \in [Thread -> 0 .. Released]
      /\ \A w \in Worker : at[w] = "work" <=> job[w] # NoJob
  BY DEF PackageTypes, HostTypes, LifeInv
<1> DEFINE Step(t, from, to) ==
      /\ at[t] = from /\ at' = [at EXCEPT ![t] = to]
      /\ UNCHANGED <<created, word, exitRequest, hostAt, turn, notify>>
      /\ \A s \in Thread : s # t => epoch'[s] = epoch[s]
<1> HIDE DEF TypeInv
<1>3. ASSUME NEW t \in Thread, NEW from \in {"enter", "starting", "started", "check", "waiting", "parked", "exiting", "shutdown", "return"},
             NEW to \in {"starting", "started", "check", "waiting", "parked", "exiting", "shutdown", "return", "ended"},
             Step(t, from, to), UNCHANGED job
      PROVE  LifeInv'
  <2>1. IsAlive(t)
    BY <1>3 DEF IsAlive
  <2>2. \A w \in Worker : at'[w] = "work" <=> job'[w] # NoJob
    BY <1>1, <1>2, <1>3
  <2> QED
    BY <1>2, <1>3, <2>1, <2>2, ThreadStepLife
<1>4. ASSUME NEW w \in Worker, WorkerNext(w) \/ WorkerReturnsSpuriously(w)
      PROVE  LifeInv'
  <2> USE DEF WorkerLeaves, InPackage, Moves
  <2>1. CASE InPackage(w)
    <3>1. Step(w, "enter", "starting") \/ Step(w, "return", "ended")
      BY <2>1 DEF Enter, Return
    <3>2. UNCHANGED job
      BY <2>1
    <3> QED
      BY <1>1, <1>3, <3>1, <3>2
  <2>2. CASE WorkerRuns(w)
    <3>1. Step(w, "starting", "check") /\ UNCHANGED job
      BY <2>2 DEF WorkerRuns
    <3> QED
      BY <1>1, <1>3, <3>1
  <2>3. CASE WorkerStops(w)
    <3>1. Step(w, "check", "exiting") /\ UNCHANGED job
      BY <2>3 DEF WorkerStops
    <3> QED
      BY <1>1, <1>3, <3>1
  <2>4. CASE WorkerReads(w)
    <3>1. Step(w, "check", "work") /\ job' = [job EXCEPT ![w] = Head(inbox[w])]
      BY <2>4 DEF WorkerReads
    <3>2. inbox[w] # <<>>
      BY <2>4 DEF WorkerReads
    <3>3. job'[w] # NoJob
      BY <1>2, <3>1, <3>2, MessagesAreJobs
    <3>4. \A v \in Worker : at'[v] = "work" <=> job'[v] # NoJob
      BY <1>1, <1>2, <3>1, <3>3
    <3> QED
      BY <1>1, <1>2, <3>1, <3>4, ThreadStepLife DEF IsAlive
  <2>5. CASE WorkerReadsNothing(w)
    <3>1. Step(w, "check", "waiting") /\ UNCHANGED job
      BY <2>5 DEF WorkerReadsNothing
    <3> QED
      BY <1>1, <1>3, <3>1
  <2>6. CASE WorkerWorks(w)
    <3>1. Step(w, "work", "check") /\ job' = [job EXCEPT ![w] = NoJob]
      BY <2>6 DEF WorkerWorks
    <3>2. \A v \in Worker : at'[v] = "work" <=> job'[v] # NoJob
      BY <1>1, <1>2, <3>1
    <3> QED
      BY <1>1, <1>2, <3>1, <3>2, ThreadStepLife DEF IsAlive
  <2>7. CASE WorkerWaits(w)
    <3>1. Step(w, "waiting", "check") \/ Step(w, "waiting", "parked")
      BY <1>1, <1>2, <2>7 DEF WorkerWaits, WaitForNewEpoch
    <3>2. UNCHANGED job
      BY <2>7 DEF WorkerWaits
    <3> QED
      BY <1>1, <1>3, <3>1, <3>2
  <2>8. CASE WorkerExits(w)
    <3>1. Step(w, "exiting", "return") /\ UNCHANGED job
      BY <2>8 DEF WorkerExits
    <3> QED
      BY <1>1, <1>3, <3>1
  <2>9. CASE WorkerReturnsSpuriously(w)
    <3>1. Step(w, "parked", "waiting") /\ UNCHANGED job
      BY <2>9 DEF WorkerReturnsSpuriously, SpuriousReturn
    <3> QED
      BY <1>1, <1>3, <3>1
  <2> QED
    BY <1>4, <2>1, <2>2, <2>3, <2>4, <2>5, <2>6, <2>7, <2>8, <2>9 DEF WorkerNext
<1>5. CASE ExecutiveNext
  <2> USE DEF ExecutiveLeaves, Moves
  <2>1. CASE InPackage(Executive)
    <3>1. Step(Executive, "enter", "starting") \/ Step(Executive, "return", "ended")
      BY <2>1 DEF InPackage, Enter, Return
    <3>2. UNCHANGED job
      BY <2>1 DEF InPackage
    <3> QED
      BY <1>1, <1>3, <3>1, <3>2
  <2>2. CASE ExecutiveCannotEnter
    <3>1. Step(Executive, "enter", "return") /\ UNCHANGED job
      BY <2>2 DEF ExecutiveCannotEnter, EnterFails
    <3> QED
      BY <1>1, <1>3, <3>1
  <2>3. CASE ExecutiveInitialises
    <3>1. Step(Executive, "starting", "started") \/ Step(Executive, "starting", "shutdown")
      BY <2>3 DEF ExecutiveInitialises
    <3>2. UNCHANGED job
      BY <2>3 DEF ExecutiveInitialises
    <3> QED
      BY <1>1, <1>3, <3>1, <3>2
  <2>4. CASE ExecutiveRuns
    <3>1. Step(Executive, "started", "check") /\ UNCHANGED job
      BY <2>4 DEF ExecutiveRuns
    <3> QED
      BY <1>1, <1>3, <3>1
  <2>5. CASE ExecutiveStops
    <3>1. Step(Executive, "check", "shutdown") /\ UNCHANGED job
      BY <2>5 DEF ExecutiveStops
    <3> QED
      BY <1>1, <1>3, <3>1
  <2>6. CASE ExecutiveTakesLoadResult \/ ExecutiveTakesSaveResult
    <3>1. UNCHANGED <<at, created, word, exitRequest, hostAt, turn, notify, epoch, job>>
      BY <2>6 DEF ExecutiveTakesLoadResult, ExecutiveTakesSaveResult, ExecutiveTakes
    <3> QED
      BY <3>1 DEF LifeInv, IsAlive, HasControl, Turn
  <2>7. CASE ExecutiveShutsDown
    <3>1. Step(Executive, "shutdown", "return") /\ UNCHANGED job
      BY <2>7 DEF ExecutiveShutsDown
    <3> QED
      BY <1>1, <1>3, <3>1
  <2> QED
    BY <1>5, <2>1, <2>2, <2>3, <2>4, <2>5, <2>6, <2>7 DEF ExecutiveNext
<1> QED
  BY <1>4, <1>5

(* What the host does to the lives of its threads.                         *)
LEMMA HostsLife ==
  ASSUME TypeInv, LifeInv, HostNext \/ DebugRequestsShutdown
  PROVE  LifeInv'
<1> USE DEF packageVars, controls, transports, hostVars, HostGoes
<1>a. /\ Turn \in Thread /\ Len(Order) = 3 /\ Worker \subseteq Thread
      /\ \A k \in 1 .. 3 : Order[k] \in Thread
      /\ \A j, k \in 1 .. 3 : Order[j] = Order[k] => j = k
      /\ \A t \in Thread : \E k \in 1 .. 3 : Order[k] = t
      /\ Turn = Order[turn] /\ Turn' = Order[turn']
  BY TurnFacts, ThreadFacts DEF TypeInv, HostTypes, Turn
<1>b. /\ turn \in 1 .. 3 /\ at \in [Thread -> Place]
      /\ DOMAIN at = Thread /\ DOMAIN word = Thread /\ DOMAIN created = Thread
      /\ DOMAIN exitRequest = Thread /\ DOMAIN epoch = Thread
      /\ hostAt \in Starting \cup Running \cup Stopping \cup Over
  BY DEF TypeInv, PackageTypes, HostTypes
<1>c. 0 # Released
  BY ReleasedAssumption
<1> USE DEF LifeInv, IsAlive, HasControl, Starting, Running, Stopping, Over
<1>1. CASE HostStarts
  BY <1>a, <1>b, <1>c, <1>1 DEF HostStarts, Create, Moves
<1>2. CASE HostCannotStart
  BY <1>a, <1>b, <1>2 DEF HostCannotStart
<1>3. CASE HostReady
  BY <1>a, <1>b, <1>3 DEF HostReady
<1>4. CASE HostNotReady
  BY <1>a, <1>b, <1>4 DEF HostNotReady, Abandon
<1>5. CASE HostPasses
  BY <1>a, <1>b, <1>5 DEF HostPasses
<1>6. CASE HostNoPod
  BY <1>a, <1>b, <1>6 DEF HostNoPod
<1>7. CASE HostNoOwned
  BY <1>a, <1>b, <1>7 DEF HostNoOwned
<1>8. CASE HostNotifies
  <2>1. UNCHANGED <<created, exitRequest, epoch, hostAt, turn, job>>
    BY <1>8 DEF HostNotifies, Poke, Wake
  <2>2. notify # Idle
    BY <1>8 DEF HostNotifies, Poke, Wake, Idle
  <2>3. hostAt \in {"pods", "owned"} /\ \A t \in Thread : HasControl(t) /\ at[t] # "none"
    BY <2>2
  <2>4. \A t \in Thread : HasControl(t)'
    <3>1. CASE Poke
      <4>1. \A e \in 0 .. Released : NextEpoch(e) # Released
        BY NextEpochFacts, ReleasedAssumption
      <4>2. word' = [word EXCEPT ![notify.thread] = NextEpoch(@)] /\ word \in [Thread -> 0 .. Released]
        BY <3>1 DEF Poke, TypeInv, PackageTypes
      <4> QED
        BY <2>3, <4>1, <4>2
    <3>2. CASE Wake
      BY <2>3, <3>2 DEF Wake
    <3> QED
      BY <1>8, <3>1, <3>2 DEF HostNotifies
  <2>5. \A t \in Thread : at'[t] # "none" /\ (IsAlive(t) <=> IsAlive(t)') /\ (at'[t] = "work" <=> at[t] = "work")
    <3>1. CASE Poke
      BY <2>3, <3>1 DEF Poke
    <3>2. CASE Wake
      BY <1>b, <2>3, <3>2 DEF Wake, WakeUp
    <3> QED
      BY <1>8, <3>1, <3>2 DEF HostNotifies
  <2> QED
    BY <1>a, <2>1, <2>3, <2>4, <2>5
<1>9. CASE HostSkips
  BY <1>a, <1>b, <1>9 DEF HostSkips, HostTurnsBack
<1>10. CASE HostRequestsExit
  BY <1>a, <1>b, <1>10 DEF HostRequestsExit, RequestExit
<1>11. CASE HostReleases
  BY <1>a, <1>b, <1>11 DEF HostReleases, ReleaseControl
<1>12. CASE HostRouses
  BY <1>a, <1>b, <1>12 DEF HostRouses, WakeAll, WakeUp
<1>13. CASE HostJoins
  BY <1>a, <1>b, <1>13 DEF HostJoins, HostTurnsBack, Join
<1>14. CASE HostTearsDown
  BY <1>a, <1>b, <1>14 DEF HostTearsDown
<1>15. CASE Handles
  <2>1. /\ UNCHANGED <<created, word, exitRequest, at, epoch, hostAt, turn, job>>
        /\ hostAt \in {"pods", "owned"}
    BY <1>15, HandlerFrame DEF TypeInv
  <2> QED
    BY <1>a, <2>1
<1>16. CASE DebugRequestsShutdown
  BY <1>a, <1>b, <1>16 DEF DebugRequestsShutdown
<1> QED
  BY <1>1, <1>2, <1>3, <1>4, <1>5, <1>6, <1>7, <1>8, <1>9, <1>10, <1>11, <1>12, <1>13, <1>14,
     <1>15, <1>16 DEF HostNext, Handles

LEMMA LifeNext ==
  ASSUME TypeInv, LifeInv, PhaseInv, [Next]_vars
  PROVE  LifeInv'
<1>1. CASE UNCHANGED vars
  BY <1>1 DEF vars, packageVars, controls, transports, hostVars, LifeInv, IsAlive, HasControl, Turn
<1> QED
  BY <1>1, HostsLife, ThreadsLife DEF Next, Finished
-----------------------------------------------------------------------------
(* The phases of a conversion exclude one another.                         *)
LEMMA PhasesExclude ==
  /\ ~(Nothing /\ Loading) /\ ~(Nothing /\ Saving) /\ ~(Loading /\ Saving)
  /\ \A type : Requested(type) => owned[Executive] # <<>>
  /\ \A type : Answered(type) => inbox[Executive] # <<>> /\ owned[Executive] = <<>>
<1>1. \A kind : Converting(kind) => /\ inbox[Executive] = <<>> /\ owned[Executive] = <<>>
                                    /\ \E s : DOMAIN slots = {s} /\ slots[s].kind = kind
  BY DEF Converting
<1>2. \A type : Requested(type) =>
        DOMAIN slots = {} /\ inbox[Executive] = <<>> /\ owned[Executive] # <<>> /\ Head(owned[Executive]).type = type
  BY DEF Requested, Single
<1>3. \A type : Answered(type) =>
        DOMAIN slots = {} /\ owned[Executive] = <<>> /\ inbox[Executive] # <<>> /\ Head(inbox[Executive]).type = type
  BY DEF Answered, Single
<1>4. Nothing => DOMAIN slots = {} /\ inbox[Executive] = <<>> /\ owned[Executive] = <<>>
  BY DEF Nothing
<1> DEFINE Asked(type) == owned[Executive] # <<>> /\ Head(owned[Executive]).type = type
           Told(type) == inbox[Executive] # <<>> /\ Head(inbox[Executive]).type = type /\ owned[Executive] = <<>>
           Kept(kind) == /\ inbox[Executive] = <<>> /\ owned[Executive] = <<>>
                         /\ DOMAIN slots # {} /\ \A s \in DOMAIN slots : slots[s].kind = kind
<1>5. Loading => Asked("TgaLoadRequest") \/ Told("TgaLoadResult") \/ Kept("load") \/ Kept("decode")
  <2>1. /\ Converting("load") => Kept("load")
        /\ Converting("decode") => Kept("decode")
    BY <1>1
  <2> QED
    BY <1>2, <1>3, <2>1 DEF Loading
<1>6. Saving => Asked("TgaSaveRequest") \/ Told("TgaSaveResult") \/ Kept("encode") \/ Kept("save")
  <2>1. /\ Converting("encode") => Kept("encode")
        /\ Converting("save") => Kept("save")
    BY <1>1
  <2> QED
    BY <1>2, <1>3, <2>1 DEF Saving
<1>7. ~(Nothing /\ Loading) /\ ~(Nothing /\ Saving)
  BY <1>4, <1>5, <1>6
<1>8. ~(Loading /\ Saving)
  BY <1>5, <1>6
<1> QED
  BY <1>2, <1>3, <1>7, <1>8

(* A step that leaves the messages and the states alone.                   *)
LEMMA QuietPhase ==
  ASSUME PhaseInv, UNCHANGED <<transports, slots, job, lost>>,
         NotBegun' => NotBegun,
         at'[Executive] \in {"started", "check"} =>
           at[Executive] \in {"started", "check"} /\ execState' = execState,
         hostAt' \in Starting => hostAt \in Starting
  PROVE  PhaseInv'
<1>1. /\ Nothing' = Nothing /\ \A type : (Requested(type)' <=> Requested(type)) /\ (Answered(type)' <=> Answered(type))
      /\ \A kind : Converting(kind)' <=> Converting(kind)
  BY DEF transports, Nothing, Requested, Answered, Converting, AllRest, OneCarries, Resting, Carries, Fits
<1>2. (Loading' <=> Loading) /\ (Saving' <=> Saving) /\ outbox' = outbox
  BY <1>1 DEF Loading, Saving, transports
<1> QED
  BY <1>1, <1>2 DEF PhaseInv

(* A step of the host's that has the conversion go on or end without a     *)
(* trace.                                                                  *)
LEMMA HandledPhase ==
  ASSUME PhaseInv, execState \in {"none", "load", "save"}, hostAt \notin Starting,
         UNCHANGED <<at[Executive], execState, hostAt>>,
         outbox'[Executive] = <<>>,
         \/ Loading /\ (Loading' \/ (lost' /\ Nothing'))
         \/ Saving /\ (Saving' \/ (lost' /\ Nothing'))
  PROVE  PhaseInv'
<1>1. ~NotBegun /\ ~NotBegun'
  BY PhasesExclude DEF PhaseInv, NotBegun
<1>2. Loading => (at[Executive] \in {"started", "check"} => execState = "load")
  BY PhasesExclude DEF PhaseInv
<1>3. Saving => (at[Executive] \in {"started", "check"} => execState = "save")
  BY PhasesExclude DEF PhaseInv
<1> QED
  BY <1>1, <1>2, <1>3 DEF PhaseInv

(* What a handler starts from: it has taken the only message there was.    *)
Cleared ==
    /\ \A w \in Worker : inbox[w] = <<>> /\ outbox'[w] = <<>> /\ owned'[w] = <<>> /\ job'[w] = NoJob
    /\ inbox[Executive] = <<>> /\ outbox'[Executive] = <<>> /\ owned'[Executive] = <<>>
    /\ ~lost /\ DOMAIN inbox = Thread

(* A request of the executive's is the message of its phase.               *)
LEMMA RequestTaken ==
  ASSUME TypeInv, PhaseInv, NEW type \in {"TgaLoadRequest", "TgaSaveRequest"}, TakesOwned(type)
  PROVE  /\ Cleared /\ Turn = Executive /\ Requested(type) /\ DOMAIN slots = {}
         /\ type = "TgaLoadRequest" => Loading
         /\ type = "TgaSaveRequest" => Saving
<1>1. /\ owned[Turn] # <<>> /\ Head(owned[Turn]).type = type
      /\ owned' = [owned EXCEPT ![Turn] = Tail(@)] /\ job' = job /\ outbox' = outbox
  BY DEF TakesOwned, Takes
<1>2. /\ DOMAIN owned = Thread /\ DOMAIN inbox = Thread /\ Turn \in Thread
  BY TurnFacts DEF TypeInv, PackageTypes, HostTypes
<1>3. Turn = Executive
  <2>1. Turn \notin Worker
    <3> SUFFICES ASSUME Turn \in Worker
                 PROVE  FALSE
      OBVIOUS
    <3>1. ~Resting(Turn)
      BY <1>1 DEF Resting
    <3>2. PICK kind \in SlotKind : Carries(Turn, kind)
      BY <3>1, WorkerPhase
    <3> QED
      BY <1>1, <3>2 DEF Carries, Fits, ResultTypes
  <2> QED
    BY <1>2, <2>1, ThreadsAssumption DEF Executive
<1>4. Requested("TgaLoadRequest") \/ Requested("TgaSaveRequest")
  BY <1>1, <1>3 DEF PhaseInv, Nothing, Loading, Saving, Answered, Converting
<1>5. Requested(type)
  BY <1>1, <1>3, <1>4 DEF Requested
<1>6. DOMAIN slots = {} /\ ~lost /\ AllRest /\ Single(owned[Executive]) /\ inbox[Executive] = <<>>
  BY <1>5 DEF Requested
<1>7. owned'[Executive] = <<>> /\ \A w \in Worker : owned'[w] = owned[w]
  BY <1>1, <1>2, <1>3, <1>6, ThreadFacts, OneMessage
<1>8. Cleared
  BY <1>1, <1>2, <1>6, <1>7 DEF Cleared, AllRest, Resting, PhaseInv
<1> QED
  BY <1>3, <1>5, <1>6, <1>8 DEF Loading, Saving

(* So is a result of a worker's, and the state it names is there for it.   *)
LEMMA ResultTaken ==
  ASSUME TypeInv, PhaseInv, NEW type \in ResultTypes, NEW m,
         \/ TakesOwned(type) /\ m = Head(owned[Turn]) /\ type # "FileSaveResult"
         \/ TakesPod(type) /\ m = Head(outbox[Turn])
  PROVE  /\ Cleared /\ Turn \in Worker /\ DOMAIN slots = {m.slot} /\ m.slot \in HostSlot
         /\ Holds(m.slot, StateFor(type)) /\ Converting(StateFor(type))
<1>1. \/ /\ type # "FileSaveResult" /\ m = Head(owned[Turn])
         /\ owned[Turn] # <<>> /\ m.type = type
         /\ owned' = [owned EXCEPT ![Turn] = Tail(@)] /\ job' = job /\ outbox' = outbox
      \/ /\ m = Head(outbox[Turn])
         /\ outbox[Turn] # <<>> /\ m.type = type
         /\ outbox' = [outbox EXCEPT ![Turn] = Tail(@)] /\ job' = job /\ owned' = owned
  BY DEF TakesOwned, TakesPod, Takes
<1>2. /\ DOMAIN owned = Thread /\ DOMAIN inbox = Thread /\ DOMAIN outbox = Thread /\ Turn \in Thread
      /\ Executive \notin Worker /\ Worker \subseteq Thread
  BY TurnFacts, ThreadFacts DEF TypeInv, PackageTypes, HostTypes
<1>3. Turn \in Worker
  <2>1. Turn # Executive
    <3> SUFFICES ASSUME Turn = Executive
                 PROVE  FALSE
      OBVIOUS
    <3>1. owned[Executive] # <<>> /\ Head(owned[Executive]).type = type
      BY <1>1 DEF PhaseInv
    <3>2. Requested("TgaLoadRequest") \/ Requested("TgaSaveRequest")
      BY <3>1 DEF PhaseInv, Nothing, Loading, Saving, Answered, Converting
    <3> QED
      BY <3>1, <3>2 DEF Requested, ResultTypes
  <2> QED
    BY <1>2, <2>1, ThreadsAssumption DEF Executive
<1>4. ~Resting(Turn)
  BY <1>1 DEF Resting
<1>5. PICK kind \in SlotKind :
        /\ Converting(kind) /\ Carries(Turn, kind)
        /\ ~lost /\ inbox[Executive] = <<>> /\ owned[Executive] = <<>>
        /\ \A v \in Worker \ {Turn} : Resting(v)
  BY <1>3, <1>4, WorkerPhase
<1>6. /\ Fits(m, ResultTypes, kind) /\ inbox[Turn] = <<>> /\ job[Turn] = NoJob
      /\ \/ Single(owned[Turn]) /\ outbox[Turn] = <<>> /\ owned[Turn] # <<>>
         \/ Single(outbox[Turn]) /\ owned[Turn] = <<>> /\ outbox[Turn] # <<>>
  BY <1>1, <1>5 DEF Carries, Fits, ResultTypes, Single
<1>7. owned'[Turn] = <<>> /\ outbox'[Turn] = <<>>
  BY <1>1, <1>2, <1>6, OneMessage
<1>8. /\ \A w \in Worker : w # Turn => owned'[w] = owned[w] /\ outbox'[w] = outbox[w]
      /\ owned'[Executive] = owned[Executive] /\ outbox'[Executive] = outbox[Executive]
  <2>1. \A t \in Thread : t # Turn => owned'[t] = owned[t] /\ outbox'[t] = outbox[t]
    BY <1>1, <1>2
  <2> QED
    BY <1>2, <1>3, <2>1, ThreadFacts
<1>9. Cleared
  BY <1>1, <1>2, <1>5, <1>6, <1>7, <1>8 DEF Cleared, Resting, PhaseInv
<1>10. m.type = type /\ kind = StateFor(type) /\ DOMAIN slots = {m.slot}
  BY <1>1, <1>6 DEF Fits
<1> QED
  BY <1>3, <1>5, <1>9, <1>10 DEF Holds, Converting

(* Then it reports to the executive,                                       *)
LEMMA Reported ==
  ASSUME Cleared, DOMAIN slots' = {}, NEW type, NEW slot, NEW ok, NEW ids,
         Reports(type, slot, ok, ids)
  PROVE  /\ Answered(type)' \/ (lost' = TRUE /\ Nothing')
         /\ outbox'[Executive] = <<>>
<1> DEFINE message == Message(type, slot, ok, ids)
<1>1. message.type = type
  BY DEF Message
<1> HIDE DEF message
<1>2. CASE Posts("executive", message) /\ UNCHANGED lost
  <2>1. inbox'[Executive] = <<message>> /\ \A w \in Worker : inbox'[w] = <<>>
    BY <1>2, ThreadFacts, OneMessage DEF Posts, Cleared, Executive
  <2>2. Single(inbox'[Executive]) /\ Head(inbox'[Executive]).type = type
    BY <1>1, <2>1, OneMessage
  <2> QED
    BY <1>2, <2>1, <2>2 DEF Answered, AllRest, Resting, Cleared
<1>3. CASE lost' = TRUE /\ UNCHANGED <<inbox, notify>>
  BY <1>3 DEF Nothing, AllRest, Resting, Cleared
<1> QED
  BY <1>2, <1>3 DEF Reports, message

(* or asks a worker for the next job.                                      *)
LEMMA Asked ==
  ASSUME Cleared, NEW slot \in HostSlot, DOMAIN slots' = {slot},
         NEW worker \in Worker, NEW type \in RequestTypes, NEW ids,
         slots'[slot].kind = StateFor(type), Asks(worker, type, slot, ids)
  PROVE  Converting(StateFor(type))' /\ outbox'[Executive] = <<>>
<1> DEFINE message == Message(type, slot, TRUE, ids)
<1>1. message.type = type /\ message.slot = slot
  BY DEF Message
<1> HIDE DEF message
<1>2. Posts(worker, message) /\ lost' = lost
  BY DEF Asks, message
<1>3. /\ inbox'[worker] = <<message>>
      /\ \A t \in Thread : t # worker => inbox'[t] = inbox[t]
  BY <1>2, ThreadFacts, OneMessage DEF Posts, Cleared
<1>4. /\ inbox'[Executive] = <<>> /\ owned'[Executive] = <<>>
      /\ \A v \in Worker \ {worker} : Resting(v)'
  BY <1>3, ThreadFacts DEF Cleared, Resting
<1>5. Carries(worker, StateFor(type))'
  <2>1. Single(inbox'[worker]) /\ Head(inbox'[worker]) = message
    BY <1>3, OneMessage
  <2>2. Fits(Head(inbox[worker]), RequestTypes, StateFor(type))'
    BY <1>1, <2>1 DEF Fits
  <2> QED
    BY <2>1, <2>2 DEF Carries, Cleared
<1>6. OneCarries(StateFor(type))' /\ ~lost'
  BY <1>2, <1>4, <1>5 DEF OneCarries, Cleared
<1> QED
  BY <1>4, <1>6 DEF Converting, Cleared

(* What a handler comes to: the end of the load or of the save, or the     *)
(* next job of a worker, with what it points into in the repository.       *)
LoadEnds ==
    /\ DOMAIN slots' = {}
    /\ \E e : LoadFails(e) \/ \E ids : Reports("TgaLoadResult", e, TRUE, ids)
Confirmed(ok) == ok => Turn \in Worker /\ outbox[Turn] # <<>> /\ Head(outbox[Turn]).ok
SaveEnds ==
    /\ DOMAIN slots' = {}
    /\ \E e : SaveFails(e) \/ \E ok : Confirmed(ok) /\ Reports("TgaSaveResult", e, ok, <<>>)
Goes(worker, type) ==
    \E slot \in HostSlot : \E ids :
      /\ DOMAIN slots' = {slot} /\ slots'[slot].kind = StateFor(type)
      /\ Asks(worker, type, slot, ids) /\ Range(ids) \subseteq DOMAIN assets'
Outcome ==
    \/ Loading /\ LoadEnds
    \/ Saving /\ SaveEnds
    \/ Requested("TgaLoadRequest") /\ Goes("file_io", "FileLoadRequest")
    \/ Converting("load") /\ Goes("conditioning", "TgaDecodeRequest")
    \/ Requested("TgaSaveRequest") /\ Goes("conditioning", "TgaEncodeRequest")
    \/ Converting("encode") /\ Goes("file_io", "FileSaveRequest")

LEMMA StateForFacts ==
  /\ StateFor("FileLoadRequest") = "load" /\ StateFor("FileLoadResult") = "load"
  /\ StateFor("TgaDecodeRequest") = "decode" /\ StateFor("TgaDecodeResult") = "decode"
  /\ StateFor("TgaEncodeRequest") = "encode" /\ StateFor("TgaEncodeResult") = "encode"
  /\ StateFor("FileSaveRequest") = "save" /\ StateFor("FileSaveResult") = "save"
BY DEF StateFor

LEMMA HandlerOutcome ==
  ASSUME TypeInv, PhaseInv, Handles
  PROVE  Cleared /\ Outcome
<1>a. /\ \A kind \in {"load", "decode"} : Converting(kind) => Loading
      /\ \A kind \in {"encode", "save"} : Converting(kind) => Saving
  BY DEF Loading, Saving
<1>b. \A slot : DOMAIN slots = {slot} /\ Releases(slot) => DOMAIN slots' = {}
  BY DEF Releases, Releasing, Restrict
<1>c. /\ Range(<<nextId>>) = {nextId}
      /\ \A x : Range(<<x>>) = {x} /\ Range(<<x, nextId>>) = {x, nextId}
  BY DEF Range
<1>1. CASE HostTakesLoadRequest
  <2> DEFINE m == Head(owned[Turn])
  <2>1. Cleared /\ Loading /\ Requested("TgaLoadRequest") /\ DOMAIN slots = {}
    BY <1>1, RequestTaken DEF HostTakesLoadRequest
  <2>2. CASE LoadFails(m.slot) /\ UNCHANGED store
    BY <2>1, <2>2 DEF Outcome, LoadEnds, store
  <2>3. ASSUME NEW slot \in HostSlot, Sets(slot, State("load", m.slot, nextId)),
               NEW ids, Asks("file_io", "FileLoadRequest", slot, ids),
               Range(ids) \subseteq DOMAIN assets'
        PROVE  Outcome
    <3>1. DOMAIN slots' = {slot} /\ slots'[slot].kind = StateFor("FileLoadRequest")
      BY <2>1, <2>3, StateForFacts DEF Sets, State
    <3> QED
      BY <2>1, <2>3, <3>1 DEF Outcome, Goes
  <2>4. assets' = Stored(assets, "load_request") => Range(<<nextId>>) \subseteq DOMAIN assets'
    BY <1>c DEF Stored
  <2> QED
    BY <1>1, <2>1, <2>2, <2>3, <2>4 DEF HostTakesLoadRequest
<1>2. CASE HostTakesLoadedFile
  <2> DEFINE m == Head(owned[Turn])
             state == slots[m.slot]
  <2>1. /\ Cleared /\ Converting("load") /\ Holds(m.slot, "load") /\ Loading
        /\ DOMAIN slots = {m.slot} /\ m.slot \in HostSlot
    BY <1>2, <1>a, ResultTaken, StateForFacts DEF HostTakesLoadedFile, ResultTypes
  <2>2. CASE LoadFails(state.executive) /\ Releases(m.slot)
    BY <1>b, <2>1, <2>2 DEF Outcome, LoadEnds
  <2>3. ASSUME Sets(m.slot, State("decode", state.executive, NoAsset)),
               NEW ids, Asks("conditioning", "TgaDecodeRequest", m.slot, ids),
               Range(ids) \subseteq DOMAIN assets'
        PROVE  Outcome
    <3>1. DOMAIN slots' = {m.slot} /\ slots'[m.slot].kind = StateFor("TgaDecodeRequest")
      BY <2>1, <2>3, StateForFacts DEF Sets, State
    <3> QED
      BY <2>1, <2>3, <3>1 DEF Outcome, Goes
  <2>4. assets' = Stored(Erased(state.request), "loaded_file") => Range(<<nextId>>) \subseteq DOMAIN assets'
    BY <1>c DEF Stored
  <2> QED
    BY <1>2, <2>1, <2>2, <2>3, <2>4 DEF HostTakesLoadedFile
<1>3. CASE HostTakesDecodedImage
  <2> DEFINE m == Head(owned[Turn])
  <2>1. /\ Cleared /\ Loading /\ Holds(m.slot, "decode") /\ DOMAIN slots = {m.slot}
    BY <1>3, <1>a, ResultTaken, StateForFacts DEF HostTakesDecodedImage, ResultTypes
  <2> QED
    BY <1>3, <1>b, <2>1 DEF HostTakesDecodedImage, Outcome, LoadEnds
<1>4. CASE HostTakesSaveRequest
  <2> DEFINE m == Head(owned[Turn])
  <2>1. Cleared /\ Saving /\ Requested("TgaSaveRequest") /\ DOMAIN slots = {}
    BY <1>4, RequestTaken DEF HostTakesSaveRequest
  <2>2. CASE SaveFails(m.slot) /\ UNCHANGED store
    BY <2>1, <2>2 DEF Outcome, SaveEnds, store
  <2>3. ASSUME NEW slot \in HostSlot, Sets(slot, State("encode", m.slot, nextId)),
               NEW ids, Asks("conditioning", "TgaEncodeRequest", slot, ids),
               Range(ids) \subseteq DOMAIN assets'
        PROVE  Outcome
    <3>1. DOMAIN slots' = {slot} /\ slots'[slot].kind = StateFor("TgaEncodeRequest")
      BY <2>1, <2>3, StateForFacts DEF Sets, State
    <3> QED
      BY <2>1, <2>3, <3>1 DEF Outcome, Goes
  <2> DEFINE source == m.assets[1]
  <2>4. assets' = Stored(assets, "save_request") /\ source \in DOMAIN assets => Range(<<source>>) \subseteq DOMAIN assets'
    BY <1>c DEF Stored
  <2> QED
    BY <1>4, <2>1, <2>2, <2>3, <2>4 DEF HostTakesSaveRequest
<1>5. CASE HostTakesEncodedFile
  <2> DEFINE m == Head(owned[Turn])
             state == slots[m.slot]
  <2>1. /\ Cleared /\ Converting("encode") /\ Holds(m.slot, "encode") /\ Saving
        /\ DOMAIN slots = {m.slot} /\ m.slot \in HostSlot
    BY <1>5, <1>a, ResultTaken, StateForFacts DEF HostTakesEncodedFile, ResultTypes
  <2>2. CASE SaveFails(state.executive) /\ Releases(m.slot)
    BY <1>b, <2>1, <2>2 DEF Outcome, SaveEnds
  <2>3. ASSUME Sets(m.slot, State("save", state.executive, state.request)),
               NEW ids, Asks("file_io", "FileSaveRequest", m.slot, ids),
               Range(ids) \subseteq DOMAIN assets'
        PROVE  Outcome
    <3>1. DOMAIN slots' = {m.slot} /\ slots'[m.slot].kind = StateFor("FileSaveRequest")
      BY <2>1, <2>3, StateForFacts DEF Sets, State
    <3> QED
      BY <2>1, <2>3, <3>1 DEF Outcome, Goes
  <2>4. assets' = Stored(assets, "encoded_file") /\ state.request \in DOMAIN assets =>
          Range(<<state.request, nextId>>) \subseteq DOMAIN assets'
    BY <1>c DEF Stored
  <2> QED
    BY <1>5, <2>1, <2>2, <2>3, <2>4 DEF HostTakesEncodedFile
<1>6. CASE HostTakesSaveResult
  <2> DEFINE m == Head(outbox[Turn])
  <2>1. /\ Cleared /\ Saving /\ Holds(m.slot, "save") /\ DOMAIN slots = {m.slot} /\ Turn \in Worker
    BY <1>6, <1>a, ResultTaken, StateForFacts DEF HostTakesSaveResult, ResultTypes
  <2>2. outbox[Turn] # <<>>
    BY <1>6 DEF HostTakesSaveResult, TakesPod, Takes
  <2>3. Confirmed(m.ok)
    BY <2>1, <2>2 DEF Confirmed
  <2>4. Reports("TgaSaveResult", slots[m.slot].executive, m.ok, <<>>) /\ DOMAIN slots' = {}
    BY <1>6, <1>b, <2>1 DEF HostTakesSaveResult
  <2> QED
    BY <2>1, <2>3, <2>4 DEF Outcome, SaveEnds
<1> QED
  BY <1>1, <1>2, <1>3, <1>4, <1>5, <1>6 DEF Handles

(* Each outcome in terms of the phases.                                    *)
LEMMA OutcomePhases ==
  ASSUME Cleared
  PROVE  /\ LoadEnds => outbox'[Executive] = <<>> /\ (Answered("TgaLoadResult")' \/ (lost' = TRUE /\ Nothing'))
         /\ SaveEnds => outbox'[Executive] = <<>> /\ (Answered("TgaSaveResult")' \/ (lost' = TRUE /\ Nothing'))
         /\ Goes("file_io", "FileLoadRequest") => outbox'[Executive] = <<>> /\ Converting("load")'
         /\ Goes("conditioning", "TgaDecodeRequest") => outbox'[Executive] = <<>> /\ Converting("decode")'
         /\ Goes("conditioning", "TgaEncodeRequest") => outbox'[Executive] = <<>> /\ Converting("encode")'
         /\ Goes("file_io", "FileSaveRequest") => outbox'[Executive] = <<>> /\ Converting("save")'
<1>1. LoadEnds => outbox'[Executive] = <<>> /\ (Answered("TgaLoadResult")' \/ (lost' = TRUE /\ Nothing'))
  BY Reported DEF LoadEnds, LoadFails
<1>2. SaveEnds => outbox'[Executive] = <<>> /\ (Answered("TgaSaveResult")' \/ (lost' = TRUE /\ Nothing'))
  BY Reported DEF SaveEnds, SaveFails
<1>3. ASSUME NEW worker \in Worker, NEW type \in RequestTypes, Goes(worker, type)
      PROVE  outbox'[Executive] = <<>> /\ Converting(StateFor(type))'
  BY <1>3, Asked DEF Goes
<1>4. /\ "file_io" \in Worker /\ "conditioning" \in Worker
      /\ {"FileLoadRequest", "TgaDecodeRequest", "TgaEncodeRequest", "FileSaveRequest"} \subseteq RequestTypes
  BY DEF Worker, RequestTypes
<1>5. /\ Goes("file_io", "FileLoadRequest") => outbox'[Executive] = <<>> /\ Converting("load")'
      /\ Goes("conditioning", "TgaDecodeRequest") => outbox'[Executive] = <<>> /\ Converting("decode")'
  BY <1>3, <1>4, StateForFacts
<1>6. /\ Goes("conditioning", "TgaEncodeRequest") => outbox'[Executive] = <<>> /\ Converting("encode")'
      /\ Goes("file_io", "FileSaveRequest") => outbox'[Executive] = <<>> /\ Converting("save")'
  BY <1>3, <1>4, StateForFacts
<1> QED
  BY <1>1, <1>2, <1>5, <1>6

(* Each handler takes the conversion a phase further.                      *)
LEMMA HandlersPhase ==
  ASSUME TypeInv, PhaseInv, Handles
  PROVE  PhaseInv'
<1>1. /\ hostAt \notin Starting /\ UNCHANGED <<at[Executive], execState, hostAt>>
      /\ execState \in {"none", "load", "save"}
  BY HandlerFrame DEF TypeInv, HostTypes, executiveVars, Starting
<1>2. Cleared /\ Outcome
  BY HandlerOutcome
<1>3. \/ Loading /\ (Loading' \/ (lost' = TRUE /\ Nothing')) /\ outbox'[Executive] = <<>>
      \/ Saving /\ (Saving' \/ (lost' = TRUE /\ Nothing')) /\ outbox'[Executive] = <<>>
  BY <1>2, OutcomePhases DEF Outcome, Loading, Saving
<1> QED
  BY <1>1, <1>3, HandledPhase

(* A job is taken from the queue by its worker, and becomes an answer.     *)
LEMMA WorkersPhase ==
  ASSUME TypeInv, LifeInv, PhaseInv,
         NEW w \in Worker, WorkerNext(w) \/ WorkerReturnsSpuriously(w)
  PROVE  PhaseInv'
<1> USE DEF WorkerLeaves, hostVars, executiveVars, history, packageVars, controls
<1>a. /\ DOMAIN inbox = Thread /\ DOMAIN outbox = Thread /\ DOMAIN owned = Thread
      /\ DOMAIN job = Worker /\ DOMAIN at = Thread
      /\ execState \in {"none", "load", "save"}
      /\ w \in Thread /\ Executive \in Thread /\ w # Executive /\ Executive \notin Worker
      /\ Worker \subseteq Thread
  BY ThreadFacts DEF TypeInv, PackageTypes, HostTypes
<1>b. hostAt' = hostAt /\ slots' = slots /\ execState' = execState /\ at'[Executive] = at[Executive]
  <2>1. hostAt' = hostAt /\ slots' = slots /\ execState' = execState
    BY DEF WorkerNext, InPackage, WorkerRuns, WorkerStops, WorkerReads, WorkerReadsNothing, WorkerWorks,
           WorkerWaits, WorkerExits, WorkerReturnsSpuriously, store
  <2>2. \E to : at' = [at EXCEPT ![w] = to]
    BY DEF WorkerNext, InPackage, WorkerRuns, WorkerStops, WorkerReads, WorkerReadsNothing, WorkerWorks,
           WorkerWaits, WorkerExits, WorkerReturnsSpuriously, Enter, Return, WaitForNewEpoch,
           SpuriousReturn, Moves
  <2> QED
    BY <1>a, <2>1, <2>2
<1>c. ASSUME NEW kind \in SlotKind, Converting(kind), Converting(kind)', outbox'[Executive] = <<>>
      PROVE  PhaseInv'
  <2>1. hostAt \notin Starting
    BY <1>c DEF PhaseInv, Converting, Nothing, Requested
  <2>2. \/ kind \in {"load", "decode"} /\ Loading /\ Loading'
        \/ kind \in {"encode", "save"} /\ Saving /\ Saving'
    BY <1>c DEF Loading, Saving, SlotKind
  <2> QED
    BY <1>a, <1>b, <1>c, <2>1, <2>2, HandledPhase
<1>1. CASE UNCHANGED <<transports, job, lost>>
  BY <1>1, <1>b, QuietPhase DEF NotBegun
<1>2. CASE WorkerReads(w)
  <2>1. /\ inbox[w] # <<>> /\ job' = [job EXCEPT ![w] = Head(inbox[w])]
        /\ inbox' = [inbox EXCEPT ![w] = Tail(@)]
        /\ UNCHANGED <<outbox, owned, lost>>
    BY <1>2 DEF WorkerReads
  <2>2. PICK kind \in SlotKind :
          /\ Converting(kind) /\ Carries(w, kind)
          /\ ~lost /\ inbox[Executive] = <<>> /\ owned[Executive] = <<>>
          /\ \A v \in Worker \ {w} : Resting(v)
    BY <2>1, WorkerPhase DEF Resting
  <2>3. /\ Single(inbox[w]) /\ Fits(Head(inbox[w]), RequestTypes, kind)
        /\ outbox[w] = <<>> /\ owned[w] = <<>>
    BY <2>1, <2>2 DEF Carries
  <2>4. inbox'[w] = <<>> /\ job'[w] = Head(inbox[w])
    BY <1>a, <2>1, <2>3, OneMessage
  <2>5. job'[w] # NoJob
    BY <2>1, <2>4, MessagesAreJobs
  <2>6. Fits(job[w], RequestTypes, kind)'
    BY <1>b, <2>3, <2>4 DEF Fits
  <2>7. Carries(w, kind)'
    BY <2>1, <2>3, <2>4, <2>5, <2>6 DEF Carries
  <2>8. /\ \A v \in Worker \ {w} : inbox'[v] = inbox[v] /\ job'[v] = job[v]
        /\ inbox'[Executive] = inbox[Executive]
    BY <1>a, <2>1
  <2>9. (\A v \in Worker \ {w} : Resting(v)') /\ inbox'[Executive] = <<>>
    BY <2>1, <2>2, <2>8 DEF Resting
  <2>10. OneCarries(kind)'
    BY <2>7, <2>9 DEF OneCarries
  <2>11. Converting(kind)'
    BY <1>b, <2>1, <2>2, <2>9, <2>10 DEF Converting
  <2> QED
    BY <1>c, <2>1, <2>2, <2>11 DEF PhaseInv
<1>3. CASE WorkerWorks(w)
  <2>1. job[w] # NoJob
    BY <1>3 DEF WorkerWorks, Moves, LifeInv
  <2>2. PICK kind \in SlotKind :
          /\ Converting(kind) /\ Carries(w, kind)
          /\ ~lost /\ inbox[Executive] = <<>> /\ owned[Executive] = <<>>
          /\ \A v \in Worker \ {w} : Resting(v)
    BY <2>1, WorkerPhase DEF Resting
  <2>3. /\ Fits(job[w], RequestTypes, kind)
        /\ inbox[w] = <<>> /\ outbox[w] = <<>> /\ owned[w] = <<>>
    BY <2>1, <2>2 DEF Carries
  <2>4. /\ inbox' = inbox /\ job' = [job EXCEPT ![w] = NoJob] /\ job'[w] = NoJob
        /\ \A v \in Worker \ {w} : job'[v] = job[v]
    BY <1>3, <1>a DEF WorkerWorks
  <2>5. PICK ok :
          IF job[w].type = "FileSaveRequest"
          THEN Answers(w, outbox, "FileSaveResult", ok) /\ UNCHANGED owned
          ELSE Answers(w, owned, ResultOf(job[w].type), ok) /\ UNCHANGED outbox
    BY <1>3 DEF WorkerWorks
  <2>6. CASE lost' = TRUE /\ UNCHANGED <<outbox, owned>>
    <3>1. AllRest'
      BY <2>2, <2>3, <2>4, <2>6 DEF AllRest, Resting
    <3>2. Converting(kind)'
      BY <1>b, <2>2, <2>4, <2>6, <3>1 DEF Converting
    <3> QED
      BY <1>c, <2>2, <2>6, <3>2 DEF PhaseInv
  <2>7. CASE \E m : /\ job[w].type = "FileSaveRequest" /\ m = Message("FileSaveResult", job[w].slot, ok, <<>>)
                    /\ outbox' = [outbox EXCEPT ![w] = Append(@, m)]
                    /\ UNCHANGED <<owned, lost>>
    <3>1. PICK m : /\ job[w].type = "FileSaveRequest" /\ m = Message("FileSaveResult", job[w].slot, ok, <<>>)
                   /\ outbox' = [outbox EXCEPT ![w] = Append(@, m)]
                   /\ UNCHANGED <<owned, lost>>
      BY <2>7
    <3>2. outbox'[w] = <<m>> /\ \A t \in Thread : t # w => outbox'[t] = outbox[t]
      BY <1>a, <2>3, <3>1, OneMessage
    <3>3. Fits(m, {"FileSaveResult"}, kind)'
      BY <1>b, <2>3, <3>1 DEF Fits, Message, StateFor
    <3>4. Carries(w, kind)'
      BY <2>3, <2>4, <3>1, <3>2, <3>3, OneMessage DEF Carries
    <3>5. OneCarries(kind)'
      BY <1>a, <2>2, <2>4, <3>1, <3>2, <3>4 DEF OneCarries, Resting
    <3>6. Converting(kind)' /\ outbox'[Executive] = <<>>
      BY <1>a, <1>b, <2>2, <2>4, <3>1, <3>2, <3>5 DEF Converting, PhaseInv
    <3> QED
      BY <1>c, <2>2, <3>6
  <2>8. CASE \E m : /\ job[w].type # "FileSaveRequest" /\ m = Message(ResultOf(job[w].type), job[w].slot, ok, <<>>)
                    /\ owned' = [owned EXCEPT ![w] = Append(@, m)]
                    /\ UNCHANGED <<outbox, lost>>
    <3>1. PICK m : /\ job[w].type # "FileSaveRequest" /\ m = Message(ResultOf(job[w].type), job[w].slot, ok, <<>>)
                   /\ owned' = [owned EXCEPT ![w] = Append(@, m)]
                   /\ UNCHANGED <<outbox, lost>>
      BY <2>8
    <3>2. owned'[w] = <<m>> /\ \A t \in Thread : t # w => owned'[t] = owned[t]
      BY <1>a, <2>3, <3>1, OneMessage
    <3>3. Fits(m, ResultTypes \ {"FileSaveResult"}, kind)'
      BY <1>b, <2>3, <3>1 DEF Fits, Message, StateFor, ResultOf, RequestTypes, ResultTypes
    <3>4. Carries(w, kind)'
      BY <2>3, <2>4, <3>1, <3>2, <3>3, OneMessage DEF Carries
    <3>5. OneCarries(kind)'
      BY <1>a, <2>2, <2>4, <3>1, <3>2, <3>4 DEF OneCarries, Resting
    <3>6. Converting(kind)' /\ outbox'[Executive] = <<>>
      BY <1>a, <1>b, <2>2, <2>4, <3>1, <3>2, <3>5 DEF Converting, PhaseInv
    <3> QED
      BY <1>c, <2>2, <3>6
  <2> QED
    BY <2>5, <2>6, <2>7, <2>8 DEF Answers
<1>4. \/ UNCHANGED <<transports, job, lost>>
      \/ WorkerReads(w) \/ WorkerWorks(w)
  BY DEF WorkerNext, InPackage, WorkerRuns, WorkerStops, WorkerReadsNothing, WorkerWaits, WorkerExits,
         WorkerReturnsSpuriously, Enter, Return, WaitForNewEpoch, SpuriousReturn
<1> QED
  BY <1>1, <1>2, <1>3, <1>4

(* An answer that the executive takes is the message of its phase.         *)
LEMMA AnswerTaken ==
  ASSUME TypeInv, PhaseInv, NEW type, ExecutiveTakes(type)
  PROVE  /\ inbox[Executive] # <<>> /\ Head(inbox[Executive]).type = type
         /\ Answered(type) /\ type \in {"TgaLoadResult", "TgaSaveResult"}
         /\ hostAt \notin Starting /\ ~NotBegun
         /\ execState = IF type = "TgaLoadResult" THEN "load" ELSE "save"
         /\ UNCHANGED <<at, slots, job, lost, outbox, hostAt>>
         /\ inbox'[Executive] = <<>> /\ \A w \in Worker : inbox'[w] = inbox[w]
<1>a. /\ DOMAIN inbox = Thread /\ Executive \in Thread /\ Executive \notin Worker /\ Worker \subseteq Thread
      /\ execState \in {"none", "load", "save"}
  BY ThreadFacts DEF TypeInv, PackageTypes, HostTypes
<1>1. /\ inbox[Executive] # <<>> /\ Head(inbox[Executive]).type = type
      /\ at[Executive] = "check" /\ inbox' = [inbox EXCEPT ![Executive] = Tail(@)]
      /\ UNCHANGED <<at, slots, job, lost, outbox, hostAt>>
  BY DEF ExecutiveTakes, ExecutiveLeaves, hostVars, store
<1>2. Answered("TgaLoadResult") \/ Answered("TgaSaveResult")
  BY <1>1 DEF PhaseInv, Nothing, Loading, Saving, Requested, Converting
<1>3. Answered(type) /\ type \in {"TgaLoadResult", "TgaSaveResult"}
  BY <1>1, <1>2 DEF Answered
<1>4. /\ type = "TgaLoadResult" => Loading
      /\ type = "TgaSaveResult" => Saving
  BY <1>3 DEF Loading, Saving
<1>5. hostAt \notin Starting /\ ~NotBegun
  BY <1>1, <1>3, PhasesExclude DEF PhaseInv, NotBegun, Nothing
<1>6. execState = IF type = "TgaLoadResult" THEN "load" ELSE "save"
  BY <1>a, <1>1, <1>3, <1>4, PhasesExclude DEF PhaseInv
<1>7. Single(inbox[Executive])
  BY <1>3 DEF Answered
<1>8. inbox'[Executive] = <<>> /\ \A w \in Worker : inbox'[w] = inbox[w]
  BY <1>a, <1>1, <1>7, OneMessage
<1> QED
  BY <1>1, <1>3, <1>5, <1>6, <1>8

(* The executive asks for the load, and then for the save.                 *)
LEMMA ExecutivesPhase ==
  ASSUME TypeInv, LifeInv, PhaseInv, ExecutiveNext
  PROVE  PhaseInv'
<1> USE DEF ExecutiveLeaves, hostVars, executiveVars, history, packageVars, controls, transports, Moves
<1>a. /\ DOMAIN inbox = Thread /\ DOMAIN owned = Thread /\ DOMAIN at = Thread
      /\ Executive \in Thread /\ Executive \notin Worker /\ Worker \subseteq Thread
      /\ execState \in {"none", "load", "save"} /\ outbox[Executive] = <<>>
  BY ThreadFacts DEF TypeInv, PackageTypes, HostTypes, PhaseInv
<1>1. CASE InPackage(Executive)
  <2>1. UNCHANGED <<transports, slots, job, lost, execState, hostAt>>
    BY <1>1 DEF InPackage, Enter, Return, store
  <2>2. (NotBegun' => NotBegun) /\ at'[Executive] \notin {"started", "check"}
    BY <1>1, <1>a DEF InPackage, Enter, Return, NotBegun
  <2> QED
    BY <2>1, <2>2, QuietPhase
<1>2. CASE ExecutiveCannotEnter
  <2>1. UNCHANGED <<transports, slots, job, lost, execState, hostAt>>
    BY <1>2 DEF ExecutiveCannotEnter, EnterFails, store
  <2>2. at'[Executive] = "return"
    BY <1>2, <1>a DEF ExecutiveCannotEnter, EnterFails
  <2> QED
    BY <2>1, <2>2, QuietPhase DEF NotBegun
<1>3. CASE ExecutiveInitialises
  <2>1. UNCHANGED <<slots, job, lost, outbox, inbox, hostAt>> /\ at[Executive] = "starting"
    BY <1>3 DEF ExecutiveInitialises, store
  <2>2. CASE at'[Executive] = "shutdown" /\ UNCHANGED owned
    BY <2>1, <2>2, QuietPhase DEF NotBegun
  <2>3. CASE /\ at'[Executive] = "started" /\ execState' = "load"
             /\ \E m : /\ m.type = "TgaLoadRequest"
                       /\ owned' = [owned EXCEPT ![Executive] = Append(@, m)]
    <3>1. Nothing /\ ~lost
      BY <2>1 DEF PhaseInv, NotBegun
    <3>2. PICK m : m.type = "TgaLoadRequest" /\ owned' = [owned EXCEPT ![Executive] = Append(@, m)]
      BY <2>3
    <3>3. owned'[Executive] = <<m>> /\ \A w \in Worker : owned'[w] = owned[w]
      BY <1>a, <3>1, <3>2, OneMessage DEF Nothing
    <3>4. AllRest' /\ inbox'[Executive] = <<>> /\ DOMAIN slots' = {} /\ ~lost'
      BY <2>1, <3>1, <3>3 DEF Nothing, AllRest, Resting
    <3>5. Requested("TgaLoadRequest")'
      BY <3>2, <3>3, <3>4, OneMessage DEF Requested
    <3> QED
      BY <1>a, <2>1, <2>3, <3>5 DEF PhaseInv, Loading, NotBegun
  <2>4. Message("TgaLoadRequest", ExecutiveSlot, TRUE, <<>>).type = "TgaLoadRequest"
    BY DEF Message
  <2> QED
    BY <1>3, <1>a, <2>2, <2>3, <2>4 DEF ExecutiveInitialises
<1>4. CASE ExecutiveRuns
  <2>1. UNCHANGED <<transports, slots, job, lost, execState, hostAt>>
    BY <1>4 DEF ExecutiveRuns, store
  <2>2. at[Executive] = "started" /\ at'[Executive] = "check"
    BY <1>4, <1>a DEF ExecutiveRuns
  <2> QED
    BY <2>1, <2>2, QuietPhase DEF NotBegun
<1>5. CASE ExecutiveStops
  <2>1. UNCHANGED <<transports, slots, job, lost, execState, hostAt>>
    BY <1>5 DEF ExecutiveStops, store
  <2>2. at'[Executive] = "shutdown"
    BY <1>5, <1>a DEF ExecutiveStops
  <2> QED
    BY <2>1, <2>2, QuietPhase DEF NotBegun
<1>c. ASSUME NEW type, ExecutiveTakes(type), UNCHANGED owned, execState' = "none"
      PROVE  PhaseInv'
  <2>1. /\ Answered(type) /\ hostAt \notin Starting /\ ~NotBegun
        /\ UNCHANGED <<at, slots, job, lost, outbox, hostAt>>
        /\ inbox'[Executive] = <<>> /\ \A w \in Worker : inbox'[w] = inbox[w]
    BY <1>c, AnswerTaken
  <2>2. Nothing'
    BY <1>c, <2>1 DEF Nothing, Answered, AllRest, Resting
  <2> QED
    BY <1>a, <1>c, <2>1, <2>2 DEF PhaseInv, NotBegun
<1>6. CASE ExecutiveTakesLoadResult
  <2>1. ExecutiveTakes("TgaLoadResult")
    BY <1>6 DEF ExecutiveTakesLoadResult
  <2>2. /\ Answered("TgaLoadResult") /\ hostAt \notin Starting /\ ~NotBegun /\ execState = "load"
        /\ UNCHANGED <<at, slots, job, lost, outbox, hostAt>>
        /\ inbox'[Executive] = <<>> /\ \A w \in Worker : inbox'[w] = inbox[w]
    BY <2>1, AnswerTaken
  <2>3. CASE execState' = "none" /\ UNCHANGED owned
    BY <1>c, <2>1, <2>3
  <2>4. CASE /\ execState' = "save"
             /\ \E m : /\ m.type = "TgaSaveRequest"
                       /\ owned' = [owned EXCEPT ![Executive] = Append(@, m)]
    <3>2. PICK m : m.type = "TgaSaveRequest" /\ owned' = [owned EXCEPT ![Executive] = Append(@, m)]
      BY <2>4
    <3>3. owned'[Executive] = <<m>> /\ \A w \in Worker : owned'[w] = owned[w]
      BY <1>a, <2>2, <3>2, OneMessage DEF Answered
    <3>4. AllRest' /\ DOMAIN slots' = {} /\ ~lost'
      BY <2>2, <3>3 DEF Answered, AllRest, Resting
    <3>5. Requested("TgaSaveRequest")'
      BY <2>2, <3>2, <3>3, <3>4, OneMessage DEF Requested
    <3> QED
      BY <1>a, <2>2, <2>4, <3>5 DEF PhaseInv, Saving, NotBegun
  <2>5. \A s, ids : Message("TgaSaveRequest", s, TRUE, ids).type = "TgaSaveRequest"
    BY DEF Message
  <2> QED
    BY <1>6, <2>2, <2>3, <2>4, <2>5 DEF ExecutiveTakesLoadResult
<1>7. CASE ExecutiveTakesSaveResult
  <2>1. ExecutiveTakes("TgaSaveResult") /\ UNCHANGED owned
    BY <1>7 DEF ExecutiveTakesSaveResult
  <2>2. execState = "save"
    BY <2>1, AnswerTaken
  <2>3. execState' = "none"
    BY <1>7, <2>2 DEF ExecutiveTakesSaveResult
  <2> QED
    BY <1>c, <2>1, <2>3
<1>8. CASE ExecutiveShutsDown
  <2>1. UNCHANGED <<transports, slots, job, lost, hostAt>>
    BY <1>8 DEF ExecutiveShutsDown, store
  <2>2. at'[Executive] = "return"
    BY <1>8, <1>a DEF ExecutiveShutsDown
  <2> QED
    BY <2>1, <2>2, QuietPhase DEF NotBegun
<1> QED
  BY <1>1, <1>2, <1>3, <1>4, <1>5, <1>6, <1>7, <1>8 DEF ExecutiveNext

(* The steps in which the host handles no message.                         *)
HostMoves ==
    \/ HostStarts \/ HostCannotStart \/ HostReady
    \/ HostPasses \/ HostNoPod \/ HostNoOwned \/ HostNotifies
    \/ HostSkips \/ HostRequestsExit \/ HostReleases \/ HostRouses \/ HostJoins
    \/ DebugRequestsShutdown

LEMMA HostMovesFrame ==
  ASSUME TypeInv, HostMoves
  PROVE  /\ UNCHANGED <<transports, store, job, lost, written, executiveVars>>
         /\ hostAt' \in Starting => hostAt \in Starting
         /\ \A t \in Thread : \/ at'[t] = at[t]
                              \/ at[t] = "none" /\ at'[t] = "enter"
                              \/ at[t] = "parked" /\ at'[t] = "waiting"
<1> USE DEF hostVars, executiveVars, history, packageVars, controls, HostGoes, Starting, HostMoves
<1>1. UNCHANGED <<transports, store, job, lost, written, executiveVars>>
  BY DEF HostStarts, HostCannotStart, HostReady, HostPasses, HostNoPod, HostNoOwned,
         HostNotifies, HostSkips, HostRequestsExit, HostReleases, HostRouses, HostJoins,
         DebugRequestsShutdown, Create, Poke, Wake, RequestExit, ReleaseControl, WakeAll, Join
<1>2. hostAt' \in Starting => hostAt \in Starting
  BY DEF HostStarts, HostCannotStart, HostReady, HostPasses, HostNoPod, HostNoOwned,
         HostNotifies, HostSkips, HostRequestsExit, HostReleases, HostRouses, HostJoins,
         DebugRequestsShutdown, HostTurnsBack
<1>3. \/ UNCHANGED at
      \/ \E s : WakeUp(s)
      \/ \E s : Moves(s, "none", "enter")
  BY DEF HostStarts, HostCannotStart, HostReady, HostPasses, HostNoPod, HostNoOwned,
         HostNotifies, HostSkips, HostRequestsExit, HostReleases, HostRouses, HostJoins,
         DebugRequestsShutdown, Create, Poke, Wake, RequestExit, ReleaseControl, WakeAll, Join
<1>4. DOMAIN at = Thread
  BY DEF TypeInv, PackageTypes
<1> QED
  BY <1>1, <1>2, <1>3, <1>4 DEF WakeUp, Moves

LEMMA PhaseNext ==
  ASSUME TypeInv, LifeInv, PhaseInv, [Next]_vars
  PROVE  PhaseInv'
<1>1. CASE HostMoves
  BY <1>1, HostMovesFrame, QuietPhase, ThreadFacts DEF NotBegun, executiveVars, store
<1>2. CASE HostNotReady
  <2>1. /\ UNCHANGED <<slots, job, lost, at, execState>>
        /\ hostAt = "await" /\ hostAt' = "stop" /\ at[Turn] = "ended"
        /\ inbox' = [inbox EXCEPT ![Turn] = <<>>]
        /\ outbox' = [outbox EXCEPT ![Turn] = <<>>]
        /\ owned' = [owned EXCEPT ![Turn] = <<>>]
    BY <1>2 DEF HostNotReady, Abandon, HostGoes, store, executiveVars, history
  <2>2. /\ DOMAIN inbox = Thread /\ DOMAIN outbox = Thread /\ DOMAIN owned = Thread
        /\ Turn \in Thread
    BY TurnFacts DEF TypeInv, PackageTypes, HostTypes
  <2>3. /\ DOMAIN slots = {} /\ AllRest /\ inbox[Executive] = <<>>
        /\ Nothing \/ Requested("TgaLoadRequest")
    BY <2>1 DEF PhaseInv, Starting, Nothing, Requested
  <2>4. \A t \in Thread : /\ inbox[t] = <<>> => inbox'[t] = <<>>
                          /\ outbox[t] = <<>> => outbox'[t] = <<>>
                          /\ owned[t] = <<>> => owned'[t] = <<>>
    BY <2>1, <2>2
  <2>5. AllRest' /\ DOMAIN slots' = {} /\ inbox'[Executive] = <<>> /\ outbox'[Executive] = <<>>
    BY <2>1, <2>3, <2>4, ThreadFacts DEF AllRest, Resting, PhaseInv
  <2>6. CASE Turn = Executive
    <3>1. Nothing'
      BY <2>1, <2>2, <2>5, <2>6 DEF Nothing
    <3> QED
      BY <2>1, <2>5, <2>6, <3>1 DEF PhaseInv, NotBegun, Starting
  <2>7. CASE Turn # Executive
    <3>1. at[Executive] = "none"
      <4>1. PICK k \in 1 .. 3 : Order[k] = Executive
        BY ThreadFacts
      <4>2. k > turn
        <5>1. turn \in 1 .. 3 /\ turn # k
          BY <2>7, <4>1 DEF Turn, TypeInv, HostTypes
        <5>2. turn = 1 \/ turn = 2 \/ turn = 3
          BY <5>1
        <5>3. k = 3
          BY <4>1, ThreadFacts DEF Order, Executive
        <5> QED
          BY <5>1, <5>3
      <4> QED
        BY <2>1, <4>1, <4>2 DEF LifeInv
    <3>2. Nothing /\ ~lost
      BY <3>1 DEF PhaseInv, NotBegun
    <3>3. Nothing'
      BY <2>2, <2>4, <2>5, <3>2, ThreadFacts DEF Nothing
    <3> QED
      BY <2>1, <2>5, <3>1, <3>2, <3>3 DEF PhaseInv, NotBegun, Starting
  <2> QED
    BY <2>6, <2>7
<1>3. CASE HostTearsDown
  <2>1. /\ hostAt = "teardown" /\ hostAt' = "done" /\ UNCHANGED <<job, at, lost>>
        /\ slots' = Releasing(DOMAIN slots)
        /\ inbox' = [t \in Thread |-> <<>>] /\ outbox' = [t \in Thread |-> <<>>]
        /\ owned' = [t \in Thread |-> <<>>]
    BY <1>3 DEF HostTearsDown, HostGoes, history
  <2>2. \A t \in Thread : at[t] \in {"none", "ended"}
    BY <2>1 DEF LifeInv, Over, IsAlive
  <2>3. \A w \in Worker : job[w] = NoJob
    BY <2>2, ThreadFacts DEF LifeInv
  <2>4. Nothing' /\ outbox'[Executive] = <<>>
    BY <2>1, <2>3, ThreadFacts DEF Nothing, AllRest, Resting, Releasing, Restrict
  <2> QED
    BY <2>1, <2>2, <2>4, ThreadFacts DEF PhaseInv, NotBegun, Starting
<1>4. CASE UNCHANGED vars
  BY <1>4, QuietPhase DEF vars, packageVars, hostVars, executiveVars, history, store, NotBegun
<1> QED
  BY <1>1, <1>2, <1>3, <1>4, HandlersPhase, WorkersPhase, ExecutivesPhase
  DEF Next, HostNext, HostMoves, Handles, Finished
-----------------------------------------------------------------------------
(* At most one phase, with the kind of job or the type of message it is of. *)
LEMMA OnePhaseNext ==
  /\ \A kind : Converting(kind)' =>
       /\ ~Nothing' /\ \A type : ~Requested(type)' /\ ~Answered(type)'
       /\ \A other : Converting(other)' => other = kind
  /\ \A type : Answered(type)' =>
       /\ ~Nothing' /\ \A other : ~Requested(other)' /\ (Answered(other)' => other = type)
  /\ Nothing' => \A type : ~Requested(type)'
<1>1. \A kind : Converting(kind)' =>
         DOMAIN slots' # {} /\ \A s \in DOMAIN slots' : slots'[s].kind = kind
  BY DEF Converting
<1>2. \A type : Requested(type)' =>
        DOMAIN slots' = {} /\ inbox'[Executive] = <<>> /\ owned'[Executive] # <<>>
  BY DEF Requested, Single
<1>3. \A type : Answered(type)' =>
        DOMAIN slots' = {} /\ owned'[Executive] = <<>> /\ inbox'[Executive] # <<>> /\ Head(inbox'[Executive]).type = type
  BY DEF Answered, Single
<1>4. Nothing' => DOMAIN slots' = {} /\ inbox'[Executive] = <<>> /\ owned'[Executive] = <<>>
  BY DEF Nothing
<1> QED
  BY <1>1, <1>2, <1>3, <1>4

(* A step that starts nothing: what it leaves was under way before.        *)
LEMMA PhaseEases ==
  ASSUME PhaseInv, slots' = slots \/ DOMAIN slots' = {},
         owned'[Executive] \in {owned[Executive], <<>>},
         inbox'[Executive] \in {inbox[Executive], <<>>}
  PROVE  /\ \A kind \in SlotKind : Converting(kind)' => Converting(kind)
         /\ \A type : Requested(type)' => Requested(type)
         /\ \A type : Answered(type)' => Answered(type)
<1>1. ASSUME NEW kind \in SlotKind, Converting(kind)'
      PROVE  Converting(kind)
  <2>1. PICK s \in HostSlot : DOMAIN slots' = {s} /\ slots'[s].kind = kind
    BY <1>1 DEF Converting
  <2>2. DOMAIN slots = {s} /\ slots[s].kind = kind
    BY <2>1
  <2>3. \E other : Converting(other)
    BY <2>2 DEF PhaseInv, Nothing, Loading, Saving, Requested, Answered
  <2>4. \A other : Converting(other) => other = kind
    BY <2>2 DEF Converting
  <2> QED
    BY <2>3, <2>4
<1>2. ASSUME NEW type, Requested(type)'
      PROVE  Requested(type)
  <2>1. owned[Executive] # <<>> /\ Head(owned[Executive]).type = type
    BY <1>2 DEF Requested, Single
  <2>2. \E other : Requested(other)
    BY <2>1 DEF PhaseInv, Nothing, Loading, Saving, Converting, Answered
  <2> QED
    BY <2>1, <2>2 DEF Requested
<1>3. ASSUME NEW type, Answered(type)'
      PROVE  Answered(type)
  <2>1. inbox[Executive] # <<>> /\ Head(inbox[Executive]).type = type
    BY <1>3 DEF Answered, Single
  <2>2. \E other : Answered(other)
    BY <2>1 DEF PhaseInv, Nothing, Loading, Saving, Converting, Requested
  <2> QED
    BY <2>1, <2>2 DEF Answered
<1> QED
  BY <1>1, <1>2, <1>3

(* The pokes stay as few when none is begun and the phase allows no fewer. *)
LEMMA CountKept ==
  ASSUME CountInv,
         \A w \in Worker : HasControl(w)' => (HasControl(w) /\ Pokes(w)' = Pokes(w)) \/ Pokes(w)' = 0,
         NotBegun' \/ Requested("TgaLoadRequest")' => NotBegun \/ Requested("TgaLoadRequest"),
         Converting("load")' => Converting("load"),
         Converting("encode")' => Converting("encode"),
         Converting("decode")' \/ Answered("TgaLoadResult")' \/ Requested("TgaSaveRequest")' =>
           Converting("decode") \/ Answered("TgaLoadResult") \/ Requested("TgaSaveRequest")
  PROVE  CountInv'
<1>1. \A f, c \in Nat : AtMost(f, c) => AtMost(f, c)'
  BY DEF AtMost, Worker
<1>2. AtMost(2, 2)'
  BY <1>1 DEF CountInv
<1>3. (NotBegun \/ Requested("TgaLoadRequest") => AtMost(0, 0))'
  BY <1>1 DEF CountInv
<1>4. (Converting("load") => AtMost(1, 0))'
  BY <1>1 DEF CountInv
<1>5. (Converting("decode") \/ Answered("TgaLoadResult") \/ Requested("TgaSaveRequest") => AtMost(1, 1))'
  BY <1>1 DEF CountInv
<1>6. (Converting("encode") => AtMost(1, 2))'
  BY <1>1 DEF CountInv
<1> QED
  BY <1>2, <1>3, <1>4, <1>5, <1>6 DEF CountInv

(* What a step does to the words and to the notification.                  *)
PokesKept ==
    \A w \in Worker : HasControl(w)' => (HasControl(w) /\ Pokes(w)' = Pokes(w)) \/ Pokes(w)' = 0

WorkersStep == \E w \in Worker : WorkerNext(w) \/ WorkerReturnsSpuriously(w)
OtherStep == HostMoves \/ HostNotReady \/ HostTearsDown \/ WorkersStep \/ ExecutiveNext \/ UNCHANGED vars

LEMMA NextCases == [Next]_vars => Handles \/ OtherStep
BY DEF Next, HostNext, HostMoves, Handles, WorkersStep, OtherStep, Finished

LEMMA PokesNext ==
  ASSUME TypeInv, LifeInv, CountInv, OtherStep
  PROVE  PokesKept
<1> USE DEF packageVars, controls, hostVars, executiveVars, history
<1>1. CASE UNCHANGED <<word, notify>>
  BY <1>1 DEF PokesKept, HasControl, Pokes
<1>2. CASE HostStarts \/ HostNotReady \/ HostReleases
  <2>1. /\ \E e \in {0, Released} : word' = [word EXCEPT ![Turn] = e]
        /\ notify' = notify /\ hostAt \notin {"pods", "owned"}
    BY <1>2 DEF HostStarts, HostNotReady, HostReleases, Create, Abandon, ReleaseControl, HostGoes
  <2>2. notify = Idle
    BY <2>1 DEF LifeInv
  <2>3. \A w \in Thread : word'[w] = word[w] \/ word'[w] \in {0, Released}
    BY <2>1 DEF TypeInv, PackageTypes
  <2>4. \A w \in Worker : Pokes(w) = word[w] /\ Pokes(w)' = word'[w]
    BY <2>1, <2>2 DEF Pokes, Idle
  <2> QED
    BY <2>3, <2>4, ThreadFacts DEF PokesKept, HasControl
<1>3. CASE Poke
  <2>1. /\ notify.step = "poke" /\ notify \in Notices /\ notify # Idle
        /\ word' = [word EXCEPT ![notify.thread] = NextEpoch(@)]
        /\ notify' = [notify EXCEPT !.step = "wake"]
        /\ word \in [Thread -> 0 .. Released] /\ DOMAIN word = Thread
    BY <1>3 DEF Poke, TypeInv, PackageTypes, Idle
  <2>2. /\ notify.thread \in Thread /\ notify = [step |-> "poke", thread |-> notify.thread]
        /\ notify' = [step |-> "wake", thread |-> notify.thread]
    BY <2>1 DEF Notices, Idle
  <2>3. \A w \in Thread : HasControl(w)
    BY <2>1 DEF LifeInv, Running
  <2>4. \A w \in Worker : Pokes(w) \in Nat /\ Pokes(w) <= 2
    <3>1. \A w \in Worker : word[w] \in Nat
      BY <2>1, ThreadFacts, ReleasedAssumption
    <3> QED
      <4>1. AtMost(2, 2)
        BY DEF CountInv
      <4>2. HasControl("file_io") /\ HasControl("conditioning")
        BY <2>3, ThreadFacts DEF Worker
      <4> QED
        BY <3>1, <4>1, <4>2 DEF AtMost, Worker, Pokes
  <2>5. ASSUME NEW w \in Worker
        PROVE  Pokes(w)' = Pokes(w)
    <3>1. Pokes(w)' = word'[w]
      BY <2>2 DEF Pokes
    <3>2. CASE w = notify.thread
      <4>1. Pokes(w) = word[w] + 1
        BY <2>2, <3>2 DEF Pokes
      <4>2. word[w] \in 0 .. Released /\ word[w] <= 1
        BY <2>1, <2>4, <4>1, ThreadFacts, ReleasedAssumption
      <4>3. word'[w] = word[w] + 1
        BY <2>1, <3>2, <4>2, ThreadFacts, NextEpochFacts
      <4> QED
        BY <3>1, <4>1, <4>3
    <3>3. CASE w # notify.thread
      BY <2>1, <2>2, <3>1, <3>3, ThreadFacts DEF Pokes
    <3> QED
      BY <3>2, <3>3
  <2> QED
    BY <2>3, <2>5, ThreadFacts DEF PokesKept
<1>4. CASE Wake
  <2>1. notify.step = "wake" /\ notify' = Idle /\ word' = word
    BY <1>4 DEF Wake
  <2> QED
    BY <2>1 DEF PokesKept, HasControl, Pokes, Idle
<1>5. \/ UNCHANGED <<word, notify>>
      \/ HostStarts \/ HostNotReady \/ HostReleases \/ Poke \/ Wake
  <2>1. HostMoves \/ HostNotReady \/ HostTearsDown =>
          \/ UNCHANGED <<word, notify>>
          \/ HostStarts \/ HostNotReady \/ HostReleases \/ Poke \/ Wake
    BY DEF HostMoves, HostCannotStart, HostReady, HostPasses, HostNoPod, HostNoOwned,
           HostNotifies, HostSkips, HostRequestsExit, HostRouses, HostJoins, HostTearsDown,
           DebugRequestsShutdown, RequestExit, WakeAll, Join
  <2>2. \A w \in Worker : WorkerNext(w) \/ WorkerReturnsSpuriously(w) => UNCHANGED <<word, notify>>
    BY DEF WorkerNext, InPackage, WorkerRuns, WorkerStops, WorkerReads, WorkerReadsNothing, WorkerWorks,
           WorkerWaits, WorkerExits, WorkerReturnsSpuriously, Enter, Return, WaitForNewEpoch,
           SpuriousReturn
  <2>3. ExecutiveNext => UNCHANGED <<word, notify>>
    BY DEF ExecutiveNext, InPackage, ExecutiveCannotEnter, ExecutiveInitialises, ExecutiveRuns,
           ExecutiveStops, ExecutiveTakesLoadResult, ExecutiveTakesSaveResult, ExecutiveShutsDown,
           ExecutiveTakes, ExecutiveLeaves, Enter, Return, EnterFails
  <2>4. UNCHANGED vars => UNCHANGED <<word, notify>>
    BY DEF vars
  <2> QED
    BY <2>1, <2>2, <2>3, <2>4 DEF OtherStep, WorkersStep
<1> QED
  BY <1>1, <1>2, <1>3, <1>4, <1>5

(* The executive's requests are made when the pokes are few enough.        *)
LEMMA CountNext ==
  ASSUME TypeInv, LifeInv, PhaseInv, CountInv, [Next]_vars
  PROVE  CountInv'
<1> USE DEF packageVars, controls, transports, hostVars, executiveVars, history, store
<1> DEFINE Quiet ==
      /\ slots' = slots \/ DOMAIN slots' = {}
      /\ owned'[Executive] \in {owned[Executive], <<>>}
      /\ inbox'[Executive] \in {inbox[Executive], <<>>}
      /\ NotBegun' => NotBegun
<1>a. /\ DOMAIN at = Thread /\ DOMAIN owned = Thread /\ DOMAIN inbox = Thread /\ Turn \in Thread
      /\ Executive \in Thread /\ Executive \notin Worker /\ Worker \subseteq Thread
  BY TurnFacts, ThreadFacts DEF TypeInv, PackageTypes, HostTypes
<1>1. ASSUME Quiet, OtherStep
      PROVE  CountInv'
  <2>1. PokesKept
    BY <1>1, PokesNext
  <2>2. /\ Converting("load")' => Converting("load")
        /\ Converting("decode")' => Converting("decode")
        /\ Converting("encode")' => Converting("encode")
        /\ Requested("TgaLoadRequest")' => Requested("TgaLoadRequest")
        /\ Requested("TgaSaveRequest")' => Requested("TgaSaveRequest")
        /\ Answered("TgaLoadResult")' => Answered("TgaLoadResult")
    BY <1>1, PhaseEases DEF SlotKind
  <2> QED
    BY <1>1, <2>1, <2>2, CountKept DEF PokesKept
<1>2. CASE HostMoves \/ UNCHANGED vars
  <2>1. Quiet
    BY <1>2, <1>a, HostMovesFrame DEF NotBegun, vars
  <2> QED
    BY <1>1, <1>2, <2>1 DEF OtherStep
<1>3. CASE HostNotReady
  <2>1. Quiet
    BY <1>3, <1>a DEF HostNotReady, Abandon, NotBegun
  <2> QED
    BY <1>1, <1>3, <2>1 DEF OtherStep
<1>4. CASE HostTearsDown
  <2>1. DOMAIN slots' = {} /\ at' = at
    BY <1>4 DEF HostTearsDown, Releasing, Restrict
  <2>2. inbox'[Executive] = <<>> /\ owned'[Executive] = <<>>
    BY <1>4, <1>a DEF HostTearsDown
  <2>3. Quiet
    BY <2>1, <2>2 DEF NotBegun
  <2> QED
    BY <1>1, <1>4, <2>3 DEF OtherStep
<1>5. CASE WorkersStep
  <2>1. PICK w \in Worker : WorkerNext(w) \/ WorkerReturnsSpuriously(w)
    BY <1>5 DEF WorkersStep
  <2>2. /\ slots' = slots
        /\ \E to : at' = [at EXCEPT ![w] = to]
        /\ inbox' = inbox \/ \E q : inbox' = [inbox EXCEPT ![w] = q]
        /\ owned' = owned \/ \E q : owned' = [owned EXCEPT ![w] = q]
    BY <2>1 DEF WorkerNext, InPackage, WorkerRuns, WorkerStops, WorkerReads, WorkerReadsNothing, WorkerWorks,
           WorkerWaits, WorkerExits, WorkerReturnsSpuriously, Enter, Return, WaitForNewEpoch,
           SpuriousReturn, Moves, WorkerLeaves, Answers
  <2>3. Quiet
    BY <1>a, <2>2 DEF NotBegun
  <2> QED
    BY <1>1, <1>5, <2>3 DEF OtherStep
<1>6. CASE ExecutiveNext
  <2>1. PokesKept
    BY <1>6, PokesNext DEF OtherStep
  <2>2. slots' = slots
    BY <1>6 DEF ExecutiveNext, InPackage, ExecutiveCannotEnter, ExecutiveInitialises, ExecutiveRuns,
           ExecutiveStops, ExecutiveTakesLoadResult, ExecutiveTakesSaveResult, ExecutiveShutsDown,
           ExecutiveTakes, ExecutiveLeaves, Enter, Return, EnterFails
  <2>3. NotBegun' => NotBegun
    BY <1>6, <1>a DEF ExecutiveNext, InPackage, ExecutiveCannotEnter, ExecutiveInitialises, ExecutiveRuns,
           ExecutiveStops, ExecutiveTakesLoadResult, ExecutiveTakesSaveResult, ExecutiveShutsDown,
           ExecutiveTakes, Moves, Enter, Return, EnterFails, NotBegun
  <2>4. CASE UNCHANGED <<inbox, owned>>
    <3>1. Quiet
      BY <2>2, <2>3, <2>4
    <3> QED
      BY <1>1, <1>6, <3>1 DEF OtherStep
  <2>5. CASE ExecutiveInitialises
    <3>1. inbox' = inbox /\ NotBegun
      BY <2>5 DEF ExecutiveInitialises, Moves, NotBegun
    <3>2. Nothing
      BY <3>1 DEF PhaseInv
    <3>3. /\ DOMAIN slots' = {} /\ inbox'[Executive] = <<>>
          /\ \/ owned' = owned
             \/ owned'[Executive] = <<Message("TgaLoadRequest", ExecutiveSlot, TRUE, <<>>)>>
      BY <1>a, <2>2, <2>5, <3>1, <3>2, OneMessage DEF ExecutiveInitialises, Nothing
    <3>4. /\ ~Converting("load")' /\ ~Converting("decode")' /\ ~Converting("encode")'
          /\ ~Answered("TgaLoadResult")'
      BY <3>3 DEF Converting, Answered, Single
    <3>5. ~Requested("TgaSaveRequest")'
      BY <3>2, <3>3, OneMessage DEF Requested, Single, Message, Nothing
    <3> QED
      BY <2>1, <3>1, <3>4, <3>5, CountKept DEF PokesKept
  <2>6. CASE ExecutiveTakesLoadResult
    <3>1. /\ Answered("TgaLoadResult") /\ ~NotBegun /\ inbox'[Executive] = <<>>
      BY <2>6, AnswerTaken DEF ExecutiveTakesLoadResult
    <3>2. DOMAIN slots' = {} /\ owned[Executive] = <<>>
      BY <2>2, <3>1 DEF Answered
    <3>3. \/ owned' = owned
          \/ \E m : /\ m.type = "TgaSaveRequest"
                    /\ owned' = [owned EXCEPT ![Executive] = Append(@, m)]
      <4>1. \A s, ids : Message("TgaSaveRequest", s, TRUE, ids).type = "TgaSaveRequest"
        BY DEF Message
      <4> QED
        BY <2>6, <4>1 DEF ExecutiveTakesLoadResult
    <3>4. ~Requested("TgaLoadRequest")'
      <4>1. CASE owned' = owned
        BY <3>2, <4>1 DEF Requested, Single
      <4>2. ASSUME NEW m, m.type = "TgaSaveRequest", owned' = [owned EXCEPT ![Executive] = Append(@, m)]
            PROVE  ~Requested("TgaLoadRequest")'
        <5>1. owned'[Executive] = <<m>>
          BY <1>a, <3>2, <4>2, OneMessage
        <5> QED
          BY <4>2, <5>1, OneMessage DEF Requested
      <4> QED
        BY <3>3, <4>1, <4>2
    <3>5. ~Converting("load")' /\ ~Converting("encode")'
      BY <3>2 DEF Converting
    <3> QED
      BY <2>1, <2>3, <3>1, <3>4, <3>5, CountKept DEF PokesKept
  <2>7. CASE ExecutiveTakesSaveResult
    <3>1. Quiet
      BY <2>2, <2>3, <2>7, AnswerTaken DEF ExecutiveTakesSaveResult
    <3> QED
      BY <1>1, <1>6, <3>1 DEF OtherStep
  <2>8. ExecutiveNext =>
          UNCHANGED <<inbox, owned>> \/ ExecutiveInitialises \/ ExecutiveTakesLoadResult \/ ExecutiveTakesSaveResult
    BY DEF ExecutiveNext, InPackage, ExecutiveCannotEnter, ExecutiveRuns,
           ExecutiveStops, ExecutiveShutsDown, ExecutiveLeaves, Enter, Return, EnterFails
  <2> QED
    BY <1>6, <2>4, <2>5, <2>6, <2>7, <2>8
<1>7. CASE Handles
  <2>1. /\ Cleared /\ Outcome
        /\ notify = Idle /\ word' = word
    BY <1>7, HandlerOutcome, HandlerFrame DEF TypeInv
  <2>2. ~NotBegun'
    <3>1. Loading \/ Saving
      BY <2>1 DEF Outcome, Loading, Saving
    <3>2. at' = at
      BY <1>7, HandlerFrame DEF TypeInv
    <3> QED
      BY <3>1, <3>2, PhasesExclude DEF PhaseInv, NotBegun
  <2>3. \A w \in Worker : Pokes(w) = word[w] /\ word[w] \in Nat
    BY <1>a, <2>1, ReleasedAssumption DEF Pokes, Idle, TypeInv, PackageTypes
  <2>4. ASSUME LoadEnds \/ SaveEnds, NEW f \in Nat, NEW c \in Nat, AtMost(f, c)
        PROVE  AtMost(f, c)'
    <3>1. UNCHANGED notify \/ notify' = [step |-> "poke", thread |-> "executive"]
      BY <2>4 DEF LoadEnds, SaveEnds, LoadFails, SaveFails, Reports, Posts
    <3>2. \A w \in Worker : Pokes(w)' = Pokes(w)
      BY <2>1, <2>3, <3>1 DEF Pokes, Idle, Worker
    <3> QED
      BY <2>1, <2>4, <3>2 DEF AtMost, HasControl, Worker
  <2>5. ASSUME NEW worker \in Worker, NEW type, Goes(worker, type), NEW f \in Nat, NEW c \in Nat, AtMost(f, c)
        PROVE  IF worker = "file_io" THEN AtMost(f + 1, c)' ELSE AtMost(f, c + 1)'
    <3>1. notify' = [step |-> "poke", thread |-> worker]
      BY <2>5 DEF Goes, Asks, Posts
    <3>2. \A w \in Worker : Pokes(w)' = IF w = worker THEN Pokes(w) + 1 ELSE Pokes(w)
      BY <2>1, <2>3, <3>1 DEF Pokes, Idle
    <3>3. CASE worker = "file_io"
      <4>1. Pokes("file_io")' = Pokes("file_io") + 1 /\ Pokes("conditioning")' = Pokes("conditioning")
        BY <3>2, <3>3 DEF Worker
      <4>2. Pokes("file_io") \in Nat /\ Pokes("conditioning") \in Nat
        BY <2>3 DEF Worker
      <4> QED
        BY <2>1, <2>5, <3>3, <4>1, <4>2 DEF AtMost, HasControl
    <3>4. CASE worker = "conditioning"
      <4>1. Pokes("conditioning")' = Pokes("conditioning") + 1 /\ Pokes("file_io")' = Pokes("file_io")
        BY <3>2, <3>4 DEF Worker
      <4>2. Pokes("file_io") \in Nat /\ Pokes("conditioning") \in Nat
        BY <2>3 DEF Worker
      <4> QED
        BY <2>1, <2>5, <3>4, <4>1, <4>2 DEF AtMost, HasControl
    <3> QED
      BY <3>3, <3>4 DEF Worker
  <2>6. "file_io" \in Worker /\ "conditioning" \in Worker
    BY DEF Worker
  <2>7. ASSUME NEW f \in {1, 2}, NEW c \in {0, 1, 2}, AtMost(f, c)'
        PROVE  AtMost(2, 2)'
    BY <2>1, <2>3, <2>7 DEF AtMost, HasControl, Worker, Pokes
  <2>8. CASE Loading /\ LoadEnds
    <3>1. AtMost(1, 1)
      <4>1. /\ AtMost(0, 0) => AtMost(1, 1)
            /\ AtMost(1, 0) => AtMost(1, 1)
        BY <2>3 DEF AtMost, Worker
      <4>2. AtMost(0, 0) \/ AtMost(1, 0) \/ AtMost(1, 1)
        BY <2>8 DEF CountInv, Loading
      <4> QED
        BY <4>1, <4>2
    <3>2. AtMost(1, 1)'
      BY <2>4, <2>8, <3>1
    <3>3. Answered("TgaLoadResult")' \/ Nothing'
      BY <2>1, <2>8, OutcomePhases
    <3>4. (~Converting("load") /\ ~Converting("encode") /\ ~Requested("TgaLoadRequest"))'
      BY <3>3, OnePhaseNext
    <3> QED
      BY <2>2, <2>7, <3>2, <3>4 DEF CountInv
  <2>9. CASE Saving /\ SaveEnds
    <3>1. AtMost(2, 2)'
      BY <2>4, <2>9 DEF CountInv
    <3>2. Answered("TgaSaveResult")' \/ Nothing'
      BY <2>1, <2>9, OutcomePhases
    <3>3. /\ ~Converting("load")' /\ ~Converting("decode")' /\ ~Converting("encode")'
          /\ ~Requested("TgaLoadRequest")' /\ ~Requested("TgaSaveRequest")'
          /\ ~Answered("TgaLoadResult")'
      BY <3>2, OnePhaseNext
    <3> QED
      BY <2>2, <3>1, <3>3 DEF CountInv
  <2>10. CASE Requested("TgaLoadRequest") /\ Goes("file_io", "FileLoadRequest")
    <3>1. AtMost(0, 0)
      BY <2>10 DEF CountInv
    <3>2. AtMost(1, 0)'
      BY <2>5, <2>6, <2>10, <3>1
    <3>3. Converting("load")'
      BY <2>1, <2>10, OutcomePhases
    <3>4. /\ ~Converting("decode")' /\ ~Converting("encode")'
          /\ ~Requested("TgaLoadRequest")' /\ ~Requested("TgaSaveRequest")'
          /\ ~Answered("TgaLoadResult")'
      BY <3>3, OnePhaseNext
    <3> QED
      BY <2>2, <2>7, <3>2, <3>4 DEF CountInv
  <2>11. CASE Converting("load") /\ Goes("conditioning", "TgaDecodeRequest")
    <3>1. AtMost(1, 0)
      BY <2>11 DEF CountInv
    <3>2. AtMost(1, 1)'
      BY <2>5, <2>6, <2>11, <3>1
    <3>3. Converting("decode")'
      BY <2>1, <2>11, OutcomePhases
    <3>4. /\ ~Converting("load")' /\ ~Converting("encode")'
          /\ ~Requested("TgaLoadRequest")'
      BY <3>3, OnePhaseNext
    <3> QED
      BY <2>2, <2>7, <3>2, <3>4 DEF CountInv
  <2>12. CASE Requested("TgaSaveRequest") /\ Goes("conditioning", "TgaEncodeRequest")
    <3>1. AtMost(1, 1)
      BY <2>12 DEF CountInv
    <3>2. AtMost(1, 2)'
      BY <2>5, <2>6, <2>12, <3>1
    <3>3. Converting("encode")'
      BY <2>1, <2>12, OutcomePhases
    <3>4. /\ ~Converting("load")' /\ ~Converting("decode")'
          /\ ~Requested("TgaLoadRequest")' /\ ~Requested("TgaSaveRequest")'
          /\ ~Answered("TgaLoadResult")'
      BY <3>3, OnePhaseNext
    <3> QED
      BY <2>2, <2>7, <3>2, <3>4 DEF CountInv
  <2>13. CASE Converting("encode") /\ Goes("file_io", "FileSaveRequest")
    <3>1. AtMost(1, 2)
      BY <2>13 DEF CountInv
    <3>2. AtMost(2, 2)'
      BY <2>5, <2>6, <2>13, <3>1
    <3>3. Converting("save")'
      BY <2>1, <2>13, OutcomePhases
    <3>4. /\ ~Converting("load")' /\ ~Converting("decode")' /\ ~Converting("encode")'
          /\ ~Requested("TgaLoadRequest")' /\ ~Requested("TgaSaveRequest")'
          /\ ~Answered("TgaLoadResult")'
      BY <3>3, OnePhaseNext
    <3> QED
      BY <2>2, <3>2, <3>4 DEF CountInv
  <2> QED
    BY <2>1, <2>8, <2>9, <2>10, <2>11, <2>12, <2>13 DEF Outcome
<1> QED
  BY <1>2, <1>3, <1>4, <1>5, <1>6, <1>7, NextCases DEF OtherStep
-----------------------------------------------------------------------------
(* A worker that could sleep through a message is about to be woken.       *)
LEMMA SleepNext ==
  ASSUME TypeInv, LifeInv, PhaseInv, CountInv, SleepInv, [Next]_vars
  PROVE  SleepInv'
<1> DEFINE Poking(w) == notify = [step |-> "poke", thread |-> w]
           Waking(w) == notify = [step |-> "wake", thread |-> w]
           Sleeps(w) ==
             /\ epoch[w] <= word[w]
             /\ at[w] \in {"waiting", "parked"} /\ inbox[w] # <<>> =>
                  \/ Poking(w)
                  \/ epoch[w] # word[w] /\ (at[w] = "parked" => Waking(w))
             /\ at[w] = "parked" /\ exitRequest[w] => hostAt \in {"release", "rouse"} /\ Turn = w
<1>a. \A w \in Worker : Sleeps(w)
  BY DEF SleepInv
<1>b. SUFFICES ASSUME NEW v \in Worker
               PROVE  Sleeps(v)'
  BY DEF SleepInv
<1>c. /\ DOMAIN at = Thread /\ DOMAIN word = Thread /\ DOMAIN epoch = Thread
      /\ DOMAIN inbox = Thread /\ DOMAIN exitRequest = Thread
      /\ Turn \in Thread /\ Executive \in Thread /\ v # Executive /\ v \in Thread
      /\ word[v] \in 0 .. Released /\ epoch[v] \in 0 .. Released
      /\ Released \in Nat /\ Released > 2
  BY TurnFacts, ThreadFacts, ReleasedAssumption DEF TypeInv, PackageTypes, HostTypes
<1>d. /\ notify # Idle => hostAt \in {"pods", "owned"}
      /\ exitRequest[v] => ~HasControl(v) \/ (hostAt = "release" /\ v = Turn)
      /\ exitRequest[v] => hostAt \in Stopping \cup Over
      /\ at[v] = "none" => word[v] = Released /\ epoch[v] = 0
  BY <1>c DEF LifeInv
<1> USE DEF packageVars, controls, transports, hostVars, executiveVars, history, HostGoes, Moves
<1>1. CASE Handles
  <2>1. /\ UNCHANGED <<word, epoch, at, exitRequest, hostAt, turn>>
        /\ notify = Idle /\ hostAt \in {"pods", "owned"}
        /\ UNCHANGED <<inbox, notify>> \/ \E t \in Thread : \E m : Posts(t, m)
    BY <1>1, HandlerFrame DEF TypeInv
  <2>2. CASE UNCHANGED <<inbox, notify>>
    BY <1>a, <2>1, <2>2 DEF Turn
  <2>3. ASSUME NEW t \in Thread, NEW m, Posts(t, m)
        PROVE  Sleeps(v)'
    <3>1. notify' = [step |-> "poke", thread |-> t] /\ (t # v => inbox'[v] = inbox[v])
      BY <1>c, <2>3 DEF Posts
    <3>2. ~Poking(v) /\ ~Waking(v)
      BY <2>1 DEF Idle
    <3>3. Sleeps(v)
      BY <1>a
    <3> QED
      BY <2>1, <3>1, <3>2, <3>3 DEF Turn
  <2> QED
    BY <2>1, <2>2, <2>3
<1>2. CASE HostNotifies
  <2>1. notify # Idle /\ ~exitRequest[v]
    BY <1>2, <1>d DEF HostNotifies, Poke, Wake, Idle, Stopping, Over
  <2>2. UNCHANGED <<epoch, exitRequest, inbox, hostAt, turn>>
    BY <1>2 DEF HostNotifies, Poke, Wake
  <2>3. notify \in Notices
    BY DEF TypeInv, PackageTypes
  <2>4. Sleeps(v)
    BY <1>a
  <2>5. CASE Poke
    <3>1. /\ notify.thread \in Thread /\ notify = [step |-> "poke", thread |-> notify.thread]
          /\ notify' = [step |-> "wake", thread |-> notify.thread] /\ at' = at
          /\ word' = [word EXCEPT ![notify.thread] = NextEpoch(@)]
      BY <2>3, <2>5 DEF Poke, Notices, Idle
    <3>2. CASE notify.thread = v
      <4>1. word[v] <= 1
        <5>1. HasControl(v)
          BY <1>c, <1>d, <2>1 DEF LifeInv, Running
        <5>2. Pokes(v) = word[v] + 1
          BY <3>1, <3>2 DEF Pokes
        <5>3. AtMost(2, 2)
          BY DEF CountInv
        <5> QED
          BY <1>c, <5>1, <5>2, <5>3 DEF AtMost, Worker
      <4>2. word'[v] = word[v] + 1
        BY <1>c, <3>1, <3>2, <4>1, NextEpochFacts
      <4> QED
        BY <1>c, <2>1, <2>2, <2>4, <3>1, <3>2, <4>2
    <3>3. CASE notify.thread # v
      <4>1. word'[v] = word[v]
        BY <1>c, <3>1, <3>3
      <4> QED
        BY <2>1, <2>2, <2>4, <3>1, <3>3, <4>1
    <3> QED
      BY <3>2, <3>3
  <2>6. CASE Wake
    <3>1. /\ notify.step = "wake" /\ notify' = Idle /\ word' = word
          /\ at' = [at EXCEPT ![notify.thread] = IF @ = "parked" THEN "waiting" ELSE @]
      BY <2>6 DEF Wake, WakeUp
    <3>2. ~Poking(v) /\ (Waking(v) => notify.thread = v)
      BY <3>1
    <3>3. CASE notify.thread = v
      <4>1. at'[v] = IF at[v] = "parked" THEN "waiting" ELSE at[v]
        BY <1>c, <3>1, <3>3
      <4> QED
        BY <2>1, <2>2, <2>4, <3>1, <3>2, <3>3, <4>1
    <3>4. CASE notify.thread # v
      <4>1. at'[v] = at[v]
        BY <1>c, <3>1, <3>4
      <4> QED
        BY <2>1, <2>2, <2>4, <3>1, <3>2, <3>4, <4>1
    <3> QED
      BY <3>3, <3>4
  <2> QED
    BY <1>2, <2>5, <2>6 DEF HostNotifies
<1>3. ASSUME UNCHANGED <<word[v], epoch[v], at[v], exitRequest[v], inbox[v], notify>>,
             hostAt \notin {"release", "rouse"} \/ UNCHANGED <<hostAt, turn>>
      PROVE  Sleeps(v)'
  BY <1>a, <1>3 DEF Turn
<1>4. CASE \/ HostCannotStart \/ HostReady \/ HostPasses \/ HostNoPod \/ HostNoOwned
           \/ HostSkips \/ HostJoins \/ DebugRequestsShutdown \/ UNCHANGED vars
  BY <1>3, <1>4 DEF HostCannotStart, HostReady, HostPasses, HostNoPod, HostNoOwned, HostSkips,
     HostJoins, DebugRequestsShutdown, Join, vars
<1>5. CASE HostStarts
  <2>1. /\ hostAt = "startup" /\ UNCHANGED <<epoch, inbox, exitRequest, notify, turn>>
        /\ at[Turn] = "none" /\ at' = [at EXCEPT ![Turn] = "enter"]
        /\ word' = [word EXCEPT ![Turn] = 0]
    BY <1>5 DEF HostStarts, Create
  <2>2. CASE v = Turn
    BY <1>c, <1>d, <2>1, <2>2
  <2>3. CASE v # Turn
    BY <1>3, <1>c, <2>1, <2>3
  <2> QED
    BY <2>2, <2>3
<1>6. CASE HostNotReady
  <2>1. /\ hostAt = "await" /\ UNCHANGED <<epoch, at, exitRequest, notify>>
        /\ at[Turn] = "ended" /\ inbox' = [inbox EXCEPT ![Turn] = <<>>]
        /\ word' = [word EXCEPT ![Turn] = Released]
    BY <1>6 DEF HostNotReady, Abandon
  <2>2. CASE v = Turn
    BY <1>c, <2>1, <2>2
  <2>3. CASE v # Turn
    BY <1>3, <1>c, <2>1, <2>3
  <2> QED
    BY <2>2, <2>3
<1>7. CASE HostRequestsExit
  <2>1. /\ hostAt = "stop" /\ hostAt' = "release" /\ exitRequest' = [exitRequest EXCEPT ![Turn] = TRUE]
        /\ UNCHANGED <<word, epoch, at, inbox, notify, turn>>
    BY <1>7 DEF HostRequestsExit, RequestExit
  <2> QED
    BY <1>a, <1>c, <2>1 DEF Turn
<1>8. CASE HostReleases
  <2>1. /\ hostAt = "release" /\ hostAt' = "rouse" /\ word' = [word EXCEPT ![Turn] = Released]
        /\ UNCHANGED <<exitRequest, epoch, at, inbox, notify, turn>>
    BY <1>8 DEF HostReleases, ReleaseControl
  <2>2. notify = Idle /\ ~Poking(v) /\ ~Waking(v)
    BY <1>d, <2>1 DEF Idle
  <2>3. HasControl(Turn)
    BY <2>1 DEF LifeInv
  <2>4. CASE v = Turn
    <3>1. word'[v] = Released /\ epoch[v] # Released
      BY <1>a, <1>c, <2>1, <2>3, <2>4 DEF HasControl
    <3> QED
      BY <1>a, <1>c, <2>1, <2>2, <2>4, <3>1 DEF Turn
  <2>5. CASE v # Turn
    BY <1>a, <1>c, <2>1, <2>5 DEF Turn
  <2> QED
    BY <2>4, <2>5
<1>9. CASE HostRouses
  <2>1. /\ hostAt = "rouse" /\ at' = [at EXCEPT ![Turn] = IF @ = "parked" THEN "waiting" ELSE @]
        /\ UNCHANGED <<exitRequest, epoch, word, inbox, notify, turn>>
    BY <1>9 DEF HostRouses, WakeAll, WakeUp
  <2>2. /\ v = Turn => at'[v] # "parked" /\ (at'[v] = "waiting" => at[v] \in {"waiting", "parked"})
        /\ v # Turn => at'[v] = at[v]
    BY <1>c, <2>1
  <2> QED
    BY <1>a, <2>1, <2>2
<1>10. CASE HostTearsDown
  <2>1. /\ hostAt = "teardown" /\ inbox'[v] = <<>>
        /\ UNCHANGED <<word, epoch, at, exitRequest, notify>>
    BY <1>10, <1>c DEF HostTearsDown
  <2> QED
    BY <1>a, <2>1
<1>11. CASE WorkersStep
  <2>1. PICK w \in Worker : WorkerNext(w) \/ WorkerReturnsSpuriously(w)
    BY <1>11 DEF WorkersStep
  <2>2. w \in Thread /\ UNCHANGED <<word, exitRequest, notify, hostAt, turn>>
    BY <2>1, ThreadFacts DEF WorkerNext, InPackage, WorkerRuns, WorkerStops, WorkerReads, WorkerReadsNothing, WorkerWorks,
           WorkerWaits, WorkerExits, WorkerReturnsSpuriously, Enter, Return, WaitForNewEpoch,
           SpuriousReturn, WorkerLeaves
  <2>3. CASE v # w
    <3>1. /\ epoch' = epoch \/ \E e : epoch' = [epoch EXCEPT ![w] = e]
          /\ \E to : at' = [at EXCEPT ![w] = to]
          /\ inbox' = inbox \/ \E q : inbox' = [inbox EXCEPT ![w] = q]
      BY <2>1 DEF WorkerNext, InPackage, WorkerRuns, WorkerStops, WorkerReads, WorkerReadsNothing, WorkerWorks,
           WorkerWaits, WorkerExits, WorkerReturnsSpuriously, Enter, Return, WaitForNewEpoch,
           SpuriousReturn
    <3>2. epoch'[v] = epoch[v] /\ at'[v] = at[v] /\ inbox'[v] = inbox[v]
      BY <1>c, <2>2, <2>3, <3>1
    <3> QED
      BY <1>3, <2>2, <3>2
  <2>4. CASE v = w /\ ~WorkerWaits(v)
    <3>1. /\ epoch' = epoch
          /\ \/ at'[v] \notin {"waiting", "parked"}
             \/ at'[v] = "waiting" /\ inbox' = inbox /\ (inbox[v] = <<>> \/ at[v] = "parked")
      BY <1>c, <2>1, <2>4 DEF WorkerNext, InPackage, WorkerRuns, WorkerStops, WorkerReads, WorkerReadsNothing, WorkerWorks,
           WorkerExits, WorkerReturnsSpuriously, Enter, Return, SpuriousReturn
    <3> QED
      BY <1>a, <2>2, <3>1
  <2>5. CASE WorkerWaits(v)
    <3>1. /\ at[v] = "waiting" /\ inbox' = inbox
          /\ \/ at'[v] = "check" /\ epoch'[v] = word[v]
             \/ /\ at'[v] = "parked" /\ epoch' = epoch
                /\ word[v] = epoch[v] /\ epoch[v] # Released
      BY <1>c, <2>5 DEF WorkerWaits, WaitForNewEpoch
    <3>2. CASE at'[v] = "check" /\ epoch'[v] = word[v]
      BY <1>c, <2>2, <3>2
    <3>3. CASE /\ at'[v] = "parked" /\ epoch' = epoch
               /\ word[v] = epoch[v] /\ epoch[v] # Released
      <4>1. exitRequest[v] => hostAt = "release" /\ v = Turn
        BY <1>d, <3>3 DEF HasControl
      <4> QED
        BY <1>a, <2>2, <3>1, <3>3, <4>1 DEF Turn
    <3> QED
      BY <3>1, <3>2, <3>3
  <2> QED
    BY <2>3, <2>4, <2>5
<1>12. CASE ExecutiveNext
  <2>1. /\ UNCHANGED <<word, epoch, exitRequest, notify, hostAt, turn>>
        /\ at' = at \/ \E to : at' = [at EXCEPT ![Executive] = to]
        /\ inbox' = inbox \/ \E q : inbox' = [inbox EXCEPT ![Executive] = q]
    BY <1>12 DEF ExecutiveNext, InPackage, ExecutiveCannotEnter, ExecutiveInitialises, ExecutiveRuns,
           ExecutiveStops, ExecutiveTakesLoadResult, ExecutiveTakesSaveResult, ExecutiveShutsDown,
           ExecutiveTakes, ExecutiveLeaves, Enter, Return, EnterFails
  <2>2. at'[v] = at[v] /\ inbox'[v] = inbox[v]
    BY <1>c, <2>1
  <2> QED
    BY <1>3, <2>1, <2>2
<1> QED
  BY <1>1, <1>2, <1>4, <1>5, <1>6, <1>7, <1>8, <1>9, <1>10, <1>11, <1>12, NextCases
  DEF OtherStep, HostMoves
-----------------------------------------------------------------------------
(* A repository that only grows, for requests that are only taken.         *)
LEMMA ViewNext ==
  ASSUME TypeInv, LifeInv, PhaseInv, ViewInv, [Next]_vars
  PROVE  ViewInv'
<1> USE DEF packageVars, controls, transports, hostVars, executiveVars, history, store
<1>a. /\ DOMAIN inbox = Thread /\ DOMAIN job = Worker /\ Turn \in Thread
      /\ Executive \in Thread /\ Executive \notin Worker /\ Worker \subseteq Thread
  BY TurnFacts, ThreadFacts DEF TypeInv, PackageTypes, HostTypes
<1>b. Range(<<>>) = {}
  BY OneMessage
<1>1. ASSUME assets' = assets, \A w \in Worker : Pending(w)' \subseteq Pending(w)
      PROVE  ViewInv'
  BY <1>1 DEF ViewInv
<1>2. ASSUME assets' = assets, job' = job, \A w \in Worker : inbox'[w] = inbox[w]
      PROVE  ViewInv'
  BY <1>1, <1>2 DEF Pending
<1>3. CASE HostMoves \/ UNCHANGED vars
  BY <1>2, <1>3, HostMovesFrame DEF vars
<1>4. CASE HostNotReady
  <2>1. assets' = assets /\ job' = job /\ inbox' = [inbox EXCEPT ![Turn] = <<>>]
    BY <1>4 DEF HostNotReady, Abandon
  <2>2. \A w \in Worker : inbox'[w] = inbox[w] \/ inbox'[w] = <<>>
    BY <1>a, <2>1
  <2> QED
    BY <1>1, <1>b, <2>1, <2>2 DEF Pending
<1>5. CASE HostTearsDown
  <2>1. /\ \A w \in Worker : inbox'[w] = <<>> /\ job'[w] = job[w]
        /\ hostAt = "teardown"
    BY <1>5, <1>a DEF HostTearsDown, HostGoes
  <2>2. \A w \in Worker : job[w] = NoJob
    BY <1>a, <2>1 DEF LifeInv, Over, IsAlive
  <2>3. \A w \in Worker : Pending(w)' = {}
    BY <1>b, <2>1, <2>2 DEF Pending
  <2> QED
    BY <2>3 DEF ViewInv
<1>6. CASE Handles
  <2>1. Cleared /\ Outcome
    BY <1>6, HandlerOutcome
  <2>2. ASSUME \A w \in Worker : inbox'[w] = <<>>
        PROVE  ViewInv'
    <3>1. \A w \in Worker : Pending(w)' = {}
      BY <1>b, <2>1, <2>2 DEF Pending, Cleared
    <3> QED
      BY <3>1 DEF ViewInv
  <2>3. CASE LoadEnds \/ SaveEnds
    <3>1. inbox' = inbox \/ \E m : Posts(Executive, m)
      BY <2>3 DEF LoadEnds, SaveEnds, LoadFails, SaveFails, Reports, Executive
    <3>2. \A w \in Worker : inbox'[w] = inbox[w]
      BY <1>a, <3>1 DEF Posts
    <3> QED
      BY <2>1, <2>2, <3>2 DEF Cleared
  <2>4. ASSUME NEW worker \in Worker, NEW type, Goes(worker, type)
        PROVE  ViewInv'
    <3>1. PICK m : /\ inbox' = [inbox EXCEPT ![worker] = Append(@, m)]
                   /\ Range(m.assets) \subseteq DOMAIN assets'
      <4>1. PICK slot, ids : Asks(worker, type, slot, ids) /\ Range(ids) \subseteq DOMAIN assets'
        BY <2>4 DEF Goes
      <4>2. Message(type, slot, TRUE, ids).assets = ids
        BY DEF Message
      <4> QED
        BY <4>1, <4>2 DEF Asks, Posts
    <3>2. inbox'[worker] = <<m>> /\ \A w \in Worker \ {worker} : inbox'[w] = <<>>
      BY <1>a, <2>1, <3>1, OneMessage DEF Cleared
    <3>3. \A w \in Worker : Pending(w)' \subseteq {m}
      BY <1>b, <2>1, <3>2, OneMessage DEF Pending, Cleared
    <3> QED
      BY <3>1, <3>3 DEF ViewInv
  <2>5. "file_io" \in Worker /\ "conditioning" \in Worker
    BY DEF Worker
  <2> QED
    BY <2>1, <2>3, <2>4, <2>5 DEF Outcome
<1>7. CASE WorkersStep
  <2>1. PICK w \in Worker : WorkerNext(w) \/ WorkerReturnsSpuriously(w)
    BY <1>7 DEF WorkersStep
  <2>2. assets' = assets
    BY <2>1 DEF WorkerNext, InPackage, WorkerRuns, WorkerStops, WorkerReads, WorkerReadsNothing, WorkerWorks,
           WorkerWaits, WorkerExits, WorkerReturnsSpuriously, WorkerLeaves
  <2>3. CASE WorkerReads(w)
    <3>1. /\ inbox[w] # <<>> /\ job' = [job EXCEPT ![w] = Head(inbox[w])]
          /\ inbox' = [inbox EXCEPT ![w] = Tail(@)]
      BY <2>3 DEF WorkerReads
    <3>2. inbox'[w] = <<>> /\ job'[w] = Head(inbox[w]) /\ Range(inbox[w]) = {Head(inbox[w])}
      BY <1>a, <3>1, MessagesAreJobs, OneMessage
    <3>3. \A v \in Worker \ {w} : inbox'[v] = inbox[v] /\ job'[v] = job[v]
      BY <1>a, <3>1
    <3> QED
      BY <1>1, <1>b, <2>2, <3>2, <3>3 DEF Pending
  <2>4. CASE WorkerWorks(w)
    <3>1. inbox' = inbox /\ \A v \in Worker : job'[v] \in {job[v], NoJob}
      BY <1>a, <2>4 DEF WorkerWorks
    <3> QED
      BY <1>1, <2>2, <3>1 DEF Pending
  <2>5. CASE UNCHANGED <<inbox, job>>
    BY <1>2, <2>2, <2>5
  <2> QED
    BY <2>1, <2>3, <2>4, <2>5 DEF WorkerNext, InPackage, WorkerRuns, WorkerStops, WorkerReadsNothing,
       WorkerWaits, WorkerExits, WorkerReturnsSpuriously, Enter, Return, WaitForNewEpoch, SpuriousReturn
<1>8. CASE ExecutiveNext
  <2>1. /\ assets' = assets /\ job' = job
        /\ inbox' = inbox \/ \E q : inbox' = [inbox EXCEPT ![Executive] = q]
    BY <1>8 DEF ExecutiveNext, InPackage, ExecutiveCannotEnter, ExecutiveInitialises, ExecutiveRuns,
           ExecutiveStops, ExecutiveTakesLoadResult, ExecutiveTakesSaveResult, ExecutiveShutsDown,
           ExecutiveTakes, ExecutiveLeaves, Enter, Return, EnterFails
  <2>2. \A w \in Worker : inbox'[w] = inbox[w]
    BY <1>a, <2>1
  <2> QED
    BY <1>2, <2>1, <2>2
<1> QED
  BY <1>3, <1>4, <1>5, <1>6, <1>7, <1>8, NextCases DEF OtherStep

(* An answer that says the file was saved is only passed on.               *)
LEMMA SavedNext ==
  ASSUME TypeInv, LifeInv, PhaseInv, SavedInv, [Next]_vars
  PROVE  SavedInv'
<1> USE DEF packageVars, controls, transports, hostVars, executiveVars, history, store
<1> DEFINE Right(m) == m.type = "TgaSaveResult" /\ m.ok => written
<1>a. /\ DOMAIN inbox = Thread /\ DOMAIN outbox = Thread /\ Turn \in Thread
      /\ Executive \in Thread /\ Executive \notin Worker /\ Worker \subseteq Thread
      /\ written \in BOOLEAN
  BY TurnFacts, ThreadFacts DEF TypeInv, PackageTypes, HostTypes
<1>b. Range(<<>>) = {}
  BY OneMessage
<1>1. ASSUME written => written', complete' = complete, failure' = failure,
             \A w \in Worker : outbox'[w] \in {outbox[w], <<>>},
             inbox'[Executive] \in {inbox[Executive], <<>>}
      PROVE  SavedInv'
  BY <1>b, <1>1 DEF SavedInv, SuccessMeansSaved
<1>2. CASE HostMoves \/ UNCHANGED vars
  BY <1>1, <1>2, HostMovesFrame DEF vars
<1>3. CASE HostNotReady
  <2>1. /\ UNCHANGED <<written, complete, failure>>
        /\ inbox' = [inbox EXCEPT ![Turn] = <<>>] /\ outbox' = [outbox EXCEPT ![Turn] = <<>>]
    BY <1>3 DEF HostNotReady, Abandon
  <2>2. \A t \in Thread : inbox'[t] \in {inbox[t], <<>>} /\ outbox'[t] \in {outbox[t], <<>>}
    BY <1>a, <2>1
  <2> QED
    BY <1>1, <1>a, <2>1, <2>2
<1>4. CASE HostTearsDown
  <2>1. /\ UNCHANGED <<written, complete, failure>>
        /\ \A t \in Thread : inbox'[t] = <<>> /\ outbox'[t] = <<>>
    BY <1>4 DEF HostTearsDown
  <2> QED
    BY <1>1, <1>a, <2>1
<1>5. CASE Handles
  <2>1. Cleared /\ Outcome /\ UNCHANGED <<written, complete, failure>>
    BY <1>5, HandlerOutcome, HandlerFrame DEF TypeInv
  <2>2. \A w \in Worker : outbox'[w] = <<>>
    BY <2>1 DEF Cleared
  <2>3. CASE inbox'[Executive] = <<>>
    BY <1>1, <2>1, <2>2, <2>3
  <2>4. ASSUME NEW m, Posts(Executive, m), m.type = "TgaSaveResult" /\ m.ok => written
        PROVE  SavedInv'
    <3>1. inbox'[Executive] = <<m>>
      BY <1>a, <2>1, <2>4, OneMessage DEF Posts, Cleared
    <3>2. Range(inbox'[Executive]) = {m}
      BY <3>1, OneMessage
    <3> QED
      BY <1>b, <2>1, <2>2, <2>4, <3>2 DEF SavedInv, SuccessMeansSaved
  <2>5. ASSUME NEW slot, NEW ok, NEW ids, NEW type, Reports(type, slot, ok, ids),
               type = "TgaSaveResult" /\ ok => written
        PROVE  SavedInv'
    <3>1. Message(type, slot, ok, ids).type = type /\ Message(type, slot, ok, ids).ok = ok
      BY DEF Message
    <3> QED
      BY <2>1, <2>3, <2>4, <2>5, <3>1 DEF Reports, Executive, Cleared
  <2>6. CASE LoadEnds
    BY <2>5, <2>6 DEF LoadEnds, LoadFails
  <2>7. CASE SaveEnds
    <3>1. ASSUME NEW ok, Confirmed(ok), ok
          PROVE  written
      <4>1. Turn \in Worker /\ outbox[Turn] # <<>> /\ Head(outbox[Turn]).ok
        BY <3>1 DEF Confirmed
      <4>2. Single(outbox[Turn])
        BY <4>1, WorkerPhase DEF Resting, Carries
      <4>3. Head(outbox[Turn]) \in Range(outbox[Turn])
        BY <4>2, OneMessage
      <4> QED
        BY <4>1, <4>3 DEF SavedInv
    <3>2. PICK e : SaveFails(e) \/ \E ok : Confirmed(ok) /\ Reports("TgaSaveResult", e, ok, <<>>)
      BY <2>7 DEF SaveEnds
    <3>3. CASE SaveFails(e)
      BY <2>5, <3>3 DEF SaveFails
    <3>4. CASE \E ok : Confirmed(ok) /\ Reports("TgaSaveResult", e, ok, <<>>)
      BY <2>5, <3>1, <3>4
    <3> QED
      BY <3>2, <3>3, <3>4
  <2>8. ASSUME NEW worker \in Worker, NEW type, Goes(worker, type)
        PROVE  SavedInv'
    <3>1. \E q : inbox' = [inbox EXCEPT ![worker] = q]
      BY <2>8 DEF Goes, Asks, Posts
    <3>2. inbox'[Executive] = <<>>
      BY <1>a, <2>1, <3>1 DEF Cleared
    <3> QED
      BY <2>3, <3>2
  <2>9. "file_io" \in Worker /\ "conditioning" \in Worker
    BY DEF Worker
  <2> QED
    BY <2>1, <2>6, <2>7, <2>8, <2>9 DEF Outcome
<1>6. CASE WorkersStep
  <2>1. PICK w \in Worker : WorkerNext(w) \/ WorkerReturnsSpuriously(w)
    BY <1>6 DEF WorkersStep
  <2>2. UNCHANGED <<complete, failure>> /\ inbox'[Executive] = inbox[Executive]
    <3>1. /\ UNCHANGED <<complete, failure>>
          /\ inbox' = inbox \/ \E q : inbox' = [inbox EXCEPT ![w] = q]
      BY <2>1 DEF WorkerNext, InPackage, WorkerRuns, WorkerStops, WorkerReads, WorkerReadsNothing, WorkerWorks,
           WorkerWaits, WorkerExits, WorkerReturnsSpuriously, WorkerLeaves, Enter, Return,
           WaitForNewEpoch, SpuriousReturn
    <3> QED
      BY <1>a, <3>1
  <2>3. CASE WorkerWorks(w)
    <3>1. PICK ok \in BOOLEAN : \/ outbox' = outbox /\ (written' = written \/ written' = (written \/ ok))
                     \/ /\ written' = (written \/ ok)
                        /\ \E m : m.ok = ok /\ outbox' = [outbox EXCEPT ![w] = Append(@, m)]
      <4>1. \A type, slot, ids : \A ok \in BOOLEAN : Message(type, slot, ok, ids).ok = ok
        BY DEF Message
      <4> QED
        BY <2>3, <4>1 DEF WorkerWorks, Answers
    <3>2. CASE outbox' = outbox /\ (written' = written \/ written' = (written \/ ok))
      BY <1>1, <2>2, <3>2
    <3>3. CASE /\ written' = (written \/ ok)
               /\ \E m : m.ok = ok /\ outbox' = [outbox EXCEPT ![w] = Append(@, m)]
      <4>1. PICK m : m.ok = ok /\ outbox' = [outbox EXCEPT ![w] = Append(@, m)]
        BY <3>3
      <4>2. outbox[w] = <<>>
        <5>1. job[w] # NoJob
          BY <2>3 DEF WorkerWorks, Moves, LifeInv
        <5> QED
          BY <5>1, WorkerPhase DEF Resting, Carries
      <4>3. outbox'[w] = <<m>> /\ \A v \in Worker \ {w} : outbox'[v] = outbox[v]
        BY <1>a, <4>1, <4>2, OneMessage
      <4>4. Range(outbox'[w]) = {m}
        BY <4>3, OneMessage
      <4>5. /\ written => written'
            /\ m.ok => written'
        BY <3>3, <4>1
      <4>6. \A v \in Worker : \A n \in Range(outbox'[v]) : n.ok => written'
        BY <4>3, <4>4, <4>5 DEF SavedInv
      <4> QED
        BY <2>2, <4>5, <4>6 DEF SavedInv, SuccessMeansSaved
    <3> QED
      BY <3>1, <3>2, <3>3
  <2>4. CASE UNCHANGED <<outbox, written>>
    BY <1>1, <2>2, <2>4
  <2> QED
    BY <2>1, <2>3, <2>4 DEF WorkerNext, InPackage, WorkerRuns, WorkerStops, WorkerReads, WorkerReadsNothing,
       WorkerWaits, WorkerExits, WorkerReturnsSpuriously, Enter, Return, WaitForNewEpoch, SpuriousReturn
<1>7. CASE ExecutiveNext
  <2>1. outbox' = outbox /\ written' = written
    BY <1>7 DEF ExecutiveNext, InPackage, ExecutiveCannotEnter, ExecutiveInitialises, ExecutiveRuns,
           ExecutiveStops, ExecutiveTakesLoadResult, ExecutiveTakesSaveResult, ExecutiveShutsDown,
           ExecutiveTakes, ExecutiveLeaves, Enter, Return, EnterFails
  <2>2. inbox'[Executive] \in {inbox[Executive], <<>>}
    BY <1>7, AnswerTaken DEF ExecutiveNext, InPackage, ExecutiveCannotEnter, ExecutiveInitialises, ExecutiveRuns,
           ExecutiveStops, ExecutiveTakesLoadResult, ExecutiveTakesSaveResult, ExecutiveShutsDown,
           ExecutiveLeaves, Enter, Return, EnterFails
  <2>3. CASE UNCHANGED <<complete, failure>>
    BY <1>1, <2>1, <2>2, <2>3
  <2>4. CASE failure' \in 1 .. 4
    BY <1>b, <2>1, <2>2, <2>4 DEF SavedInv, SuccessMeansSaved
  <2>5. CASE ExecutiveTakesSaveResult
    <3>1. ExecutiveTakes("TgaSaveResult")
      BY <2>5 DEF ExecutiveTakesSaveResult
    <3>2. /\ Answered("TgaSaveResult") /\ Head(inbox[Executive]).type = "TgaSaveResult"
          /\ inbox'[Executive] = <<>>
      BY <3>1, AnswerTaken
    <3>3. Head(inbox[Executive]) \in Range(inbox[Executive])
      BY <3>2, OneMessage DEF Answered
    <3>4. Head(inbox[Executive]).ok => written
      BY <3>2, <3>3 DEF SavedInv
    <3>5. failure' = 4 \/ written
      BY <2>5, <3>4 DEF ExecutiveTakesSaveResult, Fails
    <3> QED
      BY <1>b, <2>1, <2>4, <3>2, <3>5 DEF SavedInv, SuccessMeansSaved
  <2>6. ExecutiveNext => \/ UNCHANGED <<complete, failure>>
                         \/ failure' \in 1 .. 4
                         \/ ExecutiveTakesSaveResult
    <3>1. ExecutiveInitialises \/ ExecutiveTakesLoadResult =>
            UNCHANGED <<complete, failure>> \/ Fails(1) \/ Fails(2) \/ Fails(3)
      BY DEF ExecutiveInitialises, ExecutiveTakesLoadResult
    <3>2. \A code \in 1 .. 4 : Fails(code) => failure' \in 1 .. 4
      BY DEF Fails
    <3> QED
      BY <3>1, <3>2 DEF ExecutiveNext, InPackage, ExecutiveCannotEnter, ExecutiveRuns,
         ExecutiveStops, ExecutiveShutsDown
  <2> QED
    BY <1>7, <2>3, <2>4, <2>5, <2>6
<1> QED
  BY <1>2, <1>3, <1>4, <1>5, <1>6, <1>7, NextCases DEF OtherStep
-----------------------------------------------------------------------------
LEMMA InitInvariant == Init => IInv
<1> SUFFICES ASSUME Init
             PROVE  IInv
  OBVIOUS
<1> USE DEF Init, PackageInit
<1>1. Released \in Nat /\ Released > 2
  BY ReleasedAssumption
<1>2. Nothing
  BY ThreadFacts DEF Nothing, AllRest, Resting
<1>3. PackageTypes
  BY <1>1 DEF PackageTypes, Notices, Place, RunState
<1>4. HostTypes
  <2>1. DOMAIN job = Worker /\ hostAt \in Starting /\ turn \in 1 .. 3 /\ failure \in 0 .. 4
        /\ execState \in {"none", "load", "save"}
    BY DEF Starting
  <2>2. debugShutdown \in BOOLEAN /\ complete \in BOOLEAN /\ written \in BOOLEAN /\ lost \in BOOLEAN
    OBVIOUS
  <2> QED
    BY <2>1, <2>2 DEF HostTypes
<1>11. StoreTypes
  BY DEF StoreTypes, WellStored
<1>5. LifeInv
  BY ThreadFacts DEF LifeInv, IsAlive, HasControl, Starting, Running, Stopping, Over
<1>6. PhaseInv
  BY <1>2, ThreadFacts DEF PhaseInv, NotBegun
<1>7. ~HasControl("file_io") /\ ~HasControl("conditioning")
  BY ThreadFacts DEF HasControl, Worker
<1>8. CountInv
  BY <1>7 DEF CountInv, AtMost
<1>9. SleepInv
  BY <1>1, ThreadFacts DEF SleepInv
<1>10. ViewInv /\ SavedInv
  BY OneMessage, ThreadFacts DEF ViewInv, SavedInv, Pending, SuccessMeansSaved
<1> QED
  BY <1>3, <1>4, <1>5, <1>6, <1>8, <1>9, <1>10, <1>11 DEF IInv, TypeInv

(* The invariant of the engine holds in every state.                       *)
THEOREM Invariance == Spec => []IInv
<1>1. IInv /\ [Next]_vars => IInv'
  BY TypeNext, LifeNext, PhaseNext, CountNext, SleepNext, ViewNext, SavedNext DEF IInv
<1> QED
  BY <1>1, InitInvariant, PTL DEF Spec

(* The variables keep their types: no epoch passes the released word, and  *)
(* every asset and state is of a kind some handler knows.                  *)
THEOREM HostTypeCorrect == Spec => []TypeOK
<1>1. IInv => TypeOK
  BY DEF IInv, TypeInv, PackageTypes, HostTypes, StoreTypes, WellStored, TypeOK, Order
<1> QED
  BY <1>1, Invariance, PTL

(* A worker never sleeps with a message in its queue or an exit requested, *)
(* unless its wake-up is under way: whatever the interleaving of its wait  *)
(* with CThreadPackage::post() and shutdown().                             *)
THEOREM NoWorkerSleepsWithMail == Spec => []NoSleepWithMail
<1>1. IInv => NoSleepWithMail
  <2> SUFFICES ASSUME IInv, NEW w \in Worker, at[w] = "parked", inbox[w] # <<>> \/ exitRequest[w]
               PROVE  \/ notify # Idle /\ notify.thread = w
                      \/ hostAt \in {"release", "rouse"} /\ Turn = w
    BY DEF NoSleepWithMail
  <2>1. CASE inbox[w] # <<>>
    BY <2>1 DEF IInv, SleepInv, Idle
  <2>2. CASE exitRequest[w]
    BY <2>2 DEF IInv, SleepInv
  <2> QED
    BY <2>1, <2>2
<1> QED
  BY <1>1, Invariance, PTL

(* While the executive waits, its conversion is in exactly one place.      *)
THEOREM AnswerIsAlwaysOnItsWay == Spec => []AnswerIsOnItsWay
<1>1. IInv => AnswerIsOnItsWay
  <2> SUFFICES ASSUME IInv, at[Executive] \in {"started", "check"}
               PROVE  Len(owned[Executive]) + Cardinality(DOMAIN slots) + Len(inbox[Executive])
                        = IF execState = "none" \/ (lost /\ DOMAIN slots = {}) THEN 0 ELSE 1
    BY DEF AnswerIsOnItsWay
  <2> DEFINE places == Len(owned[Executive]) + Cardinality(DOMAIN slots) + Len(inbox[Executive])
  <2>1. Cardinality({}) = 0 /\ \A s : Cardinality({s}) = 1
    BY FS_EmptySet, FS_Singleton
  <2>2. Nothing => places = 0 /\ DOMAIN slots = {}
    BY <2>1, OneMessage DEF Nothing
  <2>3. ASSUME NEW type, Requested(type)
        PROVE  places = 1 /\ ~lost
    <3>1. Len(owned[Executive]) = 1 /\ Len(inbox[Executive]) = 0
      BY <2>3, OneMessage DEF Requested
    <3>2. Cardinality(DOMAIN slots) = 0 /\ ~lost
      BY <2>3, <2>1 DEF Requested
    <3> QED
      BY <3>1, <3>2
  <2>4. ASSUME NEW type, Answered(type)
        PROVE  places = 1 /\ ~lost
    <3>1. Len(owned[Executive]) = 0 /\ Len(inbox[Executive]) = 1
      BY <2>4, OneMessage DEF Answered
    <3>2. Cardinality(DOMAIN slots) = 0 /\ ~lost
      BY <2>4, <2>1 DEF Answered
    <3> QED
      BY <3>1, <3>2
  <2>5. ASSUME NEW kind, Converting(kind)
        PROVE  places = 1 /\ DOMAIN slots # {}
    <3>1. Len(owned[Executive]) = 0 /\ Len(inbox[Executive]) = 0
      BY <2>5, OneMessage DEF Converting
    <3>2. Cardinality(DOMAIN slots) = 1 /\ DOMAIN slots # {}
      BY <2>5, <2>1 DEF Converting
    <3> QED
      BY <3>1, <3>2
  <2>6. Loading \/ Saving => places = 1 /\ ~(lost /\ DOMAIN slots = {})
    BY <2>3, <2>4, <2>5 DEF Loading, Saving
  <2> HIDE DEF places
  <2>7. execState \in {"none", "load", "save"}
    BY DEF IInv, TypeInv, HostTypes
  <2>8. places = IF execState = "none" \/ (lost /\ DOMAIN slots = {}) THEN 0 ELSE 1
    BY <2>2, <2>6, <2>7 DEF IInv, PhaseInv
  <2> QED
    BY <2>8 DEF places
<1> QED
  BY <1>1, Invariance, PTL

(* An executive that completes without a failure has had its file saved.   *)
THEOREM SuccessAlwaysMeansSaved == Spec => []SuccessMeansSaved
<1>1. IInv => SuccessMeansSaved
  BY DEF IInv, SavedInv
<1> QED
  BY <1>1, Invariance, PTL

(* No message between host and workers, state or view of an asset is left  *)
(* without what it refers to, and nothing is torn down under a thread.     *)
THEOREM NothingEverDangles == Spec => []NothingDangles
<1>1. IInv => TypeOK
  BY DEF IInv, TypeInv, PackageTypes, HostTypes, StoreTypes, WellStored, TypeOK, Order
<1>2. ASSUME IInv
      PROVE  ViewsAreLive
  BY <1>2 DEF IInv, ViewInv, LifeInv, ViewsAreLive, Over
<1>3. ASSUME IInv
      PROVE  SlotsMatchMessages
  <2> USE <1>3 DEF IInv
  <2>1. ASSUME NEW w \in Worker, Resting(w)
        PROVE  Pending(w) = {} /\ Range(outbox[w]) = {} /\ Range(owned[w]) = {}
    BY <2>1, OneMessage DEF Resting, Pending
  <2>2. ASSUME NEW w \in Worker, NEW kind, Carries(w, kind)
        PROVE  \E m : /\ Pending(w) \cup Range(outbox[w]) \cup Range(owned[w]) = {m}
                      /\ StateFor(m.type) = kind /\ DOMAIN slots = {m.slot}
    <3>1. CASE /\ Single(inbox[w]) /\ Fits(Head(inbox[w]), RequestTypes, kind)
               /\ outbox[w] = <<>> /\ owned[w] = <<>> /\ job[w] = NoJob
      BY <3>1, OneMessage DEF Pending, Fits
    <3>2. CASE /\ job[w] # NoJob /\ Fits(job[w], RequestTypes, kind)
               /\ inbox[w] = <<>> /\ outbox[w] = <<>> /\ owned[w] = <<>>
      BY <3>2, OneMessage DEF Pending, Fits
    <3>3. CASE /\ Single(outbox[w]) /\ Fits(Head(outbox[w]), {"FileSaveResult"}, kind)
               /\ inbox[w] = <<>> /\ owned[w] = <<>> /\ job[w] = NoJob
      BY <3>3, OneMessage DEF Pending, Fits
    <3>4. CASE /\ Single(owned[w]) /\ Fits(Head(owned[w]), ResultTypes \ {"FileSaveResult"}, kind)
               /\ inbox[w] = <<>> /\ outbox[w] = <<>> /\ job[w] = NoJob
      BY <3>4, OneMessage DEF Pending, Fits
    <3> QED
      BY <2>2, <3>1, <3>2, <3>3, <3>4 DEF Carries
  <2>3. CASE AllRest
    <3>1. Carried = {}
      BY <2>1, <2>3 DEF Carried, AllRest
    <3>2. \A kind : ~OneCarries(kind)
      BY <2>3 DEF OneCarries, Carries, AllRest, Resting, Single
    <3>3. lost \/ DOMAIN slots = {}
      BY <3>2 DEF PhaseInv, Nothing, Loading, Saving, Requested, Answered, Converting
    <3> QED
      BY <3>1, <3>3 DEF SlotsMatchMessages
  <2>4. CASE ~AllRest
    <3>1. PICK w \in Worker : ~Resting(w)
      BY <2>4 DEF AllRest
    <3>2. PICK kind \in SlotKind : Converting(kind) /\ Carries(w, kind)
      BY <3>1, WorkerPhase
    <3>3. PICK m : /\ Pending(w) \cup Range(outbox[w]) \cup Range(owned[w]) = {m}
                   /\ StateFor(m.type) = kind /\ DOMAIN slots = {m.slot}
      BY <2>2, <3>2
    <3>4. \A v \in Worker \ {w} : Pending(v) \cup Range(outbox[v]) \cup Range(owned[v]) = {}
      BY <2>1, <3>1, WorkerPhase
    <3>5. Carried = {m}
      BY <3>3, <3>4 DEF Carried
    <3>6. slots[m.slot].kind = kind
      BY <3>2, <3>3 DEF Converting
    <3> QED
      BY <3>3, <3>5, <3>6 DEF SlotsMatchMessages, Holds
  <2> QED
    BY <2>3, <2>4
<1> QED
  BY <1>1, <1>2, <1>3, Invariance, PTL DEF NothingDangles
=============================================================================

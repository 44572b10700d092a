------------------------------ MODULE SyncProofs ------------------------------
(***************************************************************************)
(* Theorems about the synchronisation objects of MCSync, for any number of *)
(* threads and of strangers, any sentinel and any bounds.  Each object has *)
(* an inductive invariant of its own, which speaks while that object is    *)
(* the one that moves; what they have in common is that the other parts of *)
(* the state never matter to it.                                           *)
(***************************************************************************)
EXTENDS MCSync, FiniteSetTheorems, TLAPS

(***************************************************************************)
(* CExclusiveLock.  Whoever is past the native lock has it; the owner id   *)
(* is that of who has the native lock, and is set while its holder is past *)
(* the gate; the gate is had by who is between its two steps.              *)
(***************************************************************************)
LockSteps ==
    {"idle", "lock", "gate", "own", "undo", "ungate", "uncount", "holding",
     "try_gate", "try_own", "try_undo", "try_ungate", "try_refuse",
     "disown", "leave", "turn_away", "unlock"}
Unowned == {"gate", "own", "undo", "try_gate", "try_own", "try_undo", "try_refuse", "leave", "unlock"}
Owned == {"ungate", "try_ungate"}
Gated == {"own", "ungate", "try_own", "try_ungate", "try_refuse", "disown", "leave", "turn_away"}
Counted == {"lock", "gate", "own", "undo", "ungate", "uncount"}
Inside == {t \in Threads : at[t] \in Counted}

LockTypes ==
    /\ at \in [Threads \cup Strangers -> LockSteps]
    /\ \A s \in Strangers : at[s] \in {"idle", "disown", "turn_away"}
    /\ nativeLock \in Threads \cup Strangers \cup {None}
    /\ owner \in Threads \cup {None}
    /\ ownerGate \in Threads \cup Strangers \cup {None}

NativeIsHeld ==
    /\ \A t \in Threads \cup Strangers : at[t] \in Unowned \cup Owned => nativeLock = t
    /\ nativeLock \notin {owner, None} => owner = None /\ at[nativeLock] \in Unowned

OwnerIsHolder ==
    /\ owner # None => nativeLock = owner
    /\ \A t \in Threads \cup Strangers : at[t] \in Unowned => owner = None
    /\ \A t \in Threads \cup Strangers : at[t] \in Owned => owner = t

GateIsHeld ==
    \A t \in Threads \cup Strangers : at[t] \in Gated <=> ownerGate = t

(* Without strangers, a thread that has the native lock finds the gate     *)
(* open: nobody has the gate who has not the native lock.                  *)
NobodyIsUndone ==
    /\ \A t \in Threads : at[t] \notin {"undo", "try_undo", "try_refuse", "turn_away"}
    /\ \A t \in Threads : at[t] \in {"uncount", "holding", "disown"} => nativeLock = t /\ owner = t
    /\ \A s \in Strangers : at[s] = "idle"

WaitersAreCounted == waiters = Cardinality(Inside)
DestroyedIsFree == valid = FALSE => nativeLock = None /\ waiters = 0

LockInv ==
    /\ LockTypes /\ NativeIsHeld /\ OwnerIsHolder /\ GateIsHeld
    /\ strangers = FALSE => NobodyIsUndone
    /\ WaitersAreCounted /\ DestroyedIsFree
    /\ valid \in BOOLEAN /\ strangers \in BOOLEAN
-----------------------------------------------------------------------------
(* CThread.  Until a thread has ended or its handle was abandoned, the     *)
(* object holds its token and its work, and every start has another work.  *)
ThreadSteps == {"none", "shim", "call", "running", "ended"}

LifetimeTypes ==
    /\ token \in Threads \cup {None}
    /\ isValid \in BOOLEAN /\ joining \in BOOLEAN /\ abandons \in BOOLEAN
    /\ entry \in Nat /\ starts \in Nat
    /\ running \in [Threads -> [step : ThreadSteps, read : Nat, for : Nat, self : BOOLEAN]]

TokenIsKept ==
    /\ isValid = TRUE => token # None
    /\ joining = TRUE => isValid = TRUE
    /\ token # None => entry # 0 /\ running[token].step # "none"

WorksDiffer ==
    /\ entry <= starts
    /\ joined \subseteq 1 .. starts
    /\ token = None /\ entry # 0 => entry \notin joined /\ \A n \in Threads : running[n].for # entry
    /\ \A n \in Threads :
         IF running[n].step = "none" THEN running[n].for = 0
         ELSE running[n].for \in (1 .. starts) \ joined
    /\ \A n, m \in Threads : n # m /\ running[n].for # 0 => running[n].for # running[m].for

WorkIsHeld ==
    \A n \in Threads :
      /\ running[n].step \in {"shim", "call", "running"} => token = n /\ entry = running[n].for
      /\ running[n].step \in {"running", "ended"} => running[n].read = running[n].for

LifetimeInv ==
    LifetimeTypes /\ TokenIsKept /\ WorksDiffer /\ (abandons = FALSE => WorkIsHeld)
-----------------------------------------------------------------------------
(* The words of the debug service.                                         *)
IncidentSteps ==
    {"idle", "load", "exchange", "panic", "over", "react", "claim", "install", "owner_breaks", "break"}

Report == [step : IncidentSteps, incident : Nat, reason : 0 .. 3, seen : 0 .. 3, fields : SUBSET Incidents!Fields]
Reading == [left : SUBSET (Incidents!Fields \cup {"state"}), loaded : [Incidents!Fields -> Nat],
            active : BOOLEAN, amid : BOOLEAN]

IncidentTypes ==
    /\ counter \in Nat /\ shutdown \in 0 .. 3 /\ requested \in 0 .. 3
    /\ pause \in {"inactive", "installing", "active"}
    /\ context \in [Incidents!Fields -> Nat]
    /\ doing \in [Threads -> Report]
    /\ reader \in Reading

(* What a requester saw was there, and requests only grow.                 *)
RequestsGrow ==
    /\ requested <= shutdown
    /\ \A t \in Threads : doing[t].step = "exchange" => doing[t].seen <= shutdown

IncidentsAreNumbered ==
    \A t \in Threads :
      /\ doing[t].incident <= counter
      /\ doing[t].step \in {"react", "claim", "install", "owner_breaks"} => doing[t].incident # 0

OwnsContext(t) == doing[t].step \in {"install", "owner_breaks"}

(* One thread installs the context, field by field, and then breaks.       *)
ContextIsOwned ==
    /\ \A t \in Threads : doing[t].step = "install" <=> pause = "installing" /\ OwnsContext(t)
    /\ \A t \in Threads : doing[t].step = "owner_breaks" <=> pause = "active" /\ OwnsContext(t)
    /\ pause # "inactive" => \E t \in Threads : OwnsContext(t)
    /\ \A t, u \in Threads : OwnsContext(t) /\ OwnsContext(u) => t = u
    /\ \A t \in Threads : OwnsContext(t) =>
         \A f \in Incidents!Fields :
            (doing[t].step = "install" => f \notin doing[t].fields) => context[f] = doing[t].incident

(* Until another context is begun, what a reader has loaded is what there  *)
(* still is to load; once it is done it keeps what it has.                 *)
ReaderSeesOne ==
    /\ reader.left # {} /\ reader.amid = FALSE =>
         /\ pause # "installing"
         /\ \E i \in 1 .. counter : \A f \in Incidents!Fields :
              context[f] = i /\ (f \notin reader.left => reader.loaded[f] = i)
    /\ reader.left = {} /\ reader.active = TRUE =>
         \E i \in 1 .. counter : \A f \in Incidents!Fields : reader.loaded[f] = i

IncidentsInv ==
    IncidentTypes /\ RequestsGrow /\ IncidentsAreNumbered /\ ContextIsOwned /\ ReaderSeesOne
-----------------------------------------------------------------------------
(* CCountingSemaphore.  A thread that is about to take a permit saw one;   *)
(* the controller that is about to add permits saw room for them; and      *)
(* while a thread sleeps on the word, each permit has a taker awake, or a  *)
(* wake to come.                                                           *)
Takers == {t \in Threads : at[t] \in {"load", "wait", "take"}}

PermitsAreCounted ==
    /\ DOMAIN at = Threads \cup {Owner} /\ DOMAIN seen = Threads \cup {Owner}
    /\ word \in 0 .. Released /\ granted \in Int /\ taken \in Int
    /\ hasControl \in BOOLEAN /\ native \in BOOLEAN
    /\ hasControl = TRUE <=> word # Released
    /\ word # Released => granted = word + taken
    /\ \A t \in Threads : at[t] \in {"take", "try_take"} => seen[t] \in 1 .. Released - 1
    /\ at[Owner] = "add" =>
         /\ hasControl = TRUE /\ adding \in 1 .. 2
         /\ seen[Owner] \in Nat /\ adding <= Released - 1 - seen[Owner]

PermitsHaveTakers ==
    native = TRUE /\ word # Released /\ Semaphore!Sleepers # {} =>
      CASE at[Owner] = "wake_all" -> TRUE
        [] at[Owner] = "wake_one" -> word <= Cardinality(Takers) + 1
        [] OTHER -> word <= Cardinality(Takers)

SemaphoreInv == PermitsAreCounted /\ PermitsHaveTakers
-----------------------------------------------------------------------------
(* CWaitWordSemaphore, whose threads all take, add and wake.               *)
Users == Threads \cup {Owner}
WordTakers == {t \in Users : at[t] \in {"load", "wait", "take", "wake_one"}}

WordPermitsAreCounted ==
    /\ DOMAIN at = Users /\ DOMAIN seen = Users /\ DOMAIN adding = Users
    /\ word \in 0 .. Released /\ granted \in Int /\ taken \in Int
    /\ word # Released => granted = word + taken
    /\ \A t \in Users : at[t] \in {"take", "try_take"} => seen[t] \in 1 .. Released - 1
    /\ \A t \in Users : at[t] = "add" =>
         adding[t] \in 1 .. 2 /\ seen[t] \in Nat /\ adding[t] <= Released - 1 - seen[t]

WordPermitsHaveTakers ==
    word # Released /\ WordSemaphore!Sleepers # {} /\ (\A t \in Users : at[t] # "wake_all")
      => word <= Cardinality(WordTakers)

WordSemaphoreInv == WordPermitsAreCounted /\ WordPermitsHaveTakers
-----------------------------------------------------------------------------
(* CWaitPredicate.  Who waits or sleeps saw a word it was not waiting for, *)
(* and the word is still that while every change has been announced.       *)
WordIsControlled ==
    /\ DOMAIN at = Threads \cup {Owner} /\ DOMAIN seen = Threads \cup {Owner} /\ DOMAIN wait = Threads
    /\ word \in 0 .. Released - 1
    /\ hasControl \in BOOLEAN /\ native \in BOOLEAN /\ owed \in BOOLEAN
    /\ hasControl = TRUE <=> word # Released - 1

SleepersWait ==
    native = TRUE =>
      /\ \A t \in Threads : at[t] \in {"wait", "asleep"} => ~Predicate!Ready(t, seen[t])
      /\ owed = FALSE /\ at[Owner] # "wake_all" => \A t \in Threads : at[t] = "asleep" => seen[t] = word
      /\ at[Owner] # "asleep"

PredicateInv == WordIsControlled /\ SleepersWait
-----------------------------------------------------------------------------
SyncInv ==
    /\ part \in {"semaphore", "predicate", "word_semaphore", "lock", "lifetime", "incidents"}
    /\ part = "semaphore" => SemaphoreInv
    /\ part = "predicate" => PredicateInv
    /\ part = "word_semaphore" => WordSemaphoreInv
    /\ part = "lock" => LockInv
    /\ part = "lifetime" => LifetimeInv
    /\ part = "incidents" => IncidentsInv
-----------------------------------------------------------------------------
(* The modules count with the one Cardinality.                             *)
LEMMA CardinalityIsOne ==
    ASSUME NEW S
    PROVE  /\ Semaphore!Cardinality(S) = Cardinality(S)
           /\ WordSemaphore!Cardinality(S) = Cardinality(S)
           /\ Incidents!Cardinality(S) = Cardinality(S)
BY DEF Semaphore!Cardinality, WordSemaphore!Cardinality, Incidents!Cardinality, Cardinality

(* The lock.                                                               *)

(* The threads inside acquire() are finitely many, and one that enters or  *)
(* leaves changes their number by one.                                     *)
LEMMA InsideIsFinite ==
    ASSUME PartsAssumption
    PROVE  IsFiniteSet(Inside) /\ Cardinality(Inside) \in Nat
<1>1. Inside \subseteq Threads /\ IsFiniteSet(Threads)
  BY DEF Inside, PartsAssumption
<1> QED BY <1>1, FS_Subset, FS_CardinalityType

LEMMA CountFollows ==
    ASSUME PartsAssumption, LockTypes, WaitersAreCounted, NEW t \in Threads \cup Strangers, NEW to,
           at' = [at EXCEPT ![t] = to],
           t \in Strangers => to \notin Counted,
           waiters' = IF at[t] \notin Counted /\ to \in Counted THEN waiters + 1
                      ELSE IF at[t] \in Counted /\ to \notin Counted THEN waiters - 1 ELSE waiters,
           t \in Strangers => at[t] \notin Counted
    PROVE  WaitersAreCounted'
<1>1. Inside' = {u \in Threads : IF u = t THEN to \in Counted ELSE at[u] \in Counted}
  BY DEF Inside, LockTypes
<1>2. IsFiniteSet(Inside) /\ Cardinality(Inside) \in Nat
  BY InsideIsFinite
<1>3. CASE at[t] \notin Counted /\ to \in Counted
  <2>1. Inside' = Inside \cup {t} /\ t \notin Inside
    BY <1>1, <1>3 DEF Inside
  <2>2. Cardinality(Inside') = Cardinality(Inside) + 1
    BY <2>1, <1>2, FS_AddElement
  <2> QED BY <2>2, <1>3 DEF WaitersAreCounted
<1>4. CASE at[t] \in Counted /\ to \notin Counted
  <2>1. Inside' = Inside \ {t} /\ t \in Inside
    BY <1>1, <1>4 DEF Inside
  <2>2. Cardinality(Inside') = Cardinality(Inside) - 1
    BY <2>1, <1>2, FS_RemoveElement
  <2> QED BY <2>2, <1>4 DEF WaitersAreCounted
<1>5. CASE at[t] \in Counted <=> to \in Counted
  <2>1. Inside' = Inside
    BY <1>1, <1>5 DEF Inside
  <2> QED BY <2>1, <1>5 DEF WaitersAreCounted
<1> QED BY <1>3, <1>4, <1>5
LockCore == LockTypes /\ NativeIsHeld /\ OwnerIsHolder /\ GateIsHeld

(* The assumptions about who is who, as the lock uses them.                *)
LEMMA LockersDiffer ==
    ASSUME PartsAssumption
    PROVE  None \notin Threads \cup Strangers /\ Threads \cap Strangers = {}
BY DEF PartsAssumption, Lock!LockersAssumption

(* A step of one thread, which says what it makes of the three words: each *)
(* part of the invariant asks only a few things of it.                     *)
LEMMA StepKeepsCore ==
    ASSUME PartsAssumption, LockCore, NEW t \in Threads \cup Strangers, NEW to \in LockSteps,
           at' = [at EXCEPT ![t] = to],
           nativeLock' \in {nativeLock, t, None}, owner' \in {owner, t, None}, ownerGate' \in {ownerGate, t, None},
           owner' = t => t \in Threads,
           t \in Strangers => to \in {"idle", "disown", "turn_away"},
           \* the native lock
           nativeLock' # nativeLock => nativeLock \in {t, None},
           to \in Unowned \cup Owned => nativeLock' = t,
           nativeLock' = t /\ owner' # t => to \in Unowned,
           \* the owner
           owner' # owner => owner \in {t, None} /\ nativeLock = t /\ nativeLock' = t,
           owner' # None => nativeLock' = owner',
           to \in Unowned => owner' = None,
           to \in Owned => owner' = t,
           \* the gate
           ownerGate' # ownerGate => ownerGate \in {t, None},
           to \in Gated <=> ownerGate' = t
    PROVE  LockCore'
<1> DEFINE Anyone == Threads \cup Strangers
<1>1. at \in [Anyone -> LockSteps] /\ at' \in [Anyone -> LockSteps] /\ at'[t] = to
      /\ \A u \in Anyone : u # t => at'[u] = at[u]
  BY DEF LockCore, LockTypes
<1>2. None \notin Anyone
  BY LockersDiffer
<1>3. LockTypes'
  BY <1>1, LockersDiffer DEF LockCore, LockTypes
<1>4. NativeIsHeld'
  <2>1. \A u \in Anyone : at'[u] \in Unowned \cup Owned => nativeLock' = u
    BY <1>1, <1>2 DEF LockCore, NativeIsHeld
  <2>2. nativeLock' \notin {owner', None} => owner' = None /\ at'[nativeLock'] \in Unowned
    <3> SUFFICES ASSUME nativeLock' \notin {owner', None}
                 PROVE  owner' = None /\ at'[nativeLock'] \in Unowned
      OBVIOUS
    <3>1. owner' = None
      OBVIOUS
    <3>2. CASE nativeLock' = t
      BY <3>1, <3>2, <1>1
    <3>3. CASE nativeLock' # t
      <4>1. nativeLock' = nativeLock /\ nativeLock # None /\ nativeLock \in Anyone
        BY <3>3 DEF LockCore, LockTypes
      <4>2. owner = owner'
        BY <4>1, <3>3
      <4> QED BY <4>1, <4>2, <3>1, <3>3, <1>1 DEF LockCore, NativeIsHeld
    <3> QED BY <3>1, <3>2, <3>3
  <2> QED BY <2>1, <2>2 DEF NativeIsHeld
<1>5. OwnerIsHolder'
  <2>1. \A u \in Anyone : at'[u] \in Unowned => owner' = None
    <3> SUFFICES ASSUME NEW u \in Anyone, at'[u] \in Unowned, u # t PROVE owner' = None
      BY <1>1
    <3>1. at[u] \in Unowned /\ nativeLock = u /\ owner = None
      BY <1>1 DEF LockCore, NativeIsHeld, OwnerIsHolder
    <3> QED BY <3>1
  <2>2. \A u \in Anyone : at'[u] \in Owned => owner' = u
    <3> SUFFICES ASSUME NEW u \in Anyone, at'[u] \in Owned, u # t PROVE owner' = u
      BY <1>1
    <3>1. at[u] \in Owned /\ owner = u /\ nativeLock = u
      BY <1>1 DEF LockCore, NativeIsHeld, OwnerIsHolder
    <3> QED BY <3>1
  <2> QED BY <2>1, <2>2 DEF OwnerIsHolder
<1>6. GateIsHeld'
  <2> SUFFICES ASSUME NEW u \in Anyone PROVE at'[u] \in Gated <=> ownerGate' = u
    BY DEF GateIsHeld
  <2>1. at[u] \in Gated <=> ownerGate = u
    BY DEF LockCore, GateIsHeld
  <2> QED BY <2>1, <1>1, <1>2
<1> QED BY <1>3, <1>4, <1>5, <1>6 DEF LockCore

(* What the invariant says of one thread.                                  *)
LEMMA CoreOfOne ==
    ASSUME PartsAssumption, LockCore, NEW t \in Threads \cup Strangers
    PROVE  /\ t # None /\ (t \in Strangers <=> t \notin Threads) /\ at \in [Threads \cup Strangers -> LockSteps]
           /\ t \in Strangers => at[t] \in {"idle", "disown", "turn_away"}
           /\ at[t] \in Unowned => nativeLock = t /\ owner = None
           /\ at[t] \in Owned => nativeLock = t /\ owner = t
           /\ at[t] \in Gated <=> ownerGate = t
           /\ nativeLock = t /\ owner # t => at[t] \in Unowned
           /\ owner \in {None, nativeLock} /\ owner \in Threads \cup {None}
BY LockersDiffer DEF LockCore, NativeIsHeld, OwnerIsHolder, GateIsHeld, LockTypes

(* The steps of the three calls.                                           *)
LEMMA AcquireKeepsCore ==
    ASSUME PartsAssumption, LockCore, NEW t \in Threads, Lock!Acquire(t)
    PROVE  LockCore'
<1> USE CoreOfOne DEF Lock!Goes, LockSteps, Unowned, Owned, Gated
<1>1. CASE Lock!Goes(t, "idle", "lock") /\ UNCHANGED <<nativeLock, owner, ownerGate>>
  BY <1>1, StepKeepsCore
<1>2. CASE Lock!Goes(t, "lock", "gate") /\ Lock!TakesNative(t) /\ UNCHANGED <<owner, ownerGate>>
  BY <1>2, StepKeepsCore DEF Lock!TakesNative
<1>3. CASE Lock!TriesGate(t, "gate", "own", "undo") /\ UNCHANGED <<nativeLock, owner>>
  BY <1>3, StepKeepsCore DEF Lock!TriesGate
<1>4. CASE Lock!Goes(t, "undo", "uncount") /\ Lock!GivesNative /\ UNCHANGED <<owner, ownerGate>>
  BY <1>4, StepKeepsCore DEF Lock!GivesNative
<1>5. CASE Lock!Goes(t, "own", "ungate") /\ owner' = t /\ UNCHANGED <<nativeLock, ownerGate>>
  BY <1>5, StepKeepsCore
<1>6. CASE Lock!LeavesGate(t, "ungate", "uncount") /\ UNCHANGED <<nativeLock, owner>>
  BY <1>6, StepKeepsCore DEF Lock!LeavesGate
<1>7. CASE Lock!Goes(t, "uncount", "holding") /\ UNCHANGED <<nativeLock, owner, ownerGate>>
  BY <1>7, StepKeepsCore
<1> QED BY <1>1, <1>2, <1>3, <1>4, <1>5, <1>6, <1>7 DEF Lock!Acquire

LEMMA TryAcquireKeepsCore ==
    ASSUME PartsAssumption, LockCore, NEW t \in Threads, Lock!TryAcquire(t)
    PROVE  LockCore'
<1> USE CoreOfOne DEF Lock!Goes, LockSteps, Unowned, Owned, Gated
<1>1. CASE Lock!Goes(t, "idle", "try_gate") /\ Lock!TakesNative(t) /\ UNCHANGED <<owner, ownerGate>>
  BY <1>1, StepKeepsCore DEF Lock!TakesNative
<1>2. CASE Lock!TriesGate(t, "try_gate", "try_own", "try_undo") /\ UNCHANGED <<nativeLock, owner>>
  BY <1>2, StepKeepsCore DEF Lock!TriesGate
<1>3. CASE /\ Lock!Goes(t, "try_own", IF owner = None THEN "try_ungate" ELSE "try_refuse")
           /\ owner' = IF owner = None THEN t ELSE owner
           /\ UNCHANGED <<nativeLock, ownerGate>>
  BY <1>3, StepKeepsCore
<1>4. CASE Lock!LeavesGate(t, "try_ungate", "holding") /\ UNCHANGED <<nativeLock, owner>>
  BY <1>4, StepKeepsCore DEF Lock!LeavesGate
<1>5. CASE Lock!LeavesGate(t, "try_refuse", "try_undo") /\ UNCHANGED <<nativeLock, owner>>
  BY <1>5, StepKeepsCore DEF Lock!LeavesGate
<1>6. CASE Lock!Goes(t, "try_undo", "idle") /\ Lock!GivesNative /\ UNCHANGED <<owner, ownerGate>>
  BY <1>6, StepKeepsCore DEF Lock!GivesNative
<1> QED BY <1>1, <1>2, <1>3, <1>4, <1>5, <1>6 DEF Lock!TryAcquire

LEMMA ReleaseKeepsCore ==
    ASSUME PartsAssumption, LockCore, NEW t \in Threads \cup Strangers, Lock!Release(t)
    PROVE  LockCore'
<1> USE CoreOfOne DEF Lock!Goes, LockSteps, Unowned, Owned, Gated
<1>1. CASE Lock!TriesGate(t, "holding", "disown", "idle") /\ UNCHANGED <<nativeLock, owner>>
  BY <1>1, StepKeepsCore DEF Lock!TriesGate
<1>2. CASE Lock!TriesGate(t, "idle", "disown", "idle") /\ UNCHANGED <<nativeLock, owner>>
  BY <1>2, StepKeepsCore DEF Lock!TriesGate
<1>3. CASE /\ Lock!Goes(t, "disown", IF owner = t THEN "leave" ELSE "turn_away")
           /\ owner' = IF owner = t THEN None ELSE owner
           /\ UNCHANGED <<nativeLock, ownerGate>>
  <2>1. CASE owner = t
    BY <1>3, <2>1, StepKeepsCore
  <2>2. CASE owner # t
    BY <1>3, <2>2, StepKeepsCore
  <2> QED BY <2>1, <2>2
<1>4. CASE Lock!LeavesGate(t, "leave", "unlock") /\ UNCHANGED <<nativeLock, owner>>
  BY <1>4, StepKeepsCore DEF Lock!LeavesGate
<1>5. CASE Lock!LeavesGate(t, "turn_away", "idle") /\ UNCHANGED <<nativeLock, owner>>
  BY <1>5, StepKeepsCore DEF Lock!LeavesGate
<1>6. CASE Lock!Goes(t, "unlock", "idle") /\ Lock!GivesNative /\ UNCHANGED <<owner, ownerGate>>
  BY <1>6, StepKeepsCore DEF Lock!GivesNative
<1> QED BY <1>1, <1>2, <1>3, <1>4, <1>5, <1>6 DEF Lock!Release

(* Where a call goes, and how it counts: only a locker is ever inside      *)
(* acquire(), and only its first and its last step change the count.       *)
LEMMA CallsCount ==
    ASSUME PartsAssumption, LockCore, WaitersAreCounted, NEW t \in Threads \cup Strangers,
           \/ t \in Threads /\ (Lock!Acquire(t) \/ Lock!TryAcquire(t))
           \/ Lock!Release(t)
    PROVE  WaitersAreCounted' /\ valid' = valid /\ strangers' = strangers
<1>0. t # None /\ (t \in Strangers => t \notin Threads)
  BY LockersDiffer
<1>1. PICK to : at' = [at EXCEPT ![t] = to]
  BY DEF Lock!Acquire, Lock!TryAcquire, Lock!Release, Lock!TriesGate, Lock!LeavesGate, Lock!Goes
<1>2. at \in [Threads \cup Strangers -> LockSteps] /\ at'[t] = to
  BY <1>1 DEF LockCore, LockTypes
<1>3. /\ waiters' = IF at[t] \notin Counted /\ to \in Counted THEN waiters + 1
                    ELSE IF at[t] \in Counted /\ to \notin Counted THEN waiters - 1 ELSE waiters
      /\ t \in Strangers => at[t] \notin Counted /\ to \notin Counted
      /\ valid' = valid /\ strangers' = strangers
  <2>1. CASE t \in Threads /\ Lock!Acquire(t)
    BY <1>0, <1>2, <2>1 DEF Lock!Acquire, Lock!TriesGate, Lock!LeavesGate, Lock!Goes, Counted
  <2>2. CASE t \in Threads /\ Lock!TryAcquire(t)
    BY <1>0, <1>2, <2>2 DEF Lock!TryAcquire, Lock!TriesGate, Lock!LeavesGate, Lock!Goes, Counted
  <2>3. CASE Lock!Release(t)
    BY <1>0, <1>2, <2>3 DEF Lock!Release, Lock!TriesGate, Lock!LeavesGate, Lock!Goes, Counted
  <2> QED BY <2>1, <2>2, <2>3
<1>4. WaitersAreCounted'
  BY <1>1, <1>3, CountFollows DEF LockCore
<1> QED BY <1>3, <1>4

(* Without strangers, the gate is free for whoever has the native lock: if *)
(* another had the gate it would have the native lock too.                 *)
LEMMA UndoneNext ==
    ASSUME PartsAssumption, LockCore, strangers = FALSE, NobodyIsUndone, NEW t \in Threads \cup Strangers,
           \/ t \in Threads /\ (Lock!Acquire(t) \/ Lock!TryAcquire(t))
           \/ Lock!Release(t)
    PROVE  NobodyIsUndone'
<1>0. t # None /\ (t \in Strangers => t \notin Threads)
  BY LockersDiffer
<1>1. PICK to : at' = [at EXCEPT ![t] = to]
  BY DEF Lock!Acquire, Lock!TryAcquire, Lock!Release, Lock!TriesGate, Lock!LeavesGate, Lock!Goes
<1>2. /\ at \in [Threads \cup Strangers -> LockSteps] /\ at'[t] = to
      /\ \A u \in Threads \cup Strangers : u # t => at'[u] = at[u]
  BY <1>1 DEF LockCore, LockTypes
<1>3. /\ at[t] \in Unowned => nativeLock = t /\ owner = None
      /\ at[t] \in Owned => nativeLock = t /\ owner = t
      /\ at[t] \in {"holding", "disown"} /\ t \in Threads => nativeLock = t /\ owner = t
  BY CoreOfOne DEF NobodyIsUndone
<1>4. ASSUME nativeLock = t, at[t] \notin Gated PROVE ownerGate = None
  <2>1. ASSUME NEW u \in Threads \cup Strangers, ownerGate = u PROVE FALSE
    <3>1. at[u] \in Gated /\ u # t
      BY <2>1, <1>4 DEF LockCore, GateIsHeld
    <3>2. u \in Threads /\ at[u] # "turn_away"
      BY <3>1 DEF NobodyIsUndone, Gated
    <3>3. nativeLock = u
      BY <3>1, <3>2 DEF LockCore, NativeIsHeld, NobodyIsUndone, Gated, Unowned, Owned
    <3> QED BY <3>1, <3>3, <1>4
  <2> QED BY <2>1 DEF LockCore, LockTypes
<1>5. t \in Threads
  BY <1>2 DEF NobodyIsUndone, Lock!Release, Lock!TriesGate, Lock!LeavesGate, Lock!Goes
<1>6. /\ to \notin {"undo", "try_undo", "try_refuse", "turn_away"}
      /\ to \in {"uncount", "holding", "disown"} => nativeLock' = t /\ owner' = t
  <2> USE <1>0, <1>2, <1>3, <1>4, <1>5 DEF NobodyIsUndone, Unowned, Owned, Gated, Lock!Goes, Lock!TriesGate, Lock!LeavesGate
  <2>1. CASE Lock!Acquire(t)
    BY <2>1 DEF Lock!Acquire, Lock!TakesNative, Lock!GivesNative
  <2>2. CASE Lock!TryAcquire(t)
    BY <2>2 DEF Lock!TryAcquire, Lock!TakesNative, Lock!GivesNative
  <2>3. CASE Lock!Release(t)
    BY <2>3 DEF Lock!Release, Lock!TakesNative, Lock!GivesNative
  <2> QED BY <2>1, <2>2, <2>3
<1>7. ASSUME NEW u \in Threads, u # t, at[u] \in {"uncount", "holding", "disown"}
      PROVE  nativeLock' = u /\ owner' = u
  <2>1. nativeLock = u /\ owner = u
    BY <1>7 DEF NobodyIsUndone
  <2>2. at[t] \notin Unowned \cup Owned \cup {"holding", "disown"} /\ nativeLock # None
    BY <2>1, <1>7, <1>3, <1>5, LockersDiffer
  <2>3. nativeLock' = nativeLock /\ owner' = owner
    BY <2>2, <1>5 DEF Unowned, Owned, Lock!Acquire, Lock!TryAcquire, Lock!Release, Lock!TriesGate, Lock!LeavesGate,
                      Lock!Goes, Lock!TakesNative, Lock!GivesNative
  <2> QED BY <2>1, <2>3
<1>8. \A s \in Strangers : at'[s] = "idle"
  BY <1>0, <1>2, <1>5, LockersDiffer DEF NobodyIsUndone
<1> QED BY <1>2, <1>5, <1>6, <1>7, <1>8 DEF NobodyIsUndone

(* The destructor finds the lock free, or leaves it as it is.              *)
LEMMA DestroyedNext ==
    ASSUME PartsAssumption, LockInv, Lock!Destroy
    PROVE  LockInv'
<1>1. LockCore
  BY DEF LockInv, LockCore
<1>2. /\ UNCHANGED <<at, nativeLock, owner, ownerGate, waiters, strangers>>
      /\ valid' = ~(waiters = 0 /\ ownerGate = None /\ owner = None)
      /\ \A t \in Threads \cup Strangers : at[t] \notin {"try_gate", "try_undo", "unlock", "turn_away"}
  BY DEF Lock!Destroy
<1>3. /\ LockTypes' /\ NativeIsHeld' /\ OwnerIsHolder' /\ GateIsHeld' /\ WaitersAreCounted'
      /\ strangers' = FALSE => NobodyIsUndone'
  BY <1>2 DEF LockInv, LockTypes, NativeIsHeld, OwnerIsHolder, GateIsHeld, WaitersAreCounted, Inside, NobodyIsUndone
<1>4. ASSUME waiters = 0, ownerGate = None, owner = None
      PROVE  nativeLock = None
  <2>1. Inside = {}
    <3>1. IsFiniteSet(Inside) /\ Cardinality(Inside) = 0
      BY <1>4, InsideIsFinite DEF LockInv, WaitersAreCounted
    <3> QED BY <3>1, FS_EmptySet
  <2>2. ASSUME nativeLock # None PROVE FALSE
    <3>1. nativeLock \in Threads \cup Strangers /\ at[nativeLock] \in Unowned
      BY <2>2, <1>1, <1>4 DEF LockCore, LockTypes, NativeIsHeld
    <3>2. at[nativeLock] \notin Gated
      BY <3>1, <1>1, <1>4, CoreOfOne
    <3>3. at[nativeLock] \in {"gate", "undo"}
      BY <3>1, <3>2, <1>2 DEF Unowned, Gated
    <3>4. nativeLock \in Threads
      BY <3>1, <3>3, <1>1 DEF LockCore, LockTypes
    <3> QED BY <3>3, <3>4, <2>1 DEF Inside, Counted
  <2> QED BY <2>2
<1>5. valid' \in BOOLEAN /\ strangers' \in BOOLEAN
  BY <1>2 DEF LockInv
<1>6. DestroyedIsFree'
  BY <1>2, <1>4 DEF DestroyedIsFree
<1> QED BY <1>3, <1>5, <1>6 DEF LockInv

LEMMA LockStep ==
    ASSUME PartsAssumption, LockInv, Lock!LockNext
    PROVE  LockInv'
<1>1. CASE Lock!Destroy
  BY <1>1, DestroyedNext
<1>2. ASSUME valid, NEW t \in Threads \cup Strangers,
             \/ t \in Threads /\ (Lock!Acquire(t) \/ Lock!TryAcquire(t))
             \/ Lock!Release(t)
      PROVE  LockInv'
  <2>1. LockCore /\ WaitersAreCounted
    BY DEF LockInv, LockCore
  <2>2. LockCore'
    BY <2>1, <1>2, AcquireKeepsCore, TryAcquireKeepsCore, ReleaseKeepsCore
  <2>3. WaitersAreCounted' /\ valid' = valid /\ strangers' = strangers
    BY <2>1, <1>2, CallsCount
  <2>4. strangers' = FALSE => NobodyIsUndone'
    BY <2>1, <2>3, <1>2, UndoneNext DEF LockInv
  <2>5. DestroyedIsFree' /\ valid' \in BOOLEAN /\ strangers' \in BOOLEAN
    BY <2>3, <1>2 DEF LockInv, DestroyedIsFree
  <2> QED BY <2>2, <2>3, <2>4, <2>5 DEF LockInv, LockCore
<1> QED BY <1>1, <1>2 DEF Lock!LockNext

LEMMA LockStarts ==
    ASSUME PartsAssumption, Lock!LockInit
    PROVE  LockInv
<1>1. /\ strangers \in BOOLEAN /\ valid = TRUE
      /\ at = [t \in Threads \cup Strangers |-> "idle"]
      /\ nativeLock = None /\ owner = None /\ ownerGate = None /\ waiters = 0
  BY DEF Lock!LockInit
<1>2. LockTypes /\ NativeIsHeld /\ OwnerIsHolder /\ GateIsHeld /\ NobodyIsUndone
  BY <1>1, LockersDiffer DEF LockTypes, LockSteps, NativeIsHeld, OwnerIsHolder, GateIsHeld, NobodyIsUndone,
                             Unowned, Owned, Gated
<1>3. WaitersAreCounted
  <2>1. Inside = {}
    BY <1>1 DEF Inside, Counted
  <2> QED BY <2>1, <1>1, FS_EmptySet DEF WaitersAreCounted
<1> QED BY <1>1, <1>2, <1>3 DEF LockInv, DestroyedIsFree

LEMMA LockExcludes ==
    ASSUME PartsAssumption, LockInv
    PROVE  Lock!AtMostOneHolder /\ Lock!HolderUnlocks /\ Lock!DestroyedWasFree
<1>1. Lock!AtMostOneHolder
  <2> SUFFICES ASSUME ~strangers, NEW t \in Threads, at[t] = "holding"
               PROVE  nativeLock = t /\ owner = t /\ \A u \in Threads \ {t} : at[u] # "holding"
    BY DEF Lock!AtMostOneHolder
  <2>1. NobodyIsUndone
    BY DEF LockInv
  <2> QED BY <2>1 DEF NobodyIsUndone
<1>2. Lock!HolderUnlocks
  BY DEF LockInv, NativeIsHeld, Unowned, Lock!HolderUnlocks
<1>3. Lock!DestroyedWasFree
  BY DEF LockInv, DestroyedIsFree, Lock!DestroyedWasFree
<1> QED BY <1>1, <1>2, <1>3
-----------------------------------------------------------------------------
(* The thread.                                                             *)

(* A step of one native thread that leaves the work it was for.            *)
LEMMA NativeMoves ==
    ASSUME PartsAssumption, LifetimeInv, NEW n \in Threads, NEW r,
           r \in [step : ThreadSteps, read : Nat, for : Nat, self : BOOLEAN],
           running' = [running EXCEPT ![n] = r],
           running[n].step # "none", r.step # "none", r.for = running[n].for,
           r.step \in {"shim", "call", "running"} => running[n].step \in {"shim", "call", "running"},
           abandons = FALSE /\ r.step \in {"running", "ended"} => r.read = r.for,
           UNCHANGED <<token, isValid, entry, starts, joining, joined, abandons>>
    PROVE  LifetimeInv'
<1>1. /\ running \in [Threads -> [step : ThreadSteps, read : Nat, for : Nat, self : BOOLEAN]]
      /\ running'[n] = r /\ \A m \in Threads : m # n => running'[m] = running[m]
  BY DEF LifetimeInv, LifetimeTypes
<1>2. LifetimeTypes'
  BY <1>1 DEF LifetimeInv, LifetimeTypes
<1>3. TokenIsKept'
  BY <1>1 DEF LifetimeInv, LifetimeTypes, TokenIsKept
<1>4. \A m \in Threads : running'[m].for = running[m].for /\ (running'[m].step = "none" <=> running[m].step = "none")
  BY <1>1
<1>5. WorksDiffer'
  BY <1>4 DEF LifetimeInv, WorksDiffer
<1>6. ASSUME abandons = FALSE PROVE WorkIsHeld'
  BY <1>1, <1>6 DEF LifetimeInv, WorkIsHeld
<1> QED BY <1>2, <1>3, <1>5, <1>6 DEF LifetimeInv

LEMMA NativesNext ==
    ASSUME PartsAssumption, LifetimeInv, NEW n \in Threads,
           Lifetime!ShimTests(n) \/ Lifetime!ShimCalls(n) \/ Lifetime!EntryReturns(n) \/ Lifetime!SelfJoin(n)
    PROVE  LifetimeInv'
<1> DEFINE old == running[n]
           Same == UNCHANGED <<token, isValid, entry, starts, joining, joined, abandons>>
<1>0. /\ running \in [Threads -> [step : ThreadSteps, read : Nat, for : Nat, self : BOOLEAN]]
      /\ old \in [step : ThreadSteps, read : Nat, for : Nat, self : BOOLEAN] /\ entry \in Nat
      /\ abandons = FALSE /\ old.step \in {"shim", "call", "running"} => entry = old.for
      /\ abandons = FALSE /\ old.step \in {"running", "ended"} => old.read = old.for
      /\ old.step # "none" => old.for # 0
  BY DEF LifetimeInv, LifetimeTypes, WorkIsHeld, WorksDiffer
<1>1. CASE Lifetime!ShimTests(n)
  <2> DEFINE r == [old EXCEPT !.step = IF entry # 0 THEN "call" ELSE "ended"]
  <2>1. old.step = "shim" /\ running' = [running EXCEPT ![n] = r] /\ Same
    BY <1>1, <1>0 DEF Lifetime!ShimTests
  <2>2. /\ r \in [step : ThreadSteps, read : Nat, for : Nat, self : BOOLEAN]
        /\ r.step # "none" /\ r.for = old.for
        /\ abandons = FALSE /\ r.step \in {"running", "ended"} => r.read = r.for
    BY <1>0, <2>1 DEF ThreadSteps
  <2> QED BY <2>1, <2>2, NativeMoves
<1>2. CASE Lifetime!ShimCalls(n)
  <2> DEFINE r == [old EXCEPT !.step = "running", !.read = entry]
  <2>1. old.step = "call" /\ running' = [running EXCEPT ![n] = r] /\ Same
    BY <1>2, <1>0 DEF Lifetime!ShimCalls
  <2>2. /\ r \in [step : ThreadSteps, read : Nat, for : Nat, self : BOOLEAN]
        /\ r.step # "none" /\ r.for = old.for
        /\ abandons = FALSE /\ r.step \in {"running", "ended"} => r.read = r.for
    BY <1>0, <2>1 DEF ThreadSteps
  <2> QED BY <2>1, <2>2, NativeMoves
<1>3. CASE Lifetime!EntryReturns(n)
  <2> DEFINE r == [old EXCEPT !.step = "ended"]
  <2>1. old.step = "running" /\ running' = [running EXCEPT ![n] = r] /\ Same
    BY <1>3, <1>0 DEF Lifetime!EntryReturns
  <2>2. /\ r \in [step : ThreadSteps, read : Nat, for : Nat, self : BOOLEAN]
        /\ r.step # "none" /\ r.for = old.for /\ r.step \notin {"shim", "call", "running"}
        /\ abandons = FALSE /\ r.step \in {"running", "ended"} => r.read = r.for
    BY <1>0, <2>1 DEF ThreadSteps
  <2> QED BY <2>1, <2>2, NativeMoves
<1>4. CASE Lifetime!SelfJoin(n)
  <2> DEFINE r == [old EXCEPT !.self = TRUE]
  <2>1. old.step = "running" /\ running' = [running EXCEPT ![n] = r] /\ Same
    BY <1>4, <1>0 DEF Lifetime!SelfJoin
  <2>2. /\ r \in [step : ThreadSteps, read : Nat, for : Nat, self : BOOLEAN]
        /\ r.step # "none" /\ r.for = old.for
        /\ abandons = FALSE /\ r.step \in {"running", "ended"} => r.read = r.for
    BY <1>0, <2>1 DEF ThreadSteps
  <2> QED BY <2>1, <2>2, NativeMoves
<1> QED BY <1>1, <1>2, <1>3, <1>4

(* The object.                                                             *)
LEMMA ThreadsAreNamed == PartsAssumption => None \notin Threads
BY DEF PartsAssumption, Lifetime!StartsAssumption

LEMMA Creates ==
    ASSUME PartsAssumption, LifetimeInv, Lifetime!Create \/ Lifetime!CreateReturns \/ Lifetime!Join
    PROVE  LifetimeInv'
<1> USE DEF LifetimeInv, LifetimeTypes, TokenIsKept, WorksDiffer, WorkIsHeld
<1>1. CASE Lifetime!Create
  BY <1>1 DEF Lifetime!Create
<1>2. CASE Lifetime!CreateReturns
  BY <1>2 DEF Lifetime!CreateReturns
<1>3. CASE Lifetime!Join
  BY <1>3 DEF Lifetime!Join
<1> QED BY <1>1, <1>2, <1>3

LEMMA CreatesNative ==
    ASSUME PartsAssumption, LifetimeInv, Lifetime!CreateNative
    PROVE  LifetimeInv'
<1>0. None \notin Threads
  BY ThreadsAreNamed
<1>1. /\ isValid = FALSE /\ token = None /\ entry # 0 /\ UNCHANGED <<starts, joining, joined, abandons>>
      /\ \/ \E n \in Threads :
              /\ running[n].step = "none"
              /\ running' = [running EXCEPT ![n] = [Lifetime!Unused EXCEPT !.step = "shim", !.for = entry]]
              /\ token' = n /\ UNCHANGED <<isValid, entry>>
         \/ token' = None /\ isValid' = FALSE /\ entry' = 0 /\ UNCHANGED running
  BY DEF Lifetime!CreateNative, Lifetime!Clear
<1> USE DEF LifetimeInv, LifetimeTypes, TokenIsKept, WorksDiffer, WorkIsHeld
<1>2. CASE token' = None /\ isValid' = FALSE /\ entry' = 0 /\ UNCHANGED running
  <2>1. LifetimeTypes'
    BY <1>1, <1>2
  <2>2. TokenIsKept'
    BY <1>1, <1>2
  <2>3. WorksDiffer'
    BY <1>1, <1>2
  <2>4. abandons' = FALSE => WorkIsHeld'
    BY <1>0, <1>1, <1>2
  <2> QED BY <2>1, <2>2, <2>3, <2>4
<1>3. ASSUME NEW n \in Threads, running[n].step = "none",
             running' = [running EXCEPT ![n] = [Lifetime!Unused EXCEPT !.step = "shim", !.for = entry]],
             token' = n, UNCHANGED <<isValid, entry>>
      PROVE  LifetimeInv'
  <2> DEFINE r == [Lifetime!Unused EXCEPT !.step = "shim", !.for = entry]
  <2>1. /\ r \in [step : ThreadSteps, read : Nat, for : Nat, self : BOOLEAN]
        /\ r.step = "shim" /\ r.for = entry
    BY DEF Lifetime!Unused, ThreadSteps
  <2> HIDE DEF r
  <2>2. running'[n] = r /\ \A m \in Threads : m # n => running'[m] = running[m]
    BY <1>3 DEF r
  <2>3. running'[n].step = "shim" /\ running'[n].for = entry /\ \A m \in Threads : m # n => running'[m] = running[m]
    BY <2>1, <2>2
  <2>4. LifetimeTypes'
    <3>1. running' = [running EXCEPT ![n] = r]
      BY <1>3 DEF r
    <3>2. running' \in [Threads -> [step : ThreadSteps, read : Nat, for : Nat, self : BOOLEAN]]
      BY <2>1, <3>1
    <3> QED BY <1>1, <1>3, <3>2
  <2>5. TokenIsKept'
    BY <1>0, <1>1, <1>3, <2>3
  <2>6. WorksDiffer'
    BY <1>0, <1>1, <1>3, <2>3
  <2>7. abandons' = FALSE => WorkIsHeld'
    BY <1>0, <1>1, <1>3, <2>3
  <2> QED BY <2>4, <2>5, <2>6, <2>7
<1> QED BY <1>1, <1>2, <1>3

(* A join that succeeds finds its thread ended, and gives up its work; one *)
(* that fails, or the end of a handle, leaves the thread as it is.         *)
LEMMA Ends ==
    ASSUME PartsAssumption, LifetimeInv, Lifetime!JoinReturns \/ Lifetime!CloseHandle
    PROVE  LifetimeInv'
<1>0. None \notin Threads
  BY ThreadsAreNamed
<1>1. CASE /\ joining /\ joining' = FALSE
           /\ UNCHANGED <<token, isValid, entry, running, joined, starts, abandons>>
  BY <1>1 DEF LifetimeInv, LifetimeTypes, TokenIsKept, WorksDiffer, WorkIsHeld
<1>2. CASE /\ joining /\ running[token].step = "ended" /\ token' = None /\ isValid' = FALSE /\ entry' = 0
           /\ joined' = joined \cup {running[token].for}
           /\ running' = [running EXCEPT ![token] = Lifetime!Unused]
           /\ joining' = FALSE /\ UNCHANGED <<starts, abandons>>
  <2> DEFINE r == [step |-> "none", read |-> 0, for |-> 0, self |-> FALSE]
  <2>1. token \in Threads
    BY <1>2 DEF LifetimeInv, LifetimeTypes, TokenIsKept
  <2>2. running' = [running EXCEPT ![token] = r]
    BY <1>2 DEF Lifetime!Unused
  <2>3. running \in [Threads -> [step : ThreadSteps, read : Nat, for : Nat, self : BOOLEAN]]
    BY DEF LifetimeInv, LifetimeTypes
  <2>4. running'[token] = r /\ \A m \in Threads : m # token => running'[m] = running[m]
    BY <2>1, <2>2, <2>3
  <2>5. LifetimeTypes'
    <3>1. r \in [step : ThreadSteps, read : Nat, for : Nat, self : BOOLEAN]
      BY DEF ThreadSteps
    <3>2. running' \in [Threads -> [step : ThreadSteps, read : Nat, for : Nat, self : BOOLEAN]]
      BY <2>2, <2>3, <3>1
    <3> QED BY <1>2, <3>2 DEF LifetimeInv, LifetimeTypes
  <2>6. TokenIsKept'
    BY <1>2 DEF TokenIsKept
  <2>7. WorksDiffer'
    <3>1. running[token].for \in (1 .. starts) \ joined
      BY <1>2, <2>1 DEF LifetimeInv, WorksDiffer
    <3>2. ASSUME NEW n \in Threads, n # token, running[n].step # "none"
          PROVE  running[n].for # running[token].for
      BY <3>1, <3>2, <2>1, <2>3 DEF LifetimeInv, LifetimeTypes, WorksDiffer
    <3>3. \A n \in Threads :
            IF running'[n].step = "none" THEN running'[n].for = 0
            ELSE running'[n].for \in (1 .. starts) \ joined'
      BY <1>2, <2>1, <2>4, <3>1, <3>2 DEF LifetimeInv, WorksDiffer
    <3>4. \A n, m \in Threads : n # m /\ running'[n].for # 0 => running'[n].for # running'[m].for
      BY <2>1, <2>4 DEF LifetimeInv, WorksDiffer
    <3>5. entry' = 0 /\ starts' = starts /\ starts \in Nat /\ token' = None
      BY <1>2 DEF LifetimeInv, LifetimeTypes
    <3>6. joined' \subseteq 1 .. starts'
      BY <1>2, <3>1, <3>5 DEF LifetimeInv, WorksDiffer
    <3> QED BY <3>3, <3>4, <3>5, <3>6 DEF WorksDiffer
  <2>8. abandons' = FALSE => WorkIsHeld'
    BY <1>2, <2>1, <2>4 DEF LifetimeInv, WorkIsHeld
  <2> QED BY <2>5, <2>6, <2>7, <2>8 DEF LifetimeInv
<1>3. CASE Lifetime!CloseHandle
  <2>1. /\ isValid /\ ~joining /\ token' = None /\ isValid' = FALSE /\ entry' = 0
        /\ UNCHANGED <<running, starts, joining, joined, abandons>>
        /\ abandons \/ running[token].step = "ended"
    BY <1>3 DEF Lifetime!CloseHandle, Lifetime!Clear
  <2>2. LifetimeTypes'
    BY <2>1 DEF LifetimeInv, LifetimeTypes
  <2>3. TokenIsKept'
    BY <2>1 DEF LifetimeInv, TokenIsKept
  <2>4. WorksDiffer'
    <3>1. starts \in Nat /\ entry' <= starts'
      BY <2>1 DEF LifetimeInv, LifetimeTypes
    <3> QED BY <2>1, <3>1 DEF LifetimeInv, WorksDiffer
  <2>5. ASSUME abandons' = FALSE PROVE WorkIsHeld'
    <3>1. \A n \in Threads : running[n].step \notin {"shim", "call", "running"}
      BY <2>1, <2>5 DEF LifetimeInv, WorkIsHeld
    <3> QED BY <3>1, <2>1, <2>5 DEF LifetimeInv, WorkIsHeld
  <2> QED BY <2>2, <2>3, <2>4, <2>5 DEF LifetimeInv
<1> QED BY <1>1, <1>2, <1>3 DEF Lifetime!JoinReturns, Lifetime!Clear

LEMMA LifetimeStep ==
    ASSUME PartsAssumption, LifetimeInv, Lifetime!LifetimeNext
    PROVE  LifetimeInv'
BY Creates, CreatesNative, Ends, NativesNext DEF Lifetime!LifetimeNext

LEMMA LifetimeStarts ==
    ASSUME PartsAssumption, Lifetime!LifetimeInit
    PROVE  LifetimeInv
<1>1. /\ token = None /\ isValid = FALSE /\ entry = 0 /\ starts = 0 /\ joining = FALSE /\ joined = {}
      /\ abandons \in BOOLEAN
      /\ running = [n \in Threads |-> [step |-> "none", read |-> 0, for |-> 0, self |-> FALSE]]
  BY DEF Lifetime!LifetimeInit, Lifetime!Unused
<1>2. \A n \in Threads : running[n].step = "none" /\ running[n].for = 0
  BY <1>1
<1>3. LifetimeTypes
  BY <1>1 DEF LifetimeTypes, ThreadSteps
<1>4. TokenIsKept
  BY <1>1 DEF TokenIsKept
<1>5. WorksDiffer
  BY <1>1, <1>2 DEF WorksDiffer
<1>6. WorkIsHeld
  BY <1>2 DEF WorkIsHeld
<1> QED BY <1>3, <1>4, <1>5, <1>6 DEF LifetimeInv

LEMMA EntriesAreRun ==
    ASSUME PartsAssumption, LifetimeInv
    PROVE  Lifetime!ThreadsRunTheirEntry
<1> SUFFICES ASSUME ~abandons, NEW n \in Threads
             PROVE  /\ running[n].step \in {"running", "ended"} => running[n].read = running[n].for
                    /\ running[n].for \in joined => running[n].step = "none"
  BY DEF Lifetime!ThreadsRunTheirEntry
<1>1. WorkIsHeld /\ WorksDiffer
  BY DEF LifetimeInv
<1> QED BY <1>1 DEF WorkIsHeld, WorksDiffer
-----------------------------------------------------------------------------
(* The words of the debug service.                                         *)

LEMMA ReportTypes ==
    ASSUME IncidentsInv, NEW t \in Threads
    PROVE  /\ counter \in Nat /\ shutdown \in 0 .. 3 /\ requested \in 0 .. 3 /\ requested <= shutdown
           /\ doing \in [Threads -> Report] /\ doing[t] \in Report
           /\ doing[t].step = "exchange" => doing[t].seen <= shutdown
           /\ doing[t].incident <= counter
           /\ doing[t].step \in {"react", "claim", "install", "owner_breaks"} => doing[t].incident # 0
BY DEF IncidentsInv, IncidentTypes, RequestsGrow, IncidentsAreNumbered

(* What becomes of an idle report.                                         *)
LEMMA IdleIsReport ==
    Incidents!Idle \in Report /\ Incidents!Idle.step = "idle" /\ Incidents!Idle.incident = 0
BY DEF Incidents!Idle, Report, IncidentSteps

LEMMA ReportBecomes ==
    ASSUME NEW old \in Report, NEW s \in IncidentSteps, NEW i \in Nat, NEW x \in 0 .. 3
    PROVE  /\ [old EXCEPT !.step = s, !.incident = i, !.reason = x] \in Report
           /\ [old EXCEPT !.step = s, !.incident = i] \in Report
           /\ [old EXCEPT !.step = s, !.reason = x] \in Report
           /\ [old EXCEPT !.step = s, !.seen = x] \in Report
           /\ [old EXCEPT !.step = s] \in Report
           /\ [old EXCEPT !.seen = x] \in Report
BY DEF Report

(* A step of a reporter that has nothing to do with the context.           *)
LEMMA StepsOutside ==
    ASSUME IncidentsInv, NEW t \in Threads, NEW r \in Report,
           doing' = [doing EXCEPT ![t] = r],
           ~OwnsContext(t), r.step \notin {"install", "owner_breaks"},
           UNCHANGED <<pause, context, reader>>,
           counter' \in Nat, counter' >= counter,
           shutdown' \in 0 .. 3, shutdown' >= shutdown,
           requested' \in 0 .. 3, requested' <= shutdown',
           r.step = "exchange" => r.seen <= shutdown',
           r.incident <= counter',
           r.step \in {"react", "claim"} => r.incident # 0
    PROVE  IncidentsInv'
<1>1. /\ doing \in [Threads -> Report] /\ doing' \in [Threads -> Report]
      /\ doing'[t] = r /\ \A u \in Threads : u # t => doing'[u] = doing[u]
  BY DEF IncidentsInv, IncidentTypes
<1>2. counter \in Nat /\ shutdown \in 0 .. 3 /\ \A u \in Threads : doing[u] \in Report
  BY <1>1 DEF IncidentsInv, IncidentTypes
<1>3. IncidentTypes'
  BY <1>1 DEF IncidentsInv, IncidentTypes
<1>4. RequestsGrow'
  <2> SUFFICES ASSUME NEW u \in Threads, doing'[u].step = "exchange" PROVE doing'[u].seen <= shutdown'
    BY DEF RequestsGrow
  <2>1. CASE u = t
    BY <2>1, <1>1
  <2>2. CASE u # t
    <3>1. doing[u].seen <= shutdown /\ doing[u].seen \in 0 .. 3 /\ doing'[u] = doing[u]
      BY <2>2, <1>1, <1>2 DEF IncidentsInv, RequestsGrow, Report
    <3> QED BY <3>1, <1>2
  <2> QED BY <2>1, <2>2
<1>5. IncidentsAreNumbered'
  <2> SUFFICES ASSUME NEW u \in Threads
               PROVE  /\ doing'[u].incident <= counter'
                      /\ doing'[u].step \in {"react", "claim", "install", "owner_breaks"} => doing'[u].incident # 0
    BY DEF IncidentsAreNumbered
  <2>1. CASE u = t
    BY <2>1, <1>1
  <2>2. CASE u # t
    <3>1. doing[u].incident <= counter /\ doing[u].incident \in Nat /\ doing'[u] = doing[u]
      BY <2>2, <1>1, <1>2 DEF IncidentsInv, IncidentsAreNumbered, Report
    <3> QED BY <3>1, <1>2 DEF IncidentsInv, IncidentsAreNumbered
  <2> QED BY <2>1, <2>2
<1>6. ContextIsOwned'
  <2>1. \A u \in Threads : /\ OwnsContext(u)' <=> OwnsContext(u)
                           /\ OwnsContext(u) => doing'[u] = doing[u]
                           /\ doing'[u].step = "install" <=> doing[u].step = "install"
                           /\ doing'[u].step = "owner_breaks" <=> doing[u].step = "owner_breaks"
    BY <1>1 DEF OwnsContext
  <2> QED BY <2>1 DEF IncidentsInv, ContextIsOwned
<1>7. ReaderSeesOne'
  <2>1. 1 .. counter \subseteq 1 .. counter'
    BY <1>2
  <2> QED BY <2>1 DEF IncidentsInv, ReaderSeesOne
<1> QED BY <1>3, <1>4, <1>5, <1>6, <1>7 DEF IncidentsInv

ReportsOutside(t) ==
    \/ \E reason \in Incidents!Reasons \ {Incidents!Panicking} : Incidents!ProcessEvent(t, reason)
    \/ Incidents!Panic(t) \/ Incidents!RequestLoads(t) \/ Incidents!RequestEnds(t)
    \/ Incidents!RequestRetries(t) \/ Incidents!FailsFast(t) \/ Incidents!Reacts(t)

LEMMA OutsideNext ==
    ASSUME IncidentsInv, NEW t \in Threads, ReportsOutside(t)
    PROVE  IncidentsInv'
<1> DEFINE old == doing[t]
<1>0. /\ counter \in Nat /\ shutdown \in 0 .. 3 /\ requested \in 0 .. 3 /\ requested <= shutdown
      /\ doing \in [Threads -> Report] /\ old \in Report
      /\ old.step = "exchange" => old.seen <= shutdown
      /\ old.incident <= counter
      /\ old.step \in {"react", "claim", "install", "owner_breaks"} => old.incident # 0
  BY ReportTypes
<1>1. ASSUME NEW reason \in Incidents!Reasons \ {Incidents!Panicking}, Incidents!ProcessEvent(t, reason)
      PROVE  IncidentsInv'
  <2> DEFINE asks == reason # 0 /\ (reason = Incidents!Critical => "critical_shutdown" \in flags)
             r == [Incidents!Idle EXCEPT !.step = IF asks THEN "load" ELSE "react",
                                         !.incident = counter + 1, !.reason = reason]
  <2>1. /\ old.step = "idle" /\ doing' = [doing EXCEPT ![t] = r] /\ counter' = counter + 1
        /\ UNCHANGED <<shutdown, pause, context, reader, requested>>
    BY <1>1 DEF Incidents!ProcessEvent, Incidents!Does
  <2>2. r \in Report /\ r.incident = counter + 1 /\ r.step \in {"load", "react"}
    <3>1. (IF asks THEN "load" ELSE "react") \in IncidentSteps /\ counter + 1 \in Nat /\ reason \in 0 .. 3
      BY <1>0, <1>1 DEF IncidentSteps, Incidents!Reasons
    <3>2. r \in Report
      BY <3>1, IdleIsReport, ReportBecomes
    <3> QED BY <3>2, IdleIsReport DEF Report
  <2> HIDE DEF r
  <2>3. ~OwnsContext(t) /\ r.step \notin {"install", "owner_breaks"}
    BY <2>1, <2>2 DEF OwnsContext
  <2>4. /\ counter' \in Nat /\ counter' >= counter /\ r.incident <= counter'
        /\ shutdown' \in 0 .. 3 /\ shutdown' >= shutdown /\ requested' \in 0 .. 3 /\ requested' <= shutdown'
    BY <1>0, <2>1, <2>2
  <2>5. /\ r.step = "exchange" => r.seen <= shutdown'
        /\ r.step \in {"react", "claim"} => r.incident # 0
    BY <1>0, <2>1, <2>2
  <2> QED BY <2>1, <2>2, <2>3, <2>4, <2>5, StepsOutside
<1>2. CASE Incidents!Panic(t)
  <2> DEFINE r == [Incidents!Idle EXCEPT !.step = "load", !.reason = Incidents!Panicking]
  <2>1. old.step = "idle" /\ doing' = [doing EXCEPT ![t] = r] /\ UNCHANGED <<counter, shutdown, pause, context, reader, requested>>
    BY <1>2 DEF Incidents!Panic, Incidents!Does
  <2>2. r \in Report /\ r.step = "load" /\ r.incident = 0
    <3>1. "load" \in IncidentSteps /\ Incidents!Panicking \in 0 .. 3
      BY DEF IncidentSteps, Incidents!Panicking
    <3>2. r \in Report
      BY <3>1, IdleIsReport, ReportBecomes
    <3> QED BY <3>2, IdleIsReport DEF Report
  <2> HIDE DEF r
  <2>3. ~OwnsContext(t) /\ r.step \notin {"install", "owner_breaks"}
    BY <2>1, <2>2 DEF OwnsContext
  <2>4. /\ counter' \in Nat /\ counter' >= counter /\ r.incident <= counter'
        /\ shutdown' \in 0 .. 3 /\ shutdown' >= shutdown /\ requested' \in 0 .. 3 /\ requested' <= shutdown'
    BY <1>0, <2>1, <2>2
  <2>5. /\ r.step = "exchange" => r.seen <= shutdown'
        /\ r.step \in {"react", "claim"} => r.incident # 0
    BY <1>0, <2>1, <2>2
  <2> QED BY <2>1, <2>2, <2>3, <2>4, <2>5, StepsOutside
<1>3. CASE Incidents!RequestLoads(t)
  <2> DEFINE r == [old EXCEPT !.step = "exchange", !.seen = shutdown]
  <2>1. old.step = "load" /\ doing' = [doing EXCEPT ![t] = r] /\ UNCHANGED <<counter, shutdown, pause, context, reader, requested>>
    BY <1>3 DEF Incidents!RequestLoads, Incidents!Does
  <2>2. r \in Report /\ r.step = "exchange" /\ r.seen = shutdown /\ r.incident = old.incident
    BY <1>0 DEF Report, IncidentSteps
  <2> HIDE DEF r
  <2>3. ~OwnsContext(t) /\ r.step \notin {"install", "owner_breaks"}
    BY <2>1, <2>2 DEF OwnsContext
  <2>4. /\ counter' \in Nat /\ counter' >= counter /\ r.incident <= counter'
        /\ shutdown' \in 0 .. 3 /\ shutdown' >= shutdown /\ requested' \in 0 .. 3 /\ requested' <= shutdown'
    BY <1>0, <2>1, <2>2
  <2>5. /\ r.step = "exchange" => r.seen <= shutdown'
        /\ r.step \in {"react", "claim"} => r.incident # 0
    BY <1>0, <2>1, <2>2
  <2> QED BY <2>1, <2>2, <2>3, <2>4, <2>5, StepsOutside
<1>4. CASE Incidents!RequestEnds(t)
  <2> DEFINE r == [Incidents!Idle EXCEPT !.step = IF old.incident = 0 THEN "panic" ELSE "react", !.incident = old.incident]
  <2>1. /\ old.step = "exchange" /\ doing' = [doing EXCEPT ![t] = r]
        /\ requested' = IF old.reason > requested THEN old.reason ELSE requested
        /\ \/ old.seen >= old.reason /\ shutdown' = shutdown
           \/ old.seen < old.reason /\ shutdown = old.seen /\ shutdown' = old.reason
        /\ UNCHANGED <<counter, pause, context, reader>>
    BY <1>4 DEF Incidents!RequestEnds, Incidents!RequestReturns, Incidents!Does
  <2>2. r \in Report /\ r.incident = old.incident /\ r.step = IF old.incident = 0 THEN "panic" ELSE "react"
    <3>1. (IF old.incident = 0 THEN "panic" ELSE "react") \in IncidentSteps /\ old.incident \in Nat /\ 0 \in 0 .. 3
      BY <1>0 DEF IncidentSteps, Report
    <3>2. r \in Report
      BY <3>1, IdleIsReport, ReportBecomes
    <3> QED BY <3>2, IdleIsReport DEF Report
  <2>3. old.reason \in 0 .. 3 /\ old.seen \in 0 .. 3
    BY <1>0 DEF Report
  <2> HIDE DEF r
  <2>4. ~OwnsContext(t) /\ r.step \notin {"install", "owner_breaks"}
    BY <2>1, <2>2 DEF OwnsContext
  <2>5. /\ counter' \in Nat /\ counter' >= counter /\ r.incident <= counter'
        /\ shutdown' \in 0 .. 3 /\ shutdown' >= shutdown /\ requested' \in 0 .. 3 /\ requested' <= shutdown'
    BY <1>0, <2>1, <2>2, <2>3
  <2>6. r.step # "exchange" /\ (r.step \in {"react", "claim"} => r.incident # 0)
    BY <2>2
  <2> QED BY <2>1, <2>2, <2>4, <2>5, <2>6, StepsOutside
<1>5. CASE Incidents!RequestRetries(t)
  <2> DEFINE r == [old EXCEPT !.seen = shutdown]
  <2>1. old.step = "exchange" /\ doing' = [doing EXCEPT ![t] = r] /\ UNCHANGED <<counter, shutdown, pause, context, reader, requested>>
    BY <1>5 DEF Incidents!RequestRetries, Incidents!Does
  <2>2. r \in Report /\ r.step = "exchange" /\ r.seen = shutdown /\ r.incident = old.incident
    BY <1>0, <2>1 DEF Report, IncidentSteps
  <2> HIDE DEF r
  <2>3. ~OwnsContext(t) /\ r.step \notin {"install", "owner_breaks"}
    BY <2>1, <2>2 DEF OwnsContext
  <2>4. /\ counter' \in Nat /\ counter' >= counter /\ r.incident <= counter'
        /\ shutdown' \in 0 .. 3 /\ shutdown' >= shutdown /\ requested' \in 0 .. 3 /\ requested' <= shutdown'
    BY <1>0, <2>1, <2>2
  <2>5. /\ r.step = "exchange" => r.seen <= shutdown'
        /\ r.step \in {"react", "claim"} => r.incident # 0
    BY <1>0, <2>1, <2>2
  <2> QED BY <2>1, <2>2, <2>3, <2>4, <2>5, StepsOutside
<1>6. CASE Incidents!FailsFast(t)
  <2> DEFINE r == [old EXCEPT !.step = "over"]
  <2>1. /\ old.step = "panic" /\ doing' = [doing EXCEPT ![t] = r] /\ counter' = counter + 1
        /\ UNCHANGED <<shutdown, pause, context, reader, requested>>
    BY <1>6 DEF Incidents!FailsFast, Incidents!Steps, Incidents!Does
  <2>2. r \in Report /\ r.step = "over" /\ r.incident = old.incident /\ old.incident \in Nat
    BY <1>0 DEF Report, IncidentSteps
  <2> HIDE DEF r
  <2>3. ~OwnsContext(t) /\ r.step \notin {"install", "owner_breaks"}
    BY <2>1, <2>2 DEF OwnsContext
  <2>4. /\ counter' \in Nat /\ counter' >= counter /\ r.incident <= counter'
        /\ shutdown' \in 0 .. 3 /\ shutdown' >= shutdown /\ requested' \in 0 .. 3 /\ requested' <= shutdown'
    BY <1>0, <2>1, <2>2
  <2>5. /\ r.step = "exchange" => r.seen <= shutdown'
        /\ r.step \in {"react", "claim"} => r.incident # 0
    BY <1>0, <2>1, <2>2
  <2> QED BY <2>1, <2>2, <2>3, <2>4, <2>5, StepsOutside
<1>7. CASE Incidents!Reacts(t)
  <2>1. PICK r \in {Incidents!Idle, [old EXCEPT !.step = "claim"]} :
          old.step = "react" /\ doing' = [doing EXCEPT ![t] = r] /\ UNCHANGED <<counter, shutdown, pause, context, reader, requested>>
    BY <1>7 DEF Incidents!Reacts, Incidents!Steps, Incidents!Does
  <2>2. r \in Report /\ r.step \in {"idle", "claim"} /\ r.incident \in {0, old.incident} /\ (r.step = "claim" => r.incident # 0)
    BY <1>0, <2>1 DEF Incidents!Idle, Report, IncidentSteps
  <2>3. ~OwnsContext(t) /\ r.step \notin {"install", "owner_breaks"}
    BY <2>1, <2>2 DEF OwnsContext
  <2>4. /\ counter' \in Nat /\ counter' >= counter /\ r.incident <= counter'
        /\ shutdown' \in 0 .. 3 /\ shutdown' >= shutdown /\ requested' \in 0 .. 3 /\ requested' <= shutdown'
    BY <1>0, <2>1, <2>2
  <2>5. /\ r.step = "exchange" => r.seen <= shutdown'
        /\ r.step \in {"react", "claim"} => r.incident # 0
    BY <1>0, <2>1, <2>2
  <2> QED BY <2>1, <2>2, <2>3, <2>4, <2>5, StepsOutside
<1> QED BY <1>1, <1>2, <1>3, <1>4, <1>5, <1>6, <1>7 DEF ReportsOutside

(* The thread that claims, fills, shows and gives up the context.          *)
LEMMA FieldsAreTwo == Incidents!Fields = {"incident_id", "source"}
BY DEF Incidents!Fields

(* What a step in the breakpoint leaves alone.                             *)
LEMMA BreakpointFrame ==
    ASSUME IncidentsInv, NEW t \in Threads, NEW r \in Report,
           doing' = [doing EXCEPT ![t] = r],
           pause' \in {"inactive", "installing", "active"}, context' \in [Incidents!Fields -> Nat], reader' \in Reading,
           UNCHANGED <<counter, shutdown, requested>>,
           r.incident \in {0, doing[t].incident}, r.step # "exchange",
           r.step \in {"react", "claim", "install", "owner_breaks"} =>
             r.incident = doing[t].incident /\ doing[t].step \in {"react", "claim", "install", "owner_breaks"}
    PROVE  /\ IncidentTypes' /\ RequestsGrow' /\ IncidentsAreNumbered'
           /\ doing'[t] = r /\ \A u \in Threads : u # t => doing'[u] = doing[u]
<1>1. /\ doing \in [Threads -> Report] /\ doing' \in [Threads -> Report]
      /\ doing'[t] = r /\ \A u \in Threads : u # t => doing'[u] = doing[u]
  BY DEF IncidentsInv, IncidentTypes
<1>2. IncidentTypes'
  BY <1>1 DEF IncidentsInv, IncidentTypes
<1>3. RequestsGrow'
  BY <1>1 DEF IncidentsInv, RequestsGrow
<1>4. IncidentsAreNumbered'
  <2>1. counter \in Nat
    BY DEF IncidentsInv, IncidentTypes
  <2> QED BY <1>1, <2>1 DEF IncidentsInv, IncidentsAreNumbered
<1> QED BY <1>1, <1>2, <1>3, <1>4

LEMMA ClaimsNext ==
    ASSUME IncidentsInv, NEW t \in Threads, Incidents!ClaimsContext(t)
    PROVE  IncidentsInv'
<1> DEFINE old == doing[t]
<1>0. old \in Report /\ doing \in [Threads -> Report] /\ old.step = "claim"
  BY DEF IncidentsInv, IncidentTypes, Incidents!ClaimsContext, Incidents!Steps, Incidents!Does
<1>1. CASE pause = "inactive"
  <2> DEFINE r == [old EXCEPT !.step = "install", !.fields = Incidents!Fields]
  <2>1. /\ doing' = [doing EXCEPT ![t] = r] /\ pause' = "installing"
        /\ reader' = [reader EXCEPT !.amid = @ \/ reader.left # {}]
        /\ UNCHANGED <<counter, shutdown, context, requested>>
    BY <1>1 DEF Incidents!ClaimsContext, Incidents!Steps, Incidents!Does
  <2>2. r \in Report /\ r.step = "install" /\ r.incident = old.incident /\ r.fields = Incidents!Fields
    BY <1>0 DEF Report, IncidentSteps
  <2>3. /\ reader' \in Reading /\ reader'.left = reader.left /\ reader'.active = reader.active
        /\ reader'.loaded = reader.loaded /\ (reader.left # {} => reader'.amid = TRUE)
    BY <2>1 DEF IncidentsInv, IncidentTypes, Reading
  <2> HIDE DEF r
  <2>4. context' \in [Incidents!Fields -> Nat]
    BY <2>1 DEF IncidentsInv, IncidentTypes
  <2>5. /\ IncidentTypes' /\ RequestsGrow' /\ IncidentsAreNumbered'
        /\ doing'[t] = r /\ \A u \in Threads : u # t => doing'[u] = doing[u]
    BY <1>0, <2>1, <2>2, <2>3, <2>4, BreakpointFrame
  <2>6. ContextIsOwned'
    <3>1. \A u \in Threads : ~OwnsContext(u)
      BY <1>1 DEF IncidentsInv, ContextIsOwned, OwnsContext
    <3>2. \A u \in Threads : OwnsContext(u)' <=> u = t
      BY <2>2, <2>5, <3>1 DEF OwnsContext
    <3> QED BY <2>1, <2>2, <2>5, <3>1, <3>2 DEF ContextIsOwned, OwnsContext
  <2>7. ReaderSeesOne'
    BY <2>1, <2>3 DEF IncidentsInv, ReaderSeesOne
  <2> QED BY <2>5, <2>6, <2>7 DEF IncidentsInv
<1>2. CASE pause # "inactive"
  <2> DEFINE r == [old EXCEPT !.step = "break"]
  <2>1. doing' = [doing EXCEPT ![t] = r] /\ UNCHANGED <<counter, shutdown, pause, context, reader, requested>>
    BY <1>2 DEF Incidents!ClaimsContext, Incidents!Steps, Incidents!Does
  <2>2. r \in Report /\ r.step = "break" /\ r.incident = old.incident
    BY <1>0 DEF Report, IncidentSteps
  <2> HIDE DEF r
  <2>3. ~OwnsContext(t) /\ counter \in Nat /\ shutdown \in 0 .. 3 /\ requested \in 0 .. 3 /\ requested <= shutdown /\ old.incident <= counter
    BY <1>0, ReportTypes DEF OwnsContext
  <2>4. /\ counter' \in Nat /\ counter' >= counter /\ r.incident <= counter'
        /\ shutdown' \in 0 .. 3 /\ shutdown' >= shutdown /\ requested' \in 0 .. 3 /\ requested' <= shutdown'
    BY <2>1, <2>2, <2>3
  <2> QED BY <2>1, <2>2, <2>3, <2>4, StepsOutside
<1> QED BY <1>1, <1>2

LEMMA StoresNext ==
    ASSUME IncidentsInv, NEW t \in Threads, NEW f \in Incidents!Fields, Incidents!StoresField(t, f)
    PROVE  IncidentsInv'
<1> DEFINE old == doing[t]
           r == [old EXCEPT !.fields = @ \ {f}]
<1>0. /\ old \in Report /\ doing \in [Threads -> Report] /\ old.step = "install" /\ old.incident \in Nat
      /\ context \in [Incidents!Fields -> Nat]
  BY DEF IncidentsInv, IncidentTypes, Report, Incidents!StoresField, Incidents!Does
<1>1. /\ doing' = [doing EXCEPT ![t] = r] /\ context' = [context EXCEPT ![f] = old.incident]
      /\ UNCHANGED <<counter, shutdown, pause, reader, requested>>
  BY DEF Incidents!StoresField, Incidents!Does
<1>2. r \in Report /\ r.step = "install" /\ r.incident = old.incident /\ r.fields = old.fields \ {f}
  BY <1>0 DEF Report
<1> HIDE DEF r
<1>3. context' \in [Incidents!Fields -> Nat] /\ reader' \in Reading /\ pause' \in {"inactive", "installing", "active"}
  BY <1>0, <1>1 DEF IncidentsInv, IncidentTypes
<1>4. /\ IncidentTypes' /\ RequestsGrow' /\ IncidentsAreNumbered'
      /\ doing'[t] = r /\ \A u \in Threads : u # t => doing'[u] = doing[u]
  BY <1>0, <1>1, <1>2, <1>3, BreakpointFrame
<1>5. OwnsContext(t) /\ pause = "installing" /\ \A u \in Threads : OwnsContext(u) => u = t
  BY <1>0 DEF IncidentsInv, ContextIsOwned, OwnsContext
<1>6. \A u \in Threads : OwnsContext(u)' <=> u = t
  BY <1>2, <1>4, <1>5 DEF OwnsContext
<1>7. \A g \in Incidents!Fields : g \notin r.fields => context'[g] = r.incident
  BY <1>0, <1>1, <1>2, <1>5 DEF IncidentsInv, ContextIsOwned
<1>8. ContextIsOwned'
  BY <1>1, <1>2, <1>4, <1>5, <1>6, <1>7 DEF ContextIsOwned, OwnsContext
<1>9. ReaderSeesOne'
  BY <1>1, <1>5 DEF IncidentsInv, ReaderSeesOne
<1> QED BY <1>4, <1>8, <1>9 DEF IncidentsInv

LEMMA ActivatesNext ==
    ASSUME IncidentsInv, NEW t \in Threads, Incidents!Activates(t)
    PROVE  IncidentsInv'
<1> DEFINE old == doing[t]
           r == [old EXCEPT !.step = "owner_breaks"]
<1>0. /\ old \in Report /\ doing \in [Threads -> Report] /\ old.step = "install" /\ old.fields = {}
  BY DEF IncidentsInv, IncidentTypes, Incidents!Activates, Incidents!Steps, Incidents!Does
<1>1. /\ doing' = [doing EXCEPT ![t] = r] /\ pause' = "active"
      /\ UNCHANGED <<counter, shutdown, context, reader, requested>>
  BY DEF Incidents!Activates, Incidents!Steps, Incidents!Does
<1>2. r \in Report /\ r.step = "owner_breaks" /\ r.incident = old.incident
  BY <1>0 DEF Report, IncidentSteps
<1> HIDE DEF r
<1>3. context' \in [Incidents!Fields -> Nat] /\ reader' \in Reading
  BY <1>0, <1>1 DEF IncidentsInv, IncidentTypes
<1>4. /\ IncidentTypes' /\ RequestsGrow' /\ IncidentsAreNumbered'
      /\ doing'[t] = r /\ \A u \in Threads : u # t => doing'[u] = doing[u]
  BY <1>0, <1>1, <1>2, <1>3, BreakpointFrame
<1>5. OwnsContext(t) /\ pause = "installing" /\ \A u \in Threads : OwnsContext(u) => u = t
  BY <1>0 DEF IncidentsInv, ContextIsOwned, OwnsContext
<1>6. \A u \in Threads : OwnsContext(u)' <=> u = t
  BY <1>2, <1>4, <1>5 DEF OwnsContext
<1>7. \A g \in Incidents!Fields : context'[g] = r.incident
  BY <1>0, <1>1, <1>2, <1>5 DEF IncidentsInv, ContextIsOwned
<1>8. ContextIsOwned'
  BY <1>1, <1>2, <1>4, <1>5, <1>6, <1>7 DEF ContextIsOwned, OwnsContext
<1>9. ReaderSeesOne'
  BY <1>1, <1>5 DEF IncidentsInv, ReaderSeesOne
<1> QED BY <1>4, <1>8, <1>9 DEF IncidentsInv

LEMMA ResumesNext ==
    ASSUME IncidentsInv, NEW t \in Threads, Incidents!Resumes(t)
    PROVE  IncidentsInv'
<1> DEFINE old == doing[t]
<1>0. /\ doing' = [doing EXCEPT ![t] = Incidents!Idle]
      /\ \/ old.step = "owner_breaks" /\ pause' = "inactive"
         \/ old.step = "break" /\ pause' = pause
      /\ UNCHANGED <<counter, shutdown, context, reader, requested>>
  BY DEF Incidents!Resumes, Incidents!Does
<1>1. Incidents!Idle \in Report /\ Incidents!Idle.step = "idle" /\ Incidents!Idle.incident = 0
  BY IdleIsReport
<1>2. CASE old.step = "owner_breaks" /\ pause' = "inactive"
  <2>1. context' \in [Incidents!Fields -> Nat] /\ reader' \in Reading
    BY <1>0 DEF IncidentsInv, IncidentTypes
  <2>2. /\ IncidentTypes' /\ RequestsGrow' /\ IncidentsAreNumbered'
        /\ doing'[t] = Incidents!Idle /\ \A u \in Threads : u # t => doing'[u] = doing[u]
    BY <1>0, <1>1, <1>2, <2>1, BreakpointFrame
  <2>3. \A u \in Threads : OwnsContext(u) => u = t
    BY <1>2 DEF IncidentsInv, ContextIsOwned, OwnsContext
  <2>4. \A u \in Threads : doing'[u].step \notin {"install", "owner_breaks"}
    BY <1>1, <2>2, <2>3 DEF OwnsContext
  <2>5. ContextIsOwned'
    BY <1>2, <2>4 DEF ContextIsOwned, OwnsContext
  <2>6. ReaderSeesOne'
    BY <1>0, <1>2 DEF IncidentsInv, ReaderSeesOne
  <2> QED BY <2>2, <2>5, <2>6 DEF IncidentsInv
<1>3. CASE old.step = "break" /\ pause' = pause
  <2>1. ~OwnsContext(t) /\ counter \in Nat /\ shutdown \in 0 .. 3 /\ requested \in 0 .. 3 /\ requested <= shutdown
    BY <1>3, ReportTypes DEF OwnsContext
  <2>2. /\ counter' \in Nat /\ counter' >= counter /\ Incidents!Idle.incident <= counter'
        /\ shutdown' \in 0 .. 3 /\ shutdown' >= shutdown /\ requested' \in 0 .. 3 /\ requested' <= shutdown'
    BY <1>0, <1>1, <2>1
  <2> QED BY <1>0, <1>1, <1>3, <2>1, <2>2, StepsOutside
<1> QED BY <1>0, <1>2, <1>3

(* Those who look on.                                                      *)
LEMMA LooksKeep ==
    ASSUME IncidentsInv, reader' \in Reading, ReaderSeesOne',
           UNCHANGED <<counter, shutdown, pause, context, doing, requested>>
    PROVE  IncidentsInv'
BY DEF IncidentsInv, IncidentTypes, RequestsGrow, IncidentsAreNumbered, ContextIsOwned, OwnsContext

LEMMA ReadBeginsNext ==
    ASSUME IncidentsInv, Incidents!ReadBegins
    PROVE  IncidentsInv'
<1>1. /\ pause = "active" /\ reader' = [Incidents!NoReader EXCEPT !.left = Incidents!Fields \cup {"state"}]
      /\ UNCHANGED <<counter, shutdown, pause, context, doing, requested>>
  BY DEF Incidents!ReadBegins
<1>2. Incidents!NoReader \in Reading
  BY DEF Incidents!NoReader, Reading
<1>3. reader' \in Reading /\ reader'.left = Incidents!Fields \cup {"state"}
  BY <1>1, <1>2 DEF Reading
<1>4. PICK t \in Threads : OwnsContext(t)
  BY <1>1 DEF IncidentsInv, ContextIsOwned
<1>5. doing[t].step = "owner_breaks" /\ \A f \in Incidents!Fields : context[f] = doing[t].incident
  BY <1>1, <1>4 DEF IncidentsInv, ContextIsOwned, OwnsContext
<1>6. doing[t].incident \in 1 .. counter
  <2>1. doing[t].incident \in Nat /\ doing[t].incident <= counter /\ doing[t].incident # 0 /\ counter \in Nat
    BY <1>5, ReportTypes DEF Report
  <2> QED BY <2>1
<1>7. ReaderSeesOne'
  BY <1>1, <1>3, <1>5, <1>6 DEF ReaderSeesOne
<1> QED BY <1>1, <1>3, <1>7, LooksKeep

LEMMA ReadLoadsNext ==
    ASSUME IncidentsInv, NEW x \in Incidents!Fields \cup {"state"}, Incidents!ReadLoads(x)
    PROVE  IncidentsInv'
<1> DEFINE loads == IF x = "state"
                    THEN [reader EXCEPT !.left = @ \ {x}, !.active = pause = "active"]
                    ELSE [reader EXCEPT !.left = @ \ {x}, !.loaded[x] = context[x]]
           last == loads.left = {} /\ (~loads.active \/ loads.amid)
<1>1. /\ x \in reader.left
      /\ reader' = IF last THEN Incidents!NoReader ELSE loads
      /\ UNCHANGED <<counter, shutdown, pause, context, doing, requested>>
  BY DEF Incidents!ReadLoads
<1>2. reader \in Reading /\ context \in [Incidents!Fields -> Nat]
  BY DEF IncidentsInv, IncidentTypes
<1>3. "state" \notin Incidents!Fields
  BY FieldsAreTwo
<1>4. /\ loads \in Reading
      /\ loads.left = reader.left \ {x} /\ loads.amid = reader.amid
      /\ \A f \in Incidents!Fields : loads.loaded[f] = IF f = x THEN context[f] ELSE reader.loaded[f]
  <2>1. CASE x = "state"
    BY <1>2, <1>3, <2>1 DEF Reading
  <2>2. CASE x # "state"
    <3>1. x \in Incidents!Fields /\ context[x] \in Nat /\ reader.loaded \in [Incidents!Fields -> Nat]
      BY <1>2, <2>2 DEF Reading
    <3> QED BY <1>2, <2>2, <3>1 DEF Reading
  <2> QED BY <2>1, <2>2
<1>5. /\ Incidents!NoReader \in Reading /\ Incidents!NoReader.left = {} /\ Incidents!NoReader.active = FALSE
  BY DEF Incidents!NoReader, Reading
<1> HIDE DEF loads
<1>6. reader' \in Reading
  BY <1>1, <1>4, <1>5
<1>7. ReaderSeesOne'
  <2>1. CASE last
    BY <1>1, <1>5, <2>1 DEF ReaderSeesOne
  <2>2. CASE ~last
    <3>1. reader' = loads /\ reader.left # {}
      BY <1>1, <2>2
    <3>2. ASSUME reader.amid = FALSE
          PROVE  /\ pause # "installing"
                 /\ \E i \in 1 .. counter : \A f \in Incidents!Fields :
                      context[f] = i /\ (f \notin loads.left => loads.loaded[f] = i)
      BY <1>4, <3>1, <3>2 DEF IncidentsInv, ReaderSeesOne
    <3>3. loads.left = {} /\ loads.active = TRUE => reader.amid = FALSE
      BY <1>2, <1>4, <2>2 DEF Reading
    <3>4. ASSUME reader'.left # {}, reader'.amid = FALSE
          PROVE  /\ pause' # "installing"
                 /\ \E i \in 1 .. counter' : \A f \in Incidents!Fields :
                      context'[f] = i /\ (f \notin reader'.left => reader'.loaded[f] = i)
      <4>1. loads.amid = FALSE /\ reader.amid = FALSE
        BY <3>1, <3>4, <1>4
      <4> QED BY <1>1, <3>1, <3>2, <4>1
    <3>5. ASSUME reader'.left = {}, reader'.active = TRUE
          PROVE  \E i \in 1 .. counter' : \A f \in Incidents!Fields : reader'.loaded[f] = i
      <4>1. loads.left = {} /\ reader.amid = FALSE
        BY <3>1, <3>3, <3>5
      <4>2. \E i \in 1 .. counter : \A f \in Incidents!Fields : loads.loaded[f] = i
        BY <3>2, <4>1
      <4> QED BY <1>1, <3>1, <4>2
    <3> QED BY <3>4, <3>5 DEF ReaderSeesOne
  <2> QED BY <2>1, <2>2
<1> QED BY <1>1, <1>6, <1>7, LooksKeep

LEMMA IncidentsStep ==
    ASSUME IncidentsInv, Incidents!IncidentsNext
    PROVE  IncidentsInv'
<1>1. ASSUME NEW new, Incidents!PublishConfiguration(new) PROVE IncidentsInv'
  BY <1>1, LooksKeep DEF Incidents!PublishConfiguration, IncidentsInv, IncidentTypes, ReaderSeesOne
<1>2. ASSUME NEW t \in Threads, ReportsOutside(t) PROVE IncidentsInv'
  BY <1>2, OutsideNext
<1>3. ASSUME NEW t \in Threads,
             \/ Incidents!ClaimsContext(t) \/ (\E f \in Incidents!Fields : Incidents!StoresField(t, f))
             \/ Incidents!Activates(t) \/ Incidents!Resumes(t)
      PROVE  IncidentsInv'
  BY <1>3, ClaimsNext, StoresNext, ActivatesNext, ResumesNext
<1>4. ASSUME \/ Incidents!ReadBegins
             \/ \E x \in Incidents!Fields \cup {"state"} : Incidents!ReadLoads(x)
      PROVE  IncidentsInv'
  BY <1>4, ReadBeginsNext, ReadLoadsNext
<1> QED BY <1>1, <1>2, <1>3, <1>4 DEF Incidents!IncidentsNext, ReportsOutside

LEMMA IncidentsStart ==
    ASSUME Incidents!IncidentsInit
    PROVE  IncidentsInv
<1>1. /\ counter = 0 /\ shutdown = 0 /\ requested = 0 /\ pause = "inactive" /\ reader = Incidents!NoReader
      /\ context = [f \in Incidents!Fields |-> 0] /\ doing = [t \in Threads |-> Incidents!Idle]
  BY DEF Incidents!IncidentsInit
<1>2. /\ Incidents!NoReader \in Reading /\ Incidents!NoReader.left = {} /\ Incidents!NoReader.active = FALSE
  BY DEF Incidents!NoReader, Reading
<1>3. \A t \in Threads : doing[t] \in Report /\ doing[t].step = "idle" /\ doing[t].incident = 0
  BY <1>1, IdleIsReport
<1>4. IncidentTypes
  BY <1>1, <1>2, IdleIsReport DEF IncidentTypes
<1>5. RequestsGrow /\ IncidentsAreNumbered /\ ContextIsOwned /\ ReaderSeesOne
  BY <1>1, <1>2, <1>3 DEF RequestsGrow, IncidentsAreNumbered, ContextIsOwned, OwnsContext, ReaderSeesOne
<1> QED BY <1>4, <1>5 DEF IncidentsInv

LEMMA IncidentsConsistent ==
    ASSUME IncidentsInv
    PROVE  Incidents!RequestsAreKept /\ Incidents!OneOwnerOfContext /\ Incidents!ContextsAreWhole
<1>1. Incidents!RequestsAreKept
  <2>1. requested <= shutdown /\ requested \in 0 .. 3 /\ shutdown \in 0 .. 3
    BY DEF IncidentsInv, IncidentTypes, RequestsGrow
  <2> QED BY <2>1 DEF Incidents!RequestsAreKept
<1>2. Incidents!OneOwnerOfContext
  <2>1. Incidents!Owners = {t \in Threads : OwnsContext(t)}
    BY DEF Incidents!Owners, OwnsContext
  <2>2. CASE pause = "inactive"
    <3>1. Incidents!Owners = {}
      BY <2>1, <2>2 DEF IncidentsInv, ContextIsOwned, OwnsContext
    <3>2. Incidents!Cardinality(Incidents!Owners) = 0
      BY <3>1, FS_EmptySet, CardinalityIsOne
    <3> QED BY <3>2, <2>2 DEF Incidents!OneOwnerOfContext
  <2>3. CASE pause # "inactive"
    <3>1. PICK t \in Threads : OwnsContext(t)
      BY <2>3 DEF IncidentsInv, ContextIsOwned
    <3>2. Incidents!Owners = {t}
      BY <2>1, <3>1 DEF IncidentsInv, ContextIsOwned
    <3>3. Incidents!Cardinality(Incidents!Owners) = 1
      BY <3>2, FS_Singleton, CardinalityIsOne
    <3>4. pause = "active" => \A f \in Incidents!Fields : context[f] = doing[t].incident
      BY <3>1 DEF IncidentsInv, ContextIsOwned, OwnsContext
    <3> QED BY <2>3, <3>2, <3>3, <3>4 DEF Incidents!OneOwnerOfContext
  <2> QED BY <2>2, <2>3
<1>3. Incidents!ContextsAreWhole
  BY DEF IncidentsInv, ReaderSeesOne, Incidents!ContextsAreWhole
<1> QED BY <1>1, <1>2, <1>3
-----------------------------------------------------------------------------
(* The counting semaphore.                                                 *)
LEMMA TakersAreFinite ==
    ASSUME PartsAssumption
    PROVE  IsFiniteSet(Takers) /\ Cardinality(Takers) \in Nat
<1>1. Takers \subseteq Threads /\ IsFiniteSet(Threads)
  BY DEF Takers, PartsAssumption
<1> QED BY <1>1, FS_Subset, FS_CardinalityType

LEMMA SemaphoreParts ==
    PartsAssumption => Owner \notin Threads /\ Released \in Nat /\ Released > 1
BY DEF PartsAssumption, Semaphore!SemaphoreAssumption, Semaphore!SentinelAssumption

(* A step of one thread that takes no permit keeps its place among those   *)
(* who will, unless there is nothing left to take.                         *)
LEMMA ConsumerKeepsTakers ==
    ASSUME PartsAssumption, PermitsAreCounted, PermitsHaveTakers, NEW t \in Threads, NEW to,
           at' = [at EXCEPT ![t] = to], native' = native,
           \/ word' \in {0, Released}
           \/ word' = word /\ to # "asleep" /\ (at[t] \in {"load", "wait", "take"} => to \in {"load", "wait", "take"})
           \/ word # Released /\ word' = word - 1 /\ to # "asleep"
    PROVE  PermitsHaveTakers'
<1>0. /\ Owner \notin Threads /\ DOMAIN at = Threads \cup {Owner} /\ word \in Nat
      /\ Cardinality(Takers) \in Nat /\ IsFiniteSet(Takers)
  BY SemaphoreParts, TakersAreFinite DEF PermitsAreCounted
<1>1. /\ DOMAIN at' = Threads \cup {Owner} /\ at'[t] = to
      /\ \A u \in Threads \cup {Owner} : u # t => at'[u] = at[u]
  BY <1>0
<1>2. IsFiniteSet(Takers') /\ Cardinality(Takers') \in Nat
  <2>1. Takers' \subseteq Threads /\ IsFiniteSet(Threads)
    BY DEF Takers, PartsAssumption
  <2> QED BY <2>1, FS_Subset, FS_CardinalityType
<1>3. at'[Owner] = at[Owner]
  BY <1>0, <1>1
<1>4. CASE word' \in {0, Released}
  BY <1>2, <1>4 DEF PermitsHaveTakers
<1>5. ASSUME to # "asleep" PROVE Semaphore!Sleepers' \subseteq Semaphore!Sleepers
  BY <1>0, <1>1, <1>5 DEF Semaphore!Sleepers
<1>6. CASE word' = word /\ to # "asleep" /\ (at[t] \in {"load", "wait", "take"} => to \in {"load", "wait", "take"})
  <2>1. Takers \subseteq Takers'
    BY <1>1, <1>6, <1>0 DEF Takers
  <2>2. Cardinality(Takers) <= Cardinality(Takers')
    BY <2>1, <1>2, FS_Subset
  <2>3. Semaphore!Sleepers' # {} => Semaphore!Sleepers # {}
    BY <1>5, <1>6
  <2> QED BY <1>0, <1>2, <1>3, <1>6, <2>2, <2>3 DEF PermitsHaveTakers
<1>7. CASE word # Released /\ word' = word - 1 /\ to # "asleep"
  <2>1. Takers \ {t} \subseteq Takers'
    BY <1>1, <1>0 DEF Takers
  <2>2. /\ IsFiniteSet(Takers \ {t})
        /\ Cardinality(Takers \ {t}) = IF t \in Takers THEN Cardinality(Takers) - 1 ELSE Cardinality(Takers)
    BY <1>0, FS_RemoveElement
  <2>3. Cardinality(Takers \ {t}) <= Cardinality(Takers')
    BY <2>1, <1>2, FS_Subset
  <2>4. Cardinality(Takers) - 1 <= Cardinality(Takers')
    BY <2>2, <2>3, <1>0, <1>2
  <2>5. Semaphore!Sleepers' # {} => Semaphore!Sleepers # {}
    BY <1>5, <1>7
  <2> QED BY <1>0, <1>2, <1>3, <1>7, <2>4, <2>5 DEF PermitsHaveTakers
<1> QED BY <1>4, <1>6, <1>7

LEMMA ConsumerKeepsCount ==
    ASSUME PartsAssumption, PermitsAreCounted, NEW t \in Threads, NEW to, NEW v,
           at' = [at EXCEPT ![t] = to],
           DOMAIN seen' = DOMAIN seen, seen'[t] = v,
           \A u \in Threads \cup {Owner} : u # t => seen'[u] = seen[u],
           to \in {"take", "try_take"} => v \in 1 .. Released - 1,
           UNCHANGED <<native, hasControl, adding, granted>>,
           \/ word' = word /\ taken' = taken
           \/ word \in 1 .. Released - 1 /\ word' = word - 1 /\ taken' = taken + 1
    PROVE  PermitsAreCounted'
<1>0. Owner \notin Threads /\ DOMAIN at = Threads \cup {Owner} /\ DOMAIN seen = Threads \cup {Owner} /\ Released \in Nat
  BY SemaphoreParts DEF PermitsAreCounted
<1>1. /\ DOMAIN at' = Threads \cup {Owner} /\ at'[t] = to
      /\ \A u \in Threads \cup {Owner} : u # t => at'[u] = at[u]
  BY <1>0
<1>2. at'[Owner] = at[Owner] /\ seen'[Owner] = seen[Owner]
  BY <1>0, <1>1
<1>3. \A u \in Threads : at'[u] \in {"take", "try_take"} => seen'[u] \in 1 .. Released - 1
  BY <1>0, <1>1 DEF PermitsAreCounted
<1>4. /\ word' \in 0 .. Released /\ (word' # Released <=> word # Released)
      /\ taken' \in Int /\ (word' # Released => granted = word' + taken')
  BY <1>0 DEF PermitsAreCounted
<1> QED BY <1>0, <1>1, <1>2, <1>3, <1>4 DEF PermitsAreCounted

LEMMA ConsumesNext ==
    ASSUME PartsAssumption, SemaphoreInv, NEW t \in Threads, Semaphore!SemaphoreConsumes(t)
    PROVE  SemaphoreInv'
<1>0. /\ Owner \notin Threads /\ DOMAIN at = Threads \cup {Owner} /\ DOMAIN seen = Threads \cup {Owner}
      /\ Released \in Nat /\ Released > 1 /\ word \in 0 .. Released /\ PermitsAreCounted /\ PermitsHaveTakers
      /\ at[t] \in {"take", "try_take"} => seen[t] \in 1 .. Released - 1
  BY SemaphoreParts DEF SemaphoreInv, PermitsAreCounted
<1>1. CASE Semaphore!AcquireLoads(t)
  <2> DEFINE to == Semaphore!AfterSeeing(FALSE, word)
             v == Semaphore!Kept(word)
  <2>1. /\ at' = [at EXCEPT ![t] = to] /\ seen' = [seen EXCEPT ![t] = v]
        /\ UNCHANGED <<word, native, hasControl, adding, granted, taken>>
    BY <1>1 DEF Semaphore!AcquireLoads, Semaphore!Sees, Semaphore!history
  <2>2. /\ to \in {"take", "try_take"} => v \in 1 .. Released - 1
        /\ word \in {0, Released} \/ to = "take"
    BY <1>0 DEF Semaphore!AfterSeeing, Semaphore!Kept
  <2> HIDE DEF to, v
  <2>3. PermitsAreCounted'
    BY <1>0, <2>1, <2>2, ConsumerKeepsCount
  <2>4. PermitsHaveTakers'
    BY <1>0, <2>1, <2>2, ConsumerKeepsTakers
  <2> QED BY <2>3, <2>4 DEF SemaphoreInv
<1>2. CASE Semaphore!AcquireWaits(t) \/ Semaphore!AcquireReturns(t)
  <2>1. PICK to : /\ at' = [at EXCEPT ![t] = to] /\ to \in {"asleep", "load", "park", "pass"}
                  /\ UNCHANGED <<word, seen, native, hasControl, adding, granted, taken>>
                  /\ native = TRUE => to = "load" \/ (to = "asleep" /\ word = 0)
    <3> DEFINE Same == UNCHANGED <<word, seen, native, hasControl, adding, granted, taken>>
               To(x) == at' = [at EXCEPT ![t] = x]
    <3>1. CASE Semaphore!AcquireReturns(t)
      <4>1. To("load") /\ Same
        BY <3>1 DEF Semaphore!AcquireReturns, Semaphore!SpuriousReturn, Semaphore!Moves, Semaphore!history
      <4> WITNESS "load"
      <4> QED BY <4>1
    <3>2. CASE Semaphore!AcquireWaits(t) /\ native
      <4>1. To(IF word = 0 THEN "asleep" ELSE "load") /\ Same
        BY <3>2 DEF Semaphore!AcquireWaits, Semaphore!WaitWhileEqual, Semaphore!Moves, Semaphore!history
      <4>2. CASE word = 0
        BY <4>1, <4>2
      <4>3. CASE word # 0
        <5> WITNESS "load"
        <5> QED BY <4>1, <4>3
      <4> QED BY <4>2, <4>3
    <3>3. CASE Semaphore!AcquireWaits(t) /\ ~native
      <4>1. Semaphore!Park(t) /\ Same
        BY <3>3 DEF Semaphore!AcquireWaits, Semaphore!Park, Semaphore!history
      <4>2. To("load") \/ To("park") \/ To("pass")
        BY <4>1 DEF Semaphore!Park, Semaphore!ParkReads, Semaphore!ParkEnters, Semaphore!ParkLeaves, Semaphore!Moves
      <4>3. native # TRUE
        BY <3>3
      <4> QED BY <4>1, <4>2, <4>3
    <3> QED BY <1>2, <3>1, <3>2, <3>3
  <2>2. PermitsAreCounted'
    BY <1>0, <2>1, ConsumerKeepsCount
  <2>3. CASE native = TRUE
    <3>1. word' = word /\ (word' \in {0, Released} \/ to = "load")
      BY <2>1, <2>3
    <3>2. PermitsHaveTakers'
      BY <1>0, <2>1, <3>1, ConsumerKeepsTakers
    <3> QED BY <2>2, <3>2 DEF SemaphoreInv
  <2>4. CASE native # TRUE
    BY <2>1, <2>2, <2>4 DEF SemaphoreInv, PermitsHaveTakers
  <2> QED BY <2>3, <2>4
<1>3. CASE Semaphore!TryAcquireLoads(t)
  <2> DEFINE to == Semaphore!AfterSeeing(TRUE, word)
             v == Semaphore!Kept(word)
  <2>1. /\ at' = [at EXCEPT ![t] = to] /\ seen' = [seen EXCEPT ![t] = v] /\ at[t] = "idle"
        /\ UNCHANGED <<word, native, hasControl, adding, granted, taken>>
    BY <1>3 DEF Semaphore!TryAcquireLoads, Semaphore!Sees, Semaphore!history
  <2>2. /\ to \in {"take", "try_take"} => v \in 1 .. Released - 1
        /\ to \in {"idle", "try_take"}
    BY <1>0 DEF Semaphore!AfterSeeing, Semaphore!Kept
  <2> HIDE DEF to, v
  <2>3. PermitsAreCounted'
    BY <1>0, <2>1, <2>2, ConsumerKeepsCount
  <2>4. PermitsHaveTakers'
    BY <1>0, <2>1, <2>2, ConsumerKeepsTakers
  <2> QED BY <2>3, <2>4 DEF SemaphoreInv
<1>4. CASE Semaphore!TakesPermit(t)
  <2>1. at[t] \in {"take", "try_take"} /\ UNCHANGED <<native, hasControl, adding, granted>>
    BY <1>4 DEF Semaphore!TakesPermit
  <2>2. CASE /\ word = seen[t] /\ word' = word - 1 /\ taken' = taken + 1
             /\ at' = [at EXCEPT ![t] = "idle"] /\ seen' = [seen EXCEPT ![t] = 0]
    <3>1. word \in 1 .. Released - 1
      BY <1>0, <2>1, <2>2
    <3>2. PermitsAreCounted'
      BY <1>0, <2>1, <2>2, <3>1, ConsumerKeepsCount
    <3>3. PermitsHaveTakers'
      <4>1. word # Released
        BY <1>0, <3>1
      <4> QED BY <1>0, <2>1, <2>2, <4>1, ConsumerKeepsTakers
    <3> QED BY <3>2, <3>3 DEF SemaphoreInv
  <2>3. CASE /\ seen' = [seen EXCEPT ![t] = Semaphore!Kept(word)]
             /\ at' = [at EXCEPT ![t] = Semaphore!AfterSeeing(at[t] = "try_take", word)]
             /\ UNCHANGED <<word, taken>>
    <3> DEFINE to == Semaphore!AfterSeeing(at[t] = "try_take", word)
               v == Semaphore!Kept(word)
    <3>1. at' = [at EXCEPT ![t] = to] /\ seen' = [seen EXCEPT ![t] = v] /\ UNCHANGED <<word, taken>>
      BY <2>3
    <3>2. /\ to \in {"take", "try_take"} => v \in 1 .. Released - 1
          /\ word \in {0, Released} \/ to = at[t]
      BY <1>0, <2>1 DEF Semaphore!AfterSeeing, Semaphore!Kept
    <3> HIDE DEF to, v
    <3>3. PermitsAreCounted'
      BY <1>0, <2>1, <3>1, <3>2, ConsumerKeepsCount
    <3>4. PermitsHaveTakers'
      <4>1. word' \in {0, Released} \/ (word' = word /\ to # "asleep" /\ to = at[t])
        BY <2>1, <3>1, <3>2
      <4> QED BY <1>0, <2>1, <3>1, <4>1, ConsumerKeepsTakers
    <3> QED BY <3>3, <3>4 DEF SemaphoreInv
  <2> QED BY <1>4, <2>2, <2>3 DEF Semaphore!TakesPermit, Semaphore!Sees
<1> QED BY <1>1, <1>2, <1>3, <1>4 DEF Semaphore!SemaphoreConsumes

(* The controller moves no other thread but those it wakes.                *)
LEMMA ControllerMoves ==
    ASSUME PartsAssumption, SemaphoreInv, NEW to, to # "asleep", to \notin {"add", "wake_one"},
           at[Owner] \notin {"wake_one", "wake_all"}, at' = [at EXCEPT ![Owner] = to],
           \/ UNCHANGED <<word, granted, taken, hasControl>>
           \/ word' = 0 /\ granted' = 0 /\ taken' = 0 /\ hasControl' = TRUE
           \/ word' = Released /\ granted' = granted /\ taken' = taken /\ hasControl' = FALSE,
           native' = native, DOMAIN seen' = DOMAIN seen, \A u \in Threads : seen'[u] = seen[u]
    PROVE  SemaphoreInv'
<1>0. /\ Owner \notin Threads /\ DOMAIN at = Threads \cup {Owner} /\ DOMAIN seen = Threads \cup {Owner}
      /\ Released \in Nat /\ Released > 1 /\ PermitsAreCounted /\ PermitsHaveTakers
  BY SemaphoreParts DEF SemaphoreInv, PermitsAreCounted
<1>1. DOMAIN at' = Threads \cup {Owner} /\ at'[Owner] = to /\ \A u \in Threads : at'[u] = at[u]
  BY <1>0
<1>2. PermitsAreCounted'
  <2>1. word' \in 0 .. Released /\ hasControl' \in BOOLEAN /\ (hasControl' = TRUE <=> word' # Released)
    <3>1. CASE UNCHANGED <<word, hasControl>>
      BY <1>0, <3>1 DEF PermitsAreCounted
    <3>2. CASE word' = 0 /\ hasControl' = TRUE
      BY <1>0, <3>2
    <3>3. CASE word' = Released /\ hasControl' = FALSE
      <4>1. word' \in 0 .. Released
        BY <1>0, <3>3
      <4>2. hasControl' \in BOOLEAN /\ ~(hasControl' = TRUE)
        BY <3>3, Zenon
      <4> QED BY <3>3, <4>1, <4>2
    <3> QED BY <3>1, <3>2, <3>3
  <2>2. granted' \in Int /\ taken' \in Int /\ (word' # Released => granted' = word' + taken')
    BY <1>0 DEF PermitsAreCounted
  <2> QED BY <1>0, <1>1, <2>1, <2>2 DEF PermitsAreCounted
<1>3. PermitsHaveTakers'
  <2>1. Takers' = Takers /\ Semaphore!Sleepers' \subseteq Semaphore!Sleepers
    BY <1>0, <1>1 DEF Takers, Semaphore!Sleepers
  <2>2. Cardinality(Takers) \in Nat
    BY TakersAreFinite
  <2>3. CASE word' \in {0, Released}
    BY <2>1, <2>2, <2>3 DEF PermitsHaveTakers
  <2>4. CASE word' = word
    BY <1>0, <1>1, <2>1, <2>2, <2>4 DEF PermitsHaveTakers
  <2> QED BY <2>3, <2>4
<1> QED BY <1>2, <1>3 DEF SemaphoreInv

LEMMA ReleasesNext ==
    ASSUME PartsAssumption, SemaphoreInv,
           (\E n \in 1 .. 2 : Semaphore!ReleaseLoads(n)) \/ Semaphore!ReleaseAdds
    PROVE  SemaphoreInv'
<1>0. /\ Owner \notin Threads /\ DOMAIN at = Threads \cup {Owner} /\ DOMAIN seen = Threads \cup {Owner}
      /\ Released \in Nat /\ Released > 1 /\ PermitsAreCounted /\ PermitsHaveTakers
      /\ word \in 0 .. Released /\ Cardinality(Takers) \in Nat
  BY SemaphoreParts, TakersAreFinite DEF SemaphoreInv, PermitsAreCounted
<1>1. ASSUME NEW to, to # "asleep", at' = [at EXCEPT ![Owner] = to]
      PROVE  /\ DOMAIN at' = Threads \cup {Owner} /\ at'[Owner] = to /\ \A u \in Threads : at'[u] = at[u]
             /\ Takers' = Takers /\ Semaphore!Sleepers' \subseteq Semaphore!Sleepers
  <2>1. DOMAIN at' = Threads \cup {Owner} /\ at'[Owner] = to /\ \A u \in Threads : at'[u] = at[u]
    BY <1>0, <1>1
  <2> QED BY <1>0, <1>1, <2>1 DEF Takers, Semaphore!Sleepers
<1>2. ASSUME NEW v
      PROVE  LET s == [seen EXCEPT ![Owner] = v]
             IN  DOMAIN s = Threads \cup {Owner} /\ s[Owner] = v /\ \A u \in Threads : s[u] = seen[u]
  BY <1>0
<1>3. ASSUME NEW n \in 1 .. 2, Semaphore!ReleaseLoads(n) PROVE SemaphoreInv'
  <2>1. hasControl /\ UNCHANGED <<word, native, hasControl, granted, taken>>
    BY <1>3 DEF Semaphore!ReleaseLoads, Semaphore!history
  <2>2. CASE n > Released - 1 - word
    BY <1>3, <2>2, <2>1 DEF Semaphore!ReleaseLoads, Semaphore!MaxPermit, SemaphoreInv, PermitsAreCounted,
                            PermitsHaveTakers, Takers, Semaphore!Sleepers
  <2>3. CASE ~(n > Released - 1 - word)
    <3>1. /\ at[Owner] = "idle" /\ at' = [at EXCEPT ![Owner] = "add"]
          /\ seen' = [seen EXCEPT ![Owner] = word] /\ adding' = n
      BY <1>3, <2>3 DEF Semaphore!ReleaseLoads, Semaphore!MaxPermit, Semaphore!Moves, Semaphore!Sees
    <3>2. /\ DOMAIN at' = Threads \cup {Owner} /\ at'[Owner] = "add" /\ \A u \in Threads : at'[u] = at[u]
          /\ Takers' = Takers /\ Semaphore!Sleepers' \subseteq Semaphore!Sleepers
      BY <3>1, <1>1
    <3>3. DOMAIN seen' = Threads \cup {Owner} /\ seen'[Owner] = word /\ \A u \in Threads : seen'[u] = seen[u]
      BY <3>1, <1>2
    <3>4. PermitsAreCounted'
      BY <1>0, <2>1, <2>3, <3>1, <3>2, <3>3 DEF PermitsAreCounted
    <3>5. PermitsHaveTakers'
      BY <1>0, <2>1, <3>1, <3>2 DEF PermitsHaveTakers
    <3> QED BY <3>4, <3>5 DEF SemaphoreInv
  <2> QED BY <2>2, <2>3
<1>4. CASE Semaphore!ReleaseAdds
  <2>1. /\ at[Owner] = "add" /\ UNCHANGED <<native, hasControl, taken>>
        /\ hasControl = TRUE /\ adding \in 1 .. 2 /\ seen[Owner] \in Nat /\ adding <= Released - 1 - seen[Owner]
        /\ word # Released
    BY <1>4, <1>0 DEF Semaphore!ReleaseAdds, PermitsAreCounted
  <2>2. CASE word = seen[Owner]
    <3> DEFINE to == IF ~native THEN "cycle" ELSE IF adding = 1 THEN "wake_one" ELSE "wake_all"
    <3>1. /\ at' = [at EXCEPT ![Owner] = to] /\ seen' = [seen EXCEPT ![Owner] = 0]
          /\ word' = word + adding /\ granted' = granted + adding
      BY <1>4, <2>2 DEF Semaphore!ReleaseAdds, Semaphore!Sees
    <3>2. /\ DOMAIN at' = Threads \cup {Owner} /\ at'[Owner] = to /\ \A u \in Threads : at'[u] = at[u]
          /\ Takers' = Takers /\ Semaphore!Sleepers' \subseteq Semaphore!Sleepers
      <4>1. to # "asleep"
        OBVIOUS
      <4> HIDE DEF to
      <4> QED BY <3>1, <4>1, <1>1
    <3>3. DOMAIN seen' = Threads \cup {Owner} /\ \A u \in Threads : seen'[u] = seen[u]
      BY <3>1, <1>2
    <3>4. word' \in 0 .. Released - 1 /\ word' = word + adding
      BY <1>0, <2>1, <2>2, <3>1
    <3>5. granted' \in Int /\ granted' = word' + taken'
      BY <1>0, <2>1, <3>1, <3>4 DEF PermitsAreCounted
    <3>6. to # "add"
      OBVIOUS
    <3>7. PermitsAreCounted'
      BY <1>0, <2>1, <3>2, <3>3, <3>4, <3>5, <3>6 DEF PermitsAreCounted
    <3>8. PermitsHaveTakers'
      <4> SUFFICES ASSUME native' = TRUE, word' # Released, Semaphore!Sleepers' # {}
                   PROVE  CASE at'[Owner] = "wake_all" -> TRUE
                            [] at'[Owner] = "wake_one" -> word' <= Cardinality(Takers') + 1
                            [] OTHER -> word' <= Cardinality(Takers')
        BY DEF PermitsHaveTakers
      <4>1. word <= Cardinality(Takers)
        BY <1>0, <2>1, <3>2 DEF PermitsHaveTakers
      <4>2. CASE adding = 1
        <5>1. at'[Owner] = "wake_one"
          BY <2>1, <3>2, <4>2
        <5>2. word' <= Cardinality(Takers') + 1
          BY <1>0, <3>2, <3>4, <4>1, <4>2
        <5> QED BY <5>1, <5>2
      <4>3. CASE adding # 1
        <5>1. at'[Owner] = "wake_all"
          BY <2>1, <3>2, <4>3
        <5> QED BY <5>1
      <4> QED BY <4>2, <4>3
    <3> QED BY <3>7, <3>8 DEF SemaphoreInv
  <2>3. CASE word # seen[Owner] /\ adding > Released - 1 - word
    <3>1. /\ at' = [at EXCEPT ![Owner] = "idle"] /\ seen' = [seen EXCEPT ![Owner] = 0]
          /\ UNCHANGED <<word, granted>>
      BY <1>4, <2>3 DEF Semaphore!ReleaseAdds, Semaphore!MaxPermit, Semaphore!Moves, Semaphore!Sees
    <3>2. DOMAIN seen' = DOMAIN seen /\ \A u \in Threads : seen'[u] = seen[u]
      BY <1>0, <3>1, <1>2
    <3> QED BY <2>1, <3>1, <3>2, ControllerMoves
  <2>4. CASE word # seen[Owner] /\ ~(adding > Released - 1 - word)
    <3>1. seen' = [seen EXCEPT ![Owner] = word] /\ UNCHANGED <<word, granted, at, adding>>
      BY <1>4, <2>4 DEF Semaphore!ReleaseAdds, Semaphore!MaxPermit, Semaphore!Sees
    <3>2. DOMAIN seen' = Threads \cup {Owner} /\ seen'[Owner] = word /\ \A u \in Threads : seen'[u] = seen[u]
      BY <3>1, <1>2
    <3>3. PermitsAreCounted'
      BY <1>0, <2>1, <2>4, <3>1, <3>2 DEF PermitsAreCounted
    <3>4. PermitsHaveTakers'
      BY <1>0, <2>1, <3>1 DEF PermitsHaveTakers, Takers, Semaphore!Sleepers
    <3> QED BY <3>3, <3>4 DEF SemaphoreInv
  <2> QED BY <2>2, <2>3, <2>4
<1> QED BY <1>3, <1>4

LEMMA ReleaseWakesNext ==
    ASSUME PartsAssumption, SemaphoreInv, Semaphore!ReleaseWakes
    PROVE  SemaphoreInv'
<1>0. /\ Owner \notin Threads /\ DOMAIN at = Threads \cup {Owner}
      /\ PermitsAreCounted /\ PermitsHaveTakers /\ word \in 0 .. Released /\ Released \in Nat
      /\ Cardinality(Takers) \in Nat /\ IsFiniteSet(Takers)
      /\ UNCHANGED <<word, seen, native, hasControl, adding, granted, taken>>
  BY SemaphoreParts, TakersAreFinite DEF SemaphoreInv, PermitsAreCounted, Semaphore!ReleaseWakes, Semaphore!history
<1>1. ASSUME DOMAIN at' = Threads \cup {Owner}, at'[Owner] = "idle",
             \A u \in Threads : at'[u] = at[u] \/ at'[u] = "load"
      PROVE  PermitsAreCounted'
  BY <1>0, <1>1 DEF PermitsAreCounted
<1>2. CASE Semaphore!WakeOneFrom(Owner, "wake_one", "idle")
  <2>1. CASE Semaphore!Sleepers = {}
    <3>1. at[Owner] = "wake_one" /\ at' = [at EXCEPT ![Owner] = "idle"]
      BY <1>2, <2>1 DEF Semaphore!WakeOneFrom
    <3>2. DOMAIN at' = Threads \cup {Owner} /\ at'[Owner] = "idle" /\ \A u \in Threads : at'[u] = at[u]
      BY <1>0, <3>1
    <3>3. Semaphore!Sleepers' = {}
      BY <1>0, <2>1, <3>2 DEF Semaphore!Sleepers
    <3> QED BY <1>1, <3>2, <3>3 DEF SemaphoreInv, PermitsHaveTakers
  <2>2. CASE Semaphore!Sleepers # {}
    <3>1. PICK s \in Semaphore!Sleepers : at' = [at EXCEPT ![Owner] = "idle", ![s] = "load"]
      BY <1>2, <2>2 DEF Semaphore!WakeOneFrom
    <3>2. at[Owner] = "wake_one" /\ s \in Threads /\ at[s] = "asleep"
      BY <1>0, <1>2 DEF Semaphore!WakeOneFrom, Semaphore!Sleepers
    <3>3. /\ DOMAIN at' = Threads \cup {Owner} /\ at'[Owner] = "idle" /\ at'[s] = "load"
          /\ \A u \in Threads : u # s => at'[u] = at[u]
      BY <1>0, <3>1, <3>2
    <3>4. Takers' = Takers \cup {s} /\ s \notin Takers
      BY <3>2, <3>3 DEF Takers
    <3>5. Cardinality(Takers') = Cardinality(Takers) + 1
      BY <1>0, <3>4, FS_AddElement
    <3>6. PermitsHaveTakers'
      <4> SUFFICES ASSUME native = TRUE, word # Released
                   PROVE  word <= Cardinality(Takers')
        BY <1>0, <3>3 DEF PermitsHaveTakers
      <4>1. word <= Cardinality(Takers) + 1
        BY <1>0, <2>2, <3>2 DEF PermitsHaveTakers
      <4> QED BY <4>1, <3>5
    <3>7. PermitsAreCounted'
      BY <1>1, <3>3
    <3> QED BY <3>6, <3>7 DEF SemaphoreInv
  <2> QED BY <2>1, <2>2
<1>3. CASE Semaphore!WakeAllFrom(Owner, "wake_all", "idle")
  <2>1. at' = [s \in DOMAIN at |-> IF s = Owner THEN "idle" ELSE IF s \in Semaphore!Sleepers THEN "load" ELSE at[s]]
    BY <1>3 DEF Semaphore!WakeAllFrom
  <2>2. /\ DOMAIN at' = Threads \cup {Owner} /\ at'[Owner] = "idle"
        /\ \A u \in Threads : at'[u] = IF u \in Semaphore!Sleepers THEN "load" ELSE at[u]
    BY <1>0, <2>1
  <2>3. Semaphore!Sleepers' = {}
    BY <1>0, <2>2 DEF Semaphore!Sleepers
  <2> QED BY <1>1, <2>2, <2>3 DEF SemaphoreInv, PermitsHaveTakers
<1> QED BY <1>2, <1>3 DEF Semaphore!ReleaseWakes

LEMMA ControlsNext ==
    ASSUME PartsAssumption, SemaphoreInv, Semaphore!SemaphoreControls
    PROVE  SemaphoreInv'
<1> DEFINE To(x) == at' = [at EXCEPT ![Owner] = x]
           From(x) == at[Owner] = x
<1>1. CASE Semaphore!SemaphoreAcquireControl \/ Semaphore!ClosesGate \/ Semaphore!OpensGate \/ Semaphore!ReleaseCycles
  <2>1. UNCHANGED <<word, seen, native, hasControl, granted, taken>>
    BY <1>1 DEF Semaphore!SemaphoreAcquireControl, Semaphore!ClosesGate, Semaphore!OpensGate, Semaphore!ReleaseCycles,
                Semaphore!history
  <2>2. \/ To("open") \/ To("close") \/ To("generation") \/ To("reopen") \/ To("idle") \/ To("switch")
        \/ To("reopen_phase")
    BY <1>1 DEF Semaphore!SemaphoreAcquireControl, Semaphore!ClosesGate, Semaphore!OpensGate, Semaphore!ReleaseCycles,
                Semaphore!CloseGate, Semaphore!StartGeneration, Semaphore!EndGeneration, Semaphore!OpenGate,
                Semaphore!CloseOpenPhase, Semaphore!SwitchPhase, Semaphore!Moves
  <2>3. at[Owner] \notin {"wake_one", "wake_all"}
    BY <1>1 DEF Semaphore!SemaphoreAcquireControl, Semaphore!ClosesGate, Semaphore!OpensGate, Semaphore!ReleaseCycles,
                Semaphore!CloseGate, Semaphore!StartGeneration, Semaphore!EndGeneration, Semaphore!OpenGate,
                Semaphore!CloseOpenPhase, Semaphore!SwitchPhase, Semaphore!Moves
  <2>4. PICK to : to # "asleep" /\ to \notin {"add", "wake_one"} /\ To(to)
    BY <2>2
  <2> QED BY <2>1, <2>3, <2>4, ControllerMoves
<1>2. CASE Semaphore!SemaphoreOpens
  <2>1. /\ From("open") /\ To("idle") /\ UNCHANGED <<seen, native>>
        /\ word' = 0 /\ granted' = 0 /\ taken' = 0 /\ hasControl' = TRUE
    BY <1>2 DEF Semaphore!SemaphoreOpens, Semaphore!Moves
  <2> QED BY <2>1, ControllerMoves
<1>3. CASE Semaphore!SemaphoreReleaseControl
  <2> DEFINE to == IF native THEN "wake_all" ELSE "uncontrol"
  <2>1. /\ From("idle") /\ To(to) /\ UNCHANGED <<seen, native>>
        /\ word' = Released /\ granted' = granted /\ taken' = taken /\ hasControl' = FALSE
    BY <1>3 DEF Semaphore!SemaphoreReleaseControl, Semaphore!Moves, Semaphore!history
  <2>2. to # "asleep" /\ to \notin {"add", "wake_one"}
    OBVIOUS
  <2> HIDE DEF to
  <2> QED BY <2>1, <2>2, ControllerMoves
<1> QED BY <1>1, <1>2, <1>3, ReleasesNext, ReleaseWakesNext DEF Semaphore!SemaphoreControls

LEMMA SemaphoreStep ==
    ASSUME PartsAssumption, SemaphoreInv, Semaphore!SemaphoreNext
    PROVE  SemaphoreInv'
BY ConsumesNext, ControlsNext DEF Semaphore!SemaphoreNext

LEMMA SemaphoreStarts ==
    ASSUME PartsAssumption, Semaphore!SemaphoreInit
    PROVE  SemaphoreInv
<1>1. /\ native \in BOOLEAN /\ word = Released /\ hasControl = FALSE /\ granted = 0 /\ taken = 0
      /\ at = [t \in Threads \cup {Owner} |-> "idle"] /\ seen = [t \in Threads \cup {Owner} |-> 0]
  BY DEF Semaphore!SemaphoreInit, Semaphore!Caller
<1>2. PermitsAreCounted
  <2>1. Owner \notin Threads /\ Released \in Nat /\ Released > 1
    BY SemaphoreParts
  <2>2. \A t \in Threads \cup {Owner} : at[t] = "idle"
    BY <1>1
  <2>3. hasControl \in BOOLEAN /\ native \in BOOLEAN /\ (hasControl = TRUE <=> word # Released)
    <3>1. ~(hasControl = TRUE)
      BY <1>1, Zenon
    <3> QED BY <1>1, <3>1
  <2>4. DOMAIN at = Threads \cup {Owner} /\ DOMAIN seen = Threads \cup {Owner}
    BY <1>1
  <2> QED BY <1>1, <2>1, <2>2, <2>3, <2>4 DEF PermitsAreCounted
<1>3. PermitsHaveTakers
  BY <1>1 DEF PermitsHaveTakers
<1> QED BY <1>2, <1>3 DEF SemaphoreInv

LEMMA PermitsKept ==
    ASSUME PartsAssumption, SemaphoreInv
    PROVE  Semaphore!PermitsAreConserved /\ Semaphore!NoStrandedPermit
<1>0. PermitsAreCounted /\ PermitsHaveTakers /\ Released \in Nat
  BY SemaphoreParts DEF SemaphoreInv
<1>1. Semaphore!PermitsAreConserved
  <2>1. word # Released => granted = word + taken
    BY <1>0 DEF PermitsAreCounted
  <2>2. ASSUME hasControl PROVE word # Released /\ word <= Released - 1
    <3>1. word # Released /\ word \in 0 .. Released
      BY <1>0, <2>2 DEF PermitsAreCounted
    <3> QED BY <3>1, <1>0
  <2> QED BY <2>1, <2>2 DEF Semaphore!PermitsAreConserved, Semaphore!MaxPermit
<1>2. Semaphore!NoStrandedPermit
  <2> SUFFICES ASSUME native, word # Released, at[Owner] = "idle", Semaphore!Sleepers # {}
               PROVE  word <= Semaphore!Cardinality({t \in Threads : at[t] \in {"load", "wait", "take"}})
    BY DEF Semaphore!NoStrandedPermit
  <2>1. native = TRUE
    BY <1>0 DEF PermitsAreCounted
  <2>2. word <= Cardinality(Takers)
    BY <1>0, <2>1 DEF PermitsHaveTakers
  <2>3. Semaphore!Cardinality(Takers) = Cardinality(Takers)
    BY CardinalityIsOne
  <2> QED BY <2>2, <2>3 DEF Takers
<1> QED BY <1>1, <1>2
-----------------------------------------------------------------------------
(* The semaphore of the platform layer.                                    *)
WordTaking == {"load", "wait", "take", "wake_one"}

LEMMA WordSemaphoreParts ==
    PartsAssumption => Released \in Nat /\ Released > 1 /\ IsFiniteSet(Users)
<1> SUFFICES ASSUME PartsAssumption PROVE Released \in Nat /\ Released > 1 /\ IsFiniteSet(Users)
  OBVIOUS
<1>1. Released \in Nat /\ Released > 1 /\ IsFiniteSet(Threads)
  BY DEF PartsAssumption, Semaphore!SentinelAssumption
<1>2. IsFiniteSet(Threads \cup {Owner})
  BY <1>1, FS_AddElement
<1> QED BY <1>1, <1>2 DEF Users

LEMMA WordTakersAreFinite ==
    ASSUME PartsAssumption
    PROVE  IsFiniteSet(WordTakers) /\ Cardinality(WordTakers) \in Nat
<1>1. WordTakers \subseteq Users /\ IsFiniteSet(Users)
  BY WordSemaphoreParts DEF WordTakers
<1> QED BY <1>1, FS_Subset, FS_CardinalityType

(* What a step of one thread may do to the permits and to those who take   *)
(* them: one permit for one taker, or a wake of everyone to come.          *)
LEMMA UserKeepsTakers ==
    ASSUME PartsAssumption, WordPermitsAreCounted, WordPermitsHaveTakers, NEW t \in Users, NEW to,
           at' = [at EXCEPT ![t] = to], at[t] # "wake_all",
           \/ word' \in {0, Released}
           \/ to = "wake_all"
           \/ word' = word /\ to # "asleep" /\ (at[t] \in WordTaking => to \in WordTaking)
           \/ word # Released /\ word' = word - 1 /\ to # "asleep"
           \/ word # Released /\ word' = word + 1 /\ to = "wake_one" /\ at[t] \notin WordTaking
    PROVE  WordPermitsHaveTakers'
<1>0. /\ DOMAIN at = Users /\ word \in Nat
      /\ Cardinality(WordTakers) \in Nat /\ IsFiniteSet(WordTakers)
  BY WordTakersAreFinite, WordSemaphoreParts DEF WordPermitsAreCounted
<1>1. DOMAIN at' = Users /\ at'[t] = to /\ \A u \in Users : u # t => at'[u] = at[u]
  BY <1>0
<1>2. IsFiniteSet(WordTakers') /\ Cardinality(WordTakers') \in Nat
  <2>1. WordTakers' \subseteq Users /\ IsFiniteSet(Users)
    BY WordSemaphoreParts DEF WordTakers
  <2> QED BY <2>1, FS_Subset, FS_CardinalityType
<1>3. CASE word' \in {0, Released}
  BY <1>2, <1>3 DEF WordPermitsHaveTakers
<1>4. CASE to = "wake_all"
  BY <1>1, <1>4 DEF WordPermitsHaveTakers
<1>5. ASSUME to # "asleep" PROVE WordSemaphore!Sleepers' # {} => WordSemaphore!Sleepers # {}
  BY <1>0, <1>1, <1>5 DEF WordSemaphore!Sleepers
<1>6. ASSUME \A u \in Users : at'[u] # "wake_all" PROVE \A u \in Users : at[u] # "wake_all"
  BY <1>1, <1>6
<1>7. ASSUME word # Released, to # "asleep", WordSemaphore!Sleepers' # {}, \A u \in Users : at'[u] # "wake_all"
      PROVE  word <= Cardinality(WordTakers)
  BY <1>5, <1>6, <1>7 DEF WordPermitsHaveTakers
<1>8. CASE word' = word /\ to # "asleep" /\ (at[t] \in WordTaking => to \in WordTaking)
  <2>1. WordTakers \subseteq WordTakers'
    BY <1>1, <1>8 DEF WordTakers, WordTaking
  <2>2. Cardinality(WordTakers) <= Cardinality(WordTakers')
    BY <2>1, <1>2, FS_Subset
  <2> QED BY <1>0, <1>2, <1>7, <1>8, <2>2 DEF WordPermitsHaveTakers
<1>9. CASE word # Released /\ word' = word - 1 /\ to # "asleep"
  <2>1. WordTakers \ {t} \subseteq WordTakers'
    BY <1>1 DEF WordTakers
  <2>2. /\ IsFiniteSet(WordTakers \ {t})
        /\ Cardinality(WordTakers \ {t})
             = IF t \in WordTakers THEN Cardinality(WordTakers) - 1 ELSE Cardinality(WordTakers)
    BY <1>0, FS_RemoveElement
  <2>3. Cardinality(WordTakers \ {t}) <= Cardinality(WordTakers')
    BY <2>1, <1>2, FS_Subset
  <2>4. Cardinality(WordTakers) - 1 <= Cardinality(WordTakers')
    BY <2>2, <2>3, <1>0, <1>2
  <2> QED BY <1>0, <1>2, <1>7, <1>9, <2>4 DEF WordPermitsHaveTakers
<1>10. CASE word # Released /\ word' = word + 1 /\ to = "wake_one" /\ at[t] \notin WordTaking
  <2>1. WordTakers' = WordTakers \cup {t} /\ t \notin WordTakers
    BY <1>1, <1>10 DEF WordTakers, WordTaking
  <2>2. Cardinality(WordTakers') = Cardinality(WordTakers) + 1
    BY <2>1, <1>0, FS_AddElement
  <2> QED BY <1>0, <1>7, <1>10, <2>2 DEF WordPermitsHaveTakers
<1> QED BY <1>3, <1>4, <1>8, <1>9, <1>10

LEMMA UserKeepsCount ==
    ASSUME PartsAssumption, WordPermitsAreCounted, NEW t \in Users, NEW to, NEW v, NEW n,
           at' = [at EXCEPT ![t] = to],
           DOMAIN seen' = DOMAIN seen, seen'[t] = v, \A u \in Users : u # t => seen'[u] = seen[u],
           DOMAIN adding' = DOMAIN adding, adding'[t] = n, \A u \in Users : u # t => adding'[u] = adding[u],
           to \in {"take", "try_take"} => v \in 1 .. Released - 1,
           to = "add" => n \in 1 .. 2 /\ v \in Nat /\ n <= Released - 1 - v,
           word' \in 0 .. Released, granted' \in Int, taken' \in Int,
           word' # Released => granted' = word' + taken'
    PROVE  WordPermitsAreCounted'
<1>0. DOMAIN at = Users /\ DOMAIN seen = Users /\ DOMAIN adding = Users
  BY DEF WordPermitsAreCounted
<1>1. DOMAIN at' = Users /\ at'[t] = to /\ \A u \in Users : u # t => at'[u] = at[u]
  BY <1>0
<1>2. \A u \in Users : at'[u] \in {"take", "try_take"} => seen'[u] \in 1 .. Released - 1
  BY <1>0, <1>1 DEF WordPermitsAreCounted
<1>3. \A u \in Users : at'[u] = "add" =>
        adding'[u] \in 1 .. 2 /\ seen'[u] \in Nat /\ adding'[u] <= Released - 1 - seen'[u]
  BY <1>0, <1>1 DEF WordPermitsAreCounted
<1> QED BY <1>0, <1>1, <1>2, <1>3 DEF WordPermitsAreCounted

(* Both at once, for a step that is like that.                             *)
LEMMA UserMoves ==
    ASSUME PartsAssumption, WordSemaphoreInv, NEW t \in Users, NEW to, NEW v, NEW n,
           at' = [at EXCEPT ![t] = to], at[t] # "wake_all",
           DOMAIN seen' = DOMAIN seen, seen'[t] = v, \A u \in Users : u # t => seen'[u] = seen[u],
           DOMAIN adding' = DOMAIN adding, adding'[t] = n, \A u \in Users : u # t => adding'[u] = adding[u],
           to \in {"take", "try_take"} => v \in 1 .. Released - 1,
           to = "add" => n \in 1 .. 2 /\ v \in Nat /\ n <= Released - 1 - v,
           \/ /\ UNCHANGED <<word, granted, taken>>
              /\ word \in {0, Released} \/ (to # "asleep" /\ (at[t] \in WordTaking => to \in WordTaking))
           \/ /\ word \in 1 .. Released - 1 /\ word' = word - 1 /\ granted' = granted /\ taken' = taken + 1
              /\ to # "asleep"
           \/ /\ word' = Released /\ granted' = granted /\ taken' = taken
           \/ /\ at[t] = "add" /\ word # Released /\ \E a \in 1 .. 2 :
                   /\ word' = word + a /\ word' <= Released - 1 /\ granted' = granted + a /\ taken' = taken
                   /\ to = IF a = 1 THEN "wake_one" ELSE "wake_all"
    PROVE  WordSemaphoreInv'
<1>0. /\ Released \in Nat /\ word \in 0 .. Released /\ granted \in Int /\ taken \in Int
      /\ word # Released => granted = word + taken
      /\ WordPermitsAreCounted /\ WordPermitsHaveTakers
  BY WordSemaphoreParts DEF WordSemaphoreInv, WordPermitsAreCounted
<1>1. /\ word' \in 0 .. Released /\ granted' \in Int /\ taken' \in Int
      /\ word' # Released => granted' = word' + taken'
  BY <1>0
<1>2. WordPermitsAreCounted'
  BY <1>0, <1>1, UserKeepsCount
<1>3. \/ word' \in {0, Released}
      \/ to = "wake_all"
      \/ word' = word /\ to # "asleep" /\ (at[t] \in WordTaking => to \in WordTaking)
      \/ word # Released /\ word' = word - 1 /\ to # "asleep"
      \/ word # Released /\ word' = word + 1 /\ to = "wake_one" /\ at[t] \notin WordTaking
  BY <1>0 DEF WordTaking
<1>4. WordPermitsHaveTakers'
  BY <1>0, <1>3, UserKeepsTakers
<1> QED BY <1>2, <1>4 DEF WordSemaphoreInv

LEMMA UserFacts ==
    ASSUME PartsAssumption, WordSemaphoreInv, NEW t \in Users
    PROVE  /\ DOMAIN at = Users /\ DOMAIN seen = Users /\ DOMAIN adding = Users
           /\ Released \in Nat /\ Released > 1 /\ word \in 0 .. Released
           /\ at[t] \in {"take", "try_take"} => seen[t] \in 1 .. Released - 1
           /\ at[t] = "add" => adding[t] \in 1 .. 2 /\ seen[t] \in Nat /\ adding[t] <= Released - 1 - seen[t]
           /\ \A v : LET s == [seen EXCEPT ![t] = v]
                     IN  DOMAIN s = Users /\ s[t] = v /\ \A u \in Users : u # t => s[u] = seen[u]
           /\ \A n : LET a == [adding EXCEPT ![t] = n]
                     IN  DOMAIN a = Users /\ a[t] = n /\ \A u \in Users : u # t => a[u] = adding[u]
<1>1. DOMAIN at = Users /\ DOMAIN seen = Users /\ DOMAIN adding = Users
  BY DEF WordSemaphoreInv, WordPermitsAreCounted
<1>2. /\ Released \in Nat /\ Released > 1 /\ word \in 0 .. Released
      /\ at[t] \in {"take", "try_take"} => seen[t] \in 1 .. Released - 1
      /\ at[t] = "add" => adding[t] \in 1 .. 2 /\ seen[t] \in Nat /\ adding[t] <= Released - 1 - seen[t]
  BY WordSemaphoreParts DEF WordSemaphoreInv, WordPermitsAreCounted
<1>3. ASSUME NEW v
      PROVE  LET s == [seen EXCEPT ![t] = v]
             IN  DOMAIN s = Users /\ s[t] = v /\ \A u \in Users : u # t => s[u] = seen[u]
  BY <1>1
<1>4. ASSUME NEW n
      PROVE  LET a == [adding EXCEPT ![t] = n]
             IN  DOMAIN a = Users /\ a[t] = n /\ \A u \in Users : u # t => a[u] = adding[u]
  BY <1>1
<1> QED BY <1>1, <1>2, <1>3, <1>4

(* Loads, from either call: what the thread keeps is the word it saw.      *)
LEMMA LoadsNext ==
    ASSUME PartsAssumption, WordSemaphoreInv, NEW t \in Users, NEW next,
           WordSemaphore!Loads(t, next), UNCHANGED <<word, adding, granted, taken>>,
           at[t] # "wake_all", word = 0 => next \in {"idle", "wait"},
           word \notin {0, Released} => /\ next \in {"take", "try_take"}
                                        /\ at[t] \in WordTaking => next \in WordTaking
    PROVE  WordSemaphoreInv'
<1> DEFINE to == IF word = Released THEN "idle" ELSE next
           v == IF word = Released THEN 0 ELSE word
<1>1. at' = [at EXCEPT ![t] = to] /\ seen' = [seen EXCEPT ![t] = v]
  BY DEF WordSemaphore!Loads, WordSemaphore!Sees
<1>2. /\ Released \in Nat /\ word \in 0 .. Released
      /\ DOMAIN at = Users /\ DOMAIN seen = Users /\ DOMAIN adding = Users
  BY UserFacts
<1>3. /\ to \in {"take", "try_take"} => v \in 1 .. Released - 1
      /\ to # "add"
      /\ word \in {0, Released} \/ (to # "asleep" /\ (at[t] \in WordTaking => to \in WordTaking))
  BY <1>2 DEF WordTaking
<1> HIDE DEF to, v
<1>4. DOMAIN seen' = DOMAIN seen /\ seen'[t] = v /\ \A u \in Users : u # t => seen'[u] = seen[u]
  BY <1>1, <1>2
<1>5. DOMAIN adding' = DOMAIN adding /\ adding'[t] = adding[t] /\ \A u \in Users : u # t => adding'[u] = adding[u]
  BY <1>2
<1> QED BY <1>1, <1>3, <1>4, <1>5, UserMoves

LEMMA AcquiresNext ==
    ASSUME PartsAssumption, WordSemaphoreInv, NEW t \in Users,
           \/ WordSemaphore!AcquirePermit(t) \/ WordSemaphore!PermitSleepReturns(t)
           \/ WordSemaphore!TryAcquirePermit(t) \/ WordSemaphore!SignalShutdown(t)
    PROVE  WordSemaphoreInv'
<1>0. DOMAIN at = Users /\ DOMAIN seen = Users /\ DOMAIN adding = Users /\ Released \in Nat /\ Released > 1
  BY UserFacts
<1>1. ASSUME NEW to, at' = [at EXCEPT ![t] = to], at[t] # "wake_all", to \notin {"take", "try_take", "add"},
             UNCHANGED <<seen, adding, granted, taken>>,
             \/ word' = word /\ (word \in {0, Released} \/ (to # "asleep" /\ (at[t] \in WordTaking => to \in WordTaking)))
             \/ word' = Released
      PROVE  WordSemaphoreInv'
  <2>1. DOMAIN seen' = DOMAIN seen /\ seen'[t] = seen[t] /\ \A u \in Users : u # t => seen'[u] = seen[u]
    BY <1>1
  <2>2. DOMAIN adding' = DOMAIN adding /\ adding'[t] = adding[t] /\ \A u \in Users : u # t => adding'[u] = adding[u]
    BY <1>1
  <2> QED BY <1>1, <2>1, <2>2, UserMoves
<1>2. CASE WordSemaphore!AcquirePermit(t)
  <2>1. UNCHANGED <<word, adding, granted, taken>>
    BY <1>2 DEF WordSemaphore!AcquirePermit
  <2>2. CASE at[t] \in {"idle", "load"} /\ WordSemaphore!Loads(t, IF word = 0 THEN "wait" ELSE "take")
    <3> DEFINE next == IF word = 0 THEN "wait" ELSE "take"
    <3>1. /\ word = 0 => next \in {"idle", "wait"}
          /\ word \notin {0, Released} => /\ next \in {"take", "try_take"}
                                          /\ at[t] \in WordTaking => next \in WordTaking
      BY DEF WordTaking
    <3>2. WordSemaphore!Loads(t, next)
      BY <2>2
    <3> HIDE DEF next
    <3> QED BY <2>1, <2>2, <3>1, <3>2, LoadsNext
  <2>3. CASE WordSemaphore!WaitWhileEqual(t, 0) /\ UNCHANGED seen
    <3>1. at[t] = "wait" /\ at' = [at EXCEPT ![t] = IF word = 0 THEN "asleep" ELSE "load"]
      BY <2>3 DEF WordSemaphore!WaitWhileEqual, WordSemaphore!Moves
    <3>2. CASE word = 0
      BY <1>1, <2>1, <2>3, <3>1, <3>2
    <3>3. CASE word # 0
      BY <1>1, <2>1, <2>3, <3>1, <3>3 DEF WordTaking
    <3> QED BY <3>2, <3>3
  <2> QED BY <1>2, <2>2, <2>3 DEF WordSemaphore!AcquirePermit
<1>3. CASE WordSemaphore!PermitSleepReturns(t)
  <2>1. /\ at[t] = "asleep" /\ at' = [at EXCEPT ![t] = "load"]
        /\ UNCHANGED <<word, seen, adding, granted, taken>>
    BY <1>3 DEF WordSemaphore!PermitSleepReturns, WordSemaphore!SpuriousReturn, WordSemaphore!Moves
  <2> QED BY <1>1, <2>1 DEF WordTaking
<1>4. CASE WordSemaphore!TryAcquirePermit(t)
  <2>1. /\ at[t] = "idle" /\ word \notin {0, Released} /\ WordSemaphore!Loads(t, "try_take")
        /\ UNCHANGED <<word, adding, granted, taken>>
    BY <1>4 DEF WordSemaphore!TryAcquirePermit
  <2> QED BY <2>1, LoadsNext DEF WordTaking
<1>5. CASE WordSemaphore!SignalShutdown(t)
  <2> DEFINE to == IF word = Released THEN "idle" ELSE "wake_all"
  <2>1. /\ at[t] = "idle" /\ at' = [at EXCEPT ![t] = to] /\ word' = Released
        /\ UNCHANGED <<seen, adding, granted, taken>>
    BY <1>5 DEF WordSemaphore!SignalShutdown, WordSemaphore!Moves
  <2>2. to \notin {"take", "try_take", "add"}
    OBVIOUS
  <2> HIDE DEF to
  <2> QED BY <1>1, <2>1, <2>2
<1> QED BY <1>2, <1>3, <1>4, <1>5

LEMMA TakesNext ==
    ASSUME PartsAssumption, WordSemaphoreInv, NEW t \in Users, WordSemaphore!TakePermit(t)
    PROVE  WordSemaphoreInv'
<1>0. /\ DOMAIN at = Users /\ DOMAIN seen = Users /\ DOMAIN adding = Users
      /\ Released \in Nat /\ word \in 0 .. Released
      /\ at[t] \in {"take", "try_take"} /\ seen[t] \in 1 .. Released - 1
      /\ UNCHANGED <<adding, granted>>
  BY UserFacts DEF WordSemaphore!TakePermit
<1>1. CASE word = seen[t]
  <2>1. /\ word' = word - 1 /\ taken' = taken + 1
        /\ at' = [at EXCEPT ![t] = "idle"] /\ seen' = [seen EXCEPT ![t] = 0]
    BY <1>1 DEF WordSemaphore!TakePermit, WordSemaphore!Sees
  <2>2. DOMAIN seen' = DOMAIN seen /\ seen'[t] = 0 /\ \A u \in Users : u # t => seen'[u] = seen[u]
    BY <1>0, <2>1
  <2>3. DOMAIN adding' = DOMAIN adding /\ adding'[t] = adding[t] /\ \A u \in Users : u # t => adding'[u] = adding[u]
    BY <1>0
  <2>4. word \in 1 .. Released - 1
    BY <1>0, <1>1
  <2> QED BY <1>0, <2>1, <2>2, <2>3, <2>4, UserMoves
<1>2. CASE word # seen[t]
  <2> DEFINE next == IF word # 0 THEN at[t] ELSE IF at[t] = "take" THEN "wait" ELSE "idle"
  <2>1. WordSemaphore!Loads(t, next) /\ UNCHANGED <<word, taken>>
    BY <1>2 DEF WordSemaphore!TakePermit
  <2>2. /\ word = 0 => next \in {"idle", "wait"}
        /\ word \notin {0, Released} => /\ next \in {"take", "try_take"}
                                        /\ at[t] \in WordTaking => next \in WordTaking
    BY <1>0
  <2> HIDE DEF next
  <2> QED BY <1>0, <2>1, <2>2, LoadsNext
<1> QED BY <1>1, <1>2

LEMMA AddsNext ==
    ASSUME PartsAssumption, WordSemaphoreInv, NEW t \in Users, WordSemaphore!AddPermits(t)
    PROVE  WordSemaphoreInv'
<1>0. /\ DOMAIN at = Users /\ DOMAIN seen = Users /\ DOMAIN adding = Users
      /\ Released \in Nat /\ Released > 1 /\ word \in 0 .. Released
      /\ at[t] = "add" => adding[t] \in 1 .. 2 /\ seen[t] \in Nat /\ adding[t] <= Released - 1 - seen[t]
      /\ taken' = taken
  BY UserFacts DEF WordSemaphore!AddPermits
<1>1. ASSUME NEW v, NEW n, seen' = [seen EXCEPT ![t] = v], adding' = [adding EXCEPT ![t] = n]
      PROVE  /\ DOMAIN seen' = DOMAIN seen /\ seen'[t] = v /\ \A u \in Users : u # t => seen'[u] = seen[u]
             /\ DOMAIN adding' = DOMAIN adding /\ adding'[t] = n /\ \A u \in Users : u # t => adding'[u] = adding[u]
  BY <1>0, <1>1
<1>2. ASSUME NEW n \in 1 .. 2, at[t] = "idle", n <= Released - 1 - word, at' = [at EXCEPT ![t] = "add"],
             seen' = [seen EXCEPT ![t] = word], adding' = [adding EXCEPT ![t] = n], UNCHANGED <<word, granted>>
      PROVE  WordSemaphoreInv'
  <2>1. /\ DOMAIN seen' = DOMAIN seen /\ seen'[t] = word /\ \A u \in Users : u # t => seen'[u] = seen[u]
        /\ DOMAIN adding' = DOMAIN adding /\ adding'[t] = n /\ \A u \in Users : u # t => adding'[u] = adding[u]
    BY <1>1, <1>2
  <2>2. word \in Nat /\ at[t] # "wake_all" /\ at[t] \notin WordTaking
    BY <1>0, <1>2 DEF WordTaking
  <2> QED BY <1>0, <1>2, <2>1, <2>2, UserMoves
<1>3. CASE at[t] = "add" /\ word = seen[t]
  <2> DEFINE a == adding[t]
             to == IF a = 1 THEN "wake_one" ELSE "wake_all"
  <2>1. /\ word' = word + a /\ granted' = granted + a
        /\ at' = [at EXCEPT ![t] = to]
        /\ seen' = [seen EXCEPT ![t] = 0] /\ adding' = [adding EXCEPT ![t] = 0]
    BY <1>3 DEF WordSemaphore!AddPermits, WordSemaphore!Sees
  <2>2. a \in 1 .. 2 /\ word # Released /\ word' <= Released - 1
    BY <1>0, <1>3, <2>1
  <2>3. /\ DOMAIN seen' = DOMAIN seen /\ seen'[t] = 0 /\ \A u \in Users : u # t => seen'[u] = seen[u]
        /\ DOMAIN adding' = DOMAIN adding /\ adding'[t] = 0 /\ \A u \in Users : u # t => adding'[u] = adding[u]
    BY <1>1, <2>1
  <2>4. to \notin {"take", "try_take", "add"}
    OBVIOUS
  <2>5. \E b \in 1 .. 2 : /\ word' = word + b /\ word' <= Released - 1 /\ granted' = granted + b /\ taken' = taken
                          /\ to = IF b = 1 THEN "wake_one" ELSE "wake_all"
    BY <1>0, <2>1, <2>2
  <2> HIDE DEF a, to
  <2> QED BY <1>3, <2>1, <2>2, <2>3, <2>4, <2>5, UserMoves
<1>4. CASE /\ at[t] = "add" /\ UNCHANGED <<word, granted>>
           /\ at' = [at EXCEPT ![t] = "idle"]
           /\ seen' = [seen EXCEPT ![t] = 0] /\ adding' = [adding EXCEPT ![t] = 0]
  <2>1. /\ DOMAIN seen' = DOMAIN seen /\ seen'[t] = 0 /\ \A u \in Users : u # t => seen'[u] = seen[u]
        /\ DOMAIN adding' = DOMAIN adding /\ adding'[t] = 0 /\ \A u \in Users : u # t => adding'[u] = adding[u]
    BY <1>1, <1>4
  <2>2. at[t] # "wake_all" /\ at[t] \notin WordTaking
    BY <1>4 DEF WordTaking
  <2> QED BY <1>0, <1>4, <2>1, <2>2, UserMoves
<1>5. CASE /\ at[t] = "add" /\ word # Released /\ ~(adding[t] > Released - 1 - word)
           /\ seen' = [seen EXCEPT ![t] = word] /\ UNCHANGED <<at, adding, word, granted>>
  <2>1. DOMAIN seen' = Users /\ seen'[t] = word /\ \A u \in Users : u # t => seen'[u] = seen[u]
    BY <1>0, <1>5
  <2>2. WordPermitsAreCounted'
    BY <1>0, <1>5, <2>1 DEF WordSemaphoreInv, WordPermitsAreCounted
  <2>3. WordPermitsHaveTakers'
    BY <1>5 DEF WordSemaphoreInv, WordPermitsHaveTakers, WordTakers, WordSemaphore!Sleepers
  <2> QED BY <2>2, <2>3 DEF WordSemaphoreInv
<1> QED BY <1>2, <1>3, <1>4, <1>5 DEF WordSemaphore!AddPermits, WordSemaphore!Sees

LEMMA WakesNext ==
    ASSUME PartsAssumption, WordSemaphoreInv, NEW t \in Users, WordSemaphore!WakesForPermits(t)
    PROVE  WordSemaphoreInv'
<1>0. /\ DOMAIN at = Users /\ WordPermitsAreCounted /\ WordPermitsHaveTakers /\ word \in 0 .. Released
      /\ Cardinality(WordTakers) \in Nat /\ IsFiniteSet(WordTakers)
      /\ UNCHANGED <<word, seen, adding, granted, taken>>
  BY WordTakersAreFinite DEF WordSemaphoreInv, WordPermitsAreCounted, WordSemaphore!WakesForPermits
<1>1. ASSUME DOMAIN at' = Users, at'[t] = "idle",
             \A u \in Users \ {t} : at'[u] = at[u] \/ at'[u] = "load"
      PROVE  WordPermitsAreCounted'
  BY <1>0, <1>1 DEF WordPermitsAreCounted
<1>2. CASE WordSemaphore!WakeOneFrom(t, "wake_one", "idle")
  <2>1. CASE WordSemaphore!Sleepers = {}
    <3>1. at[t] = "wake_one" /\ at' = [at EXCEPT ![t] = "idle"]
      BY <1>2, <2>1 DEF WordSemaphore!WakeOneFrom
    <3>2. DOMAIN at' = Users /\ at'[t] = "idle" /\ \A u \in Users \ {t} : at'[u] = at[u]
      BY <1>0, <3>1
    <3>3. WordSemaphore!Sleepers' = {}
      BY <1>0, <2>1, <3>2 DEF WordSemaphore!Sleepers
    <3> QED BY <1>1, <3>2, <3>3 DEF WordSemaphoreInv, WordPermitsHaveTakers
  <2>2. CASE WordSemaphore!Sleepers # {}
    <3>1. PICK s \in WordSemaphore!Sleepers : at' = [at EXCEPT ![t] = "idle", ![s] = "load"]
      BY <1>2, <2>2 DEF WordSemaphore!WakeOneFrom
    <3>2. at[t] = "wake_one" /\ s \in Users /\ at[s] = "asleep" /\ s # t
      BY <1>0, <1>2 DEF WordSemaphore!WakeOneFrom, WordSemaphore!Sleepers
    <3>3. /\ DOMAIN at' = Users /\ at'[t] = "idle" /\ at'[s] = "load"
          /\ \A u \in Users : u # s /\ u # t => at'[u] = at[u]
      BY <1>0, <3>1, <3>2
    <3>4. WordTakers' = (WordTakers \ {t}) \cup {s} /\ s \notin WordTakers \ {t} /\ t \in WordTakers
      BY <3>2, <3>3 DEF WordTakers
    <3>5. IsFiniteSet(WordTakers \ {t}) /\ Cardinality(WordTakers \ {t}) = Cardinality(WordTakers) - 1
      BY <1>0, <3>4, FS_RemoveElement
    <3>6. Cardinality(WordTakers') = Cardinality(WordTakers)
      <4>1. Cardinality(WordTakers') = Cardinality(WordTakers \ {t}) + 1
        BY <3>4, <3>5, FS_AddElement
      <4> QED BY <1>0, <3>5, <4>1
    <3>7. WordPermitsHaveTakers'
      <4> SUFFICES ASSUME word # Released, \A u \in Users : at'[u] # "wake_all"
                   PROVE  word <= Cardinality(WordTakers')
        BY <1>0 DEF WordPermitsHaveTakers
      <4>1. \A u \in Users : at[u] # "wake_all"
        BY <3>2, <3>3
      <4> QED BY <1>0, <2>2, <3>6, <4>1 DEF WordPermitsHaveTakers
    <3>8. WordPermitsAreCounted'
      BY <1>1, <3>3
    <3> QED BY <3>7, <3>8 DEF WordSemaphoreInv
  <2> QED BY <2>1, <2>2
<1>3. CASE WordSemaphore!WakeAllFrom(t, "wake_all", "idle")
  <2>1. at' = [s \in DOMAIN at |-> IF s = t THEN "idle" ELSE IF s \in WordSemaphore!Sleepers THEN "load" ELSE at[s]]
    BY <1>3 DEF WordSemaphore!WakeAllFrom
  <2>2. /\ DOMAIN at' = Users /\ at'[t] = "idle"
        /\ \A u \in Users \ {t} : at'[u] = IF u \in WordSemaphore!Sleepers THEN "load" ELSE at[u]
    BY <1>0, <2>1
  <2>3. WordSemaphore!Sleepers' = {}
    BY <1>0, <2>2 DEF WordSemaphore!Sleepers
  <2> QED BY <1>1, <2>2, <2>3 DEF WordSemaphoreInv, WordPermitsHaveTakers
<1> QED BY <1>2, <1>3 DEF WordSemaphore!WakesForPermits

LEMMA RestartNext ==
    ASSUME PartsAssumption, WordSemaphoreInv, WordSemaphore!Restart
    PROVE  WordSemaphoreInv'
<1>1. Released \in Nat /\ Released > 1 /\ Cardinality(WordTakers) \in Nat
  BY WordSemaphoreParts, WordTakersAreFinite
<1>2. word' = 0 /\ granted' = 0 /\ taken' = 0 /\ UNCHANGED <<at, seen, adding>>
  BY DEF WordSemaphore!Restart
<1>3. WordPermitsAreCounted'
  BY <1>1, <1>2 DEF WordSemaphoreInv, WordPermitsAreCounted
<1>4. WordPermitsHaveTakers'
  <2>1. WordTakers' = WordTakers
    BY <1>2 DEF WordTakers
  <2> QED BY <1>1, <1>2, <2>1 DEF WordPermitsHaveTakers
<1> QED BY <1>3, <1>4 DEF WordSemaphoreInv

LEMMA WordSemaphoreStep ==
    ASSUME PartsAssumption, WordSemaphoreInv, WordSemaphore!WordSemaphoreNext
    PROVE  WordSemaphoreInv'
BY AcquiresNext, TakesNext, AddsNext, WakesNext, RestartNext DEF WordSemaphore!WordSemaphoreNext, Users

LEMMA WordSemaphoreStarts ==
    ASSUME PartsAssumption, WordSemaphore!WordSemaphoreInit
    PROVE  WordSemaphoreInv
<1>1. /\ word = 0 /\ granted = 0 /\ taken = 0 /\ at = [t \in Users |-> "idle"]
      /\ seen = [t \in Users |-> 0] /\ adding = [t \in Users |-> 0]
  BY DEF WordSemaphore!WordSemaphoreInit, Users
<1>2. Released \in Nat /\ Released > 1 /\ \A t \in Users : at[t] = "idle"
  BY <1>1, WordSemaphoreParts
<1>3. WordPermitsAreCounted
  BY <1>1, <1>2 DEF WordPermitsAreCounted
<1>4. WordPermitsHaveTakers
  BY <1>1, WordTakersAreFinite DEF WordPermitsHaveTakers
<1> QED BY <1>3, <1>4 DEF WordSemaphoreInv

LEMMA WordPermitsKept ==
    ASSUME PartsAssumption, WordSemaphoreInv
    PROVE  WordSemaphore!WordPermitsAreConserved /\ WordSemaphore!PermitsFindTakers
<1>1. WordSemaphore!WordPermitsAreConserved
  BY WordSemaphoreParts DEF WordSemaphoreInv, WordPermitsAreCounted, WordSemaphore!WordPermitsAreConserved
<1>2. WordSemaphore!PermitsFindTakers
  <2> SUFFICES ASSUME word # Released, WordSemaphore!Sleepers # {},
                      \A t \in Threads \cup {Owner} : at[t] # "wake_all"
               PROVE  word <= WordSemaphore!Cardinality(
                                {t \in Threads \cup {Owner} : at[t] \in {"load", "wait", "take", "wake_one"}})
    BY DEF WordSemaphore!PermitsFindTakers
  <2>1. word <= Cardinality(WordTakers)
    BY DEF WordSemaphoreInv, WordPermitsHaveTakers, Users
  <2>2. WordSemaphore!Cardinality(WordTakers) = Cardinality(WordTakers)
    BY CardinalityIsOne
  <2> QED BY <2>1, <2>2 DEF WordTakers, Users
<1> QED BY <1>1, <1>2
-----------------------------------------------------------------------------
(* The predicate.                                                          *)
LEMMA PredicateParts ==
    PartsAssumption => Owner \notin Threads /\ Released \in Nat /\ Released > 2
BY DEF PartsAssumption, Predicate!PredicateAssumption, Predicate!SentinelAssumption, Semaphore!SentinelAssumption

LEMMA PredicateFacts ==
    ASSUME PartsAssumption, PredicateInv
    PROVE  /\ Owner \notin Threads /\ Released \in Nat /\ Released > 2
           /\ DOMAIN at = Threads \cup {Owner} /\ DOMAIN seen = Threads \cup {Owner} /\ DOMAIN wait = Threads
           /\ word \in 0 .. Released - 1 /\ (hasControl = TRUE <=> word # Released - 1)
           /\ hasControl \in BOOLEAN /\ native \in BOOLEAN /\ owed \in BOOLEAN
BY PredicateParts DEF PredicateInv, WordIsControlled

(* Who waits: a step of a waiter.  It sleeps on the word it saw, if that   *)
(* is still the word.                                                      *)
LEMMA WaitsNext ==
    ASSUME PartsAssumption, PredicateInv, NEW t \in Threads, Predicate!PredicateWaits(t)
    PROVE  PredicateInv'
<1>0. /\ Owner \notin Threads /\ DOMAIN at = Threads \cup {Owner} /\ DOMAIN seen = Threads \cup {Owner}
      /\ DOMAIN wait = Threads /\ WordIsControlled /\ SleepersWait /\ native \in BOOLEAN
  BY PredicateFacts DEF PredicateInv
<1>1. UNCHANGED <<word, native, hasControl, owed>>
  BY DEF Predicate!PredicateWaits, Predicate!BeginsWait, Predicate!WaitLoads, Predicate!WaitSleeps,
         Predicate!WaitReturns, Predicate!SpuriousReturn, Predicate!Park
<1>2. ASSUME NEW to, at' = [at EXCEPT ![t] = to]
      PROVE  DOMAIN at' = Threads \cup {Owner} /\ at'[t] = to /\ \A u \in Threads \cup {Owner} : u # t => at'[u] = at[u]
  BY <1>0, <1>2
<1>3. ASSUME NEW to, at' = [at EXCEPT ![t] = to],
             DOMAIN seen' = Threads \cup {Owner}, \A u \in Threads \ {t} : seen'[u] = seen[u],
             DOMAIN wait' = Threads, \A u \in Threads \ {t} : wait'[u] = wait[u],
             native = TRUE => \/ to \notin {"wait", "asleep"}
                              \/ to = "wait" /\ ~Predicate!Ready(t, seen[t])'
                              \/ /\ to = "asleep" /\ at[t] = "wait" /\ seen[t] = word
                                 /\ seen' = seen /\ wait' = wait
      PROVE  PredicateInv'
  <2>1. DOMAIN at' = Threads \cup {Owner} /\ at'[t] = to /\ \A u \in Threads \cup {Owner} : u # t => at'[u] = at[u]
    BY <1>2, <1>3
  <2>2. WordIsControlled'
    BY <1>0, <1>1, <1>3, <2>1 DEF WordIsControlled
  <2>3. SleepersWait'
    <3> SUFFICES ASSUME native = TRUE
                 PROVE  /\ \A u \in Threads : at'[u] \in {"wait", "asleep"} => ~Predicate!Ready(u, seen[u])'
                        /\ owed = FALSE /\ at'[Owner] # "wake_all" =>
                             \A u \in Threads : at'[u] = "asleep" => seen'[u] = word
                        /\ at'[Owner] # "asleep"
      BY <1>1 DEF SleepersWait
    <3>1. ASSUME NEW u \in Threads, u # t, at'[u] \in {"wait", "asleep"} PROVE ~Predicate!Ready(u, seen[u])'
      <4>1. ~Predicate!Ready(u, seen[u])
        BY <1>0, <2>1, <3>1 DEF SleepersWait
      <4> QED BY <1>3, <3>1, <4>1 DEF Predicate!Ready
    <3>2. ASSUME at'[t] \in {"wait", "asleep"} PROVE ~Predicate!Ready(t, seen[t])'
      <4>1. CASE to = "wait" /\ ~Predicate!Ready(t, seen[t])'
        BY <4>1
      <4>2. CASE to = "asleep" /\ at[t] = "wait" /\ seen[t] = word /\ seen' = seen /\ wait' = wait
        <5>1. ~Predicate!Ready(t, seen[t])
          BY <1>0, <4>2 DEF SleepersWait
        <5> QED BY <4>2, <5>1 DEF Predicate!Ready
      <4> QED BY <1>3, <2>1, <3>2, <4>1, <4>2
    <3>3. ASSUME owed = FALSE, at'[Owner] # "wake_all", NEW u \in Threads, at'[u] = "asleep"
          PROVE  seen'[u] = word
      <4>1. CASE u = t
        BY <1>3, <2>1, <3>3, <4>1
      <4>2. CASE u # t
        BY <1>0, <1>3, <2>1, <3>3, <4>2 DEF SleepersWait
      <4> QED BY <4>1, <4>2
    <3>4. at'[Owner] # "asleep"
      BY <1>0, <2>1 DEF SleepersWait
    <3> QED BY <3>1, <3>2, <3>3, <3>4
  <2> QED BY <2>2, <2>3 DEF PredicateInv
<1>4. CASE Predicate!BeginsWait(t)
  <2>1. PICK w : wait' = [wait EXCEPT ![t] = w]
    BY <1>4 DEF Predicate!BeginsWait
  <2>2. at' = [at EXCEPT ![t] = "load"] /\ seen' = seen
    BY <1>4 DEF Predicate!BeginsWait, Predicate!Moves
  <2>3. DOMAIN wait' = Threads /\ \A u \in Threads \ {t} : wait'[u] = wait[u]
    BY <1>0, <2>1
  <2> QED BY <1>0, <1>3, <2>2, <2>3
<1>5. CASE Predicate!WaitLoads(t)
  <2>1. CASE Predicate!Ready(t, word)
    <3>1. /\ at' = [at EXCEPT ![t] = "idle"] /\ seen' = [seen EXCEPT ![t] = 0]
          /\ wait' = [wait EXCEPT ![t] = Predicate!NoWait]
      BY <1>5, <2>1 DEF Predicate!WaitLoads, Predicate!Moves, Predicate!Sees
    <3>2. DOMAIN wait' = Threads /\ \A u \in Threads \ {t} : wait'[u] = wait[u]
      BY <1>0, <3>1
    <3>3. DOMAIN seen' = Threads \cup {Owner} /\ \A u \in Threads \ {t} : seen'[u] = seen[u]
      BY <1>0, <3>1
    <3> QED BY <1>3, <3>1, <3>2, <3>3
  <2>2. CASE ~Predicate!Ready(t, word)
    <3> DEFINE v == IF native THEN word ELSE 0
    <3>1. at' = [at EXCEPT ![t] = "wait"] /\ seen' = [seen EXCEPT ![t] = v] /\ wait' = wait
      BY <1>5, <2>2 DEF Predicate!WaitLoads, Predicate!Moves, Predicate!Sees
    <3>2. native = TRUE => v = word
      OBVIOUS
    <3> HIDE DEF v
    <3>3. DOMAIN seen' = Threads \cup {Owner} /\ seen'[t] = v /\ \A u \in Threads \ {t} : seen'[u] = seen[u]
      BY <1>0, <3>1
    <3>4. native = TRUE => ~Predicate!Ready(t, seen[t])'
      BY <2>2, <3>1, <3>2, <3>3 DEF Predicate!Ready
    <3> QED BY <1>0, <1>3, <3>1, <3>3, <3>4
  <2> QED BY <2>1, <2>2
<1>6. CASE Predicate!WaitSleeps(t)
  <2>1. wait' = wait /\ seen' = seen
    BY <1>6 DEF Predicate!WaitSleeps, Predicate!Park
  <2>2. CASE native
    <3>1. at[t] = "wait" /\ at' = [at EXCEPT ![t] = IF word = seen[t] THEN "asleep" ELSE "load"]
      BY <1>6, <2>2 DEF Predicate!WaitSleeps, Predicate!WaitWhileEqual, Predicate!Moves
    <3>2. CASE word = seen[t]
      <4>1. at' = [at EXCEPT ![t] = "asleep"]
        BY <3>1, <3>2
      <4> QED BY <1>0, <1>3, <2>1, <3>1, <3>2, <4>1
    <3>3. CASE word # seen[t]
      <4>1. at' = [at EXCEPT ![t] = "load"]
        BY <3>1, <3>3
      <4> QED BY <1>0, <1>3, <2>1, <4>1
    <3> QED BY <3>2, <3>3
  <2>3. CASE ~native
    <3>1. \/ at' = [at EXCEPT ![t] = "load"] \/ at' = [at EXCEPT ![t] = "park"] \/ at' = [at EXCEPT ![t] = "pass"]
      BY <1>6, <2>3 DEF Predicate!WaitSleeps, Predicate!Park, Predicate!ParkReads, Predicate!ParkEnters,
                        Predicate!ParkLeaves, Predicate!Moves
    <3> QED BY <1>0, <1>3, <2>1, <2>3, <3>1
  <2> QED BY <2>2, <2>3
<1>7. CASE Predicate!WaitReturns(t)
  <2>1. at' = [at EXCEPT ![t] = "load"] /\ seen' = seen /\ wait' = wait
    BY <1>7 DEF Predicate!WaitReturns, Predicate!SpuriousReturn, Predicate!Moves
  <2> QED BY <1>0, <1>3, <2>1
<1> QED BY <1>4, <1>5, <1>6, <1>7 DEF Predicate!PredicateWaits

(* The controller: it moves a thread only to wake it, and what it does not *)
(* announce to all it owes.                                                *)
LEMMA AnnouncesNext ==
    ASSUME PartsAssumption, PredicateInv, NEW to, to # "asleep",
           DOMAIN at' = Threads \cup {Owner}, at'[Owner] = to,
           \A u \in Threads : at'[u] = at[u] \/ (at[u] = "asleep" /\ at'[u] = "load"),
           UNCHANGED <<seen, wait, native>>,
           word' \in 0 .. Released - 1, hasControl' \in BOOLEAN, owed' \in BOOLEAN,
           hasControl' = TRUE <=> word' # Released - 1,
           native = TRUE => \/ to = "wake_all"
                            \/ owed' = TRUE
                            \/ owed' = owed /\ word' = word /\ at[Owner] # "wake_all"
                            \/ \A u \in Threads : at'[u] # "asleep"
    PROVE  PredicateInv'
<1>0. WordIsControlled /\ SleepersWait /\ Owner \notin Threads
  BY PredicateParts DEF PredicateInv
<1>1. WordIsControlled'
  BY <1>0 DEF WordIsControlled
<1>2. SleepersWait'
  <2> SUFFICES ASSUME native = TRUE
               PROVE  /\ \A u \in Threads : at'[u] \in {"wait", "asleep"} => ~Predicate!Ready(u, seen[u])'
                      /\ owed' = FALSE /\ at'[Owner] # "wake_all" =>
                           \A u \in Threads : at'[u] = "asleep" => seen'[u] = word'
                      /\ at'[Owner] # "asleep"
    BY DEF SleepersWait
  <2>1. ASSUME NEW u \in Threads, at'[u] \in {"wait", "asleep"} PROVE ~Predicate!Ready(u, seen[u])'
    <3>1. ~Predicate!Ready(u, seen[u])
      BY <1>0, <2>1 DEF SleepersWait
    <3> QED BY <3>1 DEF Predicate!Ready
  <2>2. ASSUME owed' = FALSE, at'[Owner] # "wake_all", NEW u \in Threads, at'[u] = "asleep"
        PROVE  seen'[u] = word'
    <3>1. ~(owed' = TRUE)
      BY <2>2, Zenon
    <3>2. owed' = owed /\ word' = word /\ at[Owner] # "wake_all"
      BY <2>2, <3>1
    <3>3. owed = FALSE /\ at[u] = "asleep"
      BY <2>2, <3>2
    <3> QED BY <1>0, <3>2, <3>3 DEF SleepersWait
  <2> QED BY <2>1, <2>2
<1> QED BY <1>1, <1>2 DEF PredicateInv

(* The same, of a step that wakes nobody.                                  *)
LEMMA OwnerMoves ==
    ASSUME PartsAssumption, PredicateInv, NEW to, to # "asleep", at' = [at EXCEPT ![Owner] = to],
           UNCHANGED <<seen, wait, native>>,
           word' \in 0 .. Released - 1, hasControl' \in BOOLEAN, owed' \in BOOLEAN,
           hasControl' = TRUE <=> word' # Released - 1,
           native = TRUE => \/ to = "wake_all"
                            \/ owed' = TRUE
                            \/ owed' = owed /\ word' = word /\ at[Owner] # "wake_all"
    PROVE  PredicateInv'
<1>1. DOMAIN at = Threads \cup {Owner} /\ Owner \notin Threads
  BY PredicateFacts
<1>2. DOMAIN at' = Threads \cup {Owner} /\ at'[Owner] = to /\ \A u \in Threads : at'[u] = at[u]
  BY <1>1
<1> QED BY <1>2, AnnouncesNext

LEMMA NewWordsAreValues ==
    ASSUME PartsAssumption, word \in 0 .. Released - 1, NEW w \in Predicate!NewWords
    PROVE  w \in 0 .. Released - 2
BY PredicateParts DEF Predicate!NewWords, Predicate!Value, Predicate!NextPredicateWord, Predicate!PreviousPredicateWord

LEMMA PredicateControlsNext ==
    ASSUME PartsAssumption, PredicateInv, Predicate!PredicateControls
    PROVE  PredicateInv'
<1> DEFINE To(x) == at' = [at EXCEPT ![Owner] = x]
<1>0. /\ Owner \notin Threads /\ Released \in Nat /\ Released > 2
      /\ DOMAIN at = Threads \cup {Owner} /\ word \in 0 .. Released - 1
      /\ (hasControl = TRUE <=> word # Released - 1) /\ hasControl \in BOOLEAN /\ native \in BOOLEAN /\ owed \in BOOLEAN
  BY PredicateFacts
<1>1. CASE Predicate!PredicateAcquireControl \/ Predicate!ClosesGate \/ Predicate!OpensGate \/ Predicate!CyclesGate
  <2>1. UNCHANGED <<word, seen, native, hasControl, wait, owed>>
    BY <1>1 DEF Predicate!PredicateAcquireControl, Predicate!ClosesGate, Predicate!OpensGate, Predicate!CyclesGate
  <2>2. \/ To("open") \/ To("close") \/ To("generation") \/ To("reopen") \/ To("idle") \/ To("switch")
        \/ To("reopen_phase")
    BY <1>1 DEF Predicate!PredicateAcquireControl, Predicate!ClosesGate, Predicate!OpensGate, Predicate!CyclesGate,
                Predicate!CloseGate, Predicate!StartGeneration, Predicate!EndGeneration, Predicate!OpenGate,
                Predicate!CloseOpenPhase, Predicate!SwitchPhase, Predicate!Moves
  <2>3. at[Owner] # "wake_all"
    BY <1>1 DEF Predicate!PredicateAcquireControl, Predicate!ClosesGate, Predicate!OpensGate, Predicate!CyclesGate,
                Predicate!CloseGate, Predicate!StartGeneration, Predicate!EndGeneration, Predicate!OpenGate,
                Predicate!CloseOpenPhase, Predicate!SwitchPhase, Predicate!Moves
  <2>4. PICK to : to # "asleep" /\ To(to)
    BY <2>2
  <2> QED BY <1>0, <2>1, <2>3, <2>4, OwnerMoves
<1>2. ASSUME NEW v \in {0, Released - 2}, Predicate!PredicateOpens(v) PROVE PredicateInv'
  <2>1. To("idle") /\ word' = v /\ hasControl' = TRUE /\ owed' = TRUE /\ UNCHANGED <<seen, wait, native>>
    BY <1>2 DEF Predicate!PredicateOpens, Predicate!Moves
  <2>2. word' \in 0 .. Released - 1 /\ word' # Released - 1
    BY <1>0, <1>2, <2>1
  <2> QED BY <2>1, <2>2, OwnerMoves
<1>3. CASE Predicate!PredicateReleaseControl
  <2> DEFINE to == IF native THEN "wake_all" ELSE "uncontrol"
  <2>1. To(to) /\ word' = Released - 1 /\ hasControl' = FALSE /\ owed' = FALSE /\ UNCHANGED <<seen, wait, native>>
    BY <1>3 DEF Predicate!PredicateReleaseControl, Predicate!Moves
  <2>2. to # "asleep" /\ (native = TRUE => to = "wake_all")
    OBVIOUS
  <2>3. word' \in 0 .. Released - 1
    BY <1>0, <2>1
  <2>4. hasControl' \in BOOLEAN /\ owed' \in BOOLEAN /\ ~(hasControl' = TRUE)
    BY <2>1, Zenon
  <2>5. hasControl' = TRUE <=> word' # Released - 1
    BY <2>1, <2>4
  <2> HIDE DEF to
  <2> QED BY <2>1, <2>2, <2>3, <2>4, <2>5, OwnerMoves
<1>4. ASSUME NEW wakes \in {"none", "one", "all"}, Predicate!Changes(wakes) PROVE PredicateInv'
  <2> DEFINE to == IF wakes = "none" THEN "idle"
                   ELSE IF ~native THEN "cycle" ELSE IF wakes = "one" THEN "wake_one" ELSE "wake_all"
  <2>1. /\ To(to) /\ hasControl /\ word' \in Predicate!NewWords /\ owed' = (wakes # "all")
        /\ UNCHANGED <<seen, wait, native, hasControl>>
    BY <1>4 DEF Predicate!Changes, Predicate!Moves
  <2>2. word' \in 0 .. Released - 1 /\ word' # Released - 1
    <3>1. word' \in 0 .. Released - 2
      BY <1>0, <2>1, NewWordsAreValues
    <3> QED BY <1>0, <3>1
  <2>3. owed' \in BOOLEAN /\ hasControl' = TRUE
    BY <1>0, <2>1
  <2>4. to # "asleep" /\ (native = TRUE => to = "wake_all" \/ owed' = TRUE)
    BY <1>4, <2>1
  <2> HIDE DEF to
  <2> QED BY <2>1, <2>2, <2>3, <2>4, OwnerMoves
<1>5. ASSUME NEW wakes \in {"one", "all"}, Predicate!OnlyWakes(wakes) PROVE PredicateInv'
  <2> DEFINE to == IF ~native THEN "cycle" ELSE IF wakes = "one" THEN "wake_one" ELSE "wake_all"
  <2>1. /\ To(to) /\ at[Owner] = "idle" /\ owed' = (owed /\ wakes # "all")
        /\ UNCHANGED <<word, seen, wait, native, hasControl>>
    BY <1>5 DEF Predicate!OnlyWakes, Predicate!Moves
  <2>2. owed' \in BOOLEAN /\ (wakes # "all" => owed' = owed)
    BY <1>0, <2>1
  <2>3. to # "asleep" /\ (native = TRUE /\ wakes = "all" => to = "wake_all")
    OBVIOUS
  <2> HIDE DEF to
  <2> QED BY <1>0, <2>1, <2>2, <2>3, OwnerMoves
<1>6. CASE Predicate!WakesWaiters
  <2>0. UNCHANGED <<word, seen, native, hasControl, wait, owed>>
    BY <1>6 DEF Predicate!WakesWaiters
  <2>1. CASE Predicate!WakeOneFrom(Owner, "wake_one", "idle")
    <3>1. at[Owner] = "wake_one"
      BY <2>1 DEF Predicate!WakeOneFrom
    <3>2. CASE Predicate!Sleepers = {}
      <4>1. To("idle")
        BY <2>1, <3>2 DEF Predicate!WakeOneFrom
      <4> QED BY <1>0, <2>0, <3>1, <4>1, OwnerMoves
    <3>3. CASE Predicate!Sleepers # {}
      <4>1. PICK s \in Predicate!Sleepers : at' = [at EXCEPT ![Owner] = "idle", ![s] = "load"]
        BY <2>1, <3>3 DEF Predicate!WakeOneFrom
      <4>2. s \in Threads /\ at[s] = "asleep"
        BY <1>0, <3>1 DEF Predicate!Sleepers
      <4>3. /\ DOMAIN at' = Threads \cup {Owner} /\ at'[Owner] = "idle"
            /\ \A u \in Threads : at'[u] = at[u] \/ (at[u] = "asleep" /\ at'[u] = "load")
        BY <1>0, <4>1, <4>2
      <4> QED BY <1>0, <2>0, <3>1, <4>3, AnnouncesNext
    <3> QED BY <3>2, <3>3
  <2>2. CASE Predicate!WakeAllFrom(Owner, "wake_all", "idle")
    <3>1. at' = [s \in DOMAIN at |-> IF s = Owner THEN "idle" ELSE IF s \in Predicate!Sleepers THEN "load" ELSE at[s]]
      BY <2>2 DEF Predicate!WakeAllFrom
    <3>2. /\ DOMAIN at' = Threads \cup {Owner} /\ at'[Owner] = "idle"
          /\ \A u \in Threads : at'[u] = IF at[u] = "asleep" THEN "load" ELSE at[u]
      BY <1>0, <3>1 DEF Predicate!Sleepers
    <3> QED BY <1>0, <2>0, <3>2, AnnouncesNext
  <2> QED BY <1>6, <2>1, <2>2 DEF Predicate!WakesWaiters
<1> QED BY <1>0, <1>1, <1>2, <1>3, <1>4, <1>5, <1>6 DEF Predicate!PredicateControls

LEMMA PredicateStep ==
    ASSUME PartsAssumption, PredicateInv, Predicate!PredicateNext
    PROVE  PredicateInv'
BY WaitsNext, PredicateControlsNext DEF Predicate!PredicateNext

LEMMA PredicateStarts ==
    ASSUME PartsAssumption, Predicate!PredicateInit
    PROVE  PredicateInv
<1>1. /\ native \in BOOLEAN /\ word = Released - 1 /\ hasControl = FALSE /\ owed = FALSE
      /\ at = [t \in Threads \cup {Owner} |-> "idle"] /\ seen = [t \in Threads \cup {Owner} |-> 0]
      /\ wait = [t \in Threads |-> Predicate!NoWait]
  BY DEF Predicate!PredicateInit, Predicate!Caller
<1>2. Owner \notin Threads /\ Released \in Nat /\ Released > 2 /\ \A t \in Threads \cup {Owner} : at[t] = "idle"
  BY <1>1, PredicateParts
<1>3. hasControl \in BOOLEAN /\ owed \in BOOLEAN /\ ~(hasControl = TRUE)
  BY <1>1, Zenon
<1>4. word \in 0 .. Released - 1 /\ (hasControl = TRUE <=> word # Released - 1)
  BY <1>1, <1>2, <1>3
<1>5. DOMAIN at = Threads \cup {Owner} /\ DOMAIN seen = Threads \cup {Owner} /\ DOMAIN wait = Threads
  BY <1>1
<1>6. WordIsControlled
  BY <1>1, <1>3, <1>4, <1>5 DEF WordIsControlled
<1>7. SleepersWait
  BY <1>2 DEF SleepersWait
<1> QED BY <1>6, <1>7 DEF PredicateInv

LEMMA WordsAreNotMissed ==
    ASSUME PartsAssumption, PredicateInv
    PROVE  Predicate!OnlyReleaseIsReleased /\ Predicate!NoMissedWord
<1>0. /\ DOMAIN at = Threads \cup {Owner} /\ (hasControl = TRUE <=> word # Released - 1)
      /\ hasControl \in BOOLEAN /\ native \in BOOLEAN /\ owed \in BOOLEAN /\ SleepersWait
  BY PredicateFacts DEF PredicateInv
<1>1. Predicate!OnlyReleaseIsReleased
  BY <1>0 DEF Predicate!OnlyReleaseIsReleased
<1>2. Predicate!NoMissedWord
  <2> SUFFICES ASSUME native, ~owed, at[Owner] = "idle", NEW t \in Predicate!Sleepers
               PROVE  ~Predicate!Ready(t, word)
    BY DEF Predicate!NoMissedWord
  <2>1. native = TRUE /\ owed = FALSE
    BY <1>0
  <2>2. t \in Threads /\ at[t] = "asleep"
    BY <1>0 DEF Predicate!Sleepers
  <2>3. seen[t] = word /\ ~Predicate!Ready(t, seen[t])
    BY <1>0, <2>1, <2>2 DEF SleepersWait
  <2> QED BY <2>3
<1> QED BY <1>1, <1>2
-----------------------------------------------------------------------------
(* All of them.                                                            *)
LEMMA SyncStarts == PartsAssumption /\ Init => SyncInv
<1> SUFFICES ASSUME PartsAssumption, Init PROVE SyncInv
  OBVIOUS
<1>1. CASE part = "semaphore" /\ Semaphore!SemaphoreInit
  BY <1>1, SemaphoreStarts DEF SyncInv
<1>2. CASE part = "predicate" /\ Predicate!PredicateInit
  BY <1>2, PredicateStarts DEF SyncInv
<1>3. CASE part = "word_semaphore" /\ WordSemaphore!WordSemaphoreInit
  BY <1>3, WordSemaphoreStarts DEF SyncInv
<1>4. CASE part = "lock" /\ Lock!LockInit
  BY <1>4, LockStarts DEF SyncInv
<1>5. CASE part = "lifetime" /\ Lifetime!LifetimeInit
  BY <1>5, LifetimeStarts DEF SyncInv
<1>6. CASE part = "incidents" /\ Incidents!IncidentsInit
  BY <1>6, IncidentsStart DEF SyncInv
<1> QED BY <1>1, <1>2, <1>3, <1>4, <1>5, <1>6 DEF Init

LEMMA Stutters ==
    ASSUME SyncInv, UNCHANGED vars
    PROVE  SyncInv'
<1>0. /\ UNCHANGED <<part, word, at, seen, native, hasControl, adding, granted, taken, wait, owed>>
      /\ UNCHANGED <<valid, nativeLock, owner, ownerGate, waiters, strangers>>
      /\ UNCHANGED <<token, isValid, entry, running, starts, joining, joined, abandons>>
      /\ UNCHANGED <<counter, shutdown, pause, context, doing, reader, requested>>
  BY DEF vars, wordVars, gateVars, permitVars, predVars, lockOwn, threadOwn, debugVars
<1>1. SemaphoreInv => SemaphoreInv'
  BY <1>0 DEF SemaphoreInv, PermitsAreCounted, PermitsHaveTakers, Takers, Semaphore!Sleepers
<1>2. PredicateInv => PredicateInv'
  BY <1>0 DEF PredicateInv, WordIsControlled, SleepersWait, Predicate!Ready
<1>3. WordSemaphoreInv => WordSemaphoreInv'
  BY <1>0 DEF WordSemaphoreInv, WordPermitsAreCounted, WordPermitsHaveTakers, WordTakers, WordSemaphore!Sleepers
<1>4. LockInv => LockInv'
  BY <1>0 DEF LockInv, LockTypes, NativeIsHeld, OwnerIsHolder, GateIsHeld, NobodyIsUndone, WaitersAreCounted,
              DestroyedIsFree, Inside
<1>5. LifetimeInv => LifetimeInv'
  BY <1>0 DEF LifetimeInv, LifetimeTypes, TokenIsKept, WorksDiffer, WorkIsHeld
<1>6. IncidentsInv => IncidentsInv'
  BY <1>0 DEF IncidentsInv, IncidentTypes, RequestsGrow, IncidentsAreNumbered, ContextIsOwned, OwnsContext, ReaderSeesOne
<1> QED BY <1>0, <1>1, <1>2, <1>3, <1>4, <1>5, <1>6 DEF SyncInv

LEMMA SyncStep == PartsAssumption /\ SyncInv /\ [Next]_vars => SyncInv'
<1> SUFFICES ASSUME PartsAssumption, SyncInv, [Next]_vars PROVE SyncInv'
  OBVIOUS
<1>1. CASE UNCHANGED vars
  BY <1>1, Stutters
<1>2. CASE SemaphoreMoves(Semaphore!SemaphoreNext)
  BY <1>2, SemaphoreStep DEF SyncInv, SemaphoreMoves
<1>3. CASE PredicateMoves(Predicate!PredicateNext)
  BY <1>3, PredicateStep DEF SyncInv, PredicateMoves
<1>4. CASE WordSemaphoreMoves(WordSemaphore!WordSemaphoreNext)
  BY <1>4, WordSemaphoreStep DEF SyncInv, WordSemaphoreMoves
<1>5. CASE LockMoves(Lock!LockNext)
  BY <1>5, LockStep DEF SyncInv, LockMoves
<1>6. CASE LifetimeMoves(Lifetime!LifetimeNext)
  BY <1>6, LifetimeStep DEF SyncInv, LifetimeMoves
<1>7. CASE IncidentsMove(Incidents!IncidentsNext)
  BY <1>7, IncidentsStep DEF SyncInv, IncidentsMove
<1> QED BY <1>1, <1>2, <1>3, <1>4, <1>5, <1>6, <1>7 DEF Next

(* The invariant of the object that moves holds of every behaviour of it.  *)
THEOREM SyncInvariance == Spec => []SyncInv
<1>1. Init => SyncInv
  BY SyncStarts, PartsAssumption
<1>2. SyncInv /\ [Next]_vars => SyncInv'
  BY SyncStep, PartsAssumption
<1> QED BY <1>1, <1>2, PTL DEF Spec

(* Whatever the threads interleave, no permit of a semaphore is lost or    *)
(* made and no count passes into the sentinel, and only the release of     *)
(* control stores the sentinel of a predicate: CCountingSemaphore,         *)
(* CWaitWordSemaphore and CWaitPredicate.                                  *)
THEOREM CountsAreAlwaysExact == Spec => []CountsAreExact
<1>1. SyncInv => CountsAreExact
  BY PartsAssumption, PermitsKept, WordPermitsKept, WordsAreNotMissed DEF SyncInv, CountsAreExact
<1> QED BY <1>1, SyncInvariance, PTL

(* On native wait words: while a thread sleeps on that of a semaphore      *)
(* under control there are no more permits than threads awake, or woken    *)
(* next, to take them; and once a change of a predicate is announced,      *)
(* whoever still sleeps waits for something else.  Nothing of the gates.   *)
THEOREM NobodyEverSleepsPastIt == Spec => []NobodySleepsPastIt
<1>1. SyncInv => NobodySleepsPastIt
  BY PartsAssumption, PermitsKept, WordPermitsKept, WordsAreNotMissed DEF SyncInv, NobodySleepsPastIt
<1> QED BY <1>1, SyncInvariance, PTL

(* CExclusiveLock excludes: among threads that use it rightly one at most  *)
(* holds it, it is unlocked by its holder even when others call unlock(),  *)
(* and it is destroyed free.                                               *)
THEOREM LockIsAlwaysExclusive == Spec => []LockIsExclusive
<1>1. SyncInv => LockIsExclusive
  BY PartsAssumption, LockExcludes DEF SyncInv, LockIsExclusive
<1> QED BY <1>1, SyncInvariance, PTL

(* A thread whose handle was not abandoned runs the entry point it was     *)
(* created for, and has ended when a join of it has succeeded: CThread.    *)
THEOREM ThreadsAlwaysRunTheirEntry == Spec => []ThreadsRunTheirEntry
<1>1. SyncInv => ThreadsRunTheirEntry
  BY PartsAssumption, EntriesAreRun DEF SyncInv, ThreadsRunTheirEntry
<1> QED BY <1>1, SyncInvariance, PTL

(* The words of the debug service: no request of a shutdown is taken back, *)
(* the breakpoint context has one owner while a pause is requested, and a  *)
(* reader gets the context of one incident unless another began meanwhile. *)
THEOREM IncidentsAreAlwaysConsistent == Spec => []IncidentsAreConsistent
<1>1. SyncInv => IncidentsAreConsistent
  BY IncidentsConsistent DEF SyncInv, IncidentsAreConsistent
<1> QED BY <1>1, SyncInvariance, PTL
================================================================================

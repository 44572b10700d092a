-------------------------------- MODULE MCSync --------------------------------
(***************************************************************************)
(* The synchronisation objects, each on its own: which one moves is chosen *)
(* at the start, and the variables of the others keep a fixed value.  The  *)
(* variables the modules have in common are common here.                   *)
(***************************************************************************)
EXTENDS Naturals, FiniteSets

CONSTANTS Threads, Owner, Strangers, None,
    Released, Generations, MaxGranted, MaxLifetimes, MaxChanges, MaxStarts, MaxIncidents

VARIABLES
    part,
    word, at, seen, gate, gateState, ticket, passing, native, hasControl, lifetimes,
    adding, granted, taken, wait, owed, changes, restarts,
    valid, nativeLock, owner, ownerGate, waiters, strangers,
    token, isValid, entry, running, starts, joining, joined, abandons,
    counter, shutdown, flags, pause, context, doing, reader, requested

wordVars == <<word, at, seen>>
gateVars == <<gate, gateState, ticket, passing, native, hasControl, lifetimes>>
permitVars == <<adding, granted, taken>>
predVars == <<wait, owed, changes>>
lockOwn == <<valid, nativeLock, owner, ownerGate, waiters, strangers>>
threadOwn == <<token, isValid, entry, running, starts, joining, joined, abandons>>
debugVars == <<counter, shutdown, flags, pause, context, doing, reader, requested>>
vars == <<part, wordVars, gateVars, permitVars, predVars, restarts, lockOwn, threadOwn, debugVars>>

Semaphore == INSTANCE CountingSemaphore
    WITH Controller <- Owner, Nobody <- None, Consumer <- Threads
Predicate == INSTANCE WaitPredicate
    WITH Controller <- Owner, Nobody <- None, Waiter <- Threads,
         Released <- Released - 1, MaxLifetimes <- 1
WordSemaphore == INSTANCE WaitWordSemaphore WITH User <- Threads \cup {Owner}
Lock == INSTANCE ExclusiveLock
    WITH Locker <- Threads, Stranger <- Strangers, Free <- None
Lifetime == INSTANCE ThreadLifetime
    WITH NativeThread <- Threads, NoThread <- None, native <- running
Incidents == INSTANCE DebugIncidents WITH Reporter <- Threads

ASSUME PartsAssumption ==
    /\ IsFiniteSet(Threads) /\ Owner # None
    /\ Semaphore!SemaphoreAssumption /\ Semaphore!SentinelAssumption
    /\ Predicate!PredicateAssumption /\ Predicate!SentinelAssumption
    /\ WordSemaphore!UsersAssumption
    /\ Lock!LockersAssumption
    /\ Lifetime!StartsAssumption

NoWord == word = 0 /\ at = 0 /\ seen = 0
NoGate == gate = 0 /\ gateState = 0 /\ ticket = 0 /\ passing = 0
          /\ native = 0 /\ hasControl = 0 /\ lifetimes = 0
NoPermits == adding = 0 /\ granted = 0 /\ taken = 0
NoPredicate == wait = 0 /\ owed = 0 /\ changes = 0
NoLock == valid = 0 /\ nativeLock = 0 /\ owner = 0 /\ ownerGate = 0 /\ waiters = 0 /\ strangers = 0
NoLifetime == token = 0 /\ isValid = 0 /\ entry = 0 /\ running = 0 /\ starts = 0
              /\ joining = 0 /\ joined = 0 /\ abandons = 0
NoIncidents == counter = 0 /\ shutdown = 0 /\ flags = 0 /\ pause = 0 /\ context = 0 /\ doing = 0
               /\ reader = 0 /\ requested = 0

Init ==
    \/ /\ part = "semaphore" /\ Semaphore!SemaphoreInit
       /\ NoPredicate /\ restarts = 0 /\ NoLock /\ NoLifetime /\ NoIncidents
    \/ /\ part = "predicate" /\ Predicate!PredicateInit
       /\ NoPermits /\ restarts = 0 /\ NoLock /\ NoLifetime /\ NoIncidents
    \/ /\ part = "word_semaphore" /\ WordSemaphore!WordSemaphoreInit
       /\ NoGate /\ NoPredicate /\ NoLock /\ NoLifetime /\ NoIncidents
    \/ /\ part = "lock" /\ Lock!LockInit
       /\ word = 0 /\ seen = 0 /\ NoGate /\ NoPermits /\ NoPredicate /\ restarts = 0 /\ NoLifetime /\ NoIncidents
    \/ /\ part = "lifetime" /\ Lifetime!LifetimeInit
       /\ NoWord /\ NoGate /\ NoPermits /\ NoPredicate /\ restarts = 0 /\ NoLock /\ NoIncidents
    \/ /\ part = "incidents" /\ Incidents!IncidentsInit
       /\ NoWord /\ NoGate /\ NoPermits /\ NoPredicate /\ restarts = 0 /\ NoLock /\ NoLifetime

SemaphoreMoves(action) ==
    part = "semaphore" /\ action /\ UNCHANGED <<part, predVars, restarts, lockOwn, threadOwn, debugVars>>
PredicateMoves(action) ==
    part = "predicate" /\ action /\ UNCHANGED <<part, permitVars, restarts, lockOwn, threadOwn, debugVars>>
WordSemaphoreMoves(action) ==
    part = "word_semaphore" /\ action /\ UNCHANGED <<part, gateVars, predVars, lockOwn, threadOwn, debugVars>>
LockMoves(action) ==
    /\ part = "lock" /\ action
    /\ UNCHANGED <<part, word, seen, gateVars, permitVars, predVars, restarts, threadOwn, debugVars>>
LifetimeMoves(action) ==
    /\ part = "lifetime" /\ action
    /\ UNCHANGED <<part, wordVars, gateVars, permitVars, predVars, restarts, lockOwn, debugVars>>

IncidentsMove(action) ==
    /\ part = "incidents" /\ action
    /\ UNCHANGED <<part, wordVars, gateVars, permitVars, predVars, restarts, lockOwn, threadOwn>>

Next ==
    \/ SemaphoreMoves(Semaphore!SemaphoreNext)
    \/ PredicateMoves(Predicate!PredicateNext)
    \/ WordSemaphoreMoves(WordSemaphore!WordSemaphoreNext)
    \/ LockMoves(Lock!LockNext)
    \/ LifetimeMoves(Lifetime!LifetimeNext)
    \/ IncidentsMove(Incidents!IncidentsNext)

Spec == Init /\ [][Next]_vars

(* The fairness of each module, of the one that moves.                     *)
OwnerGoesOn ==
    \/ SemaphoreMoves(Semaphore!OwnerGoesOn)
    \/ PredicateMoves(Predicate!OwnerGoesOn)
    \/ WordSemaphoreMoves(WordSemaphore!UserGoesOn(Owner))
ThreadGoesOn(t) ==
    \/ SemaphoreMoves(Semaphore!ConsumerGoesOn(t))
    \/ PredicateMoves(Predicate!WaiterGoesOn(t))
    \/ WordSemaphoreMoves(WordSemaphore!UserGoesOn(t))
    \/ LockMoves(Lock!LockerGoesOn(t))
LockIsGranted(t) ==
    \/ SemaphoreMoves(Semaphore!GateGranted(t))
    \/ PredicateMoves(Predicate!GateGranted(t))
    \/ LockMoves(Lock!LockGranted(t))

FairSpec ==
    /\ Spec
    /\ WF_vars(OwnerGoesOn)
    /\ \A t \in Threads : WF_vars(ThreadGoesOn(t)) /\ SF_vars(LockIsGranted(t))
-----------------------------------------------------------------------------
(* No permit of either semaphore is lost or made, and no count passes into *)
(* the sentinel: CAS loops of consumers and producers, wrap at the limit.  *)
CountsAreExact ==
    /\ part = "semaphore" => Semaphore!PermitsAreConserved
    /\ part = "word_semaphore" => WordSemaphore!WordPermitsAreConserved
    /\ part = "predicate" => Predicate!OnlyReleaseIsReleased

(* On native wait words nobody sleeps through what would let it go on: a   *)
(* permit of a semaphore that is not released, or an announced change of   *)
(* the word of a predicate.  Parking gates are not covered.                *)
NobodySleepsPastIt ==
    /\ part = "semaphore" => Semaphore!NoStrandedPermit
    /\ part = "word_semaphore" => WordSemaphore!PermitsFindTakers
    /\ part = "predicate" => Predicate!NoMissedWord

(* CExclusiveLock: one holder, its native lock given back by it alone, and *)
(* never destroyed while in use.                                           *)
LockIsExclusive ==
    part = "lock" => Lock!AtMostOneHolder /\ Lock!HolderUnlocks /\ Lock!DestroyedWasFree

(* CThread: a thread that is not abandoned runs its entry point, its own,  *)
(* and has ended when a join of it succeeds.                               *)
ThreadsRunTheirEntry == part = "lifetime" => Lifetime!ThreadsRunTheirEntry

(* A release of control, or a shutdown, for good ends every wait, on wait  *)
(* words and on gates; and a lock that is asked for is granted.            *)
WaitsAreOver ==
    CASE part \in {"semaphore", "word_semaphore"} -> word = Released
      [] part = "predicate" -> word = Released - 1
      [] part = "lock" -> valid /\ ~strangers
      [] OTHER -> FALSE
InNoWait(t) == IF part = "lock" THEN at[t] # "lock" ELSE part \in {"lifetime", "incidents"} \/ at[t] = "idle"

WaitsEnd == \A t \in Threads : <>[]WaitsAreOver => []<>InNoWait(t)

(* The words of the debug service: a shutdown once requested stays so, one  *)
(* thread owns the breakpoint context, and what a reader gets of it is of   *)
(* one incident, unless another one began while it read.                    *)
IncidentsAreConsistent ==
    part = "incidents" =>
        Incidents!RequestsAreKept /\ Incidents!OneOwnerOfContext /\ Incidents!ContextsAreWhole

(* thread_lifetime.hpp: "close_handle() abandons join ownership only. It   *)
(* does not stop the running thread."                                      *)
ClosingStopsNothing == part = "lifetime" => Lifetime!ClosingStopsNothing
================================================================================

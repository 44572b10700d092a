----------------------------- MODULE ExclusiveLock -----------------------------
(***************************************************************************)
(* platform::threading::CExclusiveLock                                     *)
(* (src/core/platform/threading/exclusive_lock.cpp): a native lock, the    *)
(* id of its owner behind a gate of one word that is only ever tried, and  *)
(* the number of the threads inside acquire().                             *)
(***************************************************************************)
EXTENDS Naturals, FiniteSets

CONSTANTS
    Locker,             \* threads that release what they acquired
    Stranger,           \* threads that call release() without owning the lock
    Free                \* nobody

LockersAssumption == Free \notin Locker \cup Stranger /\ Locker \cap Stranger = {}

VARIABLES
    at,                 \* where each thread is
    valid,              \* m_valid
    nativeLock,         \* who holds the native lock
    owner,              \* m_owner_thread_id
    ownerGate,          \* m_owner_thread_id_gate: who has it
    waiters,            \* m_waiter_count
    strangers           \* whether strangers are about

lockVars == <<at, valid, nativeLock, owner, ownerGate, waiters, strangers>>

LockInit ==
    /\ strangers \in BOOLEAN
    /\ at = [t \in Locker \cup Stranger |-> "idle"]
    /\ valid = TRUE
    /\ nativeLock = Free /\ owner = Free /\ ownerGate = Free
    /\ waiters = 0

Goes(t, from, to) == at[t] = from /\ at' = [at EXCEPT ![t] = to]

(* try_acquire_owner_thread_id_gate().                                     *)
TriesGate(t, from, won, failed) ==
    /\ Goes(t, from, IF ownerGate = Free THEN won ELSE failed)
    /\ ownerGate' = IF ownerGate = Free THEN t ELSE ownerGate

(* release_owner_thread_id_gate().                                         *)
LeavesGate(t, from, to) == Goes(t, from, to) /\ ownerGate' = Free
(* The native lock is taken when it is free; giving it back asks nothing.  *)
TakesNative(t) == nativeLock = Free /\ nativeLock' = t
GivesNative == nativeLock' = Free
-----------------------------------------------------------------------------
(* acquire().  "holding" is where it returns with the lock; without it,    *)
(* the caller is told nothing.                                             *)

Acquire(t) ==
    \/ /\ Goes(t, "idle", "lock")
       /\ waiters' = waiters + 1
       /\ UNCHANGED <<valid, nativeLock, owner, ownerGate, strangers>>
    \/ /\ Goes(t, "lock", "gate")
       /\ TakesNative(t)
       /\ UNCHANGED <<valid, owner, ownerGate, waiters, strangers>>
    \/ /\ TriesGate(t, "gate", "own", "undo")
       /\ UNCHANGED <<valid, nativeLock, owner, waiters, strangers>>
    \/ /\ Goes(t, "undo", "uncount")
       /\ GivesNative
       /\ UNCHANGED <<valid, owner, ownerGate, waiters, strangers>>
    \/ /\ Goes(t, "own", "ungate")
       /\ owner' = t
       /\ UNCHANGED <<valid, nativeLock, ownerGate, waiters, strangers>>
    \/ /\ LeavesGate(t, "ungate", "uncount")
       /\ UNCHANGED <<valid, nativeLock, owner, waiters, strangers>>
    \/ /\ Goes(t, "uncount", "holding")
       /\ waiters' = waiters - 1
       /\ UNCHANGED <<valid, nativeLock, owner, ownerGate, strangers>>

(* try_acquire(): a native lock that is free has no owner.                 *)
TryAcquire(t) ==
    \/ /\ Goes(t, "idle", "try_gate") /\ TakesNative(t)
       /\ UNCHANGED <<valid, owner, ownerGate, waiters, strangers>>
    \/ /\ TriesGate(t, "try_gate", "try_own", "try_undo")
       /\ UNCHANGED <<valid, nativeLock, owner, waiters, strangers>>
    \/ /\ Goes(t, "try_own", IF owner = Free THEN "try_ungate" ELSE "try_refuse")
       /\ owner' = IF owner = Free THEN t ELSE owner
       /\ UNCHANGED <<valid, nativeLock, ownerGate, waiters, strangers>>
    \/ /\ \/ LeavesGate(t, "try_ungate", "holding")
          \/ LeavesGate(t, "try_refuse", "try_undo")
       /\ UNCHANGED <<valid, nativeLock, owner, waiters, strangers>>
    \/ /\ Goes(t, "try_undo", "idle")
       /\ GivesNative
       /\ UNCHANGED <<valid, owner, ownerGate, waiters, strangers>>

(* Mutant: whoever calls it gives the native lock back.                    *)
ReleaseByAnyone(t) ==
    \/ /\ \/ TriesGate(t, "holding", "disown", "idle")
          \/ t \in Stranger /\ strangers /\ TriesGate(t, "idle", "disown", "idle")
       /\ UNCHANGED <<valid, nativeLock, owner, waiters, strangers>>
    \/ /\ Goes(t, "disown", "leave")
       /\ owner' = Free
       /\ UNCHANGED <<valid, nativeLock, ownerGate, waiters, strangers>>
    \/ /\ LeavesGate(t, "leave", "unlock")
       /\ UNCHANGED <<valid, nativeLock, owner, waiters, strangers>>
    \/ /\ Goes(t, "unlock", "idle")
       /\ GivesNative
       /\ UNCHANGED <<valid, owner, ownerGate, waiters, strangers>>

(* release(): only the owner's gives the native lock back.                 *)
Release(t) ==
    \/ /\ \/ TriesGate(t, "holding", "disown", "idle")
          \/ t \in Stranger /\ strangers /\ TriesGate(t, "idle", "disown", "idle")
       /\ UNCHANGED <<valid, nativeLock, owner, waiters, strangers>>
    \/ /\ Goes(t, "disown", IF owner = t THEN "leave" ELSE "turn_away")
       /\ owner' = IF owner = t THEN Free ELSE owner
       /\ UNCHANGED <<valid, nativeLock, ownerGate, waiters, strangers>>
    \/ /\ LeavesGate(t, "leave", "unlock") \/ LeavesGate(t, "turn_away", "idle")
       /\ UNCHANGED <<valid, nativeLock, owner, waiters, strangers>>
    \/ /\ Goes(t, "unlock", "idle")
       /\ GivesNative
       /\ UNCHANGED <<valid, owner, ownerGate, waiters, strangers>>
-----------------------------------------------------------------------------
(* The destructor, which leaks the native lock when it finds it in use.    *)
(* It cannot see a try_acquire() that has the native lock and not yet the  *)
(* gate: concurrent destruction and use is caller misuse.                  *)
Destroy ==
    /\ valid /\ \A t \in Locker \cup Stranger : at[t] \notin {"try_gate", "try_undo", "unlock", "turn_away"}
    /\ valid' = ~(waiters = 0 /\ ownerGate = Free /\ owner = Free)
    /\ UNCHANGED <<at, nativeLock, owner, ownerGate, waiters, strangers>>

LockNext ==
    \/ Destroy
    \/ valid /\ \E t \in Locker : Acquire(t) \/ TryAcquire(t)
    \/ valid /\ \E t \in Locker \cup Stranger : Release(t)

(* A holder gives the lock back, and the native lock is granted to a       *)
(* thread that keeps waiting for it.                                       *)
LockerGoesOn(t) == valid /\ at[t] # "idle" /\ (Acquire(t) \/ TryAcquire(t) \/ Release(t))
LockGranted(t) == valid /\ at[t] = "lock" /\ Acquire(t)

-----------------------------------------------------------------------------
(* One thread at a time returns with the lock and has not yet given it     *)
(* back, when nobody releases a lock of others; and the ids agree.         *)
AtMostOneHolder ==
    ~strangers => \A t \in Locker : at[t] = "holding" =>
        /\ nativeLock = t /\ owner = t
        /\ \A u \in Locker \ {t} : at[u] # "holding"

(* "release by a non-owner [...] fail without calling the underlying       *)
(* native primitive": the native lock is given back by who holds it.       *)
HolderUnlocks ==
    \A t \in Locker \cup Stranger : at[t] \in {"unlock", "undo", "try_undo"} => nativeLock = t

(* A lock that was destroyed was free.                                     *)
DestroyedWasFree == ~valid => nativeLock = Free /\ waiters = 0

================================================================================

--------------------------- MODULE WaitWordSemaphore ---------------------------
(***************************************************************************)
(* threading::CWaitWordSemaphore                                           *)
(* (src/core/platform/threading/wait_word_semaphore.cpp): the counting     *)
(* semaphore of the platform layer.  Nobody has control of it: any thread  *)
(* releases permits, and any thread signals the shutdown.                  *)
(***************************************************************************)
EXTENDS WaitWord

CONSTANTS
    User,               \* the threads, each of which may call everything
    MaxGranted          \* bound: the permits released until a restart

UsersAssumption == MaxGranted \in Nat \ {0}

VARIABLES
    adding,             \* the release_count of each release() under way, or 0
    granted, taken,     \* the permits released and taken since the restart
    restarts            \* bound: the calls of restart(), at most one

wordSemaphoreVars == <<word, at, seen, adding, granted, taken, restarts>>

WordSemaphoreInit ==
    /\ word = 0
    /\ at = [t \in User |-> "idle"] /\ seen = [t \in User |-> 0]
    /\ adding = [t \in User |-> 0]
    /\ granted = 0 /\ taken = 0 /\ restarts = 0

(* acquire() goes on until it has a permit or sees the shutdown.           *)
Loads(t, next) ==
    /\ at' = [at EXCEPT ![t] = IF word = Released THEN "idle" ELSE next]
    /\ Sees(t, IF word = Released THEN 0 ELSE word)

AcquirePermit(t) ==
    /\ \/ /\ at[t] \in {"idle", "load"}
          /\ Loads(t, IF word = 0 THEN "wait" ELSE "take")
       \/ WaitWhileEqual(t, 0) /\ UNCHANGED seen
    /\ UNCHANGED <<word, adding, granted, taken, restarts>>

PermitSleepReturns(t) ==
    SpuriousReturn(t) /\ UNCHANGED <<adding, granted, taken, restarts>>

TryAcquirePermit(t) ==
    /\ at[t] = "idle" /\ word \notin {0, Released}
    /\ Loads(t, "try_take")
    /\ UNCHANGED <<word, adding, granted, taken, restarts>>

TakePermit(t) ==
    /\ at[t] \in {"take", "try_take"}
    /\ IF word = seen[t]
       THEN /\ word' = word - 1 /\ taken' = taken + 1
            /\ at' = [at EXCEPT ![t] = "idle"] /\ Sees(t, 0)
       ELSE /\ Loads(t, IF word # 0 THEN at[t] ELSE IF at[t] = "take" THEN "wait" ELSE "idle")
            /\ UNCHANGED <<word, taken>>
    /\ UNCHANGED <<adding, granted, restarts>>
-----------------------------------------------------------------------------
AddPermits(t) ==
    /\ \/ /\ at[t] = "idle" /\ granted < MaxGranted
          /\ \E n \in 1 .. 2 :
               /\ n <= Released - 1 - word
               /\ at' = [at EXCEPT ![t] = "add"] /\ Sees(t, word)
               /\ adding' = [adding EXCEPT ![t] = n]
          /\ UNCHANGED <<word, granted>>
       \/ /\ at[t] = "add" /\ word = seen[t]
          /\ word' = word + adding[t] /\ granted' = granted + adding[t]
          /\ at' = [at EXCEPT ![t] = IF adding[t] = 1 THEN "wake_one" ELSE "wake_all"]
          /\ Sees(t, 0) /\ adding' = [adding EXCEPT ![t] = 0]
       \/ /\ at[t] = "add" /\ word # seen[t]
          /\ IF word = Released \/ adding[t] > Released - 1 - word
             THEN /\ at' = [at EXCEPT ![t] = "idle"] /\ Sees(t, 0)
                  /\ adding' = [adding EXCEPT ![t] = 0]
             ELSE Sees(t, word) /\ UNCHANGED <<at, adding>>
          /\ UNCHANGED <<word, granted>>
    /\ UNCHANGED <<taken, restarts>>

WakesForPermits(t) ==
    /\ WakeOneFrom(t, "wake_one", "idle") \/ WakeAllFrom(t, "wake_all", "idle")
    /\ UNCHANGED <<word, seen, adding, granted, taken, restarts>>

SignalShutdown(t) ==
    /\ Moves(t, "idle", IF word = Released THEN "idle" ELSE "wake_all")
    /\ word' = Released
    /\ UNCHANGED <<seen, adding, granted, taken, restarts>>

(* restart() is for when no operations and no waiters are active.          *)
Restart ==
    /\ restarts = 0 /\ \A t \in User : at[t] = "idle"
    /\ word' = 0 /\ granted' = 0 /\ taken' = 0 /\ restarts' = 1
    /\ UNCHANGED <<at, seen, adding>>

WordSemaphoreNext ==
    \/ Restart
    \/ \E t \in User :
         \/ AcquirePermit(t) \/ PermitSleepReturns(t) \/ TryAcquirePermit(t) \/ TakePermit(t)
         \/ AddPermits(t) \/ WakesForPermits(t) \/ SignalShutdown(t)

(* A call under way goes on.                                               *)
UserGoesOn(t) ==
    at[t] # "idle" /\ (AcquirePermit(t) \/ TakePermit(t) \/ AddPermits(t) \/ WakesForPermits(t))

-----------------------------------------------------------------------------
(* A permit is neither lost nor made, whichever threads release, take and  *)
(* retry at a time.                                                        *)
WordPermitsAreConserved == word # Released => granted = word + taken /\ word < Released

(* While a thread sleeps, each permit has a thread awake to take it, or a  *)
(* wake that is still to come.                                             *)
PermitsFindTakers ==
    word # Released /\ Sleepers # {} /\ (\A t \in User : at[t] # "wake_all")
        => word <= Cardinality({t \in User : at[t] \in {"load", "wait", "take", "wake_one"}})

================================================================================

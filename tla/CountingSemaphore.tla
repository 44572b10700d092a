--------------------------- MODULE CountingSemaphore ---------------------------
(***************************************************************************)
(* threading::CCountingSemaphore                                           *)
(* (src/core/threading/CCountingSemaphore.cpp), with the native backend, a *)
(* wait word, and with the fallback, a parking gate.  Every load, exchange *)
(* and compare-exchange of the count is a step of its own.                 *)
(***************************************************************************)
EXTENDS ParkingGate

CONSTANTS
    Consumer,           \* the threads that call acquire() and try_acquire()
    MaxGranted,         \* bound: the permits released in one control lifetime
    MaxLifetimes        \* bound: the calls of acquire_control()

SemaphoreAssumption ==
    /\ Controller \notin Consumer
    /\ MaxGranted \in Nat \ {0} /\ MaxLifetimes \in Nat

VARIABLES
    native,             \* MV_PLATFORM_HAS_NATIVE_WAIT_WORD
    hasControl,         \* m_has_control
    adding,             \* the release_count of the release() under way
    granted, taken,     \* the permits released and taken in this lifetime
    lifetimes           \* the calls of acquire_control()

semaphoreVars == <<word, at, seen, gates, native, hasControl, adding, granted, taken, lifetimes>>
history == <<granted, taken, lifetimes>>

Caller == Consumer \cup {Controller}
MaxPermit == Released - 1

SemaphoreInit ==
    /\ native \in BOOLEAN
    /\ word = Released /\ hasControl = FALSE
    /\ at = [t \in Caller |-> "idle"] /\ seen = [t \in Caller |-> 0]
    /\ GateInit(Caller)
    /\ adding = 0 /\ granted = 0 /\ taken = 0 /\ lifetimes = 0
-----------------------------------------------------------------------------
(* Control.  m_has_control is read by the controller alone, and is changed *)
(* here with the count.                                                    *)

SemaphoreAcquireControl ==
    /\ lifetimes < MaxLifetimes /\ ~hasControl /\ word = Released
    /\ Moves(Controller, "idle", IF native THEN "open" ELSE "close")
    /\ UNCHANGED <<word, seen, gates, native, hasControl, adding, history>>

ClosesGate ==
    /\ CloseGate("close", "generation") \/ StartGeneration("generation", "open")
    /\ UNCHANGED <<word, seen, native, hasControl, adding, history>>

SemaphoreOpens ==
    /\ Moves(Controller, "open", "idle")
    /\ word' = 0 /\ hasControl' = TRUE
    /\ lifetimes' = lifetimes + 1 /\ granted' = 0 /\ taken' = 0
    /\ UNCHANGED <<seen, gates, native, adding>>

SemaphoreReleaseControl ==
    /\ hasControl
    /\ Moves(Controller, "idle", IF native THEN "wake_all" ELSE "uncontrol")
    /\ word' = Released /\ hasControl' = FALSE
    /\ UNCHANGED <<seen, gates, native, adding, history>>

OpensGate ==
    /\ EndGeneration("uncontrol", "reopen") \/ OpenGate("reopen", "idle")
    /\ UNCHANGED <<word, seen, native, hasControl, adding, history>>
-----------------------------------------------------------------------------
(* Consumers.                                                              *)

(* What a call does with the count it has just seen; it keeps the count    *)
(* only as far as its compare-exchange.                                    *)
AfterSeeing(trying, value) ==
    CASE value = Released -> "idle"
      [] value = 0 -> IF trying THEN "idle" ELSE "wait"
      [] OTHER -> IF trying THEN "try_take" ELSE "take"

Kept(value) == IF value = Released THEN 0 ELSE value

AcquireLoads(t) ==
    /\ at[t] \in {"idle", "load"}
    /\ Sees(t, Kept(word))
    /\ at' = [at EXCEPT ![t] = AfterSeeing(FALSE, word)]
    /\ UNCHANGED <<word, gates, native, hasControl, adding, history>>

AcquireWaits(t) ==
    /\ \/ native /\ WaitWhileEqual(t, 0) /\ UNCHANGED <<word, seen, gates>>
       \/ ~native /\ Park(t)
    /\ UNCHANGED <<native, hasControl, adding, history>>

AcquireReturns(t) ==
    /\ SpuriousReturn(t)
    /\ UNCHANGED <<gates, native, hasControl, adding, history>>

TryAcquireLoads(t) ==
    /\ at[t] = "idle"
    /\ Sees(t, Kept(word))
    /\ at' = [at EXCEPT ![t] = AfterSeeing(TRUE, word)]
    /\ UNCHANGED <<word, gates, native, hasControl, adding, history>>

(* Mutant: the count is stored, whatever it has become.                    *)
StoresPermit(t) ==
    /\ at[t] \in {"take", "try_take"}
    /\ word' = seen[t] - 1 /\ taken' = taken + 1
    /\ at' = [at EXCEPT ![t] = "idle"]
    /\ UNCHANGED <<seen, gates, native, hasControl, adding, granted, lifetimes>>

(* compare_exchange_weak() may fail for no reason.                         *)
TakesPermit(t) ==
    /\ at[t] \in {"take", "try_take"}
    /\ \/ /\ word = seen[t]
          /\ word' = word - 1 /\ taken' = taken + 1
          /\ at' = [at EXCEPT ![t] = "idle"]
          /\ Sees(t, 0)
       \/ /\ Sees(t, Kept(word))
          /\ at' = [at EXCEPT ![t] = AfterSeeing(at[t] = "try_take", word)]
          /\ UNCHANGED <<word, taken>>
    /\ UNCHANGED <<gates, native, hasControl, adding, granted, lifetimes>>
-----------------------------------------------------------------------------
(* release().                                                              *)

ReleaseLoads(n) ==
    /\ hasControl /\ granted < MaxGranted
    /\ IF n > MaxPermit - word
       THEN at[Controller] = "idle" /\ UNCHANGED <<at, seen, adding>>
       ELSE Moves(Controller, "idle", "add") /\ Sees(Controller, word) /\ adding' = n
    /\ UNCHANGED <<word, gates, native, hasControl, history>>

ReleaseAdds ==
    /\ at[Controller] = "add"
    /\ IF word = seen[Controller]
       THEN /\ word' = word + adding /\ granted' = granted + adding
            /\ at' = [at EXCEPT ![Controller] =
                        IF ~native THEN "cycle" ELSE IF adding = 1 THEN "wake_one" ELSE "wake_all"]
            /\ Sees(Controller, 0) /\ adding' = 0
       ELSE /\ IF adding > MaxPermit - word
               THEN Moves(Controller, "add", "idle") /\ Sees(Controller, 0) /\ adding' = 0
               ELSE Sees(Controller, word) /\ UNCHANGED <<at, adding>>
            /\ UNCHANGED <<word, granted>>
    /\ UNCHANGED <<gates, native, hasControl, taken, lifetimes>>

(* Mutant: only one waiter is woken, whatever the number of permits.       *)
ReleaseWakesOne ==
    /\ WakeOneFrom(Controller, "wake_one", "idle") \/ WakeOneFrom(Controller, "wake_all", "idle")
    /\ UNCHANGED <<word, seen, gates, native, hasControl, adding, history>>

(* release_control() wakes everyone too.                                   *)
ReleaseWakes ==
    /\ WakeOneFrom(Controller, "wake_one", "idle") \/ WakeAllFrom(Controller, "wake_all", "idle")
    /\ UNCHANGED <<word, seen, gates, native, hasControl, adding, history>>

ReleaseCycles ==
    /\ \/ CloseOpenPhase("cycle", "switch")
       \/ SwitchPhase("switch", "reopen_phase")
       \/ OpenGate("reopen_phase", "idle")
    /\ UNCHANGED <<word, seen, native, hasControl, adding, history>>
-----------------------------------------------------------------------------
SemaphoreConsumes(t) ==
    AcquireLoads(t) \/ AcquireWaits(t) \/ AcquireReturns(t) \/ TryAcquireLoads(t) \/ TakesPermit(t)

SemaphoreControls ==
    \/ SemaphoreAcquireControl \/ ClosesGate \/ SemaphoreOpens
    \/ SemaphoreReleaseControl \/ OpensGate
    \/ (\E n \in 1 .. 2 : ReleaseLoads(n)) \/ ReleaseAdds \/ ReleaseWakes \/ ReleaseCycles

SemaphoreNext == SemaphoreControls \/ \E t \in Consumer : SemaphoreConsumes(t)

(* A thread goes on with the call it is in; nobody has to begin one.  A    *)
(* lock is granted to a thread that keeps waiting for it (GateGranted).    *)
OwnerGoesOn == at[Controller] # "idle" /\ SemaphoreControls
ConsumerGoesOn(t) == at[t] # "idle" /\ (AcquireLoads(t) \/ AcquireWaits(t) \/ TakesPermit(t))
GateGranted(t) == at[t] = "park" /\ AcquireWaits(t)

-----------------------------------------------------------------------------
(* A permit is neither lost nor made: those released in this lifetime are  *)
(* the ones taken and the ones left, and no more than the count can hold.  *)
PermitsAreConserved ==
    /\ word # Released => granted = word + taken
    /\ hasControl => word # Released /\ word <= MaxPermit

(* No permit is left to nobody: while a thread sleeps in acquire(), there  *)
(* are no more permits than there are threads awake to take them, once the *)
(* release() that brought them has woken whom it wakes.                    *)
NoStrandedPermit ==
    native /\ word # Released /\ at[Controller] = "idle" /\ Sleepers # {}
        => word <= Cardinality({t \in Consumer : at[t] \in {"load", "wait", "take"}})

(* "acquire() consumes one permit, blocking while no permit is available": *)
(* nobody is blocked at a closed gate while there is a permit.             *)
ParkedHavePermits ==
    ~native /\ hasControl /\ at[Controller] = "idle" /\ word # 0
        => \A t \in Consumer : at[t] = "park" => gate[passing[t].phase] # Controller

================================================================================

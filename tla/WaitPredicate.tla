----------------------------- MODULE WaitPredicate -----------------------------
(***************************************************************************)
(* threading::CWaitPredicate (src/core/threading/CWaitPredicate.cpp): a    *)
(* controlled word and the threads that wait until it equals, or differs   *)
(* from, a value; on a wait word, or on a parking gate.                    *)
(***************************************************************************)
EXTENDS ParkingGate

CONSTANTS
    Waiter,             \* the threads that wait
    MaxChanges,         \* bound: the changes of the word and the wakes without a change
    MaxLifetimes        \* bound: the calls of acquire_control()

PredicateAssumption ==
    /\ Controller \notin Waiter
    /\ MaxChanges \in Nat /\ MaxLifetimes \in Nat

VARIABLES
    native,             \* MV_PLATFORM_HAS_NATIVE_WAIT_WORD
    hasControl,         \* m_has_control
    wait,               \* what each waiter waits for
    owed,               \* whether the last change of the word has not been announced to all
    changes, lifetimes

predicateVars == <<word, at, seen, gates, native, hasControl, wait, owed, changes, lifetimes>>
history == <<changes, lifetimes>>

Caller == Waiter \cup {Controller}
Value == 0 .. Released - 1          \* k_max_predicate_word is the greatest

NoWait == [until |-> "equal", value |-> 0]

PredicateInit ==
    /\ native \in BOOLEAN
    /\ word = Released /\ hasControl = FALSE
    /\ at = [t \in Caller |-> "idle"] /\ seen = [t \in Caller |-> 0]
    /\ GateInit(Caller)
    /\ wait = [t \in Waiter |-> NoWait]
    /\ owed = FALSE /\ changes = 0 /\ lifetimes = 0
-----------------------------------------------------------------------------
(* Control.  m_has_control is read by the controller alone, and is changed *)
(* here with the word.                                                     *)

PredicateAcquireControl ==
    /\ lifetimes < MaxLifetimes /\ ~hasControl /\ word = Released
    /\ Moves(Controller, "idle", IF native THEN "open" ELSE "close")
    /\ UNCHANGED <<word, seen, gates, native, hasControl, wait, owed, history>>

ClosesGate ==
    /\ CloseGate("close", "generation") \/ StartGeneration("generation", "open")
    /\ UNCHANGED <<word, seen, native, hasControl, wait, owed, history>>

PredicateOpens(initial) ==
    /\ Moves(Controller, "open", "idle")
    /\ word' = initial /\ hasControl' = TRUE
    /\ lifetimes' = lifetimes + 1 /\ owed' = TRUE
    /\ UNCHANGED <<seen, gates, native, wait, changes>>

PredicateReleaseControl ==
    /\ hasControl
    /\ Moves(Controller, "idle", IF native THEN "wake_all" ELSE "uncontrol")
    /\ word' = Released /\ hasControl' = FALSE /\ owed' = FALSE
    /\ UNCHANGED <<seen, gates, native, wait, history>>

OpensGate ==
    /\ EndGeneration("uncontrol", "reopen") \/ OpenGate("reopen", "idle")
    /\ UNCHANGED <<word, seen, native, hasControl, wait, owed, history>>
-----------------------------------------------------------------------------
(* Waiters.                                                                *)

Ready(t, value) ==
    IF wait[t].until = "equal" THEN value \in {wait[t].value, Released} ELSE value # wait[t].value

BeginsWait(t) ==
    /\ Moves(t, "idle", "load")
    /\ \E u \in {"equal", "different"}, v \in Value :
         wait' = [wait EXCEPT ![t] = [until |-> u, value |-> v]]
    /\ UNCHANGED <<word, seen, gates, native, hasControl, owed, history>>

WaitLoads(t) ==
    /\ Moves(t, "load", IF Ready(t, word) THEN "idle" ELSE "wait")
    /\ IF Ready(t, word)
       THEN wait' = [wait EXCEPT ![t] = NoWait] /\ Sees(t, 0)
       ELSE UNCHANGED wait /\ Sees(t, IF native THEN word ELSE 0)
    /\ UNCHANGED <<word, gates, native, hasControl, owed, history>>

WaitSleeps(t) ==
    /\ \/ native /\ WaitWhileEqual(t, seen[t]) /\ UNCHANGED <<word, seen, gates>>
       \/ ~native /\ Park(t)
    /\ UNCHANGED <<native, hasControl, wait, owed, history>>

WaitReturns(t) ==
    /\ SpuriousReturn(t)
    /\ UNCHANGED <<gates, native, hasControl, wait, owed, history>>
-----------------------------------------------------------------------------
(* Changes: set(), increment() and decrement(), each alone or with a wake  *)
(* of one waiter or of all.                                                *)

NextPredicateWord(v) == IF v >= Released - 1 THEN 0 ELSE v + 1
PreviousPredicateWord(v) == IF v = 0 THEN Released - 1 ELSE v - 1

NewWords == Value \cup {NextPredicateWord(word), PreviousPredicateWord(word)}

(* Only the controller changes the word: its compare-exchange succeeds.    *)
Changes(wakes) ==
    /\ hasControl /\ changes < MaxChanges
    /\ word' \in NewWords
    /\ Moves(Controller, "idle",
             IF wakes = "none" THEN "idle"
             ELSE IF ~native THEN "cycle"
             ELSE IF wakes = "one" THEN "wake_one" ELSE "wake_all")
    /\ owed' = (wakes # "all")
    /\ changes' = changes + 1
    /\ UNCHANGED <<seen, gates, native, hasControl, wait, lifetimes>>

(* wake_one_waiter() and wake_all_waiters().                               *)
OnlyWakes(wakes) ==
    /\ hasControl /\ changes < MaxChanges
    /\ Moves(Controller, "idle",
             IF ~native THEN "cycle" ELSE IF wakes = "one" THEN "wake_one" ELSE "wake_all")
    /\ owed' = (owed /\ wakes # "all")
    /\ changes' = changes + 1
    /\ UNCHANGED <<word, seen, gates, native, hasControl, wait, lifetimes>>

WakesWaiters ==
    /\ WakeOneFrom(Controller, "wake_one", "idle") \/ WakeAllFrom(Controller, "wake_all", "idle")
    /\ UNCHANGED <<word, seen, gates, native, hasControl, wait, owed, history>>

CyclesGate ==
    /\ \/ CloseOpenPhase("cycle", "switch")
       \/ SwitchPhase("switch", "reopen_phase")
       \/ OpenGate("reopen_phase", "idle")
    /\ UNCHANGED <<word, seen, native, hasControl, wait, owed, history>>
-----------------------------------------------------------------------------
PredicateWaits(t) == BeginsWait(t) \/ WaitLoads(t) \/ WaitSleeps(t) \/ WaitReturns(t)

PredicateControls ==
    \/ PredicateAcquireControl \/ ClosesGate \/ (\E v \in {0, Released - 1} : PredicateOpens(v))
    \/ PredicateReleaseControl \/ OpensGate
    \/ (\E wakes \in {"none", "one", "all"} : Changes(wakes))
    \/ (\E wakes \in {"one", "all"} : OnlyWakes(wakes))
    \/ WakesWaiters \/ CyclesGate

PredicateNext == PredicateControls \/ \E t \in Waiter : PredicateWaits(t)

OwnerGoesOn == at[Controller] # "idle" /\ PredicateControls
WaiterGoesOn(t) == WaitLoads(t) \/ WaitSleeps(t)
GateGranted(t) == at[t] = "park" /\ WaitSleeps(t)

-----------------------------------------------------------------------------
(* The sentinel is stored by release_control() alone: however often the    *)
(* word is counted up or down, it wraps without passing it.                *)
OnlyReleaseIsReleased == hasControl <=> word # Released

(* A thread does not sleep past what it waits for: once the change has     *)
(* been announced to all, whoever still sleeps waits for something else.   *)
NoMissedWord ==
    native /\ ~owed /\ at[Controller] = "idle" => \A t \in Sleepers : ~Ready(t, word)

================================================================================

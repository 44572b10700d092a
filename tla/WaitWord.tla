------------------------------- MODULE WaitWord -------------------------------
(***************************************************************************)
(* platform::threading::wait_while_equal, wake_one_waiter and              *)
(* wake_all_waiters (src/core/platform/threading/wait_word.cpp): a 32-bit  *)
(* word and the threads that sleep on it.  The kernel compares the word    *)
(* and parks the caller in one step, and may wake a sleeper for no reason. *)
(***************************************************************************)
EXTENDS Naturals, FiniteSets

CONSTANT Released       \* the sentinel ~0, above every ordinary value

SentinelAssumption == Released \in Nat \ (0 .. 1)

VARIABLES
    word,               \* the atomic word
    at,                 \* where each thread is in its call
    seen                \* the word each thread last read

WordValue == 0 .. Released
Sleepers == {t \in DOMAIN at : at[t] = "asleep"}

Moves(t, from, to) == at[t] = from /\ at' = [at EXCEPT ![t] = to]
Sees(t, value) == seen' = [seen EXCEPT ![t] = value]

(* Mutant: the word is compared before the thread is parked.               *)
SleepsUnchecked(t, expected) == Moves(t, "wait", "asleep")

WaitWhileEqual(t, expected) ==
    Moves(t, "wait", IF word = expected THEN "asleep" ELSE "load")

WakeOneFrom(t, step, next) ==
    /\ at[t] = step
    /\ IF Sleepers = {}
       THEN at' = [at EXCEPT ![t] = next]
       ELSE \E s \in Sleepers : at' = [at EXCEPT ![t] = next, ![s] = "load"]

WakeAllFrom(t, step, next) ==
    /\ at[t] = step
    /\ at' = [s \in DOMAIN at |->
                IF s = t THEN next ELSE IF s \in Sleepers THEN "load" ELSE at[s]]

SpuriousReturn(t) == Moves(t, "asleep", "load") /\ UNCHANGED <<word, seen>>
================================================================================

------------------------------ MODULE ParkingGate ------------------------------
(***************************************************************************)
(* threading::CParkingGate (src/core/threading/CParkingGate.cpp): the      *)
(* place to block of a platform without wait words.  Two locks are gates;  *)
(* the controller holds the one of the closed phase, and a thread that     *)
(* parks passes through the gate its ticket names.  Every acquisition and  *)
(* release of a lock and every store of the state is a step of its own.    *)
(***************************************************************************)
EXTENDS WaitWord

CONSTANTS
    Controller,         \* the thread that has control
    Nobody,
    Generations         \* the number of generations before they come round

VARIABLES
    gate,               \* m_gates: who holds the lock of each phase
    gateState,          \* m_state: generation, control and phase
    ticket,             \* each thread's CParkingTicket, packed as m_state
    passing             \* the state a parking thread read, and the phase it parks on

gates == <<gate, gateState, ticket, passing>>

Phase == {0, 1}
StateWord == [generation : 0 .. Generations - 1, control : BOOLEAN, phase : Phase]
Blank == [generation |-> 0, control |-> FALSE, phase |-> 0]

GateInit(threads) ==
    /\ gate = [p \in Phase |-> Nobody]
    /\ gateState = Blank
    /\ ticket = [t \in threads |-> Blank]
    /\ passing = [t \in threads |-> Blank]

GateControlled == gateState.control

(* acquire_control(): the phase 0 is closed, in a new generation.          *)
CloseGate(step, next) ==
    /\ Moves(Controller, step, next)
    /\ gate[0] = Nobody
    /\ gate' = [gate EXCEPT ![0] = Controller]
    /\ UNCHANGED <<gateState, ticket, passing>>

StartGeneration(step, next) ==
    /\ Moves(Controller, step, next)
    /\ gateState' = [generation |-> (gateState.generation + 1) % Generations,
                     control |-> TRUE, phase |-> 0]
    /\ UNCHANGED <<gate, ticket, passing>>

(* release_control(): uncontrolled, and then the closed gate is opened.    *)
EndGeneration(step, next) ==
    /\ Moves(Controller, step, next)
    /\ gateState' = [gateState EXCEPT !.control = FALSE, !.phase = 0]
    /\ UNCHANGED <<gate, ticket, passing>>

(* Of the gates the controller holds, the one that is not the closed one.  *)
OpenGate(step, next) ==
    /\ Moves(Controller, step, next)
    /\ gate' = [p \in Phase |->
                  IF gate[p] = Controller /\ ~(GateControlled /\ p = gateState.phase)
                  THEN Nobody ELSE gate[p]]
    /\ UNCHANGED <<gateState, ticket, passing>>

(* cycle_phase(): close the open gate, store the phase, open the other.    *)
CloseOpenPhase(step, next) ==
    /\ Moves(Controller, step, next)
    /\ gate[1 - gateState.phase] = Nobody
    /\ gate' = [gate EXCEPT ![1 - gateState.phase] = Controller]
    /\ UNCHANGED <<gateState, ticket, passing>>

SwitchPhase(step, next) ==
    /\ Moves(Controller, step, next)
    /\ gateState' = [gateState EXCEPT !.phase = 1 - @]
    /\ UNCHANGED <<gate, ticket, passing>>

(* park(): a ticket of an earlier generation does not park.                *)
ParkReads(t) ==
    /\ IF ~GateControlled
            \/ (ticket[t].control /\ ticket[t].generation # gateState.generation)
       THEN /\ Moves(t, "wait", "load")
            /\ ticket' = [ticket EXCEPT ![t] = gateState]
            /\ UNCHANGED passing
       ELSE /\ Moves(t, "wait", "park")
            /\ passing' = [passing EXCEPT ![t] =
                 [gateState EXCEPT !.phase =
                    IF ticket[t].control THEN ticket[t].phase ELSE @]]
            /\ UNCHANGED ticket
    /\ UNCHANGED <<gate, gateState>>

ParkEnters(t) ==
    /\ Moves(t, "park", "pass")
    /\ gate[passing[t].phase] = Nobody
    /\ gate' = [gate EXCEPT ![passing[t].phase] = t]
    /\ UNCHANGED <<gateState, ticket, passing>>

ParkLeaves(t) ==
    /\ Moves(t, "pass", "load")
    /\ gate' = [gate EXCEPT ![passing[t].phase] = Nobody]
    /\ ticket' = [ticket EXCEPT ![t] = [passing[t] EXCEPT !.phase = 1 - @]]
    /\ passing' = [passing EXCEPT ![t] = Blank]
    /\ UNCHANGED gateState

Park(t) ==
    /\ ParkReads(t) \/ ParkEnters(t) \/ ParkLeaves(t)
    /\ UNCHANGED <<word, seen>>
================================================================================

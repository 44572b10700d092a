------------------------------ MODULE ClaimRing ------------------------------
(***************************************************************************)
(* What TMpmcIndexRing<> of                                                *)
(* src/core/threading/transports/TMpmcTransport.hpp promises the threads   *)
(* that share it: a bounded FIFO in which an operation first claims its    *)
(* cell and later completes.  Claims happen in order, completions in any   *)
(* order; an operation that is not admitted changes nothing.               *)
(*                                                                         *)
(* cells is the window from the oldest cell that is not vacated to the     *)
(* newest that is claimed by a push.  A cell is                            *)
(*   "filling"   claimed by a push                                         *)
(*   "full"      pushed                                                    *)
(*   "emptying"  claimed by a pop                                          *)
(*   "vacated"   popped, behind a cell that is not                         *)
(***************************************************************************)
EXTENDS Integers, Sequences, FiniteSetsExt

CONSTANTS Item, Capacity, InitialItems

VARIABLE cells

Init == cells = [k \in DOMAIN InitialItems |-> [item |-> InitialItems[k], state |-> "full"]]

InState(state) == {k \in DOMAIN cells : cells[k].state = state}

(* The cell the next pop claims, which only a completed push makes ready.  *)
Waiting == InState("filling") \cup InState("full")
CanPush == Len(cells) < Capacity
CanPop == Waiting # {} /\ Min(Waiting) \in InState("full")
Front == Min(Waiting)

WithState(k, state) == [cells EXCEPT ![k].state = state]

ClaimPush(item) ==
    /\ CanPush
    /\ cells' = Append(cells, [item |-> item, state |-> "filling"])

CompletePush(k) ==
    /\ k \in InState("filling")
    /\ cells' = WithState(k, "full")

ClaimPop ==
    /\ CanPop
    /\ cells' = WithState(Front, "emptying")

(* A vacated cell is free once all before it are.                          *)
CompletePop(k) ==
    /\ k \in InState("emptying")
    /\ LET left == DOMAIN cells \ (InState("vacated") \cup {k})
           first == IF left = {} THEN Len(cells) + 1 ELSE Min(left)
       IN  cells' = SubSeq(WithState(k, "vacated"), first, Len(cells))

Next ==
    \/ \E item \in Item : ClaimPush(item)
    \/ ClaimPop
    \/ \E k \in DOMAIN cells : CompletePush(k) \/ CompletePop(k)

Spec == Init /\ [][Next]_cells
=============================================================================

----------------------------- MODULE BoundedFifo -----------------------------
(***************************************************************************)
(* What a bounded ring transport of src/core/threading/transports promises *)
(* its two endpoints: items leave in the order they entered, each exactly  *)
(* once, whole batches at a time, and no more are in it than it holds.     *)
(*                                                                         *)
(*   offered   the items of the post in progress                           *)
(*   contents  the items posted and not yet read                           *)
(*   taken     the destination of the most recent read                     *)
(*   room      the capacity                                                *)
(***************************************************************************)
EXTENDS Integers, Sequences

VARIABLES offered, contents, taken, room

vars == <<offered, contents, taken, room>>

Init ==
    /\ offered = <<>>
    /\ contents = <<>>
    /\ taken = <<>>
    /\ room = 0

(* A setup or teardown empties the channel.                                *)
Reset ==
    /\ contents' = <<>>
    /\ room' \in Nat
    /\ room # 0 => room' = 0
    /\ UNCHANGED <<offered, taken>>

Offer ==
    /\ offered = <<>>
    /\ UNCHANGED <<contents, taken, room>>

Send ==
    /\ contents' = contents \o offered
    /\ Len(contents') <= room
    /\ offered' = <<>>
    /\ UNCHANGED <<taken, room>>

Receive ==
    /\ taken' # <<>>
    /\ contents = taken' \o contents'
    /\ UNCHANGED <<offered, room>>

Next == Reset \/ Offer \/ Send \/ Receive

Spec == Init /\ [][Next]_vars
=============================================================================

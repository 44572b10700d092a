----------------------------- MODULE FifoChannel -----------------------------
(***************************************************************************)
(* What a single-producer single-consumer transport of                     *)
(* src/core/threading/transports promises its two endpoints: items leave   *)
(* in the order they entered, each at most once, none is invented, and     *)
(* what the consumer has accepted is never taken back.                     *)
(*                                                                         *)
(*   offered   the items of the post in progress, until they are visible   *)
(*   backlog   the items published and not yet accepted by the consumer    *)
(*   held      the items accepted by the consumer and not yet read         *)
(*   taken     the destination of the consumer's most recent read          *)
(*   lossy     TRUE while the transport may abandon its backlog            *)
(*   open      TRUE between a setup and the teardown that follows it       *)
(***************************************************************************)
EXTENDS Sequences

VARIABLES offered, backlog, held, taken, lossy, open

vars == <<offered, backlog, held, taken, lossy, open>>

Init ==
    /\ offered = <<>>
    /\ backlog = <<>>
    /\ held = <<>>
    /\ taken = <<>>
    /\ lossy = FALSE
    /\ open = FALSE

(* A setup or teardown of the transport empties the channel.               *)
Reset ==
    /\ open' = ~open
    /\ backlog' = <<>>
    /\ held' = <<>>
    /\ lossy' \in BOOLEAN
    /\ UNCHANGED <<offered, taken>>

(* A post begins, or fails before any of it is visible.                    *)
Prepare ==
    /\ open
    /\ offered = <<>> \/ offered' = <<>>
    /\ UNCHANGED <<backlog, held, taken, lossy, open>>

(* A post makes all of its items visible at once, behind all the others.   *)
Post ==
    /\ open
    /\ backlog' = backlog \o offered
    /\ offered' = <<>>
    /\ UNCHANGED <<held, taken, lossy, open>>

(* A post to a lossy channel may replace the backlog, never what is held.  *)
PostDiscarding ==
    /\ open /\ lossy
    /\ backlog' = offered
    /\ offered' = <<>>
    /\ UNCHANGED <<held, taken, lossy, open>>

(* Acceptance moves the whole backlog to a consumer that holds nothing.    *)
Accept ==
    /\ held = <<>>
    /\ held' = backlog
    /\ backlog' = <<>>
    /\ UNCHANGED <<offered, taken, lossy, open>>

(* A read takes its whole request from the front of what is held.          *)
Take ==
    /\ held = taken' \o held'
    /\ UNCHANGED <<offered, backlog, lossy, open>>

Next == Reset \/ Prepare \/ Post \/ PostDiscarding \/ Accept \/ Take

Spec == Init /\ [][Next]_vars
=============================================================================

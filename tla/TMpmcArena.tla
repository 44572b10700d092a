------------------------------ MODULE TMpmcArena ------------------------------
(***************************************************************************)
(* threading::transports::TMpmcArenaTransport<>                            *)
(* (src/core/threading/transports/TMpmcTransport.hpp): an arena of slots   *)
(* that circulate through a supplier ring and a populated ring, and its    *)
(* orderly closing.                                                        *)
(*                                                                         *)
(* The rings are ClaimRings, which TMpmcIndexRing implements; a ring       *)
(* operation is its claim and its completion.  Each load and each          *)
(* read-modify-write of the status word and of the outstanding count is an *)
(* action of its own.                                                      *)
(***************************************************************************)
EXTENDS Integers, Sequences, FiniteSets

CONSTANTS
    Producer, Consumer,     \* the threads of each protocol
    Closer,                 \* the thread that calls begin_closing()
    Capacity,               \* k_capacity
    MayShutdown             \* whether shutdown() is called

ArenaAssumption ==
    /\ Capacity \in Nat \ {0}
    /\ MayShutdown \in BOOLEAN
    /\ Producer \cap Consumer = {} /\ Closer \notin Producer \cup Consumer
    /\ IsFiniteSet(Producer \cup Consumer)

VARIABLES
    supplier, populated,    \* the windows of the two rings
    status,                 \* m_status_word
    outstanding,            \* m_outstanding_count
    at,                     \* where each thread is
    index,                  \* the arena index in each thread's hands, or None
    lost                    \* the indices whose publish() or recycle() returned false

vars == <<supplier, populated, status, outstanding, at, index, lost>>
rings == <<supplier, populated>>
words == <<status, outstanding>>

Thread == Producer \cup Consumer
Index == 0 .. Capacity - 1
None == Capacity

Supplier == INSTANCE ClaimRing
    WITH cells <- supplier, Item <- Index, InitialItems <- [k \in 1 .. Capacity |-> k - 1]
Populated == INSTANCE ClaimRing
    WITH cells <- populated, Item <- Index, InitialItems <- <<>>

Init ==
    /\ Supplier!Init /\ Populated!Init
    /\ status = "open" /\ outstanding = 0
    /\ at = [t \in Thread \cup {Closer} |-> "idle"]
    /\ index = [t \in Thread |-> None]
    /\ lost = {}

Moves(t, from, to) == at[t] = from /\ at' = [at EXCEPT ![t] = to]

(* A call that returns false leaves its index in nobody's hands.           *)
Drops(t) ==
    /\ lost' = lost \cup {index[t]}
    /\ index' = [index EXCEPT ![t] = None]

AllowsReserve == status = "open"
AllowsAcquireOrComplete == status \in {"open", "closing"}

(* The cell of a ring in which an index is on its way.                     *)
CellOf(cells, state, i) ==
    CHOOSE k \in DOMAIN cells : cells[k].state = state /\ cells[k].item = i
-----------------------------------------------------------------------------
(* reserve(): the status, the pop, and only then the count.                *)

ReserveCheck(t) ==
    /\ t \in Producer /\ AllowsReserve
    /\ Moves(t, "idle", "reserve")
    /\ UNCHANGED <<rings, words, index, lost>>

ReserveClaim(t) ==
    \/ /\ Supplier!CanPop
       /\ Moves(t, "reserve", "reserved")
       /\ index' = [index EXCEPT ![t] = supplier[Supplier!Front].item]
       /\ Supplier!ClaimPop
       /\ UNCHANGED <<populated, words, lost>>
    \/ /\ ~Supplier!CanPop
       /\ Moves(t, "reserve", "idle")
       /\ UNCHANGED <<rings, words, index, lost>>

ReserveComplete(t) ==
    /\ Moves(t, "reserved", "count")
    /\ Supplier!CompletePop(CellOf(supplier, "emptying", index[t]))
    /\ UNCHANGED <<populated, words, index, lost>>

(* Mutant: a reservation that completes after the closing is not counted.  *)
ReserveCountOpen(t) ==
    /\ Moves(t, "count", "holding")
    /\ outstanding' = IF AllowsReserve THEN outstanding + 1 ELSE outstanding
    /\ UNCHANGED <<rings, status, index, lost>>

ReserveCount(t) ==
    /\ Moves(t, "count", "holding")
    /\ outstanding' = outstanding + 1
    /\ UNCHANGED <<rings, status, index, lost>>

(* publish(): the status and the push.                                     *)

PublishCheck(t) ==
    /\ t \in Producer
    /\ IF AllowsAcquireOrComplete
       THEN Moves(t, "holding", "publish") /\ UNCHANGED <<index, lost>>
       ELSE Moves(t, "holding", "idle") /\ Drops(t)
    /\ UNCHANGED <<rings, words>>

PublishClaim(t) ==
    \/ /\ Populated!CanPush
       /\ Moves(t, "publish", "published")
       /\ Populated!ClaimPush(index[t])
       /\ UNCHANGED <<supplier, words, index, lost>>
    \/ /\ ~Populated!CanPush
       /\ Moves(t, "publish", "idle") /\ Drops(t)
       /\ UNCHANGED <<rings, words>>

PublishComplete(t) ==
    /\ Moves(t, "published", "idle")
    /\ Populated!CompletePush(CellOf(populated, "filling", index[t]))
    /\ index' = [index EXCEPT ![t] = None]
    /\ UNCHANGED <<supplier, words, lost>>
-----------------------------------------------------------------------------
(* acquire(): the status and the pop.                                      *)

AcquireCheck(t) ==
    /\ t \in Consumer /\ AllowsAcquireOrComplete
    /\ Moves(t, "idle", "acquire")
    /\ UNCHANGED <<rings, words, index, lost>>

AcquireClaim(t) ==
    \/ /\ Populated!CanPop
       /\ Moves(t, "acquire", "acquired")
       /\ index' = [index EXCEPT ![t] = populated[Populated!Front].item]
       /\ Populated!ClaimPop
       /\ UNCHANGED <<supplier, words, lost>>
    \/ /\ ~Populated!CanPop
       /\ Moves(t, "acquire", "idle")
       /\ UNCHANGED <<rings, words, index, lost>>

AcquireComplete(t) ==
    /\ Moves(t, "acquired", "holding")
    /\ Populated!CompletePop(CellOf(populated, "emptying", index[t]))
    /\ UNCHANGED <<supplier, words, index, lost>>

(* recycle(): the status, the push, the count, and the last one closes.    *)

RecycleCheck(t) ==
    /\ t \in Consumer
    /\ IF AllowsAcquireOrComplete
       THEN Moves(t, "holding", "recycle") /\ UNCHANGED <<index, lost>>
       ELSE Moves(t, "holding", "idle") /\ Drops(t)
    /\ UNCHANGED <<rings, words>>

RecycleClaim(t) ==
    \/ /\ Supplier!CanPush
       /\ Moves(t, "recycle", "recycled")
       /\ Supplier!ClaimPush(index[t])
       /\ UNCHANGED <<populated, words, index, lost>>
    \/ /\ ~Supplier!CanPush
       /\ Moves(t, "recycle", "idle") /\ Drops(t)
       /\ UNCHANGED <<rings, words>>

RecycleComplete(t) ==
    /\ Moves(t, "recycled", "uncount")
    /\ Supplier!CompletePush(CellOf(supplier, "filling", index[t]))
    /\ index' = [index EXCEPT ![t] = None]
    /\ UNCHANGED <<populated, words, lost>>

(* Mutant: the value before the decrement is taken for the value after it. *)
RecycleCountAfter(t) ==
    /\ Moves(t, "uncount", IF outstanding = 0 THEN "close" ELSE "idle")
    /\ outstanding' = outstanding - 1
    /\ UNCHANGED <<rings, status, index, lost>>

RecycleCount(t) ==
    /\ Moves(t, "uncount", IF outstanding = 1 THEN "close" ELSE "idle")
    /\ outstanding' = outstanding - 1
    /\ UNCHANGED <<rings, status, index, lost>>

RecycleClose(t) ==
    /\ Moves(t, "close", "idle")
    /\ status' = IF status = "closing" THEN "closed" ELSE status
    /\ UNCHANGED <<rings, outstanding, index, lost>>
-----------------------------------------------------------------------------
(* begin_closing() and shutdown().                                         *)

BeginClosing ==
    /\ status = "open"
    /\ Moves(Closer, "idle", "closing")
    /\ status' = "closing"
    /\ UNCHANGED <<rings, outstanding, index, lost>>

ClosingLoad ==
    /\ Moves(Closer, "closing", IF outstanding = 0 THEN "close" ELSE "done")
    /\ UNCHANGED <<rings, words, index, lost>>

ClosingClose ==
    /\ Moves(Closer, "close", "done")
    /\ status' = IF status = "closing" THEN "closed" ELSE status
    /\ UNCHANGED <<rings, outstanding, index, lost>>

Shutdown ==
    /\ MayShutdown
    /\ status' = "shutdown"
    /\ UNCHANGED <<rings, outstanding, at, index, lost>>
-----------------------------------------------------------------------------
ThreadNext(t) ==
    \/ ReserveCheck(t) \/ ReserveClaim(t) \/ ReserveComplete(t) \/ ReserveCount(t)
    \/ PublishCheck(t) \/ PublishClaim(t) \/ PublishComplete(t)
    \/ AcquireCheck(t) \/ AcquireClaim(t) \/ AcquireComplete(t)
    \/ RecycleCheck(t) \/ RecycleClaim(t) \/ RecycleComplete(t)
    \/ RecycleCount(t) \/ RecycleClose(t)

Closing == BeginClosing \/ ClosingLoad \/ ClosingClose

Next == Closing \/ Shutdown \/ \E t \in Thread : ThreadNext(t)

Spec == Init /\ [][Next]_vars

(* Threads run, producers complete what they reserve, and consumers keep   *)
(* polling, as the debug writer does until its transport is closed.        *)
Fairness ==
    /\ \A t \in Thread : WF_vars(ThreadNext(t) /\ ~ReserveCheck(t))
    /\ WF_vars(ClosingLoad \/ ClosingClose)

FairSpec == Spec /\ Fairness
-----------------------------------------------------------------------------
TypeOK ==
    /\ \A cells \in {supplier, populated} :
          /\ Len(cells) <= Capacity
          /\ \A k \in DOMAIN cells : cells[k].item \in Index
    /\ status \in {"open", "closing", "closed", "shutdown"}
    /\ outstanding \in Int
    /\ index \in [Thread -> Index \cup {None}]
    /\ lost \subseteq Index

(* An index that waits in a ring, from the claim of its push to the claim  *)
(* of its pop.                                                             *)
WaitsIn(cells, i) == {k \in DOMAIN cells : cells[k].item = i /\ cells[k].state \in {"filling", "full"}}
Holders(i) == {t \in Thread : index[t] = i /\ at[t] \notin {"published", "recycled"}}

(* An arena slot has one owner: a ring, the thread that populates or       *)
(* processes it, or nobody once a call has failed with it.                 *)
OneOwner ==
    \A i \in Index :
        Cardinality(WaitsIn(supplier, i)) + Cardinality(WaitsIn(populated, i))
            + Cardinality(Holders(i)) + (IF i \in lost THEN 1 ELSE 0) = 1

(* The outstanding count is the number of indices away from the supplier   *)
(* ring, but for the calls between a ring operation and the count.         *)
CountIsExact ==
    outstanding =
        Cardinality({i \in Index : WaitsIn(supplier, i) = {}})
        - Cardinality({t \in Thread : at[t] \in {"reserved", "count"}})
        + Cardinality({t \in Thread : at[t] \in {"recycled", "uncount"}})

(* The count never goes below zero, although it is raised after the pop    *)
(* and lowered after the push.                                             *)
CountNeverWraps == outstanding >= 0

(* A transport that is closing with nothing outstanding, and with no call  *)
(* about to find that out, has closed: the two ways to close leave no gap  *)
(* between them.                                                           *)
NoMissedClose ==
    (status = "closing" /\ outstanding = 0) =>
        \/ at[Closer] \in {"closing", "close"}
        \/ \E t \in Thread : at[t] = "close"

(* Orderly closing completes, unless a push that was refused beside a      *)
(* stalled pop has lost an index, whose count then never comes down.       *)
ClosingCompletes == (status = "closing") ~> (status # "closing" \/ lost # {})

(* TMpmcTransport.md: closed means drained.  "This prevents a temporarily  *)
(* empty populated ring from being mistaken for a fully drained transport  *)
(* while a producer or consumer still owns an index."                      *)
ClosedIsDrained == status = "closed" => \A i \in Index : Holders(i) = {}

(* TMpmcTransport.md: "Successful admission is an irrevocable protocol     *)
(* commitment", whose completion is admitted in `open' and `closing'.      *)
CompletionIsAdmitted == (status \in {"open", "closing"}) => lost = {}
=============================================================================

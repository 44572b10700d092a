------------------------------ MODULE MCMemory ------------------------------
(***************************************************************************)
(* The memory subsystem for TLC: tokens over contexts, a context under     *)
(* several threads, the arithmetic of sizes, and the transports that       *)
(* attribute what they move to contexts.  They share nothing: moving says  *)
(* which one moves, and the others stay in their initial states.  The      *)
(* transports of owners and those of plain messages share nothing either.  *)
(***************************************************************************)
EXTENDS ErasedTransport, SequencesExt

CONSTANTS
    host, exec,         \* components, and their contexts; alien has its own allocator
    h1, h2, e1, alien,
    S1, S2, L1,         \* two SYSTEM types and a LOCAL one
    t1, t2, c1, c2, c3, \* tokens, and contexts of which c3 has its own allocator
    Tokens, TokenContexts, Homes, BufferLogs, Counts(_), TotalCount, Unzeroed,
    Failures, Blocks, Alignment, MinDirectory,
    Threads, Accounts, Sizes, CountCeiling, BytesCeiling, Own,
    MaxRequired, Limits, Stepping, MinCapacity, ByteCeiling, WordSize,
    Addresses, MaxElements, Strides, Requests, StorageEnd

VARIABLES
    moving,             \* the part that moves
    tokens, heap,
    count, bytes, owned, call,
    required, maximum, storageView, whole

MCModuleOf(x) == IF x \in {h1, h2} THEN host ELSE exec
MCAllocatorOf(x) == IF x \in {c3, alien} THEN 2 ELSE 1
MCCounts(mode) == IF mode = "stable" THEN {0, 1, 2, 3} ELSE {0, 2}
Interchangeable == Permutations({t1, t2}) \cup Permutations({c1, c2})

MCTypes == <<S1, L1, S2>>
MCSizeOf(T) == IF T = L1 THEN 1 ELSE 2

\* A good table, one that is not complete and one in another order.
MCView == <<[identity |-> S1, operations |-> "all"], [identity |-> L1, operations |-> "all"],
            [identity |-> S2, operations |-> "all"]>>
MCViews == {MCView, [MCView EXCEPT ![1].operations = "some"], [MCView EXCEPT ![1].identity = L1]}
Setup(kind, x, r) ==
    [kind |-> kind, destination |-> host, context |-> x, recipient |-> r, producer |-> None, ready |-> FALSE]
MCSetups ==
    {Setup("message", h1, h2), Setup("message", h1, None), Setup("owner", h1, h2),
     Setup("owner", alien, h2), Setup("message", e1, None)}

Token == INSTANCE MemoryToken WITH Contexts <- TokenContexts
Context == INSTANCE MemoryContext
Arithmetic == INSTANCE MemoryArithmetic WITH Ceiling <- ByteCeiling, view <- storageView

ASSUME PartsAssumption == Context!AccountsAssumption /\ Arithmetic!ShapesAssumption

tokenVars == <<tokens, heap>>
contextVars == <<count, bytes, owned, call>>
arithmeticVars == <<required, maximum, storageView, whole>>

\* Owners and plain messages: while one of them moves, the other has not.
TransportNext ==
    \/ pod = NoPod /\ pods = <<>> /\ OwnerNext
    \/ /\ queue = <<>> /\ out = NoMessage /\ in = NoMessage
       /\ made = 0 /\ \A x \in Shared : other[x] = 0
       /\ PodNext

allVars == <<moving, tokenVars, contextVars, arithmeticVars, vars>>

MemoryInit ==
    /\ moving \in {"tokens", "context", "sizes", "transports"}
    /\ Token!Init /\ Context!Init /\ Arithmetic!Init /\ Init
    /\ moving # "sizes" => \A m \in Limits : m <= maximum
    /\ moving # "transports" => transport = [Setup("message", h1, h2) EXCEPT !.producer = host]

\* The parts other than one stay as they are.
Only(one) ==
    /\ moving = one /\ UNCHANGED moving
    /\ one # "tokens" => UNCHANGED tokenVars
    /\ one # "context" => UNCHANGED contextVars
    /\ one # "sizes" => UNCHANGED arithmeticVars
    /\ one # "transports" => UNCHANGED vars

MemoryNext ==
    \/ Only("tokens") /\ Token!Next
    \/ Only("context") /\ Context!Next
    \/ Only("sizes") /\ Arithmetic!Next
    \/ Only("transports") /\ TransportNext

MemorySpec == MemoryInit /\ [][MemoryNext]_allVars
-----------------------------------------------------------------------------
(* The accounts of contexts agree with the blocks of threads that change them
   without a lock. *)
AccountsAgree == Context!AccountsAreExact

(* Growth gives what is needed, views stay in what they are views of, the codes
   of cells follow a curve, and ids are those of what they were made of; the
   last two are of numbers alone, whatever the views. *)
SizesAreSound ==
    moving = "sizes" =>
        /\ Arithmetic!GrowthIsEnough /\ Arithmetic!ViewsAreParts
        /\ storageView = Arithmetic!NoView => Arithmetic!CodesFollowCurves /\ Arithmetic!IdsAreExact

(* Contexts account for the blocks of tokens after failures and attributions,
   elements stay where they are with their values, and new ones are zero. *)
TokensAreSound ==
    [](moving = "tokens" => Token!ContextsAccountForBlocks) /\ Token!IsElementStorage /\ Token!NewElementsAreZero

(* What is between two components is attributed to the transport, means
   something to its reader, and arrives in the order it was posted. *)
TransitIsSafe == TransitIsNeutral /\ OwnersKeepTheirOrder
=============================================================================

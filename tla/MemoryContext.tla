--------------------------- MODULE MemoryContext ---------------------------
(***************************************************************************)
(* CMemoryContext under several threads: the count and the bytes of a      *)
(* context are two atomic words, changed one after the other by add() and  *)
(* sub() without a lock.  A change of the bytes that would overflow takes  *)
(* back the change of the count.  A thread allocates, frees or attributes  *)
(* to another context only blocks of its own.  The allocator takes back    *)
(* every block it gave, as the one there is does (host_context.cpp), and   *)
(* the accounting after a refusal of its is left out.                      *)
(***************************************************************************)
EXTENDS Integers, FiniteSets

CONSTANTS
    Threads,
    Accounts,           \* the contexts
    Sizes,              \* of blocks
    CountCeiling,       \* bound: the largest value of m_live_allocations
    BytesCeiling,       \* bound: the largest value of m_live_allocated_bytes
    Own                 \* bound: blocks of one thread

VARIABLES
    count,              \* m_live_allocations of each context
    bytes,              \* m_live_allocated_bytes
    owned,              \* the blocks of each thread: a number, a context, a size
    call                \* what each thread is doing

vars == <<count, bytes, owned, call>>

AccountsAssumption ==
    Sizes \subseteq Nat /\ Own \in Nat /\ CountCeiling \in Nat /\ BytesCeiling \in Nat

Idle == [op |-> "none", at |-> "none"]

Init ==
    /\ count = [c \in Accounts |-> 0]
    /\ bytes = [c \in Accounts |-> 0]
    /\ owned = [t \in Threads |-> {}]
    /\ call = [t \in Threads |-> Idle]

Goto(t, step) == call' = [call EXCEPT ![t].at = step]
Return(t) == call' = [call EXCEPT ![t] = Idle]
Numbers(t) == {b.number : b \in owned[t]}
FreeNumber(t) == CHOOSE number \in 1 .. Own : number \notin Numbers(t)

\* Allocations and attributions add to the context `to` first; releases, and
\* attributions afterwards, subtract from the context `from`.
BeginAllocate(t, c, n) ==
    /\ call[t] = Idle /\ Cardinality(owned[t]) < Own
    /\ call' = [call EXCEPT ![t] =
         [op |-> "allocate", at |-> "addCount", from |-> c, to |-> c,
          block |-> [number |-> FreeNumber(t), context |-> c, size |-> n]]]
    /\ UNCHANGED <<count, bytes, owned>>

BeginDeallocate(t, b) ==
    /\ call[t] = Idle
    /\ call' = [call EXCEPT ![t] =
         [op |-> "deallocate", at |-> "subCount", from |-> b.context, to |-> b.context, block |-> b]]
    /\ UNCHANGED <<count, bytes, owned>>

BeginReattribute(t, b, c) ==
    /\ call[t] = Idle /\ c # b.context
    /\ call' = [call EXCEPT ![t] =
         [op |-> "reattribute", at |-> "addCount", from |-> b.context, to |-> c, block |-> b]]
    /\ UNCHANGED <<count, bytes, owned>>

\* add(): an addition that would overflow fails the call.
AddCount(t) ==
    /\ call[t].at = "addCount"
    /\ IF count[call[t].to] < CountCeiling
       THEN count' = [count EXCEPT ![call[t].to] = @ + 1] /\ Goto(t, "addBytes")
       ELSE Return(t) /\ UNCHANGED count
    /\ UNCHANGED <<bytes, owned>>

AddBytes(t) ==
    /\ call[t].at = "addBytes"
    /\ IF call[t].block.size <= BytesCeiling - bytes[call[t].to]
       THEN /\ bytes' = [bytes EXCEPT ![call[t].to] = @ + call[t].block.size]
            /\ Goto(t, IF call[t].op = "allocate" THEN "allocator" ELSE "subCount")
       ELSE Goto(t, "undoCount") /\ UNCHANGED bytes
    /\ UNCHANGED <<count, owned>>

\* Mutant: the count is taken back in the wrong context.
UndoCountOfSource(t) ==
    /\ call[t].at = "undoCount"
    /\ count' = [count EXCEPT ![call[t].from] = @ - 1]
    /\ Return(t)
    /\ UNCHANGED <<bytes, owned>>

UndoCount(t) ==
    /\ call[t].at = "undoCount"
    /\ count' = [count EXCEPT ![call[t].to] = @ - 1]
    /\ Return(t)
    /\ UNCHANGED <<bytes, owned>>

\* The allocator gives a block, or nothing and the accounts are taken back.
CallAllocator(t) ==
    /\ call[t].at = "allocator"
    /\ \/ owned' = [owned EXCEPT ![t] = @ \cup {call[t].block}] /\ Return(t)
       \/ Goto(t, "subCount") /\ UNCHANGED owned
    /\ UNCHANGED <<count, bytes>>

\* sub(); CanSubtract says that neither word is ever too small.
SubCount(t) ==
    /\ call[t].at = "subCount" /\ count[call[t].from] >= 1
    /\ count' = [count EXCEPT ![call[t].from] = @ - 1]
    /\ Goto(t, "subBytes")
    /\ UNCHANGED <<bytes, owned>>

SubBytes(t) ==
    /\ call[t].at = "subBytes" /\ bytes[call[t].from] >= call[t].block.size
    /\ bytes' = [bytes EXCEPT ![call[t].from] = @ - call[t].block.size]
    /\ CASE call[t].op = "allocate"    -> Return(t) /\ UNCHANGED owned
         [] call[t].op = "deallocate"  -> Return(t) /\ owned' = [owned EXCEPT ![t] = @ \ {call[t].block}]
         [] call[t].op = "reattribute" ->
              /\ Return(t)
              /\ owned' = [owned EXCEPT ![t] = (@ \ {call[t].block}) \cup {[call[t].block EXCEPT !.context = call[t].to]}]
    /\ UNCHANGED count

Next ==
    \E t \in Threads :
      \/ \E c \in Accounts, n \in Sizes : BeginAllocate(t, c, n)
      \/ \E b \in owned[t] : BeginDeallocate(t, b) \/ \E c \in Accounts : BeginReattribute(t, b, c)
      \/ AddCount(t) \/ AddBytes(t) \/ UndoCount(t) \/ CallAllocator(t) \/ SubCount(t) \/ SubBytes(t)

Spec == Init /\ [][Next]_vars
----------------------------------------------------------------------------
(* Properties.                                                              *)

\* Blocks with the threads they belong to, and their bytes one by one.
BytesOf(S) == UNION {{x} \X (1 .. x[2].size) : x \in S}
BlocksIn(c) == UNION {{<<t, b>> : b \in {x \in owned[t] : x.context = c}} : t \in Threads}

(* No subtraction finds too little, whatever the other threads have added and
   taken back in between. *)
CanSubtract ==
    \A t \in Threads :
      /\ call[t].at = "subCount" => count[call[t].from] >= 1
      /\ call[t].at = "subBytes" => bytes[call[t].from] >= call[t].block.size

(* Where no call is in progress each context counts its blocks exactly, after
   every mixture of failures; and a context with a block nobody is releasing or
   moving is at no instant taken for empty. *)
AccountsAreExact ==
    /\ CanSubtract
    /\ \A c \in Accounts :
         LET settled == {x \in BlocksIn(c) : call[x[1]] = Idle \/ call[x[1]].block # x[2]}
         IN  /\ count[c] >= Cardinality(settled)
             /\ bytes[c] >= Cardinality(BytesOf(settled))
             /\ (\A t \in Threads : call[t] = Idle) =>
                  /\ count[c] = Cardinality(settled)
                  /\ bytes[c] = Cardinality(BytesOf(settled))
=============================================================================

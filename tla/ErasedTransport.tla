-------------------------- MODULE ErasedTransport --------------------------
(***************************************************************************)
(* Erased owners and the transports of erased messages.                    *)
(*                                                                         *)
(* CErasedOwner: one value of a registered type in storage of a memory     *)
(* context, known to its holder only by its type id.  What to do with it   *)
(* comes from the table of operations each component (binary) installs     *)
(* once.  The value may hold storage of its own, which has to be in the    *)
(* same context before both are attributed to another.  A value of a LOCAL *)
(* type means nothing outside of its component.                            *)
(*                                                                         *)
(* Between the threads of components, CErasedOwnerMsgTransport moves       *)
(* messages with an owner through a TOwning ring (CErasedOwnerTransport    *)
(* moves owners alone, likewise), and CErasedPodMsgTransport copies plain  *)
(* messages through a TQueue.  A type is admitted by where it comes from   *)
(* and goes to.  What is posted is attributed to the context of the        *)
(* transport, and on arrival to that of the recipient, while other threads *)
(* allocate in the same contexts.                                          *)
(***************************************************************************)
EXTENDS Integers, Sequences, FiniteSetsExt

CONSTANTS
    Components,         \* modules of the program, one binary each
    Contexts,           \* CMemoryContext
    ModuleOf(_),        \* the component of a context
    AllocatorOf(_),     \* its allocator
    Ceiling,            \* bound: live allocations of one context
    Types,              \* types registered as owned payloads, in the order of their ids
    LocalTypes,         \* those of the LOCAL category
    NestedTypes,        \* those that name a member with storage of its own
    Known,              \* the types that registries know
    None,
    Setups,             \* transports: kind, destination, context, recipient context
    Views,              \* tables components try to install
    MessageTypes,       \* of messages themselves
    SizeOf(_),          \* of the plain value of a type
    Cells,              \* bound: size of the payload of a plain message
    Room,               \* bound: capacity of the transports
    Shared,             \* bound: contexts in which other storage comes and goes
    Values              \* bound: values that are made

\* A transport is between contexts that exist, and names a component or none.
\* The SYSTEM part of every table comes from one list, so that what one valid
\* table knows of it another one knows too.
SetupsAssumption ==
    Setups \subseteq [kind : {"message", "owner"}, destination : Components \cup {None},
                     context : Contexts, recipient : Contexts \cup {None},
                     producer : {None}, ready : {FALSE}]

VARIABLES
    view,               \* s_installed_view of each component
    counts,             \* live allocations of contexts
    other,              \* of these, what neither transports nor owners hold
    transport,          \* the one set up, and its producer
    queue,              \* m_transport of the owner messages
    pods,               \* m_transport of the plain messages
    pod,                \* plain message of the producer, used again and again
    out,                \* message of the producer
    in,                 \* message of the consumer
    posting,            \* where the producer is in post()
    made                \* values made so far

vars == <<view, counts, other, transport, queue, pods, pod, out, in, posting, made>>
plain == <<pods, pod>>
channels == <<queue, plain, posting>>
----------------------------------------------------------------------------
(* Owners: operators over an owner o, the table of operations a component   *)
(* has installed, and the live allocations of all contexts.                 *)

NoOwner == [type |-> None, context |-> None, nested |-> None, value |-> 0]

IsReady(o) == o.type # None
Local(T) == T \in LocalTypes

\* is_complete() and is_empty() of SOperations: a table entry has all of its
\* operations, none of them or some.
Registration(T, operations) == [identity |-> T, operations |-> operations]

\* validate_category_view(): entries stand at the index of their identity.
ValidView(table) ==
    \A i \in DOMAIN table :
      IF table[i].identity = None THEN table[i].operations = "none"
      ELSE table[i].identity = Types[i] /\ table[i].operations = "all"

\* find(): the table a component installed knows what to do with a T.
Finds(table, T) ==
    \E i \in DOMAIN table :
      T # None /\ table[i] = Registration(T, "all") /\ Types[i] = T

\* system_erased_owner_payloads.def
ViewsAssumption ==
    \A v, w \in Views, T \in Known \ LocalTypes :
      ValidView(v) /\ ValidView(w) /\ Finds(v, T) => Finds(w, T)

ASSUME TransportAssumption ==
    /\ None \notin Components \cup Contexts \cup LocalTypes \cup NestedTypes \cup Views
    /\ Shared \subseteq Contexts
    /\ SetupsAssumption
    /\ ViewsAssumption

Belongs(component, x) == x # None /\ ModuleOf(x) = component
Compatible(x, y) == AllocatorOf(x) = AllocatorOf(y)

\* memory_allocation_count()
AllocationCount(o) == (IF IsReady(o) THEN 1 ELSE 0) + (IF o.nested # None THEN 1 ELSE 0)

\* create<T>(), in a context with room for it.
Created(component, table, live, T, x, v) ==
    IF /\ T \in Known /\ Finds(table, T)
       /\ Local(T) => Belongs(component, x)
       /\ live[x] < Ceiling
    THEN [NoOwner EXCEPT !.type = T, !.context = x, !.value = v]
    ELSE NoOwner

\* destroy(): a component without the operations, or a stranger to the LOCAL
\* type, gives back the storage without destroying the value in it.
Destroys(component, table, o) ==
    Finds(table, o.type) /\ (Local(o.type) => Belongs(component, o.context))

Destroyed(component, table, live, o) ==
    [x \in Contexts |-> live[x] - (IF IsReady(o) /\ o.context = x THEN 1 ELSE 0)
       - (IF IsReady(o) /\ o.nested = x /\ Destroys(component, table, o) THEN 1 ELSE 0)]

\* A mutant: nested storage may be anywhere.
HasAnySource(o) == IsReady(o)

\* memory_source_context(): the one context of all its storage.
HasOneSource(o) == IsReady(o) /\ (o.nested = None \/ o.nested = o.context)

CanReattribute(component, table, o, x) ==
    \/ ~IsReady(o)
    \/ /\ HasOneSource(o) /\ Finds(table, o.type)
       /\ Local(o.type) => Belongs(component, o.context) /\ Belongs(component, x)
       /\ Compatible(o.context, x)

\* reattribute(): [ok, owner, counts]; memory::reattribute() adds to the target,
\* which may be full, before it takes from the source.
Reattributed(component, table, live, o, x) ==
    LET n       == AllocationCount(o)
        refused == [ok |-> FALSE, owner |-> o, counts |-> live]
        moved   == [ok |-> TRUE,
                    owner  |-> [o EXCEPT !.context = x, !.nested = IF o.nested = None THEN None ELSE x],
                    counts |-> [y \in Contexts |-> live[y] + (IF y = x THEN n ELSE 0)
                                                    - (IF y = o.context THEN n ELSE 0)]]
    IN  CASE ~CanReattribute(component, table, o, x) -> refused
          [] ~IsReady(o) -> [refused EXCEPT !.ok = TRUE]
          [] OTHER -> IF o.context = x \/ live[x] + n <= Ceiling THEN moved ELSE refused

\* Destruction of all messages of a sequence, one after the other.
AllDestroyed(component, table, live, messages) ==
    LET gone == {i \in DOMAIN messages : IsReady(messages[i].owner)}
    IN  [x \in Contexts |-> live[x] - Cardinality({i \in gone : messages[i].owner.context = x})
           - Cardinality({i \in gone : /\ messages[i].owner.nested = x
                                       /\ Destroys(component, table, messages[i].owner)})]
----------------------------------------------------------------------------
(* The transports.                                                          *)

NoMessage == [type |-> None, owner |-> NoOwner]
NoPod == [type |-> None, payload |-> [i \in 1 .. Cells |-> 0]]
Destination == transport.destination

Init ==
    /\ view = [c \in Components |-> None]
    /\ counts = [x \in Contexts |-> 0]
    /\ other = [x \in Contexts |-> 0]
    /\ transport \in {[s EXCEPT !.producer = c] : s \in Setups, c \in Components}
    /\ queue = <<>> /\ pods = <<>> /\ pod = NoPod
    /\ out = NoMessage /\ in = NoMessage
    /\ posting = "idle"
    /\ made = 0

\* install_view(): once, and only a valid table.
Install(c, v) ==
    /\ view[c] = None
    /\ view' = IF ValidView(v) THEN [view EXCEPT ![c] = v] ELSE view
    /\ UNCHANGED <<counts, other, transport, channels, out, in, made>>

\* attribution_is_valid()
AttributionIsValid ==
    LET home == IF transport.recipient # None THEN transport.recipient ELSE transport.context
    IN  /\ transport.destination \in Components
        /\ Belongs(transport.destination, home)
        /\ transport.recipient # None => Compatible(transport.context, transport.recipient)

\* Components run once their tables are installed.
Running == \A c \in Components : view[c] # None

Initialise ==
    /\ Running /\ ~transport.ready /\ AttributionIsValid
    /\ transport' = [transport EXCEPT !.ready = TRUE]
    /\ UNCHANGED <<view, counts, other, channels, out, in, made>>

\* TOwning::deallocate(), while both sides are quiet.
Deallocate ==
    /\ transport.ready /\ posting = "idle"
    /\ counts' = AllDestroyed(Destination, view[Destination], counts, queue)
    /\ queue' = <<>> /\ pods' = <<>>
    /\ transport' = [transport EXCEPT !.ready = FALSE]
    /\ UNCHANGED <<view, other, pod, out, in, posting, made>>
----------------------------------------------------------------------------
(* The holder of a message.                                                 *)

\* set_owner(create<T>(x)): what the message held is destroyed.
SetOwner(T, x) ==
    /\ Running /\ posting = "idle" /\ made < Values
    /\ LET p == transport.producer
           o == Created(p, view[p], counts, T, x, made + 1)
           c == IF IsReady(o) THEN [counts EXCEPT ![x] = @ + 1] ELSE counts
       IN  /\ counts' = Destroyed(p, view[p], c, out.owner)
           /\ out' = [out EXCEPT !.owner = o]
    /\ made' = made + 1
    /\ UNCHANGED <<view, other, transport, channels, in>>

\* The value of a nested type gets a buffer that was allocated in x.
FillValue(x) ==
    /\ out.owner.type \in NestedTypes /\ out.owner.nested = None
    /\ posting = "idle" /\ counts[x] < Ceiling
    /\ out' = [out EXCEPT !.owner = [@ EXCEPT !.nested = x]]
    /\ counts' = [counts EXCEPT ![x] = @ + 1]
    /\ UNCHANGED <<view, other, transport, channels, in, made>>

SetMessageType(T) ==
    /\ Running /\ posting = "idle" /\ out.type # T
    /\ out' = [out EXCEPT !.type = T]
    /\ UNCHANGED <<view, counts, other, transport, channels, in, made>>

\* take_owner() of the consumer, who destroys it.
TakeOwner ==
    /\ IsReady(in.owner)
    /\ counts' = Destroyed(Destination, view[Destination], counts, in.owner)
    /\ in' = [in EXCEPT !.owner = NoOwner]
    /\ UNCHANGED <<view, other, transport, channels, out, made>>

\* Other storage in a context comes and goes.
AllocateOther(x) ==
    /\ counts[x] < Ceiling
    /\ counts' = [counts EXCEPT ![x] = @ + 1] /\ other' = [other EXCEPT ![x] = @ + 1]
    /\ UNCHANGED <<view, transport, channels, out, in, made>>

FreeOther(x) ==
    /\ other[x] > 0
    /\ counts' = [counts EXCEPT ![x] = @ - 1] /\ other' = [other EXCEPT ![x] = @ - 1]
    /\ UNCHANGED <<view, transport, channels, out, in, made>>
----------------------------------------------------------------------------
(* Admission.                                                               *)

\* A mutant: a LOCAL type is admitted wherever it is registered.
RejectionUnlocated(T, source, destination) ==
    IF source = None THEN "invalid_source_module"
    ELSE IF destination = None THEN "invalid_destination_module"
    ELSE IF T = None THEN "invalid_type_identity"
    ELSE IF T \in Known THEN "none" ELSE "unregistered_local_identity"

\* classify()
Rejection(T, source, destination) ==
    IF source = None THEN "invalid_source_module"
    ELSE IF destination = None THEN "invalid_destination_module"
    ELSE IF T = None THEN "invalid_type_identity"
    ELSE IF ~Local(T) THEN IF T \in Known THEN "none" ELSE "unregistered_system_identity"
    ELSE IF source # destination THEN "cross_component_local_identity"
    ELSE IF T \in Known THEN "none" ELSE "unregistered_local_identity"

Admitted(T) == Rejection(T, transport.producer, Destination) = "none"

\* CErasedPodMsg::assign_payload(): cells behind the value are cleared.
Assigned(m, T) ==
    [type |-> T, payload |-> [i \in 1 .. Cells |-> IF i <= SizeOf(T) THEN 1 ELSE 0]]

AssignPayload(T) ==
    /\ pod' = Assigned(pod, T)
    /\ UNCHANGED <<view, counts, other, transport, queue, pods, posting, out, in, made>>

PostPod ==
    /\ transport.ready /\ Admitted(pod.type) /\ Len(pods) < Room
    /\ pods' = Append(pods, pod)
    /\ UNCHANGED <<view, counts, other, transport, queue, pod, posting, out, in, made>>

ReadPod ==
    /\ pods # <<>>
    /\ pods' = Tail(pods)
    /\ UNCHANGED <<view, counts, other, transport, queue, pod, posting, out, in, made>>
----------------------------------------------------------------------------
(* CErasedOwnerMsgTransport::post(): the conditions, the attribution, and   *)
(* the ring, with other threads between them.                               *)

CanBePosted ==
    /\ transport.ready /\ Len(queue) < Room
    /\ CanReattribute(transport.producer, view[transport.producer], out.owner, transport.context)

MessageIsAllowed ==
    /\ transport.kind = "message" /\ Admitted(out.type)
    /\ IsReady(out.owner) => Admitted(out.owner.type)
    /\ CanBePosted

\* CErasedOwnerTransport::post()
OwnerIsAllowed ==
    /\ transport.kind = "owner" /\ IsReady(out.owner) /\ Admitted(out.owner.type)
    /\ CanBePosted

BeginPost ==
    /\ posting = "idle"
    /\ MessageIsAllowed \/ OwnerIsAllowed
    /\ posting' = IF IsReady(out.owner) THEN "attribute" ELSE "ring"
    /\ UNCHANGED <<view, counts, other, transport, queue, plain, out, in, made>>

AttributePosted ==
    /\ posting = "attribute"
    /\ LET r == Reattributed(transport.producer, view[transport.producer], counts, out.owner, transport.context)
       IN  /\ counts' = r.counts
           /\ out' = [out EXCEPT !.owner = r.owner]
           /\ posting' = IF r.ok THEN "ring" ELSE "idle"
    /\ UNCHANGED <<view, other, transport, queue, plain, in, made>>

\* What is moved is left empty.  The ring has room still: only its producer
\* fills it, so that post() never comes to attribute a refused owner back.
EndPost ==
    /\ posting = "ring"
    /\ queue' = Append(queue, IF transport.kind = "owner" THEN [out EXCEPT !.type = None] ELSE out)
    /\ out' = IF transport.kind = "owner" THEN [out EXCEPT !.owner = NoOwner] ELSE NoMessage
    /\ posting' = "idle"
    /\ UNCHANGED <<view, counts, other, transport, plain, in, made>>

\* On arrival an owner is attributed to the recipient, or stays where it is.
Arrived(c, o) ==
    IF transport.recipient # None /\ IsReady(o)
    THEN Reattributed(Destination, view[Destination], c, o, transport.recipient)
    ELSE [ok |-> TRUE, owner |-> o, counts |-> c]

\* read(): what its destination held is destroyed by the move.
Read(type) ==
    /\ transport.ready /\ queue # <<>>
    /\ LET r == Arrived(Destroyed(Destination, view[Destination], counts, in.owner), Head(queue).owner)
       IN  /\ counts' = r.counts
           /\ in' = [type |-> type, owner |-> r.owner]
    /\ queue' = Tail(queue)
    /\ UNCHANGED <<view, other, transport, plain, out, posting, made>>

ReadMessage == transport.kind = "message" /\ queue # <<>> /\ Read(Head(queue).type)
ReadOwner == transport.kind = "owner" /\ Read(in.type)

PodNext == PostPod \/ ReadPod \/ \E T \in MessageTypes : AssignPayload(T)

OwnerNext ==
    \/ \E c \in Components, v \in Views : Install(c, v)
    \/ Initialise \/ Deallocate
    \/ \E T \in MessageTypes : SetMessageType(T)
    \/ \E i \in DOMAIN Types, x \in Contexts : SetOwner(Types[i], x)
    \/ \E x \in Contexts : FillValue(x)
    \/ \E x \in Shared : AllocateOther(x) \/ FreeOther(x)
    \/ TakeOwner
    \/ BeginPost \/ AttributePosted \/ EndPost \/ ReadMessage \/ ReadOwner

Next == PodNext \/ OwnerNext

Spec == Init /\ [][Next]_vars
----------------------------------------------------------------------------
(* Properties.                                                              *)

InTransit == {queue[i].owner : i \in DOMAIN queue}
Owners == {o \in InTransit \cup {out.owner, in.owner} : IsReady(o)}
StorageIn(x) ==
    Cardinality({o \in Owners : o.context = x}) + Cardinality({o \in Owners : o.nested = x})

(* Whatever was posted, refused half-way, read into a message that was in use,
   destroyed or left in a transport that is taken down, every context has
   counted the storage that is in it, and no more: nothing leaks and nothing is
   given back to a context it was not taken from. *)
OwnersAreAccountedFor == \A x \in Contexts : counts[x] = other[x] + StorageIn(x)

(* What is between two components is attributed to the transport, value and
   nested storage alike, so that a producer may go away; it means something to
   its reader, whose component knows how to destroy it; and a plain message does
   not carry what the message held before. *)
TransitIsNeutral ==
    /\ \A o \in InTransit : IsReady(o) => o.context = transport.context /\ HasOneSource(o)
    /\ \A o \in InTransit \cup {in.owner} : Local(o.type) => transport.producer = Destination
    /\ \A i \in DOMAIN pods :
         /\ Local(pods[i].type) => transport.producer = Destination
         /\ \A j \in 1 .. Cells : pods[i].payload[j] # 0 => j <= SizeOf(pods[i].type)

(* Owners arrive in the order they were posted, each once, with the
   value they had, and a refused one stays with its producer: the values in
   in, queue and out, read in that order, only ever grow. *)
Line == <<in.owner>> \o [i \in DOMAIN queue |-> queue[i].owner] \o <<out.owner>>
OwnersKeepTheirOrder ==
    \A i, j \in DOMAIN Line :
      i < j /\ IsReady(Line[i]) /\ IsReady(Line[j]) => Line[i].value < Line[j].value
============================================================================

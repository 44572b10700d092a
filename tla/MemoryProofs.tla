---------------------------- MODULE MemoryProofs ----------------------------
(***************************************************************************)
(* Theorems about the transports of erased owners, for any components,     *)
(* contexts, types, tables and transports, any number of owners and any    *)
(* capacity: every context counts exactly the storage that is in it, what  *)
(* is in transit means something to its reader, and owners keep the order  *)
(* they were posted in, while the other parts of MCMemory move or stay.    *)
(* Then theorems about ids: what they are made of comes back from them.    *)
(* Last the accounts of a context under any number of threads, and views   *)
(* of storage of any size.                                                 *)
(***************************************************************************)
EXTENDS MCMemory, FiniteSetTheorems, FunctionTheorems, SequenceTheorems, TLAPS

(* The inductive invariant.  An owner that is ready has the type of a      *)
(* registry and a context, and a value that was made; an empty one is      *)
(* NoOwner.                                                                *)
OwnerType ==
    [type : Known \cup {None}, context : Contexts \cup {None}, nested : Contexts \cup {None}, value : Nat]
IsOwner(o) ==
    /\ o \in OwnerType
    /\ IsReady(o) => o.type \in Known /\ o.context \in Contexts
    /\ ~IsReady(o) => o = NoOwner
MessageType == [type : MessageTypes \cup {None}, owner : {o \in OwnerType : IsOwner(o)}]

TransportType ==
    [kind : {"message", "owner"}, destination : Components \cup {None}, context : Contexts,
     recipient : Contexts \cup {None}, producer : Components, ready : BOOLEAN]

TransitTypeOK ==
    /\ view \in [Components -> Views \cup {None}]
    /\ counts \in [Contexts -> Int] /\ other \in [Contexts -> Int]
    /\ transport \in TransportType
    /\ queue \in Seq(MessageType)
    /\ out \in MessageType /\ in \in MessageType
    /\ posting \in {"idle", "attribute", "ring"}
    /\ made \in Nat

\* Tables are valid ones, and all of them are there before there are owners.
TablesInv ==
    /\ \A c \in Components : view[c] # None => ValidView(view[c])
    /\ \A o \in InTransit \cup {out.owner, in.owner} : IsReady(o) => Running
    /\ transport.ready => Running /\ AttributionIsValid

\* Who holds an owner can destroy it.
ProducerHolds(o) == IsReady(o) => Destroys(transport.producer, view[transport.producer], o)
DestinationHolds(o) ==
    IsReady(o) => /\ Destination \in Components
                  /\ Destroys(Destination, view[Destination], o)
                  /\ Local(o.type) => transport.producer = Destination
HoldersInv ==
    /\ ProducerHolds(out.owner)
    /\ \A o \in InTransit \cup {in.owner} : DestinationHolds(o)

\* What has been attributed to the transport: in its ring, or about to be.
Attribution(o) == IsReady(o) => o.context = transport.context /\ HasOneSource(o)
PostingInv ==
    /\ \A o \in InTransit : Attribution(o)
    /\ posting # "idle" => transport.ready
    /\ posting # "idle" /\ IsReady(out.owner) => Admitted(out.owner.type)
    /\ posting = "attribute" => IsReady(out.owner)
    /\ posting = "ring" => Attribution(out.owner)

\* Owners were made in the order they are in.
Precedes(o, p) == IsReady(o) /\ IsReady(p) => o.value < p.value
OrderInv ==
    /\ \A o \in InTransit \cup {in.owner, out.owner} : IsReady(o) => o.value <= made
    /\ \A o \in InTransit : Precedes(in.owner, o) /\ Precedes(o, out.owner)
    /\ Precedes(in.owner, out.owner)
    /\ \A i, j \in DOMAIN queue : i < j => Precedes(queue[i].owner, queue[j].owner)

\* A plain message carries what was assigned, and in the ring was admitted.
PodType == [type : MessageTypes \cup {None}, payload : [1 .. Cells -> Int]]
IsClear(m) == \A j \in 1 .. Cells : m.payload[j] # 0 => j <= SizeOf(m.type)
PodsInv ==
    /\ pod \in PodType /\ pods \in Seq(PodType)
    /\ IsClear(pod)
    /\ \A i \in DOMAIN pods : IsClear(pods[i]) /\ (Local(pods[i].type) => transport.producer = Destination)

TransitInv ==
    /\ TransitTypeOK /\ TablesInv /\ HoldersInv /\ PostingInv /\ OrderInv /\ PodsInv
    /\ OwnersAreAccountedFor
-----------------------------------------------------------------------------
(* Storage of a set of owners.                                             *)
Weight(o, x) == (IF o.context = x THEN 1 ELSE 0) + (IF o.nested = x THEN 1 ELSE 0)
Load(o, x) == IF IsReady(o) THEN Weight(o, x) ELSE 0
Itself(o) == IF IsReady(o) THEN {o} ELSE {}
Held(S, x) == Cardinality({o \in S : o.context = x}) + Cardinality({o \in S : o.nested = x})

LEMMA HeldIsANumber ==
  ASSUME NEW S, IsFiniteSet(S), NEW x
  PROVE  /\ Held(S, x) \in Nat /\ Held({}, x) = 0
         /\ IsFiniteSet({o \in S : o.context = x}) /\ IsFiniteSet({o \in S : o.nested = x})
<1>1. {o \in S : o.context = x} \in SUBSET S /\ {o \in S : o.nested = x} \in SUBSET S
  OBVIOUS
<1>2. IsFiniteSet({o \in S : o.context = x}) /\ IsFiniteSet({o \in S : o.nested = x})
  BY <1>1, FS_Subset
<1>3. {o \in {} : o.context = x} = {} /\ {o \in {} : o.nested = x} = {}
  OBVIOUS
<1>5. Held(S, x) \in Nat
  BY <1>2, FS_CardinalityType DEF Held
<1>6. Held({}, x) = 0
  BY <1>3, FS_EmptySet DEF Held
<1> QED
  BY <1>2, <1>5, <1>6

LEMMA HeldWith ==
  ASSUME NEW S, IsFiniteSet(S), NEW o, IsReady(o) => o \notin S, NEW x
  PROVE  /\ IsFiniteSet(S \cup Itself(o))
         /\ Held(S \cup Itself(o), x) = Held(S, x) + Load(o, x)
<1>1. CASE ~IsReady(o)
  <2>1. PICK T : T = S \cup Itself(o)
    OBVIOUS
  <2>2. T = S
    BY <1>1, <2>1 DEF Itself
  <2>3. Held(S, x) \in Nat /\ Load(o, x) = 0
    BY <1>1, HeldIsANumber DEF Load
  <2>4. IsFiniteSet(T) /\ Held(T, x) = Held(S, x) + Load(o, x)
    BY <2>2, <2>3
  <2> QED
    BY <2>1, <2>4
<1>2. CASE IsReady(o)
  <2>1. S \cup Itself(o) = S \cup {o} /\ o \notin S
    BY <1>2 DEF Itself
  <2> DEFINE C == {p \in S : p.context = x}
             N == {p \in S : p.nested = x}
  <2>2. IsFiniteSet(C) /\ IsFiniteSet(N) /\ Cardinality(C) \in Nat /\ Cardinality(N) \in Nat
    BY HeldIsANumber, FS_CardinalityType
  <2>3. Cardinality({p \in S \cup {o} : p.context = x}) = Cardinality(C) + (IF o.context = x THEN 1 ELSE 0)
    <3>1. PICK D : D = {p \in S \cup {o} : p.context = x}
      OBVIOUS
    <3>2. IF o.context = x THEN D = C \cup {o} ELSE D = C
      BY <3>1
    <3>3. Cardinality(C \cup {o}) = Cardinality(C) + 1
      BY <2>1, <2>2, FS_AddElement
    <3>4. Cardinality(D) = Cardinality(C) + (IF o.context = x THEN 1 ELSE 0)
      <4> HIDE DEF C, N
      <4>1. CASE o.context = x
        BY <3>2, <3>3, <4>1
      <4>2. CASE o.context # x
        BY <2>2, <3>2, <4>2
      <4> QED
        BY <4>1, <4>2
    <3> QED
      BY <3>1, <3>4, Zenon
  <2>4. Cardinality({p \in S \cup {o} : p.nested = x}) = Cardinality(N) + (IF o.nested = x THEN 1 ELSE 0)
    <3>1. PICK D : D = {p \in S \cup {o} : p.nested = x}
      OBVIOUS
    <3>2. IF o.nested = x THEN D = N \cup {o} ELSE D = N
      BY <3>1
    <3>3. Cardinality(N \cup {o}) = Cardinality(N) + 1
      BY <2>1, <2>2, FS_AddElement
    <3>4. Cardinality(D) = Cardinality(N) + (IF o.nested = x THEN 1 ELSE 0)
      <4> HIDE DEF C, N
      <4>1. CASE o.nested = x
        BY <3>2, <3>3, <4>1
      <4>2. CASE o.nested # x
        BY <2>2, <3>2, <4>2
      <4> QED
        BY <4>1, <4>2
    <3> QED
      BY <3>1, <3>4, Zenon
  <2>5. Held(S, x) = Cardinality(C) + Cardinality(N)
    BY DEF Held
  <2>6. Held(S \cup {o}, x) = Cardinality({p \in S \cup {o} : p.context = x})
                                + Cardinality({p \in S \cup {o} : p.nested = x})
    BY DEF Held
  <2>7. Load(o, x) = (IF o.context = x THEN 1 ELSE 0) + (IF o.nested = x THEN 1 ELSE 0)
    BY <1>2 DEF Load, Weight
  <2>8. IsFiniteSet(S \cup {o})
    BY FS_AddElement
  <2> HIDE DEF C, N
  <2> QED
    BY <2>1, <2>2, <2>3, <2>4, <2>5, <2>6, <2>7, <2>8
<1> QED
  BY <1>1, <1>2

(* Destruction takes the storage of an owner away, and attribution moves it. *)
LEMMA DestroyedCounts ==
  ASSUME NEW component, NEW table, NEW live \in [Contexts -> Int], NEW o,
         IsOwner(o), IsReady(o) => Destroys(component, table, o)
  PROVE  /\ Destroyed(component, table, live, o) \in [Contexts -> Int]
         /\ \A x \in Contexts : Destroyed(component, table, live, o)[x] = live[x] - Load(o, x)
BY DEF Destroyed, Load, Weight, IsOwner

IsReattributed(r, component, table, live, o, target) ==
    /\ IsOwner(r.owner) /\ (IsReady(r.owner) <=> IsReady(o))
    /\ r.owner.type = o.type /\ r.owner.value = o.value
    /\ r.counts \in [Contexts -> Int]
    /\ \A x \in Contexts : r.counts[x] = live[x] - Load(o, x) + Load(r.owner, x)
    /\ r.ok /\ IsReady(o) => r.owner.context = target /\ HasOneSource(r.owner)
    /\ r.owner = o \/ (/\ IsReady(o) /\ r.owner.context = target
                       /\ Finds(table, o.type) /\ (Local(o.type) => Belongs(component, target)))

LEMMA ReattributedFacts ==
  ASSUME NEW component, NEW table, NEW live \in [Contexts -> Int], NEW o, IsOwner(o),
         NEW target \in Contexts, NEW r, r = Reattributed(component, table, live, o, target)
  PROVE  IsReattributed(r, component, table, live, o, target)
<1> USE DEF IsReattributed
<1> DEFINE n == AllocationCount(o)
           m == [o EXCEPT !.context = target, !.nested = IF o.nested = None THEN None ELSE target]
           c == [y \in Contexts |-> live[y] + (IF y = target THEN n ELSE 0) - (IF y = o.context THEN n ELSE 0)]
<1>1. \/ r.owner = o /\ r.counts = live /\ (r.ok => ~IsReady(o))
      \/ /\ CanReattribute(component, table, o, target) /\ IsReady(o)
         /\ r.owner = m /\ r.counts = c
  BY DEF Reattributed
<1>2. CASE r.owner = o /\ r.counts = live /\ (r.ok => ~IsReady(o))
  BY <1>2 DEF Load, Weight
<1>3. CASE /\ CanReattribute(component, table, o, target) /\ IsReady(o)
           /\ r.owner = m /\ r.counts = c
  <2>1. HasOneSource(o) /\ Finds(table, o.type) /\ (Local(o.type) => Belongs(component, target))
    BY <1>3 DEF CanReattribute
  <2>2. o \in OwnerType /\ o.context \in Contexts /\ o.type # None /\ o.type \in Known
    BY <1>3 DEF IsOwner, IsReady
  <2>3. None \notin Contexts
    BY TransportAssumption
  <2>4. m \in OwnerType /\ m.type = o.type /\ m.value = o.value /\ m.context = target
        /\ m.nested = (IF o.nested = None THEN None ELSE target)
    BY <2>2 DEF OwnerType
  <2> HIDE DEF m
  <2>5. IsOwner(m) /\ IsReady(m) /\ HasOneSource(m)
    BY <2>2, <2>4 DEF IsOwner, IsReady, HasOneSource
  <2>6. n = 1 + (IF o.nested # None THEN 1 ELSE 0)
    BY <1>3 DEF AllocationCount
  <2>7. ASSUME NEW x \in Contexts PROVE c[x] = live[x] - Load(o, x) + Load(m, x)
    <3>1. c[x] = live[x] + (IF x = target THEN n ELSE 0) - (IF x = o.context THEN n ELSE 0)
      OBVIOUS
    <3>2. Load(o, x) = IF x = o.context THEN n ELSE 0
      BY <1>3, <2>1, <2>2, <2>3, <2>6 DEF Load, Weight, HasOneSource
    <3>3. Load(m, x) = IF x = target THEN n ELSE 0
      BY <2>3, <2>4, <2>5, <2>6 DEF Load, Weight
    <3>4. live[x] \in Int /\ n \in Int
      BY <2>6
    <3> HIDE DEF c, n
    <3> QED
      BY <3>1, <3>2, <3>3, <3>4
  <2>8. c \in [Contexts -> Int]
    BY <2>6
  <2> HIDE DEF c, n
  <2> QED
    BY <1>3, <2>1, <2>2, <2>4, <2>5, <2>7, <2>8
<1> QED
  BY <1>1, <1>2, <1>3
-----------------------------------------------------------------------------
(* What the invariant says of a state.                                     *)

LEMMA NoneIsNothing ==
  /\ None \notin Contexts /\ None \notin Components /\ None \notin LocalTypes
  /\ None \notin NestedTypes /\ None \notin Views
  /\ NoOwner.type = None /\ NoOwner.context = None /\ NoOwner.nested = None /\ ~IsReady(NoOwner)
  /\ NoOwner \in OwnerType /\ IsOwner(NoOwner) /\ NoMessage \in MessageType
  /\ NoMessage.owner = NoOwner
BY TransportAssumption DEF NoOwner, IsReady, OwnerType, IsOwner, NoMessage, MessageType

LEMMA AdmittedMeans ==
  ASSUME NEW T, Admitted(T)
  PROVE  /\ T # None /\ T \in Known
         /\ Local(T) => transport.producer = Destination
BY DEF Admitted, Rejection

LEMMA MessagesHaveOwners ==
  ASSUME TransitTypeOK
  PROVE  /\ IsOwner(in.owner) /\ IsOwner(out.owner)
         /\ \A i \in DOMAIN queue : queue[i] \in MessageType /\ IsOwner(queue[i].owner)
         /\ \A o \in InTransit : IsOwner(o)
         /\ DOMAIN queue = 1 .. Len(queue) /\ Len(queue) \in Nat
<1>1. \A m \in MessageType : IsOwner(m.owner)
  BY DEF MessageType
<1>2. DOMAIN queue = 1 .. Len(queue) /\ Len(queue) \in Nat
  BY LenProperties DEF TransitTypeOK
<1>3. \A i \in DOMAIN queue : queue[i] \in MessageType
  BY ElementOfSeq, <1>2 DEF TransitTypeOK
<1> QED
  BY <1>1, <1>2, <1>3 DEF TransitTypeOK, InTransit

ReadyOf(S) == {o \in S : IsReady(o)}
RingLoad(x) == Held(ReadyOf(InTransit), x)

LEMMA RingIsFinite ==
  ASSUME TransitTypeOK
  PROVE  IsFiniteSet(InTransit) /\ IsFiniteSet(ReadyOf(InTransit))
<1>1. DOMAIN queue = 1 .. Len(queue) /\ Len(queue) \in Nat
  BY MessagesHaveOwners
<1>2. IsFiniteSet(DOMAIN queue)
  BY <1>1, FS_Interval
<1> DEFINE f == [i \in DOMAIN queue |-> queue[i].owner]
<1>3. f \in Surjection(DOMAIN queue, InTransit)
  BY DEF Surjection, InTransit
<1>4. IsFiniteSet(InTransit)
  BY <1>2, <1>3, FS_Surjection
<1>5. ReadyOf(InTransit) \in SUBSET InTransit
  BY DEF ReadyOf
<1> QED
  BY <1>4, <1>5, FS_Subset

(* The storage of all owners is that of the ring, of in and of out.        *)
LEMMA StorageSplits ==
  TransitTypeOK /\ OrderInv =>
    \A x : /\ RingLoad(x) \in Nat
           /\ StorageIn(x) = RingLoad(x) + Load(in.owner, x) + Load(out.owner, x)
<1> SUFFICES ASSUME TransitTypeOK, OrderInv, NEW x
             PROVE  /\ RingLoad(x) \in Nat
                    /\ StorageIn(x) = RingLoad(x) + Load(in.owner, x) + Load(out.owner, x)
  OBVIOUS
<1>1. PICK R : R = ReadyOf(InTransit)
  OBVIOUS
<1>2. IsFiniteSet(R)
  BY <1>1, RingIsFinite
<1>3. IsOwner(in.owner) /\ IsOwner(out.owner) /\ \A o \in InTransit : IsOwner(o)
  BY MessagesHaveOwners
<1>4. \A o : IsOwner(o) => o.value \in Nat
  BY DEF IsOwner, OwnerType
<1>5. IsReady(in.owner) => in.owner \notin R
  BY <1>1, <1>3, <1>4 DEF OrderInv, Precedes, ReadyOf
<1>6. PICK S : S = R \cup Itself(in.owner)
  OBVIOUS
<1>7. IsReady(out.owner) => out.owner \notin S
  BY <1>1, <1>3, <1>4, <1>6 DEF OrderInv, Precedes, ReadyOf, Itself
<1>8. IsFiniteSet(S) /\ Held(S, x) = Held(R, x) + Load(in.owner, x)
  BY <1>2, <1>5, <1>6, HeldWith
<1>9. Held(S \cup Itself(out.owner), x) = Held(S, x) + Load(out.owner, x)
  BY <1>7, <1>8, HeldWith
<1>10. Owners = S \cup Itself(out.owner)
  BY <1>1, <1>6 DEF Owners, ReadyOf, Itself
<1>11. StorageIn(x) = Held(S \cup Itself(out.owner), x)
  BY <1>10 DEF StorageIn, Held
<1>12. RingLoad(x) = Held(R, x) /\ Held(R, x) \in Nat
  BY <1>1, <1>2, HeldIsANumber DEF RingLoad
<1> QED
  BY <1>8, <1>9, <1>11, <1>12

LEMMA NextStorageSplits ==
  (TransitTypeOK /\ OrderInv =>
    \A x : /\ RingLoad(x) \in Nat
           /\ StorageIn(x) = RingLoad(x) + Load(in.owner, x) + Load(out.owner, x))'
<1>1. TransitTypeOK /\ OrderInv =>
    \A x : /\ RingLoad(x) \in Nat
           /\ StorageIn(x) = RingLoad(x) + Load(in.owner, x) + Load(out.owner, x)
  BY StorageSplits
<1> QED
  BY <1>1, PTL

LEMMA LoadsAreNumbers == \A o, x : Load(o, x) \in Nat /\ (~IsReady(o) => Load(o, x) = 0)
BY DEF Load, Weight

(* The accounts stay right when they change as what is held does.          *)
LEMMA AccountsFollow ==
  ASSUME TransitInv, TransitTypeOK', OrderInv',
         \A x \in Contexts :
           counts'[x] - counts[x] =
             other'[x] - other[x] + (RingLoad(x)' - RingLoad(x))
               + (Load(in'.owner, x) - Load(in.owner, x)) + (Load(out'.owner, x) - Load(out.owner, x))
  PROVE  OwnersAreAccountedFor'
<1> SUFFICES ASSUME NEW x \in Contexts
             PROVE  counts'[x] = other'[x] + StorageIn(x)'
  BY DEF OwnersAreAccountedFor
<1>1. PICK s : s = StorageIn(x)
  OBVIOUS
<1>2. PICK t : t = StorageIn(x)'
  OBVIOUS
<1>3. PICK r : r = RingLoad(x)
  OBVIOUS
<1>4. PICK q : q = RingLoad(x)'
  OBVIOUS
<1>5. PICK a, b, c, d : /\ a = Load(in.owner, x) /\ b = Load(out.owner, x)
                        /\ c = Load(in'.owner, x) /\ d = Load(out'.owner, x)
  OBVIOUS
<1>6. a \in Nat /\ b \in Nat /\ c \in Nat /\ d \in Nat
  BY <1>5, LoadsAreNumbers
<1>7. r \in Nat /\ s = r + a + b
  BY <1>1, <1>3, <1>5, StorageSplits DEF TransitInv
<1>8. q \in Nat /\ t = q + c + d
  BY <1>2, <1>4, <1>5, NextStorageSplits
<1>9. counts[x] = other[x] + s
  BY <1>1 DEF TransitInv, OwnersAreAccountedFor
<1>10. counts[x] \in Int /\ counts'[x] \in Int /\ other[x] \in Int /\ other'[x] \in Int
  BY DEF TransitInv, TransitTypeOK
<1>11. counts'[x] - counts[x] = other'[x] - other[x] + (q - r) + (c - a) + (d - b)
  BY <1>3, <1>4, <1>5
<1>12. counts'[x] = other'[x] + t
  BY <1>6, <1>7, <1>8, <1>9, <1>10, <1>11
<1> QED
  BY <1>2, <1>12
-----------------------------------------------------------------------------
(* Every operation preserves the invariant.                                *)

LEMMA InitTransit == Init => TransitInv
<1> SUFFICES ASSUME Init PROVE TransitInv
  OBVIOUS
<1>1. /\ queue = <<>> /\ in = NoMessage /\ out = NoMessage /\ posting = "idle" /\ made = 0
      /\ pods = <<>> /\ pod = NoPod
      /\ view = [c \in Components |-> None]
      /\ counts = [x \in Contexts |-> 0] /\ other = [x \in Contexts |-> 0]
  BY DEF Init
<1>2. transport \in TransportType /\ transport.ready = FALSE
  <2>1. PICK s \in Setups, c \in Components : transport = [s EXCEPT !.producer = c]
    BY DEF Init
  <2>2. /\ s \in [kind : {"message", "owner"}, destination : Components \cup {None},
                  context : Contexts, recipient : Contexts \cup {None},
                  producer : {None}, ready : {FALSE}]
    BY TransportAssumption DEF SetupsAssumption
  <2> QED
    BY <2>1, <2>2 DEF TransportType
<1>3. InTransit = {}
  BY <1>1 DEF InTransit
<1>4. <<>> \in Seq(MessageType) /\ <<>> \in Seq(PodType) /\ DOMAIN queue = {} /\ DOMAIN pods = {}
  BY <1>1, EmptySeq
<1>5. TransitTypeOK
  BY <1>1, <1>2, <1>4, NoneIsNothing DEF TransitTypeOK
<1>6. TablesInv
  BY <1>1, <1>2, <1>3, NoneIsNothing DEF TablesInv
<1>7. HoldersInv
  BY <1>1, <1>3, NoneIsNothing DEF HoldersInv, ProducerHolds, DestinationHolds
<1>8. PostingInv
  BY <1>1, <1>3 DEF PostingInv
<1>9. OrderInv
  BY <1>1, <1>3, <1>4, NoneIsNothing DEF OrderInv, Precedes
<1>10. PodsInv
  <2>1. pod \in PodType /\ IsClear(pod)
    BY <1>1 DEF NoPod, PodType, IsClear
  <2> QED
    BY <1>1, <1>4, <2>1 DEF PodsInv
<1>11. OwnersAreAccountedFor
  <2> SUFFICES ASSUME NEW x \in Contexts PROVE counts[x] = other[x] + StorageIn(x)
    BY DEF OwnersAreAccountedFor
  <2>1. Owners = {}
    BY <1>1, <1>3, NoneIsNothing DEF Owners
  <2>2. StorageIn(x) = 0
    BY <2>1, FS_EmptySet, HeldIsANumber DEF StorageIn, Held
  <2> QED
    BY <1>1, <2>2
<1> QED
  BY <1>5, <1>6, <1>7, <1>8, <1>9, <1>10, <1>11 DEF TransitInv

(* Nothing is held before the tables are there.                            *)
LEMMA InstallTransit ==
  ASSUME TransitInv, NEW c \in Components, NEW v \in Views, Install(c, v)
  PROVE  TransitInv'
<1>1. /\ view[c] = None /\ view' = (IF ValidView(v) THEN [view EXCEPT ![c] = v] ELSE view)
      /\ UNCHANGED <<counts, other, transport, queue, pods, pod, posting, out, in, made>>
  BY DEF Install, channels, plain
<1>2. ~Running
  BY <1>1 DEF Running
<1>3. /\ InTransit' = InTransit /\ Owners' = Owners /\ Destination' = Destination
      /\ AttributionIsValid' = AttributionIsValid
  BY <1>1 DEF InTransit, Owners, Destination, AttributionIsValid
<1>4. /\ \A o \in InTransit \cup {out.owner, in.owner} : ~IsReady(o)
      /\ ~transport.ready
  BY <1>2 DEF TransitInv, TablesInv
<1>5. TransitTypeOK'
  BY <1>1 DEF TransitInv, TransitTypeOK
<1>6. TablesInv'
  <2>1. \A d \in Components : view'[d] # None => ValidView(view'[d])
    BY <1>1 DEF TransitInv, TransitTypeOK, TablesInv
  <2> QED
    BY <1>1, <1>3, <1>4, <2>1 DEF TablesInv
<1>7. HoldersInv'
  BY <1>1, <1>3, <1>4 DEF HoldersInv, ProducerHolds, DestinationHolds
<1>8. PostingInv'
  BY <1>1, <1>3, <1>4 DEF TransitInv, PostingInv, Attribution, Admitted
<1>9. OrderInv'
  BY <1>1, <1>3 DEF TransitInv, OrderInv
<1>10. PodsInv'
  BY <1>1, <1>3 DEF TransitInv, PodsInv
<1>11. OwnersAreAccountedFor'
  BY <1>1, <1>3 DEF TransitInv, OwnersAreAccountedFor, StorageIn
<1> QED
  BY <1>5, <1>6, <1>7, <1>8, <1>9, <1>10, <1>11 DEF TransitInv

LEMMA InitialiseTransit ==
  ASSUME TransitInv, Initialise
  PROVE  TransitInv'
<1>1. /\ Running /\ AttributionIsValid /\ transport' = [transport EXCEPT !.ready = TRUE]
      /\ UNCHANGED <<view, counts, other, queue, pods, pod, posting, out, in, made>>
  BY DEF Initialise, channels, plain
<1>2. /\ transport' \in TransportType /\ transport'.producer = transport.producer
      /\ transport'.context = transport.context /\ transport'.recipient = transport.recipient
      /\ transport'.destination = transport.destination /\ transport'.ready
  BY <1>1 DEF TransitInv, TransitTypeOK, TransportType
<1>3. /\ InTransit' = InTransit /\ Owners' = Owners /\ Destination' = Destination
      /\ AttributionIsValid' /\ Running'
  BY <1>1, <1>2 DEF InTransit, Owners, Destination, AttributionIsValid, Running
<1>5. TransitTypeOK'
  BY <1>1, <1>2 DEF TransitInv, TransitTypeOK
<1>6. TablesInv'
  BY <1>1, <1>3 DEF TransitInv, TablesInv
<1>7. HoldersInv'
  BY <1>1, <1>2, <1>3 DEF TransitInv, HoldersInv, ProducerHolds, DestinationHolds
<1>8. PostingInv'
  BY <1>1, <1>2, <1>3 DEF TransitInv, PostingInv, Attribution, Admitted
<1>9. OrderInv'
  BY <1>1, <1>3 DEF TransitInv, OrderInv
<1>10. PodsInv'
  BY <1>1, <1>2, <1>3 DEF TransitInv, PodsInv
<1>11. OwnersAreAccountedFor'
  BY <1>1, <1>3 DEF TransitInv, OwnersAreAccountedFor, StorageIn
<1> QED
  BY <1>5, <1>6, <1>7, <1>8, <1>9, <1>10, <1>11 DEF TransitInv

(* Steps that leave owners, accounts and the transport alone.              *)
LEMMA FrameTransit ==
  ASSUME TransitInv, UNCHANGED <<view, counts, other, transport, queue, in, made>>,
         out'.owner = out.owner,
         TransitTypeOK', PostingInv', PodsInv'
  PROVE  TransitInv'
<1>3. /\ InTransit' = InTransit /\ Owners' = Owners /\ Destination' = Destination
      /\ AttributionIsValid' = AttributionIsValid /\ Running' = Running
  BY DEF InTransit, Owners, Destination, AttributionIsValid, Running
<1>6. TablesInv'
  BY <1>3 DEF TransitInv, TablesInv
<1>7. HoldersInv'
  BY <1>3 DEF TransitInv, HoldersInv, ProducerHolds, DestinationHolds
<1>9. OrderInv'
  BY <1>3 DEF TransitInv, OrderInv
<1>11. OwnersAreAccountedFor'
  BY <1>3 DEF TransitInv, OwnersAreAccountedFor, StorageIn
<1> QED
  BY <1>6, <1>7, <1>9, <1>11 DEF TransitInv

LEMMA SetMessageTypeTransit ==
  ASSUME TransitInv, NEW T \in MessageTypes, SetMessageType(T)
  PROVE  TransitInv'
<1>1. /\ out' = [out EXCEPT !.type = T]
      /\ UNCHANGED <<view, counts, other, transport, queue, pods, pod, posting, in, made>>
  BY DEF SetMessageType, channels, plain
<1>2. out' \in MessageType /\ out'.owner = out.owner
  BY <1>1 DEF TransitInv, TransitTypeOK, MessageType
<1>3. TransitTypeOK'
  BY <1>1, <1>2 DEF TransitInv, TransitTypeOK
<1>4. PostingInv'
  BY <1>1, <1>2 DEF TransitInv, PostingInv, Attribution, Admitted, InTransit, Destination
<1>5. PodsInv'
  BY <1>1 DEF TransitInv, PodsInv, Destination
<1> QED
  BY <1>1, <1>2, <1>3, <1>4, <1>5, FrameTransit

LEMMA PodTransit ==
  ASSUME TransitInv, PodNext
  PROVE  TransitInv'
<1>1. /\ UNCHANGED <<view, counts, other, transport, queue, posting, out, in, made>>
      /\ \/ pods' = pods /\ \E T \in MessageTypes : pod' = Assigned(pod, T)
         \/ pod' = pod /\ Admitted(pod.type) /\ pods' = Append(pods, pod)
         \/ pod' = pod /\ pods # <<>> /\ pods' = Tail(pods)
  BY DEF PodNext, AssignPayload, PostPod, ReadPod
<1>2. /\ pod \in PodType /\ pods \in Seq(PodType) /\ IsClear(pod)
      /\ \A i \in DOMAIN pods : IsClear(pods[i]) /\ (Local(pods[i].type) => transport.producer = Destination)
      /\ Destination' = Destination
  BY <1>1 DEF TransitInv, PodsInv, Destination
<1>3. PodsInv'
  <2>1. CASE pods' = pods /\ \E T \in MessageTypes : pod' = Assigned(pod, T)
    <3>1. pod' \in PodType /\ IsClear(pod')
      BY <2>1 DEF Assigned, PodType, IsClear
    <3> QED
      BY <1>1, <1>2, <2>1, <3>1 DEF PodsInv
  <2>2. CASE pod' = pod /\ Admitted(pod.type) /\ pods' = Append(pods, pod)
    <3>1. /\ pods' \in Seq(PodType) /\ Len(pods') = Len(pods) + 1 /\ Len(pods) \in Nat
          /\ DOMAIN pods = 1 .. Len(pods) /\ DOMAIN pods' = 1 .. Len(pods')
          /\ \A i \in 1 .. Len(pods') : pods'[i] = IF i <= Len(pods) THEN pods[i] ELSE pod
      BY <1>2, <2>2, AppendProperties, LenProperties
    <3>2. Local(pod.type) => transport.producer = Destination
      BY <2>2, AdmittedMeans
    <3> QED
      BY <1>1, <1>2, <2>2, <3>1, <3>2 DEF PodsInv
  <2>3. CASE pod' = pod /\ pods # <<>> /\ pods' = Tail(pods)
    <3>1. /\ pods' \in Seq(PodType) /\ Len(pods') = Len(pods) - 1 /\ Len(pods) \in Nat
          /\ DOMAIN pods = 1 .. Len(pods) /\ DOMAIN pods' = 1 .. Len(pods')
          /\ \A i \in 1 .. Len(pods') : pods'[i] = pods[i + 1]
      BY <1>2, <2>3, HeadTailProperties, LenProperties
    <3>2. \A i \in 1 .. Len(pods') : i + 1 \in 1 .. Len(pods)
      BY <3>1
    <3> QED
      BY <1>1, <1>2, <2>3, <3>1, <3>2 DEF PodsInv
  <2> QED
    BY <1>1, <2>1, <2>2, <2>3
<1>4. TransitTypeOK'
  BY <1>1 DEF TransitInv, TransitTypeOK
<1>5. PostingInv'
  BY <1>1, <1>2 DEF TransitInv, PostingInv, Attribution, Admitted, InTransit
<1> QED
  BY <1>1, <1>3, <1>4, <1>5, FrameTransit

LEMMA BeginPostTransit ==
  ASSUME TransitInv, BeginPost
  PROVE  TransitInv'
<1>1. /\ posting = "idle" /\ (MessageIsAllowed \/ OwnerIsAllowed)
      /\ posting' = (IF IsReady(out.owner) THEN "attribute" ELSE "ring")
      /\ UNCHANGED <<view, counts, other, transport, queue, pods, pod, out, in, made>>
  BY DEF BeginPost, plain
<1>2. transport.ready /\ (IsReady(out.owner) => Admitted(out.owner.type))
  BY <1>1 DEF MessageIsAllowed, OwnerIsAllowed, CanBePosted
<1>3. TransitTypeOK'
  BY <1>1 DEF TransitInv, TransitTypeOK
<1>4. PostingInv'
  BY <1>1, <1>2 DEF TransitInv, PostingInv, Attribution, Admitted, InTransit, Destination
<1>5. PodsInv'
  BY <1>1 DEF TransitInv, PodsInv, Destination
<1> QED
  BY <1>1, <1>3, <1>4, <1>5, FrameTransit

LEMMA OtherTransit ==
  ASSUME TransitInv, NEW x \in Contexts, AllocateOther(x) \/ FreeOther(x)
  PROVE  TransitInv'
<1>1. /\ UNCHANGED <<view, transport, queue, pods, pod, posting, out, in, made>>
      /\ \/ counts' = [counts EXCEPT ![x] = @ + 1] /\ other' = [other EXCEPT ![x] = @ + 1]
         \/ counts' = [counts EXCEPT ![x] = @ - 1] /\ other' = [other EXCEPT ![x] = @ - 1]
  BY DEF AllocateOther, FreeOther, channels, plain
<1>2. counts \in [Contexts -> Int] /\ other \in [Contexts -> Int]
  BY DEF TransitInv, TransitTypeOK
<1>3. /\ counts' \in [Contexts -> Int] /\ other' \in [Contexts -> Int]
      /\ \A y \in Contexts : counts'[y] - counts[y] = other'[y] - other[y]
  BY <1>1, <1>2
<1>4. /\ InTransit' = InTransit /\ Owners' = Owners /\ Destination' = Destination
      /\ AttributionIsValid' = AttributionIsValid /\ Running' = Running
  BY <1>1 DEF InTransit, Owners, Destination, AttributionIsValid, Running
<1>5. TransitTypeOK'
  BY <1>1, <1>3 DEF TransitInv, TransitTypeOK
<1>6. TablesInv'
  BY <1>1, <1>4 DEF TransitInv, TablesInv
<1>7. HoldersInv'
  BY <1>1, <1>4 DEF TransitInv, HoldersInv, ProducerHolds, DestinationHolds
<1>8. PostingInv'
  BY <1>1, <1>4 DEF TransitInv, PostingInv, Attribution, Admitted
<1>9. OrderInv'
  BY <1>1, <1>4 DEF TransitInv, OrderInv
<1>10. PodsInv'
  BY <1>1, <1>4 DEF TransitInv, PodsInv
<1>11. OwnersAreAccountedFor'
  <2>1. \A y : RingLoad(y)' = RingLoad(y) /\ RingLoad(y) \in Nat
    BY <1>4, StorageSplits DEF RingLoad, TransitInv
  <2> SUFFICES \A y \in Contexts :
           counts'[y] - counts[y] =
             other'[y] - other[y] + (RingLoad(y)' - RingLoad(y))
               + (Load(in'.owner, y) - Load(in.owner, y)) + (Load(out'.owner, y) - Load(out.owner, y))
    BY <1>5, <1>9, AccountsFollow
  <2>2. in' = in /\ out' = out
    BY <1>1
  <2> QED
    BY <1>2, <1>3, <2>1, <2>2, LoadsAreNumbers
<1> QED
  BY <1>5, <1>6, <1>7, <1>8, <1>9, <1>10, <1>11 DEF TransitInv

(* Steps that give the producer's message another owner, or none.          *)
LEMMA OutTransit ==
  ASSUME TransitInv, UNCHANGED <<view, other, transport, queue, pods, pod, in>>,
         out' \in MessageType, counts' \in [Contexts -> Int], made' \in Nat, made <= made',
         posting' \in {"idle", "attribute", "ring"}, PostingInv',
         ProducerHolds(out'.owner),
         IsReady(out'.owner) => /\ Running /\ out'.owner.value <= made'
                                /\ \A o \in InTransit \cup {in.owner} : Precedes(o, out'.owner),
         \A x \in Contexts : counts'[x] = counts[x] + Load(out'.owner, x) - Load(out.owner, x)
  PROVE  TransitInv'
<1>1. /\ InTransit' = InTransit /\ Destination' = Destination
      /\ AttributionIsValid' = AttributionIsValid /\ Running' = Running
  BY DEF InTransit, Destination, AttributionIsValid, Running
<1>2. TransitTypeOK'
  BY DEF TransitInv, TransitTypeOK
<1>3. TablesInv'
  BY <1>1 DEF TransitInv, TablesInv
<1>4. HoldersInv'
  BY <1>1 DEF TransitInv, HoldersInv, ProducerHolds, DestinationHolds
<1>5. OrderInv'
  <2>1. \A o \in InTransit \cup {in.owner} : IsReady(o) => o.value <= made'
    <3>1. \A o \in InTransit \cup {in.owner} : o.value \in Nat /\ (IsReady(o) => o.value <= made)
      BY MessagesHaveOwners DEF TransitInv, OrderInv, IsOwner, OwnerType
    <3> QED
      BY <3>1 DEF TransitInv, TransitTypeOK
  <2>2. /\ \A o \in InTransit : Precedes(in.owner, o)
        /\ \A i, j \in DOMAIN queue : i < j => Precedes(queue[i].owner, queue[j].owner)
    BY DEF TransitInv, OrderInv
  <2>3. /\ \A o \in InTransit \cup {in.owner} : Precedes(o, out'.owner)
        /\ IsReady(out'.owner) => out'.owner.value <= made'
    BY DEF Precedes
  <2> QED
    BY <1>1, <2>1, <2>2, <2>3 DEF OrderInv
<1>6. PodsInv'
  BY <1>1 DEF TransitInv, PodsInv
<1>7. OwnersAreAccountedFor'
  <2>1. \A y : RingLoad(y)' = RingLoad(y) /\ RingLoad(y) \in Nat
    BY <1>1, StorageSplits DEF RingLoad, TransitInv
  <2>2. in' = in /\ other' = other /\ counts \in [Contexts -> Int] /\ other \in [Contexts -> Int]
    BY DEF TransitInv, TransitTypeOK
  <2> SUFFICES \A y \in Contexts :
           counts'[y] - counts[y] =
             other'[y] - other[y] + (RingLoad(y)' - RingLoad(y))
               + (Load(in'.owner, y) - Load(in.owner, y)) + (Load(out'.owner, y) - Load(out.owner, y))
    BY <1>2, <1>5, AccountsFollow
  <2> QED
    BY <2>1, <2>2, LoadsAreNumbers
<1> QED
  BY <1>2, <1>3, <1>4, <1>5, <1>6, <1>7 DEF TransitInv

LEMMA SetOwnerTransit ==
  ASSUME TransitInv, NEW T, NEW x \in Contexts, SetOwner(T, x)
  PROVE  TransitInv'
<1>1. PICK p, o, c :
        /\ p = transport.producer /\ o = Created(p, view[p], counts, T, x, made + 1)
        /\ c = (IF IsReady(o) THEN [counts EXCEPT ![x] = @ + 1] ELSE counts)
        /\ counts' = Destroyed(p, view[p], c, out.owner)
        /\ out' = [out EXCEPT !.owner = o]
        /\ made' = made + 1
        /\ Running /\ posting = "idle"
        /\ UNCHANGED <<view, other, transport, queue, pods, pod, posting, in>>
  BY DEF SetOwner, channels, plain
<1>2. \/ o = NoOwner /\ ~IsReady(o)
      \/ /\ o = [NoOwner EXCEPT !.type = T, !.context = x, !.value = made + 1]
         /\ T \in Known /\ Finds(view[p], T) /\ (Local(T) => Belongs(p, x))
  BY <1>1, NoneIsNothing DEF Created
<1>3. made \in Nat
  BY DEF TransitInv, TransitTypeOK
<1>4. /\ IsOwner(o) /\ (IsReady(o) => o.context = x /\ o.nested = None /\ o.value = made + 1)
      /\ IsReady(o) => Destroys(p, view[p], o)
  <2>1. CASE o = NoOwner /\ ~IsReady(o)
    BY <2>1, NoneIsNothing
  <2>2. CASE /\ o = [NoOwner EXCEPT !.type = T, !.context = x, !.value = made + 1]
             /\ T \in Known /\ Finds(view[p], T) /\ (Local(T) => Belongs(p, x))
    <3>1. T # None
      BY <2>2 DEF Finds
    <3>2. o.type = T /\ o.context = x /\ o.nested = None /\ o.value = made + 1 /\ o \in OwnerType
      <4>1. PICK n, e : n = made + 1 /\ e = NoOwner
        OBVIOUS
      <4>2. /\ o = [e EXCEPT !.type = T, !.context = x, !.value = n]
            /\ e \in OwnerType /\ e.nested = None /\ T \in Known /\ n \in Nat
        BY <1>3, <2>2, <4>1, NoneIsNothing
      <4>3. /\ o.type = T /\ o.context = x /\ o.nested = None /\ o.value = n
            /\ o \in OwnerType
        BY <4>2 DEF OwnerType
      <4> QED
        BY <4>1, <4>3
    <3> QED
      BY <2>2, <3>1, <3>2 DEF IsOwner, IsReady, Destroys
  <2> QED
    BY <1>2, <2>1, <2>2
<1>5. out' \in MessageType /\ out'.owner = o
  BY <1>1, <1>4 DEF TransitInv, TransitTypeOK, MessageType, IsOwner
<1>6. c \in [Contexts -> Int] /\ \A y \in Contexts : c[y] = counts[y] + Load(o, y)
  <2>1. counts \in [Contexts -> Int]
    BY DEF TransitInv, TransitTypeOK
  <2>2. \A y \in Contexts : Load(o, y) = IF IsReady(o) /\ y = x THEN 1 ELSE 0
    BY <1>4, NoneIsNothing DEF Load, Weight
  <2> QED
    BY <1>1, <2>1, <2>2
<1>7. /\ counts' \in [Contexts -> Int]
      /\ \A y \in Contexts : counts'[y] = counts[y] + Load(o, y) - Load(out.owner, y)
  <2>1. PICK q : q = out.owner
    OBVIOUS
  <2>2. PICK table : table = view[p]
    OBVIOUS
  <2>3. IsOwner(q) /\ (IsReady(q) => Destroys(p, table, q))
    BY <1>1, <2>1, <2>2, MessagesHaveOwners DEF TransitInv, HoldersInv, ProducerHolds
  <2>4. /\ Destroyed(p, table, c, q) \in [Contexts -> Int]
        /\ \A y \in Contexts : Destroyed(p, table, c, q)[y] = c[y] - Load(q, y)
    BY <1>6, <2>3, DestroyedCounts
  <2>5. counts' = Destroyed(p, table, c, q)
    BY <1>1, <2>1, <2>2
  <2>6. \A y \in Contexts : counts[y] \in Int
    BY DEF TransitInv, TransitTypeOK
  <2>7. \A y \in Contexts : counts'[y] = counts[y] + Load(o, y) - Load(q, y)
    BY <1>6, <2>4, <2>5, <2>6, LoadsAreNumbers
  <2> QED
    BY <2>1, <2>4, <2>5, <2>7
<1>8. PostingInv'
  BY <1>1 DEF TransitInv, PostingInv, Attribution, InTransit
<1>9. ProducerHolds(o)
  BY <1>1, <1>4 DEF ProducerHolds
<1>10. IsReady(o) => /\ o.value <= made'
                     /\ \A q \in InTransit \cup {in.owner} : Precedes(q, o)
  <2>1. \A q \in InTransit \cup {in.owner} : q.value \in Nat /\ (IsReady(q) => q.value <= made)
    BY MessagesHaveOwners DEF TransitInv, OrderInv, IsOwner, OwnerType
  <2> QED
    BY <1>1, <1>3, <1>4, <2>1 DEF Precedes
<1>11. posting' \in {"idle", "attribute", "ring"} /\ made' \in Nat /\ made <= made'
  BY <1>1, <1>3
<1> QED
  BY <1>1, <1>5, <1>7, <1>8, <1>9, <1>10, <1>11, OutTransit

LEMMA FillValueTransit ==
  ASSUME TransitInv, NEW x \in Contexts, FillValue(x)
  PROVE  TransitInv'
<1>1. /\ out.owner.type \in NestedTypes /\ out.owner.nested = None /\ posting = "idle"
      /\ out' = [out EXCEPT !.owner = [@ EXCEPT !.nested = x]]
      /\ counts' = [counts EXCEPT ![x] = @ + 1]
      /\ UNCHANGED <<view, other, transport, queue, pods, pod, posting, in, made>>
  BY DEF FillValue, channels, plain
<1>2. PICK p : p = out.owner
  OBVIOUS
<1>3. PICK o : o = [p EXCEPT !.nested = x]
  OBVIOUS
<1>4. /\ IsOwner(p) /\ out \in MessageType /\ counts \in [Contexts -> Int] /\ made \in Nat
      /\ ProducerHolds(p) /\ IsReady(p)
  BY <1>1, <1>2, MessagesHaveOwners, NoneIsNothing
     DEF TransitInv, TransitTypeOK, HoldersInv, IsReady
<1>5. /\ o.type = p.type /\ o.context = p.context /\ o.nested = x /\ o.value = p.value
      /\ o \in OwnerType
  BY <1>3, <1>4 DEF IsOwner, OwnerType
<1>6. IsOwner(o) /\ IsReady(o)
  BY <1>4, <1>5 DEF IsOwner, IsReady
<1>7. out' \in MessageType /\ out'.owner = o
  BY <1>1, <1>2, <1>3, <1>4, <1>6 DEF MessageType, IsOwner
<1>8. /\ counts' \in [Contexts -> Int]
      /\ \A y \in Contexts : counts'[y] = counts[y] + Load(o, y) - Load(p, y)
  <2>1. \A y \in Contexts : Load(o, y) = Load(p, y) + (IF y = x THEN 1 ELSE 0)
    BY <1>1, <1>2, <1>4, <1>5, <1>6, NoneIsNothing DEF Load, Weight
  <2> QED
    BY <1>1, <1>4, <2>1, LoadsAreNumbers
<1>9. PostingInv'
  BY <1>1 DEF TransitInv, PostingInv, Attribution, InTransit
<1>10. ProducerHolds(o)
  BY <1>4, <1>5, <1>6 DEF ProducerHolds, Destroys
<1>11. Running /\ o.value <= made /\ \A q \in InTransit \cup {in.owner} : Precedes(q, o)
  BY <1>2, <1>4, <1>5, <1>6 DEF TransitInv, TablesInv, OrderInv, Precedes
<1>12. posting' \in {"idle", "attribute", "ring"} /\ made' \in Nat /\ made <= made'
  BY <1>1, <1>4
<1> QED
  BY <1>1, <1>2, <1>7, <1>8, <1>9, <1>10, <1>11, <1>12, OutTransit

LEMMA AttributePostedTransit ==
  ASSUME TransitInv, AttributePosted
  PROVE  TransitInv'
<1>1. PICK p, o, r :
        /\ p = transport.producer /\ o = out.owner
        /\ r = Reattributed(p, view[p], counts, o, transport.context)
        /\ counts' = r.counts /\ out' = [out EXCEPT !.owner = r.owner]
        /\ posting' = (IF r.ok THEN "ring" ELSE "idle")
        /\ posting = "attribute"
        /\ UNCHANGED <<view, other, transport, queue, pods, pod, in, made>>
  BY DEF AttributePosted, plain
<1>2. /\ IsOwner(o) /\ out \in MessageType /\ counts \in [Contexts -> Int] /\ made \in Nat
      /\ ProducerHolds(o) /\ transport.context \in Contexts
  BY <1>1, MessagesHaveOwners DEF TransitInv, TransitTypeOK, HoldersInv, TransportType
<1>3. /\ IsReady(o) /\ Admitted(o.type) /\ transport.ready
  BY <1>1 DEF TransitInv, PostingInv
<1>4. /\ IsOwner(r.owner) /\ IsReady(r.owner)
      /\ r.owner.type = o.type /\ r.owner.value = o.value
      /\ r.counts \in [Contexts -> Int]
      /\ \A x \in Contexts : r.counts[x] = counts[x] - Load(o, x) + Load(r.owner, x)
      /\ r.ok => Attribution(r.owner)
      /\ r.owner = o \/ (/\ r.owner.context = transport.context
                         /\ Finds(view[p], o.type) /\ (Local(o.type) => Belongs(p, transport.context)))
  <2>1. PICK table, live, t : table = view[p] /\ live = counts /\ t = transport.context
    OBVIOUS
  <2>2. r = Reattributed(p, table, live, o, t) /\ live \in [Contexts -> Int] /\ t \in Contexts
    BY <1>1, <1>2, <2>1
  <2>3. IsReattributed(r, p, table, live, o, t)
    BY <1>2, <2>2, ReattributedFacts
  <2> QED
    BY <1>3, <2>1, <2>3 DEF Attribution, IsReattributed
<1>5. out' \in MessageType /\ out'.owner = r.owner
  BY <1>1, <1>2, <1>4 DEF MessageType, IsOwner
<1>6. /\ counts' \in [Contexts -> Int]
      /\ \A y \in Contexts : counts'[y] = counts[y] + Load(out'.owner, y) - Load(out.owner, y)
  BY <1>1, <1>2, <1>4, <1>5, LoadsAreNumbers
<1>7. PostingInv'
  <2>1. InTransit' = InTransit /\ transport' = transport /\ Admitted(out'.owner.type)
        /\ \A o_1 \in InTransit : Attribution(o_1)
    BY <1>1, <1>3, <1>4, <1>5 DEF InTransit, TransitInv, PostingInv
  <2> QED
    BY <1>1, <1>3, <1>4, <1>5, <2>1 DEF PostingInv, Attribution, Admitted, Destination
<1>8. ProducerHolds(r.owner)
  BY <1>1, <1>2, <1>4 DEF ProducerHolds, Destroys
<1>9. Running /\ r.owner.value <= made /\ \A q \in InTransit \cup {in.owner} : Precedes(q, r.owner)
  BY <1>1, <1>2, <1>3, <1>4 DEF TransitInv, TablesInv, OrderInv, Precedes
<1>10. posting' \in {"idle", "attribute", "ring"} /\ made' \in Nat /\ made <= made'
  BY <1>1, <1>2
<1> QED
  BY <1>1, <1>5, <1>6, <1>7, <1>8, <1>9, <1>10, OutTransit

LEMMA TakeOwnerTransit ==
  ASSUME TransitInv, TakeOwner
  PROVE  TransitInv'
<1>1. PICK d, table, o :
        /\ d = Destination /\ table = view[Destination] /\ o = in.owner
        /\ counts' = Destroyed(d, table, counts, o) /\ in' = [in EXCEPT !.owner = NoOwner]
        /\ UNCHANGED <<view, other, transport, queue, pods, pod, posting, out, made>>
  BY DEF TakeOwner, channels, plain
<1>2. in' \in MessageType /\ in'.owner = NoOwner /\ ~IsReady(in'.owner)
  BY <1>1, NoneIsNothing DEF TransitInv, TransitTypeOK, MessageType
<1>3. counts \in [Contexts -> Int] /\ other \in [Contexts -> Int]
  BY DEF TransitInv, TransitTypeOK
<1>4. /\ counts' \in [Contexts -> Int]
      /\ \A x \in Contexts : counts'[x] = counts[x] - Load(o, x)
  <2>1. PICK live : live = counts
    OBVIOUS
  <2>2. IsOwner(o) /\ (IsReady(o) => Destroys(d, table, o)) /\ live \in [Contexts -> Int]
    BY <1>1, <1>3, <2>1, MessagesHaveOwners DEF TransitInv, HoldersInv, DestinationHolds
  <2>3. /\ Destroyed(d, table, live, o) \in [Contexts -> Int]
        /\ \A x \in Contexts : Destroyed(d, table, live, o)[x] = live[x] - Load(o, x)
    BY <2>2, DestroyedCounts
  <2> QED
    BY <1>1, <2>1, <2>3
<1>5. /\ InTransit' = InTransit /\ Destination' = Destination
      /\ AttributionIsValid' = AttributionIsValid /\ Running' = Running
  BY <1>1 DEF InTransit, Destination, AttributionIsValid, Running
<1>6. TransitTypeOK'
  BY <1>1, <1>2, <1>4 DEF TransitInv, TransitTypeOK
<1>7. TablesInv'
  BY <1>1, <1>2, <1>5 DEF TransitInv, TablesInv
<1>8. HoldersInv'
  BY <1>1, <1>2, <1>5 DEF TransitInv, HoldersInv, ProducerHolds, DestinationHolds
<1>9. PostingInv'
  BY <1>1, <1>5 DEF TransitInv, PostingInv, Attribution, Admitted
<1>10. OrderInv'
  BY <1>1, <1>2, <1>5 DEF TransitInv, OrderInv, Precedes
<1>11. PodsInv'
  BY <1>1, <1>5 DEF TransitInv, PodsInv
<1>12. OwnersAreAccountedFor'
  <2>1. \A y : RingLoad(y)' = RingLoad(y) /\ RingLoad(y) \in Nat
    BY <1>5, StorageSplits DEF RingLoad, TransitInv
  <2>2. \A y : Load(in'.owner, y) = 0 /\ Load(in.owner, y) = Load(o, y)
    BY <1>1, <1>2, LoadsAreNumbers
  <2> SUFFICES \A y \in Contexts :
           counts'[y] - counts[y] =
             other'[y] - other[y] + (RingLoad(y)' - RingLoad(y))
               + (Load(in'.owner, y) - Load(in.owner, y)) + (Load(out'.owner, y) - Load(out.owner, y))
    BY <1>6, <1>10, AccountsFollow
  <2>3. out' = out /\ other' = other
    BY <1>1
  <2> QED
    BY <1>3, <1>4, <2>1, <2>2, <2>3, LoadsAreNumbers
<1> QED
  BY <1>6, <1>7, <1>8, <1>9, <1>10, <1>11, <1>12 DEF TransitInv

(* What is about to enter the ring means something to its reader.          *)
LEMMA Handover ==
  ASSUME TransitInv, posting = "ring"
  PROVE  DestinationHolds(out.owner)
<1> SUFFICES ASSUME IsReady(out.owner) PROVE DestinationHolds(out.owner)
  BY DEF DestinationHolds
<1>1. PICK p, d, o : p = transport.producer /\ d = Destination /\ o = out.owner
  OBVIOUS
<1>2. /\ Running /\ AttributionIsValid /\ Admitted(o.type) /\ p \in Components
      /\ Destroys(p, view[p], o) /\ o.context = transport.context
  BY <1>1 DEF TransitInv, TransitTypeOK, TransportType, TablesInv, PostingInv, HoldersInv,
              ProducerHolds, Attribution
<1>3. /\ o.type \in Known /\ (Local(o.type) => p = d) /\ d \in Components
  BY <1>1, <1>2, AdmittedMeans DEF AttributionIsValid, Destination
<1>4. PICK v, w : v = view[p] /\ w = view[d]
  OBVIOUS
<1>5. v \in Views /\ w \in Views /\ ValidView(v) /\ ValidView(w)
  BY <1>2, <1>3, <1>4, NoneIsNothing DEF TransitInv, TransitTypeOK, TablesInv, Running
<1>6. Finds(v, o.type) /\ (Local(o.type) => Belongs(p, o.context))
  BY <1>2, <1>4 DEF Destroys
<1>7. Finds(w, o.type)
  BY <1>3, <1>4, <1>5, <1>6, TransportAssumption DEF ViewsAssumption, Local
<1> QED
  BY <1>1, <1>3, <1>4, <1>6, <1>7 DEF DestinationHolds, Destroys

LEMMA EndPostTransit ==
  ASSUME TransitInv, EndPost
  PROVE  TransitInv'
<1>1. PICK o, m :
        /\ o = out.owner
        /\ m = (IF transport.kind = "owner" THEN [out EXCEPT !.type = None] ELSE out)
        /\ queue' = Append(queue, m)
        /\ out' = (IF transport.kind = "owner" THEN [out EXCEPT !.owner = NoOwner] ELSE NoMessage)
        /\ posting = "ring" /\ posting' = "idle"
        /\ UNCHANGED <<view, counts, other, transport, pods, pod, in, made>>
  BY DEF EndPost, plain
<1>2. /\ m \in MessageType /\ m.owner = o /\ IsOwner(o)
      /\ out' \in MessageType /\ out'.owner = NoOwner /\ ~IsReady(out'.owner)
  BY <1>1, NoneIsNothing DEF TransitInv, TransitTypeOK, MessageType
<1>3. /\ queue' \in Seq(MessageType) /\ Len(queue') = Len(queue) + 1 /\ Len(queue) \in Nat
      /\ DOMAIN queue = 1 .. Len(queue) /\ DOMAIN queue' = 1 .. Len(queue')
      /\ \A i \in 1 .. Len(queue') : queue'[i] = IF i <= Len(queue) THEN queue[i] ELSE m
  BY <1>1, <1>2, AppendProperties, LenProperties DEF TransitInv, TransitTypeOK
<1>4. InTransit' = InTransit \cup {o}
  BY <1>2, <1>3 DEF InTransit
<1>5. /\ Destination' = Destination /\ AttributionIsValid' = AttributionIsValid /\ Running' = Running
  BY <1>1 DEF Destination, AttributionIsValid, Running
<1>6. TransitTypeOK'
  BY <1>1, <1>2, <1>3 DEF TransitInv, TransitTypeOK
<1>7. TablesInv'
  BY <1>1, <1>2, <1>4, <1>5 DEF TransitInv, TablesInv
<1>8. HoldersInv'
  <2>1. DestinationHolds(o)
    BY <1>1, Handover
  <2> QED
    BY <1>1, <1>2, <1>4, <1>5, <2>1 DEF TransitInv, HoldersInv, ProducerHolds, DestinationHolds
<1>9. PostingInv'
  BY <1>1, <1>4 DEF TransitInv, PostingInv, Attribution
<1>10. OrderInv'
  <2>1. \A i, j \in DOMAIN queue' : i < j => Precedes(queue'[i].owner, queue'[j].owner)
    <3> SUFFICES ASSUME NEW i \in DOMAIN queue', NEW j \in DOMAIN queue', i < j
                 PROVE  Precedes(queue'[i].owner, queue'[j].owner)
      OBVIOUS
    <3>1. i \in DOMAIN queue /\ queue'[i] = queue[i] /\ queue[i].owner \in InTransit
      BY <1>3 DEF InTransit
    <3>2. CASE j \in DOMAIN queue
      BY <1>3, <3>1, <3>2 DEF TransitInv, OrderInv
    <3>3. CASE j \notin DOMAIN queue
      BY <1>1, <1>2, <1>3, <3>1, <3>3 DEF TransitInv, OrderInv
    <3> QED
      BY <3>2, <3>3
  <2>2. /\ \A q \in InTransit' \cup {in.owner} : IsReady(q) => q.value <= made
        /\ \A q \in InTransit' : Precedes(in.owner, q)
    BY <1>1, <1>4 DEF TransitInv, OrderInv
  <2> QED
    BY <1>1, <1>2, <2>1, <2>2 DEF OrderInv, Precedes
<1>11. PodsInv'
  BY <1>1, <1>5 DEF TransitInv, PodsInv
<1>12. OwnersAreAccountedFor'
  <2>1. Owners' = Owners
    BY <1>1, <1>2, <1>4 DEF Owners
  <2> QED
    BY <1>1, <2>1 DEF TransitInv, OwnersAreAccountedFor, StorageIn
<1> QED
  BY <1>6, <1>7, <1>8, <1>9, <1>10, <1>11, <1>12 DEF TransitInv

LEMMA ReadTransit ==
  ASSUME TransitInv, NEW type \in MessageTypes \cup {None}, Read(type)
  PROVE  TransitInv'
<1>1. PICK d, table, live, o, h, c, r, to :
        /\ d = Destination /\ table = view[Destination] /\ live = counts /\ to = transport.recipient
        /\ o = in.owner /\ h = Head(queue).owner
        /\ c = Destroyed(d, table, live, o)
        /\ r = Arrived(c, h)
        /\ counts' = r.counts /\ in' = [type |-> type, owner |-> r.owner]
        /\ transport.ready /\ queue # <<>> /\ queue' = Tail(queue)
        /\ UNCHANGED <<view, other, transport, pods, pod, posting, out, made>>
  BY DEF Read, plain
<1>2. /\ queue' \in Seq(MessageType) /\ Len(queue') = Len(queue) - 1 /\ Len(queue) \in Nat
      /\ DOMAIN queue = 1 .. Len(queue) /\ DOMAIN queue' = 1 .. Len(queue')
      /\ \A i \in 1 .. Len(queue') : queue'[i] = queue[i + 1]
      /\ h = queue[1].owner /\ Len(queue) >= 1
  BY <1>1, HeadTailProperties, LenProperties DEF TransitInv, TransitTypeOK
<1>3. /\ \A i \in 1 .. Len(queue') : i + 1 \in 1 .. Len(queue)
      /\ \A i \in 1 .. Len(queue) : i = 1 \/ (i - 1 \in 1 .. Len(queue') /\ queue'[i - 1] = queue[i])
  BY <1>2
<1>4. InTransit = InTransit' \cup {h} /\ h \in InTransit
  <2>1. \A i \in DOMAIN queue : queue[i].owner = h \/ \E j \in DOMAIN queue' : queue'[j].owner = queue[i].owner
    BY <1>2, <1>3
  <2>2. \A j \in DOMAIN queue' : \E i \in DOMAIN queue : queue'[j].owner = queue[i].owner
    BY <1>2, <1>3
  <2>3. h \in InTransit
    BY <1>2 DEF InTransit
  <2> QED
    BY <2>1, <2>2, <2>3 DEF InTransit
<1>5. /\ IsOwner(o) /\ IsOwner(h) /\ live \in [Contexts -> Int] /\ other \in [Contexts -> Int]
      /\ DestinationHolds(o) /\ DestinationHolds(h) /\ to \in Contexts \cup {None}
  BY <1>1, <1>4, MessagesHaveOwners DEF TransitInv, TransitTypeOK, HoldersInv, TransportType
<1>6. \A q \in InTransit' : Precedes(h, q)
  <2> SUFFICES ASSUME NEW i \in DOMAIN queue' PROVE Precedes(h, queue'[i].owner)
    BY DEF InTransit
  <2>1. i + 1 \in DOMAIN queue /\ 1 \in DOMAIN queue /\ 1 < i + 1
    BY <1>2, <1>3
  <2> QED
    BY <1>2, <2>1 DEF TransitInv, OrderInv
<1>7. c \in [Contexts -> Int] /\ \A x \in Contexts : c[x] = live[x] - Load(o, x)
  <2>1. IsReady(o) => Destroys(d, table, o)
    BY <1>1, <1>5 DEF DestinationHolds
  <2>2. /\ Destroyed(d, table, live, o) \in [Contexts -> Int]
        /\ \A x \in Contexts : Destroyed(d, table, live, o)[x] = live[x] - Load(o, x)
    BY <1>5, <2>1, DestroyedCounts
  <2> QED
    BY <1>1, <2>2
<1>8. /\ IsOwner(r.owner) /\ (IsReady(r.owner) <=> IsReady(h))
      /\ r.owner.type = h.type /\ r.owner.value = h.value
      /\ r.counts \in [Contexts -> Int]
      /\ \A x \in Contexts : r.counts[x] = c[x] - Load(h, x) + Load(r.owner, x)
      /\ DestinationHolds(r.owner)
  <2>1. CASE to # None /\ IsReady(h)
    <3>1. r = Reattributed(d, table, c, h, to) /\ to \in Contexts
      BY <1>1, <1>5, <2>1 DEF Arrived
    <3>2. IsReattributed(r, d, table, c, h, to)
      BY <1>5, <1>7, <3>1, ReattributedFacts
    <3>3. DestinationHolds(r.owner)
      BY <1>1, <1>5, <2>1, <3>2 DEF IsReattributed, DestinationHolds, Destroys
    <3> QED
      BY <3>2, <3>3 DEF IsReattributed
  <2>2. CASE ~(to # None /\ IsReady(h))
    <3>1. r.owner = h /\ r.counts = c
      BY <1>1, <2>2 DEF Arrived
    <3> QED
      BY <1>5, <1>7, <3>1, LoadsAreNumbers
  <2> QED
    BY <2>1, <2>2
<1>9. in' \in MessageType /\ in'.owner = r.owner
  BY <1>1, <1>8 DEF MessageType, IsOwner
<1>10. /\ Destination' = Destination /\ AttributionIsValid' = AttributionIsValid /\ Running' = Running
  BY <1>1 DEF Destination, AttributionIsValid, Running
<1>11. TransitTypeOK'
  BY <1>1, <1>2, <1>8, <1>9 DEF TransitInv, TransitTypeOK
<1>12. TablesInv'
  BY <1>1, <1>4, <1>8, <1>9, <1>10 DEF TransitInv, TablesInv
<1>13. HoldersInv'
  BY <1>1, <1>4, <1>8, <1>9, <1>10 DEF TransitInv, HoldersInv, ProducerHolds, DestinationHolds
<1>14. PostingInv'
  BY <1>1, <1>4, <1>10 DEF TransitInv, PostingInv, Attribution, Admitted
<1>15. OrderInv'
  <2>1. \A i, j \in DOMAIN queue' : i < j => Precedes(queue'[i].owner, queue'[j].owner)
    <3> SUFFICES ASSUME NEW i \in DOMAIN queue', NEW j \in DOMAIN queue', i < j
                 PROVE  Precedes(queue'[i].owner, queue'[j].owner)
      OBVIOUS
    <3>1. /\ i + 1 \in DOMAIN queue /\ j + 1 \in DOMAIN queue /\ i + 1 < j + 1
          /\ queue'[i] = queue[i + 1] /\ queue'[j] = queue[j + 1]
      BY <1>2, <1>3
    <3> QED
      BY <3>1 DEF TransitInv, OrderInv
  <2>2. /\ \A q \in InTransit' : Precedes(r.owner, q) /\ Precedes(q, out.owner)
        /\ Precedes(r.owner, out.owner)
    BY <1>4, <1>6, <1>8 DEF TransitInv, OrderInv, Precedes
  <2>3. \A q \in InTransit' \cup {r.owner, out.owner} : IsReady(q) => q.value <= made
    BY <1>4, <1>8 DEF TransitInv, OrderInv
  <2> QED
    BY <1>1, <1>9, <2>1, <2>2, <2>3 DEF OrderInv
<1>16. PodsInv'
  BY <1>1, <1>10 DEF TransitInv, PodsInv
<1>17. OwnersAreAccountedFor'
  <2>1. \A y : /\ RingLoad(y)' \in Nat /\ RingLoad(y) \in Nat
               /\ RingLoad(y) = RingLoad(y)' + Load(h, y)
    <3> SUFFICES ASSUME NEW y
                 PROVE  /\ RingLoad(y)' \in Nat /\ RingLoad(y) \in Nat
                        /\ RingLoad(y) = RingLoad(y)' + Load(h, y)
      OBVIOUS
    <3>1. PICK R, S : R = ReadyOf(InTransit') /\ S = ReadyOf(InTransit)
      OBVIOUS
    <3>2. S = R \cup Itself(h) /\ R \in SUBSET S
      BY <1>4, <3>1 DEF ReadyOf, Itself
    <3>3. IsFiniteSet(S)
      BY <3>1, RingIsFinite DEF TransitInv
    <3>4. IsFiniteSet(R)
      BY <3>2, <3>3, FS_Subset
    <3>5. IsReady(h) => h \notin R
      <4>1. h.value \in Nat
        BY <1>5 DEF IsOwner, OwnerType
      <4> QED
        BY <1>6, <3>1, <4>1 DEF ReadyOf, Precedes
    <3>6. Held(R \cup Itself(h), y) = Held(R, y) + Load(h, y) /\ Held(R, y) \in Nat
      BY <3>4, <3>5, HeldWith, HeldIsANumber
    <3>7. RingLoad(y) = Held(S, y) /\ RingLoad(y)' = Held(R, y)
      BY <3>1 DEF RingLoad
    <3> QED
      BY <3>2, <3>6, <3>7, LoadsAreNumbers
  <2> SUFFICES \A y \in Contexts :
           counts'[y] - counts[y] =
             other'[y] - other[y] + (RingLoad(y)' - RingLoad(y))
               + (Load(in'.owner, y) - Load(in.owner, y)) + (Load(out'.owner, y) - Load(out.owner, y))
    BY <1>11, <1>15, AccountsFollow
  <2> SUFFICES ASSUME NEW y \in Contexts
               PROVE counts'[y] - counts[y] =
             other'[y] - other[y] + (RingLoad(y)' - RingLoad(y))
               + (Load(in'.owner, y) - Load(in.owner, y)) + (Load(out'.owner, y) - Load(out.owner, y))
    OBVIOUS
  <2>2. PICK a, b, i, j, k, e, n :
           /\ a = RingLoad(y) /\ b = RingLoad(y)' /\ i = Load(o, y) /\ j = Load(r.owner, y)
           /\ k = Load(h, y) /\ e = Load(out.owner, y) /\ n = live[y]
    OBVIOUS
  <2>3. /\ a \in Nat /\ b \in Nat /\ i \in Nat /\ j \in Nat /\ k \in Nat /\ e \in Nat /\ n \in Int
        /\ a = b + k
    BY <1>5, <2>1, <2>2, LoadsAreNumbers
  <2>4. counts'[y] = n - i - k + j /\ counts[y] = n
    BY <1>1, <1>7, <1>8, <2>2
  <2>5. other'[y] = other[y] /\ other[y] \in Int
    BY <1>1, <1>5
  <2>6. Load(in'.owner, y) = j /\ Load(in.owner, y) = i /\ Load(out'.owner, y) = e /\ Load(out.owner, y) = e
    BY <1>1, <1>9, <2>2
  <2> QED
    BY <2>2, <2>3, <2>4, <2>5, <2>6
<1> QED
  BY <1>11, <1>12, <1>13, <1>14, <1>15, <1>16, <1>17 DEF TransitInv

(* Owners in the ring are different ones.                                  *)
LEMMA PlacesAreOwners ==
  ASSUME TransitTypeOK, OrderInv,
         NEW I, I \subseteq {i \in DOMAIN queue : IsReady(queue[i].owner)}
  PROVE  Cardinality(I) = Cardinality({queue[i].owner : i \in I})
<1>1. DOMAIN queue = 1 .. Len(queue) /\ Len(queue) \in Nat
      /\ \A i \in DOMAIN queue : queue[i].owner.value \in Nat
  BY MessagesHaveOwners DEF IsOwner, OwnerType
<1>2. IsFiniteSet(I)
  <2>1. IsFiniteSet(1 .. Len(queue)) /\ I \in SUBSET (1 .. Len(queue))
    BY <1>1, FS_Interval
  <2> QED
    BY <2>1, FS_Subset
<1> DEFINE f == [i \in I |-> queue[i].owner]
           S == {queue[i].owner : i \in I}
<1>3. ASSUME NEW i \in I, NEW j \in I, f[i] = f[j]
      PROVE  i = j
  <2>1. /\ i \in Nat /\ j \in Nat /\ i \in DOMAIN queue /\ j \in DOMAIN queue
        /\ IsReady(queue[i].owner) /\ IsReady(queue[j].owner) /\ queue[i].owner = queue[j].owner
    BY <1>1, <1>3
  <2>2. CASE i < j
    BY <1>1, <2>1, <2>2 DEF OrderInv, Precedes
  <2>3. CASE j < i
    BY <1>1, <2>1, <2>3 DEF OrderInv, Precedes
  <2> QED
    BY <2>1, <2>2, <2>3
<1>4. f \in Bijection(I, S)
  <2>1. f \in [I -> S] /\ \A o \in S : \E i \in I : f[i] = o
    OBVIOUS
  <2>2. \A i, j \in I : f[i] = f[j] => i = j
    BY <1>3
  <2> HIDE DEF f, S
  <2> QED
    BY <2>1, <2>2, Fun_IsBij
<1> QED
  BY <1>2, <1>4, FS_Bijection DEF ExistsBijection

(* A transport that is taken down destroys each owner in its ring.         *)
LEMMA AllDestroyedCounts ==
  ASSUME TransitInv
  PROVE  \A x \in Contexts :
           AllDestroyed(Destination, view[Destination], counts, queue)[x] = counts[x] - RingLoad(x)
<1> SUFFICES ASSUME NEW x \in Contexts
             PROVE  AllDestroyed(Destination, view[Destination], counts, queue)[x] = counts[x] - RingLoad(x)
  OBVIOUS
<1> DEFINE gone == {i \in DOMAIN queue : IsReady(queue[i].owner)}
           C == {i \in gone : queue[i].owner.context = x}
           N == {i \in gone : /\ queue[i].owner.nested = x
                              /\ Destroys(Destination, view[Destination], queue[i].owner)}
<1>1. N = {i \in gone : queue[i].owner.nested = x}
  BY DEF TransitInv, HoldersInv, DestinationHolds, InTransit
<1>2. {queue[i].owner : i \in C} = {o \in ReadyOf(InTransit) : o.context = x}
  BY DEF ReadyOf, InTransit
<1>3. {queue[i].owner : i \in N} = {o \in ReadyOf(InTransit) : o.nested = x}
  BY <1>1 DEF ReadyOf, InTransit
<1>4. Cardinality(C) = Cardinality({o \in ReadyOf(InTransit) : o.context = x})
  <2>1. C \subseteq gone
    OBVIOUS
  <2> HIDE DEF C
  <2> QED
    BY <1>2, <2>1, PlacesAreOwners DEF TransitInv
<1>5. Cardinality(N) = Cardinality({o \in ReadyOf(InTransit) : o.nested = x})
  <2>1. N \subseteq gone
    OBVIOUS
  <2> HIDE DEF N
  <2> QED
    BY <1>3, <2>1, PlacesAreOwners DEF TransitInv
<1>6. AllDestroyed(Destination, view[Destination], counts, queue)[x]
        = counts[x] - Cardinality(C) - Cardinality(N)
  BY DEF AllDestroyed
<1>7. RingLoad(x) = Cardinality(C) + Cardinality(N)
  BY <1>4, <1>5 DEF RingLoad, Held
<1>8. Cardinality(C) \in Nat /\ Cardinality(N) \in Nat
  <2>1. IsFiniteSet(ReadyOf(InTransit))
    BY RingIsFinite DEF TransitInv
  <2> QED
    <3>1. /\ IsFiniteSet({o \in ReadyOf(InTransit) : o.context = x})
          /\ IsFiniteSet({o \in ReadyOf(InTransit) : o.nested = x})
      BY <2>1, HeldIsANumber
    <3> HIDE DEF C, N
    <3> QED
      BY <1>4, <1>5, <3>1, FS_CardinalityType
<1>9. counts[x] \in Int
  BY DEF TransitInv, TransitTypeOK
<1> HIDE DEF C, N
<1> QED
  BY <1>6, <1>7, <1>8, <1>9

LEMMA DeallocateTransit ==
  ASSUME TransitInv, Deallocate
  PROVE  TransitInv'
<1>1. PICK c :
      /\ c = AllDestroyed(Destination, view[Destination], counts, queue)
      /\ posting = "idle" /\ counts' = c
      /\ queue' = <<>> /\ pods' = <<>> /\ transport' = [transport EXCEPT !.ready = FALSE]
      /\ UNCHANGED <<view, other, pod, out, in, posting, made>>
  BY DEF Deallocate
<1>2. /\ transport' \in TransportType /\ transport'.producer = transport.producer
      /\ transport'.context = transport.context /\ transport'.recipient = transport.recipient
      /\ transport'.destination = transport.destination /\ ~transport'.ready
  BY <1>1 DEF TransitInv, TransitTypeOK, TransportType
<1>3. /\ InTransit' = {} /\ Destination' = Destination /\ Running' = Running
      /\ DOMAIN queue' = {} /\ DOMAIN pods' = {}
      /\ queue' \in Seq(MessageType) /\ pods' \in Seq(PodType)
  BY <1>1, <1>2, EmptySeq DEF InTransit, Destination, Running
<1>4. \A x \in Contexts : c[x] = counts[x] - RingLoad(x)
  BY <1>1, AllDestroyedCounts
<1>5. counts \in [Contexts -> Int] /\ other \in [Contexts -> Int] /\ \A x : RingLoad(x) \in Nat
  BY StorageSplits DEF TransitInv, TransitTypeOK
<1>6. c \in [Contexts -> Int]
  <2>1. c = [x \in Contexts |-> c[x]]
    BY <1>1 DEF AllDestroyed
  <2> QED
    BY <1>4, <1>5, <2>1
<1>7. TransitTypeOK'
  BY <1>1, <1>2, <1>3, <1>6 DEF TransitInv, TransitTypeOK
<1>8. TablesInv'
  BY <1>1, <1>2, <1>3 DEF TransitInv, TablesInv
<1>9. HoldersInv'
  BY <1>1, <1>2, <1>3 DEF TransitInv, HoldersInv, ProducerHolds, DestinationHolds
<1>10. PostingInv'
  BY <1>1, <1>3 DEF TransitInv, PostingInv
<1>11. OrderInv'
  BY <1>1, <1>3 DEF TransitInv, OrderInv
<1>12. PodsInv'
  BY <1>1, <1>3 DEF TransitInv, PodsInv
<1>13. OwnersAreAccountedFor'
  <2>1. \A y : RingLoad(y)' = 0
    <3>1. ReadyOf(InTransit') = {}
      BY <1>3 DEF ReadyOf
    <3> QED
      BY <3>1, FS_EmptySet, HeldIsANumber DEF RingLoad
  <2> SUFFICES \A y \in Contexts :
           counts'[y] - counts[y] =
             other'[y] - other[y] + (RingLoad(y)' - RingLoad(y))
               + (Load(in'.owner, y) - Load(in.owner, y)) + (Load(out'.owner, y) - Load(out.owner, y))
    BY <1>7, <1>11, AccountsFollow
  <2> SUFFICES ASSUME NEW y \in Contexts
               PROVE counts'[y] - counts[y] =
             other'[y] - other[y] + (RingLoad(y)' - RingLoad(y))
               + (Load(in'.owner, y) - Load(in.owner, y)) + (Load(out'.owner, y) - Load(out.owner, y))
    OBVIOUS
  <2>2. counts'[y] - counts[y] = 0 - RingLoad(y)
    BY <1>1, <1>4, <1>5
  <2>3. in' = in /\ out' = out /\ other' = other
    BY <1>1
  <2> QED
    BY <1>5, <2>1, <2>2, <2>3, LoadsAreNumbers
<1> QED
  BY <1>7, <1>8, <1>9, <1>10, <1>11, <1>12, <1>13 DEF TransitInv
-----------------------------------------------------------------------------
LEMMA OwnerNextTransit ==
  ASSUME TransitInv, OwnerNext
  PROVE  TransitInv'
<1>1. ASSUME NEW c \in Components, NEW v \in Views, Install(c, v) PROVE TransitInv'
  BY <1>1, InstallTransit
<1>2. CASE Initialise
  BY <1>2, InitialiseTransit
<1>3. CASE Deallocate
  BY <1>3, DeallocateTransit
<1>4. ASSUME NEW T \in MessageTypes, SetMessageType(T) PROVE TransitInv'
  BY <1>4, SetMessageTypeTransit
<1>5. ASSUME NEW i \in DOMAIN Types, NEW x \in Contexts, SetOwner(Types[i], x) PROVE TransitInv'
  BY <1>5, SetOwnerTransit
<1>6. ASSUME NEW x \in Contexts, FillValue(x) PROVE TransitInv'
  BY <1>6, FillValueTransit
<1>7. ASSUME NEW x \in Shared, AllocateOther(x) \/ FreeOther(x) PROVE TransitInv'
  BY <1>7, OtherTransit, TransportAssumption
<1>8. CASE TakeOwner
  BY <1>8, TakeOwnerTransit
<1>9. CASE BeginPost
  BY <1>9, BeginPostTransit
<1>10. CASE AttributePosted
  BY <1>10, AttributePostedTransit
<1>11. CASE EndPost
  BY <1>11, EndPostTransit
<1>12. CASE ReadMessage
  <2>1. queue # <<>> /\ Read(Head(queue).type)
    BY <1>12 DEF ReadMessage
  <2>2. Head(queue).type \in MessageTypes \cup {None}
    <3>1. Head(queue) \in MessageType
      BY <2>1, HeadTailProperties DEF TransitInv, TransitTypeOK
    <3> QED
      BY <3>1 DEF MessageType
  <2> QED
    BY <2>1, <2>2, ReadTransit
<1>13. CASE ReadOwner
  <2>1. in.type \in MessageTypes \cup {None}
    BY DEF TransitInv, TransitTypeOK, MessageType
  <2> QED
    BY <1>13, <2>1, ReadTransit DEF ReadOwner
<1> QED
  BY <1>1, <1>2, <1>3, <1>4, <1>5, <1>6, <1>7, <1>8, <1>9, <1>10, <1>11, <1>12, <1>13 DEF OwnerNext

LEMMA StutterTransit ==
  ASSUME TransitInv, UNCHANGED vars
  PROVE  TransitInv'
<1>1. /\ UNCHANGED <<view, counts, other, transport, queue, pods, pod, out, in, posting, made>>
  BY DEF vars
<1>2. TransitTypeOK'
  BY <1>1 DEF TransitInv, TransitTypeOK
<1>3. PostingInv'
  BY <1>1 DEF TransitInv, PostingInv, Attribution, Admitted, InTransit, Destination
<1>4. PodsInv'
  BY <1>1 DEF TransitInv, PodsInv, Destination
<1> QED
  BY <1>1, <1>2, <1>3, <1>4, FrameTransit

(* The invariant holds of the transports alone, and in MCMemory, whichever *)
(* part of it moves.                                                       *)
THEOREM TransitInvariance == Spec => []TransitInv
<1>1. Init => TransitInv
  BY InitTransit
<1>2. TransitInv /\ [Next]_vars => TransitInv'
  BY PodTransit, OwnerNextTransit, StutterTransit DEF Next
<1> QED
  BY <1>1, <1>2, PTL DEF Spec

THEOREM MemoryInvariance == MemorySpec => []TransitInv
<1>1. MemoryInit => TransitInv
  BY InitTransit DEF MemoryInit
<1>2. TransitInv /\ [MemoryNext]_allVars => TransitInv'
  <2> SUFFICES ASSUME TransitInv, [MemoryNext]_allVars PROVE TransitInv'
    OBVIOUS
  <2>1. CASE Only("transports") /\ TransportNext
    BY <2>1, PodTransit, OwnerNextTransit DEF TransportNext
  <2>2. CASE Only("tokens") \/ Only("context") \/ Only("sizes") \/ UNCHANGED allVars
    <3>1. UNCHANGED vars
      BY <2>2 DEF Only, allVars
    <3> QED
      BY <3>1, StutterTransit
  <2> QED
    BY <2>1, <2>2 DEF MemoryNext
<1> QED
  BY <1>1, <1>2, PTL DEF MemorySpec

(* No owner is lost, leaked or given back to the wrong context, whatever   *)
(* is posted, refused, read or left behind: each context has counted the   *)
(* storage that is in it and no more.                                      *)
THEOREM OwnersAreAlwaysAccountedFor == MemorySpec => []OwnersAreAccountedFor
<1>1. TransitInv => OwnersAreAccountedFor
  BY DEF TransitInv
<1> QED
  BY <1>1, MemoryInvariance, PTL

LEMMA LineKeepsOrder ==
  ASSUME TransitInv
  PROVE  OwnersKeepTheirOrder
<1>1. PICK a, b, q, n : a = in.owner /\ b = out.owner /\ n = Len(queue) /\ q = [i \in DOMAIN queue |-> queue[i].owner]
  OBVIOUS
<1>2. /\ DOMAIN queue = 1 .. n /\ n \in Nat
      /\ \A i \in 1 .. n : q[i] = queue[i].owner /\ q[i] \in InTransit
      /\ q \in Seq(OwnerType) /\ Len(q) = n
  <2>1. DOMAIN queue = 1 .. n /\ n \in Nat /\ \A i \in DOMAIN queue : queue[i].owner \in OwnerType
    BY <1>1, MessagesHaveOwners DEF TransitInv, IsOwner
  <2>2. q \in [1 .. n -> OwnerType]
    BY <1>1, <2>1
  <2>3. q \in Seq(OwnerType) /\ Len(q) = n
    BY <2>1, <2>2
  <2> QED
    BY <1>1, <2>1, <2>3 DEF InTransit
<1>3. a \in OwnerType /\ b \in OwnerType /\ <<a>> \in Seq(OwnerType) /\ <<b>> \in Seq(OwnerType)
      /\ Len(<<a>>) = 1 /\ Len(<<b>>) = 1 /\ <<a>>[1] = a /\ <<b>>[1] = b
  BY <1>1, MessagesHaveOwners DEF TransitInv, IsOwner
<1>4. PICK s : s = <<a>> \o q
  OBVIOUS
<1>5. /\ s \in Seq(OwnerType) /\ Len(s) = n + 1
      /\ \A i \in 1 .. n + 1 : s[i] = IF i = 1 THEN a ELSE q[i - 1]
  BY <1>2, <1>3, <1>4, ConcatProperties
<1>6. PICK l : l = s \o <<b>>
  OBVIOUS
<1>7. /\ l \in Seq(OwnerType) /\ Len(l) = n + 2 /\ DOMAIN l = 1 .. n + 2
      /\ \A i \in 1 .. n + 2 : l[i] = IF i <= n + 1 THEN s[i] ELSE b
  BY <1>2, <1>3, <1>5, <1>6, ConcatProperties, LenProperties
<1>8. Line = l
  BY <1>1, <1>4, <1>6 DEF Line
<1>9. ASSUME NEW i \in 1 .. n + 2, NEW j \in 1 .. n + 2, i < j
      PROVE  Precedes(l[i], l[j])
  <2>1. CASE i = 1 /\ j = n + 2
    BY <1>1, <1>2, <1>5, <1>7, <2>1 DEF TransitInv, OrderInv
  <2>2. CASE i = 1 /\ j < n + 2
    <3>1. l[i] = a /\ l[j] = q[j - 1] /\ j - 1 \in 1 .. n
      <4>1. i \in 1 .. n + 1 /\ j \in 1 .. n + 1 /\ j # 1 /\ j - 1 \in 1 .. n
        BY <1>2, <1>9, <2>2
      <4> QED
        BY <1>2, <1>5, <1>7, <2>2, <4>1
    <3> QED
      BY <1>1, <1>2, <3>1 DEF TransitInv, OrderInv
  <2>3. CASE i > 1 /\ j = n + 2
    <3>1. l[i] = q[i - 1] /\ l[j] = b /\ i - 1 \in 1 .. n
      <4>1. i \in 1 .. n + 1 /\ i # 1 /\ i - 1 \in 1 .. n /\ ~(j <= n + 1)
        BY <1>2, <1>9, <2>3
      <4> QED
        BY <1>2, <1>5, <1>7, <2>3, <4>1
    <3> QED
      BY <1>1, <1>2, <3>1 DEF TransitInv, OrderInv
  <2>4. CASE i > 1 /\ j < n + 2
    <3>1. /\ l[i] = q[i - 1] /\ l[j] = q[j - 1]
          /\ i - 1 \in 1 .. n /\ j - 1 \in 1 .. n /\ i - 1 < j - 1
      BY <1>2, <1>5, <1>7, <1>9, <2>4
    <3> QED
      BY <1>1, <1>2, <3>1 DEF TransitInv, OrderInv
  <2> QED
    BY <1>2, <2>1, <2>2, <2>3, <2>4
<1> QED
  BY <1>7, <1>8, <1>9 DEF OwnersKeepTheirOrder, Precedes

(* What is between two components is attributed to the transport, means    *)
(* something to its reader, and arrives in the order it was posted.        *)
THEOREM TransitIsAlwaysSafe == MemorySpec => []TransitIsSafe
<1>1. TransitInv => TransitIsSafe
  <2> SUFFICES ASSUME TransitInv PROVE TransitIsSafe
    OBVIOUS
  <2>1. \A o \in InTransit : IsReady(o) => o.context = transport.context /\ HasOneSource(o)
    BY DEF TransitInv, PostingInv, Attribution
  <2>2. \A o \in InTransit \cup {in.owner} : Local(o.type) => transport.producer = Destination
    BY NoneIsNothing DEF TransitInv, HoldersInv, DestinationHolds, Local, IsReady
  <2>3. TransitIsNeutral
    BY <2>1, <2>2 DEF TransitInv, PodsInv, IsClear, TransitIsNeutral
  <2> QED
    BY <2>3, LineKeepsOrder DEF TransitIsSafe
<1> QED
  BY <1>1, MemoryInvariance, PTL
-----------------------------------------------------------------------------
(* Ids (system_ids.hpp).  Nothing moves here: the theorems are about the words *)
(* that the functions compute, for every index.                                *)

\* pack_from_even_bits() of what spread_to_even_bits() gave, shifted back.
LEMMA SpreadIsUndone ==
    ASSUME NEW shift \in Nat, NEW word \in SUBSET (0 .. 31)
    PROVE  Arithmetic!Packed(Arithmetic!Spread(word, shift), shift) = word
<1>1. ASSUME NEW k \in Arithmetic!Packed(Arithmetic!Spread(word, shift), shift)
      PROVE  k \in word
  <2>1. k \in Int /\ \E j \in word : 2 * k + shift = 2 * j + shift
    BY DEF Arithmetic!Packed, Arithmetic!Spread
  <2>2. PICK j \in word : 2 * k + shift = 2 * j + shift
    BY <2>1
  <2>3. j \in Int
    OBVIOUS
  <2>4. QED
    BY <2>1, <2>2, <2>3
<1>2. ASSUME NEW k \in word
      PROVE  k \in Arithmetic!Packed(Arithmetic!Spread(word, shift), shift)
  BY DEF Arithmetic!Packed, Arithmetic!Spread
<1>3. QED
  BY <1>1, <1>2

\* And the other way round, of a word that has no other bits.
LEMMA PackIsUndone ==
    ASSUME NEW shift \in Nat, NEW payload \in SUBSET (0 .. 31),
           NEW id \in SUBSET Arithmetic!Spread(payload, shift)
    PROVE  /\ Arithmetic!Packed(id, shift) \subseteq payload
           /\ Arithmetic!Spread(Arithmetic!Packed(id, shift), shift) = id
<1>1. \A b \in id : \E k \in payload : b = 2 * k + shift
  BY DEF Arithmetic!Spread
<1>2. Arithmetic!Packed(id, shift) \subseteq payload
  BY <1>1 DEF Arithmetic!Packed
<1>3. Arithmetic!Spread(Arithmetic!Packed(id, shift), shift) \subseteq id
  BY DEF Arithmetic!Packed, Arithmetic!Spread
<1>4. ASSUME NEW b \in id
      PROVE  b \in Arithmetic!Spread(Arithmetic!Packed(id, shift), shift)
  <2>1. PICK k \in payload : b = 2 * k + shift
    BY <1>1
  <2>2. k \in Arithmetic!Packed(id, shift)
    BY <2>1 DEF Arithmetic!Packed
  <2>3. QED
    BY <2>1, <2>2 DEF Arithmetic!Spread
<1>5. QED
  BY <1>2, <1>3, <1>4

(* TEncodedField: an index of any field comes back from its id, and a word that
   passes for an id of the field is the id of the index that is read from it. *)
THEOREM FieldIdsComeBack ==
    ASSUME NEW width \in 1 .. 32, NEW offset \in Nat
    PROVE  LET f == Arithmetic!Field(width, offset)
           IN  /\ \A index : Arithmetic!IsValidIndex(f, index) =>
                    /\ Arithmetic!IsValidId(f, Arithmetic!MakeId(f, index))
                    /\ Arithmetic!GetIndex(f, Arithmetic!MakeId(f, index)) = index
               /\ \A id : Arithmetic!IsValidId(f, id) =>
                    /\ Arithmetic!IsValidIndex(f, Arithmetic!GetIndex(f, id))
                    /\ Arithmetic!MakeId(f, Arithmetic!GetIndex(f, id)) = id
<1> DEFINE f == Arithmetic!Field(width, offset)
           payload == 0 .. width - 1
           shift == 2 * offset
<1>0. /\ Arithmetic!Payload(f) = payload /\ f.offset = offset
      /\ shift \in Nat /\ payload \in SUBSET (0 .. 31)
      /\ Arithmetic!EvenMask(f) = Arithmetic!Spread(payload, shift)
  BY DEF Arithmetic!Payload, Arithmetic!Field, Arithmetic!EvenMask
<1> HIDE DEF f, payload, shift
<1>1. ASSUME NEW index, Arithmetic!IsValidIndex(f, index)
      PROVE  /\ Arithmetic!IsValidId(f, Arithmetic!MakeId(f, index))
             /\ Arithmetic!GetIndex(f, Arithmetic!MakeId(f, index)) = index
  <2> DEFINE rest == payload \ index
             id == Arithmetic!Spread(rest, shift)
  <2>1. Arithmetic!MakeId(f, index) = id
    BY <1>0, <1>1 DEF Arithmetic!MakeId, shift
  <2>2. rest \in SUBSET (0 .. 31) /\ rest # {} /\ payload \ rest = index
    BY <1>0, <1>1 DEF Arithmetic!IsValidIndex
  <2>3. id \subseteq Arithmetic!EvenMask(f) /\ id # {}
    BY <1>0, <2>2 DEF Arithmetic!Spread
  <2>4. Arithmetic!Packed(id, shift) = rest
    BY <1>0, <2>2, SpreadIsUndone
  <2>5. Arithmetic!IsValidId(f, id)
    BY <2>3 DEF Arithmetic!IsValidId, Arithmetic!NoId
  <2>6. Arithmetic!GetIndex(f, id) = payload \ rest
    BY <1>0, <2>4, <2>5 DEF Arithmetic!GetIndex, shift
  <2>7. QED
    BY <2>1, <2>2, <2>5, <2>6
<1>2. ASSUME NEW id, Arithmetic!IsValidId(f, id)
      PROVE  /\ Arithmetic!IsValidIndex(f, Arithmetic!GetIndex(f, id))
             /\ Arithmetic!MakeId(f, Arithmetic!GetIndex(f, id)) = id
  <2> DEFINE rest == Arithmetic!Packed(id, shift)
             index == payload \ rest
  <2>1. id \in SUBSET Arithmetic!Spread(payload, shift) /\ id # {}
    BY <1>0, <1>2 DEF Arithmetic!IsValidId, Arithmetic!NoId
  <2>2. rest \subseteq payload /\ Arithmetic!Spread(rest, shift) = id
    BY <1>0, <2>1, PackIsUndone
  <2>3. rest # {}
    BY <2>1, <2>2 DEF Arithmetic!Spread
  <2>4. Arithmetic!GetIndex(f, id) = index
    BY <1>0, <1>2 DEF Arithmetic!GetIndex, shift
  <2>5. 40 \notin index
    BY <1>0
  <2>6. Arithmetic!IsValidIndex(f, index)
    BY <1>0, <2>2, <2>3, <2>5 DEF Arithmetic!IsValidIndex, Arithmetic!NoIndex
  <2>7. payload \ index = rest
    BY <2>2
  <2>8. Arithmetic!MakeId(f, index) = Arithmetic!Spread(payload \ index, shift)
    BY <1>0, <2>6 DEF Arithmetic!MakeId, shift
  <2>9. QED
    BY <2>2, <2>4, <2>6, <2>7, <2>8
<1>3. QED
  BY <1>1, <1>2 DEF f

\* The three fields of a runtime id are apart.
LEMMA FieldsAreApart ==
    /\ \A b \in Arithmetic!EvenMask(Arithmetic!Thread) : b \in 0 .. 30
    /\ \A b \in Arithmetic!EvenMask(Arithmetic!MountPoint) : b \in 32 .. 42
    /\ \A b \in Arithmetic!EvenMask(Arithmetic!Module) : b \in 44 .. 62
BY DEF Arithmetic!EvenMask, Arithmetic!Spread, Arithmetic!Payload, Arithmetic!Field,
       Arithmetic!Thread, Arithmetic!MountPoint, Arithmetic!Module

\* The id of a module has that of its mount point in it, and its own index.
LEMMA ModuleIdsComeApart ==
    ASSUME NEW mountPoint, Arithmetic!IsValidId(Arithmetic!MountPoint, mountPoint),
           NEW index, Arithmetic!IsValidIndex(Arithmetic!Module, index)
    PROVE  LET id == Arithmetic!MakeModuleId(mountPoint, index)
           IN  /\ Arithmetic!IsModuleId(id)
               /\ Arithmetic!MountPointId(id) = mountPoint
               /\ Arithmetic!ModuleIndex(id) = index
<1> DEFINE part == Arithmetic!MakeId(Arithmetic!Module, index)
           id == mountPoint \cup part
           shift == 2 * 22
<1>0. /\ Arithmetic!Module = Arithmetic!Field(10, 22) /\ Arithmetic!Module.offset = 22
      /\ Arithmetic!Payload(Arithmetic!Module) = 0 .. 9
  BY DEF Arithmetic!Module, Arithmetic!Field, Arithmetic!Payload
<1>1. /\ Arithmetic!IsValidId(Arithmetic!Module, part)
      /\ Arithmetic!GetIndex(Arithmetic!Module, part) = index
  <2>1. 10 \in 1 .. 32 /\ 22 \in Nat
    OBVIOUS
  <2>2. QED
    BY <1>0, <2>1, FieldIdsComeBack
<1>2. /\ part # {} /\ part \subseteq Arithmetic!EvenMask(Arithmetic!Module)
      /\ mountPoint # {} /\ mountPoint \subseteq Arithmetic!EvenMask(Arithmetic!MountPoint)
  BY <1>1 DEF Arithmetic!IsValidId, Arithmetic!NoId
<1>3. /\ \A b \in part : b \in 44 .. 62
      /\ \A b \in mountPoint : b \in 32 .. 42
  BY <1>2, FieldsAreApart
<1>4. Arithmetic!MakeModuleId(mountPoint, index) = id
  BY <1>0 DEF Arithmetic!MakeModuleId, Arithmetic!MakeId
<1>5. /\ id \cap Arithmetic!EvenMask(Arithmetic!MountPoint) = mountPoint
      /\ id \cap Arithmetic!EvenMask(Arithmetic!Module) = part
  <2>1. \A b \in part : b \notin Arithmetic!EvenMask(Arithmetic!MountPoint)
    BY <1>3, FieldsAreApart
  <2>2. \A b \in mountPoint : b \notin Arithmetic!EvenMask(Arithmetic!Module)
    BY <1>3, FieldsAreApart
  <2>3. QED
    BY <1>2, <2>1, <2>2
<1>6. Arithmetic!IsModuleId(id)
  BY <1>2, <1>5 DEF Arithmetic!IsModuleId, Arithmetic!NoId
<1>7. Arithmetic!MountPointId(id) = mountPoint
  BY <1>5, <1>6 DEF Arithmetic!MountPointId
<1>8. Arithmetic!Packed(id, shift) = Arithmetic!Packed(part, shift)
  <2>1. ASSUME NEW k \in 0 .. 31
        PROVE  2 * k + shift \notin mountPoint
    BY <1>3
  <2>2. QED
    BY <2>1 DEF Arithmetic!Packed
<1>9. Arithmetic!ModuleIndex(id) = index
  BY <1>0, <1>1, <1>6, <1>8 DEF Arithmetic!ModuleIndex, Arithmetic!GetIndex
<1>10. QED
  BY <1>4, <1>6, <1>7, <1>9

(* make_system_id(): a system id made of a module and a thread is valid, and the
   module, the thread, the mount point and their indices are taken from it as
   they were put into it. *)
THEOREM SystemIdsComeApart ==
    ASSUME NEW p, Arithmetic!IsValidIndex(Arithmetic!MountPoint, p),
           NEW m, Arithmetic!IsValidIndex(Arithmetic!Module, m),
           NEW t, Arithmetic!IsValidIndex(Arithmetic!Thread, t)
    PROVE  LET mountPoint == Arithmetic!MakeId(Arithmetic!MountPoint, p)
               module     == Arithmetic!MakeModuleId(mountPoint, m)
               thread     == Arithmetic!MakeId(Arithmetic!Thread, t)
               id         == Arithmetic!MakeSystemId(module, thread)
           IN  /\ Arithmetic!IsSystemId(id)
               /\ Arithmetic!ModuleId(id) = module
               /\ Arithmetic!ModuleIndex(module) = m
               /\ Arithmetic!ThreadId(id) = thread
               /\ Arithmetic!GetIndex(Arithmetic!Thread, thread) = t
               /\ Arithmetic!SystemMountPointId(id) = mountPoint
               /\ Arithmetic!SystemMountPointIndex(id) = p
<1> DEFINE mountPoint == Arithmetic!MakeId(Arithmetic!MountPoint, p)
           module == Arithmetic!MakeModuleId(mountPoint, m)
           thread == Arithmetic!MakeId(Arithmetic!Thread, t)
           id == module \cup thread
           places == Arithmetic!EvenMask(Arithmetic!MountPoint) \cup Arithmetic!EvenMask(Arithmetic!Module)
<1>0. /\ Arithmetic!MountPoint = Arithmetic!Field(6, 16) /\ Arithmetic!Thread = Arithmetic!Field(16, 0)
      /\ 6 \in 1 .. 32 /\ 16 \in 1 .. 32 /\ 0 \in Nat /\ 16 \in Nat
  BY DEF Arithmetic!MountPoint, Arithmetic!Thread
<1>1. /\ Arithmetic!IsValidId(Arithmetic!MountPoint, mountPoint)
      /\ Arithmetic!GetIndex(Arithmetic!MountPoint, mountPoint) = p
  BY <1>0, FieldIdsComeBack
<1>2. /\ Arithmetic!IsValidId(Arithmetic!Thread, thread)
      /\ Arithmetic!GetIndex(Arithmetic!Thread, thread) = t
  BY <1>0, FieldIdsComeBack
<1>3. /\ Arithmetic!IsModuleId(module)
      /\ Arithmetic!MountPointId(module) = mountPoint
      /\ Arithmetic!ModuleIndex(module) = m
  BY <1>1, ModuleIdsComeApart
<1> HIDE DEF mountPoint, module, thread
<1>4. /\ module # {} /\ module \subseteq places
      /\ thread # {} /\ thread \subseteq Arithmetic!EvenMask(Arithmetic!Thread)
  BY <1>2, <1>3 DEF Arithmetic!IsModuleId, Arithmetic!IsValidId, Arithmetic!NoId
<1>5. Arithmetic!MakeSystemId(module, thread) = id
  BY <1>2, <1>3 DEF Arithmetic!MakeSystemId
<1>6. id \cap places = module /\ id \cap Arithmetic!EvenMask(Arithmetic!Thread) = thread
  <2>1. \A b \in Arithmetic!EvenMask(Arithmetic!Thread) : b \notin places
    BY FieldsAreApart
  <2>2. QED
    BY <1>4, <2>1
<1>7. Arithmetic!IsSystemId(id)
  BY <1>4, <1>6 DEF Arithmetic!IsSystemId, Arithmetic!NoId
<1>8. Arithmetic!ModuleId(id) = module /\ Arithmetic!ThreadId(id) = thread
  BY <1>6, <1>7 DEF Arithmetic!ModuleId, Arithmetic!ThreadId
<1>9. Arithmetic!SystemMountPointId(id) = mountPoint /\ Arithmetic!SystemMountPointIndex(id) = p
  BY <1>1, <1>3, <1>8 DEF Arithmetic!SystemMountPointId, Arithmetic!SystemMountPointIndex, Arithmetic!MountPointIndex
<1>10. QED
  BY <1>2, <1>3, <1>5, <1>7, <1>8, <1>9 DEF mountPoint, module, thread

(* A type id comes back to its index in its category, and is of no other; so
   a local type never passes for a system type, nor the other way round. *)
THEOREM TypeIdsKeepTheirCategory ==
    ASSUME NEW category \in Arithmetic!Categories,
           NEW index, Arithmetic!IsTypeIndex(category, index)
    PROVE  LET id == Arithmetic!EncodeId(category, index)
           IN  /\ Arithmetic!IsTypeId(category, id)
               /\ Arithmetic!DecodeId(category, id) = index
               /\ Arithmetic!Category(Arithmetic!TypeId(category, id)) = category
               /\ \A wrong \in Arithmetic!Categories \ {category} :
                    ~Arithmetic!IsTypeId(wrong, id) /\ Arithmetic!TryTypeId(wrong, id) = Arithmetic!NoId
<1> DEFINE value == index \cap Arithmetic!OrdinalMask
           rest == Arithmetic!OrdinalMask \ value
           word == Arithmetic!Spread(rest, 0)
           flag == Arithmetic!TypeFlag(category)
           id == word \cup flag
<1>0. /\ Arithmetic!OrdinalMask = 0 .. 14
      /\ \A b \in Arithmetic!TypeMask : b \in 0 .. 28
  BY DEF Arithmetic!OrdinalMask, Arithmetic!TypeMask, Arithmetic!Spread
<1>1. /\ index \subseteq 0 .. 15 /\ index \cap {15} = Arithmetic!CategoryBit(category)
      /\ value \subseteq Arithmetic!OrdinalMask /\ value # Arithmetic!OrdinalMask
      /\ rest # {} /\ rest \in SUBSET (0 .. 31) /\ Arithmetic!OrdinalMask \ rest = value
  BY <1>0 DEF Arithmetic!IsTypeIndex
<1>2. word # {} /\ word \subseteq Arithmetic!TypeMask
  BY <1>1 DEF Arithmetic!TypeMask, Arithmetic!Spread
<1>3. Arithmetic!EncodeId(category, index) = id
  BY DEF Arithmetic!EncodeId, Arithmetic!DecodeIndex
<1>4. flag \subseteq {30} /\ id \cap {30} = flag /\ id \cap Arithmetic!TypeMask = word
  <2>1. flag \subseteq {30}
    BY DEF Arithmetic!TypeFlag
  <2>2. 30 \notin word /\ 30 \notin Arithmetic!TypeMask
    BY <1>0, <1>2
  <2>3. QED
    BY <1>2, <2>1, <2>2
<1>5. Arithmetic!IsTypeId(category, id)
  BY <1>2, <1>4 DEF Arithmetic!IsTypeId, Arithmetic!NoId
<1>6. Arithmetic!DecodeId(category, id) = index
  <2>1. Arithmetic!Packed(word, 0) = rest
    BY <1>1, SpreadIsUndone
  <2>2. Arithmetic!DecodeId(category, id) = Arithmetic!EncodeIndex(category, value)
    BY <1>1, <1>4, <1>5, <2>1 DEF Arithmetic!DecodeId
  <2>3. Arithmetic!EncodeIndex(category, value) = value \cup (index \cap {15})
    BY <1>1 DEF Arithmetic!EncodeIndex
  <2>4. \A b \in index : b \in 0 .. 14 \/ b = 15
    BY <1>1
  <2>5. value \cup (index \cap {15}) = index
    BY <1>0, <2>4
  <2>6. QED
    BY <2>2, <2>3, <2>5
<1>7. \A wrong \in Arithmetic!Categories \ {category} : Arithmetic!TypeFlag(wrong) # flag
  BY DEF Arithmetic!Categories, Arithmetic!TypeFlag
<1>8. \A wrong \in Arithmetic!Categories \ {category} : ~Arithmetic!IsTypeId(wrong, id)
  BY <1>4, <1>7 DEF Arithmetic!IsTypeId
<1>9. Arithmetic!Category(id) = category
  BY <1>5, <1>8 DEF Arithmetic!Category, Arithmetic!Categories
<1>10. \A wrong \in Arithmetic!Categories \ {category} : Arithmetic!TryTypeId(wrong, id) = Arithmetic!NoId
  BY <1>9 DEF Arithmetic!TryTypeId
<1>11. Arithmetic!TypeId(category, id) = id
  BY <1>5 DEF Arithmetic!TypeId
<1>12. QED
  BY <1>3, <1>5, <1>6, <1>8, <1>9, <1>10, <1>11
-----------------------------------------------------------------------------
(***************************************************************************)
(* A context under several threads.  Each of its two words is the number   *)
(* of elements of a set: of the blocks it has counted, or of their bytes.  *)
(* A call moves its block into the one set and into the other, or out of   *)
(* them, at different steps.                                               *)
(***************************************************************************)
Block == [number : 1 .. Own, context : Accounts, size : Sizes]
Steps == {"addCount", "addBytes", "undoCount", "allocator", "subCount", "subBytes"}
Call == [op : {"allocate", "deallocate", "reattribute"}, at : Steps,
         from : Accounts, to : Accounts, block : Block]

\* The block as the call will leave it.
Gained(k) == [k.block EXCEPT !.context = k.to]

\* The blocks that a thread with blocks o and a call k has had counted, and
\* those it has had their bytes counted of.
CountGains(k) ==
    \/ k.at \in {"addBytes", "undoCount", "allocator"}
    \/ k.at = "subCount" /\ k.op # "deallocate"
    \/ k.at = "subBytes" /\ k.op = "reattribute"
BytesGain(k) == k.at = "allocator" \/ (k.at \in {"subCount", "subBytes"} /\ k.op # "deallocate")
Counted(o, k) ==
    (IF k.at = "subBytes" THEN o \ {k.block} ELSE o) \cup (IF CountGains(k) THEN {Gained(k)} ELSE {})
Measured(o, k) == o \cup (IF BytesGain(k) THEN {Gained(k)} ELSE {})

\* What fits together in a thread.
Fits(o, k) ==
    /\ o \in SUBSET Block /\ IsFiniteSet(o)
    /\ \A a, b \in o : a.number = b.number => a = b
    /\ k \in Call \cup {Context!Idle}
    /\ k.op = "allocate" => /\ k.from = k.block.context /\ k.to = k.from
                            /\ \A a \in o : a.number # k.block.number
    /\ k.op = "deallocate" => /\ k.block \in o /\ k.from = k.block.context /\ k.to = k.from
                              /\ k.at \in {"subCount", "subBytes"}
    /\ k.op = "reattribute" => /\ k.block \in o /\ k.from = k.block.context /\ k.to # k.from
                               /\ k.at # "allocator"

\* A block more of a thread, and one less; an account raised, and lowered.
Raised(n, c, size) == [n EXCEPT ![c] = @ + size]
Lowered(n, c, size) == [n EXCEPT ![c] = @ - size]
Put(f, t, x) == [f EXCEPT ![t] = x]
With(f, t, b) == [f EXCEPT ![t] = @ \cup {b}]
Without(f, t, b) == [f EXCEPT ![t] = @ \ {b}]

\* The blocks of f, by thread, that are in the context c.
Theirs(f, c) == {x \in Threads \X Block : x[2] \in f[x[1]] /\ x[2].context = c}
CountsAre(n, f) == \A c \in Accounts : IsFiniteSet(Theirs(f, c)) /\ n[c] = Cardinality(Theirs(f, c))
BytesAre(n, f) ==
    \A c \in Accounts : /\ IsFiniteSet(Context!BytesOf(Theirs(f, c)))
                        /\ n[c] = Cardinality(Context!BytesOf(Theirs(f, c)))

CountedBy(o, k) == [t \in Threads |-> Counted(o[t], k[t])]
MeasuredBy(o, k) == [t \in Threads |-> Measured(o[t], k[t])]

ContextInv ==
    /\ count \in [Accounts -> Int] /\ bytes \in [Accounts -> Int]
    /\ owned \in [Threads -> SUBSET Block] /\ call \in [Threads -> Call \cup {Context!Idle}]
    /\ \A t \in Threads : Fits(owned[t], call[t])
    /\ CountsAre(count, CountedBy(owned, call))
    /\ BytesAre(bytes, MeasuredBy(owned, call))
-----------------------------------------------------------------------------
(* The cardinality of the module that is instantiated.                     *)
LEMMA SameCardinality == ASSUME NEW S PROVE Context!Cardinality(S) = Cardinality(S)
BY Zenon DEF Context!Cardinality, Cardinality

LEMMA TheirsWith ==
  ASSUME NEW f \in [Threads -> SUBSET Block], NEW t \in Threads, NEW b \in Block, b \notin f[t], NEW c
  PROVE  /\ <<t, b>> \notin Theirs(f, c)
         /\ c = b.context => Theirs(With(f, t, b), c) = Theirs(f, c) \cup {<<t, b>>}
         /\ c # b.context => Theirs(With(f, t, b), c) = Theirs(f, c)
<1> DEFINE g == With(f, t, b)
<1>1. <<t, b>> \notin Theirs(f, c)
  BY DEF Theirs
<1>2. ASSUME NEW x \in Threads \X Block
      PROVE  x[2] \in g[x[1]] <=> x[2] \in f[x[1]] \/ x = <<t, b>>
  <2>1. PICK u \in Threads, d \in Block : x = <<u, d>>
    OBVIOUS
  <2>2. d \in g[u] <=> d \in f[u] \/ (u = t /\ d = b)
    BY DEF With
  <2> QED
    BY <2>1, <2>2
<1>3. ASSUME c = b.context PROVE Theirs(g, c) = Theirs(f, c) \cup {<<t, b>>}
  BY <1>2, <1>3 DEF Theirs
<1>4. ASSUME c # b.context PROVE Theirs(g, c) = Theirs(f, c)
  BY <1>2, <1>4 DEF Theirs
<1> QED
  BY <1>1, <1>3, <1>4

LEMMA CountWith ==
  ASSUME NEW f \in [Threads -> SUBSET Block], NEW t \in Threads, NEW b \in Block, b \notin f[t],
         NEW n \in [Accounts -> Int], CountsAre(n, f)
  PROVE  CountsAre(Raised(n, b.context, 1), With(f, t, b))
<1> DEFINE g == With(f, t, b)
           m == Raised(n, b.context, 1)
<1> SUFFICES ASSUME NEW c \in Accounts
             PROVE  IsFiniteSet(Theirs(g, c)) /\ m[c] = Cardinality(Theirs(g, c))
  BY DEF CountsAre
<1>1. IsFiniteSet(Theirs(f, c)) /\ n[c] = Cardinality(Theirs(f, c))
  BY DEF CountsAre
<1>2. /\ <<t, b>> \notin Theirs(f, c)
      /\ c = b.context => Theirs(g, c) = Theirs(f, c) \cup {<<t, b>>}
      /\ c # b.context => Theirs(g, c) = Theirs(f, c)
  BY TheirsWith
<1>3. m[c] = IF c = b.context THEN n[c] + 1 ELSE n[c]
  BY DEF Raised, Lowered
<1> HIDE DEF g, m
<1> QED
  BY <1>1, <1>2, <1>3, FS_AddElement

LEMMA CountWithout ==
  ASSUME NEW f \in [Threads -> SUBSET Block], NEW t \in Threads, NEW b \in Block, b \in f[t],
         NEW n \in [Accounts -> Int], CountsAre(n, f)
  PROVE  CountsAre(Lowered(n, b.context, 1), Without(f, t, b))
<1> DEFINE g == Without(f, t, b)
           m == Lowered(n, b.context, 1)
<1> SUFFICES ASSUME NEW c \in Accounts
             PROVE  IsFiniteSet(Theirs(g, c)) /\ m[c] = Cardinality(Theirs(g, c))
  BY DEF CountsAre
<1>1. IsFiniteSet(Theirs(f, c)) /\ n[c] = Cardinality(Theirs(f, c))
  BY DEF CountsAre
<1>2. g \in [Threads -> SUBSET Block] /\ b \notin g[t] /\ f = With(g, t, b)
  BY DEF With, Without
<1>3. m[c] = IF c = b.context THEN n[c] - 1 ELSE n[c]
  BY DEF Raised, Lowered
<1> HIDE DEF g, m
<1>4. /\ <<t, b>> \notin Theirs(g, c)
      /\ c = b.context => Theirs(f, c) = Theirs(g, c) \cup {<<t, b>>}
      /\ c # b.context => Theirs(f, c) = Theirs(g, c)
  <2>1. /\ <<t, b>> \notin Theirs(g, c)
        /\ c = b.context => Theirs(With(g, t, b), c) = Theirs(g, c) \cup {<<t, b>>}
        /\ c # b.context => Theirs(With(g, t, b), c) = Theirs(g, c)
    BY <1>2, TheirsWith
  <2> QED
    BY <1>2, <2>1, Zenon
<1>5. CASE c = b.context
  <2>1. Theirs(g, c) = Theirs(f, c) \ {<<t, b>>} /\ <<t, b>> \in Theirs(f, c)
    BY <1>4, <1>5
  <2>2. PICK S, x : S = Theirs(f, c) /\ x = <<t, b>>
    OBVIOUS
  <2>3. IsFiniteSet(S) /\ x \in S
    BY <1>1, <2>1, <2>2
  <2>4. IsFiniteSet(S \ {x}) /\ Cardinality(S \ {x}) = Cardinality(S) - 1
    BY <2>3, FS_RemoveElement
  <2>5. IsFiniteSet(Theirs(g, c)) /\ Cardinality(Theirs(g, c)) = Cardinality(Theirs(f, c)) - 1
    BY <2>1, <2>2, <2>4, Zenon
  <2> QED
    BY <1>1, <1>3, <1>5, <2>5
<1>6. CASE c # b.context
  BY <1>1, <1>3, <1>4, <1>6
<1> QED
  BY <1>5, <1>6

(* The bytes of one block more.                                            *)
LEMMA BytesOfMore ==
  ASSUME NEW S, NEW x, x \notin S, x[2].size \in Nat
  PROVE  /\ Context!BytesOf(S \cup {x}) = Context!BytesOf(S) \cup ({x} \X (1 .. x[2].size))
         /\ Context!BytesOf(S) \cap ({x} \X (1 .. x[2].size)) = {}
         /\ IsFiniteSet({x} \X (1 .. x[2].size))
         /\ Cardinality({x} \X (1 .. x[2].size)) = x[2].size
<1>1. Context!BytesOf(S \cup {x}) = Context!BytesOf(S) \cup ({x} \X (1 .. x[2].size))
  BY DEF Context!BytesOf
<1>2. Context!BytesOf(S) \cap ({x} \X (1 .. x[2].size)) = {}
  BY DEF Context!BytesOf
<1>3. IsFiniteSet({x}) /\ Cardinality({x}) = 1
  BY FS_Singleton
<1>4. PICK n \in Nat : n = x[2].size
  OBVIOUS
<1>5. IsFiniteSet(1 .. n) /\ Cardinality(1 .. n) = n
  <2>1. IsFiniteSet(1 .. n) /\ Cardinality(1 .. n) = IF 1 > n THEN 0 ELSE n - 1 + 1
    BY FS_Interval
  <2>2. (IF 1 > n THEN 0 ELSE n - 1 + 1) = n
    OBVIOUS
  <2> QED
    BY <2>1, <2>2
<1>6. IsFiniteSet({x} \X (1 .. n)) /\ Cardinality({x} \X (1 .. n)) = 1 * n
  BY <1>3, <1>5, FS_Product
<1>7. 1 * n = n
  OBVIOUS
<1>8. IsFiniteSet({x} \X (1 .. x[2].size)) /\ Cardinality({x} \X (1 .. x[2].size)) = x[2].size
  BY <1>4, <1>6, <1>7, Zenon
<1> QED
  BY <1>1, <1>2, <1>8

LEMMA MoreBytes ==
  ASSUME NEW S, NEW x, x \notin S, x[2].size \in Nat, IsFiniteSet(Context!BytesOf(S))
  PROVE  /\ IsFiniteSet(Context!BytesOf(S \cup {x}))
         /\ Cardinality(Context!BytesOf(S \cup {x})) = Cardinality(Context!BytesOf(S)) + x[2].size
         /\ Cardinality(Context!BytesOf(S)) \in Nat
<1> DEFINE B == Context!BytesOf(S)
           X == {x} \X (1 .. x[2].size)
<1>1. /\ Context!BytesOf(S \cup {x}) = B \cup X /\ B \cap X = {}
      /\ IsFiniteSet(X) /\ Cardinality(X) = x[2].size
  BY BytesOfMore
<1> HIDE DEF B, X
<1>2. IsFiniteSet(B)
  BY DEF B
<1>3. /\ IsFiniteSet(B \cup X)
      /\ Cardinality(B \cup X) = Cardinality(B) + Cardinality(X) - Cardinality(B \cap X)
  BY <1>1, <1>2, FS_Union
<1>4. Cardinality(B \cap X) = 0
  BY <1>1, FS_EmptySet
<1>5. Cardinality(B) \in Nat
  BY <1>2, FS_CardinalityType
<1>6. Cardinality(B \cup X) = Cardinality(B) + x[2].size
  BY <1>1, <1>3, <1>4, <1>5
<1> QED
  BY <1>1, <1>3, <1>5, <1>6 DEF B

LEMMA BytesWith ==
  ASSUME NEW f \in [Threads -> SUBSET Block], NEW t \in Threads, NEW b \in Block, b \notin f[t],
         NEW n \in [Accounts -> Int], BytesAre(n, f)
  PROVE  BytesAre(Raised(n, b.context, b.size), With(f, t, b))
<1> DEFINE g == With(f, t, b)
           m == Raised(n, b.context, b.size)
           Bytes(h, c) == Context!BytesOf(Theirs(h, c))
<1> SUFFICES ASSUME NEW c \in Accounts
             PROVE  IsFiniteSet(Bytes(g, c)) /\ m[c] = Cardinality(Bytes(g, c))
  BY DEF BytesAre
<1>1. IsFiniteSet(Bytes(f, c)) /\ n[c] = Cardinality(Bytes(f, c))
  BY DEF BytesAre
<1>2. /\ <<t, b>> \notin Theirs(f, c)
      /\ c = b.context => Theirs(g, c) = Theirs(f, c) \cup {<<t, b>>}
      /\ c # b.context => Theirs(g, c) = Theirs(f, c)
  BY TheirsWith
<1>3. m[c] = IF c = b.context THEN n[c] + b.size ELSE n[c]
  BY DEF Raised, Lowered
<1>4. b.size \in Nat
  BY PartsAssumption DEF Block, Context!AccountsAssumption
<1> HIDE DEF g, m
<1>5. CASE c = b.context
  <2>1. /\ IsFiniteSet(Context!BytesOf(Theirs(f, c) \cup {<<t, b>>}))
        /\ Cardinality(Context!BytesOf(Theirs(f, c) \cup {<<t, b>>})) = Cardinality(Bytes(f, c)) + b.size
    BY <1>1, <1>2, <1>4, MoreBytes
  <2> QED
    BY <1>1, <1>2, <1>3, <1>5, <2>1
<1>6. CASE c # b.context
  BY <1>1, <1>2, <1>3, <1>6
<1> QED
  BY <1>5, <1>6

LEMMA BytesWithout ==
  ASSUME NEW f \in [Threads -> SUBSET Block], NEW t \in Threads, NEW b \in Block, b \in f[t],
         NEW n \in [Accounts -> Int], BytesAre(n, f)
  PROVE  BytesAre(Lowered(n, b.context, b.size), Without(f, t, b))
<1> DEFINE g == Without(f, t, b)
           m == Lowered(n, b.context, b.size)
           Bytes(h, c) == Context!BytesOf(Theirs(h, c))
<1> SUFFICES ASSUME NEW c \in Accounts
             PROVE  IsFiniteSet(Bytes(g, c)) /\ m[c] = Cardinality(Bytes(g, c))
  BY DEF BytesAre
<1>1. IsFiniteSet(Bytes(f, c)) /\ n[c] = Cardinality(Bytes(f, c))
  BY DEF BytesAre
<1>2. g \in [Threads -> SUBSET Block] /\ b \notin g[t] /\ f = With(g, t, b)
  BY DEF With, Without
<1>3. m[c] = IF c = b.context THEN n[c] - b.size ELSE n[c]
  BY DEF Raised, Lowered
<1>4. b.size \in Nat
  BY PartsAssumption DEF Block, Context!AccountsAssumption
<1> HIDE DEF g, m
<1>5. /\ <<t, b>> \notin Theirs(g, c)
      /\ c = b.context => Theirs(f, c) = Theirs(g, c) \cup {<<t, b>>}
      /\ c # b.context => Theirs(f, c) = Theirs(g, c)
  <2>1. /\ <<t, b>> \notin Theirs(g, c)
        /\ c = b.context => Theirs(With(g, t, b), c) = Theirs(g, c) \cup {<<t, b>>}
        /\ c # b.context => Theirs(With(g, t, b), c) = Theirs(g, c)
    BY <1>2, TheirsWith
  <2> QED
    BY <1>2, <2>1, Zenon
<1>6. CASE c = b.context
  <2>1. Bytes(g, c) \in SUBSET Bytes(f, c)
    BY <1>5, <1>6 DEF Context!BytesOf
  <2>2. IsFiniteSet(Bytes(g, c))
    BY <1>1, <2>1, FS_Subset
  <2>3. PICK S, x : S = Theirs(g, c) /\ x = <<t, b>>
    OBVIOUS
  <2>4. x \notin S /\ x[2].size = b.size /\ IsFiniteSet(Context!BytesOf(S))
    BY <1>5, <2>2, <2>3
  <2>5. /\ Cardinality(Context!BytesOf(S \cup {x})) = Cardinality(Context!BytesOf(S)) + b.size
        /\ Cardinality(Context!BytesOf(S)) \in Nat
    BY <1>4, <2>4, MoreBytes
  <2>6. Theirs(f, c) = S \cup {x}
    BY <1>5, <1>6, <2>3
  <2>7. n[c] = Cardinality(Bytes(g, c)) + b.size /\ Cardinality(Bytes(g, c)) \in Nat
    BY <1>1, <2>3, <2>5, <2>6
  <2> HIDE DEF Bytes
  <2> QED
    BY <1>3, <1>4, <1>6, <2>2, <2>7
<1>7. CASE c # b.context
  BY <1>1, <1>3, <1>5, <1>7
<1> QED
  BY <1>6, <1>7
-----------------------------------------------------------------------------
(* A step of a thread changes what it has had counted by a block, or not.  *)
CountStep(A, B, n, m) ==
    \/ B = A /\ m = n
    \/ \E b \in Block : b \notin A /\ B = A \cup {b} /\ m = Raised(n, b.context, 1)
    \/ \E b \in Block : b \in A /\ B = A \ {b} /\ m = Lowered(n, b.context, 1)
BytesStep(A, B, n, m) ==
    \/ B = A /\ m = n
    \/ \E b \in Block : b \notin A /\ B = A \cup {b} /\ m = Raised(n, b.context, b.size)
    \/ \E b \in Block : b \in A /\ B = A \ {b} /\ m = Lowered(n, b.context, b.size)

LEMMA AccountsAreNumbers ==
  ASSUME NEW n \in [Accounts -> Int], NEW c \in Accounts, NEW size \in Int
  PROVE  Raised(n, c, size) \in [Accounts -> Int] /\ Lowered(n, c, size) \in [Accounts -> Int]
BY DEF Raised, Lowered

LEMMA CountFollows ==
  ASSUME NEW f \in [Threads -> SUBSET Block], NEW t \in Threads, NEW B, NEW m,
         NEW n \in [Accounts -> Int], CountsAre(n, f), CountStep(f[t], B, n, m)
  PROVE  CountsAre(m, Put(f, t, B)) /\ m \in [Accounts -> Int]
<1>1. CASE B = f[t] /\ m = n
  <2>1. Put(f, t, B) = f
    BY <1>1 DEF Put
  <2> QED
    BY <1>1, <2>1
<1>2. ASSUME NEW b \in Block, b \notin f[t], B = f[t] \cup {b}, m = Raised(n, b.context, 1)
      PROVE  CountsAre(m, Put(f, t, B)) /\ m \in [Accounts -> Int]
  <2>1. Put(f, t, B) = With(f, t, b)
    BY <1>2 DEF With, Put
  <2>2. m \in [Accounts -> Int]
    BY <1>2, AccountsAreNumbers DEF Block
  <2>3. CountsAre(Raised(n, b.context, 1), With(f, t, b))
    BY <1>2, CountWith
  <2> QED
    BY <1>2, <2>1, <2>2, <2>3, Zenon
<1>3. ASSUME NEW b \in Block, b \in f[t], B = f[t] \ {b}, m = Lowered(n, b.context, 1)
      PROVE  CountsAre(m, Put(f, t, B)) /\ m \in [Accounts -> Int]
  <2>1. Put(f, t, B) = Without(f, t, b)
    BY <1>3 DEF Without, Put
  <2>2. m \in [Accounts -> Int]
    BY <1>3, AccountsAreNumbers DEF Block
  <2>3. CountsAre(Lowered(n, b.context, 1), Without(f, t, b))
    BY <1>3, CountWithout
  <2> QED
    BY <1>3, <2>1, <2>2, <2>3, Zenon
<1> QED
  BY <1>1, <1>2, <1>3 DEF CountStep

LEMMA BytesFollow ==
  ASSUME NEW f \in [Threads -> SUBSET Block], NEW t \in Threads, NEW B, NEW m,
         NEW n \in [Accounts -> Int], BytesAre(n, f), BytesStep(f[t], B, n, m)
  PROVE  BytesAre(m, Put(f, t, B)) /\ m \in [Accounts -> Int]
<1>0. ASSUME NEW b \in Block PROVE b.size \in Int
  <2>1. b.size \in Nat
    BY PartsAssumption DEF Block, Context!AccountsAssumption
  <2> QED
    BY <2>1
<1>1. CASE B = f[t] /\ m = n
  <2>1. Put(f, t, B) = f
    BY <1>1 DEF Put
  <2> QED
    BY <1>1, <2>1
<1>2. ASSUME NEW b \in Block, b \notin f[t], B = f[t] \cup {b}, m = Raised(n, b.context, b.size)
      PROVE  BytesAre(m, Put(f, t, B)) /\ m \in [Accounts -> Int]
  <2>1. Put(f, t, B) = With(f, t, b)
    BY <1>2 DEF With, Put
  <2>2. m \in [Accounts -> Int]
    BY <1>0, <1>2, AccountsAreNumbers DEF Block
  <2>3. BytesAre(Raised(n, b.context, b.size), With(f, t, b))
    BY <1>2, BytesWith
  <2> QED
    BY <1>2, <2>1, <2>2, <2>3, Zenon
<1>3. ASSUME NEW b \in Block, b \in f[t], B = f[t] \ {b}, m = Lowered(n, b.context, b.size)
      PROVE  BytesAre(m, Put(f, t, B)) /\ m \in [Accounts -> Int]
  <2>1. Put(f, t, B) = Without(f, t, b)
    BY <1>3 DEF Without, Put
  <2>2. m \in [Accounts -> Int]
    BY <1>0, <1>3, AccountsAreNumbers DEF Block
  <2>3. BytesAre(Lowered(n, b.context, b.size), Without(f, t, b))
    BY <1>3, BytesWithout
  <2> QED
    BY <1>3, <2>1, <2>2, <2>3, Zenon
<1> QED
  BY <1>1, <1>2, <1>3 DEF BytesStep

LEMMA FittingBlocks ==
  ASSUME NEW o, NEW k, Fits(o, k)
  PROVE  Counted(o, k) \in SUBSET Block /\ Measured(o, k) \in SUBSET Block
<1>1. CountGains(k) \/ BytesGain(k) => k \in Call
  BY DEF Fits, CountGains, BytesGain, Context!Idle
<1>2. k \in Call => Gained(k) \in Block
  BY DEF Call, Gained, Block
<1> QED
  BY <1>1, <1>2 DEF Counted, Measured, Fits

LEMMA OneThread ==
  ASSUME NEW o \in [Threads -> SUBSET Block], NEW k \in [Threads -> Call \cup {Context!Idle}],
         NEW t \in Threads, NEW p, NEW c
  PROVE  /\ CountedBy(Put(o, t, p), Put(k, t, c)) = Put(CountedBy(o, k), t, Counted(p, c))
         /\ MeasuredBy(Put(o, t, p), Put(k, t, c)) = Put(MeasuredBy(o, k), t, Measured(p, c))
BY DEF CountedBy, MeasuredBy, Put

LEMMA ThreadMoves ==
  ASSUME ContextInv, NEW t \in Threads, NEW o, NEW k, Fits(o, k),
         owned' = Put(owned, t, o), call' = Put(call, t, k),
         CountStep(Counted(owned[t], call[t]), Counted(o, k), count, count'),
         BytesStep(Measured(owned[t], call[t]), Measured(o, k), bytes, bytes')
  PROVE  ContextInv'
<1>1. PICK f, g : f = CountedBy(owned, call) /\ g = MeasuredBy(owned, call)
  OBVIOUS
<1>2. f \in [Threads -> SUBSET Block] /\ g \in [Threads -> SUBSET Block]
  BY <1>1, FittingBlocks DEF ContextInv, CountedBy, MeasuredBy
<1>3. f[t] = Counted(owned[t], call[t]) /\ g[t] = Measured(owned[t], call[t])
  BY <1>1 DEF CountedBy, MeasuredBy
<1>4. CountsAre(count', Put(f, t, Counted(o, k))) /\ count' \in [Accounts -> Int]
  <2>1. PICK n, m, B : n = count /\ m = count' /\ B = Counted(o, k)
    OBVIOUS
  <2>2. n \in [Accounts -> Int] /\ CountsAre(n, f) /\ CountStep(f[t], B, n, m)
    BY <1>1, <1>3, <2>1 DEF ContextInv
  <2>3. CountsAre(m, Put(f, t, B)) /\ m \in [Accounts -> Int]
    BY <1>2, <2>2, CountFollows
  <2> QED
    BY <2>1, <2>3
<1>5. BytesAre(bytes', Put(g, t, Measured(o, k))) /\ bytes' \in [Accounts -> Int]
  <2>1. PICK n, m, B : n = bytes /\ m = bytes' /\ B = Measured(o, k)
    OBVIOUS
  <2>2. n \in [Accounts -> Int] /\ BytesAre(n, g) /\ BytesStep(g[t], B, n, m)
    BY <1>1, <1>3, <2>1 DEF ContextInv
  <2>3. BytesAre(m, Put(g, t, B)) /\ m \in [Accounts -> Int]
    BY <1>2, <2>2, BytesFollow
  <2> QED
    BY <2>1, <2>3
<1>6. /\ CountedBy(owned', call') = Put(f, t, Counted(o, k))
      /\ MeasuredBy(owned', call') = Put(g, t, Measured(o, k))
  <2>1. PICK w, z : w = owned /\ z = call
    OBVIOUS
  <2>2. w \in [Threads -> SUBSET Block] /\ z \in [Threads -> Call \cup {Context!Idle}]
    BY <2>1 DEF ContextInv
  <2>3. /\ CountedBy(Put(w, t, o), Put(z, t, k)) = Put(CountedBy(w, z), t, Counted(o, k))
        /\ MeasuredBy(Put(w, t, o), Put(z, t, k)) = Put(MeasuredBy(w, z), t, Measured(o, k))
    BY <2>2, OneThread
  <2>4. owned' = Put(w, t, o) /\ call' = Put(z, t, k)
    BY <2>1
  <2>5. f = CountedBy(w, z) /\ g = MeasuredBy(w, z)
    BY <1>1, <2>1
  <2> QED
    BY <2>3, <2>4, <2>5, Zenon
<1>7. o \in SUBSET Block /\ k \in Call \cup {Context!Idle}
  BY DEF Fits
<1>8. owned' \in [Threads -> SUBSET Block] /\ call' \in [Threads -> Call \cup {Context!Idle}]
  BY <1>7 DEF ContextInv, Put
<1>9. \A u \in Threads : Fits(owned'[u], call'[u])
  BY DEF ContextInv, Put
<1>10. CountsAre(count', CountedBy(owned', call')) /\ BytesAre(bytes', MeasuredBy(owned', call'))
  BY <1>4, <1>5, <1>6
<1> QED
  BY <1>4, <1>5, <1>8, <1>9, <1>10 DEF ContextInv
-----------------------------------------------------------------------------
(* The steps of a thread.                                                  *)

LEMMA ANumberIsFree ==
  ASSUME ContextInv, NEW t \in Threads, Cardinality(owned[t]) < Own
  PROVE  Context!FreeNumber(t) \in 1 .. Own /\ \A b \in owned[t] : b.number # Context!FreeNumber(t)
<1>1. PICK o : o = owned[t]
  OBVIOUS
<1>2. IsFiniteSet(o) /\ o \subseteq Block /\ Cardinality(o) < Own
  BY <1>1 DEF ContextInv, Fits
<1> DEFINE N == {b.number : b \in o}
           number == [b \in o |-> b.number]
<1>3. number \in Surjection(o, N)
  BY DEF Surjection
<1>4. IsFiniteSet(N) /\ Cardinality(N) <= Cardinality(o)
  BY <1>2, <1>3, FS_Surjection
<1>5. Own \in Nat
  BY PartsAssumption DEF Context!AccountsAssumption
<1>6. \E n \in 1 .. Own : n \notin N
  <2> SUFFICES ASSUME 1 .. Own \subseteq N PROVE FALSE
    OBVIOUS
  <2>1. Cardinality(1 .. Own) = IF 1 > Own THEN 0 ELSE Own - 1 + 1
    BY <1>5, FS_Interval
  <2>2. Cardinality(1 .. Own) <= Cardinality(N)
    BY <1>4, FS_Subset
  <2>3. Cardinality(N) \in Nat /\ Cardinality(o) \in Nat
    BY <1>2, <1>4, FS_CardinalityType
  <2> HIDE DEF N
  <2> QED
    BY <1>2, <1>4, <1>5, <2>1, <2>2, <2>3
<1>7. Context!Numbers(t) = N
  BY <1>1 DEF Context!Numbers
<1>8. Context!FreeNumber(t) \in 1 .. Own /\ Context!FreeNumber(t) \notin N
  BY <1>6, <1>7 DEF Context!FreeNumber
<1> QED
  BY <1>1, <1>8

LEMMA AllocationBegins ==
  ASSUME ContextInv, NEW t \in Threads, NEW c \in Accounts, NEW n \in Sizes,
         Context!BeginAllocate(t, c, n)
  PROVE  ContextInv'
<1>1. PICK b : b = [number |-> Context!FreeNumber(t), context |-> c, size |-> n]
  OBVIOUS
<1>2. PICK k : k = [op |-> "allocate", at |-> "addCount", from |-> c, to |-> c, block |-> b]
  OBVIOUS
<1>3. b \in Block /\ \A a \in owned[t] : a.number # b.number
  <2>1. b.number = Context!FreeNumber(t) /\ b.context = c /\ b.size = n
    BY <1>1
  <2>2. Cardinality(owned[t]) < Own
    BY SameCardinality DEF Context!BeginAllocate
  <2>3. /\ Context!FreeNumber(t) \in 1 .. Own
        /\ \A a \in owned[t] : a.number # Context!FreeNumber(t)
    BY <2>2, ANumberIsFree
  <2> QED
    BY <1>1, <2>1, <2>3 DEF Block
<1>4. k \in Call
  BY <1>2, <1>3 DEF Call, Steps, Block
<1>5. Fits(owned[t], call[t]) /\ call[t] = Context!Idle
  BY DEF ContextInv, Context!BeginAllocate
<1>6. Fits(owned[t], k)
  BY <1>1, <1>2, <1>3, <1>4, <1>5 DEF Fits
<1>7. /\ Counted(owned[t], k) = Counted(owned[t], call[t])
      /\ Measured(owned[t], k) = Measured(owned[t], call[t])
  BY <1>2, <1>5 DEF Counted, Measured, CountGains, BytesGain, Context!Idle
<1>8. owned' = Put(owned, t, owned[t]) /\ call' = Put(call, t, k) /\ count' = count /\ bytes' = bytes
  BY <1>1, <1>2 DEF Context!BeginAllocate, Put, ContextInv
<1> QED
  BY <1>6, <1>7, <1>8, ThreadMoves DEF CountStep, BytesStep

LEMMA OtherCallsBegin ==
  ASSUME ContextInv, NEW t \in Threads, NEW b \in owned[t],
         \/ Context!BeginDeallocate(t, b)
         \/ \E c \in Accounts : Context!BeginReattribute(t, b, c)
  PROVE  ContextInv'
<1>1. PICK k :
        /\ call' = [call EXCEPT ![t] = k] /\ UNCHANGED <<count, bytes, owned>> /\ call[t] = Context!Idle
        /\ \/ k = [op |-> "deallocate", at |-> "subCount", from |-> b.context, to |-> b.context, block |-> b]
           \/ \E c \in Accounts : c # b.context /\
                k = [op |-> "reattribute", at |-> "addCount", from |-> b.context, to |-> c, block |-> b]
  BY DEF Context!BeginDeallocate, Context!BeginReattribute
<1>2. Fits(owned[t], call[t]) /\ b \in Block /\ b.context \in Accounts
  BY DEF ContextInv, Fits, Block
<1>3. k \in Call
  BY <1>1, <1>2 DEF Call, Steps
<1>4. Fits(owned[t], k)
  BY <1>1, <1>2, <1>3 DEF Fits
<1>5. /\ Counted(owned[t], k) = Counted(owned[t], call[t])
      /\ Measured(owned[t], k) = Measured(owned[t], call[t])
  BY <1>1 DEF Counted, Measured, CountGains, BytesGain, Context!Idle
<1>6. owned' = Put(owned, t, owned[t]) /\ call' = Put(call, t, k) /\ count' = count /\ bytes' = bytes
  BY <1>1 DEF Put, ContextInv
<1> QED
  BY <1>4, <1>5, <1>6, ThreadMoves DEF CountStep, BytesStep

(* A call in progress, and the same call elsewhere.                        *)
LEMMA CallInProgress ==
  ASSUME NEW o, NEW k, Fits(o, k), k.at # "none"
  PROVE  /\ k \in Call /\ k.block \in Block /\ Gained(k) \in Block
         /\ Gained(k).context = k.to /\ Gained(k).size = k.block.size
         /\ k.op # "deallocate" => Gained(k) \notin o
         /\ k.op = "allocate" => Gained(k) = k.block
<1>1. k \in Call /\ k.block \in Block
  BY DEF Fits, Call, Context!Idle
<1>2. Gained(k) \in Block /\ Gained(k).context = k.to /\ Gained(k).number = k.block.number
      /\ Gained(k).size = k.block.size
  BY <1>1 DEF Gained, Block, Call
<1>3. k.op = "allocate" => Gained(k) = k.block
  BY <1>1, <1>2 DEF Gained, Block, Call, Fits
<1>4. k.op # "deallocate" => Gained(k) \notin o
  BY <1>1, <1>2, <1>3 DEF Fits, Call
<1> QED
  BY <1>1, <1>2, <1>3, <1>4

LEMMA CallGoesOn ==
  ASSUME NEW o, NEW k, Fits(o, k), k.at # "none", NEW step \in Steps,
         k.op = "deallocate" => step \in {"subCount", "subBytes"},
         k.op = "reattribute" => step # "allocator",
         NEW n, n = [k EXCEPT !.at = step]
  PROVE  /\ Fits(o, n) /\ n.at = step /\ n.op = k.op /\ n.block = k.block /\ Gained(n) = Gained(k)
<1>1. k \in Call
  BY CallInProgress
<1>2. /\ n \in Call /\ n.at = step /\ n.op = k.op /\ n.block = k.block
      /\ n.from = k.from /\ n.to = k.to
  BY <1>1 DEF Call
<1>3. Gained(n) = Gained(k)
  BY <1>2 DEF Gained
<1>4. Fits(o, n)
  BY <1>1, <1>2 DEF Fits
<1> QED
  BY <1>2, <1>3, <1>4

LEMMA CallEnds ==
  ASSUME NEW o, NEW k, Fits(o, k)
  PROVE  Fits(o, Context!Idle) /\ Counted(o, Context!Idle) = o /\ Measured(o, Context!Idle) = o
BY DEF Fits, Counted, Measured, CountGains, BytesGain, Context!Idle

LEMMA CountIsAdded ==
  ASSUME ContextInv, NEW t \in Threads, Context!AddCount(t)
  PROVE  ContextInv'
<1>1. PICK o, k : o = owned[t] /\ k = call[t]
  OBVIOUS
<1>2. Fits(o, k) /\ k.at = "addCount"
  BY <1>1 DEF ContextInv, Context!AddCount
<1>3. Counted(o, k) = o /\ Measured(o, k) = o
  BY <1>2 DEF Counted, Measured, CountGains, BytesGain
<1>4. owned' = Put(owned, t, o) /\ bytes' = bytes
  BY <1>1 DEF ContextInv, Context!AddCount, Put
<1>5. CASE count' = [count EXCEPT ![call[t].to] = @ + 1] /\ Context!Goto(t, "addBytes")
  <2>1. PICK n : n = [k EXCEPT !.at = "addBytes"]
    OBVIOUS
  <2>2. k.op # "deallocate"
    BY <1>2 DEF Fits
  <2>3. /\ Gained(k) \in Block /\ Gained(k).context = k.to /\ Gained(k) \notin o
        /\ Fits(o, n) /\ n.at = "addBytes" /\ Gained(n) = Gained(k)
    BY <1>2, <2>1, <2>2, CallInProgress, CallGoesOn DEF Steps
  <2>4. Counted(o, n) = o \cup {Gained(k)} /\ Measured(o, n) = o
    BY <2>3 DEF Counted, Measured, CountGains, BytesGain
  <2>5. call' = Put(call, t, n)
    BY <1>1, <1>5, <2>1 DEF Context!Goto, Put
  <2>6. count' = Raised(count, Gained(k).context, 1)
    BY <1>1, <1>5, <2>3 DEF Raised
  <2>7. CountStep(Counted(o, k), Counted(o, n), count, count')
    BY <1>3, <2>3, <2>4, <2>6 DEF CountStep
  <2> QED
    BY <1>1, <1>3, <1>4, <2>3, <2>4, <2>5, <2>7, ThreadMoves DEF BytesStep
<1>6. CASE count' = count /\ Context!Return(t)
  <2>1. call' = Put(call, t, Context!Idle)
    BY <1>6 DEF Context!Return, Put
  <2>2. Fits(o, Context!Idle) /\ Counted(o, Context!Idle) = o /\ Measured(o, Context!Idle) = o
    BY <1>2, CallEnds
  <2> QED
    BY <1>1, <1>3, <1>4, <1>6, <2>1, <2>2, ThreadMoves DEF CountStep, BytesStep
<1> QED
  BY <1>5, <1>6 DEF Context!AddCount

LEMMA BytesAreAdded ==
  ASSUME ContextInv, NEW t \in Threads, Context!AddBytes(t)
  PROVE  ContextInv'
<1>1. PICK o, k : o = owned[t] /\ k = call[t]
  OBVIOUS
<1>2. Fits(o, k) /\ k.at = "addBytes"
  BY <1>1 DEF ContextInv, Context!AddBytes
<1>3. k.op # "deallocate"
  BY <1>2 DEF Fits
<1>4. Counted(o, k) = o \cup {Gained(k)} /\ Measured(o, k) = o
  BY <1>2 DEF Counted, Measured, CountGains, BytesGain
<1>5. owned' = Put(owned, t, o) /\ count' = count
  BY <1>1 DEF ContextInv, Context!AddBytes, Put
<1>6. CASE /\ bytes' = [bytes EXCEPT ![call[t].to] = @ + call[t].block.size]
           /\ Context!Goto(t, IF call[t].op = "allocate" THEN "allocator" ELSE "subCount")
  <2>1. PICK step : step = IF k.op = "allocate" THEN "allocator" ELSE "subCount"
    OBVIOUS
  <2>2. PICK n : n = [k EXCEPT !.at = step]
    OBVIOUS
  <2>3. /\ Gained(k) \in Block /\ Gained(k).context = k.to /\ Gained(k).size = k.block.size
        /\ Gained(k) \notin o /\ Fits(o, n) /\ n.at = step /\ n.op = k.op /\ Gained(n) = Gained(k)
    BY <1>2, <1>3, <2>1, <2>2, CallInProgress, CallGoesOn DEF Steps
  <2>4. Counted(o, n) = o \cup {Gained(k)} /\ Measured(o, n) = o \cup {Gained(k)}
    BY <1>3, <2>1, <2>3 DEF Counted, Measured, CountGains, BytesGain
  <2>5. call' = Put(call, t, n)
    BY <1>1, <1>6, <2>1, <2>2 DEF Context!Goto, Put
  <2>6. bytes' = Raised(bytes, Gained(k).context, Gained(k).size)
    BY <1>1, <1>6, <2>3 DEF Raised
  <2>7. BytesStep(Measured(o, k), Measured(o, n), bytes, bytes')
    BY <1>4, <2>3, <2>4, <2>6 DEF BytesStep
  <2> QED
    BY <1>1, <1>4, <1>5, <2>3, <2>4, <2>5, <2>7, ThreadMoves DEF CountStep
<1>7. CASE Context!Goto(t, "undoCount") /\ bytes' = bytes
  <2>1. PICK n : n = [k EXCEPT !.at = "undoCount"]
    OBVIOUS
  <2>2. Fits(o, n) /\ n.at = "undoCount" /\ Gained(n) = Gained(k)
    BY <1>2, <1>3, <2>1, CallInProgress, CallGoesOn DEF Steps
  <2>3. Counted(o, n) = Counted(o, k) /\ Measured(o, n) = Measured(o, k)
    BY <1>4, <2>2 DEF Counted, Measured, CountGains, BytesGain
  <2>4. call' = Put(call, t, n)
    BY <1>1, <1>7, <2>1 DEF Context!Goto, Put
  <2> QED
    BY <1>1, <1>5, <1>7, <2>2, <2>3, <2>4, ThreadMoves DEF CountStep, BytesStep
<1> QED
  BY <1>6, <1>7 DEF Context!AddBytes

LEMMA CountIsTakenBack ==
  ASSUME ContextInv, NEW t \in Threads, Context!UndoCount(t)
  PROVE  ContextInv'
<1>1. PICK o, k : o = owned[t] /\ k = call[t]
  OBVIOUS
<1>2. Fits(o, k) /\ k.at = "undoCount"
  BY <1>1 DEF ContextInv, Context!UndoCount
<1>3. Counted(o, k) = o \cup {Gained(k)} /\ Measured(o, k) = o
  BY <1>2 DEF Counted, Measured, CountGains, BytesGain
<1>4. k.op # "deallocate"
  BY <1>2 DEF Fits
<1>5. Gained(k) \in Block /\ Gained(k).context = k.to /\ Gained(k) \notin o
  BY <1>2, <1>4, CallInProgress
<1>6. Fits(o, Context!Idle) /\ Counted(o, Context!Idle) = o /\ Measured(o, Context!Idle) = o
  BY <1>2, CallEnds
<1>7. /\ owned' = Put(owned, t, o) /\ call' = Put(call, t, Context!Idle) /\ bytes' = bytes
      /\ count' = Lowered(count, Gained(k).context, 1)
  BY <1>1, <1>5 DEF ContextInv, Context!UndoCount, Context!Return, Put, Lowered
<1>8. o = (o \cup {Gained(k)}) \ {Gained(k)}
  BY <1>5
<1>9. CountStep(Counted(o, k), Counted(o, Context!Idle), count, count')
  BY <1>3, <1>5, <1>6, <1>7, <1>8 DEF CountStep
<1> QED
  BY <1>1, <1>3, <1>6, <1>7, <1>9, ThreadMoves DEF BytesStep

LEMMA AllocatorAnswers ==
  ASSUME ContextInv, NEW t \in Threads, Context!CallAllocator(t)
  PROVE  ContextInv'
<1>1. PICK o, k : o = owned[t] /\ k = call[t]
  OBVIOUS
<1>2. Fits(o, k) /\ k.at = "allocator"
  BY <1>1 DEF ContextInv, Context!CallAllocator
<1>3. k.op = "allocate"
  BY <1>2 DEF Fits, Call, Context!Idle
<1>4. /\ Gained(k) = k.block /\ k.block \in Block
      /\ Counted(o, k) = o \cup {k.block} /\ Measured(o, k) = o \cup {k.block}
  <2>1. Gained(k) = k.block /\ k.block \in Block
    BY <1>2, <1>3, CallInProgress
  <2> QED
    BY <1>2, <2>1 DEF Counted, Measured, CountGains, BytesGain
<1>5. count' = count /\ bytes' = bytes
  BY DEF Context!CallAllocator
<1>6. CASE owned' = [owned EXCEPT ![t] = @ \cup {call[t].block}] /\ Context!Return(t)
  <2>1. PICK p : p = o \cup {k.block}
    OBVIOUS
  <2>2. Fits(p, k) \/ Fits(p, Context!Idle)
    <3>1. p \in SUBSET Block /\ IsFiniteSet(p)
      BY <1>2, <1>4, <2>1, FS_AddElement DEF Fits
    <3>2. \A a, b \in p : a.number = b.number => a = b
      BY <1>2, <1>3, <2>1 DEF Fits
    <3> QED
      BY <3>1, <3>2 DEF Fits, Context!Idle
  <2>3. Fits(p, Context!Idle) /\ Counted(p, Context!Idle) = p /\ Measured(p, Context!Idle) = p
    BY <2>2, CallEnds
  <2>4. owned' = Put(owned, t, p) /\ call' = Put(call, t, Context!Idle)
    BY <1>1, <1>6, <2>1 DEF Context!Return, Put
  <2> QED
    BY <1>1, <1>4, <1>5, <2>1, <2>3, <2>4, ThreadMoves DEF CountStep, BytesStep
<1>7. CASE Context!Goto(t, "subCount") /\ owned' = owned
  <2>1. PICK n : n = [k EXCEPT !.at = "subCount"]
    OBVIOUS
  <2>2. Fits(o, n) /\ n.at = "subCount" /\ n.op = "allocate" /\ Gained(n) = Gained(k)
    BY <1>2, <1>3, <2>1, CallInProgress, CallGoesOn DEF Steps
  <2>3. Counted(o, n) = Counted(o, k) /\ Measured(o, n) = Measured(o, k)
    BY <1>4, <2>2 DEF Counted, Measured, CountGains, BytesGain
  <2>4. owned' = Put(owned, t, o) /\ call' = Put(call, t, n)
    BY <1>1, <1>7, <2>1 DEF Context!Goto, Put, ContextInv
  <2> QED
    BY <1>1, <1>5, <2>2, <2>3, <2>4, ThreadMoves DEF CountStep, BytesStep
<1> QED
  BY <1>6, <1>7 DEF Context!CallAllocator

(* A call subtracts the block it starts from.                              *)
LEMMA CallSubtracts ==
  ASSUME NEW o, NEW k, Fits(o, k), k.at \in {"subCount", "subBytes"}
  PROVE  /\ k.op \in {"allocate", "deallocate", "reattribute"}
         /\ k.block \in Block /\ k.block.context = k.from /\ Gained(k) \in Block
         /\ k.op = "allocate" => Gained(k) = k.block
         /\ k.op # "deallocate" => Gained(k) \notin o
         /\ k.op # "allocate" => k.block \in o
<1>1. /\ k \in Call /\ k.block \in Block /\ Gained(k) \in Block
      /\ k.op # "deallocate" => Gained(k) \notin o
      /\ k.op = "allocate" => Gained(k) = k.block
  BY CallInProgress
<1>2. k.op \in {"allocate", "deallocate", "reattribute"}
  BY <1>1 DEF Call
<1> QED
  BY <1>1, <1>2 DEF Fits

LEMMA CountIsSubtracted ==
  ASSUME ContextInv, NEW t \in Threads, Context!SubCount(t)
  PROVE  ContextInv'
<1>1. PICK o, k : o = owned[t] /\ k = call[t]
  OBVIOUS
<1>2. Fits(o, k) /\ k.at = "subCount"
  BY <1>1 DEF ContextInv, Context!SubCount
<1>3. PICK n : n = [k EXCEPT !.at = "subBytes"]
  OBVIOUS
<1>4. /\ k.op \in {"allocate", "deallocate", "reattribute"}
      /\ k.block \in Block /\ k.block.context = k.from
      /\ k.op = "allocate" => Gained(k) = k.block
      /\ k.op # "deallocate" => Gained(k) \notin o
      /\ k.op # "allocate" => k.block \in o
  BY <1>2, CallSubtracts
<1>5. Fits(o, n) /\ n.at = "subBytes" /\ n.op = k.op /\ n.block = k.block /\ Gained(n) = Gained(k)
  BY <1>2, <1>3, CallGoesOn DEF Steps
<1>6. k.block \in Counted(o, k) /\ Counted(o, n) = Counted(o, k) \ {k.block}
  BY <1>2, <1>4, <1>5 DEF Counted, CountGains
<1>7. Measured(o, n) = Measured(o, k)
  BY <1>2, <1>5 DEF Measured, BytesGain
<1>8. /\ owned' = Put(owned, t, o) /\ call' = Put(call, t, n) /\ bytes' = bytes
      /\ count' = Lowered(count, k.block.context, 1)
  BY <1>1, <1>3, <1>4 DEF ContextInv, Context!SubCount, Context!Goto, Put, Lowered
<1>9. CountStep(Counted(o, k), Counted(o, n), count, count')
  BY <1>4, <1>6, <1>8 DEF CountStep
<1> QED
  BY <1>1, <1>5, <1>7, <1>8, <1>9, ThreadMoves DEF BytesStep

LEMMA BytesAreSubtracted ==
  ASSUME ContextInv, NEW t \in Threads, Context!SubBytes(t)
  PROVE  ContextInv'
<1>1. PICK o, k : o = owned[t] /\ k = call[t]
  OBVIOUS
<1>2. Fits(o, k) /\ k.at = "subBytes"
  BY <1>1 DEF ContextInv, Context!SubBytes
<1>3. PICK p : p = (o \ {k.block}) \cup (IF k.op = "reattribute" THEN {Gained(k)} ELSE {})
  OBVIOUS
<1>4. /\ k.op \in {"allocate", "deallocate", "reattribute"}
      /\ k.block \in Block /\ k.block.context = k.from /\ Gained(k) \in Block
      /\ k.op = "allocate" => Gained(k) = k.block
      /\ k.op # "deallocate" => Gained(k) \notin o
      /\ k.op # "allocate" => k.block \in o
  BY <1>2, CallSubtracts
<1>5. Counted(o, k) = p
  BY <1>2, <1>3 DEF Counted, CountGains
<1>6. k.block \in Measured(o, k) /\ p = Measured(o, k) \ {k.block}
  BY <1>2, <1>3, <1>4 DEF Measured, BytesGain
<1>7. Fits(p, Context!Idle)
  <2>1. o \in SUBSET Block /\ IsFiniteSet(o) /\ \A a, b \in o : a.number = b.number => a = b
    BY <1>2 DEF Fits
  <2>2. p \in SUBSET Block
    BY <1>3, <1>4, <2>1
  <2>3. IsFiniteSet(o \ {k.block})
    BY <2>1, FS_Subset
  <2>4. IsFiniteSet((o \ {k.block}) \cup {Gained(k)})
    BY <2>3, FS_AddElement
  <2>5. IsFiniteSet(p)
    BY <1>3, <2>3, <2>4
  <2>6. Gained(k).number = k.block.number
    BY <1>4 DEF Gained, Block
  <2>7. \A a, b \in p : a.number = b.number => a = b
    BY <1>3, <1>4, <2>1, <2>6
  <2> QED
    BY <2>2, <2>5, <2>7 DEF Fits, Context!Idle
<1>8. Counted(p, Context!Idle) = p /\ Measured(p, Context!Idle) = p
  BY <1>7, CallEnds
<1>9. call' = Put(call, t, Context!Idle) /\ count' = count
      /\ bytes' = Lowered(bytes, k.block.context, k.block.size)
  BY <1>1, <1>4 DEF Context!SubBytes, Context!Return, Put, Lowered
<1>10. owned' = Put(owned, t, p)
  <2>1. CASE k.op = "allocate"
    <3>1. owned' = owned
      BY <1>1, <2>1 DEF Context!SubBytes
    <3>2. p = o
      BY <1>3, <1>4, <2>1
    <3> QED
      BY <1>1, <3>1, <3>2 DEF Put, ContextInv
  <2>2. CASE k.op = "deallocate"
    <3>1. owned' = [owned EXCEPT ![t] = @ \ {call[t].block}]
      BY <1>1, <2>2 DEF Context!SubBytes
    <3> QED
      BY <1>1, <1>3, <2>2, <3>1 DEF Put
  <2>3. CASE k.op = "reattribute"
    <3>1. owned' = [owned EXCEPT ![t] = (@ \ {call[t].block}) \cup
                                        {[call[t].block EXCEPT !.context = call[t].to]}]
      BY <1>1, <2>3 DEF Context!SubBytes
    <3> QED
      BY <1>1, <1>3, <2>3, <3>1 DEF Put, Gained
  <2> QED
    BY <1>4, <2>1, <2>2, <2>3
<1>11. BytesStep(Measured(o, k), Measured(p, Context!Idle), bytes, bytes')
  BY <1>4, <1>6, <1>8, <1>9 DEF BytesStep
<1> QED
  BY <1>1, <1>5, <1>7, <1>8, <1>9, <1>10, <1>11, ThreadMoves DEF CountStep

LEMMA ContextsMove ==
  ASSUME ContextInv, Context!Next
  PROVE  ContextInv'
<1> SUFFICES ASSUME NEW t \in Threads,
               \/ \E c \in Accounts, n \in Sizes : Context!BeginAllocate(t, c, n)
               \/ \E b \in owned[t] : \/ Context!BeginDeallocate(t, b)
                                     \/ \E c \in Accounts : Context!BeginReattribute(t, b, c)
               \/ Context!AddCount(t) \/ Context!AddBytes(t) \/ Context!UndoCount(t)
               \/ Context!CallAllocator(t) \/ Context!SubCount(t) \/ Context!SubBytes(t)
             PROVE  ContextInv'
  BY DEF Context!Next
<1>1. CASE \E c \in Accounts, n \in Sizes : Context!BeginAllocate(t, c, n)
  BY <1>1, AllocationBegins
<1>2. CASE \E b \in owned[t] : \/ Context!BeginDeallocate(t, b)
                               \/ \E c \in Accounts : Context!BeginReattribute(t, b, c)
  BY <1>2, OtherCallsBegin
<1>3. CASE Context!AddCount(t)
  BY <1>3, CountIsAdded
<1>4. CASE Context!AddBytes(t)
  BY <1>4, BytesAreAdded
<1>5. CASE Context!UndoCount(t)
  BY <1>5, CountIsTakenBack
<1>6. CASE Context!CallAllocator(t)
  BY <1>6, AllocatorAnswers
<1>7. CASE Context!SubCount(t)
  BY <1>7, CountIsSubtracted
<1>8. CASE Context!SubBytes(t)
  BY <1>8, BytesAreSubtracted
<1> QED
  BY <1>1, <1>2, <1>3, <1>4, <1>5, <1>6, <1>7, <1>8

LEMMA ContextsBegin ==
  ASSUME Context!Init
  PROVE  ContextInv
<1>1. /\ count = [c \in Accounts |-> 0] /\ bytes = [c \in Accounts |-> 0]
      /\ owned = [t \in Threads |-> {}] /\ call = [t \in Threads |-> Context!Idle]
  BY DEF Context!Init
<1>2. IsFiniteSet({}) /\ Cardinality({}) = 0
  BY FS_EmptySet
<1>3. Fits({}, Context!Idle)
  BY <1>2 DEF Fits, Context!Idle
<1>4. Counted({}, Context!Idle) = {} /\ Measured({}, Context!Idle) = {}
  BY <1>3, CallEnds
<1>5. PICK f : f = [t \in Threads |-> {}]
  OBVIOUS
<1>6. CountedBy(owned, call) = f /\ MeasuredBy(owned, call) = f
  BY <1>1, <1>4, <1>5 DEF CountedBy, MeasuredBy
<1>7. \A c : Theirs(f, c) = {}
  BY <1>5 DEF Theirs
<1>8. Context!BytesOf({}) = {}
  BY DEF Context!BytesOf
<1>9. CountsAre(count, f) /\ BytesAre(bytes, f)
  BY <1>1, <1>2, <1>7, <1>8 DEF CountsAre, BytesAre
<1> QED
  BY <1>1, <1>3, <1>6, <1>9 DEF ContextInv
-----------------------------------------------------------------------------
(* The accounts follow.                                                    *)

LEMMA SubtractionsFind ==
  ASSUME ContextInv, NEW t \in Threads, call[t].at \in {"subCount", "subBytes"}
  PROVE  /\ call[t].at = "subCount" => count[call[t].from] >= 1
         /\ call[t].at = "subBytes" => bytes[call[t].from] >= call[t].block.size
<1>1. PICK o, k, b, c : o = owned[t] /\ k = call[t] /\ b = k.block /\ c = k.from
  OBVIOUS
<1>2. PICK f, g : f = CountedBy(owned, call) /\ g = MeasuredBy(owned, call)
  OBVIOUS
<1>3. Fits(o, k) /\ f[t] = Counted(o, k) /\ g[t] = Measured(o, k)
  BY <1>1, <1>2 DEF ContextInv, CountedBy, MeasuredBy
<1>4. /\ b \in Block /\ b.context = c /\ c \in Accounts
      /\ k.at = "subCount" => b \in Counted(o, k)
      /\ b \in Measured(o, k)
  <2>1. /\ k.op \in {"allocate", "deallocate", "reattribute"}
        /\ k.block \in Block /\ k.block.context = k.from
        /\ k.op = "allocate" => Gained(k) = k.block
        /\ k.op # "allocate" => k.block \in o
    BY <1>1, <1>3, CallSubtracts
  <2>2. c \in Accounts
    BY <1>1, <2>1 DEF Block
  <2> QED
    BY <1>1, <2>1, <2>2 DEF Counted, Measured, CountGains, BytesGain
<1>5. ASSUME k.at = "subCount" PROVE count[c] >= 1
  <2>1. PICK S, n : S = Theirs(f, c) /\ n = count[c]
    OBVIOUS
  <2>2. IsFiniteSet(S) /\ n = Cardinality(S)
    BY <1>2, <1>4, <2>1 DEF ContextInv, CountsAre
  <2>3. S # {}
    <3>1. <<t, b>> \in Theirs(f, c)
      BY <1>3, <1>4, <1>5 DEF Theirs
    <3> QED
      BY <2>1, <3>1
  <2>4. Cardinality(S) \in Nat /\ Cardinality(S) # 0
    BY <2>2, <2>3, FS_CardinalityType, FS_EmptySet
  <2> QED
    BY <2>1, <2>2, <2>4
<1>6. bytes[c] >= b.size
  <2>1. PICK x, S, n : x = <<t, b>> /\ S = Context!BytesOf(Theirs(g, c)) /\ n = bytes[c]
    OBVIOUS
  <2>2. IsFiniteSet(S) /\ n = Cardinality(S)
    BY <1>2, <1>4, <2>1 DEF ContextInv, BytesAre
  <2>3. b.size \in Nat
    BY <1>4, PartsAssumption DEF Block, Context!AccountsAssumption
  <2>4. x[2].size \in Nat /\ x[2].size = b.size
    BY <2>1, <2>3
  <2>5. Cardinality({x} \X (1 .. x[2].size)) = x[2].size
    <3>1. PICK E : E = {}
      OBVIOUS
    <3>2. x \notin E
      BY <3>1
    <3> QED
      BY <2>4, <3>2, BytesOfMore
  <2>6. x \in Theirs(g, c)
    BY <1>3, <1>4, <2>1 DEF Theirs
  <2>7. {x} \X (1 .. x[2].size) \in SUBSET S
    BY <2>1, <2>6 DEF Context!BytesOf
  <2>8. PICK X : X = {x} \X (1 .. x[2].size)
    OBVIOUS
  <2>9. Cardinality(X) <= Cardinality(S) /\ Cardinality(X) = b.size
    BY <2>2, <2>4, <2>5, <2>7, <2>8, FS_Subset
  <2> QED
    BY <2>1, <2>2, <2>9
<1> QED
  BY <1>1, <1>5, <1>6

LEMMA SettledBlocks ==
  ASSUME ContextInv, NEW c,
         NEW S, S = {x \in Context!BlocksIn(c) : call[x[1]] = Context!Idle \/ call[x[1]].block # x[2]}
  PROVE  /\ S \subseteq Theirs(CountedBy(owned, call), c)
         /\ S \subseteq Theirs(MeasuredBy(owned, call), c)
         /\ (\A t \in Threads : call[t] = Context!Idle) =>
              S = Theirs(CountedBy(owned, call), c) /\ S = Theirs(MeasuredBy(owned, call), c)
<1>1. ASSUME NEW x
      PROVE  x \in Context!BlocksIn(c) <=>
               \E t \in Threads : \E b \in owned[t] : b.context = c /\ x = <<t, b>>
  BY DEF Context!BlocksIn
<1>2. ASSUME NEW t \in Threads, NEW b \in owned[t], b.context = c
      PROVE  /\ call[t] = Context!Idle \/ call[t].block # b => <<t, b>> \in Theirs(CountedBy(owned, call), c)
             /\ <<t, b>> \in Theirs(MeasuredBy(owned, call), c)
  <2>1. Fits(owned[t], call[t]) /\ b \in Block
    BY DEF ContextInv, Fits
  <2>2. b \in Measured(owned[t], call[t])
    BY DEF Measured
  <2>3. call[t] = Context!Idle \/ call[t].block # b => b \in Counted(owned[t], call[t])
    BY DEF Counted, Context!Idle
  <2> QED
    BY <1>2, <2>1, <2>2, <2>3 DEF Theirs, CountedBy, MeasuredBy
<1>3. /\ S \subseteq Theirs(CountedBy(owned, call), c)
      /\ S \subseteq Theirs(MeasuredBy(owned, call), c)
  BY <1>1, <1>2
<1>4. ASSUME \A t \in Threads : call[t] = Context!Idle
      PROVE  S = Theirs(CountedBy(owned, call), c) /\ S = Theirs(MeasuredBy(owned, call), c)
  <2>1. ASSUME NEW t \in Threads
        PROVE  Counted(owned[t], call[t]) = owned[t] /\ Measured(owned[t], call[t]) = owned[t]
    BY <1>4, CallEnds DEF ContextInv
  <2>2. ASSUME NEW x \in Theirs(CountedBy(owned, call), c) \cup Theirs(MeasuredBy(owned, call), c)
        PROVE  x \in S
    <3>1. PICK t \in Threads, b \in Block : x = <<t, b>> /\ b.context = c /\ b \in owned[t]
      BY <2>1 DEF Theirs, CountedBy, MeasuredBy
    <3>2. x \in Context!BlocksIn(c)
      BY <1>1, <3>1
    <3> QED
      BY <1>4, <3>1, <3>2
  <2> QED
    BY <1>3, <2>2
<1> QED
  BY <1>3, <1>4

LEMMA ContextAccountsFollow ==
  ASSUME ContextInv
  PROVE  Context!AccountsAreExact
<1>1. Context!CanSubtract
  BY SubtractionsFind DEF Context!CanSubtract
<1>2. ASSUME NEW c \in Accounts,
             NEW S, S = {x \in Context!BlocksIn(c) : call[x[1]] = Context!Idle \/ call[x[1]].block # x[2]}
      PROVE  /\ count[c] >= Cardinality(S) /\ bytes[c] >= Cardinality(Context!BytesOf(S))
             /\ (\A t \in Threads : call[t] = Context!Idle) =>
                  count[c] = Cardinality(S) /\ bytes[c] = Cardinality(Context!BytesOf(S))
  <2>1. PICK A, B : A = Theirs(CountedBy(owned, call), c) /\ B = Theirs(MeasuredBy(owned, call), c)
    OBVIOUS
  <2>2. /\ S \in SUBSET A /\ S \in SUBSET B
        /\ (\A t \in Threads : call[t] = Context!Idle) => S = A /\ S = B
    BY <1>2, <2>1, SettledBlocks
  <2>3. /\ IsFiniteSet(A) /\ count[c] = Cardinality(A)
        /\ IsFiniteSet(Context!BytesOf(B)) /\ bytes[c] = Cardinality(Context!BytesOf(B))
    BY <2>1 DEF ContextInv, CountsAre, BytesAre
  <2>4. Context!BytesOf(S) \in SUBSET Context!BytesOf(B)
    BY <2>2 DEF Context!BytesOf
  <2>5. Cardinality(S) <= Cardinality(A) /\ IsFiniteSet(S)
    BY <2>2, <2>3, FS_Subset
  <2>6. PICK X, Y : X = Context!BytesOf(S) /\ Y = Context!BytesOf(B)
    OBVIOUS
  <2>7. Cardinality(X) <= Cardinality(Y) /\ IsFiniteSet(X)
    BY <2>3, <2>4, <2>6, FS_Subset
  <2>8. /\ Cardinality(A) \in Nat /\ Cardinality(S) \in Nat
        /\ Cardinality(X) \in Nat /\ Cardinality(Y) \in Nat
    BY <2>3, <2>5, <2>6, <2>7, FS_CardinalityType
  <2> QED
    BY <2>2, <2>3, <2>5, <2>6, <2>7, <2>8
<1> QED
  BY <1>1, <1>2, SameCardinality DEF Context!AccountsAreExact

(* Every state of the memory subsystem has the accounts in order.          *)
THEOREM ContextInvariance == MemorySpec => []ContextInv
<1>1. MemoryInit => ContextInv
  BY ContextsBegin DEF MemoryInit
<1>2. ContextInv /\ [MemoryNext]_allVars => ContextInv'
  <2> SUFFICES ASSUME ContextInv, [MemoryNext]_allVars PROVE ContextInv'
    OBVIOUS
  <2>1. CASE Context!Next
    BY <2>1, ContextsMove
  <2>2. CASE UNCHANGED contextVars
    BY <2>2 DEF ContextInv, contextVars
  <2>3. Context!Next \/ UNCHANGED contextVars
    BY DEF MemoryNext, Only, allVars
  <2> QED
    BY <2>1, <2>2, <2>3
<1> QED
  BY <1>1, <1>2, PTL DEF MemorySpec

(* Each context counts its blocks and their bytes exactly where no call is  *)
(* in progress, never less than what is settled, and never too little for  *)
(* a subtraction (CMemoryContext's add() and sub(), which take no lock).    *)
THEOREM AccountsAlwaysAgree == MemorySpec => []AccountsAgree
<1>1. ContextInv => AccountsAgree
  BY ContextAccountsFollow DEF AccountsAgree
<1> QED
  BY <1>1, ContextInvariance, PTL
-----------------------------------------------------------------------------
(***************************************************************************)
(* Views, for storage of any size and elements of any size: however often  *)
(* a view is cut, it stays in the view it was cut from.                    *)
(***************************************************************************)

LEMMA PartOfAView ==
  ASSUME NEW a \in Nat, NEW d \in Nat, NEW j \in Nat, NEW n \in Nat, NEW m \in Nat, NEW s \in Nat \ {0},
         d = a + j * s, j + n <= m
  PROVE  /\ d >= a /\ d + n * s <= a + m * s /\ (d - a) % s = 0
<1>1. j * s \in Nat
  OBVIOUS
<1>2. d >= a
  BY <1>1
<1>3. PICK r \in Nat : m = j + n + r
  <2>1. m - (j + n) \in Nat
    OBVIOUS
  <2> QED
    BY <2>1
<1>4. m * s = j * s + n * s + r * s /\ r * s \in Nat /\ n * s \in Nat
  BY <1>3
<1>5. d + n * s <= a + m * s
  BY <1>1, <1>4
<1>6. d - a = j * s
  BY <1>1
<1>7. (j * s) % s = 0
  OBVIOUS
<1> QED
  BY <1>2, <1>5, <1>6, <1>7

(* A view begins some elements behind the one it was cut from, and has no  *)
(* more of them than there are from there on.                              *)
Within(v, w) ==
    /\ v.data \in Nat /\ v.count \in Nat /\ v.stride \in Nat \ {0}
    /\ w.data \in Nat /\ w.count \in Nat /\ w.stride = v.stride
    /\ \E j \in Nat : v.data = w.data + j * v.stride /\ j + v.count <= w.count
WithinInv == storageView # Arithmetic!NoView => Within(storageView, whole)

LEMMA CutsLieWithin ==
  ASSUME NEW v, NEW w, Within(v, w), NEW i \in Nat, NEW n \in Nat,
         NEW c, c = Arithmetic!Subview(v, i, n), c # Arithmetic!NoView
  PROVE  Within(c, w)
<1>1. n # 0 /\ i < v.count /\ n <= v.count - i /\ c = Arithmetic!Viewed(Arithmetic!IndexPtr(v, i), n, v.stride, 2 ^ v.log)
  BY DEF Arithmetic!Subview, Arithmetic!ContainsRange
<1>2. c.data = v.data + i * v.stride /\ c.count = n /\ c.stride = v.stride
  BY <1>1 DEF Arithmetic!Viewed, Arithmetic!IndexPtr
<1>3. PICK j \in Nat : v.data = w.data + j * v.stride /\ j + v.count <= w.count
  BY DEF Within
<1>4. PICK s \in Nat \ {0} : s = v.stride
  BY DEF Within
<1>5. PICK a \in Nat, m \in Nat : a = w.data /\ m = v.count
  BY DEF Within
<1>6. a + j * s + i * s = a + (j + i) * s /\ j + i \in Nat /\ a + (j + i) * s \in Nat
  OBVIOUS
<1>7. c.data = w.data + (j + i) * c.stride
  BY <1>2, <1>3, <1>4, <1>5, <1>6
<1>8. (j + i) + c.count <= w.count
  BY <1>1, <1>2, <1>3, <1>5 DEF Within
<1>9. c.data \in Nat
  BY <1>2, <1>3, <1>4, <1>5, <1>6
<1>10. c.count \in Nat /\ c.stride \in Nat \ {0} /\ w.stride = c.stride /\ w.data \in Nat /\ w.count \in Nat
  BY <1>2 DEF Within
<1> QED
  BY <1>6, <1>7, <1>8, <1>9, <1>10 DEF Within

LEMMA ViewsMove ==
  ASSUME WithinInv, Arithmetic!Next
  PROVE  WithinInv'
<1>0. /\ Addresses \subseteq Nat /\ Strides \subseteq Nat /\ MaxElements \in Nat
      /\ 0 .. MaxElements \subseteq Nat
  BY PartsAssumption DEF Arithmetic!ShapesAssumption
<1>1. CASE Arithmetic!Require
  BY <1>1 DEF WithinInv, Arithmetic!Require, Arithmetic!viewVars
<1>2. ASSUME NEW d \in Addresses \cup {0}, NEW n \in 0 .. MaxElements, NEW s \in Strides \cup {0}, NEW r \in Requests,
             Arithmetic!Set(d, n, s, r)
      PROVE  WithinInv'
  <2> SUFFICES ASSUME storageView' # Arithmetic!NoView PROVE Within(storageView', whole')
    BY DEF WithinInv
  <2>1. PICK v : v = storageView' /\ v = whole' /\ v = Arithmetic!Viewed(d, n, s, r) /\ v # Arithmetic!NoView
    BY <1>2 DEF Arithmetic!Set
  <2>2. d # 0 /\ n # 0 /\ s # 0 /\ v.data = d /\ v.count = n /\ v.stride = s
    BY <2>1 DEF Arithmetic!Viewed, Arithmetic!ValidShape
  <2>3. d \in Nat /\ n \in Nat /\ s \in Nat
    BY <1>0
  <2>4. d = d + 0 * s /\ 0 + n <= n
    BY <2>3
  <2>5. Within(v, v)
    BY <2>2, <2>3, <2>4 DEF Within
  <2> QED
    BY <2>1, <2>5
<1>3. ASSUME NEW i \in 0 .. MaxElements, NEW n \in 0 .. MaxElements, Arithmetic!Cut(i, n)
      PROVE  WithinInv'
  <2> SUFFICES ASSUME storageView' # Arithmetic!NoView PROVE Within(storageView', whole)
    BY <1>3 DEF WithinInv, Arithmetic!Cut
  <2>1. PICK v, c : v = storageView /\ c = storageView' /\ c # Arithmetic!NoView
    OBVIOUS
  <2>2. v # Arithmetic!NoView /\ c \in {Arithmetic!Subview(v, i, n), Arithmetic!HeadTo(v, n), Arithmetic!TailFrom(v, i)}
    BY <1>3, <2>1 DEF Arithmetic!Cut
  <2>3. Within(v, whole)
    BY <2>1, <2>2 DEF WithinInv
  <2>4. i \in Nat /\ n \in Nat /\ 0 \in Nat /\ (i < v.count => v.count - i \in Nat)
    BY <1>0, <2>3 DEF Within
  <2>5. \E h, k \in Nat : c = Arithmetic!Subview(v, h, k)
    BY <2>1, <2>2, <2>4 DEF Arithmetic!HeadTo, Arithmetic!TailFrom
  <2> QED
    BY <2>1, <2>3, <2>5, CutsLieWithin
<1> QED
  BY <1>1, <1>2, <1>3 DEF Arithmetic!Next

(* A view begins on an element of the view it was cut from, and ends where *)
(* that ends or before (CMemoryView's subview() and its relatives).         *)
THEOREM ViewsAlwaysLieWithin == MemorySpec => []Arithmetic!ViewsLieWithin
<1>1. MemoryInit => WithinInv
  BY DEF MemoryInit, Arithmetic!Init, WithinInv
<1>2. WithinInv /\ [MemoryNext]_allVars => WithinInv'
  <2> SUFFICES ASSUME WithinInv, [MemoryNext]_allVars PROVE WithinInv'
    OBVIOUS
  <2>1. CASE Arithmetic!Next
    BY <2>1, ViewsMove
  <2>2. CASE UNCHANGED arithmeticVars
    BY <2>2 DEF WithinInv, arithmeticVars
  <2>3. Arithmetic!Next \/ UNCHANGED arithmeticVars
    BY DEF MemoryNext, Only, allVars
  <2> QED
    BY <2>1, <2>2, <2>3
<1>3. WithinInv => Arithmetic!ViewsLieWithin
  <2> SUFFICES ASSUME Within(storageView, whole)
               PROVE  /\ storageView.stride = whole.stride
                      /\ storageView.data >= whole.data
                      /\ storageView.data + storageView.count * storageView.stride
                            <= whole.data + whole.count * whole.stride
                      /\ (storageView.data - whole.data) % storageView.stride = 0
    BY DEF WithinInv, Arithmetic!ViewsLieWithin
  <2>1. PICK d \in Nat, n \in Nat, s \in Nat \ {0}, a \in Nat, m \in Nat :
           /\ d = storageView.data /\ n = storageView.count /\ s = storageView.stride
           /\ a = whole.data /\ m = whole.count /\ s = whole.stride
    BY DEF Within
  <2>2. PICK j \in Nat : d = a + j * s /\ j + n <= m
    BY <2>1 DEF Within
  <2>3. d >= a /\ d + n * s <= a + m * s /\ (d - a) % s = 0
    BY <2>2, PartOfAView
  <2> QED
    BY <2>1, <2>3
<1> QED
  BY <1>1, <1>2, <1>3, PTL DEF MemorySpec
=============================================================================

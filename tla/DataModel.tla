------------------------------ MODULE DataModel ------------------------------
(***************************************************************************)
(* The JSON-shaped data model.                                             *)
(*                                                                         *)
(* CLiveDocument is a document under construction.  Nodes stand in a       *)
(* registry under keys that are never used again; a container heads a list *)
(* of its children, linked through them in both directions.  Names of      *)
(* properties and string values are interned once, under ids.  A cursor    *)
(* walks the children of an array as long as their revision is the same.   *)
(*                                                                         *)
(* CBakedDocumentBuilder lays the tree of a live document out in an array: *)
(* the children of a container stand side by side, which replaces the      *)
(* links.  CBakedDocumentBlock puts such an array and its strings into one *)
(* block of bytes, CBakedDocument checks a block, own or foreign, and      *)
(* reads it, and CLiveDocument::build_from() makes a live document of one  *)
(* again.  Whatever fails leaves its destination as it was.                *)
(*                                                                         *)
(* Operators over a document d or a builder or block b, then the           *)
(* operations.  Key 0, index 0 and id 0 are the invalid ones.  The strings *)
(* are CStableStrings, by what they promise.  The registry is              *)
(* TPodOrderedSlots: its slots and the arrays beside them, whose growth    *)
(* may fail half-way (see OrderedCollection).  Where an allocation may     *)
(* fail, an operation has an outcome.  The layout of a block (offsets,     *)
(* alignment, checksum) is abstracted to its parts; references to strings  *)
(* are kept as they are.                                                   *)
(***************************************************************************)
EXTENDS Integers, SequencesExt, FiniteSetsExt

CONSTANTS
    Texts,              \* bound: names and string values, sequences of bytes
    Scalars,            \* bound: leaves without text, [type, value]
    MinimumNodes,       \* slots a registry begins with at least
    Growth(_),          \* vector_growth_policy()
    MaxKey,             \* bound: nodes ever created
    MaxRevision,        \* bound: changes of the children of one container
    Foreign             \* bound: blocks that were not made here, valid or not

VARIABLES
    doc,                \* the document
    cursor,             \* CArrayCursor of a reader
    builder,            \* a CBakedDocumentBuilder
    block               \* what document() of the block, or a view, shows

liveVars == <<doc, cursor>>
bakedVars == <<builder, block>>
vars == <<doc, cursor, builder, block>>

ScalarTypes == {"null_value", "boolean", "integer", "floating_point"}
IsArrayType(type) == type \in {"array", "recovered_duplicate_array"}
IsContainerType(type) == IsArrayType(type) \/ type = "object"
NodeTypes == ScalarTypes \cup {"string", "array", "object", "recovered_duplicate_array"}

\* CJsonSlot; value is the payload of a leaf, a string id for a string.
NewNode(type, value) ==
    [type |-> type, value |-> value, parent |-> 0, previous |-> 0, next |-> 0, name |-> 0,
     first |-> 0, last |-> 0, count |-> 0, revision |-> 0]

\* capacity counts the slots of the registry, size the elements of the arrays
\* beside them; torn is of the specification only: a growth has failed
\* half-way, and none has succeeded since.
NoDocument ==
    [ready |-> FALSE, nodes |-> <<>>, root |-> 0, nextKey |-> 1, names |-> <<>>, strings |-> <<>>,
     capacity |-> 0, size |-> 0, torn |-> FALSE]
ReadyDocument(n) ==
    LET c == Max({n, MinimumNodes}) IN [NoDocument EXCEPT !.ready = TRUE, !.capacity = c, !.size = c]
NoCursor == [parent |-> 0, current |-> 0, index |-> 0, revision |-> 0]

IsNode(d, key) == key \in DOMAIN d.nodes
-----------------------------------------------------------------------------
(* Reading.                                                                  *)

ViewOf(table, id) == IF id \in DOMAIN table THEN [null |-> FALSE, text |-> table[id]] ELSE [null |-> TRUE, text |-> <<>>]
NodeType(d, key) == IF IsNode(d, key) THEN d.nodes[key].type ELSE "invalid"
ScalarValue(d, key) == d.nodes[key].value
StringValue(d, key) == ViewOf(d.strings, IF NodeType(d, key) = "string" THEN d.nodes[key].value ELSE 0)

\* parent(), name_in_parent(), previous_sibling(), next_sibling()
Relation(d, key, field) == IF IsNode(d, key) THEN d.nodes[key][field] ELSE 0
NextSibling(d, key) == Relation(d, key, "next")
ChildCount(d, key) == IF IsContainerType(NodeType(d, key)) THEN d.nodes[key].count ELSE 0
FirstChild(d, key) == IF IsContainerType(NodeType(d, key)) THEN d.nodes[key].first ELSE 0

\* What the loops over the children of a container see, `count` of them at most.
Children(d, key, count) ==
    LET Step(list, i) ==
          LET child == IF i = 1 THEN FirstChild(d, key) ELSE NextSibling(d, Last(list))
          IN  IF Len(list) < i - 1 \/ child = 0 THEN list ELSE Append(list, child)
    IN  FoldLeft(Step, <<>>, [i \in 1 .. count |-> i])
ChildrenOf(d, key) == Children(d, key, ChildCount(d, key))

ObjectHasName(d, key, name) == \E i \in DOMAIN ChildrenOf(d, key) : d.nodes[ChildrenOf(d, key)[i]].name = name

\* array_at(), along the links.
ArrayAt(d, key, index) ==
    IF IsArrayType(NodeType(d, key)) /\ index < ChildCount(d, key) THEN Children(d, key, index + 1)[index + 1] ELSE 0
-----------------------------------------------------------------------------
(* Writing.  Each gives the document afterwards.                             *)

Interned(table, text) == IF Contains(table, text) THEN table ELSE Append(table, text)
IdOf(table, text) == CHOOSE id \in DOMAIN table : table[id] = text

\* How a registry without a free slot grows: altogether, not at all, or only
\* the arrays beside the slots.
GrowthOutcomes == {"grown", "refused", "half"}
Grown(d, outcome) ==
    LET c == Growth(d.capacity + 1)
    IN  CASE outcome = "grown" -> [d EXCEPT !.capacity = c, !.size = c, !.torn = FALSE]
          [] outcome = "half" -> [d EXCEPT !.size = c, !.torn = TRUE]
          [] OTHER -> d

\* create_node(): the key is used up even if the registry takes no node.
Created(d, type, value, outcome) ==
    LET r == IF Cardinality(DOMAIN d.nodes) < d.capacity THEN d ELSE Grown(d, outcome)
        n == IF Cardinality(DOMAIN d.nodes) < r.capacity THEN d.nextKey :> NewNode(type, value) ELSE <<>>
    IN  [r EXCEPT !.nextKey = @ + 1, !.nodes = @ @@ n]

\* The string is interned first, be the document ready or not.
CreatedString(d, text, outcome) ==
    LET strings == Interned(d.strings, text)
        kept    == [d EXCEPT !.strings = strings]
    IN  IF d.ready THEN Created(kept, "string", IdOf(strings, text), outcome) ELSE kept

CanAttach(d, parent, child) ==
    /\ IsNode(d, parent) /\ IsContainerType(d.nodes[parent].type)
    /\ IsNode(d, child) /\ child # d.root
    /\ \A field \in {"parent", "previous", "next"} : d.nodes[child][field] = 0

\* A mutant: the cursors of an array are not told of a new child.
AttachedUnseen(d, parent, before, child, name) ==
    LET previous == IF before # 0 THEN d.nodes[before].previous ELSE d.nodes[parent].last
        linked   == [d.nodes EXCEPT ![child].parent = parent, ![child].previous = previous,
                                    ![child].next = before, ![child].name = name]
        behind   == IF previous # 0 THEN [linked EXCEPT ![previous].next = child]
                    ELSE [linked EXCEPT ![parent].first = child]
        ahead    == IF before # 0 THEN [behind EXCEPT ![before].previous = child]
                    ELSE [behind EXCEPT ![parent].last = child]
    IN  [d EXCEPT !.nodes = [ahead EXCEPT ![parent].count = @ + 1]]

\* attach_before(): in front of a child, or last.  Nothing keeps a container
\* from being attached below itself.
CanAttachBefore(d, parent, before, child) ==
    CanAttach(d, parent, child) /\ (before # 0 => Relation(d, before, "parent") = parent)
AttachedBefore(d, parent, before, child, name) ==
    LET previous == IF before # 0 THEN d.nodes[before].previous ELSE d.nodes[parent].last
        linked   == [d.nodes EXCEPT ![child].parent = parent, ![child].previous = previous,
                                    ![child].next = before, ![child].name = name]
        behind   == IF previous # 0 THEN [linked EXCEPT ![previous].next = child]
                    ELSE [linked EXCEPT ![parent].first = child]
        ahead    == IF before # 0 THEN [behind EXCEPT ![before].previous = child]
                    ELSE [behind EXCEPT ![parent].last = child]
    IN  [d EXCEPT !.nodes = [ahead EXCEPT ![parent].count = @ + 1, ![parent].revision = @ + 1]]

\* append_array_child(), insert_array_child_before(): [ok, d].
InArray(d, array, before, child) ==
    IF IsArrayType(NodeType(d, array)) /\ CanAttachBefore(d, array, before, child)
    THEN [ok |-> TRUE, d |-> AttachedBefore(d, array, before, child, 0)]
    ELSE [ok |-> FALSE, d |-> d]

\* add_object_child(): the name is interned before anything else can fail.
InObject(d, object, text, child) ==
    LET names == Interned(d.names, text)
        named == [d EXCEPT !.names = names]
        id    == IdOf(names, text)
    IN  CASE NodeType(d, object) # "object" -> [ok |-> FALSE, d |-> d]
          [] NodeType(d, object) = "object" /\ ~ObjectHasName(d, object, id) /\ CanAttach(d, object, child) ->
               [ok |-> TRUE, d |-> AttachedBefore(named, object, 0, child, id)]
          [] OTHER -> [ok |-> FALSE, d |-> named]

CanDetach(d, child) ==
    /\ IsNode(d, child) /\ d.nodes[child].parent # 0 /\ child # d.root
    /\ ChildCount(d, d.nodes[child].parent) > 0

\* A mutant: the list still ends at the child that left.
DetachedFromMiddle(d, child) ==
    LET c      == d.nodes[child]
        behind == IF c.previous # 0 THEN [d.nodes EXCEPT ![c.previous].next = c.next]
                  ELSE [d.nodes EXCEPT ![c.parent].first = c.next]
        ahead  == IF c.next # 0 THEN [behind EXCEPT ![c.next].previous = c.previous] ELSE behind
    IN  [d EXCEPT !.nodes = [ahead EXCEPT ![child].parent = 0, ![child].previous = 0, ![child].next = 0,
                                          ![child].name = 0, ![c.parent].count = @ - 1, ![c.parent].revision = @ + 1]]

Detached(d, child) ==
    LET c      == d.nodes[child]
        behind == IF c.previous # 0 THEN [d.nodes EXCEPT ![c.previous].next = c.next]
                  ELSE [d.nodes EXCEPT ![c.parent].first = c.next]
        ahead  == IF c.next # 0 THEN [behind EXCEPT ![c.next].previous = c.previous]
                  ELSE [behind EXCEPT ![c.parent].last = c.previous]
    IN  [d EXCEPT !.nodes = [ahead EXCEPT ![child].parent = 0, ![child].previous = 0, ![child].next = 0,
                                          ![child].name = 0, ![c.parent].count = @ - 1, ![c.parent].revision = @ + 1]]

Erased(d, key) == [d EXCEPT !.nodes = Restrict(@, DOMAIN @ \ {key})]
CanErase(d, key) ==
    /\ IsNode(d, key) /\ key # d.root
    /\ \A field \in {"parent", "previous", "next", "count"} : d.nodes[key][field] = 0

CanBeRoot(d, key) ==
    IsNode(d, key) /\ \A field \in {"parent", "previous", "next"} : d.nodes[key][field] = 0
-----------------------------------------------------------------------------
(* check_integrity().                                                        *)

ContainerIntegrity(d, key) ==
    LET c    == d.nodes[key]
        list == ChildrenOf(d, key)
    IN  /\ (c.count = 0) <=> (c.first = 0 /\ c.last = 0)
        /\ Len(list) = c.count
        /\ list # <<>> => Last(list) = c.last /\ NextSibling(d, c.last) = 0
        /\ \A i \in DOMAIN list :
             /\ IsNode(d, list[i])
             /\ Relation(d, list[i], "parent") = key
             /\ Relation(d, list[i], "previous") = (IF i = 1 THEN 0 ELSE list[i - 1])
             /\ (c.type = "object") <=> (Relation(d, list[i], "name") # 0)
             /\ c.type = "object" =>
                  \A j \in 1 .. i - 1 : Relation(d, list[j], "name") # Relation(d, list[i], "name")

NodeIntegrity(d, key) ==
    LET n == d.nodes[key]
        IsBeside(other, back) == IsNode(d, other) /\ d.nodes[other][back] = key /\ d.nodes[other].parent = n.parent
    IN  /\ n.type \in NodeTypes
        /\ n.parent # 0 => IsContainerType(NodeType(d, n.parent))
        /\ n.parent = 0 => n.previous = 0 /\ n.next = 0 /\ n.name = 0
        /\ n.previous # 0 => IsBeside(n.previous, "next")
        /\ n.next # 0 => IsBeside(n.next, "previous")
        /\ IsContainerType(n.type) => ContainerIntegrity(d, key)
        /\ n.type = "string" => n.value \in DOMAIN d.strings
        /\ n.name # 0 => n.name \in DOMAIN d.names

LinksAreSound(d) ==
    /\ d.root # 0 => CanBeRoot(d, d.root)
    /\ \A key \in DOMAIN d.nodes : NodeIntegrity(d, key)

\* The registry is asked first, and it wants arrays as long as its slots.
RegistryIsValid(d) == d.size = d.capacity
CheckIntegrity(d) == d.ready /\ RegistryIsValid(d) /\ LinksAreSound(d)
-----------------------------------------------------------------------------
(* The operations.                                                           *)

LiveInit == doc = NoDocument /\ cursor = NoCursor

\* A cursor belongs to one life of the document.
Initialise(ok) == doc' = (IF ok THEN ReadyDocument(0) ELSE NoDocument) /\ cursor' = NoCursor
Deallocate == doc' = NoDocument /\ cursor' = NoCursor

MayCreate == doc.ready /\ doc.nextKey <= MaxKey
CreateScalar(s, outcome) == MayCreate /\ doc' = Created(doc, s.type, s.value, outcome) /\ UNCHANGED cursor
CreateContainer(type, outcome) == MayCreate /\ doc' = Created(doc, type, 0, outcome) /\ UNCHANGED cursor
CreateString(text, outcome) ==
    (doc.ready => MayCreate) /\ doc' = CreatedString(doc, text, outcome) /\ UNCHANGED cursor

MayChange(key) == Relation(doc, key, "revision") < MaxRevision
AppendArrayChild(array, child) ==
    MayChange(array) /\ doc' = InArray(doc, array, 0, child).d /\ UNCHANGED cursor
InsertArrayChildBefore(array, before, child) ==
    MayChange(array) /\ before # 0 /\ doc' = InArray(doc, array, before, child).d /\ UNCHANGED cursor
AddObjectChild(object, text, child) ==
    MayChange(object) /\ doc' = InObject(doc, object, text, child).d /\ UNCHANGED cursor

Detach(child) ==
    CanDetach(doc, child) /\ MayChange(doc.nodes[child].parent) /\ doc' = Detached(doc, child) /\ UNCHANGED cursor
EraseDetached(key) == CanErase(doc, key) /\ doc' = Erased(doc, key) /\ UNCHANGED cursor
SetRoot(key) == CanBeRoot(doc, key) /\ doc' = [doc EXCEPT !.root = key] /\ UNCHANGED cursor

ArrayCursorAt(array, index) ==
    /\ ArrayAt(doc, array, index) # 0
    /\ cursor' = [parent |-> array, current |-> ArrayAt(doc, array, index), index |-> index,
                  revision |-> doc.nodes[array].revision]
    /\ UNCHANGED doc

\* What array_cursor_next() asks of a cursor.
IsCurrent(c) ==
    IsArrayType(NodeType(doc, c.parent)) /\ Relation(doc, c.parent, "revision") = c.revision /\ c.current # 0
ArrayCursorNext ==
    /\ IsCurrent(cursor) /\ NextSibling(doc, cursor.current) # 0
    /\ cursor' = [cursor EXCEPT !.current = NextSibling(doc, @), !.index = @ + 1]
    /\ UNCHANGED doc

LiveNext ==
    \/ \E ok \in BOOLEAN : Initialise(ok)
    \/ Deallocate
    \/ \E outcome \in GrowthOutcomes :
         \/ \E s \in Scalars : CreateScalar(s, outcome)
         \/ \E type \in {"array", "object"} : CreateContainer(type, outcome)
         \/ \E text \in Texts : CreateString(text, outcome)
    \/ \E p, c \in 1 .. MaxKey :
         \/ AppendArrayChild(p, c)
         \/ \E before \in 1 .. MaxKey : InsertArrayChildBefore(p, before, c)
         \/ \E text \in Texts : AddObjectChild(p, text, c)
    \/ \E key \in 1 .. MaxKey :
         \/ Detach(key) \/ EraseDetached(key) \/ SetRoot(key)
         \/ \E index \in 0 .. MaxKey - 1 : ArrayCursorAt(key, index)
    \/ ArrayCursorNext
-----------------------------------------------------------------------------
(* Properties.                                                               *)

(* Whatever is attached, refused, moved or erased, the links and ids are sound.
   check_integrity() of a ready document holds as well, except from a growth of
   the registry that failed half-way until one succeeds.  And what it does not
   look at: every node that names a parent stands in the list of that parent, so
   that nothing is left behind that neither the parent shows nor
   erase_detached() accepts. *)
IntegrityIsKept ==
    /\ LinksAreSound(doc)
    /\ doc.ready => (CheckIntegrity(doc) <=> ~doc.torn)
    /\ \A key \in DOMAIN doc.nodes :
         doc.nodes[key].parent # 0 => Contains(ChildrenOf(doc, doc.nodes[key].parent), key)

(* A cursor that array_cursor_next() would still move is where array_at() finds
   its index, however the array was changed, emptied and filled since; otherwise
   the revision gives it away. *)
CursorsAreExact == IsCurrent(cursor) => cursor.current = ArrayAt(doc, cursor.parent, cursor.index)
-----------------------------------------------------------------------------
\* CBakedNode; first is the index of the first child.
BakedNode(type, value, parent, name) ==
    [type |-> type, value |-> value, parent |-> parent, name |-> name, first |-> 0, count |-> 0]
NoBuilder == [nodes |-> <<>>, root |-> 0, names |-> <<>>, strings |-> <<>>, recovered |-> FALSE]
NoBlock == [NoBuilder EXCEPT !.names = [refs |-> <<>>, bytes |-> <<>>], !.strings = [refs |-> <<>>, bytes |-> <<>>]]
-----------------------------------------------------------------------------
(* Reading a builder or a block b.  Node 0 is the sentinel in front.         *)

IsBaked(b, i) == i \in DOMAIN b.nodes
BakedType(b, i) == IF IsBaked(b, i) THEN b.nodes[i].type ELSE "invalid"
BakedFirst(b, i) ==
    IF IsContainerType(BakedType(b, i)) /\ b.nodes[i].count # 0 THEN b.nodes[i].first ELSE 0

\* next_sibling(): from the range of the parent.
BakedNext(b, i) ==
    LET p == b.nodes[b.nodes[i].parent]
    IN  IF IsBaked(b, i) /\ IsBaked(b, b.nodes[i].parent) /\ i >= p.first /\ i + 1 < p.first + p.count
        THEN i + 1 ELSE 0

\* array_at() and object_child(), by index or by the name of a child.
BakedChildren(b, i) == [j \in 1 .. b.nodes[i].count |-> b.nodes[i].first + j - 1]
BakedAt(b, i, index) == BakedChildren(b, i)[index + 1]

\* string_from(): a view of the bytes of a block.
StringFrom(table, id) ==
    LET ref == table.refs[id]
    IN  IF id \notin DOMAIN table.refs \/ ref.offset + ref.length > Len(table.bytes) THEN ViewOf(<<>>, 0)
        ELSE [null |-> FALSE, text |-> SubSeq(table.bytes, ref.offset + 1, ref.offset + ref.length)]
-----------------------------------------------------------------------------
(* Live to baked.                                                            *)

CopiedName(b, d, name) ==
    IF name = 0 THEN [b |-> b, id |-> 0]
    ELSE LET names == Interned(b.names, d.names[name])
         IN  [b |-> [b EXCEPT !.names = names], id |-> IdOf(names, d.names[name])]

\* append_node()
NodeAppended(b, d, key, parent, name) ==
    LET n       == d.nodes[key]
        strings == IF n.type = "string" THEN Interned(b.strings, StringValue(d, key).text) ELSE b.strings
        value   == CASE n.type = "string" -> IdOf(strings, StringValue(d, key).text)
                     [] n.type \in ScalarTypes -> ScalarValue(d, key)
                     [] OTHER -> 0
    IN  [b EXCEPT !.nodes = Append(@, BakedNode(n.type, value, parent, name)),
                  !.strings = strings,
                  !.recovered = @ \/ n.type = "recovered_duplicate_array"]

\* A mutant: the range of a container is not begun anew.
ChildrenAppendedFrom1(b, d, key, i) ==
    LET Step(x, child) ==
          LET named == CopiedName(x, d, IF NodeType(d, key) = "object" THEN d.nodes[child].name ELSE 0)
              y     == NodeAppended(named.b, d, child, i, named.id)
          IN  [y EXCEPT !.nodes[i].count = @ + 1]
    IN  FoldLeft(Step, [b EXCEPT !.nodes[i].first = i + 1, !.nodes[i].count = 0], ChildrenOf(d, key))

\* First loop of build_children(): all children of one container, side by side.
ChildrenAppended(b, d, key, i) ==
    LET Step(x, child) ==
          LET named == CopiedName(x, d, IF NodeType(d, key) = "object" THEN d.nodes[child].name ELSE 0)
              y     == NodeAppended(named.b, d, child, i, named.id)
          IN  [y EXCEPT !.nodes[i].count = @ + 1]
    IN  FoldLeft(Step, [b EXCEPT !.nodes[i].first = Len(b.nodes) + 1, !.nodes[i].count = 0], ChildrenOf(d, key))

\* Second loop: the children of each of them, in order.  The containers that
\* are still to be filled wait in a stack, which stands for the recursion.
Built(d) ==
    LET Step(s, turn) ==
          LET top   == Head(s.stack)
              after == ChildrenAppended(s.b, d, top.key, top.index)
              below == [j \in DOMAIN ChildrenOf(d, top.key) |->
                          [key |-> ChildrenOf(d, top.key)[j], index |-> after.nodes[top.index].first + j - 1]]
          IN  IF s.stack = <<>> THEN s
              ELSE IF ~IsContainerType(NodeType(d, top.key)) THEN [s EXCEPT !.stack = Tail(@)]
              ELSE [b |-> after, stack |-> below \o Tail(s.stack)]
        start == [b |-> [NodeAppended(NoBuilder, d, d.root, 0, 0) EXCEPT !.root = 1],
                  stack |-> <<[key |-> d.root, index |-> 1]>>]
    IN  FoldLeft(Step, start, [turn \in 1 .. Cardinality(DOMAIN d.nodes) |-> turn]).b

ParentContains(b, parent, i) ==
    /\ IsContainerType(BakedType(b, parent))
    /\ i \in b.nodes[parent].first .. b.nodes[parent].first + b.nodes[parent].count - 1

RangeIntegrity(b, i) ==
    LET n == b.nodes[i]
    IN  /\ n.count # 0 => n.first + n.count - 1 <= Len(b.nodes)
        /\ \A j \in n.first .. n.first + n.count - 1 :
             /\ b.nodes[j].parent = i
             /\ (n.type = "object") <=> (b.nodes[j].name # 0)
             /\ n.type = "object" => \A k \in n.first .. j - 1 : b.nodes[k].name # b.nodes[j].name

\* check_integrity() of the builder.
BuilderIntegrity(b) ==
    /\ IsBaked(b, b.root)
    /\ \A i \in DOMAIN b.nodes :
         LET n == b.nodes[i]
         IN  /\ n.type \in NodeTypes
             /\ IF i = b.root THEN n.parent = 0 /\ n.name = 0 ELSE ParentContains(b, n.parent, i)
             /\ IsContainerType(n.type) => RangeIntegrity(b, i)
             /\ n.type = "string" => n.value \in DOMAIN b.strings
             /\ n.name # 0 => n.name \in DOMAIN b.names
    /\ b.recovered <=> \E i \in DOMAIN b.nodes : b.nodes[i].type = "recovered_duplicate_array"
-----------------------------------------------------------------------------
(* Builder to block.                                                         *)

\* copy_strings(): the bytes of all strings, and where each of them begins.
CopiedStrings(table) ==
    LET Offset(id) == Len(FlattenSeq(SubSeq(table, 1, id - 1)))
    IN  [refs  |-> [id \in DOMAIN table |-> [offset |-> Offset(id), length |-> Len(table[id])]],
         bytes |-> FlattenSeq(table)]

BlockOf(b) == [b EXCEPT !.names = CopiedStrings(@), !.strings = CopiedStrings(@)]

\* What validate() asks of references and of nodes.
RefsAreValid(table) ==
    \A id \in DOMAIN table.refs : table.refs[id].offset + table.refs[id].length <= Len(table.bytes)
BakedNodeIsValid(b, i) ==
    LET n == b.nodes[i]
    IN  /\ n.type \in NodeTypes
        /\ n.parent \in 0 .. Len(b.nodes) /\ n.name \in 0 .. Len(b.names.refs)
        /\ n.type = "string" => n.value \in 0 .. Len(b.strings.refs)
        /\ IF IsContainerType(n.type)
           THEN /\ n.count # 0 => n.first # 0 /\ n.first + n.count - 1 <= Len(b.nodes)
                /\ \A j \in 1 .. n.count : b.nodes[n.first + j - 1].parent = i
           ELSE n.count = 0 /\ n.first = 0

Validate(b) ==
    /\ IsBaked(b, b.root)
    /\ RefsAreValid(b.names) /\ RefsAreValid(b.strings)
    /\ \A i \in DOMAIN b.nodes : BakedNodeIsValid(b, i)
    /\ b.nodes[b.root].parent = 0
-----------------------------------------------------------------------------
(* Baked to live.                                                            *)

\* Names and strings of d together; only one that is new may find no memory,
\* and `room` of them find it.
InternedCount(d) == Len(d.names) + Len(d.strings)

\* The node itself: [ok, d], of key d.nextKey.  There is a slot for each.
Copied(d, b, i, room) ==
    LET n    == b.nodes[i]
        text == StringFrom(b.strings, n.value)
        made == CreatedString(d, text.text, "grown")
    IN  CASE n.type # "string" -> [ok |-> TRUE, d |-> Created(d, n.type, n.value, "grown")]
          [] n.type = "string" /\ ~text.null /\ InternedCount(made) <= room -> [ok |-> TRUE, d |-> made]
          [] OTHER -> [ok |-> FALSE, d |-> d]

\* append_from_baked(): a child is made with all below it, then attached.  What
\* is still to be done waits in a stack, which stands for the recursion.
Attachment(r, b, parent, key, child, room) ==
    LET name  == StringFrom(b.names, b.nodes[child].name)
        named == InObject(r.d, parent, name.text, key)
        a     == CASE NodeType(r.d, parent) # "object" -> InArray(r.d, parent, 0, key)
                   [] NodeType(r.d, parent) = "object" /\ ~name.null /\ InternedCount(named.d) <= room -> named
                   [] OTHER -> [ok |-> FALSE, d |-> r.d]
    IN  [r EXCEPT !.ok = a.ok, !.d = a.d, !.stack = Tail(@)]

Appended(b, room) ==
    LET Step(r, turn) ==
          LET top  == Head(r.stack)
              copy == Copied(r.d, b, top.child, room)
              key  == r.d.nextKey
              next == [done |-> FALSE, child |-> BakedNext(b, top.child), parent |-> top.parent, key |-> 0]
              rest == IF next.child = 0 THEN Tail(r.stack) ELSE <<next>> \o Tail(r.stack)
              join == [top EXCEPT !.done = TRUE, !.key = key]
              here == IF top.parent = 0 THEN Tail(r.stack) ELSE <<join>> \o rest
              down == [done |-> FALSE, child |-> BakedFirst(b, top.child), parent |-> key, key |-> 0]
          IN  CASE ~r.ok \/ r.stack = <<>> -> r
                [] r.ok /\ r.stack # <<>> /\ top.done -> Attachment(r, b, top.parent, top.key, top.child, room)
                [] OTHER -> [ok |-> copy.ok, d |-> copy.d,
                             stack |-> IF down.child = 0 THEN here ELSE <<down>> \o here]
        start == [ok |-> TRUE, d |-> ReadyDocument(Len(b.nodes)),
                  stack |-> <<[done |-> FALSE, child |-> b.root, parent |-> 0, key |-> 0]>>]
    IN  FoldLeft(Step, start, [turn \in 1 .. 2 * Len(b.nodes) |-> turn])

\* A mutant: an incomplete promotion is accepted.
PromotedPart(b, room) ==
    LET r == Appended(b, room)
    IN  [ok |-> r.ok, d |-> [r.d EXCEPT !.root = 1]]

\* build_from(): [ok, d].
Promoted(b, room) ==
    LET r == Appended(b, room)
        d == [r.d EXCEPT !.root = 1]
    IN  [ok |-> r.ok /\ Cardinality(DOMAIN d.nodes) = Len(b.nodes) /\ CheckIntegrity(d), d |-> d]
-----------------------------------------------------------------------------
(* The operations.                                                           *)

Init == LiveInit /\ builder = NoBuilder /\ block = NoBlock

\* CBakedDocumentBuilder::build_from()
Bake(ok) ==
    /\ doc.root # 0 /\ CheckIntegrity(doc)
    /\ builder' = IF ok /\ BuilderIntegrity(Built(doc)) THEN Built(doc) ELSE builder
    /\ UNCHANGED <<liveVars, block>>

\* CBakedDocumentBlock::build_from()
BuildBlock(ok) ==
    /\ builder.root # 0 /\ BuilderIntegrity(builder)
    /\ block' = IF ok /\ Validate(BlockOf(builder)) THEN BlockOf(builder) ELSE block
    /\ UNCHANGED <<liveVars, builder>>

\* CBakedDocument::reset()
Reset(b) ==
    /\ block' = IF Validate(b) THEN b ELSE NoBlock
    /\ UNCHANGED <<liveVars, builder>>

DeallocateBuilder == builder' = NoBuilder /\ UNCHANGED <<liveVars, block>>
DeallocateBlock == block' = NoBlock /\ UNCHANGED <<liveVars, builder>>

\* More names and strings than a block has are never asked for.
Rooms(b) == 0 .. Len(b.names.refs) + Len(b.strings.refs)
Complete(b) == Promoted(b, Max(Rooms(b)))

\* CLiveDocument::build_from(), of what is read.  ok is of the registry.
Promote(ok, room) ==
    /\ block # NoBlock /\ Validate(block)
    /\ LET p == Promoted(block, room)
       IN  /\ doc' = IF ok /\ p.ok THEN p.d ELSE doc
           /\ cursor' = IF ok /\ p.ok THEN NoCursor ELSE cursor
    /\ UNCHANGED bakedVars

BakedSteps ==
    \/ \E ok \in BOOLEAN : Bake(ok) \/ BuildBlock(ok) \/ \E room \in Rooms(block) : Promote(ok, room)
    \/ \E b \in Foreign : Reset(b)
    \/ DeallocateBuilder \/ DeallocateBlock

Next == (LiveNext /\ UNCHANGED bakedVars) \/ BakedSteps
Spec == Init /\ [][Next]_vars
-----------------------------------------------------------------------------
(* Properties.  A tree is what its owner sees: types, values, order, names.  *)

Tree(type, value, text, kids) == [type |-> type, value |-> value, text |-> text, kids |-> kids]
Leaf(n, text) == Tree(n.type, IF n.type = "string" THEN 0 ELSE n.value, text, <<>>)
LiveTree(d) ==
    LET tree[key \in DOMAIN d.nodes] ==
          IF ~IsContainerType(NodeType(d, key)) THEN Leaf(d.nodes[key], StringValue(d, key).text)
          ELSE Tree(NodeType(d, key), 0, <<>>,
                    [i \in DOMAIN ChildrenOf(d, key) |->
                       <<ViewOf(d.names, d.nodes[ChildrenOf(d, key)[i]].name).text, tree[ChildrenOf(d, key)[i]]>>])
    IN  tree[d.root]

BakedTree(b) ==
    LET Name(type, i) == IF type = "object" THEN StringFrom(b.names, b.nodes[i].name).text ELSE <<>>
        tree[i \in DOMAIN b.nodes] ==
          IF ~IsContainerType(b.nodes[i].type)
          THEN Leaf(b.nodes[i], IF b.nodes[i].type = "string" THEN StringFrom(b.strings, b.nodes[i].value).text ELSE <<>>)
          ELSE Tree(b.nodes[i].type, 0, <<>>,
                    [j \in 1 .. b.nodes[i].count |->
                       <<Name(b.nodes[i].type, BakedAt(b, i, j - 1)), tree[BakedAt(b, i, j - 1)]>>])
    IN  tree[b.root]

\* Nodes below i, as often as navigation comes to them, down to a depth.
Below(b, i, depth) ==
    LET walk[x \in (DOMAIN b.nodes) \X (0 .. depth)] ==
          IF x[2] = 0 \/ ~IsContainerType(b.nodes[x[1]].type) THEN <<x[1]>>
          ELSE <<x[1]>> \o FlattenSeq([j \in 1 .. b.nodes[x[1]].count |-> walk[<<BakedAt(b, x[1], j - 1), x[2] - 1>>]])
    IN  walk[<<i, depth>>]

(* Any live document with a root can be baked and put into a block, and only
   for lack of memory not, at once or in the last growth of the registry; the
   tree in the block is that of the document, and promoted again it gives a
   document of the same tree and of sound integrity, whatever was edited,
   detached or left unattached before. *)
BakingKeepsTheTree ==
    doc.root # 0 /\ ~doc.torn =>
      LET b == Built(doc)
      IN  /\ BuilderIntegrity(b) /\ Validate(BlockOf(b))
          /\ BakedTree(BlockOf(b)) = LiveTree(doc)
          /\ Complete(BlockOf(b)).ok
          /\ LiveTree(Complete(BlockOf(b)).d) = LiveTree(doc)

(* A block that was accepted, by whomever it was made, is a finite tree to its
   reader; a promotion that is accepted, wherever in it memory may have been
   short, gives the whole of that tree, and every node of the block is in it. *)
BlocksAreTrees ==
    block # NoBlock =>
      LET nodes == Below(block, block.root, Len(block.nodes))
      IN  /\ IsInjective(nodes)
          /\ \A room \in Rooms(block) :
               LET p == Promoted(block, room)
               IN  p.ok => Len(nodes) = Len(block.nodes) /\ LiveTree(p.d) = BakedTree(block)
-----------------------------------------------------------------------------
(***************************************************************************)
(* A small instance, for TLC: the document is edited; then it is baked and *)
(* promoted, into a document that holds another one at most.               *)
(***************************************************************************)
MCTexts == {<<>>, <<1>>}
MCScalars == {[type |-> "integer", value |-> 7]}
MCGrowth(n) == n

\* Blocks of two nodes, or three, of any shape.
OneString == CopiedStrings(<<<<2>>>>)
ForeignBlock(nodes, root) == [nodes |-> nodes, root |-> root, names |-> OneString, strings |-> OneString, recovered |-> TRUE]
Ranged(n) == {n} \cup {[n EXCEPT !.first = first, !.count = count] : first \in 1 .. 2, count \in 0 .. 2}
ForeignNodes(parents, names) ==
    {BakedNode("string", value, parent, name) : value \in 0 .. 1, parent \in parents, name \in names}
      \cup UNION {Ranged(BakedNode(type, 0, parent, name)) :
                    type \in {"recovered_duplicate_array", "object"}, parent \in parents, name \in names}
Member == BakedNode("null_value", 0, 2, 1)
Owner(first) == [BakedNode("object", 0, 0, 0) EXCEPT !.first = first, !.count = 2]
\* A deeper one, laid out level by level.
Array(parent, first, count) == [BakedNode("array", 0, parent, 0) EXCEPT !.first = first, !.count = count]
Levels == <<Array(0, 2, 2), Array(1, 4, 1), Array(1, 5, 1), Array(2, 6, 1),
            [BakedNode("recovered_duplicate_array", 0, 3, 0) EXCEPT !.first = 1], BakedNode("string", 1, 4, 0)>>
MCForeign ==
    {ForeignBlock(<<a, b>>, 1) : a \in ForeignNodes({0}, {0}), b \in ForeignNodes({0, 1, 2}, {0, 1})}
      \cup {ForeignBlock(<<Member, Owner(first), Member>>, 2) : first \in {1, 2}}
      \cup {ForeignBlock(<<Owner(2), [Member EXCEPT !.parent = 1], [Member EXCEPT !.parent = 1]>>, 1), ForeignBlock(Levels, 1)}

\* Editing ends once something is baked or read; a reader with a cursor does
\* not care which node is the root.  What was baked is put into a block and
\* promoted once the document is given up, or has one node.
Unread == builder = NoBuilder /\ block = NoBlock
Edits == Unread /\ LiveNext /\ (cursor' = NoCursor \/ doc'.root = 0) /\ UNCHANGED bakedVars
Discards == builder # NoBuilder /\ (Deallocate \/ Initialise(TRUE)) /\ UNCHANGED bakedVars
IsSmall == Cardinality(DOMAIN doc.nodes) <= 1
Promotes == \E ok \in BOOLEAN, room \in Rooms(block) : Promote(ok, room)
Bakes ==
    /\ cursor = NoCursor
    /\ (IsSmall /\ Promotes) \/ \E ok \in BOOLEAN : Bake(ok) \/ (IsSmall /\ BuildBlock(ok))
Reads == Unread /\ doc \in {NoDocument, ReadyDocument(0)} /\ \E b \in Foreign : Reset(b)
MCNext ==
    \/ Edits \/ Discards \/ Bakes \/ Reads
    \/ DeallocateBuilder \/ (builder = NoBuilder /\ DeallocateBlock)
MCSpec == Init /\ [][MCNext]_vars
=============================================================================

---------------------------- MODULE StableStrings ----------------------------
(***************************************************************************)
(* CStableStrings: strings kept once, each under an id that never changes. *)
(* The payloads lie in one CStringBuffer, a zero before and after each;    *)
(* four vectors relate ids, references to payloads, and lexical order.     *)
(* Each of the five may grow, and any of their allocations may fail.       *)
(* Index 0 of each vector is a sentinel: At() counts from 0.               *)
(***************************************************************************)
EXTENDS Integers, SequencesExt, FiniteSetsExt

CONSTANTS
    IsPermutation(_, _),    \* algo::validate_extracted_permutation(), as in OrderedCollection
    Strings,            \* bound: the strings given, sequences of bytes
    TextGrowth(_),      \* buffer_growth_policy()
    Growth(_),          \* vector_growth_policy()
    Allocations         \* bound: allocations that succeed before one fails

StringsAssumption == Strings \subseteq Seq(Nat \ {0})

VARIABLES
    table,              \* the string buffer, the four vectors, their capacities
    given               \* specification only: the strings by id

vars == <<table, given>>

Vectors == {"refs", "ids", "refOf", "sorted"}
NoRef == [offset |-> 0, length |-> 0]

\* "ids" is m_ref_index_to_id, "refOf" m_id_to_ref_index; cap is by container.
NoTable == [text |-> <<>>, refs |-> <<>>, ids |-> <<>>, refOf |-> <<>>, sorted |-> <<>>,
            cap |-> [c \in Vectors \cup {"text"} |-> 0]]

Init == table = NoTable /\ given = <<>>

At(s, i) == s[i + 1]
Size(t) == Len(t.refs)
IsBefore(a, b) ==
    \/ Len(a) < Len(b) /\ a = SubSeq(b, 1, Len(a))
    \/ \E i \in 1 .. Min({Len(a), Len(b)}) : SubSeq(a, 1, i - 1) = SubSeq(b, 1, i - 1) /\ a[i] < b[i]

\* CStringBuffer::string(): a payload begins behind a zero.
IsValidOffset(text, offset) == offset \in 1 .. Len(text) - 1 /\ text[offset] = 0
Payload(text, ref) == SubSeq(text, ref.offset + 1, ref.offset + ref.length)

\* view()
IsValidId(t, id) == id \in 1 .. Len(t.refOf) - 1
Viewed(t, id) == Payload(t.text, At(t.refs, At(t.refOf, id)))

\* private_find_ref_index(): the reference, and else where it would be inserted.
Search(t, s) ==
    LET search[span \in (1 .. Size(t) + 1) \X (0 .. Size(t) + 1)] ==
          LET lower == span[1]
              upper == span[2]
              pivot == (lower + upper) \div 2
              ref   == At(t.sorted, pivot)
              other == Payload(t.text, At(t.refs, ref))
          IN  CASE lower >= upper -> [ref |-> 0, insertAt |-> lower]
                [] lower < upper /\ s = other -> [ref |-> ref, insertAt |-> 0]
                [] OTHER -> IF IsBefore(s, other) THEN search[<<lower, pivot>>] ELSE search[<<pivot + 1, upper>>]
    IN  search[<<1, Len(t.sorted)>>]

FindId(t, s) == IF Size(t) <= 1 THEN 0 ELSE At(t.ids, Search(t, s).ref)
-----------------------------------------------------------------------------
(* Growth.  An attempt is the table so far, the allocations left, and        *)
(* whether all has succeeded: after a failure nothing more is done.          *)

Attempt(t, left) == [t |-> t, left |-> left, ok |-> TRUE]

ToCapacity(a, c, capacity) ==
    CASE ~a.ok \/ capacity = a.t.cap[c] -> a
      [] a.ok /\ capacity # a.t.cap[c] /\ a.left = 0 -> [a EXCEPT !.ok = FALSE]
      [] OTHER -> [a EXCEPT !.t.cap[c] = capacity, !.left = @ - 1]

Reserve(a, c, minimum) ==
    IF minimum <= a.t.cap[c] THEN a
    ELSE ToCapacity(a, c, IF c = "text" THEN TextGrowth(minimum) ELSE Growth(minimum))

ReserveAll(a, count) == FoldLeft(LAMBDA b, c : Reserve(b, c, count), a, <<"refs", "ids", "refOf", "sorted">>)

\* ensure_free() of the text always follows the policy, that of vectors only if need be.
EnsureText(a, length) ==
    ToCapacity(a, "text", Max({TextGrowth(Len(a.t.text) + length + 2), a.t.cap["text"]}))
EnsureFree(a, length) == ReserveAll(EnsureText(a, length), Size(a.t) + 1)

\* CStringBuffer::private_append(), with the room ensured.
PutText(text, s) == text \o <<0>> \o s \o <<0>>

\* A mutant: the new reference is ranked last.
CommittedLast(t, s, insertAt) ==
    LET id == Size(t)
    IN  [t EXCEPT !.text   = PutText(@, s),
                  !.refs   = Append(@, [offset |-> Len(t.text) + 1, length |-> Len(s)]),
                  !.ids    = Append(@, id),
                  !.refOf  = Append(@, id),
                  !.sorted = Append(@, id)]

\* The guaranteed-commit path of private_append().
Committed(t, s, insertAt) ==
    LET id == Size(t)
    IN  [t EXCEPT !.text   = PutText(@, s),
                  !.refs   = Append(@, [offset |-> Len(t.text) + 1, length |-> Len(s)]),
                  !.ids    = Append(@, id),
                  !.refOf  = Append(@, id),
                  !.sorted = InsertAt(@, insertAt + 1, id)]

\* initialise() of a table without contents; a failure gives everything back.
Initialise(t, count, storage, left) ==
    LET a == ReserveAll(Reserve(Attempt(t, left), "text", storage), count + 1)
    IN  IF a.ok THEN [a EXCEPT !.t.refs = <<NoRef>>, !.t.ids = <<0>>, !.t.refOf = <<0>>, !.t.sorted = <<0>>]
        ELSE [a EXCEPT !.t = NoTable]

\* private_append(): the table, and the id given or 0.
Appended(t, s, left) ==
    LET place == Search(t, s)
        grown == IF Size(t) = 0 THEN Initialise(t, Growth(1), TextGrowth(Len(s) + 2), left)
                 ELSE EnsureFree(Attempt(t, left), Len(s))
    IN  CASE Size(t) # 0 /\ place.ref # 0 -> [t |-> t, id |-> At(t.ids, place.ref)]
          [] (Size(t) = 0 \/ place.ref = 0) /\ ~grown.ok -> [t |-> grown.t, id |-> 0]
          [] OTHER -> [t  |-> Committed(grown.t, s, IF Size(t) = 0 THEN 1 ELSE place.insertAt),
                       id |-> Size(grown.t)]

-----------------------------------------------------------------------------
(* Reorganisation.                                                           *)

\* sort(): a new table whose references are in lexical order.  The text is
\* sized exactly, but appending to it follows the growth policy again.
Sorted(t, left) ==
    LET exact == Attempt([NoTable EXCEPT !.refs = <<NoRef>>, !.sorted = <<0>>], left)
        room  == FoldLeft(LAMBDA a, c : ToCapacity(a, c, IF c = "text" THEN Len(t.text) ELSE Size(t)),
                          exact, <<"text", "refs", "ids", "refOf", "sorted">>)
        moved == FoldLeft(LAMBDA a, i :
                   LET ref == At(t.refs, At(t.sorted, i))
                       b   == EnsureText(a, ref.length)
                   IN  IF ~b.ok THEN b
                       ELSE [b EXCEPT !.t.text = PutText(@, Payload(t.text, ref)),
                                      !.t.refs = Append(@, [offset |-> Len(b.t.text) + 1, length |-> ref.length]),
                                      !.t.sorted = Append(@, i)],
                   room, [i \in 1 .. Size(t) - 1 |-> i])
        ids   == [i \in 1 .. Size(t) |-> At(t.ids, t.sorted[i])]
    IN  IF Size(t) <= 2 \/ ~moved.ok THEN t
        ELSE [moved.t EXCEPT !.ids = ids, !.refOf = [i \in 1 .. Size(t) |-> (CHOOSE r \in 1 .. Size(t) : ids[r] = i - 1) - 1]]

\* shrink_to_fit() goes on after a failure.
ShrunkToFit(t, left) ==
    FoldLeft(LAMBDA a, c :
               ToCapacity([a EXCEPT !.ok = TRUE], c, IF c = "text" THEN Len(t.text) ELSE Size(t)),
             Attempt(t, left), <<"text", "refs", "ids", "refOf", "sorted">>).t

Give(s, left) ==
    LET r == Appended(table, s, left)
    IN  /\ table' = r.t
        /\ given' = IF r.id > Len(given) THEN Append(given, s) ELSE given

Reorganise(left) ==
    /\ table' \in {EnsureFree(Attempt(table, left), 1).t, Sorted(table, left), ShrunkToFit(table, left)}
          \cup (IF Size(table) = 0 THEN {Initialise(table, n, 4, left).t : n \in {1, 2}} ELSE {})
    /\ UNCHANGED given

Deallocate == table' = NoTable /\ given' = <<>>

Next == (\E left \in 0 .. Allocations : Reorganise(left) \/ \E s \in Strings : Give(s, left)) \/ Deallocate

Spec == Init /\ [][Next]_vars
-----------------------------------------------------------------------------
(* Properties.                                                              *)

\* check_integrity(), as far as the types do not say it.
CheckIntegrity(t) ==
    LET index == 1 .. Size(t) - 1
    IN  /\ t.text # <<>> => Len(t.text) >= 2 /\ t.text[1] = 0 /\ t.text[Len(t.text)] = 0
        /\ Len(t.ids) = Size(t) /\ Len(t.refOf) = Size(t) /\ Len(t.sorted) = Size(t)
        /\ Size(t) # 0 => t.refs[1] = NoRef /\ t.ids[1] = 0 /\ t.refOf[1] = 0 /\ t.sorted[1] = 0
        /\ \A i \in index : At(t.ids, i) \in index /\ At(t.refOf, i) \in index
        /\ \A i \in index : At(t.refOf, At(t.ids, i)) = i /\ At(t.ids, At(t.refOf, i)) = i
        /\ \A i \in index :
             LET ref == At(t.refs, i)
             IN  /\ IsValidOffset(t.text, ref.offset)
                 /\ ref.offset + ref.length < Len(t.text) /\ At(t.text, ref.offset + ref.length) = 0
        /\ IsPermutation(t.sorted, 0)
        /\ \A i \in index \ {1} :
             IsBefore(Payload(t.text, At(t.refs, At(t.sorted, i - 1))), Payload(t.text, At(t.refs, At(t.sorted, i))))

(* ensure_free() says that after it has succeeded one append of a string of
   that length succeeds without reallocation; in any table, empty or not. *)
EnsuredAppendSucceeds ==
    \A s \in Strings : EnsureFree(Attempt(table, 0), Len(s)).ok => Appended(table, s, 0).id # 0

(* Whatever fails, and however the table is sorted or shrunk: an id gives the
   string it was given for, every string is found under its id and no other,
   the table passes its own check, and ensured room suffices for an append
   once the table has contents. *)
IdsKeepStrings ==
    /\ CheckIntegrity(table)
    /\ Size(table) = IF given # <<>> THEN Len(given) + 1 ELSE Size(table)
    /\ \A id \in 1 .. Len(given) : IsValidId(table, id) /\ Viewed(table, id) = given[id] /\ FindId(table, given[id]) = id
    /\ \A s \in Strings \ ToSet(given) : FindId(table, s) = 0
    /\ Size(table) # 0 => \A c \in Vectors : table.cap[c] >= Size(table)
    /\ Size(table) # 0 => EnsuredAppendSucceeds
=============================================================================

----------------------------- MODULE ByteBuffers -----------------------------
(***************************************************************************)
(* CByteBuffer: bytes in one block with spare capacity and an alignment.   *)
(* CByteRectBuffer: rows of bytes whose beginnings are aligned, and the    *)
(* views of a part of them; reallocate() copies row by row and clears what *)
(* the new shape exposes.                                                  *)
(*                                                                         *)
(* Operations are functions of a buffer and of whether an allocation they  *)
(* make succeeds; one that fails leaves the buffer as it was.  The two     *)
(* kinds share nothing: one moves while the other is in its first state.   *)
(***************************************************************************)
EXTENDS Integers, SequencesExt

CONSTANTS
    SizeCeiling,        \* k_byte_size_ceiling, for a buffer
    Growth(_),          \* buffer_growth_policy()
    Texts,              \* bound: what is appended at once
    MaxWidth, MaxRows,  \* bounds
    MaxBytes,           \* k_byte_size_ceiling, for a rect
    Aligns              \* bound: alignments asked for; 0 is that of the token

VARIABLES
    buffer,             \* the bytes of the block, m_meta.size, storage_alignment()
    rect                \* the bytes of the block, and its shape and alignment

vars == <<buffer, rect>>

Raw == -1               \* memory nobody has written
NoBuffer == [cells |-> <<>>, size |-> 0, align |-> 1]
NoRect == [cells |-> <<>>, pitch |-> 0, width |-> 0, rows |-> 0, align |-> 1]

Init == buffer = NoBuffer /\ rect = NoRect
-----------------------------------------------------------------------------
(* CByteBuffer.                                                              *)

Capacity(b) == Len(b.cells)
Contents(b) == SubSeq(b.cells, 1, b.size)
Larger(m, n) == IF m > n THEN m ELSE n
Zeros(n) == [i \in 1 .. n |-> 0]

\* bit_ops::reduce_alignment_to_pow2()
ReducedAlign(n) == CHOOSE p \in {1, 2, 4, 8} : n % p = 0 /\ (p = n \/ n % (2 * p) # 0)

Written(b, to, bytes) ==
    [b EXCEPT !.cells = [i \in 1 .. Len(@) |-> IF i \in to + 1 .. to + Len(bytes) THEN bytes[i - to] ELSE @[i]]]

\* deallocate(); the token keeps its alignment.
Deallocated(b) == [NoBuffer EXCEPT !.align = b.align]

\* A mutant: in place, bytes that become part of the contents are left as they are.
ReallocatedStale(b, size, capacity, align, ok) ==
    IF capacity = Capacity(b) /\ size <= capacity THEN [b EXCEPT !.size = size] ELSE b

Reallocated(b, size, capacity, align, ok) ==
    LET norm  == ReducedAlign(IF align = 0 THEN b.align ELSE align)
        kept  == [i \in 1 .. capacity |-> IF i <= b.size /\ i <= size THEN b.cells[i] ELSE Raw]
        moved == [cells |-> kept, size |-> size, align |-> norm]
        added == Zeros(Larger(size - b.size, 0))
    IN  CASE size > capacity \/ capacity > SizeCeiling -> b
          [] size <= capacity /\ capacity = 0 -> Deallocated(b)
          [] capacity # 0 /\ capacity = Capacity(b) /\ size <= capacity /\ norm <= b.align ->
               [Written(b, b.size, added) EXCEPT !.size = size]
          [] OTHER -> IF ok THEN Written(moved, b.size, added) ELSE b

Allocated(b, capacity, align, ok) == Reallocated(b, 0, capacity, align, ok)

Resized(b, size, align, ok) ==
    IF size > SizeCeiling THEN b
    ELSE Reallocated(b, size, IF size > Capacity(b) THEN Growth(size) ELSE Capacity(b), align, ok)

Reserved(b, minimum, align, ok) ==
    IF minimum > SizeCeiling THEN b
    ELSE Reallocated(b, b.size, Larger(Growth(minimum), Capacity(b)), align, ok)

EnsuredFree(b, extra, align, ok) ==
    IF extra > SizeCeiling - b.size THEN b ELSE Reserved(b, b.size + extra, align, ok)

ShrunkToFit(b, ok) == Reallocated(b, b.size, b.size, IF b.cells = <<>> THEN 0 ELSE b.align, ok)

\* ensure_free() succeeds: it allocates even where the room would do, if the policy says so.
IsEnsured(b, extra, ok) == b.size + extra <= SizeCeiling /\ (ok \/ Growth(b.size + extra) <= Capacity(b))

\* append(), of bytes or of zeros, and of bytes nobody has written.
Appended(b, bytes, ok) ==
    LET r == EnsuredFree(b, Len(bytes), 0, ok)
    IN  IF IsEnsured(b, Len(bytes), ok) THEN [Written(r, r.size, bytes) EXCEPT !.size = @ + Len(bytes)] ELSE b

AppendedUninit(b, n, ok) ==
    LET r == EnsuredFree(b, n, 0, ok)
    IN  IF IsEnsured(b, n, ok) THEN [r EXCEPT !.size = @ + n] ELSE b

SetSize(b, size) == IF b.cells # <<>> /\ size <= Capacity(b) THEN [b EXCEPT !.size = size] ELSE b

ZeroFilled(b) == Written(b, 0, Zeros(b.size))

\* construct_and_copy_from(): an empty view is not a valid one, and is refused.
CopiedFrom(b, bytes, align, ok) ==
    IF bytes = <<>> \/ ~ok THEN b ELSE [cells |-> bytes, size |-> Len(bytes), align |-> align]
-----------------------------------------------------------------------------
(* CByteRectBuffer.                                                          *)

Least(m, n) == IF m < n THEN m ELSE n

\* bit_ops::round_up_to_pow2_multiple()
RoundedUp(n, pow2) == ((n + pow2 - 1) \div pow2) * pow2

\* row_data(), and the byte at a place of it; positions count from 0.
At(r, y, x) == r.cells[1 + y * r.pitch + x]

\* The bytes of a block, by row and column, padding included.
Block(pitch, rows, Byte(_, _)) ==
    [i \in 1 .. pitch * rows |-> Byte((i - 1) \div pitch, (i - 1) % pitch)]

RectDeallocated(r) == [NoRect EXCEPT !.align = r.align]

\* The bytes of reallocate(): all rows at once where rows do not change,
\* otherwise row by row; then the rows below.
MovedBytes(r, pitch, width, rows, zero) ==
    LET whole == width = pitch /\ width = r.width /\ pitch = r.pitch
        kept  == IF whole THEN pitch ELSE Least(width, r.width)
        rest  == IF zero THEN 0 ELSE Raw
        Byte(y, x) == IF r.cells # <<>> /\ y < Least(rows, r.rows) /\ x < kept THEN At(r, y, x) ELSE rest
    IN  Block(pitch, rows, Byte)

IsUnchanged(r, width, rows, align) ==
    LET use == ReducedAlign(IF align # 0 THEN align ELSE r.align)
    IN  use <= r.align /\ RoundedUp(width, use) = r.pitch /\ width = r.width /\ rows = r.rows

RectReallocated(r, width, rows, align, zero, ok) ==
    LET use   == ReducedAlign(IF align # 0 THEN align ELSE r.align)
        pitch == RoundedUp(width, use)
    IN  CASE width = 0 /\ rows = 0 -> RectDeallocated(r)
          [] width # rows /\ (width = 0 \/ rows = 0) -> r
          [] OTHER ->
               IF \/ pitch * rows > MaxBytes \/ ~ok
                  \/ IsUnchanged(r, width, rows, align)
               THEN r
               ELSE [cells |-> MovedBytes(r, pitch, width, rows, zero),
                     pitch |-> pitch, width |-> width, rows |-> rows, align |-> use]

\* allocate() clears what reallocate() has kept, or leaves it.
Cleared(r) == [r EXCEPT !.cells = [i \in DOMAIN @ |-> 0]]

RectAllocated(r, width, rows, align, zero, ok) ==
    LET a == RectReallocated(r, width, rows, align, FALSE, ok)
    IN  IF zero /\ (a # r \/ IsUnchanged(r, width, rows, align)) THEN Cleared(a) ELSE a

\* A view of a part: its first byte, and the shape; {} where it is refused.
Subview(view, x, y, width, rows) ==
    IF width # 0 /\ rows # 0 /\ x + width <= view.width /\ y + rows <= view.rows
    THEN {[data |-> view.data + x + y * view.pitch, pitch |-> view.pitch, width |-> width, rows |-> rows]}
    ELSE {}

View(r) == IF r.cells = <<>> THEN {} ELSE {[data |-> 0, pitch |-> r.pitch, width |-> r.width, rows |-> r.rows]}
Subviews(view) == UNION {Subview(view, x, y, w, h) : x, w \in 0 .. view.width, y, h \in 0 .. view.rows}
SpanBytes(view) == view.width + view.pitch * (view.rows - 1)

\* construct_and_copy_from() of a view of r's bytes.
RectCopiedFrom(r, view, align, ok) ==
    LET pitch == RoundedUp(view.width, align)
        Byte(y, x) == IF x < view.width THEN r.cells[1 + view.data + y * view.pitch + x] ELSE 0
    IN  IF ~ok \/ pitch * view.rows > MaxBytes THEN r
        ELSE [cells |-> Block(pitch, view.rows, Byte), pitch |-> pitch, width |-> view.width,
              rows |-> view.rows, align |-> align]

\* zero_fill() leaves the padding of the rows.
RectZeroFilled(r) == [r EXCEPT !.cells = [i \in DOMAIN @ |-> IF (i - 1) % r.pitch < r.width THEN 0 ELSE @[i]]]

\* The owner fills in the image; each byte of it is told from the others.
Filled(r) ==
    [r EXCEPT !.cells = [i \in DOMAIN @ |-> IF (i - 1) % r.pitch < r.width THEN i ELSE @[i]]]

Reshaped(ok) ==
    UNION {UNION {{RectReallocated(rect, w, h, a, z, ok), RectAllocated(rect, w, h, a, z, ok)} : w \in 0 .. MaxWidth, h \in 0 .. MaxRows} :
             a \in Aligns, z \in BOOLEAN}
-----------------------------------------------------------------------------
(* The operations.                                                           *)

Changed(ok) ==
    {Allocated(buffer, n, a, ok) : n \in 0 .. SizeCeiling + 1, a \in Aligns}
    \cup UNION {{Resized(buffer, n, a, ok), EnsuredFree(buffer, n, a, ok)} : n \in 0 .. SizeCeiling, a \in Aligns}
    \cup {Appended(buffer, s, ok) : s \in Texts}
    \cup {AppendedUninit(buffer, 1, ok), ShrunkToFit(buffer, ok), ZeroFilled(buffer), Deallocated(buffer)}
    \cup {SetSize(buffer, n) : n \in 0 .. SizeCeiling}
    \cup {CopiedFrom(buffer, s, 2, ok) : s \in Texts \cup {<<>>}}

BufferNext == \E ok \in BOOLEAN : buffer' \in Changed(ok)

RectNext ==
    \/ \E ok \in BOOLEAN : rect' \in Reshaped(ok)
    \/ rect' \in {RectZeroFilled(rect), Filled(rect), RectDeallocated(rect)}
    \/ \E v \in View(rect) : \E w \in Subviews(v) : rect' = RectCopiedFrom(rect, w, 2, TRUE)

Next ==
    \/ rect = NoRect /\ BufferNext /\ UNCHANGED rect
    \/ buffer = NoBuffer /\ RectNext /\ UNCHANGED buffer

Spec == Init /\ [][Next]_vars
-----------------------------------------------------------------------------
(* Properties.                                                               *)

(* In every state of the block, stale spare bytes included: what a resize makes
   part of the contents is zero and what it keeps is unchanged, whether or not
   the block moves; the alignment is what was asked for or better; and a
   successful ensure_free() leaves that much room, which an append then uses
   without an allocation. *)
BufferIsSequence ==
    LET s == Contents(buffer)
    IN  /\ buffer.size <= Capacity(buffer) /\ Capacity(buffer) <= SizeCeiling
        /\ \A size \in 0 .. SizeCeiling : \A a \in Aligns :
             LET r == Resized(buffer, size, a, TRUE)
                 e == EnsuredFree(buffer, size, a, TRUE)
             IN  /\ Contents(r) = SubSeq(s \o Zeros(SizeCeiling), 1, size)
                 /\ a # 0 /\ r.cells # <<>> => r.align >= ReducedAlign(a)
                 /\ Contents(e) = s
                 /\ size <= SizeCeiling - buffer.size => Capacity(e) - e.size >= size
        /\ \A text \in Texts :
             /\ Contents(Appended(buffer, text, FALSE)) \in {s, s \o text}
             /\ Len(s \o text) <= SizeCeiling =>
                  /\ Contents(Appended(buffer, text, TRUE)) = s \o text
                  /\ Contents(Appended(EnsuredFree(buffer, Len(text), 0, TRUE), text, FALSE)) = s \o text
        /\ Contents(ShrunkToFit(buffer, TRUE)) = s /\ Capacity(ShrunkToFit(buffer, TRUE)) = Len(s)

Bytes(r, view) ==
    [y \in 0 .. view.rows - 1 |-> [x \in 0 .. view.width - 1 |-> r.cells[1 + view.data + y * view.pitch + x]]]

(* Whatever shape a buffer had, changing it keeps the overlap of every
   preserved row and column, clears all else that it was asked to clear, the
   padding of every row included, and gives rows the alignment asked for; a
   copy of any part has exactly the bytes of that part. *)
RowsAreKept ==
    /\ rect.pitch * rect.rows = Len(rect.cells) /\ Len(rect.cells) <= MaxBytes /\ rect.width <= rect.pitch
    /\ \A w \in 1 .. MaxWidth, h \in 1 .. MaxRows, a \in Aligns :
         LET r == RectReallocated(rect, w, h, a, TRUE, TRUE)
         IN  /\ r # rect \/ IsUnchanged(rect, w, h, a) \/ RoundedUp(w, ReducedAlign(IF a = 0 THEN rect.align ELSE a)) * h > MaxBytes
             /\ r # rect =>
               /\ r.pitch % (IF a = 0 THEN rect.align ELSE ReducedAlign(a)) = 0
               /\ \A y \in 0 .. h - 1, x \in 0 .. r.pitch - 1 :
                    At(r, y, x) = IF y < rect.rows /\ x < rect.width /\ x < w THEN At(rect, y, x) ELSE 0
    /\ \A v \in View(rect) : \A s \in Subviews(v) :
         /\ s.data + SpanBytes(s) <= Len(rect.cells)
         /\ LET c == RectCopiedFrom(rect, s, 2, TRUE)
            IN  c # rect => \A whole \in View(c) : Bytes(c, whole) = Bytes(rect, s)
         /\ \A t \in Subviews(s) : t \in Subviews(v)
=============================================================================

-------------------------- MODULE MemoryArithmetic --------------------------
(***************************************************************************)
(* The arithmetic of the memory subsystem.                                 *)
(*                                                                         *)
(* memory_policies.hpp: the capacities that growing containers ask for,    *)
(* and the sizes and alignments that allocations are conditioned to.  The  *)
(* requirement grows step by step.                                         *)
(*                                                                         *)
(* CMemoryView and CMemoryConstView: a range of elements that somebody     *)
(* else owns, with the alignment its storage is claimed to have.  Views    *)
(* are cut from views.                                                     *)
(*                                                                         *)
(* spatial_codes.hpp: the Morton code of a cell interleaves the bits of    *)
(* its coordinates; a Hilbert transform permutes the codes below 4^levels, *)
(* or 8^levels, so that cells next in number are next to one another.  The *)
(* requirement is the code that is looked at.                              *)
(*                                                                         *)
(* system_ids.hpp: ids of types, mount points, modules, threads and        *)
(* systems.  A word of 32 or 64 bits is the set of its bits.               *)
(***************************************************************************)
EXTENDS Integers, SequencesExt

CONSTANTS
    MaxRequired,        \* bound: requirements
    Limits,             \* maximum capacities
    Stepping,           \* the stepping of the capped curve, a power of two
    MinCapacity,        \* the least capacity of the policy
    Ceiling,            \* k_byte_size_ceiling
    WordSize,           \* values of a size_t: sums and masks are modulo it
    Addresses,          \* bound: where storage may begin
    MaxElements,        \* bound: elements of a view
    Strides, Requests,  \* bounds: element sizes and requested alignments
    StorageEnd          \* bound: behind the last address

ShapesAssumption ==
    Addresses \subseteq Nat /\ Strides \subseteq Nat /\ MaxElements \in Nat

VARIABLES
    required, maximum,  \* what a container needs, and may have
    view,               \* data, count, stride and log2 of the alignment
    whole               \* the view that was set last, of which view is a part

policyVars == <<required, maximum>>
viewVars == <<view, whole>>
vars == <<required, maximum, view, whole>>

NoView == [data |-> 0, count |-> 0, stride |-> 0, log |-> 0]

Init ==
    /\ required = 0 /\ maximum \in Limits
    /\ view = NoView /\ whole = NoView
----------------------------------------------------------------------------
(* Policies.                                                                *)

Require == required = 0 /\ required' \in 1 .. MaxRequired /\ UNCHANGED <<maximum, viewVars>>

Least(m, n) == IF m < n THEN m ELSE n
Greatest(m, n) == IF m > n THEN m ELSE n

\* bit_ops::hi_bit_mask()
HiBitMask(n) == IF n = 0 THEN 0 ELSE Max({2 ^ k : k \in {j \in 0 .. 16 : 2 ^ j <= n}})
\* bit_ops::lo_bit_mask()
LoBitMask(n) == IF n = 0 THEN 0 ELSE Max({2 ^ k : k \in {j \in 0 .. 16 : n % (2 ^ j) = 0}})
HasBit(n, b) == b > 0 /\ (n \div b) % 2 = 1

BaseGrowthCurve(n, limit) ==
    LET base  == HiBitMask(n)
        step0 == base \div 2
        low   == n % step0 # 0
        step1 == IF low /\ HasBit(n, step0) THEN 2 * step0 ELSE step0
        half  == IF low THEN step0 \div 2 ELSE step0
        step  == IF HasBit(n, half) THEN 2 * step1 ELSE step1
    IN  CASE limit = 0 \/ n >= limit -> limit
          [] limit > n /\ n < 2 -> Least(2, limit)
          [] OTHER -> IF step >= limit - base THEN limit ELSE base + step

\* A mutant: near the largest word the sum wraps.
BaseSteppedGrowthUnguarded(n, stepping, limit) ==
    LET rounded == (n + stepping + (stepping \div 2) - 1) % WordSize
    IN  IF n >= limit THEN limit ELSE Least(rounded - (rounded % stepping), limit)

BaseSteppedGrowth(n, stepping, limit) ==
    LET offset  == stepping + (stepping \div 2) - 1
        rounded == (n + offset) % WordSize
    IN  IF n >= limit \/ n > WordSize - 1 - offset THEN limit
        ELSE Least(rounded - (rounded % stepping), limit)

CappedGrowthRateCurve(n, stepping, limit) ==
    Least(BaseGrowthCurve(n, limit), BaseSteppedGrowth(n, stepping, limit))

\* vector_growth_policy() and buffer_growth_policy()
GrowthPolicy(n, limit) ==
    Least(Greatest(CappedGrowthRateCurve(n, Stepping, limit), MinCapacity), limit)

DefaultGrowthPolicy(n, limit) == Least(Greatest(BaseGrowthCurve(n, limit), MinCapacity), limit)

\* condition_alignment() for pointers of 4 bytes.
ConditionAlignment(n) == Greatest(Greatest(LoBitMask(n), 1), 4)

ConditionBytes(alignment, n) ==
    LET mask    == alignment - 1
        sum     == (n + mask) % WordSize
        rounded == sum - (sum % alignment)
    IN  IF n = 0 \/ n > Ceiling \/ ConditionAlignment(alignment) # alignment
              \/ n > WordSize - 1 - mask \/ rounded > Ceiling
        THEN 0 ELSE rounded
----------------------------------------------------------------------------
(* Views.                                                                   *)

\* bit_ops::lo_bit_mask(), as a logarithm; of zero, any.
LoBitIndex(n) == Max({k \in 0 .. 8 : n % (2 ^ k) = 0})

ValidShape(data, count, stride) == data # 0 /\ count # 0 /\ stride # 0

\* The alignment asked for, or that of the stride, as far as the address has it.
NormalizedAlignment(data, stride, request) ==
    Min({LoBitIndex(IF request # 0 THEN request ELSE stride), LoBitIndex(data)})

Viewed(data, count, stride, request) ==
    IF ValidShape(data, count, stride)
    THEN [data |-> data, count |-> count, stride |-> stride, log |-> NormalizedAlignment(data, stride, request)]
    ELSE NoView

ContainsRange(v, index, n) == n # 0 /\ index < v.count /\ n <= v.count - index

IndexPtr(v, index) == v.data + index * v.stride

\* subview(), which has the alignment of the view normalised for its address.
Subview(v, index, n) ==
    IF ContainsRange(v, index, n) THEN Viewed(IndexPtr(v, index), n, v.stride, 2 ^ v.log) ELSE NoView

ElementAlignment(v) == 2 ^ Min({v.log, LoBitIndex(v.stride)})

\* head_to() and tail_from() of the views of bytes and of elements.
HeadTo(v, n) == Subview(v, 0, n)
TailFrom(v, offset) == IF offset < v.count THEN Subview(v, offset, v.count - offset) ELSE NoView

\* TPodView::set() over bytes: whole elements, each as aligned as its type needs.
Typed(v, size, align) ==
    LET elements == Viewed(v.data, v.count \div size, size, 2 ^ v.log)
    IN  IF v.stride = 1 /\ v.count % size = 0 /\ elements # NoView /\ ElementAlignment(elements) >= align
        THEN elements ELSE NoView

Set(data, count, stride, request) ==
    /\ data + count * stride <= StorageEnd
    /\ view' = Viewed(data, count, stride, request)
    /\ whole' = view'
    /\ UNCHANGED policyVars

Cut(index, n) ==
    /\ view # NoView
    /\ view' \in {Subview(view, index, n), HeadTo(view, n), TailFrom(view, index)}
    /\ UNCHANGED <<whole, policyVars>>

\* The two parts share nothing: one moves while the other is in its first state.
\* set() does not look at what the view was; bound: a view that is set is only cut.
Next ==
    \/ whole = NoView /\ Require
    \/ /\ required = 0 /\ whole = NoView
       /\ \E d \in Addresses \cup {0}, n \in 0 .. MaxElements, s \in Strides \cup {0}, r \in Requests :
            Set(d, n, s, r)
    \/ required = 0 /\ \E i, n \in 0 .. MaxElements : Cut(i, n)

Spec == Init /\ [][Next]_vars
----------------------------------------------------------------------------
(* Spatial codes.                                                           *)

\* The bitwise operators of C++, of words below 2^31, digit by digit.
Bit(n, k) == (n \div 2^k) % 2
Nibble(bit(_)) == bit(0) + 2 * bit(1) + 4 * bit(2) + 8 * bit(3)
AndDigits == [m, n \in 0 .. 15 |-> Nibble(LAMBDA k : Bit(m, k) * Bit(n, k))]
OrDigits == [m, n \in 0 .. 15 |-> Nibble(LAMBDA k : Greatest(Bit(m, k), Bit(n, k)))]
XorDigits == [m, n \in 0 .. 15 |-> Nibble(LAMBDA k : (Bit(m, k) + Bit(n, k)) % 2)]
DigitByDigit(f, x, y) ==
    LET at(k) == f[(x \div 16^k) % 16, (y \div 16^k) % 16] * 16^k
    IN  at(0) + at(1) + at(2) + at(3) + at(4) + at(5) + at(6) + at(7)
x & y == DigitByDigit(AndDigits, x, y)
x | y == DigitByDigit(OrDigits, x, y)
x ^^ y == DigitByDigit(XorDigits, x, y)

\* Each step copies the word some bits to the left, or to the right, and masks
\* it; no mask has the highest of the 32 bits.
SpreadBits(x, steps) == FoldLeft(LAMBDA w, s : (w | ((w % 2^(31 - s[1])) * 2^s[1])) & s[2], x, steps)
PackBits(x, steps) == FoldLeft(LAMBDA w, s : (w | (w \div 2^s[1])) & s[2], x, steps)

SpreadToEvenBits(x) ==
    SpreadBits(x & \h0000ffff,
           << <<8, \h00ff00ff>>, <<4, \h0f0f0f0f>>, <<2, \h33333333>>, <<1, \h55555555>> >>)
PackFromEvenBits(m) ==
    PackBits(m & \h55555555,
         << <<1, \h33333333>>, <<2, \h0f0f0f0f>>, <<4, \h00ff00ff>>, <<8, \h0000ffff>> >>)
MortonEncode2D(x, y) == SpreadToEvenBits(x) | (SpreadToEvenBits(y) * 2)
MortonDecode2D(m) == <<PackFromEvenBits(m), PackFromEvenBits(m \div 2)>>

SpreadToThirdBits(x) ==
    SpreadBits(x & \h000003ff,
           << <<16, \h030000ff>>, <<8, \h0300f00f>>, <<4, \h030c30c3>>, <<2, \h09249249>> >>)
PackFromThirdBits(m) ==
    PackBits(m & \h09249249,
         << <<2, \h030c30c3>>, <<4, \h0300f00f>>, <<8, \h030000ff>>, <<16, \h000003ff>> >>)
MortonEncode3D(x, y, z) ==
    (SpreadToThirdBits(x) | (SpreadToThirdBits(y) * 2)) | (SpreadToThirdBits(z) * 4)
MortonDecode3D(m) == <<PackFromThirdBits(m), PackFromThirdBits(m \div 2), PackFromThirdBits(m \div 4)>>

\* A code as the sequence of its digits, one per level and the highest first.
Digits(n, base, levels) == [k \in 1 .. levels |-> (n \div base^(levels - k)) % base]
Number(digits, base) == FoldLeft(LAMBDA n, d : base * n + d, 0, digits)

\* remap has the digit of each quadrant at a level, and flips says what the
\* digit of the code changes in it for the levels below.
Transform2D(digits, flips) ==
    LET step(s, d) ==
            LET e == (s.remap \div 4^d) % 4
            IN  [out |-> Append(s.out, e), remap |-> s.remap ^^ flips[d, e]]
    IN  FoldLeft(step, [out |-> <<>>, remap |-> \hb4], digits).out

Flips(hcode) == CASE hcode = 0 -> \h28 [] hcode = 3 -> \h82 [] OTHER -> 0
InverseFlips(hcode) == CASE hcode = 0 -> \hcc [] hcode = 3 -> \h33 [] OTHER -> 0
MortonToHilbert2D(m, levels) ==
    Number(Transform2D(Digits(m, 4, levels), [mcode, hcode \in 0 .. 3 |-> Flips(hcode)]), 4)
HilbertToMorton2D(h, levels) ==
    Number(Transform2D(Digits(h, 4, levels), [hcode, mcode \in 0 .. 3 |-> InverseFlips(hcode)]), 4)

\* The levels that the _auto functions find: an even number.
Above(n, bits, more) == IF n >= 2^(bits + more) THEN bits + more ELSE bits
Levels2D(n) ==
    LET bits == Above(n, Above(n, Above(n, 0, 16), 8), 4)
    IN  IF n >= 2^(bits + 2) THEN (bits + 8) \div 2 ELSE (bits + 4) \div 2

\* In three dimensions the octants are rotated by shift and reflected by signs,
\* both of which follow from the digit of the code at the level above.
Rotated(octant, shift) == ((octant * 9) \div 2^shift) % 8
Shifts == <<1, 2, 0, 2, 1, 2, 0, 2>>
Signs == <<0, 0, 3, 0, 6, 5, 3, 5>>
GrayEncoded(octant) == octant ^^ (octant \div 2)
GrayDecoded(octant) == LET o == octant ^^ ((octant \div 2) & 2) IN o ^^ ((o & 2) \div 2)

Below(s, hcode, direction) ==
    [s EXCEPT !.shift = (@ + direction * Shifts[hcode + 1]) % 3,
              !.signs = Rotated(@, Shifts[hcode + 1]) ^^ Signs[hcode + 1]]
Start3D(first) == [out |-> <<first>>, shift |-> 0, signs |-> 0]

MortonToHilbert3D(m, levels) ==
    LET digits == Digits(m, 8, levels)
        step(s, mcode) ==
            LET t == Below(s, Last(s.out), 1)
            IN  [t EXCEPT !.out = Append(@, Rotated(mcode, t.shift) ^^ t.signs)]
        turned == FoldLeft(step, Start3D(digits[1]), Tail(digits)).out
    IN  Number([k \in DOMAIN turned |-> GrayDecoded(turned[k])], 8)

HilbertToMorton3D(h, levels) ==
    LET digits == [k \in 1 .. levels |-> GrayEncoded(Digits(h, 8, levels)[k])]
        step(s, k) ==
            LET t == Below(s, digits[k], -1)
            IN  [t EXCEPT !.out = Append(@, Rotated(digits[k + 1] ^^ t.signs, t.shift))]
    IN  Number(FoldLeft(step, Start3D(digits[1]), [k \in 1 .. levels - 1 |-> k]).out, 8)

\* The levels that the _auto functions find: a multiple of three, from the place
\* of the highest bit.
Levels3D(n) ==
    LET bits == Above(n, Above(n, Above(n, Above(n, Above(n, 0, 16), 8), 4), 2), 1)
    IN  3 * ((bits + 8) \div 9)
----------------------------------------------------------------------------
(* Ids.  An index is kept as the complement of its bits, so that no id is zero, *)
(* on every other bit of the word, from the first bit of its field on.          *)

Bits(n) == {k \in 0 .. 30 : Bit(n, k) = 1}
NoId == {}
NoIndex == 0 .. 63

\* spread_to_even_bits(word) << shift, and pack_from_even_bits(word >> shift)
Spread(word, shift) == {2 * k + shift : k \in word}
Packed(word, shift) == {k \in 0 .. 31 : 2 * k + shift \in word}

Field(width, offset) == [width |-> width, offset |-> offset]
Thread == Field(16, 0)
MountPoint == Field(6, 16)
Module == Field(10, 22)

Payload(f) == 0 .. f.width - 1
EvenMask(f) == Spread(Payload(f), 2 * f.offset)

\* Below k_payload_mask, which has all bits of the payload.
IsValidIndex(f, index) == index # NoIndex /\ index \subseteq Payload(f) /\ index # Payload(f)
MakeIndex(f, value) == IF IsValidIndex(f, value) THEN value ELSE NoIndex

IsValidId(f, id) == id # NoId /\ id \subseteq EvenMask(f)
MakeId(f, index) ==
    IF IsValidIndex(f, index) THEN Spread(Payload(f) \ index, 2 * f.offset) ELSE NoId
GetIndex(f, id) ==
    IF IsValidId(f, id) THEN Payload(f) \ Packed(id, 2 * f.offset) ELSE NoIndex

IsModuleId(id) ==
    /\ id # NoId /\ id \subseteq EvenMask(MountPoint) \cup EvenMask(Module)
    /\ \A f \in {MountPoint, Module} : id \cap EvenMask(f) # {}
MakeModuleId(mountPoint, index) ==
    IF IsValidId(MountPoint, mountPoint) /\ IsValidIndex(Module, index)
    THEN mountPoint \cup Spread(Payload(Module) \ index, 2 * Module.offset) ELSE NoId
ModuleIndex(id) ==
    IF IsModuleId(id) THEN Payload(Module) \ Packed(id, 2 * Module.offset) ELSE NoIndex
MountPointId(id) == IF IsModuleId(id) THEN id \cap EvenMask(MountPoint) ELSE NoId
MountPointIndex(id) == GetIndex(MountPoint, MountPointId(id))

\* An id of a module or of a mount point: which bits it has is not looked at.
IsSystemId(id) ==
    LET module == EvenMask(MountPoint) \cup EvenMask(Module)
    IN  /\ id # NoId /\ id \subseteq module \cup EvenMask(Thread)
        /\ id \cap module # {} /\ id \cap EvenMask(Thread) # {}
MakeSystemId(module, thread) ==
    IF IsModuleId(module) /\ IsValidId(Thread, thread) THEN module \cup thread ELSE NoId
ModuleId(id) ==
    IF IsSystemId(id) THEN id \cap (EvenMask(MountPoint) \cup EvenMask(Module)) ELSE NoId
ThreadId(id) == IF IsSystemId(id) THEN id \cap EvenMask(Thread) ELSE NoId
SystemMountPointId(id) == MountPointId(ModuleId(id))
SystemMountPointIndex(id) == MountPointIndex(ModuleId(id))

\* A type is of one of two categories: a bit of its index, and another of its id.
Categories == {"system", "local"}
CategoryBit(category) == IF category = "system" THEN {15} ELSE {}
TypeFlag(category) == IF category = "system" THEN {30} ELSE {}
OrdinalMask == 0 .. 14
TypeMask == Spread(OrdinalMask, 0)
NoTypeIndex == 0 .. 15

IsTypeIndex(category, index) ==
    /\ index \subseteq 0 .. 15 /\ index \cap {15} = CategoryBit(category)
    /\ index \cap OrdinalMask # OrdinalMask
EncodeIndex(category, value) ==
    IF value \subseteq OrdinalMask /\ value # OrdinalMask
    THEN value \cup CategoryBit(category) ELSE NoTypeIndex
DecodeIndex(category, index) ==
    IF IsTypeIndex(category, index) THEN index \cap OrdinalMask ELSE NoTypeIndex

IsTypeId(category, id) ==
    /\ id # NoId /\ id \subseteq TypeMask \cup {30}
    /\ id \cap {30} = TypeFlag(category) /\ id \cap TypeMask # {}
EncodeId(category, index) ==
    IF IsTypeIndex(category, index)
    THEN Spread(OrdinalMask \ DecodeIndex(category, index), 0) \cup TypeFlag(category) ELSE NoId
DecodeId(category, id) ==
    IF IsTypeId(category, id)
    THEN EncodeIndex(category, OrdinalMask \ Packed(id \cap TypeMask, 0)) ELSE NoTypeIndex

\* type_id of a system_type_id or a local_type_id, its category, and back.
TypeId(category, id) == IF IsTypeId(category, id) THEN id ELSE NoId
Category(id) ==
    IF IsTypeId("system", id) THEN "system" ELSE IF IsTypeId("local", id) THEN "local" ELSE "undefined"
TryTypeId(category, id) == IF Category(id) = category THEN id ELSE NoId
----------------------------------------------------------------------------
(* Properties.                                                              *)

Classes == {2 ^ k : k \in 1 .. 16} \cup {3 * 2 ^ k : k \in 0 .. 15}

(* A container that needs n elements is offered more than n, unless the limit
   stops it, from a curve of classes that never goes down, never exceeds the
   limit, at most doubles what is needed, and once it is capped grows
   by no more than the stepping; also where the limit is the largest word, next
   to which a sum would wrap. *)
GrowthIsEnough ==
    LET n == required
        base == BaseGrowthCurve(n, maximum)
        grown == GrowthPolicy(n, maximum)
    IN  /\ base > n \/ (base = maximum /\ n >= maximum)
        /\ base \in Classes \cup {maximum}
        /\ n >= 2 => base <= Greatest(n, Least(2 * n, maximum))
        /\ base <= BaseGrowthCurve(n + 1, maximum)
        /\ grown <= maximum /\ (grown > n \/ grown = maximum)
        /\ grown <= GrowthPolicy(n + 1, maximum)
        /\ grown - n <= Greatest(MinCapacity, (3 * Stepping) \div 2)
        /\ DefaultGrowthPolicy(n, maximum) >= grown
        /\ \A a \in {1, 4, 8, 16} :
             LET c == ConditionBytes(ConditionAlignment(a), n)
             IN  /\ c % 4 = 0
                 /\ c = 0 <=> n = 0 \/ \A m \in n .. Ceiling : m % ConditionAlignment(a) # 0
                 /\ c # 0 => c >= n /\ c - n < ConditionAlignment(a)

(* However often a view is cut, it lies within the view it comes from, on an
   element of it, and both its storage and each of its elements really have the
   alignment it claims, which is never more than what a single cut would claim; so have the elements
   of a typed view of its bytes, and there are exactly as many bytes of them. *)
ViewsLieWithin ==
    view # NoView =>
      /\ view.stride = whole.stride
      /\ view.data >= whole.data
      /\ view.data + view.count * view.stride <= whole.data + whole.count * whole.stride
      /\ (view.data - whole.data) % view.stride = 0
ViewsAreAligned ==
    view # NoView =>
      /\ view.data % (2 ^ view.log) = 0
      /\ \A i \in 0 .. view.count - 1 : IndexPtr(view, i) % ElementAlignment(view) = 0
      /\ Subview(whole, (view.data - whole.data) \div view.stride, view.count).log >= view.log
      /\ \A size \in {2, 4}, align \in {1, 2, 4} :
           LET t == Typed(view, size, align)
           IN  t # NoView => /\ t.count * size = view.count
                             /\ \A i \in 0 .. t.count - 1 : IndexPtr(t, i) % align = 0

ViewsAreParts == ViewsLieWithin /\ ViewsAreAligned

AreNeighbours(p, q) ==
    \E i \in DOMAIN p : p[i] - q[i] \in {-1, 1} /\ \A j \in DOMAIN p \ {i} : p[j] = q[j]

(* Every Hilbert code is that of one cell, at each number of levels, and the
   cell of the next code is its neighbour; the levels that the _auto functions
   find continue one curve, and give each code back.  Interleaving is undone by
   the decoders, and goes on when all coordinates are shifted. *)
CodesFollowCurves ==
    LET h == required
        plane(n, levels) == MortonDecode2D(HilbertToMorton2D(n, levels))
        space(n, levels) == MortonDecode3D(HilbertToMorton3D(n, levels))
        auto == HilbertToMorton2D(h, Levels2D(h))
    IN  /\ \A levels \in 1 .. 4 : h < 4^levels =>
             /\ MortonToHilbert2D(HilbertToMorton2D(h, levels), levels) = h
             /\ h > 0 => AreNeighbours(plane(h, levels), plane(h - 1, levels))
        /\ \A levels \in 1 .. 3 : h < 8^levels =>
             /\ MortonToHilbert3D(HilbertToMorton3D(h, levels), levels) = h
             /\ h > 0 => AreNeighbours(space(h, levels), space(h - 1, levels))
        /\ MortonToHilbert2D(auto, Levels2D(auto)) = h
        /\ h > 0 => AreNeighbours(plane(h, Levels2D(h)), plane(h - 1, Levels2D(h - 1)))
        /\ h > 2 => AreNeighbours(space(h, Levels3D(h)), space(h - 1, Levels3D(h - 1)))
        /\ LET x == 64 * h + 5
               y == 32767 - x
           IN  MortonDecode2D(MortonEncode2D(x, y)) = <<x, y>>
        /\ LET x == h + 100
               y == 1023 - x
           IN  MortonDecode3D(MortonEncode3D(x, y, h)) = <<x, y, h>>

(* Every index a field can have is got back from its id, and every id that is
   taken for valid is that of an index; an index that does not fit has no id.
   What a system id is made of can be taken from it, and a type id is of the
   category it was made for.  Indices are taken from both ends of their range. *)
IdsAreExact ==
    LET n == required
        near(width) == {Bits(n), Bits((2^width - 1 + MaxRequired - n) % 2^width)}
        fits(i, width) == i \subseteq 0 .. width - 1 /\ i # 0 .. width - 1
        \* Indices, some of which do not fit, and ids that nobody made.
        exact(f) ==
          \A word \in near(f.width) :
            LET i  == MakeIndex(f, word)
                id == Spread(word, 2 * f.offset)
            IN  /\ fits(word, f.width) => i = word /\ IsValidId(f, MakeId(f, i)) /\ GetIndex(f, MakeId(f, i)) = i
                /\ ~fits(word, f.width) => MakeId(f, i) = NoId /\ MakeId(f, word) = NoId
                /\ IsValidId(f, id) => MakeId(f, GetIndex(f, id)) = id
    IN  /\ Bits(SpreadToEvenBits(257 * n)) = Spread(Bits(257 * n), 0)
        /\ \A f \in {Thread, MountPoint, Module} : exact(f)
        /\ \A p \in near(6), m \in near(10), t \in near(16) :
             fits(p, 6) /\ fits(m, 10) /\ fits(t, 16) =>
               LET module == MakeModuleId(MakeId(MountPoint, p), m)
                   id     == MakeSystemId(module, MakeId(Thread, t))
               IN  /\ IsSystemId(id) /\ ModuleId(id) = module /\ ThreadId(id) = MakeId(Thread, t)
                   /\ ModuleIndex(module) = m /\ SystemMountPointIndex(id) = p
        /\ \A category \in Categories, word \in near(15) :
             LET index == EncodeIndex(category, word)
                 id    == EncodeId(category, index)
                 foreign == Spread(word, 0) \cup TypeFlag(category)
             IN  /\ fits(word, 15) => /\ DecodeIndex(category, index) = word
                                      /\ DecodeId(category, id) = index
                                      /\ Category(TypeId(category, id)) = category
                 /\ ~fits(word, 15) => id = NoId
                 /\ IsTypeId(category, foreign) => EncodeId(category, DecodeId(category, foreign)) = foreign
                 /\ \A other \in Categories \ {category} : TryTypeId(other, id) = NoId

(* "levels: 1u..16u (auto infers levels)" and "1u..10u" (spatial_codes.hpp:78
   and 88): the levels that are found have digits for the whole code, and are
   in the range.  They are not: for 1, and for codes of 10, 19 and 28 bits in
   space, they are too few; for longer ones, and for those of more than 30 bits
   in the plane, the first shift is by more than a word. *)
AutoInfersLevels ==
    \A n \in {required, 2^29 + required} :
        /\ n > 0 => Levels3D(n) \in 1 .. 10 /\ n < 8^Levels3D(n)
        /\ Levels2D(n) \in 1 .. 16
=============================================================================

-------------------------------- MODULE SArray --------------------------------
(***************************************************************************)
(* SArray of base/sarray.h: arrays that share memory.  A copy, a segment   *)
(* and a cast to another element type point into the memory of the array   *)
(* they are made from; an operation that finds too little capacity moves   *)
(* its array to memory of its own.  Memory is a sequence of units, the     *)
(* greatest common size of the element types, and goes when its last owner *)
(* does.  An array that wraps a raw pointer does not own what it points to.*)
(* Undefined behaviour is recorded in fault and ends the model.            *)
(***************************************************************************)
EXTENDS Integers, FiniteSets, Sequences, Folds

CONSTANTS Arrays,      \* the SArray objects, 1 to their number
          Widths,      \* sizes of element types, in units
          Spare,       \* elements that resize allocates and does not use: 5
          GrowBy,      \* the constant in push_back's 2 * size + GrowBy: 5
          Values,      \* values of elements
          MaxSize,     \* bound: the size of an array
          MaxCapacity, \* bound: the capacity that reserve asks for
          MaxMemory    \* bound: the units of memory in use

ASSUME SArrayAssumption == /\ IsFiniteSet(Arrays) /\ Arrays = 1..Cardinality(Arrays)
                           /\ Widths \subseteq Nat \ {0}
                           /\ {Spare, MaxSize, MaxCapacity, MaxMemory} \subseteq Nat
                           /\ GrowBy \in Nat \ {0}
                           /\ Values \subseteq Nat /\ 0 \in Values

VARIABLES width,    \* sizeof(V) of each array, which never changes
          objects,  \* ptr_ (block, offset, ownership), size_ and capacity_ of each array
          heap,     \* the units of each block of memory
          region,   \* history: the units of its block an array was given
          fault,    \* "none", or what has gone wrong
          call      \* history: the array of the last operation, and the elements it should
                    \* have; if it failed, the array that was its argument

vars == <<width, objects, heap, region, fault, call>>

\* A block of memory is known by one of the arrays that point to it, always
\* the same one of the same arrays, and as NewBlock while it is allocated.
NoBlock == 0
NewBlock == Cardinality(Arrays) + 1
Gone == Cardinality(Arrays) + 2   \* memory that has been freed
Blocks == {NoBlock, NewBlock, Gone} \cup Arrays

Garbage == -1   \* an uninitialised unit
None == 0       \* no array

Nothing == [block |-> NoBlock, offset |-> 0, owns |-> TRUE, size |-> 0, capacity |-> 0]

\* The values s as elements of a in memory, little end first.
Units(a, s) == [i \in 1..(Len(s) * width[a]) |->
                   IF (i - 1) % width[a] = 0 THEN s[(i - 1) \div width[a] + 1] ELSE 0]

\* n elements of a from element i on.
Slice(a, i, n) == LET o == objects[a]
                  IN SubSeq(heap[o.block], o.offset + i * width[a] + 1, o.offset + (i + n) * width[a])
Dangling(a) == objects[a].block = Gone

\* The elements of a: [data(), data() + size()).
View(a) == IF Dangling(a) THEN <<>> ELSE Slice(a, 0, objects[a].size)

\* Where the elements first to last - 1 of a lie in its block.
Span(a, first, last) == {objects[a].offset + i : i \in (first * width[a] + 1)..(last * width[a])}

SameBlock(a, b) == objects[a].block = objects[b].block /\ objects[a].block \in Arrays

\* The units h with the units s at position p, from 0 on.
Write(h, p, s) == [i \in DOMAIN h |-> IF i \in (p + 1)..(p + Len(s)) THEN s[i - p] ELSE h[i]]

\* The arrays of objs that point into block b, whether one of them owns it,
\* the array it is known by, and the units that are elements of an array.
Pointers(objs, b) == {x \in Arrays : objs[x].block = b}
Lives(objs, b) == \E x \in Pointers(objs, b) : objs[x].owns
Name(objs, b) == CHOOSE x \in Pointers(objs, b) : TRUE
Elements(objs, b) ==
    UNION {(objs[x].offset + 1)..(objs[x].offset + objs[x].size * width[x]) : x \in Pointers(objs, b)}

\* The arrays become objs, with the memory h and the regions r.  Memory goes
\* with its last owner.  Units that no array has as an element are taken to be
\* indeterminate.
Arrange(objs, h, r) ==
    /\ objects' = [x \in Arrays |->
                     IF objs[x].block \in {NoBlock, Gone} THEN objs[x]
                     ELSE IF Lives(objs, objs[x].block) THEN [objs[x] EXCEPT !.block = Name(objs, @)]
                     ELSE [objs[x] EXCEPT !.block = Gone, !.offset = 0]]
    /\ heap' = [b \in Blocks |->
                  IF b \in Arrays /\ objects'[b].block = b
                  THEN LET old == objs[b].block
                       IN [i \in DOMAIN h[old] |->
                             IF i \in Elements(objs, old) THEN h[old][i] ELSE Garbage]
                  ELSE <<>>]
    /\ region' = [x \in Arrays |-> IF objects'[x].block = Gone THEN {} ELSE r[x]]

\* Array a becomes o, which was given the units r of the memory h[o.block].
Become(a, o, h, r) == Arrange([objects EXCEPT ![a] = o], h, [region EXCEPT ![a] = r])

\* Nothing is known of the program after undefined behaviour.
Fails(what) ==
    /\ fault' = what
    /\ objects' = [a \in Arrays |-> Nothing]
    /\ heap' = [b \in Blocks |-> <<>>]
    /\ region' = [a \in Arrays |-> {}]

------------------------------------------------------------------------------
SArrayInit ==
    /\ width \in [Arrays -> Widths]
    /\ objects = [a \in Arrays |-> Nothing]
    /\ heap = [b \in Blocks |-> <<>>]
    /\ region = [a \in Arrays |-> {}]
    /\ fault = "none"
    /\ call \in [on : Arrays, with : {None}, want : {<<>>}]

\* reset() with new memory, for size elements and what is behind them.
Reset(size) == [block |-> NewBlock, offset |-> 0, owns |-> TRUE, size |-> size, capacity |-> size]

\* What resize(size, val) makes of a and of the memory it points to.
Resized(a, size, val) ==
    LET o == objects[a]
        fill == IF size <= o.size THEN <<>> ELSE Units(a, [i \in 1..(size - o.size) |-> val])
    IN IF o.capacity >= size
       THEN [object |-> [o EXCEPT !.size = size],
             memory |-> Write(heap[o.block], o.offset + o.size * width[a], fill)]
       ELSE [object |-> Reset(size),
             memory |-> View(a) \o fill \o [i \in 1..(Spare * width[a]) |-> Garbage]]

\* Mutant: resize resets ptr_ before it copies from the old memory.
UsesFreedEarly(a, size) ==
    /\ objects[a].size > 0 /\ size > objects[a].capacity
    /\ \A x \in Arrays \ {a} : ~(SameBlock(a, x) /\ objects[x].owns)

\* resize(size) reads or writes memory of a that is gone.
UsesFreed(a, size) ==
    /\ Dangling(a)
    /\ IF size > objects[a].capacity THEN objects[a].size > 0 ELSE size > objects[a].size

\* The memory of a goes when a gives it up, as resize(size) does when it
\* needs more.
LastOwner(a) == /\ objects[a].owns
                /\ \A x \in Arrays \ {a} : ~(SameBlock(a, x) /\ objects[x].owns)
Frees(a, size) == size > objects[a].capacity /\ LastOwner(a)

\* a goes on as object o with the units mem in its memory.
Continue(a, o, mem) ==
    /\ Become(a, o, [heap EXCEPT ![o.block] = mem],
              IF o.block = objects[a].block THEN region[a] ELSE 1..Len(mem))
    /\ UNCHANGED fault

Resize(a, size, val) ==
    IF UsesFreed(a, size) THEN Fails("use after free")
    ELSE LET r == Resized(a, size, val) IN Continue(a, r.object, r.memory)

\* Mutant: size_ is not set back.
ReserveGrows(a, size) == objects[a].capacity < size /\ Resize(a, size, 0)

\* Elements up to size are set to 0, and size_ is set back.
Reserve(a, size) ==
    /\ objects[a].capacity < size
    /\ IF UsesFreed(a, size) THEN Fails("use after free")
       ELSE LET r == Resized(a, size, 0)
            IN Continue(a, [r.object EXCEPT !.size = objects[a].size], r.memory)

\* The capacity for which push_back makes room.
Needed(a) == IF objects[a].size = objects[a].capacity THEN objects[a].size * 2 + GrowBy
             ELSE objects[a].size + 1

\* One more element, with the units s.
PushUnits(a, s) ==
    LET r == Resized(a, Needed(a), 0)
    IN Continue(a, [r.object EXCEPT !.size = objects[a].size + 1],
                Write(r.memory, r.object.offset + objects[a].size * width[a], s))

PushBack(a, val) == IF UsesFreed(a, Needed(a)) THEN Fails("use after free")
                    ELSE PushUnits(a, Units(a, <<val>>))

\* push_back(b[i]): val is a reference, and is read when a has moved.
PushBackElement(a, b, i) ==
    /\ width[a] = width[b] /\ i < objects[b].size
    /\ IF \/ UsesFreed(a, Needed(a)) \/ Dangling(b)
          \/ SameBlock(a, b) /\ Frees(a, Needed(a))
       THEN Fails("use after free")
       ELSE PushUnits(a, Slice(b, i, 1))

PopBack(a) ==
    /\ objects[a].size > 0
    /\ Become(a, [objects[a] EXCEPT !.size = @ - 1], heap, region[a])
    /\ UNCHANGED fault

\* resize(to), then memcpy of n elements of b, from element i on, to element
\* at of a.
CopyElements(a, to, at, b, i, n) ==
    LET r == Resized(a, to, 0)
        inPlace == to <= objects[a].capacity
    IN IF \/ UsesFreed(a, to)
          \/ n > 0 /\ \/ Dangling(b)
                      \/ inPlace /\ Dangling(a)
                      \/ SameBlock(a, b) /\ Frees(a, to)
       THEN Fails("use after free")
       ELSE IF inPlace /\ SameBlock(a, b) /\ Span(a, at, at + n) \cap Span(b, i, i + n) # {}
       THEN Fails("overlapping memcpy")
       ELSE Continue(a, r.object, Write(r.memory, r.object.offset + at * width[a], Slice(b, i, n)))

\* append(arr).  If arr is the array itself, arr.size() has grown when it is
\* read for the memcpy, whose source then reaches into its destination.
AppendArray(a, b) ==
    /\ width[a] = width[b] /\ objects[b].size > 0
    /\ IF a = b THEN Fails(IF Dangling(a) THEN "use after free" ELSE "overlapping memcpy")
       ELSE CopyElements(a, objects[a].size + objects[b].size, objects[a].size, b, 0, objects[b].size)

\* CopyFrom(data, size): s is memory of the caller's, such as a std::vector.
CopyFromCaller(a, s) ==
    LET r == Resized(a, Len(s), 0)
    IN IF Dangling(a) /\ s # <<>> /\ (objects[a].size > 0 \/ Len(s) <= objects[a].capacity)
       THEN Fails("use after free")
       ELSE Continue(a, r.object, Write(r.memory, r.object.offset, Units(a, s)))

\* CopyFrom(&b[i], n), where b may be a or share its memory: the pointer is
\* read after the resize.
CopyFromPointer(a, b, i, n) ==
    /\ width[a] = width[b] /\ i + n <= objects[b].size
    /\ CopyElements(a, n, 0, b, i, n)

\* CopyFrom(other)
CopyFrom(a, b) == a # b /\ CopyFromPointer(a, b, 0, objects[b].size)

\* Elements of the caller's, in memory that is just large enough for them:
\* an iterator range, a list, a shared std::vector, or new[] memory.
CopyFromRange(a, s) == Continue(a, Reset(Len(s)), Units(a, s))

\* CopyFrom(b.begin() + i, b.begin() + i + n): the iterators are read after
\* the reset.
CopyFromIterators(a, b, i, n) ==
    /\ width[a] = width[b] /\ i + n <= objects[b].size
    /\ IF n > 0 /\ Dangling(b) THEN Fails("use after free")
       ELSE IF n > 0 /\ SameBlock(a, b) /\ LastOwner(a) THEN Fails("use after reset")
       ELSE Continue(a, Reset(n), Slice(b, i, n))

\* Mutant: the capacity is not converted.
AssignUnscaled(a, b) ==
    LET units == objects[b].size * width[b]
        size == units \div width[a]
    IN /\ a # b /\ size * width[a] = units
       /\ Become(a, [objects[b] EXCEPT !.size = size], heap, region[b])
       /\ UNCHANGED fault

\* Assignment and construction from an array, perhaps of another element
\* type.
Assign(a, b) ==
    LET o == objects[b]
        units == o.size * width[b]
        size == units \div width[a]
    IN /\ a # b
       /\ IF size * width[a] # units
          THEN Fails("check failed")
          ELSE /\ Become(a, [o EXCEPT !.size = size, !.capacity = (@ * width[b]) \div width[a]],
                         heap, region[b])
               /\ UNCHANGED fault

\* SArray(&b[i], size), which does not own the memory.
Wrap(a, b, i, size) ==
    /\ width[a] = width[b] /\ a # b
    /\ Become(a, [block |-> objects[b].block, offset |-> objects[b].offset + i * width[b],
                  owns |-> FALSE, size |-> size, capacity |-> size],
              heap, Span(b, i, i + size))
    /\ UNCHANGED fault

\* Mutant: the segment has the capacity of the array.
SegmentKeepsCapacity(a, b, begin, end) ==
    /\ width[a] = width[b]
    /\ Become(a, [objects[b] EXCEPT !.offset = @ + begin * width[b], !.size = end - begin],
              heap, Span(b, begin, end))
    /\ UNCHANGED fault

\* a = b.segment(begin, end)
Segment(a, b, begin, end) ==
    /\ width[a] = width[b]
    /\ Become(a, [objects[b] EXCEPT !.offset = @ + begin * width[b], !.size = end - begin,
                                    !.capacity = end - begin],
              heap, Span(b, begin, end))
    /\ UNCHANGED fault

\* a[i] = val
SetElement(a, i, val) ==
    /\ i < objects[a].size
    /\ IF Dangling(a) THEN Fails("use after free")
       ELSE Continue(a, objects[a], Write(heap[objects[a].block], objects[a].offset + i * width[a],
                                          Units(a, <<val>>)))

\* clear(), and the destructor.
Clear(a) == Become(a, Nothing, heap, {}) /\ UNCHANGED fault

SumMemory(h) == MapThenFoldSet(+, 0, LAMBDA b : Len(h[b]), LAMBDA S : CHOOSE b \in S : TRUE, Blocks)

\* The sizes an array may have within the bound.
Sizes(a) == 0..(MaxSize \div width[a])

\* The operations that change array a, each with the elements that a
\* std::vector would have after it; a cast keeps the units.  The caller of
\* segment and of the constructor from a raw pointer names elements it has.
Expect(a, b, elements) ==
    call' = [on |-> a, with |-> IF fault' = "none" THEN None ELSE b,
             want |-> IF fault' = "none" /\ ~(Dangling(a)') THEN elements ELSE <<>>]

Grow(a) ==
    \/ \E size \in Sizes(a), val \in Values :
          /\ Resize(a, size, val)
          /\ Expect(a, None, SubSeq(View(a) \o Units(a, [i \in 1..size |-> val]), 1, size * width[a]))
    \/ \E size \in 1..MaxCapacity : Reserve(a, size) /\ Expect(a, None, View(a))
    \/ /\ objects[a].size + 1 \in Sizes(a)
       /\ \/ \E val \in Values : PushBack(a, val) /\ Expect(a, None, View(a) \o Units(a, <<val>>))
          \/ \E b \in Arrays : \E i \in 0..(objects[b].size - 1) :
                /\ PushBackElement(a, b, i)
                /\ Expect(a, b, View(a) \o Slice(b, i, 1))
    \/ \E b \in Arrays : /\ objects[a].size + objects[b].size \in Sizes(a)
                         /\ AppendArray(a, b) /\ Expect(a, b, View(a) \o View(b))
Copy(a) ==
    \/ \E b \in Arrays : CopyFrom(a, b) /\ Expect(a, b, View(b))
    \/ \E n \in Sizes(a) : \E s \in [1..n -> Values] :
          (CopyFromRange(a, s) \/ CopyFromCaller(a, s)) /\ Expect(a, None, Units(a, s))
    \/ \E b \in Arrays : \E end \in 0..objects[b].size : \E begin \in 0..end :
          /\ \/ CopyFromPointer(a, b, begin, end - begin)
             \/ CopyFromIterators(a, b, begin, end - begin)
          /\ Expect(a, b, Slice(b, begin, end - begin))
Share(a) ==
    \/ \E b \in Arrays : Assign(a, b) /\ Expect(a, b, View(b))
    \/ \E b \in Arrays : \E end \in 0..objects[b].size : \E begin \in 0..end :
          /\ Segment(a, b, begin, end) \/ (begin < end /\ Wrap(a, b, begin, end - begin))
          /\ Expect(a, b, Slice(b, begin, end - begin))
Operation(a) ==
    \/ Grow(a) \/ Copy(a) \/ Share(a)
    \/ PopBack(a) /\ Expect(a, None, SubSeq(View(a), 1, (objects[a].size - 1) * width[a]))
    \/ \E i \in 0..(objects[a].size - 1), val \in Values :
          SetElement(a, i, val) /\ Expect(a, None, Write(View(a), i * width[a], Units(a, <<val>>)))
    \/ Clear(a) /\ Expect(a, None, <<>>)

Next ==
    /\ fault = "none"
    /\ \E a \in Arrays : Operation(a)
    /\ SumMemory(heap') <= MaxMemory
    /\ UNCHANGED width

Spec == SArrayInit /\ [][Next]_vars

------------------------------------------------------------------------------
(* No operation can leave the memory of its array: the capacity of every    *)
(* array, counted from data() on, ends inside the memory it points into,    *)
(* whatever casts, segments, wraps and reallocations led to it, and every   *)
(* element it has was written.                                              *)
InBounds ==
    \A a \in Arrays :
        LET o == objects[a]
        IN /\ o.size <= o.capacity
           /\ ~Dangling(a) => /\ o.offset + o.capacity * width[a] <= Len(heap[o.block])
                              /\ \A i \in DOMAIN View(a) : View(a)[i] # Garbage

(* "It provides similar functionalities comparing to std::vector": whatever *)
(* memory an array shares, an operation that does not fail leaves it with   *)
(* the elements std::vector would have, of the values its arguments had     *)
(* before the call.  For resize this is the code and not its comment, "If   *)
(* size <= capacity_, then only change the size": elements gained within    *)
(* the capacity are set to val like all others.                             *)
VectorSemantics == View(call.on) = call.want

(* An operation on one array changes an element of another only in memory   *)
(* that the first was given.  A segment was given the elements from begin   *)
(* to end: it writes to these alone, and moves to memory of its own before  *)
(* it grows into the rest of the array it was cut from.                     *)
NoStrayWrites ==
    [][\A o \in Arrays \ {call'.on} :
          fault' = "none" /\ ~Dangling(o) /\ ~(Dangling(o)') =>
              \A i \in DOMAIN View(o) :
                  View(o)'[i] # View(o)[i] =>
                      SameBlock(call'.on, o) /\ objects[o].offset + i \in region[call'.on]]_vars

(* Memory that is gone is touched only if a raw pointer was wrapped, or by  *)
(* two calls whose argument lies in the array itself, the only owner of its *)
(* memory: push_back of an element of the full array, and CopyFrom of a     *)
(* range of its iterators.  memcpy overlaps only if the argument lies in    *)
(* the memory of the array.  Arrays that own their memory and are copied,   *)
(* cast, cut and destroyed in any order are safe.                           *)
UndefinedOnlyByAliasing ==
    [][LET a == call'.on
           b == call'.with
           full == objects[a].size = objects[a].capacity
           wrapped == \E x \in Arrays : ~objects[x].owns
       IN /\ fault' = "use after free" => (a = b /\ full /\ LastOwner(a)) \/ wrapped
          /\ fault' = "use after reset" => (a = b /\ LastOwner(a)) \/ wrapped
          /\ fault' = "overlapping memcpy" => b # None /\ (a = b \/ SameBlock(a, b))]_vars
=============================================================================

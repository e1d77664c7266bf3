----------------------------- MODULE SArrayProofs -----------------------------
(***************************************************************************)
(* Safety of SArray for any number of arrays, any sizes of their elements, *)
(* any spare room and growth, and any sequence of operations.              *)
(***************************************************************************)
EXTENDS SArray, TLAPS, FiniteSetTheorems, SequenceTheorems

Unit == Nat \cup {Garbage}

Object == [block : Blocks, offset : Nat, owns : BOOLEAN, size : Nat, capacity : Nat]

\* The units of an object o of element size w: n of them from the p-th on,
\* and its elements.
Part(m, p, n) == SubSeq(m, p + 1, p + n)
Contents(o, w, m) == Part(m, o.offset, o.size * w)

\* Object o of element size w lies inside its memory m, and its elements have
\* been written.
Fits(o, w, m) == /\ o.offset + o.capacity * w <= Len(m)
                 /\ \A i \in 1..(o.size * w) : m[o.offset + i] # Garbage

\* The units that o may write without moving.
Room(o, w) == (o.offset + 1)..(o.offset + o.capacity * w)

\* The arrays objs in the memory h with the regions r: each lies inside its
\* memory and can write only where its region allows; what is gone is not owned.
WellFormed(objs, h, r) ==
    /\ objs \in [Arrays -> Object]
    /\ h \in [Blocks -> Seq(Unit)]
    /\ r \in [Arrays -> SUBSET Nat]
    /\ h[NoBlock] = <<>>
    /\ \A x \in Arrays :
          /\ objs[x].size <= objs[x].capacity
          /\ objs[x].block = Gone => ~objs[x].owns
          /\ objs[x].block # Gone => /\ Fits(objs[x], width[x], h[objs[x].block])
                                     /\ Room(objs[x], width[x]) \subseteq r[x]

Inv == /\ width \in [Arrays -> Widths]
       /\ WellFormed(objects, heap, region)
       /\ \A x \in Arrays : objects[x].block # NewBlock

------------------------------------------------------------------------------
(* Numbers and sequences                                                    *)

\* The names of memory that is missing, new or gone are no arrays.
LEMMA NamesApart ==
  /\ NoBlock \notin Arrays /\ NewBlock \notin Arrays /\ Gone \notin Arrays /\ None \notin Arrays
  /\ NoBlock # NewBlock /\ NoBlock # Gone /\ NewBlock # Gone
  /\ NoBlock \in Blocks /\ NewBlock \in Blocks /\ Gone \in Blocks /\ Arrays \subseteq Blocks
<1>1. Cardinality(Arrays) \in Nat
  BY SArrayAssumption, FS_CardinalityType
<1> DEFINE n == Cardinality(Arrays)
<1>2. Arrays = 1..n
  BY SArrayAssumption
<1> HIDE DEF n
<1>3. n \in Nat
  BY <1>1 DEF n
<1>4. NewBlock = n + 1 /\ Gone = n + 2
  BY DEF n, NewBlock, Gone
<1> QED
  BY <1>2, <1>3, <1>4 DEF NoBlock, None, Blocks

\* What is used of multiplication.
LEMMA Products ==
  ASSUME NEW m \in Nat, NEW n \in Nat, NEW w \in Nat
  PROVE  /\ m * w \in Nat
         /\ m <= n => m * w <= n * w
         /\ (m + n) * w = m * w + n * w
         /\ m <= n => n - m \in Nat /\ (n - m) * w = n * w - m * w
         /\ 0 * w = 0 /\ 1 * w = w
<1>1. m * w \in Nat /\ (m + n) * w = m * w + n * w /\ 0 * w = 0 /\ 1 * w = w
  OBVIOUS
<1>2. ASSUME m <= n PROVE n - m \in Nat /\ (n - m) * w = n * w - m * w
  BY <1>2
<1>3. ASSUME m <= n PROVE m * w <= n * w
  <2>1. (n - m) * w \in Nat
    BY <1>2, <1>3
  <2>2. m * w \in Nat /\ n * w \in Nat
    OBVIOUS
  <2> QED
    BY <1>2, <1>3, <2>1, <2>2
<1> QED
  BY <1>1, <1>2, <1>3

\* Division by the element size stays below the number of elements.
LEMMA QuotientBelow ==
  ASSUME NEW n \in Nat, NEW w \in Nat \ {0}, NEW j \in Nat, j < n * w
  PROVE  j \div w \in Nat /\ j \div w < n
<1>1. j \div w \in Nat /\ (j \div w) * w <= j
  OBVIOUS
<1>2. ASSUME n <= j \div w PROVE FALSE
  <2>1. n * w <= (j \div w) * w
    BY <1>1, <1>2, Products
  <2>2. n * w \in Nat /\ (j \div w) * w \in Nat
    BY <1>1, Products
  <2> QED
    BY <1>1, <2>1, <2>2
<1> QED
  BY <1>1, <1>2

\* A part of memory that lies inside it.
LEMMA PartIs ==
  ASSUME NEW m \in Seq(Unit), NEW p \in Nat, NEW n \in Nat, p + n <= Len(m)
  PROVE  /\ Part(m, p, n) \in Seq(Unit)
         /\ Len(Part(m, p, n)) = n
         /\ \A i \in 1..n : Part(m, p, n)[i] = m[p + i]
<1>1. \A i \in (p + 1)..(p + n) : m[i] \in Unit
  BY LenProperties, ElementOfSeq
<1>2. /\ SubSeq(m, p + 1, p + n) \in Seq(Unit)
      /\ Len(SubSeq(m, p + 1, p + n)) = IF p + 1 <= p + n THEN (p + n) - (p + 1) + 1 ELSE 0
      /\ \A i \in 1..((p + n) - (p + 1) + 1) : SubSeq(m, p + 1, p + n)[i] = m[(p + 1) + i - 1]
  BY <1>1, SubSeqProperties
<1> DEFINE t == SubSeq(m, p + 1, p + n)
<1> HIDE DEF t
<1>3. (p + n) - (p + 1) + 1 = n /\ (p + 1 <= p + n <=> n > 0)
  OBVIOUS
<1>4. t \in Seq(Unit) /\ Len(t) = n
  BY <1>2, <1>3 DEF t
<1>5. ASSUME NEW i \in 1..n PROVE t[i] = m[p + i]
  <2>1. t[i] = m[(p + 1) + i - 1]
    BY <1>2, <1>3 DEF t
  <2>2. (p + 1) + i - 1 = p + i
    OBVIOUS
  <2> QED
    BY <2>1, <2>2
<1> QED
  BY <1>4, <1>5 DEF Part, t

\* A part without units is empty.
LEMMA PartEmpty ==
  ASSUME NEW m, NEW p \in Nat
  PROVE  Part(m, p, 0) = <<>>
  BY SubSeqEmpty DEF Part

\* Writing changes what it writes.
LEMMA WriteIs ==
  ASSUME NEW m \in Seq(Unit), NEW p \in Nat, NEW s \in Seq(Nat)
  PROVE  /\ Write(m, p, s) \in Seq(Unit)
         /\ Len(Write(m, p, s)) = Len(m)
         /\ \A i \in 1..Len(m) :
               Write(m, p, s)[i] = IF i \in (p + 1)..(p + Len(s)) THEN s[i - p] ELSE m[i]
<1>1. Len(m) \in Nat /\ DOMAIN m = 1..Len(m) /\ \A i \in 1..Len(m) : m[i] \in Unit
  BY LenProperties, ElementOfSeq
<1>2. Len(s) \in Nat /\ \A i \in 1..Len(s) : s[i] \in Unit
  BY LenProperties, ElementOfSeq DEF Unit
<1>3. Write(m, p, s) = [i \in 1..Len(m) |->
                          IF i \in (p + 1)..(p + Len(s)) THEN s[i - p] ELSE m[i]]
  BY <1>1 DEF Write
<1>4. \A i \in 1..Len(m) : (IF i \in (p + 1)..(p + Len(s)) THEN s[i - p] ELSE m[i]) \in Unit
  BY <1>1, <1>2
<1>5. Write(m, p, s) \in [1..Len(m) -> Unit]
  BY <1>3, <1>4
<1>6. Write(m, p, s) \in Seq(Unit) /\ DOMAIN Write(m, p, s) = 1..Len(m)
  BY <1>1, <1>5, SeqDef
<1>7. Len(Write(m, p, s)) = Len(m)
  BY <1>1, <1>6, LenProperties
<1> QED
  BY <1>3, <1>6, <1>7

\* Two sequences of known lengths, one after the other.
LEMMA ConcatIs ==
  ASSUME NEW S, NEW u \in Seq(S), NEW t \in Seq(S), NEW m, NEW n, Len(u) = m, Len(t) = n
  PROVE  /\ u \o t \in Seq(S) /\ Len(u \o t) = m + n
         /\ \A i \in 1..(m + n) : (u \o t)[i] = IF i <= m THEN u[i] ELSE t[i - m]
<1>1. /\ u \o t \in Seq(S)
      /\ Len(u \o t) = Len(u) + Len(t)
      /\ \A i \in 1 .. Len(u) + Len(t) : (u \o t)[i] = IF i <= Len(u) THEN u[i] ELSE t[i - Len(u)]
  BY ConcatProperties, Zenon
<1> QED
  BY <1>1, Zenon

\* Units that become indeterminate leave the others.
LEMMA MaskIs ==
  ASSUME NEW m \in Seq(Unit), NEW S
  PROVE  LET t == [i \in DOMAIN m |-> IF i \in S THEN m[i] ELSE Garbage]
         IN  /\ t \in Seq(Unit) /\ Len(t) = Len(m)
             /\ \A i \in 1..Len(m) : i \in S => t[i] = m[i]
<1> DEFINE t == [i \in DOMAIN m |-> IF i \in S THEN m[i] ELSE Garbage]
<1>1. Len(m) \in Nat /\ DOMAIN m = 1..Len(m) /\ \A i \in 1..Len(m) : m[i] \in Unit
  BY LenProperties, ElementOfSeq
<1>2. t \in [1..Len(m) -> Unit] /\ \A i \in 1..Len(m) : i \in S => t[i] = m[i]
  BY <1>1 DEF Unit
<1> HIDE DEF t
<1>3. t \in Seq(Unit) /\ DOMAIN t = 1..Len(m)
  BY <1>1, <1>2, SeqDef
<1>4. Len(t) = Len(m)
  BY <1>1, <1>3, LenProperties
<1> QED
  BY <1>2, <1>3, <1>4 DEF t

------------------------------------------------------------------------------
(* Arrange: blocks get their names, and memory without an owner goes        *)

\* What becomes of one array.
LEMMA ArrangedObject ==
  ASSUME NEW objs \in [Arrays -> Object], NEW h, NEW r, Arrange(objs, h, r), NEW x \in Arrays,
         NEW b, b = objs[x].block
  PROVE  \/ b \in {NoBlock, Gone} /\ objects'[x] = objs[x]
         \/ /\ b \notin {NoBlock, Gone} /\ Lives(objs, b)
            /\ Name(objs, b) \in Arrays /\ objs[Name(objs, b)].block = b
            /\ objects'[x] = [objs[x] EXCEPT !.block = Name(objs, b)]
            /\ objects'[Name(objs, b)].block = Name(objs, b)
         \/ /\ b \notin {NoBlock, Gone} /\ ~Lives(objs, b)
            /\ objects'[x] = [objs[x] EXCEPT !.block = Gone, !.offset = 0]
<1> DEFINE n == Name(objs, b)
<1>1. objects'[x] = IF b \in {NoBlock, Gone} THEN objs[x]
                    ELSE IF Lives(objs, b) THEN [objs[x] EXCEPT !.block = Name(objs, @)]
                    ELSE [objs[x] EXCEPT !.block = Gone, !.offset = 0]
  BY DEF Arrange
<1>2. [objs[x] EXCEPT !.block = Name(objs, @)] = [objs[x] EXCEPT !.block = n]
  OBVIOUS
<1>3. n \in Arrays /\ objs[n].block = b
  <2>1. x \in Pointers(objs, b)
    BY DEF Pointers
  <2>2. n \in Pointers(objs, b)
    BY <2>1 DEF Name
  <2> QED
    BY <2>2 DEF Pointers
<1> HIDE DEF n
<1>4. ASSUME b \notin {NoBlock, Gone}, Lives(objs, b) PROVE objects'[n].block = n
  <2>1. objects'[n] = [objs[n] EXCEPT !.block = Name(objs, objs[n].block)]
    BY <1>3, <1>4 DEF Arrange
  <2>2. objs[n] \in Object
    BY <1>3
  <2> QED
    BY <1>3, <2>1, <2>2 DEF n, Object
<1> QED
  BY <1>1, <1>2, <1>3, <1>4 DEF n

\* What becomes of the memory.
LEMMA ArrangedHeap ==
  ASSUME NEW objs \in [Arrays -> Object], NEW h \in [Blocks -> Seq(Unit)], NEW r,
         Arrange(objs, h, r)
  PROVE  /\ heap' \in [Blocks -> Seq(Unit)]
         /\ heap'[NoBlock] = <<>>
         /\ \A b \in Blocks, n \in Arrays :
               objects'[n].block = n /\ objs[n].block = b =>
                   heap'[n] = [i \in DOMAIN h[b] |-> IF i \in Elements(objs, b) THEN h[b][i] ELSE Garbage]
<1> DEFINE mask(b) == [i \in DOMAIN h[b] |-> IF i \in Elements(objs, b) THEN h[b][i] ELSE Garbage]
<1>1. heap' = [b \in Blocks |-> IF b \in Arrays /\ objects'[b].block = b THEN mask(objs[b].block)
                                ELSE <<>>]
  BY DEF Arrange
<1>2. \A b \in Blocks : mask(b) \in Seq(Unit)
  <2> SUFFICES ASSUME NEW b \in Blocks PROVE mask(b) \in Seq(Unit)
    OBVIOUS
  <2>1. h[b] \in Seq(Unit)
    OBVIOUS
  <2> QED
    BY <2>1, MaskIs
<1>3. \A x \in Arrays : objs[x].block \in Blocks
  BY DEF Object
<1>4. <<>> \in Seq(Unit)
  BY EmptySeq
<1> HIDE DEF mask
<1>5. heap' \in [Blocks -> Seq(Unit)]
  BY <1>1, <1>2, <1>3, <1>4
<1>6. heap'[NoBlock] = <<>>
  BY <1>1, NamesApart
<1>7. \A b \in Blocks, n \in Arrays :
         objects'[n].block = n /\ objs[n].block = b => heap'[n] = mask(b)
  BY <1>1, NamesApart
<1> QED
  BY <1>5, <1>6, <1>7 DEF mask

\* An array whose memory lives finds its units where they were.
LEMMA ArrangedUnits ==
  ASSUME NEW objs, NEW h, NEW r, WellFormed(objs, h, r), Arrange(objs, h, r),
         width \in [Arrays -> Widths], NEW x \in Arrays, objects'[x].block # Gone
  PROVE  /\ objects'[x].block \in Arrays \cup {NoBlock}
         /\ objs[x].block # Gone
         /\ objects'[x] = [objs[x] EXCEPT !.block = objects'[x].block]
         /\ Len(heap'[objects'[x].block]) = Len(h[objs[x].block])
         /\ \A i \in 1..(objs[x].size * width[x]) :
               heap'[objects'[x].block][objs[x].offset + i] = h[objs[x].block][objs[x].offset + i]
<1> DEFINE b == objs[x].block
           o == objs[x]
           n == Name(objs, b)
           w == width[x]
<1>1. /\ objs \in [Arrays -> Object] /\ h \in [Blocks -> Seq(Unit)] /\ h[NoBlock] = <<>>
      /\ o \in Object /\ b \in Blocks
  BY DEF WellFormed, Object
<1>2. CASE b \in {NoBlock, Gone} /\ objects'[x] = o
  <2>1. b = NoBlock /\ o.block = NoBlock
    BY <1>2
  <2>2. heap'[NoBlock] = h[NoBlock]
    BY <1>1, ArrangedHeap
  <2>3. o = [o EXCEPT !.block = o.block]
    BY <1>1 DEF Object
  <2> QED
    BY <1>1, <1>2, <2>1, <2>2, <2>3, NamesApart
<1>3. CASE /\ b \notin {NoBlock, Gone}
           /\ n \in Arrays /\ objs[n].block = b
           /\ objects'[x] = [o EXCEPT !.block = n]
           /\ objects'[n].block = n
  <2>1. heap'[n] = [i \in DOMAIN h[b] |-> IF i \in Elements(objs, b) THEN h[b][i] ELSE Garbage]
    <3>1. \A c \in Blocks, k \in Arrays :
             objects'[k].block = k /\ objs[k].block = c =>
                 heap'[k] = [i \in DOMAIN h[c] |-> IF i \in Elements(objs, c) THEN h[c][i] ELSE Garbage]
      BY <1>1, ArrangedHeap
    <3> HIDE DEF n, b
    <3> QED
      BY <1>1, <1>3, <3>1
  <2>2. objects'[x].block = n
    BY <1>1, <1>3 DEF Object
  <2>3. h[b] \in Seq(Unit)
    BY <1>1
  <2>4. /\ Len(heap'[n]) = Len(h[b])
        /\ \A i \in 1..Len(h[b]) : i \in Elements(objs, b) => heap'[n][i] = h[b][i]
    BY <2>1, <2>3, MaskIs
  <2>5. ASSUME NEW i \in 1..(o.size * w)
        PROVE  o.offset + i \in 1..Len(h[b]) /\ o.offset + i \in Elements(objs, b)
    <3>1. o.size \in Nat /\ o.capacity \in Nat /\ o.offset \in Nat /\ w \in Nat
      BY <1>1, SArrayAssumption DEF Object
    <3>2. o.size <= o.capacity /\ o.offset + o.capacity * w <= Len(h[b])
      BY <1>3 DEF WellFormed, Fits
    <3>3. o.size * w <= o.capacity * w /\ o.size * w \in Nat /\ o.capacity * w \in Nat
      BY <3>1, <3>2, Products
    <3>4. Len(h[b]) \in Nat
      BY <2>3, LenProperties
    <3>5. o.offset + i \in 1..Len(h[b]) /\ o.offset + i \in (o.offset + 1)..(o.offset + o.size * w)
      <4> DEFINE p == o.offset
                 e == o.size * w
                 c == o.capacity * w
                 l == Len(h[b])
      <4>1. p \in Nat /\ e \in Nat /\ c \in Nat /\ l \in Nat /\ e <= c /\ p + c <= l /\ i \in 1..e
        BY <3>1, <3>2, <3>3, <3>4
      <4> HIDE DEF p, e, c, l
      <4>2. p + i \in 1..l /\ p + i \in (p + 1)..(p + e)
        BY <4>1
      <4> QED
        BY <4>2 DEF p, e, l
    <3>6. x \in Pointers(objs, b)
      BY DEF Pointers
    <3> QED
      BY <3>5, <3>6 DEF Elements
  <2> HIDE DEF b, o, n, w
  <2>6. \A i \in 1..(o.size * w) : heap'[n][o.offset + i] = h[b][o.offset + i]
    BY <2>4, <2>5
  <2> QED
    BY <1>3, <2>2, <2>4, <2>6 DEF b, o, n, w
<1>4. CASE objects'[x] = [o EXCEPT !.block = Gone, !.offset = 0]
  BY <1>1, <1>4 DEF Object
<1> QED
  BY <1>1, <1>2, <1>3, <1>4, ArrangedObject

\* Sizes and ownership stay, and what loses its memory did not own it.
LEMMA ArrangedSizes ==
  ASSUME NEW objs, NEW h, NEW r, WellFormed(objs, h, r), Arrange(objs, h, r), NEW x \in Arrays
  PROVE  /\ objects'[x] \in Object
         /\ objects'[x].block # NewBlock
         /\ objects'[x].size = objs[x].size /\ objects'[x].capacity = objs[x].capacity
         /\ objects'[x].block = Gone => ~objects'[x].owns
<1> DEFINE b == objs[x].block
           o == objs[x]
           n == Name(objs, b)
<1>1. objs \in [Arrays -> Object] /\ o \in Object /\ b \in Blocks
  BY DEF WellFormed, Object
<1>2. CASE b \in {NoBlock, Gone} /\ objects'[x] = o
  BY <1>1, <1>2, NamesApart DEF WellFormed
<1>3. CASE n \in Arrays /\ objects'[x] = [o EXCEPT !.block = n]
  BY <1>1, <1>3, NamesApart DEF Object
<1>4. CASE ~Lives(objs, b) /\ objects'[x] = [o EXCEPT !.block = Gone, !.offset = 0]
  <2>1. ~o.owns
    BY <1>4 DEF Lives, Pointers
  <2> QED
    <3> HIDE DEF o
    <3>1. /\ objects'[x] \in Object /\ objects'[x].block = Gone /\ objects'[x].owns = o.owns
          /\ objects'[x].size = o.size /\ objects'[x].capacity = o.capacity
      <4>1. o \in Object /\ objects'[x] = [o EXCEPT !.block = Gone, !.offset = 0]
        BY <1>1, <1>4
      <4>2. Gone \in Blocks /\ 0 \in Nat
        BY NamesApart
      <4>3. \A g \in Blocks, z \in Nat :
               objects'[x] = [o EXCEPT !.block = g, !.offset = z] =>
                     /\ objects'[x] \in Object /\ objects'[x].block = g /\ objects'[x].owns = o.owns
                     /\ objects'[x].size = o.size /\ objects'[x].capacity = o.capacity
        BY <4>1 DEF Object
      <4> QED
        BY <4>1, <4>2, <4>3, Zenon
    <3> QED
      BY <2>1, <3>1, NamesApart DEF o
<1> QED
  BY <1>1, <1>2, <1>3, <1>4, ArrangedObject

\* The arrays are well formed after every change that leaves them so.
LEMMA ArrangeKeeps ==
  ASSUME NEW objs, NEW h, NEW r, WellFormed(objs, h, r), Arrange(objs, h, r),
         width \in [Arrays -> Widths], width' = width
  PROVE  Inv'
<1>1. /\ objs \in [Arrays -> Object] /\ h \in [Blocks -> Seq(Unit)]
      /\ r \in [Arrays -> SUBSET Nat]
  BY DEF WellFormed
<1>2. heap' \in [Blocks -> Seq(Unit)] /\ heap'[NoBlock] = <<>>
  BY <1>1, ArrangedHeap
<1>3. objects' \in [Arrays -> Object]
  <2>1. objects' = [x \in Arrays |-> objects'[x]]
    BY DEF Arrange
  <2>2. \A x \in Arrays : objects'[x] \in Object
    BY ArrangedSizes
  <2> QED
    BY <2>1, <2>2
<1>4. region' \in [Arrays -> SUBSET Nat]
  BY <1>1 DEF Arrange
<1>5. ASSUME NEW x \in Arrays
      PROVE  /\ objects'[x].block # NewBlock
             /\ objects'[x].size <= objects'[x].capacity
             /\ objects'[x].block = Gone => ~objects'[x].owns
  BY ArrangedSizes DEF WellFormed
<1>6. ASSUME NEW x \in Arrays, objects'[x].block # Gone
      PROVE  /\ Fits(objects'[x], width[x], heap'[objects'[x].block])
             /\ Room(objects'[x], width[x]) \subseteq region'[x]
  <2> DEFINE o == objs[x]
             b == objects'[x].block
  <2>1. /\ o.block # Gone
        /\ objects'[x] = [o EXCEPT !.block = b]
        /\ Len(heap'[b]) = Len(h[o.block])
        /\ \A i \in 1..(o.size * width[x]) : heap'[b][o.offset + i] = h[o.block][o.offset + i]
    BY <1>6, ArrangedUnits
  <2>2. o \in Object
    BY <1>1
  <2> HIDE DEF o, b
  <2>3. /\ objects'[x].offset = o.offset /\ objects'[x].size = o.size
        /\ objects'[x].capacity = o.capacity
    BY <2>1, <2>2 DEF Object
  <2>4. Fits(o, width[x], h[o.block]) /\ Room(o, width[x]) \subseteq r[x]
    BY <2>1 DEF WellFormed, o
  <2>5. region'[x] = r[x]
    BY <1>6 DEF Arrange
  <2>6. Fits(objects'[x], width[x], heap'[b])
    BY <2>1, <2>3, <2>4 DEF Fits
  <2> QED
    BY <2>3, <2>4, <2>5, <2>6 DEF Room, b
<1>7. WellFormed(objects, heap, region)'
  BY <1>2, <1>3, <1>4, <1>5, <1>6 DEF WellFormed
<1> QED
  BY <1>5, <1>7 DEF Inv

\* The elements of an array that has memory.
LEMMA ViewIs ==
  ASSUME NEW o \in Object, NEW w \in Nat, NEW m
  PROVE  SubSeq(m, o.offset + 0 * w + 1, o.offset + (0 + o.size) * w) = Contents(o, w, m)
<1>1. o.offset \in Nat /\ o.size \in Nat
  BY DEF Object
<1>2. o.offset + 0 * w + 1 = o.offset + 1 /\ (0 + o.size) * w = o.size * w
  BY <1>1
<1> QED
  BY <1>2 DEF Contents, Part

\* Elements as a sequence.
LEMMA ContentsAre ==
  ASSUME NEW o \in Object, NEW w \in Nat, NEW m \in Seq(Unit), Fits(o, w, m), o.size <= o.capacity
  PROVE  /\ Contents(o, w, m) \in Seq(Nat)
         /\ Len(Contents(o, w, m)) = o.size * w
         /\ o.size * w \in Nat
         /\ \A i \in 1..(o.size * w) : /\ Contents(o, w, m)[i] = m[o.offset + i]
                                       /\ o.offset + i \in 1..Len(m)
<1> DEFINE e == o.size * w
           c == o.capacity * w
           p == o.offset
           t == Contents(o, w, m)
<1>1. e \in Nat /\ c \in Nat /\ e <= c /\ p \in Nat /\ Len(m) \in Nat
  BY Products, LenProperties DEF Object
<1>2. p + c <= Len(m) /\ \A i \in 1..e : m[p + i] # Garbage
  BY DEF Fits
<1>3. t = Part(m, p, e)
  BY DEF Contents
<1> HIDE DEF e, c, p, t
<1>4. p + e <= Len(m)
  BY <1>1, <1>2
<1>5. t \in Seq(Unit) /\ Len(t) = e /\ \A i \in 1..e : t[i] = m[p + i]
  BY <1>1, <1>3, <1>4, PartIs
<1>6. \A i \in 1..e : t[i] \in Nat /\ p + i \in 1..Len(m)
  <2> SUFFICES ASSUME NEW i \in 1..e PROVE t[i] \in Nat /\ p + i \in 1..Len(m)
    OBVIOUS
  <2>1. p + i \in 1..Len(m)
    BY <1>1, <1>4
  <2>2. m[p + i] \in Unit /\ m[p + i] # Garbage
    BY <1>2, <2>1, ElementOfSeq
  <2> QED
    BY <1>5, <2>1, <2>2 DEF Unit
<1>7. t \in Seq(Nat)
  <2>1. t \in [1..e -> Nat]
    BY <1>5, <1>6, LenProperties
  <2> QED
    BY <1>1, <2>1, SeqDef
<1> QED
  BY <1>1, <1>5, <1>6, <1>7 DEF e, p, t

\* What an array has after a change is what it had been given.
LEMMA ArrangedView ==
  ASSUME NEW objs, NEW h, NEW r, WellFormed(objs, h, r), Arrange(objs, h, r),
         width \in [Arrays -> Widths], width' = width, NEW x \in Arrays, ~(Dangling(x)')
  PROVE  /\ objs[x].block # Gone
         /\ View(x)' = Contents(objs[x], width[x], h[objs[x].block])
<1> DEFINE o == objs[x]
           w == width[x]
           b == objects'[x].block
           old == Contents(o, w, h[o.block])
           new == Contents(objects'[x], w, heap'[b])
<1>1. b # Gone
  BY DEF Dangling
<1>2. /\ objs \in [Arrays -> Object] /\ o \in Object /\ h \in [Blocks -> Seq(Unit)]
      /\ w \in Nat /\ o.block \in Blocks
  BY SArrayAssumption DEF WellFormed, Object
<1>3. /\ o.block # Gone
      /\ b \in Blocks
      /\ objects'[x] = [o EXCEPT !.block = b]
      /\ \A i \in 1..(o.size * w) : heap'[b][o.offset + i] = h[o.block][o.offset + i]
  <2>1. /\ o.block # Gone
        /\ b \in Arrays \cup {NoBlock}
        /\ objects'[x] = [o EXCEPT !.block = b]
        /\ \A i \in 1..(o.size * w) : heap'[b][o.offset + i] = h[o.block][o.offset + i]
    BY <1>1, ArrangedUnits
  <2>2. b \in Blocks
    BY <2>1, NamesApart
  <2> HIDE DEF b, o, w
  <2> QED
    BY <2>1, <2>2
<1>4. objects'[x] \in Object /\ heap' \in [Blocks -> Seq(Unit)]
  BY <1>2, ArrangedSizes, ArrangedHeap
<1>5. View(x)' = new
  <2>1. View(x)' = SubSeq(heap'[b], objects'[x].offset + 0 * w + 1,
                          objects'[x].offset + (0 + objects'[x].size) * w)
    BY DEF View, Slice
  <2> QED
    BY <1>2, <1>4, <2>1, ViewIs
<1>6. old \in Seq(Nat) /\ Len(old) = o.size * w /\ \A i \in 1..(o.size * w) : old[i] = h[o.block][o.offset + i]
  <2> DEFINE m == h[o.block]
  <2>1. m \in Seq(Unit) /\ Fits(o, w, m) /\ o.size <= o.capacity
    BY <1>2, <1>3 DEF WellFormed
  <2> HIDE DEF o, w, m
  <2> QED
    BY <1>2, <2>1, ContentsAre DEF m
<1>7. /\ Fits(objects'[x], w, heap'[b])
      /\ objects'[x].size <= objects'[x].capacity
  <2>1. Inv'
    BY ArrangeKeeps
  <2> QED
    BY <1>1, <2>1 DEF Inv, WellFormed
<1>8. objects'[x].size = o.size /\ objects'[x].offset = o.offset
  BY <1>2, <1>3 DEF Object
<1>9. new \in Seq(Nat) /\ Len(new) = o.size * w /\ \A i \in 1..(o.size * w) : new[i] = heap'[b][o.offset + i]
  <2> DEFINE m == heap'[b]
             q == objects'[x]
  <2>1. m \in Seq(Unit) /\ q \in Object /\ Fits(q, w, m) /\ q.size <= q.capacity
    BY <1>3, <1>4, <1>7
  <2>2. q.size = o.size /\ q.offset = o.offset
    BY <1>8
  <2> HIDE DEF o, w, m, q
  <2>3. /\ Contents(q, w, m) \in Seq(Nat) /\ Len(Contents(q, w, m)) = q.size * w
        /\ \A i \in 1..(q.size * w) : Contents(q, w, m)[i] = m[q.offset + i]
    BY <1>2, <2>1, ContentsAre
  <2> QED
    BY <2>2, <2>3 DEF m, q
<1>10. o.size * w \in Nat
  BY <1>2, Products DEF Object
<1> HIDE DEF o, w, b, old, new
<1>11. new = old
  BY <1>3, <1>6, <1>9, <1>10, SeqEqual
<1> QED
  BY <1>3, <1>5, <1>11 DEF o, w, old

------------------------------------------------------------------------------
(* One array changes                                                        *)

\* Elements of other arrays change only in the region of a.
Stays(a) ==
    \A x \in Arrays \ {a} :
        ~Dangling(x) /\ ~(Dangling(x)') =>
            \A i \in DOMAIN View(x) :
                View(x)'[i] # View(x)[i] => SameBlock(a, x) /\ objects[x].offset + i \in region[a]

\* The elements of an array that has memory.
LEMMA ViewContents ==
  ASSUME Inv, NEW x \in Arrays, ~Dangling(x)
  PROVE  /\ objects[x] \in Object /\ width[x] \in Nat \ {0}
         /\ heap[objects[x].block] \in Seq(Unit)
         /\ Fits(objects[x], width[x], heap[objects[x].block])
         /\ objects[x].size <= objects[x].capacity
         /\ View(x) = Contents(objects[x], width[x], heap[objects[x].block])
<1>1. objects[x] \in Object /\ width[x] \in Nat \ {0} /\ objects[x].block \in Blocks
  BY SArrayAssumption DEF Inv, WellFormed, Object
<1>2. /\ heap[objects[x].block] \in Seq(Unit)
      /\ Fits(objects[x], width[x], heap[objects[x].block])
      /\ objects[x].size <= objects[x].capacity
  BY <1>1 DEF Inv, WellFormed, Dangling
<1>3. View(x) = Contents(objects[x], width[x], heap[objects[x].block])
  BY <1>1, ViewIs DEF View, Slice
<1> QED
  BY <1>1, <1>2, <1>3

\* Array a becomes o while the memory becomes h.
LEMMA ChangeKeeps ==
  ASSUME Inv, width' = width, NEW a \in Arrays, NEW o, NEW h, NEW s,
         WellFormed([objects EXCEPT ![a] = o], h, [region EXCEPT ![a] = s]),
         Become(a, o, h, s),
         \A x \in Arrays \ {a} : ~Dangling(x) =>
            \A i \in 1..Len(heap[objects[x].block]) :
                h[objects[x].block][i] # heap[objects[x].block][i] =>
                    objects[a].block = objects[x].block /\ i \in region[a]
  PROVE  /\ Inv'
         /\ Stays(a)
         /\ ~(Dangling(a)') => o.block # Gone /\ View(a)' = Contents(o, width[a], h[o.block])
<1> DEFINE objs == [objects EXCEPT ![a] = o]
           r == [region EXCEPT ![a] = s]
<1>1. WellFormed(objs, h, r) /\ Arrange(objs, h, r) /\ width \in [Arrays -> Widths]
  BY DEF Become, Inv
<1>2. objs[a] = o /\ \A x \in Arrays \ {a} : objs[x] = objects[x]
  BY DEF Inv, WellFormed
<1> HIDE DEF objs, r
<1>3. Inv'
  BY <1>1, ArrangeKeeps
<1>4. ~(Dangling(a)') => o.block # Gone /\ View(a)' = Contents(o, width[a], h[o.block])
  BY <1>1, <1>2, ArrangedView
<1>5. ASSUME NEW x \in Arrays \ {a}, ~Dangling(x), ~(Dangling(x)'), NEW i \in DOMAIN View(x),
             View(x)'[i] # View(x)[i]
      PROVE  SameBlock(a, x) /\ objects[x].offset + i \in region[a]
  <2> DEFINE q == objects[x]
             w == width[x]
             m == heap[q.block]
  <2>1. View(x)' = Contents(q, w, h[q.block])
    <3>1. View(x)' = Contents(objs[x], width[x], h[objs[x].block])
      BY <1>1, <1>5, ArrangedView
    <3> QED
      BY <1>2, <3>1
  <2>2. /\ q \in Object /\ w \in Nat /\ m \in Seq(Unit) /\ Fits(q, w, m)
        /\ q.size <= q.capacity
        /\ View(x) = Contents(q, w, m)
    BY <1>5, ViewContents
  <2>3. h[q.block] \in Seq(Unit) /\ Fits(q, w, h[q.block])
    <3>1. q.block \in Blocks /\ q.block # Gone
      BY <1>5, <2>2 DEF Object, Dangling
    <3> QED
      BY <1>1, <1>2, <3>1 DEF WellFormed
  <2> HIDE DEF q, w, m
  <2>4. /\ View(x) \in Seq(Nat) /\ Len(View(x)) = q.size * w /\ q.size * w \in Nat
        /\ \A k \in 1..(q.size * w) : View(x)[k] = m[q.offset + k] /\ q.offset + k \in 1..Len(m)
    BY <2>2, ContentsAre
  <2>5. \A k \in 1..(q.size * w) : View(x)'[k] = h[q.block][q.offset + k]
    <3> DEFINE m2 == h[q.block]
    <3> HIDE DEF m2
    <3>1. \A k \in 1..(q.size * w) : Contents(q, w, m2)[k] = m2[q.offset + k]
      BY <2>2, <2>3, ContentsAre DEF m2
    <3> QED
      BY <2>1, <3>1 DEF m2
  <2>6. i \in 1..(q.size * w)
    BY <2>4, LenProperties
  <2>7. q.offset + i \in 1..Len(m) /\ h[q.block][q.offset + i] # m[q.offset + i]
    BY <1>5, <2>4, <2>5, <2>6
  <2>8. objects[a].block = objects[x].block /\ q.offset + i \in region[a]
    BY <1>5, <2>7 DEF q, m
  <2>9. q.block # NoBlock
    <3>1. heap[NoBlock] = <<>> /\ Len(<<>>) = 0
      BY EmptySeq DEF Inv, WellFormed
    <3> QED
      BY <2>7, <3>1 DEF m
  <2>10. q.block \in Arrays
    <3>1. q.block \in Blocks /\ q.block # Gone /\ q.block # NewBlock
      BY <1>5, <2>2 DEF q, Object, Dangling, Inv
    <3> QED
      BY <2>9, <3>1 DEF Blocks
  <2> QED
    BY <2>8, <2>10 DEF SameBlock, q
<1> QED
  BY <1>3, <1>4, <1>5 DEF Stays

\* Array a points somewhere else in the memory as it is.
LEMMA BecomeKeeps ==
  ASSUME Inv, width' = width, NEW a \in Arrays, NEW o \in Object, NEW s \in SUBSET Nat,
         Become(a, o, heap, s),
         o.size <= o.capacity,
         o.block = Gone => ~o.owns,
         o.block # Gone => Fits(o, width[a], heap[o.block]) /\ Room(o, width[a]) \subseteq s
  PROVE  /\ Inv'
         /\ Stays(a)
         /\ ~(Dangling(a)') => o.block # Gone /\ View(a)' = Contents(o, width[a], heap[o.block])
<1> DEFINE objs == [objects EXCEPT ![a] = o]
           r == [region EXCEPT ![a] = s]
<1>1. /\ objs \in [Arrays -> Object] /\ r \in [Arrays -> SUBSET Nat]
      /\ objs[a] = o /\ r[a] = s
      /\ \A x \in Arrays \ {a} : objs[x] = objects[x] /\ r[x] = region[x]
  BY DEF Inv, WellFormed
<1> HIDE DEF objs, r
<1>2. heap \in [Blocks -> Seq(Unit)] /\ heap[NoBlock] = <<>>
  BY DEF Inv, WellFormed
<1>3. ASSUME NEW x \in Arrays
      PROVE  /\ objs[x].size <= objs[x].capacity
             /\ objs[x].block = Gone => ~objs[x].owns
             /\ objs[x].block # Gone => /\ Fits(objs[x], width[x], heap[objs[x].block])
                                        /\ Room(objs[x], width[x]) \subseteq r[x]
  <2>1. CASE x = a
    BY <1>1, <2>1
  <2>2. CASE x # a
    BY <1>1, <2>2 DEF Inv, WellFormed
  <2> QED
    BY <2>1, <2>2
<1>4. WellFormed(objs, heap, r)
  BY <1>1, <1>2, <1>3 DEF WellFormed
<1> QED
  BY <1>4, ChangeKeeps DEF objs, r

\* Object o for a, with the units m in its memory: new memory, or the memory
\* of a with changes only where a may write.
Placed(a, o, m) ==
    /\ o \in Object /\ m \in Seq(Unit) /\ o.size <= o.capacity
    /\ o.block # Gone => Fits(o, width[a], m)
    /\ \/ o.block = NewBlock
       \/ /\ o.block = objects[a].block /\ o.offset = objects[a].offset
          /\ o.capacity = objects[a].capacity /\ o.owns = objects[a].owns
          /\ Len(m) = Len(heap[o.block])
          /\ \A i \in 1..Len(m) : m[i] # heap[o.block][i] => m[i] # Garbage /\ i \in Room(o, width[a])

\* a goes on in memory that it was placed in.
LEMMA ContinueKeeps ==
  ASSUME Inv, width' = width, NEW a \in Arrays, NEW o, NEW m, Placed(a, o, m), Continue(a, o, m)
  PROVE  /\ Inv'
         /\ Stays(a)
         /\ ~(Dangling(a)') => o.block # Gone /\ View(a)' = Contents(o, width[a], m)
<1> DEFINE objs == [objects EXCEPT ![a] = o]
           h == [heap EXCEPT ![o.block] = m]
           s == IF o.block = objects[a].block THEN region[a] ELSE 1..Len(m)
           r == [region EXCEPT ![a] = s]
<1>1. o \in Object /\ o.block \in Blocks /\ m \in Seq(Unit) /\ Len(m) \in Nat
  BY LenProperties DEF Placed, Object
<1>2. /\ objects \in [Arrays -> Object] /\ heap \in [Blocks -> Seq(Unit)]
      /\ region \in [Arrays -> SUBSET Nat] /\ heap[NoBlock] = <<>>
      /\ \A x \in Arrays : objects[x].block \in Blocks /\ objects[x].block # NewBlock
  BY DEF Inv, WellFormed, Object
<1>3. s \in SUBSET Nat
  BY <1>1, <1>2
<1>4. Become(a, o, h, s)
  BY DEF Continue
<1>5. h[o.block] = m /\ \A b \in Blocks : b # o.block => h[b] = heap[b]
  BY <1>1, <1>2
<1>6. h \in [Blocks -> Seq(Unit)]
  BY <1>1, <1>2
<1>7. /\ objs \in [Arrays -> Object] /\ objs[a] = o
      /\ \A x \in Arrays \ {a} : objs[x] = objects[x]
  BY <1>1, <1>2
<1> HIDE DEF s
<1>8. /\ r \in [Arrays -> SUBSET Nat] /\ r[a] = s
      /\ \A x \in Arrays \ {a} : r[x] = region[x]
  BY <1>2, <1>3
<1> HIDE DEF objs, h, r
<1>9. h[NoBlock] = <<>>
  <2>1. CASE o.block = NoBlock
    <3>1. Len(m) = Len(heap[NoBlock])
      BY <2>1, NamesApart DEF Placed
    <3>2. m = <<>>
      BY <1>1, <1>2, <3>1, EmptySeq
    <3> QED
      BY <1>5, <2>1, <3>2
  <2>2. CASE o.block # NoBlock
    BY <1>2, <1>5, <2>2, NamesApart
  <2> QED
    BY <2>1, <2>2
<1>10. ASSUME NEW x \in Arrays \ {a}, objects[x].block # Gone
       PROVE  /\ Len(h[objects[x].block]) = Len(heap[objects[x].block])
              /\ \A i \in 1..Len(heap[objects[x].block]) :
                    h[objects[x].block][i] # heap[objects[x].block][i] =>
                        /\ objects[a].block = objects[x].block
                        /\ h[objects[x].block][i] # Garbage /\ i \in Room(o, width[a])
  <2>1. CASE objects[x].block = o.block
    <3>1. o.block # NewBlock
      BY <1>2, <2>1
    <3> QED
      BY <1>5, <2>1, <3>1 DEF Placed
  <2>2. CASE objects[x].block # o.block
    BY <1>2, <1>5, <2>2
  <2> QED
    BY <2>1, <2>2
<1>11. o.block # Gone => Room(o, width[a]) \subseteq s
  <2>1. CASE o.block = NewBlock
    <3>1. s = 1..Len(m)
      BY <1>2, <2>1 DEF s
    <3>2. o.offset + o.capacity * width[a] <= Len(m) /\ o.offset \in Nat
      BY <1>1, <2>1, NamesApart DEF Placed, Fits, Object
    <3>3. o.capacity * width[a] \in Nat
      <4>1. width[a] \in Nat /\ o.capacity \in Nat
        BY <1>1, SArrayAssumption DEF Inv, Object
      <4> QED
        BY <4>1, Products
    <3> QED
      BY <1>1, <3>1, <3>2, <3>3 DEF Room
  <2>2. CASE o.block # NewBlock
    <3>1. o.block = objects[a].block /\ o.offset = objects[a].offset /\ o.capacity = objects[a].capacity
      BY <2>2 DEF Placed
    <3>2. s = region[a]
      BY <3>1 DEF s
    <3>3. o.block # Gone => Room(objects[a], width[a]) \subseteq region[a]
      BY <3>1 DEF Inv, WellFormed
    <3> QED
      BY <3>1, <3>2, <3>3 DEF Room
  <2> QED
    BY <2>1, <2>2
<1>12. ASSUME NEW x \in Arrays
       PROVE  /\ objs[x].size <= objs[x].capacity
              /\ objs[x].block = Gone => ~objs[x].owns
              /\ objs[x].block # Gone => /\ Fits(objs[x], width[x], h[objs[x].block])
                                         /\ Room(objs[x], width[x]) \subseteq r[x]
  <2>1. CASE x = a
    <3>1. o.block = Gone => ~o.owns
      BY NamesApart DEF Placed, Inv, WellFormed
    <3> QED
      BY <1>5, <1>7, <1>8, <1>11, <2>1, <3>1 DEF Placed
  <2>2. CASE x # a
    <3> DEFINE q == objects[x]
               w == width[x]
    <3>1. objs[x] = q /\ r[x] = region[x]
      BY <1>7, <1>8, <2>2
    <3>2. /\ q.size <= q.capacity
          /\ q.block = Gone => ~q.owns
          /\ q.block # Gone => Fits(q, w, heap[q.block]) /\ Room(q, w) \subseteq region[x]
      BY DEF Inv, WellFormed
    <3>3. ASSUME q.block # Gone PROVE Fits(q, w, h[q.block])
      <4>1. /\ Len(h[q.block]) = Len(heap[q.block])
            /\ \A i \in 1..Len(heap[q.block]) :
                  h[q.block][i] # heap[q.block][i] => h[q.block][i] # Garbage
        BY <1>10, <2>2, <3>3
      <4>2. q \in Object /\ w \in Nat /\ heap[q.block] \in Seq(Unit) /\ Fits(q, w, heap[q.block])
        BY <1>2, <3>2, <3>3, SArrayAssumption DEF Inv
      <4> HIDE DEF q, w
      <4>3. \A i \in 1..(q.size * w) : q.offset + i \in 1..Len(heap[q.block])
        BY <3>2, <4>2, ContentsAre
      <4> QED
        BY <4>1, <4>2, <4>3 DEF Fits
    <3> HIDE DEF q, w
    <3> QED
      BY <3>1, <3>2, <3>3 DEF q, w
  <2> QED
    BY <2>1, <2>2
<1>13. WellFormed(objs, h, r)
  BY <1>6, <1>7, <1>8, <1>9, <1>12 DEF WellFormed
<1>14. ASSUME NEW x \in Arrays \ {a}, ~Dangling(x), NEW i \in 1..Len(heap[objects[x].block]),
              h[objects[x].block][i] # heap[objects[x].block][i]
       PROVE  objects[a].block = objects[x].block /\ i \in region[a]
  <2>1. objects[a].block = objects[x].block /\ i \in Room(o, width[a])
    BY <1>10, <1>14 DEF Dangling
  <2>2. o.block = objects[x].block
    <3>1. objects[x].block \in Blocks
      BY <1>2
    <3> QED
      BY <1>5, <1>14, <3>1
  <2>3. s = region[a] /\ o.block # Gone
    BY <1>14, <2>1, <2>2 DEF s, Dangling
  <2> QED
    BY <1>11, <2>1, <2>3
<1> QED
  BY <1>4, <1>5, <1>13, <1>14, ChangeKeeps DEF objs, r

------------------------------------------------------------------------------
(* Elements in memory                                                       *)

\* A sequence is a function on its indices.
LEMMA SeqOf ==
  ASSUME NEW S, NEW n \in Nat, NEW f \in [1..n -> S]
  PROVE  f \in Seq(S) /\ Len(f) = n
<1>1. f \in Seq(S) /\ DOMAIN f = 1..n
  BY SeqDef
<1> QED
  BY <1>1, LenProperties

\* The units of elements are as many as there are, and none is garbage.
LEMMA UnitsAre ==
  ASSUME Inv, NEW a \in Arrays, NEW s \in Seq(Nat)
  PROVE  /\ Units(a, s) \in Seq(Nat)
         /\ Len(Units(a, s)) = Len(s) * width[a]
         /\ \A i \in 1..(Len(s) * width[a]) :
               Units(a, s)[i] = IF (i - 1) % width[a] = 0 THEN s[(i - 1) \div width[a] + 1] ELSE 0
<1> DEFINE w == width[a]
           n == Len(s)
           u == Units(a, s)
<1>1. w \in Nat \ {0} /\ n \in Nat /\ n * w \in Nat
  BY LenProperties, Products, SArrayAssumption DEF Inv
<1>2. u = [i \in 1..(n * w) |-> IF (i - 1) % w = 0 THEN s[(i - 1) \div w + 1] ELSE 0]
  BY DEF Units
<1>3. ASSUME NEW i \in 1..(n * w)
      PROVE  (IF (i - 1) % w = 0 THEN s[(i - 1) \div w + 1] ELSE 0) \in Nat
  <2> HIDE DEF w, n
  <2>1. i - 1 \in Nat /\ i - 1 < n * w
    BY <1>1
  <2>2. (i - 1) \div w \in Nat /\ (i - 1) \div w < n
    BY <1>1, <2>1, QuotientBelow
  <2>3. (i - 1) \div w + 1 \in 1..n
    BY <1>1, <2>2
  <2>4. s[(i - 1) \div w + 1] \in Nat
    BY <2>3, ElementOfSeq DEF n
  <2> QED
    BY <2>4
<1> HIDE DEF w, n, u
<1>4. u \in [1..(n * w) -> Nat]
  BY <1>2, <1>3
<1>5. u \in Seq(Nat) /\ Len(u) = n * w
  BY <1>1, <1>4, SeqOf
<1>6. \A i \in 1..(n * w) : u[i] = IF (i - 1) % w = 0 THEN s[(i - 1) \div w + 1] ELSE 0
  BY <1>2
<1> QED
  BY <1>5, <1>6 DEF w, n, u

\* The units of n elements with the same value: the longer begins like the
\* shorter.
LEMMA FillIs ==
  ASSUME Inv, NEW a \in Arrays, NEW n \in Nat, NEW val \in Nat
  PROVE  LET u == Units(a, [i \in 1..n |-> val])
         IN  /\ u \in Seq(Nat) /\ Len(u) = n * width[a]
             /\ \A i \in 1..(n * width[a]) : u[i] = IF (i - 1) % width[a] = 0 THEN val ELSE 0
<1> DEFINE s == [i \in 1..n |-> val]
           w == width[a]
           u == Units(a, s)
<1>1. s \in [1..n -> Nat] /\ \A i \in 1..n : s[i] = val
  OBVIOUS
<1> HIDE DEF s
<1>2. s \in Seq(Nat) /\ Len(s) = n
  BY <1>1, SeqOf
<1>3. /\ u \in Seq(Nat) /\ Len(u) = n * w
      /\ \A i \in 1..(n * w) : u[i] = IF (i - 1) % w = 0 THEN s[(i - 1) \div w + 1] ELSE 0
  BY <1>2, UnitsAre
<1>4. w \in Nat \ {0} /\ n * w \in Nat
  BY Products, SArrayAssumption DEF Inv
<1> HIDE DEF w, u
<1>5. ASSUME NEW i \in 1..(n * w) PROVE s[(i - 1) \div w + 1] = val
  <2>1. i - 1 \in Nat /\ i - 1 < n * w
    BY <1>4
  <2>2. (i - 1) \div w \in Nat /\ (i - 1) \div w < n
    BY <1>4, <2>1, QuotientBelow
  <2>3. (i - 1) \div w + 1 \in 1..n
    BY <2>2
  <2> QED
    BY <1>1, <2>3
<1>6. \A i \in 1..(n * w) : u[i] = IF (i - 1) % w = 0 THEN val ELSE 0
  BY <1>3, <1>5
<1> QED
  BY <1>3, <1>6 DEF u, w, s

\* The elements of an array, also if its memory is gone.
LEMMA ViewSeq ==
  ASSUME Inv, NEW x \in Arrays
  PROVE  /\ View(x) \in Seq(Nat)
         /\ Dangling(x) => View(x) = <<>>
         /\ ~Dangling(x) =>
               /\ Len(View(x)) = objects[x].size * width[x]
               /\ \A i \in 1..(objects[x].size * width[x]) :
                     View(x)[i] = heap[objects[x].block][objects[x].offset + i]
<1>1. CASE Dangling(x)
  BY <1>1, EmptySeq DEF View
<1>2. CASE ~Dangling(x)
  <2> DEFINE o == objects[x]
             w == width[x]
             m == heap[o.block]
  <2>1. /\ o \in Object /\ w \in Nat /\ m \in Seq(Unit) /\ Fits(o, w, m) /\ o.size <= o.capacity
        /\ View(x) = Contents(o, w, m)
    BY <1>2, ViewContents
  <2> HIDE DEF o, w, m
  <2>2. /\ View(x) \in Seq(Nat) /\ Len(View(x)) = o.size * w
        /\ \A i \in 1..(o.size * w) : View(x)[i] = m[o.offset + i]
    BY <2>1, ContentsAre
  <2> QED
    BY <1>2, <2>2 DEF o, w, m
<1> QED
  BY <1>1, <1>2

\* n elements of an array from element k on.
LEMMA SliceIs ==
  ASSUME Inv, NEW x \in Arrays, ~Dangling(x), NEW k \in Nat, NEW n \in Nat, k + n <= objects[x].size
  PROVE  /\ Slice(x, k, n) \in Seq(Nat) /\ Len(Slice(x, k, n)) = n * width[x]
         /\ \A i \in 1..(n * width[x]) : /\ Slice(x, k, n)[i] = View(x)[k * width[x] + i]
                                         /\ k * width[x] + i \in 1..(objects[x].size * width[x])
<1> DEFINE o == objects[x]
           w == width[x]
           m == heap[o.block]
           p == o.offset
           kw == k * w
           nw == n * w
           ew == o.size * w
           t == Slice(x, k, n)
<1>1. /\ o \in Object /\ w \in Nat /\ m \in Seq(Unit) /\ Fits(o, w, m) /\ o.size <= o.capacity
  BY ViewContents
<1>2. /\ o.size \in Nat /\ p \in Nat /\ kw \in Nat /\ nw \in Nat /\ ew \in Nat
      /\ (k + n) * w = kw + nw /\ kw + nw <= ew
  <2>1. o.size \in Nat /\ p \in Nat /\ k + n \in Nat
    BY <1>1 DEF Object
  <2>2. (k + n) * w <= o.size * w
    BY <1>1, <2>1, Products
  <2>3. (k + n) * w = kw + nw
    BY <1>1, <2>1, Products
  <2>4. kw \in Nat /\ nw \in Nat /\ ew \in Nat
    BY <1>1, <2>1, Products
  <2> HIDE DEF o, w, p, kw, nw
  <2> QED
    BY <2>1, <2>2, <2>3, <2>4
<1>3. t = SubSeq(m, p + kw + 1, p + (k + n) * w)
  BY DEF Slice
<1>4. \A i \in 1..ew : View(x)[i] = m[p + i] /\ View(x)[i] \in Nat /\ p + i \in 1..Len(m)
  <2>1. \A i \in 1..ew : View(x)[i] = m[p + i]
    BY ViewSeq
  <2>2. Len(View(x)) = ew /\ View(x) \in Seq(Nat)
    BY ViewSeq
  <2>3. \A i \in 1..ew : p + i \in 1..Len(m)
    <3> HIDE DEF o, w, m
    <3> QED
      BY <1>1, ContentsAre DEF p, ew
  <2> HIDE DEF o, w, m, p, ew
  <2> QED
    BY <2>1, <2>2, <2>3, ElementOfSeq
<1> HIDE DEF o, w, m, p, kw, nw, ew, t
<1>5. t = Part(m, p + kw, nw)
  <2>1. p + (k + n) * w = p + kw + nw
    BY <1>2
  <2> QED
    BY <1>3, <2>1 DEF Part
<1>6. p + kw \in Nat /\ p + kw + nw <= Len(m)
  <2>1. CASE ew = 0
    <3>1. p + 0 <= Len(m)
      <4>1. p + o.capacity * w <= Len(m) /\ o.capacity * w \in Nat /\ Len(m) \in Nat
        BY <1>1, LenProperties, Products DEF Fits, Object, p
      <4> QED
        BY <1>2, <4>1
    <3> QED
      BY <1>2, <2>1, <3>1
  <2>2. CASE ew > 0
    <3>1. p + ew \in 1..Len(m) /\ Len(m) \in Nat
      <4>1. ew \in 1..ew
        BY <1>2, <2>2
      <4>2. Len(m) \in Nat
        BY <1>1, LenProperties
      <4> QED
        BY <1>4, <4>1, <4>2
    <3> QED
      BY <1>2, <3>1
  <2> QED
    BY <1>2, <2>1, <2>2
<1>7. t \in Seq(Unit) /\ Len(t) = nw /\ \A i \in 1..nw : t[i] = m[p + kw + i]
  <2> DEFINE j == p + kw
  <2>1. t = Part(m, j, nw) /\ j \in Nat /\ j + nw <= Len(m) /\ nw \in Nat
    BY <1>2, <1>5, <1>6
  <2> HIDE DEF j
  <2>2. /\ Part(m, j, nw) \in Seq(Unit) /\ Len(Part(m, j, nw)) = nw
        /\ \A i \in 1..nw : Part(m, j, nw)[i] = m[j + i]
    BY <1>1, <2>1, PartIs
  <2> QED
    BY <2>1, <2>2 DEF j
<1>8. ASSUME NEW i \in 1..nw PROVE kw + i \in 1..ew /\ t[i] = View(x)[kw + i] /\ t[i] \in Nat
  <2>1. kw + i \in 1..ew /\ p + kw + i = p + (kw + i)
    BY <1>2
  <2>2. View(x)[kw + i] = m[p + (kw + i)] /\ View(x)[kw + i] \in Nat
    BY <1>4, <2>1
  <2>3. t[i] = m[p + kw + i]
    BY <1>7
  <2> QED
    BY <2>1, <2>2, <2>3
<1>9. t \in Seq(Nat)
  <2>1. t \in [1..nw -> Nat]
    BY <1>7, <1>8, LenProperties
  <2> QED
    BY <1>2, <2>1, SeqOf
<1> QED
  BY <1>7, <1>8, <1>9 DEF t, nw, kw, ew, w, o

------------------------------------------------------------------------------
(* Where the operations that write put an array                             *)

\* What Placed says of an object, its memory and its elements.
LEMMA PlacedContents ==
  ASSUME Inv, NEW a \in Arrays, NEW o, NEW m, Placed(a, o, m), o.block # Gone
  PROVE  /\ Contents(o, width[a], m) \in Seq(Nat)
         /\ Len(Contents(o, width[a], m)) = o.size * width[a]
         /\ o.size * width[a] \in Nat
         /\ \A i \in 1..(o.size * width[a]) : /\ Contents(o, width[a], m)[i] = m[o.offset + i]
                                              /\ o.offset + i \in 1..Len(m)
<1>1. width[a] \in Nat
  BY SArrayAssumption DEF Inv
<1>2. o \in Object /\ m \in Seq(Unit) /\ o.size <= o.capacity /\ Fits(o, width[a], m)
  BY DEF Placed
<1> QED
  BY <1>1, <1>2, ContentsAre

\* An array may write t, behind k units, inside its capacity.
LEMMA PlacedWrite ==
  ASSUME Inv, NEW a \in Arrays, NEW o, NEW m, Placed(a, o, m),
         NEW k \in Nat, NEW t \in Seq(Nat), k + Len(t) <= o.capacity * width[a]
  PROVE  Placed(a, o, Write(m, o.offset + k, t))
<1> DEFINE w == width[a]
           p == o.offset
           c == o.capacity * w
           e == o.size * w
           l == Len(t)
           n == Write(m, p + k, t)
<1>1. /\ o \in Object /\ m \in Seq(Unit) /\ o.size <= o.capacity
      /\ o.block # Gone => p + c <= Len(m) /\ \A i \in 1..e : m[p + i] # Garbage
  BY DEF Placed, Fits
<1>2. p \in Nat /\ c \in Nat /\ e \in Nat /\ l \in Nat /\ Len(m) \in Nat /\ k + l <= c /\ e <= c
  <2>1. w \in Nat /\ o.size \in Nat /\ o.capacity \in Nat
    BY <1>1, SArrayAssumption DEF Inv, Object
  <2> QED
    BY <1>1, <2>1, LenProperties, Products DEF Object
<1>3. Room(o, w) = (p + 1)..(p + c)
  BY DEF Room
<1>4. Fits(o, w, n) <=> p + c <= Len(n) /\ \A i \in 1..e : n[p + i] # Garbage
  BY DEF Fits
<1>5. \A i \in 1..l : t[i] \in Nat /\ t[i] # Garbage
  BY ElementOfSeq DEF Garbage
<1> HIDE DEF w, p, c, e, l
<1>6. /\ n \in Seq(Unit) /\ Len(n) = Len(m)
      /\ \A i \in 1..Len(m) : n[i] = IF i \in (p + k + 1)..(p + k + l) THEN t[i - (p + k)] ELSE m[i]
  <2>1. p + k \in Nat
    BY <1>2
  <2> QED
    BY <1>1, <2>1, WriteIs DEF l
<1> HIDE DEF n
<1>7. ASSUME NEW i \in 1..Len(m)
      PROVE  n[i] = m[i] \/ (n[i] # Garbage /\ i \in (p + 1)..(p + c))
  <2>1. CASE i \in (p + k + 1)..(p + k + l)
    <3>1. i - (p + k) \in 1..l /\ i \in (p + 1)..(p + c)
      BY <1>2, <2>1
    <3> QED
      BY <1>5, <1>6, <2>1, <3>1
  <2>2. CASE i \notin (p + k + 1)..(p + k + l)
    BY <1>6, <2>2
  <2> QED
    BY <2>1, <2>2
<1>8. o.block # Gone => Fits(o, w, n)
  <2> SUFFICES ASSUME o.block # Gone PROVE p + c <= Len(n) /\ \A i \in 1..e : n[p + i] # Garbage
    BY <1>4
  <2>1. \A i \in 1..e : p + i \in 1..Len(m)
    BY <1>1, <1>2
  <2> QED
    BY <1>1, <1>6, <1>7, <2>1
<1>9. CASE o.block = NewBlock
  BY <1>1, <1>6, <1>8, <1>9 DEF Placed, w, n, p
<1>10. CASE o.block # NewBlock
  <2>1. /\ o.block = objects[a].block /\ o.offset = objects[a].offset
        /\ o.capacity = objects[a].capacity /\ o.owns = objects[a].owns
        /\ Len(m) = Len(heap[o.block])
        /\ \A i \in 1..Len(m) : m[i] # heap[o.block][i] => m[i] # Garbage /\ i \in Room(o, w)
    BY <1>10 DEF Placed, w
  <2>2. \A i \in 1..Len(n) : n[i] # heap[o.block][i] => n[i] # Garbage /\ i \in Room(o, w)
    BY <1>3, <1>6, <1>7, <2>1
  <2> QED
    BY <1>1, <1>6, <1>8, <2>1, <2>2 DEF Placed, w, n, p
<1> QED
  BY <1>9, <1>10

\* The elements after such a write, if it stays among them.
LEMMA WrittenContents ==
  ASSUME Inv, NEW a \in Arrays, NEW o, NEW m, Placed(a, o, m), o.block # Gone,
         NEW k \in Nat, NEW t \in Seq(Nat), k + Len(t) <= o.size * width[a]
  PROVE  /\ Placed(a, o, Write(m, o.offset + k, t))
         /\ \A i \in 1..(o.size * width[a]) :
               Contents(o, width[a], Write(m, o.offset + k, t))[i] =
                   IF i \in (k + 1)..(k + Len(t)) THEN t[i - k] ELSE Contents(o, width[a], m)[i]
<1> DEFINE w == width[a]
           p == o.offset
           e == o.size * w
           l == Len(t)
           n == Write(m, p + k, t)
<1>1. Placed(a, o, n)
  <2>1. w \in Nat /\ o.size \in Nat /\ o.capacity \in Nat /\ o.size <= o.capacity
    BY SArrayAssumption DEF Inv, Object, Placed
  <2>2. e \in Nat /\ o.capacity * w \in Nat /\ e <= o.capacity * w
    BY <2>1, Products
  <2>3. l \in Nat /\ k + l <= o.capacity * w
    BY <2>2, LenProperties
  <2> QED
    BY <2>3, PlacedWrite
<1>2. /\ e \in Nat
      /\ \A i \in 1..e : Contents(o, w, m)[i] = m[p + i] /\ p + i \in 1..Len(m)
      /\ \A i \in 1..e : Contents(o, w, n)[i] = n[p + i]
  <2> HIDE DEF n
  <2> QED
    BY <1>1, PlacedContents
<1>3. p \in Nat /\ l \in Nat /\ m \in Seq(Unit)
  BY LenProperties DEF Placed, Object
<1> HIDE DEF w, p, e, l
<1>4. \A i \in 1..Len(m) : n[i] = IF i \in (p + k + 1)..(p + k + l) THEN t[i - (p + k)] ELSE m[i]
  <2>1. p + k \in Nat
    BY <1>3
  <2> QED
    BY <1>3, <2>1, WriteIs DEF l
<1> HIDE DEF n
<1>5. ASSUME NEW i \in 1..e
      PROVE  Contents(o, w, n)[i] = IF i \in (k + 1)..(k + l) THEN t[i - k] ELSE Contents(o, w, m)[i]
  <2>1. PICK j \in 1..Len(m) : j = p + i
    BY <1>2
  <2>2. n[j] = IF j \in (p + k + 1)..(p + k + l) THEN t[j - (p + k)] ELSE m[j]
    BY <1>4
  <2>3. j - (p + k) = i - k /\ (j \in (p + k + 1)..(p + k + l) <=> i \in (k + 1)..(k + l))
    BY <1>2, <1>3, <2>1
  <2>4. Contents(o, w, m)[i] = m[j] /\ Contents(o, w, n)[i] = n[j]
    BY <1>2, <2>1
  <2> QED
    BY <2>2, <2>3, <2>4
<1> QED
  BY <1>1, <1>5 DEF n, p, e, l, w

\* size_ may be set back.
LEMMA PlacedSize ==
  ASSUME Inv, NEW a \in Arrays, NEW o, NEW m, Placed(a, o, m), NEW n \in Nat, n <= o.size
  PROVE  /\ Placed(a, [o EXCEPT !.size = n], m)
         /\ [o EXCEPT !.size = n].block = o.block /\ [o EXCEPT !.size = n].size = n
         /\ [o EXCEPT !.size = n].offset = o.offset /\ [o EXCEPT !.size = n].capacity = o.capacity
<1> DEFINE q == [o EXCEPT !.size = n]
           w == width[a]
<1>1. o \in Object
  BY DEF Placed
<1>2. /\ q \in Object /\ q.block = o.block /\ q.size = n /\ q.offset = o.offset
      /\ q.capacity = o.capacity /\ q.owns = o.owns
  BY <1>1 DEF Object
<1>3. w \in Nat /\ o.size \in Nat /\ o.capacity \in Nat
  BY <1>1, SArrayAssumption DEF Inv, Object
<1> HIDE DEF q, w
<1>4. n * w <= o.size * w /\ n * w \in Nat /\ o.size * w \in Nat
  BY <1>3, Products
<1>5. q.block # Gone => Fits(q, w, m)
  BY <1>2, <1>4 DEF Placed, Fits, w
<1>6. q.size <= q.capacity
  BY <1>2, <1>3 DEF Placed
<1>7. Room(q, w) = Room(o, w)
  BY <1>2 DEF Room
<1>8. Placed(a, q, m)
  BY <1>2, <1>5, <1>6, <1>7 DEF Placed, w
<1> QED
  BY <1>2, <1>8 DEF q

\* What resize makes of an array: it is placed, and its elements are the old
\* ones and, behind them, the value it fills up with.
LEMMA ResizedIs ==
  ASSUME Inv, NEW a \in Arrays, NEW size \in Nat, NEW val \in Nat, ~UsesFreed(a, size),
         NEW r, r = Resized(a, size, val)
  PROVE  /\ Placed(a, r.object, r.memory)
         /\ r.object.size = size /\ size <= r.object.capacity
         /\ r.object.block # Gone \/ (Dangling(a) /\ size <= objects[a].size /\ size <= objects[a].capacity)
         /\ r.object.block # Gone =>
               /\ Len(View(a)) = objects[a].size * width[a]
               /\ \A i \in 1..(size * width[a]) :
                     Contents(r.object, width[a], r.memory)[i] =
                         IF i <= objects[a].size * width[a] THEN View(a)[i]
                         ELSE IF (i - objects[a].size * width[a] - 1) % width[a] = 0 THEN val ELSE 0
<1> DEFINE o == objects[a]
           w == width[a]
           e == o.size * w
           z == size * w
           fill == IF size <= o.size THEN <<>> ELSE Units(a, [i \in 1..(size - o.size) |-> val])
<1>1. /\ o \in Object /\ o.size \in Nat /\ o.capacity \in Nat /\ o.offset \in Nat /\ o.block \in Blocks
      /\ w \in Nat \ {0} /\ o.size <= o.capacity /\ o.block # NewBlock
      /\ e \in Nat /\ z \in Nat /\ heap[o.block] \in Seq(Unit)
  <2>1. o \in Object /\ w \in Nat \ {0} /\ o.size <= o.capacity /\ o.block # NewBlock
    BY SArrayAssumption DEF Inv, WellFormed
  <2>2. o.size \in Nat /\ o.capacity \in Nat /\ o.offset \in Nat /\ o.block \in Blocks
    BY <2>1 DEF Object
  <2>3. e \in Nat /\ z \in Nat
    BY <2>1, <2>2, Products
  <2> QED
    BY <2>1, <2>2, <2>3 DEF Inv, WellFormed
<1>2. /\ fill \in Seq(Nat)
      /\ Len(fill) = IF size <= o.size THEN 0 ELSE z - e
      /\ size <= o.size => z <= e
      /\ o.size < size => e <= z
      /\ \A i \in 1..Len(fill) : fill[i] = IF (i - 1) % w = 0 THEN val ELSE 0
  <2>1. CASE size <= o.size
    <3>1. fill = <<>>
      BY <2>1
    <3>2. fill \in Seq(Nat) /\ Len(fill) = 0
      BY <3>1, EmptySeq
    <3>3. z <= e
      BY <1>1, <2>1, Products
    <3> QED
      BY <1>1, <2>1, <3>2, <3>3
  <2>2. CASE o.size < size
    <3>1. fill = Units(a, [i \in 1..(size - o.size) |-> val])
      BY <1>1, <2>2
    <3>2. size - o.size \in Nat /\ (size - o.size) * w = z - e /\ e <= z
      <4>1. o.size <= size
        BY <1>1, <2>2
      <4>2. /\ size - o.size \in Nat /\ (size - o.size) * w = size * w - o.size * w
            /\ o.size * w <= size * w
        <5> DEFINE l == o.size
        <5>1. l \in Nat /\ l <= size /\ w \in Nat
          BY <1>1, <4>1
        <5> HIDE DEF o, w, l
        <5>2. size - l \in Nat /\ (size - l) * w = size * w - l * w
          BY <5>1, Products
        <5>3. l * w <= size * w
          BY <5>1, Products
        <5> QED
          BY <5>2, <5>3 DEF l
      <4> QED
        BY <4>2
    <3>3. /\ fill \in Seq(Nat) /\ Len(fill) = (size - o.size) * w
          /\ \A i \in 1..((size - o.size) * w) : fill[i] = IF (i - 1) % w = 0 THEN val ELSE 0
      <4> DEFINE n == size - o.size
      <4>1. n \in Nat
        BY <3>2
      <4> HIDE DEF n
      <4>2. /\ Units(a, [i \in 1..n |-> val]) \in Seq(Nat)
            /\ Len(Units(a, [i \in 1..n |-> val])) = n * width[a]
            /\ \A i \in 1..(n * width[a]) :
                  Units(a, [j \in 1..n |-> val])[i] = IF (i - 1) % width[a] = 0 THEN val ELSE 0
        BY <4>1, FillIs
      <4> QED
        BY <3>1, <4>2 DEF n
    <3> HIDE DEF fill, o, w, e, z
    <3> QED
      BY <1>1, <2>2, <3>2, <3>3
  <2> HIDE DEF fill, o, w, e, z
  <2> QED
    BY <1>1, <2>1, <2>2
<1>3. r = IF o.capacity >= size
          THEN [object |-> [o EXCEPT !.size = size],
                memory |-> Write(heap[o.block], o.offset + e, fill)]
          ELSE [object |-> Reset(size), memory |-> View(a) \o fill \o [i \in 1..(Spare * w) |-> Garbage]]
  BY DEF Resized
<1> HIDE DEF fill
<1>4. Dangling(a) <=> o.block = Gone
  BY DEF Dangling
<1>5. CASE o.capacity >= size
  <2> DEFINE q == [o EXCEPT !.size = size]
             m == heap[o.block]
  <2>1. r.object = q /\ r.memory = Write(m, o.offset + e, fill)
    BY <1>3, <1>5
  <2>2. /\ q \in Object /\ q.block = o.block /\ q.size = size /\ q.offset = o.offset
        /\ q.capacity = o.capacity /\ q.owns = o.owns
    BY <1>1 DEF Object
  <2>3. e + Len(fill) <= o.capacity * w /\ z <= o.capacity * w
    <3>1. e <= o.capacity * w /\ z <= o.capacity * w /\ o.capacity * w \in Nat
      BY <1>1, <1>5, Products
    <3> HIDE DEF e, z, o, w
    <3> QED
      BY <1>1, <1>2, <3>1
  <2> DEFINE n == Write(m, o.offset + e, fill)
  <2>4. Placed(a, o, n)
    <3>1. Placed(a, o, m)
      BY <1>1, <1>4 DEF Placed, Inv, WellFormed
    <3> HIDE DEF m, e, o
    <3> QED
      BY <1>1, <1>2, <2>3, <3>1, PlacedWrite
  <2>5. /\ n \in Seq(Unit) /\ Len(n) = Len(m)
        /\ \A i \in 1..Len(m) : n[i] = IF i \in (o.offset + e + 1)..(o.offset + e + Len(fill))
                                       THEN fill[i - (o.offset + e)] ELSE m[i]
    <3> DEFINE p == o.offset + e
    <3>1. p \in Nat /\ m \in Seq(Unit)
      BY <1>1
    <3> HIDE DEF m, e, o, p
    <3>2. /\ n \in Seq(Unit) /\ Len(n) = Len(m)
          /\ \A i \in 1..Len(m) : n[i] = IF i \in (p + 1)..(p + Len(fill)) THEN fill[i - p] ELSE m[i]
      BY <1>2, <3>1, WriteIs DEF p
    <3> QED
      BY <3>2 DEF p
  <2> HIDE DEF n
  <2>6. CASE o.block # Gone
    <3>1. /\ Len(View(a)) = e /\ View(a) \in Seq(Nat)
          /\ \A i \in 1..e : View(a)[i] = m[o.offset + i]
      BY <1>4, <2>6, ViewSeq
    <3>2. o.offset + o.capacity * w <= Len(m) /\ Len(m) \in Nat /\ o.capacity * w \in Nat
      BY <1>1, <2>6, LenProperties, Products DEF Inv, WellFormed, Fits
    <3>3. ASSUME NEW i \in 1..z
          PROVE  /\ n[o.offset + i] = IF i <= e THEN View(a)[i] ELSE IF (i - e - 1) % w = 0 THEN val ELSE 0
                 /\ n[o.offset + i] # Garbage
      <4> DEFINE p == o.offset
                 j == p + i
      <4> HIDE DEF o, m, e, z
      <4>1. j \in 1..Len(m) /\ p \in Nat /\ j = p + i
        <5> DEFINE c == o.capacity * w
                   l == Len(m)
        <5>1. c \in Nat /\ l \in Nat /\ p \in Nat /\ z \in Nat /\ z <= c /\ p + c <= l
          BY <1>1, <2>3, <3>2
        <5> HIDE DEF c, l, p
        <5>2. p + i \in 1..l
          BY <5>1
        <5> QED
          BY <5>1, <5>2 DEF l
      <4> HIDE DEF j
      <4>2. n[j] = IF j \in (p + e + 1)..(p + e + Len(fill)) THEN fill[j - (p + e)] ELSE m[j]
        BY <2>5, <4>1
      <4>3. CASE i <= e
        <5>1. j \notin (p + e + 1)..(p + e + Len(fill))
          BY <1>1, <1>2, <4>1, <4>3
        <5>2. n[j] = m[p + i]
          BY <4>1, <4>2, <5>1
        <5>3. n[j] = View(a)[i] /\ View(a)[i] \in Nat
          <6>1. i \in 1..e
            BY <4>3
          <6> QED
            BY <3>1, <5>2, <6>1, ElementOfSeq
        <5> QED
          BY <4>1, <4>3, <5>3 DEF Garbage, j
      <4>4. CASE i > e
        <5>1. o.size < size /\ Len(fill) = z - e
          BY <1>1, <1>2, <4>4
        <5>2. j \in (p + e + 1)..(p + e + Len(fill)) /\ j - (p + e) = i - e /\ i - e \in 1..Len(fill)
          <6>1. e \in Nat /\ z \in Nat
            BY <1>1
          <6> HIDE DEF p
          <6> QED
            BY <4>1, <4>4, <5>1, <6>1
        <5>3. n[j] = fill[i - e]
          BY <4>2, <5>2
        <5>4. fill[i - e] = IF (i - e - 1) % w = 0 THEN val ELSE 0
          BY <1>2, <5>2
        <5> QED
          <6>1. ~(i <= e)
            BY <1>1, <4>4
          <6> QED
            BY <5>3, <5>4, <6>1 DEF Garbage, j
      <4>5. i <= e \/ i > e
        BY <1>1
      <4> QED
        BY <4>3, <4>4, <4>5
    <3>4. Fits(q, w, n)
      <4>1. q.size * w = z /\ q.offset + q.capacity * w <= Len(n)
        BY <2>2, <2>5, <3>2
      <4> HIDE DEF q, o, w, z
      <4> QED
        BY <2>2, <3>3, <4>1 DEF Fits
    <3>5. Placed(a, q, n)
      <4> HIDE DEF q, o
      <4>1. Room(q, w) = Room(o, w)
        BY <2>2 DEF Room
      <4> QED
        BY <1>5, <2>2, <2>4, <3>4, <4>1 DEF Placed
    <3>6. \A i \in 1..z : Contents(q, w, n)[i] = n[o.offset + i]
      <4>1. \A i \in 1..(q.size * w) : Contents(q, w, n)[i] = n[q.offset + i]
        <5> HIDE DEF q
        <5> QED
          BY <2>2, <2>6, <3>5, PlacedContents
      <4> QED
        BY <2>2, <4>1
    <3> HIDE DEF q
    <3> QED
      BY <1>5, <2>1, <2>2, <2>6, <3>1, <3>3, <3>5, <3>6 DEF n
  <2>7. CASE o.block = Gone
    <3>1. size <= o.size
      BY <1>1, <1>4, <1>5, <2>7 DEF UsesFreed
    <3>2. Placed(a, q, n)
      <4> HIDE DEF q, o
      <4>1. Room(q, w) = Room(o, w)
        BY <2>2 DEF Room
      <4> QED
        BY <1>5, <2>2, <2>4, <2>7, <4>1 DEF Placed
    <3> HIDE DEF q
    <3> QED
      BY <1>4, <1>5, <2>1, <2>2, <2>7, <3>1, <3>2 DEF n
  <2> QED
    BY <2>6, <2>7
<1>6. CASE o.capacity < size
  <2> DEFINE q == Reset(size)
             v == View(a)
             g == [i \in 1..(Spare * w) |-> Garbage]
             m == v \o fill \o g
  <2>1. r.object = q /\ r.memory = m
    <3>1. r = [object |-> q, memory |-> m]
      BY <1>1, <1>3, <1>6
    <3> HIDE DEF q, m
    <3> QED
      BY <3>1
  <2>2. v \in Seq(Nat) /\ Len(v) = e
    <3>1. CASE o.block = Gone
      <4>1. o.size = 0
        BY <1>1, <1>4, <1>6, <3>1 DEF UsesFreed
      <4>2. e = 0 /\ v = <<>>
        BY <1>1, <1>4, <3>1, <4>1, ViewSeq
      <4> QED
        BY <4>2, EmptySeq
    <3>2. CASE o.block # Gone
      BY <1>4, <3>2, ViewSeq
    <3> QED
      BY <3>1, <3>2
  <2>3. g \in Seq(Unit) /\ Len(g) = Spare * w /\ Spare * w \in Nat
    <3>1. Spare * w \in Nat
      BY <1>1, SArrayAssumption, Products
    <3>2. g \in [1..(Spare * w) -> Unit]
      BY DEF Unit
    <3> HIDE DEF g
    <3> QED
      BY <3>1, <3>2, SeqOf
  <2>4. /\ q \in Object /\ q.block = NewBlock /\ q.offset = 0 /\ q.size = size /\ q.capacity = size
    BY NamesApart DEF Reset, Object
  <2>5. o.size < size /\ Len(fill) = z - e /\ e <= z
    BY <1>1, <1>2, <1>6
  <2> HIDE DEF g, v
  <2>6. v \in Seq(Unit) /\ fill \in Seq(Unit)
    BY <1>2, <2>2, SeqMonotonic DEF Unit
  <2>7. /\ v \o fill \in Seq(Unit) /\ Len(v \o fill) = z
        /\ \A i \in 1..z : (v \o fill)[i] = IF i <= e THEN v[i] ELSE fill[i - e]
    <3> HIDE DEF e, z
    <3>1. Len(v) + Len(fill) = z
      BY <1>1, <2>2, <2>5
    <3> QED
      BY <2>2, <2>6, <3>1, ConcatProperties
  <2>8. /\ m \in Seq(Unit) /\ Len(m) = z + Spare * w
        /\ \A i \in 1..z : m[i] = IF i <= e THEN v[i] ELSE fill[i - e]
    <3> DEFINE f == v \o fill
    <3> HIDE DEF e, z, f
    <3>1. /\ f \o g \in Seq(Unit) /\ Len(f \o g) = z + Spare * w
          /\ \A i \in 1..(z + Spare * w) : (f \o g)[i] = IF i <= z THEN f[i] ELSE g[i - z]
      <4> DEFINE l == Spare * w
      <4>1. f \in Seq(Unit) /\ Len(f) = z /\ g \in Seq(Unit) /\ Len(g) = l
        BY <2>3, <2>7 DEF f
      <4> HIDE DEF l
      <4>2. /\ f \o g \in Seq(Unit) /\ Len(f \o g) = z + l
            /\ \A i \in 1..(z + l) : (f \o g)[i] = IF i <= z THEN f[i] ELSE g[i - z]
        BY <4>1, ConcatIs
      <4> QED
        BY <4>2 DEF l
    <3>2. \A i \in 1..z : (f \o g)[i] = f[i]
      BY <1>1, <2>3, <3>1
    <3> QED
      BY <2>7, <3>1, <3>2 DEF f
  <2>9. ASSUME NEW i \in 1..z
        PROVE  /\ m[i] = IF i <= e THEN v[i] ELSE IF (i - e - 1) % w = 0 THEN val ELSE 0
               /\ m[i] # Garbage
    <3> HIDE DEF e, z, m
    <3>1. CASE i <= e
      <4>1. i \in 1..e /\ v[i] \in Nat
        BY <1>1, <2>2, <3>1, ElementOfSeq
      <4> QED
        BY <2>8, <3>1, <4>1 DEF Garbage
    <3>2. CASE i > e
      <4>1. i - e \in 1..Len(fill)
        BY <1>1, <2>5, <3>2
      <4>2. m[i] = fill[i - e]
        BY <1>1, <2>8, <3>2
      <4>3. fill[i - e] = IF (i - e - 1) % w = 0 THEN val ELSE 0
        BY <1>2, <4>1
      <4> QED
        BY <1>1, <3>2, <4>2, <4>3 DEF Garbage
    <3>3. i <= e \/ i > e
      BY <1>1
    <3> QED
      BY <3>1, <3>2, <3>3
  <2>10. Fits(q, w, m)
    <3>1. q.size * w = z /\ q.capacity * w = z /\ q.offset = 0
      BY <2>4
    <3> HIDE DEF q, m, z
    <3>2. q.offset + q.capacity * w <= Len(m)
      BY <1>1, <2>3, <2>8, <3>1
    <3>3. \A i \in 1..z : 0 + i = i
      BY <1>1
    <3> QED
      BY <2>9, <3>1, <3>2, <3>3 DEF Fits
  <2>11. Placed(a, q, m)
    <3> HIDE DEF q, m
    <3> QED
      BY <2>4, <2>8, <2>10 DEF Placed
  <2>12. \A i \in 1..z : Contents(q, w, m)[i] = m[i]
    <3>1. \A i \in 1..(q.size * w) : Contents(q, w, m)[i] = m[q.offset + i]
      <4> HIDE DEF q, m
      <4> QED
        BY <2>4, <2>11, NamesApart, PlacedContents
    <3>2. \A i \in 1..z : 0 + i = i
      BY <1>1
    <3> HIDE DEF m
    <3> QED
      BY <2>4, <3>1, <3>2
  <2> HIDE DEF q, m
  <2> QED
    BY <2>1, <2>2, <2>4, <2>9, <2>11, <2>12, NamesApart DEF v
<1> QED
  BY <1>1, <1>5, <1>6

------------------------------------------------------------------------------
(* Operations                                                               *)

\* The operation on a succeeds, with the elements it should have.
Succeeds(a, elements) ==
    /\ UNCHANGED fault
    /\ Inv'
    /\ Stays(a)
    /\ ~(Dangling(a)') => View(a)' = elements

\* Why an operation on a with the argument b may fail.
Excuse(a, b, what) ==
    /\ what # "none"
    /\ what = "use after free" => \/ a = b /\ objects[a].size = objects[a].capacity /\ LastOwner(a)
                                  \/ \E x \in Arrays : ~objects[x].owns
    /\ what = "use after reset" => \/ a = b /\ LastOwner(a)
                                   \/ \E x \in Arrays : ~objects[x].owns
    /\ what = "overlapping memcpy" => b # None /\ (a = b \/ SameBlock(a, b))

Outcome(a, b, elements) == (\E what : Fails(what) /\ Excuse(a, b, what)) \/ Succeeds(a, elements)

\* What is gone is not owned.
LEMMA GoneExcuses ==
  ASSUME Inv, NEW x \in Arrays, Dangling(x), NEW a, NEW b
  PROVE  Excuse(a, b, "use after free")
<1>1. ~objects[x].owns
  BY DEF Inv, WellFormed, Dangling
<1> QED
  BY <1>1 DEF Excuse

\* The types of an array.
LEMMA ArrayTypes ==
  ASSUME Inv, NEW x \in Arrays
  PROVE  /\ objects[x] \in Object /\ objects[x].block \in Blocks /\ objects[x].block # NewBlock
         /\ objects[x].offset \in Nat /\ objects[x].size \in Nat /\ objects[x].capacity \in Nat
         /\ objects[x].owns \in BOOLEAN
         /\ width[x] \in Nat \ {0}
         /\ objects[x].size <= objects[x].capacity
         /\ region[x] \in SUBSET Nat
<1>1. objects[x] \in Object
  BY DEF Inv, WellFormed
<1>2. width[x] \in Nat \ {0}
  BY SArrayAssumption DEF Inv
<1> QED
  BY <1>1, <1>2 DEF Inv, WellFormed, Object

\* The first k units of a sequence.
LEMMA PrefixIs ==
  ASSUME NEW v \in Seq(Nat), NEW k \in Nat, k <= Len(v)
  PROVE  /\ SubSeq(v, 1, k) \in Seq(Nat) /\ Len(SubSeq(v, 1, k)) = k
         /\ \A i \in 1..k : SubSeq(v, 1, k)[i] = v[i]
<1>1. \A i \in 1..k : v[i] \in Nat
  BY LenProperties, ElementOfSeq
<1>2. /\ SubSeq(v, 1, k) \in Seq(Nat)
      /\ Len(SubSeq(v, 1, k)) = IF 1 <= k THEN k - 1 + 1 ELSE 0
      /\ \A i \in 1..(k - 1 + 1) : SubSeq(v, 1, k)[i] = v[1 + i - 1]
  BY <1>1, SubSeqProperties
<1> DEFINE t == SubSeq(v, 1, k)
<1> HIDE DEF t
<1>3. t \in Seq(Nat) /\ Len(t) = k
  BY <1>2 DEF t
<1>4. ASSUME NEW i \in 1..k PROVE t[i] = v[i]
  <2>1. i \in 1..(k - 1 + 1) /\ 1 + i - 1 = i
    OBVIOUS
  <2> QED
    BY <1>2, <2>1 DEF t
<1> QED
  BY <1>3, <1>4 DEF t

\* Units u and then t.
LEMMA UnitsThen ==
  ASSUME NEW u \in Seq(Nat), NEW t \in Seq(Nat), NEW k \in Nat, Len(u) = k
  PROVE  /\ u \o t \in Seq(Nat) /\ Len(u \o t) = k + Len(t)
         /\ \A i \in 1..(k + Len(t)) : (u \o t)[i] = IF i <= k THEN u[i] ELSE t[i - k]
<1>1. /\ u \o t \in Seq(Nat) /\ Len(u \o t) = Len(u) + Len(t)
      /\ \A i \in 1..(Len(u) + Len(t)) : (u \o t)[i] = IF i <= Len(u) THEN u[i] ELSE t[i - Len(u)]
  BY ConcatProperties, Zenon
<1> QED
  BY <1>1, Zenon

\* The first k units of v and then t.
LEMMA PrefixConcat ==
  ASSUME NEW v \in Seq(Nat), NEW k \in Nat, k <= Len(v), NEW t \in Seq(Nat),
         NEW c, c = SubSeq(v, 1, k) \o t
  PROVE  /\ c \in Seq(Nat)
         /\ Len(c) = k + Len(t)
         /\ \A i \in 1..(k + Len(t)) : c[i] = IF i <= k THEN v[i] ELSE t[i - k]
<1> DEFINE u == SubSeq(v, 1, k)
<1>1. u \in Seq(Nat) /\ Len(u) = k /\ \A i \in 1..k : u[i] = v[i]
  BY PrefixIs
<1> HIDE DEF u
<1>2. /\ u \o t \in Seq(Nat) /\ Len(u \o t) = k + Len(t)
      /\ \A i \in 1..(k + Len(t)) : (u \o t)[i] = IF i <= k THEN u[i] ELSE t[i - k]
  <2>1. u \in Seq(Nat) /\ Len(u) = k
    BY <1>1
  <2> QED
    BY <2>1, UnitsThen, SMTT(60)
<1>3. Len(t) \in Nat
  BY LenProperties
<1>4. \A i \in 1..(k + Len(t)) : i <= k => i \in 1..k
  BY <1>3
<1>5. \A i \in 1..(k + Len(t)) : (u \o t)[i] = IF i <= k THEN v[i] ELSE t[i - k]
  BY <1>1, <1>2, <1>4, Zenon
<1> QED
  BY <1>2, <1>5 DEF u

\* A sequence that is told unit by unit to be these.
LEMMA PrefixThen ==
  ASSUME NEW v \in Seq(Nat), NEW k \in Nat, k <= Len(v), NEW t \in Seq(Nat), NEW s \in Seq(Nat)
  PROVE  /\ Len(s) = k + Len(t)
         /\ \A i \in 1..Len(s) : s[i] = IF i \in (k + 1)..(k + Len(t)) THEN t[i - k] ELSE v[i]
         => s = SubSeq(v, 1, k) \o t
<1>0. PICK c : c = SubSeq(v, 1, k) \o t
  OBVIOUS
<1>1. /\ c \in Seq(Nat) /\ Len(c) = k + Len(t)
      /\ \A i \in 1..(k + Len(t)) : c[i] = IF i <= k THEN v[i] ELSE t[i - k]
  BY <1>0, PrefixConcat
<1>2. Len(t) \in Nat
  BY LenProperties
<1> SUFFICES ASSUME Len(s) = k + Len(t),
                    \A i \in 1..Len(s) : s[i] = IF i \in (k + 1)..(k + Len(t)) THEN t[i - k] ELSE v[i]
             PROVE  s = c
  BY <1>0
<1>3. ASSUME NEW i \in 1..Len(s) PROVE s[i] = c[i]
  <2>1. CASE i <= k
    <3>1. i \in 1..k /\ i \notin (k + 1)..(k + Len(t)) /\ i \in 1..(k + Len(t))
      BY <1>2, <2>1
    <3> QED
      BY <1>1, <2>1, <3>1
  <2>2. CASE i > k
    <3>1. i \in (k + 1)..(k + Len(t)) /\ ~(i <= k) /\ i \in 1..(k + Len(t))
      BY <1>2, <2>2
    <3> QED
      BY <1>1, <3>1
  <2> QED
    BY <1>2, <2>1, <2>2
<1> QED
  BY <1>1, <1>3, SeqEqual

\* resize keeps the elements there are.
LEMMA ResizedStarts ==
  ASSUME Inv, NEW a \in Arrays, NEW size \in Nat, ~UsesFreed(a, size), NEW r, r = Resized(a, size, 0)
  PROVE  /\ Placed(a, r.object, r.memory)
         /\ r.object.size = size /\ size <= r.object.capacity
         /\ r.object.block # Gone =>
               /\ Len(View(a)) = objects[a].size * width[a]
               /\ \A i \in 1..(size * width[a]) :
                     i <= objects[a].size * width[a] =>
                         Contents(r.object, width[a], r.memory)[i] = View(a)[i]
<1> DEFINE e == objects[a].size * width[a]
<1>1. PICK val \in Nat : val = 0
  OBVIOUS
<1>2. r = Resized(a, size, val)
  BY <1>1
<1>3. /\ Placed(a, r.object, r.memory)
      /\ r.object.size = size /\ size <= r.object.capacity
      /\ r.object.block # Gone =>
            /\ Len(View(a)) = e
            /\ \A i \in 1..(size * width[a]) :
                  Contents(r.object, width[a], r.memory)[i] =
                      IF i <= e THEN View(a)[i] ELSE IF (i - e - 1) % width[a] = 0 THEN val ELSE 0
  BY <1>2, ResizedIs
<1> HIDE DEF e
<1> QED
  BY <1>3, Zenon DEF e

\* o is the beginning of q, up to the end of t, which is written behind its
\* first k units.
LEMMA CutWritten ==
  ASSUME Inv, NEW a \in Arrays, NEW q, NEW o, NEW m, Placed(a, q, m), Placed(a, o, m),
         q.block # Gone, o.block # Gone, o.offset = q.offset, o.size <= q.size,
         NEW k \in Nat, NEW t \in Seq(Nat), k + Len(t) <= o.size * width[a]
  PROVE  \A i \in 1..(o.size * width[a]) :
            Contents(o, width[a], Write(m, q.offset + k, t))[i] =
                IF i \in (k + 1)..(k + Len(t)) THEN t[i - k] ELSE Contents(q, width[a], m)[i]
<1> DEFINE w == width[a]
           d == Contents(o, w, m)
           f == Contents(q, w, m)
           c == Contents(o, w, Write(m, o.offset + k, t))
<1>1. \A i \in 1..(o.size * w) : c[i] = IF i \in (k + 1)..(k + Len(t)) THEN t[i - k] ELSE d[i]
  BY WrittenContents
<1>2. \A i \in 1..(o.size * w) : d[i] = m[o.offset + i]
  BY PlacedContents, Zenon
<1>3. \A i \in 1..(q.size * w) : f[i] = m[q.offset + i]
  BY PlacedContents, Zenon
<1> HIDE DEF c, d, f
<1>4. \A i \in 1..(o.size * w) : i \in 1..(q.size * w)
  <2>1. o.size \in Nat /\ q.size \in Nat /\ w \in Nat
    BY ArrayTypes DEF Placed, Object
  <2> DEFINE x == o.size * w
             y == q.size * w
  <2>2. x \in Nat /\ y \in Nat /\ x <= y
    BY <2>1, Products
  <2> HIDE DEF x, y
  <2>3. \A i \in 1..x : i \in 1..y
    BY <2>2
  <2> QED
    BY <2>3 DEF x, y
<1> HIDE DEF w
<1>5. ASSUME NEW i \in 1..(o.size * w)
      PROVE  c[i] = IF i \in (k + 1)..(k + Len(t)) THEN t[i - k] ELSE f[i]
  <2>1. d[i] = m[q.offset + i] /\ f[i] = m[q.offset + i]
    BY <1>2, <1>3, <1>4
  <2> QED
    BY <1>1, <2>1
<1> QED
  BY <1>5 DEF c, f, w

\* resize, then write t, which is n elements, behind the first at elements.
\* size_ ends at at + n.
LEMMA ResizedWrite ==
  ASSUME Inv, width' = width, NEW a \in Arrays, NEW at \in Nat, NEW n \in Nat, NEW to \in Nat,
         at <= objects[a].size, at + n <= to, ~UsesFreed(a, to),
         NEW t \in Seq(Nat), Len(t) = n * width[a],
         NEW r, r = Resized(a, to, 0),
         Continue(a, [r.object EXCEPT !.size = at + n],
                  Write(r.memory, r.object.offset + at * width[a], t))
  PROVE  Succeeds(a, SubSeq(View(a), 1, at * width[a]) \o t)
<1> DEFINE w == width[a]
           q == r.object
           o == [q EXCEPT !.size = at + n]
           k == at * w
           nw == n * w
           e == objects[a].size * w
           m == Write(r.memory, q.offset + k, t)
<1>1. /\ Placed(a, q, r.memory) /\ q.size = to /\ to <= q.capacity
      /\ q.block # Gone =>
            /\ Len(View(a)) = e
            /\ \A i \in 1..(to * w) : i <= e => Contents(q, w, r.memory)[i] = View(a)[i]
  BY ResizedStarts
<1>2. w \in Nat \ {0} /\ objects[a].size \in Nat /\ at + n \in Nat
  BY ArrayTypes
<1>3. /\ k \in Nat /\ nw \in Nat /\ e \in Nat /\ to * w \in Nat
      /\ (at + n) * w = k + nw /\ k + nw <= to * w /\ k <= e
  <2>1. (at + n) * w <= to * w
    BY <1>2, Products
  <2>2. k \in Nat /\ nw \in Nat /\ e \in Nat /\ to * w \in Nat
    BY <1>2, Products
  <2>3. (at + n) * w = k + nw
    BY <1>2, Products
  <2>4. k <= e
    BY <1>2, Products
  <2> HIDE DEF k, nw, e, w
  <2> QED
    BY <2>1, <2>2, <2>3, <2>4
<1>4. /\ Placed(a, o, r.memory) /\ o.block = q.block /\ o.size = at + n /\ o.offset = q.offset
      /\ o.capacity = q.capacity
  <2> HIDE DEF q
  <2> QED
    BY <1>1, <1>2, PlacedSize
<1>5. q.capacity \in Nat /\ k + Len(t) <= o.capacity * w
  <2>1. q.capacity \in Nat
    BY <1>1 DEF Placed, Object
  <2>2. to * w <= q.capacity * w /\ q.capacity * w \in Nat
    BY <1>1, <1>2, <2>1, Products
  <2> HIDE DEF o, q, w, k, nw
  <2> QED
    BY <1>3, <1>4, <2>1, <2>2 DEF nw, w
<1> HIDE DEF o, q
<1>6. Placed(a, o, m)
  <2> HIDE DEF k
  <2> QED
    BY <1>3, <1>4, <1>5, PlacedWrite
<1>7. /\ Inv' /\ Stays(a) /\ fault' = fault
      /\ ~(Dangling(a)') => o.block # Gone /\ View(a)' = Contents(o, w, m)
  <2>1. Continue(a, o, m)
    BY DEF o, q
  <2> HIDE DEF m
  <2> QED
    BY <1>6, <2>1, ContinueKeeps DEF Continue
<1>8. ASSUME o.block # Gone PROVE Contents(o, w, m) = SubSeq(View(a), 1, k) \o t
  <2> DEFINE c == Contents(o, w, m)
             f == Contents(q, w, r.memory)
  <2>1. c \in Seq(Nat) /\ Len(c) = k + nw
    <3> HIDE DEF m
    <3> QED
      BY <1>3, <1>4, <1>6, <1>8, PlacedContents
  <2>2. \A i \in 1..(k + nw) : c[i] = IF i \in (k + 1)..(k + Len(t)) THEN t[i - k] ELSE f[i]
    <3> DEFINE mm == r.memory
    <3>1. /\ Placed(a, q, mm) /\ Placed(a, o, mm) /\ q.block # Gone /\ o.block # Gone
          /\ o.offset = q.offset /\ o.size <= q.size /\ k \in Nat /\ k + Len(t) <= o.size * width[a]
      BY <1>1, <1>3, <1>4, <1>8
    <3>2. /\ c = Contents(o, width[a], Write(mm, q.offset + k, t)) /\ f = Contents(q, width[a], mm)
          /\ o.size * width[a] = k + nw
      BY <1>3, <1>4
    <3> HIDE DEF k, nw, mm, c, f
    <3>3. \A i \in 1..(o.size * width[a]) :
             Contents(o, width[a], Write(mm, q.offset + k, t))[i] =
                 IF i \in (k + 1)..(k + Len(t)) THEN t[i - k] ELSE Contents(q, width[a], mm)[i]
      <4>1. ASSUME NEW j \in Nat, j + Len(t) <= o.size * width[a]
            PROVE  \A i \in 1..(o.size * width[a]) :
                      Contents(o, width[a], Write(mm, q.offset + j, t))[i] =
                          IF i \in (j + 1)..(j + Len(t)) THEN t[i - j] ELSE Contents(q, width[a], mm)[i]
        BY <3>1, <4>1, CutWritten, SMTT(90)
      <4> QED
        BY <3>1, <4>1, Zenon
    <3> QED
      BY <3>2, <3>3, Zenon
  <2>3. ASSUME NEW i \in 1..k PROVE f[i] = View(a)[i]
    <3>1. i \in 1..(to * w) /\ i <= e
      <4> DEFINE z == to * w
      <4> HIDE DEF k, nw, w, e, z
      <4>1. i \in 1..z /\ i <= e
        BY <1>3 DEF z
      <4> QED
        BY <4>1 DEF z
    <3>2. q.block # Gone
      BY <1>4, <1>8
    <3> QED
      BY <1>1, <3>1, <3>2, Zenon
  <2>4. View(a) \in Seq(Nat) /\ Len(View(a)) = e
    BY <1>1, <1>4, <1>8, ViewSeq
  <2> HIDE DEF c, f, k, nw, e
  <2>5. ASSUME NEW i \in 1..Len(c)
        PROVE c[i] = IF i \in (k + 1)..(k + Len(t)) THEN t[i - k] ELSE View(a)[i]
    <3>1. i \in 1..(k + nw) /\ Len(t) = nw
      BY <2>1 DEF nw
    <3>2. i \notin (k + 1)..(k + Len(t)) => i \in 1..k
      BY <1>3, <3>1
    <3> QED
      BY <2>2, <2>3, <3>1, <3>2
  <2>6. Len(c) = k + Len(t)
    BY <2>1 DEF nw
  <2> QED
    BY <1>3, <2>1, <2>4, <2>5, <2>6, PrefixThen DEF c
<1> QED
  BY <1>7, <1>8 DEF Succeeds, k, w

\* resize
LEMMA ResizeOutcome ==
  ASSUME Inv, width' = width, NEW a \in Arrays, NEW size \in Nat, NEW val \in Nat,
         Resize(a, size, val)
  PROVE  Outcome(a, None, SubSeq(View(a) \o Units(a, [i \in 1..size |-> val]), 1, size * width[a]))
<1>1. CASE UsesFreed(a, size)
  BY <1>1, GoneExcuses DEF Resize, UsesFreed, Outcome
<1>2. CASE ~UsesFreed(a, size)
  <2> DEFINE r == Resized(a, size, val)
             o == r.object
             m == r.memory
             w == width[a]
             e == objects[a].size * w
             z == size * w
             v == View(a)
             u == Units(a, [i \in 1..size |-> val])
             c == Contents(o, w, m)
  <2>1. Continue(a, o, m)
    BY <1>2 DEF Resize
  <2>2. /\ Placed(a, o, m) /\ o.size = size
        /\ o.block # Gone =>
              /\ Len(v) = e
              /\ \A i \in 1..z : c[i] = IF i <= e THEN v[i] ELSE IF (i - e - 1) % w = 0 THEN val ELSE 0
    <3> HIDE DEF r
    <3> QED
      BY <1>2, ResizedIs DEF r
  <2>3. /\ Inv' /\ Stays(a) /\ fault' = fault
        /\ ~(Dangling(a)') => o.block # Gone /\ View(a)' = c
    <3> HIDE DEF o, m
    <3> QED
      BY <2>1, <2>2, ContinueKeeps DEF Continue
  <2>4. e \in Nat /\ z \in Nat
    BY ArrayTypes, Products
  <2>5. u \in Seq(Nat) /\ Len(u) = z /\ \A i \in 1..z : u[i] = IF (i - 1) % w = 0 THEN val ELSE 0
    BY FillIs
  <2>6. v \in Seq(Nat)
    BY ViewSeq
  <2>7. ASSUME o.block # Gone PROVE c = SubSeq(v \o u, 1, z)
    <3>1. c \in Seq(Nat) /\ Len(c) = z
      <4> HIDE DEF o, m
      <4> QED
        BY <2>2, <2>7, PlacedContents
    <3> HIDE DEF c, u, v, e, z, o, m, w
    <3> DEFINE x == v \o u
               y == SubSeq(x, 1, z)
    <3>2. /\ x \in Seq(Nat) /\ Len(x) = e + z
          /\ \A i \in 1..(e + z) : x[i] = IF i <= e THEN v[i] ELSE u[i - e]
      <4>1. v \in Seq(Nat) /\ u \in Seq(Nat) /\ Len(v) = e /\ Len(u) = z
        BY <2>2, <2>5, <2>6, <2>7
      <4> QED
        BY <4>1, ConcatProperties
    <3> HIDE DEF x
    <3>3. y \in Seq(Nat) /\ Len(y) = z /\ \A i \in 1..z : y[i] = x[i]
      BY <2>4, <3>2, PrefixIs
    <3> HIDE DEF y
    <3>4. ASSUME NEW i \in 1..z PROVE c[i] = y[i]
      <4>1. i \in 1..(e + z) /\ (~(i <= e) => i - e \in 1..z)
        BY <2>4
      <4>2. x[i] = IF i <= e THEN v[i] ELSE u[i - e]
        BY <3>2, <4>1
      <4>3. ~(i <= e) => u[i - e] = IF (i - e - 1) % w = 0 THEN val ELSE 0
        BY <2>5, <4>1
      <4> QED
        BY <2>2, <2>7, <3>3, <4>2, <4>3
    <3>5. c = y
      BY <3>1, <3>3, <3>4, SeqEqual
    <3> QED
      BY <3>5 DEF x, y
  <2> HIDE DEF c, o
  <2> QED
    BY <2>3, <2>7 DEF Outcome, Succeeds
<1> QED
  BY <1>1, <1>2

\* reserve
LEMMA ReserveOutcome ==
  ASSUME Inv, width' = width, NEW a \in Arrays, NEW size \in Nat, Reserve(a, size)
  PROVE  Outcome(a, None, View(a))
<1>1. CASE UsesFreed(a, size)
  BY <1>1, GoneExcuses DEF Reserve, UsesFreed, Outcome
<1>2. CASE ~UsesFreed(a, size)
  <2> DEFINE r == Resized(a, size, 0)
             q == r.object
             n == objects[a].size
             o == [q EXCEPT !.size = n]
             m == r.memory
             w == width[a]
             e == n * w
             v == View(a)
             c == Contents(o, w, m)
  <2>1. Continue(a, o, m) /\ objects[a].capacity < size
    BY <1>2 DEF Reserve
  <2>2. n \in Nat /\ n < size /\ w \in Nat /\ e \in Nat /\ size * w \in Nat /\ e <= size * w
    <3>1. n \in Nat /\ n < size /\ w \in Nat
      BY <2>1, ArrayTypes
    <3> HIDE DEF n, w
    <3> QED
      BY <3>1, Products
  <2>3. /\ Placed(a, q, m) /\ q.size = size
        /\ q.block # Gone =>
              /\ Len(v) = e
              /\ \A i \in 1..(size * w) :
                    Contents(q, w, m)[i] = IF i <= e THEN v[i] ELSE IF (i - e - 1) % w = 0 THEN 0 ELSE 0
    <3> HIDE DEF r
    <3> QED
      BY <1>2, ResizedIs DEF r
  <2> HIDE DEF r
  <2>4. Placed(a, o, m) /\ o.block = q.block /\ o.size = n /\ o.offset = q.offset
    <3> HIDE DEF q, m, n
    <3> QED
      BY <2>2, <2>3, PlacedSize
  <2> HIDE DEF o, m, q
  <2>5. /\ Inv' /\ Stays(a) /\ fault' = fault
        /\ ~(Dangling(a)') => o.block # Gone /\ View(a)' = c
    BY <2>1, <2>4, ContinueKeeps DEF Continue
  <2>6. ASSUME o.block # Gone PROVE c = v
    <3>1. c \in Seq(Nat) /\ Len(c) = e /\ \A i \in 1..e : c[i] = m[q.offset + i]
      BY <2>4, <2>6, PlacedContents
    <3>2. \A i \in 1..(size * w) : Contents(q, w, m)[i] = m[q.offset + i]
      BY <2>3, <2>4, <2>6, PlacedContents
    <3>3. v \in Seq(Nat) /\ Len(v) = e
      BY <2>3, <2>4, <2>6, ViewSeq
    <3> HIDE DEF c, v, e, w, n
    <3>4. ASSUME NEW i \in 1..e PROVE c[i] = v[i]
      <4>1. i \in 1..(size * w) /\ i <= e
        BY <2>2
      <4> QED
        BY <2>3, <2>4, <2>6, <3>1, <3>2, <4>1
    <3> QED
      BY <3>1, <3>3, <3>4, SeqEqual
  <2> HIDE DEF c
  <2> QED
    BY <2>5, <2>6 DEF Outcome, Succeeds
<1> QED
  BY <1>1, <1>2

\* The elements of an array, if they are there.
LEMMA WholeView ==
  ASSUME Inv, NEW a \in Arrays, ~Dangling(a) \/ objects[a].size = 0
  PROVE  SubSeq(View(a), 1, objects[a].size * width[a]) = View(a)
<1>1. View(a) \in Seq(Nat) /\ objects[a].size * width[a] = Len(View(a))
  <2>1. CASE ~Dangling(a)
    BY <2>1, ViewSeq
  <2>2. CASE Dangling(a)
    BY <2>2, ViewSeq, EmptySeq, ArrayTypes
  <2> QED
    BY <2>1, <2>2
<1> QED
  BY <1>1, SubSeqFull

\* push_back makes room for one more element, and moves only a full array.
LEMMA NeededIs ==
  ASSUME Inv, NEW a \in Arrays
  PROVE  /\ Needed(a) \in Nat /\ objects[a].size + 1 <= Needed(a)
         /\ Needed(a) > objects[a].capacity => objects[a].size = objects[a].capacity
         /\ ~UsesFreed(a, Needed(a)) => ~Dangling(a) \/ objects[a].size = 0
<1>1. objects[a].size \in Nat /\ objects[a].capacity \in Nat /\ objects[a].size <= objects[a].capacity
  BY ArrayTypes
<1>2. GrowBy \in Nat \ {0}
  BY SArrayAssumption
<1>3. /\ Needed(a) \in Nat /\ objects[a].size + 1 <= Needed(a)
      /\ Needed(a) > objects[a].capacity => objects[a].size = objects[a].capacity
  BY <1>1, <1>2 DEF Needed
<1> QED
  BY <1>1, <1>3 DEF UsesFreed

\* push_back of the units s of one element
LEMMA PushUnitsSucceeds ==
  ASSUME Inv, width' = width, NEW a \in Arrays, NEW s \in Seq(Nat), Len(s) = width[a],
         ~UsesFreed(a, Needed(a)), PushUnits(a, s)
  PROVE  Succeeds(a, View(a) \o s)
<1> DEFINE r == Resized(a, Needed(a), 0)
           n == objects[a].size
<1>1. n \in Nat /\ Needed(a) \in Nat /\ n + 1 <= Needed(a) /\ n <= n
  BY NeededIs, ArrayTypes
<1>2. Len(s) = 1 * width[a]
  BY ArrayTypes
<1>3. Continue(a, [r.object EXCEPT !.size = n + 1], Write(r.memory, r.object.offset + n * width[a], s))
  BY DEF PushUnits
<1> HIDE DEF r, n
<1>4. r = Resized(a, Needed(a), 0) /\ n <= objects[a].size
  BY <1>1 DEF r, n
<1>5. Succeeds(a, SubSeq(View(a), 1, n * width[a]) \o s)
  BY <1>1, <1>2, <1>3, <1>4, ResizedWrite
<1>6. SubSeq(View(a), 1, n * width[a]) = View(a)
  BY NeededIs, WholeView DEF n
<1> QED
  BY <1>5, <1>6

\* push_back of a value of the caller's
LEMMA PushBackOutcome ==
  ASSUME Inv, width' = width, NEW a \in Arrays, NEW val \in Nat, PushBack(a, val)
  PROVE  Outcome(a, None, View(a) \o Units(a, <<val>>))
<1>1. CASE UsesFreed(a, Needed(a))
  BY <1>1, GoneExcuses DEF PushBack, UsesFreed, Outcome
<1>2. CASE ~UsesFreed(a, Needed(a))
  <2>1. <<val>> \in Seq(Nat) /\ Len(<<val>>) = 1
    OBVIOUS
  <2> DEFINE u == Units(a, <<val>>)
  <2>2. u \in Seq(Nat) /\ Len(u) = 1 * width[a]
    BY <2>1, UnitsAre
  <2>3. 1 * width[a] = width[a]
    BY ArrayTypes
  <2>4. PushUnits(a, u)
    BY <1>2 DEF PushBack
  <2> HIDE DEF u
  <2>5. Succeeds(a, View(a) \o u)
    BY <1>2, <2>2, <2>3, <2>4, PushUnitsSucceeds
  <2> QED
    BY <2>5 DEF Outcome, u
<1> QED
  BY <1>1, <1>2

\* push_back of an element of an array
LEMMA PushBackElementOutcome ==
  ASSUME Inv, width' = width, NEW a \in Arrays, NEW b \in Arrays, NEW i \in Nat,
         PushBackElement(a, b, i)
  PROVE  Outcome(a, b, View(a) \o Slice(b, i, 1))
<1>1. CASE UsesFreed(a, Needed(a)) \/ Dangling(b)
  BY <1>1, GoneExcuses DEF PushBackElement, UsesFreed, Outcome
<1>2. CASE SameBlock(a, b) /\ Frees(a, Needed(a))
  <2>1. Fails("use after free")
    BY <1>2 DEF PushBackElement
  <2>2. Excuse(a, b, "use after free")
    <3>1. CASE a = b
      BY <1>2, <3>1, NeededIs DEF Frees, Excuse
    <3>2. CASE a # b
      <4>1. ~objects[b].owns
        BY <1>2, <3>2 DEF Frees, LastOwner
      <4> QED
        BY <4>1 DEF Excuse
    <3> QED
      BY <3>1, <3>2
  <2> QED
    BY <2>1, <2>2 DEF Outcome
<1>3. CASE ~(UsesFreed(a, Needed(a)) \/ Dangling(b) \/ (SameBlock(a, b) /\ Frees(a, Needed(a))))
  <2> DEFINE u == Slice(b, i, 1)
  <2>1. PushUnits(a, u) /\ width[a] = width[b] /\ i < objects[b].size
    BY <1>3 DEF PushBackElement
  <2>2. i + 1 <= objects[b].size
    BY <2>1, ArrayTypes
  <2>3. u \in Seq(Nat) /\ Len(u) = 1 * width[b]
    BY <1>3, <2>2, SliceIs
  <2>4. 1 * width[b] = width[a]
    BY <2>1, ArrayTypes
  <2> HIDE DEF u
  <2>5. Succeeds(a, View(a) \o u)
    BY <1>3, <2>1, <2>3, <2>4, PushUnitsSucceeds
  <2> QED
    BY <2>5 DEF Outcome, u
<1> QED
  BY <1>1, <1>2, <1>3

\* Elements that can be read.
LEMMA SliceSeq ==
  ASSUME Inv, NEW b \in Arrays, NEW i \in Nat, NEW n \in Nat, i + n <= objects[b].size,
         n = 0 \/ ~Dangling(b)
  PROVE  Slice(b, i, n) \in Seq(Nat) /\ Len(Slice(b, i, n)) = n * width[b]
<1>1. CASE n = 0
  <2> DEFINE p == objects[b].offset
             w == width[b]
             iw == i * w
  <2>1. p \in Nat /\ w \in Nat /\ iw \in Nat /\ i + 0 = i /\ 0 * w = 0
    BY ArrayTypes, Products
  <2>2. Slice(b, i, n) = SubSeq(heap[objects[b].block], p + iw + 1, p + iw)
    BY <1>1, <2>1 DEF Slice
  <2> HIDE DEF p, iw
  <2>3. Slice(b, i, n) = <<>>
    <3>1. p + iw \in Nat
      BY <2>1
    <3> QED
      BY <2>2, <3>1, SubSeqEmpty
  <2> QED
    BY <1>1, <2>1, <2>3, EmptySeq
<1>2. CASE ~Dangling(b)
  BY <1>2, SliceIs
<1> QED
  BY <1>1, <1>2

\* Elements of an array that is gone cannot be copied.
LEMMA CopyElementsGone ==
  ASSUME Inv, NEW a \in Arrays, NEW b \in Arrays, NEW to, NEW at, NEW i, NEW n \in Nat, n > 0,
         Dangling(b), CopyElements(a, to, at, b, i, n), NEW elements
  PROVE  Outcome(a, b, elements)
<1>1. Fails("use after free")
  BY DEF CopyElements
<1> QED
  BY <1>1, GoneExcuses DEF Outcome

\* resize for n more elements than the first at, then memcpy of n elements of
\* b.  If b is a they fit where a is.
LEMMA CopyElementsOutcome ==
  ASSUME Inv, width' = width, NEW a \in Arrays, NEW b \in Arrays, width[a] = width[b],
         NEW at \in Nat, NEW n \in Nat, NEW to \in Nat, to = at + n,
         a = b => to <= objects[a].capacity,
         NEW i \in Nat, at <= objects[a].size, i + n <= objects[b].size, n = 0 \/ ~Dangling(b),
         CopyElements(a, to, at, b, i, n)
  PROVE  Outcome(a, b, SubSeq(View(a), 1, at * width[a]) \o Slice(b, i, n))
<1> DEFINE r == Resized(a, to, 0)
           w == width[a]
           t == Slice(b, i, n)
           inPlace == to <= objects[a].capacity
           freed == \/ UsesFreed(a, to)
                    \/ n > 0 /\ \/ Dangling(b)
                                \/ inPlace /\ Dangling(a)
                                \/ SameBlock(a, b) /\ Frees(a, to)
           overlap == inPlace /\ SameBlock(a, b) /\ Span(a, at, at + n) \cap Span(b, i, i + n) # {}
<1>1. IF freed THEN Fails("use after free")
      ELSE IF overlap THEN Fails("overlapping memcpy")
      ELSE Continue(a, r.object, Write(r.memory, r.object.offset + at * w, t))
  BY DEF CopyElements
<1>2. CASE freed
  <2>1. Excuse(a, b, "use after free")
    <3>1. CASE Dangling(a) \/ Dangling(b)
      BY <3>1, GoneExcuses
    <3>2. CASE SameBlock(a, b) /\ Frees(a, to)
      <4>1. a # b
        <5>1. to > objects[a].capacity /\ objects[a].capacity \in Nat
          BY <3>2, ArrayTypes DEF Frees
        <5> QED
          BY <5>1
      <4>2. ~objects[b].owns
        BY <3>2, <4>1 DEF Frees, LastOwner
      <4> QED
        BY <4>2 DEF Excuse
    <3> QED
      BY <1>2, <3>1, <3>2 DEF UsesFreed
  <2> HIDE DEF freed, overlap
  <2> QED
    BY <1>1, <1>2, <2>1 DEF Outcome
<1>3. CASE ~freed /\ overlap
  <2>1. Excuse(a, b, "overlapping memcpy")
    BY <1>3, NamesApart DEF Excuse
  <2> HIDE DEF freed, overlap
  <2> QED
    BY <1>1, <1>3, <2>1 DEF Outcome
<1>4. CASE ~freed /\ ~overlap
  <2>1. Continue(a, r.object, Write(r.memory, r.object.offset + at * w, t))
    <3> HIDE DEF freed, overlap
    <3> QED
      BY <1>1, <1>4
  <2>2. ~UsesFreed(a, to)
    BY <1>4
  <2>3. t \in Seq(Nat) /\ Len(t) = n * w
    BY SliceSeq
  <2>4. Placed(a, r.object, r.memory) /\ r.object.size = to
    <3> HIDE DEF r
    <3> QED
      BY <2>2, ResizedIs DEF r
  <2>5. [r.object EXCEPT !.size = at + n] = r.object
    <3> DEFINE o == r.object
    <3>1. o \in Object /\ o.size = at + n
      BY <2>4 DEF Placed
    <3> HIDE DEF r, o
    <3>2. [o EXCEPT !.size = at + n] = o
      BY <3>1 DEF Object
    <3> QED
      BY <3>2 DEF o
  <2> HIDE DEF r, t
  <2>6. r = Resized(a, to, 0) /\ at + n <= to
    BY DEF r
  <2>7. Succeeds(a, SubSeq(View(a), 1, at * w) \o t)
    <3>1. Continue(a, [r.object EXCEPT !.size = at + n], Write(r.memory, r.object.offset + at * w, t))
      BY <2>1, <2>5
    <3> QED
      BY <2>2, <2>3, <2>6, <3>1, ResizedWrite
  <2> QED
    BY <2>7 DEF Outcome, t
<1> HIDE DEF freed, overlap
<1> QED
  BY <1>2, <1>3, <1>4

\* append
LEMMA AppendArrayOutcome ==
  ASSUME Inv, width' = width, NEW a \in Arrays, NEW b \in Arrays, AppendArray(a, b)
  PROVE  Outcome(a, b, View(a) \o View(b))
<1>1. CASE a = b
  <2>1. Fails(IF Dangling(a) THEN "use after free" ELSE "overlapping memcpy")
    BY <1>1 DEF AppendArray
  <2>2. Excuse(a, b, IF Dangling(a) THEN "use after free" ELSE "overlapping memcpy")
    <3>1. CASE Dangling(a)
      BY <3>1, GoneExcuses
    <3>2. CASE ~Dangling(a)
      BY <1>1, <3>2, NamesApart DEF Excuse
    <3> QED
      BY <3>1, <3>2
  <2> QED
    BY <2>1, <2>2 DEF Outcome
<1>2. CASE a # b
  <2> DEFINE at == objects[a].size
             n == objects[b].size
             to == at + n
  <2>1. width[a] = width[b] /\ n > 0 /\ CopyElements(a, to, at, b, 0, n)
    BY <1>2 DEF AppendArray
  <2>2. at \in Nat /\ n \in Nat /\ to \in Nat /\ at <= at
    BY ArrayTypes
  <2>3. CASE UsesFreed(a, to)
    <3>1. Fails("use after free")
      BY <2>1, <2>3 DEF CopyElements
    <3> QED
      BY <2>3, <3>1, GoneExcuses DEF UsesFreed, Outcome
  <2>4. CASE Dangling(b)
    BY <2>1, <2>2, <2>4, CopyElementsGone
  <2>5. CASE ~UsesFreed(a, to) /\ ~Dangling(b)
    <3>1. ~Dangling(a) \/ at = 0
      BY <2>1, <2>2, <2>5 DEF UsesFreed
    <3>2. SubSeq(View(a), 1, at * width[a]) = View(a)
      BY <3>1, WholeView
    <3>3. Slice(b, 0, n) = View(b)
      BY <2>5 DEF View
    <3> HIDE DEF at, n, to
    <3>4. to = at + n /\ at <= objects[a].size /\ 0 + n <= objects[b].size /\ 0 \in Nat
      BY <2>2 DEF at, n, to
    <3>5. Outcome(a, b, SubSeq(View(a), 1, at * width[a]) \o Slice(b, 0, n))
      BY <1>2, <2>1, <2>2, <2>5, <3>4, CopyElementsOutcome
    <3> QED
      BY <3>2, <3>3, <3>5
  <2> QED
    BY <2>3, <2>4, <2>5
<1> QED
  BY <1>1, <1>2

\* What is written over all elements is all there is.
LEMMA NothingThen ==
  ASSUME Inv, NEW a \in Arrays, NEW t \in Seq(Nat)
  PROVE  SubSeq(View(a), 1, 0 * width[a]) \o t = t
<1>1. 0 * width[a] = 0
  BY ArrayTypes
<1>2. SubSeq(View(a), 1, 0) = <<>>
  BY SubSeqEmpty
<1> QED
  BY <1>1, <1>2, ConcatEmptySeq

\* CopyFrom(&b[i], n)
LEMMA CopyFromPointerOutcome ==
  ASSUME Inv, width' = width, NEW a \in Arrays, NEW b \in Arrays, NEW i \in Nat, NEW n \in Nat,
         CopyFromPointer(a, b, i, n)
  PROVE  Outcome(a, b, Slice(b, i, n))
<1>1. width[a] = width[b] /\ i + n <= objects[b].size /\ CopyElements(a, n, 0, b, i, n)
  BY DEF CopyFromPointer
<1>2. CASE n > 0 /\ Dangling(b)
  BY <1>1, <1>2, CopyElementsGone
<1>3. CASE n = 0 \/ ~Dangling(b)
  <2>1. /\ 0 \in Nat /\ n = 0 + n /\ 0 <= objects[a].size
        /\ a = b => n <= objects[a].capacity
    BY <1>1, ArrayTypes
  <2>2. Outcome(a, b, SubSeq(View(a), 1, 0 * width[a]) \o Slice(b, i, n))
    BY <1>1, <1>3, <2>1, CopyElementsOutcome
  <2>3. Slice(b, i, n) \in Seq(Nat)
    BY <1>1, <1>3, SliceSeq
  <2> QED
    BY <2>2, <2>3, NothingThen
<1> QED
  BY <1>2, <1>3

\* CopyFrom(other)
LEMMA CopyFromOutcome ==
  ASSUME Inv, width' = width, NEW a \in Arrays, NEW b \in Arrays, CopyFrom(a, b)
  PROVE  Outcome(a, b, View(b))
<1> DEFINE n == objects[b].size
<1>1. n \in Nat /\ 0 \in Nat /\ CopyFromPointer(a, b, 0, n)
  BY ArrayTypes DEF CopyFrom
<1>2. CASE n > 0 /\ Dangling(b)
  <2>1. CopyElements(a, n, 0, b, 0, n)
    BY <1>1 DEF CopyFromPointer
  <2> QED
    BY <1>1, <1>2, <2>1, CopyElementsGone
<1>3. CASE n = 0 \/ ~Dangling(b)
  <2>1. Outcome(a, b, Slice(b, 0, n))
    <3> HIDE DEF n
    <3> QED
      BY <1>1, CopyFromPointerOutcome
  <2>2. Slice(b, 0, n) = View(b)
    <3>1. CASE ~Dangling(b)
      BY <3>1 DEF View
    <3>2. CASE n = 0 /\ Dangling(b)
      <4>1. Slice(b, 0, 0) \in Seq(Nat) /\ Len(Slice(b, 0, 0)) = 0 * width[b] /\ 0 * width[b] = 0
        BY <3>2, ArrayTypes, SliceSeq
      <4> QED
        BY <3>2, <4>1, EmptySeq DEF View
    <3> QED
      BY <1>3, <3>1, <3>2
  <2> QED
    BY <2>1, <2>2
<1> QED
  BY <1>1, <1>2, <1>3

\* CopyFrom(data, size)
LEMMA CopyFromCallerOutcome ==
  ASSUME Inv, width' = width, NEW a \in Arrays, NEW s \in Seq(Nat), CopyFromCaller(a, s)
  PROVE  Outcome(a, None, Units(a, s))
<1> DEFINE n == Len(s)
           r == Resized(a, n, 0)
           t == Units(a, s)
           freed == Dangling(a) /\ s # <<>> /\ (objects[a].size > 0 \/ n <= objects[a].capacity)
<1>1. IF freed THEN Fails("use after free") ELSE Continue(a, r.object, Write(r.memory, r.object.offset, t))
  BY DEF CopyFromCaller
<1>2. CASE freed
  BY <1>1, <1>2, GoneExcuses DEF Outcome
<1>3. CASE ~freed
  <2>1. n \in Nat /\ 0 + n = n /\ 0 \in Nat /\ n <= n /\ 0 <= objects[a].size
    BY LenProperties, ArrayTypes
  <2>2. ~UsesFreed(a, n)
    <3>1. s = <<>> => n = 0
      BY EmptySeq
    <3>2. objects[a].size \in Nat /\ objects[a].capacity \in Nat
      BY ArrayTypes
    <3> HIDE DEF n
    <3> QED
      BY <1>3, <2>1, <3>1, <3>2 DEF UsesFreed
  <2>3. t \in Seq(Nat) /\ Len(t) = n * width[a]
    BY UnitsAre
  <2>4. Placed(a, r.object, r.memory) /\ r.object.size = n
    <3> HIDE DEF r, n
    <3> QED
      BY <2>1, <2>2, ResizedIs DEF r
  <2>5. [r.object EXCEPT !.size = 0 + n] = r.object /\ r.object.offset + 0 * width[a] = r.object.offset
    <3> DEFINE o == r.object
    <3>1. o \in Object /\ o.size = 0 + n
      BY <2>1, <2>4 DEF Placed
    <3>2. o.offset \in Nat /\ width[a] \in Nat
      BY <3>1, ArrayTypes DEF Object
    <3> HIDE DEF r, o
    <3>3. [o EXCEPT !.size = 0 + n] = o
      BY <3>1 DEF Object
    <3>4. o.offset + 0 * width[a] = o.offset
      BY <3>2
    <3> QED
      BY <3>3, <3>4 DEF o
  <2>6. Continue(a, [r.object EXCEPT !.size = 0 + n],
                 Write(r.memory, r.object.offset + 0 * width[a], t))
    <3>1. Continue(a, r.object, Write(r.memory, r.object.offset, t))
      BY <1>1, <1>3
    <3> HIDE DEF r, t, n
    <3> QED
      BY <2>5, <3>1
  <2> HIDE DEF r, t, n
  <2>7. r = Resized(a, n, 0) /\ 0 + n <= n
    BY <2>1 DEF r
  <2>8. Succeeds(a, SubSeq(View(a), 1, 0 * width[a]) \o t)
    BY <2>1, <2>2, <2>3, <2>6, <2>7, ResizedWrite
  <2>9. SubSeq(View(a), 1, 0 * width[a]) \o t = t
    BY <2>3, NothingThen
  <2> QED
    BY <2>8, <2>9 DEF Outcome, t
<1> QED
  BY <1>2, <1>3

\* New memory just large enough for n elements with the units t
LEMMA ResetSucceeds ==
  ASSUME Inv, width' = width, NEW a \in Arrays, NEW n \in Nat, NEW t \in Seq(Nat),
         Len(t) = n * width[a], Continue(a, Reset(n), t)
  PROVE  Succeeds(a, t)
<1> DEFINE o == Reset(n)
           w == width[a]
<1>1. Len(t) = n * w /\ n * w \in Nat
  BY ArrayTypes, Products
<1>2. o \in Object /\ o.block = NewBlock /\ o.offset = 0 /\ o.size = n /\ o.capacity = n
  BY <1>1, NamesApart DEF Reset, Object
<1>3. t \in Seq(Unit) /\ \A i \in 1..(n * w) : t[i] # Garbage /\ 0 + i = i
  <2>1. t \in Seq(Unit)
    BY SeqMonotonic DEF Unit
  <2>2. \A i \in 1..(n * w) : t[i] \in Nat
    <3> HIDE DEF w
    <3> QED
      BY <1>1, ElementOfSeq
  <2> HIDE DEF w
  <2> QED
    BY <1>1, <2>1, <2>2 DEF Garbage
<1>4. Continue(a, o, t)
  OBVIOUS
<1> HIDE DEF o, w
<1>5. Fits(o, w, t)
  BY <1>1, <1>2, <1>3 DEF Fits
<1>6. Placed(a, o, t)
  BY <1>1, <1>2, <1>3, <1>5 DEF Placed, w
<1>7. /\ Inv' /\ Stays(a) /\ fault' = fault
      /\ ~(Dangling(a)') => View(a)' = Contents(o, w, t)
  BY <1>4, <1>6, ContinueKeeps DEF Continue, w
<1>8. Contents(o, w, t) = t
  <2> DEFINE c == Contents(o, w, t)
  <2>1. c \in Seq(Nat) /\ Len(c) = n * w /\ \A i \in 1..(n * w) : c[i] = t[0 + i]
    BY <1>2, <1>6, NamesApart, PlacedContents DEF w
  <2> HIDE DEF c
  <2>2. c = t
    BY <1>1, <1>3, <2>1, SeqEqual
  <2> QED
    BY <2>2 DEF c
<1> QED
  BY <1>7, <1>8 DEF Succeeds

\* Memory just large enough for the elements of the caller's
LEMMA CopyFromRangeOutcome ==
  ASSUME Inv, width' = width, NEW a \in Arrays, NEW s \in Seq(Nat), CopyFromRange(a, s)
  PROVE  Outcome(a, None, Units(a, s))
<1>1. Len(s) \in Nat /\ Units(a, s) \in Seq(Nat) /\ Len(Units(a, s)) = Len(s) * width[a]
  BY UnitsAre, LenProperties
<1>2. Continue(a, Reset(Len(s)), Units(a, s))
  BY DEF CopyFromRange
<1> QED
  BY <1>1, <1>2, ResetSucceeds DEF Outcome

\* CopyFrom(b.begin() + i, b.begin() + i + n)
LEMMA CopyFromIteratorsOutcome ==
  ASSUME Inv, width' = width, NEW a \in Arrays, NEW b \in Arrays, NEW i \in Nat, NEW n \in Nat,
         CopyFromIterators(a, b, i, n)
  PROVE  Outcome(a, b, Slice(b, i, n))
<1>1. width[a] = width[b] /\ i + n <= objects[b].size
  BY DEF CopyFromIterators
<1>2. CASE n > 0 /\ Dangling(b)
  <2>1. Fails("use after free")
    BY <1>2 DEF CopyFromIterators
  <2> QED
    BY <1>2, <2>1, GoneExcuses DEF Outcome
<1>3. CASE n > 0 /\ ~Dangling(b) /\ SameBlock(a, b) /\ LastOwner(a)
  <2>1. Fails("use after reset")
    BY <1>3 DEF CopyFromIterators
  <2>2. Excuse(a, b, "use after reset")
    <3>1. CASE a = b
      BY <1>3, <3>1 DEF Excuse
    <3>2. CASE a # b
      <4>1. ~objects[b].owns
        BY <1>3, <3>2 DEF LastOwner
      <4> QED
        BY <4>1 DEF Excuse
    <3> QED
      BY <3>1, <3>2
  <2> QED
    BY <2>1, <2>2 DEF Outcome
<1>4. CASE n = 0 \/ (~Dangling(b) /\ ~(SameBlock(a, b) /\ LastOwner(a)))
  <2>1. Continue(a, Reset(n), Slice(b, i, n))
    <3>1. ~(n > 0 /\ Dangling(b)) /\ ~(n > 0 /\ SameBlock(a, b) /\ LastOwner(a))
      BY <1>4
    <3> QED
      BY <3>1, Zenon DEF CopyFromIterators
  <2>2. Slice(b, i, n) \in Seq(Nat) /\ Len(Slice(b, i, n)) = n * width[a]
    BY <1>1, <1>4, SliceSeq
  <2> QED
    BY <2>1, <2>2, ResetSucceeds DEF Outcome
<1> QED
  BY <1>2, <1>3, <1>4

\* What Become needs of an array that is cut from another: element k of b is
\* its first, and it has n elements and room for no more.
LEMMA CutFits ==
  ASSUME Inv, NEW a \in Arrays, NEW b \in Arrays, width[a] = width[b],
         NEW k \in Nat, NEW n \in Nat, k + n <= objects[b].size,
         NEW o \in Object, o.block = objects[b].block, o.offset = objects[b].offset + k * width[b],
         o.size = n, o.capacity = n
  PROVE  /\ Span(b, k, k + n) \in SUBSET Nat
         /\ o.block # Gone => /\ Fits(o, width[a], heap[o.block])
                              /\ Room(o, width[a]) \subseteq Span(b, k, k + n)
                              /\ Contents(o, width[a], heap[o.block]) = Slice(b, k, n)
<1> DEFINE w == width[b]
           p == objects[b].offset
           kw == k * w
           nw == n * w
           e == objects[b].size * w
           m == heap[o.block]
<1>1. /\ p \in Nat /\ objects[b].size \in Nat /\ w \in Nat /\ kw \in Nat /\ nw \in Nat /\ e \in Nat
      /\ (k + n) * w = kw + nw /\ kw + nw <= e
  <2>1. p \in Nat /\ objects[b].size \in Nat /\ w \in Nat /\ k + n \in Nat
    BY ArrayTypes
  <2>2. (k + n) * w <= e /\ (k + n) * w = kw + nw
    BY <2>1, Products
  <2>3. kw \in Nat /\ nw \in Nat /\ e \in Nat
    BY <2>1, Products
  <2> HIDE DEF kw, nw, e, p, w
  <2> QED
    BY <2>1, <2>2, <2>3
<1>2. Span(b, k, k + n) = {p + i : i \in (kw + 1)..(kw + nw)}
  BY <1>1 DEF Span
<1>3. Span(b, k, k + n) \in SUBSET Nat
  <2> HIDE DEF p, kw, nw
  <2> QED
    BY <1>1, <1>2
<1>4. o.offset = p + kw /\ o.size * w = nw /\ o.capacity * w = nw /\ width[a] = w
  OBVIOUS
<1>5. Room(o, w) \subseteq Span(b, k, k + n)
  <2>1. Room(o, w) = (p + kw + 1)..(p + kw + nw)
    BY <1>4 DEF Room
  <2> HIDE DEF p, kw, nw
  <2> SUFFICES ASSUME NEW j \in (p + kw + 1)..(p + kw + nw) PROVE \E i \in (kw + 1)..(kw + nw) : j = p + i
    BY <1>2, <2>1
  <2>2. j - p \in (kw + 1)..(kw + nw) /\ j = p + (j - p)
    BY <1>1
  <2> QED
    BY <2>2
<1>6. ASSUME o.block # Gone
      PROVE  Fits(o, w, m) /\ Contents(o, w, m) = Slice(b, k, n)
  <2>1. ~Dangling(b)
    BY <1>6 DEF Dangling
  <2>2. /\ m \in Seq(Unit) /\ Len(m) \in Nat
        /\ objects[b].capacity * w \in Nat /\ e <= objects[b].capacity * w
        /\ p + objects[b].capacity * w <= Len(m)
        /\ \A i \in 1..e : m[p + i] # Garbage
    <3>1. /\ objects[b].capacity \in Nat /\ objects[b].size <= objects[b].capacity
          /\ m \in Seq(Unit) /\ Fits(objects[b], w, m)
      BY <2>1, ViewContents, ArrayTypes
    <3>2. objects[b].capacity * w \in Nat /\ e <= objects[b].capacity * w
      BY <1>1, <3>1, Products
    <3> QED
      BY <3>1, <3>2, LenProperties DEF Fits
  <2>3. Slice(b, k, n) = SubSeq(m, p + kw + 1, p + (k + n) * w)
    BY DEF Slice
  <2> HIDE DEF p, kw, nw, e, m, w
  <2>4. p + kw + nw <= Len(m)
    BY <1>1, <2>2
  <2>5. \A i \in 1..nw : m[p + kw + i] # Garbage
    <3> SUFFICES ASSUME NEW i \in 1..nw PROVE m[p + kw + i] # Garbage
      OBVIOUS
    <3>1. kw + i \in 1..e /\ p + kw + i = p + (kw + i)
      BY <1>1
    <3> QED
      BY <2>2, <3>1
  <2>6. Fits(o, w, m)
    BY <1>4, <2>4, <2>5 DEF Fits
  <2>7. p + (k + n) * w = p + kw + nw
    BY <1>1
  <2>8. Contents(o, w, m) = SubSeq(m, p + kw + 1, p + kw + nw)
    BY <1>4 DEF Contents, Part
  <2> QED
    BY <2>3, <2>6, <2>7, <2>8
<1> QED
  BY <1>3, <1>4, <1>5, <1>6 DEF w, m

\* segment
LEMMA SegmentOutcome ==
  ASSUME Inv, width' = width, NEW a \in Arrays, NEW b \in Arrays, NEW begin \in Nat, NEW end \in Nat,
         begin <= end, end <= objects[b].size, Segment(a, b, begin, end)
  PROVE  Outcome(a, b, Slice(b, begin, end - begin))
<1> DEFINE q == objects[b]
           n == end - begin
           p == q.offset + begin * width[b]
           o == [q EXCEPT !.offset = @ + begin * width[b], !.size = end - begin, !.capacity = end - begin]
           s == Span(b, begin, end)
<1>1. width[a] = width[b] /\ Become(a, o, heap, s) /\ fault' = fault
  BY DEF Segment
<1>2. /\ q \in Object /\ q.offset \in Nat /\ width[b] \in Nat
      /\ n \in Nat /\ begin + n = end
      /\ q.block = Gone => ~q.owns
  BY ArrayTypes DEF Inv, WellFormed
<1>3. p \in Nat
  <2>1. begin * width[b] \in Nat
    BY <1>2, Products
  <2> QED
    BY <1>2, <2>1
<1>4. o = [q EXCEPT !.offset = p, !.size = n, !.capacity = n]
  OBVIOUS
<1> HIDE DEF o, n, p
<1>5. o \in Object /\ o.block = q.block /\ o.offset = p /\ o.owns = q.owns /\ o.size = n /\ o.capacity = n
  <2> HIDE DEF q
  <2>1. \A x \in Nat, y \in Nat : o = [q EXCEPT !.offset = x, !.size = y, !.capacity = y] =>
           /\ o \in Object /\ o.block = q.block /\ o.offset = x /\ o.owns = q.owns
           /\ o.size = y /\ o.capacity = y
    BY <1>2 DEF Object
  <2> QED
    BY <1>2, <1>3, <1>4, <2>1
<1>6. /\ s \in SUBSET Nat
      /\ o.block # Gone => /\ Fits(o, width[a], heap[o.block]) /\ Room(o, width[a]) \subseteq s
                           /\ Contents(o, width[a], heap[o.block]) = Slice(b, begin, n)
  <2>1. o.offset = objects[b].offset + begin * width[b] /\ begin + n <= objects[b].size
    BY <1>2, <1>5 DEF p
  <2>2. s = Span(b, begin, begin + n)
    BY <1>2
  <2> HIDE DEF s
  <2> QED
    BY <1>1, <1>2, <1>5, <2>1, <2>2, CutFits
<1>7. /\ Inv' /\ Stays(a)
      /\ ~(Dangling(a)') => o.block # Gone /\ View(a)' = Contents(o, width[a], heap[o.block])
  <2>1. o.size <= o.capacity /\ (o.block = Gone => ~o.owns)
    BY <1>2, <1>5 DEF Inv, WellFormed
  <2> QED
    BY <1>1, <1>5, <1>6, <2>1, BecomeKeeps
<1> QED
  BY <1>1, <1>6, <1>7 DEF Outcome, Succeeds, n

\* A raw pointer to an element
LEMMA WrapOutcome ==
  ASSUME Inv, width' = width, NEW a \in Arrays, NEW b \in Arrays, NEW k \in Nat, NEW n \in Nat,
         k + n <= objects[b].size, Wrap(a, b, k, n)
  PROVE  Outcome(a, b, Slice(b, k, n))
<1> DEFINE q == objects[b]
           p == q.offset + k * width[b]
           o == [block |-> q.block, offset |-> p, owns |-> FALSE, size |-> n, capacity |-> n]
           s == Span(b, k, k + n)
<1>1. width[a] = width[b] /\ Become(a, o, heap, s) /\ fault' = fault
  BY DEF Wrap
<1>2. q \in Object /\ q.block \in Blocks /\ p \in Nat
  <2>1. q \in Object /\ q.block \in Blocks /\ q.offset \in Nat /\ width[b] \in Nat
    BY ArrayTypes
  <2>2. k * width[b] \in Nat
    BY <2>1, Products
  <2> QED
    BY <2>1, <2>2
<1> HIDE DEF p
<1>3. o \in Object /\ o.block = q.block /\ o.offset = p /\ ~o.owns /\ o.size = n /\ o.capacity = n
  BY <1>2 DEF Object
<1> HIDE DEF o
<1>4. /\ s \in SUBSET Nat
      /\ o.block # Gone => /\ Fits(o, width[a], heap[o.block]) /\ Room(o, width[a]) \subseteq s
                           /\ Contents(o, width[a], heap[o.block]) = Slice(b, k, n)
  <2>1. o.offset = objects[b].offset + k * width[b]
    BY <1>3 DEF p
  <2> QED
    BY <1>1, <1>3, <2>1, CutFits
<1>5. /\ Inv' /\ Stays(a)
      /\ ~(Dangling(a)') => o.block # Gone /\ View(a)' = Contents(o, width[a], heap[o.block])
  <2>1. o.size <= o.capacity
    BY <1>3
  <2> QED
    BY <1>1, <1>3, <1>4, <2>1, BecomeKeeps
<1> QED
  BY <1>1, <1>4, <1>5 DEF Outcome, Succeeds

\* Assignment, perhaps a cast: the units of b seen as elements of a.
LEMMA AssignOutcome ==
  ASSUME Inv, width' = width, NEW a \in Arrays, NEW b \in Arrays, Assign(a, b)
  PROVE  Outcome(a, b, View(b))
<1> DEFINE q == objects[b]
           w == width[a]
           v == width[b]
           units == q.size * v
           n == units \div w
           c == (q.capacity * v) \div w
           o == [q EXCEPT !.size = n, !.capacity = (@ * v) \div w]
<1>1. IF n * w # units THEN Fails("check failed")
      ELSE Become(a, o, heap, region[b]) /\ fault' = fault
  BY DEF Assign
<1>2. CASE n * w # units
  <2>1. Excuse(a, b, "check failed")
    BY DEF Excuse
  <2> QED
    BY <1>1, <1>2, <2>1 DEF Outcome
<1>3. CASE n * w = units
  <2>1. /\ q \in Object /\ q.offset \in Nat /\ q.size \in Nat /\ q.capacity \in Nat
        /\ q.size <= q.capacity /\ w \in Nat \ {0} /\ v \in Nat \ {0} /\ region[b] \in SUBSET Nat
    BY ArrayTypes
  <2>2. q.block = Gone => ~q.owns
    BY DEF Inv, WellFormed
  <2>3. units \in Nat /\ q.capacity * v \in Nat /\ units <= q.capacity * v
    <3> HIDE DEF q, v
    <3> QED
      BY <2>1, Products DEF q, v
  <2>4. n \in Nat /\ c \in Nat /\ c * w <= q.capacity * v /\ n <= c /\ c * w \in Nat
    <3> DEFINE k == q.capacity * v
    <3> HIDE DEF units, k, w
    <3>1. w \in Nat \ {0} /\ units \in Nat /\ k \in Nat /\ units <= k
      BY <2>1, <2>3 DEF k
    <3>2. ASSUME NEW j \in Nat PROVE j \div w \in Nat /\ (j \div w) * w <= j /\ j < (j \div w) * w + w
      BY <3>1
    <3>3. n \in Nat /\ k \div w \in Nat /\ (k \div w) * w <= k /\ k < (k \div w) * w + w
      BY <3>1, <3>2
    <3>4. (k \div w) * w \in Nat /\ n * w \in Nat
      BY <3>1, <3>3, Products
    <3>5. ASSUME k \div w < n PROVE FALSE
      <4> DEFINE d == k \div w
      <4> HIDE DEF d, n
      <4>1. d \in Nat /\ n \in Nat /\ d + 1 <= n /\ d + 1 \in Nat /\ w \in Nat /\ 1 \in Nat
        BY <3>1, <3>3, <3>5 DEF d
      <4>2. (d + 1) * w <= n * w
        BY <4>1, Products
      <4>3. (d + 1) * w = d * w + 1 * w /\ 1 * w = w
        BY <4>1, Products
      <4>4. n * w = units /\ k < d * w + w /\ d * w \in Nat
        BY <1>3, <3>3, <3>4 DEF d
      <4> QED
        BY <3>1, <4>2, <4>3, <4>4
    <3>6. n <= k \div w
      <4> HIDE DEF n
      <4> QED
        BY <3>3, <3>5
    <3> QED
      BY <3>3, <3>4, <3>6 DEF k
  <2>5. o = [q EXCEPT !.size = n, !.capacity = c]
    OBVIOUS
  <2> HIDE DEF o, n, c
  <2>6. /\ o \in Object /\ o.block = q.block /\ o.offset = q.offset /\ o.owns = q.owns
        /\ o.size = n /\ o.capacity = c
    <3> HIDE DEF q
    <3>1. \A x \in Nat, y \in Nat : o = [q EXCEPT !.size = x, !.capacity = y] =>
             /\ o \in Object /\ o.block = q.block /\ o.offset = q.offset /\ o.owns = q.owns
             /\ o.size = x /\ o.capacity = y
      BY <2>1 DEF Object
    <3> QED
      BY <2>4, <2>5, <3>1
  <2>7. ASSUME o.block # Gone
        PROVE  /\ Fits(o, w, heap[o.block]) /\ Room(o, w) \subseteq region[b]
               /\ Contents(o, w, heap[o.block]) = View(b)
    <3> DEFINE m == heap[q.block]
               k == q.capacity * v
               e == c * w
               p == q.offset
    <3>1. ~Dangling(b) /\ q.block # Gone
      BY <2>6, <2>7 DEF Dangling
    <3>2. m \in Seq(Unit) /\ Fits(q, v, m) /\ View(b) = Contents(q, v, m)
      BY <3>1, ViewContents
    <3>3. Room(q, v) \subseteq region[b]
      BY <3>1 DEF Inv, WellFormed
    <3>4. Contents(o, w, m) = Contents(q, v, m)
      BY <1>3, <2>6 DEF Contents
    <3>5. Len(m) \in Nat /\ p + k <= Len(m) /\ \A i \in 1..units : m[p + i] # Garbage
      BY <3>2, LenProperties DEF Fits
    <3>6. Room(q, v) = (p + 1)..(p + k) /\ Room(o, w) = (p + 1)..(p + e)
      BY <2>6 DEF Room
    <3>7. p \in Nat /\ k \in Nat /\ e \in Nat /\ e <= k
      BY <2>1, <2>3, <2>4
    <3>8. o.offset = p /\ o.capacity * w = e /\ o.size * w = units /\ o.block = q.block
      BY <1>3, <2>6
    <3> HIDE DEF m, k, e, p, q, w, v, units
    <3>9. Room(o, w) \subseteq region[b]
      <4>1. (p + 1)..(p + e) \subseteq (p + 1)..(p + k)
        BY <3>7
      <4> QED
        BY <3>3, <3>6, <4>1
    <3>10. Fits(o, w, m)
      <4>1. p + e <= Len(m)
        BY <3>5, <3>7
      <4> QED
        BY <3>5, <3>8, <4>1 DEF Fits
    <3> QED
      BY <3>2, <3>4, <3>8, <3>9, <3>10 DEF m
  <2>8. o.size <= o.capacity /\ (o.block = Gone => ~o.owns)
    BY <2>2, <2>4, <2>6
  <2>9. Become(a, o, heap, region[b]) /\ fault' = fault
    BY <1>1, <1>3
  <2>10. /\ Inv' /\ Stays(a)
         /\ ~(Dangling(a)') => o.block # Gone /\ View(a)' = Contents(o, width[a], heap[o.block])
    BY <2>1, <2>6, <2>7, <2>8, <2>9, BecomeKeeps
  <2> QED
    BY <2>7, <2>9, <2>10 DEF Outcome, Succeeds
<1> QED
  BY <1>2, <1>3

\* clear, and the destructor
LEMMA ClearOutcome ==
  ASSUME Inv, width' = width, NEW a \in Arrays, Clear(a)
  PROVE  Outcome(a, None, <<>>)
<1> DEFINE o == Nothing
           w == width[a]
           m == heap[NoBlock]
<1>1. /\ o \in Object /\ o.block = NoBlock /\ o.offset = 0 /\ o.size = 0 /\ o.capacity = 0
  BY NamesApart DEF Nothing, Object
<1>2. Become(a, o, heap, {}) /\ fault' = fault
  BY DEF Clear
<1>3. w \in Nat /\ 0 * w = 0
  BY ArrayTypes, Products
<1>4. m \in Seq(Unit) /\ Len(m) \in Nat
  BY NamesApart, LenProperties DEF Inv, WellFormed
<1> HIDE DEF o, w, m
<1>5. Fits(o, w, m) /\ Room(o, w) = {} /\ Contents(o, w, m) = <<>>
  <2>1. Fits(o, w, m)
    BY <1>1, <1>3, <1>4 DEF Fits
  <2>2. Room(o, w) = {}
    BY <1>1, <1>3 DEF Room
  <2>3. Contents(o, w, m) = <<>>
    BY <1>1, <1>3, PartEmpty DEF Contents
  <2> QED
    BY <2>1, <2>2, <2>3
<1>6. /\ Inv' /\ Stays(a)
      /\ ~(Dangling(a)') => o.block # Gone /\ View(a)' = Contents(o, width[a], heap[o.block])
  <2>1. /\ o.size <= o.capacity /\ (o.block = Gone => ~o.owns)
        /\ Fits(o, width[a], heap[o.block]) /\ Room(o, width[a]) \subseteq {}
    BY <1>1, <1>5, NamesApart DEF w, m
  <2>2. {} \in SUBSET Nat
    OBVIOUS
  <2> QED
    BY <1>1, <1>2, <2>1, <2>2, BecomeKeeps
<1> QED
  BY <1>1, <1>2, <1>5, <1>6 DEF Outcome, Succeeds, w, m

\* pop_back
LEMMA PopBackOutcome ==
  ASSUME Inv, width' = width, NEW a \in Arrays, PopBack(a)
  PROVE  Outcome(a, None, SubSeq(View(a), 1, (objects[a].size - 1) * width[a]))
<1> DEFINE q == objects[a]
           w == width[a]
           n == q.size - 1
           o == [q EXCEPT !.size = @ - 1]
           m == heap[q.block]
<1>1. q.size > 0 /\ Become(a, o, heap, region[a]) /\ fault' = fault
  BY DEF PopBack
<1>2. /\ q \in Object /\ q.offset \in Nat /\ q.size \in Nat /\ q.capacity \in Nat /\ w \in Nat
      /\ q.size <= q.capacity /\ region[a] \in SUBSET Nat
      /\ n \in Nat /\ n <= q.size /\ n <= q.capacity
  BY <1>1, ArrayTypes
<1>3. q.block = Gone => ~q.owns
  BY DEF Inv, WellFormed
<1>4. o = [q EXCEPT !.size = n]
  OBVIOUS
<1> HIDE DEF o, n
<1>5. /\ o \in Object /\ o.block = q.block /\ o.offset = q.offset /\ o.owns = q.owns
      /\ o.size = n /\ o.capacity = q.capacity
  <2> HIDE DEF q
  <2> QED
    BY <1>2, <1>4 DEF Object
<1>6. n * w \in Nat /\ q.size * w \in Nat /\ n * w <= q.size * w
  <2> HIDE DEF q, w
  <2> QED
    BY <1>2, Products
<1>7. ASSUME q.block # Gone
      PROVE  /\ Fits(o, w, m) /\ Room(o, w) \subseteq region[a]
             /\ Contents(o, w, m) = SubSeq(View(a), 1, n * w)
  <2>1. ~Dangling(a)
    BY <1>7 DEF Dangling
  <2>2. m \in Seq(Unit) /\ Fits(q, w, m)
    BY <2>1, ViewContents
  <2>3. Room(o, w) = Room(q, w) /\ Room(q, w) \subseteq region[a]
    BY <1>5, <1>7 DEF Inv, WellFormed, Room
  <2>4. /\ View(a) \in Seq(Nat) /\ Len(View(a)) = q.size * w
        /\ \A i \in 1..(q.size * w) : View(a)[i] = m[q.offset + i]
    BY <2>1, ViewSeq
  <2> HIDE DEF q, w, m
  <2>5. Fits(o, w, m)
    BY <1>5, <1>6, <2>2 DEF Fits
  <2> DEFINE c == Contents(o, w, m)
             t == SubSeq(View(a), 1, n * w)
  <2>6. c \in Seq(Nat) /\ Len(c) = n * w /\ \A i \in 1..(n * w) : c[i] = m[q.offset + i]
    <3>1. o.size <= o.capacity /\ o.size * w = n * w /\ o.offset = q.offset
      BY <1>2, <1>5
    <3>2. /\ c \in Seq(Nat) /\ Len(c) = o.size * w
          /\ \A i \in 1..(o.size * w) : c[i] = m[o.offset + i]
      BY <1>2, <1>5, <2>2, <2>5, <3>1, ContentsAre
    <3> HIDE DEF c
    <3> QED
      BY <3>1, <3>2
  <2>7. t \in Seq(Nat) /\ Len(t) = n * w /\ \A i \in 1..(n * w) : t[i] = View(a)[i]
    <3> DEFINE l == n * w
               x == View(a)
    <3>1. l \in Nat /\ x \in Seq(Nat) /\ l <= Len(x)
      BY <1>6, <2>4
    <3> HIDE DEF l, x
    <3>2. /\ SubSeq(x, 1, l) \in Seq(Nat) /\ Len(SubSeq(x, 1, l)) = l
          /\ \A i \in 1..l : SubSeq(x, 1, l)[i] = x[i]
      BY <3>1, PrefixIs
    <3> QED
      BY <3>2 DEF l, x
  <2> HIDE DEF c, t
  <2>8. \A i \in 1..(n * w) : c[i] = t[i]
    <3> DEFINE l == n * w
               e == q.size * w
    <3>1. l \in Nat /\ e \in Nat /\ l <= e
      BY <1>6
    <3> HIDE DEF l, e
    <3>2. \A i \in 1..l : i \in 1..e
      BY <3>1
    <3> QED
      BY <2>4, <2>6, <2>7, <3>2, Zenon DEF l, e
  <2>9. c = t
    BY <2>6, <2>7, <2>8, SeqEqual
  <2> QED
    BY <2>3, <2>5, <2>9 DEF c, t
<1>8. /\ Inv' /\ Stays(a)
      /\ ~(Dangling(a)') => o.block # Gone /\ View(a)' = Contents(o, width[a], heap[o.block])
  <2>1. o.size <= o.capacity /\ (o.block = Gone => ~o.owns)
    BY <1>2, <1>3, <1>5
  <2>2. o.block # Gone => Fits(o, width[a], heap[o.block]) /\ Room(o, width[a]) \subseteq region[a]
    BY <1>5, <1>7
  <2> QED
    BY <1>1, <1>2, <1>5, <2>1, <2>2, BecomeKeeps
<1> QED
  BY <1>1, <1>5, <1>7, <1>8 DEF Outcome, Succeeds, n

\* Assignment to an element
LEMMA SetElementOutcome ==
  ASSUME Inv, width' = width, NEW a \in Arrays, NEW k \in Nat, NEW val \in Nat, SetElement(a, k, val)
  PROVE  Outcome(a, None, Write(View(a), k * width[a], Units(a, <<val>>)))
<1> DEFINE o == objects[a]
           w == width[a]
           m == heap[o.block]
           t == Units(a, <<val>>)
           kw == k * w
           new == Write(m, o.offset + kw, t)
<1>1. /\ k < o.size
      /\ IF Dangling(a) THEN Fails("use after free") ELSE Continue(a, o, new)
  BY DEF SetElement
<1>2. CASE Dangling(a)
  BY <1>1, <1>2, GoneExcuses DEF Outcome
<1>3. CASE ~Dangling(a)
  <2>1. o \in Object /\ o.size \in Nat /\ o.offset \in Nat /\ w \in Nat /\ kw \in Nat
    BY ArrayTypes, Products
  <2>2. t \in Seq(Nat) /\ Len(t) = w
    <3>1. <<val>> \in Seq(Nat) /\ Len(<<val>>) = 1
      OBVIOUS
    <3>2. t \in Seq(Nat) /\ Len(t) = 1 * w
      BY <3>1, UnitsAre
    <3> QED
      BY <2>1, <3>2, Products
  <2>3. kw + w <= o.size * w /\ o.size * w \in Nat
    <3>1. k + 1 \in Nat /\ 1 \in Nat /\ k + 1 <= o.size
      <4>1. k < o.size
        BY <1>1
      <4> HIDE DEF o
      <4> QED
        BY <2>1, <4>1
    <3>2. (k + 1) * w <= o.size * w /\ o.size * w \in Nat
      BY <2>1, <3>1, Products
    <3>3. (k + 1) * w = kw + 1 * w /\ 1 * w = w
      BY <2>1, <3>1, Products
    <3> HIDE DEF o, w, kw
    <3> QED
      BY <3>2, <3>3
  <2>4. /\ m \in Seq(Unit) /\ Fits(o, w, m) /\ o.size <= o.capacity
        /\ View(a) = Contents(o, w, m) /\ o.block # Gone
    BY <1>3, ViewContents DEF Dangling
  <2>5. View(a) \in Seq(Nat) /\ Len(View(a)) = o.size * w
    BY <1>3, ViewSeq
  <2>6. Placed(a, o, m)
    BY <2>1, <2>4 DEF Placed
  <2> HIDE DEF m, t, kw
  <2>7. kw + Len(t) <= o.size * width[a]
    BY <2>2, <2>3
  <2>8. /\ Placed(a, o, new)
        /\ \A i \in 1..(o.size * w) :
              Contents(o, w, new)[i] = IF i \in (kw + 1)..(kw + Len(t)) THEN t[i - kw]
                                       ELSE Contents(o, w, m)[i]
    <3>1. kw \in Nat /\ t \in Seq(Nat) /\ o.block # Gone
      BY <2>1, <2>2, <2>4
    <3> HIDE DEF o
    <3> QED
      BY <2>6, <2>7, <3>1, WrittenContents
  <2>9. /\ Inv' /\ Stays(a)
        /\ ~(Dangling(a)') => View(a)' = Contents(o, w, new)
    BY <1>1, <1>3, <2>8, ContinueKeeps
  <2>10. fault' = fault
    BY <1>1, <1>3 DEF Continue
  <2> DEFINE c == Contents(o, w, new)
             u == Write(View(a), kw, t)
  <2>11. c \in Seq(Nat) /\ Len(c) = o.size * w
    BY <2>4, <2>8, PlacedContents
  <2>12. u \in Seq(Unit) /\ Len(u) = o.size * w
        /\ \A i \in 1..(o.size * w) :
              u[i] = IF i \in (kw + 1)..(kw + Len(t)) THEN t[i - kw] ELSE View(a)[i]
    <3> DEFINE x == View(a)
    <3>1. x \in Seq(Unit) /\ Len(x) = o.size * w
      BY <2>5, SeqMonotonic DEF Unit
    <3>2. kw \in Nat /\ t \in Seq(Nat)
      BY <2>1, <2>2
    <3> HIDE DEF x
    <3>3. /\ Write(x, kw, t) \in Seq(Unit) /\ Len(Write(x, kw, t)) = Len(x)
          /\ \A i \in 1..Len(x) :
                Write(x, kw, t)[i] = IF i \in (kw + 1)..(kw + Len(t)) THEN t[i - kw] ELSE x[i]
      BY <3>1, <3>2, WriteIs
    <3> QED
      BY <3>1, <3>3 DEF x
  <2>13. \A i \in 1..(o.size * w) : c[i] = u[i]
    <3> HIDE DEF u, new, o, w
    <3> QED
      BY <2>4, <2>8, <2>12
  <2>14. c = u
    <3>1. c \in Seq(Unit)
      BY <2>11, SeqMonotonic DEF Unit
    <3> HIDE DEF c, u
    <3> QED
      BY <2>11, <2>12, <2>13, <3>1, SeqEqual
  <2> QED
    BY <2>9, <2>10, <2>14 DEF Outcome, Succeeds, t, kw
<1> QED
  BY <1>2, <1>3

------------------------------------------------------------------------------
(* Steps                                                                    *)

\* After undefined behaviour there is nothing left.
LEMMA FailsKeeps ==
  ASSUME Inv, width' = width, NEW what, Fails(what)
  PROVE  Inv' /\ fault' = what /\ \A x \in Arrays : View(x)' = <<>>
<1>1. Nothing \in Object /\ Nothing.block = NoBlock /\ Nothing.offset = 0
      /\ Nothing.size = 0 /\ Nothing.capacity = 0
  BY NamesApart DEF Nothing, Object
<1>2. /\ objects' = [x \in Arrays |-> Nothing] /\ heap' = [b \in Blocks |-> <<>>]
      /\ region' = [x \in Arrays |-> {}] /\ fault' = what
  BY DEF Fails
<1> DEFINE e == <<>>
<1>3. e \in Seq(Unit) /\ Len(e) = 0
  BY EmptySeq
<1>4. /\ objects' \in [Arrays -> Object] /\ heap' \in [Blocks -> Seq(Unit)]
      /\ region' \in [Arrays -> SUBSET Nat] /\ heap'[NoBlock] = e
      /\ \A x \in Arrays : objects'[x] = Nothing /\ region'[x] = {}
  <2> HIDE DEF e
  <2>1. heap' = [b \in Blocks |-> e]
    BY <1>2 DEF e
  <2> QED
    BY <1>1, <1>2, <1>3, <2>1, NamesApart
<1> HIDE DEF e
<1>5. ASSUME NEW x \in Arrays
      PROVE  Fits(Nothing, width[x], e) /\ Room(Nothing, width[x]) = {} /\ View(x)' = <<>>
  <2> DEFINE w == width[x]
  <2>1. w \in Nat /\ 0 * w = 0 /\ width'[x] = w
    BY ArrayTypes, Products
  <2> HIDE DEF w
  <2>2. Fits(Nothing, w, e)
    BY <1>1, <1>3, <2>1 DEF Fits
  <2>3. Room(Nothing, w) = {}
    BY <1>1, <2>1 DEF Room
  <2>4. Contents(Nothing, w, e) = <<>>
    BY <1>1, <2>1, PartEmpty DEF Contents
  <2>5. SubSeq(e, Nothing.offset + 0 * w + 1, Nothing.offset + (0 + Nothing.size) * w) = <<>>
    BY <1>1, <2>1, <2>4, ViewIs
  <2>6. objects'[x] = Nothing /\ heap'[Nothing.block] = e
    BY <1>1, <1>4
  <2>7. View(x)' = SubSeq(e, Nothing.offset + 0 * w + 1, Nothing.offset + (0 + Nothing.size) * w)
    BY <1>1, <2>1, <2>6, NamesApart DEF View, Slice, Dangling
  <2> QED
    BY <2>2, <2>3, <2>5, <2>7 DEF w
<1>6. Inv'
  <2>1. width' \in [Arrays -> Widths]
    BY DEF Inv
  <2>2. \A x \in Arrays : objects'[x].block # NewBlock
    BY <1>1, <1>4, NamesApart
  <2>3. WellFormed(objects, heap, region)'
    <3>1. heap'[NoBlock] = <<>>
      BY <1>4 DEF e
    <3>2. ASSUME NEW x \in Arrays
          PROVE  /\ objects'[x].size <= objects'[x].capacity
                 /\ objects'[x].block = Gone => ~objects'[x].owns
                 /\ objects'[x].block # Gone =>
                       /\ Fits(objects'[x], width'[x], heap'[objects'[x].block])
                       /\ Room(objects'[x], width'[x]) \subseteq region'[x]
      <4>1. objects'[x] = Nothing /\ heap'[Nothing.block] = e /\ width'[x] = width[x]
        BY <1>1, <1>4
      <4> QED
        BY <1>1, <1>5, <4>1, NamesApart
    <3> QED
      BY <1>4, <3>1, <3>2 DEF WellFormed
  <2> QED
    BY <2>1, <2>2, <2>3 DEF Inv
<1> QED
  BY <1>2, <1>5, <1>6

\* An operation with an outcome keeps what is to be shown.
LEMMA OutcomeKeeps ==
  ASSUME Inv, fault = "none", width' = width, NEW a \in Arrays, NEW b, NEW elements,
         Outcome(a, b, elements), Expect(a, b, elements)
  PROVE  /\ Inv' /\ VectorSemantics'
         /\ call'.on = a
         /\ fault' = "none" => Stays(a)
         /\ fault' # "none" => call'.with = b /\ Excuse(a, b, fault')
<1>1. /\ call'.on = a
      /\ call'.with = IF fault' = "none" THEN None ELSE b
      /\ call'.want = IF fault' = "none" /\ ~(Dangling(a)') THEN elements ELSE <<>>
  BY DEF Expect
<1>2. VectorSemantics' <=> View(a)' = call'.want
  BY <1>1 DEF VectorSemantics, View, Slice, Dangling
<1>3. CASE Succeeds(a, elements)
  <2>1. fault' = "none" /\ Inv' /\ Stays(a) /\ (~(Dangling(a)') => View(a)' = elements)
    BY <1>3 DEF Succeeds
  <2>2. Dangling(a)' => View(a)' = <<>>
    BY DEF View, Dangling
  <2> QED
    BY <1>1, <1>2, <2>1, <2>2
<1>4. ASSUME NEW what, Fails(what), Excuse(a, b, what)
      PROVE  /\ Inv' /\ VectorSemantics'
             /\ fault' # "none" /\ call'.with = b /\ Excuse(a, b, fault')
  <2>1. Inv' /\ fault' = what /\ View(a)' = <<>>
    BY <1>4, FailsKeeps
  <2>2. what # "none"
    BY <1>4 DEF Excuse
  <2> QED
    BY <1>1, <1>2, <1>4, <2>1, <2>2
<1> QED
  BY <1>1, <1>3, <1>4 DEF Outcome

\* Every operation has the outcome that is expected of it.
LEMMA OperationOutcome ==
  ASSUME Inv, width' = width, NEW a \in Arrays, Operation(a)
  PROVE  \E b, elements : Outcome(a, b, elements) /\ Expect(a, b, elements)
<1>1. \A n \in Sizes(a) : n \in Nat
  BY DEF Sizes
<1>2. Values \subseteq Nat
  BY SArrayAssumption
<1>3. \A b \in Arrays : objects[b].size \in Nat
  BY ArrayTypes
<1>4. CASE Grow(a)
  <2>1. ASSUME NEW size \in Sizes(a), NEW val \in Values, Resize(a, size, val),
               NEW t, t = SubSeq(View(a) \o Units(a, [i \in 1..size |-> val]), 1, size * width[a]),
               Expect(a, None, t)
        PROVE  Outcome(a, None, t)
    BY <1>1, <1>2, <2>1, ResizeOutcome
  <2>2. ASSUME NEW size \in 1..MaxCapacity, Reserve(a, size), Expect(a, None, View(a))
        PROVE  Outcome(a, None, View(a))
    <3>1. size \in Nat
      OBVIOUS
    <3> QED
      BY <2>2, <3>1, ReserveOutcome
  <2>3. ASSUME NEW val \in Values, PushBack(a, val), Expect(a, None, View(a) \o Units(a, <<val>>))
        PROVE  Outcome(a, None, View(a) \o Units(a, <<val>>))
    BY <1>2, <2>3, PushBackOutcome
  <2>4. ASSUME NEW b \in Arrays, NEW i \in 0..(objects[b].size - 1), PushBackElement(a, b, i),
               Expect(a, b, View(a) \o Slice(b, i, 1))
        PROVE  Outcome(a, b, View(a) \o Slice(b, i, 1))
    <3>1. i \in Nat
      OBVIOUS
    <3> QED
      BY <2>4, <3>1, PushBackElementOutcome
  <2>5. ASSUME NEW b \in Arrays, AppendArray(a, b), Expect(a, b, View(a) \o View(b))
        PROVE  Outcome(a, b, View(a) \o View(b))
    BY <2>5, AppendArrayOutcome
  <2> QED
    BY <1>4, <2>1, <2>2, <2>3, <2>4, <2>5, Zenon DEF Grow
<1>5. CASE Copy(a)
  <2>1. ASSUME NEW b \in Arrays, CopyFrom(a, b)
        PROVE  Outcome(a, b, View(b))
    BY <2>1, CopyFromOutcome
  <2>2. ASSUME NEW n \in Sizes(a), NEW s \in [1..n -> Values], CopyFromRange(a, s) \/ CopyFromCaller(a, s)
        PROVE  Outcome(a, None, Units(a, s))
    <3>1. s \in Seq(Nat)
      <4>1. n \in Nat
        BY <1>1
      <4>2. s \in [1..n -> Nat]
        BY <1>2
      <4> QED
        BY <4>1, <4>2, SeqOf
    <3> QED
      BY <2>2, <3>1, CopyFromRangeOutcome, CopyFromCallerOutcome
  <2>3. ASSUME NEW b \in Arrays, NEW end \in 0..objects[b].size, NEW begin \in 0..end,
               CopyFromPointer(a, b, begin, end - begin) \/ CopyFromIterators(a, b, begin, end - begin)
        PROVE  Outcome(a, b, Slice(b, begin, end - begin))
    <3>1. begin \in Nat /\ end - begin \in Nat
      BY <1>3
    <3> QED
      BY <2>3, <3>1, CopyFromPointerOutcome, CopyFromIteratorsOutcome
  <2> QED
    BY <1>5, <2>1, <2>2, <2>3, Zenon DEF Copy
<1>6. CASE Share(a)
  <2>1. ASSUME NEW b \in Arrays, Assign(a, b)
        PROVE  Outcome(a, b, View(b))
    BY <2>1, AssignOutcome
  <2>2. ASSUME NEW b \in Arrays, NEW end \in 0..objects[b].size, NEW begin \in 0..end,
               Segment(a, b, begin, end) \/ (begin < end /\ Wrap(a, b, begin, end - begin))
        PROVE  Outcome(a, b, Slice(b, begin, end - begin))
    <3>1. begin \in Nat /\ end \in Nat /\ begin <= end /\ end <= objects[b].size
      BY <1>3
    <3>2. CASE Segment(a, b, begin, end)
      BY <3>1, <3>2, SegmentOutcome
    <3>3. CASE Wrap(a, b, begin, end - begin)
      <4> DEFINE n == end - begin
      <4>1. n \in Nat /\ begin + n <= objects[b].size
        BY <1>3, <3>1
      <4> HIDE DEF n
      <4>2. Wrap(a, b, begin, n)
        BY <3>3 DEF n
      <4>3. Outcome(a, b, Slice(b, begin, n))
        BY <3>1, <4>1, <4>2, WrapOutcome
      <4> QED
        BY <4>3 DEF n
    <3> QED
      BY <2>2, <3>2, <3>3
  <2> QED
    BY <1>6, <2>1, <2>2, Zenon DEF Share
<1>7. CASE PopBack(a) /\ Expect(a, None, SubSeq(View(a), 1, (objects[a].size - 1) * width[a]))
  BY <1>7, PopBackOutcome
<1>8. ASSUME NEW i \in 0..(objects[a].size - 1), NEW val \in Values, SetElement(a, i, val),
             Expect(a, None, Write(View(a), i * width[a], Units(a, <<val>>)))
      PROVE  Outcome(a, None, Write(View(a), i * width[a], Units(a, <<val>>)))
  <2>1. i \in Nat /\ val \in Nat
    BY <1>2
  <2> QED
    BY <1>8, <2>1, SetElementOutcome
<1>9. CASE Clear(a) /\ Expect(a, None, <<>>)
  BY <1>9, ClearOutcome
<1> QED
  BY <1>4, <1>5, <1>6, <1>7, <1>8, <1>9, Zenon DEF Operation

------------------------------------------------------------------------------
(* Theorems                                                                 *)

\* What an operation that does not fail leaves, and why another one fails.
LEMMA StepKeeps ==
  ASSUME Inv, Next
  PROVE  /\ Inv' /\ VectorSemantics'
         /\ fault' = "none" => Stays(call'.on)
         /\ fault' # "none" => Excuse(call'.on, call'.with, fault')
<1>1. fault = "none" /\ width' = width
  BY DEF Next
<1>2. PICK a \in Arrays : Operation(a)
  BY DEF Next
<1>3. PICK b, elements : Outcome(a, b, elements) /\ Expect(a, b, elements)
  BY <1>1, <1>2, OperationOutcome
<1>4. /\ Inv' /\ VectorSemantics' /\ call'.on = a
      /\ fault' = "none" => Stays(a)
      /\ fault' # "none" => call'.with = b /\ Excuse(a, b, fault')
  BY <1>1, <1>2, <1>3, OutcomeKeeps
<1>5. Stays(a) => Stays(call'.on)
  BY <1>4 DEF Stays
<1>6. Excuse(a, b, fault') /\ call'.with = b => Excuse(call'.on, call'.with, fault')
  BY <1>4 DEF Excuse
<1> QED
  BY <1>4, <1>5, <1>6

LEMMA InitInv == SArrayInit => Inv /\ VectorSemantics
<1> SUFFICES ASSUME SArrayInit PROVE Inv /\ VectorSemantics
  OBVIOUS
<1>1. Nothing \in Object /\ Nothing.block = NoBlock /\ Nothing.offset = 0
      /\ Nothing.size = 0 /\ Nothing.capacity = 0
  BY NamesApart DEF Nothing, Object
<1> DEFINE e == <<>>
<1>2. /\ width \in [Arrays -> Widths] /\ objects = [x \in Arrays |-> Nothing]
      /\ heap = [b \in Blocks |-> e] /\ region = [x \in Arrays |-> {}]
      /\ call.on \in Arrays /\ call.want = e
  BY DEF SArrayInit
<1>3. e \in Seq(Unit) /\ Len(e) = 0
  BY EmptySeq
<1> HIDE DEF e
<1>4. /\ objects \in [Arrays -> Object] /\ heap \in [Blocks -> Seq(Unit)]
      /\ region \in [Arrays -> SUBSET Nat] /\ heap[NoBlock] = e
      /\ \A x \in Arrays : objects[x] = Nothing /\ region[x] = {}
  BY <1>1, <1>2, <1>3, NamesApart
<1>5. ASSUME NEW x \in Arrays
      PROVE  /\ Fits(Nothing, width[x], e) /\ Room(Nothing, width[x]) = {}
             /\ Contents(Nothing, width[x], e) = <<>>
  <2> DEFINE w == width[x]
  <2>1. w \in Nat
    BY <1>2, SArrayAssumption
  <2> HIDE DEF w
  <2>2. 0 * w = 0
    BY <2>1
  <2>3. Fits(Nothing, w, e)
    BY <1>1, <1>3, <2>2 DEF Fits
  <2>4. Room(Nothing, w) = {}
    BY <1>1, <2>2 DEF Room
  <2>5. Contents(Nothing, w, e) = <<>>
    BY <1>1, <2>2, PartEmpty DEF Contents
  <2> QED
    BY <2>3, <2>4, <2>5 DEF w
<1>6. Inv
  <2>1. \A x \in Arrays : objects[x].block # NewBlock
    BY <1>1, <1>4, NamesApart
  <2>2. heap[NoBlock] = <<>>
    BY <1>4 DEF e
  <2>3. ASSUME NEW x \in Arrays
        PROVE  /\ objects[x].size <= objects[x].capacity
               /\ objects[x].block = Gone => ~objects[x].owns
               /\ objects[x].block # Gone => /\ Fits(objects[x], width[x], heap[objects[x].block])
                                             /\ Room(objects[x], width[x]) \subseteq region[x]
    <3>1. objects[x] = Nothing /\ heap[Nothing.block] = e
      BY <1>1, <1>4
    <3> QED
      BY <1>1, <1>5, <3>1, NamesApart
  <2> QED
    BY <1>2, <1>4, <2>1, <2>2, <2>3 DEF Inv, WellFormed
<1>7. View(call.on) = <<>>
  <2> DEFINE x == call.on
  <2>1. x \in Arrays /\ objects[x] = Nothing /\ heap[Nothing.block] = e
    BY <1>1, <1>2, <1>4
  <2> HIDE DEF x
  <2>2. ~Dangling(x)
    BY <1>1, <2>1, NamesApart DEF Dangling
  <2>3. View(x) = Contents(Nothing, width[x], e)
    BY <1>6, <2>1, <2>2, ViewContents
  <2> QED
    BY <1>5, <2>1, <2>3 DEF x
<1> QED
  BY <1>2, <1>6, <1>7 DEF VectorSemantics, e

LEMMA NextInv == Inv /\ VectorSemantics /\ [Next]_vars => (Inv /\ VectorSemantics)'
<1> SUFFICES ASSUME Inv, VectorSemantics, [Next]_vars PROVE (Inv /\ VectorSemantics)'
  OBVIOUS
<1>1. CASE Next
  BY <1>1, StepKeeps
<1>2. CASE UNCHANGED vars
  <2>1. /\ width' = width /\ objects' = objects /\ heap' = heap /\ region' = region /\ call' = call
    BY <1>2 DEF vars
  <2>2. Inv'
    BY <2>1 DEF Inv, WellFormed
  <2>3. VectorSemantics'
    BY <2>1 DEF VectorSemantics, View, Slice, Dangling
  <2> QED
    BY <2>2, <2>3
<1> QED
  BY <1>1, <1>2

(* No SArray reaches past its memory, and none has an element that nobody   *)
(* wrote: for any element sizes, through any sequence of copies, casts,     *)
(* segments, wrapped pointers and reallocations.                            *)
THEOREM BoundsRespected == Spec => []InBounds
<1>1. Inv => InBounds
  <2> SUFFICES ASSUME Inv, NEW a \in Arrays
               PROVE  /\ objects[a].size <= objects[a].capacity
                      /\ ~Dangling(a) =>
                            /\ objects[a].offset + objects[a].capacity * width[a] <= Len(heap[objects[a].block])
                            /\ \A i \in DOMAIN View(a) : View(a)[i] # Garbage
    BY DEF InBounds
  <2>1. objects[a].size <= objects[a].capacity
    BY ArrayTypes
  <2>2. ASSUME ~Dangling(a)
        PROVE  objects[a].offset + objects[a].capacity * width[a] <= Len(heap[objects[a].block])
    BY <2>2, ViewContents DEF Fits
  <2>3. ASSUME NEW i \in DOMAIN View(a) PROVE View(a)[i] # Garbage
    <3>1. View(a) \in Seq(Nat)
      BY ViewSeq
    <3>2. View(a)[i] \in Nat
      BY <3>1, ElementOfSeq, LenProperties
    <3> QED
      BY <3>2 DEF Garbage
  <2> QED
    BY <2>1, <2>2, <2>3
<1> QED
  BY InitInv, NextInv, <1>1, PTL DEF Spec

(* An SArray has the elements a std::vector would have after the same       *)
(* operation, whatever memory it shares.                                    *)
THEOREM VectorLike == Spec => []VectorSemantics
  BY InitInv, NextInv, PTL DEF Spec

(* An operation on one array leaves the elements of every other array,      *)
(* except in the memory that the first was given.                           *)
THEOREM WritesStay == Spec => NoStrayWrites
<1>1. ASSUME Inv, [Next]_vars
      PROVE  [\A o \in Arrays \ {call'.on} :
                fault' = "none" /\ ~Dangling(o) /\ ~(Dangling(o)') =>
                    \A i \in DOMAIN View(o) :
                        View(o)'[i] # View(o)[i] =>
                            SameBlock(call'.on, o) /\ objects[o].offset + i \in region[call'.on]]_vars
  <2>1. CASE Next
    <3>1. fault' = "none" => Stays(call'.on)
      BY <1>1, <2>1, StepKeeps
    <3> QED
      BY <3>1 DEF Stays
  <2> QED
    BY <1>1, <2>1
<1> QED
  BY InitInv, NextInv, <1>1, PTL DEF Spec, NoStrayWrites

(* Arrays that own their memory never touch memory that is gone, unless one *)
(* that is its only owner is given its own element when it is full, or a    *)
(* range of its own iterators; and memcpy overlaps only within memory that  *)
(* the array and the argument share.                                        *)
THEOREM AliasingExplained == Spec => UndefinedOnlyByAliasing
<1>1. ASSUME Inv, [Next]_vars
      PROVE  [LET a == call'.on
                  b == call'.with
                  full == objects[a].size = objects[a].capacity
                  wrapped == \E x \in Arrays : ~objects[x].owns
              IN /\ fault' = "use after free" => (a = b /\ full /\ LastOwner(a)) \/ wrapped
                 /\ fault' = "use after reset" => (a = b /\ LastOwner(a)) \/ wrapped
                 /\ fault' = "overlapping memcpy" => b # None /\ (a = b \/ SameBlock(a, b))]_vars
  <2>1. CASE Next
    <3>1. fault' # "none" => Excuse(call'.on, call'.with, fault')
      BY <1>1, <2>1, StepKeeps
    <3> QED
      BY <3>1 DEF Excuse
  <2> QED
    BY <1>1, <2>1
<1> QED
  BY InitInv, NextInv, <1>1, PTL DEF Spec, UndefinedOnlyByAliasing

===============================================================================

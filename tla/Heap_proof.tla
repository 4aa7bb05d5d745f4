------------------------------ MODULE Heap_proof ------------------------------
(***************************************************************************)
(* Proofs about Heap: for every number of slots, every size of objects and *)
(* of the console, and every operand that a script may pass.               *)
(***************************************************************************)
EXTENDS Heap, ListTheorems, FiniteSetTheorems

-----------------------------------------------------------------------------
(* The shape of the heap.                                                  *)

Cells == UNION {[0 .. n - 1 -> Int] : n \in Nat}

HeapObject ==
    [active : {TRUE}, id : Refs, elem_size : {1, 4}, pinned : BOOLEAN, data : Cells]

Bytes(o) == o.elem_size = 1 => \A i \in DOMAIN o.data : o.data[i] \in 0 .. ByteLimit - 1

ObjectsInv ==
    /\ heap \in [Slots -> {NoObject} \cup HeapObject]
    /\ \A s \in Active : Bytes(heap[s])

ConsoleInv ==
    /\ DOMAIN screen = Frame(Cols, Rows)
    /\ \A p \in DOMAIN screen : screen[p] \in 0 .. ByteLimit - 1 \cup {Blank}

CountersInv ==
    next_ref \in Refs /\ rc \in {1, -1} /\ answer \subseteq Int /\ allocs \in 0 .. MaxAllocs

\* An object has one of the sizes that scripts ask for.
SizesInv == \A s \in Active : Size(s) \in ArraySizes \cup SpanSizes

HeapInv == ObjectsInv /\ ConsoleInv /\ CountersInv /\ SizesInv

LEMMA Remainder ==
    /\ \A n \in 0 .. RefLimit - 1 : n % RefLimit = n
    /\ RefLimit % RefLimit = 0
BY HeapAssumption

LEMMA ActiveObject ==
    ASSUME ObjectsInv, NEW s \in Slots
    PROVE  /\ s \in Active <=> heap[s] \in HeapObject
           /\ s \notin Active <=> heap[s] = NoObject
           /\ heap[s].active \in BOOLEAN
<1>1. NoObject.active = FALSE
  BY DEF NoObject
<1>2. \A o \in HeapObject : o.active = TRUE
  BY DEF HeapObject
<1>. QED  BY <1>1, <1>2 DEF ObjectsInv, Active

LEMMA FindFinds ==
    ASSUME ObjectsInv, NEW n, Found(n)
    PROVE  Find(n) \in Active /\ heap[Find(n)].id = AsRef(n)
<1>. DEFINE Good == {s \in Slots : Holds(s, n)}
<1>1. Slots \in SUBSET Nat /\ Good \in SUBSET Slots /\ Good # {}
  BY HeapAssumption DEF Slots, Found
<1>2. PICK s \in Slots : s \in Good /\ \A t \in Slots : t < s => t \notin Good
  BY <1>1, FirstExists
<1>3. \A t \in 1 .. s - 1 : t \in Slots /\ t < s
  BY HeapAssumption DEF Slots
<1>4. Holds(s, n) /\ \A t \in 1 .. s - 1 : ~Holds(t, n)
  BY <1>2, <1>3
<1>5. Find(n) \in Slots /\ Holds(Find(n), n)
  BY <1>4 DEF Find
<1>. QED  BY <1>5 DEF Holds, Active

LEMMA SizeOfCells ==
    ASSUME NEW n \in Nat, NEW d \in [0 .. n - 1 -> Int]
    PROVE  Cardinality(DOMAIN d) = n /\ DOMAIN d = 0 .. n - 1
<1>1. DOMAIN d = 0 .. n - 1 /\ 0 \in Int /\ n - 1 \in Int
  OBVIOUS
<1>2. Cardinality(0 .. n - 1) = IF 0 > n - 1 THEN 0 ELSE n - 1 - 0 + 1
  BY <1>1, FS_Interval
<1>. QED  BY <1>1, <1>2

LEMMA SizeBounds ==
    ASSUME ObjectsInv, NEW s \in Active
    PROVE  /\ heap[s] \in HeapObject
           /\ Size(s) \in Nat /\ DOMAIN heap[s].data = 0 .. Size(s) - 1
           /\ heap[s].data \in [0 .. Size(s) - 1 -> Int]
<1>1. s \in Slots /\ heap[s] \in HeapObject
  BY ActiveObject DEF Active
<1>2. heap[s].data \in Cells
  BY <1>1 DEF HeapObject
<1>3. PICK n \in Nat : heap[s].data \in [0 .. n - 1 -> Int]
  BY <1>2 DEF Cells
<1>. QED  BY <1>1, <1>3, SizeOfCells DEF Size

\* A frame is drawn from the cells that the guard has measured.
LEMMA CellInFrame ==
    ASSUME NEW width \in Int, NEW height \in Int, NEW p \in Frame(width, height)
    PROVE  CellAt(p, width) \in 0 .. width * height - 1
<1>1. p[1] \in 1 .. height /\ p[2] \in 1 .. width
  BY DEF Frame
<1>. DEFINE r == p[1]
            c == p[2]
<1>2. r \in Int /\ c \in Int /\ r - 1 >= 0 /\ height - r >= 0 /\ width > 0
  BY <1>1
<1>. HIDE DEF r, c
<1>3. (r - 1) * width >= 0 /\ (height - r) * width >= 0
  BY <1>2
<1>4. (height - r) * width = width * height - (r - 1) * width - width
  BY <1>2
<1>5. (r - 1) * width \in Int /\ width * height \in Int
  BY <1>2
<1>. QED  BY <1>1, <1>2, <1>3, <1>4, <1>5 DEF CellAt, r, c

-----------------------------------------------------------------------------
(* What a step does to the heap.                                           *)

\* The instruction names the object in slot s.
Names(s) == heap[s].id \in request'.refs

Issues(s, n, elem_size) ==
    /\ s \in Slots \ Active /\ n \in Nat /\ elem_size \in {1, 4}
    /\ n \in ArraySizes \cup SpanSizes
    /\ allocs < MaxAllocs /\ allocs' = allocs + 1
    /\ heap' = [heap EXCEPT ![s] =
                   [active |-> TRUE, id |-> next_ref, elem_size |-> elem_size,
                    pinned |-> FALSE, data |-> [i \in 0 .. n - 1 |-> 0]]]
    /\ next_ref' = (next_ref + 1) % RefLimit
    /\ answer' = {next_ref}

Frees(s) ==
    /\ s \in Active /\ Names(s)
    /\ heap' = [heap EXCEPT ![s] = NoObject]
    /\ answer' = {} /\ UNCHANGED <<next_ref, allocs>>

Pins(s) ==
    /\ s \in Active /\ Names(s)
    /\ heap' = [heap EXCEPT ![s].pinned = TRUE]
    /\ answer' = {} /\ UNCHANGED <<next_ref, allocs>>

Writes(s, d) ==
    /\ s \in Active /\ Names(s)
    /\ d \in [DOMAIN heap[s].data -> Int]
    /\ \A i \in DOMAIN d \ request'.cells : d[i] = heap[s].data[i]
    /\ heap[s].elem_size = 1 => \A i \in DOMAIN d : d[i] \in 0 .. ByteLimit - 1
    /\ heap' = [heap EXCEPT ![s].data = d]
    /\ answer' = {} /\ UNCHANGED <<next_ref, allocs>>

Reads(s, i) ==
    /\ s \in Active /\ Names(s)
    /\ i \in DOMAIN heap[s].data \cap request'.cells
    /\ answer' = {heap[s].data[i]} /\ UNCHANGED <<heap, next_ref, allocs>>

Rests == answer' = {} /\ UNCHANGED <<heap, next_ref, allocs>>

HeapEffect ==
    \/ Rests
    \/ \E s, n, elem_size : Issues(s, n, elem_size)
    \/ \E s : Frees(s) \/ Pins(s)
    \/ \E s, d : Writes(s, d)
    \/ \E s, i : Reads(s, i)

LEMMA FailRests == Fail => HeapEffect
BY DEF Fail, Rests, HeapEffect

(* An index that the guard accepts is the one that was meant.              *)
LEMMA IndexIsMeant ==
    ASSUME HeapInv, NEW s \in Active, NEW i \in Indices, AsSize(i) < Size(s)
    PROVE  AsSize(i) = i /\ i \in DOMAIN heap[s].data
<1>. DEFINE n == Size(s)
            L == SizeLimit
<1>1. n \in Nat /\ DOMAIN heap[s].data = 0 .. n - 1 /\ n \in ArraySizes \cup SpanSizes
  BY SizeBounds DEF HeapInv, SizesInv
<1>2. L \in Nat \ {0} /\ i \in Int /\ n - L <= i /\ i < L
  BY <1>1, HeapAssumption, IndexAssumption
<1>3. AsSize(i) = i % L /\ i % L < n
  BY DEF AsSize
<1>. HIDE DEF n, L
<1>4. CASE i < 0
  <2>1. i % L = i + L
    BY <1>1, <1>2, <1>4
  <2>. QED  BY <1>1, <1>2, <1>3, <2>1
<1>5. CASE i >= 0
  <2>1. i % L = i
    BY <1>2, <1>5
  <2>. QED  BY <1>1, <1>2, <1>3, <1>5, <2>1
<1>. QED  BY <1>2, <1>4, <1>5

(* The object found is the one that was named.                             *)
LEMMA FoundIsNamed ==
    ASSUME HeapInv, NEW ref \in Refs, ref \in request'.refs, Found(ref)
    PROVE  Find(ref) \in Active /\ Names(Find(ref))
<1>1. AsRef(ref) = ref
  BY Remainder DEF AsRef, Refs
<1>. QED  BY <1>1, FindFinds DEF HeapInv, Names

LEMMA AllocEffect ==
    ASSUME HeapInv, NEW n \in ArraySizes \cup SpanSizes, NEW elem_size \in {1, 4},
           Alloc(n, elem_size)
    PROVE  HeapEffect
<1>1. CASE Fail
  BY <1>1, FailRests
<1>2. CASE ~Fail
  <2>. DEFINE s == Min(Slots \ Active)
  <2>1. Slots \ Active \in SUBSET Nat /\ Slots \ Active # {}
    BY <1>2, HeapAssumption DEF Alloc, Slots, Active
  <2>2. s \in Slots \ Active
    BY <2>1, MinIsLowest
  <2>3. n \in Nat /\ allocs < MaxAllocs /\ allocs' = allocs + 1
        /\ next_ref' = (next_ref + 1) % RefLimit /\ answer' = {next_ref}
    BY <1>2, HeapAssumption DEF Alloc, Answer, Issue
  <2>4. heap' = [heap EXCEPT ![s] =
                   [active |-> TRUE, id |-> next_ref, elem_size |-> elem_size,
                    pinned |-> FALSE, data |-> [i \in 0 .. n - 1 |-> 0]]]
    BY <1>2 DEF Alloc, Issue
  <2>. HIDE DEF s
  <2>5. Issues(s, n, elem_size)
    BY <2>2, <2>3, <2>4 DEF Issues
  <2>. QED  BY <2>5 DEF HeapEffect
<1>. QED  BY <1>1, <1>2

LEMMA FreeEffect ==
    ASSUME HeapInv, NEW ref \in Refs, ref \in request'.refs, Free(ref)
    PROVE  HeapEffect
<1>1. CASE Found(ref)
  <2>1. Find(ref) \in Active /\ Names(Find(ref))
    BY <1>1, FoundIsNamed
  <2>2. heap' = [heap EXCEPT ![Find(ref)] = NoObject]
    BY <1>1 DEF Free, HeapInv, ObjectsInv
  <2>. QED  BY <2>1, <2>2 DEF Frees, HeapEffect, Free, Done, Answer
<1>2. CASE ~Found(ref)
  <2>1. heap' = heap
    BY <1>2 DEF Free, HeapInv, ObjectsInv
  <2>. QED  BY <2>1 DEF HeapEffect, Free, Done, Answer, Rests
<1>. QED  BY <1>1, <1>2

LEMMA WriteEffect ==
    ASSUME HeapInv, NEW s \in Active, Names(s), NEW cells, cells \subseteq request'.cells,
           NEW v \in Int, Write(s, cells, v)
    PROVE  HeapEffect
<1>. DEFINE d == [i \in DOMAIN heap[s].data |-> IF i \in cells THEN Stored(s, v)
                                                               ELSE heap[s].data[i]]
<1>1. Stored(s, v) \in Int
      /\ (heap[s].elem_size = 1 => Stored(s, v) \in 0 .. ByteLimit - 1)
  BY HeapAssumption DEF Stored, AsByte
<1>2. heap[s].data \in [DOMAIN heap[s].data -> Int]
      /\ (heap[s].elem_size = 1 =>
             \A i \in DOMAIN heap[s].data : heap[s].data[i] \in 0 .. ByteLimit - 1)
  BY SizeBounds DEF HeapInv, ObjectsInv, Bytes
<1>3. d \in [DOMAIN heap[s].data -> Int]
      /\ (heap[s].elem_size = 1 => \A i \in DOMAIN d : d[i] \in 0 .. ByteLimit - 1)
      /\ \A i \in DOMAIN d \ request'.cells : d[i] = heap[s].data[i]
  BY <1>1, <1>2
<1>4. heap' = [heap EXCEPT ![s].data = d] /\ answer' = {} /\ UNCHANGED <<next_ref, allocs>>
  BY DEF Write, Done, Answer
<1>. HIDE DEF d
<1>5. Writes(s, d)
  BY <1>3, <1>4 DEF Writes
<1>. QED  BY <1>5 DEF HeapEffect

LEMMA DirtyEffect ==
    ASSUME HeapInv, NEW ref, NEW previous \in Refs, NEW width \in Int, NEW height \in Int,
           Asks({ref, previous}, 0 .. width * height - 1),
           RenderSpanDirty(ref, previous, width, height)
    PROVE  HeapEffect
<1>1. CASE ~(Drawable(ref, width, height) /\ Drawable(previous, width, height))
  BY <1>1, FailRests DEF RenderSpanDirty
<1>2. CASE Drawable(ref, width, height) /\ Drawable(previous, width, height)
  <2>. DEFINE s == Find(ref)
              t == Find(previous)
              changed == Changed(s, t, width, height)
              cells == {CellAt(p, width) : p \in changed}
              d == [i \in DOMAIN heap[t].data |-> IF i \in cells THEN heap[s].data[i]
                                                                 ELSE heap[t].data[i]]
  <2>1. /\ s \in Active /\ t \in Active
        /\ heap[s].elem_size = 1 /\ heap[t].elem_size = 1
        /\ width * height <= Size(s)
    BY <1>2, FindFinds DEF Drawable, HeapInv
  <2>2. heap' = [heap EXCEPT ![t].data = d] /\ answer' = {} /\ UNCHANGED <<next_ref, allocs>>
    BY <1>2 DEF RenderSpanDirty, Done, Answer
  <2>0. Names(t)
    BY <1>2, FoundIsNamed DEF Asks, Drawable
  <2>. HIDE DEF s, t
  <2>3. cells \subseteq DOMAIN heap[s].data
    <3>1. Size(s) \in Nat /\ DOMAIN heap[s].data = 0 .. Size(s) - 1
      BY <2>1, SizeBounds DEF HeapInv
    <3>2. \A p \in Frame(width, height) : CellAt(p, width) \in 0 .. width * height - 1
      BY CellInFrame
    <3>3. \A p \in changed : CellAt(p, width) \in DOMAIN heap[s].data
      BY <2>1, <3>1, <3>2 DEF Changed
    <3>. QED  BY <3>3
  <2>4. \A x \in {s, t} : /\ heap[x].data \in [DOMAIN heap[x].data -> Int]
                          /\ \A i \in DOMAIN heap[x].data :
                                heap[x].data[i] \in 0 .. ByteLimit - 1
    BY <2>1, SizeBounds DEF HeapInv, ObjectsInv, Bytes
  <2>7. cells \subseteq request'.cells
    BY CellInFrame DEF Asks, Changed
  <2>. HIDE DEF cells
  <2>5. /\ d \in [DOMAIN heap[t].data -> Int]
        /\ \A i \in DOMAIN d : d[i] \in 0 .. ByteLimit - 1
        /\ \A i \in DOMAIN d \ request'.cells : d[i] = heap[t].data[i]
    BY <2>3, <2>4, <2>7
  <2>. HIDE DEF d
  <2>6. Writes(t, d)
    BY <2>0, <2>1, <2>2, <2>5 DEF Writes
  <2>. QED  BY <2>6 DEF HeapEffect
<1>. QED  BY <1>1, <1>2

LEMMA LoadEffect ==
    ASSUME HeapInv, NEW ref \in Refs, NEW i \in Indices, Asks({ref}, {i}), NEW sizes,
           Load(ref, i, sizes)
    PROVE  HeapEffect
<1>1. CASE Fail
  BY <1>1, FailRests
<1>2. CASE ~Fail
  <2>. DEFINE s == Find(ref)
  <2>1. Found(ref) /\ AsSize(i) < Size(s) /\ answer' = {heap[s].data[AsSize(i)]}
        /\ UNCHANGED <<heap, next_ref, allocs>>
    BY <1>2 DEF Load, Answer
  <2>2. ref \in request'.refs /\ i \in request'.cells
    BY DEF Asks
  <2>3. s \in Active /\ Names(s)
    BY <2>1, <2>2, FoundIsNamed
  <2>. HIDE DEF s
  <2>4. AsSize(i) = i /\ i \in DOMAIN heap[s].data
    BY <2>1, <2>3, IndexIsMeant
  <2>5. Reads(s, i)
    BY <2>1, <2>2, <2>3, <2>4 DEF Reads
  <2>. QED  BY <2>5 DEF HeapEffect
<1>. QED  BY <1>1, <1>2

LEMMA StoreEffect ==
    ASSUME HeapInv, NEW ref \in Refs, NEW i \in Indices, Asks({ref}, {i}), NEW v \in Int,
           HeapStore(ref, i, v) \/ SpanWriteU8(ref, i, v)
    PROVE  HeapEffect
<1>1. CASE Fail
  BY <1>1, FailRests
<1>2. CASE ~Fail
  <2>. DEFINE s == Find(ref)
  <2>1. Found(ref) /\ AsSize(i) < Size(s) /\ Write(s, {AsSize(i)}, v)
    BY <1>2 DEF HeapStore, SpanWriteU8
  <2>2. ref \in request'.refs /\ request'.cells = {i}
    BY DEF Asks
  <2>3. s \in Active /\ Names(s)
    BY <2>1, <2>2, FoundIsNamed
  <2>. HIDE DEF s
  <2>4. {AsSize(i)} \subseteq request'.cells
    BY <2>1, <2>2, <2>3, IndexIsMeant
  <2>. QED  BY <2>1, <2>3, <2>4, WriteEffect
<1>. QED  BY <1>1, <1>2

LEMMA NextEffect == ASSUME HeapInv, Next PROVE HeapEffect
<1>1. ArraySizes \cup SpanSizes \cup Indices \cup Values \cup FillValues \subseteq Int
  BY HeapAssumption
<1>2. ASSUME NEW n \in ArraySizes \cup SpanSizes, HeapAlloc(n) \/ SpanCreate(n) PROVE HeapEffect
  BY <1>2, AllocEffect DEF HeapAlloc, SpanCreate
<1>3. ASSUME NEW ref \in Refs, Asks({ref}, {}), SpanPin(ref) PROVE HeapEffect
  <2>1. CASE Found(ref)
    <3>1. Find(ref) \in Active /\ Names(Find(ref))
      BY <1>3, <2>1, FoundIsNamed DEF Asks
    <3>2. Pins(Find(ref))
      BY <1>3, <2>1, <3>1 DEF SpanPin, Done, Answer, Pins
    <3>. QED  BY <3>2 DEF HeapEffect
  <2>2. CASE ~Found(ref)
    BY <1>3, <2>2, FailRests DEF SpanPin
  <2>. QED  BY <2>1, <2>2
<1>4. ASSUME NEW ref \in Refs, Asks({ref}, {}), Free(ref) PROVE HeapEffect
  BY <1>4, FreeEffect DEF Asks
<1>5. ASSUME NEW ref \in Refs, NEW start \in Int, NEW count \in Int, NEW v \in Int,
             Asks({ref}, start .. start + count - 1), SpanFill(ref, start, count, v)
      PROVE  HeapEffect
  <2>1. CASE Fail
    BY <2>1, FailRests
  <2>2. CASE ~Fail
    <3>1. Found(ref) /\ Write(Find(ref), start .. start + count - 1, v)
      BY <1>5, <2>2 DEF SpanFill
    <3>2. ref \in request'.refs /\ request'.cells = start .. start + count - 1
      BY <1>5 DEF Asks
    <3>. QED  BY <3>1, <3>2, FoundIsNamed, WriteEffect
  <2>. QED  BY <2>1, <2>2
<1>6. ASSUME NEW ref \in Refs, NEW f \in Shapes, RenderSpan(ref, f[1], f[2]) PROVE HeapEffect
  BY <1>6, FailRests DEF RenderSpan, Done, Answer, Rests, HeapEffect
<1>7. ASSUME NEW ref \in Refs, NEW previous \in Refs, NEW f \in Shapes,
             Asks({ref, previous}, 0 .. f[1] * f[2] - 1),
             RenderSpanDirty(ref, previous, f[1], f[2])
      PROVE  HeapEffect
  BY <1>7, DirtyEffect, ConsoleAssumption
<1>8. ASSUME ConsoleClear PROVE HeapEffect
  BY <1>8 DEF ConsoleClear, Done, Answer, Rests, HeapEffect
<1>. QED
  BY <1>1, <1>2, <1>3, <1>4, <1>5, <1>6, <1>7, <1>8, LoadEffect, StoreEffect DEF Next

-----------------------------------------------------------------------------
(* Type correctness.                                                       *)

LEMMA HeapInitInv == Init => HeapInv
<1>. SUFFICES ASSUME Init PROVE HeapInv
  OBVIOUS
<1>1. \A s \in Slots : heap[s] = NoObject /\ heap[s].active = FALSE
  BY DEF Init, NoObject
<1>2. ObjectsInv
  BY <1>1 DEF Init, ObjectsInv, Active
<1>3. ConsoleInv
  BY DEF Init, ConsoleInv
<1>4. CountersInv
  BY HeapAssumption DEF Init, CountersInv, Refs
<1>5. SizesInv
  BY <1>1 DEF SizesInv, Active
<1>. QED  BY <1>2, <1>3, <1>4, <1>5 DEF HeapInv

LEMMA UpdateData ==
    ASSUME NEW o \in HeapObject, NEW d \in Cells, NEW n, n = [o EXCEPT !.data = d]
    PROVE  /\ n \in HeapObject /\ n.data = d
           /\ n.id = o.id /\ n.elem_size = o.elem_size /\ n.pinned = o.pinned
BY DEF HeapObject

LEMMA UpdatePinned ==
    ASSUME NEW o \in HeapObject, NEW n, n = [o EXCEPT !.pinned = TRUE]
    PROVE  /\ n \in HeapObject /\ n.pinned = TRUE
           /\ n.id = o.id /\ n.elem_size = o.elem_size /\ n.data = o.data
BY DEF HeapObject

LEMMA NewObject ==
    ASSUME NEW id \in Refs, NEW n \in Nat, NEW elem_size \in {1, 4}, NEW o,
           o = [active |-> TRUE, id |-> id, elem_size |-> elem_size,
                pinned |-> FALSE, data |-> [i \in 0 .. n - 1 |-> 0]]
    PROVE  o \in HeapObject /\ Bytes(o)
<1>1. [i \in 0 .. n - 1 |-> 0] \in Cells
  BY DEF Cells
<1>2. 0 \in 0 .. ByteLimit - 1
  BY HeapAssumption
<1>. QED  BY <1>1, <1>2 DEF HeapObject, Bytes

LEMMA OneSlotChanges ==
    ASSUME ObjectsInv, NEW s \in Slots, NEW o \in {NoObject} \cup HeapObject,
           o \in HeapObject => Bytes(o), heap' = [heap EXCEPT ![s] = o]
    PROVE  /\ ObjectsInv'
           /\ heap'[s] = o /\ \A t \in Slots \ {s} : heap'[t] = heap[t]
           /\ o \in HeapObject => Active' = Active \cup {s}
           /\ o = NoObject => Active' = Active \ {s}
<1>1. /\ heap' \in [Slots -> {NoObject} \cup HeapObject]
      /\ heap'[s] = o /\ \A t \in Slots \ {s} : heap'[t] = heap[t]
  BY DEF ObjectsInv
<1>2. NoObject.active = FALSE /\ \A x \in HeapObject : x.active = TRUE
  BY DEF NoObject, HeapObject
<1>3. /\ o \in HeapObject => Active' = Active \cup {s}
      /\ o = NoObject => Active' = Active \ {s}
  <2>1. \A t \in Slots : t \in Active <=> heap[t].active
    BY DEF Active
  <2>2. \A t \in Slots : t \in Active' <=> heap'[t].active
    BY DEF Active, Slots
  <2>3. Active \subseteq Slots /\ Active' \subseteq Slots
    BY DEF Active, Slots
  <2>. QED  BY <1>1, <1>2, <2>1, <2>2, <2>3
<1>4. \A t \in Active' : Bytes(heap'[t])
  <2>1. \A t \in Active' \ {s} : heap'[t] = heap[t] /\ t \in Active
    BY <1>1, <1>3 DEF Active, Slots
  <2>2. \A t \in Active : Bytes(heap[t])
    BY DEF ObjectsInv
  <2>3. s \in Active' => o \in HeapObject
    BY <1>1, <1>3
  <2>4. \A t \in Active' : Bytes(heap'[t])
    BY <1>1, <2>1, <2>2, <2>3
  <2>. QED  BY <2>4
<1>5. ObjectsInv'
  BY <1>1, <1>4 DEF ObjectsInv, Slots, Bytes, NoObject, HeapObject, Refs, Cells
<1>. QED  BY <1>1, <1>3, <1>5

LEMMA ObjectsNext == ASSUME HeapInv, HeapEffect PROVE ObjectsInv'
<1>1. CASE UNCHANGED <<heap, next_ref, allocs>>
  BY <1>1 DEF HeapInv, ObjectsInv, Active
<1>2. ASSUME NEW s, NEW n, NEW elem_size, Issues(s, n, elem_size) PROVE ObjectsInv'
  <2>. DEFINE o == [active |-> TRUE, id |-> next_ref, elem_size |-> elem_size,
                    pinned |-> FALSE, data |-> [i \in 0 .. n - 1 |-> 0]]
  <2>1. s \in Slots /\ heap' = [heap EXCEPT ![s] = o]
    BY <1>2 DEF Issues
  <2>2. o \in HeapObject /\ Bytes(o)
    BY <1>2, NewObject DEF Issues, HeapInv, CountersInv
  <2>. HIDE DEF o
  <2>. QED  BY <2>1, <2>2, OneSlotChanges DEF HeapInv
<1>3. ASSUME NEW s, Frees(s) PROVE ObjectsInv'
  <2>1. s \in Slots /\ heap' = [heap EXCEPT ![s] = NoObject]
    BY <1>3 DEF Frees, Active
  <2>2. NoObject \notin HeapObject
    BY DEF NoObject, HeapObject
  <2>. QED  BY <2>1, <2>2, OneSlotChanges DEF HeapInv
<1>4. ASSUME NEW s, Pins(s) PROVE ObjectsInv'
  <2>. DEFINE o == [heap[s] EXCEPT !.pinned = TRUE]
  <2>1. s \in Active /\ s \in Slots /\ heap' = [heap EXCEPT ![s] = o]
    BY <1>4, Zenon DEF Pins, Active
  <2>2. heap[s] \in HeapObject /\ Bytes(heap[s])
    BY <2>1, ActiveObject DEF HeapInv, ObjectsInv
  <2>3. o \in HeapObject /\ o.elem_size = heap[s].elem_size /\ o.data = heap[s].data
    BY <2>2, UpdatePinned
  <2>. HIDE DEF o
  <2>4. Bytes(o)
    BY <2>2, <2>3 DEF Bytes
  <2>. QED  BY <2>1, <2>3, <2>4, OneSlotChanges DEF HeapInv
<1>5. ASSUME NEW s, NEW d, Writes(s, d) PROVE ObjectsInv'
  <2>. DEFINE o == [heap[s] EXCEPT !.data = d]
  <2>1. s \in Active /\ s \in Slots /\ heap' = [heap EXCEPT ![s] = o]
    BY <1>5, Zenon DEF Writes, Active
  <2>2. heap[s] \in HeapObject /\ d \in Cells
    <3>1. heap[s] \in HeapObject /\ Size(s) \in Nat /\ DOMAIN heap[s].data = 0 .. Size(s) - 1
      BY <2>1, SizeBounds DEF HeapInv
    <3>2. d \in [0 .. Size(s) - 1 -> Int]
      BY <1>5, <3>1 DEF Writes
    <3>. QED  BY <3>1, <3>2 DEF Cells
  <2>3. o \in HeapObject /\ o.elem_size = heap[s].elem_size /\ o.data = d
    BY <2>2, UpdateData
  <2>. HIDE DEF o
  <2>4. Bytes(o)
    BY <1>5, <2>3 DEF Bytes, Writes
  <2>. QED  BY <2>1, <2>3, <2>4, OneSlotChanges DEF HeapInv
<1>. QED  BY <1>1, <1>2, <1>3, <1>4, <1>5 DEF HeapEffect, Rests, Reads

\* What is drawn are bytes of the span.
LEMMA DrawnBytes ==
    ASSUME HeapInv, NEW ref, NEW width \in Int, NEW height \in Int,
           Drawable(ref, width, height), NEW places \in SUBSET Frame(width, height)
    PROVE  /\ DOMAIN Drawn(Find(ref), places, width) = DOMAIN screen
           /\ \A p \in DOMAIN screen :
                 Drawn(Find(ref), places, width)[p] \in 0 .. ByteLimit - 1 \cup {Blank}
<1>. DEFINE s == Find(ref)
<1>1. s \in Active /\ heap[s].elem_size = 1 /\ width * height <= Size(s)
  BY FindFinds DEF Drawable, HeapInv
<1>2. Size(s) \in Nat /\ DOMAIN heap[s].data = 0 .. Size(s) - 1
      /\ \A i \in DOMAIN heap[s].data : heap[s].data[i] \in 0 .. ByteLimit - 1
  BY <1>1, SizeBounds DEF HeapInv, ObjectsInv, Bytes
<1>. HIDE DEF s
<1>3. ASSUME NEW p \in places PROVE heap[s].data[CellAt(p, width)] \in 0 .. ByteLimit - 1
  <2>1. CellAt(p, width) \in 0 .. width * height - 1
    BY CellInFrame
  <2>2. CellAt(p, width) \in DOMAIN heap[s].data
    BY <1>1, <1>2, <2>1
  <2>. QED  BY <1>2, <2>2
<1>4. \A p \in DOMAIN screen : screen[p] \in 0 .. ByteLimit - 1 \cup {Blank}
  BY DEF HeapInv, ConsoleInv
<1>. QED  BY <1>3, <1>4 DEF Drawn, s

LEMMA ConsoleNext == ASSUME HeapInv, Next PROVE ConsoleInv'
<1>1. CASE UNCHANGED screen
  BY <1>1 DEF HeapInv, ConsoleInv
<1>2. ASSUME NEW ref \in Refs, NEW f \in Shapes, RenderSpan(ref, f[1], f[2]) PROVE ConsoleInv'
  <2>1. CASE Drawable(ref, f[1], f[2])
    <3>1. screen' = Drawn(Find(ref), Frame(f[1], f[2]), f[1])
      BY <1>2, <2>1 DEF RenderSpan
    <3>2. f[1] \in Int /\ f[2] \in Int
      BY ConsoleAssumption
    <3>. QED  BY <2>1, <3>1, <3>2, DrawnBytes DEF HeapInv, ConsoleInv
  <2>. QED  BY <1>1, <1>2, <2>1 DEF RenderSpan, Fail
<1>3. ASSUME NEW ref \in Refs, NEW previous \in Refs, NEW f \in Shapes,
             RenderSpanDirty(ref, previous, f[1], f[2])
      PROVE  ConsoleInv'
  <2>1. CASE Drawable(ref, f[1], f[2]) /\ Drawable(previous, f[1], f[2])
    <3>. DEFINE changed == Changed(Find(ref), Find(previous), f[1], f[2])
    <3>1. screen' = Drawn(Find(ref), changed, f[1])
      BY <1>3, <2>1 DEF RenderSpanDirty
    <3>2. f[1] \in Int /\ f[2] \in Int
      BY ConsoleAssumption
    <3>3. changed \in SUBSET Frame(f[1], f[2])
      BY DEF Changed
    <3>. HIDE DEF changed
    <3>. QED  BY <2>1, <3>1, <3>2, <3>3, DrawnBytes DEF HeapInv, ConsoleInv
  <2>. QED  BY <1>1, <1>3, <2>1 DEF RenderSpanDirty, Fail
<1>4. ASSUME ConsoleClear PROVE ConsoleInv'
  BY <1>4 DEF ConsoleClear, HeapInv, ConsoleInv
<1>5. ASSUME NEW n, NEW elem_size, Alloc(n, elem_size) PROVE UNCHANGED screen
  BY <1>5 DEF Alloc, Fail
<1>6. ASSUME NEW s, NEW cells, NEW v, Write(s, cells, v) PROVE UNCHANGED screen
  BY <1>6 DEF Write
<1>. QED
  BY <1>1, <1>2, <1>3, <1>4, <1>5, <1>6
  DEF Next, HeapAlloc, SpanCreate, Free, SpanPin, HeapStore, SpanWriteU8, Load, SpanFill,
      Done, Fail

LEMMA CountersNext == ASSUME HeapInv, Next PROVE CountersInv'
<1>1. rc' \in {1, -1}
  <2>1. ASSUME NEW n, NEW elem_size, Alloc(n, elem_size) PROVE rc' \in {1, -1}
    BY <2>1 DEF Alloc, Answer, Fail
  <2>2. ASSUME NEW s, NEW cells, NEW v, Write(s, cells, v) PROVE rc' \in {1, -1}
    BY <2>2 DEF Write, Done, Answer
  <2>. QED
    BY <2>1, <2>2
    DEF Next, HeapAlloc, SpanCreate, Free, SpanPin, HeapStore, SpanWriteU8, Load, SpanFill,
        RenderSpan, RenderSpanDirty, ConsoleClear, Done, Answer, Fail
<1>2. allocs' \in 0 .. MaxAllocs /\ next_ref' \in Refs
  <2>1. CASE UNCHANGED <<next_ref, allocs>>
    BY <2>1 DEF HeapInv, CountersInv
  <2>2. ASSUME NEW s, NEW n, NEW elem_size, Issues(s, n, elem_size)
        PROVE  allocs' \in 0 .. MaxAllocs /\ next_ref' \in Refs
    <3>1. next_ref' = (next_ref + 1) % RefLimit /\ next_ref + 1 \in Int
      BY <2>2 DEF Issues, HeapInv, CountersInv, Refs
    <3>2. next_ref' \in 0 .. RefLimit - 1
      BY <3>1, HeapAssumption
    <3>3. allocs' \in 0 .. MaxAllocs
      BY <2>2, HeapAssumption DEF Issues, HeapInv, CountersInv
    <3>. QED  BY <3>2, <3>3 DEF Refs
  <2>3. HeapEffect
    BY NextEffect
  <2>. QED  BY <2>1, <2>2, <2>3 DEF HeapEffect, Rests, Frees, Pins, Writes, Reads
<1>3. answer' \subseteq Int
  <2>1. next_ref \in Int
    BY DEF HeapInv, CountersInv, Refs
  <2>2. ASSUME NEW s, NEW i, Reads(s, i) PROVE answer' \subseteq Int
    <3>1. s \in Active /\ i \in DOMAIN heap[s].data /\ answer' = {heap[s].data[i]}
      BY <2>2 DEF Reads
    <3>2. heap[s].data[i] \in Int
      BY <3>1, SizeBounds DEF HeapInv
    <3>. QED  BY <3>1, <3>2
  <2>3. HeapEffect
    BY NextEffect
  <2>. QED  BY <2>1, <2>2, <2>3 DEF HeapEffect, Rests, Issues, Frees, Pins, Writes
<1>. QED  BY <1>1, <1>2, <1>3 DEF CountersInv, Refs

\* The state after each effect, slot by slot.
LEMMA AfterIssue ==
    ASSUME HeapInv, NEW s, NEW n, NEW elem_size, Issues(s, n, elem_size)
    PROVE  /\ Active' = Active \cup {s} /\ \A t \in Active : heap'[t] = heap[t]
           /\ heap'[s].id = next_ref /\ heap'[s].pinned = FALSE
           /\ DOMAIN heap'[s].data = 0 .. n - 1
           /\ \A i \in DOMAIN heap'[s].data : heap'[s].data[i] = 0
<1>. DEFINE o == [active |-> TRUE, id |-> next_ref, elem_size |-> elem_size,
                  pinned |-> FALSE, data |-> [i \in 0 .. n - 1 |-> 0]]
<1>1. s \in Slots /\ s \notin Active /\ heap' = [heap EXCEPT ![s] = o]
  BY DEF Issues
<1>2. o \in HeapObject /\ Bytes(o)
  BY NewObject DEF Issues, HeapInv, CountersInv
<1>3. o.id = next_ref /\ o.pinned = FALSE /\ DOMAIN o.data = 0 .. n - 1
      /\ \A i \in DOMAIN o.data : o.data[i] = 0
  OBVIOUS
<1>. HIDE DEF o
<1>4. /\ heap'[s] = o /\ \A t \in Slots \ {s} : heap'[t] = heap[t]
      /\ Active' = Active \cup {s}
  BY <1>1, <1>2, OneSlotChanges DEF HeapInv
<1>. QED  BY <1>1, <1>3, <1>4 DEF Active

LEMMA AfterFree ==
    ASSUME HeapInv, NEW s, Frees(s)
    PROVE  Active' = Active \ {s} /\ \A t \in Active \ {s} : heap'[t] = heap[t]
<1>1. s \in Slots /\ heap' = [heap EXCEPT ![s] = NoObject]
  BY DEF Frees, Active
<1>2. NoObject \notin HeapObject
  BY DEF NoObject, HeapObject
<1>3. /\ Active' = Active \ {s}
      /\ \A t \in Slots \ {s} : heap'[t] = heap[t]
  BY <1>1, <1>2, OneSlotChanges DEF HeapInv
<1>. QED  BY <1>3 DEF Active

LEMMA AfterUpdate ==
    ASSUME HeapInv, NEW s, Pins(s) \/ \E d : Writes(s, d)
    PROVE  /\ Active' = Active /\ s \in Active
           /\ \A t \in Active \ {s} : heap'[t] = heap[t]
           /\ heap'[s].id = heap[s].id /\ heap'[s].elem_size = heap[s].elem_size
           /\ heap[s].pinned => heap'[s].pinned
           /\ DOMAIN heap'[s].data = DOMAIN heap[s].data
           /\ \A i \in DOMAIN heap[s].data \ request'.cells :
                 heap'[s].data[i] = heap[s].data[i]
<1>1. s \in Active /\ s \in Slots
  BY DEF Pins, Writes, Active
<1>2. heap[s] \in HeapObject /\ Bytes(heap[s])
  BY <1>1, ActiveObject DEF HeapInv, ObjectsInv
<1>3. PICK o \in HeapObject : /\ heap' = [heap EXCEPT ![s] = o] /\ Bytes(o)
                              /\ o.id = heap[s].id /\ o.elem_size = heap[s].elem_size
                              /\ heap[s].pinned => o.pinned
                              /\ DOMAIN o.data = DOMAIN heap[s].data
                              /\ \A i \in DOMAIN heap[s].data \ request'.cells :
                                    o.data[i] = heap[s].data[i]
  <2>1. CASE Pins(s)
    <3>. DEFINE o == [heap[s] EXCEPT !.pinned = TRUE]
    <3>1. heap' = [heap EXCEPT ![s] = o]
      BY <2>1, Zenon DEF Pins
    <3>2. /\ o \in HeapObject /\ o.pinned = TRUE
          /\ o.id = heap[s].id /\ o.elem_size = heap[s].elem_size /\ o.data = heap[s].data
      BY <1>2, UpdatePinned
    <3>. HIDE DEF o
    <3>3. Bytes(o)
      BY <1>2, <3>2 DEF Bytes
    <3>. QED  BY <3>1, <3>2, <3>3
  <2>2. ASSUME NEW d, Writes(s, d)
        PROVE  \E o \in HeapObject :
                  /\ heap' = [heap EXCEPT ![s] = o] /\ Bytes(o)
                  /\ o.id = heap[s].id /\ o.elem_size = heap[s].elem_size
                  /\ heap[s].pinned => o.pinned
                  /\ DOMAIN o.data = DOMAIN heap[s].data
                  /\ \A i \in DOMAIN heap[s].data \ request'.cells :
                        o.data[i] = heap[s].data[i]
    <3>. DEFINE o == [heap[s] EXCEPT !.data = d]
    <3>1. heap' = [heap EXCEPT ![s] = o]
      BY <2>2, Zenon DEF Writes
    <3>5. \A i \in DOMAIN heap[s].data \ request'.cells : d[i] = heap[s].data[i]
      BY <2>2 DEF Writes
    <3>2. d \in Cells /\ DOMAIN d = DOMAIN heap[s].data
      <4>1. Size(s) \in Nat /\ DOMAIN heap[s].data = 0 .. Size(s) - 1
        BY <1>1, SizeBounds DEF HeapInv
      <4>2. d \in [0 .. Size(s) - 1 -> Int]
        BY <2>2, <4>1 DEF Writes
      <4>. QED  BY <4>1, <4>2 DEF Cells
    <3>3. /\ o \in HeapObject /\ o.data = d /\ o.pinned = heap[s].pinned
          /\ o.id = heap[s].id /\ o.elem_size = heap[s].elem_size
      BY <1>2, <3>2, UpdateData
    <3>. HIDE DEF o
    <3>4. Bytes(o)
      BY <2>2, <3>3 DEF Bytes, Writes
    <3>. QED  BY <3>1, <3>2, <3>3, <3>4, <3>5
  <2>. QED  BY <2>1, <2>2
<1>4. /\ heap'[s] = o /\ \A t \in Slots \ {s} : heap'[t] = heap[t]
      /\ Active' = Active \cup {s}
  BY <1>1, <1>3, OneSlotChanges DEF HeapInv
<1>. QED  BY <1>1, <1>3, <1>4 DEF Active

LEMMA SizesNext == ASSUME HeapInv, HeapEffect PROVE SizesInv'
<1>1. CASE UNCHANGED <<heap, next_ref, allocs>>
  BY <1>1 DEF HeapInv, SizesInv, Active, Size
<1>2. ASSUME NEW s, NEW n, NEW elem_size, Issues(s, n, elem_size) PROVE SizesInv'
  <2>1. /\ Active' = Active \cup {s} /\ \A t \in Active : heap'[t] = heap[t]
        /\ DOMAIN heap'[s].data = 0 .. n - 1
    BY <1>2, AfterIssue
  <2>2. n \in Nat /\ n \in ArraySizes \cup SpanSizes
    BY <1>2 DEF Issues
  <2>3. Cardinality(0 .. n - 1) = n
    <3>1. Cardinality(0 .. n - 1) = IF 0 > n - 1 THEN 0 ELSE n - 1 - 0 + 1
      BY <2>2, FS_Interval
    <3>. QED  BY <2>2, <3>1
  <2>4. Cardinality(DOMAIN heap'[s].data) \in ArraySizes \cup SpanSizes
    BY <2>1, <2>2, <2>3
  <2>5. \A t \in Active : Cardinality(DOMAIN heap'[t].data) \in ArraySizes \cup SpanSizes
    BY <2>1 DEF HeapInv, SizesInv, Size
  <2>. QED  BY <2>1, <2>4, <2>5 DEF SizesInv, Size
<1>3. ASSUME NEW s, Frees(s) PROVE SizesInv'
  BY <1>3, AfterFree DEF HeapInv, SizesInv, Size
<1>4. ASSUME NEW s, Pins(s) \/ \E d : Writes(s, d) PROVE SizesInv'
  <2>1. Active' = Active /\ \A t \in Active : DOMAIN heap'[t].data = DOMAIN heap[t].data
    BY <1>4, AfterUpdate
  <2>. QED  BY <2>1 DEF HeapInv, SizesInv, Size
<1>. QED  BY <1>1, <1>2, <1>3, <1>4 DEF HeapEffect, Rests, Reads

LEMMA HeapNextInv == HeapInv /\ [Next]_vars => HeapInv'
<1>1. CASE UNCHANGED vars
  BY <1>1 DEF vars, HeapInv, ObjectsInv, Active, ConsoleInv, CountersInv, SizesInv, Size
<1>2. ASSUME HeapInv, Next PROVE HeapInv'
  BY <1>2, NextEffect, ObjectsNext, ConsoleNext, CountersNext, SizesNext DEF HeapInv
<1>. QED  BY <1>1, <1>2

LEMMA HeapInvariant == Spec => []HeapInv
BY HeapInitInv, HeapNextInv, PTL DEF Spec

(* The heap is well typed: whatever operands scripts pass, a span holds    *)
(* bytes and the console shows bytes.                                      *)
THEOREM HeapTypeCorrect == Spec => []HeapTypeOK
<1>1. ASSUME HeapInv, NEW s \in Active PROVE Object(s)
  <2>1. heap[s] \in HeapObject /\ Bytes(heap[s])
        /\ heap[s].data \in [DOMAIN heap[s].data -> Int]
    BY <1>1, SizeBounds DEF HeapInv, ObjectsInv
  <2>. QED  BY <2>1 DEF Object, HeapObject, Bytes
<1>2. HeapInv => HeapTypeOK
  BY <1>1 DEF HeapInv, ObjectsInv, ConsoleInv, CountersInv, HeapTypeOK
<1>. QED  BY <1>2, HeapInvariant, PTL

-----------------------------------------------------------------------------
(* While the counter of references has not wrapped, a reference is of one  *)
(* object only.                                                            *)

Distinct ==
    /\ \A s, t \in Active : heap[s].id = heap[t].id => s = t
    /\ \A s \in Active : heap[s].id \in 1 .. allocs
    /\ next_ref = IF allocs + 1 = RefLimit THEN 0 ELSE allocs + 1

StoreInv == HeapInv /\ Distinct

LEMMA IssuedNumber ==
    ASSUME MaxAllocs < RefLimit, StoreInv,
           NEW s, NEW n, NEW elem_size, Issues(s, n, elem_size)
    PROVE  /\ next_ref = allocs + 1 /\ next_ref \in 1 .. RefLimit - 1
           /\ next_ref' = IF allocs' + 1 = RefLimit THEN 0 ELSE allocs' + 1
<1>1. allocs \in Nat /\ allocs + 1 < RefLimit /\ allocs' = allocs + 1 /\ RefLimit \in Nat
  BY HeapAssumption DEF StoreInv, HeapInv, CountersInv, Issues
<1>2. next_ref = allocs + 1 /\ next_ref' = (next_ref + 1) % RefLimit
  BY <1>1 DEF StoreInv, Distinct, Issues
<1>3. CASE allocs + 2 = RefLimit
  <2>1. next_ref + 1 = RefLimit
    BY <1>1, <1>2, <1>3
  <2>2. next_ref' = 0
    BY <1>2, <2>1, Remainder
  <2>. QED  BY <1>1, <1>2, <1>3, <2>2
<1>4. CASE allocs + 2 # RefLimit
  <2>1. next_ref + 1 \in 0 .. RefLimit - 1
    BY <1>1, <1>2, <1>4
  <2>2. next_ref' = next_ref + 1
    BY <1>2, <2>1, Remainder
  <2>. QED  BY <1>1, <1>2, <1>4, <2>2
<1>. QED  BY <1>3, <1>4

LEMMA DistinctInit == ASSUME MaxAllocs < RefLimit PROVE Init => Distinct
<1>. SUFFICES ASSUME Init PROVE Distinct
  OBVIOUS
<1>1. Active = {}
  <2>1. \A s \in Slots : heap[s].active = FALSE
    BY DEF Init, NoObject
  <2>. QED  BY <2>1 DEF Active
<1>. QED  BY <1>1, HeapAssumption DEF Init, Distinct

LEMMA DistinctNext ==
    ASSUME MaxAllocs < RefLimit, StoreInv, HeapEffect
    PROVE  Distinct'
<1>. USE DEF StoreInv
<1>0. allocs \in Nat
  BY DEF HeapInv, CountersInv
<1>1. CASE UNCHANGED <<heap, next_ref, allocs>>
  BY <1>1 DEF Distinct, Active
<1>2. ASSUME NEW s, NEW n, NEW elem_size, Issues(s, n, elem_size) PROVE Distinct'
  <2>1. /\ Active' = Active \cup {s} /\ \A t \in Active : heap'[t] = heap[t]
        /\ heap'[s].id = next_ref
    BY <1>2, AfterIssue
  <2>2. /\ next_ref = allocs + 1 /\ allocs' = allocs + 1
        /\ next_ref' = IF allocs' + 1 = RefLimit THEN 0 ELSE allocs' + 1
    BY <1>2, IssuedNumber DEF Issues
  <2>3. \A t \in Active : heap'[t].id \in 1 .. allocs
    BY <2>1 DEF Distinct
  <2>4. \A t \in Active' : heap'[t].id \in 1 .. allocs'
    BY <1>0, <2>1, <2>2, <2>3
  <2>5. \A t, u \in Active' : heap'[t].id = heap'[u].id => t = u
    BY <1>0, <2>1, <2>2, <2>3 DEF Distinct
  <2>. QED  BY <2>2, <2>4, <2>5 DEF Distinct
<1>3. ASSUME NEW s, Frees(s) PROVE Distinct'
  <2>1. Active' = Active \ {s} /\ \A t \in Active \ {s} : heap'[t] = heap[t]
    BY <1>3, AfterFree
  <2>. QED  BY <1>3, <2>1 DEF Distinct, Frees
<1>4. ASSUME NEW s, Pins(s) \/ \E d : Writes(s, d) PROVE Distinct'
  <2>1. Active' = Active /\ \A t \in Active : heap'[t].id = heap[t].id
    BY <1>4, AfterUpdate
  <2>2. UNCHANGED <<next_ref, allocs>>
    BY <1>4 DEF Pins, Writes
  <2>. QED  BY <2>1, <2>2 DEF Distinct
<1>. QED  BY <1>1, <1>2, <1>3, <1>4 DEF HeapEffect, Rests, Reads

LEMMA StoreInvariant == ASSUME MaxAllocs < RefLimit PROVE Spec => []StoreInv
<1>1. Init => StoreInv
  BY HeapInitInv, DistinctInit DEF StoreInv
<1>2. StoreInv /\ [Next]_vars => StoreInv'
  <2>1. CASE UNCHANGED vars
    BY <2>1, HeapNextInv DEF StoreInv, vars, Distinct, Active
  <2>2. ASSUME StoreInv, Next PROVE StoreInv'
    BY <2>2, HeapNextInv, NextEffect, DistinctNext DEF StoreInv
  <2>. QED  BY <2>1, <2>2
<1>. QED  BY <1>1, <1>2, PTL DEF Spec

-----------------------------------------------------------------------------
(* The heap implements the store of objects.                               *)

Object3(o) == [elem_size |-> o.elem_size, pinned |-> o.pinned, data |-> o.data]

LEMMA FindOwn == ASSUME StoreInv, NEW s \in Active PROVE Find(heap[s].id) = s
<1>1. s \in Slots /\ heap[s] \in HeapObject /\ heap[s].active
  BY ActiveObject DEF StoreInv, HeapInv, Active
<1>2. AsRef(heap[s].id) = heap[s].id
  BY <1>1, Remainder DEF HeapObject, Refs, AsRef
<1>3. Found(heap[s].id)
  BY <1>1, <1>2 DEF Found, Holds
<1>4. Find(heap[s].id) \in Active /\ heap[Find(heap[s].id)].id = heap[s].id
  BY <1>2, <1>3, FindFinds DEF StoreInv, HeapInv
<1>. QED  BY <1>4 DEF StoreInv, Distinct

LEMMA ObjectsAre ==
    StoreInv => /\ DOMAIN Objects = {heap[s].id : s \in Active}
                /\ \A s \in Active : Objects[heap[s].id] = Object3(heap[s])
                /\ Objects = [r \in DOMAIN Objects |-> Objects[r]]
<1>. SUFFICES ASSUME StoreInv PROVE /\ DOMAIN Objects = {heap[s].id : s \in Active}
                                    /\ \A s \in Active : Objects[heap[s].id] = Object3(heap[s])
                                    /\ Objects = [r \in DOMAIN Objects |-> Objects[r]]
  OBVIOUS
<1>1. DOMAIN Objects = {heap[s].id : s \in Active}
  BY DEF Objects
<1>2. ASSUME NEW s \in Active PROVE Objects[heap[s].id] = Object3(heap[s])
  <2>1. Objects[heap[s].id] = Object3(heap[Find(heap[s].id)])
    BY DEF Objects, Object3
  <2>. QED  BY <2>1, FindOwn
<1>3. Objects = [r \in DOMAIN Objects |-> Objects[r]]
  BY DEF Objects
<1>. QED  BY <1>1, <1>2, <1>3

LEMMA ObjectsAreThen ==
    ASSUME StoreInv'
    PROVE  /\ DOMAIN Objects' = {heap'[s].id : s \in Active'}
           /\ \A s \in Active' : Objects'[heap'[s].id] = Object3(heap'[s])
           /\ Objects' = [r \in DOMAIN Objects' |-> Objects'[r]]
<1>1. (/\ DOMAIN Objects = {heap[s].id : s \in Active}
       /\ \A s \in Active : Objects[heap[s].id] = Object3(heap[s])
       /\ Objects = [r \in DOMAIN Objects |-> Objects[r]])'
  BY ObjectsAre, PTL
<1>. QED  BY <1>1 DEF Object3

LEMMA IssueCreates ==
    ASSUME MaxAllocs < RefLimit, StoreInv, StoreInv',
           NEW s, NEW n, NEW elem_size, Issues(s, n, elem_size)
    PROVE  Store!Next
<1>. DEFINE r == next_ref
<1>1. /\ Active' = Active \cup {s} /\ \A t \in Active : heap'[t] = heap[t]
      /\ heap'[s].id = r /\ heap'[s].pinned = FALSE
      /\ \A i \in DOMAIN heap'[s].data : heap'[s].data[i] = 0
  BY AfterIssue DEF StoreInv
<1>2. allocs \in Nat /\ allocs' = allocs + 1 /\ r = allocs + 1 /\ r \in 1 .. RefLimit - 1
  <2>1. allocs \in Nat /\ allocs' = allocs + 1
    BY DEF Issues, StoreInv, HeapInv, CountersInv
  <2>2. r = allocs + 1 /\ r \in 1 .. RefLimit - 1
    BY IssuedNumber
  <2>. QED  BY <2>1, <2>2
<1>3. DOMAIN Objects' = DOMAIN Objects \cup {r}
  BY <1>1, ObjectsAre, ObjectsAreThen
<1>4. \A q \in DOMAIN Objects : q \in 1 .. allocs
  BY ObjectsAre DEF StoreInv, Distinct
<1>5. r \notin DOMAIN Objects
  BY <1>2, <1>4
<1>6. 1 .. allocs' = (1 .. allocs) \cup {r} /\ r \in (1 .. RefLimit - 1) \ (1 .. allocs)
      /\ 1 .. allocs' # 1 .. allocs
  BY <1>2
<1>7. \A q \in DOMAIN Objects : Objects'[q] = Objects[q]
  <2>1. ASSUME NEW t \in Active PROVE Objects'[heap[t].id] = Objects[heap[t].id]
    <3>1. heap'[t] = heap[t] /\ t \in Active'
      BY <1>1
    <3>. QED  BY <3>1, ObjectsAre, ObjectsAreThen
  <2>. QED  BY <2>1, ObjectsAre
<1>8. Objects'[r].pinned = FALSE /\ \A i \in DOMAIN Objects'[r].data : Objects'[r].data[i] = 0
  <2>1. Objects'[r] = Object3(heap'[s])
    BY <1>1, ObjectsAreThen
  <2>. QED  BY <1>1, <2>1 DEF Object3
<1>9. answer' = {r}
  BY DEF Issues
<1>10. Store!Create
  BY <1>3, <1>6, <1>7, <1>8, <1>9 DEF Store!Create
<1>. QED  BY <1>10 DEF Store!Next

LEMMA FreeDestroys ==
    ASSUME StoreInv, StoreInv', NEW s, Frees(s)
    PROVE  Store!Next
<1>. DEFINE r == heap[s].id
<1>1. Active' = Active \ {s} /\ \A t \in Active \ {s} : heap'[t] = heap[t]
  BY AfterFree DEF StoreInv
<1>2. s \in Active /\ UNCHANGED allocs /\ r \in request'.refs /\ answer' = {}
  BY DEF Frees, Names
<1>3. \A t \in Active \ {s} : heap[t].id # r
  BY <1>2 DEF StoreInv, Distinct
<1>4. DOMAIN Objects' = DOMAIN Objects \ {r} /\ r \in DOMAIN Objects
  BY <1>1, <1>2, <1>3, ObjectsAre, ObjectsAreThen
<1>5. \A q \in DOMAIN Objects' : Objects'[q] = Objects[q]
  <2>1. ASSUME NEW t \in Active \ {s} PROVE Objects'[heap'[t].id] = Objects[heap'[t].id]
    <3>1. heap'[t] = heap[t] /\ t \in Active'
      BY <1>1
    <3>. QED  BY <3>1, ObjectsAre, ObjectsAreThen
  <2>. QED  BY <1>1, <2>1, ObjectsAreThen
<1>6. Objects' = [q \in DOMAIN Objects \ {r} |-> Objects[q]]
  <2>1. Objects' = [q \in DOMAIN Objects' |-> Objects'[q]]
    BY ObjectsAreThen
  <2>. QED  BY <1>4, <1>5, <2>1
<1>7. DOMAIN Objects' # DOMAIN Objects
  BY <1>4
<1>8. Store!Destroy
  BY <1>2, <1>4, <1>6, <1>7 DEF Store!Destroy, Store!Named
<1>. QED  BY <1>8 DEF Store!Next

LEMMA UpdateUpdates ==
    ASSUME StoreInv, StoreInv', NEW s, Pins(s) \/ \E d : Writes(s, d)
    PROVE  Store!Next
<1>. DEFINE r == heap[s].id
<1>1. /\ Active' = Active /\ s \in Active
      /\ \A t \in Active \ {s} : heap'[t] = heap[t]
      /\ heap'[s].id = r /\ heap'[s].elem_size = heap[s].elem_size
      /\ heap[s].pinned => heap'[s].pinned
      /\ DOMAIN heap'[s].data = DOMAIN heap[s].data
      /\ \A i \in DOMAIN heap[s].data \ request'.cells : heap'[s].data[i] = heap[s].data[i]
  BY AfterUpdate DEF StoreInv
<1>2. UNCHANGED allocs /\ r \in request'.refs /\ answer' = {}
  BY DEF Pins, Writes, Names
<1>3. DOMAIN Objects' = DOMAIN Objects /\ r \in DOMAIN Objects
  BY <1>1, ObjectsAre, ObjectsAreThen
<1>4. \A q \in DOMAIN Objects \ {r} : Objects'[q] = Objects[q]
  <2>1. ASSUME NEW t \in Active \ {s} PROVE Objects'[heap[t].id] = Objects[heap[t].id]
    <3>1. heap'[t] = heap[t] /\ t \in Active'
      BY <1>1
    <3>. QED  BY <3>1, ObjectsAre, ObjectsAreThen
  <2>. QED  BY <2>1, ObjectsAre
<1>5. Objects[r] = Object3(heap[s]) /\ Objects'[r] = Object3(heap'[s])
  BY <1>1, ObjectsAre, ObjectsAreThen
<1>6. /\ Objects'[r].elem_size = Objects[r].elem_size
      /\ DOMAIN Objects'[r].data = DOMAIN Objects[r].data
      /\ Objects[r].pinned => Objects'[r].pinned
      /\ \A i \in DOMAIN Objects[r].data \ request'.cells : Objects'[r].data[i] = Objects[r].data[i]
  BY <1>1, <1>5 DEF Object3
<1>7. Store!Update
  BY <1>2, <1>3, <1>4, <1>6 DEF Store!Update, Store!Named
<1>. QED  BY <1>7 DEF Store!Next

LEMMA ReadReads ==
    ASSUME StoreInv, NEW s, NEW i, Reads(s, i), Objects' = Objects
    PROVE  Store!Next
<1>. DEFINE r == heap[s].id
<1>1. /\ s \in Active /\ r \in request'.refs /\ UNCHANGED allocs
      /\ i \in DOMAIN heap[s].data \cap request'.cells /\ answer' = {heap[s].data[i]}
  BY DEF Reads, Names
<1>2. r \in DOMAIN Objects /\ Objects[r].data = heap[s].data
  <2>1. r \in DOMAIN Objects /\ Objects[r] = Object3(heap[s])
    BY <1>1, ObjectsAre
  <2>. QED  BY <2>1 DEF Object3
<1>3. Store!Read
  BY <1>1, <1>2 DEF Store!Read, Store!Named
<1>. QED  BY <1>3 DEF Store!Next

(* As long as references have not wrapped around, the heap implements the  *)
(* store of objects: a stale reference reads and writes no later object,   *)
(* an instruction changes no cell but those it was asked for, and what it  *)
(* answers is what stands in one of them (vm.c:263-332, 876-961).          *)
THEOREM HeapImplementsObjectStore ==
    ASSUME MaxAllocs < RefLimit
    PROVE  Spec => ImplementsObjectStore
<1>1. Init => Store!Init
  <2>. SUFFICES ASSUME Init PROVE Store!Init
    OBVIOUS
  <2>1. StoreInv /\ allocs = 0 /\ answer = {}
    BY HeapInitInv, DistinctInit DEF StoreInv, Init
  <2>2. Active = {}
    BY <2>1 DEF StoreInv, Distinct
  <2>3. Objects = [r \in {} |-> 0]
    BY <2>2 DEF Objects
  <2>. QED  BY <2>1, <2>3 DEF Store!Init
<1>2. StoreInv /\ StoreInv' /\ [Next]_vars => [Store!Next]_<<Objects, 1 .. allocs, request, answer>>
  <2>. SUFFICES ASSUME StoreInv, StoreInv', [Next]_vars
                PROVE  Store!Next \/ UNCHANGED <<Objects, 1 .. allocs, request, answer>>
    OBVIOUS
  <2>1. ASSUME UNCHANGED heap PROVE Objects' = Objects
    BY <2>1 DEF Objects, Active, Find, Holds
  <2>2. CASE UNCHANGED vars
    BY <2>1, <2>2 DEF vars
  <2>3. CASE Rests
    BY <2>1, <2>3 DEF Rests, Store!Refuse, Store!Next
  <2>4. ASSUME NEW s, NEW n, NEW elem_size, Issues(s, n, elem_size) PROVE Store!Next
    BY <2>4, IssueCreates
  <2>5. ASSUME NEW s, Frees(s) PROVE Store!Next
    BY <2>5, FreeDestroys
  <2>6. ASSUME NEW s, Pins(s) \/ \E d : Writes(s, d) PROVE Store!Next
    BY <2>6, UpdateUpdates
  <2>7. ASSUME NEW s, NEW i, Reads(s, i) PROVE Store!Next
    BY <2>1, <2>7, ReadReads DEF Reads
  <2>8. CASE HeapEffect
    BY <2>3, <2>4, <2>5, <2>6, <2>7, <2>8 DEF HeapEffect
  <2>. QED  BY <2>2, <2>8, NextEffect DEF StoreInv
<1>. QED  BY <1>1, <1>2, StoreInvariant, PTL DEF Spec, ImplementsObjectStore, Store!Spec

-----------------------------------------------------------------------------
(* Dirty rendering.                                                        *)

LEMMA DirtyDraws ==
    ASSUME StoreInv, NEW s \in Active, NEW t \in Active, NEW f \in Shapes,
           heap[s].pinned, heap[s].elem_size = 1, heap[t].pinned, heap[t].elem_size = 1,
           f[1] * f[2] \in 1 .. Size(s), f[1] * f[2] <= Size(t),
           Shows(t, f[1], f[2]),
           RenderSpanDirty(heap[s].id, heap[t].id, f[1], f[2]), rc' = 1
    PROVE  /\ screen' = [p \in DOMAIN screen |->
                            IF p \in Frame(f[1], f[2])
                            THEN heap[s].data[(p[1] - 1) * f[1] + p[2] - 1]
                            ELSE screen[p]]
           /\ Shows(t, f[1], f[2])'
<1>. DEFINE w == f[1]
            h == f[2]
            changed == Changed(s, t, w, h)
            cells == {CellAt(p, w) : p \in changed}
            d == [i \in DOMAIN heap[t].data |-> IF i \in cells THEN heap[s].data[i]
                                                               ELSE heap[t].data[i]]
<1>1. /\ w \in Int /\ h \in Int /\ w <= Cols /\ h <= Rows
  BY ConsoleAssumption
<1>2. Find(heap[s].id) = s /\ Find(heap[t].id) = t
  BY FindOwn
<1>3. /\ screen' = Drawn(s, changed, w)
      /\ heap' = [heap EXCEPT ![t].data = d]
      /\ Drawable(heap[t].id, w, h)
  BY <1>2 DEF RenderSpanDirty, Fail
<1>4. \A p \in Frame(w, h) : p \in DOMAIN screen
  BY <1>1, ConsoleAssumption DEF StoreInv, HeapInv, ConsoleInv, Frame
<1>5. \A p \in Frame(w, h) : screen[p] = heap[t].data[CellAt(p, w)]
  BY DEF Shows
<1>6. \A p \in Frame(w, h) \ changed :
         heap[s].data[CellAt(p, w)] = heap[t].data[CellAt(p, w)]
  BY DEF Changed
<1>7. changed \subseteq Frame(w, h)
  BY DEF Changed
<1>. HIDE DEF changed
<1>8. \A p \in DOMAIN screen :
         (IF p \in changed THEN heap[s].data[CellAt(p, w)] ELSE screen[p])
         = (IF p \in Frame(w, h) THEN heap[s].data[CellAt(p, w)] ELSE screen[p])
  BY <1>5, <1>6, <1>7
<1>9. screen' = [p \in DOMAIN screen |->
                    IF p \in Frame(w, h) THEN heap[s].data[CellAt(p, w)] ELSE screen[p]]
  BY <1>3, <1>8 DEF Drawn
<1>10. heap'[t].data = d
  <2>1. t \in Slots /\ heap[t] \in HeapObject
    BY ActiveObject DEF StoreInv, HeapInv, Active
  <2>. DEFINE o == [heap[t] EXCEPT !.data = d]
  <2>2. o.data = d
    <3>. HIDE DEF d
    <3>. QED  BY <2>1, Zenon DEF HeapObject
  <2>3. heap'[t] = o
    BY <1>3, <2>1, Zenon DEF StoreInv, HeapInv, ObjectsInv
  <2>. QED  BY <2>2, <2>3
<1>11. ASSUME NEW p \in Frame(w, h) PROVE screen'[p] = heap'[t].data[CellAt(p, w)]
  <2>1. CellAt(p, w) \in 0 .. w * h - 1
    BY <1>1, CellInFrame
  <2>2. Size(t) \in Nat /\ DOMAIN heap[t].data = 0 .. Size(t) - 1
    BY SizeBounds DEF StoreInv, HeapInv
  <2>3. CellAt(p, w) \in DOMAIN heap[t].data
    BY <2>1, <2>2
  <2>4. screen'[p] = heap[s].data[CellAt(p, w)]
    BY <1>4, <1>9
  <2>5. d[CellAt(p, w)] = heap[s].data[CellAt(p, w)]
    BY <1>6, <2>3
  <2>. QED  BY <1>10, <2>4, <2>5
<1>12. Shows(t, w, h)'
  BY <1>11 DEF Shows, CellAt
<1>. QED  BY <1>9, <1>12 DEF CellAt

(* Dirty rendering draws as much as it must.                               *)
THEOREM DirtyRenderingIsFull ==
    ASSUME MaxAllocs < RefLimit
    PROVE  Spec => DirtyIsFull
<1>. DEFINE Full ==
        rc' = 1 =>
           \A s, t \in {q \in Active : heap[q].pinned /\ heap[q].elem_size = 1} :
           \A f \in Shapes :
              LET w == f[1]
                  h == f[2] IN
              /\ f[1] * f[2] \in 1 .. Size(s) /\ f[1] * f[2] <= Size(t)
              /\ Shows(t, w, h)
              /\ RenderSpanDirty(heap[s].id, heap[t].id, w, h)
              => /\ screen' = [p \in DOMAIN screen |->
                        IF p \in Frame(w, h)
                        THEN heap[s].data[(p[1] - 1) * w + p[2] - 1]
                        ELSE screen[p]]
                 /\ Shows(t, w, h)'
<1>1. StoreInv => Full
  BY DirtyDraws
<1>2. StoreInv /\ [Next]_vars => [Full]_vars
  BY <1>1
<1>. QED  BY <1>2, StoreInvariant, PTL DEF Spec, DirtyIsFull

=============================================================================

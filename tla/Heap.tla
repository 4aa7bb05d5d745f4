--------------------------------- MODULE Heap ---------------------------------
(***************************************************************************)
(* The heap of the SCML VM (src/vm/vm.c): typed objects behind integer     *)
(* references, byte spans, and the two console renderers that draw a       *)
(* pinned span as a frame of text.                                         *)
(*                                                                         *)
(* One action is one instruction.  Its operands are script integers, so    *)
(* that every index and length may be negative or too large, and every     *)
(* reference may be stale or made up.  calloc is external: it may fail.    *)
(***************************************************************************)
EXTENDS Integers, FiniteSets, FiniteSetsExt

CONSTANTS
    SCML_HEAP_OBJECTS_MAX,
    RefLimit,        \* references are RefLimit-valued counters (2^32)
    ByteLimit,       \* values of a byte (256)
    SizeLimit,       \* values of size_t (2^64)
    ArraySizes, SpanSizes,
    Indices, Values, FillValues, \* the script integers that occur as operands
    Shapes,          \* <<width, height>> of what is rendered
    Rows, Cols,      \* size of the console
    Blank,           \* what a cell of the console shows when cleared
    MaxAllocs        \* bound: allocations per behaviour

ASSUME HeapAssumption ==
    /\ SCML_HEAP_OBJECTS_MAX \in Nat /\ RefLimit \in Nat /\ RefLimit > 1
    /\ ByteLimit \in Nat \ {0} /\ SizeLimit \in Nat \ {0}
    /\ ArraySizes \cup SpanSizes \cup Indices \cup Values \cup FillValues
          \subseteq Int
    /\ MaxAllocs \in Nat

\* An index is narrower than size_t: converted, a negative one lies behind the
\* end of every object.
ASSUME IndexAssumption ==
    \A i \in Indices, n \in ArraySizes \cup SpanSizes : n - SizeLimit <= i /\ i < SizeLimit

\* What is rendered fits the console.
ASSUME ConsoleAssumption ==
    /\ Rows \in Nat /\ Cols \in Nat
    /\ \A shape \in Shapes : /\ shape[1] \in Int /\ shape[1] <= Cols
                             /\ shape[2] \in Int /\ shape[2] <= Rows

VARIABLES
    heap,       \* slot -> object or NoObject
    next_ref,
    screen,     \* <<row, column>> -> byte shown
    rc,         \* what the last instruction returned: 1 or -1
    answer,     \* the number it has put in its variable, if any
    request,    \* history: the references and cells it was asked for
    allocs      \* history: allocations so far

vars == <<heap, next_ref, screen, rc, answer, request, allocs>>

Slots == 1 .. SCML_HEAP_OBJECTS_MAX

\* A slot zeroed by calloc or FREE.
NoObject == [active |-> FALSE]

Active == {s \in Slots : heap[s].active}

\* Conversions of a script integer to uint32_t, size_t and unsigned char.
AsRef(n)  == n % RefLimit
AsSize(n) == n % SizeLimit
AsByte(n) == n % ByteLimit

Holds(s, n) == heap[s].active /\ heap[s].id = AsRef(n)

\* heap_find succeeds; it returns the first slot with that reference.
Found(n) == \E s \in Slots : Holds(s, n)

Find(n) == CHOOSE s \in Slots :
               Holds(s, n) /\ \A t \in 1 .. s - 1 : ~Holds(t, n)

Size(s) == Cardinality(DOMAIN heap[s].data)

-----------------------------------------------------------------------------
(* Instructions.                                                           *)

\* The script's operands, as it means them.
Asks(refs, cells) == request' = [refs |-> refs, cells |-> cells]

Answer(values) == rc' = 1 /\ answer' = values

Done == Answer({}) /\ UNCHANGED allocs

Fail == rc' = -1 /\ answer' = {} /\ UNCHANGED <<heap, next_ref, screen, allocs>>

IssueSlotNumber(s) == s                                              \* fault

Issue(s) == next_ref

\* heap_alloc_typed: the first inactive slot, zeroed cells.
Alloc(n, elem_size) ==
    IF n < 0 \/ Active = Slots
    THEN Fail
    ELSE \/ /\ allocs < MaxAllocs
            /\ LET s == Min(Slots \ Active) IN
               heap' = [heap EXCEPT ![s] =
                   [active |-> TRUE, id |-> Issue(s), elem_size |-> elem_size,
                    pinned |-> FALSE, data |-> [i \in 0 .. n - 1 |-> 0]]]
            /\ next_ref' = (next_ref + 1) % RefLimit
            /\ Answer({Issue(Min(Slots \ Active))})
            /\ allocs' = allocs + 1
            /\ UNCHANGED screen
         \/ Fail                                    \* calloc returned NULL

HeapAlloc(n)  == Alloc(n, 4)
SpanCreate(n) == Alloc(n, 1)

\* FREE of an unknown reference succeeds, and pins do not matter.
Free(ref) ==
    /\ heap' = [s \in Slots |-> IF Found(ref) /\ s = Find(ref) THEN NoObject
                                                              ELSE heap[s]]
    /\ Done /\ UNCHANGED <<next_ref, screen>>

StoredUntruncated(s, v) == v                                         \* fault

\* What a cell of the object in slot s holds after v was stored in it.
Stored(s, v) == IF heap[s].elem_size = 1 THEN AsByte(v) ELSE v

\* Store v in the given cells of slot s, and end the instruction.
Write(s, cells, v) ==
    /\ heap' = [heap EXCEPT ![s].data =
                    [i \in DOMAIN @ |-> IF i \in cells THEN Stored(s, v) ELSE @[i]]]
    /\ Done /\ UNCHANGED <<next_ref, screen>>

HeapStore(ref, index, v) ==
    IF Found(ref) /\ AsSize(index) < Size(Find(ref))
    THEN Write(Find(ref), {AsSize(index)}, v)
    ELSE Fail

\* HEAP_LOAD, SPAN_READ_U8.
Load(ref, index, elem_sizes) ==
    IF /\ Found(ref) /\ heap[Find(ref)].elem_size \in elem_sizes
       /\ AsSize(index) < Size(Find(ref))
    THEN /\ Answer({heap[Find(ref)].data[AsSize(index)]})
         /\ UNCHANGED <<heap, next_ref, screen, allocs>>
    ELSE Fail

SpanPin(ref) ==
    IF Found(ref)
    THEN /\ heap' = [heap EXCEPT ![Find(ref)].pinned = TRUE]
         /\ Done /\ UNCHANGED <<next_ref, screen>>
    ELSE Fail

SpanFill(ref, start, count, v) ==
    IF /\ start >= 0 /\ count >= 0 /\ Found(ref)
       /\ start <= Size(Find(ref)) /\ count <= Size(Find(ref)) - start
    THEN Write(Find(ref), start .. start + count - 1, v)
    ELSE Fail

SpanWriteU8(ref, index, v) ==
    IF /\ Found(ref) /\ heap[Find(ref)].elem_size = 1
       /\ AsSize(index) < Size(Find(ref)) /\ v \in 0 .. ByteLimit - 1
    THEN Write(Find(ref), {AsSize(index)}, v)
    ELSE Fail

-----------------------------------------------------------------------------
(* The renderers.                                                          *)

\* The span can be drawn as height rows of width bytes.
Drawable(ref, width, height) ==
    /\ width > 0 /\ height > 0 /\ Found(ref)
    /\ heap[Find(ref)].elem_size = 1 /\ heap[Find(ref)].pinned
    /\ width * height <= Size(Find(ref))

Frame(width, height) == (1 .. height) \X (1 .. width)

\* The cell of a span that is drawn at a place of the console.
CellAt(rowcol, width) == (rowcol[1] - 1) * width + rowcol[2] - 1

\* The console after the span in slot s was drawn on the given places.
Drawn(s, places, width) ==
    [p \in DOMAIN screen |->
        IF p \in places THEN heap[s].data[CellAt(p, width)] ELSE screen[p]]

RenderSpan(ref, width, height) ==
    IF Drawable(ref, width, height)
    THEN /\ screen' = Drawn(Find(ref), Frame(width, height), width)
         /\ Done /\ UNCHANGED <<heap, next_ref>>
    ELSE Fail

\* Fault: the last column ends no run.
ChangedButLastColumn(s, t, width, height) ==
    {p \in Frame(width, height) :
        /\ p[2] < width
        /\ heap[s].data[CellAt(p, width)] # heap[t].data[CellAt(p, width)]}

\* The places that lie in a run of changed cells: the runs of a row are the
\* maximal intervals of columns whose cells differ.
Changed(s, t, width, height) ==
    {p \in Frame(width, height) :
        heap[s].data[CellAt(p, width)] # heap[t].data[CellAt(p, width)]}

\* Draw what changed, and copy it into the previous frame.
RenderSpanDirty(ref, previous, width, height) ==
    IF Drawable(ref, width, height) /\ Drawable(previous, width, height)
    THEN LET s == Find(ref)
             t == Find(previous)
             changed == Changed(s, t, width, height)
             cells == {CellAt(p, width) : p \in changed} IN
         /\ screen' = Drawn(s, changed, width)
         /\ heap' = [heap EXCEPT ![t].data =
                [i \in DOMAIN @ |-> IF i \in cells THEN heap[s].data[i] ELSE @[i]]]
         /\ Done /\ UNCHANGED next_ref
    ELSE Fail

ConsoleClear ==
    /\ screen' = [p \in DOMAIN screen |-> Blank]
    /\ Done /\ UNCHANGED <<heap, next_ref>>

-----------------------------------------------------------------------------

Init ==
    /\ heap = [s \in Slots |-> NoObject]
    /\ next_ref = 1
    /\ screen = [p \in Frame(Cols, Rows) |-> Blank]
    /\ rc = 1 /\ answer = {} /\ allocs = 0
    /\ request = [refs |-> {}, cells |-> {}]

\* Operands that are meant as references.
Refs == 0 .. RefLimit - 1

Next ==
    \/ \E n \in ArraySizes : Asks({}, {}) /\ HeapAlloc(n)
    \/ \E n \in SpanSizes : Asks({}, {}) /\ SpanCreate(n)
    \/ \E ref \in Refs : Asks({ref}, {}) /\ (Free(ref) \/ SpanPin(ref))
    \/ \E ref \in Refs, i \in Indices, v \in Values :
          Asks({ref}, {i}) /\ (HeapStore(ref, i, v) \/ SpanWriteU8(ref, i, v))
    \/ \E ref \in Refs, i \in Indices :
          Asks({ref}, {i}) /\ (Load(ref, i, {1, 4}) \/ Load(ref, i, {1}))
    \/ \E ref \in Refs, start, count \in Indices, v \in FillValues :
          Asks({ref}, start .. start + count - 1) /\ SpanFill(ref, start, count, v)
    \/ \E ref \in Refs, f \in Shapes : Asks({ref}, {}) /\ RenderSpan(ref, f[1], f[2])
    \/ \E ref, previous \in Refs, f \in Shapes :
          /\ Asks({ref, previous}, 0 .. f[1] * f[2] - 1)
          /\ RenderSpanDirty(ref, previous, f[1], f[2])
    \/ Asks({}, {}) /\ ConsoleClear

Spec == Init /\ [][Next]_vars

-----------------------------------------------------------------------------
(* Properties.                                                             *)

Object(s) ==
    /\ heap[s].id \in Refs /\ heap[s].elem_size \in {1, 4}
    /\ heap[s].pinned \in BOOLEAN
    /\ \A i \in DOMAIN heap[s].data :
          heap[s].data[i] \in IF heap[s].elem_size = 1 THEN 0 .. ByteLimit - 1 ELSE Int

(* The types of the heap: in particular a span holds bytes, whichever      *)
(* instruction stored them, and the console shows bytes.                   *)
HeapTypeOK ==
    /\ DOMAIN heap = Slots /\ \A s \in Active : Object(s)
    /\ next_ref \in Refs
    /\ \A p \in DOMAIN screen : screen[p] \in 0 .. ByteLimit - 1 \cup {Blank}
    /\ rc \in {1, -1} /\ answer \subseteq Int /\ allocs \in 0 .. MaxAllocs

(* While the counter has not wrapped, the heap with its reused slots is    *)
(* the abstract store of objects: a slot that is freed and taken again     *)
(* never lets an old reference read or write the new object, an            *)
(* instruction changes no cell but those it was asked for - none for a     *)
(* negative index, which C makes a huge one - and answers with one of      *)
(* them, and nothing but FREE takes an object or a pin away.               *)
Objects == [r \in {heap[s].id : s \in Active} |->
               LET o == heap[Find(r)] IN
               [elem_size |-> o.elem_size, pinned |-> o.pinned, data |-> o.data]]
Store == INSTANCE ObjectStore
            WITH References <- 1 .. RefLimit - 1,
                 objects    <- Objects,
                 issued     <- 1 .. allocs
ImplementsObjectStore == Store!Spec

\* The console shows the span in slot s as a frame of that shape.
Shows(s, width, height) ==
    \A p \in Frame(width, height) :
        screen[p] = heap[s].data[CellAt(p, width)]

(* A dirty rendering draws as much as it must: if the previous frame is    *)
(* what the console shows, then afterwards the console is what a full      *)
(* rendering would have made of it, and the previous frame is again what   *)
(* the console shows, so that the next dirty rendering is right, too.      *)
DirtyIsFull ==
    [][rc' = 1 =>
       \A s, t \in {q \in Active : heap[q].pinned /\ heap[q].elem_size = 1} :
       \A f \in Shapes :
          LET w == f[1]
              h == f[2] IN
          /\ f[1] * f[2] \in 1 .. Size(s) /\ f[1] * f[2] <= Size(t)
          /\ Shows(t, w, h)
          /\ RenderSpanDirty(heap[s].id, heap[t].id, w, h)
          => /\ screen' = [p \in DOMAIN screen |->
                    IF p \in Frame(w, h)
                    THEN heap[s].data[(p[1] - 1) * w + p[2] - 1]
                    ELSE screen[p]]
             /\ Shows(t, w, h)']_vars
=============================================================================

\* References as long as the counter has not wrapped.
SPECIFICATION Spec
CONSTANTS
    SCML_HEAP_OBJECTS_MAX = 2
    RefLimit = 4
    ByteLimit = 2
    SizeLimit = 8
    ArraySizes <- MCArraySizes
    SpanSizes <- MCSpanSizes
    Indices <- MCIndices
    Values <- MCValues
    FillValues <- MCFillValues
    Shapes <- MCShapes
    Rows = 2
    Cols = 2
    Blank = Blank
    MaxAllocs = 3
VIEW Machine
INVARIANTS
    HeapTypeOK
PROPERTIES
    ImplementsObjectStore
    DirtyIsFull

------------------------------- MODULE MCHeap -------------------------------
\* Two slots, spans of up to two bytes, a console of two rows and columns.
EXTENDS Heap

MCArraySizes == {-1, 1}
MCSpanSizes  == {-1, 2}
MCIndices    == -1 .. 2
MCValues     == {1, 2}
MCFillValues == {2}
MCShapes     == {<<0, 1>>, <<2, 1>>, <<1, 2>>, <<2, 2>>}

\* What the next instruction depends on: not what the last was asked and gave.
Machine == <<heap, next_ref, screen, rc, allocs>>
=============================================================================

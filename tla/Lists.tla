-------------------------------- MODULE Lists --------------------------------
(***************************************************************************)
(* Two folds over sequences that several modules need, as recursive        *)
(* functions of the sequence's length.                                     *)
(***************************************************************************)
EXTENDS Integers, Sequences

\* The sum of a sequence of numbers.
SumSeq(s) ==
    LET sum[n \in 0 .. Len(s)] == IF n = 0 THEN 0 ELSE sum[n - 1] + s[n]
    IN  sum[Len(s)]

\* The elements of s at the given places, in their order.
SelectAt(s, places) ==
    LET picked[n \in 0 .. Len(s)] ==
            IF n = 0 THEN <<>>
            ELSE IF n \in places THEN Append(picked[n - 1], s[n])
            ELSE picked[n - 1]
    IN  picked[Len(s)]

=============================================================================

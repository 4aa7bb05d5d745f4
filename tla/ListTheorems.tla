----------------------------- MODULE ListTheorems -----------------------------
(***************************************************************************)
(* What other proofs need to know of the lowest number of a set and of     *)
(* folds over sequences.  A recursive function is a CHOOSE of a solution   *)
(* of its equation: RecursionExists gives a solution, and two solutions    *)
(* agree by IntervalInduction.                                             *)
(***************************************************************************)
EXTENDS Lists, SequencesExt, FiniteSetsExt, SequenceTheorems, FiniteSetTheorems,
        WellFoundedInduction, TLAPS

-----------------------------------------------------------------------------
(* Min is well defined on sets of natural numbers, finite or not.          *)
LEMMA MinIsLowest ==
    ASSUME NEW S \in SUBSET Nat, S # {}
    PROVE  Min(S) \in S /\ \A n \in S : Min(S) =< n
<1>1. PICK m \in S : \A n \in S : <<n, m>> \notin OpToRel(<, Nat)
  BY WFMin, NatLessThanWellFounded
<1>2. \A n \in S : ~(n < m)
  <2>1. SUFFICES ASSUME NEW n \in S, n < m PROVE FALSE
    OBVIOUS
  <2>2. n \in Nat /\ m \in Nat
    OBVIOUS
  <2>3. <<n, m>> \in Nat \X Nat /\ <<n, m>>[1] = n /\ <<n, m>>[2] = m
    BY <2>2
  <2>4. <<n, m>>[1] < <<n, m>>[2]
    BY <2>1, <2>3, SMT
  <2>5. <<n, m>> \in OpToRel(<, Nat)
    BY <2>3, <2>4, Zenon DEF OpToRel
  <2>. QED  BY <1>1, <2>5
<1>3. \A n \in S : m =< n
  BY <1>2
<1>. QED  BY <1>3 DEF Min

(* There is a first slot with a property, and no slot before it has it.    *)
LEMMA FirstExists ==
    ASSUME NEW S \in SUBSET Nat, NEW Good \in SUBSET S, Good # {}
    PROVE  \E s \in S : s \in Good /\ \A t \in S : t < s => t \notin Good
<1>1. Good \in SUBSET Nat
  OBVIOUS
<1>2. PICK m \in Good : \A n \in Good : m =< n
  BY <1>1, MinIsLowest
<1>3. m \in S /\ \A t \in S : t < m => t \notin Good
  BY <1>2
<1>. QED  BY <1>3

-----------------------------------------------------------------------------
(* Induction over an interval, with a set in the place of a predicate.     *)
LEMMA IntervalInduction ==
    ASSUME NEW n \in Nat, NEW T, 0 \in T, \A i \in 1 .. n : i - 1 \in T => i \in T
    PROVE  \A i \in 0 .. n : i \in T
<1>. DEFINE Missing == {i \in 0 .. n : i \notin T}
<1>1. SUFFICES ASSUME Missing # {} PROVE FALSE
  OBVIOUS
<1>2. PICK m \in Missing : \A i \in Missing : m =< i
  <2>. Missing \in SUBSET Nat
    OBVIOUS
  <2>. HIDE DEF Missing
  <2>. QED  BY <1>1, MinIsLowest
<1>3. m \in 1 .. n /\ m - 1 \in 0 .. n
  BY <1>2
<1>4. m - 1 \in T
  BY <1>2, <1>3
<1>. QED  BY <1>2, <1>3, <1>4

(* A recursion over an interval: from base, by step[i] at i, within V.     *)
Recursion(V, base, n, step) ==
    base \in V /\ n \in Nat /\ \A i \in 1 .. n, v \in V : step[i][v] \in V

Solves(f, V, base, n, step) ==
    f \in [0 .. n -> V] /\ f[0] = base /\ \A i \in 1 .. n : f[i] = step[i][f[i - 1]]

(* A function can be defined by recursion over an interval.                *)
LEMMA RecursionExists ==
    ASSUME NEW V, NEW base, NEW n, NEW step, Recursion(V, base, n, step)
    PROVE  \E f : Solves(f, V, base, n, step)
<1>. DEFINE Solved(k) == \E f : Solves(f, V, base, k, step)
            T == {k \in 0 .. n : Solved(k)}
<1>. n \in Nat
  BY DEF Recursion
<1>1. Solved(0)
  <2>. DEFINE f == [i \in 0 .. 0 |-> base]
  <2>1. f \in [0 .. 0 -> V] /\ f[0] = base
    BY DEF Recursion
  <2>. HIDE DEF f
  <2>2. Solves(f, V, base, 0, step)
    BY <2>1 DEF Solves
  <2>. QED  BY <2>2
<1>2. ASSUME NEW k \in 1 .. n, Solved(k - 1) PROVE Solved(k)
  <2>1. PICK f : Solves(f, V, base, k - 1, step)
    BY <1>2
  <2>. DEFINE g == [i \in 0 .. k |-> IF i = k THEN step[k][f[k - 1]] ELSE f[i]]
  <2>2. f \in [0 .. k - 1 -> V] /\ f[k - 1] \in V /\ step[k][f[k - 1]] \in V
    BY <2>1 DEF Recursion, Solves
  <2>3. g \in [0 .. k -> V]
    BY <2>2
  <2>4. \A i \in 0 .. k - 1 : g[i] = f[i]
    OBVIOUS
  <2>5. g[k] = step[k][g[k - 1]]
    BY <2>4
  <2>. HIDE DEF g
  <2>6. \A i \in 1 .. k - 1 : g[i] = step[i][g[i - 1]]
    BY <2>1, <2>4 DEF Solves
  <2>7. g[0] = base
    BY <2>1, <2>4 DEF Solves
  <2>8. \A i \in 1 .. k : i = k \/ i \in 1 .. k - 1
    OBVIOUS
  <2>9. Solves(g, V, base, k, step)
    BY <2>3, <2>5, <2>6, <2>7, <2>8 DEF Solves
  <2>. QED  BY <2>9
<1>. HIDE DEF Solved
<1>3. 0 \in T
  BY <1>1
<1>4. ASSUME NEW i \in 1 .. n, i - 1 \in T PROVE i \in T
  BY <1>2, <1>4
<1>5. n \in T
  <2>. HIDE DEF T
  <2>1. \A i \in 0 .. n : i \in T
    BY <1>3, <1>4, IntervalInduction
  <2>. QED  BY <2>1
<1>. QED  BY <1>5 DEF Solved

\* g begins at base and goes by the steps as long as it stays within V.
Follows(g, V, base, n, step) ==
    g[0] = base /\ \A i \in 1 .. n : g[i - 1] \in V => g[i] = step[i][g[i - 1]]

(* What follows the steps of a solution from its base is that solution.    *)
LEMMA RecursionUnique ==
    ASSUME NEW V, NEW base, NEW n, NEW step, Recursion(V, base, n, step),
           NEW f, Solves(f, V, base, n, step), NEW g, Follows(g, V, base, n, step)
    PROVE  \A i \in 0 .. n : g[i] = f[i] /\ g[i] \in V
<1>. n \in Nat
  BY DEF Recursion
<1>. DEFINE T == {i \in 0 .. n : g[i] = f[i]}
<1>1. \A i \in 0 .. n : f[i] \in V
  BY DEF Solves
<1>2. 0 \in T
  BY DEF Solves, Follows
<1>3. ASSUME NEW i \in 1 .. n, i - 1 \in T PROVE i \in T
  <2>1. g[i - 1] = f[i - 1] /\ f[i - 1] \in V
    BY <1>1, <1>3
  <2>2. g[i] = step[i][g[i - 1]] /\ f[i] = step[i][f[i - 1]]
    BY <2>1 DEF Solves, Follows
  <2>3. g[i] = f[i]
    BY <2>1, <2>2, Zenon
  <2>. QED  BY <2>3
<1>4. \A i \in 0 .. n : i \in T
  <2>. HIDE DEF T
  <2>. QED  BY <1>2, <1>3, IntervalInduction
<1>. QED  BY <1>1, <1>4

LEMMA FrontProperties ==
    ASSUME NEW S, NEW s \in Seq(S), s # <<>>
    PROVE  /\ Len(s) - 1 \in Nat
           /\ Front(s) \in Seq(S) /\ Len(Front(s)) = Len(s) - 1
           /\ \A i \in 1 .. Len(s) - 1 : Front(s)[i] = s[i]
<1>1. Len(s) \in Nat /\ Len(s) # 0 /\ \A i \in 1 .. Len(s) - 1 : s[i] \in S
  OBVIOUS
<1>. DEFINE n == Len(s) - 1
<1>2. n \in Int /\ n >= 0
  BY <1>1
<1>. HIDE DEF n
<1>3. /\ SubSeq(s, 1, n) \in Seq(S)
      /\ Len(SubSeq(s, 1, n)) = IF 1 <= n THEN n - 1 + 1 ELSE 0
      /\ \A i \in 1 .. n - 1 + 1 : SubSeq(s, 1, n)[i] = s[1 + i - 1]
  <2>1. \A i \in 1 .. n : s[i] \in S
    BY <1>1 DEF n
  <2>. QED  BY <1>2, <2>1, SubSeqProperties
<1>4. Len(SubSeq(s, 1, n)) = n
  BY <1>2, <1>3
<1>5. \A i \in 1 .. n : SubSeq(s, 1, n)[i] = s[i]
  <2>1. \A i \in 1 .. n : i \in 1 .. n - 1 + 1 /\ 1 + i - 1 = i
    BY <1>2
  <2>. QED  BY <1>3, <2>1
<1>. QED  BY <1>2, <1>3, <1>4, <1>5 DEF Front, n

-----------------------------------------------------------------------------
(* SumSeq.                                                                 *)

Sums(f, s) == f = [n \in 0 .. Len(s) |-> IF n = 0 THEN 0 ELSE f[n - 1] + s[n]]

LEMMA SumsStep ==
    ASSUME NEW f, NEW s \in Seq(Int), Sums(f, s)
    PROVE  f[0] = 0 /\ \A i \in 1 .. Len(s) : f[i] = f[i - 1] + s[i]
<1>1. ASSUME NEW i \in 0 .. Len(s) PROVE f[i] = IF i = 0 THEN 0 ELSE f[i - 1] + s[i]
  BY Zenon DEF Sums
<1>2. 0 \in 0 .. Len(s) /\ \A i \in 1 .. Len(s) : i \in 0 .. Len(s) /\ i # 0
  OBVIOUS
<1>. QED  BY <1>1, <1>2

LEMMA SumUnfolds ==
    ASSUME NEW s \in Seq(Int)
    PROVE  \E f \in [0 .. Len(s) -> Int] : Sums(f, s) /\ SumSeq(s) = f[Len(s)]
<1>. DEFINE n == Len(s)
            step == [i \in 1 .. n |-> [v \in Int |-> v + s[i]]]
<1>1. n \in Nat /\ \A i \in 1 .. n : s[i] \in Int
  OBVIOUS
<1>2. Recursion(Int, 0, n, step)
  BY <1>1 DEF Recursion
<1>3. PICK f \in [0 .. n -> Int] : f[0] = 0 /\ \A i \in 1 .. n : f[i] = step[i][f[i - 1]]
  <2>1. PICK f : Solves(f, Int, 0, n, step)
    <3>. HIDE DEF step, n
    <3>. QED  BY <1>2, RecursionExists
  <2>. QED  BY <2>1 DEF Solves
<1>4. Sums(f, s)
  <2>1. ASSUME NEW i \in 0 .. n PROVE f[i] = IF i = 0 THEN 0 ELSE f[i - 1] + s[i]
    <3>1. CASE i = 0
      BY <1>3, <3>1
    <3>2. CASE i # 0
      <4>1. i \in 1 .. n /\ i - 1 \in 0 .. n
        BY <3>2
      <4>2. f[i - 1] \in Int
        BY <4>1
      <4>3. step[i][f[i - 1]] = f[i - 1] + s[i]
        BY <4>1, <4>2
      <4>. QED  BY <1>3, <4>1, <4>3, <3>2
    <3>. QED  BY <3>1, <3>2
  <2>2. f = [i \in 0 .. n |-> f[i]]
    OBVIOUS
  <2>. QED  BY <2>1, <2>2, Zenon DEF Sums
<1>. DEFINE g == CHOOSE g : Sums(g, s)
<1>5. Sums(g, s) /\ SumSeq(s) = g[n]
  BY <1>4 DEF SumSeq, Sums
<1>. HIDE DEF g
<1>6. g[n] = f[n]
  <2>. DEFINE T == {i \in 0 .. n : g[i] = f[i]}
  <2>1. g[0] = 0 /\ f[0] = 0
    BY <1>4, <1>5, SumsStep
  <2>2. \A i \in 1 .. n : g[i] = g[i - 1] + s[i] /\ f[i] = f[i - 1] + s[i]
    BY <1>4, <1>5, SumsStep
  <2>3. 0 \in T
    BY <1>1, <2>1
  <2>4. \A i \in 1 .. n : i - 1 \in T => i \in T
    BY <1>1, <2>2
  <2>5. \A i \in 0 .. n : i \in T
    <3>. HIDE DEF T, n
    <3>. QED  BY <1>1, <2>3, <2>4, IntervalInduction
  <2>. QED  BY <1>1, <2>5
<1>. QED  BY <1>4, <1>5, <1>6

LEMMA SumType == ASSUME NEW s \in Seq(Int) PROVE SumSeq(s) \in Int
<1>1. Len(s) \in 0 .. Len(s)
  OBVIOUS
<1>. QED  BY <1>1, SumUnfolds

LEMMA SumEmpty == SumSeq(<<>>) = 0
<1>1. <<>> \in Seq(Int) /\ Len(<<>>) = 0
  OBVIOUS
<1>2. PICK f : Sums(f, <<>>) /\ SumSeq(<<>>) = f[0]
  BY <1>1, SumUnfolds
<1>. QED  BY <1>1, <1>2 DEF Sums

LEMMA SumAppend ==
    ASSUME NEW s \in Seq(Int), NEW x \in Int
    PROVE  SumSeq(Append(s, x)) = SumSeq(s) + x
<1>. DEFINE r == Append(s, x)
            n == Len(s)
<1>1. n \in Nat /\ r \in Seq(Int) /\ Len(r) = n + 1 /\ r[n + 1] = x
      /\ \A i \in 1 .. n : r[i] = s[i]
  BY AppendProperties
<1>. HIDE DEF r
<1>2. PICK f : Sums(f, s) /\ SumSeq(s) = f[n]
  BY SumUnfolds
<1>3. PICK g : Sums(g, r) /\ SumSeq(r) = g[n + 1]
  BY <1>1, SumUnfolds
<1>4. g[n] = f[n]
  <2>. DEFINE T == {i \in 0 .. n : g[i] = f[i]}
  <2>1. g[0] = 0 /\ f[0] = 0
    BY <1>1, <1>2, <1>3, SumsStep
  <2>2. ASSUME NEW i \in 1 .. n PROVE g[i] = g[i - 1] + s[i] /\ f[i] = f[i - 1] + s[i]
    <3>1. g[i] = g[i - 1] + r[i]
      <4>1. i \in 1 .. n + 1 /\ Len(r) = n + 1 /\ r \in Seq(Int) /\ Sums(g, r)
        BY <1>1, <1>3
      <4>. QED  BY <4>1, SumsStep
    <3>2. f[i] = f[i - 1] + s[i]
      BY <1>2, SumsStep
    <3>. QED  BY <1>1, <3>1, <3>2
  <2>3. 0 \in T
    BY <1>1, <2>1
  <2>4. \A i \in 1 .. n : i - 1 \in T => i \in T
    BY <1>1, <2>2
  <2>5. \A i \in 0 .. n : i \in T
    <3>. HIDE DEF T, n
    <3>. QED  BY <1>1, <2>3, <2>4, IntervalInduction
  <2>. QED  BY <1>1, <2>5
<1>5. g[n + 1] = g[n] + r[n + 1]
  BY <1>1, <1>3 DEF Sums
<1>. QED  BY <1>1, <1>2, <1>3, <1>4, <1>5 DEF r

-----------------------------------------------------------------------------
(* FlattenSeq and SelectAt.                                                *)

(* p holds the concatenations of the first 0, 1, ... Len(ss) of ss.        *)
Joined(p, ss) ==
    p[0] = <<>> /\ \A i \in 1 .. Len(ss) : p[i] = p[i - 1] \o ss[i]

LEMMA FlattenUnfolds ==
    ASSUME NEW S, NEW ss \in Seq(Seq(S))
    PROVE  \E p \in [0 .. Len(ss) -> Seq(S)] : Joined(p, ss) /\ FlattenSeq(ss) = p[Len(ss)]
<1>. DEFINE n == Len(ss)
            V == Seq(S)
            step == [i \in 1 .. n |-> [v \in V |-> v \o ss[i]]]
<1>1. n \in Nat /\ \A i \in 1 .. n : ss[i] \in Seq(S)
  OBVIOUS
<1>2. \A i \in 1 .. n, v \in V : step[i][v] = v \o ss[i] /\ v \o ss[i] \in V
  BY <1>1, ConcatProperties
<1>3. Recursion(V, <<>>, n, step)
  BY <1>1, <1>2 DEF Recursion
<1>4. PICK p : Solves(p, V, <<>>, n, step)
  <2>. HIDE DEF step, n, V
  <2>. QED  BY <1>3, RecursionExists
<1>5. p \in [0 .. n -> V] /\ p[0] = <<>>
  BY <1>4 DEF Solves
<1>6. \A i \in 1 .. n : p[i] = p[i - 1] \o ss[i]
  <2>1. \A i \in 1 .. n : p[i] = step[i][p[i - 1]]
    BY <1>4 DEF Solves
  <2>2. ASSUME NEW i \in 1 .. n PROVE p[i - 1] \in V
    <3>1. i - 1 \in 0 .. n
      OBVIOUS
    <3>. HIDE DEF n, V
    <3>. QED  BY <1>5, <3>1
  <2>. HIDE DEF step
  <2>. QED  BY <1>2, <2>1, <2>2
<1>7. Joined(p, ss)
  BY <1>5, <1>6 DEF Joined
<1>8. n # 0 => p[1] = ss[1]
  <2>1. SUFFICES ASSUME n # 0 PROVE p[1] = ss[1]
    OBVIOUS
  <2>2. 1 \in 1 .. n /\ 1 - 1 = 0
    BY <1>1, <2>1
  <2>3. ss[1] \in Seq(S)
    BY <1>1, <2>2
  <2>4. p[1] = p[1 - 1] \o ss[1]
    BY <1>6, <2>2
  <2>5. p[1] = <<>> \o ss[1]
    BY <1>5, <2>2, <2>4
  <2>. QED  BY <2>3, <2>5, ConcatEmptySeq
<1>9. FlattenSeq(ss) = p[n]
  <2>1. CASE n = 0
    <3>1. ss = <<>>
      BY <2>1
    <3>. QED  BY <1>5, <2>1, <3>1 DEF FlattenSeq
  <2>2. CASE n # 0
    <3>. DEFINE Flattens(f) == f = [i \in 1 .. n |-> IF i = 1 THEN ss[i] ELSE f[i - 1] \o ss[i]]
                f == [i \in 1 .. n |-> p[i]]
                g == CHOOSE g : Flattens(g)
    <3>1. Flattens(f)
      <4>1. \A i \in 1 .. n : f[i] = p[i]
        OBVIOUS
      <4>2. p[1] = ss[1]
        BY <1>8, <2>2
      <4>3. ASSUME NEW i \in 1 .. n
            PROVE  f[i] = IF i = 1 THEN ss[i] ELSE f[i - 1] \o ss[i]
        <5>1. CASE i = 1
          BY <4>1, <4>2, <5>1
        <5>2. CASE i # 1
          <6>1. i - 1 \in 1 .. n
            BY <5>2
          <6>. HIDE DEF f
          <6>. QED  BY <1>6, <4>1, <5>2, <6>1
        <5>. QED  BY <5>1, <5>2
      <4>4. f = [i \in 1 .. n |-> f[i]]
        OBVIOUS
      <4>. HIDE DEF f
      <4>. QED  BY <4>3, <4>4, Zenon
    <3>2. Flattens(g)
      BY <3>1
    <3>3. FlattenSeq(ss) = g[n]
      BY <2>2 DEF FlattenSeq
    <3>. HIDE DEF g
    <3>4. \A i \in 1 .. n : g[i] = IF i = 1 THEN ss[i] ELSE g[i - 1] \o ss[i]
      BY <3>2, Zenon
    <3>5. g[n] = p[n]
      <4>. DEFINE T == {i \in 0 .. n : i # 0 => g[i] = p[i]}
      <4>1. 0 \in T
        BY <1>1
      <4>2. ASSUME NEW i \in 1 .. n, i - 1 \in T PROVE i \in T
        <5>1. CASE i = 1
          BY <1>8, <2>2, <3>4, <5>1
        <5>2. CASE i # 1
          <6>1. g[i - 1] = p[i - 1]
            BY <4>2, <5>2
          <6>2. g[i] = g[i - 1] \o ss[i]
            BY <3>4, <5>2
          <6>3. p[i] = p[i - 1] \o ss[i]
            BY <1>6
          <6>4. g[i] = p[i]
            BY <6>1, <6>2, <6>3, Zenon
          <6>. QED  BY <6>4
        <5>. QED  BY <5>1, <5>2
      <4>3. \A i \in 0 .. n : i \in T
        <5>. HIDE DEF T, n
        <5>. QED  BY <1>1, <4>1, <4>2, IntervalInduction
      <4>. QED  BY <1>1, <2>2, <4>3
    <3>. QED  BY <3>3, <3>5
  <2>. QED  BY <2>1, <2>2
<1>. QED  BY <1>5, <1>7, <1>9

(* Concatenating sequences over S gives a sequence over S.                 *)
LEMMA FlattenType ==
    ASSUME NEW S, NEW ss \in Seq(Seq(S))
    PROVE  FlattenSeq(ss) \in Seq(S)
<1>1. Len(ss) \in 0 .. Len(ss)
  OBVIOUS
<1>. QED  BY <1>1, FlattenUnfolds

\* q holds the selections from the first 0, 1, ... Len(s) elements of s.
Selections(q, s, places) ==
    /\ q[0] = <<>>
    /\ \A i \in 1 .. Len(s) :
          q[i] = IF i \in places THEN Append(q[i - 1], s[i]) ELSE q[i - 1]

LEMMA SelectUnfolds ==
    ASSUME NEW S, NEW s \in Seq(S), NEW places
    PROVE  \E q \in [0 .. Len(s) -> Seq(S)] :
              Selections(q, s, places) /\ SelectAt(s, places) = q[Len(s)]
<1>. DEFINE n == Len(s)
            V == Seq(S)
            Picked(f) == f = [i \in 0 .. n |-> IF i = 0 THEN <<>>
                                              ELSE IF i \in places THEN Append(f[i - 1], s[i])
                                              ELSE f[i - 1]]
            step == [i \in 1 .. n |-> [v \in V |-> IF i \in places THEN Append(v, s[i]) ELSE v]]
            g == CHOOSE g : Picked(g)
<1>1. n \in Nat /\ <<>> \in V /\ \A i \in 1 .. n : s[i] \in S
  OBVIOUS
<1>2. \A i \in 1 .. n, v \in V : step[i][v] = (IF i \in places THEN Append(v, s[i]) ELSE v)
                               /\ step[i][v] \in V
  BY <1>1, AppendProperties
<1>3. Recursion(V, <<>>, n, step)
  BY <1>1, <1>2 DEF Recursion
<1>4. PICK q : Solves(q, V, <<>>, n, step)
  <2>. HIDE DEF step, n, V
  <2>. QED  BY <1>3, RecursionExists
<1>5. q \in [0 .. n -> V] /\ q[0] = <<>>
  BY <1>4 DEF Solves
<1>6. ASSUME NEW i \in 1 .. n
      PROVE  q[i] = IF i \in places THEN Append(q[i - 1], s[i]) ELSE q[i - 1]
  <2>1. q[i] = step[i][q[i - 1]]
    BY <1>4 DEF Solves
  <2>2. q[i - 1] \in V
    <3>1. i - 1 \in 0 .. n
      OBVIOUS
    <3>. HIDE DEF n, V
    <3>. QED  BY <1>5, <3>1
  <2>. HIDE DEF step
  <2>. QED  BY <1>2, <2>1, <2>2
<1>7. Selections(q, s, places)
  BY <1>5, <1>6 DEF Selections
<1>8. Picked(q)
  <2>1. ASSUME NEW i \in 0 .. n
        PROVE  q[i] = IF i = 0 THEN <<>>
                      ELSE IF i \in places THEN Append(q[i - 1], s[i]) ELSE q[i - 1]
    <3>1. CASE i = 0
      BY <1>5, <3>1
    <3>2. CASE i # 0
      <4>1. i \in 1 .. n
        BY <3>2
      <4>. QED  BY <1>6, <3>2, <4>1
    <3>. QED  BY <3>1, <3>2
  <2>2. q = [i \in 0 .. n |-> q[i]]
    BY <1>5
  <2>. QED  BY <2>1, <2>2, Zenon
<1>9. Picked(g)
  BY <1>8, Zenon
<1>10. SelectAt(s, places) = g[n]
  BY Zenon DEF SelectAt
<1>. HIDE DEF g
<1>11. \A i \in 0 .. n : g[i] = IF i = 0 THEN <<>>
                                ELSE IF i \in places THEN Append(g[i - 1], s[i]) ELSE g[i - 1]
  BY <1>9, Zenon
<1>12. g[n] = q[n]
  <2>. DEFINE T == {i \in 0 .. n : g[i] = q[i]}
  <2>1. 0 \in T
    BY <1>1, <1>5, <1>11
  <2>2. ASSUME NEW i \in 1 .. n, i - 1 \in T PROVE i \in T
    <3>1. g[i - 1] = q[i - 1] /\ i # 0 /\ i \in 0 .. n
      BY <2>2
    <3>2. g[i] = IF i \in places THEN Append(g[i - 1], s[i]) ELSE g[i - 1]
      BY <1>11, <3>1
    <3>3. g[i] = q[i]
      BY <1>6, <3>1, <3>2
    <3>. QED  BY <3>3
  <2>3. \A i \in 0 .. n : i \in T
    <3>. HIDE DEF T, n
    <3>. QED  BY <1>1, <2>1, <2>2, IntervalInduction
  <2>. QED  BY <1>1, <2>3
<1>. QED  BY <1>5, <1>7, <1>10, <1>12

LEMMA SelectType ==
    ASSUME NEW S, NEW s \in Seq(S), NEW places
    PROVE  SelectAt(s, places) \in Seq(S)
<1>1. Len(s) \in 0 .. Len(s)
  OBVIOUS
<1>. QED  BY <1>1, SelectUnfolds

LEMMA SelectLength ==
    ASSUME NEW S, NEW s \in Seq(S), NEW places
    PROVE  Len(SelectAt(s, places)) =< Len(s)
<1>. DEFINE n == Len(s)
<1>. n \in Nat
  OBVIOUS
<1>1. PICK q \in [0 .. n -> Seq(S)] : Selections(q, s, places) /\ SelectAt(s, places) = q[n]
  BY SelectUnfolds
<1>. HIDE DEF n
<1>. DEFINE T == {i \in 0 .. n : Len(q[i]) =< i}
<1>2. 0 \in T
  BY <1>1 DEF Selections
<1>3. ASSUME NEW i \in 1 .. n, i - 1 \in T PROVE i \in T
  <2>1. i - 1 \in 0 .. n /\ i \in 0 .. n
    OBVIOUS
  <2>2. q[i - 1] \in Seq(S) /\ Len(q[i - 1]) =< i - 1 /\ s[i] \in S
    BY <1>3, <2>1 DEF n
  <2>3. q[i] = q[i - 1] \/ q[i] = Append(q[i - 1], s[i])
    BY <1>1 DEF Selections, n
  <2>4. Len(Append(q[i - 1], s[i])) = Len(q[i - 1]) + 1 /\ Len(q[i - 1]) \in Nat
    BY <2>2, AppendProperties
  <2>5. Len(q[i]) =< i
    BY <2>2, <2>3, <2>4
  <2>. QED  BY <2>1, <2>5
<1>4. \A i \in 0 .. n : i \in T
  <2>. HIDE DEF T
  <2>. QED  BY <1>2, <1>3, IntervalInduction
<1>5. n \in 0 .. n
  OBVIOUS
<1>6. Len(q[n]) =< n
  BY <1>4, <1>5
<1>. QED  BY <1>1, <1>6 DEF n

(* What is selected depends on the places alone, how much there is too.    *)
LEMMA SelectSameLength ==
    ASSUME NEW S, NEW s \in Seq(S), NEW T, NEW t \in Seq(T), Len(s) = Len(t), NEW places
    PROVE  Len(SelectAt(s, places)) = Len(SelectAt(t, places))
<1>. DEFINE n == Len(s)
<1>. n \in Nat
  OBVIOUS
<1>1. PICK q \in [0 .. n -> Seq(S)] : Selections(q, s, places) /\ SelectAt(s, places) = q[n]
  BY SelectUnfolds
<1>2. PICK r \in [0 .. n -> Seq(T)] : Selections(r, t, places) /\ SelectAt(t, places) = r[n]
  <2>1. \E r \in [0 .. Len(t) -> Seq(T)] : Selections(r, t, places) /\ SelectAt(t, places) = r[Len(t)]
    BY SelectUnfolds
  <2>. QED  BY <2>1
<1>3. \A i \in 1 .. n : s[i] \in S /\ t[i] \in T
  OBVIOUS
<1>4. \A i \in 1 .. n : q[i] = IF i \in places THEN Append(q[i - 1], s[i]) ELSE q[i - 1]
  BY <1>1 DEF Selections
<1>5. \A i \in 1 .. n : r[i] = IF i \in places THEN Append(r[i - 1], t[i]) ELSE r[i - 1]
  BY <1>2 DEF Selections
<1>. HIDE DEF n
<1>. DEFINE U == {i \in 0 .. n : Len(q[i]) = Len(r[i])}
<1>6. 0 \in U
  BY <1>1, <1>2 DEF Selections
<1>7. ASSUME NEW i \in 1 .. n, i - 1 \in U PROVE i \in U
  <2>1. i - 1 \in 0 .. n /\ i \in 0 .. n
    OBVIOUS
  <2>2. q[i - 1] \in Seq(S) /\ r[i - 1] \in Seq(T) /\ Len(q[i - 1]) = Len(r[i - 1])
    BY <1>7, <2>1
  <2>3. Len(Append(q[i - 1], s[i])) = Len(q[i - 1]) + 1 /\ Len(Append(r[i - 1], t[i])) = Len(r[i - 1]) + 1
    BY <1>3, <2>2, AppendProperties
  <2>4. Len(q[i]) = Len(r[i])
    BY <1>4, <1>5, <2>2, <2>3
  <2>. QED  BY <2>1, <2>4
<1>8. \A i \in 0 .. n : i \in U
  <2>. HIDE DEF U
  <2>. QED  BY <1>6, <1>7, IntervalInduction
<1>9. n \in 0 .. n
  OBVIOUS
<1>. QED  BY <1>1, <1>2, <1>8, <1>9

-----------------------------------------------------------------------------
(* Sums of the first elements, and the length of a concatenation.          *)
LEMMA SumGrows ==
    ASSUME NEW s \in Seq(Int), NEW k \in 1 .. Len(s)
    PROVE  /\ SumSeq(SubSeq(s, 1, k - 1)) \in Int
           /\ SumSeq(SubSeq(s, 1, k)) = SumSeq(SubSeq(s, 1, k - 1)) + s[k]
<1>. DEFINE r == SubSeq(s, 1, k - 1)
<1>1. r \in Seq(Int) /\ s[k] \in Int
  OBVIOUS
<1>2. SubSeq(s, 1, k) = Append(r, s[k])
  OBVIOUS
<1>. HIDE DEF r
<1>3. SumSeq(Append(r, s[k])) = SumSeq(r) + s[k] /\ SumSeq(r) \in Int
  BY <1>1, SumAppend, SumType
<1>. QED  BY <1>2, <1>3 DEF r

LEMMA SumIsMonotone ==
    ASSUME NEW s \in Seq(Nat), NEW n \in 0 .. Len(s)
    PROVE  /\ SumSeq(SubSeq(s, 1, n)) \in Nat
           /\ \A k \in 0 .. n : SumSeq(SubSeq(s, 1, k)) =< SumSeq(SubSeq(s, 1, n))
<1>. DEFINE f(k) == SumSeq(SubSeq(s, 1, k))
            T == {i \in 0 .. n : f(i) \in Nat /\ \A k \in 0 .. i : f(k) =< f(i)}
<1>1. s \in Seq(Int) /\ n \in Nat /\ \A i \in 1 .. n : i \in 1 .. Len(s) /\ s[i] \in Nat
  OBVIOUS
<1>2. f(0) = 0
  <2>1. SubSeq(s, 1, 0) = <<>>
    OBVIOUS
  <2>. QED  BY <2>1, SumEmpty
<1>3. \A i \in 1 .. n : f(i) = f(i - 1) + s[i]
  BY <1>1, SumGrows
<1>. HIDE DEF f
<1>4. 0 \in T
  <2>1. \A k \in 0 .. 0 : k = 0
    OBVIOUS
  <2>2. f(0) \in Nat /\ f(0) =< f(0) /\ 0 \in 0 .. n
    BY <1>1, <1>2
  <2>. QED  BY <2>1, <2>2
<1>5. ASSUME NEW i \in 1 .. n, i - 1 \in T PROVE i \in T
  <2>1. f(i - 1) \in Nat /\ \A k \in 0 .. i - 1 : f(k) =< f(i - 1)
    BY <1>5
  <2>2. s[i] \in Nat /\ f(i) = f(i - 1) + s[i]
    BY <1>1, <1>3
  <2>3. f(i) \in Nat /\ f(i - 1) =< f(i)
    BY <2>1, <2>2
  <2>4. ASSUME NEW k \in 0 .. i PROVE f(k) =< f(i)
    <3>1. CASE k = i
      BY <2>3, <3>1
    <3>2. CASE k # i
      <4>1. k \in 0 .. i - 1
        BY <1>1, <3>2
      <4>2. f(k) =< f(i - 1) /\ f(k) \in Int
        <5>1. k = 0 \/ (k \in 1 .. n /\ k \in 1 .. Len(s))
          BY <1>1, <4>1
        <5>2. k \in 1 .. n => f(k) \in Int
          <6>1. SubSeq(s, 1, k) \in Seq(Int)
            BY <1>1, <4>1
          <6>. QED  BY <6>1, SumType DEF f
        <5>3. f(k) \in Int
          BY <1>2, <5>1, <5>2
        <5>. QED  BY <2>1, <4>1, <5>3
      <4>. QED  BY <2>1, <2>3, <4>2
    <3>. QED  BY <3>1, <3>2
  <2>. QED  BY <1>1, <2>3, <2>4
<1>6. \A i \in 0 .. n : i \in T
  <2>. HIDE DEF T
  <2>. QED  BY <1>1, <1>4, <1>5, IntervalInduction
<1>7. n \in T
  <2>. HIDE DEF T
  <2>1. n \in 0 .. n
    BY <1>1
  <2>. QED  BY <1>6, <2>1
<1>. QED  BY <1>7 DEF f

LEMMA FlattenLength ==
    ASSUME NEW S, NEW ss \in Seq(Seq(S)), NEW lengths \in Seq(Int), Len(lengths) = Len(ss),
           \A i \in 1 .. Len(ss) : lengths[i] = Len(ss[i])
    PROVE  Len(FlattenSeq(ss)) = SumSeq(lengths)
<1>. DEFINE n == Len(ss)
<1>1. PICK p \in [0 .. n -> Seq(S)] : Joined(p, ss) /\ FlattenSeq(ss) = p[n]
  BY FlattenUnfolds
<1>2. PICK f \in [0 .. n -> Int] : Sums(f, lengths) /\ SumSeq(lengths) = f[n]
  BY SumUnfolds
<1>3. p[0] = <<>> /\ f[0] = 0
  BY <1>1, <1>2, SumsStep DEF Joined
<1>4. \A i \in 1 .. n : p[i] = p[i - 1] \o ss[i] /\ f[i] = f[i - 1] + lengths[i]
  BY <1>1, <1>2, SumsStep DEF Joined
<1>5. n \in Nat /\ \A i \in 1 .. n : ss[i] \in Seq(S) /\ lengths[i] = Len(ss[i])
  OBVIOUS
<1>. HIDE DEF n
<1>. DEFINE T == {i \in 0 .. n : Len(p[i]) = f[i]}
<1>6. 0 \in T
  BY <1>3, <1>5
<1>7. ASSUME NEW i \in 1 .. n, i - 1 \in T PROVE i \in T
  <2>1. i - 1 \in 0 .. n /\ i \in 0 .. n
    BY <1>5
  <2>2. p[i - 1] \in Seq(S) /\ Len(p[i - 1]) = f[i - 1] /\ ss[i] \in Seq(S)
    BY <1>5, <1>7, <2>1
  <2>3. Len(p[i - 1] \o ss[i]) = Len(p[i - 1]) + Len(ss[i])
    BY <2>2, ConcatProperties
  <2>4. Len(p[i]) = f[i]
    BY <1>4, <1>5, <2>2, <2>3
  <2>. QED  BY <2>1, <2>4
<1>8. \A i \in 0 .. n : i \in T
  <2>. HIDE DEF T
  <2>. QED  BY <1>5, <1>6, <1>7, IntervalInduction
<1>9. n \in 0 .. n
  BY <1>5
<1>. QED  BY <1>1, <1>2, <1>8, <1>9

(* A sum of n numbers that are all 8.                                      *)
LEMMA SumOfEights ==
    ASSUME NEW s \in Seq(Int), \A i \in 1 .. Len(s) : s[i] = 8
    PROVE  SumSeq(s) = 8 * Len(s)
<1>. DEFINE n == Len(s)
<1>1. PICK f \in [0 .. n -> Int] : Sums(f, s) /\ SumSeq(s) = f[n]
  BY SumUnfolds
<1>2. f[0] = 0 /\ \A i \in 1 .. n : f[i] = f[i - 1] + 8
  BY SMTT(30), <1>1, SumsStep
<1>3. n \in Nat
  OBVIOUS
<1>. HIDE DEF n
<1>. DEFINE T == {i \in 0 .. n : f[i] = 8 * i}
<1>4. 0 \in T
  BY <1>2, <1>3
<1>5. ASSUME NEW i \in 1 .. n, i - 1 \in T PROVE i \in T
  BY <1>2, <1>3, <1>5
<1>6. \A i \in 0 .. n : i \in T
  <2>. HIDE DEF T
  <2>. QED  BY <1>3, <1>4, <1>5, IntervalInduction
<1>7. n \in 0 .. n
  BY <1>3
<1>. QED  BY <1>1, <1>6, <1>7 DEF n

LEMMA SumNat == ASSUME NEW s \in Seq(Nat) PROVE SumSeq(s) \in Nat
<1>1. Len(s) \in 0 .. Len(s) /\ SubSeq(s, 1, Len(s)) = s
  OBVIOUS
<1>. QED  BY <1>1, SumIsMonotone

(* The places and those left over select the whole sequence.               *)
LEMMA SelectSplit ==
    ASSUME NEW S, NEW s \in Seq(S), NEW places, NEW others,
           \A i \in 1 .. Len(s) : i \in others <=> i \notin places
    PROVE  Len(SelectAt(s, places)) + Len(SelectAt(s, others)) = Len(s)
<1>. DEFINE n == Len(s)
<1>. n \in Nat
  OBVIOUS
<1>1. PICK q \in [0 .. n -> Seq(S)] : Selections(q, s, places) /\ SelectAt(s, places) = q[n]
  BY SelectUnfolds
<1>2. PICK r \in [0 .. n -> Seq(S)] : Selections(r, s, others) /\ SelectAt(s, others) = r[n]
  BY SelectUnfolds
<1>3. \A i \in 1 .. n : s[i] \in S /\ (i \in others <=> i \notin places)
  OBVIOUS
<1>4. \A i \in 1 .. n : q[i] = IF i \in places THEN Append(q[i - 1], s[i]) ELSE q[i - 1]
  BY <1>1 DEF Selections
<1>5. \A i \in 1 .. n : r[i] = IF i \in others THEN Append(r[i - 1], s[i]) ELSE r[i - 1]
  BY <1>2 DEF Selections
<1>. HIDE DEF n
<1>. DEFINE U == {i \in 0 .. n : Len(q[i]) + Len(r[i]) = i}
<1>6. 0 \in U
  BY <1>1, <1>2 DEF Selections
<1>7. ASSUME NEW i \in 1 .. n, i - 1 \in U PROVE i \in U
  <2>1. i - 1 \in 0 .. n /\ i \in 0 .. n
    OBVIOUS
  <2>2. q[i - 1] \in Seq(S) /\ r[i - 1] \in Seq(S) /\ Len(q[i - 1]) + Len(r[i - 1]) = i - 1
    BY <1>7, <2>1
  <2>3. Len(Append(q[i - 1], s[i])) = Len(q[i - 1]) + 1 /\ Len(Append(r[i - 1], s[i])) = Len(r[i - 1]) + 1
        /\ Len(q[i - 1]) \in Nat /\ Len(r[i - 1]) \in Nat
    BY <1>3, <2>2, AppendProperties
  <2>4. CASE i \in places
    <3>1. q[i] = Append(q[i - 1], s[i]) /\ r[i] = r[i - 1]
      BY <1>3, <1>4, <1>5, <2>4
    <3>2. Len(q[i]) + Len(r[i]) = (Len(q[i - 1]) + Len(r[i - 1])) + 1
      BY <2>3, <3>1
    <3>3. (i - 1) + 1 = i
      OBVIOUS
    <3>4. Len(q[i]) + Len(r[i]) = i
      BY <2>2, <3>2, <3>3
    <3>. QED  BY <2>1, <3>4
  <2>5. CASE i \notin places
    <3>1. r[i] = Append(r[i - 1], s[i]) /\ q[i] = q[i - 1]
      BY <1>3, <1>4, <1>5, <2>5
    <3>2. Len(q[i]) + Len(r[i]) = (Len(q[i - 1]) + Len(r[i - 1])) + 1
      BY <2>3, <3>1
    <3>3. (i - 1) + 1 = i
      OBVIOUS
    <3>4. Len(q[i]) + Len(r[i]) = i
      BY <2>2, <3>2, <3>3
    <3>. QED  BY <2>1, <3>4
  <2>. QED  BY <2>4, <2>5
<1>8. \A i \in 0 .. n : i \in U
  <2>. HIDE DEF U
  <2>. QED  BY <1>6, <1>7, IntervalInduction
<1>9. n \in 0 .. n
  OBVIOUS
<1>. QED  BY <1>1, <1>2, <1>8, <1>9 DEF n

(* Where the parts of a concatenation stand in it.                         *)
LEMMA FlattenPlace ==
    ASSUME NEW S, NEW ss \in Seq(Seq(S)), NEW lengths \in Seq(Nat), Len(lengths) = Len(ss),
           \A i \in 1 .. Len(ss) : lengths[i] = Len(ss[i]),
           NEW k \in 1 .. Len(ss), NEW j \in 1 .. Len(ss[k])
    PROVE  FlattenSeq(ss)[SumSeq(SubSeq(lengths, 1, k - 1)) + j] = ss[k][j]
<1>. DEFINE n == Len(ss)
            f(i) == SumSeq(SubSeq(lengths, 1, i))
<1>1. PICK p \in [0 .. n -> Seq(S)] : Joined(p, ss) /\ FlattenSeq(ss) = p[n]
  BY FlattenUnfolds
<1>2. p[0] = <<>> /\ \A i \in 1 .. n : p[i] = p[i - 1] \o ss[i]
  BY <1>1 DEF Joined
<1>3. n \in Nat /\ lengths \in Seq(Int) /\ n = Len(lengths)
      /\ \A i \in 1 .. n : ss[i] \in Seq(S) /\ lengths[i] = Len(ss[i]) /\ lengths[i] \in Nat
  OBVIOUS
<1>4. f(0) = 0
  <2>1. SubSeq(lengths, 1, 0) = <<>>
    OBVIOUS
  <2>. QED  BY <2>1, SumEmpty
<1>5. \A i \in 1 .. n : f(i) = f(i - 1) + lengths[i]
  BY <1>3, SumGrows
<1>6. \A i \in 0 .. n : f(i) \in Nat
  BY <1>3, SumIsMonotone
<1>7. k \in 1 .. n /\ k - 1 \in 0 .. n /\ k \in 0 .. n
  OBVIOUS
<1>. HIDE DEF n, f
<1>8. ASSUME NEW i \in 1 .. n, Len(p[i - 1]) = f(i - 1)
      PROVE  /\ Len(p[i]) = f(i)
             /\ \A m \in 1 .. Len(ss[i]) : p[i][f(i - 1) + m] = ss[i][m]
             /\ \A m \in 1 .. f(i - 1) : p[i][m] = p[i - 1][m]
  <2>1. i - 1 \in 0 .. n
    BY <1>3
  <2>. DEFINE a == p[i - 1]
              b == ss[i]
  <2>2. a \in Seq(S) /\ b \in Seq(S) /\ p[i] = a \o b /\ f(i) = f(i - 1) + Len(b) /\ Len(a) = f(i - 1)
        /\ f(i - 1) \in Nat /\ Len(b) \in Nat
    BY <1>1, <1>2, <1>3, <1>5, <1>6, <1>8, <2>1
  <2>. HIDE DEF a, b
  <2>3. Len(a \o b) = Len(a) + Len(b)
        /\ \A m \in 1 .. Len(a) + Len(b) : (a \o b)[m] = IF m <= Len(a) THEN a[m] ELSE b[m - Len(a)]
    BY <2>2, ConcatProperties
  <2>4. ASSUME NEW m \in 1 .. Len(b) PROVE (a \o b)[f(i - 1) + m] = b[m]
    <3>. DEFINE l == Len(a)
    <3>1. l \in Nat /\ l = f(i - 1)
      BY <2>2
    <3>. HIDE DEF l
    <3>2. l + m \in 1 .. l + Len(b) /\ ~(l + m <= l) /\ (l + m) - l = m
      <4>1. Len(b) \in Nat /\ m \in 1 .. Len(b)
        BY <2>2
      <4>. QED  BY <3>1, <4>1
    <3>3. (a \o b)[l + m] = b[m]
      BY <2>3, <3>2 DEF l
    <3>. QED  BY <3>1, <3>3
  <2>5. ASSUME NEW m \in 1 .. f(i - 1) PROVE (a \o b)[m] = a[m]
    <3>1. m \in 1 .. Len(a) + Len(b) /\ m <= Len(a)
      BY <2>2
    <3>. QED  BY <2>3, <3>1
  <2>. QED  BY <2>2, <2>3, <2>4, <2>5 DEF a, b
<1>. DEFINE T == {i \in 0 .. n : /\ Len(p[i]) = f(i)
                                 /\ k <= i => /\ f(k - 1) + j \in 1 .. f(i)
                                              /\ p[i][f(k - 1) + j] = ss[k][j]}
<1>9. 0 \in T
  <2>1. ~(k <= 0) /\ 0 \in 0 .. n
    BY <1>3
  <2>2. Len(p[0]) = f(0)
    BY <1>2, <1>4
  <2>. QED  BY <2>1, <2>2
<1>10. ASSUME NEW i \in 1 .. n, i - 1 \in T PROVE i \in T
  <2>1. Len(p[i - 1]) = f(i - 1) /\ i \in 0 .. n /\ i - 1 \in 0 .. n
    BY <1>10
  <2>2. /\ Len(p[i]) = f(i)
        /\ \A m \in 1 .. Len(ss[i]) : p[i][f(i - 1) + m] = ss[i][m]
        /\ \A m \in 1 .. f(i - 1) : p[i][m] = p[i - 1][m]
    BY <1>8, <2>1
  <2>3. f(i) = f(i - 1) + Len(ss[i]) /\ f(i - 1) \in Nat /\ Len(ss[i]) \in Nat
    BY <1>3, <1>5, <1>6, <2>1
  <2>4. CASE k = i
    <3>1. p[i][f(k - 1) + j] = ss[k][j]
      BY <2>2, <2>4
    <3>2. f(i - 1) + j \in 1 .. f(i)
      <4>1. j \in 1 .. Len(ss[i])
        BY <2>4
      <4>. QED  BY <2>3, <4>1
    <3>. QED  BY <2>1, <2>2, <2>4, <3>1, <3>2
  <2>5. CASE k <= i - 1
    <3>1. f(k - 1) + j \in 1 .. f(i - 1) /\ p[i - 1][f(k - 1) + j] = ss[k][j]
      BY <1>10, <2>5
    <3>2. f(k - 1) + j \in 1 .. f(i)
      BY <2>3, <3>1
    <3>. QED  BY <2>1, <2>2, <3>1, <3>2
  <2>6. CASE ~(k <= i)
    BY <2>1, <2>2, <2>6
  <2>7. k = i \/ k <= i - 1 \/ ~(k <= i)
    BY <1>7
  <2>. QED  BY <2>4, <2>5, <2>6, <2>7
<1>11. \A i \in 0 .. n : i \in T
  <2>. HIDE DEF T
  <2>. QED  BY <1>3, <1>9, <1>10, IntervalInduction
<1>12. n \in T /\ k <= n
  <2>1. n \in 0 .. n /\ k <= n
    BY <1>3, <1>7
  <2>. HIDE DEF T
  <2>. QED  BY <1>11, <2>1
<1>. QED  BY <1>1, <1>12 DEF f

\* How many of the first i places are among the given ones.
Count(places, i) == Cardinality(places \cap 1 .. i)

(* Counting to the next place.                                             *)
LEMMA CountSteps ==
    ASSUME NEW places, NEW n \in Nat
    PROVE  /\ Count(places, n) \in Nat /\ Count(places, 0) = 0
           /\ n # 0 => Count(places, n) = IF n \in places THEN Count(places, n - 1) + 1
                                          ELSE Count(places, n - 1)
<1>1. \A i \in Nat : IsFiniteSet(places \cap 1 .. i)
  <2>. SUFFICES ASSUME NEW i \in Nat PROVE IsFiniteSet(places \cap 1 .. i)
    OBVIOUS
  <2>1. IsFiniteSet(1 .. i)
    BY FS_Interval
  <2>2. places \cap 1 .. i \in SUBSET (1 .. i)
    OBVIOUS
  <2>. QED  BY <2>1, <2>2, FS_Subset
<1>2. Count(places, 0) = 0
  <2>1. places \cap 1 .. 0 = {}
    OBVIOUS
  <2>. QED  BY <2>1, FS_EmptySet DEF Count
<1>3. Count(places, n) \in Nat
  BY <1>1, FS_CardinalityType DEF Count
<1>4. ASSUME n # 0, n \in places PROVE Count(places, n) = Count(places, n - 1) + 1
  <2>. DEFINE before == places \cap 1 .. n - 1
  <2>1. places \cap 1 .. n = before \cup {n} /\ n \notin before
    BY <1>4
  <2>2. IsFiniteSet(before)
    <3>1. n - 1 \in Nat
      BY <1>4
    <3>. QED  BY <1>1, <3>1
  <2>. HIDE DEF before
  <2>3. Cardinality(before \cup {n}) = Cardinality(before) + 1
    BY <2>1, <2>2, FS_AddElement
  <2>. QED  BY <2>1, <2>3 DEF Count, before
<1>5. ASSUME n # 0, n \notin places PROVE Count(places, n) = Count(places, n - 1)
  <2>1. places \cap 1 .. n = places \cap 1 .. n - 1
    BY <1>5
  <2>. QED  BY <2>1, Zenon DEF Count
<1>. QED  BY <1>2, <1>3, <1>4, <1>5

(* The k-th element selected is the one at the k-th place.                 *)
LEMMA SelectCounts ==
    ASSUME NEW S, NEW s \in Seq(S), NEW places
    PROVE  /\ Len(SelectAt(s, places)) = Count(places, Len(s))
           /\ \A i \in 1 .. Len(s) :
                 i \in places => /\ Count(places, i) \in 1 .. Len(SelectAt(s, places))
                                 /\ SelectAt(s, places)[Count(places, i)] = s[i]
           /\ \A k \in 1 .. Len(SelectAt(s, places)) :
                 \E i \in 1 .. Len(s) : i \in places /\ Count(places, i) = k
<1>. DEFINE n == Len(s)
            c(i) == Count(places, i)
<1>1. n \in Nat /\ \A i \in 1 .. n : s[i] \in S
  OBVIOUS
<1>2. PICK q \in [0 .. n -> Seq(S)] : Selections(q, s, places) /\ SelectAt(s, places) = q[n]
  BY SelectUnfolds
<1>3. q[0] = <<>> /\ \A i \in 1 .. n :
         q[i] = IF i \in places THEN Append(q[i - 1], s[i]) ELSE q[i - 1]
  BY <1>2 DEF Selections
<1>4. c(0) = 0 /\ \A i \in 1 .. n : c(i) \in Nat /\ c(i - 1) \in Nat
                     /\ c(i) = IF i \in places THEN c(i - 1) + 1 ELSE c(i - 1)
  <2>1. c(0) = 0
    BY <1>1, CountSteps
  <2>. SUFFICES ASSUME NEW i \in 1 .. n
       PROVE  c(i) \in Nat /\ c(i - 1) \in Nat
              /\ c(i) = IF i \in places THEN c(i - 1) + 1 ELSE c(i - 1)
    BY <2>1
  <2>2. i \in Nat /\ i # 0 /\ i - 1 \in Nat
    OBVIOUS
  <2>. HIDE DEF n
  <2>. QED  BY <2>2, CountSteps
<1>. HIDE DEF n, c
<1>. DEFINE Placed(i) == /\ Len(q[i]) = c(i)
                         /\ \A j \in 1 .. i : j \in places => c(j) \in 1 .. c(i) /\ q[i][c(j)] = s[j]
                         /\ \A k \in 1 .. c(i) : \E j \in 1 .. i : j \in places /\ c(j) = k
            T == {i \in 0 .. n : Placed(i)}
<1>5. 0 \in T
  BY <1>1, <1>3, <1>4
<1>6. ASSUME NEW i \in 1 .. n, i - 1 \in T PROVE i \in T
  <2>. DEFINE p == q[i - 1]
              m == c(i - 1)
  <2>1. i - 1 \in 0 .. n /\ i \in 0 .. n /\ p \in Seq(S) /\ m \in Nat /\ Len(p) = m
    BY <1>1, <1>2, <1>4, <1>6
  <2>2. \A j \in 1 .. i - 1 : j \in places => c(j) \in 1 .. m /\ p[c(j)] = s[j]
    BY <1>6
  <2>3. \A k \in 1 .. m : \E j \in 1 .. i - 1 : j \in places /\ c(j) = k
    BY <1>6
  <2>4. \A j \in 1 .. i : j = i \/ j \in 1 .. i - 1
    OBVIOUS
  <2>5. \A j \in 1 .. i - 1 : j \in 1 .. i
    OBVIOUS
  <2>6. CASE i \in places
    <3>1. q[i] = Append(p, s[i]) /\ c(i) = m + 1
      BY <1>3, <1>4, <2>6
    <3>. HIDE DEF p, m
    <3>2. /\ Len(Append(p, s[i])) = m + 1 /\ Append(p, s[i])[m + 1] = s[i]
          /\ \A k \in 1 .. m : Append(p, s[i])[k] = p[k]
      BY <1>1, <2>1, AppendProperties
    <3>3. \A j \in 1 .. i : j \in places => c(j) \in 1 .. c(i) /\ q[i][c(j)] = s[j]
      <4>. SUFFICES ASSUME NEW j \in 1 .. i, j \in places
           PROVE  c(j) \in 1 .. c(i) /\ q[i][c(j)] = s[j]
        OBVIOUS
      <4>1. CASE j = i
        BY <2>1, <3>1, <3>2, <4>1
      <4>2. CASE j \in 1 .. i - 1
        <5>1. c(j) \in 1 .. m /\ p[c(j)] = s[j]
          BY <2>2, <4>2
        <5>2. c(j) \in 1 .. m + 1
          BY <2>1, <5>1
        <5>. QED  BY <3>1, <3>2, <5>1, <5>2
      <4>. QED  BY <2>4, <4>1, <4>2
    <3>4. \A k \in 1 .. c(i) : \E j \in 1 .. i : j \in places /\ c(j) = k
      <4>. SUFFICES ASSUME NEW k \in 1 .. m + 1 PROVE \E j \in 1 .. i : j \in places /\ c(j) = k
        BY <3>1
      <4>1. CASE k = m + 1
        <5>1. i \in 1 .. i
          OBVIOUS
        <5>. QED  BY <2>6, <3>1, <4>1, <5>1
      <4>2. CASE k \in 1 .. m
        BY <2>3, <2>5, <4>2
      <4>3. k = m + 1 \/ k \in 1 .. m
        BY <2>1
      <4>. QED  BY <4>1, <4>2, <4>3
    <3>5. Len(q[i]) = c(i)
      BY <3>1, <3>2
    <3>. QED  BY <2>1, <3>3, <3>4, <3>5
  <2>7. CASE i \notin places
    <3>1. q[i] = p /\ c(i) = m
      BY <1>3, <1>4, <2>7
    <3>. HIDE DEF p, m
    <3>2. \A j \in 1 .. i : j \in places => c(j) \in 1 .. m /\ p[c(j)] = s[j]
      BY <2>2, <2>4, <2>7
    <3>3. \A k \in 1 .. m : \E j \in 1 .. i : j \in places /\ c(j) = k
      BY <2>3, <2>5
    <3>. QED  BY <2>1, <3>1, <3>2, <3>3
  <2>. QED  BY <2>6, <2>7
<1>7. \A i \in 0 .. n : i \in T
  <2>. HIDE DEF T
  <2>. QED  BY <1>1, <1>5, <1>6, IntervalInduction
<1>8. Placed(n)
  <2>1. n \in 0 .. n
    BY <1>1
  <2>. QED  BY <1>7, <2>1
<1>. QED  BY <1>2, <1>8 DEF c, n

=============================================================================

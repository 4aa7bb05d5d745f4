--------------------------- MODULE Toolchain_proof ---------------------------
(***************************************************************************)
(* Theorems about Toolchain, for every set of source lines and headers,    *)
(* every spelling of the names and every bound.                            *)
(***************************************************************************)
EXTENDS Toolchain, ListTheorems

-----------------------------------------------------------------------------
(* What the preprocessor makes of a line is a sequence of tokens.          *)

MacroType == [name : Names, args : Seq(Names), body : Seq(Tokens)]

Line == Seq(Tokens)

LEMMA ReplaceType ==
    ASSUME NEW toks \in Line, NEW name, NEW by \in Line
    PROVE  ReplaceWord(toks, name, by) \in Line
<1>. DEFINE parts == [i \in DOMAIN toks |->
                         IF toks[i].t = "word" /\ toks[i].s = name THEN by ELSE <<toks[i]>>]
<1>1. DOMAIN toks = 1 .. Len(toks) /\ Len(toks) \in Nat
  BY DEF Line
<1>2. \A i \in 1 .. Len(toks) : <<toks[i]>> \in Seq(Tokens)
  BY DEF Line
<1>3. parts \in Seq(Seq(Tokens))
  BY <1>1, <1>2 DEF Line
<1>. QED  BY <1>3, FlattenType DEF ReplaceWord, Line

(* The first macro with a name, or none.                                   *)
LEMMA NewestMacro ==
    ASSUME macros \in Seq(MacroType), NEW name
    PROVE  Newest(name) \in 0 .. Len(macros) /\ (Defined(name) => Newest(name) # 0)
<1>. DEFINE I == {i \in 1 .. Len(macros) : macros[i].name = name}
<1>1. I # {} => Min(I) \in I
  <2>. I \in SUBSET Nat
    OBVIOUS
  <2>. HIDE DEF I
  <2>. QED  BY MinIsLowest
<1>2. Len(macros) \in Nat /\ (Defined(name) => I # {})
  BY DEF Defined
<1>3. Newest(name) = IF I # {} THEN Min(I) ELSE 0
  BY Zenon DEF Newest, SelectInSeq
<1>4. I # {} => Min(I) \in 1 .. Len(macros)
  BY <1>1
<1>. HIDE DEF I
<1>. QED  BY <1>2, <1>3, <1>4

LEMMA FindMacroType ==
    ASSUME macros \in Seq(MacroType), NEW name, Defined(name)
    PROVE  FindMacro(name) \in MacroType
BY NewestMacro DEF FindMacro

LEMMA WithoutNewestType ==
    ASSUME macros \in Seq(MacroType), NEW name
    PROVE  WithoutNewest(name) \in Seq(MacroType)
<1>. DEFINE i == Newest(name)
<1>1. i \in 0 .. Len(macros)
  BY NewestMacro
<1>. HIDE DEF i
<1>2. SubSeq(macros, 1, i - 1) \in Seq(MacroType) /\ SubSeq(macros, i + 1, Len(macros)) \in Seq(MacroType)
  BY <1>1
<1>3. RemoveAt(macros, i) \in Seq(MacroType)
  BY <1>2, ConcatProperties DEF RemoveAt
<1>. QED  BY <1>3 DEF WithoutNewest, i

(* The body of a macro with its parameters replaced.                       *)
LEMMA InstanceType ==
    ASSUME NEW m \in MacroType, NEW toks \in Line
    PROVE  Instance(m, toks) \in Line
<1>. DEFINE actual == SelectAt(toks, {i \in 3 .. Len(toks) : toks[i].s # ")"})
            n == Len(m.args)
            step == [i \in 1 .. n |-> [v \in Line |->
                        IF i > Len(actual) THEN v ELSE ReplaceWord(v, m.args[i], <<actual[i]>>)]]
            Body(f) == f = [i \in 0 .. n |->
                              IF i = 0 THEN m.body
                              ELSE IF i > Len(actual) THEN f[i - 1]
                              ELSE ReplaceWord(f[i - 1], m.args[i], <<actual[i]>>)]
            g == CHOOSE g : Body(g)
<1>1. actual \in Line
  BY SelectType DEF Line
<1>2. n \in Nat /\ m.body \in Line
  BY DEF MacroType, Line
<1>3. ASSUME NEW i \in 1 .. n, NEW v \in Line
      PROVE  /\ step[i][v] = IF i > Len(actual) THEN v ELSE ReplaceWord(v, m.args[i], <<actual[i]>>)
             /\ step[i][v] \in Line
  <2>. HIDE DEF actual, n
  <2>1. CASE i > Len(actual)
    BY <2>1
  <2>2. CASE ~(i > Len(actual))
    <3>1. <<actual[i]>> \in Line
      BY <1>1, <1>2, <2>2 DEF Line
    <3>. QED  BY <2>2, <3>1, ReplaceType
  <2>. QED  BY <2>1, <2>2
<1>. HIDE DEF step, n, actual
<1>4. Recursion(Line, m.body, n, step)
  BY <1>2, <1>3 DEF Recursion
<1>5. PICK q : Solves(q, Line, m.body, n, step)
  BY <1>4, RecursionExists
<1>6. Body(q)
  <2>1. q \in [0 .. n -> Line] /\ q[0] = m.body
    BY <1>5 DEF Solves
  <2>2. ASSUME NEW i \in 1 .. n
        PROVE  q[i] = IF i > Len(actual) THEN q[i - 1]
                      ELSE ReplaceWord(q[i - 1], m.args[i], <<actual[i]>>)
    <3>1. i - 1 \in 0 .. n
      BY <1>2
    <3>2. q[i - 1] \in Line /\ q[i] = step[i][q[i - 1]]
      BY <1>5, <2>1, <3>1 DEF Solves
    <3>. QED  BY <1>3, <3>2
  <2>3. ASSUME NEW i \in 0 .. n
        PROVE  q[i] = IF i = 0 THEN m.body
                      ELSE IF i > Len(actual) THEN q[i - 1]
                      ELSE ReplaceWord(q[i - 1], m.args[i], <<actual[i]>>)
    <3>1. i = 0 \/ i \in 1 .. n
      BY <1>2
    <3>. QED  BY <2>1, <2>2, <3>1
  <2>4. q = [i \in 0 .. n |-> q[i]]
    BY <2>1
  <2>. QED  BY <2>3, <2>4, Zenon
<1>7. Body(g)
  BY <1>6, Zenon
<1>8. Instance(m, toks) = g[n]
  BY Zenon DEF Instance, n, actual
<1>. HIDE DEF g
<1>9. \A i \in 0 .. n : g[i] = IF i = 0 THEN m.body
                               ELSE IF i > Len(actual) THEN g[i - 1]
                               ELSE ReplaceWord(g[i - 1], m.args[i], <<actual[i]>>)
  BY <1>7, Zenon
<1>10. g[n] \in Line
  <2>1. g[0] = m.body
    <3>1. 0 \in 0 .. n
      BY <1>2
    <3>. QED  BY <1>9, <3>1, Zenon
  <2>2. ASSUME NEW i \in 1 .. n, g[i - 1] \in Line PROVE g[i] = step[i][g[i - 1]]
    <3>1. i \in 0 .. n /\ i # 0
      BY <1>2
    <3>. QED  BY <1>3, <1>9, <2>2, <3>1
  <2>3. Follows(g, Line, m.body, n, step)
    BY <2>1, <2>2 DEF Follows
  <2>4. \A i \in 0 .. n : g[i] \in Line
    BY <1>4, <1>5, <2>3, RecursionUnique
  <2>. QED  BY <1>2, <2>4
<1>. QED  BY <1>8, <1>10

(* A line with its macros replaced.                                        *)
LEMMA ExpandType ==
    ASSUME macros \in Seq(MacroType), NEW toks \in Line
    PROVE  Expand(toks) \in Line
<1>. DEFINE base == IF IsCall(toks) THEN Instance(FindMacro(toks[1].s), toks) ELSE toks
            n == Len(macros)
            step == [i \in 1 .. n |-> [v \in Line |->
                        IF macros[i].args # <<>> THEN v
                        ELSE ReplaceWord(v, macros[i].name, macros[i].body)]]
            Rewritten(f) == f = [i \in 0 .. n |->
                              IF i = 0
                              THEN IF IsCall(toks) THEN Instance(FindMacro(toks[1].s), toks) ELSE toks
                              ELSE IF macros[i].args # <<>> THEN f[i - 1]
                              ELSE ReplaceWord(f[i - 1], macros[i].name, macros[i].body)]
            g == CHOOSE g : Rewritten(g)
<1>1. base \in Line
  BY FindMacroType, InstanceType DEF IsCall
<1>2. n \in Nat /\ \A i \in 1 .. n : macros[i].body \in Line
  <2>1. \A i \in 1 .. n : macros[i] \in MacroType
    OBVIOUS
  <2>2. \A m \in MacroType : m.body \in Line
    BY DEF MacroType, Line
  <2>. QED  BY <2>1, <2>2
<1>3. ASSUME NEW i \in 1 .. n, NEW v \in Line
      PROVE  /\ step[i][v] = IF macros[i].args # <<>> THEN v
                             ELSE ReplaceWord(v, macros[i].name, macros[i].body)
             /\ step[i][v] \in Line
  <2>. HIDE DEF n
  <2>. QED  BY <1>2, ReplaceType
<1>. HIDE DEF step, n
<1>4. Recursion(Line, base, n, step)
  <2>. HIDE DEF base
  <2>. QED  BY <1>1, <1>2, <1>3 DEF Recursion
<1>5. PICK q : Solves(q, Line, base, n, step)
  <2>. HIDE DEF base
  <2>. QED  BY <1>4, RecursionExists
<1>6. Rewritten(q)
  <2>1. q \in [0 .. n -> Line] /\ q[0] = base
    <3>. HIDE DEF base
    <3>. QED  BY <1>5 DEF Solves
  <2>2. ASSUME NEW i \in 1 .. n
        PROVE  q[i] = IF macros[i].args # <<>> THEN q[i - 1]
                      ELSE ReplaceWord(q[i - 1], macros[i].name, macros[i].body)
    <3>1. i - 1 \in 0 .. n
      BY <1>2
    <3>2. q[i - 1] \in Line /\ q[i] = step[i][q[i - 1]]
      <4>. HIDE DEF base
      <4>. QED  BY <1>5, <2>1, <3>1 DEF Solves
    <3>. HIDE DEF base
    <3>. QED  BY <1>3, <3>2
  <2>3. ASSUME NEW i \in 0 .. n
        PROVE  q[i] = IF i = 0 THEN base
                      ELSE IF macros[i].args # <<>> THEN q[i - 1]
                      ELSE ReplaceWord(q[i - 1], macros[i].name, macros[i].body)
    <3>1. i = 0 \/ i \in 1 .. n
      BY <1>2
    <3>. HIDE DEF base
    <3>. QED  BY <2>1, <2>2, <3>1
  <2>4. q = [i \in 0 .. n |-> q[i]]
    <3>. HIDE DEF base
    <3>. QED  BY <2>1
  <2>. QED  BY <2>3, <2>4, Zenon
<1>7. Rewritten(g)
  BY <1>6, Zenon
<1>8. Expand(toks) = g[n]
  BY Zenon DEF Expand, n
<1>. HIDE DEF g
<1>9. \A i \in 0 .. n : g[i] = IF i = 0 THEN base
                               ELSE IF macros[i].args # <<>> THEN g[i - 1]
                               ELSE ReplaceWord(g[i - 1], macros[i].name, macros[i].body)
  BY <1>7, Zenon
<1>. HIDE DEF base
<1>10. g[n] \in Line
  <2>1. g[0] = base
    <3>1. 0 \in 0 .. n
      BY <1>2
    <3>. QED  BY <1>9, <3>1, Zenon
  <2>2. ASSUME NEW i \in 1 .. n, g[i - 1] \in Line PROVE g[i] = step[i][g[i - 1]]
    <3>1. i \in 0 .. n /\ i # 0
      BY <1>2
    <3>. QED  BY <1>3, <1>9, <2>2, <3>1
  <2>3. Follows(g, Line, base, n, step)
    BY <2>1, <2>2 DEF Follows
  <2>4. \A i \in 0 .. n : g[i] \in Line
    BY <1>4, <1>5, <2>3, RecursionUnique
  <2>. QED  BY <1>2, <2>4
<1>. QED  BY <1>8, <1>10

(* The lines a text is cut into.                                           *)
LEMMA SplitType ==
    ASSUME NEW toks \in Line
    PROVE  SplitLines(toks) \in Seq(Line)
<1>. DEFINE V == Seq(Line) \ {<<>>}
            n == Len(toks)
            step == [i \in 1 .. n |-> [v \in V |->
                        IF toks[i] = NewLine THEN Append(v, <<>>)
                        ELSE Append(Front(v), Append(Last(v), toks[i]))]]
            Cut(f) == f = [i \in 0 .. n |->
                              IF i = 0 THEN << <<>> >>
                              ELSE IF toks[i] = NewLine THEN Append(f[i - 1], <<>>)
                              ELSE Append(Front(f[i - 1]), Append(Last(f[i - 1]), toks[i]))]
            g == CHOOSE g : Cut(g)
<1>1. n \in Nat /\ <<>> \in Line /\ \A i \in 1 .. n : toks[i] \in Tokens
  BY DEF Line
<1>2. ASSUME NEW i \in 1 .. n, NEW v \in V
      PROVE  /\ step[i][v] = IF toks[i] = NewLine THEN Append(v, <<>>)
                             ELSE Append(Front(v), Append(Last(v), toks[i]))
             /\ step[i][v] \in V
  <2>1. Append(v, <<>>) \in V
    BY <1>1, AppendProperties
  <2>2. Front(v) \in Seq(Line) /\ Last(v) \in Line
    <3>. HIDE DEF Line
    <3>. QED  BY DEF Front, Last
  <2>3. Append(Last(v), toks[i]) \in Line
    BY <1>1, <2>2, AppendProperties DEF Line
  <2>4. Append(Front(v), Append(Last(v), toks[i])) \in V
    <3>. DEFINE s == Front(v)
                last == Append(Last(v), toks[i])
    <3>1. s \in Seq(Line) /\ last \in Line
      BY <2>2, <2>3
    <3>. HIDE DEF s, last, Line
    <3>2. Append(s, last) \in Seq(Line) /\ Append(s, last) # <<>>
      BY <3>1, AppendProperties
    <3>. QED  BY <3>2 DEF s, last
  <2>5. step[i][v] = IF toks[i] = NewLine THEN Append(v, <<>>)
                     ELSE Append(Front(v), Append(Last(v), toks[i]))
    <3>. HIDE DEF V, n
    <3>. QED  OBVIOUS
  <2>. HIDE DEF V, n, step
  <2>. QED  BY <2>1, <2>4, <2>5
<1>3. << <<>> >> \in V
  BY <1>1
<1>. HIDE DEF step, n
<1>4. Recursion(V, << <<>> >>, n, step)
  <2>. HIDE DEF V
  <2>. QED  BY <1>1, <1>2, <1>3 DEF Recursion
<1>5. PICK q : Solves(q, V, << <<>> >>, n, step)
  <2>. HIDE DEF V
  <2>. QED  BY <1>4, RecursionExists
<1>6. Cut(q)
  <2>. HIDE DEF V
  <2>1. q \in [0 .. n -> V] /\ q[0] = << <<>> >>
    BY <1>5 DEF Solves
  <2>2. ASSUME NEW i \in 1 .. n
        PROVE  q[i] = IF toks[i] = NewLine THEN Append(q[i - 1], <<>>)
                      ELSE Append(Front(q[i - 1]), Append(Last(q[i - 1]), toks[i]))
    <3>1. i - 1 \in 0 .. n
      BY <1>1
    <3>2. q[i - 1] \in V /\ q[i] = step[i][q[i - 1]]
      BY <1>5, <2>1, <3>1 DEF Solves
    <3>. QED  BY <1>2, <3>2
  <2>3. ASSUME NEW i \in 0 .. n
        PROVE  q[i] = IF i = 0 THEN << <<>> >>
                      ELSE IF toks[i] = NewLine THEN Append(q[i - 1], <<>>)
                      ELSE Append(Front(q[i - 1]), Append(Last(q[i - 1]), toks[i]))
    <3>1. i = 0 \/ i \in 1 .. n
      BY <1>1
    <3>. QED  BY <2>1, <2>2, <3>1
  <2>4. q = [i \in 0 .. n |-> q[i]]
    BY <2>1
  <2>. QED  BY <2>3, <2>4, Zenon
<1>7. Cut(g)
  BY <1>6, Zenon
<1>8. SplitLines(toks) = SelectAt(g[n], {i \in DOMAIN g[n] : g[n][i] # <<>>})
  BY Zenon DEF SplitLines, n
<1>. HIDE DEF g
<1>9. \A i \in 0 .. n : g[i] = IF i = 0 THEN << <<>> >>
                               ELSE IF toks[i] = NewLine THEN Append(g[i - 1], <<>>)
                               ELSE Append(Front(g[i - 1]), Append(Last(g[i - 1]), toks[i]))
  BY <1>7, Zenon
<1>10. g[n] \in V
  <2>. HIDE DEF V
  <2>1. g[0] = << <<>> >>
    <3>1. 0 \in 0 .. n
      BY <1>1
    <3>. QED  BY <1>9, <3>1, Zenon
  <2>2. ASSUME NEW i \in 1 .. n, g[i - 1] \in V PROVE g[i] = step[i][g[i - 1]]
    <3>1. i \in 0 .. n /\ i # 0
      BY <1>1
    <3>. QED  BY <1>2, <1>9, <2>2, <3>1
  <2>3. Follows(g, V, << <<>> >>, n, step)
    BY <2>1, <2>2 DEF Follows
  <2>4. \A i \in 0 .. n : g[i] \in V
    BY <1>4, <1>5, <2>3, RecursionUnique
  <2>. QED  BY <1>1, <2>4
<1>. QED  BY <1>8, <1>10, SelectType

-----------------------------------------------------------------------------
(* What the parser makes of a line is a sequence of statements.            *)

IsRow(r) == r = NoRow \/ \E i \in 1 .. Len(OpcodeTable) : r = OpcodeTable[i]

LEMMA TableOpcodes ==
    /\ Len(OpcodeTable) = 79
    /\ \A i \in 1 .. Len(OpcodeTable) :
          /\ OpcodeTable[i].op \in 0 .. 255
          /\ OpcodeTable[i].min \in Int /\ OpcodeTable[i].max \in Int
<1>1. Len(OpcodeTable) = 79
  BY DEF OpcodeTable
<1>2. ASSUME NEW i \in 1 .. 79
      PROVE  /\ OpcodeTable[i].op \in 0 .. 255
             /\ OpcodeTable[i].min \in Int /\ OpcodeTable[i].max \in Int
  BY SMTT(60) DEF OpcodeTable, R
<1>. QED  BY <1>1, <1>2

(* Of two rows with the same opcode the first takes whatever operands the  *)
(* second takes: CALL takes those of GOSUB.                                *)
LEMMA FirstRowIsWidest ==
    \A i, j \in 1 .. 79 :
       j <= i /\ OpcodeTable[j].op = OpcodeTable[i].op
          => OpcodeTable[j].min <= OpcodeTable[i].min /\ OpcodeTable[i].max <= OpcodeTable[j].max
BY SMTT(60) DEF OpcodeTable, R

\* The VM finds a row for an instruction with n operands.
Understood(op, n) ==
    /\ FromOpcode(op) # NoRow /\ FromOpcode(op).op = op
    /\ FromOpcode(op).min <= n /\ n <= FromOpcode(op).max

LEMMA RowIsUnderstood ==
    ASSUME NEW r, IsRow(r), r # NoRow
    PROVE  /\ r.op \in 0 .. 255
           /\ \A n \in Nat : r.min <= n /\ n <= r.max => Understood(r.op, n)
<1>1. PICK i \in 1 .. 79 : r = OpcodeTable[i]
  BY TableOpcodes DEF IsRow
<1>. DEFINE I == {j \in 1 .. Len(OpcodeTable) : OpcodeTable[j].op = r.op}
            at == Min(I)
<1>2. i \in I /\ I \in SUBSET Nat /\ \A j \in I : j \in 1 .. 79 /\ OpcodeTable[j].op = r.op
  <2>1. Len(OpcodeTable) = 79
    BY TableOpcodes
  <2>2. \A j \in 1 .. 79 : j \in Nat
    OBVIOUS
  <2>. QED  BY <1>1, <2>1, <2>2, Zenon
<1>3. FromOpcode(r.op) = IF (IF I # {} THEN at ELSE 0) = 0 THEN NoRow ELSE OpcodeTable[IF I # {} THEN at ELSE 0]
  BY Zenon DEF FromOpcode, FirstRow, SelectInSeq
<1>4. at \in I /\ at <= i
  <2>. HIDE DEF I
  <2>. QED  BY <1>2, MinIsLowest
<1>5. at \in 1 .. 79 /\ at # 0 /\ I # {} /\ OpcodeTable[at].op = r.op
  <2>1. 0 \notin 1 .. 79
    OBVIOUS
  <2>. QED  BY <1>2, <1>4, <2>1, Zenon
<1>. HIDE DEF I, at
<1>6. FromOpcode(r.op) = OpcodeTable[at]
  BY <1>3, <1>5, Zenon
<1>7. r.op \in 0 .. 255 /\ OpcodeTable[at].op = r.op
  BY <1>1, <1>5, TableOpcodes
<1>8. OpcodeTable[at] # NoRow
  <2>1. NoRow.op = -1
    BY Zenon DEF NoRow, R
  <2>. QED  BY <1>7, <2>1
<1>9. /\ OpcodeTable[at].min \in Int /\ OpcodeTable[at].max \in Int
      /\ OpcodeTable[i].min \in Int /\ OpcodeTable[i].max \in Int
      /\ OpcodeTable[at].min <= OpcodeTable[i].min /\ OpcodeTable[i].max <= OpcodeTable[at].max
  BY <1>1, <1>4, <1>5, TableOpcodes, FirstRowIsWidest
<1>10. ASSUME NEW n \in Nat, r.min <= n, n <= r.max PROVE Understood(r.op, n)
  <2>1. OpcodeTable[at].min <= n /\ n <= OpcodeTable[at].max
    BY <1>1, <1>9, <1>10
  <2>. QED  BY <1>6, <1>7, <1>8, <2>1, Zenon DEF Understood
<1>. QED  BY <1>7, <1>10

(* Each of the three lookups answers with a row of the table, or with none. *)
LEMMA FromCodeType == ASSUME NEW code PROVE IsRow(FromCode(code))
<1>. DEFINE I == {i \in 1 .. Len(OpcodeTable) : OpcodeTable[i].code = code}
            at == IF I # {} THEN Min(I) ELSE 0
<1>1. FromCode(code) = IF at = 0 THEN NoRow ELSE OpcodeTable[at]
  BY Zenon DEF FromCode, FirstRow, SelectInSeq
<1>2. at = 0 \/ at \in 1 .. Len(OpcodeTable)
  <2>. I \in SUBSET Nat /\ I \in SUBSET 1 .. Len(OpcodeTable)
    OBVIOUS
  <2>. HIDE DEF I
  <2>. QED  BY MinIsLowest
<1>. HIDE DEF at
<1>. QED  BY <1>1, <1>2, Zenon DEF IsRow

LEMMA FromNameType == ASSUME NEW name PROVE IsRow(FromName(name))
<1>. DEFINE I == {i \in 1 .. Len(OpcodeTable) : OpcodeTable[i].name = name}
            at == IF I # {} THEN Min(I) ELSE 0
<1>1. FromName(name) = IF at = 0 THEN NoRow ELSE OpcodeTable[at]
  BY Zenon DEF FromName, FirstRow, SelectInSeq
<1>2. at = 0 \/ at \in 1 .. Len(OpcodeTable)
  <2>. I \in SUBSET Nat /\ I \in SUBSET 1 .. Len(OpcodeTable)
    OBVIOUS
  <2>. HIDE DEF I
  <2>. QED  BY MinIsLowest
<1>. HIDE DEF at
<1>. QED  BY <1>1, <1>2, Zenon DEF IsRow

LEMMA FromOpcodeType == ASSUME NEW op PROVE IsRow(FromOpcode(op))
<1>. DEFINE I == {i \in 1 .. Len(OpcodeTable) : OpcodeTable[i].op = op}
            at == IF I # {} THEN Min(I) ELSE 0
<1>1. FromOpcode(op) = IF at = 0 THEN NoRow ELSE OpcodeTable[at]
  BY Zenon DEF FromOpcode, FirstRow, SelectInSeq
<1>2. at = 0 \/ at \in 1 .. Len(OpcodeTable)
  <2>. I \in SUBSET Nat /\ I \in SUBSET 1 .. Len(OpcodeTable)
    OBVIOUS
  <2>. HIDE DEF I
  <2>. QED  BY MinIsLowest
<1>. HIDE DEF at
<1>. QED  BY <1>1, <1>2, Zenon DEF IsRow

LEMMA OpRowType == ASSUME NEW tok PROVE IsRow(OpRow(tok))
BY FromCodeType, FromNameType DEF OpRow

(* A label, whose opcode byte is 0, could be taken for a NOP.              *)
LEMMA NoOperation == Understood(0, 0)
<1>1. /\ OpcodeTable[1].op = 0 /\ OpcodeTable[1].min = 0 /\ OpcodeTable[1].max = 0
      /\ 1 \in 1 .. Len(OpcodeTable) /\ NoRow.op = -1
  BY SMTT(30) DEF OpcodeTable, R, NoRow
<1>2. IsRow(OpcodeTable[1]) /\ OpcodeTable[1] # NoRow
  <2>1. -1 # 0
    OBVIOUS
  <2>. QED  BY <1>1, <2>1, Zenon DEF IsRow
<1>3. 0 \in Nat /\ 0 <= 0
  OBVIOUS
<1>. QED  BY <1>1, <1>2, <1>3, RowIsUnderstood

LEMMA Int32ValuesAreInt == \A v \in Int32Values : v \in Int
BY SMT DEF Int32Values

OperandType == [type : 1 .. 5, s : Names, v : Int32Values]

StatementType ==
    [label : Names, op : Int, operands : Seq(OperandType), line : Nat, ok : BOOLEAN]

\* A statement the parser has accepted fits in the bytes it is given, and the
\* VM takes as many operands for its opcode byte.
Fits(st) ==
    st.ok => /\ st.op \in 0 .. 255 /\ Len(st.operands) <= 8
             /\ Understood(st.op, Len(st.operands))

LEMMA OperandOfType ==
    ASSUME NEW tok \in Tokens
    PROVE  OperandOf(tok) \in OperandType
<1>1. tok.s \in Names /\ tok.v \in Int32Values
  BY Zenon DEF Tokens
<1>2. \A type \in 1 .. 5 : Operand(type, tok) \in OperandType
  BY <1>1, Zenon DEF Operand, OperandType
<1>3. /\ StringTag \in 1 .. 5 /\ AddressTag \in 1 .. 5 /\ IntTag \in 1 .. 5
        /\ FloatTag \in 1 .. 5 /\ VarTag \in 1 .. 5
  BY DEF StringTag, AddressTag, IntTag, FloatTag, VarTag
<1>. QED  BY <1>2, <1>3, Zenon DEF OperandOf

LEMMA OperandsType ==
    ASSUME NEW toks \in Line
    PROVE  Operands(toks) \in Seq(OperandType)
<1>1. DOMAIN toks = 1 .. Len(toks) /\ Len(toks) \in Nat /\ \A i \in 1 .. Len(toks) : toks[i] \in Tokens
  BY DEF Line
<1>. QED  BY <1>1, OperandOfType DEF Operands

LEMMA InstructionType ==
    ASSUME NEW r, IsRow(r), NEW operands \in Seq(OperandType), NEW ln \in Nat
    PROVE  /\ Instruction(r, operands, ln) \in StatementType
           /\ Fits(Instruction(r, operands, ln))
<1>1. "" \in Names
  BY TextsAssumption
<1>2. r.op \in Int
  <2>1. NoRow.op = -1 /\ -1 \in Int
    BY DEF NoRow, R
  <2>2. r = NoRow => r.op \in Int
    BY <2>1, Zenon
  <2>3. r # NoRow => r.op \in 0 .. 255
    BY RowIsUnderstood
  <2>4. \A op \in 0 .. 255 : op \in Int
    OBVIOUS
  <2>. QED  BY <2>2, <2>3, <2>4, Zenon
<1>3. /\ r # NoRow => r.op \in 0 .. 255
      /\ r # NoRow /\ r.min <= Len(operands) /\ Len(operands) <= r.max
            => Understood(r.op, Len(operands))
  BY RowIsUnderstood
<1>4. Instruction(r, operands, ln).ok = (r # NoRow /\ Len(operands) <= 8
                                         /\ r.min <= Len(operands) /\ Len(operands) <= r.max)
  BY Zenon DEF Instruction
<1>5. Instruction(r, operands, ln) \in StatementType
  BY <1>1, <1>2 DEF Instruction, StatementType
<1>6. Instruction(r, operands, ln).op = r.op /\ Instruction(r, operands, ln).operands = operands
  BY Zenon DEF Instruction
<1>. QED  BY <1>3, <1>4, <1>5, <1>6, Zenon DEF Fits

LEMMA UnlessType ==
    ASSUME NEW toks \in Line, NEW colon
    PROVE  Unless(colon, toks) \in Line
BY DEF Unless, Line

LEMMA ParseAssignmentType ==
    ASSUME NEW toks \in Line, IsAssignment(toks), NEW ln \in Nat
    PROVE  ParseAssignment(toks, ln) \in StatementType /\ Fits(ParseAssignment(toks, ln))
<1>. DEFINE x == Operand(VarTag, toks[1])
            target == IF toks[2].s = "=" THEN <<x>> ELSE <<x, x>>
            r == FromName(Assignments[toks[2].s])
            operands == Append(target, OperandOf(toks[3]))
            st == Instruction(r, operands, ln)
<1>1. Len(toks) > 2 /\ toks[1] \in Tokens /\ toks[3] \in Tokens
  BY DEF IsAssignment, Line
<1>2. x \in OperandType /\ OperandOf(toks[3]) \in OperandType
  <2>1. \A tok \in Tokens : Operand(VarTag, tok) \in OperandType
    BY DEF Tokens, Operand, OperandType, VarTag
  <2>. QED  BY <1>1, <2>1, OperandOfType
<1>3. operands \in Seq(OperandType)
  <2>. HIDE DEF x
  <2>1. target \in Seq(OperandType)
    BY <1>2
  <2>. QED  BY <1>2, <2>1, AppendProperties
<1>. HIDE DEF operands, r
<1>4. st \in StatementType /\ Fits(st)
  BY <1>3, InstructionType, FromNameType DEF r
<1>. HIDE DEF st
<1>5. ParseAssignment(toks, ln) = [st EXCEPT !.ok = @ /\ Len(toks) = 3]
  BY Zenon DEF ParseAssignment, st, operands, r
<1>6. [st EXCEPT !.ok = @ /\ Len(toks) = 3] \in StatementType
  <2>1. (st.ok /\ Len(toks) = 3) \in BOOLEAN
    OBVIOUS
  <2>. QED  BY <1>4, <2>1, Zenon DEF StatementType
<1>7. /\ [st EXCEPT !.ok = @ /\ Len(toks) = 3].ok => st.ok
      /\ [st EXCEPT !.ok = @ /\ Len(toks) = 3].op = st.op
      /\ [st EXCEPT !.ok = @ /\ Len(toks) = 3].operands = st.operands
  BY <1>4, Zenon DEF StatementType
<1>. QED  BY <1>4, <1>5, <1>6, <1>7, Zenon DEF Fits

LEMMA ParseInstructionType ==
    ASSUME NEW toks \in Line, toks # <<>>, NEW ln \in Nat
    PROVE  ParseInstruction(toks, ln) \in StatementType /\ Fits(ParseInstruction(toks, ln))
<1>. DEFINE r == OpRow(toks[1])
            args == Unless("colon", Tail(toks))
            native == r = FromName("CALL_NATIVE") /\ toks[1].t = "dotted"
            operands == IF native THEN <<Operand(StringTag, toks[1])>> \o Operands(Unless("colon", args))
                        ELSE Operands(args)
<1>1. Tail(toks) \in Line /\ toks[1] \in Tokens
  BY DEF Line
<1>2. args \in Line
  BY <1>1, UnlessType
<1>3. Operand(StringTag, toks[1]) \in OperandType
  BY <1>1 DEF Tokens, Operand, OperandType, StringTag
<1>4. operands \in Seq(OperandType)
  <2>. HIDE DEF args
  <2>1. Operands(args) \in Seq(OperandType)
    BY <1>2, OperandsType
  <2>2. Operands(Unless("colon", args)) \in Seq(OperandType)
    BY <1>2, UnlessType, OperandsType
  <2>3. <<Operand(StringTag, toks[1])>> \in Seq(OperandType)
    BY <1>3
  <2>4. <<Operand(StringTag, toks[1])>> \o Operands(Unless("colon", args)) \in Seq(OperandType)
    BY <2>2, <2>3, ConcatProperties
  <2>. QED  BY <2>1, <2>4
<1>5. ParseInstruction(toks, ln) = Instruction(r, operands, ln)
  BY Zenon DEF ParseInstruction
<1>. HIDE DEF operands, r
<1>6. IsRow(r)
  BY OpRowType DEF r
<1>. QED  BY <1>4, <1>5, <1>6, InstructionType

LEMMA ParseLineType ==
    ASSUME NEW toks \in Line, NEW ln \in Nat
    PROVE  ParseLine(toks, ln) \in Seq({st \in StatementType : Fits(st)})
<1>. DEFINE labelled == Len(toks) > 1 /\ toks[1].t = "colon"
            rest == IF labelled THEN SubSeq(toks, 3, Len(toks)) ELSE toks
            S == {st \in StatementType : Fits(st)}
            first == IF labelled THEN <<Label(toks[2].s, ln)>> ELSE <<>>
            second == IF rest = <<>> THEN <<>>
                      ELSE IF IsAssignment(rest) THEN <<ParseAssignment(rest, ln)>>
                      ELSE <<ParseInstruction(rest, ln)>>
<1>1. rest \in Line
  BY DEF Line
<1>2. first \in Seq(S)
  <2>1. CASE labelled
    <3>1. toks[2] \in Tokens
      BY <2>1 DEF Line
    <3>2. toks[2].s \in Names
      BY <3>1 DEF Tokens
    <3>3. Label(toks[2].s, ln) \in StatementType
      BY <3>2 DEF Label, StatementType
    <3>4. Fits(Label(toks[2].s, ln))
      <4>1. 0 \in 0 .. 255 /\ Len(<<>>) = 0 /\ 0 <= 8
        OBVIOUS
      <4>. QED  BY <4>1, NoOperation, Zenon DEF Fits, Label
    <3>. QED  BY <2>1, <3>3, <3>4
  <2>2. CASE ~labelled
    BY <2>2
  <2>. QED  BY <2>1, <2>2
<1>3. second \in Seq(S)
  <2>. HIDE DEF rest
  <2>1. IsAssignment(rest) => ParseAssignment(rest, ln) \in S
    BY <1>1, ParseAssignmentType
  <2>2. rest # <<>> => ParseInstruction(rest, ln) \in S
    BY <1>1, ParseInstructionType
  <2>. HIDE DEF S
  <2>. QED  BY <2>1, <2>2
<1>4. ParseLine(toks, ln) = first \o second
  BY Zenon DEF ParseLine
<1>. HIDE DEF first, second, S
<1>5. ParseLine(toks, ln) \in Seq(S)
  BY <1>2, <1>3, <1>4, ConcatProperties
<1>. QED  BY <1>5 DEF S

LEMMA ParsedType ==
    ASSUME NEW lines \in Seq(Line)
    PROVE  Parsed(lines) \in Seq({st \in StatementType : Fits(st)})
<1>. DEFINE S == {st \in StatementType : Fits(st)}
            parts == [ln \in 1 .. Len(lines) |-> ParseLine(lines[ln], ln)]
<1>1. \A ln \in 1 .. Len(lines) : lines[ln] \in Line /\ ln \in Nat
  OBVIOUS
<1>2. \A ln \in 1 .. Len(lines) : ParseLine(lines[ln], ln) \in Seq(S)
  BY <1>1, ParseLineType
<1>. HIDE DEF S
<1>3. parts \in Seq(Seq(S))
  BY <1>2
<1>. HIDE DEF parts
<1>4. Parsed(lines) = FlattenSeq(parts)
  BY Zenon DEF Parsed, parts
<1>. QED  BY <1>3, <1>4, FlattenType DEF S

-----------------------------------------------------------------------------
(* One activation of the preprocessor and its conditionals.                *)

FrameType == [parent : BOOLEAN, taken : BOOLEAN, active : BOOLEAN, chosen : Int]

FileType ==
    [path : Names, over : BOOLEAN, line : Int, cond : Seq(FrameType), active : BOOLEAN,
     inMacro : BOOLEAN, cur : MacroType, out : BOOLEAN]

\* What OneBranchSelected says of the open conditionals of a file. It is not
\* inductive: what the end of a conditional makes active again is the last of
\* those around it, so an active branch must stand in active text.
Branches(cond, active) ==
    /\ active <=> \A c \in 1 .. Len(cond) : cond[c].active
    /\ \A c \in 1 .. Len(cond) :
          /\ cond[c].parent <=> \A d \in 1 .. c - 1 : cond[d].active
          /\ cond[c].chosen = IF cond[c].parent /\ cond[c].taken THEN 1 ELSE 0
          /\ cond[c].active => cond[c].parent

Files == {f \in FileType : Len(f.cond) =< CondMax /\ Branches(f.cond, f.active)}

(* A conditional opens: its lines are active if those around it are and    *)
(* its condition holds.                                                    *)
LEMMA OpenedBranches ==
    ASSUME NEW cond \in Seq(FrameType), NEW active \in BOOLEAN, Branches(cond, active),
           NEW v \in BOOLEAN, NEW on \in BOOLEAN, on <=> (active /\ v),
           NEW frame \in FrameType, frame.parent = active, frame.taken = v, frame.active = on,
           frame.chosen = IF on THEN 1 ELSE 0
    PROVE  Branches(Append(cond, frame), on)
<1>. DEFINE n == Len(cond)
            r == Append(cond, frame)
<1>1. n \in Nat /\ Len(r) = n + 1 /\ r[n + 1] = frame /\ \A c \in 1 .. n : r[c] = cond[c]
  BY AppendProperties
<1>2. \A c \in 1 .. n : cond[c] \in FrameType
  OBVIOUS
<1>. HIDE DEF r
<1>3. active <=> \A c \in 1 .. n : r[c].active
  BY <1>1 DEF Branches
<1>4. on <=> \A c \in 1 .. n + 1 : r[c].active
  <2>1. \A c \in 1 .. n + 1 : c = n + 1 \/ c \in 1 .. n
    BY <1>1
  <2>2. n + 1 \in 1 .. n + 1 /\ \A c \in 1 .. n : c \in 1 .. n + 1
    BY <1>1
  <2>3. r[n + 1].active <=> on
    BY <1>1
  <2>. QED  BY <1>3, <2>1, <2>2, <2>3
<1>5. ASSUME NEW c \in 1 .. n + 1
      PROVE  /\ r[c].parent <=> \A d \in 1 .. c - 1 : r[d].active
             /\ r[c].chosen = IF r[c].parent /\ r[c].taken THEN 1 ELSE 0
             /\ r[c].active => r[c].parent
  <2>1. CASE c = n + 1
    <3>1. r[c] = frame /\ c - 1 = n
      BY <1>1, <2>1
    <3>. QED  BY <1>3, <3>1
  <2>2. CASE c # n + 1
    <3>1. c \in 1 .. n /\ \A d \in 1 .. c - 1 : d \in 1 .. n
      BY <1>1, <2>2
    <3>2. r[c] = cond[c] /\ \A d \in 1 .. c - 1 : r[d] = cond[d]
      BY <1>1, <3>1
    <3>. QED  BY <3>1, <3>2 DEF Branches
  <2>. QED  BY <2>1, <2>2
<1>6. \A c \in 1 .. n + 1 : r[c] \in FrameType
  BY <1>1, <1>2
<1>7. \A c \in 1 .. n + 1 : r[c].parent \in BOOLEAN
  BY <1>6 DEF FrameType
<1>. QED  BY <1>1, <1>4, <1>5, <1>7 DEF Branches, r

(* The innermost conditional goes to its next branch.                      *)
LEMMA ChangedBranches ==
    ASSUME NEW cond \in Seq(FrameType), cond # <<>>, NEW active \in BOOLEAN, Branches(cond, active),
           NEW last \in FrameType, last = cond[Len(cond)],
           NEW v \in BOOLEAN, v => ~last.taken,
           NEW on \in BOOLEAN, on <=> (last.parent /\ v),
           NEW frame \in FrameType, frame.parent = last.parent, frame.active = on,
           (last.taken \/ v) <=> frame.taken,
           frame.chosen = IF on THEN last.chosen + 1 ELSE last.chosen
    PROVE  Branches(Append(Front(cond), frame), on)
<1>. DEFINE n == Len(cond)
            r == Append(Front(cond), frame)
<1>1. n \in Nat /\ n > 0 /\ Len(r) = n /\ r[n] = frame /\ \A c \in 1 .. n - 1 : r[c] = cond[c]
  <2>1. Front(cond) \in Seq(FrameType) /\ Len(Front(cond)) = n - 1
        /\ \A c \in 1 .. n - 1 : Front(cond)[c] = cond[c]
    BY FrontProperties
  <2>2. n \in Nat /\ n > 0
    OBVIOUS
  <2>. QED  BY <2>1, <2>2, AppendProperties
<1>2. \A c \in 1 .. n : cond[c] \in FrameType
  OBVIOUS
<1>. HIDE DEF r
<1>3. last.parent <=> \A c \in 1 .. n - 1 : r[c].active
  <2>1. n \in 1 .. n
    BY <1>1
  <2>2. last.parent <=> \A c \in 1 .. n - 1 : cond[c].active
    BY <2>1 DEF Branches
  <2>. QED  BY <1>1, <2>2
<1>4. on <=> \A c \in 1 .. n : r[c].active
  <2>1. \A c \in 1 .. n : c = n \/ c \in 1 .. n - 1
    BY <1>1
  <2>2. n \in 1 .. n /\ \A c \in 1 .. n - 1 : c \in 1 .. n
    BY <1>1
  <2>3. r[n].active <=> on
    BY <1>1
  <2>. QED  BY <1>3, <2>1, <2>2, <2>3
<1>5. ASSUME NEW c \in 1 .. n
      PROVE  /\ r[c].parent <=> \A d \in 1 .. c - 1 : r[d].active
             /\ r[c].chosen = IF r[c].parent /\ r[c].taken THEN 1 ELSE 0
             /\ r[c].active => r[c].parent
  <2>1. CASE c = n
    <3>1. r[c] = frame
      BY <1>1, <2>1
    <3>2. last.chosen = IF last.parent /\ last.taken THEN 1 ELSE 0
      BY <2>1 DEF Branches
    <3>4. frame.chosen = IF frame.parent /\ frame.taken THEN 1 ELSE 0
      BY <3>2
    <3>. QED  BY <1>3, <3>1, <3>4, <2>1
  <2>2. CASE c # n
    <3>1. c \in 1 .. n - 1 /\ \A d \in 1 .. c - 1 : d \in 1 .. n - 1
      BY <1>1, <2>2
    <3>2. r[c] = cond[c] /\ \A d \in 1 .. c - 1 : r[d] = cond[d]
      BY <1>1, <3>1
    <3>. QED  BY <3>1, <3>2 DEF Branches
  <2>. QED  BY <2>1, <2>2
<1>6. \A c \in 1 .. n : r[c] \in FrameType
  <2>1. \A c \in 1 .. n : c = n \/ c \in 1 .. n - 1
    BY <1>1
  <2>. QED  BY <1>1, <1>2, <2>1
<1>7. \A c \in 1 .. n : r[c].parent \in BOOLEAN
  BY <1>6 DEF FrameType
<1>. QED  BY <1>1, <1>4, <1>5, <1>7 DEF Branches, r

(* The innermost conditional ends: the one around it decides.              *)
LEMMA ClosedBranches ==
    ASSUME NEW cond \in Seq(FrameType), cond # <<>>, NEW active \in BOOLEAN, Branches(cond, active)
    PROVE  Enclosing(Front(cond)) \in BOOLEAN /\ Branches(Front(cond), Enclosing(Front(cond)))
<1>. DEFINE n == Len(cond) - 1
            r == Front(cond)
<1>1. n \in Nat /\ r \in Seq(FrameType) /\ Len(r) = n /\ \A c \in 1 .. n : r[c] = cond[c]
  BY FrontProperties
<1>2. \A c \in 1 .. n : c \in 1 .. Len(cond)
  BY <1>1
<1>. HIDE DEF r, n
<1>3. ASSUME NEW c \in 1 .. n
      PROVE  /\ r[c].parent <=> \A d \in 1 .. c - 1 : r[d].active
             /\ r[c].chosen = IF r[c].parent /\ r[c].taken THEN 1 ELSE 0
             /\ r[c].active => r[c].parent
  <2>1. r[c] = cond[c] /\ \A d \in 1 .. c - 1 : r[d] = cond[d]
    BY <1>1
  <2>2. c \in 1 .. Len(cond)
    BY <1>2
  <2>. QED  BY <2>1, <2>2 DEF Branches
<1>4. Enclosing(r) \in BOOLEAN /\ (Enclosing(r) <=> \A c \in 1 .. n : r[c].active)
  <2>1. CASE n = 0
    <3>1. r = <<>>
      BY <1>1, <2>1
    <3>. QED  BY <2>1, <3>1 DEF Enclosing
  <2>2. CASE n # 0
    <3>1. r # <<>> /\ n \in 1 .. n /\ r[n] \in FrameType
      BY <1>1, <2>2
    <3>2. Enclosing(r) = r[n].active
      BY <1>1, <3>1 DEF Enclosing, Last
    <3>3. r[n].active \in BOOLEAN
      BY <3>1 DEF FrameType
    <3>4. r[n].active => \A c \in 1 .. n - 1 : r[c].active
      <4>1. /\ r[n].parent <=> \A c \in 1 .. n - 1 : r[c].active
            /\ r[n].active => r[n].parent
        BY <1>3, <3>1
      <4>. QED  BY <4>1
    <3>5. \A c \in 1 .. n : c = n \/ c \in 1 .. n - 1
      BY <1>1
    <3>. QED  BY <3>1, <3>2, <3>3, <3>4, <3>5
  <2>. QED  BY <2>1, <2>2
<1>. QED  BY <1>1, <1>3, <1>4 DEF Branches, r

(* A file whose conditionals change.                                       *)
LEMMA FileChange ==
    ASSUME NEW f \in FileType, NEW cond \in Seq(FrameType), NEW active \in BOOLEAN,
           Len(cond) =< CondMax, Branches(cond, active)
    PROVE  [f EXCEPT !.cond = cond, !.active = active] \in Files
<1>. DEFINE g == [f EXCEPT !.cond = cond, !.active = active]
<1>1. g \in FileType /\ g.cond = cond /\ g.active = active
  BY Zenon DEF FileType
<1>. HIDE DEF g
<1>2. g \in Files
  BY <1>1, Zenon DEF Files
<1>. QED  BY <1>2 DEF g

-----------------------------------------------------------------------------
(* The preprocessor's part of the invariant.                               *)

PreInv ==
    /\ command \in Commands /\ source \in 1 .. Len(command) /\ read \in 0 .. MaxLines
    /\ files \in Seq(Files) /\ Len(files) =< StackMax
    /\ macros \in Seq(MacroType) /\ text \in Seq(Line)
    /\ once \in Seq(Names) /\ Len(once) =< OnceMax
    /\ included \in SUBSET DOMAIN FileText /\ expanded \in SUBSET DOMAIN FileText

LEMMA TopType ==
    ASSUME PreInv, files # <<>>
    PROVE  /\ Top \in Files /\ Top \in FileType
           /\ Len(files) \in 1 .. Len(files)
           /\ Top = files[Len(files)]
<1>1. files \in Seq(Files)
  BY DEF PreInv
<1>2. Len(files) \in 1 .. Len(files)
  BY <1>1
<1>3. files[Len(files)] \in Files
  BY <1>1, <1>2
<1>4. Top = files[Len(files)]
  BY DEF Top, Last
<1>. QED  BY <1>2, <1>3, <1>4 DEF Files

LEMMA NextLinesType ==
    ASSUME PreInv, files # <<>>, NEW l \in NextLines
    PROVE  l \in Lines
<1>. ~Top.over
  BY DEF NextLines
<1>1. CASE Top.path \notin DOMAIN FileText
  BY <1>1, TextsAssumption DEF NextLines
<1>2. CASE Top.path \in DOMAIN FileText
  <2>1. FileText[Top.path] \in Seq(Lines)
    BY <1>2, TextsAssumption
  <2>2. PICK i \in DOMAIN FileText[Top.path] : l = FileText[Top.path][i]
    BY <1>2 DEF NextLines
  <2>. QED  BY <2>1, <2>2
<1>. QED  BY <1>1, <1>2

(* The number of lines read stays within its bound.                        *)
LEMMA ReadBound ==
    ASSUME PreInv, read' = IF InSource THEN Min({read + 1, MaxLines}) ELSE read
    PROVE  read' \in 0 .. MaxLines
<1>1. read \in 0 .. MaxLines /\ MaxLines \in Nat
  BY LimitsAssumption DEF PreInv
<1>. DEFINE S == {read + 1, MaxLines}
<1>2. S \in SUBSET Nat /\ S # {}
  BY <1>1
<1>3. Min(S) \in S /\ \A n \in S : Min(S) =< n
  <2>. HIDE DEF S
  <2>. QED  BY <1>2, MinIsLowest
<1>4. Min(S) \in Nat /\ Min(S) =< MaxLines
  BY <1>2, <1>3
<1>. HIDE DEF S
<1>5. read' = IF InSource THEN Min(S) ELSE read
  BY DEF S
<1>. QED  BY <1>1, <1>4, <1>5

LEMMA ContinueType ==
    ASSUME PreInv, files # <<>>, NEW f \in Files, Continue(f)
    PROVE  /\ files' \in Seq(Files) /\ files' # <<>> /\ Len(files') = Len(files)
           /\ read' \in 0 .. MaxLines
<1>. DEFINE g == [f EXCEPT !.line = @ + 1]
<1>1. g \in Files
  <2>1. f \in FileType
    BY DEF Files
  <2>2. f.line + 1 \in Int
    BY <2>1 DEF FileType
  <2>3. g \in FileType /\ g.cond = f.cond /\ g.active = f.active
    BY <2>1, <2>2, Zenon DEF FileType
  <2>. HIDE DEF g
  <2>. QED  BY <2>3, Zenon DEF Files
<1>2. files' = [files EXCEPT ![Len(files)] = g]
  BY Zenon DEF Continue
<1>3. read' \in 0 .. MaxLines
  BY ReadBound DEF Continue
<1>4. files \in Seq(Files) /\ Len(files) \in 1 .. Len(files)
  BY TopType DEF PreInv
<1>. HIDE DEF g
<1>5. files' \in Seq(Files) /\ Len(files') = Len(files)
  BY <1>1, <1>2, <1>4, ExceptSeq
<1>6. files' # <<>>
  BY <1>4, <1>5
<1>. QED  BY <1>3, <1>5, <1>6

\* How a line is taken: the files stay open, and the compilation goes on.
Goes == PreInv' /\ phase' = phase /\ files' # <<>>

LEMMA OpenConditionalStep ==
    ASSUME PreInv, files # <<>>, NEW l \in Lines, ~Fails(l), OpenConditional(l)
    PROVE  Goes
<1>. DEFINE v == Holds(l)
            on == Top.active /\ v
            frame == [parent |-> Top.active, taken |-> v, active |-> on,
                      chosen |-> IF on THEN 1 ELSE 0]
            f == [Top EXCEPT !.cond = Append(@, frame), !.active = on]
            cond == Append(Top.cond, frame)
<1>1. Top \in Files /\ Top \in FileType
  BY TopType
<1>2. Top.cond \in Seq(FrameType) /\ Top.active \in BOOLEAN
      /\ Branches(Top.cond, Top.active)
  BY <1>1 DEF FileType, Files
<1>3. Len(Top.cond) < CondMax
  <2>1. ~(Len(Top.cond) >= CondMax)
    BY DEF Fails, OpenConditional
  <2>2. Len(Top.cond) \in Nat /\ CondMax \in Nat
    BY <1>2, LimitsAssumption
  <2>. QED  BY <2>1, <2>2
<1>4. v \in BOOLEAN
  <2>1. CASE l.k = "ifdef"
    BY <2>1 DEF Holds, Defined
  <2>2. CASE l.k = "ifndef"
    BY <2>2 DEF Holds
  <2>3. CASE l.k = "if"
    BY <2>3 DEF Holds
  <2>. QED  BY <2>1, <2>2, <2>3 DEF OpenConditional
<1>5. Continue(f) /\ UNCHANGED <<phase, command, source, macros, once, text, included, expanded>>
  BY Zenon DEF OpenConditional
<1>. HIDE DEF v
<1>6. /\ frame \in FrameType
      /\ frame.parent = Top.active /\ frame.taken = v /\ frame.active = on
      /\ frame.chosen = IF on THEN 1 ELSE 0
  <2>1. on \in BOOLEAN /\ (IF on THEN 1 ELSE 0) \in Int
    OBVIOUS
  <2>. QED  BY <1>2, <1>4, <2>1, Zenon DEF FrameType
<1>7. on \in BOOLEAN /\ (on <=> (Top.active /\ v))
  OBVIOUS
<1>. HIDE DEF frame, on
<1>8. Branches(cond, on)
  BY <1>2, <1>4, <1>6, <1>7, OpenedBranches
<1>9. cond \in Seq(FrameType) /\ Len(cond) =< CondMax
  <2>1. cond \in Seq(FrameType) /\ Len(cond) = Len(Top.cond) + 1
    BY <1>2, <1>6, AppendProperties
  <2>2. Len(Top.cond) \in Nat /\ CondMax \in Nat
    BY <1>2, LimitsAssumption
  <2>. QED  BY <1>3, <2>1, <2>2
<1>. HIDE DEF cond
<1>10. f = [Top EXCEPT !.cond = cond, !.active = on]
  BY Zenon DEF cond
<1>11. f \in Files
  <2>. HIDE DEF f
  <2>1. [Top EXCEPT !.cond = cond, !.active = on] \in Files
    BY <1>1, <1>7, <1>8, <1>9, FileChange, Zenon
  <2>. QED  BY <1>10, <2>1, Zenon
<1>. HIDE DEF f
<1>. QED  BY <1>5, <1>11, ContinueType DEF Goes, PreInv

LEMMA ChangeBranchStep ==
    ASSUME PreInv, files # <<>>, NEW l \in Lines, ~Fails(l), ChangeBranch(l)
    PROVE  Goes
<1>. DEFINE v == NextBranch(l)
            on == CondTop.parent /\ v
            frame == [CondTop EXCEPT !.active = on, !.taken = @ \/ v \/ l.k = "else",
                                     !.chosen = IF on THEN @ + 1 ELSE @]
            f == [Top EXCEPT !.cond = Append(Front(@), frame), !.active = on]
            cond == Append(Front(Top.cond), frame)
<1>1. Top \in Files /\ Top \in FileType
  BY TopType
<1>2. Top.cond \in Seq(FrameType) /\ Top.active \in BOOLEAN
      /\ Branches(Top.cond, Top.active) /\ Len(Top.cond) =< CondMax
  BY <1>1 DEF FileType, Files
<1>3. Top.cond # <<>>
  BY DEF Fails, ChangeBranch
<1>4. CondTop \in FrameType /\ CondTop = Top.cond[Len(Top.cond)]
  <2>1. Len(Top.cond) \in 1 .. Len(Top.cond)
    BY <1>2, <1>3
  <2>. QED  BY <1>2, <2>1 DEF CondTop, Last
<1>5. Continue(f) /\ UNCHANGED <<phase, command, source, macros, once, text, included, expanded>>
  BY Zenon DEF ChangeBranch
<1>6. v \in BOOLEAN /\ (v => ~CondTop.taken) /\ (l.k = "else" /\ ~CondTop.taken => v)
  BY DEF NextBranch
<1>. HIDE DEF v
<1>7. on \in BOOLEAN /\ (on <=> (CondTop.parent /\ v))
  OBVIOUS
<1>. DEFINE chosen == IF on THEN CondTop.chosen + 1 ELSE CondTop.chosen
            taken == CondTop.taken \/ v \/ l.k = "else"
<1>8. chosen \in Int /\ taken \in BOOLEAN
  BY <1>4 DEF FrameType
<1>9. /\ frame \in FrameType
      /\ frame.parent = CondTop.parent /\ frame.active = on
      /\ frame.taken = taken /\ frame.chosen = chosen
  BY <1>4, <1>7, <1>8, Zenon DEF FrameType
<1>10. (CondTop.taken \/ v) <=> frame.taken
  <2>. HIDE DEF frame
  <2>1. (CondTop.taken \/ v) <=> taken
    BY <1>6
  <2>. QED  BY <1>9, <2>1, Zenon
<1>. HIDE DEF frame, on
<1>11. Branches(cond, on)
  BY <1>2, <1>3, <1>4, <1>6, <1>7, <1>9, <1>10, ChangedBranches
<1>12. cond \in Seq(FrameType) /\ Len(cond) =< CondMax
  <2>1. Front(Top.cond) \in Seq(FrameType) /\ Len(Front(Top.cond)) = Len(Top.cond) - 1
    BY <1>2, <1>3, FrontProperties
  <2>2. cond \in Seq(FrameType) /\ Len(cond) = Len(Front(Top.cond)) + 1
    BY <1>9, <2>1, AppendProperties
  <2>3. Len(Top.cond) \in Nat /\ CondMax \in Nat
    BY <1>2, LimitsAssumption
  <2>. QED  BY <1>2, <2>1, <2>2, <2>3
<1>. HIDE DEF cond
<1>13. f = [Top EXCEPT !.cond = cond, !.active = on]
  BY Zenon DEF cond
<1>14. f \in Files
  <2>. HIDE DEF f
  <2>1. [Top EXCEPT !.cond = cond, !.active = on] \in Files
    BY <1>1, <1>7, <1>11, <1>12, FileChange, Zenon
  <2>. QED  BY <1>13, <2>1, Zenon
<1>. HIDE DEF f
<1>. QED  BY <1>5, <1>14, ContinueType DEF Goes, PreInv

LEMMA CloseConditionalStep ==
    ASSUME PreInv, files # <<>>, NEW l \in Lines, ~Fails(l), CloseConditional(l)
    PROVE  Goes
<1>. DEFINE cond == Front(Top.cond)
            on == Enclosing(cond)
            f == [Top EXCEPT !.cond = Front(@), !.active = Enclosing(Front(Top.cond))]
<1>1. Top \in Files /\ Top \in FileType
  BY TopType
<1>2. Top.cond \in Seq(FrameType) /\ Top.active \in BOOLEAN
      /\ Branches(Top.cond, Top.active) /\ Len(Top.cond) =< CondMax
  BY <1>1 DEF FileType, Files
<1>3. Top.cond # <<>>
  BY DEF Fails, CloseConditional
<1>4. Continue(f) /\ UNCHANGED <<phase, command, source, macros, once, text, included, expanded>>
  BY Zenon DEF CloseConditional
<1>5. on \in BOOLEAN /\ Branches(cond, on)
  BY <1>2, <1>3, ClosedBranches
<1>6. cond \in Seq(FrameType) /\ Len(cond) =< CondMax
  <2>1. cond \in Seq(FrameType) /\ Len(cond) = Len(Top.cond) - 1
    BY <1>2, <1>3, FrontProperties
  <2>2. Len(Top.cond) \in Nat /\ CondMax \in Nat
    BY <1>2, LimitsAssumption
  <2>. HIDE DEF cond
  <2>. QED  BY <1>2, <2>1, <2>2
<1>7. f = [Top EXCEPT !.cond = cond, !.active = on]
  BY Zenon
<1>. HIDE DEF cond, on
<1>8. f \in Files
  <2>. HIDE DEF f
  <2>1. [Top EXCEPT !.cond = cond, !.active = on] \in Files
    BY <1>1, <1>5, <1>6, FileChange, Zenon
  <2>. QED  BY <1>7, <2>1, Zenon
<1>. HIDE DEF f
<1>. QED  BY <1>4, <1>8, ContinueType DEF Goes, PreInv

LEMMA LineFields ==
    ASSUME NEW l \in Lines
    PROVE  /\ l.k \in Directives /\ l.name \in Names
           /\ l.toks \in Line /\ l.args \in Seq(Names)
BY DEF Lines, Line

LEMMA OpenedFile ==
    ASSUME NEW path \in Names
    PROVE  Opened(path) \in Files
<1>1. <<>> \in Seq(FrameType) /\ Len(<<>>) = 0 /\ 1 \in Int
  OBVIOUS
<1>2. NoMacro \in MacroType
  <2>1. "" \in Names
    BY TextsAssumption
  <2>2. <<>> \in Seq(Names) /\ <<>> \in Seq(Tokens)
    OBVIOUS
  <2>. QED  BY <2>1, <2>2, Zenon DEF NoMacro, MacroType
<1>3. Opened(path) \in FileType
  <2>1. (path \in ToSet(once)) \in BOOLEAN
    OBVIOUS
  <2>. QED  BY <1>1, <1>2, <2>1, Zenon DEF Opened, FileType
<1>4. Opened(path).cond = <<>> /\ Opened(path).active = TRUE
  BY Zenon DEF Opened
<1>5. Branches(<<>>, TRUE)
  BY <1>1 DEF Branches
<1>6. 0 =< CondMax
  BY LimitsAssumption
<1>. QED  BY <1>1, <1>3, <1>4, <1>5, <1>6 DEF Files

\* A file for which something was appended to *out.
LEMMA OutChange ==
    ASSUME NEW f \in Files
    PROVE  [f EXCEPT !.out = TRUE] \in Files
<1>. DEFINE g == [f EXCEPT !.out = TRUE]
<1>1. f \in FileType
  BY DEF Files
<1>2. g \in FileType /\ g.cond = f.cond /\ g.active = f.active
  BY <1>1, Zenon DEF FileType
<1>. HIDE DEF g
<1>3. g \in Files
  BY <1>2, Zenon DEF Files
<1>. QED  BY <1>3 DEF g

LEMMA IncludeStep ==
    ASSUME PreInv, files # <<>>, NEW l \in Lines, ~Fails(l), Include(l)
    PROVE  Goes
<1>1. Top \in Files /\ Top \in FileType /\ Len(files) \in 1 .. Len(files) /\ Top = files[Len(files)]
  BY TopType
<1>2. l.name \in DOMAIN FileText /\ l.name \in Names
  BY LineFields DEF Include, Fails
<1>3. included' \in SUBSET DOMAIN FileText /\ phase' = phase
      /\ UNCHANGED <<command, source, macros, once, text>>
  BY <1>2 DEF Include, PreInv
<1>4. CASE l.name \in ToSet(once)
  <2>. DEFINE f == [Top EXCEPT !.out = TRUE]
  <2>1. Continue(f) /\ expanded' = expanded
    BY <1>4, Zenon DEF Include
  <2>3. f \in Files
    BY <1>1, OutChange
  <2>. HIDE DEF f
  <2>2. files' \in Seq(Files) /\ files' # <<>> /\ Len(files') = Len(files) /\ read' \in 0 .. MaxLines
    BY <2>1, <2>3, ContinueType
  <2>. QED  BY <1>3, <2>1, <2>2 DEF Goes, PreInv
<1>5. CASE l.name \notin ToSet(once)
  <2>. DEFINE f == [Top EXCEPT !.line = @ + 1, !.out = TRUE]
              g == [files EXCEPT ![Len(files)] = f]
  <2>1. files' = Append(g, Opened(l.name))
    BY <1>5, Zenon DEF Include
  <2>2. f \in Files
    <3>1. Top.line + 1 \in Int
      BY <1>1 DEF FileType
    <3>2. f \in FileType /\ f.cond = Top.cond /\ f.active = Top.active
      BY <1>1, <3>1, Zenon DEF FileType
    <3>. HIDE DEF f
    <3>. QED  BY <1>1, <3>2, Zenon DEF Files
  <2>. HIDE DEF f
  <2>3. g = [files EXCEPT ![Len(files)] = f]
    OBVIOUS
  <2>4. files \in Seq(Files)
    BY DEF PreInv
  <2>. HIDE DEF g
  <2>5. g \in Seq(Files) /\ Len(g) = Len(files)
    BY <1>1, <2>2, <2>3, <2>4, ExceptSeq
  <2>6. Opened(l.name) \in Files
    BY <1>2, OpenedFile
  <2>7. files' \in Seq(Files) /\ files' # <<>> /\ Len(files') = Len(files) + 1
    BY <2>1, <2>5, <2>6, AppendProperties
  <2>8. Len(files) # StackMax
    BY <1>5 DEF Include, Fails
  <2>9. Len(files') =< StackMax
    BY <1>1, <2>7, <2>8, LimitsAssumption DEF PreInv
  <2>10. read' \in 0 .. MaxLines
    <3>1. read' = IF InSource THEN Min({read + 1, MaxLines}) ELSE read
      BY <1>5, Zenon DEF Include
    <3>. QED  BY <3>1, ReadBound, Zenon
  <2>11. expanded' \in SUBSET DOMAIN FileText
    <3>1. expanded' = expanded \cup {l.name}
      BY <1>5, Zenon DEF Include
    <3>. QED  BY <1>2, <3>1 DEF PreInv
  <2>. QED  BY <1>3, <2>7, <2>9, <2>10, <2>11 DEF Goes, PreInv
<1>. QED  BY <1>4, <1>5

LEMMA PragmaOnceStep ==
    ASSUME PreInv, files # <<>>, NEW l \in Lines, PragmaOnce(l)
    PROVE  Goes
<1>1. Top \in Files /\ Top \in FileType
  BY TopType
<1>2. Continue(Top) /\ UNCHANGED <<phase, command, source, macros, text, included, expanded>>
      /\ once' = IF Len(once) < OnceMax THEN Append(once, Top.path) ELSE once
  BY DEF PragmaOnce
<1>3. Top.path \in Names
  BY <1>1 DEF FileType
<1>4. once' \in Seq(Names) /\ Len(once') =< OnceMax
  <2>1. once \in Seq(Names) /\ Len(once) =< OnceMax /\ OnceMax \in Nat
    BY LimitsAssumption DEF PreInv
  <2>2. Append(once, Top.path) \in Seq(Names) /\ Len(Append(once, Top.path)) = Len(once) + 1
    BY <1>3, <2>1, AppendProperties
  <2>3. CASE Len(once) < OnceMax
    BY <1>2, <2>1, <2>2, <2>3
  <2>4. CASE ~(Len(once) < OnceMax)
    BY <1>2, <2>1, <2>4
  <2>. QED  BY <2>3, <2>4
<1>. QED  BY <1>1, <1>2, <1>4, ContinueType DEF Goes, PreInv

LEMMA DefineStep ==
    ASSUME PreInv, files # <<>>, NEW l \in Lines, Define(l)
    PROVE  Goes
<1>. DEFINE m == [name |-> l.name, args |-> l.args, body |-> l.toks]
<1>1. Top \in Files
  BY TopType
<1>2. Continue(Top) /\ UNCHANGED <<phase, command, source, once, text, included, expanded>>
      /\ macros' = <<m>> \o macros
  BY DEF Define
<1>3. m \in MacroType
  <2>1. l.name \in Names /\ l.toks \in Seq(Tokens) /\ l.args \in Seq(Names)
    BY LineFields DEF Line
  <2>. QED  BY <2>1, Zenon DEF MacroType
<1>. HIDE DEF m
<1>4. macros' \in Seq(MacroType)
  BY <1>2, <1>3, ConcatProperties DEF PreInv
<1>. QED  BY <1>1, <1>2, <1>4, ContinueType DEF Goes, PreInv

LEMMA UndefStep ==
    ASSUME PreInv, files # <<>>, NEW l \in Lines, Undef(l)
    PROVE  Goes
<1>1. Top \in Files
  BY TopType
<1>2. Continue(Top) /\ UNCHANGED <<phase, command, source, once, text, included, expanded>>
      /\ macros' = WithoutNewest(l.name)
  BY DEF Undef
<1>3. macros' \in Seq(MacroType)
  BY <1>2, WithoutNewestType DEF PreInv
<1>. QED  BY <1>1, <1>2, <1>3, ContinueType DEF Goes, PreInv

\* A file that only its macro changes in.
LEMMA MacroChange ==
    ASSUME NEW f \in Files, NEW inMacro \in BOOLEAN, NEW cur \in MacroType
    PROVE  [f EXCEPT !.inMacro = inMacro, !.cur = cur] \in Files
<1>. DEFINE g == [f EXCEPT !.inMacro = inMacro, !.cur = cur]
<1>1. f \in FileType
  BY DEF Files
<1>2. g \in FileType /\ g.cond = f.cond /\ g.active = f.active
  BY <1>1, Zenon DEF FileType
<1>. HIDE DEF g
<1>3. g \in Files
  BY <1>2, Zenon DEF Files
<1>. QED  BY <1>3 DEF g

LEMMA MacroHeaderStep ==
    ASSUME PreInv, files # <<>>, NEW l \in Lines, MacroHeader(l)
    PROVE  Goes
<1>. DEFINE m == [name |-> l.name, args |-> l.args, body |-> <<>>]
            f == [Top EXCEPT !.inMacro = TRUE, !.cur = m]
<1>1. Top \in Files
  BY TopType
<1>2. Continue(f) /\ UNCHANGED <<phase, command, source, macros, once, text, included, expanded>>
  BY Zenon DEF MacroHeader
<1>3. m \in MacroType
  <2>1. l.name \in Names /\ l.args \in Seq(Names) /\ <<>> \in Seq(Tokens)
    BY LineFields
  <2>. QED  BY <2>1, Zenon DEF MacroType
<1>. HIDE DEF m
<1>4. f \in Files
  BY <1>1, <1>3, MacroChange, Zenon
<1>. HIDE DEF f
<1>. QED  BY <1>2, <1>4, ContinueType DEF Goes, PreInv

LEMMA EndMacroStep ==
    ASSUME PreInv, files # <<>>, NEW l \in Lines, EndMacro(l)
    PROVE  Goes
<1>. DEFINE f == [Top EXCEPT !.inMacro = FALSE, !.cur = NoMacro]
<1>1. Top \in Files /\ Top \in FileType
  BY TopType
<1>2. Continue(f) /\ UNCHANGED <<phase, command, source, once, text, included, expanded>>
      /\ macros' = <<Top.cur>> \o macros
  BY Zenon DEF EndMacro
<1>3. NoMacro \in MacroType
  <2>1. "" \in Names
    BY TextsAssumption
  <2>2. <<>> \in Seq(Names) /\ <<>> \in Seq(Tokens)
    OBVIOUS
  <2>. QED  BY <2>1, <2>2, Zenon DEF NoMacro, MacroType
<1>4. f \in Files
  BY <1>1, <1>3, MacroChange, Zenon
<1>5. Top.cur \in MacroType
  BY <1>1 DEF FileType
<1>. HIDE DEF f
<1>6. macros' \in Seq(MacroType)
  BY <1>2, <1>5, ConcatProperties DEF PreInv
<1>. QED  BY <1>2, <1>4, <1>6, ContinueType DEF Goes, PreInv

LEMMA MacroBodyStep ==
    ASSUME PreInv, files # <<>>, NEW l \in Lines, MacroBody(l)
    PROVE  Goes
<1>. DEFINE f == [Top EXCEPT !.cur.body = @ \o l.toks \o <<NewLine>>]
            body == Top.cur.body \o l.toks \o <<NewLine>>
            m == [Top.cur EXCEPT !.body = body]
<1>1. Top \in Files /\ Top \in FileType
  BY TopType
<1>2. Continue(f) /\ UNCHANGED <<phase, command, source, macros, once, text, included, expanded>>
  BY Zenon DEF MacroBody
<1>3. Top.cur \in MacroType
  BY <1>1 DEF FileType
<1>4. NewLine \in Tokens
  <2>1. "" \in Names
    BY TextsAssumption
  <2>2. 0 \in Int32Values
    BY SMT DEF Int32Values
  <2>. QED  BY <2>1, <2>2, Zenon DEF NewLine, Token, Tokens
<1>5. body \in Seq(Tokens)
  <2>1. Top.cur.body \in Seq(Tokens) /\ l.toks \in Seq(Tokens) /\ <<NewLine>> \in Seq(Tokens)
    BY <1>3, <1>4, LineFields DEF MacroType, Line
  <2>. QED  BY <2>1, ConcatProperties
<1>6. m \in MacroType
  <2>. HIDE DEF body
  <2>. QED  BY <1>3, <1>5, Zenon DEF MacroType
<1>7. f = [Top EXCEPT !.cur = m]
  BY Zenon
<1>. HIDE DEF f, m
<1>8. [Top EXCEPT !.cur = m] \in FileType
      /\ [Top EXCEPT !.cur = m].cond = Top.cond /\ [Top EXCEPT !.cur = m].active = Top.active
  BY <1>1, <1>6, Zenon DEF FileType
<1>9. f \in Files
  BY <1>1, <1>7, <1>8, Zenon DEF Files
<1>. QED  BY <1>2, <1>9, ContinueType DEF Goes, PreInv

LEMMA TextStep ==
    ASSUME PreInv, files # <<>>, NEW l \in Lines, Text(l)
    PROVE  Goes
<1>. DEFINE toks == IF l.k = "endmacro" THEN <<Word("endmacro")>> ELSE l.toks
            f == [Top EXCEPT !.out = TRUE]
<1>1. f \in Files
  BY TopType, OutChange
<1>2. Continue(f) /\ UNCHANGED <<phase, command, source, macros, once, included, expanded>>
      /\ text' = text \o SplitLines(Expand(toks))
  BY Zenon DEF Text
<1>3. toks \in Line
  <2>1. Word("endmacro") \in Tokens
    <3>1. "endmacro" \in Names
      BY TextsAssumption
    <3>2. 0 \in Int32Values
      BY SMT DEF Int32Values
    <3>. QED  BY <3>1, <3>2, Zenon DEF Word, Token, Tokens
  <2>2. <<Word("endmacro")>> \in Line
    BY <2>1 DEF Line
  <2>. QED  BY <2>2, LineFields
<1>. HIDE DEF toks, f
<1>4. SplitLines(Expand(toks)) \in Seq(Line)
  BY <1>3, ExpandType, SplitType DEF PreInv
<1>5. text' \in Seq(Line)
  BY <1>2, <1>4, ConcatProperties DEF PreInv
<1>. QED  BY <1>1, <1>2, <1>5, ContinueType DEF Goes, PreInv

LEMMA SkipStep ==
    ASSUME PreInv, files # <<>>, NEW l \in Lines, Skip(l)
    PROVE  Goes
BY TopType, ContinueType DEF Skip, Goes, PreInv

\* How a compilation ends early.
Stops == PreInv' /\ phase' = "failed" /\ files' = <<>>

LEMMA FreedType ==
    ASSUME PreInv, Freed, UNCHANGED <<command, source, read, once>>
    PROVE  PreInv' /\ files' = <<>>
<1>1. <<>> \in Seq(Files) /\ <<>> \in Seq(MacroType) /\ <<>> \in Seq(Line) /\ Len(<<>>) = 0
  OBVIOUS
<1>2. 0 =< StackMax
  BY LimitsAssumption
<1>. QED  BY <1>1, <1>2 DEF Freed, PreInv

LEMMA ReadLineStep ==
    ASSUME PreInv, files # <<>>, ReadLine
    PROVE  Goes \/ Stops
<1>1. PICK l \in NextLines :
         \/ Reject(l)
         \/ /\ ~Fails(l)
            /\ \/ OpenConditional(l) \/ ChangeBranch(l) \/ CloseConditional(l)
               \/ Include(l) \/ PragmaOnce(l) \/ Define(l) \/ Undef(l)
               \/ MacroHeader(l) \/ EndMacro(l) \/ MacroBody(l) \/ Text(l) \/ Skip(l)
  BY DEF ReadLine
<1>2. l \in Lines
  BY NextLinesType
<1>3. CASE Reject(l)
  BY <1>3, FreedType DEF Reject, Stops
<1>4. CASE ~Fails(l) /\ ~Reject(l)
  BY <1>1, <1>2, <1>4, OpenConditionalStep, ChangeBranchStep, CloseConditionalStep, IncludeStep,
     PragmaOnceStep, DefineStep, UndefStep, MacroHeaderStep, EndMacroStep, MacroBodyStep,
     TextStep, SkipStep
<1>. QED  BY <1>1, <1>3, <1>4

LEMMA EndOfHeaderStep ==
    ASSUME PreInv, files # <<>>, EndOfHeader
    PROVE  Goes \/ Stops
<1>1. CASE Top.cond # <<>>
  BY <1>1, FreedType DEF EndOfHeader, Stops
<1>2. CASE ~(Top.cond # <<>>)
  <2>1. files' = Front(files) /\ Len(files) # 1
        /\ UNCHANGED <<phase, macros, text, included, expanded, command, source, read, once>>
    BY <1>2 DEF EndOfHeader, InSource
  <2>2. files \in Seq(Files) /\ Len(files) =< StackMax /\ StackMax \in Nat
    BY LimitsAssumption DEF PreInv
  <2>3. Len(files) - 1 \in Nat /\ files' \in Seq(Files) /\ Len(files') = Len(files) - 1
    BY <2>1, <2>2, FrontProperties
  <2>4. files' # <<>> /\ Len(files') =< StackMax
    BY <2>1, <2>2, <2>3
  <2>. QED  BY <2>1, <2>3, <2>4 DEF Goes, PreInv
<1>. QED  BY <1>1, <1>2

-----------------------------------------------------------------------------
(* What the compiler writes is a sequence of bytes.                        *)

Byte == 0 .. 255

\* n bytes.
Bytes(s, n) == s \in Seq(Byte) /\ Len(s) = n

LEMMA JoinBytes ==
    ASSUME NEW s, NEW t, NEW m \in Nat, NEW n \in Nat, Bytes(s, m), Bytes(t, n)
    PROVE  Bytes(s \o t, m + n)
<1>1. s \o t \in Seq(Byte) /\ Len(s \o t) = Len(s) + Len(t)
  <2>1. s \in Seq(Byte) /\ t \in Seq(Byte)
    BY DEF Bytes
  <2>. HIDE DEF Byte
  <2>. QED  BY <2>1, ConcatProperties
<1>. QED  BY <1>1 DEF Bytes

LEMMA W16Type ==
    ASSUME NEW v \in Int
    PROVE  Bytes(W16(v), 2)
<1>1. v % 256 \in Byte /\ (v \div 256) % 256 \in Byte
  BY DEF Byte
<1>. QED  BY <1>1 DEF W16, Bytes

LEMMA W32Type ==
    ASSUME NEW v \in Int
    PROVE  Bytes(W32(v), 4)
<1>. DEFINE t == <<(v \div 65536) % 256, (v \div 16777216) % 256>>
<1>1. (v \div 65536) % 256 \in Byte /\ (v \div 16777216) % 256 \in Byte
  BY DEF Byte
<1>2. Bytes(t, 2)
  BY <1>1 DEF Bytes
<1>. HIDE DEF t
<1>3. Bytes(W16(v) \o t, 2 + 2)
  BY <1>2, W16Type, JoinBytes
<1>4. W32(v) = W16(v) \o t
  BY DEF W32, t
<1>. QED  BY <1>3, <1>4

LEMMA HeaderType ==
    ASSUME NEW size \in Int, NEW lineCount \in Int, NEW labelCount \in Int
    PROVE  Bytes(Header(size, lineCount, labelCount), 18)
<1>. DEFINE a == <<83, 67, 77, 76>>
<1>1. Bytes(a, 4)
  BY DEF Bytes, Byte
<1>2. Bytes(W16(5), 2)
  BY W16Type
<1>3. Bytes(W32(size), 4) /\ Bytes(W32(lineCount), 4) /\ Bytes(W32(labelCount), 4)
  BY W32Type
<1>. HIDE DEF a
<1>4. Bytes(a \o W16(5), 6)
  BY <1>1, <1>2, JoinBytes
<1>5. Bytes((a \o W16(5)) \o W32(size), 10)
  BY <1>3, <1>4, JoinBytes
<1>6. Bytes(((a \o W16(5)) \o W32(size)) \o W32(lineCount), 14)
  BY <1>3, <1>5, JoinBytes
<1>7. Bytes((((a \o W16(5)) \o W32(size)) \o W32(lineCount)) \o W32(labelCount), 18)
  BY <1>3, <1>6, JoinBytes
<1>8. Header(size, lineCount, labelCount) = (((a \o W16(5)) \o W32(size)) \o W32(lineCount)) \o W32(labelCount)
  BY Zenon DEF Header, a
<1>. QED  BY <1>7, <1>8

LEMMA BytesAreSeq == \A s, n : Bytes(s, n) => s \in Seq(Byte)
BY DEF Bytes

LEMMA TextMaxFits == TextMax \in Int /\ TextMax <= 65535
BY SMTT(30), TextMaxAssumption

LEMMA SpellingType ==
    ASSUME NEW s \in Names
    PROVE  Spelling(s) \in Seq(Byte) /\ Len(Spelling(s)) \in Nat
<1>1. Spelling(s) \in Seq(Byte)
  BY Zenon, SpellingAssumption DEF Byte
<1>2. \A S : \A t \in Seq(S) : Len(t) \in Nat
  OBVIOUS
<1>. QED  BY <1>1, <1>2, Zenon

(* What is written of an operand is as long as the first pass takes it.    *)
LEMMA OperandBytesType ==
    ASSUME NEW o \in OperandType, NEW address,
           o.type = AddressTag => address[o.s] \in Int
    PROVE  OperandSize(o) \in Nat /\ Bytes(OperandBytes(o, address), OperandSize(o))
<1>. DEFINE n == Len(Spelling(o.s))
            v == IF o.type = AddressTag THEN address[o.s] ELSE o.v
            long == W16(n) \o Spelling(o.s)
<1>1. o.type \in 1 .. 5 /\ o.s \in Names /\ o.v \in Int
  BY Int32ValuesAreInt, Zenon DEF OperandType
<1>2. Bytes(<<o.type>>, 1)
  BY <1>1 DEF Bytes, Byte
<1>3. n \in Nat /\ Bytes(Spelling(o.s), n)
  BY <1>1, SpellingType DEF Bytes
<1>4. Bytes(long, 2 + n)
  BY <1>3, W16Type, JoinBytes
<1>5. Bytes(W32(v), 4)
  BY <1>1, W32Type
<1>6. OperandBytes(o, address) = <<o.type>> \o (IF o.type \in TextOperands THEN long ELSE W32(v))
  BY Zenon DEF OperandBytes
<1>7. OperandSize(o) = IF o.type \in WordOperands THEN 5 ELSE 3 + n
  BY Zenon DEF OperandSize
<1>8. o.type \in TextOperands <=> ~(o.type \in WordOperands)
  BY <1>1 DEF TextOperands, WordOperands, StringTag, VarTag, IntTag, AddressTag, FloatTag
<1>. HIDE DEF n, v, long
<1>9. CASE o.type \in TextOperands
  <2>1. Bytes(<<o.type>> \o long, 1 + (2 + n))
    BY <1>2, <1>3, <1>4, JoinBytes
  <2>2. OperandSize(o) = 1 + (2 + n) /\ 1 + (2 + n) \in Nat
    BY <1>3, <1>7, <1>8, <1>9
  <2>3. OperandBytes(o, address) = <<o.type>> \o long
    BY <1>6, <1>9, Zenon
  <2>. QED  BY <2>1, <2>2, <2>3, Zenon
<1>10. CASE o.type \notin TextOperands
  <2>1. Bytes(<<o.type>> \o W32(v), 5)
    BY <1>2, <1>5, JoinBytes
  <2>2. OperandSize(o) = 5
    BY <1>7, <1>8, <1>10
  <2>3. OperandBytes(o, address) = <<o.type>> \o W32(v)
    BY <1>6, <1>10, Zenon
  <2>. QED  BY <2>1, <2>2, <2>3
<1>. QED  BY <1>9, <1>10

\* A statement the parser has accepted.
Accepted ==
    {st \in StatementType :
        st.op \in 0 .. 255 /\ Len(st.operands) <= 8 /\ Understood(st.op, Len(st.operands))}

(* The first pass takes a statement to be as long as the second writes it. *)
LEMMA StmtBytesType ==
    ASSUME NEW st \in Accepted, NEW address,
           \A i \in DOMAIN st.operands :
              st.operands[i].type = AddressTag => address[st.operands[i].s] \in Int
    PROVE  Bytes(StmtBytes(st, address), StmtSize(st))
<1>. DEFINE n == Len(st.operands)
            parts == [i \in 1 .. n |-> OperandBytes(st.operands[i], address)]
            sizes == [i \in 1 .. n |-> OperandSize(st.operands[i])]
<1>1. st.operands \in Seq(OperandType) /\ n \in Byte /\ st.op \in Byte
  <2>1. st.operands \in Seq(OperandType) /\ st.op \in 0 .. 255 /\ n <= 8
    BY DEF Accepted, StatementType
  <2>2. n \in Nat
    BY <2>1
  <2>. HIDE DEF n
  <2>. QED  BY <2>1, <2>2 DEF Byte
<1>2. \A i \in 1 .. n : st.operands[i] \in OperandType /\ i \in DOMAIN st.operands
  BY <1>1
<1>3. ASSUME NEW i \in 1 .. n
      PROVE  /\ OperandBytes(st.operands[i], address) \in Seq(Byte)
             /\ Len(OperandBytes(st.operands[i], address)) = OperandSize(st.operands[i])
             /\ OperandSize(st.operands[i]) \in Nat
  <2>1. /\ OperandSize(st.operands[i]) \in Nat
        /\ Bytes(OperandBytes(st.operands[i], address), OperandSize(st.operands[i]))
    BY <1>2, OperandBytesType
  <2>. QED  BY <2>1 DEF Bytes
<1>4. parts \in Seq(Seq(Byte)) /\ sizes \in Seq(Nat) /\ sizes \in Seq(Int)
      /\ Len(parts) = n /\ Len(sizes) = n /\ \A i \in 1 .. n : sizes[i] = Len(parts[i])
  <2>1. n \in Nat
    BY <1>1
  <2>. QED  BY <1>3, <2>1
<1>. HIDE DEF parts, sizes
<1>5. FlattenSeq(parts) \in Seq(Byte) /\ Len(FlattenSeq(parts)) = SumSeq(sizes) /\ SumSeq(sizes) \in Nat
  BY <1>4, FlattenType, FlattenLength, SumNat
<1>6. Bytes(<<st.op, n>>, 2)
  BY <1>1 DEF Bytes
<1>7. StmtBytes(st, address) = IF IsLabel(st) THEN <<>> ELSE <<st.op, n>> \o FlattenSeq(parts)
  BY Zenon DEF StmtBytes, parts
<1>8. StmtSize(st) = IF IsLabel(st) THEN 0 ELSE 2 + SumSeq(sizes)
  BY Zenon DEF StmtSize, sizes
<1>. HIDE DEF n
<1>9. Bytes(<<st.op, n>> \o FlattenSeq(parts), 2 + SumSeq(sizes))
  <2>1. Bytes(FlattenSeq(parts), SumSeq(sizes))
    BY <1>5 DEF Bytes
  <2>. QED  BY <1>5, <1>6, <2>1, JoinBytes
<1>10. Bytes(<<>>, 0)
  BY DEF Bytes
<1>. QED  BY <1>7, <1>8, <1>9, <1>10, Zenon

LEMMA LabelBytesType ==
    ASSUME NEW name \in Names, NEW addr \in Int
    PROVE  Bytes(LabelBytes(name, addr), 6 + Len(Spelling(name)))
<1>1. Len(Spelling(name)) \in Nat /\ Bytes(Spelling(name), Len(Spelling(name)))
  BY SpellingType DEF Bytes
<1>2. Bytes(W32(addr) \o W16(Len(Spelling(name))), 6)
  BY <1>1, W32Type, W16Type, JoinBytes
<1>. QED  BY <1>1, <1>2, JoinBytes DEF LabelBytes

(* The sizes and addresses of the first pass are natural numbers.          *)
LEMMA StmtSizeType == ASSUME NEW st \in StatementType PROVE StmtSize(st) \in Nat
<1>. DEFINE n == Len(st.operands)
            sizes == [i \in 1 .. n |-> OperandSize(st.operands[i])]
<1>1. st.operands \in Seq(OperandType) /\ n \in Nat
  BY DEF StatementType
<1>2. \A i \in 1 .. n : st.operands[i].s \in Names
  <2>1. \A o \in OperandType : o.s \in Names
    BY DEF OperandType
  <2>2. \A i \in 1 .. n : st.operands[i] \in OperandType
    BY <1>1
  <2>. QED  BY <2>1, <2>2
<1>3. \A i \in 1 .. n : OperandSize(st.operands[i]) \in Nat
  BY <1>2, SpellingType DEF OperandSize
<1>4. sizes \in Seq(Nat)
  BY <1>1, <1>3
<1>. HIDE DEF sizes
<1>5. SumSeq(sizes) \in Nat
  BY <1>4, SumNat
<1>6. StmtSize(st) = IF IsLabel(st) THEN 0 ELSE 2 + SumSeq(sizes)
  BY Zenon DEF StmtSize, sizes
<1>. QED  BY <1>5, <1>6

LEMMA AddressType ==
    ASSUME program \in Seq(StatementType), NEW i \in Int, i - 1 =< Len(program)
    PROVE  AddressOf(i) \in Int
<1>. DEFINE sizes == [j \in 1 .. i - 1 |-> StmtSize(program[j])]
<1>1. \A j \in 1 .. i - 1 : program[j] \in StatementType
  OBVIOUS
<1>2. \A j \in 1 .. i - 1 : StmtSize(program[j]) \in Int
  BY <1>1, StmtSizeType
<1>3. sizes \in Seq(Int)
  <2>1. CASE i - 1 \in Nat
    BY <1>2, <2>1
  <2>2. CASE i - 1 \notin Nat
    <3>1. 1 .. i - 1 = {}
      BY <2>2
    <3>2. sizes = <<>>
      BY <3>1
    <3>. QED  BY <3>2
  <2>. QED  BY <2>1, <2>2
<1>4. AddressOf(i) = SumSeq(sizes)
  BY Zenon DEF AddressOf
<1>. HIDE DEF sizes
<1>. QED  BY <1>3, <1>4, SumType

-----------------------------------------------------------------------------
(* The invariant of the compilation.                                       *)

ToolInv ==
    /\ phase \in {"reading", "layout", "code", "labels", "done", "failed"}
    /\ PreInv
    /\ phase = "reading" <=> files # <<>>
    /\ program \in Seq(Accepted) /\ written \in 0 .. Len(program)
    /\ phase \in {"reading", "layout", "failed"} => output \in {Previous, Absent}
    /\ phase \in {"code", "labels", "done"} => output \in Seq(Byte)

LEMMA LabelAddressType ==
    ASSUME program \in Seq(Accepted)
    PROVE  \A name \in DOMAIN LabelAddress : LabelAddress[name] \in Int
<1>. SUFFICES ASSUME NEW name \in DOMAIN LabelAddress PROVE LabelAddress[name] \in Int
  OBVIOUS
<1>. DEFINE I == {i \in 1 .. Len(program) : program[i].label = name}
<1>1. Labelled(name) = IF I # {} THEN Min(I) ELSE 0
  BY Zenon DEF Labelled, SelectInSeq
<1>2. I # {} => Min(I) \in 1 .. Len(program)
  <2>. I \in SUBSET Nat /\ I \in SUBSET 1 .. Len(program)
    OBVIOUS
  <2>. HIDE DEF I
  <2>. QED  BY MinIsLowest
<1>. HIDE DEF I
<1>3. Labelled(name) \in Int /\ Labelled(name) - 1 =< Len(program)
  BY <1>1, <1>2
<1>4. program \in Seq(StatementType)
  BY DEF Accepted
<1>5. AddressOf(Labelled(name)) \in Int
  BY <1>3, <1>4, AddressType
<1>6. LabelAddress[name] = AddressOf(Labelled(name))
  BY DEF LabelAddress
<1>. QED  BY <1>5, <1>6

LEMMA LabelsType ==
    ASSUME program \in Seq(Accepted)
    PROVE  /\ Labels \in Seq(Accepted) /\ Len(Labels) =< Len(program)
           /\ Code \in Seq(Accepted)
           /\ \A i \in 1 .. Len(Labels) : /\ Labels[i].label \in Names
                                          /\ Labels[i].label \in DOMAIN LabelAddress
<1>1. Labels \in Seq(Accepted) /\ Code \in Seq(Accepted) /\ Len(Labels) =< Len(program)
  BY SelectType, SelectLength DEF Labels, Code
<1>2. \A st \in Accepted : st.label \in Names
  BY DEF Accepted, StatementType
<1>3. DOMAIN LabelAddress = {Labels[i].label : i \in DOMAIN Labels}
  BY DEF LabelAddress
<1>4. \A i \in 1 .. Len(Labels) : Labels[i] \in Accepted /\ i \in DOMAIN Labels
  BY <1>1
<1>. QED  BY <1>1, <1>2, <1>3, <1>4

LineRow == [pc : Int, line : Int]

LEMMA LineTableType ==
    ASSUME program \in Seq(Accepted)
    PROVE  LineTable \in Seq(LineRow)
<1>. DEFINE rows == [i \in 1 .. Len(program) |-> [pc |-> AddressOf(i), line |-> program[i].line]]
<1>1. program \in Seq(StatementType) /\ Len(program) \in Nat
  BY DEF Accepted
<1>2. \A st \in StatementType : st.line \in Int
  BY DEF StatementType
<1>3. \A i \in 1 .. Len(program) : program[i].line \in Int
  BY <1>1, <1>2
<1>4. \A i \in 1 .. Len(program) : AddressOf(i) \in Int
  BY <1>1, AddressType
<1>5. rows \in Seq(LineRow)
  BY <1>1, <1>3, <1>4 DEF LineRow
<1>6. LineTable = SelectAt(rows, CodePlaces)
  BY Zenon DEF LineTable
<1>. HIDE DEF rows
<1>. QED  BY <1>5, <1>6, SelectType

(* The end of a source: the next one is opened, or the layout begins.      *)
LEMMA EndOfSourceStep ==
    ASSUME ToolInv, EndOfSource
    PROVE  ToolInv'
<1>. DEFINE statements == Parsed(text)
            ok == Top.cond = <<>> /\ \A i \in DOMAIN statements : statements[i].ok
<1>1. /\ phase = "reading" /\ PreInv /\ program \in Seq(Accepted) /\ written \in 0 .. Len(program)
      /\ output' \in {Previous, Absent} /\ written' = written
  BY DEF ToolInv, EndOfSource
<1>. DEFINE Passes == /\ ok
                       /\ program' = program \o statements
                       /\ IF source < Len(command) THEN NextSource /\ UNCHANGED phase
                          ELSE phase' = "layout" /\ Freed /\ UNCHANGED <<command, source, read, once>>
            Ends == phase' = "failed" /\ Freed /\ UNCHANGED <<command, source, read, once, program>>
<1>2. Passes \/ Ends
  BY Zenon DEF EndOfSource
<1>3. CASE Passes
  <2>1. statements \in Seq({st \in StatementType : Fits(st)})
    BY <1>1, ParsedType DEF PreInv
  <2>2. statements \in Seq(Accepted)
    <3>. DEFINE S == {st \in StatementType : Fits(st)}
    <3>1. \A i \in 1 .. Len(statements) : statements[i] \in S /\ i \in DOMAIN statements
      <4>. HIDE DEF S, statements
      <4>. QED  BY <2>1 DEF S
    <3>2. \A i \in 1 .. Len(statements) : statements[i].ok
      BY <1>3, <3>1
    <3>3. \A i \in 1 .. Len(statements) : statements[i] \in Accepted
      BY <3>1, <3>2 DEF Accepted, Fits
    <3>. HIDE DEF S, statements
    <3>. QED  BY <2>1, <3>3
  <2>. HIDE DEF statements
  <2>3. program' \in Seq(Accepted) /\ Len(program') = Len(program) + Len(statements)
    BY <1>1, <1>2, <1>3, <2>2, ConcatProperties
  <2>4. written' \in 0 .. Len(program')
    <3>1. Len(statements) \in Nat /\ Len(program) \in Nat
      BY <1>1, <2>2
    <3>. QED  BY <1>1, <2>3, <3>1
  <2>. HIDE DEF ok
  <2>5. CASE source < Len(command)
    <3>1. NextSource /\ phase' = "reading"
      BY <1>1, <1>2, <1>3, <2>5
    <3>2. command \in Seq(Names) /\ source \in 1 .. Len(command)
      BY <1>1, TextsAssumption DEF PreInv
    <3>3. source + 1 \in 1 .. Len(command) /\ command[source + 1] \in Names
      BY <2>5, <3>2
    <3>4. Opened(command[source + 1]) \in Files
      BY <3>3, OpenedFile
    <3>5. files' \in Seq(Files) /\ files' # <<>> /\ Len(files') = 1
      BY <3>1, <3>4 DEF NextSource
    <3>6. Len(files') =< StackMax
      BY <3>5, LimitsAssumption
    <3>7. macros' \in Seq(MacroType) /\ text' \in Seq(Line) /\ included' = {} /\ expanded' = {}
      BY <3>1 DEF NextSource
    <3>8. command' = command /\ source' = source + 1 /\ read' = read /\ once' = once
      BY <3>1 DEF NextSource
    <3>9. PreInv'
      BY <1>1, <3>3, <3>5, <3>6, <3>7, <3>8 DEF PreInv
    <3>. QED  BY <1>1, <2>3, <2>4, <3>1, <3>5, <3>9 DEF ToolInv
  <2>6. CASE ~(source < Len(command))
    <3>1. phase' = "layout" /\ PreInv' /\ files' = <<>>
      BY <1>1, <1>2, <1>3, <2>6, FreedType
    <3>. QED  BY <1>1, <2>3, <2>4, <3>1 DEF ToolInv
  <2>. QED  BY <2>5, <2>6
<1>4. CASE Ends
  <2>1. phase' = "failed" /\ PreInv' /\ files' = <<>> /\ program' = program
    BY <1>1, <1>4, FreedType
  <2>. QED  BY <1>1, <2>1 DEF ToolInv
<1>. QED  BY <1>2, <1>3, <1>4

LEMMA PreprocessStep ==
    ASSUME ToolInv, Preprocess
    PROVE  ToolInv'
<1>1. PreInv /\ files # <<>> /\ phase = "reading" /\ UNCHANGED <<program, output, written>>
  BY DEF ToolInv, Preprocess, ReadLine, EndOfHeader
<1>2. Goes \/ Stops
  BY <1>1, ReadLineStep, EndOfHeaderStep DEF Preprocess
<1>. QED  BY <1>1, <1>2 DEF ToolInv, Goes, Stops

\* The steps of the compiler leave the preprocessor as it ended.
Compiling ==
    UNCHANGED <<command, source, read, files, macros, once, text, included, expanded, program>>

LEMMA CompilingType ==
    ASSUME ToolInv, Compiling, phase # "reading"
    PROVE  PreInv' /\ files' = <<>> /\ program' \in Seq(Accepted) /\ Len(program') = Len(program)
BY DEF ToolInv, Compiling, PreInv

LEMMA LayoutStep ==
    ASSUME ToolInv, Layout
    PROVE  ToolInv'
<1>1. Compiling /\ written' = written /\ phase = "layout"
  BY DEF Layout, Compiling
<1>2. PreInv' /\ files' = <<>> /\ program' \in Seq(Accepted) /\ Len(program') = Len(program)
      /\ program \in Seq(Accepted)
  BY <1>1, CompilingType DEF ToolInv
<1>3. CASE phase' = "failed"
  BY <1>1, <1>2, <1>3 DEF ToolInv, Layout
<1>4. CASE phase' # "failed"
  <2>1. phase' = "code" /\ output' = Header(CodeSize, Len(Code), Len(Labels))
    BY <1>4 DEF Layout
  <2>2. CodeSize \in Int
    <3>1. program \in Seq(StatementType) /\ Len(program) + 1 \in Int /\ Len(program) + 1 - 1 =< Len(program)
      BY <1>2 DEF Accepted
    <3>. QED  BY <3>1, AddressType DEF CodeSize
  <2>3. Len(Code) \in Int /\ Len(Labels) \in Int
    BY <1>2, LabelsType
  <2>4. output' \in Seq(Byte)
    BY <2>1, <2>2, <2>3, HeaderType, BytesAreSeq
  <2>. QED  BY <1>1, <1>2, <2>1, <2>4 DEF ToolInv
<1>. QED  BY <1>3, <1>4

LEMMA RemovedOutput ==
    ASSUME ToolInv, Compiling, phase # "reading", RemoveOutput
    PROVE  ToolInv'
BY CompilingType DEF ToolInv, RemoveOutput

LEMMA WriteStatementStep ==
    ASSUME ToolInv, WriteStatement
    PROVE  ToolInv'
<1>. DEFINE st == program[written + 1]
<1>1. Compiling /\ phase = "code" /\ written < Len(program)
  BY DEF WriteStatement, Compiling
<1>2. PreInv' /\ files' = <<>> /\ program' \in Seq(Accepted) /\ Len(program') = Len(program)
      /\ program \in Seq(Accepted) /\ written \in 0 .. Len(program) /\ output \in Seq(Byte)
  BY <1>1, CompilingType DEF ToolInv
<1>3. st \in Accepted
  BY <1>1, <1>2
<1>. HIDE DEF st
<1>4. CASE \E i \in DOMAIN st.operands : Unwritable(st.operands[i])
  <2>1. RemoveOutput
    BY <1>4 DEF WriteStatement, st
  <2>. QED  BY <1>1, <2>1, RemovedOutput
<1>5. CASE ~(\E i \in DOMAIN st.operands : Unwritable(st.operands[i]))
  <2>1. output' = output \o StmtBytes(st, LabelAddress) /\ written' = written + 1 /\ phase' = phase
    BY <1>5 DEF WriteStatement, st
  <2>2. ASSUME NEW i \in DOMAIN st.operands, st.operands[i].type = AddressTag
        PROVE  LabelAddress[st.operands[i].s] \in Int
    <3>1. st.operands[i].s \in DOMAIN LabelAddress
      BY <1>5, <2>2 DEF Unwritable
    <3>. QED  BY <1>2, <3>1, LabelAddressType
  <2>3. StmtBytes(st, LabelAddress) \in Seq(Byte)
    BY <1>3, <2>2, StmtBytesType, BytesAreSeq
  <2>4. output' \in Seq(Byte)
    BY <1>2, <2>1, <2>3, ConcatProperties
  <2>5. written' \in 0 .. Len(program')
    BY <1>1, <1>2, <2>1
  <2>. QED  BY <1>1, <1>2, <2>1, <2>4, <2>5 DEF ToolInv
<1>. QED  BY <1>4, <1>5

LEMMA WriteLinesStep ==
    ASSUME ToolInv, WriteLines
    PROVE  ToolInv'
<1>. DEFINE rows == [k \in 1 .. Len(LineTable) |-> W32(LineTable[k].pc) \o W32(LineTable[k].line)]
<1>1. Compiling /\ phase = "code" /\ written' = 0 /\ phase' = "labels"
  BY DEF WriteLines, Compiling
<1>2. PreInv' /\ files' = <<>> /\ program' \in Seq(Accepted) /\ Len(program') = Len(program)
      /\ program \in Seq(Accepted) /\ output \in Seq(Byte)
  BY <1>1, CompilingType DEF ToolInv
<1>3. output' = output \o FlattenSeq(rows)
  BY Zenon DEF WriteLines
<1>4. LineTable \in Seq(LineRow)
  BY <1>2, LineTableType
<1>5. \A k \in 1 .. Len(LineTable) : LineTable[k].pc \in Int /\ LineTable[k].line \in Int
  <2>1. \A row \in LineRow : row.pc \in Int /\ row.line \in Int
    BY DEF LineRow
  <2>2. \A k \in 1 .. Len(LineTable) : LineTable[k] \in LineRow
    BY <1>4
  <2>. QED  BY <2>1, <2>2
<1>6. \A k \in 1 .. Len(LineTable) : W32(LineTable[k].pc) \o W32(LineTable[k].line) \in Seq(Byte)
  BY <1>5, W32Type, BytesAreSeq, ConcatProperties
<1>7. rows \in Seq(Seq(Byte))
  BY <1>4, <1>6
<1>. HIDE DEF rows
<1>8. output' \in Seq(Byte)
  BY <1>2, <1>3, <1>7, FlattenType, ConcatProperties
<1>9. written' \in 0 .. Len(program')
  BY <1>1, <1>2
<1>. QED  BY <1>1, <1>2, <1>8, <1>9 DEF ToolInv

LEMMA WriteLabelStep ==
    ASSUME ToolInv, WriteLabel
    PROVE  ToolInv'
<1>. DEFINE name == Labels[written + 1].label
<1>1. Compiling /\ phase = "labels" /\ written < Len(Labels)
  BY DEF WriteLabel, Compiling
<1>2. PreInv' /\ files' = <<>> /\ program' \in Seq(Accepted) /\ Len(program') = Len(program)
      /\ program \in Seq(Accepted) /\ written \in 0 .. Len(program) /\ output \in Seq(Byte)
  BY <1>1, CompilingType DEF ToolInv
<1>3. name \in Names /\ name \in DOMAIN LabelAddress /\ Len(Labels) =< Len(program)
      /\ Len(Labels) \in Nat
  BY <1>1, <1>2, LabelsType
<1>. HIDE DEF name
<1>4. CASE Len(Spelling(name)) > TextMax
  <2>1. RemoveOutput
    BY <1>4 DEF WriteLabel, name
  <2>. QED  BY <1>1, <2>1, RemovedOutput
<1>5. CASE ~(Len(Spelling(name)) > TextMax)
  <2>1. output' = output \o LabelBytes(name, LabelAddress[name]) /\ written' = written + 1
        /\ phase' = phase
    BY <1>5 DEF WriteLabel, name
  <2>2. LabelBytes(name, LabelAddress[name]) \in Seq(Byte)
    BY <1>2, <1>3, LabelAddressType, LabelBytesType, BytesAreSeq
  <2>3. output' \in Seq(Byte)
    BY <1>2, <2>1, <2>2, ConcatProperties
  <2>4. written' \in 0 .. Len(program')
    BY <1>1, <1>2, <1>3, <2>1
  <2>. QED  BY <1>1, <1>2, <2>1, <2>3, <2>4 DEF ToolInv
<1>. QED  BY <1>4, <1>5

LEMMA CloseStep ==
    ASSUME ToolInv, Close
    PROVE  ToolInv'
<1>1. Compiling /\ phase = "labels" /\ phase' = "done" /\ UNCHANGED <<output, written>>
  BY DEF Close, Compiling
<1>. QED  BY <1>1, CompilingType DEF ToolInv

LEMMA ToolStart == Init => ToolInv
<1>. SUFFICES ASSUME Init PROVE ToolInv
  OBVIOUS
<1>1. command \in Seq(Names) /\ command # <<>>
  BY TextsAssumption DEF Init, PreInit
<1>2. 1 \in 1 .. Len(command) /\ command[1] \in Names
  BY <1>1
<1>3. Opened(command[1]) \in Files
  BY <1>2, OpenedFile
<1>4. files \in Seq(Files) /\ Len(files) = 1 /\ files # <<>>
  BY <1>3 DEF Init, PreInit
<1>5. 1 =< StackMax /\ 0 \in 0 .. MaxLines /\ 0 =< OnceMax
  BY LimitsAssumption
<1>6. PreInv
  BY <1>2, <1>4, <1>5 DEF Init, PreInit, PreInv
<1>. QED  BY <1>4, <1>6 DEF Init, PreInit, ToolInv

LEMMA ToolStep == ToolInv /\ [Next]_toolVars => ToolInv'
<1>. SUFFICES ASSUME ToolInv, [Next]_toolVars PROVE ToolInv'
  OBVIOUS
<1>1. CASE UNCHANGED toolVars
  BY <1>1 DEF toolVars, ToolInv, PreInv
<1>2. CASE Next
  BY <1>2, PreprocessStep, EndOfSourceStep, LayoutStep, WriteStatementStep, WriteLinesStep,
     WriteLabelStep, CloseStep DEF Next
<1>. QED  BY <1>1, <1>2

LEMMA ToolInvariant == Spec => []ToolInv
BY ToolStart, ToolStep, PTL DEF Spec

-----------------------------------------------------------------------------

(* The compiler's state has its type: the conditionals, the paths of       *)
(* #pragma once and the activations stay within their tables, what is laid *)
(* out has operand counts that fit in the byte they are written in, and    *)
(* the output is what stood there, nothing, or a sequence of bytes.        *)
THEOREM ToolTypeCorrect == Spec => []ToolTypeOK
<1>1. ToolInv => ToolTypeOK
  <2>. SUFFICES ASSUME ToolInv PROVE ToolTypeOK
    OBVIOUS
  <2>1. PreInv
    BY DEF ToolInv
  <2>2. command \in Commands /\ source \in DOMAIN command /\ read \in 0 .. MaxLines
    <3>1. command \in Seq(Names)
      BY <2>1, TextsAssumption DEF PreInv
    <3>. QED  BY <2>1, <3>1 DEF PreInv
  <2>3. \A i \in DOMAIN files : Len(files[i].cond) <= CondMax
    <3>1. \A i \in DOMAIN files : files[i] \in Files
      BY <2>1 DEF PreInv
    <3>. QED  BY <3>1 DEF Files
  <2>4. \A i \in DOMAIN program : Len(program[i].operands) <= 8
    <3>1. \A i \in DOMAIN program : program[i] \in Accepted
      BY DEF ToolInv
    <3>. QED  BY <3>1 DEF Accepted
  <2>5. output \in {Previous, Absent} \/ \A i \in DOMAIN output : output[i] \in 0 .. 255
    <3>1. output \in Seq(Byte) => \A i \in DOMAIN output : output[i] \in Byte
      OBVIOUS
    <3>. QED  BY <3>1 DEF ToolInv, Byte
  <2>6. (phase = "reading") = (files # <<>>)
    BY Zenon DEF ToolInv
  <2>7. Len(files) <= StackMax /\ Len(once) <= OnceMax /\ included \cup expanded \subseteq DOMAIN FileText
    BY <2>1 DEF PreInv
  <2>8. /\ phase \in {"reading", "layout", "code", "labels", "done", "failed"}
        /\ written \in 0 .. Len(program)
    BY DEF ToolInv
  <2>. QED  BY <2>2, <2>3, <2>4, <2>5, <2>6, <2>7, <2>8, Zenon DEF ToolTypeOK
<1>. QED  BY <1>1, ToolInvariant, PTL

(* Of the branches of a conditional that stands in active text exactly one *)
(* is active once a condition has held, whatever the source lines and the  *)
(* headers are, and however deep they are nested and included.             *)
THEOREM OneBranchIsSelected == Spec => []OneBranchSelected
<1>1. ToolInv => OneBranchSelected
  <2>. SUFFICES ASSUME ToolInv, NEW i \in DOMAIN files
       PROVE  LET f == files[i] IN
              /\ f.active = \A c \in DOMAIN f.cond : f.cond[c].active
              /\ \A c \in DOMAIN f.cond :
                    /\ f.cond[c].parent = \A d \in 1 .. (c - 1) : f.cond[d].active
                    /\ f.cond[c].chosen = IF f.cond[c].parent /\ f.cond[c].taken THEN 1 ELSE 0
    BY DEF OneBranchSelected
  <2>. DEFINE f == files[i]
  <2>1. f \in Files
    BY DEF ToolInv, PreInv
  <2>. HIDE DEF f
  <2>2. f \in FileType /\ Branches(f.cond, f.active) /\ f.cond \in Seq(FrameType)
        /\ f.active \in BOOLEAN /\ DOMAIN f.cond = 1 .. Len(f.cond)
    BY <2>1 DEF Files, FileType
  <2>3. f.active = \A c \in DOMAIN f.cond : f.cond[c].active
    BY <2>2, Zenon DEF Branches
  <2>4. ASSUME NEW c \in DOMAIN f.cond
        PROVE  /\ f.cond[c].parent = \A d \in 1 .. (c - 1) : f.cond[d].active
               /\ f.cond[c].chosen = IF f.cond[c].parent /\ f.cond[c].taken THEN 1 ELSE 0
    <3>1. f.cond[c] \in FrameType
      BY <2>2
    <3>2. f.cond[c].parent \in BOOLEAN
      BY <3>1 DEF FrameType
    <3>3. f.cond[c].parent <=> \A d \in 1 .. c - 1 : f.cond[d].active
      BY <2>2 DEF Branches
    <3>4. f.cond[c].parent = \A d \in 1 .. (c - 1) : f.cond[d].active
      BY <3>2, <3>3, Zenon
    <3>5. f.cond[c].chosen = IF f.cond[c].parent /\ f.cond[c].taken THEN 1 ELSE 0
      BY <2>2 DEF Branches
    <3>. QED  BY <3>4, <3>5
  <2>. QED  BY <2>3, <2>4, Zenon DEF f
<1>. QED  BY <1>1, ToolInvariant, PTL

-----------------------------------------------------------------------------
(* The decoder, on any sequence of bytes.                                  *)

ReadOperand == [type : Int, v : Int, bytes : Seq(Byte)]

\* The decoder between two operands of the instruction at pc.
Decoders(code, pc) ==
    [pc : pc + 2 .. Len(code), ok : BOOLEAN, halts : {FALSE}, op : Int, operands : Seq(ReadOperand)]

LEMMA StoppedType ==
    ASSUME NEW code, NEW pc, NEW d \in Decoders(code, pc), NEW at \in pc + 2 .. Len(code)
    PROVE  Stopped(d, at) \in Decoders(code, pc)
BY Zenon DEF Stopped, Decoders

LEMMA TakenType ==
    ASSUME NEW code, NEW pc, NEW d \in Decoders(code, pc), NEW operand \in ReadOperand, NEW n,
           d.pc + n \in pc + 2 .. Len(code)
    PROVE  Taken(d, operand, n) \in Decoders(code, pc)
<1>1. d.operands \in Seq(ReadOperand)
  BY DEF Decoders
<1>2. Append(d.operands, operand) \in Seq(ReadOperand)
  BY <1>1, AppendProperties
<1>. QED  BY <1>2, Zenon DEF Taken, Decoders

LEMMA ByteIsNat == \A b \in Byte : b \in Nat /\ b \in Int
BY DEF Byte

(* Two and four bytes make a number.                                       *)
LEMMA R16Type ==
    ASSUME NEW b, NEW at \in Int, b[at + 1] \in Byte, b[at + 2] \in Byte
    PROVE  R16(b, at) \in Nat
<1>. DEFINE x == b[at + 1]
            y == b[at + 2]
<1>1. x \in 0 .. 255 /\ y \in 0 .. 255
  BY DEF Byte
<1>2. R16(b, at) = x + 256 * y
  BY Zenon DEF R16
<1>. HIDE DEF x, y
<1>. QED  BY <1>1, <1>2

LEMMA R32Type ==
    ASSUME NEW b, NEW at \in Int, \A k \in 1 .. 4 : b[at + k] \in Byte
    PROVE  R32(b, at) \in Nat /\ Int32(b, at) \in Int
<1>. DEFINE w == R16(b, at)
            x == b[at + 3]
            y == b[at + 4]
            z == IF y > 127 THEN 256 ELSE 0
<1>1. b[at + 1] \in Byte /\ b[at + 2] \in Byte /\ b[at + 3] \in Byte /\ b[at + 4] \in Byte
  OBVIOUS
<1>2. w \in Nat
  BY <1>1, R16Type
<1>3. x \in 0 .. 255 /\ y \in 0 .. 255
  BY <1>1 DEF Byte
<1>4. R32(b, at) = w + 65536 * x + 16777216 * y
  BY DEF R32
<1>5. Int32(b, at) = w + 65536 * x + 16777216 * (y - z)
  BY DEF Int32
<1>6. z \in Int
  OBVIOUS
<1>. HIDE DEF w, x, y, z
<1>. QED  BY <1>2, <1>3, <1>4, <1>5, <1>6

(* Reading one operand does not leave the code.                            *)
LEMMA DecodeOperandType ==
    ASSUME NEW code \in Seq(Byte), NEW pc \in Nat, NEW d \in Decoders(code, pc)
    PROVE  DecodeOperand(code, d) \in Decoders(code, pc)
<1>. DEFINE at == d.pc
            left == Len(code) - at
            tag == code[at + 1]
            n == R16(code, at + 1)
            word == [type |-> tag, v |-> Int32(code, at + 1), bytes |-> <<>>]
            text_ == [type |-> tag, v |-> 0, bytes |-> SubSeq(code, at + 4, at + 3 + n)]
<1>1. at \in pc + 2 .. Len(code) /\ Len(code) \in Nat
  BY DEF Decoders
<1>2. DecodeOperand(code, d) =
         IF ~d.ok THEN d
         ELSE IF left < 1 THEN Stopped(d, at)
         ELSE IF tag \in WordOperands THEN IF left < 5 THEN Stopped(d, at + 1) ELSE Taken(d, word, 5)
         ELSE IF tag \in TextOperands THEN
              IF left < 3 THEN Stopped(d, at + 1)
              ELSE IF left < 3 + n THEN Stopped(d, at + 3)
              ELSE Taken(d, text_, 3 + n)
         ELSE Stopped(d, at + 1)
  BY Zenon DEF DecodeOperand
<1>3. Stopped(d, at) \in Decoders(code, pc)
  BY <1>1, StoppedType
<1>. HIDE DEF at
<1>4. ~(left < 1) => Stopped(d, at + 1) \in Decoders(code, pc)
  <2>1. ~(left < 1) => at + 1 \in pc + 2 .. Len(code)
    BY <1>1
  <2>. QED  BY <2>1, StoppedType
<1>5. ~(left < 3) => Stopped(d, at + 3) \in Decoders(code, pc)
  <2>1. ~(left < 3) => at + 3 \in pc + 2 .. Len(code)
    BY <1>1
  <2>. QED  BY <2>1, StoppedType
<1>6. ~(left < 5) => Taken(d, word, 5) \in Decoders(code, pc)
  <2>1. SUFFICES ASSUME ~(left < 5) PROVE Taken(d, word, 5) \in Decoders(code, pc)
    OBVIOUS
  <2>2. \A k \in 1 .. 5 : code[at + k] \in Byte
    BY <1>1, <2>1
  <2>3. \A b \in Byte : b \in Int
    BY DEF Byte
  <2>4. code[at + 1] \in Int /\ code[at + 2] \in Int /\ code[at + 3] \in Int
        /\ code[at + 4] \in Int /\ code[at + 5] \in Int
    <3>1. 1 \in 1 .. 5 /\ 2 \in 1 .. 5 /\ 3 \in 1 .. 5 /\ 4 \in 1 .. 5 /\ 5 \in 1 .. 5
      OBVIOUS
    <3>. HIDE DEF Byte
    <3>. QED  BY <2>2, <2>3, <3>1, Zenon
  <2>5. Int32(code, at + 1) \in Int
    <3>1. \A k \in 1 .. 4 : code[(at + 1) + k] = code[at + (k + 1)] /\ k + 1 \in 1 .. 5
      BY <1>1
    <3>. QED  BY <1>1, <2>2, <3>1, R32Type
  <2>6. word \in ReadOperand
    BY <2>4, <2>5 DEF ReadOperand
  <2>7. at + 5 \in pc + 2 .. Len(code)
    BY <1>1, <2>1
  <2>. HIDE DEF word
  <2>. QED  BY <2>6, <2>7, TakenType DEF at
<1>7. ~(left < 3) => n \in Nat /\ tag \in Int
  <2>1. SUFFICES ASSUME ~(left < 3) PROVE n \in Nat /\ tag \in Int
    OBVIOUS
  <2>2. \A k \in 1 .. 3 : code[at + k] \in Byte
    BY <1>1, <2>1
  <2>3. code[at + 1] \in Byte /\ code[at + 2] \in Byte /\ code[at + 3] \in Byte
    BY <2>2
  <2>4. (at + 1) + 1 = at + 2 /\ (at + 1) + 2 = at + 3
    BY <1>1
  <2>5. n \in Nat
    BY <1>1, <2>3, <2>4, R16Type
  <2>6. tag \in Int
    BY <2>3, ByteIsNat
  <2>. QED  BY <2>5, <2>6
<1>8. ~(left < 3) /\ ~(left < 3 + n) => Taken(d, text_, 3 + n) \in Decoders(code, pc)
  <2>1. SUFFICES ASSUME ~(left < 3), ~(left < 3 + n) PROVE Taken(d, text_, 3 + n) \in Decoders(code, pc)
    OBVIOUS
  <2>2. n \in Nat /\ tag \in Int
    BY <1>7, <2>1
  <2>. HIDE DEF n, tag
  <2>3. SubSeq(code, at + 4, at + 3 + n) \in Seq(Byte)
    <3>1. \A k \in at + 4 .. at + 3 + n : k \in 1 .. Len(code)
      BY <1>1, <2>1, <2>2
    <3>. QED  BY <1>1, <2>2, <3>1
  <2>4. text_ \in ReadOperand
    BY <2>2, <2>3 DEF ReadOperand
  <2>5. at + (3 + n) \in pc + 2 .. Len(code)
    BY <1>1, <2>1, <2>2
  <2>. HIDE DEF text_
  <2>. QED  BY <2>4, <2>5, TakenType DEF at
<1>. HIDE DEF left, tag, n, word, text_
<1>. QED  BY <1>2, <1>3, <1>4, <1>5, <1>6, <1>8, Zenon

(* The operands of an instruction, up to its operand count.                *)
LEMMA DecodedType ==
    ASSUME NEW code \in Seq(Byte), NEW pc \in Nat, pc + 2 <= Len(code),
           NEW argc \in Nat, NEW op \in Int, NEW g,
           g = CHOOSE f : f = [n \in 0 .. argc |->
                                  IF n = 0 THEN [Fetched(pc) EXCEPT !.ok = TRUE, !.op = op]
                                  ELSE DecodeOperand(code, f[n - 1])]
    PROVE  g[argc] \in Decoders(code, pc)
<1>. DEFINE V == Decoders(code, pc)
            base == [Fetched(pc) EXCEPT !.ok = TRUE, !.op = op]
            step == [i \in 1 .. argc |-> [d \in V |-> DecodeOperand(code, d)]]
            Run(f) == f = [n \in 0 .. argc |-> IF n = 0 THEN base ELSE DecodeOperand(code, f[n - 1])]
<1>1. base \in V
  <2>1. pc + 2 \in pc + 2 .. Len(code) /\ -1 \in Int /\ <<>> \in Seq(ReadOperand)
    OBVIOUS
  <2>2. Fetched(pc) \in Decoders(code, pc)
    BY <2>1 DEF Fetched, Decoders
  <2>. QED  BY <2>2, Zenon DEF Decoders
<1>2. ASSUME NEW i \in 1 .. argc, NEW d \in V
      PROVE  step[i][d] = DecodeOperand(code, d) /\ step[i][d] \in V
  BY DecodeOperandType
<1>. HIDE DEF step, base, V
<1>3. Recursion(V, base, argc, step)
  BY <1>1, <1>2 DEF Recursion
<1>4. PICK q : Solves(q, V, base, argc, step)
  BY <1>3, RecursionExists
<1>5. Run(q)
  <2>1. q \in [0 .. argc -> V] /\ q[0] = base
    BY <1>4 DEF Solves
  <2>2. ASSUME NEW i \in 0 .. argc
        PROVE  q[i] = IF i = 0 THEN base ELSE DecodeOperand(code, q[i - 1])
    <3>1. i = 0 \/ (i \in 1 .. argc /\ i - 1 \in 0 .. argc)
      OBVIOUS
    <3>2. i \in 1 .. argc => q[i] = step[i][q[i - 1]]
      BY <1>4 DEF Solves
    <3>. QED  BY <1>2, <2>1, <3>1, <3>2
  <2>3. q = [i \in 0 .. argc |-> q[i]]
    BY <2>1
  <2>. QED  BY <2>2, <2>3, Zenon
<1>6. Run(g)
  BY <1>5, Zenon DEF base
<1>7. \A i \in 0 .. argc : g[i] = IF i = 0 THEN base ELSE DecodeOperand(code, g[i - 1])
  BY <1>6, Zenon
<1>8. g[0] = base
  <2>1. 0 \in 0 .. argc
    OBVIOUS
  <2>. QED  BY <1>7, <2>1, Zenon
<1>9. ASSUME NEW i \in 1 .. argc, g[i - 1] \in V PROVE g[i] = step[i][g[i - 1]]
  <2>1. i \in 0 .. argc /\ i # 0
    OBVIOUS
  <2>. QED  BY <1>2, <1>7, <1>9, <2>1
<1>10. Follows(g, V, base, argc, step)
  BY <1>8, <1>9 DEF Follows
<1>11. \A i \in 0 .. argc : g[i] \in V
  BY <1>3, <1>4, <1>10, RecursionUnique
<1>12. argc \in 0 .. argc
  OBVIOUS
<1>. QED  BY <1>11, <1>12 DEF V

(* Wherever it starts, an instruction ends behind its first byte and not   *)
(* behind the code, or the machine halts at the last byte.                 *)
LEMMA DecodeAdvances ==
    ASSUME NEW code \in Seq(Byte), NEW pc \in 0 .. Len(code) - 1
    PROVE  IF Decode(code, pc).halts THEN pc = Len(code) - 1
           ELSE Decode(code, pc).pc > pc /\ Decode(code, pc).pc <= Len(code)
<1>. DEFINE row == FromOpcode(code[pc + 1])
            argc == code[pc + 2]
            Run(f) == f = [n \in 0 .. argc |->
                              IF n = 0 THEN [Fetched(pc) EXCEPT !.ok = TRUE, !.op = row.op]
                              ELSE DecodeOperand(code, f[n - 1])]
            g == CHOOSE f : Run(f)
<1>1. Decode(code, pc) =
         IF pc + 2 > Len(code) THEN [Fetched(pc) EXCEPT !.pc = pc, !.halts = TRUE]
         ELSE IF row = NoRow \/ argc < row.min \/ argc > row.max THEN Fetched(pc) ELSE g[argc]
  BY Zenon DEF Decode
<1>2. Len(code) \in Nat /\ pc \in Nat
  OBVIOUS
<1>3. CASE pc + 2 > Len(code)
  <2>1. [Fetched(pc) EXCEPT !.pc = pc, !.halts = TRUE].halts = TRUE
    BY Zenon DEF Fetched
  <2>2. Decode(code, pc).halts = TRUE
    BY <1>1, <1>3, <2>1, Zenon
  <2>3. pc = Len(code) - 1
    BY <1>2, <1>3
  <2>. QED  BY <2>2, <2>3, Zenon
<1>4. CASE ~(pc + 2 > Len(code)) /\ (row = NoRow \/ argc < row.min \/ argc > row.max)
  <2>1. Fetched(pc).pc = pc + 2 /\ Fetched(pc).halts = FALSE
    BY Zenon DEF Fetched
  <2>2. Decode(code, pc).pc = pc + 2 /\ Decode(code, pc).halts = FALSE
    BY <1>1, <1>4, <2>1, Zenon
  <2>3. pc + 2 > pc /\ pc + 2 <= Len(code)
    BY <1>2, <1>4
  <2>. QED  BY <2>2, <2>3
<1>5. CASE ~(pc + 2 > Len(code)) /\ ~(row = NoRow \/ argc < row.min \/ argc > row.max)
  <2>1. pc + 2 <= Len(code) /\ argc \in Byte /\ row.op \in 0 .. 255
    <3>1. IsRow(row) /\ row # NoRow
      BY <1>5, FromOpcodeType
    <3>2. pc + 2 <= Len(code) /\ pc + 2 \in 1 .. Len(code)
      BY <1>2, <1>5
    <3>. QED  BY <3>1, <3>2, RowIsUnderstood
  <2>2. argc \in Nat /\ row.op \in Int
    <3>. HIDE DEF row, argc
    <3>1. \A k \in 0 .. 255 : k \in Int
      OBVIOUS
    <3>. QED  BY <2>1, <3>1, ByteIsNat
  <2>. HIDE DEF row, argc
  <2>3. g[argc] \in Decoders(code, pc)
    BY <1>2, <2>1, <2>2, DecodedType
  <2>. HIDE DEF g
  <2>4. g[argc].halts = FALSE /\ g[argc].pc \in pc + 2 .. Len(code)
    BY <2>3 DEF Decoders
  <2>5. Decode(code, pc) = g[argc]
    BY <1>1, <1>5, Zenon
  <2>. QED  BY <1>2, <2>4, <2>5
<1>. QED  BY <1>3, <1>4, <1>5

(* The code of a file that can be loaded is a sequence of bytes.           *)
LEMMA LoadedCode ==
    ASSUME NEW b \in Seq(Byte)
    PROVE  LoadFile(b).code \in Seq(Byte)
<1>. DEFINE size == R32(b, 6)
            lineCount == R32(b, 10)
            tables == 18 + size + 8 * lineCount
            table == ReadLabels(b, tables, R32(b, 14))
            lines == [i \in 1 .. lineCount |-> [pc |-> R32(b, 10 + size + 8 * i),
                                                line |-> R32(b, 14 + size + 8 * i)]]
            image == [ok |-> TRUE, code |-> SubSeq(b, 19, 18 + size), lines |-> lines,
                      labels |-> table.labels]
<1>1. LoadFile(b) = IF Len(b) < 18 \/ SubSeq(b, 1, 6) # <<83, 67, 77, 76, 5, 0>> THEN NotLoaded
                    ELSE IF Len(b) < tables \/ table.end = -1 THEN NotLoaded ELSE image
  BY Zenon DEF LoadFile
<1>2. NotLoaded.code \in Seq(Byte)
  <2>1. NotLoaded.code = <<>>
    BY Zenon DEF NotLoaded
  <2>. QED  BY <2>1
<1>3. image.code = SubSeq(b, 19, 18 + size)
  BY Zenon
<1>4. Len(b) \in Nat
  OBVIOUS
<1>5. ASSUME ~(Len(b) < 18), ~(Len(b) < tables) PROVE SubSeq(b, 19, 18 + size) \in Seq(Byte)
  <2>1. \A k \in 1 .. 18 : b[k] \in Byte
    BY <1>4, <1>5
  <2>2. size \in Nat /\ lineCount \in Nat
    <3>1. \A k \in 1 .. 4 : b[6 + k] \in Byte /\ b[10 + k] \in Byte
      BY <2>1
    <3>. QED  BY <3>1, R32Type
  <2>3. 18 + size <= Len(b)
    <3>. HIDE DEF size, lineCount
    <3>. QED  BY <1>4, <1>5, <2>2
  <2>. HIDE DEF size
  <2>4. \A k \in 19 .. 18 + size : k \in 1 .. Len(b)
    BY <1>4, <2>2, <2>3
  <2>. QED  BY <1>4, <2>2, <2>4
<1>. HIDE DEF tables, table, image, size
<1>. QED  BY <1>1, <1>2, <1>3, <1>5, Zenon

(* The decoder goes forward in the code of every program that has been     *)
(* compiled, wherever an error or a step of the host has left it.          *)
THEOREM DecoderGoesForward == Spec => []DecoderAdvances
<1>1. ToolInv => DecoderAdvances
  <2>. SUFFICES ASSUME ToolInv, phase = "done", NEW pc \in 0 .. Len(Image.code) - 1
       PROVE  LET d == Decode(Image.code, pc)
              IN IF d.halts THEN pc = Len(Image.code) - 1
                 ELSE d.pc > pc /\ d.pc <= Len(Image.code)
    BY Zenon DEF DecoderAdvances
  <2>1. Image.code \in Seq(Byte)
    BY LoadedCode DEF ToolInv, Image
  <2>2. IF Decode(Image.code, pc).halts THEN pc = Len(Image.code) - 1
        ELSE Decode(Image.code, pc).pc > pc /\ Decode(Image.code, pc).pc <= Len(Image.code)
    BY <2>1, DecodeAdvances
  <2>. QED  BY <2>2, Zenon
<1>. QED  BY <1>1, ToolInvariant, PTL

-----------------------------------------------------------------------------
(* What is written of a number is read back, if it fits in its bytes.      *)

\* The bytes of t stand in b from address at on.
Stands(t, b, at) == \A k \in 1 .. Len(t) : b[at + k] = t[k]

LEMMA R16OfW16 ==
    ASSUME NEW v \in Nat, v <= 65535, NEW b, NEW at, Stands(W16(v), b, at)
    PROVE  R16(b, at) = v
<1>1. W16(v)[1] = v % 256 /\ W16(v)[2] = (v \div 256) % 256 /\ Len(W16(v)) = 2
  BY SMT DEF W16
<1>2. b[at + 1] = W16(v)[1] /\ b[at + 2] = W16(v)[2]
  BY <1>1, SMT DEF Stands
<1>3. R16(b, at) = b[at + 1] + 256 * b[at + 2]
  BY SMT DEF R16
<1>4. (v % 256) + 256 * ((v \div 256) % 256) = v
  BY SMT
<1>. QED  BY <1>1, <1>2, <1>3, <1>4, SMT

LEMMA R32OfW32 ==
    ASSUME NEW v \in Nat, v <= 4294967295, NEW b, NEW at, Stands(W32(v), b, at)
    PROVE  R32(b, at) = v
<1>1. /\ Len(W32(v)) = 4 /\ W32(v)[1] = v % 256 /\ W32(v)[2] = (v \div 256) % 256
      /\ W32(v)[3] = (v \div 65536) % 256 /\ W32(v)[4] = (v \div 16777216) % 256
  BY SMT DEF W32, W16
<1>2. /\ b[at + 1] = v % 256 /\ b[at + 2] = (v \div 256) % 256
      /\ b[at + 3] = (v \div 65536) % 256 /\ b[at + 4] = (v \div 16777216) % 256
  BY <1>1, SMT DEF Stands
<1>3. R32(b, at) = (b[at + 1] + 256 * b[at + 2]) + 65536 * b[at + 3] + 16777216 * b[at + 4]
  BY SMT DEF R32, R16
<1>4. ((v % 256) + 256 * ((v \div 256) % 256)) + 65536 * ((v \div 65536) % 256)
         + 16777216 * ((v \div 16777216) % 256) = v
  BY SMT
<1>. QED  BY <1>2, <1>3, <1>4, SMT

(* A sequence of bytes behind another one.                                 *)
LEMMA StandsBehind ==
    ASSUME NEW s, NEW t, NEW m \in Nat, NEW n \in Nat, Bytes(s, m), Bytes(t, n)
    PROVE  /\ Stands(t, s \o t, m)
           /\ \A i \in 1 .. m : (s \o t)[i] = s[i]
<1>1. s \in Seq(Byte) /\ t \in Seq(Byte) /\ Len(s) = m /\ Len(t) = n
  BY DEF Bytes
<1>2. \A i \in 1 .. m + n : (s \o t)[i] = IF i <= m THEN s[i] ELSE t[i - m]
  <2>. HIDE DEF Byte
  <2>. QED  BY <1>1, ConcatProperties
<1>3. ASSUME NEW k \in 1 .. n PROVE (s \o t)[m + k] = t[k]
  <2>1. m + k \in 1 .. m + n /\ ~(m + k <= m) /\ (m + k) - m = k
    OBVIOUS
  <2>. QED  BY <1>2, <2>1
<1>. QED  BY <1>1, <1>2, <1>3 DEF Stands

LEMMA StandsStill ==
    ASSUME NEW s, NEW t, NEW m \in Nat, NEW n \in Nat, Bytes(s, m), Bytes(t, n),
           NEW u, NEW at \in Nat, Len(u) \in Nat, at + Len(u) <= m, Stands(u, s, at)
    PROVE  Stands(u, s \o t, at)
<1>1. \A i \in 1 .. m : (s \o t)[i] = s[i]
  BY StandsBehind
<1>2. \A k \in 1 .. Len(u) : at + k \in 1 .. m
  OBVIOUS
<1>. QED  BY <1>1, <1>2 DEF Stands

LEMMA HeaderFields ==
    ASSUME NEW size \in Int, NEW lineCount \in Int, NEW labelCount \in Int
    PROVE  /\ Stands(W32(size), Header(size, lineCount, labelCount), 6)
           /\ Stands(W32(lineCount), Header(size, lineCount, labelCount), 10)
           /\ Stands(W32(labelCount), Header(size, lineCount, labelCount), 14)
<1>. DEFINE a == <<83, 67, 77, 76>> \o W16(5)
            b == a \o W32(size)
            c == b \o W32(lineCount)
            d == c \o W32(labelCount)
<1>1. Bytes(a, 6)
  <2>1. Bytes(<<83, 67, 77, 76>>, 4)
    BY DEF Bytes, Byte
  <2>. QED  BY <2>1, W16Type, JoinBytes
<1>2. /\ Bytes(W32(size), 4) /\ Bytes(W32(lineCount), 4) /\ Bytes(W32(labelCount), 4)
      /\ Len(W32(size)) = 4 /\ Len(W32(lineCount)) = 4
  BY W32Type DEF Bytes
<1>. HIDE DEF a
<1>3. Bytes(b, 10) /\ Stands(W32(size), b, 6)
  BY <1>1, <1>2, JoinBytes, StandsBehind
<1>. HIDE DEF b
<1>4. Bytes(c, 14) /\ Stands(W32(lineCount), c, 10) /\ Stands(W32(size), c, 6)
  <2>1. 6 + Len(W32(size)) <= 10 /\ Len(W32(size)) \in Nat
    BY <1>2
  <2>2. Bytes(c, 14)
    BY <1>2, <1>3, JoinBytes
  <2>3. Stands(W32(lineCount), c, 10)
    BY <1>2, <1>3, StandsBehind
  <2>4. Stands(W32(size), c, 6)
    BY <1>2, <1>3, <2>1, StandsStill
  <2>. QED  BY <2>2, <2>3, <2>4
<1>. HIDE DEF c
<1>5. Stands(W32(labelCount), d, 14) /\ Stands(W32(lineCount), d, 10) /\ Stands(W32(size), d, 6)
  <2>1. /\ 6 + Len(W32(size)) <= 14 /\ Len(W32(size)) \in Nat
        /\ 10 + Len(W32(lineCount)) <= 14 /\ Len(W32(lineCount)) \in Nat
    BY <1>2
  <2>. QED  BY <1>2, <1>4, <2>1, StandsBehind, StandsStill
<1>6. Header(size, lineCount, labelCount) = d
  BY Zenon DEF Header, a, b, c
<1>. QED  BY <1>5, <1>6

-----------------------------------------------------------------------------
(* The loader refuses a file that is cut off.                              *)

LabelRow == [pc : Nat, name : Seq(Byte)]

\* What the loader has read of the label table: it stands within the file.
Tables(b) == [end : -1 .. Len(b), labels : Seq(LabelRow)]

\* One entry is read whole, or the table is given up.
LEMMA ReadLabelType ==
    ASSUME NEW b \in Seq(Byte), NEW t \in Tables(b)
    PROVE  /\ ReadLabel(b, t) \in Tables(b)
           /\ \/ ReadLabel(b, t).end = -1
              \/ /\ t.end # -1 /\ t.end + 6 <= Len(b)
                 /\ ReadLabel(b, t).end = t.end + 6 + R16(b, t.end + 4)
<1>. DEFINE at == t.end
            n == R16(b, at + 4)
            row == [pc |-> R32(b, at), name |-> SubSeq(b, at + 7, at + 6 + n)]
            next == [end |-> at + 6 + n, labels |-> Append(t.labels, row)]
<1>1. at \in -1 .. Len(b) /\ Len(b) \in Nat /\ t.labels \in Seq(LabelRow)
  BY DEF Tables
<1>2. ReadLabel(b, t) = IF at = -1 THEN Short ELSE IF at + 6 > Len(b) THEN Short
                        ELSE IF at + 6 + n > Len(b) THEN Short ELSE next
  BY Zenon DEF ReadLabel
<1>3. Short \in Tables(b) /\ Short.end = -1
  <2>1. -1 \in -1 .. Len(b) /\ <<>> \in Seq(LabelRow)
    BY <1>1
  <2>. QED  BY <2>1 DEF Short, Tables
<1>4. next.end = at + 6 + n
  BY Zenon
<1>5. ASSUME at # -1, ~(at + 6 > Len(b)), ~(at + 6 + n > Len(b)) PROVE next \in Tables(b)
  <2>1. at \in Nat /\ \A k \in 1 .. 6 : b[at + k] \in Byte
    <3>. HIDE DEF at, n
    <3>1. at \in Nat /\ at + 6 <= Len(b)
      BY <1>1, <1>5
    <3>2. \A k \in 1 .. 6 : at + k \in 1 .. Len(b)
      BY <1>1, <3>1
    <3>3. \A i \in 1 .. Len(b) : b[i] \in Byte
      OBVIOUS
    <3>. QED  BY <3>1, <3>2, <3>3
  <2>2. n \in Nat
    <3>1. (at + 4) + 1 = at + 5 /\ (at + 4) + 2 = at + 6
      BY <1>1
    <3>2. b[(at + 4) + 1] \in Byte /\ b[(at + 4) + 2] \in Byte
      BY <2>1, <3>1
    <3>. QED  BY <1>1, <3>2, R16Type
  <2>3. R32(b, at) \in Nat
    <3>1. \A k \in 1 .. 4 : b[at + k] \in Byte
      <4>1. \A k \in 1 .. 4 : k \in 1 .. 6
        OBVIOUS
      <4>. QED  BY <2>1, <4>1, Zenon
    <3>2. at \in Int
      BY <1>1
    <3>. HIDE DEF at, n, row, next
    <3>. QED  BY <3>1, <3>2, R32Type
  <2>. HIDE DEF n, at
  <2>4. SubSeq(b, at + 7, at + 6 + n) \in Seq(Byte)
    <3>1. \A k \in at + 7 .. at + 6 + n : k \in 1 .. Len(b)
      BY <1>1, <1>5, <2>1, <2>2
    <3>. QED  BY <2>1, <2>2, <3>1
  <2>5. row \in LabelRow
    BY <2>3, <2>4 DEF LabelRow
  <2>. HIDE DEF row
  <2>6. Append(t.labels, row) \in Seq(LabelRow)
    BY <1>1, <2>5, AppendProperties
  <2>7. at + 6 + n \in -1 .. Len(b)
    BY <1>1, <1>5, <2>1, <2>2
  <2>. QED  BY <2>6, <2>7 DEF Tables
<1>6. at # -1 /\ ~(at + 6 > Len(b)) => at + 6 <= Len(b)
  BY <1>1
<1>. HIDE DEF at, n, next
<1>7. CASE at = -1
  BY <1>2, <1>3, <1>7, Zenon
<1>8. CASE at # -1 /\ at + 6 > Len(b)
  BY <1>2, <1>3, <1>8, Zenon
<1>9. CASE at # -1 /\ ~(at + 6 > Len(b)) /\ at + 6 + n > Len(b)
  BY <1>2, <1>3, <1>9, Zenon
<1>10. CASE at # -1 /\ ~(at + 6 > Len(b)) /\ ~(at + 6 + n > Len(b))
  <2>1. ReadLabel(b, t) = next
    BY <1>2, <1>10, Zenon
  <2>2. next \in Tables(b)
    BY <1>5, <1>10, Zenon
  <2>. QED  BY <1>4, <1>6, <1>10, <2>1, <2>2, Zenon DEF at, n
<1>. QED  BY <1>7, <1>8, <1>9, <1>10, Zenon

\* ends[k] is where the first k entries of the label table end, as far as
\* the file goes.
EndsOf(b, ends, count) ==
    /\ ends \in [0 .. count -> Nat]
    /\ \A k \in 1 .. count :
          ends[k - 1] + 6 <= Len(b) => ends[k] = ends[k - 1] + 6 + R16(b, ends[k - 1] + 4)

LEMMA ReadLabelsEnd ==
    ASSUME NEW b \in Seq(Byte), NEW count \in Nat, NEW ends, EndsOf(b, ends, count),
           ends[0] <= Len(b)
    PROVE  /\ ReadLabels(b, ends[0], count) \in Tables(b)
           /\ ReadLabels(b, ends[0], count).end \in {-1, ends[count]}
<1>. DEFINE V == Tables(b)
            base == [end |-> ends[0], labels |-> <<>>]
            step == [i \in 1 .. count |-> [t \in V |-> ReadLabel(b, t)]]
            Run(f) == f = [n \in 0 .. count |-> IF n = 0 THEN base ELSE ReadLabel(b, f[n - 1])]
            g == CHOOSE f : Run(f)
<1>1. base \in V /\ base.end = ends[0]
  <2>1. 0 \in 0 .. count /\ Len(b) \in Nat
    OBVIOUS
  <2>2. ends[0] \in Nat
    BY <2>1 DEF EndsOf
  <2>3. ends[0] \in -1 .. Len(b) /\ <<>> \in Seq(LabelRow)
    BY <2>1, <2>2
  <2>. QED  BY <2>3 DEF Tables
<1>2. ASSUME NEW i \in 1 .. count, NEW t \in V
      PROVE  step[i][t] = ReadLabel(b, t) /\ step[i][t] \in V
  BY ReadLabelType
<1>3. ReadLabels(b, ends[0], count) = g[count]
  BY Zenon DEF ReadLabels
<1>. HIDE DEF step, base, V
<1>4. Recursion(V, base, count, step)
  BY <1>1, <1>2 DEF Recursion
<1>5. PICK q : Solves(q, V, base, count, step)
  BY <1>4, RecursionExists
<1>6. Run(q)
  <2>1. q \in [0 .. count -> V] /\ q[0] = base
    BY <1>5 DEF Solves
  <2>2. ASSUME NEW i \in 0 .. count
        PROVE  q[i] = IF i = 0 THEN base ELSE ReadLabel(b, q[i - 1])
    <3>1. i = 0 \/ (i \in 1 .. count /\ i - 1 \in 0 .. count)
      OBVIOUS
    <3>2. i \in 1 .. count => q[i] = step[i][q[i - 1]]
      BY <1>5 DEF Solves
    <3>. QED  BY <1>2, <2>1, <3>1, <3>2
  <2>3. q = [i \in 0 .. count |-> q[i]]
    BY <2>1
  <2>. QED  BY <2>2, <2>3, Zenon
<1>7. Run(g)
  BY <1>6, Zenon
<1>. HIDE DEF g
<1>8. \A i \in 0 .. count : g[i] = IF i = 0 THEN base ELSE ReadLabel(b, g[i - 1])
  BY <1>7, Zenon
<1>9. g[0] = base /\ \A i \in 1 .. count : g[i] = ReadLabel(b, g[i - 1])
  <2>1. 0 \in 0 .. count /\ \A i \in 1 .. count : i \in 0 .. count /\ i # 0
    OBVIOUS
  <2>. QED  BY <1>8, <2>1
<1>10. Follows(g, V, base, count, step)
  BY <1>2, <1>9 DEF Follows
<1>11. \A i \in 0 .. count : g[i] \in V
  BY <1>4, <1>5, <1>10, RecursionUnique
<1>. DEFINE T == {k \in 0 .. count : g[k].end \in {-1, ends[k]}}
<1>12. 0 \in T
  BY <1>1, <1>9
<1>13. ASSUME NEW k \in 1 .. count, k - 1 \in T PROVE k \in T
  <2>1. k - 1 \in 0 .. count /\ k \in 0 .. count
    OBVIOUS
  <2>2. g[k - 1] \in Tables(b) /\ g[k - 1].end \in {-1, ends[k - 1]} /\ g[k] = ReadLabel(b, g[k - 1])
    BY <1>9, <1>11, <1>13, <2>1 DEF V
  <2>3. \/ g[k].end = -1
        \/ /\ g[k - 1].end # -1 /\ g[k - 1].end + 6 <= Len(b)
           /\ g[k].end = g[k - 1].end + 6 + R16(b, g[k - 1].end + 4)
    BY <2>2, ReadLabelType
  <2>4. g[k].end # -1 => g[k - 1].end = ends[k - 1]
    BY <2>2, <2>3
  <2>5. g[k].end # -1 => g[k].end = ends[k]
    BY <2>3, <2>4 DEF EndsOf
  <2>. QED  BY <2>1, <2>5
<1>14. \A k \in 0 .. count : k \in T
  <2>. HIDE DEF T
  <2>. QED  BY <1>12, <1>13, IntervalInduction
<1>15. count \in 0 .. count
  OBVIOUS
<1>. QED  BY <1>3, <1>11, <1>14, <1>15 DEF V

LEMMA CutOffIsRefused ==
    ASSUME NEW b \in Seq(Byte), NEW size \in Nat, NEW lineCount \in Nat, NEW count \in Nat, NEW ends,
           Len(b) >= 18 => R32(b, 6) = size /\ R32(b, 10) = lineCount /\ R32(b, 14) = count,
           EndsOf(b, ends, count), ends[0] = 18 + size + 8 * lineCount, Len(b) < ends[count]
    PROVE  ~LoadFile(b).ok
<1>. DEFINE size_ == R32(b, 6)
            lineCount_ == R32(b, 10)
            tables == 18 + size_ + 8 * lineCount_
            table == ReadLabels(b, tables, R32(b, 14))
            image == [ok |-> TRUE, code |-> SubSeq(b, 19, 18 + size_),
                      lines |-> [i \in 1 .. lineCount_ |-> [pc |-> R32(b, 10 + size_ + 8 * i),
                                                            line |-> R32(b, 14 + size_ + 8 * i)]],
                      labels |-> table.labels]
<1>1. LoadFile(b) = IF Len(b) < 18 \/ SubSeq(b, 1, 6) # <<83, 67, 77, 76, 5, 0>> THEN NotLoaded
                    ELSE IF Len(b) < tables \/ table.end = -1 THEN NotLoaded ELSE image
  BY Zenon DEF LoadFile
<1>2. NotLoaded.ok = FALSE
  BY Zenon DEF NotLoaded
<1>3. Len(b) \in Nat
  OBVIOUS
<1>4. ASSUME ~(Len(b) < 18), ~(Len(b) < tables) PROVE table.end = -1
  <2>1. tables = ends[0] /\ R32(b, 14) = count
    BY <1>3, <1>4
  <2>2. ends[0] <= Len(b)
    <3>1. ends[0] \in Nat
      <4>1. 0 \in 0 .. count
        OBVIOUS
      <4>. QED  BY <4>1 DEF EndsOf
    <3>. QED  BY <1>3, <1>4, <2>1, <3>1
  <2>. HIDE DEF tables
  <2>3. table = ReadLabels(b, ends[0], count)
    BY <2>1
  <2>. HIDE DEF table
  <2>4. table \in Tables(b) /\ table.end \in {-1, ends[count]}
    BY <2>2, <2>3, ReadLabelsEnd
  <2>5. table.end <= Len(b)
    BY <1>3, <2>4 DEF Tables
  <2>6. ends[count] \in Nat
    <3>1. count \in 0 .. count
      OBVIOUS
    <3>. QED  BY <3>1 DEF EndsOf
  <2>7. table.end # ends[count]
    BY <1>3, <2>5, <2>6
  <2>. QED  BY <2>4, <2>7
<1>. HIDE DEF tables, table, image
<1>. QED  BY <1>1, <1>2, <1>4, Zenon

-----------------------------------------------------------------------------
(* How far the output has been written.                                    *)

\* Where the first k statements end in the code, and the first k labels in
\* the file, when the label table begins at address at.
CodeEnd(prog, k) == SumSeq(SubSeq([j \in 1 .. Len(prog) |-> StmtSize(prog[j])], 1, k))

TableEnd(labels, at, k) ==
    at + SumSeq(SubSeq([j \in 1 .. Len(labels) |-> 6 + Len(Spelling(labels[j].label))], 1, k))

TablesAt == 18 + CodeSize + 8 * Len(Code)

\* What the loader reads from the output: the three sizes of the header, and
\* the length of every label that has been written.
HeaderStands ==
    /\ Stands(W32(CodeSize), output, 6)
    /\ Stands(W32(Len(Code)), output, 10)
    /\ Stands(W32(Len(Labels)), output, 14)

LengthStands(labels, at, o, k) ==
    /\ Len(Spelling(labels[k].label)) <= 65535
    /\ Stands(W16(Len(Spelling(labels[k].label))), o, TableEnd(labels, at, k - 1) + 4)

LabelsStand(labels, at, o, n) == \A k \in 1 .. n : LengthStands(labels, at, o, k)

ImageInv ==
    /\ phase \in {"reading", "layout"} => written = 0
    /\ phase \in {"code", "labels", "done"} => HeaderStands
    /\ phase = "code" => Len(output) = 18 + CodeEnd(program, written)
    /\ phase \in {"labels", "done"} =>
          /\ written <= Len(Labels)
          /\ Len(output) = TableEnd(Labels, TablesAt, written)
          /\ LabelsStand(Labels, TablesAt, output, written)
    /\ phase = "done" => written = Len(Labels)

LEMMA CodeEnds ==
    ASSUME NEW prog \in Seq(StatementType), NEW n \in 0 .. Len(prog)
    PROVE  /\ CodeEnd(prog, 0) = 0 /\ CodeEnd(prog, n) \in Nat
           /\ \A k \in 0 .. n : CodeEnd(prog, k) =< CodeEnd(prog, n)
           /\ n # 0 => CodeEnd(prog, n) = CodeEnd(prog, n - 1) + StmtSize(prog[n])
<1>. DEFINE sizes == [j \in 1 .. Len(prog) |-> StmtSize(prog[j])]
<1>1. Len(prog) \in Nat /\ \A j \in 1 .. Len(prog) : StmtSize(prog[j]) \in Nat
  BY StmtSizeType
<1>2. sizes \in Seq(Nat) /\ sizes \in Seq(Int) /\ Len(sizes) = Len(prog)
      /\ \A j \in 1 .. Len(prog) : sizes[j] = StmtSize(prog[j])
  BY <1>1
<1>3. \A k : CodeEnd(prog, k) = SumSeq(SubSeq(sizes, 1, k))
  BY Zenon DEF CodeEnd
<1>. HIDE DEF sizes
<1>4. SubSeq(sizes, 1, 0) = <<>>
  BY <1>2
<1>5. CodeEnd(prog, 0) = 0
  BY <1>3, <1>4, SumEmpty
<1>6. SumSeq(SubSeq(sizes, 1, n)) \in Nat
      /\ \A k \in 0 .. n : SumSeq(SubSeq(sizes, 1, k)) =< SumSeq(SubSeq(sizes, 1, n))
  BY <1>2, SumIsMonotone
<1>7. n # 0 => SumSeq(SubSeq(sizes, 1, n)) = SumSeq(SubSeq(sizes, 1, n - 1)) + sizes[n]
  <2>1. n # 0 => n \in 1 .. Len(sizes)
    BY <1>2
  <2>. QED  BY <1>2, <2>1, SumGrows
<1>8. n # 0 => sizes[n] = StmtSize(prog[n])
  BY <1>1, <1>2
<1>. QED  BY <1>3, <1>5, <1>6, <1>7, <1>8

LEMMA TableEnds ==
    ASSUME NEW labels \in Seq(Accepted), NEW at \in Nat, NEW n \in 0 .. Len(labels)
    PROVE  /\ TableEnd(labels, at, 0) = at /\ TableEnd(labels, at, n) \in Nat
           /\ \A k \in 0 .. n : TableEnd(labels, at, k) =< TableEnd(labels, at, n)
           /\ n # 0 => /\ Len(Spelling(labels[n].label)) \in Nat
                       /\ TableEnd(labels, at, n)
                             = TableEnd(labels, at, n - 1) + 6 + Len(Spelling(labels[n].label))
<1>. DEFINE sizes == [j \in 1 .. Len(labels) |-> 6 + Len(Spelling(labels[j].label))]
            sum(k) == SumSeq(SubSeq(sizes, 1, k))
<1>1. \A st \in Accepted : st.label \in Names
  BY DEF Accepted, StatementType
<1>2. Len(labels) \in Nat /\ \A j \in 1 .. Len(labels) : Len(Spelling(labels[j].label)) \in Nat
  BY <1>1, SpellingType
<1>3. sizes \in Seq(Nat) /\ sizes \in Seq(Int) /\ Len(sizes) = Len(labels)
      /\ \A j \in 1 .. Len(labels) : sizes[j] = 6 + Len(Spelling(labels[j].label))
  BY <1>2
<1>4. \A k : TableEnd(labels, at, k) = at + sum(k)
  BY Zenon DEF TableEnd
<1>. HIDE DEF sizes
<1>5. SubSeq(sizes, 1, 0) = <<>>
  BY <1>3
<1>6. sum(0) = 0
  BY <1>5, SumEmpty
<1>7. sum(n) \in Nat /\ \A k \in 0 .. n : sum(k) =< sum(n)
  BY <1>3, SumIsMonotone
<1>8. n # 0 => sum(n) = sum(n - 1) + sizes[n] /\ sum(n - 1) \in Int
  <2>1. n # 0 => n \in 1 .. Len(sizes)
    BY <1>3
  <2>. QED  BY <1>3, <2>1, SumGrows
<1>9. n # 0 => sizes[n] = 6 + Len(Spelling(labels[n].label)) /\ Len(Spelling(labels[n].label)) \in Nat
  BY <1>2, <1>3
<1>10. \A k \in 0 .. n : sum(k) \in Int
  <2>. SUFFICES ASSUME NEW k \in 0 .. n PROVE sum(k) \in Int
    OBVIOUS
  <2>1. SubSeq(sizes, 1, k) \in Seq(Int)
    BY <1>3
  <2>. QED  BY <2>1, SumType
<1>. HIDE DEF sum
<1>11. TableEnd(labels, at, 0) = at /\ TableEnd(labels, at, n) \in Nat
  BY <1>4, <1>6, <1>7
<1>12. \A k \in 0 .. n : TableEnd(labels, at, k) =< TableEnd(labels, at, n)
  BY <1>4, <1>7, <1>10
<1>13. ASSUME n # 0
       PROVE  TableEnd(labels, at, n) = TableEnd(labels, at, n - 1) + 6 + Len(Spelling(labels[n].label))
  <2>. DEFINE size == Len(Spelling(labels[n].label))
  <2>1. size \in Nat /\ sizes[n] = 6 + size
    BY <1>9, <1>13
  <2>. HIDE DEF size
  <2>2. sum(n) = sum(n - 1) + (6 + size) /\ sum(n - 1) \in Int
    BY <1>8, <1>13, <2>1
  <2>3. TableEnd(labels, at, n) = at + sum(n) /\ TableEnd(labels, at, n - 1) = at + sum(n - 1)
    BY <1>4
  <2>4. TableEnd(labels, at, n) = TableEnd(labels, at, n - 1) + 6 + size
    BY <2>1, <2>2, <2>3
  <2>. QED  BY <2>4 DEF size
<1>. QED  BY <1>9, <1>11, <1>12, <1>13

(* The addresses of the first pass are where the statements begin.         *)
LEMMA AddressIsEnd ==
    ASSUME program \in Seq(Accepted)
    PROVE  CodeSize = CodeEnd(program, Len(program)) /\ CodeSize \in Nat /\ TablesAt \in Nat
<1>1. program \in Seq(StatementType) /\ Len(program) \in 0 .. Len(program) /\ Len(program) \in Nat
  BY DEF Accepted
<1>. DEFINE n == Len(program)
            sizes == [j \in 1 .. n |-> StmtSize(program[j])]
<1>2. CodeSize = SumSeq([j \in 1 .. (n + 1) - 1 |-> StmtSize(program[j])])
  BY Zenon DEF CodeSize, AddressOf
<1>3. (n + 1) - 1 = n
  BY <1>1
<1>4. \A j \in 1 .. n : StmtSize(program[j]) \in Nat
  BY <1>1, StmtSizeType
<1>5. sizes \in Seq(Nat) /\ SubSeq(sizes, 1, n) = sizes
  BY <1>1, <1>4
<1>6. CodeEnd(program, n) = SumSeq(SubSeq(sizes, 1, n))
  BY Zenon DEF CodeEnd
<1>7. CodeSize = CodeEnd(program, n)
  BY <1>2, <1>3, <1>5, <1>6, Zenon
<1>8. CodeEnd(program, n) \in Nat
  BY <1>1, CodeEnds
<1>9. Len(Code) \in Nat
  BY LabelsType
<1>. QED  BY <1>7, <1>8, <1>9 DEF TablesAt

(* The line table has a row for every instruction.                         *)
LEMMA RowsOfCode ==
    ASSUME program \in Seq(Accepted)
    PROVE  Len(LineTable) = Len(Code) /\ Len(Labels) + Len(Code) = Len(program)
<1>. DEFINE rows == [i \in 1 .. Len(program) |-> [pc |-> AddressOf(i), line |-> program[i].line]]
<1>1. program \in Seq(StatementType) /\ Len(program) \in Nat
  BY DEF Accepted
<1>2. \A st \in StatementType : st.line \in Int
  BY DEF StatementType
<1>3. \A i \in 1 .. Len(program) : program[i].line \in Int
  BY <1>1, <1>2
<1>4. \A i \in 1 .. Len(program) : AddressOf(i) \in Int
  BY <1>1, AddressType
<1>5. rows \in Seq(LineRow) /\ Len(rows) = Len(program)
  BY <1>1, <1>3, <1>4 DEF LineRow
<1>6. LineTable = SelectAt(rows, CodePlaces)
  BY Zenon DEF LineTable
<1>. HIDE DEF rows
<1>7. Len(LineTable) = Len(Code)
  BY <1>5, <1>6, SelectSameLength DEF Code
<1>8. \A i \in 1 .. Len(program) : i \in CodePlaces <=> i \notin LabelPlaces
  BY <1>1 DEF CodePlaces
<1>9. Len(Labels) + Len(Code) = Len(program)
  BY <1>8, SelectSplit DEF Labels, Code
<1>. QED  BY <1>7, <1>9

(* What stands in the output stays when more is written behind it.         *)
LEMMA HeaderStays ==
    ASSUME program \in Seq(Accepted), HeaderStands, NEW m \in Nat, m >= 18, Bytes(output, m),
           NEW t, NEW n \in Nat, Bytes(t, n), output' = output \o t, program' = program
    PROVE  HeaderStands'
<1>1. CodeSize' = CodeSize /\ Code' = Code /\ Labels' = Labels
  BY DEF CodeSize, AddressOf, Code, Labels, CodePlaces, LabelPlaces
<1>2. CodeSize \in Int /\ Len(Code) \in Int /\ Len(Labels) \in Int
  BY AddressIsEnd, LabelsType
<1>3. ASSUME NEW v \in Int, NEW at \in {6, 10, 14}, Stands(W32(v), output, at)
      PROVE  Stands(W32(v), output', at)
  <2>1. Len(W32(v)) = 4
    BY W32Type DEF Bytes
  <2>2. Len(W32(v)) \in Nat /\ at \in Nat /\ at + Len(W32(v)) <= m
    BY <2>1
  <2>. QED  BY <1>3, <2>2, StandsStill
<1>. QED  BY <1>1, <1>2, <1>3 DEF HeaderStands

LEMMA LabelsStay ==
    ASSUME program \in Seq(Accepted), NEW n \in 0 .. Len(Labels), LabelsStand(Labels, TablesAt, output, n),
           Bytes(output, TableEnd(Labels, TablesAt, n)),
           NEW t, NEW size \in Nat, Bytes(t, size)
    PROVE  LabelsStand(Labels, TablesAt, output \o t, n)
<1>1. Labels \in Seq(Accepted) /\ TablesAt \in Nat
  BY LabelsType, AddressIsEnd
<1>2. TableEnd(Labels, TablesAt, n) \in Nat
      /\ \A k \in 0 .. n : TableEnd(Labels, TablesAt, k) =< TableEnd(Labels, TablesAt, n)
  BY <1>1, TableEnds
<1>3. ASSUME NEW k \in 1 .. n
      PROVE  Stands(W16(Len(Spelling(Labels[k].label))), output \o t,
                    TableEnd(Labels, TablesAt, k - 1) + 4)
  <2>. DEFINE len == Len(Spelling(Labels[k].label))
              at == TableEnd(Labels, TablesAt, k - 1)
  <2>1. k \in 0 .. Len(Labels) /\ k - 1 \in 0 .. Len(Labels) /\ k # 0 /\ k \in 0 .. n
    BY <1>1
  <2>2. at \in Nat /\ len \in Nat /\ TableEnd(Labels, TablesAt, k) = at + 6 + len
    BY <1>1, <2>1, TableEnds
  <2>3. Len(W16(len)) = 2
    BY <2>2, W16Type DEF Bytes
  <2>4. Stands(W16(len), output, at + 4)
    BY DEF LabelsStand, LengthStands
  <2>. HIDE DEF len, at
  <2>5. (at + 4) + Len(W16(len)) <= TableEnd(Labels, TablesAt, n) /\ at + 4 \in Nat
        /\ Len(W16(len)) \in Nat
    BY <1>2, <2>1, <2>2, <2>3
  <2>6. Stands(W16(len), output \o t, at + 4)
    BY <1>2, <2>4, <2>5, StandsStill
  <2>. QED  BY <2>6 DEF len, at
<1>4. \A k \in 1 .. n : Len(Spelling(Labels[k].label)) <= 65535
  BY DEF LabelsStand, LengthStands
<1>. QED  BY <1>3, <1>4 DEF LabelsStand, LengthStands

LEMMA ImageKept ==
    ASSUME ImageInv, UNCHANGED <<program, output, written>>, phase' = phase
    PROVE  ImageInv'
<1>1. CodeSize' = CodeSize /\ Code' = Code /\ Labels' = Labels
  BY DEF CodeSize, AddressOf, Code, Labels, CodePlaces, LabelPlaces
<1>2. TablesAt' = TablesAt
  BY <1>1 DEF TablesAt
<1>3. HeaderStands' = HeaderStands
  BY <1>1 DEF HeaderStands
<1>4. LabelsStand(Labels', TablesAt', output', written') = LabelsStand(Labels, TablesAt, output, written)
      /\ TableEnd(Labels', TablesAt', written') = TableEnd(Labels, TablesAt, written)
      /\ CodeEnd(program', written') = CodeEnd(program, written)
  BY <1>1, <1>2
<1>. QED  BY <1>1, <1>3, <1>4 DEF ImageInv

LEMMA ImageLayout ==
    ASSUME ToolInv, ImageInv, Layout
    PROVE  ImageInv'
<1>1. program \in Seq(Accepted) /\ program' = program /\ written' = written /\ written = 0
  BY DEF ToolInv, ImageInv, Layout
<1>2. CASE phase' = "failed"
  BY <1>1, <1>2 DEF Layout, ImageInv
<1>3. CASE phase' # "failed"
  <2>1. phase' = "code" /\ output' = Header(CodeSize, Len(Code), Len(Labels))
    BY <1>3 DEF Layout
  <2>2. CodeSize' = CodeSize /\ Code' = Code /\ Labels' = Labels
    BY <1>1 DEF CodeSize, AddressOf, Code, Labels, CodePlaces, LabelPlaces
  <2>3. CodeSize \in Int /\ Len(Code) \in Int /\ Len(Labels) \in Int
    BY <1>1, AddressIsEnd, LabelsType
  <2>4. HeaderStands'
    BY <2>1, <2>2, <2>3, HeaderFields DEF HeaderStands
  <2>5. Len(output') = 18
    BY <2>1, <2>3, HeaderType DEF Bytes
  <2>6. CodeEnd(program, 0) = 0
    <3>1. program \in Seq(StatementType) /\ 0 \in 0 .. Len(program)
      BY <1>1 DEF Accepted
    <3>. QED  BY <3>1, CodeEnds
  <2>7. Len(output') = 18 + CodeEnd(program', written')
    BY <1>1, <2>5, <2>6
  <2>. QED  BY <2>1, <2>4, <2>7 DEF ImageInv
<1>. QED  BY <1>2, <1>3

LEMMA ImageRemoved ==
    ASSUME RemoveOutput
    PROVE  ImageInv'
BY DEF RemoveOutput, ImageInv

LEMMA ImageStatement ==
    ASSUME ToolInv, ImageInv, WriteStatement
    PROVE  ImageInv'
<1>. DEFINE st == program[written + 1]
            size == 18 + CodeEnd(program, written)
<1>1. phase = "code" /\ written < Len(program) /\ program' = program
  BY DEF WriteStatement
<1>2. program \in Seq(Accepted) /\ written \in 0 .. Len(program) /\ output \in Seq(Byte)
      /\ HeaderStands /\ Len(output) = size
  BY <1>1 DEF ToolInv, ImageInv
<1>3. st \in Accepted /\ program \in Seq(StatementType) /\ written + 1 \in 0 .. Len(program)
      /\ written + 1 # 0 /\ (written + 1) - 1 = written
  <2>1. written + 1 \in 1 .. Len(program)
    BY <1>1, <1>2
  <2>2. program \in Seq(StatementType)
    BY <1>2 DEF Accepted
  <2>. HIDE DEF Accepted
  <2>. QED  BY <1>2, <2>1, <2>2
<1>4. CodeEnd(program, written) \in Nat /\ StmtSize(st) \in Nat
      /\ CodeEnd(program, written + 1) = CodeEnd(program, written) + StmtSize(st)
  <2>1. st \in StatementType
    BY <1>3 DEF Accepted
  <2>. QED  BY <1>2, <1>3, <2>1, CodeEnds, StmtSizeType
<1>. HIDE DEF st
<1>5. CASE \E i \in DOMAIN st.operands : Unwritable(st.operands[i])
  <2>1. RemoveOutput
    BY <1>5 DEF WriteStatement, st
  <2>. QED  BY <2>1, ImageRemoved
<1>6. CASE ~(\E i \in DOMAIN st.operands : Unwritable(st.operands[i]))
  <2>1. output' = output \o StmtBytes(st, LabelAddress) /\ written' = written + 1 /\ phase' = phase
    BY <1>6 DEF WriteStatement, st
  <2>2. ASSUME NEW i \in DOMAIN st.operands, st.operands[i].type = AddressTag
        PROVE  LabelAddress[st.operands[i].s] \in Int
    <3>1. st.operands[i].s \in DOMAIN LabelAddress
      BY <1>6, <2>2 DEF Unwritable
    <3>. QED  BY <1>2, <3>1, LabelAddressType
  <2>3. Bytes(StmtBytes(st, LabelAddress), StmtSize(st))
    BY <1>3, <2>2, StmtBytesType
  <2>4. Bytes(output, size) /\ size \in Nat /\ size >= 18
    BY <1>2, <1>4 DEF Bytes
  <2>. HIDE DEF size
  <2>5. HeaderStands'
    BY <1>1, <1>2, <1>4, <2>1, <2>3, <2>4, HeaderStays
  <2>6. Bytes(output', size + StmtSize(st))
    BY <1>4, <2>1, <2>3, <2>4, JoinBytes
  <2>7. Len(output') = 18 + CodeEnd(program', written')
    BY <1>1, <1>4, <2>1, <2>6 DEF Bytes, size
  <2>. QED  BY <1>1, <2>1, <2>5, <2>7 DEF ImageInv
<1>. QED  BY <1>5, <1>6

LEMMA ImageLines ==
    ASSUME ToolInv, ImageInv, WriteLines
    PROVE  ImageInv'
<1>. DEFINE rows == [k \in 1 .. Len(LineTable) |-> W32(LineTable[k].pc) \o W32(LineTable[k].line)]
            eights == [k \in 1 .. Len(LineTable) |-> 8]
            size == 18 + CodeEnd(program, written)
            long == 8 * Len(Code)
<1>1. phase = "code" /\ written = Len(program) /\ program' = program /\ written' = 0
      /\ phase' = "labels"
  BY DEF WriteLines
<1>2. program \in Seq(Accepted) /\ output \in Seq(Byte) /\ HeaderStands /\ Len(output) = size
  BY <1>1 DEF ToolInv, ImageInv
<1>3. output' = output \o FlattenSeq(rows)
  BY Zenon DEF WriteLines
<1>4. LineTable \in Seq(LineRow) /\ Len(LineTable) = Len(Code) /\ Len(LineTable) \in Nat
  BY <1>2, LineTableType, RowsOfCode
<1>5. ASSUME NEW k \in 1 .. Len(LineTable)
      PROVE  Bytes(W32(LineTable[k].pc) \o W32(LineTable[k].line), 8)
  <2>1. LineTable[k].pc \in Int /\ LineTable[k].line \in Int
    <3>1. \A row \in LineRow : row.pc \in Int /\ row.line \in Int
      BY DEF LineRow
    <3>2. LineTable[k] \in LineRow
      BY <1>4
    <3>. QED  BY <3>1, <3>2
  <2>. QED  BY <2>1, W32Type, JoinBytes
<1>6. rows \in Seq(Seq(Byte)) /\ Len(rows) = Len(LineTable)
      /\ \A k \in 1 .. Len(LineTable) : Len(rows[k]) = 8
  BY <1>4, <1>5 DEF Bytes
<1>7. eights \in Seq(Int) /\ Len(eights) = Len(LineTable)
      /\ \A k \in 1 .. Len(LineTable) : eights[k] = 8
  BY <1>4
<1>. HIDE DEF rows, eights
<1>8. Bytes(FlattenSeq(rows), long)
  <2>1. Len(FlattenSeq(rows)) = SumSeq(eights)
    BY <1>6, <1>7, FlattenLength
  <2>2. SumSeq(eights) = 8 * Len(LineTable)
    BY <1>7, SumOfEights
  <2>3. FlattenSeq(rows) \in Seq(Byte)
    BY <1>6, FlattenType
  <2>. QED  BY <1>4, <2>1, <2>2, <2>3 DEF Bytes
<1>9. CodeSize = CodeEnd(program, written) /\ CodeSize \in Nat /\ TablesAt \in Nat
  BY <1>1, <1>2, AddressIsEnd
<1>10. long \in Nat
  BY <1>4
<1>11. Bytes(output, size) /\ size \in Nat /\ size >= 18 /\ size + long = TablesAt
  <2>. HIDE DEF long
  <2>1. TablesAt = 18 + CodeSize + long
    BY Zenon DEF TablesAt, long
  <2>. QED  BY <1>2, <1>9, <1>10, <2>1 DEF Bytes
<1>. HIDE DEF size, long
<1>12. HeaderStands'
  BY <1>1, <1>2, <1>3, <1>8, <1>10, <1>11, HeaderStays
<1>13. Bytes(output', TablesAt)
  BY <1>3, <1>8, <1>10, <1>11, JoinBytes
<1>14. CodeSize' = CodeSize /\ Code' = Code /\ Labels' = Labels
  BY <1>1 DEF CodeSize, AddressOf, Code, Labels, CodePlaces, LabelPlaces
<1>15. TableEnd(Labels, TablesAt, 0) = TablesAt /\ Len(Labels) \in Nat
  <2>1. Labels \in Seq(Accepted) /\ 0 \in 0 .. Len(Labels)
    BY <1>2, LabelsType
  <2>. QED  BY <1>9, <2>1, TableEnds
<1>16. TablesAt' = TablesAt
  BY <1>14 DEF TablesAt
<1>17. Len(output') = TableEnd(Labels', TablesAt', written') /\ written' <= Len(Labels')
  BY <1>1, <1>13, <1>14, <1>15, <1>16 DEF Bytes
<1>18. LabelsStand(Labels', TablesAt', output', written')
  BY <1>1 DEF LabelsStand
<1>. QED  BY <1>1, <1>12, <1>17, <1>18 DEF ImageInv

(* The length of a label stands four bytes behind where its entry begins.  *)
LEMMA LabelLength ==
    ASSUME NEW name \in Names, NEW addr \in Int, NEW o, NEW m \in Nat, Bytes(o, m)
    PROVE  Stands(W16(Len(Spelling(name))), o \o LabelBytes(name, addr), m + 4)
<1>. DEFINE len == Len(Spelling(name))
            head == W32(addr) \o W16(len)
            entry == LabelBytes(name, addr)
<1>1. len \in Nat /\ Bytes(Spelling(name), len) /\ Bytes(entry, 6 + len)
  BY SpellingType, LabelBytesType DEF Bytes
<1>2. entry = head \o Spelling(name)
  BY Zenon DEF LabelBytes
<1>. HIDE DEF entry, len
<1>3. Bytes(W32(addr), 4) /\ Bytes(W16(len), 2)
  BY <1>1, W32Type, W16Type
<1>4. Bytes(head, 6) /\ Stands(W16(len), head, 4)
  BY <1>3, JoinBytes, StandsBehind
<1>. HIDE DEF head
<1>5. Len(W16(len)) = 2
  BY <1>3 DEF Bytes
<1>6. Stands(W16(len), entry, 4)
  <2>1. 4 + Len(W16(len)) <= 6 /\ Len(W16(len)) \in Nat
    BY <1>5
  <2>. QED  BY <1>1, <1>2, <1>4, <2>1, StandsStill
<1>7. Stands(entry, o \o entry, m) /\ 6 + len \in Nat /\ Len(entry) = 6 + len
  <2>1. 6 + len \in Nat
    BY <1>1
  <2>. QED  BY <1>1, <2>1, StandsBehind DEF Bytes
<1>8. ASSUME NEW k \in 1 .. 2
      PROVE  (o \o entry)[(m + 4) + k] = W16(len)[k]
  <2>1. 4 + k \in 1 .. 6 + len /\ m + (4 + k) = (m + 4) + k
    BY <1>1
  <2>2. (o \o entry)[m + (4 + k)] = entry[4 + k]
    BY <1>7, <2>1 DEF Stands
  <2>3. entry[4 + k] = W16(len)[k]
    BY <1>5, <1>6 DEF Stands
  <2>. QED  BY <2>1, <2>2, <2>3
<1>9. Stands(W16(len), o \o entry, m + 4)
  BY <1>5, <1>8 DEF Stands
<1>. QED  BY <1>9 DEF len, entry

LEMMA ImageLabel ==
    ASSUME ToolInv, ImageInv, WriteLabel
    PROVE  ImageInv'
<1>. DEFINE name == Labels[written + 1].label
            len == Len(Spelling(name))
            size == TableEnd(Labels, TablesAt, written)
            entry == LabelBytes(name, LabelAddress[name])
<1>1. phase = "labels" /\ written < Len(Labels) /\ program' = program
  BY DEF WriteLabel
<1>2. /\ program \in Seq(Accepted) /\ written \in Nat /\ output \in Seq(Byte) /\ HeaderStands
      /\ Len(output) = size /\ LabelsStand(Labels, TablesAt, output, written)
  BY <1>1 DEF ToolInv, ImageInv
<1>3. /\ Labels \in Seq(Accepted) /\ Len(Labels) \in Nat /\ TablesAt \in Nat /\ TablesAt >= 18
      /\ written + 1 \in 1 .. Len(Labels) /\ written \in 0 .. Len(Labels)
  <2>1. CodeSize \in Nat /\ Len(Code) \in Nat /\ Len(Labels) \in Nat
    BY <1>2, AddressIsEnd, LabelsType
  <2>2. TablesAt >= 18
    BY <2>1 DEF TablesAt
  <2>. QED  BY <1>1, <1>2, <2>1, <2>2, LabelsType, AddressIsEnd
<1>4. name \in Names /\ LabelAddress[name] \in Int
  BY <1>2, <1>3, LabelsType, LabelAddressType
<1>5. size \in Nat /\ size >= 18
  <2>1. 0 \in 0 .. written
    BY <1>2
  <2>2. /\ size \in Nat /\ TableEnd(Labels, TablesAt, 0) = TablesAt
        /\ \A k \in 0 .. written : TableEnd(Labels, TablesAt, k) =< size
    BY <1>3, TableEnds
  <2>. HIDE DEF size
  <2>. QED  BY <1>3, <2>1, <2>2
<1>6. len \in Nat /\ TableEnd(Labels, TablesAt, written + 1) = size + 6 + len
  <2>1. written + 1 \in 0 .. Len(Labels) /\ written + 1 # 0 /\ (written + 1) - 1 = written
    BY <1>2, <1>3
  <2>2. \A n \in 0 .. Len(Labels) :
           n # 0 => TableEnd(Labels, TablesAt, n)
                       = TableEnd(Labels, TablesAt, n - 1) + 6 + Len(Spelling(Labels[n].label))
    BY <1>3, TableEnds
  <2>3. TableEnd(Labels, TablesAt, written + 1)
           = TableEnd(Labels, TablesAt, (written + 1) - 1) + 6 + Len(Spelling(Labels[written + 1].label))
    BY <2>1, <2>2, Zenon
  <2>4. len \in Nat
    BY <1>4, SpellingType
  <2>. QED  BY <2>1, <2>3, <2>4
<1>7. CASE len > TextMax
  <2>1. RemoveOutput
    BY <1>7, Zenon DEF WriteLabel
  <2>. QED  BY <2>1, ImageRemoved
<1>8. CASE ~(len > TextMax)
  <2>1. output' = output \o entry /\ written' = written + 1 /\ phase' = phase
    BY <1>8, Zenon DEF WriteLabel
  <2>2. Bytes(output, size) /\ Bytes(entry, 6 + len) /\ 6 + len \in Nat
    BY <1>2, <1>4, <1>6, LabelBytesType DEF Bytes
  <2>3. Stands(W16(len), output \o entry, size + 4)
    BY <1>4, <1>5, <2>2, LabelLength
  <2>4. len <= 65535
    <3>1. TextMax \in Int /\ TextMax <= 65535
      BY TextMaxFits
    <3>. HIDE DEF len
    <3>. QED  BY <1>6, <1>8, <3>1, SMT
  <2>5. LabelsStand(Labels, TablesAt, output \o entry, written)
    BY <1>2, <1>3, <2>2, LabelsStay
  <2>6. HeaderStands'
    BY <1>1, <1>2, <1>5, <2>1, <2>2, HeaderStays
  <2>7. Len(output') = TableEnd(Labels, TablesAt, written + 1)
    <3>1. Bytes(output \o entry, size + (6 + len))
      BY <1>5, <2>2, JoinBytes
    <3>. HIDE DEF size, len, entry
    <3>. QED  BY <1>5, <1>6, <2>1, <3>1 DEF Bytes
  <2>8. LabelsStand(Labels, TablesAt, output \o entry, written + 1)
    <3>. SUFFICES ASSUME NEW k \in 1 .. written + 1
         PROVE  LengthStands(Labels, TablesAt, output \o entry, k)
      BY Zenon DEF LabelsStand
    <3>1. CASE k \in 1 .. written
      BY <2>5, <3>1, Zenon DEF LabelsStand
    <3>2. CASE k = written + 1
      <4>1. k - 1 = written
        BY <1>2, <3>2
      <4>. QED  BY <2>3, <2>4, <3>2, <4>1, SMT DEF LengthStands
    <3>3. k \in 1 .. written \/ k = written + 1
      BY <1>2
    <3>. QED  BY <3>1, <3>2, <3>3
  <2>9. CodeSize' = CodeSize /\ Code' = Code /\ Labels' = Labels
    BY <1>1 DEF CodeSize, AddressOf, Code, Labels, CodePlaces, LabelPlaces
  <2>10. TablesAt' = TablesAt
    BY <2>9 DEF TablesAt
  <2>11. /\ Len(output') = TableEnd(Labels', TablesAt', written')
         /\ LabelsStand(Labels', TablesAt', output', written')
         /\ written' <= Len(Labels')
    <3>. HIDE DEF entry
    <3>. QED  BY <1>3, <2>1, <2>7, <2>8, <2>9, <2>10
  <2>. QED  BY <1>1, <2>1, <2>6, <2>11 DEF ImageInv
<1>. QED  BY <1>7, <1>8

LEMMA ImageClosed ==
    ASSUME ImageInv, Close
    PROVE  ImageInv'
<1>1. phase = "labels" /\ phase' = "done" /\ written = Len(Labels)
      /\ UNCHANGED <<program, output, written>>
  BY DEF Close
<1>2. CodeSize' = CodeSize /\ Code' = Code /\ Labels' = Labels
  BY <1>1 DEF CodeSize, AddressOf, Code, Labels, CodePlaces, LabelPlaces
<1>3. TablesAt' = TablesAt
  BY <1>2 DEF TablesAt
<1>4. HeaderStands' = HeaderStands
  BY <1>1, <1>2 DEF HeaderStands
<1>5. LabelsStand(Labels', TablesAt', output', written') = LabelsStand(Labels, TablesAt, output, written)
      /\ TableEnd(Labels', TablesAt', written') = TableEnd(Labels, TablesAt, written)
  BY <1>1, <1>2, <1>3
<1>. QED  BY <1>1, <1>2, <1>4, <1>5 DEF ImageInv

\* Until the sources have been read nothing is written.
LEMMA UnreadPhase ==
    ASSUME ToolInv, Preprocess \/ EndOfSource
    PROVE  phase' \in {"reading", "layout", "failed"}
<1>1. phase = "reading"
  BY DEF Preprocess, EndOfSource, ReadLine, EndOfHeader
<1>2. CASE EndOfSource
  BY <1>1, <1>2 DEF EndOfSource
<1>3. CASE Preprocess
  <2>1. PreInv /\ files # <<>>
    BY <1>1 DEF ToolInv
  <2>2. Goes \/ Stops
    BY <1>3, <2>1, ReadLineStep, EndOfHeaderStep DEF Preprocess
  <2>. QED  BY <1>1, <2>2 DEF Goes, Stops
<1>. QED  BY <1>2, <1>3

LEMMA ImageUnread ==
    ASSUME ToolInv, ImageInv, Preprocess \/ EndOfSource
    PROVE  ImageInv'
<1>1. phase = "reading" /\ written' = written
  BY DEF Preprocess, EndOfSource, ReadLine, EndOfHeader
<1>2. written' = 0
  BY <1>1 DEF ImageInv
<1>. QED  BY <1>2, UnreadPhase DEF ImageInv

LEMMA ImageInvariant == Spec => []ImageInv
<1>1. Init => ImageInv
  BY DEF Init, PreInit, ImageInv
<1>2. ToolInv /\ ImageInv /\ [Next]_toolVars => ImageInv'
  <2>. SUFFICES ASSUME ToolInv, ImageInv, [Next]_toolVars PROVE ImageInv'
    OBVIOUS
  <2>1. CASE UNCHANGED toolVars
    BY <2>1, ImageKept DEF toolVars
  <2>2. CASE Next
    BY <2>2, ImageUnread, ImageLayout, ImageStatement, ImageLines, ImageLabel, ImageClosed DEF Next
  <2>. QED  BY <2>1, <2>2
<1>. QED  BY <1>1, <1>2, ToolInvariant, PTL DEF Spec

-----------------------------------------------------------------------------
(* What is cut off before the end of its label table is refused.           *)

\* The sizes in the header fit in the 32 bits they are written in.
Representable ==
    CodeSize <= 4294967295 /\ Len(Code) <= 4294967295 /\ Len(Labels) <= 4294967295

LEMMA StandsInPrefix ==
    ASSUME NEW o \in Seq(Byte), NEW n \in 0 .. Len(o), NEW u, NEW at \in Nat, Len(u) \in Nat,
           at + Len(u) <= n, Stands(u, o, at)
    PROVE  Stands(u, SubSeq(o, 1, n), at)
<1>1. \A i \in 1 .. n : SubSeq(o, 1, n)[i] = o[i]
  OBVIOUS
<1>2. \A k \in 1 .. Len(u) : at + k \in 1 .. n
  OBVIOUS
<1>. QED  BY <1>1, <1>2 DEF Stands

\* The label table grows with every label.
LEMMA TableGrows ==
    ASSUME program \in Seq(Accepted), NEW k \in 0 .. Len(Labels)
    PROVE  /\ TableEnd(Labels, TablesAt, k) \in Nat
           /\ k < Len(Labels) => TableEnd(Labels, TablesAt, k) < TableEnd(Labels, TablesAt, Len(Labels))
           /\ \A i \in 0 .. k : TableEnd(Labels, TablesAt, i) <= TableEnd(Labels, TablesAt, k)
           /\ k # 0 => /\ Len(Spelling(Labels[k].label)) \in Nat
                       /\ TableEnd(Labels, TablesAt, k)
                             = TableEnd(Labels, TablesAt, k - 1) + 6 + Len(Spelling(Labels[k].label))
<1>1. Labels \in Seq(Accepted) /\ TablesAt \in Nat /\ Len(Labels) \in Nat
  BY LabelsType, AddressIsEnd
<1>. DEFINE end(i) == TableEnd(Labels, TablesAt, i)
            long(i) == Len(Spelling(Labels[i].label))
<1>2. ASSUME NEW n \in 0 .. Len(Labels)
      PROVE  /\ end(n) \in Nat /\ \A i \in 0 .. n : end(i) <= end(n)
             /\ n # 0 => long(n) \in Nat /\ end(n) = end(n - 1) + 6 + long(n)
  BY <1>1, TableEnds
<1>. HIDE DEF end, long
<1>3. k < Len(Labels) => end(k) < end(Len(Labels))
  <2>. SUFFICES ASSUME k < Len(Labels) PROVE end(k) < end(Len(Labels))
    OBVIOUS
  <2>1. /\ k + 1 \in 0 .. Len(Labels) /\ k + 1 # 0 /\ (k + 1) - 1 = k
        /\ Len(Labels) \in 0 .. Len(Labels)
    BY <1>1
  <2>2. end(k) \in Nat /\ end(k + 1) \in Nat /\ long(k + 1) \in Nat
        /\ end(k + 1) = end(k) + 6 + long(k + 1)
    BY <1>2, <2>1
  <2>3. end(k + 1) <= end(Len(Labels)) /\ end(Len(Labels)) \in Nat
    BY <1>2, <2>1
  <2>. QED  BY <2>2, <2>3
<1>. QED  BY <1>2, <1>3 DEF end, long

\* w labels have been written, and the file ends with the last of them or
\* before.
LEMMA CutOff ==
    ASSUME program \in Seq(Accepted), Representable, HeaderStands, output \in Seq(Byte),
           NEW w \in 0 .. Len(Labels), LabelsStand(Labels, TablesAt, output, w),
           NEW n \in 0 .. Len(output), n <= TableEnd(Labels, TablesAt, w),
           n < TableEnd(Labels, TablesAt, Len(Labels))
    PROVE  ~LoadFile(SubSeq(output, 1, n)).ok
<1>. DEFINE b == SubSeq(output, 1, n)
            count == Len(Labels)
            end(k) == TableEnd(Labels, TablesAt, k)
            long(k) == Len(Spelling(Labels[k].label))
            ends == [k \in 0 .. count |-> end(k)]
<1>1. b \in Seq(Byte) /\ Len(b) = n /\ n \in Nat
  OBVIOUS
<1>2. CodeSize \in Nat /\ Len(Code) \in Nat /\ count \in Nat
  BY AddressIsEnd, LabelsType
<1>3. n >= 18 => R32(b, 6) = CodeSize /\ R32(b, 10) = Len(Code) /\ R32(b, 14) = count
  <2>1. ASSUME n >= 18, NEW v \in Nat, v <= 4294967295, NEW at \in {6, 10, 14},
               Stands(W32(v), output, at)
        PROVE  R32(b, at) = v
    <3>1. Len(W32(v)) = 4
      BY W32Type DEF Bytes
    <3>2. at \in Nat /\ Len(W32(v)) \in Nat /\ at + Len(W32(v)) <= n
      BY <1>1, <2>1, <3>1, SMT
    <3>3. Stands(W32(v), output, at)
      BY <2>1, SMT
    <3>4. Stands(W32(v), b, at)
      BY <3>2, <3>3, StandsInPrefix
    <3>. QED  BY <2>1, <3>4, R32OfW32, SMT
  <2>. HIDE DEF b
  <2>2. n >= 18 => R32(b, 6) = CodeSize
    BY <1>2, <2>1, SMT DEF Representable, HeaderStands
  <2>3. n >= 18 => R32(b, 10) = Len(Code)
    BY <1>2, <2>1, SMT DEF Representable, HeaderStands
  <2>4. n >= 18 => R32(b, 14) = count
    BY <1>2, <2>1, SMT DEF Representable, HeaderStands
  <2>. QED  BY <2>2, <2>3, <2>4
<1>4. ASSUME NEW k \in 0 .. count
      PROVE  /\ end(k) \in Nat /\ \A i \in 0 .. k : end(i) <= end(k)
             /\ k # 0 => long(k) \in Nat /\ end(k) = end(k - 1) + 6 + long(k)
  BY TableGrows
<1>5. ASSUME NEW k \in 1 .. count, end(k - 1) + 6 <= n
      PROVE  end(k) = end(k - 1) + 6 + R16(b, end(k - 1) + 4)
  <2>1. k \in 0 .. count /\ k - 1 \in 0 .. count /\ k # 0
    BY <1>2
  <2>2. k \in 1 .. w
    <3>1. end(w) \in Nat /\ end(k - 1) \in Nat /\ n <= end(w)
      BY <1>4, <2>1
    <3>2. w <= k - 1 => end(w) <= end(k - 1)
      <4>1. w <= k - 1 => w \in 0 .. k - 1
        OBVIOUS
      <4>. QED  BY <1>4, <2>1, <4>1
    <3>. HIDE DEF end
    <3>. QED  BY <1>1, <1>5, <3>1, <3>2
  <2>3. long(k) <= 65535
    BY <2>2, SMT DEF LabelsStand, LengthStands
  <2>10. Stands(W16(long(k)), output, end(k - 1) + 4)
    BY <2>2, SMT DEF LabelsStand, LengthStands
  <2>4. long(k) \in Nat /\ end(k - 1) \in Nat /\ end(k) = end(k - 1) + 6 + long(k)
    BY <1>4, <2>1
  <2>. HIDE DEF long, end
  <2>5. Len(W16(long(k))) = 2
    BY <2>4, W16Type DEF Bytes
  <2>6. /\ end(k - 1) + 4 \in Nat /\ Len(W16(long(k))) \in Nat
        /\ (end(k - 1) + 4) + Len(W16(long(k))) <= n
    BY <1>1, <1>5, <2>4, <2>5
  <2>7. Stands(W16(long(k)), b, end(k - 1) + 4)
    BY <2>6, <2>10, StandsInPrefix
  <2>. HIDE DEF b
  <2>8. R16(b, end(k - 1) + 4) = long(k)
    BY <2>3, <2>4, <2>7, R16OfW16, SMT
  <2>. QED  BY <2>4, <2>8
<1>6. end(0) = 18 + CodeSize + 8 * Len(Code)
  <2>1. Labels \in Seq(Accepted) /\ TablesAt \in Nat /\ 0 \in 0 .. count
    BY <1>2, LabelsType, AddressIsEnd
  <2>2. end(0) = TablesAt
    BY <2>1, TableEnds
  <2>. QED  BY <2>2 DEF TablesAt
<1>. HIDE DEF end, b
<1>7. EndsOf(b, ends, count)
  <2>1. ends \in [0 .. count -> Nat] /\ \A k \in 0 .. count : ends[k] = end(k)
    BY <1>4
  <2>2. \A k \in 1 .. count : k \in 0 .. count /\ k - 1 \in 0 .. count
    BY <1>2
  <2>. HIDE DEF ends, count
  <2>. QED  BY <1>1, <1>5, <2>1, <2>2 DEF EndsOf
<1>8. ends[0] = 18 + CodeSize + 8 * Len(Code) /\ Len(b) < ends[count]
  <2>1. 0 \in 0 .. count /\ count \in 0 .. count
    BY <1>2
  <2>. QED  BY <1>1, <1>6, <2>1 DEF end
<1>. HIDE DEF ends, count
<1>9. Len(b) >= 18 => R32(b, 6) = CodeSize /\ R32(b, 10) = Len(Code) /\ R32(b, 14) = count
  BY <1>1, <1>3
<1>10. ~LoadFile(b).ok
  BY <1>1, <1>2, <1>7, <1>8, <1>9, CutOffIsRefused
<1>. QED  BY <1>10 DEF b

(* While the second pass writes the statements the label table has not     *)
(* begun.                                                                  *)
LEMMA CodeIsBefore ==
    ASSUME program \in Seq(Accepted), program # <<>>, NEW k \in 0 .. Len(program)
    PROVE  /\ 18 + CodeEnd(program, k) \in Nat
           /\ 18 + CodeEnd(program, k) <= TableEnd(Labels, TablesAt, 0)
           /\ 18 + CodeEnd(program, k) < TableEnd(Labels, TablesAt, Len(Labels))
<1>1. program \in Seq(StatementType) /\ Len(program) \in 0 .. Len(program) /\ Len(program) \in Nat
      /\ Len(program) # 0
  BY DEF Accepted
<1>2. CodeEnd(program, k) \in Nat /\ CodeEnd(program, k) <= CodeSize /\ CodeSize \in Nat
  <2>1. CodeSize = CodeEnd(program, Len(program)) /\ CodeSize \in Nat
    BY AddressIsEnd
  <2>2. CodeEnd(program, k) \in Nat
    BY <1>1, CodeEnds
  <2>3. CodeEnd(program, k) <= CodeEnd(program, Len(program))
    BY <1>1, CodeEnds
  <2>. QED  BY <2>1, <2>2, <2>3
<1>3. Len(Code) \in Nat /\ Len(Labels) \in Nat /\ Len(Labels) + Len(Code) = Len(program)
      /\ Labels \in Seq(Accepted) /\ TablesAt \in Nat /\ 0 \in 0 .. Len(Labels)
  BY RowsOfCode, LabelsType, AddressIsEnd
<1>4. TableEnd(Labels, TablesAt, 0) = TablesAt
  BY <1>3, TableEnds
<1>5. TablesAt = 18 + CodeSize + 8 * Len(Code)
  BY DEF TablesAt
<1>6. TablesAt <= TableEnd(Labels, TablesAt, Len(Labels))
      /\ TableEnd(Labels, TablesAt, Len(Labels)) \in Nat
  <2>1. Len(Labels) \in 0 .. Len(Labels) /\ 0 \in 0 .. Len(Labels)
    BY <1>3
  <2>. QED  BY <1>4, <2>1, TableGrows
<1>7. 0 < Len(Labels) => TablesAt < TableEnd(Labels, TablesAt, Len(Labels))
  BY <1>3, <1>4, TableGrows
<1>. QED  BY <1>1, <1>2, <1>3, <1>4, <1>5, <1>6, <1>7

(* What a loader finds before the last byte has been written is refused,   *)
(* wherever it is cut off, and a compilation that failed leaves the        *)
(* previous output or none - for every program whose code size and whose   *)
(* numbers of instructions and of labels fit in the header (compiler.c:121,*)
(* vm.c:443-491).                                                          *)
THEOREM PartialProgramsAreRefused == Spec => [](Representable => NoPartialProgram)
<1>1. ToolInv /\ ImageInv => (Representable => NoPartialProgram)
  <2>. SUFFICES ASSUME ToolInv, ImageInv, Representable PROVE NoPartialProgram
    OBVIOUS
  <2>1. program \in Seq(Accepted) /\ written \in 0 .. Len(program)
    BY DEF ToolInv
  <2>2. Len(Labels) \in Nat /\ 0 \in 0 .. Len(Labels)
    BY <2>1, LabelsType
  <2>3. ASSUME phase \in {"code", "labels", "done"}
        PROVE  /\ HeaderStands /\ output \in Seq(Byte) /\ SubSeq(output, 1, Len(output)) = output
               /\ Len(output) \in 0 .. Len(output)
    BY <2>3 DEF ToolInv, ImageInv
  <2>4. ASSUME phase \in {"labels", "done"}
        PROVE  /\ written \in 0 .. Len(Labels) /\ Len(output) = TableEnd(Labels, TablesAt, written)
               /\ LabelsStand(Labels, TablesAt, output, written)
    BY <2>1, <2>2, <2>4 DEF ImageInv
  <2>5. ASSUME phase = "code", program # <<>> PROVE ~LoadFile(output).ok
    <3>1. Len(output) = 18 + CodeEnd(program, written)
      BY <2>5 DEF ImageInv
    <3>2. LabelsStand(Labels, TablesAt, output, 0)
      BY DEF LabelsStand
    <3>3. Len(output) <= TableEnd(Labels, TablesAt, 0)
          /\ Len(output) < TableEnd(Labels, TablesAt, Len(Labels))
      BY <2>1, <2>5, <3>1, CodeIsBefore
    <3>4. ~LoadFile(SubSeq(output, 1, Len(output))).ok
      BY <2>1, <2>2, <2>3, <2>5, <3>2, <3>3, CutOff
    <3>. QED  BY <2>3, <2>5, <3>4
  <2>6. ASSUME phase = "labels", written < Len(Labels) PROVE ~LoadFile(output).ok
    <3>1. Len(output) < TableEnd(Labels, TablesAt, Len(Labels)) /\ Len(output) \in Nat
      BY <2>1, <2>4, <2>6, TableGrows
    <3>2. Len(output) <= TableEnd(Labels, TablesAt, written)
      BY <2>4, <2>6, <3>1
    <3>3. ~LoadFile(SubSeq(output, 1, Len(output))).ok
      BY <2>1, <2>3, <2>4, <2>6, <3>1, <3>2, CutOff
    <3>. QED  BY <2>3, <2>6, <3>3
  <2>7. ASSUME phase = "done", NEW n \in 0 .. (Len(output) - 1)
        PROVE  ~LoadFile(SubSeq(output, 1, n)).ok
    <3>1. written = Len(Labels) /\ n \in 0 .. Len(output)
      BY <2>3, <2>7 DEF ImageInv
    <3>2. n < Len(output) /\ n <= Len(output)
      BY <2>3, <2>7
    <3>3. n <= TableEnd(Labels, TablesAt, written) /\ n < TableEnd(Labels, TablesAt, Len(Labels))
      BY <2>4, <2>7, <3>1, <3>2
    <3>. QED  BY <2>1, <2>3, <2>4, <2>7, <3>1, <3>3, CutOff
  <2>8. phase = "failed" => output \in {Previous, Absent}
    BY DEF ToolInv
  <2>. QED  BY <2>5, <2>6, <2>7, <2>8, Zenon DEF NoPartialProgram, Unfinished
<1>. QED  BY <1>1, ToolInvariant, ImageInvariant, PTL

-----------------------------------------------------------------------------
(* What stands in the file is read back: numbers, texts and operands.      *)

(* A number with a sign is read back from the four bytes it is written in. *)
LEMMA Int32OfW32 ==
    ASSUME NEW v \in Int, -2147483647 - 1 <= v, v <= 2147483647, NEW b, NEW at, Stands(W32(v), b, at)
    PROVE  Int32(b, at) = v
<1>1. /\ Len(W32(v)) = 4 /\ W32(v)[1] = v % 256 /\ W32(v)[2] = (v \div 256) % 256
      /\ W32(v)[3] = (v \div 65536) % 256 /\ W32(v)[4] = (v \div 16777216) % 256
  BY SMT DEF W32, W16
<1>2. /\ b[at + 1] = v % 256 /\ b[at + 2] = (v \div 256) % 256
      /\ b[at + 3] = (v \div 65536) % 256 /\ b[at + 4] = (v \div 16777216) % 256
  BY <1>1, SMT DEF Stands
<1>. DEFINE low == ((v % 256) + 256 * ((v \div 256) % 256)) + 65536 * ((v \div 65536) % 256)
            top == (v \div 16777216) % 256
<1>. DEFINE z == top - IF top > 127 THEN 256 ELSE 0
            q == v \div 16777216
            r == v % 16777216
<1>3. Int32(b, at) = low + 16777216 * z
  <2>1. Int32(b, at) = (b[at + 1] + 256 * b[at + 2]) + 65536 * b[at + 3]
                       + 16777216 * (b[at + 4] - IF b[at + 4] > 127 THEN 256 ELSE 0)
    BY SMT DEF Int32, R16
  <2>. QED  BY <1>2, <2>1, SMT
<1>4. low = r /\ v = 16777216 * q + r
  BY SMT
<1>5. z = q
  BY SMT
<1>6. q \in Int /\ r \in Int
  BY SMT
<1>. HIDE DEF low, z, q, r
<1>. QED  BY <1>3, <1>4, <1>5, <1>6, SMT

(* What stands as one sequence stands as its parts.                        *)
LEMMA StandsInParts ==
    ASSUME NEW s, NEW t, NEW m \in Nat, NEW n \in Nat, Bytes(s, m), Bytes(t, n),
           NEW b, NEW at \in Nat, Stands(s \o t, b, at)
    PROVE  Stands(s, b, at) /\ Stands(t, b, at + m)
<1>1. Len(s) = m /\ Len(t) = n /\ Len(s \o t) = m + n
  BY JoinBytes DEF Bytes
<1>2. Stands(t, s \o t, m) /\ \A i \in 1 .. m : (s \o t)[i] = s[i]
  BY StandsBehind
<1>3. ASSUME NEW i \in 1 .. m PROVE b[at + i] = s[i]
  <2>1. i \in 1 .. m + n
    OBVIOUS
  <2>. QED  BY <1>1, <1>2, <2>1 DEF Stands
<1>4. ASSUME NEW i \in 1 .. n PROVE b[(at + m) + i] = t[i]
  <2>1. m + i \in 1 .. m + n /\ at + (m + i) = (at + m) + i
    OBVIOUS
  <2>2. b[at + (m + i)] = (s \o t)[m + i] /\ (s \o t)[m + i] = t[i]
    BY <1>1, <1>2, <2>1 DEF Stands
  <2>. QED  BY <2>1, <2>2
<1>. QED  BY <1>1, <1>3, <1>4 DEF Stands

(* Reading as many bytes gives them back.                                  *)
LEMMA StandsIsRead ==
    ASSUME NEW b \in Seq(Byte), NEW t, NEW n \in Nat, Bytes(t, n), NEW at \in Nat,
           at + n <= Len(b), Stands(t, b, at)
    PROVE  SubSeq(b, at + 1, at + n) = t
<1>1. t \in Seq(Byte) /\ Len(t) = n
  BY DEF Bytes
<1>2. \A k \in 1 .. n : b[at + k] = t[k]
  BY <1>1 DEF Stands
<1>. DEFINE u == SubSeq(b, at + 1, at + n)
<1>3. u \in Seq(Byte) /\ Len(u) = n
  <2>. HIDE DEF Byte
  <2>1. \A k \in at + 1 .. at + n : k \in 1 .. Len(b)
    OBVIOUS
  <2>. QED  BY <2>1
<1>4. \A k \in 1 .. n : u[k] = b[at + k]
  OBVIOUS
<1>. HIDE DEF u
<1>5. \A k \in 1 .. n : u[k] = t[k]
  BY <1>2, <1>4
<1>6. u = [k \in 1 .. n |-> u[k]] /\ t = [k \in 1 .. n |-> t[k]]
  BY <1>1, <1>3
<1>. QED  BY <1>5, <1>6 DEF u

\* The number written of an operand that is no text.
ValueOf(o, address) == IF o.type = AddressTag THEN address[o.s] ELSE o.v

\* An operand whose value fits in the bytes it is written in: an address is
\* read back as a number with a sign.
Readable(o, address) ==
    /\ o.type = AddressTag => address[o.s] \in Nat /\ address[o.s] <= 2147483647
    /\ o.type \in TextOperands => Len(Spelling(o.s)) <= 65535

\* What the decoder is to make of an operand.
ReadOf(o, address) ==
    IF o.type \in TextOperands THEN [type |-> o.type, v |-> 0, bytes |-> Spelling(o.s)]
    ELSE [type |-> o.type, v |-> ValueOf(o, address), bytes |-> <<>>]

LEMMA WordReadBack ==
    ASSUME NEW o \in OperandType, NEW address, Readable(o, address),
           NEW b, NEW at, Stands(W32(ValueOf(o, address)), b, at)
    PROVE  Int32(b, at) = ValueOf(o, address)
<1>. DEFINE v == ValueOf(o, address)
<1>1. o.v \in Int32Values
  BY Zenon DEF OperandType
<1>2. v \in Int /\ -2147483647 - 1 <= v /\ v <= 2147483647
  BY <1>1, SMT DEF Int32Values, Readable, ValueOf
<1>. HIDE DEF v
<1>3. Stands(W32(v), b, at)
  BY DEF v
<1>4. Int32(b, at) = v
  BY <1>2, <1>3, Int32OfW32
<1>. QED  BY <1>4 DEF v

LEMMA TextFits ==
    ASSUME NEW o \in OperandType, NEW address, Readable(o, address), o.type \in TextOperands
    PROVE  Len(Spelling(o.s)) \in Nat /\ Len(Spelling(o.s)) <= 65535
<1>1. o.s \in Names
  BY Zenon DEF OperandType
<1>. QED  BY <1>1, SpellingType, SMT DEF Readable

LEMMA AddressIsInt ==
    ASSUME NEW o \in OperandType, NEW address, Readable(o, address)
    PROVE  /\ o.type = AddressTag => address[o.s] \in Int
           /\ ValueOf(o, address) \in Int
<1>1. o.type = AddressTag => address[o.s] \in Int
  BY SMT DEF Readable
<1>2. o.v \in Int
  BY Int32ValuesAreInt, Zenon DEF OperandType
<1>. QED  BY <1>1, <1>2, Zenon DEF ValueOf

(* The decoder takes the operand that was written.                         *)
LEMMA OperandReadBack ==
    ASSUME NEW o \in OperandType, NEW address, Readable(o, address),
           NEW code \in Seq(Byte), NEW d, d.ok, d.pc \in Nat,
           d.pc + OperandSize(o) <= Len(code), Stands(OperandBytes(o, address), code, d.pc)
    PROVE  DecodeOperand(code, d) = Taken(d, ReadOf(o, address), OperandSize(o))
<1>. DEFINE at == d.pc
            left == Len(code) - at
            tag == code[at + 1]
            n == R16(code, at + 1)
            word == [type |-> tag, v |-> Int32(code, at + 1), bytes |-> <<>>]
            text_ == [type |-> tag, v |-> 0, bytes |-> SubSeq(code, at + 4, at + 3 + n)]
            name == Spelling(o.s)
            len == Len(name)
            v == ValueOf(o, address)
<1>1. DecodeOperand(code, d) =
         IF ~d.ok THEN d
         ELSE IF left < 1 THEN Stopped(d, at)
         ELSE IF tag \in WordOperands THEN IF left < 5 THEN Stopped(d, at + 1) ELSE Taken(d, word, 5)
         ELSE IF tag \in TextOperands THEN
              IF left < 3 THEN Stopped(d, at + 1)
              ELSE IF left < 3 + n THEN Stopped(d, at + 3)
              ELSE Taken(d, text_, 3 + n)
         ELSE Stopped(d, at + 1)
  BY Zenon DEF DecodeOperand
<1>2. o.type \in 1 .. 5 /\ o.s \in Names /\ v \in Int
  <2>1. o.type \in 1 .. 5 /\ o.s \in Names
    BY Zenon DEF OperandType
  <2>. QED  BY <2>1, AddressIsInt
<1>3. len \in Nat /\ Bytes(name, len)
  BY <1>2, SpellingType DEF Bytes
<1>4. Bytes(<<o.type>>, 1) /\ <<o.type>>[1] = o.type /\ Len(<<o.type>>) = 1
  BY <1>2 DEF Bytes, Byte
<1>5. o.type \in TextOperands <=> ~(o.type \in WordOperands)
  BY <1>2 DEF TextOperands, WordOperands, StringTag, VarTag, IntTag, AddressTag, FloatTag
<1>6. OperandBytes(o, address) =
         <<o.type>> \o (IF o.type \in TextOperands THEN W16(len) \o name ELSE W32(v))
  BY Zenon DEF OperandBytes, ValueOf
<1>7. OperandSize(o) = IF o.type \in WordOperands THEN 5 ELSE 3 + len
  BY Zenon DEF OperandSize
<1>8. Bytes(W16(len), 2) /\ Bytes(W32(v), 4)
  BY <1>2, <1>3, W16Type, W32Type
<1>9. Bytes(W16(len) \o name, 2 + len)
  BY <1>3, <1>8, JoinBytes
<1>10. Len(code) \in Nat /\ at \in Nat /\ d.ok
  OBVIOUS
<1>11. ASSUME Stands(<<o.type>>, code, at) PROVE tag = o.type
  BY <1>4, <1>11 DEF Stands
<1>. HIDE DEF len, v, name
<1>12. CASE o.type \in WordOperands
  <2>1. Stands(<<o.type>> \o W32(v), code, at)
    BY <1>5, <1>6, <1>12
  <2>2. Stands(<<o.type>>, code, at) /\ Stands(W32(v), code, at + 1)
    BY <1>4, <1>8, <1>10, <2>1, StandsInParts
  <2>3. tag = o.type
    BY <1>11, <2>2
  <2>4. Int32(code, at + 1) = v
    BY <2>2, WordReadBack DEF v
  <2>5. OperandSize(o) = 5 /\ at + 5 <= Len(code)
    BY <1>7, <1>12
  <2>6. ~(left < 1) /\ ~(left < 5)
    BY <1>10, <2>5
  <2>7. word = ReadOf(o, address)
    BY <1>5, <1>12, <2>3, <2>4, Zenon DEF ReadOf, v
  <2>. HIDE DEF left, tag, word, text_, n, at
  <2>. QED  BY <1>1, <1>10, <1>12, <2>3, <2>5, <2>6, <2>7, Zenon
<1>13. CASE o.type \in TextOperands
  <2>1. Stands(<<o.type>> \o (W16(len) \o name), code, at)
    BY <1>6, <1>13
  <2>2. Stands(<<o.type>>, code, at) /\ Stands(W16(len) \o name, code, at + 1)
    <3>1. 2 + len \in Nat
      BY <1>3
    <3>. QED  BY <1>4, <1>9, <1>10, <2>1, <3>1, StandsInParts
  <2>3. Stands(W16(len), code, at + 1) /\ Stands(name, code, at + 3)
    <3>1. at + 1 \in Nat /\ (at + 1) + 2 = at + 3
      BY <1>10
    <3>. QED  BY <1>3, <1>8, <2>2, <3>1, StandsInParts
  <2>4. tag = o.type
    BY <1>11, <2>2
  <2>5. n = len
    <3>1. len \in Nat /\ len <= 65535
      BY <1>13, TextFits, SMT DEF len, name
    <3>. QED  BY <2>3, <3>1, R16OfW16
  <2>6. OperandSize(o) = 3 + len /\ at + (3 + len) <= Len(code)
    BY <1>5, <1>7, <1>13
  <2>. HIDE DEF at
  <2>7. ~(left < 1) /\ ~(left < 3) /\ ~(left < 3 + len)
    BY <1>3, <1>10, <2>6
  <2>8. SubSeq(code, at + 4, at + 3 + len) = name
    <3>1. at + 3 \in Nat /\ (at + 3) + 1 = at + 4 /\ (at + 3) + len <= Len(code)
          /\ (at + 3) + len = at + 3 + len
      BY <1>3, <1>10, <2>6
    <3>2. SubSeq(code, (at + 3) + 1, (at + 3) + len) = name
      BY <1>3, <2>3, <3>1, StandsIsRead
    <3>. QED  BY <3>1, <3>2
  <2>9. text_ = ReadOf(o, address)
    BY <1>13, <2>4, <2>5, <2>8, Zenon DEF ReadOf, name
  <2>. HIDE DEF left, tag, word, text_, n
  <2>10. ~(o.type \in WordOperands)
    BY <1>5, <1>13
  <2>. QED  BY <1>1, <1>10, <1>13, <2>4, <2>5, <2>6, <2>7, <2>9, <2>10, Zenon
<1>. QED  BY <1>5, <1>12, <1>13

-----------------------------------------------------------------------------
(* A whole instruction is decoded as it was written.                       *)

(* What stands as a concatenation stands as each of its parts.             *)
LEMMA StandsAsPart ==
    ASSUME NEW parts \in Seq(Seq(Byte)), NEW sizes \in Seq(Nat), Len(sizes) = Len(parts),
           \A i \in 1 .. Len(parts) : sizes[i] = Len(parts[i]),
           NEW b, NEW at \in Nat, Stands(FlattenSeq(parts), b, at), NEW i \in 1 .. Len(parts)
    PROVE  /\ SumSeq(SubSeq(sizes, 1, i - 1)) \in Nat
           /\ SumSeq(SubSeq(sizes, 1, i)) = SumSeq(SubSeq(sizes, 1, i - 1)) + sizes[i]
           /\ SumSeq(SubSeq(sizes, 1, i)) <= SumSeq(sizes)
           /\ Stands(parts[i], b, at + SumSeq(SubSeq(sizes, 1, i - 1)))
<1>. DEFINE n == Len(parts)
            off == SumSeq(SubSeq(sizes, 1, i - 1))
            size == Len(parts[i])
            all == SumSeq(sizes)
<1>1. n \in Nat /\ sizes \in Seq(Int) /\ i \in 1 .. Len(sizes) /\ i - 1 \in 0 .. Len(sizes)
      /\ i \in 0 .. Len(sizes) /\ Len(sizes) \in 0 .. Len(sizes) /\ SubSeq(sizes, 1, Len(sizes)) = sizes
      /\ size \in Nat /\ sizes[i] = size
  OBVIOUS
<1>2. off \in Nat /\ SumSeq(SubSeq(sizes, 1, i)) = off + size
  BY <1>1, SumIsMonotone, SumGrows
<1>3. SumSeq(SubSeq(sizes, 1, i)) <= all /\ all \in Nat
  <2>1. /\ SumSeq(SubSeq(sizes, 1, Len(sizes))) \in Nat
        /\ \A k \in 0 .. Len(sizes) : SumSeq(SubSeq(sizes, 1, k)) <= SumSeq(SubSeq(sizes, 1, Len(sizes)))
    BY <1>1, SumIsMonotone
  <2>. QED  BY <1>1, <2>1
<1>4. Len(FlattenSeq(parts)) = all
  BY <1>1, FlattenLength
<1>5. \A j \in 1 .. size : FlattenSeq(parts)[off + j] = parts[i][j]
  BY FlattenPlace
<1>. HIDE DEF off, size, all, n
<1>6. ASSUME NEW j \in 1 .. size PROVE b[(at + off) + j] = parts[i][j]
  <2>1. off + j \in 1 .. all /\ at + (off + j) = (at + off) + j
    BY <1>1, <1>2, <1>3
  <2>2. b[at + (off + j)] = FlattenSeq(parts)[off + j]
    BY <1>4, <2>1 DEF Stands
  <2>. QED  BY <1>5, <2>1, <2>2
<1>7. Stands(parts[i], b, at + off)
  BY <1>6 DEF Stands, size
<1>. QED  BY <1>1, <1>2, <1>3, <1>7 DEF off, all

LEMMA ReadOfType ==
    ASSUME NEW o \in OperandType, NEW address, Readable(o, address)
    PROVE  ReadOf(o, address) \in ReadOperand
<1>1. o.type \in 1 .. 5 /\ o.s \in Names
  BY Zenon DEF OperandType
<1>2. o.type \in Int /\ 0 \in Int /\ <<>> \in Seq(Byte)
  BY <1>1
<1>3. Spelling(o.s) \in Seq(Byte) /\ ValueOf(o, address) \in Int
  BY <1>1, SpellingType, AddressIsInt
<1>. QED  BY <1>2, <1>3, Zenon DEF ReadOf, ReadOperand

\* What the decoder is to make of the operands of a statement.
ReadsOf(st, address) == [j \in 1 .. Len(st.operands) |-> ReadOf(st.operands[j], address)]

LEMMA FetchedStarts ==
    ASSUME NEW pc, NEW op
    PROVE  [Fetched(pc) EXCEPT !.ok = TRUE, !.op = op]
              = [pc |-> pc + 2, ok |-> TRUE, halts |-> FALSE, op |-> op, operands |-> <<>>]
<1>1. SUFFICES ASSUME NEW r, r = Fetched(pc), NEW s, s = [r EXCEPT !.ok = TRUE, !.op = op]
               PROVE  s = [pc |-> pc + 2, ok |-> TRUE, halts |-> FALSE, op |-> op, operands |-> <<>>]
  OBVIOUS
<1>2. r = [pc |-> pc + 2, ok |-> FALSE, halts |-> FALSE, op |-> -1, operands |-> <<>>]
  BY <1>1 DEF Fetched
<1>3. s = [pc |-> s.pc, ok |-> s.ok, halts |-> s.halts, op |-> s.op, operands |-> s.operands]
  BY <1>1, <1>2
<1>4. s.pc = pc + 2 /\ s.ok = TRUE /\ s.halts = FALSE /\ s.op = op /\ s.operands = <<>>
  BY <1>1, <1>2
<1>. QED  BY <1>3, <1>4

(* Decoding where a statement has been written meets it.                   *)
LEMMA InstructionReadBack ==
    ASSUME NEW st \in Accepted, ~IsLabel(st), NEW address,
           \A i \in 1 .. Len(st.operands) : Readable(st.operands[i], address),
           NEW code \in Seq(Byte), NEW pc \in Nat, pc + StmtSize(st) <= Len(code),
           Stands(StmtBytes(st, address), code, pc)
    PROVE  Decode(code, pc) = [pc |-> pc + StmtSize(st), ok |-> TRUE, halts |-> FALSE,
                               op |-> st.op, operands |-> ReadsOf(st, address)]
<1>. DEFINE n == Len(st.operands)
            parts == [i \in 1 .. n |-> OperandBytes(st.operands[i], address)]
            sizes == [i \in 1 .. n |-> OperandSize(st.operands[i])]
            reads == ReadsOf(st, address)
            sum(i) == SumSeq(SubSeq(sizes, 1, i))
            state(i) == [pc |-> (pc + 2) + sum(i), ok |-> TRUE, halts |-> FALSE,
                         op |-> st.op, operands |-> SubSeq(reads, 1, i)]
            row == FromOpcode(code[pc + 1])
            argc == code[pc + 2]
            Run(f) == f = [i \in 0 .. argc |->
                              IF i = 0 THEN [Fetched(pc) EXCEPT !.ok = TRUE, !.op = row.op]
                              ELSE DecodeOperand(code, f[i - 1])]
            g == CHOOSE f : Run(f)
<1>1. Decode(code, pc) =
         IF pc + 2 > Len(code) THEN [Fetched(pc) EXCEPT !.pc = pc, !.halts = TRUE]
         ELSE IF row = NoRow \/ argc < row.min \/ argc > row.max THEN Fetched(pc) ELSE g[argc]
  BY Zenon DEF Decode
<1>2. st.operands \in Seq(OperandType) /\ n \in Nat /\ n \in Byte /\ st.op \in Byte
      /\ \A i \in 1 .. n : st.operands[i] \in OperandType
  <2>1. st.operands \in Seq(OperandType) /\ st.op \in 0 .. 255 /\ n <= 8
    BY DEF Accepted, StatementType
  <2>2. n \in Nat /\ \A i \in 1 .. n : st.operands[i] \in OperandType
    BY <2>1
  <2>. HIDE DEF n
  <2>. QED  BY <2>1, <2>2 DEF Byte
<1>3. ASSUME NEW i \in 1 .. n
      PROVE  /\ OperandBytes(st.operands[i], address) \in Seq(Byte)
             /\ Len(OperandBytes(st.operands[i], address)) = OperandSize(st.operands[i])
             /\ OperandSize(st.operands[i]) \in Nat
             /\ ReadOf(st.operands[i], address) \in ReadOperand
  <2>1. st.operands[i] \in OperandType /\ Readable(st.operands[i], address)
    BY <1>2
  <2>2. st.operands[i].type = AddressTag => address[st.operands[i].s] \in Int
    BY <2>1, AddressIsInt
  <2>3. /\ OperandSize(st.operands[i]) \in Nat
        /\ Bytes(OperandBytes(st.operands[i], address), OperandSize(st.operands[i]))
    BY <2>1, <2>2, OperandBytesType
  <2>. QED  BY <2>1, <2>3, ReadOfType DEF Bytes
<1>4. parts \in Seq(Seq(Byte)) /\ sizes \in Seq(Nat) /\ sizes \in Seq(Int)
      /\ Len(parts) = n /\ Len(sizes) = n
      /\ \A i \in 1 .. n : /\ sizes[i] = Len(parts[i])
                           /\ parts[i] = OperandBytes(st.operands[i], address)
                           /\ sizes[i] = OperandSize(st.operands[i])
  BY <1>2, <1>3
<1>5. reads \in Seq(ReadOperand) /\ Len(reads) = n
      /\ \A i \in 1 .. n : reads[i] = ReadOf(st.operands[i], address)
  BY <1>2, <1>3 DEF ReadsOf
<1>6. StmtBytes(st, address) = <<st.op, n>> \o FlattenSeq(parts)
  BY Zenon DEF StmtBytes, parts
<1>7. StmtSize(st) = 2 + SumSeq(sizes)
  BY Zenon DEF StmtSize, sizes
<1>. HIDE DEF parts, sizes, reads
<1>8. Bytes(FlattenSeq(parts), SumSeq(sizes)) /\ SumSeq(sizes) \in Nat
  BY <1>4, FlattenType, FlattenLength, SumNat DEF Bytes
<1>9. Bytes(<<st.op, n>>, 2) /\ Len(<<st.op, n>>) = 2 /\ <<st.op, n>>[1] = st.op /\ <<st.op, n>>[2] = n
  BY <1>2 DEF Bytes
<1>10. Stands(<<st.op, n>>, code, pc) /\ Stands(FlattenSeq(parts), code, pc + 2)
  <2>. HIDE DEF n
  <2>. QED  BY <1>6, <1>8, <1>9, StandsInParts
<1>11. code[pc + 1] = st.op /\ argc = n
  <2>. HIDE DEF n
  <2>. QED  BY <1>9, <1>10 DEF Stands
<1>12. Understood(st.op, n)
  BY Zenon DEF Accepted
<1>13. row # NoRow /\ row.op = st.op /\ ~(n < row.min) /\ ~(n > row.max)
  <2>1. IsRow(row)
    BY FromOpcodeType
  <2>2. row # NoRow /\ row.op = st.op /\ row.min <= n /\ n <= row.max
    BY <1>11, <1>12 DEF Understood
  <2>3. row.min \in Int /\ row.max \in Int
    BY <2>1, <2>2, TableOpcodes, Zenon DEF IsRow
  <2>. HIDE DEF n, row
  <2>. QED  BY <1>2, <2>2, <2>3
<1>14. ~(pc + 2 > Len(code)) /\ Len(code) \in Nat
  BY <1>7, <1>8
<1>15. sum(0) = 0
  <2>1. SubSeq(sizes, 1, 0) = <<>>
    BY <1>4
  <2>. QED  BY <2>1, SumEmpty
<1>16. [Fetched(pc) EXCEPT !.ok = TRUE, !.op = row.op] = state(0)
  <2>1. (pc + 2) + sum(0) = pc + 2
    BY <1>15
  <2>2. SubSeq(reads, 1, 0) = <<>>
    BY <1>5
  <2>. HIDE DEF row, sum
  <2>3. [Fetched(pc) EXCEPT !.ok = TRUE, !.op = row.op]
           = [pc |-> pc + 2, ok |-> TRUE, halts |-> FALSE, op |-> st.op, operands |-> <<>>]
    BY <1>13, FetchedStarts
  <2>. QED  BY <2>1, <2>2, <2>3, Zenon
<1>. HIDE DEF n, row
<1>17. ASSUME NEW i \in 1 .. n PROVE DecodeOperand(code, state(i - 1)) = state(i)
  <2>. DEFINE o == st.operands[i]
              d == state(i - 1)
              taken == ReadOf(o, address)
  <2>1. /\ sum(i - 1) \in Nat /\ sum(i) = sum(i - 1) + OperandSize(o) /\ sum(i) <= SumSeq(sizes)
        /\ Stands(OperandBytes(o, address), code, (pc + 2) + sum(i - 1))
    <3>1. pc + 2 \in Nat
      OBVIOUS
    <3>. HIDE DEF sum
    <3>2. /\ SumSeq(SubSeq(sizes, 1, i - 1)) \in Nat
          /\ SumSeq(SubSeq(sizes, 1, i)) = SumSeq(SubSeq(sizes, 1, i - 1)) + sizes[i]
          /\ SumSeq(SubSeq(sizes, 1, i)) <= SumSeq(sizes)
          /\ Stands(parts[i], code, (pc + 2) + SumSeq(SubSeq(sizes, 1, i - 1)))
      BY <1>4, <1>10, <3>1, StandsAsPart
    <3>. QED  BY <1>4, <3>2 DEF sum
  <2>2. o \in OperandType /\ Readable(o, address) /\ OperandSize(o) \in Nat
    BY <1>2, <1>3 DEF n
  <2>. HIDE DEF sum, o
  <2>3. d.ok /\ d.pc = (pc + 2) + sum(i - 1) /\ d.pc \in Nat /\ d.operands = SubSeq(reads, 1, i - 1)
    BY <2>1
  <2>4. d.pc + OperandSize(o) <= Len(code) /\ d.pc + OperandSize(o) = (pc + 2) + sum(i)
    <3>. DEFINE all == SumSeq(sizes)
                long == StmtSize(st)
                size == OperandSize(o)
                a == sum(i - 1)
                z == sum(i)
                end == Len(code)
                at == d.pc
    <3>1. all \in Nat /\ long = 2 + all /\ size \in Nat /\ a \in Nat /\ z = a + size /\ z <= all
          /\ end \in Nat /\ pc + long <= end /\ at = (pc + 2) + a
      BY <1>7, <1>8, <1>14, <2>1, <2>2, <2>3
    <3>. HIDE DEF at, all, long, size, a, z, end
    <3>2. at + size = (pc + 2) + z
      BY <3>1
    <3>3. (pc + 2) + z <= end
      BY <3>1
    <3>. QED  BY <3>2, <3>3 DEF at, size, end, z
  <2>5. DecodeOperand(code, d) = Taken(d, taken, OperandSize(o))
    <3>. HIDE DEF d
    <3>. QED  BY <2>1, <2>2, <2>3, <2>4, OperandReadBack
  <2>6. SubSeq(reads, 1, i) = Append(SubSeq(reads, 1, i - 1), taken)
    <3>1. reads[i] = taken
      BY <1>5 DEF o
    <3>2. SubSeq(reads, 1, i) = Append(SubSeq(reads, 1, i - 1), reads[i])
      <4>1. i \in 1 .. Len(reads)
        BY <1>5
      <4>. QED  BY <1>5, <4>1
    <3>. QED  BY <3>1, <3>2
  <2>. HIDE DEF taken
  <2>. QED  BY <2>3, <2>4, <2>5, <2>6, Zenon DEF Taken
<1>. DEFINE q == [i \in 0 .. n |-> state(i)]
<1>18. \A i \in 0 .. n : q[i] = state(i)
  OBVIOUS
<1>19. Run(q)
  <2>1. ASSUME NEW i \in 0 .. n
        PROVE  q[i] = IF i = 0 THEN [Fetched(pc) EXCEPT !.ok = TRUE, !.op = row.op]
                      ELSE DecodeOperand(code, q[i - 1])
    <3>1. CASE i = 0
      BY <1>16, <1>18, <3>1, Zenon
    <3>2. CASE i # 0
      <4>1. i \in 1 .. n /\ i - 1 \in 0 .. n
        BY <1>2, <3>2
      <4>. HIDE DEF state, q
      <4>. QED  BY <1>17, <1>18, <3>2, <4>1, Zenon
    <3>. QED  BY <3>1, <3>2
  <2>2. q = [i \in 0 .. n |-> q[i]]
    OBVIOUS
  <2>. HIDE DEF q
  <2>. QED  BY <1>11, <2>1, <2>2, Zenon
<1>20. Run(g)
  BY <1>19, Zenon
<1>. HIDE DEF g, state
<1>21. \A i \in 0 .. n : g[i] = IF i = 0 THEN [Fetched(pc) EXCEPT !.ok = TRUE, !.op = row.op]
                                ELSE DecodeOperand(code, g[i - 1])
  BY <1>11, <1>20, Zenon
<1>22. g[n] = state(n)
  <2>. DEFINE T == {i \in 0 .. n : g[i] = state(i)}
  <2>1. 0 \in T
    BY <1>2, <1>16, <1>21
  <2>2. ASSUME NEW i \in 1 .. n, i - 1 \in T PROVE i \in T
    <3>1. g[i - 1] = state(i - 1) /\ i # 0 /\ i \in 0 .. n
      BY <2>2
    <3>2. g[i] = state(i)
      BY <1>17, <1>21, <3>1, Zenon
    <3>. QED  BY <3>1, <3>2
  <2>3. \A i \in 0 .. n : i \in T
    <3>. HIDE DEF T
    <3>. QED  BY <1>2, <2>1, <2>2, IntervalInduction
  <2>. QED  BY <1>2, <2>3
<1>23. Decode(code, pc) = state(n)
  BY <1>1, <1>11, <1>13, <1>14, <1>22, Zenon
<1>24. (pc + 2) + sum(n) = pc + StmtSize(st) /\ SubSeq(reads, 1, n) = reads
  <2>1. SubSeq(sizes, 1, n) = sizes /\ SubSeq(reads, 1, n) = reads
    BY <1>2, <1>4, <1>5
  <2>2. sum(n) = SumSeq(sizes)
    BY <2>1
  <2>. DEFINE all == SumSeq(sizes)
  <2>3. all \in Nat /\ StmtSize(st) = 2 + all /\ sum(n) = all
    BY <1>7, <1>8, <2>2
  <2>. HIDE DEF all, sum
  <2>4. (pc + 2) + all = pc + (2 + all)
    BY <2>3
  <2>. QED  BY <2>1, <2>3, <2>4, Zenon
<1>. HIDE DEF sum
<1>. QED  BY <1>23, <1>24, Zenon DEF state, reads

-----------------------------------------------------------------------------
(* Every step leaves in the file what the first pass has laid out.         *)

\* The second pass writes the operand: its label has an address, or its text
\* is not too long.
Writable(o, address) ==
    /\ o.type = AddressTag => o.s \in DOMAIN address
    /\ o.type \in TextOperands => Len(Spelling(o.s)) <= TextMax

\* The first n statements stand in the file, behind its header.
CodeStands(prog, address, b, n) ==
    \A i \in 1 .. n :
       /\ \A j \in DOMAIN prog[i].operands : Writable(prog[i].operands[j], address)
       /\ Stands(StmtBytes(prog[i], address), b, 18 + CodeEnd(prog, i - 1))

\* So do the rows of the line table, and n entries of the label table.
RowBytes(row) == W32(row.pc) \o W32(row.line)

RowsStand(rows, at, b) ==
    \A k \in 1 .. Len(rows) : Stands(RowBytes(rows[k]), b, at + 8 * (k - 1))

EntriesStand(labels, address, at, b, n) ==
    \A k \in 1 .. n :
       Stands(LabelBytes(labels[k].label, address[labels[k].label]), b, TableEnd(labels, at, k - 1))

Magic == <<83, 67, 77, 76, 5, 0>>

\* All that has been written stands where the first pass has put it.
ContentInv ==
    /\ phase \in {"code", "labels", "done"} => Stands(Magic, output, 0)
    /\ phase = "code" => CodeStands(program, LabelAddress, output, written)
    /\ phase \in {"labels", "done"} =>
          /\ CodeStands(program, LabelAddress, output, Len(program))
          /\ RowsStand(LineTable, 18 + CodeSize, output)
          /\ EntriesStand(Labels, LabelAddress, TablesAt, output, written)

\* Addresses are numbers.
Addresses(address) == \A name \in DOMAIN address : address[name] \in Int

(* The bytes of a statement are as many as its size.                       *)
LEMMA WrittenBytes ==
    ASSUME NEW st \in Accepted, NEW address, Addresses(address),
           \A j \in DOMAIN st.operands : Writable(st.operands[j], address)
    PROVE  Bytes(StmtBytes(st, address), StmtSize(st)) /\ StmtSize(st) \in Nat
<1>1. \A i \in DOMAIN st.operands :
         st.operands[i].type = AddressTag => address[st.operands[i].s] \in Int
  BY Zenon DEF Writable, Addresses
<1>2. st \in StatementType
  BY Zenon DEF Accepted
<1>. QED  BY <1>1, <1>2, StmtBytesType, StmtSizeType

(* What stands in the file stays when bytes are written behind it.         *)
LEMMA CodeStays ==
    ASSUME NEW prog \in Seq(Accepted), NEW address, Addresses(address),
           NEW n \in 0 .. Len(prog), NEW b, CodeStands(prog, address, b, n),
           NEW m \in Nat, Bytes(b, m), 18 + CodeEnd(prog, n) <= m,
           NEW t, NEW size \in Nat, Bytes(t, size)
    PROVE  CodeStands(prog, address, b \o t, n)
<1>1. prog \in Seq(StatementType) /\ Len(prog) \in Nat
  BY DEF Accepted
<1>2. CodeEnd(prog, n) \in Nat /\ \A k \in 0 .. n : CodeEnd(prog, k) <= CodeEnd(prog, n)
  BY <1>1, CodeEnds
<1>3. ASSUME NEW i \in 1 .. n
      PROVE  Stands(StmtBytes(prog[i], address), b \o t, 18 + CodeEnd(prog, i - 1))
  <2>. DEFINE u == StmtBytes(prog[i], address)
              at == CodeEnd(prog, i - 1)
              long == StmtSize(prog[i])
  <2>1. i \in 1 .. Len(prog) /\ i \in 0 .. Len(prog) /\ i - 1 \in 0 .. Len(prog) /\ i \in 0 .. n /\ i # 0
    BY <1>1
  <2>2. prog[i] \in Accepted
    BY <2>1
  <2>3. /\ \A j \in DOMAIN prog[i].operands : Writable(prog[i].operands[j], address)
        /\ Stands(u, b, 18 + at)
    BY DEF CodeStands
  <2>4. Bytes(u, long) /\ long \in Nat
    BY <2>2, <2>3, WrittenBytes
  <2>5. at \in Nat /\ CodeEnd(prog, i) = at + long /\ CodeEnd(prog, i) <= CodeEnd(prog, n)
    BY <1>1, <1>2, <2>1, CodeEnds
  <2>. HIDE DEF u, at, long
  <2>6. Len(u) = long
    BY <2>4 DEF Bytes
  <2>7. 18 + at \in Nat /\ (18 + at) + Len(u) <= m /\ Len(u) \in Nat
    BY <1>2, <2>4, <2>5, <2>6
  <2>8. Stands(u, b \o t, 18 + at)
    BY <2>3, <2>7, StandsStill
  <2>. QED  BY <2>8 DEF u, at
<1>4. \A i \in 1 .. n : \A j \in DOMAIN prog[i].operands : Writable(prog[i].operands[j], address)
  BY Zenon DEF CodeStands
<1>. QED  BY <1>3, <1>4, Zenon DEF CodeStands

LEMMA RowBytesType ==
    ASSUME NEW row \in LineRow
    PROVE  Bytes(RowBytes(row), 8)
<1>1. row.pc \in Int /\ row.line \in Int
  BY DEF LineRow
<1>. QED  BY <1>1, W32Type, JoinBytes DEF RowBytes

LEMMA RowsStay ==
    ASSUME NEW rows \in Seq(LineRow), NEW at \in Nat, NEW b, RowsStand(rows, at, b),
           NEW m \in Nat, Bytes(b, m), at + 8 * Len(rows) <= m,
           NEW t, NEW size \in Nat, Bytes(t, size)
    PROVE  RowsStand(rows, at, b \o t)
<1>. SUFFICES ASSUME NEW k \in 1 .. Len(rows)
     PROVE  Stands(RowBytes(rows[k]), b \o t, at + 8 * (k - 1))
  BY DEF RowsStand
<1>1. rows[k] \in LineRow /\ Len(rows) \in Nat
  OBVIOUS
<1>2. Len(RowBytes(rows[k])) = 8
  BY <1>1, RowBytesType DEF Bytes
<1>3. Stands(RowBytes(rows[k]), b, at + 8 * (k - 1))
  BY DEF RowsStand
<1>4. at + 8 * (k - 1) \in Nat /\ (at + 8 * (k - 1)) + 8 <= m
  <2>1. 8 * k <= 8 * Len(rows)
    BY <1>1
  <2>. QED  BY <1>1, <2>1
<1>. DEFINE from == at + 8 * (k - 1)
            u == RowBytes(rows[k])
<1>5. from \in Nat /\ from + Len(u) <= m /\ Len(u) \in Nat /\ Stands(u, b, from)
  BY <1>2, <1>3, <1>4
<1>. HIDE DEF from, u
<1>6. Stands(u, b \o t, from)
  BY <1>5, StandsStill
<1>. QED  BY <1>6 DEF from, u

LEMMA EntriesStay ==
    ASSUME NEW labels \in Seq(Accepted), NEW address, NEW at \in Nat,
           \A k \in 1 .. Len(labels) : address[labels[k].label] \in Int,
           NEW n \in 0 .. Len(labels), NEW b, EntriesStand(labels, address, at, b, n),
           NEW m \in Nat, Bytes(b, m), TableEnd(labels, at, n) <= m,
           NEW t, NEW size \in Nat, Bytes(t, size)
    PROVE  EntriesStand(labels, address, at, b \o t, n)
<1>. SUFFICES ASSUME NEW k \in 1 .. n
     PROVE  Stands(LabelBytes(labels[k].label, address[labels[k].label]), b \o t,
                   TableEnd(labels, at, k - 1))
  BY DEF EntriesStand
<1>1. TableEnd(labels, at, n) \in Nat
      /\ \A i \in 0 .. n : TableEnd(labels, at, i) =< TableEnd(labels, at, n)
  BY TableEnds
<1>. DEFINE name == labels[k].label
            u == LabelBytes(name, address[name])
            from == TableEnd(labels, at, k - 1)
            long == Len(Spelling(name))
<1>2. k \in 1 .. Len(labels) /\ k \in 0 .. Len(labels) /\ k - 1 \in 0 .. Len(labels)
      /\ k \in 0 .. n /\ k # 0
  OBVIOUS
<1>3. from \in Nat /\ long \in Nat /\ TableEnd(labels, at, k) = from + 6 + long
      /\ TableEnd(labels, at, k) <= TableEnd(labels, at, n)
  BY <1>1, <1>2, TableEnds
<1>4. name \in Names /\ address[name] \in Int
  <2>1. \A st \in Accepted : st.label \in Names
    BY DEF Accepted, StatementType
  <2>2. labels[k] \in Accepted
    BY <1>2
  <2>. QED  BY <1>2, <2>1, <2>2
<1>5. Len(u) = 6 + long
  BY <1>4, LabelBytesType DEF Bytes
<1>6. Stands(u, b, from)
  BY DEF EntriesStand
<1>. HIDE DEF name, u, from, long
<1>7. from + Len(u) <= m /\ Len(u) \in Nat
  BY <1>1, <1>3, <1>5
<1>8. Stands(u, b \o t, from)
  BY <1>3, <1>6, <1>7, StandsStill
<1>. QED  BY <1>8 DEF name, u, from

LEMMA MagicStays ==
    ASSUME NEW b, NEW m \in Nat, Bytes(b, m), m >= 6, Stands(Magic, b, 0),
           NEW t, NEW size \in Nat, Bytes(t, size)
    PROVE  Stands(Magic, b \o t, 0)
<1>1. Len(Magic) = 6
  BY DEF Magic
<1>2. 0 \in Nat /\ 0 + Len(Magic) <= m /\ Len(Magic) \in Nat
  BY <1>1
<1>. HIDE DEF Magic
<1>. QED  BY <1>2, StandsStill

(* The format's name and version begin the header.                         *)
LEMMA HeaderMagic ==
    ASSUME NEW size \in Int, NEW lineCount \in Int, NEW labelCount \in Int
    PROVE  Stands(Magic, Header(size, lineCount, labelCount), 0)
<1>. DEFINE scml == <<83, 67, 77, 76>>
            five == W16(5)
            a == scml \o five
            b == a \o W32(size)
            c == b \o W32(lineCount)
            d == c \o W32(labelCount)
<1>1. Bytes(scml, 4) /\ Bytes(five, 2)
  BY W16Type DEF Bytes, Byte
<1>2. Bytes(a, 6) /\ Stands(five, a, 4) /\ \A i \in 1 .. 4 : a[i] = scml[i]
  <2>. HIDE DEF scml, five
  <2>1. Bytes(scml \o five, 4 + 2)
    BY <1>1, JoinBytes
  <2>2. Stands(five, scml \o five, 4) /\ \A i \in 1 .. 4 : (scml \o five)[i] = scml[i]
    <3>1. 4 \in Nat /\ 2 \in Nat
      OBVIOUS
    <3>. QED  BY <1>1, <3>1, StandsBehind, Zenon
  <2>3. 4 + 2 = 6
    OBVIOUS
  <2>. QED  BY <2>1, <2>2, <2>3
<1>. HIDE DEF a
<1>3. a[1] = 83 /\ a[2] = 67 /\ a[3] = 77 /\ a[4] = 76
  BY <1>2
<1>4. a[5] = 5 /\ a[6] = 0
  <2>1. Len(five) = 2 /\ five[1] = 5 /\ five[2] = 0
    BY SMT DEF W16
  <2>. HIDE DEF scml, five
  <2>. QED  BY <1>2, <2>1 DEF Stands
<1>5. Stands(Magic, a, 0)
  <2>1. Len(Magic) = 6 /\ \A k \in 1 .. 6 : a[k] = Magic[k]
    BY <1>3, <1>4 DEF Magic
  <2>2. \A k \in 1 .. 6 : 0 + k = k
    OBVIOUS
  <2>. QED  BY <2>1, <2>2 DEF Stands
<1>6. Bytes(b, 10) /\ Stands(Magic, b, 0)
  BY <1>2, <1>5, W32Type, JoinBytes, MagicStays
<1>. HIDE DEF b
<1>7. Bytes(c, 14) /\ Stands(Magic, c, 0)
  BY <1>6, W32Type, JoinBytes, MagicStays
<1>. HIDE DEF c
<1>8. Stands(Magic, d, 0)
  BY <1>7, W32Type, MagicStays
<1>9. Header(size, lineCount, labelCount) = d
  BY Zenon DEF Header, a, b, c
<1>. QED  BY <1>8, <1>9

(* What the first pass has found depends on the program alone.             *)
LEMMA SameLayout ==
    ASSUME program' = program
    PROVE  /\ LabelAddress' = LabelAddress /\ Labels' = Labels /\ Code' = Code
           /\ LineTable' = LineTable /\ CodeSize' = CodeSize /\ TablesAt' = TablesAt
<1>1. CodeSize' = CodeSize /\ Code' = Code /\ Labels' = Labels
  BY DEF CodeSize, AddressOf, Code, Labels, CodePlaces, LabelPlaces
<1>2. TablesAt' = TablesAt
  BY <1>1 DEF TablesAt
<1>3. LineTable' = LineTable
  BY Zenon DEF LineTable, AddressOf, CodePlaces, LabelPlaces
<1>4. LabelAddress' = LabelAddress
  BY <1>1, Zenon DEF LabelAddress, AddressOf, Labelled, SelectInSeq
<1>. QED  BY <1>1, <1>2, <1>3, <1>4

(* Steps that leave the program and the file alone leave the content alone.*)
LEMMA ContentKept ==
    ASSUME ContentInv, UNCHANGED <<program, output, written>>, phase' = phase
    PROVE  ContentInv'
<1>1. program' = program /\ output' = output /\ written' = written
  OBVIOUS
<1>2. /\ LabelAddress' = LabelAddress /\ Labels' = Labels /\ LineTable' = LineTable
      /\ CodeSize' = CodeSize /\ TablesAt' = TablesAt
  BY <1>1, SameLayout
<1>. QED  BY <1>1, <1>2, Zenon DEF ContentInv

LEMMA ContentLayout ==
    ASSUME ToolInv, ImageInv, Layout
    PROVE  ContentInv'
<1>1. program \in Seq(Accepted) /\ program' = program /\ written' = 0
  BY DEF ToolInv, ImageInv, Layout
<1>2. CASE phase' = "failed"
  BY <1>2 DEF Layout, ContentInv
<1>3. CASE phase' # "failed"
  <2>1. phase' = "code" /\ output' = Header(CodeSize, Len(Code), Len(Labels))
    BY <1>3 DEF Layout
  <2>2. CodeSize \in Int /\ Len(Code) \in Int /\ Len(Labels) \in Int
    BY <1>1, AddressIsEnd, LabelsType
  <2>3. Stands(Magic, output', 0)
    BY <2>1, <2>2, HeaderMagic
  <2>4. CodeStands(program', LabelAddress', output', written')
    BY <1>1 DEF CodeStands
  <2>. QED  BY <2>1, <2>3, <2>4 DEF ContentInv
<1>. QED  BY <1>2, <1>3

LEMMA ContentUnread ==
    ASSUME phase' \in {"reading", "layout", "failed"}
    PROVE  ContentInv'
BY DEF ContentInv

LEMMA AddressesAreNumbers ==
    ASSUME program \in Seq(Accepted)
    PROVE  Addresses(LabelAddress)
BY LabelAddressType DEF Addresses

(* The second pass writes the next statement where the first has put it.   *)
LEMMA ContentStatement ==
    ASSUME ToolInv, ImageInv, ContentInv, WriteStatement
    PROVE  ContentInv'
<1>. DEFINE st == program[written + 1]
            size == 18 + CodeEnd(program, written)
            t == StmtBytes(st, LabelAddress)
            n == StmtSize(st)
<1>1. phase = "code" /\ written < Len(program) /\ program' = program
  BY DEF WriteStatement
<1>2. program \in Seq(Accepted) /\ written \in 0 .. Len(program) /\ Bytes(output, size)
      /\ Stands(Magic, output, 0) /\ CodeStands(program, LabelAddress, output, written)
  BY <1>1 DEF ToolInv, ImageInv, ContentInv, Bytes
<1>3. CASE \E i \in DOMAIN st.operands : Unwritable(st.operands[i])
  <2>1. phase' = "failed"
    BY <1>3 DEF WriteStatement, RemoveOutput
  <2>. QED  BY <2>1, ContentUnread
<1>4. CASE ~(\E i \in DOMAIN st.operands : Unwritable(st.operands[i]))
  <2>1. output' = output \o t /\ written' = written + 1 /\ phase' = phase
    BY <1>4 DEF WriteStatement
  <2>2. \A i \in DOMAIN st.operands : ~Unwritable(st.operands[i])
    BY <1>4, Zenon
  <2>. HIDE DEF st
  <2>3. written + 1 \in 1 .. Len(program) /\ (written + 1) - 1 = written /\ written \in Nat
    BY <1>1, <1>2
  <2>4. st \in Accepted
    BY <1>2, <2>3 DEF st
  <2>5. \A i \in DOMAIN st.operands : Writable(st.operands[i], LabelAddress)
    <3>. SUFFICES ASSUME NEW i \in DOMAIN st.operands PROVE Writable(st.operands[i], LabelAddress)
      OBVIOUS
    <3>. DEFINE o == st.operands[i]
    <3>1. ~Unwritable(o) /\ o \in OperandType
      <4>1. st.operands \in Seq(OperandType)
        BY <2>4 DEF Accepted, StatementType
      <4>. QED  BY <2>2, <4>1
    <3>2. o.s \in Names
      BY <3>1, Zenon DEF OperandType
    <3>3. Len(Spelling(o.s)) \in Int /\ TextMax \in Int
      BY <3>2, SpellingType, TextMaxFits
    <3>. HIDE DEF o
    <3>4. Writable(o, LabelAddress)
      BY <3>1, <3>3 DEF Writable, Unwritable
    <3>. QED  BY <3>4 DEF o
  <2>6. Addresses(LabelAddress)
    BY <1>2, AddressesAreNumbers
  <2>7. Bytes(t, n) /\ n \in Nat
    BY <2>4, <2>5, <2>6, WrittenBytes
  <2>8. size \in Nat /\ size >= 18 /\ CodeEnd(program, written) \in Nat
    <3>1. program \in Seq(StatementType)
      BY <1>2 DEF Accepted
    <3>2. CodeEnd(program, written) \in Nat
      BY <1>2, <3>1, CodeEnds
    <3>. QED  BY <3>2
  <2>. HIDE DEF t, n
  <2>9. CodeStands(program, LabelAddress, output \o t, written)
    <3>1. 18 + CodeEnd(program, written) <= size
      BY <2>8
    <3>. HIDE DEF size
    <3>. QED  BY <1>2, <2>6, <2>7, <2>8, <3>1, CodeStays
  <2>10. Stands(t, output \o t, size) /\ Stands(Magic, output \o t, 0)
    <3>. HIDE DEF size
    <3>1. size >= 6
      BY <2>8
    <3>. QED  BY <1>2, <2>7, <2>8, <3>1, StandsBehind, MagicStays
  <2>11. CodeStands(program, LabelAddress, output \o t, written + 1)
    <3>. SUFFICES ASSUME NEW i \in 1 .. written + 1
         PROVE  /\ \A j \in DOMAIN program[i].operands : Writable(program[i].operands[j], LabelAddress)
                /\ Stands(StmtBytes(program[i], LabelAddress), output \o t, 18 + CodeEnd(program, i - 1))
      BY Zenon DEF CodeStands
    <3>1. CASE i \in 1 .. written
      BY <2>9, <3>1, Zenon DEF CodeStands
    <3>2. CASE i = written + 1
      BY <2>3, <2>5, <2>10, <3>2, Zenon DEF st, t
    <3>3. i \in 1 .. written \/ i = written + 1
      BY <2>3
    <3>. QED  BY <3>1, <3>2, <3>3
  <2>12. LabelAddress' = LabelAddress
    BY <1>1, SameLayout
  <2>. QED  BY <1>1, <2>1, <2>10, <2>11, <2>12 DEF ContentInv
<1>. QED  BY <1>3, <1>4

(* Behind the last statement comes the line table.                         *)
LEMMA ContentLines ==
    ASSUME ToolInv, ImageInv, ContentInv, WriteLines
    PROVE  ContentInv'
<1>. DEFINE rows == [k \in 1 .. Len(LineTable) |-> RowBytes(LineTable[k])]
            eights == [k \in 1 .. Len(LineTable) |-> 8]
            size == 18 + CodeSize
            t == FlattenSeq(rows)
            long == SumSeq(eights)
<1>1. phase = "code" /\ written = Len(program) /\ program' = program /\ written' = 0
      /\ phase' = "labels"
  BY DEF WriteLines
<1>2. program \in Seq(Accepted) /\ output \in Seq(Byte) /\ Len(output) = 18 + CodeEnd(program, written)
      /\ Stands(Magic, output, 0) /\ CodeStands(program, LabelAddress, output, written)
  BY <1>1 DEF ToolInv, ImageInv, ContentInv
<1>3. output' = output \o t
  BY Zenon DEF WriteLines, RowBytes
<1>4. LineTable \in Seq(LineRow) /\ Len(LineTable) \in Nat
  BY <1>2, LineTableType
<1>5. \A k \in 1 .. Len(LineTable) : Bytes(RowBytes(LineTable[k]), 8)
  <2>1. \A k \in 1 .. Len(LineTable) : LineTable[k] \in LineRow
    BY <1>4
  <2>. QED  BY <2>1, RowBytesType
<1>6. rows \in Seq(Seq(Byte)) /\ Len(rows) = Len(LineTable)
      /\ \A k \in 1 .. Len(LineTable) : Len(rows[k]) = 8 /\ rows[k] = RowBytes(LineTable[k])
  BY <1>4, <1>5 DEF Bytes
<1>7. eights \in Seq(Nat) /\ eights \in Seq(Int) /\ Len(eights) = Len(LineTable)
      /\ \A k \in 1 .. Len(LineTable) : eights[k] = 8
  BY <1>4
<1>. HIDE DEF rows, eights
<1>8. Bytes(t, long) /\ long \in Nat
  BY <1>6, <1>7, FlattenType, FlattenLength, SumNat DEF Bytes
<1>9. CodeSize = CodeEnd(program, written) /\ CodeSize \in Nat
  BY <1>1, <1>2, AddressIsEnd
<1>10. Bytes(output, size) /\ size \in Nat /\ size >= 6 /\ 18 + CodeEnd(program, Len(program)) <= size
  BY <1>1, <1>2, <1>9 DEF Bytes
<1>. HIDE DEF size, t, long
<1>11. Stands(t, output', size) /\ Stands(Magic, output', 0)
  BY <1>2, <1>3, <1>8, <1>10, StandsBehind, MagicStays
<1>12. CodeStands(program, LabelAddress, output', Len(program))
  <2>1. Addresses(LabelAddress) /\ Len(program) \in 0 .. Len(program)
    BY <1>2, AddressesAreNumbers
  <2>. QED  BY <1>1, <1>2, <1>3, <1>8, <1>10, <2>1, CodeStays
<1>13. RowsStand(LineTable, size, output')
  <2>. SUFFICES ASSUME NEW k \in 1 .. Len(LineTable)
       PROVE  Stands(RowBytes(LineTable[k]), output', size + 8 * (k - 1))
    BY DEF RowsStand
  <2>1. Stands(rows[k], output', size + SumSeq(SubSeq(eights, 1, k - 1)))
    BY <1>6, <1>7, <1>10, <1>11, StandsAsPart DEF t
  <2>2. SumSeq(SubSeq(eights, 1, k - 1)) = 8 * (k - 1)
    <3>. DEFINE first == SubSeq(eights, 1, k - 1)
    <3>1. first \in Seq(Int) /\ Len(first) = k - 1 /\ \A i \in 1 .. Len(first) : first[i] = 8
      BY <1>4, <1>7
    <3>. HIDE DEF first
    <3>2. SumSeq(first) = 8 * Len(first)
      BY <3>1, SumOfEights
    <3>. QED  BY <3>1, <3>2 DEF first
  <2>. QED  BY <1>6, <2>1, <2>2
<1>14. EntriesStand(Labels', LabelAddress', TablesAt', output', written')
  BY <1>1 DEF EntriesStand
<1>15. LabelAddress' = LabelAddress /\ LineTable' = LineTable /\ CodeSize' = CodeSize
  BY <1>1, SameLayout
<1>. QED  BY <1>1, <1>11, <1>12, <1>13, <1>14, <1>15 DEF ContentInv, size

(* Behind that come the entries of the label table, one after the other.   *)
LEMMA ContentLabel ==
    ASSUME ToolInv, ImageInv, ContentInv, WriteLabel
    PROVE  ContentInv'
<1>. DEFINE name == Labels[written + 1].label
            len == Len(Spelling(name))
            size == TableEnd(Labels, TablesAt, written)
            entry == LabelBytes(name, LabelAddress[name])
            lines == 18 + CodeSize
<1>1. phase = "labels" /\ written < Len(Labels) /\ program' = program
  BY DEF WriteLabel
<1>2. /\ program \in Seq(Accepted) /\ written \in Nat /\ Bytes(output, size)
      /\ Stands(Magic, output, 0) /\ CodeStands(program, LabelAddress, output, Len(program))
      /\ RowsStand(LineTable, lines, output)
      /\ EntriesStand(Labels, LabelAddress, TablesAt, output, written)
  BY <1>1 DEF ToolInv, ImageInv, ContentInv, Bytes
<1>3. /\ Labels \in Seq(Accepted) /\ Len(Labels) \in Nat /\ TablesAt \in Nat
      /\ written + 1 \in 1 .. Len(Labels) /\ written \in 0 .. Len(Labels)
      /\ Len(program) \in 0 .. Len(program)
  <2>1. Labels \in Seq(Accepted) /\ Len(Labels) \in Nat /\ TablesAt \in Nat
    BY <1>2, LabelsType, AddressIsEnd
  <2>2. Len(program) \in 0 .. Len(program)
    BY <1>2
  <2>. QED  BY <1>1, <1>2, <2>1, <2>2
<1>4. \A k \in 1 .. Len(Labels) : Labels[k].label \in Names /\ LabelAddress[Labels[k].label] \in Int
  BY <1>2, LabelsType, LabelAddressType
<1>5. name \in Names /\ LabelAddress[name] \in Int
  BY <1>3, <1>4
<1>6. lines \in Nat /\ lines = 18 + CodeEnd(program, Len(program)) /\ lines + 8 * Len(LineTable) = TablesAt
  <2>1. CodeSize = CodeEnd(program, Len(program)) /\ CodeSize \in Nat
    BY <1>2, AddressIsEnd
  <2>2. Len(LineTable) = Len(Code)
    BY <1>2, RowsOfCode
  <2>3. lines + 8 * Len(LineTable) = TablesAt
    BY <2>2, Zenon DEF TablesAt
  <2>4. lines \in Nat
    BY <2>1
  <2>. QED  BY <2>1, <2>3, <2>4, Zenon
<1>7. size \in Nat /\ TablesAt <= size
  <2>1. 0 \in 0 .. written
    BY <1>2
  <2>2. /\ size \in Nat /\ TableEnd(Labels, TablesAt, 0) = TablesAt
        /\ \A k \in 0 .. written : TableEnd(Labels, TablesAt, k) =< size
    BY <1>3, TableEnds
  <2>. HIDE DEF size
  <2>. QED  BY <1>3, <2>1, <2>2
<1>8. LineTable \in Seq(LineRow) /\ Len(LineTable) \in Nat
  BY <1>2, LineTableType
<1>9. lines <= size /\ size >= 6 /\ lines + 8 * Len(LineTable) <= size
  <2>1. CodeSize \in Nat
    BY <1>2, AddressIsEnd
  <2>2. lines >= 18
    BY <2>1
  <2>. HIDE DEF lines, size
  <2>. QED  BY <1>3, <1>6, <1>7, <1>8, <2>2
<1>10. CASE len > TextMax
  <2>1. phase' = "failed"
    BY <1>10, Zenon DEF WriteLabel, RemoveOutput
  <2>. QED  BY <2>1, ContentUnread
<1>11. CASE ~(len > TextMax)
  <2>1. output' = output \o entry /\ written' = written + 1 /\ phase' = phase
    BY <1>11, Zenon DEF WriteLabel
  <2>2. Bytes(entry, 6 + len) /\ 6 + len \in Nat
    BY <1>5, SpellingType, LabelBytesType
  <2>. DEFINE long == 6 + len
  <2>. HIDE DEF size, lines, entry, long
  <2>3. Bytes(entry, long) /\ long \in Nat
    BY <2>2 DEF long
  <2>4. Stands(Magic, output', 0) /\ Stands(entry, output', size)
    BY <1>2, <1>7, <1>9, <2>1, <2>3, MagicStays, StandsBehind
  <2>5. CodeStands(program, LabelAddress, output', Len(program))
    <3>1. Addresses(LabelAddress)
      BY <1>2, AddressesAreNumbers
    <3>2. 18 + CodeEnd(program, Len(program)) <= size
      BY <1>6, <1>9
    <3>. QED  BY <1>2, <1>3, <1>7, <2>1, <2>3, <3>1, <3>2, CodeStays
  <2>6. RowsStand(LineTable, lines, output')
    BY <1>2, <1>6, <1>7, <1>8, <1>9, <2>1, <2>3, RowsStay
  <2>7. EntriesStand(Labels, LabelAddress, TablesAt, output', written)
    <3>1. TableEnd(Labels, TablesAt, written) <= size
      BY <1>7 DEF size
    <3>. QED  BY <1>2, <1>3, <1>4, <1>7, <2>1, <2>3, <3>1, EntriesStay
  <2>8. EntriesStand(Labels, LabelAddress, TablesAt, output', written + 1)
    <3>. SUFFICES ASSUME NEW k \in 1 .. written + 1
         PROVE  Stands(LabelBytes(Labels[k].label, LabelAddress[Labels[k].label]), output',
                       TableEnd(Labels, TablesAt, k - 1))
      BY Zenon DEF EntriesStand
    <3>1. CASE k \in 1 .. written
      BY <2>7, <3>1, Zenon DEF EntriesStand
    <3>2. CASE k = written + 1
      <4>1. k - 1 = written
        BY <1>2, <3>2
      <4>. QED  BY <2>4, <3>2, <4>1, Zenon DEF entry, size
    <3>3. k \in 1 .. written \/ k = written + 1
      BY <1>2
    <3>. QED  BY <3>1, <3>2, <3>3
  <2>9. /\ LabelAddress' = LabelAddress /\ Labels' = Labels /\ LineTable' = LineTable
        /\ CodeSize' = CodeSize /\ TablesAt' = TablesAt
    BY <1>1, SameLayout
  <2>10. phase' = "labels"
    BY <1>1, <2>1
  <2>. QED  BY <1>1, <2>1, <2>4, <2>5, <2>6, <2>8, <2>9, <2>10 DEF ContentInv, lines
<1>. QED  BY <1>10, <1>11

LEMMA ContentClosed ==
    ASSUME ContentInv, Close
    PROVE  ContentInv'
<1>1. phase = "labels" /\ phase' = "done" /\ program' = program /\ output' = output
      /\ written' = written
  BY DEF Close
<1>2. /\ LabelAddress' = LabelAddress /\ Labels' = Labels /\ LineTable' = LineTable
      /\ CodeSize' = CodeSize /\ TablesAt' = TablesAt
  BY <1>1, SameLayout
<1>. QED  BY <1>1, <1>2 DEF ContentInv

LEMMA ContentInvariant == Spec => []ContentInv
<1>1. Init => ContentInv
  BY DEF Init, PreInit, ContentInv
<1>2. ToolInv /\ ImageInv /\ ContentInv /\ [Next]_toolVars => ContentInv'
  <2>. SUFFICES ASSUME ToolInv, ImageInv, ContentInv, [Next]_toolVars PROVE ContentInv'
    OBVIOUS
  <2>1. CASE UNCHANGED toolVars
    BY <2>1, ContentKept DEF toolVars
  <2>2. CASE Preprocess \/ EndOfSource
    BY <2>2, UnreadPhase, ContentUnread
  <2>3. CASE Layout \/ WriteStatement \/ WriteLines \/ WriteLabel \/ Close
    BY <2>3, ContentLayout, ContentStatement, ContentLines, ContentLabel, ContentClosed
  <2>. QED  BY <2>1, <2>2, <2>3 DEF Next
<1>. QED  BY <1>1, <1>2, ToolInvariant, ImageInvariant, PTL DEF Spec

-----------------------------------------------------------------------------
(* What the loader makes of the finished file.                             *)

(* The first pass gives a statement the address behind all before it.      *)
LEMMA AddressAt ==
    ASSUME program \in Seq(Accepted), NEW i \in 1 .. Len(program) + 1
    PROVE  AddressOf(i) = CodeEnd(program, i - 1)
<1>. DEFINE n == Len(program)
            all == [j \in 1 .. n |-> StmtSize(program[j])]
            first == [j \in 1 .. i - 1 |-> StmtSize(program[j])]
<1>1. n \in Nat /\ \A j \in 1 .. n : StmtSize(program[j]) \in Nat
  <2>1. program \in Seq(StatementType)
    BY DEF Accepted
  <2>. QED  BY <2>1, StmtSizeType
<1>2. i - 1 \in 0 .. n
  BY <1>1
<1>3. SubSeq(all, 1, i - 1) = first
  <2>1. all \in Seq(Nat) /\ Len(all) = n
    BY <1>1
  <2>2. \A j \in 1 .. i - 1 : all[j] = StmtSize(program[j])
    BY <1>1, <1>2
  <2>3. SubSeq(all, 1, i - 1) = [j \in 1 .. i - 1 |-> all[j]]
    <3>. HIDE DEF all, n
    <3>. QED  BY <1>1, <1>2, <2>1
  <2>. QED  BY <2>2, <2>3
<1>4. AddressOf(i) = SumSeq(first)
  BY Zenon DEF AddressOf
<1>5. CodeEnd(program, i - 1) = SumSeq(SubSeq(all, 1, i - 1))
  BY Zenon DEF CodeEnd
<1>. QED  BY <1>3, <1>4, <1>5

(* A label has the address of the statement that has its name.             *)
LEMMA LabelAt ==
    ASSUME program \in Seq(Accepted), NEW name \in DOMAIN LabelAddress
    PROVE  /\ Labelled(name) \in 1 .. Len(program) /\ program[Labelled(name)].label = name
           /\ name # ""
           /\ LabelAddress[name] = CodeEnd(program, Labelled(name) - 1)
<1>. DEFINE I == {i \in 1 .. Len(program) : program[i].label = name}
            at == Labelled(name)
<1>1. at = IF I # {} THEN Min(I) ELSE 0
  BY Zenon DEF Labelled, SelectInSeq
<1>2. PICK i \in 1 .. Len(program) : program[i].label = name /\ IsLabel(program[i])
  <2>1. PICK k \in 1 .. Len(Labels) : Labels[k].label = name
    <3>1. Labels \in Seq(Accepted)
      BY LabelsType
    <3>2. DOMAIN LabelAddress = {Labels[k].label : k \in DOMAIN Labels}
      BY DEF LabelAddress
    <3>. QED  BY <3>1, <3>2
  <2>2. PICK i \in 1 .. Len(program) : i \in LabelPlaces /\ Count(LabelPlaces, i) = k
    BY SelectCounts DEF Labels
  <2>3. Labels[k] = program[i]
    BY <2>2, SelectCounts DEF Labels
  <2>4. IsLabel(program[i])
    BY <2>2 DEF LabelPlaces
  <2>. QED  BY <2>1, <2>3, <2>4
<1>3. at \in I
  <2>1. I \in SUBSET Nat /\ I # {}
    BY <1>2
  <2>. HIDE DEF I
  <2>. QED  BY <1>1, <2>1, MinIsLowest
<1>4. at \in 1 .. Len(program) /\ program[at].label = name
  BY <1>3
<1>5. name # ""
  BY <1>2 DEF IsLabel
<1>6. LabelAddress[name] = AddressOf(at)
  BY DEF LabelAddress
<1>. HIDE DEF at
<1>7. AddressOf(at) = CodeEnd(program, at - 1)
  <2>1. at \in 1 .. Len(program) + 1
    BY <1>4
  <2>. QED  BY <2>1, AddressAt
<1>. QED  BY <1>4, <1>5, <1>6, <1>7 DEF at

\* The code is short enough for an address to be read as a number with a
\* sign, the tables and the line numbers for the 32 bits they are written in.
Addressable ==
    /\ CodeSize <= 2147483647 /\ Len(Code) <= 4294967295 /\ Len(Labels) <= 4294967295
    /\ \A i \in DOMAIN program : program[i].line <= 4294967295

(* The addresses of the labels are those of statements.                    *)
LEMMA LabelsAreAddressable ==
    ASSUME program \in Seq(Accepted), Addressable
    PROVE  \A name \in DOMAIN LabelAddress :
              LabelAddress[name] \in Nat /\ LabelAddress[name] <= CodeSize
<1>. SUFFICES ASSUME NEW name \in DOMAIN LabelAddress
     PROVE  LabelAddress[name] \in Nat /\ LabelAddress[name] <= CodeSize
  OBVIOUS
<1>. DEFINE at == Labelled(name)
<1>1. at \in 1 .. Len(program) /\ LabelAddress[name] = CodeEnd(program, at - 1)
  BY LabelAt
<1>. HIDE DEF at
<1>2. program \in Seq(StatementType) /\ Len(program) \in 0 .. Len(program)
      /\ at - 1 \in 0 .. Len(program)
  BY <1>1 DEF Accepted
<1>3. CodeSize = CodeEnd(program, Len(program))
  BY AddressIsEnd
<1>. QED  BY <1>1, <1>2, <1>3, CodeEnds

\* Two fields of the line table, and an entry of the label table.
LineRead(b, size, i) == [pc |-> R32(b, 10 + size + 8 * i), line |-> R32(b, 14 + size + 8 * i)]

(* The loader takes the parts of the file for what they are.               *)
LEMMA LoadedImage ==
    ASSUME ToolInv, ImageInv, ContentInv, phase = "done", Addressable,
           ReadLabels(output, TablesAt, Len(Labels)).end # -1
    PROVE  Image = [ok |-> TRUE, code |-> SubSeq(output, 19, 18 + CodeSize),
                    lines |-> [i \in 1 .. Len(Code) |-> LineRead(output, CodeSize, i)],
                    labels |-> ReadLabels(output, TablesAt, Len(Labels)).labels]
<1>. DEFINE size == R32(output, 6)
            lineCount == R32(output, 10)
            labelCount == R32(output, 14)
<1>1. /\ program \in Seq(Accepted) /\ HeaderStands /\ Stands(Magic, output, 0)
      /\ Len(output) = TableEnd(Labels, TablesAt, Len(Labels)) /\ output \in Seq(Byte)
  BY DEF ToolInv, ImageInv, ContentInv
<1>2. CodeSize \in Nat /\ Len(Code) \in Nat /\ Len(Labels) \in Nat /\ TablesAt \in Nat
      /\ Labels \in Seq(Accepted)
  BY <1>1, AddressIsEnd, LabelsType
<1>3. size = CodeSize /\ lineCount = Len(Code) /\ labelCount = Len(Labels)
  <2>1. CodeSize <= 4294967295 /\ Len(Code) <= 4294967295 /\ Len(Labels) <= 4294967295
    BY <1>2, SMT DEF Addressable
  <2>2. /\ Stands(W32(CodeSize), output, 6) /\ Stands(W32(Len(Code)), output, 10)
        /\ Stands(W32(Len(Labels)), output, 14)
    BY <1>1 DEF HeaderStands
  <2>. QED  BY <1>2, <2>1, <2>2, R32OfW32, SMT
<1>. HIDE DEF size, lineCount, labelCount
<1>4. TablesAt <= Len(output) /\ 18 <= Len(output) /\ Len(output) \in Nat /\ TablesAt >= 18
  <2>1. TableEnd(Labels, TablesAt, 0) = TablesAt
        /\ TableEnd(Labels, TablesAt, 0) <= TableEnd(Labels, TablesAt, Len(Labels))
    <3>1. Len(Labels) \in 0 .. Len(Labels) /\ 0 \in 0 .. Len(Labels)
      BY <1>2
    <3>. QED  BY <1>2, <3>1, TableEnds
  <2>2. TablesAt >= 18
    BY <1>2 DEF TablesAt
  <2>. QED  BY <1>1, <1>2, <2>1, <2>2
<1>5. SubSeq(output, 1, 6) = <<83, 67, 77, 76, 5, 0>>
  <2>1. Bytes(Magic, 6)
    BY DEF Magic, Bytes, Byte
  <2>2. 0 + 6 <= Len(output) /\ 0 + 1 = 1 /\ 0 + 6 = 6 /\ 0 \in Nat /\ 6 \in Nat
    BY <1>4
  <2>. HIDE DEF Byte
  <2>3. SubSeq(output, 0 + 1, 0 + 6) = Magic
    BY <1>1, <2>1, <2>2, StandsIsRead
  <2>. QED  BY <2>2, <2>3, Zenon DEF Magic
<1>6. 18 + size + 8 * lineCount = TablesAt
  BY <1>3, Zenon DEF TablesAt
<1>7. ~(Len(output) < 18) /\ ~(Len(output) < TablesAt)
  BY <1>2, <1>4
<1>8. Image = IF Len(output) < 18 \/ SubSeq(output, 1, 6) # <<83, 67, 77, 76, 5, 0>> THEN NotLoaded
              ELSE IF Len(output) < 18 + size + 8 * lineCount
                      \/ ReadLabels(output, 18 + size + 8 * lineCount, labelCount).end = -1 THEN NotLoaded
              ELSE [ok |-> TRUE, code |-> SubSeq(output, 19, 18 + size),
                    lines |-> [i \in 1 .. lineCount |-> LineRead(output, size, i)],
                    labels |-> ReadLabels(output, 18 + size + 8 * lineCount, labelCount).labels]
  BY Zenon DEF Image, LoadFile, LineRead, size, lineCount, labelCount
<1>. QED  BY <1>3, <1>5, <1>6, <1>7, <1>8, Zenon

\* What fits in 16 and in 32 bits.
Is16(v) == v \in Nat /\ v <= 65535
Is32(v) == v \in Nat /\ v <= 4294967295

(* The loader reads the entry of a label back.                             *)
LEMMA EntryReadBack ==
    ASSUME NEW name \in Names, NEW addr, Is32(addr), Is16(Len(Spelling(name))),
           NEW b \in Seq(Byte), NEW at \in Nat, at + 6 + Len(Spelling(name)) <= Len(b),
           Stands(LabelBytes(name, addr), b, at), NEW t, t.end = at
    PROVE  ReadLabel(b, t) = [end |-> at + 6 + Len(Spelling(name)),
                              labels |-> Append(t.labels, [pc |-> addr, name |-> Spelling(name)])]
<1>. DEFINE text_ == Spelling(name)
            len == Len(text_)
            n == R16(b, at + 4)
            head == W32(addr) \o W16(len)
<1>1. ReadLabel(b, t) = IF at = -1 THEN Short ELSE IF at + 6 > Len(b) THEN Short
                        ELSE IF at + 6 + n > Len(b) THEN Short
                        ELSE [end |-> at + 6 + n,
                              labels |-> Append(t.labels, [pc |-> R32(b, at),
                                                           name |-> SubSeq(b, at + 7, at + 6 + n)])]
  BY Zenon DEF ReadLabel
<1>2. len \in Nat /\ Bytes(text_, len) /\ Len(b) \in Nat
  BY SpellingType DEF Bytes
<1>3. LabelBytes(name, addr) = head \o text_
  BY Zenon DEF LabelBytes
<1>. HIDE DEF len, text_
<1>4. Bytes(W32(addr), 4) /\ Bytes(W16(len), 2)
  <2>1. addr \in Int /\ len \in Int
    BY <1>2, SMT DEF Is32
  <2>. QED  BY <2>1, W32Type, W16Type
<1>5. Bytes(head, 6)
  <2>1. Bytes(head, 4 + 2)
    BY <1>4, JoinBytes
  <2>. QED  BY <2>1
<1>6. Stands(head, b, at) /\ Stands(text_, b, at + 6)
  <2>. HIDE DEF head
  <2>. QED  BY <1>2, <1>3, <1>5, StandsInParts
<1>7. Stands(W32(addr), b, at) /\ Stands(W16(len), b, at + 4)
  BY <1>4, <1>6, StandsInParts
<1>8. R32(b, at) = addr
  BY <1>7, R32OfW32, SMT DEF Is32
<1>9. n = len
  <2>1. len <= 65535
    BY SMT DEF len, text_, Is16
  <2>. QED  BY <1>2, <1>7, <2>1, R16OfW16, SMT
<1>10. at + 6 + len <= Len(b)
  BY DEF len, text_
<1>11. SubSeq(b, at + 7, at + 6 + len) = text_
  <2>1. at + 6 \in Nat /\ (at + 6) + len <= Len(b) /\ (at + 6) + 1 = at + 7
    BY <1>2, <1>10
  <2>2. SubSeq(b, (at + 6) + 1, (at + 6) + len) = text_
    BY <1>2, <1>6, <2>1, StandsIsRead
  <2>. QED  BY <2>1, <2>2
<1>12. ~(at = -1) /\ ~(at + 6 > Len(b)) /\ ~(at + 6 + len > Len(b))
  BY <1>2, <1>10
<1>13. ReadLabel(b, t) = [end |-> at + 6 + len, labels |-> Append(t.labels, [pc |-> addr, name |-> text_])]
  <2>. HIDE DEF n, head
  <2>. QED  BY <1>1, <1>8, <1>9, <1>11, <1>12
<1>. QED  BY <1>13 DEF len, text_

LabelEntry(name) == [pc |-> LabelAddress[name], name |-> Spelling(name)]

(* The loader reads back the whole label table.                            *)
LEMMA LabelsReadBack ==
    ASSUME ToolInv, ImageInv, ContentInv, phase = "done", Addressable
    PROVE  ReadLabels(output, TablesAt, Len(Labels))
              = [end |-> TableEnd(Labels, TablesAt, Len(Labels)),
                 labels |-> [k \in 1 .. Len(Labels) |-> LabelEntry(Labels[k].label)]]
<1>. DEFINE n == Len(Labels)
            V == [pc : Nat, name : Seq(Byte)]
            entries == [k \in 1 .. n |-> LabelEntry(Labels[k].label)]
            state(i) == [end |-> TableEnd(Labels, TablesAt, i), labels |-> SubSeq(entries, 1, i)]
            Run(f) == f = [i \in 0 .. n |-> IF i = 0 THEN [end |-> TablesAt, labels |-> <<>>]
                                            ELSE ReadLabel(output, f[i - 1])]
            g == CHOOSE f : Run(f)
<1>1. /\ program \in Seq(Accepted) /\ output \in Seq(Byte)
      /\ Len(output) = TableEnd(Labels, TablesAt, n)
      /\ EntriesStand(Labels, LabelAddress, TablesAt, output, n)
      /\ LabelsStand(Labels, TablesAt, output, n)
  BY DEF ToolInv, ImageInv, ContentInv
<1>2. Labels \in Seq(Accepted) /\ n \in Nat /\ TablesAt \in Nat
      /\ \A k \in 1 .. n : Labels[k].label \in Names /\ Labels[k].label \in DOMAIN LabelAddress
  BY <1>1, LabelsType, AddressIsEnd
<1>3. \A k \in 1 .. n : LabelAddress[Labels[k].label] \in Nat /\ Is32(LabelAddress[Labels[k].label])
  <2>1. \A name \in DOMAIN LabelAddress :
           LabelAddress[name] \in Nat /\ LabelAddress[name] <= CodeSize
    BY <1>1, LabelsAreAddressable
  <2>2. CodeSize \in Nat
    BY <1>1, AddressIsEnd
  <2>3. \A x \in Nat : x <= CodeSize => Is32(x)
    BY <2>2, SMT DEF Addressable, Is32
  <2>. HIDE DEF n
  <2>. QED  BY <1>2, <2>1, <2>3
<1>4. \A k \in 1 .. n : LabelEntry(Labels[k].label) \in V
  BY <1>2, <1>3, SpellingType DEF LabelEntry
<1>5. entries \in Seq(V) /\ Len(entries) = n /\ \A k \in 1 .. n : entries[k] = LabelEntry(Labels[k].label)
  <2>. HIDE DEF n
  <2>. QED  BY <1>2, <1>4
<1>6. ReadLabels(output, TablesAt, n) = g[n]
  BY Zenon DEF ReadLabels
<1>. HIDE DEF n, entries, V
<1>7. [end |-> TablesAt, labels |-> <<>>] = state(0)
  <2>1. TableEnd(Labels, TablesAt, 0) = TablesAt
    <3>1. 0 \in 0 .. Len(Labels)
      BY <1>2 DEF n
    <3>. QED  BY <1>2, <3>1, TableEnds
  <2>2. SubSeq(entries, 1, 0) = <<>>
    BY <1>5
  <2>. QED  BY <2>1, <2>2, Zenon
<1>8. ASSUME NEW i \in 1 .. n PROVE ReadLabel(output, state(i - 1)) = state(i)
  <2>. DEFINE name == Labels[i].label
              at == TableEnd(Labels, TablesAt, i - 1)
              len == Len(Spelling(name))
              t == state(i - 1)
  <2>1. i \in 0 .. n /\ i # 0 /\ i - 1 \in 0 .. n
    BY <1>2
  <2>2. at \in Nat /\ len \in Nat /\ TableEnd(Labels, TablesAt, i) = at + 6 + len
        /\ TableEnd(Labels, TablesAt, i) <= Len(output)
    <3>1. n \in 0 .. n
      BY <1>2
    <3>2. at \in Nat
      BY <1>2, <2>1, TableEnds DEF n
    <3>3. len \in Nat /\ TableEnd(Labels, TablesAt, i) = at + 6 + len
      <4>. HIDE DEF at
      <4>1. Len(Spelling(Labels[i].label)) \in Nat
            /\ TableEnd(Labels, TablesAt, i)
                  = TableEnd(Labels, TablesAt, i - 1) + 6 + Len(Spelling(Labels[i].label))
        BY <1>2, <2>1, TableEnds DEF n
      <4>. QED  BY <4>1, Zenon DEF at
    <3>4. TableEnd(Labels, TablesAt, i) <= Len(output)
      <4>1. \A k \in 0 .. n : TableEnd(Labels, TablesAt, k) <= TableEnd(Labels, TablesAt, n)
        BY <1>2, <3>1, TableEnds DEF n
      <4>. QED  BY <1>1, <2>1, <4>1
    <3>. QED  BY <3>2, <3>3, <3>4
  <2>3. Stands(LabelBytes(name, LabelAddress[name]), output, at)
    BY <1>1 DEF EntriesStand
  <2>4. Is16(Len(Spelling(name)))
    BY <1>1, <2>2, SMT DEF LabelsStand, LengthStands, Is16
  <2>5. name \in Names
    BY <1>2
  <2>6. Is32(LabelAddress[name])
    BY <1>3
  <2>7. t.end = at /\ t.labels = SubSeq(entries, 1, i - 1)
    OBVIOUS
  <2>8. at + 6 + Len(Spelling(name)) <= Len(output)
    BY <2>2
  <2>. HIDE DEF name, at, t
  <2>9. ReadLabel(output, t) = [end |-> at + 6 + Len(Spelling(name)),
                                labels |-> Append(t.labels, [pc |-> LabelAddress[name],
                                                             name |-> Spelling(name)])]
    BY <1>1, <2>2, <2>3, <2>4, <2>5, <2>6, <2>7, <2>8, EntryReadBack, Zenon
  <2>10. SubSeq(entries, 1, i) = Append(SubSeq(entries, 1, i - 1), entries[i])
    <3>1. i \in 1 .. Len(entries)
      BY <1>5
    <3>. QED  BY <1>5, <3>1
  <2>11. entries[i] = [pc |-> LabelAddress[name], name |-> Spelling(name)]
    BY <1>5, Zenon DEF LabelEntry, name
  <2>. QED  BY <2>2, <2>7, <2>9, <2>10, <2>11, Zenon DEF t
<1>. DEFINE q == [i \in 0 .. n |-> state(i)]
<1>9. \A i \in 0 .. n : q[i] = state(i)
  OBVIOUS
<1>10. Run(q)
  <2>1. ASSUME NEW i \in 0 .. n
        PROVE  q[i] = IF i = 0 THEN [end |-> TablesAt, labels |-> <<>>]
                      ELSE ReadLabel(output, q[i - 1])
    <3>1. CASE i = 0
      BY <1>7, <1>9, <3>1, Zenon
    <3>2. CASE i # 0
      <4>1. i \in 1 .. n /\ i - 1 \in 0 .. n
        BY <1>2, <3>2
      <4>. HIDE DEF state, q
      <4>. QED  BY <1>8, <1>9, <3>2, <4>1, Zenon
    <3>. QED  BY <3>1, <3>2
  <2>2. q = [i \in 0 .. n |-> q[i]]
    OBVIOUS
  <2>. HIDE DEF q
  <2>. QED  BY <2>1, <2>2, Zenon
<1>11. Run(g)
  BY <1>10, Zenon
<1>. HIDE DEF g, state
<1>12. \A i \in 0 .. n : g[i] = IF i = 0 THEN [end |-> TablesAt, labels |-> <<>>]
                                ELSE ReadLabel(output, g[i - 1])
  BY <1>11, Zenon
<1>13. g[n] = state(n)
  <2>. DEFINE T == {i \in 0 .. n : g[i] = state(i)}
  <2>1. 0 \in T
    BY <1>2, <1>7, <1>12
  <2>2. ASSUME NEW i \in 1 .. n, i - 1 \in T PROVE i \in T
    <3>1. g[i - 1] = state(i - 1) /\ i # 0 /\ i \in 0 .. n
      BY <2>2
    <3>2. g[i] = state(i)
      BY <1>8, <1>12, <3>1, Zenon
    <3>. QED  BY <3>1, <3>2
  <2>3. \A i \in 0 .. n : i \in T
    <3>. HIDE DEF T
    <3>. QED  BY <1>2, <2>1, <2>2, IntervalInduction
  <2>. QED  BY <1>2, <2>3
<1>14. SubSeq(entries, 1, n) = entries
  BY <1>2, <1>5
<1>15. ReadLabels(output, TablesAt, n) = [end |-> TableEnd(Labels, TablesAt, n), labels |-> entries]
  BY <1>6, <1>13, <1>14, Zenon DEF state
<1>. QED  BY <1>15 DEF entries, n

LEMMA CodePlacesAre ==
    ASSUME program \in Seq(Accepted)
    PROVE  \A i \in 1 .. Len(program) : i \in CodePlaces <=> ~IsLabel(program[i])
BY DEF CodePlaces, LabelPlaces

(* The loader reads back the row of the line table that an instruction has. *)
LEMMA RowReadBack ==
    ASSUME ToolInv, ImageInv, ContentInv, phase = "done", Addressable,
           NEW j \in 1 .. Len(program), j \in CodePlaces
    PROVE  /\ Count(CodePlaces, j) \in 1 .. Len(Code)
           /\ Code[Count(CodePlaces, j)] = program[j]
           /\ LineRead(output, CodeSize, Count(CodePlaces, j))
                 = [pc |-> CodeEnd(program, j - 1), line |-> program[j].line]
<1>. DEFINE k == Count(CodePlaces, j)
            rows == [i \in 1 .. Len(program) |-> [pc |-> AddressOf(i), line |-> program[i].line]]
            pc == CodeEnd(program, j - 1)
            line == program[j].line
            at == 18 + CodeSize + 8 * (k - 1)
<1>1. program \in Seq(Accepted) /\ program \in Seq(StatementType) /\ Len(program) \in Nat
      /\ RowsStand(LineTable, 18 + CodeSize, output) /\ CodeSize \in Nat
  <2>1. program \in Seq(Accepted) /\ RowsStand(LineTable, 18 + CodeSize, output)
    BY DEF ToolInv, ContentInv
  <2>2. program \in Seq(StatementType)
    BY <2>1 DEF Accepted
  <2>. QED  BY <2>1, <2>2, AddressIsEnd
<1>2. k \in 1 .. Len(Code) /\ Code[k] = program[j]
  BY <1>1, SelectCounts DEF Code
<1>3. rows \in Seq(LineRow) /\ Len(rows) = Len(program)
  <2>1. \A st \in StatementType : st.line \in Int
    BY DEF StatementType
  <2>2. \A i \in 1 .. Len(program) : program[i].line \in Int
    BY <1>1, <2>1
  <2>3. \A i \in 1 .. Len(program) : AddressOf(i) \in Int
    BY <1>1, AddressType
  <2>. QED  BY <1>1, <2>2, <2>3 DEF LineRow
<1>4. LineTable[k] = rows[j] /\ k \in 1 .. Len(LineTable)
  <2>1. LineTable = SelectAt(rows, CodePlaces)
    BY Zenon DEF LineTable
  <2>2. j \in 1 .. Len(rows)
    BY <1>3
  <2>. HIDE DEF rows
  <2>. QED  BY <1>3, <2>1, <2>2, SelectCounts
<1>5. rows[j].pc = pc /\ rows[j].line = line
  <2>1. rows[j].pc = AddressOf(j) /\ rows[j].line = line
    OBVIOUS
  <2>2. j \in 1 .. Len(program) + 1
    BY <1>1
  <2>. QED  BY <1>1, <2>1, <2>2, AddressAt
<1>. HIDE DEF rows, k
<1>6. Stands(W32(pc) \o W32(line), output, at)
  <2>1. Stands(RowBytes(LineTable[k]), output, (18 + CodeSize) + 8 * (k - 1))
    BY <1>1, <1>4 DEF RowsStand
  <2>2. RowBytes(LineTable[k]) = W32(pc) \o W32(line)
    BY <1>4, <1>5 DEF RowBytes
  <2>. QED  BY <2>1, <2>2
<1>7. pc \in Nat /\ pc <= CodeSize /\ line \in Nat
  <2>1. j - 1 \in 0 .. Len(program) /\ Len(program) \in 0 .. Len(program)
    BY <1>1
  <2>2. CodeSize = CodeEnd(program, Len(program))
    BY <1>1, AddressIsEnd
  <2>3. pc \in Nat /\ pc <= CodeSize
    BY <1>1, <2>1, <2>2, CodeEnds
  <2>4. program[j] \in StatementType
    BY <1>1
  <2>5. line \in Nat
    BY <2>4 DEF StatementType
  <2>. QED  BY <2>3, <2>5
<1>8. Is32(pc) /\ Is32(line)
  <2>1. j \in DOMAIN program
    BY <1>1
  <2>2. Is32(line)
    BY <1>7, <2>1, SMT DEF Addressable, Is32
  <2>3. Is32(pc)
    BY <1>1, <1>7, SMT DEF Addressable, Is32
  <2>. QED  BY <2>2, <2>3
<1>. HIDE DEF pc, line
<1>9. at \in Nat /\ at = 10 + CodeSize + 8 * k /\ at + 4 = 14 + CodeSize + 8 * k
  BY <1>1, <1>2
<1>. HIDE DEF at
<1>10. Stands(W32(pc), output, at) /\ Stands(W32(line), output, at + 4)
  <2>1. Bytes(W32(pc), 4) /\ Bytes(W32(line), 4)
    BY <1>7, W32Type
  <2>. QED  BY <1>6, <1>9, <2>1, StandsInParts
<1>11. R32(output, at) = pc /\ R32(output, at + 4) = line
  BY <1>8, <1>10, R32OfW32, SMT DEF Is32
<1>12. LineRead(output, CodeSize, k) = [pc |-> R32(output, at), line |-> R32(output, at + 4)]
  BY <1>9, Zenon DEF LineRead
<1>. QED  BY <1>2, <1>11, <1>12, Zenon DEF k, pc, line

\* The code that has been loaded.
LoadedBytes == SubSeq(output, 19, 18 + CodeSize)

(* It stands where the code was written.                                   *)
LEMMA CodeLoaded ==
    ASSUME ToolInv, ImageInv, ContentInv, phase = "done"
    PROVE  /\ LoadedBytes \in Seq(Byte) /\ Len(LoadedBytes) = CodeSize
           /\ CodeStands(program, LabelAddress, output, Len(program))
           /\ \A k \in 1 .. CodeSize : LoadedBytes[k] = output[18 + k]
<1>1. /\ program \in Seq(Accepted) /\ output \in Seq(Byte)
      /\ Len(output) = TableEnd(Labels, TablesAt, Len(Labels))
      /\ CodeStands(program, LabelAddress, output, Len(program))
  BY DEF ToolInv, ImageInv, ContentInv
<1>2. CodeSize \in Nat /\ TablesAt \in Nat /\ Labels \in Seq(Accepted) /\ Len(Labels) \in Nat
      /\ Len(Code) \in Nat
  BY <1>1, AddressIsEnd, LabelsType
<1>3. 18 + CodeSize <= Len(output) /\ Len(output) \in Nat
  <2>1. TableEnd(Labels, TablesAt, 0) = TablesAt
        /\ TableEnd(Labels, TablesAt, 0) <= TableEnd(Labels, TablesAt, Len(Labels))
    <3>1. Len(Labels) \in 0 .. Len(Labels) /\ 0 \in 0 .. Len(Labels)
      BY <1>2
    <3>. QED  BY <1>2, <3>1, TableEnds
  <2>2. 18 + CodeSize <= TablesAt
    BY <1>2 DEF TablesAt
  <2>. QED  BY <1>1, <1>2, <2>1, <2>2
<1>4. LoadedBytes \in Seq(Byte) /\ Len(LoadedBytes) = CodeSize
      /\ \A k \in 1 .. CodeSize : LoadedBytes[k] = output[18 + k]
  <2>. DEFINE size == CodeSize
  <2>. HIDE DEF size, Byte
  <2>1. size \in Nat /\ 18 + size <= Len(output)
    BY <1>2, <1>3 DEF size
  <2>2. \A k \in 19 .. 18 + size : k \in 1 .. Len(output)
    BY <1>3, <2>1
  <2>3. SubSeq(output, 19, 18 + size) \in Seq(Byte) /\ Len(SubSeq(output, 19, 18 + size)) = size
    BY <1>1, <1>3, <2>1, <2>2
  <2>4. ASSUME NEW k \in 1 .. size PROVE SubSeq(output, 19, 18 + size)[k] = output[18 + k]
    BY <1>1, <1>3, <2>1, <2>2
  <2>. QED  BY <2>3, <2>4 DEF LoadedBytes, size
<1>. QED  BY <1>1, <1>4

\* What a statement is met as.
MetAt(i) ==
    [pc |-> CodeEnd(program, i), ok |-> TRUE, halts |-> FALSE,
     op |-> program[i].op, operands |-> ReadsOf(program[i], LabelAddress)]

(* An instruction takes two bytes and its operands.                        *)
LEMMA InstructionSize ==
    ASSUME NEW st \in Accepted, ~IsLabel(st)
    PROVE  StmtSize(st) \in Nat /\ StmtSize(st) >= 2
<1>. DEFINE sizes == [j \in 1 .. Len(st.operands) |-> OperandSize(st.operands[j])]
<1>1. StmtSize(st) = 2 + SumSeq(sizes)
  BY Zenon DEF StmtSize
<1>2. st.operands \in Seq(OperandType) /\ Len(st.operands) \in Nat
  BY DEF Accepted, StatementType
<1>3. \A j \in 1 .. Len(st.operands) : st.operands[j].s \in Names
  <2>1. \A o \in OperandType : o.s \in Names
    BY DEF OperandType
  <2>2. \A j \in 1 .. Len(st.operands) : st.operands[j] \in OperandType
    BY <1>2
  <2>. QED  BY <2>1, <2>2
<1>4. \A j \in 1 .. Len(st.operands) : OperandSize(st.operands[j]) \in Nat
  BY <1>3, SpellingType DEF OperandSize
<1>5. sizes \in Seq(Nat)
  BY <1>2, <1>4
<1>. HIDE DEF sizes
<1>. QED  BY <1>1, <1>5, SumNat

(* At the address of an instruction the decoder meets it, and goes on      *)
(* behind it.                                                              *)
LEMMA InstructionAt ==
    ASSUME ToolInv, ImageInv, ContentInv, phase = "done", Addressable,
           NEW i \in 1 .. Len(program), i \in CodePlaces
    PROVE  /\ Decode(LoadedBytes, CodeEnd(program, i - 1)) = MetAt(i)
           /\ CodeEnd(program, i - 1) \in Nat /\ CodeEnd(program, i - 1) < CodeSize
<1>. DEFINE st == program[i]
            pc == CodeEnd(program, i - 1)
            bytes == StmtBytes(st, LabelAddress)
            long == StmtSize(st)
<1>1. program \in Seq(Accepted) /\ program \in Seq(StatementType) /\ st \in Accepted /\ ~IsLabel(st)
      /\ Len(program) \in Nat
  <2>1. program \in Seq(Accepted)
    BY DEF ToolInv
  <2>2. program \in Seq(StatementType) /\ st \in Accepted
    BY <2>1 DEF Accepted
  <2>. QED  BY <2>1, <2>2, CodePlacesAre
<1>2. /\ LoadedBytes \in Seq(Byte) /\ Len(LoadedBytes) = CodeSize /\ CodeSize \in Nat
      /\ CodeStands(program, LabelAddress, output, Len(program))
      /\ \A k \in 1 .. CodeSize : LoadedBytes[k] = output[18 + k]
  BY <1>1, CodeLoaded, AddressIsEnd
<1>3. /\ \A j \in DOMAIN st.operands : Writable(st.operands[j], LabelAddress)
      /\ Stands(bytes, output, 18 + pc)
  BY <1>2 DEF CodeStands
<1>4. Bytes(bytes, long) /\ long \in Nat
  BY <1>1, <1>3, AddressesAreNumbers, WrittenBytes
<1>5. pc \in Nat /\ CodeEnd(program, i) = pc + long /\ CodeEnd(program, i) <= CodeSize
  <2>1. i \in 0 .. Len(program) /\ i - 1 \in 0 .. Len(program) /\ i # 0
        /\ Len(program) \in 0 .. Len(program)
    BY <1>1
  <2>2. CodeSize = CodeEnd(program, Len(program))
    BY <1>1, AddressIsEnd
  <2>3. pc \in Nat
    BY <1>1, <2>1, CodeEnds
  <2>4. CodeEnd(program, i) = pc + long
    BY <1>1, <2>1, CodeEnds
  <2>5. \A k \in 0 .. Len(program) : CodeEnd(program, k) <= CodeEnd(program, Len(program))
    BY <1>1, <2>1, CodeEnds
  <2>. QED  BY <2>1, <2>2, <2>3, <2>4, <2>5
<1>6. long >= 2
  BY <1>1, InstructionSize
<1>7. \A j \in 1 .. Len(st.operands) : Readable(st.operands[j], LabelAddress)
  <2>. SUFFICES ASSUME NEW j \in 1 .. Len(st.operands) PROVE Readable(st.operands[j], LabelAddress)
    OBVIOUS
  <2>. DEFINE o == st.operands[j]
  <2>1. st.operands \in Seq(OperandType)
    BY <1>1 DEF Accepted, StatementType
  <2>2. o \in OperandType /\ j \in DOMAIN st.operands
    BY <2>1
  <2>3. Writable(o, LabelAddress)
    BY <1>3, <2>2
  <2>4. o.s \in Names
    BY <2>2, Zenon DEF OperandType
  <2>5. Len(Spelling(o.s)) \in Nat /\ TextMax \in Int
    BY <2>4, SpellingType, TextMaxFits
  <2>. HIDE DEF o
  <2>6. o.type \in TextOperands => Len(Spelling(o.s)) <= 65535
    BY <2>3, <2>5, TextMaxFits, SMT DEF Writable
  <2>7. o.type = AddressTag => LabelAddress[o.s] \in Nat /\ LabelAddress[o.s] <= CodeSize
    BY <1>1, <2>3, LabelsAreAddressable DEF Writable
  <2>8. Readable(o, LabelAddress)
    BY <1>2, <2>6, <2>7, SMT DEF Readable, Addressable
  <2>. QED  BY <2>8 DEF o
<1>8. Stands(bytes, LoadedBytes, pc)
  <2>. HIDE DEF bytes, pc, long
  <2>1. Len(bytes) = long
    BY <1>4 DEF Bytes
  <2>2. ASSUME NEW k \in 1 .. long PROVE LoadedBytes[pc + k] = bytes[k]
    <3>1. pc + k \in 1 .. CodeSize /\ 18 + (pc + k) = (18 + pc) + k
      BY <1>2, <1>4, <1>5
    <3>2. output[(18 + pc) + k] = bytes[k]
      BY <1>3, <2>1 DEF Stands
    <3>. QED  BY <1>2, <3>1, <3>2
  <2>. QED  BY <2>1, <2>2 DEF Stands
<1>9. Decode(LoadedBytes, pc) = [pc |-> pc + long, ok |-> TRUE, halts |-> FALSE,
                                 op |-> st.op, operands |-> ReadsOf(st, LabelAddress)]
  <2>1. pc + long <= Len(LoadedBytes)
    BY <1>2, <1>5
  <2>. HIDE DEF st, pc
  <2>. QED  BY <1>1, <1>2, <1>5, <1>7, <1>8, <2>1, InstructionReadBack
<1>10. pc < CodeSize
  <2>. HIDE DEF pc, long
  <2>. QED  BY <1>2, <1>4, <1>5, <1>6
<1>. QED  BY <1>5, <1>9, <1>10, Zenon DEF MetAt

-----------------------------------------------------------------------------
(* The decoder meets the instructions in their order.                      *)

(* Places with as many instructions before them have the same address: a   *)
(* label takes no bytes.                                                   *)
LEMMA SameBoundary ==
    ASSUME program \in Seq(Accepted)
    PROVE  /\ \A l \in 0 .. Len(program) :
                 /\ Count(CodePlaces, l) \in Nat /\ Count(CodePlaces, l) <= CodeEnd(program, l)
                 /\ \A i \in 0 .. l :
                       /\ Count(CodePlaces, i) <= Count(CodePlaces, l)
                       /\ Count(CodePlaces, i) = Count(CodePlaces, l)
                             => CodeEnd(program, i) = CodeEnd(program, l)
<1>. DEFINE n == Len(program)
            c(i) == Count(CodePlaces, i)
            e(i) == CodeEnd(program, i)
            T == {l \in 0 .. n : /\ c(l) \in Nat /\ c(l) <= e(l)
                                 /\ \A i \in 0 .. l : c(i) <= c(l) /\ (c(i) = c(l) => e(i) = e(l))}
<1>1. n \in Nat /\ program \in Seq(StatementType) /\ \A i \in 1 .. n : program[i] \in Accepted
  BY DEF Accepted
<1>2. \A i \in 0 .. n : c(i) \in Nat /\ e(i) \in Nat
  BY <1>1, CountSteps, CodeEnds
<1>3. ASSUME NEW l \in 1 .. n
      PROVE  \/ c(l) = c(l - 1) /\ e(l) = e(l - 1)
             \/ \E size \in Nat : c(l) = c(l - 1) + 1 /\ e(l) = e(l - 1) + size /\ size >= 2
  <2>1. l \in 0 .. n /\ l # 0 /\ l \in Nat /\ l - 1 \in 0 .. n
    BY <1>1
  <2>2. e(l) = e(l - 1) + StmtSize(program[l])
    BY <1>1, <2>1, CodeEnds
  <2>3. c(l) = IF l \in CodePlaces THEN c(l - 1) + 1 ELSE c(l - 1)
    BY <2>1, CountSteps
  <2>4. l \in CodePlaces <=> ~IsLabel(program[l])
    BY CodePlacesAre
  <2>5. e(l - 1) \in Nat
    BY <1>2, <2>1
  <2>. HIDE DEF c, e
  <2>6. CASE IsLabel(program[l])
    <3>1. StmtSize(program[l]) = 0
      BY <2>6, Zenon DEF StmtSize
    <3>. QED  BY <2>2, <2>3, <2>4, <2>5, <2>6, <3>1
  <2>7. CASE ~IsLabel(program[l])
    <3>1. StmtSize(program[l]) \in Nat /\ StmtSize(program[l]) >= 2
      BY <1>1, <2>7, InstructionSize
    <3>. QED  BY <2>2, <2>3, <2>4, <2>7, <3>1
  <2>. QED  BY <2>6, <2>7
<1>4. c(0) = 0 /\ e(0) = 0
  <2>1. 0 \in Nat /\ 0 \in 0 .. n
    BY <1>1
  <2>. QED  BY <1>1, <2>1, CountSteps, CodeEnds
<1>. HIDE DEF c, e, n
<1>5. 0 \in T
  BY <1>1, <1>4
<1>6. ASSUME NEW l \in 1 .. n, l - 1 \in T PROVE l \in T
  <2>1. /\ l - 1 \in 0 .. n /\ l \in 0 .. n
        /\ c(l - 1) \in Nat /\ c(l) \in Nat /\ e(l) \in Nat /\ e(l - 1) \in Nat
    BY <1>1, <1>2
  <2>2. c(l - 1) <= e(l - 1)
        /\ \A i \in 0 .. l - 1 : c(i) <= c(l - 1) /\ (c(i) = c(l - 1) => e(i) = e(l - 1))
    BY <1>6
  <2>3. c(l - 1) <= c(l) /\ c(l) <= e(l) /\ (c(l) = c(l - 1) => e(l) = e(l - 1))
    BY <1>3, <2>1, <2>2
  <2>4. ASSUME NEW i \in 0 .. l PROVE c(i) <= c(l) /\ (c(i) = c(l) => e(i) = e(l))
    <3>1. CASE i = l
      BY <2>1, <3>1
    <3>2. CASE i \in 0 .. l - 1
      <4>1. c(i) \in Nat
        BY <1>1, <1>2, <3>2
      <4>. QED  BY <2>1, <2>2, <2>3, <3>2, <4>1
    <3>. QED  BY <3>1, <3>2
  <2>. QED  BY <2>1, <2>3, <2>4
<1>7. \A l \in 0 .. n : l \in T
  <2>. HIDE DEF T
  <2>. QED  BY <1>1, <1>5, <1>6, IntervalInduction
<1>. QED  BY <1>7 DEF c, e, n

\* The place of the k-th instruction, the address of the first byte behind the
\* k-th, and what is to be met there.
PlaceOf(k) == CHOOSE i \in 1 .. Len(program) : i \in CodePlaces /\ Count(CodePlaces, i) = k

BoundaryAt(k) == IF k = Len(Code) THEN CodeSize ELSE CodeEnd(program, PlaceOf(k + 1) - 1)

Expected(k) == [at |-> BoundaryAt(k - 1), op |-> program[PlaceOf(k)].op,
                operands |-> ReadsOf(program[PlaceOf(k)], LabelAddress)]

(* Every instruction has its place, and every place its boundary.          *)
LEMMA Places ==
    ASSUME program \in Seq(Accepted)
    PROVE  /\ Len(Code) \in Nat /\ Len(Code) <= CodeSize /\ CodeSize \in Nat /\ BoundaryAt(0) = 0
           /\ \A k \in 1 .. Len(Code) :
                 /\ PlaceOf(k) \in 1 .. Len(program) /\ PlaceOf(k) \in CodePlaces
                 /\ Count(CodePlaces, PlaceOf(k)) = k
           /\ \A i \in 0 .. Len(program) :
                 /\ Count(CodePlaces, i) \in 0 .. Len(Code)
                 /\ CodeEnd(program, i) = BoundaryAt(Count(CodePlaces, i))
<1>. DEFINE n == Len(program)
            c(i) == Count(CodePlaces, i)
            e(i) == CodeEnd(program, i)
<1>1. n \in Nat /\ program \in Seq(StatementType)
  BY DEF Accepted
<1>2. Len(Code) = c(n) /\ \A k \in 1 .. Len(Code) : \E i \in 1 .. n : i \in CodePlaces /\ c(i) = k
  BY SelectCounts DEF Code
<1>3. ASSUME NEW k \in 1 .. Len(Code)
      PROVE  PlaceOf(k) \in 1 .. n /\ PlaceOf(k) \in CodePlaces /\ c(PlaceOf(k)) = k
  BY <1>2 DEF PlaceOf
<1>4. CodeSize = e(n)
  BY AddressIsEnd
<1>5. n \in 0 .. n /\ 0 \in 0 .. n /\ 0 \in Nat
  BY <1>1
<1>6. c(0) = 0 /\ e(0) = 0 /\ e(n) \in Nat
  BY <1>1, <1>5, CountSteps, CodeEnds
<1>7. \A l \in 0 .. n : /\ c(l) \in Nat /\ c(l) <= e(l)
                        /\ \A i \in 0 .. l : c(i) <= c(l) /\ (c(i) = c(l) => e(i) = e(l))
  BY SameBoundary
<1>8. \A k \in 1 .. n : c(k) = IF k \in CodePlaces THEN c(k - 1) + 1 ELSE c(k - 1)
  <2>1. \A k \in 1 .. n : k \in Nat /\ k # 0
    BY <1>1
  <2>. QED  BY <2>1, CountSteps
<1>. HIDE DEF c, e, n
<1>9. ASSUME NEW i \in 0 .. n PROVE c(i) \in 0 .. Len(Code) /\ e(i) = BoundaryAt(c(i))
  <2>1. c(i) \in Nat /\ c(n) \in Nat /\ c(i) <= c(n) /\ (c(i) = c(n) => e(i) = e(n))
    BY <1>1, <1>5, <1>7
  <2>2. c(i) \in 0 .. Len(Code)
    BY <1>2, <2>1
  <2>3. CASE c(i) = Len(Code)
    BY <1>2, <1>4, <2>1, <2>3 DEF BoundaryAt
  <2>4. CASE c(i) # Len(Code)
    <3>. DEFINE p == PlaceOf(c(i) + 1)
    <3>1. c(i) + 1 \in 1 .. Len(Code)
      BY <1>2, <2>1, <2>2, <2>4
    <3>2. p \in 1 .. n /\ p \in CodePlaces /\ c(p) = c(i) + 1
      BY <1>3, <3>1
    <3>. HIDE DEF p
    <3>3. p - 1 \in 0 .. n /\ p \in 0 .. n
      BY <1>1, <3>2
    <3>4. c(p - 1) = c(i)
      BY <1>7, <1>8, <2>1, <3>2, <3>3
    <3>5. i \in 0 .. p - 1 \/ p - 1 \in 0 .. i
      BY <1>1, <3>2
    <3>6. e(i) = e(p - 1)
      BY <1>7, <3>3, <3>4, <3>5
    <3>. QED  BY <2>2, <2>4, <3>6 DEF BoundaryAt, p, e
  <2>. QED  BY <2>2, <2>3, <2>4
<1>10. BoundaryAt(0) = 0
  BY <1>5, <1>6, <1>9
<1>11. Len(Code) \in Nat /\ Len(Code) <= CodeSize /\ CodeSize \in Nat
  BY <1>2, <1>4, <1>5, <1>6, <1>7
<1>. QED  BY <1>3, <1>9, <1>10, <1>11 DEF c, e, n

(* The decoder goes from each instruction to the next, and stays behind    *)
(* the last.                                                               *)
LEMMA MeetsInOrder ==
    ASSUME ToolInv, ImageInv, ContentInv, phase = "done", Addressable, NEW s
    PROVE  /\ \A k \in 1 .. Len(Code) :
                 Meet(LoadedBytes, [pc |-> BoundaryAt(k - 1), ins |-> s])
                    = [pc |-> BoundaryAt(k), ins |-> Append(s, Expected(k))]
           /\ Meet(LoadedBytes, [pc |-> BoundaryAt(Len(Code)), ins |-> s])
                 = [pc |-> BoundaryAt(Len(Code)), ins |-> s]
<1>1. program \in Seq(Accepted) /\ Len(program) \in Nat
  <2>1. program \in Seq(Accepted)
    BY DEF ToolInv
  <2>. QED  BY <2>1
<1>2. Len(LoadedBytes) = CodeSize /\ Len(Code) \in Nat /\ CodeSize \in Nat
  BY <1>1, CodeLoaded, Places
<1>3. ASSUME NEW k \in 1 .. Len(Code)
      PROVE  Meet(LoadedBytes, [pc |-> BoundaryAt(k - 1), ins |-> s])
                = [pc |-> BoundaryAt(k), ins |-> Append(s, Expected(k))]
  <2>. DEFINE p == PlaceOf(k)
              pc == CodeEnd(program, p - 1)
              m == [pc |-> BoundaryAt(k - 1), ins |-> s]
  <2>1. p \in 1 .. Len(program) /\ p \in CodePlaces /\ Count(CodePlaces, p) = k
    BY <1>1, Places
  <2>2. BoundaryAt(k - 1) = pc
    <3>1. k - 1 # Len(Code) /\ (k - 1) + 1 = k
      BY <1>2
    <3>. QED  BY <3>1, Zenon DEF BoundaryAt
  <2>3. CodeEnd(program, p) = BoundaryAt(k)
    <3>1. p \in 0 .. Len(program)
      BY <1>1, <2>1
    <3>2. CodeEnd(program, p) = BoundaryAt(Count(CodePlaces, p))
      BY <1>1, <3>1, Places
    <3>. QED  BY <2>1, <3>2, Zenon
  <2>4. /\ Decode(LoadedBytes, pc) = MetAt(p) /\ pc \in Nat /\ pc < CodeSize
    BY <2>1, InstructionAt
  <2>5. m.pc = pc /\ m.ins = s /\ pc # Len(LoadedBytes)
    BY <1>2, <2>2, <2>4
  <2>6. /\ MetAt(p).ok /\ MetAt(p).pc = BoundaryAt(k) /\ MetAt(p).op = program[p].op
        /\ MetAt(p).operands = ReadsOf(program[p], LabelAddress)
    BY <2>3 DEF MetAt
  <2>7. Expected(k) = [at |-> pc, op |-> program[p].op, operands |-> ReadsOf(program[p], LabelAddress)]
    BY <2>2, Zenon DEF Expected
  <2>. HIDE DEF m, p, pc
  <2>8. Meet(LoadedBytes, m) = [pc |-> BoundaryAt(k), ins |-> Append(s, Expected(k))]
    BY <2>4, <2>5, <2>6, <2>7, Zenon DEF Meet
  <2>. QED  BY <2>8 DEF m
<1>4. Meet(LoadedBytes, [pc |-> BoundaryAt(Len(Code)), ins |-> s])
         = [pc |-> BoundaryAt(Len(Code)), ins |-> s]
  <2>1. BoundaryAt(Len(Code)) = Len(LoadedBytes)
    BY <1>2, Zenon DEF BoundaryAt
  <2>2. [pc |-> BoundaryAt(Len(Code)), ins |-> s].pc = BoundaryAt(Len(Code))
    OBVIOUS
  <2>. QED  BY <2>1, <2>2, Zenon DEF Meet
<1>. QED  BY <1>3, <1>4

(* Decoding from the first byte meets the instructions in their order.     *)
LEMMA DecodedIsCode ==
    ASSUME ToolInv, ImageInv, ContentInv, phase = "done", Addressable
    PROVE  Decoded(LoadedBytes) = [k \in 1 .. Len(Code) |-> Expected(k)]
<1>. DEFINE K == Len(Code)
            n == Len(LoadedBytes)
            expected == [k \in 1 .. K |-> Expected(k)]
            V == {Expected(k) : k \in 1 .. K}
            least(i) == IF i <= K THEN i ELSE K
            state(i) == [pc |-> BoundaryAt(least(i)), ins |-> SubSeq(expected, 1, least(i))]
            Run(f) == f = [i \in 0 .. n |-> IF i = 0 THEN [pc |-> 0, ins |-> <<>>]
                                            ELSE Meet(LoadedBytes, f[i - 1])]
            g == CHOOSE f : Run(f)
<1>1. program \in Seq(Accepted)
  BY DEF ToolInv
<1>2. K \in Nat /\ n \in Nat /\ K <= n /\ BoundaryAt(0) = 0
  BY <1>1, CodeLoaded, Places
<1>3. Decoded(LoadedBytes) = g[n].ins
  BY Zenon DEF Decoded
<1>4. \A s : /\ \A k \in 1 .. K : Meet(LoadedBytes, [pc |-> BoundaryAt(k - 1), ins |-> s])
                                     = [pc |-> BoundaryAt(k), ins |-> Append(s, Expected(k))]
             /\ Meet(LoadedBytes, [pc |-> BoundaryAt(K), ins |-> s]) = [pc |-> BoundaryAt(K), ins |-> s]
  BY MeetsInOrder
<1>. HIDE DEF K, n
<1>5. expected \in Seq(V) /\ Len(expected) = K /\ \A k \in 1 .. K : expected[k] = Expected(k)
  <2>1. \A k \in 1 .. K : Expected(k) \in V
    OBVIOUS
  <2>. HIDE DEF V
  <2>. QED  BY <1>2, <2>1
<1>. HIDE DEF V, expected
<1>6. [pc |-> 0, ins |-> <<>>] = state(0)
  <2>1. least(0) = 0 /\ SubSeq(expected, 1, 0) = <<>>
    BY <1>2, <1>5
  <2>. QED  BY <1>2, <2>1, Zenon
<1>7. ASSUME NEW i \in 1 .. n PROVE Meet(LoadedBytes, state(i - 1)) = state(i)
  <2>1. CASE i <= K
    <3>1. least(i - 1) = i - 1 /\ least(i) = i /\ i \in 1 .. K
      BY <1>2, <2>1
    <3>2. Append(SubSeq(expected, 1, i - 1), Expected(i)) = SubSeq(expected, 1, i)
      <4>1. i \in 1 .. Len(expected)
        BY <1>5, <3>1
      <4>2. SubSeq(expected, 1, i) = Append(SubSeq(expected, 1, i - 1), expected[i])
        BY <1>5, <4>1
      <4>. QED  BY <1>5, <3>1, <4>2
    <3>3. Meet(LoadedBytes, [pc |-> BoundaryAt(i - 1), ins |-> SubSeq(expected, 1, i - 1)])
             = [pc |-> BoundaryAt(i), ins |-> Append(SubSeq(expected, 1, i - 1), Expected(i))]
      BY <1>4, <3>1, Zenon
    <3>. QED  BY <3>1, <3>2, <3>3, Zenon
  <2>2. CASE ~(i <= K)
    <3>1. least(i - 1) = K /\ least(i) = K
      BY <1>2, <2>2
    <3>. QED  BY <1>4, <3>1, Zenon
  <2>. QED  BY <2>1, <2>2
<1>. DEFINE q == [i \in 0 .. n |-> state(i)]
<1>8. \A i \in 0 .. n : q[i] = state(i)
  OBVIOUS
<1>9. Run(q)
  <2>1. ASSUME NEW i \in 0 .. n
        PROVE  q[i] = IF i = 0 THEN [pc |-> 0, ins |-> <<>>] ELSE Meet(LoadedBytes, q[i - 1])
    <3>1. CASE i = 0
      BY <1>6, <1>8, <3>1, Zenon
    <3>2. CASE i # 0
      <4>1. i \in 1 .. n /\ i - 1 \in 0 .. n
        BY <1>2, <3>2
      <4>. HIDE DEF state, q
      <4>. QED  BY <1>7, <1>8, <3>2, <4>1, Zenon
    <3>. QED  BY <3>1, <3>2
  <2>2. q = [i \in 0 .. n |-> q[i]]
    OBVIOUS
  <2>. HIDE DEF q
  <2>. QED  BY <2>1, <2>2, Zenon
<1>10. Run(g)
  BY <1>9, Zenon
<1>. HIDE DEF g, state
<1>11. \A i \in 0 .. n : g[i] = IF i = 0 THEN [pc |-> 0, ins |-> <<>>] ELSE Meet(LoadedBytes, g[i - 1])
  BY <1>10, Zenon
<1>12. g[n] = state(n)
  <2>. DEFINE T == {i \in 0 .. n : g[i] = state(i)}
  <2>1. 0 \in T
    BY <1>2, <1>6, <1>11
  <2>2. ASSUME NEW i \in 1 .. n, i - 1 \in T PROVE i \in T
    <3>1. g[i - 1] = state(i - 1) /\ i # 0 /\ i \in 0 .. n
      BY <2>2
    <3>2. g[i] = state(i)
      BY <1>7, <1>11, <3>1, Zenon
    <3>. QED  BY <3>1, <3>2
  <2>3. \A i \in 0 .. n : i \in T
    <3>. HIDE DEF T
    <3>. QED  BY <1>2, <2>1, <2>2, IntervalInduction
  <2>. QED  BY <1>2, <2>3
<1>13. SubSeq(expected, 1, least(n)) = expected
  BY <1>2, <1>5
<1>14. g[n].ins = expected
  BY <1>12, <1>13 DEF state
<1>. QED  BY <1>3, <1>14 DEF expected, K

(* What the decoder is to make of the operands is what was written.        *)
LEMMA SameOperands ==
    ASSUME NEW st \in Accepted
    PROVE  /\ Len(ReadsOf(st, LabelAddress)) = Len(st.operands)
           /\ \A j \in DOMAIN st.operands : SameOperand(st.operands[j], ReadsOf(st, LabelAddress)[j])
<1>. DEFINE reads == ReadsOf(st, LabelAddress)
            n == Len(st.operands)
<1>1. st.operands \in Seq(OperandType)
  BY DEF Accepted, StatementType
<1>2. n \in Nat /\ DOMAIN st.operands = 1 .. n
  BY <1>1
<1>. HIDE DEF n
<1>3. reads = [j \in 1 .. n |-> ReadOf(st.operands[j], LabelAddress)]
  BY Zenon DEF ReadsOf, n
<1>4. Len(reads) = n
  BY <1>2, <1>3
<1>5. ASSUME NEW j \in 1 .. n PROVE SameOperand(st.operands[j], reads[j])
  <2>. DEFINE o == st.operands[j]
  <2>1. reads[j] = ReadOf(o, LabelAddress)
    BY <1>3
  <2>. HIDE DEF o, reads
  <2>2. CASE o.type \in TextOperands
    <3>1. reads[j] = [type |-> o.type, v |-> 0, bytes |-> Spelling(o.s)]
      BY <2>1, <2>2, Zenon DEF ReadOf
    <3>. QED  BY <2>2, <3>1 DEF SameOperand, o
  <2>3. CASE o.type \notin TextOperands
    <3>1. reads[j] = [type |-> o.type, v |-> ValueOf(o, LabelAddress), bytes |-> <<>>]
      BY <2>1, <2>3, Zenon DEF ReadOf
    <3>2. ValueOf(o, LabelAddress) = IF o.type = AddressTag THEN LabelAddress[o.s] ELSE o.v
      BY Zenon DEF ValueOf
    <3>. QED  BY <2>3, <3>1, <3>2 DEF SameOperand, o
  <2>. QED  BY <2>2, <2>3
<1>. QED  BY <1>2, <1>4, <1>5 DEF n

(* A label that has been read is at the address of the instruction it      *)
(* stands before.                                                          *)
LEMMA LabelBoundary ==
    ASSUME program \in Seq(Accepted), NEW k \in 1 .. Len(Labels)
    PROVE  \E i \in DOMAIN program :
              /\ program[i].label = Labels[k].label
              /\ LabelAddress[Labels[k].label] = BoundaryAt(Count(CodePlaces, i))
              /\ Count(CodePlaces, i) \in 0 .. Len(Code)
<1>. DEFINE name == Labels[k].label
            i == Labelled(name)
<1>1. name \in DOMAIN LabelAddress
  BY LabelsType DEF LabelAddress
<1>2. i \in 1 .. Len(program) /\ program[i].label = name /\ name # ""
      /\ LabelAddress[name] = CodeEnd(program, i - 1)
  BY <1>1, LabelAt
<1>3. program \in Seq(StatementType) /\ Len(program) \in Nat
  BY DEF Accepted
<1>. HIDE DEF i, name
<1>4. i \in 0 .. Len(program) /\ i # 0 /\ i \in DOMAIN program /\ i - 1 \in 0 .. Len(program)
  <2>1. DOMAIN program = 1 .. Len(program)
    BY <1>3
  <2>2. \A l \in 1 .. Len(program) : l \in 0 .. Len(program) /\ l # 0 /\ l - 1 \in 0 .. Len(program)
    BY <1>3
  <2>. QED  BY <1>2, <2>1, <2>2, Zenon
<1>5. CodeEnd(program, i) = CodeEnd(program, i - 1)
  <2>1. IsLabel(program[i])
    BY <1>2 DEF IsLabel
  <2>2. StmtSize(program[i]) = 0
    BY <2>1, Zenon DEF StmtSize
  <2>3. CodeEnd(program, i - 1) \in Nat
        /\ CodeEnd(program, i) = CodeEnd(program, i - 1) + StmtSize(program[i])
    BY <1>3, <1>4, CodeEnds
  <2>. QED  BY <2>2, <2>3
<1>6. CodeEnd(program, i) = BoundaryAt(Count(CodePlaces, i)) /\ Count(CodePlaces, i) \in 0 .. Len(Code)
  BY <1>4, Places
<1>. QED  BY <1>2, <1>4, <1>5, <1>6, Zenon DEF name

(* The loader gives back all that was laid out.                            *)
LEMMA ImageIsRead ==
    ASSUME ToolInv, ImageInv, ContentInv, phase = "done", Addressable
    PROVE  Image = [ok |-> TRUE, code |-> LoadedBytes,
                    lines |-> [k \in 1 .. Len(Code) |-> LineRead(output, CodeSize, k)],
                    labels |-> [k \in 1 .. Len(Labels) |-> LabelEntry(Labels[k].label)]]
<1>1. ReadLabels(output, TablesAt, Len(Labels))
         = [end |-> TableEnd(Labels, TablesAt, Len(Labels)),
            labels |-> [k \in 1 .. Len(Labels) |-> LabelEntry(Labels[k].label)]]
  BY LabelsReadBack
<1>2. program \in Seq(Accepted)
  BY DEF ToolInv
<1>3. TableEnd(Labels, TablesAt, Len(Labels)) # -1
  <2>1. Labels \in Seq(Accepted) /\ Len(Labels) \in Nat /\ TablesAt \in Nat
    <3>1. Labels \in Seq(Accepted) /\ Len(Labels) \in Nat /\ CodeSize \in Nat /\ Len(Code) \in Nat
      BY <1>2, LabelsType, Places
    <3>. QED  BY <3>1 DEF TablesAt
  <2>2. Len(Labels) \in 0 .. Len(Labels)
    BY <2>1
  <2>3. TableEnd(Labels, TablesAt, Len(Labels)) \in Nat
    BY <2>1, <2>2, TableEnds
  <2>. QED  BY <2>3
<1>4. ReadLabels(output, TablesAt, Len(Labels)).end # -1
      /\ ReadLabels(output, TablesAt, Len(Labels)).labels
            = [k \in 1 .. Len(Labels) |-> LabelEntry(Labels[k].label)]
  BY <1>1, <1>3
<1>. QED  BY <1>4, LoadedImage, Zenon DEF LoadedBytes

(* The VM reads back what the parser accepted, for every program whose     *)
(* code and tables are short enough for an address to be a number with a   *)
(* sign and for the counts and line numbers to fit in 32 bits: decoding    *)
(* the loaded code meets the statements in order with the operands they    *)
(* were written with, and labels and lines point at the instructions they  *)
(* stand before (compiler.c:96-195, vm.c:443-491 and 611-636).             *)
THEOREM ProgramIsReadBack == Spec => [](Addressable => ProgramReadBack)
<1>1. ToolInv /\ ImageInv /\ ContentInv => (Addressable => ProgramReadBack)
  <2>. SUFFICES ASSUME ToolInv, ImageInv, ContentInv, Addressable, phase = "done"
       PROVE  ProgramReadBack
    BY DEF ProgramReadBack
  <2>. DEFINE ins == Decoded(Image.code)
              B(i) == Cardinality(CodePlaces \cap 1 .. i)
  <2>1. program \in Seq(Accepted)
    BY DEF ToolInv
  <2>2. /\ Image.ok /\ Image.code = LoadedBytes
        /\ Image.lines = [k \in 1 .. Len(Code) |-> LineRead(output, CodeSize, k)]
        /\ Image.labels = [k \in 1 .. Len(Labels) |-> LabelEntry(Labels[k].label)]
    BY ImageIsRead
  <2>3. /\ Len(Code) \in Nat /\ DOMAIN Code = 1 .. Len(Code)
        /\ Len(Labels) \in Nat /\ DOMAIN Labels = 1 .. Len(Labels)
    <3>1. Labels \in Seq(Accepted) /\ Code \in Seq(Accepted)
      BY <2>1, LabelsType, SelectType DEF Code
    <3>. QED  BY <3>1
  <2>4. ins = [k \in 1 .. Len(Code) |-> Expected(k)]
    BY <2>2, DecodedIsCode, Zenon
  <2>. HIDE DEF ins
  <2>5. Len(ins) = Len(Code) /\ Len(Image.lines) = Len(Code) /\ Len(Image.labels) = Len(Labels)
    BY <2>2, <2>3, <2>4
  <2>6. ASSUME NEW k \in DOMAIN Code
        PROVE  /\ ins[k].op = Code[k].op /\ Len(ins[k].operands) = Len(Code[k].operands)
               /\ \A j \in DOMAIN Code[k].operands :
                     SameOperand(Code[k].operands[j], ins[k].operands[j])
               /\ Image.lines[k] = [pc |-> ins[k].at, line |-> Code[k].line]
    <3>. DEFINE p == PlaceOf(k)
                reads == ReadsOf(Code[k], LabelAddress)
    <3>1. k \in 1 .. Len(Code)
      BY <2>3
    <3>2. p \in 1 .. Len(program) /\ p \in CodePlaces /\ Count(CodePlaces, p) = k
      BY <2>1, <3>1, Places
    <3>3. /\ Code[k] = program[p]
          /\ LineRead(output, CodeSize, k) = [pc |-> CodeEnd(program, p - 1), line |-> program[p].line]
      <4>1. /\ Code[Count(CodePlaces, p)] = program[p]
            /\ LineRead(output, CodeSize, Count(CodePlaces, p))
                  = [pc |-> CodeEnd(program, p - 1), line |-> program[p].line]
        BY <3>2, RowReadBack
      <4>. QED  BY <3>2, <4>1, Zenon
    <3>4. Code[k] \in Accepted
      BY <2>1, <3>2, <3>3
    <3>5. BoundaryAt(k - 1) = CodeEnd(program, p - 1)
      <4>1. k - 1 # Len(Code) /\ (k - 1) + 1 = k
        BY <2>3, <3>1
      <4>. QED  BY <4>1, Zenon DEF BoundaryAt
    <3>6. ins[k] = Expected(k)
      BY <2>4, <3>1
    <3>7. Expected(k) = [at |-> CodeEnd(program, p - 1), op |-> Code[k].op, operands |-> reads]
      BY <3>3, <3>5, Zenon DEF Expected
    <3>8. Image.lines[k] = LineRead(output, CodeSize, k)
      BY <2>2, <3>1
    <3>9. /\ Len(reads) = Len(Code[k].operands)
          /\ \A j \in DOMAIN Code[k].operands : SameOperand(Code[k].operands[j], reads[j])
      BY <3>4, SameOperands
    <3>. HIDE DEF p, reads
    <3>10. ins[k].at = CodeEnd(program, p - 1) /\ ins[k].op = Code[k].op /\ ins[k].operands = reads
      BY <3>6, <3>7
    <3>. QED  BY <3>3, <3>8, <3>9, <3>10, Zenon
  <2>7. ASSUME NEW k \in DOMAIN Labels
        PROVE  /\ Image.labels[k].name = Spelling(Labels[k].label)
               /\ \E i \in DOMAIN program :
                     /\ program[i].label = Labels[k].label
                     /\ Image.labels[k].pc = IF B(i) = Len(Code) THEN Len(Image.code)
                                             ELSE ins[B(i) + 1].at
    <3>1. Image.labels[k] = LabelEntry(Labels[k].label)
      BY <2>2, <2>3
    <3>2. Image.labels[k].name = Spelling(Labels[k].label)
          /\ Image.labels[k].pc = LabelAddress[Labels[k].label]
      BY <3>1 DEF LabelEntry
    <3>3. k \in 1 .. Len(Labels)
      BY <2>3
    <3>4. PICK i \in DOMAIN program :
             /\ program[i].label = Labels[k].label
             /\ LabelAddress[Labels[k].label] = BoundaryAt(Count(CodePlaces, i))
             /\ Count(CodePlaces, i) \in 0 .. Len(Code)
      BY <2>1, <3>3, LabelBoundary
    <3>5. B(i) = Count(CodePlaces, i)
      BY Zenon DEF Count
    <3>. HIDE DEF B
    <3>6. CASE B(i) = Len(Code)
      <4>1. BoundaryAt(B(i)) = CodeSize /\ Len(Image.code) = CodeSize
        BY <2>2, <3>6, CodeLoaded, Zenon DEF BoundaryAt
      <4>. QED  BY <3>2, <3>4, <3>5, <3>6, <4>1, Zenon
    <3>7. CASE B(i) # Len(Code)
      <4>1. B(i) + 1 \in 1 .. Len(Code) /\ (B(i) + 1) - 1 = B(i)
        BY <2>3, <3>4, <3>5, <3>7
      <4>2. ins[B(i) + 1].at = BoundaryAt(B(i))
        BY <2>4, <4>1 DEF Expected
      <4>. QED  BY <3>2, <3>4, <3>5, <3>7, <4>2, Zenon
    <3>. QED  BY <3>2, <3>6, <3>7
  <2>. QED  BY <2>2, <2>5, <2>6, <2>7, Zenon DEF ProgramReadBack, ins
<1>. QED  BY <1>1, ToolInvariant, ImageInvariant, ContentInvariant, PTL

=============================================================================

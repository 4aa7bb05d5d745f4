---------------------------- MODULE MCToolchain ----------------------------
(* Instances of Toolchain. *)
EXTENDS Toolchain

L(k, name) == [k |-> k, name |-> name, toks |-> <<>>, args |-> <<>>]
T(toks) == [k |-> "text", name |-> "", toks |-> toks, args |-> <<>>]

Num(v) == Token("num", "", v)
Str(s) == Token("str", s, 0)
Ref(s) == Token("ref", s, 0)
Colon == Token("colon", ":", 0)

\* once.h: guarded by #pragma once, a constant and a macro with a parameter.
\* guard.h: guarded by #ifndef; a label and a #define with a parameter.
\* loop.h: includes itself. open.h: leaves a conditional open.
MCHeaders ==
    "once.h" :> <<L("once", ""), [L("define", "N") EXCEPT !.toks = <<Num(7)>>],
                  [L("macro", "SAY") EXCEPT !.args = <<"x">>],
                  T(<<Num(997), Colon, Word("x")>>), L("endmacro", "")>>
    @@ "guard.h" :> <<L("ifndef", "G"), L("define", "G"),
                      [L("define", "INC") EXCEPT !.args = <<"x">>,
                                                 !.toks = <<Word("v"), Word("+="), Word("x")>>],
                      T(<<Colon, Word("a"), Word("NOP")>>),
                      L("else", ""), L("error", ""), L("endif", "")>>
    @@ "loop.h" :> <<L("include", "loop.h")>>
    @@ "open.h" :> <<L("ifdef", "N")>>

Statements ==
    {T(<<Word("JUMP"), Ref("a")>>), T(<<Colon, Word("b")>>),
     T(<<Word("SAY"), Word("("), Word("N"), Word(")")>>),
     T(<<Word("INC"), Word("("), Word("N"), Word(")")>>),
     T(<<Word("v"), Word("+="), Word("N")>>)}

MCSourceLines ==
    Statements
    \cup {L("include", h) : h \in {"once.h", "guard.h", "loop.h", "open.h", "none.h"}}
    \cup {L("ifdef", "N"), L("if", "1"), L("elif", "N"), L("elif", "1"), L("else", ""), L("endif", ""),
          L("error", ""), L("once", ""), L("undef", "N"), L("blank", ""), L("macro", "N"),
          [L("define", "N") EXCEPT !.toks = <<Str("hey")>>], L("endmacro", "")}

Spelled ==
    "a" :> <<1>> @@ "b" :> <<2>> @@ "hey" :> <<0, 1, 3>> @@ "" :> <<>>
    @@ "v" :> <<118>> @@ "N" :> <<78>> @@ "x" :> <<120>>
    @@ "(" :> <<40>> @@ ")" :> <<41>> @@ "endmacro" :> <<101>>

\* One source of a single line for every row of the opcode table, by name
\* and by code, with one operand too few, as many as it takes at least and at
\* most, and one too many.
Arg(i) == CASE i % 4 = 1 -> Word("v") [] i % 4 = 2 -> Str("b") [] i % 4 = 3 -> Num(-2)
            [] OTHER -> Token("float", "", 1069547520)
Args(n) == [i \in 1..n |-> Arg(i)]

RowCounts(r) == {n \in {r.min - 1, r.min, r.max, r.max + 1} : n >= 0}
RowPath(i, n, how) == how \o ToString(100 * i + n)

RowLine(r, n, how) ==
    T((IF how = "name" THEN <<Word(r.name)>> ELSE <<Num(r.code), Colon>>) \o Args(n))

RowFiles ==
    UNION {{<<i, n, how>> : n \in RowCounts(OpcodeTable[i]), how \in {"name", "code"}} :
           i \in DOMAIN OpcodeTable}

RowText ==
    [p \in {RowPath(x[1], x[2], x[3]) : x \in RowFiles} |->
        LET x == CHOOSE x \in RowFiles : RowPath(x[1], x[2], x[3]) = p
        IN <<RowLine(OpcodeTable[x[1]], x[2], x[3])>>]

MCCommands ==
    {<<"a.scml">>, <<"a.scml", "b.scml">>, <<"a.scml", "once.h">>} \cup {<<p>> : p \in DOMAIN RowText}

MCFileText == MCHeaders @@ RowText

\* The words and paths that no program of this instance has as an operand.
Unspelled ==
    {OpcodeTable[i].name : i \in DOMAIN OpcodeTable} \cup {":", "+=", "SAY", "INC", "G", "1"}
    \cup {"once.h", "guard.h", "loop.h", "open.h", "none.h", "a.scml", "b.scml"} \cup DOMAIN RowText

MCNames == DOMAIN Spelled \cup Unspelled

MCSpelling(name) == IF name \in DOMAIN Spelled THEN Spelled[name] ELSE <<33>>

=============================================================================

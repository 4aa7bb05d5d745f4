---------------------------- MODULE Preprocessor ----------------------------
(***************************************************************************)
(* The preprocessor of parser/parser.c: preprocess_text as a machine that  *)
(* reads one source line per step. A #include suspends the including file  *)
(* and the included one starts with conditionals of its own, so the        *)
(* activations form a stack; the macros are shared by the activations of   *)
(* one source file, and the list of #pragma once paths is a static of the  *)
(* process, shared by every source compiled in it.                         *)
(*                                                                         *)
(* Headers, and some sources, are constant texts. The text of every other  *)
(* source is checked over every choice: each line is any of SourceLines,   *)
(* and at most MaxLines of them are read over all the sources. A line is a *)
(* record whose k is the directive it holds, or "text" with its tokens.    *)
(* Left out: block comments, #warning, #line and the predefined words      *)
(* (__LINE__ ...), the operators # and ##, and macro names inside string   *)
(* literals and label references; a directive that cannot be read is an    *)
(* #error, and each argument of a macro call is one token.                 *)
(***************************************************************************)
EXTENDS Integers, Sequences, SequencesExt, Lists

CONSTANTS
    Names,         \* the words, names, paths and strings of the sources
    FileText,      \* the texts on disk: path -> sequence of lines
    Commands,      \* the lists of source paths to compile
    SourceLines,   \* the lines a source that is not in FileText may hold
    MaxLines,      \* bound: source lines read in a run
    CondMax,       \* depth of CondFrame cond[64]
    OnceMax,       \* size of pragma_once_paths (1024)
    StackMax       \* activations that fit on the stack of the process

VARIABLES
    phase,     \* what scml_compile_files is doing
    command,   \* source_paths
    source,    \* number of the source being read, from 1
    read,      \* source lines read so far
    files,     \* activations of preprocess_text, innermost last
    macros,    \* Macro list, newest first
    once,      \* pragma_once_paths
    text,      \* lines written to *out
    included,  \* ghost: headers this source has an active #include of
    expanded   \* ghost: headers whose text this source has been given

\* A token of lexer.c: a word, a word with a dot, a number, a string, a label
\* reference or a colon.
\* The value of a number is an int32_t, that of a real the bits of a float.
Int32Values == {v \in Int : -2147483647 - 1 <= v /\ v <= 2147483647}

Tokens ==
    [t : {"word", "dotted", "num", "float", "str", "ref", "colon", "newline"}, s : Names, v : Int32Values]

Directives ==
    {"ifdef", "ifndef", "if", "elif", "else", "endif", "error", "include", "once", "define",
     "undef", "macro", "endmacro", "text", "blank"}

Lines == [k : Directives, name : Names, toks : Seq(Tokens), args : Seq(Names)]

ASSUME TextsAssumption ==
    /\ {"", "endmacro"} \subseteq Names
    /\ SourceLines \subseteq Lines
    /\ FileText \in [DOMAIN FileText -> Seq(Lines)]
    /\ Commands \subseteq Seq(Names) \ {<<>>}

ASSUME LimitsAssumption ==
    /\ MaxLines \in Nat /\ CondMax \in Nat /\ OnceMax \in Nat
    /\ StackMax \in Nat \ {0}

Token(t, s, v) == [t |-> t, s |-> s, v |-> v]
Word(s) == Token("word", s, 0)
NewLine == Token("newline", "", 0)

preVars == <<phase, command, source, read, files, macros, once, text, included, expanded>>

-----------------------------------------------------------------------------

Top == Last(files)
CondTop == Last(Top.cond)

NoMacro == [name |-> "", args |-> <<>>, body |-> <<>>]

\* An activation of preprocess_text: it returns at once for a path in
\* pragma_once_paths (over), and *out is NULL until something is appended.
Opened(path) ==
    [path |-> path, over |-> path \in ToSet(once), line |-> 1, cond |-> <<>>, active |-> TRUE,
     inMacro |-> FALSE, cur |-> NoMacro, out |-> FALSE]

InSource == Len(files) = 1

\* The lines that can come next in the innermost file.
NextLines ==
    IF Top.over THEN {}
    ELSE IF Top.path \notin DOMAIN FileText THEN {l \in SourceLines : read < MaxLines}
    ELSE {FileText[Top.path][i] : i \in {Top.line} \cap DOMAIN FileText[Top.path]}

AtEnd ==
    Top.over \/ (Top.path \in DOMAIN FileText => Top.line > Len(FileText[Top.path]))

\* The line is consumed: the innermost activation continues as f.
Continue(f) ==
    /\ files' = [files EXCEPT ![Len(files)] = [f EXCEPT !.line = @ + 1]]
    /\ read' = IF InSource THEN Min({read + 1, MaxLines}) ELSE read

-----------------------------------------------------------------------------

Defined(name) == \E i \in DOMAIN macros : macros[i].name = name

\* The place of the newest macro with a name, 0 if there is none.
Newest(name) == SelectInSeq(macros, LAMBDA m : m.name = name)

FindMacro(name) == macros[Newest(name)]

\* macro_remove takes the newest definition away; an older one shows again.
WithoutNewest(name) ==
    IF Newest(name) = 0 THEN macros ELSE RemoveAt(macros, Newest(name))

\* replace_all on the tokens of a line.
ReplaceWord(toks, name, by) ==
    FlattenSeq([i \in DOMAIN toks |->
                    IF toks[i].t = "word" /\ toks[i].s = name THEN by ELSE <<toks[i]>>])

\* A line that begins with the name of a macro and "(" becomes the body with
\* the parameters replaced one after the other, and nothing else of the line.
IsCall(toks) == Len(toks) > 1 /\ Defined(toks[1].s) /\ toks[2].s = "("

Instance(m, toks) ==
    LET actual == SelectAt(toks, {i \in 3 .. Len(toks) : toks[i].s # ")"})
        body[i \in 0 .. Len(m.args)] ==
            IF i = 0 THEN m.body
            ELSE IF i > Len(actual) THEN body[i - 1]
            ELSE ReplaceWord(body[i - 1], m.args[i], <<actual[i]>>)
    IN body[Len(m.args)]

\* Then every macro without parameters is replaced, the newest first.
Expand(toks) ==
    LET line[i \in 0 .. Len(macros)] ==
            IF i = 0 THEN IF IsCall(toks) THEN Instance(FindMacro(toks[1].s), toks) ELSE toks
            ELSE IF macros[i].args # <<>> THEN line[i - 1]
            ELSE ReplaceWord(line[i - 1], macros[i].name, macros[i].body)
    IN line[Len(macros)]

\* strtok cuts the output at newlines and skips empty lines.
SplitLines(toks) ==
    LET cut[n \in 0 .. Len(toks)] ==
            IF n = 0 THEN << <<>> >>
            ELSE IF toks[n] = NewLine THEN Append(cut[n - 1], <<>>)
            ELSE Append(Front(cut[n - 1]), Append(Last(cut[n - 1]), toks[n]))
        lines == cut[Len(toks)]
    IN SelectAt(lines, {n \in DOMAIN lines : lines[n] # <<>>})

\* eval_expr_simple: a defined macro is true whatever its body, a number
\* is what it is.
Holds(l) ==
    CASE l.k \in {"ifdef"} -> Defined(l.name)
      [] l.k \in {"ifndef"} -> ~Defined(l.name)
      [] l.k \in {"if", "elif"} -> Defined(l.name) \/ l.name = "1"

-----------------------------------------------------------------------------

\* Errors, and the end of the stack: nothing but it limits how deep files
\* include each other.
Fails(l) ==
    \/ l.k \in {"ifdef", "ifndef", "if"} /\ Len(Top.cond) >= CondMax
    \/ l.k \in {"elif", "else", "endif"} /\ Top.cond = <<>>
    \/ l.k = "error" /\ Top.active
    \/ l.k = "include" /\ Top.active /\ l.name \notin DOMAIN FileText
    \/ l.k = "include" /\ Top.active /\ l.name \notin ToSet(once) /\ Len(files) = StackMax

\* What a source leaves behind when it ends, well or badly: nothing but once.
Freed ==
    /\ files' = <<>> /\ macros' = <<>> /\ text' = <<>>
    /\ included' = {} /\ expanded' = {}

Reject(l) ==
    /\ Fails(l)
    /\ phase' = "failed"
    /\ Freed
    /\ UNCHANGED <<command, source, read, once>>

\* The branches of one conditional; chosen is a ghost that counts those whose
\* lines were read as active.
OpenConditional(l) ==
    /\ l.k \in {"ifdef", "ifndef", "if"}
    /\ LET on == Top.active /\ Holds(l)
           frame == [parent |-> Top.active, taken |-> Holds(l), active |-> on,
                     chosen |-> IF on THEN 1 ELSE 0]
       IN Continue([Top EXCEPT !.cond = Append(@, frame), !.active = on])
    /\ UNCHANGED <<phase, command, source, macros, once, text, included, expanded>>

\* Fault: an earlier branch does not keep a later one from being taken.
NextBranchAgain(l) == l.k = "else" \/ Holds(l)

NextBranch(l) == ~CondTop.taken /\ (l.k = "else" \/ Holds(l))

ChangeBranch(l) ==
    /\ l.k \in {"elif", "else"}
    /\ LET v == NextBranch(l)
           on == CondTop.parent /\ v
           frame == [CondTop EXCEPT !.active = on, !.taken = @ \/ v \/ l.k = "else",
                                    !.chosen = IF on THEN @ + 1 ELSE @]
       IN Continue([Top EXCEPT !.cond = Append(Front(@), frame), !.active = on])
    /\ UNCHANGED <<phase, command, source, macros, once, text, included, expanded>>

Enclosing(cond) == IF cond = <<>> THEN TRUE ELSE Last(cond).active

CloseConditional(l) ==
    /\ l.k = "endif"
    /\ Continue([Top EXCEPT !.cond = Front(@), !.active = Enclosing(Front(Top.cond))])
    /\ UNCHANGED <<phase, command, source, macros, once, text, included, expanded>>

-----------------------------------------------------------------------------

\* What the header gives, be it nothing, will be appended to *out.
Include(l) ==
    /\ l.k = "include" /\ Top.active
    /\ IF l.name \in ToSet(once)
       THEN Continue([Top EXCEPT !.out = TRUE]) /\ UNCHANGED expanded
       ELSE /\ files' = Append([files EXCEPT ![Len(files)] = [Top EXCEPT !.line = @ + 1, !.out = TRUE]],
                               Opened(l.name))
            /\ read' = IF InSource THEN Min({read + 1, MaxLines}) ELSE read
            /\ expanded' = expanded \cup {l.name}
    /\ included' = included \cup {l.name}
    /\ UNCHANGED <<phase, command, source, macros, once, text>>

PragmaOnce(l) ==
    /\ l.k = "once" /\ Top.active
    /\ once' = IF Len(once) < OnceMax THEN Append(once, Top.path) ELSE once
    /\ Continue(Top)
    /\ UNCHANGED <<phase, command, source, macros, text, included, expanded>>

\* #define NAME body, and #define NAME(args) body.
Define(l) ==
    /\ l.k = "define" /\ Top.active
    /\ macros' = <<[name |-> l.name, args |-> l.args, body |-> l.toks]>> \o macros
    /\ Continue(Top)
    /\ UNCHANGED <<phase, command, source, once, text, included, expanded>>

Undef(l) ==
    /\ l.k = "undef" /\ Top.active
    /\ macros' = WithoutNewest(l.name)
    /\ Continue(Top)
    /\ UNCHANGED <<phase, command, source, once, text, included, expanded>>

\* macro NAME(ARGS): inside another macro it drops what that one had so far.
MacroHeader(l) ==
    /\ l.k = "macro" /\ Top.active
    /\ Continue([Top EXCEPT !.inMacro = TRUE,
                            !.cur = [name |-> l.name, args |-> l.args, body |-> <<>>]])
    /\ UNCHANGED <<phase, command, source, macros, once, text, included, expanded>>

\* Once in a macro, endmacro and body lines no longer look at active.
EndMacro(l) ==
    /\ l.k = "endmacro" /\ Top.inMacro
    /\ macros' = <<Top.cur>> \o macros
    /\ Continue([Top EXCEPT !.inMacro = FALSE, !.cur = NoMacro])
    /\ UNCHANGED <<phase, command, source, once, text, included, expanded>>

MacroBody(l) ==
    /\ l.k = "text" /\ Top.inMacro
    /\ Continue([Top EXCEPT !.cur.body = @ \o l.toks \o <<NewLine>>])
    /\ UNCHANGED <<phase, command, source, macros, once, text, included, expanded>>

\* A stray endmacro is text like any other.
Text(l) ==
    /\ l.k \in {"text", "endmacro"} /\ ~Top.inMacro /\ Top.active
    /\ LET toks == IF l.k = "endmacro" THEN <<Word("endmacro")>> ELSE l.toks
       IN text' = text \o SplitLines(Expand(toks))
    /\ Continue([Top EXCEPT !.out = TRUE])
    /\ UNCHANGED <<phase, command, source, macros, once, included, expanded>>

Ignored(l) ==
    \/ l.k \in {"include", "once", "define", "undef", "macro", "error"} /\ ~Top.active
    \/ l.k \in {"text", "endmacro"} /\ ~Top.inMacro /\ ~Top.active
    \/ l.k = "blank"

Skip(l) ==
    /\ Ignored(l)
    /\ Continue(Top)
    /\ UNCHANGED <<phase, command, source, macros, once, text, included, expanded>>

\* The end of an included file; a macro still open in it is lost.
EndOfHeader ==
    /\ phase = "reading" /\ ~InSource /\ AtEnd
    /\ IF Top.cond # <<>> THEN phase' = "failed" /\ Freed
       ELSE /\ files' = Front(files)
            /\ UNCHANGED <<phase, macros, text, included, expanded>>
    /\ UNCHANGED <<command, source, read, once>>

ReadLine ==
    /\ phase = "reading"
    /\ \E l \in NextLines :
          \/ Reject(l)
          \/ /\ ~Fails(l)
             /\ \/ OpenConditional(l) \/ ChangeBranch(l) \/ CloseConditional(l)
                \/ Include(l) \/ PragmaOnce(l) \/ Define(l) \/ Undef(l)
                \/ MacroHeader(l) \/ EndMacro(l) \/ MacroBody(l) \/ Text(l) \/ Skip(l)

PreInit ==
    /\ phase = "reading" /\ command \in Commands /\ source = 1 /\ read = 0
    /\ macros = <<>> /\ once = <<>> /\ text = <<>>
    /\ files = <<Opened(command[1])>>
    /\ included = {} /\ expanded = {}

\* scml_preprocess_file for the next source: no macros, the same once list.
NextSource ==
    /\ source' = source + 1
    /\ files' = <<Opened(command[source + 1])>>
    /\ macros' = <<>> /\ text' = <<>>
    /\ included' = {} /\ expanded' = {}
    /\ UNCHANGED <<command, read, once>>

=============================================================================

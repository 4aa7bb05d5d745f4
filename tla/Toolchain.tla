----------------------------- MODULE Toolchain -----------------------------
(***************************************************************************)
(* `scml compile`: each source is preprocessed and parsed in turn, then    *)
(* scml_compile_files lays the statements out, opens the output and writes *)
(* it in place, one section after the other. The output file is what other *)
(* processes (the VM's loader, a hot reloader) can see at every step.      *)
(***************************************************************************)
EXTENDS Preprocessor, Bytecode

ASSUME TextMaxAssumption == TextMax \in 0 .. 65535
ASSUME SpellingAssumption == \A s \in Names : Spelling(s) \in Seq(0 .. 255)

VARIABLES
    program,   \* the statements of the sources parsed so far
    output,    \* the bytes of the output file, Previous or Absent
    written    \* statements and labels the second pass has written

toolVars == <<phase, command, source, read, files, macros, once, text, included, expanded,
              program, output, written>>

\* An output left by an earlier compilation, and none.
Previous == <<"previous">>
Absent == <<"absent">>

-----------------------------------------------------------------------------
(* The parser. *)

\* is_number_token also takes a mnemonic that is spelled with hexadecimal
\* digits only; of the table's names that is ADD, read as the code 0ADDh (2781).
HexNames == [name \in {"ADD"} |-> 2781]

OpRow(tok) ==
    LET row == IF tok.t = "num" THEN FromCode(tok.v)
               ELSE IF tok.s \in DOMAIN HexNames THEN FromCode(HexNames[tok.s])
               ELSE FromName(tok.s)
    IN IF row = NoRow /\ tok.t = "dotted" THEN FromName("CALL_NATIVE") ELSE row

Operand(type, tok) == [type |-> type, s |-> tok.s, v |-> tok.v]

OperandOf(tok) ==
    Operand(CASE tok.t = "str" -> StringTag [] tok.t = "ref" -> AddressTag [] tok.t = "num" -> IntTag
              [] tok.t = "float" -> FloatTag [] OTHER -> VarTag, tok)

Operands(toks) == [i \in DOMAIN toks |-> OperandOf(toks[i])]

Label(name, ln) ==
    [label |-> name, op |-> 0, operands |-> <<>>, line |-> ln, ok |-> TRUE]

\* An instruction of table row r with as many of the operands as fit in its
\* eight; ok says whether the parser accepts them all.
Instruction(r, operands, ln) ==
    [label |-> "", op |-> r.op, operands |-> operands, line |-> ln,
     ok |-> r # NoRow /\ Len(operands) <= 8 /\ r.min <= Len(operands) /\ Len(operands) <= r.max]

Assignments ==
    [op \in {"=", "+=", "-="} |-> IF op = "=" THEN "SET" ELSE IF op = "+=" THEN "ADD" ELSE "SUB"]

IsAssignment(toks) == Len(toks) > 2 /\ toks[2].s \in DOMAIN Assignments

\* x = v is SET x v; x += v is ADD x x v.
ParseAssignment(toks, ln) ==
    LET x == Operand(VarTag, toks[1])
        target == IF toks[2].s = "=" THEN <<x>> ELSE <<x, x>>
        st == Instruction(FromName(Assignments[toks[2].s]), Append(target, OperandOf(toks[3])), ln)
    IN [st EXCEPT !.ok = @ /\ Len(toks) = 3]

Unless(colon, toks) == IF toks # <<>> /\ Head(toks).t = colon THEN Tail(toks) ELSE toks

\* opcode or mnemonic, a colon that may be missing, operands; an unknown word
\* with a dot in it is the callee of CALL_NATIVE.
ParseInstruction(toks, ln) ==
    LET r == OpRow(toks[1])
        args == Unless("colon", Tail(toks))
        native == r = FromName("CALL_NATIVE") /\ toks[1].t = "dotted"
    IN Instruction(r, IF native THEN <<Operand(StringTag, toks[1])>> \o Operands(Unless("colon", args))
                      ELSE Operands(args), ln)

\* scml_parse_file on one line of the preprocessed text.
ParseLine(toks, ln) ==
    LET labelled == Len(toks) > 1 /\ toks[1].t = "colon"
        rest == IF labelled THEN SubSeq(toks, 3, Len(toks)) ELSE toks
    IN (IF labelled THEN <<Label(toks[2].s, ln)>> ELSE <<>>)
       \o (IF rest = <<>> THEN <<>>
           ELSE IF IsAssignment(rest) THEN <<ParseAssignment(rest, ln)>>
           ELSE <<ParseInstruction(rest, ln)>>)

Parsed(lines) == FlattenSeq([ln \in 1..Len(lines) |-> ParseLine(lines[ln], ln)])

\* The end of a source: an open conditional or a line the parser rejects ends
\* the compilation before the output is touched. A macro still open is lost.
\* Without an *out, strtok_r is given two null pointers, which it is not
\* defined for: the compiler crashes, or finds no line.
EndOfSource ==
    /\ phase = "reading" /\ InSource /\ AtEnd
    /\ LET statements == Parsed(text)
           ok == Top.cond = <<>> /\ \A i \in DOMAIN statements : statements[i].ok
       IN \/ /\ ok
             /\ program' = program \o statements
             /\ IF source < Len(command) THEN NextSource /\ UNCHANGED phase
                ELSE phase' = "layout" /\ Freed /\ UNCHANGED <<command, source, read, once>>
          \/ /\ ~ok \/ ~Top.out
             /\ phase' = "failed" /\ Freed /\ UNCHANGED <<command, source, read, once, program>>
    /\ UNCHANGED <<output, written>>

-----------------------------------------------------------------------------
(* The compiler. *)

LabelPlaces == {i \in DOMAIN program : IsLabel(program[i])}
CodePlaces == DOMAIN program \ LabelPlaces

Labels == SelectAt(program, LabelPlaces)
Code == SelectAt(program, CodePlaces)

\* The first pass: the address a statement is given is the size of all before it.
AddressOf(i) == SumSeq([j \in 1 .. i - 1 |-> StmtSize(program[j])])

CodeSize == AddressOf(Len(program) + 1)

Labelled(name) == SelectInSeq(program, LAMBDA st : st.label = name)

LabelAddress == [name \in {Labels[i].label : i \in DOMAIN Labels} |-> AddressOf(Labelled(name))]

LineTable ==
    SelectAt([i \in 1 .. Len(program) |-> [pc |-> AddressOf(i), line |-> program[i].line]], CodePlaces)

DuplicateLabel == \E i, j \in DOMAIN Labels : i # j /\ Labels[i].label = Labels[j].label

\* A label is defined twice, or the output cannot be opened, or its header
\* is written.
Layout ==
    /\ phase = "layout"
    /\ \/ phase' = "failed" /\ UNCHANGED output
       \/ /\ ~DuplicateLabel
          /\ phase' = "code"
          /\ output' = Header(CodeSize, Len(Code), Len(Labels))
    /\ UNCHANGED <<command, source, read, files, macros, once, text, included, expanded, program, written>>

Unwritable(o) ==
    \/ o.type = AddressTag /\ o.s \notin DOMAIN LabelAddress
    \/ o.type \in TextOperands /\ Len(Spelling(o.s)) > TextMax

\* Fault: the error path forgets to remove the file.
KeepOutput ==
    /\ phase' = "failed"
    /\ UNCHANGED <<output, written>>

\* An unresolved label or a text too long closes the file and removes it.
RemoveOutput ==
    /\ phase' = "failed"
    /\ output' = Absent
    /\ UNCHANGED written

WriteStatement ==
    /\ phase = "code" /\ written < Len(program)
    /\ LET st == program[written + 1]
       IN IF \E i \in DOMAIN st.operands : Unwritable(st.operands[i]) THEN RemoveOutput
          ELSE /\ output' = output \o StmtBytes(st, LabelAddress)
               /\ written' = written + 1
               /\ UNCHANGED phase
    /\ UNCHANGED <<command, source, read, files, macros, once, text, included, expanded, program>>

WriteLines ==
    /\ phase = "code" /\ written = Len(program)
    /\ output' = output \o FlattenSeq([k \in 1 .. Len(LineTable) |->
                                          W32(LineTable[k].pc) \o W32(LineTable[k].line)])
    /\ phase' = "labels" /\ written' = 0
    /\ UNCHANGED <<command, source, read, files, macros, once, text, included, expanded, program>>

WriteLabel ==
    /\ phase = "labels" /\ written < Len(Labels)
    /\ LET name == Labels[written + 1].label
       IN IF Len(Spelling(name)) > TextMax THEN RemoveOutput
          ELSE /\ output' = output \o LabelBytes(name, LabelAddress[name])
               /\ written' = written + 1
               /\ UNCHANGED phase
    /\ UNCHANGED <<command, source, read, files, macros, once, text, included, expanded, program>>

Close ==
    /\ phase = "labels" /\ written = Len(Labels)
    /\ phase' = "done"
    /\ UNCHANGED <<command, source, read, files, macros, once, text, included, expanded, program, output, written>>

-----------------------------------------------------------------------------

Init ==
    /\ PreInit
    /\ program = <<>> /\ written = 0
    /\ output \in {Previous, Absent}

Preprocess == (ReadLine \/ EndOfHeader) /\ UNCHANGED <<program, output, written>>

Next == Preprocess \/ EndOfSource \/ Layout \/ WriteStatement \/ WriteLines \/ WriteLabel \/ Close

Spec == Init /\ [][Next]_toolVars

-----------------------------------------------------------------------------
(* Properties. *)

\* The states the variables range over.
ToolTypeOK ==
    /\ phase \in {"reading", "layout", "code", "labels", "done", "failed"}
    /\ command \in Commands /\ source \in DOMAIN command /\ read \in 0..MaxLines
    /\ (phase = "reading") = (files # <<>>)
    /\ Len(files) <= StackMax /\ Len(once) <= OnceMax
    /\ \A i \in DOMAIN files : Len(files[i].cond) <= CondMax
    /\ included \cup expanded \subseteq DOMAIN FileText
    /\ \A i \in DOMAIN program : Len(program[i].operands) <= 8
    /\ written \in 0..Len(program)
    /\ output \in {Previous, Absent} \/ \A i \in DOMAIN output : output[i] \in 0..255

\* Of the branches of a conditional that stands in active text exactly one is
\* read as active once one of the conditions has held, and none before; inside
\* skipped text none is. Text is skipped in a file exactly when some open
\* conditional of that file skips it (the CondFrame stack, parser.c:191-196).
OneBranchSelected ==
    \A i \in DOMAIN files :
        LET f == files[i] IN
        /\ f.active = \A c \in DOMAIN f.cond : f.cond[c].active
        /\ \A c \in DOMAIN f.cond :
              /\ f.cond[c].parent = \A d \in 1..(c - 1) : f.cond[d].active
              /\ f.cond[c].chosen = IF f.cond[c].parent /\ f.cond[c].taken THEN 1 ELSE 0

Unfinished ==
    \/ phase = "code" /\ program # <<>>
    \/ phase = "labels" /\ written < Len(Labels)

\* The compiler writes in place (compiler.c:121): what a loader finds before
\* the last byte is written is never taken for a program, wherever the file
\* is cut off, and a compilation that failed leaves either the previous
\* output untouched or none, never a part of a new one.
NoPartialProgram ==
    /\ Unfinished => ~LoadFile(output).ok
    /\ phase = "done" => \A n \in 0..(Len(output) - 1) : ~LoadFile(SubSeq(output, 1, n)).ok
    /\ phase = "failed" => output \in {Previous, Absent}

Image == LoadFile(output)

\* One more instruction is decoded, unless the code has ended or the step fails.
Meet(code, m) ==
    LET d == Decode(code, m.pc)
    IN IF m.pc = Len(code) \/ ~d.ok THEN m
       ELSE [pc |-> d.pc,
             ins |-> Append(m.ins, [at |-> m.pc, op |-> d.op, operands |-> d.operands])]

\* The instructions met by decoding from the first byte to the end of the code,
\* one after the other, or to the first that fails.
Decoded(code) ==
    LET met[n \in 0 .. Len(code)] ==
            IF n = 0 THEN [pc |-> 0, ins |-> <<>>] ELSE Meet(code, met[n - 1])
    IN met[Len(code)].ins

SameOperand(o, d) ==
    /\ o.type = d.type
    /\ IF o.type \in TextOperands THEN d.bytes = Spelling(o.s)
       ELSE d.v = IF o.type = AddressTag THEN LabelAddress[o.s] ELSE o.v

\* The VM reads back what the parser accepted: decoding the loaded code from
\* its first byte meets the statements of all the sources in order, with the
\* operands they were written with, every one within the bounds the VM itself
\* puts on its operand count, and the label and line tables point at the first
\* byte of the instruction the label or line stands before (compiler.c:96-195
\* against vm.c:443-491 and 611-636).
ProgramReadBack ==
    phase = "done" =>
        LET ins == Decoded(Image.code)
            BoundaryOf(i) == Cardinality(CodePlaces \cap 1..i)
        IN /\ Image.ok
           /\ Len(ins) = Len(Code) /\ Len(Image.lines) = Len(Code) /\ Len(Image.labels) = Len(Labels)
           /\ \A k \in DOMAIN Code :
                 /\ ins[k].op = Code[k].op /\ Len(ins[k].operands) = Len(Code[k].operands)
                 /\ \A j \in DOMAIN Code[k].operands :
                       SameOperand(Code[k].operands[j], ins[k].operands[j])
                 /\ Image.lines[k] = [pc |-> ins[k].at, line |-> Code[k].line]
           /\ \A k \in DOMAIN Labels :
                 /\ Image.labels[k].name = Spelling(Labels[k].label)
                 /\ \E i \in DOMAIN program :
                       /\ program[i].label = Labels[k].label
                       /\ Image.labels[k].pc = IF BoundaryOf(i) = Len(Code) THEN Len(Image.code)
                                               ELSE ins[BoundaryOf(i) + 1].at

\* After an error the program counter is left inside an instruction and the
\* host may step on (vm.c:627-636): wherever it stands, a step of the decoder
\* goes forward and stays inside the code, or halts the machine.
DecoderAdvances ==
    phase = "done" =>
        \A pc \in 0..(Len(Image.code) - 1) :
            LET d == Decode(Image.code, pc)
            IN IF d.halts THEN pc = Len(Image.code) - 1
               ELSE d.pc > pc /\ d.pc <= Len(Image.code)

\* README.md:26 and 48, headers with macros and multi-script compilation: a
\* source that includes a header is given the header's text.
SourcesGetTheirHeaders == included \subseteq expanded

=============================================================================

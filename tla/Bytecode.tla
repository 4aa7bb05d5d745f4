------------------------------ MODULE Bytecode ------------------------------
(***************************************************************************)
(* The .scmlbin format from both sides: the bytes compiler/compiler.c      *)
(* writes for a statement, a header and the two tables, and what           *)
(* scml_vm_load_file and the decoder at the head of scml_vm_step           *)
(* (vm/vm.c) make of any sequence of bytes. Bytes are numbers, a file and  *)
(* the code are sequences of them; addresses count from 0, so the byte at  *)
(* address a of the code is code[a + 1].                                   *)
(***************************************************************************)
EXTENDS Opcodes, Lists

CONSTANTS
    Spelling(_),   \* the bytes of each name and string of the sources
    TextMax        \* UINT16_MAX, the longest text an operand can hold

\* ScmlOperandType
IntTag == 1
StringTag == 2
VarTag == 3
AddressTag == 4
FloatTag == 5

TextOperands == {StringTag, VarTag}
WordOperands == {IntTag, AddressTag, FloatTag}

-----------------------------------------------------------------------------
(* The compiler's side. *)

\* Fault: the low byte is not cut off.
W16Unmasked(v) == <<v, (v \div 256) % 256>>

W16(v) == <<v % 256, (v \div 256) % 256>>
W32(v) == W16(v) \o <<(v \div 65536) % 256, (v \div 16777216) % 256>>

Header(size, lineCount, labelCount) ==
    <<83, 67, 77, 76>> \o W16(5) \o W32(size) \o W32(lineCount) \o W32(labelCount)

\* stmt_size: what the first pass takes a statement to be long.
OperandSize(o) == IF o.type \in WordOperands THEN 5 ELSE 3 + Len(Spelling(o.s))

IsLabel(st) == st.label # ""

StmtSize(st) ==
    IF IsLabel(st) THEN 0
    ELSE 2 + SumSeq([i \in 1 .. Len(st.operands) |-> OperandSize(st.operands[i])])

\* What the second pass writes; address gives the value of each label.
OperandBytes(o, address) ==
    <<o.type>> \o
    (IF o.type \in TextOperands THEN W16(Len(Spelling(o.s))) \o Spelling(o.s)
     ELSE W32(IF o.type = AddressTag THEN address[o.s] ELSE o.v))

StmtBytes(st, address) ==
    IF IsLabel(st) THEN <<>>
    ELSE <<st.op, Len(st.operands)>>
         \o FlattenSeq([i \in 1 .. Len(st.operands) |-> OperandBytes(st.operands[i], address)])

LabelBytes(name, addr) == W32(addr) \o W16(Len(Spelling(name))) \o Spelling(name)

-----------------------------------------------------------------------------
(* The VM's side. *)

R16(b, at) == b[at + 1] + 256 * b[at + 2]
R32(b, at) == R16(b, at) + 65536 * b[at + 3] + 16777216 * b[at + 4]

\* The same bits as a number with a sign.
Int32(b, at) ==
    R16(b, at) + 65536 * b[at + 3] + 16777216 * (b[at + 4] - IF b[at + 4] > 127 THEN 256 ELSE 0)

NotLoaded == [ok |-> FALSE, code |-> <<>>, lines |-> <<>>, labels |-> <<>>]

\* The label table, read entry by entry: where it ends, or -1 if a read is short.
Short == [end |-> -1, labels |-> <<>>]

ReadLabel(b, table) ==
    LET at == table.end
        n == R16(b, at + 4)
    IN IF at = -1 THEN Short
       ELSE IF at + 6 > Len(b) THEN Short
       ELSE IF at + 6 + n > Len(b) THEN Short
       ELSE [end |-> at + 6 + n,
             labels |-> Append(table.labels, [pc |-> R32(b, at),
                                              name |-> SubSeq(b, at + 7, at + 6 + n)])]

ReadLabels(b, at, count) ==
    LET table[n \in 0 .. count] ==
            IF n = 0 THEN [end |-> at, labels |-> <<>>] ELSE ReadLabel(b, table[n - 1])
    IN table[count]

\* scml_vm_load_file
LoadFile(b) ==
    IF Len(b) < 18 \/ SubSeq(b, 1, 6) # <<83, 67, 77, 76, 5, 0>> THEN NotLoaded
    ELSE LET size == R32(b, 6)
             lineCount == R32(b, 10)
             tables == 18 + size + 8 * lineCount
             table == ReadLabels(b, tables, R32(b, 14))
         IN IF Len(b) < tables \/ table.end = -1 THEN NotLoaded
            ELSE [ok |-> TRUE,
                  code |-> SubSeq(b, 19, 18 + size),
                  lines |-> [i \in 1..lineCount |-> [pc |-> R32(b, 10 + size + 8 * i),
                                                     line |-> R32(b, 14 + size + 8 * i)]],
                  labels |-> table.labels]

\* decode_operand: d is the decoder after the operands before this one.
Stopped(d, at) == [d EXCEPT !.pc = at, !.ok = FALSE]

Taken(d, operand, n) == [d EXCEPT !.pc = @ + n, !.operands = Append(@, operand)]

DecodeOperand(code, d) ==
    LET pc == d.pc
        left == Len(code) - pc
        tag == code[pc + 1]
        n == R16(code, pc + 1)
    IN IF ~d.ok THEN d
       ELSE IF left < 1 THEN Stopped(d, pc)
       ELSE IF tag \in WordOperands THEN
            IF left < 5 THEN Stopped(d, pc + 1)
            ELSE Taken(d, [type |-> tag, v |-> Int32(code, pc + 1), bytes |-> <<>>], 5)
       ELSE IF tag \in TextOperands THEN
            IF left < 3 THEN Stopped(d, pc + 1)
            ELSE IF left < 3 + n THEN Stopped(d, pc + 3)
            ELSE Taken(d, [type |-> tag, v |-> 0, bytes |-> SubSeq(code, pc + 4, pc + 3 + n)], 3 + n)
       ELSE Stopped(d, pc + 1)

\* Fault: a failed instruction leaves the program counter on itself.
FetchedPeek(pc) == [pc |-> pc, ok |-> FALSE, halts |-> FALSE, op |-> -1, operands |-> <<>>]

\* An instruction whose opcode and operand count have been read and that has
\* failed so far.
Fetched(pc) == [pc |-> pc + 2, ok |-> FALSE, halts |-> FALSE, op |-> -1, operands |-> <<>>]

\* The head of scml_vm_step: the instruction at pc, and the pc it leaves. An
\* instruction that is not ok is an error of the step; only one whose header
\* is cut off also halts the machine.
Decode(code, pc) ==
    IF pc + 2 > Len(code) THEN [Fetched(pc) EXCEPT !.pc = pc, !.halts = TRUE]
    ELSE LET row == FromOpcode(code[pc + 1])
             argc == code[pc + 2]
             decoded[n \in 0 .. argc] ==
                 IF n = 0 THEN [Fetched(pc) EXCEPT !.ok = TRUE, !.op = row.op]
                 ELSE DecodeOperand(code, decoded[n - 1])
         IN IF row = NoRow \/ argc < row.min \/ argc > row.max THEN Fetched(pc) ELSE decoded[argc]

=============================================================================

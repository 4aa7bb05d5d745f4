------------------------------ MODULE Opcodes ------------------------------
(***************************************************************************)
(* The opcode registry (opcode/opcode.h, opcode/opcode.c): the table of    *)
(* mnemonics and the three lookups the parser and the VM make in it. The   *)
(* table is an array searched from the front, so where two rows share a    *)
(* code or an opcode the first one answers: a parser that found GOSUB or   *)
(* HEAP_ALLOC by name and a VM that finds the row by opcode byte need not  *)
(* see the same bounds on the number of operands. Codes and opcodes are    *)
(* hexadecimal in the source and decimal here.                             *)
(***************************************************************************)
EXTENDS Integers, Sequences, SequencesExt

R(name, code, op, min, max) ==
    [name |-> name, code |-> code, op |-> op, min |-> min, max |-> max]

OpcodeTable ==
  << R("NOP", 0, 0, 0, 0), R("HALT", 1, 1, 0, 0), R("PUSH_INT", 2, 2, 1, 1),
    R("PUSH_STR", 3, 3, 1, 1), R("SET", 4, 4, 2, 2), R("GET", 5, 5, 1, 1),
    R("ADD", 6, 6, 3, 3), R("SUB", 7, 7, 3, 3), R("MUL", 8, 8, 3, 3),
    R("DIV", 9, 9, 3, 3), R("JUMP", 10, 10, 1, 1), R("WAIT", 11, 11, 1, 1),
    R("IF_EQ", 214, 12, 3, 3), R("IF_NE", 215, 13, 3, 3), R("IF_GT", 216, 14, 3, 3),
    R("IF_LT", 217, 15, 3, 3), R("PRINT", 997, 16, 1, 1), R("LOG", 998, 17, 1, 1),
    R("FILE_READ", 2576, 18, 2, 2), R("FILE_WRITE", 2592, 19, 2, 2),
    R("BIND_EVENT", 2608, 28, 2, 2), R("TRIGGER_EVENT", 2609, 29, 1, 1),
    R("ENTITY_SPAWN", 2816, 20, 5, 5), R("ENTITY_SET", 2817, 21, 3, 3), R("ALLOC", 2832, 22, 2, 2),
    R("FREE", 2833, 30, 1, 1), R("READ", 2834, 24, 3, 3), R("WRITE", 2835, 23, 3, 3),
    R("ARRAY_CREATE", 2836, 31, 2, 2), R("MOD", 2848, 32, 3, 3), R("INPUT", 2849, 33, 2, 2),
    R("STRCAT", 2850, 34, 3, 3), R("TO_INT", 2851, 35, 2, 2), R("TO_FLOAT", 2852, 36, 2, 2),
    R("IF_GE", 2853, 37, 3, 3), R("IF_LE", 2854, 38, 3, 3), R("BIT_AND", 2855, 39, 3, 3),
    R("BIT_OR", 2856, 40, 3, 3), R("BIT_XOR", 2857, 41, 3, 3), R("BIT_NOT", 2858, 42, 2, 2),
    R("SHL", 2859, 43, 3, 3), R("SHR", 2860, 44, 3, 3), R("POW", 2861, 45, 3, 3),
    R("STRLEN", 2862, 46, 2, 2), R("SUBSTR", 2863, 47, 4, 4), R("ARRAY_LEN", 2864, 48, 2, 2),
    R("CALL_NATIVE", 2865, 49, 1, 8), R("PRINT_RAW", 2866, 50, 1, 1),
    R("CONSOLE_CLEAR", 2867, 51, 0, 0), R("SIN", 2868, 52, 2, 2), R("COS", 2869, 53, 2, 2),
    R("TAN", 2870, 54, 2, 2), R("SQRT", 2871, 55, 2, 2), R("ATAN2", 2872, 56, 3, 3),
    R("FLOOR", 2873, 57, 2, 2), R("CEIL", 2874, 58, 2, 2), R("ROUND", 2875, 59, 2, 2),
    R("ABS", 2876, 60, 2, 2), R("STR_REPEAT", 2877, 61, 3, 3), R("CONSOLE_COLOR", 2878, 62, 1, 2),
    R("CONSOLE_RESET", 2879, 63, 0, 0), R("CONSOLE_MOVE", 2880, 64, 2, 2),
    R("CONSOLE_ERASE_LINE", 2881, 65, 0, 0), R("CONSOLE_STYLE", 2882, 66, 1, 1),
    R("SPAN_CREATE", 2883, 67, 2, 2), R("SPAN_PIN", 2884, 68, 1, 1), R("SPAN_FILL", 2885, 69, 4, 4),
    R("SPAN_WRITE_U8", 2886, 70, 3, 3), R("SPAN_READ_U8", 2887, 71, 3, 3),
    R("CONSOLE_RENDER_SPAN", 2888, 72, 3, 3), R("CONSOLE_RENDER_SPAN_DIRTY", 2889, 73, 4, 4),
    R("HEAP_ALLOC", 3072, 22, 2, 2), R("HEAP_STORE", 3073, 23, 3, 3),
    R("HEAP_LOAD", 3074, 24, 3, 3), R("CALL", 3328, 25, 1, 8), R("GOSUB", 3328, 25, 1, 1),
    R("GOTO", 10, 10, 1, 1), R("RETURN", 3329, 26, 0, 0), R("END_THREAD", 3330, 27, 0, 0) >>

NoRow == R("", -1, -1, 0, -1)

FirstRow(Test(_)) ==
    LET i == SelectInSeq(OpcodeTable, Test) IN IF i = 0 THEN NoRow ELSE OpcodeTable[i]

\* scml_opcode_from_scm_code, scml_opcode_from_name and scml_opcode_info. The
\* search by name ignores case; names are spelled here as the table does.
FromCode(code) == FirstRow(LAMBDA r : r.code = code)
FromName(name) == FirstRow(LAMBDA r : r.name = name)

\* Fault: the last row with an opcode answers.
FromOpcodeLast(op) ==
    LET rows == SelectSeq(OpcodeTable, LAMBDA r : r.op = op)
    IN IF rows = <<>> THEN NoRow ELSE Last(rows)

FromOpcode(op) == FirstRow(LAMBDA r : r.op = op)

=============================================================================

----------------------------- MODULE MCDevSession -----------------------------
(* The scripts of MCHotReload with a label each. *)
EXTENDS DevSession, MCHotReload

CONSTANT HANDLER

MCLabelPc(program, label) == IF program = Old THEN 2 ELSE 3
MCHasLabel(program, label) == program # <<>>
=============================================================================

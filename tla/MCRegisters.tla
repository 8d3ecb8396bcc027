---------------------------- MODULE MCRegisters ----------------------------
(***************************************************************************)
(* Small register files for Registers: two registers of one class and one  *)
(* of another.                                                             *)
(***************************************************************************)
EXTENDS Registers

RAX == reg_id([file |-> "gpr", num |-> 0])
RBX == reg_id([file |-> "gpr", num |-> 1])
XMM0 == reg_id([file |-> "vec", num |-> 0])

MCRegId == {RAX, RBX, XMM0}
=============================================================================

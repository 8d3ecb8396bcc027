------------------------------ MODULE MCInstat ------------------------------
(***************************************************************************)
(* Small programs for Instat.                                              *)
(***************************************************************************)
EXTENDS InstatProps

Reg(file, num) == [file |-> file, num |-> num]

RegOperand(reg, ignored, read, write, dtype, dcount) ==
  [kind |-> "reg", reg |-> reg, ignored |-> ignored, read |-> read,
   write |-> write, dtype |-> dtype, dcount |-> dcount]

Integer(reg, read, write) == RegOperand(reg, FALSE, read, write, "INT", 1)
Vector(reg, dtype, dcount) == RegOperand(reg, FALSE, TRUE, FALSE, dtype, dcount)
Memory(read, write) == [kind |-> "mem", read |-> read, write |-> write]
Immediate == [kind |-> "imm"]

RAX == Reg("gpr", 0)     \* AL and AH too
XMM0 == Reg("vec", 0)
Flags == RegOperand(Reg("flags", 0), TRUE, TRUE, TRUE, "INT", 1)
FS == RegOperand(Reg("seg", 4), TRUE, TRUE, FALSE, "INT", 1)

Instruction(opcode, operands) == [opcode |-> opcode, operands |-> operands]

XADD == 1
VCVTPS2PH == 2

\* xadd fs:[mem], rax; xadd al, ah; vcvtps2ph [mem], xmm0, imm with two operands
\* more, one of integers and one of a type the float getters do not know; an
\* instruction that Pin does not know.
TableProgram ==
  <<Instruction(XADD, <<Memory(TRUE, TRUE), Integer(RAX, TRUE, TRUE), FS, Flags>>),
    Instruction(XADD, <<Integer(RAX, TRUE, TRUE), Integer(RAX, TRUE, TRUE), Flags>>),
    Instruction(VCVTPS2PH, <<Memory(FALSE, TRUE), Vector(XMM0, "FLOAT", 2),
                             Vector(XMM0, "UINT", 3),
                             Vector(XMM0, "OTHER", 1), Immediate>>),
    Instruction(0, <<>>)>>
=============================================================================

----------------------------- MODULE MCOperands -----------------------------
(***************************************************************************)
(* Operands with words of eight bits in four bytes and a buffer of two     *)
(* words; the formats are those of MCBitwidth.                             *)
(***************************************************************************)
EXTENDS Operands

SmallFormats ==
  [FLOAT16    |-> [sig |-> 1, exp |-> 2],
   DOUBLE     |-> [sig |-> 4, exp |-> 3],
   LONGDOUBLE |-> [sig |-> 8, exp |-> 3]]

Vector(dtype, dwidth, size) ==
  [size |-> size, dtype |-> dtype, dwidth |-> dwidth, dcount |-> size \div dwidth]

\* Elements of a word, of a format, or of a type the functions do not know;
\* integers shorter than a word, alone in a register or packed.
SmallRegs ==
  {Vector("UINT", 8, 8), Vector("INT", 8, 16), Vector("FLOAT16", 4, 4),
   Vector("FLOAT16", 4, 16), Vector("DOUBLE", 8, 8), Vector("DOUBLE", 8, 16),
   Vector("LONGDOUBLE", 12, 12), Vector("OTHER", 8, 8),
   Vector("UINT", 4, 4), Vector("INT", 4, 4), Vector("UINT", 2, 16)}

SmallValues ==
  [n \in {4, 8, 12, 16} |->
     CASE n = 4  -> {0, 3, 9, 15}
       [] n = 8  -> {0, 1, 90, 136, 255}
       [] n = 12 -> {0, 130, 2303, 4095}
       [] n = 16 -> {0, 257, 34952, 65535}]

\* An opcode_t: 65 entries, 53 for the 52 bits of a DOUBLE, and 17 for the 15
\* bits of the longest exponent.
SmallRows ==
  [x \in {"int", "sig_l", "sig_m", "exp"} |->
     CASE x = "int" -> 9 [] x \in {"sig_l", "sig_m"} -> 5 [] x = "exp" -> 5]
=============================================================================

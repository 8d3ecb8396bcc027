------------------------------ MODULE Operands ------------------------------
(***************************************************************************)
(* What on_ins() (instat.cpp) measures of the operands of an instruction:  *)
(* the static buffer rval, the lanes of a register in it, and the static   *)
(* width arrays, each lane of which holds the widest value of the          *)
(* instruction until the drain loops count it.  Instat has the rest of     *)
(* on_ins(), with any width in the place of these.                         *)
(***************************************************************************)
EXTENDS Bitwidth, FiniteSetsExt

CONSTANTS
  Reg,           \* register operands: [size, dtype, dwidth, dcount]
  RegValue,      \* [size in bits -> what a register of the size may hold]
  MemSize,       \* sizes of memory operands, in bytes
  WordValue,     \* what a word of memory, an immediate or the memory behind
                 \* rval may hold
  RVAL,          \* bits of rval (512)
  ROWS,          \* [array -> entries of its histogram in an opcode_t]
  MAX_OPERANDS   \* bound of the model: operands of an instruction

\* rval holds every register.  What Pin and XED say of an operand: it is whole
\* bytes wide, its elements fit in its register, and formats in elements.
ASSUME OperandAssumption ==
  /\ RVAL \in Nat /\ WordValue \subseteq Nat
  /\ \A o \in Reg :
       /\ o.size \in 0 .. RVAL /\ RegValue[o.size] \subseteq 0 .. Pow2[o.size] - 1
       /\ o.dwidth \in Nat \ {0} /\ o.dwidth % BYTE = 0
       /\ o.dcount \in Nat /\ o.dcount * o.dwidth <= o.size
       /\ o.dtype \in DOMAIN Format =>
            Format[o.dtype].sig + Format[o.dtype].exp + 1 <= o.dwidth

\* A histogram has an entry for every width of a word, and of an exponent.
ASSUME HistogramAssumption ==
  /\ \A x \in {"int", "sig_l", "sig_m", "exp"} : ROWS[x] \in Nat
  /\ W < ROWS["int"]
  /\ \A t \in DOMAIN Format : Format[t].exp < ROWS["exp"]

VARIABLES
  rval,      \* static UINT8 rval[64]
  beyond,    \* the word behind rval
  width,     \* static int_bitwidth, sig_lbitwidth, sig_mbitwidth,
             \* exp_bitwidth: widest value per lane, -1 for none
  operands,  \* operands of the instruction scanned so far
  elements   \* history: [source, lane, dtype, dwidth, bits] of each
             \* element measured

vars == <<rval, beyond, width, operands, elements>>

Array == {"int", "sig_l", "sig_m", "exp"}
Lane == 0 .. RVAL \div BYTE - 1

Unmeasured == [x \in Array |-> [j \in Lane |-> -1]]

(***************************************************************************)
(* The buffer.  PIN_GetContextRegval() writes the bytes of the register    *)
(* and leaves the others; a lane is everything from its first byte on.     *)
(***************************************************************************)
Loaded(v, size) == v + Pow2[size] * (rval \div Pow2[size])

\* A mutant of Loc: the lanes of a half are those of a word.
LocOfWords(buffer, dwidth, j) ==
  (buffer + Pow2[RVAL] * beyond) \div Pow2[j * BYTE * (W \div BYTE)]

Loc(buffer, dwidth, j) ==
  (buffer + Pow2[RVAL] * beyond) \div Pow2[j * BYTE * (dwidth \div BYTE)]

(***************************************************************************)
(* Measuring.  The width of one element, given the memory at its address;  *)
(* -1 widens nothing.                                                      *)
(***************************************************************************)
Measure(x, dtype, loc) ==
  CASE dtype = "UINT" -> IF x = "int" THEN get_uint_bitwidth(Word(loc, 0)) ELSE -1
    [] dtype = "INT" -> IF x = "int" THEN get_int_bitwidth(Signed(Word(loc, 0))) ELSE -1
    [] OTHER -> CASE x = "int" -> -1
                  [] x = "sig_l" -> get_sig_lbitwidth(loc, dtype)
                  [] x = "sig_m" -> get_sig_mbitwidth(loc, dtype)
                  [] x = "exp" -> get_exp_bitwidth(loc, dtype)

\* A mutant of Widest: the last value wins.
Latest(old, new) == new

\* std::max
Widest(old, new) == IF old < new THEN new ELSE old

\* The lanes below n are measured at the addresses loc[j].
Widen(dtype, n, loc) ==
  width' = [x \in Array |->
              [j \in Lane |-> IF j < n
                              THEN Widest(width[x][j], Measure(x, dtype, loc[j]))
                              ELSE width[x][j]]]

\* An operand's elements are the dcount fields of its own value v.
Observe(source, dtype, dwidth, dcount, v) ==
  elements' = elements \cup
    {[source |-> source, lane |-> j, dtype |-> dtype, dwidth |-> dwidth,
      bits |-> (v \div Pow2[j * dwidth]) % Pow2[dwidth]] : j \in 0 .. dcount - 1}

(***************************************************************************)
(* Actions.                                                                *)
(***************************************************************************)
Init ==
  /\ rval = 0
  /\ beyond \in WordValue
  /\ width = Unmeasured
  /\ operands = 0
  /\ elements = {}

Scanning == operands < MAX_OPERANDS /\ operands' = operands + 1

\* case iarg_reg, of a register that is read and holds v.
ReadRegister(o, v) ==
  /\ Scanning
  /\ rval' = Loaded(v, o.size)
  /\ Widen(o.dtype, o.dcount, [j \in Lane |-> Loc(rval', o.dwidth, j)])
  /\ Observe("reg", o.dtype, o.dwidth, o.dcount, v)
  /\ UNCHANGED beyond

\* case iarg_imm
ReadImmediate(dtype, v) ==
  /\ Scanning
  /\ Widen(dtype, 1, [j \in {0} |-> v])
  /\ Observe("imm", dtype, W, 1, v)
  /\ UNCHANGED <<rval, beyond>>

\* case iarg_mem, of an operand that is read, where v is at its address.  The
\* value is passed as an INT64 whatever its size.
ReadMemory(size, v) ==
  /\ Scanning
  /\ Widen("INT", 1, [j \in {0} |-> memory_getvalue(v, size)])
  /\ IF size \in NarrowSize
     THEN Observe("mem", "UINT", BYTE * size, 1, v)
     ELSE Observe("mem", "INT", W, 1, v)
  /\ UNCHANGED <<rval, beyond>>

\* The drain loops: each stops at the first lane that is -1.
Drain ==
  /\ operands > 0
  /\ width' = [x \in Array |->
                 [j \in Lane |-> IF \A k \in 0 .. j : width[x][k] >= 0
                                 THEN -1 ELSE width[x][j]]]
  /\ operands' = 0
  /\ elements' = {}
  /\ UNCHANGED <<rval, beyond>>

Next ==
  \/ \E o \in Reg : \E v \in RegValue[o.size] : ReadRegister(o, v)
  \/ \E dtype \in {"UINT", "INT"}, v \in WordValue : ReadImmediate(dtype, v)
  \/ \E size \in MemSize, v \in WordValue : ReadMemory(size, v)
  \/ Drain

Spec == Init /\ [][Next]_vars

(***************************************************************************)
(* Properties.                                                             *)
(***************************************************************************)
\* The widths of an element of its own: that of its bits and of no other.
OwnWidth(x, e) ==
  IF e.dtype = "INT" /\ e.bits >= Pow2[e.dwidth - 1]
  THEN Measure(x, "INT", Wrap(e.bits - Pow2[e.dwidth]))
  ELSE Measure(x, e.dtype, e.bits)

In(j) == {e \in elements : e.lane = j}

OwnWidths(x, j) == {OwnWidth(x, e) : e \in In(j)}

IsWidest(x, j) == width[x][j] = Max(OwnWidths(x, j) \cup {-1})

\* An integer in a register that is shorter than what is read of it.
IsShort(e) == e.source = "reg" /\ e.dtype \in {"UINT", "INT"} /\ e.dwidth < W

(***************************************************************************)
(* A lane holds the width of the widest of the instruction's elements in   *)
(* that lane.  The buffer is not cleared and every read of it is a word    *)
(* long: the lanes behind an element, what an earlier and wider register   *)
(* has left, and the memory behind the buffer are all read and must not    *)
(* count.  They do for short integers.                                     *)
(***************************************************************************)
WidestElement ==
  \A x \in Array, j \in Lane :
    x # "int" \/ (\A e \in In(j) : ~IsShort(e)) => IsWidest(x, j)

(***************************************************************************)
(* Whatever is read along with an element, its lane is never narrower than *)
(* the element: for short integers the width is at worst too large.        *)
(***************************************************************************)
NeverTooNarrow ==
  \A x \in Array, j \in Lane : \A w \in OwnWidths(x, j) : width[x][j] >= w

(***************************************************************************)
(* A drain loop uses a width as the index of a histogram (opcode.h), whose *)
(* size the width functions do not know.  Not claimed for a significand    *)
(* that is itself too long: for a LONGDOUBLE the index is out of bounds.   *)
(***************************************************************************)
WithinHistogram ==
  \A x \in Array, j \in Lane :
    (x \in {"sig_l", "sig_m"} =>
       \A e \in In(j) : e.dtype \in DOMAIN Format => Format[e.dtype].sig < ROWS[x])
    => width[x][j] < ROWS[x]

(***************************************************************************)
(* The distribution the tool reports is of the widths of operands: every   *)
(* lane has the width of its widest element.                               *)
(***************************************************************************)
EveryWidthIsExact == \A x \in Array, j \in Lane : IsWidest(x, j)
=============================================================================

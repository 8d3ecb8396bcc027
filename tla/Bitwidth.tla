------------------------------ MODULE Bitwidth ------------------------------
(***************************************************************************)
(* The bit width functions of opcode.cpp.  Memory from a pointer on is the *)
(* number its bits make up, least significant first; a uint64_t is a       *)
(* number below 2^W, an int64_t one between -2^(W-1) and 2^(W-1).          *)
(***************************************************************************)
EXTENDS Integers

CONSTANTS
  BYTE,         \* bits of a byte (8)
  W,            \* bits of a uint64_t (64)
  NarrowSize,   \* sizes in bytes memory_getvalue() has a case for (1, 2, 4)
  Format        \* [element type -> [sig, exp]]: the bits of its significand
                \* and of its exponent (10/5, 23/8, 52/11 and 64/15)

ASSUME WordAssumption ==
  /\ BYTE \in Nat \ {0} /\ W \in Nat \ {0} /\ W % BYTE = 0
  /\ NarrowSize \subseteq Nat \ {0} /\ \A n \in NarrowSize : BYTE * n < W

ASSUME FormatAssumption ==
  \A t \in DOMAIN Format :
    /\ Format[t].sig \in 1 .. W
    /\ Format[t].exp \in 1 .. W - BYTE

(***************************************************************************)
(* Machine words.                                                          *)
(***************************************************************************)
\* 2^n.  (A function rather than n-fold ^: BitwidthProofs reasons with it.)
Pow2[n \in Nat] == IF n = 0 THEN 1 ELSE 2 * Pow2[n - 1]

\* What a uint64_t holds.
Words == 0 .. Pow2[W] - 1

Wrap(n) == n % Pow2[W]

Signed(u) == IF u < Pow2[W - 1] THEN u ELSE u - Pow2[W]

\* The uint64_t at byte n of val.
Word(val, n) == Wrap(val \div Pow2[BYTE * n])

(***************************************************************************)
(* Fields: the word at the byte that holds the first bit is shifted left   *)
(* until the field's last bit is its top bit, then right.                  *)
(***************************************************************************)
\* A mutant of Section: the first byte is right, the bit in it forgotten.
SectionOfByte(val, start, length) ==
  Wrap(Word(val, start \div BYTE) * Pow2[W - length])

Section(val, start, length) ==
  Wrap(Word(val, start \div BYTE) * Pow2[W - length - (start % BYTE)])

get_ufield(val, start, length) == Section(val, start, length) \div Pow2[W - length]

get_sfield(val, start, length) ==
  Signed(Section(val, start, length)) \div Pow2[W - length]

(***************************************************************************)
(* Widths: the number of shifts until nothing but the sign is left.        *)
(***************************************************************************)
SignedShifts[t \in Int] ==
  IF t \in {0, -1} THEN 0 ELSE 1 + SignedShifts[t \div 2]

UnsignedShifts[t \in Nat] == IF t = 0 THEN 0 ELSE 1 + UnsignedShifts[t \div 2]

LeftShifts[t \in Words] == IF t = 0 THEN 0 ELSE 1 + LeftShifts[Wrap(2 * t)]

\* A mutant of get_int_bitwidth: the sign is counted too.
UnsignedWidth(val) == UnsignedShifts[Wrap(val)]

get_int_bitwidth(val) == SignedShifts[val]

get_uint_bitwidth(val) == UnsignedShifts[val]

\* A mutant of get_msbf_bitwidth: the bits above the field stay.
UnshiftedWidth(val, width) == LeftShifts[val]

get_msbf_bitwidth(val, width) == LeftShifts[Wrap(val * Pow2[W - width])]

(***************************************************************************)
(* Floating point: the significand from bit 0, the exponent above it, then *)
(* the sign.                                                               *)
(***************************************************************************)
Sign(val, type) == get_ufield(val, Format[type].sig + Format[type].exp, 1)

\* A mutant of SigField: without sign extension before the negation.
SigFieldUnextended(val, type) ==
  IF Sign(val, type) = 1
  THEN -get_ufield(val, 0, Format[type].sig)
  ELSE get_sfield(val, 0, Format[type].sig)

\* The significand as a signed field, negated under a sign.
SigField(val, type) ==
  LET field == get_sfield(val, 0, Format[type].sig)
  IN  IF Sign(val, type) = 1 THEN Signed(Wrap(-field)) ELSE field

Bias(type) == Pow2[Format[type].exp - 1] - 1

\* A mutant of ExpField: the bias is added.
ExpFieldAdded(val, type) ==
  get_sfield(val, Format[type].sig, Format[type].exp) + Bias(type)

\* The biased exponent as a signed field, less the bias.
ExpField(val, type) ==
  get_sfield(val, Format[type].sig, Format[type].exp) - Bias(type)

get_sig_lbitwidth(val, type) ==
  IF type \in DOMAIN Format THEN get_int_bitwidth(SigField(val, type)) ELSE -1

get_sig_mbitwidth(val, type) ==
  IF type \in DOMAIN Format
  THEN get_msbf_bitwidth(Wrap(SigField(val, type)), Format[type].sig)
  ELSE -1

get_exp_bitwidth(val, type) ==
  IF type \in DOMAIN Format THEN get_int_bitwidth(ExpField(val, type)) ELSE -1

\* Memory of a size with no case of its own is read as a whole word.
memory_getvalue(val, size) ==
  IF size \in NarrowSize THEN val % Pow2[BYTE * size] ELSE Wrap(val)
=============================================================================

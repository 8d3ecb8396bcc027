----------------------------- MODULE BitPatterns -----------------------------
(***************************************************************************)
(* The functions of Bitwidth against reference definitions, for every bit  *)
(* pattern in turn.                                                        *)
(***************************************************************************)
EXTENDS Bitwidth, FiniteSetsExt

CONSTANT BITS   \* bound of the model: bits of a pattern

ASSUME BitsAssumption == BITS \in Nat

VARIABLE val    \* the memory the functions are given a pointer to

FirstPattern == val = 0

NextPattern == val < Pow2[BITS] - 1 /\ val' = val + 1

Patterns == FirstPattern /\ [][NextPattern]_val

(***************************************************************************)
(* References.                                                             *)
(***************************************************************************)
Bits(start, length) == (val \div Pow2[start]) % Pow2[length]

SignedBits(start, length) ==
  LET u == Bits(start, length)
  IN  IF u < Pow2[length - 1] THEN u ELSE u - Pow2[length]

\* The least number of bits that hold n next to its sign.
LeastWidth(n) == Min({w \in 0 .. W : -(Pow2[w]) <= n /\ n < Pow2[w]})

\* val with the sign of an element inverted.
Negated(type) ==
  LET at == Format[type].sig + Format[type].exp
  IN  IF Bits(at, 1) = 1 THEN val - Pow2[at] ELSE val + Pow2[at]

(***************************************************************************)
(* get_ufield() and get_sfield() return the bits they are asked for and    *)
(* nothing of the bytes around them, wherever in a byte the field starts,  *)
(* and across bytes, as long as it ends within the word that is read.      *)
(***************************************************************************)
FieldsAreTheirBits ==
  \A start \in 0 .. BITS - 1 :
    \A length \in 1 .. W - (start % BYTE) :
      start + length <= BITS =>
        /\ get_ufield(val, start, length) = Bits(start, length)
        /\ get_sfield(val, start, length) = SignedBits(start, length)

(***************************************************************************)
(* get_int_bitwidth() returns the least number of bits that hold a value   *)
(* next to its sign, get_uint_bitwidth() the least that hold it without    *)
(* one: the two agree on a word without sign, and differ for every other.  *)
(***************************************************************************)
WidthsAreLeast ==
  LET u == Wrap(val) IN
  /\ get_int_bitwidth(Signed(u)) = LeastWidth(Signed(u))
  /\ get_uint_bitwidth(u) = LeastWidth(u)
  /\ get_int_bitwidth(Signed(u)) = get_uint_bitwidth(u) <=> Signed(u) >= 0

(***************************************************************************)
(* The width of a significand from its most significant bit on ends at its *)
(* last one, although get_sig_mbitwidth() extends the significand by a     *)
(* sign and negates it first: the element's sign does not change it.       *)
(***************************************************************************)
SignificandEndsAtLastOne ==
  \A t \in DOMAIN Format :
    LET sig  == Format[t].sig
        ones == {b \in 0 .. sig - 1 : Bits(b, 1) = 1}
    IN  get_sig_mbitwidth(val, t) = IF ones = {} THEN 0 ELSE sig - Min(ones)

(***************************************************************************)
(* The other width of the significand, from its least significant bit on,  *)
(* does change with the element's sign, as two's complement does, by a bit *)
(* at most.                                                                *)
(***************************************************************************)
SignCostsABitAtMost ==
  \A t \in DOMAIN Format :
    get_sig_lbitwidth(val, t) - get_sig_lbitwidth(Negated(t), t) \in {-1, 0, 1}

(***************************************************************************)
(* get_exp_bitwidth() returns the width of the exponent of every element   *)
(* below 2; of one from 2 on, whose biased exponent has its top bit set,   *)
(* it returns that of an exponent smaller by 2^exp.                        *)
(***************************************************************************)
ExponentBelowTwo ==
  \A t \in DOMAIN Format :
    LET exp    == Format[t].exp
        biased == Bits(Format[t].sig, exp)
        wraps  == IF biased < Pow2[exp - 1] THEN 0 ELSE Pow2[exp]
    IN  get_exp_bitwidth(val, t) = LeastWidth(biased - Bias(t) - wraps)
=============================================================================

----------------------------- MODULE MCBitwidth -----------------------------
(***************************************************************************)
(* BitPatterns with words of eight bits in four bytes, and formats with    *)
(* the proportions of the real ones: two in a word, one in a word, and one *)
(* whose significand alone fills a word, with four bits for the rest.      *)
(***************************************************************************)
EXTENDS BitPatterns

SmallFormats ==
  [FLOAT16    |-> [sig |-> 1, exp |-> 2],
   DOUBLE     |-> [sig |-> 4, exp |-> 3],
   LONGDOUBLE |-> [sig |-> 8, exp |-> 3]]
=============================================================================

----------------------------- MODULE MCAnalyze -----------------------------
(***************************************************************************)
(* Analyze with three categories, histograms of two bins, and rows the     *)
(* tool can have written: an opcode may never have run, its memory         *)
(* accesses are among its executions, every floating point sample is in    *)
(* three histograms, and every row of memory.tbl has an access.            *)
(***************************************************************************)
EXTENDS Analyze

TwoBins(m, n) == [b \in {0, 1} |-> IF b = 0 THEN m ELSE n]

Widths(int, sig_l, sig_m, exp) ==
  [h \in {"int", "sig_l", "sig_m", "exp"} |->
     CASE h = "int" -> int [] h = "sig_l" -> sig_l
       [] h = "sig_m" -> sig_m [] h = "exp" -> exp]

ToolRows ==
  LET none == TwoBins(0, 0) IN
  {[count |-> 0, mem_count |-> 0, bins |-> Widths(none, none, none, none)],
   [count |-> 2, mem_count |-> 1, bins |-> Widths(TwoBins(1, 2), none, none, none)],
   [count |-> 1, mem_count |-> 1,
    bins |-> Widths(none, TwoBins(2, 1), TwoBins(0, 3), TwoBins(3, 0))],
   [count |-> 2, mem_count |-> 0,
    bins |-> Widths(TwoBins(2, 0), TwoBins(1, 1), TwoBins(2, 0), TwoBins(0, 2))]}

TwoCases == [c \in {0, 1} |-> IF c = 0 THEN {11, 13} ELSE {12}]

SmallAccesses ==
  {[read |-> 1, write |-> 0], [read |-> 0, write |-> 1], [read |-> 2, write |-> 1]}
=============================================================================

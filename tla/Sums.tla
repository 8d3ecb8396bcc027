-------------------------------- MODULE Sums --------------------------------
(***************************************************************************)
(* Sums of counters, for the properties about totals.  (A sum of a function*)
(* rather than of an operator, so that lemmas can be stated of it.)        *)
(***************************************************************************)
EXTENDS FiniteSetsExt

\* The sum of f[x] for the members x of the finite set S.
Sum(f, S) == MapThenSumSet(LAMBDA x : f[x], S)
=============================================================================

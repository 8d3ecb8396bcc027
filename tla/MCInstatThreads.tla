--------------------------- MODULE MCInstatThreads ---------------------------
(***************************************************************************)
(* Threads, and instructions, that differ in nothing but their names.      *)
(***************************************************************************)
EXTENDS InstatThreads, TLC

Identity == [o \in Opcode |-> o]

Symmetry == {f @@ g : f \in Permutations(Thread), g \in Permutations(Opcode)}
=============================================================================

------------------------------- MODULE Profile -------------------------------
(***************************************************************************)
(* What a table of the profile promises, with no cache in sight: a counter *)
(* per key, and a file that holds an earlier value of each.  The file      *)
(* catches up whenever it likes, row by row.  A profile that is closed has *)
(* every count in its file; one that is killed keeps the file as it was.   *)
(***************************************************************************)
EXTENDS Naturals

CONSTANT Key

VARIABLES counts, file, status

vars == <<counts, file, status>>

Init ==
  /\ counts = [k \in Key |-> 0]
  /\ file = [k \in Key |-> 0]
  /\ status = "open"

\* The rows of K are brought up to date.
Update(K) == file' = [k \in Key |-> IF k \in K THEN counts[k] ELSE file[k]]

WriteBack ==
  /\ status = "open"
  /\ \E K \in SUBSET Key : Update(K)
  /\ UNCHANGED <<counts, status>>

\* One event is counted; room for it may have to be made.
Count(k) ==
  /\ status = "open"
  /\ counts' = [counts EXCEPT ![k] = @ + 1]
  /\ \E K \in SUBSET Key : Update(K)
  /\ UNCHANGED status

\* What the file does not have yet is written.
Close ==
  /\ status = "open"
  /\ Update(Key)
  /\ status' = "exited"
  /\ UNCHANGED counts

Kill ==
  /\ status = "open"
  /\ status' = "killed"
  /\ UNCHANGED <<counts, file>>

Next == WriteBack \/ (\E k \in Key : Count(k)) \/ Close \/ Kill

Spec == Init /\ [][Next]_vars
=============================================================================

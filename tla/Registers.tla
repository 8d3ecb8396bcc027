------------------------------ MODULE Registers ------------------------------
(***************************************************************************)
(* register_record_t on its own: reads and writes of registers in any      *)
(* order, while the instruction count goes up.  What the two tables should *)
(* hold is defined from the history of the calls.                          *)
(***************************************************************************)
EXTENDS RegisterOps, Sequences, FiniteSetsExt

CONSTANT MAX_CALLS   \* bound of the model: calls

ASSUME CallsAssumption == MAX_CALLS \in Nat

VARIABLES
  registers,    \* the record
  instr_count,  \* instructions.total of the caller
  history       \* history: the calls made, and the instructions counted

vars == <<registers, instr_count, history>>

Event == [op : {"read", "write"}, reg : RegId] \cup [op : {"exec", "finish"}]

Init ==
  /\ registers = EmptyRegisters
  /\ instr_count = 0
  /\ history = <<>>

Happens(e) == Len(history) < MAX_CALLS /\ history' = Append(history, e)

read(r) ==
  /\ Happens([op |-> "read", reg |-> r])
  /\ registers' = RegisterRead(registers, r)
  /\ UNCHANGED instr_count

write(r) ==
  /\ Happens([op |-> "write", reg |-> r])
  /\ registers' = RegisterWrite(registers, r, instr_count)
  /\ UNCHANGED instr_count

\* The caller has counted an instruction.
exec ==
  /\ Happens([op |-> "exec"])
  /\ instr_count' = instr_count + 1
  /\ UNCHANGED registers

finish ==
  /\ Happens([op |-> "finish"])
  /\ registers' = RegisterFinish(registers)
  /\ UNCHANGED instr_count

Next == (\E r \in RegId : read(r) \/ write(r)) \/ exec \/ finish

Spec == Init /\ [][Next]_vars

(***************************************************************************)
(* Correctness.                                                            *)
(***************************************************************************)
TypeOK ==
  /\ registers \in RegisterRecord
  /\ instr_count \in Nat
  /\ history \in Seq(Event)

\* Neither count has left the range of an int.
FitsInt == /\ instr_count < INT_MOD \div 2
           /\ \A r \in RegId : registers.regs[r].reads < INT_MOD \div 2

Read(r) == [op |-> "read", reg |-> r]
Write(r) == [op |-> "write", reg |-> r]
Exec == [op |-> "exec"]

\* How often e has happened before call n of the history h, since the last
\* write of r if there is one.
SinceWrite(h, n, r, e) ==
  Cardinality({m \in 1 .. n - 1 : h[m] = e /\ \A k \in m .. n - 1 : h[k] # Write(r)})

Reads(h, n) == [m \in 1 .. n |-> [r \in RegId |-> SinceWrite(h, m, r, Read(r))]]
Instructions(h, n) == [m \in 1 .. n |-> [r \in RegId |-> SinceWrite(h, m, r, Exec)]]

Clamped(n) == IF n > LIMIT THEN LIMIT ELSE n

\* The calls among the first n that write a register of class c when f has the
\* value row.
WritesCounted(h, f, n, row, c) ==
  {m \in 1 .. n : \E r \in RegId : /\ h[m] = Write(r)
                                  /\ reg_class(r) = c
                                  /\ Clamped(f[m][r]) = row}

TableOf(h, f, n) ==
  [row \in Row |-> [c \in Class |-> Cardinality(WritesCounted(h, f, n, row, c))]]

LastFinish(h) == Max({0} \cup {m \in 1 .. Len(h) : h[m].op = "finish"})

FanoutOf(h, n) == TableOf(h, Reads(h, n), n)
AgeOf(h, n) == TableOf(h, Instructions(h, n), n)

\* fanout.tbl counts, for each class of registers, the values that were read
\* so many times before they were overwritten, those read LIMIT times or more
\* in the last row; its file is the table at the last finish().
FanoutIsReadsPerValue ==
  FitsInt => /\ registers.fanout.rows = FanoutOf(history, Len(history))
             /\ registers.fanout.stored = FanoutOf(history, LastFinish(history))

\* age.tbl counts the values that lived so many instructions.
AgeIsInstructionsPerValue ==
  FitsInt => /\ registers.age.rows = AgeOf(history, Len(history))
             /\ registers.age.stored = AgeOf(history, LastFinish(history))

\* "We don't need a several-Gb table to store values we don't care about": a
\* write, of any register and at any time, is counted in a row of the tables.
RowsInTable ==
  \A r \in RegId : FanoutRow(registers, r) \in Row
                   /\ AgeRow(registers, r, instr_count) \in Row

\* It is as long as the counts fit an int.
RowsInTableWhileSmall == FitsInt => RowsInTable
=============================================================================

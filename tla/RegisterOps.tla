----------------------------- MODULE RegisterOps -----------------------------
(***************************************************************************)
(* register_record_t (reg.h, reg.cpp) and the numbering of the registers   *)
(* (reg_id of instat.cpp): the data and the operations, used by the model  *)
(* of the tool (Instat) and by the component on its own (Registers).       *)
(***************************************************************************)
EXTENDS Integers

CONSTANTS
  RegId,    \* the register ids the modelled programs use, out of 0 .. 83
  LIMIT,    \* the last row of the two tables (999)
  INT_MOD   \* the number of values of an int (2^32)

ASSUME RegIdAssumption == RegId \subseteq 0 .. 83
ASSUME LimitAssumption == LIMIT \in Nat
ASSUME IntAssumption == INT_MOD \in Nat /\ LIMIT < INT_MOD \div 2

(***************************************************************************)
(* Registers.  A register is [file, num]: its register file and its number *)
(* there.  The sub-registers that reg_id() numbers alike (AL, AH, AX, EAX  *)
(* and RAX; MM0, ST0, XMM0, YMM0 and ZMM0) are one register here.          *)
(***************************************************************************)
FirstId == [gpr |-> 0, ip |-> 16, seg |-> 17, cr |-> 23, dr |-> 28,
            k |-> 36, tr |-> 44, vec |-> 52]

\* -1 is the default case: the flags, MXCSR, the x87 control registers, ...
reg_id(reg) == IF reg.file \in DOMAIN FirstId
               THEN FirstId[reg.file] + reg.num
               ELSE -1

Class == 0 .. 6

\* The ids of each class; class 1 holds the instruction pointer as well.
ClassIds == [c \in Class |->
               CASE c = 0 -> 0 .. 15  [] c = 1 -> 16 .. 22
                 [] c = 2 -> 23 .. 27 [] c = 3 -> 28 .. 35
                 [] c = 4 -> 36 .. 43 [] c = 5 -> 44 .. 51
                 [] c = 6 -> 52 .. 83]

reg_class(id) == IF \E c \in Class : id \in ClassIds[c]
                 THEN CHOOSE c \in Class : id \in ClassIds[c]
                 ELSE -1

(***************************************************************************)
(* State.  A table (core::cached_table, external) has 1000 rows and caches *)
(* 1000, so that no row is ever evicted: rows is what get() sees, stored   *)
(* what finish() has written to the file.                                  *)
(***************************************************************************)
Row == 0 .. LIMIT

reg_t == [reads : Nat, writes : Nat, last_read : Nat, last_instr : Nat]

Table == [rows : [Row -> [Class -> Nat]], stored : [Row -> [Class -> Nat]]]

RegisterRecord == [regs : [RegId -> reg_t], fanout : Table, age : Table]

EmptyTable == LET none == [i \in Row |-> [c \in Class |-> 0]]
              IN  [rows |-> none, stored |-> none]

EmptyRegisters ==
  [regs   |-> [r \in RegId |-> [reads |-> 0, writes |-> 0,
                                last_read |-> 0, last_instr |-> 0]],
   fanout |-> EmptyTable,
   age    |-> EmptyTable]

(***************************************************************************)
(* Operations.                                                             *)
(***************************************************************************)
\* A uint64_t difference assigned to an int: the low 32 bits, signed.
ToInt(n) == LET low == n % INT_MOD
            IN  IF low < INT_MOD \div 2 THEN low ELSE low - INT_MOD

\* A mutant of TableRow: no limit.
TableRowUnclamped(n) == ToInt(n)

\* The row a difference is counted in.  Only values above the limit are
\* clamped: a negative one is passed to get() as it is.
TableRow(n) == IF ToInt(n) > LIMIT THEN LIMIT ELSE ToInt(n)

\* temp = table.get(row); temp->count[c]++.  A row outside the table is none
\* of the rows modelled here.
CountRow(t, row, c) ==
  IF row \in Row THEN [t EXCEPT !.rows[row][c] = @ + 1] ELSE t

FinishTable(t) == [t EXCEPT !.stored = t.rows]

RegisterFinish(rg) == [regs   |-> rg.regs,
                       fanout |-> FinishTable(rg.fanout),
                       age    |-> FinishTable(rg.age)]

RegisterRead(rg, r) == [rg EXCEPT !.regs[r].reads = @ + 1]

FanoutRow(rg, r) == TableRow(rg.regs[r].reads - rg.regs[r].last_read)

AgeRow(rg, r, instr_count) == TableRow(instr_count - rg.regs[r].last_instr)

\* A mutant of Overwritten: the reads of the old value are not forgotten.
OverwrittenReadAgain(reg, instr_count) ==
  [reg EXCEPT !.writes = @ + 1, !.last_instr = instr_count]

\* A mutant of Overwritten: the value is as old as the instruction before.
OverwrittenOneEarly(reg, instr_count) ==
  [reads |-> reg.reads, writes |-> reg.writes + 1,
   last_read |-> reg.reads, last_instr |-> instr_count - 1]

\* A register after a write.
Overwritten(reg, instr_count) ==
  [reads |-> reg.reads, writes |-> reg.writes + 1,
   last_read |-> reg.reads, last_instr |-> instr_count]

RegisterWrite(rg, r, instr_count) ==
  LET c == reg_class(r) IN
  IF c < 0 THEN rg
  ELSE [regs   |-> [rg.regs EXCEPT ![r] = Overwritten(@, instr_count)],
        fanout |-> CountRow(rg.fanout, FanoutRow(rg, r), c),
        age    |-> CountRow(rg.age, AgeRow(rg, r, instr_count), c)]
=============================================================================

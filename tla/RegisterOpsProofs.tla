-------------------------- MODULE RegisterOpsProofs --------------------------
(***************************************************************************)
(* What the operations of register_record_t preserve.                      *)
(***************************************************************************)
EXTENDS RegisterOps, TLAPS

\* A register record is the record of its three parts.
LEMMA RecordParts ==
  ASSUME NEW rg \in RegisterRecord, NEW x
  PROVE  /\ [rg EXCEPT !.regs = x] =
              [regs |-> x, fanout |-> rg.fanout, age |-> rg.age]
         /\ [rg EXCEPT !.fanout = x] =
              [regs |-> rg.regs, fanout |-> x, age |-> rg.age]
         /\ [rg EXCEPT !.age = x] =
              [regs |-> rg.regs, fanout |-> rg.fanout, age |-> x]
BY DEF RegisterRecord

\* A table is the record of its two.
LEMMA TableParts ==
  ASSUME NEW t \in Table, NEW x
  PROVE  /\ [t EXCEPT !.rows = x] = [rows |-> x, stored |-> t.stored]
         /\ [t EXCEPT !.stored = x] = [rows |-> t.rows, stored |-> x]
BY DEF Table

\* The class of a register the tool numbers is one of the seven.
LEMMA ClassType ==
  ASSUME NEW r \in RegId
  PROVE  reg_class(r) \in Class
<1>1. r \in 0 .. 83
  BY RegIdAssumption
<1>2. \E c \in Class : r \in ClassIds[c]
  <2>1. CASE r \in 0 .. 15
    BY <2>1 DEF Class, ClassIds
  <2>2. CASE r \in 16 .. 22
    BY <2>2 DEF Class, ClassIds
  <2>3. CASE r \in 23 .. 27
    BY <2>3 DEF Class, ClassIds
  <2>4. CASE r \in 28 .. 35
    BY <2>4 DEF Class, ClassIds
  <2>5. CASE r \in 36 .. 43
    BY <2>5 DEF Class, ClassIds
  <2>6. CASE r \in 44 .. 51
    BY <2>6 DEF Class, ClassIds
  <2>7. CASE r \in 52 .. 83
    BY <2>7 DEF Class, ClassIds
  <2> QED
    BY <1>1, <2>1, <2>2, <2>3, <2>4, <2>5, <2>6, <2>7
<1> QED
  BY <1>2 DEF reg_class

\* The empty record is a record.
LEMMA EmptyRegistersType == EmptyRegisters \in RegisterRecord
<1>1. EmptyTable \in Table
  BY DEF EmptyTable, Table
<1> QED
  BY <1>1 DEF EmptyRegisters, RegisterRecord, reg_t

\* Counting in a table gives a table, and leaves its file alone.
LEMMA CountRowType ==
  ASSUME NEW t \in Table, NEW row, NEW c \in Class
  PROVE  /\ CountRow(t, row, c) \in Table
         /\ CountRow(t, row, c).stored = t.stored
<1>1. CASE row \in Row
  <2> DEFINE rows == [t.rows EXCEPT ![row][c] = @ + 1]
  <2>1. t.rows \in [Row -> [Class -> Nat]]
    BY DEF Table
  <2>2. t.rows[row][c] \in Nat
    BY <1>1, <2>1
  <2>3. rows \in [Row -> [Class -> Nat]]
    BY <1>1, <2>1, <2>2
  <2>4. CountRow(t, row, c) = [t EXCEPT !.rows = rows]
    BY <1>1, Zenon DEF CountRow
  <2> HIDE DEF rows
  <2>5. CountRow(t, row, c) = [rows |-> rows, stored |-> t.stored]
    BY <2>4, TableParts
  <2> QED
    BY <2>3, <2>5 DEF Table
<1>2. CASE row \notin Row
  BY <1>2 DEF CountRow
<1> QED
  BY <1>1, <1>2

\* finish() makes the file of a table equal to its rows.
LEMMA FinishTableType ==
  ASSUME NEW t \in Table
  PROVE  /\ FinishTable(t) \in Table
         /\ FinishTable(t).stored = FinishTable(t).rows
<1>1. FinishTable(t) = [rows |-> t.rows, stored |-> t.rows]
  BY TableParts DEF FinishTable
<1> QED
  BY <1>1 DEF Table

\* A register that is written is a register.
LEMMA OverwrittenType ==
  ASSUME NEW reg \in reg_t, NEW n \in Nat
  PROVE  Overwritten(reg, n) \in reg_t
BY DEF Overwritten, reg_t

\* A read gives a record, and counts one more read of that register.
LEMMA RegisterReadType ==
  ASSUME NEW rg \in RegisterRecord, NEW r \in RegId
  PROVE  /\ RegisterRead(rg, r) \in RegisterRecord
         /\ RegisterRead(rg, r).fanout = rg.fanout
         /\ RegisterRead(rg, r).age = rg.age
         /\ \A q \in RegId :
              RegisterRead(rg, r).regs[q] =
                IF q = r THEN [rg.regs[q] EXCEPT !.reads = @ + 1]
                         ELSE rg.regs[q]
<1> DEFINE regs == [rg.regs EXCEPT ![r].reads = @ + 1]
<1>1. rg.regs \in [RegId -> reg_t]
  BY DEF RegisterRecord
<1>2. ASSUME NEW reg \in reg_t
      PROVE  [reg EXCEPT !.reads = @ + 1] \in reg_t
  BY DEF reg_t
<1>3. \A q \in RegId :
        regs[q] = IF q = r THEN [rg.regs[q] EXCEPT !.reads = @ + 1]
                           ELSE rg.regs[q]
  BY <1>1, Zenon
<1>4. regs \in [RegId -> reg_t]
  <2>1. regs = [q \in RegId |-> regs[q]]
    BY <1>1, Zenon
  <2>2. \A q \in RegId : regs[q] \in reg_t
    BY <1>1, <1>2, <1>3, Zenon
  <2> HIDE DEF regs
  <2> QED
    BY <2>1, <2>2
<1>5. RegisterRead(rg, r) = [rg EXCEPT !.regs = regs]
  BY Zenon DEF RegisterRead
<1> HIDE DEF regs
<1>6. RegisterRead(rg, r) = [regs |-> regs, fanout |-> rg.fanout, age |-> rg.age]
  BY <1>5, RecordParts
<1> QED
  BY <1>3, <1>4, <1>6 DEF RegisterRecord

\* A write gives a record.
LEMMA RegisterWriteType ==
  ASSUME NEW rg \in RegisterRecord, NEW r \in RegId, NEW n \in Nat
  PROVE  /\ RegisterWrite(rg, r, n) \in RegisterRecord
         /\ RegisterWrite(rg, r, n).regs =
              [rg.regs EXCEPT ![r] = Overwritten(@, n)]
<1>1. /\ rg.regs \in [RegId -> reg_t]
      /\ rg.fanout \in Table
      /\ rg.age \in Table
  BY DEF RegisterRecord
<1>2. reg_class(r) \in Class /\ ~(reg_class(r) < 0)
  BY ClassType DEF Class
<1>3. [rg.regs EXCEPT ![r] = Overwritten(@, n)] \in [RegId -> reg_t]
  BY <1>1, OverwrittenType
<1>4. /\ CountRow(rg.fanout, FanoutRow(rg, r), reg_class(r)) \in Table
      /\ CountRow(rg.age, AgeRow(rg, r, n), reg_class(r)) \in Table
  BY <1>1, <1>2, CountRowType
<1>5. RegisterWrite(rg, r, n) =
        [regs   |-> [rg.regs EXCEPT ![r] = Overwritten(@, n)],
         fanout |-> CountRow(rg.fanout, FanoutRow(rg, r), reg_class(r)),
         age    |-> CountRow(rg.age, AgeRow(rg, r, n), reg_class(r))]
  BY <1>2 DEF RegisterWrite
<1> QED
  BY <1>3, <1>4, <1>5 DEF RegisterRecord

\* A difference that fits an int is counted in a row of the table.
LEMMA SmallDifferenceInTable ==
  ASSUME NEW n \in Nat, n < INT_MOD \div 2
  PROVE  TableRow(n) \in Row
<1>1. INT_MOD \in Nat /\ INT_MOD \div 2 \in Nat /\ INT_MOD \div 2 <= INT_MOD
  BY IntAssumption
<1>2. n < INT_MOD
  BY <1>1
<1>3. n % INT_MOD = n
  BY <1>1, <1>2
<1>4. ToInt(n) = n
  BY <1>3 DEF ToInt
<1> QED
  BY <1>4, LimitAssumption DEF TableRow, Row
=============================================================================

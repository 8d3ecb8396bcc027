--------------------------- MODULE RegistersProofs ---------------------------
(***************************************************************************)
(* The register record is counted in rows of its tables as long as its     *)
(* counts fit an int, and then its tables are the histograms that the      *)
(* history of the calls defines.                                           *)
(***************************************************************************)
EXTENDS Registers, RegisterOpsProofs, OperatorProofs

(***************************************************************************)
(* A history that grows.                                                   *)
(***************************************************************************)
\* A call becomes the last one and leaves the others where they are.
LEMMA Appended ==
  ASSUME NEW h \in Seq(Event), NEW e \in Event
  PROVE  /\ Append(h, e) \in Seq(Event)
         /\ Len(h) \in Nat
         /\ Len(Append(h, e)) = Len(h) + 1
         /\ \A m \in 1 .. Len(h) : Append(h, e)[m] = h[m]
         /\ Append(h, e)[Len(h) + 1] = e
OBVIOUS

\* Before a call nothing changes.
LEMMA SinceEarlier ==
  ASSUME NEW h \in Seq(Event), NEW e0 \in Event, NEW n \in 1 .. Len(h) + 1,
         NEW r, NEW e
  PROVE  SinceWrite(Append(h, e0), n, r, e) = SinceWrite(h, n, r, e)
<1>1. \A m \in 1 .. n - 1 : m \in 1 .. Len(h) /\ Append(h, e0)[m] = h[m]
  BY Appended
<1>2. \A m \in 1 .. n - 1 : \A k \in m .. n - 1 : k \in 1 .. n - 1
  BY Appended
<1> QED
  BY <1>1, <1>2 DEF SinceWrite

\* A write starts anew; one more of what is counted counts.
LEMMA SinceNext ==
  ASSUME NEW h \in Seq(Event), NEW e0 \in Event, NEW r \in RegId,
         NEW e, e # Write(r)
  PROVE  /\ SinceWrite(h, Len(h) + 1, r, e) \in Nat
         /\ SinceWrite(Append(h, e0), Len(h) + 2, r, e) =
              IF e0 = Write(r) THEN 0
              ELSE SinceWrite(h, Len(h) + 1, r, e) + (IF e0 = e THEN 1 ELSE 0)
<1> DEFINE n == Len(h)
           g == Append(h, e0)
           S == {m \in 1 .. n : h[m] = e /\ \A k \in m .. n : h[k] # Write(r)}
           T == {m \in 1 .. n + 1 : g[m] = e /\ \A k \in m .. n + 1 : g[k] # Write(r)}
<1>1. n \in Nat /\ (\A m \in 1 .. n : g[m] = h[m]) /\ g[n + 1] = e0
  BY Appended
<1>2. SinceWrite(h, n + 1, r, e) = Cardinality(S) /\ SinceWrite(g, n + 2, r, e) = Cardinality(T)
  <2>1. n + 1 - 1 = n /\ n + 2 - 1 = n + 1
    BY <1>1
  <2> QED
    BY <2>1 DEF SinceWrite
<1>3. IsFiniteSet(S) /\ Cardinality(S) \in Nat
  <2>1. IsFiniteSet(1 .. n)
    BY <1>1, FS_Interval
  <2>2. IsFiniteSet(S)
    BY <2>1, FS_Subset
  <2> QED
    BY <2>2, FS_CardinalityType
<1>4. CASE e0 = Write(r)
  <2>1. T = {}
    BY <1>1, <1>4
  <2> QED
    BY <1>2, <1>3, <1>4, <2>1, FS_EmptySet
<1>5. CASE e0 # Write(r) /\ e0 = e
  <2>1. T = S \cup {n + 1} /\ n + 1 \notin S
    BY <1>1, <1>5
  <2>2. Cardinality(T) = Cardinality(S) + 1
    BY <1>3, <2>1, FS_AddElement
  <2> QED
    BY <1>2, <1>3, <1>5, <2>2
<1>6. CASE e0 # Write(r) /\ e0 # e
  <2>1. T = S
    BY <1>1, <1>6
  <2> HIDE DEF S, T
  <2>2. SinceWrite(g, n + 2, r, e) = SinceWrite(h, n + 1, r, e) + 0
    BY <1>2, <1>3, <2>1
  <2> QED
    BY <1>2, <1>3, <1>6, <2>2
<1> QED
  BY <1>4, <1>5, <1>6

\* The table of the calls so far, when the values counted are the same.
LEMMA TableEarlier ==
  ASSUME NEW h \in Seq(Event), NEW e0 \in Event, NEW n \in 0 .. Len(h),
         NEW f, NEW g, \A m \in 1 .. n, r \in RegId : f[m][r] = g[m][r]
  PROVE  TableOf(Append(h, e0), g, n) = TableOf(h, f, n)
<1>0. Len(h) \in Nat /\ \A m \in 1 .. Len(h) : Append(h, e0)[m] = h[m]
  BY Appended
<1>1. \A m \in 1 .. n : m \in 1 .. Len(h) /\ Append(h, e0)[m] = h[m]
  BY <1>0
<1>2. \A row, c : WritesCounted(Append(h, e0), g, n, row, c) = WritesCounted(h, f, n, row, c)
  BY <1>1 DEF WritesCounted
<1> QED
  BY <1>2 DEF TableOf

\* A call that is no write leaves the table.
LEMMA TableNoWrite ==
  ASSUME NEW h \in Seq(Event), NEW e0 \in Event, \A r \in RegId : e0 # Write(r),
         NEW f, NEW g, \A m \in 1 .. Len(h), r \in RegId : f[m][r] = g[m][r]
  PROVE  TableOf(Append(h, e0), g, Len(h) + 1) = TableOf(h, f, Len(h))
<1>1. /\ Len(h) \in Nat
      /\ \A m \in 1 .. Len(h) : Append(h, e0)[m] = h[m]
      /\ Append(h, e0)[Len(h) + 1] = e0
  BY Appended
<1>2. ASSUME NEW row, NEW c
      PROVE  WritesCounted(Append(h, e0), g, Len(h) + 1, row, c) = WritesCounted(h, f, Len(h), row, c)
  <2> DEFINE n == Len(h)
             h1 == Append(h, e0)
  <2>1. n \in Nat /\ (\A m \in 1 .. n : h1[m] = h[m]) /\ \A r \in RegId : h1[n + 1] # Write(r)
    BY <1>1
  <2> HIDE DEF h1
  <2>2. WritesCounted(h1, g, n + 1, row, c) = WritesCounted(h, f, n, row, c)
    <3>1. \A m \in 1 .. n : m \in 1 .. n + 1
      BY <2>1
    <3>2. \A m \in 1 .. n + 1 : m \in 1 .. n \/ m = n + 1
      BY <2>1
    <3> HIDE DEF n
    <3> QED
      BY <2>1, <3>1, <3>2 DEF WritesCounted, n
  <2> QED
    BY <2>2 DEF h1
<1> QED
  BY <1>2 DEF TableOf

\* A write is counted once, in the row of its value and the column of its
\* register.
LEMMA TableWrite ==
  ASSUME NEW h \in Seq(Event), NEW r \in RegId,
         NEW f, NEW g, \A m \in 1 .. Len(h), q \in RegId : f[m][q] = g[m][q],
         Clamped(g[Len(h) + 1][r]) \in Row
  PROVE  TableOf(Append(h, Write(r)), g, Len(h) + 1) =
           [TableOf(h, f, Len(h)) EXCEPT ![Clamped(g[Len(h) + 1][r])][reg_class(r)] = @ + 1]
<1> DEFINE n == Len(h)
           h1 == Append(h, Write(r))
           at == Clamped(g[n + 1][r])
           S(row, c) == WritesCounted(h, f, n, row, c)
           T(row, c) == WritesCounted(h1, g, n + 1, row, c)
<1>0. Write(r) \in Event /\ reg_class(r) \in Class
  BY ClassType DEF Write, Event
<1>1. n \in Nat /\ (\A m \in 1 .. n : h1[m] = h[m]) /\ h1[n + 1] = Write(r)
  BY <1>0, Appended
<1>2. \A q \in RegId : Write(q) = Write(r) => q = r
  BY DEF Write
<1>3. ASSUME NEW row \in Row, NEW c \in Class
      PROVE  Cardinality(T(row, c)) = IF row = at /\ c = reg_class(r)
                                      THEN Cardinality(S(row, c)) + 1
                                      ELSE Cardinality(S(row, c))
  <2>1. IsFiniteSet(S(row, c)) /\ n + 1 \notin S(row, c)
    <3>1. IsFiniteSet(1 .. n)
      BY <1>1, FS_Interval
    <3>2. S(row, c) \subseteq 1 .. n
      BY DEF WritesCounted
    <3> HIDE DEF S
    <3> QED
      BY <1>1, <3>1, <3>2, FS_Subset
  <2>2. CASE row = at /\ c = reg_class(r)
    <3>1. T(row, c) = S(row, c) \cup {n + 1}
      BY <1>1, <1>2, <2>2 DEF WritesCounted
    <3> QED
      BY <2>1, <2>2, <3>1, FS_AddElement
  <2>3. CASE ~(row = at /\ c = reg_class(r))
    <3>1. T(row, c) = S(row, c)
      BY <1>1, <1>2, <2>3 DEF WritesCounted
    <3> QED
      BY <2>3, <3>1
  <2> QED
    BY <2>2, <2>3
<1> HIDE DEF S, T, at
<1>4. at \in Row
  BY DEF at
<1>5. /\ TableOf(h1, g, n + 1) = [row \in Row |-> [c \in Class |-> Cardinality(T(row, c))]]
      /\ TableOf(h, f, n) = [row \in Row |-> [c \in Class |-> Cardinality(S(row, c))]]
  BY DEF TableOf, S, T
<1>6. TableOf(h1, g, n + 1) = [TableOf(h, f, n) EXCEPT ![at][reg_class(r)] = @ + 1]
  BY <1>0, <1>3, <1>4, <1>5
<1> QED
  BY <1>6 DEF at

\* Counting is positive or stops at the limit.
LEMMA ClampedInRow == ASSUME NEW n \in Nat PROVE Clamped(n) \in Row
BY LimitAssumption DEF Clamped, Row

\* The values a table counts do not change when a call follows.
LEMMA ValuesEarlier ==
  ASSUME NEW h \in Seq(Event), NEW e0 \in Event, NEW n \in 0 .. Len(h), NEW k \in n .. n + 1
  PROVE  \A m \in 1 .. n, r \in RegId :
           /\ Reads(Append(h, e0), k)[m][r] = Reads(h, n)[m][r]
           /\ Instructions(Append(h, e0), k)[m][r] = Instructions(h, n)[m][r]
<1>0. Len(h) \in Nat
  BY Appended
<1>1. \A m \in 1 .. n : m \in 1 .. Len(h) + 1 /\ m \in 1 .. k
  BY <1>0
<1>2. \A m \in 1 .. n : \A r, e : SinceWrite(Append(h, e0), m, r, e) = SinceWrite(h, m, r, e)
  BY <1>1, SinceEarlier
<1> QED
  BY <1>1, <1>2 DEF Reads, Instructions

\* The histograms of the calls up to an earlier one are what they were.
LEMMA HistogramsEarlier ==
  ASSUME NEW h \in Seq(Event), NEW e0 \in Event, NEW n \in 0 .. Len(h)
  PROVE  /\ FanoutOf(Append(h, e0), n) = FanoutOf(h, n)
         /\ AgeOf(Append(h, e0), n) = AgeOf(h, n)
<1>0. n \in n .. n + 1
  BY Appended
<1>1. \A m \in 1 .. n, r \in RegId :
        /\ Reads(h, n)[m][r] = Reads(Append(h, e0), n)[m][r]
        /\ Instructions(h, n)[m][r] = Instructions(Append(h, e0), n)[m][r]
  BY <1>0, ValuesEarlier
<1> QED
  BY <1>1, TableEarlier DEF FanoutOf, AgeOf

\* A call that is no write adds nothing.
LEMMA HistogramsNoWrite ==
  ASSUME NEW h \in Seq(Event), NEW e0 \in Event, \A r \in RegId : e0 # Write(r)
  PROVE  /\ FanoutOf(Append(h, e0), Len(h) + 1) = FanoutOf(h, Len(h))
         /\ AgeOf(Append(h, e0), Len(h) + 1) = AgeOf(h, Len(h))
<1>0. Len(h) \in 0 .. Len(h) /\ Len(h) + 1 \in Len(h) .. Len(h) + 1
  BY Appended
<1>1. \A m \in 1 .. Len(h), r \in RegId :
        /\ Reads(h, Len(h))[m][r] = Reads(Append(h, e0), Len(h) + 1)[m][r]
        /\ Instructions(h, Len(h))[m][r] = Instructions(Append(h, e0), Len(h) + 1)[m][r]
  BY <1>0, ValuesEarlier
<1> QED
  BY <1>1, TableNoWrite DEF FanoutOf, AgeOf

\* A write adds one to each.
LEMMA HistogramsWrite ==
  ASSUME NEW h \in Seq(Event), NEW r \in RegId
  PROVE  /\ FanoutOf(Append(h, Write(r)), Len(h) + 1) =
              [FanoutOf(h, Len(h)) EXCEPT
                 ![Clamped(SinceWrite(h, Len(h) + 1, r, Read(r)))][reg_class(r)] = @ + 1]
         /\ AgeOf(Append(h, Write(r)), Len(h) + 1) =
              [AgeOf(h, Len(h)) EXCEPT
                 ![Clamped(SinceWrite(h, Len(h) + 1, r, Exec))][reg_class(r)] = @ + 1]
<1> DEFINE n == Len(h)
           h1 == Append(h, Write(r))
           reads == SinceWrite(h, n + 1, r, Read(r))
           instructions == SinceWrite(h, n + 1, r, Exec)
<1>0. /\ Write(r) \in Event
      /\ n \in 0 .. n /\ n + 1 \in n .. n + 1 /\ n + 1 \in 1 .. n + 1
  <2>1. Write(r) \in Event
    BY DEF Write, Event
  <2> QED
    BY <2>1, Appended
<1>1. \A m \in 1 .. n, q \in RegId :
        /\ Reads(h, n)[m][q] = Reads(h1, n + 1)[m][q]
        /\ Instructions(h, n)[m][q] = Instructions(h1, n + 1)[m][q]
  BY <1>0, ValuesEarlier
<1>2. Read(r) # Write(r) /\ Exec # Write(r)
  BY DEF Read, Write, Exec
<1>3. reads \in Nat /\ instructions \in Nat
  BY <1>0, <1>2, SinceNext
<1>4. Reads(h1, n + 1)[n + 1][r] = reads /\ Instructions(h1, n + 1)[n + 1][r] = instructions
  BY <1>0, SinceEarlier DEF Reads, Instructions
<1>5. Clamped(reads) \in Row /\ Clamped(instructions) \in Row
  BY <1>3, ClampedInRow
<1>6. TableOf(h1, Reads(h1, n + 1), n + 1) =
        [TableOf(h, Reads(h, n), n) EXCEPT ![Clamped(reads)][reg_class(r)] = @ + 1]
  BY <1>1, <1>4, <1>5, TableWrite
<1>7. TableOf(h1, Instructions(h1, n + 1), n + 1) =
        [TableOf(h, Instructions(h, n), n) EXCEPT ![Clamped(instructions)][reg_class(r)] = @ + 1]
  BY <1>1, <1>4, <1>5, TableWrite
<1> QED
  BY <1>6, <1>7 DEF FanoutOf, AgeOf

\* The last finish() stays the last one until another.
LEMMA LastFinishNext ==
  ASSUME NEW h \in Seq(Event), NEW e0 \in Event
  PROVE  /\ LastFinish(h) \in 0 .. Len(h)
         /\ e0.op = "finish" => LastFinish(Append(h, e0)) = Len(h) + 1
         /\ e0.op # "finish" => LastFinish(Append(h, e0)) = LastFinish(h)
<1> DEFINE n == Len(h)
           h1 == Append(h, e0)
           S == {0} \cup {m \in 1 .. n : h[m].op = "finish"}
           T == {0} \cup {m \in 1 .. n + 1 : h1[m].op = "finish"}
<1>1. n \in Nat /\ (\A m \in 1 .. n : h1[m] = h[m]) /\ h1[n + 1] = e0 /\ Len(h1) = n + 1
  BY Appended
<1>2. LastFinish(h) = Max(S) /\ LastFinish(h1) = Max(T)
  BY <1>1 DEF LastFinish
<1>3. S \in SUBSET (0 .. n) /\ S # {} /\ T \in SUBSET (0 .. n + 1) /\ T # {} /\ n + 1 \in Nat
  BY <1>1
<1>4. e0.op # "finish" => T = S
  BY <1>1
<1>5. e0.op = "finish" => n + 1 \in T
  BY <1>1
<1> HIDE DEF S, T
<1>6. Max(S) \in S
  BY <1>1, <1>3, Greatest
<1>7. Max(T) \in T /\ \A y \in T : y <= Max(T)
  BY <1>3, Greatest
<1>8. e0.op = "finish" => Max(T) = n + 1
  <2>1. Max(T) \in 0 .. n + 1
    BY <1>3, <1>7
  <2>2. e0.op = "finish" => n + 1 <= Max(T)
    BY <1>5, <1>7
  <2> QED
    BY <1>1, <2>1, <2>2
<1> QED
  BY <1>2, <1>3, <1>4, <1>6, <1>8

\* A type invariant of the calls' history.
LEMMA HistoryType ==
  ASSUME history \in Seq(Event), NEW e \in Event, Happens(e)
  PROVE  history' \in Seq(Event)
BY DEF Happens

\* The marks a write leaves are never ahead of the counts they are taken from.
MarksBehind ==
  \A r \in RegId : /\ registers.regs[r].last_read <= registers.regs[r].reads
                   /\ registers.regs[r].last_instr <= instr_count

\* The inductive invariant.
IInv == TypeOK /\ MarksBehind

LEMMA InitIInv == Init => IInv
<1> SUFFICES ASSUME Init PROVE IInv
  OBVIOUS
<1>1. TypeOK
  BY EmptyRegistersType DEF Init, TypeOK
<1>2. MarksBehind
  <2>1. SUFFICES ASSUME NEW r \in RegId
                 PROVE  /\ EmptyRegisters.regs[r].last_read <= EmptyRegisters.regs[r].reads
                        /\ EmptyRegisters.regs[r].last_instr <= 0
    BY DEF Init, MarksBehind
  <2>2. EmptyRegisters.regs[r] = [reads |-> 0, writes |-> 0, last_read |-> 0, last_instr |-> 0]
    BY DEF EmptyRegisters
  <2> QED
    BY <2>2
<1> QED
  BY <1>1, <1>2 DEF IInv

\* Every call keeps it.
LEMMA NextIInv == IInv /\ [Next]_vars => IInv'
<1> SUFFICES ASSUME IInv, [Next]_vars PROVE IInv'
  OBVIOUS
<1> USE DEF IInv
<1>t. /\ registers \in RegisterRecord
      /\ registers.regs \in [RegId -> reg_t]
      /\ registers.fanout \in Table
      /\ registers.age \in Table
      /\ instr_count \in Nat
      /\ history \in Seq(Event)
  BY DEF TypeOK, RegisterRecord
<1>1. ASSUME NEW r \in RegId, read(r) PROVE IInv'
  <2>1. registers' = RegisterRead(registers, r) /\ instr_count' = instr_count
    BY <1>1 DEF read
  <2>2. history' \in Seq(Event)
    BY <1>1, <1>t, HistoryType DEF read, Event
  <2>3. TypeOK'
    BY <1>t, <2>1, <2>2, RegisterReadType DEF TypeOK
  <2>4. ASSUME NEW q \in RegId
        PROVE  /\ registers'.regs[q].last_read <= registers'.regs[q].reads
               /\ registers'.regs[q].last_instr <= instr_count'
    <3>1. registers.regs[q] \in reg_t
      BY <1>t
    <3>2. /\ registers.regs[q].last_read <= registers.regs[q].reads
          /\ registers.regs[q].last_instr <= instr_count
      BY DEF MarksBehind
    <3>3. registers'.regs[q] = IF q = r THEN [registers.regs[q] EXCEPT !.reads = @ + 1]
                                        ELSE registers.regs[q]
      BY <1>t, <2>1, RegisterReadType
    <3> QED
      BY <2>1, <3>1, <3>2, <3>3 DEF reg_t
  <2> QED
    BY <2>3, <2>4 DEF MarksBehind
<1>2. ASSUME NEW r \in RegId, write(r) PROVE IInv'
  <2>1. registers' = RegisterWrite(registers, r, instr_count) /\ instr_count' = instr_count
    BY <1>2 DEF write
  <2>2. history' \in Seq(Event)
    BY <1>2, <1>t, HistoryType DEF write, Event
  <2>3. TypeOK'
    BY <1>t, <2>1, <2>2, RegisterWriteType DEF TypeOK
  <2>4. registers'.regs = [registers.regs EXCEPT ![r] = Overwritten(@, instr_count)]
    BY <1>t, <2>1, RegisterWriteType
  <2>5. ASSUME NEW q \in RegId
        PROVE  /\ registers'.regs[q].last_read <= registers'.regs[q].reads
               /\ registers'.regs[q].last_instr <= instr_count'
    <3>1. registers.regs[q] \in reg_t
      BY <1>t
    <3>2. /\ registers.regs[q].last_read <= registers.regs[q].reads
          /\ registers.regs[q].last_instr <= instr_count
      BY DEF MarksBehind
    <3>3. registers'.regs[q] = IF q = r THEN Overwritten(registers.regs[q], instr_count)
                                        ELSE registers.regs[q]
      BY <1>t, <2>4
    <3> QED
      BY <1>t, <2>1, <3>1, <3>2, <3>3 DEF Overwritten, reg_t
  <2> QED
    BY <2>3, <2>5 DEF MarksBehind
<1>3. CASE exec
  <2>1. history' \in Seq(Event)
    BY <1>3, <1>t, HistoryType DEF exec, Event
  <2>2. TypeOK'
    BY <1>3, <1>t, <2>1 DEF exec, TypeOK
  <2>3. MarksBehind'
    <3>1. \A q \in RegId : registers.regs[q].last_instr \in Nat
      BY <1>t DEF reg_t
    <3> QED
      BY <1>3, <1>t, <3>1 DEF exec, MarksBehind
  <2> QED
    BY <2>2, <2>3
<1>4. CASE finish
  <2>1. history' \in Seq(Event)
    BY <1>4, <1>t, HistoryType DEF finish, Event
  <2>2. registers' = RegisterFinish(registers)
    BY <1>4 DEF finish
  <2>3. registers' \in RegisterRecord
    BY <1>t, <2>2, FinishTableType DEF RegisterFinish, RegisterRecord
  <2>4. TypeOK'
    BY <1>4, <1>t, <2>1, <2>3 DEF finish, TypeOK
  <2>5. MarksBehind'
    BY <1>4, <2>2 DEF finish, RegisterFinish, MarksBehind
  <2> QED
    BY <2>4, <2>5
<1>5. CASE UNCHANGED vars
  BY <1>5 DEF vars, TypeOK, MarksBehind
<1> QED
  BY <1>1, <1>2, <1>3, <1>4, <1>5 DEF Next

\* The invariant bounds both differences by the counts.
LEMMA IInvRows == IInv => RowsInTableWhileSmall
<1> SUFFICES ASSUME IInv, FitsInt, NEW r \in RegId
             PROVE  /\ FanoutRow(registers, r) \in Row
                    /\ AgeRow(registers, r, instr_count) \in Row
  BY DEF RowsInTableWhileSmall, RowsInTable
<1>1. /\ registers.regs[r] \in reg_t
      /\ instr_count \in Nat
  BY DEF IInv, TypeOK, RegisterRecord
<1>2. /\ registers.regs[r].last_read <= registers.regs[r].reads
      /\ registers.regs[r].last_instr <= instr_count
  BY DEF IInv, MarksBehind
<1>3. /\ registers.regs[r].reads < INT_MOD \div 2
      /\ instr_count < INT_MOD \div 2
  BY DEF FitsInt
<1>4. /\ registers.regs[r].reads - registers.regs[r].last_read \in Nat
      /\ registers.regs[r].reads - registers.regs[r].last_read < INT_MOD \div 2
      /\ instr_count - registers.regs[r].last_instr \in Nat
      /\ instr_count - registers.regs[r].last_instr < INT_MOD \div 2
  <2>1. INT_MOD \div 2 \in Int
    BY IntAssumption
  <2> QED
    BY <1>1, <1>2, <1>3, <2>1 DEF reg_t
<1> QED
  BY <1>4, SmallDifferenceInTable DEF FanoutRow, AgeRow

(***************************************************************************)
(* The two histograms.  A register's marks say how many reads and          *)
(* instructions there have been since it was last written; the tables are  *)
(* right as long as the counts fit an int, which they then have always     *)
(* done.                                                                   *)
(***************************************************************************)
MarksAreSinceWrite ==
  \A r \in RegId :
    /\ registers.regs[r].reads - registers.regs[r].last_read
         = SinceWrite(history, Len(history) + 1, r, Read(r))
    /\ instr_count - registers.regs[r].last_instr
         = SinceWrite(history, Len(history) + 1, r, Exec)

HistogramInv == IInv /\ MarksAreSinceWrite /\ FanoutIsReadsPerValue /\ AgeIsInstructionsPerValue

\* The calls of the history.
LEMMA Calls == \A r \in RegId :
  /\ Read(r) \in Event /\ Write(r) \in Event /\ Exec \in Event
  /\ Read(r).op = "read" /\ Write(r).op = "write" /\ Exec.op = "exec"
  /\ Exec # Read(r) /\ Exec # Write(r)
  /\ \A q \in RegId : Read(r) # Write(q) /\ (q # r => Read(r) # Read(q) /\ Write(r) # Write(q))
BY DEF Read, Write, Exec, Event

\* What is counted since the last write, before and after a call.
LEMMA SinceCall ==
  ASSUME NEW h \in Seq(Event), NEW e0 \in Event, NEW r \in RegId,
         NEW e \in {Read(r), Exec}
  PROVE  /\ SinceWrite(h, Len(h) + 1, r, e) \in Nat
         /\ SinceWrite(Append(h, e0), Len(Append(h, e0)) + 1, r, e) =
              IF e0 = Write(r) THEN 0
              ELSE SinceWrite(h, Len(h) + 1, r, e) + (IF e0 = e THEN 1 ELSE 0)
<1>1. Len(Append(h, e0)) + 1 = Len(h) + 2
  BY Appended
<1>2. e # Write(r)
  BY Calls
<1> QED
  BY <1>1, <1>2, SinceNext

\* A read and an instruction count one more, a write starts anew.
LEMMA NextMarks ==
  ASSUME IInv, MarksAreSinceWrite, [Next]_vars
  PROVE  MarksAreSinceWrite'
<1>t. /\ registers \in RegisterRecord
      /\ registers.regs \in [RegId -> reg_t]
      /\ instr_count \in Nat
      /\ history \in Seq(Event)
  BY DEF IInv, TypeOK, RegisterRecord
<1>m. \A q \in RegId :
        /\ registers.regs[q] \in reg_t
        /\ registers.regs[q].reads - registers.regs[q].last_read
             = SinceWrite(history, Len(history) + 1, q, Read(q))
        /\ instr_count - registers.regs[q].last_instr
             = SinceWrite(history, Len(history) + 1, q, Exec)
  BY <1>t DEF MarksAreSinceWrite
<1>1. ASSUME NEW r \in RegId, read(r) PROVE MarksAreSinceWrite'
  <2> SUFFICES ASSUME NEW q \in RegId
               PROVE  /\ registers'.regs[q].reads - registers'.regs[q].last_read
                           = SinceWrite(history', Len(history') + 1, q, Read(q))
                      /\ instr_count' - registers'.regs[q].last_instr
                           = SinceWrite(history', Len(history') + 1, q, Exec)
    BY DEF MarksAreSinceWrite
  <2>1. registers' = RegisterRead(registers, r) /\ instr_count' = instr_count
        /\ history' = Append(history, Read(r))
    BY <1>1 DEF read, Happens, Read
  <2>2. registers'.regs[q] = IF q = r THEN [registers.regs[q] EXCEPT !.reads = @ + 1]
                                      ELSE registers.regs[q]
    BY <1>t, <2>1, RegisterReadType
  <2>3. /\ SinceWrite(history', Len(history') + 1, q, Read(q))
             = SinceWrite(history, Len(history) + 1, q, Read(q)) + (IF q = r THEN 1 ELSE 0)
        /\ SinceWrite(history', Len(history') + 1, q, Exec)
             = SinceWrite(history, Len(history) + 1, q, Exec) + 0
    BY <1>t, <2>1, Calls, SinceCall
  <2>4. /\ registers'.regs[q].reads = registers.regs[q].reads + (IF q = r THEN 1 ELSE 0)
        /\ registers'.regs[q].last_read = registers.regs[q].last_read
        /\ registers'.regs[q].last_instr = registers.regs[q].last_instr
    BY <1>m, <2>2 DEF reg_t
  <2>5. /\ registers.regs[q].reads \in Nat /\ registers.regs[q].last_read \in Nat
        /\ registers.regs[q].last_instr \in Nat
    BY <1>m DEF reg_t
  <2> QED
    BY <1>m, <1>t, <2>1, <2>3, <2>4, <2>5
<1>2. ASSUME NEW r \in RegId, write(r) PROVE MarksAreSinceWrite'
  <2> SUFFICES ASSUME NEW q \in RegId
               PROVE  /\ registers'.regs[q].reads - registers'.regs[q].last_read
                           = SinceWrite(history', Len(history') + 1, q, Read(q))
                      /\ instr_count' - registers'.regs[q].last_instr
                           = SinceWrite(history', Len(history') + 1, q, Exec)
    BY DEF MarksAreSinceWrite
  <2>1. registers' = RegisterWrite(registers, r, instr_count) /\ instr_count' = instr_count
        /\ history' = Append(history, Write(r))
    BY <1>2 DEF write, Happens, Write
  <2>0. registers'.regs = [registers.regs EXCEPT ![r] = Overwritten(@, instr_count)]
    BY <1>t, <2>1, RegisterWriteType
  <2>2. registers'.regs[q] = IF q = r THEN Overwritten(registers.regs[q], instr_count)
                                      ELSE registers.regs[q]
    BY <1>t, <2>0
  <2>3. ASSUME NEW e \in {Read(q), Exec}
        PROVE  SinceWrite(history', Len(history') + 1, q, e)
                 = IF q = r THEN 0 ELSE SinceWrite(history, Len(history) + 1, q, e) + 0
    BY <1>t, <2>1, Calls, SinceCall
  <2>4. CASE q = r
    <3>1. /\ registers'.regs[q].reads = registers.regs[q].reads
          /\ registers'.regs[q].last_read = registers.regs[q].reads
          /\ registers'.regs[q].last_instr = instr_count
      BY <2>2, <2>4 DEF Overwritten
    <3>2. registers.regs[q].reads \in Nat
      BY <1>m DEF reg_t
    <3> QED
      BY <1>t, <2>1, <2>3, <2>4, <3>1, <3>2
  <2>5. CASE q # r
    <3>1. registers'.regs[q] = registers.regs[q]
      BY <2>2, <2>5
    <3>2. /\ registers.regs[q].reads \in Nat /\ registers.regs[q].last_read \in Nat
          /\ registers.regs[q].last_instr \in Nat
      BY <1>m DEF reg_t
    <3> QED
      BY <1>m, <1>t, <2>1, <2>3, <2>5, <3>1, <3>2
  <2> QED
    BY <2>4, <2>5
<1>3. CASE exec
  <2> SUFFICES ASSUME NEW q \in RegId
               PROVE  /\ registers'.regs[q].reads - registers'.regs[q].last_read
                           = SinceWrite(history', Len(history') + 1, q, Read(q))
                      /\ instr_count' - registers'.regs[q].last_instr
                           = SinceWrite(history', Len(history') + 1, q, Exec)
    BY DEF MarksAreSinceWrite
  <2>1. registers' = registers /\ instr_count' = instr_count + 1 /\ history' = Append(history, Exec)
    BY <1>3 DEF exec, Happens, Exec
  <2>2. /\ SinceWrite(history', Len(history') + 1, q, Read(q))
             = SinceWrite(history, Len(history) + 1, q, Read(q)) + 0
        /\ SinceWrite(history', Len(history') + 1, q, Exec)
             = SinceWrite(history, Len(history) + 1, q, Exec) + 1
    BY <1>t, <2>1, Calls, SinceCall
  <2>3. /\ registers.regs[q].reads \in Nat /\ registers.regs[q].last_read \in Nat
        /\ registers.regs[q].last_instr \in Nat
    BY <1>m DEF reg_t
  <2>4. /\ SinceWrite(history, Len(history) + 1, q, Read(q)) \in Nat
        /\ SinceWrite(history, Len(history) + 1, q, Exec) \in Nat
    BY <1>t, Calls, SinceNext
  <2>5. /\ registers.regs[q].reads - registers.regs[q].last_read
             = SinceWrite(history, Len(history) + 1, q, Read(q))
        /\ instr_count - registers.regs[q].last_instr
             = SinceWrite(history, Len(history) + 1, q, Exec)
    BY <1>m
  <2>6. (instr_count + 1) - registers.regs[q].last_instr
          = SinceWrite(history, Len(history) + 1, q, Exec) + 1
    <3>1. \A x \in Nat, y \in Nat, z \in Nat : x - y = z => (x + 1) - y = z + 1
      OBVIOUS
    <3> QED
      BY <1>t, <2>3, <2>4, <2>5, <3>1
  <2> QED
    BY <2>1, <2>2, <2>4, <2>5, <2>6
<1>4. CASE finish
  <2> SUFFICES ASSUME NEW q \in RegId
               PROVE  /\ registers'.regs[q].reads - registers'.regs[q].last_read
                           = SinceWrite(history', Len(history') + 1, q, Read(q))
                      /\ instr_count' - registers'.regs[q].last_instr
                           = SinceWrite(history', Len(history') + 1, q, Exec)
    BY DEF MarksAreSinceWrite
  <2> DEFINE e0 == [op |-> "finish"]
  <2>1. registers'.regs = registers.regs /\ instr_count' = instr_count
        /\ history' = Append(history, e0)
    BY <1>4 DEF finish, Happens, RegisterFinish
  <2>2. e0 \in Event /\ e0 # Write(q) /\ e0 # Read(q) /\ e0 # Exec
    BY DEF Event, Write, Read, Exec
  <2> HIDE DEF e0
  <2>3. ASSUME NEW e \in {Read(q), Exec}
        PROVE  SinceWrite(history', Len(history') + 1, q, e)
                 = SinceWrite(history, Len(history) + 1, q, e)
    <3>1. SinceWrite(history', Len(history') + 1, q, e)
            = SinceWrite(history, Len(history) + 1, q, e) + 0
          /\ SinceWrite(history, Len(history) + 1, q, e) \in Nat
      BY <1>t, <2>1, <2>2, SinceCall
    <3> QED
      BY <3>1
  <2> QED
    BY <1>m, <2>1, <2>3
<1>5. CASE UNCHANGED vars
  BY <1>5 DEF vars, MarksAreSinceWrite
<1> QED
  BY <1>1, <1>2, <1>3, <1>4, <1>5 DEF Next

\* The counts of the calls only grow.
LEMMA FitsBefore ==
  ASSUME IInv, [Next]_vars, FitsInt'
  PROVE  FitsInt
<1>t. /\ registers \in RegisterRecord
      /\ registers.regs \in [RegId -> reg_t]
      /\ instr_count \in Nat
      /\ INT_MOD \div 2 \in Int
  BY IntAssumption DEF IInv, TypeOK, RegisterRecord
<1>1. instr_count' \in Nat /\ instr_count <= instr_count'
  <2>1. instr_count' = instr_count \/ instr_count' = instr_count + 1
    BY DEF Next, read, write, exec, finish, vars
  <2> QED
    BY <1>t, <2>1
<1>2. ASSUME NEW q \in RegId
      PROVE  /\ registers.regs[q].reads \in Nat
             /\ \/ registers'.regs[q].reads = registers.regs[q].reads
                \/ registers'.regs[q].reads = registers.regs[q].reads + 1
  <2>0. registers.regs[q] \in reg_t /\ registers.regs[q].reads \in Nat
    BY <1>t DEF reg_t
  <2>1. ASSUME NEW r \in RegId, read(r)
        PROVE  \/ registers'.regs[q].reads = registers.regs[q].reads
               \/ registers'.regs[q].reads = registers.regs[q].reads + 1
    <3>1. registers'.regs[q] = IF q = r THEN [registers.regs[q] EXCEPT !.reads = @ + 1]
                                        ELSE registers.regs[q]
      BY <1>t, <2>1, RegisterReadType DEF read
    <3> QED
      BY <2>0, <3>1 DEF reg_t
  <2>2. ASSUME NEW r \in RegId, write(r) PROVE registers'.regs[q].reads = registers.regs[q].reads
    <3>1. registers'.regs = [registers.regs EXCEPT ![r] = Overwritten(@, instr_count)]
      BY <1>t, <2>2, RegisterWriteType DEF write
    <3> QED
      BY <1>t, <3>1 DEF Overwritten
  <2>3. CASE exec \/ finish \/ UNCHANGED vars
    BY <2>0, <2>3 DEF exec, finish, RegisterFinish, vars
  <2> QED
    BY <2>0, <2>1, <2>2, <2>3 DEF Next
<1>3. instr_count < INT_MOD \div 2
  <2>1. instr_count' < INT_MOD \div 2
    BY DEF FitsInt
  <2> QED
    BY <1>t, <1>1, <2>1
<1>4. ASSUME NEW q \in RegId PROVE registers.regs[q].reads < INT_MOD \div 2
  <2>1. registers'.regs[q].reads < INT_MOD \div 2
    BY DEF FitsInt
  <2> QED
    BY <1>t, <1>2, <2>1
<1> QED
  BY <1>3, <1>4 DEF FitsInt

\* A difference that fits an int is clamped, and nothing else happens to it.
LEMMA RowIsClamped ==
  ASSUME NEW n \in Nat, n < INT_MOD \div 2
  PROVE  TableRow(n) = Clamped(n)
<1>1. INT_MOD \in Nat /\ INT_MOD \div 2 \in Nat /\ INT_MOD \div 2 <= INT_MOD
  BY IntAssumption
<1>2. n < INT_MOD
  BY <1>1
<1>3. n % INT_MOD = n
  BY <1>1, <1>2
<1>4. ToInt(n) = n
  BY <1>3 DEF ToInt
<1> QED
  BY <1>4 DEF TableRow, Clamped

\* A write is counted where the history has it, any other call changes nothing
\* but the files, at a finish().
LEMMA NextHistograms ==
  ASSUME HistogramInv, [Next]_vars
  PROVE  FanoutIsReadsPerValue' /\ AgeIsInstructionsPerValue'
<1> SUFFICES ASSUME FitsInt'
             PROVE  /\ registers'.fanout.rows = FanoutOf(history', Len(history'))
                    /\ registers'.fanout.stored = FanoutOf(history', LastFinish(history'))
                    /\ registers'.age.rows = AgeOf(history', Len(history'))
                    /\ registers'.age.stored = AgeOf(history', LastFinish(history'))
  BY DEF FanoutIsReadsPerValue, AgeIsInstructionsPerValue
<1>t. /\ registers \in RegisterRecord
      /\ registers.regs \in [RegId -> reg_t]
      /\ registers.fanout \in Table
      /\ registers.age \in Table
      /\ instr_count \in Nat
      /\ history \in Seq(Event)
  BY DEF HistogramInv, IInv, TypeOK, RegisterRecord
<1>f. FitsInt
  BY FitsBefore DEF HistogramInv
<1>h. /\ registers.fanout.rows = FanoutOf(history, Len(history))
      /\ registers.fanout.stored = FanoutOf(history, LastFinish(history))
      /\ registers.age.rows = AgeOf(history, Len(history))
      /\ registers.age.stored = AgeOf(history, LastFinish(history))
  BY <1>f DEF HistogramInv, FanoutIsReadsPerValue, AgeIsInstructionsPerValue
<1>n. \A e0 \in Event :
        /\ Len(Append(history, e0)) = Len(history) + 1
        /\ FanoutOf(Append(history, e0), LastFinish(history)) = FanoutOf(history, LastFinish(history))
        /\ AgeOf(Append(history, e0), LastFinish(history)) = AgeOf(history, LastFinish(history))
        /\ e0.op # "finish" => LastFinish(Append(history, e0)) = LastFinish(history)
        /\ e0.op = "finish" => LastFinish(Append(history, e0)) = Len(history) + 1
  <2> SUFFICES ASSUME NEW e0 \in Event
               PROVE  /\ Len(Append(history, e0)) = Len(history) + 1
                      /\ FanoutOf(Append(history, e0), LastFinish(history)) = FanoutOf(history, LastFinish(history))
                      /\ AgeOf(Append(history, e0), LastFinish(history)) = AgeOf(history, LastFinish(history))
                      /\ e0.op # "finish" => LastFinish(Append(history, e0)) = LastFinish(history)
                      /\ e0.op = "finish" => LastFinish(Append(history, e0)) = Len(history) + 1
    OBVIOUS
  <2>1. /\ LastFinish(history) \in 0 .. Len(history)
        /\ e0.op # "finish" => LastFinish(Append(history, e0)) = LastFinish(history)
        /\ e0.op = "finish" => LastFinish(Append(history, e0)) = Len(history) + 1
    BY <1>t, LastFinishNext
  <2>2. Len(Append(history, e0)) = Len(history) + 1
    BY <1>t, Appended
  <2> QED
    BY <1>t, <2>1, <2>2, HistogramsEarlier
<1>w. ASSUME NEW e0 \in Event, \A q \in RegId : e0 # Write(q)
      PROVE  /\ FanoutOf(Append(history, e0), Len(history) + 1) = registers.fanout.rows
             /\ AgeOf(Append(history, e0), Len(history) + 1) = registers.age.rows
  BY <1>t, <1>h, <1>w, HistogramsNoWrite
<1>1. ASSUME NEW e0 \in Event, \A q \in RegId : e0 # Write(q), e0.op # "finish",
             history' = Append(history, e0),
             registers'.fanout = registers.fanout, registers'.age = registers.age
      PROVE  /\ registers'.fanout.rows = FanoutOf(history', Len(history'))
             /\ registers'.fanout.stored = FanoutOf(history', LastFinish(history'))
             /\ registers'.age.rows = AgeOf(history', Len(history'))
             /\ registers'.age.stored = AgeOf(history', LastFinish(history'))
  BY <1>1, <1>h, <1>n, <1>w
<1>2. CASE \E r \in RegId : read(r)
  <2>1. PICK r \in RegId : read(r)
    BY <1>2
  <2>2. history' = Append(history, Read(r)) /\ registers' = RegisterRead(registers, r)
    BY <2>1 DEF read, Happens, Read
  <2>3. registers'.fanout = registers.fanout /\ registers'.age = registers.age
    BY <1>t, <2>2, RegisterReadType
  <2>4. Read(r) \in Event /\ Read(r).op # "finish" /\ \A q \in RegId : Read(r) # Write(q)
    BY Calls
  <2> QED
    BY <1>1, <2>2, <2>3, <2>4
<1>3. CASE exec
  <2>1. history' = Append(history, Exec) /\ registers' = registers
    BY <1>3 DEF exec, Happens, Exec
  <2>2. Exec \in Event /\ Exec.op # "finish" /\ \A q \in RegId : Exec # Write(q)
    BY DEF Event, Exec, Write
  <2> QED
    BY <1>1, <2>1, <2>2
<1>4. CASE finish
  <2> DEFINE e0 == [op |-> "finish"]
  <2>1. history' = Append(history, e0) /\ registers' = RegisterFinish(registers)
    BY <1>4 DEF finish, Happens
  <2>2. e0 \in Event /\ e0.op = "finish" /\ \A q \in RegId : e0 # Write(q)
    BY DEF Event, Write
  <2>3. /\ registers'.fanout = [rows |-> registers.fanout.rows, stored |-> registers.fanout.rows]
        /\ registers'.age = [rows |-> registers.age.rows, stored |-> registers.age.rows]
    BY <1>t, <2>1, TableParts DEF RegisterFinish, FinishTable
  <2> HIDE DEF e0
  <2> QED
    BY <1>n, <1>w, <2>1, <2>2, <2>3
<1>5. CASE \E r \in RegId : write(r)
  <2>1. PICK r \in RegId : write(r)
    BY <1>5
  <2> DEFINE reads == SinceWrite(history, Len(history) + 1, r, Read(r))
             instructions == SinceWrite(history, Len(history) + 1, r, Exec)
             c == reg_class(r)
  <2>2. history' = Append(history, Write(r)) /\ registers' = RegisterWrite(registers, r, instr_count)
    BY <2>1 DEF write, Happens, Write
  <2>3. c \in Class /\ ~(c < 0)
    BY ClassType DEF Class
  <2>4. reads \in Nat /\ instructions \in Nat /\ Write(r) \in Event /\ Write(r).op # "finish"
    BY <1>t, SinceCall, Calls
  <2>5. /\ registers.regs[r].reads - registers.regs[r].last_read = reads
        /\ instr_count - registers.regs[r].last_instr = instructions
    BY DEF HistogramInv, MarksAreSinceWrite
  <2>6. reads < INT_MOD \div 2 /\ instructions < INT_MOD \div 2
    <3>1. registers.regs[r].last_read \in Nat /\ registers.regs[r].last_instr \in Nat
          /\ registers.regs[r].reads \in Nat
      BY <1>t DEF reg_t
    <3>2. registers.regs[r].reads < INT_MOD \div 2 /\ instr_count < INT_MOD \div 2
      BY <1>f DEF FitsInt
    <3>3. INT_MOD \div 2 \in Int
      BY IntAssumption
    <3> QED
      BY <1>t, <2>5, <3>1, <3>2, <3>3
  <2>7. FanoutRow(registers, r) = Clamped(reads) /\ AgeRow(registers, r, instr_count) = Clamped(instructions)
    BY <2>4, <2>5, <2>6, RowIsClamped DEF FanoutRow, AgeRow
  <2>8. Clamped(reads) \in Row /\ Clamped(instructions) \in Row
    BY <2>4, ClampedInRow
  <2>9. /\ registers'.fanout = CountRow(registers.fanout, Clamped(reads), c)
        /\ registers'.age = CountRow(registers.age, Clamped(instructions), c)
    BY <2>2, <2>3, <2>7 DEF RegisterWrite
  <2>10. /\ registers'.fanout.rows = [registers.fanout.rows EXCEPT ![Clamped(reads)][c] = @ + 1]
         /\ registers'.fanout.stored = registers.fanout.stored
         /\ registers'.age.rows = [registers.age.rows EXCEPT ![Clamped(instructions)][c] = @ + 1]
         /\ registers'.age.stored = registers.age.stored
    BY <1>t, <2>8, <2>9, TableParts DEF CountRow, Table
  <2>a. /\ FanoutOf(Append(history, Write(r)), Len(history) + 1)
             = [FanoutOf(history, Len(history)) EXCEPT ![Clamped(reads)][c] = @ + 1]
        /\ AgeOf(Append(history, Write(r)), Len(history) + 1)
             = [AgeOf(history, Len(history)) EXCEPT ![Clamped(instructions)][c] = @ + 1]
    BY <1>t, HistogramsWrite, Zenon
  <2>11. /\ FanoutOf(history', Len(history) + 1) = registers'.fanout.rows
         /\ AgeOf(history', Len(history) + 1) = registers'.age.rows
    <3> HIDE DEF reads, instructions, c
    <3> QED
      BY <1>h, <2>2, <2>10, <2>a
  <2> HIDE DEF reads, instructions, c
  <2> QED
    BY <1>h, <1>n, <2>2, <2>4, <2>10, <2>11
<1>6. CASE UNCHANGED vars
  BY <1>6, <1>h DEF vars
<1> QED
  BY <1>2, <1>3, <1>4, <1>5, <1>6 DEF Next

\* Nothing has been called yet, and the tables are empty.
LEMMA InitHistograms == Init => HistogramInv
<1> SUFFICES ASSUME Init PROVE HistogramInv
  OBVIOUS
<1>1. IInv
  BY InitIInv
<1>2. history = <<>> /\ Len(history) = 0 /\ history \in Seq(Event)
  BY DEF Init
<1>3. \A r, e : SinceWrite(history, 1, r, e) = 0
  BY FS_EmptySet DEF SinceWrite
<1>4. MarksAreSinceWrite
  <2>0. Len(history) + 1 = 1
    BY <1>2
  <2> SUFFICES ASSUME NEW r \in RegId
               PROVE  /\ registers.regs[r].reads - registers.regs[r].last_read = 0
                      /\ instr_count - registers.regs[r].last_instr = 0
    BY <1>3, <2>0 DEF MarksAreSinceWrite
  <2>1. registers.regs[r] = [reads |-> 0, writes |-> 0, last_read |-> 0, last_instr |-> 0]
        /\ instr_count = 0
    BY DEF Init, EmptyRegisters
  <2> QED
    BY <2>1
<1>5. \A f : TableOf(history, f, 0) = [row \in Row |-> [c \in Class |-> 0]]
  <2>1. \A f, row, c : Cardinality(WritesCounted(history, f, 0, row, c)) = 0
    BY FS_EmptySet DEF WritesCounted
  <2> QED
    BY <2>1 DEF TableOf
<1>6. LastFinish(history) = 0
  <2>1. {0} \cup {m \in 1 .. Len(history) : history[m].op = "finish"} = {0}
    BY <1>2
  <2>2. Max({0}) \in {0}
    BY Greatest
  <2> QED
    BY <2>1, <2>2 DEF LastFinish
<1>7. FanoutIsReadsPerValue /\ AgeIsInstructionsPerValue
  BY <1>2, <1>5, <1>6 DEF FanoutIsReadsPerValue, AgeIsInstructionsPerValue, FanoutOf, AgeOf,
     Init, EmptyRegisters, EmptyTable
<1> QED
  BY <1>1, <1>4, <1>7 DEF HistogramInv

\* The whole invariant.
LEMMA NextHistogramInv == HistogramInv /\ [Next]_vars => HistogramInv'
BY NextIInv, NextMarks, NextHistograms DEF HistogramInv

\* fanout.tbl is the histogram of reads per value, and its file that of the
\* calls up to the last finish(), for any registers, limit and sequence of
\* calls: as long as the counts fit an int.
THEOREM FanoutIsHistogram == Spec => []FanoutIsReadsPerValue
<1>1. HistogramInv => FanoutIsReadsPerValue
  BY DEF HistogramInv
<1> QED
  BY InitHistograms, NextHistogramInv, <1>1, PTL DEF Spec

\* age.tbl is the histogram of instructions per value.
THEOREM AgeIsHistogram == Spec => []AgeIsInstructionsPerValue
<1>1. HistogramInv => AgeIsInstructionsPerValue
  BY DEF HistogramInv
<1> QED
  BY InitHistograms, NextHistogramInv, <1>1, PTL DEF Spec

\* Every variable of the record keeps its type, whatever is called.
THEOREM Typing == Spec => []TypeOK
<1>1. IInv => TypeOK
  BY DEF IInv
<1> QED
  BY InitIInv, NextIInv, <1>1, PTL DEF Spec

\* As long as the counts fit an int, no write is counted outside the tables:
\* for any registers, any limit and any width of an int.
THEOREM RowsInTableTheorem == Spec => []RowsInTableWhileSmall
BY InitIInv, NextIInv, IInvRows, PTL DEF Spec
=============================================================================

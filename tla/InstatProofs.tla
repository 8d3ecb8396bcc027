---------------------------- MODULE InstatProofs ----------------------------
(***************************************************************************)
(* The tool keeps its types, leaves nothing in its static variables, loses *)
(* no execution, and has written everything when it has exited: for every  *)
(* program, every cache size, checkpoint period and number of lanes.  Its  *)
(* three counting tables implement Profile: whatever the caches evict,     *)
(* each is a set of counters whose file holds earlier values, all of them  *)
(* when the process has exited.  And image.tbl has every instruction that  *)
(* has run.                                                                *)
(***************************************************************************)
EXTENDS InstatProps, OperatorProofs, RegisterOpsProofs, FiniteSetTheorems, SequenceTheorems

(***************************************************************************)
(* The inductive invariant.                                                *)
(***************************************************************************)
\* on_ins() runs for an instrumented instruction, and when the process is in
\* the application or has exited it does not run.
Running ==
  /\ \A a \in instrumented : Prog[a].opcode \in Opcode
  /\ ins \in instrumented \cup {NoIns}
  /\ pc \in {"app", "exited"} => Idle
  /\ pc \in {"image", "scan", "reg_writes", "mem_writes", "opcode", "exec"}
       => ins \in instrumented

\* The lanes that are set are the first ones, so that a drain loop meets all.
SetLanesFirst ==
  \A x \in Array : \A j \in Lane : \A k \in 0 .. j :
    width[x][j] >= 0 => width[x][k] >= 0

\* What has been emptied before the call returns.
EmptiedInTime ==
  /\ pc \in {"mem_writes", "opcode", "exec"} => write_list = <<>>
  /\ pc \in {"opcode", "exec"} => mem_list = <<>>
  /\ pc = "exec" => NoWidth

\* Only cached rows have something to write back.
AllResident == Resident(execution) /\ Resident(memory) /\ Resident(opcodes)

\* What a checkpoint has written stays as it is until the checkpoint is over.
WrittenSoFar ==
  /\ pc \in {"age", "memory", "execution", "opcodes", "exited"} =>
       registers.fanout.stored = registers.fanout.rows
  /\ pc \in {"memory", "execution", "opcodes", "exited"} =>
       registers.age.stored = registers.age.rows
  /\ pc \in {"execution", "opcodes", "exited"} => Flushed(memory, MemKey)
  /\ pc \in {"opcodes", "exited"} => Flushed(execution, Addr)
  /\ pc = "exited" => Flushed(opcodes, Opcode)

IInv ==
  /\ TypeOK
  /\ Running
  /\ SetLanesFirst
  /\ EmptiedInTime
  /\ StaticsClean
  /\ AllResident
  /\ WrittenSoFar
  /\ NoExecutionLost

(***************************************************************************)
(* Facts about the constants and the data.                                 *)
(***************************************************************************)
LEMMA Sizes ==
  /\ LANES \in Nat /\ LANES > 0
  /\ Width \subseteq Nat
  /\ NoIns \notin Addr
BY SizesAssumption

\* A drain loop counts a number of lanes.
LEMMA SampleType ==
  ASSUME NEW f \in OpcodeField, width \in [Array -> [Lane -> Width \cup {-1}]]
  PROVE  Sample(f) \in Nat
<1>1. CASE f \in {<<"count", 0>>, <<"mem_count", 0>>}
  BY <1>1 DEF Sample
<1>2. CASE f \notin {<<"count", 0>>, <<"mem_count", 0>>}
  <2> DEFINE lanes == {j \in Drained(f[1]) : width[f[1]][j] = f[2]}
  <2>1. lanes \subseteq Lane
    BY DEF Drained
  <2>2. IsFiniteSet(Lane)
    BY Sizes, FS_Interval DEF Lane
  <2>3. IsFiniteSet(lanes)
    BY <2>1, <2>2, FS_Subset
  <2>4. Cardinality(lanes) \in Nat
    BY <2>3, FS_CardinalityType
  <2> QED
    BY <1>2, <2>4 DEF Sample
<1> QED
  BY <1>1, <1>2

\* A width is a natural number, and -1 stands for none.
LEMMA WidthValue == \A v \in Width \cup {-1} : v >= 0 \/ v = -1
BY Sizes

\* Widening keeps the type of the arrays, and the set lanes first.
LEMMA WidenKeeps ==
  ASSUME width \in [Array -> [Lane -> Width \cup {-1}]],
         NEW A, NEW n \in Nat, NEW w \in [Lane -> Width], Widen(A, n, w)
  PROVE  /\ width' \in [Array -> [Lane -> Width \cup {-1}]]
         /\ SetLanesFirst => SetLanesFirst'
<1>1. \A x \in Array, j \in Lane :
        width'[x][j] = IF x \in A /\ j < n THEN Larger(width[x][j], w[j])
                                          ELSE width[x][j]
  BY DEF Widen
<1>2. \A x \in Array, j \in Lane : width[x][j] \in Width \cup {-1} /\ w[j] \in Width
  OBVIOUS
<1>3. ASSUME NEW p \in Width \cup {-1}, NEW q \in Width
      PROVE  /\ Larger(p, q) \in Width
             /\ Larger(p, q) >= 0
  BY Sizes DEF Larger
<1>4. width' \in [Array -> [Lane -> Width \cup {-1}]]
  BY <1>2, <1>3 DEF Widen
<1>5. ASSUME SetLanesFirst, NEW x \in Array, NEW j \in Lane, NEW k \in 0 .. j,
             width'[x][j] >= 0
      PROVE  width'[x][k] >= 0
  <2>1. k \in Lane /\ k <= j /\ k \in Int /\ j \in Int
    BY Sizes DEF Lane
  <2>2. CASE x \in A /\ j < n
    <3>1. width'[x][k] = Larger(width[x][k], w[k])
      BY <1>1, <2>1, <2>2
    <3> QED
      BY <1>2, <1>3, <2>1, <3>1
  <2>3. CASE ~(x \in A /\ j < n)
    <3>1. width[x][j] >= 0
      BY <1>1, <1>5, <2>3
    <3>2. width[x][k] >= 0
      BY <1>5, <3>1 DEF SetLanesFirst
    <3>3. width'[x][k] = Larger(width[x][k], w[k]) \/ width'[x][k] = width[x][k]
      BY <1>1, <2>1
    <3> QED
      BY <1>2, <1>3, <2>1, <3>2, <3>3
  <2> QED
    BY <2>2, <2>3
<1> QED
  BY <1>4, <1>5 DEF SetLanesFirst

\* A drained array is one, with no lane set if the set lanes came first.
LEMMA DrainKeeps ==
  ASSUME width \in [Array -> [Lane -> Width \cup {-1}]],
         width' = [x \in Array |->
                     [j \in Lane |-> IF j \in Drained(x) THEN -1 ELSE width[x][j]]]
  PROVE  /\ width' \in [Array -> [Lane -> Width \cup {-1}]]
         /\ SetLanesFirst => NoWidth'
<1>1. width' \in [Array -> [Lane -> Width \cup {-1}]]
  OBVIOUS
<1>2. ASSUME SetLanesFirst, NEW x \in Array, NEW j \in Lane
      PROVE  width'[x][j] = -1
  <2>1. width[x][j] \in Width \cup {-1}
    OBVIOUS
  <2>2. CASE width[x][j] >= 0
    <3>1. \A k \in 0 .. j : width[x][k] >= 0
      BY <1>2, <2>2 DEF SetLanesFirst
    <3>2. j \in Drained(x)
      BY <3>1 DEF Drained
    <3> QED
      BY <3>2
  <2>3. CASE width[x][j] = -1
    BY <2>3
  <2>4. width[x][j] >= 0 \/ width[x][j] = -1
    BY <2>1, WidthValue, Zenon
  <2> QED
    BY <2>2, <2>3, <2>4
<1> QED
  BY <1>1, <1>2 DEF NoWidth

\* With no lane set, the set lanes come first.
LEMMA NoWidthFirst == NoWidth => SetLanesFirst
BY Sizes DEF NoWidth, SetLanesFirst, Lane

\* The register of an operand on_ins() is passed is one the tool numbers.
LEMMA ArgType ==
  ASSUME NEW a \in Addr, NEW n \in Nat \ {0}, n <= Len(Args(a)), Args(a)[n].kind = "reg"
  PROVE  reg_id(Args(a)[n].reg) \in RegId /\ Args(a)[n].dcount \in Nat
<1>1. n \in 1 .. Len(Args(a)) /\ LANES \in Nat
  BY ProgramAssumption, Sizes
<1>2. Args(a)[n].dcount \in 0 .. LANES /\ reg_id(Args(a)[n].reg) \in RegId
  BY <1>1, ProgramAssumption
<1> QED
  BY <1>1, <1>2

(***************************************************************************)
(* The invariant holds initially.                                          *)
(***************************************************************************)
LEMMA InitIInv == Init => IInv
<1> SUFFICES ASSUME Init PROVE IInv
  OBVIOUS
<1>1. TypeOK
  <2>1. /\ execution \in Store(Addr, ExecField)
        /\ memory \in Store(MemKey, MemField)
        /\ opcodes \in Store(Opcode, OpcodeField)
        /\ registers \in RegisterRecord
    BY EmptyStoreType, EmptyRegistersType, Zenon DEF Init
  <2>2. width \in [Array -> [Lane -> Width \cup {-1}]]
    BY DEF Init
  <2>3. image \in [cached : SUBSET Addr, stored : SUBSET Addr]
    BY DEF Init
  <2>4. /\ pc \in PC /\ i \in Nat \ {0} /\ ins \in Addr \cup {NoIns}
        /\ total \in Nat /\ instrumented \in SUBSET Addr /\ ran \in [Addr -> Nat]
    BY DEF Init, PC
  <2>5. write_list \in Seq(RegId) /\ mem_list \in Seq(MemAddr)
    BY DEF Init
  <2>6. is_mem \in BOOLEAN /\ first_ins \in BOOLEAN
    BY Zenon DEF Init
  <2> QED
    BY <2>1, <2>2, <2>3, <2>4, <2>5, <2>6, Zenon DEF TypeOK
<1>2. Running /\ EmptiedInTime /\ WrittenSoFar
  BY DEF Init, Running, EmptiedInTime, WrittenSoFar, Idle
<1>3. NoWidth
  BY DEF Init, NoWidth
<1>4. SetLanesFirst /\ StaticsClean
  BY <1>3, NoWidthFirst DEF Init, StaticsClean
<1>5. AllResident
  BY EmptyStoreType DEF Init, AllResident
<1>6. NoExecutionLost
  <2>1. SUFFICES ASSUME NEW a \in Addr
                 PROVE  Counted(execution, a, "count") = ran[a] - (IF ins = a THEN 1 ELSE 0)
    BY DEF NoExecutionLost
  <2>2. Counted(execution, a, "count") = 0
    BY EmptyStoreType DEF Init, ExecField
  <2> QED
    BY <2>2, Sizes DEF Init
<1> QED
  BY <1>1, <1>2, <1>4, <1>5, <1>6 DEF IInv

(***************************************************************************)
(* Every step keeps the types.                                             *)
(***************************************************************************)
LEMMA TypeNext == TypeOK /\ Running /\ [Next]_vars => TypeOK'
<1> SUFFICES ASSUME TypeOK, Running, [Next]_vars PROVE TypeOK'
  OBVIOUS
<1>t. /\ execution \in Store(Addr, ExecField)
      /\ memory \in Store(MemKey, MemField)
      /\ opcodes \in Store(Opcode, OpcodeField)
      /\ registers \in RegisterRecord
      /\ width \in [Array -> [Lane -> Width \cup {-1}]]
      /\ write_list \in Seq(RegId)
      /\ mem_list \in Seq(MemAddr)
      /\ i \in Nat \ {0}
      /\ total \in Nat
      /\ ins \in Addr \cup {NoIns}
      /\ instrumented \in SUBSET Addr
      /\ ran \in [Addr -> Nat]
      /\ image.cached \in SUBSET Addr
      /\ image.stored \in SUBSET Addr
  BY DEF TypeOK
<1>1. ASSUME NEW a \in Addr, instruction(a) PROVE TypeOK'
  <2>1. Prog[a].opcode \in Opcode
    BY <1>1, ProgramAssumption DEF instruction
  <2>2. opcodes' \in Store(Opcode, OpcodeField)
    BY <1>1, <1>t, <2>1, GetKeeps DEF instruction
  <2>3. PICK E \in Victims(image.cached, a, IMAGE_CACHE) :
          image' = ImageUpdate(image, a, E)
    BY <1>1 DEF instruction
  <2>4. image' \in [cached : SUBSET Addr, stored : SUBSET Addr]
    BY <1>t, <2>3, VictimsCached DEF ImageUpdate
  <2>5. instrumented' \in SUBSET Addr
    BY <1>1, <1>t DEF instruction
  <2> QED
    BY <1>1, <2>2, <2>4, <2>5 DEF instruction, TypeOK, locals, statics
<1>2. ASSUME NEW a \in Addr, on_ins(a) PROVE TypeOK'
  <2>1. pc' \in PC
    BY <1>2 DEF on_ins, AfterCheckpoint, PC
  <2>2. ran' \in [Addr -> Nat]
    BY <1>2, <1>t DEF on_ins
  <2> QED
    BY <1>2, <2>1, <2>2 DEF on_ins, TypeOK, statics, tables
<1>3. CASE SaveFanout
  <2>1. registers' \in RegisterRecord
    BY <1>3, <1>t, RecordParts, FinishTableType DEF SaveFanout, RegisterRecord
  <2> QED
    BY <1>3, <2>1 DEF SaveFanout, TypeOK, PC, locals, statics
<1>4. CASE SaveAge
  <2>1. registers' \in RegisterRecord
    BY <1>4, <1>t, RecordParts, FinishTableType DEF SaveAge, RegisterRecord
  <2> QED
    BY <1>4, <2>1 DEF SaveAge, TypeOK, PC, locals, statics
<1>5. CASE SaveMemory
  <2>1. memory' \in Store(MemKey, MemField)
    BY <1>5, <1>t, EvictType DEF SaveMemory, Save
  <2> QED
    BY <1>5, <2>1 DEF SaveMemory, TypeOK, PC, locals, statics
<1>6. CASE SaveExecution
  <2>1. execution' \in Store(Addr, ExecField)
    BY <1>6, <1>t, EvictType DEF SaveExecution, Save
  <2> QED
    BY <1>6, <2>1 DEF SaveExecution, TypeOK, PC, locals, statics
<1>7. CASE SaveOpcodes
  <2>1. opcodes' \in Store(Opcode, OpcodeField)
    BY <1>7, <1>t, EvictType DEF SaveOpcodes, Save
  <2>2. pc' \in PC
    BY <1>7 DEF SaveOpcodes, AfterCheckpoint, PC
  <2> QED
    BY <1>7, <2>1, <2>2 DEF SaveOpcodes, TypeOK, locals, statics
<1>8. CASE SaveImage
  <2>1. image' \in [cached : SUBSET Addr, stored : SUBSET Addr]
    BY <1>8, <1>t DEF SaveImage
  <2> QED
    BY <1>8, <2>1 DEF SaveImage, TypeOK, PC, locals
<1>9. CASE ScanRegister
  <2>1. ins \in Addr /\ Arg.kind = "reg" /\ i <= Len(Args(ins)) /\ i' = i + 1
    BY <1>9, <1>t DEF ScanRegister, Scanning, Running
  <2>2. reg_id(Arg.reg) \in RegId /\ Arg.dcount \in Nat
    BY <1>t, <2>1, ArgType DEF Arg
  <2>3. width' \in [Array -> [Lane -> Width \cup {-1}]] /\ registers' \in RegisterRecord
    <3>1. CASE Arg.read
      <4>1. registers' \in RegisterRecord
        BY <1>9, <1>t, <2>2, <3>1, RegisterReadType DEF ScanRegister
      <4>2. width' \in [Array -> [Lane -> Width \cup {-1}]]
        BY <1>9, <1>t, <2>2, <3>1, WidenKeeps DEF ScanRegister
      <4> QED
        BY <4>1, <4>2
    <3>2. CASE ~Arg.read
      BY <1>9, <1>t, <3>2 DEF ScanRegister
    <3> QED
      BY <3>1, <3>2
  <2>4. write_list' \in Seq(RegId)
    BY <1>9, <1>t, <2>2 DEF ScanRegister, WriteId
  <2> QED
    BY <1>9, <1>t, <2>1, <2>3, <2>4 DEF ScanRegister, TypeOK
<1>10. CASE ScanImmediate
  <2>1. width' \in [Array -> [Lane -> Width \cup {-1}]]
    BY <1>10, <1>t, WidenKeeps DEF ScanImmediate
  <2> QED
    BY <1>10, <1>t, <2>1 DEF ScanImmediate, Scanning, TypeOK, tables
<1>11. CASE ScanMemory
  <2>1. ins \in Addr /\ i' = i + 1
    BY <1>11, <1>t DEF ScanMemory, Scanning, Running
  <2>2. PICK m \in MemAddr :
          /\ IF Arg.read
             THEN /\ \E E \in Victims(memory.cached, <<ins, m>>, MEMORY_CACHE) :
                       memory' = Bump(Get(memory, <<ins, m>>, E), <<ins, m>>, "read")
                  /\ \E w \in [Lane -> Width] : Widen({"int"}, 1, w)
             ELSE UNCHANGED <<memory, width>>
          /\ mem_list' = IF Arg.write THEN Append(mem_list, m) ELSE mem_list
    BY <1>11 DEF ScanMemory
  <2>3. <<ins, m>> \in MemKey
    BY <2>1 DEF MemKey
  <2>4. memory' \in Store(MemKey, MemField)
        /\ width' \in [Array -> [Lane -> Width \cup {-1}]]
    <3>1. CASE Arg.read
      <4>1. memory' \in Store(MemKey, MemField)
        BY <1>t, <2>2, <2>3, <3>1, GetKeeps, BumpCounts DEF MemField
      <4>2. width' \in [Array -> [Lane -> Width \cup {-1}]]
        BY <1>t, <2>2, <3>1, WidenKeeps
      <4> QED
        BY <4>1, <4>2
    <3>2. CASE ~Arg.read
      BY <1>t, <2>2, <3>2
    <3> QED
      BY <3>1, <3>2
  <2>5. mem_list' \in Seq(MemAddr)
    BY <1>t, <2>2
  <2>6. is_mem' \in BOOLEAN
    BY <1>11, Zenon DEF ScanMemory
  <2> QED
    BY <1>11, <1>t, <2>1, <2>4, <2>5, <2>6 DEF ScanMemory, Scanning, TypeOK
<1>12. CASE ScanDone
  BY <1>12 DEF ScanDone, TypeOK, PC, statics, tables
<1>13. CASE WriteRegister
  <2>1. write_list[i] \in RegId
    BY <1>13, <1>t DEF WriteRegister
  <2>2. registers' \in RegisterRecord
    BY <1>13, <1>t, <2>1, RegisterWriteType DEF WriteRegister
  <2> QED
    BY <1>13, <1>t, <2>2 DEF WriteRegister, TypeOK, statics
<1>14. CASE RegistersWritten
  BY <1>14 DEF RegistersWritten, clear, TypeOK, PC, tables
<1>15. CASE WriteMemory
  <2>1. ins \in Addr /\ mem_list[i] \in MemAddr
    BY <1>15, <1>t DEF WriteMemory, Running
  <2>2. <<ins, mem_list[i]>> \in MemKey
    BY <2>1 DEF MemKey
  <2>3. memory' \in Store(MemKey, MemField)
    BY <1>15, <1>t, <2>2, GetKeeps, BumpCounts DEF WriteMemory, MemField
  <2> QED
    BY <1>15, <1>t, <2>3 DEF WriteMemory, TypeOK, statics
<1>16. CASE MemoryWritten
  BY <1>16 DEF MemoryWritten, clear, TypeOK, PC, tables
<1>17. CASE CountOpcode
  <2>1. Prog[ins].opcode \in Opcode
    BY <1>17 DEF CountOpcode, Running
  <2>2. [f \in OpcodeField |-> Sample(f)] \in [OpcodeField -> Nat]
    BY <1>t, SampleType
  <2>3. opcodes' \in Store(Opcode, OpcodeField)
    BY <1>17, <1>t, <2>1, <2>2, GetKeeps, AddKeeps DEF CountOpcode
  <2>4. width' \in [Array -> [Lane -> Width \cup {-1}]]
    BY <1>17, <1>t, DrainKeeps DEF CountOpcode
  <2> QED
    BY <1>17, <2>3, <2>4 DEF CountOpcode, TypeOK, PC, locals
<1>18. CASE exec
  <2>1. ins \in Addr
    BY <1>18, <1>t DEF exec, Running
  <2>2. execution' \in Store(Addr, ExecField)
    BY <1>18, <1>t, <2>1, GetKeeps, BumpCounts DEF exec, ExecField
  <2>3. pc' \in PC /\ ins' \in Addr \cup {NoIns} /\ total' \in Nat
    BY <1>18, <1>t DEF exec, PC
  <2>4. is_mem' \in BOOLEAN
    BY <1>18, Zenon DEF exec
  <2> QED
    BY <1>18, <2>2, <2>3, <2>4 DEF exec, TypeOK, statics
<1>19. CASE on_finish \/ handle_signal \/ Kill
  <2>1. pc' \in PC
    BY <1>19 DEF on_finish, handle_signal, Kill, PC
  <2> QED
    BY <1>19, <2>1 DEF on_finish, handle_signal, Kill, TypeOK, locals, statics, tables
<1>20. CASE UNCHANGED vars
  BY <1>20 DEF vars, locals, statics, tables, TypeOK
<1> QED
  BY <1>1, <1>2, <1>3, <1>4, <1>5, <1>6, <1>7, <1>8, <1>9, <1>10, <1>11, <1>12,
     <1>13, <1>14, <1>15, <1>16, <1>17, <1>18, <1>19, <1>20
  DEF Next, Application, Handler, Checkpoint, Scan

(***************************************************************************)
(* Every step keeps the other parts of the invariant.                      *)
(***************************************************************************)
LEMMA RunningNext == TypeOK /\ Running /\ [Next]_vars => Running'
<1> SUFFICES ASSUME TypeOK, Running, [Next]_vars PROVE Running'
  OBVIOUS
<1>t. NoIns \notin instrumented
  BY Sizes DEF TypeOK
<1>1. ASSUME NEW a \in Addr, instruction(a) PROVE Running'
  <2>1. Prog[a].opcode \in Opcode
    BY <1>1, ProgramAssumption DEF instruction
  <2> QED
    BY <1>1, <2>1 DEF instruction, Running, Idle, locals
<1>2. ASSUME NEW a \in Addr, on_ins(a) PROVE Running'
  BY <1>2 DEF on_ins, AfterCheckpoint, Running
<1>3. CASE Checkpoint
  BY <1>3, <1>t DEF Checkpoint, SaveFanout, SaveAge, SaveMemory, SaveExecution,
     SaveOpcodes, AfterCheckpoint, Running, Idle, locals
<1>4. CASE SaveImage
  BY <1>4 DEF SaveImage, Running, locals
<1>5. CASE Scan
  BY <1>5 DEF Scan, ScanRegister, ScanImmediate, ScanMemory, ScanDone, Scanning,
     Running
<1>6. CASE WriteRegister \/ RegistersWritten \/ WriteMemory \/ MemoryWritten
  BY <1>6 DEF WriteRegister, RegistersWritten, WriteMemory, MemoryWritten, Running
<1>7. CASE CountOpcode
  BY <1>7 DEF CountOpcode, Running, locals
<1>8. CASE exec
  BY <1>8 DEF exec, Running, Idle
<1>9. CASE on_finish \/ handle_signal \/ Kill
  BY <1>9 DEF on_finish, handle_signal, Kill, Running, locals
<1>10. CASE UNCHANGED vars
  BY <1>10 DEF vars, locals, Running, Idle
<1> QED
  BY <1>1, <1>2, <1>3, <1>4, <1>5, <1>6, <1>7, <1>8, <1>9, <1>10
  DEF Next, Application, Handler

\* The width arrays and the lists.
LEMMA StaticsNext ==
  /\ TypeOK /\ Running /\ SetLanesFirst /\ EmptiedInTime /\ StaticsClean
  /\ [Next]_vars
  => SetLanesFirst' /\ EmptiedInTime' /\ StaticsClean'
<1> SUFFICES ASSUME TypeOK, Running, SetLanesFirst, EmptiedInTime, StaticsClean,
                    [Next]_vars
             PROVE  SetLanesFirst' /\ EmptiedInTime' /\ StaticsClean'
  OBVIOUS
<1>t. /\ width \in [Array -> [Lane -> Width \cup {-1}]]
      /\ NoIns \notin instrumented
      /\ i \in Nat \ {0}
  BY Sizes DEF TypeOK
<1>1. ASSUME NEW a \in Addr, instruction(a)
      PROVE  SetLanesFirst' /\ EmptiedInTime' /\ StaticsClean'
  BY <1>1 DEF instruction, SetLanesFirst, EmptiedInTime, StaticsClean, NoWidth,
     Idle, statics, locals
<1>2. ASSUME NEW a \in Addr, on_ins(a)
      PROVE  SetLanesFirst' /\ EmptiedInTime' /\ StaticsClean'
  BY <1>2, Sizes DEF on_ins, AfterCheckpoint, SetLanesFirst, EmptiedInTime,
     StaticsClean, Idle, statics
<1>3. CASE Checkpoint
  BY <1>3 DEF Checkpoint, SaveFanout, SaveAge, SaveMemory, SaveExecution,
     SaveOpcodes, AfterCheckpoint, SetLanesFirst, EmptiedInTime, StaticsClean,
     NoWidth, Idle, statics, locals
<1>4. CASE SaveImage
  BY <1>4 DEF SaveImage, SetLanesFirst, EmptiedInTime, StaticsClean, NoWidth, Idle,
     locals
<1>5. CASE Scan
  <2>1. ins \in instrumented /\ ins' = ins /\ pc' \in {"scan", "reg_writes"}
    BY <1>5 DEF Scan, ScanRegister, ScanImmediate, ScanMemory, ScanDone, Scanning,
       Running
  <2>2. EmptiedInTime' /\ StaticsClean'
    BY <1>t, <2>1 DEF EmptiedInTime, StaticsClean, Idle
  <2>3. CASE ScanRegister
    <3>1. CASE Arg.read
      <4>1. i <= Len(Args(ins)) /\ Arg.kind = "reg" /\ ins \in Addr
        BY <2>1, <2>3 DEF ScanRegister, Scanning, TypeOK
      <4>2. Arg.dcount \in Nat
        BY <1>t, <4>1, ArgType DEF Arg
      <4> QED
        BY <1>t, <2>2, <2>3, <3>1, <4>2, WidenKeeps DEF ScanRegister
    <3>2. CASE ~Arg.read
      BY <2>2, <2>3, <3>2 DEF ScanRegister, SetLanesFirst
    <3> QED
      BY <3>1, <3>2
  <2>4. CASE ScanImmediate
    BY <1>t, <2>2, <2>4, WidenKeeps DEF ScanImmediate
  <2>5. CASE ScanMemory
    <3>1. (\E w \in [Lane -> Width] : Widen({"int"}, 1, w)) \/ width' = width
      BY <2>5 DEF ScanMemory
    <3> QED
      BY <1>t, <2>2, <3>1, WidenKeeps DEF SetLanesFirst
  <2>6. CASE ScanDone
    BY <2>2, <2>6 DEF ScanDone, SetLanesFirst, statics
  <2> QED
    BY <1>5, <2>2, <2>3, <2>4, <2>5, <2>6 DEF Scan
<1>6. CASE WriteRegister \/ RegistersWritten \/ WriteMemory \/ MemoryWritten
  <2>1. width' = width /\ ins' = ins /\ ins \in instrumented
    BY <1>6 DEF WriteRegister, RegistersWritten, WriteMemory, MemoryWritten, Running,
       statics
  <2>2. EmptiedInTime'
    BY <1>6 DEF WriteRegister, RegistersWritten, WriteMemory, MemoryWritten,
       EmptiedInTime, clear, statics
  <2> QED
    BY <1>t, <2>1, <2>2 DEF SetLanesFirst, StaticsClean, Idle
<1>7. CASE CountOpcode
  <2>1. NoWidth'
    BY <1>7, <1>t, DrainKeeps DEF CountOpcode
  <2>2. SetLanesFirst'
    BY <2>1, Sizes DEF NoWidth, SetLanesFirst, Lane
  <2>3. EmptiedInTime'
    BY <1>7, <2>1 DEF CountOpcode, EmptiedInTime
  <2>4. StaticsClean'
    BY <1>7, <1>t DEF CountOpcode, StaticsClean, Idle, Running, locals
  <2> QED
    BY <2>2, <2>3, <2>4
<1>8. CASE exec
  BY <1>8 DEF exec, SetLanesFirst, EmptiedInTime, StaticsClean, NoWidth, statics
<1>9. CASE on_finish \/ handle_signal \/ Kill
  BY <1>9 DEF on_finish, handle_signal, Kill, SetLanesFirst, EmptiedInTime,
     StaticsClean, NoWidth, Idle, statics, locals
<1>10. CASE UNCHANGED vars
  BY <1>10 DEF vars, statics, locals, SetLanesFirst, EmptiedInTime, StaticsClean,
     NoWidth, Idle
<1> QED
  BY <1>1, <1>2, <1>3, <1>4, <1>5, <1>6, <1>7, <1>8, <1>9, <1>10
  DEF Next, Application, Handler

\* The stores.
LEMMA ResidentNext == TypeOK /\ Running /\ AllResident /\ [Next]_vars => AllResident'
<1> SUFFICES ASSUME TypeOK, Running, AllResident, [Next]_vars PROVE AllResident'
  OBVIOUS
<1>t. /\ execution \in Store(Addr, ExecField) /\ Resident(execution)
      /\ memory \in Store(MemKey, MemField) /\ Resident(memory)
      /\ opcodes \in Store(Opcode, OpcodeField) /\ Resident(opcodes)
      /\ instrumented \in SUBSET Addr
      /\ mem_list \in Seq(MemAddr)
      /\ i \in Nat \ {0}
  BY DEF TypeOK, AllResident
<1>1. ASSUME NEW a \in Addr, instruction(a) PROVE AllResident'
  <2>1. Prog[a].opcode \in Opcode
    BY <1>1, ProgramAssumption DEF instruction
  <2> QED
    BY <1>1, <1>t, <2>1, GetKeeps DEF instruction, AllResident
<1>2. CASE \/ SaveMemory \/ SaveExecution \/ SaveOpcodes
  BY <1>2, <1>t, SaveFlushes DEF SaveMemory, SaveExecution, SaveOpcodes, AllResident
<1>3. CASE ScanMemory
  <2>1. ins \in Addr
    BY <1>3, <1>t DEF ScanMemory, Scanning, Running
  <2>2. CASE memory' = memory
    BY <1>3, <1>t, <2>2 DEF ScanMemory, AllResident
  <2>3. ASSUME NEW m \in MemAddr, NEW E,
               memory' = Bump(Get(memory, <<ins, m>>, E), <<ins, m>>, "read")
        PROVE  AllResident'
    <3>1. <<ins, m>> \in MemKey
      BY <2>1 DEF MemKey
    <3>2. Resident(memory')
      BY <1>t, <2>3, <3>1, GetKeeps, BumpCounts DEF MemField
    <3> QED
      BY <1>3, <1>t, <3>2 DEF ScanMemory, AllResident
  <2> QED
    BY <1>3, <2>2, <2>3 DEF ScanMemory
<1>4. CASE WriteMemory
  <2>1. <<ins, mem_list[i]>> \in MemKey
    BY <1>4, <1>t DEF WriteMemory, Running, MemKey
  <2>2. Resident(memory')
    BY <1>4, <1>t, <2>1, GetKeeps, BumpCounts DEF WriteMemory, MemField
  <2> QED
    BY <1>4, <1>t, <2>2 DEF WriteMemory, AllResident
<1>5. CASE CountOpcode
  <2>1. Prog[ins].opcode \in Opcode
    BY <1>5 DEF CountOpcode, Running
  <2>2. [f \in OpcodeField |-> Sample(f)] \in [OpcodeField -> Nat]
    BY SampleType DEF TypeOK
  <2>3. Resident(opcodes')
    BY <1>5, <1>t, <2>1, <2>2, GetKeeps, AddKeeps DEF CountOpcode
  <2> QED
    BY <1>5, <1>t, <2>3 DEF CountOpcode, AllResident
<1>6. CASE exec
  <2>1. ins \in Addr
    BY <1>6, <1>t DEF exec, Running
  <2>2. Resident(execution')
    BY <1>6, <1>t, <2>1, GetKeeps, BumpCounts DEF exec, ExecField
  <2> QED
    BY <1>6, <1>t, <2>2 DEF exec, AllResident
<1>7. CASE UNCHANGED <<execution, memory, opcodes>>
  BY <1>7 DEF AllResident
<1>8. CASE \/ \E a \in Addr : on_ins(a)
           \/ SaveFanout \/ SaveAge \/ SaveImage
           \/ ScanRegister \/ ScanImmediate \/ ScanDone
           \/ WriteRegister \/ RegistersWritten \/ MemoryWritten
           \/ on_finish \/ handle_signal \/ Kill
           \/ UNCHANGED vars
  BY <1>7, <1>8 DEF on_ins, SaveFanout, SaveAge, SaveImage, ScanRegister,
     ScanImmediate, ScanDone, WriteRegister, RegistersWritten, MemoryWritten,
     on_finish, handle_signal, Kill, vars, tables
<1> QED
  BY <1>1, <1>2, <1>3, <1>4, <1>5, <1>6, <1>8
  DEF Next, Application, Handler, Checkpoint, Scan

\* The checkpoint.
LEMMA WrittenNext ==
  TypeOK /\ Running /\ AllResident /\ WrittenSoFar /\ [Next]_vars => WrittenSoFar'
<1> SUFFICES ASSUME TypeOK, Running, AllResident, WrittenSoFar, [Next]_vars
             PROVE  WrittenSoFar'
  OBVIOUS
<1>t. /\ execution \in Store(Addr, ExecField) /\ Resident(execution)
      /\ memory \in Store(MemKey, MemField) /\ Resident(memory)
      /\ opcodes \in Store(Opcode, OpcodeField) /\ Resident(opcodes)
      /\ registers \in RegisterRecord
      /\ registers.fanout \in Table /\ registers.age \in Table
  BY DEF TypeOK, AllResident, RegisterRecord
<1>1. CASE SaveFanout
  <2>1. registers'.fanout.stored = registers'.fanout.rows
    BY <1>1, <1>t, RecordParts, FinishTableType DEF SaveFanout
  <2> QED
    BY <1>1, <2>1 DEF SaveFanout, WrittenSoFar
<1>2. CASE SaveAge
  <2>1. registers' = [regs |-> registers.regs, fanout |-> registers.fanout,
                      age |-> FinishTable(registers.age)]
    BY <1>2, <1>t, RecordParts DEF SaveAge
  <2> QED
    BY <1>2, <1>t, <2>1, FinishTableType DEF SaveAge, WrittenSoFar
<1>3. CASE SaveMemory
  BY <1>3, <1>t, SaveFlushes DEF SaveMemory, WrittenSoFar
<1>4. CASE SaveExecution
  BY <1>4, <1>t, SaveFlushes DEF SaveExecution, WrittenSoFar
<1>5. CASE SaveOpcodes
  BY <1>5, <1>t, SaveFlushes DEF SaveOpcodes, AfterCheckpoint, WrittenSoFar
<1>6. CASE pc' \notin {"age", "memory", "execution", "opcodes", "exited"}
  BY <1>6 DEF WrittenSoFar
<1>7. CASE \/ \E a \in Addr : instruction(a) \/ on_ins(a)
           \/ SaveImage \/ Scan
           \/ WriteRegister \/ RegistersWritten \/ WriteMemory \/ MemoryWritten
           \/ CountOpcode \/ exec \/ on_finish \/ handle_signal \/ Kill
  BY <1>6, <1>7 DEF instruction, on_ins, AfterCheckpoint, SaveImage, Scan,
     ScanRegister, ScanImmediate, ScanMemory, ScanDone, Scanning, WriteRegister,
     RegistersWritten, WriteMemory, MemoryWritten, CountOpcode, exec, on_finish,
     handle_signal, Kill
<1>8. CASE UNCHANGED vars
  BY <1>8 DEF vars, tables, WrittenSoFar
<1> QED
  BY <1>1, <1>2, <1>3, <1>4, <1>5, <1>7, <1>8
  DEF Next, Application, Handler, Checkpoint

\* The executions.
LEMMA ExecutionNext ==
  TypeOK /\ Running /\ NoExecutionLost /\ [Next]_vars => NoExecutionLost'
<1> SUFFICES ASSUME TypeOK, Running, NoExecutionLost, [Next]_vars,
                    NEW a \in Addr
             PROVE  Counted(execution', a, "count")
                      = ran'[a] - (IF ins' = a THEN 1 ELSE 0)
  BY DEF NoExecutionLost
<1>t. /\ execution \in Store(Addr, ExecField)
      /\ ran \in [Addr -> Nat] /\ ran[a] \in Nat
      /\ "count" \in ExecField
      /\ NoIns \notin Addr
  BY Sizes DEF TypeOK, ExecField
<1>c. Counted(execution, a, "count") = ran[a] - (IF ins = a THEN 1 ELSE 0)
  BY DEF NoExecutionLost
<1>1. ASSUME NEW b \in Addr, on_ins(b)
      PROVE  Counted(execution', a, "count") = ran'[a] - (IF ins' = a THEN 1 ELSE 0)
  <2>1. execution' = execution /\ ins' = b /\ ins = NoIns
    BY <1>1 DEF on_ins, tables, Running, Idle
  <2>2. ran'[a] = IF a = b THEN ran[a] + 1 ELSE ran[a]
    BY <1>1, <1>t DEF on_ins
  <2> QED
    BY <1>t, <1>c, <2>1, <2>2
<1>2. CASE SaveExecution
  <2>1. Counted(execution', a, "count") = Counted(execution, a, "count")
    BY <1>2, <1>t, EvictCounted DEF SaveExecution, Save
  <2> QED
    BY <1>2, <1>c, <2>1 DEF SaveExecution, locals
<1>3. CASE exec
  <2>1. ins \in Addr /\ ins' = NoIns /\ ran' = ran
    BY <1>3 DEF exec, Running, TypeOK
  <2>2. PICK E \in Victims(execution.cached, ins, EXECUTION_CACHE) :
          execution' = Bump(Get(execution, ins, E), ins, "count")
    BY <1>3 DEF exec
  <2> DEFINE got == Get(execution, ins, E)
  <2>3. /\ got \in Store(Addr, ExecField)
        /\ Counted(got, a, "count") = Counted(execution, a, "count")
    BY <1>t, <2>1, GetKeeps
  <2> HIDE DEF got
  <2>4. Counted(Bump(got, ins, "count"), a, "count")
          = Counted(got, a, "count") + (IF a = ins /\ "count" = "count" THEN 1 ELSE 0)
    BY <1>t, <2>1, <2>3, BumpCounts
  <2>5. execution' = Bump(got, ins, "count")
    BY <2>2 DEF got
  <2> QED
    BY <1>t, <1>c, <2>1, <2>3, <2>4, <2>5
<1>4. CASE UNCHANGED <<execution, ran, ins>>
  BY <1>4, <1>c
<1>5. CASE \/ \E b \in Addr : instruction(b)
           \/ SaveFanout \/ SaveAge \/ SaveMemory \/ SaveOpcodes \/ SaveImage
           \/ Scan
           \/ WriteRegister \/ RegistersWritten \/ WriteMemory \/ MemoryWritten
           \/ CountOpcode \/ on_finish \/ handle_signal \/ Kill
           \/ UNCHANGED vars
  BY <1>4, <1>5 DEF instruction, SaveFanout, SaveAge, SaveMemory, SaveOpcodes,
     SaveImage, Scan, ScanRegister, ScanImmediate, ScanMemory, ScanDone,
     WriteRegister, RegistersWritten, WriteMemory, MemoryWritten, CountOpcode,
     on_finish, handle_signal, Kill, vars, tables, locals
<1> QED
  BY <1>1, <1>2, <1>3, <1>5 DEF Next, Application, Handler, Checkpoint

LEMMA NextIInv == IInv /\ [Next]_vars => IInv'
BY TypeNext, RunningNext, StaticsNext, ResidentNext, WrittenNext, ExecutionNext
   DEF IInv

\* A process that has exited has flushed every store.
LEMMA IInvExit == IInv => ExitComplete
<1> SUFFICES ASSUME IInv, pc = "exited" PROVE ExitComplete
  BY DEF ExitComplete
<1>1. /\ execution \in Store(Addr, ExecField) /\ ran \in [Addr -> Nat]
      /\ ins \notin Addr
      /\ NoExecutionLost
      /\ Flushed(execution, Addr) /\ Flushed(memory, MemKey) /\ Flushed(opcodes, Opcode)
      /\ registers.fanout.stored = registers.fanout.rows
      /\ registers.age.stored = registers.age.rows
  BY Sizes DEF IInv, TypeOK, Running, Idle, WrittenSoFar
<1>2. ASSUME NEW a \in Addr PROVE execution.stored[a]["count"] = ran[a]
  <2>1. execution.stored[a]["count"] = Counted(execution, a, "count")
    BY <1>1, FlushedStored DEF ExecField
  <2> QED
    BY <1>1, <2>1 DEF NoExecutionLost
<1> QED
  BY <1>1, <1>2 DEF ExitComplete

(***************************************************************************)
(* The theorems.                                                           *)
(***************************************************************************)
\* The invariant is one.
LEMMA Invariant == Spec => []IInv
BY InitIInv, NextIInv, PTL DEF Spec

\* Every variable keeps its type.
THEOREM Typing == Spec => []TypeOK
<1>1. IInv => TypeOK
  BY DEF IInv
<1> QED
  BY Invariant, <1>1, PTL

\* on_ins() leaves nothing in its static lists and arrays for the next call.
THEOREM StaticsStayClean == Spec => []StaticsClean
<1>1. IInv => StaticsClean
  BY DEF IInv
<1> QED
  BY Invariant, <1>1, PTL

\* No execution is lost or counted twice between the cache and the file.
THEOREM ExecutionsKept == Spec => []NoExecutionLost
<1>1. IInv => NoExecutionLost
  BY DEF IInv
<1> QED
  BY Invariant, <1>1, PTL

\* A process that exits by on_finish() has written every count.
THEOREM ExitWritesAll == Spec => []ExitComplete
BY Invariant, IInvExit, PTL

(***************************************************************************)
(* The end of the process, as Profile sees it.                             *)
(***************************************************************************)
Closes == pc = "opcodes" /\ pc' = "exited"
Dies == Status = "open" /\ Status' = "killed"
Runs == Status = "open" /\ Status' = "open"

\* SaveOpcodes closes the tables when on_finish() is running; a signal or a
\* kill leaves them as they are; all other steps are those of a process that
\* runs.
LEMMA StatusSteps ==
  ASSUME TypeOK, [Next]_vars
  PROVE  \/ Runs
         \/ Closes /\ SaveOpcodes
         \/ Dies /\ (handle_signal \/ Kill)
         \/ UNCHANGED vars
<1> USE DEF Status, Runs, Closes, Dies
<1>1. CASE \E a \in Addr : instruction(a) \/ on_ins(a)
  BY <1>1 DEF instruction, on_ins, AfterCheckpoint
<1>2. CASE SaveFanout \/ SaveAge \/ SaveMemory \/ SaveExecution \/ SaveImage
  BY <1>2 DEF SaveFanout, SaveAge, SaveMemory, SaveExecution, SaveImage
<1>3. CASE SaveOpcodes
  BY <1>3 DEF SaveOpcodes, AfterCheckpoint
<1>4. CASE Scan
  BY <1>4 DEF Scan, ScanRegister, ScanImmediate, ScanMemory, ScanDone, Scanning
<1>5. CASE WriteRegister \/ RegistersWritten \/ WriteMemory \/ MemoryWritten
  BY <1>5 DEF WriteRegister, RegistersWritten, WriteMemory, MemoryWritten
<1>6. CASE CountOpcode \/ exec \/ on_finish
  BY <1>6 DEF CountOpcode, exec, on_finish
<1>7. CASE handle_signal \/ Kill
  BY <1>7 DEF handle_signal, Kill
<1>8. QED
  BY <1>1, <1>2, <1>3, <1>4, <1>5, <1>6, <1>7
     DEF Next, Application, Handler, Checkpoint

(***************************************************************************)
(* Counters as functions.                                                  *)
(***************************************************************************)
\* A row of the file is either brought up to date or left.
LEMMA Updated ==
  ASSUME NEW S, NEW now \in [S -> Nat], NEW old \in [S -> Nat],
         NEW new \in [S -> Nat], NEW E,
         \A k \in S : new[k] = IF k \in E THEN now[k] ELSE old[k]
  PROVE  new = [k \in S |-> IF k \in E THEN now[k] ELSE old[k]]
OBVIOUS

\* One counter grows by one.
LEMMA Incremented ==
  ASSUME NEW S, NEW old \in [S -> Nat], NEW new \in [S -> Nat], NEW key \in S,
         \A k \in S : new[k] = old[k] + (IF k = key THEN 1 ELSE 0)
  PROVE  new = [old EXCEPT ![key] = @ + 1]
OBVIOUS

(***************************************************************************)
(* instrs.tbl.                                                             *)
(***************************************************************************)
\* Only the checkpoint and exec() change it.
LEMMA ExecutionSteps ==
  ASSUME [Next]_vars
  PROVE  SaveExecution \/ exec \/ execution' = execution
BY DEF Next, Application, Handler, Checkpoint, Scan, instruction, on_ins,
       SaveFanout, SaveAge, SaveMemory, SaveOpcodes, SaveImage, ScanRegister,
       ScanImmediate, ScanMemory, ScanDone, WriteRegister, RegistersWritten,
       WriteMemory, MemoryWritten, CountOpcode, on_finish, handle_signal, Kill,
       vars, tables

\* A step of the tool is a step of the profile by address, or none.
LEMMA ByAddressNext ==
  ASSUME IInv, IInv', [Next]_vars
  PROVE  ByAddress!Next \/ UNCHANGED ByAddress!vars
<1>t. /\ TypeOK /\ "count" \in ExecField
      /\ execution \in Store(Addr, ExecField)
      /\ execution' \in Store(Addr, ExecField)
  BY DEF IInv, TypeOK, ExecField
<1>c. /\ Executions \in [Addr -> Nat] /\ Executions' \in [Addr -> Nat]
      /\ ExecutionFile \in [Addr -> Nat] /\ ExecutionFile' \in [Addr -> Nat]
  BY <1>t DEF Executions, ExecutionFile, Store, Counted
<1>1. CASE execution' = execution /\ Status' = Status
  BY <1>1 DEF Executions, ExecutionFile, ByAddress!vars
<1>2. CASE execution' = execution /\ Dies
  BY <1>2 DEF Executions, ExecutionFile, Dies, ByAddress!Next, ByAddress!Kill
<1>3. CASE execution' = execution /\ Closes
  <2>1. \A a \in Addr : execution.stored[a]["count"] = Counted(execution, a, "count")
    BY <1>t, <1>3, FlushedStored DEF Closes, IInv, WrittenSoFar
  <2>2. ByAddress!Close
    BY <1>3, <2>1 DEF Executions, ExecutionFile, Closes, Status, ByAddress!Close, ByAddress!Update
  <2>3. QED
    BY <2>2 DEF ByAddress!Next
<1>4. CASE SaveExecution
  <2>1. execution' = Evict(execution, execution.cached) /\ Runs
    BY <1>4 DEF SaveExecution, Save, Runs, Status
  <2>2. Executions' = Executions
    BY <1>t, <2>1, EvictCounted DEF Executions
  <2>3. execution.cached \in SUBSET Addr
    BY <1>t DEF Store
  <2>4. \A a \in Addr :
          ExecutionFile'[a] =
            IF a \in execution.cached THEN Executions[a] ELSE ExecutionFile[a]
    BY <1>t, <2>1, EvictFile DEF Executions, ExecutionFile
  <2>5. ExecutionFile' =
          [a \in Addr |-> IF a \in execution.cached THEN Executions[a]
                                                    ELSE ExecutionFile[a]]
    BY <1>c, <2>4, Updated
  <2>6. ByAddress!WriteBack
    BY <2>1, <2>2, <2>3, <2>5
       DEF Executions, ExecutionFile, Runs, ByAddress!WriteBack, ByAddress!Update
  <2>7. QED
    BY <2>6 DEF ByAddress!Next
<1>5. ASSUME exec, NEW b \in Addr, b = ins
      PROVE  ByAddress!Next
  <2>1. PICK E \in Victims(execution.cached, b, EXECUTION_CACHE) :
          execution' = Bump(Get(execution, b, E), b, "count")
    BY <1>5 DEF exec
  <2>2. E \in SUBSET Addr /\ Runs
    BY <1>5, <1>t, <2>1, VictimsCached DEF exec, Runs, Status, Store
  <2> DEFINE got == Get(execution, b, E)
  <2>3. /\ got \in Store(Addr, ExecField)
        /\ \A a \in Addr : Counted(got, a, "count") = Executions[a]
        /\ \A a \in Addr :
             got.stored[a]["count"] = IF a \in E THEN Executions[a] ELSE ExecutionFile[a]
    BY <1>t, GetKeeps, GetFile DEF Executions, ExecutionFile
  <2>4. execution' = Bump(got, b, "count")
    BY <2>1
  <2> HIDE DEF got
  <2>5. \A a \in Addr :
          Executions'[a] = Executions[a] + (IF a = b THEN 1 ELSE 0)
    BY <1>t, <2>3, <2>4, BumpCounts DEF Executions
  <2>6. \A a \in Addr :
          ExecutionFile'[a] = IF a \in E THEN Executions[a] ELSE ExecutionFile[a]
    BY <1>t, <2>3, <2>4, BumpFile DEF ExecutionFile
  <2>7. Executions' = [Executions EXCEPT ![b] = @ + 1]
    BY <1>c, <2>5, Incremented
  <2>8. ExecutionFile' =
          [a \in Addr |-> IF a \in E THEN Executions[a] ELSE ExecutionFile[a]]
    BY <1>c, <2>6, Updated
  <2>9. ByAddress!Count(b)
    BY <2>2, <2>7, <2>8
       DEF Executions, ExecutionFile, Runs, ByAddress!Count, ByAddress!Update
  <2>10. QED
    BY <2>9 DEF ByAddress!Next
<1>6. exec => ins \in Addr
  BY DEF exec, IInv, Running, TypeOK
<1>7. QED
  <2>1. /\ Closes /\ SaveOpcodes => execution' = execution
        /\ handle_signal \/ Kill => execution' = execution
        /\ UNCHANGED vars => execution' = execution /\ Status' = Status
    BY DEF SaveOpcodes, handle_signal, Kill, tables, vars, Status
  <2>2. Runs => Status' = Status
    BY DEF Runs
  <2>3. QED
    BY <1>t, <1>1, <1>2, <1>3, <1>4, <1>5, <1>6, <2>1, <2>2, StatusSteps, ExecutionSteps

(***************************************************************************)
(* opcodes.tbl.                                                            *)
(***************************************************************************)
\* instruction() fetches a row, on_ins() counts, the checkpoint saves.
LEMMA OpcodesSteps ==
  ASSUME [Next]_vars
  PROVE  \/ SaveOpcodes \/ CountOpcode
         \/ \E a \in Addr : instruction(a)
         \/ opcodes' = opcodes
BY DEF Next, Application, Handler, Checkpoint, Scan, on_ins, SaveFanout,
       SaveAge, SaveMemory, SaveExecution, SaveImage, ScanRegister,
       ScanImmediate, ScanMemory, ScanDone, WriteRegister, RegistersWritten,
       WriteMemory, MemoryWritten, exec, on_finish, handle_signal, Kill,
       vars, tables

Times == <<"count", 0>>
OpcodeCounts == [o \in Opcode |-> Counted(opcodes, o, Times)]
OpcodeFile == [o \in Opcode |-> opcodes.stored[o][Times]]

\* A step of the tool is a step of the profile by opcode, or none.
LEMMA ByOpcodeNext ==
  ASSUME IInv, IInv', [Next]_vars
  PROVE  ByOpcode!Next \/ UNCHANGED ByOpcode!vars
<1>t. /\ TypeOK /\ Times \in OpcodeField
      /\ opcodes \in Store(Opcode, OpcodeField)
      /\ opcodes' \in Store(Opcode, OpcodeField)
  BY DEF IInv, TypeOK, OpcodeField, Times
<1>c. /\ OpcodeCounts \in [Opcode -> Nat] /\ OpcodeCounts' \in [Opcode -> Nat]
      /\ OpcodeFile \in [Opcode -> Nat] /\ OpcodeFile' \in [Opcode -> Nat]
  BY <1>t DEF OpcodeCounts, OpcodeFile, Store, Counted
<1>1. CASE opcodes' = opcodes /\ Status' = Status
  BY <1>1 DEF ByOpcode!vars
<1>2. CASE opcodes' = opcodes /\ Dies
  BY <1>2 DEF Dies, ByOpcode!Next, ByOpcode!Kill
<1>3. CASE SaveOpcodes
  <2>1. opcodes' = Evict(opcodes, opcodes.cached) /\ Status = "open"
    BY <1>3 DEF SaveOpcodes, Save, Status
  <2>2. OpcodeCounts' = OpcodeCounts
    BY <1>t, <2>1, EvictCounted DEF OpcodeCounts
  <2>3. CASE pc' = "exited"
    <3>1. \A o \in Opcode : OpcodeFile'[o] = OpcodeCounts'[o]
      BY <1>t, <2>3, FlushedStored DEF IInv, WrittenSoFar, OpcodeFile, OpcodeCounts
    <3>2. OpcodeFile' =
            [o \in Opcode |-> IF o \in Opcode THEN OpcodeCounts[o] ELSE OpcodeFile[o]]
      BY <1>c, <2>2, <3>1, Updated
    <3>3. ByOpcode!Close
      BY <2>1, <2>2, <2>3, <3>2 DEF Times, OpcodeCounts, OpcodeFile, Status,
         ByOpcode!Close, ByOpcode!Update
    <3>4. QED
      BY <3>3 DEF ByOpcode!Next
  <2>4. CASE pc' # "exited"
    <3>1. opcodes.cached \in SUBSET Opcode
      BY <1>t DEF Store
    <3>2. \A o \in Opcode :
            OpcodeFile'[o] =
              IF o \in opcodes.cached THEN OpcodeCounts[o] ELSE OpcodeFile[o]
      BY <1>t, <2>1, EvictFile DEF OpcodeCounts, OpcodeFile
    <3>3. OpcodeFile' =
            [o \in Opcode |-> IF o \in opcodes.cached THEN OpcodeCounts[o]
                                                      ELSE OpcodeFile[o]]
      BY <1>c, <3>2, Updated
    <3>4. Runs
      BY <1>3, <2>4 DEF SaveOpcodes, AfterCheckpoint, Runs, Status
    <3>5. ByOpcode!WriteBack
      BY <2>2, <3>1, <3>3, <3>4 DEF Times, OpcodeCounts, OpcodeFile, Runs,
         ByOpcode!WriteBack, ByOpcode!Update
    <3>6. QED
      BY <3>5 DEF ByOpcode!Next
  <2>5. QED
    BY <2>3, <2>4
<1>4. ASSUME NEW o \in Opcode, NEW E \in Victims(opcodes.cached, o, OPCODES_CACHE)
      PROVE  /\ E \in SUBSET Opcode
             /\ Get(opcodes, o, E) \in Store(Opcode, OpcodeField)
             /\ \A k \in Opcode :
                  /\ Counted(Get(opcodes, o, E), k, Times) = OpcodeCounts[k]
                  /\ Get(opcodes, o, E).stored[k][Times] =
                       IF k \in E THEN OpcodeCounts[k] ELSE OpcodeFile[k]
  <2>1. E \in SUBSET Opcode
    BY <1>t, VictimsCached DEF Store
  <2>2. QED
    BY <1>t, <2>1, GetKeeps, GetFile DEF OpcodeCounts, OpcodeFile
<1>5. ASSUME NEW a \in Addr, instruction(a)
      PROVE  ByOpcode!Next
  <2>1. Prog[a].opcode \in Opcode /\ Runs
    BY <1>5, ProgramAssumption DEF instruction, Runs, Status
  <2>2. PICK E \in Victims(opcodes.cached, Prog[a].opcode, OPCODES_CACHE) :
          opcodes' = Get(opcodes, Prog[a].opcode, E)
    BY <1>5 DEF instruction
  <2>3. /\ E \in SUBSET Opcode
        /\ \A k \in Opcode : OpcodeCounts'[k] = OpcodeCounts[k]
        /\ \A k \in Opcode :
             OpcodeFile'[k] = IF k \in E THEN OpcodeCounts[k] ELSE OpcodeFile[k]
    BY <1>4, <2>1, <2>2 DEF OpcodeCounts, OpcodeFile
  <2>4. OpcodeCounts' = OpcodeCounts
    BY <1>c, <2>3
  <2>5. OpcodeFile' =
          [k \in Opcode |-> IF k \in E THEN OpcodeCounts[k] ELSE OpcodeFile[k]]
    BY <1>c, <2>3, Updated
  <2>6. ByOpcode!WriteBack
    BY <2>1, <2>3, <2>4, <2>5 DEF Times, OpcodeCounts, OpcodeFile, Runs,
       ByOpcode!WriteBack, ByOpcode!Update
  <2>7. QED
    BY <2>6 DEF ByOpcode!Next
<1>6. ASSUME CountOpcode, NEW o \in Opcode, o = Prog[ins].opcode
      PROVE  ByOpcode!Next
  <2> DEFINE row == [f \in OpcodeField |-> Sample(f)]
  <2>1. row \in [OpcodeField -> Nat] /\ row[Times] = 1
    BY <1>t, SampleType DEF TypeOK, Times, Sample
  <2> HIDE DEF row
  <2>2. PICK E \in Victims(opcodes.cached, o, OPCODES_CACHE) :
          opcodes' = Add(Get(opcodes, o, E), o, row)
    BY <1>6 DEF CountOpcode, row
  <2> DEFINE got == Get(opcodes, o, E)
  <2>3. /\ E \in SUBSET Opcode /\ got \in Store(Opcode, OpcodeField)
        /\ \A k \in Opcode :
             /\ Counted(got, k, Times) = OpcodeCounts[k]
             /\ got.stored[k][Times] = IF k \in E THEN OpcodeCounts[k] ELSE OpcodeFile[k]
    BY <1>4
  <2>4. opcodes' = Add(got, o, row)
    BY <2>2
  <2> HIDE DEF got
  <2>5. \A k \in Opcode :
          OpcodeCounts'[k] = OpcodeCounts[k] + (IF k = o THEN 1 ELSE 0)
    BY <1>t, <2>1, <2>3, <2>4, AddCounts DEF OpcodeCounts
  <2>6. \A k \in Opcode :
          OpcodeFile'[k] = IF k \in E THEN OpcodeCounts[k] ELSE OpcodeFile[k]
    BY <1>t, <2>1, <2>3, <2>4, AddCounts DEF OpcodeFile
  <2>7. OpcodeCounts' = [OpcodeCounts EXCEPT ![o] = @ + 1]
    BY <1>c, <2>5, Incremented
  <2>8. OpcodeFile' =
          [k \in Opcode |-> IF k \in E THEN OpcodeCounts[k] ELSE OpcodeFile[k]]
    BY <1>c, <2>6, Updated
  <2>9. Runs
    BY <1>6 DEF CountOpcode, Runs, Status
  <2>10. ByOpcode!Count(o)
    BY <2>3, <2>7, <2>8, <2>9 DEF Times, OpcodeCounts, OpcodeFile, Runs,
       ByOpcode!Count, ByOpcode!Update
  <2>11. QED
    BY <2>10 DEF ByOpcode!Next
<1>7. CountOpcode => Prog[ins].opcode \in Opcode
  BY DEF CountOpcode, IInv, Running
<1>8. QED
  <2>1. /\ handle_signal \/ Kill => opcodes' = opcodes
        /\ UNCHANGED vars => opcodes' = opcodes /\ Status' = Status
    BY DEF handle_signal, Kill, tables, vars, Status
  <2>2. Runs => Status' = Status
    BY DEF Runs
  <2>3. QED
    BY <1>t, <1>1, <1>2, <1>3, <1>5, <1>6, <1>7, <2>1, <2>2, StatusSteps, OpcodesSteps

(***************************************************************************)
(* memory.tbl.                                                             *)
(***************************************************************************)
\* on_ins() counts reads and writes, the checkpoint saves.
LEMMA MemorySteps ==
  ASSUME [Next]_vars
  PROVE  SaveMemory \/ ScanMemory \/ WriteMemory \/ memory' = memory
BY DEF Next, Application, Handler, Checkpoint, Scan, instruction, on_ins,
       SaveFanout, SaveAge, SaveExecution, SaveOpcodes, SaveImage, ScanRegister,
       ScanImmediate, ScanDone, WriteRegister, RegistersWritten,
       MemoryWritten, CountOpcode, exec, on_finish, handle_signal, Kill,
       vars, tables

Kind == MemKey \X MemField
Accesses == [k \in Kind |-> Counted(memory, k[1], k[2])]
AccessFile == [k \in Kind |-> memory.stored[k[1]][k[2]]]

\* A step of the tool is a step of the profile by access, or none.
LEMMA ByAccessNext ==
  ASSUME IInv, IInv', [Next]_vars
  PROVE  ByAccess!Next \/ UNCHANGED ByAccess!vars
<1>t. /\ TypeOK
      /\ memory \in Store(MemKey, MemField)
      /\ memory' \in Store(MemKey, MemField)
  BY DEF IInv, TypeOK
<1>c. /\ Accesses \in [Kind -> Nat] /\ Accesses' \in [Kind -> Nat]
      /\ AccessFile \in [Kind -> Nat] /\ AccessFile' \in [Kind -> Nat]
  BY <1>t DEF Accesses, AccessFile, Store, Counted, Kind
<1>1. CASE memory' = memory /\ Status' = Status
  BY <1>1 DEF ByAccess!vars
<1>2. CASE memory' = memory /\ Dies
  BY <1>2 DEF Dies, ByAccess!Next, ByAccess!Kill
<1>3. CASE memory' = memory /\ Closes
  <2>1. \A k \in MemKey, f \in MemField : memory.stored[k][f] = Counted(memory, k, f)
    BY <1>t, <1>3, FlushedStored DEF Closes, IInv, WrittenSoFar
  <2>2. ByAccess!Close
    BY <1>3, <2>1 DEF Closes, Status, ByAccess!Close, ByAccess!Update
  <2>3. QED
    BY <2>2 DEF ByAccess!Next
<1>4. CASE SaveMemory
  <2>1. memory' = Evict(memory, memory.cached) /\ Runs
    BY <1>4 DEF SaveMemory, Save, Runs, Status
  <2>2. \A k \in Kind : Accesses'[k] = Accesses[k]
    BY <1>t, <2>1, EvictCounted DEF Accesses, Kind
  <2> DEFINE E == memory.cached \X MemField
  <2>3. E \in SUBSET Kind
    BY <1>t DEF Store, Kind
  <2>4. \A k \in Kind : AccessFile'[k] = IF k \in E THEN Accesses[k] ELSE AccessFile[k]
    BY <1>t, <2>1, EvictFile DEF Accesses, AccessFile, Kind
  <2> HIDE DEF E
  <2>5. Accesses' = Accesses
    BY <1>c, <2>2
  <2>6. AccessFile' = [k \in Kind |-> IF k \in E THEN Accesses[k] ELSE AccessFile[k]]
    BY <1>c, <2>4, Updated
  <2>7. ByAccess!WriteBack
    BY <2>1, <2>3, <2>5, <2>6
       DEF Accesses, AccessFile, Kind, Runs, ByAccess!WriteBack, ByAccess!Update
  <2>8. QED
    BY <2>7 DEF ByAccess!Next
<1>5. ASSUME NEW key \in MemKey, NEW f \in MemField, Runs,
             NEW E \in Victims(memory.cached, key, MEMORY_CACHE),
             memory' = Bump(Get(memory, key, E), key, f)
      PROVE  ByAccess!Next
  <2> DEFINE got == Get(memory, key, E)
  <2>1. /\ got \in Store(MemKey, MemField)
        /\ \A k \in MemKey, g \in MemField :
             /\ Counted(got, k, g) = Counted(memory, k, g)
             /\ got.stored[k][g] =
                  IF k \in E THEN Counted(memory, k, g) ELSE memory.stored[k][g]
    BY <1>t, GetKeeps, GetFile
  <2>2. memory' = Bump(got, key, f)
    BY <1>5
  <2> HIDE DEF got
  <2>3. \A k \in MemKey, g \in MemField :
          /\ Counted(memory', k, g) =
               Counted(memory, k, g) + (IF k = key /\ g = f THEN 1 ELSE 0)
          /\ memory'.stored[k][g] =
               IF k \in E THEN Counted(memory, k, g) ELSE memory.stored[k][g]
    BY <2>1, <2>2, BumpCounts, BumpFile
  <2> DEFINE kind == <<key, f>>
             V == E \X MemField
  <2>4. kind \in Kind /\ V \in SUBSET Kind
    <3>1. E \subseteq memory.cached
      BY VictimsCached
    <3>2. QED
      BY <1>t, <3>1 DEF Kind, Store
  <2>5. /\ \A k \in Kind : Accesses'[k] = Accesses[k] + (IF k = kind THEN 1 ELSE 0)
        /\ \A k \in Kind : AccessFile'[k] = IF k \in V THEN Accesses[k] ELSE AccessFile[k]
    BY <2>3 DEF Accesses, AccessFile, Kind
  <2> HIDE DEF kind, V
  <2>6. Accesses' = [Accesses EXCEPT ![kind] = @ + 1]
    BY <1>c, <2>4, <2>5, Incremented
  <2>7. AccessFile' = [k \in Kind |-> IF k \in V THEN Accesses[k] ELSE AccessFile[k]]
    BY <1>c, <2>5, Updated
  <2>8. ByAccess!Count(kind)
    BY <1>5, <2>4, <2>6, <2>7
       DEF Accesses, AccessFile, Kind, Runs, ByAccess!Count, ByAccess!Update
  <2>9. QED
    BY <2>4, <2>8 DEF ByAccess!Next, Kind
<1>6. CASE ScanMemory
  <2>1. ins \in Addr /\ Runs
    BY <1>6 DEF ScanMemory, Scanning, Runs, Status, IInv, Running, TypeOK
  <2>2. PICK m \in MemAddr :
          IF Arg.read
          THEN \E E \in Victims(memory.cached, <<ins, m>>, MEMORY_CACHE) :
                 memory' = Bump(Get(memory, <<ins, m>>, E), <<ins, m>>, "read")
          ELSE memory' = memory
    BY <1>6 DEF ScanMemory
  <2>3. <<ins, m>> \in MemKey /\ "read" \in MemField
    BY <2>1 DEF MemKey, MemField
  <2>4. QED
    BY <1>1, <1>5, <2>1, <2>2, <2>3 DEF Runs
<1>7. CASE WriteMemory
  <2>1. <<ins, mem_list[i]>> \in MemKey /\ "write" \in MemField /\ Runs
    BY <1>7, <1>t DEF WriteMemory, Running, IInv, TypeOK, MemKey, MemField, Runs, Status
  <2>2. PICK E \in Victims(memory.cached, <<ins, mem_list[i]>>, MEMORY_CACHE) :
          memory' = Bump(Get(memory, <<ins, mem_list[i]>>, E),
                         <<ins, mem_list[i]>>, "write")
    BY <1>7 DEF WriteMemory
  <2>3. QED
    BY <1>5, <2>1, <2>2
<1>8. QED
  <2>1. /\ Closes /\ SaveOpcodes => memory' = memory
        /\ handle_signal \/ Kill => memory' = memory
        /\ UNCHANGED vars => memory' = memory /\ Status' = Status
    BY DEF SaveOpcodes, handle_signal, Kill, tables, vars, Status
  <2>2. Runs => Status' = Status
    BY DEF Runs
  <2>3. QED
    BY <1>t, <1>1, <1>2, <1>3, <1>4, <1>6, <1>7, <2>1, <2>2, StatusSteps, MemorySteps

(***************************************************************************)
(* image.tbl.                                                              *)
(***************************************************************************)
\* The code that calls on_ins() has its row, and no other code does run.
ImageKept ==
  /\ instrumented \subseteq image.cached \cup image.stored
  /\ \A a \in Addr : ran[a] > 0 => a \in instrumented

\* Every step keeps the rows.
LEMMA ImageNext ==
  ASSUME TypeOK, ImageKept, [Next]_vars
  PROVE  ImageKept'
<1>1. ASSUME NEW a \in Addr, instruction(a) PROVE ImageKept'
  <2>1. PICK E \in Victims(image.cached, a, IMAGE_CACHE) :
          image' = ImageUpdate(image, a, E)
    BY <1>1 DEF instruction
  <2>2. QED
    BY <1>1, <2>1 DEF instruction, ImageUpdate, ImageKept
<1>2. ASSUME NEW a \in Addr, on_ins(a) PROVE ImageKept'
  BY <1>2 DEF on_ins, tables, ImageKept, TypeOK
<1>3. CASE SaveImage
  BY <1>3 DEF SaveImage, ImageKept
<1>4. CASE UNCHANGED <<image, instrumented, ran>>
  BY <1>4 DEF ImageKept
<1>5. CASE \/ SaveFanout \/ SaveAge \/ SaveMemory \/ SaveExecution \/ SaveOpcodes
           \/ Scan
           \/ WriteRegister \/ RegistersWritten \/ WriteMemory \/ MemoryWritten
           \/ CountOpcode \/ exec \/ on_finish \/ handle_signal \/ Kill
           \/ UNCHANGED vars
  BY <1>4, <1>5 DEF SaveFanout, SaveAge, SaveMemory, SaveExecution, SaveOpcodes,
     Scan, ScanRegister, ScanImmediate, ScanMemory, ScanDone, WriteRegister,
     RegistersWritten, WriteMemory, MemoryWritten, CountOpcode, exec, on_finish,
     handle_signal, Kill, vars, tables
<1>6. QED
  BY <1>1, <1>2, <1>3, <1>5 DEF Next, Application, Handler, Checkpoint

(***************************************************************************)
(* The theorems.                                                           *)
(***************************************************************************)
\* The tables begin as empty profiles.
LEMMA ProfilesInit == Init => ByAddress!Init /\ ByOpcode!Init /\ ByAccess!Init
<1> SUFFICES ASSUME Init PROVE ByAddress!Init /\ ByOpcode!Init /\ ByAccess!Init
  OBVIOUS
<1>1. Status = "open"
  BY DEF Init, Status
<1>2. ByAddress!Init
  BY <1>1, EmptyStoreType DEF Executions, ExecutionFile, Init, ByAddress!Init, ExecField, EmptyStore, Zero
<1>3. ByOpcode!Init
  <2>1. Times \in OpcodeField
    BY DEF OpcodeField, Times
  <2>2. \A o \in Opcode : /\ Counted(opcodes, o, Times) = 0
                          /\ opcodes.stored[o][Times] = 0
    BY <2>1, EmptyStoreType DEF Init, EmptyStore, Zero
  <2>3. QED
    BY <1>1, <2>2 DEF ByOpcode!Init, Times
<1>4. ByAccess!Init
  <2>1. \A k \in MemKey, f \in MemField : /\ Counted(memory, k, f) = 0
                                          /\ memory.stored[k][f] = 0
    BY EmptyStoreType DEF Init, EmptyStore, Zero
  <2>2. QED
    BY <1>1, <2>1 DEF ByAccess!Init
<1>5. QED
  BY <1>2, <1>3, <1>4

\* instrs.tbl, with its cache and its file, is a profile by address.
THEOREM ExecutionIsProfile == Spec => ExecutionImplementsProfile
<1>1. IInv /\ IInv' /\ [Next]_vars => [ByAddress!Next]_(ByAddress!vars)
  BY ByAddressNext
<1>2. QED
  BY <1>1, ProfilesInit, Invariant, PTL
     DEF Spec, ExecutionImplementsProfile, ByAddress!Spec

\* opcodes.tbl is a profile by opcode.
THEOREM OpcodesAreProfile == Spec => OpcodesImplementProfile
<1>1. IInv /\ IInv' /\ [Next]_vars => [ByOpcode!Next]_(ByOpcode!vars)
  BY ByOpcodeNext
<1>2. QED
  BY <1>1, ProfilesInit, Invariant, PTL
     DEF Spec, OpcodesImplementProfile, ByOpcode!Spec

\* memory.tbl is a profile by instruction, data address and kind of access.
THEOREM MemoryIsProfile == Spec => MemoryImplementsProfile
<1>1. IInv /\ IInv' /\ [Next]_vars => [ByAccess!Next]_(ByAccess!vars)
  BY ByAccessNext
<1>2. QED
  BY <1>1, ProfilesInit, Invariant, PTL
     DEF Spec, MemoryImplementsProfile, ByAccess!Spec

\* Every instruction that has run has its row in image.tbl or its cache.
THEOREM ExecutedHasRow == Spec => []ExecutedIsInImage
<1>1. Init => ImageKept
  BY DEF Init, ImageKept
<1>2. IInv /\ ImageKept /\ [Next]_vars => ImageKept'
  BY ImageNext DEF IInv
<1>3. ImageKept => ExecutedIsInImage
  BY DEF ImageKept, ExecutedIsInImage
<1>4. QED
  BY <1>1, <1>2, <1>3, Invariant, PTL DEF Spec
=============================================================================

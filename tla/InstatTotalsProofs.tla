-------------------------- MODULE InstatTotalsProofs --------------------------
(***************************************************************************)
(* The totals of InstatProps: that opcodes.tbl with its histograms,        *)
(* instrs.tbl, memory.tbl and the register record add up to the same       *)
(* executions, how much a killed process may lose, and that the files      *)
(* agree after a checkpoint.  Each total holds between two calls of        *)
(* on_ins(); the invariant that proves it says what the call that is       *)
(* running has counted so far.  (Times is the field of an opcode's count,  *)
(* see InstatProofs.)                                                      *)
(***************************************************************************)
EXTENDS InstatProofs

(***************************************************************************)
(* Where a call of on_ins() is.                                            *)
(***************************************************************************)
\* The steps that follow the operand loop.
AfterScan == {"reg_writes", "mem_writes", "opcode", "exec"}

\* The operands the call has scanned so far.
Scanned == IF pc = "scan" THEN i - 1
           ELSE IF pc \in AfterScan THEN Len(Args(ins)) ELSE 0

\* A loop starts at one and ends behind the last operand or entry.
Position ==
  /\ pc \notin {"scan", "reg_writes", "mem_writes", "killed"} => i = 1
  /\ pc = "scan" => i <= Len(Args(ins)) + 1
  /\ pc = "reg_writes" => i <= Len(write_list) + 1
  /\ pc = "mem_writes" => i <= Len(mem_list) + 1

\* is_mem says whether one of the operands scanned accesses memory.
MemFlag ==
  /\ pc \in {"scan"} \cup AfterScan =>
       (is_mem <=> \E n \in MemOperands(ins) : n <= Scanned)
  /\ pc \notin {"scan", "killed"} \cup AfterScan => ~is_mem

\* The operands of an instruction are finitely many.
LEMMA ArgsLen == \A a \in Addr : Len(Args(a)) \in Nat
BY ProgramAssumption

\* Every loop ends where it should: each step keeps i in range.
LEMMA PositionNext ==
  ASSUME IInv, Position, [Next]_vars
  PROVE  Position'
<1>t. /\ i \in Nat \ {0}
      /\ write_list \in Seq(RegId) /\ mem_list \in Seq(MemAddr)
      /\ pc \in {"scan"} \cup AfterScan => ins \in Addr
      /\ \A a \in Addr : Len(Args(a)) \in Nat
  BY ArgsLen DEF IInv, TypeOK, Running, AfterScan
<1> USE DEF Position
<1>1. CASE \E a \in Addr : instruction(a) \/ on_ins(a)
  BY <1>1, <1>t, ArgsLen DEF instruction, on_ins, locals, statics, AfterCheckpoint
<1>2. CASE SaveFanout \/ SaveAge \/ SaveMemory \/ SaveExecution
  BY <1>2 DEF SaveFanout, SaveAge, SaveMemory, SaveExecution, locals, statics
<1>3. CASE SaveOpcodes \/ SaveImage
  <2>1. ins \in Addr \cup {NoIns} /\ (ins = NoIns \/ Len(Args(ins)) \in Nat)
    BY <1>t DEF IInv, TypeOK
  <2>2. SaveImage => ins # NoIns
    BY <1>t, Sizes DEF IInv, Running, TypeOK, SaveImage
  <2> QED
    BY <1>3, <2>1, <2>2 DEF SaveOpcodes, SaveImage, AfterCheckpoint, locals, statics
<1>4. CASE ScanRegister \/ ScanImmediate \/ ScanMemory
  BY <1>4, <1>t DEF ScanRegister, ScanImmediate, ScanMemory, Scanning, statics, AfterScan
<1>5. CASE ScanDone
  BY <1>5, <1>t DEF ScanDone, statics
<1>6. CASE WriteRegister \/ RegistersWritten \/ WriteMemory \/ MemoryWritten
  BY <1>6, <1>t DEF WriteRegister, RegistersWritten, WriteMemory, MemoryWritten, statics
<1>7. CASE CountOpcode \/ exec
  BY <1>7 DEF CountOpcode, exec, locals, statics
<1>8. CASE on_finish \/ handle_signal \/ Kill
  BY <1>8 DEF on_finish, handle_signal, Kill, locals, statics
<1>9. CASE UNCHANGED vars
  BY <1>9 DEF vars, locals, statics
<1>10. QED
  BY <1>1, <1>2, <1>3, <1>4, <1>5, <1>6, <1>7, <1>8, <1>9
     DEF Next, Application, Handler, Checkpoint, Scan

\* One operand more has been scanned.
LEMMA ScansOne ==
  ASSUME IInv, Position, NEW kind, Scanning(kind), UNCHANGED <<pc, ins>>
  PROVE  /\ ins \in Addr /\ i \in 1 .. Len(Args(ins)) /\ pc = "scan"
         /\ Scanned = i - 1 /\ Scanned' = i
<1>1. /\ pc = "scan" /\ pc' = "scan" /\ i' = i + 1 /\ i <= Len(Args(ins))
      /\ i \in Nat \ {0} /\ ins \in Addr
  BY DEF IInv, TypeOK, Running, Scanning
<1>2. Len(Args(ins)) \in Nat
  BY <1>1, ArgsLen
<1>3. Scanned = i - 1 /\ Scanned' = i
  BY <1>1 DEF Scanned
<1> QED
  BY <1>1, <1>2, <1>3

\* A step of the loop is at an operand of its kind.
LEMMA ScansOneArg ==
  ASSUME IInv, NEW kind, Scanning(kind)
  PROVE  ins \in Addr /\ i \in 1 .. Len(Args(ins)) /\ Arg.kind = kind
<1>1. /\ i <= Len(Args(ins)) /\ Arg.kind = kind /\ i \in Nat \ {0} /\ ins \in Addr
  BY DEF IInv, TypeOK, Running, Scanning
<1>2. Len(Args(ins)) \in Nat
  BY <1>1, ArgsLen
<1> QED
  BY <1>1, <1>2

\* The loop over the operands is over when all have been scanned.
LEMMA ScansAll ==
  ASSUME IInv, Position, ScanDone
  PROVE  ins \in Addr /\ Scanned = Len(Args(ins)) /\ Scanned' = Scanned
BY ArgsLen DEF IInv, TypeOK, Running, ScanDone, Scanned, Position, AfterScan

\* The other steps of a call scan nothing, and a call begins with no operand
\* scanned.
LEMMA ScansNone ==
  ASSUME IInv, Position, [Next]_vars, pc \in {"scan"} \cup AfterScan,
         pc' \in {"scan"} \cup AfterScan
  PROVE  \/ ScanRegister \/ ScanImmediate \/ ScanMemory \/ ScanDone
         \/ Scanned' = Scanned /\ ins' = ins /\ pc \in AfterScan
         \/ UNCHANGED vars
<1>1. pc = "scan" \/ pc \in AfterScan
  OBVIOUS
<1>2. CASE pc = "scan"
  BY <1>2 DEF Next, Application, Handler, Checkpoint, Scan, instruction, on_ins,
     SaveFanout, SaveAge, SaveMemory, SaveExecution, SaveOpcodes, SaveImage,
     WriteRegister, RegistersWritten, WriteMemory, MemoryWritten, CountOpcode,
     exec, on_finish, handle_signal, Kill, AfterScan
<1>3. CASE pc \in AfterScan
  <2>1. pc' \in AfterScan /\ ins' = ins
    BY <1>3 DEF Next, Application, Handler, Checkpoint, Scan, instruction, on_ins,
     SaveFanout, SaveAge, SaveMemory, SaveExecution, SaveOpcodes, SaveImage,
     ScanRegister, ScanImmediate, ScanMemory, ScanDone, Scanning,
     WriteRegister, RegistersWritten, WriteMemory, MemoryWritten, CountOpcode,
     exec, on_finish, handle_signal, Kill, AfterScan, vars, locals
  <2> QED
    BY <1>3, <2>1 DEF Scanned, AfterScan
<1> QED
  BY <1>1, <1>2, <1>3

\* Only a memory operand that is accessed sets is_mem.
LEMMA MemFlagNext ==
  ASSUME IInv, Position, MemFlag, [Next]_vars
  PROVE  MemFlag'
<1> DEFINE within == {"scan"} \cup AfterScan
<1>1. CASE pc \in within /\ pc' \in within
  <2>1. CASE ScanMemory
    <3>1. /\ ins \in Addr /\ i \in 1 .. Len(Args(ins)) /\ ins' = ins /\ pc' = pc
          /\ Scanned = i - 1 /\ Scanned' = i /\ Arg.kind = "mem"
          /\ is_mem' = (is_mem \/ Arg.read \/ Arg.write)
      BY <2>1, ScansOne DEF ScanMemory, Scanning
    <3>2. i \in MemOperands(ins) <=> Arg.read \/ Arg.write
      BY <3>1 DEF MemOperands, MemReads, MemWrites, Arg
    <3>3. \A n \in MemOperands(ins) : n \in Nat
      BY <3>1, ArgsLen DEF MemOperands, MemReads, MemWrites
    <3>4. (\E n \in MemOperands(ins) : n <= i)
            <=> (\E n \in MemOperands(ins) : n <= i - 1) \/ i \in MemOperands(ins)
      BY <3>1, <3>3
    <3>5. is_mem <=> \E n \in MemOperands(ins) : n <= i - 1
      BY <1>1, <3>1 DEF MemFlag
    <3>6. is_mem' <=> \E n \in MemOperands(ins) : n <= i
      BY <3>1, <3>2, <3>4, <3>5
    <3> QED
      BY <1>1, <3>1, <3>6 DEF MemFlag, MemOperands, MemReads, MemWrites
  <2>2. CASE ScanRegister \/ ScanImmediate
    <3>1. /\ ins \in Addr /\ i \in 1 .. Len(Args(ins)) /\ ins' = ins /\ pc' = pc
          /\ Scanned = i - 1 /\ Scanned' = i /\ Arg.kind # "mem"
          /\ is_mem' = is_mem
      BY <2>2, ScansOne DEF ScanRegister, ScanImmediate, Scanning
    <3>2. i \notin MemOperands(ins)
      BY <3>1 DEF MemOperands, MemReads, MemWrites, Arg
    <3>3. \A n \in MemOperands(ins) : n \in Nat
      BY <3>1, ArgsLen DEF MemOperands, MemReads, MemWrites
    <3>4. \A n \in MemOperands(ins) : n <= i <=> n <= i - 1
      BY <3>1, <3>2, <3>3
    <3> QED
      BY <1>1, <3>1, <3>4 DEF MemFlag, MemOperands, MemReads, MemWrites
  <2>3. CASE ScanDone
    BY <1>1, <2>3, ScansAll DEF ScanDone, MemFlag, MemOperands, MemReads, MemWrites
  <2>4. CASE Scanned' = Scanned /\ ins' = ins /\ pc \in AfterScan
    <3>1. is_mem' = is_mem
      BY <1>1, <2>4 DEF Next, Application, Handler, Checkpoint, Scan, instruction,
         on_ins, SaveFanout, SaveAge, SaveMemory, SaveExecution, SaveOpcodes,
         SaveImage, ScanRegister, ScanImmediate, ScanMemory, ScanDone, Scanning,
         WriteRegister, RegistersWritten, WriteMemory, MemoryWritten, CountOpcode,
         exec, on_finish, handle_signal, Kill, AfterScan, vars, locals
    <3> QED
      BY <1>1, <2>4, <3>1 DEF MemFlag, MemOperands, MemReads, MemWrites
  <2>5. CASE UNCHANGED vars
    BY <2>5 DEF MemFlag, MemOperands, MemReads, MemWrites, Scanned, vars, locals
  <2> QED
    BY <1>1, <2>1, <2>2, <2>3, <2>4, <2>5, ScansNone
<1>2. CASE pc \notin within /\ pc' \in within
  <2>1. ~is_mem /\ is_mem' = is_mem /\ pc' = "scan" /\ i' = 1 /\ ins' \in Addr
    BY <1>2 DEF Next, Application, Handler, Checkpoint, Scan, instruction,
         on_ins, SaveFanout, SaveAge, SaveMemory, SaveExecution, SaveOpcodes,
         SaveImage, ScanRegister, ScanImmediate, ScanMemory, ScanDone, Scanning,
         WriteRegister, RegistersWritten, WriteMemory, MemoryWritten, CountOpcode,
         exec, on_finish, handle_signal, Kill, AfterCheckpoint, AfterScan, vars,
         locals, MemFlag, Position, IInv, TypeOK, Running
  <2>2. Scanned' = 0
    BY <2>1 DEF Scanned
  <2>3. \A n \in MemOperands(ins') : ~(n <= 0)
    BY <2>1, ArgsLen DEF MemOperands, MemReads, MemWrites
  <2> QED
    BY <1>2, <2>1, <2>2, <2>3 DEF MemFlag, MemOperands, MemReads, MemWrites
<1>3. CASE pc' \notin within
  BY <1>3 DEF Next, Application, Handler, Checkpoint, Scan, instruction,
         on_ins, SaveFanout, SaveAge, SaveMemory, SaveExecution, SaveOpcodes,
         SaveImage, ScanRegister, ScanImmediate, ScanMemory, ScanDone, Scanning,
         WriteRegister, RegistersWritten, WriteMemory, MemoryWritten, CountOpcode,
         exec, on_finish, handle_signal, Kill, AfterScan, AfterCheckpoint, vars,
         locals, MemFlag
<1> QED
  BY <1>1, <1>2, <1>3

(***************************************************************************)
(* opcodes.tbl adds up.                                                    *)
(***************************************************************************)
\* The field of an opcode that counts its executions that access memory.
MemTimes == <<"mem_count", 0>>

\* opcodes.tbl is one ahead of instrs.tbl before the last step of a call.
Ahead(o) == IF pc = "exec" /\ Prog[ins].opcode = o THEN 1 ELSE 0

\* The addresses of the opcode that access memory.
WithMemory(o) == {a \in OfOpcode(o) : MemOperands(a) # {}}

\* The sums of OpcodeTotals, at every step of a call.
OpcodeSums ==
  pc # "killed" \/ Idle =>
    \A o \in Opcode :
      /\ Counted(opcodes, o, Times) = Sum(Executions, OfOpcode(o)) + Ahead(o)
      /\ Counted(opcodes, o, MemTimes)
           = Sum(Executions, WithMemory(o)) + (IF is_mem THEN Ahead(o) ELSE 0)

\* The counts of instrs.tbl are numbers.
LEMMA ExecutionsType ==
  ASSUME TypeOK
  PROVE  Executions \in [Addr -> Nat] /\ ExecutionFile \in [Addr -> Nat]
BY DEF TypeOK, Store, ExecField, Executions, ExecutionFile, Counted

\* The last step of a call counts its address, and nothing leaves the file.
LEMMA ExecCounts ==
  ASSUME IInv, exec
  PROVE  /\ ins \in Addr
         /\ \A a \in Addr : Executions'[a] = Executions[a] + (IF a = ins THEN 1 ELSE 0)
         /\ \A a \in Addr : ExecutionFile'[a] >= ExecutionFile[a]
<1> DEFINE b == ins
<1>t. /\ "count" \in ExecField /\ b \in Addr
      /\ execution \in Store(Addr, ExecField)
      /\ Executions \in [Addr -> Nat] /\ ExecutionFile \in [Addr -> Nat]
  BY ExecutionsType DEF IInv, TypeOK, ExecField, Running, exec
<1>1. PICK E \in Victims(execution.cached, b, EXECUTION_CACHE) :
        execution' = Bump(Get(execution, b, E), b, "count")
  BY DEF exec
<1> DEFINE got == Get(execution, b, E)
<1> HIDE DEF b
<1>2. /\ got \in Store(Addr, ExecField)
      /\ \A a \in Addr : Counted(got, a, "count") = Executions[a]
      /\ \A a \in Addr :
           got.stored[a]["count"] = IF a \in E THEN Executions[a] ELSE ExecutionFile[a]
  BY <1>t, GetKeeps, GetFile DEF Executions, ExecutionFile
<1>3. execution' = Bump(got, b, "count")
  BY <1>1
<1> HIDE DEF got
<1>4. \A a \in Addr : Executions'[a] = Executions[a] + (IF a = b THEN 1 ELSE 0)
  BY <1>t, <1>2, <1>3, BumpCounts DEF Executions
<1>5. \A a \in Addr :
        ExecutionFile'[a] = IF a \in E THEN Executions[a] ELSE ExecutionFile[a]
  BY <1>t, <1>2, <1>3, BumpFile DEF ExecutionFile
<1>6. \A a \in Addr : Executions[a] >= ExecutionFile[a]
  BY <1>t DEF Executions, ExecutionFile, Counted, Store
<1> QED
  BY <1>t, <1>4, <1>5, <1>6 DEF b

\* So that a sum over addresses grows by one if it has that address.
LEMMA ExecSum ==
  ASSUME IInv, IInv', exec, NEW S \in SUBSET Addr
  PROVE  Sum(Executions', S) = Sum(Executions, S) + (IF ins \in S THEN 1 ELSE 0)
<1>1. /\ Executions \in [Addr -> Nat] /\ Executions' \in [Addr -> Nat]
      /\ \A a \in Addr : Executions'[a] = Executions[a] + (IF a = ins THEN 1 ELSE 0)
      /\ IsFiniteSet(S)
  <2>1. Executions \in [Addr -> Nat]
    BY ExecutionsType DEF IInv
  <2>2. Executions' \in [Addr -> Nat]
    <3>1. execution' \in Store(Addr, ExecField) /\ "count" \in ExecField
      BY DEF IInv, TypeOK, ExecField
    <3>2. \A a \in Addr : Counted(execution', a, "count") \in Nat
      BY <3>1 DEF Store, Counted
    <3> QED
      BY <3>2 DEF Executions
  <2>3. IsFiniteSet(S)
    BY FiniteAssumption, FS_Subset
  <2> QED
    BY <2>1, <2>2, <2>3, ExecCounts
<1>2. CASE ins \in S
  <2>1. Sum(Executions', S) = Sum(Executions, S) + (Executions'[ins] - Executions[ins])
    BY <1>1, <1>2, SumChange
  <2> QED
    BY <1>1, <1>2, <2>1, SumType
<1>3. CASE ins \notin S
  <2>1. Sum(Executions, S) = Sum(Executions', S) /\ Sum(Executions, S) \in Int
    BY <1>1, <1>3, SumSame, SumType
  <2> QED
    BY <1>3, <2>1
<1> QED
  BY <1>2, <1>3

\* CountOpcode adds one to the opcode's count, and one to its mem_count if
\* is_mem says so.
LEMMA OpcodeCounts1 ==
  ASSUME IInv, CountOpcode, NEW o \in Opcode
  PROVE  /\ Counted(opcodes', o, Times)
               = Counted(opcodes, o, Times) + (IF o = Prog[ins].opcode THEN 1 ELSE 0)
         /\ Counted(opcodes', o, MemTimes)
               = Counted(opcodes, o, MemTimes)
                   + (IF o = Prog[ins].opcode /\ is_mem THEN 1 ELSE 0)
         /\ Counted(opcodes, o, Times) \in Nat /\ Counted(opcodes, o, MemTimes) \in Nat
<1> DEFINE p == Prog[ins].opcode
           row == [f \in OpcodeField |-> Sample(f)]
<1>t. /\ p \in Opcode /\ Times \in OpcodeField /\ MemTimes \in OpcodeField
      /\ opcodes \in Store(Opcode, OpcodeField)
      /\ row \in [OpcodeField -> Nat]
      /\ row[Times] = 1 /\ row[MemTimes] = IF is_mem THEN 1 ELSE 0
  BY SampleType DEF IInv, TypeOK, Running, CountOpcode, OpcodeField, Times, MemTimes, Sample
<1>1. PICK E \in Victims(opcodes.cached, p, OPCODES_CACHE) :
        opcodes' = Add(Get(opcodes, p, E), p, row)
  BY DEF CountOpcode
<1> DEFINE got == Get(opcodes, p, E)
<1> HIDE DEF p, row
<1>2. /\ got \in Store(Opcode, OpcodeField)
      /\ \A k \in Opcode, f \in OpcodeField : Counted(got, k, f) = Counted(opcodes, k, f)
  BY <1>t, GetKeeps
<1>3. opcodes' = Add(got, p, row)
  BY <1>1
<1> HIDE DEF got
<1>4. \A f \in OpcodeField :
        Counted(opcodes', o, f) = Counted(opcodes, o, f) + (IF o = p THEN row[f] ELSE 0)
  BY <1>t, <1>2, <1>3, AddCounts
<1>5. \A f \in OpcodeField : Counted(opcodes, o, f) \in Nat
  BY <1>t DEF Store, Counted
<1> QED
  BY <1>t, <1>4, <1>5 DEF p

\* CountOpcode puts opcodes.tbl one ahead, and exec brings instrs.tbl level; no
\* other step counts in either, and an eviction or a save moves no count.
LEMMA OpcodeSumsNext ==
  ASSUME IInv, IInv', Position, MemFlag, OpcodeSums, [Next]_vars
  PROVE  OpcodeSums'
<1> SUFFICES ASSUME pc' # "killed" \/ Idle', NEW o \in Opcode
             PROVE  /\ Counted(opcodes, o, Times)' = Sum(Executions', OfOpcode(o)) + Ahead(o)'
                    /\ Counted(opcodes, o, MemTimes)'
                         = Sum(Executions', WithMemory(o))
                             + (IF is_mem' THEN Ahead(o)' ELSE 0)
  BY DEF OpcodeSums, OfOpcode, WithMemory, MemOperands, MemReads, MemWrites
<1>s. OfOpcode(o) \in SUBSET Addr /\ WithMemory(o) \in SUBSET Addr
  BY DEF OfOpcode, WithMemory
<1>t. /\ opcodes \in Store(Opcode, OpcodeField) /\ execution \in Store(Addr, ExecField)
      /\ Times \in OpcodeField /\ MemTimes \in OpcodeField /\ "count" \in ExecField
      /\ Executions \in [Addr -> Nat]
  BY ExecutionsType DEF IInv, TypeOK, OpcodeField, ExecField, Times, MemTimes
<1>i. /\ Sum(Executions, OfOpcode(o)) \in Nat /\ Sum(Executions, WithMemory(o)) \in Nat
  BY <1>s, <1>t, SumNat, FS_Subset, FiniteAssumption
<1>h. pc = "killed" => UNCHANGED vars
  BY DEF Next, Application, Handler, Checkpoint, Scan, instruction,
     on_ins, SaveFanout, SaveAge, SaveMemory, SaveExecution, SaveOpcodes,
     SaveImage, ScanRegister, ScanImmediate, ScanMemory, ScanDone, Scanning,
     WriteRegister, RegistersWritten, WriteMemory, MemoryWritten, CountOpcode,
     exec, on_finish, handle_signal, Kill
<1>0. (pc # "killed" \/ Idle) /\ ~(pc = "exec" /\ pc' = "killed")
  <2>1. pc' = "killed" => ins' = ins
    BY <1>h DEF Next, Application, Handler, Checkpoint, Scan, instruction,
     on_ins, SaveFanout, SaveAge, SaveMemory, SaveExecution, SaveOpcodes,
     SaveImage, ScanRegister, ScanImmediate, ScanMemory, ScanDone, Scanning,
     WriteRegister, RegistersWritten, WriteMemory, MemoryWritten, CountOpcode,
     exec, on_finish, handle_signal, Kill, vars, locals, AfterCheckpoint
  <2> QED
    BY <1>h, <2>1, Sizes DEF Idle, IInv, TypeOK, Running, vars, locals
<1>p. /\ Counted(opcodes, o, Times) = Sum(Executions, OfOpcode(o)) + Ahead(o)
      /\ Counted(opcodes, o, MemTimes)
           = Sum(Executions, WithMemory(o)) + (IF is_mem THEN Ahead(o) ELSE 0)
  BY <1>0 DEF OpcodeSums
<1>1. CASE CountOpcode
  <2>1. Executions' = Executions /\ Ahead(o) = 0 /\ is_mem' = is_mem
        /\ Ahead(o)' = IF o = Prog[ins].opcode THEN 1 ELSE 0
    BY <1>1 DEF CountOpcode, Executions, Ahead, locals
  <2> QED
    BY <1>1, <1>i, <1>p, <2>1, OpcodeCounts1
<1>2. CASE exec
  <2>1. opcodes' = opcodes /\ Ahead(o)' = 0 /\ pc = "exec" /\ ins \in Addr
        /\ Ahead(o) = IF ins \in OfOpcode(o) THEN 1 ELSE 0
    BY <1>2, ExecCounts DEF exec, Ahead, OfOpcode
  <2>2. is_mem <=> MemOperands(ins) # {}
    <3>1. is_mem <=> \E n \in MemOperands(ins) : n <= Len(Args(ins))
      BY <2>1 DEF MemFlag, Scanned, AfterScan
    <3>2. \A n \in MemOperands(ins) : n <= Len(Args(ins))
      BY <2>1, ArgsLen DEF MemOperands, MemReads, MemWrites
    <3> QED
      BY <3>1, <3>2
  <2>3. ins \in WithMemory(o) <=> ins \in OfOpcode(o) /\ is_mem
    BY <2>2 DEF WithMemory
  <2>4. /\ Sum(Executions', OfOpcode(o))
              = Sum(Executions, OfOpcode(o)) + (IF ins \in OfOpcode(o) THEN 1 ELSE 0)
        /\ Sum(Executions', WithMemory(o))
              = Sum(Executions, WithMemory(o)) + (IF ins \in WithMemory(o) THEN 1 ELSE 0)
    BY <1>2, <1>s, ExecSum
  <2> QED
    BY <1>i, <1>p, <2>1, <2>3, <2>4
<1>3. CASE SaveExecution
  <2>1. execution' = Evict(execution, execution.cached)
    BY <1>3 DEF SaveExecution, Save
  <2>2. Executions' = Executions
    BY <1>t, <2>1, EvictCounted DEF Executions
  <2> QED
    BY <1>3, <1>p, <2>2 DEF SaveExecution, Ahead, locals
<1>4. CASE SaveOpcodes
  <2>1. opcodes' = Evict(opcodes, opcodes.cached)
    BY <1>4 DEF SaveOpcodes, Save
  <2>2. /\ Counted(opcodes', o, Times) = Counted(opcodes, o, Times)
        /\ Counted(opcodes', o, MemTimes) = Counted(opcodes, o, MemTimes)
    BY <1>t, <2>1, EvictCounted
  <2>3. Executions' = Executions /\ Ahead(o) = 0 /\ Ahead(o)' = 0
    BY <1>4 DEF SaveOpcodes, Executions, Ahead, AfterCheckpoint
  <2> QED
    BY <1>i, <1>p, <2>2, <2>3
<1>5. ASSUME NEW a \in Addr, instruction(a)
      PROVE  /\ Counted(opcodes', o, Times) = Counted(opcodes, o, Times)
             /\ Counted(opcodes', o, MemTimes) = Counted(opcodes, o, MemTimes)
             /\ Executions' = Executions /\ Ahead(o) = 0 /\ Ahead(o)' = 0
  <2>1. Prog[a].opcode \in Opcode
    BY <1>5, ProgramAssumption DEF instruction
  <2>2. PICK E : opcodes' = Get(opcodes, Prog[a].opcode, E)
    BY <1>5 DEF instruction
  <2> QED
    BY <1>5, <1>t, <2>1, <2>2, GetKeeps DEF instruction, Executions, Ahead
<1>6. CASE opcodes' = opcodes /\ execution' = execution
           /\ ~CountOpcode /\ ~exec /\ ~SaveOpcodes
  <2>1. Ahead(o)' = Ahead(o) /\ (is_mem' = is_mem \/ Ahead(o) = 0)
    BY <1>6, <1>0 DEF Next, Application, Handler, Checkpoint, Scan, instruction,
     on_ins, SaveFanout, SaveAge, SaveMemory, SaveExecution,
     SaveImage, ScanRegister, ScanImmediate, ScanMemory, ScanDone, Scanning,
     WriteRegister, RegistersWritten, WriteMemory, MemoryWritten,
     on_finish, handle_signal, Kill, vars, locals, AfterCheckpoint, Ahead
  <2>2. Executions' = Executions
    BY <1>6 DEF Executions
  <2> QED
    BY <1>6, <1>i, <1>p, <2>1, <2>2
<1>7. QED
  BY <1>1, <1>2, <1>3, <1>4, <1>5, <1>6, <1>i, <1>p, ExecutionSteps, OpcodesSteps

\* Empty tables add up.
LEMMA InitSums == Init => Position /\ MemFlag /\ OpcodeSums
<1> SUFFICES ASSUME Init PROVE Position /\ MemFlag /\ OpcodeSums
  OBVIOUS
<1>1. Position /\ MemFlag
  BY DEF Init, Position, MemFlag, AfterScan
<1>2. ASSUME NEW o \in Opcode
      PROVE  /\ Counted(opcodes, o, Times) = Sum(Executions, OfOpcode(o)) + Ahead(o)
             /\ Counted(opcodes, o, MemTimes)
                  = Sum(Executions, WithMemory(o)) + (IF is_mem THEN Ahead(o) ELSE 0)
  <2>1. Counted(opcodes, o, Times) = 0 /\ Counted(opcodes, o, MemTimes) = 0
    BY EmptyStoreType DEF Init, OpcodeField, Times, MemTimes
  <2>2. \A a \in Addr : Executions[a] = 0
    BY EmptyStoreType DEF Init, ExecField, Executions
  <2>3. /\ OfOpcode(o) \subseteq Addr /\ IsFiniteSet(OfOpcode(o))
        /\ WithMemory(o) \subseteq Addr /\ IsFiniteSet(WithMemory(o))
    <3>1. OfOpcode(o) \subseteq Addr /\ WithMemory(o) \subseteq Addr
      BY DEF OfOpcode, WithMemory
    <3> QED
      BY <3>1, FS_Subset, FiniteAssumption
  <2>4. Sum(Executions, OfOpcode(o)) = 0 /\ Sum(Executions, WithMemory(o)) = 0
    BY <2>2, <2>3, SumZero
  <2> QED
    BY <2>1, <2>4 DEF Init, Ahead
<1> QED
  BY <1>1, <1>2 DEF OpcodeSums

\* The sums of the opcodes, as an invariant.
LEMMA OpcodeInvariant == Spec => [](IInv /\ Position /\ MemFlag /\ OpcodeSums)
<1>1. Init => IInv /\ Position /\ MemFlag /\ OpcodeSums
  BY InitIInv, InitSums
<1>2. IInv /\ Position /\ MemFlag /\ OpcodeSums /\ [Next]_vars
        => (IInv /\ Position /\ MemFlag /\ OpcodeSums)'
  BY NextIInv, PositionNext, MemFlagNext, OpcodeSumsNext
<1> QED
  BY <1>1, <1>2, PTL DEF Spec

\* Between two callbacks opcodes.tbl and instrs.tbl add up to the same.
THEOREM OpcodesAddUp == Spec => []OpcodeTotals
<1>1. IInv /\ OpcodeSums => OpcodeTotals
  <2> SUFFICES ASSUME IInv, OpcodeSums, Idle, NEW o \in Opcode
               PROVE  /\ Counted(opcodes, o, Times) = Sum(Executions, OfOpcode(o))
                      /\ Counted(opcodes, o, MemTimes) = Sum(Executions, WithMemory(o))
    BY DEF OpcodeTotals, Times, MemTimes, WithMemory
  <2>1. Ahead(o) = 0
    BY Sizes DEF Ahead, IInv, Running, TypeOK, Idle
  <2>2. Sum(Executions, OfOpcode(o)) \in Nat /\ Sum(Executions, WithMemory(o)) \in Nat
    <3>1. OfOpcode(o) \subseteq Addr /\ WithMemory(o) \subseteq Addr
      BY DEF OfOpcode, WithMemory
    <3>2. Executions \in [Addr -> Nat]
      BY ExecutionsType DEF IInv
    <3> QED
      BY <3>1, <3>2, SumNat, FS_Subset, FiniteAssumption
  <2> QED
    BY <2>1, <2>2 DEF OpcodeSums
<1> QED
  BY OpcodeInvariant, <1>1, PTL

(***************************************************************************)
(* What a killed process loses.                                            *)
(***************************************************************************)
\* instrs.tbl may lack the executions since the last checkpoint: PERIOD of them
\* when the next is due and has not written the table yet.
Late == pc \in {"app", "fanout", "age", "memory", "execution", "exited", "killed"}

\* That many at most.
Behind == IF Late /\ total % PERIOD = 0 THEN PERIOD ELSE total % PERIOD

\* LossBounded, by what has been counted.
LossInv ==
  /\ total = Sum(Executions, Addr)
  /\ Sum(ExecutionFile, Addr) >= total - Behind

\* The sums are numbers.
LEMMA AddrSums ==
  ASSUME TypeOK
  PROVE  Sum(Executions, Addr) \in Nat /\ Sum(ExecutionFile, Addr) \in Nat
<1>1. Executions \in [Addr -> Nat] /\ ExecutionFile \in [Addr -> Nat]
  BY ExecutionsType
<1> QED
  BY <1>1, SumNat, FiniteAssumption

\* The remainder by PERIOD grows by one or returns to zero.
LEMMA BehindType ==
  ASSUME TypeOK
  PROVE  /\ total % PERIOD \in 0 .. PERIOD - 1 /\ PERIOD \in Nat \ {0}
         /\ (total + 1) % PERIOD
              = IF (total % PERIOD) + 1 = PERIOD THEN 0 ELSE (total % PERIOD) + 1
         /\ Behind \in 0 .. PERIOD
<1>1. total \in Nat /\ PERIOD \in Nat \ {0}
  BY SizesAssumption DEF TypeOK
<1>2. /\ total % PERIOD \in 0 .. PERIOD - 1
      /\ (total + 1) % PERIOD
              = IF (total % PERIOD) + 1 = PERIOD THEN 0 ELSE (total % PERIOD) + 1
  BY <1>1, NextRemainder
<1> QED
  BY <1>1, <1>2 DEF Behind

\* exec puts the file one more behind, SaveExecution brings it level, and a
\* call that is due for a checkpoint does not pass it by.
LEMMA LossNext ==
  ASSUME IInv, IInv', LossInv, [Next]_vars
  PROVE  LossInv'
<1> DEFINE file == Sum(ExecutionFile, Addr)
           all == Sum(Executions, Addr)
           r == total % PERIOD
<1>t. /\ TypeOK /\ total \in Nat /\ total' \in Nat
      /\ all \in Nat /\ file \in Nat
      /\ r \in 0 .. PERIOD - 1 /\ PERIOD \in Nat \ {0}
      /\ execution \in Store(Addr, ExecField) /\ "count" \in ExecField
  BY AddrSums, BehindType DEF IInv, TypeOK, ExecField
<1>1. total = all /\ file >= total - Behind
  BY DEF LossInv
<1>2. CASE exec
  <2>1. total' = total + 1 /\ pc = "exec" /\ pc' = "app"
    BY <1>2 DEF exec
  <2>2. Sum(Executions', Addr) = all + 1
    BY <1>2, ExecCounts, ExecSum
  <2>3. Sum(ExecutionFile', Addr) >= file
    <3>1. /\ \A a \in Addr : ExecutionFile'[a] >= ExecutionFile[a]
          /\ ExecutionFile \in [Addr -> Nat]
      BY <1>2, <1>t, ExecCounts, ExecutionsType
    <3>2. \A a \in Addr : ExecutionFile'[a] \in Nat
      <4>1. execution' \in Store(Addr, ExecField)
        BY DEF IInv, TypeOK
      <4> QED
        BY <1>t, <4>1 DEF ExecutionFile, Store
    <3> QED
      BY <3>1, <3>2, SumLeq, FiniteAssumption
  <2>4. file >= total - r
    BY <1>1, <2>1 DEF Behind, Late
  <2>5. total' % PERIOD = IF r + 1 = PERIOD THEN 0 ELSE r + 1
    BY <1>t, <2>1, BehindType
  <2>6. Sum(ExecutionFile', Addr) \in Int
    <3>1. execution' \in Store(Addr, ExecField)
      BY DEF IInv, TypeOK
    <3>2. \A a \in Addr : ExecutionFile'[a] \in Nat
      BY <1>t, <3>1 DEF ExecutionFile, Store
    <3> QED
      BY <3>2, SumType, FiniteAssumption
  <2>7. Behind' = IF total' % PERIOD = 0 THEN PERIOD ELSE total' % PERIOD
    BY <2>1 DEF Behind, Late
  <2>8. Sum(ExecutionFile', Addr) >= total' - Behind'
    BY <1>t, <2>1, <2>3, <2>4, <2>5, <2>6, <2>7
  <2> QED
    BY <1>1, <2>1, <2>2, <2>8 DEF LossInv
<1>3. CASE SaveExecution
  <2>1. execution' = Evict(execution, execution.cached)
    BY <1>3 DEF SaveExecution, Save
  <2>2. Executions' = Executions
    BY <1>t, <2>1, EvictCounted DEF Executions
  <2>3. /\ execution' \in Store(Addr, ExecField) /\ Flushed(execution', Addr)
    BY <1>3, <1>t, SaveFlushes DEF SaveExecution, IInv, AllResident
  <2>4. ExecutionFile' = Executions'
    BY <1>t, <2>3, FlushedStored DEF Executions, ExecutionFile
  <2>5. total' = total /\ Behind' \in Nat
    BY <1>3, <1>t DEF SaveExecution, Behind
  <2> QED
    BY <1>1, <1>t, <2>2, <2>4, <2>5 DEF LossInv
<1>4. CASE execution' = execution /\ ~exec /\ ~SaveExecution
  <2>1. Executions' = Executions /\ ExecutionFile' = ExecutionFile
    BY <1>4 DEF Executions, ExecutionFile
  <2>2. total' = total /\ (Late' \/ ~Late \/ r # 0)
    BY <1>4 DEF Next, Application, Handler, Checkpoint, Scan, instruction,
     on_ins, SaveFanout, SaveAge, SaveMemory,
     SaveOpcodes, SaveImage, ScanRegister, ScanImmediate, ScanMemory, ScanDone,
     Scanning, WriteRegister, RegistersWritten, WriteMemory, MemoryWritten,
     CountOpcode, on_finish, handle_signal, Kill, vars, locals, statics,
     AfterCheckpoint, Late, CheckpointDue
  <2>3. Behind' >= Behind /\ Behind' \in Nat /\ Behind \in Nat
    BY <1>t, <2>2 DEF Behind
  <2>4. total' = all /\ file >= total' - Behind'
    BY <1>1, <1>t, <2>2, <2>3
  <2> QED
    BY <2>1, <2>4 DEF LossInv
<1> QED
  BY <1>2, <1>3, <1>4, ExecutionSteps

\* A new table lacks nothing.
LEMMA InitLoss == Init => LossInv
<1> SUFFICES ASSUME Init PROVE LossInv
  OBVIOUS
<1>1. \A a \in Addr : Executions[a] = 0 /\ ExecutionFile[a] = 0
  BY EmptyStoreType DEF Init, ExecField, Executions, ExecutionFile, EmptyStore, Zero
<1>2. Sum(Executions, Addr) = 0 /\ Sum(ExecutionFile, Addr) = 0
  BY <1>1, SumZero, FiniteAssumption
<1>3. total = 0 /\ Behind \in Nat
  BY BehindType, InitIInv DEF Init, IInv
<1> QED
  BY <1>2, <1>3 DEF LossInv

\* A killed process loses no more than the executions since its last checkpoint.
THEOREM LossIsBounded == Spec => []LossBounded
<1>1. IInv /\ LossInv => LossBounded
  <2> SUFFICES ASSUME IInv, LossInv PROVE LossBounded
    OBVIOUS
  <2> DEFINE lost == [a \in Addr |-> ran[a] - ExecutionFile[a]]
             done == [a \in Addr |-> ran[a]]
  <2>1. /\ Executions \in [Addr -> Nat] /\ ExecutionFile \in [Addr -> Nat]
        /\ ran \in [Addr -> Nat] /\ total \in Nat /\ ins \in Addr \cup {NoIns}
        /\ Behind \in 0 .. PERIOD /\ PERIOD \in Nat
        /\ Sum(Executions, Addr) \in Nat /\ Sum(ExecutionFile, Addr) \in Nat
    BY ExecutionsType, BehindType, AddrSums DEF IInv, TypeOK
  <2>2. \A a \in Addr : done[a] = Executions[a] + (IF ins = a THEN 1 ELSE 0)
    BY <2>1 DEF IInv, NoExecutionLost, Executions
  <2>3. Sum(done, Addr) = total + (IF Idle THEN 0 ELSE 1)
    <3>1. CASE ins \in Addr
      <4>1. /\ \A a \in Addr : Executions[a] \in Int /\ done[a] \in Int
            /\ \A a \in Addr \ {ins} : Executions[a] = done[a]
            /\ done[ins] - Executions[ins] = 1
        BY <2>1, <2>2, <3>1
      <4>2. Sum(done, Addr) = Sum(Executions, Addr) + (done[ins] - Executions[ins])
        BY <3>1, <4>1, SumChange, FiniteAssumption
      <4> QED
        BY <2>1, <3>1, <4>1, <4>2, Sizes DEF LossInv, Idle
    <3>2. CASE ins \notin Addr
      <4>1. \A a \in Addr : done[a] = Executions[a]
        BY <2>1, <2>2, <3>2
      <4>2. Sum(done, Addr) = Sum(Executions, Addr)
        BY <4>1, SumSame, FiniteAssumption
      <4> QED
        BY <2>1, <3>2, <4>2 DEF LossInv, Idle
    <3> QED
      BY <3>1, <3>2
  <2>4. Sum(lost, Addr) = Sum(done, Addr) - Sum(ExecutionFile, Addr)
    <3>1. \A a \in Addr : /\ done[a] \in Int /\ ExecutionFile[a] \in Int
                          /\ lost[a] = done[a] - ExecutionFile[a]
      BY <2>1
    <3> QED
      BY <3>1, SumMinus, FiniteAssumption
  <2> HIDE DEF lost, done
  <2>5. Sum(lost, Addr) <= PERIOD + (IF Idle THEN 0 ELSE 1)
    BY <2>1, <2>3, <2>4 DEF LossInv
  <2> QED
    BY <2>5 DEF LossBounded, lost
<1>2. Init => IInv /\ LossInv
  BY InitIInv, InitLoss
<1>3. IInv /\ LossInv /\ [Next]_vars => (IInv /\ LossInv)'
  BY NextIInv, LossNext
<1> QED
  BY <1>1, <1>2, <1>3, PTL DEF Spec

(***************************************************************************)
(* How far a call has come with a set of its operands.                     *)
(***************************************************************************)
\* How many of the positions S are scanned when the first k operands are.
UpTo(S, k) == Cardinality({n \in S : n <= k})

\* Scanning one more, none and all.
LEMMA UpToNext ==
  ASSUME NEW L \in Nat, NEW S \in SUBSET (1 .. L)
  PROVE  /\ Cardinality(S) \in Nat
         /\ \A k \in Nat : UpTo(S, k) \in Nat
         /\ UpTo(S, 0) = 0 /\ UpTo(S, L) = Cardinality(S)
         /\ \A k \in 1 .. L : UpTo(S, k) = UpTo(S, k - 1) + (IF k \in S THEN 1 ELSE 0)
<1>1. /\ IsFiniteSet(S) /\ Cardinality(S) \in Nat
      /\ \A k : IsFiniteSet({n \in S : n <= k}) /\ UpTo(S, k) \in Nat
  <2>1. IsFiniteSet(1 .. L)
    BY FS_Interval
  <2>2. \A T \in SUBSET (1 .. L) : IsFiniteSet(T) /\ Cardinality(T) \in Nat
    BY <2>1, FS_Subset, FS_CardinalityType
  <2>3. \A k : {n \in S : n <= k} \in SUBSET (1 .. L)
    OBVIOUS
  <2> QED
    BY <2>2, <2>3 DEF UpTo
<1>n. \A n \in S : n \in Int /\ 1 <= n /\ n <= L
  OBVIOUS
<1>2. {n \in S : n <= 0} = {} /\ {n \in S : n <= L} = S
  <2>1. \A n \in S : ~(n <= 0) /\ n <= L
    BY <1>n
  <2> QED
    BY <2>1, Zenon
<1>3. UpTo(S, 0) = 0 /\ UpTo(S, L) = Cardinality(S)
  BY <1>2, FS_EmptySet DEF UpTo
<1>4. ASSUME NEW k \in 1 .. L
      PROVE  UpTo(S, k) = UpTo(S, k - 1) + (IF k \in S THEN 1 ELSE 0)
  <2> DEFINE old == {n \in S : n <= k - 1}
  <2>0. /\ \A n \in S : n <= k <=> n <= k - 1 \/ n = k
        /\ ~(k <= k - 1)
    BY <1>n
  <2>1. CASE k \in S
    <3>1. {n \in S : n <= k} = old \cup {k} /\ k \notin old
      BY <2>0, <2>1, Zenon
    <3>2. Cardinality(old \cup {k}) = Cardinality(old) + 1
      BY <1>1, <3>1, FS_AddElement
    <3> QED
      BY <2>1, <3>1, <3>2 DEF UpTo
  <2>2. CASE k \notin S
    <3>1. {n \in S : n <= k} = old
      BY <2>0, <2>2, Zenon
    <3>2. UpTo(S, k - 1) \in Nat
      BY <1>1
    <3>3. UpTo(S, k) = UpTo(S, k - 1)
      BY <3>1 DEF UpTo
    <3> QED
      BY <2>2, <3>2, <3>3
  <2> QED
    BY <2>1, <2>2
<1> QED
  BY <1>1, <1>3, <1>4

\* The sets of operands that are counted.
LEMMA OperandSets ==
  ASSUME NEW a \in Addr
  PROVE  /\ Len(Args(a)) \in Nat
         /\ MemReads(a) \in SUBSET (1 .. Len(Args(a)))
         /\ MemWrites(a) \in SUBSET (1 .. Len(Args(a)))
         /\ \A r : /\ RegReads(a, r) \in SUBSET (1 .. Len(Args(a)))
                   /\ RegWrites(a, r) \in SUBSET (1 .. Len(Args(a)))
BY ArgsLen DEF MemReads, MemWrites, RegReads, RegWrites

\* The operands counted so far, and one more.
LEMMA UpToScanned ==
  ASSUME IInv, ins \in Addr, NEW S \in SUBSET (1 .. Len(Args(ins)))
  PROVE  UpTo(S, Scanned) \in Nat
<1>1. Scanned \in Nat /\ Len(Args(ins)) \in Nat
  BY ArgsLen DEF IInv, TypeOK, Scanned
<1> DEFINE k == Scanned
<1> HIDE DEF k
<1>2. UpTo(S, k) \in Nat
  BY <1>1, UpToNext DEF k
<1> QED
  BY <1>2 DEF k

\* Of a set of operands, one more is counted if the step is at one of them.
LEMMA UpToOne ==
  ASSUME IInv, Position, NEW kind, Scanning(kind), UNCHANGED <<pc, ins>>,
         NEW S \in SUBSET (1 .. Len(Args(ins)))
  PROVE  /\ ins \in Addr /\ pc = "scan" /\ UpTo(S, Scanned) \in Nat
         /\ UpTo(S, Scanned') = UpTo(S, Scanned) + (IF i \in S THEN 1 ELSE 0)
<1>1. /\ ins \in Addr /\ i \in 1 .. Len(Args(ins)) /\ pc = "scan"
      /\ Scanned = i - 1 /\ Scanned' = i /\ Len(Args(ins)) \in Nat
  BY ScansOne, ArgsLen
<1> DEFINE L == Len(Args(ins))
<1>2. L \in Nat /\ S \in SUBSET (1 .. L) /\ i \in 1 .. L
  BY <1>1
<1> HIDE DEF L
<1>3. UpTo(S, i) = UpTo(S, i - 1) + (IF i \in S THEN 1 ELSE 0)
  <2>1. \A k \in 1 .. L : UpTo(S, k) = UpTo(S, k - 1) + (IF k \in S THEN 1 ELSE 0)
    BY <1>2, UpToNext, Zenon
  <2> QED
    BY <1>2, <2>1, Zenon
<1> QED
  BY <1>1, <1>3, UpToScanned

\* One execution more.
LEMMA Times1 == \A m, n \in Nat : (m + 1) * n = m * n + n /\ m * n \in Nat
OBVIOUS

\* A step begins a call, scans an operand, ends a call, or leaves the call
\* where it is.  (A call that is killed is not looked at any more.)
LEMMA Progress ==
  ASSUME IInv, Position, [Next]_vars, pc' # "killed" \/ Idle'
  PROVE  /\ pc # "killed" \/ Idle
         /\ \/ \E a \in Addr : on_ins(a) /\ ins = NoIns /\ Scanned' = 0
            \/ ScanRegister \/ ScanImmediate \/ ScanMemory
            \/ exec /\ ins \in Addr /\ Scanned = Len(Args(ins))
            \/ /\ UNCHANGED <<ins, ran>> /\ (ins \in Addr => Scanned' = Scanned)
               /\ ~exec
<1>t. /\ NoIns \notin Addr
      /\ pc \in {"app", "exited"} => ins = NoIns
      /\ pc \in {"image", "scan", "reg_writes", "mem_writes", "opcode", "exec"}
           => ins \in Addr
      /\ pc \notin {"scan", "reg_writes", "mem_writes", "killed"} => i = 1
  BY Sizes DEF IInv, TypeOK, Running, Idle, Position
<1>0. pc # "killed" \/ Idle
  BY DEF Next, Application, Handler, Checkpoint, Scan, instruction,
     on_ins, SaveFanout, SaveAge, SaveMemory, SaveExecution, SaveOpcodes,
     SaveImage, ScanRegister, ScanImmediate, ScanMemory, ScanDone, Scanning,
     WriteRegister, RegistersWritten, WriteMemory, MemoryWritten, CountOpcode,
     exec, on_finish, handle_signal, Kill, vars, locals, Idle
<1>1. ASSUME NEW a \in Addr, on_ins(a)
      PROVE  on_ins(a) /\ ins = NoIns /\ Scanned' = 0
  BY <1>1, <1>t DEF on_ins, AfterCheckpoint, Scanned, AfterScan
<1>2. CASE exec
  BY <1>2, <1>t DEF exec, Scanned, AfterScan
<1>3. CASE ScanDone
  BY <1>3, ScansAll, Zenon DEF ScanDone, exec
<1>4. CASE Checkpoint \/ SaveImage
  <2>1. UNCHANGED <<ins, ran, i>> /\ i = 1 /\ ~exec
    BY <1>4, <1>t DEF Checkpoint, SaveFanout, SaveAge, SaveMemory, SaveExecution,
       SaveOpcodes, SaveImage, locals, exec
  <2>2. Scanned = 0 /\ Scanned' = 0
    BY <1>4, <2>1 DEF Checkpoint, SaveFanout, SaveAge, SaveMemory, SaveExecution,
       SaveOpcodes, SaveImage, AfterCheckpoint, Scanned, AfterScan
  <2> QED
    BY <1>0, <2>1, <2>2
<1>5. CASE WriteRegister \/ RegistersWritten \/ WriteMemory \/ MemoryWritten \/ CountOpcode
  BY <1>5 DEF WriteRegister, RegistersWritten, WriteMemory, MemoryWritten,
     CountOpcode, locals, Scanned, AfterScan, exec
<1>6. CASE \E a \in Addr : instruction(a)
  BY <1>6 DEF instruction, locals, Scanned, exec
<1>7. CASE on_finish \/ handle_signal
  BY <1>7, <1>t DEF on_finish, handle_signal, locals, exec
<1>8. CASE Kill
  BY <1>8, <1>t, Sizes DEF Kill, locals, Idle, exec
<1>9. CASE UNCHANGED vars
  BY <1>0, <1>9 DEF vars, locals, Scanned, exec
<1> QED
  BY <1>0, <1>1, <1>2, <1>3, <1>4, <1>5, <1>6, <1>7, <1>8, <1>9
     DEF Next, Application, Handler, Scan

(***************************************************************************)
(* memory.tbl adds up.                                                     *)
(***************************************************************************)
\* mem_list has one address per operand scanned that writes memory.
MemList ==
  /\ pc \in {"scan", "reg_writes", "mem_writes"} =>
       Len(mem_list) = UpTo(MemWrites(ins), Scanned)
  /\ pc \notin {"scan", "reg_writes", "mem_writes", "killed"} => mem_list = <<>>

\* What the call that is running has not counted yet of address a.
ReadsPending(a) ==
  IF a = ins THEN Cardinality(MemReads(a)) - UpTo(MemReads(a), Scanned) ELSE 0
WritesPending(a) ==
  IF a # ins \/ pc \in {"opcode", "exec"} THEN 0
  ELSE IF pc = "mem_writes" THEN Len(mem_list) - (i - 1)
  ELSE Cardinality(MemWrites(a))

\* MemoryTotals, less what is pending.
MemSums ==
  pc # "killed" \/ Idle =>
    \A a \in Addr :
      /\ Sum(AccessesAt(a, "read"), MemAddr)
           = ran[a] * Cardinality(MemReads(a)) - ReadsPending(a)
      /\ Sum(AccessesAt(a, "write"), MemAddr)
           = ran[a] * Cardinality(MemWrites(a)) - WritesPending(a)

\* Only ScanMemory appends to mem_list, and MemoryWritten clears it.
LEMMA MemListNext ==
  ASSUME IInv, IInv', Position, MemList, [Next]_vars
  PROVE  MemList'
<1>t. /\ mem_list \in Seq(MemAddr)
      /\ pc \in {"scan"} \cup AfterScan => ins \in Addr
      /\ pc \in {"opcode", "exec"} => mem_list = <<>>
      /\ pc' \in {"opcode", "exec"} => mem_list' = <<>>
  BY DEF IInv, TypeOK, Running, AfterScan, EmptiedInTime
<1>1. CASE ScanMemory
  <2>1. /\ ins \in Addr /\ i \in 1 .. Len(Args(ins)) /\ pc = "scan" /\ pc' = pc
        /\ ins' = ins /\ Arg.kind = "mem"
    BY <1>1, ScansOne DEF ScanMemory, Scanning
  <2>2. Len(mem_list') = Len(mem_list) + (IF i \in MemWrites(ins) THEN 1 ELSE 0)
    <3>1. i \in MemWrites(ins) <=> Arg.write
      BY <2>1 DEF MemWrites, Arg
    <3>2. \E m \in MemAddr : mem_list' = IF Arg.write THEN Append(mem_list, m) ELSE mem_list
      BY <1>1 DEF ScanMemory
    <3>3. Len(mem_list) \in Nat /\ \A m \in MemAddr : Len(Append(mem_list, m)) = Len(mem_list) + 1
      BY <1>t
    <3> QED
      BY <3>1, <3>2, <3>3
  <2>3. Len(mem_list) = UpTo(MemWrites(ins), Scanned)
    BY <2>1 DEF MemList
  <2>4. UpTo(MemWrites(ins), Scanned')
          = UpTo(MemWrites(ins), Scanned) + (IF i \in MemWrites(ins) THEN 1 ELSE 0)
    BY <1>1, <2>1, OperandSets, UpToOne DEF ScanMemory
  <2>5. Len(mem_list') = UpTo(MemWrites(ins), Scanned')
    BY <2>2, <2>3, <2>4
  <2> QED
    BY <2>1, <2>5 DEF MemList, UpTo, MemWrites
<1>2. CASE ScanRegister \/ ScanImmediate
  <2>1. /\ ins \in Addr /\ i \in 1 .. Len(Args(ins)) /\ pc = "scan" /\ pc' = pc
        /\ ins' = ins /\ Arg.kind # "mem" /\ mem_list' = mem_list
    BY <1>2, ScansOne DEF ScanRegister, ScanImmediate, Scanning
  <2>2. i \notin MemWrites(ins)
    BY <2>1 DEF MemWrites, Arg
  <2>3. Len(mem_list) = UpTo(MemWrites(ins), Scanned)
    BY <2>1 DEF MemList
  <2>4. /\ UpTo(MemWrites(ins), Scanned')
             = UpTo(MemWrites(ins), Scanned) + (IF i \in MemWrites(ins) THEN 1 ELSE 0)
        /\ UpTo(MemWrites(ins), Scanned) \in Nat
    BY <1>2, <2>1, OperandSets, UpToOne DEF ScanRegister, ScanImmediate
  <2>5. Len(mem_list') = UpTo(MemWrites(ins), Scanned')
    BY <2>1, <2>2, <2>3, <2>4
  <2> QED
    BY <2>1, <2>5 DEF MemList, UpTo, MemWrites
<1>3. CASE ScanDone
  <2>1. /\ Scanned' = Scanned /\ ins' = ins /\ mem_list' = mem_list
        /\ pc = "scan" /\ pc' = "reg_writes"
    BY <1>3, ScansAll DEF ScanDone, statics
  <2> QED
    BY <2>1 DEF MemList, UpTo, MemWrites
<1>4. CASE SaveOpcodes \/ SaveImage \/ \E a \in Addr : on_ins(a)
  <2>1. /\ mem_list' = mem_list /\ mem_list = <<>>
        /\ pc' \notin {"reg_writes", "mem_writes"} /\ i' = i /\ i = 1
    BY <1>4 DEF SaveOpcodes, SaveImage, on_ins, AfterCheckpoint, MemList, locals,
       statics, Position
  <2>2. CASE pc' = "scan"
    <3>1. ins' \in Addr /\ Scanned' = 0
      <4>1. ins' \in Addr
        BY <2>2 DEF IInv, TypeOK, Running
      <4> QED
        BY <2>1, <2>2, <4>1 DEF Scanned
    <3>2. UpTo(MemWrites(ins'), 0) = 0
      BY <3>1, OperandSets, UpToNext
    <3> QED
      BY <2>1, <2>2, <3>1, <3>2 DEF MemList, UpTo, MemWrites
  <2>3. CASE pc' # "scan"
    BY <2>1, <2>3 DEF MemList
  <2> QED
    BY <2>2, <2>3
<1>5. CASE WriteRegister \/ RegistersWritten \/ WriteMemory
  <2>1. /\ pc \in {"reg_writes", "mem_writes"} /\ pc' \in {"reg_writes", "mem_writes"}
        /\ ins' = ins /\ mem_list' = mem_list /\ Scanned' = Scanned
    BY <1>5 DEF WriteRegister, RegistersWritten, WriteMemory, statics, Scanned, AfterScan
  <2> QED
    BY <2>1 DEF MemList, UpTo, MemWrites
<1>6. CASE MemoryWritten \/ CountOpcode \/ exec
  BY <1>6, <1>t DEF MemoryWritten, CountOpcode, exec, clear, statics, MemList
<1>7. CASE \/ SaveFanout \/ SaveAge \/ SaveMemory \/ SaveExecution
           \/ \E a \in Addr : instruction(a)
           \/ on_finish \/ handle_signal \/ Kill
  BY <1>7 DEF SaveFanout, SaveAge, SaveMemory, SaveExecution, instruction, on_finish,
     handle_signal, Kill, statics, MemList
<1>8. CASE UNCHANGED vars
  BY <1>8 DEF vars, locals, statics, MemList, UpTo, MemWrites, Scanned
<1> QED
  BY <1>1, <1>2, <1>3, <1>4, <1>5, <1>6, <1>7, <1>8
     DEF Next, Application, Handler, Scan, Checkpoint

\* One access more is counted at one address.
LEMMA AccessCounts ==
  ASSUME IInv, NEW a \in Addr, NEW m \in MemAddr, NEW f \in MemField, NEW E,
         memory' = Bump(Get(memory, <<a, m>>, E), <<a, m>>, f)
  PROVE  \A b \in Addr, g \in MemField :
           /\ Sum(AccessesAt(b, g), MemAddr) \in Nat
           /\ Sum(AccessesAt(b, g)', MemAddr)
                = Sum(AccessesAt(b, g), MemAddr) + (IF b = a /\ g = f THEN 1 ELSE 0)
<1> DEFINE key == <<a, m>>
           got == Get(memory, key, E)
<1>t. memory \in Store(MemKey, MemField) /\ key \in MemKey
  BY DEF IInv, TypeOK, MemKey
<1> HIDE DEF key
<1>1. /\ got \in Store(MemKey, MemField)
      /\ \A k \in MemKey, g \in MemField : Counted(got, k, g) = Counted(memory, k, g)
  BY <1>t, GetKeeps
<1>2. memory' = Bump(got, key, f)
  BY DEF key
<1> HIDE DEF got
<1>3. \A k \in MemKey, g \in MemField :
        /\ Counted(memory', k, g)
             = Counted(memory, k, g) + (IF k = key /\ g = f THEN 1 ELSE 0)
        /\ Counted(memory, k, g) \in Nat
  <2>1. \A k \in MemKey, g \in MemField : Counted(memory, k, g) \in Nat
    BY <1>t DEF Store, Counted
  <2> QED
    BY <1>1, <1>2, <1>t, <2>1, BumpCounts
<1> TAKE b \in Addr, g \in MemField
<1> DEFINE old == AccessesAt(b, g)
           new == AccessesAt(b, g)'
<1>4. \A n \in MemAddr :
        /\ old[n] \in Nat
        /\ new[n] = old[n] + (IF n = m /\ b = a /\ g = f THEN 1 ELSE 0)
  <2> TAKE n \in MemAddr
  <2>1. <<b, n>> \in MemKey /\ (<<b, n>> = key <=> b = a /\ n = m)
    BY DEF MemKey, key
  <2>2. old[n] = Counted(memory, <<b, n>>, g) /\ new[n] = Counted(memory', <<b, n>>, g)
    BY DEF AccessesAt
  <2> HIDE DEF old, new
  <2> QED
    BY <1>3, <2>1, <2>2
<1> HIDE DEF old, new
<1>5. Sum(old, MemAddr) \in Nat
  BY <1>4, SumNat, FiniteAssumption
<1>6. Sum(new, MemAddr) = Sum(old, MemAddr) + (IF b = a /\ g = f THEN 1 ELSE 0)
  <2>1. CASE b = a /\ g = f
    <3>1. /\ \A n \in MemAddr : old[n] \in Int /\ new[n] \in Int
          /\ \A n \in MemAddr \ {m} : old[n] = new[n]
          /\ new[m] - old[m] = 1
      BY <1>4, <2>1
    <3> QED
      BY <2>1, <3>1, SumChange, FiniteAssumption
  <2>2. CASE ~(b = a /\ g = f)
    <3>1. \A n \in MemAddr : new[n] = old[n]
      BY <1>4, <2>2
    <3>2. Sum(new, MemAddr) = Sum(old, MemAddr)
      BY <3>1, SumSame, FiniteAssumption
    <3> QED
      BY <1>5, <2>2, <3>2
  <2> QED
    BY <2>1, <2>2
<1> QED
  BY <1>5, <1>6 DEF old, new

\* A read is counted when its operand is scanned, a write when its entry is
\* taken from the list; a call begins with all pending and ends with none.
LEMMA MemSumsNext ==
  ASSUME IInv, IInv', Position, Position', MemList, MemSums, [Next]_vars
  PROVE  MemSums'
<1> SUFFICES ASSUME pc' # "killed" \/ Idle', NEW a \in Addr
             PROVE  /\ Sum(AccessesAt(a, "read")', MemAddr)
                         = ran'[a] * Cardinality(MemReads(a)) - ReadsPending(a)'
                    /\ Sum(AccessesAt(a, "write")', MemAddr)
                         = ran'[a] * Cardinality(MemWrites(a)) - WritesPending(a)'
  BY DEF MemSums, MemReads, MemWrites
<1> DEFINE R == MemReads(a)
           W == MemWrites(a)
           reads == Sum(AccessesAt(a, "read"), MemAddr)
           writes == Sum(AccessesAt(a, "write"), MemAddr)
           reads1 == Sum(AccessesAt(a, "read")', MemAddr)
           writes1 == Sum(AccessesAt(a, "write")', MemAddr)
<1>0. pc # "killed" \/ Idle
  BY Progress
<1>p. /\ reads = ran[a] * Cardinality(R) - ReadsPending(a)
      /\ writes = ran[a] * Cardinality(W) - WritesPending(a)
  BY <1>0 DEF MemSums
<1>t. /\ ran \in [Addr -> Nat] /\ ran[a] \in Nat /\ i \in Nat \ {0}
      /\ Cardinality(R) \in Nat /\ Cardinality(W) \in Nat
      /\ R' = R /\ W' = W
      /\ memory \in Store(MemKey, MemField)
      /\ "read" \in MemField /\ "write" \in MemField /\ "read" # "write"
      /\ mem_list \in Seq(MemAddr) /\ Len(mem_list) \in Nat
  <2>1. Cardinality(R) \in Nat /\ Cardinality(W) \in Nat
    BY OperandSets, UpToNext
  <2>2. R' = R /\ W' = W
    BY DEF MemReads, MemWrites
  <2> HIDE DEF R, W
  <2> QED
    BY <2>1, <2>2 DEF IInv, TypeOK, MemField
<1>u. /\ UpTo(R, 0) = 0 /\ UpTo(R, Len(Args(a))) = Cardinality(R)
      /\ UpTo(W, 0) = 0 /\ UpTo(W, Len(Args(a))) = Cardinality(W)
  BY OperandSets, UpToNext
<1>r. /\ ReadsPending(a) = IF a = ins THEN Cardinality(R) - UpTo(R, Scanned) ELSE 0
      /\ ReadsPending(a)' = IF a = ins' THEN Cardinality(R) - UpTo(R, Scanned') ELSE 0
      /\ WritesPending(a) =
           IF a # ins \/ pc \in {"opcode", "exec"} THEN 0
           ELSE IF pc = "mem_writes" THEN Len(mem_list) - (i - 1) ELSE Cardinality(W)
      /\ WritesPending(a)' =
           IF a # ins' \/ pc' \in {"opcode", "exec"} THEN 0
           ELSE IF pc' = "mem_writes" THEN Len(mem_list') - (i' - 1) ELSE Cardinality(W)
  BY <1>t DEF ReadsPending, WritesPending, UpTo
<1>m. memory' = memory => reads1 = reads /\ writes1 = writes
  BY DEF AccessesAt
<1>n. ins = a => UpTo(R, Scanned) \in Nat
  BY OperandSets, UpToScanned
<1>k. /\ ran[a] * Cardinality(R) \in Nat /\ ran[a] * Cardinality(W) \in Nat
      /\ (ran[a] + 1) * Cardinality(R) = ran[a] * Cardinality(R) + Cardinality(R)
      /\ (ran[a] + 1) * Cardinality(W) = ran[a] * Cardinality(W) + Cardinality(W)
  BY <1>t, Times1
<1> HIDE DEF R, W, reads, writes, reads1, writes1
<1> DEFINE Goal == /\ reads1 = ran'[a] * Cardinality(R) - ReadsPending(a)'
                   /\ writes1 = ran'[a] * Cardinality(W) - WritesPending(a)'
<1>1. ASSUME NEW b \in Addr, on_ins(b), ins = NoIns, Scanned' = 0
      PROVE  Goal
  <2>1. /\ memory' = memory /\ ins' = b
        /\ pc' \in {"fanout", "image", "scan"}
        /\ ran'[a] = IF a = b THEN ran[a] + 1 ELSE ran[a]
    BY <1>1, <1>t DEF on_ins, tables, AfterCheckpoint
  <2>2. ins # a
    BY <1>1, Sizes
  <2>3. reads1 = ran[a] * Cardinality(R) /\ writes1 = ran[a] * Cardinality(W)
    BY <1>k, <1>m, <1>p, <1>r, <2>1, <2>2
  <2>4. CASE a = b
    <3>1. ReadsPending(a)' = Cardinality(R) - 0 /\ WritesPending(a)' = Cardinality(W)
      BY <1>1, <1>r, <1>u, <2>1, <2>4
    <3> QED
      BY <1>k, <1>t, <2>1, <2>3, <2>4, <3>1
  <2>5. CASE a # b
    <3>1. ReadsPending(a)' = 0 /\ WritesPending(a)' = 0
      BY <1>r, <2>1, <2>5
    <3> QED
      BY <1>k, <2>1, <2>3, <2>5, <3>1
  <2> QED
    BY <2>4, <2>5
<1>2. ASSUME exec, ins \in Addr, Scanned = Len(Args(ins))
      PROVE  Goal
  <2>1. memory' = memory /\ ins' = NoIns /\ ran' = ran /\ pc = "exec"
    BY <1>2 DEF exec
  <2>2. ReadsPending(a)' = 0 /\ WritesPending(a)' = 0
    BY <1>r, <2>1, Sizes
  <2>3. ReadsPending(a) = 0 /\ WritesPending(a) = 0
    BY <1>2, <1>r, <1>t, <1>u, <2>1
  <2> QED
    BY <1>m, <1>p, <2>1, <2>2, <2>3
<1>3. ASSUME ScanMemory PROVE Goal
  <2>1. /\ ins \in Addr /\ i \in 1 .. Len(Args(ins)) /\ pc = "scan" /\ pc' = pc
        /\ ins' = ins /\ Arg.kind = "mem"
        /\ ran' = ran
    BY <1>3, ScansOne DEF ScanMemory, Scanning
  <2>2. WritesPending(a)' = WritesPending(a)
    BY <1>r, <2>1
  <2>3. a = ins => (i \in R <=> Arg.read)
    BY <2>1 DEF MemReads, Arg, R
  <2>4. ReadsPending(a)' = ReadsPending(a) - (IF a = ins /\ Arg.read THEN 1 ELSE 0)
    <3>1. a = ins => UpTo(R, Scanned') = UpTo(R, Scanned) + (IF i \in R THEN 1 ELSE 0)
      BY <1>3, <2>1, OperandSets, UpToOne DEF ScanMemory, R
    <3> QED
      BY <1>n, <1>r, <1>t, <2>1, <2>3, <3>1
  <2>5. CASE ~Arg.read
    <3>1. memory' = memory
      BY <1>3, <2>5 DEF ScanMemory
    <3> QED
      BY <1>m, <1>p, <1>r, <1>t, <1>n, <2>1, <2>2, <2>4, <2>5, <3>1
  <2>6. CASE Arg.read
    <3>0. PICK m \in MemAddr :
            \E E : memory' = Bump(Get(memory, <<ins, m>>, E), <<ins, m>>, "read")
      BY <1>3, <2>6 DEF ScanMemory
    <3>1. PICK E : memory' = Bump(Get(memory, <<ins, m>>, E), <<ins, m>>, "read")
      BY <3>0
    <3>2. /\ reads1 = reads + (IF a = ins THEN 1 ELSE 0) /\ reads \in Nat
          /\ writes1 = writes + 0 /\ writes \in Nat
      BY <1>t, <2>1, <3>1, AccessCounts DEF reads, reads1, writes, writes1
    <3>3. ReadsPending(a) \in Int
      BY <1>n, <1>r, <1>t
    <3> QED
      BY <1>k, <1>p, <2>1, <2>2, <2>4, <2>6, <3>2, <3>3
  <2> QED
    BY <2>5, <2>6
<1>4. ASSUME ScanRegister \/ ScanImmediate PROVE Goal
  <2>1. /\ ins \in Addr /\ i \in 1 .. Len(Args(ins)) /\ pc = "scan" /\ pc' = pc
        /\ ins' = ins /\ Arg.kind # "mem"
        /\ ran' = ran /\ memory' = memory
    BY <1>4, ScansOne DEF ScanRegister, ScanImmediate, Scanning, tables
  <2>2. a = ins => i \notin R
    BY <2>1 DEF MemReads, Arg, R
  <2>3. a = ins => UpTo(R, Scanned') = UpTo(R, Scanned)
    <3>1. a = ins => UpTo(R, Scanned') = UpTo(R, Scanned) + (IF i \in R THEN 1 ELSE 0)
      BY <1>4, <2>1, OperandSets, UpToOne DEF ScanRegister, ScanImmediate, R
    <3> QED
      BY <1>n, <2>1, <2>2, <3>1
  <2>4. ReadsPending(a)' = ReadsPending(a) /\ WritesPending(a)' = WritesPending(a)
    BY <1>r, <2>1, <2>3
  <2> QED
    BY <1>m, <1>p, <2>1, <2>4
<1>5. ASSUME UNCHANGED <<ins, ran>>, ins \in Addr => Scanned' = Scanned,
             ~exec, ~ScanMemory, ~ScanRegister, ~ScanImmediate,
             ~\E b \in Addr : on_ins(b)
      PROVE  Goal
  <2>1. ReadsPending(a)' = ReadsPending(a)
    BY <1>5, <1>r
  <2>2. CASE WriteMemory
    <3>1. PICK E : memory' = Bump(Get(memory, <<ins, mem_list[i]>>, E),
                                  <<ins, mem_list[i]>>, "write")
      BY <2>2 DEF WriteMemory
    <3>2. /\ ins \in Addr /\ mem_list[i] \in MemAddr /\ pc = "mem_writes" /\ pc' = pc
          /\ i' = i + 1 /\ mem_list' = mem_list
      BY <2>2, <1>t DEF WriteMemory, statics, IInv, TypeOK, Running
    <3>3. /\ writes1 = writes + (IF a = ins THEN 1 ELSE 0) /\ writes \in Nat
          /\ reads1 = reads + 0 /\ reads \in Nat
      BY <1>t, <3>1, <3>2, AccessCounts DEF reads, reads1, writes, writes1
    <3>4. WritesPending(a)' = WritesPending(a) - (IF a = ins THEN 1 ELSE 0)
          /\ WritesPending(a) \in Int
      <4>1. CASE a = ins
        BY <1>r, <1>t, <1>5, <3>2, <4>1
      <4>2. CASE a # ins
        <5>1. WritesPending(a)' = 0 /\ WritesPending(a) = 0
          BY <1>r, <1>5, <4>2
        <5>2. 0 = 0 - 0 /\ 0 \in Int
          OBVIOUS
        <5> QED
          BY <4>2, <5>1, <5>2, Zenon
      <4> QED
        BY <4>1, <4>2
    <3> QED
      BY <1>5, <1>k, <1>p, <2>1, <3>3, <3>4
  <2>3. CASE SaveMemory
    <3>1. memory' = Evict(memory, memory.cached)
      BY <2>3 DEF SaveMemory, Save
    <3>2. \A m \in MemAddr, g \in MemField :
            Counted(memory', <<a, m>>, g) = Counted(memory, <<a, m>>, g)
      <4>1. \A m \in MemAddr : <<a, m>> \in MemKey
        BY DEF MemKey
      <4> QED
        BY <1>t, <3>1, <4>1, EvictCounted
    <3>3. reads1 = reads /\ writes1 = writes
      BY <1>t, <3>2 DEF reads, reads1, writes, writes1, AccessesAt
    <3>4. WritesPending(a)' = WritesPending(a)
      BY <1>5, <1>r, <2>3 DEF SaveMemory
    <3> QED
      BY <1>5, <1>p, <2>1, <3>3, <3>4
  <2>4. CASE RegistersWritten
    <3>1. /\ pc = "reg_writes" /\ pc' = "mem_writes" /\ i' = 1 /\ mem_list' = mem_list
          /\ ins \in Addr /\ memory' = memory
      BY <2>4 DEF RegistersWritten, IInv, TypeOK, Running, tables
    <3>2. a = ins => Len(mem_list) = Cardinality(W)
      BY <1>u, <3>1 DEF MemList, Scanned, AfterScan, W
    <3>3. WritesPending(a)' = WritesPending(a)
      BY <1>5, <1>r, <1>t, <3>1, <3>2
    <3> QED
      BY <1>5, <1>m, <1>p, <2>1, <3>1, <3>3
  <2>5. CASE MemoryWritten
    <3>1. /\ pc = "mem_writes" /\ pc' = "opcode" /\ i > Len(mem_list)
          /\ memory' = memory /\ i <= Len(mem_list) + 1
      BY <2>5 DEF MemoryWritten, tables, Position
    <3>2. WritesPending(a)' = 0 /\ WritesPending(a) = 0
      BY <1>5, <1>r, <1>t, <3>1
    <3> QED
      BY <1>5, <1>m, <1>p, <2>1, <3>1, <3>2
  <2>6. CASE ~WriteMemory /\ ~SaveMemory /\ ~RegistersWritten /\ ~MemoryWritten
    <3>1. memory' = memory
      BY <1>5, <2>6, MemorySteps
    <3>2. a = ins => /\ pc' \in {"opcode", "exec"} <=> pc \in {"opcode", "exec"}
                     /\ pc' = "mem_writes" <=> pc = "mem_writes"
                     /\ pc = "mem_writes" => UNCHANGED <<mem_list, i>>
      <4>1. a = ins => pc \notin {"app", "exited"} /\ pc' # "killed" /\ pc # "killed"
        BY <1>5, <1>0, Sizes DEF Idle, IInv, Running
      <4> QED
        BY <1>5, <2>6, <4>1 DEF Next, Application, Handler, Checkpoint, Scan,
           instruction, SaveFanout, SaveAge, SaveExecution, SaveOpcodes, SaveImage,
           ScanDone, WriteRegister, CountOpcode, on_finish, handle_signal, Kill,
           vars, locals, statics, AfterCheckpoint
    <3>3. WritesPending(a)' = WritesPending(a)
      BY <1>5, <1>r, <3>2
    <3> QED
      BY <1>5, <1>m, <1>p, <2>1, <3>1, <3>3
  <2> QED
    BY <2>2, <2>3, <2>4, <2>5, <2>6
<1>6. Goal
  <2>1. ScanMemory \/ ScanRegister \/ ScanImmediate => ~exec
    BY DEF ScanMemory, ScanRegister, ScanImmediate, Scanning, exec
  <2> HIDE DEF Goal
  <2>2. (\E b \in Addr : on_ins(b)) => ins' # ins \/ Goal
    BY <1>1, Sizes, Progress DEF on_ins, IInv, TypeOK, Running, Idle
  <2> QED
    BY <1>1, <1>2, <1>3, <1>4, <1>5, <2>1, <2>2, Progress
<1> QED
  BY <1>6 DEF R, W, reads1, writes1

\* An empty memory.tbl adds up.
LEMMA InitMemSums == Init => MemList /\ MemSums
<1> SUFFICES ASSUME Init PROVE MemList /\ MemSums
  OBVIOUS
<1>1. MemList
  BY DEF Init, MemList
<1>2. ASSUME NEW a \in Addr
      PROVE  /\ Sum(AccessesAt(a, "read"), MemAddr)
                  = ran[a] * Cardinality(MemReads(a)) - ReadsPending(a)
             /\ Sum(AccessesAt(a, "write"), MemAddr)
                  = ran[a] * Cardinality(MemWrites(a)) - WritesPending(a)
  <2>1. \A m \in MemAddr, f \in MemField : AccessesAt(a, f)[m] = 0
    <3>1. \A m \in MemAddr : <<a, m>> \in MemKey
      BY DEF MemKey
    <3> QED
      BY <3>1, EmptyStoreType DEF Init, AccessesAt
  <2>2. /\ Sum(AccessesAt(a, "read"), MemAddr) = 0
        /\ Sum(AccessesAt(a, "write"), MemAddr) = 0
    BY <2>1, SumZero, FiniteAssumption DEF MemField
  <2>3. ReadsPending(a) = 0 /\ WritesPending(a) = 0 /\ ran[a] = 0
    BY Sizes DEF Init, ReadsPending, WritesPending
  <2>4. Cardinality(MemReads(a)) \in Nat /\ Cardinality(MemWrites(a)) \in Nat
    BY OperandSets, UpToNext
  <2>5. \A n \in Nat : 0 = 0 * n - 0
    OBVIOUS
  <2> QED
    BY <2>2, <2>3, <2>4, <2>5, Zenon
<1> QED
  BY <1>1, <1>2 DEF MemSums

\* Between two callbacks memory.tbl has every access of every execution.
THEOREM MemoryAddsUp == Spec => []MemoryTotals
<1> DEFINE Inv == IInv /\ Position /\ MemList /\ MemSums
<1>1. Inv => MemoryTotals
  <2> SUFFICES ASSUME Inv, Idle, NEW a \in Addr
               PROVE  /\ Sum(AccessesAt(a, "read"), MemAddr)
                           = ran[a] * Cardinality(MemReads(a))
                      /\ Sum(AccessesAt(a, "write"), MemAddr)
                           = ran[a] * Cardinality(MemWrites(a))
    BY DEF MemoryTotals
  <2>1. ReadsPending(a) = 0 /\ WritesPending(a) = 0
    BY Sizes DEF ReadsPending, WritesPending, Idle
  <2>2. /\ ran[a] * Cardinality(MemReads(a)) \in Nat
        /\ ran[a] * Cardinality(MemWrites(a)) \in Nat
    <3>1. /\ ran[a] \in Nat
          /\ Cardinality(MemReads(a)) \in Nat /\ Cardinality(MemWrites(a)) \in Nat
      BY OperandSets, UpToNext DEF IInv, TypeOK
    <3> QED
      BY <3>1, Times1
  <2> QED
    BY <2>1, <2>2 DEF MemSums
<1>2. Init => Inv
  BY InitIInv, InitSums, InitMemSums
<1>3. Inv /\ [Next]_vars => Inv'
  BY NextIInv, PositionNext, MemListNext, MemSumsNext
<1> QED
  BY <1>1, <1>2, <1>3, PTL DEF Spec

(***************************************************************************)
(* The register record adds up: reads and writes.                          *)
(***************************************************************************)
\* The entries of write_list that name register r.
Entries(r) == {n \in 1 .. Len(write_list) : write_list[n] = r}

\* write_list has one entry per operand scanned that writes a register.
RegList ==
  /\ pc \in {"scan", "reg_writes"} =>
       \A r \in RegId : Cardinality(Entries(r)) = UpTo(RegWrites(ins, r), Scanned)
  /\ pc \notin {"scan", "reg_writes", "killed"} => write_list = <<>>

\* What the call that is running has not counted yet of register r.
RegReadsPending(r) ==
  IF ins \in Addr THEN Cardinality(RegReads(ins, r)) - UpTo(RegReads(ins, r), Scanned) ELSE 0
RegWritesPending(r) ==
  IF ins \notin Addr \/ pc \in {"mem_writes", "opcode", "exec"} THEN 0
  ELSE IF pc = "reg_writes" THEN Cardinality(Entries(r)) - UpTo(Entries(r), i - 1)
  ELSE Cardinality(RegWrites(ins, r))

\* RegisterTotals, less what is pending.
RegSums ==
  pc # "killed" \/ Idle =>
    \A r \in RegId :
      /\ registers.regs[r].reads = Sum(ReadsOf(r), Addr) - RegReadsPending(r)
      /\ registers.regs[r].writes = Sum(WritesOf(r), Addr) - RegWritesPending(r)

\* Where the record changes.
LEMMA RegisterSteps ==
  ASSUME [Next]_vars
  PROVE  SaveFanout \/ SaveAge \/ ScanRegister \/ WriteRegister \/ registers' = registers
BY DEF Next, Application, Handler, Checkpoint, Scan, instruction, on_ins,
       SaveMemory, SaveExecution, SaveOpcodes, SaveImage,
       ScanImmediate, ScanMemory, ScanDone, RegistersWritten, WriteMemory,
       MemoryWritten, CountOpcode, exec, on_finish, handle_signal, Kill,
       vars, tables

\* The entry of an operand that is scanned is appended.
LEMMA EntriesNext ==
  ASSUME IInv, NEW w \in RegId, write_list' = Append(write_list, w), NEW r \in RegId
  PROVE  Cardinality(Entries(r)') = Cardinality(Entries(r)) + (IF w = r THEN 1 ELSE 0)
<1> DEFINE n == Len(write_list)
<1>1. /\ write_list \in Seq(RegId) /\ n \in Nat
      /\ Len(write_list') = n + 1 /\ write_list'[n + 1] = w
      /\ \A k \in 1 .. n : write_list'[k] = write_list[k]
  BY DEF IInv, TypeOK
<1> HIDE DEF n
<1>2. \A k \in 1 .. n + 1 : k \in 1 .. n \/ k = n + 1
  BY <1>1
<1>3. n + 1 \notin 1 .. n /\ n + 1 \in 1 .. n + 1 /\ 1 .. n \subseteq 1 .. n + 1
  BY <1>1
<1>4. Entries(r)' = {k \in 1 .. n + 1 : write_list'[k] = r}
      /\ Entries(r) = {k \in 1 .. n : write_list[k] = r}
  BY <1>1 DEF Entries, n
<1>5. IsFiniteSet(Entries(r)) /\ Cardinality(Entries(r)) \in Nat
  <2>1. IsFiniteSet(1 .. n) /\ Entries(r) \subseteq 1 .. n
    <3>1. IsFiniteSet(1 .. n)
      BY <1>1, FS_Interval
    <3> QED
      BY <1>4, <3>1, Zenon
  <2> QED
    BY <2>1, FS_Subset, FS_CardinalityType
<1>6. CASE w = r
  <2>1. Entries(r)' = Entries(r) \cup {n + 1} /\ n + 1 \notin Entries(r)
    BY <1>1, <1>2, <1>3, <1>4, <1>6, Zenon
  <2>2. Cardinality(Entries(r) \cup {n + 1}) = Cardinality(Entries(r)) + 1
    BY <1>5, <2>1, FS_AddElement
  <2> QED
    BY <1>6, <2>1, <2>2
<1>7. CASE w # r
  <2>1. Entries(r)' = Entries(r)
    BY <1>1, <1>2, <1>3, <1>4, <1>7, Zenon
  <2> QED
    BY <1>5, <1>7, <2>1
<1> QED
  BY <1>6, <1>7

\* Only ScanRegister appends to write_list, and RegistersWritten clears it.
LEMMA RegListNext ==
  ASSUME IInv, IInv', Position, RegList, [Next]_vars
  PROVE  RegList'
<1>t. /\ write_list \in Seq(RegId)
      /\ pc \in {"scan"} \cup AfterScan => ins \in Addr
      /\ pc \in {"mem_writes", "opcode", "exec"} => write_list = <<>>
      /\ pc' \in {"mem_writes", "opcode", "exec"} => write_list' = <<>>
  BY DEF IInv, TypeOK, Running, AfterScan, EmptiedInTime
<1>1. CASE ScanRegister
  <2>1. /\ ins \in Addr /\ i \in 1 .. Len(Args(ins)) /\ pc = "scan" /\ pc' = pc
        /\ ins' = ins /\ Arg.kind = "reg"
    BY <1>1, ScansOne DEF ScanRegister, Scanning
  <2>2. reg_id(Arg.reg) \in RegId
    BY <2>1, ProgramAssumption DEF Arg
  <2> SUFFICES ASSUME NEW r \in RegId
               PROVE  Cardinality(Entries(r)') = UpTo(RegWrites(ins, r), Scanned')
    BY <2>1 DEF RegList, RegWrites, UpTo
  <2>3. Cardinality(Entries(r)')
          = Cardinality(Entries(r)) + (IF i \in RegWrites(ins, r) THEN 1 ELSE 0)
    <3>1. i \in RegWrites(ins, r) <=> Arg.write /\ reg_id(Arg.reg) = r
      BY <2>1 DEF RegWrites, Arg
    <3>2. CASE Arg.write
      <4>1. write_list' = Append(write_list, reg_id(Arg.reg))
        BY <1>1, <3>2 DEF ScanRegister, WriteId
      <4> QED
        BY <2>2, <3>1, <3>2, <4>1, EntriesNext
    <3>3. CASE ~Arg.write
      <4>1. Entries(r)' = Entries(r)
        BY <1>1, <3>3 DEF ScanRegister, Entries
      <4>2. Cardinality(Entries(r)) \in Nat
        <5>1. Entries(r) \in SUBSET (1 .. Len(write_list)) /\ Len(write_list) \in Nat
          BY <1>t DEF Entries
        <5> QED
          BY <5>1, UpToNext
      <4> QED
        BY <3>1, <3>3, <4>1, <4>2
    <3> QED
      BY <3>2, <3>3
  <2>4. Cardinality(Entries(r)) = UpTo(RegWrites(ins, r), Scanned)
    BY <2>1 DEF RegList
  <2>5. UpTo(RegWrites(ins, r), Scanned')
          = UpTo(RegWrites(ins, r), Scanned) + (IF i \in RegWrites(ins, r) THEN 1 ELSE 0)
    BY <1>1, <2>1, OperandSets, UpToOne DEF ScanRegister
  <2> QED
    BY <2>3, <2>4, <2>5
<1>2. CASE ScanMemory \/ ScanImmediate
  <2>1. /\ ins \in Addr /\ i \in 1 .. Len(Args(ins)) /\ pc = "scan" /\ pc' = pc
        /\ ins' = ins /\ Arg.kind # "reg" /\ write_list' = write_list
    BY <1>2, ScansOne DEF ScanMemory, ScanImmediate, Scanning
  <2> SUFFICES ASSUME NEW r \in RegId
               PROVE  Cardinality(Entries(r)') = UpTo(RegWrites(ins, r), Scanned')
    BY <2>1 DEF RegList, RegWrites, UpTo
  <2>2. i \notin RegWrites(ins, r)
    BY <2>1 DEF RegWrites, Arg
  <2>3. Cardinality(Entries(r)) = UpTo(RegWrites(ins, r), Scanned)
    BY <2>1 DEF RegList
  <2>4. /\ UpTo(RegWrites(ins, r), Scanned')
             = UpTo(RegWrites(ins, r), Scanned) + (IF i \in RegWrites(ins, r) THEN 1 ELSE 0)
        /\ UpTo(RegWrites(ins, r), Scanned) \in Nat
    BY <1>2, <2>1, OperandSets, UpToOne DEF ScanMemory, ScanImmediate
  <2>5. Entries(r)' = Entries(r)
    BY <2>1 DEF Entries
  <2> QED
    BY <2>2, <2>3, <2>4, <2>5
<1>3. CASE ScanDone
  <2>1. /\ Scanned' = Scanned /\ ins' = ins /\ write_list' = write_list
        /\ pc = "scan" /\ pc' = "reg_writes"
    BY <1>3, ScansAll DEF ScanDone, statics
  <2> QED
    BY <2>1 DEF RegList, UpTo, RegWrites, Entries
<1>4. CASE SaveOpcodes \/ SaveImage \/ \E a \in Addr : on_ins(a)
  <2>1. /\ write_list' = write_list /\ write_list = <<>>
        /\ pc' # "reg_writes" /\ i' = i /\ i = 1
    BY <1>4 DEF SaveOpcodes, SaveImage, on_ins, AfterCheckpoint, RegList, locals,
       statics, Position
  <2>2. CASE pc' = "scan"
    <3>1. ins' \in Addr /\ Scanned' = 0
      <4>1. ins' \in Addr
        BY <2>2 DEF IInv, TypeOK, Running
      <4> QED
        BY <2>1, <2>2, <4>1 DEF Scanned
    <3>2. \A r \in RegId : UpTo(RegWrites(ins', r), 0) = 0
      BY <3>1, OperandSets, UpToNext
    <3>3. \A r \in RegId : Cardinality(Entries(r)') = 0
      <4>1. \A r \in RegId : Entries(r)' = {}
        BY <2>1 DEF Entries
      <4> QED
        BY <4>1, FS_EmptySet
    <3> QED
      BY <2>2, <3>1, <3>2, <3>3 DEF RegList, UpTo, RegWrites
  <2>3. CASE pc' # "scan"
    BY <2>1, <2>3 DEF RegList
  <2> QED
    BY <2>2, <2>3
<1>5. CASE WriteRegister
  <2>1. /\ pc = "reg_writes" /\ pc' = "reg_writes"
        /\ ins' = ins /\ write_list' = write_list /\ Scanned' = Scanned
    BY <1>5 DEF WriteRegister, statics, Scanned, AfterScan
  <2> QED
    BY <2>1 DEF RegList, UpTo, RegWrites, Entries
<1>6. CASE RegistersWritten \/ WriteMemory \/ MemoryWritten \/ CountOpcode \/ exec
  BY <1>6, <1>t DEF RegistersWritten, WriteMemory, MemoryWritten, CountOpcode, exec,
     clear, statics, RegList
<1>7. CASE \/ SaveFanout \/ SaveAge \/ SaveMemory \/ SaveExecution
           \/ \E a \in Addr : instruction(a)
           \/ on_finish \/ handle_signal \/ Kill
  BY <1>7 DEF SaveFanout, SaveAge, SaveMemory, SaveExecution, instruction, on_finish,
     handle_signal, Kill, statics, RegList
<1>8. CASE UNCHANGED vars
  BY <1>8 DEF vars, locals, statics, RegList, UpTo, RegWrites, Entries, Scanned
<1> QED
  BY <1>1, <1>2, <1>3, <1>4, <1>5, <1>6, <1>7, <1>8
     DEF Next, Application, Handler, Scan, Checkpoint

\* One execution more, in the sums over the executions.
LEMMA OneExecution ==
  ASSUME IInv, NEW a \in Addr, ran' = [ran EXCEPT ![a] = @ + 1], NEW r \in RegId
  PROVE  /\ Sum(ReadsOf(r)', Addr) = Sum(ReadsOf(r), Addr) + Cardinality(RegReads(a, r))
         /\ Sum(WritesOf(r)', Addr) = Sum(WritesOf(r), Addr) + Cardinality(RegWrites(a, r))
<1>1. /\ ran \in [Addr -> Nat]
      /\ \A b \in Addr : ran'[b] = IF b = a THEN ran[b] + 1 ELSE ran[b]
  BY DEF IInv, TypeOK
<1>2. \A b \in Addr : /\ Cardinality(RegReads(b, r)) \in Nat
                      /\ Cardinality(RegWrites(b, r)) \in Nat
  BY OperandSets, UpToNext
<1> DEFINE C(b) == Cardinality(RegReads(b, r))
           D(b) == Cardinality(RegWrites(b, r))
           f == ReadsOf(r)
           g == ReadsOf(r)'
           h == WritesOf(r)
           k == WritesOf(r)'
<1>3. /\ \A b \in Addr : f[b] = ran[b] * C(b) /\ g[b] = ran'[b] * C(b)
      /\ \A b \in Addr : h[b] = ran[b] * D(b) /\ k[b] = ran'[b] * D(b)
  BY DEF ReadsOf, WritesOf, RegReads, RegWrites
<1>4. \A b \in Addr : C(b) \in Nat /\ D(b) \in Nat
  BY <1>2
<1> HIDE DEF C, D, f, g, h, k
<1>5. ASSUME NEW b \in Addr
      PROVE  /\ f[b] \in Int /\ g[b] = f[b] + (IF b = a THEN C(a) ELSE 0)
             /\ h[b] \in Int /\ k[b] = h[b] + (IF b = a THEN D(a) ELSE 0)
  <2>1. /\ ran[b] \in Nat /\ C(b) \in Nat /\ D(b) \in Nat
        /\ ran[b] * C(b) \in Nat /\ ran[b] * D(b) \in Nat
        /\ (ran[b] + 1) * C(b) = ran[b] * C(b) + C(b)
        /\ (ran[b] + 1) * D(b) = ran[b] * D(b) + D(b)
    BY <1>1, <1>4, Times1
  <2>2. CASE b = a
    BY <1>1, <1>3, <2>1, <2>2
  <2>3. CASE b # a
    BY <1>1, <1>3, <2>1, <2>3
  <2> QED
    BY <2>2, <2>3
<1>6. /\ Sum(g, Addr) = Sum(f, Addr) + C(a)
      /\ Sum(k, Addr) = Sum(h, Addr) + D(a)
  <2> DEFINE c == C(a)
             d == D(a)
  <2>1. /\ c \in Int /\ d \in Int
        /\ \A b \in Addr : f[b] \in Int /\ g[b] = f[b] + (IF b = a THEN c ELSE 0)
        /\ \A b \in Addr : h[b] \in Int /\ k[b] = h[b] + (IF b = a THEN d ELSE 0)
    BY <1>4, <1>5
  <2> HIDE DEF c, d
  <2>2. Sum(g, Addr) = Sum(f, Addr) + (IF a \in Addr THEN c ELSE 0)
    BY <2>1, SumAdd, FiniteAssumption
  <2>3. Sum(k, Addr) = Sum(h, Addr) + (IF a \in Addr THEN d ELSE 0)
    BY <2>1, SumAdd, FiniteAssumption
  <2> QED
    BY <2>2, <2>3 DEF c, d
<1> QED
  BY <1>6 DEF C, D, f, g, h, k

\* The sums are numbers.
LEMMA RegSumsType ==
  ASSUME IInv, NEW r \in RegId
  PROVE  Sum(ReadsOf(r), Addr) \in Nat /\ Sum(WritesOf(r), Addr) \in Nat
<1>1. \A b \in Addr : ReadsOf(r)[b] \in Nat /\ WritesOf(r)[b] \in Nat
  <2> TAKE b \in Addr
  <2>1. /\ Cardinality(RegReads(b, r)) \in Nat /\ Cardinality(RegWrites(b, r)) \in Nat
        /\ ran[b] \in Nat
    BY OperandSets, UpToNext DEF IInv, TypeOK
  <2> QED
    BY <2>1, Times1 DEF ReadsOf, WritesOf
<1> QED
  BY <1>1, SumNat, FiniteAssumption

\* The same of the reads and writes of a register.
LEMMA RegSumsNext ==
  ASSUME IInv, IInv', Position, RegList, RegSums, [Next]_vars
  PROVE  RegSums'
<1> SUFFICES ASSUME pc' # "killed" \/ Idle', NEW r \in RegId
             PROVE  /\ registers'.regs[r].reads
                         = Sum(ReadsOf(r)', Addr) - RegReadsPending(r)'
                    /\ registers'.regs[r].writes
                         = Sum(WritesOf(r)', Addr) - RegWritesPending(r)'
  BY DEF RegSums
<1> DEFINE R(a) == RegReads(a, r)
           W(a) == RegWrites(a, r)
           reads == Sum(ReadsOf(r), Addr)
           writes == Sum(WritesOf(r), Addr)
           reads1 == Sum(ReadsOf(r)', Addr)
           writes1 == Sum(WritesOf(r)', Addr)
           reg == registers.regs[r]
           reg1 == registers'.regs[r]
           Goal == /\ reg1.reads = reads1 - RegReadsPending(r)'
                   /\ reg1.writes = writes1 - RegWritesPending(r)'
<1>0. pc # "killed" \/ Idle
  BY Progress
<1>p. reg.reads = reads - RegReadsPending(r) /\ reg.writes = writes - RegWritesPending(r)
  BY <1>0 DEF RegSums
<1>t. /\ i \in Nat \ {0} /\ registers \in RegisterRecord
      /\ write_list \in Seq(RegId) /\ Len(write_list) \in Nat
      /\ reg.reads \in Nat /\ reg.writes \in Nat /\ total \in Nat
      /\ reads \in Nat /\ writes \in Nat
  <2>1. reads \in Nat /\ writes \in Nat
    BY RegSumsType
  <2> HIDE DEF reads, writes
  <2>2. registers \in RegisterRecord /\ write_list \in Seq(RegId)
    BY DEF IInv, TypeOK
  <2>3. reg \in reg_t
    BY <2>2 DEF RegisterRecord
  <2> HIDE DEF reg
  <2>4. reg.reads \in Nat /\ reg.writes \in Nat
    BY <2>3 DEF reg_t
  <2> QED
    BY <2>1, <2>2, <2>4 DEF IInv, TypeOK
<1>c. \A a \in Addr : Cardinality(R(a)) \in Nat /\ Cardinality(W(a)) \in Nat
  BY OperandSets, UpToNext
<1>n. ins \in Addr => UpTo(R(ins), Scanned) \in Nat
  BY OperandSets, UpToScanned
<1>r. /\ RegReadsPending(r) =
           IF ins \in Addr THEN Cardinality(R(ins)) - UpTo(R(ins), Scanned) ELSE 0
      /\ RegReadsPending(r)' =
           IF ins' \in Addr THEN Cardinality(R(ins')) - UpTo(R(ins'), Scanned') ELSE 0
  BY DEF RegReadsPending, RegReads, UpTo
<1>w. /\ RegWritesPending(r) =
           IF ins \notin Addr \/ pc \in {"mem_writes", "opcode", "exec"} THEN 0
           ELSE IF pc = "reg_writes" THEN Cardinality(Entries(r)) - UpTo(Entries(r), i - 1)
           ELSE Cardinality(W(ins))
      /\ RegWritesPending(r)' =
           IF ins' \notin Addr \/ pc' \in {"mem_writes", "opcode", "exec"} THEN 0
           ELSE IF pc' = "reg_writes"
                THEN Cardinality(Entries(r)') - UpTo(Entries(r)', i' - 1)
           ELSE Cardinality(W(ins'))
  BY DEF RegWritesPending, RegWrites, UpTo
<1>e. /\ Entries(r) \in SUBSET (1 .. Len(write_list))
      /\ Cardinality(Entries(r)) \in Nat
      /\ UpTo(Entries(r), 0) = 0
      /\ UpTo(Entries(r), Len(write_list)) = Cardinality(Entries(r))
  <2>1. Entries(r) \in SUBSET (1 .. Len(write_list))
    BY DEF Entries
  <2> QED
    BY <1>t, <2>1, UpToNext
<1>m. ran' = ran => reads1 = reads /\ writes1 = writes
  BY DEF ReadsOf, WritesOf, RegReads, RegWrites
<1> HIDE DEF R, W, reads, writes, reads1, writes1, reg, reg1
<1>1. ASSUME NEW b \in Addr, on_ins(b), ins = NoIns, Scanned' = 0
      PROVE  Goal
  <2>1. /\ registers' = registers /\ ins' = b /\ pc' \in {"fanout", "image", "scan"}
        /\ ran' = [ran EXCEPT ![b] = @ + 1]
    BY <1>1 DEF on_ins, tables, AfterCheckpoint
  <2>2. /\ reads1 = reads + Cardinality(R(b)) /\ writes1 = writes + Cardinality(W(b))
    BY <2>1, OneExecution DEF reads, reads1, writes, writes1, R, W
  <2>3. RegReadsPending(r) = 0 /\ RegWritesPending(r) = 0
    BY <1>1, <1>r, <1>w, Sizes
  <2>4. UpTo(R(b), 0) = 0
    BY OperandSets, UpToNext DEF R
  <2>5. RegReadsPending(r)' = Cardinality(R(b)) - 0 /\ RegWritesPending(r)' = Cardinality(W(b))
    BY <1>1, <1>r, <1>w, <2>1, <2>4
  <2>6. reg1 = reg
    BY <2>1 DEF reg, reg1
  <2> QED
    BY <1>c, <1>p, <1>t, <2>2, <2>3, <2>5, <2>6
<1>2. ASSUME exec, ins \in Addr, Scanned = Len(Args(ins))
      PROVE  Goal
  <2>1. registers' = registers /\ ins' = NoIns /\ ran' = ran /\ pc = "exec"
    BY <1>2 DEF exec
  <2>2. RegReadsPending(r)' = 0 /\ RegWritesPending(r)' = 0
    BY <1>r, <1>w, <2>1, Sizes
  <2>3. UpTo(R(ins), Len(Args(ins))) = Cardinality(R(ins))
    BY <1>2, OperandSets, UpToNext DEF R
  <2>4. RegReadsPending(r) = 0 /\ RegWritesPending(r) = 0
    BY <1>2, <1>c, <1>r, <1>w, <2>1, <2>3
  <2>5. reg1 = reg
    BY <2>1 DEF reg, reg1
  <2> QED
    BY <1>m, <1>p, <2>1, <2>2, <2>4, <2>5
<1>3. ASSUME ScanRegister PROVE Goal
  <2>1. /\ ins \in Addr /\ i \in 1 .. Len(Args(ins)) /\ pc = "scan" /\ pc' = pc
        /\ ins' = ins /\ Arg.kind = "reg" /\ ran' = ran
    BY <1>3, ScansOne DEF ScanRegister, Scanning
  <2>2. i \in R(ins) <=> Arg.read /\ reg_id(Arg.reg) = r
    BY <2>1 DEF RegReads, Arg, R
  <2>3. UpTo(R(ins), Scanned') = UpTo(R(ins), Scanned) + (IF i \in R(ins) THEN 1 ELSE 0)
    BY <1>3, <2>1, OperandSets, UpToOne DEF ScanRegister, R
  <2>4. /\ RegReadsPending(r)' = RegReadsPending(r) - (IF i \in R(ins) THEN 1 ELSE 0)
        /\ RegReadsPending(r) \in Int
    BY <1>c, <1>n, <1>r, <2>1, <2>3
  <2>5. RegWritesPending(r)' = RegWritesPending(r)
    BY <1>w, <2>1
  <2>6. reg_id(Arg.reg) \in RegId
    BY <2>1, ProgramAssumption DEF Arg
  <2>7. reg1.reads = reg.reads + (IF i \in R(ins) THEN 1 ELSE 0) /\ reg1.writes = reg.writes
    <3>1. CASE Arg.read
      <4>1. registers' = RegisterRead(registers, reg_id(Arg.reg))
        BY <1>3, <3>1 DEF ScanRegister
      <4>2. reg1 = IF r = reg_id(Arg.reg) THEN [reg EXCEPT !.reads = @ + 1] ELSE reg
        BY <1>t, <2>6, <4>1, RegisterReadType DEF reg, reg1
      <4>3. reg \in reg_t
        BY <1>t DEF RegisterRecord, reg
      <4> QED
        BY <1>t, <2>2, <3>1, <4>2, <4>3 DEF reg_t
    <3>2. CASE ~Arg.read
      <4>1. reg1 = reg
        BY <1>3, <3>2 DEF ScanRegister, reg, reg1
      <4> QED
        BY <1>t, <2>2, <3>2, <4>1
    <3> QED
      BY <3>1, <3>2
  <2> QED
    BY <1>m, <1>p, <1>t, <2>1, <2>4, <2>5, <2>7
<1>4. ASSUME ScanMemory \/ ScanImmediate PROVE Goal
  <2>1. /\ ins \in Addr /\ i \in 1 .. Len(Args(ins)) /\ pc = "scan" /\ pc' = pc
        /\ ins' = ins /\ Arg.kind # "reg" /\ ran' = ran /\ registers' = registers
    BY <1>4, ScansOne DEF ScanMemory, ScanImmediate, Scanning, tables
  <2>2. i \notin R(ins)
    BY <2>1 DEF RegReads, Arg, R
  <2>3. UpTo(R(ins), Scanned') = UpTo(R(ins), Scanned) + (IF i \in R(ins) THEN 1 ELSE 0)
    BY <1>4, <2>1, OperandSets, UpToOne DEF ScanMemory, ScanImmediate, R
  <2>4. UpTo(R(ins), Scanned') = UpTo(R(ins), Scanned)
    BY <1>n, <2>1, <2>2, <2>3
  <2>5. RegReadsPending(r)' = RegReadsPending(r) /\ RegWritesPending(r)' = RegWritesPending(r)
    BY <1>r, <1>w, <2>1, <2>4
  <2>6. reg1 = reg
    BY <2>1 DEF reg, reg1
  <2> QED
    BY <1>m, <1>p, <2>1, <2>5, <2>6
<1>5. ASSUME UNCHANGED <<ins, ran>>, ins \in Addr => Scanned' = Scanned,
             ~exec, ~ScanMemory, ~ScanRegister, ~ScanImmediate,
             ~\E b \in Addr : on_ins(b)
      PROVE  Goal
  <2>1. RegReadsPending(r)' = RegReadsPending(r)
    BY <1>5, <1>r
  <2>2. CASE WriteRegister
    <3>1. /\ registers' = RegisterWrite(registers, write_list[i], total)
          /\ write_list' = write_list /\ i' = i + 1 /\ i <= Len(write_list)
          /\ pc = "reg_writes" /\ pc' = "reg_writes" /\ ins \in Addr
      BY <2>2 DEF WriteRegister, statics, IInv, TypeOK, Running
    <3>2. i \in 1 .. Len(write_list) /\ write_list[i] \in RegId /\ i' - 1 = i
      BY <1>t, <3>1
    <3>3. i \in Entries(r) <=> write_list[i] = r
      BY <3>2 DEF Entries
    <3>4. Entries(r)' = Entries(r)
      BY <3>1 DEF Entries
    <3>5. /\ UpTo(Entries(r), i) = UpTo(Entries(r), i - 1) + (IF i \in Entries(r) THEN 1 ELSE 0)
          /\ UpTo(Entries(r), i - 1) \in Nat
      <4>1. i - 1 \in Nat
        BY <1>t
      <4> QED
        BY <1>e, <1>t, <3>2, <4>1, UpToNext
    <3>6. /\ RegWritesPending(r) = Cardinality(Entries(r)) - UpTo(Entries(r), i - 1)
          /\ RegWritesPending(r)' = Cardinality(Entries(r)) - UpTo(Entries(r), i)
      BY <1>5, <1>w, <3>1, <3>2, <3>4
    <3>7. registers'.regs = [registers.regs EXCEPT ![write_list[i]] = Overwritten(@, total)]
      BY <1>t, <3>1, <3>2, RegisterWriteType
    <3>8. reg1 = IF r = write_list[i] THEN Overwritten(reg, total) ELSE reg
      BY <1>t, <3>2, <3>7 DEF RegisterRecord, reg, reg1
    <3>9. reg1.reads = reg.reads /\ reg1.writes = reg.writes + (IF i \in Entries(r) THEN 1 ELSE 0)
      BY <1>t, <3>3, <3>8 DEF Overwritten
    <3> QED
      BY <1>5, <1>e, <1>m, <1>p, <1>t, <2>1, <3>5, <3>6, <3>9
  <2>3. CASE SaveFanout \/ SaveAge
    <3>1. reg1 = reg
      BY <2>3, <1>t, RecordParts DEF SaveFanout, SaveAge, reg, reg1
    <3>2. RegWritesPending(r)' = RegWritesPending(r)
      BY <1>5, <1>w, <2>3 DEF SaveFanout, SaveAge
    <3> QED
      BY <1>5, <1>m, <1>p, <2>1, <3>1, <3>2
  <2>4. CASE ScanDone
    <3>1. /\ pc = "scan" /\ pc' = "reg_writes" /\ i' = 1 /\ write_list' = write_list
          /\ registers' = registers /\ ins \in Addr /\ Scanned = Len(Args(ins))
      BY <2>4, ScansAll DEF ScanDone, tables, statics
    <3>2. Cardinality(Entries(r)) = Cardinality(W(ins))
      <4>1. UpTo(W(ins), Len(Args(ins))) = Cardinality(W(ins))
        BY <3>1, OperandSets, UpToNext DEF W
      <4> QED
        BY <3>1, <4>1 DEF RegList, W
    <3>3. Entries(r)' = Entries(r) /\ reg1 = reg
      BY <3>1 DEF Entries, reg, reg1
    <3>4. RegWritesPending(r)' = RegWritesPending(r)
      BY <1>5, <1>e, <1>w, <3>1, <3>2, <3>3
    <3> QED
      BY <1>5, <1>m, <1>p, <2>1, <3>3, <3>4
  <2>5. CASE RegistersWritten
    <3>1. /\ pc = "reg_writes" /\ pc' = "mem_writes" /\ i > Len(write_list)
          /\ registers' = registers /\ i <= Len(write_list) + 1
      BY <2>5 DEF RegistersWritten, tables, Position
    <3>2. i - 1 = Len(write_list)
      BY <1>t, <3>1
    <3>3. RegWritesPending(r)' = 0 /\ RegWritesPending(r) = 0
      BY <1>5, <1>e, <1>w, <3>1, <3>2
    <3>4. reg1 = reg
      BY <3>1 DEF reg, reg1
    <3> QED
      BY <1>5, <1>m, <1>p, <2>1, <3>3, <3>4
  <2>6. CASE ~WriteRegister /\ ~SaveFanout /\ ~SaveAge /\ ~ScanDone /\ ~RegistersWritten
    <3>1. reg1 = reg
      BY <1>5, <2>6, RegisterSteps DEF reg, reg1
    <3>2. ins \in Addr =>
            /\ pc' \in {"mem_writes", "opcode", "exec"} <=> pc \in {"mem_writes", "opcode", "exec"}
            /\ pc' = "reg_writes" <=> pc = "reg_writes"
            /\ pc = "reg_writes" => UNCHANGED <<write_list, i>>
      <4>1. ins \in Addr => pc \notin {"app", "exited"} /\ pc' # "killed" /\ pc # "killed"
        BY <1>5, <1>0, Sizes DEF Idle, IInv, Running
      <4> QED
        BY <1>5, <2>6, <4>1 DEF Next, Application, Handler, Checkpoint, Scan,
           instruction, SaveMemory, SaveExecution, SaveOpcodes, SaveImage,
           WriteMemory, MemoryWritten, CountOpcode, on_finish, handle_signal, Kill,
           vars, locals, statics, AfterCheckpoint
    <3>3. pc = "reg_writes" /\ ins \in Addr => Entries(r)' = Entries(r)
      BY <3>2 DEF Entries
    <3>4. RegWritesPending(r)' = RegWritesPending(r)
      BY <1>5, <1>w, <3>2, <3>3
    <3> QED
      BY <1>5, <1>m, <1>p, <2>1, <3>1, <3>4
  <2> QED
    BY <2>2, <2>3, <2>4, <2>5, <2>6
<1>6. Goal
  <2>1. ScanMemory \/ ScanRegister \/ ScanImmediate => ~exec
    BY DEF ScanMemory, ScanRegister, ScanImmediate, Scanning, exec
  <2> HIDE DEF Goal
  <2>2. (\E b \in Addr : on_ins(b)) => ins' # ins \/ Goal
    BY <1>1, Sizes, Progress DEF on_ins, IInv, TypeOK, Running, Idle
  <2> QED
    BY <1>1, <1>2, <1>3, <1>4, <1>5, <2>1, <2>2, Progress
<1> QED
  BY <1>6 DEF reads1, writes1, reg1

(***************************************************************************)
(* The register record adds up: its two tables.                            *)
(***************************************************************************)
\* Neither count has left the range of an int.
CountsFit == /\ total < INT_MOD \div 2
             /\ \A r \in RegId : registers.regs[r].reads < INT_MOD \div 2

\* The marks a write leaves are never ahead of the counts they are taken from.
MarksBehind ==
  \A r \in RegId : /\ registers.regs[r].last_read <= registers.regs[r].reads
                   /\ registers.regs[r].last_instr <= total

\* A read moves the count and a write the marks, up to where the counts are.
LEMMA MarksNext ==
  ASSUME IInv, IInv', MarksBehind, [Next]_vars
  PROVE  MarksBehind'
<1>t. /\ registers \in RegisterRecord /\ registers.regs \in [RegId -> reg_t]
      /\ registers.fanout \in Table /\ registers.age \in Table
      /\ total \in Nat /\ i \in Nat \ {0} /\ write_list \in Seq(RegId)
  BY DEF IInv, TypeOK, RegisterRecord
<1>1. total' = total \/ total' = total + 1
  BY DEF Next, Application, Handler, Checkpoint, Scan, instruction,
     on_ins, SaveFanout, SaveAge, SaveMemory, SaveExecution, SaveOpcodes,
     SaveImage, ScanRegister, ScanImmediate, ScanMemory, ScanDone, Scanning,
     WriteRegister, RegistersWritten, WriteMemory, MemoryWritten, CountOpcode,
     exec, on_finish, handle_signal, Kill, vars, statics
<1> SUFFICES ASSUME NEW q \in RegId
             PROVE  /\ registers'.regs[q].last_read <= registers'.regs[q].reads
                    /\ registers'.regs[q].last_instr <= total'
  BY DEF MarksBehind
<1>2. /\ registers.regs[q] \in reg_t
      /\ registers.regs[q].last_read <= registers.regs[q].reads
      /\ registers.regs[q].last_instr <= total
  BY <1>t DEF MarksBehind
<1>3. CASE registers'.regs = registers.regs
  BY <1>1, <1>2, <1>3, <1>t DEF reg_t
<1>4. CASE SaveFanout \/ SaveAge
  <2>1. registers'.regs = registers.regs
    BY <1>4, <1>t, RecordParts DEF SaveFanout, SaveAge
  <2> QED
    BY <1>3, <2>1
<1>5. ASSUME NEW r \in RegId, registers' = RegisterRead(registers, r)
      PROVE  /\ registers'.regs[q].last_read <= registers'.regs[q].reads
             /\ registers'.regs[q].last_instr <= total'
  <2>1. registers'.regs[q] = IF q = r THEN [registers.regs[q] EXCEPT !.reads = @ + 1]
                                      ELSE registers.regs[q]
    BY <1>5, <1>t, RegisterReadType
  <2> QED
    BY <1>1, <1>2, <1>t, <2>1 DEF reg_t
<1>6. CASE ScanRegister
  <2>1. ins \in Addr /\ i \in 1 .. Len(Args(ins)) /\ Arg.kind = "reg"
    BY <1>6, ScansOneArg DEF ScanRegister
  <2>2. reg_id(Arg.reg) \in RegId
    BY <2>1, ProgramAssumption DEF Arg
  <2> QED
    BY <1>3, <1>5, <1>6, <2>2 DEF ScanRegister
<1>7. CASE WriteRegister
  <2>1. /\ registers' = RegisterWrite(registers, write_list[i], total)
        /\ write_list[i] \in RegId /\ total' = total
    BY <1>7, <1>t DEF WriteRegister, statics
  <2>2. registers'.regs = [registers.regs EXCEPT ![write_list[i]] = Overwritten(@, total)]
    BY <1>t, <2>1, RegisterWriteType
  <2>3. registers'.regs[q] = IF q = write_list[i] THEN Overwritten(registers.regs[q], total)
                                                  ELSE registers.regs[q]
    BY <1>t, <2>2
  <2> QED
    BY <1>2, <1>t, <2>1, <2>3 DEF Overwritten, reg_t
<1> QED
  BY <1>3, <1>4, <1>6, <1>7, RegisterSteps

\* As long as they fit, a write is counted in rows of the two tables.
LEMMA RowsInTable ==
  ASSUME IInv, MarksBehind, CountsFit, NEW r \in RegId
  PROVE  FanoutRow(registers, r) \in Row /\ AgeRow(registers, r, total) \in Row
<1>1. registers.regs[r] \in reg_t /\ total \in Nat
  BY DEF IInv, TypeOK, RegisterRecord
<1>2. /\ registers.regs[r].reads - registers.regs[r].last_read \in Nat
      /\ registers.regs[r].reads - registers.regs[r].last_read < INT_MOD \div 2
      /\ total - registers.regs[r].last_instr \in Nat
      /\ total - registers.regs[r].last_instr < INT_MOD \div 2
  <2>1. INT_MOD \div 2 \in Int
    BY IntAssumption
  <2>2. /\ registers.regs[r].last_read <= registers.regs[r].reads
        /\ registers.regs[r].last_instr <= total
        /\ registers.regs[r].reads < INT_MOD \div 2 /\ total < INT_MOD \div 2
    BY DEF MarksBehind, CountsFit
  <2> QED
    BY <1>1, <2>1, <2>2 DEF reg_t
<1> QED
  BY <1>2, SmallDifferenceInTable DEF FanoutRow, AgeRow

\* The tables have finitely many rows, and there are finitely many registers.
LEMMA RowFinite == IsFiniteSet(Row) /\ IsFiniteSet(RegId)
<1>1. LIMIT \in Int /\ 83 \in Int /\ 0 \in Int
  BY LimitAssumption
<1>2. IsFiniteSet(0 .. LIMIT)
  BY <1>1, FS_Interval
<1>3. IsFiniteSet(0 .. 83)
  BY <1>1, FS_Interval
<1>4. IsFiniteSet(RegId)
  BY <1>3, RegIdAssumption, FS_Subset
<1> QED
  BY <1>2, <1>4 DEF Row

\* Counting a row of a table adds one to its column, and saving none.
LEMMA ColumnSums ==
  ASSUME NEW t \in Table, NEW row \in Row, NEW c \in Class, NEW d \in Class
  PROVE  /\ Sum(Column(t.rows, d), Row) \in Nat
         /\ Sum(Column(CountRow(t, row, c).rows, d), Row)
              = Sum(Column(t.rows, d), Row) + (IF d = c THEN 1 ELSE 0)
<1> DEFINE new == [t.rows EXCEPT ![row][c] = @ + 1]
           f == Column(t.rows, d)
           g == Column(new, d)
           one == IF d = c THEN 1 ELSE 0
<1>1. t.rows \in [Row -> [Class -> Nat]]
  BY DEF Table
<1>2. CountRow(t, row, c).rows = new
  <2>1. CountRow(t, row, c) = [t EXCEPT !.rows = new]
    BY Zenon DEF CountRow
  <2> HIDE DEF new
  <2> QED
    BY <2>1, TableParts
<1>3. \A n \in Row : new[n][d] = t.rows[n][d] + (IF n = row /\ d = c THEN 1 ELSE 0)
  BY <1>1
<1> HIDE DEF new
<1>4. \A n \in Row : f[n] \in Nat /\ g[n] = f[n] + (IF n = row THEN one ELSE 0)
  BY <1>1, <1>3 DEF Column
<1>5. one \in Int
  OBVIOUS
<1> HIDE DEF f, g, one
<1>6. /\ Sum(f, Row) \in Nat
      /\ Sum(g, Row) = Sum(f, Row) + (IF row \in Row THEN one ELSE 0)
  <2>1. Sum(f, Row) \in Nat
    BY <1>4, RowFinite, SumNat
  <2>2. \A n \in Row : f[n] \in Int /\ g[n] = f[n] + (IF n = row THEN one ELSE 0)
    BY <1>4
  <2>3. Sum(g, Row) = Sum(f, Row) + (IF row \in Row THEN one ELSE 0)
    BY <1>5, <2>2, RowFinite, SumAdd
  <2> QED
    BY <2>1, <2>3
<1> QED
  BY <1>2, <1>6 DEF f, g, one

\* What EveryWriteHasRows relates, for one class.
RowsAgree(c) ==
  /\ Sum(Column(registers.fanout.rows, c), Row) = Sum(WritesIn(c), RegId)
  /\ Sum(Column(registers.age.rows, c), Row) = Sum(WritesIn(c), RegId)

\* A write counts its register and one row of each table.
LEMMA RowsNext ==
  ASSUME IInv, IInv', MarksBehind, CountsFit, EveryWriteHasRows, [Next]_vars
  PROVE  EveryWriteHasRows'
<1> SUFFICES ASSUME NEW c \in Class PROVE RowsAgree(c)'
  BY DEF EveryWriteHasRows, RowsAgree
<1>p. RowsAgree(c)
  BY DEF EveryWriteHasRows, RowsAgree
<1>t. /\ registers \in RegisterRecord /\ registers.regs \in [RegId -> reg_t]
      /\ registers.fanout \in Table /\ registers.age \in Table
      /\ total \in Nat /\ i \in Nat \ {0} /\ write_list \in Seq(RegId)
  BY DEF IInv, TypeOK, RegisterRecord
<1>1. ASSUME /\ registers'.fanout.rows = registers.fanout.rows
             /\ registers'.age.rows = registers.age.rows
             /\ \A r \in RegId : registers'.regs[r].writes = registers.regs[r].writes
      PROVE  RowsAgree(c)'
  <2>1. WritesIn(c)' = WritesIn(c)
    BY <1>1 DEF WritesIn
  <2> QED
    BY <1>1, <1>p, <2>1 DEF RowsAgree
<1>2. CASE SaveFanout \/ SaveAge
  <2>1. /\ registers'.regs = registers.regs
        /\ registers'.fanout.rows = registers.fanout.rows
        /\ registers'.age.rows = registers.age.rows
    <3>1. \A t \in Table : FinishTable(t).rows = t.rows
      <4> TAKE t \in Table
      <4>1. FinishTable(t) = [rows |-> t.rows, stored |-> t.rows]
        BY TableParts DEF FinishTable
      <4> QED
        BY <4>1
    <3>2. CASE SaveFanout
      <4>1. registers' = [regs |-> registers.regs, fanout |-> FinishTable(registers.fanout),
                          age |-> registers.age]
        BY <1>t, <3>2, RecordParts DEF SaveFanout
      <4> QED
        BY <1>t, <3>1, <4>1
    <3>3. CASE SaveAge
      <4>1. registers' = [regs |-> registers.regs, fanout |-> registers.fanout,
                          age |-> FinishTable(registers.age)]
        BY <1>t, <3>3, RecordParts DEF SaveAge
      <4> QED
        BY <1>t, <3>1, <4>1
    <3> QED
      BY <1>2, <3>2, <3>3
  <2> QED
    BY <1>1, <2>1
<1>3. CASE ScanRegister
  <2>1. ins \in Addr /\ i \in 1 .. Len(Args(ins)) /\ Arg.kind = "reg"
    BY <1>3, ScansOneArg DEF ScanRegister
  <2>2. reg_id(Arg.reg) \in RegId
    BY <2>1, ProgramAssumption DEF Arg
  <2>3. CASE Arg.read
    <3>1. registers' = RegisterRead(registers, reg_id(Arg.reg))
      BY <1>3, <2>3 DEF ScanRegister
    <3>2. ASSUME NEW q \in RegId
          PROVE  registers'.regs[q].writes = registers.regs[q].writes
      <4>1. registers.regs[q] \in reg_t
        BY <1>t
      <4>2. \/ registers'.regs[q] = [registers.regs[q] EXCEPT !.reads = @ + 1]
            \/ registers'.regs[q] = registers.regs[q]
        BY <1>t, <2>2, <3>1, RegisterReadType
      <4> QED
        BY <4>1, <4>2 DEF reg_t
    <3>3. registers'.fanout = registers.fanout /\ registers'.age = registers.age
      BY <1>t, <2>2, <3>1, RegisterReadType
    <3> QED
      BY <1>1, <3>2, <3>3
  <2>4. CASE ~Arg.read
    BY <1>1, <1>3, <2>4 DEF ScanRegister
  <2> QED
    BY <2>3, <2>4
<1>4. CASE WriteRegister
  <2> DEFINE r == write_list[i]
             k == reg_class(r)
             one == IF c = k THEN 1 ELSE 0
             f == WritesIn(c)
             g == WritesIn(c)'
  <2>1. /\ registers' = RegisterWrite(registers, r, total)
        /\ r \in RegId /\ k \in Class /\ ~(k < 0)
    <3>1. registers' = RegisterWrite(registers, r, total) /\ r \in RegId
      BY <1>4, <1>t DEF WriteRegister
    <3>2. k \in Class
      BY <3>1, ClassType
    <3> HIDE DEF r, k
    <3> QED
      BY <3>1, <3>2 DEF Class
  <2> HIDE DEF r
  <2>2. registers' = [regs   |-> [registers.regs EXCEPT ![r] = Overwritten(@, total)],
                      fanout |-> CountRow(registers.fanout, FanoutRow(registers, r), k),
                      age    |-> CountRow(registers.age, AgeRow(registers, r, total), k)]
    BY <2>1, Zenon DEF RegisterWrite
  <2>3. FanoutRow(registers, r) \in Row /\ AgeRow(registers, r, total) \in Row
    BY <2>1, RowsInTable
  <2> HIDE DEF k
  <2>4. /\ registers'.fanout = CountRow(registers.fanout, FanoutRow(registers, r), k)
        /\ registers'.age = CountRow(registers.age, AgeRow(registers, r, total), k)
    BY <2>2
  <2>5. /\ Sum(Column(registers'.fanout.rows, c), Row)
              = Sum(Column(registers.fanout.rows, c), Row) + one
        /\ Sum(Column(registers'.age.rows, c), Row)
              = Sum(Column(registers.age.rows, c), Row) + one
    BY <1>t, <2>1, <2>3, <2>4, ColumnSums
  <2>6. Sum(g, RegId) = Sum(f, RegId) + one
    <3>1. ASSUME NEW q \in RegId
          PROVE  f[q] \in Int /\ g[q] = f[q] + (IF q = r THEN one ELSE 0)
      <4>1. registers'.regs[q] = IF q = r THEN Overwritten(registers.regs[q], total)
                                          ELSE registers.regs[q]
        BY <1>t, <2>1, <2>2
      <4>2. registers.regs[q].writes \in Nat
        BY <1>t DEF reg_t
      <4>3. registers'.regs[q].writes = registers.regs[q].writes + (IF q = r THEN 1 ELSE 0)
        BY <4>1, <4>2 DEF Overwritten
      <4>4. /\ f[q] = IF reg_class(q) = c THEN registers.regs[q].writes ELSE 0
            /\ g[q] = IF reg_class(q) = c THEN registers'.regs[q].writes ELSE 0
        BY DEF WritesIn
      <4> QED
        BY <4>2, <4>3, <4>4 DEF k
    <3>2. one \in Int
      OBVIOUS
    <3> HIDE DEF f, g, one
    <3>3. /\ \A q \in RegId : f[q] \in Int /\ g[q] \in Int
          /\ \A q \in RegId \ {r} : f[q] = g[q]
          /\ g[r] - f[r] = one
      BY <2>1, <3>1, <3>2
    <3>4. Sum(g, RegId) = Sum(f, RegId) + (g[r] - f[r])
      BY <2>1, <3>3, RowFinite, SumChange
    <3> QED
      BY <3>3, <3>4
  <2> HIDE DEF one
  <2> QED
    BY <1>p, <2>5, <2>6 DEF RowsAgree
<1>5. CASE registers' = registers
  BY <1>1, <1>5
<1> QED
  BY <1>2, <1>3, <1>4, <1>5, RegisterSteps

\* An empty record has no reads, no writes and no rows.
LEMMA InitRegSums == Init => RegList /\ RegSums /\ MarksBehind /\ EveryWriteHasRows
<1> SUFFICES ASSUME Init PROVE RegList /\ RegSums /\ MarksBehind /\ EveryWriteHasRows
  OBVIOUS
<1>0. registers = EmptyRegisters /\ total = 0
  BY DEF Init
<1>1. \A r \in RegId : registers.regs[r] = [reads |-> 0, writes |-> 0,
                                           last_read |-> 0, last_instr |-> 0]
  BY <1>0 DEF EmptyRegisters
<1>2. RegList
  BY DEF Init, RegList
<1>3. MarksBehind
  BY <1>0, <1>1 DEF MarksBehind
<1>4. ASSUME NEW r \in RegId
      PROVE  /\ registers.regs[r].reads = Sum(ReadsOf(r), Addr) - RegReadsPending(r)
             /\ registers.regs[r].writes = Sum(WritesOf(r), Addr) - RegWritesPending(r)
  <2>1. ASSUME NEW a \in Addr
        PROVE  ReadsOf(r)[a] = 0 /\ WritesOf(r)[a] = 0
    <3>1. /\ Cardinality(RegReads(a, r)) \in Nat /\ Cardinality(RegWrites(a, r)) \in Nat
          /\ ran[a] = 0
      BY OperandSets, UpToNext DEF Init
    <3>2. \A n \in Nat : 0 * n = 0
      OBVIOUS
    <3> QED
      BY <3>1, <3>2 DEF ReadsOf, WritesOf
  <2>2. Sum(ReadsOf(r), Addr) = 0 /\ Sum(WritesOf(r), Addr) = 0
    BY <2>1, SumZero, FiniteAssumption
  <2>3. RegReadsPending(r) = 0 /\ RegWritesPending(r) = 0
    BY Sizes DEF Init, RegReadsPending, RegWritesPending
  <2> QED
    BY <1>1, <2>2, <2>3
<1>5. EveryWriteHasRows
  <2> SUFFICES ASSUME NEW c \in Class
               PROVE  /\ Sum(Column(registers.fanout.rows, c), Row) = Sum(WritesIn(c), RegId)
                      /\ Sum(Column(registers.age.rows, c), Row) = Sum(WritesIn(c), RegId)
    BY DEF EveryWriteHasRows
  <2>1. \A n \in Row : /\ Column(registers.fanout.rows, c)[n] = 0
                       /\ Column(registers.age.rows, c)[n] = 0
    BY <1>0 DEF EmptyRegisters, EmptyTable, Column
  <2>2. \A r \in RegId : WritesIn(c)[r] = 0
    BY <1>1 DEF WritesIn
  <2>3. /\ Sum(Column(registers.fanout.rows, c), Row) = 0
        /\ Sum(Column(registers.age.rows, c), Row) = 0
        /\ Sum(WritesIn(c), RegId) = 0
    BY <2>1, <2>2, SumZero, RowFinite
  <2> QED
    BY <2>3
<1> QED
  BY <1>2, <1>3, <1>4, <1>5 DEF RegSums

\* What the sums of the register record rest on.
RegisterInv == /\ IInv /\ Position
               /\ RegList /\ RegSums /\ MarksBehind /\ EveryWriteHasRows

\* The sums of the register record, as an invariant.
LEMMA RegisterInvariant == Spec /\ []CountsFit => []RegisterInv
<1>1. Init => RegisterInv
  BY InitIInv, InitSums, InitRegSums DEF RegisterInv
<1>2. RegisterInv /\ CountsFit /\ [Next]_vars => RegisterInv'
  BY NextIInv, PositionNext, RegListNext, RegSumsNext, MarksNext, RowsNext
     DEF RegisterInv
<1> QED
  BY <1>1, <1>2, PTL DEF Spec

\* The register record has every read and every write that the operands of the
\* executions make, and its two tables one row for each of the writes.
THEOREM RegistersAddUp == Spec /\ []CountsFit => []RegisterTotals
<1>1. RegisterInv => RegisterTotals
  <2> SUFFICES ASSUME RegisterInv PROVE RegisterTotals
    OBVIOUS
  <2>1. ASSUME Idle \/ pc \in AfterScan, NEW r \in RegId
        PROVE  registers.regs[r].reads = Sum(ReadsOf(r), Addr)
    <3>1. RegReadsPending(r) = 0
      <4>1. CASE ins \in Addr
        <5>1. Scanned = Len(Args(ins))
          BY <2>1, <4>1, Sizes DEF Idle, Scanned, AfterScan
        <5>2. /\ Cardinality(RegReads(ins, r)) \in Nat
              /\ UpTo(RegReads(ins, r), Len(Args(ins))) = Cardinality(RegReads(ins, r))
          BY <4>1, OperandSets, UpToNext
        <5> QED
          BY <5>1, <5>2 DEF RegReadsPending
      <4> QED
        BY <4>1 DEF RegReadsPending
    <3>2. registers.regs[r].reads = Sum(ReadsOf(r), Addr) - RegReadsPending(r)
      BY <2>1 DEF RegisterInv, RegSums, AfterScan
    <3>3. Sum(ReadsOf(r), Addr) \in Nat
      BY RegSumsType DEF RegisterInv
    <3> QED
      BY <3>1, <3>2, <3>3
  <2>2. ASSUME Idle \/ pc \in {"mem_writes", "opcode", "exec"}, NEW r \in RegId
        PROVE  registers.regs[r].writes = Sum(WritesOf(r), Addr)
    <3>1. RegWritesPending(r) = 0
      BY <2>2, Sizes DEF Idle, RegWritesPending
    <3>2. registers.regs[r].writes = Sum(WritesOf(r), Addr) - RegWritesPending(r)
      BY <2>2 DEF RegisterInv, RegSums
    <3>3. Sum(WritesOf(r), Addr) \in Nat
      BY RegSumsType DEF RegisterInv
    <3> QED
      BY <3>1, <3>2, <3>3
  <2>3. ASSUME pc = "scan", NEW r \in RegId
        PROVE  registers.regs[r].writes + Cardinality(RegWrites(ins, r)) = Sum(WritesOf(r), Addr)
    <3>1. ins \in Addr
      BY <2>3 DEF RegisterInv, IInv, Running, TypeOK
    <3>2. RegWritesPending(r) = Cardinality(RegWrites(ins, r))
      BY <2>3, <3>1 DEF RegWritesPending
    <3>3. Cardinality(RegWrites(ins, r)) \in Nat
      BY <3>1, OperandSets, UpToNext
    <3>4. registers.regs[r].writes = Sum(WritesOf(r), Addr) - RegWritesPending(r)
      BY <2>3 DEF RegisterInv, RegSums
    <3>5. Sum(WritesOf(r), Addr) \in Nat
      BY RegSumsType DEF RegisterInv
    <3> QED
      BY <3>2, <3>3, <3>4, <3>5
  <2> QED
    BY <2>1, <2>2, <2>3 DEF RegisterTotals, RegisterInv, AfterScan
<1> QED
  BY RegisterInvariant, <1>1, PTL

(***************************************************************************)
(* The files after a checkpoint.                                           *)
(***************************************************************************)
\* The steps of a call between a checkpoint and the first change of a counter.
Saved == total % PERIOD = 0 /\ pc \in {"image", "scan", "reg_writes", "mem_writes", "opcode"}

\* fanout.tbl has as many writes of a class as age.tbl.
StoredAgree ==
  \A c \in Class :
    Sum(Column(registers.fanout.stored, c), Row) = Sum(Column(registers.age.stored, c), Row)

\* What the checkpoint has written, the call leaves as it is so far.
SavedAgree ==
  Saved => Flushed(execution, Addr) /\ Flushed(opcodes, Opcode) /\ StoredAgree

\* The steps that change neither store nor what is stored of the record.
LEMMA SavedStays ==
  ASSUME SavedAgree, Saved, execution' = execution, opcodes' = opcodes,
         registers'.fanout.stored = registers.fanout.stored,
         registers'.age.stored = registers.age.stored
  PROVE  SavedAgree'
BY DEF SavedAgree, Flushed, StoredAgree, Column

\* When the rows agree, so do the files that have them.
LEMMA RowsStored ==
  ASSUME EveryWriteHasRows,
         registers.fanout.stored = registers.fanout.rows,
         registers.age.stored = registers.age.rows
  PROVE  StoredAgree
<1> SUFFICES ASSUME NEW c \in Class
             PROVE  Sum(Column(registers.fanout.stored, c), Row)
                      = Sum(Column(registers.age.stored, c), Row)
  BY DEF StoredAgree
<1>1. /\ Sum(Column(registers.fanout.rows, c), Row) = Sum(WritesIn(c), RegId)
      /\ Sum(Column(registers.age.rows, c), Row) = Sum(WritesIn(c), RegId)
  BY DEF EveryWriteHasRows
<1> QED
  BY <1>1

\* The checkpoint ends with what SavedAgree says, and the call keeps it until
\* it counts its opcode.
LEMMA SavedNext ==
  ASSUME IInv, IInv', RegisterInv, SavedAgree, [Next]_vars
  PROVE  SavedAgree'
<1>t. /\ registers \in RegisterRecord /\ registers.regs \in [RegId -> reg_t]
      /\ registers.fanout \in Table /\ registers.age \in Table
      /\ opcodes \in Store(Opcode, OpcodeField) /\ Resident(opcodes)
      /\ total \in Nat /\ i \in Nat \ {0} /\ write_list \in Seq(RegId)
  BY DEF IInv, TypeOK, RegisterRecord, AllResident
<1>1. CASE SaveOpcodes
  <2>1. Flushed(opcodes', Opcode)
    BY <1>1, <1>t, SaveFlushes DEF SaveOpcodes
  <2>2. /\ Flushed(execution, Addr)
        /\ registers.fanout.stored = registers.fanout.rows
        /\ registers.age.stored = registers.age.rows
    BY <1>1 DEF SaveOpcodes, IInv, WrittenSoFar
  <2>3. StoredAgree
    BY <2>2, RowsStored DEF RegisterInv
  <2>4. execution' = execution /\ registers' = registers
    BY <1>1 DEF SaveOpcodes
  <2>5. Flushed(execution', Addr) /\ StoredAgree'
    BY <2>2, <2>3, <2>4 DEF Flushed, StoredAgree, Column
  <2> QED
    BY <2>1, <2>5 DEF SavedAgree
<1>2. CASE ScanRegister
  <2>1. ins \in Addr /\ i \in 1 .. Len(Args(ins)) /\ Arg.kind = "reg"
    BY <1>2, ScansOneArg DEF ScanRegister
  <2>2. reg_id(Arg.reg) \in RegId
    BY <2>1, ProgramAssumption DEF Arg
  <2>3. registers'.fanout = registers.fanout /\ registers'.age = registers.age
    BY <1>2, <1>t, <2>2, RegisterReadType DEF ScanRegister
  <2>4. /\ execution' = execution /\ opcodes' = opcodes
        /\ total' = total /\ pc' = pc
    BY <1>2 DEF ScanRegister
  <2>5. Saved' => Saved
    BY <2>4 DEF Saved
  <2> QED
    BY <2>3, <2>4, <2>5, SavedStays DEF SavedAgree
<1>3. CASE WriteRegister
  <2>1. /\ registers' = RegisterWrite(registers, write_list[i], total)
        /\ write_list[i] \in RegId
        /\ execution' = execution /\ opcodes' = opcodes
        /\ total' = total /\ pc' = pc
    BY <1>3, <1>t DEF WriteRegister, statics
  <2> DEFINE r == write_list[i]
             k == reg_class(r)
  <2>2. k \in Class /\ ~(k < 0)
    <3>1. k \in Class
      BY <2>1, ClassType
    <3> HIDE DEF k
    <3> QED
      BY <3>1 DEF Class
  <2> HIDE DEF r
  <2>3. registers' = [regs   |-> [registers.regs EXCEPT ![r] = Overwritten(@, total)],
                      fanout |-> CountRow(registers.fanout, FanoutRow(registers, r), k),
                      age    |-> CountRow(registers.age, AgeRow(registers, r, total), k)]
    BY <2>1, <2>2, Zenon DEF RegisterWrite, r
  <2> HIDE DEF k
  <2>4. /\ registers'.fanout = CountRow(registers.fanout, FanoutRow(registers, r), k)
        /\ registers'.age = CountRow(registers.age, AgeRow(registers, r, total), k)
    BY <2>3
  <2>5. /\ registers'.fanout.stored = registers.fanout.stored
        /\ registers'.age.stored = registers.age.stored
    BY <1>t, <2>2, <2>4, CountRowType
  <2>6. Saved' => Saved
    BY <2>1 DEF Saved
  <2> QED
    BY <2>1, <2>5, <2>6, SavedStays DEF SavedAgree
<1>4. CASE UNCHANGED <<execution, opcodes, registers>> /\ (Saved' => Saved)
  BY <1>4, SavedStays DEF SavedAgree
<1>5. CASE ~Saved'
  BY <1>5 DEF SavedAgree
<1>6. CASE \/ SaveImage \/ ScanImmediate \/ ScanMemory \/ ScanDone
           \/ RegistersWritten \/ WriteMemory \/ MemoryWritten
           \/ UNCHANGED vars
  <2>1. UNCHANGED <<execution, opcodes, registers, total>>
    BY <1>6 DEF SaveImage, ScanImmediate, ScanMemory, ScanDone, Scanning,
       RegistersWritten, WriteMemory, MemoryWritten, vars, tables
  <2>2. pc' \in {"image", "scan", "reg_writes", "mem_writes", "opcode"}
          => pc \in {"image", "scan", "reg_writes", "mem_writes", "opcode"}
    BY <1>6 DEF SaveImage, ScanImmediate, ScanMemory, ScanDone, Scanning,
       RegistersWritten, WriteMemory, MemoryWritten, vars
  <2> QED
    BY <1>4, <2>1, <2>2 DEF Saved
<1>7. CASE \/ \E a \in Addr : instruction(a) \/ on_ins(a)
           \/ SaveFanout \/ SaveAge \/ SaveMemory \/ SaveExecution
           \/ CountOpcode \/ exec \/ on_finish \/ handle_signal \/ Kill
  <2>1. ~Saved'
    BY <1>7 DEF instruction, on_ins, CheckpointDue, SaveFanout, SaveAge, SaveMemory,
       SaveExecution, CountOpcode, exec, on_finish, handle_signal, Kill, Saved
  <2> QED
    BY <1>5, <2>1
<1> QED
  BY <1>1, <1>2, <1>3, <1>6, <1>7 DEF Next, Application, Handler, Checkpoint, Scan

\* The files agree after a checkpoint and when the process has exited.
THEOREM CheckpointsAgree == Spec /\ []CountsFit => []CheckpointAgrees
<1>1. RegisterInv /\ OpcodeSums /\ SavedAgree => CheckpointAgrees
  <2> SUFFICES ASSUME RegisterInv, OpcodeSums, SavedAgree, pc = "exited" \/ Saved
               PROVE  FilesAgree
    BY DEF CheckpointAgrees, Saved
  <2>1. /\ Flushed(execution, Addr) /\ Flushed(opcodes, Opcode) /\ StoredAgree
        /\ pc \notin {"exec", "killed"}
    <3>1. CASE Saved
      BY <3>1 DEF Saved, SavedAgree
    <3>2. CASE pc = "exited"
      <4>1. /\ Flushed(execution, Addr) /\ Flushed(opcodes, Opcode)
            /\ registers.fanout.stored = registers.fanout.rows
            /\ registers.age.stored = registers.age.rows
        BY <3>2 DEF RegisterInv, IInv, WrittenSoFar
      <4> QED
        BY <3>2, <4>1, RowsStored DEF RegisterInv
    <3> QED
      BY <3>1, <3>2
  <2>2. ASSUME NEW o \in Opcode
        PROVE  opcodes.stored[o][Times] = Sum(ExecutionFile, OfOpcode(o))
    <3>1. /\ opcodes \in Store(Opcode, OpcodeField) /\ Times \in OpcodeField
          /\ execution \in Store(Addr, ExecField) /\ "count" \in ExecField
          /\ OfOpcode(o) \subseteq Addr /\ Executions \in [Addr -> Nat]
      BY ExecutionsType DEF RegisterInv, IInv, TypeOK, OpcodeField, ExecField, Times, OfOpcode
    <3>2. opcodes.stored[o][Times] = Counted(opcodes, o, Times)
      BY <2>1, <3>1, FlushedStored
    <3>3. \A a \in OfOpcode(o) : ExecutionFile[a] = Executions[a]
      BY <2>1, <3>1, FlushedStored DEF ExecutionFile, Executions
    <3>4. IsFiniteSet(OfOpcode(o))
      BY <3>1, FS_Subset, FiniteAssumption
    <3>5. Sum(ExecutionFile, OfOpcode(o)) = Sum(Executions, OfOpcode(o))
      BY <3>3, <3>4, SumSame
    <3>6. Sum(Executions, OfOpcode(o)) \in Nat
      BY <3>1, <3>4, SumNat
    <3>7. Counted(opcodes, o, Times) = Sum(Executions, OfOpcode(o)) + Ahead(o) /\ Ahead(o) = 0
      BY <2>1 DEF OpcodeSums, Ahead
    <3> QED
      BY <3>2, <3>5, <3>6, <3>7
  <2> QED
    BY <2>1, <2>2 DEF FilesAgree, StoredAgree, Times
<1>2. Init => SavedAgree
  BY DEF Init, SavedAgree, Saved
<1>3. RegisterInv /\ RegisterInv' /\ SavedAgree /\ [Next]_vars => SavedAgree'
  BY SavedNext DEF RegisterInv
<1>4. Spec /\ []CountsFit => []SavedAgree
  BY RegisterInvariant, <1>2, <1>3, PTL DEF Spec
<1> QED
  BY RegisterInvariant, OpcodeInvariant, <1>1, <1>4, PTL

(***************************************************************************)
(* The width histograms add up.                                            *)
(***************************************************************************)
\* An operand fills some of the lanes.
LEMMA LanesOfType ==
  ASSUME NEW a \in Addr, NEW n \in 1 .. Len(Args(a)), NEW x \in Array
  PROVE  LanesOf(Args(a)[n], x) \in 0 .. LANES
<1> DEFINE arg == Args(a)[n]
<1>1. /\ arg.kind \in {"reg", "imm", "mem"}
      /\ arg.kind = "reg" => arg.dcount \in 0 .. LANES
      /\ LANES \in Nat /\ LANES > 0
  BY ProgramAssumption, Sizes
<1> HIDE DEF arg
<1>2. LanesOf(arg, x) \in 0 .. LANES
  BY <1>1 DEF LanesOf
<1> QED
  BY <1>2 DEF arg

\* A lane is below the most lanes that an operand fills if one of them fills it.
LEMMA LanesMax ==
  ASSUME NEW a \in Addr, NEW x \in Array
  PROVE  /\ Lanes(a, x) \in 0 .. LANES
         /\ \A j \in Nat : j < Lanes(a, x)
              <=> \E n \in 1 .. Len(Args(a)) : j < LanesOf(Args(a)[n], x)
<1> DEFINE of(n) == LanesOf(Args(a)[n], x)
           S == {0} \cup {of(n) : n \in 1 .. Len(Args(a))}
<1>1. \A n \in 1 .. Len(Args(a)) : of(n) \in 0 .. LANES
  BY LanesOfType
<1>2. LANES \in Nat
  BY Sizes
<1> HIDE DEF of
<1>3. S \in SUBSET (0 .. LANES) /\ S # {}
  BY <1>1, <1>2
<1>4. \A m : m \in S <=> m = 0 \/ \E n \in 1 .. Len(Args(a)) : m = of(n)
  OBVIOUS
<1>5. Lanes(a, x) = Max(S)
  BY DEF Lanes, of
<1> HIDE DEF S
<1>6. Max(S) \in S /\ \A y \in S : y <= Max(S)
  BY <1>2, <1>3, Greatest
<1> DEFINE m == Max(S)
<1>7. m \in 0 .. LANES /\ m \in S /\ \A y \in S : y <= m
  BY <1>3, <1>6
<1> HIDE DEF m
<1>8. ASSUME NEW j \in Nat
      PROVE  j < m <=> \E n \in 1 .. Len(Args(a)) : j < of(n)
  <2>1. ASSUME j < m PROVE \E n \in 1 .. Len(Args(a)) : j < of(n)
    BY <1>4, <1>7, <2>1
  <2>2. ASSUME NEW n \in 1 .. Len(Args(a)), j < of(n) PROVE j < m
    <3>1. of(n) \in S /\ of(n) \in 0 .. LANES
      BY <1>1, <1>4
    <3> QED
      BY <1>7, <2>2, <3>1
  <2> QED
    BY <2>1, <2>2
<1> QED
  BY <1>5, <1>7, <1>8 DEF m, of

\* Widening sets the lanes it reaches.
LEMMA WidenSets ==
  ASSUME TypeOK, NEW A, NEW n \in Nat, NEW w \in [Lane -> Width], Widen(A, n, w),
         NEW x \in Array, NEW j \in Lane
  PROVE  width'[x][j] >= 0 <=> width[x][j] >= 0 \/ (x \in A /\ j < n)
<1>1. /\ width[x][j] \in Width \cup {-1} /\ w[j] \in Width /\ Width \subseteq Nat
  BY Sizes DEF TypeOK
<1>2. width'[x][j] = IF x \in A /\ j < n THEN Larger(width[x][j], w[j]) ELSE width[x][j]
  BY DEF Widen
<1>3. \A p \in Width \cup {-1}, q \in Width : Larger(p, q) >= 0
  BY <1>1 DEF Larger
<1> DEFINE before == width[x][j]
           after == width'[x][j]
<1>4. after = before \/ (x \in A /\ j < n /\ after >= 0)
  BY <1>1, <1>2, <1>3
<1>5. x \in A /\ j < n => after >= 0
  BY <1>1, <1>2, <1>3
<1> HIDE DEF before, after
<1>6. after >= 0 <=> before >= 0 \/ (x \in A /\ j < n)
  BY <1>4, <1>5
<1> QED
  BY <1>6 DEF before, after

\* The steps of a call at which lanes are set.
Measuring == {"scan", "reg_writes", "mem_writes", "opcode"}

\* The lanes that are set are those that an operand scanned so far fills.
SetLanes ==
  /\ pc \in Measuring =>
       \A x \in Array : \A j \in Lane :
         width[x][j] >= 0 <=> \E n \in 1 .. Scanned : j < LanesOf(Args(ins)[n], x)
  /\ pc \notin Measuring \cup {"killed"} => NoWidth

\* The scan of an operand sets the lanes that it fills.
LEMMA ScanSets ==
  ASSUME IInv, Position, ScanRegister \/ ScanImmediate \/ ScanMemory
  PROVE  /\ ins \in Addr /\ i \in 1 .. Len(Args(ins)) /\ pc = "scan" /\ pc' = "scan"
         /\ ins' = ins /\ Scanned = i - 1 /\ Scanned' = i
         /\ \A x \in Array : \A j \in Lane :
              width'[x][j] >= 0 <=> width[x][j] >= 0 \/ j < LanesOf(Arg, x)
<1>1. /\ ins \in Addr /\ i \in 1 .. Len(Args(ins)) /\ pc = "scan" /\ pc' = "scan"
      /\ ins' = ins /\ Scanned = i - 1 /\ Scanned' = i
  BY ScansOne DEF ScanRegister, ScanImmediate, ScanMemory, Scanning
<1>2. TypeOK /\ Lane \subseteq Nat
  BY Sizes DEF IInv, Lane
<1>3. ASSUME NEW x \in Array, NEW j \in Lane, width' = width, LanesOf(Arg, x) = 0
      PROVE  width'[x][j] >= 0 <=> width[x][j] >= 0 \/ j < LanesOf(Arg, x)
  BY <1>2, <1>3
<1>4. ASSUME ScanRegister, NEW x \in Array, NEW j \in Lane
      PROVE  width'[x][j] >= 0 <=> width[x][j] >= 0 \/ j < LanesOf(Arg, x)
  <2>1. Arg.kind = "reg" /\ Arg.dcount \in Nat
    BY <1>1, <1>4, ProgramAssumption, Sizes DEF ScanRegister, Scanning, Arg
  <2>2. CASE Arg.read
    <3>1. PICK w \in [Lane -> Width] : Widen(ArraysOf(Arg.dtype), Arg.dcount, w)
      BY <1>4, <2>2 DEF ScanRegister
    <3>2. width'[x][j] >= 0
            <=> width[x][j] >= 0 \/ (x \in ArraysOf(Arg.dtype) /\ j < Arg.dcount)
      BY <1>2, <2>1, <3>1, WidenSets
    <3>3. j < LanesOf(Arg, x) <=> x \in ArraysOf(Arg.dtype) /\ j < Arg.dcount
      BY <1>2, <2>1, <2>2 DEF LanesOf
    <3> QED
      BY <3>2, <3>3
  <2>3. CASE ~Arg.read
    <3>1. width' = width /\ LanesOf(Arg, x) = 0
      BY <1>4, <2>1, <2>3 DEF ScanRegister, LanesOf
    <3> QED
      BY <1>3, <3>1
  <2> QED
    BY <2>2, <2>3
<1>5. ASSUME ScanImmediate, NEW x \in Array, NEW j \in Lane
      PROVE  width'[x][j] >= 0 <=> width[x][j] >= 0 \/ j < LanesOf(Arg, x)
  <2>1. Arg.kind = "imm"
    BY <1>5 DEF ScanImmediate, Scanning
  <2>2. PICK w \in [Lane -> Width] : Widen({"int"}, 1, w)
    BY <1>5 DEF ScanImmediate
  <2>3. width'[x][j] >= 0 <=> width[x][j] >= 0 \/ (x \in {"int"} /\ j < 1)
    BY <1>2, <2>2, WidenSets
  <2>4. j < LanesOf(Arg, x) <=> x \in {"int"} /\ j < 1
    BY <1>2, <2>1 DEF LanesOf
  <2> QED
    BY <2>3, <2>4
<1>6. ASSUME ScanMemory, NEW x \in Array, NEW j \in Lane
      PROVE  width'[x][j] >= 0 <=> width[x][j] >= 0 \/ j < LanesOf(Arg, x)
  <2>1. Arg.kind = "mem"
    BY <1>6 DEF ScanMemory, Scanning
  <2>2. CASE Arg.read
    <3>1. PICK w \in [Lane -> Width] : Widen({"int"}, 1, w)
      BY <1>6, <2>2 DEF ScanMemory
    <3>2. width'[x][j] >= 0 <=> width[x][j] >= 0 \/ (x \in {"int"} /\ j < 1)
      BY <1>2, <3>1, WidenSets
    <3>3. j < LanesOf(Arg, x) <=> x \in {"int"} /\ j < 1
      BY <1>2, <2>1, <2>2 DEF LanesOf
    <3> QED
      BY <3>2, <3>3
  <2>3. CASE ~Arg.read
    <3>1. width' = width /\ LanesOf(Arg, x) = 0
      BY <1>6, <2>1, <2>3 DEF ScanMemory, LanesOf
    <3> QED
      BY <1>3, <3>1
  <2> QED
    BY <2>2, <2>3
<1> QED
  BY <1>1, <1>4, <1>5, <1>6

\* Nothing else sets a lane, and the drain loops unset all.
LEMMA SetLanesNext ==
  ASSUME IInv, IInv', Position, Position', SetLanes, [Next]_vars
  PROVE  SetLanes'
<1>1. CASE ScanRegister \/ ScanImmediate \/ ScanMemory
  <2>1. /\ ins \in Addr /\ i \in 1 .. Len(Args(ins)) /\ pc = "scan" /\ pc' = "scan"
        /\ ins' = ins /\ Scanned = i - 1 /\ Scanned' = i
        /\ \A x \in Array : \A j \in Lane :
              width'[x][j] >= 0 <=> width[x][j] >= 0 \/ j < LanesOf(Arg, x)
    BY <1>1, ScanSets
  <2>2. ASSUME NEW x \in Array, NEW j \in Lane
        PROVE  width'[x][j] >= 0 <=> \E n \in 1 .. Scanned' : j < LanesOf(Args(ins')[n], x)
    <3> DEFINE Fills(n) == j < LanesOf(Args(ins)[n], x)
    <3>1. width[x][j] >= 0 <=> \E n \in 1 .. i - 1 : Fills(n)
      BY <2>1 DEF SetLanes, Measuring
    <3>2. width'[x][j] >= 0 <=> width[x][j] >= 0 \/ Fills(i)
      BY <2>1 DEF Arg
    <3> HIDE DEF Fills
    <3>3. i \in Nat /\ i >= 1
      BY DEF IInv, TypeOK
    <3>4. (\E n \in 1 .. i : Fills(n)) <=> (\E n \in 1 .. i - 1 : Fills(n)) \/ Fills(i)
      <4>1. \A n : n \in 1 .. i <=> n \in 1 .. i - 1 \/ n = i
        BY <3>3
      <4> QED
        BY <4>1
    <3>5. width'[x][j] >= 0 <=> \E n \in 1 .. i : Fills(n)
      BY <3>1, <3>2, <3>4
    <3> QED
      BY <2>1, <3>5 DEF Fills
  <2> QED
    BY <2>1, <2>2 DEF SetLanes, Measuring
<1>2. ASSUME pc \in Measuring, pc' \in Measuring, ins' = ins, Scanned' = Scanned,
             width' = width
      PROVE  SetLanes'
  BY <1>2 DEF SetLanes, Measuring
<1>3. CASE ScanDone \/ WriteRegister \/ RegistersWritten \/ WriteMemory \/ MemoryWritten
  <2>1. pc \in Measuring /\ pc' \in Measuring /\ ins' = ins /\ width' = width
    BY <1>3 DEF ScanDone, WriteRegister, RegistersWritten, WriteMemory, MemoryWritten,
       statics, Measuring
  <2>2. Scanned' = Scanned
    <3>1. CASE ScanDone
      BY <3>1, ScansAll
    <3>2. CASE ~ScanDone
      BY <1>3, <2>1, <3>2 DEF WriteRegister, RegistersWritten, WriteMemory, MemoryWritten,
         Scanned, AfterScan
    <3> QED
      BY <3>1, <3>2
  <2> QED
    BY <1>2, <2>1, <2>2
<1>4. ASSUME NoWidth, width' = width, pc' \notin Measuring \/ (pc' = "scan" /\ i' = 1)
      PROVE  SetLanes'
  <2>1. NoWidth'
    BY <1>4 DEF NoWidth
  <2>2. ASSUME pc' = "scan", i' = 1, NEW x \in Array, NEW j \in Lane
        PROVE  width'[x][j] >= 0 <=> \E n \in 1 .. Scanned' : j < LanesOf(Args(ins')[n], x)
    <3>1. Scanned' = 0 /\ width'[x][j] = -1
      BY <2>1, <2>2 DEF Scanned, NoWidth
    <3>2. ~(\E n \in 1 .. Scanned' : TRUE)
      BY <3>1
    <3> QED
      BY <3>1, <3>2
  <2> QED
    BY <1>4, <2>1, <2>2 DEF SetLanes, Measuring
<1>5. CASE \/ \E a \in Addr : on_ins(a) \/ instruction(a)
           \/ Checkpoint \/ SaveImage \/ exec \/ on_finish \/ handle_signal
  <2>1. pc \notin Measuring \cup {"killed"} /\ width' = width
    BY <1>5 DEF on_ins, instruction, Checkpoint, SaveFanout, SaveAge, SaveMemory,
       SaveExecution, SaveOpcodes, SaveImage, exec, on_finish, handle_signal,
       statics, Measuring
  <2>2. pc' \notin Measuring \/ pc' = "scan"
    BY <1>5 DEF on_ins, instruction, Checkpoint, SaveFanout, SaveAge, SaveMemory,
       SaveExecution, SaveOpcodes, SaveImage, exec, on_finish, handle_signal,
       AfterCheckpoint, Measuring
  <2>3. i' = i /\ i = 1
    BY <1>5, <2>1 DEF on_ins, instruction, Checkpoint, SaveFanout, SaveAge, SaveMemory,
       SaveExecution, SaveOpcodes, SaveImage, exec, on_finish, handle_signal,
       locals, Position, Measuring
  <2> QED
    BY <1>4, <2>1, <2>2, <2>3 DEF SetLanes
<1>6. CASE CountOpcode
  <2>1. pc' = "exec"
    BY <1>6 DEF CountOpcode
  <2>2. NoWidth'
    BY <2>1 DEF IInv, EmptiedInTime
  <2> QED
    BY <2>1, <2>2 DEF SetLanes, Measuring
<1>7. CASE Kill
  BY <1>7 DEF Kill, SetLanes, Measuring
<1>8. CASE UNCHANGED vars
  BY <1>8 DEF vars, locals, statics, SetLanes, Scanned, NoWidth
<1> QED
  BY <1>1, <1>3, <1>5, <1>6, <1>7, <1>8 DEF Next, Application, Handler, Scan

\* A drain loop visits as many lanes as the widest operand has, and the width it
\* finds in each is one of the histogram's.
LEMMA DrainedLanes ==
  ASSUME IInv, Position, SetLanes, CountOpcode, NEW x \in Array
  PROVE  /\ IsFiniteSet(Drained(x)) /\ Cardinality(Drained(x)) = Lanes(ins, x)
         /\ \A j \in Drained(x) : width[x][j] \in Width
<1> DEFINE m == Lanes(ins, x)
           Fills(j) == \E n \in 1 .. Len(Args(ins)) : j < LanesOf(Args(ins)[n], x)
<1>1. /\ ins \in Addr /\ pc = "opcode" /\ Scanned = Len(Args(ins))
      /\ width \in [Array -> [Lane -> Width \cup {-1}]] /\ Width \subseteq Nat
      /\ LANES \in Nat
  BY Sizes DEF IInv, TypeOK, Running, CountOpcode, Scanned, AfterScan
<1>2. m \in 0 .. LANES /\ \A j \in Nat : j < m <=> Fills(j)
  BY <1>1, LanesMax
<1>3. \A j \in Lane : width[x][j] >= 0 <=> Fills(j)
  BY <1>1 DEF SetLanes, Measuring
<1>4. \A j \in Lane : j \in Nat /\ j < LANES
  BY <1>1 DEF Lane
<1> HIDE DEF m, Fills
<1>5. \A j \in Lane : width[x][j] >= 0 <=> j < m
  BY <1>2, <1>3, <1>4
<1>6. Drained(x) = 0 .. m - 1
  <2>1. ASSUME NEW j \in Lane
        PROVE  (\A k \in 0 .. j : width[x][k] >= 0) <=> j < m
    <3>1. \A k \in 0 .. j : k \in Lane /\ k <= j /\ k \in Int
      BY <1>1, <1>4 DEF Lane
    <3>2. j \in 0 .. j /\ j \in Nat
      BY <1>4
    <3> QED
      BY <1>2, <1>5, <3>1, <3>2
  <2>2. Drained(x) = {j \in Lane : j < m}
    BY <2>1 DEF Drained
  <2>3. {j \in Lane : j < m} = 0 .. m - 1
    BY <1>1, <1>2 DEF Lane
  <2> QED
    BY <2>2, <2>3
<1>7. IsFiniteSet(0 .. m - 1) /\ Cardinality(0 .. m - 1) = m
  <2>1. CASE m = 0
    <3>1. 0 .. m - 1 = {}
      BY <2>1
    <3> QED
      BY <2>1, <3>1, FS_EmptySet
  <2>2. CASE m # 0
    BY <1>2, <2>2, FS_Interval
  <2> QED
    BY <2>1, <2>2
<1>8. ASSUME NEW j \in Drained(x) PROVE width[x][j] \in Width
  <2>1. j \in Lane /\ width[x][j] >= 0
    <3>1. j \in Lane /\ \A k \in 0 .. j : width[x][k] >= 0
      BY DEF Drained
    <3>2. j \in 0 .. j
      BY <1>4, <3>1
    <3> QED
      BY <3>1, <3>2
  <2>2. width[x][j] \in Width \cup {-1}
    BY <1>1, <2>1
  <2> QED
    BY <2>1, <2>2
<1> QED
  BY <1>6, <1>7, <1>8 DEF m

\* What the histogram of array x has for opcode o, and what it should have.
Histogram(o, x) == [w \in Width |-> Counted(opcodes, o, <<x, w>>)]
LanesRun(x) == [a \in Addr |-> ran[a] * Lanes(a, x)]

\* The lanes of the running call, until they are drained.
LanesPending(o, x) ==
  IF ins \in OfOpcode(o) /\ pc # "exec" THEN Lanes(ins, x) ELSE 0

\* The sums of WidthTotals, at every step of a call.
WidthSums ==
  pc # "killed" \/ Idle =>
    \A o \in Opcode, x \in Array :
      Sum(Histogram(o, x), Width)
        = Sum(LanesRun(x), OfOpcode(o)) - LanesPending(o, x)

\* CountOpcode adds the lanes to the opcode's histogram.
LEMMA SamplesAreLanes ==
  ASSUME IInv, IInv', Position, SetLanes, CountOpcode, NEW o \in Opcode, NEW x \in Array
  PROVE  Sum(Histogram(o, x)', Width)
           = Sum(Histogram(o, x), Width)
               + (IF o = Prog[ins].opcode THEN Lanes(ins, x) ELSE 0)
<1> DEFINE p == Prog[ins].opcode
           row == [f \in OpcodeField |-> Sample(f)]
           field(w) == <<x, w>>
           new == Histogram(o, x)'
           old == Histogram(o, x)
           sample == [w \in Width |-> Cardinality({j \in Drained(x) : width[x][j] = w})]
<1>t. /\ p \in Opcode /\ opcodes \in Store(Opcode, OpcodeField)
      /\ row \in [OpcodeField -> Nat]
  BY SampleType DEF IInv, TypeOK, Running, CountOpcode
<1>f. \A w \in Width : field(w) \in OpcodeField /\ row[field(w)] = sample[w]
  <2> SUFFICES ASSUME NEW w \in Width
               PROVE  field(w) \in OpcodeField /\ row[field(w)] = sample[w]
    OBVIOUS
  <2>1. field(w) \in OpcodeField
    BY DEF OpcodeField
  <2>2. field(w)[1] = x /\ field(w)[2] = w
    OBVIOUS
  <2>3. x # "count" /\ x # "mem_count"
    BY DEF Array
  <2>4. field(w) # <<"count", 0>> /\ field(w) # <<"mem_count", 0>>
    BY <2>2, <2>3
  <2> HIDE DEF field
  <2>5. Sample(field(w)) = Cardinality({j \in Drained(x) : width[x][j] = w})
    BY <2>2, <2>4 DEF Sample
  <2> QED
    BY <2>1, <2>5
<1>1. PICK E \in Victims(opcodes.cached, p, OPCODES_CACHE) :
        opcodes' = Add(Get(opcodes, p, E), p, row)
  BY DEF CountOpcode
<1> DEFINE got == Get(opcodes, p, E)
<1> HIDE DEF p, row
<1>2. /\ got \in Store(Opcode, OpcodeField)
      /\ \A k \in Opcode, f \in OpcodeField : Counted(got, k, f) = Counted(opcodes, k, f)
  BY <1>t, GetKeeps
<1>3. opcodes' = Add(got, p, row)
  BY <1>1
<1> HIDE DEF got
<1>4. \A f \in OpcodeField :
        Counted(opcodes', o, f) = Counted(opcodes, o, f) + (IF o = p THEN row[f] ELSE 0)
  BY <1>t, <1>2, <1>3, AddCounts
<1>5. \A w \in Width : old[w] \in Int /\ new[w] \in Int
  <2>1. opcodes \in Store(Opcode, OpcodeField) /\ opcodes' \in Store(Opcode, OpcodeField)
    BY DEF IInv, TypeOK
  <2>2. \A f \in OpcodeField : Counted(opcodes, o, f) \in Nat /\ Counted(opcodes', o, f) \in Nat
    BY <2>1 DEF Store, Counted
  <2>3. \A w \in Width : <<x, w>> \in OpcodeField
    BY <1>f
  <2> QED
    BY <2>2, <2>3 DEF Histogram
<1>6. \A w \in Width : new[w] = old[w] + (IF o = p THEN sample[w] ELSE 0)
  BY <1>f, <1>4 DEF Histogram
<1>7. /\ IsFiniteSet(Drained(x)) /\ Cardinality(Drained(x)) = Lanes(ins, x)
      /\ \A j \in Drained(x) : width[x][j] \in Width
  BY DrainedLanes
<1>8. Sum(sample, Width) = Lanes(ins, x)
  <2> DEFINE v == width[x]
  <2>1. \A j \in Drained(x) : v[j] \in Width
    BY <1>7
  <2> HIDE DEF v
  <2>2. Sum([w \in Width |-> Cardinality({j \in Drained(x) : v[j] = w})], Width)
          = Cardinality(Drained(x))
    BY <1>7, <2>1, SumOfCounts, FiniteAssumption
  <2> QED
    BY <1>7, <2>2 DEF v
<1>9. \A w \in Width : sample[w] \in Nat
  BY <1>t, <1>f DEF row
<1> HIDE DEF new, old, sample
<1>10. CASE o = p
  <2>1. \A w \in Width : new[w] \in Int /\ sample[w] \in Int /\ old[w] = new[w] - sample[w]
    BY <1>5, <1>6, <1>9, <1>10
  <2>2. Sum(old, Width) = Sum(new, Width) - Sum(sample, Width)
    BY <2>1, SumMinus, FiniteAssumption
  <2>3. Sum(new, Width) \in Int /\ Sum(sample, Width) \in Int
    BY <2>1, SumType, FiniteAssumption
  <2> QED
    BY <1>8, <1>10, <2>2, <2>3 DEF new, old, p
<1>11. CASE o # p
  <2>1. \A w \in Width : old[w] = new[w]
    BY <1>5, <1>6, <1>11
  <2>2. Sum(old, Width) = Sum(new, Width) /\ Sum(old, Width) \in Int
    BY <1>5, <2>1, SumSame, SumType, FiniteAssumption
  <2> QED
    BY <1>11, <2>2 DEF new, old, p
<1> QED
  BY <1>10, <1>11

\* The sums are numbers.
LEMMA WidthSumsType ==
  ASSUME TypeOK, NEW o \in Opcode, NEW x \in Array
  PROVE  /\ \A a \in Addr : Lanes(a, x) \in Nat /\ LanesRun(x)[a] \in Nat
         /\ OfOpcode(o) \in SUBSET Addr /\ IsFiniteSet(OfOpcode(o))
         /\ Sum(LanesRun(x), OfOpcode(o)) \in Nat
         /\ LanesPending(o, x) \in Nat
<1>1. ASSUME NEW a \in Addr PROVE Lanes(a, x) \in Nat /\ LanesRun(x)[a] \in Nat
  <2>1. Lanes(a, x) \in Nat /\ ran[a] \in Nat
    BY LanesMax, Sizes DEF TypeOK
  <2> QED
    BY <2>1, Times1 DEF LanesRun
<1>2. OfOpcode(o) \in SUBSET Addr /\ IsFiniteSet(OfOpcode(o))
  <2>1. OfOpcode(o) \in SUBSET Addr
    BY DEF OfOpcode
  <2> QED
    BY <2>1, FS_Subset, FiniteAssumption
<1>3. Sum(LanesRun(x), OfOpcode(o)) \in Nat
  BY <1>1, <1>2, SumNat
<1> QED
  BY <1>1, <1>2, <1>3 DEF LanesPending

\* A call begins with all of its lanes pending; nothing is pending between its
\* last step and the next call, and no step but CountOpcode moves a sample.
LEMMA WidthSumsNext ==
  ASSUME IInv, IInv', Position, SetLanes, WidthSums, [Next]_vars
  PROVE  WidthSums'
<1> SUFFICES ASSUME pc' # "killed" \/ Idle', NEW o \in Opcode, NEW x \in Array
             PROVE  Sum(Histogram(o, x)', Width)
                      = Sum(LanesRun(x)', OfOpcode(o)) - LanesPending(o, x)'
  BY DEF WidthSums, OfOpcode, Histogram
<1> DEFINE run == Sum(LanesRun(x), OfOpcode(o))
           have == Sum(Histogram(o, x), Width)
<1>t. /\ TypeOK /\ opcodes \in Store(Opcode, OpcodeField)
      /\ \A a \in Addr : Lanes(a, x) \in Nat /\ LanesRun(x)[a] \in Nat
      /\ OfOpcode(o) \in SUBSET Addr /\ IsFiniteSet(OfOpcode(o))
      /\ run \in Nat /\ LanesPending(o, x) \in Nat
      /\ \A w \in Width : <<x, w>> \in OpcodeField
      /\ NoIns \notin Addr
      /\ pc = "exec" => ins \in Addr
  BY WidthSumsType, Sizes DEF IInv, TypeOK, Running, OpcodeField
<1>0. pc # "killed" \/ Idle
  BY Progress
<1>p. have = run - LanesPending(o, x)
  BY <1>0 DEF WidthSums
<1>1. CASE CountOpcode
  <2>1. /\ LanesRun(x)' = LanesRun(x) /\ LanesPending(o, x)' = 0 /\ ins \in Addr
        /\ LanesPending(o, x) = IF o = Prog[ins].opcode THEN Lanes(ins, x) ELSE 0
    BY <1>1 DEF CountOpcode, LanesRun, LanesPending, OfOpcode, IInv, TypeOK, Running
  <2>2. Sum(Histogram(o, x)', Width) = have + LanesPending(o, x)
    BY <1>1, <2>1, SamplesAreLanes
  <2> QED
    BY <1>t, <1>p, <2>1, <2>2
<1>2. CASE ~CountOpcode
  <2>1. Histogram(o, x)' = Histogram(o, x)
    <3>1. CASE SaveOpcodes
      <4>1. opcodes' = Evict(opcodes, opcodes.cached)
        BY <3>1 DEF SaveOpcodes, Save
      <4>2. \A w \in Width : Counted(opcodes', o, <<x, w>>) = Counted(opcodes, o, <<x, w>>)
        BY <1>t, <4>1, EvictCounted
      <4> QED
        BY <4>2 DEF Histogram
    <3>2. ASSUME NEW a \in Addr, instruction(a)
          PROVE  Histogram(o, x)' = Histogram(o, x)
      <4>1. Prog[a].opcode \in Opcode
        BY <3>2, ProgramAssumption DEF instruction
      <4>2. PICK E : opcodes' = Get(opcodes, Prog[a].opcode, E)
        BY <3>2 DEF instruction
      <4>3. \A w \in Width : Counted(opcodes', o, <<x, w>>) = Counted(opcodes, o, <<x, w>>)
        BY <1>t, <4>1, <4>2, GetKeeps
      <4> QED
        BY <4>3 DEF Histogram
    <3>3. CASE opcodes' = opcodes
      BY <3>3 DEF Histogram
    <3> QED
      BY <1>2, <3>1, <3>2, <3>3, OpcodesSteps
  <2>2. ASSUME NEW a \in Addr, on_ins(a), ins = NoIns
        PROVE  Sum(LanesRun(x)', OfOpcode(o)) - LanesPending(o, x)' = run
    <3>1. /\ ins' = a /\ pc' # "exec" /\ ran \in [Addr -> Nat]
          /\ ran' = [ran EXCEPT ![a] = @ + 1]
      BY <1>t, <2>2 DEF on_ins, AfterCheckpoint, TypeOK
    <3> DEFINE c == Lanes(a, x)
               new == LanesRun(x)'
               old == LanesRun(x)
    <3>2. \A b \in OfOpcode(o) : old[b] \in Int /\ new[b] = old[b] + (IF b = a THEN c ELSE 0)
      <4> SUFFICES ASSUME NEW b \in Addr
                   PROVE  old[b] \in Int /\ new[b] = old[b] + (IF b = a THEN c ELSE 0)
        BY <1>t
      <4>1. old[b] = ran[b] * Lanes(b, x) /\ new[b] = ran'[b] * Lanes(b, x)
        BY DEF LanesRun
      <4>2. ran[b] \in Nat /\ ran'[b] = IF b = a THEN ran[b] + 1 ELSE ran[b]
        BY <3>1
      <4>3. Lanes(b, x) \in Nat /\ old[b] \in Nat
        BY <1>t
      <4> HIDE DEF old, new
      <4> QED
        BY <4>1, <4>2, <4>3, Times1
    <3>3. c \in Int
      BY <1>t
    <3> HIDE DEF c, new, old
    <3>4. Sum(new, OfOpcode(o)) = Sum(old, OfOpcode(o)) + (IF a \in OfOpcode(o) THEN c ELSE 0)
      <4> DEFINE S == OfOpcode(o)
      <4>1. IsFiniteSet(S)
        BY <1>t
      <4>2. \A b \in S : old[b] \in Int /\ new[b] = old[b] + (IF b = a THEN c ELSE 0)
        BY <3>2
      <4> HIDE DEF S
      <4>3. CASE a \in S
        <5>1. \A b \in S : old[b] \in Int /\ new[b] \in Int
          BY <3>3, <4>2
        <5>2. new[a] - old[a] = c /\ \A b \in S \ {a} : old[b] = new[b]
          BY <3>3, <4>2, <4>3
        <5>3. Sum(new, S) = Sum(old, S) + (new[a] - old[a])
          BY <4>1, <4>3, <5>1, <5>2, SumChange
        <5> QED
          BY <4>3, <5>2, <5>3 DEF S
      <4>4. CASE a \notin S
        <5>1. \A b \in S : old[b] = new[b] /\ old[b] \in Int
          BY <4>2, <4>4
        <5>2. Sum(old, S) = Sum(new, S) /\ Sum(old, S) \in Int
          BY <4>1, <5>1, SumSame, SumType
        <5> QED
          BY <4>4, <5>2 DEF S
      <4> QED
        BY <4>3, <4>4
    <3>5. LanesPending(o, x)' = IF a \in OfOpcode(o) THEN c ELSE 0
      BY <3>1 DEF LanesPending, c, OfOpcode
    <3> QED
      BY <1>t, <3>3, <3>4, <3>5 DEF new, old
  <2>3. CASE exec
    BY <1>p, <1>t, <2>1, <2>3 DEF exec, LanesRun, LanesPending
  <2>4. CASE ScanRegister \/ ScanImmediate \/ ScanMemory
    <3>1. UNCHANGED <<ins, ran, pc>>
      BY <2>4 DEF ScanRegister, ScanImmediate, ScanMemory, Scanning
    <3> QED
      BY <1>p, <2>1, <3>1 DEF LanesRun, LanesPending, OfOpcode
  <2>5. CASE UNCHANGED <<ins, ran>> /\ ~exec
    <3>1. ins \in Addr => (pc = "exec" <=> pc' = "exec")
      BY <1>0, <1>2, <1>t, <2>5 DEF Next, Application, Handler, Checkpoint, Scan,
         instruction, on_ins, SaveFanout, SaveAge, SaveMemory, SaveExecution,
         SaveOpcodes, SaveImage, ScanRegister, ScanImmediate, ScanMemory, ScanDone,
         Scanning, WriteRegister, RegistersWritten, WriteMemory, MemoryWritten,
         on_finish, handle_signal, Kill, AfterCheckpoint, vars, Idle
    <3>2. LanesRun(x)' = LanesRun(x) /\ LanesPending(o, x)' = LanesPending(o, x)
      BY <1>t, <2>5, <3>1 DEF LanesRun, LanesPending, OfOpcode
    <3> QED
      BY <1>p, <2>1, <3>2
  <2>6. ASSUME NEW a \in Addr, on_ins(a), ins = NoIns
        PROVE  Sum(Histogram(o, x)', Width)
                 = Sum(LanesRun(x)', OfOpcode(o)) - LanesPending(o, x)'
    <3>1. LanesPending(o, x) = 0
      BY <1>t, <2>6 DEF LanesPending
    <3> QED
      BY <1>p, <1>t, <2>1, <2>2, <2>6, <3>1
  <2> QED
    BY <2>3, <2>4, <2>5, <2>6, Progress
<1> QED
  BY <1>1, <1>2

\* Empty histograms, and no lane set.
LEMMA InitWidthSums == Init => SetLanes /\ WidthSums
<1> SUFFICES ASSUME Init PROVE SetLanes /\ WidthSums
  OBVIOUS
<1>1. SetLanes
  BY DEF Init, SetLanes, Measuring, NoWidth
<1>2. ASSUME NEW o \in Opcode, NEW x \in Array
      PROVE  Sum(Histogram(o, x), Width)
               = Sum(LanesRun(x), OfOpcode(o)) - LanesPending(o, x)
  <2>1. \A w \in Width : Histogram(o, x)[w] = 0
    <3>1. \A w \in Width : <<x, w>> \in OpcodeField
      BY DEF OpcodeField
    <3> QED
      BY <3>1, EmptyStoreType DEF Init, Histogram
  <2>2. \A a \in OfOpcode(o) : LanesRun(x)[a] = 0
    <3>1. ASSUME NEW a \in Addr PROVE LanesRun(x)[a] = 0
      <4>1. Lanes(a, x) \in Nat /\ ran[a] = 0
        BY LanesMax, Sizes DEF Init
      <4> QED
        BY <4>1 DEF LanesRun
    <3> QED
      BY <3>1 DEF OfOpcode
  <2>3. OfOpcode(o) \subseteq Addr /\ IsFiniteSet(OfOpcode(o))
    <3>1. OfOpcode(o) \subseteq Addr
      BY DEF OfOpcode
    <3> QED
      BY <3>1, FS_Subset, FiniteAssumption
  <2>4. Sum(Histogram(o, x), Width) = 0 /\ Sum(LanesRun(x), OfOpcode(o)) = 0
    BY <2>1, <2>2, <2>3, SumZero, FiniteAssumption
  <2>5. LanesPending(o, x) = 0
    BY Sizes DEF Init, LanesPending, OfOpcode
  <2> QED
    BY <2>4, <2>5
<1> QED
  BY <1>1, <1>2 DEF WidthSums

\* Between two callbacks the histograms have one sample per lane of the widest
\* operand of each execution.
THEOREM WidthsAddUp == Spec => []WidthTotals
<1> DEFINE Inv == IInv /\ Position /\ SetLanes /\ WidthSums
<1>1. Inv => WidthTotals
  <2> SUFFICES ASSUME Inv, Idle, NEW o \in Opcode, NEW x \in Array
               PROVE  Sum(Histogram(o, x), Width) = Sum(LanesRun(x), OfOpcode(o))
    BY DEF WidthTotals, Histogram, LanesRun
  <2>1. LanesPending(o, x) = 0
    BY Sizes DEF Idle, LanesPending, OfOpcode
  <2>2. Sum(LanesRun(x), OfOpcode(o)) \in Nat
    BY WidthSumsType DEF IInv
  <2> QED
    BY <2>1, <2>2 DEF WidthSums
<1>2. Init => Inv
  BY InitIInv, InitSums, InitWidthSums
<1>3. Inv /\ [Next]_vars => Inv'
  BY NextIInv, PositionNext, SetLanesNext, WidthSumsNext
<1> QED
  BY <1>1, <1>2, <1>3, PTL DEF Spec

(***************************************************************************)
(* What the analyzer assumes of the tables (RowAssumption, MemAssumption). *)
(***************************************************************************)
\* IsRow of Analyze: memory accesses are counted among the executions, and the
\* two significand histograms have as many samples.
Samples(row, x) == [w \in Width |-> row[<<x, w>>]]

IsRow(row) ==
  /\ row[MemTimes] <= row[<<"count", 0>>]
  /\ Sum(Samples(row, "sig_l"), Width) = Sum(Samples(row, "sig_m"), Width)

\* The rows of the file and the cached ones.
OpcodeRows == \A o \in Opcode : IsRow(opcodes.stored[o]) /\ IsRow(opcodes.delta[o])

\* The counters of a row.
LEMMA RowFields ==
  /\ MemTimes \in OpcodeField /\ <<"count", 0>> \in OpcodeField
  /\ \A x \in Array, w \in Width : <<x, w>> \in OpcodeField
  /\ "sig_l" \in Array /\ "sig_m" \in Array
BY DEF MemTimes, OpcodeField, Array

\* An empty row is one.
LEMMA ZeroIsRow == IsRow(Zero(OpcodeField))
<1> DEFINE row == Zero(OpcodeField)
<1>1. \A f \in OpcodeField : row[f] = 0
  BY DEF Zero
<1> HIDE DEF row
<1>2. ASSUME NEW x \in Array PROVE Sum(Samples(row, x), Width) = 0
  <2>1. \A w \in Width : Samples(row, x)[w] = 0
    BY <1>1, RowFields DEF Samples
  <2> QED
    BY <2>1, SumZero, FiniteAssumption
<1>3. row[MemTimes] = 0 /\ row[<<"count", 0>>] = 0
  BY <1>1, RowFields
<1>4. Sum(Samples(row, "sig_l"), Width) = Sum(Samples(row, "sig_m"), Width)
  BY <1>2, RowFields
<1> QED
  BY <1>3, <1>4 DEF IsRow, row

\* The merge of two rows is one.
LEMMA MergedIsRow ==
  ASSUME NEW a \in [OpcodeField -> Nat], NEW b \in [OpcodeField -> Nat], IsRow(a), IsRow(b)
  PROVE  IsRow(update(a, b))
<1> DEFINE c == update(a, b)
<1>1. \A f \in OpcodeField : a[f] \in Nat /\ b[f] \in Nat /\ c[f] = a[f] + b[f]
  BY DEF update
<1> HIDE DEF c
<1>2. ASSUME NEW x \in Array
      PROVE  /\ Sum(Samples(c, x), Width) = Sum(Samples(a, x), Width) + Sum(Samples(b, x), Width)
  <2>1. \A w \in Width : /\ Samples(a, x)[w] \in Int /\ Samples(b, x)[w] \in Int
                         /\ Samples(c, x)[w] = Samples(a, x)[w] + Samples(b, x)[w]
    BY <1>1, RowFields DEF Samples
  <2> QED
    BY <2>1, SumPlus, FiniteAssumption
<1>3. c[MemTimes] <= c[<<"count", 0>>]
  BY <1>1, RowFields DEF IsRow
<1>4. Sum(Samples(c, "sig_l"), Width) = Sum(Samples(c, "sig_m"), Width)
  BY <1>2, RowFields DEF IsRow
<1> QED
  BY <1>3, <1>4 DEF IsRow, c

\* A float operand fills the same lanes of the two significand arrays, so that
\* CountOpcode adds a row.
LEMMA SampleIsRow ==
  ASSUME IInv, Position, SetLanes, CountOpcode
  PROVE  IsRow([f \in OpcodeField |-> Sample(f)])
<1> DEFINE row == [f \in OpcodeField |-> Sample(f)]
<1>1. \A f \in OpcodeField : row[f] = Sample(f)
  OBVIOUS
<1> HIDE DEF row
<1>2. ASSUME NEW x \in Array PROVE Sum(Samples(row, x), Width) = Lanes(ins, x)
  <2> DEFINE v == width[x]
             D == Drained(x)
  <2>1. IsFiniteSet(D) /\ Cardinality(D) = Lanes(ins, x) /\ \A j \in D : v[j] \in Width
    BY DrainedLanes
  <2>2. \A w \in Width : Samples(row, x)[w] = Cardinality({j \in D : v[j] = w})
    <3> SUFFICES ASSUME NEW w \in Width
                 PROVE  Samples(row, x)[w] = Cardinality({j \in D : v[j] = w})
      OBVIOUS
    <3> DEFINE f == <<x, w>>
    <3>1. f \in OpcodeField /\ Samples(row, x)[w] = row[f]
      BY RowFields DEF Samples
    <3>2. f[1] = x /\ f[2] = w /\ x # "count" /\ x # "mem_count"
      BY DEF Array
    <3>3. f # <<"count", 0>> /\ f # <<"mem_count", 0>>
      BY <3>2
    <3> HIDE DEF f
    <3>4. Sample(f) = Cardinality({j \in Drained(x) : width[x][j] = w})
      BY <3>2, <3>3 DEF Sample
    <3> QED
      BY <1>1, <3>1, <3>4
  <2> HIDE DEF v, D
  <2> DEFINE g == [w \in Width |-> Cardinality({j \in D : v[j] = w})]
  <2>3. \A w \in Width : Samples(row, x)[w] = g[w]
    BY <2>2
  <2>4. Sum(g, Width) = Cardinality(D)
    BY <2>1, SumOfCounts, FiniteAssumption
  <2> HIDE DEF g
  <2>5. Sum(Samples(row, x), Width) = Sum(g, Width)
    BY <2>3, SumSame, FiniteAssumption
  <2> QED
    BY <2>1, <2>4, <2>5
<1>3. Lanes(ins, "sig_l") = Lanes(ins, "sig_m")
  <2>1. \A n \in 1 .. Len(Args(ins)) : LanesOf(Args(ins)[n], "sig_l") = LanesOf(Args(ins)[n], "sig_m")
    BY DEF LanesOf, ArraysOf
  <2>2. {LanesOf(Args(ins)[n], "sig_l") : n \in 1 .. Len(Args(ins))}
          = {LanesOf(Args(ins)[n], "sig_m") : n \in 1 .. Len(Args(ins))}
    BY <2>1
  <2> QED
    BY <2>2 DEF Lanes
<1>4. row[MemTimes] <= row[<<"count", 0>>]
  <2>1. row[MemTimes] = Sample(MemTimes) /\ row[<<"count", 0>>] = Sample(<<"count", 0>>)
    BY <1>1, RowFields
  <2>2. Sample(<<"count", 0>>) = 1
    BY DEF Sample
  <2>3. Sample(MemTimes) \in {0, 1}
    BY DEF Sample, MemTimes
  <2> QED
    BY <2>1, <2>2, <2>3
<1>5. Sum(Samples(row, "sig_l"), Width) = Sum(Samples(row, "sig_m"), Width)
  BY <1>2, <1>3, RowFields
<1> QED
  BY <1>4, <1>5 DEF IsRow, row

\* An eviction leaves the rows, in the file and in the cache.
LEMMA EvictedRows ==
  ASSUME NEW ks \in Store(Opcode, OpcodeField), NEW E,
         \A o \in Opcode : IsRow(ks.stored[o]) /\ IsRow(ks.delta[o])
  PROVE  \A o \in Opcode : IsRow(Evict(ks, E).stored[o]) /\ IsRow(Evict(ks, E).delta[o])
<1> SUFFICES ASSUME NEW o \in Opcode
             PROVE  IsRow(Evict(ks, E).stored[o]) /\ IsRow(Evict(ks, E).delta[o])
  OBVIOUS
<1>1. /\ ks.delta \in [Opcode -> [OpcodeField -> Nat]]
      /\ ks.stored \in [Opcode -> [OpcodeField -> Nat]]
  BY DEF Store
<1>2. ks.delta[o] \in [OpcodeField -> Nat] /\ ks.stored[o] \in [OpcodeField -> Nat]
      /\ DOMAIN ks.delta[o] = OpcodeField
  BY <1>1
<1>3. IsRow(update(ks.stored[o], ks.delta[o]))
  BY <1>2, MergedIsRow
<1>4. /\ Evict(ks, E).stored[o] = IF o \in E THEN update(ks.stored[o], ks.delta[o]) ELSE ks.stored[o]
      /\ Evict(ks, E).delta[o] = IF o \in E THEN Zero(OpcodeField) ELSE ks.delta[o]
  BY <1>1, <1>2 DEF Evict
<1> QED
  BY <1>3, <1>4, ZeroIsRow

\* No step leaves anything else in opcodes.tbl or its cache.
LEMMA OpcodeRowsNext ==
  ASSUME IInv, Position, SetLanes, OpcodeRows, [Next]_vars
  PROVE  OpcodeRows'
<1>t. opcodes \in Store(Opcode, OpcodeField)
  BY DEF IInv, TypeOK
<1>1. ASSUME NEW key \in Opcode, NEW E
      PROVE  \A o \in Opcode : /\ IsRow(Get(opcodes, key, E).stored[o])
                               /\ IsRow(Get(opcodes, key, E).delta[o])
  <2>1. /\ Get(opcodes, key, E).stored = Evict(opcodes, E).stored
        /\ Get(opcodes, key, E).delta = Evict(opcodes, E).delta
    BY DEF Get, Evict
  <2>2. \A o \in Opcode : IsRow(Evict(opcodes, E).stored[o]) /\ IsRow(Evict(opcodes, E).delta[o])
    BY <1>t, EvictedRows DEF OpcodeRows
  <2> QED
    BY <2>1, <2>2
<1>2. CASE SaveOpcodes
  <2>1. opcodes' = Evict(opcodes, opcodes.cached)
    BY <1>2 DEF SaveOpcodes, Save
  <2> QED
    BY <1>t, <2>1, EvictedRows DEF OpcodeRows
<1>3. ASSUME NEW a \in Addr, instruction(a) PROVE OpcodeRows'
  <2>1. Prog[a].opcode \in Opcode
    BY <1>3, ProgramAssumption DEF instruction
  <2>2. PICK E : opcodes' = Get(opcodes, Prog[a].opcode, E)
    BY <1>3 DEF instruction
  <2> QED
    BY <1>1, <2>1, <2>2 DEF OpcodeRows
<1>4. CASE CountOpcode
  <2> DEFINE p == Prog[ins].opcode
             row == [f \in OpcodeField |-> Sample(f)]
  <2>1. p \in Opcode /\ row \in [OpcodeField -> Nat]
    BY <1>4, SampleType DEF IInv, TypeOK, Running, CountOpcode
  <2>2. PICK E : opcodes' = Add(Get(opcodes, p, E), p, row)
    BY <1>4 DEF CountOpcode
  <2>3. IsRow(row)
    BY <1>4, SampleIsRow
  <2> DEFINE got == Get(opcodes, p, E)
  <2> HIDE DEF p, row
  <2>4. got \in Store(Opcode, OpcodeField)
    BY <1>t, <2>1, GetKeeps
  <2>5. \A o \in Opcode : IsRow(got.stored[o]) /\ IsRow(got.delta[o])
    BY <1>1, <2>1
  <2>6. opcodes' = Add(got, p, row)
    BY <2>2
  <2> HIDE DEF got
  <2>7. got.delta \in [Opcode -> [OpcodeField -> Nat]]
    BY <2>4 DEF Store
  <2>8. IsRow(update(got.delta[p], row))
    BY <2>1, <2>3, <2>5, <2>7, MergedIsRow
  <2>9. /\ opcodes'.stored = got.stored
        /\ \A o \in Opcode : opcodes'.delta[o] = IF o = p THEN update(got.delta[p], row) ELSE got.delta[o]
    BY <2>4, <2>6, <2>7 DEF Add, Store
  <2> QED
    BY <2>5, <2>8, <2>9 DEF OpcodeRows
<1>5. CASE opcodes' = opcodes
  BY <1>5 DEF OpcodeRows
<1> QED
  BY <1>2, <1>3, <1>4, <1>5, OpcodesSteps

\* The rows of opcodes.tbl are what the analyzer takes them for, also those an
\* eviction writes in the middle of a period, and those a killed process leaves.
THEOREM OpcodeRowsTheorem == Spec => []OpcodeRows
<1> DEFINE Inv == IInv /\ Position /\ SetLanes /\ OpcodeRows
<1>1. Init => Inv
  <2> SUFFICES ASSUME Init PROVE OpcodeRows
    BY InitIInv, InitSums, InitWidthSums
  <2>1. \A o \in Opcode : opcodes.stored[o] = Zero(OpcodeField) /\ opcodes.delta[o] = Zero(OpcodeField)
    BY DEF Init, EmptyStore
  <2> QED
    BY <2>1, ZeroIsRow DEF OpcodeRows
<1>2. Inv /\ [Next]_vars => Inv'
  BY NextIInv, PositionNext, SetLanesNext, OpcodeRowsNext
<1> QED
  BY <1>1, <1>2, PTL DEF Spec

\* A row of memory.tbl is fetched to be counted in: a cached row, which is what
\* evictions and checkpoints write, has an access.
AccessRows ==
  \A k \in memory.cached : memory.delta[k]["read"] + memory.delta[k]["write"] > 0

\* Fetching a row and counting in it.
LEMMA AccessRowsBump ==
  ASSUME TypeOK, AccessRows, NEW k \in MemKey, NEW f \in MemField, NEW E,
         memory' = Bump(Get(memory, k, E), k, f)
  PROVE  AccessRows'
<1> DEFINE got == Get(memory, k, E)
<1>1. memory.delta \in [MemKey -> [MemField -> Nat]] /\ memory.cached \in SUBSET MemKey
  BY DEF TypeOK, Store
<1>2. got \in Store(MemKey, MemField)
  BY GetKeeps DEF TypeOK
<1>3. /\ got.cached = (memory.cached \ E) \cup {k}
      /\ \A m \in MemKey : m \notin E => got.delta[m] = memory.delta[m]
  BY <1>1 DEF Get, Evict
<1> HIDE DEF got
<1>4. got.delta \in [MemKey -> [MemField -> Nat]]
  BY <1>2 DEF Store
<1>5. memory' = Bump(got, k, f)
  BY DEF got
<1>6. /\ memory'.cached = got.cached
      /\ \A m \in MemKey : m # k => memory'.delta[m] = got.delta[m]
      /\ memory'.delta[k] = [got.delta[k] EXCEPT ![f] = @ + 1]
  BY <1>2, <1>4, <1>5 DEF Bump, Store
<1>7. memory'.delta[k]["read"] + memory'.delta[k]["write"] > 0
  <2>1. got.delta[k] \in [{"read", "write"} -> Nat] /\ f \in {"read", "write"}
    BY <1>4 DEF MemField
  <2> QED
    BY <1>6, <2>1
<1>8. ASSUME NEW m \in memory'.cached, m # k
      PROVE  memory'.delta[m]["read"] + memory'.delta[m]["write"] > 0
  <2>1. m \in memory.cached /\ m \notin E /\ m \in MemKey
    BY <1>1, <1>3, <1>6, <1>8
  <2> QED
    BY <1>3, <1>6, <1>8, <2>1 DEF AccessRows
<1> QED
  BY <1>7, <1>8 DEF AccessRows

\* So no row without an access is ever written to memory.tbl.
THEOREM AccessRowsTheorem == Spec => []AccessRows
<1>1. Init => AccessRows
  BY DEF Init, EmptyStore, AccessRows
<1>2. IInv /\ AccessRows /\ [Next]_vars => AccessRows'
  <2> SUFFICES ASSUME IInv, AccessRows, [Next]_vars PROVE AccessRows'
    OBVIOUS
  <2>t. TypeOK
    BY DEF IInv
  <2>1. CASE ScanMemory
    <3>1. ins \in Addr
      BY <2>1 DEF ScanMemory, Scanning, IInv, Running, TypeOK
    <3>2. CASE memory' = memory
      BY <3>2 DEF AccessRows
    <3>3. ASSUME NEW m \in MemAddr, NEW E, memory' = Bump(Get(memory, <<ins, m>>, E), <<ins, m>>, "read")
          PROVE  AccessRows'
      <4>1. <<ins, m>> \in MemKey /\ "read" \in MemField
        BY <3>1 DEF MemKey, MemField
      <4> QED
        BY <2>t, <3>3, <4>1, AccessRowsBump
    <3> QED
      BY <2>1, <3>2, <3>3 DEF ScanMemory
  <2>2. CASE WriteMemory
    <3> DEFINE k == <<ins, mem_list[i]>>
    <3>1. k \in MemKey /\ "write" \in MemField
      <4>1. ins \in Addr /\ i \in 1 .. Len(mem_list) /\ mem_list \in Seq(MemAddr)
        BY <2>2 DEF WriteMemory, IInv, Running, TypeOK
      <4>2. mem_list[i] \in MemAddr
        BY <4>1
      <4> QED
        BY <4>1, <4>2 DEF MemKey, MemField
    <3>2. PICK E : memory' = Bump(Get(memory, k, E), k, "write")
      BY <2>2 DEF WriteMemory
    <3> HIDE DEF k
    <3> QED
      BY <2>t, <3>1, <3>2, AccessRowsBump
  <2>3. CASE SaveMemory
    <3>1. memory'.cached = {}
      BY <2>3 DEF SaveMemory, Save, Evict
    <3> QED
      BY <3>1 DEF AccessRows
  <2>4. CASE memory' = memory
    BY <2>4 DEF AccessRows
  <2> QED
    BY <2>1, <2>2, <2>3, <2>4, MemorySteps
<1>3. Spec => []IInv
  BY InitIInv, NextIInv, PTL DEF Spec
<1> QED
  BY <1>1, <1>2, <1>3, PTL DEF Spec
=============================================================================

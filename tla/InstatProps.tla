----------------------------- MODULE InstatProps -----------------------------
(***************************************************************************)
(* The properties of the tool that TLC checks: the type invariant, what    *)
(* the tables add up to, what is on disk and when, and the tables as       *)
(* implementations of Profile.                                             *)
(***************************************************************************)
EXTENDS Instat, Sums

OfOpcode(o) == {a \in Addr : Prog[a].opcode = o}

\* The operands of address a that access memory, that read and that write it,
\* and those that read and that write register r, by position.
MemReads(a) == {n \in 1 .. Len(Args(a)) : Args(a)[n].kind = "mem" /\ Args(a)[n].read}
MemWrites(a) == {n \in 1 .. Len(Args(a)) : Args(a)[n].kind = "mem" /\ Args(a)[n].write}
MemOperands(a) == MemReads(a) \cup MemWrites(a)
RegReads(a, r) == {n \in 1 .. Len(Args(a)) :
                     /\ Args(a)[n].kind = "reg" /\ reg_id(Args(a)[n].reg) = r
                     /\ Args(a)[n].read}
RegWrites(a, r) == {n \in 1 .. Len(Args(a)) :
                      /\ Args(a)[n].kind = "reg" /\ reg_id(Args(a)[n].reg) = r
                      /\ Args(a)[n].write}

\* What has been counted for each address, and what of it is in the file.
Executions == [a \in Addr |-> Counted(execution, a, "count")]
ExecutionFile == [a \in Addr |-> execution.stored[a]["count"]]

(***************************************************************************)
(* What the tables add up to between two callbacks, whatever was evicted,  *)
(* saved and reloaded in between.                                          *)
(***************************************************************************)
\* instrs.tbl and opcodes.tbl count the same executions: an opcode's count is
\* the sum of the counts of its addresses, and mem_count the sum over those
\* that access memory, once each however many memory operands they have.
OpcodeTotals ==
  Idle =>
    \A o \in Opcode :
      /\ Counted(opcodes, o, <<"count", 0>>) = Sum(Executions, OfOpcode(o))
      /\ Counted(opcodes, o, <<"mem_count", 0>>) =
           Sum(Executions, {a \in OfOpcode(o) : MemOperands(a) # {}})

\* The accesses of address a that memory.tbl has, by data address.
AccessesAt(a, f) == [m \in MemAddr |-> Counted(memory, <<a, m>>, f)]

\* memory.tbl: an address has read (written) as many data addresses as its
\* memory operands read (write) in all its executions; none is attributed to
\* another instruction, dropped with an evicted row or written twice.
MemoryTotals ==
  Idle =>
    \A a \in Addr :
      /\ Sum(AccessesAt(a, "read"), MemAddr) = ran[a] * Cardinality(MemReads(a))
      /\ Sum(AccessesAt(a, "write"), MemAddr) = ran[a] * Cardinality(MemWrites(a))

\* Per address, how often its executions read and write register r.
ReadsOf(r) == [a \in Addr |-> ran[a] * Cardinality(RegReads(a, r))]
WritesOf(r) == [a \in Addr |-> ran[a] * Cardinality(RegWrites(a, r))]

\* Per register, its writes when it is of class c; per row of a table, the
\* count in column c.
WritesIn(c) == [r \in RegId |-> IF reg_class(r) = c THEN registers.regs[r].writes ELSE 0]
Column(rows, c) == [n \in Row |-> rows[n][c]]

\* Every write is one row of fanout.tbl and one of age.tbl, in the column of
\* the register's class.
EveryWriteHasRows ==
  \A c \in Class :
    /\ Sum(Column(registers.fanout.rows, c), Row) = Sum(WritesIn(c), RegId)
    /\ Sum(Column(registers.age.rows, c), Row) = Sum(WritesIn(c), RegId)

\* Every operand that reads (writes) a register is counted once per execution
\* on the register it names, and every write has its rows.  The reads of an
\* instruction come first: while its operands are scanned none of its writes
\* is recorded, and when the first is, all its reads have been.
RegisterTotals ==
  /\ Idle \/ pc \in {"reg_writes", "mem_writes", "opcode", "exec"} =>
       \A r \in RegId : registers.regs[r].reads = Sum(ReadsOf(r), Addr)
  /\ pc = "scan" =>
       \A r \in RegId :
         registers.regs[r].writes + Cardinality(RegWrites(ins, r)) = Sum(WritesOf(r), Addr)
  /\ Idle \/ pc \in {"mem_writes", "opcode", "exec"} =>
       \A r \in RegId : registers.regs[r].writes = Sum(WritesOf(r), Addr)
  /\ EveryWriteHasRows

\* The lanes of array x that an operand fills, and the most that one operand
\* of address a does.
LanesOf(arg, x) ==
  CASE arg.kind = "reg" -> IF arg.read /\ x \in ArraysOf(arg.dtype)
                           THEN arg.dcount ELSE 0
    [] arg.kind = "imm" -> IF x = "int" THEN 1 ELSE 0
    [] arg.kind = "mem" -> IF arg.read /\ x = "int" THEN 1 ELSE 0

Lanes(a, x) == Max({0} \cup {LanesOf(Args(a)[n], x) : n \in 1 .. Len(Args(a))})

\* Each execution adds one sample per lane its widest operand has, no more and
\* no less: the samples of an opcode's histogram are the lanes of its
\* executions, so that no lane is left for the next instruction or skipped.
WidthTotals ==
  Idle =>
    \A o \in Opcode, x \in Array :
      Sum([w \in Width |-> Counted(opcodes, o, <<x, w>>)], Width)
        = Sum([a \in Addr |-> ran[a] * Lanes(a, x)], OfOpcode(o))

(***************************************************************************)
(* The disk.                                                               *)
(***************************************************************************)
\* The files agree with each other: instrs.tbl has as many executions of an
\* opcode as opcodes.tbl, and fanout.tbl as many writes of a class of registers
\* as age.tbl.
FilesAgree ==
  /\ \A o \in Opcode :
       opcodes.stored[o][<<"count", 0>>] = Sum(ExecutionFile, OfOpcode(o))
  /\ \A c \in Class :
       Sum(Column(registers.fanout.stored, c), Row)
         = Sum(Column(registers.age.stored, c), Row)

\* They do when a checkpoint is complete, until a counter may be evicted, and
\* when the process has exited.  (Not while the checkpoint is being written,
\* nor after evictions: a killed process may leave files that disagree.)
CheckpointAgrees ==
  \/ pc = "exited"
  \/ total % PERIOD = 0 /\ pc \in {"scan", "reg_writes", "mem_writes", "opcode"}
  => FilesAgree

\* A killed process loses the executions since the last checkpoint at most:
\* no more than PERIOD, and the one it was in.
LossBounded ==
  LET Lost == [a \in Addr |-> ran[a] - ExecutionFile[a]]
  IN Sum(Lost, Addr) <= PERIOD + (IF Idle THEN 0 ELSE 1)

\* Every instruction that has run is in the image table: its disassembly is in
\* the cache or in image.tbl.
ExecutedIsInImage ==
  \A a \in Addr : ran[a] > 0 => a \in image.cached \cup image.stored

\* image.tbl is {instruction address: opcode}, which the analyzer joins with
\* instrs.tbl: every instruction that has run has its row when the process
\* has exited.
ImageOnDisk ==
  pc = "exited" => \A a \in Addr : ran[a] > 0 => a \in image.stored

\* Every execution reaches instrs.tbl, by an eviction, a checkpoint or the last
\* save, unless the process is killed.
EventuallyOnDisk ==
  \A a \in Addr : \A n \in 1 .. MAX_TOTAL :
    ran[a] >= n ~> (execution.stored[a]["count"] >= n \/ pc = "killed")

(***************************************************************************)
(* The three counting tables implement Profile.                            *)
(***************************************************************************)
Status == IF pc \in {"exited", "killed"} THEN pc ELSE "open"

ByAddress == INSTANCE Profile WITH
  Key    <- Addr,
  counts <- Executions,
  file   <- ExecutionFile,
  status <- Status

ByOpcode == INSTANCE Profile WITH
  Key    <- Opcode,
  counts <- [o \in Opcode |-> Counted(opcodes, o, <<"count", 0>>)],
  file   <- [o \in Opcode |-> opcodes.stored[o][<<"count", 0>>]],
  status <- Status

ByAccess == INSTANCE Profile WITH
  Key    <- MemKey \X MemField,
  counts <- [k \in MemKey \X MemField |-> Counted(memory, k[1], k[2])],
  file   <- [k \in MemKey \X MemField |-> memory.stored[k[1]][k[2]]],
  status <- Status

\* instrs.tbl, seen from outside, is a profile by address.
ExecutionImplementsProfile == ByAddress!Spec

\* opcodes.tbl is a profile by opcode.
OpcodesImplementProfile == ByOpcode!Spec

\* memory.tbl is a profile by instruction, data address and kind of access.
MemoryImplementsProfile == ByAccess!Spec
=============================================================================

------------------------------- MODULE Instat -------------------------------
(***************************************************************************)
(* The pin tool (instat.cpp, instr.cpp) profiling one application thread.  *)
(*                                                                         *)
(* Pin calls the tool back: instruction() when it compiles an instruction, *)
(* on_ins() each time an instrumented one is about to run, on_finish() or  *)
(* handle_signal() when the application ends.  A callback is a sequence of *)
(* steps here, one per file it writes, operand it scans or list entry it   *)
(* handles, so that the process may be killed between any two of them.     *)
(***************************************************************************)
EXTENDS Keystore, RegisterOps, Sequences

CONSTANTS
  Addr,             \* instruction addresses of the application
  NoIns,            \* no instruction: on_ins() is not running
  Prog,             \* [Addr -> instruction], what Pin decodes at each address
  Opcode,           \* opcodes that can be instrumented
  MemAddr,          \* data addresses
  Width,            \* bit widths a measured operand may have
  LANES,            \* length of the static array int_bitwidth (64)
  FLOAT_LANES,      \* length of the three arrays of the floats (32)
  PERIOD,           \* instructions between two checkpoints (16384)
  EXECUTION_CACHE, MEMORY_CACHE, OPCODES_CACHE, IMAGE_CACHE,
                    \* rows the stores cache (5000, 5000, 1000, 1000)
  MAX_TOTAL         \* bound of the model: instructions profiled

VARIABLES
  pc,               \* what the process is doing
  ins,              \* instr_addr, the parameter of on_ins()
  i,                \* position of the loop on_ins() is in
  is_mem,           \* local of on_ins(): the instruction accessed memory
  width,            \* static int_bitwidth, sig_lbitwidth, sig_mbitwidth,
                    \* exp_bitwidth: widest value per lane, -1 for none
  write_list,       \* static: registers the instruction writes
  mem_list,         \* static: addresses the instruction writes
  first_ins,        \* static: on_ins() has not run yet
  total,            \* instructions.total
  execution,        \* instructions.execution, the store behind instrs.tbl
  memory,           \* instructions.memory, memory.tbl
  opcodes,          \* opcodes.tbl
  registers,        \* fanout.tbl and age.tbl
  image,            \* image.tbl: [cached, stored], sets of addresses
  instrumented,     \* addresses whose code calls on_ins()
  ran               \* history: how often on_ins() was called per address

statics == <<width, write_list, mem_list, first_ins>>
locals == <<ins, i, is_mem>>
tables == <<execution, memory, opcodes, registers, image>>
vars == <<pc, locals, statics, total, tables, instrumented, ran>>

(***************************************************************************)
(* Data.                                                                   *)
(***************************************************************************)
ExecField == {"count"}
MemField == {"read", "write"}
MemKey == Addr \X MemAddr

\* The three arrays of the floats have the first FLOAT_LANES lanes only.  The
\* others are never set (ProgramAssumption), and a lane that is not set ends a
\* drain loop as the end of the array does.
Array == {"int", "sig_l", "sig_m", "exp"}
Lane == 0 .. LANES - 1

\* The counters of an opcode_t: two scalars and four histograms.
OpcodeField == {<<"count", 0>>, <<"mem_count", 0>>} \cup (Array \X Width)

ASSUME SizesAssumption ==
  /\ LANES \in Nat \ {0} /\ FLOAT_LANES \in 1 .. LANES
  /\ PERIOD \in Nat \ {0} /\ MAX_TOTAL \in Nat
  /\ EXECUTION_CACHE \in Nat \ {0} /\ MEMORY_CACHE \in Nat \ {0}
  /\ OPCODES_CACHE \in Nat \ {0} /\ IMAGE_CACHE \in Nat \ {0}
  /\ Width \subseteq Nat
  /\ NoIns \notin Addr
  /\ 0 \notin Opcode

\* Addresses, data addresses and widths are machine numbers.
ASSUME FiniteAssumption ==
  IsFiniteSet(Addr) /\ IsFiniteSet(MemAddr) /\ IsFiniteSet(Width)

(***************************************************************************)
(* The arguments instruction() has Pin pass to on_ins().  An operand of    *)
(* the decoded instruction is [kind, reg, ignored, read, write, dtype,     *)
(* dcount], where ignored stands for the REG_is_...() tests of Pin, dtype  *)
(* is "UINT", "INT", "FLOAT" (a type the float getters know) or "OTHER",   *)
(* and dcount the number of elements.  The operand loop takes registers    *)
(* and immediates and passes memory operands over; a second loop appends   *)
(* those.                                                                  *)
(***************************************************************************)
TakesOperand(o) ==
  \/ o.kind = "reg" /\ reg_id(o.reg) >= 0 /\ ~o.ignored
  \/ o.kind = "imm"

Args(a) == LET IsMemory(o) == o.kind = "mem"
           IN  SelectSeq(Prog[a].operands, TakesOperand)
                 \o SelectSeq(Prog[a].operands, IsMemory)

Arg == Args(ins)[i]

\* The programs are made of the constants.  No operand has more elements than
\* the arrays it is measured into have lanes: of one that has, say of more than
\* 32 elements of a type that no getter knows, the code would read and write
\* the memory behind the arrays of the floats.
ASSUME ProgramAssumption ==
  \A a \in Addr :
    /\ Prog[a].opcode \in Opcode \cup {0}
    /\ Len(Args(a)) \in Nat
    /\ \A n \in 1 .. Len(Args(a)) :
         /\ Args(a)[n].kind \in {"reg", "imm", "mem"}
         /\ Args(a)[n].kind = "reg" =>
              /\ reg_id(Args(a)[n].reg) \in RegId
              /\ Args(a)[n].dcount \in 0 .. LANES
              /\ Args(a)[n].dtype \in {"UINT", "INT"} \/ Args(a)[n].dcount <= FLOAT_LANES

(***************************************************************************)
(* The static width arrays.                                                *)
(***************************************************************************)
Larger(m, n) == IF m < n THEN n ELSE m

\* The first n lanes of the arrays A are widened to at least w.
Widen(A, n, w) ==
  width' = [x \in Array |->
              [j \in Lane |-> IF x \in A /\ j < n
                              THEN Larger(width[x][j], w[j])
                              ELSE width[x][j]]]

\* The arrays a register operand is measured into.  For an element type they
\* do not know, the three float getters return -1, which widens nothing.
ArraysOf(dtype) == CASE dtype \in {"UINT", "INT"} -> {"int"}
                     [] dtype = "FLOAT" -> {"sig_l", "sig_m", "exp"}
                     [] OTHER -> {}

\* A mutant of Drained: one lane too few.
DrainedButLast(x) == {j \in Lane : \A k \in 0 .. j + 1 : k < LANES /\ width[x][k] >= 0}

\* The lanes a drain loop visits: it stops at the first lane that is -1.
Drained(x) == {j \in Lane : \A k \in 0 .. j : width[x][k] >= 0}

\* What one instruction adds to the counter f of its opcode.
Sample(f) ==
  IF f = <<"count", 0>> THEN 1
  ELSE IF f = <<"mem_count", 0>> THEN (IF is_mem THEN 1 ELSE 0)
  ELSE Cardinality({j \in Drained(f[1]) : width[f[1]][j] = f[2]})

(***************************************************************************)
(* The two static lists.                                                   *)
(***************************************************************************)
\* A mutant of clear: the call is left out.
NotCleared(list) == list

clear(list) == <<>>

\* A mutant of WriteId: Pin's own numbering in place of the id.
WriteReg(arg) == 100 + arg.reg.num

\* What push_back() appends for a written register.
WriteId(arg) == reg_id(arg.reg)

(***************************************************************************)
(* Initial state: the static constructors and main() have run, the tables  *)
(* are new.                                                                *)
(***************************************************************************)
Init ==
  /\ pc = "app"
  /\ ins = NoIns
  /\ i = 1
  /\ is_mem = FALSE
  /\ width = [x \in Array |-> [j \in Lane |-> -1]]
  /\ write_list = <<>>
  /\ mem_list = <<>>
  /\ first_ins = TRUE
  /\ total = 0
  /\ execution = EmptyStore(Addr, ExecField)
  /\ memory = EmptyStore(MemKey, MemField)
  /\ opcodes = EmptyStore(Opcode, OpcodeField)
  /\ registers = EmptyRegisters
  /\ image = [cached |-> {}, stored |-> {}]
  /\ instrumented = {}
  /\ ran = [a \in Addr |-> 0]

\* A mutant of ImageUpdate: the evicted rows are dropped.
ImageReplace(im, a, E) == [cached |-> (im.cached \ E) \cup {a},
                           stored |-> im.stored]

\* image.update(): the row of a is cached, the rows E are evicted.
ImageUpdate(im, a, E) == [cached |-> (im.cached \ E) \cup {a},
                          stored |-> im.stored \cup E]

(***************************************************************************)
(* instruction(): Pin compiles the code at address a, the first time or    *)
(* again.  Opcode 0, an instruction Pin does not know, is left alone.      *)
(***************************************************************************)
instruction(a) ==
  /\ pc = "app"
  /\ Prog[a].opcode # 0
  /\ \E E \in Victims(image.cached, a, IMAGE_CACHE) :
       image' = ImageUpdate(image, a, E)
  /\ \E E \in Victims(opcodes.cached, Prog[a].opcode, OPCODES_CACHE) :
       opcodes' = Get(opcodes, Prog[a].opcode, E)
  /\ instrumented' = instrumented \cup {a}
  /\ UNCHANGED <<pc, locals, statics, total, execution, memory, registers, ran>>

\* A mutant of CheckpointDue: every second checkpoint is left out.
CheckpointDueTwice == total % (2 * PERIOD) = 0

CheckpointDue == total % PERIOD = 0

AfterCheckpoint == IF first_ins THEN "image" ELSE "scan"

(***************************************************************************)
(* on_ins(): the code at address a is about to run.  (A predicated         *)
(* instruction whose predicate is false makes no call.)                    *)
(***************************************************************************)
on_ins(a) ==
  /\ pc = "app"
  /\ a \in instrumented
  /\ total < MAX_TOTAL
  /\ ins' = a
  /\ ran' = [ran EXCEPT ![a] = @ + 1]
  /\ pc' = IF CheckpointDue THEN "fanout" ELSE AfterCheckpoint
  /\ UNCHANGED <<i, is_mem, statics, total, tables, instrumented>>

(***************************************************************************)
(* The checkpoint: registers.finish(), instructions.finish() and           *)
(* opcodes.save(), called every PERIOD instructions by on_ins() and once   *)
(* by on_finish().  The callback is on_finish() when ins is NoIns.         *)
(***************************************************************************)
SaveFanout ==
  /\ pc = "fanout"
  /\ registers' = [registers EXCEPT !.fanout = FinishTable(registers.fanout)]
  /\ pc' = "age"
  /\ UNCHANGED <<locals, statics, total, execution, memory, opcodes, image,
                 instrumented, ran>>

SaveAge ==
  /\ pc = "age"
  /\ registers' = [registers EXCEPT !.age = FinishTable(registers.age)]
  /\ pc' = "memory"
  /\ UNCHANGED <<locals, statics, total, execution, memory, opcodes, image,
                 instrumented, ran>>

SaveMemory ==
  /\ pc = "memory"
  /\ memory' = Save(memory)
  /\ pc' = "execution"
  /\ UNCHANGED <<locals, statics, total, execution, opcodes, registers, image,
                 instrumented, ran>>

SaveExecution ==
  /\ pc = "execution"
  /\ execution' = Save(execution)
  /\ pc' = "opcodes"
  /\ UNCHANGED <<locals, statics, total, memory, opcodes, registers, image,
                 instrumented, ran>>

SaveOpcodes ==
  /\ pc = "opcodes"
  /\ opcodes' = Save(opcodes)
  /\ pc' = IF ins = NoIns THEN "exited" ELSE AfterCheckpoint
  /\ UNCHANGED <<locals, statics, total, execution, memory, registers, image,
                 instrumented, ran>>

\* Only the first call of on_ins() saves the image table.
SaveImage ==
  /\ pc = "image"
  /\ image' = [cached |-> {}, stored |-> image.stored \cup image.cached]
  /\ first_ins' = FALSE
  /\ pc' = "scan"
  /\ UNCHANGED <<locals, width, write_list, mem_list, total, execution, memory,
                 opcodes, registers, instrumented, ran>>

(***************************************************************************)
(* The operand loop of on_ins().                                           *)
(***************************************************************************)
Scanning(kind) ==
  /\ pc = "scan"
  /\ i <= Len(Args(ins))
  /\ Arg.kind = kind
  /\ i' = i + 1

\* A mutant of ScanRegister: a write is recorded at once, not in the list.
ScanRegisterAtOnce ==
  /\ Scanning("reg")
  /\ IF Arg.read
     THEN \E w \in [Lane -> Width] : Widen(ArraysOf(Arg.dtype), Arg.dcount, w)
     ELSE UNCHANGED width
  /\ LET r == reg_id(Arg.reg)
         seen == IF Arg.read THEN RegisterRead(registers, r) ELSE registers
     IN  registers' = IF Arg.write THEN RegisterWrite(seen, r, total) ELSE seen
  /\ UNCHANGED <<pc, ins, is_mem, write_list, mem_list, first_ins, total, execution,
                 memory, opcodes, image, instrumented, ran>>

ScanRegister ==
  /\ Scanning("reg")
  /\ IF Arg.read
     THEN /\ \E w \in [Lane -> Width] :
               Widen(ArraysOf(Arg.dtype), Arg.dcount, w)
          /\ registers' = RegisterRead(registers, reg_id(Arg.reg))
     ELSE UNCHANGED <<width, registers>>
  /\ write_list' = IF Arg.write THEN Append(write_list, WriteId(Arg)) ELSE write_list
  /\ UNCHANGED <<pc, ins, is_mem, mem_list, first_ins, total, execution,
                 memory, opcodes, image, instrumented, ran>>

ScanImmediate ==
  /\ Scanning("imm")
  /\ \E w \in [Lane -> Width] : Widen({"int"}, 1, w)
  /\ UNCHANGED <<pc, ins, is_mem, write_list, mem_list, first_ins, total,
                 tables, instrumented, ran>>

ScanMemory ==
  /\ Scanning("mem")
  /\ \E m \in MemAddr :
     /\ IF Arg.read
        THEN /\ \E E \in Victims(memory.cached, <<ins, m>>, MEMORY_CACHE) :
                  memory' = Bump(Get(memory, <<ins, m>>, E), <<ins, m>>, "read")
             /\ \E w \in [Lane -> Width] : Widen({"int"}, 1, w)
        ELSE UNCHANGED <<memory, width>>
     /\ mem_list' = IF Arg.write THEN Append(mem_list, m) ELSE mem_list
  /\ is_mem' = (is_mem \/ Arg.read \/ Arg.write)
  /\ UNCHANGED <<pc, ins, write_list, first_ins, total, execution, opcodes,
                 registers, image, instrumented, ran>>

ScanDone ==
  /\ pc = "scan"
  /\ i > Len(Args(ins))
  /\ i' = 1
  /\ pc' = "reg_writes"
  /\ UNCHANGED <<ins, is_mem, statics, total, tables, instrumented, ran>>

(***************************************************************************)
(* The two write lists: what an instruction writes is recorded after all   *)
(* that it reads.                                                          *)
(***************************************************************************)
WriteRegister ==
  /\ pc = "reg_writes"
  /\ i <= Len(write_list)
  /\ registers' = RegisterWrite(registers, write_list[i], total)
  /\ i' = i + 1
  /\ UNCHANGED <<pc, ins, is_mem, statics, total, execution, memory, opcodes,
                 image, instrumented, ran>>

RegistersWritten ==
  /\ pc = "reg_writes"
  /\ i > Len(write_list)
  /\ write_list' = clear(write_list)
  /\ i' = 1
  /\ pc' = "mem_writes"
  /\ UNCHANGED <<ins, is_mem, width, mem_list, first_ins, total, tables,
                 instrumented, ran>>

WriteMemory ==
  /\ pc = "mem_writes"
  /\ i <= Len(mem_list)
  /\ LET key == <<ins, mem_list[i]>> IN
     \E E \in Victims(memory.cached, key, MEMORY_CACHE) :
       memory' = Bump(Get(memory, key, E), key, "write")
  /\ i' = i + 1
  /\ UNCHANGED <<pc, ins, is_mem, statics, total, execution, opcodes,
                 registers, image, instrumented, ran>>

MemoryWritten ==
  /\ pc = "mem_writes"
  /\ i > Len(mem_list)
  /\ mem_list' = clear(mem_list)
  /\ i' = 1
  /\ pc' = "opcode"
  /\ UNCHANGED <<ins, is_mem, width, write_list, first_ins, total, tables,
                 instrumented, ran>>

(***************************************************************************)
(* The opcode's counters: the width arrays are drained into its histograms,*)
(* then its two counts are incremented.                                    *)
(***************************************************************************)
CountOpcode ==
  /\ pc = "opcode"
  /\ LET o == Prog[ins].opcode IN
     \E E \in Victims(opcodes.cached, o, OPCODES_CACHE) :
       opcodes' = Add(Get(opcodes, o, E), o, [f \in OpcodeField |-> Sample(f)])
  /\ width' = [x \in Array |->
                 [j \in Lane |-> IF j \in Drained(x) THEN -1 ELSE width[x][j]]]
  /\ pc' = "exec"
  /\ UNCHANGED <<locals, write_list, mem_list, first_ins, total, execution,
                 memory, registers, image, instrumented, ran>>

(***************************************************************************)
(* instructions.exec(), the last call of on_ins().                         *)
(***************************************************************************)
exec ==
  /\ pc = "exec"
  /\ total' = total + 1
  /\ \E E \in Victims(execution.cached, ins, EXECUTION_CACHE) :
       execution' = Bump(Get(execution, ins, E), ins, "count")
  /\ pc' = "app"
  /\ ins' = NoIns
  /\ is_mem' = FALSE
  /\ UNCHANGED <<i, statics, memory, opcodes, registers, image, instrumented,
                 ran>>

(***************************************************************************)
(* The end.  The application exits and Pin calls on_finish(); or it gets   *)
(* SIGTERM, and handle_signal() calls exit() in the tool, which may or may *)
(* not run on_finish(); or the process is killed, wherever it is.          *)
(***************************************************************************)
\* A mutant of on_finish: instructions.finish() is left out.
on_finishOpcodes ==
  /\ pc = "app"
  /\ pc' = "opcodes"
  /\ UNCHANGED <<locals, statics, total, tables, instrumented, ran>>

on_finish ==
  /\ pc = "app"
  /\ pc' = "fanout"
  /\ UNCHANGED <<locals, statics, total, tables, instrumented, ran>>

handle_signal ==
  /\ pc = "app"
  /\ pc' \in {"fanout", "killed"}
  /\ UNCHANGED <<locals, statics, total, tables, instrumented, ran>>

Kill ==
  /\ pc \notin {"exited", "killed"}
  /\ pc' = "killed"
  /\ UNCHANGED <<locals, statics, total, tables, instrumented, ran>>

Scan == ScanRegister \/ ScanImmediate \/ ScanMemory \/ ScanDone

Checkpoint ==
  SaveFanout \/ SaveAge \/ SaveMemory \/ SaveExecution \/ SaveOpcodes

Handler ==
  \/ Checkpoint
  \/ SaveImage
  \/ Scan
  \/ WriteRegister \/ RegistersWritten \/ WriteMemory \/ MemoryWritten
  \/ CountOpcode
  \/ exec

Application == (\E a \in Addr : on_ins(a)) \/ on_finish

Next ==
  \/ \E a \in Addr : instruction(a)
  \/ Application
  \/ Handler
  \/ handle_signal
  \/ Kill

Spec == Init /\ [][Next]_vars

\* A callback that has begun goes on, and the application does not hang for
\* ever: it runs another instruction or exits.  Nothing makes a signal come.
FairSpec == Spec /\ WF_vars(Handler) /\ WF_vars(Application)

(***************************************************************************)
(* Correctness: the invariants that InstatProofs proves.                   *)
(***************************************************************************)
PC == {"app", "fanout", "age", "memory", "execution", "opcodes", "image",
       "scan", "reg_writes", "mem_writes", "opcode", "exec",
       "exited", "killed"}

\* Every variable keeps its type.
TypeOK ==
  /\ pc \in PC
  /\ ins \in Addr \cup {NoIns}
  /\ i \in Nat \ {0}
  /\ is_mem \in BOOLEAN
  /\ width \in [Array -> [Lane -> Width \cup {-1}]]
  /\ write_list \in Seq(RegId)
  /\ mem_list \in Seq(MemAddr)
  /\ first_ins \in BOOLEAN
  /\ total \in Nat
  /\ execution \in Store(Addr, ExecField)
  /\ memory \in Store(MemKey, MemField)
  /\ opcodes \in Store(Opcode, OpcodeField)
  /\ registers \in RegisterRecord
  /\ image \in [cached : SUBSET Addr, stored : SUBSET Addr]
  /\ instrumented \in SUBSET Addr
  /\ ran \in [Addr -> Nat]

Idle == ins = NoIns

NoWidth == \A x \in Array : \A j \in Lane : width[x][j] = -1

\* on_ins() hands nothing from one instruction to the next: between two calls
\* its static lists are empty and no lane of its static arrays is set.  (The
\* drain loops stop at the first unset lane, so that a gap would leak.)
StaticsClean == Idle => write_list = <<>> /\ mem_list = <<>> /\ NoWidth

\* No execution is lost or counted twice on its way through the cache: the
\* file and the cache of instrs.tbl together hold one count for each call of
\* on_ins() for the address that has returned.
NoExecutionLost ==
  \A a \in Addr :
    Counted(execution, a, "count") = ran[a] - (IF ins = a THEN 1 ELSE 0)

\* When the process has exited by on_finish(), nothing that was counted is
\* left in memory: instrs.tbl has every execution, and the other counting
\* tables are as complete as their caches were.
ExitComplete ==
  pc = "exited" =>
    /\ \A a \in Addr : execution.stored[a]["count"] = ran[a]
    /\ Flushed(memory, MemKey) /\ Flushed(opcodes, Opcode)
    /\ registers.fanout.stored = registers.fanout.rows
    /\ registers.age.stored = registers.age.rows
=============================================================================

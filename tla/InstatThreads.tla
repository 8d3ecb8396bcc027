---------------------------- MODULE InstatThreads ----------------------------
(***************************************************************************)
(* The pin tool with several application threads.                          *)
(*                                                                         *)
(* Pin runs on_ins() in the thread that executes the instruction, and the  *)
(* tool takes no lock.  This module cuts on_ins() where the threads meet:  *)
(* at the accesses to the static list of written addresses, to the counter *)
(* of the opcode, through a pointer into a cache that other calls may      *)
(* evict, and to instructions.total, from which the checkpoints are        *)
(* decided.  An increment is a load and a store.  The calls of the stores  *)
(* and the clearing of a list are single steps here, although they take no *)
(* lock either: what goes wrong below goes wrong even so.                  *)
(*                                                                         *)
(* Instat has the rest of on_ins(): write_list is handled as mem_list is,  *)
(* and the row of instrs.tbl is fetched and counted as that of opcodes.tbl *)
(* is.  An instruction is its opcode here and writes the data address that *)
(* Target gives.                                                           *)
(***************************************************************************)
EXTENDS Keystore, Sequences

CONSTANTS
  Thread,
  Opcode,
  NoIns,            \* no instruction: the thread is not in on_ins()
  MemAddr,          \* data addresses
  Target,           \* [Opcode -> MemAddr], what an instruction writes
  Garbage,          \* what an entry of the list holds that was never written
  PERIOD,           \* instructions between two checkpoints (16384)
  OPCODES_CACHE,    \* rows the store of opcodes caches (1000)
  CAPACITY,         \* entries allocated for the list at the start
  MAX_MIXED,        \* bound of the model: the calls that may meet another
  MAX_CALLS         \* bound of the model: calls of on_ins()

VARIABLES
  pc,               \* per thread: the next step of its on_ins()
  ins,              \* per thread: opcode, the parameter of on_ins()
  temp,             \* per thread: what it has loaded for its next store
  i,                \* per thread: the iterator over mem_list
  dangling,         \* per thread: the row behind `operation' was evicted
  items, size,      \* static mem_list: its memory and its length
  memory,           \* memory.tbl: the writes counted in each row
  opcodes,          \* opcodes.tbl
  total,            \* instructions.total
  crashed,          \* the process has read beyond the memory of mem_list
  calls,            \* calls of on_ins()
  overlap,          \* history, per thread: its call met another thread's
  before,           \* history: memory.tbl when a call began that was alone
  stale,            \* history: a count went through a dangling pointer
  ran, alone,       \* history, per opcode: increments of its count, and those
                    \* of calls that had met no other
  done, solo, quiet \* history: calls that have returned; those of them that
                    \* met no other; and of these, those since the last
                    \* checkpoint or call that met another

thread == <<pc, ins, temp, i>>
list == <<items, size, memory>>
rows == <<opcodes, dangling, stale, ran, alone>>
totals == <<total, done, solo, quiet>>
vars == <<thread, list, rows, totals, crashed, calls, overlap, before>>

ASSUME ThreadsAssumption ==
  /\ NoIns \notin Opcode
  /\ Target \in [Opcode -> MemAddr]
  /\ PERIOD \in Nat \ {0} /\ OPCODES_CACHE \in Nat \ {0}
  /\ CAPACITY \in Nat /\ MAX_MIXED \in Nat /\ MAX_CALLS \in Nat

Field == {"count"}
Entry == MemAddr \cup {Garbage}

NoWrites == [k \in Opcode \X Entry |-> 0]

Init ==
  /\ pc = [t \in Thread |-> "app"]
  /\ ins = [t \in Thread |-> NoIns]
  /\ temp = [t \in Thread |-> 0]
  /\ i = [t \in Thread |-> 1]
  /\ items = [n \in 1 .. CAPACITY |-> Garbage]
  /\ size = 0
  /\ memory = NoWrites
  /\ before = NoWrites
  /\ opcodes = EmptyStore(Opcode, Field)
  /\ dangling = [t \in Thread |-> FALSE]
  /\ stale = FALSE
  /\ ran = [o \in Opcode |-> 0]
  /\ alone = [o \in Opcode |-> 0]
  /\ total = 0
  /\ done = 0
  /\ solo = 0
  /\ quiet = 0
  /\ crashed = FALSE
  /\ calls = 0
  /\ overlap = [t \in Thread |-> FALSE]

Active(t) == pc[t] # "app"
AllIdle == \A t \in Thread : ~Active(t)

Step(t, from, to) ==
  /\ ~crashed
  /\ pc[t] = from
  /\ pc' = [pc EXCEPT ![t] = to]

\* A mutant of CheckpointDue: every second checkpoint is left out.
CheckpointDueTwice == total % (2 * PERIOD) = 0

CheckpointDue == total % PERIOD = 0

(***************************************************************************)
(* Thread t is about to execute the instruction with opcode o.  The total  *)
(* is read here, for the checkpoint.                                       *)
(***************************************************************************)
on_ins(t, o) ==
  /\ calls < MAX_CALLS
  /\ AllIdle \/ calls < MAX_MIXED
  /\ calls' = calls + 1
  /\ Step(t, "app", IF CheckpointDue THEN "checkpoint" ELSE "scan")
  /\ ins' = [ins EXCEPT ![t] = o]
  /\ overlap' = [u \in Thread |->
                   IF u = t THEN \E v \in Thread \ {t} : Active(v)
                   ELSE Active(u)]
  /\ before' = IF AllIdle THEN memory ELSE NoWrites
  /\ UNCHANGED <<temp, i, list, rows, totals, crashed>>

\* The pointers that the rows E leave dangling when they are evicted.
Holds(t) == pc[t] \in {"count", "store"}
Dangle(E) == [t \in Thread |-> dangling[t] \/ (Holds(t) /\ ins[t] \in E)]

\* A mutant of Checkpoint: the count starts again at every checkpoint.
CheckpointAfresh(t) ==
  /\ Step(t, "checkpoint", "scan")
  /\ opcodes' = Save(opcodes)
  /\ dangling' = Dangle(opcodes.cached)
  /\ quiet' = 0
  /\ total' = 0
  /\ UNCHANGED <<ins, temp, i, list, stale, ran, alone, done, solo, crashed,
                 calls, overlap, before>>

\* opcodes.save(), and the saves of the other tables.
Checkpoint(t) ==
  /\ Step(t, "checkpoint", "scan")
  /\ opcodes' = Save(opcodes)
  /\ dangling' = Dangle(opcodes.cached)
  /\ quiet' = 0
  /\ UNCHANGED <<ins, temp, i, list, stale, ran, alone, total, done,
                 solo, crashed, calls, overlap, before>>

(***************************************************************************)
(* The memory operand: mem_list.push_back(mem_addr) loads the length, then *)
(* stores the entry and the new length.  A list that is full grows first;  *)
(* by how much is the library's choice, and one entry here.  An iterator   *)
(* is a position in the list: whether that of the library survives the     *)
(* growth, by another thread, is not in the repository.                    *)
(***************************************************************************)
ScanMemory(t) ==
  /\ Step(t, "scan", "push")
  /\ temp' = [temp EXCEPT ![t] = size]
  /\ UNCHANGED <<ins, i, list, rows, totals, crashed, calls, overlap, before>>

\* A mutant of NewSize: the length goes down.
NewSizeLess(n) == n - 1

NewSize(n) == n + 1

push_back(t) ==
  /\ Step(t, "push", "write")
  /\ items' = IF temp[t] < Len(items)
              THEN [items EXCEPT ![temp[t] + 1] = Target[ins[t]]]
              ELSE Append(items, Target[ins[t]])
  /\ size' = NewSize(temp[t])
  /\ temp' = [temp EXCEPT ![t] = 0]
  /\ UNCHANGED <<ins, i, memory, rows, totals, crashed, calls, overlap, before>>

(***************************************************************************)
(* The loop over mem_list ends when the iterator equals end(), which is    *)
(* read anew each time: when another thread has shortened the list, the    *)
(* iterator has passed the end.  It then goes over the old entries, and    *)
(* beyond the memory of the list the process crashes.                      *)
(***************************************************************************)
\* A mutant of AtEnd: the last entry is left out.
AtLast(t) == i[t] = size

AtEnd(t) == i[t] = size + 1

\* instructions.write(): one write more in the row of opcode o and address a.
write(m, o, a) == [m EXCEPT ![<<o, a>>] = @ + 1]

Writing(t) == ~crashed /\ pc[t] = "write"

WriteMemory(t) ==
  /\ Writing(t)
  /\ ~AtEnd(t)
  /\ i[t] <= Len(items)
  /\ memory' = write(memory, ins[t], items[i[t]])
  /\ i' = [i EXCEPT ![t] = @ + 1]
  /\ UNCHANGED <<pc, ins, temp, items, size, rows, totals, crashed, calls,
                 overlap, before>>

Overrun(t) ==
  /\ Writing(t)
  /\ ~AtEnd(t)
  /\ i[t] > Len(items)
  /\ crashed' = TRUE
  /\ UNCHANGED <<thread, list, rows, totals, calls, overlap, before>>

MemoryWritten(t) ==
  /\ AtEnd(t)
  /\ Step(t, "write", "clear")
  /\ i' = [i EXCEPT ![t] = 1]
  /\ UNCHANGED <<ins, temp, list, rows, totals, crashed, calls, overlap,
                 before>>

\* A mutant of clear: the call is left out.
NotCleared(n) == n

\* The length after mem_list.clear().
clear(n) == 0

ClearList(t) ==
  /\ Step(t, "clear", "opcode")
  /\ size' = clear(size)
  /\ UNCHANGED <<ins, temp, i, items, memory, rows, totals, crashed, calls,
                 overlap, before>>

(***************************************************************************)
(* operation = opcodes.get(opcode), then operation->count++.               *)
(***************************************************************************)
get(o) ==
  \E E \in Victims(opcodes.cached, o, OPCODES_CACHE) :
    /\ opcodes' = Get(opcodes, o, E)
    /\ dangling' = Dangle(E)

GetOpcode(t) ==
  /\ Step(t, "opcode", "count")
  /\ get(ins[t])
  /\ UNCHANGED <<ins, temp, i, list, stale, ran, alone, totals, crashed,
                 calls, overlap, before>>

\* The memory of an evicted row is free, or holds another row.
LoadCount(t) ==
  /\ Step(t, "count", "store")
  /\ \E o \in IF dangling[t] THEN Opcode ELSE {ins[t]} :
       temp' = [temp EXCEPT ![t] = opcodes.delta[o]["count"]]
  /\ UNCHANGED <<ins, i, list, rows, totals, crashed, calls, overlap, before>>

SetCount(o, n) == [opcodes EXCEPT !.delta[o]["count"] = n]

\* What a store of n through the pointer of thread t may do to the table.
Stored(t, n) ==
  IF dangling[t]
  THEN {opcodes} \cup {SetCount(o, n) : o \in opcodes.cached}
  ELSE {SetCount(ins[t], n)}

StoreCount(t) ==
  /\ Step(t, "store", "total")
  /\ opcodes' \in Stored(t, temp[t] + 1)
  /\ stale' = (stale \/ dangling[t])
  /\ dangling' = [dangling EXCEPT ![t] = FALSE]
  /\ ran' = [ran EXCEPT ![ins[t]] = @ + 1]
  /\ alone' = IF overlap[t] THEN alone ELSE [alone EXCEPT ![ins[t]] = @ + 1]
  /\ temp' = [temp EXCEPT ![t] = 0]
  /\ UNCHANGED <<ins, i, list, totals, crashed, calls, overlap, before>>

(***************************************************************************)
(* instructions.exec(): total++, and the end of the call.                  *)
(***************************************************************************)
LoadTotal(t) ==
  /\ Step(t, "total", "add")
  /\ temp' = [temp EXCEPT ![t] = total]
  /\ UNCHANGED <<ins, i, list, rows, totals, crashed, calls, overlap, before>>

exec(t) ==
  /\ Step(t, "add", "app")
  /\ total' = temp[t] + 1
  /\ done' = done + 1
  /\ solo' = IF overlap[t] THEN solo ELSE solo + 1
  /\ quiet' = IF overlap[t] THEN 0 ELSE quiet + 1
  /\ overlap' = [overlap EXCEPT ![t] = FALSE]
  /\ before' = NoWrites
  /\ ins' = [ins EXCEPT ![t] = NoIns]
  /\ temp' = [temp EXCEPT ![t] = 0]
  /\ UNCHANGED <<i, list, rows, crashed, calls>>

\* Pin compiles an instruction with opcode o, in whatever thread: the row of
\* the opcode is fetched.
instruction(o) ==
  /\ ~crashed
  /\ get(o)
  /\ UNCHANGED <<thread, list, stale, ran, alone, totals, crashed, calls, overlap,
                 before>>

Handler(t) ==
  \/ Checkpoint(t)
  \/ ScanMemory(t) \/ push_back(t)
  \/ WriteMemory(t) \/ Overrun(t) \/ MemoryWritten(t) \/ ClearList(t)
  \/ GetOpcode(t) \/ LoadCount(t) \/ StoreCount(t)
  \/ LoadTotal(t) \/ exec(t)

Next ==
  \/ \E t \in Thread : Handler(t)
  \/ \E t \in Thread, o \in Opcode : on_ins(t, o)
  \/ \E o \in Opcode : instruction(o)

Spec == Init /\ [][Next]_vars

(***************************************************************************)
(* Correctness.                                                            *)
(***************************************************************************)
PC == {"app", "checkpoint", "scan", "push", "write", "clear", "opcode",
       "count", "store", "total", "add"}

\* Every variable keeps its type.
TypeOK ==
  /\ pc \in [Thread -> PC]
  /\ ins \in [Thread -> Opcode \cup {NoIns}]
  /\ temp \in [Thread -> Nat]
  /\ i \in [Thread -> 1 .. Len(items) + 1]
  /\ dangling \in [Thread -> BOOLEAN]
  /\ items \in Seq(Entry)
  /\ size \in 0 .. Len(items)
  /\ memory \in [Opcode \X Entry -> Nat]
  /\ before \in [Opcode \X Entry -> Nat]
  /\ opcodes \in Store(Opcode, Field)
  /\ total \in Nat /\ calls \in Nat /\ done \in Nat
  /\ solo \in Nat /\ quiet \in Nat
  /\ crashed \in BOOLEAN /\ stale \in BOOLEAN
  /\ overlap \in [Thread -> BOOLEAN]
  /\ ran \in [Opcode -> Nat]
  /\ alone \in [Opcode -> Nat]

\* Whatever the threads have done to the static list while they were in
\* on_ins() together, it is empty when none is: the next instruction does not
\* inherit entries.  (A store of a length that was computed before another
\* thread's clear() brings entries back, until its own thread clears them.)
ListEmptyBetween == AllIdle => size = 0

\* A call of on_ins() that has met no other records the address that its
\* instruction writes, once, and nothing else, and it does not crash, also
\* after calls that have mixed their entries: behind the loop over the list
\* memory.tbl is what it was before the call, and one write more.
AloneIsExact ==
  \A t \in Thread :
    Active(t) /\ ~overlap[t] =>
      /\ ~crashed
      /\ pc[t] \notin {"checkpoint", "scan", "push", "write"} =>
           memory = write(before, ins[t], Target[ins[t]])

\* Increments of an opcode's count are lost only by calls that met another:
\* all others are in the file or the cache; and none is counted twice, unless
\* one went through a pointer to a row that another call has evicted.
CountsBetween ==
  ~stale => \A o \in Opcode :
    Counted(opcodes, o, "count") \in alone[o] .. ran[o]

\* The same of instructions.total, by which checkpoints and the ages of the
\* registers are measured: no call is counted twice, and those that met no
\* other are all counted.
TotalBetween == total \in solo .. done

\* Threads in on_ins() together may step over the multiple of PERIOD at which
\* a checkpoint is due.  But PERIOD calls in a row that meet no other never
\* pass without one.
QuietCheckpoint == quiet <= PERIOD

\* Every execution is counted for its opcode.
OpcodesCounted ==
  AllIdle => \A o \in Opcode : Counted(opcodes, o, "count") = ran[o]
=============================================================================

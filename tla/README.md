# Verification of pin-instat

pin-instat is a Pin tool that counts what a program executes: instructions by
address and by opcode, memory accesses by instruction and data address, reads
and writes of registers, and the bit widths of operands. This directory holds
TLA+ models of the tool, the TLC configurations that check them, and proofs
checked by TLAPS.

    tlc -config InstatTables.cfg MCInstat.tla      # one of the runs
    tlapm InstatProofs.tla                         # one of the proof modules

## 1. Inventory

| part | source | state | operations |
|---|---|---|---|
| callbacks | `src/src/instat.cpp` | `first_ins`, the two static write lists, four static width arrays, `rval`; the globals | `instruction()` when Pin compiles an instruction, `on_ins()` before an instrumented one runs, `on_finish()` and `handle_signal()` at the end, `img_load()`, `img_unload()` |
| instruction record | `src/src/instr.*` | `memory`, `execution` (cached key stores behind `memory.tbl` and `instrs.tbl`), `total` | `read`, `write`, `exec`, `finish` |
| opcode table | `src/src/opcode.*`, `opcodes` in `instat.cpp` | counts and four width histograms per opcode (`opcodes.tbl`) | increments by `on_ins()`, `update_opcode` as merge function |
| register record | `src/src/reg.*` | per register `reads`, `writes`, `last_read`, `last_instr`; two tables of 1000 rows by seven classes (`fanout.tbl`, `age.tbl`) | `read`, `write`, `finish` |
| image table | `image` in `instat.cpp` | opcode and disassembly per address (`image.tbl`) | `update` by `instruction()`, one `save` |
| bit widths | `src/src/opcode.cpp:56-202`, operand loop of `on_ins()` | `rval`, the width arrays | field extraction and width functions; measuring registers lane by lane, immediates, memory |
| categories | `src/src/opcode.cpp:204-453` | none | `get_category` |
| analyzer | `src/tools/analyze.cpp` | the tables, read-only; sums, maps and arrays of each section of `main()` | histograms by opcode and category, `block.tsv`, `memory.tsv` |
| Python reports | `src/analyze_*.py` | | formatting of files the tool no longer writes |
| Pin, XED, dbcore, stdcore | not in the repository | | |

Pin calls the tool; `on_ins()` calls the instruction, opcode and register
records; the records keep their rows in caches of bounded size in front of
files. `on_ins()` writes all counting tables back every 16384 instructions,
`on_finish()` once more, and the analyzer reads the files afterwards.

What is hard about it: rows are evicted, merged and reloaded while they are
counted in; the process may die between any two writes; data survives from one
call to the next in static variables and has to be cleared in time; what an
instruction writes must be counted after all that it reads; differences of
64-bit counts are cut to an int; several application threads run the callbacks
at once. What makes each part correct:

- stores: nothing is lost or counted twice, wherever it is;
- callbacks: each execution adds exactly what its operands say to every table,
  and nothing to the next execution;
- threads: what calls that overlap mix up, lose or invent stays with these
  calls, and the tool recovers when they are over;
- files: they agree at checkpoints, lag by a bounded number of instructions,
  and are complete after a normal exit;
- register record: the tables are the histograms of reads per value and
  instructions per value;
- bit widths: the functions return what their names say, a lane's width is that
  of the widest element of the operands and depends on nothing else, and it is
  a valid index;
- analyzer: sums and shares add up, every row is found, rows are grouped and
  ranked right, for tables of any size.

`PROJECT.json` lists the parts with what is modelled of each, and the hazards
with the properties that cover them.

## 2. Modules

| module | models | extends |
|---|---|---|
| `Keystore` | the cached key store as the tool uses it: cached rows, rows of the file, eviction, save | |
| `RegisterOps` | registers, classes, the two tables, `read`, `write`, `finish` as operators | |
| `Instat` | the tool with one application thread, as a state machine | `Keystore`, `RegisterOps` |
| `Profile` | abstract: counters and a file that lags behind | |
| `Sums` | the sum of a function over a set, as a fold | |
| `InstatProps` | the properties of `Instat`, and `Instat` as implementation of `Profile` | `Instat`, `Sums` |
| `MCInstat` | a small program | `InstatProps` |
| `InstatThreads` | `on_ins()` of several threads at the shared list, counts and total | `Keystore` |
| `MCInstatThreads` | two threads, two opcodes | `InstatThreads` |
| `Registers` | the register record under any sequence of calls, with its history | `RegisterOps` |
| `MCRegisters` | three registers of two classes | `Registers` |
| `Bitwidth` | the functions of `opcode.cpp` on bit patterns, for any word and format | |
| `BitPatterns` | reference definitions of these, and every pattern in turn | `Bitwidth` |
| `Operands` | what `on_ins()` measures of the operands: `rval`, lanes, width arrays | `Bitwidth` |
| `MCBitwidth`, `MCOperands` | words of eight bits, bytes of two | `BitPatterns`, `Operands` |
| `Analyze` | the analyzer, section by section | `Sums` |
| `MCAnalyze` | three categories, two bins, small tables | `Analyze` |
| `OperatorProofs`, `RegisterOpsProofs` | lemmas about sums, the store and the register operators | |
| `InstatProofs` | the inductive invariant of `Instat`, refinement of `Profile`, image table | `InstatProps`, lemmas |
| `InstatTotalsProofs` | totals, loss, agreement of the files, the rows the analyzer reads | `InstatProofs` |
| `InstatThreadsProofs` | theorems for any number of threads | `InstatThreads`, lemmas |
| `RegistersProofs` | theorems about the register record | `Registers`, lemmas |
| `AnalyzeProofs` | theorems about the analyzer's reports | `Analyze`, lemmas |
| `BitwidthProofs` | theorems about the width functions and the lanes | `BitPatterns`, `Operands`, lemmas |

**The store.** `core::cached_keystore` is a submodule whose directory is empty.
What `src/` shows is that `get()` returns a row to increment, that `save()` may
be called at any time, and that the merge functions of the counting stores are
additions. A cached row is therefore modelled as what was counted since it was
last written back; a write-back adds it to the file and drops it. When the
cache is full, any nonempty set of rows may be evicted. These are assumptions
about the submodule. The 1000-row tables of the register record cache 1000 rows
and never evict one.

**The tool.** A callback is a sequence of steps, `pc` names the next: one per
file of a checkpoint (`SaveFanout` ... `SaveImage`), one per operand
(`ScanRegister`, `ScanImmediate`, `ScanMemory`), one per entry of a write list,
one for the opcode's counters, one for `exec`. `Kill` may come between any two.
`on_finish()` runs the same checkpoint steps, with no current instruction.
`handle_signal()` calls `exit()` inside the tool, which may or may not run
`on_finish()`: both are allowed. `instruction(a)` may happen whenever the
application runs, also again for the same address.

Data: an instruction is its opcode and the operands Pin reports; a measured
width is any member of `Width` (`Operands` has the functions that compute it);
an address is a small number; the four width arrays have `LANES` lanes, of which
the three of the floats use the first `FLOAT_LANES` only, as they have 32 where
that of the integers has 64. An operand with more elements than its arrays have
lanes would be measured into the memory behind them; the models exclude it
(`ProgramAssumption`). `reg_id` maps a register file and a number to the
id of the code. `ran` is a history variable: how often `on_ins()` was called
for each address.

**Threads.** Pin runs `on_ins()` in the thread that executes the instruction,
and the tool takes no lock. `InstatThreads` cuts `on_ins()` where this matters:
the load of the list's length and the store of entry and length
(`mem_list.push_back`), each turn of the loop over the list, the clearing, the
call of `get()` and the load and the store of the count through the pointer it
returned, the load and the store of `instructions.total`, and the test for a
checkpoint, which reads the total long before. Any thread may take its next
step at any time, and `instruction()` may fetch a row in between. Three things
follow from what the code leaves undefined. A row may be evicted while a thread
holds a pointer to it (`dangling`): a load through it finds any row's count, a
store changes any cached row or nothing; no property excludes this, and
`CountsBetween` is claimed as long as it has not happened (`stale`). A list that
another thread shortens leaves the iterator behind the end: the loop goes on over
old entries, which may never have been written (`Garbage`), and beyond the
list's memory the process crashes (`Overrun`). The list starts with `CAPACITY`
entries and grows when it is full. An iterator is a position in it: whether the
library's survives the growth, by another thread, is not in the repository.
`memory` counts the writes of each row of `memory.tbl`. The calls of the stores and the clearing are single steps,
although they take no lock either; nothing here is claimed of what they do to
each other. The write list of registers is handled as `mem_list` is, and the row
of `instrs.tbl` as that of `opcodes.tbl`; both are left to `Instat`. History
variables tell the calls that met another (`overlap`) from those that did not
(`alone`, `solo`, `quiet`), record uses of an evicted row (`stale`) and keep
`memory.tbl` as it was when a call began that is alone (`before`): behind its
loop the table must be that one with one write more, of the instruction's own
address, and nothing else (`AloneIsExact`), and the call must not crash. Of calls
that overlap nothing of the kind is claimed, and an overrun of theirs is not
excluded.

**Bit widths.** Memory from a pointer on is the number its bits make up; a
uint64_t is a number below `2^W`. `Bitwidth` has the shifts of the code, with
wrap-around and sign; powers of two are a recursive function (`Pow2`), of which
the proofs can show what they need. The formats of the runs keep the proportions
of the real ones: two elements in a word, one in a word, and one whose
significand fills a word.
`Operands` keeps the static buffer: a register overwrites as many bytes as it
has, and a lane is read a word at a time, whatever its element's width, so that
it also sees the lanes behind it, the bytes an earlier register left, and the
word behind the buffer. `elements` is a history variable with the elements of
the current instruction. Writes, lists and counters are those of `Instat`.

**The analyzer.** `main()` runs section after section; a section's variables
are set when it opens its tables, to any contents of the given sizes, and
dropped when it is over. Tables are iterated in ascending order of keys, and
the map of opcodes keeps opcodes with equal counts apart: both are assumptions
about the submodules. What is undefined in the code is a choice: an
uninitialized entry holds any of `Garbage`, a write behind the array may crash
the program, the key of a row behind the last one is anything. The sorts of the
submodule are not in the repository: one may leave any order in which no value
is less than one before it by the code's `operator<`. `float` shares are whole
numbers of `1/SCALE`, which divides evenly for the totals that occur
(`ScaleAssumption`). Of the tables it is assumed what the tool leaves in them
with one thread: memory accesses are counted among the executions and the two
significand histograms have as many samples (`RowAssumption`), and a row of
`memory.tbl` was made by an access (`MemAssumption`).

Operators introduced by "A mutant of ..." are plausible mistakes. They are used
nowhere in the specification: replacing the definition that follows by its
mutant must make the named property fail, which `PROJECT.json` records.

## 3. Runs

| run | configuration | shows |
|---|---|---|
| `tables` | `InstatTables` | types, clean statics, no lost execution, complete files at the exit, totals of the opcode, memory and register tables and of the width histograms, agreement of the files at checkpoints, bounded loss, every executed instruction in the image table or its file |
| `refinement` | `InstatRefinement` | `instrs.tbl`, `opcodes.tbl` and `memory.tbl` implement `Profile`; every execution reaches `instrs.tbl` unless the process is killed |
| `image` | `InstatImage` | violation: rows of `image.tbl` that never reach the file |
| `registers` | `Registers` | the two register tables are the histograms defined from the history of calls |
| `registers_overflow` | `RegistersOverflow` | violation: a negative row |
| `threads` | `InstatThreads` | the static list is empty when no thread is in `on_ins()`; counts and total lose and gain through calls that met another only; checkpoints resume; a call that meets no other records what its instruction writes, once and nothing else, whatever came before |
| `threads_count` | `InstatThreadsCount` | violation: two threads count one execution |
| `bit_patterns` | `BitPatterns` | field and width functions against references: fields are their bits, integer widths are the least, a significand's width ends at its last one whatever the sign, its other width changes by a bit at most with the sign, exponents are right below 2 |
| `operands` | `Operands` | a lane has the width of its widest element; for short integers it is never too narrow; widths index their histograms |
| `operand_lanes` | `OperandsExact` | violation: a lane wider than its elements |
| `analyze` | `Analyze` | the categories add up and hold the opcodes' samples, cumulative shares end at one, every row of `image.tbl` is found, the first lines of `block.tsv` cover the most, `memory.tbl` is grouped by instruction and its shares add up |
| `analyze_categories` | `AnalyzeCategories` | violation: an array cleared by the wrong number |

**Bounds.** `tables` profiles up to 4 instructions with a checkpoint every 2,
so that a run crosses the first checkpoint, a second one with counts waiting,
and one more period. The execution and memory caches hold two rows of three or
more keys, the opcode and image caches one, so that eviction happens with
`get()` both of a new and of an evicted key. The program has a memory operand
that is read and written, an instruction with two operands in sub-registers of
one register (`xadd al, ah`), one that only writes memory and reads vectors of
two floats and of three integers, an operand no getter knows and an immediate
(`vcvtps2ph`), and one that Pin does not know. With three lanes, two of them for
floats, a gap, a partly filled array and a full one can all occur. `LIMIT` 2 lets the last row of the register tables be
reached. `registers` takes every sequence of six calls on three registers with
an int of three bits, so that the limit, the reset by a write, and a count that
leaves the int all occur; the two histograms are claimed only while the counts
fit (`FitsInt`), and `registers_overflow` shows that the condition is needed.
`threads` has two threads and two opcodes, three calls that may meet and then
two that do not: enough for two calls to overlap, with either one starting
again while the other is still inside, and for a whole period of calls that
meet no other, which must bring a checkpoint. The cache of opcodes has one row,
so that pointers dangle. In `threads_count` it has both rows, so that only a
checkpoint evicts, which the counterexample does not need: the increment is lost
by the load and the store alone. `CAPACITY` 2 is room for the entries of both
threads; a stale length that was stored again makes the list grow. `bit_patterns` takes every pattern of 13 bits, one more than the
longest format. `operands` has words of eight bits in four bytes and a buffer
of two words; two operands an instruction are enough for one to widen a lane of
another and to leave bytes behind, and the number of instructions is not
bounded. Register values are a few patterns per size (none, all, and mixed
bits). `analyze` has four opcodes for an array of three categories, so that it
is cleared partly, exactly and too far; two opcodes in one category; tables of
every size up to three addresses and six keys, so that either table of the join
ends first and equal counts occur. `MAX_TOTAL`, `MAX_CALLS`, `MAX_MIXED`,
`MAX_OPERANDS`, `MAX_COUNT`, `BITS` and `SCALE` are the bounds of
the models.

**Deadlock** is not checked where the system stops: an exited or killed process
has no step, nor has the register record or the tool with threads after
`MAX_CALLS` calls, a process that has crashed, the enumeration of patterns at
its end, or an analyzer that is done or crashed.

**Fairness** (`FairSpec`, only in `refinement`): a callback that has begun goes
on, since its code has no loop that waits; and the application runs another
instrumented instruction or exits. An application that hangs for ever would
write no further checkpoint, so this is needed. No fairness is assumed of
`instruction()`, signals or kills.

## 4. Findings

- `image.tbl` is saved at the first call of `on_ins()` only (`instat.cpp:505`),
  and `on_finish()` does not save it. An instruction that is compiled later and
  not evicted from the cache has no row in the file, and the analyzer reports
  that it could not find it. `ExecutedIsInImage` shows that the row is not lost
  before: it is in the cache.
- The differences of `uint64_t` counts in `register_record_t::write` are
  assigned to an int (`reg.cpp:67-68`) and only clamped from above: after 2^31
  reads or instructions the row is negative. `RowsInTableWhileSmall` is what
  holds, and is proved.
- Elements of type UINT and INT are read eight bytes at a time, whatever their
  width (`instat.cpp:574`, `579`): a 32-bit register is measured with what an
  earlier register left in `rval`, a lane of a vector with its neighbours.
  `NeverTooNarrow` is what holds.
- The array of the category histograms is cleared up to the number of opcodes
  (`analyze.cpp:393`), not of categories.
- Two threads that execute instructions of one opcode at once count one of them:
  `operation->count++` (`instat.cpp:660`) takes no lock, while `README.md:10`
  promises the execution count. `CountsBetween` is what holds.

Not listed as findings, since no text of the repository says otherwise: the
progress display divides by `mem.size()/1000` (`analyze.cpp:598`), zero for
short tables (`Crash` of `Analyze`); the significand of a LONGDOUBLE is 64 bits
wide and its histograms have 53 entries (`WithinHistogram` excludes it; whether
Pin passes such an operand is not in this repository); an exponent's field is
sign-extended before the bias is subtracted, which is right for elements below
2 only (`ExponentBelowTwo` says what is returned above).

## 5. Proofs

All for every value of the constants, under their named assumptions: those of
`Instat` and `RegisterOps` (sizes are positive; addresses, data addresses and
widths are finitely many, widths are natural numbers; opcode 0 is not
instrumented; an operand is a register with an id and at most as many elements as
its arrays have lanes, an immediate or memory; the limit fits an int), of `InstatThreads` (sizes are
positive), of `Analyze` (opcodes and addresses are finitely many numbers, the
case labels are opcodes, and what section 2 says of the rows and of `SCALE`), of
`Bitwidth` (a word is whole bytes, the sizes `memory_getvalue()` has a case for
are shorter than a word, a significand fits in a word and an exponent in one
that starts in the middle of a byte) and of `Operands`. These are what Pin and
XED give (`instat.cpp:442-444`) and `opcode.h` declares: every register fits in
`rval`; an operand's elements are whole bytes wide and fit in its register, and
a format with its sign in its element; a histogram has more entries than a word,
or an exponent, has bits. Nothing is assumed of `rval` behind the register, of
the memory behind `rval`, or of values.

| module | theorems |
|---|---|
| `InstatProofs` | `Typing`, `StaticsStayClean`, `ExecutionsKept`, `ExitWritesAll`: `TypeOK`, `StaticsClean`, `NoExecutionLost` and `ExitComplete` are invariants; `ExecutionIsProfile`, `OpcodesAreProfile`, `MemoryIsProfile`: the three counting tables implement `Profile`; `ExecutedHasRow`: `ExecutedIsInImage` |
| `InstatTotalsProofs` | `OpcodesAddUp`, `MemoryAddsUp`, `WidthsAddUp`, `LossIsBounded`; as long as the counts fit an int, `RegistersAddUp` and `CheckpointsAgree`; and `OpcodeRowsTheorem`, `AccessRowsTheorem`: the rows are what the analyzer takes them for |
| `InstatThreadsProofs` | `TypeCorrect`, `ListIsEmptyBetween`, `AloneCallsAreExact`, `CountsStayBetween`, `TotalStaysBetween`, `CheckpointsResume` |
| `RegistersProofs` | `Typing`; and, as long as the counts fit an int, `RowsInTableTheorem`, `FanoutIsHistogram` and `AgeIsHistogram`: the two tables are the histograms the history of calls defines |
| `AnalyzeProofs` | `UsageTheorem`, `KindsTheorem`, `CumulativeTheorem`, `RowsTheorem`, `TopLinesTheorem`, `BlocksTheorem`, `SharesTheorem`: every property of the run `analyze` |
| `BitwidthProofs` | `FieldsTheorem`, `WidthsTheorem`, `LastOneTheorem`, `SignCostsTheorem`, `ExponentTheorem`: every property of `bit_patterns`, for any word and format; `WidestElementTheorem`, `NeverTooNarrowTheorem`, `WithinHistogramTheorem`: every property of `operands` |

**One thread.** The inductive invariant of `InstatProofs` adds five parts to the
properties. `Running` ties `pc` to the current instruction: the steps of
`on_ins()` happen for an instrumented address only. `SetLanesFirst` says that
the lanes that are set are a prefix of each array; without it a drain loop,
which stops at the first unset lane, could leave a lane set, and `StaticsClean`
is not inductive. `EmptiedInTime` says by which step each list and array has
been emptied. `AllResident` says that only cached rows have something to write
back, which is why `save()`, which walks the cache, flushes a store.
`WrittenSoFar` says that what a checkpoint has written stays written until it is
over; with it, `ExitComplete` follows from `NoExecutionLost`.

The store lemmas (in `OperatorProofs`) carry the argument: evicting any set of
rows changes no sum of file and cache, `get()` changes none and caches the row,
an increment changes exactly one.

**Refinement.** A step of `Instat` is one of `Profile` or a stutter, table by
table: an increment is `Count`, with the rows the eviction wrote; an eviction or
a save is `WriteBack`; the last save is `Close`, which has to write every row,
and does by `WrittenSoFar`.

**Totals.** They hold between two calls, and the invariant that proves one says
what the running call has counted so far. `Position` says where a loop is,
`MemFlag` that `is_mem` stands for the operands scanned. `OpcodeSums` says that
`opcodes.tbl` is ahead of `instrs.tbl` by the current call before its last step.
`MemSums` and `RegSums` say what the tables lack: the operands not scanned yet
and the entries of the write list, which by `MemList` and `RegList` holds the
written operands scanned so far. `RegisterTotals` therefore speaks of the running
call too: while operands are scanned none of its writes is counted, and before
the first one is, all its reads are. `SetLanes` says that the lanes set are those
that an operand scanned so far fills, so that the drain loop visits as many as
the widest has; with it `WidthSums` says that a histogram lacks only the lanes
of the running call. `LossInv` bounds what the file lacks by the calls since the
last checkpoint. `SavedAgree` says what the files have after one.

That every write has a row in both register tables needs the row to be in range:
`MarksBehind` (the marks `last_read` and `last_instr` never pass the counts)
gives it while the counts are below half the range of an int. This is the
hypothesis `[]CountsFit` of `RegistersAddUp` and `CheckpointsAgree`, without
which `registers_overflow` shows the row may be negative.

A sum is a fold, that is a recursive function. `OperatorProofs` shows that the
function exists and has the value its definition gives, and from this that
members may be taken in any order, that a sum changes as its terms do, and that
counts by value add up to the members counted. Induction takes the form of a set
that has the empty set and grows with every member (`SetInduct`), which follows
from the well-foundedness of the numbers. The analyzer needs three more facts:
a sum does not change when its members are renamed one to one (`SumRenamed`: a
sort moves values, it loses none), no members of the same number add up to more
than those no other is above (`SumTop`), and a constant factor may be taken out
(`SumTimes`).

**Register record.** The two histograms are defined from the history of all calls:
a write counts in the row of the reads, or instructions, since the write before
it. `MarksAreSinceWrite` ties that history to the code: what a register's marks
`last_read` and `last_instr` lack to the present counts is the number of reads
and of instructions since its last write. A write then adds to the row the
definition asks for, the other calls add nothing, and `finish()` makes the file
the table of this moment. Both properties speak of
counts that fit an int. As counts only grow, those that fit after a step fitted
before it (`FitsBefore`), so the invariant may be used where it says something.

**Analyzer.** `main()` is three sections, with an inductive invariant each, which
claims nothing while another section runs.

- `WidthsInv`: while `opcodes.tbl` is read, the categories together hold what the
  rows read hold, in every bin (`CategoriesAddUp`), and each category keeps the
  shape of a row (`IsRow`), from which `KindsAgree` follows. While a file is printed,
  the running value is the sum of the bins printed (`CumulativeSoFar`), so behind
  the last bin it is the total that was divided by.
- `LinesInv`: rows of `image.tbl` that the second iterator has passed are behind
  every instruction left (`PassedRowsAreBehind`), so that none is passed that an
  instruction still needs; `data` has each instruction looked up exactly once
  (`DataAreLookedUp`). After the sort the lines printed are the last of `data`
  (`PrintedSoFar`), which are the most executed.
- `AccessesInv`: a block's data are the rows read of it (`BlocksFit`), and a block
  that has been averaged has added `SCALE` to the shares, whatever order the sort
  left its values in (`AveragedSoFar`).

**Threads.** A bound of a counter is proved together with the same bound of what
each thread has loaded and not stored yet (`TotalLoaded`, `CountLoaded`): the
store then keeps it, whatever it overwrites. The lower bounds count the calls
that met no other; such a call is alone in `on_ins()` (`AloneInside`), so they
never rise while another thread holds a loaded value. `ListOwned` says that the
list is empty or some thread will yet clear it, `OwnEntry` that a call that is
alone sees its own entry only, and `RecordedOnce` that `memory.tbl` is as it was
before such a call until the iterator has passed that entry, and has the one
write more from then on. `QuietBound` compares the calls since the last
checkpoint with the remainder of the total by `PERIOD`.

**Bit widths.** `Pow2`, `SignedShifts` and the other loops are recursive
functions, so the first step is that such a function exists: `Pow2` by induction
over sets of numbers, and the loops by naming a function that satisfies the
loop's equation. For the widths that is `Width(t)`, the least number of bits
that hold `t`: it is one more than that of `t \div 2` (`WidthOfHalf`), and as
every shift brings a number nearer to 0 or -1, no other function satisfies the
equation. For the left shifts it is the distance of the last one from the top
(`LeftShift`). The theorems about patterns then speak of `Width`, of the last
one of a number (`IsLast`), which a negation leaves where it is
(`LastOfNegative`), and of fields: shifting left and right again is a remainder
and a quotient (`FieldsAre`), and the sign is that of the field's top bit
(`Extended`).

**Operands.** The heart is `ElementMeasured`. What is read at an element's
address ends in the element's bits; a format's widths depend on these only
(`FloatMeasured`), and so does an integer of a word or more. A shorter unsigned
integer is a remainder of the word read, which is not wider; a shorter signed
one is the word's low bits with their own sign, whose width is not larger either
(`SignedLowBits`). `LaneOfElement` shows that this is so for every lane of a
register in the buffer, whatever is behind it. The inductive invariant
(`OperandsInv`) says of each lane that none of its elements is wider and, where
none is short, that one is as wide. It also says that the measured lanes are a
prefix of each array: the drain loops stop at the first lane that is not, and
otherwise would leave widths that belong to no element. `WithinHistogram`
follows for integers from the bound by the length of a word, which has to be in
the invariant since a short integer's width may be its neighbours', and for the
others from the element that has the width.

**Tool and analyzer.** The two models have different rows and no module composes
them; the theorems `OpcodeRowsTheorem` and `AccessRowsTheorem` state in terms of
the tool what `RowAssumption` and `MemAssumption` demand. A row of `opcodes.tbl`
keeps its shape when `CountOpcode` adds to it, as a float operand fills the same
lanes of both significand arrays (`SampleIsRow`), and when it is merged into the
file (`MergedIsRow`), whenever that happens. In the implementation it is
`MeasureIs` of `BitwidthProofs` that gives the same lanes: both getters return
-1 for the same element types. All this is for one application thread.

**Only model-checked:** liveness (`EventuallyOnDisk`), which is out of the
prover's reach; it is the one property of the passing runs without a theorem.
The five runs that show a violation are counterexamples and have nothing to
prove. `AccessRows` and `OpcodeRows` are proved only: no run lists them.

## 6. Plan

Done in this order: the store, the register operators, the tool with one
thread, its properties and proofs, the register record, the bit widths and
operands, the analyzer; then the tool with several threads, the refinement of
`Profile`, and the totals, with their proofs; then the proofs of the register
histograms and of the analyzer's reports; last those of the bit widths and the
lanes, and of the rows that the analyzer reads.

What would come next:

1. The static width arrays and the register record under several threads: a gap
   that one thread's drain leaves in an array has no `clear()` to remove it.
2. A module that composes the tool with the analyzer, whose rows would be those
   the tool has written instead of any that satisfy the assumptions.

## 7. Not modelled

- The width arrays and the register record under several threads (see the plan),
  and unlocked steps inside the stores: their code is not in the repository.
- `img_load()`/`img_unload()`: two maps nothing reads, and logging.
- The category of an opcode row, which the tool sets and nothing reads.
- The sections of the analyzer that copy `fanout.tbl` and `age.tbl` row by row,
  and names and layout of the reports.
- Constructors and stream operators of the data types, without state of their
  own, and the start of the tool.
- The Python scripts, the build files, the circuit test.

A memory operand wider than a word is modelled as the code measures it, by its
first word.

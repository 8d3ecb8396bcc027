------------------------------ MODULE Analyze ------------------------------
(***************************************************************************)
(* The analyzer (tools/analyze.cpp), which reads the tool's tables when    *)
(* the profiled program is over.  main() is a sequence of sections with    *)
(* variables of their own: the histograms of opcodes.tbl by opcode and by  *)
(* category, the lines of block.tsv, the averages of memory.tsv.  (The two *)
(* sections in between copy fanout.tbl and age.tbl row by row.)  The       *)
(* iterators of a table (file::table, external) visit its rows in          *)
(* ascending order of their keys, those of a map (core::map, external)     *)
(* too.                                                                    *)
(***************************************************************************)
EXTENDS Sums, Integers, Sequences, FiniteSets, Functions

CONSTANTS
  Opcode,       \* opcodes a table may hold, as numbers
  RowValue,     \* opcode_t: [count, mem_count, bins], bins by histogram
  CATEGORIES,   \* length of the category arrays (6)
  CaseLabels,   \* the case labels of get_category() for all but the last
                \* category, which is the default
  BINS,         \* entries of a histogram (65, 53, 53 and 17)
  Garbage,      \* what an uninitialized entry may hold
  Addr,         \* instruction addresses, as numbers
  MAX_COUNT,    \* bound of the model: executions of an instruction
  MemAddr,      \* data addresses, as numbers
  MemValue,     \* memory_value_t: [read, write]
  PROGRESS,     \* parts of memory.tbl the progress is shown for (1000)
  SCALE         \* bound of the model: a multiple of every total of accesses,
                \* so that shares are whole numbers of 1/SCALE

VARIABLES
  pc,
  i,            \* keys of the rows the loop over a table has not read
  total,        \* the sum of the counts read
  opcodes,      \* opcodes.tbl: [some opcodes -> RowValue]
  categories,   \* the sum of its rows of each category
  kind,         \* what a column is: "opcode" or "category"
  file,         \* number of the file of this kind being written
  bin,          \* the bin to be printed next
  cumulative,   \* the array of the same name
  cleared,      \* history: the indices of cumulative[] set to 0
  instrs,       \* instrs.tbl: [executed addresses -> count]
  image,        \* image.tbl: the addresses it has a row for
  j,            \* the rows from iterator j to assem.end()
  data,         \* instructions looked up: [addr, count, row], where row is
                \* the address of a row of image.tbl or NoRow (category 255)
  curr,         \* sum of the counts printed
  printed,      \* addresses in the order they are printed
  mem,          \* memory.tbl: [some <<instruction, address>> -> MemValue]
  block,        \* the instruction the iterator of that name is at, or NoBlock
  blocks,       \* [instructions -> [total, distribution]]
  left,         \* instructions that are still to be averaged
  ave           \* per rank the sum of the shares, [read, write]

widths == <<opcodes, categories, kind, file, bin, cumulative, cleared>>
lines == <<instrs, image, j, data, curr, printed>>
accesses == <<mem, block, blocks, left, ave>>
vars == <<pc, i, total, widths, lines, accesses>>

Category == 0 .. CATEGORIES - 1
Bin == 0 .. BINS - 1
File == <<"int", "sig_l", "sig_m", "exp">>
Histogram == {"int", "sig_l", "sig_m", "exp"}
NoRow == -1
NoBlock == -1

ASSUME TablesAssumption ==
  /\ Opcode \subseteq Nat /\ Addr \subseteq Nat /\ MemAddr \subseteq Nat
  /\ IsFiniteSet(Opcode) /\ IsFiniteSet(Addr) /\ IsFiniteSet(MemAddr)
  /\ CATEGORIES \in Nat \ {0} /\ BINS \in Nat \ {0}
  /\ PROGRESS \in Nat \ {0} /\ SCALE \in Nat \ {0}
  /\ CaseLabels \in [0 .. CATEGORIES - 2 -> SUBSET Opcode]
  /\ MAX_COUNT \in Nat

\* What the tool leaves in a row of opcodes.tbl: memory accesses are counted
\* among the executions, and a sample of one significand width comes with one
\* of the other.
IsRow(row) ==
  /\ row.count \in Nat /\ row.mem_count \in 0 .. row.count
  /\ row.bins \in [Histogram -> [Bin -> Nat]]
  /\ Sum(row.bins["sig_l"], Bin) = Sum(row.bins["sig_m"], Bin)

ASSUME RowAssumption == \A row \in RowValue : IsRow(row)

\* A row of memory.tbl is made by an access.
ASSUME MemAssumption == \A v \in MemValue :
  v.read \in Nat /\ v.write \in Nat /\ v.read + v.write > 0

\* SCALE is divided by the accesses of one kind that an instruction may have.
ASSUME ScaleAssumption ==
  \A K \in SUBSET MemAddr : \A v \in [K -> MemValue] :
    LET reads == Sum([a \in K |-> v[a].read], K)
        writes == Sum([a \in K |-> v[a].write], K)
    IN  (reads > 0 => SCALE % reads = 0) /\ (writes > 0 => SCALE % writes = 0)

EmptyRow == [count |-> 0, mem_count |-> 0,
             bins |-> [h \in Histogram |-> [b \in Bin |-> 0]]]

Init ==
  /\ pc = "opcodes"
  /\ \E S \in SUBSET Opcode : opcodes \in [S -> RowValue]
  /\ i = DOMAIN opcodes
  /\ total = 0
  /\ categories = [c \in Category |-> EmptyRow]
  /\ kind = "opcode" /\ file = 1 /\ bin = 0
  /\ cumulative = <<>> /\ cleared = {}
  /\ instrs = <<>> /\ image = {} /\ j = {}
  /\ data = <<>> /\ curr = 0 /\ printed = <<>>
  /\ mem = <<>> /\ block = NoBlock /\ blocks = <<>>
  /\ left = {} /\ ave = <<>>

(***************************************************************************)
(* The variables of a section go with it.                                  *)
(***************************************************************************)
DropWidths ==
  /\ opcodes' = <<>> /\ categories' = [c \in Category |-> EmptyRow]
  /\ kind' = "opcode" /\ file' = 1 /\ bin' = 0
  /\ cumulative' = <<>> /\ cleared' = {}

DropLines ==
  /\ instrs' = <<>> /\ image' = {} /\ j' = {}
  /\ data' = <<>> /\ curr' = 0 /\ printed' = <<>>

(***************************************************************************)
(* opcodes.tbl.                                                            *)
(***************************************************************************)
Size == Cardinality(DOMAIN opcodes)

get_category(op) ==
  IF \E c \in DOMAIN CaseLabels : op \in CaseLabels[c]
  THEN CHOOSE c \in DOMAIN CaseLabels : op \in CaseLabels[c]
  ELSE CATEGORIES - 1

\* A mutant of update_opcode: the row replaces the sum.
update_opcodeByLast(a, b) == b

\* A mutant of update_opcode: the last bin is left out.
update_opcodeButLast(a, b) ==
  [count |-> a.count + b.count, mem_count |-> a.mem_count + b.mem_count,
   bins |-> [h \in Histogram |->
               [n \in Bin |-> IF n < BINS - 1 THEN a.bins[h][n] + b.bins[h][n]
                              ELSE a.bins[h][n]]]]

update_opcode(a, b) ==
  [count |-> a.count + b.count, mem_count |-> a.mem_count + b.mem_count,
   bins |-> [h \in Histogram |-> [n \in Bin |-> a.bins[h][n] + b.bins[h][n]]]]

ReadOpcode ==
  /\ pc = "opcodes" /\ i # {}
  /\ LET op == Min(i) IN
       /\ i' = i \ {op}
       /\ total' = total + opcodes[op].count
       /\ categories' = [categories EXCEPT ![get_category(op)] =
                           update_opcode(@, opcodes[op])]
  /\ UNCHANGED <<pc, opcodes, kind, file, bin, cumulative, cleared, lines, accesses>>

OpcodesRead ==
  /\ pc = "opcodes" /\ i = {}
  /\ pc' = "clear"
  /\ UNCHANGED <<i, total, widths, lines, accesses>>

\* A column per opcode: as many entries as opcodes, all cleared.
ClearOpcodes ==
  /\ pc = "clear" /\ kind = "opcode"
  /\ cumulative' = [op \in DOMAIN opcodes |-> 0]
  /\ pc' = "print"
  /\ UNCHANGED <<i, total, opcodes, categories, kind, file, bin, cleared,
                 lines, accesses>>

\* The loop that clears cumulative[CATEGORIES] runs to opcodes.size().
ClearedCategories == 0 .. Size - 1

\* A column per category.  What is not cleared holds whatever was there; what
\* is cleared behind the array belongs to somebody else, and the program may
\* go on or crash.
ClearCategories ==
  /\ pc = "clear" /\ kind = "category"
  /\ cleared' = ClearedCategories
  /\ \E g \in [Category -> Garbage] :
       cumulative' = [c \in Category |-> IF c \in ClearedCategories THEN 0 ELSE g[c]]
  /\ pc' \in IF Size > CATEGORIES THEN {"print", "crashed"} ELSE {"print"}
  /\ UNCHANGED <<i, total, opcodes, categories, kind, file, bin, lines, accesses>>

Row(col) == IF kind = "opcode" THEN opcodes[col] ELSE categories[col]

SumOfBins(row, h) == Sum(row.bins[h], Bin)

\* A mutant of SumOf: every file has the sums of the first.
SumOfInts(col) == SumOfBins(Row(col), "int")

\* int_sums, sig_sums and exp_sums: the two significand files share theirs.
SumOf(col) ==
  SumOfBins(Row(col), IF File[file] = "sig_m" THEN "sig_l" ELSE File[file])

\* One line of a file; a column without samples is not printed.
PrintLine ==
  /\ pc = "print" /\ bin < BINS
  /\ cumulative' = [col \in DOMAIN cumulative |->
                      IF SumOf(col) > 0
                      THEN cumulative[col] + Row(col).bins[File[file]][bin]
                      ELSE cumulative[col]]
  /\ bin' = bin + 1
  /\ UNCHANGED <<pc, i, total, opcodes, categories, kind, file, cleared,
                 lines, accesses>>

FileWritten == pc = "print" /\ bin = BINS

NextFile ==
  /\ FileWritten
  /\ \/ file < Len(File) /\ file' = file + 1 /\ UNCHANGED kind
     \/ file = Len(File) /\ kind = "opcode" /\ file' = 1 /\ kind' = "category"
  /\ pc' = "clear"
  /\ bin' = 0
  /\ UNCHANGED <<i, total, opcodes, categories, cumulative, cleared, lines, accesses>>

(***************************************************************************)
(* instrs.tbl and image.tbl: one pass through both looks every instruction *)
(* up.                                                                     *)
(***************************************************************************)
OpenInstrs ==
  /\ FileWritten /\ file = Len(File) /\ kind = "category"
  /\ pc' = "join"
  /\ \E S \in SUBSET Addr : instrs' \in [S -> 1 .. MAX_COUNT]
  /\ image' \in SUBSET Addr
  /\ i' = DOMAIN instrs'
  /\ j' = image'
  /\ total' = 0
  /\ DropWidths
  /\ UNCHANGED <<data, curr, printed, accesses>>

\* A mutant of Behind: the row of the address itself is passed over.
BehindOrAt(key, addr) == key <= addr

Behind(key, addr) == key < addr

\* j++
SkipRow ==
  /\ pc = "join" /\ i # {} /\ j # {}
  /\ Behind(Min(j), Min(i))
  /\ j' = j \ {Min(j)}
  /\ UNCHANGED <<pc, i, total, widths, instrs, image, data, curr, printed, accesses>>

\* What j->key may be: the key of a row, or, at the end of the table, anything.
KeyAt == IF j = {} THEN Addr \cup {NoRow} ELSE {Min(j)}

\* Iterator j is where it stays for i: either the row is found or not.
LookUp ==
  /\ pc = "join" /\ i # {}
  /\ j # {} => ~Behind(Min(j), Min(i))
  /\ LET addr == Min(i) IN
       /\ \E key \in KeyAt :
            data' = Append(data, [addr |-> addr, count |-> instrs[addr],
                                  row |-> IF key = addr THEN key ELSE NoRow])
       /\ total' = total + instrs[addr]
       /\ i' = i \ {addr}
  /\ UNCHANGED <<pc, widths, instrs, image, j, curr, printed, accesses>>

\* A mutant of Less: the other way round.
LessOften(i0, i1) == i0.count > i1.count

\* operator< of instruction
Less(i0, i1) ==
  \/ i0.count < i1.count
  \/ i0.count = i1.count /\ i1.addr > i0.addr

Rearranged(s) ==
  {[n \in DOMAIN s |-> s[q[n]]] : q \in Bijection(DOMAIN s, DOMAIN s)}

\* What a sort by operator< may make of s: instructions neither of which is
\* less than the other may come in any order.
SortedLines(s) ==
  {p \in Rearranged(s) : \A n \in DOMAIN p : \A m \in 1 .. n - 1 : ~Less(p[n], p[m])}

\* sort_quick_inplace()
Sort ==
  /\ pc = "join" /\ i = {}
  /\ data' \in SortedLines(data)
  /\ pc' = "block.tsv"
  /\ UNCHANGED <<i, total, widths, instrs, image, j, curr, printed, accesses>>

\* From rbegin() to rend().
PrintInstruction ==
  /\ pc = "block.tsv" /\ Len(printed) < Len(data)
  /\ LET d == data[Len(data) - Len(printed)] IN
       /\ curr' = curr + d.count
       /\ printed' = Append(printed, d.addr)
  /\ UNCHANGED <<pc, i, total, widths, instrs, image, j, data, accesses>>

(***************************************************************************)
(* memory.tbl: its rows by instruction, then the share that the address of *)
(* each rank has of an instruction's accesses, averaged over instructions. *)
(***************************************************************************)
OpenMemory ==
  /\ pc = "block.tsv" /\ Len(printed) = Len(data)
  /\ pc' = "memory"
  /\ \E K \in SUBSET (Addr \X MemAddr) : mem' \in [K -> MemValue]
  /\ i' = DOMAIN mem'
  /\ total' = 0
  /\ DropLines
  /\ UNCHANGED <<widths, block, blocks, left, ave>>

None == [read |-> 0, write |-> 0]

\* operator< of memory_key_t
KeyLess(k0, k1) == k0[1] < k1[1] \/ (k0[1] = k1[1] /\ k0[2] < k1[2])

First(K) == CHOOSE k \in K : \A l \in K \ {k} : KeyLess(k, l)

\* A mutant of BlockOf: the iterator is moved once only.
BlockOfFirst(instr) == IF block = NoBlock THEN instr ELSE block

\* The block of a row, looked up only when the instruction changes.
BlockOf(instr) == IF block = NoBlock \/ block # instr THEN instr ELSE block

\* blocks.at(): the block is made when it is not there.
At(b) == IF b \in DOMAIN blocks THEN blocks[b]
         ELSE [total |-> None, distribution |-> <<>>]

Accesses(v) == v.read + v.write

Plus(v, w) == [read |-> v.read + w.read, write |-> v.write + w.write]

\* The row's index is taken modulo mem.size() / PROGRESS, in integers.
DividesByZero == Cardinality(DOMAIN mem) \div PROGRESS = 0

ReadMemory ==
  /\ pc = "memory" /\ i # {} /\ ~DividesByZero
  /\ LET k == First(i)
         b == BlockOf(k[1])
         old == At(b)
         new == IF Accesses(mem[k]) > 0
                THEN [total |-> Plus(old.total, mem[k]),
                      distribution |-> Append(old.distribution, mem[k])]
                ELSE old
     IN  /\ block' = b
         /\ blocks' = [x \in DOMAIN blocks \cup {b} |-> IF x = b THEN new ELSE blocks[x]]
         /\ i' = i \ {k}
  /\ UNCHANGED <<pc, total, widths, lines, mem, left, ave>>

Crash ==
  /\ pc = "memory" /\ i # {} /\ DividesByZero
  /\ pc' = "crashed"
  /\ UNCHANGED <<i, total, widths, lines, accesses>>

MemoryRead ==
  /\ pc = "memory" /\ i = {}
  /\ pc' = "average"
  /\ left' = DOMAIN blocks
  /\ UNCHANGED <<i, total, widths, lines, mem, block, blocks, ave>>

\* operator< of memory_value_t
LessAccessed(v, w) == Accesses(v) < Accesses(w)

\* sort_inplace()
SortedValues(s) ==
  {p \in Rearranged(s) :
     \A n \in DOMAIN p : \A m \in 1 .. n - 1 : ~LessAccessed(p[n], p[m])}

\* A mutant of Share: of all accesses in place of those of its kind.
ShareOfAll(part, whole, other) ==
  IF whole > 0 THEN (part * SCALE) \div (whole + other) ELSE 0

\* part / whole, in parts of SCALE; nothing is added when there is no whole.
Share(part, whole, other) == IF whole > 0 THEN (part * SCALE) \div whole ELSE 0

Average ==
  /\ pc = "average" /\ left # {}
  /\ LET b == Min(left)
         t == blocks[b].total
     IN  /\ \E d \in SortedValues(blocks[b].distribution) :
              ave' = [n \in 1 .. Max({Len(ave), Len(d)}) |->
                        Plus(IF n <= Len(ave) THEN ave[n] ELSE None,
                             IF n <= Len(d)
                             THEN [read |-> Share(d[n].read, t.read, t.write),
                                   write |-> Share(d[n].write, t.write, t.read)]
                             ELSE None)]
         /\ left' = left \ {b}
  /\ UNCHANGED <<pc, i, total, widths, lines, mem, block, blocks>>

WriteMemory ==
  /\ pc = "average" /\ left = {}
  /\ pc' = "done"
  /\ UNCHANGED <<i, total, widths, lines, accesses>>

Next ==
  \/ ReadOpcode \/ OpcodesRead \/ ClearOpcodes \/ ClearCategories
  \/ PrintLine \/ NextFile
  \/ OpenInstrs \/ SkipRow \/ LookUp \/ Sort \/ PrintInstruction
  \/ OpenMemory \/ ReadMemory \/ Crash \/ MemoryRead \/ Average \/ WriteMemory

Spec == Init /\ [][Next]_vars

(***************************************************************************)
(* The cells of category_usage.tsv, memory and other instructions of each  *)
(* category, add up to the total that is their common denominator, and no  *)
(* cell is the difference of a smaller and a larger count.                 *)
(***************************************************************************)
UsageAddsUp ==
  pc \in {"clear", "print"} =>
    /\ \A c \in Category : categories[c].mem_count <= categories[c].count
    /\ Sum([c \in Category |-> categories[c].count], Category) = total

(***************************************************************************)
(* A category's histogram is that of its opcodes' samples, so that both    *)
(* kinds of files hold the same samples.                                   *)
(***************************************************************************)
KindsAgree ==
  pc \in {"clear", "print"} =>
    \A h \in Histogram, b \in Bin :
      Sum([c \in Category |-> categories[c].bins[h][b]], Category)
        = Sum([op \in DOMAIN opcodes |-> opcodes[op].bins[h][b]], DOMAIN opcodes)

(***************************************************************************)
(* The cumulative share of a printed column ends at one, in the file of    *)
(* the second significand width as well, whose denominator is the sum of   *)
(* the first: wherever cumulative[] starts from zero.                      *)
(***************************************************************************)
CumulativeEndsAtOne ==
  FileWritten =>
    \A col \in DOMAIN cumulative :
      SumOf(col) > 0 /\ (kind = "category" => col \in cleared) =>
        cumulative[col] = SumOf(col)

(***************************************************************************)
(* cumulative[] has an entry per category, and each of them, and nothing   *)
(* else, is set to zero before it is added to.                             *)
(***************************************************************************)
CategoriesCleared ==
  pc = "print" /\ kind = "category" => cleared = Category

(***************************************************************************)
(* The pass through both tables finds the row of every instruction that    *)
(* has one, although it never goes back in image.tbl.  (For one that has   *)
(* none, behind the last row of image.tbl, the code compares with a row    *)
(* that is not there.)                                                     *)
(***************************************************************************)
EveryRowIsFound ==
  \A n \in DOMAIN data : data[n].addr \in image => data[n].row = data[n].addr

(***************************************************************************)
(* The first lines of block.tsv cover as much of the execution as that     *)
(* many instructions can, and the last line covers all of it.              *)
(***************************************************************************)
TopLinesCoverMost ==
  pc = "block.tsv" =>
    /\ \A S \in kSubset(Len(printed), DOMAIN instrs) :
         Sum(instrs, S) <= curr
    /\ Len(printed) = Cardinality(DOMAIN instrs) => curr = total

(***************************************************************************)
(* The block of an instruction has the values of its rows and of no other  *)
(* instruction's, although a block is only looked up when the instruction  *)
(* changes.                                                                *)
(***************************************************************************)
BlocksHaveTheirRows ==
  pc = "average" =>
    /\ DOMAIN blocks = {k[1] : k \in DOMAIN mem}
    /\ \A b \in DOMAIN blocks :
         LET K == {k \in DOMAIN mem : k[1] = b} IN
         /\ Len(blocks[b].distribution) = Cardinality(K)
         /\ blocks[b].total.read = Sum([k \in K |-> mem[k].read], K)
         /\ blocks[b].total.write = Sum([k \in K |-> mem[k].write], K)

(***************************************************************************)
(* The last cumulative values of memory.tsv are the shares of the          *)
(* instructions that read, and that write, at all: whatever the ranks, the *)
(* addresses of one instruction have all of its accesses.                  *)
(***************************************************************************)
SharesAddUp ==
  pc = "done" =>
    /\ Sum([n \in DOMAIN ave |-> ave[n].read], DOMAIN ave)
         = SCALE * Cardinality({b \in DOMAIN blocks : blocks[b].total.read > 0})
    /\ Sum([n \in DOMAIN ave |-> ave[n].write], DOMAIN ave)
         = SCALE * Cardinality({b \in DOMAIN blocks : blocks[b].total.write > 0})
=============================================================================

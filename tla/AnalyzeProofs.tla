---------------------------- MODULE AnalyzeProofs ----------------------------
(***************************************************************************)
(* The analyzer's reports, for tables of any size: category sums and       *)
(* cumulative columns, the join and the order of block.tsv, the blocks of  *)
(* memory.tbl and the averages of memory.tsv.  Each section of main() has  *)
(* an invariant of its own.                                                *)
(***************************************************************************)
EXTENDS Analyze, OperatorProofs, FunctionTheorems, SequenceTheorems

(***************************************************************************)
(* Rows of opcodes.tbl and their sums.                                     *)
(***************************************************************************)
\* Categories and bins are finitely many.
LEMMA Finite == IsFiniteSet(Category) /\ IsFiniteSet(Bin) /\ IsFiniteSet(Opcode)
BY TablesAssumption, FS_Interval DEF Category, Bin

\* Every opcode has a category.
LEMMA CategoryType == \A op : get_category(op) \in Category
<1>1. DOMAIN CaseLabels = 0 .. CATEGORIES - 2 /\ CATEGORIES \in Nat \ {0}
  BY TablesAssumption
<1>2. 0 .. CATEGORIES - 2 \subseteq Category /\ CATEGORIES - 1 \in Category
  BY <1>1 DEF Category
<1> QED
  BY <1>1, <1>2 DEF get_category

\* The sum of two rows is one: histogram by histogram its samples are those of
\* both.
LEMMA UpdateRow ==
  ASSUME NEW a, NEW b, IsRow(a), IsRow(b)
  PROVE  /\ IsRow(update_opcode(a, b))
         /\ update_opcode(a, b).count = a.count + b.count
         /\ \A h \in Histogram, n \in Bin :
              update_opcode(a, b).bins[h][n] = a.bins[h][n] + b.bins[h][n]
<1> DEFINE u == update_opcode(a, b)
<1>1. /\ u.count = a.count + b.count /\ u.mem_count = a.mem_count + b.mem_count
      /\ u.bins = [h \in Histogram |-> [n \in Bin |-> a.bins[h][n] + b.bins[h][n]]]
  BY DEF update_opcode
<1>2. a.bins \in [Histogram -> [Bin -> Nat]] /\ b.bins \in [Histogram -> [Bin -> Nat]]
  BY DEF IsRow
<1>3. \A h \in Histogram, n \in Bin :
        /\ a.bins[h][n] \in Nat /\ b.bins[h][n] \in Nat
        /\ u.bins[h][n] = a.bins[h][n] + b.bins[h][n]
  BY <1>1, <1>2
<1> HIDE DEF u
<1>4. u.bins \in [Histogram -> [Bin -> Nat]]
  BY <1>1, <1>3
<1>5. \A h \in Histogram : Sum(u.bins[h], Bin) = Sum(a.bins[h], Bin) + Sum(b.bins[h], Bin)
  BY <1>3, Finite, SumPlus
<1>6. u.count \in Nat /\ u.mem_count \in 0 .. u.count
  BY <1>1 DEF IsRow
<1>7. Sum(u.bins["sig_l"], Bin) = Sum(u.bins["sig_m"], Bin)
  BY <1>5 DEF IsRow, Histogram
<1>8. IsRow(u)
  BY <1>4, <1>6, <1>7 DEF IsRow
<1> QED
  BY <1>1, <1>3, <1>8 DEF u

\* A row without samples.
LEMMA EmptyRowIsRow ==
  /\ IsRow(EmptyRow) /\ EmptyRow.count = 0
  /\ \A h \in Histogram, n \in Bin : EmptyRow.bins[h][n] = 0
<1>1. /\ EmptyRow.count = 0 /\ EmptyRow.mem_count = 0
      /\ EmptyRow.bins = [h \in Histogram |-> [n \in Bin |-> 0]]
  BY DEF EmptyRow
<1>2. EmptyRow.bins["sig_l"] = EmptyRow.bins["sig_m"]
  BY <1>1 DEF Histogram
<1> QED
  BY <1>1, <1>2 DEF IsRow

(***************************************************************************)
(* The histograms by opcode and by category.                               *)
(***************************************************************************)
InWidths == pc \in {"opcodes", "clear", "print"}

RowsRead == DOMAIN opcodes \ i

\* Every row read has been added to the row of its category.
CategoriesAddUp ==
  /\ Sum([c \in Category |-> categories[c].count], Category) = total
  /\ \A h \in Histogram, b \in Bin :
       Sum([c \in Category |-> categories[c].bins[h][b]], Category)
         = Sum([op \in DOMAIN opcodes |-> opcodes[op].bins[h][b]], RowsRead)

\* What a column has been cleared for and then added up.
CumulativeSoFar ==
  \A col \in DOMAIN cumulative :
    SumOf(col) > 0 /\ (kind = "category" => col \in cleared) =>
      cumulative[col] = Sum(Row(col).bins[File[file]], 0 .. bin - 1)

WidthsType ==
  /\ DOMAIN opcodes \subseteq Opcode
  /\ \A op \in DOMAIN opcodes : opcodes[op] \in RowValue
  /\ i \subseteq DOMAIN opcodes
  /\ pc # "opcodes" => i = {}
  /\ categories = [c \in Category |-> categories[c]]
  /\ \A c \in Category : IsRow(categories[c])
  /\ kind \in {"opcode", "category"}
  /\ file \in 1 .. 4
  /\ bin \in 0 .. BINS
  /\ pc # "print" => bin = 0
  /\ pc = "print" => DOMAIN cumulative = IF kind = "opcode" THEN DOMAIN opcodes ELSE Category

WidthsInv ==
  InWidths => WidthsType /\ CategoriesAddUp /\ (pc = "print" => CumulativeSoFar)

\* Nothing is read yet.
LEMMA InitWidths == Init => WidthsInv
<1> SUFFICES ASSUME Init PROVE WidthsInv
  OBVIOUS
<1>1. WidthsType
  <2>1. 1 \in 1 .. 4 /\ 0 \in 0 .. BINS
    BY TablesAssumption
  <2>2. DOMAIN opcodes \subseteq Opcode /\ \A op \in DOMAIN opcodes : opcodes[op] \in RowValue
    BY DEF Init
  <2> QED
    BY <2>1, <2>2, EmptyRowIsRow DEF Init, WidthsType
<1>2. \A c \in Category : categories[c] = EmptyRow
  BY DEF Init
<1>3. RowsRead = {} /\ total = 0 /\ pc = "opcodes"
  BY DEF Init, RowsRead
<1>4. Sum([c \in Category |-> categories[c].count], Category) = 0
  BY <1>2, EmptyRowIsRow, Finite, SumZero
<1>5. ASSUME NEW h \in Histogram, NEW b \in Bin
      PROVE  Sum([c \in Category |-> categories[c].bins[h][b]], Category) = 0
  <2> DEFINE f == [c \in Category |-> categories[c].bins[h][b]]
  <2>1. \A c \in Category : f[c] = 0
    BY <1>2, EmptyRowIsRow
  <2> HIDE DEF f
  <2>2. Sum(f, Category) = 0
    BY <2>1, Finite, SumZero
  <2> QED
    BY <2>2 DEF f
<1>6. \A f : Sum(f, RowsRead) = 0
  BY <1>3, SumEmpty
<1>7. CategoriesAddUp
  BY <1>3, <1>4, <1>5, <1>6 DEF CategoriesAddUp
<1> QED
  BY <1>1, <1>3, <1>7 DEF WidthsInv

\* The row read is added to the row of its category, and to no other's.
LEMMA ReadOpcodeWidths ==
  ASSUME WidthsInv, ReadOpcode
  PROVE  WidthsInv'
<1> DEFINE op == Min(i)
           c0 == get_category(op)
<1>0. pc = "opcodes" /\ pc' = "opcodes" /\ i # {} /\ WidthsType /\ CategoriesAddUp
  BY DEF ReadOpcode, WidthsInv, InWidths
<1>1. op \in i
  <2>1. i \in SUBSET Nat
    BY <1>0, TablesAssumption DEF WidthsType
  <2> QED
    BY <1>0, <2>1, Least
<1>2. op \in DOMAIN opcodes /\ op \in Opcode /\ IsRow(opcodes[op])
  BY <1>0, <1>1, RowAssumption DEF WidthsType
<1>3. c0 \in Category
  BY CategoryType
<1> HIDE DEF op, c0
<1>4. /\ i' = i \ {op} /\ total' = total + opcodes[op].count
      /\ categories' = [categories EXCEPT ![c0] = update_opcode(@, opcodes[op])]
      /\ UNCHANGED <<opcodes, kind, file, bin, cumulative, cleared>>
  BY DEF ReadOpcode, op, c0
<1>5. \A c \in Category : categories'[c] = IF c = c0 THEN update_opcode(categories[c], opcodes[op])
                                                     ELSE categories[c]
  BY <1>0, <1>3, <1>4 DEF WidthsType
<1>6. \A c \in Category : IsRow(categories[c]) /\ IsRow(categories'[c])
  BY <1>0, <1>2, <1>5, UpdateRow DEF WidthsType
<1>7. WidthsType'
  <2>1. categories' = [c \in Category |-> categories'[c]]
    BY <1>0, <1>4 DEF WidthsType
  <2> QED
    BY <1>0, <1>4, <1>6, <2>1 DEF WidthsType
<1>8. RowsRead' = RowsRead \cup {op} /\ op \notin RowsRead
  BY <1>1, <1>2, <1>4 DEF RowsRead
<1>9. IsFiniteSet(RowsRead)
  BY <1>0, Finite, FS_Subset DEF RowsRead, WidthsType
<1>10. Sum([c \in Category |-> categories'[c].count], Category) = total'
  <2> DEFINE f == [c \in Category |-> categories[c].count]
             g == [c \in Category |-> categories'[c].count]
  <2>1. \A c \in Category : f[c] \in Int /\ g[c] \in Int
    BY <1>6 DEF IsRow
  <2>2. \A c \in Category \ {c0} : f[c] = g[c]
    BY <1>5
  <2>3. g[c0] = f[c0] + opcodes[op].count
    BY <1>2, <1>3, <1>5, <1>6, UpdateRow
  <2>4. Sum(f, Category) = total
    BY <1>0 DEF CategoriesAddUp
  <2>5. opcodes[op].count \in Int /\ f[c0] \in Int
    BY <1>2, <1>3, <2>1 DEF IsRow
  <2> HIDE DEF f, g
  <2>6. Sum(g, Category) = Sum(f, Category) + (g[c0] - f[c0])
    BY <1>3, <2>1, <2>2, Finite, SumChange
  <2>7. Sum(f, Category) \in Int
    BY <2>1, Finite, SumType
  <2>8. Sum(g, Category) = total'
    BY <1>4, <2>3, <2>4, <2>5, <2>6, <2>7
  <2> QED
    BY <2>8 DEF g
<1>11. ASSUME NEW h \in Histogram, NEW b \in Bin
       PROVE  Sum([c \in Category |-> categories'[c].bins[h][b]], Category)
                = Sum([o \in DOMAIN opcodes' |-> opcodes'[o].bins[h][b]], RowsRead')
  <2> DEFINE f == [c \in Category |-> categories[c].bins[h][b]]
             g == [c \in Category |-> categories'[c].bins[h][b]]
             r == [o \in DOMAIN opcodes |-> opcodes[o].bins[h][b]]
  <2>1. \A c \in Category : f[c] \in Int /\ g[c] \in Int
    BY <1>6 DEF IsRow
  <2>2. \A c \in Category \ {c0} : f[c] = g[c]
    BY <1>5
  <2>3. g[c0] = f[c0] + r[op]
    BY <1>2, <1>3, <1>5, <1>6, UpdateRow
  <2>4. Sum(f, Category) = Sum(r, RowsRead)
    BY <1>0 DEF CategoriesAddUp
  <2>5. \A o \in RowsRead \cup {op} : r[o] \in Int
    <3>1. \A o \in DOMAIN opcodes : opcodes[o].bins \in [Histogram -> [Bin -> Nat]]
      BY <1>0, RowAssumption DEF WidthsType, IsRow
    <3>2. \A o \in RowsRead \cup {op} : o \in DOMAIN opcodes
      BY <1>2 DEF RowsRead
    <3> QED
      BY <3>1, <3>2
  <2>6. [o \in DOMAIN opcodes' |-> opcodes'[o].bins[h][b]] = r
    BY <1>4
  <2> HIDE DEF f, g, r
  <2>7. Sum(g, Category) = Sum(f, Category) + (g[c0] - f[c0])
    BY <1>3, <2>1, <2>2, Finite, SumChange
  <2>8. Sum(r, RowsRead \cup {op}) = r[op] + Sum(r, RowsRead)
    BY <1>8, <1>9, <2>5, SumInsert
  <2>9. Sum(r, RowsRead) \in Int /\ r[op] \in Int /\ f[c0] \in Int
    BY <1>3, <1>9, <2>1, <2>5, SumType
  <2>10. Sum(g, Category) = Sum(r, RowsRead')
    BY <1>8, <2>3, <2>4, <2>7, <2>8, <2>9
  <2> QED
    BY <2>6, <2>10 DEF g
<1> QED
  BY <1>0, <1>7, <1>10, <1>11 DEF WidthsInv, CategoriesAddUp

\* All rows are read when there is none left.
LEMMA AllRead == ASSUME i = {} PROVE RowsRead = DOMAIN opcodes
BY DEF RowsRead

\* A printed column is a row of one kind or the other.
LEMMA RowOfColumn ==
  ASSUME WidthsType, pc = "print", NEW col \in DOMAIN cumulative
  PROVE  IsRow(Row(col))
<1>1. CASE kind = "opcode"
  BY <1>1, RowAssumption DEF WidthsType, Row
<1>2. CASE kind = "category"
  BY <1>2 DEF WidthsType, Row
<1> QED
  BY <1>1, <1>2 DEF WidthsType

\* The sum of no bins.
LEMMA NoBins == \A f : Sum(f, 0 .. 0 - 1) = 0
<1>1. 0 .. 0 - 1 = {}
  OBVIOUS
<1> QED
  BY <1>1, SumEmpty

\* What is added up of the rows stays when neither the rows nor i change.
LEMMA RowsUnchanged ==
  ASSUME WidthsType, CategoriesAddUp, UNCHANGED <<i, total, opcodes, categories>>
  PROVE  /\ CategoriesAddUp'
         /\ DOMAIN opcodes' \subseteq Opcode
         /\ \A op \in DOMAIN opcodes' : opcodes'[op] \in RowValue
         /\ i' \subseteq DOMAIN opcodes'
         /\ categories' = [c \in Category |-> categories'[c]]
         /\ \A c \in Category : IsRow(categories'[c])
<1>1. RowsRead' = RowsRead
  BY DEF RowsRead
<1>2. CategoriesAddUp'
  BY <1>1 DEF CategoriesAddUp
<1> QED
  BY <1>2 DEF WidthsType

\* The loop over opcodes.tbl ends when it has no rows left.
LEMMA OpcodesReadWidths ==
  ASSUME WidthsInv, OpcodesRead
  PROVE  WidthsInv'
<1>1. /\ WidthsType /\ CategoriesAddUp /\ i = {} /\ pc = "opcodes" /\ pc' = "clear"
      /\ UNCHANGED <<i, total, opcodes, categories, kind, file, bin, cumulative, cleared>>
  BY DEF OpcodesRead, WidthsInv, InWidths, widths
<1>2. WidthsType'
  BY <1>1, RowsUnchanged DEF WidthsType
<1> QED
  BY <1>1, <1>2, RowsUnchanged DEF WidthsInv

\* A cleared entry is the sum of no bins.
LEMMA ClearOpcodesWidths ==
  ASSUME WidthsInv, ClearOpcodes
  PROVE  WidthsInv'
<1>1. /\ WidthsType /\ CategoriesAddUp /\ pc = "clear" /\ pc' = "print" /\ kind = "opcode"
      /\ UNCHANGED <<i, total, opcodes, categories, kind, file, bin, cleared>>
      /\ cumulative' = [op \in DOMAIN opcodes |-> 0]
  BY DEF ClearOpcodes, WidthsInv, InWidths
<1>2. WidthsType'
  BY <1>1, RowsUnchanged DEF WidthsType
<1>3. bin' = 0
  BY <1>1 DEF WidthsType
<1>4. \A col \in DOMAIN cumulative' : \A f : cumulative'[col] = Sum(f, 0 .. bin' - 1)
  BY <1>1, <1>3, NoBins
<1>5. CumulativeSoFar'
  BY <1>4 DEF CumulativeSoFar
<1> QED
  BY <1>1, <1>2, <1>5, RowsUnchanged DEF WidthsInv

\* What is not cleared is not claimed to be a sum.
LEMMA ClearCategoriesWidths ==
  ASSUME WidthsInv, ClearCategories
  PROVE  WidthsInv'
<1>1. /\ WidthsType /\ CategoriesAddUp /\ pc = "clear" /\ pc' \in {"print", "crashed"}
      /\ kind = "category" /\ UNCHANGED <<i, total, opcodes, categories, kind, file, bin>>
      /\ cleared' = ClearedCategories
  BY DEF ClearCategories, WidthsInv, InWidths
<1>2. PICK g \in [Category -> Garbage] :
        cumulative' = [c \in Category |-> IF c \in ClearedCategories THEN 0 ELSE g[c]]
  BY DEF ClearCategories
<1>3. ASSUME pc' = "print" PROVE WidthsType'
  BY <1>1, <1>2, <1>3, RowsUnchanged DEF WidthsType
<1>4. bin' = 0
  BY <1>1 DEF WidthsType
<1>5. \A col \in DOMAIN cumulative' : \A f :
        col \in cleared' => cumulative'[col] = Sum(f, 0 .. bin' - 1)
  BY <1>1, <1>2, <1>4, NoBins
<1>6. CumulativeSoFar'
  BY <1>1, <1>5 DEF CumulativeSoFar
<1> QED
  BY <1>1, <1>3, <1>6, RowsUnchanged DEF WidthsInv, InWidths

\* A line adds its bin to the columns that have samples.
LEMMA PrintLineWidths ==
  ASSUME WidthsInv, PrintLine
  PROVE  WidthsInv'
<1>1. /\ WidthsType /\ CategoriesAddUp /\ CumulativeSoFar /\ pc = "print" /\ pc' = "print"
      /\ bin < BINS /\ bin' = bin + 1
      /\ UNCHANGED <<i, total, opcodes, categories, kind, file, cleared>>
      /\ cumulative' = [col \in DOMAIN cumulative |->
                          IF SumOf(col) > 0
                          THEN cumulative[col] + Row(col).bins[File[file]][bin]
                          ELSE cumulative[col]]
  BY DEF PrintLine, WidthsInv, InWidths
<1>2. bin \in Nat /\ bin' \in 0 .. BINS /\ bin \in Bin /\ 0 .. bin' - 1 = (0 .. bin - 1) \cup {bin}
      /\ bin \notin 0 .. bin - 1 /\ 0 .. bin' - 1 \subseteq Bin
  BY <1>1, TablesAssumption DEF WidthsType, Bin
<1>3. WidthsType'
  BY <1>1, <1>2, RowsUnchanged DEF WidthsType
<1>4. ASSUME NEW col \in DOMAIN cumulative, SumOf(col) > 0,
             kind = "category" => col \in cleared
      PROVE  cumulative'[col] = Sum(Row(col).bins[File[file]], 0 .. bin' - 1)
  <2> DEFINE f == Row(col).bins[File[file]]
  <2>1. File[file] \in Histogram
    BY <1>1 DEF WidthsType, File, Histogram
  <2>2. f \in [Bin -> Nat]
    BY <1>1, <2>1, RowOfColumn DEF IsRow
  <2>3. cumulative[col] = Sum(f, 0 .. bin - 1) /\ cumulative'[col] = cumulative[col] + f[bin]
    BY <1>1, <1>4 DEF CumulativeSoFar
  <2> HIDE DEF f
  <2>0. \A b \in Bin : f[b] \in Int
    BY <2>2
  <2>4. /\ \A b \in (0 .. bin - 1) \cup {bin} : f[b] \in Int
        /\ \A b \in 0 .. bin - 1 : f[b] \in Int
        /\ f[bin] \in Int
    <3>1. (0 .. bin - 1) \cup {bin} \subseteq Bin
      BY <1>2, Zenon
    <3> QED
      BY <2>0, <3>1
  <2>5. IsFiniteSet(0 .. bin - 1)
    BY <1>2, FS_Interval
  <2>6. Sum(f, (0 .. bin - 1) \cup {bin}) = f[bin] + Sum(f, 0 .. bin - 1)
    BY <1>2, <2>4, <2>5, SumInsert
  <2>7. Sum(f, 0 .. bin - 1) \in Int
    BY <2>4, <2>5, SumType
  <2>8. Sum(f, 0 .. bin' - 1) = f[bin] + Sum(f, 0 .. bin - 1)
    BY <1>2, <2>6
  <2>9. cumulative'[col] = Sum(f, 0 .. bin' - 1)
    BY <2>3, <2>4, <2>7, <2>8
  <2> QED
    BY <2>9 DEF f
<1>5. \A col : Row(col)' = Row(col) /\ SumOf(col)' = SumOf(col)
  BY <1>1 DEF Row, SumOf, SumOfBins
<1>6. DOMAIN cumulative' = DOMAIN cumulative
  BY <1>1
<1>7. CumulativeSoFar'
  BY <1>1, <1>4, <1>5, <1>6 DEF CumulativeSoFar
<1> QED
  BY <1>1, <1>3, <1>7, RowsUnchanged DEF WidthsInv

\* The next file starts from the first bin.
LEMMA NextFileWidths ==
  ASSUME WidthsInv, NextFile
  PROVE  WidthsInv'
<1>1. /\ WidthsType /\ CategoriesAddUp /\ pc = "print" /\ pc' = "clear" /\ bin' = 0
      /\ UNCHANGED <<i, total, opcodes, categories>>
  BY DEF NextFile, FileWritten, WidthsInv, InWidths
<1>2. kind' \in {"opcode", "category"} /\ file' \in 1 .. 4
  <2>1. Len(File) = 4 /\ file \in 1 .. 4 /\ kind \in {"opcode", "category"}
    BY <1>1 DEF WidthsType, File
  <2> QED
    BY <2>1 DEF NextFile
<1>3. 0 \in 0 .. BINS
  BY TablesAssumption
<1>4. WidthsType'
  BY <1>1, <1>2, <1>3, RowsUnchanged DEF WidthsType
<1> QED
  BY <1>1, <1>4, RowsUnchanged DEF WidthsInv

\* The sections behind have no claim on the histograms.
LEMMA LaterWidths ==
  ASSUME OpenInstrs \/ SkipRow \/ LookUp \/ Sort \/ PrintInstruction \/ OpenMemory
         \/ ReadMemory \/ Crash \/ MemoryRead \/ Average \/ WriteMemory
  PROVE  WidthsInv'
<1>1. ~InWidths'
  BY DEF OpenInstrs, SkipRow, LookUp, Sort, PrintInstruction, OpenMemory, ReadMemory,
         Crash, MemoryRead, Average, WriteMemory, InWidths
<1> QED
  BY <1>1 DEF WidthsInv

\* The invariant of the histograms.
LEMMA WidthsInvariant == Spec => []WidthsInv
<1>1. ASSUME WidthsInv, [Next]_vars PROVE WidthsInv'
  <2>1. CASE ReadOpcode  BY <1>1, <2>1, ReadOpcodeWidths
  <2>2. CASE OpcodesRead  BY <1>1, <2>2, OpcodesReadWidths
  <2>3. CASE ClearOpcodes  BY <1>1, <2>3, ClearOpcodesWidths
  <2>4. CASE ClearCategories  BY <1>1, <2>4, ClearCategoriesWidths
  <2>5. CASE PrintLine  BY <1>1, <2>5, PrintLineWidths
  <2>6. CASE NextFile  BY <1>1, <2>6, NextFileWidths
  <2>7. CASE OpenInstrs \/ SkipRow \/ LookUp \/ Sort \/ PrintInstruction \/ OpenMemory
             \/ ReadMemory \/ Crash \/ MemoryRead \/ Average \/ WriteMemory
    BY <2>7, LaterWidths
  <2>8. CASE UNCHANGED vars
    <3>1. UNCHANGED <<pc, i, total, opcodes, categories, kind, file, bin, cumulative, cleared>>
      BY <2>8 DEF vars, widths
    <3>2. \A col : Row(col)' = Row(col) /\ SumOf(col)' = SumOf(col)
      BY <3>1 DEF Row, SumOf, SumOfBins
    <3>3. CumulativeSoFar => CumulativeSoFar'
      BY <3>1, <3>2 DEF CumulativeSoFar
    <3>4. WidthsType => WidthsType'
      BY <3>1 DEF WidthsType
    <3> QED
      BY <1>1, <3>1, <3>3, <3>4, RowsUnchanged DEF WidthsInv, InWidths
  <2> QED
    BY <1>1, <2>1, <2>2, <2>3, <2>4, <2>5, <2>6, <2>7, <2>8 DEF Next
<1> QED
  BY <1>1, InitWidths, PTL DEF Spec

(***************************************************************************)
(* The cells of category_usage.tsv add up to their denominator, for any    *)
(* opcodes and any categories, and in no category are there more memory    *)
(* accesses than instructions.                                             *)
(***************************************************************************)
THEOREM UsageTheorem == Spec => []UsageAddsUp
<1>1. WidthsInv => UsageAddsUp
  BY DEF WidthsInv, InWidths, WidthsType, CategoriesAddUp, UsageAddsUp, IsRow
<1> QED
  BY <1>1, WidthsInvariant, PTL

(***************************************************************************)
(* The files by category hold the samples of the files by opcode.          *)
(***************************************************************************)
THEOREM KindsTheorem == Spec => []KindsAgree
<1>1. ASSUME WidthsInv, pc \in {"clear", "print"} PROVE KindsAgree
  <2>1. i = {} /\ CategoriesAddUp
    BY <1>1 DEF WidthsInv, InWidths, WidthsType
  <2>2. RowsRead = DOMAIN opcodes
    BY <2>1, AllRead
  <2> QED
    BY <2>1, <2>2 DEF CategoriesAddUp, KindsAgree
<1>2. WidthsInv => KindsAgree
  BY <1>1 DEF KindsAgree
<1> QED
  BY <1>2, WidthsInvariant, PTL

(***************************************************************************)
(* A cumulative column that was cleared ends at its denominator, which for *)
(* the second significand width is the sum of the first.                   *)
(***************************************************************************)
THEOREM CumulativeTheorem == Spec => []CumulativeEndsAtOne
<1>1. ASSUME WidthsInv, FileWritten, NEW col \in DOMAIN cumulative, SumOf(col) > 0,
             kind = "category" => col \in cleared
      PROVE  cumulative[col] = SumOf(col)
  <2>1. WidthsType /\ CumulativeSoFar /\ pc = "print" /\ bin = BINS
    BY <1>1 DEF WidthsInv, InWidths, FileWritten
  <2>2. 0 .. bin - 1 = Bin
    BY <2>1 DEF Bin
  <2>3. cumulative[col] = Sum(Row(col).bins[File[file]], Bin)
    BY <1>1, <2>1, <2>2 DEF CumulativeSoFar
  <2>4. CASE File[file] = "sig_m"
    BY <2>1, <2>3, <2>4, RowOfColumn DEF IsRow, SumOf, SumOfBins
  <2>5. CASE File[file] # "sig_m"
    BY <2>3, <2>5 DEF SumOf, SumOfBins
  <2> QED
    BY <2>4, <2>5
<1>2. WidthsInv => CumulativeEndsAtOne
  BY <1>1 DEF CumulativeEndsAtOne
<1> QED
  BY <1>2, WidthsInvariant, PTL

(***************************************************************************)
(* The join of instrs.tbl and image.tbl, and block.tsv.                    *)
(***************************************************************************)
InLines == pc \in {"join", "block.tsv"}

Instruction == [addr : Addr, count : 1 .. MAX_COUNT, row : Addr \cup {NoRow}]

LookedUp == DOMAIN instrs \ i

LinesType ==
  /\ DOMAIN instrs \subseteq Addr
  /\ \A a \in DOMAIN instrs : instrs[a] \in 1 .. MAX_COUNT
  /\ i \subseteq DOMAIN instrs
  /\ image \subseteq Addr /\ j \subseteq image
  /\ data \in Seq(Instruction)

\* data[] has the instructions looked up, each once and with its count.
DataAreLookedUp ==
  /\ \A n \in DOMAIN data : /\ data[n].addr \in LookedUp
                            /\ data[n].count = instrs[data[n].addr]
  /\ \A a \in LookedUp : \E n \in DOMAIN data : data[n].addr = a
  /\ \A m, n \in DOMAIN data : data[m].addr = data[n].addr => m = n
  /\ total = Sum(instrs, LookedUp)

\* The rows that iterator j has passed are of no use to the instructions left.
PassedRowsAreBehind == \A a \in image \ j, b \in i : a < b

ByCount == \A n \in DOMAIN data : \A m \in 1 .. n - 1 : data[m].count <= data[n].count

\* The addresses of the first k lines.
Lines(k) == {data[n].addr : n \in Len(data) - k + 1 .. Len(data)}

PrintedSoFar ==
  /\ i = {} /\ ByCount
  /\ Len(printed) \in 0 .. Len(data)
  /\ curr = Sum(instrs, Lines(Len(printed)))

LinesInv ==
  /\ EveryRowIsFound
  /\ ~InLines => data = <<>>
  /\ InLines => LinesType /\ DataAreLookedUp
  /\ pc = "join" => PassedRowsAreBehind
  /\ pc # "block.tsv" => curr = 0 /\ printed = <<>>
  /\ pc = "block.tsv" => PrintedSoFar

\* A set of addresses that are left has a least one.
LEMMA LeastAddr ==
  ASSUME NEW S \in SUBSET Addr, S # {}
  PROVE  Min(S) \in S /\ \A y \in S : Min(S) <= y
<1>1. S \in SUBSET Nat
  BY TablesAssumption
<1> QED
  BY <1>1, Least

\* Nothing is looked up before the join.
LEMMA InitLines == Init => LinesInv
BY DEF Init, LinesInv, InLines, EveryRowIsFound

\* The pass begins with all instructions and all rows.
LEMMA OpenInstrsLines ==
  ASSUME LinesInv, OpenInstrs
  PROVE  LinesInv'
<1>1. /\ pc = "print" /\ pc' = "join" /\ i' = DOMAIN instrs' /\ j' = image' /\ image' \in SUBSET Addr
      /\ total' = 0 /\ UNCHANGED <<data, curr, printed>>
  BY DEF OpenInstrs, FileWritten
<1>2. PICK S \in SUBSET Addr : instrs' \in [S -> 1 .. MAX_COUNT]
  BY DEF OpenInstrs
<1>3. data' = <<>> /\ curr' = 0 /\ printed' = <<>>
  BY <1>1 DEF LinesInv, InLines
<1>4. LookedUp' = {}
  BY <1>1 DEF LookedUp
<1>5. DataAreLookedUp'
  <2>1. Sum(instrs', {}) = 0
    BY SumEmpty
  <2> QED
    BY <1>1, <1>3, <1>4, <2>1 DEF DataAreLookedUp
<1>6. LinesType'
  BY <1>1, <1>2, <1>3 DEF LinesType
<1> QED
  BY <1>1, <1>3, <1>5, <1>6 DEF LinesInv, InLines, EveryRowIsFound, PassedRowsAreBehind

\* The row passed over is behind the least instruction left, so behind all.
LEMMA SkipRowLines ==
  ASSUME LinesInv, SkipRow
  PROVE  LinesInv'
<1>1. /\ pc = "join" /\ pc' = "join" /\ i # {} /\ j # {} /\ Min(j) < Min(i)
      /\ j' = j \ {Min(j)} /\ UNCHANGED <<i, total, instrs, image, data, curr, printed>>
  BY DEF SkipRow, Behind
<1>2. LinesType /\ DataAreLookedUp /\ PassedRowsAreBehind
  BY <1>1 DEF LinesInv, InLines
<1>3. LinesType'
  BY <1>1, <1>2 DEF LinesType
<1>4. DataAreLookedUp'
  BY <1>1, <1>2 DEF DataAreLookedUp, LookedUp
<1>5. PassedRowsAreBehind'
  <2>1. i \in SUBSET Addr /\ j \in SUBSET Addr /\ Addr \subseteq Nat
    BY <1>2, TablesAssumption DEF LinesType
  <2>2. \A b \in i : Min(j) < b
    <3>1. Min(i) \in i /\ \A b \in i : Min(i) <= b
      BY <1>1, <2>1, LeastAddr
    <3>2. Min(j) \in j
      BY <1>1, <2>1, LeastAddr
    <3>3. Min(i) \in Nat /\ Min(j) \in Nat /\ \A b \in i : b \in Nat
      BY <2>1, <3>1, <3>2
    <3> QED
      BY <1>1, <3>1, <3>3
  <2> QED
    BY <1>1, <1>2, <2>2 DEF PassedRowsAreBehind
<1>6. EveryRowIsFound'
  BY <1>1 DEF LinesInv, EveryRowIsFound
<1> QED
  BY <1>1, <1>3, <1>4, <1>5, <1>6 DEF LinesInv, InLines

\* A row that was not passed is where iterator j stops.
LEMMA LookUpLines ==
  ASSUME LinesInv, LookUp
  PROVE  LinesInv'
<1> DEFINE addr == Min(i)
<1>1. /\ pc = "join" /\ pc' = "join" /\ i # {} /\ (j # {} => ~(Min(j) < addr))
      /\ total' = total + instrs[addr] /\ i' = i \ {addr}
      /\ UNCHANGED <<instrs, image, j, curr, printed>>
  BY DEF LookUp, Behind
<1>2. LinesType /\ DataAreLookedUp /\ PassedRowsAreBehind /\ EveryRowIsFound
  BY <1>1 DEF LinesInv, InLines
<1>3. PICK key \in KeyAt :
        data' = Append(data, [addr |-> addr, count |-> instrs[addr],
                              row |-> IF key = addr THEN key ELSE NoRow])
  BY DEF LookUp
<1>4. addr \in i /\ addr \in DOMAIN instrs /\ addr \in Addr /\ Addr \subseteq Nat
  <2>1. i \in SUBSET Addr
    BY <1>2 DEF LinesType
  <2> QED
    BY <1>1, <1>2, <2>1, LeastAddr, TablesAssumption DEF LinesType
<1>5. j # {} => Min(j) \in j /\ Min(j) \in Nat /\ \A y \in j : Min(j) <= y
  <2>1. j \in SUBSET Addr
    BY <1>2 DEF LinesType
  <2> QED
    BY <1>4, <2>1, LeastAddr
<1> HIDE DEF addr
<1>6. ASSUME addr \in image PROVE key = addr
  <2>1. addr \in j
    <3>1. ~(addr < addr)
      BY <1>4
    <3> QED
      BY <1>2, <1>4, <1>6, <3>1 DEF PassedRowsAreBehind
  <2>2. Min(j) = addr
    BY <1>1, <1>4, <1>5, <2>1
  <2> QED
    BY <1>3, <2>1, <2>2 DEF KeyAt
<1> DEFINE new == [addr |-> addr, count |-> instrs[addr],
                   row |-> IF key = addr THEN key ELSE NoRow]
<1>7. new \in Instruction
  BY <1>2, <1>4 DEF LinesType, Instruction
<1>8. /\ new.addr = addr /\ new.count = instrs[addr]
      /\ (addr \in image => new.row = addr)
  BY <1>6
<1> HIDE DEF new
<1>9. /\ data \in Seq(Instruction) /\ data' \in Seq(Instruction)
      /\ DOMAIN data = 1 .. Len(data) /\ Len(data) \in Nat
      /\ DOMAIN data' = 1 .. Len(data) + 1
      /\ \A n \in 1 .. Len(data) : data'[n] = data[n]
      /\ data'[Len(data) + 1] = new
  <2>1. data \in Seq(Instruction) /\ data' = Append(data, new)
    BY <1>2, <1>3 DEF LinesType, new
  <2> QED
    BY <1>7, <2>1, AppendProperties, LenProperties
<1>10. LinesType'
  BY <1>1, <1>2, <1>9 DEF LinesType
<1>11. LookedUp' = LookedUp \cup {addr} /\ addr \notin LookedUp
  BY <1>1, <1>4 DEF LookedUp
<1>12. DataAreLookedUp'
  <2>1. \A n \in DOMAIN data' : /\ data'[n].addr \in LookedUp'
                                /\ data'[n].count = instrs'[data'[n].addr]
    BY <1>1, <1>2, <1>8, <1>9, <1>11 DEF DataAreLookedUp
  <2>2. \A a \in LookedUp' : \E n \in DOMAIN data' : data'[n].addr = a
    <3>1. Len(data) + 1 \in DOMAIN data' /\ DOMAIN data \subseteq DOMAIN data'
      BY <1>9
    <3> QED
      BY <1>2, <1>8, <1>9, <1>11, <3>1 DEF DataAreLookedUp
  <2>3. \A m, n \in DOMAIN data' : data'[m].addr = data'[n].addr => m = n
    BY <1>2, <1>8, <1>9, <1>11 DEF DataAreLookedUp
  <2>4. total' = Sum(instrs', LookedUp')
    <3>1. LookedUp \in SUBSET Addr
      BY <1>2 DEF LookedUp, LinesType
    <3>2. IsFiniteSet(LookedUp)
      BY <3>1, TablesAssumption, FS_Subset
    <3>3. \A a \in LookedUp \cup {addr} : instrs[a] \in Int
      BY <1>2, <1>4, TablesAssumption DEF LookedUp, LinesType
    <3>4. Sum(instrs, LookedUp \cup {addr}) = instrs[addr] + Sum(instrs, LookedUp)
      BY <1>11, <3>2, <3>3, SumInsert
    <3>5. Sum(instrs, LookedUp) \in Int
      BY <3>2, <3>3, SumType
    <3>6. total = Sum(instrs, LookedUp)
      BY <1>2 DEF DataAreLookedUp
    <3> QED
      BY <1>1, <1>11, <3>3, <3>4, <3>5, <3>6
  <2> QED
    BY <2>1, <2>2, <2>3, <2>4 DEF DataAreLookedUp
<1>13. PassedRowsAreBehind'
  BY <1>1, <1>2 DEF PassedRowsAreBehind
<1>14. EveryRowIsFound'
  BY <1>1, <1>2, <1>8, <1>9 DEF EveryRowIsFound
<1> QED
  BY <1>1, <1>10, <1>12, <1>13, <1>14 DEF LinesInv, InLines

\* Any order a sort may leave has the same instructions, by count.
LEMMA SortLines ==
  ASSUME LinesInv, Sort
  PROVE  LinesInv'
<1>1. /\ pc = "join" /\ pc' = "block.tsv" /\ i = {}
      /\ UNCHANGED <<i, total, instrs, image, j, curr, printed>>
  BY DEF Sort
<1>2. LinesType /\ DataAreLookedUp /\ EveryRowIsFound /\ curr = 0 /\ printed = <<>>
  BY <1>1 DEF LinesInv, InLines
<1>3. PICK q \in Bijection(DOMAIN data, DOMAIN data) : data' = [n \in DOMAIN data |-> data[q[n]]]
  BY DEF Sort, SortedLines, Rearranged
<1>4. \A n \in DOMAIN data' : \A m \in 1 .. n - 1 : ~Less(data'[n], data'[m])
  BY DEF Sort, SortedLines, Rearranged
<1>5. /\ q \in [DOMAIN data -> DOMAIN data]
      /\ \A x \in DOMAIN data, y \in DOMAIN data : q[x] = q[y] => x = y
      /\ \A y \in DOMAIN data : \E x \in DOMAIN data : q[x] = y
  BY DEF Bijection, Injection, Surjection, IsInjective
<1>6. /\ data \in Seq(Instruction) /\ Len(data) \in Nat /\ DOMAIN data = 1 .. Len(data)
      /\ \A n \in DOMAIN data : data[n] \in Instruction
  BY <1>2, LenProperties, ElementOfSeq DEF LinesType
<1>7. DOMAIN data' = DOMAIN data /\ \A n \in DOMAIN data : q[n] \in DOMAIN data /\ data'[n] = data[q[n]]
  BY <1>3, <1>5
<1>8. data' \in Seq(Instruction) /\ Len(data') = Len(data)
  <2>1. data' \in [1 .. Len(data) -> Instruction]
    BY <1>3, <1>5, <1>6
  <2> QED
    BY <1>6, <2>1
<1>9. LinesType'
  BY <1>1, <1>2, <1>8 DEF LinesType
<1>10. DataAreLookedUp'
  <2>1. LookedUp' = LookedUp
    BY <1>1 DEF LookedUp
  <2>2. \A n \in DOMAIN data' : /\ data'[n].addr \in LookedUp'
                                /\ data'[n].count = instrs'[data'[n].addr]
    BY <1>1, <1>2, <1>7, <2>1 DEF DataAreLookedUp
  <2>3. \A a \in LookedUp' : \E n \in DOMAIN data' : data'[n].addr = a
    <3> SUFFICES ASSUME NEW a \in LookedUp PROVE \E n \in DOMAIN data : data'[n].addr = a
      BY <1>7, <2>1
    <3>1. PICK y \in DOMAIN data : data[y].addr = a
      BY <1>2 DEF DataAreLookedUp
    <3>2. PICK x \in DOMAIN data : q[x] = y
      BY <1>5
    <3> QED
      BY <1>7, <3>1, <3>2
  <2>4. \A m, n \in DOMAIN data' : data'[m].addr = data'[n].addr => m = n
    BY <1>2, <1>5, <1>7 DEF DataAreLookedUp
  <2> QED
    BY <1>1, <1>2, <2>1, <2>2, <2>3, <2>4 DEF DataAreLookedUp
<1>11. EveryRowIsFound'
  BY <1>1, <1>2, <1>7 DEF EveryRowIsFound
<1>12. ByCount'
  <2>1. \A n \in DOMAIN data' : data'[n].count \in Nat
    <3>1. \A x \in Instruction : x.count \in Nat
      BY TablesAssumption DEF Instruction
    <3>2. \A n \in DOMAIN data' : data'[n] \in Instruction
      BY <1>6, <1>7
    <3> QED
      BY <3>1, <3>2
  <2>2. \A n \in DOMAIN data' : 1 .. n - 1 \subseteq DOMAIN data'
    BY <1>6, <1>7
  <2> QED
    BY <1>4, <2>1, <2>2 DEF ByCount, Less
<1>13. PrintedSoFar'
  <2>1. Len(printed') = 0 /\ 0 \in 0 .. Len(data')
    BY <1>1, <1>2, <1>6, <1>8
  <2>2. Len(data') - 0 + 1 .. Len(data') = {}
    BY <1>6, <1>8
  <2>3. Lines(Len(printed))' = {}
    BY <2>1, <2>2 DEF Lines
  <2>4. Sum(instrs', {}) = 0
    BY SumEmpty
  <2> QED
    BY <1>1, <1>2, <1>12, <2>1, <2>3, <2>4 DEF PrintedSoFar
<1> QED
  BY <1>1, <1>9, <1>10, <1>11, <1>13 DEF LinesInv, InLines

\* data[] is a sequence of rows, each of an instruction looked up.
LEMMA DataType ==
  ASSUME LinesType, DataAreLookedUp
  PROVE  /\ Len(data) \in Nat /\ DOMAIN data = 1 .. Len(data)
         /\ \A n \in DOMAIN data : /\ data[n].addr \in LookedUp
                                   /\ data[n].count = instrs[data[n].addr]
                                   /\ data[n].count \in Nat
         /\ IsFiniteSet(LookedUp) /\ IsFiniteSet(DOMAIN instrs)
         /\ LookedUp \subseteq DOMAIN instrs
         /\ \A a \in DOMAIN instrs : instrs[a] \in Nat
<1>1. Len(data) \in Nat /\ DOMAIN data = 1 .. Len(data)
  BY LenProperties DEF LinesType
<1>2. \A a \in DOMAIN instrs : instrs[a] \in Nat
  BY TablesAssumption DEF LinesType
<1>3. IsFiniteSet(DOMAIN instrs)
  BY TablesAssumption, FS_Subset DEF LinesType
<1>4. LookedUp \subseteq DOMAIN instrs /\ IsFiniteSet(LookedUp)
  BY <1>3, FS_Subset DEF LookedUp
<1>5. \A n \in DOMAIN data : data[n].addr \in LookedUp /\ data[n].count = instrs[data[n].addr]
  BY DEF DataAreLookedUp
<1> QED
  BY <1>1, <1>2, <1>3, <1>4, <1>5

\* The first k lines are of k instructions.
LEMMA LinesAreInstructions ==
  ASSUME LinesType, DataAreLookedUp, NEW k \in 0 .. Len(data)
  PROVE  Lines(k) \in SUBSET LookedUp /\ IsFiniteSet(Lines(k)) /\ Cardinality(Lines(k)) = k
<1> DEFINE N == Len(data) - k + 1 .. Len(data)
           f == [n \in N |-> data[n].addr]
<1>1. k \in Nat /\ Len(data) \in Nat /\ N \subseteq DOMAIN data
  BY DataType
<1>2. IsFiniteSet(N) /\ Cardinality(N) = k
  BY <1>1, FS_Interval
<1>3. Lines(k) \in SUBSET LookedUp
  BY <1>1, DataType DEF Lines
<1>4. f \in Bijection(N, Lines(k))
  <2>1. f \in [N -> Lines(k)]
    BY DEF Lines
  <2>2. \A m, n \in N : f[m] = f[n] => m = n
    BY <1>1 DEF DataAreLookedUp
  <2>3. \A a \in Lines(k) : \E n \in N : f[n] = a
    BY DEF Lines
  <2> HIDE DEF f, N
  <2> QED
    BY <2>1, <2>2, <2>3, Fun_IsBij
<1>5. ExistsBijection(N, Lines(k))
  BY <1>4 DEF ExistsBijection
<1> HIDE DEF N
<1> QED
  BY <1>2, <1>3, <1>5, FS_Bijection

\* One line more is of one instruction more.
LEMMA PrintInstructionLines ==
  ASSUME LinesInv, PrintInstruction
  PROVE  LinesInv'
<1> DEFINE k == Len(printed)
           d == data[Len(data) - k]
<1>1. /\ pc = "block.tsv" /\ pc' = "block.tsv" /\ k < Len(data)
      /\ curr' = curr + d.count /\ printed' = Append(printed, d.addr)
      /\ UNCHANGED <<i, total, instrs, image, j, data>>
  BY DEF PrintInstruction
<1>2. LinesType /\ DataAreLookedUp /\ EveryRowIsFound /\ PrintedSoFar
  BY <1>1 DEF LinesInv, InLines
<1>3. k \in Nat /\ Len(data) \in Nat /\ Len(data) - k \in DOMAIN data /\ DOMAIN data = 1 .. Len(data)
  BY <1>1, <1>2, DataType DEF PrintedSoFar
<1>4. Len(printed') = k + 1
  BY <1>1
<1> HIDE DEF k
<1>5. Len(data) - (k + 1) + 1 .. Len(data) = (Len(data) - k + 1 .. Len(data)) \cup {Len(data) - k}
  BY <1>3
<1>6. Lines(k + 1) = Lines(k) \cup {d.addr}
  BY <1>5 DEF Lines
<1>7. d.addr \notin Lines(k)
  <2> SUFFICES ASSUME NEW n \in Len(data) - k + 1 .. Len(data), data[n].addr = d.addr
               PROVE  FALSE
    BY DEF Lines
  <2> DEFINE l == Len(data)
  <2>1. l \in Nat /\ k \in Nat /\ n \in l - k + 1 .. l /\ l - k \in 1 .. l
    BY <1>3
  <2> HIDE DEF l
  <2>2. n \in 1 .. l /\ n # l - k
    BY <2>1
  <2> QED
    BY <1>2, <1>3, <2>2 DEF DataAreLookedUp, l
<1>8. d.addr \in LookedUp /\ d.count = instrs[d.addr]
  BY <1>2, <1>3, DataType
<1> HIDE DEF d
<1>9. Lines(k) \in SUBSET LookedUp /\ IsFiniteSet(Lines(k))
  BY <1>1, <1>2, <1>3, LinesAreInstructions DEF k
<1>10. \A a \in Lines(k) \cup {d.addr} : instrs[a] \in Int
  <2>1. LookedUp \subseteq DOMAIN instrs /\ \A a \in DOMAIN instrs : instrs[a] \in Nat
    BY <1>2, DataType
  <2> QED
    BY <1>8, <1>9, <2>1
<1>11. Sum(instrs, Lines(k) \cup {d.addr}) = instrs[d.addr] + Sum(instrs, Lines(k))
  BY <1>7, <1>9, <1>10, SumInsert
<1>12. Sum(instrs, Lines(k)) \in Int /\ instrs[d.addr] \in Int
  BY <1>9, <1>10, SumType
<1>13. curr' = Sum(instrs, Lines(k + 1))
  <2>1. curr = Sum(instrs, Lines(k))
    BY <1>2 DEF PrintedSoFar, k
  <2>2. Sum(instrs, Lines(k + 1)) = instrs[d.addr] + Sum(instrs, Lines(k))
    BY <1>6, <1>11, Zenon
  <2>3. curr' = curr + instrs[d.addr]
    BY <1>1, <1>8
  <2> QED
    BY <1>12, <2>1, <2>2, <2>3
<1>14. curr' = Sum(instrs', {data'[n].addr : n \in Len(data') - Len(printed') + 1 .. Len(data')})
  <2>1. Lines(k + 1) = {data'[n].addr : n \in Len(data') - Len(printed') + 1 .. Len(data')}
    BY <1>1, <1>4 DEF Lines
  <2> QED
    BY <1>1, <1>13, <2>1
<1>15. PrintedSoFar'
  <2>1. ByCount' /\ i' = {}
    BY <1>1, <1>2 DEF PrintedSoFar, ByCount
  <2>2. Len(printed') \in 0 .. Len(data')
    BY <1>1, <1>3, <1>4
  <2> QED
    BY <1>14, <2>1, <2>2 DEF PrintedSoFar, Lines
<1>16. LinesType' /\ DataAreLookedUp' /\ EveryRowIsFound'
  BY <1>1, <1>2 DEF LinesType, DataAreLookedUp, LookedUp, EveryRowIsFound
<1> QED
  BY <1>1, <1>15, <1>16 DEF LinesInv, InLines

\* The other sections have no lines.
LEMMA OtherLines ==
  ASSUME LinesInv,
         ReadOpcode \/ OpcodesRead \/ ClearOpcodes \/ ClearCategories \/ PrintLine \/ NextFile
         \/ OpenMemory \/ ReadMemory \/ Crash \/ MemoryRead \/ Average \/ WriteMemory
  PROVE  LinesInv'
<1>1. pc' \notin {"join", "block.tsv"}
  BY DEF ReadOpcode, OpcodesRead, ClearOpcodes, ClearCategories, PrintLine, NextFile,
         OpenMemory, ReadMemory, Crash, MemoryRead, Average, WriteMemory
<1>2. data' = <<>> /\ curr' = 0 /\ printed' = <<>>
  <2>1. CASE OpenMemory
    BY <2>1 DEF OpenMemory, DropLines
  <2>2. CASE ~OpenMemory
    <3>1. UNCHANGED lines /\ pc \notin {"join", "block.tsv"}
      BY <2>2 DEF ReadOpcode, OpcodesRead, ClearOpcodes, ClearCategories, PrintLine, NextFile,
           FileWritten, ReadMemory, Crash, MemoryRead, Average, WriteMemory
    <3> QED
      BY <3>1 DEF lines, LinesInv, InLines
  <2> QED
    BY <2>1, <2>2
<1> QED
  BY <1>1, <1>2 DEF LinesInv, InLines, EveryRowIsFound

\* The invariant of the lines.
LEMMA LinesInvariant == Spec => []LinesInv
<1>1. ASSUME LinesInv, [Next]_vars PROVE LinesInv'
  <2>1. CASE OpenInstrs  BY <1>1, <2>1, OpenInstrsLines
  <2>2. CASE SkipRow  BY <1>1, <2>2, SkipRowLines
  <2>3. CASE LookUp  BY <1>1, <2>3, LookUpLines
  <2>4. CASE Sort  BY <1>1, <2>4, SortLines
  <2>5. CASE PrintInstruction  BY <1>1, <2>5, PrintInstructionLines
  <2>6. CASE ReadOpcode \/ OpcodesRead \/ ClearOpcodes \/ ClearCategories \/ PrintLine \/ NextFile
             \/ OpenMemory \/ ReadMemory \/ Crash \/ MemoryRead \/ Average \/ WriteMemory
    BY <1>1, <2>6, OtherLines
  <2>7. CASE UNCHANGED vars
    <3>1. UNCHANGED <<pc, i, total, instrs, image, j, data, curr, printed>>
      BY <2>7 DEF vars, lines
    <3>2. UNCHANGED LookedUp /\ UNCHANGED ByCount /\ \A k : Lines(k)' = Lines(k)
      BY <3>1 DEF LookedUp, ByCount, Lines
    <3> QED
      BY <1>1, <3>1, <3>2 DEF LinesInv, LinesType, DataAreLookedUp, PassedRowsAreBehind,
                            PrintedSoFar, EveryRowIsFound, InLines
  <2> QED
    BY <1>1, <2>1, <2>2, <2>3, <2>4, <2>5, <2>6, <2>7 DEF Next
<1> QED
  BY <1>1, InitLines, PTL DEF Spec

(***************************************************************************)
(* One pass through both tables, never going back in image.tbl, finds the  *)
(* row of every instruction that has one.                                  *)
(***************************************************************************)
THEOREM RowsTheorem == Spec => []EveryRowIsFound
<1>1. LinesInv => EveryRowIsFound
  BY DEF LinesInv
<1> QED
  BY <1>1, LinesInvariant, PTL

(***************************************************************************)
(* No instructions are executed more often than as many that come first in *)
(* block.tsv, whatever the sort makes of equal counts.                     *)
(***************************************************************************)
THEOREM TopLinesTheorem == Spec => []TopLinesCoverMost
<1>1. ASSUME LinesInv, pc = "block.tsv" PROVE TopLinesCoverMost
  <2> DEFINE k == Len(printed)
             P == Lines(k)
             D == DOMAIN instrs
             first == Len(data) - k + 1
  <2>1. LinesType /\ DataAreLookedUp /\ PrintedSoFar
    BY <1>1 DEF LinesInv, InLines
  <2>2. LookedUp = D /\ k \in 0 .. Len(data) /\ curr = Sum(instrs, P)
    BY <2>1 DEF PrintedSoFar, LookedUp
  <2>3. P \in SUBSET D /\ Cardinality(P) = k
    BY <2>1, <2>2, LinesAreInstructions
  <2>4. IsFiniteSet(D) /\ \A a \in D : instrs[a] \in Int
    BY <2>1, DataType
  <2>5. /\ Len(data) \in Nat /\ DOMAIN data = 1 .. Len(data)
        /\ \A n \in DOMAIN data : data[n].count = instrs[data[n].addr] /\ data[n].count \in Nat
    BY <2>1, DataType
  <2>6. \A a \in D : \E n \in DOMAIN data : data[n].addr = a
    BY <2>1, <2>2 DEF DataAreLookedUp
  <2> HIDE DEF k, D
  <2>7. ASSUME NEW S \in SUBSET D, Cardinality(S) = k
        PROVE  Sum(instrs, S) <= curr
    <3>1. CASE k = 0
      <4>1. IsFiniteSet(S) /\ IsFiniteSet(P)
        BY <2>3, <2>4, FS_Subset
      <4>2. S = {} /\ P = {}
        BY <2>3, <2>7, <3>1, <4>1, FS_EmptySet
      <4>3. Sum(instrs, {}) = 0
        BY SumEmpty
      <4> QED
        BY <2>2, <4>2, <4>3
    <3>2. CASE k # 0
      <4> DEFINE t == data[first].count
      <4>1. first \in DOMAIN data
        BY <2>2, <2>5, <3>2
      <4>2. t \in Int
        BY <2>5, <4>1
      <4>3. ByCount
        BY <2>1 DEF PrintedSoFar
      <4>4. ASSUME NEW a \in P PROVE instrs[a] >= t
        <5>1. PICK n \in first .. Len(data) : a = data[n].addr
          BY <4>4 DEF Lines
        <5>2. n \in DOMAIN data /\ (n # first => first \in 1 .. n - 1)
          BY <2>2, <2>5, <4>1
        <5>3. t <= data[n].count
          BY <2>5, <4>1, <4>3, <5>2 DEF ByCount
        <5>4. data[n].count = instrs[a] /\ data[n].count \in Nat
          BY <2>5, <5>1, <5>2
        <5> QED
          BY <4>2, <5>3, <5>4
      <4>5. ASSUME NEW a \in D \ P PROVE instrs[a] <= t
        <5>1. PICK n \in DOMAIN data : data[n].addr = a
          BY <2>6
        <5>2. n \notin first .. Len(data)
          BY <4>5, <5>1 DEF Lines
        <5>3. n \in 1 .. first - 1
          BY <2>2, <2>5, <4>1, <5>2
        <5>4. data[n].count <= t
          BY <4>1, <4>3, <5>3 DEF ByCount
        <5>5. data[n].count = instrs[a]
          BY <2>5, <5>1
        <5> QED
          BY <5>4, <5>5
      <4> HIDE DEF t, P
      <4>6. Sum(instrs, S) <= Sum(instrs, P)
        BY <2>3, <2>4, <2>7, <4>2, <4>4, <4>5, SumTop
      <4> QED
        BY <2>2, <4>6
    <3> QED
      BY <3>1, <3>2
  <2>8. ASSUME k = Cardinality(D) PROVE curr = total
    <3>1. D = P
      BY <2>3, <2>4, <2>8, FS_Subset
    <3>2. total = Sum(instrs, D)
      BY <2>1, <2>2 DEF DataAreLookedUp
    <3> QED
      BY <2>2, <3>1, <3>2
  <2> QED
    BY <2>7, <2>8 DEF TopLinesCoverMost, kSubset, k, D
<1>2. LinesInv => TopLinesCoverMost
  BY <1>1 DEF TopLinesCoverMost
<1> QED
  BY <1>2, LinesInvariant, PTL

(***************************************************************************)
(* The rows of memory.tbl by instruction, and memory.tsv.                  *)
(***************************************************************************)
Kind == {"read", "write"}

\* The rows of an instruction that have been read.
RowsOf(b) == {k \in DOMAIN mem \ i : k[1] = b}

\* A block has the values of the rows K.
Fits(blk, K) ==
  LET d == blk.distribution IN
  /\ d \in Seq(MemValue)
  /\ Len(d) = Cardinality(K)
  /\ \A f \in Kind : /\ blk.total[f] = Sum([k \in K |-> mem[k][f]], K)
                     /\ blk.total[f] = Sum([n \in 1 .. Len(d) |-> d[n][f]], 1 .. Len(d))

MemoryType ==
  /\ DOMAIN mem \subseteq Addr \X MemAddr
  /\ \A k \in DOMAIN mem : mem[k] \in MemValue
  /\ i \subseteq DOMAIN mem

BlocksFit ==
  /\ DOMAIN blocks = {k[1] : k \in DOMAIN mem \ i}
  /\ \A b \in DOMAIN blocks : Fits(blocks[b], RowsOf(b))

\* Instructions averaged that have accesses of kind f.
Averaged(f) == {b \in DOMAIN blocks \ left : blocks[b].total[f] > 0}

\* An instruction that is averaged adds one, spread over the ranks.
AveragedSoFar ==
  /\ i = {} /\ left \subseteq DOMAIN blocks
  /\ ave \in Seq([read : Nat, write : Nat])
  /\ \A f \in Kind :
       Sum([n \in DOMAIN ave |-> ave[n][f]], DOMAIN ave) = SCALE * Cardinality(Averaged(f))

InTables == pc \notin {"memory", "average", "done", "crashed"}

AccessesInv ==
  /\ InTables => blocks = <<>>
  /\ InTables \/ pc = "memory" => ave = <<>>
  /\ pc \in {"memory", "average", "done"} => MemoryType /\ BlocksFit
  /\ pc \in {"average", "done"} => AveragedSoFar
  /\ pc = "done" => left = {}

\* memory.tbl is finite, and a row's values are numbers that are not both 0.
LEMMA MemoryFinite ==
  ASSUME MemoryType
  PROVE  /\ IsFiniteSet(DOMAIN mem)
         /\ \A k \in DOMAIN mem : /\ k[1] \in Addr /\ k[2] \in MemAddr /\ k = <<k[1], k[2]>>
                                  /\ Accesses(mem[k]) > 0
                                  /\ \A f \in Kind : mem[k][f] \in Nat
<1>1. IsFiniteSet(Addr \X MemAddr)
  BY TablesAssumption, FS_Product
<1>2. IsFiniteSet(DOMAIN mem)
  BY <1>1, FS_Subset DEF MemoryType
<1>3. \A k \in DOMAIN mem : k[1] \in Addr /\ k[2] \in MemAddr /\ k = <<k[1], k[2]>>
  BY DEF MemoryType
<1>4. \A k \in DOMAIN mem : Accesses(mem[k]) > 0 /\ \A f \in Kind : mem[k][f] \in Nat
  BY MemAssumption DEF MemoryType, Accesses, Kind
<1> QED
  BY <1>2, <1>3, <1>4

\* The values of a sequence of rows are numbers.
LEMMA ValuesType ==
  ASSUME NEW d \in Seq(MemValue)
  PROVE  /\ Len(d) \in Nat /\ DOMAIN d = 1 .. Len(d) /\ IsFiniteSet(1 .. Len(d))
         /\ \A n \in 1 .. Len(d), f \in Kind : d[n][f] \in Nat
<1>1. Len(d) \in Nat /\ DOMAIN d = 1 .. Len(d)
  BY LenProperties
<1>2. IsFiniteSet(1 .. Len(d))
  BY <1>1, FS_Interval
<1>3. \A n \in 1 .. Len(d) : d[n] \in MemValue
  BY ElementOfSeq
<1>4. \A n \in 1 .. Len(d), f \in Kind : d[n][f] \in Nat
  BY <1>3, MemAssumption DEF Kind
<1> QED
  BY <1>1, <1>2, <1>4

\* The first key of a set is one of it: instructions first, then addresses.
LEMMA FirstIn ==
  ASSUME NEW K \in SUBSET (Addr \X MemAddr), K # {}
  PROVE  First(K) \in K
<1> DEFINE A == {k[1] : k \in K}
           a == Min(A)
           M == {m \in MemAddr : <<a, m>> \in K}
           m0 == Min(M)
<1>0. Addr \subseteq Nat /\ MemAddr \subseteq Nat
  BY TablesAssumption
<1>1. a \in A /\ \A x \in A : a <= x
  <2>1. A \in SUBSET Nat /\ A # {}
    BY <1>0
  <2> HIDE DEF A
  <2> QED
    BY <2>1, Least
<1>2. \A k \in K : k = <<k[1], k[2]>> /\ k[1] \in Nat /\ k[2] \in MemAddr /\ k[2] \in Nat
  <2>1. \A k \in K : k \in Addr \X MemAddr
    OBVIOUS
  <2>2. \A k \in Addr \X MemAddr : k = <<k[1], k[2]>> /\ k[1] \in Addr /\ k[2] \in MemAddr
    OBVIOUS
  <2> QED
    BY <1>0, <2>1, <2>2
<1>3. (\E k \in K : k[1] = a) /\ \A k \in K : a <= k[1]
  BY <1>1
<1> HIDE DEF a, A
<1>4. m0 \in M /\ \A x \in M : m0 <= x
  <2>1. M \in SUBSET Nat /\ M # {}
    BY <1>0, <1>2, <1>3
  <2> HIDE DEF M
  <2> QED
    BY <2>1, Least
<1>5. a \in Nat /\ m0 \in Nat /\ <<a, m0>> \in K
  BY <1>0, <1>2, <1>3, <1>4
<1>6. \A k \in K : k[1] = a => m0 <= k[2]
  BY <1>2, <1>4
<1> HIDE DEF M, m0
<1>7. \A k \in K \ {<<a, m0>>} : KeyLess(<<a, m0>>, k)
  <2> SUFFICES ASSUME NEW k \in K, k # <<a, m0>> PROVE KeyLess(<<a, m0>>, k)
    OBVIOUS
  <2>1. k[1] # a \/ k[2] # m0
    BY <1>2
  <2> QED
    BY <1>2, <1>3, <1>5, <1>6, <2>1 DEF KeyLess
<1> QED
  BY <1>5, <1>7 DEF First

\* A block that is added a row's value has that row as well.
LEMMA AddRow ==
  ASSUME MemoryType, NEW K \in SUBSET DOMAIN mem, NEW k \in DOMAIN mem \ K,
         NEW old, Fits(old, K)
  PROVE  Fits([total |-> Plus(old.total, mem[k]),
               distribution |-> Append(old.distribution, mem[k])], K \cup {k})
<1> DEFINE new == [total |-> Plus(old.total, mem[k]),
                   distribution |-> Append(old.distribution, mem[k])]
           d == old.distribution
           e == Append(d, mem[k])
           L == Len(d)
<1>1. d \in Seq(MemValue) /\ mem[k] \in MemValue /\ L = Cardinality(K)
  BY DEF Fits, MemoryType
<1>2. /\ e \in Seq(MemValue) /\ Len(e) = L + 1
      /\ \A n \in 1 .. L : e[n] = d[n]
      /\ e[L + 1] = mem[k]
  BY <1>1, AppendProperties
<1>3. /\ L \in Nat /\ IsFiniteSet(1 .. L) /\ IsFiniteSet(1 .. L + 1)
      /\ \A n \in 1 .. L, f \in Kind : d[n][f] \in Nat
      /\ \A n \in 1 .. L + 1, f \in Kind : e[n][f] \in Nat
  BY <1>1, <1>2, ValuesType
<1>4. IsFiniteSet(K) /\ IsFiniteSet(K \cup {k}) /\ Cardinality(K \cup {k}) = L + 1
  BY <1>1, MemoryFinite, FS_Subset, FS_AddElement
<1>5. \A x \in K \cup {k}, f \in Kind : mem[x][f] \in Nat
  BY MemoryFinite
<1> HIDE DEF e, d, L
<1>6. 1 .. L + 1 = (1 .. L) \cup {L + 1} /\ L + 1 \notin 1 .. L
  BY <1>3
<1>7. ASSUME NEW f \in Kind
      PROVE  /\ new.total[f] = Sum([x \in K \cup {k} |-> mem[x][f]], K \cup {k})
             /\ new.total[f] = Sum([n \in 1 .. L + 1 |-> e[n][f]], 1 .. L + 1)
  <2> DEFINE rows == [x \in K |-> mem[x][f]]
             rows1 == [x \in K \cup {k} |-> mem[x][f]]
             vals == [n \in 1 .. L |-> d[n][f]]
             vals1 == [n \in 1 .. L + 1 |-> e[n][f]]
             t == old.total[f]
             v == mem[k][f]
  <2>1. t = Sum(rows, K) /\ t = Sum(vals, 1 .. L)
    BY DEF Fits, d, L
  <2>2. /\ \A x \in K : rows[x] \in Int /\ rows1[x] = rows[x]
        /\ \A x \in K \cup {k} : rows1[x] \in Int
        /\ rows1[k] = v
    BY <1>5
  <2>3. /\ \A n \in 1 .. L : vals[n] \in Int /\ vals1[n] = vals[n]
        /\ \A n \in (1 .. L) \cup {L + 1} : vals1[n] \in Int
        /\ vals1[L + 1] = v
    BY <1>2, <1>3, <1>6
  <2>4. new.total[f] = t + v
    BY DEF Plus, Kind
  <2> HIDE DEF rows, rows1, vals, vals1, t, v, new
  <2>5. Sum(rows1, K \cup {k}) = v + Sum(rows1, K) /\ Sum(rows1, K) = Sum(rows, K)
    BY <1>4, <2>2, SumInsert, SumSame
  <2>6. IsFiniteSet(1 .. L)
    BY <1>3
  <2>7. Sum(vals1, (1 .. L) \cup {L + 1}) = vals1[L + 1] + Sum(vals1, 1 .. L)
    <3> DEFINE M == 1 .. L
               l == L + 1
    <3>1. IsFiniteSet(M) /\ l \notin M /\ \A n \in M \cup {l} : vals1[n] \in Int
      BY <1>6, <2>3, <2>6
    <3> HIDE DEF M, l
    <3>2. Sum(vals1, M \cup {l}) = vals1[l] + Sum(vals1, M)
      BY <3>1, SumInsert
    <3> QED
      BY <3>2 DEF M, l
  <2>8. Sum(vals1, 1 .. L) = Sum(vals, 1 .. L)
    <3> DEFINE M == 1 .. L
    <3>1. IsFiniteSet(M) /\ \A n \in M : vals1[n] = vals[n]
      BY <2>3, <2>6
    <3> HIDE DEF M
    <3>2. Sum(vals1, M) = Sum(vals, M)
      BY <3>1, SumSame
    <3> QED
      BY <3>2 DEF M
  <2>9. Sum(vals1, 1 .. L + 1) = v + t
    BY <1>6, <2>1, <2>3, <2>7, <2>8, Zenon
  <2>10. Sum(rows1, K \cup {k}) = v + t
    BY <2>1, <2>5
  <2>11. t \in Int /\ v \in Int
    BY <1>4, <2>1, <2>2, SumType
  <2>12. /\ new.total[f] = Sum(rows1, K \cup {k})
         /\ new.total[f] = Sum(vals1, 1 .. L + 1)
    BY <2>4, <2>9, <2>10, <2>11
  <2> QED
    BY <2>12 DEF rows1, vals1
<1>8. new.distribution = e
  BY DEF e, d
<1> HIDE DEF new
<1>9. Fits(new, K \cup {k})
  BY <1>2, <1>4, <1>7, <1>8 DEF Fits
<1> QED
  BY <1>9 DEF new

\* Before memory.tbl there are no blocks.
LEMMA InitAccesses == Init => AccessesInv
BY DEF Init, AccessesInv, InTables

\* No block, no row.
LEMMA OpenMemoryAccesses ==
  ASSUME AccessesInv, OpenMemory
  PROVE  AccessesInv'
<1>1. /\ pc = "block.tsv" /\ pc' = "memory" /\ i' = DOMAIN mem'
      /\ UNCHANGED <<block, blocks, left, ave>>
  BY DEF OpenMemory
<1>2. PICK K \in SUBSET (Addr \X MemAddr) : mem' \in [K -> MemValue]
  BY DEF OpenMemory
<1>3. MemoryType'
  BY <1>1, <1>2 DEF MemoryType
<1>4. blocks' = <<>> /\ ave' = <<>>
  BY <1>1 DEF AccessesInv, InTables
<1>5. BlocksFit'
  <2>1. DOMAIN mem' \ i' = {} /\ DOMAIN blocks' = {}
    BY <1>1, <1>4
  <2> QED
    BY <2>1 DEF BlocksFit
<1> QED
  BY <1>1, <1>3, <1>4, <1>5 DEF AccessesInv, InTables

\* The row read is added to the block of its instruction, whichever block was
\* looked up last.
LEMMA ReadMemoryAccesses ==
  ASSUME AccessesInv, ReadMemory
  PROVE  AccessesInv'
<1> DEFINE k == First(i)
           b == k[1]
           old == At(b)
           new == [total |-> Plus(old.total, mem[k]),
                   distribution |-> Append(old.distribution, mem[k])]
<1>1. pc = "memory" /\ pc' = "memory" /\ i # {} /\ i' = i \ {k} /\ UNCHANGED <<mem, left, ave>>
  BY DEF ReadMemory
<1>2. MemoryType /\ BlocksFit /\ ave = <<>>
  BY <1>1 DEF AccessesInv
<1>3. k \in i
  BY <1>1, <1>2, FirstIn DEF MemoryType
<1>4. k \in DOMAIN mem /\ mem[k] \in MemValue /\ Accesses(mem[k]) > 0
  BY <1>2, <1>3, MemoryFinite DEF MemoryType
<1>5. BlockOf(b) = b
  BY DEF BlockOf
<1>6. blocks' = [x \in DOMAIN blocks \cup {b} |-> IF x = b THEN new ELSE blocks[x]]
  <2>1. (IF Accesses(mem[k]) > 0
         THEN [total |-> Plus(At(BlockOf(k[1])).total, mem[k]),
               distribution |-> Append(At(BlockOf(k[1])).distribution, mem[k])]
         ELSE At(BlockOf(k[1]))) = new
    BY <1>4, <1>5
  <2> QED
    BY <1>5, <2>1 DEF ReadMemory
<1>7. RowsOf(b) \in SUBSET DOMAIN mem /\ k \notin RowsOf(b)
  BY <1>3 DEF RowsOf
<1>8. Fits(old, RowsOf(b))
  <2>1. CASE b \in DOMAIN blocks
    BY <1>2, <2>1 DEF BlocksFit, At
  <2>2. CASE b \notin DOMAIN blocks
    <3>1. RowsOf(b) = {}
      BY <1>2, <2>2 DEF BlocksFit, RowsOf
    <3>2. old.distribution = <<>> /\ \A f \in Kind : old.total[f] = 0
      BY <2>2 DEF At, None, Kind
    <3>3. \A f : Sum(f, {}) = 0
      BY SumEmpty
    <3>4. <<>> \in Seq(MemValue) /\ Len(<<>>) = 0 /\ 1 .. 0 = {} /\ Cardinality({}) = 0
      BY EmptySeq, FS_EmptySet
    <3> HIDE DEF old, b
    <3> QED
      BY <3>1, <3>2, <3>3, <3>4 DEF Fits
  <2> QED
    BY <2>1, <2>2
<1> HIDE DEF k
<1>9. Fits(new, RowsOf(b) \cup {k})
  BY <1>2, <1>4, <1>7, <1>8, AddRow
<1>10. \A x : RowsOf(x)' = IF x = b THEN RowsOf(b) \cup {k} ELSE RowsOf(x)
  BY <1>1, <1>3, <1>4 DEF RowsOf
<1> HIDE DEF b, new
<1>11. BlocksFit'
  <2>1. DOMAIN blocks' = {l[1] : l \in DOMAIN mem' \ i'}
    <3>1. DOMAIN blocks' = DOMAIN blocks \cup {b}
      BY <1>6
    <3>2. DOMAIN mem' \ i' = (DOMAIN mem \ i) \cup {k}
      BY <1>1, <1>3, <1>4
    <3> QED
      BY <1>2, <3>1, <3>2 DEF BlocksFit, b
  <2>2. ASSUME NEW x \in DOMAIN blocks' PROVE Fits(blocks[x], RowsOf(x))'
    <3>1. CASE x = b
      BY <1>1, <1>6, <1>9, <1>10, <3>1 DEF Fits
    <3>2. CASE x # b
      <4>1. x \in DOMAIN blocks /\ blocks'[x] = blocks[x] /\ RowsOf(x)' = RowsOf(x)
        BY <1>6, <1>10, <3>2
      <4>2. Fits(blocks[x], RowsOf(x))
        BY <1>2, <4>1 DEF BlocksFit
      <4> QED
        BY <1>1, <4>1, <4>2 DEF Fits
    <3> QED
      BY <3>1, <3>2
  <2> QED
    BY <2>1, <2>2 DEF BlocksFit
<1>12. MemoryType'
  BY <1>1, <1>2 DEF MemoryType
<1> QED
  BY <1>1, <1>2, <1>11, <1>12 DEF AccessesInv, InTables

\* Blocks stay what they are when no row is read.
LEMMA BlocksUnchanged ==
  ASSUME MemoryType, BlocksFit, UNCHANGED <<i, mem, blocks>>
  PROVE  MemoryType' /\ BlocksFit'
<1>1. \A b : RowsOf(b)' = RowsOf(b)
  BY DEF RowsOf
<1>2. ASSUME NEW b \in DOMAIN blocks PROVE Fits(blocks[b], RowsOf(b))'
  <2>1. Fits(blocks[b], RowsOf(b))
    BY <1>2 DEF BlocksFit
  <2> QED
    BY <1>1, <2>1 DEF Fits
<1>3. BlocksFit'
  BY <1>2 DEF BlocksFit
<1> QED
  BY <1>3 DEF MemoryType

\* All blocks are left to be averaged, and no share is added up yet.
LEMMA MemoryReadAccesses ==
  ASSUME AccessesInv, MemoryRead
  PROVE  AccessesInv'
<1>1. /\ pc = "memory" /\ pc' = "average" /\ i = {} /\ left' = DOMAIN blocks
      /\ UNCHANGED <<i, mem, block, blocks, ave>>
  BY DEF MemoryRead
<1>2. MemoryType /\ BlocksFit /\ ave = <<>>
  BY <1>1 DEF AccessesInv
<1>3. MemoryType' /\ BlocksFit'
  BY <1>1, <1>2, BlocksUnchanged
<1>4. AveragedSoFar'
  <2>1. ave' \in Seq([read : Nat, write : Nat]) /\ DOMAIN ave' = {}
    BY <1>1, <1>2, EmptySeq
  <2>2. \A f : Sum(f, {}) = 0
    BY SumEmpty
  <2>3. \A f : Averaged(f)' = {}
    BY <1>1 DEF Averaged
  <2>4. SCALE * Cardinality({}) = 0
    BY FS_EmptySet, TablesAssumption
  <2> QED
    BY <1>1, <2>1, <2>2, <2>3, <2>4 DEF AveragedSoFar
<1> QED
  BY <1>1, <1>3, <1>4 DEF AccessesInv, InTables

\* An instruction's accesses of a kind divide SCALE.
LEMMA ScaleDivides ==
  ASSUME MemoryType, NEW b, NEW f \in Kind, NEW w,
         w = Sum([k \in RowsOf(b) |-> mem[k][f]], RowsOf(b)), w > 0
  PROVE  SCALE % w = 0
<1> DEFINE R == RowsOf(b)
           K == {k[2] : k \in R}
           v == [a \in K |-> mem[<<b, a>>]]
           q == [k \in R |-> k[2]]
           g == [k \in R |-> mem[k][f]]
           h == [a \in K |-> v[a][f]]
<1>1. R \in SUBSET DOMAIN mem /\ \A k \in R : k[1] = b
  BY DEF RowsOf
<1> HIDE DEF R
<1>2. IsFiniteSet(R)
  BY <1>1, MemoryFinite, FS_Subset
<1>3. \A k \in R : k = <<b, k[2]>> /\ k[2] \in MemAddr /\ mem[k] \in MemValue /\ mem[k][f] \in Nat
  BY <1>1, MemoryFinite DEF MemoryType
<1>4. K \in SUBSET MemAddr /\ v \in [K -> MemValue]
  <2>1. K \in SUBSET MemAddr
    BY <1>3
  <2>2. \A a \in K : mem[<<b, a>>] \in MemValue
    BY <1>3
  <2> QED
    BY <2>1, <2>2
<1>5. q \in Bijection(R, K)
  <2>1. q \in [R -> K]
    OBVIOUS
  <2>2. \A k, l \in R : q[k] = q[l] => k = l
    BY <1>3
  <2>3. \A a \in K : \E k \in R : q[k] = a
    OBVIOUS
  <2> HIDE DEF q, K
  <2> QED
    BY <2>1, <2>2, <2>3, Fun_IsBij
<1>6. \A a \in K : h[a] \in Int
  BY <1>3
<1>7. \A k \in R : g[k] = h[q[k]]
  BY <1>3
<1> HIDE DEF g, h, q
<1>8. Sum(g, R) = Sum(h, K)
  BY <1>2, <1>5, <1>6, <1>7, SumRenamed
<1>9. w = Sum(h, K)
  BY <1>8 DEF g, R
<1> HIDE DEF K, v
<1>10. CASE f = "read"
  <2>1. h = [a \in K |-> v[a].read]
    BY <1>10 DEF h
  <2>2. Sum([a \in K |-> v[a].read], K) = w
    BY <1>9, <2>1
  <2> QED
    BY <1>4, <2>2, ScaleAssumption
<1>11. CASE f = "write"
  <2>1. h = [a \in K |-> v[a].write]
    BY <1>11 DEF h
  <2>2. Sum([a \in K |-> v[a].write], K) = w
    BY <1>9, <2>1
  <2> QED
    BY <1>4, <2>2, ScaleAssumption
<1> QED
  BY <1>10, <1>11 DEF Kind

\* The shares of what makes up a whole are all of it, when there is any.
LEMMA SharesOfWhole ==
  ASSUME NEW S, IsFiniteSet(S), NEW g, NEW h, NEW o, NEW w,
         \A x \in S : g[x] \in Nat, w = Sum(g, S), w > 0 => SCALE % w = 0,
         \A x \in S : h[x] = Share(g[x], w, o)
  PROVE  /\ \A x \in S : h[x] \in Nat
         /\ Sum(h, S) = IF w > 0 THEN SCALE ELSE 0
<1>1. w \in Nat
  BY SumNat
<1>2. CASE w > 0
  <2> DEFINE c == SCALE \div w
  <2>1. SCALE = w * c /\ c \in Nat /\ w \in Nat \ {0}
    BY <1>1, <1>2, TablesAssumption
  <2> HIDE DEF c
  <2>2. ASSUME NEW x \in S PROVE h[x] = c * g[x] /\ h[x] \in Nat
    <3>1. h[x] = (g[x] * (w * c)) \div w
      BY <1>2, <2>1 DEF Share
    <3>2. \A p \in Nat : p * (w * c) = w * (c * p) /\ c * p \in Nat
      BY <2>1
    <3>3. \A p \in Int : (w * p) \div w = p
      BY <2>1
    <3> DEFINE p == g[x]
    <3>4. p \in Nat
      OBVIOUS
    <3> HIDE DEF p
    <3>5. (p * (w * c)) \div w = c * p /\ c * p \in Nat
      BY <3>2, <3>3, <3>4
    <3> QED
      BY <3>1, <3>5 DEF p
  <2>3. Sum(h, S) = c * w
    <3>1. c \in Int /\ \A x \in S : g[x] \in Int /\ h[x] = c * g[x]
      BY <2>1, <2>2
    <3>2. Sum(h, S) = c * Sum(g, S)
      BY <3>1, SumTimes
    <3> QED
      BY <3>2
  <2>4. c * w = w * c
    BY <2>1
  <2> QED
    BY <1>2, <2>1, <2>2, <2>3, <2>4
<1>3. CASE ~(w > 0)
  <2>1. \A x \in S : h[x] = 0
    BY <1>3 DEF Share
  <2>2. Sum(h, S) = 0
    BY <2>1, SumZero
  <2> QED
    BY <1>3, <2>1, <2>2
<1> QED
  BY <1>2, <1>3

\* Sorting moves the values of a block and keeps their sum.
LEMMA SortedBlock ==
  ASSUME NEW s \in Seq(MemValue), NEW d \in SortedValues(s)
  PROVE  /\ d \in Seq(MemValue) /\ Len(d) = Len(s)
         /\ \A f \in Kind : Sum([n \in 1 .. Len(d) |-> d[n][f]], 1 .. Len(d))
                              = Sum([n \in 1 .. Len(s) |-> s[n][f]], 1 .. Len(s))
<1>1. PICK q \in Bijection(DOMAIN s, DOMAIN s) : d = [n \in DOMAIN s |-> s[q[n]]]
  BY DEF SortedValues, Rearranged
<1>2. /\ Len(s) \in Nat /\ DOMAIN s = 1 .. Len(s) /\ IsFiniteSet(1 .. Len(s))
      /\ \A n \in 1 .. Len(s), f \in Kind : s[n][f] \in Nat
  BY ValuesType
<1>3. \A n \in 1 .. Len(s) : q[n] \in 1 .. Len(s) /\ d[n] = s[q[n]] /\ d[n] \in MemValue
  <2>1. q \in [1 .. Len(s) -> 1 .. Len(s)]
    BY <1>2 DEF Bijection, Injection
  <2>2. \A n \in 1 .. Len(s) : s[n] \in MemValue
    BY ElementOfSeq
  <2> QED
    BY <1>1, <1>2, <2>1, <2>2
<1>4. d \in Seq(MemValue) /\ Len(d) = Len(s)
  <2>1. d \in [1 .. Len(s) -> MemValue]
    BY <1>1, <1>2, <1>3
  <2> QED
    BY <1>2, <2>1
<1>5. ASSUME NEW f \in Kind
      PROVE  Sum([n \in 1 .. Len(s) |-> d[n][f]], 1 .. Len(s))
               = Sum([n \in 1 .. Len(s) |-> s[n][f]], 1 .. Len(s))
  <2> DEFINE N == 1 .. Len(s)
             g == [n \in N |-> d[n][f]]
             h == [n \in N |-> s[n][f]]
  <2>1. (\A n \in N : h[n] \in Int) /\ \A n \in N : g[n] = h[q[n]]
    BY <1>2, <1>3
  <2>2. q \in Bijection(N, N) /\ IsFiniteSet(N)
    BY <1>1, <1>2
  <2> HIDE DEF N, g, h
  <2>3. Sum(g, N) = Sum(h, N)
    BY <2>1, <2>2, SumRenamed
  <2> QED
    BY <2>3 DEF N, g, h
<1> QED
  BY <1>4, <1>5

\* Two sequences of numbers that are added rank by rank, the shorter one with
\* nothing where it has ended, add up to what both do.
LEMMA AddedByRank ==
  ASSUME NEW a \in Nat, NEW b \in Nat, NEW m \in Nat, a <= m, b <= m,
         NEW f, NEW g, NEW h,
         \A n \in 1 .. a : f[n] \in Nat, \A n \in 1 .. b : g[n] \in Nat,
         \A n \in 1 .. m : h[n] = (IF n <= a THEN f[n] ELSE 0) + (IF n <= b THEN g[n] ELSE 0)
  PROVE  Sum(h, 1 .. m) = Sum(f, 1 .. a) + Sum(g, 1 .. b)
<1> DEFINE x == [n \in 1 .. m |-> IF n \in 1 .. a THEN f[n] ELSE 0]
           y == [n \in 1 .. m |-> IF n \in 1 .. b THEN g[n] ELSE 0]
<1>1. IsFiniteSet(1 .. m) /\ 1 .. a \in SUBSET (1 .. m) /\ 1 .. b \in SUBSET (1 .. m)
  BY FS_Interval
<1>2. \A n \in 1 .. m : (n <= a <=> n \in 1 .. a) /\ (n <= b <=> n \in 1 .. b)
  OBVIOUS
<1>3. \A n \in 1 .. m : x[n] \in Int /\ y[n] \in Int /\ h[n] = x[n] + y[n]
  BY <1>2
<1>4. /\ \A n \in 1 .. m : x[n] = IF n \in 1 .. a THEN f[n] ELSE 0
      /\ \A n \in 1 .. m : y[n] = IF n \in 1 .. b THEN g[n] ELSE 0
  OBVIOUS
<1>5. (\A n \in 1 .. a : f[n] \in Int) /\ (\A n \in 1 .. b : g[n] \in Int)
  OBVIOUS
<1> HIDE DEF x, y
<1>6. Sum(h, 1 .. m) = Sum(x, 1 .. m) + Sum(y, 1 .. m)
  BY <1>1, <1>3, SumPlus
<1>7. Sum(x, 1 .. m) = Sum(f, 1 .. a)
  <2> DEFINE M == 1 .. m
             A == 1 .. a
  <2>1. /\ IsFiniteSet(M) /\ A \in SUBSET M
        /\ \A n \in A : f[n] \in Int
        /\ \A n \in M : x[n] = IF n \in A THEN f[n] ELSE 0
    BY <1>1, <1>4, <1>5
  <2> HIDE DEF M, A
  <2>2. Sum(x, M) = Sum(f, A)
    BY <2>1, SumWithin
  <2> QED
    BY <2>2 DEF M, A
<1>8. Sum(y, 1 .. m) = Sum(g, 1 .. b)
  <2> DEFINE M == 1 .. m
             B == 1 .. b
  <2>1. /\ IsFiniteSet(M) /\ B \in SUBSET M
        /\ \A n \in B : g[n] \in Int
        /\ \A n \in M : y[n] = IF n \in B THEN g[n] ELSE 0
    BY <1>1, <1>4, <1>5
  <2> HIDE DEF M, B
  <2>2. Sum(y, M) = Sum(g, B)
    BY <2>1, SumWithin
  <2> QED
    BY <2>2 DEF M, B
<1> QED
  BY <1>6, <1>7, <1>8

\* The shares of the instruction averaged add one to each kind of access it has.
LEMMA AverageAccesses ==
  ASSUME AccessesInv, Average
  PROVE  AccessesInv'
<1> DEFINE b == Min(left)
           t == blocks[b].total
           Rank == [read : Nat, write : Nat]
<1>1. /\ pc = "average" /\ pc' = "average" /\ left # {} /\ left' = left \ {b}
      /\ UNCHANGED <<i, mem, blocks>>
  BY DEF Average
<1>2. MemoryType /\ BlocksFit /\ AveragedSoFar
  BY <1>1 DEF AccessesInv
<1>3. PICK d \in SortedValues(blocks[b].distribution) :
        ave' = [n \in 1 .. Max({Len(ave), Len(d)}) |->
                  Plus(IF n <= Len(ave) THEN ave[n] ELSE None,
                       IF n <= Len(d)
                       THEN [read |-> Share(d[n].read, t.read, t.write),
                             write |-> Share(d[n].write, t.write, t.read)]
                       ELSE None)]
  BY DEF Average
<1>4. b \in left /\ b \in DOMAIN blocks /\ DOMAIN blocks \subseteq Addr /\ IsFiniteSet(DOMAIN blocks)
  <2>1. DOMAIN blocks \subseteq Addr
    BY <1>2, MemoryFinite DEF BlocksFit
  <2>2. left \in SUBSET Addr
    BY <1>2, <2>1 DEF AveragedSoFar
  <2>3. b \in left
    BY <1>1, <2>2, LeastAddr
  <2> QED
    BY <1>2, <2>1, <2>3, TablesAssumption, FS_Subset DEF AveragedSoFar
<1> HIDE DEF b
<1>5. Fits(blocks[b], RowsOf(b))
  BY <1>2, <1>4 DEF BlocksFit
<1>6. /\ d \in Seq(MemValue) /\ Len(d) \in Nat /\ IsFiniteSet(1 .. Len(d))
      /\ \A n \in 1 .. Len(d), f \in Kind : d[n][f] \in Nat
      /\ \A f \in Kind : t[f] = Sum([n \in 1 .. Len(d) |-> d[n][f]], 1 .. Len(d))
  <2> DEFINE s == blocks[b].distribution
  <2>1. s \in Seq(MemValue) /\ \A f \in Kind : t[f] = Sum([n \in 1 .. Len(s) |-> s[n][f]], 1 .. Len(s))
    BY <1>5 DEF Fits
  <2>2. d \in SortedValues(s)
    BY <1>3
  <2> HIDE DEF s, t
  <2>3. /\ d \in Seq(MemValue)
        /\ \A f \in Kind : Sum([n \in 1 .. Len(d) |-> d[n][f]], 1 .. Len(d))
                             = Sum([n \in 1 .. Len(s) |-> s[n][f]], 1 .. Len(s))
    BY <2>1, <2>2, SortedBlock
  <2> QED
    BY <2>1, <2>3, ValuesType
<1>7. \A f \in Kind : t[f] \in Nat /\ (t[f] > 0 => SCALE % t[f] = 0)
  <2> SUFFICES ASSUME NEW f \in Kind PROVE t[f] \in Nat /\ (t[f] > 0 => SCALE % t[f] = 0)
    OBVIOUS
  <2> DEFINE g == [n \in 1 .. Len(d) |-> d[n][f]]
  <2>1. \A n \in 1 .. Len(d) : g[n] \in Nat
    BY <1>6
  <2>2. t[f] = Sum(g, 1 .. Len(d))
    BY <1>6
  <2>3. t[f] = Sum([k \in RowsOf(b) |-> mem[k][f]], RowsOf(b))
    BY <1>5 DEF Fits
  <2> HIDE DEF g, t
  <2>4. t[f] \in Nat
    BY <1>6, <2>1, <2>2, SumNat
  <2> QED
    BY <1>2, <2>3, <2>4, ScaleDivides
<1> DEFINE other(f) == IF f = "read" THEN t["write"] ELSE t["read"]
           m == Max({Len(ave), Len(d)})
           share(f) == [n \in 1 .. Len(d) |-> Share(d[n][f], t[f], other(f))]
<1>8. ASSUME NEW f \in Kind
      PROVE  /\ \A n \in 1 .. Len(d) : share(f)[n] \in Nat
             /\ Sum(share(f), 1 .. Len(d)) = IF t[f] > 0 THEN SCALE ELSE 0
  <2> DEFINE S == 1 .. Len(d)
             g == [n \in S |-> d[n][f]]
             h == share(f)
             w == t[f]
             o == other(f)
  <2>1. /\ IsFiniteSet(S) /\ \A n \in S : g[n] \in Nat
        /\ \A n \in S : h[n] = Share(g[n], w, o)
    BY <1>6
  <2>2. w = Sum(g, S) /\ (w > 0 => SCALE % w = 0)
    BY <1>6, <1>7
  <2> HIDE DEF S, g, h, w, o
  <2>3. /\ \A n \in S : h[n] \in Nat
        /\ Sum(h, S) = IF w > 0 THEN SCALE ELSE 0
    BY <2>1, <2>2, SharesOfWhole
  <2> QED
    BY <2>3 DEF h, S, w
<1>9. ave \in Seq(Rank) /\ Len(ave) \in Nat /\ DOMAIN ave = 1 .. Len(ave)
      /\ \A n \in 1 .. Len(ave), f \in Kind : ave[n][f] \in Nat
  <2>1. ave \in Seq(Rank)
    BY <1>2 DEF AveragedSoFar
  <2>2. \A n \in 1 .. Len(ave) : ave[n] \in Rank
    BY <2>1, ElementOfSeq
  <2> QED
    BY <2>1, <2>2, LenProperties DEF Kind
<1>10. m \in Nat /\ Len(ave) <= m /\ Len(d) <= m
  <2> DEFINE La == Len(ave)
             Ld == Len(d)
  <2>1. La \in Nat /\ Ld \in Nat /\ La + Ld \in Nat
    BY <1>6, <1>9
  <2>2. {La, Ld} \in SUBSET (0 .. La + Ld) /\ {La, Ld} # {}
    BY <2>1
  <2> HIDE DEF La, Ld
  <2>3. Max({La, Ld}) \in {La, Ld} /\ \A y \in {La, Ld} : y <= Max({La, Ld})
    BY <2>1, <2>2, Greatest
  <2> QED
    BY <2>1, <2>3 DEF La, Ld
<1>11. /\ DOMAIN ave' = 1 .. m
       /\ \A n \in 1 .. m :
            /\ ave'[n] = [read |-> ave'[n].read, write |-> ave'[n].write]
            /\ \A f \in Kind :
                 ave'[n][f] = (IF n <= Len(ave) THEN ave[n][f] ELSE 0)
                                + (IF n <= Len(d) THEN share(f)[n] ELSE 0)
  <2> DEFINE old(n) == IF n <= Len(ave) THEN ave[n] ELSE None
             add(n) == IF n <= Len(d)
                       THEN [read |-> Share(d[n].read, t.read, t.write),
                             write |-> Share(d[n].write, t.write, t.read)]
                       ELSE None
  <2>1. DOMAIN ave' = 1 .. m /\ \A n \in 1 .. m : ave'[n] = Plus(old(n), add(n))
    BY <1>3
  <2>2. \A n \in 1 .. m, f \in Kind : old(n)[f] = IF n <= Len(ave) THEN ave[n][f] ELSE 0
    BY DEF None, Kind
  <2>3. ASSUME NEW n \in 1 .. m, NEW f \in Kind
        PROVE  add(n)[f] = IF n <= Len(d) THEN share(f)[n] ELSE 0
    <3>1. CASE n <= Len(d)
      <4>1. n \in 1 .. Len(d)
        BY <1>6, <1>10, <3>1
      <4>2. share(f)[n] = Share(d[n][f], t[f], other(f))
        BY <4>1
      <4> HIDE DEF share
      <4>3. CASE f = "read"
        BY <3>1, <4>2, <4>3
      <4>4. CASE f = "write"
        BY <3>1, <4>2, <4>4
      <4> QED
        BY <4>3, <4>4 DEF Kind
    <3>2. CASE ~(n <= Len(d))
      BY <3>2 DEF None, Kind
    <3> QED
      BY <3>1, <3>2
  <2> HIDE DEF old, add, share, m
  <2>4. \A n \in 1 .. m : /\ ave'[n] = [read |-> ave'[n].read, write |-> ave'[n].write]
                          /\ \A f \in Kind : ave'[n][f] = old(n)[f] + add(n)[f]
    BY <2>1 DEF Plus, Kind
  <2> QED
    BY <2>1, <2>2, <2>3, <2>4
<1> HIDE DEF share, m, t
<1>12. ave' \in Seq(Rank)
  <2>1. ASSUME NEW n \in 1 .. m, NEW f \in Kind PROVE ave'[n][f] \in Nat
    <3>1. ASSUME n <= Len(ave) PROVE ave[n][f] \in Nat
      <4> DEFINE La == Len(ave)
      <4>1. La \in Nat /\ n <= La
        BY <1>9, <3>1
      <4> HIDE DEF La
      <4>2. n \in 1 .. La
        BY <1>10, <4>1
      <4> QED
        BY <1>9, <4>2 DEF La
    <3>2. n <= Len(d) => share(f)[n] \in Nat
      BY <1>6, <1>8, <1>10
    <3> QED
      BY <1>11, <3>1, <3>2
  <2>2. \A n \in 1 .. m : ave'[n] \in Rank
    BY <1>11, <2>1 DEF Kind
  <2>3. ave' = [n \in 1 .. m |-> ave'[n]]
    BY <1>3 DEF m, t
  <2> HIDE DEF Rank
  <2>4. ave' \in [1 .. m -> Rank]
    BY <2>2, <2>3
  <2>5. \A n \in Nat : [1 .. n -> Rank] \subseteq Seq(Rank)
    OBVIOUS
  <2> QED
    BY <1>10, <2>4, <2>5
<1>13. ASSUME NEW f \in Kind
       PROVE  /\ IsFiniteSet(Averaged(f)) /\ Cardinality(Averaged(f)) \in Nat
              /\ Cardinality(Averaged(f)') = Cardinality(Averaged(f)) + (IF t[f] > 0 THEN 1 ELSE 0)
  <2>1. Averaged(f) \in SUBSET DOMAIN blocks /\ b \notin Averaged(f)
    BY <1>4 DEF Averaged
  <2>2. IsFiniteSet(Averaged(f)) /\ Cardinality(Averaged(f)) \in Nat
    BY <1>4, <2>1, FS_Subset, FS_CardinalityType
  <2>3. Averaged(f)' = IF t[f] > 0 THEN Averaged(f) \cup {b} ELSE Averaged(f)
    BY <1>1, <1>4 DEF Averaged, t
  <2>4. Cardinality(Averaged(f) \cup {b}) = Cardinality(Averaged(f)) + 1
    BY <2>1, <2>2, FS_AddElement
  <2> QED
    BY <2>2, <2>3, <2>4
<1>14. ASSUME NEW f \in Kind
       PROVE  Sum([n \in DOMAIN ave' |-> ave'[n][f]], DOMAIN ave') = SCALE * Cardinality(Averaged(f)')
  <2> DEFINE g == [n \in 1 .. Len(ave) |-> ave[n][f]]
             h == [n \in 1 .. m |-> ave'[n][f]]
             c == Cardinality(Averaged(f))
             s == share(f)
             La == Len(ave)
             Ld == Len(d)
  <2>1. (\A n \in 1 .. Len(ave) : g[n] \in Nat) /\ \A n \in 1 .. Len(d) : s[n] \in Nat
    BY <1>8, <1>9
  <2>2. \A n \in 1 .. m : h[n] = (IF n <= Len(ave) THEN g[n] ELSE 0) + (IF n <= Len(d) THEN s[n] ELSE 0)
    BY <1>9, <1>11
  <2>3. Sum(g, 1 .. Len(ave)) = SCALE * c
    BY <1>2, <1>9 DEF AveragedSoFar
  <2> HIDE DEF g, h, s
  <2>4. La \in Nat /\ Ld \in Nat /\ m \in Nat /\ La <= m /\ Ld <= m
    BY <1>6, <1>9, <1>10
  <2>5. /\ \A n \in 1 .. La : g[n] \in Nat
        /\ \A n \in 1 .. Ld : s[n] \in Nat
        /\ \A n \in 1 .. m : h[n] = (IF n <= La THEN g[n] ELSE 0) + (IF n <= Ld THEN s[n] ELSE 0)
    BY <2>1, <2>2
  <2> HIDE DEF La, Ld
  <2>6. Sum(h, 1 .. m) = Sum(g, 1 .. La) + Sum(s, 1 .. Ld)
    BY <2>4, <2>5, AddedByRank
  <2> USE DEF La, Ld
  <2>7. Sum(s, 1 .. Len(d)) = IF t[f] > 0 THEN SCALE ELSE 0
    BY <1>8 DEF s
  <2>8. c \in Nat /\ SCALE \in Nat /\ Cardinality(Averaged(f)') = c + (IF t[f] > 0 THEN 1 ELSE 0)
    BY <1>13, TablesAssumption
  <2> HIDE DEF c
  <2>9. SCALE * (c + 1) = SCALE * c + SCALE /\ SCALE * (c + 0) = SCALE * c + 0
    BY <2>8
  <2>10. Sum(h, 1 .. m) = SCALE * Cardinality(Averaged(f)')
    BY <2>3, <2>6, <2>7, <2>8, <2>9
  <2> QED
    BY <1>11, <2>10 DEF h
<1>15. AveragedSoFar'
  BY <1>1, <1>2, <1>12, <1>14 DEF AveragedSoFar
<1>16. MemoryType' /\ BlocksFit'
  BY <1>1, <1>2, BlocksUnchanged
<1> QED
  BY <1>1, <1>15, <1>16 DEF AccessesInv, InTables

\* memory.tsv is written when no block is left.
LEMMA WriteMemoryAccesses ==
  ASSUME AccessesInv, WriteMemory
  PROVE  AccessesInv'
<1>1. pc = "average" /\ pc' = "done" /\ left = {} /\ UNCHANGED <<i, mem, block, blocks, left, ave>>
  BY DEF WriteMemory, accesses
<1>2. MemoryType' /\ BlocksFit'
  BY <1>1, BlocksUnchanged DEF AccessesInv
<1>3. AveragedSoFar'
  BY <1>1 DEF AccessesInv, AveragedSoFar, Averaged
<1> QED
  BY <1>1, <1>2, <1>3 DEF AccessesInv, InTables

\* The sections before leave the blocks empty; a program that has crashed has
\* no tables to speak of.
LEMMA OtherAccesses ==
  ASSUME AccessesInv,
         ReadOpcode \/ OpcodesRead \/ ClearOpcodes \/ ClearCategories \/ PrintLine \/ NextFile
         \/ OpenInstrs \/ SkipRow \/ LookUp \/ Sort \/ PrintInstruction \/ Crash
  PROVE  AccessesInv'
<1>1. UNCHANGED accesses
  BY DEF ReadOpcode, OpcodesRead, ClearOpcodes, ClearCategories, PrintLine, NextFile,
         OpenInstrs, SkipRow, LookUp, Sort, PrintInstruction, Crash
<1>2. CASE Crash
  <2>1. pc' = "crashed"
    BY <1>2 DEF Crash
  <2> QED
    BY <2>1 DEF AccessesInv, InTables
<1>3. CASE ~Crash
  <2>1. InTables /\ pc' \notin {"memory", "average", "done"}
    BY <1>3 DEF ReadOpcode, OpcodesRead, ClearOpcodes, ClearCategories, PrintLine, NextFile,
       FileWritten, OpenInstrs, SkipRow, LookUp, Sort, PrintInstruction, InTables
  <2> QED
    BY <1>1, <2>1 DEF accesses, AccessesInv, InTables
<1> QED
  BY <1>2, <1>3

\* The invariant of the accesses.
LEMMA AccessesInvariant == Spec => []AccessesInv
<1>1. ASSUME AccessesInv, [Next]_vars PROVE AccessesInv'
  <2>1. CASE OpenMemory  BY <1>1, <2>1, OpenMemoryAccesses
  <2>2. CASE ReadMemory  BY <1>1, <2>2, ReadMemoryAccesses
  <2>3. CASE MemoryRead  BY <1>1, <2>3, MemoryReadAccesses
  <2>4. CASE Average  BY <1>1, <2>4, AverageAccesses
  <2>5. CASE WriteMemory  BY <1>1, <2>5, WriteMemoryAccesses
  <2>6. CASE ReadOpcode \/ OpcodesRead \/ ClearOpcodes \/ ClearCategories \/ PrintLine \/ NextFile
             \/ OpenInstrs \/ SkipRow \/ LookUp \/ Sort \/ PrintInstruction \/ Crash
    BY <1>1, <2>6, OtherAccesses
  <2>7. CASE UNCHANGED vars
    <3>1. UNCHANGED <<pc, i, mem, block, blocks, left, ave>>
      BY <2>7 DEF vars, accesses
    <3>2. AveragedSoFar => AveragedSoFar'
      BY <3>1 DEF AveragedSoFar, Averaged
    <3> QED
      BY <1>1, <3>1, <3>2, BlocksUnchanged DEF AccessesInv, InTables
  <2> QED
    BY <1>1, <2>1, <2>2, <2>3, <2>4, <2>5, <2>6, <2>7 DEF Next
<1> QED
  BY <1>1, InitAccesses, PTL DEF Spec

(***************************************************************************)
(* The block of an instruction has the values of all its rows and of no    *)
(* other instruction's, for memory tables of any size.                     *)
(***************************************************************************)
THEOREM BlocksTheorem == Spec => []BlocksHaveTheirRows
<1>1. ASSUME AccessesInv, pc = "average" PROVE BlocksHaveTheirRows
  <2>1. BlocksFit /\ i = {}
    BY <1>1 DEF AccessesInv, AveragedSoFar
  <2>2. \A b : RowsOf(b) = {k \in DOMAIN mem : k[1] = b}
    BY <2>1 DEF RowsOf
  <2>3. DOMAIN blocks = {k[1] : k \in DOMAIN mem}
    BY <2>1 DEF BlocksFit
  <2>4. ASSUME NEW b \in DOMAIN blocks, NEW K, K = {k \in DOMAIN mem : k[1] = b}
        PROVE  /\ Len(blocks[b].distribution) = Cardinality(K)
               /\ blocks[b].total.read = Sum([k \in K |-> mem[k].read], K)
               /\ blocks[b].total.write = Sum([k \in K |-> mem[k].write], K)
    <3>1. Fits(blocks[b], K)
      BY <2>1, <2>2, <2>4 DEF BlocksFit
    <3>2. /\ [k \in K |-> mem[k]["read"]] = [k \in K |-> mem[k].read]
          /\ [k \in K |-> mem[k]["write"]] = [k \in K |-> mem[k].write]
      OBVIOUS
    <3> QED
      BY <3>1, <3>2 DEF Fits, Kind
  <2> QED
    BY <2>3, <2>4 DEF BlocksHaveTheirRows
<1>2. AccessesInv => BlocksHaveTheirRows
  BY <1>1 DEF BlocksHaveTheirRows
<1> QED
  BY <1>2, AccessesInvariant, PTL

(***************************************************************************)
(* The shares of all ranks add up to the instructions that read, and that  *)
(* write, whatever the sort makes of equal numbers of accesses.            *)
(***************************************************************************)
THEOREM SharesTheorem == Spec => []SharesAddUp
<1>1. ASSUME AccessesInv, pc = "done" PROVE SharesAddUp
  <2>1. AveragedSoFar /\ left = {}
    BY <1>1 DEF AccessesInv
  <2>2. \A f \in Kind :
          Sum([n \in DOMAIN ave |-> ave[n][f]], DOMAIN ave)
            = SCALE * Cardinality({b \in DOMAIN blocks : blocks[b].total[f] > 0})
    <3>1. \A f : Averaged(f) = {b \in DOMAIN blocks : blocks[b].total[f] > 0}
      BY <2>1 DEF Averaged
    <3> QED
      BY <2>1, <3>1 DEF AveragedSoFar
  <2>3. /\ [n \in DOMAIN ave |-> ave[n]["read"]] = [n \in DOMAIN ave |-> ave[n].read]
        /\ [n \in DOMAIN ave |-> ave[n]["write"]] = [n \in DOMAIN ave |-> ave[n].write]
    OBVIOUS
  <2>4. /\ {b \in DOMAIN blocks : blocks[b].total["read"] > 0}
             = {b \in DOMAIN blocks : blocks[b].total.read > 0}
        /\ {b \in DOMAIN blocks : blocks[b].total["write"] > 0}
             = {b \in DOMAIN blocks : blocks[b].total.write > 0}
    OBVIOUS
  <2>5. "read" \in Kind /\ "write" \in Kind
    BY DEF Kind
  <2> QED
    BY <2>2, <2>3, <2>4, <2>5 DEF SharesAddUp
<1>2. AccessesInv => SharesAddUp
  BY <1>1 DEF SharesAddUp
<1> QED
  BY <1>2, AccessesInvariant, PTL
=============================================================================

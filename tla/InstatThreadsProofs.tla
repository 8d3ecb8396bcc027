------------------------- MODULE InstatThreadsProofs -------------------------
(***************************************************************************)
(* Theorems about the tool with any number of threads.                     *)
(*                                                                         *)
(* Each bound is proved together with the same bound of what a thread has  *)
(* loaded and not stored yet: whatever it overwrites, the store then keeps *)
(* the bound.  The lower bounds count the calls that met no other, and     *)
(* such a call is alone in on_ins(), so that they never rise while another *)
(* thread holds a loaded value.                                            *)
(***************************************************************************)
EXTENDS Integers, InstatThreads, OperatorProofs

\* What a thread has of its own: an instruction while it is in on_ins(), an
\* iterator that starts at the first entry, and a length of the list that its
\* memory has had.
InCall ==
  \A t \in Thread :
    /\ Active(t) => ins[t] \in Opcode
    /\ pc[t] # "write" => i[t] = 1
    /\ pc[t] = "push" => temp[t] <= Len(items)

\* The list is empty, or a thread will yet clear it.
ListOwned == size = 0 \/ \E t \in Thread : pc[t] \in {"write", "clear"}

\* A call that has met no other is the only one.
AloneInside ==
  \A t \in Thread :
    Active(t) /\ ~overlap[t] => \A u \in Thread \ {t} : ~Active(u)

\* Such a call finds the list empty and puts its own entry there.
OwnEntry ==
  \A t \in Thread :
    Active(t) /\ ~overlap[t] =>
      /\ pc[t] = "push" => temp[t] = 0
      /\ pc[t] = "write" =>
           size = 1 /\ items[1] = Target[ins[t]] /\ i[t] \in 1 .. 2

\* A call that is alone records its address on its way through the loop.
Early(t) == \/ pc[t] \in {"checkpoint", "scan", "push"}
            \/ pc[t] = "write" /\ i[t] = 1

Exact(t) == /\ ~crashed
            /\ memory = IF Early(t) THEN before
                        ELSE write(before, ins[t], Target[ins[t]])

RecordedOnce == \A t \in Thread : Active(t) /\ ~overlap[t] => Exact(t)

\* The bounds of total hold of the values that threads have loaded.
TotalLoaded ==
  /\ TotalBetween
  /\ \A t \in Thread : pc[t] = "add" => temp[t] \in solo .. done

\* The bounds of a count hold of the values that threads have loaded, through
\* pointers to rows that are still there.
CountLoaded ==
  ~stale =>
    /\ \A o \in Opcode : Counted(opcodes, o, "count") \in alone[o] .. ran[o]
    /\ \A t \in Thread :
         pc[t] = "store" /\ ~dangling[t] =>
           opcodes.stored[ins[t]]["count"] + temp[t]
             \in alone[ins[t]] .. ran[ins[t]]

\* Since a checkpoint, or a call that met another, total has passed no multiple
\* of PERIOD but one at which the checkpoint was written.
QuietBound ==
  /\ quiet <= IF total % PERIOD = 0 THEN PERIOD ELSE total % PERIOD
  /\ \A t \in Thread :
       Active(t) /\ ~overlap[t] =>
         /\ pc[t] # "checkpoint" /\ total % PERIOD = 0 => quiet = 0
         /\ pc[t] = "add" => temp[t] = total

IInv ==
  /\ TypeOK /\ InCall /\ ListOwned /\ AloneInside /\ OwnEntry
  /\ RecordedOnce /\ TotalLoaded /\ CountLoaded /\ QuietBound

(***************************************************************************)
(* The table of opcodes.                                                   *)
(***************************************************************************)
\* A store through a pointer changes the one row it points to.
LEMMA SetCountKeeps ==
  ASSUME opcodes \in Store(Opcode, Field), NEW o \in Opcode, NEW n \in Nat
  PROVE  /\ SetCount(o, n) \in Store(Opcode, Field)
         /\ SetCount(o, n).stored = opcodes.stored
         /\ \A k \in Opcode :
              Counted(SetCount(o, n), k, "count") =
                IF k = o THEN opcodes.stored[o]["count"] + n
                         ELSE Counted(opcodes, k, "count")
<1>1. /\ opcodes.cached \in SUBSET Opcode
      /\ opcodes.delta \in [Opcode -> [Field -> Nat]]
      /\ opcodes.stored \in [Opcode -> [Field -> Nat]]
  BY DEF Store
<1> DEFINE row == [opcodes.delta[o] EXCEPT !["count"] = n]
           new == [opcodes.delta EXCEPT ![o] = row]
<1>2. row \in [Field -> Nat] /\ row["count"] = n
  BY <1>1 DEF Field
<1>3. SetCount(o, n) = [opcodes EXCEPT !.delta = new]
  BY Zenon DEF SetCount
<1> HIDE DEF row
<1>4. new \in [Opcode -> [Field -> Nat]]
  BY <1>1, <1>2
<1>5. \A k \in Opcode : new[k]["count"] = IF k = o THEN n ELSE opcodes.delta[k]["count"]
  BY <1>1, <1>2
<1> HIDE DEF new
<1>6. SetCount(o, n) =
        [cached |-> opcodes.cached, delta |-> new, stored |-> opcodes.stored]
  BY <1>3, StoreParts
<1>7. QED
  BY <1>1, <1>4, <1>5, <1>6 DEF Store, Counted

\* An evicted row changes in the file, the others do not.
LEMMA EvictStored ==
  ASSUME NEW ks \in Store(Opcode, Field), NEW E, NEW o \in Opcode, o \notin E
  PROVE  Evict(ks, E).stored[o] = ks.stored[o]
BY DEF Evict, Store

\* opcodes.get() keeps the type and the counts, and the file's rows of all
\* opcodes but those whose pointers it leaves dangling.
LEMMA GetOpcodes ==
  ASSUME TypeOK, NEW o \in Opcode, get(o)
  PROVE  /\ opcodes' \in Store(Opcode, Field)
         /\ dangling' \in [Thread -> BOOLEAN]
         /\ \A k \in Opcode :
              Counted(opcodes', k, "count") = Counted(opcodes, k, "count")
         /\ \A t \in Thread :
              Holds(t) /\ ins[t] \in Opcode /\ ~dangling'[t] =>
                /\ ~dangling[t]
                /\ opcodes'.stored[ins[t]] = opcodes.stored[ins[t]]
<1>1. opcodes \in Store(Opcode, Field) /\ dangling \in [Thread -> BOOLEAN]
  BY DEF TypeOK
<1>2. PICK E \in Victims(opcodes.cached, o, OPCODES_CACHE) :
        opcodes' = Get(opcodes, o, E) /\ dangling' = Dangle(E)
  BY Zenon DEF get
<1>3. "count" \in Field
  BY DEF Field
<1>4. /\ opcodes' \in Store(Opcode, Field)
      /\ \A k \in Opcode :
           Counted(opcodes', k, "count") = Counted(opcodes, k, "count")
  BY <1>1, <1>2, <1>3, GetKeeps
<1>5. dangling' \in [Thread -> BOOLEAN]
  BY <1>1, <1>2, Zenon DEF Dangle
<1>6. ASSUME NEW t \in Thread, Holds(t), ins[t] \in Opcode, ~dangling'[t]
      PROVE  ~dangling[t] /\ opcodes'.stored[ins[t]] = opcodes.stored[ins[t]]
  <2>1. ~dangling[t] /\ ins[t] \notin E
    BY <1>2, <1>6, Zenon DEF Dangle
  <2>2. Evict(opcodes, E).stored[ins[t]] = opcodes.stored[ins[t]]
    BY <1>1, <1>6, <2>1, EvictStored
  <2>3. Get(opcodes, o, E).stored = Evict(opcodes, E).stored
    BY <1>1, EvictType, StoreParts DEF Get
  <2>4. QED
    BY <1>2, <2>1, <2>2, <2>3
<1>7. QED
  BY <1>4, <1>5, <1>6

\* So does opcodes.save().
LEMMA SaveOpcodes ==
  ASSUME TypeOK, NEW t0 \in Thread, Checkpoint(t0)
  PROVE  /\ opcodes' \in Store(Opcode, Field)
         /\ dangling' \in [Thread -> BOOLEAN]
         /\ \A k \in Opcode :
              Counted(opcodes', k, "count") = Counted(opcodes, k, "count")
         /\ \A t \in Thread :
              Holds(t) /\ ins[t] \in Opcode /\ ~dangling'[t] =>
                /\ ~dangling[t]
                /\ opcodes'.stored[ins[t]] = opcodes.stored[ins[t]]
<1>1. opcodes \in Store(Opcode, Field) /\ dangling \in [Thread -> BOOLEAN]
  BY DEF TypeOK
<1>2. /\ opcodes' = Evict(opcodes, opcodes.cached)
      /\ dangling' = Dangle(opcodes.cached)
  BY Zenon DEF Checkpoint, Save
<1>3. "count" \in Field
  BY DEF Field
<1>4. /\ opcodes' \in Store(Opcode, Field)
      /\ \A k \in Opcode :
           Counted(opcodes', k, "count") = Counted(opcodes, k, "count")
  BY <1>1, <1>2, <1>3, EvictType, EvictCounted
<1>5. dangling' \in [Thread -> BOOLEAN]
  BY <1>1, <1>2, Zenon DEF Dangle
<1>6. ASSUME NEW t \in Thread, Holds(t), ins[t] \in Opcode, ~dangling'[t]
      PROVE  ~dangling[t] /\ opcodes'.stored[ins[t]] = opcodes.stored[ins[t]]
  <2>1. ~dangling[t] /\ ins[t] \notin opcodes.cached
    BY <1>2, <1>6, Zenon DEF Dangle
  <2>2. QED
    BY <1>1, <1>2, <1>6, <2>1, EvictStored
<1>7. QED
  BY <1>4, <1>5, <1>6

\* A store through a pointer to a row that is still there overwrites its count
\* with the loaded value plus one.
LEMMA StoreOpcodes ==
  ASSUME TypeOK, NEW t \in Thread, ins[t] \in Opcode, StoreCount(t)
  PROVE  /\ opcodes' \in Store(Opcode, Field)
         /\ ~dangling[t] =>
              /\ opcodes'.stored = opcodes.stored
              /\ \A k \in Opcode :
                   Counted(opcodes', k, "count") =
                     IF k = ins[t]
                     THEN opcodes.stored[k]["count"] + (temp[t] + 1)
                     ELSE Counted(opcodes, k, "count")
<1>1. /\ opcodes \in Store(Opcode, Field)
      /\ temp[t] + 1 \in Nat
      /\ opcodes' \in Stored(t, temp[t] + 1)
  BY DEF TypeOK, StoreCount
<1>2. CASE dangling[t]
  <2>1. opcodes' = opcodes
          \/ \E o \in opcodes.cached : opcodes' = SetCount(o, temp[t] + 1)
    BY <1>1, <1>2, Zenon DEF Stored
  <2>2. opcodes.cached \subseteq Opcode
    BY <1>1 DEF Store
  <2>3. QED
    BY <1>1, <1>2, <2>1, <2>2, SetCountKeeps
<1>3. CASE ~dangling[t]
  <2>1. opcodes' = SetCount(ins[t], temp[t] + 1)
    BY <1>1, <1>3, Zenon DEF Stored
  <2>2. QED
    BY <1>1, <2>1, SetCountKeeps
<1>4. QED
  BY <1>2, <1>3

(***************************************************************************)
(* Type correctness.                                                       *)
(***************************************************************************)
\* instructions.write() keeps the type of memory.tbl.
LEMMA WriteType ==
  ASSUME NEW m \in [Opcode \X Entry -> Nat], NEW o \in Opcode, NEW a \in Entry
  PROVE  write(m, o, a) \in [Opcode \X Entry -> Nat]
<1> DEFINE k == <<o, a>>
<1>1. k \in Opcode \X Entry
  OBVIOUS
<1> HIDE DEF k
<1>2. [m EXCEPT ![k] = @ + 1] \in [Opcode \X Entry -> Nat]
  BY <1>1
<1>3. QED
  BY <1>2 DEF write, k

\* An entry that is stored through push_back() is in a list of entries, which
\* is as long as before or one longer.
LEMMA Grown ==
  ASSUME NEW s \in Seq(Entry), NEW n \in Nat, n <= Len(s), NEW e \in Entry,
         NEW new, new = IF n < Len(s) THEN [s EXCEPT ![n + 1] = e] ELSE Append(s, e)
  PROVE  /\ new \in Seq(Entry) /\ Len(new) \in Nat
         /\ Len(s) <= Len(new) /\ n + 1 <= Len(new)
         /\ new[n + 1] = e
<1>1. CASE n < Len(s)
  BY <1>1
<1>2. CASE ~(n < Len(s))
  BY <1>2
<1>3. QED
  BY <1>1, <1>2

\* The initial state has the types.
LEMMA TypeInit == Init => TypeOK /\ InCall
<1> SUFFICES ASSUME Init PROVE TypeOK /\ InCall
  OBVIOUS
<1>1. /\ dangling \in [Thread -> BOOLEAN] /\ overlap \in [Thread -> BOOLEAN]
      /\ stale \in BOOLEAN /\ crashed \in BOOLEAN
  BY Zenon DEF Init
<1>2. opcodes \in Store(Opcode, Field)
  BY EmptyStoreType DEF Init
<1>3. items \in Seq(Entry) /\ Len(items) \in Nat
  <2>1. Garbage \in Entry
    BY DEF Entry
  <2>2. items = [n \in 1 .. CAPACITY |-> Garbage]
    BY DEF Init
  <2>3. QED
    BY <2>1, <2>2, ThreadsAssumption
<1>4. /\ memory \in [Opcode \X Entry -> Nat]
      /\ before \in [Opcode \X Entry -> Nat]
  BY DEF Init, NoWrites
<1>5. /\ pc \in [Thread -> PC] /\ ins \in [Thread -> Opcode \cup {NoIns}]
      /\ temp \in [Thread -> Nat] /\ i \in [Thread -> 1 .. Len(items) + 1]
      /\ size \in 0 .. Len(items)
  <2> DEFINE l == Len(items)
  <2>1. l \in Nat
    BY <1>3
  <2> HIDE DEF l
  <2>2. i \in [Thread -> 1 .. l + 1] /\ size \in 0 .. l
    BY <2>1 DEF Init
  <2>3. pc \in [Thread -> PC] /\ ins \in [Thread -> Opcode \cup {NoIns}]
    BY DEF Init, PC
  <2>4. temp \in [Thread -> Nat]
    BY DEF Init
  <2>5. QED
    BY <2>2, <2>3, <2>4 DEF l
<1>6. /\ total \in Nat /\ calls \in Nat /\ done \in Nat /\ solo \in Nat
      /\ quiet \in Nat /\ ran \in [Opcode -> Nat] /\ alone \in [Opcode -> Nat]
  BY DEF Init
<1>7. InCall
  BY DEF Init, InCall, Active
<1>8. QED
  BY <1>1, <1>2, <1>3, <1>4, <1>5, <1>6, <1>7 DEF TypeOK

\* Every step keeps the types.
LEMMA TypeNext ==
  ASSUME TypeOK, InCall, [Next]_vars
  PROVE  TypeOK' /\ InCall'
<1> USE ThreadsAssumption
<1>1. ASSUME NEW t \in Thread, NEW o \in Opcode, on_ins(t, o)
      PROVE  TypeOK' /\ InCall'
  <2>1. overlap' \in [Thread -> BOOLEAN]
    BY <1>1, Zenon DEF on_ins, Active
  <2>2. /\ pc[t] = "app"
        /\ pc' = [pc EXCEPT ![t] = IF CheckpointDue THEN "checkpoint" ELSE "scan"]
        /\ ins' = [ins EXCEPT ![t] = o]
        /\ calls' = calls + 1
        /\ UNCHANGED <<temp, i, list, rows, totals, crashed>>
    BY <1>1, Zenon DEF on_ins, Step
  <2>3. before' \in [Opcode \X Entry -> Nat]
    <3>1. before' = memory \/ before' = NoWrites
      BY <1>1, Zenon DEF on_ins
    <3>2. memory \in [Opcode \X Entry -> Nat]
      BY DEF TypeOK
    <3>3. NoWrites \in [Opcode \X Entry -> Nat]
      BY DEF NoWrites
    <3>4. QED
      BY <3>1, <3>2, <3>3
  <2>4. QED
    BY <2>1, <2>2, <2>3 DEF TypeOK, InCall, Active, PC, list, rows, totals
<1>2. ASSUME NEW t \in Thread, Checkpoint(t)
      PROVE  TypeOK' /\ InCall'
  <2>1. opcodes' \in Store(Opcode, Field) /\ dangling' \in [Thread -> BOOLEAN]
    BY <1>2, SaveOpcodes
  <2>2. QED
    BY <1>2, <2>1 DEF TypeOK, InCall, Active, PC, Checkpoint, Step, list
<1>3. ASSUME NEW t \in Thread, ScanMemory(t)
      PROVE  TypeOK' /\ InCall'
  BY <1>3 DEF TypeOK, InCall, Active, PC, ScanMemory, Step, list, rows, totals
<1>4. ASSUME NEW t \in Thread, push_back(t)
      PROVE  TypeOK' /\ InCall'
  <2>1. Target[ins[t]] \in Entry
    BY <1>4 DEF InCall, Active, push_back, Step, Entry
  <2>2. temp[t] \in Nat /\ temp[t] <= Len(items)
    BY <1>4 DEF TypeOK, InCall, push_back, Step
  <2>3. /\ items' \in Seq(Entry) /\ Len(items') \in Nat
        /\ Len(items) <= Len(items') /\ temp[t] + 1 <= Len(items')
    BY <1>4, <2>1, <2>2, Grown DEF TypeOK, push_back
  <2>4. size' = temp[t] + 1
    BY <1>4 DEF push_back, NewSize
  <2>5. i' \in [Thread -> 1 .. Len(items') + 1]
    BY <1>4, <2>3 DEF TypeOK, push_back
  <2>6. QED
    BY <1>4, <2>2, <2>3, <2>4, <2>5
       DEF TypeOK, InCall, Active, PC, push_back, Step, rows, totals
<1>5. ASSUME NEW t \in Thread, WriteMemory(t)
      PROVE  TypeOK' /\ InCall'
  <2>1. ins[t] \in Opcode /\ items[i[t]] \in Entry /\ i[t] + 1 \in 1 .. Len(items) + 1
    BY <1>5 DEF TypeOK, InCall, Active, WriteMemory, Writing
  <2>2. memory' \in [Opcode \X Entry -> Nat]
    BY <1>5, <2>1, WriteType DEF TypeOK, WriteMemory
  <2>3. QED
    BY <1>5, <2>1, <2>2
       DEF TypeOK, InCall, Active, WriteMemory, Writing, rows, totals
<1>6. ASSUME NEW t \in Thread, Overrun(t)
      PROVE  TypeOK' /\ InCall'
  BY <1>6 DEF TypeOK, InCall, Active, Overrun, thread, list, rows, totals
<1>7. ASSUME NEW t \in Thread, MemoryWritten(t)
      PROVE  TypeOK' /\ InCall'
  BY <1>7
     DEF TypeOK, InCall, Active, PC, MemoryWritten, Step, list, rows, totals
<1>8. ASSUME NEW t \in Thread, ClearList(t)
      PROVE  TypeOK' /\ InCall'
  BY <1>8 DEF TypeOK, InCall, Active, PC, ClearList, Step, clear, rows, totals
<1>9. ASSUME NEW t \in Thread, GetOpcode(t)
      PROVE  TypeOK' /\ InCall'
  <2>1. get(ins[t]) /\ ins[t] \in Opcode
    BY <1>9 DEF GetOpcode, Step, InCall, Active
  <2>2. opcodes' \in Store(Opcode, Field) /\ dangling' \in [Thread -> BOOLEAN]
    BY <2>1, GetOpcodes
  <2>3. QED
    BY <1>9, <2>2 DEF TypeOK, InCall, Active, PC, GetOpcode, Step, list, totals
<1>10. ASSUME NEW t \in Thread, LoadCount(t)
       PROVE  TypeOK' /\ InCall'
  <2>1. PICK o \in IF dangling[t] THEN Opcode ELSE {ins[t]} :
          temp' = [temp EXCEPT ![t] = opcodes.delta[o]["count"]]
    BY <1>10, Zenon DEF LoadCount
  <2>2. o \in Opcode
    BY <1>10, <2>1 DEF LoadCount, Step, InCall, Active
  <2>3. opcodes.delta[o]["count"] \in Nat
    BY <2>2 DEF TypeOK, Store, Field
  <2>4. QED
    BY <1>10, <2>1, <2>3
       DEF TypeOK, InCall, Active, PC, LoadCount, Step, list, rows, totals
<1>11. ASSUME NEW t \in Thread, StoreCount(t)
       PROVE  TypeOK' /\ InCall'
  <2>1. ins[t] \in Opcode
    BY <1>11 DEF StoreCount, Step, InCall, Active
  <2>2. opcodes' \in Store(Opcode, Field)
    BY <1>11, <2>1, StoreOpcodes
  <2>3. stale' \in BOOLEAN /\ dangling' \in [Thread -> BOOLEAN]
    BY <1>11, Zenon DEF StoreCount, TypeOK
  <2>4. TypeOK'
    BY <1>11, <2>1, <2>2, <2>3 DEF TypeOK, PC, StoreCount, Step, list, totals
  <2>5. InCall'
    BY <1>11, <2>1 DEF TypeOK, InCall, Active, StoreCount, Step, list, totals
  <2>6. QED
    BY <2>4, <2>5
<1>12. ASSUME NEW t \in Thread, LoadTotal(t)
       PROVE  TypeOK' /\ InCall'
  <2>1. TypeOK'
    BY <1>12 DEF TypeOK, PC, LoadTotal, Step, list, rows, totals
  <2>2. InCall'
    BY <1>12 DEF TypeOK, InCall, Active, LoadTotal, Step, list
  <2>3. QED
    BY <2>1, <2>2
<1>13. ASSUME NEW t \in Thread, exec(t)
       PROVE  TypeOK' /\ InCall'
  <2>1. /\ overlap' \in [Thread -> BOOLEAN]
        /\ before' \in [Opcode \X Entry -> Nat]
    BY <1>13 DEF TypeOK, exec, NoWrites
  <2>2. /\ total' \in Nat /\ done' \in Nat /\ solo' \in Nat /\ quiet' \in Nat
        /\ pc' \in [Thread -> PC] /\ ins' \in [Thread -> Opcode \cup {NoIns}]
        /\ temp' \in [Thread -> Nat]
    BY <1>13 DEF TypeOK, PC, exec, Step
  <2>3. TypeOK'
    BY <1>13, <2>1, <2>2 DEF TypeOK, exec, Step, list, rows
  <2>4. InCall'
    BY <1>13 DEF TypeOK, InCall, Active, exec, Step, list
  <2>5. QED
    BY <2>3, <2>4
<1>14. ASSUME NEW o \in Opcode, instruction(o)
       PROVE  TypeOK' /\ InCall'
  <2>1. opcodes' \in Store(Opcode, Field) /\ dangling' \in [Thread -> BOOLEAN]
    BY <1>14, GetOpcodes DEF instruction
  <2>2. QED
    BY <1>14, <2>1 DEF TypeOK, InCall, Active, instruction, thread, list, totals
<1>15. CASE UNCHANGED vars
  BY <1>15 DEF TypeOK, InCall, Active, vars, thread, list, rows, totals
<1>16. QED
  BY <1>1, <1>2, <1>3, <1>4, <1>5, <1>6, <1>7, <1>8, <1>9, <1>10, <1>11,
     <1>12, <1>13, <1>14, <1>15, Zenon DEF Next, Handler

(***************************************************************************)
(* The list.                                                               *)
(***************************************************************************)
ListInv == ListOwned /\ AloneInside /\ OwnEntry

\* What on_ins() tells a call about the others.
LEMMA Meet ==
  ASSUME TypeOK, NEW t \in Thread, NEW o \in Opcode, on_ins(t, o)
  PROVE  /\ pc[t] = "app" /\ pc'[t] \in {"checkpoint", "scan"}
         /\ ~overlap'[t] => \A u \in Thread \ {t} : ~Active(u)
         /\ \A u \in Thread \ {t} :
              pc'[u] = pc[u] /\ (~overlap'[u] => ~Active(u))
<1>1. pc[t] = "app" /\ pc'[t] \in {"checkpoint", "scan"}
      /\ \A u \in Thread \ {t} : pc'[u] = pc[u]
  BY DEF on_ins, Step, TypeOK
<1>2. ~overlap'[t] => \A u \in Thread \ {t} : ~Active(u)
  BY Zenon DEF on_ins
<1>3. \A u \in Thread \ {t} : ~overlap'[u] => ~Active(u)
  BY Zenon DEF on_ins
<1>4. QED
  BY <1>1, <1>2, <1>3

\* A step outside of the list's code, by one thread.
Elsewhere(t) ==
  /\ pc[t] \notin {"app", "push", "write", "clear"}
  /\ pc'[t] \notin {"app", "push", "write", "clear"}
  /\ \A u \in Thread \ {t} : pc'[u] = pc[u] /\ temp'[u] = temp[u]
  /\ UNCHANGED <<list, i, ins, overlap>>

\* Every step keeps the list's invariant.
LEMMA ListNext ==
  ASSUME TypeOK, InCall, ListInv, [Next]_vars
  PROVE  ListInv'
<1> USE DEF ListInv, ListOwned, AloneInside, OwnEntry, Active
<1>1. ASSUME NEW t \in Thread, NEW o \in Opcode, on_ins(t, o)
      PROVE  ListInv'
  <2>1. UNCHANGED list /\ ins' = [ins EXCEPT ![t] = o]
    BY <1>1, Zenon DEF on_ins
  <2>2. QED
    BY <1>1, <2>1, Meet DEF list
<1>2. ASSUME NEW t \in Thread, Elsewhere(t)
      PROVE  ListInv'
  BY <1>2 DEF Elsewhere, list
<1>3. ASSUME NEW t \in Thread,
             Checkpoint(t) \/ GetOpcode(t) \/ LoadCount(t) \/ StoreCount(t)
               \/ LoadTotal(t)
      PROVE  Elsewhere(t)
  <2>1. CASE Checkpoint(t)
    BY <2>1 DEF Checkpoint, Step, Elsewhere, TypeOK
  <2>2. CASE GetOpcode(t)
    BY <2>2 DEF GetOpcode, Step, Elsewhere, TypeOK
  <2>3. CASE LoadCount(t)
    BY <2>3 DEF LoadCount, Step, Elsewhere, TypeOK
  <2>4. CASE StoreCount(t)
    BY <2>4 DEF StoreCount, Step, Elsewhere, TypeOK
  <2>5. CASE LoadTotal(t)
    BY <2>5 DEF LoadTotal, Step, Elsewhere, TypeOK
  <2>6. QED
    BY <1>3, <2>1, <2>2, <2>3, <2>4, <2>5, Zenon
<1>4. ASSUME NEW t \in Thread, ScanMemory(t)
      PROVE  ListInv'
  BY <1>4 DEF ScanMemory, Step, TypeOK, list
<1>5. ASSUME NEW t \in Thread, push_back(t)
      PROVE  ListInv'
  <2>1. temp[t] \in Nat /\ temp[t] <= Len(items) /\ ins[t] \in Opcode
    BY <1>5 DEF TypeOK, InCall, push_back, Step
  <2>2. Target[ins[t]] \in Entry
    BY <2>1, ThreadsAssumption DEF Entry
  <2>3. items'[temp[t] + 1] = Target[ins[t]]
    BY <1>5, <2>1, <2>2, Grown DEF TypeOK, push_back
  <2>4. QED
    BY <1>5, <2>1, <2>3 DEF push_back, Step, TypeOK, InCall, NewSize
<1>6. ASSUME NEW t \in Thread, WriteMemory(t)
      PROVE  ListInv'
  BY <1>6 DEF WriteMemory, Writing, AtEnd, TypeOK
<1>7. ASSUME NEW t \in Thread, Overrun(t)
      PROVE  ListInv'
  BY <1>7 DEF Overrun, thread, list
<1>8. ASSUME NEW t \in Thread, MemoryWritten(t)
      PROVE  ListInv'
  BY <1>8 DEF MemoryWritten, Step, TypeOK, list
<1>9. ASSUME NEW t \in Thread, ClearList(t)
      PROVE  ListInv'
  BY <1>9 DEF ClearList, Step, TypeOK, clear
<1>10. ASSUME NEW t \in Thread, exec(t)
       PROVE  ListInv'
  BY <1>10 DEF exec, Step, TypeOK, list
<1>11. ASSUME NEW o \in Opcode, instruction(o)
       PROVE  ListInv'
  BY <1>11 DEF instruction, thread, list
<1>12. CASE UNCHANGED vars
  BY <1>12 DEF vars, thread, list
<1>13. QED
  BY <1>1, <1>2, <1>3, <1>4, <1>5, <1>6, <1>7, <1>8, <1>9, <1>10, <1>11,
     <1>12, Zenon DEF Next, Handler

(***************************************************************************)
(* The counts and the total.                                               *)
(***************************************************************************)
\* A step of a call leaves what is the other threads'.
LEMMA OwnStep ==
  ASSUME TypeOK, NEW t \in Thread, Handler(t), NEW u \in Thread, u # t
  PROVE  /\ pc'[u] = pc[u] /\ ins'[u] = ins[u] /\ temp'[u] = temp[u]
         /\ overlap'[u] = overlap[u]
<1> USE DEF TypeOK, Step
<1>1. CASE Checkpoint(t)
  BY <1>1 DEF Checkpoint
<1>2. CASE ScanMemory(t)
  BY <1>2 DEF ScanMemory
<1>3. CASE push_back(t)
  BY <1>3 DEF push_back
<1>4. CASE WriteMemory(t)
  BY <1>4 DEF WriteMemory
<1>5. CASE Overrun(t)
  BY <1>5 DEF Overrun, thread
<1>6. CASE MemoryWritten(t)
  BY <1>6 DEF MemoryWritten
<1>7. CASE ClearList(t)
  BY <1>7 DEF ClearList
<1>8. CASE GetOpcode(t)
  BY <1>8 DEF GetOpcode
<1>9. CASE LoadCount(t)
  BY <1>9 DEF LoadCount
<1>10. CASE StoreCount(t)
  BY <1>10 DEF StoreCount
<1>11. CASE LoadTotal(t)
  BY <1>11 DEF LoadTotal
<1>12. CASE exec(t)
  BY <1>12 DEF exec
<1>13. QED
  BY <1>1, <1>2, <1>3, <1>4, <1>5, <1>6, <1>7, <1>8, <1>9, <1>10, <1>11,
     <1>12, Zenon DEF Handler

\* A call that is alone and in on_ins() after a step of a call is the one that
\* made it.
LEMMA OwnAlone ==
  ASSUME TypeOK, AloneInside, NEW t \in Thread, Handler(t),
         NEW u \in Thread, Active(u)', ~overlap'[u]
  PROVE  u = t
<1>1. Active(t)
  BY DEF Handler, Checkpoint, ScanMemory, push_back, WriteMemory, Writing, Overrun,
         MemoryWritten, ClearList, GetOpcode, LoadCount, StoreCount, LoadTotal,
         exec, Step, Active
<1>2. SUFFICES ASSUME u # t PROVE FALSE
  OBVIOUS
<1>3. Active(u) /\ ~overlap[u]
  BY <1>2, OwnStep DEF Active
<1>4. QED
  BY <1>1, <1>2, <1>3 DEF AloneInside

\* Every step keeps what a call that is alone has recorded.
LEMMA RecordedNext ==
  ASSUME TypeOK, InCall, AloneInside, OwnEntry, RecordedOnce, [Next]_vars
  PROVE  RecordedOnce'
<1>1. ASSUME NEW t \in Thread, NEW o \in Opcode, on_ins(t, o)
      PROVE  RecordedOnce'
  <2>1. /\ ~crashed' /\ memory' = memory
        /\ before' = IF AllIdle THEN memory ELSE NoWrites
    BY <1>1, Zenon DEF on_ins, Step, list
  <2>2. ASSUME NEW u \in Thread, Active(u)', ~overlap'[u]
        PROVE  Exact(u)'
    <3>1. u = t
      BY <1>1, <2>2, Meet DEF Active
    <3>2. AllIdle
      BY <1>1, <2>2, <3>1, Meet DEF AllIdle, Active
    <3>3. Early(t)'
      BY <1>1, Meet DEF Early
    <3>4. QED
      BY <2>1, <3>1, <3>2, <3>3 DEF Exact
  <2>3. QED
    BY <2>2 DEF RecordedOnce
<1>2. ASSUME NEW t \in Thread, Handler(t),
             Active(t)' /\ ~overlap'[t] => Exact(t)'
      PROVE  RecordedOnce'
  BY <1>2, OwnAlone DEF RecordedOnce
<1>3. ASSUME NEW t \in Thread, Active(t) /\ ~overlap[t]
      PROVE  Exact(t)
  BY <1>3 DEF RecordedOnce
<1>4. ASSUME NEW t \in Thread,
             Checkpoint(t) \/ ScanMemory(t)
      PROVE  Active(t)' /\ ~overlap'[t] => Exact(t)'
  BY <1>3, <1>4 DEF Checkpoint, ScanMemory, Step, TypeOK, Active, Exact, Early,
                       list
<1>5. ASSUME NEW t \in Thread, push_back(t)
      PROVE  Active(t)' /\ ~overlap'[t] => Exact(t)'
  BY <1>3, <1>5 DEF push_back, Step, TypeOK, InCall, Active, Exact, Early
<1>6. ASSUME NEW t \in Thread, WriteMemory(t)
      PROVE  Active(t)' /\ ~overlap'[t] => Exact(t)'
  <2> SUFFICES ASSUME Active(t)', ~overlap'[t] PROVE Exact(t)'
    OBVIOUS
  <2>1. Active(t) /\ ~overlap[t] /\ pc[t] = "write" /\ ~AtEnd(t)
    BY <1>6 DEF WriteMemory, Writing, Active
  <2>2. size = 1 /\ items[1] = Target[ins[t]] /\ i[t] = 1
    BY <2>1 DEF OwnEntry, AtEnd
  <2>3. memory = before /\ ~crashed
    BY <1>3, <2>1, <2>2 DEF Exact, Early
  <2>4. memory' = write(before, ins[t], Target[ins[t]])
    BY <1>6, <2>2, <2>3 DEF WriteMemory
  <2>5. /\ UNCHANGED <<crashed, before, ins>>
        /\ pc'[t] = "write" /\ i'[t] = 2
    BY <1>6, <2>1, <2>2 DEF WriteMemory, TypeOK
  <2>6. QED
    BY <2>3, <2>4, <2>5 DEF Exact, Early
<1>7. ASSUME NEW t \in Thread, Overrun(t)
      PROVE  Active(t)' /\ ~overlap'[t] => Exact(t)'
  <2> SUFFICES ASSUME Active(t)', ~overlap'[t] PROVE FALSE
    OBVIOUS
  <2>1. Active(t) /\ ~overlap[t] /\ pc[t] = "write" /\ ~AtEnd(t)
    BY <1>7 DEF Overrun, Writing, Active, thread
  <2>2. size = 1 /\ i[t] = 1
    BY <2>1 DEF OwnEntry, AtEnd
  <2>3. QED
    BY <1>7, <2>2 DEF Overrun, TypeOK
<1>8. ASSUME NEW t \in Thread, MemoryWritten(t)
      PROVE  Active(t)' /\ ~overlap'[t] => Exact(t)'
  <2> SUFFICES ASSUME Active(t)', ~overlap'[t] PROVE Exact(t)'
    OBVIOUS
  <2>1. /\ Active(t) /\ ~overlap[t] /\ pc[t] = "write" /\ AtEnd(t)
        /\ pc'[t] = "clear" /\ UNCHANGED <<memory, before, crashed, ins>>
    BY <1>8 DEF MemoryWritten, Step, Active, TypeOK, list
  <2>2. i[t] = 2
    BY <2>1 DEF OwnEntry, AtEnd
  <2>3. QED
    BY <1>3, <2>1, <2>2 DEF Exact, Early
<1>9. ASSUME NEW t \in Thread,
             ClearList(t) \/ GetOpcode(t) \/ LoadCount(t) \/ StoreCount(t)
               \/ LoadTotal(t)
      PROVE  Active(t)' /\ ~overlap'[t] => Exact(t)'
  <2>1. /\ pc[t] \in {"clear", "opcode", "count", "store", "total"}
        /\ pc'[t] \in {"opcode", "count", "store", "total", "add"}
        /\ UNCHANGED <<memory, before, crashed, ins, overlap>>
    BY <1>9 DEF ClearList, GetOpcode, LoadCount, StoreCount, LoadTotal, Step,
                TypeOK, list
  <2>2. QED
    BY <1>3, <2>1 DEF Active, Exact, Early
<1>10. ASSUME NEW t \in Thread, exec(t)
       PROVE  Active(t)' /\ ~overlap'[t] => Exact(t)'
  BY <1>10 DEF exec, Step, TypeOK, Active
<1>11. ASSUME NEW o \in Opcode, instruction(o)
       PROVE  RecordedOnce'
  BY <1>11 DEF instruction, RecordedOnce, Active, Exact, Early, thread, list
<1>12. CASE UNCHANGED vars
  BY <1>12 DEF vars, RecordedOnce, Active, Exact, Early, thread, list
<1>13. ASSUME NEW t \in Thread, Handler(t)
       PROVE  RecordedOnce'
  BY <1>2, <1>4, <1>5, <1>6, <1>7, <1>8, <1>9, <1>10, <1>13, Zenon DEF Handler
<1>14. QED
  BY <1>1, <1>11, <1>12, <1>13, Zenon DEF Next

\* A step of thread t before the loads: neither counters nor totals.
Before(t) ==
  /\ pc[t] \in {"scan", "push", "write", "clear"}
  /\ pc'[t] \in {"push", "write", "clear", "opcode"}
  /\ overlap'[t] = overlap[t]
  /\ UNCHANGED <<rows, totals>>

\* The steps at the list are of that kind.
LEMMA ListSteps ==
  ASSUME TypeOK, NEW t \in Thread,
         ScanMemory(t) \/ push_back(t) \/ WriteMemory(t) \/ Overrun(t)
           \/ MemoryWritten(t) \/ ClearList(t)
  PROVE  Before(t)
<1> USE DEF TypeOK, Step, Before
<1>1. CASE ScanMemory(t)
  BY <1>1 DEF ScanMemory
<1>2. CASE push_back(t)
  BY <1>2 DEF push_back
<1>3. CASE WriteMemory(t)
  BY <1>3 DEF WriteMemory, Writing
<1>4. CASE Overrun(t)
  BY <1>4 DEF Overrun, Writing, thread
<1>5. CASE MemoryWritten(t)
  BY <1>5 DEF MemoryWritten
<1>6. CASE ClearList(t)
  BY <1>6 DEF ClearList
<1>7. QED
  BY <1>1, <1>2, <1>3, <1>4, <1>5, <1>6, Zenon

\* The calls of a step, as the proofs below take them apart.
LEMMA Steps ==
  ASSUME TypeOK, [Next]_vars
  PROVE  \/ \E t \in Thread, o \in Opcode : on_ins(t, o)
         \/ \E t \in Thread : Handler(t) /\ Before(t)
         \/ \E t \in Thread : Handler(t) /\ Checkpoint(t)
         \/ \E t \in Thread : Handler(t) /\ GetOpcode(t)
         \/ \E t \in Thread : Handler(t) /\ LoadCount(t)
         \/ \E t \in Thread : Handler(t) /\ StoreCount(t)
         \/ \E t \in Thread : Handler(t) /\ LoadTotal(t)
         \/ \E t \in Thread : Handler(t) /\ exec(t)
         \/ \E o \in Opcode : instruction(o)
         \/ UNCHANGED vars
BY ListSteps, Zenon DEF Next, Handler

\* Every step keeps the bounds of the total.
LEMMA TotalNext ==
  ASSUME TypeOK, AloneInside, TotalLoaded, [Next]_vars
  PROVE  TotalLoaded'
<1> USE DEF TotalLoaded, TotalBetween
<1>1. ASSUME NEW t \in Thread, NEW o \in Opcode, on_ins(t, o)
      PROVE  TotalLoaded'
  <2>1. UNCHANGED <<temp, totals>>
    BY <1>1, Zenon DEF on_ins
  <2>2. QED
    BY <1>1, <2>1, Meet DEF totals
<1>2. ASSUME NEW t \in Thread, Handler(t), Before(t)
      PROVE  TotalLoaded'
  BY <1>2, OwnStep DEF Before, totals
<1>3. ASSUME NEW t \in Thread, Handler(t), Checkpoint(t)
      PROVE  TotalLoaded'
  BY <1>3, OwnStep DEF Checkpoint, Step, TypeOK
<1>4. ASSUME NEW t \in Thread, Handler(t), GetOpcode(t)
      PROVE  TotalLoaded'
  BY <1>4, OwnStep DEF GetOpcode, Step, TypeOK, totals
<1>5. ASSUME NEW t \in Thread, Handler(t), LoadCount(t)
      PROVE  TotalLoaded'
  BY <1>5, OwnStep DEF LoadCount, Step, TypeOK, totals
<1>6. ASSUME NEW t \in Thread, Handler(t), StoreCount(t)
      PROVE  TotalLoaded'
  BY <1>6, OwnStep DEF StoreCount, Step, TypeOK, totals
<1>7. ASSUME NEW t \in Thread, Handler(t), LoadTotal(t)
      PROVE  TotalLoaded'
  BY <1>7, OwnStep DEF LoadTotal, Step, TypeOK, totals
<1>8. ASSUME NEW t \in Thread, Handler(t), exec(t)
      PROVE  TotalLoaded'
  <2>1. total' = temp[t] + 1 /\ temp[t] \in solo .. done /\ done' = done + 1
    BY <1>8 DEF exec, Step
  <2>2. pc'[t] = "app" /\ pc[t] = "add"
    BY <1>8 DEF exec, Step, TypeOK
  <2>3. CASE overlap[t]
    <3>1. solo' = solo
      BY <1>8, <2>3, Zenon DEF exec
    <3>2. /\ solo \in Nat /\ done \in Nat /\ total' \in solo' .. done'
      BY <2>1, <3>1 DEF TypeOK
    <3>3. ASSUME NEW u \in Thread, pc'[u] = "add" PROVE temp'[u] \in solo .. done
      BY <1>8, <2>2, <3>3, OwnStep
    <3>4. QED
      BY <2>1, <3>1, <3>2, <3>3
  <2>4. CASE ~overlap[t]
    <3>1. \A u \in Thread : pc'[u] # "add"
      BY <1>8, <2>2, <2>4, OwnStep DEF AloneInside, Active
    <3>2. solo' = solo + 1
      BY <1>8, <2>4, Zenon DEF exec
    <3>3. QED
      BY <2>1, <3>1, <3>2 DEF TypeOK
  <2>5. QED
    BY <2>3, <2>4
<1>9. ASSUME NEW o \in Opcode, instruction(o)
      PROVE  TotalLoaded'
  BY <1>9 DEF instruction, thread, totals
<1>10. CASE UNCHANGED vars
  BY <1>10 DEF vars, thread, totals
<1>11. QED
  BY <1>1, <1>2, <1>3, <1>4, <1>5, <1>6, <1>7, <1>8, <1>9, <1>10, Steps

\* Every step keeps the bounds of the counts.
LEMMA CountNext ==
  ASSUME TypeOK, InCall, AloneInside, CountLoaded, [Next]_vars
  PROVE  CountLoaded'
<1>1. /\ opcodes \in Store(Opcode, Field)
      /\ \A o \in Opcode : Counted(opcodes, o, "count") \in Nat
  BY DEF TypeOK, Store, Counted, Field
<1> DEFINE Stable ==
             /\ stale' = stale /\ ran' = ran /\ alone' = alone
             /\ \A k \in Opcode :
                  Counted(opcodes', k, "count") = Counted(opcodes, k, "count")
           Loaded(u) ==
             pc'[u] = "store" /\ ~dangling'[u] =>
               /\ pc[u] = "store" /\ ~dangling[u] /\ ins[u] \in Opcode
               /\ ins'[u] = ins[u] /\ temp'[u] = temp[u]
               /\ opcodes'.stored[ins[u]] = opcodes.stored[ins[u]]
<1>2. ASSUME Stable, \A u \in Thread : Loaded(u)
      PROVE  CountLoaded'
  BY <1>2 DEF CountLoaded
<1>3. ASSUME NEW t \in Thread, NEW o \in Opcode, on_ins(t, o)
      PROVE  CountLoaded'
  <2>1. UNCHANGED <<temp, rows>> /\ ins' = [ins EXCEPT ![t] = o]
    BY <1>3, Zenon DEF on_ins
  <2>2. Stable /\ \A u \in Thread : Loaded(u)
    BY <1>3, <2>1, Meet DEF rows, InCall, Active, TypeOK
  <2>3. QED
    BY <1>2, <2>2
<1>4. ASSUME NEW t \in Thread, Handler(t), Before(t)
      PROVE  CountLoaded'
  <2>1. Stable /\ \A u \in Thread : Loaded(u)
    BY <1>4, OwnStep DEF Before, rows, InCall, Active
  <2>2. QED
    BY <1>2, <2>1
<1>5. ASSUME NEW t \in Thread, Handler(t), Checkpoint(t)
      PROVE  CountLoaded'
  <2>1. pc'[t] = "scan" /\ UNCHANGED <<stale, ran, alone>>
    BY <1>5 DEF Checkpoint, Step, TypeOK
  <2>2. Stable /\ \A u \in Thread : Loaded(u)
    BY <1>5, <2>1, OwnStep, SaveOpcodes DEF InCall, Active, Holds
  <2>3. QED
    BY <1>2, <2>2
<1>6. ASSUME NEW t \in Thread, Handler(t), GetOpcode(t)
      PROVE  CountLoaded'
  <2>1. /\ pc'[t] = "count" /\ UNCHANGED <<stale, ran, alone>>
        /\ ins[t] \in Opcode /\ get(ins[t])
    BY <1>6 DEF GetOpcode, Step, TypeOK, InCall, Active
  <2>2. Stable /\ \A u \in Thread : Loaded(u)
    BY <1>6, <2>1, OwnStep, GetOpcodes DEF InCall, Active, Holds
  <2>3. QED
    BY <1>2, <2>2
<1>7. ASSUME NEW t \in Thread, Handler(t), LoadCount(t)
      PROVE  CountLoaded'
  <2>1. UNCHANGED rows /\ ins' = ins /\ ins[t] \in Opcode
    BY <1>7 DEF LoadCount, Step, InCall, Active
  <2>2. \A u \in Thread \ {t} : Loaded(u)
    BY <1>7, <2>1, OwnStep DEF rows, InCall, Active
  <2>3. Stable
    BY <2>1 DEF rows
  <2>4. ~dangling'[t] =>
          opcodes.stored[ins[t]]["count"] + temp'[t] = Counted(opcodes, ins[t], "count")
    <3>1. SUFFICES ASSUME ~dangling[t]
                   PROVE  temp'[t] = opcodes.delta[ins[t]]["count"]
      BY <2>1 DEF rows, Counted
    <3>2. temp' = [temp EXCEPT ![t] = opcodes.delta[ins[t]]["count"]]
      BY <1>7, <3>1, Zenon DEF LoadCount
    <3>3. QED
      BY <3>2 DEF TypeOK
  <2>5. QED
    BY <2>1, <2>2, <2>3, <2>4 DEF CountLoaded, rows
<1>8. ASSUME NEW t \in Thread, Handler(t), StoreCount(t)
      PROVE  CountLoaded'
  <2>1. /\ pc[t] = "store" /\ pc'[t] = "total" /\ ins' = ins
        /\ ins[t] \in Opcode
        /\ ran' = [ran EXCEPT ![ins[t]] = @ + 1]
    BY <1>8 DEF StoreCount, Step, TypeOK, InCall, Active
  <2>2. SUFFICES ASSUME ~stale, ~dangling[t]
                 PROVE  CountLoaded'
    BY <1>8, Zenon DEF StoreCount, CountLoaded
  <2>3. /\ opcodes'.stored = opcodes.stored
        /\ \A k \in Opcode :
             Counted(opcodes', k, "count") =
               IF k = ins[t] THEN opcodes.stored[k]["count"] + (temp[t] + 1)
                             ELSE Counted(opcodes, k, "count")
    BY <1>8, <2>1, <2>2, StoreOpcodes
  <2>4. \A u \in Thread \ {t} : Loaded(u)
    BY <1>8, <2>1, <2>3, OwnStep DEF StoreCount, TypeOK, InCall, Active
  <2>5. opcodes.stored[ins[t]]["count"] + temp[t] \in alone[ins[t]] .. ran[ins[t]]
    BY <2>1, <2>2 DEF CountLoaded
  <2>6. opcodes.stored[ins[t]]["count"] \in Nat /\ temp[t] \in Nat
    BY <1>1, <2>1 DEF Store, Field, TypeOK
  <2>7. \A k \in Opcode :
          /\ alone[k] \in Nat /\ ran[k] \in Nat
          /\ Counted(opcodes, k, "count") \in alone[k] .. ran[k]
          /\ ran'[k] = IF k = ins[t] THEN ran[k] + 1 ELSE ran[k]
    BY <2>1, <2>2 DEF CountLoaded, TypeOK
  <2>8. CASE overlap[t]
    <3>1. alone' = alone
      BY <1>8, <2>8, Zenon DEF StoreCount
    <3>2. \A k \in Opcode :
            Counted(opcodes', k, "count") \in alone'[k] .. ran'[k]
      BY <2>1, <2>3, <2>5, <2>6, <2>7, <3>1
    <3>3. ASSUME NEW u \in Thread, pc'[u] = "store", ~dangling'[u]
          PROVE  opcodes'.stored[ins'[u]]["count"] + temp'[u]
                   \in alone'[ins'[u]] .. ran'[ins'[u]]
      <4>1. u # t /\ Loaded(u)
        BY <2>1, <2>4, <3>3
      <4>2. opcodes.stored[ins[u]]["count"] + temp[u]
              \in alone[ins[u]] .. ran[ins[u]]
        BY <2>2, <3>3, <4>1 DEF CountLoaded
      <4>3. QED
        BY <2>1, <2>3, <2>7, <3>1, <3>3, <4>1, <4>2
    <3>4. QED
      BY <3>2, <3>3 DEF CountLoaded
  <2>9. CASE ~overlap[t]
    <3>1. alone' = [alone EXCEPT ![ins[t]] = @ + 1]
      BY <1>8, <2>9, Zenon DEF StoreCount
    <3>2. \A u \in Thread : pc'[u] # "store"
      BY <1>8, <2>1, <2>9, OwnStep DEF AloneInside, Active
    <3>3. \A k \in Opcode :
            alone'[k] = IF k = ins[t] THEN alone[k] + 1 ELSE alone[k]
      BY <2>1, <3>1 DEF TypeOK
    <3>4. \A k \in Opcode :
            Counted(opcodes', k, "count") \in alone'[k] .. ran'[k]
      BY <2>1, <2>3, <2>5, <2>6, <2>7, <3>3
    <3>5. QED
      BY <3>2, <3>4 DEF CountLoaded
  <2>10. QED
    BY <2>8, <2>9
<1>9. ASSUME NEW t \in Thread, Handler(t), LoadTotal(t)
      PROVE  CountLoaded'
  <2>1. Stable /\ \A u \in Thread : Loaded(u)
    BY <1>9, OwnStep DEF LoadTotal, Step, TypeOK, rows, InCall, Active
  <2>2. QED
    BY <1>2, <2>1
<1>10. ASSUME NEW t \in Thread, Handler(t), exec(t)
       PROVE  CountLoaded'
  <2>1. Stable /\ \A u \in Thread : Loaded(u)
    BY <1>10, OwnStep DEF exec, Step, TypeOK, rows, InCall, Active
  <2>2. QED
    BY <1>2, <2>1
<1>11. ASSUME NEW o \in Opcode, instruction(o)
       PROVE  CountLoaded'
  <2>1. Stable /\ \A u \in Thread : Loaded(u)
    BY <1>11, GetOpcodes DEF instruction, thread, InCall, Active, Holds
  <2>2. QED
    BY <1>2, <2>1
<1>12. CASE UNCHANGED vars
  <2>1. Stable /\ \A u \in Thread : Loaded(u)
    BY <1>12 DEF vars, thread, rows, InCall, Active
  <2>2. QED
    BY <1>2, <2>1
<1>13. QED
  BY <1>3, <1>4, <1>5, <1>6, <1>7, <1>8, <1>9, <1>10, <1>11, <1>12, Steps

\* Every step keeps the bound of the calls without a checkpoint.
LEMMA QuietNext ==
  ASSUME TypeOK, AloneInside, QuietBound, [Next]_vars
  PROVE  QuietBound'
<1> DEFINE r == total % PERIOD
<1>1. /\ r \in 0 .. PERIOD - 1
      /\ (total + 1) % PERIOD = IF r + 1 = PERIOD THEN 0 ELSE r + 1
      /\ PERIOD \in Nat \ {0} /\ quiet \in Nat
  BY ThreadsAssumption, NextRemainder DEF TypeOK
<1> DEFINE Quiet(q, m) == q <= IF m = 0 THEN PERIOD ELSE m
           Own(u) ==
             Active(u) /\ ~overlap[u] =>
               /\ pc[u] # "checkpoint" /\ r = 0 => quiet = 0
               /\ pc[u] = "add" => temp[u] = total
<1>2. Quiet(quiet, r) /\ \A u \in Thread : Own(u)
  BY DEF QuietBound
<1>3. ASSUME Quiet(quiet', r'), \A u \in Thread : Own(u)'
      PROVE  QuietBound'
  BY <1>3 DEF QuietBound
<1>4. ASSUME NEW t \in Thread, NEW o \in Opcode, on_ins(t, o)
      PROVE  QuietBound'
  <2>1. UNCHANGED <<temp, totals>>
    BY <1>4, Zenon DEF on_ins
  <2>2. pc'[t] # "checkpoint" => r # 0
    BY <1>4 DEF on_ins, Step, CheckpointDue, TypeOK
  <2>3. \A u \in Thread : Own(u)'
    BY <1>4, <2>1, <2>2, Meet DEF totals, Active
  <2>4. QED
    BY <1>2, <1>3, <2>1, <2>3 DEF totals
<1>5. ASSUME NEW t \in Thread, Handler(t), Before(t)
      PROVE  QuietBound'
  <2>1. UNCHANGED totals
    BY <1>5 DEF Before
  <2>2. \A u \in Thread : Own(u)'
    BY <1>2, <1>5, <2>1, OwnStep DEF Before, totals, Active
  <2>3. QED
    BY <1>2, <1>3, <2>1, <2>2 DEF totals
<1>6. ASSUME NEW t \in Thread, Handler(t), Checkpoint(t)
      PROVE  QuietBound'
  <2>1. quiet' = 0 /\ total' = total /\ pc'[t] = "scan"
    BY <1>6 DEF Checkpoint, Step, TypeOK
  <2>2. \A u \in Thread : Own(u)'
    BY <1>2, <1>6, <2>1, OwnStep DEF Active
  <2>3. QED
    BY <1>1, <1>3, <2>1, <2>2
<1>7. ASSUME NEW t \in Thread, Handler(t),
             GetOpcode(t) \/ LoadCount(t) \/ StoreCount(t)
      PROVE  QuietBound'
  <2>1. /\ UNCHANGED <<total, quiet, overlap>>
        /\ pc[t] \notin {"app", "checkpoint"} /\ pc'[t] # "add"
    BY <1>7 DEF GetOpcode, LoadCount, StoreCount, Step, TypeOK, totals
  <2>2. \A u \in Thread : Own(u)'
    BY <1>2, <1>7, <2>1, OwnStep DEF Active
  <2>3. QED
    BY <1>2, <1>3, <2>1, <2>2
<1>8. ASSUME NEW t \in Thread, Handler(t), LoadTotal(t)
      PROVE  QuietBound'
  <2>1. /\ UNCHANGED <<total, quiet, overlap>>
        /\ pc[t] = "total" /\ temp'[t] = total
    BY <1>8 DEF LoadTotal, Step, TypeOK, totals
  <2>2. \A u \in Thread : Own(u)'
    BY <1>2, <1>8, <2>1, OwnStep DEF Active
  <2>3. QED
    BY <1>2, <1>3, <2>1, <2>2
<1>9. ASSUME NEW t \in Thread, Handler(t), exec(t)
      PROVE  QuietBound'
  <2>1. /\ pc[t] = "add" /\ pc'[t] = "app" /\ total' = temp[t] + 1
        /\ temp[t] + 1 \in Nat
    BY <1>9 DEF exec, Step, TypeOK
  <2>2. \A u \in Thread : Own(u)'
    BY <1>9, <2>1, OwnStep DEF AloneInside, Active
  <2>3. CASE overlap[t]
    <3>1. quiet' = 0
      BY <1>9, <2>3, Zenon DEF exec
    <3>2. total' % PERIOD \in Nat
      BY <2>1, ThreadsAssumption, NextRemainder
    <3>3. QED
      BY <1>1, <1>3, <2>2, <3>1, <3>2
  <2>4. CASE ~overlap[t]
    <3>1. quiet' = quiet + 1
      BY <1>9, <2>4, Zenon DEF exec
    <3>2. total' = total + 1 /\ (r = 0 => quiet = 0)
      BY <1>2, <2>1, <2>4 DEF Active
    <3>3. r' = IF r + 1 = PERIOD THEN 0 ELSE r + 1
      BY <1>1, <3>2
    <3>4. QED
      <4> HIDE DEF r
      <4> QED
        BY <1>1, <1>2, <1>3, <2>2, <3>1, <3>2, <3>3
  <2>5. QED
    BY <2>3, <2>4
<1>10. ASSUME NEW o \in Opcode, instruction(o)
      PROVE  QuietBound'
  BY <1>10 DEF QuietBound, Active, instruction, thread, totals
<1>11. CASE UNCHANGED vars
  BY <1>11 DEF QuietBound, Active, vars, thread, totals
<1>12. QED
  BY <1>4, <1>5, <1>6, <1>7, <1>8, <1>9, <1>10, <1>11, Steps

(***************************************************************************)
(* The inductive invariant and what it implies.                            *)
(***************************************************************************)
\* The invariant holds at the start.
LEMMA InitIInv == Init => IInv
<1> SUFFICES ASSUME Init PROVE IInv
  OBVIOUS
<1>1. TypeOK /\ InCall
  BY TypeInit
<1>2. \A t \in Thread : pc[t] = "app"
  BY DEF Init
<1>3. ListOwned /\ AloneInside /\ OwnEntry /\ RecordedOnce
  BY <1>2 DEF Init, ListOwned, AloneInside, OwnEntry, RecordedOnce, Active
<1>4. TotalLoaded
  BY <1>2 DEF Init, TotalLoaded, TotalBetween
<1>5. CountLoaded
  <2>1. \A o \in Opcode : Counted(opcodes, o, "count") = 0
    BY EmptyStoreType DEF Init, Field
  <2>2. QED
    BY <1>2, <2>1 DEF Init, CountLoaded
<1>6. QuietBound
  <2>1. total % PERIOD \in Nat /\ quiet = 0
    BY ThreadsAssumption, NextRemainder DEF Init
  <2>2. QED
    BY <1>2, <2>1, ThreadsAssumption DEF QuietBound, Active
<1>7. QED
  BY <1>1, <1>3, <1>4, <1>5, <1>6 DEF IInv

\* The invariant is inductive.
LEMMA NextIInv == IInv /\ [Next]_vars => IInv'
<1> SUFFICES ASSUME IInv, [Next]_vars PROVE IInv'
  OBVIOUS
<1>1. TypeOK' /\ InCall'
  BY TypeNext DEF IInv
<1>2. ListOwned' /\ AloneInside' /\ OwnEntry'
  BY ListNext DEF IInv, ListInv
<1>3. RecordedOnce' /\ TotalLoaded' /\ CountLoaded' /\ QuietBound'
  BY RecordedNext, TotalNext, CountNext, QuietNext DEF IInv
<1>4. QED
  BY <1>1, <1>2, <1>3 DEF IInv

\* The invariant is one of every behaviour.
THEOREM Invariant == Spec => []IInv
BY InitIInv, NextIInv, PTL DEF Spec

\* Every variable keeps its type, with any number of threads.
THEOREM TypeCorrect == Spec => []TypeOK
<1>1. IInv => TypeOK
  BY DEF IInv
<1>2. QED
  BY <1>1, Invariant, PTL

\* However the calls mix their steps at the static list, it is empty when no
\* thread is in on_ins(): of two that clear it, one is the last.
THEOREM ListIsEmptyBetween == Spec => []ListEmptyBetween
<1>1. IInv => ListEmptyBetween
  BY DEF IInv, ListOwned, ListEmptyBetween, AllIdle, Active
<1>2. QED
  BY <1>1, Invariant, PTL

\* A call that meets no other records the address of its instruction, once and
\* nothing else, and cannot crash, whatever the calls before it have done to the
\* list.
THEOREM AloneCallsAreExact == Spec => []AloneIsExact
<1>1. IInv => AloneIsExact
  BY DEF IInv, RecordedOnce, Exact, Early, AloneIsExact
<1>2. QED
  BY <1>1, Invariant, PTL

\* Lost counts are those of calls that met another, at most one per call, as
\* long as no pointer into the cache was used after its row was evicted.
THEOREM CountsStayBetween == Spec => []CountsBetween
<1>1. IInv => CountsBetween
  BY DEF IInv, CountLoaded, CountsBetween
<1>2. QED
  BY <1>1, Invariant, PTL

\* The same of instructions.total.
THEOREM TotalStaysBetween == Spec => []TotalBetween
<1>1. IInv => TotalBetween
  BY DEF IInv, TotalLoaded
<1>2. QED
  BY <1>1, Invariant, PTL

\* PERIOD calls in a row that meet no other never pass without a checkpoint,
\* even if the calls before have stepped over the one that was due.
THEOREM CheckpointsResume == Spec => []QuietCheckpoint
<1>1. IInv => QuietCheckpoint
  <2>1. SUFFICES ASSUME IInv PROVE QuietCheckpoint
    OBVIOUS
  <2>2. /\ quiet <= IF total % PERIOD = 0 THEN PERIOD ELSE total % PERIOD
        /\ total \in Nat /\ quiet \in Nat
    BY <2>1 DEF IInv, QuietBound, TypeOK
  <2>3. total % PERIOD \in 0 .. PERIOD - 1 /\ PERIOD \in Nat
    BY <2>2, ThreadsAssumption, NextRemainder
  <2>4. QED
    BY <2>2, <2>3 DEF QuietCheckpoint
<1>2. QED
  BY <1>1, Invariant, PTL
=============================================================================

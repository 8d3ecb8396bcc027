------------------------------ MODULE Keystore ------------------------------
(***************************************************************************)
(* The cached key stores of the tool (core::cached_keystore, a submodule   *)
(* whose directory is empty in this repository), as src/ uses them.        *)
(*                                                                         *)
(* A store is a file of rows with a bounded cache in front.  A row is a    *)
(* function from counters (the members of memory_value_t or opcode_t; a    *)
(* single one for a bare uint64_t) to Nat.  Every merge function src/      *)
(* passes to a counting store is an addition, and save() is called again   *)
(* and again while the program runs: the cached row is therefore what was  *)
(* counted since the row was last written back, it starts at the default   *)
(* value, and a write-back adds it to the file and drops it.  Which rows   *)
(* a full cache evicts is the store's business, so any nonempty set may be.*)
(*                                                                         *)
(* A store is [cached, delta, stored]: the keys in the cache, the cached   *)
(* rows (zero for the other keys), and the rows of the file.               *)
(***************************************************************************)
EXTENDS Naturals, FiniteSets

Zero(F) == [f \in F |-> 0]

Store(K, F) == [cached : SUBSET K,
                delta  : [K -> [F -> Nat]],
                stored : [K -> [F -> Nat]]]

EmptyStore(K, F) == [cached |-> {},
                     delta  |-> [k \in K |-> Zero(F)],
                     stored |-> [k \in K |-> Zero(F)]]

\* A mutant of update: the merge function of the image table, which keeps the
\* new row only.
update_assembly(a, b) == b

\* update_opcode, and update and update_mem of instr.cpp: counter by counter.
update(a, b) == [f \in DOMAIN a |-> a[f] + b[f]]

\* The rows E leave the cache, each merged into its row of the file.
Evict(ks, E) ==
  [cached |-> ks.cached \ E,
   delta  |-> [k \in DOMAIN ks.delta |->
                 IF k \in E THEN Zero(DOMAIN ks.delta[k]) ELSE ks.delta[k]],
   stored |-> [k \in DOMAIN ks.stored |->
                 IF k \in E THEN update(ks.stored[k], ks.delta[k])
                            ELSE ks.stored[k]]]

\* save(): the whole cache is written back.
Save(ks) == Evict(ks, ks.cached)

\* The sets of rows that get(key) may evict: none when the key is cached or
\* there is room, and otherwise any nonempty set.
Victims(cached, key, size) ==
  IF key \in cached \/ Cardinality(cached) < size
  THEN {{}}
  ELSE SUBSET cached \ {{}}

\* get(key): afterwards the key's row is cached; E is one of the Victims.
Get(ks, key, E) == [Evict(ks, E) EXCEPT !.cached = @ \cup {key}]

\* A counter of the row that get() returned a pointer to is incremented.
Bump(ks, key, f) == [ks EXCEPT !.delta[key][f] = @ + 1]

\* Several of its counters are increased at once.
Add(ks, key, row) == [ks EXCEPT !.delta[key] = update(@, row)]

\* What has been counted, wherever it is now.
Counted(ks, key, f) == ks.stored[key][f] + ks.delta[key][f]

\* The rows of the keys in L are all zero: nothing waits to be written back.
Flushed(ks, L) == \A k \in L : ks.delta[k] = Zero(DOMAIN ks.delta[k])
=============================================================================

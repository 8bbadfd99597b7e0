----------------------------- MODULE UnsortedMap -----------------------------
(***************************************************************************)
(* The symbol table: a hash table with open addressing and double hashing  *)
(* (bunsorted_map.c), as bctx_ensure_symbol and bctx_find_symbol use it.   *)
(* One action is one probe of the search loop, or one step of the loop     *)
(* that moves the entries to a larger table.                               *)
(*                                                                         *)
(* The comment in the search loop says that the size is a prime; the test  *)
(* in bunsorted_map_init picks a composite number.  A probe sequence can   *)
(* then come back to its start although the table has free entries, and    *)
(* the insertion overwrites what is there.                                 *)
(***************************************************************************)
EXTENDS Integers

CONSTANTS
  Keys,     \* names of symbols
  Vals,     \* their values
  NULL,     \* an unused entry, the answer for a name that is not there
  HashFns,  \* the hash functions considered
  Nel       \* the size asked for, 1023 in bctx_init

Elem == [key : Keys, val : Vals]

ASSUME NullAssumption == NULL \notin Elem
ASSUME HashAssumption == HashFns \subseteq [Keys -> Nat]
ASSUME NelAssumption  == Nel \in Nat

VARIABLES
  hash,            \* the hash function
  size, filled,    \* usmap->size, usmap->filled
  table,           \* usmap->table, the entries 0..size; entry 0 is never used
  trail,           \* history: the entries probed before an element was put at i
  old, next,       \* the table that is emptied and the entry to move next
  phase,           \* what the search in progress is for
  call,            \* the element of the call in progress
  elem, idx, seen  \* search: the element, the entry to probe, those probed

tableVars  == <<size, filled, table, trail>>
oldVars    == <<old, next>>
searchVars == <<elem, idx, seen>>
callVars   == <<phase, call, searchVars>>
vars == <<hash, tableVars, oldVars, callVars>>

-----------------------------------------------------------------------------
(* _usmap_isprime returns 0 for a prime number and -1 for others ... *)
isprime(n) ==
  IF \E div \in 3..n : div % 2 = 1 /\ div <= n \div div /\ n % div = 0 THEN -1 ELSE 0

(* ... and bunsorted_map_init stops at the first odd number for which the  *)
(* result is not 0.  One of four odd numbers in a row is such a number.    *)
TableSize(nel) ==
  LET from == IF nel < 3 THEN 3 ELSE nel + 1 - (nel % 2) IN
    CHOOSE n \in from..(from + 6) :
      /\ n % 2 = 1 /\ isprime(n) # 0
      /\ \A m \in from..(n - 1) : m % 2 = 1 => isprime(m) = 0

Empty(sz, x) == [i \in 0..sz |-> x]
NoTable == [i \in {} |-> NULL]

(* Mutant: a table of the same size. *)
GrowToSame == TableSize(size)

(* grows is -1 in bctx_init: twice the size. *)
GrowTo == TableSize(size * 2)

Hval(k) == IF hash[k] = 0 THEN 1 ELSE hash[k]

FirstIdx(k, sz) == (Hval(k) % sz) + 1

(* Mutant: < for <=. *)
StepToZero(k, i) ==
  LET hval2 == 1 + (Hval(k) % (size - 2)) IN
    IF i < hval2 THEN size + i - hval2 ELSE i - hval2

(* The entry probed after i. *)
Step(k, i) ==
  LET hval2 == 1 + (Hval(k) % (size - 2)) IN
    IF i <= hval2 THEN size + i - hval2 ELSE i - hval2

-----------------------------------------------------------------------------
Init ==
  /\ hash \in HashFns
  /\ size = TableSize(Nel) /\ filled = 0
  /\ table = Empty(size, NULL) /\ trail = Empty(size, {})
  /\ old = NoTable /\ next = 0
  /\ phase = "idle"
  /\ call = NULL
  /\ elem = NULL /\ idx = 0 /\ seen = {}

(* _bunsorted_map_search starts at its first index in a table of size sz. *)
Search(e, why, sz) ==
  /\ phase' = why /\ elem' = e /\ idx' = FirstIdx(e.key, sz) /\ seen' = {}

(* The call returns, and its variables with it. *)
Return == phase' = "idle" /\ call' = NULL /\ elem' = NULL /\ idx' = 0 /\ seen' = {}

Insert(k, v) ==
  /\ phase = "idle"
  /\ call' = [key |-> k, val |-> v]
  /\ Search(call', "insert", size)
  /\ UNCHANGED <<hash, tableVars, oldVars>>

Find(k) ==
  /\ phase = "idle"
  /\ call' = [key |-> k, val |-> NULL]
  /\ Search(call', "find", size)
  /\ UNCHANGED <<hash, tableVars, oldVars>>

Searching == phase \in {"insert", "find", "move", "again"}

Hit    == table[idx] # NULL /\ table[idx].key = elem.key
Other  == table[idx] # NULL /\ table[idx].key # elem.key

(* Mutant: first_idx taken before one is added. *)
ClosesBefore == Step(elem.key, idx) = Hval(elem.key) % size

Closes == Step(elem.key, idx) = FirstIdx(elem.key, size)

(* The next probe of the search loop. *)
Onward ==
  /\ Searching /\ Other /\ ~Closes
  /\ idx' = Step(elem.key, idx) /\ seen' = seen \cup {idx}
  /\ UNCHANGED <<hash, tableVars, oldVars, phase, call, elem>>

(* The search ends without the element: at an unused entry, or back at its *)
(* first index.  That is the entry an insertion takes.                     *)
Absent == table[idx] = NULL \/ (Other /\ Closes)
Bucket == IF table[idx] = NULL THEN idx ELSE FirstIdx(elem.key, size)

Placed == [table EXCEPT ![Bucket] = elem]

Place ==
  /\ table' = Placed
  /\ trail' = [trail EXCEPT ![Bucket] = IF table[idx] = NULL THEN seen ELSE {}]
  /\ filled' = filled + 1
  /\ UNCHANGED size

(* The name is known: bctx_ensure_symbol stores the new value in place. *)
Update ==
  /\ phase = "insert" /\ Hit
  /\ table' = [table EXCEPT ![idx].val = elem.val]
  /\ Return
  /\ UNCHANGED <<hash, size, filled, trail, oldVars>>

(* A new name, in a table that stays at most half full ... *)
Enter ==
  /\ phase = "insert" /\ Absent
  /\ filled + 1 <= size \div 2
  /\ Place
  /\ Return
  /\ UNCHANGED <<hash, oldVars>>

(* ... and one that makes _re_unsorted_map move all to a larger table. *)
Grow ==
  /\ phase = "insert" /\ Absent
  /\ filled + 1 > size \div 2
  /\ old' = Placed /\ next' = 0
  /\ size' = GrowTo /\ filled' = 0
  /\ table' = Empty(size', NULL) /\ trail' = Empty(size', {})
  /\ phase' = "rehash"
  /\ UNCHANGED <<hash, call, searchVars>>

SkipFree ==
  /\ phase = "rehash" /\ next \in DOMAIN old /\ old[next] = NULL
  /\ next' = next + 1
  /\ UNCHANGED <<hash, tableVars, old, phase, call, searchVars>>

Move ==
  /\ phase = "rehash" /\ next \in DOMAIN old /\ old[next] # NULL
  /\ Search(old[next], "move", size)
  /\ UNCHANGED <<hash, tableVars, oldVars, call>>

(* Mutant: the entries keep their places. *)
MovedUnhashed ==
  /\ phase = "move" /\ Absent
  /\ table' = [table EXCEPT ![next] = elem]
  /\ filled' = filled + 1 /\ next' = next + 1
  /\ phase' = "rehash"
  /\ UNCHANGED <<hash, size, trail, old, call, searchVars>>

(* No element is found there: no name is stored twice. *)
Moved ==
  /\ phase = "move" /\ Absent
  /\ Place
  /\ next' = next + 1
  /\ phase' = "rehash"
  /\ UNCHANGED <<hash, old, call, searchVars>>

(* Mutant: < for <= in the loop over the old table. *)
RehashedEarly ==
  /\ phase = "rehash" /\ next + 1 \notin DOMAIN old
  /\ old' = NoTable /\ next' = 0
  /\ Search(call, "again", size)
  /\ UNCHANGED <<hash, tableVars, call>>

(* The new element is looked for once more, for its new address. *)
Rehashed ==
  /\ phase = "rehash" /\ next \notin DOMAIN old
  /\ old' = NoTable /\ next' = 0
  /\ Search(call, "again", size)
  /\ UNCHANGED <<hash, tableVars, call>>

(* bctx_ensure_symbol dereferences a NULL when it was lost on the way. *)
Again ==
  /\ phase = "again"
  /\ \/ Hit /\ Return
     \/ Absent /\ phase' = "null" /\ UNCHANGED <<call, searchVars>>
  /\ UNCHANGED <<hash, tableVars, oldVars>>

(* bunsorted_map_find returns the element, or NULL. *)
Answer ==
  /\ phase = "find" /\ (Hit \/ Absent)
  /\ Return
  /\ UNCHANGED <<hash, tableVars, oldVars>>

Crashed == phase = "null" /\ UNCHANGED vars

Work == \/ Onward \/ Update \/ Enter \/ Grow \/ SkipFree \/ Move \/ Moved
        \/ Rehashed \/ Again \/ Answer

Next ==
  \/ \E k \in Keys, v \in Vals : Insert(k, v)
  \/ \E k \in Keys : Find(k)
  \/ Work \/ Crashed

Spec == Init /\ [][Next]_vars

(* A call runs to its end before the assembler goes on. *)
FairSpec == Spec /\ WF_vars(Work)

-----------------------------------------------------------------------------
Phases == {"idle", "insert", "find", "rehash", "move", "again", "null"}

TypeOK ==
  /\ hash \in HashFns
  /\ size \in Nat /\ size > 3 /\ filled \in Nat
  /\ table \in [0..size -> Elem \cup {NULL}]
  /\ trail \in [0..size -> SUBSET (0..size)]
  /\ next \in Nat
  /\ \/ old = NoTable
     \/ \E n \in 0..(size \div 2) : old \in [0..n -> Elem \cup {NULL}]
  /\ phase \in Phases
  /\ phase \in {"insert", "rehash", "move", "again"} => call \in Elem
  /\ phase \in {"insert", "move", "again"} => elem \in Elem
  /\ phase = "find" => elem \in [key : Keys, val : {NULL}]
  /\ Searching => idx \in 1..size /\ seen \subseteq 1..size

(***************************************************************************)
(* The elements: in the table, and in what is left of the old one.         *)
(***************************************************************************)
Stored ==
  ({table[i] : i \in 0..size} \cup {old[i] : i \in {j \in DOMAIN old : j >= next}}) \ {NULL}

MapOf(elems) ==
  [k \in {e.key : e \in elems} |-> (CHOOSE e \in elems : e.key = k).val]

Contents == MapOf(Stored)

(* The insertion that has not yet taken effect. *)
Pending == IF phase = "insert" THEN call ELSE NULL

(* _re_unsorted_map is at work. *)
Rehashing == phase \in {"rehash", "move"}

(* The table promises what SymMap promises with Lossy: no name gets a      *)
(* value it was not given, and none disappears but in exchange for a new   *)
(* one or while the table is rebuilt, one at a time; what is left of the   *)
(* old table is empty when it is freed, and a lookup changes nothing,      *)
(* although entries are moved between two tables and searched for on       *)
(* changing paths.                                                         *)
LossyMap == INSTANCE SymMap WITH
  Lossy <- TRUE, NoCall <- NULL, map <- Contents, call <- Pending, rebuilding <- Rehashing
ImplementsLossyMap == LossyMap!Spec

(* What the comment in the search loop claims ("because SIZE is prime this *)
(* guarantees to step through all available indeces", bunsorted_map.c:192) *)
(* and what the passes rely on: no name is ever lost.                      *)
ExactMap == INSTANCE SymMap WITH
  Lossy <- FALSE, NoCall <- NULL, map <- Contents, call <- Pending, rebuilding <- Rehashing
ImplementsMap == ExactMap!Spec

(* A search finds exactly what is stored: a probe sequence never ends      *)
(* before the element, whatever was put, moved or overwritten on the way   *)
(* since the element was entered.                                          *)
FindsStored ==
  phase \in {"insert", "find"} =>
    /\ Hit => Contents[elem.key] = table[idx].val
    /\ Absent => elem.key \notin DOMAIN Contents

(***************************************************************************)
(* The inductive invariant behind these.  A path of name k leads from its  *)
(* first index to i through entries taken by other names and does not      *)
(* close before i.  The entries an element passed when it was put lie on   *)
(* such a path, and so do those the search in progress has passed; it is   *)
(* on the path of the element it is looking for.                           *)
(***************************************************************************)
Path(k, S, i) ==
  /\ S \subseteq 1..size /\ i \in 1..size
  /\ FirstIdx(k, size) \in S \cup {i}
  /\ \A j \in S :
       /\ table[j] # NULL /\ table[j].key # k
       /\ Step(k, j) \in S \cup {i} /\ Step(k, j) # FirstIdx(k, size)

TrailsLead == \A i \in 1..size : table[i] # NULL => Path(table[i].key, trail[i], i)

SearchLeads ==
  Searching =>
    /\ Path(elem.key, seen, idx)
    /\ \A i \in 1..size :
         table[i] # NULL /\ table[i].key = elem.key => idx \in trail[i] \cup {i}

(* No name is stored twice, in the table or in what is left of the old one. *)
Left == {i \in DOMAIN old : i >= next /\ old[i] # NULL}

StoredOnce ==
  /\ \A i, j \in 0..size :
       table[i] # NULL /\ table[j] # NULL /\ table[i].key = table[j].key => i = j
  /\ \A i, j \in Left : old[i].key = old[j].key => i = j
  /\ \A i \in 0..size, j \in Left : table[i] # NULL => table[i].key # old[j].key

(* Entry 0 is unused, and each entry of the old table brings at most one. *)
Room ==
  /\ filled <= size \div 2
  /\ table[0] = NULL
  /\ ~Rehashing => old = NoTable /\ next = 0
  /\ Rehashing =>
       \E n \in 1..(size \div 2) :
         /\ old \in [0..n -> Elem \cup {NULL}] /\ old[0] = NULL
         /\ next <= n + 1
         /\ filled = 0 \/ filled < next

(* What a search is looking for. *)
Sought ==
  /\ phase = "insert" => elem = call
  /\ phase = "move" => next \in DOMAIN old /\ old[next] # NULL /\ elem = old[next]

TableInv == TypeOK /\ TrailsLead /\ SearchLeads /\ StoredOnce /\ Room /\ Sought

(* There is always an unused entry, so the test for a full table           *)
(* (bunsorted_map.c:216) never fails, and a table that is being filled     *)
(* from the old one never has to grow in turn.                             *)
HalfFull == filled <= size \div 2

(* Every call returns: no probe sequence runs round in a circle that does  *)
(* not contain its first index.                                            *)
CallsEnd == phase # "idle" ~> phase \in {"idle", "null"}
=============================================================================

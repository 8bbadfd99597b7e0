------------------------- MODULE UnsortedMap_proofs -------------------------
(* Theorems about UnsortedMap, for every hash function and every size. *)
EXTENDS UnsortedMap, TLAPS

-----------------------------------------------------------------------------
(* Sizes and indices. *)

(* A number that is not a prime for the code is at least nine. *)
LEMMA NotPrimeLarge ==
  ASSUME NEW n \in Nat, isprime(n) # 0
  PROVE  n >= 9
<1>1. PICK d \in 3..n : d <= n \div d
  BY DEF isprime
<1>2. d * d <= n
  BY <1>1
<1>3. QED
  BY <1>1, <1>2

(* Three times a number from three on is not a prime for the code. *)
LEMMA TriplesNotPrime ==
  ASSUME NEW m \in Nat, m >= 3
  PROVE  isprime(3 * m) # 0
<1>1. /\ 3 \in 3..(3 * m) /\ 3 % 2 = 1
      /\ 3 <= (3 * m) \div 3 /\ (3 * m) % 3 = 0
  OBVIOUS
<1>2. QED
  BY <1>1 DEF isprime

(* There is a number for the loop of bunsorted_map_init to stop at. *)
LEMMA SizeExists ==
  ASSUME NEW from \in Nat, from >= 3, from % 2 = 1
  PROVE  \E n \in from..(from + 6) :
           /\ n % 2 = 1 /\ isprime(n) # 0
           /\ \A m \in from..(n - 1) : m % 2 = 1 => isprime(m) = 0
<1> DEFINE Odd(n) == n % 2 = 1 /\ isprime(n) # 0
<1>1. \E n \in {from, from + 2, from + 4, from + 6} : n % 3 = 0 /\ n >= 9
  OBVIOUS
<1>2. PICK n \in {from, from + 2, from + 4, from + 6} : n % 3 = 0 /\ n >= 9
  BY <1>1
<1>3. Odd(n)
  <2>1. n = 3 * (n \div 3) /\ n \div 3 \in Nat /\ n \div 3 >= 3 /\ n % 2 = 1
    BY <1>2
  <2>2. isprime(n) # 0
    BY <2>1, TriplesNotPrime
  <2>3. QED
    BY <2>1, <2>2
<1> HIDE DEF Odd
<1>4. CASE Odd(from)
  BY <1>4 DEF Odd
<1>5. CASE ~Odd(from) /\ Odd(from + 2)
  BY <1>5 DEF Odd
<1>6. CASE ~Odd(from) /\ ~Odd(from + 2) /\ Odd(from + 4)
  BY <1>6 DEF Odd
<1>7. CASE ~Odd(from) /\ ~Odd(from + 2) /\ ~Odd(from + 4)
  <2>1. n = from + 6 /\ Odd(from + 6)
    BY <1>7, <1>2, <1>3
  <2>2. QED
    BY <2>1, <1>7 DEF Odd
<1>8. QED
  BY <1>4, <1>5, <1>6, <1>7

(* The size of a table: at least what was asked for, odd, and above three. *)
LEMMA SizeOf ==
  ASSUME NEW nel \in Nat
  PROVE  /\ TableSize(nel) \in Nat /\ TableSize(nel) >= 9
         /\ TableSize(nel) >= nel /\ TableSize(nel) % 2 = 1
<1> DEFINE from == IF nel < 3 THEN 3 ELSE nel + 1 - (nel % 2)
           P(n) == /\ n % 2 = 1 /\ isprime(n) # 0
                   /\ \A m \in from..(n - 1) : m % 2 = 1 => isprime(m) = 0
<1>1. from \in Nat /\ from >= 3 /\ from % 2 = 1 /\ from >= nel
  OBVIOUS
<1>2. TableSize(nel) = CHOOSE n \in from..(from + 6) : P(n)
  BY DEF TableSize
<1> HIDE DEF from
<1>3. \E n \in from..(from + 6) : P(n)
  BY <1>1, SizeExists
<1>4. TableSize(nel) \in from..(from + 6) /\ P(TableSize(nel))
  BY <1>2, <1>3
<1>5. TableSize(nel) \in Nat /\ TableSize(nel) >= from
  BY <1>1, <1>4
<1>6. TableSize(nel) >= 9
  BY <1>4, <1>5, NotPrimeLarge
<1>7. QED
  BY <1>1, <1>4, <1>5, <1>6

(* The hash value of a name is a positive number. *)
LEMMA HvalNat ==
  ASSUME hash \in HashFns, NEW k \in Keys
  PROVE  Hval(k) \in Nat
<1>1. hash \in [Keys -> Nat]
  BY HashAssumption
<1>2. QED
  BY <1>1 DEF Hval

(* A search starts in the table. *)
LEMMA FirstRange ==
  ASSUME hash \in HashFns, NEW sz \in Nat, sz > 0, NEW k \in Keys
  PROVE  FirstIdx(k, sz) \in 1..sz
<1>1. \A h \in Nat : (h % sz) + 1 \in 1..sz
  OBVIOUS
<1>2. QED
  BY <1>1, HvalNat DEF FirstIdx

(* A search stays in the table. *)
LEMMA StepRange ==
  ASSUME hash \in HashFns, size \in Nat, size > 3, NEW k \in Keys, NEW i \in 1..size
  PROVE  Step(k, i) \in 1..size
<1> DEFINE hval2 == 1 + (Hval(k) % (size - 2))
<1>1. \A h \in Nat : 1 + (h % (size - 2)) \in 1..(size - 2)
  OBVIOUS
<1>2. hval2 \in 1..(size - 2)
  BY <1>1, HvalNat
<1>3. Step(k, i) = IF i <= hval2 THEN size + i - hval2 ELSE i - hval2
  BY DEF Step
<1> HIDE DEF hval2
<1>4. QED
  BY <1>2, <1>3

(* Half of a size is at least what was doubled for it. *)
LEMMA Halved ==
  ASSUME NEW a \in Nat, NEW b \in Nat, b >= a * 2
  PROVE  b \div 2 \in Nat /\ a <= b \div 2 /\ a \in 0..(b \div 2)
OBVIOUS

-----------------------------------------------------------------------------
(* Type correctness. *)

(* The name looked for is one of the names. *)
LEMMA SearchType ==
  ASSUME TypeOK, Searching
  PROVE  elem.key \in Keys /\ idx \in 1..size /\ (phase # "find" => elem \in Elem)
BY DEF TypeOK, Searching, Elem

(* The entry an insertion takes is in the table. *)
LEMMA BucketRange ==
  ASSUME TypeOK, Searching
  PROVE  Bucket \in 1..size
<1>1. elem.key \in Keys /\ idx \in 1..size /\ size \in Nat /\ size > 0
  BY SearchType DEF TypeOK
<1>2. FirstIdx(elem.key, size) \in 1..size
  BY <1>1, FirstRange DEF TypeOK
<1>3. QED
  BY <1>1, <1>2 DEF Bucket

(* The state of an empty table has its types. *)
LEMMA EmptyType ==
  ASSUME NEW sz \in Nat
  PROVE  /\ Empty(sz, NULL) \in [0..sz -> Elem \cup {NULL}]
         /\ Empty(sz, {}) \in [0..sz -> SUBSET (0..sz)]
BY DEF Empty

(* A table with the element put down has its types. *)
LEMMA PlacedType ==
  ASSUME TypeOK, Searching, elem \in Elem
  PROVE  Placed \in [0..size -> Elem \cup {NULL}]
<1>1. Bucket \in 0..size
  BY BucketRange DEF TypeOK
<1>2. QED
  BY <1>1 DEF Placed, TypeOK

(* Types hold at the start. *)
LEMMA TypeInit == Init => TypeOK
<1> SUFFICES ASSUME Init PROVE TypeOK
  OBVIOUS
<1>1. size \in Nat /\ size > 3
  BY NelAssumption, SizeOf DEF Init
<1>2. /\ table \in [0..size -> Elem \cup {NULL}]
      /\ trail \in [0..size -> SUBSET (0..size)]
  BY <1>1, EmptyType DEF Init
<1>3. QED
  BY <1>1, <1>2 DEF Init, TypeOK, Phases, Searching

(* A search that begins in a table of size sz has its types. *)
LEMMA SearchBegins ==
  ASSUME hash \in HashFns, NEW e, e.key \in Keys, NEW why, NEW sz \in Nat, sz > 0,
         Search(e, why, sz)
  PROVE  idx' \in 1..sz /\ seen' \subseteq 1..sz /\ elem' = e /\ phase' = why
<1>1. FirstIdx(e.key, sz) \in 1..sz
  BY FirstRange
<1>2. QED
  BY <1>1 DEF Search

(* Every step keeps the types. *)
LEMMA TypeStep == TypeOK /\ [Next]_vars => TypeOK'
<1> SUFFICES ASSUME TypeOK, [Next]_vars PROVE TypeOK'
  OBVIOUS
<1> USE DEF tableVars, oldVars, searchVars, callVars, vars
<1>0. size \in Nat /\ size > 0 /\ hash \in HashFns
  BY DEF TypeOK
<1>1. ASSUME NEW k \in Keys, NEW v \in Vals, Insert(k, v) PROVE TypeOK'
  <2>1. call' = [key |-> k, val |-> v] /\ call' \in Elem /\ call'.key \in Keys
    BY <1>1 DEF Insert, Elem
  <2>2. idx' \in 1..size /\ seen' \subseteq 1..size /\ elem' = call' /\ phase' = "insert"
    BY <1>0, <1>1, <2>1, SearchBegins DEF Insert
  <2>3. QED
    BY <1>1, <2>1, <2>2 DEF Insert, TypeOK, Phases, Searching
<1>2. ASSUME NEW k \in Keys, Find(k) PROVE TypeOK'
  <2>1. /\ call' = [key |-> k, val |-> NULL] /\ call'.key \in Keys
        /\ call' \in [key : Keys, val : {NULL}]
    BY <1>2 DEF Find
  <2>2. idx' \in 1..size /\ seen' \subseteq 1..size /\ elem' = call' /\ phase' = "find"
    BY <1>0, <1>2, <2>1, SearchBegins DEF Find
  <2>3. QED
    BY <1>2, <2>1, <2>2 DEF Find, TypeOK, Phases, Searching
<1>3. CASE Onward
  <2>1. Step(elem.key, idx) \in 1..size
    BY <1>3, SearchType, StepRange DEF Onward, TypeOK
  <2>2. QED
    BY <1>3, <2>1 DEF Onward, TypeOK, Searching
<1>4. CASE Update
  <2>1. idx \in 0..size /\ table[idx] \in Elem /\ elem.val \in Vals
    BY <1>4, SearchType DEF Update, Hit, TypeOK, Searching, Elem
  <2>2. [table[idx] EXCEPT !.val = elem.val] \in Elem
    BY <2>1 DEF Elem
  <2>3. table' \in [0..size -> Elem \cup {NULL}]
    BY <1>4, <2>1, <2>2 DEF Update, TypeOK
  <2>4. QED
    BY <1>4, <2>3 DEF Update, Return, TypeOK, Phases, Searching
<1>5. ASSUME Searching, elem \in Elem, Place
      PROVE  /\ table' \in [0..size -> Elem \cup {NULL}]
             /\ trail' \in [0..size -> SUBSET (0..size)]
             /\ filled' \in Nat /\ size' = size
  <2>1. seen \subseteq 0..size
    BY <1>5 DEF TypeOK
  <2>2. table' \in [0..size -> Elem \cup {NULL}]
    BY <1>5, PlacedType DEF Place
  <2>3. trail' \in [0..size -> SUBSET (0..size)]
    <3>1. (IF table[idx] = NULL THEN seen ELSE {}) \in SUBSET (0..size)
      BY <2>1
    <3>2. QED
      BY <1>5, <3>1 DEF Place, TypeOK
  <2>4. QED
    BY <1>5, <2>2, <2>3 DEF Place, TypeOK
<1>6. CASE Enter
  <2>1. Searching /\ elem \in Elem
    BY <1>6, SearchType DEF Enter, Searching
  <2>2. QED
    BY <1>5, <1>6, <2>1 DEF Enter, Return, TypeOK, Phases, Searching
<1>7. CASE Grow
  <2>1. Searching /\ elem \in Elem
    BY <1>7, SearchType DEF Grow, Searching
  <2>2. size' \in Nat /\ size' >= 9 /\ size' >= size * 2
    BY <1>0, <1>7, SizeOf DEF Grow, GrowTo
  <2>3. size \in 0..(size' \div 2) /\ size' > 3
    <3>1. size \in 0..(size' \div 2)
      BY <1>0, <2>2, Halved
    <3>2. size' > 3
      BY <2>2
    <3>3. QED
      BY <3>1, <3>2
  <2>4. /\ table' \in [0..size' -> Elem \cup {NULL}]
        /\ trail' \in [0..size' -> SUBSET (0..size')]
    BY <1>7, <2>2, EmptyType DEF Grow
  <2>5. old' \in [0..size -> Elem \cup {NULL}]
    BY <1>7, <2>1, PlacedType DEF Grow
  <2>6. phase' = "rehash" /\ call' = call /\ call \in Elem /\ filled' \in Nat /\ next' \in Nat
        /\ hash' \in HashFns
    BY <1>7 DEF Grow, TypeOK
  <2>7. QED
    BY <2>2, <2>3, <2>4, <2>5, <2>6 DEF TypeOK, Phases, Searching
<1>8. CASE SkipFree
  BY <1>8 DEF SkipFree, TypeOK, Searching
<1>9. CASE Move
  <2>1. old[next] \in Elem /\ old[next].key \in Keys
    BY <1>9 DEF Move, TypeOK, NoTable, Elem
  <2>2. idx' \in 1..size /\ seen' \subseteq 1..size /\ elem' = old[next] /\ phase' = "move"
    BY <1>0, <1>9, <2>1, SearchBegins DEF Move
  <2>3. QED
    BY <1>9, <2>1, <2>2 DEF Move, TypeOK, Phases, Searching
<1>10. CASE Moved
  <2>1. Searching /\ elem \in Elem
    BY <1>10, SearchType DEF Moved, Searching
  <2>2. QED
    BY <1>5, <1>10, <2>1 DEF Moved, TypeOK, Phases, Searching
<1>11. CASE Rehashed
  <2>1. call \in Elem /\ call.key \in Keys
    BY <1>11 DEF Rehashed, TypeOK, Elem
  <2>2. idx' \in 1..size /\ seen' \subseteq 1..size /\ elem' = call /\ phase' = "again"
    BY <1>0, <1>11, <2>1, SearchBegins DEF Rehashed
  <2>3. QED
    BY <1>11, <2>1, <2>2 DEF Rehashed, TypeOK, Phases, Searching
<1>12. CASE Again
  BY <1>12 DEF Again, Return, TypeOK, Phases, Searching
<1>13. CASE Answer
  BY <1>13 DEF Answer, Return, TypeOK, Phases, Searching
<1>14. CASE UNCHANGED vars
  BY <1>14 DEF TypeOK, Searching
<1>15. QED
  BY <1>1, <1>2, <1>3, <1>4, <1>6, <1>7, <1>8, <1>9, <1>10, <1>11, <1>12, <1>13,
     <1>14 DEF Next, Work, Crashed

-----------------------------------------------------------------------------
(* Paths. *)

(* A path stays one while its entries are taken by other names. *)
LEMMA PathKept ==
  ASSUME NEW k, NEW S, NEW i, Path(k, S, i), hash' = hash, size' = size,
         \A j \in S : table'[j] # NULL /\ table'[j].key # k
  PROVE  Path(k, S, i)'
BY DEF Path, FirstIdx, Step, Hval

(* The first index alone is a path. *)
LEMMA PathFirst ==
  ASSUME hash \in HashFns, size \in Nat, size > 0, NEW k \in Keys
  PROVE  Path(k, {}, FirstIdx(k, size))
BY FirstRange DEF Path

(* One more entry on a path. *)
LEMMA PathOnward ==
  ASSUME TypeOK, NEW k \in Keys, NEW S, NEW i, Path(k, S, i),
         table[i] # NULL, table[i].key # k, Step(k, i) # FirstIdx(k, size)
  PROVE  Path(k, S \cup {i}, Step(k, i))
<1>1. Step(k, i) \in 1..size
  BY StepRange DEF TypeOK, Path
<1>2. QED
  BY <1>1 DEF Path

(* A search that ends without the element has not overlooked it: the       *)
(* element would be on the path ahead, which neither ends nor closes here. *)
LEMMA NotThere ==
  ASSUME TypeOK, TrailsLead, SearchLeads, Searching, Absent,
         NEW i \in 1..size, table[i] # NULL
  PROVE  table[i].key # elem.key
<1> SUFFICES ASSUME table[i].key = elem.key PROVE FALSE
  OBVIOUS
<1>1. Path(elem.key, trail[i], i)
  BY DEF TrailsLead
<1>2. idx \in trail[i] \cup {i}
  BY DEF SearchLeads
<1>3. idx \in trail[i] => table[idx] # NULL /\ ~Closes
  BY <1>1 DEF Path, Closes
<1>4. idx = i => FALSE
  BY DEF Absent, Other
<1>5. QED
  BY <1>2, <1>3, <1>4 DEF Absent

(* Putting the element down keeps the paths of the others and makes one    *)
(* for it.                                                                 *)
LEMMA PlaceLeads ==
  ASSUME TypeOK, TrailsLead, SearchLeads, Searching, elem \in Elem, Absent, Place,
         hash' = hash
  PROVE  TrailsLead'
<1>1. elem # NULL /\ Bucket \in 1..size /\ size' = size
  BY NullAssumption, BucketRange DEF Place
<1>2. table' = [table EXCEPT ![Bucket] = elem] /\ DOMAIN table = 0..size
  BY DEF Place, Placed, TypeOK
<1>3. SUFFICES ASSUME NEW i \in 1..size, NEW k, NEW S, table'[i] # NULL,
                      k = table'[i].key, S = trail'[i]
               PROVE  Path(k, S, i)'
  BY <1>1 DEF TrailsLead
<1>4. CASE i = Bucket
  <2>1. k = elem.key
    BY <1>2, <1>3, <1>4
  <2>2. CASE table[idx] = NULL
    <3>1. i = idx /\ S = seen
      BY <1>3, <1>4, <2>2 DEF Bucket, Place, TypeOK
    <3>2. Path(k, S, i) /\ i \notin S
      BY <2>1, <2>2, <3>1 DEF SearchLeads, Path
    <3>3. \A j \in S : table'[j] = table[j]
      BY <1>2, <1>4, <3>2 DEF Path
    <3>4. \A j \in S : table'[j] # NULL /\ table'[j].key # k
      BY <3>2, <3>3 DEF Path
    <3>5. QED
      BY <1>1, <3>2, <3>4, PathKept
  <2>3. CASE table[idx] # NULL
    <3>1. i = FirstIdx(k, size) /\ S = {}
      BY <1>3, <1>4, <2>1, <2>3 DEF Bucket, Place, TypeOK
    <3>2. QED
      BY <1>1, <3>1 DEF Path, FirstIdx, Hval
  <2>4. QED
    BY <2>2, <2>3
<1>5. CASE i # Bucket
  <2>1. table[i] # NULL /\ k = table[i].key /\ S = trail[i]
    BY <1>1, <1>2, <1>3, <1>5 DEF Place, TypeOK
  <2>2. Path(k, S, i) /\ k # elem.key
    BY <2>1, NotThere DEF TrailsLead
  <2>3. \A j \in S : table'[j] # NULL /\ table'[j].key # k
    BY <1>1, <1>2, <2>2 DEF Path
  <2>4. QED
    BY <1>1, <2>2, <2>3, PathKept
<1>6. QED
  BY <1>4, <1>5

(* A new value leaves the names in their places. *)
LEMMA UpdateKeys ==
  ASSUME TypeOK, Update
  PROVE  /\ UNCHANGED <<hash, size, trail>>
         /\ idx \in 1..size /\ table[idx] \in Elem /\ table[idx].key = elem.key
         /\ table'[idx] = elem
         /\ \A j \in 0..size :
              /\ j # idx => table'[j] = table[j]
              /\ table'[j] # NULL <=> table[j] # NULL
              /\ table[j] # NULL => table'[j].key = table[j].key
<1>1. idx \in 1..size /\ table[idx] \in Elem /\ table[idx].key = elem.key /\ elem \in Elem
  BY SearchType DEF Update, Hit, TypeOK, Searching, Elem
<1>2. [table[idx] EXCEPT !.val = elem.val] = elem
  BY <1>1 DEF Elem
<1>3. table' = [table EXCEPT ![idx] = elem] /\ DOMAIN table = 0..size
  BY <1>2 DEF Update, TypeOK
<1>4. QED
  BY <1>1, <1>3, NullAssumption DEF Update, TypeOK

(* It leaves the paths alone, too. *)
LEMMA UpdateLeads ==
  ASSUME TypeOK, TrailsLead, Update
  PROVE  TrailsLead'
<1>1. UNCHANGED <<hash, size, trail>> /\ size \in Nat
  BY UpdateKeys DEF TypeOK
<1>2. SUFFICES ASSUME NEW i \in 1..size, NEW k, NEW S, table'[i] # NULL,
                      k = table'[i].key, S = trail'[i]
               PROVE  Path(k, S, i)'
  BY <1>1 DEF TrailsLead
<1>3. table[i] # NULL /\ k = table[i].key /\ S = trail[i]
  BY <1>1, <1>2, UpdateKeys
<1>4. Path(k, S, i)
  BY <1>3 DEF TrailsLead
<1>5. \A j \in S : table'[j] # NULL /\ table'[j].key # k
  BY <1>1, <1>4, UpdateKeys DEF Path
<1>6. QED
  BY <1>1, <1>4, <1>5, PathKept

(* Every step keeps the paths of the elements. *)
LEMMA TrailsStep ==
  TypeOK /\ TrailsLead /\ SearchLeads /\ [Next]_vars => TrailsLead'
<1> SUFFICES ASSUME TypeOK, TrailsLead, SearchLeads, [Next]_vars PROVE TrailsLead'
  OBVIOUS
<1>1. CASE UNCHANGED <<hash, size, table, trail>>
  BY <1>1 DEF TrailsLead, Path, FirstIdx, Step, Hval
<1>2. CASE Update
  BY <1>2, UpdateLeads
<1>3. CASE Enter
  <2>1. Searching /\ elem \in Elem
    BY <1>3, SearchType DEF Enter, Searching
  <2>2. QED
    BY <1>3, <2>1, PlaceLeads DEF Enter
<1>4. CASE Moved
  <2>1. Searching /\ elem \in Elem
    BY <1>4, SearchType DEF Moved, Searching
  <2>2. QED
    BY <1>4, <2>1, PlaceLeads DEF Moved
<1>5. CASE Grow
  <2>1. \A i \in 1..size' : table'[i] = NULL
    BY <1>5 DEF Grow, Empty
  <2>2. QED
    BY <2>1 DEF TrailsLead
<1>6. QED
  BY <1>1, <1>2, <1>3, <1>4, <1>5
  DEF Next, Work, Crashed, Insert, Find, Onward, SkipFree, Move, Rehashed, Again,
      Answer, vars, tableVars, oldVars, callVars, searchVars

(* A search begins on the path of the element it is looking for. *)
LEMMA BeginsLeading ==
  ASSUME TypeOK, TrailsLead, NEW e, e.key \in Keys, NEW why, Search(e, why, size),
         UNCHANGED <<hash, tableVars>>
  PROVE  SearchLeads'
<1>1. UNCHANGED <<hash, size, table, trail>> /\ size \in Nat /\ size > 0
  BY DEF tableVars, TypeOK
<1>2. SUFFICES ASSUME NEW k, NEW S, NEW i, k = elem'.key, S = seen', i = idx'
               PROVE  /\ Path(k, S, i)'
                      /\ \A n \in 1..size :
                           table[n] # NULL /\ table[n].key = k => i \in trail[n] \cup {n}
  BY <1>1 DEF SearchLeads
<1>3. k = e.key /\ S = {} /\ i = FirstIdx(k, size)
  BY <1>2 DEF Search
<1>4. Path(k, S, i)'
  <2>1. Path(k, S, i)
    BY <1>1, <1>3, PathFirst DEF TypeOK
  <2>2. QED
    BY <1>1, <1>3, <2>1, PathKept
<1>5. ASSUME NEW n \in 1..size, table[n] # NULL, table[n].key = k
      PROVE  i \in trail[n] \cup {n}
  BY <1>3, <1>5 DEF TrailsLead, Path
<1>6. QED
  BY <1>4, <1>5

(* It stays on that path. *)
LEMMA OnwardLeads ==
  ASSUME TypeOK, TrailsLead, SearchLeads, Onward
  PROVE  SearchLeads'
<1>1. UNCHANGED <<hash, size, table, trail, elem>> /\ Searching /\ Other /\ ~Closes
  BY DEF Onward, tableVars
<1>2. elem.key \in Keys
  BY <1>1, SearchType
<1>3. SUFFICES ASSUME NEW k, NEW S, NEW i, k = elem'.key, S = seen', i = idx'
               PROVE  /\ Path(k, S, i)'
                      /\ \A n \in 1..size :
                           table[n] # NULL /\ table[n].key = k => i \in trail[n] \cup {n}
  BY <1>1 DEF SearchLeads
<1>4. k = elem.key /\ S = seen \cup {idx} /\ i = Step(k, idx)
  BY <1>1, <1>3 DEF Onward
<1>5. Path(k, seen, idx) /\ table[idx] # NULL /\ table[idx].key # k
      /\ Step(k, idx) # FirstIdx(k, size)
  BY <1>1, <1>4 DEF SearchLeads, Other, Closes
<1>6. Path(k, S, i)
  BY <1>2, <1>4, <1>5, PathOnward
<1>7. Path(k, S, i)'
  <2>1. \A j \in S : table[j] # NULL /\ table[j].key # k
    BY <1>6 DEF Path
  <2>2. hash' = hash /\ size' = size /\ table' = table
    BY <1>1
  <2>3. \A j \in S : table'[j] # NULL /\ table'[j].key # k
    BY <2>1, <2>2
  <2>4. QED
    BY <1>6, <2>2, <2>3, PathKept
<1>8. ASSUME NEW n \in 1..size, table[n] # NULL, table[n].key = k
      PROVE  i \in trail[n] \cup {n}
  <2>1. Path(k, trail[n], n)
    BY <1>8 DEF TrailsLead
  <2>2. idx \in trail[n]
    BY <1>1, <1>4, <1>5, <1>8 DEF SearchLeads
  <2>3. QED
    BY <1>4, <2>1, <2>2 DEF Path
<1>9. QED
  BY <1>7, <1>8

(* Every step keeps the search in progress on its path. *)
LEMMA SearchStep ==
  TypeOK /\ TrailsLead /\ SearchLeads /\ [Next]_vars => SearchLeads'
<1> SUFFICES ASSUME TypeOK, TrailsLead, SearchLeads, [Next]_vars PROVE SearchLeads'
  OBVIOUS
<1>1. ASSUME NEW k \in Keys, NEW v \in Vals, Insert(k, v) PROVE SearchLeads'
  <2>1. call'.key \in Keys
    BY <1>1 DEF Insert
  <2>2. QED
    BY <1>1, <2>1, BeginsLeading DEF Insert
<1>2. ASSUME NEW k \in Keys, Find(k) PROVE SearchLeads'
  <2>1. call'.key \in Keys
    BY <1>2 DEF Find
  <2>2. QED
    BY <1>2, <2>1, BeginsLeading DEF Find
<1>3. CASE Move
  <2>1. old[next].key \in Keys
    BY <1>3 DEF Move, TypeOK, NoTable, Elem
  <2>2. QED
    BY <1>3, <2>1, BeginsLeading DEF Move
<1>4. CASE Rehashed
  <2>1. call.key \in Keys
    BY <1>4 DEF Rehashed, TypeOK, Elem
  <2>2. QED
    BY <1>4, <2>1, BeginsLeading DEF Rehashed
<1>5. CASE Onward
  BY <1>5, OnwardLeads
<1>6. CASE phase' \notin {"insert", "find", "move", "again"}
  BY <1>6 DEF SearchLeads, Searching
<1>7. CASE UNCHANGED vars
  BY <1>7 DEF SearchLeads, Searching, Path, FirstIdx, Step, Hval, vars, tableVars,
              callVars, searchVars
<1>8. QED
  BY <1>1, <1>2, <1>3, <1>4, <1>5, <1>6, <1>7
  DEF Next, Work, Crashed, Update, Enter, Grow, SkipFree, Moved, Again, Answer, Return,
      callVars, searchVars

-----------------------------------------------------------------------------
(* No name is stored twice, and there is room. *)

(* After an element was put down it is in its entry, the others in theirs. *)
LEMMA PlacedEntries ==
  ASSUME TypeOK, Searching, elem \in Elem
  PROVE  /\ Bucket \in 1..size /\ Placed[Bucket] = elem /\ elem # NULL
         /\ \A i \in 0..size : i # Bucket => Placed[i] = table[i]
BY BucketRange, NullAssumption DEF Placed, TypeOK

(* Putting down an element that is not there stores no name twice. *)
LEMMA PlacedOnce ==
  ASSUME TypeOK, TrailsLead, SearchLeads, StoredOnce, Room, Searching, elem \in Elem, Absent
  PROVE  /\ \A i, j \in 0..size :
              Placed[i] # NULL /\ Placed[j] # NULL /\ Placed[i].key = Placed[j].key => i = j
         /\ \A i \in 0..size : i # Bucket /\ Placed[i] # NULL => Placed[i].key # elem.key
<1>1. \A i \in 0..size : i # Bucket => Placed[i] = table[i]
  BY PlacedEntries
<1>2. ASSUME NEW i \in 0..size, table[i] # NULL PROVE table[i].key # elem.key
  <2>1. i \in 1..size
    BY <1>2 DEF Room, TypeOK
  <2>2. QED
    BY <1>2, <2>1, NotThere
<1>3. Placed[Bucket] = elem
  BY PlacedEntries
<1>4. QED
  BY <1>1, <1>2, <1>3 DEF StoredOnce

(* Every step stores each name once. *)
LEMMA OnceStep ==
  TypeOK /\ TrailsLead /\ SearchLeads /\ StoredOnce /\ Room /\ Sought /\ [Next]_vars
    => StoredOnce'
<1> SUFFICES ASSUME TypeOK, TrailsLead, SearchLeads, StoredOnce, Room, Sought, [Next]_vars
             PROVE  StoredOnce'
  OBVIOUS
<1>1. CASE UNCHANGED <<size, table, old, next>>
  BY <1>1 DEF StoredOnce, Left
<1>2. CASE Update
  <2>1. old' = old /\ next' = next /\ size' = size
    BY <1>2 DEF Update, oldVars
  <2>2. \A j \in 0..size : /\ table'[j] # NULL <=> table[j] # NULL
                           /\ table[j] # NULL => table'[j].key = table[j].key
    BY <1>2, UpdateKeys
  <2>3. QED
    BY <2>1, <2>2 DEF StoredOnce, Left
<1>3. CASE Enter
  <2>1. Searching /\ elem \in Elem /\ Absent
    BY <1>3, SearchType DEF Enter, Searching
  <2>2. table' = Placed /\ size' = size /\ Left' = {}
    BY <1>3 DEF Enter, Place, Room, Rehashing, oldVars, Left, NoTable
  <2>3. QED
    BY <2>1, <2>2, PlacedOnce DEF StoredOnce
<1>4. CASE Grow
  <2>1. Searching /\ elem \in Elem /\ Absent
    BY <1>4, SearchType DEF Grow, Searching
  <2>2. old' = Placed /\ DOMAIN Placed = 0..size
    BY <1>4 DEF Grow, Placed, TypeOK
  <2>3. \A i \in Left' : i \in 0..size /\ old'[i] = Placed[i] /\ Placed[i] # NULL
    BY <2>2 DEF Left
  <2>4. \A i \in 0..size' : table'[i] = NULL
    BY <1>4 DEF Grow, Empty
  <2>5. QED
    BY <2>1, <2>3, <2>4, PlacedOnce DEF StoredOnce
<1>5. CASE SkipFree
  <2>1. Left' = Left
    BY <1>5 DEF SkipFree, Left, TypeOK, NoTable
  <2>2. size' = size /\ table' = table /\ old' = old
    BY <1>5 DEF SkipFree, tableVars
  <2>3. QED
    BY <2>1, <2>2 DEF StoredOnce
<1>6. CASE Moved
  <2>1. Searching /\ elem \in Elem /\ Absent
    BY <1>6, SearchType DEF Moved, Searching
  <2>2. elem = old[next] /\ next \in Left
    BY <1>6 DEF Moved, Sought, Left, TypeOK
  <2>3. \A j \in Left' : j \in Left /\ j # next
    BY <1>6 DEF Moved, Left, TypeOK, NoTable
  <2>4. table' = Placed /\ size' = size /\ old' = old
    BY <1>6 DEF Moved, Place
  <2>5. ASSUME NEW i \in 0..size, NEW j \in Left', Placed[i] # NULL
        PROVE  Placed[i].key # old[j].key
    <3>1. CASE i = Bucket
      BY <2>1, <2>2, <2>3, <3>1, PlacedEntries DEF StoredOnce
    <3>2. CASE i # Bucket
      BY <2>1, <2>3, <2>5, <3>2, PlacedEntries DEF StoredOnce
    <3>3. QED
      BY <3>1, <3>2
  <2>6. QED
    BY <2>1, <2>3, <2>4, <2>5, PlacedOnce DEF StoredOnce
<1>7. CASE Rehashed
  <2>1. Left' = {} /\ size' = size /\ table' = table
    BY <1>7 DEF Rehashed, Left, NoTable, tableVars
  <2>2. QED
    BY <2>1 DEF StoredOnce
<1>8. QED
  BY <1>1, <1>2, <1>3, <1>4, <1>5, <1>6, <1>7
  DEF Next, Work, Crashed, Insert, Find, Onward, Move, Again, Answer, vars, tableVars,
      oldVars, callVars, searchVars

(* Every step leaves room. *)
LEMMA RoomStep == TypeOK /\ Room /\ Sought /\ [Next]_vars => Room'
<1> SUFFICES ASSUME TypeOK, Room, Sought, [Next]_vars PROVE Room'
  OBVIOUS
<1>0. size \in Nat /\ size > 3 /\ DOMAIN table = 0..size
  BY DEF TypeOK
<1>1. CASE UNCHANGED <<size, filled, table, old, next>> /\ Rehashing' = Rehashing
  BY <1>1 DEF Room
<1>2. CASE Update
  <2>1. table'[0] = NULL
    BY <1>0, <1>2, UpdateKeys DEF Room
  <2>2. QED
    BY <1>2, <2>1 DEF Update, Return, Room, Rehashing, oldVars
<1>3. CASE Enter
  <2>1. table'[0] = NULL
    <3>1. Searching /\ elem \in Elem
      BY <1>3, SearchType DEF Enter, Searching
    <3>2. QED
      BY <1>0, <1>3, <3>1, PlacedEntries DEF Enter, Place, Room
  <2>2. QED
    BY <1>3, <2>1 DEF Enter, Place, Return, Room, Rehashing, oldVars
<1>4. CASE Grow
  <2>1. Searching /\ elem \in Elem
    BY <1>4, SearchType DEF Grow, Searching
  <2>2. size' \in Nat /\ size' >= size * 2
    BY <1>0, <1>4, SizeOf DEF Grow, GrowTo
  <2>3. size' \div 2 \in Nat /\ size <= size' \div 2
    BY <1>0, <2>2, Halved
  <2>4. old' \in [0..size -> Elem \cup {NULL}] /\ old'[0] = NULL
    BY <1>0, <1>4, <2>1, PlacedType, PlacedEntries DEF Grow, Room
  <2>5. table'[0] = NULL /\ filled' = 0 /\ next' = 0 /\ Rehashing'
    BY <1>4, <2>2 DEF Grow, Empty, Rehashing
  <2>6. size \in 1..(size' \div 2) /\ filled' <= size' \div 2
    BY <1>0, <2>3, <2>5
  <2>7. next' <= size + 1
    BY <1>0, <2>5
  <2>8. QED
    BY <2>4, <2>5, <2>6, <2>7 DEF Room
<1>5. CASE SkipFree
  <2>1. PICK n \in 1..(size \div 2) :
          /\ old \in [0..n -> Elem \cup {NULL}] /\ old[0] = NULL
          /\ next <= n + 1 /\ (filled = 0 \/ filled < next)
    BY <1>5 DEF SkipFree, Room, Rehashing
  <2>2. next \in 0..n /\ next' = next + 1 /\ old' = old /\ size' = size /\ filled' = filled
        /\ table' = table /\ Rehashing'
    BY <1>5, <2>1 DEF SkipFree, tableVars, Rehashing
  <2>3. next' <= n + 1 /\ (filled' = 0 \/ filled' < next')
    BY <2>1, <2>2 DEF TypeOK
  <2>4. QED
    BY <2>1, <2>2, <2>3 DEF Room
<1>6. CASE Moved
  <2>1. PICK n \in 1..(size \div 2) :
          /\ old \in [0..n -> Elem \cup {NULL}] /\ old[0] = NULL
          /\ next <= n + 1 /\ (filled = 0 \/ filled < next)
    BY <1>6 DEF Moved, Room, Rehashing
  <2>2. next \in 1..n
    BY <1>6, <2>1 DEF Moved, Sought, TypeOK
  <2>3. next' = next + 1 /\ old' = old /\ size' = size /\ filled' = filled + 1 /\ Rehashing'
    BY <1>6 DEF Moved, Place, Rehashing
  <2>4. table'[0] = NULL
    <3>1. Searching /\ elem \in Elem
      BY <1>6, SearchType DEF Moved, Searching
    <3>2. QED
      BY <1>0, <1>6, <3>1, PlacedEntries DEF Moved, Place, Room
  <2>5. filled' < next' /\ next' <= n + 1
    BY <2>1, <2>2, <2>3 DEF TypeOK
  <2>6. filled' <= size' \div 2
    <3>1. size \div 2 \in Nat
      BY <1>0
    <3>2. QED
      BY <2>1, <2>3, <2>5, <3>1 DEF TypeOK
  <2>7. QED
    BY <2>1, <2>3, <2>4, <2>5, <2>6 DEF Room
<1>7. CASE Rehashed
  BY <1>7 DEF Rehashed, Search, Room, Rehashing, tableVars
<1>8. QED
  BY <1>1, <1>2, <1>3, <1>4, <1>5, <1>6, <1>7
  DEF Next, Work, Crashed, Insert, Find, Search, Onward, Move, Again, Answer, Return,
      Rehashing, Searching, vars, tableVars, oldVars, callVars, searchVars

(* Every step keeps what the search is looking for. *)
LEMMA SoughtStep == TypeOK /\ Sought /\ [Next]_vars => Sought'
BY DEF TypeOK, Sought, Next, Work, Crashed, Insert, Find, Search, Onward, Update, Enter,
   Grow, SkipFree, Move, Moved, Rehashed, Again, Answer, Return, vars, tableVars, oldVars,
   callVars, searchVars

-----------------------------------------------------------------------------
(* The inductive invariant holds in every state of the table. *)
THEOREM Invariance == Spec => []TableInv
<1>1. Init => TableInv
  <2>1. SUFFICES ASSUME Init PROVE TableInv
    OBVIOUS
  <2>2. TypeOK
    BY <2>1, TypeInit
  <2>3. \A i \in 0..size : table[i] = NULL
    BY <2>1 DEF Init, Empty
  <2>4. TrailsLead /\ SearchLeads /\ Sought
    BY <2>1, <2>3 DEF Init, TrailsLead, SearchLeads, Searching, Sought
  <2>5. StoredOnce
    BY <2>1, <2>3 DEF Init, StoredOnce, Left, NoTable
  <2>6. Room
    <3>1. \A n \in Nat : 0 <= n \div 2
      OBVIOUS
    <3>2. filled <= size \div 2 /\ table[0] = NULL
      BY <2>1, <2>2, <2>3, <3>1 DEF Init, TypeOK
    <3>3. QED
      BY <2>1, <3>2 DEF Init, Room, Rehashing
  <2>7. QED
    BY <2>2, <2>4, <2>5, <2>6 DEF TableInv
<1>2. TableInv /\ [Next]_vars => TableInv'
  BY TypeStep, TrailsStep, SearchStep, OnceStep, RoomStep, SoughtStep DEF TableInv
<1>3. QED
  BY <1>1, <1>2, PTL DEF Spec

(* The table is at most half full: a search always meets a free entry or   *)
(* its own start, and the test for a full table never succeeds.            *)
THEOREM NeverFull == Spec => []HalfFull
<1>1. TableInv => HalfFull
  BY DEF TableInv, Room, HalfFull
<1>2. QED
  BY <1>1, Invariance, PTL

-----------------------------------------------------------------------------
(* The map that the elements stand for. *)

(* No two elements have the same name. *)
Distinct(elems) == \A e, f \in elems : e.key = f.key => e = f

(* The map has the value of each element for its name, and no other names. *)
LEMMA MapOfAt ==
  ASSUME NEW E, Distinct(E)
  PROVE  /\ \A e \in E : e.key \in DOMAIN MapOf(E) /\ MapOf(E)[e.key] = e.val
         /\ \A x \in DOMAIN MapOf(E) : \E e \in E : e.key = x
         /\ MapOf(E) = [x \in DOMAIN MapOf(E) |-> MapOf(E)[x]]
<1>1. ASSUME NEW e \in E
      PROVE  MapOf(E)[e.key] = e.val
  <2>1. \A f \in E : f.key = e.key => f = e
    BY DEF Distinct
  <2>2. (CHOOSE f \in E : f.key = e.key) = e
    BY <2>1
  <2>3. QED
    BY <2>2 DEF MapOf
<1>2. DOMAIN MapOf(E) = {e.key : e \in E}
  BY DEF MapOf
<1>3. MapOf(E) = [x \in DOMAIN MapOf(E) |-> MapOf(E)[x]]
  BY DEF MapOf
<1>4. QED
  BY <1>1, <1>2, <1>3

(* Dropping one element drops its name. *)
LEMMA MapOfWithout ==
  ASSUME NEW E, Distinct(E), NEW d \in E
  PROVE  /\ d.key \in DOMAIN MapOf(E)
         /\ MapOf(E \ {d}) = [x \in DOMAIN MapOf(E) \ {d.key} |-> MapOf(E)[x]]
<1> DEFINE F == E \ {d}
<1>1. Distinct(F)
  BY DEF Distinct
<1>2. d.key \in DOMAIN MapOf(E)
  BY MapOfAt
<1>3. ASSUME NEW x PROVE x \in DOMAIN MapOf(F) <=> x \in DOMAIN MapOf(E) \ {d.key}
  <2>1. x \in DOMAIN MapOf(F) <=> \E e \in F : e.key = x
    BY <1>1, MapOfAt
  <2>2. x \in DOMAIN MapOf(E) <=> \E e \in E : e.key = x
    BY MapOfAt
  <2>3. QED
    BY <2>1, <2>2 DEF Distinct
<1>4. ASSUME NEW x \in DOMAIN MapOf(F) PROVE MapOf(F)[x] = MapOf(E)[x]
  <2>1. PICK e \in F : e.key = x
    BY <1>1, MapOfAt
  <2>2. MapOf(F)[x] = e.val
    BY <1>1, <2>1, MapOfAt
  <2>3. e \in E
    BY <2>1
  <2>4. MapOf(E)[x] = e.val
    BY <2>1, <2>3, MapOfAt
  <2>5. QED
    BY <2>2, <2>4
<1>5. MapOf(F) = [x \in DOMAIN MapOf(F) |-> MapOf(F)[x]]
  BY <1>1, MapOfAt
<1>6. DOMAIN MapOf(F) = DOMAIN MapOf(E) \ {d.key}
  BY <1>3
<1>7. MapOf(F) = [x \in DOMAIN MapOf(E) \ {d.key} |-> MapOf(E)[x]]
  BY <1>4, <1>5, <1>6
<1> QED
  BY <1>2, <1>7

(* Adding an element, perhaps in exchange for others, gives its name its   *)
(* value and leaves the values of the others alone.                        *)
LEMMA MapOfPut ==
  ASSUME NEW E, Distinct(E), NEW F, Distinct(F), NEW c \in F,
         \A f \in F : f = c \/ f \in E
  PROVE  /\ c.key \in DOMAIN MapOf(F)
         /\ DOMAIN MapOf(F) \subseteq DOMAIN MapOf(E) \cup {c.key}
         /\ MapOf(F) = [x \in DOMAIN MapOf(F) |-> IF x = c.key THEN c.val ELSE MapOf(E)[x]]
<1>1. c.key \in DOMAIN MapOf(F)
  BY MapOfAt
<1>2. \A x \in DOMAIN MapOf(F) : x = c.key \/ x \in DOMAIN MapOf(E)
  BY MapOfAt
<1>3. ASSUME NEW x \in DOMAIN MapOf(F)
      PROVE  MapOf(F)[x] = IF x = c.key THEN c.val ELSE MapOf(E)[x]
  <2>1. PICK f \in F : f.key = x
    BY MapOfAt
  <2>2. MapOf(F)[x] = f.val
    BY <2>1, MapOfAt
  <2>3. x = c.key => f = c
    BY <2>1 DEF Distinct
  <2>4. x # c.key => f \in E
    BY <2>1
  <2>5. QED
    BY <2>1, <2>2, <2>3, <2>4, MapOfAt
<1>4. MapOf(F) = [x \in DOMAIN MapOf(F) |-> MapOf(F)[x]]
  BY MapOfAt
<1>5. MapOf(F) = [x \in DOMAIN MapOf(F) |-> IF x = c.key THEN c.val ELSE MapOf(E)[x]]
  BY <1>3, <1>4
<1>6. QED
  BY <1>1, <1>2, <1>5

(* An element is in the table or waits in the old one. *)
LEMMA StoredIs ==
  Stored = {table[i] : i \in {j \in 0..size : table[j] # NULL}} \cup {old[i] : i \in Left}
BY DEF Stored, Left

(* The elements have different names. *)
LEMMA StoredDistinct == StoredOnce => Distinct(Stored)
<1> SUFFICES ASSUME StoredOnce, NEW e \in Stored, NEW f \in Stored, e.key = f.key PROVE e = f
  BY DEF Distinct
<1>1. \/ \E i \in 0..size : table[i] # NULL /\ e = table[i]
      \/ \E i \in Left : e = old[i]
  BY StoredIs
<1>2. \/ \E i \in 0..size : table[i] # NULL /\ f = table[i]
      \/ \E i \in Left : f = old[i]
  BY StoredIs
<1>3. QED
  BY <1>1, <1>2 DEF StoredOnce

(* A name whose search ended without an element is new to the map. *)
LEMMA AbsentNew ==
  ASSUME TableInv, Searching, Absent, old = NoTable
  PROVE  elem.key \notin DOMAIN Contents
<1> SUFFICES ASSUME elem.key \in DOMAIN Contents PROVE FALSE
  OBVIOUS
<1>1. PICK e \in Stored : e.key = elem.key
  BY StoredDistinct, MapOfAt DEF TableInv, Contents
<1>2. PICK i \in 0..size : table[i] # NULL /\ e = table[i]
  BY StoredIs DEF Left, NoTable
<1>3. i \in 1..size
  BY <1>2 DEF TableInv, Room, TypeOK
<1>4. QED
  BY <1>1, <1>2, <1>3, NotThere DEF TableInv

(* A search finds exactly what is stored (_bunsorted_map_search), for      *)
(* every hash function, every size and every sequence of calls.            *)
THEOREM Finds == Spec => []FindsStored
<1>1. TableInv => FindsStored
  <2>1. SUFFICES ASSUME TableInv, phase \in {"insert", "find"}
                 PROVE  /\ Hit => Contents[elem.key] = table[idx].val
                        /\ Absent => elem.key \notin DOMAIN Contents
    BY DEF FindsStored
  <2>2. Searching /\ idx \in 1..size /\ old = NoTable
    BY <2>1 DEF TableInv, TypeOK, Searching, Room, Rehashing
  <2>3. Distinct(Stored)
    BY <2>1, StoredDistinct DEF TableInv
  <2>4. ASSUME Hit PROVE Contents[elem.key] = table[idx].val
    <3>1. table[idx] \in Stored /\ table[idx].key = elem.key
      BY <2>2, <2>4, StoredIs DEF Hit
    <3>2. QED
      BY <2>3, <3>1, MapOfAt DEF Contents
  <2>5. ASSUME Absent PROVE elem.key \notin DOMAIN Contents
    BY <2>1, <2>2, <2>5, AbsentNew
  <2>6. QED
    BY <2>4, <2>5
<1>2. QED
  BY <1>1, Invariance, PTL

(* The types hold in every state (bunsorted_map.h, bunsorted_map.c). *)
THEOREM TypeCorrect == Spec => []TypeOK
<1>1. TableInv => TypeOK
  BY DEF TableInv
<1>2. QED
  BY <1>1, Invariance, PTL

-----------------------------------------------------------------------------
(* The table implements the abstract map. *)

(* The elements after a step in which one was put. *)
LEMMA PutStored ==
  ASSUME TableInv, Update \/ Enter \/ Grow
  PROVE  /\ call \in Stored' /\ Pending = call /\ call # NULL /\ Pending' = NULL
         /\ \A f \in Stored' : f = call \/ f \in Stored
<1>1. /\ phase = "insert" /\ elem = call /\ call \in Elem /\ Searching /\ elem \in Elem
      /\ old = NoTable /\ size \in Nat /\ size > 3 /\ DOMAIN table = 0..size
  BY DEF TableInv, TypeOK, Sought, Room, Rehashing, Searching, Update, Enter, Grow
<1>2. Pending = call /\ call # NULL /\ Pending' = NULL
  BY <1>1, NullAssumption DEF Pending, Update, Enter, Grow, Return
<1>3. CASE Update
  <2>1. old' = old /\ size' = size
    BY <1>3, UpdateKeys DEF TableInv, Update, oldVars
  <2>2. idx \in 0..size /\ table'[idx] = call /\ \A j \in 0..size : j # idx => table'[j] = table[j]
    BY <1>1, <1>3, UpdateKeys DEF TableInv
  <2>3. QED
    BY <1>1, <1>2, <2>1, <2>2 DEF Stored, NoTable
<1>4. Bucket \in 0..size /\ Placed[Bucket] = call
      /\ \A j \in 0..size : j # Bucket => Placed[j] = table[j]
  BY <1>1, PlacedEntries DEF TableInv
<1>5. CASE Enter
  <2>1. old' = old /\ size' = size /\ table' = Placed
    BY <1>5 DEF Enter, Place, oldVars
  <2>2. QED
    BY <1>1, <1>2, <1>4, <2>1 DEF Stored, NoTable
<1>6. CASE Grow
  <2>1. old' = Placed /\ next' = 0 /\ DOMAIN Placed = 0..size
    BY <1>1, <1>6 DEF Grow, Placed
  <2>2. \A i \in 0..size' : table'[i] = NULL
    BY <1>6 DEF Grow, Empty
  <2>3. QED
    BY <1>1, <1>2, <1>4, <2>1, <2>2 DEF Stored
<1>7. QED
  BY <1>3, <1>5, <1>6

(* All it can cost is the element it overwrites. *)
LEMMA PutCost ==
  ASSUME TableInv, Enter \/ Grow
  PROVE  \A f \in Stored : f \in Stored' \/ f = table[Bucket]
<1>1. /\ phase = "insert" /\ elem = call /\ call \in Elem /\ Searching /\ elem \in Elem
      /\ old = NoTable /\ size \in Nat /\ size > 3 /\ DOMAIN table = 0..size
  BY DEF TableInv, TypeOK, Sought, Room, Rehashing, Searching, Enter, Grow
<1>2. Bucket \in 0..size /\ \A j \in 0..size : j # Bucket => Placed[j] = table[j]
  BY <1>1, PlacedEntries DEF TableInv
<1>3. ASSUME NEW f \in Stored PROVE f # NULL /\ \E i \in 0..size : f = table[i]
  BY <1>1 DEF Stored, NoTable
<1>4. CASE Enter
  <2>1. size' = size /\ table' = Placed
    BY <1>4 DEF Enter, Place
  <2>2. QED
    BY <1>2, <1>3, <2>1 DEF Stored
<1>5. CASE Grow
  <2>1. old' = Placed /\ next' = 0 /\ DOMAIN Placed = 0..size
    BY <1>1, <1>5 DEF Grow, Placed
  <2>2. ASSUME NEW f \in Stored, f # table[Bucket] PROVE f \in Stored'
    <3>1. PICK i \in 0..size : f = table[i] /\ i # Bucket /\ f # NULL
      BY <1>3, <2>2
    <3>2. i \in DOMAIN old' /\ i >= next' /\ old'[i] = f
      BY <1>1, <1>2, <2>1, <3>1
    <3>3. QED
      BY <3>1, <3>2 DEF Stored
  <2>3. QED
    BY <2>2
<1>6. QED
  BY <1>4, <1>5

(* Such a step is a Put of the abstract map. *)
LEMMA PutStep ==
  ASSUME TableInv, TableInv', Update \/ Enter \/ Grow
  PROVE  LossyMap!Put
<1>1. Distinct(Stored) /\ Distinct(Stored')
  <2>1. StoredOnce' => Distinct(Stored)'
    BY StoredDistinct, PTL
  <2>2. QED
    BY <2>1, StoredDistinct DEF TableInv, Distinct
<1> DEFINE lost == DOMAIN Contents \ DOMAIN Contents'
<1>2. /\ lost \in SUBSET (DOMAIN Contents \ {call.key})
      /\ Contents' = [x \in (DOMAIN Contents \ lost) \cup {call.key} |->
                        IF x = call.key THEN call.val ELSE Contents[x]]
  <2>1. call \in Stored' /\ \A f \in Stored' : f = call \/ f \in Stored
    BY PutStored
  <2>2. Contents = MapOf(Stored) /\ Contents' = MapOf(Stored')
    BY DEF Contents
  <2>3. /\ call.key \in DOMAIN Contents'
        /\ DOMAIN Contents' \subseteq DOMAIN Contents \cup {call.key}
        /\ Contents' = [x \in DOMAIN Contents' |-> IF x = call.key THEN call.val ELSE Contents[x]]
    BY <1>1, <2>1, <2>2, MapOfPut
  <2>4. DOMAIN Contents' = (DOMAIN Contents \ lost) \cup {call.key}
    BY <2>3
  <2>5. QED
    BY <2>3, <2>4
<1>3. Update => lost = {}
  <2>1. SUFFICES ASSUME Update PROVE DOMAIN Contents \subseteq DOMAIN Contents'
    OBVIOUS
  <2>2. ASSUME NEW e \in Stored PROVE \E f \in Stored' : f.key = e.key
    <3>1. old = NoTable /\ old' = NoTable
      BY <2>1 DEF TableInv, Room, Rehashing, Update, oldVars
    <3>2. PICK i \in 0..size : table[i] # NULL /\ e = table[i]
      BY <3>1, StoredIs DEF Left, NoTable
    <3>3. i \in 0..size' /\ table'[i] # NULL /\ table'[i].key = e.key
      BY <2>1, <3>2, UpdateKeys DEF TableInv
    <3>4. table'[i] \in Stored'
      BY <3>3 DEF Stored
    <3>5. QED
      BY <3>3, <3>4
  <2>3. QED
    BY <1>1, <2>2, MapOfAt DEF Contents
<1>4. lost # {} => call.key \notin DOMAIN Contents
  <2>1. CASE Update
    BY <1>3, <2>1
  <2>2. CASE Enter \/ Grow
    <3>1. Searching /\ Absent /\ old = NoTable /\ elem = call
      BY <2>2 DEF TableInv, Enter, Grow, Searching, Sought, Room, Rehashing
    <3>2. QED
      BY <3>1, AbsentNew
  <2>3. QED
    BY <2>1, <2>2
<1>5. \A x, y \in lost : x = y
  <2>1. CASE Update
    BY <1>3, <2>1
  <2>2. CASE Enter \/ Grow
    <3>1. ASSUME NEW x \in lost PROVE \E e \in Stored : e.key = x /\ e = table[Bucket]
      <4>1. PICK e \in Stored : e.key = x
        BY <1>1, MapOfAt DEF Contents
      <4>2. e \notin Stored'
        BY <1>1, <4>1, MapOfAt DEF Contents
      <4>3. QED
        BY <2>2, <4>1, <4>2, PutCost
    <3>2. QED
      BY <3>1
  <2>3. QED
    BY <2>1, <2>2
<1> HIDE DEF lost
<1>6. /\ Rehashing' \in BOOLEAN
      /\ Rehashing' => call.key \notin DOMAIN Contents
  <2>1. CASE Update \/ Enter
    BY <2>1 DEF Update, Enter, Return, Rehashing
  <2>2. CASE Grow
    <3>1. Searching /\ Absent /\ old = NoTable /\ elem = call
      BY <2>2 DEF TableInv, Grow, Searching, Sought, Room, Rehashing
    <3>2. QED
      BY <3>1, AbsentNew DEF Rehashing
  <2>3. QED
    BY <2>1, <2>2
<1>7. QED
  BY <1>2, <1>4, <1>5, <1>6, PutStored DEF LossyMap!Put, LossyMap!Single

(* A step of the rehash loop loses at most the element it overwrites. *)
LEMMA MovedStep ==
  ASSUME TableInv, TableInv', Moved
  PROVE  [LossyMap!Lose]_<<Contents, Pending, Rehashing>>
<1>1. /\ Searching /\ elem \in Elem /\ elem = old[next] /\ next \in DOMAIN old
      /\ old[next] # NULL /\ next \in Nat /\ size \in Nat
  BY SearchType DEF TableInv, TypeOK, Sought, Moved, Searching
<1>2. /\ Bucket \in 0..size /\ Placed[Bucket] = elem
      /\ \A j \in 0..size : j # Bucket => Placed[j] = table[j]
  BY <1>1, PlacedEntries DEF TableInv, TypeOK
<1>3. table' = Placed /\ size' = size /\ old' = old /\ next' = next + 1
  BY DEF Moved, Place
<1>4. DOMAIN old \subseteq Int
  BY DEF TableInv, TypeOK, NoTable
<1>5. Stored' \subseteq Stored
  BY <1>1, <1>2, <1>3, <1>4 DEF Stored
<1>6. ASSUME NEW f \in Stored PROVE f \in Stored' \/ f = table[Bucket]
  <2>1. CASE \E i \in 0..size : table[i] # NULL /\ f = table[i]
    BY <1>2, <1>3, <2>1 DEF Stored
  <2>2. CASE \E i \in Left : f = old[i]
    <3>1. PICK i \in Left : f = old[i]
      BY <2>2
    <3>2. CASE i = next
      BY <1>1, <1>2, <1>3, <3>1, <3>2 DEF Stored
    <3>3. CASE i # next
      BY <1>1, <1>3, <1>4, <3>1, <3>3 DEF Stored, Left
    <3>4. QED
      BY <3>2, <3>3
  <2>3. QED
    BY <2>1, <2>2, StoredIs
<1>7. Pending = NULL /\ Pending' = NULL /\ Rehashing /\ Rehashing'
  BY DEF Moved, Pending, Rehashing
<1>8. CASE Stored' = Stored
  BY <1>7, <1>8 DEF Contents
<1>9. CASE Stored' # Stored
  <2>1. PICK d \in Stored : d \notin Stored'
    BY <1>5, <1>9
  <2>2. Stored' = Stored \ {d}
    BY <1>5, <1>6, <2>1
  <2>3. \E k \in DOMAIN Contents : Contents' = [x \in DOMAIN Contents \ {k} |-> Contents[x]]
    BY <2>1, <2>2, StoredDistinct, MapOfWithout DEF TableInv, Contents
  <2>4. QED
    BY <1>7, <2>3 DEF LossyMap!Lose
<1>10. QED
  BY <1>8, <1>9

(* All other steps leave the elements alone. *)
LEMMA OtherSteps ==
  ASSUME TableInv, [Next]_vars, ~Update, ~Enter, ~Grow, ~Moved
  PROVE  Stored' = Stored
<1>1. CASE UNCHANGED <<size, table, old, next>>
  BY <1>1 DEF Stored
<1>2. CASE SkipFree
  <2>1. \A i \in DOMAIN old : i >= next <=> i = next \/ i >= next + 1
    BY DEF TableInv, TypeOK, NoTable
  <2>2. QED
    BY <1>2, <2>1 DEF SkipFree, Stored, tableVars
<1>3. CASE Rehashed
  <2>1. \A i \in DOMAIN old : ~(i >= next)
    BY <1>3 DEF Rehashed, TableInv, Room, Rehashing, TypeOK
  <2>2. QED
    BY <1>3, <2>1 DEF Rehashed, Stored, NoTable, tableVars
<1>4. QED
  BY <1>1, <1>2, <1>3
  DEF Next, Work, Crashed, Insert, Find, Onward, Move, Again, Answer, vars, tableVars,
      oldVars, callVars, searchVars

(* Every step of the table is a step of the abstract map, or none. *)
LEMMA MapStep ==
  ASSUME TableInv, TableInv', [Next]_vars
  PROVE  [LossyMap!Next]_<<Contents, Pending, Rehashing>>
<1>1. CASE Update \/ Enter \/ Grow
  BY <1>1, PutStep DEF LossyMap!Next
<1>2. CASE Moved
  BY <1>2, MovedStep DEF LossyMap!Next
<1>3. CASE ~Update /\ ~Enter /\ ~Grow /\ ~Moved
  <2>1. Contents' = Contents
    BY <1>3, OtherSteps DEF Contents
  <2>2. ASSUME NEW k \in Keys, NEW v \in Vals, Insert(k, v)
        PROVE  LossyMap!Ask(k, v)
    <3>1. /\ Pending = NULL /\ Pending' = [key |-> k, val |-> v]
          /\ ~Rehashing /\ Rehashing' = Rehashing
      BY <2>2 DEF Insert, Search, Pending, Rehashing
    <3>2. UNCHANGED <<Contents, Rehashing>>
      BY <2>1, <3>1
    <3>3. QED
      BY <3>1, <3>2 DEF LossyMap!Ask
  <2>3. CASE UNCHANGED vars
    BY <2>1, <2>3 DEF Pending, Rehashing, vars, callVars
  <2>4. ASSUME NEW k \in Keys, Find(k) PROVE Pending' = Pending /\ Rehashing' = Rehashing
    BY <2>4 DEF Find, Search, Pending, Rehashing
  <2>5. CASE Rehashed
    BY <2>1, <2>5 DEF Rehashed, Search, Pending, Rehashing, LossyMap!Rebuilt, LossyMap!Next
  <2>6. CASE Onward \/ SkipFree \/ Move \/ Again \/ Answer \/ Crashed
    BY <2>1, <2>6
    DEF Crashed, Onward, SkipFree, Move, Again, Answer, Return, Search,
        Pending, Rehashing, vars, callVars
  <2>7. QED
    BY <1>3, <2>1, <2>2, <2>3, <2>4, <2>5, <2>6 DEF Next, Work, LossyMap!Next
<1>4. QED
  BY <1>1, <1>2, <1>3

(* The table implements the map of SymMap that may lose names: it invents  *)
(* nothing, gives no name a value that was not put for it, and drops names *)
(* one at a time, only for a new one or while it is rebuilt; for every     *)
(* hash function and size (bunsorted_map.c, bctx_ensure_symbol).           *)
THEOREM Implements == Spec => ImplementsLossyMap
<1>1. Init => LossyMap!Init
  <2>1. SUFFICES ASSUME Init PROVE LossyMap!Init
    OBVIOUS
  <2>2. Stored = {}
    BY <2>1 DEF Init, Empty, NoTable, Stored
  <2>3. Contents = [k \in {} |-> k]
    BY <2>2 DEF Contents, MapOf
  <2>4. Pending = NULL /\ Rehashing = FALSE
    BY <2>1 DEF Init, Pending, Rehashing
  <2>5. QED
    BY <2>3, <2>4 DEF LossyMap!Init
<1>2. TableInv /\ TableInv' /\ [Next]_vars => [LossyMap!Next]_<<Contents, Pending, Rehashing>>
  BY MapStep
<1>3. QED
  BY <1>1, <1>2, Invariance, PTL DEF Spec, ImplementsLossyMap, LossyMap!Spec
=============================================================================

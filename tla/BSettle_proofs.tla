--------------------------- MODULE BSettle_proofs ---------------------------
(* How many passes a source needs, for every source that settles. *)
EXTENDS BSettle, BPass_proofs, Induction

-----------------------------------------------------------------------------
(* The layout of a source is a function of the source. *)

LEMMA ItemType ==
  ASSUME NEW p, WellFormed(p), NEW i \in 1..Len(p)
  PROVE  /\ p[i] \in Item /\ p[i].op \in ExprOps \cup OtherOps
         /\ p[i].e \in Expr /\ p[i].n \in Nat
         /\ p[i].op \in Defining => p[i].s \in Syms
         /\ p[i].op = "align" => p[i].n \in {1, 2, 4, 8, 16}
         /\ p[i].op = "bits" => p[i].n \in {16, 32, 64}
<1>1. p[i] \in Item
  BY DEF WellFormed
<1>2. QED
  BY <1>1 DEF WellFormed, Item

LEMMA PlaceType ==
  ASSUME NEW l \in Places
  PROVE  /\ l.size \in Nat /\ l.mode \in {16, 32, 64} /\ l.org \in Nat /\ l.base \in Nat
         /\ l.start \in Nat /\ l.from \in Nat /\ l.count \in Nat /\ l.rep \in BOOLEAN
         /\ l.tab \in [Syms -> Int] /\ DOMAIN l.tab = Syms /\ l.from <= l.size
         /\ l \in Place
  BY DEF Places, Place

LEMMA ValueAtInt ==
  ASSUME NEW l \in Places, NEW e \in Expr, NEW tab, tab \in [DOMAIN tab -> Int]
  PROVE  ValueAt(l, tab, e) \in Int
<1>1. HereAt(l.size, l.org, l.base) \in Int /\ l.start \in Int /\ 0 \in Int
  BY PlaceType DEF HereAt
<1>2. QED
  BY <1>1, ValueInt DEF ValueAt

LEMMA PadNat == \A h \in Int : \A v \in {1, 2, 4, 8, 16} : (v - (h % v)) % v \in Nat
  OBVIOUS

LEMMA WidthNat ==
  ASSUME NEW l \in Places, NEW p, WellFormed(p), NEW i \in 1..Len(p)
  PROVE  Width(l, p[i]) \in Nat
<1> DEFINE it == p[i]
<1>1. it.n \in Nat /\ (it.op = "align" => it.n \in {1, 2, 4, 8, 16})
  BY ItemType
<1>2. it.op = "align" => (it.n - (HereAt(l.size, l.org, l.base) % it.n)) % it.n \in Nat
  <2>1. HereAt(l.size, l.org, l.base) \in Int
    BY PlaceType DEF HereAt
  <2>2. QED
    BY <1>1, <2>1, PadNat
<1>3. BranchSize(l, it.op, ValueAt(l, l.tab, it.e)) \in Nat
  BY DEF BranchSize
<1> HIDE DEF it
<1>4. Width(l, it) \in Nat
  BY <1>1, <1>2, <1>3 DEF Width
<1>5. QED
  BY <1>4 DEF it

LEMMA CountNat == \A v \in Int : v % CountMod \in Nat
  BY BoundAssumption

LEMMA TimesNat == \A a, b \in Nat : a * b \in Nat
  OBVIOUS

LEMMA MeaningInt ==
  ASSUME NEW l \in Places, NEW p, WellFormed(p), NEW i \in 1..Len(p),
         NEW tab, tab \in [DOMAIN tab -> Int]
  PROVE  Meaning(l, tab, p[i]) \in Int
<1>1. p[i].e \in Expr
  BY ItemType
<1>2. ValueAt(l, tab, p[i].e) \in Int
  BY <1>1, ValueAtInt
<1>3. l.size + l.org + l.base \in Int
  BY PlaceType
<1>4. QED
  BY <1>2, <1>3 DEF Meaning

LEMMA BehindPlace ==
  ASSUME NEW l \in Places, NEW p, WellFormed(p), NEW i \in 1..Len(p)
  PROVE  Behind(l, p[i]) \in Places
<1> DEFINE it == p[i]
           b == Behind(l, it)
<1>1. /\ it.n \in Nat /\ (it.op = "bits" => it.n \in {16, 32, 64}) /\ it.e \in Expr
  BY ItemType
<1>2. /\ l.size \in Nat /\ l.mode \in {16, 32, 64} /\ l.org \in Nat /\ l.base \in Nat
      /\ l.start \in Nat /\ l.from \in Nat /\ l.count \in Nat /\ l.rep \in BOOLEAN
      /\ l.tab \in [Syms -> Int] /\ DOMAIN l.tab = Syms /\ l.from <= l.size
  BY PlaceType
<1>3. b.size \in Nat /\ b.from \in Nat /\ b.from <= b.size
  <2>1. Width(l, it) \in Nat
    BY WidthNat
  <2>2. (l.size - l.from) * l.count \in Nat
    <3>1. l.size - l.from \in Nat
      BY <1>2
    <3>2. QED
      BY <3>1, <1>2, TimesNat
  <2>3. l.from + (l.size - l.from) * l.count \in Nat
    BY <2>2, <1>2
  <2>4. l.size + Width(l, it) \in Nat /\ l.size <= l.size + Width(l, it)
    BY <2>1, <1>2
  <2>5. /\ b.size = IF LineEnds(l, it) THEN l.from + (l.size - l.from) * l.count
                                       ELSE l.size + Width(l, it)
        /\ b.from = IF it.op = "times" THEN l.size ELSE IF LineEnds(l, it) THEN 0 ELSE l.from
        /\ it.op = "times" => ~LineEnds(l, it)
    BY DEF Behind, LineEnds
  <2> DEFINE w == Width(l, it)
             z == l.from + (l.size - l.from) * l.count
  <2> HIDE DEF b, it, w, z
  <2>6. b.size = (IF LineEnds(l, it) THEN z ELSE l.size + w) /\ z \in Nat /\ w \in Nat
    BY <2>1, <2>3, <2>5 DEF w, z
  <2>7. QED
    BY <1>2, <2>5, <2>6
<1>4. b.count \in Nat
  <2>1. ValueAt(l, l.tab, it.e) % CountMod \in Nat
    BY <1>1, <1>2, ValueAtInt, CountNat
  <2>2. QED
    BY <1>2, <2>1 DEF Behind
<1>5. b.tab \in [Syms -> Int]
  <2>1. Meaning(l, l.tab, it) \in Int
    BY <1>2, MeaningInt
  <2>2. QED
    BY <1>2, <2>1 DEF Behind
<1>6. b.mode \in {16, 32, 64} /\ b.org \in Nat /\ b.base \in Nat /\ b.start \in Nat
  BY <1>1, <1>2 DEF Behind
<1>7. b.rep \in BOOLEAN
  BY <1>2 DEF Behind
<1>8. b = [size |-> b.size, mode |-> b.mode, org |-> b.org, base |-> b.base,
           start |-> b.start, from |-> b.from, count |-> b.count, rep |-> b.rep, tab |-> b.tab]
  BY DEF Behind
<1> HIDE DEF b
<1>9. b \in Place
  BY <1>3, <1>4, <1>5, <1>6, <1>7, <1>8 DEF Place
<1>10. QED
  BY <1>3, <1>9 DEF Places, b

LEMMA TopPlace == Top \in Places
  BY DEF Top, Places, Place

(* The layout starts at Top and follows the source, statement by statement. *)
LEMMA LayoutIs ==
  ASSUME NEW p, WellFormed(p)
  PROVE  /\ \A i \in 1..(Len(p) + 1) : LayoutOf(p)[i] \in Places
         /\ LayoutOf(p)[1] = Top
         /\ \A i \in 1..Len(p) : LayoutOf(p)[i+1] = Behind(LayoutOf(p)[i], p[i])
<1>0. Len(p) \in Nat
  BY DEF WellFormed
<1> DEFINE Dom == 1..(Len(p) + 1)
           Is(g) == g = [i \in Dom |-> IF i = 1 THEN Top ELSE Behind(g[i-1], p[i-1])]
           st == [x \in Places \X Nat |->
                    IF x[2] + 1 \in 1..Len(p) THEN Behind(x[1], p[x[2]+1]) ELSE x[1]]
<1>1. ASSUME NEW l \in Places, NEW n \in Nat PROVE st[<<l, n>>] \in Places
  <2>1. st[<<l, n>>] = IF n + 1 \in 1..Len(p) THEN Behind(l, p[n+1]) ELSE l
    OBVIOUS
  <2>2. n + 1 \in 1..Len(p) => Behind(l, p[n+1]) \in Places
    BY BehindPlace
  <2> HIDE DEF st
  <2>3. QED
    BY <2>1, <2>2
<1>2. ASSUME NEW l \in Places, NEW n \in Nat, n + 1 \in 1..Len(p)
      PROVE  st[<<l, n>>] = Behind(l, p[n+1])
  BY <1>2
<1> HIDE DEF st
<1>3. PICK f \in [Nat -> Places] : f[0] = Top /\ \A n \in Nat : f[n+1] = st[<<f[n], n>>]
  <2>1. Steps(Places, st)
    BY <1>1 DEF Steps
  <2>2. PICK f : Orbit(f, Places, Top, st)
    BY <2>1, TopPlace, Recursion
  <2>3. QED
    BY <2>2 DEF Orbit
<1> DEFINE g == [i \in Dom |-> f[i-1]]
<1>4. ASSUME NEW i \in Dom PROVE g[i] = IF i = 1 THEN Top ELSE Behind(g[i-1], p[i-1])
  <2>1. CASE i = 1
    BY <2>1, <1>0, <1>3
  <2>2. CASE i # 1
    <3>1. i - 2 \in Nat /\ i - 1 \in Dom /\ (i - 2) + 1 = i - 1 /\ (i - 2) + 1 \in 1..Len(p)
          /\ (i - 1) - 1 = i - 2
      BY <2>2, <1>0
    <3>2. f[i-2] \in Places
      BY <3>1, <1>3
    <3>3. f[(i-2)+1] = st[<<f[i-2], i-2>>]
      BY <3>1, <1>3
    <3>4. st[<<f[i-2], i-2>>] = Behind(f[i-2], p[(i-2)+1])
      BY <3>1, <3>2, <1>2
    <3>5. f[i-1] = Behind(f[i-2], p[i-1])
      BY <3>1, <3>3, <3>4
    <3>6. g[i] = f[i-1] /\ g[i-1] = f[i-2]
      BY <3>1
    <3> HIDE DEF g
    <3>7. QED
      BY <2>2, <3>5, <3>6
  <2>3. QED
    BY <2>1, <2>2
<1>5. Is(g)
  <2> DEFINE h == [i \in Dom |-> IF i = 1 THEN Top ELSE Behind(g[i-1], p[i-1])]
  <2>1. \A i \in Dom : g[i] = h[i]
    <3> HIDE DEF g
    <3>1. QED
      BY <1>4
  <2>2. g = [i \in Dom |-> g[i]] /\ h = [i \in Dom |-> h[i]]
    OBVIOUS
  <2> HIDE DEF g, h
  <2>3. g = h
    BY <2>1, <2>2
  <2>4. QED
    BY <2>3 DEF h
<1>6. LayoutOf(p) = CHOOSE k : Is(k)
  BY DEF LayoutOf
<1> HIDE DEF g
<1>7. Is(LayoutOf(p))
  <2> HIDE DEF Is
  <2>1. QED
    BY <1>5, <1>6, Zenon
<1>8. ASSUME NEW i \in Dom
      PROVE  LayoutOf(p)[i] = IF i = 1 THEN Top ELSE Behind(LayoutOf(p)[i-1], p[i-1])
  <2> DEFINE k == LayoutOf(p)
  <2>1. Is(k)
    BY <1>7
  <2> HIDE DEF k
  <2>2. k[i] = IF i = 1 THEN Top ELSE Behind(k[i-1], p[i-1])
    BY <2>1
  <2>3. QED
    BY <2>2 DEF k
<1>9. LayoutOf(p)[1] = Top
  <2>1. 1 \in Dom
    BY <1>0
  <2>2. QED
    BY <2>1, <1>8
<1>10. ASSUME NEW i \in 1..Len(p)
       PROVE  LayoutOf(p)[i+1] = Behind(LayoutOf(p)[i], p[i])
  <2>1. i + 1 \in Dom /\ i + 1 # 1 /\ (i + 1) - 1 = i
    BY <1>0
  <2>2. QED
    BY <2>1, <1>8
<1> DEFINE T == {n \in Nat : n + 1 \in Dom => LayoutOf(p)[n+1] \in Places}
<1>11. T \subseteq Nat
  OBVIOUS
<1>12. 0 \in T
  BY <1>9, TopPlace
<1>13. ASSUME NEW n \in T PROVE n + 1 \in T
  <2>1. n \in Nat
    OBVIOUS
  <2>2. SUFFICES ASSUME (n + 1) + 1 \in Dom PROVE LayoutOf(p)[(n+1)+1] \in Places
    BY <2>1
  <2>3. n + 1 \in 1..Len(p) /\ n + 1 \in Dom
    BY <2>1, <2>2, <1>0
  <2>4. LayoutOf(p)[n+1] \in Places
    BY <2>3
  <2>5. Behind(LayoutOf(p)[n+1], p[n+1]) \in Places
    BY <2>3, <2>4, BehindPlace
  <2>6. QED
    BY <2>3, <2>5, <1>10
<1> HIDE DEF T
<1>14. T = Nat
  BY <1>11, <1>12, <1>13, SetInduction
<1>15. ASSUME NEW i \in Dom PROVE LayoutOf(p)[i] \in Places
  <2>1. i - 1 \in Nat /\ (i - 1) + 1 = i
    BY <1>0
  <2>2. i - 1 \in T
    BY <2>1, <1>14
  <2>3. QED
    BY <2>1, <2>2 DEF T
<1>16. QED
  BY <1>9, <1>10, <1>15

-----------------------------------------------------------------------------
(* Every pass lays the source out in the same way. *)

(* A source that settles, with its ranks and its layout. *)
Source(p, d, rank, at) ==
  /\ WellFormed(p) /\ DefinedOnce(p) /\ AllDefined(p)
  /\ d \in Nat /\ rank \in [Syms -> 0..d] /\ Ranked(p, rank)
  /\ \A i \in 1..(Len(p) + 1) : at[i] \in Places /\ at[i].size <= CapUnit
  /\ at[1] = Top
  /\ \A i \in 1..Len(p) : at[i+1] = Behind(at[i], p[i])

Scene(d, rank, at) ==
  /\ Source(prog, d, rank, at)
  /\ TypeOK /\ StreamLayout /\ Tidy(at) /\ EarlyNames(rank, at)

(* A name of rank 0 that is defined further up has the value of the layout. *)
LEMMA EarlyKnown ==
  ASSUME NEW rank, NEW at, EarlyNames(rank, at), TypeOK, NEW n \in Before(prog, pc), rank[n] = 0
  PROVE  n \in DOMAIN sym /\ sym[n] = at[pc].tab[n]
<1>1. PICK j \in 1..(pc-1) : prog[j].op \in Defining /\ prog[j].s = n
  BY DEF Before
<1>2. Len(prog) \in Nat /\ pc \in 1..(Len(prog) + 1)
  BY DEF TypeOK, WellFormed
<1>3. j \in 1..Len(prog) /\ j < pc
  BY <1>1, <1>2
<1>4. QED
  BY <1>1, <1>3 DEF EarlyNames

(* An operand whose names are known has the value it has at its place.      *)
LEMMA OperandIs ==
  ASSUME TypeOK, NEW l, InPlace(l), NEW e \in Expr, Names(e) \subseteq DOMAIN sym
  PROVE  Operand(e) = ValueAt(l, sym, e)
<1>1. HereAt(size, org_addr, org_ofs) = HereAt(l.size, l.org, l.base) /\ code_start = l.start
  BY DEF InPlace
<1>2. DOMAIN sym \subseteq Syms
  BY DEF TypeOK
<1>3. Value(e, sym, HereAt(l.size, l.org, l.base), l.start, Placeholder)
        = Value(e, sym, HereAt(l.size, l.org, l.base), l.start, 0)
  BY <1>2, ValueByNames
<1>4. QED
  BY <1>1, <1>3 DEF Operand, ValueAt

(* With names of rank 0 from further up, it is the value of the layout.     *)
LEMMA OperandEarly ==
  ASSUME NEW d, NEW rank, NEW at, Scene(d, rank, at), NEW e \in Expr, NEW l, l = at[pc],
         \A n \in Names(e) : n \in Before(prog, pc) /\ rank[n] = 0
  PROVE  /\ Names(e) \subseteq DOMAIN sym
         /\ Operand(e) = ValueAt(l, l.tab, e) /\ ValueAt(l, sym, e) = ValueAt(l, l.tab, e)
<1>1. TypeOK /\ EarlyNames(rank, at) /\ InPlace(l)
  BY DEF Scene, Tidy
<1>2. \A n \in Names(e) : n \in DOMAIN sym /\ sym[n] = l.tab[n]
  BY <1>1, EarlyKnown
<1>3. l \in Places
  BY DEF Scene, Source, TypeOK
<1>4. DOMAIN l.tab = Syms /\ DOMAIN sym \subseteq Syms /\ Names(e) \subseteq Syms
  BY <1>1, <1>3, PlaceType DEF TypeOK, Names
<1>5. ValueAt(l, sym, e) = ValueAt(l, l.tab, e)
  <2>1. Names(e) \subseteq DOMAIN sym /\ Names(e) \subseteq DOMAIN l.tab
    BY <1>2, <1>4
  <2>2. \A s \in Names(e) : sym[s] = l.tab[s]
    BY <1>2
  <2>3. Value(e, sym, HereAt(l.size, l.org, l.base), l.start, 0)
          = Value(e, l.tab, HereAt(l.size, l.org, l.base), l.start, 0)
    BY <1>4, <2>1, <2>2, ValueByNames
  <2>4. QED
    BY <2>3 DEF ValueAt
<1>6. Operand(e) = ValueAt(l, sym, e)
  BY <1>1, <1>2, OperandIs
<1>7. QED
  BY <1>2, <1>5, <1>6

(* The statement at pc. *)
LEMMA SceneAt ==
  ASSUME NEW d, NEW rank, NEW at, Scene(d, rank, at), pc <= Len(prog)
  PROVE  /\ pc \in 1..Len(prog) /\ pc + 1 \in 1..(Len(prog) + 1) /\ Len(prog) \in Nat
         /\ at[pc] \in Places /\ at[pc+1] \in Places
         /\ at[pc+1] = Behind(at[pc], prog[pc]) /\ at[pc+1].size <= CapUnit
         /\ prog[pc].e \in Expr /\ InPlace(at[pc])
<1>1. pc \in 1..Len(prog) /\ prog[pc].e \in Expr /\ Len(prog) \in Nat
  BY StatementType DEF Scene, TypeOK, WellFormed
<1>2. pc + 1 \in 1..(Len(prog) + 1) /\ pc \in 1..(Len(prog) + 1)
  BY <1>1
<1>3. InPlace(at[pc])
  BY DEF Scene, Tidy
<1>4. QED
  BY <1>1, <1>2, <1>3 DEF Scene, Source

(* TIMES and the branches that choose their form find the value of the      *)
(* layout.                                                                  *)
LEMMA ElasticValue ==
  ASSUME NEW d, NEW rank, NEW at, Scene(d, rank, at), pc <= Len(prog), prog[pc].op \in Elastic
  PROVE  Operand(prog[pc].e) = ValueAt(at[pc], at[pc].tab, prog[pc].e)
<1>1. pc \in 1..Len(prog) /\ prog[pc].e \in Expr
  BY SceneAt
<1>2. Ranked(prog, rank)
  BY DEF Scene, Source
<1>3. \A n \in Names(prog[pc].e) : n \in Before(prog, pc) /\ rank[n] = 0
  BY <1>1, <1>2 DEF Ranked
<1>4. QED
  BY <1>1, <1>3, OperandEarly

LEMMA SizeOfBranch ==
  ASSUME NEW l, InPlace(l), NEW op \in Branches, NEW val, NEW v,
         op \in {"jmp", "jcc"} => val = v
  PROVE  BranchLen(op, val) = BranchSize(l, op, v)
<1>1. op \in {"jmp", "jcc"} => (Reach(l, v) <=> InInt8(RelOfs(val, 2)))
  BY DEF Reach, RelOfs, InPlace
<1>2. xmode = l.mode
  BY DEF InPlace
<1>3. TakesShort(op, val) <=> (op \in {"short", "loop"} \/ (op \in {"jmp", "jcc"} /\ Reach(l, v)))
  BY <1>1 DEF TakesShort
<1>4. CASE op \in {"short", "loop"}
  BY <1>3, <1>4 DEF BranchLen, BranchSize
<1>5. CASE op = "jmp"
  BY <1>2, <1>3, <1>5 DEF BranchLen, BranchSize
<1>6. CASE op = "jcc"
  BY <1>2, <1>3, <1>6 DEF BranchLen, BranchSize
<1>7. CASE op \in {"near", "call", "farjmp", "farcall", "jcxz"}
  <2>1. ~TakesShort(op, val)
    BY <1>3, <1>7
  <2>2. QED
    BY <1>2, <1>7, <2>1 DEF BranchLen, BranchSize
<1>8. QED
  BY <1>4, <1>5, <1>6, <1>7 DEF Branches, Relative, Absolute

LEMMA BranchWidth ==
  ASSUME NEW d, NEW rank, NEW at, Scene(d, rank, at), pc <= Len(prog), prog[pc].op \in Branches
  PROVE  BranchLen(prog[pc].op, Operand(prog[pc].e)) = Width(at[pc], prog[pc])
<1> DEFINE op == prog[pc].op
           e == prog[pc].e
           l == at[pc]
<1>1. InPlace(l)
  BY SceneAt
<1>2. op \in {"jmp", "jcc"} => Operand(e) = ValueAt(l, l.tab, e)
  BY ElasticValue DEF Elastic
<1>3. BranchLen(op, Operand(e)) = BranchSize(l, op, ValueAt(l, l.tab, e))
  <2> HIDE DEF l, e, op
  <2>1. op \in Branches
    BY DEF op
  <2>2. QED
    BY <1>1, <1>2, <2>1, SizeOfBranch
<1>4. Width(l, prog[pc]) = BranchSize(l, op, ValueAt(l, l.tab, e))
  BY DEF Width, Branches, Relative, Absolute
<1>5. QED
  BY <1>3, <1>4

(* A put that the first capacity has room for. *)
LEMMA PutFits ==
  ASSUME TypeOK, StreamLayout, intact, cap = CapUnit, NEW len \in Nat, NEW val, NEW rel,
         size + len <= CapUnit, Emit(len, val, rel)
  PROVE  size' = size + len /\ cap' = CapUnit /\ intact'
<1>1. pos = size /\ size \in Nat
  BY DEF StreamLayout, TypeOK
<1>2. size' = size + len
  BY <1>1 DEF Emit
<1>3. cap' = CapUnit
  BY <1>1, BoundAssumption DEF Emit, CapFor
<1>4. QED
  BY <1>2, <1>3 DEF Emit

(* The next statement is reached where the layout has it. *)
Reached(b) == pc' = pc + 1 /\ InPlace(b)' /\ intact' /\ cap' = CapUnit

(* Statements that do nothing to the state of the layout but put bytes. *)
LEMMA ReachedByPut ==
  ASSUME NEW d, NEW rank, NEW at, Scene(d, rank, at), pc <= Len(prog), NEW b, b = at[pc+1],
         prog[pc].op \notin {"eol", "end", "times", "org", "bits", "rep", "string"},
         Advance, UNCHANGED <<xmode, orgVars, timesVars, rep_prefix>>,
         size' = size + Width(at[pc], prog[pc]), intact', cap' = CapUnit
  PROVE  Reached(b)
<1> DEFINE l == at[pc]
           it == prog[pc]
<1>1. b = Behind(l, it) /\ l \in Places /\ InPlace(l)
  BY SceneAt
<1>2. l.rep \in BOOLEAN
  BY <1>1, PlaceType
<1>3. ~LineEnds(l, it)
  BY DEF LineEnds
<1>4. /\ b.size = l.size + Width(l, it) /\ b.mode = l.mode /\ b.org = l.org /\ b.base = l.base
      /\ b.start = l.start /\ b.from = l.from /\ b.count = l.count
  BY <1>1, <1>3 DEF Behind
<1>5. b.rep = l.rep
  <2>1. it.op # "rep" /\ it.op \notin {"string", "eol", "end"}
    OBVIOUS
  <2>2. b = Behind(l, it)
    BY <1>1
  <2> HIDE DEF l, it
  <2>3. QED
    BY <2>1, <2>2 DEF Behind
<1>6. InPlace(b)'
  <2> HIDE DEF l, it
  <2>1. size' = b.size
    BY <1>1, <1>4 DEF InPlace, l, it
  <2>2. QED
    BY <2>1, <1>1, <1>4, <1>5 DEF InPlace, orgVars, timesVars
<1>7. QED
  BY <1>6 DEF Reached, Advance

LEMMA SceneParts ==
  ASSUME NEW d, NEW rank, NEW at, Scene(d, rank, at)
  PROVE  TypeOK /\ StreamLayout /\ intact /\ cap = CapUnit
  BY DEF Scene, Tidy

(* A label or an EQU. *)
LEMMA NamePlaced ==
  ASSUME NEW d, NEW rank, NEW at, Scene(d, rank, at), pc <= Len(prog), NEW b, b = at[pc+1],
         Label \/ Equ
  PROVE  Reached(b)
<1>1. prog[pc].op \in Defining /\ Advance
  BY DEF Label, Equ, At, Defining
<1>2. UNCHANGED <<xmode, orgVars, timesVars, rep_prefix>> /\ UNCHANGED stmVars
  BY DEF Label, Equ, Note
<1>3. Width(at[pc], prog[pc]) = 0
  BY <1>1 DEF Width, Defining, Branches, Relative, Absolute
<1>4. size' = size + Width(at[pc], prog[pc]) /\ intact' /\ cap' = CapUnit
  <2>1. size \in Nat /\ intact /\ cap = CapUnit
    BY SceneParts DEF TypeOK
  <2>2. QED
    BY <1>2, <1>3, <2>1 DEF stmVars
<1>5. QED
  BY <1>1, <1>2, <1>4, ReachedByPut DEF Defining

(* A term of data, a text, a branch, ALIGN: what it puts fits.              *)
LEMMA PutPlaced ==
  ASSUME NEW d, NEW rank, NEW at, Scene(d, rank, at), pc <= Len(prog), NEW b, b = at[pc+1],
         prog[pc].op \notin {"eol", "end", "times", "org", "bits", "rep", "string"},
         Advance, UNCHANGED <<xmode, orgVars, timesVars, rep_prefix>>,
         NEW val, NEW rel, Emit(Width(at[pc], prog[pc]), val, rel)
  PROVE  Reached(b)
<1> DEFINE w == Width(at[pc], prog[pc])
<1>1. w \in Nat /\ size + w <= CapUnit
  <2>1. /\ pc \in 1..Len(prog) /\ at[pc] \in Places /\ InPlace(at[pc])
        /\ at[pc+1] = Behind(at[pc], prog[pc]) /\ at[pc+1].size <= CapUnit
    BY SceneAt
  <2>2. at[pc+1].size = at[pc].size + w
    BY <2>1 DEF Behind, LineEnds
  <2>3. size = at[pc].size
    BY <2>1 DEF InPlace
  <2>4. WellFormed(prog)
    BY DEF Scene, Source
  <2>5. w \in Nat
    BY <2>1, <2>4, WidthNat
  <2>6. QED
    BY <2>1, <2>2, <2>3, <2>5
<1> HIDE DEF w
<1>2. size' = size + w /\ cap' = CapUnit /\ intact'
  <2>1. Emit(w, val, rel)
    BY DEF w
  <2>2. QED
    BY <1>1, <2>1, SceneParts, PutFits
<1>3. size' = size + Width(at[pc], prog[pc])
  BY <1>2 DEF w
<1>4. QED
  BY <1>2, <1>3, ReachedByPut

LEMMA BytesPlaced ==
  ASSUME NEW d, NEW rank, NEW at, Scene(d, rank, at), pc <= Len(prog), NEW b, b = at[pc+1],
         Data \/ Branch \/ Align
  PROVE  Reached(b)
<1>1. CASE Data
  <2>1. prog[pc].op = "data" /\ Advance /\ UNCHANGED <<xmode, orgVars, timesVars, rep_prefix>>
    BY <1>1 DEF Data, At
  <2>2. Emit(prog[pc].n, Operand(prog[pc].e), 0)
    BY <1>1 DEF Data
  <2>3. Width(at[pc], prog[pc]) = prog[pc].n
    BY <2>1 DEF Width, Branches, Relative, Absolute
  <2>4. Emit(Width(at[pc], prog[pc]), Operand(prog[pc].e), 0)
    BY <2>2, <2>3, Zenon
  <2>5. QED
    BY <2>1, <2>4, PutPlaced
<1>2. CASE Branch
  <2> DEFINE e == prog[pc].e
             op == prog[pc].op
  <2>1. op \in Branches /\ Advance /\ UNCHANGED <<xmode, orgVars, timesVars, rep_prefix>>
    BY <1>2 DEF Branch
  <2>2. Emit(BranchLen(op, Operand(e)), Operand(e), Field(op, Operand(e)))
    BY <1>2 DEF Branch
  <2>3. BranchLen(op, Operand(e)) = Width(at[pc], prog[pc])
    BY <2>1, BranchWidth
  <2>4. Emit(Width(at[pc], prog[pc]), Operand(e), Field(op, Operand(e)))
    BY <2>2, <2>3, Zenon
  <2>5. op \notin {"eol", "end", "times", "org", "bits", "rep", "string"}
    BY <2>1 DEF Branches, Relative, Absolute
  <2>6. QED
    BY <2>1, <2>4, <2>5, PutPlaced
<1>3. CASE Align
  <2>1. prog[pc].op = "align" /\ Advance /\ UNCHANGED <<xmode, orgVars, timesVars, rep_prefix>>
    BY <1>3 DEF Align, At
  <2>2. Emit((prog[pc].n - (HereAt(size, org_addr, org_ofs) % prog[pc].n)) % prog[pc].n, 0, 0)
    BY <1>3 DEF Align
  <2>3. HereAt(size, org_addr, org_ofs) = HereAt(at[pc].size, at[pc].org, at[pc].base)
    <3>1. InPlace(at[pc])
      BY SceneAt
    <3>2. QED
      BY <3>1 DEF InPlace
  <2>4. Width(at[pc], prog[pc])
          = (prog[pc].n - (HereAt(size, org_addr, org_ofs) % prog[pc].n)) % prog[pc].n
    BY <2>1, <2>3 DEF Width, Branches, Relative, Absolute
  <2>5. Emit(Width(at[pc], prog[pc]), 0, 0)
    BY <2>2, <2>4, Zenon
  <2>6. QED
    BY <2>1, <2>5, PutPlaced
<1>4. QED
  BY <1>1, <1>2, <1>3

(* A text is not lost: losing it would take a stream that has to grow.      *)
LEMMA TextPlaced ==
  ASSUME NEW d, NEW rank, NEW at, Scene(d, rank, at), pc <= Len(prog), NEW b, b = at[pc+1], Str
  PROVE  Reached(b)
<1>1. prog[pc].op = "str" /\ Advance /\ UNCHANGED <<xmode, orgVars, timesVars, rep_prefix>>
  BY DEF Str, At
<1>2. Width(at[pc], prog[pc]) = prog[pc].n
  BY <1>1 DEF Width, Branches, Relative, Absolute
<1>3. cap >= pos + prog[pc].n
  <2>1. /\ at[pc+1] = Behind(at[pc], prog[pc]) /\ at[pc+1].size <= CapUnit /\ InPlace(at[pc])
    BY SceneAt
  <2>2. at[pc+1].size = at[pc].size + prog[pc].n
    BY <1>1, <1>2, <2>1 DEF Behind, LineEnds
  <2>3. size = at[pc].size /\ pos = size /\ cap = CapUnit
    BY <2>1, SceneParts DEF InPlace, StreamLayout
  <2>4. pos \in Nat /\ CapUnit \in Nat /\ prog[pc].n \in Nat
    BY SceneParts, BoundAssumption, StatementType DEF TypeOK
  <2>5. pos + prog[pc].n <= CapUnit
    BY <2>1, <2>2, <2>3
  <2>6. QED
    BY <2>3, <2>4, <2>5
<1>4. Emit(prog[pc].n, 0, 0)
  <2>0. pos \in Nat /\ cap \in Nat
    BY SceneParts DEF TypeOK
  <2>1. prog[pc].n \in Nat
    BY SceneParts, StatementType
  <2>2. ~(cap < pos + prog[pc].n)
    BY <1>3, <2>0, <2>1
  <2>3. QED
    BY <2>2 DEF Str, TextNeeds
<1>5. Emit(Width(at[pc], prog[pc]), 0, 0)
  BY <1>2, <1>4, Zenon
<1>6. QED
  BY <1>1, <1>5, PutPlaced

(* ORG, BITS, TIMES and REP put nothing. *)
LEMMA MarkPlaced ==
  ASSUME NEW d, NEW rank, NEW at, Scene(d, rank, at), pc <= Len(prog), NEW b, b = at[pc+1],
         Org \/ Bits \/ Times \/ (Rep /\ pc' = pc + 1)
  PROVE  Reached(b)
<1> DEFINE l == at[pc]
           it == prog[pc]
<1>1. b = Behind(l, it) /\ l \in Places /\ InPlace(l)
  BY SceneAt
<1>2. l.rep \in BOOLEAN /\ l.size \in Nat
  BY <1>1, PlaceType
<1>3. it.op \in {"org", "bits", "times", "rep"} /\ UNCHANGED stmVars
  <2>1. CASE Org
    BY <2>1 DEF Org, At
  <2>2. CASE Bits
    BY <2>2 DEF Bits, At
  <2>3. CASE Times
    BY <2>3 DEF Times, At, Note
  <2>4. CASE Rep
    BY <2>4 DEF Rep, At, Stop
  <2>5. QED
    BY <2>1, <2>2, <2>3, <2>4
<1>4. Width(l, it) = 0 /\ ~LineEnds(l, it)
  BY <1>3 DEF Width, LineEnds, Branches, Relative, Absolute
<1>5. b.size = l.size
  BY <1>1, <1>2, <1>4 DEF Behind
<1>6. size' = size /\ intact' /\ cap' = CapUnit
  BY <1>3, SceneParts DEF stmVars
<1>7. pc' = pc + 1
  <2>1. TypeOK
    BY SceneParts
  <2>2. QED
    BY <2>1 DEF Org, Bits, Times, Advance
<1>8. InPlace(b)'
  <2>1. CASE Org
    <3>1. /\ it.op = "org" /\ org_addr' = it.n /\ org_ofs' = size
          /\ code_start' = (IF size = 0 THEN it.n ELSE code_start)
          /\ UNCHANGED <<xmode, timesVars, rep_prefix>>
      BY <2>1 DEF Org, At
    <3>2. /\ b.mode = l.mode /\ b.org = it.n /\ b.base = l.size /\ b.from = l.from
          /\ b.start = (IF l.size = 0 THEN it.n ELSE l.start) /\ b.count = l.count
          /\ b.rep = l.rep
      BY <1>1, <1>2, <1>4, <3>1 DEF Behind
    <3> HIDE DEF l, it
    <3>3. QED
      BY <1>1, <1>5, <1>6, <3>1, <3>2 DEF InPlace, timesVars
  <2>2. CASE Bits
    <3>1. it.op = "bits" /\ xmode' = it.n /\ UNCHANGED <<orgVars, timesVars, rep_prefix>>
      BY <2>2 DEF Bits, At
    <3>2. /\ b.mode = it.n /\ b.org = l.org /\ b.base = l.base /\ b.from = l.from
          /\ b.start = l.start /\ b.count = l.count /\ b.rep = l.rep
      BY <1>1, <1>2, <1>4, <3>1 DEF Behind
    <3> HIDE DEF l, it
    <3>3. QED
      BY <1>1, <1>5, <1>6, <3>1, <3>2 DEF InPlace, timesVars, orgVars
  <2>3. CASE Times
    <3>1. /\ it.op = "times" /\ times_start' = size
          /\ times_count' = Operand(it.e) % CountMod
          /\ UNCHANGED <<xmode, orgVars, rep_prefix>>
      BY <2>3 DEF Times, At
    <3>2. Operand(it.e) = ValueAt(l, l.tab, it.e)
      BY <3>1, ElasticValue DEF Elastic
    <3>3. /\ b.mode = l.mode /\ b.org = l.org /\ b.base = l.base /\ b.from = l.size
          /\ b.start = l.start /\ b.count = ValueAt(l, l.tab, it.e) % CountMod
          /\ b.rep = l.rep
      BY <1>1, <1>2, <1>4, <3>1 DEF Behind
    <3> HIDE DEF l, it
    <3>4. QED
      BY <1>1, <1>5, <1>6, <3>1, <3>2, <3>3 DEF InPlace, orgVars
  <2>4. CASE Rep /\ pc' = pc + 1
    <3>0. TypeOK
      BY SceneParts
    <3>1. it.op = "rep" /\ rep_prefix' = TRUE /\ UNCHANGED <<xmode, orgVars, timesVars>>
      BY <2>4, <3>0 DEF Rep, At, Stop, TypeOK
    <3>2. /\ b.mode = l.mode /\ b.org = l.org /\ b.base = l.base /\ b.from = l.from
          /\ b.start = l.start /\ b.count = l.count /\ b.rep = TRUE
      BY <1>1, <1>4, <3>1 DEF Behind
    <3> HIDE DEF l, it
    <3>3. QED
      BY <1>1, <1>5, <1>6, <3>1, <3>2 DEF InPlace, timesVars, orgVars
  <2>5. QED
    BY <2>1, <2>2, <2>3, <2>4
<1>9. QED
  BY <1>6, <1>7, <1>8 DEF Reached

(* A string instruction puts its prefix, too. *)
LEMMA StringPlaced ==
  ASSUME NEW d, NEW rank, NEW at, Scene(d, rank, at), pc <= Len(prog), NEW b, b = at[pc+1],
         StringInst
  PROVE  Reached(b)
<1> DEFINE l == at[pc]
           it == prog[pc]
<1>1. b = Behind(l, it) /\ l \in Places /\ InPlace(l) /\ b.size <= CapUnit
  BY SceneAt
<1>2. l.rep \in BOOLEAN /\ l.size \in Nat
  BY <1>1, PlaceType
<1>3. /\ it.op = "string" /\ Advance /\ rep_prefix' = FALSE
      /\ UNCHANGED <<xmode, orgVars, timesVars>>
  BY DEF StringInst, At
<1>4. Width(l, it) = (IF l.rep THEN 2 ELSE 1) /\ ~LineEnds(l, it)
  BY <1>3 DEF Width, LineEnds, Branches, Relative, Absolute
<1>5. /\ b.size = l.size + Width(l, it) /\ b.mode = l.mode /\ b.org = l.org /\ b.base = l.base
      /\ b.start = l.start /\ b.from = l.from /\ b.count = l.count
  BY <1>1, <1>3, <1>4 DEF Behind
<1>6. b.rep = FALSE
  BY <1>1, <1>3 DEF Behind
<1>7. size' = size + Width(l, it) /\ cap' = CapUnit /\ intact'
  <2> DEFINE w == IF rep_prefix THEN 2 ELSE 1
  <2>1. w \in Nat /\ w = Width(l, it) /\ size = l.size
    BY <1>1, <1>4 DEF InPlace
  <2>2. Emit(w, 0, 0)
    BY DEF StringInst
  <2> HIDE DEF w, l, it
  <2>3. size + w <= CapUnit
    BY <1>1, <1>5, <2>1
  <2>4. size' = size + w /\ cap' = CapUnit /\ intact'
    BY <2>1, <2>2, <2>3, SceneParts, PutFits
  <2>5. QED
    BY <2>1, <2>4
<1>8. InPlace(b)'
  <2> HIDE DEF l, it
  <2>1. size' = b.size
    BY <1>1, <1>5, <1>7 DEF InPlace
  <2>2. QED
    BY <1>1, <1>3, <1>5, <1>6, <2>1 DEF InPlace, orgVars, timesVars
<1>9. QED
  BY <1>3, <1>7, <1>8 DEF Reached, Advance

(* The end of a line: a repeated line fits, too, and is not damaged. *)
LEMMA EndPlaced ==
  ASSUME NEW d, NEW rank, NEW at, Scene(d, rank, at), pc <= Len(prog), NEW b, b = at[pc+1],
         EndLine
  PROVE  Reached(b)
<1> DEFINE l == at[pc]
           it == prog[pc]
<1>1. b = Behind(l, it) /\ l \in Places /\ InPlace(l) /\ b.size <= CapUnit
  BY SceneAt
<1>2. /\ l.rep \in BOOLEAN /\ l.size \in Nat /\ l.from \in Nat /\ l.count \in Nat
      /\ l.from <= l.size
  BY <1>1, PlaceType
<1>3. /\ it.op \in {"eol", "end"} /\ pc' = pc + 1 /\ UNCHANGED <<xmode, orgVars>>
      /\ PendingRep \/ PlainLine \/ DropLine \/ RepeatLine
  BY DEF EndLine, At
<1>4. Width(l, it) = 0
  BY <1>3 DEF Width, Branches, Relative, Absolute
<1>5. b.mode = l.mode /\ b.org = l.org /\ b.base = l.base /\ b.start = l.start /\ b.rep = FALSE
  BY <1>1, <1>3 DEF Behind
<1>6. /\ size = l.size /\ times_start = l.from /\ times_count = l.count /\ rep_prefix = l.rep
      /\ xmode = l.mode /\ org_addr = l.org /\ org_ofs = l.base /\ code_start = l.start
  BY <1>1 DEF InPlace
<1>7. intact /\ cap = CapUnit /\ pos = size /\ CapUnit \in Nat /\ CapUnit > 0
  BY SceneParts, BoundAssumption DEF StreamLayout
<1>8. LineEnds(l, it) <=> ~rep_prefix /\ times_count # 1
  BY <1>3, <1>6 DEF LineEnds
<1>9. LineEnds(l, it) => b.size = l.from + (l.size - l.from) * l.count /\ b.from = 0 /\ b.count = 1
  BY <1>1, <1>3 DEF Behind
<1>10. ~LineEnds(l, it) => b.size = l.size /\ b.from = l.from /\ b.count = l.count
  BY <1>1, <1>2, <1>3, <1>4 DEF Behind
<1> HIDE DEF l, it
<1>11. CASE PendingRep \/ PlainLine
  <2>1. ~LineEnds(l, it)
    BY <1>8, <1>11 DEF PendingRep, PlainLine
  <2>2. UNCHANGED stmVars /\ UNCHANGED timesVars /\ rep_prefix' = FALSE
    BY <1>2, <1>6, <1>11 DEF PendingRep, PlainLine
  <2>3. QED
    BY <1>3, <1>5, <1>6, <1>7, <1>10, <2>1, <2>2
    DEF Reached, InPlace, stmVars, timesVars, orgVars
<1>12. CASE DropLine
  <2>1. LineEnds(l, it) /\ l.count = 0
    BY <1>6, <1>8, <1>12 DEF DropLine
  <2>2. b.size = l.from
    <3>1. (l.size - l.from) * 0 = 0
      BY <1>2
    <3>2. QED
      BY <1>2, <1>9, <2>1, <3>1
  <2>3. size' = times_start /\ cap' = Alloc(times_start) /\ TimesDone /\ intact' = intact
        /\ rep_prefix' = rep_prefix
    BY <1>12 DEF DropLine
  <2>4. Alloc(times_start) = CapUnit
    BY <1>1, <1>2, <1>6, <1>7, <2>2 DEF Alloc, CapFor
  <2>5. rep_prefix' = FALSE
    BY <1>12, <2>3 DEF DropLine
  <2>6. QED
    BY <1>3, <1>5, <1>6, <1>7, <1>9, <2>1, <2>2, <2>3, <2>4, <2>5
    DEF Reached, InPlace, TimesDone, orgVars
<1>13. CASE RepeatLine
  <2>1. LineEnds(l, it) /\ l.count > 1
    BY <1>2, <1>6, <1>8, <1>13 DEF RepeatLine
  <2>2. b.size = size + CopyBytes
    <3>1. \A x, y \in Nat : x * y = x + x * (y - 1)
      OBVIOUS
    <3>2. l.size - l.from \in Nat
      BY <1>2
    <3>3. (l.size - l.from) * l.count = (l.size - l.from) + (l.size - l.from) * (l.count - 1)
      BY <1>2, <3>1, <3>2
    <3> DEFINE q == (l.size - l.from) * (l.count - 1)
    <3>4. q \in Int
      <4>1. \A x, y \in Int : x * y \in Int
        OBVIOUS
      <4>2. QED
        BY <1>2, <3>2, <4>1
    <3>5. b.size = l.from + ((l.size - l.from) + q) /\ CopyBytes = q
      BY <1>6, <1>9, <2>1, <3>3 DEF CopyBytes
    <3> HIDE DEF q
    <3>6. QED
      BY <1>2, <1>6, <3>4, <3>5
  <2>3. size + CopyBytes <= CapUnit /\ size + CopyBytes \in Nat
    <3>1. b \in Places
      BY SceneAt
    <3>2. b.size \in Nat
      BY <3>1, PlaceType
    <3>3. QED
      BY <1>1, <2>2, <3>2
  <2> DEFINE n == size + CopyBytes
  <2>4. size' = n /\ cap' = Alloc(n) /\ TimesDone /\ rep_prefix' = rep_prefix /\ ~rep_prefix
    BY <1>13 DEF RepeatLine
  <2>5. n <= CapUnit /\ n \in Nat /\ b.size = n
    BY <2>2, <2>3
  <2> HIDE DEF n
  <2>6. Alloc(n) = CapUnit
    BY <1>7, <2>5 DEF Alloc, CapFor
  <2>7. intact'
    <3>1. cap' > 0 /\ ~(cap < size')
      BY <1>7, <2>4, <2>5, <2>6
    <3>2. CapUnit # 0 /\ cap' = CapUnit
      BY <1>7, <2>4, <2>6
    <3>3. QED
      BY <1>7, <1>13, <3>1, <3>2 DEF RepeatLine
  <2>8. rep_prefix' = b.rep
    <3>1. rep_prefix \in BOOLEAN
      BY SceneParts DEF TypeOK
    <3>2. rep_prefix = FALSE
      BY <2>4, <3>1
    <3>3. QED
      BY <1>5, <2>4, <3>2
  <2>9. times_start' = b.from /\ times_count' = b.count /\ size' = b.size
    BY <1>9, <2>1, <2>4, <2>5 DEF TimesDone
  <2>10. xmode' = b.mode /\ org_addr' = b.org /\ org_ofs' = b.base /\ code_start' = b.start
    BY <1>3, <1>5, <1>6 DEF orgVars
  <2>11. InPlace(b)'
    BY <2>8, <2>9, <2>10 DEF InPlace
  <2>12. QED
    BY <1>3, <2>4, <2>6, <2>7, <2>11 DEF Reached
<1>14. QED
  BY <1>3, <1>11, <1>12, <1>13

(* Nothing of the layout or of the table changes. *)
Still == UNCHANGED <<prog, pc, pass_idx, sym, xmode, stmVars, orgVars, timesVars, rep_prefix>>

(* Where a step can lead: to the next statement as the layout has it, to    *)
(* the next pass, or nowhere.                                               *)
LEMMA Moves ==
  ASSUME NEW d, NEW rank, NEW at, Scene(d, rank, at), [Next]_vars
  PROVE  \/ NextPass
         \/ Still
         \/ /\ pc <= Len(prog) /\ prog' = prog /\ pass_idx' = pass_idx
            /\ Statement /\ ~Still
            /\ \A b : b = at[pc+1] => Reached(b)
<1>1. CASE Statement /\ ~Still
  <2>1. TypeOK /\ prog' = prog
    BY <1>1, SceneParts, PcMoves
  <2>2. ~(BranchOutOfRange \/ BranchIllegal \/ Undefined \/ Reject)
    BY <1>1 DEF Still, BranchOutOfRange, BranchIllegal, Undefined, Reject, Stop
  <2>3. pc <= Len(prog) /\ pass_idx' = pass_idx /\ pc' = pc + 1
    <3>1. CASE Label \/ Equ \/ Data \/ Str \/ Branch \/ Org \/ Align \/ Bits \/ Times
               \/ StringInst \/ EndLine
      BY <3>1 DEF Label, Equ, Data, Str, Branch, Org, Align, Bits, Times, StringInst, EndLine,
                  At, Advance
    <3>2. CASE Rep
      BY <3>2, <1>1 DEF Rep, At, Advance, Stop, Still
    <3>3. QED
      BY <1>1, <2>2, <3>1, <3>2 DEF Statement
  <2>4. ASSUME NEW b, b = at[pc+1] PROVE Reached(b)
    BY <1>1, <2>2, <2>3, <2>4, NamePlaced, BytesPlaced, TextPlaced, MarkPlaced, StringPlaced,
       EndPlaced DEF Statement
  <2>5. QED
    BY <1>1, <2>1, <2>3, <2>4
<1>2. CASE Statement /\ Still
  BY <1>2
<1>3. CASE Save \/ Crash \/ Exited \/ UNCHANGED vars
  BY <1>3 DEF Save, Crash, Exited, vars, Still
<1>4. QED
  BY <1>1, <1>2, <1>3 DEF Next

-----------------------------------------------------------------------------
(* The values of the names. *)

(* A name that the EQU at i uses is defined somewhere, with a rank that is  *)
(* smaller unless it is further up.                                         *)
LEMMA UsedRank ==
  ASSUME NEW d, NEW rank, NEW at, Source(prog, d, rank, at),
         NEW i \in 1..Len(prog), prog[i].op \in Defining, NEW n \in Uses(prog, i)
  PROVE  /\ \E j \in 1..Len(prog) :
              /\ prog[j].op \in Defining /\ prog[j].s = n
              /\ j >= i => rank[n] < rank[prog[i].s]
         /\ rank[n] <= rank[prog[i].s] /\ n \in Syms /\ prog[i].op = "equ"
<1>1. prog[i].op = "equ" /\ n \in Names(prog[i].e)
  BY DEF Uses, Defining, ExprOps, Branches, Relative, Absolute
<1>2. n \in Before(prog, Len(prog) + 1)
  BY DEF Source, AllDefined
<1>3. Len(prog) \in Nat
  BY DEF Source, WellFormed
<1>4. PICK j \in 1..Len(prog) : prog[j].op \in Defining /\ prog[j].s = n
  BY <1>2, <1>3 DEF Before
<1>5. /\ rank[n] <= rank[prog[i].s]
      /\ n \notin Before(prog, i) => rank[n] < rank[prog[i].s]
  BY <1>1 DEF Source, Ranked
<1>6. ASSUME j >= i PROVE n \notin Before(prog, i)
  <2> SUFFICES ASSUME n \in Before(prog, i) PROVE FALSE
    OBVIOUS
  <2>1. PICK k \in 1..(i-1) : prog[k].op \in Defining /\ prog[k].s = n
    BY DEF Before
  <2>2. k \in 1..Len(prog) /\ k < i
    BY <1>3, <2>1
  <2>3. k = j
    BY <1>4, <2>1, <2>2 DEF Source, DefinedOnce
  <2>4. QED
    BY <1>6, <2>2, <2>3
<1>7. n \in Syms
  BY <1>1 DEF Names
<1>8. QED
  BY <1>1, <1>4, <1>5, <1>6, <1>7

LEMMA RankNat ==
  ASSUME NEW d, NEW rank, NEW at, Source(prog, d, rank, at), NEW s \in Syms
  PROVE  rank[s] \in Nat /\ rank[s] <= d /\ d \in Nat
  BY DEF Source

(* What the definition of a final name uses is final, too; so is what the   *)
(* definition at pc uses if its rank is that of this pass.                  *)
LEMMA FinalUses ==
  ASSUME NEW d, NEW rank, NEW at, Source(prog, d, rank, at), TypeOK,
         NEW i \in 1..Len(prog), prog[i].op \in Defining, NEW n \in Uses(prog, i),
         Final(rank, i) \/ (i = pc /\ rank[prog[i].s] < pass_idx)
  PROVE  \E j \in 1..Len(prog) :
           /\ prog[j].op \in Defining /\ prog[j].s = n /\ Final(rank, j)
           /\ i = pc => j # pc
<1>1. PICK j \in 1..Len(prog) :
        /\ prog[j].op \in Defining /\ prog[j].s = n
        /\ j >= i => rank[n] < rank[prog[i].s]
  BY UsedRank
<1>2. rank[n] <= rank[prog[i].s] /\ n \in Syms /\ prog[i].s \in Syms
  <2>1. WellFormed(prog)
    BY DEF Source
  <2>2. QED
    BY <2>1, UsedRank, ItemType
<1>3. rank[n] \in Nat /\ rank[prog[i].s] \in Nat
  BY <1>2, RankNat
<1>4. pc \in Nat /\ pass_idx \in Nat
  BY Numbers DEF TypeOK
<1> DEFINE r == rank[n]
           q == rank[prog[i].s]
<1>5. Final(rank, j) <=> IF j < pc THEN r < pass_idx ELSE r + 1 < pass_idx
  BY <1>1 DEF Final
<1>6. Final(rank, i) <=> IF i < pc THEN q < pass_idx ELSE q + 1 < pass_idx
  BY DEF Final
<1>7. r \in Nat /\ q \in Nat /\ r <= q /\ (j >= i => r < q)
  BY <1>1, <1>2, <1>3
<1> HIDE DEF r, q
<1>8. Final(rank, i) \/ (i = pc /\ q < pass_idx)
  BY DEF q
<1>9. Final(rank, j)
  BY <1>4, <1>5, <1>6, <1>7, <1>8
<1>10. i = pc => j # pc
  <2>1. j = i => r = q
    BY <1>1 DEF r, q
  <2>2. QED
    BY <1>7, <2>1
<1>11. QED
  BY <1>1, <1>9, <1>10

(* The value a definition gives depends on a table through the names it uses. *)
LEMMA MeaningByNames ==
  ASSUME NEW l, NEW i \in 1..Len(prog), WellFormed(prog), prog[i].op \in Defining,
         NEW t1, NEW t2, DOMAIN t1 \subseteq Syms, DOMAIN t2 \subseteq Syms,
         Uses(prog, i) \subseteq DOMAIN t1, Uses(prog, i) \subseteq DOMAIN t2,
         \A s \in Uses(prog, i) : t1[s] = t2[s]
  PROVE  Meaning(l, t1, prog[i]) = Meaning(l, t2, prog[i])
<1>1. CASE prog[i].op = "label"
  BY <1>1 DEF Meaning
<1>2. CASE prog[i].op = "equ"
  <2>1. Uses(prog, i) = Names(prog[i].e) /\ prog[i].e \in Expr
    BY <1>2, ItemType DEF Uses, ExprOps
  <2>2. Value(prog[i].e, t1, HereAt(l.size, l.org, l.base), l.start, 0)
          = Value(prog[i].e, t2, HereAt(l.size, l.org, l.base), l.start, 0)
    BY <2>1, ValueByNames
  <2>3. QED
    BY <1>2, <2>2 DEF Meaning, ValueAt
<1>3. QED
  BY <1>1, <1>2 DEF Defining

(* A definition whose names are known gives its name that value.            *)
LEMMA Defines ==
  ASSUME NEW d, NEW rank, NEW at, Scene(d, rank, at), pc <= Len(prog), Label \/ Equ,
         Uses(prog, pc) \subseteq DOMAIN sym
  PROVE  EnsureSymbol(prog[pc].s, Meaning(at[pc], sym, prog[pc]), FALSE)
<1>1. InPlace(at[pc]) /\ prog[pc].e \in Expr /\ TypeOK
  BY SceneAt, SceneParts
<1>2. CASE Label
  <2>1. prog[pc].op = "label" /\ EnsureSymbol(prog[pc].s, size + org_addr + org_ofs, FALSE)
    BY <1>2 DEF Label, At
  <2>2. Meaning(at[pc], sym, prog[pc]) = size + org_addr + org_ofs
    BY <1>1, <2>1 DEF Meaning, InPlace
  <2>3. QED
    BY <2>1, <2>2, Zenon
<1>3. CASE Equ
  <2>1. /\ prog[pc].op = "equ"
        /\ EnsureSymbol(prog[pc].s, Operand(prog[pc].e), ~Resolved(prog[pc].e))
    BY <1>3 DEF Equ, At
  <2>2. Names(prog[pc].e) \subseteq DOMAIN sym
    BY <2>1 DEF Uses, ExprOps
  <2>3. Meaning(at[pc], sym, prog[pc]) = Operand(prog[pc].e)
    BY <1>1, <2>1, <2>2, OperandIs DEF Meaning
  <2>4. Resolved(prog[pc].e)
    BY <2>2 DEF Resolved
  <2>5. EnsureSymbol(prog[pc].s, Meaning(at[pc], sym, prog[pc]), ~Resolved(prog[pc].e))
    BY <2>1, <2>3, Zenon
  <2>6. QED
    BY <2>4, <2>5 DEF EnsureSymbol
<1>4. QED
  BY <1>2, <1>3

(* A name that has its value keeps it when its statement is handled again.  *)
LEMMA SameAgain ==
  ASSUME NEW d, NEW rank, NEW at, Scene(d, rank, at), pc <= Len(prog), Label \/ Equ,
         Meets(at, pc)
  PROVE  sym' = sym
<1> DEFINE s == prog[pc].s
           v == Meaning(at[pc], sym, prog[pc])
<1>1. EnsureSymbol(s, v, FALSE) /\ s \in DOMAIN sym /\ sym[s] = v
  BY Defines DEF Meets
<1> HIDE DEF s, v
<1>2. sym' = [x \in DOMAIN sym |-> IF x = s THEN v ELSE sym[x]]
  <2>1. DOMAIN sym \cup {s} = DOMAIN sym
    BY <1>1
  <2>2. QED
    BY <1>1, <2>1 DEF EnsureSymbol
<1>3. sym = [x \in DOMAIN sym |-> sym[x]]
  BY SceneParts DEF TypeOK
<1>4. QED
  BY <1>1, <1>2, <1>3

(* A definition changes its own name in the table and no other. *)
LEMMA OneChange ==
  ASSUME Label \/ Equ
  PROVE  /\ DOMAIN sym' = DOMAIN sym \cup {prog[pc].s}
         /\ \A x \in DOMAIN sym : x # prog[pc].s => sym'[x] = sym[x]
         /\ prog[pc].op \in Defining
<1>1. PICK val, missed : EnsureSymbol(prog[pc].s, val, missed)
  BY DEF Label, Equ
<1>2. QED
  BY <1>1 DEF EnsureSymbol, Label, Equ, At, Defining

LEMMA TwoNames ==
  ASSUME NEW d, NEW rank, NEW at, Source(prog, d, rank, at), NEW i \in 1..Len(prog),
         NEW j \in 1..Len(prog), prog[i].op \in Defining, prog[j].op \in Defining, i # j
  PROVE  prog[i].s # prog[j].s
  BY DEF Source, DefinedOnce

(* What is final stays right, whatever else a definition changes. *)
LEMMA OthersMeet ==
  ASSUME NEW d, NEW rank, NEW at, Scene(d, rank, at), FinalMeet(rank, at), pc <= Len(prog),
         Label \/ Equ, prog' = prog, TypeOK',
         NEW i \in 1..Len(prog), prog[i].op \in Defining, i # pc, Final(rank, i)
  PROVE  Meets(at, i)'
<1>0. /\ Source(prog, d, rank, at) /\ TypeOK /\ pc \in 1..Len(prog) /\ WellFormed(prog)
      /\ DOMAIN sym \subseteq Syms /\ DOMAIN sym' \subseteq Syms
  BY SceneAt DEF Scene, Source, TypeOK
<1>1. Meets(at, i)
  BY DEF FinalMeet
<1>2. CASE Final(rank, pc)
  <2>1. Meets(at, pc)
    BY <1>0, <1>2, OneChange DEF FinalMeet
  <2>2. sym' = sym
    BY <2>1, SameAgain
  <2>3. QED
    BY <1>1, <2>2 DEF Meets
<1>3. CASE ~Final(rank, pc)
  <2> DEFINE s == prog[pc].s
  <2>1. ASSUME NEW n \in Uses(prog, i) PROVE n # s
    <3>1. PICK j \in 1..Len(prog) :
            prog[j].op \in Defining /\ prog[j].s = n /\ Final(rank, j)
      BY <1>0, FinalUses
    <3>2. j # pc
      BY <1>3, <3>1
    <3>3. QED
      BY <1>0, <3>1, <3>2, OneChange, TwoNames
  <2>2. prog[i].s # s
    BY <1>0, OneChange, TwoNames
  <2>3. /\ DOMAIN sym' = DOMAIN sym \cup {s} /\ \A x \in DOMAIN sym : x # s => sym'[x] = sym[x]
    BY OneChange
  <2>4. /\ prog[i].s \in DOMAIN sym /\ Uses(prog, i) \subseteq DOMAIN sym
        /\ sym[prog[i].s] = Meaning(at[i], sym, prog[i])
    BY <1>1 DEF Meets
  <2> HIDE DEF s
  <2>5. /\ prog[i].s \in DOMAIN sym' /\ Uses(prog, i) \subseteq DOMAIN sym'
        /\ sym'[prog[i].s] = sym[prog[i].s]
        /\ \A n \in Uses(prog, i) : sym[n] = sym'[n]
    BY <2>1, <2>2, <2>3, <2>4
  <2>6. Meaning(at[i], sym, prog[i]) = Meaning(at[i], sym', prog[i])
    <3>1. Uses(prog, i) \subseteq DOMAIN sym
      BY <2>4
    <3>2. Uses(prog, i) \subseteq DOMAIN sym' /\ \A n \in Uses(prog, i) : sym[n] = sym'[n]
      BY <2>5
    <3>3. QED
      BY <1>0, <3>1, <3>2, MeaningByNames
  <2>7. sym'[prog[i].s] = Meaning(at[i], sym', prog[i])
    BY <2>4, <2>5, <2>6
  <2>8. QED
    BY <2>5, <2>7 DEF Meets, Uses
<1>4. QED
  BY <1>2, <1>3

(* A name whose turn it is in this pass gets its last value. *)
LEMMA OwnMeets ==
  ASSUME NEW d, NEW rank, NEW at, Scene(d, rank, at), FinalMeet(rank, at), pc <= Len(prog),
         Label \/ Equ, prog' = prog, TypeOK', NEW i, i = pc, rank[prog[i].s] < pass_idx
  PROVE  Meets(at, i)'
<1>0. /\ Source(prog, d, rank, at) /\ TypeOK /\ i \in 1..Len(prog) /\ WellFormed(prog)
      /\ DOMAIN sym \subseteq Syms /\ DOMAIN sym' \subseteq Syms /\ prog[i].op \in Defining
  BY SceneAt, OneChange DEF Scene, Source, TypeOK
<1> DEFINE s == prog[i].s
           v == Meaning(at[i], sym, prog[i])
<1>1. ASSUME NEW n \in Uses(prog, i) PROVE n \in DOMAIN sym /\ n # s
  <2>1. PICK j \in 1..Len(prog) :
          prog[j].op \in Defining /\ prog[j].s = n /\ Final(rank, j) /\ j # i
    BY <1>0, FinalUses
  <2>2. n \in DOMAIN sym
    BY <2>1 DEF FinalMeet, Meets
  <2>3. QED
    BY <1>0, <2>1, <2>2, TwoNames
<1>2. EnsureSymbol(s, v, FALSE)
  <2>1. Uses(prog, i) \subseteq DOMAIN sym
    BY <1>1
  <2>2. QED
    BY <2>1, Defines
<1> HIDE DEF s, v
<1>3. /\ s \in DOMAIN sym' /\ sym'[s] = v /\ Uses(prog, i) \subseteq DOMAIN sym'
      /\ \A n \in Uses(prog, i) : sym[n] = sym'[n]
  BY <1>1, <1>2 DEF EnsureSymbol
<1>4. Uses(prog, i) \subseteq DOMAIN sym
  BY <1>1
<1>5. v = Meaning(at[i], sym', prog[i])
  BY <1>0, <1>3, <1>4, MeaningByNames DEF v
<1>6. QED
  BY <1>3, <1>5 DEF Meets, Uses, s

(* Statements that define nothing leave the table alone. *)
LEMMA TableStays ==
  ASSUME Statement, ~(Label \/ Equ)
  PROVE  sym' = sym /\ (~Still /\ TypeOK => prog[pc].op \notin Defining)
<1>1. CASE Data \/ Str \/ Branch \/ Org \/ Align \/ Bits \/ Times \/ StringInst \/ EndLine
  BY <1>1 DEF Data, Str, Branch, Org, Align, Bits, Times, StringInst, EndLine, At,
              Defining, Branches, Relative, Absolute
<1>2. CASE Rep
  BY <1>2 DEF Rep, At, Defining, Stop
<1>3. CASE BranchOutOfRange \/ BranchIllegal \/ Undefined \/ Reject
  BY <1>3 DEF BranchOutOfRange, BranchIllegal, Undefined, Reject, Stop, Still
<1>4. QED
  BY <1>1, <1>2, <1>3 DEF Statement

LEMMA FinalMeetStep ==
  ASSUME NEW d, NEW rank, NEW at, Scene(d, rank, at), FinalMeet(rank, at), [Next]_vars, TypeOK'
  PROVE  FinalMeet(rank, at)'
<1>0. /\ Source(prog, d, rank, at) /\ TypeOK /\ WellFormed(prog) /\ Len(prog) \in Nat
      /\ pc \in 1..(Len(prog) + 1) /\ pass_idx \in Nat
  <2>1. Source(prog, d, rank, at) /\ TypeOK
    BY DEF Scene
  <2>2. pass_idx \in Nat
    BY <2>1, Numbers
  <2>3. WellFormed(prog) /\ pc \in 1..(Len(prog) + 1)
    BY <2>1 DEF TypeOK
  <2>4. QED
    BY <2>1, <2>2, <2>3 DEF WellFormed
<1>1. prog' = prog
  BY <1>0, PcMoves
<1> SUFFICES ASSUME NEW i \in 1..Len(prog), prog[i].op \in Defining, Final(rank, i)'
             PROVE  Meets(at, i)'
  BY <1>1 DEF FinalMeet
<1> DEFINE q == rank[prog[i].s]
<1>2. q \in Nat
  BY <1>0, ItemType, RankNat
<1>3. IF i < pc' THEN q < pass_idx' ELSE q + 1 < pass_idx'
  BY <1>1 DEF Final
<1>4. Final(rank, i) <=> IF i < pc THEN q < pass_idx ELSE q + 1 < pass_idx
  BY DEF Final
<1> HIDE DEF q
<1>5. CASE sym' = sym /\ Final(rank, i)
  <2>1. Meets(at, i)
    BY <1>5 DEF FinalMeet
  <2>2. QED
    BY <1>1, <1>5, <2>1 DEF Meets, Uses
<1>6. CASE NextPass
  <2>1. sym' = sym /\ pc' = 1 /\ pc > Len(prog) /\ pass_idx' = (pass_idx + 1) % PassWrap
    BY <1>6 DEF NextPass, PassEnded
  <2>2. pass_idx' <= pass_idx + 1
    <3>1. \A m \in Nat : \A w \in Nat : w > 1 => m % w <= m
      OBVIOUS
    <3>2. pass_idx + 1 \in Nat
      BY <1>0
    <3>3. QED
      BY <2>1, <3>1, <3>2, BoundAssumption
  <2>3. pass_idx' \in Nat
    BY Numbers DEF TypeOK
  <2>4. i < pc /\ ~(i < pc')
    BY <1>0, <2>1
  <2>5. q < pass_idx
    BY <1>0, <1>2, <1>3, <2>2, <2>3, <2>4
  <2>6. QED
    BY <1>4, <1>5, <2>1, <2>4, <2>5
<1>7. CASE Still
  BY <1>3, <1>4, <1>5, <1>7 DEF Still
<1>8. CASE pc <= Len(prog) /\ pass_idx' = pass_idx /\ Statement /\ ~Still /\ pc' = pc + 1
  <2>1. CASE Label \/ Equ
    <3>1. CASE i = pc
      <4>1. q < pass_idx
        BY <1>0, <1>3, <1>8, <3>1
      <4>2. QED
        BY <1>1, <1>8, <2>1, <3>1, <4>1, OwnMeets DEF q
    <3>2. CASE i # pc
      <4>1. Final(rank, i)
        BY <1>0, <1>3, <1>4, <1>8, <3>2
      <4>2. QED
        BY <1>1, <1>8, <2>1, <3>2, <4>1, OthersMeet
    <3>3. QED
      BY <3>1, <3>2
  <2>2. CASE ~(Label \/ Equ)
    <3>1. sym' = sym /\ prog[pc].op \notin Defining
      BY <1>0, <1>8, <2>2, TableStays
    <3>2. i # pc
      BY <3>1
    <3>3. Final(rank, i)
      BY <1>0, <1>3, <1>4, <1>8, <3>2
    <3>4. QED
      BY <1>5, <3>1, <3>3
  <2>3. QED
    BY <2>1, <2>2
<1>9. \/ NextPass \/ Still
      \/ pc <= Len(prog) /\ pass_idx' = pass_idx /\ Statement /\ ~Still /\ pc' = pc + 1
  BY Moves DEF Reached
<1>10. QED
  BY <1>6, <1>7, <1>8, <1>9

LEMMA TidyStep ==
  ASSUME NEW d, NEW rank, NEW at, Scene(d, rank, at), [Next]_vars
  PROVE  Tidy(at)'
<1>1. CASE NextPass
  <2>1. /\ pc' = 1 /\ size' = 0 /\ xmode' = 32 /\ org_addr' = 0 /\ org_ofs' = 0 /\ code_start' = 0
        /\ times_start' = 0 /\ times_count' = 0 /\ rep_prefix' = FALSE /\ intact' = TRUE /\ cap' = cap
    BY <1>1 DEF NextPass
  <2>2. at[1] = Top /\ cap = CapUnit
    BY SceneParts DEF Scene, Source
  <2>3. InPlace(Top)'
    BY <2>1 DEF InPlace, Top
  <2>4. QED
    BY <2>1, <2>2, <2>3 DEF Tidy, InPlace
<1>2. CASE Still
  <2>1. Tidy(at)
    BY DEF Scene
  <2>2. QED
    BY <1>2, <2>1 DEF Still, Tidy, InPlace, stmVars, orgVars, timesVars
<1>3. ASSUME \A b : b = at[pc+1] => Reached(b) PROVE Tidy(at)'
  <2>1. PICK b : b = at[pc+1]
    OBVIOUS
  <2>2. Reached(b)
    BY <1>3, <2>1
  <2>3. QED
    BY <2>1, <2>2 DEF Reached, Tidy, InPlace
<1>4. QED
  BY <1>1, <1>2, <1>3, Moves

(* What the definition of a name of rank 0 uses is of rank 0 and known.     *)
LEMMA EarlyUses ==
  ASSUME NEW d, NEW rank, NEW at, Source(prog, d, rank, at), NEW i \in 1..Len(prog),
         prog[i].op \in Defining, rank[prog[i].s] = 0
  PROVE  \A n \in Uses(prog, i) : n \in Before(prog, i) /\ rank[n] = 0
<1> SUFFICES ASSUME NEW n \in Uses(prog, i)
             PROVE  n \in Before(prog, i) /\ rank[n] = 0
  OBVIOUS
<1>1. prog[i].op = "equ" /\ n \in Names(prog[i].e) /\ n \in Syms
  BY UsedRank DEF Uses
<1>2. /\ rank[n] <= 0 /\ (n \notin Before(prog, i) => rank[n] < 0)
  BY <1>1 DEF Source, Ranked
<1>3. rank[n] \in Nat
  BY <1>1, RankNat
<1>4. QED
  BY <1>2, <1>3

(* The definition of a name of rank 0 gives it the value of the layout. *)
LEMMA EarlyOwn ==
  ASSUME NEW d, NEW rank, NEW at, Scene(d, rank, at), pc <= Len(prog), NEW b, b = at[pc+1],
         Label \/ Equ, rank[prog[pc].s] = 0
  PROVE  prog[pc].s \in DOMAIN sym' /\ sym'[prog[pc].s] = b.tab[prog[pc].s]
<1> DEFINE l == at[pc]
           s == prog[pc].s
           v == Meaning(l, l.tab, prog[pc])
<1>1. /\ pc \in 1..Len(prog) /\ b = Behind(l, prog[pc]) /\ prog[pc].e \in Expr
      /\ Source(prog, d, rank, at) /\ prog[pc].op \in Defining /\ WellFormed(prog)
  BY SceneAt, OneChange DEF Scene, Source
<1>2. s \in Syms
  BY <1>1, ItemType
<1>3. b.tab[s] = v
  BY <1>1, <1>2 DEF Behind
<1>4. \A n \in Uses(prog, pc) : n \in Before(prog, pc) /\ rank[n] = 0
  BY <1>1, EarlyUses
<1>5. Uses(prog, pc) \subseteq DOMAIN sym /\ Meaning(l, sym, prog[pc]) = v
  <2>1. CASE prog[pc].op = "label"
    BY <2>1 DEF Uses, Meaning, ExprOps, Branches, Relative, Absolute
  <2>2. CASE prog[pc].op = "equ"
    <3>1. Uses(prog, pc) = Names(prog[pc].e)
      BY <2>2 DEF Uses, ExprOps
    <3>2. Names(prog[pc].e) \subseteq DOMAIN sym
          /\ ValueAt(l, sym, prog[pc].e) = ValueAt(l, l.tab, prog[pc].e)
      BY <1>1, <1>4, <3>1, OperandEarly
    <3>3. QED
      BY <2>2, <3>1, <3>2 DEF Meaning
  <2>3. QED
    BY <1>1, <2>1, <2>2 DEF Defining
<1>6. EnsureSymbol(s, Meaning(l, sym, prog[pc]), FALSE)
  BY <1>5, Defines
<1> HIDE DEF s, v, l
<1>7. EnsureSymbol(s, v, FALSE)
  BY <1>5, <1>6, Zenon
<1>8. s \in DOMAIN sym' /\ sym'[s] = v
  BY <1>7 DEF EnsureSymbol
<1>9. QED
  BY <1>3, <1>8 DEF s

LEMMA EarlyNamesStep ==
  ASSUME NEW d, NEW rank, NEW at, Scene(d, rank, at), [Next]_vars, TypeOK'
  PROVE  EarlyNames(rank, at)'
<1>0. /\ Source(prog, d, rank, at) /\ TypeOK /\ EarlyNames(rank, at) /\ WellFormed(prog)
  BY DEF Scene, Source
<1>1. prog' = prog
  BY <1>0, PcMoves
<1>2. Len(prog) \in Nat /\ pc \in 1..(Len(prog) + 1)
  BY <1>0 DEF TypeOK, WellFormed
<1>3. CASE NextPass
  <2>1. pc' = 1
    BY <1>3 DEF NextPass
  <2>2. QED
    BY <1>1, <1>2, <2>1 DEF EarlyNames
<1>4. CASE Still
  BY <1>0, <1>4 DEF Still, EarlyNames
<1>5. ASSUME pc <= Len(prog), Statement, ~Still, \A b : b = at[pc+1] => Reached(b)
      PROVE  EarlyNames(rank, at)'
  <2>0. /\ pc \in 1..Len(prog) /\ at[pc+1] = Behind(at[pc], prog[pc]) /\ pc' = pc + 1
        /\ at[pc] \in Places
    BY <1>5, SceneAt DEF Reached
  <2> SUFFICES ASSUME NEW i \in 1..Len(prog), i < pc', prog[i].op \in Defining,
                      rank[prog[i].s] = 0
               PROVE  prog[i].s \in DOMAIN sym' /\ sym'[prog[i].s] = at[pc'].tab[prog[i].s]
    BY <1>1 DEF EarlyNames
  <2>1. prog[i].s \in Syms
    BY <1>0, ItemType
  <2>2. CASE i = pc
    <3>1. Label \/ Equ
      BY <1>0, <1>5, <2>2, TableStays
    <3>2. QED
      BY <1>5, <2>0, <2>2, <3>1, EarlyOwn
  <2>3. CASE i # pc
    <3>1. i < pc
      BY <1>2, <2>0, <2>3
    <3>2. prog[i].s \in DOMAIN sym /\ sym[prog[i].s] = at[pc].tab[prog[i].s]
      BY <1>0, <3>1 DEF EarlyNames
    <3>3. CASE Label \/ Equ
      <4>1. prog[i].s # prog[pc].s
        BY <1>0, <2>0, <2>3, <3>3, OneChange, TwoNames
      <4>2. prog[i].s \in DOMAIN sym' /\ sym'[prog[i].s] = sym[prog[i].s]
        BY <3>2, <3>3, <4>1, OneChange
      <4>3. at[pc+1].tab[prog[i].s] = at[pc].tab[prog[i].s]
        <5>1. prog[pc].op \in Defining
          BY <3>3, OneChange
        <5>2. QED
          BY <2>0, <2>1, <4>1, <5>1 DEF Behind
      <4>4. QED
        BY <2>0, <3>2, <4>2, <4>3
    <3>4. CASE ~(Label \/ Equ)
      <4>1. sym' = sym /\ prog[pc].op \notin Defining
        BY <1>0, <1>5, <3>4, TableStays
      <4>2. at[pc+1].tab = at[pc].tab
        BY <2>0, <4>1 DEF Behind
      <4>3. QED
        BY <2>0, <3>2, <4>1, <4>2
    <3>5. QED
      BY <3>3, <3>4
  <2>4. QED
    BY <2>2, <2>3
<1>6. QED
  BY <1>3, <1>4, <1>5, Moves

-----------------------------------------------------------------------------
(* The end of the passes. *)

(* After the first pass every name that is used is known.                   *)
LEMMA AllKnown ==
  ASSUME AllDefined(prog), WellFormed(prog), SymbolsKnown, pass_idx # 1, NEW i \in 1..Len(prog)
  PROVE  Uses(prog, i) \subseteq DOMAIN sym
<1>1. KnownUpTo(Len(prog))
  BY DEF SymbolsKnown
<1>2. Len(prog) \in Nat
  BY DEF WellFormed
<1>3. ASSUME NEW n \in Uses(prog, i) PROVE n \in DOMAIN sym
  <2>1. n \in Before(prog, Len(prog) + 1)
    BY DEF AllDefined
  <2>2. PICK j \in 1..Len(prog) : prog[j].op \in Defining /\ prog[j].s = n
    BY <1>2, <2>1 DEF Before
  <2>3. QED
    BY <1>1, <2>2 DEF KnownUpTo
<1>4. QED
  BY <1>3

(* A definition that finds its name right asks for nothing. *)
LEMMA NothingNew ==
  ASSUME NEW d, NEW rank, NEW at, Scene(d, rank, at), pc <= Len(prog), Label \/ Equ,
         Meets(at, pc), ~need_more
  PROVE  ~need_more'
<1> DEFINE s == prog[pc].s
           v == Meaning(at[pc], sym, prog[pc])
<1>1. EnsureSymbol(s, v, FALSE) /\ s \in DOMAIN sym /\ sym[s] = v
  BY Defines DEF Meets
<1> HIDE DEF s, v
<1>2. QED
  BY <1>1 DEF EnsureSymbol

(* Nor does any other statement whose names are known. *)
LEMMA NothingMissing ==
  ASSUME TypeOK, Statement, ~(Label \/ Equ), Uses(prog, pc) \subseteq DOMAIN sym, ~need_more
  PROVE  ~need_more'
<1>1. prog[pc].op \in ExprOps => Resolved(prog[pc].e)
  BY DEF Resolved, Uses
<1>2. CASE Data
  BY <1>1, <1>2 DEF Data, At, ExprOps
<1>3. CASE Branch \/ BranchIllegal
  BY <1>1, <1>3 DEF Branch, BranchIllegal, ExprOps
<1>4. CASE Times
  BY <1>1, <1>4 DEF Times, At, ExprOps
<1>5. CASE Undefined
  BY <1>1, <1>5 DEF Undefined, CanEval
<1>6. CASE Str \/ Org \/ Align \/ Bits \/ Rep \/ StringInst \/ EndLine
  BY <1>6 DEF Str, Org, Align, Bits, Rep, StringInst, EndLine
<1>7. CASE BranchOutOfRange \/ Reject
  BY <1>7 DEF BranchOutOfRange, Reject
<1>8. QED
  BY <1>2, <1>3, <1>4, <1>5, <1>6, <1>7 DEF Statement

LEMMA LastPassStep ==
  ASSUME NEW d, NEW rank, NEW at, Scene(d, rank, at), FinalMeet(rank, at), SymbolsKnown,
         d + 2 < PassWrap, LastPass(d), [Next]_vars
  PROVE  LastPass(d)'
<1>0. /\ Source(prog, d, rank, at) /\ TypeOK /\ WellFormed(prog) /\ d \in Nat
      /\ pass_idx \in Nat /\ pass_idx \in 1..(d+2)
  <2>1. Source(prog, d, rank, at) /\ TypeOK /\ pass_idx \in 1..(d+2)
    BY DEF Scene, LastPass
  <2>2. QED
    BY <2>1, Numbers DEF Source
<1>1. CASE NextPass
  <2>1. need_more /\ pass_idx' = (pass_idx + 1) % PassWrap /\ ~need_more'
    BY <1>1 DEF NextPass
  <2>2. pass_idx + 1 \in 2..(d+2)
    BY <1>0, <2>1 DEF LastPass
  <2>3. pass_idx' = pass_idx + 1
    <3>1. \A m, w \in Nat : m < w => m % w = m
      OBVIOUS
    <3>2. pass_idx + 1 < PassWrap /\ pass_idx + 1 \in Nat
      BY <1>0, <2>2, BoundAssumption
    <3>3. QED
      BY <2>1, <3>1, <3>2, BoundAssumption
  <2>4. QED
    BY <1>0, <2>1, <2>2, <2>3 DEF LastPass
<1>2. CASE pass_idx' = pass_idx
  <2>1. SUFFICES ASSUME pass_idx = d + 2 PROVE ~need_more'
    BY <1>0, <1>2 DEF LastPass
  <2>2. ~need_more
    BY <2>1 DEF LastPass
  <2>3. CASE Statement
    <3>1. pc <= Len(prog) /\ pc \in 1..Len(prog)
      <4>1. pc <= Len(prog)
        BY <2>3 DEF Statement, Label, Equ, Data, Str, Branch, BranchOutOfRange, BranchIllegal,
                    Undefined, Reject, Org, Align, Bits, Times, Rep, StringInst, EndLine, At
      <4>2. QED
        BY <4>1, SceneAt
    <3>2. pass_idx # 1
      BY <1>0, <2>1
    <3>3. Uses(prog, pc) \subseteq DOMAIN sym
      BY <1>0, <3>1, <3>2, AllKnown DEF Source
    <3>4. CASE Label \/ Equ
      <4>1. prog[pc].op \in Defining
        BY <3>4, OneChange
      <4>2. rank[prog[pc].s] \in Nat /\ rank[prog[pc].s] <= d
        BY <1>0, <3>1, <4>1, ItemType, RankNat
      <4>3. Final(rank, pc)
        <5>1. ~(pc < pc)
          BY <3>1
        <5>2. rank[prog[pc].s] + 1 < pass_idx
          BY <1>0, <2>1, <4>2
        <5>3. QED
          BY <5>1, <5>2 DEF Final
      <4>4. Meets(at, pc)
        BY <3>1, <4>1, <4>3 DEF FinalMeet
      <4>5. QED
        BY <2>2, <3>1, <3>4, <4>4, NothingNew
    <3>5. CASE ~(Label \/ Equ)
      BY <1>0, <2>2, <2>3, <3>3, <3>5, NothingMissing
    <3>6. QED
      BY <3>4, <3>5
  <2>4. CASE NextPass
    BY <2>4 DEF NextPass
  <2>5. CASE Save \/ Crash \/ Exited \/ UNCHANGED vars
    BY <2>2, <2>5 DEF Save, Crash, Exited, vars
  <2>6. QED
    BY <2>3, <2>4, <2>5 DEF Next
<1>3. QED
  BY <1>0, <1>1, <1>2, PcMoves

(* At the start nothing is final and nothing was handled.                   *)
LEMMA SettleInit ==
  ASSUME NEW d, NEW rank, NEW at, Source(prog, d, rank, at), Init
  PROVE  Settling(d, rank, at)
<1>0. d \in Nat /\ WellFormed(prog) /\ at[1] = Top
  BY DEF Source
<1>1. Tidy(at)
  <2>1. pc = 1 /\ InPlace(Top) /\ intact /\ cap = CapUnit
    BY DEF Init, InPlace, Top
  <2>2. QED
    BY <1>0, <2>1 DEF Tidy
<1>2. FinalMeet(rank, at)
  <2>1. ASSUME NEW i \in 1..Len(prog), prog[i].op \in Defining PROVE ~Final(rank, i)
    <3>1. rank[prog[i].s] \in Nat
      BY <1>0, <2>1, ItemType, RankNat
    <3>2. pc = 1 /\ pass_idx = 1 /\ Len(prog) \in Nat
      BY <1>0 DEF Init, WellFormed
    <3>3. ~(i < pc) /\ ~(rank[prog[i].s] + 1 < pass_idx)
      BY <3>1, <3>2
    <3>4. QED
      BY <3>3 DEF Final
  <2>2. QED
    BY <2>1 DEF FinalMeet
<1>3. EarlyNames(rank, at)
  <2>1. Len(prog) \in Nat /\ pc = 1
    BY <1>0 DEF WellFormed, Init
  <2>2. QED
    BY <2>1 DEF EarlyNames
<1>4. LastPass(d)
  BY <1>0 DEF Init, LastPass
<1>5. QED
  BY <1>1, <1>2, <1>3, <1>4 DEF Settling

LEMMA SettleStep ==
  ASSUME NEW d, NEW rank, NEW at, Source(prog, d, rank, at), IInv, d + 2 < PassWrap,
         Settling(d, rank, at), [Next]_vars, TypeOK'
  PROVE  Settling(d, rank, at)'
<1>1. /\ Tidy(at) /\ FinalMeet(rank, at) /\ EarlyNames(rank, at) /\ LastPass(d)
      /\ TypeOK /\ StreamLayout /\ SymbolsKnown
  BY DEF Settling, IInv
<1>2. Scene(d, rank, at)
  BY <1>1 DEF Scene
<1>3. Tidy(at)' /\ EarlyNames(rank, at)'
  BY <1>2, TidyStep, EarlyNamesStep
<1>4. FinalMeet(rank, at)'
  BY <1>1, <1>2, FinalMeetStep
<1>5. LastPass(d)'
  BY <1>1, <1>2, LastPassStep
<1>6. QED
  BY <1>3, <1>4, <1>5 DEF Settling

(* A source that settles is a Source with its ranks and its layout.         *)
LEMMA SettlesSource ==
  ASSUME NEW p, WellFormed(p), NEW d \in Nat, Settles(p, d)
  PROVE  Source(p, d, RankOf(p, d), LayoutOf(p))
<1>1. RankOf(p, d) \in [Syms -> 0..d] /\ Ranked(p, RankOf(p, d))
  <2>1. \E rank \in [Syms -> 0..d] : Ranked(p, rank)
    BY DEF Settles
  <2>2. QED
    BY <2>1, Zenon DEF RankOf
<1>2. QED
  BY <1>1, LayoutIs DEF Source, Settles

LEMMA SettleInvStart ==
  ASSUME NEW d \in Nat, Init PROVE SettleInv(d)
<1>1. WellFormed(prog)
  BY ProgAssumption DEF Init
<1>2. ASSUME NEW p, p = prog, Settles(p, d) PROVE Settling(d, RankOf(p, d), LayoutOf(p))
  BY <1>1, <1>2, SettlesSource, SettleInit
<1>3. QED
  BY <1>2 DEF SettleInv

LEMMA SettleInvStep ==
  ASSUME NEW d \in Nat, d + 2 < PassWrap, IInv, IInv', SettleInv(d), [Next]_vars
  PROVE  SettleInv(d)'
<1>1. TypeOK /\ TypeOK' /\ WellFormed(prog)
  BY DEF IInv, TypeOK
<1>2. prog' = prog
  BY <1>1, PcMoves
<1>3. ASSUME NEW p, p = prog, Settles(p, d) PROVE Settling(d, RankOf(p, d), LayoutOf(p))'
  <2>1. Source(prog, d, RankOf(p, d), LayoutOf(p))
    BY <1>1, <1>3, SettlesSource
  <2>2. Settling(d, RankOf(p, d), LayoutOf(p))
    BY <1>3 DEF SettleInv
  <2>3. QED
    BY <1>1, <2>1, <2>2, SettleStep
<1>4. QED
  BY <1>2, <1>3 DEF SettleInv

(* Every pass over a source that nests at most two deep lays it out alike, *)
(* and gives a name of rank r the value its statement means from pass      *)
(* r + 1 on (bctx.c 113-144; bsyntax.c 100-150).                           *)
THEOREM SettledWithin2 == ASSUME 4 < PassWrap PROVE Spec => []SettleWithin2
<1>1. 0 \in Nat /\ 1 \in Nat /\ 2 \in Nat
      /\ 0 + 2 < PassWrap /\ 1 + 2 < PassWrap /\ 2 + 2 < PassWrap
  BY BoundAssumption
<1>2. Init => SettleWithin2
  <2> SUFFICES ASSUME Init, NEW d \in 0..2 PROVE SettleInv(d)
    BY DEF SettleWithin2
  <2>1. QED
    BY SettleInvStart
<1>3. IInv /\ IInv' /\ SettleWithin2 /\ [Next]_vars => SettleWithin2'
  <2> SUFFICES ASSUME IInv, IInv', SettleWithin2, [Next]_vars, NEW d \in 0..2
               PROVE  SettleInv(d)'
    BY DEF SettleWithin2
  <2>1. d \in Nat /\ d + 2 < PassWrap /\ SettleInv(d)
    BY <1>1 DEF SettleWithin2
  <2>2. QED
    BY <2>1, SettleInvStep
<1>4. QED
  BY <1>2, <1>3, Invariance, PTL DEF Spec

(* A source whose forward references nest at most d deep, and whose output *)
(* needs no more than the first capacity of the stream, is assembled in at *)
(* most d + 2 passes: with only labels ahead, in two (the loop of          *)
(* bctx_start, bctx.c 113-144).                                            *)
THEOREM SettlesInPasses ==
  ASSUME NEW d \in Nat, d + 2 < PassWrap
  PROVE  Spec => [](Settles(prog, d) => pass_idx <= d + 2)
<1>1. Init => SettleInv(d)
  BY SettleInvStart
<1>2. IInv /\ IInv' /\ SettleInv(d) /\ [Next]_vars => SettleInv(d)'
  BY SettleInvStep
<1>3. SettleInv(d) => (Settles(prog, d) => pass_idx <= d + 2)
  BY DEF SettleInv, Settling, LastPass
<1>4. QED
  BY <1>1, <1>2, <1>3, Invariance, PTL DEF Spec

(* Where every source nests its forward references at most eight deep, the *)
(* bound that the driver asserts (bctx.c 132) holds.                       *)
THEOREM PassesBounded ==
  ASSUME \A p \in Programs : Settles(p, MAX_PASS_COUNT - 2), MAX_PASS_COUNT < PassWrap
  PROVE  Spec => []PassBound
<1>1. MAX_PASS_COUNT - 2 \in Nat /\ (MAX_PASS_COUNT - 2) + 2 = MAX_PASS_COUNT
  BY DEF MAX_PASS_COUNT
<1> DEFINE d == MAX_PASS_COUNT - 2
<1>2. d \in Nat /\ d + 2 < PassWrap /\ d + 2 = MAX_PASS_COUNT
  BY <1>1
<1>3. Init => Settles(prog, d)
  BY DEF Init
<1> HIDE DEF d
<1>4. Init => SettleInv(d)
  BY <1>2, SettleInvStart
<1>5. IInv /\ IInv' /\ SettleInv(d) /\ [Next]_vars => SettleInv(d)'
  BY <1>2, SettleInvStep
<1>6. IInv /\ Settles(prog, d) /\ [Next]_vars => Settles(prog, d)'
  <2> SUFFICES ASSUME IInv, Settles(prog, d), [Next]_vars PROVE Settles(prog, d)'
    OBVIOUS
  <2>1. prog' = prog
    BY PcMoves DEF IInv
  <2>2. ASSUME NEW p, p = prog, Settles(p, d) PROVE Settles(p, d)'
    BY <2>2 DEF Settles
  <2>3. QED
    BY <2>1
<1>7. Settles(prog, d) /\ SettleInv(d) => PassBound
  BY <1>2 DEF PassBound, SettleInv, Settling, LastPass
<1>8. QED
  BY <1>3, <1>4, <1>5, <1>6, <1>7, Invariance, PTL DEF Spec

(* No text and no copy of a TIMES line is lost from a source that settles: *)
(* what bstream_putdata and _end_inst_line lose, they lose when the stream *)
(* grows (bstream.h 94-98, bsyntax.c 132-141).                             *)
THEOREM SettledIntact ==
  ASSUME NEW d \in Nat, d + 2 < PassWrap
  PROVE  Spec => [](Settles(prog, d) => OutputIntact)
<1>1. Init => SettleInv(d)
  BY SettleInvStart
<1>2. IInv /\ IInv' /\ SettleInv(d) /\ [Next]_vars => SettleInv(d)'
  BY SettleInvStep
<1>3. SettleInv(d) => (Settles(prog, d) => OutputIntact)
  BY DEF SettleInv, Settling, Tidy, OutputIntact
<1>4. QED
  BY <1>1, <1>2, <1>3, Invariance, PTL DEF Spec

-----------------------------------------------------------------------------
(* One pass is enough for a source that only looks back. *)

LEMMA BeforeNext ==
  ASSUME NEW p, WellFormed(p), NEW i \in 1..Len(p)
  PROVE  Before(p, i + 1) = IF p[i].op \in Defining THEN Before(p, i) \cup {p[i].s}
                            ELSE Before(p, i)
<1>1. Len(p) \in Nat
  BY DEF WellFormed
<1>2. 1..((i+1)-1) = (1..(i-1)) \cup {i}
  BY <1>1
<1>3. QED
  BY <1>2 DEF Before

LEMMA OneInvStep ==
  ASSUME TypeOK, LooksBack(prog), DefinedOnce(prog), OnceOver, [Next]_vars
  PROVE  OnceOver'
<1>0. WellFormed(prog) /\ Len(prog) \in Nat /\ pc \in 1..(Len(prog) + 1) /\ pass_idx = 1
      /\ ~need_more /\ DOMAIN sym = Before(prog, pc)
  BY DEF TypeOK, WellFormed, OnceOver
<1>1. prog' = prog
  BY PcMoves
<1>2. CASE Statement
  <2>1. pc \in 1..Len(prog)
    <3>1. pc <= Len(prog)
      BY <1>2 DEF Statement, Label, Equ, Data, Str, Branch, BranchOutOfRange, BranchIllegal,
                  Undefined, Reject, Org, Align, Bits, Times, Rep, StringInst, EndLine, At
    <3>2. QED
      BY <1>0, <3>1
  <2>2. Uses(prog, pc) \subseteq DOMAIN sym
    BY <1>0, <2>1 DEF LooksBack
  <2>3. pass_idx' = 1 /\ (pc' = pc \/ pc' = pc + 1)
    <3>1. ~NextPass
      BY <1>0 DEF NextPass
    <3>2. QED
      BY <1>0, <3>1, PcMoves
  <2>4. CASE Label \/ Equ
    <3>1. pc' = pc + 1 /\ prog[pc].op \in Defining /\ DOMAIN sym' = DOMAIN sym \cup {prog[pc].s}
      BY <2>4, OneChange DEF Label, Equ, Advance
    <3>2. prog[pc].s \notin DOMAIN sym
      <4> SUFFICES ASSUME prog[pc].s \in Before(prog, pc) PROVE FALSE
        BY <1>0
      <4>1. PICK k \in 1..(pc-1) : prog[k].op \in Defining /\ prog[k].s = prog[pc].s
        BY DEF Before
      <4>2. k \in 1..Len(prog) /\ k # pc
        BY <1>0, <4>1
      <4>3. QED
        BY <2>1, <3>1, <4>1, <4>2 DEF DefinedOnce
    <3>3. ~need_more'
      <4>1. CASE Label
        BY <1>0, <3>2, <4>1 DEF Label, EnsureSymbol
      <4>2. CASE Equ
        <5>1. Resolved(prog[pc].e)
          BY <2>2, <4>2 DEF Equ, At, Uses, Resolved, ExprOps
        <5>2. QED
          BY <1>0, <3>2, <4>2, <5>1 DEF Equ, EnsureSymbol
      <4>3. QED
        BY <2>4, <4>1, <4>2
    <3>4. DOMAIN sym' = Before(prog, pc + 1)
      BY <1>0, <2>1, <3>1, BeforeNext
    <3>5. QED
      BY <1>1, <2>3, <3>1, <3>3, <3>4 DEF OnceOver
  <2>5. CASE ~(Label \/ Equ)
    <3>1. ~need_more' /\ sym' = sym
      BY <1>0, <1>2, <2>2, <2>5, NothingMissing, TableStays
    <3>2. CASE pc' = pc
      BY <1>0, <1>1, <2>3, <3>1, <3>2 DEF OnceOver
    <3>3. CASE pc' = pc + 1
      <4>1. ~Still
        BY <2>1, <3>3 DEF Still
      <4>2. prog[pc].op \notin Defining
        BY <1>2, <2>5, <4>1, TableStays
      <4>3. Before(prog, pc + 1) = Before(prog, pc)
        BY <1>0, <2>1, <4>2, BeforeNext
      <4>4. QED
        BY <1>0, <1>1, <2>3, <3>1, <3>3, <4>3 DEF OnceOver
    <3>4. QED
      BY <2>3, <3>2, <3>3
  <2>6. QED
    BY <2>4, <2>5
<1>3. CASE NextPass
  BY <1>0, <1>3 DEF NextPass
<1>4. CASE Save \/ Crash \/ Exited \/ UNCHANGED vars
  BY <1>0, <1>1, <1>4 DEF Save, Crash, Exited, vars, OnceOver
<1>5. QED
  BY <1>2, <1>3, <1>4 DEF Next

(* A source that uses no name before its definition is assembled in one    *)
(* pass, however large it is and whatever its lines do.                    *)
THEOREM OnePass == Spec => [](LooksBack(prog) /\ DefinedOnce(prog) => pass_idx = 1)
<1>1. Init => OneInv
  <2> SUFFICES ASSUME Init PROVE OnceOver
    BY DEF OneInv
  <2>1. pc = 1 /\ pass_idx = 1 /\ need_more = FALSE /\ DOMAIN sym = {}
    BY DEF Init
  <2>2. Before(prog, 1) = {}
    BY DEF Before
  <2>3. QED
    BY <2>1, <2>2 DEF OnceOver
<1>2. IInv /\ OneInv /\ [Next]_vars => OneInv'
  <2> SUFFICES ASSUME IInv, OneInv, [Next]_vars PROVE OneInv'
    OBVIOUS
  <2>1. TypeOK /\ prog' = prog
    BY PcMoves DEF IInv
  <2>2. LooksBack(prog)' => LooksBack(prog)
    BY <2>1 DEF LooksBack, Uses, Before
  <2>3. DefinedOnce(prog)' => DefinedOnce(prog)
    BY <2>1 DEF DefinedOnce
  <2>4. QED
    BY <2>1, <2>2, <2>3, OneInvStep DEF OneInv
<1>3. OneInv => (LooksBack(prog) /\ DefinedOnce(prog) => pass_idx = 1)
  BY DEF OneInv, OnceOver
<1>4. QED
  BY <1>1, <1>2, <1>3, Invariance, PTL DEF Spec

=============================================================================

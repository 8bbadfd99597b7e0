---------------------------- MODULE BPass_proofs ----------------------------
(* Theorems about BPass, for every set of sources. *)
EXTENDS BPass, TLAPS

-----------------------------------------------------------------------------
(* Lemmas about operands. *)

(* The atoms of an operand have integer values. *)
LEMMA AtomInt ==
  ASSUME NEW a \in Atoms, NEW tab, tab \in [DOMAIN tab -> Int],
         NEW here \in Int, NEW start \in Int, NEW ph \in Int
  PROVE  AtomVal(a, tab, here, start, ph) \in Int
  BY DEF AtomVal

(* An operand has an integer value. *)
LEMMA ValueInt ==
  ASSUME NEW e \in Expr, NEW tab, tab \in [DOMAIN tab -> Int],
         NEW here \in Int, NEW start \in Int, NEW ph \in Int
  PROVE  Value(e, tab, here, start, ph) \in Int
<1>1. e.c \in Int /\ e.pos \in Atoms /\ e.neg \in Atoms
  BY DEF Expr
<1>2. AtomVal(e.pos, tab, here, start, ph) \in Int
  BY <1>1, AtomInt
<1>3. AtomVal(e.neg, tab, here, start, ph) \in Int
  BY <1>1, AtomInt
<1>4. QED
  BY <1>1, <1>2, <1>3 DEF Value

(* The value of an operand depends on a table only through its own names,  *)
(* and not on the placeholder once they are all there.                     *)
LEMMA ValueByNames ==
  ASSUME NEW e \in Expr, NEW t1, NEW t2, NEW here, NEW start, NEW p1, NEW p2,
         DOMAIN t1 \subseteq Syms, DOMAIN t2 \subseteq Syms,
         Names(e) \subseteq DOMAIN t1, Names(e) \subseteq DOMAIN t2,
         \A s \in Names(e) : t1[s] = t2[s]
  PROVE  Value(e, t1, here, start, p1) = Value(e, t2, here, start, p2)
<1>1. ASSUME NEW a \in {e.pos, e.neg}
      PROVE  AtomVal(a, t1, here, start, p1) = AtomVal(a, t2, here, start, p2)
  <2>1. a \in Atoms
    BY DEF Expr
  <2>2. CASE a \in Syms
    <3>1. a \in Names(e)
      BY <2>2 DEF Names
    <3>2. a \in DOMAIN t1 /\ a \in DOMAIN t2 /\ t1[a] = t2[a]
      BY <3>1
    <3>3. a # Nothing /\ a # Dollar /\ a # DDollar
      BY <2>2, SymsAssumption
    <3>4. QED
      BY <3>2, <3>3 DEF AtomVal
  <2>3. CASE a \in {Dollar, DDollar, Nothing}
    BY <2>3 DEF AtomVal, Dollar, DDollar, Nothing
  <2>4. QED
    BY <2>1, <2>2, <2>3 DEF Atoms
<1>2. QED
  BY <1>1 DEF Value

-----------------------------------------------------------------------------
(* Type correctness. *)

(* The statement at pc and its operand. *)
LEMMA StatementType ==
  ASSUME TypeOK, pc <= Len(prog)
  PROVE  /\ pc \in 1..Len(prog) /\ prog[pc] \in Item
         /\ prog[pc].e \in Expr /\ prog[pc].n \in Nat
         /\ prog[pc].op \in Defining => prog[pc].s \in Syms
<1>1. pc \in 1..Len(prog) /\ prog \in Seq(Item)
  BY DEF TypeOK, WellFormed
<1>2. prog[pc] \in Item
  BY <1>1
<1>3. prog[pc].e \in Expr /\ prog[pc].n \in Nat
  BY <1>2 DEF Item
<1>4. prog[pc].op \in Defining => prog[pc].s \in Syms
  BY <1>1 DEF TypeOK, WellFormed
<1>5. QED
  BY <1>1, <1>2, <1>3, <1>4

(* The numbers of the state, without the rest of TypeOK. *)
LEMMA Numbers ==
  ASSUME TypeOK
  PROVE  /\ pos \in Nat /\ size \in Nat /\ cap \in Nat
         /\ org_addr \in Nat /\ org_ofs \in Nat /\ code_start \in Nat
         /\ times_start \in Nat /\ times_count \in Nat /\ pass_idx \in Nat
<1>1. pass_idx \in Nat
  <2>1. pass_idx \in 0..(PassWrap - 1)
    BY DEF TypeOK
  <2>2. QED
    BY <2>1
<1>2. QED
  BY <1>1 DEF TypeOK

LEMMA OperandInt ==
  ASSUME TypeOK, NEW e \in Expr
  PROVE  Operand(e) \in Int
<1>1. HereAt(size, org_addr, org_ofs) \in Int /\ Placeholder \in Int
  BY DEF TypeOK, HereAt, Placeholder
<1>2. sym \in [DOMAIN sym -> Int] /\ code_start \in Int
  BY DEF TypeOK
<1>3. QED
  BY <1>1, <1>2, ValueInt DEF Operand

(* Entries that are added to scan have the type of entries. *)
LEMMA EntryOK ==
  ASSUME TypeOK, pc <= Len(prog), NEW len \in Nat, NEW val \in Int, NEW rel \in Int
  PROVE  Entry(len, val, rel) \in EntryType /\ Entry(len, val, rel).at \in 1..Len(prog)
  BY StatementType DEF Entry, EntryType, TypeOK

LEMMA AddEntry ==
  ASSUME TypeOK, pc <= Len(prog), prog' = prog,
         NEW len \in Nat, NEW val \in Int, NEW rel \in Int,
         scan' = scan \cup {Entry(len, val, rel)}
  PROVE  scan' \subseteq EntryType /\ \A r \in scan' : r.at \in 1..Len(prog')
<1>1. Entry(len, val, rel) \in EntryType /\ Entry(len, val, rel).at \in 1..Len(prog)
  BY EntryOK
<1>2. scan \subseteq EntryType /\ \A r \in scan : r.at \in 1..Len(prog)
  BY DEF TypeOK
<1>3. QED
  BY <1>1, <1>2

(* What EnsureSymbol does to the table and to need_more is well typed. *)
LEMMA EnsureType ==
  ASSUME TypeOK, NEW s \in Syms, NEW val \in Int, NEW missed \in BOOLEAN,
         EnsureSymbol(s, val, missed)
  PROVE  /\ DOMAIN sym' = DOMAIN sym \cup {s} /\ DOMAIN sym' \subseteq Syms
         /\ sym' \in [DOMAIN sym' -> Int]
         /\ need_more' \in BOOLEAN
  BY DEF EnsureSymbol, TypeOK

LEMMA CopyBytesNat ==
  ASSUME TypeOK, times_start <= size, times_count > 1
  PROVE  CopyBytes \in Nat
<1>1. \A a, b \in Nat : a * b \in Nat
  OBVIOUS
<1>2. size - times_start \in Nat /\ times_count - 1 \in Nat
  <2>1. size \in Nat /\ times_start \in Nat /\ times_count \in Nat
    BY DEF TypeOK
  <2>2. QED
    BY <2>1
<1>3. QED
  BY <1>1, <1>2 DEF CopyBytes

(* Capacities are naturals. *)
LEMMA CapNat ==
  ASSUME TypeOK, NEW n \in Nat
  PROVE  CapFor(n) \in Nat /\ Alloc(n) \in Nat
<1>1. NewCap(n) \in Nat
  <2>1. (n * 3) \div 2 \in Nat
    OBVIOUS
  <2>2. cap \in Nat /\ CapUnit \in Nat
    BY BoundAssumption DEF TypeOK
  <2>3. cap + CapUnit \in Nat /\ cap * 4 \in Nat
    BY <2>2
  <2>4. QED
    BY <2>1, <2>3 DEF NewCap
<1>2. QED
  BY <1>1 DEF CapFor, Alloc, TypeOK

(* The parts of TypeOK that a statement changes one by one. *)
TableType  == DOMAIN sym \subseteq Syms /\ sym \in [DOMAIN sym -> Int]
StreamType == /\ pos \in Nat /\ size \in Nat /\ cap \in Nat
              /\ intact \in BOOLEAN /\ damaged \in BOOLEAN
OriginType == org_addr \in Nat /\ org_ofs \in Nat /\ code_start \in Nat
TimesType  == times_start \in Nat /\ times_count \in Nat
ScanType   == scan \subseteq EntryType /\ \A r \in scan : r.at \in 1..Len(prog)

(* A part whose variables do not change stays well typed. *)
LEMMA PartsKept ==
  ASSUME TypeOK
  PROVE  /\ UNCHANGED sym => TableType'
         /\ UNCHANGED stmVars => StreamType'
         /\ UNCHANGED orgVars => OriginType'
         /\ UNCHANGED timesVars => TimesType'
         /\ UNCHANGED scan /\ prog' = prog => ScanType'
         /\ UNCHANGED xmode => xmode' \in {16, 32, 64}
         /\ UNCHANGED rep_prefix => rep_prefix' \in BOOLEAN
         /\ UNCHANGED need_more => need_more' \in BOOLEAN
<1>1. UNCHANGED sym => TableType'
  BY DEF TypeOK, TableType
<1>2. UNCHANGED stmVars => StreamType'
  BY DEF TypeOK, StreamType, stmVars
<1>3. UNCHANGED orgVars => OriginType'
  BY DEF TypeOK, OriginType, orgVars
<1>4. UNCHANGED timesVars => TimesType'
  BY DEF TypeOK, TimesType, timesVars
<1>5. UNCHANGED scan /\ prog' = prog => ScanType'
  BY DEF TypeOK, ScanType
<1>6. QED
  BY <1>1, <1>2, <1>3, <1>4, <1>5 DEF TypeOK

(* The parts make the whole when the statement is passed. *)
LEMMA TypeAdvance ==
  ASSUME TypeOK, pc <= Len(prog), Advance,
         need_more' \in BOOLEAN, xmode' \in {16, 32, 64}, rep_prefix' \in BOOLEAN,
         TableType', StreamType', OriginType', TimesType', ScanType'
  PROVE  TypeOK'
<1>1. pc' \in 1..(Len(prog') + 1) /\ WellFormed(prog') /\ prog' = prog
  <2>1. pc \in 1..(Len(prog) + 1) /\ WellFormed(prog) /\ pc' = pc + 1 /\ prog' = prog
    BY DEF TypeOK, Advance
  <2>2. Len(prog) \in Nat
    BY <2>1 DEF WellFormed
  <2>3. pc + 1 \in 1..(Len(prog) + 1)
    BY <2>1, <2>2
  <2>4. QED
    BY <2>1, <2>3
<1>2. status' \in Statuses /\ errs' \in BOOLEAN /\ pass_idx' \in 0..(PassWrap - 1)
  BY DEF TypeOK, Advance
<1>3. QED
  BY <1>1, <1>2 DEF TypeOK, TableType, StreamType, OriginType, TimesType, ScanType

(* A put keeps the types of the stream and of scan. *)
LEMMA EmitType ==
  ASSUME TypeOK, pc <= Len(prog), prog' = prog,
         NEW len \in Nat, NEW val \in Int, NEW rel \in Int, Emit(len, val, rel)
  PROVE  StreamType' /\ ScanType'
<1>1. pos + len \in Nat /\ CapFor(pos + len) \in Nat
  <2>1. pos + len \in Nat
    BY Numbers
  <2>2. QED
    BY <2>1, CapNat
<1>2. /\ pos' = pos + len
      /\ size' = IF size < pos + len THEN pos + len ELSE size
      /\ cap' = IF len = 0 THEN cap ELSE CapFor(pos + len)
      /\ intact' = intact /\ damaged' \in BOOLEAN
  BY DEF Emit, TypeOK
<1>3. size \in Nat /\ cap \in Nat /\ intact \in BOOLEAN
  BY DEF TypeOK
<1>4. pos' \in Nat /\ size' \in Nat /\ cap' \in Nat
  BY <1>1, <1>2, <1>3
<1>5. scan' = scan \cup {Entry(len, val, rel)}
  BY DEF Emit
<1>6. QED
  BY <1>2, <1>3, <1>4, <1>5, AddEntry DEF StreamType, ScanType

LEMMA TypeInit == Init => TypeOK
<1> SUFFICES ASSUME Init PROVE TypeOK
  OBVIOUS
<1>1. WellFormed(prog) /\ pc \in 1..(Len(prog) + 1)
  BY ProgAssumption DEF Init, WellFormed
<1>2. DOMAIN sym \subseteq Syms /\ sym \in [DOMAIN sym -> Int]
  BY DEF Init
<1>3. pass_idx \in 0..(PassWrap - 1) /\ cap \in Nat
  BY BoundAssumption DEF Init
<1>4. QED
  BY <1>1, <1>2, <1>3 DEF Init, TypeOK, Statuses

LEMMA Zero == 0 \in Nat /\ 0 \in Int
  OBVIOUS

LEMMA LabelType == TypeOK /\ Label => TypeOK'
<1> SUFFICES ASSUME TypeOK, Label PROVE TypeOK'
  OBVIOUS
<1> DEFINE s == prog[pc].s
           ofs == size + org_addr + org_ofs
<1>1. pc <= Len(prog) /\ s \in Syms /\ ofs \in Int
  <2>1. pc <= Len(prog) /\ s \in Syms
    BY StatementType DEF Label, At, Defining
  <2>2. ofs \in Int
    BY Numbers
  <2>3. QED
    BY <2>1, <2>2
<1>2. EnsureSymbol(s, ofs, FALSE) /\ Note(ofs)
  BY DEF Label
<1>3. Advance /\ UNCHANGED stmVars /\ UNCHANGED orgVars /\ UNCHANGED timesVars
      /\ UNCHANGED <<xmode, rep_prefix>>
  BY DEF Label, Note
<1> HIDE DEF ofs, s
<1>4. TableType' /\ need_more' \in BOOLEAN
  BY <1>1, <1>2, EnsureType DEF TableType
<1>5. ScanType'
  <2>1. scan' = scan \cup {Entry(0, ofs, 0)} /\ prog' = prog
    BY <1>2, <1>3 DEF Note, Advance
  <2>2. QED
    BY <1>1, <2>1, Zero, AddEntry DEF ScanType
<1>6. QED
  BY <1>1, <1>3, <1>4, <1>5, PartsKept, TypeAdvance

LEMMA EquType == TypeOK /\ Equ => TypeOK'
<1> SUFFICES ASSUME TypeOK, Equ PROVE TypeOK'
  OBVIOUS
<1> DEFINE s == prog[pc].s
           e == prog[pc].e
           val == Operand(e)
<1>1. pc <= Len(prog) /\ s \in Syms /\ e \in Expr
  BY StatementType DEF Equ, At, Defining
<1>2. val \in Int
  BY <1>1, OperandInt
<1>3. EnsureSymbol(s, val, ~Resolved(e)) /\ Note(val)
  BY DEF Equ
<1>4. Advance /\ UNCHANGED stmVars /\ UNCHANGED orgVars /\ UNCHANGED timesVars
      /\ UNCHANGED <<xmode, rep_prefix>>
  BY DEF Equ, Note
<1>5. (~Resolved(e)) \in BOOLEAN
  BY DEF Resolved
<1> HIDE DEF val, s, e
<1>6. TableType' /\ need_more' \in BOOLEAN
  BY <1>1, <1>2, <1>3, <1>5, EnsureType DEF TableType
<1>7. ScanType'
  <2>1. scan' = scan \cup {Entry(0, val, 0)} /\ prog' = prog
    BY <1>3, <1>4 DEF Note, Advance
  <2>2. QED
    BY <1>1, <1>2, <2>1, Zero, AddEntry DEF ScanType
<1>8. QED
  BY <1>1, <1>4, <1>6, <1>7, PartsKept, TypeAdvance

LEMMA DataType == TypeOK /\ Data => TypeOK'
<1> SUFFICES ASSUME TypeOK, Data PROVE TypeOK'
  OBVIOUS
<1> DEFINE e == prog[pc].e
           val == Operand(e)
           n == prog[pc].n
<1>1. pc <= Len(prog) /\ n \in Nat /\ e \in Expr
  BY StatementType DEF Data, At
<1>2. val \in Int
  BY <1>1, OperandInt
<1>3. Emit(n, val, 0) /\ need_more' \in BOOLEAN
  BY DEF Data, Resolved, TypeOK
<1>4. Advance /\ UNCHANGED <<sym, xmode, rep_prefix>>
      /\ UNCHANGED orgVars /\ UNCHANGED timesVars
  BY DEF Data
<1> HIDE DEF val, n, e
<1>5. StreamType' /\ ScanType'
  <2>1. prog' = prog
    BY <1>4 DEF Advance
  <2>2. QED
    BY <1>1, <1>2, <1>3, <2>1, Zero, EmitType
<1>6. QED
  BY <1>1, <1>3, <1>4, <1>5, PartsKept, TypeAdvance

LEMMA BranchType == TypeOK /\ Branch => TypeOK'
<1> SUFFICES ASSUME TypeOK, Branch PROVE TypeOK'
  OBVIOUS
<1> DEFINE e == prog[pc].e
           val == Operand(e)
           n == BranchLen(prog[pc].op, val)
           rel == Field(prog[pc].op, val)
<1>1. pc <= Len(prog) /\ e \in Expr
  BY StatementType DEF Branch
<1>2. val \in Int
  BY <1>1, OperandInt
<1>3. n \in Nat
  BY DEF BranchLen
<1>4. rel \in Int
  <2>1. size \in Int /\ org_addr \in Int /\ org_ofs \in Int
    BY Numbers
  <2> HIDE DEF val
  <2>2. RelOfs(val, n) \in Int
    BY <1>2, <1>3, <2>1 DEF RelOfs
  <2>3. rel = IF prog[pc].op \in Absolute THEN val ELSE RelOfs(val, n)
    BY DEF Field
  <2> HIDE DEF n, rel
  <2>4. QED
    BY <1>2, <2>2, <2>3
<1>5. Emit(n, val, rel) /\ need_more' \in BOOLEAN
  BY DEF Branch, Resolved, TypeOK
<1>6. Advance /\ UNCHANGED <<sym, xmode, rep_prefix>>
      /\ UNCHANGED orgVars /\ UNCHANGED timesVars
  BY DEF Branch
<1> HIDE DEF val, n, rel, e
<1>7. StreamType' /\ ScanType'
  <2>1. prog' = prog
    BY <1>6 DEF Advance
  <2>2. QED
    BY <1>1, <1>2, <1>3, <1>4, <1>5, <2>1, Zero, EmitType
<1>8. QED
  BY <1>1, <1>5, <1>6, <1>7, PartsKept, TypeAdvance

LEMMA AlignType == TypeOK /\ Align => TypeOK'
<1> SUFFICES ASSUME TypeOK, Align PROVE TypeOK'
  OBVIOUS
<1> DEFINE v == prog[pc].n
           n == (v - (HereAt(size, org_addr, org_ofs) % v)) % v
<1>1. pc <= Len(prog)
  BY DEF Align, At
<1>2. v \in {1, 2, 4, 8, 16}
  BY <1>1, StatementType DEF Align, At, TypeOK, WellFormed
<1>3. HereAt(size, org_addr, org_ofs) \in Int
  BY DEF HereAt, TypeOK
<1>4. n \in Nat
  BY <1>2, <1>3
<1>5. Emit(n, 0, 0) /\ Advance /\ UNCHANGED <<need_more, sym, xmode, rep_prefix>>
      /\ UNCHANGED orgVars /\ UNCHANGED timesVars
  BY DEF Align
<1> HIDE DEF n, v
<1>6. StreamType' /\ ScanType'
  <2>1. prog' = prog
    BY <1>5 DEF Advance
  <2>2. QED
    BY <1>1, <1>4, <1>5, <2>1, Zero, EmitType
<1>7. QED
  BY <1>1, <1>5, <1>6, PartsKept, TypeAdvance

LEMMA OriginStepType == TypeOK /\ (Org \/ Bits) => TypeOK'
<1> SUFFICES ASSUME TypeOK, Org \/ Bits PROVE TypeOK'
  OBVIOUS
<1>1. CASE Org
  <2>1. pc <= Len(prog) /\ prog[pc].n \in Nat
    BY <1>1, StatementType DEF Org, At
  <2>2. Advance /\ UNCHANGED <<need_more, sym, xmode, rep_prefix, scan>>
        /\ UNCHANGED stmVars /\ UNCHANGED timesVars
    BY <1>1 DEF Org
  <2>3. OriginType'
    BY <1>1, <2>1 DEF Org, OriginType, TypeOK
  <2>4. prog' = prog
    BY <2>2 DEF Advance
  <2>5. QED
    BY <2>1, <2>2, <2>3, <2>4, PartsKept, TypeAdvance
<1>2. CASE Bits
  <2>1. pc <= Len(prog) /\ prog[pc].n \in {16, 32, 64}
    BY <1>2, StatementType DEF Bits, At, TypeOK, WellFormed
  <2>2. Advance /\ UNCHANGED <<need_more, sym, rep_prefix, scan>> /\ xmode' = prog[pc].n
        /\ UNCHANGED stmVars /\ UNCHANGED orgVars /\ UNCHANGED timesVars
    BY <1>2 DEF Bits
  <2>3. prog' = prog
    BY <2>2 DEF Advance
  <2>4. QED
    BY <2>1, <2>2, <2>3, PartsKept, TypeAdvance
<1>3. QED
  BY <1>1, <1>2

LEMMA TimesStepType == TypeOK /\ Times => TypeOK'
<1> SUFFICES ASSUME TypeOK, Times PROVE TypeOK'
  OBVIOUS
<1> DEFINE e == prog[pc].e
           val == Operand(e)
<1>1. pc <= Len(prog) /\ e \in Expr
  BY StatementType DEF Times, At
<1>2. val \in Int
  BY <1>1, OperandInt
<1>3. val % CountMod \in Nat
  BY <1>2, BoundAssumption
<1>4. /\ Note(val) /\ Advance /\ need_more' \in BOOLEAN
      /\ times_start' = size /\ times_count' = val % CountMod
      /\ UNCHANGED <<sym, xmode, rep_prefix>> /\ UNCHANGED orgVars
  BY DEF Times, Resolved, TypeOK
<1> HIDE DEF val, e
<1>5. ScanType'
  <2>1. scan' = scan \cup {Entry(0, val, 0)} /\ prog' = prog
    BY <1>4 DEF Note, Advance
  <2>2. QED
    BY <1>1, <1>2, <2>1, Zero, AddEntry DEF ScanType
<1>6. TimesType' /\ UNCHANGED stmVars
  BY <1>3, <1>4 DEF Note, TypeOK, TimesType
<1>7. QED
  BY <1>1, <1>4, <1>5, <1>6, PartsKept, TypeAdvance

LEMMA StopType ==
  ASSUME TypeOK, NEW how \in Statuses, Stop(how), need_more' \in BOOLEAN
  PROVE  TypeOK'
  BY DEF Stop, TypeOK, vars, stmVars, orgVars, timesVars

LEMMA RepType == TypeOK /\ Rep => TypeOK'
<1> SUFFICES ASSUME TypeOK, Rep PROVE TypeOK'
  OBVIOUS
<1>1. CASE Stop("rejected")
  <2>1. need_more' \in BOOLEAN
    BY <1>1 DEF Rep, Advance, TypeOK
  <2>2. QED
    BY <1>1, <2>1, StopType DEF Statuses
<1>2. CASE ~rep_prefix
  <2>1. /\ pc <= Len(prog) /\ Advance /\ rep_prefix' \in BOOLEAN
        /\ UNCHANGED <<need_more, sym, xmode, scan>>
        /\ UNCHANGED stmVars /\ UNCHANGED orgVars /\ UNCHANGED timesVars
    BY <1>2 DEF Rep, At
  <2>2. prog' = prog
    BY <2>1 DEF Advance
  <2>3. QED
    BY <2>1, <2>2, PartsKept, TypeAdvance
<1>3. QED
  BY <1>1, <1>2 DEF Rep

LEMMA StringType == TypeOK /\ StringInst => TypeOK'
<1> SUFFICES ASSUME TypeOK, StringInst PROVE TypeOK'
  OBVIOUS
<1> DEFINE n == IF rep_prefix THEN 2 ELSE 1
<1>1. pc <= Len(prog) /\ n \in Nat
  BY DEF StringInst, At
<1>2. /\ Emit(n, 0, 0) /\ Advance /\ rep_prefix' \in BOOLEAN
      /\ UNCHANGED <<need_more, sym, xmode>> /\ UNCHANGED orgVars /\ UNCHANGED timesVars
  BY DEF StringInst
<1> HIDE DEF n
<1>3. StreamType' /\ ScanType'
  <2>1. prog' = prog
    BY <1>2 DEF Advance
  <2>2. QED
    BY <1>1, <1>2, <2>1, Zero, EmitType
<1>4. QED
  BY <1>1, <1>2, <1>3, PartsKept, TypeAdvance

LEMMA StrType == TypeOK /\ Str => TypeOK'
<1> SUFFICES ASSUME TypeOK, Str PROVE TypeOK'
  OBVIOUS
<1> DEFINE n == prog[pc].n
<1>1. pc <= Len(prog) /\ n \in Nat /\ pos + n \in Nat
  <2>1. pc <= Len(prog) /\ n \in Nat
    BY StatementType DEF Str, At
  <2> HIDE DEF n
  <2>2. pos + n \in Nat
    BY <2>1, Numbers
  <2>3. QED
    BY <2>1, <2>2
<1>2. Advance /\ UNCHANGED <<need_more, sym, xmode, rep_prefix>>
      /\ UNCHANGED orgVars /\ UNCHANGED timesVars
  BY DEF Str
<1>3. CASE Emit(n, 0, 0)
  <2> HIDE DEF n
  <2>1. StreamType' /\ ScanType'
    <3>1. prog' = prog
      BY <1>2 DEF Advance
    <3>2. QED
      BY <1>1, <1>3, <3>1, Zero, EmitType
  <2>2. QED
    BY <1>1, <1>2, <2>1, PartsKept, TypeAdvance
<1>4. CASE cap < pos + n /\ cap' = NewCap(pos + n) /\ intact' = FALSE
           /\ UNCHANGED <<pos, size, damaged, scan>>
  <2>1. cap' \in Nat
    <3>1. CapFor(pos + n) \in Nat
      BY <1>1, CapNat
    <3> HIDE DEF n
    <3>2. ~(cap >= pos + n)
      BY <1>1, <1>4, Numbers
    <3>3. QED
      BY <1>4, <3>1, <3>2 DEF CapFor
  <2>2. StreamType'
    BY <1>4, <2>1 DEF TypeOK, StreamType
  <2>3. UNCHANGED scan /\ prog' = prog
    BY <1>2, <1>4 DEF Advance
  <2>4. QED
    BY <1>1, <1>2, <2>2, <2>3, PartsKept, TypeAdvance
<1>5. QED
  BY <1>3, <1>4 DEF Str, TextNeeds

(* The end of a line does not go through Advance: it may set errs. *)
LEMMA EndLineType == TypeOK /\ times_start <= size /\ EndLine => TypeOK'
<1> SUFFICES ASSUME TypeOK, times_start <= size, EndLine PROVE TypeOK'
  OBVIOUS
<1>1. /\ pc <= Len(prog) /\ pc' = pc + 1
      /\ UNCHANGED <<prog, status, pass_idx, need_more, sym, xmode>> /\ UNCHANGED orgVars
  BY DEF EndLine, At
<1>2. ASSUME StreamType', TimesType', ScanType', errs' \in BOOLEAN, rep_prefix' \in BOOLEAN
      PROVE  TypeOK'
  <2>1. pc' \in 1..(Len(prog') + 1) /\ WellFormed(prog')
    <3>1. pc \in 1..(Len(prog) + 1) /\ WellFormed(prog) /\ Len(prog) \in Nat
      BY DEF TypeOK, WellFormed
    <3>2. pc + 1 \in 1..(Len(prog) + 1)
      BY <1>1, <3>1
    <3>3. QED
      BY <1>1, <3>1, <3>2
  <2>2. TableType' /\ OriginType' /\ need_more' \in BOOLEAN /\ xmode' \in {16, 32, 64}
    BY <1>1, PartsKept
  <2>3. status' \in Statuses /\ pass_idx' \in 0..(PassWrap - 1)
    BY <1>1 DEF TypeOK
  <2>4. QED
    BY <1>2, <2>1, <2>2, <2>3
    DEF TypeOK, TableType, StreamType, OriginType, TimesType, ScanType
<1>3. CASE PendingRep
  <2>1. rep_prefix' \in BOOLEAN /\ errs' \in BOOLEAN
    BY <1>3 DEF PendingRep
  <2>2. UNCHANGED scan /\ UNCHANGED stmVars /\ UNCHANGED timesVars
    BY <1>3 DEF PendingRep
  <2>3. QED
    BY <1>1, <1>2, <2>1, <2>2, PartsKept
<1>4. CASE PlainLine
  <2>1. /\ UNCHANGED scan /\ UNCHANGED stmVars /\ UNCHANGED timesVars
        /\ errs' = errs /\ rep_prefix' = rep_prefix
    BY <1>4 DEF PlainLine
  <2>2. errs' \in BOOLEAN
    BY <2>1 DEF TypeOK
  <2>3. QED
    BY <1>1, <1>2, <2>1, <2>2, PartsKept
<1>5. CASE DropLine
  <2>1. /\ size' = times_start /\ cap' = Alloc(times_start)
        /\ pos' = IF cap' = 0 THEN 0 ELSE Least(pos, times_start)
        /\ scan' \subseteq scan /\ times_start' = 0 /\ times_count' = 1
        /\ UNCHANGED <<intact, damaged, errs, rep_prefix>>
    BY <1>5 DEF DropLine, Discard, TimesDone
  <2>2. size' \in Nat /\ cap' \in Nat /\ pos' \in Nat
    BY <2>1, CapNat DEF Least, TypeOK
  <2>3. StreamType' /\ TimesType' /\ errs' \in BOOLEAN /\ rep_prefix' \in BOOLEAN
    BY <2>1, <2>2 DEF TypeOK, StreamType, TimesType
  <2>4. ScanType'
    BY <1>1, <2>1 DEF TypeOK, ScanType
  <2>5. QED
    BY <1>2, <2>3, <2>4
<1>6. CASE RepeatLine
  <2>1. size + CopyBytes \in Nat
    <3>1. CopyBytes \in Nat
      BY <1>6, CopyBytesNat DEF RepeatLine
    <3> HIDE DEF CopyBytes
    <3>2. QED
      BY <3>1 DEF TypeOK
  <2>2. size' \in Nat /\ cap' \in Nat
    BY <1>6, <2>1, CapNat DEF RepeatLine
  <2>3. /\ pos' \in {0, size'} /\ scan' = scan /\ rep_prefix' = rep_prefix
        /\ times_start' = 0 /\ times_count' = 1
    BY <1>6 DEF RepeatLine, TimesDone
  <2>4. intact' \in BOOLEAN /\ damaged' \in BOOLEAN /\ errs' \in BOOLEAN
    <3>1. \/ UNCHANGED <<intact, damaged, errs>>
          \/ intact' = FALSE /\ damaged' = TRUE /\ UNCHANGED errs
          \/ intact' = FALSE /\ errs' = TRUE /\ UNCHANGED damaged
      BY <1>6 DEF RepeatLine
    <3>2. QED
      BY <3>1 DEF TypeOK
  <2>5. StreamType' /\ TimesType'
    BY <2>2, <2>3, <2>4 DEF StreamType, TimesType
  <2>6. QED
    BY <1>1, <1>2, <2>3, <2>4, <2>5, PartsKept
<1>7. QED
  BY <1>3, <1>4, <1>5, <1>6 DEF EndLine

LEMMA NextPassType == TypeOK /\ NextPass => TypeOK'
<1> SUFFICES ASSUME TypeOK, NextPass PROVE TypeOK'
  OBVIOUS
<1>1. (pass_idx + 1) % PassWrap \in 0..(PassWrap - 1)
  <2>1. pass_idx \in Int /\ PassWrap \in Nat /\ PassWrap > 0
    BY BoundAssumption, Numbers
  <2>2. QED
    BY <2>1
<1>2. need_more' \in BOOLEAN /\ rep_prefix' \in BOOLEAN /\ intact' \in BOOLEAN
  BY DEF NextPass
<1>3. pc' \in 1..(Len(prog') + 1)
  BY DEF NextPass, TypeOK, WellFormed
<1>4. /\ pass_idx' \in 0..(PassWrap - 1) /\ xmode' = 32 /\ pos' = 0 /\ size' = 0
      /\ org_addr' = 0 /\ org_ofs' = 0 /\ code_start' = 0
      /\ times_start' = 0 /\ times_count' = 0 /\ scan' = {}
      /\ UNCHANGED <<prog, status, errs, sym, cap, damaged>>
  BY <1>1 DEF NextPass
<1>5. QED
  BY <1>2, <1>3, <1>4 DEF TypeOK

(* Every step keeps the types.  The length of a repeated line needs that   *)
(* it starts inside the stream.                                            *)
LEMMA TypeStep == TypeOK /\ times_start <= size /\ [Next]_vars => TypeOK'
<1> SUFFICES ASSUME TypeOK, times_start <= size, [Next]_vars
             PROVE  TypeOK'
  OBVIOUS
<1>1. CASE Label
  BY <1>1, LabelType
<1>2. CASE Equ
  BY <1>2, EquType
<1>3. CASE Data
  BY <1>3, DataType
<1>4. CASE Branch
  BY <1>4, BranchType
<1>5. CASE Org \/ Bits
  BY <1>5, OriginStepType
<1>6. CASE Align
  BY <1>6, AlignType
<1>7. CASE Times
  BY <1>7, TimesStepType
<1>8. CASE Rep
  BY <1>8, RepType
<1>9. CASE StringInst
  BY <1>9, StringType
<1>10. CASE Str
  BY <1>10, StrType
<1>11. CASE EndLine
  BY <1>11, EndLineType
<1>12. CASE NextPass
  BY <1>12, NextPassType
<1>13. CASE Save \/ Crash
  BY <1>13 DEF Save, Crash, TypeOK, Statuses, vars, stmVars, orgVars, timesVars
<1>14. CASE UNCHANGED vars
  BY <1>14 DEF TypeOK, vars, stmVars, orgVars, timesVars
<1>15. CASE Undefined \/ BranchOutOfRange \/ BranchIllegal \/ Reject
  <2>1. need_more' \in BOOLEAN
    BY <1>15 DEF Undefined, BranchOutOfRange, BranchIllegal, Reject, Resolved, TypeOK
  <2>2. Stop("undefined") \/ Stop("range") \/ Stop("rejected")
    BY <1>15 DEF Undefined, BranchOutOfRange, BranchIllegal, Reject
  <2>3. QED
    BY <2>1, <2>2, StopType DEF Statuses
<1>16. QED
  BY <1>1, <1>2, <1>3, <1>4, <1>5, <1>6, <1>7, <1>8, <1>9, <1>10, <1>11, <1>12,
     <1>13, <1>14, <1>15
  DEF Next, Statement, Exited

(* TypeOK and StreamLayout are proved together. *)
LEMMA LayoutInit == Init => StreamLayout
  BY BoundAssumption DEF Init, StreamLayout

(* A put moves the position and the size together, within the capacity.    *)
(* No put is longer than sixteen bytes, except for a text that fits.       *)
LEMMA EmitGrows ==
  ASSUME TypeOK, StreamLayout, NEW len \in Nat, NEW val, NEW rel, Emit(len, val, rel),
         len <= 16 \/ cap >= pos + len
  PROVE  /\ size <= size'
         /\ intact' => intact /\ size' = size + len /\ pos' = size' /\ size' <= cap'
<1>1. /\ pos \in Nat /\ size \in Nat /\ cap \in Nat /\ pos' = pos + len
      /\ size' = IF size < pos + len THEN pos + len ELSE size
      /\ cap' = IF len = 0 THEN cap ELSE CapFor(pos + len)
      /\ intact' = intact
  BY DEF Emit, TypeOK
<1>2. intact => pos = size /\ size <= cap
  BY DEF StreamLayout
<1>3. ASSUME intact, len # 0
      PROVE  pos + len <= CapFor(pos + len)
  <2>1. CASE cap >= pos + len
    BY <2>1 DEF CapFor
  <2>2. CASE ~(cap >= pos + len)
    <3>1. pos + len <= NewCap(pos + len)
      BY <1>1, <1>2, <1>3, <2>2, BoundAssumption DEF NewCap
    <3>2. QED
      BY <2>2, <3>1 DEF CapFor
  <2>3. QED
    BY <2>1, <2>2
<1>4. size <= size'
  BY <1>1
<1>5. ASSUME intact
      PROVE  size' = size + len /\ pos' = size' /\ size' <= cap'
  BY <1>1, <1>2, <1>3, <1>5
<1>6. QED
  BY <1>1, <1>4, <1>5

(* An entry at the end of the stream overlaps none of the others. *)
LEMMA LayoutEmit ==
  ASSUME TypeOK, StreamLayout, NEW len \in Nat, NEW val, NEW rel,
         size' \in Nat, size <= size',
         intact' => intact /\ size' = size + len /\ pos' = size' /\ size' <= cap',
         scan' = scan \cup {Entry(len, val, rel)},
         times_start' = times_start \/ (len = 0 /\ times_start' = size)
  PROVE  StreamLayout'
<1> DEFINE x == Entry(len, val, rel)
<1>1. x.ofs = size /\ x.len = len
  BY DEF Entry
<1>2. \A r \in scan : r.ofs \in Nat /\ r.len \in Nat
  BY DEF TypeOK, EntryType
<1>3. size \in Nat /\ times_start \in Nat /\ times_start <= size
  BY DEF TypeOK, StreamLayout
<1> HIDE DEF x
<1>4. times_start' <= size'
  BY <1>3
<1>5. CASE ~intact'
  BY <1>4, <1>5 DEF StreamLayout
<1>6. CASE intact'
  <2>1. intact /\ size' = size + len /\ pos' = size' /\ size' <= cap'
    BY <1>6
  <2>2. \A r \in scan : r.len > 0 => r.ofs + r.len <= size
    BY <2>1 DEF StreamLayout
  <2>3. ASSUME NEW r \in scan', r.len > 0
        PROVE  r.ofs + r.len <= size'
    BY <1>1, <1>2, <1>3, <2>1, <2>2, <2>3 DEF x
  <2>4. ASSUME NEW r \in scan', r.ofs < times_start', r.len > 0
        PROVE  r.ofs + r.len <= times_start'
    <3>1. CASE r \in scan
      BY <1>2, <2>1, <2>2, <2>4, <3>1 DEF StreamLayout
    <3>2. CASE r = x
      BY <1>1, <1>3, <2>4, <3>2
    <3>3. QED
      BY <3>1, <3>2 DEF x
  <2>5. ASSUME NEW r \in scan', NEW q \in scan', r # q, r.len > 0, q.len > 0
        PROVE  r.ofs + r.len <= q.ofs \/ q.ofs + q.len <= r.ofs
    <3>1. CASE r \in scan /\ q \in scan
      BY <2>1, <2>5, <3>1 DEF StreamLayout
    <3>2. CASE r = x \/ q = x
      BY <1>1, <1>2, <2>2, <2>5, <3>2 DEF x
    <3>3. QED
      BY <3>1, <3>2 DEF x
  <2>6. QED
    BY <1>4, <2>1, <2>3, <2>4, <2>5 DEF StreamLayout
<1>7. QED
  BY <1>5, <1>6

(* Cutting at times_start drops whole entries. *)
LEMMA LayoutCut ==
  ASSUME TypeOK, StreamLayout, DropLine
  PROVE  StreamLayout'
<1>1. \A r \in scan : r.ofs \in Nat /\ r.len \in Nat
  BY DEF TypeOK, EntryType
<1>2. /\ size' = times_start /\ times_start' = 0 /\ times_start \in Nat
      /\ cap' = Alloc(times_start) /\ intact' = intact
      /\ pos' = IF cap' = 0 THEN 0 ELSE Least(pos, times_start)
      /\ scan' \subseteq scan /\ \A r \in scan' : r.len = 0 \/ r.ofs < times_start
  BY DEF DropLine, Discard, TimesDone, TypeOK
<1>3. times_start' <= size'
  BY <1>2
<1>4. CASE ~intact'
  BY <1>3, <1>4 DEF StreamLayout
<1>5. CASE intact'
  <2>1. /\ intact /\ pos = size /\ size <= cap /\ times_start <= size
        /\ pos \in Nat /\ size \in Nat /\ cap \in Nat
    BY <1>2, <1>5 DEF StreamLayout, TypeOK
  <2>2. cap >= times_start
    BY <1>2, <2>1
  <2>3. cap' = cap
    BY <1>2, <2>2 DEF Alloc, CapFor
  <2>4. pos' = size' /\ size' <= cap'
    BY <1>2, <2>1, <2>3 DEF Least
  <2>5. ASSUME NEW r \in scan', r.len > 0
        PROVE  r.ofs + r.len <= size' /\ ~(r.ofs < times_start')
    BY <1>1, <1>2, <2>1, <2>5 DEF StreamLayout
  <2>6. ASSUME NEW r \in scan', NEW q \in scan', r # q, r.len > 0, q.len > 0
        PROVE  r.ofs + r.len <= q.ofs \/ q.ofs + q.len <= r.ofs
    BY <1>2, <2>1, <2>6 DEF StreamLayout
  <2>7. QED
    BY <1>3, <2>4, <2>5, <2>6 DEF StreamLayout
<1>6. QED
  BY <1>4, <1>5

(* Extending the stream by copies, or touching only what is not laid out,  *)
(* changes nothing.                                                        *)
LEMMA LayoutGrow ==
  ASSUME TypeOK, StreamLayout, size' \in Nat, size <= size',
         intact' => intact /\ pos' = size' /\ size' <= cap',
         scan' = scan, times_start' \in {0, times_start}
  PROVE  StreamLayout'
<1>1. \A r \in scan : r.ofs \in Nat /\ r.len \in Nat
  BY DEF TypeOK, EntryType
<1>2. size \in Nat /\ times_start \in Nat /\ times_start <= size
  BY DEF TypeOK, StreamLayout
<1>3. times_start' <= size'
  BY <1>2
<1>4. CASE ~intact'
  BY <1>3, <1>4 DEF StreamLayout
<1>5. CASE intact'
  <2>1. intact /\ pos' = size' /\ size' <= cap'
    BY <1>5
  <2>2. \A r \in scan : r.len > 0 => r.ofs + r.len <= size'
    BY <1>1, <1>2, <2>1 DEF StreamLayout
  <2>3. \A r \in scan : r.ofs < times_start' /\ r.len > 0 => r.ofs + r.len <= times_start'
    BY <1>1, <1>2, <2>1 DEF StreamLayout
  <2>4. \A r, q \in scan : r # q /\ r.len > 0 /\ q.len > 0 =>
          r.ofs + r.len <= q.ofs \/ q.ofs + q.len <= r.ofs
    BY <2>1 DEF StreamLayout
  <2>5. QED
    BY <1>3, <2>1, <2>2, <2>3, <2>4 DEF StreamLayout
<1>6. QED
  BY <1>4, <1>5

LEMMA LayoutStep == TypeOK /\ StreamLayout /\ [Next]_vars => StreamLayout'
<1> SUFFICES ASSUME TypeOK, StreamLayout, [Next]_vars
             PROVE  StreamLayout'
  OBVIOUS
<1> USE DEF vars, stmVars, timesVars
<1>0. /\ size \in Nat /\ size <= size /\ size = size + 0 /\ 0 \in Nat /\ size' \in Nat
      /\ intact => pos = size /\ size <= cap
  <2>1. TypeOK'
    BY TypeStep DEF StreamLayout
  <2>2. size \in Nat /\ size' \in Nat
    BY <2>1 DEF TypeOK
  <2>3. QED
    BY <2>2 DEF StreamLayout
<1>1. ASSUME NEW val, Note(val), times_start' = times_start \/ times_start' = size
      PROVE  StreamLayout'
  <2>1. UNCHANGED stmVars /\ scan' = scan \cup {Entry(0, val, 0)}
    BY <1>1 DEF Note
  <2>2. QED
    BY <1>0, <1>1, <2>1, LayoutEmit
<1>2. ASSUME NEW len \in Nat, NEW val, NEW rel, Emit(len, val, rel),
             len <= 16 \/ cap >= pos + len,
             times_start' = times_start
      PROVE  StreamLayout'
  <2>1. /\ size <= size'
        /\ intact' => intact /\ size' = size + len /\ pos' = size' /\ size' <= cap'
    BY <1>2, EmitGrows
  <2>2. scan' = scan \cup {Entry(len, val, rel)}
    BY <1>2 DEF Emit
  <2>3. QED
    BY <1>0, <1>2, <2>1, <2>2, LayoutEmit
<1>3. ASSUME UNCHANGED <<stmVars, scan, times_start>>
      PROVE  StreamLayout'
  <2>1. scan' = scan /\ times_start' \in {0, times_start}
    BY <1>3
  <2>2. QED
    BY <1>0, <1>3, <2>1, LayoutGrow
<1>4. CASE Label \/ Equ
  <2>1. times_start' = times_start
    BY <1>4 DEF Label, Equ
  <2>2. PICK val : Note(val)
    BY <1>4 DEF Label, Equ
  <2>3. QED
    BY <1>1, <2>1, <2>2
<1>5. CASE Data
  <2>1. prog[pc].n \in {1, 2, 4, 8}
    BY <1>5, StatementType DEF Data, At, TypeOK, WellFormed
  <2>2. prog[pc].n \in Nat /\ prog[pc].n <= 16
    BY <2>1
  <2>3. QED
    BY <1>2, <1>5, <2>2 DEF Data
<1>6. CASE Branch
  <2> DEFINE val == Operand(prog[pc].e)
             n == BranchLen(prog[pc].op, val)
             rel == Field(prog[pc].op, val)
  <2>1. n \in Nat /\ n <= 16
    BY DEF BranchLen
  <2>2. Emit(n, val, rel) /\ times_start' = times_start
    BY <1>6 DEF Branch
  <2> HIDE DEF n, val, rel
  <2>3. QED
    BY <1>2, <2>1, <2>2
<1>7. CASE Align
  <2> DEFINE v == prog[pc].n
             n == (v - (HereAt(size, org_addr, org_ofs) % v)) % v
  <2>1. v \in {1, 2, 4, 8, 16} /\ HereAt(size, org_addr, org_ofs) \in Int
    <3>1. v \in {1, 2, 4, 8, 16}
      BY <1>7, StatementType DEF Align, At, TypeOK, WellFormed
    <3>2. HereAt(size, org_addr, org_ofs) \in Int
      BY Numbers DEF HereAt
    <3>3. QED
      BY <3>1, <3>2
  <2>2. n \in Nat /\ n <= 16
    BY <2>1
  <2>3. Emit(n, 0, 0) /\ times_start' = times_start
    BY <1>7 DEF Align
  <2> HIDE DEF n
  <2>4. QED
    BY <1>2, <2>2, <2>3
<1>8. CASE Times
  <2>1. PICK val : Note(val)
    BY <1>8 DEF Times
  <2>2. times_start' = size
    BY <1>8 DEF Times
  <2>3. QED
    BY <1>1, <2>1, <2>2
<1>9. CASE StringInst
  <2> DEFINE n == IF rep_prefix THEN 2 ELSE 1
  <2>1. n \in Nat /\ n <= 16 /\ Emit(n, 0, 0) /\ times_start' = times_start
    BY <1>9 DEF StringInst
  <2> HIDE DEF n
  <2>2. QED
    BY <1>2, <2>1
<1>10. CASE EndLine
  <2>1. CASE PendingRep
    BY <1>3, <2>1 DEF PendingRep
  <2>2. CASE PlainLine
    BY <1>3, <2>2 DEF PlainLine
  <2>3. CASE DropLine
    BY <2>3, LayoutCut
  <2>4. CASE RepeatLine
    <3>1. CopyBytes \in Nat
      BY <2>4, CopyBytesNat DEF RepeatLine, StreamLayout
    <3>2. /\ size' = size + CopyBytes /\ scan' = scan /\ times_start' = 0
          /\ intact' => intact /\ pos' = size' /\ size' <= cap'
      <4>1. size' = size + CopyBytes /\ scan' = scan /\ times_start' = 0
        BY <2>4 DEF RepeatLine, TimesDone
      <4>2. \/ cap' >= size' /\ pos' = size' /\ intact' = intact
            \/ intact' = FALSE
        BY <2>4 DEF RepeatLine
      <4>3. cap' \in Nat /\ size' \in Nat
        BY TypeStep DEF TypeOK, StreamLayout
      <4>4. QED
        BY <4>1, <4>2, <4>3
    <3> HIDE DEF CopyBytes
    <3>3. size <= size'
      BY <1>0, <3>1, <3>2
    <3>4. QED
      BY <1>0, <3>2, <3>3, LayoutGrow
  <2>5. QED
    BY <1>10, <2>1, <2>2, <2>3, <2>4 DEF EndLine
<1>11. CASE NextPass
  <2>1. size' = 0 /\ pos' = 0 /\ times_start' = 0 /\ scan' = {} /\ cap' = cap /\ cap \in Nat
    BY <1>11 DEF NextPass, TypeOK
  <2>2. QED
    BY <2>1 DEF StreamLayout
<1>12. CASE Str
  <2>1. prog[pc].n \in Nat /\ times_start' = times_start
    BY <1>12, StatementType DEF Str, At
  <2>2. CASE cap >= pos + prog[pc].n /\ Emit(prog[pc].n, 0, 0)
    BY <1>2, <2>1, <2>2
  <2>3. CASE intact' = FALSE /\ UNCHANGED <<pos, size, damaged, scan>>
    <3>1. size <= size' /\ times_start' \in {0, times_start} /\ scan' = scan
      BY <1>0, <2>1, <2>3
    <3>2. QED
      BY <1>0, <2>3, <3>1, LayoutGrow
  <2>4. QED
    BY <1>12, <2>2, <2>3 DEF Str, TextNeeds
<1>13. CASE Org \/ Bits \/ Rep \/ BranchOutOfRange \/ BranchIllegal \/ Undefined \/ Reject \/ Save \/ Crash
            \/ UNCHANGED vars
  <2>1. UNCHANGED <<stmVars, scan, times_start>>
    BY <1>13 DEF Org, Bits, Rep, BranchOutOfRange, BranchIllegal, Undefined, Reject, Stop, Save, Crash
  <2>2. QED
    BY <1>3, <2>1
<1>14. QED
  BY <1>4, <1>5, <1>6, <1>7, <1>8, <1>9, <1>10, <1>11, <1>12, <1>13
  DEF Next, Statement, Exited

-----------------------------------------------------------------------------
(* The state of the assembler always has its types (bctx.h 60-92). *)
THEOREM TypeCorrect == Spec => [](TypeOK /\ StreamLayout)
<1>1. Init => TypeOK /\ StreamLayout
  BY TypeInit, LayoutInit
<1>2. TypeOK /\ StreamLayout /\ [Next]_vars => (TypeOK /\ StreamLayout)'
  <2>1. StreamLayout => times_start <= size
    BY DEF StreamLayout
  <2>2. QED
    BY <2>1, TypeStep, LayoutStep
<1>3. QED
  BY <1>1, <1>2, PTL DEF Spec
-----------------------------------------------------------------------------
(* The fixpoint. *)

(* The table keeps all it had. *)
Extends(t, u) == DOMAIN t \subseteq DOMAIN u /\ \A s \in DOMAIN t : u[s] = t[s]

(* EnsureSymbol enters its symbol; when need_more stays off, the rest of   *)
(* the table, and the symbol if it was there, are what they were.          *)
LEMMA EnsureKeeps ==
  ASSUME NEW s, NEW val, NEW missed \in BOOLEAN, need_more \in BOOLEAN,
         EnsureSymbol(s, val, missed)
  PROVE  /\ s \in DOMAIN sym' /\ sym'[s] = val
         /\ DOMAIN sym \subseteq DOMAIN sym'
         /\ ~need_more' => ~need_more /\ ~missed /\ Extends(sym, sym')
  BY DEF EnsureSymbol, Extends

(* An entry that agrees with the table agrees with every extension of it. *)
LEMMA AgreesKept ==
  ASSUME TypeOK, NEW r \in scan, Agrees(r), prog' = prog,
         DOMAIN sym' \subseteq Syms, Extends(sym, sym')
  PROVE  Agrees(r)'
<1> DEFINE it == prog[r.at]
<1>1. it \in Item
  BY DEF TypeOK, WellFormed
<1>2. it.op \in Defining => it.s \in DOMAIN sym' /\ sym'[it.s] = r.val
  BY DEF Agrees, Extends
<1>3. ASSUME it.op \in ExprOps
      PROVE  /\ Names(it.e) \subseteq DOMAIN sym'
             /\ r.val = Value(it.e, sym', HereOf(r), r.start, 0)
  <2>1. Names(it.e) \subseteq DOMAIN sym /\ r.val = Value(it.e, sym, HereOf(r), r.start, 0)
    BY <1>3 DEF Agrees
  <2>2. Names(it.e) \subseteq DOMAIN sym' /\ \A s \in Names(it.e) : sym[s] = sym'[s]
    BY <2>1 DEF Extends
  <2>3. it.e \in Expr /\ DOMAIN sym \subseteq Syms
    BY <1>1 DEF Item, TypeOK
  <2>4. Value(it.e, sym, HereOf(r), r.start, 0) = Value(it.e, sym', HereOf(r), r.start, 0)
    BY <2>1, <2>2, <2>3, ValueByNames
  <2>5. QED
    BY <2>1, <2>2, <2>4
<1>4. QED
  BY <1>2, <1>3 DEF Agrees, HereOf

(* The entry of a statement whose operand was resolved agrees with the     *)
(* table the statement leaves.                                             *)
LEMMA AgreesNew ==
  ASSUME TypeOK, pc <= Len(prog), prog' = prog,
         NEW x, NEW len, NEW rel, x = Entry(len, Operand(prog[pc].e), rel),
         Resolved(prog[pc].e), DOMAIN sym' \subseteq Syms, Extends(sym, sym'),
         prog[pc].op \in Defining =>
           prog[pc].s \in DOMAIN sym' /\ sym'[prog[pc].s] = Operand(prog[pc].e)
  PROVE  Agrees(x)'
<1> DEFINE e == prog[pc].e
<1>1. /\ x.at = pc /\ x.val = Operand(e) /\ x.start = code_start
      /\ HereOf(x) = HereAt(size, org_addr, org_ofs)
  BY DEF Entry, HereOf
<1>2. e \in Expr /\ DOMAIN sym \subseteq Syms
  BY StatementType DEF TypeOK
<1>3. /\ Names(e) \subseteq DOMAIN sym /\ Names(e) \subseteq DOMAIN sym'
      /\ \A s \in Names(e) : sym[s] = sym'[s]
  BY DEF Resolved, Extends
<1>4. Operand(e) = Value(e, sym', HereOf(x), x.start, 0)
  BY <1>1, <1>2, <1>3, ValueByNames DEF Operand
<1>5. QED
  BY <1>1, <1>3, <1>4 DEF Agrees, HereOf

(* A pass in which need_more is still off stays consistent when a step     *)
(* adds one consistent entry.                                              *)
LEMMA PassStep ==
  ASSUME TypeOK, PassAgrees, prog' = prog, DOMAIN sym' \subseteq Syms,
         ~need_more' => ~need_more /\ Extends(sym, sym'),
         \A r \in scan' \ scan : ~need_more' => Agrees(r)' /\ FitsForm(r)
  PROVE  PassAgrees'
<1>1. SUFFICES ASSUME ~need_more', NEW r \in scan'
               PROVE  Agrees(r)' /\ FitsForm(r)'
  BY DEF PassAgrees
<1>2. CASE r \in scan
  <2>1. Agrees(r) /\ FitsForm(r)
    BY <1>1, <1>2 DEF PassAgrees
  <2>2. QED
    BY <1>1, <1>2, <2>1, AgreesKept DEF FitsForm, FieldTop
<1>3. CASE r \notin scan
  BY <1>1, <1>3 DEF FitsForm, FieldTop
<1>4. QED
  BY <1>2, <1>3

(* The form a branch takes holds what its field is to hold. *)
LEMMA FormFits ==
  ASSUME TypeOK, pc <= Len(prog), prog[pc].op \in Branches, NEW val \in Int,
         NEW x, x = Entry(BranchLen(prog[pc].op, val), val, Field(prog[pc].op, val)),
         Fits(prog[pc].op, val)
  PROVE  FitsForm(x)
<1> DEFINE op == prog[pc].op
           n == BranchLen(op, val)
<1>1. x.at = pc /\ x.len = n /\ x.rel = Field(op, val)
  BY DEF Entry
<1>2. InField(op, n, x.rel) /\ op \in Branches
  BY <1>1 DEF Fits
<1>3. n \in {2, 3, 4, 5, 6, 7} /\ x.rel \in Int
  <2>1. n \in {2, 3, 4, 5, 6, 7}
    BY DEF BranchLen
  <2> HIDE DEF n
  <2>2. RelOfs(val, n) \in Int
    <3>1. n \in Int /\ size \in Int /\ org_addr \in Int /\ org_ofs \in Int
      BY <2>1, Numbers
    <3>2. QED
      BY <3>1 DEF RelOfs
  <2>3. QED
    BY <1>1, <2>1, <2>2 DEF Field, n
<1>4. op \in {"farjmp", "farcall"} => n \in {5, 7}
  BY DEF BranchLen, TakesShort
<1>5. x.rel \div 2 <= 2147483647 => x.rel - 2147483647 - 1 <= 2147483647
  BY <1>3
<1> HIDE DEF n, op
<1>6. FieldTop(x) = CASE n = 2 \/ op = "jcxz" -> 127
                      [] op # "jcxz" /\ (n \in {3, 4} \/ (n = 5 /\ op \in {"farjmp", "farcall"})) -> 32767
                      [] OTHER -> 2147483647
  BY <1>1 DEF FieldTop, op
<1>7. CASE op = "jcxz"
  <2>1. FieldTop(x) = 127
    BY <1>6, <1>7
  <2>2. InInt8(x.rel)
    BY <1>2, <1>7 DEF InField
  <2>3. QED
    BY <1>1, <1>7, <2>1, <2>2 DEF FitsForm, InInt8, op
<1>8. CASE op = "farjmp"
  <2>1. FieldTop(x) = IF n = 5 THEN 32767 ELSE 2147483647
    BY <1>4, <1>6, <1>8
  <2>2. IF n = 5 THEN InInt16(x.rel) ELSE InInt32(x.rel)
    BY <1>2, <1>8 DEF InField
  <2>3. QED
    BY <1>1, <1>3, <1>8, <2>1, <2>2 DEF FitsForm, InInt16, InInt32, op
<1>9. CASE op = "farcall"
  <2>1. FieldTop(x) = IF n = 5 THEN 32767 ELSE 2147483647
    BY <1>4, <1>6, <1>9
  <2>2. IF n = 5 THEN -32768 <= x.rel /\ x.rel <= 65535
        ELSE -2147483647 - 1 <= x.rel /\ x.rel \div 2 <= 2147483647
    BY <1>2, <1>9 DEF InField
  <2>3. QED
    BY <1>1, <1>3, <1>5, <1>9, <2>1, <2>2 DEF FitsForm, op
<1>10. CASE op \in Relative
  <2>1. op \notin {"jcxz", "farjmp", "farcall"}
    BY <1>10 DEF Relative
  <2>2. FieldTop(x) = CASE n = 2 -> 127 [] n \in {3, 4} -> 32767 [] OTHER -> 2147483647
    BY <1>3, <1>6, <2>1
  <2>3. (CASE n = 2 -> InInt8(x.rel) [] n \in {3, 4} -> InInt16(x.rel) [] OTHER -> InInt32(x.rel))
    BY <1>2, <2>1 DEF InField
  <2>4. QED
    BY <1>1, <1>3, <2>1, <2>2, <2>3 DEF FitsForm, InInt8, InInt16, InInt32, op
<1>11. QED
  BY <1>2, <1>7, <1>8, <1>9, <1>10 DEF Branches, Absolute

LEMMA AgreeStep == TypeOK /\ PassAgrees /\ [Next]_vars => PassAgrees'
<1> SUFFICES ASSUME TypeOK, PassAgrees, [Next]_vars
             PROVE  PassAgrees'
  OBVIOUS
<1> USE DEF vars
<1>0. /\ DOMAIN sym \subseteq Syms /\ Extends(sym, sym) /\ need_more \in BOOLEAN
      /\ \A r \in scan : r.at \in 1..Len(prog)
  BY DEF TypeOK, Extends
(* Steps that leave the table alone and add no entry. *)
<1>1. ASSUME UNCHANGED <<prog, need_more, sym>>, scan' \subseteq scan
      PROVE  PassAgrees'
  BY <1>0, <1>1, PassStep
(* Steps that leave the table alone and add the entry x. *)
<1>2. ASSUME NEW x, scan' = scan \cup {x}, UNCHANGED <<prog, sym>>,
             ~need_more' => ~need_more /\ Agrees(x)' /\ FitsForm(x)
      PROVE  PassAgrees'
  BY <1>0, <1>2, PassStep
<1>3. CASE Label
  <2> DEFINE s == prog[pc].s
             ofs == size + org_addr + org_ofs
  <2>1. s \in Syms /\ EnsureSymbol(s, ofs, FALSE) /\ prog' = prog
    BY <1>3, StatementType DEF Label, At, Advance, Defining
  <2>2. DOMAIN sym' = DOMAIN sym \cup {s}
    BY <2>1 DEF EnsureSymbol
  <2>3. PICK x : x = Entry(0, ofs, 0) /\ scan' = scan \cup {x}
    BY <1>3 DEF Label, Note
  <2>4. x.at = pc /\ x.val = ofs /\ prog[pc].op = "label"
    BY <1>3, <2>3 DEF Label, At, Entry
  <2>5. Agrees(x)' /\ FitsForm(x)
    BY <2>1, <2>4, <1>0, EnsureKeeps DEF Agrees, FitsForm, ExprOps, Branches, Relative, Absolute
  <2>6. ~need_more' => ~need_more /\ Extends(sym, sym')
    BY <2>1, <1>0, EnsureKeeps
  <2>7. QED
    BY <1>0, <2>1, <2>2, <2>3, <2>5, <2>6, PassStep
<1>4. CASE Equ
  <2> DEFINE s == prog[pc].s
             e == prog[pc].e
             val == Operand(e)
  <2>1. /\ s \in Syms /\ EnsureSymbol(s, val, ~Resolved(e)) /\ prog' = prog
        /\ pc <= Len(prog) /\ prog[pc].op = "equ" /\ (~Resolved(e)) \in BOOLEAN
    BY <1>4, StatementType DEF Equ, At, Advance, Defining, Resolved
  <2>2. DOMAIN sym' = DOMAIN sym \cup {s}
    BY <2>1 DEF EnsureSymbol
  <2>3. PICK x : x = Entry(0, val, 0) /\ scan' = scan \cup {x}
    BY <1>4 DEF Equ, Note
  <2>4. /\ s \in DOMAIN sym' /\ sym'[s] = val
        /\ ~need_more' => ~need_more /\ Resolved(e) /\ Extends(sym, sym')
    <3> DEFINE missed == ~Resolved(e)
    <3>1. missed \in BOOLEAN /\ EnsureSymbol(s, val, missed) /\ (~missed <=> Resolved(e))
      BY <2>1
    <3> HIDE DEF missed
    <3>2. /\ s \in DOMAIN sym' /\ sym'[s] = val
          /\ ~need_more' => ~need_more /\ ~missed /\ Extends(sym, sym')
      BY <3>1, <1>0, EnsureKeeps
    <3>3. QED
      BY <3>1, <3>2
  <2>5. ~need_more' => Agrees(x)'
    BY <1>0, <2>1, <2>2, <2>3, <2>4, AgreesNew
  <2>6. FitsForm(x)
    BY <2>1, <2>3 DEF FitsForm, Branches, Relative, Absolute, Entry
  <2>7. QED
    BY <1>0, <2>1, <2>2, <2>3, <2>4, <2>5, <2>6, PassStep
<1>5. ASSUME pc <= Len(prog), prog[pc].op \notin Defining, UNCHANGED <<prog, sym>>,
             NEW len, NEW rel, NEW x, x = Entry(len, Operand(prog[pc].e), rel),
             Resolved(prog[pc].e)
      PROVE  Agrees(x)'
  BY <1>0, <1>5, AgreesNew
<1>6. CASE Data
  <2> DEFINE e == prog[pc].e
  <2>1. /\ pc <= Len(prog) /\ prog[pc].op = "data" /\ UNCHANGED <<prog, sym>>
        /\ need_more' = (need_more \/ ~Resolved(e))
    BY <1>6 DEF Data, At, Advance
  <2>2. PICK x : x = Entry(prog[pc].n, Operand(e), 0) /\ scan' = scan \cup {x}
    BY <1>6 DEF Data, Emit
  <2>3. FitsForm(x)
    BY <2>1, <2>2 DEF FitsForm, Branches, Relative, Absolute, Entry
  <2>4. Resolved(e) => Agrees(x)'
    BY <1>5, <2>1, <2>2 DEF Defining
  <2>5. QED
    BY <1>2, <2>1, <2>2, <2>3, <2>4
<1>7. CASE Branch
  <2> DEFINE e == prog[pc].e
             val == Operand(e)
             n == BranchLen(prog[pc].op, val)
  <2>1. /\ pc <= Len(prog) /\ prog[pc].op \in Branches /\ UNCHANGED <<prog, sym>>
        /\ need_more' = (need_more \/ ~Resolved(e))
        /\ Stable(e) => Fits(prog[pc].op, val)
    BY <1>7 DEF Branch, Advance
  <2>2. PICK x : x = Entry(n, val, Field(prog[pc].op, val)) /\ scan' = scan \cup {x}
    BY <1>7 DEF Branch, Emit
  <2>3. Resolved(e) => Agrees(x)'
    <3>1. prog[pc].op \notin Defining
      BY <2>1 DEF Defining, Branches, Relative, Absolute
    <3> HIDE DEF n
    <3>2. QED
      BY <1>5, <2>1, <2>2, <3>1
  <2>4. Stable(e) => FitsForm(x)
    <3>1. val \in Int
      BY <2>1, StatementType, OperandInt
    <3>2. QED
      BY <2>1, <2>2, <3>1, FormFits
  <2>5. QED
    BY <1>2, <2>1, <2>2, <2>3, <2>4 DEF Stable
<1>8. CASE Times
  <2> DEFINE e == prog[pc].e
  <2>1. /\ pc <= Len(prog) /\ prog[pc].op = "times" /\ UNCHANGED <<prog, sym>>
        /\ need_more' = (need_more \/ ~Resolved(e))
    BY <1>8 DEF Times, At, Advance
  <2>2. PICK x : x = Entry(0, Operand(e), 0) /\ scan' = scan \cup {x}
    BY <1>8 DEF Times, Note
  <2>3. FitsForm(x)
    BY <2>1, <2>2 DEF FitsForm, Branches, Relative, Absolute, Entry
  <2>4. Resolved(e) => Agrees(x)'
    BY <1>5, <2>1, <2>2 DEF Defining
  <2>5. QED
    BY <1>2, <2>1, <2>2, <2>3, <2>4
<1>9. CASE Align \/ StringInst \/ Str
  <2>1. /\ UNCHANGED <<prog, sym, need_more>>
        /\ prog[pc].op \in {"align", "string", "str"}
    BY <1>9 DEF Align, StringInst, Str, At, Advance
  <2>2. CASE scan' = scan
    BY <1>1, <2>1, <2>2
  <2>3. CASE \E len : scan' = scan \cup {Entry(len, 0, 0)}
    <3>1. PICK len : scan' = scan \cup {Entry(len, 0, 0)}
      BY <2>3
    <3>2. PICK x : x = Entry(len, 0, 0) /\ scan' = scan \cup {x}
      BY <3>1
    <3>3. x.at = pc
      BY <3>2 DEF Entry
    <3>4. Agrees(x)' /\ FitsForm(x)
      BY <2>1, <3>3 DEF Agrees, FitsForm, Defining, ExprOps, Branches, Relative, Absolute
    <3>5. QED
      BY <1>2, <2>1, <3>2, <3>4
  <2>4. QED
    BY <1>9, <2>2, <2>3 DEF Align, StringInst, Str, Emit
<1>10. CASE EndLine
  <2>1. UNCHANGED <<prog, need_more, sym>>
    BY <1>10 DEF EndLine
  <2>2. scan' \subseteq scan
    BY <1>10 DEF EndLine, PendingRep, PlainLine, DropLine, RepeatLine, Discard
  <2>3. QED
    BY <1>1, <2>1, <2>2
<1>11. CASE NextPass
  BY <1>11 DEF NextPass, PassAgrees
<1>12. CASE Undefined
  BY <1>12 DEF Undefined, PassAgrees
<1>13. CASE BranchIllegal
  <2>1. UNCHANGED <<prog, sym, scan>> /\ (need_more => need_more')
    BY <1>13 DEF BranchIllegal, Stop
  <2>2. QED
    BY <1>0, <2>1, PassStep
<1>14. CASE Org \/ Bits \/ Rep \/ BranchOutOfRange \/ Reject \/ Save \/ Crash
            \/ UNCHANGED vars
  <2>1. UNCHANGED <<prog, need_more, sym>> /\ scan' \subseteq scan
    BY <1>14 DEF Org, Bits, Rep, BranchOutOfRange, BranchIllegal, Reject, Stop, Save, Crash, Advance
  <2>2. QED
    BY <1>1, <2>1
<1>15. QED
  BY <1>3, <1>4, <1>6, <1>7, <1>8, <1>9, <1>10, <1>11, <1>12, <1>13, <1>14
  DEF Next, Statement, Exited
-----------------------------------------------------------------------------
(* Symbols and outcomes. *)

(* Once known, a symbol stays known; a defining statement makes its own    *)
(* symbol known.                                                           *)
LEMMA TableGrows ==
  ASSUME TypeOK, [Next]_vars
  PROVE  /\ DOMAIN sym \subseteq DOMAIN sym'
         /\ (pc' = pc + 1 /\ pc <= Len(prog) /\ prog[pc].op \in Defining =>
              prog[pc].s \in DOMAIN sym')
<1> USE DEF vars
<1> DEFINE Grows == DOMAIN sym \subseteq DOMAIN sym'
           Here  == (pc' = pc + 1 /\ pc <= Len(prog) /\ prog[pc].op \in Defining =>
                      prog[pc].s \in DOMAIN sym')
<1>1. CASE Label \/ Equ
  <2>1. PICK val, missed : EnsureSymbol(prog[pc].s, val, missed)
    BY <1>1 DEF Label, Equ
  <2>2. Grows /\ Here
    BY <2>1 DEF EnsureSymbol
  <2>3. QED
    BY <2>2
<1>2. CASE Data \/ Str \/ Branch \/ Org \/ Align \/ Bits \/ Times \/ StringInst \/ EndLine
  <2>1. sym' = sym
    BY <1>2 DEF Data, Str, Branch, Org, Align, Bits, Times, StringInst, EndLine
  <2>2. prog[pc].op \notin Defining
    BY <1>2 DEF Data, Str, Branch, Org, Align, Bits, Times, StringInst, EndLine, At,
                Defining, Branches, Relative, Absolute
  <2>3. QED
    BY <2>1, <2>2
<1>3. CASE Rep
  <2>1. sym' = sym /\ prog[pc].op \notin Defining
    BY <1>3 DEF Rep, At, Defining, Stop
  <2>2. QED
    BY <2>1
<1>4. CASE NextPass
  <2>1. sym' = sym /\ ~(pc <= Len(prog))
    BY <1>4 DEF NextPass, PassEnded, TypeOK, WellFormed
  <2>2. QED
    BY <2>1
<1>5. CASE BranchOutOfRange \/ BranchIllegal \/ Undefined \/ Reject \/ Save \/ Crash \/ UNCHANGED vars
  <2>1. sym' = sym /\ pc' = pc
    BY <1>5 DEF BranchOutOfRange, BranchIllegal, Undefined, Reject, Save, Crash, Stop
  <2>2. pc' # pc + 1
    BY <2>1 DEF TypeOK
  <2>3. QED
    BY <2>1, <2>2
<1>6. \/ Label \/ Equ \/ Data \/ Str \/ Branch \/ BranchOutOfRange \/ BranchIllegal \/ Undefined \/ Reject
      \/ Org \/ Align \/ Bits \/ Times \/ Rep \/ StringInst \/ EndLine
      \/ NextPass \/ Save \/ Crash \/ UNCHANGED vars
  BY DEF Next, Statement, Exited
<1> HIDE DEF vars
<1>7. QED
  BY <1>1, <1>2, <1>3, <1>4, <1>5, <1>6

(* Where pc, pass_idx and the source go. *)
LEMMA PcMoves ==
  ASSUME TypeOK, [Next]_vars
  PROVE  /\ prog' = prog
         /\ \/ NextPass
            \/ pc' = pc /\ pass_idx' = pass_idx
            \/ pc' = pc + 1 /\ pc <= Len(prog) /\ pass_idx' = pass_idx
<1> USE DEF vars
<1>1. CASE Label \/ Equ \/ Data \/ Str \/ Branch \/ Org \/ Align \/ Bits \/ Times \/ StringInst \/ EndLine
  BY <1>1 DEF Label, Equ, Data, Str, Branch, Org, Align, Bits, Times, StringInst, EndLine, At, Advance
<1>2. CASE Rep
  BY <1>2 DEF Rep, At, Advance, Stop
<1>3. CASE BranchOutOfRange \/ BranchIllegal \/ Undefined \/ Reject \/ Save \/ Crash \/ UNCHANGED vars
  BY <1>3 DEF BranchOutOfRange, BranchIllegal, Undefined, Reject, Save, Crash, Stop
<1>4. CASE NextPass
  BY <1>4 DEF NextPass
<1>5. QED
  BY <1>1, <1>2, <1>3, <1>4 DEF Next, Statement, Exited

LEMMA KnownStep == TypeOK /\ SymbolsKnown /\ [Next]_vars => SymbolsKnown'
<1> SUFFICES ASSUME TypeOK, SymbolsKnown, [Next]_vars
             PROVE  SymbolsKnown'
  OBVIOUS
<1>1. DOMAIN sym \subseteq DOMAIN sym' /\ prog' = prog
  BY TableGrows, PcMoves
<1>2. ASSUME NEW n, KnownUpTo(n)
      PROVE  KnownUpTo(n)'
  BY <1>1, <1>2 DEF KnownUpTo
<1>3. Len(prog) \in Nat /\ pc \in 1..(Len(prog) + 1)
  BY DEF TypeOK, WellFormed
<1>4. CASE KnownUpTo(Len(prog))
  BY <1>1, <1>4 DEF SymbolsKnown, KnownUpTo
<1>5. CASE pass_idx = 1 /\ KnownUpTo(pc - 1)
  <2>1. CASE NextPass
    <3>1. pc - 1 = Len(prog)
      BY <1>3, <2>1 DEF NextPass, PassEnded
    <3>2. QED
      BY <1>4, <1>5, <3>1
  <2>2. CASE pc' = pc /\ pass_idx' = pass_idx
    BY <1>1, <1>5, <2>2 DEF SymbolsKnown, KnownUpTo
  <2>3. CASE pc' = pc + 1 /\ pc <= Len(prog) /\ pass_idx' = pass_idx
    <3>1. prog[pc].op \in Defining => prog[pc].s \in DOMAIN sym'
      BY <2>3, TableGrows
    <3>2. \A i \in 1..(pc' - 1) : i \in 1..(pc - 1) \/ i = pc
      BY <1>3, <2>3
    <3>3. KnownUpTo(pc - 1)'
      <4>1. \A i \in 1..(pc' - 1) : prog[i].op \in Defining => prog[i].s \in DOMAIN sym'
        BY <1>1, <1>5, <3>1, <3>2 DEF KnownUpTo
      <4>2. QED
        BY <1>1, <4>1 DEF KnownUpTo
    <3>4. QED
      BY <1>5, <2>3, <3>3 DEF SymbolsKnown
  <2>4. QED
    BY <2>1, <2>2, <2>3, PcMoves
<1>6. QED
  BY <1>4, <1>5 DEF SymbolsKnown

LEMMA OutcomeStep == TypeOK /\ Outcome /\ [Next]_vars => Outcome'
<1> SUFFICES ASSUME TypeOK, Outcome, [Next]_vars
             PROVE  Outcome'
  OBVIOUS
<1> USE DEF vars
<1>1. CASE status' = "run"
  BY <1>1 DEF Outcome
<1>2. CASE Undefined
  <2>1. /\ status' = "undefined" /\ pc <= Len(prog) /\ prog[pc].op \in ExprOps
        /\ ~CanEval(prog[pc].e) /\ UNCHANGED <<prog, pc, sym, pass_idx>>
    BY <1>2 DEF Undefined, Stop
  <2>2. QED
    BY <2>1 DEF Outcome, CanEval, Resolved
<1>3. CASE BranchOutOfRange \/ BranchIllegal \/ Reject
  BY <1>3 DEF BranchOutOfRange, BranchIllegal, Reject, Stop, Outcome
<1>4. CASE Rep
  BY <1>1, <1>4 DEF Rep, At, Advance, Stop, Outcome
<1>5. CASE Save \/ Crash
  BY <1>5 DEF Save, Crash, Outcome
<1>6. CASE UNCHANGED vars
  BY <1>6 DEF Outcome, CanEval, Resolved
<1>7. CASE Label \/ Equ \/ Data \/ Str \/ Branch \/ Org \/ Align \/ Bits \/ Times \/ StringInst \/ EndLine
  <2>1. status' = "run"
    BY <1>7 DEF Label, Equ, Data, Str, Branch, Org, Align, Bits, Times, StringInst, EndLine, At, Advance
  <2>2. QED
    BY <1>1, <2>1
<1>8. CASE NextPass
  BY <1>1, <1>8 DEF NextPass, PassEnded
<1>9. QED
  BY <1>2, <1>3, <1>4, <1>5, <1>6, <1>7, <1>8 DEF Next, Statement, Exited


(* Labels and branches are recorded where they stand. *)
LEMMA PlacedStep == TypeOK /\ Placed /\ [Next]_vars => Placed'
<1> SUFFICES ASSUME TypeOK, Placed, [Next]_vars
             PROVE  Placed'
  OBVIOUS
<1> USE DEF vars
<1>1. ASSUME prog' = prog, scan' \subseteq scan
      PROVE  Placed'
  BY <1>1 DEF Placed
<1>2. ASSUME prog' = prog, NEW x, scan' = scan \cup {x},
             prog[x.at].op = "label" => x.val = x.ofs + x.org + x.base,
             prog[x.at].op \in Relative => x.rel = x.val - x.org - x.ofs + x.base - x.len
      PROVE  Placed'
  BY <1>2 DEF Placed
<1>3. CASE Label
  <2>1. PICK x : x = Entry(0, size + org_addr + org_ofs, 0) /\ scan' = scan \cup {x}
    BY <1>3 DEF Label, Note
  <2>2. prog' = prog /\ prog[pc].op = "label"
    BY <1>3 DEF Label, At, Advance
  <2>3. QED
    BY <1>2, <2>1, <2>2 DEF Entry, Branches, Relative, Absolute
<1>4. CASE Branch
  <2> DEFINE val == Operand(prog[pc].e)
             n == BranchLen(prog[pc].op, val)
             rel == Field(prog[pc].op, val)
  <2>1. prog' = prog /\ prog[pc].op \in Branches /\ Emit(n, val, rel)
    BY <1>4 DEF Branch, Advance
  <2>2. prog[pc].op \in Relative => rel = RelOfs(val, n)
    BY DEF Field, Relative, Absolute
  <2> HIDE DEF n, val, rel
  <2>3. PICK x : x = Entry(n, val, rel) /\ scan' = scan \cup {x}
    BY <2>1 DEF Emit
  <2>4. /\ x.at = pc
        /\ prog[pc].op \in Relative => x.rel = x.val - x.org - x.ofs + x.base - x.len
    BY <2>2, <2>3 DEF Entry, RelOfs
  <2>5. prog[x.at].op # "label"
    BY <2>1, <2>4 DEF Branches, Relative, Absolute
  <2>6. QED
    BY <1>2, <2>1, <2>3, <2>4, <2>5
<1>5. CASE Equ \/ Data \/ Str \/ Align \/ Times \/ StringInst
  <2>1. prog' = prog /\ prog[pc].op \notin Relative \cup {"label"}
    BY <1>5 DEF Equ, Data, Str, Align, Times, StringInst, At, Advance, Branches, Relative, Absolute
  <2>2. CASE scan' = scan
    BY <1>1, <2>1, <2>2
  <2>3. CASE \E len, val : scan' = scan \cup {Entry(len, val, 0)}
    <3>1. PICK len, val : scan' = scan \cup {Entry(len, val, 0)}
      BY <2>3
    <3>2. PICK x : x = Entry(len, val, 0) /\ scan' = scan \cup {x}
      BY <3>1
    <3>3. x.at = pc
      BY <3>2 DEF Entry
    <3>4. QED
      BY <1>2, <2>1, <3>2, <3>3
  <2>4. scan' = scan \/ \E len, val : scan' = scan \cup {Entry(len, val, 0)}
    BY <1>5 DEF Equ, Data, Str, Align, Times, StringInst, Note, Emit
  <2>5. QED
    BY <2>2, <2>3, <2>4
<1>6. CASE EndLine
  BY <1>1, <1>6 DEF EndLine, PendingRep, PlainLine, DropLine, RepeatLine, Discard
<1>7. CASE NextPass
  BY <1>1, <1>7 DEF NextPass
<1>8. CASE Org \/ Bits \/ Rep \/ BranchOutOfRange \/ BranchIllegal \/ Undefined \/ Reject \/ Save \/ Crash
           \/ UNCHANGED vars
  <2>1. prog' = prog /\ scan' \subseteq scan
    BY <1>8 DEF Org, Bits, Rep, BranchOutOfRange, BranchIllegal, Undefined, Reject, Stop, Save, Crash, Advance
  <2>2. QED
    BY <1>1, <2>1
<1>9. QED
  BY <1>3, <1>4, <1>5, <1>6, <1>7, <1>8 DEF Next, Statement, Exited

-----------------------------------------------------------------------------
(* The inductive invariant holds in every state of the assembler. *)
THEOREM Invariance == Spec => []IInv
<1>1. Init => IInv
  <2>1. Init => PassAgrees /\ SymbolsKnown /\ Placed /\ Outcome
    BY DEF Init, PassAgrees, SymbolsKnown, KnownUpTo, Placed, Outcome
  <2>2. QED
    BY <2>1, TypeInit, LayoutInit DEF IInv
<1>2. IInv /\ [Next]_vars => IInv'
  <2>1. StreamLayout => times_start <= size
    BY DEF StreamLayout
  <2>2. QED
    BY <2>1, TypeStep, LayoutStep, AgreeStep, KnownStep, PlacedStep, OutcomeStep DEF IInv
<1>3. QED
  BY <1>1, <1>2, PTL DEF Spec

(* A saved output is a fixpoint: every operand in it has the value that    *)
(* the final symbol table gives it where it stands (bctx.c 93-165).        *)
THEOREM Fixpoint == Spec => []SavedIsFixpoint
<1>1. IInv => SavedIsFixpoint
  BY DEF IInv, PassAgrees, Outcome, SavedIsFixpoint
<1>2. QED
  BY <1>1, Invariance, PTL

(* No displacement in a saved output was cut to the width of its field,    *)
(* although most passes do not check the ranges (inst_jmp.c).              *)
THEOREM InRange == Spec => []BranchesInRange
<1>1. IInv => BranchesInRange
  BY DEF IInv, PassAgrees, Outcome, BranchesInRange
<1>2. QED
  BY <1>1, Invariance, PTL

(* An undefined symbol is reported only when no statement of the source    *)
(* defines it (bsyntax.c 1435-1439).                                       *)
THEOREM UndefinedSound == Spec => []UndefinedIsUndefined
<1>1. IInv => UndefinedIsUndefined
  <2>1. SUFFICES ASSUME IInv, status = "undefined"
                 PROVE  \E s \in Names(prog[pc].e) : ~DefinedIn(s)
    BY DEF UndefinedIsUndefined
  <2>2. ~Resolved(prog[pc].e) /\ ~(pass_idx <= 1)
    BY <2>1 DEF IInv, Outcome, CanEval
  <2>3. PICK s \in Names(prog[pc].e) : s \notin DOMAIN sym
    BY <2>2 DEF Resolved
  <2>4. KnownUpTo(Len(prog))
    BY <2>1, <2>2 DEF IInv, SymbolsKnown
  <2>5. ~DefinedIn(s)
    BY <2>3, <2>4 DEF DefinedIn, KnownUpTo
  <2>6. QED
    BY <2>3, <2>5
<1>2. QED
  BY <1>1, Invariance, PTL

(* The layout of the stream, for every source. *)
THEOREM Layout == Spec => []StreamLayout
  BY TypeCorrect, PTL

(* A branch to a label in the section at the start of the file jumps to    *)
(* the byte the label marks (bctx_rel_ofs, _parse_label).                  *)
THEOREM HitsLabels == Spec => []BranchesHitLabels
<1>1. IInv => BranchesHitLabels
  <2>1. SUFFICES ASSUME IInv, status = "saved", NEW r \in scan, NEW m \in scan,
                        prog[r.at].op \in Relative,
                        prog[r.at].e = [c |-> 0, pos |-> prog[m.at].s, neg |-> Nothing],
                        prog[m.at].op = "label",
                        r.org = m.org, r.base = 0, m.base = 0
                 PROVE  r.ofs + r.len + r.rel = m.ofs
    BY DEF BranchesHitLabels
  <2> DEFINE s == prog[m.at].s
             e == prog[r.at].e
  <2>2. /\ r \in EntryType /\ m \in EntryType
        /\ m.at \in 1..Len(prog)
    BY <2>1 DEF IInv, TypeOK
  <2>3. s \in Syms
    BY <2>1, <2>2 DEF IInv, TypeOK, WellFormed, Defining
  <2>4. Agrees(r) /\ Agrees(m)
    BY <2>1 DEF IInv, Outcome, PassAgrees
  <2>5. s \in DOMAIN sym /\ sym[s] = m.val
    BY <2>1, <2>4 DEF Agrees, Defining
  <2>6. r.val = Value(e, sym, HereOf(r), r.start, 0)
    BY <2>1, <2>4 DEF Agrees, ExprOps, Branches
  <2>7. AtomVal(s, sym, HereOf(r), r.start, 0) = m.val
    BY <2>3, <2>5, SymsAssumption DEF AtomVal
  <2>8. AtomVal(Nothing, sym, HereOf(r), r.start, 0) = 0
    BY DEF AtomVal, Nothing, Dollar, DDollar
  <2>9. r.val = 0 + m.val - 0
    BY <2>1, <2>6, <2>7, <2>8 DEF Value
  <2>10. /\ m.val = m.ofs + m.org + m.base
         /\ r.rel = r.val - r.org - r.ofs + r.base - r.len
    BY <2>1 DEF IInv, Placed
  <2>11. /\ r.ofs \in Int /\ r.len \in Int /\ r.org \in Int
         /\ m.ofs \in Int /\ m.val \in Int
    BY <2>2 DEF EntryType
  <2>12. QED
    BY <2>1, <2>9, <2>10, <2>11
<1>2. QED
  BY <1>1, Invariance, PTL

-----------------------------------------------------------------------------
(* A REP behind the lexer was reported, or a string instruction took it, or  *)
(* its line has not ended and the prefix still waits.                        *)
Waits(i)  == rep_prefix /\ \A k \in i..(pc - 1) : prog[k].op \notin {"string", "eol", "end"}
RepSeen   == \A i \in 1..Len(prog) : (i < pc /\ LonelyRep(i)) => errs \/ Waits(i)
SavedLast == status = "saved" => pc > Len(prog)
RepInv    == RepSeen /\ SavedLast

(* Statements that neither set the prefix nor use it up. *)
Calm == Label \/ Equ \/ Data \/ Str \/ Branch \/ Org \/ Align \/ Bits \/ Times

LEMMA ProgLen == ASSUME TypeOK
                 PROVE  /\ Len(prog) \in Nat \ {0} /\ pc \in Nat \ {0}
                        /\ prog[Len(prog)].op = "end"
<1>1. Len(prog) \in Nat /\ Len(prog) > 0
  BY DEF TypeOK, WellFormed
<1>2. pc \in 1..(Len(prog) + 1)
  BY DEF TypeOK
<1>3. \A i \in 1..Len(prog) : i = Len(prog) => prog[i].op = "end"
  BY DEF TypeOK, WellFormed
<1> QED
  BY <1>1, <1>2, <1>3

LEMMA CalmStep == ASSUME TypeOK, RepInv, Calm
                  PROVE  RepInv'
<1>1. prog' = prog /\ pc' = pc + 1 /\ errs' = errs /\ rep_prefix' = rep_prefix /\ status' = status
  BY DEF Calm, Label, Equ, Data, Str, Branch, Org, Align, Bits, Times, Advance, timesVars
<1>2. prog[pc].op \notin {"rep", "string", "eol", "end"} /\ status = "run"
  <2>1. CASE Branch
    BY <2>1 DEF Branch, Branches, Relative, Absolute
  <2>2. CASE Label \/ Equ \/ Data \/ Str \/ Org \/ Align \/ Bits \/ Times
    BY <2>2 DEF Label, Equ, Data, Str, Org, Align, Bits, Times, At
  <2> QED
    BY <2>1, <2>2 DEF Calm
<1>3. pc \in Nat /\ Len(prog) \in Nat
  BY ProgLen
<1>4. ASSUME NEW i \in 1..Len(prog), i < pc', LonelyRep(i)
      PROVE  errs \/ (rep_prefix /\ \A k \in i..pc : prog[k].op \notin {"string", "eol", "end"})
  <2>1. i < pc
    BY <1>1, <1>2, <1>3, <1>4 DEF LonelyRep
  <2>2. \A k \in i..pc : k = pc \/ k \in i..(pc - 1)
    BY <1>3
  <2> QED
    BY <1>2, <1>4, <2>1, <2>2 DEF RepInv, RepSeen, Waits
<1>5. pc' - 1 = pc
  BY <1>1, <1>3
<1> QED
  BY <1>1, <1>2, <1>4, <1>5 DEF RepInv, RepSeen, SavedLast, Waits, LonelyRep

LEMMA RepItself == ASSUME TypeOK, RepInv, Rep
                   PROVE  RepInv'
<1>1. pc \in Nat /\ Len(prog) \in Nat /\ prog[pc].op = "rep" /\ status = "run" /\ prog' = prog
  BY ProgLen DEF Rep, At, Advance, Stop
<1>2. CASE rep_prefix
  BY <1>1, <1>2 DEF Rep, Stop, RepInv, RepSeen, SavedLast
<1>3. CASE ~rep_prefix
  <2>1. pc' = pc + 1 /\ errs' = errs /\ rep_prefix' = TRUE /\ status' = status
    BY <1>3 DEF Rep, Advance
  <2>2. \A i \in 1..Len(prog) : (i < pc /\ LonelyRep(i)) => errs
    BY <1>3 DEF RepInv, RepSeen, Waits
  <2>3. \A i \in 1..Len(prog) : i < pc' => i < pc \/ i = pc
    BY <1>1, <2>1
  <2>4. \A k \in pc..(pc' - 1) : prog[k].op \notin {"string", "eol", "end"}
    BY <1>1, <2>1
  <2> QED
    BY <1>1, <2>1, <2>2, <2>3, <2>4 DEF RepInv, RepSeen, SavedLast, Waits, LonelyRep
<1> QED
  BY <1>2, <1>3

(* A string instruction takes the prefix of every REP that waits.            *)
LEMMA StringTakes == ASSUME TypeOK, RepInv, StringInst
                     PROVE  RepInv'
<1>1. pc \in 1..Len(prog) /\ Len(prog) \in Nat /\ prog[pc].op = "string" /\ status = "run"
  BY ProgLen DEF StringInst, At
<1>2. prog' = prog /\ pc' = pc + 1 /\ errs' = errs /\ status' = status
  BY DEF StringInst, Advance
<1>3. ASSUME NEW i \in 1..Len(prog), i < pc', LonelyRep(i)
      PROVE  errs
  <2>1. i < pc
    BY <1>1, <1>2, <1>3 DEF LonelyRep
  <2>2. SUFFICES ASSUME Waits(i) PROVE FALSE
    BY <1>3, <2>1 DEF RepInv, RepSeen
  <2>3. pc \in i..Len(prog)
    BY <1>1, <2>1
  <2>4. PICK k \in i..pc : prog[k].op = "eol"
    BY <1>1, <1>3, <2>3 DEF LonelyRep
  <2>5. k \in i..(pc - 1)
    BY <1>1, <2>1, <2>4
  <2> QED
    BY <2>2, <2>4, <2>5 DEF Waits
<1> QED
  BY <1>1, <1>2, <1>3 DEF RepInv, RepSeen, SavedLast, LonelyRep

(* At the end of a line a prefix that waits is reported. *)
LEMMA EndReports == ASSUME TypeOK, RepInv, EndLine
                    PROVE  RepInv'
<1>1. pc \in 1..Len(prog) /\ Len(prog) \in Nat /\ prog[pc].op \in {"eol", "end"} /\ status = "run"
  BY ProgLen DEF EndLine, At
<1>2. prog' = prog /\ pc' = pc + 1 /\ status' = status
  BY DEF EndLine
<1>3. rep_prefix => errs' = TRUE
  BY DEF EndLine, PendingRep, PlainLine, DropLine, RepeatLine
<1>4. errs = TRUE => errs' = TRUE
  BY DEF EndLine, PendingRep, PlainLine, DropLine, RepeatLine
<1>5. ASSUME NEW i \in 1..Len(prog), i < pc', LonelyRep(i)
      PROVE  errs' = TRUE
  <2>1. i < pc
    BY <1>1, <1>2, <1>5 DEF LonelyRep
  <2> QED
    BY <1>3, <1>4, <1>5, <2>1 DEF RepInv, RepSeen, Waits, TypeOK
<1>6. \A i \in 1..Len(prog) : LonelyRep(i)' <=> LonelyRep(i)
  BY <1>2 DEF LonelyRep
<1>7. RepSeen'
  BY <1>2, <1>5, <1>6 DEF RepSeen
<1>8. SavedLast'
  BY <1>1, <1>2 DEF SavedLast
<1> QED
  BY <1>7, <1>8 DEF RepInv

LEMMA RepStep == TypeOK /\ RepInv /\ [Next]_vars => RepInv'
<1> SUFFICES ASSUME TypeOK, RepInv, [Next]_vars PROVE RepInv'
  OBVIOUS
<1>1. CASE Undefined \/ Reject \/ BranchOutOfRange \/ BranchIllegal
  <2>1. prog' = prog /\ pc' = pc /\ errs' = TRUE /\ status' \in {"undefined", "range", "rejected"}
    BY <1>1 DEF Undefined, Reject, BranchOutOfRange, BranchIllegal, Stop
  <2> QED
    BY <2>1 DEF RepInv, RepSeen, SavedLast
<1>2. CASE NextPass
  <2>1. prog' = prog /\ pc' = 1 /\ status' = "run"
    BY <1>2 DEF NextPass, PassEnded
  <2>2. \A i \in 1..Len(prog) : ~(i < 1)
    BY ProgLen
  <2> QED
    BY <2>1, <2>2 DEF RepInv, RepSeen, SavedLast
<1>3. CASE Save \/ Crash
  <2>1. prog' = prog /\ pc' = pc /\ errs' = errs /\ rep_prefix' = rep_prefix
        /\ (status' = "saved" => pc > Len(prog))
    BY <1>3 DEF Save, Crash, PassEnded
  <2> QED
    BY <2>1 DEF RepInv, RepSeen, SavedLast, Waits, LonelyRep
<1>4. CASE Exited \/ UNCHANGED vars
  <2>1. prog' = prog /\ pc' = pc /\ errs' = errs /\ rep_prefix' = rep_prefix /\ status' = status
    BY <1>4 DEF Exited, vars
  <2> QED
    BY <2>1 DEF RepInv, RepSeen, SavedLast, Waits, LonelyRep
<1> QED
  BY <1>1, <1>2, <1>3, <1>4, CalmStep, RepItself, StringTakes, EndReports DEF Next, Statement, Calm

(* No file is saved in silence from a source with a REP left over. *)
THEOREM Reported == Spec => []RepReported
<1>1. Init => RepInv
  BY ProgAssumption DEF Init, RepInv, RepSeen, SavedLast, WellFormed
<1>2. TypeOK /\ RepInv => RepReported
  <2> SUFFICES ASSUME TypeOK, RepInv, status = "saved", ~errs, NEW i \in 1..Len(prog), LonelyRep(i)
               PROVE  FALSE
    BY DEF RepReported
  <2>1. pc \in Nat /\ Len(prog) \in Nat /\ pc > Len(prog) /\ prog[Len(prog)].op = "end"
    BY ProgLen DEF RepInv, SavedLast
  <2>2. Len(prog) \in i..(pc - 1)
    BY <2>1
  <2> QED
    BY <2>1, <2>2 DEF RepInv, RepSeen, Waits
<1> QED
  BY <1>1, <1>2, RepStep, TypeCorrect, PTL DEF Spec

-----------------------------------------------------------------------------
(* What disappears at the end of a line. *)

(* The statements that may put bytes. *)
Putting == Branches \cup {"data", "str", "align", "string"}

(* The first line of the source has no code.                               *)
BareStart(p) ==
  \A i \in 1..Len(p) : p[i].op \in Putting => \E j \in 1..(i-1) : p[j].op = "eol"

(* No line has ended in this pass. *)
FirstLine == \A i \in 1..(pc-1) : prog[i].op \notin {"eol", "end"}

(* times_count is 0 only on a line with TIMES 0 and before the first line  *)
(* has ended, when the stream is empty still.                              *)
LineInv ==
  /\ BareStart(prog)
  /\ FirstLine => size = 0
  /\ times_count = 0 /\ ~errs => FirstLine \/ Zeroed

(* A zero on the line stays on the line. *)
LEMMA ZeroedStays ==
  ASSUME TypeOK, Zeroed, prog' = prog, pc' = pc + 1, scan \subseteq scan', prog[pc].op # "eol"
  PROVE  Zeroed'
<1>1. PICK r \in scan : prog[r.at].op = "times" /\ ThisLine(r) /\ r.val % CountMod = 0
  BY DEF Zeroed
<1>2. ThisLine(r)'
  <2> SUFFICES ASSUME NEW i \in r.at..pc, prog[i].op = "eol" PROVE FALSE
    <3>1. pc \in Int /\ (pc + 1) - 1 = pc
      BY DEF TypeOK
    <3>2. QED
      BY <3>1 DEF ThisLine
  <2>1. pc \in Int /\ r.at \in Int
    BY DEF TypeOK, EntryType
  <2>2. i # pc /\ i \in r.at..(pc-1)
    BY <2>1
  <2>3. QED
    BY <1>1, <2>2 DEF ThisLine
<1>3. QED
  BY <1>1, <1>2 DEF Zeroed

(* A statement within a line neither takes code away nor leaves a zero      *)
(* behind, unless it is a TIMES 0.                                          *)
LEMMA LineGrows ==
  ASSUME TypeOK, StreamLayout, LineInv, Statement, ~EndLine, pc' = pc + 1
  PROVE  size <= size' /\ LineInv'
<1>0. /\ prog' = prog /\ pc \in 1..Len(prog) /\ Len(prog) \in Nat /\ size \in Nat
      /\ prog[pc].e \in Expr
  <2>1. prog' = prog /\ pc <= Len(prog)
    <3>1. [Next]_vars /\ ~NextPass
      BY DEF Next, NextPass, TypeOK
    <3>2. pc' # pc
      BY DEF TypeOK
    <3>3. QED
      BY <3>1, <3>2, PcMoves
  <2>2. Len(prog) \in Nat /\ pc \in 1..(Len(prog) + 1) /\ size \in Nat
    BY DEF TypeOK, WellFormed
  <2>3. QED
    BY <2>1, <2>2, StatementType
<1>1. ~(BranchOutOfRange \/ BranchIllegal \/ Undefined \/ Reject)
  BY <1>0 DEF BranchOutOfRange, BranchIllegal, Undefined, Reject, Stop
<1>2. ASSUME prog[pc].op \notin {"eol", "end"}, size' = size \/ prog[pc].op \in Putting
      PROVE  (FirstLine' <=> FirstLine) /\ (FirstLine' => size' = 0)
  <2>1. \A i \in 1..(pc' - 1) : i = pc \/ i \in 1..(pc - 1)
    BY <1>0
  <2>2. \A i \in 1..(pc - 1) : i \in 1..(pc' - 1)
    BY <1>0
  <2>3. FirstLine' <=> FirstLine
    BY <1>0, <1>2, <2>1, <2>2 DEF FirstLine
  <2>4. prog[pc].op \in Putting => ~FirstLine
    BY <1>0 DEF LineInv, BareStart, FirstLine
  <2>5. QED
    BY <1>2, <2>3, <2>4 DEF LineInv
<1>12. ASSUME size <= size', scan \subseteq scan', times_count' = times_count, errs' = errs,
              prog[pc].op \notin {"eol", "end"}, size' = size \/ prog[pc].op \in Putting
       PROVE  size <= size' /\ LineInv'
  <2>1. times_count' = 0 /\ ~errs' => FirstLine' \/ Zeroed'
    <3>1. times_count = 0 /\ ~errs => FirstLine \/ Zeroed
      BY DEF LineInv
    <3>2. Zeroed => Zeroed'
      BY <1>0, <1>12, ZeroedStays
    <3>3. QED
      BY <1>2, <1>12, <3>1, <3>2
  <2>2. QED
    BY <1>0, <1>2, <1>12, <2>1 DEF LineInv
<1>3. CASE Label \/ Equ
  <2>1. /\ size' = size /\ scan \subseteq scan' /\ times_count' = times_count /\ errs' = errs
        /\ prog[pc].op \notin {"eol", "end"}
    BY <1>3 DEF Label, Equ, Note, stmVars, timesVars, Advance, At
  <2>2. size <= size'
    BY <1>0, <2>1
  <2>3. QED
    BY <1>12, <2>1, <2>2
<1>4. ASSUME NEW len \in Nat, NEW val, NEW rel, Emit(len, val, rel)
      PROVE  size <= size' /\ scan \subseteq scan'
  <2>1. pos \in Nat
    BY DEF TypeOK
  <2>2. QED
    BY <1>0, <1>4, <2>1 DEF Emit
<1>5. CASE Data \/ Str
  <2>1. prog[pc].n \in Nat
    BY <1>0, StatementType
  <2>2. size <= size' /\ scan \subseteq scan'
    BY <1>0, <1>4, <1>5, <2>1 DEF Data, Str
  <2>3. QED
    BY <1>12, <1>5, <2>2 DEF Data, Str, timesVars, Advance, At, Putting
<1>6. CASE Branch
  <2>1. BranchLen(prog[pc].op, Operand(prog[pc].e)) \in Nat
    BY DEF BranchLen
  <2>2. size <= size' /\ scan \subseteq scan'
    BY <1>4, <1>6, <2>1 DEF Branch
  <2>3. prog[pc].op \notin {"eol", "end"} /\ prog[pc].op \in Putting
    BY <1>6 DEF Branch, Branches, Relative, Absolute, Putting
  <2>4. QED
    BY <1>12, <1>6, <2>2, <2>3 DEF Branch, timesVars, Advance
<1>7. CASE Align
  <2> DEFINE v == prog[pc].n
             w == (v - (HereAt(size, org_addr, org_ofs) % v)) % v
  <2>1. w \in Nat
    <3>1. v \in {1, 2, 4, 8, 16}
      BY <1>0, <1>7 DEF Align, At, TypeOK, WellFormed
    <3>2. HereAt(size, org_addr, org_ofs) \in Int
      BY Numbers DEF HereAt
    <3>3. \A h \in Int : \A u \in {1, 2, 4, 8, 16} : (u - (h % u)) % u \in Nat
      OBVIOUS
    <3>4. QED
      BY <3>1, <3>2, <3>3
  <2>2. Emit(w, 0, 0)
    BY <1>7 DEF Align
  <2> HIDE DEF w
  <2>3. size <= size' /\ scan \subseteq scan'
    BY <1>4, <2>1, <2>2
  <2>4. QED
    BY <1>12, <1>7, <2>3 DEF Align, timesVars, Advance, At, Putting
<1>8. CASE Org \/ Bits \/ Rep
  <2>1. /\ size' = size /\ scan \subseteq scan' /\ times_count' = times_count /\ errs' = errs
        /\ prog[pc].op \notin {"eol", "end"}
    BY <1>0, <1>8 DEF Org, Bits, Rep, Stop, stmVars, timesVars, Advance, At
  <2>2. size <= size'
    BY <1>0, <2>1
  <2>3. QED
    BY <1>12, <2>1, <2>2
<1>9. CASE StringInst
  <2>1. (IF rep_prefix THEN 2 ELSE 1) \in Nat
    OBVIOUS
  <2>2. size <= size' /\ scan \subseteq scan'
    BY <1>4, <1>9, <2>1 DEF StringInst
  <2>3. QED
    BY <1>12, <1>9, <2>2 DEF StringInst, timesVars, Advance, At, Putting
<1>10. CASE Times
  <2>1. /\ prog[pc].op = "times" /\ size' = size /\ errs' = errs
        /\ scan' = scan \cup {Entry(0, Operand(prog[pc].e), 0)}
        /\ times_count' = Operand(prog[pc].e) % CountMod
    BY <1>10 DEF Times, At, Note, stmVars, Advance
  <2>2. PICK r \in scan' : r = Entry(0, Operand(prog[pc].e), 0)
    BY <2>1
  <2>3. r.at = pc /\ r.val = Operand(prog[pc].e)
    BY <2>2 DEF Entry
  <2>4. ThisLine(r)'
    <3>1. pc' - 1 = pc /\ r.at = pc /\ pc \in Int
      BY <1>0, <2>3
    <3>2. \A i \in pc..pc : prog[i].op # "eol"
      BY <1>0, <2>1
    <3>3. ~\E i \in (r.at)..(pc' - 1) : prog'[i].op = "eol"
      BY <1>0, <3>1, <3>2
    <3>4. QED
      BY <3>3, Zenon DEF ThisLine
  <2>5. times_count' = 0 => Zeroed'
    <3>1. prog'[r.at].op = "times"
      BY <1>0, <2>1, <2>3
    <3>2. times_count' = 0 => r.val % CountMod = 0
      BY <2>1, <2>3
    <3>3. QED
      BY <2>4, <3>1, <3>2, Zenon DEF Zeroed
  <2>6. size <= size'
    BY <1>0, <2>1
  <2>7. FirstLine' => size' = 0
    BY <1>2, <2>1
  <2>8. BareStart(prog)'
    BY <1>0 DEF LineInv
  <2>9. QED
    BY <2>5, <2>6, <2>7, <2>8 DEF LineInv
<1>11. QED
  BY <1>1, <1>3, <1>5, <1>6, <1>7, <1>8, <1>9, <1>10 DEF Statement

(* The end of a line. *)
LEMMA LineCut ==
  ASSUME TypeOK, StreamLayout, LineInv, EndLine
  PROVE  LineInv' /\ (size' < size /\ ~errs => Zeroed)
<1>0. /\ prog' = prog /\ pc' = pc + 1 /\ pc \in Nat \ {0} /\ prog[pc].op \in {"eol", "end"}
      /\ size \in Nat /\ times_start \in Nat /\ times_count \in Nat /\ times_start <= size
  <2>1. pc \in Nat /\ pc >= 1
    BY DEF TypeOK
  <2>2. QED
    BY <2>1 DEF EndLine, At, TypeOK, StreamLayout
<1>1. ~FirstLine' /\ BareStart(prog)'
  <2>1. pc \in 1..(pc' - 1)
    BY <1>0
  <2>2. QED
    BY <1>0, <2>1 DEF FirstLine, LineInv
<1>2. CASE PendingRep
  BY <1>0, <1>1, <1>2 DEF PendingRep, LineInv, stmVars
<1>3. CASE PlainLine
  BY <1>0, <1>1, <1>3 DEF PlainLine, LineInv, stmVars, timesVars
<1>4. CASE DropLine
  <2>1. size' = times_start /\ times_count' = 1 /\ times_count = 0
    BY <1>4 DEF DropLine, TimesDone
  <2>2. FirstLine => size' = size
    BY <1>0, <2>1 DEF LineInv
  <2>3. size' < size /\ ~errs => Zeroed
    BY <1>0, <2>1, <2>2 DEF LineInv
  <2>4. LineInv'
    BY <1>1, <2>1 DEF LineInv
  <2>5. QED
    BY <2>3, <2>4
<1>5. CASE RepeatLine
  <2>1. times_count' = 1 /\ size' = size + CopyBytes /\ times_count > 1
    BY <1>5 DEF RepeatLine, TimesDone
  <2>2. CopyBytes \in Nat
    BY <1>0, <2>1, CopyBytesNat
  <2>3. ~(size' < size)
    BY <1>0, <2>1, <2>2
  <2>4. LineInv'
    BY <1>1, <2>1 DEF LineInv
  <2>5. QED
    BY <2>3, <2>4
<1>6. QED
  BY <1>2, <1>3, <1>4, <1>5 DEF EndLine

LEMMA LineStep ==
  ASSUME TypeOK, StreamLayout, LineInv, [Next]_vars
  PROVE  LineInv' /\ (pc' = pc + 1 /\ size' < size /\ ~errs => Zeroed)
<1>1. CASE EndLine
  BY <1>1, LineCut
<1>2. CASE Statement /\ ~EndLine /\ pc' = pc + 1
  <2>1. size <= size' /\ LineInv'
    BY <1>2, LineGrows
  <2>2. size \in Nat
    BY DEF TypeOK
  <2>3. ~(size' < size)
    <3>1. size' \in Nat
      <4>1. TypeOK'
        BY TypeStep DEF StreamLayout
      <4>2. QED
        BY <4>1 DEF TypeOK
    <3>2. QED
      BY <2>1, <2>2, <3>1
  <2>4. QED
    BY <2>1, <2>3
<1>3. CASE NextPass
  <2>1. pc > Len(prog) /\ pc' = 1 /\ size' = 0 /\ prog' = prog /\ errs' = errs
    BY <1>3 DEF NextPass, PassEnded
  <2>2. Len(prog) \in Nat /\ Len(prog) > 0
    BY DEF TypeOK, WellFormed
  <2>3. pc' # pc + 1
    BY <2>1, <2>2 DEF TypeOK
  <2>4. BareStart(prog)' /\ FirstLine'
    BY <2>1 DEF LineInv, FirstLine
  <2>5. QED
    BY <2>1, <2>3, <2>4 DEF LineInv
<1>4. CASE Statement /\ ~EndLine /\ pc' # pc + 1
  <2>1. BranchOutOfRange \/ BranchIllegal \/ Undefined \/ Reject \/ (Rep /\ Stop("rejected"))
    BY <1>4 DEF Statement, Label, Equ, Data, Str, Branch, Org, Align, Bits, Times, Rep,
                StringInst, Advance
  <2>2. prog' = prog /\ pc' = pc /\ size' = size /\ times_count' = times_count /\ errs' = TRUE
    BY <2>1 DEF BranchOutOfRange, BranchIllegal, Undefined, Reject, Stop, stmVars, timesVars
  <2>3. (FirstLine' <=> FirstLine) /\ BareStart(prog)'
    BY <2>2 DEF FirstLine, LineInv
  <2>4. QED
    BY <1>4, <2>2, <2>3 DEF LineInv
<1>5. CASE Save \/ Crash \/ Exited \/ UNCHANGED vars
  <2>1. /\ prog' = prog /\ pc' = pc /\ size' = size /\ times_count' = times_count /\ errs' = errs
        /\ scan' = scan
    BY <1>5 DEF Save, Crash, Exited, vars, stmVars, timesVars
  <2>2. Zeroed' <=> Zeroed
    BY <2>1 DEF Zeroed, ThisLine
  <2>3. pc' # pc + 1
    BY <2>1 DEF TypeOK
  <2>4. (FirstLine' <=> FirstLine) /\ BareStart(prog)'
    BY <2>1 DEF FirstLine, LineInv
  <2>5. QED
    BY <2>1, <2>2, <2>3, <2>4 DEF LineInv
<1>6. QED
  BY <1>1, <1>2, <1>3, <1>4, <1>5 DEF Next

(* Where the first line has no code, code disappears at the end of a line  *)
(* only when the line asked for it with TIMES 0, or after an error.        *)
THEOREM CutsOnlyByTimes0 ==
  ASSUME \A p \in Programs : BareStart(p)
  PROVE  Spec => CutOnlyByTimes0
<1>1. Init => LineInv
  BY DEF Init, LineInv, FirstLine
<1>2. TypeOK /\ StreamLayout /\ LineInv /\ [Next]_vars
        => LineInv' /\ [pc' = pc + 1 /\ size' < size /\ ~errs => Zeroed]_vars
  BY LineStep
<1>3. QED
  BY <1>1, <1>2, TypeCorrect, PTL DEF Spec, CutOnlyByTimes0

-----------------------------------------------------------------------------
(* Padding. *)

(* No code and no label stands before an ORG: the file has one section.    *)
OneOrg(p) ==
  \A i, j \in 1..Len(p) : i < j /\ p[j].op = "org" => p[i].op \notin Putting \cup {"label"}

(* No TIMES counts beyond the width of times_count.                        *)
CountsFit == \A r \in scan : prog[r.at].op = "times" => r.val < CountMod

(* Code and labels all have one origin.                                    *)
Fresh == \A i \in 1..(pc-1) : prog[i].op \notin Putting \cup {"label"}

Origin ==
  /\ org_ofs = 0 /\ code_start = org_addr
  /\ Fresh => size = 0

(* The labels of this pass are in the table. *)
LabelIn(m) ==
  prog[m.at].op = "label" =>
    /\ m.val = m.ofs + org_addr
    /\ prog[m.at].s \in DOMAIN sym /\ sym[prog[m.at].s] = m.val

LabelsIn == \A m \in scan : m.at < pc /\ LabelIn(m)

(* val copies from times_start on lead to where the TIMES with operand e    *)
(* wants to get.                                                           *)
LeadsTo(e, val) ==
  e.neg = Dollar =>
    /\ e.pos = DDollar => times_start + val = e.c
    /\ \A m \in scan :
         prog[m.at].op = "label" /\ prog[m.at].s = e.pos => times_start + val = m.ofs + e.c

Counted(i) ==
  \A r \in scan : r.at = i => r.val % CountMod = times_count /\ LeadsTo(prog[i].e, r.val)

(* What is known on a line with a TIMES and one byte, as far as it goes.   *)
BeginsAt(i) == i > 0 /\ prog[i].op = "eol"

TimesFirst == BeginsAt(pc - 2) /\ prog[pc-1].op = "times"
ByteSecond ==
  /\ BeginsAt(pc - 3) /\ prog[pc-2].op = "times"
  /\ prog[pc-1].op = "data" /\ prog[pc-1].n = 1

PadInv ==
  /\ OneOrg(prog) /\ DefinedOnce(prog)
  /\ Origin /\ LabelsIn
  /\ BeginsAt(pc - 1) => ~rep_prefix
  /\ TimesFirst => ~rep_prefix /\ times_start = size /\ Counted(pc - 1)
  /\ ByteSecond => ~rep_prefix /\ (intact => size = times_start + 1) /\ Counted(pc - 2)

LEMMA PadFacts ==
  ASSUME TypeOK
  PROVE  /\ Len(prog) \in Nat /\ pc \in 1..(Len(prog) + 1) /\ pc \in Nat
         /\ size \in Nat /\ pos \in Nat /\ org_addr \in Nat /\ org_ofs \in Nat
         /\ times_start \in Nat /\ times_count \in Nat
  BY ProgLen DEF TypeOK

(* A statement that defines nothing leaves the labels in the table.        *)
LEMMA LabelsStay ==
  ASSUME TypeOK, LabelsIn, prog' = prog, pc' = pc + 1, sym' = sym, org_addr' = org_addr,
         prog[pc].op # "label", \A r \in scan' : r \in scan \/ r.at = pc
  PROVE  LabelsIn'
<1> SUFFICES ASSUME NEW m \in scan' PROVE m.at < pc' /\ LabelIn(m)'
  BY DEF LabelsIn
<1>1. CASE m.at = pc
  BY <1>1, PadFacts DEF LabelIn
<1>2. CASE m \in scan
  <2>1. m.at < pc /\ LabelIn(m) /\ m.at \in Nat
    BY <1>2 DEF LabelsIn, TypeOK, EntryType
  <2>2. LabelIn(m)'
    BY <2>1 DEF LabelIn
  <2>3. QED
    BY <2>1, <2>2, PadFacts
<1>3. QED
  BY <1>1, <1>2

(* A definition enters its own name and, where no name is defined twice,   *)
(* leaves the labels before it alone.                                      *)
LEMMA LabelsEnter ==
  ASSUME TypeOK, LabelsIn, DefinedOnce(prog), pc <= Len(prog), prog' = prog, pc' = pc + 1,
         org_addr' = org_addr, prog[pc].op \in Defining,
         NEW val, sym' = [x \in DOMAIN sym \cup {prog[pc].s} |-> IF x = prog[pc].s THEN val ELSE sym[x]],
         scan' = scan \cup {Entry(0, val, 0)},
         prog[pc].op = "label" => val = size + org_addr
  PROVE  LabelsIn'
<1> SUFFICES ASSUME NEW m \in scan' PROVE m.at < pc' /\ LabelIn(m)'
  BY DEF LabelsIn
<1>1. CASE m \in scan
  <2>1. m.at < pc /\ LabelIn(m) /\ m.at \in 1..Len(prog) /\ pc \in 1..Len(prog)
    BY <1>1, PadFacts DEF LabelsIn, TypeOK
  <2>2. prog[m.at].op = "label" => prog[m.at].s # prog[pc].s
    BY <2>1 DEF DefinedOnce, Defining
  <2>3. LabelIn(m)'
    BY <2>1, <2>2 DEF LabelIn
  <2>4. QED
    BY <2>1, <2>3, PadFacts
<1>2. CASE m = Entry(0, val, 0)
  <2>1. m.at = pc /\ m.val = val /\ m.ofs = size
    BY <1>2 DEF Entry
  <2>2. LabelIn(m)'
    BY <2>1 DEF LabelIn
  <2>3. QED
    BY <2>1, <2>2, PadFacts
<1>3. QED
  BY <1>1, <1>2

(* The origin stays where it is, and the stream stays empty up to the      *)
(* first statement that may put a byte.                                    *)
LEMMA OriginStays ==
  ASSUME TypeOK, Origin, pc <= Len(prog), prog' = prog, pc' = pc + 1,
         UNCHANGED orgVars, size' = size \/ prog[pc].op \in Putting
  PROVE  Origin'
<1>1. pc \in 1..(pc' - 1) /\ \A i \in 1..(pc - 1) : i \in 1..(pc' - 1)
  BY PadFacts
<1>2. Fresh' => Fresh /\ prog[pc].op \notin Putting
  BY <1>1 DEF Fresh
<1>3. QED
  BY <1>2 DEF Origin, orgVars

(* Statements that are not part of a line that pads. *)
LEMMA OtherLines ==
  ASSUME TypeOK, PadInv, prog' = prog, pc' = pc + 1,
         prog[pc].op \notin {"eol", "times", "data"}, Origin', LabelsIn'
  PROVE  PadInv'
<1>1. pc' - 1 = pc
  BY PadFacts
<1>2. ~BeginsAt(pc - 1)' /\ ~TimesFirst' /\ ~ByteSecond'
  BY <1>1 DEF BeginsAt, TimesFirst, ByteSecond
<1>3. QED
  BY <1>2 DEF PadInv

LEMMA PadOrg ==
  ASSUME TypeOK, PadInv, Org
  PROVE  PadInv'
<1>1. /\ prog' = prog /\ pc' = pc + 1 /\ pc <= Len(prog) /\ prog[pc].op = "org"
      /\ size' = size /\ scan' = scan /\ sym' = sym
      /\ org_addr' = prog[pc].n /\ org_ofs' = size
      /\ code_start' = IF size = 0 THEN prog[pc].n ELSE code_start
  BY DEF Org, At, Advance, stmVars
<1>2. pc \in 1..Len(prog) /\ pc \in Nat /\ pc' - 1 = pc
  BY <1>1, PadFacts
<1>3. Fresh
  <2> SUFFICES ASSUME NEW i \in 1..(pc-1) PROVE prog[i].op \notin Putting \cup {"label"}
    BY DEF Fresh
  <2>1. i \in 1..Len(prog) /\ i < pc
    BY <1>2
  <2>2. QED
    BY <1>1, <1>2, <2>1 DEF PadInv, OneOrg
<1>4. size = 0
  BY <1>3 DEF PadInv, Origin
<1>5. Origin'
  BY <1>1, <1>4 DEF Origin
<1>6. LabelsIn'
  <2> SUFFICES ASSUME NEW m \in scan PROVE m.at < pc' /\ LabelIn(m)'
    BY <1>1 DEF LabelsIn
  <2>1. m.at < pc /\ m.at \in 1..Len(prog)
    BY DEF PadInv, LabelsIn, TypeOK
  <2>2. prog[m.at].op # "label"
    BY <1>2, <1>3, <2>1 DEF Fresh
  <2>3. QED
    BY <1>1, <1>2, <2>1, <2>2 DEF LabelIn
<1>7. QED
  BY <1>1, <1>5, <1>6, OtherLines

LEMMA PadDefine ==
  ASSUME TypeOK, PadInv, Label \/ Equ
  PROVE  PadInv'
<1>0. Origin /\ LabelsIn /\ DefinedOnce(prog) /\ org_ofs = 0
  BY DEF PadInv, Origin
<1>1. /\ prog' = prog /\ pc' = pc + 1 /\ pc <= Len(prog) /\ prog[pc].op \in Defining
      /\ size' = size /\ org_addr' = org_addr /\ UNCHANGED orgVars
  BY DEF Label, Equ, At, Advance, Note, stmVars, Defining, orgVars
<1>2. Origin'
  BY <1>0, <1>1, OriginStays
<1>3. CASE Label
  <2> DEFINE val == size + org_addr + org_ofs
  <2>1. EnsureSymbol(prog[pc].s, val, FALSE) /\ scan' = scan \cup {Entry(0, val, 0)}
    BY <1>3 DEF Label, Note
  <2>2. val = size + org_addr
    BY <1>0, PadFacts
  <2>3. LabelsIn'
    <3> HIDE DEF val
    <3>1. sym' = [x \in DOMAIN sym \cup {prog[pc].s} |-> IF x = prog[pc].s THEN val ELSE sym[x]]
      BY <2>1 DEF EnsureSymbol
    <3>2. QED
      BY <1>0, <1>1, <2>1, <2>2, <3>1, LabelsEnter
  <2>4. QED
    BY <1>1, <1>2, <2>3, OtherLines DEF Defining
<1>4. CASE Equ
  <2> DEFINE val == Operand(prog[pc].e)
  <2>1. /\ EnsureSymbol(prog[pc].s, val, ~Resolved(prog[pc].e))
        /\ scan' = scan \cup {Entry(0, val, 0)} /\ prog[pc].op = "equ"
    BY <1>4 DEF Equ, Note, At
  <2>2. LabelsIn'
    <3> HIDE DEF val
    <3>1. sym' = [x \in DOMAIN sym \cup {prog[pc].s} |-> IF x = prog[pc].s THEN val ELSE sym[x]]
      BY <2>1 DEF EnsureSymbol
    <3>2. QED
      BY <1>0, <1>1, <2>1, <3>1, LabelsEnter
  <2>3. QED
    BY <1>1, <1>2, <2>2, OtherLines DEF Defining
<1>5. QED
  BY <1>3, <1>4

LEMMA PadOther ==
  ASSUME TypeOK, PadInv, Str \/ Branch \/ Align \/ Bits \/ (Rep /\ pc' # pc) \/ StringInst
  PROVE  PadInv'
<1>1. /\ prog' = prog /\ pc' = pc + 1 /\ pc <= Len(prog)
      /\ prog[pc].op \notin {"eol", "times", "data", "label"}
      /\ UNCHANGED orgVars /\ org_addr' = org_addr /\ sym' = sym
      /\ size' = size \/ prog[pc].op \in Putting
  <2>1. CASE Str \/ Align \/ StringInst
    BY <2>1 DEF Str, Align, StringInst, At, Advance, Putting, orgVars
  <2>2. CASE Branch
    BY <2>2 DEF Branch, Branches, Relative, Absolute, Advance, Putting, orgVars
  <2>3. CASE Bits \/ (Rep /\ pc' # pc)
    BY <2>3 DEF Bits, Rep, Stop, At, Advance, orgVars, stmVars
  <2>4. QED
    BY <2>1, <2>2, <2>3
<1>2. \A r \in scan' : r \in scan \/ r.at = pc
  BY DEF Str, Branch, Align, Bits, Rep, StringInst, Stop, Emit, Entry
<1>3. Origin'
  BY <1>1, OriginStays DEF PadInv
<1>4. LabelsIn'
  BY <1>1, <1>2, LabelsStay DEF PadInv
<1>5. QED
  BY <1>1, <1>3, <1>4, OtherLines

(* What TIMES counts: c-($-$$) up to the size c, c-($-label) up to c bytes *)
(* behind the label.                                                       *)
LEMMA PadValue ==
  ASSUME TypeOK, Origin, LabelsIn, NEW e \in Expr, e.neg = Dollar
  PROVE  /\ e.pos = DDollar => size + Operand(e) = e.c
         /\ \A m \in scan :
              prog[m.at].op = "label" /\ prog[m.at].s = e.pos => size + Operand(e) = m.ofs + e.c
<1>1. /\ size \in Int /\ org_addr \in Int /\ code_start = org_addr /\ e.c \in Int
      /\ HereAt(size, org_addr, org_ofs) = size + org_addr
  BY PadFacts DEF Origin, HereAt, Expr
<1>2. AtomVal(e.neg, sym, HereAt(size, org_addr, org_ofs), code_start, Placeholder) = size + org_addr
  <2>1. AtomVal(e.neg, sym, HereAt(size, org_addr, org_ofs), code_start, Placeholder)
          = HereAt(size, org_addr, org_ofs)
    BY DEF AtomVal, Dollar, DDollar, Nothing
  <2>2. QED
    BY <1>1, <2>1
<1>3. ASSUME NEW a \in Int,
             AtomVal(e.pos, sym, HereAt(size, org_addr, org_ofs), code_start, Placeholder) = a + org_addr
      PROVE  size + Operand(e) = a + e.c
  <2>1. Operand(e) = e.c + (a + org_addr) - (size + org_addr)
    BY <1>2, <1>3, Zenon DEF Operand, Value
  <2>2. QED
    BY <1>1, <1>3, <2>1
<1>4. ASSUME e.pos = DDollar
      PROVE  size + Operand(e) = e.c
  <2>1. AtomVal(e.pos, sym, HereAt(size, org_addr, org_ofs), code_start, Placeholder) = 0 + org_addr
    BY <1>1, <1>4 DEF AtomVal, DDollar, Dollar, Nothing
  <2>2. size + Operand(e) = 0 + e.c
    BY <1>3, <2>1
  <2>3. QED
    BY <1>1, <2>2
<1>5. ASSUME NEW m \in scan, prog[m.at].op = "label", prog[m.at].s = e.pos
      PROVE  size + Operand(e) = m.ofs + e.c
  <2>1. /\ m.val = m.ofs + org_addr /\ m.ofs \in Int
        /\ e.pos \in DOMAIN sym /\ sym[e.pos] = m.val
    <3>1. m \in EntryType
      BY DEF TypeOK
    <3>2. m.ofs \in Int
      BY <3>1 DEF EntryType
    <3>3. LabelIn(m)
      BY DEF LabelsIn
    <3>4. QED
      BY <1>5, <3>2, <3>3 DEF LabelIn
  <2>2. e.pos \notin {Dollar, DDollar, Nothing}
    BY <2>1, SymsAssumption DEF TypeOK
  <2>3. AtomVal(e.pos, sym, HereAt(size, org_addr, org_ofs), code_start, Placeholder) = m.ofs + org_addr
    BY <2>1, <2>2 DEF AtomVal
  <2>4. QED
    BY <1>3, <2>1, <2>3
<1>6. QED
  BY <1>4, <1>5

LEMMA PadTimes ==
  ASSUME TypeOK, PadInv, Times
  PROVE  PadInv'
<1>1. PICK v : v = Operand(prog[pc].e)
  OBVIOUS
<1>2. /\ prog' = prog /\ pc' = pc + 1 /\ pc <= Len(prog) /\ prog[pc].op = "times"
      /\ size' = size /\ sym' = sym /\ UNCHANGED orgVars /\ org_addr' = org_addr
      /\ rep_prefix' = rep_prefix /\ times_start' = size /\ times_count' = v % CountMod
      /\ scan' = scan \cup {Entry(0, v, 0)}
  BY <1>1 DEF Times, At, Advance, Note, stmVars, orgVars
<1>3. pc' - 1 = pc /\ pc' - 2 = pc - 1 /\ pc \in Nat
  BY <1>2, PadFacts
<1>4. \A r \in scan' : r \in scan \/ (r.at = pc /\ r.val = v)
  BY <1>2 DEF Entry
<1>5. Origin' /\ LabelsIn'
  BY <1>2, <1>4, OriginStays, LabelsStay DEF PadInv
<1>e. PICK e \in Expr : e = prog[pc].e
  BY <1>2, StatementType
<1>6. LeadsTo(e, v)'
  <2>1. \A m \in scan' : prog[m.at].op = "label" => m \in scan
    BY <1>2, <1>4
  <2>2. e.neg = Dollar =>
          /\ e.pos = DDollar => size + v = e.c
          /\ \A m \in scan' :
               prog[m.at].op = "label" /\ prog[m.at].s = e.pos => size + v = m.ofs + e.c
    BY <1>1, <1>e, <2>1, PadValue DEF PadInv
  <2>3. QED
    BY <1>2, <2>2, Zenon DEF LeadsTo
<1>7. Counted(pc - 1)'
  <2> SUFFICES ASSUME NEW r \in scan', r.at = pc
               PROVE  r.val % CountMod = times_count' /\ LeadsTo(e, r.val)'
    BY <1>2, <1>3, <1>e, Zenon DEF Counted
  <2>1. r \notin scan
    BY <1>3 DEF PadInv, LabelsIn
  <2>2. r.val = v
    BY <1>4, <2>1
  <2>3. QED
    BY <1>2, <1>6, <2>2
<1>8. ~BeginsAt(pc - 1)' /\ ~ByteSecond'
  BY <1>2, <1>3 DEF BeginsAt, ByteSecond
<1>9. TimesFirst' => ~rep_prefix'
  BY <1>2, <1>3 DEF TimesFirst, BeginsAt, PadInv
<1>10. QED
  BY <1>2, <1>5, <1>7, <1>8, <1>9 DEF PadInv

LEMMA PadData ==
  ASSUME TypeOK, StreamLayout, PadInv, Data
  PROVE  PadInv'
<1>1. PICK v : v = Operand(prog[pc].e)
  OBVIOUS
<1>2. /\ prog' = prog /\ pc' = pc + 1 /\ pc <= Len(prog) /\ prog[pc].op = "data"
      /\ sym' = sym /\ UNCHANGED orgVars /\ org_addr' = org_addr
      /\ rep_prefix' = rep_prefix /\ times_start' = times_start /\ times_count' = times_count
      /\ scan' = scan \cup {Entry(prog[pc].n, v, 0)} /\ intact' = intact
      /\ size' = IF size < pos + prog[pc].n THEN pos + prog[pc].n ELSE size
  BY <1>1 DEF Data, Emit, At, Advance, timesVars, orgVars
<1>3. /\ pc' - 1 = pc /\ pc' - 2 = pc - 1 /\ pc' - 3 = pc - 2
      /\ pc \in Nat /\ pos \in Nat /\ size \in Nat
  BY <1>2, PadFacts
<1>4. \A r \in scan' : r \in scan \/ r.at = pc
  BY <1>2 DEF Entry
<1>5. Origin' /\ LabelsIn'
  BY <1>2, <1>4, OriginStays, LabelsStay DEF PadInv, Putting
<1>6. ~BeginsAt(pc - 1)' /\ ~TimesFirst'
  BY <1>2, <1>3 DEF BeginsAt, TimesFirst
<1>7. ASSUME ByteSecond'
      PROVE  ~rep_prefix' /\ (intact' => size' = times_start' + 1) /\ Counted(pc - 2)'
  <2>1. TimesFirst /\ prog[pc].n = 1
    BY <1>2, <1>3, <1>7 DEF ByteSecond, TimesFirst, BeginsAt
  <2>2. ~rep_prefix /\ times_start = size /\ Counted(pc - 1)
    BY <2>1 DEF PadInv
  <2>3. intact => size' = size + 1
    BY <1>2, <1>3, <2>1 DEF StreamLayout
  <2>4. PICK e : e = prog[pc-1].e
    OBVIOUS
  <2>5. ASSUME NEW r \in scan', r.at = pc - 1
        PROVE  r.val % CountMod = times_count' /\ LeadsTo(e, r.val)'
    <3>1. r \in scan
      BY <1>3, <1>4, <2>5
    <3>2. r.val % CountMod = times_count /\ LeadsTo(e, r.val)
      BY <2>2, <2>4, <2>5, <3>1 DEF Counted
    <3>3. \A m \in scan' : prog[m.at].op = "label" => m \in scan
      BY <1>2, <1>4
    <3>4. LeadsTo(e, r.val)'
      BY <1>2, <3>2, <3>3 DEF LeadsTo
    <3>5. QED
      BY <1>2, <3>2, <3>4
  <2>6. Counted(pc - 2)'
    BY <1>2, <1>3, <2>4, <2>5, Zenon DEF Counted
  <2>7. QED
    BY <1>2, <2>2, <2>3, <2>6
<1>8. QED
  BY <1>2, <1>5, <1>6, <1>7 DEF PadInv

(* The end of a line: a line that repeats nothing stays empty.             *)
LEMMA PadEnd ==
  ASSUME TypeOK, StreamLayout, PadInv, EndLine
  PROVE  PadInv'
<1>1. /\ prog' = prog /\ pc' = pc + 1 /\ pc <= Len(prog) /\ prog[pc].op \in {"eol", "end"}
      /\ sym' = sym /\ UNCHANGED orgVars /\ org_addr' = org_addr /\ rep_prefix' = FALSE
      /\ scan' \subseteq scan
  BY DEF EndLine, PendingRep, PlainLine, DropLine, RepeatLine, Discard, At, orgVars
<1>2. size = 0 => size' = 0
  <2>1. times_start \in Nat /\ times_count \in Nat /\ times_start <= size
    BY PadFacts DEF StreamLayout
  <2>2. size = 0 => CopyBytes = 0
    <3>1. size = 0 => times_start = 0
      BY <2>1
    <3>2. \A k \in Int : (0 - 0) * k = 0
      OBVIOUS
    <3>3. times_count - 1 \in Int
      BY <2>1
    <3>4. QED
      BY <3>1, <3>2, <3>3 DEF CopyBytes
  <2>3. QED
    BY <2>1, <2>2 DEF EndLine, PendingRep, PlainLine, DropLine, RepeatLine, stmVars
<1>3. pc' - 1 = pc /\ pc \in Nat /\ pc \in 1..(pc' - 1) /\ \A i \in 1..(pc - 1) : i \in 1..(pc' - 1)
  BY <1>1, PadFacts
<1>4. Origin'
  <2>1. Fresh' => Fresh
    BY <1>1, <1>3 DEF Fresh
  <2>2. QED
    BY <1>1, <1>2, <2>1 DEF PadInv, Origin, orgVars
<1>5. LabelsIn'
  BY <1>1, LabelsStay DEF PadInv
<1>6. ~TimesFirst' /\ ~ByteSecond'
  BY <1>1, <1>3 DEF TimesFirst, ByteSecond
<1>7. QED
  BY <1>1, <1>4, <1>5, <1>6 DEF PadInv

LEMMA PadStep ==
  ASSUME TypeOK, StreamLayout, PadInv, [Next]_vars
  PROVE  PadInv'
<1>1. CASE Label \/ Equ
  BY <1>1, PadDefine
<1>2. CASE Str \/ Branch \/ Align \/ Bits \/ (Rep /\ pc' # pc) \/ StringInst
  BY <1>2, PadOther
<1>3. CASE Org
  BY <1>3, PadOrg
<1>4. CASE Times
  BY <1>4, PadTimes
<1>5. CASE Data
  BY <1>5, PadData
<1>6. CASE EndLine
  BY <1>6, PadEnd
<1>7. CASE NextPass
  <2>1. /\ prog' = prog /\ pc' = 1 /\ size' = 0 /\ org_addr' = 0 /\ org_ofs' = 0
        /\ code_start' = 0 /\ scan' = {}
    BY <1>7 DEF NextPass
  <2>2. Origin' /\ LabelsIn'
    BY <2>1 DEF Origin, LabelsIn
  <2>3. ~BeginsAt(pc - 1)' /\ ~TimesFirst' /\ ~ByteSecond'
    BY <2>1 DEF BeginsAt, TimesFirst, ByteSecond
  <2>4. QED
    BY <2>1, <2>2, <2>3 DEF PadInv
<1>8. CASE \/ BranchOutOfRange \/ BranchIllegal \/ Undefined \/ Reject \/ (Rep /\ ~(pc' # pc))
           \/ Save \/ Crash \/ Exited \/ UNCHANGED vars
  <2>1. /\ prog' = prog /\ pc' = pc /\ size' = size /\ sym' = sym /\ org_addr' = org_addr
        /\ org_ofs' = org_ofs /\ code_start' = code_start /\ times_start' = times_start
        /\ times_count' = times_count /\ rep_prefix' = rep_prefix /\ scan' = scan
        /\ intact' = intact
    <3>1. CASE Rep /\ ~(pc' # pc)
      <4>1. pc' # pc + 1
        BY <3>1, PadFacts
      <4>2. QED
        BY <3>1, <4>1 DEF Rep, Stop, Advance, stmVars, orgVars, timesVars
    <3>2. CASE BranchOutOfRange \/ BranchIllegal \/ Undefined \/ Reject
      BY <3>2 DEF BranchOutOfRange, BranchIllegal, Undefined, Reject, Stop, stmVars, orgVars,
                  timesVars
    <3>3. CASE Save \/ Crash \/ Exited \/ UNCHANGED vars
      BY <3>3 DEF Save, Crash, Exited, vars, stmVars, orgVars, timesVars
    <3>4. QED
      BY <1>8, <3>1, <3>2, <3>3
  <2>2. Origin' /\ LabelsIn'
    BY <2>1 DEF PadInv, Origin, Fresh, LabelsIn, LabelIn
  <2>3. \A i : Counted(i)' <=> Counted(i)
    BY <2>1 DEF Counted, LeadsTo
  <2>4. /\ BeginsAt(pc - 1)' <=> BeginsAt(pc - 1)
        /\ TimesFirst' <=> TimesFirst
        /\ ByteSecond' <=> ByteSecond
    BY <2>1 DEF BeginsAt, TimesFirst, ByteSecond
  <2>5. Counted(pc - 1)' <=> Counted(pc - 1)
    BY <2>1 DEF Counted, LeadsTo
  <2>6. Counted(pc - 2)' <=> Counted(pc - 2)
    BY <2>1 DEF Counted, LeadsTo
  <2>7. QED
    BY <2>1, <2>2, <2>4, <2>5, <2>6 DEF PadInv
<1>9. QED
  BY <1>1, <1>2, <1>3, <1>4, <1>5, <1>6, <1>7, <1>8 DEF Next, Statement

(* The step that ends a line of padding gets to where its TIMES wants.     *)
LEMMA PadEnds ==
  ASSUME TypeOK, PadInv, intact, CountsFit, [Next]_vars, Padding
  PROVE  Padded
<1>1. /\ pc <= Len(prog) /\ pc' = pc + 1 /\ pc > 3 /\ pc \in Nat /\ prog[pc].op = "eol"
      /\ prog[pc-3].op = "eol" /\ prog[pc-2].op = "times" /\ prog[pc-2].e.neg = Dollar
      /\ prog[pc-1].op = "data" /\ prog[pc-1].n = 1
  BY PadFacts DEF Padding, PadLine
<1>2. EndLine
  <2>1. ~UNCHANGED vars /\ ~NextPass /\ ~Save /\ ~Crash /\ ~Exited
    BY <1>1 DEF vars, NextPass, Save, Crash, Exited
  <2>2. ~(BranchOutOfRange \/ BranchIllegal \/ Undefined \/ Reject)
    BY <1>1 DEF BranchOutOfRange, BranchIllegal, Undefined, Reject, Stop
  <2>3. ~(Label \/ Equ \/ Data \/ Str \/ Org \/ Align \/ Bits \/ Times \/ Rep \/ StringInst)
    BY <1>1 DEF Label, Equ, Data, Str, Org, Align, Bits, Times, Rep, StringInst, At
  <2>4. ~Branch
    BY <1>1 DEF Branch, Branches, Relative, Absolute
  <2>5. QED
    BY <2>1, <2>2, <2>3, <2>4 DEF Next, Statement
<1>3. PICK r \in scan : r.at = pc - 2 /\ r.val >= 0
  BY DEF Padding
<1>4. ByteSecond
  BY <1>1 DEF ByteSecond, BeginsAt
<1>5. ~rep_prefix /\ size = times_start + 1 /\ Counted(pc - 2)
  BY <1>4 DEF PadInv
<1>6. r.val % CountMod = times_count /\ LeadsTo(prog[pc-2].e, r.val)
  BY <1>3, <1>5 DEF Counted
<1>7. r.val \in Nat /\ r.val < CountMod /\ times_start \in Nat /\ times_count \in Nat
  <2>1. r \in EntryType
    BY DEF TypeOK
  <2>2. r.val \in Int
    BY <2>1 DEF EntryType
  <2>3. r.val < CountMod
    BY <1>1, <1>3 DEF CountsFit
  <2>4. QED
    BY <1>3, <2>2, <2>3, PadFacts
<1>8. times_count = r.val
  BY <1>6, <1>7, BoundAssumption
<1>9. size' = times_start + times_count
  <2>1. CASE DropLine
    BY <1>7, <2>1 DEF DropLine
  <2>2. CASE PlainLine
    BY <1>5, <1>7, <2>2 DEF PlainLine, stmVars
  <2>3. CASE RepeatLine
    <3>1. CopyBytes = times_count - 1
      <4>1. size - times_start = 1
        BY <1>5, <1>7
      <4>2. \A k \in Int : 1 * k = k
        OBVIOUS
      <4>3. QED
        BY <1>7, <4>1, <4>2 DEF CopyBytes
    <3>2. QED
      BY <1>5, <1>7, <2>3, <3>1 DEF RepeatLine
  <2>4. QED
    BY <1>2, <1>5, <2>1, <2>2, <2>3 DEF EndLine, PendingRep
<1>10. QED
  BY <1>1, <1>6, <1>8, <1>9 DEF Padded, LeadsTo

(* In a source with one section whose names are defined once, TIMES pads   *)
(* to exactly the size it asks for, as long as no byte is lost and no      *)
(* count is beyond times_count.                                            *)
THEOREM PadsExactly ==
  ASSUME \A p \in Programs : OneOrg(p) /\ DefinedOnce(p)
  PROVE  Spec /\ [](intact /\ CountsFit) => PadsToSize
<1>1. Init => PadInv
  <2> SUFFICES ASSUME Init PROVE PadInv
    OBVIOUS
  <2>1. pc = 1 /\ size = 0 /\ org_addr = 0 /\ org_ofs = 0 /\ code_start = 0 /\ scan = {}
        /\ OneOrg(prog) /\ DefinedOnce(prog)
    BY DEF Init
  <2>2. ~BeginsAt(pc - 1) /\ ~TimesFirst /\ ~ByteSecond
    BY <2>1 DEF BeginsAt, TimesFirst, ByteSecond
  <2>3. QED
    BY <2>1, <2>2 DEF PadInv, Origin, LabelsIn
<1>2. TypeOK /\ StreamLayout /\ PadInv /\ [Next]_vars => PadInv'
  BY PadStep
<1>3. TypeOK /\ PadInv /\ (intact /\ CountsFit) /\ [Next]_vars => [Padding => Padded]_vars
  BY PadEnds
<1>4. QED
  BY <1>1, <1>2, <1>3, TypeCorrect, PTL DEF Spec, PadsToSize
=============================================================================

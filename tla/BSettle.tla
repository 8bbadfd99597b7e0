------------------------------ MODULE BSettle -------------------------------
(***************************************************************************)
(* How many passes a source needs.  One pass of BPass, as a function of    *)
(* the source, for the sources in which no length depends on a name that   *)
(* comes later.  Nothing here is a step of the assembler: these are the    *)
(* terms in which BSettle_proofs says when the loop of bctx_start ends.    *)
(***************************************************************************)
EXTENDS BPass

(* The names defined before statement i, and the names statement i uses.   *)
Before(p, i) == {p[j].s : j \in {k \in 1..(i-1) : p[k].op \in Defining}}
Uses(p, i) == IF p[i].op \in ExprOps THEN Names(p[i].e) ELSE {}

(* Every name that is used is defined; it is defined further up.           *)
AllDefined(p)  == \A i \in 1..Len(p) : Uses(p, i) \subseteq Before(p, Len(p) + 1)
LooksBack(p)   == \A i \in 1..Len(p) : Uses(p, i) \subseteq Before(p, i)

(* The statements whose length depends on a value: TIMES, and JMP and Jcc  *)
(* without SHORT or NEAR.                                                  *)
Elastic == {"times", "jmp", "jcc"}

(* A rank for every name: the number of passes, after the first, that its  *)
(* value may take to become right.  A label has rank 0.  An EQU needs as   *)
(* many as any name further up that it uses, and one more than any name it *)
(* uses that is still to come.  Lengths depend on names of rank 0 further  *)
(* up only.                                                                *)
Ranked(p, rank) ==
  \A i \in 1..Len(p) :
    /\ p[i].op = "label" => rank[p[i].s] = 0
    /\ p[i].op = "equ" =>
         \A n \in Names(p[i].e) :
           /\ rank[n] <= rank[p[i].s]
           /\ n \notin Before(p, i) => rank[n] < rank[p[i].s]
    /\ p[i].op \in Elastic =>
         \A n \in Names(p[i].e) : n \in Before(p, i) /\ rank[n] = 0

-----------------------------------------------------------------------------
(* One pass.  What a pass knows at a statement: how far the stream is, the *)
(* mode, the origins, the pending TIMES and REP, and the values of names.  *)
Place == [size : Nat, mode : {16, 32, 64}, org : Nat, base : Nat, start : Nat,
          from : Nat, count : Nat, rep : BOOLEAN, tab : [Syms -> Int]]
Places == {l \in Place : l.from <= l.size}

Top == [size |-> 0, mode |-> 32, org |-> 0, base |-> 0, start |-> 0,
        from |-> 0, count |-> 0, rep |-> FALSE, tab |-> [s \in Syms |-> 0]]

ValueAt(l, tab, e) == Value(e, tab, HereAt(l.size, l.org, l.base), l.start, 0)

Reach(l, val) == InInt8(val - l.org - l.size + l.base - 2)

BranchSize(l, op, val) ==
  CASE op \in {"short", "loop"} \/ (op \in {"jmp", "jcc"} /\ Reach(l, val)) -> 2
    [] op = "jcc" /\ ~Reach(l, val) -> IF l.mode = 16 THEN 4 ELSE 6
    [] op \in {"farjmp", "farcall"} -> IF l.mode = 16 THEN 5 ELSE 7
    [] op = "jcxz" -> IF l.mode = 32 THEN 3 ELSE 2
    [] OTHER -> IF l.mode = 16 THEN 3 ELSE 5

(* The bytes statement it puts. *)
Width(l, it) ==
  CASE it.op \in {"data", "str"} -> it.n
    [] it.op \in Branches -> BranchSize(l, it.op, ValueAt(l, l.tab, it.e))
    [] it.op = "align" -> (it.n - (HereAt(l.size, l.org, l.base) % it.n)) % it.n
    [] it.op = "string" -> IF l.rep THEN 2 ELSE 1
    [] OTHER -> 0

(* The value of the name that statement it defines, with the names in tab. *)
Meaning(l, tab, it) ==
  IF it.op = "label" THEN l.size + l.org + l.base ELSE ValueAt(l, tab, it.e)

(* A line ends that is not to be left as it is. *)
LineEnds(l, it) == it.op \in {"eol", "end"} /\ ~l.rep /\ l.count # 1

(* Behind statement it. *)
Behind(l, it) ==
  [size  |-> IF LineEnds(l, it) THEN l.from + (l.size - l.from) * l.count
                                ELSE l.size + Width(l, it),
   mode  |-> IF it.op = "bits" THEN it.n ELSE l.mode,
   org   |-> IF it.op = "org" THEN it.n ELSE l.org,
   base  |-> IF it.op = "org" THEN l.size ELSE l.base,
   start |-> IF it.op = "org" /\ l.size = 0 THEN it.n ELSE l.start,
   from  |-> IF it.op = "times" THEN l.size ELSE IF LineEnds(l, it) THEN 0 ELSE l.from,
   count |-> IF it.op = "times" THEN ValueAt(l, l.tab, it.e) % CountMod
             ELSE IF LineEnds(l, it) THEN 1 ELSE l.count,
   rep   |-> IF it.op = "rep" THEN TRUE
             ELSE IF it.op \in {"string", "eol", "end"} THEN FALSE ELSE l.rep,
   tab   |-> IF it.op \in Defining
               THEN [s \in Syms |-> IF s = it.s THEN Meaning(l, l.tab, it) ELSE l.tab[s]]
               ELSE l.tab]

(* LayoutOf(p)[i] is what every pass over p knows at statement i. *)
LayoutOf(p) ==
  LET at[i \in 1..(Len(p) + 1)] == IF i = 1 THEN Top ELSE Behind(at[i-1], p[i-1])
  IN  at

(* p settles: its forward references nest at most d deep, and the stream   *)
(* need not grow for it.                                                   *)
Settles(p, d) ==
  /\ DefinedOnce(p) /\ AllDefined(p)
  /\ \E rank \in [Syms -> 0..d] : Ranked(p, rank)
  /\ \A i \in 1..(Len(p) + 1) : LayoutOf(p)[i].size <= CapUnit

RankOf(p, d) == CHOOSE rank \in [Syms -> 0..d] : Ranked(p, rank)

-----------------------------------------------------------------------------
(* What every state of the assembler has to do with that: at is the layout *)
(* of the source and rank the ranks of its names.                          *)
InPlace(l) ==
  /\ size = l.size /\ xmode = l.mode
  /\ org_addr = l.org /\ org_ofs = l.base /\ code_start = l.start
  /\ times_start = l.from /\ times_count = l.count /\ rep_prefix = l.rep

Tidy(at) == InPlace(at[pc]) /\ intact /\ cap = CapUnit

(* The name that statement i defines has its last value in the table: as   *)
(* far as pc in this pass, and from there on in the one before.            *)
Final(rank, i) ==
  IF i < pc THEN rank[prog[i].s] < pass_idx ELSE rank[prog[i].s] + 1 < pass_idx

(* The value of a name is what its statement makes of the table.           *)
Meets(at, i) ==
  /\ prog[i].s \in DOMAIN sym /\ Uses(prog, i) \subseteq DOMAIN sym
  /\ sym[prog[i].s] = Meaning(at[i], sym, prog[i])

FinalMeet(rank, at) ==
  \A i \in 1..Len(prog) : prog[i].op \in Defining /\ Final(rank, i) => Meets(at, i)

(* A name of rank 0 has its value as soon as its statement was handled.    *)
EarlyNames(rank, at) ==
  \A i \in 1..Len(prog) :
    i < pc /\ prog[i].op \in Defining /\ rank[prog[i].s] = 0 =>
      prog[i].s \in DOMAIN sym /\ sym[prog[i].s] = at[pc].tab[prog[i].s]

(* The pass in which everything is final finds nothing to change.          *)
LastPass(d) == pass_idx \in 1..(d+2) /\ (pass_idx = d + 2 => ~need_more)

Settling(d, rank, at) ==
  Tidy(at) /\ FinalMeet(rank, at) /\ EarlyNames(rank, at) /\ LastPass(d)

SettleInv(d) == Settles(prog, d) => Settling(d, RankOf(prog, d), LayoutOf(prog))

(* The passes of a source whose references nest at most two deep: where    *)
(* each pass stands and what each name is worth in it, and that the loop   *)
(* of bctx_start ends after 2, 3 or 4 of them.                             *)
SettleWithin2 == \A d \in 0..2 : SettleInv(d)

(* A source that only looks back: each name is entered once and for all.   *)
OnceOver == pass_idx = 1 /\ ~need_more /\ DOMAIN sym = Before(prog, pc)

OneInv == LooksBack(prog) /\ DefinedOnce(prog) => OnceOver
=============================================================================

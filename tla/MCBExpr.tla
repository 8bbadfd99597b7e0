------------------------------- MODULE MCBExpr -------------------------------
(***************************************************************************)
(* Operands for model-checking BExpr: those the grammar below gives a      *)
(* meaning, built from the inside out, and all short texts without one.    *)
(***************************************************************************)
EXTENDS BTerm

CONSTANTS a, b

MCRegs == {a, b}

Sym(t)    == [t |-> t, ofs |-> 0, reg |-> NoReg]
Num(t, n) == [t |-> t, ofs |-> n, reg |-> NoReg]
Reg(r)    == [t |-> "reg", ofs |-> 0, reg |-> r]

(* A phrase is a text with its tree, which begins at from.                 *)
Entry(op, at, val) == [op |-> op, at |-> at, val |-> val]
Root(x)       == <<x.from, Len(x.text)>>
Worth(x)      == x.tree[Root(x)].val
Shifted(tree, d) ==
  [s \in {<<u[1] + d, u[2] + d>> : u \in DOMAIN tree} |->
     [tree[<<s[1] - d, s[2] - d>>] EXCEPT !.at = @ + d]]
Behind(t, x)  == [text |-> t \o x.text, from |-> x.from + Len(t), tree |-> Shifted(x.tree, Len(t))]

Word(token)   == [text |-> <<token>>, from |-> 1, tree |-> <<1, 1>> :> Entry("leaf", 0, Leaf(token))]
In(l, x, r)   == LET y == Behind(<<Sym(l)>>, x)
                     n == Len(y.text) + 1
                 IN  [text |-> Append(y.text, Sym(r)), from |-> 1,
                      tree |-> y.tree @@ (<<1, n>> :> Entry("bracket", y.from, Worth(x)))]

(* Two phrases with an operator between them.  A sum in front goes on: it  *)
(* and its last runs end with the new one.                                 *)
Joined(op, x, y) == [text |-> x.text \o <<Sym(op)>> \o y.text, from |-> 1]
Multiple(op, x, y) ==
  LET n == Len(x.text) + 1
      m == n + Len(y.text)
      val == IF op = "mul" THEN Multiplied(Worth(x), Worth(y))
             ELSE Just(Worth(x).k \div 2 ^ Worth(y).k)
  IN  Joined(op, x, y) @@ [tree |-> x.tree @@ Shifted(y.tree, n) @@ (<<1, m>> :> Entry(op, n, val))]

GoesOn(x, s) == s[2] = Len(x.text) /\ x.tree[s].op \in {"sum", "run"}
Sum(op, x, y) ==
  LET n == Len(x.text) + 1
      m == n + Len(y.text)
      last == IF op = "sub" THEN Negated(Worth(y)) ELSE Worth(y)
      on   == {s \in DOMAIN x.tree : GoesOn(x, s)}
      old  == [s \in {IF s \in on THEN <<s[1], m>> ELSE s : s \in DOMAIN x.tree} |->
                 IF s \in DOMAIN x.tree \ on THEN x.tree[s]
                 ELSE [x.tree[<<s[1], n - 1>>] EXCEPT !.val = Added(@, last)]]
      all  == old @@ Shifted(y.tree, n) @@ (<<n, m>> :> Entry("run", m + 1, last))
  IN  Joined(op, x, y) @@
      [tree |-> IF <<1, m>> \in DOMAIN old THEN all
                ELSE all @@ (<<1, m>> :> Entry("sum", n, Added(Worth(x), last)))]

Op(op, x, y) == IF op \in {"mul", "rar"} THEN Multiple(op, x, y) ELSE Sum(op, x, y)
Ops(op, X, Y) == {Op(op, x, y) : x \in X, y \in Y}

-----------------------------------------------------------------------------
(* Numbers: products and shifts, from the left; sums of them; brackets.    *)
(* Behind a minus a product begins with a number, or else it ends the sum. *)
Atoms   == {Word(Num("num", 2)), Word(Num("name", 5))}
Two     == {Word(Num("num", 2))}
Eleven  == {Word(Num("here", 11))}
Prods   == Ops("mul", Atoms, Atoms) \cup Ops("mul", Ops("mul", Two, Atoms), Two)
Shifts  == Ops("rar", Eleven, Two) \cup Ops("rar", Ops("rar", Eleven, Two), {Word(Num("num", 1))})
Addenda == Atoms \cup Prods \cup Shifts

Rest(X)   == X \cup Ops("add", X, Addenda) \cup Ops("sub", X, Atoms \cup Prods)
Sums      == Rest(Rest(Addenda))
Bracket   == {In("(", x, ")") : x \in Addenda \cup Ops("add", Atoms, Addenda)
                                     \cup Ops("sub", Atoms, Atoms \cup Prods)}
Scalings  == Ops("mul", Bracket, Two) \cup Ops("mul", Two, Bracket) \cup Ops("rar", Bracket, Two)
Deep    == {In("(", x, ")") : x \in Ops("sub", Eleven, Bracket) \cup Scalings}
Composite == Bracket \cup Scalings \cup Deep
Numbers   == Sums \cup Composite \cup Ops("add", Addenda, Composite)
               \cup Ops("sub", Ops("add", Eleven, Bracket), Atoms)
               \cup Ops("sub", Ops("sub", Eleven, Atoms), Composite)

-----------------------------------------------------------------------------
(* Addresses: at most two registers, one of them scaled and then in front  *)
(* of the other, and constants anywhere; or one register several times.    *)
Plain   == {Word(Reg(r)) : r \in MCRegs}
Scale   == {Word(Num("num", n)) : n \in {1, 2, 4, 8}}
Scaled2 == Ops("mul", Plain, Scale) \cup Ops("mul", Ops("mul", Plain, Two), Two)
             \cup Ops("mul", {In("(", x, ")") : x \in Plain}, Two)
Index   == Plain \cup Scaled2
Offsets == Atoms \cup Ops("mul", Two, Atoms) \cup {In("(", x, ")") : x \in Ops("add", Two, Atoms)}
Moved(X) == Ops("add", X, Offsets) \cup Ops("sub", X, Atoms \cup Ops("mul", Two, Two))

Twice   == Ops("mul", {Word(Reg(a))}, Two)
Based   == Ops("add", Index, Plain)
Inner   == Index \cup Moved(Index) \cup Ops("add", Offsets, Index)
             \cup Based \cup Moved(Based) \cup Ops("add", Ops("add", Offsets, Index), Plain)
             \cup Ops("add", Moved(Index), Plain) \cup {In("(", x, ")") : x \in Based}
             \cup Ops("add", Twice, Twice) \cup Ops("add", Ops("add", Twice, Twice), Twice)
             \cup Offsets \cup Moved(Offsets)
Fields  == {In("[", x, "]") : x \in Inner}
Prefix(t, X) == {Behind(t, x) : x \in X}
(* A segment behind the bracket.                                           *)
WithSegment(x) ==
  LET y == Behind(<<Sym("segment")>>, [x EXCEPT !.text = Tail(@)])
  IN  [text |-> <<Head(x.text)>> \o y.text, from |-> 1,
       tree |-> [s \in DOMAIN y.tree \ {<<2, Len(x.text) + 1>>} |-> y.tree[s]]
                  @@ (<<1, Len(x.text) + 1>> :> [x.tree[Root(x)] EXCEPT !.at = 3])]
Few     == {In("[", x, "]") : x \in Index}
Addresses ==
  Fields \cup Ops("add", Few, Atoms) \cup Ops("sub", Few, Atoms)
    \cup UNION {Prefix(t, Few) : t \in {<<Sym("size")>>, <<Sym("size"), Sym("ptr")>>, <<Sym("segment")>>,
                                        <<Sym("rel")>>, <<Sym("size"), Sym("segment")>>}}
    \cup {WithSegment(x) : x \in Few}

-----------------------------------------------------------------------------
Says(opr, X) ==
  {x @@ [mean |-> [opr |-> opr, ofs |-> Worth(x).k, coef |-> Worth(x).coef]] : x \in X}

MCMeaningful == Says("imm", Numbers \cup Prefix(<<Sym("rel")>>, Atoms)) \cup Says("mem", Addresses)
                  \cup Says("reg", Plain)

Signs   == {Sym(t) : t \in Binary \cup Openers \cup Closers}
Tokens  == Signs \cup {Reg(a), Num("num", 3), Num("missing", 1), Num("cr", 0)}
             \cup {Sym(t) : t \in {"str", "seg", "size", "ptr", "rel", "segment", "bad"}}
Inside  == {Reg(a), Reg(b), Num("num", 3), Sym("add"), Sym("mul"), Sym("sub"), Sym("(")}
Texts(T, n) == UNION {[1..m -> T] : m \in 0..n}
(* A register taken too often, or as often as no instruction can.          *)
Scales == Says("mem", {In("[", x, "]") :
              x \in Ops("mul", Plain, {Word(Num("num", n)) : n \in 1..9})})

Anything == {[text |-> s, mean |-> NoMean] :
               s \in Texts(Tokens, 3) \cup {<<Sym("[")>> \o s : s \in Texts(Inside, 4)}
                    \cup {x.text : x \in Scales}}

MCTerms == MCMeaningful \cup Anything
=============================================================================

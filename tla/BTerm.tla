-------------------------------- MODULE BTerm --------------------------------
(***************************************************************************)
(* What an operand says.  A text of BExpr that means something comes with  *)
(* the tree its author has in mind:                                        *)
(*                                                                         *)
(*   phrase  = addend | sum           sum    = addend run                  *)
(*   addend  = factor | product | shift      run = (+|-) addend [run]      *)
(*   product = (factor | product) * factor                                 *)
(*   shift   = (factor | shift) >> factor                                  *)
(*   factor  = leaf | bracket                                              *)
(*                                                                         *)
(* A node of the tree is a span of the text, first and last token, with    *)
(* what it is, where its operator is and what it is worth.  Nothing here   *)
(* knows of the stacks of bctx_parse_term.  What the grammar leaves out is *)
(* what the code reads otherwise than an author would.                     *)
(***************************************************************************)
EXTENDS BExpr

Leaves    == {"num", "here", "name", "reg"}
Modifiers == {"size", "ptr", "rel", "segment"}

-----------------------------------------------------------------------------
(* What a node is worth: a number, how often each register is added, and   *)
(* what there is of registers: none, one as it is, one with a scale, two.  *)
Forms == {"number", "plain", "scaled", "two"}
Value == [k : Int, coef : [Regs -> Nat], form : Forms]

Just(k) == [k |-> k, coef |-> [r \in Regs |-> 0], form |-> "number"]

Leaf(token) ==
  IF token.t = "reg"
  THEN [k |-> 0, coef |-> [r \in Regs |-> IF r = token.reg THEN 1 ELSE 0], form |-> "plain"]
  ELSE Just(token.ofs)

Negated(v) == [k |-> -v.k, coef |-> v.coef, form |-> v.form]

(* Two registers, the one with the scale in front; or one several times.   *)
Adds(v, w) ==
  \/ "number" \in {v.form, w.form}
  \/ v.form \in {"plain", "scaled"} /\ w.form = "plain"
  \/ /\ v.form = "scaled" /\ w.form = "scaled"
     /\ \E r \in Regs : v.coef[r] > 1 /\ w.coef[r] > 0 /\ v.coef[r] + w.coef[r] <= 8

FormAdded(v, w) ==
  IF w.form = "number" THEN v.form
  ELSE IF v.form = "number" THEN w.form
  ELSE IF w.form = "plain" THEN "two" ELSE "scaled"

Added(v, w) == [k |-> v.k + w.k, coef |-> [r \in Regs |-> v.coef[r] + w.coef[r]],
                form |-> FormAdded(v, w)]

(* A register is scaled by a number behind it.                             *)
Multiplies(v, w) ==
  /\ w.form = "number"
  /\ \/ v.form = "number"
     \/ /\ v.form \in {"plain", "scaled"} /\ v.k = 0
        /\ w.k >= 1 /\ \A r \in Regs : v.coef[r] * w.k <= 8

Multiplied(v, w) == [k |-> v.k * w.k, coef |-> [r \in Regs |-> v.coef[r] * w.k],
                     form |-> IF v.form = "number" THEN "number" ELSE "scaled"]

(* A shift to the right by n halves a number n times.                      *)
Halves(v, w) == v.form = "number" /\ w.form = "number" /\ w.k \in 0..63
Halved(k, n) == LET h[i \in 0..n] == IF i = 0 THEN k ELSE h[i-1] \div 2 IN h[n]

-----------------------------------------------------------------------------
Has(x, i, j, O) == <<i, j>> \in DOMAIN x.tree /\ x.tree[<<i, j>>].op \in O
At(x, i, j)     == x.tree[<<i, j>>].at
Val(x, i, j)    == x.tree[<<i, j>>].val

Factors == {"leaf", "bracket"}
Addends == Factors \cup {"mul", "rar"}
Phrases == Addends \cup {"sum"}

LeafNode(x, i, j) ==
  /\ i = j /\ x.text[i].t \in Leaves
  /\ x.text[i].t = "reg" => x.text[i].reg \in Regs
  /\ Val(x, i, j) = Leaf(x.text[i])

(* Behind a bracket there may be modifiers first.                          *)
BracketNode(x, i, j) ==
  LET p == At(x, i, j)
  IN  /\ <<x.text[i].t, x.text[j].t>> \in {<<"(", ")">>, <<"[", "]">>}
      /\ p \in (i + 1)..(j - 1) /\ \A q \in (i + 1)..(p - 1) : x.text[q].t \in Modifiers
      /\ Has(x, p, j - 1, Phrases)
      /\ Val(x, i, j) = Val(x, p, j - 1)

ProductNode(x, i, j) ==
  LET p == At(x, i, j)
  IN  /\ p \in (i + 1)..(j - 1) /\ x.text[p].t = "mul"
      /\ Has(x, i, p - 1, Factors \cup {"mul"}) /\ Has(x, p + 1, j, Factors)
      /\ Multiplies(Val(x, i, p - 1), Val(x, p + 1, j))
      /\ Val(x, i, j) = Multiplied(Val(x, i, p - 1), Val(x, p + 1, j))

ShiftNode(x, i, j) ==
  LET p == At(x, i, j)
  IN  /\ p \in (i + 1)..(j - 1) /\ x.text[p].t = "rar"
      /\ Has(x, i, p - 1, Factors \cup {"rar"}) /\ Has(x, p + 1, j, Factors)
      /\ Halves(Val(x, i, p - 1), Val(x, p + 1, j))
      /\ Val(x, i, j) = Just(Halved(Val(x, i, p - 1).k, Val(x, p + 1, j).k))

SumNode(x, i, j) ==
  LET p == At(x, i, j)
  IN  /\ p \in (i + 1)..j
      /\ Has(x, i, p - 1, Addends) /\ Has(x, p, j, {"run"})
      /\ Adds(Val(x, i, p - 1), Val(x, p, j))
      /\ Val(x, i, j) = Added(Val(x, i, p - 1), Val(x, p, j))

(* Only numbers are subtracted; a product behind a minus begins with a     *)
(* leaf, or else the sum ends with it.                                     *)
Minus(x, i, j) ==
  LET p == At(x, i, j)
  IN  /\ Val(x, i + 1, p - 1).form = "number"
      /\ IF x.text[i + 1].t \in Leaves
         THEN \A e \in (i + 1)..(p - 1) : <<i + 1, e>> \in DOMAIN x.tree =>
                Has(x, i + 1, e, {"leaf", "mul"}) /\ Val(x, i + 1, e).form = "number"
         ELSE p = j + 1

FirstOf(x, i, j) ==
  LET v == Val(x, i + 1, At(x, i, j) - 1)
  IN  IF x.text[i].t = "sub" THEN Negated(v) ELSE v

RunNode(x, i, j) ==
  LET p == At(x, i, j)
  IN  /\ p \in (i + 2)..(j + 1) /\ x.text[i].t \in {"add", "sub"}
      /\ Has(x, i + 1, p - 1, Addends)
      /\ x.text[i].t = "sub" => Minus(x, i, j)
      /\ IF p = j + 1 THEN Val(x, i, j) = FirstOf(x, i, j)
         ELSE /\ Has(x, p, j, {"run"})
              /\ Adds(FirstOf(x, i, j), Val(x, p, j))
              /\ Val(x, i, j) = Added(FirstOf(x, i, j), Val(x, p, j))

Node(x, i, j) ==
  /\ Has(x, i, j, Phrases \cup {"run"}) /\ Val(x, i, j) \in Value
  /\ Has(x, i, j, {"leaf"})    => LeafNode(x, i, j)
  /\ Has(x, i, j, {"bracket"}) => BracketNode(x, i, j)
  /\ Has(x, i, j, {"mul"})     => ProductNode(x, i, j)
  /\ Has(x, i, j, {"rar"})     => ShiftNode(x, i, j)
  /\ Has(x, i, j, {"sum"})     => SumNode(x, i, j)
  /\ Has(x, i, j, {"run"})     => RunNode(x, i, j)

(* The first thing in a phrase is a leaf or a bracket.                     *)
Begun(x, i, j) ==
  \/ x.text[i].t \in Leaves /\ Has(x, i, i, {"leaf"})
  \/ x.text[i].t \in Openers /\ \E e \in i..j : Has(x, i, e, {"bracket"})

(* Of two phrases that begin together, the shorter one is the left part of *)
(* a third, which may be the longer one.                                   *)
Nested(x, i, d, j) ==
  /\ Has(x, i, j, {"mul", "rar", "sum"})
  /\ \E e \in (d + 1)..j : Has(x, i, e, {"mul", "rar", "sum"}) /\ At(x, i, e) = d + 1

Tree(x) ==
  /\ DOMAIN x.tree \subseteq (1..Len(x.text)) \X (1..Len(x.text))
  /\ \A s \in DOMAIN x.tree : s[1] <= s[2] /\ Node(x, s[1], s[2])
  /\ \A s \in DOMAIN x.tree : Has(x, s[1], s[2], Phrases) => Begun(x, s[1], s[2])
  /\ \A s, t \in DOMAIN x.tree :
       s[1] = t[1] /\ s[2] < t[2] /\ Has(x, s[1], s[2], Phrases) /\ Has(x, t[1], t[2], Phrases)
         => Nested(x, s[1], s[2], t[2])

-----------------------------------------------------------------------------
(* What stands in front of p.                                              *)
Before(x, p, C) == \E q \in 1..(p - 1) : x.text[q].t \in C
InMemory(x, p)  == Before(x, p, {"size", "segment", "["})

(* Each modifier comes once, PTR behind a size in memory; memory is known  *)
(* as such before anything is in it; a register is alone.                  *)
Modified(x) ==
  \A p \in 1..Len(x.text) :
    LET t == x.text[p].t
    IN  /\ t \in {"size", "rel", "segment"} => ~Before(x, p, {t})
        /\ t = "ptr" => InMemory(x, p) /\ Before(x, p, {"size", "rel"})
        /\ t = "]" \/ (x.mean.opr = "mem" /\ t \in Leaves) => InMemory(x, p)
        /\ x.mean.opr = "imm" => t \notin {"size", "segment", "[", "reg"}
        /\ x.mean.opr = "reg" => t \in {"reg", "rel"}

(* The text of x says what x.mean says; from is where the phrase begins.   *)
Written(x) ==
  /\ Tree(x) /\ Modified(x)
  /\ x.from \in 1..Len(x.text) /\ \A q \in 1..(x.from - 1) : x.text[q].t \in Modifiers
  /\ Has(x, x.from, Len(x.text), Phrases)
  /\ x.mean.opr \in {"imm", "mem", "reg"}
  /\ x.mean.ofs = Val(x, x.from, Len(x.text)).k
  /\ x.mean.coef = Val(x, x.from, Len(x.text)).coef

ASSUME WrittenAssumption == \A x \in Terms : x.mean # NoMean => Written(x)
=============================================================================

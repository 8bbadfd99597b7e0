------------------------------- MODULE BFrames -------------------------------
(***************************************************************************)
(* The invariant behind BExpr's MeansWhatItSays: what the two stacks of    *)
(* bctx_parse_term hold while an operand that has a meaning is read.       *)
(*                                                                         *)
(* Each operator on the stack stands for a part of the tree that is being  *)
(* read: what is behind a "(", what is behind a "*", the rest of a sum     *)
(* behind a "+".  Such a part is a frame:                                  *)
(*                                                                         *)
(*   k         root, bracket, mul, rar or run                              *)
(*   at        where its operator is in the text; 0 for the root           *)
(*   from, to  the phrase that is being read                               *)
(*   hi        for a run, where all of it ends                             *)
(*   n         how many operands are on the stack below it                 *)
(*   neg       its minus has been given to the operand (_ins_kpr)          *)
(*                                                                         *)
(* Below a product, a shift or a run its left operand is on the stack.  In *)
(* the last frame a phrase of it has been read, or nothing, or all.        *)
(***************************************************************************)
EXTENDS BTerm

Products == {"mul", "rar"}

(* The phrases that may stand in a frame.                                  *)
Allowed(k) == IF k \in Products THEN Factors ELSE IF k = "run" THEN Addends ELSE Phrases

(* An operand of the stack is worth v.                                     *)
FormIs(o, form) ==
  /\ form = "number" => o.reg1 = NoReg /\ o.scale1 = 0 /\ o.reg2 = NoReg
  /\ form = "plain"  => o.reg1 # NoReg /\ o.scale1 = 0 /\ o.reg2 = NoReg
  /\ form = "scaled" => o.reg1 # NoReg /\ o.scale1 >= 1 /\ o.reg2 = NoReg
  /\ form = "two"    => o.reg1 # NoReg /\ o.reg2 # NoReg

Rep(o, v, kind) ==
  /\ o.opr = kind /\ o.ofs = v.k /\ Coef(o) = v.coef /\ FormIs(o, v.form)
  /\ kind = "imm" => v.form = "number"

(* A minus that was given to the operand is a plus on the stack.           *)
Signed(g, v) == IF g.neg THEN Negated(v) ELSE v
Sign(x, g)   == IF g.neg THEN "add" ELSE x.text[g.at].t

(* A frame by itself.                                                      *)
Framed(x, g) ==
  /\ g.n \in Nat /\ g.at \in Nat
  /\ Has(x, g.from, g.to, Allowed(g.k)) /\ g.at < g.from
  /\ \A q \in (g.at + 1)..(g.from - 1) : x.text[q].t \in Modifiers
  /\ g.k \in {"root", "bracket", "run"} \cup Products
  /\ g.k = "root" => g.at = 0 /\ g.from = x.from /\ g.to = Len(x.text) /\ g.n = 0
  /\ g.k = "bracket" => Has(x, g.at, g.to + 1, {"bracket"}) /\ At(x, g.at, g.to + 1) = g.from
  /\ g.k \in Products => g.from = g.at + 1 /\ x.text[g.at].t = g.k
  /\ g.k = "run" => /\ g.from = g.at + 1 /\ Has(x, g.at, g.hi, {"run"}) /\ At(x, g.at, g.hi) = g.to + 1
                    /\ g.hi = Len(x.text) \/ (g.hi < Len(x.text) /\ x.text[g.hi + 1].t \in Closers)
  /\ g.neg \in BOOLEAN /\ (g.neg => g.k = "run" /\ x.text[g.at].t = "sub" /\ x.text[g.from].t \in Leaves)

(* A frame g and the one below it, a.                                      *)
InBracket(a, g) == g.k = "bracket" /\ g.at = a.from /\ g.to + 1 <= a.to /\ g.n = a.n

InProduct(x, a, g) ==
  /\ g.k \in Products /\ a.k \notin Products /\ g.to <= a.to /\ g.n = a.n + 1
  /\ Has(x, a.from, g.to, {g.k}) /\ At(x, a.from, g.to) = g.at
  /\ a.k = "run" /\ x.text[a.at].t = "sub" /\ x.text[a.from].t \in Leaves => a.neg

InRun(x, a, g) ==
  /\ g.k = "run" /\ g.n = a.n + 1
  /\ \/ /\ a.k = "run" /\ g.hi = a.hi /\ g.at = a.to + 1
        /\ x.text[a.at].t = "sub" => a.neg
     \/ /\ a.k \in {"root", "bracket"} /\ g.hi = a.to
        /\ Has(x, a.from, a.to, {"sum"}) /\ At(x, a.from, a.to) = g.at

On(x, a, g) == InBracket(a, g) \/ InProduct(x, a, g) \/ InRun(x, a, g)

LeftHeld(x, a, g, os) ==
  g.k # "bracket" => Rep(os[g.n], Signed(a, Val(x, a.from, g.at - 1)), x.mean.opr)

(* The frames f of the operators signs, above the root.                    *)
Frames(x, f, signs, os) ==
  /\ f[1].k = "root"
  /\ \A i \in 1..Len(signs) :
       signs[i] = Sign(x, f[i + 1]) /\ On(x, f[i], f[i + 1]) /\ LeftHeld(x, f[i], f[i + 1], os)
  /\ \A i \in 2..(Len(signs) + 1) : f[i].k # "root"
  /\ \A i \in 1..(Len(signs) + 1) : Framed(x, f[i])
  /\ \A i, j \in 1..(Len(signs) + 1) : i <= j => f[i].n <= f[j].n

(* How far the last frame has been read when p is the next token: nothing  *)
(* of it, a phrase of it, or for a run all of it.                          *)
Starts(x, g, p, os) == g.at < p /\ p <= g.from /\ Len(os) = g.n /\ ~g.neg

Within(x, g, p, os) ==
  /\ p - 1 <= g.to /\ Has(x, g.from, p - 1, Allowed(g.k))
  /\ Len(os) = g.n + 1 /\ Rep(os[g.n + 1], Signed(g, Val(x, g.from, p - 1)), x.mean.opr)
  /\ g.k = "run" /\ x.text[g.at].t = "sub" /\ x.text[g.from].t \in Leaves => g.neg

Ends(x, g, p, os) ==
  /\ g.k = "run" /\ p - 1 = g.hi /\ Len(os) = g.n + 1 /\ Sign(x, g) = "add"
  /\ Rep(os[g.n + 1], Val(x, g.at, g.hi), x.mean.opr)

Current(x, g, p, os) == Starts(x, g, p, os) \/ Within(x, g, p, os) \/ Ends(x, g, p, os)

State(x, f, signs, os, p) == Frames(x, f, signs, os) /\ Current(x, f[Len(signs) + 1], p, os)
Stacked(x, signs, os, p)  == \E f : State(x, f, signs, os, p)

(* What the result m says of what is in front of p.                        *)
Found(x, p, m, os, signs) ==
  /\ m.opr = IF InMemory(x, p) THEN "mem" ELSE IF Before(x, p, Leaves) THEN x.mean.opr ELSE "undef"
  /\ (m.size <=> Before(x, p, {"size"})) /\ (m.rel <=> Before(x, p, {"rel"}))
  /\ (m.seg <=> Before(x, p, {"segment"}))
  /\ m.scale1 = 0 /\ m.reg2 = NoReg /\ m.ofs = 0
  /\ m.opr # "reg" => m.reg1 = NoReg
  /\ os # <<>> => Before(x, p, Leaves)
  /\ m.opr = "reg" /\ os # <<>> => Coef(os[1]) = Coef(m) /\ os[1].ofs = 0
  /\ x.mean.opr = "reg" => signs = <<>>

(* The invariant: an operand that has a meaning is being read as its tree  *)
(* says, or has been read to what it means.                                *)
Midway  == status = "scan" /\ Found(term, pc, rmo, opds, ops) /\ Stacked(term, ops, opds, pc)
Reached == status = "ok" /\ [opr |-> rmo.opr, ofs |-> rmo.ofs, coef |-> Coef(rmo)] = term.mean

MeanInv == term.mean # NoMean => Written(term) /\ (Midway \/ Reached)
=============================================================================

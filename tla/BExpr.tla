-------------------------------- MODULE BExpr --------------------------------
(***************************************************************************)
(* One operand of a statement: bctx_parse_term and its helpers             *)
(* (bsyntax.c).  An operand is computed while it is read, with a stack of  *)
(* operands and a stack of operators.  A memory operand is an operand like *)
(* any other, only that its value has registers and a scale besides a      *)
(* number, and that not every operator has a meaning for it.               *)
(*                                                                         *)
(* One action is one token, or one iteration of the loop of                *)
(* _try_combine_opds.  The model is the build without assertions.          *)
(***************************************************************************)
EXTENDS Integers, SequencesExt

CONSTANTS
  Regs,    \* registers
  NoReg,   \* ERNM_UNDEF
  NoMean,  \* for a text that means nothing in particular
  Terms    \* the operands considered: a text and what it means

(* The classes of tokens bctx_parse_term tells apart.  "here" is $ and $$, *)
(* "name" a symbol that has a value and "missing" one that has none, "seg" *)
(* a segment register and "segment" one with a colon, "cr" a control       *)
(* register, "size" BYTE, WORD and so on, "rel" FAR, NEAR and SHORT, "bad" *)
(* everything it has no use for, "end" what ends an operand.               *)
Binary   == {"add", "sub", "mul", "rar"}
Openers  == {"(", "["}
Closers  == {")", "]"}
Values   == {"num", "here", "name", "missing", "str"}
Classes  == Binary \cup Openers \cup Closers \cup Values \cup
            {"reg", "seg", "cr", "size", "ptr", "rel", "segment", "bad"}

Token   == [t : Classes, ofs : Int, reg : Regs \cup {NoReg}]
Kinds   == {"reg", "seg", "imm", "mem", "cr"}
Operand == [opr : Kinds, reg1 : Regs \cup {NoReg}, scale1 : 0..8,
            reg2 : Regs \cup {NoReg}, ofs : Int]

(* The result: an operand with its modifiers. *)
Outcome == [opr : Kinds \cup {"undef"}, reg1 : Regs \cup {NoReg}, scale1 : 0..8,
            reg2 : Regs \cup {NoReg}, ofs : Int,
            size : BOOLEAN, rel : BOOLEAN, seg : BOOLEAN]

(* What an operand says: its kind, a number, and how often each register   *)
(* is in it.                                                               *)
Meaning == [opr : Kinds, ofs : Int, coef : [Regs -> Nat]]

ASSUME RegAssumption  == NoReg \notin Regs
ASSUME TermAssumption ==
  \A x \in Terms : x.text \in Seq(Token) /\ x.mean \in Meaning \cup {NoMean}

VARIABLES
  term,       \* the text and its meaning
  pc,         \* the next token
  rmo,        \* the result: the kind so far, modifiers, at the end the value
  opds, ops,  \* ctx->arr_opd, ctx->arr_op
  status      \* scan, ok or bad

stacks == <<opds, ops>>
vars == <<term, pc, rmo, stacks, status>>

-----------------------------------------------------------------------------
Tok == IF pc <= Len(term.text) THEN term.text[pc]
       ELSE [t |-> "end", ofs |-> 0, reg |-> NoReg]

(* Mutant: a shift binds like a sum. *)
PridxShift(op) ==
  CASE op = "mul"                 -> 1
    [] op \in {"add", "sub", "rar"} -> 5
    [] op \in Openers             -> 6
    [] op \in Closers             -> 7
    [] OTHER                      -> 100

get_op_pridx(op) ==
  CASE op \in {"mul", "rar"} -> 1
    [] op \in {"add", "sub"} -> 5
    [] op \in Openers        -> 6
    [] op \in Closers        -> 7
    [] OTHER                 -> 100

(* Mutant: equal operators wait for each other. *)
IsPriorStrict(last, curr) == get_op_pridx(last) < get_op_pridx(curr)

(* Is the operator on the stack computed before the one just read?         *)
IsPrior(last, curr) ==
  IF last = curr THEN get_op_pridx(last) < 5
  ELSE get_op_pridx(last) < get_op_pridx(curr)

-----------------------------------------------------------------------------
(* An arithmetic shift of a 64-bit number: the shift count is cut to six   *)
(* bits, and each bit of it halves the number that often.                  *)
Sar(v, n) ==
  LET Half(x, bit, div) == IF (n \div bit) % 2 = 1 THEN x \div div ELSE x
      Far(x) == IF (n \div 32) % 2 = 1 THEN (x \div 65536) \div 65536 ELSE x
  IN Far(Half(Half(Half(Half(Half(v, 1, 2), 2, 4), 4, 16), 8, 256), 16, 65536))

Arith(op, x, y) ==
  CASE op = "add" -> x + y
    [] op = "sub" -> x - y
    [] op = "mul" -> x * y
    [] op = "rar" -> Sar(x, y)

Factor(o) == IF o.scale1 = 0 THEN 1 ELSE o.scale1

(* Mutant: any scale will do. *)
ScaleFitsAny(o, n) == n >= 0

(* Can the register of o be taken n times?                                 *)
ScaleFits(o, n) == n >= 0 /\ Factor(o) * n <= 8

(* A product with a register in it: which operand has the register?        *)
CanScale(o1, o2) ==
  IF o2.reg1 # NoReg THEN o1.reg1 = NoReg /\ ScaleFits(o2, o1.ofs)
  ELSE o1.reg1 # NoReg => ScaleFits(o1, o2.ofs)

Scaled(o1, o2) ==
  IF o2.reg1 # NoReg
  THEN [o1 EXCEPT !.reg1 = o2.reg1, !.scale1 = Factor(o2) * o1.ofs]
  ELSE IF o1.reg1 # NoReg THEN [o1 EXCEPT !.scale1 = Factor(o1) * o2.ofs]
  ELSE [o1 EXCEPT !.ofs = @ * o2.ofs]

(* The registers of o2 are added to those of o1.  A scaled register of o2  *)
(* takes the place of an unscaled one of o1, and a third register is lost. *)
CanAddRegs(o1, o2, op) ==
  IF o2.reg1 = NoReg THEN o2.reg2 # NoReg => o1.reg2 = NoReg
  ELSE /\ op \in {"add", "mul"}
       /\ o1.reg1 # NoReg /\ o1.reg2 = NoReg =>
            IF o2.scale1 < 1 THEN o2.reg2 = NoReg
            ELSE o1.scale1 > 1 => o1.reg1 = o2.reg1 /\ o1.scale1 + o2.scale1 <= 8

AddRegs(o1, o2) ==
  IF o2.reg1 = NoReg /\ o2.reg2 = NoReg THEN o1
  ELSE IF o2.reg1 = NoReg   THEN [o1 EXCEPT !.reg2 = o2.reg2]
  ELSE IF o1.reg1 = NoReg   THEN [o1 EXCEPT !.reg1 = o2.reg1, !.scale1 = o2.scale1, !.reg2 = o2.reg2]
  ELSE IF o1.reg2 # NoReg   THEN o1
  ELSE IF o2.scale1 < 1     THEN [o1 EXCEPT !.reg2 = o2.reg1]
  ELSE IF o1.scale1 > 1     THEN [o1 EXCEPT !.scale1 = @ + o2.scale1]
  ELSE [o1 EXCEPT !.reg1 = o2.reg1, !.scale1 = o2.scale1]

(* _combine_opds.  A product of a number and a register is scaled first    *)
(* and then treated like a sum of the two operands.                        *)
MemValue(o1, o2, op) ==
  IF op = "mul" THEN Scaled(o1, o2) ELSE [o1 EXCEPT !.ofs = Arith(op, @, o2.ofs)]

CanCombine(o1, o2, op) ==
  \/ o1.opr = "imm" /\ o2.opr = "imm"
  \/ /\ o1.opr = "mem" /\ o2.opr \in {"mem", "cr"}
     /\ op = "mul" => CanScale(o1, o2)
     /\ CanAddRegs(MemValue(o1, o2, op), o2, op)

Combined(o1, o2, op) ==
  IF o1.opr = "imm" THEN [o1 EXCEPT !.ofs = Arith(op, @, o2.ofs)]
  ELSE AddRegs(MemValue(o1, o2, op), o2)

-----------------------------------------------------------------------------
Top == Last(ops)
Below == opds[Len(opds) - 1]

(* _try_combine_opds goes on while this holds; a bracket ends the loop.    *)
TopPrior == ops # <<>> /\ IsPrior(Top, Tok.t)
Reducing == Tok.t \in Binary \cup Closers \cup {"end"} /\ TopPrior /\ Top \in Binary

(* When a token is accepted; with an operator to be computed first, when   *)
(* that can be done.                                                       *)
Legal ==
  /\ Reducing => Len(opds) >= 2 /\ CanCombine(Below, Last(opds), Top)
  /\ CASE Tok.t \in {"num", "here"}     -> rmo.opr \in {"undef", "imm", "mem"}
       [] Tok.t \in {"name", "missing"} -> rmo.opr \notin {"reg", "seg"}
       [] Tok.t = "reg"     -> /\ rmo.opr \in {"undef", "mem"}
                               /\ rmo.opr = "undef" /\ ops # <<>> => Top \in {"add", "mul"}
       [] Tok.t = "seg"     -> rmo.opr \in {"undef", "mem"}
       [] Tok.t = "size"    -> rmo.opr \in {"undef", "mem"} /\ ~rmo.size
       [] Tok.t = "ptr"     -> rmo.opr = "mem" /\ (rmo.size \/ rmo.rel)
       [] Tok.t = "rel"     -> ~rmo.rel
       [] Tok.t = "segment" -> rmo.opr \in {"undef", "mem"} /\ ~rmo.seg
       [] Tok.t = "["       -> rmo.opr \in {"undef", "mem"}
       [] Tok.t = "]"       -> rmo.opr = "mem"
       [] Tok.t = "bad"     -> FALSE
       [] Tok.t = "end"     -> ~Reducing => rmo.opr # "undef" /\ Len(opds) <= 1
       [] OTHER             -> TRUE

Reading(tokens) == status = "scan" /\ Legal /\ Tok.t \in tokens
Consume == pc' = pc + 1 /\ UNCHANGED <<term, status>>

(* Mutant: the kind begun is forgotten. *)
KindForgotten(default) == default

Kind(default) == IF rmo.opr = "undef" THEN default ELSE rmo.opr

Blank(opr) == [opr |-> opr, reg1 |-> NoReg, scale1 |-> 0, reg2 |-> NoReg, ofs |-> 0]

(* _ins_kpr: an operand behind a minus is negated and the minus becomes a  *)
(* plus, so that a chain of both can be computed from its end.             *)
PushOpd(o) ==
  IF ops # <<>> /\ Top = "sub"
  THEN /\ opds' = Append(opds, [o EXCEPT !.ofs = -@])
       /\ ops' = [ops EXCEPT ![Len(ops)] = "add"]
  ELSE opds' = Append(opds, o) /\ ops' = ops

Init ==
  /\ term \in Terms
  /\ pc = 1
  /\ rmo = [opr |-> "undef", reg1 |-> NoReg, scale1 |-> 0, reg2 |-> NoReg, ofs |-> 0,
            size |-> FALSE, rel |-> FALSE, seg |-> FALSE]
  /\ opds = <<>> /\ ops = <<>>
  /\ status = "scan"

(* A number, $, a symbol or a text.  A symbol that is missing counts as a  *)
(* small number in the first pass.                                         *)
Number ==
  /\ Reading(Values)
  /\ rmo' = [rmo EXCEPT !.opr = Kind("imm")]
  /\ PushOpd([Blank(Kind("imm")) EXCEPT !.ofs = Tok.ofs])
  /\ Consume

(* A register is an operand of its own unless a memory operand has begun.  *)
Register ==
  /\ Reading({"reg"})
  /\ rmo' = [rmo EXCEPT !.opr = Kind("reg"), !.reg1 = IF rmo.opr = "undef" THEN Tok.reg ELSE @]
  /\ PushOpd([Blank(Kind("reg")) EXCEPT !.reg1 = Tok.reg])
  /\ Consume

Segment ==
  /\ Reading({"seg"})
  /\ rmo' = [rmo EXCEPT !.opr = Kind("seg"), !.seg = IF rmo.opr = "undef" THEN TRUE ELSE @]
  /\ PushOpd(Blank(Kind("seg")))
  /\ Consume

(* A control register makes the operand one, whatever it was.              *)
Control ==
  /\ Reading({"cr"})
  /\ rmo' = [rmo EXCEPT !.opr = "cr", !.ofs = Tok.ofs]
  /\ PushOpd([Blank("cr") EXCEPT !.ofs = Tok.ofs])
  /\ Consume

Modifier ==
  /\ Reading({"size", "ptr", "rel", "segment"})
  /\ rmo' = [rmo EXCEPT !.opr  = IF Tok.t \in {"size", "segment"} THEN "mem" ELSE @,
                        !.size = @ \/ Tok.t = "size",
                        !.rel  = @ \/ Tok.t = "rel",
                        !.seg  = @ \/ Tok.t = "segment"]
  /\ UNCHANGED stacks
  /\ Consume

Open ==
  /\ Reading(Openers)
  /\ rmo' = [rmo EXCEPT !.opr = IF Tok.t = "[" THEN "mem" ELSE @]
  /\ ops' = Append(ops, Tok.t)
  /\ UNCHANGED opds
  /\ Consume

(* One operator is computed before the token is looked at again.           *)
Reduce ==
  /\ Reading(Binary \cup Closers \cup {"end"})
  /\ Reducing
  /\ opds' = Append(Front(Front(opds)), Combined(Below, Last(opds), Top))
  /\ ops' = Front(ops)
  /\ UNCHANGED <<term, pc, rmo, status>>

(* An operator waits for its second operand.                               *)
Shift ==
  /\ Reading(Binary)
  /\ ~Reducing
  /\ ops' = Append(ops, Tok.t)
  /\ UNCHANGED <<opds, rmo>>
  /\ Consume

(* A closing bracket takes the last opening one from the stack, of either  *)
(* kind; with none there it is skipped.                                    *)
Close ==
  /\ Reading(Closers)
  /\ ~Reducing
  /\ ops' = IF TopPrior THEN Front(ops) ELSE ops
  /\ UNCHANGED <<opds, rmo>>
  /\ Consume

(* The end: brackets that were not closed stay where they are.             *)
Result ==
  IF opds = <<>> THEN rmo
  ELSE LET o == Last(opds) IN
    CASE o.opr = "imm" -> [rmo EXCEPT !.ofs = o.ofs]
      [] o.opr = "mem" -> [rmo EXCEPT !.reg1 = o.reg1, !.scale1 = o.scale1,
                                      !.reg2 = o.reg2, !.ofs = o.ofs]
      [] OTHER         -> rmo

Finish ==
  /\ Reading({"end"})
  /\ ~Reducing
  /\ rmo' = Result
  /\ status' = "ok"
  /\ opds' = <<>> /\ ops' = <<>>
  /\ UNCHANGED <<term, pc>>

(* A token that is refused.  A missing symbol is refused after the first   *)
(* pass.                                                                   *)
Fail ==
  /\ status = "scan"
  /\ ~Legal \/ Tok.t = "missing"
  /\ status' = "bad"
  /\ opds' = <<>> /\ ops' = <<>>
  /\ UNCHANGED <<term, pc, rmo>>

Done == status # "scan" /\ UNCHANGED vars

Next ==
  \/ Number \/ Register \/ Segment \/ Control \/ Modifier
  \/ Open \/ Reduce \/ Shift \/ Close \/ Finish \/ Fail \/ Done

Spec == Init /\ [][Next]_vars

-----------------------------------------------------------------------------
TypeOK ==
  /\ term.text \in Seq(Token) /\ term.mean \in Meaning \cup {NoMean}
  /\ pc \in 1..(Len(term.text) + 1)
  /\ rmo \in Outcome
  /\ opds \in Seq(Operand)
  /\ ops \in Seq(Binary \cup Openers)
  /\ status \in {"scan", "ok", "bad"}

(* The operands on the stack are of the kind the whole operand has, so the *)
(* assertions of _combine_opds (1137) and bctx_parse_term (1642) hold.     *)
(* Only a control register changes the kind when operands are there.       *)
KindsAgree ==
  (\A i \in 1..(pc - 1) : term.text[i].t # "cr") =>
    \A i \in 1..Len(opds) : opds[i].opr = rmo.opr

(* On the stack no operator waits below one that binds less; neither does  *)
(* an equal product or shift.  So when the operators are computed from the *)
(* top, what binds more is computed first.                                 *)
StackOrdered ==
  \A i \in 1..(Len(ops) - 1) :
    ops[i] \in {"mul", "rar"} => ops[i + 1] \notin {"add", "sub", ops[i]}

Coef(o) == [r \in Regs |-> (IF o.reg1 = r THEN Factor(o) ELSE 0) + (IF o.reg2 = r THEN 1 ELSE 0)]

(* An operand that has a meaning is accepted, and computed to just that:   *)
(* its kind, its number, and each register as often as it was added        *)
(* (bctx_parse_term).                                                      *)
MeansWhatItSays ==
  status # "scan" /\ term.mean # NoMean =>
    /\ status = "ok"
    /\ [opr |-> rmo.opr, ofs |-> rmo.ofs, coef |-> Coef(rmo)] = term.mean

IInv == TypeOK /\ KindsAgree /\ StackOrdered
=============================================================================

------------------------------ MODULE MCBPass ------------------------------
(* Sources for model-checking BPass. *)
EXTENDS BSettle

(* Shorthands for statements. *)
NoExpr        == [c |-> 0, pos |-> Nothing, neg |-> Nothing]
Num(c)        == [NoExpr EXCEPT !.c = c]
Ref(s)        == [NoExpr EXCEPT !.pos = s]
Diff(c, p, q) == [c |-> c, pos |-> p, neg |-> q]

Stm(op, s, e, n) == [op |-> op, s |-> s, e |-> e, n |-> n]
Lbl(s)    == Stm("label", s, NoExpr, 0)
EquS(s, e) == Stm("equ", s, e, 0)
Db(e)     == Stm("data", Nothing, e, 1)
Text(n)   == Stm("str", Nothing, NoExpr, n)
Dw(e)     == Stm("data", Nothing, e, 2)
Br(op, e) == Stm(op, Nothing, e, 0)
Tm(e)     == Stm("times", Nothing, e, 0)
OrgS(n)   == Stm("org", Nothing, NoExpr, n)
AlignS(n) == Stm("align", Nothing, NoExpr, n)
BitsS(n)  == Stm("bits", Nothing, NoExpr, n)
Plain(op) == Stm(op, Nothing, NoExpr, 0)
Eol       == Plain("eol")
End       == Plain("end")
Line(st)  == st \o <<Eol>>
Lines(n, a) == [1..n -> a]

(* A gap of n bytes: TIMES n DB 0 on a line of its own. *)
Gap(n) == <<Tm(Num(n)), Db(Num(0)), Eol>>
(* TIMES c-($-s) DB 0 *)
Pad(c, s) == <<Tm(Diff(c, s, Dollar)), Db(Num(0)), Eol>>

-----------------------------------------------------------------------------
(* Layout: labels a and b and a constant k around branches of every form,  *)
(* gaps that put the targets on both sides of the reach of a short branch, *)
(* padding as in the boot sectors of test/.                                *)
Names3 == {"a", "b", "k"}

LayoutBlocks == {
  Line(<<Lbl("a")>>), Line(<<Lbl("b")>>),
  Line(<<Dw(Ref("b")), Dw(Ref("k"))>>),
  Line(<<EquS("k", Diff(0, "b", "a"))>>),
  Line(<<Br("jmp", Ref("b"))>>), Line(<<Br("jcc", Ref("a"))>>),
  Line(<<Br("loop", Ref("b"))>>),
  Gap(125), Pad(132, "a"), Pad(260, DDollar),
  Line(<<AlignS(4)>>)}

Starts == {<<Eol>>, Line(<<BitsS(16)>>) \o Line(<<OrgS(100)>>)}

(* TIMES counts from a label that precedes it. *)
TimesLooksBack(p) ==
  \A i \in 1..Len(p) :
    p[i].op = "times" /\ p[i].e.pos \in Names3 =>
      \E j \in 1..(i-1) : p[j].op = "label" /\ p[j].s = p[i].e.pos

LayoutPrograms ==
  {p \in {s \o u \o v \o x \o y \o <<End>> :
            s \in Starts, u, v, x, y \in LayoutBlocks} :
     DefinedOnce(p) /\ TimesLooksBack(p)}

(* Forward references that nest two deep: a is what k is, k is b, and b is *)
(* still to come.                                                          *)
ChainPrograms ==
  {s \o Line(<<EquS("a", Ref("k"))>>) \o Line(<<EquS("k", Ref("b"))>>) \o x
     \o Line(<<Lbl("b"), Dw(Ref("a"))>>) \o <<End>> :
     s \in Starts, x \in {Gap(125), Pad(260, DDollar), Line(<<AlignS(4)>>),
                         Line(<<Dw(Ref("b")), Dw(Ref("k"))>>)}}

(* Four deep: six passes, which are more than a pass_idx below five counts. *)
Names5 == Names3 \cup {"c", "d"}

Means(s, t) == Line(<<EquS(s, Ref(t))>>)

LongPrograms ==
  {s \o Means("a", "k") \o Means("k", "c") \o Means("c", "d") \o Means("d", "b") \o x
     \o Line(<<Lbl("b"), Dw(Ref("a"))>>) \o y \o <<End>> :
     s \in Starts, x \in {Gap(125), Line(<<AlignS(4)>>), Line(<<Dw(Ref("k"))>>), Line(<<Br("jmp", Ref("a"))>>)},
     y \in {<<>>, Line(<<Br("jcc", Ref("c"))>>)}}

(* Three of these lines are enough for the liveness run. *)
ConvergePrograms ==
  {p \in {s \o u \o v \o x \o <<End>> :
            s \in Starts, u, v, x \in LayoutBlocks} :
     DefinedOnce(p) /\ TimesLooksBack(p)}
  \cup ChainPrograms \cup LongPrograms

-----------------------------------------------------------------------------
(* Branches: every form, in every mode, back to a and on to b, at the      *)
(* distances around the reach of an 8-bit and a 16-bit displacement.       *)
Distances == {0, 1} \cup 121..130 \cup 32758..32770

BranchPrograms ==
  {<<Eol>> \o Line(<<BitsS(m), OrgS(o)>>) \o Line(<<Lbl("a")>>) \o x \o Line(<<Lbl("b")>>) \o <<End>> :
     m \in {16, 32, 64}, o \in {0, 30},
     x \in {Gap(d) \o Line(<<Br(op, Ref("a"))>>) : d \in Distances \ {0}, op \in Branches}
          \cup {Line(<<Br(op, Ref("b"))>>) \o Gap(d) : d \in Distances, op \in Branches}}

SourcePrograms == LayoutPrograms \cup BranchPrograms

-----------------------------------------------------------------------------
(* Lines: every sequence of three lines that matter to the end of a line   *)
(* and to the stream, after 14 bytes, so that the stream has to grow.      *)
(* Names may be defined twice.                                             *)
LineBodies == {
  <<>>, <<Db(Num(1))>>, <<Lbl("a"), Dw(Ref("a"))>>, <<Lbl("a"), Text(3)>>,
  <<Tm(Num(0))>>, <<Tm(Num(0)), Db(Num(1)), Text(2)>>,
  <<Lbl("a"), Tm(Num(3)), Dw(Ref("a"))>>, <<Tm(Num(2)), Text(1)>>,
  <<Tm(Num(60)), Db(Ref("a"))>>, <<Text(60)>>, <<Br("jmp", Ref("b")), Db(Ref("a"))>>,
  <<Plain("rep")>>, <<Plain("rep"), Plain("string"), Plain("string")>>,
  <<Plain("rep"), Plain("rep")>>, <<Plain("rep"), Tm(Num(2)), Db(Num(1))>>,
  <<Tm(Num(0)), Db(Num(1)), Lbl("b"), Plain("rep")>>,
  <<Tm(Num(2)), Plain("bad")>>}

LinesPrograms ==
  {<<Eol, Text(14), Eol>> \o Line(u) \o Line(v) \o x \o <<End>> :
     u, v, x \in LineBodies}

-----------------------------------------------------------------------------
(* Sources for the disagreements between the code and what it says. *)

(* A section with its own ORG, padded to six bytes as in test/page.asm. *)
SectionPrograms ==
  {<<Eol>> \o Line(<<OrgS(100)>>) \o Line(<<Dw(Num(1))>>)
     \o Line(<<OrgS(o)>>) \o Line(<<Lbl("a")>>) \o Pad(6, "a") \o <<End>> : o \in {100, 200}}

(* A text that does not fit the capacity of the stream. *)
TextPrograms == {<<Eol, Text(14), Eol>> \o Line(<<Text(4)>>) \o <<End>>}

(* A JCXZ over one byte. *)
JcxzPrograms == {<<Eol>> \o Line(<<BitsS(16)>>) \o Line(<<OrgS(100)>>)
                   \o Line(<<Br("jcxz", Ref("a"))>>) \o Line(<<Db(Num(1))>>)
                   \o Line(<<Lbl("a")>>) \o <<End>>}
=============================================================================

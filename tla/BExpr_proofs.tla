---------------------------- MODULE BExpr_proofs ----------------------------
(***************************************************************************)
(* Theorems about BExpr, for every set of operands and registers: what the *)
(* stacks hold, and that an operand is computed to what it means.          *)
(***************************************************************************)
EXTENDS BFrames, SequenceTheorems, Induction, TLAPS

-----------------------------------------------------------------------------
(* The sequence without its last element (bintarr_pop_back).               *)
LEMMA FrontSeq ==
  ASSUME NEW S, NEW s \in Seq(S), s # <<>>
  PROVE  /\ Front(s) \in Seq(S)
         /\ Len(Front(s)) = Len(s) - 1
         /\ \A i \in 1..(Len(s) - 1) : Front(s)[i] = s[i]
<1>1. Len(s) \in Nat /\ Len(s) # 0
  BY EmptySeq, LenProperties
<1>2. \A i \in 1..(Len(s) - 1) : s[i] \in S
  BY <1>1, ElementOfSeq
<1> DEFINE n == Len(s) - 1
<1>3. n \in Nat /\ 1 \in Int
  BY <1>1
<1> HIDE DEF n
<1>4. \A i \in 1..n : s[i] \in S
  BY <1>2 DEF n
<1>5. /\ SubSeq(s, 1, n) \in Seq(S)
      /\ Len(SubSeq(s, 1, n)) = IF 1 <= n THEN n - 1 + 1 ELSE 0
      /\ \A i \in 1..(n - 1 + 1) : SubSeq(s, 1, n)[i] = s[1 + i - 1]
  BY <1>3, <1>4, SubSeqProperties
<1>6. Len(SubSeq(s, 1, n)) = n /\ \A i \in 1..n : SubSeq(s, 1, n)[i] = s[i]
  BY <1>3, <1>5
<1> QED
  BY <1>5, <1>6 DEF Front, n

(* The top of a stack is one of its elements (bintarr_back).               *)
LEMMA LastSeq ==
  ASSUME NEW S, NEW s \in Seq(S), s # <<>>
  PROVE  Last(s) \in S /\ Len(s) \in Nat \ {0}
<1>1. Len(s) \in Nat /\ Len(s) # 0
  BY EmptySeq, LenProperties
<1> QED
  BY <1>1, ElementOfSeq DEF Last

(* A shift yields an integer.                                              *)
LEMMA SarInt ==
  ASSUME NEW v \in Int, NEW n \in Int
  PROVE  Sar(v, n) \in Int
  BY SMT DEF Sar

(* What two numbers combine to is an integer.                              *)
LEMMA ArithInt ==
  ASSUME NEW op \in Binary, NEW x \in Int, NEW y \in Int
  PROVE  Arith(op, x, y) \in Int
  BY SarInt DEF Arith, Binary

-----------------------------------------------------------------------------
(* A scale that fits is one (uint8_t scale1 and the tests against 8).      *)
LEMMA ScaleType ==
  ASSUME NEW o \in Operand, NEW n \in Int, ScaleFits(o, n)
  PROVE  Factor(o) * n \in 0..8
<1>1. Factor(o) \in 1..8
  BY DEF Factor, Operand
<1> DEFINE f == Factor(o)
<1>2. f \in Int /\ f >= 1 /\ n >= 0 /\ f * n <= 8
  BY <1>1 DEF ScaleFits
<1> HIDE DEF f
<1>3. f * n \in Int /\ f * n >= 0
  BY <1>2
<1>4. f * n \in 0..8
  BY <1>2, <1>3
<1> QED
  BY <1>4 DEF f

(* A product with a register in it keeps its scale within eight.           *)
LEMMA ScaledType ==
  ASSUME NEW o1 \in Operand, NEW o2 \in Operand, CanScale(o1, o2)
  PROVE  Scaled(o1, o2) \in Operand /\ Scaled(o1, o2).opr = o1.opr
<1>1. o1.ofs \in Int /\ o2.ofs \in Int /\ o1.ofs * o2.ofs \in Int
  BY DEF Operand
<1>2. CASE o2.reg1 # NoReg
  <2>1. Factor(o2) * o1.ofs \in 0..8
    BY <1>1, <1>2, ScaleType DEF CanScale
  <2> QED
    BY <1>2, <2>1 DEF Scaled, Operand
<1>3. CASE o2.reg1 = NoReg /\ o1.reg1 # NoReg
  <2>1. Factor(o1) * o2.ofs \in 0..8
    BY <1>1, <1>3, ScaleType DEF CanScale
  <2> QED
    BY <1>3, <2>1 DEF Scaled, Operand
<1>4. CASE o2.reg1 = NoReg /\ o1.reg1 = NoReg
  BY <1>1, <1>4 DEF Scaled, Operand
<1> QED
  BY <1>2, <1>3, <1>4

(* So does a sum (_combine_opds).                                          *)
LEMMA AddRegsType ==
  ASSUME NEW o1 \in Operand, NEW o2 \in Operand, NEW op \in Binary, CanAddRegs(o1, o2, op)
  PROVE  AddRegs(o1, o2) \in Operand /\ AddRegs(o1, o2).opr = o1.opr
<1>1. CASE o2.reg1 = NoReg
  BY <1>1 DEF AddRegs, Operand
<1>2. CASE o2.reg1 # NoReg /\ (o1.reg1 = NoReg \/ o1.reg2 # NoReg)
  BY <1>2 DEF AddRegs, Operand
<1>3. CASE o2.reg1 # NoReg /\ o1.reg1 # NoReg /\ o1.reg2 = NoReg
  <2>1. CASE o2.scale1 < 1 \/ ~(o1.scale1 > 1)
    BY <1>3, <2>1 DEF AddRegs, Operand
  <2>2. CASE ~(o2.scale1 < 1) /\ o1.scale1 > 1
    <3>1. o1.scale1 + o2.scale1 \in 0..8
      BY <1>3, <2>2 DEF CanAddRegs, Operand
    <3> QED
      BY <1>3, <2>2, <3>1 DEF AddRegs, Operand
  <2> QED
    BY <2>1, <2>2
<1> QED
  BY <1>1, <1>2, <1>3

(* _combine_opds yields an operand of the kind of its first one.           *)
LEMMA CombinedType ==
  ASSUME NEW o1 \in Operand, NEW o2 \in Operand, NEW op \in Binary, CanCombine(o1, o2, op)
  PROVE  Combined(o1, o2, op) \in Operand /\ Combined(o1, o2, op).opr = o1.opr
<1>1. o1.ofs \in Int /\ o2.ofs \in Int
  BY DEF Operand
<1>2. Arith(op, o1.ofs, o2.ofs) \in Int
  BY <1>1, ArithInt
<1>3. /\ [o1 EXCEPT !.ofs = Arith(op, @, o2.ofs)] \in Operand
      /\ [o1 EXCEPT !.ofs = Arith(op, @, o2.ofs)].opr = o1.opr
  BY <1>2 DEF Operand
<1>4. CASE o1.opr = "imm"
  BY <1>3, <1>4 DEF Combined
<1>5. CASE o1.opr # "imm"
  <2>1. CanAddRegs(MemValue(o1, o2, op), o2, op) /\ (op = "mul" => CanScale(o1, o2))
    BY <1>5 DEF CanCombine
  <2>2. MemValue(o1, o2, op) \in Operand /\ MemValue(o1, o2, op).opr = o1.opr
    BY <1>3, <2>1, ScaledType DEF MemValue
  <2>3. Combined(o1, o2, op) = AddRegs(MemValue(o1, o2, op), o2)
    BY <1>5 DEF Combined
  <2> QED
    BY <2>1, <2>2, <2>3, AddRegsType
<1> QED
  BY <1>4, <1>5

-----------------------------------------------------------------------------
(* The next token has its type, also at the end of the text.               *)
LEMMA TokType ==
  ASSUME TypeOK
  PROVE  Tok.t \in Classes \cup {"end"} /\ Tok.ofs \in Int /\ Tok.reg \in Regs \cup {NoReg}
<1>1. pc \in Nat \ {0} /\ term.text \in Seq(Token) /\ Len(term.text) \in Nat
  BY LenProperties DEF TypeOK
<1>2. CASE pc <= Len(term.text)
  <2>1. term.text[pc] \in Token
    BY <1>1, <1>2, ElementOfSeq
  <2> QED
    BY <1>2, <2>1 DEF Tok, Token
<1>3. CASE ~(pc <= Len(term.text))
  BY <1>3 DEF Tok
<1> QED
  BY <1>2, <1>3

(* Nothing is read behind the end.                                         *)
LEMMA Consumed ==
  ASSUME TypeOK, Tok.t # "end", Consume
  PROVE  /\ pc' \in 1..(Len(term'.text) + 1) /\ pc' = pc + 1
         /\ term' = term /\ status' = status /\ Tok = term.text[pc]
<1>1. pc \in 1..(Len(term.text) + 1) /\ Len(term.text) \in Nat
  BY LenProperties DEF TypeOK
<1> QED
  BY <1>1 DEF Consume, Tok

(* What _ins_kpr does to the stacks.                                       *)
LEMMA Pushed ==
  ASSUME opds \in Seq(Operand), ops \in Seq(Binary \cup Openers),
         NEW o \in Operand, PushOpd(o)
  PROVE  /\ opds' \in Seq(Operand) /\ ops' \in Seq(Binary \cup Openers)
         /\ Len(opds') = Len(opds) + 1
         /\ \A i \in 1..Len(opds) : opds'[i] = opds[i]
         /\ opds'[Len(opds) + 1].opr = o.opr
         /\ Len(ops') = Len(ops)
         /\ \A i \in 1..Len(ops) :
              ops'[i] = ops[i] \/ (ops[i] = "sub" /\ ops'[i] = "add")
<1>1. Len(opds) \in Nat /\ Len(ops) \in Nat
  BY LenProperties
<1>2. CASE ops # <<>> /\ Top = "sub"
  <2> DEFINE p == [o EXCEPT !.ofs = -@]
  <2>1. p \in Operand /\ p.opr = o.opr
    <3>1. o.ofs \in Int /\ -o.ofs \in Int
      BY DEF Operand
    <3> QED
      BY <3>1 DEF Operand
  <2>2. opds' = Append(opds, p) /\ ops' = [ops EXCEPT ![Len(ops)] = "add"]
    BY <1>2 DEF PushOpd
  <2> HIDE DEF p
  <2>3. Len(ops) \in 1..Len(ops)
    BY <1>2, LastSeq
  <2>4. "add" \in Binary \cup Openers
    BY DEF Binary
  <2>5. ops' \in Seq(Binary \cup Openers) /\ Len(ops') = Len(ops)
    BY <2>2, <2>3, <2>4, ExceptSeq
  <2>6. \A i \in 1..Len(ops) : ops'[i] = IF i = Len(ops) THEN "add" ELSE ops[i]
    BY <2>2, <2>3, LenProperties
  <2>7. ops[Len(ops)] = "sub"
    BY <1>2 DEF Top, Last
  <2>8. /\ opds' \in Seq(Operand) /\ Len(opds') = Len(opds) + 1
        /\ \A i \in 1..Len(opds) : opds'[i] = opds[i]
        /\ opds'[Len(opds) + 1] = p
    BY <2>1, <2>2, AppendProperties
  <2> QED
    BY <2>1, <2>5, <2>6, <2>7, <2>8
<1>3. CASE ~(ops # <<>> /\ Top = "sub")
  <2>1. opds' = Append(opds, o) /\ ops' = ops
    BY <1>3 DEF PushOpd
  <2> QED
    BY <2>1, AppendProperties
<1> QED
  BY <1>2, <1>3

(* The operand a value, a register or the like becomes.                    *)
LEMMA KindType ==
  ASSUME TypeOK, NEW d \in Kinds
  PROVE  /\ Kind(d) \in Kinds
         /\ Blank(Kind(d)) \in Operand /\ Blank(Kind(d)).opr = Kind(d)
         /\ \A n \in Int : LET o == [Blank(Kind(d)) EXCEPT !.ofs = n]
                          IN  o \in Operand /\ o.opr = Kind(d)
         /\ \A r \in Regs \cup {NoReg} : LET o == [Blank(Kind(d)) EXCEPT !.reg1 = r]
                                        IN  o \in Operand /\ o.opr = Kind(d)
<1>1. Kind(d) \in Kinds
  BY DEF Kind, TypeOK, Outcome
<1>2. Blank(Kind(d)) = [opr |-> Kind(d), reg1 |-> NoReg, scale1 |-> 0, reg2 |-> NoReg, ofs |-> 0]
  BY DEF Blank
<1> QED
  BY <1>1, <1>2 DEF Operand

(* What Reduce takes from the stacks.                                      *)
LEMMA Reduced ==
  ASSUME TypeOK, Reduce
  PROVE  /\ opds' \in Seq(Operand) /\ ops' \in Seq(Binary \cup Openers)
         /\ Len(opds') = Len(opds) - 1 /\ Len(opds) >= 2
         /\ \A i \in 1..(Len(opds) - 2) : opds'[i] = opds[i]
         /\ opds'[Len(opds) - 1].opr = opds[Len(opds) - 1].opr
         /\ Len(ops') = Len(ops) - 1 /\ Len(ops) \in Nat \ {0}
         /\ \A i \in 1..(Len(ops) - 1) : ops'[i] = ops[i]
<1>1. Len(opds) >= 2 /\ CanCombine(Below, Last(opds), Top) /\ Top \in Binary /\ ops # <<>>
  BY DEF Reduce, Reading, Legal, Reducing, TopPrior
<1>2. opds \in Seq(Operand) /\ ops \in Seq(Binary \cup Openers) /\ Len(opds) \in Nat
  BY LenProperties DEF TypeOK
<1>3. Below \in Operand
  BY <1>1, <1>2, ElementOfSeq DEF Below
<1>4. opds # <<>>
  BY <1>1, <1>2, EmptySeq
<1>5. Last(opds) \in Operand
  BY <1>2, <1>4, LastSeq
<1> DEFINE c == Combined(Below, Last(opds), Top)
<1>6. c \in Operand /\ c.opr = Below.opr
  BY <1>1, <1>3, <1>5, CombinedType
<1>7. opds' = Append(Front(Front(opds)), c) /\ ops' = Front(ops)
  BY DEF Reduce
<1> HIDE DEF c
<1> DEFINE f == Front(opds)
<1>8. f \in Seq(Operand) /\ Len(f) = Len(opds) - 1 /\ \A i \in 1..(Len(opds) - 1) : f[i] = opds[i]
  BY <1>2, <1>4, FrontSeq
<1> HIDE DEF f
<1>9. f # <<>>
  BY <1>1, <1>2, <1>8, EmptySeq
<1> DEFINE g == Front(f)
<1>10. g \in Seq(Operand) /\ Len(g) = Len(f) - 1 /\ \A i \in 1..(Len(f) - 1) : g[i] = f[i]
  BY <1>8, <1>9, FrontSeq
<1>11. opds' = Append(g, c)
  BY <1>7 DEF f
<1> HIDE DEF g
<1>12. /\ opds' \in Seq(Operand) /\ Len(opds') = Len(g) + 1
       /\ \A i \in 1..Len(g) : opds'[i] = g[i]
       /\ opds'[Len(g) + 1] = c
  BY <1>6, <1>10, <1>11, AppendProperties
<1>13. Len(g) = Len(opds) - 2
  BY <1>2, <1>8, <1>10
<1>14. \A i \in 1..(Len(opds) - 2) : opds'[i] = opds[i]
  BY <1>2, <1>8, <1>10, <1>12, <1>13
<1>15. opds'[Len(opds) - 1].opr = opds[Len(opds) - 1].opr
  BY <1>2, <1>6, <1>12, <1>13 DEF Below
<1>16. /\ ops' \in Seq(Binary \cup Openers) /\ Len(ops') = Len(ops) - 1 /\ Len(ops) \in Nat \ {0}
       /\ \A i \in 1..(Len(ops) - 1) : ops'[i] = ops[i]
  BY <1>1, <1>2, <1>7, FrontSeq, LastSeq
<1>17. opds' \in Seq(Operand) /\ Len(opds') = Len(opds) - 1
  BY <1>2, <1>12, <1>13
<1> QED
  BY <1>1, <1>14, <1>15, <1>16, <1>17

(* The result of an operand keeps its type and its kind.                   *)
LEMMA ResultType ==
  ASSUME TypeOK
  PROVE  Result \in Outcome
<1>1. rmo \in Outcome /\ opds \in Seq(Operand)
  BY DEF TypeOK
<1>2. CASE opds = <<>>
  BY <1>1, <1>2 DEF Result
<1>3. CASE opds # <<>>
  <2>1. Last(opds) \in Operand
    BY <1>1, <1>3, LastSeq
  <2> QED
    BY <1>1, <1>3, <2>1 DEF Result, Operand, Outcome
<1> QED
  BY <1>2, <1>3

-----------------------------------------------------------------------------
(* One step of the parser keeps the types.                                 *)
LEMMA TypeStep ==
  ASSUME TypeOK, [Next]_vars
  PROVE  TypeOK'
<1>1. /\ term.text \in Seq(Token) /\ term.mean \in Meaning \cup {NoMean}
      /\ pc \in 1..(Len(term.text) + 1)
      /\ rmo \in Outcome
      /\ opds \in Seq(Operand)
      /\ ops \in Seq(Binary \cup Openers)
      /\ status \in {"scan", "ok", "bad"}
  BY DEF TypeOK
<1>2. Tok.t \in Classes \cup {"end"} /\ Tok.ofs \in Int /\ Tok.reg \in Regs \cup {NoReg}
  BY TokType
<1>3. {"reg", "seg", "imm", "mem", "cr"} = Kinds
  BY DEF Kinds
<1>4. CASE Number
  <2>1. Kind("imm") \in Kinds /\ [Blank(Kind("imm")) EXCEPT !.ofs = Tok.ofs] \in Operand
    BY <1>2, <1>3, KindType
  <2>2. opds' \in Seq(Operand) /\ ops' \in Seq(Binary \cup Openers)
    BY <1>1, <1>4, <2>1, Pushed DEF Number
  <2>3. rmo' \in Outcome
    BY <1>1, <1>4, <2>1 DEF Number, Outcome
  <2>4. Tok.t # "end"
    BY <1>4 DEF Number, Reading, Values
  <2> QED
    BY <1>1, <1>4, <2>2, <2>3, <2>4, Consumed DEF Number, TypeOK
<1>5. CASE Register
  <2>1. Kind("reg") \in Kinds /\ [Blank(Kind("reg")) EXCEPT !.reg1 = Tok.reg] \in Operand
    BY <1>2, <1>3, KindType
  <2>2. opds' \in Seq(Operand) /\ ops' \in Seq(Binary \cup Openers)
    BY <1>1, <1>5, <2>1, Pushed DEF Register
  <2>3. rmo' \in Outcome
    BY <1>1, <1>2, <1>5, <2>1 DEF Register, Outcome
  <2>4. Tok.t # "end"
    BY <1>5 DEF Register, Reading
  <2> QED
    BY <1>1, <1>5, <2>2, <2>3, <2>4, Consumed DEF Register, TypeOK
<1>6. CASE Segment
  <2>1. Kind("seg") \in Kinds /\ Blank(Kind("seg")) \in Operand
    BY <1>3, KindType
  <2>2. opds' \in Seq(Operand) /\ ops' \in Seq(Binary \cup Openers)
    BY <1>1, <1>6, <2>1, Pushed DEF Segment
  <2>3. rmo' \in Outcome
    BY <1>1, <1>6, <2>1 DEF Segment, Outcome
  <2>4. Tok.t # "end"
    BY <1>6 DEF Segment, Reading
  <2> QED
    BY <1>1, <1>6, <2>2, <2>3, <2>4, Consumed DEF Segment, TypeOK
<1>7. CASE Control
  <2>1. [Blank("cr") EXCEPT !.ofs = Tok.ofs] \in Operand
    BY <1>2, <1>3 DEF Blank, Operand
  <2>2. opds' \in Seq(Operand) /\ ops' \in Seq(Binary \cup Openers)
    BY <1>1, <1>7, <2>1, Pushed DEF Control
  <2>3. rmo' \in Outcome
    BY <1>1, <1>2, <1>3, <1>7 DEF Control, Outcome
  <2>4. Tok.t # "end"
    BY <1>7 DEF Control, Reading
  <2> QED
    BY <1>1, <1>7, <2>2, <2>3, <2>4, Consumed DEF Control, TypeOK
<1>8. CASE Modifier
  <2>1. rmo' \in Outcome
    <3> DEFINE opr  == IF Tok.t \in {"size", "segment"} THEN "mem" ELSE rmo.opr
               size == rmo.size \/ Tok.t = "size"
               rel  == rmo.rel \/ Tok.t = "rel"
               seg  == rmo.seg \/ Tok.t = "segment"
    <3>1. opr \in Kinds \cup {"undef"}
      <4>1. rmo.opr \in Kinds \cup {"undef"}
        BY <1>1 DEF Outcome
      <4>2. QED
        BY <1>3, <4>1
    <3>2. size \in BOOLEAN /\ rel \in BOOLEAN /\ seg \in BOOLEAN
      BY Zenon
    <3>3. rmo' = [rmo EXCEPT !.opr = opr, !.size = size, !.rel = rel, !.seg = seg]
      BY <1>8 DEF Modifier
    <3> HIDE DEF opr, size, rel, seg
    <3>4. QED
      BY <1>1, <3>1, <3>2, <3>3 DEF Outcome
  <2>2. Tok.t # "end"
    BY <1>8 DEF Modifier, Reading
  <2> QED
    BY <1>1, <1>8, <2>1, <2>2, Consumed DEF Modifier, stacks, TypeOK
<1>9. CASE Open
  <2>1. rmo' \in Outcome
    BY <1>1, <1>3, <1>9 DEF Open, Outcome
  <2>2. Tok.t \in Openers /\ Tok.t # "end"
    BY <1>9 DEF Open, Reading, Openers
  <2>3. ops' \in Seq(Binary \cup Openers)
    BY <1>1, <1>9, <2>2, AppendProperties DEF Open
  <2> QED
    BY <1>1, <1>9, <2>1, <2>2, <2>3, Consumed DEF Open, TypeOK
<1>10. CASE Reduce
  <2>1. opds' \in Seq(Operand) /\ ops' \in Seq(Binary \cup Openers)
    BY <1>10, Reduced
  <2> QED
    BY <1>1, <1>10, <2>1 DEF Reduce, TypeOK
<1>11. CASE Shift
  <2>1. Tok.t \in Binary /\ Tok.t # "end"
    BY <1>11 DEF Shift, Reading, Binary
  <2>2. ops' \in Seq(Binary \cup Openers)
    BY <1>1, <1>11, <2>1, AppendProperties DEF Shift
  <2> QED
    BY <1>1, <1>11, <2>1, <2>2, Consumed DEF Shift, TypeOK
<1>12. CASE Close
  <2>1. Tok.t # "end"
    BY <1>12 DEF Close, Reading, Closers
  <2>2. ops' \in Seq(Binary \cup Openers)
    BY <1>1, <1>12, FrontSeq DEF Close, TopPrior
  <2> QED
    BY <1>1, <1>12, <2>1, <2>2, Consumed DEF Close, TypeOK
<1>13. CASE Finish
  BY <1>1, <1>13, ResultType, EmptySeq DEF Finish, TypeOK
<1>14. CASE Fail
  BY <1>1, <1>14, EmptySeq DEF Fail, TypeOK
<1>15. CASE Done \/ UNCHANGED vars
  BY <1>1, <1>15 DEF Done, vars, stacks, TypeOK
<1> QED
  BY <1>4, <1>5, <1>6, <1>7, <1>8, <1>9, <1>10, <1>11, <1>12, <1>13, <1>14, <1>15 DEF Next

(* An operator is pushed only on one that does not bind more, and _ins_kpr *)
(* turns only a difference into a sum.                                     *)
LEMMA OrderStep ==
  ASSUME TypeOK, StackOrdered, [Next]_vars
  PROVE  StackOrdered'
<1>1. ops \in Seq(Binary \cup Openers) /\ opds \in Seq(Operand) /\ Len(ops) \in Nat
  BY LenProperties DEF TypeOK
<1> DEFINE Replaced == /\ Len(ops') = Len(ops)
                       /\ \A i \in 1..Len(ops) :
                            ops'[i] = ops[i] \/ (ops[i] = "sub" /\ ops'[i] = "add")
<1>2. ASSUME Replaced PROVE StackOrdered'
  BY <1>1, <1>2 DEF StackOrdered
<1>3. ASSUME NEW n \in Nat, n <= Len(ops), Len(ops') = n, \A i \in 1..n : ops'[i] = ops[i]
      PROVE  StackOrdered'
  BY <1>1, <1>3 DEF StackOrdered
<1>4. ASSUME NEW t, ops' = Append(ops, t), ops # <<>> /\ Top \in {"mul", "rar"} => t \notin {"add", "sub", Top},
             t \in Binary \cup Openers
      PROVE  StackOrdered'
  <2>1. Len(ops') = Len(ops) + 1 /\ ops'[Len(ops) + 1] = t /\ \A i \in 1..Len(ops) : ops'[i] = ops[i]
    BY <1>1, <1>4, AppendProperties
  <2>2. SUFFICES ASSUME NEW i \in 1..Len(ops), ops'[i] \in {"mul", "rar"}
                 PROVE  ops'[i + 1] \notin {"add", "sub", ops'[i]}
    BY <1>1, <2>1 DEF StackOrdered
  <2>3. CASE i = Len(ops)
    <3>1. ops # <<>> /\ Top = ops[i]
      BY <1>1, <2>3, EmptySeq DEF Top, Last
    <3> QED
      BY <1>1, <1>4, <2>1, <2>2, <2>3, <3>1
  <2>4. CASE i # Len(ops)
    BY <1>1, <2>1, <2>2, <2>4 DEF StackOrdered
  <2> QED
    BY <2>3, <2>4
<1>5. {"reg", "seg", "imm", "mem", "cr"} = Kinds
  BY DEF Kinds
<1>6. Tok.t \in Classes \cup {"end"} /\ Tok.ofs \in Int /\ Tok.reg \in Regs \cup {NoReg}
  BY TokType
<1>7. CASE Number
  <2>1. [Blank(Kind("imm")) EXCEPT !.ofs = Tok.ofs] \in Operand
    BY <1>5, <1>6, KindType
  <2> QED
    BY <1>1, <1>2, <1>7, <2>1, Pushed DEF Number
<1>8. CASE Register
  <2>1. [Blank(Kind("reg")) EXCEPT !.reg1 = Tok.reg] \in Operand
    BY <1>5, <1>6, KindType
  <2> QED
    BY <1>1, <1>2, <1>8, <2>1, Pushed DEF Register
<1>9. CASE Segment
  <2>1. Blank(Kind("seg")) \in Operand
    BY <1>5, KindType
  <2> QED
    BY <1>1, <1>2, <1>9, <2>1, Pushed DEF Segment
<1>10. CASE Control
  <2>1. [Blank("cr") EXCEPT !.ofs = Tok.ofs] \in Operand
    BY <1>5, <1>6 DEF Blank, Operand
  <2> QED
    BY <1>1, <1>2, <1>10, <2>1, Pushed DEF Control
<1>11. CASE Open
  <2>1. Tok.t \in Openers
    BY <1>11 DEF Open, Reading
  <2> QED
    BY <1>4, <1>11, <2>1 DEF Open, Openers
<1>12. CASE Reduce
  <2>1. /\ Len(ops') = Len(ops) - 1 /\ Len(ops) \in Nat \ {0}
        /\ \A i \in 1..(Len(ops) - 1) : ops'[i] = ops[i]
    BY <1>12, Reduced
  <2>2. Len(ops) - 1 \in Nat /\ Len(ops) - 1 <= Len(ops)
    BY <2>1
  <2> QED
    BY <1>3, <2>1, <2>2
<1>13. CASE Shift
  <2>1. Tok.t \in Binary /\ ~Reducing
    BY <1>13 DEF Shift, Reading
  <2>2. ops # <<>> /\ Top \in {"mul", "rar"} => Tok.t \notin {"add", "sub", Top}
    BY <2>1 DEF Reducing, TopPrior, IsPrior, get_op_pridx, Binary, Openers, Closers
  <2> QED
    BY <1>4, <1>13, <2>1, <2>2 DEF Shift
<1>14. CASE Close
  <2>1. CASE TopPrior
    BY <1>1, <1>3, <1>14, <2>1, FrontSeq, LastSeq DEF Close, TopPrior
  <2>2. CASE ~TopPrior
    BY <1>14, <2>2 DEF Close, StackOrdered
  <2> QED
    BY <2>1, <2>2
<1>15. CASE Finish \/ Fail
  <2>1. ops' = <<>>
    BY <1>15 DEF Finish, Fail
  <2> QED
    BY <1>1, <1>3, <2>1, EmptySeq
<1>16. CASE Modifier \/ Done \/ UNCHANGED vars
  BY <1>16 DEF Modifier, Done, vars, stacks, StackOrdered
<1> QED
  BY <1>7, <1>8, <1>9, <1>10, <1>11, <1>12, <1>13, <1>14, <1>15, <1>16 DEF Next

(* An operand gets the kind of the whole when it is pushed, and computing  *)
(* one keeps it.  The kind changes only while there are no operands, except*)
(* for a control register.                                                 *)
LEMMA KindsStep ==
  ASSUME TypeOK, KindsAgree, [Next]_vars
  PROVE  KindsAgree'
<1> DEFINE NoCr == \A i \in 1..(pc - 1) : term.text[i].t # "cr"
           Same == \A i \in 1..Len(opds) : opds[i].opr = rmo.opr
<1>1. /\ opds \in Seq(Operand) /\ ops \in Seq(Binary \cup Openers)
      /\ Len(opds) \in Nat /\ pc \in Nat \ {0}
  BY LenProperties DEF TypeOK
<1>2. KindsAgree = (NoCr => Same)
  BY DEF KindsAgree
<1>3. \A i \in 1..Len(opds) : opds[i].opr \in Kinds
  <2>1. \A i \in 1..Len(opds) : opds[i] \in Operand
    BY <1>1, ElementOfSeq
  <2> QED
    BY <2>1 DEF Operand
<1>4. Same /\ rmo.opr = "undef" => Len(opds) = 0
  BY <1>1, <1>3 DEF Kinds
<1>5. ASSUME Consume, Tok.t # "end", KindsAgree, ~KindsAgree'
      PROVE  /\ Same /\ NoCr /\ ~Same' /\ Tok.t # "cr" /\ Len(opds) \in Nat
  <2>1. NoCr' /\ ~Same'
    BY <1>5 DEF KindsAgree
  <2>2. pc' = pc + 1 /\ term' = term /\ Tok = term.text[pc]
    BY <1>5, Consumed
  <2>3. NoCr /\ term.text[pc].t # "cr"
    BY <1>1, <2>1, <2>2
  <2> QED
    BY <1>1, <1>2, <1>5, <2>1, <2>2, <2>3
<1>6. ASSUME NEW o \in Operand, NEW d \in Kinds, PushOpd(o), o.opr = Kind(d), rmo'.opr = Kind(d), Same
      PROVE  Same'
  <2>1. /\ Len(opds') = Len(opds) + 1
        /\ \A i \in 1..Len(opds) : opds'[i] = opds[i]
        /\ opds'[Len(opds) + 1].opr = Kind(d)
    BY <1>1, <1>6, Pushed
  <2>2. \A i \in 1..Len(opds) : opds[i].opr = Kind(d)
    BY <1>4, <1>6 DEF Kind
  <2> QED
    BY <1>1, <1>6, <2>1, <2>2
<1>7. ASSUME Same, opds' = opds, rmo'.opr = rmo.opr \/ rmo.opr = "undef"
      PROVE  Same'
  BY <1>1, <1>4, <1>7
<1>8. {"reg", "seg", "imm", "mem", "cr"} = Kinds
  BY DEF Kinds
<1>9. Tok.t \in Classes \cup {"end"} /\ Tok.ofs \in Int /\ Tok.reg \in Regs \cup {NoReg} /\ rmo \in Outcome
  BY TokType DEF TypeOK
<1> HIDE DEF Same, NoCr
<1>10. CASE Number
  <2>1. LET o == [Blank(Kind("imm")) EXCEPT !.ofs = Tok.ofs] IN o \in Operand /\ o.opr = Kind("imm")
    BY <1>8, <1>9, KindType
  <2>2. rmo'.opr = Kind("imm") /\ Consume /\ Tok.t # "end"
    BY <1>9, <1>10 DEF Number, Outcome, Reading, Values
  <2> QED
    BY <1>5, <1>6, <1>8, <1>10, <2>1, <2>2 DEF Number
<1>11. CASE Register
  <2>1. LET o == [Blank(Kind("reg")) EXCEPT !.reg1 = Tok.reg] IN o \in Operand /\ o.opr = Kind("reg")
    BY <1>8, <1>9, KindType
  <2>2. rmo'.opr = Kind("reg") /\ Consume /\ Tok.t # "end"
    BY <1>9, <1>11 DEF Register, Outcome, Reading
  <2> QED
    BY <1>5, <1>6, <1>8, <1>11, <2>1, <2>2 DEF Register
<1>12. CASE Segment
  <2>1. Blank(Kind("seg")) \in Operand /\ Blank(Kind("seg")).opr = Kind("seg")
    BY <1>8, KindType
  <2>2. rmo'.opr = Kind("seg") /\ Consume /\ Tok.t # "end"
    BY <1>9, <1>12 DEF Segment, Outcome, Reading
  <2> QED
    BY <1>5, <1>6, <1>8, <1>12, <2>1, <2>2 DEF Segment
<1>13. CASE Control
  <2>1. Tok.t = "cr" /\ Consume
    BY <1>13 DEF Control, Reading
  <2> QED
    BY <1>5, <2>1
<1>14. CASE Modifier
  <2>1. opds' = opds /\ Consume /\ Tok.t # "end"
    BY <1>14 DEF Modifier, stacks, Reading
  <2>2. rmo'.opr = rmo.opr \/ rmo.opr = "undef"
    BY <1>9, <1>14 DEF Modifier, Reading, Legal, Outcome
  <2> QED
    BY <1>5, <1>7, <2>1, <2>2
<1>15. CASE Open
  <2>1. opds' = opds /\ Consume /\ Tok.t # "end"
    BY <1>15 DEF Open, Reading, Openers
  <2>2. rmo'.opr = rmo.opr \/ rmo.opr = "undef"
    BY <1>9, <1>15 DEF Open, Reading, Legal, Outcome, Openers
  <2> QED
    BY <1>5, <1>7, <2>1, <2>2
<1>16. CASE Reduce
  <2>1. /\ Len(opds') = Len(opds) - 1 /\ Len(opds) >= 2
        /\ \A i \in 1..(Len(opds) - 2) : opds'[i] = opds[i]
        /\ opds'[Len(opds) - 1].opr = opds[Len(opds) - 1].opr
    BY <1>16, Reduced
  <2>2. pc' = pc /\ term' = term /\ rmo' = rmo
    BY <1>16 DEF Reduce
  <2> QED
    BY <1>1, <1>2, <2>1, <2>2 DEF KindsAgree, Same, NoCr
<1>17. CASE Shift \/ Close
  <2>1. opds' = opds /\ rmo' = rmo /\ Consume /\ Tok.t # "end"
    BY <1>17 DEF Shift, Close, Reading, Binary, Closers
  <2> QED
    BY <1>5, <1>7, <2>1
<1>18. CASE Finish \/ Fail
  <2>1. opds' = <<>>
    BY <1>18 DEF Finish, Fail
  <2> QED
    BY <2>1, EmptySeq DEF KindsAgree
<1>19. CASE Done \/ UNCHANGED vars
  BY <1>19 DEF Done, vars, stacks, KindsAgree
<1> QED
  BY <1>10, <1>11, <1>12, <1>13, <1>14, <1>15, <1>16, <1>17, <1>18, <1>19 DEF Next

-----------------------------------------------------------------------------
(* The parser starts with empty stacks.                                    *)
LEMMA InitIInv == Init => IInv
<1> SUFFICES ASSUME Init PROVE IInv
  OBVIOUS
<1>1. term.text \in Seq(Token) /\ term.mean \in Meaning \cup {NoMean} /\ Len(term.text) \in Nat
  BY TermAssumption, LenProperties DEF Init
<1>2. TypeOK
  BY <1>1, EmptySeq DEF Init, TypeOK, Outcome
<1>3. Len(ops) = 0 /\ Len(opds) = 0
  BY EmptySeq DEF Init
<1>4. KindsAgree /\ StackOrdered
  BY <1>3 DEF KindsAgree, StackOrdered
<1> QED
  BY <1>2, <1>4 DEF IInv

(* Every value the parser holds has its type: scales never exceed 8 and    *)
(* nothing is read behind the end (bctx_parse_term).                       *)
THEOREM TypeCorrect == Spec => []TypeOK
<1>1. Init => TypeOK
  BY InitIInv DEF IInv
<1>2. TypeOK /\ [Next]_vars => TypeOK'
  BY TypeStep
<1> QED
  BY <1>1, <1>2, PTL DEF Spec

(* The invariant IInv: the types, KindsAgree and StackOrdered.             *)
THEOREM Invariance == Spec => []IInv
<1>1. IInv /\ [Next]_vars => IInv'
  BY TypeStep, KindsStep, OrderStep DEF IInv
<1> QED
  BY <1>1, InitIInv, PTL DEF Spec

(* The assertions about kinds in _combine_opds and bctx_parse_term hold    *)
(* for every text without a control register.                              *)
THEOREM Kinship == Spec => []KindsAgree
<1>1. IInv => KindsAgree
  BY DEF IInv
<1> QED
  BY <1>1, Invariance, PTL

(* For every text, what binds more is computed first (_try_combine_opds).  *)
THEOREM Precedence == Spec => []StackOrdered
<1>1. IInv => StackOrdered
  BY DEF IInv
<1> QED
  BY <1>1, Invariance, PTL

-----------------------------------------------------------------------------
(* h halves k n times.                                                     *)
Halving(h, k, n) == h[0] = k /\ \A i \in 1..n : h[i] \in Int /\ h[i-1] \in Int /\ h[i] = h[i-1] \div 2

(* Halved is what halving yields.                                          *)
LEMMA HalvedIs ==
  ASSUME NEW k \in Int, NEW n \in Nat
  PROVE  \E h : Halving(h, k, n) /\ Halved(k, n) = h[n]
<1> DEFINE st == [x \in Int \X (1..n) |-> x[1] \div 2]
<1>1. ASSUME NEW x \in Int, NEW i \in 1..n PROVE st[<<x, i>>] = x \div 2 /\ x \div 2 \in Int
  OBVIOUS
<1> HIDE DEF st
<1>2. Closed(Int, n, st)
  BY <1>1 DEF Closed
<1>3. PICK g \in [0..n -> Int] : Along(g, n, k, st)
  BY <1>2, Recursive
<1> DEFINE Fixes(h) == h = [i \in 0..n |-> IF i = 0 THEN k ELSE h[i-1] \div 2]
<1>4. Fixes(g)
  <2> DEFINE h == [i \in 0..n |-> IF i = 0 THEN k ELSE g[i-1] \div 2]
             h2 == [i \in 0..n |-> IF i = 0 THEN k ELSE st[<<g[i-1], i>>]]
  <2>1. ASSUME NEW i \in 0..n PROVE h[i] = h2[i]
    <3>1. CASE i = 0
      BY <3>1
    <3>2. CASE i # 0
      <4>1. i \in 1..n /\ i - 1 \in 0..n
        BY <3>2
      <4>2. g[i-1] \in Int
        BY <4>1
      <4>3. QED
        BY <3>2, <4>1, <4>2, <1>1
    <3>3. QED
      BY <3>1, <3>2
  <2>2. h = h2
    BY <2>1
  <2>3. g = h2
    BY <1>3 DEF Along
  <2>4. QED
    BY <2>2, <2>3
<1>5. Halved(k, n) = (CHOOSE h : Fixes(h))[n]
  BY DEF Halved
<1> DEFINE h == CHOOSE f : Fixes(f)
<1>6. Fixes(h)
  <2> HIDE DEF Fixes
  <2>1. QED
    BY <1>4, Zenon
<1> HIDE DEF h
<1>7. \A i \in 0..n : h[i] = IF i = 0 THEN k ELSE h[i-1] \div 2
  BY <1>6
<1>8. h[0] = k
  BY <1>7
<1> DEFINE T == {i \in Nat : i \in 0..n => h[i] \in Int}
<1>9. T = Nat
  <2>1. 0 \in T /\ T \subseteq Nat
    BY <1>8
  <2>2. ASSUME NEW i \in T PROVE i + 1 \in T
    <3>1. i \in Nat /\ i + 1 \in Nat
      OBVIOUS
    <3>2. SUFFICES ASSUME i + 1 \in 0..n PROVE h[i+1] \in Int
      BY <3>1
    <3>3. i \in 0..n /\ i + 1 # 0 /\ (i + 1) - 1 = i
      BY <3>1, <3>2
    <3>4. h[i] \in Int /\ h[i+1] = h[i] \div 2
      BY <3>2, <3>3, <1>7
    <3>5. QED
      BY <3>4
  <2> HIDE DEF T
  <2>3. QED
    BY <2>1, <2>2, SetInduction
<1>10. \A i \in 0..n : h[i] \in Int
  BY <1>9 DEF T
<1>11. ASSUME NEW i \in 1..n PROVE h[i] \in Int /\ h[i-1] \in Int /\ h[i] = h[i-1] \div 2
  <2>1. i \in 0..n /\ i - 1 \in 0..n /\ i # 0
    OBVIOUS
  <2>2. QED
    BY <2>1, <1>7, <1>10
<1>12. Halving(h, k, n) /\ Halved(k, n) = h[n]
  BY <1>5, <1>8, <1>11 DEF Halving, h
<1>13. QED
  BY <1>12

(* Halving a number once, twice, four times and so on divides it.          *)
Divides(h, n, m, d) == \A i \in 0..n : i + m <= n => h[i + m] = h[i] \div d

(* Every number on the way is an integer.                                  *)
LEMMA HalvingInt ==
  ASSUME NEW n \in Nat, NEW h, NEW k \in Int, Halving(h, k, n)
  PROVE  \A i \in 0..n : h[i] \in Int
<1>1. \A i \in 0..n : h[i] \in Int
  <2>1. SUFFICES ASSUME NEW i \in 0..n PROVE h[i] \in Int
    OBVIOUS
  <2>2. CASE i = 0
    BY <2>2 DEF Halving
  <2>3. CASE i # 0
    <3>1. i \in 1..n
      BY <2>3
    <3>2. QED
      BY <3>1 DEF Halving
  <2>4. QED
    BY <2>2, <2>3
<1>2. QED
  BY <1>1

(* Two divisions are one: by d and by e is by m2.                          *)
Quarter(m, d, m2, e) ==
  m \in Nat /\ m2 = m + m /\ \A x \in Int : (x \div d) \div d = x \div e

(* Halving m times divides by d; twice as often, by d times d.             *)
LEMMA DividesTwice ==
  ASSUME NEW n \in Nat, NEW h, NEW k \in Int, Halving(h, k, n),
         NEW m, NEW d, NEW m2, NEW e, Divides(h, n, m, d), Quarter(m, d, m2, e)
  PROVE  Divides(h, n, m2, e)
<1>0. m \in Nat /\ m2 = m + m
  BY DEF Quarter
<1>1. SUFFICES ASSUME NEW i \in 0..n, i + m2 <= n PROVE h[i + m2] = h[i] \div e
  BY DEF Divides
<1>2. i + m \in 0..n /\ i + m <= n /\ (i + m) + m <= n /\ (i + m) + m = i + m2
  BY <1>0, <1>1
<1>3. h[i + m] = h[i] \div d /\ h[(i + m) + m] = h[i + m] \div d
  BY <1>1, <1>2 DEF Divides
<1>4. h[i] \in Int
  BY HalvingInt
<1>5. (h[i] \div d) \div d = h[i] \div e
  BY <1>4 DEF Quarter
<1>6. QED
  BY <1>2, <1>3, <1>5

(* What halving 1, 2, 4, 8, 16 and 32 times divides by.                    *)
LEMMA Dividing ==
  ASSUME NEW n \in Nat, NEW h, NEW k \in Int, Halving(h, k, n)
  PROVE  /\ Divides(h, n, 1, 2) /\ Divides(h, n, 2, 4) /\ Divides(h, n, 4, 16)
         /\ Divides(h, n, 8, 256) /\ Divides(h, n, 16, 65536)
<1>2. Divides(h, n, 1, 2)
  <2>1. SUFFICES ASSUME NEW i \in 0..n, i + 1 <= n PROVE h[i + 1] = h[i] \div 2
    BY DEF Divides
  <2>2. i + 1 \in 1..n /\ (i + 1) - 1 = i
    BY <2>1
  <2>3. QED
    BY <2>2 DEF Halving
<1>3. Quarter(1, 2, 2, 4)
  BY DEF Quarter
<1>4. Quarter(2, 4, 4, 16)
  BY DEF Quarter
<1>5. Quarter(4, 16, 8, 256)
  BY DEF Quarter
<1>6. Quarter(8, 256, 16, 65536)
  BY DEF Quarter
<1>7. Divides(h, n, 2, 4)
  BY <1>2, <1>3, DividesTwice
<1>8. Divides(h, n, 4, 16)
  BY <1>7, <1>4, DividesTwice
<1>9. Divides(h, n, 8, 256)
  BY <1>8, <1>5, DividesTwice
<1>10. Divides(h, n, 16, 65536)
  BY <1>9, <1>6, DividesTwice
<1>11. QED
  BY <1>2, <1>7, <1>8, <1>9, <1>10

(* A shift by n bits, done bit by bit of n, halves a number n times (the   *)
(* arithmetic shift of bctx_parse_term).                                   *)
LEMMA SarHalves ==
  ASSUME NEW k \in Int, NEW n \in 0..63
  PROVE  Sar(k, n) = Halved(k, n)
<1> DEFINE Half(x, bit, div) == IF (n \div bit) % 2 = 1 THEN x \div div ELSE x
<1>1. PICK h : Halving(h, k, n) /\ Halved(k, n) = h[n]
  <2>1. n \in Nat
    OBVIOUS
  <2>2. QED
    BY <2>1, HalvedIs
<1>2. /\ h[0] = k
      /\ Divides(h, n, 1, 2) /\ Divides(h, n, 2, 4) /\ Divides(h, n, 4, 16)
      /\ Divides(h, n, 8, 256) /\ Divides(h, n, 16, 65536)
  BY <1>1, Dividing DEF Halving
<1>3. n \in Nat /\ n <= 63
  OBVIOUS
<1> DEFINE b == n
<1>4. Half(k, 1, 2) = h[n % 2]
  <2>1. (n \div 1) % 2 = n % 2 /\ n % 2 \in 0..1 /\ n % 2 <= n
    BY <1>3
  <2>2. CASE n % 2 = 0
    BY <1>2, <2>1, <2>2
  <2>3. CASE n % 2 = 1
    <3>1. h[0 + 1] = h[0] \div 2
      BY <1>2, <1>3, <2>1, <2>3 DEF Divides
    <3>2. QED
      BY <1>2, <2>1, <2>3, <3>1
  <2>4. QED
    BY <2>1, <2>2, <2>3
<1>5. ASSUME NEW m \in Nat, NEW d \in Nat, NEW i \in Nat, NEW j \in Nat, Divides(h, n, m, d), j <= n,
             j = IF (n \div m) % 2 = 1 THEN i + m ELSE i
      PROVE  Half(h[i], m, d) = h[j]
  <2>1. CASE (n \div m) % 2 = 1
    <3>1. i \in 0..n /\ i + m <= n /\ j = i + m
      BY <1>5, <1>3, <2>1
    <3>2. h[i + m] = h[i] \div d
      BY <1>5, <3>1 DEF Divides
    <3>3. QED
      BY <2>1, <3>1, <3>2
  <2>2. CASE (n \div m) % 2 # 1
    BY <1>5, <2>2
  <2>3. QED
    BY <2>1, <2>2
<1>6. /\ n % 4 = IF (n \div 2) % 2 = 1 THEN (n % 2) + 2 ELSE n % 2
      /\ n % 8 = IF (n \div 4) % 2 = 1 THEN (n % 4) + 4 ELSE n % 4
      /\ n % 16 = IF (n \div 8) % 2 = 1 THEN (n % 8) + 8 ELSE n % 8
      /\ n % 32 = IF (n \div 16) % 2 = 1 THEN (n % 16) + 16 ELSE n % 16
  BY <1>3
<1>7. /\ n % 2 \in Nat /\ n % 4 \in Nat /\ n % 8 \in Nat /\ n % 16 \in Nat /\ n % 32 \in Nat
      /\ n % 2 <= n /\ n % 4 <= n /\ n % 8 <= n /\ n % 16 <= n /\ n % 32 <= n
  BY <1>3
<1> HIDE DEF Half
<1>8. Half(h[n % 2], 2, 4) = h[n % 4]
  BY <1>2, <1>5, <1>6, <1>7
<1>9. Half(h[n % 4], 4, 16) = h[n % 8]
  BY <1>2, <1>5, <1>6, <1>7
<1>10. Half(h[n % 8], 8, 256) = h[n % 16]
  BY <1>2, <1>5, <1>6, <1>7
<1>11. Half(h[n % 16], 16, 65536) = h[n % 32]
  BY <1>2, <1>5, <1>6, <1>7
<1>12. (IF (n \div 32) % 2 = 1 THEN (h[n % 32] \div 65536) \div 65536 ELSE h[n % 32]) = h[n]
  <2>1. CASE (n \div 32) % 2 = 1
    <3>1. n = (n % 32) + 32 /\ n % 32 \in 0..n /\ (n % 32) + 16 \in 0..n
          /\ ((n % 32) + 16) + 16 = n
      BY <1>3, <1>7, <2>1
    <3>2. h[(n % 32) + 16] = h[n % 32] \div 65536
      BY <1>2, <3>1 DEF Divides
    <3>3. h[((n % 32) + 16) + 16] = h[(n % 32) + 16] \div 65536
      BY <1>2, <3>1 DEF Divides
    <3>4. QED
      BY <2>1, <3>1, <3>2, <3>3
  <2>2. CASE (n \div 32) % 2 # 1
    <3>1. n % 32 = n
      BY <1>3, <2>2
    <3>2. QED
      BY <2>2, <3>1
  <2>3. QED
    BY <2>1, <2>2
<1>13. Sar(k, n) = IF (n \div 32) % 2 = 1 THEN (h[n % 32] \div 65536) \div 65536 ELSE h[n % 32]
  BY <1>4, <1>8, <1>9, <1>10, <1>11 DEF Sar, Half
<1>14. QED
  BY <1>1, <1>12, <1>13

(* What an operand has of each register.                                   *)
LEMMA CoefIs ==
  ASSUME NEW o \in Operand
  PROVE  /\ Coef(o) \in [Regs -> Nat]
         /\ \A r \in Regs : Coef(o)[r] = (IF o.reg1 = r THEN Factor(o) ELSE 0) + (IF o.reg2 = r THEN 1 ELSE 0)
         /\ Factor(o) \in 1..8
<1>1. Factor(o) \in 1..8
  BY DEF Factor, Operand
<1>2. QED
  BY <1>1 DEF Coef

(* Two operands that have the same registers and scales.                   *)
LEMMA SameCoef ==
  ASSUME NEW o, NEW p, o.reg1 = p.reg1, o.scale1 = p.scale1, o.reg2 = p.reg2
  PROVE  Coef(o) = Coef(p) /\ Factor(o) = Factor(p)
  BY DEF Coef, Factor

(* _combine_opds with a number as its second operand.                      *)
LEMMA AddNumber ==
  ASSUME NEW o1 \in Operand, NEW o2 \in Operand, NEW v \in Value, NEW w \in Value, NEW kind \in {"imm", "mem"},
         Rep(o1, v, kind), Rep(o2, w, kind), w.form = "number", NEW op \in {"add", "sub"}
  PROVE  /\ CanCombine(o1, o2, op)
         /\ Combined(o1, o2, op) = [o1 EXCEPT !.ofs = Arith(op, @, o2.ofs)]
<1>1. o2.reg1 = NoReg /\ o2.reg2 = NoReg /\ o1.opr = kind /\ o2.opr = kind
  BY DEF Rep, FormIs
<1>2. MemValue(o1, o2, op) = [o1 EXCEPT !.ofs = Arith(op, @, o2.ofs)]
  BY DEF MemValue
<1>3. CanAddRegs(MemValue(o1, o2, op), o2, op)
  BY <1>1 DEF CanAddRegs
<1>4. AddRegs(MemValue(o1, o2, op), o2) = MemValue(o1, o2, op)
  BY <1>1 DEF AddRegs
<1>5. QED
  BY <1>1, <1>2, <1>3, <1>4 DEF CanCombine, Combined

(* A number added or subtracted changes only the number.                   *)
LEMMA NumberAdded ==
  ASSUME NEW o1 \in Operand, NEW o2 \in Operand, NEW v \in Value, NEW w \in Value, NEW kind \in {"imm", "mem"},
         Rep(o1, v, kind), Rep(o2, w, kind), w.form = "number"
  PROVE  /\ CanCombine(o1, o2, "add") /\ Rep(Combined(o1, o2, "add"), Added(v, w), kind)
         /\ CanCombine(o1, o2, "sub") /\ Rep(Combined(o1, o2, "sub"), Added(v, Negated(w)), kind)
<1>1. o1.ofs \in Int /\ o2.ofs \in Int /\ v.k = o1.ofs /\ w.k = o2.ofs /\ o1.opr = kind
  BY DEF Operand, Rep
<1>2. v.coef \in [Regs -> Nat] /\ Coef(o1) = v.coef /\ Coef(o2) = w.coef
  BY DEF Value, Rep
<1>3. \A r \in Regs : w.coef[r] = 0
  <2>1. o2.reg1 = NoReg /\ o2.reg2 = NoReg
    BY DEF Rep, FormIs
  <2>2. QED
    BY <2>1, <1>2, CoefIs, RegAssumption
<1>4. [r \in Regs |-> v.coef[r] + w.coef[r]] = v.coef
  BY <1>2, <1>3
<1>5. Added(v, w) = [k |-> v.k + w.k, coef |-> v.coef, form |-> v.form]
  BY <1>4 DEF Added, FormAdded
<1>6. Added(v, Negated(w)) = [k |-> v.k + (-w.k), coef |-> v.coef, form |-> v.form]
  BY <1>4 DEF Added, FormAdded, Negated
<1>7. ASSUME NEW op \in {"add", "sub"}, NEW k \in Int, k = Arith(op, o1.ofs, o2.ofs)
      PROVE  CanCombine(o1, o2, op)
             /\ Rep(Combined(o1, o2, op), [k |-> k, coef |-> v.coef, form |-> v.form], kind)
  <2>1. CanCombine(o1, o2, op) /\ Combined(o1, o2, op) = [o1 EXCEPT !.ofs = k]
    BY <1>7, AddNumber
  <2> DEFINE c == [o1 EXCEPT !.ofs = k]
  <2>2. /\ c.opr = kind /\ c.ofs = k /\ c.reg1 = o1.reg1 /\ c.scale1 = o1.scale1 /\ c.reg2 = o1.reg2
    BY <1>1 DEF Operand
  <2> HIDE DEF c
  <2>3. Coef(c) = v.coef
    BY <1>2, <2>2, SameCoef
  <2>4. FormIs(c, v.form) /\ (kind = "imm" => v.form = "number")
    BY <2>2 DEF FormIs, Rep
  <2>5. QED
    BY <2>1, <2>2, <2>3, <2>4 DEF Rep, c
<1>8. Arith("add", o1.ofs, o2.ofs) = v.k + w.k /\ Arith("sub", o1.ofs, o2.ofs) = v.k + (-w.k)
  BY <1>1 DEF Arith
<1>9. v.k + w.k \in Int /\ v.k + (-w.k) \in Int
  BY <1>1
<1>10. QED
  BY <1>5, <1>6, <1>7, <1>8, <1>9

(* Two operands with registers are added as Adds says.                     *)
LEMMA Sums ==
  ASSUME NEW o1 \in Operand, NEW o2 \in Operand, NEW v \in Value, NEW w \in Value, NEW kind \in {"imm", "mem"},
         Rep(o1, v, kind), Rep(o2, w, kind), Adds(v, w)
  PROVE  CanCombine(o1, o2, "add") /\ Rep(Combined(o1, o2, "add"), Added(v, w), kind)
<1>1. o1.ofs \in Int /\ o2.ofs \in Int /\ v.k = o1.ofs /\ w.k = o2.ofs /\ o1.opr = kind /\ o2.opr = kind
  BY DEF Operand, Rep
<1>2. /\ v.coef \in [Regs -> Nat] /\ w.coef \in [Regs -> Nat] /\ Coef(o1) = v.coef /\ Coef(o2) = w.coef
      /\ FormIs(o1, v.form) /\ FormIs(o2, w.form) /\ v.form \in Forms /\ w.form \in Forms
  BY DEF Value, Rep
<1>3. CASE w.form = "number"
  BY <1>3, NumberAdded
<1>4. CASE w.form # "number"
  <2>1. kind = "mem" /\ o1.opr = "mem" /\ o2.opr = "mem"
    BY <1>1, <1>4 DEF Rep
  <2> DEFINE m == [o1 EXCEPT !.ofs = o1.ofs + o2.ofs]
             c == AddRegs(m, o2)
  <2>2. MemValue(o1, o2, "add") = m
    BY DEF MemValue, Arith
  <2>3. m \in Operand /\ m.opr = "mem" /\ m.ofs = v.k + w.k /\ m.reg1 = o1.reg1
        /\ m.scale1 = o1.scale1 /\ m.reg2 = o1.reg2
    BY <1>1, <2>1 DEF Operand
  <2>4. /\ o2.reg1 \in Regs /\ o2.reg1 # NoReg /\ o2.scale1 \in 0..8 /\ o1.scale1 \in 0..8
        /\ o1.reg1 \in Regs \cup {NoReg} /\ o1.reg2 \in Regs \cup {NoReg} /\ o2.reg2 \in Regs \cup {NoReg}
    BY <1>2, <1>4 DEF FormIs, Operand, Forms
  <2>5. SUFFICES CanAddRegs(m, o2, "add") /\ c.opr = "mem" /\ c.ofs = v.k + w.k /\ FormIs(c, FormAdded(v, w))
                 /\ Coef(c) = [r \in Regs |-> v.coef[r] + w.coef[r]]
    <3>1. CanCombine(o1, o2, "add")
      BY <2>1, <2>2, <2>5 DEF CanCombine
    <3>2. Combined(o1, o2, "add") = c
      BY <2>1, <2>2 DEF Combined
    <3> HIDE DEF c
    <3>3. QED
      BY <3>1, <3>2, <2>1, <2>5 DEF Rep, Added
  <2> HIDE DEF m
  <2>6. \A r \in Regs : /\ v.coef[r] = (IF o1.reg1 = r THEN Factor(o1) ELSE 0) + (IF o1.reg2 = r THEN 1 ELSE 0)
                        /\ w.coef[r] = (IF o2.reg1 = r THEN Factor(o2) ELSE 0) + (IF o2.reg2 = r THEN 1 ELSE 0)
    BY <1>2, CoefIs
  <2>7. CASE v.form = "number"
    <3>1. o1.reg1 = NoReg /\ o1.scale1 = 0 /\ o1.reg2 = NoReg
      BY <1>2, <2>7 DEF FormIs
    <3>2. c = [m EXCEPT !.reg1 = o2.reg1, !.scale1 = o2.scale1, !.reg2 = o2.reg2]
      BY <2>3, <2>4, <3>1 DEF AddRegs
    <3>3. c.opr = "mem" /\ c.ofs = v.k + w.k /\ c.reg1 = o2.reg1 /\ c.scale1 = o2.scale1 /\ c.reg2 = o2.reg2
      BY <2>3, <3>2 DEF Operand
    <3>4. CanAddRegs(m, o2, "add")
      BY <2>3, <2>4, <3>1 DEF CanAddRegs
    <3> HIDE DEF c
    <3>5. FormIs(c, w.form) /\ FormAdded(v, w) = w.form
      BY <1>2, <1>4, <2>7, <3>3 DEF FormIs, FormAdded
    <3>6. Coef(c) = w.coef
      BY <1>2, <3>3, SameCoef
    <3>7. [r \in Regs |-> v.coef[r] + w.coef[r]] = w.coef
      <4>1. \A r \in Regs : v.coef[r] = 0
        BY <2>6, <3>1, RegAssumption
      <4>2. QED
        BY <1>2, <4>1
    <3>8. QED
      BY <3>3, <3>4, <3>5, <3>6, <3>7
  <2>8. CASE v.form # "number" /\ w.form = "plain"
    <3>1. /\ o1.reg1 # NoReg /\ o1.reg2 = NoReg /\ o2.scale1 = 0 /\ o2.reg2 = NoReg
      BY <1>2, <2>8 DEF FormIs, Adds
    <3>2. c = [m EXCEPT !.reg2 = o2.reg1]
      BY <2>3, <2>4, <3>1 DEF AddRegs
    <3>3. c.opr = "mem" /\ c.ofs = v.k + w.k /\ c.reg1 = o1.reg1 /\ c.scale1 = o1.scale1 /\ c.reg2 = o2.reg1
      BY <2>3, <3>2 DEF Operand
    <3>4. CanAddRegs(m, o2, "add")
      BY <2>3, <2>4, <3>1 DEF CanAddRegs
    <3> HIDE DEF c
    <3>5. FormIs(c, FormAdded(v, w))
      BY <1>4, <2>4, <2>8, <3>1, <3>3 DEF FormIs, FormAdded
    <3>6. Factor(c) = Factor(o1) /\ Factor(o2) = 1 /\ Factor(o1) \in Nat
      BY <3>1, <3>3, CoefIs DEF Factor
    <3>7. ASSUME NEW r \in Regs
          PROVE (IF c.reg1 = r THEN Factor(c) ELSE 0) + (IF c.reg2 = r THEN 1 ELSE 0) = v.coef[r] + w.coef[r]
      <4>1. o1.reg2 # r /\ o2.reg2 # r
        BY <3>1, RegAssumption
      <4>2. QED
        BY <4>1, <2>6, <3>3, <3>6
    <3>8. Coef(c) = [r \in Regs |-> v.coef[r] + w.coef[r]]
      BY <3>7 DEF Coef
    <3>9. QED
      BY <3>3, <3>4, <3>5, <3>8
  <2>9. CASE v.form # "number" /\ w.form # "plain"
    <3>1. v.form = "scaled" /\ w.form = "scaled"
      BY <1>4, <2>9 DEF Adds
    <3>2. PICK r1 \in Regs : v.coef[r1] > 1 /\ w.coef[r1] > 0 /\ v.coef[r1] + w.coef[r1] <= 8
      BY <1>4, <2>9 DEF Adds
    <3>3. o1.reg1 # NoReg /\ o1.scale1 >= 1 /\ o1.reg2 = NoReg /\ o2.scale1 >= 1 /\ o2.reg2 = NoReg
      BY <1>2, <3>1 DEF FormIs
    <3>4. Factor(o1) = o1.scale1 /\ Factor(o2) = o2.scale1
      BY <2>4, <3>3 DEF Factor
    <3>5. v.coef[r1] = (IF o1.reg1 = r1 THEN o1.scale1 ELSE 0)
          /\ w.coef[r1] = (IF o2.reg1 = r1 THEN o2.scale1 ELSE 0)
      <4>1. o1.reg2 # r1 /\ o2.reg2 # r1
        BY <3>3, RegAssumption
      <4>2. QED
        BY <4>1, <2>4, <2>6, <3>4
    <3>6. o1.reg1 = r1 /\ o2.reg1 = r1 /\ o1.scale1 > 1 /\ o1.scale1 + o2.scale1 <= 8
      BY <3>2, <3>5
    <3>7. c = [m EXCEPT !.scale1 = m.scale1 + o2.scale1]
      BY <2>3, <2>4, <3>3, <3>6 DEF AddRegs
    <3>8. c.opr = "mem" /\ c.ofs = v.k + w.k /\ c.reg1 = o1.reg1
          /\ c.scale1 = o1.scale1 + o2.scale1 /\ c.reg2 = NoReg
      BY <2>3, <3>3, <3>7 DEF Operand
    <3>9. CanAddRegs(m, o2, "add")
      BY <2>3, <2>4, <3>3, <3>6 DEF CanAddRegs
    <3> HIDE DEF c
    <3>10. FormIs(c, FormAdded(v, w))
      BY <1>4, <2>4, <3>1, <3>3, <3>8 DEF FormIs, FormAdded
    <3>11. Factor(c) = o1.scale1 + o2.scale1
      BY <2>4, <3>3, <3>8 DEF Factor
    <3>12. ASSUME NEW r \in Regs
          PROVE (IF c.reg1 = r THEN Factor(c) ELSE 0) + (IF c.reg2 = r THEN 1 ELSE 0) = v.coef[r] + w.coef[r]
      <4>1. o1.reg2 # r /\ o2.reg2 # r /\ c.reg2 # r
        BY <3>3, <3>8, RegAssumption
      <4>2. QED
        BY <4>1, <2>4, <2>6, <3>4, <3>6, <3>8, <3>11
    <3>13. Coef(c) = [r \in Regs |-> v.coef[r] + w.coef[r]]
      BY <3>12 DEF Coef
    <3>14. QED
      BY <3>8, <3>9, <3>10, <3>13
  <2>10. QED
    BY <2>7, <2>8, <2>9
<1>5. QED
  BY <1>3, <1>4

(* Nothing but the number changes when only numbers are combined.          *)
LEMMA NumberCombined ==
  ASSUME NEW o1 \in Operand, NEW o2 \in Operand, NEW v \in Value, NEW w \in Value, NEW kind \in {"imm", "mem"},
         Rep(o1, v, kind), Rep(o2, w, kind), v.form = "number", w.form = "number", NEW op \in {"mul", "rar"},
         NEW k \in Int, k = Arith(op, o1.ofs, o2.ofs)
  PROVE  CanCombine(o1, o2, op) /\ Rep(Combined(o1, o2, op), Just(k), kind)
<1>1. /\ o1.reg1 = NoReg /\ o1.reg2 = NoReg /\ o1.scale1 = 0 /\ o2.reg1 = NoReg /\ o2.reg2 = NoReg
      /\ o1.opr = kind /\ o2.opr = kind
  BY DEF Rep, FormIs
<1> DEFINE m == [o1 EXCEPT !.ofs = k]
<1>2. MemValue(o1, o2, op) = m
  <2>1. CASE op = "mul"
    BY <2>1, <1>1 DEF MemValue, Scaled, Arith
  <2>2. CASE op = "rar"
    BY <2>2 DEF MemValue
  <2>3. QED
    BY <2>1, <2>2
<1>3. m.opr = kind /\ m.ofs = k /\ m.reg1 = NoReg /\ m.scale1 = 0 /\ m.reg2 = NoReg
  BY <1>1 DEF Operand
<1>4. Combined(o1, o2, op) = m
  <2>1. AddRegs(m, o2) = m
    BY <1>1 DEF AddRegs
  <2>2. QED
    BY <2>1, <1>2 DEF Combined
<1>5. CanCombine(o1, o2, op)
  BY <1>1, <1>2 DEF CanCombine, CanScale, CanAddRegs
<1> HIDE DEF m
<1>6. Coef(m) = [r \in Regs |-> 0]
  BY <1>3, RegAssumption DEF Coef
<1>7. QED
  BY <1>3, <1>4, <1>5, <1>6 DEF Rep, Just, FormIs

(* A shift of one number by another.                                       *)
LEMMA Shifted ==
  ASSUME NEW o1 \in Operand, NEW o2 \in Operand, NEW v \in Value, NEW w \in Value, NEW kind \in {"imm", "mem"},
         Rep(o1, v, kind), Rep(o2, w, kind), Halves(v, w)
  PROVE  CanCombine(o1, o2, "rar") /\ Rep(Combined(o1, o2, "rar"), Just(Halved(v.k, w.k)), kind)
<1>1. o1.ofs \in Int /\ o1.ofs = v.k /\ o2.ofs = w.k /\ w.k \in 0..63 /\ v.form = "number"
      /\ w.form = "number"
  BY DEF Operand, Rep, Halves
<1>2. Halved(v.k, w.k) = Arith("rar", o1.ofs, o2.ofs)
  BY <1>1, SarHalves DEF Arith
<1>3. Arith("rar", o1.ofs, o2.ofs) \in Int
  <2>1. Sar(o1.ofs, o2.ofs) \in Int
    BY <1>1 DEF Sar
  <2>2. QED
    BY <2>1 DEF Arith
<1>4. QED
  BY <1>1, <1>2, <1>3, NumberCombined

(* A number has no registers.                                              *)
LEMMA ZeroCoef ==
  ASSUME NEW o \in Operand, NEW v \in Value, NEW kind, Rep(o, v, kind), v.form = "number"
  PROVE  \A r \in Regs : v.coef[r] = 0
  BY CoefIs, RegAssumption DEF Rep, FormIs

(* A product: of two numbers, or of a register and a number behind it.     *)
LEMMA Multiples ==
  ASSUME NEW o1 \in Operand, NEW o2 \in Operand, NEW v \in Value, NEW w \in Value, NEW kind \in {"imm", "mem"},
         Rep(o1, v, kind), Rep(o2, w, kind), Multiplies(v, w)
  PROVE  CanCombine(o1, o2, "mul") /\ Rep(Combined(o1, o2, "mul"), Multiplied(v, w), kind)
<1>1. /\ o1.ofs \in Int /\ o2.ofs \in Int /\ v.k = o1.ofs /\ w.k = o2.ofs /\ o1.opr = kind /\ o2.opr = kind
      /\ v.coef = Coef(o1) /\ v.coef \in [Regs -> Nat] /\ w.form = "number"
      /\ FormIs(o1, v.form) /\ FormIs(o2, w.form) /\ v.form \in Forms
  BY DEF Operand, Rep, Value, Multiplies
<1>2. CASE v.form = "number"
  <2>1. \A r \in Regs : v.coef[r] * w.k = 0
    <3>1. \A r \in Regs : v.coef[r] = 0
      BY <1>2, ZeroCoef
    <3>2. 0 * w.k = 0
      BY <1>1
    <3>3. QED
      BY <3>1, <3>2
  <2>2. Multiplied(v, w) = Just(v.k * w.k)
    BY <1>2, <2>1 DEF Multiplied, Just
  <2>3. Arith("mul", o1.ofs, o2.ofs) = v.k * w.k /\ v.k * w.k \in Int
    BY <1>1 DEF Arith
  <2>4. QED
    BY <1>1, <1>2, <2>2, <2>3, NumberCombined
<1>3. CASE v.form # "number"
  <2>1. v.form \in {"plain", "scaled"} /\ v.k = 0 /\ w.k >= 1 /\ \A r \in Regs : v.coef[r] * w.k <= 8
    BY <1>3 DEF Multiplies
  <2>2. /\ kind = "mem" /\ o1.reg1 \in Regs /\ o1.reg1 # NoReg /\ o1.reg2 = NoReg
        /\ o2.reg1 = NoReg /\ o2.reg2 = NoReg
    <3>1. kind = "mem"
      BY <1>3 DEF Rep
    <3>2. o1.reg1 \in Regs \cup {NoReg}
      BY DEF Operand
    <3>3. QED
      BY <1>1, <2>1, <3>1, <3>2 DEF FormIs
  <2>3. Factor(o1) \in 1..8 /\ v.coef[o1.reg1] = Factor(o1)
    <3>1. o1.reg2 # o1.reg1
      BY <2>2
    <3>2. QED
      BY <1>1, <2>2, <3>1, CoefIs
  <2>4. PICK n : n = Factor(o1) * o2.ofs
    OBVIOUS
  <2>5. n \in Int /\ n >= 1 /\ n <= 8
    <3>1. v.coef[o1.reg1] * w.k <= 8
      BY <2>1, <2>2
    <3>2. \A x, y \in Int : x >= 1 /\ y >= 1 => x * y >= 1 /\ x * y \in Int
      OBVIOUS
    <3>3. QED
      BY <1>1, <2>1, <2>3, <2>4, <3>1, <3>2
  <2> DEFINE m == [o1 EXCEPT !.scale1 = n]
  <2>6. MemValue(o1, o2, "mul") = m
    BY <2>2, <2>4 DEF MemValue, Scaled
  <2>7. m.opr = "mem" /\ m.ofs = 0 /\ m.reg1 = o1.reg1 /\ m.scale1 = n /\ m.reg2 = NoReg
    BY <1>1, <2>1, <2>2 DEF Operand
  <2>8. AddRegs(m, o2) = m
    BY <2>2 DEF AddRegs
  <2>9. Combined(o1, o2, "mul") = m
    BY <1>1, <2>2, <2>6, <2>8 DEF Combined
  <2>10. CanScale(o1, o2)
    BY <1>1, <2>1, <2>2, <2>4, <2>5 DEF CanScale, ScaleFits
  <2>11. CanAddRegs(m, o2, "mul")
    BY <2>2 DEF CanAddRegs
  <2>12. CanCombine(o1, o2, "mul")
    BY <1>1, <2>2, <2>6, <2>10, <2>11 DEF CanCombine
  <2> HIDE DEF m
  <2>13. v.k * w.k = 0
    BY <1>1, <2>1
  <2>14. ASSUME NEW r \in Regs
         PROVE  (IF m.reg1 = r THEN Factor(m) ELSE 0) + (IF m.reg2 = r THEN 1 ELSE 0) = v.coef[r] * w.k
    <3>1. Factor(m) = n /\ m.reg2 # r
      BY <2>5, <2>7, RegAssumption DEF Factor
    <3>2. CASE m.reg1 = r
      BY <1>1, <2>3, <2>4, <2>5, <2>7, <3>1, <3>2
    <3>3. CASE m.reg1 # r
      <4>1. v.coef[r] = 0
        BY <1>1, <2>2, <2>7, <3>3, CoefIs, RegAssumption
      <4>2. 0 * w.k = 0
        BY <1>1
      <4>3. QED
        BY <3>1, <3>3, <4>1, <4>2
    <3>4. QED
      BY <3>2, <3>3
  <2>15. Coef(m) = [r \in Regs |-> v.coef[r] * w.k]
    BY <2>14 DEF Coef
  <2>16. FormIs(m, "scaled")
    BY <2>2, <2>5, <2>7 DEF FormIs
  <2>17. QED
    BY <1>3, <2>2, <2>7, <2>9, <2>12, <2>13, <2>15, <2>16 DEF Rep, Multiplied
<1>4. QED
  BY <1>2, <1>3

(* A product behind a minus: its first number was negated.                 *)
LEMMA NegatedMultiple ==
  ASSUME NEW v \in Value, NEW w \in Value, Multiplies(v, w), v.form = "number"
  PROVE  Multiplies(Negated(v), w) /\ Multiplied(Negated(v), w) = Negated(Multiplied(v, w))
         /\ Negated(v) \in Value
<1>1. v.k \in Int /\ w.k \in Int
  BY DEF Value
<1>2. (-v.k) * w.k = -(v.k * w.k)
  BY <1>1
<1>3. QED
  BY <1>1, <1>2 DEF Multiplies, Multiplied, Negated, Value

-----------------------------------------------------------------------------
(* The tree of an operand that has a meaning.                              *)
LEMMA HasNode ==
  ASSUME NEW x, Written(x), NEW i, NEW j, NEW O, Has(x, i, j, O)
  PROVE  /\ i \in 1..Len(x.text) /\ j \in 1..Len(x.text) /\ i <= j /\ Node(x, i, j)
         /\ Val(x, i, j) \in Value /\ Has(x, i, j, Phrases \cup {"run"})
<1>1. <<i, j>> \in DOMAIN x.tree
  BY DEF Has
<1>2. <<i, j>> \in (1..Len(x.text)) \X (1..Len(x.text)) /\ <<i, j>>[1] <= <<i, j>>[2]
      /\ Node(x, <<i, j>>[1], <<i, j>>[2])
  BY <1>1 DEF Written, Tree
<1>3. Node(x, i, j) /\ i <= j
  BY <1>2
<1>4. QED
  BY <1>2, <1>3 DEF Node

(* A node of one kind is of any wider one.                                 *)
LEMMA HasMore ==
  ASSUME NEW x, NEW i, NEW j, NEW O, Has(x, i, j, O), NEW P, O \subseteq P
  PROVE  Has(x, i, j, P)
  BY DEF Has

(* A phrase begins with a leaf or a bracket.                               *)
LEMMA HasBegun ==
  ASSUME NEW x, Written(x), NEW i, NEW j, Has(x, i, j, Phrases)
  PROVE  Begun(x, i, j)
<1>1. <<i, j>> \in DOMAIN x.tree /\ Has(x, <<i, j>>[1], <<i, j>>[2], Phrases)
  BY DEF Has
<1>2. Begun(x, <<i, j>>[1], <<i, j>>[2])
  BY <1>1 DEF Written, Tree
<1>3. QED
  BY <1>2

(* Two phrases that begin together: the shorter one is a left part.        *)
LEMMA HasNested ==
  ASSUME NEW x, Written(x), NEW i, NEW d, NEW j, Has(x, i, d, Phrases), Has(x, i, j, Phrases), d < j
  PROVE  Nested(x, i, d, j)
<1> DEFINE s == <<i, d>>
           t == <<i, j>>
<1>1. s \in DOMAIN x.tree /\ t \in DOMAIN x.tree /\ Has(x, s[1], s[2], Phrases) /\ Has(x, t[1], t[2], Phrases)
      /\ s[1] = t[1] /\ s[2] < t[2]
  BY DEF Has
<1>2. Nested(x, s[1], s[2], t[2])
  BY <1>1 DEF Written, Tree
<1>3. QED
  BY <1>2

(* What comes behind a phrase that is not all of a frame.                  *)
Multiplying(x, i, j, op, e) ==
  /\ Has(x, i, e, {op}) /\ At(x, i, e) = j + 1 /\ j < e
  /\ x.text[j + 1].t = op /\ Has(x, i, j, Factors \cup {op}) /\ Has(x, j + 2, e, Factors)
Summing(x, i, j, e) ==
  /\ Has(x, i, e, {"sum"}) /\ At(x, i, e) = j + 1 /\ j < e
  /\ Has(x, i, j, Addends) /\ Has(x, j + 1, e, {"run"})

(* What follows the left part of a product, a shift or a sum.              *)
LEMMA Behind ==
  ASSUME NEW x, Written(x), NEW i, NEW j, NEW e, j \in Nat, Has(x, i, e, {"mul", "rar", "sum"}), At(x, i, e) = j + 1
  PROVE  \/ \E op \in Products : Multiplying(x, i, j, op, e)
         \/ Summing(x, i, j, e)
<1>1. Node(x, i, e) /\ i \in Nat /\ e \in Nat
  BY HasNode
<1>2. (j + 1) - 1 = j /\ (j + 1) + 1 = j + 2
  OBVIOUS
<1>3. CASE Has(x, i, e, {"mul"})
  <2>1. ProductNode(x, i, e)
    BY <1>1, <1>3 DEF Node
  <2>2. j < e
    BY <1>1, <2>1 DEF ProductNode
  <2>3. QED
    BY <1>2, <1>3, <2>1, <2>2 DEF ProductNode, Multiplying, Products
<1>4. CASE Has(x, i, e, {"rar"})
  <2>1. ShiftNode(x, i, e)
    BY <1>1, <1>4 DEF Node
  <2>2. j < e
    BY <1>1, <2>1 DEF ShiftNode
  <2>3. QED
    BY <1>2, <1>4, <2>1, <2>2 DEF ShiftNode, Multiplying, Products
<1>5. CASE Has(x, i, e, {"sum"})
  <2>1. SumNode(x, i, e)
    BY <1>1, <1>5 DEF Node
  <2>2. j < e
    BY <1>1, <2>1 DEF SumNode
  <2>3. QED
    BY <1>2, <1>5, <2>1, <2>2 DEF SumNode, Summing
<1>6. QED
  BY <1>3, <1>4, <1>5 DEF Has

(* What follows a phrase that is not all of a longer one.                  *)
LEMMA Going ==
  ASSUME NEW x, Written(x), NEW i, NEW j, NEW d, Has(x, i, j, Phrases), Has(x, i, d, Phrases), j < d
  PROVE  /\ Has(x, i, d, {"mul", "rar", "sum"})
         /\ \/ \E op \in Products : \E e \in Nat : e <= d /\ Multiplying(x, i, j, op, e)
            \/ Summing(x, i, j, d)
<1>1. Nested(x, i, j, d) /\ j \in Nat /\ d \in Nat
  BY HasNested, HasNode
<1>2. Has(x, i, d, {"mul", "rar", "sum"})
  BY <1>1 DEF Nested
<1>3. PICK e \in (j + 1)..d : Has(x, i, e, {"mul", "rar", "sum"}) /\ At(x, i, e) = j + 1
  BY <1>1 DEF Nested
<1>4. (\E op \in Products : Multiplying(x, i, j, op, e)) \/ Summing(x, i, j, e)
  BY <1>1, <1>3, Behind
<1>5. e \in Nat /\ e <= d
  BY <1>1, <1>3
<1>6. ASSUME Summing(x, i, j, e), e # d PROVE FALSE
  <2>1. Has(x, i, e, {"sum"}) /\ e < d /\ Has(x, i, e, Phrases)
    BY <1>1, <1>5, <1>6, HasMore DEF Summing, Phrases
  <2>2. Nested(x, i, e, d)
    BY <2>1, HasNested
  <2>3. PICK e2 \in (e + 1)..d : Has(x, i, e2, {"mul", "rar", "sum"}) /\ At(x, i, e2) = e + 1
    BY <2>2 DEF Nested
  <2>4. (\E op \in Products : Multiplying(x, i, e, op, e2)) \/ Summing(x, i, e, e2)
    BY <1>5, <2>3, Behind
  <2>5. QED
    BY <2>1, <2>4 DEF Multiplying, Summing, Has, Factors, Addends, Products
<1>7. QED
  BY <1>2, <1>4, <1>5, <1>6

(* The rest of a sum begins with its operator.                             *)
LEMMA HasRun ==
  ASSUME NEW x, Written(x), NEW i, NEW j, Has(x, i, j, {"run"})
  PROVE  RunNode(x, i, j) /\ x.text[i].t \in {"add", "sub"} /\ i < At(x, i, j) /\ At(x, i, j) \in Nat
<1>1. Node(x, i, j) /\ i \in Nat /\ j \in Nat
  BY HasNode
<1>2. RunNode(x, i, j)
  BY <1>1 DEF Node
<1>3. QED
  BY <1>1, <1>2 DEF RunNode

(* Where what is read in a frame ends, and what comes then.                *)
Halts(x, p) == p = Len(x.text) + 1 \/ (p \in 1..Len(x.text) /\ x.text[p].t \in Closers)

(* The spans of a frame are in the text, in order.                         *)
LEMMA FrameType ==
  ASSUME NEW x, Written(x), NEW g, Framed(x, g)
  PROVE  /\ g.from \in 1..Len(x.text) /\ g.to \in 1..Len(x.text) /\ g.from <= g.to
         /\ g.n \in Nat /\ g.at \in Nat /\ g.at < g.from /\ Has(x, g.from, g.to, Phrases)
         /\ g.k = "run" => g.hi \in 1..Len(x.text) /\ g.to <= g.hi /\ g.at \in 1..Len(x.text)
                           /\ Has(x, g.from, g.to, Addends) /\ RunNode(x, g.at, g.hi)
                           /\ x.text[g.at].t \in {"add", "sub"}
<1>1. Has(x, g.from, g.to, Allowed(g.k))
  BY DEF Framed
<1>2. Has(x, g.from, g.to, Phrases)
  BY <1>1 DEF Has, Allowed, Factors, Addends, Phrases
<1>3. g.from \in 1..Len(x.text) /\ g.to \in 1..Len(x.text) /\ g.from <= g.to
  BY <1>2, HasNode
<1>4. ASSUME g.k = "run"
      PROVE  /\ g.hi \in 1..Len(x.text) /\ g.to <= g.hi /\ g.at \in 1..Len(x.text)
             /\ Has(x, g.from, g.to, Addends) /\ RunNode(x, g.at, g.hi) /\ x.text[g.at].t \in {"add", "sub"}
  <2>1. Has(x, g.at, g.hi, {"run"}) /\ At(x, g.at, g.hi) = g.to + 1
    BY <1>4 DEF Framed
  <2>2. g.hi \in 1..Len(x.text) /\ g.at \in 1..Len(x.text) /\ RunNode(x, g.at, g.hi)
        /\ x.text[g.at].t \in {"add", "sub"}
    BY <2>1, HasNode, HasRun
  <2>3. g.to <= g.hi
    BY <1>3, <2>1, <2>2 DEF RunNode
  <2>4. Has(x, g.from, g.to, Addends)
    BY <1>1, <1>4 DEF Allowed, Products
  <2>5. QED
    BY <2>2, <2>3, <2>4
<1>5. QED
  BY <1>2, <1>3, <1>4 DEF Framed

(* Behind the first part of a run the next one comes; behind all of it, a  *)
(* closing bracket or the end.                                             *)
LEMMA RunOver ==
  ASSUME NEW x, Written(x), NEW g, Framed(x, g), g.k = "run"
  PROVE  /\ g.to < g.hi => Has(x, g.to + 1, g.hi, {"run"}) /\ x.text[g.to + 1].t \in {"add", "sub"}
         /\ Halts(x, g.hi + 1)
<1>1. /\ Has(x, g.at, g.hi, {"run"}) /\ At(x, g.at, g.hi) = g.to + 1
      /\ g.hi = Len(x.text) \/ (g.hi < Len(x.text) /\ x.text[g.hi + 1].t \in Closers)
  BY DEF Framed
<1>2. g.hi \in 1..Len(x.text) /\ g.to \in 1..Len(x.text) /\ Len(x.text) \in Int /\ RunNode(x, g.at, g.hi)
  BY FrameType
<1>3. Halts(x, g.hi + 1)
  BY <1>1, <1>2 DEF Halts
<1>4. ASSUME g.to < g.hi PROVE Has(x, g.to + 1, g.hi, {"run"})
  BY <1>1, <1>2, <1>4 DEF RunNode
<1>5. QED
  BY <1>3, <1>4, HasRun

(* A bracket, and the phrase in it.                                        *)
LEMMA BracketOver ==
  ASSUME NEW x, Written(x), NEW i, NEW j, Has(x, i, j, {"bracket"})
  PROVE  /\ <<x.text[i].t, x.text[j].t>> \in {<<"(", ")">>, <<"[", "]">>}
         /\ x.text[i].t \in Openers /\ x.text[j].t \in Closers
         /\ At(x, i, j) \in (i + 1)..(j - 1)
         /\ \A q \in (i + 1)..(At(x, i, j) - 1) : x.text[q].t \in Modifiers
         /\ Has(x, At(x, i, j), j - 1, Phrases)
         /\ Val(x, i, j) = Val(x, At(x, i, j), j - 1)
<1>1. Node(x, i, j)
  BY HasNode
<1>2. BracketNode(x, i, j)
  BY <1>1 DEF Node
<1>3. QED
  BY <1>2 DEF BracketNode, Openers, Closers

(* Behind the whole of a frame that is not a product.                      *)
LEMMA Boundary ==
  ASSUME NEW x, Written(x), NEW g, Framed(x, g), g.k \notin Products
  PROVE  \/ Halts(x, g.to + 1)
         \/ g.to + 1 \in 1..Len(x.text) /\ x.text[g.to + 1].t \in {"add", "sub"}
<1>1. g.to \in 1..Len(x.text) /\ Len(x.text) \in Int
  BY FrameType
<1>2. CASE g.k = "root"
  BY <1>1, <1>2 DEF Framed, Halts
<1>3. CASE g.k = "bracket"
  <2>1. Has(x, g.at, g.to + 1, {"bracket"})
    BY <1>3 DEF Framed
  <2>2. x.text[g.to + 1].t \in Closers /\ g.to + 1 \in 1..Len(x.text)
    BY <2>1, BracketOver, HasNode
  <2>3. QED
    BY <2>2 DEF Halts
<1>4. CASE g.k = "run"
  <2>1. g.to <= g.hi /\ g.hi \in 1..Len(x.text)
    BY <1>4, FrameType
  <2>2. CASE g.to = g.hi
    BY <1>4, <2>2, RunOver
  <2>3. CASE g.to < g.hi
    BY <1>1, <1>4, <2>1, <2>3, RunOver
  <2>4. QED
    BY <1>1, <2>1, <2>2, <2>3
<1>5. QED
  BY <1>2, <1>3, <1>4 DEF Framed

(* What comes behind a phrase j in a frame.                                *)
LEMMA Onward ==
  ASSUME NEW x, Written(x), NEW g, Framed(x, g), NEW j \in Int, j < g.to, Has(x, g.from, j, Allowed(g.k))
  PROVE  /\ g.k \notin Products
         /\ \/ \E op \in Products : \E e \in Nat : e <= g.to /\ Multiplying(x, g.from, j, op, e)
            \/ g.k \in {"root", "bracket"} /\ Summing(x, g.from, j, g.to)
<1>1. Has(x, g.from, j, Phrases) /\ Has(x, g.from, g.to, Phrases) /\ Has(x, g.from, g.to, Allowed(g.k))
  BY FrameType DEF Has, Allowed, Factors, Addends, Phrases, Framed
<1>2. /\ Has(x, g.from, g.to, {"mul", "rar", "sum"})
      /\ \/ \E op \in Products : \E e \in Nat : e <= g.to /\ Multiplying(x, g.from, j, op, e)
         \/ Summing(x, g.from, j, g.to)
  BY <1>1, Going
<1>3. g.k \notin Products
  BY <1>1, <1>2 DEF Has, Allowed, Factors
<1>4. Summing(x, g.from, j, g.to) => g.k # "run"
  BY <1>1 DEF Summing, Has, Allowed, Addends, Factors, Products
<1>5. QED
  BY <1>2, <1>3, <1>4 DEF Framed

(* Behind a product or a shift: nothing of the phrase, a sum, or the same  *)
(* operator again.                                                         *)
LEMMA BehindProduct ==
  ASSUME NEW x, Written(x), NEW a, Framed(x, a), a.k \notin Products,
         NEW op \in Products, NEW j \in Int, j <= a.to, Has(x, a.from, j, {op})
  PROVE  \/ Halts(x, j + 1)
         \/ j + 1 \in 1..Len(x.text) /\ x.text[j + 1].t \in {"add", "sub", op}
<1>1. a.to \in 1..Len(x.text) /\ Len(x.text) \in Int /\ j \in 1..Len(x.text)
  BY FrameType, HasNode
<1>2. CASE j = a.to
  BY <1>2, Boundary
<1>3. CASE j < a.to
  <2>1. Has(x, a.from, j, Allowed(a.k))
    <3>1. a.k = "run" \/ a.k \in {"root", "bracket"}
      BY DEF Framed
    <3>2. QED
      BY <3>1 DEF Has, Allowed, Addends, Phrases, Factors, Products
  <2>2. \/ \E op2 \in Products : \E e \in Nat : e <= a.to /\ Multiplying(x, a.from, j, op2, e)
        \/ Summing(x, a.from, j, a.to)
    BY <1>3, <2>1, Onward
  <2>3. j + 1 \in 1..Len(x.text)
    BY <1>1, <1>3
  <2>4. CASE Summing(x, a.from, j, a.to)
    BY <2>3, <2>4, HasRun DEF Summing
  <2>5. ASSUME NEW op2 \in Products, NEW e \in Nat, Multiplying(x, a.from, j, op2, e)
        PROVE  x.text[j + 1].t = op
    BY <2>5 DEF Multiplying, Has, Factors, Products
  <2>6. QED
    BY <2>2, <2>3, <2>4, <2>5
<1>4. QED
  BY <1>1, <1>2, <1>3

-----------------------------------------------------------------------------
(* The frames of the operators on the stack.                               *)
Topped(x, signs, os, g) == \E f : Frames(x, f, signs, os) /\ f[Len(signs) + 1] = g

(* One more operator.                                                      *)
LEMMA FramesPush ==
  ASSUME NEW x, NEW f, NEW signs \in Seq(Binary \cup Openers), NEW os, Frames(x, f, signs, os),
         NEW g, NEW t \in Binary \cup Openers, t = Sign(x, g), On(x, f[Len(signs) + 1], g), g.k # "root",
         LeftHeld(x, f[Len(signs) + 1], g, os), Framed(x, g)
  PROVE  Topped(x, Append(signs, t), os, g)
<1> DEFINE m == Len(signs)
           s2 == Append(signs, t)
           f2 == [i \in 1..(m + 2) |-> IF i = m + 2 THEN g ELSE f[i]]
<1>1. m \in Nat /\ Len(s2) = m + 1 /\ s2[m + 1] = t /\ \A i \in 1..m : s2[i] = signs[i]
  BY LenProperties, AppendProperties
<1>2. f2[m + 2] = g /\ \A i \in 1..(m + 1) : f2[i] = f[i]
  BY <1>1
<1> HIDE DEF m, s2, f2
<1>3. /\ f[1].k = "root"
      /\ \A i \in 1..m :
           signs[i] = Sign(x, f[i + 1]) /\ On(x, f[i], f[i + 1]) /\ LeftHeld(x, f[i], f[i + 1], os)
      /\ \A i \in 2..(m + 1) : f[i].k # "root"
      /\ \A i \in 1..(m + 1) : Framed(x, f[i])
      /\ \A i, j \in 1..(m + 1) : i <= j => f[i].n <= f[j].n
  BY DEF Frames, m
<1>4. On(x, f[m + 1], g) /\ LeftHeld(x, f[m + 1], g, os)
  BY DEF m
<1>5. f2[1].k = "root"
  BY <1>1, <1>2, <1>3
<1>6. ASSUME NEW i \in 1..(m + 1)
      PROVE  s2[i] = Sign(x, f2[i + 1]) /\ On(x, f2[i], f2[i + 1]) /\ LeftHeld(x, f2[i], f2[i + 1], os)
  <2>1. CASE i = m + 1
    <3>1. f2[i] = f[m + 1] /\ f2[i + 1] = g
      BY <1>1, <1>2, <2>1
    <3>2. QED
      BY <1>1, <1>4, <2>1, <3>1
  <2>2. CASE i # m + 1
    <3>1. i \in 1..m /\ i + 1 \in 1..(m + 1)
      BY <1>1, <2>2
    <3>2. QED
      BY <1>1, <1>2, <1>3, <3>1
  <2>3. QED
    BY <2>1, <2>2
<1>7. ASSUME NEW i \in 1..(m + 2)
      PROVE  Framed(x, f2[i]) /\ (i # 1 => f2[i].k # "root")
  <2>1. CASE i = m + 2
    BY <1>2, <2>1
  <2>2. CASE i # m + 2
    <3>1. i \in 1..(m + 1) /\ (i # 1 => i \in 2..(m + 1))
      BY <1>1, <2>2
    <3>2. QED
      BY <1>2, <1>3, <3>1
  <2>3. QED
    BY <2>1, <2>2
<1>8. g.n \in Nat /\ f[m + 1].n \in Nat /\ f[m + 1].n <= g.n
  <2>1. m + 1 \in 1..(m + 1)
    BY <1>1
  <2>2. f[m + 1].n \in Nat /\ g.n \in Nat
    BY <1>3, <2>1 DEF Framed
  <2>3. QED
    BY <1>4, <2>2 DEF On, InBracket, InProduct, InRun
<1>9. ASSUME NEW i \in 1..(m + 2), NEW j \in 1..(m + 2), i <= j PROVE f2[i].n <= f2[j].n
  <2>1. CASE j = m + 2 /\ i = m + 2
    BY <1>2, <1>8, <2>1
  <2>2. CASE j = m + 2 /\ i # m + 2
    <3>1. i \in 1..(m + 1) /\ m + 1 \in 1..(m + 1) /\ i <= m + 1
      BY <1>1, <2>2
    <3>2. f[i].n \in Nat /\ f[i].n <= f[m + 1].n
      BY <1>3, <3>1 DEF Framed
    <3>3. QED
      BY <1>2, <1>8, <2>2, <3>1, <3>2
  <2>3. CASE j # m + 2
    <3>1. i \in 1..(m + 1) /\ j \in 1..(m + 1)
      BY <1>1, <1>9, <2>3
    <3>2. QED
      BY <1>2, <1>3, <1>9, <3>1
  <2>4. QED
    BY <2>1, <2>2, <2>3
<1>10. Len(s2) + 1 = m + 2
  BY <1>1
<1>11. \A i \in 2..(m + 2) : f2[i].k # "root"
  BY <1>1, <1>7
<1>12. Frames(x, f2, s2, os)
  BY <1>1, <1>5, <1>6, <1>7, <1>9, <1>10, <1>11 DEF Frames
<1>13. QED
  BY <1>2, <1>10, <1>12 DEF s2, Topped

(* Operands that no frame has below it may change.                         *)
LEMMA FramesKeep ==
  ASSUME NEW x, NEW f, NEW signs \in Seq(Binary \cup Openers), NEW os, Frames(x, f, signs, os),
         NEW os2, \A i \in 1..f[Len(signs) + 1].n : os2[i] = os[i]
  PROVE  Frames(x, f, signs, os2)
<1> DEFINE m == Len(signs)
<1>1. m \in Nat
  BY LenProperties
<1> HIDE DEF m
<1>3. /\ f[1].k = "root"
      /\ \A i \in 1..m :
           signs[i] = Sign(x, f[i + 1]) /\ On(x, f[i], f[i + 1]) /\ LeftHeld(x, f[i], f[i + 1], os)
      /\ \A i \in 2..(m + 1) : f[i].k # "root"
      /\ \A i \in 1..(m + 1) : Framed(x, f[i])
      /\ \A i, j \in 1..(m + 1) : i <= j => f[i].n <= f[j].n
  BY DEF Frames, m
<1>4. ASSUME NEW i \in 1..m PROVE LeftHeld(x, f[i], f[i + 1], os2)
  <2>1. LeftHeld(x, f[i], f[i + 1], os) /\ On(x, f[i], f[i + 1])
    BY <1>3
  <2>2. i \in 1..(m + 1) /\ i + 1 \in 1..(m + 1) /\ m + 1 \in 1..(m + 1) /\ i + 1 <= m + 1
    BY <1>1
  <2>3. f[i].n \in Nat /\ f[i + 1].n \in Nat /\ f[i + 1].n <= f[m + 1].n /\ f[m + 1].n \in Nat
    BY <1>3, <2>2 DEF Framed
  <2>4. CASE f[i + 1].k = "bracket"
    BY <2>4 DEF LeftHeld
  <2>5. CASE f[i + 1].k # "bracket"
    <3>1. f[i + 1].n = f[i].n + 1
      BY <2>1, <2>5 DEF On, InBracket, InProduct, InRun
    <3>2. f[i + 1].n \in 1..f[m + 1].n
      BY <2>3, <3>1
    <3>3. os2[f[i + 1].n] = os[f[i + 1].n]
      BY <3>2 DEF m
    <3>4. QED
      BY <2>1, <3>3 DEF LeftHeld
  <2>6. QED
    BY <2>4, <2>5
<1>5. QED
  BY <1>3, <1>4 DEF Frames, m

(* One operator less.                                                      *)
LEMMA FramesPop ==
  ASSUME NEW x, NEW f, NEW signs \in Seq(Binary \cup Openers), NEW os, Frames(x, f, signs, os), signs # <<>>
  PROVE  Frames(x, f, Front(signs), os) /\ Len(Front(signs)) + 1 = Len(signs)
         /\ Front(signs) \in Seq(Binary \cup Openers)
<1> DEFINE m == Len(signs)
           s2 == Front(signs)
<1>1. m \in Nat /\ m >= 1 /\ s2 \in Seq(Binary \cup Openers) /\ Len(s2) = m - 1 /\ \A i \in 1..(m - 1) : s2[i] = signs[i]
  BY LastSeq, FrontSeq
<1> HIDE DEF m, s2
<1>3. /\ f[1].k = "root"
      /\ \A i \in 1..m :
           signs[i] = Sign(x, f[i + 1]) /\ On(x, f[i], f[i + 1]) /\ LeftHeld(x, f[i], f[i + 1], os)
      /\ \A i \in 2..(m + 1) : f[i].k # "root"
      /\ \A i \in 1..(m + 1) : Framed(x, f[i])
      /\ \A i, j \in 1..(m + 1) : i <= j => f[i].n <= f[j].n
  BY DEF Frames, m
<1>4. Len(s2) + 1 = m /\ 1..(m - 1) \subseteq 1..m /\ 1..m \subseteq 1..(m + 1) /\ 2..m \subseteq 2..(m + 1)
  BY <1>1
<1>5. Frames(x, f, s2, os)
  BY <1>1, <1>3, <1>4 DEF Frames
<1>6. QED
  BY <1>1, <1>4, <1>5 DEF s2, m

(* The minus of the last run becomes a plus.                               *)
Negates(g, g2) == g.k = "run" /\ g2.neg /\ g2.k = g.k /\ g2.at = g.at /\ g2.hi = g.hi /\ g2.n = g.n
Replaces(signs, s2) ==
  Len(s2) = Len(signs) /\ \A i \in 1..Len(signs) : s2[i] = IF i = Len(signs) THEN "add" ELSE signs[i]

(* The last minus becomes a plus (_ins_kpr).                               *)
LEMMA FramesNegate ==
  ASSUME NEW x, NEW f, NEW signs \in Seq(Binary \cup Openers), NEW os, Frames(x, f, signs, os), signs # <<>>,
         NEW g2, Framed(x, g2), Negates(f[Len(signs) + 1], g2), NEW s2, Replaces(signs, s2)
  PROVE  Topped(x, s2, os, g2)
<1>0. PICK g : g = f[Len(signs) + 1]
  OBVIOUS
<1>01. /\ g.k = "run" /\ g2.neg /\ g2.k = g.k /\ g2.at = g.at /\ g2.hi = g.hi /\ g2.n = g.n
       /\ Len(s2) = Len(signs) /\ \A i \in 1..Len(signs) : s2[i] = IF i = Len(signs) THEN "add" ELSE signs[i]
  BY <1>0 DEF Negates, Replaces
<1> DEFINE m == Len(signs)
           f2 == [i \in 1..(m + 1) |-> IF i = m + 1 THEN g2 ELSE f[i]]
<1>1. m \in Nat /\ m >= 1 /\ m \in 1..m
  BY LastSeq
<1>2. f2[m + 1] = g2 /\ \A i \in 1..m : f2[i] = f[i]
  BY <1>1
<1>3. Len(s2) = m /\ s2[m] = "add" /\ \A i \in 1..(m - 1) : s2[i] = signs[i]
  BY <1>1, <1>01
<1>4. f[m + 1] = g
  BY <1>0
<1> HIDE DEF m, f2
<1>5. /\ f[1].k = "root"
      /\ \A i \in 1..m :
           signs[i] = Sign(x, f[i + 1]) /\ On(x, f[i], f[i + 1]) /\ LeftHeld(x, f[i], f[i + 1], os)
      /\ \A i \in 2..(m + 1) : f[i].k # "root"
      /\ \A i \in 1..(m + 1) : Framed(x, f[i])
      /\ \A i, j \in 1..(m + 1) : i <= j => f[i].n <= f[j].n
  BY DEF Frames, m
<1>6. f2[1].k = "root"
  BY <1>1, <1>2, <1>5
<1>7. ASSUME NEW i \in 1..m
      PROVE  s2[i] = Sign(x, f2[i + 1]) /\ On(x, f2[i], f2[i + 1]) /\ LeftHeld(x, f2[i], f2[i + 1], os)
  <2>1. CASE i = m
    <3>1. f2[i] = f[i] /\ f2[i + 1] = g2 /\ f[i + 1] = g
      BY <1>2, <1>4, <2>1
    <3>2. Sign(x, g2) = "add"
      BY <1>01 DEF Sign
    <3>3. On(x, f[i], g) /\ LeftHeld(x, f[i], g, os)
      BY <1>5, <3>1
    <3>4. On(x, f[i], g2) /\ LeftHeld(x, f[i], g2, os)
      BY <1>01, <3>3 DEF On, InBracket, InProduct, InRun, LeftHeld, Products
    <3>5. QED
      BY <1>3, <2>1, <3>1, <3>2, <3>4
  <2>2. CASE i # m
    <3>1. i \in 1..(m - 1) /\ i + 1 \in 1..m
      BY <1>1, <2>2
    <3>2. QED
      BY <1>2, <1>3, <1>5, <3>1
  <2>3. QED
    BY <2>1, <2>2
<1>8. ASSUME NEW i \in 1..(m + 1)
      PROVE  Framed(x, f2[i]) /\ (i # 1 => f2[i].k # "root") /\ f2[i].n = f[i].n
  <2>1. CASE i = m + 1
    BY <1>01, <1>2, <1>4, <2>1
  <2>2. CASE i # m + 1
    <3>1. i \in 1..m /\ (i # 1 => i \in 2..(m + 1))
      BY <1>1, <2>2
    <3>2. QED
      BY <1>2, <1>5, <3>1
  <2>3. QED
    BY <2>1, <2>2
<1>9. \A i, j \in 1..(m + 1) : i <= j => f2[i].n <= f2[j].n
  BY <1>5, <1>8
<1>10. \A i \in 2..(m + 1) : f2[i].k # "root"
  BY <1>1, <1>8
<1>11. Frames(x, f2, s2, os)
  BY <1>3, <1>6, <1>7, <1>8, <1>9, <1>10 DEF Frames
<1>12. QED
  BY <1>01, <1>2, <1>3, <1>11 DEF Topped, m

-----------------------------------------------------------------------------
(* One step of the parser, on its stacks.                                  *)
Proper(x, signs, os, p) ==
  /\ Written(x) /\ x.text \in Seq(Token) /\ p \in 1..(Len(x.text) + 1)
  /\ signs \in Seq(Binary \cup Openers) /\ os \in Seq(Operand)

(* The last frame and the last operator.                                   *)
LEMMA TopFrame ==
  ASSUME NEW x, NEW S, NEW signs \in Seq(S), NEW f, NEW os, Frames(x, f, signs, os), Written(x),
         NEW g, g = f[Len(signs) + 1]
  PROVE  /\ Framed(x, g) /\ Len(signs) \in Nat
         /\ g.k = "root" <=> signs = <<>>
         /\ signs # <<>> => /\ Last(signs) = Sign(x, g) /\ On(x, f[Len(signs)], g)
                            /\ LeftHeld(x, f[Len(signs)], g, os) /\ Framed(x, f[Len(signs)])
         /\ g.k = "bracket" => Last(signs) \in Openers
         /\ g.k \in Products => Last(signs) = g.k
         /\ g.k = "run" => Last(signs) \in {"add", "sub"}
<1>1. Len(signs) \in Nat /\ (signs = <<>> <=> Len(signs) = 0)
  BY LenProperties, EmptySeq
<1>2. Framed(x, g) /\ (g.k = "root" <=> signs = <<>>)
  BY <1>1 DEF Frames
<1>3. signs # <<>> => /\ Last(signs) = Sign(x, g) /\ On(x, f[Len(signs)], g)
                      /\ LeftHeld(x, f[Len(signs)], g, os) /\ Framed(x, f[Len(signs)])
  BY <1>1 DEF Frames, Last
<1>4. ASSUME g.k = "bracket" PROVE Last(signs) \in Openers
  <2>1. signs # <<>> /\ ~g.neg /\ Has(x, g.at, g.to + 1, {"bracket"})
    BY <1>2, <1>4 DEF Framed
  <2>2. QED
    BY <1>3, <2>1, BracketOver DEF Sign
<1>5. ASSUME g.k \in Products PROVE Last(signs) = g.k
  <2>1. signs # <<>> /\ ~g.neg /\ x.text[g.at].t = g.k
    BY <1>2, <1>5 DEF Framed, Products
  <2>2. QED
    BY <1>3, <2>1 DEF Sign
<1>6. ASSUME g.k = "run" PROVE Last(signs) \in {"add", "sub"}
  <2>1. signs # <<>> /\ x.text[g.at].t \in {"add", "sub"}
    BY <1>2, <1>6, FrameType
  <2>2. QED
    BY <1>3, <2>1 DEF Sign
<1>7. QED
  BY <1>1, <1>2, <1>3, <1>4, <1>5, <1>6

(* An opening bracket is pushed: what is in it is the last frame.          *)
LEMMA OpenStep ==
  ASSUME NEW x, NEW signs, NEW os, NEW p, Proper(x, signs, os, p), NEW f, Frames(x, f, signs, os),
         NEW g, g = f[Len(signs) + 1], Starts(x, g, p, os), p = g.from, x.text[p].t \in Openers
  PROVE  Stacked(x, Append(signs, x.text[p].t), os, p + 1)
<1>1. Framed(x, g) /\ signs \in Seq(Binary \cup Openers) /\ Written(x)
  BY TopFrame DEF Proper
<1>2. p \in 1..Len(x.text) /\ g.to \in 1..Len(x.text) /\ Has(x, p, g.to, Phrases) /\ g.n \in Nat
  BY <1>1, FrameType
<1>3. PICK e \in p..g.to : Has(x, p, e, {"bracket"})
  BY <1>1, <1>2, HasBegun DEF Begun, Leaves, Openers
<1> DEFINE h == [k |-> "bracket", at |-> p, from |-> At(x, p, e), to |-> e - 1, hi |-> 0, n |-> g.n, neg |-> FALSE]
<1>4. /\ h.k = "bracket" /\ h.at = p /\ h.from = At(x, p, e) /\ h.to = e - 1 /\ h.n = g.n /\ h.neg = FALSE
      /\ h.to + 1 = e
  BY <1>2
<1> HIDE DEF h
<1>5. /\ At(x, p, e) \in (p + 1)..(e - 1) /\ \A q \in (p + 1)..(At(x, p, e) - 1) : x.text[q].t \in Modifiers
      /\ Has(x, At(x, p, e), e - 1, Phrases)
  BY <1>1, <1>3, BracketOver
<1>6. Framed(x, h)
  <2>1. h.n \in Nat /\ h.at \in Nat /\ h.at < h.from /\ (h.at + 1)..(h.from - 1) = (p + 1)..(At(x, p, e) - 1)
    BY <1>2, <1>4, <1>5
  <2>2. Has(x, h.from, h.to, Allowed(h.k)) /\ h.k \notin Products
    BY <1>4, <1>5 DEF Allowed, Products
  <2>3. Has(x, h.at, h.to + 1, {"bracket"}) /\ At(x, h.at, h.to + 1) = h.from
    BY <1>3, <1>4
  <2>4. QED
    BY <1>4, <1>5, <2>1, <2>2, <2>3 DEF Framed
<1>7. On(x, g, h)
  BY <1>2, <1>3, <1>4 DEF On, InBracket
<1>8. LeftHeld(x, g, h, os) /\ x.text[p].t = Sign(x, h) /\ h.k # "root"
  BY <1>4 DEF LeftHeld, Sign
<1>9. x.text[p].t \in Binary \cup Openers
  OBVIOUS
<1> DEFINE t == x.text[p].t
<1>10. Topped(x, Append(signs, t), os, h)
  <2>1. t \in Binary \cup Openers /\ t = Sign(x, h)
    BY <1>8, <1>9
  <2> HIDE DEF t
  <2>2. QED
    BY <1>1, <1>6, <1>7, <1>8, <2>1, FramesPush
<1>11. Starts(x, h, p + 1, os)
  BY <1>2, <1>4, <1>5 DEF Starts
<1>12. QED
  BY <1>10, <1>11 DEF Topped, Stacked, State, Current

(* Turning the sign of an operand.                                         *)
LEMMA RepNegated ==
  ASSUME NEW o \in Operand, NEW v, NEW kind, Rep(o, v, kind)
  PROVE  Rep([o EXCEPT !.ofs = -@], Negated(v), kind) /\ [o EXCEPT !.ofs = -@] \in Operand
<1> DEFINE c == [o EXCEPT !.ofs = -@]
<1>1. o.ofs \in Int /\ -o.ofs \in Int
  BY DEF Operand
<1>2. /\ c.opr = o.opr /\ c.reg1 = o.reg1 /\ c.scale1 = o.scale1 /\ c.reg2 = o.reg2 /\ c.ofs = -o.ofs
      /\ c \in Operand
  BY <1>1 DEF Operand
<1> HIDE DEF c
<1>3. Coef(c) = Coef(o)
  BY <1>2, SameCoef
<1>4. Rep(c, Negated(v), kind)
  BY <1>2, <1>3 DEF Rep, Negated, FormIs
<1>5. QED
  BY <1>2, <1>4 DEF c

(* A leaf is pushed, negated if a minus is in front of it.                 *)
LEMMA LeafStep ==
  ASSUME NEW x, NEW signs, NEW os, NEW p, Proper(x, signs, os, p), NEW f, Frames(x, f, signs, os),
         NEW g, g = f[Len(signs) + 1], Starts(x, g, p, os), p = g.from, x.text[p].t \in Leaves,
         NEW o \in Operand, Rep(o, Leaf(x.text[p]), x.mean.opr), NEW s2, NEW os2,
         IF signs # <<>> /\ Last(signs) = "sub"
         THEN s2 = [signs EXCEPT ![Len(signs)] = "add"] /\ os2 = Append(os, [o EXCEPT !.ofs = -@])
         ELSE s2 = signs /\ os2 = Append(os, o)
  PROVE  Stacked(x, s2, os2, p + 1)
<1>1. Framed(x, g) /\ signs \in Seq(Binary \cup Openers) /\ Written(x) /\ os \in Seq(Operand)
      /\ Len(os) \in Nat
  BY TopFrame, LenProperties DEF Proper
<1>2. /\ p \in 1..Len(x.text) /\ g.to \in 1..Len(x.text) /\ p <= g.to /\ Has(x, p, g.to, Phrases)
      /\ g.n \in Nat
      /\ g.at \in Nat /\ g.at < p /\ Len(os) = g.n /\ g.neg = FALSE
  BY <1>1, FrameType DEF Starts, Framed
<1>3. Has(x, p, p, {"leaf"})
  BY <1>1, <1>2, HasBegun DEF Begun, Leaves, Openers
<1>4. Val(x, p, p) = Leaf(x.text[p])
  <2>1. Node(x, p, p)
    BY <1>1, <1>3, HasNode
  <2>2. QED
    BY <1>3, <2>1 DEF Node, LeafNode
<1>5. ASSUME NEW h, h.k = g.k, h.at = g.at, h.from = g.from, h.to = g.to, h.n = g.n, NEW c,
             Rep(c, Signed(h, Leaf(x.text[p])), x.mean.opr), os2 = Append(os, c), c \in Operand,
             h.k = "run" /\ x.text[h.at].t = "sub" => h.neg
      PROVE  Within(x, h, p + 1, os2)
  <2>1. Len(os2) = g.n + 1 /\ os2[g.n + 1] = c
    BY <1>1, <1>2, <1>5, AppendProperties
  <2>2. (p + 1) - 1 = p
    BY <1>2
  <2>3. Has(x, p, p, Allowed(h.k))
    BY <1>3 DEF Has, Allowed, Factors, Addends, Phrases
  <2>4. QED
    BY <1>2, <1>4, <1>5, <2>1, <2>2, <2>3 DEF Within
<1>6. \A i \in 1..Len(os) : os2[i] = os[i]
  <2>1. [o EXCEPT !.ofs = -@] \in Operand
    BY RepNegated
  <2>2. QED
    BY <1>1, <2>1, AppendProperties
<1>7. Frames(x, f, signs, os2)
  BY <1>1, <1>2, <1>6, FramesKeep
<1>8. CASE signs # <<>> /\ Last(signs) = "sub"
  <2>1. g.k = "run" /\ x.text[g.at].t = "sub"
    <3>1. Last(signs) = Sign(x, g) /\ g.k # "root" /\ g.k \notin Products /\ g.k # "bracket"
      BY <1>1, <1>8, TopFrame DEF Products, Openers
    <3>2. QED
      BY <1>1, <1>2, <1>8, <3>1 DEF Framed, Sign
  <2> DEFINE h == [k |-> g.k, at |-> g.at, from |-> g.from, to |-> g.to, hi |-> g.hi, n |-> g.n, neg |-> TRUE]
             c == [o EXCEPT !.ofs = -@]
  <2>2. /\ h.k = g.k /\ h.at = g.at /\ h.from = g.from /\ h.to = g.to /\ h.hi = g.hi /\ h.n = g.n /\ h.neg
    OBVIOUS
  <2> HIDE DEF h
  <2>3. Framed(x, h)
    BY <1>1, <2>1, <2>2 DEF Framed
  <2>4. Negates(f[Len(signs) + 1], h)
    BY <2>1, <2>2 DEF Negates
  <2>5. signs # <<>> /\ Replaces(signs, s2)
    <3> SUFFICES /\ signs # <<>> /\ Len(s2) = Len(signs)
                 /\ \A i \in 1..Len(signs) : s2[i] = IF i = Len(signs) THEN "add" ELSE signs[i]
      BY DEF Replaces
    <3>1. Len(signs) \in 1..Len(signs) /\ "add" \in Binary \cup Openers
          /\ s2 = [signs EXCEPT ![Len(signs)] = "add"]
      BY <1>1, <1>8, LastSeq DEF Binary
    <3>2. s2 \in Seq(Binary \cup Openers) /\ Len(s2) = Len(signs)
      BY <1>1, <3>1, ExceptSeq
    <3>3. \A i \in 1..Len(signs) : s2[i] = IF i = Len(signs) THEN "add" ELSE signs[i]
      BY <1>1, <3>1, LenProperties
    <3>4. QED
      BY <1>8, <3>2, <3>3
  <2>6. Topped(x, s2, os2, h)
    BY <1>1, <1>7, <2>3, <2>4, <2>5, FramesNegate
  <2>7. Rep(c, Signed(h, Leaf(x.text[p])), x.mean.opr) /\ c \in Operand /\ os2 = Append(os, c)
    BY <1>8, <2>2, RepNegated DEF Signed
  <2> HIDE DEF c
  <2>8. Within(x, h, p + 1, os2)
    BY <1>5, <2>2, <2>7
  <2>9. QED
    BY <2>6, <2>8 DEF Topped, Stacked, State, Current
<1>9. CASE ~(signs # <<>> /\ Last(signs) = "sub")
  <2>1. Signed(g, Leaf(x.text[p])) = Leaf(x.text[p])
    BY <1>2 DEF Signed
  <2>2. g.k = "run" => x.text[g.at].t # "sub"
    BY <1>1, <1>2, <1>9, TopFrame DEF Sign
  <2>3. Within(x, g, p + 1, os2)
    BY <1>5, <1>9, <2>1, <2>2
  <2>4. QED
    BY <1>7, <1>9, <2>3 DEF Stacked, State, Current
<1>10. QED
  BY <1>8, <1>9

(* An operator is pushed whose right side is the frame h.                  *)
LEMMA PushStep ==
  ASSUME NEW x, NEW signs, NEW os, NEW p, Proper(x, signs, os, p), NEW f, Frames(x, f, signs, os),
         NEW g, g = f[Len(signs) + 1], NEW h, Framed(x, h), On(x, g, h), LeftHeld(x, g, h, os),
         h.at = p, h.from = p + 1, h.n = g.n + 1, Len(os) = g.n + 1, ~h.neg, h.k # "root",
         x.text[p].t \in Binary
  PROVE  Stacked(x, Append(signs, x.text[p].t), os, p + 1)
<1>1. signs \in Seq(Binary \cup Openers) /\ Len(os) = h.n /\ p \in Int /\ p < p + 1
  BY DEF Proper
<1>2. Topped(x, Append(signs, x.text[p].t), os, h)
  <2>1. PICK t : t = x.text[p].t
    OBVIOUS
  <2>2. t \in Binary \cup Openers /\ t = Sign(x, h)
    BY <2>1 DEF Sign
  <2>3. Topped(x, Append(signs, t), os, h)
    BY <1>1, <2>2, FramesPush
  <2>4. QED
    BY <2>1, <2>3
<1>3. Starts(x, h, p + 1, os)
  BY <1>1 DEF Starts
<1>4. QED
  BY <1>2, <1>3 DEF Topped, Stacked, State, Current

(* Where the last frame goes on, a binary operator comes, and is pushed.   *)
LEMMA ShiftStep ==
  ASSUME NEW x, NEW signs, NEW os, NEW p, Proper(x, signs, os, p), NEW f, Frames(x, f, signs, os),
         NEW g, g = f[Len(signs) + 1], Within(x, g, p, os),
         p - 1 < g.to \/ (g.k = "run" /\ g.to < g.hi /\ p - 1 = g.to)
  PROVE  /\ p \in 1..Len(x.text) /\ x.text[p].t \in Binary /\ g.k \notin Products
         /\ Stacked(x, Append(signs, x.text[p].t), os, p + 1)
<1>1. Framed(x, g) /\ Written(x) /\ p \in Nat /\ p >= 1 /\ Len(x.text) \in Nat
  BY TopFrame, LenProperties DEF Proper
<1>2. /\ g.to \in 1..Len(x.text) /\ g.n \in Nat
      /\ Has(x, g.from, p - 1, Allowed(g.k)) /\ Len(os) = g.n + 1
      /\ Rep(os[g.n + 1], Signed(g, Val(x, g.from, p - 1)), x.mean.opr)
      /\ g.k = "run" /\ x.text[g.at].t = "sub" /\ x.text[g.from].t \in Leaves => g.neg
  BY <1>1, FrameType DEF Within
<1>3. (p - 1) + 1 = p /\ (p - 1) + 2 = p + 1 /\ p - 1 \in Nat /\ p \in Int
  BY <1>1
<1>4. CASE p - 1 < g.to
  <2>0. p \in 1..Len(x.text)
    BY <1>1, <1>2, <1>4
  <2>1. /\ g.k \notin Products
        /\ \/ \E op \in Products : \E e \in Nat : e <= g.to /\ Multiplying(x, g.from, p - 1, op, e)
           \/ g.k \in {"root", "bracket"} /\ Summing(x, g.from, p - 1, g.to)
    BY <1>1, <1>2, <1>3, <1>4, Onward
  <2>2. ASSUME NEW op \in Products, NEW e \in Nat, e <= g.to, Multiplying(x, g.from, p - 1, op, e)
        PROVE  x.text[p].t \in Binary /\ Stacked(x, Append(signs, x.text[p].t), os, p + 1)
    <3> DEFINE h == [k |-> op, at |-> p, from |-> p + 1, to |-> e, hi |-> 0, n |-> g.n + 1, neg |-> FALSE]
    <3>1. h.k = op /\ h.at = p /\ h.from = p + 1 /\ h.to = e /\ h.n = g.n + 1 /\ ~h.neg
      OBVIOUS
    <3>11. h.neg \in BOOLEAN
      OBVIOUS
    <3> HIDE DEF h
    <3>2. /\ Has(x, g.from, e, {op}) /\ At(x, g.from, e) = p /\ x.text[p].t = op /\ Has(x, p + 1, e, Factors)
      BY <1>3, <2>2 DEF Multiplying
    <3>3. Framed(x, h)
      <4>1. h.n \in Nat /\ h.at \in Nat /\ h.at < h.from /\ (h.at + 1)..(h.from - 1) = {}
        BY <1>1, <1>2, <3>1
      <4>2. Has(x, h.from, h.to, Allowed(h.k)) /\ h.k \notin {"root", "bracket", "run"}
        BY <3>1, <3>2 DEF Allowed, Products
      <4>3. QED
        BY <3>1, <3>11, <3>2, <4>1, <4>2 DEF Framed
    <3>4. On(x, g, h)
      BY <1>2, <2>1, <2>2, <3>1, <3>2 DEF On, InProduct
    <3>5. LeftHeld(x, g, h, os)
      BY <1>2, <3>1 DEF LeftHeld
    <3>6. x.text[p].t \in Binary /\ h.k # "root"
      BY <3>1, <3>2 DEF Products, Binary
    <3>7. QED
      BY <1>2, <3>1, <3>3, <3>4, <3>5, <3>6, PushStep
  <2>3. ASSUME g.k \in {"root", "bracket"}, Summing(x, g.from, p - 1, g.to)
        PROVE  x.text[p].t \in Binary /\ Stacked(x, Append(signs, x.text[p].t), os, p + 1)
    <3> DEFINE h == [k |-> "run", at |-> p, from |-> p + 1, to |-> At(x, p, g.to) - 1, hi |-> g.to,
                     n |-> g.n + 1, neg |-> FALSE]
    <3>1. h.k = "run" /\ h.at = p /\ h.from = p + 1 /\ h.to = At(x, p, g.to) - 1 /\ h.hi = g.to
          /\ h.n = g.n + 1 /\ ~h.neg
      OBVIOUS
    <3>11. h.neg \in BOOLEAN
      OBVIOUS
    <3> HIDE DEF h
    <3>2. Has(x, g.from, g.to, {"sum"}) /\ At(x, g.from, g.to) = p /\ Has(x, p, g.to, {"run"})
      BY <1>3, <2>3 DEF Summing
    <3>3. /\ At(x, p, g.to) \in Nat /\ x.text[p].t \in {"add", "sub"}
          /\ Has(x, p + 1, At(x, p, g.to) - 1, Addends)
      BY <1>1, <3>2, HasRun DEF RunNode
    <3>4. Framed(x, h)
      <4>0. h.n \in Nat /\ h.at \in Nat /\ h.at < h.from /\ (h.at + 1)..(h.from - 1) = {}
        BY <1>1, <1>2, <3>1
      <4>1. At(x, p, g.to) = h.to + 1
        BY <3>1, <3>3
      <4>2. Has(x, h.from, h.to, Allowed(h.k)) /\ h.k \notin Products
        BY <3>1, <3>3 DEF Allowed, Products
      <4>3. g.to = Len(x.text) \/ (g.to < Len(x.text) /\ x.text[g.to + 1].t \in Closers)
        <5>1. CASE g.k = "root"
          BY <1>1, <5>1 DEF Framed
        <5>2. CASE g.k = "bracket"
          <6>1. Has(x, g.at, g.to + 1, {"bracket"})
            BY <1>1, <5>2 DEF Framed
          <6>2. x.text[g.to + 1].t \in Closers /\ g.to + 1 \in 1..Len(x.text)
            BY <1>1, <6>1, BracketOver, HasNode
          <6>3. QED
            BY <1>1, <1>2, <6>2
        <5>3. QED
          BY <2>3, <5>1, <5>2
      <4>4. QED
        BY <3>1, <3>11, <3>2, <4>0, <4>1, <4>2, <4>3 DEF Framed
    <3>5. On(x, g, h)
      BY <2>3, <3>1, <3>2 DEF On, InRun
    <3>6. LeftHeld(x, g, h, os)
      BY <1>2, <3>1 DEF LeftHeld
    <3>7. x.text[p].t \in Binary /\ h.k # "root"
      BY <3>1, <3>3 DEF Binary
    <3>8. QED
      BY <1>2, <3>1, <3>4, <3>5, <3>6, <3>7, PushStep
  <2>4. QED
    BY <2>0, <2>1, <2>2, <2>3
<1>5. CASE g.k = "run" /\ g.to < g.hi /\ p - 1 = g.to
  <2>1. Has(x, p, g.hi, {"run"}) /\ x.text[p].t \in {"add", "sub"} /\ p = g.to + 1
    <3>1. g.to + 1 = p
      BY <1>2, <1>3, <1>5
    <3>2. QED
      BY <1>1, <1>5, <3>1, RunOver
  <2>2. /\ At(x, p, g.hi) \in Nat /\ Has(x, p + 1, At(x, p, g.hi) - 1, Addends) /\ p \in 1..Len(x.text)
    BY <1>1, <2>1, HasRun, HasNode DEF RunNode
  <2> DEFINE h == [k |-> "run", at |-> p, from |-> p + 1, to |-> At(x, p, g.hi) - 1, hi |-> g.hi,
                   n |-> g.n + 1, neg |-> FALSE]
  <2>3. h.k = "run" /\ h.at = p /\ h.from = p + 1 /\ h.to = At(x, p, g.hi) - 1 /\ h.hi = g.hi
        /\ h.n = g.n + 1 /\ ~h.neg
    OBVIOUS
  <2>4. h.neg \in BOOLEAN
    OBVIOUS
  <2> HIDE DEF h
  <2>5. Framed(x, h)
    <3>0. h.n \in Nat /\ h.at \in Nat /\ h.at < h.from /\ (h.at + 1)..(h.from - 1) = {}
      BY <1>1, <1>2, <2>3
    <3>1. At(x, p, g.hi) = h.to + 1
      BY <2>2, <2>3
    <3>2. Has(x, h.from, h.to, Allowed(h.k)) /\ h.k \notin Products
      BY <2>2, <2>3 DEF Allowed, Products
    <3>3. g.hi = Len(x.text) \/ (g.hi < Len(x.text) /\ x.text[g.hi + 1].t \in Closers)
      BY <1>1, <1>5 DEF Framed
    <3>4. QED
      BY <2>1, <2>3, <2>4, <3>0, <3>1, <3>2, <3>3 DEF Framed
  <2>6. x.text[g.at].t = "sub" => g.neg
    <3>1. SUFFICES ASSUME x.text[g.at].t = "sub" PROVE x.text[g.from].t \in Leaves
      BY <1>2, <1>5
    <3>0. RunNode(x, g.at, g.hi) /\ g.hi \in Nat
      BY <1>1, <1>5, FrameType
    <3>2. At(x, g.at, g.hi) = g.to + 1 /\ g.from = g.at + 1
      BY <1>1, <1>5 DEF Framed
    <3>3. Minus(x, g.at, g.hi)
      BY <3>0, <3>1 DEF RunNode
    <3>4. QED
      BY <1>2, <1>5, <3>0, <3>2, <3>3 DEF Minus
  <2>7. On(x, g, h)
    BY <1>5, <2>1, <2>3, <2>6 DEF On, InRun
  <2>8. LeftHeld(x, g, h, os)
    BY <1>2, <2>3 DEF LeftHeld
  <2>9. x.text[p].t \in Binary /\ h.k # "root" /\ g.k \notin Products
    BY <1>5, <2>1, <2>3 DEF Binary, Products
  <2>10. Stacked(x, Append(signs, x.text[p].t), os, p + 1)
    BY <1>2, <2>3, <2>5, <2>7, <2>8, <2>9, PushStep
  <2>11. QED
    BY <2>2, <2>9, <2>10
<1>6. QED
  BY <1>4, <1>5

(* At the end of a bracket the closing one comes, and takes it off.        *)
LEMMA CloseStep ==
  ASSUME NEW x, NEW signs, NEW os, NEW p, Proper(x, signs, os, p), NEW f, Frames(x, f, signs, os),
         NEW g, g = f[Len(signs) + 1], Within(x, g, p, os), g.k = "bracket", p - 1 = g.to
  PROVE  /\ p \in 1..Len(x.text) /\ x.text[p].t \in Closers /\ signs # <<>> /\ Last(signs) \in Openers
         /\ Stacked(x, Front(signs), os, p + 1)
<1>1. Framed(x, g) /\ Written(x) /\ p \in Nat /\ p >= 1 /\ signs # <<>> /\ signs \in Seq(Binary \cup Openers)
      /\ Last(signs) \in Openers
  BY TopFrame DEF Proper
<1>2. PICK a : a = f[Len(signs)]
  OBVIOUS
<1>3. On(x, a, g) /\ Framed(x, a)
  BY <1>1, <1>2, TopFrame
<1>4. g.at = a.from /\ g.to + 1 <= a.to /\ g.n = a.n
  BY <1>3 DEF On, InBracket, InProduct, InRun, Products
<1>5. g.to + 1 = p /\ g.to \in Nat
  BY <1>1, FrameType
<1>6. Has(x, a.from, p, {"bracket"}) /\ At(x, a.from, p) = g.from
  BY <1>1, <1>4, <1>5 DEF Framed
<1>7. /\ x.text[p].t \in Closers /\ x.text[a.from].t \in Openers /\ p \in 1..Len(x.text)
      /\ Val(x, a.from, p) = Val(x, g.from, p - 1)
  BY <1>1, <1>6, BracketOver, HasNode
<1>8. x.text[a.from].t \notin Leaves
  BY <1>7 DEF Openers, Leaves
<1>9. ~a.neg /\ ~g.neg
  BY <1>1, <1>3, <1>8 DEF Framed
<1>10. Has(x, a.from, p, Allowed(a.k))
  BY <1>6 DEF Has, Allowed, Factors, Addends, Phrases
<1>11. Rep(os[a.n + 1], Signed(a, Val(x, a.from, p)), x.mean.opr) /\ Len(os) = a.n + 1
  BY <1>4, <1>7, <1>9 DEF Within, Signed
<1>12. (p + 1) - 1 = p /\ p <= a.to
  BY <1>1, <1>4, <1>5
<1>13. Within(x, a, p + 1, os)
  BY <1>8, <1>10, <1>11, <1>12 DEF Within
<1>14. Frames(x, f, Front(signs), os) /\ Len(Front(signs)) + 1 = Len(signs)
  BY <1>1, FramesPop
<1>15. Stacked(x, Front(signs), os, p + 1)
  BY <1>2, <1>13, <1>14 DEF Stacked, State, Current
<1>16. QED
  BY <1>1, <1>7, <1>15

(* The last two operands are combined.                                     *)
Reducible(x, signs, os, p) ==
  LET o1 == os[Len(os) - 1]
      o2 == Last(os)
      op == Last(signs)
  IN  /\ signs # <<>> /\ op \in Binary /\ Len(os) >= 2 /\ CanCombine(o1, o2, op)
      /\ Stacked(x, Front(signs), Append(Front(Front(os)), Combined(o1, o2, op)), p)

(* c stands for the last two operands.                                     *)
Replacement(os, c, os2) ==
  /\ os2 \in Seq(Operand) /\ Len(os2) = Len(os) - 1 /\ os2[Len(os) - 1] = c
  /\ \A i \in 1..(Len(os) - 2) : os2[i] = os[i]

(* The stack of operands when the last two of it are combined.             *)
LEMMA Replacing ==
  ASSUME NEW os \in Seq(Operand), Len(os) >= 2, NEW c \in Operand, NEW os2, os2 = Append(Front(Front(os)), c)
  PROVE  Replacement(os, c, os2)
<1>1. Len(os) \in Nat /\ os # <<>>
  BY LenProperties, EmptySeq
<1> DEFINE f == Front(os)
<1>2. f \in Seq(Operand) /\ Len(f) = Len(os) - 1 /\ \A i \in 1..(Len(os) - 1) : f[i] = os[i]
  BY <1>1, FrontSeq
<1> HIDE DEF f
<1>3. f # <<>>
  BY <1>1, <1>2, EmptySeq
<1> DEFINE h == Front(f)
<1>4. h \in Seq(Operand) /\ Len(h) = Len(f) - 1 /\ \A i \in 1..(Len(f) - 1) : h[i] = f[i]
  BY <1>2, <1>3, FrontSeq
<1>5. os2 = Append(h, c)
  BY DEF f
<1> HIDE DEF h
<1>6. Len(h) = Len(os) - 2 /\ \A i \in 1..(Len(os) - 2) : h[i] = os[i]
  BY <1>1, <1>2, <1>4
<1>7. os2 \in Seq(Operand) /\ Len(os2) = Len(h) + 1 /\ os2[Len(h) + 1] = c /\ \A i \in 1..Len(h) : os2[i] = h[i]
  BY <1>4, <1>5, AppendProperties
<1>8. QED
  BY <1>1, <1>6, <1>7 DEF Replacement

(* A frame whose right operand is c.                                       *)
Bears(x, a, p, c) == \A os : Len(os) = a.n + 1 /\ os[a.n + 1] = c => Current(x, a, p, os)

(* Combining the last two operands leaves the frame below with what it     *)
(* needs.                                                                  *)
LEMMA ReduceStep ==
  ASSUME NEW x, NEW signs, NEW os, NEW p, Proper(x, signs, os, p), NEW f, Frames(x, f, signs, os),
         NEW g, g = f[Len(signs) + 1], signs # <<>>, g.k # "bracket", Len(os) = g.n + 1,
         NEW o1, NEW o2, o1 = os[g.n], o2 = os[g.n + 1], CanCombine(o1, o2, Last(signs)), Last(signs) \in Binary,
         NEW a, a = f[Len(signs)], Bears(x, a, p, Combined(o1, o2, Last(signs)))
  PROVE  Reducible(x, signs, os, p)
<1>1. Framed(x, a) /\ On(x, a, g) /\ signs \in Seq(Binary \cup Openers) /\ os \in Seq(Operand)
  BY TopFrame DEF Proper
<1>2. a.n \in Nat /\ g.n = a.n + 1 /\ Len(os) = a.n + 2
  BY <1>1 DEF Framed, On, InBracket, InProduct, InRun
<1>21. /\ Len(os) >= 2 /\ Len(os) - 1 = g.n /\ Len(os) - 1 = a.n + 1 /\ Len(os) - 2 = a.n
       /\ g.n \in 1..Len(os) /\ g.n + 1 \in 1..Len(os) /\ Len(os) = g.n + 1
  <2>1. PICK n : n = a.n
    OBVIOUS
  <2>2. n \in Nat /\ g.n = n + 1 /\ Len(os) = n + 2
    BY <1>2, <2>1
  <2>3. /\ n + 2 >= 2 /\ (n + 2) - 1 = n + 1 /\ (n + 2) - 2 = n
        /\ n + 1 \in 1..(n + 2) /\ (n + 1) + 1 \in 1..(n + 2) /\ n + 2 = (n + 1) + 1
    BY <2>2
  <2>4. QED
    BY <2>1, <2>2, <2>3
<1>3. /\ Last(os) = o2 /\ os[Len(os) - 1] = o1
  BY <1>21 DEF Last
<1>4. o1 \in Operand /\ o2 \in Operand
  BY <1>1, <1>21, ElementOfSeq
<1>5. PICK c : c = Combined(o1, o2, Last(signs))
  OBVIOUS
<1>6. c \in Operand
  BY <1>4, <1>5, CombinedType
<1>7. PICK os2 : os2 = Append(Front(Front(os)), c)
  OBVIOUS
<1>8. Len(os2) = a.n + 1 /\ os2[a.n + 1] = c /\ \A i \in 1..a.n : os2[i] = os[i]
  <2>1. /\ Len(os2) = Len(os) - 1 /\ os2[Len(os) - 1] = c
        /\ \A i \in 1..(Len(os) - 2) : os2[i] = os[i]
    <3>1. Replacement(os, c, os2)
      BY <1>1, <1>21, <1>6, <1>7, Replacing
    <3>2. QED
      BY <3>1 DEF Replacement
  <2>2. QED
    BY <1>21, <2>1
<1>9. Current(x, a, p, os2)
  BY <1>5, <1>8 DEF Bears
<1>10. Frames(x, f, Front(signs), os) /\ Len(Front(signs)) + 1 = Len(signs)
       /\ Front(signs) \in Seq(Binary \cup Openers)
  BY <1>1, FramesPop
<1>11. Frames(x, f, Front(signs), os2)
  BY <1>8, <1>10, FramesKeep
<1>12. Stacked(x, Front(signs), os2, p)
  BY <1>9, <1>10, <1>11 DEF Stacked, State
<1>13. QED
  BY <1>21, <1>3, <1>5, <1>7, <1>12 DEF Reducible

(* A product or a shift that has been read can be computed; what comes     *)
(* next waits for it.                                                      *)
LEMMA ProductStep ==
  ASSUME NEW x, NEW signs, NEW os, NEW p, Proper(x, signs, os, p), NEW f, Frames(x, f, signs, os),
         NEW g, g = f[Len(signs) + 1], Within(x, g, p, os), g.k \in Products, x.mean.opr \in {"imm", "mem"}
  PROVE  /\ Reducible(x, signs, os, p) /\ Last(signs) = g.k
         /\ \/ Halts(x, p)
            \/ p \in 1..Len(x.text) /\ x.text[p].t \in {"add", "sub", g.k}
<1>1. /\ Framed(x, g) /\ Written(x) /\ p \in Nat /\ p >= 1 /\ signs \in Seq(Binary \cup Openers)
      /\ os \in Seq(Operand)
      /\ Last(signs) = g.k /\ g.k \notin {"root", "bracket", "run"}
  BY TopFrame DEF Proper, Products
<1>2. PICK a : a = f[Len(signs)]
  OBVIOUS
<1>3. signs # <<>> /\ On(x, a, g) /\ LeftHeld(x, a, g, os) /\ Framed(x, a)
  BY <1>1, <1>2, TopFrame
<1>4. /\ a.k \notin Products /\ g.to <= a.to /\ g.n = a.n + 1
      /\ Has(x, a.from, g.to, {g.k}) /\ At(x, a.from, g.to) = g.at
      /\ a.k = "run" /\ x.text[a.at].t = "sub" /\ x.text[a.from].t \in Leaves => a.neg
  BY <1>1, <1>3 DEF On, InBracket, InProduct, InRun
<1>5. p - 1 = g.to
  <2>1. p - 1 <= g.to /\ Has(x, g.from, p - 1, Allowed(g.k)) /\ g.to \in Nat
    BY <1>1, FrameType DEF Within
  <2>2. QED
    BY <1>1, <2>1, Onward
<1>6. \/ Halts(x, p)
      \/ p \in 1..Len(x.text) /\ x.text[p].t \in {"add", "sub", g.k}
  <2>1. g.to + 1 = p /\ g.to \in Int
    BY <1>1, <1>5
  <2>2. QED
    BY <1>1, <1>3, <1>4, <2>1, BehindProduct
<1>7. g.from = g.at + 1 /\ g.neg = FALSE /\ g.at \in Nat /\ g.n \in Nat /\ a.n \in Nat
  BY <1>1, <1>3 DEF Framed
<1> DEFINE v == Val(x, a.from, g.at - 1)
           w == Val(x, g.at + 1, g.to)
           r == Val(x, a.from, g.to)
<1>8. /\ g.k = "mul" => Multiplies(v, w) /\ r = Multiplied(v, w)
      /\ g.k = "rar" => Halves(v, w) /\ r = Just(Halved(v.k, w.k))
      /\ v \in Value /\ w \in Value /\ r \in Value
  <2>1. Node(x, a.from, g.to) /\ r \in Value
    BY <1>1, <1>4, HasNode
  <2>2. CASE g.k = "mul"
    <3>1. ProductNode(x, a.from, g.to)
      BY <1>4, <2>1, <2>2 DEF Node
    <3>2. Multiplies(v, w) /\ r = Multiplied(v, w)
          /\ Has(x, a.from, g.at - 1, Factors \cup {"mul"}) /\ Has(x, g.at + 1, g.to, Factors)
      BY <1>4, <3>1 DEF ProductNode
    <3>3. v \in Value /\ w \in Value
      BY <1>1, <3>2, HasNode
    <3>4. QED
      BY <2>1, <2>2, <3>2, <3>3
  <2>3. CASE g.k = "rar"
    <3>1. ShiftNode(x, a.from, g.to)
      BY <1>4, <2>1, <2>3 DEF Node
    <3>2. Halves(v, w) /\ r = Just(Halved(v.k, w.k))
          /\ Has(x, a.from, g.at - 1, Factors \cup {"rar"}) /\ Has(x, g.at + 1, g.to, Factors)
      BY <1>4, <3>1 DEF ShiftNode
    <3>3. v \in Value /\ w \in Value
      BY <1>1, <3>2, HasNode
    <3>4. QED
      BY <2>1, <2>3, <3>2, <3>3
  <2>4. QED
    BY <2>2, <2>3 DEF Products
<1> HIDE DEF v, w, r
<1>9. a.neg => g.k = "mul" /\ v.form = "number"
  <2>1. SUFFICES ASSUME a.neg PROVE g.k = "mul" /\ v.form = "number"
    OBVIOUS
  <2>2. /\ a.k = "run" /\ x.text[a.at].t = "sub" /\ x.text[a.from].t \in Leaves /\ a.from = a.at + 1
        /\ At(x, a.at, a.hi) = a.to + 1
    BY <1>3, <2>1 DEF Framed
  <2>3. RunNode(x, a.at, a.hi) /\ a.to \in Nat /\ a.at \in Nat
    BY <1>1, <1>3, <2>2, FrameType
  <2>4. Minus(x, a.at, a.hi)
    BY <2>2, <2>3 DEF RunNode
  <2>5. \A e \in a.from..a.to : <<a.from, e>> \in DOMAIN x.tree =>
                Has(x, a.from, e, {"leaf", "mul"}) /\ Val(x, a.from, e).form = "number"
    <3>1. (a.to + 1) - 1 = a.to
      BY <2>3
    <3>2. QED
      BY <2>2, <2>4, <3>1 DEF Minus
  <2>6. g.to \in a.from..a.to /\ <<a.from, g.to>> \in DOMAIN x.tree
    <3>1. a.from \in Nat /\ g.to \in Nat /\ a.from <= g.to
      BY <1>1, <1>4, HasNode
    <3>2. QED
      BY <1>4, <2>3, <3>1 DEF Has
  <2>7. g.k = "mul"
    BY <1>4, <2>5, <2>6 DEF Has, Products
  <2>8. r.form = "number"
    BY <2>5, <2>6 DEF r
  <2>9. QED
    BY <1>8, <2>7, <2>8 DEF Multiplied, Multiplies
<1>10. PICK o1 : o1 = os[g.n]
  OBVIOUS
<1>11. PICK o2 : o2 = os[g.n + 1]
  OBVIOUS
<1>12. /\ Rep(o1, Signed(a, v), x.mean.opr) /\ Rep(o2, w, x.mean.opr) /\ Len(os) = g.n + 1
       /\ o1 \in Operand /\ o2 \in Operand
  <2>1. Rep(o1, Signed(a, v), x.mean.opr)
    BY <1>1, <1>3, <1>10 DEF LeftHeld, v
  <2>2. Len(os) = g.n + 1 /\ Rep(o2, w, x.mean.opr)
    BY <1>5, <1>7, <1>11 DEF Within, Signed, w
  <2>3. g.n \in 1..Len(os) /\ g.n + 1 \in 1..Len(os)
    BY <1>4, <1>7, <2>2
  <2>4. QED
    BY <1>1, <1>10, <1>11, <2>1, <2>2, <2>3, ElementOfSeq
<1>13. CanCombine(o1, o2, g.k) /\ Rep(Combined(o1, o2, g.k), Signed(a, r), x.mean.opr)
  <2>1. CASE g.k = "rar"
    <3>1. ~a.neg /\ Signed(a, v) = v /\ Signed(a, r) = r
      BY <1>9, <2>1 DEF Signed
    <3>2. QED
      BY <1>8, <1>12, <2>1, <3>1, Shifted
  <2>2. CASE g.k = "mul" /\ ~a.neg
    <3>1. Signed(a, v) = v /\ Signed(a, r) = r
      BY <2>2 DEF Signed
    <3>2. QED
      BY <1>8, <1>12, <2>2, <3>1, Multiples
  <2>3. CASE g.k = "mul" /\ a.neg
    <3>1. Signed(a, v) = Negated(v) /\ Signed(a, r) = Negated(r)
      BY <2>3 DEF Signed
    <3>2. Multiplies(Negated(v), w) /\ Multiplied(Negated(v), w) = Negated(r) /\ Negated(v) \in Value
      BY <1>8, <1>9, <2>3, NegatedMultiple
    <3>3. QED
      BY <1>8, <1>12, <2>3, <3>1, <3>2, Multiples
  <2>4. QED
    BY <2>1, <2>2, <2>3 DEF Products
<1>14. Bears(x, a, p, Combined(o1, o2, Last(signs)))
  <2>0. SUFFICES ASSUME NEW os2, Len(os2) = a.n + 1, os2[a.n + 1] = Combined(o1, o2, Last(signs))
                 PROVE  Current(x, a, p, os2)
    BY DEF Bears
  <2>1. Rep(os2[a.n + 1], Signed(a, Val(x, a.from, p - 1)), x.mean.opr)
    BY <1>1, <1>5, <1>13, <2>0 DEF r
  <2>2. Has(x, a.from, p - 1, Allowed(a.k))
    <3>1. a.k = "run" \/ a.k \in {"root", "bracket"}
      BY <1>3, <1>4 DEF Framed
    <3>2. QED
      BY <1>4, <1>5, <3>1 DEF Has, Allowed, Addends, Phrases, Factors, Products
  <2>3. QED
    BY <1>4, <1>5, <2>0, <2>1, <2>2 DEF Within, Current
<1>15. Last(signs) \in Binary
  BY <1>1 DEF Products, Binary
<1>16. Reducible(x, signs, os, p)
  <2>1. CanCombine(o1, o2, Last(signs)) /\ g.k # "bracket"
    BY <1>1, <1>13
  <2>2. QED
    BY <2>1, <1>1, <1>2, <1>3, <1>10, <1>11, <1>12, <1>14, <1>15, ReduceStep
<1>17. QED
  BY <1>1, <1>6, <1>16

(* What a run that has been read adds to what is in front of it.           *)
LEMMA RunRead ==
  ASSUME NEW x, Written(x), NEW g, Framed(x, g), g.k = "run", NEW p \in Nat, NEW os,
         Ends(x, g, p, os) \/ (Within(x, g, p, os) /\ p - 1 = g.to /\ g.to = g.hi)
  PROVE  /\ p - 1 = g.hi /\ Len(os) = g.n + 1
         /\ \/ Sign(x, g) = "add" /\ Rep(os[g.n + 1], Val(x, g.at, g.hi), x.mean.opr)
            \/ /\ Sign(x, g) = "sub" /\ Val(x, g.from, g.to).form = "number"
               /\ Val(x, g.at, g.hi) = Negated(Val(x, g.from, g.to))
               /\ Val(x, g.from, g.to) \in Value /\ Rep(os[g.n + 1], Val(x, g.from, g.to), x.mean.opr)
<1>1. CASE Ends(x, g, p, os)
  BY <1>1 DEF Ends
<1>2. CASE Within(x, g, p, os) /\ p - 1 = g.to /\ g.to = g.hi
  <2>1. /\ Len(os) = g.n + 1
        /\ Rep(os[g.n + 1], Signed(g, Val(x, g.from, g.to)), x.mean.opr)
    BY <1>2 DEF Within
  <2>2. At(x, g.at, g.hi) = g.to + 1 /\ g.from = g.at + 1 /\ (g.neg => x.text[g.at].t = "sub")
    BY DEF Framed
  <2>3. RunNode(x, g.at, g.hi) /\ g.to \in Nat /\ g.hi \in Nat /\ x.text[g.at].t \in {"add", "sub"}
        /\ Has(x, g.from, g.to, Addends)
    BY FrameType
  <2>4. (g.to + 1) - 1 = g.to
    BY <2>3
  <2>5. Val(x, g.at, g.hi) = FirstOf(x, g.at, g.hi) /\ (x.text[g.at].t = "sub" => Minus(x, g.at, g.hi))
    BY <1>2, <2>2, <2>3 DEF RunNode
  <2>6. FirstOf(x, g.at, g.hi) = IF x.text[g.at].t = "sub" THEN Negated(Val(x, g.from, g.to))
                                 ELSE Val(x, g.from, g.to)
    BY <2>2, <2>4 DEF FirstOf
  <2>7. x.text[g.at].t = "sub" => Val(x, g.from, g.to).form = "number"
    BY <2>2, <2>4, <2>5 DEF Minus
  <2>8. Val(x, g.from, g.to) \in Value
    BY <2>3, HasNode
  <2>9. CASE x.text[g.at].t = "add"
    BY <1>2, <2>1, <2>2, <2>5, <2>6, <2>9 DEF Sign, Signed
  <2>10. CASE x.text[g.at].t = "sub" /\ g.neg
    BY <1>2, <2>1, <2>5, <2>6, <2>10 DEF Sign, Signed
  <2>11. CASE x.text[g.at].t = "sub" /\ ~g.neg
    BY <1>2, <2>1, <2>5, <2>6, <2>7, <2>8, <2>11 DEF Sign, Signed
  <2>12. QED
    BY <2>3, <2>9, <2>10, <2>11
<1>3. QED
  BY <1>1, <1>2

(* What is in front of a run.                                              *)
LEMMA RunLeft ==
  ASSUME NEW x, Written(x), NEW a, Framed(x, a), NEW g, Framed(x, g), InRun(x, a, g)
  PROVE  LET v == Signed(a, Val(x, a.from, g.at - 1))
             w == Val(x, g.at, g.hi)
         IN  /\ v \in Value /\ w \in Value /\ Adds(v, w)
             /\ a.k \in {"root", "bracket"} =>
                  /\ Has(x, a.from, a.to, {"sum"}) /\ g.hi = a.to /\ ~a.neg
                  /\ Val(x, a.from, a.to) = Added(v, w)
             /\ a.k \notin {"root", "bracket"} =>
                  /\ a.k = "run" /\ g.hi = a.hi /\ Sign(x, a) = "add"
                  /\ Val(x, a.at, a.hi) = Added(v, w)
<1> DEFINE v == Signed(a, Val(x, a.from, g.at - 1))
           w == Val(x, g.at, g.hi)
<1>1. w \in Value
  <2>1. Has(x, g.at, g.hi, {"run"})
    BY DEF Framed, InRun
  <2>2. QED
    BY <2>1, HasNode
<1>2. CASE a.k \in {"root", "bracket"}
  <2>1. Has(x, a.from, a.to, {"sum"}) /\ At(x, a.from, a.to) = g.at /\ g.hi = a.to /\ ~a.neg
    BY <1>2 DEF InRun, Framed
  <2>2. Node(x, a.from, a.to)
    BY <2>1, HasNode
  <2>3. SumNode(x, a.from, a.to)
    BY <2>1, <2>2 DEF Node
  <2>4. v = Val(x, a.from, g.at - 1)
    BY <2>1 DEF Signed
  <2>5. Adds(v, w) /\ Val(x, a.from, a.to) = Added(v, w) /\ Has(x, a.from, g.at - 1, Addends)
    BY <2>1, <2>3, <2>4 DEF SumNode
  <2>6. v \in Value
    BY <2>4, <2>5, HasNode
  <2>7. QED
    BY <1>1, <1>2, <2>1, <2>5, <2>6
<1>3. CASE a.k \notin {"root", "bracket"}
  <2>1. a.k = "run" /\ g.hi = a.hi /\ g.at = a.to + 1 /\ (x.text[a.at].t = "sub" => a.neg)
    BY <1>3 DEF InRun
  <2>2. /\ RunNode(x, a.at, a.hi) /\ a.to \in Nat /\ a.hi \in Nat /\ x.text[a.at].t \in {"add", "sub"}
        /\ Has(x, a.from, a.to, Addends)
    BY <2>1, FrameType
  <2>3. At(x, a.at, a.hi) = g.at /\ a.from = a.at + 1 /\ (a.neg => x.text[a.at].t = "sub")
    BY <2>1 DEF Framed
  <2>4. g.at \in Nat /\ g.at <= g.hi /\ g.at # g.hi + 1 /\ g.at - 1 = a.to
    <3>1. Has(x, g.at, g.hi, {"run"})
      BY DEF Framed, InRun
    <3>2. g.at \in Nat /\ g.hi \in Nat /\ g.at <= g.hi
      BY <3>1, HasNode
    <3>3. QED
      BY <2>1, <2>2, <3>2
  <2>5. Adds(FirstOf(x, a.at, a.hi), w) /\ Val(x, a.at, a.hi) = Added(FirstOf(x, a.at, a.hi), w)
    BY <2>1, <2>2, <2>3, <2>4 DEF RunNode
  <2>6. FirstOf(x, a.at, a.hi) = v
    BY <2>1, <2>3, <2>4 DEF FirstOf, Signed
  <2>7. Val(x, a.from, a.to) \in Value
    BY <2>2, HasNode
  <2>8. v \in Value
    BY <2>4, <2>7 DEF Signed, Negated, Value
  <2>9. Sign(x, a) = "add"
    BY <2>1, <2>2 DEF Sign
  <2> HIDE DEF v, w
  <2>10. QED
    BY <1>1, <1>3, <2>1, <2>5, <2>6, <2>8, <2>9 DEF v, w
<1>4. QED
  BY <1>2, <1>3

(* A run that has been read can be added to what is in front of it; the    *)
(* end or a closing bracket comes next.                                    *)
LEMMA RunStep ==
  ASSUME NEW x, NEW signs, NEW os, NEW p, Proper(x, signs, os, p), NEW f, Frames(x, f, signs, os),
         NEW g, g = f[Len(signs) + 1], g.k = "run", x.mean.opr \in {"imm", "mem"},
         Ends(x, g, p, os) \/ (Within(x, g, p, os) /\ p - 1 = g.to /\ g.to = g.hi)
  PROVE  /\ Reducible(x, signs, os, p) /\ Last(signs) \in {"add", "sub"} /\ Halts(x, p)
<1>1. /\ Framed(x, g) /\ Written(x) /\ p \in Nat /\ signs \in Seq(Binary \cup Openers) /\ os \in Seq(Operand)
      /\ signs # <<>> /\ Last(signs) \in {"add", "sub"} /\ Last(signs) = Sign(x, g)
  BY TopFrame DEF Proper
<1>2. PICK a : a = f[Len(signs)]
  OBVIOUS
<1>3. On(x, a, g) /\ LeftHeld(x, a, g, os) /\ Framed(x, a)
  BY <1>1, <1>2, TopFrame
<1>4. InRun(x, a, g) /\ g.n = a.n + 1 /\ a.n \in Nat /\ g.n \in Nat
  BY <1>1, <1>3 DEF On, InBracket, InProduct, InRun, Products, Framed
<1> DEFINE v == Signed(a, Val(x, a.from, g.at - 1))
           w == Val(x, g.at, g.hi)
           u == Val(x, g.from, g.to)
<1>5. /\ p - 1 = g.hi /\ Len(os) = g.n + 1
      /\ \/ Sign(x, g) = "add" /\ Rep(os[g.n + 1], w, x.mean.opr)
         \/ /\ Sign(x, g) = "sub" /\ u.form = "number" /\ w = Negated(u)
            /\ u \in Value /\ Rep(os[g.n + 1], u, x.mean.opr)
  BY <1>1, RunRead
<1>6. /\ v \in Value /\ w \in Value /\ Adds(v, w)
      /\ a.k \in {"root", "bracket"} =>
           /\ Has(x, a.from, a.to, {"sum"}) /\ g.hi = a.to /\ ~a.neg
           /\ Val(x, a.from, a.to) = Added(v, w)
      /\ a.k \notin {"root", "bracket"} =>
           /\ a.k = "run" /\ g.hi = a.hi /\ Sign(x, a) = "add"
           /\ Val(x, a.at, a.hi) = Added(v, w)
  BY <1>1, <1>3, <1>4, RunLeft
<1>7. Rep(os[g.n], v, x.mean.opr)
  BY <1>3 DEF LeftHeld
<1> HIDE DEF v, w, u
<1>8. PICK o1 : o1 = os[g.n]
  OBVIOUS
<1>9. PICK o2 : o2 = os[g.n + 1]
  OBVIOUS
<1>10. o1 \in Operand /\ o2 \in Operand
  <2>1. g.n \in 1..Len(os) /\ g.n + 1 \in 1..Len(os)
    BY <1>4, <1>5
  <2>2. QED
    BY <1>1, <1>8, <1>9, <2>1, ElementOfSeq
<1>11. CanCombine(o1, o2, Last(signs)) /\ Rep(Combined(o1, o2, Last(signs)), Added(v, w), x.mean.opr)
  <2>1. CASE Sign(x, g) = "add" /\ Rep(os[g.n + 1], w, x.mean.opr)
    <3>1. Rep(o1, v, x.mean.opr) /\ Rep(o2, w, x.mean.opr)
      BY <1>7, <1>8, <1>9, <2>1
    <3>2. CanCombine(o1, o2, "add") /\ Rep(Combined(o1, o2, "add"), Added(v, w), x.mean.opr)
      BY <1>6, <1>10, <3>1, Sums
    <3>3. QED
      BY <1>1, <2>1, <3>2
  <2>2. CASE /\ Sign(x, g) = "sub" /\ u.form = "number" /\ w = Negated(u)
             /\ u \in Value /\ Rep(os[g.n + 1], u, x.mean.opr)
    <3>1. Rep(o1, v, x.mean.opr) /\ Rep(o2, u, x.mean.opr)
      BY <1>7, <1>8, <1>9, <2>2
    <3>2. CanCombine(o1, o2, "sub") /\ Rep(Combined(o1, o2, "sub"), Added(v, Negated(u)), x.mean.opr)
      BY <1>6, <1>10, <2>2, <3>1, NumberAdded
    <3>3. QED
      BY <1>1, <2>2, <3>2
  <2>3. QED
    BY <1>5, <2>1, <2>2
<1>12. Bears(x, a, p, Combined(o1, o2, Last(signs)))
  <2>1. SUFFICES ASSUME NEW os2, Len(os2) = a.n + 1, os2[a.n + 1] = Combined(o1, o2, Last(signs))
                 PROVE  Current(x, a, p, os2)
    BY DEF Bears
  <2>2. Rep(os2[a.n + 1], Added(v, w), x.mean.opr)
    BY <1>11, <2>1
  <2>3. CASE a.k \in {"root", "bracket"}
    <3>1. Has(x, a.from, p - 1, Allowed(a.k)) /\ p - 1 = a.to
      BY <1>5, <1>6, <2>3 DEF Has, Allowed, Phrases, Products
    <3>2. Rep(os2[a.n + 1], Signed(a, Val(x, a.from, p - 1)), x.mean.opr)
      BY <1>6, <2>2, <2>3, <3>1 DEF Signed
    <3>3. p - 1 <= a.to /\ a.k # "run"
      BY <1>1, <2>3, <3>1
    <3>4. Within(x, a, p, os2)
      BY <2>1, <3>1, <3>2, <3>3 DEF Within
    <3>5. QED
      BY <3>4 DEF Current
  <2>4. CASE a.k \notin {"root", "bracket"}
    <3>1. Ends(x, a, p, os2)
      BY <1>5, <1>6, <2>1, <2>2, <2>4 DEF Ends
    <3>2. QED
      BY <3>1 DEF Current
  <2>5. QED
    BY <2>3, <2>4
<1>13. Last(signs) \in Binary /\ g.k # "bracket"
  BY <1>1 DEF Binary
<1>14. Reducible(x, signs, os, p)
  BY <1>1, <1>2, <1>5, <1>8, <1>9, <1>11, <1>12, <1>13, ReduceStep
<1>15. Halts(x, p)
  <2>1. g.hi + 1 = p
    BY <1>1, <1>5
  <2>2. QED
    BY <1>1, <2>1, RunOver
<1>16. QED
  BY <1>1, <1>14, <1>15

-----------------------------------------------------------------------------
(* What the parser has to do next, with what the frames say of it then.    *)
Goes(x, os, p, C, signs2) == p \in 1..Len(x.text) /\ x.text[p].t \in C /\ Stacked(x, signs2, os, p + 1)

(* What _ins_kpr does with an operand o.                                   *)
Pushes(o, signs, os, signs2, os2) ==
  IF signs # <<>> /\ Last(signs) = "sub"
  THEN signs2 = [signs EXCEPT ![Len(signs)] = "add"] /\ os2 = Append(os, [o EXCEPT !.ofs = -@])
  ELSE signs2 = signs /\ os2 = Append(os, o)

(* A leaf comes.                                                           *)
Takes(x, signs, os, p) ==
  /\ p \in 1..Len(x.text) /\ x.text[p].t \in Leaves /\ (x.text[p].t = "reg" => x.text[p].reg \in Regs)
  /\ signs = <<>> => p = x.from /\ os = <<>>
  /\ \A o \in Operand : Rep(o, Leaf(x.text[p]), x.mean.opr) =>
       \A signs2, os2 : Pushes(o, signs, os, signs2, os2) => Stacked(x, signs2, os2, p + 1)

(* The last operator is computed before what comes next.                   *)
Reduces(x, signs, os, p) ==
  /\ Reducible(x, signs, os, p)
  /\ \/ Halts(x, p)
     \/ Last(signs) \in Products /\ p \in 1..Len(x.text) /\ x.text[p].t \in {"add", "sub", Last(signs)}

(* All of the operand has been read.                                       *)
Whole(x, signs, os, p) ==
  /\ p = Len(x.text) + 1 /\ signs = <<>> /\ Len(os) = 1
  /\ Rep(os[1], Val(x, x.from, Len(x.text)), x.mean.opr)

Turn(x, signs, os, p) ==
  \/ Goes(x, os, p, Modifiers, signs)
  \/ Takes(x, signs, os, p)
  \/ Goes(x, os, p, Openers, Append(signs, x.text[p].t))
  \/ /\ Goes(x, os, p, Binary, Append(signs, x.text[p].t))
     /\ signs = <<>> \/ Last(signs) \in Openers \cup {"add", "sub"}
  \/ Goes(x, os, p, Closers, Front(signs)) /\ signs # <<>> /\ Last(signs) \in Openers
  \/ Reduces(x, signs, os, p)
  \/ Whole(x, signs, os, p)

(* When nothing of the last frame has been read.                           *)
LEMMA TurnStarts ==
  ASSUME NEW x, NEW signs, NEW os, NEW p, Proper(x, signs, os, p), NEW f, Frames(x, f, signs, os),
         NEW g, g = f[Len(signs) + 1], Starts(x, g, p, os)
  PROVE  \/ Goes(x, os, p, Modifiers, signs)
         \/ Takes(x, signs, os, p)
         \/ Goes(x, os, p, Openers, Append(signs, x.text[p].t))
<1>1. Framed(x, g) /\ Written(x) /\ p \in Nat /\ p >= 1 /\ Len(x.text) \in Nat
  BY TopFrame, LenProperties DEF Proper
<1>2. /\ g.from \in 1..Len(x.text) /\ g.at \in Nat /\ Has(x, g.from, g.to, Phrases)
      /\ g.at < p /\ p <= g.from
  BY <1>1, FrameType DEF Starts
<1>3. p \in 1..Len(x.text)
  BY <1>1, <1>2
<1>4. CASE p < g.from
  <2>1. p \in (g.at + 1)..(g.from - 1)
    BY <1>1, <1>2, <1>4
  <2>2. x.text[p].t \in Modifiers
    BY <1>1, <2>1 DEF Framed
  <2>3. Starts(x, g, p + 1, os)
    BY <1>1, <1>2, <1>4 DEF Starts
  <2>4. Stacked(x, signs, os, p + 1)
    BY <2>3 DEF Stacked, State, Current
  <2>5. QED
    BY <1>3, <2>2, <2>4 DEF Goes
<1>5. CASE p = g.from
  <2>1. (x.text[p].t \in Leaves /\ Has(x, p, p, {"leaf"})) \/ x.text[p].t \in Openers
    BY <1>1, <1>2, <1>5, HasBegun DEF Begun
  <2>2. CASE x.text[p].t \in Openers
    <3>1. Stacked(x, Append(signs, x.text[p].t), os, p + 1)
      BY <1>5, <2>2, OpenStep
    <3>2. QED
      BY <1>3, <2>2, <3>1 DEF Goes
  <2>3. CASE x.text[p].t \in Leaves /\ Has(x, p, p, {"leaf"})
    <3>1. Node(x, p, p)
      BY <1>1, <2>3, HasNode
    <3>2. x.text[p].t = "reg" => x.text[p].reg \in Regs
      BY <2>3, <3>1 DEF Node, LeafNode
    <3>3. ASSUME signs = <<>> PROVE p = x.from /\ os = <<>>
      <4>1. g.k = "root"
        BY <3>3, TopFrame DEF Proper
      <4>2. p = x.from /\ Len(os) = 0
        BY <1>1, <1>5, <4>1 DEF Framed, Starts
      <4>3. QED
        BY <4>2, EmptySeq DEF Proper
    <3>4. ASSUME NEW o \in Operand, Rep(o, Leaf(x.text[p]), x.mean.opr), NEW signs2, NEW os2,
                 Pushes(o, signs, os, signs2, os2)
          PROVE  Stacked(x, signs2, os2, p + 1)
      BY <1>5, <2>3, <3>4, LeafStep DEF Pushes
    <3>5. QED
      BY <1>3, <2>3, <3>2, <3>3, <3>4 DEF Takes
  <2>4. QED
    BY <2>1, <2>2, <2>3
<1>6. QED
  BY <1>1, <1>2, <1>4, <1>5

(* When a phrase of the last frame has been read.                          *)
LEMMA TurnWithin ==
  ASSUME NEW x, NEW signs, NEW os, NEW p, Proper(x, signs, os, p), NEW f, Frames(x, f, signs, os),
         NEW g, g = f[Len(signs) + 1], Within(x, g, p, os), signs # <<>> => x.mean.opr \in {"imm", "mem"}
  PROVE  Turn(x, signs, os, p)
<1>0. Written(x) /\ p \in Nat /\ p >= 1 /\ Len(x.text) \in Nat /\ signs \in Seq(Binary \cup Openers)
  BY LenProperties DEF Proper
<1>9. /\ Framed(x, g)
      /\ g.k = "root" <=> signs = <<>>
      /\ g.k = "bracket" => Last(signs) \in Openers
      /\ g.k = "run" => Last(signs) \in {"add", "sub"}
  BY <1>0, TopFrame
<1>1. /\ Framed(x, g) /\ Written(x) /\ p \in Nat /\ p >= 1 /\ Len(x.text) \in Nat
      /\ g.k = "root" <=> signs = <<>>
      /\ g.k = "bracket" => Last(signs) \in Openers
      /\ g.k = "run" => Last(signs) \in {"add", "sub"}
      /\ g.k \in {"root", "bracket", "run"} \cup Products
  BY <1>0, <1>9 DEF Framed
<1>2. g.to \in 1..Len(x.text) /\ p - 1 <= g.to /\ (g.k = "run" => g.hi \in Nat /\ g.to <= g.hi)
  BY <1>1, FrameType DEF Within
<1>3. CASE p - 1 < g.to \/ (g.k = "run" /\ g.to < g.hi /\ p - 1 = g.to)
  <2>1. /\ p \in 1..Len(x.text) /\ x.text[p].t \in Binary /\ g.k \notin Products
        /\ Stacked(x, Append(signs, x.text[p].t), os, p + 1)
    BY <1>3, ShiftStep
  <2>2. signs = <<>> \/ Last(signs) \in Openers \cup {"add", "sub"}
    BY <1>1, <2>1
  <2>3. QED
    BY <2>1, <2>2 DEF Turn, Goes
<1>4. CASE p - 1 = g.to /\ g.k = "root"
  <2>1. p = Len(x.text) + 1 /\ g.n = 0 /\ g.from = x.from /\ g.to = Len(x.text) /\ ~g.neg
    BY <1>1, <1>4 DEF Framed
  <2>2. Len(os) = 1 /\ Rep(os[1], Val(x, x.from, Len(x.text)), x.mean.opr)
    BY <1>4, <2>1 DEF Within, Signed
  <2>3. QED
    BY <1>1, <1>4, <2>1, <2>2 DEF Turn, Whole
<1>5. CASE p - 1 = g.to /\ g.k = "bracket"
  <2>1. /\ p \in 1..Len(x.text) /\ x.text[p].t \in Closers /\ signs # <<>> /\ Last(signs) \in Openers
        /\ Stacked(x, Front(signs), os, p + 1)
    BY <1>5, CloseStep
  <2>2. QED
    BY <2>1 DEF Turn, Goes
<1>6. CASE p - 1 = g.to /\ g.k \in Products
  <2>1. x.mean.opr \in {"imm", "mem"}
    BY <1>1, <1>6 DEF Products
  <2>2. Reducible(x, signs, os, p) /\ Last(signs) = g.k
        /\ (Halts(x, p) \/ (p \in 1..Len(x.text) /\ x.text[p].t \in {"add", "sub", g.k}))
    BY <1>6, <2>1, ProductStep
  <2>3. QED
    BY <1>6, <2>2 DEF Turn, Reduces
<1>7. CASE p - 1 = g.to /\ g.k = "run" /\ g.to = g.hi
  <2>1. x.mean.opr \in {"imm", "mem"}
    BY <1>1, <1>7
  <2>2. Reducible(x, signs, os, p) /\ Halts(x, p)
    BY <1>7, <2>1, RunStep
  <2>3. QED
    BY <2>2 DEF Turn, Reduces
<1>8. QED
  BY <1>1, <1>2, <1>3, <1>4, <1>5, <1>6, <1>7

(* There is always something to do, and the frames say what.               *)
LEMMA NextTurn ==
  ASSUME NEW x, NEW signs, NEW os, NEW p, Proper(x, signs, os, p), Stacked(x, signs, os, p),
         signs # <<>> => x.mean.opr \in {"imm", "mem"}
  PROVE  Turn(x, signs, os, p)
<1>1. PICK f : State(x, f, signs, os, p)
  BY DEF Stacked
<1>2. PICK g : g = f[Len(signs) + 1]
  OBVIOUS
<1>3. Frames(x, f, signs, os) /\ (Starts(x, g, p, os) \/ Within(x, g, p, os) \/ Ends(x, g, p, os))
  BY <1>1, <1>2 DEF State, Current
<1>4. CASE Starts(x, g, p, os)
  BY <1>2, <1>3, <1>4, TurnStarts DEF Turn
<1>5. CASE Within(x, g, p, os)
  BY <1>2, <1>3, <1>5, TurnWithin
<1>6. CASE Ends(x, g, p, os)
  <2>1. g.k = "run" /\ (g.k = "root" <=> signs = <<>>)
    BY <1>2, <1>3, <1>6, TopFrame DEF Ends, Proper
  <2>2. Reducible(x, signs, os, p) /\ Halts(x, p)
    BY <1>2, <1>3, <1>6, <2>1, RunStep
  <2>3. QED
    BY <2>2 DEF Turn, Reduces
<1>7. QED
  BY <1>3, <1>4, <1>5, <1>6

-----------------------------------------------------------------------------
(* What is known of the operand when p is the next token.                  *)
LEMMA BeforeNext ==
  ASSUME NEW x, NEW p \in Nat \ {0}
  PROVE  \A C : Before(x, p + 1, C) <=> (Before(x, p, C) \/ x.text[p].t \in C)
<1>1. 1..((p + 1) - 1) = 1..(p - 1) \cup {p}
  OBVIOUS
<1>2. QED
  BY <1>1 DEF Before

(* Neither a number nor a register alone is in memory; what is in memory   *)
(* is known to be before anything is read of it.                           *)
LEMMA OprIs ==
  ASSUME NEW x, Written(x), NEW p \in 1..(Len(x.text) + 1), NEW m, NEW os, NEW signs, Found(x, p, m, os, signs)
  PROVE  /\ InMemory(x, p) => x.mean.opr = "mem"
         /\ m.opr \in {"undef", x.mean.opr}
         /\ x.mean.opr = "mem" => (m.opr = "mem" <=> InMemory(x, p))
<1>1. ASSUME NEW q \in 1..(p - 1)
      PROVE  /\ x.mean.opr \in {"imm", "reg"} => x.text[q].t \notin {"size", "segment", "["}
             /\ x.mean.opr = "mem" /\ x.text[q].t \in Leaves => InMemory(x, q)
  <2>1. q \in 1..Len(x.text)
    OBVIOUS
  <2>2. QED
    BY <2>1 DEF Written, Modified
<1>2. InMemory(x, p) => x.mean.opr = "mem"
  BY <1>1 DEF InMemory, Before, Written
<1>3. ASSUME x.mean.opr = "mem", Before(x, p, Leaves) PROVE InMemory(x, p)
  <2>1. PICK q \in 1..(p - 1) : x.text[q].t \in Leaves
    BY <1>3 DEF Before
  <2>2. InMemory(x, q)
    BY <1>1, <1>3, <2>1
  <2>3. PICK r \in 1..(q - 1) : x.text[r].t \in {"size", "segment", "["}
    BY <2>2 DEF InMemory, Before
  <2>4. r \in 1..(p - 1)
    OBVIOUS
  <2>5. QED
    BY <2>3, <2>4 DEF InMemory, Before
<1>4. m.opr = IF InMemory(x, p) THEN "mem" ELSE IF Before(x, p, Leaves) THEN x.mean.opr ELSE "undef"
  BY DEF Found
<1>5. QED
  BY <1>2, <1>3, <1>4

(* What an operand that has a meaning may have next.                       *)
LEMMA MayCome ==
  ASSUME NEW x, Written(x), NEW p \in 1..Len(x.text)
  PROVE  /\ x.text[p].t \in {"size", "rel", "segment"} => ~Before(x, p, {x.text[p].t})
         /\ x.text[p].t = "ptr" => InMemory(x, p) /\ Before(x, p, {"size", "rel"})
         /\ x.text[p].t = "]" => InMemory(x, p)
         /\ x.mean.opr = "mem" /\ x.text[p].t \in Leaves => InMemory(x, p)
         /\ x.mean.opr = "imm" => x.text[p].t \notin {"size", "segment", "[", "reg"}
         /\ x.mean.opr = "reg" => x.text[p].t \in {"reg", "rel"}
         /\ x.mean.opr \in {"imm", "mem", "reg"}
  BY DEF Written, Modified

(* What is known stays known when a token is read that is no operand and   *)
(* no modifier.                                                            *)
LEMMA FoundOn ==
  ASSUME NEW x, Written(x), NEW p \in 1..Len(x.text), NEW m, NEW os, NEW signs, Found(x, p, m, os, signs),
         x.text[p].t \notin Leaves \cup {"size", "rel", "segment", "["}, NEW signs2,
         x.mean.opr = "reg" => signs2 = <<>>
  PROVE  Found(x, p + 1, m, os, signs2)
<1>1. \A C : Before(x, p + 1, C) <=> (Before(x, p, C) \/ x.text[p].t \in C)
  BY BeforeNext
<1>2. Before(x, p + 1, Leaves) <=> Before(x, p, Leaves)
  BY <1>1
<1>3. InMemory(x, p + 1) <=> InMemory(x, p)
  BY <1>1 DEF InMemory
<1>4. /\ Before(x, p + 1, {"size"}) <=> Before(x, p, {"size"})
      /\ Before(x, p + 1, {"rel"}) <=> Before(x, p, {"rel"})
      /\ Before(x, p + 1, {"segment"}) <=> Before(x, p, {"segment"})
  BY <1>1
<1>5. QED
  BY <1>2, <1>3, <1>4 DEF Found

-----------------------------------------------------------------------------
(* One step of the parser on an operand that has a meaning.                *)

(* A token that is accepted leaves one action to take.                     *)
LEMMA Only ==
  ASSUME Next, status = "scan", Legal, Tok.t # "missing"
  PROVE  /\ Tok.t \in Values => Number
         /\ Tok.t = "reg" => Register
         /\ Tok.t \in Modifiers => Modifier
         /\ Tok.t \in Openers => Open
         /\ Reducing => Reduce
         /\ Tok.t \in Binary /\ ~Reducing => Shift
         /\ Tok.t \in Closers /\ ~Reducing => Close
         /\ Tok.t = "end" /\ ~Reducing => Finish
<1>1. /\ Number => Tok.t \in Values
      /\ Register => Tok.t = "reg"
      /\ Segment => Tok.t = "seg"
      /\ Control => Tok.t = "cr"
      /\ Modifier => Tok.t \in {"size", "ptr", "rel", "segment"}
      /\ Open => Tok.t \in Openers
      /\ Reduce => Reducing /\ Tok.t \in Binary \cup Closers \cup {"end"}
      /\ Shift => Tok.t \in Binary /\ ~Reducing
      /\ Close => Tok.t \in Closers /\ ~Reducing
      /\ Finish => Tok.t = "end" /\ ~Reducing
      /\ ~Fail /\ ~Done
  BY DEF Number, Register, Segment, Control, Modifier, Open, Reduce, Shift, Close, Finish, Fail, Done, Reading
<1>2. Reducing => Tok.t \in Binary \cup Closers \cup {"end"}
  BY DEF Reducing
<1>3. QED
  BY <1>1, <1>2 DEF Next, Values, Modifiers, Openers, Binary, Closers

(* The token that comes next.                                              *)
LEMMA Here ==
  ASSUME TypeOK, Written(term)
  PROVE  /\ Proper(term, ops, opds, pc) /\ pc \in Nat \ {0} /\ Len(term.text) \in Nat
         /\ pc \in 1..Len(term.text) => Tok = term.text[pc] /\ Tok \in Token
         /\ pc = Len(term.text) + 1 => Tok.t = "end"
<1>1. term.text \in Seq(Token) /\ Len(term.text) \in Nat /\ pc \in 1..(Len(term.text) + 1)
  BY LenProperties DEF TypeOK
<1>2. Proper(term, ops, opds, pc)
  BY DEF Proper, TypeOK
<1>3. pc \in 1..Len(term.text) => term.text[pc] \in Token
  BY <1>1, ElementOfSeq
<1>4. QED
  BY <1>1, <1>2, <1>3 DEF Tok

(* A modifier (BYTE, PTR, FAR and so on) is accepted and noted.            *)
LEMMA ModifierTurn ==
  ASSUME TypeOK, Written(term), Midway, Next, Goes(term, opds, pc, Modifiers, ops)
  PROVE  Midway'
<1>1. /\ pc \in 1..Len(term.text) /\ Tok = term.text[pc] /\ Tok.t \in Modifiers
      /\ Stacked(term, ops, opds, pc + 1) /\ pc \in Nat \ {0}
  BY Here DEF Goes
<1>2. Found(term, pc, rmo, opds, ops) /\ status = "scan"
  BY DEF Midway
<1>3. /\ InMemory(term, pc) => term.mean.opr = "mem"
      /\ rmo.opr \in {"undef", term.mean.opr}
      /\ term.mean.opr = "mem" => (rmo.opr = "mem" <=> InMemory(term, pc))
  BY <1>1, <1>2, OprIs
<1>4. /\ Tok.t \in {"size", "rel", "segment"} => ~Before(term, pc, {Tok.t})
      /\ Tok.t = "ptr" => InMemory(term, pc) /\ Before(term, pc, {"size", "rel"})
      /\ term.mean.opr = "imm" => Tok.t \notin {"size", "segment", "[", "reg"}
      /\ term.mean.opr = "reg" => Tok.t \in {"reg", "rel"}
      /\ term.mean.opr \in {"imm", "mem", "reg"}
  BY <1>1, MayCome
<1>5. /\ rmo.size <=> Before(term, pc, {"size"})
      /\ rmo.rel <=> Before(term, pc, {"rel"})
      /\ rmo.seg <=> Before(term, pc, {"segment"})
  BY <1>2 DEF Found
<1>6. ~Reducing
  BY <1>1 DEF Reducing, Modifiers, Binary, Closers
<1>7. Legal
  <2>1. CASE Tok.t = "size"
    BY <1>3, <1>4, <1>5, <1>6, <2>1 DEF Legal
  <2>2. CASE Tok.t = "ptr"
    <3>1. Before(term, pc, {"size"}) \/ Before(term, pc, {"rel"})
      BY <1>4, <2>2 DEF Before
    <3>2. QED
      BY <1>3, <1>4, <1>5, <1>6, <2>2, <3>1 DEF Legal
  <2>3. CASE Tok.t = "rel"
    BY <1>4, <1>5, <1>6, <2>3 DEF Legal
  <2>4. CASE Tok.t = "segment"
    BY <1>3, <1>4, <1>5, <1>6, <2>4 DEF Legal
  <2>5. QED
    BY <1>1, <2>1, <2>2, <2>3, <2>4 DEF Modifiers
<1>8. Modifier
  BY <1>1, <1>2, <1>7, Only DEF Modifiers
<1>9. PICK m : m = rmo'
  OBVIOUS
<1>10. /\ term' = term /\ status' = status /\ pc' = pc + 1 /\ opds' = opds /\ ops' = ops
       /\ m.opr = IF Tok.t \in {"size", "segment"} THEN "mem" ELSE rmo.opr
       /\ m.size <=> rmo.size \/ Tok.t = "size"
       /\ m.rel <=> rmo.rel \/ Tok.t = "rel"
       /\ m.seg <=> rmo.seg \/ Tok.t = "segment"
       /\ m.scale1 = rmo.scale1 /\ m.reg1 = rmo.reg1 /\ m.reg2 = rmo.reg2 /\ m.ofs = rmo.ofs
  <2>1. rmo \in Outcome
    BY DEF TypeOK
  <2>2. QED
    BY <1>8, <1>9, <2>1 DEF Modifier, Consume, stacks, Outcome
<1>11. Found(term, pc + 1, m, opds, ops)
  <2>1. \A C : Before(term, pc + 1, C) <=> (Before(term, pc, C) \/ Tok.t \in C)
    BY <1>1, BeforeNext
  <2>2. Before(term, pc + 1, Leaves) <=> Before(term, pc, Leaves)
    BY <1>1, <2>1 DEF Leaves, Modifiers
  <2>3. InMemory(term, pc + 1) <=> (InMemory(term, pc) \/ Tok.t \in {"size", "segment"})
    BY <1>1, <2>1 DEF InMemory, Modifiers
  <2>4. /\ m.size <=> Before(term, pc + 1, {"size"})
        /\ m.rel <=> Before(term, pc + 1, {"rel"})
        /\ m.seg <=> Before(term, pc + 1, {"segment"})
    BY <1>5, <1>10, <2>1
  <2>5. Tok.t \in {"size", "segment"} => term.mean.opr = "mem"
    BY <1>4
  <2>6. rmo.opr = "reg" => m.reg1 = rmo.reg1 /\ m.scale1 = rmo.scale1 /\ m.reg2 = rmo.reg2
    BY <1>10
  <2>7. Coef(m) = Coef(rmo)
    BY <1>10, SameCoef
  <2>8. m.opr = IF InMemory(term, pc + 1) THEN "mem"
                ELSE IF Before(term, pc + 1, Leaves) THEN term.mean.opr ELSE "undef"
    BY <1>2, <1>10, <2>2, <2>3 DEF Found
  <2>9. /\ m.scale1 = 0 /\ m.reg2 = NoReg /\ m.ofs = 0 /\ (m.opr # "reg" => m.reg1 = NoReg)
        /\ m.opr = "reg" => rmo.opr = "reg"
    BY <1>2, <1>3, <1>4, <1>10 DEF Found
  <2>10. QED
    BY <1>2, <2>2, <2>4, <2>7, <2>8, <2>9 DEF Found
<1>12. QED
  BY <1>1, <1>2, <1>9, <1>10, <1>11 DEF Midway

(* Which operators wait for which (get_op_pridx).                          *)
LEMMA Priorities ==
  ASSUME NEW op
  PROVE  /\ op \in {"mul", "rar"} => get_op_pridx(op) = 1
         /\ op \in {"add", "sub"} => get_op_pridx(op) = 5
         /\ op \in Openers => get_op_pridx(op) = 6
         /\ op \in Closers => get_op_pridx(op) = 7
         /\ op = "end" => get_op_pridx(op) = 100
  BY DEF get_op_pridx, Openers, Closers

(* An opening bracket is accepted.                                         *)
LEMMA OpenTurn ==
  ASSUME TypeOK, Written(term), Midway, Next, Goes(term, opds, pc, Openers, Append(ops, term.text[pc].t))
  PROVE  Midway'
<1>1. /\ pc \in 1..Len(term.text) /\ Tok = term.text[pc] /\ Tok.t \in Openers
      /\ Stacked(term, Append(ops, Tok.t), opds, pc + 1) /\ pc \in Nat \ {0}
  BY Here DEF Goes
<1>2. Found(term, pc, rmo, opds, ops) /\ status = "scan"
  BY DEF Midway
<1>3. rmo.opr \in {"undef", term.mean.opr}
  BY <1>1, <1>2, OprIs
<1>4. /\ term.mean.opr \in {"imm", "mem"} /\ (Tok.t = "[" => term.mean.opr = "mem")
  <2>1. /\ term.mean.opr = "imm" => Tok.t \notin {"size", "segment", "[", "reg"}
        /\ term.mean.opr = "reg" => Tok.t \in {"reg", "rel"}
        /\ term.mean.opr \in {"imm", "mem", "reg"}
    BY <1>1, MayCome
  <2>2. QED
    BY <1>1, <2>1 DEF Openers
<1>5. ~Reducing
  BY <1>1 DEF Reducing, Openers, Binary, Closers
<1>6. Legal
  <2>1. CASE Tok.t = "["
    BY <1>3, <1>4, <1>5, <2>1 DEF Legal
  <2>2. CASE Tok.t = "("
    BY <1>5, <2>2 DEF Legal
  <2>3. QED
    BY <1>1, <2>1, <2>2 DEF Openers
<1>7. Open
  BY <1>1, <1>2, <1>6, Only DEF Openers
<1>8. PICK m : m = rmo'
  OBVIOUS
<1>9. /\ term' = term /\ status' = status /\ pc' = pc + 1 /\ opds' = opds /\ ops' = Append(ops, Tok.t)
      /\ m.opr = IF Tok.t = "[" THEN "mem" ELSE rmo.opr
      /\ m.size = rmo.size /\ m.rel = rmo.rel /\ m.seg = rmo.seg
      /\ m.scale1 = rmo.scale1 /\ m.reg1 = rmo.reg1 /\ m.reg2 = rmo.reg2 /\ m.ofs = rmo.ofs
  <2>1. rmo \in Outcome
    BY DEF TypeOK
  <2>2. QED
    BY <1>7, <1>8, <2>1 DEF Open, Consume, Outcome
<1>10. Found(term, pc + 1, m, opds, Append(ops, Tok.t))
  <2>1. \A C : Before(term, pc + 1, C) <=> (Before(term, pc, C) \/ Tok.t \in C)
    BY <1>1, BeforeNext
  <2>2. Before(term, pc + 1, Leaves) <=> Before(term, pc, Leaves)
    BY <1>1, <2>1 DEF Leaves, Openers
  <2>3. InMemory(term, pc + 1) <=> (InMemory(term, pc) \/ Tok.t = "[")
    BY <1>1, <2>1 DEF InMemory, Openers
  <2>4. /\ m.size <=> Before(term, pc + 1, {"size"})
        /\ m.rel <=> Before(term, pc + 1, {"rel"})
        /\ m.seg <=> Before(term, pc + 1, {"segment"})
    BY <1>1, <1>2, <1>9, <2>1 DEF Found, Openers
  <2>5. m.opr = IF InMemory(term, pc + 1) THEN "mem"
                ELSE IF Before(term, pc + 1, Leaves) THEN term.mean.opr ELSE "undef"
    BY <1>2, <1>9, <2>2, <2>3 DEF Found
  <2>6. m.scale1 = 0 /\ m.reg2 = NoReg /\ m.ofs = 0 /\ m.opr # "reg" /\ m.reg1 = NoReg
    BY <1>2, <1>3, <1>4, <1>9 DEF Found
  <2>7. QED
    BY <1>2, <1>4, <2>2, <2>4, <2>5, <2>6 DEF Found
<1>11. QED
  BY <1>1, <1>2, <1>8, <1>9, <1>10 DEF Midway

(* An operator that does not have to wait for a computation is pushed.     *)
LEMMA ShiftTurn ==
  ASSUME TypeOK, Written(term), Midway, Next, Goes(term, opds, pc, Binary, Append(ops, term.text[pc].t)),
         ops = <<>> \/ Last(ops) \in Openers \cup {"add", "sub"}
  PROVE  Midway'
<1>1. /\ pc \in 1..Len(term.text) /\ Tok = term.text[pc] /\ Tok.t \in Binary
      /\ Stacked(term, Append(ops, Tok.t), opds, pc + 1) /\ pc \in Nat \ {0}
  BY Here DEF Goes
<1>2. Found(term, pc, rmo, opds, ops) /\ status = "scan"
  BY DEF Midway
<1>3. term.mean.opr # "reg"
  BY <1>1, MayCome DEF Binary
<1>4. ~Reducing
  <2>1. SUFFICES ASSUME Last(ops) \in {"add", "sub"} PROVE ~IsPrior(Last(ops), Tok.t)
    BY DEF Reducing, TopPrior, Top, Openers, Binary
  <2>2. get_op_pridx(Last(ops)) = 5 /\ get_op_pridx(Tok.t) \in {1, 5}
    BY <1>1, <2>1, Priorities DEF Binary
  <2>3. QED
    BY <2>2 DEF IsPrior
<1>5. Legal
  BY <1>1, <1>4 DEF Legal, Binary
<1>6. Shift
  BY <1>1, <1>2, <1>4, <1>5, Only DEF Binary
<1>7. /\ term' = term /\ status' = status /\ pc' = pc + 1 /\ opds' = opds
      /\ ops' = Append(ops, Tok.t) /\ rmo' = rmo
  BY <1>6 DEF Shift, Consume
<1>8. Found(term, pc + 1, rmo, opds, Append(ops, Tok.t))
  <2>1. Tok.t \notin Leaves \cup {"size", "rel", "segment", "["}
    BY <1>1 DEF Binary, Leaves
  <2>2. QED
    BY <1>1, <1>2, <1>3, <2>1, FoundOn
<1>9. QED
  BY <1>1, <1>2, <1>7, <1>8 DEF Midway

(* A closing bracket is accepted and takes the opening one.                *)
LEMMA CloseTurn ==
  ASSUME TypeOK, Written(term), Midway, Next, Goes(term, opds, pc, Closers, Front(ops)),
         ops # <<>>, Last(ops) \in Openers
  PROVE  Midway'
<1>1. /\ pc \in 1..Len(term.text) /\ Tok = term.text[pc] /\ Tok.t \in Closers
      /\ Stacked(term, Front(ops), opds, pc + 1) /\ pc \in Nat \ {0}
  BY Here DEF Goes
<1>2. Found(term, pc, rmo, opds, ops) /\ status = "scan"
  BY DEF Midway
<1>3. term.mean.opr # "reg" /\ (Tok.t = "]" => rmo.opr = "mem")
  <2>1. term.mean.opr # "reg" /\ (Tok.t = "]" => InMemory(term, pc))
    BY <1>1, MayCome DEF Closers
  <2>2. QED
    BY <1>2, <2>1 DEF Found
<1>4. ~Reducing /\ TopPrior
  <2>1. get_op_pridx(Last(ops)) = 6 /\ get_op_pridx(Tok.t) = 7
    BY <1>1, Priorities
  <2>2. QED
    BY <2>1 DEF Reducing, TopPrior, Top, IsPrior, Openers, Binary
<1>5. Legal
  <2>1. CASE Tok.t = "]"
    BY <1>3, <1>4, <2>1 DEF Legal
  <2>2. CASE Tok.t = ")"
    BY <1>4, <2>2 DEF Legal
  <2>3. QED
    BY <1>1, <2>1, <2>2 DEF Closers
<1>6. Close
  BY <1>1, <1>2, <1>4, <1>5, Only DEF Closers
<1>7. /\ term' = term /\ status' = status /\ pc' = pc + 1 /\ opds' = opds /\ ops' = Front(ops) /\ rmo' = rmo
  BY <1>4, <1>6 DEF Close, Consume
<1>8. Found(term, pc + 1, rmo, opds, Front(ops))
  <2>1. Tok.t \notin Leaves \cup {"size", "rel", "segment", "["}
    BY <1>1 DEF Closers, Leaves
  <2>2. QED
    BY <1>1, <1>2, <1>3, <2>1, FoundOn
<1>9. QED
  BY <1>1, <1>2, <1>7, <1>8 DEF Midway

(* An operator that must be computed first can be, and is.                 *)
LEMMA ReduceTurn ==
  ASSUME TypeOK, Written(term), Midway, Next, Reduces(term, ops, opds, pc)
  PROVE  Midway'
<1>1. /\ pc \in 1..Len(term.text) => Tok = term.text[pc]
      /\ pc = Len(term.text) + 1 => Tok.t = "end"
      /\ pc \in 1..(Len(term.text) + 1)
  BY Here DEF Proper
<1>2. Found(term, pc, rmo, opds, ops) /\ status = "scan"
  BY DEF Midway
<1>3. PICK os : os = Append(Front(Front(opds)), Combined(Below, Last(opds), Top))
  OBVIOUS
<1>4. /\ ops # <<>> /\ Top \in Binary /\ Len(opds) >= 2 /\ CanCombine(Below, Last(opds), Top)
      /\ Stacked(term, Front(ops), os, pc)
  BY <1>3 DEF Reduces, Reducible, Top, Below
<1>5. \/ Tok.t \in Closers \cup {"end"}
      \/ Top \in Products /\ Tok.t \in {"add", "sub", Top}
  BY <1>1 DEF Reduces, Halts, Top
<1>6. Reducing
  <2>1. CASE Tok.t \in Closers \cup {"end"}
    <3>1. get_op_pridx(Top) \in {1, 5} /\ get_op_pridx(Tok.t) \in {7, 100}
      BY <1>4, <2>1, Priorities DEF Binary
    <3>2. IsPrior(Top, Tok.t)
      BY <3>1 DEF IsPrior
    <3>3. QED
      BY <1>4, <2>1, <3>2 DEF Reducing, TopPrior
  <2>2. CASE Top \in Products /\ Tok.t \in {"add", "sub", Top}
    <3>1. get_op_pridx(Top) = 1 /\ (Tok.t \in {"add", "sub"} => get_op_pridx(Tok.t) = 5)
      BY <2>2, Priorities DEF Products
    <3>2. IsPrior(Top, Tok.t)
      BY <2>2, <3>1 DEF IsPrior
    <3>3. Tok.t \in Binary
      BY <1>4, <2>2 DEF Binary
    <3>4. QED
      BY <1>4, <3>2, <3>3 DEF Reducing, TopPrior
  <2>3. QED
    BY <1>5, <2>1, <2>2
<1>7. Legal
  <2>1. CASE Tok.t = "]"
    <3>1. pc \in 1..Len(term.text)
      BY <1>1, <2>1
    <3>2. InMemory(term, pc)
      BY <1>1, <2>1, <3>1, MayCome
    <3>3. rmo.opr = "mem"
      BY <1>2, <3>2 DEF Found
    <3>4. QED
      BY <1>4, <2>1, <3>3 DEF Legal
  <2>2. CASE Tok.t \in Binary \cup {")", "end"}
    BY <1>4, <1>6, <2>2 DEF Legal, Binary
  <2>3. QED
    BY <1>4, <1>5, <2>1, <2>2 DEF Closers, Binary
<1>8. Reduce
  <2>1. Tok.t # "missing"
    BY <1>4, <1>5 DEF Closers, Binary
  <2>2. QED
    BY <1>2, <1>6, <1>7, <2>1, Only
<1>9. /\ term' = term /\ status' = status /\ pc' = pc /\ opds' = os /\ ops' = Front(ops) /\ rmo' = rmo
  BY <1>3, <1>8 DEF Reduce
<1>10. Found(term, pc, rmo, os, Front(ops))
  <2>1. term.mean.opr # "reg"
    BY <1>2, <1>4 DEF Found
  <2>2. rmo.opr # "reg"
    BY <1>1, <1>2, <2>1, OprIs
  <2>3. Before(term, pc, Leaves)
    <3>1. opds # <<>>
      BY <1>4, EmptySeq
    <3>2. QED
      BY <1>2, <3>1 DEF Found
  <2>4. QED
    BY <1>2, <2>1, <2>2, <2>3 DEF Found
<1>11. QED
  BY <1>2, <1>4, <1>9, <1>10 DEF Midway

(* A number, and a register, as an operand of the kind begun.              *)
LEMMA LeafIs ==
  ASSUME NEW kind \in Kinds
  PROVE  /\ \A n \in Int : LET o == [Blank(kind) EXCEPT !.ofs = n]
                           IN  o \in Operand /\ Rep(o, Just(n), kind)
         /\ kind # "imm" => \A t \in Token : t.t = "reg" /\ t.reg \in Regs =>
                              LET o == [Blank(kind) EXCEPT !.reg1 = t.reg]
                              IN  o \in Operand /\ Rep(o, Leaf(t), kind)
<1>1. ASSUME NEW n \in Int, NEW o, o = [Blank(kind) EXCEPT !.ofs = n]
      PROVE  o \in Operand /\ Rep(o, Just(n), kind)
  <2>1. o = [opr |-> kind, reg1 |-> NoReg, scale1 |-> 0, reg2 |-> NoReg, ofs |-> n]
    BY <1>1 DEF Blank
  <2>2. o \in Operand
    BY <2>1 DEF Operand
  <2>3. Coef(o) = [r \in Regs |-> 0]
    BY <2>1, RegAssumption DEF Coef
  <2>4. QED
    BY <2>1, <2>2, <2>3 DEF Rep, Just, FormIs
<1>2. ASSUME NEW t \in Token, t.t = "reg", t.reg \in Regs,
             NEW o, o = [Blank(kind) EXCEPT !.reg1 = t.reg], kind # "imm"
      PROVE  o \in Operand /\ Rep(o, Leaf(t), kind)
  <2>1. o = [opr |-> kind, reg1 |-> t.reg, scale1 |-> 0, reg2 |-> NoReg, ofs |-> 0]
    BY <1>2 DEF Blank
  <2>2. o \in Operand
    <3>1. PICK r : r = t.reg
      OBVIOUS
    <3>2. r \in Regs \cup {NoReg} /\ 0 \in 0..8
      BY <1>2, <3>1
    <3>3. o = [opr |-> kind, reg1 |-> r, scale1 |-> 0, reg2 |-> NoReg, ofs |-> 0]
      BY <2>1, <3>1
    <3>4. QED
      BY <3>2, <3>3 DEF Operand
  <2>3. Coef(o) = [r \in Regs |-> IF r = t.reg THEN 1 ELSE 0]
    BY <1>2, <2>1, RegAssumption DEF Coef, Factor
  <2>4. t.reg # NoReg
    BY <1>2, RegAssumption
  <2>5. QED
    BY <1>2, <2>1, <2>2, <2>3, <2>4 DEF Rep, Leaf, FormIs
<1>3. QED
  BY <1>1, <1>2

(* What is known when a leaf has been read.                                *)
LEMMA FoundLeaf ==
  ASSUME NEW x, Written(x), NEW p \in 1..Len(x.text), NEW m, NEW os, NEW signs, Found(x, p, m, os, signs),
         x.text[p].t \in Leaves, NEW m2, NEW os2, NEW signs2,
         m2.opr = x.mean.opr, m2.size = m.size, m2.rel = m.rel, m2.seg = m.seg,
         m2.scale1 = 0, m2.reg2 = NoReg, m2.ofs = 0, m2.opr # "reg" => m2.reg1 = NoReg,
         m2.opr = "reg" => Coef(os2[1]) = Coef(m2) /\ os2[1].ofs = 0 /\ signs2 = <<>>
  PROVE  Found(x, p + 1, m2, os2, signs2)
<1>1. \A C : Before(x, p + 1, C) <=> (Before(x, p, C) \/ x.text[p].t \in C)
  BY BeforeNext
<1>2. Before(x, p + 1, Leaves)
  BY <1>1
<1>3. InMemory(x, p + 1) <=> InMemory(x, p)
  BY <1>1 DEF InMemory, Leaves
<1>4. InMemory(x, p) => x.mean.opr = "mem"
  BY OprIs
<1>5. /\ m2.size <=> Before(x, p + 1, {"size"})
      /\ m2.rel <=> Before(x, p + 1, {"rel"})
      /\ m2.seg <=> Before(x, p + 1, {"segment"})
  BY <1>1 DEF Found, Leaves
<1>6. QED
  BY <1>2, <1>3, <1>4, <1>5 DEF Found

(* A number, $ or a symbol is accepted, as an operand of the kind begun.   *)
LEMMA NumberTurn ==
  ASSUME TypeOK, Written(term), Midway, Next, Takes(term, ops, opds, pc), Tok.t # "reg"
  PROVE  Midway'
<1>1. /\ pc \in 1..Len(term.text) /\ Tok = term.text[pc] /\ Tok.t \in {"num", "here", "name"}
      /\ pc \in Nat \ {0}
      /\ Tok.ofs \in Int
  BY Here DEF Takes, Leaves, Token
<1>2. Found(term, pc, rmo, opds, ops) /\ status = "scan"
  BY DEF Midway
<1>3. term.mean.opr \in {"imm", "mem"} /\ rmo.opr \in {"undef", term.mean.opr} /\ (term.mean.opr = "mem" => rmo.opr = "mem")
  <2>1. /\ term.mean.opr = "mem" => InMemory(term, pc)
        /\ term.mean.opr \in {"imm", "mem"}
    BY <1>1, MayCome DEF Leaves
  <2>2. /\ rmo.opr \in {"undef", term.mean.opr}
        /\ term.mean.opr = "mem" => (rmo.opr = "mem" <=> InMemory(term, pc))
    BY <1>1, <1>2, OprIs
  <2>3. QED
    BY <2>1, <2>2
<1>4. Kind("imm") = term.mean.opr
  BY <1>3 DEF Kind
<1>5. Legal
  BY <1>1, <1>3 DEF Legal, Reducing, Binary, Closers
<1>6. Number
  BY <1>1, <1>2, <1>5, Only DEF Values
<1>7. PICK o : o = [Blank(term.mean.opr) EXCEPT !.ofs = Tok.ofs]
  OBVIOUS
<1>8. o \in Operand /\ Rep(o, Leaf(Tok), term.mean.opr)
  <2>1. Leaf(Tok) = Just(Tok.ofs)
    BY <1>1 DEF Leaf
  <2>2. term.mean.opr \in Kinds
    BY <1>3 DEF Kinds
  <2>3. QED
    BY <1>1, <1>7, <2>1, <2>2, LeafIs
<1>9. PICK m : m = rmo'
  OBVIOUS
<1>10. /\ term' = term /\ status' = status /\ pc' = pc + 1 /\ PushOpd(o)
       /\ m.opr = term.mean.opr /\ m.size = rmo.size /\ m.rel = rmo.rel /\ m.seg = rmo.seg
       /\ m.scale1 = rmo.scale1 /\ m.reg1 = rmo.reg1 /\ m.reg2 = rmo.reg2 /\ m.ofs = rmo.ofs
  <2>1. rmo \in Outcome
    BY DEF TypeOK
  <2>2. QED
    BY <1>4, <1>6, <1>7, <1>9, <2>1 DEF Number, Consume, Outcome
<1>11. Pushes(o, ops, opds, ops', opds')
  BY <1>10 DEF PushOpd, Pushes, Top
<1>12. PICK os : os = opds'
  OBVIOUS
<1>13. PICK signs : signs = ops'
  OBVIOUS
<1>14. Stacked(term, signs, os, pc + 1)
  BY <1>1, <1>8, <1>11, <1>12, <1>13 DEF Takes
<1>15. Found(term, pc + 1, m, os, signs)
  <2>1. /\ m.scale1 = 0 /\ m.reg2 = NoReg /\ m.ofs = 0 /\ m.opr # "reg" /\ m.reg1 = NoReg
        /\ term.text[pc].t \in Leaves
    BY <1>1, <1>2, <1>3, <1>10 DEF Found, Leaves
  <2>2. QED
    BY <1>1, <1>2, <1>10, <2>1, FoundLeaf
<1>16. QED
  BY <1>2, <1>9, <1>10, <1>12, <1>13, <1>14, <1>15 DEF Midway

(* A register is accepted: in memory, or alone.                            *)
LEMMA RegisterTurn ==
  ASSUME TypeOK, Written(term), Midway, Next, Takes(term, ops, opds, pc), Tok.t = "reg"
  PROVE  Midway'
<1>1. /\ pc \in 1..Len(term.text) /\ Tok = term.text[pc] /\ Tok \in Token /\ pc \in Nat \ {0}
      /\ Tok.reg \in Regs /\ (ops = <<>> => pc = term.from /\ opds = <<>>)
  BY Here DEF Takes
<1>2. Found(term, pc, rmo, opds, ops) /\ status = "scan"
  BY DEF Midway
<1>3. /\ term.mean.opr = "mem" => InMemory(term, pc)
      /\ term.mean.opr \in {"reg", "mem"}
  BY <1>1, MayCome DEF Leaves
<1>4. /\ rmo.opr \in {"undef", term.mean.opr}
      /\ term.mean.opr = "mem" => rmo.opr = "mem"
  BY <1>1, <1>2, <1>3, OprIs
<1>5. ASSUME term.mean.opr = "reg" PROVE ops = <<>> /\ opds = <<>> /\ rmo.opr = "undef"
  <2>1. ops = <<>>
    BY <1>2, <1>5 DEF Found
  <2>2. \A q \in 1..(pc - 1) : term.text[q].t \in Modifiers
    BY <1>1, <2>1 DEF Written
  <2>3. ~Before(term, pc, Leaves)
    BY <2>2 DEF Before, Modifiers, Leaves
  <2>4. ~InMemory(term, pc)
    BY <1>1, <1>2, <1>5, OprIs
  <2>5. QED
    BY <1>1, <1>2, <2>1, <2>3, <2>4 DEF Found
<1>6. Kind("reg") = term.mean.opr
  BY <1>3, <1>4, <1>5 DEF Kind
<1>7. Legal
  BY <1>3, <1>4, <1>5 DEF Legal, Reducing, Binary, Closers
<1>8. Register
  BY <1>2, <1>7, Only
<1>9. PICK o : o = [Blank(term.mean.opr) EXCEPT !.reg1 = Tok.reg]
  OBVIOUS
<1>10. o \in Operand /\ Rep(o, Leaf(Tok), term.mean.opr)
  <2>1. term.mean.opr \in Kinds /\ term.mean.opr # "imm"
    BY <1>3 DEF Kinds
  <2>2. QED
    BY <1>1, <1>9, <2>1, LeafIs
<1>11. PICK m : m = rmo'
  OBVIOUS
<1>12. /\ term' = term /\ status' = status /\ pc' = pc + 1 /\ PushOpd(o)
       /\ m.opr = term.mean.opr /\ m.size = rmo.size /\ m.rel = rmo.rel /\ m.seg = rmo.seg
       /\ m.scale1 = rmo.scale1 /\ m.reg2 = rmo.reg2 /\ m.ofs = rmo.ofs
       /\ m.reg1 = IF rmo.opr = "undef" THEN Tok.reg ELSE rmo.reg1
  <2>1. rmo \in Outcome
    BY DEF TypeOK
  <2>2. QED
    BY <1>6, <1>8, <1>9, <1>11, <2>1 DEF Register, Consume, Outcome
<1>13. Pushes(o, ops, opds, ops', opds')
  BY <1>12 DEF PushOpd, Pushes, Top
<1>14. PICK os : os = opds'
  OBVIOUS
<1>15. PICK signs : signs = ops'
  OBVIOUS
<1>16. Stacked(term, signs, os, pc + 1)
  BY <1>1, <1>10, <1>13, <1>14, <1>15 DEF Takes
<1>17. Found(term, pc + 1, m, os, signs)
  <2>1. m.scale1 = 0 /\ m.reg2 = NoReg /\ m.ofs = 0 /\ term.text[pc].t \in Leaves
    BY <1>1, <1>2, <1>12 DEF Found, Leaves
  <2>2. m.opr # "reg" => m.reg1 = NoReg
    BY <1>2, <1>3, <1>4, <1>12 DEF Found
  <2>3. ASSUME m.opr = "reg" PROVE Coef(os[1]) = Coef(m) /\ os[1].ofs = 0 /\ signs = <<>>
    <3>1. ops = <<>> /\ opds = <<>> /\ rmo.opr = "undef"
      BY <1>5, <1>12, <2>3
    <3>2. signs = <<>> /\ os = Append(<<>>, o)
      BY <1>13, <1>14, <1>15, <3>1 DEF Pushes
    <3>3. os[1] = o
      BY <1>10, <3>2, AppendProperties, EmptySeq
    <3>4. o.reg1 = Tok.reg /\ o.scale1 = 0 /\ o.reg2 = NoReg /\ o.ofs = 0
      BY <1>9 DEF Blank
    <3>5. m.reg1 = Tok.reg
      BY <1>12, <3>1
    <3>6. QED
      BY <2>1, <3>2, <3>3, <3>4, <3>5, SameCoef
  <2>4. QED
    BY <1>1, <1>2, <1>12, <2>1, <2>2, <2>3, FoundLeaf
<1>18. QED
  BY <1>2, <1>11, <1>12, <1>14, <1>15, <1>16, <1>17 DEF Midway

(* The end is accepted, and the result is what the operand means.          *)
LEMMA FinishTurn ==
  ASSUME TypeOK, Written(term), term.mean # NoMean, Midway, Next, Whole(term, ops, opds, pc)
  PROVE  Reached'
<1>1. /\ Tok.t = "end" /\ ops = <<>> /\ Len(opds) = 1 /\ opds # <<>>
      /\ Rep(opds[1], Val(term, term.from, Len(term.text)), term.mean.opr) /\ opds[1] \in Operand
      /\ pc \in 1..(Len(term.text) + 1)
  <2>1. opds \in Seq(Operand) /\ 1 \in 1..Len(opds) /\ pc \in 1..(Len(term.text) + 1)
    BY DEF Whole, TypeOK
  <2>2. opds[1] \in Operand
    BY <2>1, ElementOfSeq
  <2>3. Tok.t = "end" /\ ops = <<>> /\ Len(opds) = 1
    BY Here DEF Whole
  <2>4. opds # <<>>
    BY <2>1, <2>3, EmptySeq
  <2>5. QED
    BY <2>1, <2>2, <2>3, <2>4 DEF Whole
<1>2. Found(term, pc, rmo, opds, ops) /\ status = "scan"
  BY DEF Midway
<1>3. /\ term.mean.opr \in {"imm", "mem", "reg"}
      /\ term.mean \in Meaning
      /\ term.mean.ofs = opds[1].ofs /\ term.mean.coef = Coef(opds[1])
      /\ term.mean.opr = "imm" => opds[1].reg1 = NoReg /\ opds[1].reg2 = NoReg /\ opds[1].scale1 = 0
      /\ opds[1].opr = term.mean.opr
  <2>1. term.mean \in Meaning
    BY DEF TypeOK
  <2>2. QED
    BY <1>1, <2>1 DEF Written, Rep, FormIs
<1>4. rmo.opr = term.mean.opr
  <2>1. rmo.opr \in {"undef", term.mean.opr}
    BY <1>1, <1>2, OprIs
  <2>2. rmo.opr # "undef"
    BY <1>1, <1>2, <1>3 DEF Found
  <2>3. QED
    BY <2>1, <2>2
<1>5. ~Reducing
  BY <1>1 DEF Reducing, TopPrior
<1>6. Legal
  BY <1>1, <1>3, <1>4, <1>5 DEF Legal
<1>7. Finish
  BY <1>1, <1>2, <1>5, <1>6, Only
<1>8. rmo' = Result /\ status' = "ok" /\ term' = term
  BY <1>7 DEF Finish
<1>9. PICK m : m = rmo'
  OBVIOUS
<1>10. PICK o : o = opds[1]
  OBVIOUS
<1>11. Last(opds) = o /\ rmo \in Outcome
  BY <1>1, <1>10 DEF Last, TypeOK
<1>12. m.opr = term.mean.opr /\ m.ofs = o.ofs /\ Coef(m) = Coef(o)
  <2>1. CASE term.mean.opr = "imm"
    <3>1. m = [rmo EXCEPT !.ofs = o.ofs]
      BY <1>1, <1>3, <1>8, <1>9, <1>10, <1>11, <2>1 DEF Result
    <3>2. m.opr = rmo.opr /\ m.ofs = o.ofs /\ m.reg1 = rmo.reg1 /\ m.scale1 = rmo.scale1 /\ m.reg2 = rmo.reg2
      BY <1>11, <3>1 DEF Outcome
    <3>3. rmo.reg1 = NoReg /\ rmo.scale1 = 0 /\ rmo.reg2 = NoReg
      BY <1>2, <1>4, <2>1 DEF Found
    <3>4. o.reg1 = NoReg /\ o.scale1 = 0 /\ o.reg2 = NoReg
      BY <1>3, <1>10, <2>1
    <3>5. Coef(m) = Coef(o)
      BY <3>2, <3>3, <3>4, SameCoef
    <3>6. QED
      BY <1>4, <3>2, <3>5
  <2>2. CASE term.mean.opr = "mem"
    <3>1. m = [rmo EXCEPT !.reg1 = o.reg1, !.scale1 = o.scale1, !.reg2 = o.reg2, !.ofs = o.ofs]
      BY <1>1, <1>3, <1>8, <1>9, <1>10, <1>11, <2>2 DEF Result
    <3>2. m.opr = rmo.opr /\ m.ofs = o.ofs /\ m.reg1 = o.reg1 /\ m.scale1 = o.scale1 /\ m.reg2 = o.reg2
      BY <1>11, <3>1 DEF Outcome
    <3>3. Coef(m) = Coef(o)
      BY <3>2, SameCoef
    <3>4. QED
      BY <1>4, <3>2, <3>3
  <2>3. CASE term.mean.opr = "reg"
    <3>1. m = rmo
      BY <1>1, <1>3, <1>8, <1>9, <1>10, <1>11, <2>3 DEF Result
    <3>2. Coef(o) = Coef(rmo) /\ o.ofs = 0 /\ rmo.ofs = 0
      BY <1>1, <1>2, <1>4, <1>10, <2>3 DEF Found
    <3>3. QED
      BY <1>4, <3>1, <3>2
  <2>4. QED
    BY <1>3, <2>1, <2>2, <2>3
<1>13. [opr |-> m.opr, ofs |-> m.ofs, coef |-> Coef(m)] = term.mean
  <2>1. term.mean = [opr |-> term.mean.opr, ofs |-> term.mean.ofs, coef |-> term.mean.coef]
    BY <1>3 DEF Meaning
  <2>2. QED
    BY <1>3, <1>10, <1>12, <2>1
<1>14. QED
  BY <1>8, <1>9, <1>13 DEF Reached

-----------------------------------------------------------------------------
(* The invariant: an operand that has a meaning is being read as its tree  *)
(* says, or has been read to what it means.                                *)

(* Before the first token there is the root alone.                         *)
LEMMA MeanInit == Init => MeanInv
<1> SUFFICES ASSUME Init, term.mean # NoMean PROVE Written(term) /\ Midway
  BY DEF MeanInv
<1>1. /\ term \in Terms /\ pc = 1 /\ opds = <<>> /\ ops = <<>> /\ status = "scan"
      /\ rmo = [opr |-> "undef", reg1 |-> NoReg, scale1 |-> 0, reg2 |-> NoReg, ofs |-> 0,
                size |-> FALSE, rel |-> FALSE, seg |-> FALSE]
  BY DEF Init
<1>2. Written(term)
  BY <1>1, WrittenAssumption
<1>3. \A C : ~Before(term, 1, C)
  BY DEF Before
<1>4. Found(term, 1, rmo, <<>>, <<>>)
  BY <1>1, <1>3 DEF Found, InMemory
<1> DEFINE g == [k |-> "root", at |-> 0, from |-> term.from, to |-> Len(term.text),
                 hi |-> 0, n |-> 0, neg |-> FALSE]
           f == [i \in {1} |-> g]
<1>5. /\ g.k = "root" /\ g.at = 0 /\ g.from = term.from /\ g.to = Len(term.text) /\ g.n = 0
      /\ g.neg = FALSE /\ f[1] = g
  OBVIOUS
<1> HIDE DEF g, f
<1>6. /\ term.from \in 1..Len(term.text) /\ \A q \in 1..(term.from - 1) : term.text[q].t \in Modifiers
      /\ Has(term, term.from, Len(term.text), Phrases)
  BY <1>2 DEF Written
<1>7. Framed(term, g)
  <2>1. g.n \in Nat /\ g.at \in Nat /\ g.at < g.from /\ (g.at + 1)..(g.from - 1) = 1..(term.from - 1)
    BY <1>5, <1>6
  <2>2. Has(term, g.from, g.to, Allowed(g.k))
    BY <1>5, <1>6 DEF Allowed, Products
  <2>3. g.neg \in BOOLEAN /\ ~g.neg /\ g.k \notin Products
    BY <1>5 DEF Products
  <2>4. QED
    BY <1>5, <1>6, <2>1, <2>2, <2>3 DEF Framed
<1>8. Len(<<>>) = 0
  BY EmptySeq
<1>9. Frames(term, f, <<>>, <<>>)
  BY <1>5, <1>7, <1>8 DEF Frames
<1>10. Starts(term, g, 1, <<>>)
  BY <1>5, <1>6, <1>8 DEF Starts
<1>11. Stacked(term, <<>>, <<>>, 1)
  BY <1>5, <1>8, <1>9, <1>10 DEF Stacked, State, Current
<1>12. QED
  BY <1>1, <1>2, <1>4, <1>11 DEF Midway

(* One step of the parser keeps the invariant.                             *)
LEMMA MeanStep ==
  ASSUME TypeOK, MeanInv, [Next]_vars
  PROVE  MeanInv'
<1>1. term' = term
  BY DEF Next, vars, Number, Register, Segment, Control, Modifier, Open, Reduce, Shift, Close,
     Finish, Fail, Done, Consume
<1>2. SUFFICES ASSUME term.mean # NoMean PROVE (Midway \/ Reached)'
  BY <1>1 DEF MeanInv
<1>3. Written(term) /\ (Midway \/ Reached)
  BY <1>2 DEF MeanInv
<1>4. CASE UNCHANGED vars
  BY <1>3, <1>4 DEF vars, stacks, Midway, Reached
<1>5. CASE Next /\ Reached
  <2>1. UNCHANGED vars
    BY <1>5 DEF Reached, Next, Number, Register, Segment, Control, Modifier, Open, Reduce, Shift,
       Close, Finish, Fail, Done, Reading
  <2>2. QED
    BY <1>4, <2>1
<1>6. CASE Next /\ Midway
  <2>1. Proper(term, ops, opds, pc) /\ Stacked(term, ops, opds, pc)
    BY <1>3, <1>6, Here DEF Midway
  <2>2. ops # <<>> => term.mean.opr \in {"imm", "mem"}
    BY <1>3, <1>6 DEF Midway, Found, Written
  <2>3. Turn(term, ops, opds, pc)
    BY <2>1, <2>2, NextTurn
  <2>4. CASE Goes(term, opds, pc, Modifiers, ops)
    BY <1>3, <1>6, <2>4, ModifierTurn
  <2>5. CASE Takes(term, ops, opds, pc)
    BY <1>3, <1>6, <2>5, NumberTurn, RegisterTurn
  <2>6. CASE Goes(term, opds, pc, Openers, Append(ops, term.text[pc].t))
    BY <1>3, <1>6, <2>6, OpenTurn
  <2>7. CASE /\ Goes(term, opds, pc, Binary, Append(ops, term.text[pc].t))
             /\ ops = <<>> \/ Last(ops) \in Openers \cup {"add", "sub"}
    BY <1>3, <1>6, <2>7, ShiftTurn
  <2>8. CASE Goes(term, opds, pc, Closers, Front(ops)) /\ ops # <<>> /\ Last(ops) \in Openers
    BY <1>3, <1>6, <2>8, CloseTurn
  <2>9. CASE Reduces(term, ops, opds, pc)
    BY <1>3, <1>6, <2>9, ReduceTurn
  <2>10. CASE Whole(term, ops, opds, pc)
    BY <1>2, <1>3, <1>6, <2>10, FinishTurn
  <2>11. QED
    BY <2>3, <2>4, <2>5, <2>6, <2>7, <2>8, <2>9, <2>10 DEF Turn
<1>7. QED
  BY <1>3, <1>4, <1>5, <1>6

(* Every operand that has a meaning is accepted, and computed to just      *)
(* that: its kind, its number and how often each register is in it, for    *)
(* every tree the grammar of BTerm allows (bctx_parse_term and             *)
(* _combine_opds).                                                         *)
THEOREM Meaningful == Spec => []MeansWhatItSays
<1>1. MeanInv => MeansWhatItSays
  BY DEF MeanInv, MeansWhatItSays, Midway, Reached
<1>2. TypeOK /\ MeanInv /\ [Next]_vars => MeanInv'
  BY MeanStep
<1>3. QED
  BY <1>1, <1>2, MeanInit, TypeCorrect, PTL DEF Spec
=============================================================================

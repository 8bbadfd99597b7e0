-------------------------------- MODULE BCpu --------------------------------
(* The instructions of the processor, read back from the units of a line:    *)
(* what the bytes the handlers of BInst put mean to an x86 in 16-, 32- or    *)
(* 64-bit mode.  It is written from the layout of the machine's              *)
(* instructions and knows nothing of the assembler.                          *)
(*                                                                           *)
(* A meaning is [m, z, a, b]: the operation, its size and its operands.  An  *)
(* address is how often each register is added, the displacement, both at    *)
(* the address size, and the segment override.                               *)
EXTENDS BModrm

None == [k |-> "none"]
RegM(r) == [k |-> "reg", r |-> r]
ImmM(v) == [k |-> "imm", v |-> v]
SegM(n) == [k |-> "seg", n |-> n]
CrM(n)  == [k |-> "cr", n |-> n]
MemM(seg, asz, rip, f, d) == [k |-> "mem", seg |-> seg, asz |-> asz, rip |-> rip, f |-> f, d |-> d]
Means(m, z, a, b) == [m |-> m, z |-> z, a |-> a, b |-> b]
Garbage == Means("garbage", 0, None, None)

(* Numbers of z bits; those of 64 bits are never too large here. *)
Modulus(z) == CASE z = 8 -> 256 [] z = 16 -> 65536 [] OTHER -> 2^DwordBits
Wrap(z, v) == IF z = 64 THEN v ELSE v % Modulus(z)
SignExt(z, v) ==
  IF z = 64 THEN v ELSE ((v + Modulus(z) \div 2) % Modulus(z)) - Modulus(z) \div 2

(* The i-th unit of a text, if it has one. *)
At(s, i) == IF i \in 1..Len(s) THEN s[i] ELSE [w |-> 0, v |-> 0]
ByteAt(s, i) == At(s, i).v % 256
Unit(u) == SignExt(8 * u.w, u.v)

-----------------------------------------------------------------------------
(* The prefixes; REX.W, 0x48, is one in 64-bit mode only, and only in front  *)
(* of the opcode.                                                            *)
SegOverrides == {38, 46, 54, 62, 100, 101}
IsPrefix(mode, u) ==
  u.w = 1 /\ u.v % 256 \in SegOverrides \cup {102, 103} \cup (IF mode = 64 THEN {72} ELSE {})
FrontLen(mode, s) == CHOOSE n \in 0..Len(s) :
                       /\ \A i \in 1..n : IsPrefix(mode, s[i])
                       /\ n = Len(s) \/ ~IsPrefix(mode, s[n + 1])
Front(mode, s) == {ByteAt(s, i) : i \in 1..FrontLen(mode, s)}
Rest(mode, s) == SubSeq(s, FrontLen(mode, s) + 1, Len(s))

OperandSize(mode, pre) == CASE 72 \in pre -> 64
                            [] 72 \notin pre /\ (mode = 16) # (102 \in pre) -> 16
                            [] OTHER -> 32
(* of PUSH, POP and near jumps *)
StackSize(mode, pre) == IF mode # 64 THEN OperandSize(mode, pre) ELSE IF 102 \in pre THEN 16 ELSE 64
AddressSize(mode, pre) == IF 103 \notin pre THEN mode ELSE IF mode = 32 THEN 16 ELSE 32
Override(pre) == IF pre \cap SegOverrides = {} THEN 0 ELSE CHOOSE p \in pre : p \in SegOverrides

-----------------------------------------------------------------------------
(* ModR/M and what hangs on it, s starting with it. *)
Mod(s)   == ByteAt(s, 1) \div 64
RegF(s)  == (ByteAt(s, 1) \div 8) % 8
RmF(s)   == ByteAt(s, 1) % 8
HasSib(asz, s) == asz # 16 /\ Mod(s) # 3 /\ RmF(s) = 4
Base(s)  == ByteAt(s, 2) % 8
Index(s) == (ByteAt(s, 2) \div 8) % 8
Factor(s) == 2^(ByteAt(s, 2) \div 64)

NoBase(asz, s) == Mod(s) = 0 /\ CASE asz = 16 -> RmF(s) = 6
                                  [] asz # 16 /\ RmF(s) = 4 -> Base(s) = 5
                                  [] OTHER -> RmF(s) = 5
DispWidth(asz, s) == CASE Mod(s) = 1 -> 1
                       [] Mod(s) = 2 \/ NoBase(asz, s) -> IF asz = 16 THEN 2 ELSE 4
                       [] OTHER -> 0
ModrmWidths(asz, s) == <<1>> \o When(HasSib(asz, s), <<1>>)
                       \o When(DispWidth(asz, s) > 0, <<DispWidth(asz, s)>>)

Count(c) == IF c THEN 1 ELSE 0
Sum16(rm) == CASE rm = 0 -> {3, 6} [] rm = 1 -> {3, 7} [] rm = 2 -> {5, 6} [] rm = 3 -> {5, 7}
               [] rm = 4 -> {6} [] rm = 5 -> {7} [] rm = 6 -> {5} [] OTHER -> {3}
Added(asz, s, n) ==
  CASE asz = 16 -> Count(~NoBase(asz, s) /\ n \in Sum16(RmF(s)))
    [] HasSib(asz, s) -> Count(~NoBase(asz, s) /\ n = Base(s))
                         + (IF n = Index(s) /\ n # 4 THEN Factor(s) ELSE 0)
    [] OTHER -> Count(~NoBase(asz, s) /\ n = RmF(s))

(* The operand a ModR/M names, at operand size z. *)
ModrmOpd(mode, pre, z, s) ==
  LET asz == AddressSize(mode, pre)
      disp == At(s, Len(ModrmWidths(asz, s)))
  IN  IF Mod(s) = 3
        THEN RegM(Reg(z, RmF(s)))
        ELSE MemM(Override(pre), asz, mode = 64 /\ NoBase(asz, s) /\ ~HasSib(asz, s),
                  [n \in 0..7 |-> Added(asz, s, n)],
                  Wrap(asz, IF DispWidth(asz, s) = 0 THEN 0 ELSE Unit(disp)))

-----------------------------------------------------------------------------
(* A row of the opcode map: the operation, its size, where its operands are  *)
(* and the widths of the immediates.  E is the ModR/M operand, G the register*)
(* in its middle field, S and C the segment and control register there, Z    *)
(* the register in the opcode, A the accumulator, D DX, O a bare address, I  *)
(* the first immediate at the size of the operation, N the last one, a byte. *)
Row(m, z, a, b, imms) == [m |-> m, z |-> z, a |-> a, b |-> b, imms |-> imms]
NoRow == Row("garbage", 0, "-", "-", <<>>)

Arith == <<"add", "or", "adc", "sbb", "and", "sub", "xor", "cmp">>
Shift == <<"rol", "ror", "rcl", "rcr", "shl", "shr", "sal", "sar">>

FullImm(z) == IF z = 8 THEN 1 ELSE IF z = 16 THEN 2 ELSE 4

(* b is the opcode, ext the middle field of the byte behind it, os and ss    *)
(* the operand sizes; an even opcode of a pair is the one on bytes.          *)
OneByte(mode, os, ss, asz, b, ext) ==
  LET w == IF b % 2 = 0 THEN 8 ELSE os
      seg == b \div 8
  IN  CASE b < 64 /\ b % 8 < 4 -> IF b % 8 < 2 THEN Row(Arith[b \div 8 + 1], w, "E", "G", <<>>)
                                               ELSE Row(Arith[b \div 8 + 1], w, "G", "E", <<>>)
        [] b < 64 /\ b % 8 \in {4, 5} -> Row(Arith[b \div 8 + 1], w, "A", "I", <<FullImm(w)>>)
        [] b < 32 /\ b % 8 = 6 /\ mode # 64 -> Row("push", ss, "sr", "-", <<>>)
        [] b < 32 /\ b % 8 = 7 /\ b # 15 /\ mode # 64 -> Row("pop", ss, "sr", "-", <<>>)
        [] b \in 64..79 /\ mode # 64 -> Row(IF b < 72 THEN "inc" ELSE "dec", os, "Z", "-", <<>>)
        [] b \in 80..95 -> Row(IF b < 88 THEN "push" ELSE "pop", ss, "Z", "-", <<>>)
        [] b \in {96, 97} /\ mode # 64 -> Row(IF b = 96 THEN "pusha" ELSE "popa", os, "-", "-", <<>>)
        [] b = 104 -> Row("push", ss, "I", "-", <<FullImm(ss)>>)
        [] b = 106 -> Row("push", ss, "I", "-", <<1>>)
        [] b \in {128, 129} -> Row(Arith[ext + 1], w, "E", "I", <<FullImm(w)>>)
        [] b = 131 -> Row(Arith[ext + 1], os, "E", "I", <<1>>)
        [] b \in {136, 137} -> Row("mov", w, "E", "G", <<>>)
        [] b \in {138, 139} -> Row("mov", w, "G", "E", <<>>)
        [] b = 140 /\ ext < 6 -> Row("mov", os, "E", "S", <<>>)
        [] b = 141 -> Row("lea", os, "G", "E", <<>>)
        [] b = 142 /\ ext < 6 /\ ext # 1 -> Row("mov", 16, "S", "E", <<>>)
        [] b = 143 /\ ext = 0 -> Row("pop", ss, "E", "-", <<>>)
        [] b \in {160, 161} -> Row("mov", w, "A", "O", <<asz \div 8>>)
        [] b \in {162, 163} -> Row("mov", w, "O", "A", <<asz \div 8>>)
        [] b \in 176..183 -> Row("mov", 8, "Z", "I", <<1>>)
        [] b \in 184..191 -> Row("mov", os, "Z", "I", <<os \div 8>>)
        [] b \in {192, 193} -> Row(Shift[ext + 1], w, "E", "N", <<1>>)
        [] b \in {194, 202} -> Row(IF b = 194 THEN "ret" ELSE "retf", 16, "I", "-", <<2>>)
        [] b \in {195, 203} -> Row(IF b = 195 THEN "ret" ELSE "retf", 0, "-", "-", <<>>)
        [] b \in {198, 199} /\ ext = 0 -> Row("mov", w, "E", "I", <<FullImm(w)>>)
        [] b = 200 -> Row("enter", 16, "I", "N", <<2, 1>>)
        [] b = 201 -> Row("leave", 0, "-", "-", <<>>)
        [] b = 204 -> Row("int", 8, "3", "-", <<>>)
        [] b = 205 -> Row("int", 8, "N", "-", <<1>>)
        [] b = 206 /\ mode # 64 -> Row("into", 0, "-", "-", <<>>)
        [] b = 207 -> Row("iret", os, "-", "-", <<>>)
        [] b \in {208, 209} -> Row(Shift[ext + 1], w, "E", "1", <<>>)
        [] b \in {210, 211} -> Row(Shift[ext + 1], w, "E", "CL", <<>>)
        [] b \in {228, 229} -> Row("in", IF w = 64 THEN 32 ELSE w, "A", "N", <<1>>)
        [] b \in {230, 231} -> Row("out", IF w = 64 THEN 32 ELSE w, "N", "A", <<1>>)
        [] b \in {236, 237} -> Row("in", IF w = 64 THEN 32 ELSE w, "A", "D", <<>>)
        [] b \in {238, 239} -> Row("out", IF w = 64 THEN 32 ELSE w, "D", "A", <<>>)
        [] b \in {246, 247} /\ ext = 4 -> Row("mul", w, "E", "-", <<>>)
        [] b \in {250, 251} -> Row(IF b = 250 THEN "cli" ELSE "sti", 0, "-", "-", <<>>)
        [] b \in {254, 255} /\ ext < 2 -> Row(IF ext = 0 THEN "inc" ELSE "dec", w, "E", "-", <<>>)
        [] b = 255 /\ ext \in {2, 4} -> Row(IF ext = 2 THEN "call" ELSE "jmp",
                                            IF mode = 64 THEN 64 ELSE os, "E", "-", <<>>)
        [] b = 255 /\ ext \in {3, 5} -> Row(IF ext = 3 THEN "callf" ELSE "jmpf", os, "E", "-", <<>>)
        [] b = 255 /\ ext = 6 -> Row("push", ss, "E", "-", <<>>)
        [] OTHER -> NoRow

(* Behind 0x0F. *)
TwoByte(mode, ss, b, ext) ==
  CASE b = 0 /\ ext = 3 -> Row("ltr", 16, "E", "-", <<>>)
    [] b = 1 /\ ext \in {2, 3} -> Row(IF ext = 2 THEN "lgdt" ELSE "lidt", 0, "E", "-", <<>>)
    [] b = 32 -> Row("mov", IF mode = 64 THEN 64 ELSE 32, "E", "C", <<>>)
    [] b = 34 -> Row("mov", IF mode = 64 THEN 64 ELSE 32, "C", "E", <<>>)
    [] b \in {160, 168} -> Row("push", ss, "sr", "-", <<>>)
    [] b \in {161, 169} -> Row("pop", ss, "sr", "-", <<>>)
    [] OTHER -> NoRow

-----------------------------------------------------------------------------
(* s starts with the opcode: whether it has two bytes, its last one, and     *)
(* what stands behind it.                                                    *)
TwoBytes(s) == ByteAt(s, 1) = 15
Op(s)    == ByteAt(s, IF TwoBytes(s) THEN 2 ELSE 1)
After(s) == SubSeq(s, IF TwoBytes(s) THEN 3 ELSE 2, Len(s))
RowOf(mode, pre, s) ==
  IF TwoBytes(s) THEN TwoByte(mode, StackSize(mode, pre), Op(s), RegF(After(s)))
  ELSE OneByte(mode, OperandSize(mode, pre), StackSize(mode, pre), AddressSize(mode, pre),
               Op(s), RegF(After(s)))

Widths(asz, s, row) ==
  <<1>> \o When(TwoBytes(s), <<1>>)
  \o When({row.a, row.b} \cap {"E", "G"} # {}, ModrmWidths(asz, After(s))) \o row.imms

(* The operand a letter of the row stands for. *)
Imm(s, row) == Wrap(row.z, Unit(At(s, Len(s) - Len(row.imms) + 1)))
Opd(mode, pre, s, row, l) ==
  CASE l = "E" -> ModrmOpd(mode, pre, row.z, After(s))
    [] l = "G" -> RegM(Reg(row.z, RegF(After(s))))
    [] l = "S" -> SegM(RegF(After(s)))
    [] l = "C" -> CrM(RegF(After(s)))
    [] l = "sr" -> SegM((Op(s) \div 8) % 8)
    [] l = "Z" -> RegM(Reg(row.z, Op(s) % 8))
    [] l = "A" -> RegM(Reg(row.z, 0))
    [] l = "D" -> RegM(Reg(16, 2))
    [] l = "CL" -> RegM(Reg(8, 1))
    [] l = "O" -> MemM(Override(pre), AddressSize(mode, pre), FALSE, [n \in 0..7 |-> 0], Imm(s, row))
    [] l = "I" -> ImmM(Imm(s, row))
    [] l = "N" -> ImmM(ByteAt(s, Len(s)))
    [] l = "1" -> ImmM(1)
    [] l = "3" -> ImmM(3)
    [] OTHER -> None

(* What a line of units means: the row, if the line has the layout of it.    *)
Reading(mode, pre, s, row) ==
  IF row # NoRow /\ [i \in 1..Len(s) |-> s[i].w] = Widths(AddressSize(mode, pre), s, row)
    THEN Means(row.m, row.z, Opd(mode, pre, s, row, row.a), Opd(mode, pre, s, row, row.b))
    ELSE Garbage
DecodeRest(mode, pre, s) == Reading(mode, pre, s, RowOf(mode, pre, s))
Decode(mode, code) ==
  IF 72 \in Front(mode, code) /\ ByteAt(code, FrontLen(mode, code)) # 72
    THEN Garbage
    ELSE DecodeRest(mode, Front(mode, code), Rest(mode, code))

=============================================================================

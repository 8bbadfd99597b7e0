------------------------------ MODULE MCBInst ------------------------------
(* BInst for TLC: the lines, what each of them says, and that the processor  *)
(* reads it back from the code.                                              *)
EXTENDS BInst, FiniteSets

CPU == INSTANCE BCpu

-----------------------------------------------------------------------------
(* What a line says, as the meaning of BCpu. *)
Pick(p, x, y) == IF p THEN x ELSE y

AddressSizeOf(mode, rm) == IF First(rm) = NoReg THEN mode ELSE First(rm).z
Times(rm, n) == (IF rm.reg1.z # 0 /\ rm.reg1.n = n THEN Pick(rm.scale1 > 1, rm.scale1, 1) ELSE 0)
                + (IF rm.reg2.z # 0 /\ rm.reg2.n = n THEN 1 ELSE 0)
Opd(mode, z, o) ==
  CASE o.opr = "reg" -> CPU!RegM(o.r)
    [] o.opr = "seg" -> CPU!SegM(o.seg - 1)
    [] o.opr = "cr"  -> CPU!CrM(o.ofs)
    [] o.opr = "imm" -> CPU!ImmM(CPU!Wrap(z, o.ofs))
    [] o.opr = "mem" -> CPU!MemM(o.seg, AddressSizeOf(mode, o), FALSE,
                                 [n \in 0..7 |-> Times(o, n)],
                                 CPU!Wrap(AddressSizeOf(mode, o), o.ofs))
    [] OTHER -> CPU!None
Byte(o) == CPU!ImmM(o.ofs % 256)
Port(o) == IF o.opr = "imm" THEN Byte(o) ELSE CPU!RegM(o.r)

Default(mode) == Pick(mode = 16, 16, 32)
SizeOr(o, z) == Pick(o.opr = "reg", o.r.z, Pick(o.psz # 0, o.psz, z))
LineSize(mode, l) ==
  IF l.a.opr = "reg" /\ l.m # "out" THEN l.a.r.z
  ELSE IF l.b.opr = "reg" THEN l.b.r.z
  ELSE IF l.a.opr = "mem" /\ l.a.psz # 0 THEN l.a.psz ELSE mode

SaidName == [sal |-> "shl", iretd |-> "iret", iretq |-> "iret", pushad |-> "pusha", popad |-> "popa"]
Name(m) == IF m \in DOMAIN SaidName THEN SaidName[m] ELSE m
PlainSize(mode, m) == CASE m \in {"iretd", "pushad", "popad"} -> 32
                        [] m = "iretq" -> 64
                        [] m \in {"iret", "pusha", "popa"} -> Default(mode)
                        [] OTHER -> 0

Said(mode, l) ==
  LET z == LineSize(mode, l)
      M(size, x, y) == CPU!Means(Name(l.m), size, x, y)
      Stacked == Pick(l.a.opr = "seg", mode, Pick(l.a.opr = "imm" /\ l.a.psz = 8, mode, SizeOr(l.a, mode)))
  IN  CASE l.m \in DOMAIN SalCr -> M(z, Opd(mode, z, l.a), Port(l.b))
        [] l.m = "mov" /\ l.a.opr = "seg" -> M(16, Opd(mode, 16, l.a), Opd(mode, 16, l.b))
        [] l.m = "mov" /\ l.b.opr = "seg" /\ l.a.opr = "mem" -> M(Default(mode), Opd(mode, 16, l.a), Opd(mode, 16, l.b))
        [] l.m \in {"in", "out"} -> M(z, Port(l.a), Port(l.b))
        [] l.m = "enter" -> M(16, Opd(mode, 16, l.a), Byte(l.b))
        [] l.m = "int" -> M(8, Byte(l.a), CPU!None)
        [] l.m \in {"lgdt", "lidt"} -> M(0, Opd(mode, 0, l.a), CPU!None)
        [] l.m = "ltr" -> M(16, Opd(mode, 16, l.a), CPU!None)
        [] l.m \in {"ret", "retf"} ->
             CPU!Means(Pick(l.a.opr = "imm" /\ l.a.far, "retf", l.m),
                       Pick(l.a.opr = "imm", 16, 0), Opd(mode, 16, l.a), CPU!None)
        [] l.m \in {"call", "jmp"} /\ l.a.opr = "mem" /\ l.a.far ->
             CPU!Means(Pick(l.m = "call", "callf", "jmpf"),
                       Pick(l.a.psz = 0, Default(mode), Pick(l.a.psz = 48, 32, l.a.psz)),
                       Opd(mode, 0, l.a), CPU!None)
        [] l.m \in {"push", "pop"} -> M(Stacked, Opd(mode, Stacked, l.a), CPU!None)
        [] l.m \in DOMAIN Plain -> M(PlainSize(mode, l.m), CPU!None, CPU!None)
        [] OTHER -> M(z, Opd(mode, z, l.a), Opd(mode, z, l.b))

-----------------------------------------------------------------------------
(* The lines. *)
MCDwordBits == 20
R(z, ns) == {Reg(z, n) : n \in ns}
Sizes(mode) == Pick(mode = 64, {8, 16, 32, 64}, {8, 16, 32})
SomeRegs(mode) == {Reg(z, n) : z \in Sizes(mode), n \in {0, 3, 5}}

Mem(seg, psz, far, r1, s, r2, ofs) ==
  [opr |-> "mem", seg |-> seg, psz |-> psz, far |-> far,
   reg1 |-> r1, scale1 |-> s, reg2 |-> r2, ofs |-> ofs]

(* Address registers and scale: <<reg1, scale1, reg2>>. *)
Addr16 == {<<Reg(16, 3), 1, NoReg>>, <<Reg(16, 5), 1, NoReg>>, <<NoReg, 0, Reg(16, 6)>>,
           <<Reg(16, 3), 1, Reg(16, 6)>>, <<Reg(16, 7), 1, Reg(16, 5)>>,
           <<Reg(16, 0), 1, NoReg>>, <<Reg(16, 6), 1, Reg(16, 7)>>, <<Reg(16, 3), 2, NoReg>>}
Wide(z) == {<<Reg(z, 0), 1, NoReg>>, <<Reg(z, 4), 1, NoReg>>, <<Reg(z, 5), 1, NoReg>>,
            <<NoReg, 0, Reg(z, 5)>>, <<Reg(z, 0), 4, NoReg>>, <<Reg(z, 5), 2, NoReg>>,
            <<Reg(z, 3), 1, Reg(z, 5)>>, <<Reg(z, 3), 8, Reg(z, 5)>>,
            <<Reg(z, 4), 1, Reg(z, 5)>>, <<Reg(z, 5), 1, Reg(z, 4)>>,
            <<Reg(z, 4), 2, Reg(z, 0)>>, <<Reg(z, 4), 1, Reg(z, 4)>>, <<Reg(z, 0), 3, Reg(z, 3)>>}
Addrs == {<<NoReg, 0, NoReg>>, <<Reg(16, 3), 1, Reg(32, 6)>>, <<Reg(8, 3), 1, NoReg>>}
         \cup Addr16 \cup Wide(32) \cup Wide(64)

Ofss == {0, 32, -128, 1000, -40000, 600000, 2000000}
Mems(psz) == {Mem(seg, psz, FALSE, a[1], a[2], a[3], o) : seg \in {0, 100}, a \in Addrs, o \in Ofss}
FewMems(mode, psz) ==
  {Mem(0, psz, FALSE, a[1], a[2], a[3], 32) :
     a \in {<<NoReg, 0, NoReg>>, <<Reg(16, 3), 1, NoReg>>, <<Reg(32, 3), 1, NoReg>>, <<Reg(mode, 5), 1, NoReg>>}}
AnySize(mode) == UNION {FewMems(mode, psz) : psz \in {0} \cup Sizes(mode)}
Imms == {ImmOpd(0, v) : v \in {0, 1, 3, -1, 127, 128, 200, 300, -300, 40000, 70000, 600000, 2000000, -600000}}
Segs == {SegOpd(s) : s \in 1..6}
Crs == {CrOpd(0), CrOpd(3)}
RegOpds(mode) == {RegOpd(r) : r \in SomeRegs(mode)}
All64 == {RegOpd(r) : r \in R(64, {0, 3})}   (* for the handlers that refuse them *)

LinesOf(mode) ==
  LET regs == RegOpds(mode)
      mems == AnySize(mode)
  IN  {Two(m, a, b) : m \in {"add", "cmp"}, a \in regs \cup mems, b \in regs \cup mems \cup Imms \cup Segs}
      \cup {Two("mov", a, b) : a \in regs \cup mems \cup Segs \cup Crs \cup All64,
                               b \in regs \cup mems \cup Imms \cup Segs \cup Crs \cup All64}
      \cup {Two("xor", RegOpd(r), b) : r \in R(Default(mode), {3}) \cup R(mode, {3}), b \in Mems(0)}
      \cup {One("inc", a) : a \in Mems(8)}
      \cup {Two("mov", RegOpd(r), b) : r \in R(32, {0}), b \in Mems(0)}
      \cup {One(m, a) : m \in {"inc", "dec"}, a \in regs \cup mems \cup All64}
      \cup {One("mul", a) : a \in regs \cup mems}
      \cup {Two(m, a, b) : m \in {"shl", "sar"}, a \in regs \cup mems, b \in Imms \cup {RegOpd(Reg(8, 1))}}
      \cup {Two("lea", a, b) : a \in regs, b \in mems}
      \cup {One(m, a) : m \in {"lgdt", "lidt", "ltr"}, a \in regs \cup mems \cup {[x EXCEPT !.seg = 100] : x \in mems}}
      \cup {Two("enter", ImmOpd(0, v), ImmOpd(0, w)) : v \in {0, 16, 40000}, w \in {0, 3, 200}}
      \cup {One(m, a) : m \in {"call", "jmp"}, a \in regs \cup mems}
      \cup {One(m, [x EXCEPT !.far = TRUE]) : m \in {"call", "jmp"}, x \in FewMems(mode, 0) \cup FewMems(mode, 48)}
      \cup (IF mode = 64 THEN {One("jmp", [x EXCEPT !.far = TRUE]) : x \in FewMems(64, 64)} ELSE {})
      \cup {One(m, a) : m \in {"ret", "retf"}, a \in {Undef, ImmOpd(0, 8), [ImmOpd(0, 8) EXCEPT !.far = TRUE], ImmOpd(0, 40000)}}
      \cup {One("int", ImmOpd(0, v)) : v \in {0, 3, 33, 200, 256}}
      \cup {One(m, a) : m \in {"push", "pop"}, a \in regs \cup mems \cup Segs \cup All64}
      \cup {One("push", [i EXCEPT !.psz = z]) : i \in Imms, z \in {0, 8, 16, 32}}
      \cup {Two("in", a, b) : a \in regs, b \in Imms \cup {RegOpd(Reg(16, 2))}}
      \cup {Two("out", b, a) : a \in regs, b \in Imms \cup {RegOpd(Reg(16, 2))}}
      \cup {One(m, Undef) : m \in DOMAIN Plain}

Lines16 == LinesOf(16)
Lines32 == LinesOf(32)
Lines64 == LinesOf(64)
MCLines == [x \in Modes |-> CASE x = 16 -> Lines16 [] x = 32 -> Lines32 [] OTHER -> Lines64]

-----------------------------------------------------------------------------
(* The lines the processor reads otherwise than they say.  z is the size of  *)
(* the register bctx_modrm is called with.                                   *)
ModrmSize(mode, l) ==
  CASE l.m \in {"call", "jmp"} -> mode
    [] l.m \in {"push", "pop"} -> SizeOr(l.a, mode)
    [] l.m \in {"lgdt", "lidt"} -> Pick(mode = 64, 64, 32)
    [] OTHER -> Pick(l.m = "ltr" \/ "seg" \in {l.a.opr, l.b.opr}, 16, LineSize(mode, l))

Alone1(rm) == First(rm) # NoReg /\ Second(rm) = NoReg
OddAddress(mode, z, rm) ==
  /\ rm.opr = "mem"
  /\ \/ IsSP(First(rm)) /\ Alone1(rm) /\ ~InInt8(rm.ofs)            \* [esp+1000]: mod 00
     \/ Alone1(rm) /\ ScaleOf(rm) > 1 /\ rm.ofs # 0 /\ InInt8(rm.ofs) \* [eax*4+32]: EBP added
     \/ ScaleOf(rm) \notin {0, 1, 2, 4, 8}                            \* [eax*3]
     \/ mode = 64 /\ First(rm) = NoReg                              \* [32]: relative to RIP
           /\ (z = 64 => rm.ofs # 0 /\ InInt8(rm.ofs))              \* or RBP added
     \/ AddressSizeOf(mode, rm) = 64 /\ ~InInt32(rm.ofs)            \* extended with its sign

OddAdd(mode, z, l) ==
  /\ l.m \in DOMAIN AddOpt /\ l.b.opr = "imm"
  /\ \/ l.a.opr = "reg" /\ z = 8 /\ l.a.r.n # 0 /\ InInt8(l.b.ofs)  \* ADD BL, 5: as AL
     \/ l.a.opr = "mem" /\ z # 8 /\ InInt8(l.b.ofs)                 \* 83 with a wide number
     \/ z = 64 /\ ~InInt32(l.b.ofs)
OddMov(mode, z, l) ==
  /\ l.m = "mov"
  /\ \/ l.a.opr = "reg" /\ l.b.opr = "seg" /\ mode = 32             \* MOV AX, DS as EAX
     \/ mode = 32 /\ "seg" \in {l.a.opr, l.b.opr}                   \* 0x67 left out
           /\ \E o \in {l.a, l.b} : o.opr = "mem" /\ AddressSizeOf(mode, o) = 16
     \/ l.a = SegOpd(2)                                            \* MOV CS
     \/ l.a.opr = "seg" /\ l.b.opr \in {"imm", "cr"}                \* MOV DS, 8 as [8]
     \/ l.a.opr \in {"imm", "cr"} /\ l.b.opr = "seg"
     \/ l.a.opr = "mem" /\ l.b.opr = "imm" /\ (z = 32 \/ (z = 64 /\ ~InInt32(l.b.ofs)))
     \/ mode = 64 /\ AxSet([mode |-> mode], l)                       \* the SIB form, behind A0..A3
           /\ (z = 64 \/ \E o \in {l.a, l.b} : o.opr = "mem" /\ InInt32(o.ofs))
OddSystem(mode, l) ==
  /\ l.m \in {"lgdt", "lidt", "ltr"} /\ l.a.opr = "mem"
  /\ AddressSizeOf(mode, l.a) # mode \/ l.a.seg # 0
OddJump(mode, l) ==
  /\ l.m \in {"call", "jmp"} /\ l.a.opr = "mem"
  /\ IF l.a.far THEN mode = 16 /\ l.a.psz = 48 ELSE l.a.psz \notin {0, mode}
OddStack(mode, l) ==
  /\ l.m \in {"push", "pop"}
  /\ CASE l.a.opr = "reg" -> mode = 64 /\ l.a.r.z = 32
       [] l.a.opr = "mem" -> ~(l.a.psz \in {0, mode} \/ (mode = 16 /\ l.a.psz = 32))
       [] l.a.opr = "seg" -> mode = 64 /\ l.a.seg < 5
       [] OTHER -> \/ l.a.psz = 8 /\ ~InInt8(l.a.ofs)
                   \/ l.a.psz \in {16, 32} /\ l.a.psz # mode
                   \/ mode = 64 /\ l.a.psz = 0 /\ ~InInt32(l.a.ofs)
OddOther(mode, l) ==
  \/ l.m \in DOMAIN SalCr /\ l.b.opr = "reg"                          \* SHL AX, CL by 0
  \/ l.m = "int" /\ l.a.ofs = 0                                      \* INTO
  \/ l.m \in {"iretd", "pushad", "popad"} /\ mode = 16

Odd(mode, l) ==
  LET z == ModrmSize(mode, l)
  IN  \/ ~(l.m = "mov" /\ AxSet([mode |-> mode], l))
           /\ (OddAddress(mode, z, l.a) \/ OddAddress(mode, z, l.b))
      \/ OddAdd(mode, z, l) \/ OddMov(mode, z, l) \/ OddSystem(mode, l)
      \/ OddJump(mode, l) \/ OddStack(mode, l) \/ OddOther(mode, l)

(* Every line a stable pass accepts means to the processor what it says, but *)
(* for the lines of Odd; and each of those means something else.  The bytes  *)
(* come from handlers and bctx_modrm, which choose prefixes, opcode, ModR/M, *)
(* SIB, displacement and number apart from each other.                       *)
Reads == phase = "ok" /\ ~pass_need_more =>
           (CPU!Decode(xmode, code) = Said(xmode, inst) <=> ~Odd(xmode, inst))

=============================================================================

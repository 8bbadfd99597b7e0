------------------------------- MODULE BInst -------------------------------
(* The instructions of src/inst_add.c, inst_mov.c, inst_gdt.c, inst_jmp.c   *)
(* and bctx_inst_out: what each handler puts into the stream for the        *)
(* operands bctx_parse_term found, and the prefix state of the context that  *)
(* one line could leave behind for the next.                                 *)
(*                                                                           *)
(* A line is [m, a, b]: the mnemonic and two operands, each a brm_opd as     *)
(* bctx_parse_term leaves it.  An operand the line does not have is Undef.   *)
EXTENDS BModrm

CONSTANT Lines   (* the lines a source may have, by mode *)

VARIABLES xmode, pass_need_more, lock_prefix, spec_ax,
          inst,    (* the line being assembled, NoLine between two lines *)
          code,    (* what the handler has put for it *)
          phase    (* "idle", "read", "ok"; "bad" once the assembler gave up *)

vars == <<xmode, pass_need_more, lock_prefix, spec_ax, inst, code, phase>>

-----------------------------------------------------------------------------
(* brm_opd.  The fields of a memory operand are there, and 0, in a number    *)
(* and in a control register too; a register shares its place with seg.      *)
Undef == [opr |-> "undef"]
RegOpd(r) == [opr |-> "reg", r |-> r]
SegOpd(s) == [opr |-> "seg", seg |-> s]
Fields(opr, psz, far, ofs) ==
  [opr |-> opr, seg |-> 0, psz |-> psz, far |-> far,
   reg1 |-> NoReg, scale1 |-> 0, reg2 |-> NoReg, ofs |-> ofs]
ImmOpd(psz, v) == Fields("imm", psz, FALSE, v)
CrOpd(n) == Fields("cr", 0, FALSE, n)

(* The operands a line can have, with the sizes before PTR: FWORD is given    *)
(* to CALL and JMP only.                                                     *)
Addresses == Regs \cup {NoReg}
Opds(sizes) ==
  {Undef} \cup {RegOpd(r) : r \in Regs} \cup {SegOpd(s) : s \in 1..6}
  \cup [opr : {"imm", "cr", "mem"}, seg : 0..255, psz : sizes, far : BOOLEAN,
        reg1 : Addresses, scale1 : Nat, reg2 : Addresses, ofs : Int]

ASSUME LinesAssumption ==
  \A mode \in Modes : \A l \in Lines[mode] :
    {l.a, l.b} \subseteq Opds({0, 8, 16, 32, 64} \cup (IF l.m \in {"call", "jmp"} THEN {48} ELSE {}))

NoLine == [m |-> "none", a |-> Undef, b |-> Undef]
One(m, a) == [m |-> m, a |-> a, b |-> Undef]
Two(m, a, b) == [m |-> m, a |-> a, b |-> b]

Is(opd, kinds) == opd.opr \in kinds
Acc(r) == r.n = 0   (* r is the base of its size: AL, AX, EAX, RAX *)

_try_rm_size(rm) == IF rm.opr = "reg" THEN rm.r.z ELSE IF rm.opr = "mem" THEN rm.psz ELSE 0

_try_n_size(v) == IF InInt8(v) THEN 8 ELSE IF InInt16(v) THEN 16 ELSE IF InInt32(v) THEN 32 ELSE 64

(* 0x66 in front of an opcode without ModR/M. *)
SizePrefix(e, z) == When((z = 16 /\ e.mode >= 32) \/ (z = 32 /\ e.mode = 16), Putc(102))

(* What is put after a call of bctx_modrm that returned 0. *)
Then(res, out) == IF res.ok THEN Done(res.out \o out) ELSE res

BytesBits(z) == z
Bytes(z) == IF z = 64 THEN 4 ELSE z \div 8   (* of an immediate: never eight *)
Range(z, v) == CASE z = 8 -> InInt8(v) \/ v \in 0..255
                 [] z = 16 -> InInt16(v) \/ v \in 0..65535
                 [] OTHER -> InInt32(v) \/ InUint32(v)
_append_imm(res, z, v) ==
  IF ~res.ok THEN res
  ELSE IF Range(z, v) THEN Done(res.out \o Put(Bytes(z), v)) ELSE Fail(res.out)

_opr2_rm_cr(e, rm, cr, op8, op32) ==
  IF _try_rm_size(rm) = 0 THEN Rejected
                          ELSE bctx_modrm(e, rm, Reg(_try_rm_size(rm), cr), op8, op32)

-----------------------------------------------------------------------------
(* inst_add.c *)
bctx_inst_inc(e, rm, dec) ==
  CASE Is(rm, {"reg"}) /\ ((rm.r.z = 64 /\ e.mode # 64) \/ (rm.r.z > 16 /\ e.mode = 16)) -> Rejected
    [] Is(rm, {"reg"}) /\ e.mode # 64 /\ rm.r.z \in {16, 32} /\ rm.r.z <= e.mode ->
         Done(SizePrefix(e, rm.r.z) \o Putc(64 + 8 * dec + rm.r.n))
    [] OTHER -> _opr2_rm_cr(e, rm, dec, 254, 255)

(* The register CL as the count goes on into the path of a number: the test  *)
(* for it asks for a segment register, which was refused before.             *)
CountOf(opd) == IF opd.opr = "imm" THEN opd.ofs ELSE 0

bctx_inst_sal(e, a, b, cr) ==
  CASE ~Is(a, {"mem", "reg"}) \/ ~Is(b, {"imm", "reg"}) -> Rejected
    [] Is(a, {"mem", "reg"}) /\ Is(b, {"imm", "reg"}) /\ CountOf(b) = 1 ->
         _opr2_rm_cr(e, a, cr, 208, 209)
    [] OTHER ->
         IF InInt8(CountOf(b)) THEN Then(_opr2_rm_cr(e, a, cr, 192, 193), Putc(CountOf(b)))
                               ELSE Rejected

(* opt is the row of _add_sub_cmds: u8AL is 8 * opt + 4, um8r8 is 8 * opt. *)
AddRegImm(e, a, v, opt) ==
  LET z == a.r.z
  IN  CASE InInt8(v) /\ z = 8 -> _append_imm(Done(Putc(8 * opt + 4)), 8, v)
        [] InInt8(v) /\ z # 8 -> _append_imm(bctx_modrm(e, a, Reg(z, opt), 128, 131), 8, v)
        [] ~InInt8(v) /\ Acc(a.r) /\ z = 64 /\ e.mode # 64 -> Rejected
        [] ~InInt8(v) /\ Acc(a.r) /\ (z = 64 => e.mode = 64) ->
             _append_imm(Done(SizePrefix(e, z) \o When(z = 64, Putc(72))
                              \o Putc(8 * opt + (IF z = 8 THEN 4 ELSE 5))), z, v)
        [] OTHER -> _append_imm(bctx_modrm(e, a, Reg(e.mode, opt), 128, 129), e.mode, v)

AddMemImm(e, a, v, opt) ==
  LET z == IF a.psz # 0 THEN a.psz ELSE e.mode
  IN  _append_imm(bctx_modrm(e, a, Reg(z, opt), 128, IF InInt8(v) THEN 131 ELSE 129), z, v)

bctx_inst_add(e, a, b, opt) ==
  CASE Is(a, {"reg"}) /\ Is(b, {"imm"}) -> AddRegImm(e, a, b.ofs, opt)
    [] Is(a, {"mem"}) /\ Is(b, {"imm"}) -> AddMemImm(e, a, b.ofs, opt)
    [] Is(a, {"reg", "mem"}) /\ Is(b, {"reg"}) -> bctx_modrm(e, a, b.r, 8 * opt, 8 * opt + 1)
    [] Is(a, {"reg"}) /\ Is(b, {"mem"}) -> bctx_modrm(e, b, a.r, 8 * opt + 2, 8 * opt + 3)
    [] OTHER -> Rejected

bctx_inst_lea(e, a, b) ==
  IF Is(a, {"reg"}) /\ Is(b, {"mem"}) /\ a.r.z # 8
    THEN bctx_modrm(e, b, a.r, 142, 141)
    ELSE Rejected

bctx_inst_mul(e, rm) == _opr2_rm_cr(e, rm, 4, 246, 247)

-----------------------------------------------------------------------------
(* inst_mov.c *)
_reg_cr(e, in_cmmreg, rm, cr) ==
  IF rm.r.z # (IF e.mode = 64 THEN 64 ELSE 32)
    THEN Rejected
    ELSE Done(Putc(15) \o Putc(IF in_cmmreg = 1 THEN 32 ELSE 34) \o Putc(192 + 8 * cr + rm.r.n))

(* With a segment register lock_prefix is set in 32-bit mode around the call. *)
MovSeg(e, inv_cmd, rm, seg) ==
  LET op == IF inv_cmd = 1 THEN 140 ELSE 142
  IN  bctx_modrm([e EXCEPT !.lock = e.lock \/ e.mode = 32], rm, Reg(16, seg - 1), op, op)

(* With the accumulator and a direct address spec_ax_fn is set around it.    *)
Direct(rm) == rm.opr = "mem" /\ rm.reg1 = NoReg /\ rm.reg2 = NoReg
_mov_rmr(e, inv_cmd, rm, r) ==
  LET op == IF inv_cmd = 1 THEN 138 ELSE 136
      moffs == IF inv_cmd = 1 THEN 160 ELSE 162
      ax == [e EXCEPT !.ax = Ax(rm.ofs)]
  IN  CASE r.z = 64 /\ e.mode # 64 -> Rejected
        [] (r.z = 64 => e.mode = 64) /\ Direct(rm) /\ Acc(r) ->
             IF r.z = 64 THEN bctx_modrm(ax, rm, r, op, op + 1)
                         ELSE bctx_modrm(ax, rm, r, moffs, moffs + 1)
        [] OTHER -> bctx_modrm(e, rm, r, op, op + 1)

RegImm(e, r, v) ==
  CASE r.z = 8 -> Done(Putc(176 + r.n) \o Putc(v))
    [] r.z \in {16, 32} -> Done(SizePrefix(e, r.z) \o Putc(184 + r.n) \o Put(r.z \div 8, v))
    [] r.z = 64 /\ e.mode = 64 -> Done(Putc(72) \o Putc(184 + r.n) \o Putqw(v))
    [] OTHER -> Rejected

(* The double word is put as one byte. *)
PutImm(e, z, v, res) ==
  IF z = 64 /\ e.stable /\ res.ok /\ ~(InInt32(v) \/ InUint32(v))
    THEN Fail(res.out)
    ELSE Then(res, CASE z = 8 -> Putc(v) [] z = 16 -> Putw(v)
                     [] z = 32 -> Putc(v) [] OTHER -> Putdw(v))

MemImm(e, rm, v) ==
  LET z == _try_rm_size(rm)
  IN  IF z = 0 \/ (z = 64 /\ e.mode # 64)
        THEN Rejected
        ELSE PutImm(e, z, v, bctx_modrm(e, rm, Reg(z, 0), 198, 199))

_rm_imm(e, rm, v) ==
  CASE Is(rm, {"reg"}) -> RegImm(e, rm.r, v)
    [] Is(rm, {"mem"}) -> MemImm(e, rm, v)
    [] OTHER -> Rejected

bctx_inst_mov(e, a, b) ==
  CASE Is(a, {"undef"}) \/ Is(b, {"undef"}) -> Rejected
    [] Is(a, {"reg"}) /\ Is(b, {"seg"}) -> MovSeg(e, 1, a, b.seg)
    [] Is(a, {"reg"}) /\ Is(b, {"imm"}) -> _rm_imm(e, a, b.ofs)
    [] Is(a, {"reg"}) /\ Is(b, {"cr"}) -> _reg_cr(e, 1, a, b.ofs)
    [] Is(a, {"reg"}) /\ Is(b, {"reg", "mem"}) -> _mov_rmr(e, 1, b, a.r)
    [] Is(a, {"seg"}) /\ Is(b, {"reg", "mem", "imm", "cr"}) -> MovSeg(e, 0, b, a.seg)
    [] Is(a, {"cr"}) /\ Is(b, {"reg"}) -> _reg_cr(e, 0, b, a.ofs)
    [] Is(a, {"mem", "imm"}) /\ Is(b, {"reg"}) -> _mov_rmr(e, 0, a, b.r)
    [] Is(a, {"mem", "imm", "cr"}) /\ Is(b, {"seg"}) -> MovSeg(e, 1, a, b.seg)
    [] Is(a, {"mem", "imm", "cr"}) /\ Is(b, {"imm"}) -> _rm_imm(e, a, b.ofs)
    [] OTHER -> Rejected

-----------------------------------------------------------------------------
(* inst_gdt.c.  0x0F is put before bctx_modrm puts its prefixes; lock_prefix *)
(* is set around the call.                                                   *)
Behind0F(res) == Before(Putc(15), res)
Locked(e) == [e EXCEPT !.lock = TRUE]

bctx_inst_lgdt(e, rm, idt) ==
  IF Is(rm, {"mem"})
    THEN Behind0F(bctx_modrm(Locked(e), rm, Reg(IF e.mode = 64 THEN 64 ELSE 32, 2 + idt), 1, 1))
    ELSE Rejected

LtrTakes(rm) == (Is(rm, {"reg"}) /\ rm.r.z = 16) \/ (Is(rm, {"mem"}) /\ rm.psz \in {0, 16})
bctx_inst_ltr(e, rm) ==
  IF LtrTakes(rm)
    THEN Behind0F(bctx_modrm(Locked(e), rm, Reg(16, 3), 0, 0))
    ELSE Rejected

bctx_inst_enter(a, b) ==
  IF Is(a, {"imm"}) /\ Is(b, {"imm"})
    THEN Done(Putc(200) \o Putw(a.ofs) \o Putc(b.ofs))
    ELSE Rejected

-----------------------------------------------------------------------------
(* inst_jmp.c.  CALL and JMP to a register or through memory, near is 2 or 4; *)
(* to an address they are in BPass.                                          *)
Through(e, rm, near) ==
  CASE Is(rm, {"reg"}) /\ rm.r.z = e.mode -> bctx_modrm(e, rm, Reg(e.mode, near), 255, 255)
    [] Is(rm, {"mem"}) /\ rm.far /\ e.mode = 64 /\ rm.psz = 48 -> Rejected
    [] Is(rm, {"mem"}) /\ rm.far /\ ~(e.mode = 64 /\ rm.psz = 48) ->
         bctx_modrm(e, rm, Reg(e.mode, near + 1),
                    IF e.mode = 64 /\ rm.psz = 64 THEN 254 ELSE 255, 255)
    [] Is(rm, {"mem"}) /\ ~rm.far -> bctx_modrm(e, rm, Reg(e.mode, near), 255, 255)
    [] OTHER -> Rejected

bctx_inst_ret(a, for_far) ==
  LET isFar == for_far = 1 \/ (Is(a, {"imm"}) /\ a.far)
  IN  CASE Is(a, {"undef"}) -> Done(Putc(IF for_far = 1 THEN 203 ELSE 195))
        [] Is(a, {"imm"}) /\ 0 <= a.ofs /\ a.ofs <= 32767 ->
             Done(Putc(IF isFar THEN 202 ELSE 194) \o Putw(a.ofs))
        [] OTHER -> Rejected

bctx_inst_int(a) ==
  IF ~Is(a, {"imm"}) \/ a.ofs < 0 \/ a.ofs > 255
    THEN Rejected
    ELSE Done(CASE a.ofs = 0 -> Putc(206) [] a.ofs = 3 -> Putc(204)
                [] OTHER -> Putc(205) \o Putc(a.ofs))

(* PUSH and POP share the ways of a register and of memory. *)
Stack(e, rm, short, long, cr) ==
  LET z == IF Is(rm, {"reg"}) THEN rm.r.z ELSE IF rm.psz # 0 THEN rm.psz ELSE e.mode
  IN  CASE Is(rm, {"reg"}) /\ (z = 8 \/ (z = 64 /\ e.mode # 64)) -> Rejected
        [] Is(rm, {"reg"}) /\ z = e.mode /\ z # 8 -> Done(Putc(short + rm.r.n))
        [] OTHER -> bctx_modrm(e, rm, Reg(z, cr), long, long)

PushImm(e, opd) ==
  LET least == _try_n_size(opd.ofs)
      z == IF opd.psz # 0 THEN opd.psz ELSE IF least > 32 THEN 32 ELSE least
  IN  CASE z = 8 -> Done(Putc(106) \o Putc(opd.ofs))
        [] z = 16 /\ e.mode = 16 -> Done(Putc(104) \o Putw(opd.ofs))
        [] z > 16 /\ e.mode = 16 -> Rejected
        [] OTHER -> Done(Putc(104) \o Putdw(opd.ofs))

(* The opcodes by bseg_t: ES, CS, SS, DS, FS, GS. *)
PushSeg == <<Putc(6), Putc(14), Putc(22), Putc(30), Putc(15) \o Putc(160), Putc(15) \o Putc(168)>>
PopSeg  == <<Putc(7), <<>>, Putc(23), Putc(31), Putc(15) \o Putc(161), Putc(15) \o Putc(169)>>
StackSeg(e, seg, puts) ==
  IF (seg >= 5 /\ e.mode = 16) \/ puts[seg] = <<>> THEN Rejected ELSE Done(puts[seg])

bctx_inst_push(e, a) ==
  CASE Is(a, {"reg", "mem"}) -> Stack(e, a, 80, 255, 6)
    [] Is(a, {"imm"}) -> PushImm(e, a)
    [] Is(a, {"seg"}) -> StackSeg(e, a.seg, PushSeg)
    [] OTHER -> Rejected

bctx_inst_pop(e, a) ==
  CASE Is(a, {"reg", "mem"}) -> Stack(e, a, 88, 143, 0)
    [] Is(a, {"seg"}) -> StackSeg(e, a.seg, PopSeg)
    [] OTHER -> Rejected

-----------------------------------------------------------------------------
(* bctx_inst_out of bsyntax.c: op is the opcode of the byte form with a port *)
(* number; the form with DX is 8 higher.                                     *)
PortIO(e, port, r, op) ==
  IF ~Is(r, {"reg"}) \/ ~Acc(r.r) \/ r.r.z = 64
    THEN Rejected
    ELSE LET sized == op + (IF r.r.z = 8 THEN 0 ELSE 1)
         IN  CASE Is(port, {"imm"}) /\ 0 <= port.ofs /\ port.ofs <= 255 ->
                    Done(SizePrefix(e, r.r.z) \o Putc(sized) \o Putc(port.ofs))
               [] Is(port, {"reg"}) /\ port.r = Reg(16, 2) ->
                    Done(SizePrefix(e, r.r.z) \o Putc(sized + 8))
               [] OTHER -> Rejected

bctx_inst_out(e, a, b, for_in) == IF for_in = 1 THEN PortIO(e, b, a, 228) ELSE PortIO(e, a, b, 230)

(* The instructions without an operand, put where _parse_key finds the key.  *)
Plain == [cli |-> 250, sti |-> 251, leave |-> 201, iret |-> 207, iretd |-> 207, iretq |-> 207,
          pusha |-> 96, pushad |-> 96, popa |-> 97, popad |-> 97]
OnlyIn64 == {"iretq"}
Not64 == {"pusha", "pushad", "popa", "popad"}
PutPlain(e, m) ==
  IF (m \in OnlyIn64 /\ e.mode # 64) \/ (m \in Not64 /\ e.mode = 64)
    THEN Rejected
    ELSE Done(When(m \in OnlyIn64, Putc(72)) \o Putc(Plain[m]))

(* The numbers _cmd_a .. _cmd_x hand to bctx_inst_add and bctx_inst_sal.     *)
AddOpt == [add |-> 0, or |-> 1, and |-> 4, sub |-> 5, xor |-> 6, cmp |-> 7]
SalCr  == [rol |-> 0, ror |-> 1, rcl |-> 2, rcr |-> 3, sal |-> 4, shl |-> 4, shr |-> 5, sar |-> 7]

(* The handler _parse_key finds for a key, with what it is given. *)
Result(e, l) ==
  CASE l.m \in {"inc", "dec"}   -> bctx_inst_inc(e, l.a, IF l.m = "dec" THEN 1 ELSE 0)
    [] l.m \in DOMAIN SalCr     -> bctx_inst_sal(e, l.a, l.b, SalCr[l.m])
    [] l.m \in DOMAIN AddOpt    -> bctx_inst_add(e, l.a, l.b, AddOpt[l.m])
    [] l.m = "lea"              -> bctx_inst_lea(e, l.a, l.b)
    [] l.m = "mul"              -> bctx_inst_mul(e, l.a)
    [] l.m = "mov"              -> bctx_inst_mov(e, l.a, l.b)
    [] l.m \in {"lgdt", "lidt"} -> bctx_inst_lgdt(e, l.a, IF l.m = "lidt" THEN 1 ELSE 0)
    [] l.m = "ltr"              -> bctx_inst_ltr(e, l.a)
    [] l.m = "enter"            -> bctx_inst_enter(l.a, l.b)
    [] l.m \in {"call", "jmp"}  -> Through(e, l.a, IF l.m = "call" THEN 2 ELSE 4)
    [] l.m \in {"ret", "retf"}  -> bctx_inst_ret(l.a, IF l.m = "retf" THEN 1 ELSE 0)
    [] l.m = "int"              -> bctx_inst_int(l.a)
    [] l.m = "push"             -> bctx_inst_push(e, l.a)
    [] l.m = "pop"              -> bctx_inst_pop(e, l.a)
    [] l.m \in {"in", "out"}    -> bctx_inst_out(e, l.a, l.b, IF l.m = "in" THEN 1 ELSE 0)
    [] OTHER                    -> PutPlain(e, l.m)

-----------------------------------------------------------------------------
(* The state.  Between two lines the context keeps lock_prefix and           *)
(* spec_ax_fn; every handler starts from what it finds there.                *)
Env == [mode |-> xmode, stable |-> ~pass_need_more, lock |-> lock_prefix, ax |-> spec_ax]

Init == /\ xmode = 32 /\ pass_need_more = FALSE
        /\ lock_prefix = FALSE /\ spec_ax = NoAx
        /\ inst = NoLine /\ code = <<>> /\ phase = "idle"

(* The key of a line and its operands; a symbol among them that is not known *)
(* yet sets pass_need_more.                                                  *)
Read(l) == /\ inst' = l
           /\ phase' = "read"
           /\ pass_need_more' \in {pass_need_more, TRUE}
           /\ UNCHANGED <<xmode, lock_prefix, spec_ax, code>>

(* A handler comes back. *)
Returns(res) == /\ code' = res.out
                /\ phase' = IF res.ok THEN "ok" ELSE "bad"
                /\ UNCHANGED <<xmode, pass_need_more, inst>>

(* What the handlers leave in the context. *)
Keeps == UNCHANGED <<lock_prefix, spec_ax>>

Inc   == inst.m \in {"inc", "dec"} /\ Keeps
Sal   == inst.m \in DOMAIN SalCr /\ Keeps
Add   == inst.m \in DOMAIN AddOpt /\ Keeps
Lea   == inst.m = "lea" /\ Keeps
Mul   == inst.m = "mul" /\ Keeps
Enter == inst.m = "enter" /\ Keeps
CallJmp == inst.m \in {"call", "jmp"} /\ Keeps
Ret   == inst.m \in {"ret", "retf"} /\ Keeps
IntN  == inst.m = "int" /\ Keeps
Push  == inst.m = "push" /\ Keeps
Pop   == inst.m = "pop" /\ Keeps
InOut == inst.m \in {"in", "out"} /\ Keeps
NoOperand == inst.m \in DOMAIN Plain /\ Keeps

(* Three handlers set lock_prefix or spec_ax_fn and reset it when            *)
(* bctx_modrm is back; they leave it alone when they do not get that far.    *)
SegSet(l) == /\ "seg" \in {l.a.opr, l.b.opr} /\ l.a.opr # l.b.opr
             /\ "undef" \notin {l.a.opr, l.b.opr}
AxSet(e, l) == /\ {l.a.opr, l.b.opr} = {"reg", "mem"}
               /\ LET r == IF l.a.opr = "reg" THEN l.a.r ELSE l.b.r
                      rm == IF l.a.opr = "reg" THEN l.b ELSE l.a
                  IN  Acc(r) /\ Direct(rm) /\ (r.z = 64 => e.mode = 64)
Mov == /\ inst.m = "mov"
       /\ lock_prefix' = (lock_prefix /\ ~SegSet(inst))
       /\ spec_ax' = IF AxSet(Env, inst) THEN NoAx ELSE spec_ax

LgdtStuck == inst.m \in {"lgdt", "lidt"} /\ lock_prefix' = TRUE /\ UNCHANGED spec_ax
Lgdt == /\ inst.m \in {"lgdt", "lidt"}
        /\ lock_prefix' = (lock_prefix /\ inst.a.opr # "mem")
        /\ UNCHANGED spec_ax
Ltr == /\ inst.m = "ltr"
       /\ lock_prefix' = (lock_prefix /\ ~LtrTakes(inst.a))
       /\ UNCHANGED spec_ax

(* The line is done and the code of the next one starts behind it.           *)
EndLine == /\ phase = "ok"
           /\ phase' = "idle" /\ inst' = NoLine /\ code' = <<>>
           /\ UNCHANGED <<xmode, pass_need_more, lock_prefix, spec_ax>>

(* BITS n. *)
Bits == /\ phase = "idle"
        /\ xmode' \in Modes
        /\ UNCHANGED <<pass_need_more, lock_prefix, spec_ax, inst, code, phase>>

(* The next scan of bctx_start. *)
NextPass == /\ phase = "idle" /\ pass_need_more
            /\ xmode' = 32 /\ pass_need_more' = FALSE
            /\ lock_prefix' = FALSE /\ spec_ax' = NoAx
            /\ UNCHANGED <<inst, code, phase>>

Leave  == Inc \/ Sal \/ Add \/ Lea \/ Mul \/ Mov \/ Lgdt \/ Ltr \/ Enter \/ CallJmp \/ Ret
          \/ IntN \/ Push \/ Pop \/ InOut \/ NoOperand
Handle == phase = "read" /\ Returns(Result(Env, inst)) /\ Leave

ReadLine == phase = "idle" /\ \E l \in Lines[xmode] : Read(l)

Next == ReadLine \/ Handle \/ EndLine \/ Bits \/ NextPass

Spec == Init /\ [][Next]_vars

-----------------------------------------------------------------------------
Units == [w : {1, 2, 4, 8}, v : Int]
TypeOK == /\ xmode \in Modes /\ pass_need_more \in BOOLEAN
          /\ lock_prefix \in BOOLEAN
          /\ spec_ax \in [set : BOOLEAN, ofs : Int]
          /\ phase \in {"idle", "read", "ok", "bad"}
          /\ inst = NoLine \/ inst \in Lines[xmode]
          /\ code \in Seq(Units)

(* The code of a line depends on the line, the mode and whether the pass is  *)
(* stable so far, and on nothing an earlier line left in the context: the    *)
(* lock_prefix of _mov_rmr, bctx_inst_lgdt and bctx_inst_ltr and the         *)
(* spec_ax_fn of _mov_rmr do not outlive their instruction.                  *)
Fresh == [mode |-> xmode, stable |-> ~pass_need_more, lock |-> FALSE, ax |-> NoAx]
Gave(res) == code = res.out /\ (phase = "ok" <=> res.ok)
Alone == phase \in {"ok", "bad"} => Gave(Result(Fresh, inst))

(* The checks a pass leaves out while symbols still move only refuse: what   *)
(* such a pass puts for a line is what a stable pass puts for it, if it      *)
(* takes it at all, so that no address moves because of a check.             *)
Strict == [mode |-> xmode, stable |-> TRUE, lock |-> FALSE, ax |-> NoAx]
Agrees(res) == res.ok => res.out = code
ChecksOnly == phase = "ok" => Agrees(Result(Strict, inst))

(* A line that is refused leaves nothing in the stream, although prefixes    *)
(* and opcode are put before the operands are known to be legal: except for  *)
(* LGDT, LIDT and LTR, a scale with 16-bit registers, and a number out of    *)
(* range behind an opcode that is already there.                             *)
ImmSize(mode, o) == IF o.opr = "reg" THEN o.r.z ELSE IF o.psz # 0 THEN o.psz ELSE mode
ScaledShort(o) == Is(o, {"mem", "imm", "cr"}) /\ ScaleOf(o) > 1 /\ First(o).z \notin {32, 64}
Leaves(mode, l) ==
  \/ l.m \in {"lgdt", "lidt", "ltr"} /\ Is(l.a, {"mem"})
  \/ ScaledShort(l.a) \/ ScaledShort(l.b)
  \/ l.m \in DOMAIN AddOpt /\ Is(l.b, {"imm"}) /\ ~Range(ImmSize(mode, l.a), l.b.ofs)
  \/ l.m = "mov" /\ Is(l.a, {"mem"}) /\ l.a.psz = 64 /\ ~Range(64, l.b.ofs)
Retreats == phase = "bad" /\ code # <<>> => Leaves(xmode, inst)

=============================================================================

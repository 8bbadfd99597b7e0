------------------------------- MODULE BModrm -------------------------------
(* bctx_modrm of src/bsyntax.c: the prefixes, the opcode, the ModR/M byte,   *)
(* the SIB byte and the displacement of an instruction with a register and   *)
(* a register-or-memory operand.                                             *)
(*                                                                           *)
(* A put is one unit of the stream, <<[w |-> width, v |-> value]>>: its      *)
(* width in bytes and the value before the cast cuts it to that width.  A    *)
(* call gives [ok, out], whether it returned 0 and what it left in the       *)
(* stream past the position it was called at.                                *)
EXTENDS Integers, Sequences

CONSTANT DwordBits   (* the width of a double word: 32 *)

(* The last part is arithmetic, but powers mean nothing to the provers.      *)
ASSUME DwordAssumption == DwordBits \in Nat /\ DwordBits > 16 /\ 2^DwordBits > 0

Modes == {16, 32, 64}   (* x86_xmode, and the value of _plat_size *)

-----------------------------------------------------------------------------
(* Registers, by size and number; _reg_base_frsize(z) is Reg(z, 0). *)
Reg(z, n) == [z |-> z, n |-> n]
NoReg == Reg(0, 0)
Regs == [z : {8, 16, 32, 64}, n : 0..7]

(* The place of a register in breg_t. *)
Ord(r) == r.n + (CASE r.z = 8 -> 1 [] r.z = 16 -> 9 [] r.z = 32 -> 17 [] OTHER -> 25)

IsSP(r) == r.z \in {32, 64} /\ r.n = 4
IsBP(r) == r.z \in {32, 64} /\ r.n = 5

-----------------------------------------------------------------------------
(* The stream. *)
Put(w, v) == <<[w |-> w, v |-> v]>>
Putc(v)   == Put(1, v)
Putw(v)   == Put(2, v)
Putdw(v)  == Put(4, v)
Putqw(v)  == Put(8, v)

When(c, p) == IF c THEN p ELSE <<>>

Done(out) == [ok |-> TRUE, out |-> out]
Fail(out) == [ok |-> FALSE, out |-> out]
Rejected  == Fail(<<>>)

InInt8(n)  == -128 <= n /\ n <= 127
InInt16(n) == -32768 <= n /\ n <= 32767
InInt32(n) == -(2^(DwordBits - 1)) <= n /\ n < 2^(DwordBits - 1)
InUint32(n) == 0 <= n /\ n < 2^DwordBits

-----------------------------------------------------------------------------
(* The ModR/M byte: mod, the register field already shifted, and r/m.  The   *)
(* C ORs the parts; the register field has bits of mod in it only for a      *)
(* narrow accumulator in 64-bit mode (AxOfs).                                *)
OrMod(a, b) == IF a = b \/ b = 0 THEN a ELSE IF a = 0 THEN b ELSE 3
ModRM(mod, cr, rm) == Putc(OrMod(mod, cr \div 64) * 64 + (cr % 64) + rm)

(* 16-bit addressing: the r/m code of a set of base and index registers. *)
X86Pairs == <<{3, 6}, {3, 7}, {5, 6}, {5, 7}, {6}, {7}, {5}, {3}>>

X86Set(r1, r2) == {r.n : r \in {r1, r2} \ {NoReg}}
X86Legal(r1, r2) ==
  /\ {r1, r2} \subseteq {Reg(16, n) : n \in {3, 5, 6, 7}} \cup {NoReg}
  /\ r1 # r2
  /\ \E i \in 1..8 : X86Pairs[i] = X86Set(r1, r2)
X86Code(r1, r2) == (CHOOSE i \in 1..8 : X86Pairs[i] = X86Set(r1, r2)) - 1

_x86_putrm(cr, crm, ofs) ==
  IF InInt8(ofs)
    THEN IF ofs = 0 /\ crm # 6 THEN ModRM(0, cr, crm)
                               ELSE ModRM(1, cr, crm) \o Putc(ofs)
    ELSE ModRM(2, cr, crm) \o Putw(ofs)

(* 32- and 64-bit addressing with a SIB byte.  A scale that is not a power   *)
(* of two is taken as 1, and ESP trades places with the other register.      *)
ScaleBits(s) == CASE s = 2 -> 64 [] s = 4 -> 128 [] s = 8 -> 192 [] OTHER -> 0

(* ESP taken as an index like any other register. *)
SibByteNoSwap(mode, r1, scale, r2) ==
  ScaleBits(scale) + (IF mode = 64 /\ r1 = NoReg THEN 32 ELSE 8 * r1.n)
  + (IF r2 = NoReg THEN 5 ELSE r2.n)

SibByte(mode, r1, scale, r2) ==
  CASE IsSP(r1) /\ r2 = NoReg -> 36
    [] IsSP(r1) /\ r2 # NoReg -> 8 * r2.n + r1.n
    [] OTHER -> ScaleBits(scale) + (IF mode = 64 /\ r1 = NoReg THEN 32 ELSE 8 * r1.n)
                + (IF r2 = NoReg THEN 5 ELSE r2.n)

_386_mem_sib(mode, cr, r1, scale, r2, ofs) ==
  LET sib == Putc(SibByte(mode, r1, scale, r2))
  IN  IF IsSP(r1) /\ (scale > 1 \/ IsSP(r2))
        THEN Rejected
        ELSE CASE ofs = 0 /\ IsBP(r2) /\ ~IsSP(r1) -> Done(ModRM(1, cr, 4) \o sib \o Putc(0))
               [] ofs = 0 /\ ~(IsBP(r2) /\ ~IsSP(r1)) ->
                    Done(ModRM(0, cr, 4) \o sib \o When(r2 = NoReg /\ ~IsSP(r1), Putdw(0)))
               [] ofs # 0 /\ InInt8(ofs) -> Done(ModRM(1, cr, 4) \o sib \o Putc(ofs))
               [] OTHER -> Done(ModRM(IF r2 = NoReg THEN 0 ELSE 2, cr, 4) \o sib \o Putdw(ofs))

-----------------------------------------------------------------------------
(* spec_ax_fn: what a MOV between the accumulator and a direct address puts  *)
(* instead of ModR/M.  NoAx when it is not set, or spec_ax_ofs.              *)
NoAx == [set |-> FALSE, ofs |-> 0]
Ax(ofs) == [set |-> TRUE, ofs |-> ofs]

(* _mov_ax_ofs: ret is its value, 1 for done, 0 for a SIB form in 64-bit mode *)
(* (whose register field is the distance from RAX in breg_t).                 *)
AxOfs(mode, r, ofs, ax) ==
  CASE mode = 16 /\ ~InInt16(ofs) -> [ret |-> -1, out |-> <<>>]
    [] mode = 16 /\ InInt16(ofs) -> [ret |-> 1, out |-> Putw(ofs)]
    [] mode = 32 -> [ret |-> 1, out |-> Putdw(ofs)]
    [] mode = 64 /\ InInt32(ax.ofs) ->
         [ret |-> 0, out |-> _386_mem_sib(64, (8 * (Ord(r) - Ord(Reg(64, 0)))) % 256,
                                          NoReg, 0, NoReg, ax.ofs).out]
    [] OTHER -> [ret |-> 1, out |-> Putqw(ax.ofs)]

(* The caller of the 16-bit form hands the value on as its own, and its own  *)
(* caller takes anything but 0 for an error.                                 *)
_x86_special(spec) == [ok |-> spec.ret = 0, out |-> spec.out]
_x86_mem_modrm(mode, r, r1, r2, ofs, ax) ==
  LET cr == 8 * r.n
  IN  CASE r1 = NoReg /\ ax.set -> _x86_special(AxOfs(mode, r, ofs, ax))
        [] r1 = NoReg /\ ~ax.set -> Done(ModRM(0, cr, 6) \o Putw(ofs))
        [] r1 # NoReg /\ X86Legal(r1, r2) -> Done(_x86_putrm(cr, X86Code(r1, r2), ofs))
        [] OTHER -> Rejected

_386_direct(mode, r, ofs) ==
  IF r.z = 64 THEN _386_mem_sib(mode, 8 * r.n, NoReg, 0, NoReg, ofs)
              ELSE Done(ModRM(0, 8 * r.n, 5) \o Putdw(ofs))

(* out is put, and then what res stands for. *)
Before(out, res) == [ok |-> res.ok, out |-> out \o res.out]

(* The 32-bit form goes on after a 0: the form it falls into puts its bytes  *)
(* behind those of the special one.                                          *)
_386_special(spec, more) ==
  CASE spec.ret = 1 -> Done(spec.out)
    [] spec.ret = 0 -> Before(spec.out, more)
    [] OTHER -> Rejected

_386_mem_modrm(mode, r, r1, scale, r2, ofs, ax) ==
  LET cr == 8 * r.n
  IN  CASE r1 = NoReg /\ ax.set ->
             _386_special(AxOfs(mode, r, ofs, ax), _386_direct(mode, r, ofs))
        [] r1 = NoReg /\ ~ax.set -> _386_direct(mode, r, ofs)
        [] r1 # NoReg /\ (scale > 1 \/ r2 # NoReg \/ IsSP(r1)) ->
             _386_mem_sib(mode, cr, r1, scale, r2, ofs)
        [] OTHER ->
             Done(IF InInt8(ofs)
                    THEN IF ofs = 0 /\ ~IsBP(r1) THEN ModRM(0, cr, r1.n)
                                                 ELSE ModRM(1, cr, r1.n) \o Putc(ofs)
                    ELSE ModRM(2, cr, r1.n) \o Putdw(ofs))

-----------------------------------------------------------------------------
(* bctx_modrm(ctx, rm, r, cmd8, cmd32) under env: the mode, whether the pass *)
(* has resolved every symbol so far, lock_prefix and spec_ax_fn.             *)
Opcode(r, cmd8, cmd32) == Putc(IF r.z = 8 THEN cmd8 ELSE cmd32)

RegForm(env, rm, r, cmd8, cmd32) ==
  IF rm.r.z # r.z
    THEN Rejected
    ELSE Done((CASE r.z = 16 -> When(env.mode >= 32 /\ ~env.lock, Putc(102))
                 [] r.z \in {32, 64} /\ env.mode = 16 -> When(~env.lock, Putc(102))
                 [] r.z = 64 /\ env.mode # 16 -> When(cmd8 # cmd32 /\ ~env.lock, Putc(72))
                 [] OTHER -> <<>>)
              \o Opcode(r, cmd8, cmd32) \o Putc(192 + 8 * r.n + rm.r.n))

(* A pass that is not stable leaves the address size out. *)
SizePrefixesLate(env, z, r1z, cmd8, cmd32) ==
  IF env.stable THEN When(~env.lock /\ r1z = 32 /\ env.mode # 32, Putc(103)) ELSE <<>>

(* The prefixes that say which sizes differ from those of the mode. *)
SizePrefixes(env, z, r1z, cmd8, cmd32) ==
  CASE env.lock -> <<>>
    [] ~env.lock /\ env.mode = 16 -> When(z = 32, Putc(102)) \o When(r1z = 32, Putc(103))
    [] ~env.lock /\ env.mode = 32 ->
         When(z = 16 /\ cmd8 # cmd32, Putc(102)) \o When(r1z = 16, Putc(103))
    [] OTHER -> When(z = 16 /\ cmd8 # cmd32, Putc(102)) \o When(r1z = 32, Putc(103))
                \o When(z = 64 /\ cmd8 # cmd32, Putc(72))

(* The first and the second address register. *)
First(rm)  == IF rm.reg1 # NoReg THEN rm.reg1 ELSE rm.reg2
Second(rm) == IF rm.reg1 # NoReg THEN rm.reg2 ELSE NoReg
ScaleOf(rm) == IF rm.reg1 # NoReg THEN rm.scale1 ELSE 0

OfsFits(env, ofs) == /\ InInt32(ofs) \/ InUint32(ofs)
                     /\ env.mode = 16 => -32768 <= ofs /\ ofs <= 65535
AddressRegs(env, r1, r2) ==
  r1 # NoReg => /\ r1.z # 8 /\ (r1.z = 64 => env.mode = 64)
                /\ r2 # NoReg => r1.z = r2.z

(* The cast of the displacement to int32_t. *)
ToInt32(n) == ((n + 2^(DwordBits - 1)) % 2^DwordBits) - 2^(DwordBits - 1)

(* Nothing goes back. *)
GoBackNot(res) == res

(* On an error the stream goes back to where the instruction began, except   *)
(* after a scale in 16-bit addressing, where the prefixes stay.              *)
GoBack(res) == IF res.ok THEN res ELSE Rejected

MemForm(env, rm, r, cmd8, cmd32) ==
  LET r1 == First(rm)
      r2 == Second(rm)
      scale == ScaleOf(rm)
      ofs == ToInt32(rm.ofs)
      short == r1.z = 16 \/ (env.mode = 16 /\ r1.z # 32)
      front == When(rm.seg # 0, Putc(rm.seg))
               \o SizePrefixes(env, r.z, r1.z, cmd8, cmd32) \o Opcode(r, cmd8, cmd32)
  IN  IF \/ env.stable /\ ~OfsFits(env, rm.ofs)
         \/ ~AddressRegs(env, r1, r2) \/ (env.mode = 64 /\ r1.z = 16)
        THEN Rejected
        ELSE IF short /\ scale > 1 THEN Fail(front)
        ELSE GoBack(Before(front, IF short THEN _x86_mem_modrm(env.mode, r, r1, r2, ofs, env.ax)
                                  ELSE _386_mem_modrm(env.mode, r, r1, scale, r2, ofs, env.ax)))

bctx_modrm(env, rm, r, cmd8, cmd32) ==
  IF rm.opr = "reg" THEN RegForm(env, rm, r, cmd8, cmd32)
                    ELSE MemForm(env, rm, r, cmd8, cmd32)

=============================================================================

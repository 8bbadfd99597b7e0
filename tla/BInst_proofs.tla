---------------------------- MODULE BInst_proofs ----------------------------
(* Proofs about the instructions of BInst, for every set of lines.           *)
EXTENDS BInst, TLAPS

-----------------------------------------------------------------------------
(* No line leaves lock_prefix or spec_ax_fn set: the invariant behind Alone. *)
Clear == lock_prefix = FALSE /\ spec_ax = NoAx

LEMMA InitClear == Init => Clear /\ Alone
  BY DEF Init, Clear, Alone

LEMMA EnvFresh == Clear => Env = Fresh
  BY DEF Clear, Env, Fresh

(* A handler starts from a clear context, and its result is that of the line. *)
LEMMA HandleAlone == ASSUME Clear, Handle, Clear'
                     PROVE  Alone'
<1>1. Env = Fresh
  BY EnvFresh
<1>2. Fresh' = Fresh
  BY DEF Handle, Returns, Clear, Fresh
<1>3. code' = Result(Fresh, inst).out /\ inst' = inst
      /\ phase' = IF Result(Fresh, inst).ok THEN "ok" ELSE "bad"
  BY <1>1 DEF Handle, Returns
<1> QED
  BY <1>2, <1>3 DEF Alone, Gave

LEMMA StepClear == ASSUME Clear, [Next]_vars
                   PROVE  Clear'
  BY DEF Clear, Next, vars, ReadLine, Read, Handle, Leave, Inc, Sal, Add, Lea, Mul, Mov, Lgdt, Ltr, Enter,
         CallJmp, Ret, IntN, Push, Pop, InOut, NoOperand, Keeps, EndLine, Bits, NextPass

LEMMA StepAlone == ASSUME Clear, Alone, [Next]_vars
                   PROVE  Alone'
<1>1. Clear'
  BY StepClear
<1>2. CASE Handle
  BY <1>1, <1>2, HandleAlone
<1>3. CASE ReadLine \/ EndLine \/ Bits \/ NextPass
  BY <1>3 DEF Alone, ReadLine, Read, EndLine, Bits, NextPass
<1>4. CASE UNCHANGED vars
  <2>1. Fresh' = Fresh /\ inst' = inst /\ code' = code /\ phase' = phase
    BY <1>4 DEF vars, Fresh
  <2> QED
    BY <2>1 DEF Alone, Gave
<1> QED
  BY <1>2, <1>3, <1>4 DEF Next

(* The code of a line depends on nothing an earlier line left behind. *)
THEOREM NothingLeftBehind == Spec => []Alone
<1>1. Clear /\ Alone /\ [Next]_vars => (Clear /\ Alone)'
  BY StepClear, StepAlone
<1> QED
  BY InitClear, <1>1, PTL DEF Spec

-----------------------------------------------------------------------------
(* The handlers read ctx->xmode, lock_prefix and spec_ax_fn the same in a    *)
(* stable pass, s, as in any other, e: only the range checks differ.         *)
IsEnv(e) == e = [mode |-> e.mode, stable |-> e.stable, lock |-> e.lock, ax |-> e.ax]
Relaxed(s, e) == /\ IsEnv(s) /\ IsEnv(e) /\ s.stable
                 /\ s.mode = e.mode /\ s.lock = e.lock /\ s.ax = e.ax

(* What MovSeg, Locked and _mov_rmr set for the time of a call.              *)
LEMMA RelaxedSet ==
  ASSUME NEW s, NEW e, Relaxed(s, e)
  PROVE  /\ \A l : Relaxed([s EXCEPT !.lock = l], [e EXCEPT !.lock = l])
         /\ \A x : Relaxed([s EXCEPT !.ax = x], [e EXCEPT !.ax = x])
  BY DEF Relaxed, IsEnv

LEMMA MemChecks ==
  ASSUME NEW s, NEW e, Relaxed(s, e), NEW rm, NEW r, NEW c8, NEW c32,
         MemForm(s, rm, r, c8, c32).ok
  PROVE  MemForm(s, rm, r, c8, c32) = MemForm(e, rm, r, c8, c32)
<1> DEFINE Front(env) == When(rm.seg # 0, Putc(rm.seg))
                         \o SizePrefixes(env, r.z, First(rm).z, c8, c32) \o Opcode(r, c8, c32)
           Short(env) == First(rm).z = 16 \/ (env.mode = 16 /\ First(rm).z # 32)
           Mem(env) == IF Short(env)
                         THEN _x86_mem_modrm(env.mode, r, First(rm), Second(rm), ToInt32(rm.ofs), env.ax)
                         ELSE _386_mem_modrm(env.mode, r, First(rm), ScaleOf(rm), Second(rm),
                                             ToInt32(rm.ofs), env.ax)
           Form(env) == IF \/ env.stable /\ ~OfsFits(env, rm.ofs)
                           \/ ~AddressRegs(env, First(rm), Second(rm)) \/ (env.mode = 64 /\ First(rm).z = 16)
                          THEN Rejected
                          ELSE IF Short(env) /\ ScaleOf(rm) > 1
                                 THEN Fail(Front(env))
                                 ELSE GoBack(Before(Front(env), Mem(env)))
<1>1. MemForm(s, rm, r, c8, c32) = Form(s) /\ MemForm(e, rm, r, c8, c32) = Form(e)
  BY DEF MemForm
<1>2. Front(s) = Front(e)
  BY DEF SizePrefixes, Relaxed
<1>3. Short(s) = Short(e) /\ Mem(s) = Mem(e)
  BY DEF Relaxed
<1>4. OfsFits(s, rm.ofs) = OfsFits(e, rm.ofs)
  BY DEF OfsFits, Relaxed
<1>5. AddressRegs(s, First(rm), Second(rm)) = AddressRegs(e, First(rm), Second(rm))
  BY DEF AddressRegs, Relaxed
<1> HIDE DEF Front, Short, Mem
<1>6. OfsFits(s, rm.ofs)
  BY <1>1 DEF Relaxed, Rejected, Fail
<1> QED
  BY <1>1, <1>2, <1>3, <1>4, <1>5, <1>6 DEF Relaxed

LEMMA ModrmChecks ==
  ASSUME NEW s, NEW e, Relaxed(s, e), NEW rm, NEW r, NEW c8, NEW c32,
         bctx_modrm(s, rm, r, c8, c32).ok
  PROVE  bctx_modrm(s, rm, r, c8, c32) = bctx_modrm(e, rm, r, c8, c32)
<1>1. RegForm(s, rm, r, c8, c32) = RegForm(e, rm, r, c8, c32)
  BY DEF RegForm, Relaxed
<1> QED
  BY <1>1, MemChecks DEF bctx_modrm

LEMMA RmCrChecks ==
  ASSUME NEW s, NEW e, Relaxed(s, e), NEW rm, NEW cr, NEW c8, NEW c32,
         _opr2_rm_cr(s, rm, cr, c8, c32).ok
  PROVE  _opr2_rm_cr(s, rm, cr, c8, c32) = _opr2_rm_cr(e, rm, cr, c8, c32)
  BY ModrmChecks DEF _opr2_rm_cr

LEMMA IncChecks ==
  ASSUME NEW s, NEW e, Relaxed(s, e), NEW rm, NEW dec,
         bctx_inst_inc(s, rm, dec).ok
  PROVE  bctx_inst_inc(s, rm, dec) = bctx_inst_inc(e, rm, dec)
  BY RmCrChecks DEF bctx_inst_inc, SizePrefix, Relaxed

LEMMA SalChecks ==
  ASSUME NEW s, NEW e, Relaxed(s, e), NEW rm, NEW opd, NEW cr,
         bctx_inst_sal(s, rm, opd, cr).ok
  PROVE  bctx_inst_sal(s, rm, opd, cr) = bctx_inst_sal(e, rm, opd, cr)
  BY RmCrChecks DEF bctx_inst_sal, Then

LEMMA AddChecks ==
  ASSUME NEW s, NEW e, Relaxed(s, e), NEW rm, NEW opd, NEW opt,
         bctx_inst_add(s, rm, opd, opt).ok
  PROVE  bctx_inst_add(s, rm, opd, opt) = bctx_inst_add(e, rm, opd, opt)
<1>1. ASSUME NEW r, NEW c8, NEW c32, NEW z, NEW v,
             _append_imm(bctx_modrm(s, rm, r, c8, c32), z, v).ok
      PROVE  _append_imm(bctx_modrm(s, rm, r, c8, c32), z, v) = _append_imm(bctx_modrm(e, rm, r, c8, c32), z, v)
  BY <1>1, ModrmChecks DEF _append_imm
<1>2. ASSUME NEW v, AddRegImm(s, rm, v, opt).ok
      PROVE  AddRegImm(s, rm, v, opt) = AddRegImm(e, rm, v, opt)
  BY <1>1, <1>2 DEF AddRegImm, SizePrefix, Relaxed
<1>3. ASSUME NEW v, AddMemImm(s, rm, v, opt).ok
      PROVE  AddMemImm(s, rm, v, opt) = AddMemImm(e, rm, v, opt)
  BY <1>1, <1>3 DEF AddMemImm, Relaxed
<1> QED
  BY <1>2, <1>3, ModrmChecks DEF bctx_inst_add

LEMMA MovSegChecks ==
  ASSUME NEW s, NEW e, Relaxed(s, e), NEW inv_cmd, NEW rm, NEW seg,
         MovSeg(s, inv_cmd, rm, seg).ok
  PROVE  MovSeg(s, inv_cmd, rm, seg) = MovSeg(e, inv_cmd, rm, seg)
<1> DEFINE Set(env) == [env EXCEPT !.lock = env.lock \/ env.mode = 32]
<1>1. Relaxed(Set(s), Set(e))
  <2>1. (s.lock \/ s.mode = 32) = (e.lock \/ e.mode = 32)
    BY DEF Relaxed
  <2> QED
    BY <2>1, RelaxedSet
<1> HIDE DEF Set
<1>2. ASSUME NEW op, bctx_modrm(Set(s), rm, Reg(16, seg - 1), op, op).ok
      PROVE  bctx_modrm(Set(s), rm, Reg(16, seg - 1), op, op) = bctx_modrm(Set(e), rm, Reg(16, seg - 1), op, op)
  BY <1>1, <1>2, ModrmChecks
<1> QED
  BY <1>2 DEF MovSeg, Set

LEMMA MovRmrChecks ==
  ASSUME NEW s, NEW e, Relaxed(s, e), NEW inv_cmd, NEW rm, NEW r,
         _mov_rmr(s, inv_cmd, rm, r).ok
  PROVE  _mov_rmr(s, inv_cmd, rm, r) = _mov_rmr(e, inv_cmd, rm, r)
<1> DEFINE AxSetIn(env) == [env EXCEPT !.ax = Ax(rm.ofs)]
<1>1. Relaxed(AxSetIn(s), AxSetIn(e))
  BY RelaxedSet
<1> HIDE DEF AxSetIn
<1>2. ASSUME NEW c8, NEW c32, bctx_modrm(AxSetIn(s), rm, r, c8, c32).ok
      PROVE  bctx_modrm(AxSetIn(s), rm, r, c8, c32) = bctx_modrm(AxSetIn(e), rm, r, c8, c32)
  BY <1>1, <1>2, ModrmChecks
<1>3. s.mode = e.mode
  BY DEF Relaxed
<1>4. ASSUME NEW c8, NEW c32, bctx_modrm(s, rm, r, c8, c32).ok
      PROVE  bctx_modrm(s, rm, r, c8, c32) = bctx_modrm(e, rm, r, c8, c32)
  BY <1>4, ModrmChecks
<1> QED
  BY <1>2, <1>3, <1>4 DEF _mov_rmr, AxSetIn

LEMMA RmImmChecks ==
  ASSUME NEW s, NEW e, Relaxed(s, e), NEW rm, NEW v,
         _rm_imm(s, rm, v).ok
  PROVE  _rm_imm(s, rm, v) = _rm_imm(e, rm, v)
<1>1. RegImm(s, rm.r, v) = RegImm(e, rm.r, v)
  BY DEF RegImm, SizePrefix, Relaxed
<1>2. ASSUME MemImm(s, rm, v).ok
      PROVE  MemImm(s, rm, v) = MemImm(e, rm, v)
  BY <1>2, ModrmChecks DEF MemImm, PutImm, Then, Rejected, Fail, Relaxed
<1> QED
  BY <1>1, <1>2 DEF _rm_imm

LEMMA MovChecks ==
  ASSUME NEW s, NEW e, Relaxed(s, e), NEW opd1, NEW opd2,
         bctx_inst_mov(s, opd1, opd2).ok
  PROVE  bctx_inst_mov(s, opd1, opd2) = bctx_inst_mov(e, opd1, opd2)
<1>1. _reg_cr(s, 1, opd1, opd2.ofs) = _reg_cr(e, 1, opd1, opd2.ofs)
      /\ _reg_cr(s, 0, opd2, opd1.ofs) = _reg_cr(e, 0, opd2, opd1.ofs)
  BY DEF _reg_cr, Relaxed
<1>2. MovSeg(s, 1, opd1, opd2.seg).ok => MovSeg(s, 1, opd1, opd2.seg) = MovSeg(e, 1, opd1, opd2.seg)
  BY MovSegChecks
<1>3. MovSeg(s, 0, opd2, opd1.seg).ok => MovSeg(s, 0, opd2, opd1.seg) = MovSeg(e, 0, opd2, opd1.seg)
  BY MovSegChecks
<1>4. _mov_rmr(s, 1, opd2, opd1.r).ok => _mov_rmr(s, 1, opd2, opd1.r) = _mov_rmr(e, 1, opd2, opd1.r)
  BY MovRmrChecks
<1>5. _mov_rmr(s, 0, opd1, opd2.r).ok => _mov_rmr(s, 0, opd1, opd2.r) = _mov_rmr(e, 0, opd1, opd2.r)
  BY MovRmrChecks
<1>6. _rm_imm(s, opd1, opd2.ofs).ok => _rm_imm(s, opd1, opd2.ofs) = _rm_imm(e, opd1, opd2.ofs)
  BY RmImmChecks
<1> QED
  BY <1>1, <1>2, <1>3, <1>4, <1>5, <1>6 DEF bctx_inst_mov, Is

LEMMA LgdtChecks ==
  ASSUME NEW s, NEW e, Relaxed(s, e), NEW rm, NEW idt,
         bctx_inst_lgdt(s, rm, idt).ok
  PROVE  bctx_inst_lgdt(s, rm, idt) = bctx_inst_lgdt(e, rm, idt)
<1>1. Relaxed(Locked(s), Locked(e))
  BY RelaxedSet DEF Locked
<1> DEFINE r == Reg(IF s.mode = 64 THEN 64 ELSE 32, 2 + idt)
<1>2. bctx_inst_lgdt(s, rm, idt) = IF Is(rm, {"mem"}) THEN Behind0F(bctx_modrm(Locked(s), rm, r, 1, 1)) ELSE Rejected
  BY DEF bctx_inst_lgdt
<1>3. bctx_inst_lgdt(e, rm, idt) = IF Is(rm, {"mem"}) THEN Behind0F(bctx_modrm(Locked(e), rm, r, 1, 1)) ELSE Rejected
  <2>1. s.mode = e.mode
    BY DEF Relaxed
  <2> QED
    BY <2>1 DEF bctx_inst_lgdt
<1> HIDE DEF r
<1>4. bctx_modrm(Locked(s), rm, r, 1, 1).ok
      => bctx_modrm(Locked(s), rm, r, 1, 1) = bctx_modrm(Locked(e), rm, r, 1, 1)
  BY <1>1, ModrmChecks
<1>5. CASE Is(rm, {"mem"})
  <2>1. bctx_inst_lgdt(s, rm, idt) = Behind0F(bctx_modrm(Locked(s), rm, r, 1, 1))
        /\ bctx_inst_lgdt(e, rm, idt) = Behind0F(bctx_modrm(Locked(e), rm, r, 1, 1))
    BY <1>2, <1>3, <1>5
  <2>2. bctx_modrm(Locked(s), rm, r, 1, 1).ok
    BY <2>1 DEF Behind0F, Before
  <2> QED
    BY <2>1, <2>2, <1>4
<1>6. CASE ~Is(rm, {"mem"})
  BY <1>2, <1>3, <1>6
<1> QED
  BY <1>5, <1>6

LEMMA LtrChecks ==
  ASSUME NEW s, NEW e, Relaxed(s, e), NEW rm,
         bctx_inst_ltr(s, rm).ok
  PROVE  bctx_inst_ltr(s, rm) = bctx_inst_ltr(e, rm)
<1>1. Relaxed(Locked(s), Locked(e))
  BY RelaxedSet DEF Locked
<1>2. ASSUME NEW r, NEW op, bctx_modrm(Locked(s), rm, r, op, op).ok
      PROVE  bctx_modrm(Locked(s), rm, r, op, op) = bctx_modrm(Locked(e), rm, r, op, op)
  BY <1>1, <1>2, ModrmChecks
<1>3. s.mode = e.mode
  BY DEF Relaxed
<1> QED
  BY <1>2, <1>3 DEF bctx_inst_ltr, Behind0F, Before, Rejected, Fail

LEMMA ThroughChecks ==
  ASSUME NEW s, NEW e, Relaxed(s, e), NEW rm, NEW near,
         Through(s, rm, near).ok
  PROVE  Through(s, rm, near) = Through(e, rm, near)
  BY ModrmChecks DEF Through, Relaxed

LEMMA StackChecks ==
  ASSUME NEW s, NEW e, Relaxed(s, e), NEW rm, NEW short, NEW long, NEW cr,
         Stack(s, rm, short, long, cr).ok
  PROVE  Stack(s, rm, short, long, cr) = Stack(e, rm, short, long, cr)
  BY ModrmChecks DEF Stack, Relaxed

LEMMA PushChecks ==
  ASSUME NEW s, NEW e, Relaxed(s, e), NEW opd,
         bctx_inst_push(s, opd).ok
  PROVE  bctx_inst_push(s, opd) = bctx_inst_push(e, opd)
  BY StackChecks DEF bctx_inst_push, PushImm, StackSeg, Relaxed

LEMMA PopChecks ==
  ASSUME NEW s, NEW e, Relaxed(s, e), NEW opd,
         bctx_inst_pop(s, opd).ok
  PROVE  bctx_inst_pop(s, opd) = bctx_inst_pop(e, opd)
  BY StackChecks DEF bctx_inst_pop, StackSeg, Relaxed

LEMMA OutChecks ==
  ASSUME NEW s, NEW e, Relaxed(s, e), NEW opd1, NEW opd2, NEW for_in
  PROVE  bctx_inst_out(s, opd1, opd2, for_in) = bctx_inst_out(e, opd1, opd2, for_in)
  BY DEF bctx_inst_out, PortIO, SizePrefix, Relaxed

LEMMA PlainChecks ==
  ASSUME NEW s, NEW e, Relaxed(s, e), NEW m
  PROVE  PutPlain(s, m) = PutPlain(e, m)
  BY DEF PutPlain, Relaxed

LEMMA ResultChecks ==
  ASSUME NEW s, NEW e, Relaxed(s, e), NEW l,
         Result(s, l).ok
  PROVE  Result(s, l) = Result(e, l)
<1>1. bctx_inst_inc(s, l.a, IF l.m = "dec" THEN 1 ELSE 0).ok => bctx_inst_inc(s, l.a, IF l.m = "dec" THEN 1 ELSE 0) = bctx_inst_inc(e, l.a, IF l.m = "dec" THEN 1 ELSE 0)
  BY IncChecks
<1>2. bctx_inst_sal(s, l.a, l.b, SalCr[l.m]).ok => bctx_inst_sal(s, l.a, l.b, SalCr[l.m]) = bctx_inst_sal(e, l.a, l.b, SalCr[l.m])
  BY SalChecks
<1>3. bctx_inst_add(s, l.a, l.b, AddOpt[l.m]).ok => bctx_inst_add(s, l.a, l.b, AddOpt[l.m]) = bctx_inst_add(e, l.a, l.b, AddOpt[l.m])
  BY AddChecks
<1>4. bctx_inst_lea(s, l.a, l.b).ok => bctx_inst_lea(s, l.a, l.b) = bctx_inst_lea(e, l.a, l.b)
  BY ModrmChecks DEF bctx_inst_lea
<1>5. bctx_inst_mul(s, l.a).ok => bctx_inst_mul(s, l.a) = bctx_inst_mul(e, l.a)
  BY RmCrChecks DEF bctx_inst_mul
<1>6. bctx_inst_mov(s, l.a, l.b).ok => bctx_inst_mov(s, l.a, l.b) = bctx_inst_mov(e, l.a, l.b)
  BY MovChecks
<1>7. bctx_inst_lgdt(s, l.a, IF l.m = "lidt" THEN 1 ELSE 0).ok => bctx_inst_lgdt(s, l.a, IF l.m = "lidt" THEN 1 ELSE 0) = bctx_inst_lgdt(e, l.a, IF l.m = "lidt" THEN 1 ELSE 0)
  BY LgdtChecks
<1>8. bctx_inst_ltr(s, l.a).ok => bctx_inst_ltr(s, l.a) = bctx_inst_ltr(e, l.a)
  BY LtrChecks
<1>9. Through(s, l.a, IF l.m = "call" THEN 2 ELSE 4).ok => Through(s, l.a, IF l.m = "call" THEN 2 ELSE 4) = Through(e, l.a, IF l.m = "call" THEN 2 ELSE 4)
  BY ThroughChecks
<1>10. bctx_inst_push(s, l.a).ok => bctx_inst_push(s, l.a) = bctx_inst_push(e, l.a)
  BY PushChecks
<1>11. bctx_inst_pop(s, l.a).ok => bctx_inst_pop(s, l.a) = bctx_inst_pop(e, l.a)
  BY PopChecks
<1>12. bctx_inst_out(s, l.a, l.b, IF l.m = "in" THEN 1 ELSE 0) = bctx_inst_out(e, l.a, l.b, IF l.m = "in" THEN 1 ELSE 0)
  BY OutChecks
<1>13. PutPlain(s, l.m) = PutPlain(e, l.m)
  BY PlainChecks
<1>14. DOMAIN SalCr = {"rol", "ror", "rcl", "rcr", "sal", "shl", "shr", "sar"}
       /\ DOMAIN AddOpt = {"add", "or", "and", "sub", "xor", "cmp"}
  BY DEF SalCr, AddOpt
<1>15. CASE l.m \in {"inc", "dec"}
  BY <1>1, <1>14, <1>15 DEF Result
<1>16. CASE l.m \in DOMAIN SalCr
  BY <1>2, <1>14, <1>16 DEF Result
<1>17. CASE l.m \in DOMAIN AddOpt
  BY <1>3, <1>14, <1>17 DEF Result
<1>18. CASE l.m \in {"lea", "mul", "mov"}
  BY <1>4, <1>5, <1>6, <1>14, <1>18 DEF Result
<1>19. CASE l.m \in {"lgdt", "lidt", "ltr", "enter", "call", "jmp"}
  BY <1>7, <1>8, <1>9, <1>14, <1>19 DEF Result
<1>20. CASE l.m \in {"ret", "retf", "int", "push", "pop", "in", "out"}
  BY <1>10, <1>11, <1>12, <1>14, <1>20 DEF Result
<1>21. CASE l.m \notin {"inc", "dec", "lea", "mul", "mov", "lgdt", "lidt", "ltr", "enter", "call", "jmp", "ret",
                        "retf", "int", "push", "pop", "in", "out"} \cup DOMAIN SalCr \cup DOMAIN AddOpt
  BY <1>13, <1>21 DEF Result
<1> QED
  BY <1>15, <1>16, <1>17, <1>18, <1>19, <1>20, <1>21

(* A check that is left out while symbols move never changes the code of a   *)
(* line that passes it.                                                      *)
THEOREM OnlyChecksDiffer == Spec => []ChecksOnly
<1>1. ASSUME Alone
      PROVE  ChecksOnly
  <2>1. Relaxed(Strict, Fresh)
    BY DEF Relaxed, IsEnv, Strict, Fresh
  <2>2. Result(Strict, inst).ok => Result(Strict, inst) = Result(Fresh, inst)
    BY <2>1, ResultChecks
  <2> QED
    BY <1>1, <2>2 DEF ChecksOnly, Agrees, Alone, Gave
<1> QED
  BY NothingLeftBehind, <1>1, PTL

-----------------------------------------------------------------------------
(* What a handler that gives up leaves behind.                               *)
LEMMA ModrmRetreats ==
  ASSUME NEW e, NEW rm, NEW r, NEW c8, NEW c32,
         ~bctx_modrm(e, rm, r, c8, c32).ok, bctx_modrm(e, rm, r, c8, c32).out # <<>>
  PROVE  rm.opr # "reg" /\ ScaleOf(rm) > 1 /\ First(rm).z \notin {32, 64}
<1>1. rm.opr # "reg"
  BY DEF bctx_modrm, RegForm, Rejected, Fail, Done
<1>2. ~MemForm(e, rm, r, c8, c32).ok /\ MemForm(e, rm, r, c8, c32).out # <<>>
  BY <1>1 DEF bctx_modrm
<1> DEFINE short == First(rm).z = 16 \/ (e.mode = 16 /\ First(rm).z # 32)
<1>3. AddressRegs(e, First(rm), Second(rm)) /\ short /\ ScaleOf(rm) > 1
  <2> DEFINE mem == IF short THEN _x86_mem_modrm(e.mode, r, First(rm), Second(rm), ToInt32(rm.ofs), e.ax)
                              ELSE _386_mem_modrm(e.mode, r, First(rm), ScaleOf(rm), Second(rm),
                                                  ToInt32(rm.ofs), e.ax)
             front == When(rm.seg # 0, Putc(rm.seg))
                      \o SizePrefixes(e, r.z, First(rm).z, c8, c32) \o Opcode(r, c8, c32)
             illegal == \/ e.stable /\ ~OfsFits(e, rm.ofs)
                        \/ ~AddressRegs(e, First(rm), Second(rm)) \/ (e.mode = 64 /\ First(rm).z = 16)
             whole == Before(front, mem)
  <2>1. MemForm(e, rm, r, c8, c32) = IF illegal THEN Rejected
                                     ELSE IF short /\ ScaleOf(rm) > 1 THEN Fail(front) ELSE GoBack(whole)
    BY DEF MemForm
  <2>2. GoBack(whole).ok \/ GoBack(whole).out = <<>>
    BY DEF GoBack, Rejected, Fail
  <2>3. Rejected.out = <<>>
    BY DEF Rejected, Fail
  <2> HIDE DEF whole, front
  <2> QED
    BY <1>2, <2>1, <2>2, <2>3
<1>4. First(rm) # NoReg
  BY <1>3 DEF First, ScaleOf
<1> QED
  BY <1>1, <1>3, <1>4 DEF AddressRegs

LEMMA RmCrRetreats ==
  ASSUME NEW e, NEW rm, NEW cr, NEW c8, NEW c32,
         ~_opr2_rm_cr(e, rm, cr, c8, c32).ok, _opr2_rm_cr(e, rm, cr, c8, c32).out # <<>>
  PROVE  ScaledShort(rm)
  BY ModrmRetreats DEF _opr2_rm_cr, _try_rm_size, Rejected, Fail, ScaledShort, Is

LEMMA IncRetreats ==
  ASSUME NEW e, NEW rm, NEW dec,
         ~bctx_inst_inc(e, rm, dec).ok, bctx_inst_inc(e, rm, dec).out # <<>>
  PROVE  ScaledShort(rm)
  BY RmCrRetreats DEF bctx_inst_inc, Rejected, Fail, Done, Is

LEMMA SalRetreats ==
  ASSUME NEW e, NEW rm, NEW opd, NEW cr,
         ~bctx_inst_sal(e, rm, opd, cr).ok, bctx_inst_sal(e, rm, opd, cr).out # <<>>
  PROVE  ScaledShort(rm)
  BY RmCrRetreats DEF bctx_inst_sal, Rejected, Fail, Done, Then, Is

LEMMA AddRegImmRetreats ==
  ASSUME NEW e, NEW rm, rm.opr = "reg", NEW v, NEW opt,
         ~AddRegImm(e, rm, v, opt).ok, AddRegImm(e, rm, v, opt).out # <<>>
  PROVE  ~Range(rm.r.z, v)
<1>1. \A r, c8, c32 : LET m == bctx_modrm(e, rm, r, c8, c32)
                     IN  (m.ok /\ rm.r.z = r.z) \/ m = Rejected
  BY DEF bctx_modrm, RegForm, Rejected, Fail, Done
<1>2. InInt8(v) => Range(8, v)
  BY DEF Range
<1>3. ASSUME NEW m, NEW z, ~_append_imm(m, z, v).ok, _append_imm(m, z, v).out # <<>>
      PROVE  ~Range(z, v) \/ (~m.ok /\ m.out # <<>>)
  BY <1>3 DEF _append_imm, Done
<1>4. Rejected.out = <<>> /\ Rejected.ok = FALSE /\ \A out : Done(out).ok
  BY DEF Rejected, Fail, Done
<1> DEFINE m == bctx_modrm(e, rm, Reg(rm.r.z, opt), 128, 131)
           n == bctx_modrm(e, rm, Reg(e.mode, opt), 128, 129)
<1>5. (m.ok \/ m = Rejected) /\ ((n.ok /\ rm.r.z = e.mode) \/ n = Rejected)
  BY <1>1 DEF Reg
<1> HIDE DEF m, n
<1>6. CASE InInt8(v)
  <2>1. AddRegImm(e, rm, v, opt) = _append_imm(IF rm.r.z = 8 THEN Done(Putc(8 * opt + 4)) ELSE m, 8, v)
    BY <1>6 DEF AddRegImm, m
  <2> QED
    BY <1>6, <2>1, <1>2, <1>3, <1>4, <1>5
<1>7. CASE ~InInt8(v)
  <2> DEFINE AxForm == Done(SizePrefix(e, rm.r.z) \o When(rm.r.z = 64, Putc(72))
                            \o Putc(8 * opt + (IF rm.r.z = 8 THEN 4 ELSE 5)))
  <2>1. AddRegImm(e, rm, v, opt) = IF Acc(rm.r)
                                     THEN IF rm.r.z = 64 /\ e.mode # 64 THEN Rejected
                                                                       ELSE _append_imm(AxForm, rm.r.z, v)
                                     ELSE _append_imm(n, e.mode, v)
    BY <1>7 DEF AddRegImm, n
  <2>2. AxForm.ok
    BY <1>4
  <2>3. \A z : _append_imm(Rejected, z, v) = Rejected
    BY <1>4 DEF _append_imm
  <2> HIDE DEF AxForm
  <2> QED
    BY <2>1, <2>2, <2>3, <1>3, <1>4, <1>5
<1> QED
  BY <1>6, <1>7

LEMMA AddMemImmRetreats ==
  ASSUME NEW e, NEW rm, rm.opr = "mem", NEW v, NEW opt,
         ~AddMemImm(e, rm, v, opt).ok, AddMemImm(e, rm, v, opt).out # <<>>
  PROVE  ~Range(ImmSize(e.mode, rm), v) \/ ScaledShort(rm)
  BY ModrmRetreats DEF AddMemImm, _append_imm, Done, ImmSize, ScaledShort, Is

LEMMA AddRetreats ==
  ASSUME NEW e, NEW rm, NEW opd, NEW opt,
         ~bctx_inst_add(e, rm, opd, opt).ok, bctx_inst_add(e, rm, opd, opt).out # <<>>
  PROVE  \/ Is(opd, {"imm"}) /\ ~Range(ImmSize(e.mode, rm), opd.ofs)
         \/ ScaledShort(rm) \/ ScaledShort(opd)
<1>1. CASE Is(rm, {"reg"}) /\ Is(opd, {"imm"})
  BY <1>1, AddRegImmRetreats DEF bctx_inst_add, ImmSize, Is
<1>2. CASE Is(rm, {"mem"}) /\ Is(opd, {"imm"})
  BY <1>2, AddMemImmRetreats DEF bctx_inst_add, Is
<1>3. CASE Is(rm, {"reg", "mem"}) /\ Is(opd, {"reg"})
  BY <1>3, ModrmRetreats DEF bctx_inst_add, ScaledShort, Is
<1>4. CASE Is(rm, {"reg"}) /\ Is(opd, {"mem"})
  BY <1>4, ModrmRetreats DEF bctx_inst_add, ScaledShort, Is
<1>5. CASE ~(Is(rm, {"reg", "mem"}) /\ Is(opd, {"reg", "imm"})) /\ ~(Is(rm, {"reg"}) /\ Is(opd, {"mem"}))
  BY <1>5 DEF bctx_inst_add, Rejected, Fail, Is
<1> QED
  BY <1>1, <1>2, <1>3, <1>4, <1>5 DEF Is

LEMMA RmImmRetreats ==
  ASSUME NEW e, NEW rm, NEW v,
         ~_rm_imm(e, rm, v).ok, _rm_imm(e, rm, v).out # <<>>
  PROVE  ScaledShort(rm) \/ (Is(rm, {"mem"}) /\ rm.psz = 64 /\ ~Range(64, v))
<1>1. CASE Is(rm, {"reg"})
  BY <1>1 DEF _rm_imm, RegImm, Rejected, Fail, Done, Is
<1>2. CASE Is(rm, {"mem"})
  BY <1>2, ModrmRetreats DEF _rm_imm, MemImm, PutImm, Then, Rejected, Fail, Done, Is, ScaledShort, Range, _try_rm_size
<1>3. CASE ~Is(rm, {"reg", "mem"})
  BY <1>3 DEF _rm_imm, Rejected, Fail, Is
<1> QED
  BY <1>1, <1>2, <1>3 DEF Is

LEMMA MovRetreats ==
  ASSUME NEW e, NEW a, NEW b,
         ~bctx_inst_mov(e, a, b).ok, bctx_inst_mov(e, a, b).out # <<>>
  PROVE  \/ ScaledShort(a) \/ ScaledShort(b)
         \/ Is(a, {"mem"}) /\ a.psz = 64 /\ ~Range(64, b.ofs)
<1>1. ASSUME NEW c, NEW rm, NEW cr
      PROVE  _reg_cr(e, c, rm, cr).ok \/ _reg_cr(e, c, rm, cr).out = <<>>
  BY DEF _reg_cr, Rejected, Fail, Done
<1>2. ASSUME NEW c, NEW rm, NEW seg, ~MovSeg(e, c, rm, seg).ok, MovSeg(e, c, rm, seg).out # <<>>
      PROVE  rm.opr # "reg" /\ ScaleOf(rm) > 1 /\ First(rm).z \notin {32, 64}
  BY <1>2, ModrmRetreats DEF MovSeg
<1>3. ASSUME NEW c, NEW rm, NEW r, ~_mov_rmr(e, c, rm, r).ok, _mov_rmr(e, c, rm, r).out # <<>>
      PROVE  rm.opr # "reg" /\ ScaleOf(rm) > 1 /\ First(rm).z \notin {32, 64}
  BY <1>3, ModrmRetreats DEF _mov_rmr, Rejected, Fail
<1> QED
  BY <1>1, <1>2, <1>3, RmImmRetreats DEF bctx_inst_mov, ScaledShort, Rejected, Fail, Is

LEMMA LtrRetreats == ASSUME NEW e, NEW rm, ~bctx_inst_ltr(e, rm).ok, bctx_inst_ltr(e, rm).out # <<>>
                     PROVE  Is(rm, {"mem"})
<1>1. CASE Is(rm, {"reg"}) /\ rm.r.z = 16
  BY <1>1 DEF bctx_inst_ltr, LtrTakes, Behind0F, Before, bctx_modrm, RegForm, Reg, Done, Is
<1>2. CASE ~(Is(rm, {"reg"}) /\ rm.r.z = 16) /\ ~Is(rm, {"mem"})
  BY <1>2 DEF bctx_inst_ltr, LtrTakes, Rejected, Fail
<1> QED
  BY <1>1, <1>2

LEMMA ThroughRetreats ==
  ASSUME NEW e, NEW rm, NEW near, ~Through(e, rm, near).ok, Through(e, rm, near).out # <<>>
  PROVE  ScaledShort(rm)
  BY ModrmRetreats DEF Through, Rejected, Fail, ScaledShort, Is

LEMMA PushPopRetreats ==
  ASSUME NEW e, NEW opd
  PROVE  /\ ~bctx_inst_push(e, opd).ok /\ bctx_inst_push(e, opd).out # <<>> => ScaledShort(opd)
         /\ ~bctx_inst_pop(e, opd).ok /\ bctx_inst_pop(e, opd).out # <<>> => ScaledShort(opd)
<1>1. ASSUME NEW short, NEW long, NEW cr, Is(opd, {"reg", "mem"}),
             ~Stack(e, opd, short, long, cr).ok, Stack(e, opd, short, long, cr).out # <<>>
      PROVE  ScaledShort(opd)
  BY <1>1, ModrmRetreats DEF Stack, Rejected, Fail, Done, ScaledShort, Is
<1>2. PushImm(e, opd).ok \/ PushImm(e, opd).out = <<>>
  BY DEF PushImm, Rejected, Fail, Done
<1>3. ASSUME NEW seg, NEW puts
      PROVE  StackSeg(e, seg, puts).ok \/ StackSeg(e, seg, puts).out = <<>>
  BY DEF StackSeg, Rejected, Fail, Done
<1> QED
  BY <1>1, <1>2, <1>3 DEF bctx_inst_push, bctx_inst_pop, Rejected, Fail, Is

(* The handlers that look at their operands before they put anything.        *)
LEMMA OthersRetreat ==
  ASSUME NEW e, NEW a, NEW b, NEW flag, NEW m
  PROVE  /\ bctx_inst_enter(a, b).ok \/ bctx_inst_enter(a, b).out = <<>>
         /\ bctx_inst_ret(a, flag).ok \/ bctx_inst_ret(a, flag).out = <<>>
         /\ bctx_inst_int(a).ok \/ bctx_inst_int(a).out = <<>>
         /\ bctx_inst_out(e, a, b, flag).ok \/ bctx_inst_out(e, a, b, flag).out = <<>>
         /\ PutPlain(e, m).ok \/ PutPlain(e, m).out = <<>>
<1>1. Rejected.out = <<>> /\ \A out : Done(out).ok
  BY DEF Rejected, Fail, Done
<1>2. ASSUME NEW port, NEW r, NEW op
      PROVE  PortIO(e, port, r, op).ok \/ PortIO(e, port, r, op).out = <<>>
  BY <1>1 DEF PortIO, Is
<1>3. bctx_inst_enter(a, b).ok \/ bctx_inst_enter(a, b).out = <<>>
  BY <1>1 DEF bctx_inst_enter
<1>4. bctx_inst_ret(a, flag).ok \/ bctx_inst_ret(a, flag).out = <<>>
  BY <1>1 DEF bctx_inst_ret, Is
<1>5. bctx_inst_int(a).ok \/ bctx_inst_int(a).out = <<>>
  BY <1>1 DEF bctx_inst_int
<1>6. PutPlain(e, m).ok \/ PutPlain(e, m).out = <<>>
  BY <1>1 DEF PutPlain
<1> QED
  BY <1>2, <1>3, <1>4, <1>5, <1>6 DEF bctx_inst_out

LEMMA ResultRetreats ==
  ASSUME NEW e, NEW l, ~Result(e, l).ok, Result(e, l).out # <<>>
  PROVE  Leaves(e.mode, l)
<1>1. DOMAIN SalCr = {"rol", "ror", "rcl", "rcr", "sal", "shl", "shr", "sar"}
      /\ DOMAIN AddOpt = {"add", "or", "and", "sub", "xor", "cmp"}
  BY DEF SalCr, AddOpt
<1>2. CASE l.m \in {"inc", "dec"}
  BY <1>1, <1>2, IncRetreats DEF Result, Leaves
<1>3. CASE l.m \in DOMAIN SalCr
  BY <1>1, <1>3, SalRetreats DEF Result, Leaves
<1>4. CASE l.m \in DOMAIN AddOpt
  BY <1>1, <1>4, AddRetreats DEF Result, Leaves
<1>5. CASE l.m = "lea"
  <2>1. ~bctx_inst_lea(e, l.a, l.b).ok /\ bctx_inst_lea(e, l.a, l.b).out # <<>>
    BY <1>1, <1>5 DEF Result
  <2>2. ScaledShort(l.b)
    BY <2>1, ModrmRetreats DEF bctx_inst_lea, Rejected, Fail, ScaledShort, Is
  <2> QED
    BY <2>2 DEF Leaves
<1>6. CASE l.m = "mul"
  BY <1>1, <1>6, RmCrRetreats DEF Result, Leaves, bctx_inst_mul
<1>7. CASE l.m = "mov"
  BY <1>1, <1>7, MovRetreats DEF Result, Leaves
<1>8. CASE l.m \in {"lgdt", "lidt"}
  BY <1>1, <1>8 DEF Result, Leaves, bctx_inst_lgdt, Rejected, Fail
<1>9. CASE l.m = "ltr"
  BY <1>1, <1>9, LtrRetreats DEF Result, Leaves
<1>10. CASE l.m \in {"call", "jmp"}
  BY <1>1, <1>10, ThroughRetreats DEF Result, Leaves
<1>11. CASE l.m \in {"push", "pop"}
  BY <1>1, <1>11, PushPopRetreats DEF Result, Leaves
<1>12. l.m \notin {"enter", "ret", "retf", "int", "in", "out"}
  BY <1>1, OthersRetreat DEF Result
<1>13. CASE l.m \notin {"inc", "dec", "lea", "mul", "mov", "lgdt", "lidt", "ltr", "enter", "call", "jmp", "ret",
                        "retf", "int", "push", "pop", "in", "out"} \cup DOMAIN SalCr \cup DOMAIN AddOpt
  BY <1>13, OthersRetreat DEF Result
<1> QED
  BY <1>2, <1>3, <1>4, <1>5, <1>6, <1>7, <1>8, <1>9, <1>10, <1>11, <1>12, <1>13

(* A line that is refused leaves nothing in the stream, but in the cases of  *)
(* Leaves: the returns of bctx_modrm and of every handler, whatever the line.*)
THEOREM RefusedLeavesNothing == Spec => []Retreats
<1>1. ASSUME Alone
      PROVE  Retreats
  <2>1. Fresh.mode = xmode
    BY DEF Fresh
  <2> QED
    BY <1>1, <2>1, ResultRetreats DEF Alone, Gave, Retreats
<1> QED
  BY NothingLeftBehind, <1>1, PTL

-----------------------------------------------------------------------------
(* What a line puts is a sequence of units: every handler, whatever the line. *)
Code == Seq(Units)
Typed(res) == res.out \in Code
EnvTyped(e) == e.mode \in Modes /\ e.ax.ofs \in Int
RmTyped(rm) == /\ rm.opr = "reg" => rm.r \in Regs
               /\ rm.opr \in {"imm", "cr", "mem"} => /\ rm.seg \in Int /\ rm.ofs \in Int
                                                     /\ rm.reg1.n \in Int /\ rm.reg2.n \in Int
               /\ rm.opr = "seg" => rm.seg \in 1..6
               /\ rm.opr \in {"reg", "imm", "cr", "mem", "seg", "undef"}

(* Puts and what is built from them. *)
LEMMA PutTyped == /\ \A w \in {1, 2, 4, 8}, v \in Int : Put(w, v) \in Code
                  /\ <<>> \in Code
                  /\ \A a, b \in Code : a \o b \in Code
                  /\ \A c, p : p \in Code => When(c, p) \in Code
  BY DEF Put, Code, Units, When

LEMMA PutsTyped == \A v \in Int : Putc(v) \in Code /\ Putw(v) \in Code /\ Putdw(v) \in Code /\ Putqw(v) \in Code
  BY PutTyped DEF Putc, Putw, Putdw, Putqw

LEMMA ResTyped == /\ \A out \in Code : Typed(Done(out)) /\ Typed(Fail(out))
                  /\ Typed(Rejected)
                  /\ \A out \in Code : \A res : Typed(res) => Typed(Before(out, res)) /\ Typed(Then(res, out))
                  /\ \A res : Typed(res) => Typed(GoBack(res))
<1>1. <<>> \in Code /\ \A a, b \in Code : a \o b \in Code
  BY PutTyped
<1> QED
  BY <1>1 DEF Typed, Done, Fail, Rejected, Before, Then, GoBack

LEMMA AppendTyped == ASSUME NEW res, Typed(res), NEW z \in {8, 16, 32, 64}, NEW v \in Int
                     PROVE  Typed(_append_imm(res, z, v))
<1>1. Put(Bytes(z), v) \in Code
  <2>1. Bytes(z) \in {1, 2, 4}
    BY DEF Bytes
  <2> QED
    BY <2>1, PutTyped
<1>2. \A a, b \in Code : a \o b \in Code
  BY PutTyped
<1> QED
  BY <1>1, <1>2 DEF Typed, _append_imm, Done, Fail

LEMMA ToInt32Int == ASSUME NEW n \in Int PROVE ToInt32(n) \in Int
<1>1. 2^DwordBits \in Int /\ 2^(DwordBits - 1) \in Int /\ 2^DwordBits > 0
  BY DwordAssumption
<1> DEFINE p == 2^DwordBits
           h == 2^(DwordBits - 1)
<1>2. p \in Int /\ h \in Int /\ p > 0
  BY <1>1
<1>3. ToInt32(n) = ((n + h) % p) - h
  BY DEF ToInt32
<1> HIDE DEF p, h
<1>4. (n + h) % p \in Int
  BY <1>2
<1> QED
  BY <1>2, <1>3, <1>4

(* bctx_modrm, from the ModR/M byte up. *)
LEMMA ModRMTyped == \A cr, rm \in Int : /\ ModRM(0, cr, rm) \in Code
                                       /\ ModRM(1, cr, rm) \in Code
                                       /\ ModRM(2, cr, rm) \in Code
<1> SUFFICES ASSUME NEW cr \in Int, NEW rm \in Int, NEW mod \in 0..2
             PROVE  ModRM(mod, cr, rm) \in Code
  OBVIOUS
<1>1. OrMod(mod, cr \div 64) \in Int
  BY DEF OrMod
<1>2. OrMod(mod, cr \div 64) * 64 + (cr % 64) + rm \in Int
  BY <1>1
<1> QED
  BY <1>2, PutsTyped DEF ModRM

LEMMA SibTyped ==
  ASSUME NEW mode, NEW cr \in Int, NEW r1, NEW r2, r1.n \in Int, r2.n \in Int, NEW scale, NEW ofs \in Int
  PROVE  Typed(_386_mem_sib(mode, cr, r1, scale, r2, ofs))
<1>1. SibByte(mode, r1, scale, r2) \in Int
  <2>1. ScaleBits(scale) \in Int
    BY DEF ScaleBits
  <2> QED
    BY <2>1 DEF SibByte
<1>2. Putc(SibByte(mode, r1, scale, r2)) \in Code
  BY <1>1, PutsTyped
<1>3. ModRM(0, cr, 4) \in Code /\ ModRM(1, cr, 4) \in Code /\ ModRM(2, cr, 4) \in Code
  BY ModRMTyped
<1>4. Putc(0) \in Code /\ Putdw(0) \in Code /\ Putc(ofs) \in Code /\ Putdw(ofs) \in Code
  BY PutsTyped
<1> QED
  BY <1>2, <1>3, <1>4, PutTyped, ResTyped DEF _386_mem_sib

LEMMA AxTyped ==
  ASSUME NEW mode, NEW r, r.n \in Int, NEW ofs \in Int, NEW ax, ax.ofs \in Int
  PROVE  AxOfs(mode, r, ofs, ax).out \in Code
<1>1. Ord(r) \in Int /\ Ord(Reg(64, 0)) \in Int
  BY DEF Ord, Reg
<1>2. (8 * (Ord(r) - Ord(Reg(64, 0)))) % 256 \in Int
  BY <1>1
<1>3. NoReg.n \in Int
  BY DEF NoReg, Reg
<1>4. _386_mem_sib(64, (8 * (Ord(r) - Ord(Reg(64, 0)))) % 256, NoReg, 0, NoReg, ax.ofs).out \in Code
  BY <1>2, <1>3, SibTyped DEF Typed
<1>5. Putw(ofs) \in Code /\ Putdw(ofs) \in Code /\ Putqw(ax.ofs) \in Code /\ <<>> \in Code
  BY PutsTyped, PutTyped
<1> QED
  BY <1>4, <1>5 DEF AxOfs

LEMMA ShortTyped ==
  ASSUME NEW mode, NEW r, r.n \in Int, NEW r1, NEW r2, NEW ofs \in Int, NEW ax, ax.ofs \in Int
  PROVE  Typed(_x86_mem_modrm(mode, r, r1, r2, ofs, ax))
<1> DEFINE cr == 8 * r.n
<1>1. cr \in Int
  OBVIOUS
<1> HIDE DEF cr
<1>2. ASSUME X86Legal(r1, r2)
      PROVE  X86Code(r1, r2) \in Int
  <2>1. \E i \in 1..8 : X86Pairs[i] = X86Set(r1, r2)
    BY <1>2 DEF X86Legal
  <2>2. (CHOOSE i \in 1..8 : X86Pairs[i] = X86Set(r1, r2)) \in 1..8
    BY <2>1
  <2> DEFINE c == CHOOSE i \in 1..8 : X86Pairs[i] = X86Set(r1, r2)
  <2>3. c \in 1..8 /\ X86Code(r1, r2) = c - 1
    BY <2>2 DEF X86Code
  <2> HIDE DEF c
  <2> QED
    BY <2>3
<1>3. ASSUME NEW crm \in Int
      PROVE  _x86_putrm(cr, crm, ofs) \in Code
  BY <1>1, PutsTyped, PutTyped, ModRMTyped DEF _x86_putrm
<1>4. AxOfs(mode, r, ofs, ax).out \in Code
  BY AxTyped
<1>5. ModRM(0, cr, 6) \o Putw(ofs) \in Code
  BY <1>1, PutsTyped, PutTyped, ModRMTyped
<1>6. Typed(_x86_special(AxOfs(mode, r, ofs, ax)))
  BY <1>4 DEF _x86_special, Typed
<1> QED
  BY <1>2, <1>3, <1>5, <1>6, ResTyped DEF _x86_mem_modrm, cr

LEMMA LongTyped ==
  ASSUME NEW mode, NEW r, r.n \in Int, NEW r1, r1.n \in Int, NEW r2, r2.n \in Int, NEW scale,
         NEW ofs \in Int, NEW ax, ax.ofs \in Int
  PROVE  Typed(_386_mem_modrm(mode, r, r1, scale, r2, ofs, ax))
<1> DEFINE cr == 8 * r.n
<1>1. cr \in Int
  OBVIOUS
<1> HIDE DEF cr
<1>2. NoReg.n \in Int
  BY DEF NoReg, Reg
<1>3. Typed(_386_direct(mode, r, ofs))
  <2>1. Typed(_386_mem_sib(mode, cr, NoReg, 0, NoReg, ofs))
    BY <1>1, <1>2, SibTyped
  <2>2. ModRM(0, cr, 5) \o Putdw(ofs) \in Code
    BY <1>1, ModRMTyped, PutsTyped, PutTyped
  <2> QED
    BY <2>1, <2>2, ResTyped DEF _386_direct, cr
<1>4. Typed(_386_special(AxOfs(mode, r, ofs, ax), _386_direct(mode, r, ofs)))
  BY <1>3, AxTyped, ResTyped DEF _386_special
<1>5. Typed(_386_mem_sib(mode, cr, r1, scale, r2, ofs))
  BY <1>1, SibTyped
<1>6. /\ ModRM(0, cr, r1.n) \in Code
      /\ ModRM(1, cr, r1.n) \o Putc(ofs) \in Code
      /\ ModRM(2, cr, r1.n) \o Putdw(ofs) \in Code
  BY <1>1, ModRMTyped, PutsTyped, PutTyped
<1> QED
  BY <1>3, <1>4, <1>5, <1>6, ResTyped DEF _386_mem_modrm, cr

LEMMA PrefixTyped ==
  ASSUME NEW e, NEW z, NEW r1z, NEW r, NEW c8 \in Int, NEW c32 \in Int
  PROVE  SizePrefixes(e, z, r1z, c8, c32) \in Code /\ Opcode(r, c8, c32) \in Code /\ SizePrefix(e, z) \in Code
<1>1. Putc(102) \in Code /\ Putc(103) \in Code /\ Putc(72) \in Code /\ Putc(c8) \in Code /\ Putc(c32) \in Code
  BY PutsTyped
<1> QED
  BY <1>1, PutTyped DEF SizePrefixes, Opcode, SizePrefix

LEMMA ModrmTyped ==
  ASSUME NEW e, EnvTyped(e), NEW rm, RmTyped(rm), rm.opr \in {"reg", "mem", "imm", "cr"},
         NEW r, r.n \in Int, NEW c8 \in Int, NEW c32 \in Int
  PROVE  Typed(bctx_modrm(e, rm, r, c8, c32))
<1>1. ASSUME rm.opr = "reg"
      PROVE  Typed(RegForm(e, rm, r, c8, c32))
  <2>1. rm.r.n \in Int
    BY <1>1 DEF RmTyped, Regs
  <2>2. Putc(192 + 8 * r.n + rm.r.n) \in Code
    BY <2>1, PutsTyped
  <2>3. Putc(102) \in Code /\ Putc(72) \in Code /\ Opcode(r, c8, c32) \in Code
    BY PutsTyped, PrefixTyped
  <2> QED
    BY <2>2, <2>3, PutTyped, ResTyped DEF RegForm
<1>2. ASSUME rm.opr # "reg"
      PROVE  Typed(MemForm(e, rm, r, c8, c32))
  <2>1. /\ First(rm).n \in Int /\ Second(rm).n \in Int
        /\ rm.seg \in Int /\ ToInt32(rm.ofs) \in Int /\ e.ax.ofs \in Int
    BY <1>2, ToInt32Int DEF RmTyped, First, Second, NoReg, Reg, EnvTyped
  <2> DEFINE front == When(rm.seg # 0, Putc(rm.seg))
                      \o SizePrefixes(e, r.z, First(rm).z, c8, c32) \o Opcode(r, c8, c32)
  <2>2. front \in Code
    BY <2>1, PutsTyped, PutTyped, PrefixTyped
  <2>3. /\ Typed(_x86_mem_modrm(e.mode, r, First(rm), Second(rm), ToInt32(rm.ofs), e.ax))
        /\ Typed(_386_mem_modrm(e.mode, r, First(rm), ScaleOf(rm), Second(rm), ToInt32(rm.ofs), e.ax))
    BY <2>1, ShortTyped, LongTyped
  <2> HIDE DEF front
  <2>4. /\ Typed(Fail(front)) /\ Typed(Rejected)
        /\ Typed(GoBack(Before(front, _x86_mem_modrm(e.mode, r, First(rm), Second(rm), ToInt32(rm.ofs), e.ax))))
        /\ Typed(GoBack(Before(front, _386_mem_modrm(e.mode, r, First(rm), ScaleOf(rm), Second(rm), ToInt32(rm.ofs), e.ax))))
    BY <2>2, <2>3, ResTyped
  <2> QED
    BY <2>4 DEF MemForm, front
<1> QED
  BY <1>1, <1>2 DEF bctx_modrm

(* The handlers. *)
LEMMA RmCrTyped ==
  ASSUME NEW e, EnvTyped(e), NEW rm, RmTyped(rm), NEW cr \in Int, NEW c8 \in Int, NEW c32 \in Int
  PROVE  Typed(_opr2_rm_cr(e, rm, cr, c8, c32))
<1>1. _try_rm_size(rm) # 0 => rm.opr \in {"reg", "mem"}
  BY DEF _try_rm_size
<1>2. Reg(_try_rm_size(rm), cr).n \in Int
  BY DEF Reg
<1> QED
  BY <1>1, <1>2, ModrmTyped, ResTyped DEF _opr2_rm_cr

LEMMA MulTyped == ASSUME NEW e, EnvTyped(e), NEW rm, RmTyped(rm)
                  PROVE  Typed(bctx_inst_mul(e, rm))
  BY RmCrTyped DEF bctx_inst_mul

LEMMA IncTyped ==
  ASSUME NEW e, EnvTyped(e), NEW rm, RmTyped(rm), NEW dec \in 0..1
  PROVE  Typed(bctx_inst_inc(e, rm, dec))
<1>1. Typed(_opr2_rm_cr(e, rm, dec, 254, 255))
  BY RmCrTyped
<1>2. ASSUME rm.opr = "reg"
      PROVE  Typed(Done(SizePrefix(e, rm.r.z) \o Putc(64 + 8 * dec + rm.r.n)))
  <2>1. 64 + 8 * dec + rm.r.n \in Int
    BY <1>2 DEF RmTyped, Regs
  <2>2. SizePrefix(e, rm.r.z) \in Code
    BY PrefixTyped
  <2> QED
    BY <2>1, <2>2, PutsTyped, PutTyped, ResTyped
<1> QED
  BY <1>1, <1>2, ResTyped DEF bctx_inst_inc, Is

LEMMA SalTyped ==
  ASSUME NEW e, EnvTyped(e), NEW a, RmTyped(a), NEW b, RmTyped(b), NEW cr \in Int
  PROVE  Typed(bctx_inst_sal(e, a, b, cr))
<1>1. CountOf(b) \in Int
  BY DEF CountOf, RmTyped
<1>2. Typed(_opr2_rm_cr(e, a, cr, 208, 209)) /\ Typed(_opr2_rm_cr(e, a, cr, 192, 193))
  BY RmCrTyped
<1>3. Putc(CountOf(b)) \in Code
  BY <1>1, PutsTyped
<1>4. Typed(Then(_opr2_rm_cr(e, a, cr, 192, 193), Putc(CountOf(b))))
  BY <1>2, <1>3, ResTyped
<1> QED
  BY <1>2, <1>4, ResTyped DEF bctx_inst_sal

LEMMA AddTyped ==
  ASSUME NEW e, EnvTyped(e), NEW a, RmTyped(a), NEW b, RmTyped(b), NEW opt \in 0..7,
         a.opr = "mem" => a.psz \in {0, 8, 16, 32, 64}
  PROVE  Typed(bctx_inst_add(e, a, b, opt))
<1>1. \A z : Reg(z, opt).n \in Int
  BY DEF Reg
<1>2. 8 * opt \in Int /\ 8 * opt + 1 \in Int /\ 8 * opt + 2 \in Int /\ 8 * opt + 3 \in Int
      /\ 8 * opt + 4 \in Int /\ 8 * opt + 5 \in Int
  OBVIOUS
<1>3. ASSUME a.opr = "reg", b.opr = "imm"
      PROVE  Typed(AddRegImm(e, a, b.ofs, opt))
  <2>1. a.r.z \in {8, 16, 32, 64} /\ e.mode \in {8, 16, 32, 64} /\ b.ofs \in Int
    BY <1>3 DEF RmTyped, Regs, EnvTyped, Modes
  <2>2. /\ Typed(bctx_modrm(e, a, Reg(a.r.z, opt), 128, 131))
        /\ Typed(bctx_modrm(e, a, Reg(e.mode, opt), 128, 129))
    BY <1>1, <1>3, ModrmTyped
  <2>3. Typed(Done(Putc(8 * opt + 4)))
    BY <1>2, PutsTyped, ResTyped
  <2>4. Typed(Done(SizePrefix(e, a.r.z) \o When(a.r.z = 64, Putc(72))
                   \o Putc(8 * opt + (IF a.r.z = 8 THEN 4 ELSE 5))))
    <3>1. SizePrefix(e, a.r.z) \in Code /\ Putc(72) \in Code
      BY PrefixTyped, PutsTyped
    <3>2. Putc(8 * opt + (IF a.r.z = 8 THEN 4 ELSE 5)) \in Code
      BY PutsTyped
    <3> QED
      BY <3>1, <3>2, PutTyped, ResTyped
  <2>5. 8 \in {8, 16, 32, 64}
    OBVIOUS
  <2> QED
    BY <2>1, <2>2, <2>3, <2>4, <2>5, AppendTyped, ResTyped DEF AddRegImm
<1>4. ASSUME a.opr = "mem", b.opr = "imm"
      PROVE  Typed(AddMemImm(e, a, b.ofs, opt))
  <2> DEFINE z == IF a.psz # 0 THEN a.psz ELSE e.mode
             c32 == IF InInt8(b.ofs) THEN 131 ELSE 129
  <2>1. z \in {8, 16, 32, 64} /\ c32 \in Int /\ b.ofs \in Int
    BY <1>4 DEF RmTyped, EnvTyped, Modes
  <2>2. AddMemImm(e, a, b.ofs, opt) = _append_imm(bctx_modrm(e, a, Reg(z, opt), 128, c32), z, b.ofs)
    BY DEF AddMemImm
  <2> HIDE DEF z, c32
  <2> DEFINE m == bctx_modrm(e, a, Reg(z, opt), 128, c32)
  <2>3. Typed(m)
    BY <1>1, <1>4, <2>1, ModrmTyped
  <2> HIDE DEF m
  <2>4. ASSUME NEW w \in {8, 16, 32, 64}, NEW v \in Int
        PROVE  Typed(_append_imm(m, w, v))
    BY <2>3, AppendTyped
  <2>5. Typed(_append_imm(m, z, b.ofs))
    BY <2>1, <2>4
  <2> QED
    BY <2>2, <2>5 DEF m
<1>5. ASSUME a.opr \in {"reg", "mem"}, b.opr = "reg"
      PROVE  Typed(bctx_modrm(e, a, b.r, 8 * opt, 8 * opt + 1))
  BY <1>2, <1>5, ModrmTyped DEF RmTyped, Regs
<1>6. ASSUME a.opr = "reg", b.opr = "mem"
      PROVE  Typed(bctx_modrm(e, b, a.r, 8 * opt + 2, 8 * opt + 3))
  BY <1>2, <1>6, ModrmTyped DEF RmTyped, Regs
<1> QED
  BY <1>3, <1>4, <1>5, <1>6, ResTyped DEF bctx_inst_add, Is

LEMMA LeaTyped == ASSUME NEW e, EnvTyped(e), NEW a, RmTyped(a), NEW b, RmTyped(b)
                  PROVE  Typed(bctx_inst_lea(e, a, b))
<1>1. ASSUME a.opr = "reg", b.opr = "mem"
      PROVE  Typed(bctx_modrm(e, b, a.r, 142, 141))
  BY <1>1, ModrmTyped DEF RmTyped, Regs
<1> QED
  BY <1>1, ResTyped DEF bctx_inst_lea, Is

LEMMA MovSegTyped ==
  ASSUME NEW e, EnvTyped(e), NEW inv_cmd \in 0..1, NEW rm, RmTyped(rm), rm.opr \in {"reg", "mem", "imm", "cr"},
         NEW seg \in 1..6
  PROVE  Typed(MovSeg(e, inv_cmd, rm, seg))
<1> DEFINE op == IF inv_cmd = 1 THEN 140 ELSE 142
           locked == [e EXCEPT !.lock = e.lock \/ e.mode = 32]
<1>1. op \in Int /\ Reg(16, seg - 1).n \in Int
  BY DEF Reg
<1>2. EnvTyped(locked)
  BY DEF EnvTyped
<1>3. MovSeg(e, inv_cmd, rm, seg) = bctx_modrm(locked, rm, Reg(16, seg - 1), op, op)
  BY DEF MovSeg
<1> HIDE DEF op, locked
<1> QED
  BY <1>1, <1>2, <1>3, ModrmTyped

LEMMA MovRmrTyped ==
  ASSUME NEW e, EnvTyped(e), NEW inv_cmd \in 0..1, NEW rm, RmTyped(rm), rm.opr \in {"reg", "mem", "imm"},
         NEW r \in Regs
  PROVE  Typed(_mov_rmr(e, inv_cmd, rm, r))
<1> DEFINE op == IF inv_cmd = 1 THEN 138 ELSE 136
           moffs == IF inv_cmd = 1 THEN 160 ELSE 162
           ax == [e EXCEPT !.ax = Ax(rm.ofs)]
<1>1. op \in Int /\ op + 1 \in Int /\ moffs \in Int /\ moffs + 1 \in Int /\ r.n \in Int
  BY DEF Regs
<1>2. ASSUME Direct(rm)
      PROVE  EnvTyped(ax)
  BY <1>2 DEF EnvTyped, Direct, Ax, RmTyped
<1>3. _mov_rmr(e, inv_cmd, rm, r) =
        CASE r.z = 64 /\ e.mode # 64 -> Rejected
          [] (r.z = 64 => e.mode = 64) /\ Direct(rm) /\ Acc(r) ->
               IF r.z = 64 THEN bctx_modrm(ax, rm, r, op, op + 1)
                           ELSE bctx_modrm(ax, rm, r, moffs, moffs + 1)
          [] OTHER -> bctx_modrm(e, rm, r, op, op + 1)
  BY DEF _mov_rmr
<1> HIDE DEF op, moffs, ax
<1>4. Typed(bctx_modrm(e, rm, r, op, op + 1))
  BY <1>1, ModrmTyped
<1>5. ASSUME Direct(rm)
      PROVE  Typed(bctx_modrm(ax, rm, r, op, op + 1)) /\ Typed(bctx_modrm(ax, rm, r, moffs, moffs + 1))
  BY <1>1, <1>2, <1>5, ModrmTyped
<1> QED
  BY <1>3, <1>4, <1>5, ResTyped

LEMMA RmImmTyped ==
  ASSUME NEW e, EnvTyped(e), NEW rm, RmTyped(rm), NEW v \in Int
  PROVE  Typed(_rm_imm(e, rm, v))
<1>1. Putc(v) \in Code /\ Putw(v) \in Code /\ Putdw(v) \in Code /\ Putqw(v) \in Code /\ Putc(72) \in Code
  BY PutsTyped
<1>2. ASSUME rm.opr = "reg"
      PROVE  Typed(RegImm(e, rm.r, v))
  <2>1. rm.r \in Regs
    BY <1>2 DEF RmTyped
  <2>2. Putc(176 + rm.r.n) \in Code /\ Putc(184 + rm.r.n) \in Code /\ SizePrefix(e, rm.r.z) \in Code
    BY <2>1, PutsTyped, PrefixTyped DEF Regs
  <2>3. ASSUME rm.r.z \in {16, 32}
        PROVE  Put(rm.r.z \div 8, v) \in Code
    <3>1. rm.r.z \div 8 \in {1, 2, 4, 8}
      BY <2>3
    <3> QED
      BY <3>1, PutTyped
  <2> QED
    BY <1>1, <2>2, <2>3, PutTyped, ResTyped DEF RegImm
<1>3. ASSUME rm.opr = "mem"
      PROVE  Typed(MemImm(e, rm, v))
  <2> DEFINE z == _try_rm_size(rm)
             m == bctx_modrm(e, rm, Reg(z, 0), 198, 199)
  <2>1. Reg(z, 0).n \in Int
    BY DEF Reg
  <2>2. Typed(m)
    BY <1>3, <2>1, ModrmTyped
  <2>3. MemImm(e, rm, v) = IF z = 0 \/ (z = 64 /\ e.mode # 64) THEN Rejected ELSE PutImm(e, z, v, m)
    BY DEF MemImm
  <2> HIDE DEF z, m
  <2>4. Typed(Fail(m.out))
    BY <2>2, ResTyped DEF Typed
  <2>5. Typed(PutImm(e, z, v, m))
    BY <1>1, <2>2, <2>4, ResTyped DEF PutImm
  <2> QED
    BY <2>3, <2>5, ResTyped
<1> QED
  BY <1>2, <1>3, ResTyped DEF _rm_imm, Is

LEMMA RegCrTyped ==
  ASSUME NEW e, NEW c, NEW rm, rm.r \in Regs, NEW cr \in Int
  PROVE  Typed(_reg_cr(e, c, rm, cr))
<1>1. Putc(15) \in Code /\ Putc(IF c = 1 THEN 32 ELSE 34) \in Code /\ Putc(192 + 8 * cr + rm.r.n) \in Code
  BY PutsTyped DEF Regs
<1> QED
  BY <1>1, PutTyped, ResTyped DEF _reg_cr

LEMMA MovTyped ==
  ASSUME NEW e, EnvTyped(e), NEW a, RmTyped(a), NEW b, RmTyped(b)
  PROVE  Typed(bctx_inst_mov(e, a, b))
<1>1. ASSUME a.opr = "reg", b.opr = "seg"  PROVE Typed(MovSeg(e, 1, a, b.seg))
  BY <1>1, MovSegTyped DEF RmTyped
<1>2. ASSUME b.opr = "imm"  PROVE Typed(_rm_imm(e, a, b.ofs))
  BY <1>2, RmImmTyped DEF RmTyped
<1>3. ASSUME a.opr = "reg", b.opr = "cr"  PROVE Typed(_reg_cr(e, 1, a, b.ofs))
  BY <1>3, RegCrTyped DEF RmTyped
<1>4. ASSUME a.opr = "reg", b.opr \in {"reg", "mem"}  PROVE Typed(_mov_rmr(e, 1, b, a.r))
  BY <1>4, MovRmrTyped DEF RmTyped
<1>5. ASSUME a.opr = "seg", b.opr \in {"reg", "mem", "imm", "cr"}  PROVE Typed(MovSeg(e, 0, b, a.seg))
  BY <1>5, MovSegTyped DEF RmTyped
<1>6. ASSUME a.opr = "cr", b.opr = "reg"  PROVE Typed(_reg_cr(e, 0, b, a.ofs))
  BY <1>6, RegCrTyped DEF RmTyped
<1>7. ASSUME a.opr \in {"mem", "imm"}, b.opr = "reg"  PROVE Typed(_mov_rmr(e, 0, a, b.r))
  BY <1>7, MovRmrTyped DEF RmTyped
<1>8. ASSUME a.opr \in {"mem", "imm", "cr"}, b.opr = "seg"  PROVE Typed(MovSeg(e, 1, a, b.seg))
  BY <1>8, MovSegTyped DEF RmTyped
<1> QED
  BY <1>1, <1>2, <1>3, <1>4, <1>5, <1>6, <1>7, <1>8, ResTyped DEF bctx_inst_mov, Is

LEMMA GdtTyped ==
  ASSUME NEW e, EnvTyped(e), NEW rm, RmTyped(rm), NEW idt \in 0..1
  PROVE  Typed(bctx_inst_lgdt(e, rm, idt)) /\ Typed(bctx_inst_ltr(e, rm))
<1>1. EnvTyped(Locked(e))
  BY DEF EnvTyped, Locked
<1>2. ASSUME NEW res, Typed(res)  PROVE Typed(Behind0F(res))
  BY <1>2, PutsTyped, ResTyped DEF Behind0F
<1>3. Reg(16, 3).n \in Int /\ Reg(IF e.mode = 64 THEN 64 ELSE 32, 2 + idt).n \in Int
  BY DEF Reg
<1>4. ASSUME rm.opr \in {"reg", "mem"}
      PROVE  /\ Typed(bctx_modrm(Locked(e), rm, Reg(16, 3), 0, 0))
             /\ Typed(bctx_modrm(Locked(e), rm, Reg(IF e.mode = 64 THEN 64 ELSE 32, 2 + idt), 1, 1))
  BY <1>1, <1>3, <1>4, ModrmTyped
<1> QED
  BY <1>2, <1>4, ResTyped DEF bctx_inst_lgdt, bctx_inst_ltr, LtrTakes, Is

LEMMA JumpTyped ==
  ASSUME NEW e, EnvTyped(e), NEW rm, RmTyped(rm), NEW near \in Int
  PROVE  Typed(Through(e, rm, near))
<1>1. Reg(e.mode, near).n \in Int /\ Reg(e.mode, near + 1).n \in Int
  BY DEF Reg
<1>2. ASSUME rm.opr \in {"reg", "mem"}, NEW c8 \in Int
      PROVE  /\ Typed(bctx_modrm(e, rm, Reg(e.mode, near), c8, 255))
             /\ Typed(bctx_modrm(e, rm, Reg(e.mode, near + 1), c8, 255))
  BY <1>1, <1>2, ModrmTyped
<1> QED
  BY <1>2, ResTyped DEF Through, Is

LEMMA NumbersTyped ==
  ASSUME NEW a, RmTyped(a), NEW b, RmTyped(b), NEW flag
  PROVE  Typed(bctx_inst_enter(a, b)) /\ Typed(bctx_inst_ret(a, flag)) /\ Typed(bctx_inst_int(a))
<1>1. (a.opr = "imm" => a.ofs \in Int) /\ (b.opr = "imm" => b.ofs \in Int)
  BY DEF RmTyped
<1>2. Typed(bctx_inst_enter(a, b))
  BY <1>1, PutsTyped, PutTyped, ResTyped DEF bctx_inst_enter, Is
<1>3. Typed(bctx_inst_ret(a, flag))
  <2>1. Putc(IF flag = 1 THEN 203 ELSE 195) \in Code
    BY PutsTyped
  <2>2. ASSUME a.opr = "imm", NEW far  PROVE Putc(IF far THEN 202 ELSE 194) \o Putw(a.ofs) \in Code
    BY <1>1, <2>2, PutsTyped, PutTyped
  <2> QED
    BY <2>1, <2>2, ResTyped DEF bctx_inst_ret, Is
<1>4. Typed(bctx_inst_int(a))
  BY <1>1, PutsTyped, PutTyped, ResTyped DEF bctx_inst_int, Is
<1> QED
  BY <1>2, <1>3, <1>4

LEMMA StackTyped ==
  ASSUME NEW e, EnvTyped(e), NEW a, RmTyped(a)
  PROVE  Typed(bctx_inst_push(e, a)) /\ Typed(bctx_inst_pop(e, a))
<1>1. ASSUME a.opr \in {"reg", "mem"}, NEW short \in Int, NEW long \in Int, NEW cr \in Int
      PROVE  Typed(Stack(e, a, short, long, cr))
  <2>1. \A z : Reg(z, cr).n \in Int
    BY DEF Reg
  <2>2. a.opr = "reg" => Typed(Done(Putc(short + a.r.n)))
    BY PutsTyped, ResTyped DEF RmTyped, Regs
  <2>3. \A z : Typed(bctx_modrm(e, a, Reg(z, cr), long, long))
    BY <1>1, <2>1, ModrmTyped
  <2> QED
    BY <2>2, <2>3, ResTyped DEF Stack, Is
<1>2. ASSUME a.opr = "imm"
      PROVE  Typed(PushImm(e, a))
  <2>1. Putc(106) \in Code /\ Putc(104) \in Code /\ Putc(a.ofs) \in Code /\ Putw(a.ofs) \in Code
        /\ Putdw(a.ofs) \in Code
    BY <1>2, PutsTyped DEF RmTyped
  <2> QED
    BY <2>1, PutTyped, ResTyped DEF PushImm
<1>3. ASSUME a.opr = "seg"
      PROVE  Typed(StackSeg(e, a.seg, PushSeg)) /\ Typed(StackSeg(e, a.seg, PopSeg))
  <2>1. a.seg \in 1..6
    BY <1>3 DEF RmTyped
  <2>2. \A s \in 1..6 : PushSeg[s] \in Code /\ PopSeg[s] \in Code
    <3>1. /\ Putc(6) \in Code /\ Putc(14) \in Code /\ Putc(22) \in Code /\ Putc(30) \in Code /\ Putc(15) \in Code
          /\ Putc(160) \in Code /\ Putc(168) \in Code
      BY PutsTyped
    <3>2. /\ Putc(7) \in Code /\ Putc(23) \in Code /\ Putc(31) \in Code /\ Putc(161) \in Code
          /\ Putc(169) \in Code /\ <<>> \in Code
      BY PutsTyped, PutTyped
    <3>3. /\ Putc(15) \o Putc(160) \in Code /\ Putc(15) \o Putc(168) \in Code
          /\ Putc(15) \o Putc(161) \in Code /\ Putc(15) \o Putc(169) \in Code
      BY <3>1, <3>2, PutTyped
    <3>4. /\ PushSeg[1] = Putc(6) /\ PushSeg[2] = Putc(14) /\ PushSeg[3] = Putc(22) /\ PushSeg[4] = Putc(30)
          /\ PushSeg[5] = Putc(15) \o Putc(160) /\ PushSeg[6] = Putc(15) \o Putc(168)
      BY DEF PushSeg
    <3>5. /\ PopSeg[1] = Putc(7) /\ PopSeg[2] = <<>> /\ PopSeg[3] = Putc(23) /\ PopSeg[4] = Putc(31)
          /\ PopSeg[5] = Putc(15) \o Putc(161) /\ PopSeg[6] = Putc(15) \o Putc(169)
      BY DEF PopSeg
    <3> SUFFICES ASSUME NEW s \in 1..6
                 PROVE  PushSeg[s] \in Code /\ PopSeg[s] \in Code
      OBVIOUS
    <3>6. s = 1 \/ s = 2 \/ s = 3 \/ s = 4 \/ s = 5 \/ s = 6
      OBVIOUS
    <3>7. /\ PushSeg[1] \in Code /\ PushSeg[2] \in Code /\ PushSeg[3] \in Code
          /\ PushSeg[4] \in Code /\ PushSeg[5] \in Code /\ PushSeg[6] \in Code
      BY <3>1, <3>3, <3>4
    <3>8. /\ PopSeg[1] \in Code /\ PopSeg[2] \in Code /\ PopSeg[3] \in Code
          /\ PopSeg[4] \in Code /\ PopSeg[5] \in Code /\ PopSeg[6] \in Code
      BY <3>1, <3>2, <3>3, <3>5
    <3> QED
      BY <3>6, <3>7, <3>8
  <2> QED
    BY <2>1, <2>2, ResTyped DEF StackSeg
<1>4. a.opr \in {"reg", "mem"} => Typed(Stack(e, a, 80, 255, 6)) /\ Typed(Stack(e, a, 88, 143, 0))
  BY <1>1
<1> QED
  BY <1>2, <1>3, <1>4, ResTyped DEF bctx_inst_push, bctx_inst_pop, Is

LEMMA OutTyped ==
  ASSUME NEW e, NEW a, RmTyped(a), NEW b, RmTyped(b), NEW flag
  PROVE  Typed(bctx_inst_out(e, a, b, flag))
<1>1. ASSUME NEW port, RmTyped(port), NEW r, NEW op \in Int
      PROVE  Typed(PortIO(e, port, r, op))
  <2> DEFINE sized == op + (IF r.r.z = 8 THEN 0 ELSE 1)
  <2>3. sized \in Int /\ sized + 8 \in Int
    OBVIOUS
  <2> HIDE DEF sized
  <2>4. SizePrefix(e, r.r.z) \in Code
    BY PrefixTyped
  <2>5. ASSUME port.opr = "imm"
        PROVE  Putc(port.ofs) \in Code
    <3>1. port.ofs \in Int
      BY <1>1, <2>5 DEF RmTyped
    <3> QED
      BY <3>1, PutsTyped
  <2>1. SizePrefix(e, r.r.z) \in Code /\ Putc(sized) \in Code /\ Putc(sized + 8) \in Code
        /\ (port.opr = "imm" => Putc(port.ofs) \in Code)
    BY <2>3, <2>4, <2>5, PutsTyped
  <2>2. /\ port.opr = "imm" => Typed(Done(SizePrefix(e, r.r.z) \o Putc(sized) \o Putc(port.ofs)))
        /\ Typed(Done(SizePrefix(e, r.r.z) \o Putc(sized + 8)))
    BY <2>1, PutTyped, ResTyped
  <2> QED
    BY <2>2, ResTyped DEF PortIO, Is, sized
<1> QED
  BY <1>1 DEF bctx_inst_out

LEMMA PlainTyped ==
  ASSUME NEW e, NEW m \in DOMAIN Plain
  PROVE  Typed(PutPlain(e, m))
<1>1. Plain[m] \in Int
  BY DEF Plain
<1> QED
  BY <1>1, PutsTyped, PutTyped, ResTyped DEF PutPlain

(* An opcode by its key is a number. *)
LEMMA OptionsTyped == /\ \A m \in DOMAIN SalCr : SalCr[m] \in 0..7
                      /\ \A m \in DOMAIN AddOpt : AddOpt[m] \in 0..7
  BY DEF SalCr, AddOpt

(* The operands of a line. *)
LEMMA OpdTyped == \A o \in Opds({0, 8, 16, 32, 64, 48}) : RmTyped(o)
  BY DEF Opds, RmTyped, Undef, RegOpd, SegOpd, Addresses, NoReg, Reg, Regs

LEMMA LineTyped ==
  ASSUME NEW mode \in Modes, NEW l \in Lines[mode]
  PROVE  /\ RmTyped(l.a) /\ RmTyped(l.b)
         /\ l.m \notin {"call", "jmp"} /\ l.a.opr = "mem" => l.a.psz \in {0, 8, 16, 32, 64}
<1>1. {l.a, l.b} \subseteq Opds({0, 8, 16, 32, 64} \cup (IF l.m \in {"call", "jmp"} THEN {48} ELSE {}))
  BY LinesAssumption
<1>2. CASE l.m \in {"call", "jmp"}
  <2>1. {0, 8, 16, 32, 64} \cup {48} = {0, 8, 16, 32, 64, 48}
    OBVIOUS
  <2> QED
    BY <1>1, <1>2, <2>1, OpdTyped
<1>3. CASE l.m \notin {"call", "jmp"}
  <2>1. {0, 8, 16, 32, 64} \cup {} = {0, 8, 16, 32, 64}
    OBVIOUS
  <2>2. l.a \in Opds({0, 8, 16, 32, 64}) /\ l.b \in Opds({0, 8, 16, 32, 64})
    BY <1>1, <1>3, <2>1
  <2>3. ASSUME NEW o \in Opds({0, 8, 16, 32, 64})
        PROVE  RmTyped(o) /\ (o.opr = "mem" => o.psz \in {0, 8, 16, 32, 64})
    <3>1. o \in Opds({0, 8, 16, 32, 64, 48})
      BY <2>3 DEF Opds
    <3>2. o.opr = "mem" => o.psz \in {0, 8, 16, 32, 64}
      BY <2>3 DEF Opds, Undef, RegOpd, SegOpd
    <3> QED
      BY <3>1, <3>2, OpdTyped
  <2>4. RmTyped(l.a) /\ (l.a.opr = "mem" => l.a.psz \in {0, 8, 16, 32, 64}) /\ RmTyped(l.b)
    BY <2>2, <2>3
  <2> QED
    BY <1>3, <2>4
<1> QED
  BY <1>2, <1>3

(* What a handler puts for a line is a sequence of units. *)
LEMMA ResultTyped ==
  ASSUME NEW e, EnvTyped(e), NEW l \in Lines[e.mode],
         l.m \in {"inc", "dec", "lea", "mul", "mov", "lgdt", "lidt", "ltr", "enter", "call", "jmp", "ret", "retf",
                 "int", "push", "pop", "in", "out"} \cup DOMAIN SalCr \cup DOMAIN AddOpt \cup DOMAIN Plain
  PROVE  Typed(Result(e, l))
<1>1. /\ DOMAIN SalCr = {"rol", "ror", "rcl", "rcr", "sal", "shl", "shr", "sar"}
      /\ DOMAIN AddOpt = {"add", "or", "and", "sub", "xor", "cmp"}
      /\ DOMAIN Plain = {"cli", "sti", "leave", "iret", "iretd", "iretq", "pusha", "pushad", "popa", "popad"}
  BY DEF SalCr, AddOpt, Plain
<1>2. /\ RmTyped(l.a) /\ RmTyped(l.b)
      /\ l.m \notin {"call", "jmp"} /\ l.a.opr = "mem" => l.a.psz \in {0, 8, 16, 32, 64}
  BY LineTyped DEF EnvTyped
<1>3. ASSUME l.m \in {"inc", "dec"}
      PROVE  Typed(bctx_inst_inc(e, l.a, IF l.m = "dec" THEN 1 ELSE 0))
  BY <1>2, IncTyped
<1>4. ASSUME l.m \in DOMAIN SalCr
      PROVE  Typed(bctx_inst_sal(e, l.a, l.b, SalCr[l.m]))
  <2>1. SalCr[l.m] \in Int
    BY <1>4, OptionsTyped
  <2> QED
    BY <1>2, <2>1, SalTyped
<1>5. ASSUME l.m \in DOMAIN AddOpt
      PROVE  Typed(bctx_inst_add(e, l.a, l.b, AddOpt[l.m]))
  <2>1. AddOpt[l.m] \in 0..7 /\ l.m \notin {"call", "jmp"}
    BY <1>1, <1>5, OptionsTyped
  <2> QED
    BY <1>2, <2>1, AddTyped
<1>6. Typed(bctx_inst_lea(e, l.a, l.b)) /\ Typed(bctx_inst_mov(e, l.a, l.b))
  BY <1>2, LeaTyped, MovTyped
<1>7. Typed(bctx_inst_mul(e, l.a))
  BY <1>2, MulTyped
<1>8. Typed(bctx_inst_lgdt(e, l.a, IF l.m = "lidt" THEN 1 ELSE 0)) /\ Typed(bctx_inst_ltr(e, l.a))
  BY <1>2, GdtTyped
<1>9. Typed(Through(e, l.a, IF l.m = "call" THEN 2 ELSE 4))
  BY <1>2, JumpTyped
<1>10. Typed(bctx_inst_enter(l.a, l.b)) /\ Typed(bctx_inst_int(l.a))
       /\ Typed(bctx_inst_ret(l.a, IF l.m = "retf" THEN 1 ELSE 0))
  BY <1>2, NumbersTyped
<1>11. Typed(bctx_inst_push(e, l.a)) /\ Typed(bctx_inst_pop(e, l.a))
  BY <1>2, StackTyped
<1>12. Typed(bctx_inst_out(e, l.a, l.b, IF l.m = "in" THEN 1 ELSE 0))
  BY <1>2, OutTyped
<1>13. ASSUME l.m \in DOMAIN Plain  PROVE Typed(PutPlain(e, l.m))
  BY <1>13, PlainTyped
<1>14. CASE l.m \in DOMAIN Plain
  BY <1>1, <1>13, <1>14 DEF Result
<1>15. CASE l.m \in DOMAIN SalCr
  BY <1>1, <1>4, <1>15 DEF Result
<1>16. CASE l.m \in DOMAIN AddOpt
  BY <1>1, <1>5, <1>16 DEF Result
<1>17. CASE l.m \in {"inc", "dec"}
  BY <1>1, <1>3, <1>17 DEF Result
<1>18. CASE l.m \in {"lea", "mul", "mov", "lgdt", "lidt", "ltr", "enter", "call", "jmp"}
  BY <1>1, <1>6, <1>7, <1>8, <1>9, <1>10, <1>18 DEF Result
<1>19. CASE l.m \in {"ret", "retf", "int", "push", "pop", "in", "out"}
  BY <1>1, <1>10, <1>11, <1>12, <1>19 DEF Result
<1> QED
  BY <1>14, <1>15, <1>16, <1>17, <1>18, <1>19

(* Between two lines there is no line and no code, so that BITS and the next *)
(* pass take no line into another mode.                                      *)
Between == phase = "idle" => inst = NoLine /\ code = <<>>
OneLine == phase = "read" => inst \in Lines[xmode]

(* The context is well typed and what a line puts is a sequence of units of   *)
(* one, two, four or eight bytes, whatever the operands: no encoding runs    *)
(* outside the tables, and no line is taken into another mode.               *)
THEOREM CodeTyped == Spec => []TypeOK
<1> DEFINE IInv == TypeOK /\ Between /\ OneLine
<1>4. NoAx \in [set : BOOLEAN, ofs : Int]
  BY DEF NoAx
<1>5. <<>> \in Seq(Units)
  OBVIOUS
<1>1. Init => IInv
  BY <1>4, <1>5 DEF Init, TypeOK, Between, OneLine, Modes
<1>2. IInv /\ [Next]_vars => IInv'
  <2> SUFFICES ASSUME IInv, [Next]_vars
               PROVE  IInv'
    OBVIOUS
  <2> USE DEF TypeOK, Between, OneLine
  <2>1. CASE ReadLine
    BY <2>1 DEF ReadLine, Read
  <2>2. CASE Handle
    <3>1. EnvTyped(Env) /\ Env.mode = xmode
      BY DEF EnvTyped, Env
    <3>2. inst \in Lines[Env.mode]
      BY <2>2, <3>1 DEF Handle
    <3>3. Typed(Result(Env, inst))
      BY <2>2, <3>1, <3>2, ResultTyped
      DEF Handle, Leave, Inc, Sal, Add, Lea, Mul, Mov, Lgdt, Ltr, Enter, CallJmp, Ret, IntN, Push, Pop, InOut, NoOperand
    <3>4. code' \in Seq(Units)
      BY <2>2, <3>3 DEF Handle, Returns, Typed, Code
    <3>5. phase' \in {"ok", "bad"} /\ UNCHANGED <<xmode, pass_need_more, inst>>
      BY <2>2 DEF Handle, Returns
    <3>6. lock_prefix' \in BOOLEAN /\ spec_ax' \in [set : BOOLEAN, ofs : Int]
      <4>1. CASE Mov
        BY <1>4, <4>1 DEF Mov
      <4>2. CASE Lgdt \/ Ltr
        BY <4>2 DEF Lgdt, Ltr
      <4>3. CASE Keeps
        BY <4>3 DEF Keeps
      <4> QED
        BY <2>2, <4>1, <4>2, <4>3 DEF Handle, Leave, Inc, Sal, Add, Lea, Mul, Enter, CallJmp, Ret, IntN, Push, Pop,
                                      InOut, NoOperand
    <3> QED
      BY <3>4, <3>5, <3>6
  <2>3. CASE EndLine
    BY <2>3, PutTyped DEF EndLine, Code
  <2>4. CASE Bits
    BY <2>4 DEF Bits
  <2>5. CASE NextPass
    BY <2>5, <1>4 DEF NextPass, Modes
  <2>6. CASE UNCHANGED vars
    BY <2>6 DEF vars
  <2> QED
    BY <2>1, <2>2, <2>3, <2>4, <2>5, <2>6 DEF Next
<1>3. IInv => TypeOK
  OBVIOUS
<1> QED
  BY <1>1, <1>2, <1>3, PTL DEF Spec
=============================================================================

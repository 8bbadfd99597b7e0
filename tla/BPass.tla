------------------------------- MODULE BPass -------------------------------
(***************************************************************************)
(* The multi-pass driver of the assembler: bctx_start (bctx.c) runs        *)
(* bctx_cmd_line (bsyntax.c) over the whole source, once per pass, until a *)
(* pass ends in which no symbol was missing or changed its value; then the *)
(* output stream is saved.                                                 *)
(*                                                                         *)
(* A source file is a sequence of statements.  One action is one call of   *)
(* bctx_cmd_line, that is one handler: a label, an EQU, one term of a      *)
(* DB/DW/DD/DQ, a branch, ORG, ALIGN, BITS, TIMES, REP, a string           *)
(* instruction, the end of a line.  `name db 1,2' is written as the three  *)
(* statements the handler goes through: label, data, data.                 *)
(*                                                                         *)
(* Bytes are abstracted to where they are (offset and length) and to the   *)
(* value of the operand they encode.  scan is a history variable: what the *)
(* current pass defined, evaluated and emitted.                            *)
(***************************************************************************)
EXTENDS Integers, Sequences

CONSTANTS
  Syms,      \* names a source may define
  Programs,  \* the sources to assemble
  PassWrap,  \* pass_idx is a uint8_t: it wraps at 256
  CountMod,  \* times_count is a uint32_t: TIMES reduces its operand mod 2^32
  CapUnit,   \* the first capacity of the stream, 4096
  CapQuad,   \* up to here, 1 MB, growing multiplies the capacity by four
  MemLimit   \* largest capacity realloc can provide

(***************************************************************************)
(* Operands.  c + pos - neg, where pos and neg are symbols, $ (the current *)
(* address), $$ (the start of the code) or nothing.                        *)
(***************************************************************************)
Dollar  == "$"
DDollar == "$$"
Nothing == "0"
Atoms   == Syms \cup {Dollar, DDollar, Nothing}
Expr    == [c : Int, pos : Atoms, neg : Atoms]

Relative   == {"jmp", "short", "near", "jcc", "loop", "call"}
Absolute   == {"farjmp", "farcall", "jcxz"}
Branches   == Relative \cup Absolute
ExprOps    == Branches \cup {"data", "equ", "times"}
OtherOps   == {"label", "str", "org", "align", "bits", "rep", "string", "eol", "end", "bad"}

(* One statement: its operation, the symbol it defines (or Nothing), its   *)
(* operand and a number (width of the data, length of the text, address,   *)
(* alignment, mode).                                                       *)
Item == [op : ExprOps \cup OtherOps, s : Syms \cup {Nothing}, e : Expr, n : Nat]

Defining == {"label", "equ"}

(* What may come next on a line.  bctx_parse_term reads up to the end of   *)
(* the line, a comma, or a DB, which it leaves to the line loop whoever's  *)
(* operand it was reading (bsyntax.c 1336-1342), unless it is _inst_db,    *)
(* which goes on with terms of one width and takes no second DB.           *)
MayFollow(a, b) ==
  \/ a.op \notin ExprOps \cup {"str"}
  \/ b.op \in {"eol", "end", "bad"}
  \/ a.op \in ExprOps \ {"data"} /\ b.op \in {"data", "str"}
  \/ a.op \in {"data", "str"} /\ b.op = "label"
  \/ a.op = "data" /\ b.op = "data" /\ b.n = a.n
  \/ a.op = "data" /\ a.n = 1 /\ b.op = "str"
  \/ a.op = "str" /\ b.op = "data" /\ b.n = 1
  \/ a.op = "str" /\ b.op = "str"

(* The sources: every definition names a symbol, data has a width, ALIGN   *)
(* takes a power of two, BITS one of the three modes, and the END token is *)
(* the last one and only that.                                             *)
WellFormed(p) ==
  /\ p \in Seq(Item)
  /\ Len(p) > 0
  /\ \A i \in 1..Len(p) :
       /\ p[i].op \in Defining => p[i].s \in Syms
       /\ p[i].op = "data" => p[i].n \in {1, 2, 4, 8}
       /\ p[i].op = "str" => p[i].n > 0
       /\ p[i].op = "align" => p[i].n \in {1, 2, 4, 8, 16}
       /\ p[i].op = "bits" => p[i].n \in {16, 32, 64}
       /\ (p[i].op = "end") <=> (i = Len(p))
       /\ i < Len(p) => MayFollow(p[i], p[i+1])

ASSUME SymsAssumption  == Syms \cap {Dollar, DDollar, Nothing} = {}
ASSUME ProgAssumption  == \A p \in Programs : WellFormed(p)
ASSUME BoundAssumption == /\ PassWrap \in Nat /\ PassWrap > 1
                          /\ CountMod \in Nat /\ CountMod > 1
                          /\ CapUnit \in Nat /\ CapUnit >= 16
                          /\ CapQuad \in Nat /\ MemLimit \in Nat

VARIABLES
  prog,         \* the source being assembled
  pc,           \* the statement bctx_cmd_line handles next
  status,       \* "run", or how bctx_start returned
  errs,         \* an error was printed (lex->errs > 0)
  pass_idx,     \* number of the pass, from 1
  need_more,    \* pass_need_more
  sym,          \* sym_map: the symbols defined so far, with their values
  xmode,        \* 16, 32 or 64
  pos, size, cap,   \* stm->pos, stm->size, stm->cap (0: stm->data is NULL)
  intact,       \* history: the stream holds what this pass has put there
  damaged,      \* history: memory outside the stream was read or written
  org_addr, org_ofs, code_start,
  times_start, times_count,
  rep_prefix,
  scan          \* history: what this pass has defined, evaluated, emitted

stmVars   == <<pos, size, cap, intact, damaged>>
orgVars   == <<org_addr, org_ofs, code_start>>
timesVars == <<times_start, times_count>>
vars == <<prog, pc, status, errs, pass_idx, need_more, sym, xmode, stmVars,
          orgVars, timesVars, rep_prefix, scan>>

-----------------------------------------------------------------------------
(***************************************************************************)
(* Evaluation of operands (_parse_key_expr, bctx_parse_term).              *)
(***************************************************************************)
Names(e) == {e.pos, e.neg} \cap Syms

(* The value of $ for a statement at offset ofs. *)
HereAt(ofs, org, base) == ofs + org - base

(* The value of an atom: a name that tab lacks has the value ph. *)
AtomVal(a, tab, here, start, ph) ==
  CASE a = Nothing -> 0
    [] a = Dollar  -> here
    [] a = DDollar -> start
    [] OTHER       -> IF a \in DOMAIN tab THEN tab[a] ELSE ph

Value(e, tab, here, start, ph) ==
  e.c + AtomVal(e.pos, tab, here, start, ph) - AtomVal(e.neg, tab, here, start, ph)

(* An unknown symbol stands for org_ofs, or for 1 when that is 0. *)
Placeholder == IF org_ofs # 0 THEN org_ofs ELSE 1

Operand(e) == Value(e, sym, HereAt(size, org_addr, org_ofs), code_start, Placeholder)

Resolved(e) == Names(e) \subseteq DOMAIN sym

(* Mutant: no placeholder even in the first pass. *)
CanEvalNever(e) == Resolved(e) \/ pass_idx < 1

(* The lookup succeeds, or this is the first pass and a later one is asked *)
(* for.                                                                    *)
CanEval(e) == Resolved(e) \/ pass_idx <= 1

(***************************************************************************)
(* Entries of scan: the statement at works on the stream at offset ofs,    *)
(* emits len bytes for the value val, with rel in its field if it is a      *)
(* branch; org, base and start are org_addr, org_ofs and code_start then.  *)
(***************************************************************************)
Entry(len, val, rel) ==
  [at |-> pc, ofs |-> size, len |-> len, val |-> val, rel |-> rel,
   org |-> org_addr, base |-> org_ofs, start |-> code_start]

(* Mutant: relative to the start of the branch. *)
RelOfsStart(val, ins_size) == val - org_addr - size + org_ofs

(* bctx_rel_ofs: the displacement of a branch of ins_size bytes. *)
RelOfs(val, ins_size) == val - org_addr - size + org_ofs - ins_size

(***************************************************************************)
(* The stream (bstream.h, bstream.c).  _bstream_grow_to picks the next     *)
(* capacity without regard to the one that is needed.  A put of an         *)
(* instruction or of a number is assumed to find its memory.               *)
(***************************************************************************)
NewCap(new_cap) ==
  IF cap < CapUnit THEN cap + CapUnit
  ELSE IF cap <= CapQuad THEN cap * 4
  ELSE (new_cap * 3) \div 2

CapFor(n) == IF cap >= n THEN cap ELSE NewCap(n)

(* The capacity that set_size(n) leaves: 0 when there is no memory. *)
Alloc(n) == IF cap >= n \/ NewCap(n) <= MemLimit THEN CapFor(n) ELSE 0

Least(m, n) == IF m <= n THEN m ELSE n

Emit(len, val, rel) ==
  /\ pos' = pos + len
  /\ size' = IF size < pos + len THEN pos + len ELSE size
  /\ cap' = IF len = 0 THEN cap ELSE CapFor(pos + len)
  /\ scan' = scan \cup {Entry(len, val, rel)}
  /\ UNCHANGED <<intact, damaged>>

Note(val) == scan' = scan \cup {Entry(0, val, 0)} /\ UNCHANGED stmVars

InInt8(n)  == -128 <= n /\ n <= 127
InInt16(n) == -32768 <= n /\ n <= 32767
InInt32(n) == -2147483647 - 1 <= n /\ n <= 2147483647

-----------------------------------------------------------------------------
Init ==
  /\ prog \in Programs
  /\ pc = 1 /\ status = "run" /\ errs = FALSE
  /\ pass_idx = 1 /\ need_more = FALSE
  /\ sym = [s \in {} |-> 0]
  /\ xmode = 32
  /\ pos = 0 /\ size = 0 /\ cap = CapUnit
  /\ intact = TRUE /\ damaged = FALSE
  /\ org_addr = 0 /\ org_ofs = 0 /\ code_start = 0
  /\ times_start = 0 /\ times_count = 0
  /\ rep_prefix = FALSE
  /\ scan = {}

(* bctx_cmd_line is about to handle a statement of kind op. *)
At(op) == status = "run" /\ pc <= Len(prog) /\ prog[pc].op = op

Advance == pc' = pc + 1 /\ UNCHANGED <<prog, status, errs, pass_idx>>

Stop(how) ==
  /\ status' = how /\ errs' = TRUE
  /\ UNCHANGED <<prog, pc, pass_idx, sym, xmode, stmVars, orgVars,
                 timesVars, rep_prefix, scan>>

(* Mutant: a changed value asks for no further pass. *)
EnsureSymbolOnce(s, val, missed) ==
  /\ sym' = [x \in DOMAIN sym \cup {s} |-> IF x = s THEN val ELSE sym[x]]
  /\ need_more' = (need_more \/ missed)

(* Mutant: a value that is the same asks for a further pass, too. *)
EnsureSymbolAlways(s, val, missed) ==
  /\ sym' = [x \in DOMAIN sym \cup {s} |-> IF x = s THEN val ELSE sym[x]]
  /\ need_more' = (need_more \/ missed \/ s \in DOMAIN sym)

(* bctx_ensure_symbol: a new symbol is entered, a different value replaces *)
(* the old one and asks for one more pass, the same value changes nothing. *)
(* missed: the value itself was computed from a missing symbol.            *)
EnsureSymbol(s, val, missed) ==
  /\ sym' = [x \in DOMAIN sym \cup {s} |-> IF x = s THEN val ELSE sym[x]]
  /\ need_more' = (need_more \/ missed \/ (s \in DOMAIN sym /\ sym[s] # val))

(* _parse_label *)
Label ==
  /\ At("label")
  /\ LET ofs == size + org_addr + org_ofs IN
       /\ EnsureSymbol(prog[pc].s, ofs, FALSE)
       /\ Note(ofs)
  /\ Advance
  /\ UNCHANGED <<xmode, orgVars, timesVars, rep_prefix>>

(* _pinst_equ *)
Equ ==
  /\ At("equ")
  /\ LET e == prog[pc].e IN
       /\ CanEval(e)
       /\ EnsureSymbol(prog[pc].s, Operand(e), ~Resolved(e))
       /\ Note(Operand(e))
  /\ Advance
  /\ UNCHANGED <<xmode, orgVars, timesVars, rep_prefix>>

(* One term of _inst_db. *)
Data ==
  /\ At("data")
  /\ LET e == prog[pc].e IN
       /\ CanEval(e)
       /\ Emit(prog[pc].n, Operand(e), 0)
       /\ need_more' = (need_more \/ ~Resolved(e))
  /\ Advance
  /\ UNCHANGED <<sym, xmode, orgVars, timesVars, rep_prefix>>

(* A text in _inst_db, stored by bstream_putdata: it is lost exactly when  *)
(* the stream had to grow for it and could (bstream.h 94-98).  When there  *)
(* is no memory to grow into, it is copied through a null pointer.         *)
TextNeeds == pos + prog[pc].n

NoRoomForText == At("str") /\ cap < TextNeeds /\ NewCap(TextNeeds) > MemLimit

Str ==
  /\ At("str")
  /\ \/ cap >= TextNeeds /\ Emit(prog[pc].n, 0, 0)
     \/ /\ cap < TextNeeds /\ NewCap(TextNeeds) <= MemLimit
        /\ cap' = NewCap(TextNeeds)
        /\ intact' = FALSE
        /\ UNCHANGED <<pos, size, damaged, scan>>
  /\ Advance
  /\ UNCHANGED <<need_more, sym, xmode, orgVars, timesVars, rep_prefix>>

(***************************************************************************)
(* Branches with an immediate operand: bctx_inst_jmp, bctx_inst_jcc,       *)
(* bctx_inst_loop, bctx_inst_call.  Without a modifier JMP and Jcc take    *)
(* the short form exactly when the displacement fits it.  The far forms    *)
(* and JCXZ hold the value itself and not a displacement.                  *)
(***************************************************************************)
TakesShort(op, val) ==
  \/ op \in {"short", "loop"}
  \/ op \in {"jmp", "jcc"} /\ InInt8(RelOfs(val, 2))

BranchLen(op, val) ==
  CASE TakesShort(op, val)         -> 2
    [] op = "jcc" /\ ~TakesShort(op, val) -> IF xmode = 16 THEN 4 ELSE 6
    [] op \in {"farjmp", "farcall"} -> IF xmode = 16 THEN 5 ELSE 7
    [] op = "jcxz"                 -> IF xmode = 32 THEN 3 ELSE 2
    [] OTHER                       -> IF xmode = 16 THEN 3 ELSE 5

(* What the last bytes of the branch are to hold. *)
Field(op, val) ==
  IF op \in Absolute THEN val ELSE RelOfs(val, BranchLen(op, val))

(* Field n of a branch op of len bytes has the width of the field. *)
InField(op, len, n) ==
  CASE op = "jcxz" -> InInt8(n)
    [] op = "farjmp"  -> IF len = 5 THEN InInt16(n) ELSE InInt32(n)
    [] op = "farcall" -> IF len = 5 THEN -32768 <= n /\ n <= 65535
                         ELSE -2147483647 - 1 <= n /\ n \div 2 <= 2147483647
    [] OTHER -> CASE len = 2 -> InInt8(n)
                  [] len \in {3, 4} -> InInt16(n)
                  [] OTHER -> InInt32(n)

Fits(op, val) == InField(op, BranchLen(op, val), Field(op, val))

(* No far branch nor JCXZ in 64-bit mode; JCXZ looks for the modifier of   *)
(* its operand in bits 8 to 15 of the value (inst_jmp.c 320).              *)
Legal(op, val) ==
  /\ op \in Absolute => xmode # 64
  /\ op = "jcxz" => (val \div 256) % 256 = 0

(* Mutant: no pass is ever taken for stable. *)
StableNever(e) == need_more /\ ~need_more

(* bctx_has_stab_pass: ranges are checked only while this pass is stable.  *)
Stable(e) == ~need_more /\ Resolved(e)

Branch ==
  /\ status = "run" /\ pc <= Len(prog) /\ prog[pc].op \in Branches
  /\ LET e   == prog[pc].e
         op  == prog[pc].op
         val == Operand(e)
     IN
       /\ CanEval(e)
       /\ Legal(op, val)
       /\ Stable(e) => Fits(op, val)
       /\ Emit(BranchLen(op, val), val, Field(op, val))
       /\ need_more' = (need_more \/ ~Resolved(e))
  /\ Advance
  /\ UNCHANGED <<sym, xmode, orgVars, timesVars, rep_prefix>>

BranchOutOfRange ==
  /\ status = "run" /\ pc <= Len(prog) /\ prog[pc].op \in Branches
  /\ LET e == prog[pc].e IN
       /\ Stable(e)
       /\ Legal(prog[pc].op, Operand(e))
       /\ ~Fits(prog[pc].op, Operand(e))
  /\ Stop("range") /\ UNCHANGED need_more

BranchIllegal ==
  /\ status = "run" /\ pc <= Len(prog) /\ prog[pc].op \in Branches
  /\ LET e == prog[pc].e IN
       /\ CanEval(e)
       /\ ~Legal(prog[pc].op, Operand(e))
       /\ need_more' = (need_more \/ ~Resolved(e))
  /\ Stop("rejected")

(* "could not find symbol" in a pass after the first. *)
Undefined ==
  /\ status = "run" /\ pc <= Len(prog) /\ prog[pc].op \in ExprOps
  /\ ~CanEval(prog[pc].e)
  /\ Stop("undefined") /\ need_more' = TRUE

(* A token sequence the lexer or a handler rejects. *)
Reject == At("bad") /\ Stop("rejected") /\ UNCHANGED need_more

-----------------------------------------------------------------------------
Org ==
  /\ At("org")
  /\ org_addr' = prog[pc].n
  /\ org_ofs' = size
  /\ code_start' = IF size = 0 THEN prog[pc].n ELSE code_start
  /\ Advance
  /\ UNCHANGED <<need_more, sym, xmode, stmVars, timesVars, rep_prefix, scan>>

(* Mutant: the difference taken the wrong way round. *)
AlignBack ==
  /\ At("align")
  /\ LET v == prog[pc].n
         ofs == HereAt(size, org_addr, org_ofs)
     IN Emit(-(ofs % v), 0, 0)
  /\ Advance
  /\ UNCHANGED <<need_more, sym, xmode, orgVars, timesVars, rep_prefix>>

(* ALIGN pads with NOPs up to a multiple of the (power of two) operand. *)
Align ==
  /\ At("align")
  /\ LET v == prog[pc].n
         ofs == HereAt(size, org_addr, org_ofs)
     IN Emit((v - (ofs % v)) % v, 0, 0)
  /\ Advance
  /\ UNCHANGED <<need_more, sym, xmode, orgVars, timesVars, rep_prefix>>

Bits ==
  /\ At("bits")
  /\ xmode' = prog[pc].n
  /\ Advance
  /\ UNCHANGED <<need_more, sym, stmVars, orgVars, timesVars, rep_prefix, scan>>

(* TIMES keeps where its line starts and how often to repeat it. *)
Times ==
  /\ At("times")
  /\ LET e == prog[pc].e IN
       /\ CanEval(e)
       /\ times_start' = size
       /\ times_count' = Operand(e) % CountMod
       /\ Note(Operand(e))
       /\ need_more' = (need_more \/ ~Resolved(e))
  /\ Advance
  /\ UNCHANGED <<sym, xmode, orgVars, rep_prefix>>

(* A second REP before the first was consumed is an error. *)
Rep ==
  /\ At("rep")
  /\ \/ /\ ~rep_prefix
        /\ rep_prefix' = TRUE
        /\ Advance
        /\ UNCHANGED <<need_more, sym, xmode, stmVars, orgVars, timesVars, scan>>
     \/ rep_prefix /\ Stop("rejected") /\ UNCHANGED need_more

(* MOVSB, STOSB: the prefix byte is emitted here. *)
StringInst ==
  /\ At("string")
  /\ Emit(IF rep_prefix THEN 2 ELSE 1, 0, 0)
  /\ rep_prefix' = FALSE
  /\ Advance
  /\ UNCHANGED <<need_more, sym, xmode, orgVars, timesVars>>

-----------------------------------------------------------------------------
(***************************************************************************)
(* _end_inst_line.  times_count is 0 both for TIMES 0 and before the first *)
(* line has ended.  bctx_cmd_line ignores the errors for a pending REP and *)
(* for a stream without memory.                                            *)
(***************************************************************************)
Discard(from) == {r \in scan : r.len = 0 \/ r.ofs < from}

(* Mutant: the next line counts as a TIMES 0. *)
TimesDoneZero == times_start' = 0 /\ times_count' = 0

TimesDone == times_start' = 0 /\ times_count' = 1

(* Mutant: the line itself is not counted. *)
CopyBytesMore == (size - times_start) * times_count

(* The line itself is the first of its times_count copies. *)
CopyBytes == (size - times_start) * (times_count - 1)

(* Mutant: the error is not counted. *)
PendingRepSilent ==
  /\ rep_prefix
  /\ rep_prefix' = FALSE
  /\ UNCHANGED <<stmVars, scan, timesVars, errs>>

PendingRep ==
  /\ rep_prefix
  /\ rep_prefix' = FALSE /\ errs' = TRUE
  /\ UNCHANGED <<stmVars, scan, timesVars>>

(* A line that is neither repeated nor dropped. *)
PlainLine ==
  /\ ~rep_prefix /\ times_count = 1
  /\ UNCHANGED <<stmVars, scan, timesVars, errs, rep_prefix>>

(* Mutant: the position stays behind the new end of the stream. *)
DropLineKeepPos ==
  /\ ~rep_prefix /\ times_count = 0
  /\ size' = times_start
  /\ cap' = Alloc(times_start)
  /\ scan' = Discard(times_start)
  /\ TimesDone
  /\ UNCHANGED <<pos, intact, damaged, errs, rep_prefix>>

DropLine ==
  /\ ~rep_prefix /\ times_count = 0
  /\ size' = times_start
  /\ cap' = Alloc(times_start)
  /\ pos' = IF cap' = 0 THEN 0 ELSE Least(pos, times_start)
  /\ scan' = Discard(times_start)
  /\ TimesDone
  /\ UNCHANGED <<intact, damaged, errs, rep_prefix>>

(* The copies go to an address taken before set_size (bsyntax.c 132-134).  *)
(* They arrive when the stream was large enough or could be extended in    *)
(* place; they are lost, with whatever else is stored there, when realloc  *)
(* moved the stream or gave less than was asked for.                       *)
RepeatLine ==
  /\ ~rep_prefix /\ times_count > 1
  /\ size' = size + CopyBytes
  /\ cap' = Alloc(size + CopyBytes)
  /\ \/ cap' > 0 /\ cap' >= size' /\ pos' = size' /\ UNCHANGED <<intact, damaged, errs>>
     \/ /\ cap' > 0 /\ cap < size'
        /\ pos' = size' /\ intact' = FALSE /\ damaged' = TRUE
        /\ UNCHANGED errs
     \/ cap' = 0 /\ pos' = 0 /\ intact' = FALSE /\ errs' = TRUE /\ UNCHANGED damaged
  /\ TimesDone
  /\ UNCHANGED <<scan, rep_prefix>>

(* The tokens LNEND and END. *)
EndLine ==
  /\ At("eol") \/ At("end")
  /\ PendingRep \/ PlainLine \/ DropLine \/ RepeatLine
  /\ pc' = pc + 1
  /\ UNCHANGED <<prog, status, pass_idx, need_more, sym, xmode, orgVars>>

-----------------------------------------------------------------------------
(***************************************************************************)
(* The loop of bctx_start.                                                 *)
(***************************************************************************)
PassEnded == status = "run" /\ pc > Len(prog)

NextPass ==
  /\ PassEnded /\ need_more
  /\ pc' = 1
  /\ pass_idx' = (pass_idx + 1) % PassWrap
  /\ need_more' = FALSE
  /\ xmode' = 32
  /\ pos' = 0 /\ size' = 0 /\ intact' = TRUE
  /\ org_addr' = 0 /\ org_ofs' = 0 /\ code_start' = 0
  /\ times_start' = 0 /\ times_count' = 0
  /\ rep_prefix' = FALSE
  /\ scan' = {}
  /\ UNCHANGED <<prog, status, errs, sym, cap, damaged>>

(* bsm_save_stream writes the file, cannot open it, or reads past the end  *)
(* of the stream.                                                          *)
Save ==
  /\ PassEnded /\ ~need_more
  /\ \/ status' \in {"saved", "nosave"}
     \/ size > cap /\ status' = "crashed"
  /\ UNCHANGED <<prog, pc, errs, pass_idx, need_more, sym, xmode, stmVars, orgVars,
                 timesVars, rep_prefix, scan>>

(* Once memory was damaged the process may fall at any step; a text for    *)
(* which there is no memory brings it down at once.                        *)
Crash ==
  /\ status = "run" /\ (damaged \/ NoRoomForText)
  /\ status' = "crashed"
  /\ UNCHANGED <<prog, pc, errs, pass_idx, need_more, sym, xmode, stmVars, orgVars,
                 timesVars, rep_prefix, scan>>

(* The process has exited. *)
Exited == status # "run" /\ UNCHANGED vars

Statement ==
  \/ Label \/ Equ \/ Data \/ Str
  \/ Branch \/ BranchOutOfRange \/ BranchIllegal \/ Undefined \/ Reject
  \/ Org \/ Align \/ Bits \/ Times \/ Rep \/ StringInst
  \/ EndLine

Next == Statement \/ NextPass \/ Save \/ Crash \/ Exited

Spec == Init /\ [][Next]_vars

(* The assembler is one sequential loop: it never pauses by itself. *)
FairSpec == Spec /\ WF_vars(Next)

-----------------------------------------------------------------------------
(* Types: the symbol table is a partial function, offsets are naturals.    *)
Statuses == {"run", "saved", "nosave", "undefined", "range", "rejected", "crashed"}

EntryType == [at : Nat, ofs : Nat, len : Nat, val : Int, rel : Int,
              org : Nat, base : Nat, start : Nat]

TypeOK ==
  /\ WellFormed(prog)
  /\ pc \in 1..(Len(prog) + 1)
  /\ status \in Statuses /\ errs \in BOOLEAN
  /\ pass_idx \in 0..(PassWrap - 1) /\ need_more \in BOOLEAN
  /\ DOMAIN sym \subseteq Syms /\ sym \in [DOMAIN sym -> Int]
  /\ xmode \in {16, 32, 64}
  /\ pos \in Nat /\ size \in Nat /\ cap \in Nat
  /\ intact \in BOOLEAN /\ damaged \in BOOLEAN
  /\ org_addr \in Nat /\ org_ofs \in Nat /\ code_start \in Nat
  /\ times_start \in Nat /\ times_count \in Nat
  /\ rep_prefix \in BOOLEAN
  /\ scan \subseteq EntryType
  /\ \A r \in scan : r.at \in 1..Len(prog)

(* Every name has one definition.                                          *)
DefinedOnce(p) ==
  \A i, j \in 1..Len(p) :
    p[i].op \in Defining /\ p[j].op \in Defining /\ p[i].s = p[j].s => i = j

(***************************************************************************)
(* The result.  r agrees with the symbol table: what it defined is still   *)
(* the value of the symbol, and what it evaluated is the value its operand *)
(* has in the table at the place where the statement ended up.             *)
(***************************************************************************)
HereOf(r) == HereAt(r.ofs, r.org, r.base)

Agrees(r) ==
  LET it == prog[r.at] IN
    /\ it.op \in Defining => it.s \in DOMAIN sym /\ sym[it.s] = r.val
    /\ it.op \in ExprOps =>
         /\ Names(it.e) \subseteq DOMAIN sym
         /\ r.val = Value(it.e, sym, HereOf(r), r.start, 0)

(* A saved output is a fixpoint of the passes: no operand in it was        *)
(* computed from a symbol value that changed afterwards, although every    *)
(* pass mixes the values of the previous pass (for what lies ahead) with   *)
(* its own.  This is what pass_need_more is for (bctx.c 196-207, 230).     *)
SavedIsFixpoint == status = "saved" => \A r \in scan : Agrees(r)

(* The largest number in the field of a branch, and the field holds r.rel; *)
(* the offset of a far call counts as unsigned, too.                       *)
FieldTop(r) ==
  LET op == prog[r.at].op IN
    CASE r.len = 2 \/ op = "jcxz" -> 127
      [] op # "jcxz" /\ (r.len \in {3, 4} \/ (r.len = 5 /\ op \in {"farjmp", "farcall"})) -> 32767
      [] OTHER -> 2147483647

FitsForm(r) ==
  prog[r.at].op \in Branches =>
    /\ -FieldTop(r) - 1 <= r.rel
    /\ IF prog[r.at].op = "farcall" THEN r.rel - FieldTop(r) - 1 <= FieldTop(r)
       ELSE r.rel <= FieldTop(r)

(* No displacement of a saved output was cut to the width of its field,    *)
(* although the range checks are off whenever the pass is known not to be  *)
(* the last (bctx_has_stab_pass, inst_jmp.c).                              *)
BranchesInRange == status = "saved" => \A r \in scan : FitsForm(r)

(* What a pass emits is laid out in the stream without overlap, and TIMES  *)
(* repeats or drops whole statements: the ASSERT of bsyntax.c:124, the cut *)
(* of _end_inst_line at times_start, the position and the capacity of the  *)
(* stream after the puts and the seek.                                     *)
StreamLayout ==
  /\ times_start <= size
  /\ intact =>
       /\ pos = size /\ size <= cap
       /\ \A r \in scan :
            /\ r.len > 0 => r.ofs + r.len <= size
            /\ r.ofs < times_start /\ r.len > 0 => r.ofs + r.len <= times_start
            /\ \A q \in scan :
                 r # q /\ r.len > 0 /\ q.len > 0 =>
                   r.ofs + r.len <= q.ofs \/ q.ofs + q.len <= r.ofs

(* "could not find symbol" is reported only for names that no statement of *)
(* the source defines: forward references never fail in a later pass       *)
(* (_parse_key_expr, bsyntax.c 1435-1439).                                 *)
DefinedIn(s) == \E i \in 1..Len(prog) : prog[i].op \in Defining /\ prog[i].s = s

UndefinedIsUndefined ==
  status = "undefined" => \E s \in Names(prog[pc].e) : ~DefinedIn(s)

(***************************************************************************)
(* The inductive invariant behind these.  While need_more is off, all of   *)
(* this pass agrees with the table; a symbol the source defines is known   *)
(* once its statement has been handled in the first pass; what scan says   *)
(* of labels and branches is where they stood.                             *)
(***************************************************************************)
PassAgrees == need_more \/ \A r \in scan : Agrees(r) /\ FitsForm(r)

KnownUpTo(n) ==
  \A i \in 1..n : prog[i].op \in Defining => prog[i].s \in DOMAIN sym

SymbolsKnown == KnownUpTo(Len(prog)) \/ (pass_idx = 1 /\ KnownUpTo(pc - 1))

Placed ==
  \A r \in scan :
    /\ prog[r.at].op = "label" => r.val = r.ofs + r.org + r.base
    /\ prog[r.at].op \in Relative =>
         r.rel = r.val - r.org - r.ofs + r.base - r.len

Outcome ==
  /\ status = "saved" => ~need_more
  /\ status = "undefined" =>
       pc <= Len(prog) /\ prog[pc].op \in ExprOps /\ ~CanEval(prog[pc].e)

IInv == TypeOK /\ StreamLayout /\ PassAgrees /\ SymbolsKnown /\ Placed /\ Outcome

(* A branch to a label reaches the byte the label marks: offset of the end *)
(* of the branch plus displacement is the offset of the label in the file  *)
(* (bctx_rel_ofs against _parse_label).  It is stated for the code under   *)
(* one ORG at the start of the stream: later sections add org_ofs in one   *)
(* place and subtract it in the other (bsyntax.c 104 and 1601).            *)
BranchesHitLabels ==
  status = "saved" =>
    \A r, m \in scan :
      /\ prog[r.at].op \in Relative
      /\ prog[r.at].e = [c |-> 0, pos |-> prog[m.at].s, neg |-> Nothing]
      /\ prog[m.at].op = "label"
      /\ r.org = m.org /\ r.base = 0 /\ m.base = 0
      => r.ofs + r.len + r.rel = m.ofs

(* TIMES c-($-label) on a line with one byte fills the file up to exactly  *)
(* c bytes after the label, TIMES c-($-$$) up to c bytes, unless there is  *)
(* too much code already: what test/page.asm:169 and 335 use it for.       *)
PadLine(i) ==
  /\ i > 3 /\ prog[i].op = "eol" /\ prog[i-3].op = "eol"
  /\ prog[i-2].op = "times" /\ prog[i-2].e.neg = Dollar /\ prog[i-2].e.c > 0
  /\ prog[i-1].op = "data" /\ prog[i-1].n = 1

Padding ==
  /\ pc <= Len(prog) /\ pc' = pc + 1 /\ PadLine(pc)
  /\ \E r \in scan : r.at = pc - 2 /\ r.val >= 0

Padded ==
  LET e == prog[pc-2].e IN
    /\ e.pos = DDollar => size' = e.c
    /\ \A m \in scan :
         prog[m.at].op = "label" /\ prog[m.at].s = e.pos => size' = m.ofs + e.c

PadsToSize == [][Padding => Padded]_vars

(* A REP without a string instruction on its line does not keep the file   *)
(* from being saved (bctx_cmd_line drops the -1 of _end_inst_line), but it *)
(* is never saved without a message, however many passes came between.     *)
LonelyRep(i) ==
  /\ prog[i].op = "rep"
  /\ \A j \in i..Len(prog) :
       prog[j].op = "string" => \E k \in i..j : prog[k].op = "eol"

RepReported == (status = "saved" /\ ~errs) => \A i \in 1..Len(prog) : ~LonelyRep(i)

(* Code disappears at the end of a line only when the line asked for it    *)
(* with a TIMES of 0 (bctx.h:75, "for times 0 db 0,0").  After an error it *)
(* may: a line that ends with a REP leaves its TIMES to the next one.      *)
ThisLine(r) == ~\E i \in r.at..(pc-1) : prog[i].op = "eol"

Zeroed == \E r \in scan : prog[r.at].op = "times" /\ ThisLine(r) /\ r.val % CountMod = 0

CutOnlyByTimes0 == [][pc' = pc + 1 /\ size' < size /\ ~errs => Zeroed]_vars

(* Every byte of a saved file is the one its statement emitted: no text    *)
(* and no copy of a TIMES line was lost when the stream grew (test/ relies *)
(* on it wherever it pads or stores a message).                            *)
OutputIntact == status = "saved" => intact

(* JCXZ is a conditional jump like the other Jcc (bbuiltin.c 276-285): the *)
(* byte it holds leads to the label.                                       *)
JcxzHitsLabels ==
  status = "saved" =>
    \A r, m \in scan :
      /\ prog[r.at].op = "jcxz"
      /\ prog[r.at].e = [c |-> 0, pos |-> prog[m.at].s, neg |-> Nothing]
      /\ prog[m.at].op = "label"
      => r.ofs + r.len + r.rel = m.ofs

(* The bound on the number of passes the driver asserts (bctx.c:132, bctx.h:13). *)
MAX_PASS_COUNT == 10
PassBound == pass_idx <= MAX_PASS_COUNT

(* Every run of the assembler ends. *)
Terminates == <>(status # "run")
=============================================================================

------------------------------- MODULE BLine --------------------------------
(***************************************************************************)
(* Who reads which token: bctx_cmd_line, the handlers of _parse_key, and   *)
(* bctx_parse_term take the tokens of a source one after the other.  The   *)
(* end of an operand shows only in the token behind it, which is handed to *)
(* the next reader by token_kept; some readers look at that flag, others   *)
(* call the lexer at once.  One action is one token looked at.             *)
(*                                                                         *)
(* Tokens are classes.  Keys stand for those whose handlers read alike:    *)
(* mov for the ones over bctx_parse_expr, inc for the ones over one        *)
(* bctx_parse_term (Jcc, LOOP, PUSH, TIMES too), jmp for CALL too, org for *)
(* ALIGN and INT too, cli for all that read nothing (REP, MOVSB, ...), db  *)
(* for DB, DW, DD and DQ, eax for registers, dword for the sizes and PTR,  *)
(* short for SHORT, NEAR and FAR.  "+" is any operator or bracket but "[", *)
(* "cpu" any token that spells 86, 386 and the like.  Left open: whether   *)
(* an operand has a value (BExpr) and fits its instruction (BInst) --      *)
(* "unfit" if not -- and whether a pass needs another one (BPass).         *)
(***************************************************************************)
EXTENDS Integers, Sequences

CONSTANTS
  Sources,    \* tokens, and what their author meant
  MaxPass     \* bound: passes over one source

Handled == {"mov", "inc", "jmp", "ret", "cli", "org", "bits", "db"}
Keys    == Handled \cup {"equ", "name", "eax", "dword", "short"}
Nums    == {"num", "width", "cpu"}       \* any; 16, 32 or 64; 86, 386, ...
Labels  == {"label:", "es:"}
(* DB is not seen to start a statement of its own. *)
PiecesDb == Keys \cup Nums \cup {"es:", "str", "$", "[", "+"}
Pieces  == (Keys \ {"db"}) \cup Nums \cup {"es:", "str", "$", "[", "+"}
(* Parts of an operand that leave its kind open.                           *)
Silent  == {"+", "short"}
Closers == {"db", ",", ":", "LNEND", "END"}
Tokens  == Keys \cup Pieces \cup Closers \cup Labels \cup {".", "/", "invalid"}
Stopped == {"end", "unfit", "error"}

ASSUME SourcesAssumption ==
  \A s \in Sources : /\ s.tokens \in Seq(Tokens) /\ s.tokens # <<>>
                     /\ \A i \in DOMAIN s.tokens : s.tokens[i] = "END" <=> i = Len(s.tokens)
ASSUME MaxPassAssumption == MaxPass \in Nat \ {0}

(***************************************************************************)
(* The syntax: which token may follow which in a source that is plain,     *)
(* told by the parts its author gave them.  Statements, one behind the     *)
(* other: name:, .386, mov a, b and so on.                                 *)
(***************************************************************************)
Is(s, i, ts, role) == s.tokens[i] \in ts /\ s.roles[i] = role

Opens(s, i) ==
  \/ Is(s, i, Keys, "key") \/ Is(s, i, Labels, "label") \/ Is(s, i, {"."}, "dot")
  \/ Is(s, i, {"LNEND"}, "eol") \/ Is(s, i, {"END"}, "end")

(* The line ends, or a DB begins behind a TIMES. *)
Over(s, i)   == Opens(s, i) /\ s.tokens[i] \in {"LNEND", "END"}
Leaves(s, i) == Opens(s, i) /\ s.tokens[i] \in {"LNEND", "END", "db"}

(* A text, or an operand that begins neither with a text nor with ES:.     *)
Datum(s, i) == Is(s, i, {"str"}, "text") \/ Is(s, i, Pieces \ {"str", "es:"}, "item")

(* Token i belongs to a statement of one of keys. *)
Heads == {"key", "equ", "db"}
Of(s, i, keys) ==
  \E k \in 1..i : /\ s.roles[k] \in Heads /\ s.tokens[k] \in keys
                  /\ \A j \in (k+1)..i : s.roles[j] \notin Heads

(* An operand that ends with token i is more than that.                    *)
Whole(s, i) ==
  \E k \in 1..i : s.tokens[k] \notin Silent /\ \A j \in k..i : s.roles[j] = s.roles[i]

BehindKey(s, i) ==
  LET key == s.tokens[i] IN
    \/ key \in {"mov", "inc", "jmp", "ret"} /\ Is(s, i+1, Pieces, "operand1")
    \/ key = "ret" /\ Over(s, i+1)
    \/ key = "cli" /\ Opens(s, i+1)
    \/ key = "org" /\ Is(s, i+1, Nums, "number")
    \/ key = "bits" /\ Is(s, i+1, {"width"}, "number")
    \/ key = "db" /\ Datum(s, i+1)
    \/ key \notin Handled /\ (Is(s, i+1, {"equ"}, "equ") \/ Is(s, i+1, {"db"}, "db"))

BehindOperand(s, i) ==
  \/ Is(s, i+1, Pieces, s.roles[i])
  \/ /\ Whole(s, i)
     /\ \/ s.roles[i] # "item" /\ Leaves(s, i+1)
        \/ s.roles[i] = "operand1" /\ Of(s, i, {"mov"}) /\ Is(s, i+1, {","}, "sep")
        \/ s.roles[i] = "operand1" /\ Of(s, i, {"jmp"}) /\ Is(s, i+1, {":"}, "colon")
        \/ s.roles[i] = "item" /\ (Over(s, i+1) \/ Is(s, i+1, {","}, "sep"))

Follow(s, i) ==
  \/ s.roles[i] = "key" /\ BehindKey(s, i)
  \/ s.roles[i] \in {"label", "eol", "number", "cpu"} /\ Opens(s, i+1)
  \/ s.roles[i] = "dot" /\ Is(s, i+1, {"cpu"}, "cpu")
  \/ s.roles[i] = "equ" /\ Is(s, i+1, Pieces, "operand1")
  \/ s.roles[i] = "db" /\ Datum(s, i+1)
  \/ s.roles[i] \in {"operand1", "operand2", "item"} /\ BehindOperand(s, i)
  \/ s.roles[i] = "sep" /\ Of(s, i, {"mov"}) /\ Is(s, i+1, Pieces, "operand2")
  \/ s.roles[i] = "sep" /\ Of(s, i, {"db"}) /\ Datum(s, i+1)
  \/ s.roles[i] = "colon" /\ Is(s, i+1, Pieces, "operand2")
  \/ s.roles[i] = "text" /\ \/ Over(s, i+1) \/ Is(s, i+1, {","}, "sep")
                            \/ Is(s, i+1, Labels, "label")

ASSUME SyntaxAssumption ==
  \A s \in Sources : s.plain =>
    /\ Len(s.roles) = Len(s.tokens)
    /\ Opens(s, 1)
    /\ \A i \in 1..(Len(s.tokens) - 1) : Follow(s, i)

VARIABLES
  source,
  pos,          \* tokens the lexer has given; the last one is ctx->tk
  token_kept,
  reader,       \* the code that asks for the next token, or how it all ended
  inst, nth,    \* the handler that runs; which of its operands is read
  full,         \* has anything set the kind of the operand (rmo->opr)?
  pass,
  parts         \* history: what each token was taken for, in this pass

vars == <<source, pos, token_kept, reader, inst, nth, full, pass, parts>>

Init ==
  /\ source \in Sources
  /\ pos = 0 /\ token_kept = FALSE
  /\ reader = "line" /\ inst = "cli" /\ nth = 1 /\ full = FALSE
  /\ pass = 1 /\ parts = <<>>

-----------------------------------------------------------------------------
(* The token a reader gets that looks at token_kept, and the one that the  *)
(* lexer gives.                                                            *)
Ask  == IF token_kept THEN pos ELSE pos + 1
tk   == source.tokens[Ask]
NextTk == source.tokens[pos + 1]

Part(i, role) == parts' = Append(parts, [tok |-> i, role |-> role])
Take(role)    == pos' = Ask /\ token_kept' = FALSE /\ Part(Ask, role)
Keep          == pos' = Ask /\ token_kept' = TRUE /\ UNCHANGED parts
TakeNext(role) == pos' = pos + 1 /\ Part(pos + 1, role) /\ UNCHANGED token_kept

Stay   == UNCHANGED <<source, inst, nth, full, pass>>
Go(r)  == reader' = r
(* The handler comes back; what it was given may not suit it.              *)
Back(r) == reader' \in {r, "unfit"}
Error  == reader' = "error" /\ UNCHANGED <<pos, token_kept, parts>>
Term(i, n) == inst' = i /\ nth' = n /\ full' = FALSE /\ UNCHANGED <<source, pass>>

-----------------------------------------------------------------------------
(* bctx_cmd_line and _parse_key.                                           *)
HandlerOf == [k \in Keys |->
  CASE k \in {"mov", "inc", "jmp"} -> "term"
    [] k \in {"org", "bits"}       -> "number"
    [] k = "ret"                   -> "ret"
    [] k = "db"                    -> "data"
    [] k = "cli"                   -> "line"
    [] OTHER                       -> "name"]

Key ==
  /\ reader = "line" /\ tk \in Keys
  /\ Take("key") /\ Term(tk, 1)
  /\ IF tk = "cli" THEN Back("line") ELSE Go(HandlerOf[tk])

Label ==
  /\ reader = "line" /\ tk \in Labels
  /\ Take("label") /\ Back("line") /\ Stay

Dot ==
  /\ reader = "line" /\ tk = "."
  /\ Take("dot") /\ Go("dot") /\ Stay

LineEnd ==
  /\ reader = "line" /\ tk = "LNEND"
  /\ Take("eol") /\ Go("line") /\ Stay

End ==
  /\ reader = "line" /\ tk = "END"
  /\ Take("end") /\ Go("end") /\ Stay

NoLine ==
  /\ reader = "line"
  /\ tk \notin Keys \cup Labels \cup {".", "LNEND", "END"}
  /\ Error /\ Stay

(* A key without a handler, or one whose handler gave it back, is a name   *)
(* that EQU or DB must follow.                                             *)
Name ==
  /\ reader = "name"
  /\ \/ tk = "equ" /\ Take("equ") /\ Term("equ", 1) /\ Go("term")
     \/ tk = "db" /\ Take("db") /\ Term("db", 1) /\ Go("data")
     \/ tk \notin {"equ", "db"} /\ Error /\ Stay

-----------------------------------------------------------------------------
(* Readers that call the lexer without looking at token_kept.              *)

(* .386 and the like.                                                      *)
Processor ==
  /\ reader = "dot"
  /\ IF NextTk = "cpu" THEN TakeNext("cpu") /\ Go("line") ELSE Error
  /\ Stay

(* ORG, ALIGN, INT and BITS.  A BITS of another width comes back with 0,   *)
(* "continue": its number is the name then.                                *)
Number ==
  /\ reader = "number" /\ Stay
  /\ CASE NextTk \in Nums /\ (inst = "bits" => NextTk = "width") -> TakeNext("number") /\ Back("line")
       [] inst = "bits" /\ NextTk \in Nums \ {"width"}          -> TakeNext("name") /\ Back("name")
       [] OTHER                                                -> Error

(* The token behind RET is left there. *)
RetLeaves ==
  /\ reader = "ret" /\ Term("ret", 1)
  /\ IF NextTk = "invalid" THEN Error
     ELSE /\ pos' = pos + 1 /\ UNCHANGED <<token_kept, parts>>
          /\ Go(IF NextTk \in {"LNEND", "END"} THEN "line" ELSE "term")

(* RET looks at the token behind it, and keeps it in any case.             *)
Ret ==
  /\ reader = "ret" /\ Term("ret", 1)
  /\ IF NextTk = "invalid" THEN Error
     ELSE /\ pos' = pos + 1 /\ token_kept' = TRUE /\ UNCHANGED parts
          /\ Go(IF NextTk \in {"LNEND", "END"} THEN "line" ELSE "term")

-----------------------------------------------------------------------------
(* bctx_parse_term: an operand goes on as long as tokens can be part of it.*)
Role == CASE inst = "db" -> "item" [] nth = 2 -> "operand2" [] OTHER -> "operand1"

TermPiece ==
  /\ reader = "term" /\ tk \in Pieces
  /\ Take(Role) /\ Back("term")
  /\ full' = (full \/ tk \notin Silent)
  /\ UNCHANGED <<source, inst, nth, pass>>

TermRefuses ==
  /\ reader = "term" /\ tk \notin Pieces \cup Closers
  /\ Error /\ Stay

(* Who goes on behind the operand.                                         *)
AfterTerm ==
  CASE inst = "mov" /\ nth = 1 -> "sep"
    [] inst = "jmp" /\ nth = 1 -> "colon"
    [] inst = "db"             -> "data"
    [] OTHER                   -> "line"

(* An empty operand is one, too. *)
TermEndEmpty ==
  /\ reader = "term" /\ tk \in Closers
  /\ Keep /\ Stay
  /\ Back(AfterTerm)

(* The operand takes its separator along. *)
TermEndTakes ==
  /\ reader = "term" /\ tk \in Closers
  /\ Take("sep") /\ Stay
  /\ IF full THEN Back(AfterTerm) ELSE Go("unfit")

TermEnd ==
  /\ reader = "term" /\ tk \in Closers
  /\ Keep /\ Stay
  /\ IF full THEN Back(AfterTerm) ELSE Go("unfit")

(* bctx_parse_expr between its operands.                                   *)
Sep ==
  /\ reader = "sep"
  /\ \/ tk = "," /\ Take("sep") /\ Term(inst, 2) /\ Go("term")
     \/ tk # "," /\ Keep /\ Back("line") /\ Stay

(* CALL and JMP: segment : offset.                                         *)
Colon ==
  /\ reader = "colon"
  /\ \/ tk = ":" /\ Take("colon") /\ Term(inst, 2) /\ Back("term")
     \/ tk # ":" /\ Keep /\ Back("line") /\ Stay

(* _inst_db: texts, commas, and operands until the line ends.              *)
Data ==
  /\ reader = "data"
  /\ CASE tk = ","                                 -> Take("sep") /\ Go("data") /\ Stay
       [] tk = "str"                               -> Take("text") /\ Back("data") /\ Stay
       [] tk \in {"LNEND", "END"} \cup Labels      -> Keep /\ Go("line") /\ Stay
       [] tk = "invalid"                           -> Error /\ Stay
       [] OTHER                                    -> Keep /\ Go("term") /\ Term("db", 1)

-----------------------------------------------------------------------------
(* bctx_start: the next pass.                                              *)
NextPass ==
  /\ reader = "end" /\ pass < MaxPass
  /\ pos' = 0 /\ token_kept' = FALSE /\ reader' = "line"
  /\ pass' = pass + 1 /\ parts' = <<>>
  /\ UNCHANGED <<source, inst, nth, full>>

Next ==
  \/ Key \/ Label \/ Dot \/ LineEnd \/ End \/ NoLine \/ Name
  \/ Processor \/ Number \/ Ret
  \/ TermPiece \/ TermRefuses \/ TermEnd \/ Sep \/ Colon \/ Data
  \/ NextPass

Spec     == Init /\ [][Next]_vars
FairSpec == Spec /\ WF_vars(Next)

-----------------------------------------------------------------------------
(* Every variable has its type; nobody asks for a token behind the end of  *)
(* the source, because whoever meets the end leaves it to bctx_cmd_line.   *)
TypeOK ==
  /\ source \in Sources /\ pass \in 1..MaxPass
  /\ pos \in 0..Len(source.tokens) /\ token_kept \in BOOLEAN
  /\ reader \in Stopped \cup {"line", "name", "dot", "number", "ret", "term", "sep", "colon", "data"}
  /\ inst \in Keys /\ nth \in {1, 2} /\ full \in BOOLEAN
  /\ token_kept => pos > 0
  /\ reader \notin Stopped => token_kept \/ pos < Len(source.tokens)

(* Each token the lexer has given was taken for one thing by one reader,   *)
(* in its order: none is lost between two readers and none is taken twice, *)
(* however the handlers hand token_kept on, and although some of them read *)
(* on without looking at it.                                               *)
EachOnce ==
  reader \notin {"unfit", "error"} =>
    /\ Len(parts) = IF token_kept THEN pos - 1 ELSE pos
    /\ \A k \in DOMAIN parts : parts[k].tok = k

(* A source that follows the syntax is read as it was written: each token  *)
(* in the part its author gave it, and no token stops the assembler.       *)
PartsAsWritten ==
  source.plain =>
    /\ reader # "error"
    /\ \A k \in DOMAIN parts : parts[k].role = source.roles[k]
    /\ reader = "end" => Len(parts) = Len(source.roles)

(* Every source is read to its end or refused: no two readers hand a token *)
(* to each other for ever.                                                 *)
Ends == <>(reader \in {"unfit", "error"} \/ (reader = "end" /\ pass = MaxPass))
=============================================================================

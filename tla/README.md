# basm: TLA+ models, TLC checks and TLAPS proofs

basm is a small x86 assembler in C (`src/src/`, about 6400 lines). This
directory models the parts of it that decide whether the file it writes is the
one its source asks for: the passes over the source, the layout of the output,
the branches, the symbol table, the operands, the code of an instruction, the
lexer, and who reads which token. TLC checks the models on small instances,
TLAPS proves the main results for every source and all limits.

File names below are relative to `src/src/` unless they start with `test/`.

## 1. The system

basm is one sequential process. `main` reads a whole source file, `bctx_start`
runs `bctx_cmd_line` over it again and again until nothing changes any more,
and `bsm_save_stream` writes the output. Nothing is persisted on the way and
nothing runs concurrently; what makes it hard is feedback. The value of a label
depends on the length of the code before it, the length of a jump on the values
of labels, an EQU or a TIMES on both, and every pass computes with a mixture of
the values of the pass before (for what lies ahead) and its own.

| part | state | operations | interacts with |
|---|---|---|---|
| pass driver (`bctx.c`, `bctx.h`) | `pass_idx`, `pass_need_more`, `xmode`, `org_addr`, `org_ofs`, `code_start`, `times_*`, prefixes | `bctx_init`, `bctx_start`, `bctx_ensure_symbol`, `bctx_find_symbol` | everything; resets all but the symbols and the capacity before a pass |
| statements (`bsyntax.c`) | none of its own: works on `bctx` | labels, EQU, DB family, ORG, ALIGN, BITS, TIMES, REP, end of line, keywords, dot directives | lexer, expressions, stream, symbols |
| expressions (`bsyntax.c` 1045-1675) | `arr_opd`, `arr_op` (operand and operator stacks) | `bctx_parse_term` and its helpers | lexer, symbols |
| branches (`inst_jmp.c`) | none | JMP, Jcc, JCXZ, LOOP, CALL, RET, INT, PUSH, POP | expressions, stream, ModRM |
| other instructions (`inst_mov.c`, `inst_add.c`, `inst_gdt.c`) | none | MOV, string instructions, arithmetic, descriptor tables | ModRM, stream |
| ModRM encoder (`bsyntax.c` 1677-2051) | `spec_ax_fn`, `spec_ax_ofs` | `bctx_modrm` | stream, expressions |
| output stream (`bstream.h`, `bstream.c`) | `data`, `pos`, `size`, `cap` | puts, seek, `bstream_set_size`, `_bstream_grow_to` | memory |
| symbol table (`bunsorted_map.c`, `bhash.c`) | table of entries, `size`, `filled` | init, insert, find, growing, drop | pass driver |
| lexer (`blexer.c`, `bstrext.c`) | position, line, `errs` | `blex_token` and its classes | statements, expressions |
| tables and containers (`bbuiltin.c`, `barray.c`) | static tables; growable arrays | lookup; push, pop | lexer, expressions |
| files (`main.c`, `bioext.c`) | - | read the source, save the stream | pass driver |

What has to be right, part by part:

* *Passes*: the saved output agrees with the final symbol table; a forward
  reference never ends as "could not find symbol"; the passes end.
* *Statements and stream*: nothing overlaps, TIMES repeats or drops exactly its
  line, padding fills up to the size, no byte is lost when the stream grows.
* *Branches*: a branch reaches its label in a field wide enough.
* *Symbol table*: what was put is found, with its last value.
* *Expressions*: the operator stack computes what the precedences say.
* *ModRM*: a decoder reads back the operand that was encoded; nothing is left
  in the stream by a form that was tried and given up.
* *Lexer and hand-over*: every token is used exactly once (`token_kept`), lines
  are counted right.

The list of hazards, each with its source line and the properties that are
about it, is in `PROJECT.json`.

## 2. Modules

| module | models |
|---|---|
| `BPass` | pass driver, statements, branches, output layout |
| `BPass_proofs` | theorems about `BPass` |
| `BSettle` | one pass of `BPass` as a function of the source: what every pass knows at a statement, and how many passes it takes |
| `BSettle_proofs` | theorems about the number of passes |
| `Induction` | induction and recursion over the naturals, and remainders, for the proofs |
| `MCBPass` | the sources TLC assembles |
| `SymMap` | the abstract symbol table |
| `UnsortedMap` | the hash table probe by probe; implements `SymMap` |
| `UnsortedMap_proofs` | theorems about `UnsortedMap` |
| `MCUnsortedMap` | hash functions for TLC |
| `BExpr` | one operand: the operand and operator stacks of `bctx_parse_term` |
| `BTerm` | what an operand says: the grammar of the operands with a meaning, as trees over their text |
| `BFrames` | what the stacks hold while such an operand is read, the invariant of the proof |
| `BExpr_proofs` | theorems about `BExpr` |
| `MCBExpr` | the operands TLC reads, and what they mean |
| `BModrm` | `bctx_modrm`: prefixes, opcode, ModR/M, SIB, displacement, going back |
| `BInst` | the instruction handlers and what they leave in the context |
| `BInst_proofs` | theorems about `BInst` |
| `BCpu` | how the processor reads an instruction back |
| `MCBInst` | the lines TLC assembles, what they say, and which are read otherwise |
| `BLexer` | the lexer, character by character, pass after pass |
| `BLexer_proofs` | theorems about `BLexer` |
| `BNum` | the value of a number token, and what the number says |
| `MCBLexer` | the texts TLC reads and what their authors meant |
| `BLine` | the hand-over of tokens between the readers of `bsyntax.c` |
| `BLine_proofs` | theorems about `BLine` |
| `MCBLine` | the sequences of tokens TLC reads, and the part each token plays |

`BPass` uses `SymMap`'s behaviour (a partial function) for its symbols, a value
for an operand, and a length for the code of an instruction; `BExpr`, `BInst`
and `BLexer` say how the operand, the code and the tokens come about. They are
composed through what they hand over, not in one state space: `BExpr` ends with
the `brm_opd` that is an operand of a line in `BInst`, the number tokens of
`BLexer` are the arguments of `BNum`, and `BLine` says which tokens of `BLexer`
make an operand of `BExpr` and a statement of `BPass`.

### BPass

A source is a sequence of statements (`Item`), a constant of the model: an
operation, the name it defines, its operand, a number. One action is one call
of `bctx_cmd_line`; a line `name db 1,2` is three statements, because
`_inst_db` handles its terms one after the other. `pc` is the position of the
lexer.

| state | code |
|---|---|
| `pc`, `status`, `errs` | lexer position, how `bctx_start` returned, `lex->errs > 0` |
| `pass_idx`, `need_more` | the fields of `bctx` (`pass_idx` wraps at `PassWrap`, 256 in the code) |
| `sym` | `sym_map`, as a partial function |
| `pos`, `size`, `cap` | the stream; `cap = 0` means that `data` is NULL |
| `org_addr`, `org_ofs`, `code_start`, `times_start`, `times_count`, `rep_prefix`, `xmode` | the fields of `bctx` |
| `scan`, `intact`, `damaged` | history: what this pass defined, evaluated and emitted; whether the stream still holds it; whether memory outside the stream was touched |

| actions | code |
|---|---|
| `Label`, `Equ` | `_parse_label`, `_pinst_equ`, both through `EnsureSymbol` (`bctx_ensure_symbol`) |
| `Data`, `Str` | a number and a text in `_inst_db` |
| `Branch`, `BranchOutOfRange`, `BranchIllegal` | JMP, Jcc, JCXZ, LOOP, CALL with immediate operands, short, near and far, and the two ways they are refused |
| `Org`, `Align`, `Bits`, `Times`, `Rep`, `StringInst` | the directives and MOVSB, STOSB |
| `EndLine` | `_end_inst_line`: a REP left over, the cut of TIMES 0, the copies of TIMES n |
| `Undefined`, `Reject` | the other errors |
| `NextPass`, `Save`, `Crash` | the loop of `bctx_start`, `bsm_save_stream`, the end after memory was damaged or a text was copied to where there is none |

Bytes are abstracted to their place and to the number they encode. An operand
is a constant plus one atom minus another (atoms: names, `$`, `$$`): enough to
tell apart everything the passes do with it. `Operand` keeps the placeholder
that stands for a name missing in the first pass, `Stable` the condition under
which ranges are checked at all.

What the model assumes: puts of an instruction or a number find their memory
(growth for a text loses it or, when it fails, ends the process; growth for TIMES may
fail, lose or move); offsets stay below
2^32, so they are not reduced; beyond `CapQuad` the capacity is computed as if
a put came in one piece; a process that touched memory outside the stream falls
or goes on. Not in the model: register and memory operands of branches, the
JECXZ and JRCXZ forms, instructions with ModRM (`BInst`), the lexer
(`BLexer`). One statement `bad`
stands for every token sequence that is refused.

### SymMap and UnsortedMap

`SymMap` says what a symbol table is: `Ask` hands over a name and a value, `Put`
gives exactly this name this value and leaves the others alone. With `Lossy` a
name may be lost: one at a time, for a new one (`Put`) or while the table is
rebuilt (`Lose`, only with `rebuilding` on). Only a new name sets the table
rebuilding, and it must be done before the next `Ask`. A lookup is no step of
`SymMap` at all, so it loses nothing, and no value is ever invented.

`UnsortedMap` is `bunsorted_map.c`: open addressing with double hashing. One
action is one probe of the search loop (`Onward`) or one step of
`_re_unsorted_map` (`SkipFree`, `Move`, `Moved`). The hash function is a
parameter (`hash`, any function in `HashFns`), so `bhash.c` needs no model of
its own. `phase` says what the search in progress is for: an insertion, a
lookup, an element being moved, the second lookup after growing. `Update` is
the assignment in `bctx_ensure_symbol` when the name was there already.
`trail`, the entries a search went through before the element was put down, is
history. The branch for a full table (lines 216-221) is not an action: `HalfFull`
shows that it is never taken.

`TableSize` picks what the code picks: the first odd number for which
`_usmap_isprime` is not 0, which is the first odd *composite* number (9 for a
small table; 1023 and 2047 in practice).

The refinement mapping reads the map out of the table and of what is still to
be moved out of the old one (`Contents`), and takes an insertion as pending
until `Update`, `Enter` or `Grow` (`Pending`); the table is rebuilding in the phases
of `_re_unsorted_map` (`Rehashing`), from `Grow` to `Rehashed`.

Not modelled: a `calloc` that fails, sizes near UINT_MAX, `grows` other than the
-1 of `bctx_init`, dropping and enumerating the table; and the `VERIFY` without
`!` on line 126, which stops the debug build whenever a table grows.

### BExpr

`BExpr` reads one operand (`bctx_parse_term`). One action is one token, or one
iteration of the loop of `_try_combine_opds`. `Legal` collects the conditions
under which a token is refused, `Combined` is `_combine_opds`, `PushOpd` is
`_ins_kpr`, `Result` what happens behind `_LOOP_END`.

| state | code |
|---|---|
| `term`, `pc` | the tokens of the operand, with the meaning it has for its author, and the next one |
| `opds`, `ops` | `arr_opd`, `arr_op` |
| `rmo` | `*rmo`: kind, modifiers, and in the end the value |
| `status` | still reading, or how `bctx_parse_term` returned |

An operand on the stack is a number and up to two registers, the first one with
a scale, as in `brm_opd`. Tokens are classes; BYTE to FWORD are one (`size`),
FAR, NEAR and SHORT another (`rel`), and `bad` is everything without a use
here. A symbol is found with a value, or it is missing, which counts as a small
number in the first pass and is refused later: that choice is left open. What a
register of `brm_opd` is in memory does not matter (the union of `r` and `seg`
overlaps only where both readings refuse the next token). Numbers are small: 64
bits never overflow, nor does the cast to `int` of a scale.

The meaning is not computed by `BExpr`. An operand that has one comes with a tree
by the grammar of `BTerm`, which knows nothing of the stacks: sums, products and
shifts that group from the left, brackets, numbers, registers, prefixes. A node
is a span of the text with what it is, where its operator stands and what it is
worth; `Node` says how that follows from its parts, `Written` that the text says
its meaning. `MCBExpr` builds texts and trees from the inside out: numbers;
addresses with scaled and plain registers, constants, prefixes, and a constant
behind the bracket. That they are by the grammar is `WrittenAssumption`, which TLC
checks for each of them. Texts that code and grammar read differently (section 5)
have no tree and are run as texts without a meaning.

### BModrm, BInst and BCpu

`BModrm` is a module of operators: `bctx_modrm` and its helpers as functions of
the context (`Env`: mode, is the pass stable, `lock_prefix`, `spec_ax_fn`) and
the operands. The result is what was put into the stream and whether the call
succeeded; what a refused call leaves there is part of it (`Fail` leaves,
`Rejected` and `GoBack` do not). A put is a unit of one, two, four or eight bytes
(`Put`), since the code puts numbers whole.

`BInst` is one line after the other:

| state | code |
|---|---|
| `xmode`, `pass_need_more`, `lock_prefix`, `spec_ax` | the fields of `bctx`; `spec_ax` is `spec_ax_fn` with `spec_ax_ofs` |
| `inst`, `code` | the line in the handler; what it has put into the stream |
| `phase` | between lines, line read, handler came back, assembler gave up |

| actions | code |
|---|---|
| `ReadLine` | the key and its operands; a symbol that is not known yet sets `pass_need_more` |
| `Handle` | the handler: `Returns(Result(...))` is what it puts, `Leave` what it leaves in the context, with one disjunct per handler (`Inc` ... `NoOperand`) |
| `EndLine`, `Bits`, `NextPass` | the end of the line, BITS, the next scan of `bctx_start` |

`BCpu` is external to the repository: a decoder written from the processor's
rules, which reads the units of a line and returns the meaning of the
instruction they are, or garbage. `MCBInst` computes what a line says from its operands alone
(`Said`). Between the two lies everything the handlers and `bctx_modrm` choose
apart from each other.

Abstractions: registers r8 to r15 are not in the code. 64-bit registers outside
64-bit mode are given only to handlers that refuse them (the parser refuses them
before). FWORD pointers are given only to far CALL and JMP. A double word has
`DwordBits` bits: 32 in the code and in the proofs, which hold for every number;
20 in TLC, whose integers end at 2^31. `xchg`, `adc`, `sbb` and `loope` have code
or a row in a table but no keyword reaches it, so they are left out; `_cmd_r`
falls through for keys that only begin like RET or REP, also left out.

### BLexer and BNum

`BLexer` is `blexer_next`, the loops under it, and `blexer_clear`. One action is
one iteration of a loop; a text is a sequence of character classes.

| state | code |
|---|---|
| `text` | the file between `buff` and `bufe`, and what its author meant |
| `bufc`, `line_start`, `curr_row`, `errs`, `tk`, `buff`, `cSep` | the fields of `blexer` and of its token; pointers are positions |
| `status` | the loop that runs, or what `blexer_next` returned |
| `pass`, `given`, `comments` | history: the pass, how many tokens it got, where its block comments were |

| actions | code |
|---|---|
| `Call`, `Blank`, `LineEnd`, `Mark`, `Slash`, `Shift`, `Invalid`, `End` | the loop of `blexer_next` |
| `LineComment`, `EatComment`, `BlockComment`, `EatBlock`, `EndOfBlock` | comments |
| `Alpha`, `AlphaMore`, `AlphaEnd` | `_alpha_token` |
| `Num`, `NumMore`, `NumEnd` | `_num_token` |
| `OpenString`, `OpenAtEnd`, `CloseString`, `DoubledQuote`, `EscapeLetter`, `Backslash`, `StrLineEnd`, `StrMore`, `Unterminated` | `_str_token` |
| `Clear` | `blexer_clear`, the start of the next pass |

`BNum` is `bsm_parse_num` for the characters of a number token. Values wrap at
`Wrap`, 2^64 in the code (`uint64_t v`). Left out is the type of the value (`int` or
64 bits). `Meant` is what a number says: its digits times their places (`Total`), in
the base of its prefix or suffix, as far as 64 bits hold it. It is written without
the loop: a sum over places, not a running product.

A text that was written as lexemes (`plain`) carries, for every character, the part
it has in its lexeme (`parts`), and the tokens the lexemes stand for. What such a
text may be is `SyntaxAssumption`: which part may follow which, which character
can be which part, what must not follow a lexeme because it would go on with it,
and which token a name, a number and a string is. It says nothing of how the
lexer finds that out. `MCBLexer` writes texts as sequences of lexemes, on which TLC
evaluates the assumption, and adds all short texts, whose only promises are that nothing outside the
text is read, that rows are right and that the pass ends.

### BLine

The end of an operand shows only in the token behind it. `bctx_parse_term` leaves
that token in `ctx->tk` and sets `token_kept`; `bctx_cmd_line`, `bctx_parse_term`,
`bctx_parse_expr`, `_inst_db`, CALL, JMP and the name part of `_parse_key` look at
the flag, while ORG, ALIGN, BITS, INT, the dot directives and RET call the lexer at
once. `BLine` is these readers; one action is one token looked at.

| state | code |
|---|---|
| `source`, `pos` | the tokens, with the part their author gave each; `ctx->tk` is the one at `pos` |
| `token_kept` | the field of `bctx` |
| `reader`, `inst`, `nth` | the code that asks next; the handler that runs, and which operand |
| `full` | whether `rmo->opr` is set |
| `pass`, `parts` | history: the pass, and what each token was taken for |

| actions | code |
|---|---|
| `Key`, `Label`, `Dot`, `LineEnd`, `End`, `NoLine` | `bctx_cmd_line` and the handler's first step |
| `Name` | the end of `_parse_key`: EQU or DB behind a name |
| `Processor`, `Number`, `Ret` | the readers that call the lexer at once |
| `TermPiece`, `TermRefuses`, `TermEnd` | `bctx_parse_term` |
| `Sep`, `Colon`, `Data` | `bctx_parse_expr`, CALL and JMP, `_inst_db` |
| `NextPass` | the next pass |

`SyntaxAssumption` says what a source that follows the syntax is (the tree at
bsyntax.c:6-9, for the statements the readers know): `roles` gives each token its part, and `Follow` which may come
behind it; sources without `plain` are any sequences. Tokens and keys are classes:
two keys are one class when their handlers read alike. Whether an operand has a value and suits its handler is `BExpr`'s and
`BInst`'s subject, so every operand may also be refused (`unfit`), and every pass
may ask for another one.

## 3. Runs

| run | configuration | shows |
|---|---|---|
| `sources` | `BPass_sources.cfg` | `SavedIsFixpoint`, `UndefinedIsUndefined`, `BranchesInRange`, `BranchesHitLabels`, `PassBound`, `PadsToSize`, `TypeOK` |
| `converge` | `BPass_converge.cfg` | the inductive invariants `IInv` and `SettleWithin2`; `Terminates` |
| `lines` | `BPass_lines.cfg` | `StreamLayout`, `CutOnlyByTimes0`, `RepReported` |
| `map` | `UnsortedMap_all.cfg` | `FindsStored`, `HalfFull`, `ImplementsLossyMap`, `CallsEnd`; the inductive invariant `TableInv`, with `TypeOK` in it |
| `expr` | `BExpr_expr.cfg` | `MeansWhatItSays`, `StackOrdered`, `KindsAgree`, `TypeOK` |
| `inst` | `BInst_inst.cfg` | `Reads`, `Retreats`, `ChecksOnly`, `Alone`, `TypeOK` |
| `lexer` | `BLexer_lexer.cfg` | `AsWritten`, `RowAndColumn`, `NumbersRead`, `PassEnds`, `WithinText` |
| `tokens` | `BLine_tokens.cfg` | `EachOnce`, `PartsAsWritten`, `Ends`, `TypeOK` |
| `section`, `text`, `jcxz`, `exact` | one each | a disagreement between the code and what the repository says of it (section 5) |

`sources` assembles every sequence of four lines out of two labels, a constant
defined from their difference, data, jumps of each form, gaps of 125 bytes,
padding to a label and to the start, and ALIGN, with and without `BITS 16` and
`ORG`; and each branch in each mode at distances around 127 and 32767 in both
directions. Two short branches over one gap, in both directions, are what it
takes for lengths to depend on each other; the distances lie on both sides of
every limit up to 16 bits. The 32-bit limit is beyond TLC's integers.
`CapUnit` is 65536 there so that the stream never grows: growing is the subject
of `lines`, with 16 bytes, a factor of four up to 64 and memory up to 100.

`converge` takes three lines, and adds sources in which EQUs refer to each other two
deep and four deep. `pass_idx` wraps at 5 and the deep ones take six passes, so passes
0 and 1 come once more with a full table: the behaviour after the wrap is part of the
run. `SettleWithin2` is the invariant behind `SettlesInPasses`,
for references that nest at most two deep; among the sources are some that take
two, three and four passes.

`lines` takes three lines of every kind that matters to the end of a line, with
names defined twice, a DB behind the operand of a jump, REP left over, TIMES 0, 2, 3
and 60, and texts for which the stream can grow and for which it cannot.

`map` takes five names, two values and two hash functions, in a table of 9 that
grows to 21 entries. In the table of 9 three of the names have one probe
sequence of length three, in the one of 21 all of them have, so overwriting
happens during insertion and during growing.

`expr` reads about 9500 operands with a meaning, up to 19 tokens long, and 10000
texts without one: all of up to three tokens of any class, and up to four tokens
behind an opening bracket. Two registers and two or three operators around a
bracket are enough to have every pair of operators meet on the stack in both
orders.

`inst` assembles about 7100 lines in 16- and 32-bit mode each and 9600 in 64-bit
mode (95 254 states): every handler with registers of every size (the
accumulator, one of the others, and BP/EBP, whose encoding differs), memory in
all address forms of three address sizes, with and without a segment prefix,
numbers at every limit the code looks at, segment and control registers. Each
line is met in a stable pass and in one that is not. `Reads` is an equivalence:
a line that is not listed as odd (section 5) must decode to what it says, and a
listed one must not, so the list can hide nothing that is right.

`lexer` reads 12 216 texts (226 814 states): up to two lexemes of all kinds, three
of those where something ends or is counted, every number of up to four
characters, every text of up to two characters and, over the characters that
matter to comments, strings and line ends, of up to four. `BufSize` is 4, so that
strings run over `tk->buff`; two passes show what `blexer_clear` brings back.
`NumbersRead` is an equivalence too: the numbers of `OddNumber` must not be worth what
they say. `Wrap` is 256 there, so that numbers of three and four characters wrap.

`tokens` reads 9876 sequences of tokens (109 408 states): statements of every class
with operands of up to five tokens, alone, three on lines of their own, and two on
one line where the first shows its own end; and all sequences of two tokens, of three and four
over the classes that matter to the flag. Three statements are enough for each
reader to follow each other one. Two passes, since `token_kept` is reset between
them.

Fairness: none in BExpr and BInst, where no liveness property is stated;
`WF_vars(Next)` in BPass, BLexer and BLine, `WF_vars(Work)` in UnsortedMap. Each is one
sequential loop in a process that does nothing else: the next iteration of a
running loop is always taken, and the assembler calls the lexer until the text
ends. Calls of the table need not be made, but one that was made goes on.

Deadlock is checked where the system must go on: in the runs over `BPass` (a
finished assembler stutters, `Exited`), `UnsortedMap` and `BExpr`. In `inst`,
`lexer` and `tokens` it is not: an error or the end of the last pass stops them.

`PROJECT.json` names a mutant for every property of a passing run: a slip in the
code (a dropped condition, the wrong origin, a missing reset) under which TLC
finds the property violated. The mutated definitions stand before the ones they
replace and are used nowhere.

## 4. Proofs

`BPass_proofs` proves, for all sources (`Programs`), names and limits that
satisfy the assumptions of `BPass`:

| theorem | says |
|---|---|
| `TypeCorrect` | `Spec => [](TypeOK /\ StreamLayout)` |
| `Invariance` | `Spec => []IInv` |
| `Fixpoint` | `Spec => []SavedIsFixpoint` |
| `InRange` | `Spec => []BranchesInRange` |
| `UndefinedSound` | `Spec => []UndefinedIsUndefined` |
| `Layout` | `Spec => []StreamLayout` |
| `HitsLabels` | `Spec => []BranchesHitLabels` |

The assumptions: names differ from `$`, `$$` and the empty atom; sources are
well formed (definitions name a symbol, ALIGN takes a power of two, the END
token is the last one, statements follow each other as the parser allows); the
limits are natural numbers, `CapUnit` at least 16, the wraps at least 2.

The properties are about the saved output, the invariant about every state
before. `IInv` has these parts:

* `TypeOK` and `StreamLayout`, which need each other: offsets are natural
  numbers because a cut goes back to `times_start`, which is not behind `size`.
* `PassAgrees`: as long as `need_more` is off, *everything* this pass has
  defined or evaluated agrees with the current table, and every branch fits its
  field. The step that matters is a definition: if it changes a value that was
  used before, `need_more` goes on; if it enters a new name, nobody can have
  used that name without setting `need_more`. `Agrees` evaluates the operand at
  the place where the statement stands, so this holds without comparing passes.
* `SymbolsKnown`: a name the source defines is in the table once its statement
  has been handled in the first pass, and stays there. A missing name in a later
  pass, also in the pass in which `pass_idx` has wrapped to 0 or 1, is then one
  that nothing defines.
* `Placed`: labels and displacements are computed from where the statement
  stands. With `PassAgrees` this gives `BranchesHitLabels`.
* `Outcome`: `saved` only with `need_more` off, `undefined` only with a missing
  name at `pc`.

Three more theorems have invariants of their own on top of `IInv`:

| theorem | says |
|---|---|
| `Reported` | `Spec => []RepReported` |
| `CutsOnlyByTimes0` | `Spec => CutOnlyByTimes0`, if no source has code on its first line (`BareStart`) |
| `PadsExactly` | `Spec /\ [](intact /\ CountsFit) => PadsToSize`, if every source has one section and defines each name once |

* `RepInv`, behind `Reported`: a REP without its instruction that the lexer has
  passed was reported, in this pass or one before, or its line has not ended and
  the prefix still waits; and a pass that is saved has reached the end of the source.
* `LineInv`, behind `CutsOnlyByTimes0`: `times_count` is 0 only on a line that said
  TIMES 0 and on the first line, where the stream is empty still. `BareStart` is
  needed: on the first line the count is 0 although nobody asked for it (section 5).
  After an error it may be 0 too, because a line that ends with a pending REP
  leaves its TIMES 0 to the next.
* `PadInv`, behind `PadsExactly`: with one section `$$`, `$` and the labels count
  from one origin, so the value of `TIMES n-($-a)` is what is missing to `n`
  (`LeadsTo`); then the byte, one piece, repeated that often. `CountsFit` excludes
  counts of 65536 and more, which `times_count` cuts; `intact` excludes a growth of
  the stream that lost something. With a second ORG the theorem would be false: that
  is the run `section`.

The lemmas for `IInv` come in the order of its parts: operands are integers and depend only on the
names in them, a put or a cut keeps the layout, a definition keeps agreement,
the program counter and the table only grow within a pass; then one lemma per
part of the invariant with one step per action.

`BSettle_proofs` proves when the loop of `bctx_start` ends. `BSettle` is its
vocabulary: `LayoutOf(p)[i]` is what every pass over source `p` knows at statement
`i` (size, mode, origins, the pending TIMES and REP, the values of the names),
computed from the source alone; `Ranked` gives every name the number of passes its
value may take to become right: 0 for a label, for an EQU as many as the names it
uses, and one more when they are still to come. `Settles(p, d)` are the sources in
which ranks up to `d` do, whose names are all defined, once, in which the lengths
(TIMES, and JMP and Jcc without SHORT or NEAR) depend on labels further up only,
and whose output fits the first capacity of the stream.

| theorem | says |
|---|---|
| `SettlesInPasses` | `Spec => [](Settles(prog, d) => pass_idx <= d + 2)` for every `d` with `d + 2 < PassWrap` |
| `PassesBounded` | `Spec => []PassBound`, if every source settles at depth `MAX_PASS_COUNT - 2` and `pass_idx` does not wrap before |
| `SettledIntact` | `Spec => [](Settles(prog, d) => OutputIntact)` |
| `SettledWithin2` | `Spec => []SettleWithin2`, if `pass_idx` does not wrap before 4 |
| `OnePass` | `Spec => [](LooksBack(prog) /\ DefinedOnce(prog) => pass_idx = 1)`, with no condition on lengths or on the stream |

`SettleInv` says, for a source that settles: the assembler stands where `LayoutOf`
says, in every pass alike; names of rank 0 have their value once their statement
was handled; the statement of a name with rank `r` finds in pass `r + 2` and later
the values it found before, so it changes nothing; and in pass `d + 2` nothing is
left that could set `need_more`. `SettleWithin2` is this invariant for the depths 0, 1
and 2, the ones `converge` checks. `LayoutOf` is a recursive function along the
statements, and that its values are of their types is an induction over the
statements: `Induction` states induction and recursion for sets and functions, from
`WellFoundedInduction`, instead of operators passed as parameters, which the provers
cannot instantiate. `OneInv`, behind `OnePass`: the table has exactly the names
defined so far, so that every definition is new and no name missing.

Jumps forward whose length is left to the assembler are outside `Settles`: the length
of such a jump can depend on itself, and no rank describes that. For them the bound
on the passes (`PassBound` in `sources`) and the end of the loop (`Terminates`) are
model-checked. There are sources that never settle, section 5.

`UnsortedMap_proofs` proves, for all names, values, hash functions and requested
sizes:

| theorem | says |
|---|---|
| `TypeCorrect` | `Spec => []TypeOK` |
| `Invariance` | `Spec => []TableInv` |
| `NeverFull` | `Spec => []HalfFull` |
| `Finds` | `Spec => []FindsStored` |
| `Implements` | `Spec => ImplementsLossyMap` |

The assumptions: hash values and the size asked for are natural numbers, `NULL`
is not an element. The argument needs no number theory, which is as well, since
the sizes are not primes; of `Step` and `FirstIdx` only the range matters, and of
`TableSize` that the loop stops (one of three odd numbers in a row is a multiple
of three), that the result is above three and not below what was asked for.
`TableInv` has these parts:

* `TrailsLead`: the entries an element passed when it was put down (`trail`, a
  history variable) lie on a path that begins at its first index, ends at its
  entry, leads through entries taken by other names only and does not close.
  Nothing is ever removed from the table, so a path stays one when an entry on
  it is overwritten, as long as the new name is not the one of the path.
* `SearchLeads`: the search in progress is on such a path, and on the path of
  the element it is looking for. A search that ends without the element
  (`NotThere`) can therefore not have overlooked it, which in turn is what makes
  an overwriting insertion keep the other paths.
* `StoredOnce`: no name twice in the table and what is left of the old one;
  `Room`: entry 0 is unused, and every entry of the old table brings at most one
  element, so the new one is at most half full when all are moved; `Sought`: what
  the search is for.

The refinement goes through the set of stored elements: `MapOf` turns a set of
elements with different names into a map; `Update`, `Enter` and `Grow` add one
element and are the `Put`, which costs at most the element it overwrites (`PutCost`);
`Moved` drops one, and is a `Lose`, or none; all other steps leave the set alone, and
`Rehashed`, at which nothing is left of the old table, is `Rebuilt`.

`BExpr_proofs` proves, for every set of operands and registers:

| theorem | says |
|---|---|
| `TypeCorrect` | `Spec => []TypeOK` |
| `Invariance` | `Spec => []IInv` |
| `Kinship` | `Spec => []KindsAgree` |
| `Precedence` | `Spec => []StackOrdered` |
| `Meaningful` | `Spec => []MeansWhatItSays` |

The assumptions: `NoReg` is no register, and operands are sequences of tokens; for
`Meaningful` also `WrittenAssumption`, which is what it is to have a meaning: the
operand comes with a tree of `BTerm`'s grammar, of any depth and length. `TypeOK` says that every scale on the stack is at most 8, so the lemmas about
`_combine_opds` carry it: `ScaleType` for products, `AddRegsType` for sums.
`StackOrdered` is the reason why the operator stack computes what binds more
first: an operator is pushed only when the top need not be computed before it,
and `_ins_kpr` changes only a difference into a sum, which binds alike.

`Meaningful` goes by an invariant (`MeanInv` in `BFrames`) instead of an induction
over the tree. Each operator on the stack is a frame: the bracket, product, shift or
rest of a sum that is being read. Below each frame but a bracket its left operand is
on the stack of operands and represents its value (`Rep`); of the last frame
nothing has been read, or a phrase of it, or all. A minus in front of a number is
gone from the stack, the number negated (`neg`). `Found` says of the kind and the
modifiers of `*rmo` what the tokens so far make of them, and keeps a single register
and the operands in step.

`NextTurn` derives from the tree which token may come next and that a reduction is
due exactly when a phrase of the top frame ends; then each action has a lemma
(`ModifierTurn` ... `FinishTurn`) over what its step does to the frames: `FramesPush`,
`FramesPop`, `FramesKeep`, `FramesNegate`. That `_combine_opds` yields what the
node is worth is `Sums` (constants, registers, the scaled one in front), `Multiples`
(a register times a constant) and `Shifted`: the shift of `BExpr` is one division by
a power of two, the meaning is halving again and again, and the two agree by an
induction over the number of halvings (`SarHalves`).

`BInst_proofs` proves, for every set of lines and every width of a double word:

| theorem | says |
|---|---|
| `NothingLeftBehind` | `Spec => []Alone` |
| `OnlyChecksDiffer` | `Spec => []ChecksOnly` |
| `RefusedLeavesNothing` | `Spec => []Retreats` |
| `CodeTyped` | `Spec => []TypeOK` |

`Alone` rests on an invariant one line long, `Clear`: between two lines
`lock_prefix` is off and `spec_ax_fn` is not set, because every handler that sets
one comes to the place where it resets it, on the paths with an error too.
`ChecksOnly` compares two environments that differ in `pass_need_more` only; the
lemmas (`...Relaxed`) go from the helpers of `bctx_modrm` up to the handlers: when
the stable call succeeds, the relaxed one puts the same units. `Retreats` has one
lemma per handler, over a lemma that says of `bctx_modrm` when it can fail with
something in the stream: only for a scale with 16-bit registers. `CodeTyped` needs
to know what operands are (`LinesAssumption`: registers that exist, sizes that PTR
can name, FWORD for CALL and JMP only; the numbers are any integers): then no
table of opcodes and no case of the encoder is left, whatever the line. It also
says that a line in hand stays one of the mode it was read in (`Between`: BITS and
the next pass find no line). `DwordAssumption` adds that a power of two is positive,
which the provers do not know.

`BLexer_proofs` proves, for every text, buffer size and number of passes:

| theorem | says |
|---|---|
| `StaysInside` | `Spec => []WithinText` |
| `RowsRight` | `Spec => []RowAndColumn` |
| `LexedAsWritten` | `Spec => []AsWritten` |
| `NumbersReadRight` | `Spec => []NumbersRead`, for every `Wrap` |

The row is the number of line ends before the position, so every action needs
what its step adds to that set: nothing, or exactly one. The steps over two
characters need that they never stop between CR and LF (`NotSplit`), that what
the comments have taken lies behind the position (`Behind`), and that a line
starts behind a line end (`Begun`); these with `WithinText` and `RowAndColumn` are the
invariant (`IInv`). The cardinalities come from `FiniteSetTheorems`.

`LexedAsWritten` is about the texts written as lexemes, of any length. `LexInv` says
where in such a text the lexer can stand and what it has of the token by then:
between two lexemes, with as many tokens given as lexemes lie behind it; in a
comment, on a character of it; in a name or a number, with the characters since its
first; in a string, with what the characters since the quote say, in the file
as long as there was no escape, in `tk->buff` from then on, as far as that has room.
The step from one place to the next is where the rules of the lexer and the
grammar meet: that a name ends where the grammar lets no more of it follow, a
comment at its first `*/`, and a string at the first quote that is not doubled.

`NumbersReadRight` has two halves. One is about the states: `NumInv` says that a number
token begins with a digit and holds only the characters `_num_token` goes over, also
while it is being read; `LexedAsWritten` says that they are the ones its author wrote.
The other is about the operators (`NumeralRead`): for every such sequence of characters
`bsm_parse_num` gives its `Meant` exactly when it is not odd. The loop and the sum over
places are both recursive functions along the digits; that they agree is an induction
over how many digits are done: the loop so far, times the place where it stands, is the
sum so far (`SameNext`), with every product taken modulo `Wrap` (`Carry` in `Induction`:
wrapping on the way and wrapping at the end are the same). For the odd numbers one of
the two gives a value and the other refuses, so they differ whatever `Wrap` is.

`BLine_proofs` proves, for every set of sources and number of passes:

| theorem | says |
|---|---|
| `NoneBehindTheEnd` | `Spec => []TypeOK` |
| `TakenOnce` | `Spec => []EachOnce` |
| `ReadAsWritten` | `Spec => []PartsAsWritten` |

`EachOnce` counts: the tokens taken are the first `pos` ones, without the last
while it is kept. For the readers that ignore the flag this is right only because
no token is kept when they run (`Unaware` in `Inv`): they are reached only from a
key or a dot that was taken. `TypeOK` needs in turn that whoever is asked next has
a token, either the kept one or one more in the text, and hence that nobody but
`bctx_cmd_line` takes the end.

`ReadAsWritten` is about the sources that follow the syntax. `WrittenInv` says that
each token taken so far was taken for its part, and that the reader who is asked
next is one for which the grammar has a part for the next token (`Ready`): after an
operand, whoever comes next gets the token that ended it, kept or not.

Only model-checked:

* `Reads`: an equivalence with a decoder over all lines of `MCBInst`; both directions go
  through every opcode of two tables.
* `PassBound` for sources outside `Settles`, as said above; `PadsToSize` and
  `CutOnlyByTimes0` outside their hypotheses.
* liveness (`Terminates`, `PassEnds`, `CallsEnd`, `Ends`), which is out of the reach of
  the prover.

## 5. Where code and description differ

Each has a run whose counterexample is the behaviour.

* `section`: a label is `size + org_addr + org_ofs` (bsyntax.c:104), `$` is
  `size + org_addr - org_ofs` (1601). Padding a section to a size by a label, as
  test/page.asm:335 does, is right in page.asm, which has one ORG; behind a second
  ORG the same line misses its size.
* `text`: `bstream_putdata` drops a text exactly when the stream could be
  enlarged for it (bstream.h:94).
* `jcxz`: JCXZ emits the low byte of the address (inst_jmp.c:347-353), not the
  displacement.
* `exact`: the table size is composite, not prime as the comment at
  bunsorted_map.c:192 says; a name can be overwritten in a table with room.

Operands to which `BTerm` gives no meaning because the code reads them differently
from the conventions: in `10-(2)+3` and `10-(2)-3` the difference is computed
last, as `10-(2+3)` and `10-(2-3)`, because `_ins_kpr` (1308) finds the bracket
and not the minus; `10-5>>1` shifts -5; `3*3>>1` is `3*(3>>1)`, since the two have
equal rank and group from the right (1259); `[a+b*2]` loses `a` (1219-1222) and
`[(a+b)+a]` its third register; `[4*a]` is `[a*4+a+4]`; `[(a+4)*2]` does not double
the 4; `[a*0]` is `[a]`; `[a-b]` is `[a+b]`. A bracket without its partner and `1 2 +`
are accepted, and `-5` is refused. `[4+cr0` ends with a memory operand on the
stack of a control register, which fails the assertion at 1642. `WORD PTR` fails
the assertion at 1355, since `kpr->opr` starts as `rmo->opr`.

Lines of `inst` that the processor reads otherwise than they say; `MCBInst` lists
them (`Odd`), and the run shows that each of them does differ:

* addresses: `[esp+disp32]` gets mod 00 and loses its displacement; `[eax*4+disp8]`
  adds EBP; `[eax*3]` is accepted, against the comment at bctx.h:34, and encoded
  with factor 1; in 64-bit mode a direct address is relative to RIP, or adds RBP,
  and a displacement above INT32_MAX is extended with its sign;
* ADD and its family: `ADD BL, imm8` has the opcode of AL (inst_add.c:222);
  `ADD [mem], imm8` announces a byte and puts a number of the operand's size;
  64-bit immediates above INT32_MAX are extended with their sign;
* MOV: `MOV DWORD [mem], imm` puts one byte of four (inst_mov.c:145);
  `MOV r16, seg` in 32-bit mode is a 32-bit one, and with a 16-bit address lacks
  0x67; MOV CS; a number or control register with a segment register, and
  `MOV imm, reg`, pass the assertions of the release build and are taken as memory;
  the accumulator and a direct address in 64-bit mode (moffs and SIB form at once);
* LGDT, LIDT, LTR with another address size or a segment prefix, which comes
  behind 0x0F;
* CALL and JMP through memory with a pointer size other than the mode's, and far
  FWORD in 16-bit mode; PUSH and POP with sizes other than the mode's, a segment
  register in 64-bit mode, `PUSH BYTE` of a number beyond a byte;
* `SHL r, CL` encodes the count 0; `INT 0` is INTO; IRETD, PUSHAD and POPAD lack 0x66
  in 16-bit mode.

Refused, though legal: `MOV AX, [ofs]` in 16-bit mode (the 1 of `spec_ax_fn` is
taken for an error, 1783).

The lexer, where `lexer` shows it or leaves it out by name: an LF alone inside
`/* */` neither counts as a row nor ends a line; an unterminated block comment ends
the file silently; an opening quote as the last character reads behind the text
(blexer.c:299); a second dot in a number is reported and counted in `errs`, but
the token is returned; a backslash escapes neither a backslash nor a quote. In a
string with a doubled quote or an escape `key` stays in the file and `kend` points
into `tk->buff`, and bsyntax.c:803 subtracts one from the other; `tk->buff` is
never cleared, although blexer.c:148 asserts that it is empty. An upper-case H is
no suffix, and b never is: it is a hexadecimal digit.

Numbers (`OddNumber`): `10b` is refused (bbuiltin.c:252, a TODO); hexadecimal
letters without a mark are decimal digits worth their distance from '0', so `1a`
is 59; a bare `0x` is 72; `1.0` is refused.

Seen while modelling, without a run of their own: a name with two definitions
changes its value in each pass, and only `ASSERT(FALSE)` at bctx.c:132 ends the
loop: without assertions `pass_idx` wraps and the assembler does not return
(`Terminates` is stated for sources that define each name once). `.586p`, the example
of the comment at bsyntax.c:48, is refused: the lexer ends the number at `p`, which
becomes a key that EQU or DB would have to follow (`BLine`: `Processor`, then
`Name`). `times_count` is 0 before the first line has
ended, so code on the first line is dropped as if by TIMES 0 (bctx.h:75; `BPass`
has it, and `CutOnlyByTimes0` is stated for the lines behind); `BITS 17` is
accepted, and the number becomes the name of what follows (bsyntax.c:1011-1040);
`db eax` and `db [5]` emit nothing and print nothing (819-842); `int 3 nop` and
`cli sti` on one line are accepted, against the syntax tree at bsyntax.c:6-9;
TIMES works only before the DB family, since an operand takes any other key for a
symbol (1336-1342, 1415-1446); `_cmd_o` and `_cmd_j` assert an upper-case letter
where keys are lower case (529, 411). A chain of ten EQUs, each of which refers
to the next, needs more passes than the ten of bctx.c:132, as the rank of
`SettlesInPasses` would have it; `a equ k`, `k equ b`, `times 132-($-a) db 0`, `b:` never
settles, since the padding moves `b` and `b` the padding, and ends at the same
assertion; a REP without its
string instruction prints an error and the output is saved (bsyntax.c:33-38);
TIMES at offset 0 or 1 of the output fails `ASSERT(ctx->times_start > 1)`
(bsyntax.c:128); the copies of a TIMES line go through pointers taken before
`bstream_set_size` (bsyntax.c:132-145); a TIMES line that needs more than four
times the capacity fails the assertion of bstream.c:38. The model has all of
these behaviours.

## 6. Plan

In this order, the most important behaviour first:

1. `BPass`, `BPass_proofs`, `BSettle`, `BSettle_proofs`: done. Open: the number of
   passes of a source whose jumps forward choose their length, at least for jumps
   that only grow.
2. `SymMap`, `UnsortedMap`, `UnsortedMap_proofs`: done. Open: a `calloc` that
   fails while growing, and `BPass` over a map that may lose names.
3. `BExpr`, `BTerm`, `BFrames`, `BExpr_proofs`: done. Open: two operands of one
   instruction in a row (`bctx_parse_expr` is in `BLine`, without values).
4. `BModrm`, `BInst`, `BCpu`, `BInst_proofs`: done. Open: the values of symbols as
   operands, where `BPass` has lengths only.
5. `BLexer`, `BNum`, `BLexer_proofs`: done. Open: the conversions of bstrext.c.
6. `BLine`, `BLine_proofs`: done.
7. `BStream`: the stream byte by byte with puts that find no memory; abstract
   specification a sequence of bytes, `BPass` its client.
8. `BSystem`: `main` to the saved file, composing the modules above.

Modules to be proved about use no RECURSIVE operator; reference evaluators are
recursive functions.

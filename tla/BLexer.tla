------------------------------- MODULE BLexer -------------------------------
(***************************************************************************)
(* The lexer (blexer.c): blexer_next reads one token behind the last one,  *)
(* and blexer_clear goes back to the start of the text for the next pass.  *)
(* One action is one iteration of one of its loops.                        *)
(*                                                                         *)
(* A character is the class the code tells apart: "a" stands for the       *)
(* letters that are hexadecimal digits, "b", "r", "n", "t", "h" and "x" for*)
(* themselves ("x" for X too), "g" for every other letter, "0" and "1" for *)
(* zero and the other digits, "sp" for blank and tabulator, "bad" for what *)
(* no token begins with.  Pointers into the text are positions, from 1.    *)
(***************************************************************************)
EXTENDS Integers, Sequences, FiniteSets

CONSTANTS
  Texts,      \* source texts: their characters, and what they say
  BufSize,    \* LEX_TOKEN_BUFSIZE, 256 in the code
  MaxPass     \* bound: passes over one text

(* The characters that are a token of their own, but for / and >.          *)
Marks == [c \in {",", ".", "[", "]", "(", ")", "+", "-", "*", ":"} |->
            CASE c = "," -> "SEP"       [] c = "." -> "DOT"
              [] c = "[" -> "LBRACKET"  [] c = "]" -> "RBRACKET"
              [] c = "(" -> "LPARENTH"  [] c = ")" -> "RPARENTH"
              [] c = "+" -> "ADD"       [] c = "-" -> "SUB"
              [] c = "*" -> "MUL"       [] c = ":" -> "COLON"]

Letters == {"a", "b", "g", "h", "n", "r", "t", "x"}
Digits  == {"0", "1"}
NameChar == Letters \cup Digits \cup {"_", "$"}
Quotes  == {"'", "''"}        \* the second one stands for the double quote
Ends    == {"CR", "LF"}
Chars   == Letters \cup Digits \cup Quotes \cup Ends \cup DOMAIN Marks
             \cup {"_", "$", "sp", ";", "/", ">", "\\", "bad"}
Types   == {"UNDEF", "KEY", "LABEL", "DOLLAR", "DDOLL", "NUM", "STR", "DIV", "RAR",
            "LNEND", "END"} \cup {Marks[c] : c \in DOMAIN Marks}

ASSUME TextsAssumption   == \A x \in Texts : x.chars \in Seq(Chars)
ASSUME BufSizeAssumption == BufSize \in Nat \ {0}
ASSUME MaxPassAssumption == MaxPass \in Nat \ {0}

(***************************************************************************)
(* The syntax: how a plain text is written.  Its author gave every         *)
(* character a part, by the lexeme it belongs to: name and label (first,   *)
(* more, colon), number (digit, digits, h), string (from open to close),   *)
(* comment (semi or slash to the remark's end; blk to end2).               *)
(***************************************************************************)

(* Which part a character may have.                                        *)
Fits(p, c) ==
  /\ p = "sp"     => c = "sp"
  /\ p = "eol"    => c \in Ends
  /\ p = "lf"     => c = "LF"
  /\ p = "mark"   => c \in DOMAIN Marks
  /\ p = "first"  => c \in Letters \cup {"_", "$"}
  /\ p = "more"   => c \in NameChar
  /\ p = "colon"  => c = ":"
  /\ p = "digit"  => c \in Digits
  /\ p = "digits" => c \in Digits \cup {"a", "b", ".", "x"}
  /\ p = "h"      => c = "h"
  /\ p \in {"rar", "rar2"} => c = ">"
  /\ p \in {"open", "close", "twin", "twin2"} => c \in Quotes
  /\ p \in {"esc", "lone"} => c = "\\"
  /\ p = "esc2"   => c \in {"r", "n", "t"}
  /\ p = "char"   => c # "\\"
  /\ p = "semi"   => c = ";"
  /\ p = "remark" => c \notin Ends
  /\ p \in {"div", "slash", "slash2", "blk", "end2"} => c = "/"
  /\ p \in {"blk2", "end"} => c = "*"

(* The parts that begin a lexeme, a token, or a piece of a string; those   *)
(* that say a character of the string, and those that say another one than *)
(* is written.                                                             *)
Starts  == {"sp", "eol", "mark", "div", "rar", "first", "digit", "open", "semi", "slash", "blk"}
Heads   == {"eol", "mark", "div", "rar", "first", "digit", "open"}
Strokes == {"char", "twin", "esc", "lone", "close"}
Inside  == {"char", "twin", "twin2", "esc", "esc2", "lone"}
Saying  == {"char", "twin2", "esc2", "lone"}
Escapes == Inside \ {"char"}

Parts   == UNION {Starts, Inside, {"lf", "rar2", "more", "colon", "digits", "h", "close", "slash2",
                                   "remark", "blk2", "inner", "end", "end2"}}

(* Which part may follow which.                                            *)
After == [p \in Parts |->
  CASE p \in {"sp", "mark", "div", "rar2", "colon", "h", "lf", "close", "end2"} -> Starts
    [] p = "eol"                                      -> Starts \cup {"lf"}
    [] p \in {"first", "more"}                        -> Starts \cup {"more", "colon"}
    [] p \in {"digit", "digits"}                      -> Starts \cup {"digits", "h"}
    [] p \in {"open", "char", "twin2", "esc2", "lone"} -> Strokes
    [] p \in {"semi", "slash2", "remark"}             -> {"remark", "eol"}
    [] p \in {"blk2", "inner"}                        -> {"inner", "end"}
    [] p = "rar"  -> {"rar2"}   [] p = "twin"  -> {"twin2"}  [] p = "esc" -> {"esc2"}
    [] p = "slash" -> {"slash2"} [] p = "blk"  -> {"blk2"}   [] p = "end" -> {"end2"}]
Lasts  == {"sp", "mark", "div", "rar2", "colon", "h", "lf", "close", "end2", "eol", "first", "more",
          "digit", "digits", "semi", "slash2", "remark"}

Is(x, i, P) == i \in DOMAIN x.chars /\ x.parts[i] \in P
At(x, i, C) == i \in DOMAIN x.chars /\ x.chars[i] \in C

(* Nothing that follows i could go on with its lexeme.                     *)
Parted(x, i) ==
  /\ Is(x, i, {"eol"}) /\ x.chars[i] = "CR" => (At(x, i+1, {"LF"}) <=> Is(x, i+1, {"lf"}))
  /\ Is(x, i, {"eol"}) /\ x.chars[i] = "LF" => ~Is(x, i+1, {"lf"})
  /\ Is(x, i, {"div"}) => ~At(x, i+1, {"/", "*"})
  /\ Is(x, i, {"first", "more"}) /\ ~Is(x, i+1, {"more", "colon"}) => ~At(x, i+1, NameChar \cup {":"})
  /\ Is(x, i, {"digit", "digits"}) /\ ~Is(x, i+1, {"digits", "h"}) => ~At(x, i+1, NameChar \cup {"."})
  /\ Is(x, i, {"inner"}) /\ x.chars[i] = "*" => ~At(x, i+1, {"/"})
  /\ Is(x, i, {"lone"}) => ~At(x, i+1, {"r", "n", "t"})

Follow(x, i) ==
  /\ Fits(x.parts[i], x.chars[i])
  /\ IF i = Len(x.chars) THEN x.parts[i] \in Lasts ELSE x.parts[i+1] \in After[x.parts[i]]
  /\ Parted(x, i)

(* The tokens up to i, the one i belongs to included, and what they are.   *)
Nth(x, i) == Cardinality({j \in 1..i : x.parts[j] \in Heads})
TokenAt(x, i) == x.tokens[Nth(x, i)]
Run(x, a, b, P) == \A j \in a..b : x.parts[j] \in P

Sole(x, a) ==
  TokenAt(x, a).type = CASE x.parts[a] = "eol"  -> "LNEND"
                       [] x.parts[a] = "mark" -> Marks[x.chars[a]]
                       [] x.parts[a] = "div"  -> "DIV"
                       [] x.parts[a] = "rar"  -> "RAR"

(* The name from a to b.                                                   *)
Word(x, a, b) ==
  IF Is(x, b+1, {"colon"}) THEN "LABEL"
  ELSE IF x.chars[a] = "$" /\ b = a THEN "DOLLAR"
  ELSE IF x.chars[a] = "$" /\ b = a+1 /\ x.chars[b] = "$" THEN "DDOLL" ELSE "KEY"
Named(x, a) ==
  \A b \in a..Len(x.chars) :
    Run(x, a+1, b, {"more"}) /\ ~Is(x, b+1, {"more"}) =>
      TokenAt(x, a).type = Word(x, a, b) /\ TokenAt(x, a).says = SubSeq(x.chars, a, b)

(* A number has one dot, and an x behind a leading zero.                   *)
Numbered(x, a) ==
  \A b \in a..Len(x.chars) :
    Run(x, a+1, b, {"digits"}) =>
      /\ x.chars[b] = "x" => b = a+1 /\ x.chars[a] = "0"
      /\ x.chars[b] = "." => \A j \in a..(b-1) : x.chars[j] # "."
      /\ ~Is(x, b+1, {"digits"}) =>
           /\ TokenAt(x, a).type = "NUM"
           /\ TokenAt(x, a).says = SubSeq(x.chars, a, IF Is(x, b+1, {"h"}) THEN b+1 ELSE b)

(* A string says its characters one by one: \r, \n and \t are control      *)
(* characters, two quotes are one, any other backslash is a backslash.     *)
SaidTo(x, a, b) == Cardinality({j \in (a+1)..b : x.parts[j] \in Saying})
Speaks(x, b) ==
  IF x.parts[b] # "esc2" THEN x.chars[b]
  ELSE CASE x.chars[b] = "r" -> "CR" [] x.chars[b] = "n" -> "LF" [] x.chars[b] = "t" -> "sp"
Spoken(x, a) ==
  \A b \in a..Len(x.chars) :
    Run(x, a+1, b, Inside) =>
      /\ TokenAt(x, a).type = "STR"
      /\ b > a => /\ x.parts[b] = "char" => x.chars[b] # x.chars[a]
                  /\ x.parts[b] \in {"twin", "twin2"} => x.chars[b] = x.chars[a]
                  /\ x.parts[b] \in Saying => TokenAt(x, a).says[SaidTo(x, a, b)] = Speaks(x, b)
      /\ Is(x, b+1, {"close"}) =>
           /\ x.chars[b+1] = x.chars[a] /\ ~At(x, b+2, {x.chars[a]})
           /\ Len(TokenAt(x, a).says) = SaidTo(x, a, b)
           /\ TokenAt(x, a).escaped <=> \E j \in (a+1)..b : x.parts[j] \in Escapes

Token == [type : Types, says : Seq(Chars), escaped : BOOLEAN]

ASSUME SyntaxAssumption ==
  \A x \in Texts : x.plain =>
    /\ x.parts \in Seq(Parts) /\ Len(x.parts) = Len(x.chars)
    /\ x.tokens \in Seq(Token) /\ Len(x.tokens) = Nth(x, Len(x.chars))
    /\ x.chars # <<>> => x.parts[1] \in Starts
    /\ \A i \in DOMAIN x.chars :
         /\ Follow(x, i)
         /\ x.parts[i] \in {"eol", "mark", "div", "rar"} => Sole(x, i)
         /\ x.parts[i] = "first" => Named(x, i)
         /\ x.parts[i] = "digit" => Numbered(x, i)
         /\ x.parts[i] = "open"  => Spoken(x, i)

VARIABLES
  text,          \* the file: blex->buff
  bufc,          \* the next character
  line_start,    \* where its line begins
  curr_row,      \* line ends counted so far
  errs,          \* messages printed
  tk,            \* the token: type, key, kend; does kend point into tk->buff?
  buff,          \* what was put into tk->buff
  cSep,          \* the quote that ends the string
  status,        \* the loop that runs, or what blexer_next returned
  pass, given,   \* history: the pass, the tokens it has got
  comments       \* history: the characters of this pass's block comments

fixed  == <<text, pass>>
place  == <<bufc, line_start, curr_row>>
string == <<buff, cSep>>
vars   == <<fixed, place, string, errs, tk, status, given, comments>>

buf  == text.chars
bufe == Len(buf) + 1
Min2(a, b) == IF a < b THEN a ELSE b

(* Is there a character c at i?                                            *)
Has(i, c)   == i < bufe /\ buf[i] = c
HasOf(i, C) == i < bufe /\ buf[i] \in C

(* LF expected behind every CR. *)
PastEndBlind(i) == IF buf[i] = "CR" THEN i + 2 ELSE i + 1

(* The place behind the line end at i: CR and LF together are one.         *)
PastEnd(i) == IF buf[i] = "CR" /\ Has(i + 1, "LF") THEN i + 2 ELSE i + 1

NoToken == [type |-> "UNDEF", key |-> 0, kend |-> 0, local |-> FALSE]

Init ==
  /\ text \in Texts
  /\ bufc = 1 /\ line_start = 1 /\ curr_row = 0 /\ errs = 0
  /\ tk = NoToken /\ buff = <<>> /\ cSep = "'"
  /\ status = "idle" /\ pass = 1 /\ given = 0 /\ comments = {}

-----------------------------------------------------------------------------
(* What an iteration does to the position.                                 *)
Skip(n)   == bufc' = bufc + n /\ UNCHANGED <<line_start, curr_row>>
NewLine   == bufc' = PastEnd(bufc) /\ line_start' = bufc' /\ curr_row' = curr_row + 1

(* blexer_next returns the token.                                          *)
Give(token) == tk' = token /\ status' = "idle" /\ given' = given + 1
Single(type) == Give([NoToken EXCEPT !.type = type])
Loop(name)   == status' = name /\ UNCHANGED given
Fail         == status' = "error" /\ UNCHANGED given

(* blexer_next is called.                                                  *)
Call ==
  /\ status = "idle"
  /\ tk' = NoToken /\ Loop("next")
  /\ UNCHANGED <<fixed, place, string, errs, comments>>

AtNext(C) == status = "next" /\ HasOf(bufc, C)

Blank ==
  /\ AtNext({"sp"})
  /\ Skip(1)
  /\ UNCHANGED <<fixed, string, errs, tk, status, given, comments>>

LineEnd ==
  /\ AtNext(Ends)
  /\ NewLine /\ Single("LNEND")
  /\ UNCHANGED <<fixed, string, errs, comments>>

Mark ==
  /\ AtNext(DOMAIN Marks)
  /\ Skip(1) /\ Single(Marks[buf[bufc]])
  /\ UNCHANGED <<fixed, string, errs, comments>>

Slash ==
  /\ AtNext({"/"})
  /\ ~HasOf(bufc + 1, {"/", "*"})
  /\ Skip(1) /\ Single("DIV")
  /\ UNCHANGED <<fixed, string, errs, comments>>

Shift ==
  /\ AtNext({">"}) /\ Has(bufc + 1, ">")
  /\ Skip(2) /\ Single("RAR")
  /\ UNCHANGED <<fixed, string, errs, comments>>

(* A character no token begins with; bufc stays in front of it.            *)
Invalid ==
  /\ \/ AtNext({"bad", "\\"})
     \/ AtNext({">"}) /\ ~Has(bufc + 1, ">")
  /\ errs' = errs + 1 /\ Fail
  /\ UNCHANGED <<fixed, place, string, tk, comments>>

End ==
  /\ status = "next" /\ bufc >= bufe
  /\ tk' = [NoToken EXCEPT !.type = "END"] /\ Loop("end")
  /\ UNCHANGED <<fixed, place, string, errs, comments>>

-----------------------------------------------------------------------------
(* Comments.                                                               *)
LineComment ==
  /\ \/ AtNext({";"}) /\ Skip(1)
     \/ AtNext({"/"}) /\ Has(bufc + 1, "/") /\ Skip(2)
  /\ Loop("comment")
  /\ UNCHANGED <<fixed, string, errs, tk, comments>>

(* The comment takes its line end along. *)
EatCommentAll ==
  /\ status = "comment"
  /\ CASE bufc >= bufe      -> Skip(0) /\ Loop("next")
       [] HasOf(bufc, Ends) -> NewLine /\ Loop("next")
       [] OTHER             -> Skip(1) /\ Loop("comment")
  /\ UNCHANGED <<fixed, string, errs, tk, comments>>

EatComment ==
  /\ status = "comment"
  /\ IF bufc >= bufe \/ HasOf(bufc, Ends)
     THEN Skip(0) /\ Loop("next")
     ELSE Skip(1) /\ Loop("comment")
  /\ UNCHANGED <<fixed, string, errs, tk, comments>>

BlockComment ==
  /\ AtNext({"/"}) /\ Has(bufc + 1, "*")
  /\ Skip(2) /\ Loop("block")
  /\ UNCHANGED <<fixed, string, errs, tk, comments>>

(* _eat_mlines_comment: only CR, with or without LF, counts as a line end. *)
EatBlock ==
  /\ status = "block" /\ bufc < bufe
  /\ IF Has(bufc, "*") /\ Has(bufc + 1, "/")
     THEN Skip(2) /\ Loop("next")
     ELSE IF Has(bufc, "CR") THEN NewLine /\ Loop("block")
                             ELSE Skip(1) /\ Loop("block")
  /\ comments' = comments \cup bufc..(bufc' - 1)
  /\ UNCHANGED <<fixed, string, errs, tk>>

(* A comment that is never closed is waited for at the end of the text. *)
EndOfBlockWaits ==
  /\ status = "block" /\ bufc >= bufe
  /\ Loop("block")
  /\ UNCHANGED <<fixed, place, string, errs, tk, comments>>

EndOfBlock ==
  /\ status = "block" /\ bufc >= bufe
  /\ Loop("next")
  /\ UNCHANGED <<fixed, place, string, errs, tk, comments>>

-----------------------------------------------------------------------------
(* _alpha_token: a name, or a label when a colon follows at once.          *)
Alpha ==
  /\ AtNext(Letters \cup {"_", "$"})
  /\ tk' = [tk EXCEPT !.type = "KEY", !.key = bufc] /\ Loop("alpha")
  /\ UNCHANGED <<fixed, place, string, errs, comments>>

Name(key, kend) ==
  CASE buf[key] = "$" /\ kend = key + 1                        -> "DOLLAR"
    [] buf[key] = "$" /\ kend = key + 2 /\ buf[key + 1] = "$"  -> "DDOLL"
    [] OTHER                                                   -> "KEY"

AlphaMore ==
  /\ status = "alpha"
  /\ HasOf(bufc, NameChar)
  /\ Skip(1)
  /\ UNCHANGED <<fixed, string, errs, tk, status, given, comments>>

AlphaEnd ==
  /\ status = "alpha"
  /\ ~HasOf(bufc, NameChar)
  /\ IF Has(bufc, ":")
     THEN Skip(1) /\ Give([tk EXCEPT !.type = "LABEL", !.kend = bufc])
     ELSE Skip(0) /\ Give([tk EXCEPT !.type = Name(tk.key, bufc), !.kend = bufc])
  /\ UNCHANGED <<fixed, string, errs, comments>>

(* _num_token: digits and hexadecimal digits, one dot, an x behind a       *)
(* leading zero, and an h that ends it.  The suffix b never ends anything: *)
(* it is a hexadecimal digit.                                              *)
Num ==
  /\ AtNext(Digits)
  /\ tk' = [tk EXCEPT !.type = "NUM", !.key = bufc] /\ Loop("num")
  /\ UNCHANGED <<fixed, place, string, errs, comments>>

dot_flag == \E i \in tk.key..(bufc - 1) : buf[i] = "."
NumChar(i) ==
  \/ HasOf(i, Digits \cup {"a", "b"})
  \/ Has(i, ".") /\ ~dot_flag
  \/ Has(i, "x") /\ i = tk.key + 1 /\ buf[tk.key] = "0"

NumMore ==
  /\ status = "num" /\ NumChar(bufc)
  /\ Skip(1)
  /\ UNCHANGED <<fixed, string, errs, tk, status, given, comments>>

(* A second dot is reported, and the token is returned all the same.       *)
NumEnd ==
  /\ status = "num" /\ ~NumChar(bufc)
  /\ Skip(IF Has(bufc, "h") THEN 1 ELSE 0)
  /\ errs' = IF Has(bufc, ".") THEN errs + 1 ELSE errs
  /\ Give([tk EXCEPT !.kend = bufc'])
  /\ UNCHANGED <<fixed, string, comments>>

-----------------------------------------------------------------------------
(* _str_token.  kend points into the text as long as the string stands     *)
(* there as it is meant, and into tk->buff from the first doubled quote or *)
(* escape on; key points into the text in both cases.                      *)
OpenString ==
  /\ AtNext(Quotes) /\ bufc + 1 < bufe
  /\ cSep' = buf[bufc] /\ Skip(1)
  /\ tk' = [tk EXCEPT !.type = "STR", !.key = bufc'] /\ Loop("str")
  /\ UNCHANGED <<fixed, buff, errs, comments>>

(* Nothing follows the quote: the loop looks at the character behind the   *)
(* text before it looks where the text ends.  The assertion stops the      *)
(* debug build; otherwise there is a zero, or no memory to read.           *)
OpenAtEnd ==
  /\ AtNext(Quotes) /\ bufc + 1 = bufe
  /\ cSep' = buf[bufc]
  /\ \E n \in {1, 2} : Skip(n)
  /\ tk' = NoToken /\ Fail
  /\ UNCHANGED <<fixed, buff, errs, comments>>

(* ENSURE_LOCAL_BUFF, and the character c behind what it copied.           *)
Local  == IF tk.local THEN buff ELSE SubSeq(buf, tk.key, Min2(tk.key + BufSize, bufc) - 1)
Put(s, c) == IF Len(s) < BufSize - 1 THEN Append(s, c) ELSE s
ToLocal(c) == buff' = Put(Local, c) /\ tk' = [tk EXCEPT !.local = TRUE]
Copy(s)    == buff' = IF tk.local THEN s ELSE buff

AtStr == status = "str" /\ bufc < bufe
Doubled == Has(bufc, cSep) /\ Has(bufc + 1, cSep)
Escape  == Has(bufc, "\\") /\ bufc + 1 < bufe

CloseString ==
  /\ AtStr /\ Has(bufc, cSep) /\ ~Doubled
  /\ Skip(1)
  /\ Give([tk EXCEPT !.kend = IF tk.local THEN Len(buff) ELSE bufc])
  /\ UNCHANGED <<fixed, string, errs, comments>>

DoubledQuote ==
  /\ AtStr /\ Doubled
  /\ ToLocal(cSep) /\ Skip(2)
  /\ UNCHANGED <<fixed, cSep, errs, status, given, comments>>

EscapeLetter ==
  /\ AtStr /\ Escape /\ HasOf(bufc + 1, {"r", "n", "t"})
  /\ ToLocal(CASE buf[bufc + 1] = "r" -> "CR" [] buf[bufc + 1] = "n" -> "LF"
               [] buf[bufc + 1] = "t" -> "sp")
  /\ Skip(2)
  /\ UNCHANGED <<fixed, cSep, errs, status, given, comments>>

(* Any other character: the backslash stands for itself, and the character *)
(* is looked at in its own right.                                          *)
Backslash ==
  /\ AtStr /\ Escape /\ ~HasOf(bufc + 1, {"r", "n", "t"})
  /\ ToLocal("\\") /\ Skip(1)
  /\ UNCHANGED <<fixed, cSep, errs, status, given, comments>>

StrLineEnd ==
  /\ AtStr /\ HasOf(bufc, Ends)
  /\ Copy(IF PastEnd(bufc) = bufc + 2 THEN Put(Put(buff, "CR"), "LF") ELSE Put(buff, buf[bufc]))
  /\ NewLine
  /\ UNCHANGED <<fixed, cSep, errs, tk, status, given, comments>>

StrMore ==
  /\ AtStr /\ ~HasOf(bufc, Ends \cup {cSep}) /\ ~Escape
  /\ Copy(Put(buff, buf[bufc])) /\ Skip(1)
  /\ UNCHANGED <<fixed, cSep, errs, tk, status, given, comments>>

Unterminated ==
  /\ status = "str" /\ bufc >= bufe
  /\ tk' = NoToken /\ Fail
  /\ UNCHANGED <<fixed, place, string, errs, comments>>

-----------------------------------------------------------------------------
(* The row goes on from the pass before. *)
ClearKeepsRow ==
  /\ status = "end" /\ pass < MaxPass
  /\ bufc' = 1 /\ line_start' = 1
  /\ tk' = NoToken /\ status' = "idle"
  /\ pass' = pass + 1 /\ given' = 0 /\ comments' = {}
  /\ UNCHANGED <<curr_row, text, string, errs>>

(* The next pass: blexer_clear, and blex_token_clear.                      *)
Clear ==
  /\ status = "end" /\ pass < MaxPass
  /\ bufc' = 1 /\ line_start' = 1 /\ curr_row' = 0
  /\ tk' = NoToken /\ status' = "idle"
  /\ pass' = pass + 1 /\ given' = 0 /\ comments' = {}
  /\ UNCHANGED <<text, string, errs>>

Next ==
  \/ Call \/ Blank \/ LineEnd \/ Mark \/ Slash \/ Shift \/ Invalid \/ End
  \/ LineComment \/ EatComment \/ BlockComment \/ EatBlock \/ EndOfBlock
  \/ Alpha \/ AlphaMore \/ AlphaEnd \/ Num \/ NumMore \/ NumEnd
  \/ OpenString \/ OpenAtEnd \/ CloseString \/ DoubledQuote \/ EscapeLetter
  \/ Backslash \/ StrLineEnd \/ StrMore \/ Unterminated
  \/ Clear

Spec     == Init /\ [][Next]_vars
FairSpec == Spec /\ WF_vars(Next)

-----------------------------------------------------------------------------
(* Every variable has its type.  The lexer stays inside the text, and at   *)
(* its end it stands exactly there, as blexer_next asserts (line 355);     *)
(* only the opening quote without anything behind it leads further.        *)
WithinText ==
  /\ buf \in Seq(Chars)
  /\ bufc \in 1..bufe + 1 /\ line_start \in 1..bufe /\ curr_row \in Nat /\ errs \in Nat
  /\ (status # "error" => bufc <= bufe)
  /\ tk \in [type : Types, key : 0..bufe, kend : Nat, local : BOOLEAN]
  /\ buff \in Seq(Chars) /\ cSep \in Quotes
  /\ status \in {"idle", "next", "comment", "block", "alpha", "num", "str", "end", "error"}
  /\ pass \in 1..MaxPass /\ given \in Nat /\ comments \subseteq DOMAIN buf

(* Is i the first character of a line end, and does the lexer count it? In *)
(* block comments an LF without a CR does not count.                       *)
EndsLine(i) == \/ buf[i] = "CR"
               \/ buf[i] = "LF" /\ ~(i > 1 /\ buf[i - 1] = "CR")
Counted(i)  == EndsLine(i) /\ ~(buf[i] = "LF" /\ i \in comments)

(* The row and the start of the line, which every message names, are right *)
(* wherever the lexer stands and in every pass: each line end of the text  *)
(* was counted once, CR and LF together, in strings and comments too; but  *)
(* for the LFs _eat_mlines_comment passes over.                            *)
RowAndColumn ==
  /\ curr_row = Cardinality({i \in DOMAIN buf : i < bufc /\ Counted(i)})
  /\ \A i \in DOMAIN buf : (line_start <= i /\ i < bufc) => ~Counted(i)
  /\ line_start > 1 => buf[line_start - 1] \in Ends

(* What the string in tk says, for a reader of the token.                  *)
Said == IF tk.local THEN buff ELSE SubSeq(buf, tk.key, tk.kend - 1)
Cut(s) == IF tk.local THEN SubSeq(s, 1, Min2(Len(s), Len(buff))) ELSE s

(* A text that was written as lexemes is read as these: in every pass the  *)
(* n-th token has the type and the characters its author gave the n-th     *)
(* lexeme, blanks and comments between them or not, and the end comes      *)
(* behind the last one.  Strings with escapes are in tk->buff, cut to its  *)
(* size.                                                                   *)
AsWritten ==
  text.plain =>
    /\ status # "error" /\ errs = 0
    /\ (status = "idle" /\ given > 0) =>
         /\ given <= Len(text.tokens)
         /\ LET meant == text.tokens[given] IN
            /\ tk.type = meant.type
            /\ tk.type \in {"KEY", "LABEL", "NUM"} => Said = meant.says
            /\ tk.type = "STR" => /\ Said = Cut(meant.says)
                                  /\ tk.local <=> meant.escaped
                                  /\ Len(Said) >= Min2(Len(meant.says), BufSize - 1)
    /\ status = "end" => given = Len(text.tokens)

(* Every pass over every text ends, at the end of the text or with an      *)
(* error: no character holds blexer_next up.                               *)
PassEnds == <>(status = "error" \/ (status = "end" /\ pass = MaxPass))
=============================================================================
